--------------------------- MODULE WebLinkProofs ---------------------------
(***************************************************************************)
(* Proofs about WebLink, for every number of sessions, of polls, of queue  *)
(* blocks and of mailbox slots.                                            *)
(***************************************************************************)
EXTENDS WebLink, TLAPS

\* A frame number within the rotation stays within it.
LEMMA NextSession == ASSUME NEW n \in Nat
                     PROVE  (n % NSess) + 1 \in Sessions
BY WebLinkAssumption DEF Sessions

\* What a queue of elements of S holds after a message is linked or taken.
LEMMA QueueStep ==
  ASSUME NEW S, NEW q \in Seq(S), NEW e \in S
  PROVE  /\ Append(q, e) \in Seq(S)
         /\ Len(Append(q, e)) = Len(q) + 1
         /\ Append(q, e) # <<>>
         /\ q # <<>> => /\ Head(q) \in S
                        /\ Tail(q) \in Seq(S)
                        /\ Len(Tail(q)) = Len(q) - 1
<1>1. Append(q, e) \in Seq(S) /\ Len(Append(q, e)) = Len(q) + 1
  OBVIOUS
<1>2. Append(q, e) # <<>>
  <2>1. Len(q) \in Nat /\ Len(<<>>) = 0
    OBVIOUS
  <2>2. QED
    BY <1>1, <2>1
<1>3. ASSUME q # <<>>
      PROVE  Head(q) \in S /\ Tail(q) \in Seq(S) /\ Len(Tail(q)) = Len(q) - 1
  BY <1>3
<1>4. QED
  BY <1>1, <1>2, <1>3

-----------------------------------------------------------------------------
\* The state has its types, and the two queues never exceed their capacity,
\* blocks in flight included.
LEMMA TypeInit == Init => TypeOK
<1> SUFFICES ASSUME Init PROVE TypeOK
  OBVIOUS
<1> USE WebLinkAssumption DEF Init
<1>1. webmsg_sendmq \in Seq(Messages) /\ webmsg_recemb \in Seq(Frame)
  OBVIOUS
<1>2. Len(webmsg_sendmq) + InFlight <= MqCap /\ Len(webmsg_recemb) <= MbCap
  BY DEF InFlight
<1>3. sess \in Sessions /\ comm_key \in Sessions \cup {0} /\ i \in 0 .. AuthPolls
  BY DEF Sessions
<1>4. cpc \in ConnPc /\ hpc \in HandlePc
  BY DEF ConnPc, HandlePc
<1>5. QED
  BY <1>1, <1>2, <1>3, <1>4 DEF TypeOK

LEMMA TypeStep == TypeOK /\ [Next]_vars => TypeOK'
<1> SUFFICES ASSUME TypeOK, [Next]_vars PROVE TypeOK'
  OBVIOUS
<1> USE WebLinkAssumption
<1>env. CASE Environment
  <2>1. CASE LinkUp
    BY <2>1 DEF LinkUp, TypeOK, InFlight, conn, handle
  <2>2. CASE LinkDown
    BY <2>2 DEF LinkDown, PinFalls, TypeOK, InFlight, conn, handle
  <2>3. ASSUME NEW f \in Frame, Deliver(f)
        PROVE  webmsg_recemb' \in Seq(Frame) /\ Len(webmsg_recemb)' <= MbCap
    BY <2>3, QueueStep DEF Deliver, TypeOK
  <2>4. CASE ServerAnswer
    <3>1. PICK k \in {"grant", "deny"} : Deliver([kind |-> k, sess |-> sess])
      BY <2>4 DEF ServerAnswer
    <3>2. [kind |-> k, sess |-> sess] \in Frame
      BY <3>1 DEF TypeOK, Frame, FrameKinds
    <3>3. webmsg_recemb' \in Seq(Frame) /\ Len(webmsg_recemb)' <= MbCap
      BY <2>3, <3>1, <3>2
    <3>4. srv' \in {"none", "granted"}
      BY <2>4 DEF ServerAnswer
    <3>5. QED
      BY <2>4, <3>3, <3>4
      DEF ServerAnswer, TypeOK, InFlight, pins, conn, handle
  <2>5. CASE ServerCommand
    <3>1. PICK k \in Commands : Deliver([kind |-> k, sess |-> sess])
      BY <2>5 DEF ServerCommand
    <3>2. [kind |-> k, sess |-> sess] \in Frame
      BY <3>1 DEF TypeOK, Frame, FrameKinds, Commands
    <3>3. webmsg_recemb' \in Seq(Frame) /\ Len(webmsg_recemb)' <= MbCap
      BY <2>3, <3>1, <3>2
    <3>4. QED
      BY <2>5, <3>3 DEF ServerCommand, TypeOK, InFlight, pins, conn, handle
  <2>6. QED
    BY <1>env, <2>1, <2>2, <2>4, <2>5 DEF Environment
<1>isr. CASE EXTI1_IRQHandler
  <2>1. InFlight' = InFlight
    BY <1>isr DEF EXTI1_IRQHandler, InFlight, conn, handle
  <2>2. /\ webmsg_sendmq' \in Seq(Messages)
        /\ Len(webmsg_sendmq)' + InFlight <= MqCap
    <3>1. InFlight \in Nat
      BY DEF InFlight
    <3>2. CASE UNCHANGED webmsg_sendmq
      BY <3>2 DEF TypeOK
    <3>3. CASE MqFree /\ webmsg_sendmq' = Append(webmsg_sendmq, "nul")
      BY <3>1, <3>3, QueueStep DEF TypeOK, MqFree, Messages
    <3>4. QED
      BY <1>isr, <3>2, <3>3 DEF EXTI1_IRQHandler, EndSession, MqSendNul
  <2>3. QED
    BY <1>isr, <2>1, <2>2
    DEF EXTI1_IRQHandler, EndSession, TypeOK, conn, handle
<1>conn. CASE newwebconnect_entry
  <2> USE DEF TypeOK, ConnGoto, ConnPc, ConnLoop, pins, handle
  <2>1. CASE ResetModule
    BY <2>1 DEF ResetModule, PinFalls, InFlight
  <2>2. CASE MaskLika
    BY <2>2 DEF MaskLika, SetLIKAPin, InFlight
  <2>3. CASE ResetDelay
    BY <2>3 DEF ResetDelay, InFlight
  <2>4. CASE LinkFound
    BY <2>4 DEF LinkFound, InFlight
  <2>5. CASE SendToken
    <3>1. sess' \in Sessions
      BY <2>5, NextSession DEF SendToken, Sessions
    <3>2. QED
      BY <2>5, <3>1 DEF SendToken, InFlight
  <2>6. CASE AuthPoll
    BY <2>6 DEF AuthPoll, InFlight
  <2>7. CASE AuthTimeout
    BY <2>7 DEF AuthTimeout, InFlight
  <2>8. CASE ArmLika
    BY <2>8 DEF ArmLika, SetLIKAPin, InFlight
  <2>9. CASE RecvTake
    <3>1. /\ Head(webmsg_sendmq) \in Messages
          /\ Tail(webmsg_sendmq) \in Seq(Messages)
          /\ Len(Tail(webmsg_sendmq)) = Len(webmsg_sendmq) - 1
      BY <2>9 DEF RecvTake
    <3>2. InFlight' = InFlight + 1
      BY <2>9 DEF RecvTake, InFlight
    <3>3. QED
      BY <2>9, <3>1, <3>2 DEF RecvTake, InFlight
  <2>10. CASE RecvFree
    BY <2>10 DEF RecvFree, InFlight
  <2>11. CASE RecvTimeout
    BY <2>11 DEF RecvTimeout, InFlight
  <2>12. CASE CheckFlag
    BY <2>12 DEF CheckFlag, InFlight
  <2>13. CASE CheckEmpty
    BY <2>13 DEF CheckEmpty, InFlight
  <2>14. CASE Send
    BY <2>14 DEF Send, InFlight
  <2>15. QED
    BY <1>conn, <2>1, <2>2, <2>3, <2>4, <2>5, <2>6, <2>7, <2>8, <2>9, <2>10,
       <2>11, <2>12, <2>13, <2>14 DEF newwebconnect_entry
<1>handle. CASE newwebhandle_entry
  <2> USE DEF TypeOK, HandleGoto, HandlePc, pins, conn
  <2>1. CASE MbRecv
    <3>1. /\ Head(webmsg_recemb) \in Frame
          /\ Tail(webmsg_recemb) \in Seq(Frame)
          /\ Len(Tail(webmsg_recemb)) = Len(webmsg_recemb) - 1
      BY <2>1 DEF MbRecv
    <3>2. QED
      BY <2>1, <3>1 DEF MbRecv, InFlight
  <2>2. CASE TakeAnswer
    BY <2>2 DEF TakeAnswer, InFlight
  <2>3. CASE KeyCopied
    BY <2>3 DEF KeyCopied, InFlight, Frame
  <2>4. CASE SetFlag
    BY <2>4 DEF SetFlag, InFlight
  <2>5. CASE TakeCommand
    BY <2>5 DEF TakeCommand, InFlight
  <2>6. CASE PostReply
    BY <2>6 DEF PostReply, MqFree, InFlight, AfterReply
  <2>7. CASE LinkReply
    <3>1. /\ Append(webmsg_sendmq, "reply") \in Seq(Messages)
          /\ Len(Append(webmsg_sendmq, "reply")) = Len(webmsg_sendmq) + 1
      BY DEF Messages
    <3>2. InFlight' = InFlight - 1
      BY <2>7 DEF LinkReply, InFlight, AfterReply
    <3>3. InFlight \in Nat
      BY DEF InFlight
    <3>4. QED
      BY <2>7, <3>1, <3>2, <3>3 DEF LinkReply, AfterReply
  <2>8. CASE PulseEnds
    BY <2>8 DEF PulseEnds, InFlight
  <2>9. QED
    BY <1>handle, <2>1, <2>2, <2>3, <2>4, <2>5, <2>6, <2>7, <2>8
    DEF newwebhandle_entry
<1>stutter. CASE UNCHANGED vars
  BY <1>stutter DEF vars, TypeOK, InFlight, pins, conn, handle
<1>q. QED
  BY <1>env, <1>isr, <1>conn, <1>handle, <1>stutter DEF Next

\* Type correctness of the link, the queue's blocks in flight included.
THEOREM TypeCorrect == Spec => []TypeOK
BY TypeInit, TypeStep, PTL DEF Spec

-----------------------------------------------------------------------------
(* Waking T_conn, and the key it is woken to use.  The interrupt lowers      *)
(* conn_flag and posts to the queue in one go; the invariant says where      *)
(* T_conn can be when that happens.                                          *)

\* Between the end of the polls and the arming, nothing lowers conn_flag.
ArmsInSession == cpc = "arm" => conn_flag = 1

\* T_handle writes comm_key only while the link counts as unauthenticated,
\* and raises conn_flag over a complete key.
KeyBeforeFlag ==
  /\ hpc \in {"key", "flag"} => conn_flag = 0
  /\ hpc = "flag" => comm_key # 0

WakeInv ==
  /\ TypeOK
  /\ NoLostWakeup
  /\ ArmedOnlyInSession
  /\ ArmsInSession
  /\ KeyBeforeFlag
  /\ KeyComplete

LEMMA WakeInit == Init => WakeInv
BY TypeInit DEF Init, WakeInv, NoLostWakeup, ArmedOnlyInSession, ArmsInSession,
                KeyBeforeFlag, KeyComplete

LEMMA WakeStep == WakeInv /\ [Next]_vars => WakeInv'
<1> SUFFICES ASSUME WakeInv, [Next]_vars PROVE WakeInv'
  OBVIOUS
<1>type. TypeOK'
  BY TypeStep DEF WakeInv
<1> USE DEF WakeInv, NoLostWakeup, ArmedOnlyInSession, ArmsInSession,
            KeyBeforeFlag, KeyComplete
<1>env. CASE Environment
  BY <1>env, <1>type
  DEF Environment, LinkUp, LinkDown, PinFalls, ServerAnswer, ServerCommand,
      pins, conn, handle
<1>isr. CASE EXTI1_IRQHandler
  <2>1. CASE conn_flag = 1
    \* The loss is posted, or the queue is full: then a message is linked, or
    \* T_handle, whose block is the only one in flight, is about to link one.
    <3>1. ASSUME cpc # "copy", hpc # "link", webmsg_sendmq = <<>>
          PROVE  MqFree
      BY <3>1, WebLinkAssumption DEF MqFree, InFlight
    <3>2. cpc # "copy" /\ hpc # "link" => webmsg_sendmq' # <<>>
      <4>1. SUFFICES ASSUME cpc # "copy", hpc # "link"
                     PROVE  webmsg_sendmq' # <<>>
        OBVIOUS
      <4>2. Append(webmsg_sendmq, "nul") # <<>>
        BY QueueStep DEF TypeOK, Messages
      <4>3. CASE webmsg_sendmq = <<>>
        BY <1>isr, <2>1, <3>1, <4>1, <4>2, <4>3
        DEF EXTI1_IRQHandler, EndSession, MqSendNul
      <4>4. CASE webmsg_sendmq # <<>>
        BY <1>isr, <2>1, <4>2, <4>4
        DEF EXTI1_IRQHandler, EndSession, MqSendNul
      <4>5. QED
        BY <4>3, <4>4
    <3>3. /\ imr' = FALSE
          /\ conn_flag' = 0
          /\ UNCHANGED <<cpc, hpc, comm_key>>
      BY <1>isr, <2>1 DEF EXTI1_IRQHandler, EndSession, conn, handle
    <3>4. ArmsInSession'
      BY <1>isr, <3>3 DEF EXTI1_IRQHandler, ConnLoop
    <3>5. NoLostWakeup'
      BY <3>2, <3>3
    <3>6. QED
      BY <1>type, <3>3, <3>4, <3>5
  <2>2. CASE conn_flag # 1
    BY <1>isr, <1>type, <2>2 DEF EXTI1_IRQHandler, conn, handle
  <2>3. QED
    BY <2>1, <2>2
<1>conn. CASE newwebconnect_entry
  <2> USE DEF ConnGoto, pins, handle
  <2>1. CASE ResetModule \/ MaskLika \/ ResetDelay \/ LinkFound \/ SendToken
    BY <1>type, <2>1
    DEF ResetModule, PinFalls, MaskLika, SetLIKAPin, ResetDelay, LinkFound,
        SendToken, ConnLoop
  <2>2. CASE AuthPoll \/ AuthTimeout \/ ArmLika
    BY <1>type, <2>2
    DEF AuthPoll, AuthTimeout, ArmLika, SetLIKAPin, ConnLoop, TypeOK
  <2>3. CASE RecvTake \/ RecvFree \/ RecvTimeout
    BY <1>type, <2>3 DEF RecvTake, RecvFree, RecvTimeout, ConnLoop
  <2>4. CASE CheckFlag \/ CheckEmpty \/ Send
    BY <1>type, <2>4 DEF CheckFlag, CheckEmpty, Send, ConnLoop, TypeOK
  <2>5. QED
    BY <1>conn, <2>1, <2>2, <2>3, <2>4 DEF newwebconnect_entry
<1>handle. CASE newwebhandle_entry
  <2> USE DEF HandleGoto, pins, conn
  <2>1. CASE MbRecv \/ TakeAnswer \/ TakeCommand \/ PostReply \/ PulseEnds
    BY <1>type, <2>1
    DEF MbRecv, TakeAnswer, TakeCommand, PostReply, PulseEnds, AfterReply
  <2>2. CASE KeyCopied
    <3>1. comm_key' # 0
      BY <2>2, WebLinkAssumption DEF KeyCopied, TypeOK, Frame, Sessions
    <3>2. QED
      BY <1>type, <2>2, <3>1 DEF KeyCopied
  <2>3. CASE SetFlag
    BY <1>type, <2>3 DEF SetFlag
  <2>4. CASE LinkReply
    <3>1. webmsg_sendmq' # <<>>
      BY <2>4, QueueStep DEF LinkReply, TypeOK, Messages
    <3>2. QED
      BY <1>type, <2>4, <3>1 DEF LinkReply, AfterReply
  <2>5. QED
    BY <1>handle, <2>1, <2>2, <2>3, <2>4 DEF newwebhandle_entry
<1>stutter. CASE UNCHANGED vars
  BY <1>type, <1>stutter DEF vars, pins, conn, handle
<1>q. QED
  BY <1>env, <1>isr, <1>conn, <1>handle, <1>stutter DEF Next

LEMMA WakeInvariant == Spec => []WakeInv
BY WakeInit, WakeStep, PTL DEF Spec

\* T_conn is never left waiting after the interrupt reported the loss of the
\* link, whatever fills the queue: the interrupt may ignore rt_mq_send's result.
THEOREM Wakeup == Spec => []NoLostWakeup
BY WakeInvariant, PTL DEF WakeInv

\* conn_flag is never 1 over a key that is absent or half copied.
THEOREM KeyIsComplete == Spec => []KeyComplete
BY WakeInvariant, PTL DEF WakeInv

\* EXTI1 is unmasked only inside the send loop of an authenticated session.
THEOREM ArmedInSession == Spec => []ArmedOnlyInSession
BY WakeInvariant, PTL DEF WakeInv

\* The key of an established session is never written over.
THEOREM KeyIsStable == Spec => KeyStable
<1>1. ASSUME WakeInv, [Next]_vars, conn_flag = 1, conn_flag' = 1
      PROVE  comm_key' = comm_key
  <2>1. CASE TakeAnswer \/ KeyCopied
    BY <1>1, <2>1 DEF TakeAnswer, KeyCopied, HandleGoto, WakeInv, KeyBeforeFlag
  <2>2. CASE ~(TakeAnswer \/ KeyCopied)
    BY <1>1, <2>2
    DEF Next, vars, Environment, LinkUp, LinkDown, ServerAnswer, ServerCommand,
        EXTI1_IRQHandler, newwebconnect_entry, ResetModule, MaskLika,
        ResetDelay, LinkFound, SendToken, AuthPoll, AuthTimeout, ArmLika,
        RecvTake, RecvFree, RecvTimeout, CheckFlag, CheckEmpty, Send,
        newwebhandle_entry, MbRecv, SetFlag, TakeCommand, PostReply, LinkReply,
        PulseEnds
  <2>3. QED
    BY <2>1, <2>2
<1>2. WakeInv /\ [Next]_vars
        => [conn_flag = 1 /\ conn_flag' = 1 => comm_key' = comm_key]_vars
  BY <1>1
<1>3. QED
  BY <1>2, WakeInvariant, PTL DEF Spec, KeyStable

-----------------------------------------------------------------------------
(* With a server that answers in time: at most one grant is under way, it is *)
(* for the token being waited on, and it is gone before T_conn gives up.     *)

GrantInHand == hpc \in {"got", "key", "flag"} /\ msg.kind = "grant"
GrantAt(n) == webmsg_recemb[n].kind = "grant"

GrantForToken ==
  /\ GrantInHand => msg.sess = sess
  /\ \A n \in DOMAIN webmsg_recemb : GrantAt(n) => webmsg_recemb[n].sess = sess

OneGrant ==
  /\ \A m, n \in DOMAIN webmsg_recemb : GrantAt(m) /\ GrantAt(n) => m = n
  /\ GrantInHand => \A n \in DOMAIN webmsg_recemb : ~GrantAt(n)

GrantWhilePolling ==
  AnswerUnderWay =>
    cpc = "auth" /\ i < AuthPolls /\ conn_flag = 0 /\ srv # "asked"

KeyOfSession ==
  /\ conn_flag = 1 => cpc \in {"auth", "arm"} \cup ConnLoop
  /\ conn_flag = 1 /\ cpc = "auth" => i < AuthPolls
  /\ conn_flag = 1 \/ cpc \in {"arm"} \cup ConnLoop => comm_key = sess
  /\ hpc \in {"key", "flag"} => msg.kind = "grant"
  /\ hpc = "flag" => comm_key = msg.sess
  /\ srv = "asked" => conn_flag = 0 /\ cpc \notin {"arm"} \cup ConnLoop

GrantInv ==
  /\ WakeInv
  /\ GrantForToken
  /\ OneGrant
  /\ GrantWhilePolling
  /\ KeyOfSession

\* Where a frame in the mailbox was before a delivery.
LEMMA Delivered ==
  ASSUME TypeOK, NEW f \in Frame, Deliver(f), NEW n \in DOMAIN webmsg_recemb'
  PROVE  \/ n \in DOMAIN webmsg_recemb /\ webmsg_recemb'[n] = webmsg_recemb[n]
         \/ n = Len(webmsg_recemb) + 1 /\ webmsg_recemb'[n] = f
<1>1. webmsg_recemb \in Seq(Frame) /\ DOMAIN webmsg_recemb = 1 .. Len(webmsg_recemb)
  BY DEF TypeOK
<1>2. CASE UNCHANGED webmsg_recemb
  BY <1>2
<1>3. CASE webmsg_recemb' = Append(webmsg_recemb, f)
  BY <1>1, <1>3
<1>4. QED
  BY <1>2, <1>3 DEF Deliver

\* Where a frame in the mailbox, or in T_handle's hand, was before rt_mb_recv.
LEMMA Received ==
  ASSUME TypeOK, MbRecv
  PROVE  /\ 1 \in DOMAIN webmsg_recemb /\ msg' = webmsg_recemb[1]
         /\ \A n \in DOMAIN webmsg_recemb' :
              /\ n \in Nat /\ n + 1 # 1
              /\ n + 1 \in DOMAIN webmsg_recemb
              /\ webmsg_recemb'[n] = webmsg_recemb[n + 1]
BY DEF TypeOK, MbRecv

LEMMA GrantInit == Init => GrantInv
<1> SUFFICES ASSUME Init PROVE GrantInv
  OBVIOUS
<1>1. WakeInv
  BY WakeInit
<1>2. DOMAIN webmsg_recemb = {}
  BY DEF Init
<1>3. QED
  BY <1>1, <1>2
  DEF Init, GrantInv, GrantForToken, OneGrant, GrantWhilePolling, KeyOfSession,
      GrantInHand, AnswerUnderWay, ConnLoop

\* A step that leaves the mailbox and the frame in hand alone keeps the facts
\* about them, unless it sends a token.
LEMMA GrantsUntouched ==
  ASSUME GrantInv, UNCHANGED <<webmsg_recemb, hpc, msg, sess>>
  PROVE  GrantForToken' /\ OneGrant' /\ (AnswerUnderWay' <=> AnswerUnderWay)
BY DEF GrantInv, GrantForToken, OneGrant, GrantInHand, GrantAt, AnswerUnderWay

LEMMA GrantStep == Prompt /\ GrantInv /\ [Next]_vars => GrantInv'
<1> SUFFICES ASSUME Prompt, GrantInv, [Next]_vars PROVE GrantInv'
  OBVIOUS
<1>wake. WakeInv'
  BY WakeStep DEF GrantInv
<1>type. TypeOK
  BY DEF GrantInv, WakeInv
<1>env. CASE Environment
  <2>1. CASE LinkUp \/ LinkDown
    <3>1. UNCHANGED <<webmsg_recemb, hpc, msg, sess, cpc, i, conn_flag, comm_key>>
          /\ (srv' = srv \/ srv' = "none")
      BY <2>1 DEF LinkUp, LinkDown, PinFalls, conn, handle
    <3>2. QED
      BY <1>wake, <3>1, GrantsUntouched
      DEF GrantInv, GrantWhilePolling, KeyOfSession, ConnLoop
  <2>2. CASE ServerAnswer
    <3>1. /\ ~AnswerUnderWay
          /\ cpc = "auth" /\ i < AuthPolls /\ conn_flag = 0
          /\ srv' # "asked"
          /\ UNCHANGED <<hpc, msg, sess, cpc, i, conn_flag, comm_key>>
      BY <2>2
      DEF ServerAnswer, GrantInv, GrantWhilePolling, KeyOfSession, conn, handle
    <3>2. PICK k \in {"grant", "deny"} : Deliver([kind |-> k, sess |-> sess])
      BY <2>2 DEF ServerAnswer
    <3>3. [kind |-> k, sess |-> sess] \in Frame
      BY <1>type, <3>2 DEF TypeOK, Frame, FrameKinds
    <3>4. \A n \in DOMAIN webmsg_recemb' :
            GrantAt(n)' => /\ n = Len(webmsg_recemb) + 1
                           /\ webmsg_recemb'[n].sess = sess
      BY <1>type, <3>1, <3>2, <3>3, Delivered DEF AnswerUnderWay, GrantAt
    <3>5. GrantForToken' /\ OneGrant'
      BY <3>1, <3>4
      DEF GrantInv, GrantForToken, OneGrant, GrantInHand, AnswerUnderWay
    <3>6. QED
      BY <1>wake, <3>1, <3>5 DEF GrantInv, GrantWhilePolling, KeyOfSession
  <2>3. CASE ServerCommand
    <3>1. UNCHANGED <<hpc, msg, sess, cpc, i, conn_flag, comm_key, srv>>
      BY <2>3 DEF ServerCommand, conn, handle
    <3>2. PICK k \in Commands : Deliver([kind |-> k, sess |-> sess])
      BY <2>3 DEF ServerCommand
    <3>3. [kind |-> k, sess |-> sess] \in Frame
      BY <1>type, <3>2 DEF TypeOK, Frame, FrameKinds, Commands
    <3>4. \A n \in DOMAIN webmsg_recemb' :
            GrantAt(n)' => /\ n \in DOMAIN webmsg_recemb
                           /\ webmsg_recemb'[n] = webmsg_recemb[n]
                           /\ GrantAt(n)
      BY <1>type, <3>2, <3>3, Delivered DEF GrantAt, Commands
    <3>5. GrantForToken' /\ OneGrant' /\ (AnswerUnderWay' => AnswerUnderWay)
      BY <3>1, <3>4
      DEF GrantInv, GrantForToken, OneGrant, GrantInHand, AnswerUnderWay, GrantAt
    <3>6. QED
      BY <1>wake, <3>1, <3>5 DEF GrantInv, GrantWhilePolling, KeyOfSession
  <2>4. QED
    BY <1>env, <2>1, <2>2, <2>3 DEF Environment
<1>isr. CASE EXTI1_IRQHandler
  <2>1. /\ UNCHANGED <<webmsg_recemb, hpc, msg, sess, cpc, i, comm_key, srv>>
        /\ conn_flag' = conn_flag \/ conn_flag' = 0
    BY <1>isr DEF EXTI1_IRQHandler, EndSession, conn, handle
  <2>2. QED
    BY <1>wake, <2>1, GrantsUntouched
    DEF GrantInv, GrantWhilePolling, KeyOfSession, ConnLoop
<1>conn. CASE newwebconnect_entry
  <2> USE DEF ConnGoto, pins, handle
  <2>1. CASE SendToken
    <3>1. ~AnswerUnderWay /\ conn_flag = 0
      BY <1>type, <2>1
      DEF SendToken, GrantInv, GrantWhilePolling, KeyOfSession, ConnLoop, TypeOK
    <3>2. UNCHANGED <<webmsg_recemb, hpc, msg, conn_flag, comm_key>> /\ cpc' = "auth"
      BY <2>1 DEF SendToken
    <3>3. ~AnswerUnderWay'
      BY <3>1, <3>2 DEF AnswerUnderWay
    <3>4. GrantForToken' /\ OneGrant'
      BY <3>3 DEF GrantForToken, OneGrant, GrantInHand, GrantAt, AnswerUnderWay
    <3>5. KeyOfSession'
      BY <3>1, <3>2, <3>3
      DEF GrantInv, KeyOfSession, AnswerUnderWay, ConnLoop
    <3>6. QED
      BY <1>wake, <3>3, <3>4, <3>5 DEF GrantInv, GrantWhilePolling
  <2>2. CASE AuthPoll
    <3>1. /\ UNCHANGED <<webmsg_recemb, hpc, msg, sess, conn_flag, comm_key, srv>>
          /\ cpc = "auth"
          /\ \/ conn_flag = 1 /\ cpc' = "arm" /\ i' = i
             \/ /\ conn_flag # 1 /\ cpc' = "auth" /\ i' = i + 1 /\ i < AuthPolls
                /\ i' = AuthPolls => ~AnswerUnderWay
      BY <2>2 DEF AuthPoll
    <3>2. i \in Nat /\ AuthPolls \in Nat
      BY <1>type, WebLinkAssumption DEF TypeOK
    <3>3. GrantWhilePolling'
      BY <3>1, <3>2, GrantsUntouched DEF GrantInv, GrantWhilePolling
    <3>4. QED
      BY <1>wake, <3>1, <3>3, GrantsUntouched DEF GrantInv, KeyOfSession, ConnLoop
  <2>3. CASE ResetModule \/ MaskLika \/ ResetDelay \/ LinkFound \/ AuthTimeout
    <3>1. /\ UNCHANGED <<webmsg_recemb, hpc, msg, sess, conn_flag, comm_key, i>>
          /\ srv' = srv \/ srv' = "none"
          /\ cpc' \notin {"arm"} \cup ConnLoop
          /\ ~AnswerUnderWay /\ conn_flag = 0
      <4>1. CASE AuthTimeout
        \* The polls are over: no answer is under way, and the last poll saw no
        \* flag.
        <5>1. i >= AuthPolls /\ i \in Nat /\ AuthPolls \in Nat
          BY <1>type, <4>1, WebLinkAssumption DEF AuthTimeout, TypeOK
        <5>2. QED
          BY <1>type, <4>1, <5>1
          DEF AuthTimeout, GrantInv, GrantWhilePolling, KeyOfSession, ConnLoop,
              TypeOK
      <4>2. CASE ~AuthTimeout
        BY <1>type, <2>3, <4>2
        DEF ResetModule, PinFalls, MaskLika, ResetDelay, LinkFound, GrantInv,
            GrantWhilePolling, KeyOfSession, ConnLoop, TypeOK
      <4>3. QED
        BY <4>1, <4>2
    <3>2. QED
      BY <1>wake, <3>1, GrantsUntouched
      DEF GrantInv, GrantWhilePolling, KeyOfSession
  <2>4. CASE \/ ArmLika \/ RecvTake \/ RecvFree \/ RecvTimeout
             \/ CheckFlag \/ CheckEmpty \/ Send
    <3>1. /\ UNCHANGED <<webmsg_recemb, hpc, msg, sess, conn_flag, comm_key, srv>>
          /\ cpc \in {"arm"} \cup ConnLoop
          /\ cpc' \in ConnLoop \/ (cpc' = "reset" /\ conn_flag = 0)
      BY <2>4
      DEF ArmLika, RecvTake, RecvFree, RecvTimeout, CheckFlag, CheckEmpty, Send,
          ConnLoop
    <3>2. QED
      BY <1>wake, <3>1, GrantsUntouched
      DEF GrantInv, GrantWhilePolling, KeyOfSession, ConnLoop
  <2>5. QED
    BY <1>conn, <2>1, <2>2, <2>3, <2>4 DEF newwebconnect_entry
<1>handle. CASE newwebhandle_entry
  <2> USE DEF HandleGoto, pins, conn
  <2>1. CASE MbRecv
    <3>1. /\ UNCHANGED <<sess, cpc, i, conn_flag, comm_key, srv>>
          /\ hpc = "wait" /\ hpc' = "got"
      BY <2>1 DEF MbRecv
    <3>2. GrantInHand' => GrantAt(1)
      BY <1>type, <2>1, Received DEF GrantInHand, GrantAt
    <3>3. \A n \in DOMAIN webmsg_recemb' : GrantAt(n)' => GrantAt(n + 1)
      BY <1>type, <2>1, Received DEF GrantAt
    <3>4. AnswerUnderWay' => AnswerUnderWay
      BY <1>type, <2>1, <3>2, <3>3, Received
      DEF AnswerUnderWay, GrantInHand, GrantAt
    <3>5. GrantForToken'
      BY <1>type, <2>1, <3>1, <3>2, <3>3, Received DEF GrantInv, GrantForToken
    <3>6. OneGrant'
      BY <1>type, <2>1, <3>2, <3>3, Received DEF GrantInv, OneGrant
    <3>7. QED
      BY <1>wake, <3>1, <3>4, <3>5, <3>6
      DEF GrantInv, GrantWhilePolling, KeyOfSession
  <2>2. CASE TakeAnswer \/ KeyCopied
    <3>1. /\ UNCHANGED <<webmsg_recemb, sess, cpc, i, conn_flag, srv>>
          /\ GrantInHand' => GrantInHand /\ msg' = msg
          /\ hpc' \in {"key", "flag"} => msg.kind = "grant" /\ GrantInHand
          /\ hpc' = "flag" => comm_key' = msg'.sess
          /\ comm_key' = comm_key \/ GrantInHand
      BY <2>2 DEF TakeAnswer, KeyCopied, GrantInHand, GrantInv, KeyOfSession
    <3>2. GrantInHand => cpc = "auth" /\ conn_flag = 0
      BY DEF GrantInv, GrantWhilePolling, GrantInHand, AnswerUnderWay
    <3>3. AnswerUnderWay' => AnswerUnderWay
      BY <3>1 DEF AnswerUnderWay, GrantInHand
    <3>4. GrantForToken' /\ OneGrant'
      BY <3>1 DEF GrantInv, GrantForToken, OneGrant, GrantAt
    <3>5. GrantWhilePolling'
      BY <3>1, <3>3 DEF GrantInv, GrantWhilePolling
    <3>6. hpc' \in {"key", "flag"} => msg'.kind = "grant"
      BY <3>1, <2>2 DEF TakeAnswer, KeyCopied
    <3>7. KeyOfSession'
      BY <3>1, <3>2, <3>6 DEF GrantInv, KeyOfSession, ConnLoop
    <3>8. QED
      BY <1>wake, <3>4, <3>5, <3>7 DEF GrantInv
  <2>3. CASE SetFlag
    <3>1. /\ GrantInHand /\ comm_key = msg.sess
          /\ cpc = "auth" /\ i < AuthPolls /\ srv # "asked"
          /\ \A n \in DOMAIN webmsg_recemb : ~GrantAt(n)
      BY <2>3
      DEF SetFlag, GrantInv, KeyOfSession, GrantWhilePolling, OneGrant,
          GrantInHand, AnswerUnderWay
    <3>2. /\ UNCHANGED <<webmsg_recemb, sess, cpc, i, comm_key, srv>>
          /\ hpc' = "wait"
      BY <2>3 DEF SetFlag
    <3>3. ~AnswerUnderWay' /\ GrantForToken' /\ OneGrant'
      BY <3>1, <3>2
      DEF AnswerUnderWay, GrantForToken, OneGrant, GrantAt, GrantInHand
    <3>4. comm_key = sess
      BY <3>1 DEF GrantInv, GrantForToken
    <3>5. KeyOfSession'
      BY <3>1, <3>2, <3>4 DEF KeyOfSession
    <3>6. QED
      BY <1>wake, <3>3, <3>5 DEF GrantInv, GrantWhilePolling
  <2>4. CASE TakeCommand \/ PostReply \/ LinkReply \/ PulseEnds
    <3>1. /\ UNCHANGED <<webmsg_recemb, sess, cpc, i, conn_flag, comm_key, srv>>
          /\ hpc' \notin {"got", "key", "flag"}
      BY <2>4 DEF TakeCommand, PostReply, LinkReply, PulseEnds, AfterReply
    <3>2. AnswerUnderWay' => AnswerUnderWay
      BY <3>1 DEF AnswerUnderWay
    <3>3. GrantForToken' /\ OneGrant'
      BY <3>1 DEF GrantInv, GrantForToken, OneGrant, GrantAt, GrantInHand
    <3>4. QED
      BY <1>wake, <3>1, <3>2, <3>3 DEF GrantInv, GrantWhilePolling, KeyOfSession
  <2>5. QED
    BY <1>handle, <2>1, <2>2, <2>3, <2>4 DEF newwebhandle_entry
<1>stutter. CASE UNCHANGED vars
  <2>1. UNCHANGED <<webmsg_recemb, hpc, msg, sess, cpc, i, conn_flag, comm_key, srv>>
    BY <1>stutter DEF vars, conn, handle
  <2>2. QED
    BY <1>wake, <2>1, GrantsUntouched
    DEF GrantInv, GrantWhilePolling, KeyOfSession, ConnLoop
<1>q. QED
  BY <1>env, <1>isr, <1>conn, <1>handle, <1>stutter DEF Next

LEMMA GrantInvariant == ASSUME Prompt PROVE Spec => []GrantInv
<1>1. GrantInv /\ [Next]_vars => GrantInv'
  BY GrantStep
<1>2. QED
  BY <1>1, GrantInit, PTL DEF Spec

\* If the server answers in time or not at all, conn_flag = 1 means that the
\* session last asked for was granted and its key is in comm_key.
THEOREM FlagIsGrant == ASSUME Prompt PROVE Spec => []FlagMeansGranted
<1>1. GrantInv => FlagMeansGranted
  BY DEF GrantInv, KeyOfSession, FlagMeansGranted
<1>2. QED
  BY <1>1, GrantInvariant, PTL

\* Under the same assumption, whatever T_conn encrypts is encrypted with the
\* key of the session it is in, also while that session is being lost.
THEOREM SendsWithItsKey == ASSUME Prompt PROVE Spec => []SendsWithSessionKey
<1>1. GrantInv => SendsWithSessionKey
  BY DEF GrantInv, KeyOfSession, SendsWithSessionKey, ConnLoop
<1>2. QED
  BY <1>1, GrantInvariant, PTL

-----------------------------------------------------------------------------
(* The threads and the interrupt implement the abstract session.             *)

LEMMA SessionStep ==
  ASSUME Prompt, GrantInv, [Next]_vars
  PROVE  [Link!Next]_<<Phase, sess, KeyInUse>>
<1>type. TypeOK
  BY DEF GrantInv, WakeInv
<1> USE DEF Phase, KeyInUse
<1>ask. CASE SendToken
  <2>1. conn_flag = 0
    BY <1>type, <1>ask
    DEF SendToken, ConnGoto, GrantInv, KeyOfSession, TypeOK, ConnLoop
  <2>2. QED
    BY <1>ask, <2>1 DEF SendToken, ConnGoto, Link!Next, Link!Ask
<1>granted. CASE SetFlag
  <2>1. cpc = "auth" /\ comm_key = sess /\ conn_flag = 0
    BY <1>granted
    DEF SetFlag, HandleGoto, GrantInv, GrantWhilePolling, KeyOfSession,
        AnswerUnderWay, GrantForToken, GrantInHand
  <2>2. QED
    BY <1>granted, <2>1 DEF SetFlag, conn, Link!Next, Link!Granted
<1>giveup. CASE AuthTimeout
  <2>1. conn_flag = 0
    BY <1>type, <1>giveup, WebLinkAssumption
    DEF AuthTimeout, ConnGoto, GrantInv, KeyOfSession, TypeOK
  <2>2. QED
    BY <1>giveup, <2>1 DEF AuthTimeout, ConnGoto, Link!Next, Link!GiveUp
<1>lose. CASE EXTI1_IRQHandler
  <2>1. conn_flag = 1 /\ cpc \in ConnLoop
    BY <1>lose DEF EXTI1_IRQHandler, GrantInv, WakeInv, ArmedOnlyInSession
  <2>2. QED
    BY <1>lose, <2>1
    DEF EXTI1_IRQHandler, EndSession, ConnLoop, conn, Link!Next, Link!Lose
<1>key. CASE TakeAnswer \/ KeyCopied
  <2>1. conn_flag = 0 /\ UNCHANGED <<conn_flag, cpc, sess>>
    BY <1>key
    DEF TakeAnswer, KeyCopied, HandleGoto, GrantInv, WakeInv, KeyBeforeFlag, conn
  <2>2. QED
    BY <2>1
<1>poll. CASE AuthPoll
  BY <1>poll DEF AuthPoll, ConnGoto
<1>other. CASE ~(\/ SendToken \/ SetFlag \/ AuthTimeout \/ EXTI1_IRQHandler
                 \/ TakeAnswer \/ KeyCopied \/ AuthPoll)
  <2>1. UNCHANGED <<conn_flag, comm_key, sess>>
    BY <1>other
    DEF Next, vars, Environment, LinkUp, LinkDown, ServerAnswer, ServerCommand,
        newwebconnect_entry, ResetModule, MaskLika, ResetDelay, LinkFound,
        ArmLika, RecvTake, RecvFree, RecvTimeout, CheckFlag, CheckEmpty, Send,
        newwebhandle_entry, MbRecv, TakeCommand, PostReply, LinkReply, PulseEnds
  <2>2. cpc' = "auth" <=> cpc = "auth"
    BY <1>other
    DEF Next, vars, Environment, LinkUp, LinkDown, ServerAnswer, ServerCommand,
        newwebconnect_entry, ResetModule, MaskLika, ResetDelay, LinkFound,
        ArmLika, RecvTake, RecvFree, RecvTimeout, CheckFlag, CheckEmpty, Send,
        newwebhandle_entry, MbRecv, TakeCommand, PostReply, LinkReply, PulseEnds,
        ConnGoto, conn
  <2>3. QED
    BY <2>1, <2>2
<1>q. QED
  BY <1>ask, <1>granted, <1>giveup, <1>lose, <1>key, <1>poll, <1>other

\* With a server that answers in time, every behaviour of the two threads and
\* the interrupt is, seen through conn_flag and comm_key, one of Session.
THEOREM LinkImplementsSession == ASSUME Prompt PROVE Spec => ImplementsSession
<1>1. Init => Link!Init
  BY DEF Init, Link!Init, Phase, KeyInUse
<1>2. GrantInv /\ [Next]_vars => [Link!Next]_<<Phase, sess, KeyInUse>>
  BY SessionStep
<1>3. QED
  BY <1>1, <1>2, GrantInvariant, PTL DEF Spec, ImplementsSession, Link!Spec
=============================================================================
