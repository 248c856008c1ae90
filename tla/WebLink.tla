------------------------------ MODULE WebLink ------------------------------
(***************************************************************************)
(* The lock's link to its server: the connection thread T_conn             *)
(* (newwebconnect_entry), the command thread T_handle                      *)
(* (newwebhandle_entry), the interrupt on the 4G module's LIKA pin         *)
(* (EXTI1_IRQHandler), and the kernel objects between them, the message    *)
(* queue webmsg_sendmq and the mailbox webmsg_recemb.                      *)
(*                                                                         *)
(* A step is a stretch of code that no other thread or interrupt can       *)
(* observe half done: T_conn and T_handle have the same priority and are   *)
(* time-sliced, so they interleave at every access to shared state, and    *)
(* the interrupt may come between any two steps.                           *)
(*                                                                         *)
(* Sessions are numbered by the authentication tokens sent.  A frame from  *)
(* the server carries the session it belongs to, which stands for the key  *)
(* it is encrypted with; 0 stands for a comm_key that is not, or not       *)
(* completely, the key of any session.                                     *)
(***************************************************************************)
EXTENDS Naturals, Sequences

CONSTANTS
  NSess,      \* session numbers, used in rotation
  AuthPolls,  \* polls of conn_flag before T_conn gives up (50 in the code)
  MqCap,      \* blocks of webmsg_sendmq (10)
  MbCap,      \* slots of webmsg_recemb (5)
  Prompt      \* the server answers, if at all, before T_conn's last poll

ASSUME WebLinkAssumption ==
  /\ NSess \in Nat \ {0}
  /\ AuthPolls \in Nat \ {0}
  /\ MqCap \in Nat \ {0}
  /\ MbCap \in Nat \ {0}
  /\ Prompt \in BOOLEAN

VARIABLES
  lika,       \* level of the LIKA pin: the module is connected to the server
  imr,        \* EXTI1 is unmasked (G4_SetLIKAPin)
  pr,         \* EXTI1 is pending
  conn_flag,  \* 1: authenticated
  comm_key,   \* session whose key comm_key holds
  webmsg_sendmq, \* linked messages: "nul" (the interrupt's one byte '\0') or "reply"
  webmsg_recemb, \* frames received and not yet taken by T_handle
  cpc, i, cache, \* T_conn: program counter, poll counter, message received
  hpc, msg,   \* T_handle: program counter, frame in hand
  sess,       \* session of the last token sent
  srv         \* the server's side of the connection

pins  == <<lika, imr, pr>>
conn  == <<cpc, i, cache>>
handle == <<hpc, msg>>
vars  == <<pins, conn_flag, comm_key, webmsg_sendmq, webmsg_recemb, conn,
           handle, sess, srv>>

Sessions == 1 .. NSess
FrameKinds == {"grant", "deny", "unlock", "set"}
Commands == {"unlock", "set"}
Frame == [kind: FrameKinds, sess: Sessions]
NoFrame == [kind |-> "none", sess |-> 0]
Messages == {"nul", "reply"}
ConnLoop == {"recv", "copy", "check", "empty", "send"}
ConnPc == {"reset", "mask", "delay", "poll", "token", "auth", "arm"} \cup ConnLoop
HandlePc == {"wait", "got", "key", "flag", "post", "link", "pulse"}

\* Blocks that are on neither of the queue's two lists: one allocated by a
\* sender that has not linked it yet, one unlinked by a receiver that has not
\* freed it yet.
InFlight == (IF hpc = "link" THEN 1 ELSE 0) + (IF cpc = "copy" THEN 1 ELSE 0)

\* mutant of MqFree: a block in flight counts as free
MqAlwaysFree == Len(webmsg_sendmq) < MqCap

MqFree == Len(webmsg_sendmq) + InFlight < MqCap

Init ==
  /\ lika \in BOOLEAN
  /\ imr = FALSE
  /\ pr = FALSE
  /\ conn_flag = 0
  /\ comm_key = 0
  /\ webmsg_sendmq = <<>>
  /\ webmsg_recemb = <<>>
  /\ cpc = "reset"
  /\ i = 0
  /\ cache = "none"
  /\ hpc = "wait"
  /\ msg = NoFrame
  /\ sess = NSess
  /\ srv = "none"

-----------------------------------------------------------------------------
(* The 4G module and the server. *)

\* The LIKA pin falls: the connection is gone, and an unmasked EXTI1 latches.
PinFalls ==
  /\ lika' = FALSE
  /\ pr' = (pr \/ (lika /\ imr))
  /\ srv' = "none"

LinkUp ==
  /\ ~lika
  /\ lika' = TRUE
  /\ UNCHANGED <<imr, pr, conn_flag, comm_key, webmsg_sendmq, webmsg_recemb,
                 conn, handle, sess, srv>>

LinkDown ==
  /\ lika
  /\ PinFalls
  /\ UNCHANGED <<imr, conn_flag, comm_key, webmsg_sendmq, webmsg_recemb, conn,
                 handle, sess>>

\* USART3's interrupt posts a received frame; a full mailbox refuses it.
Deliver(f) ==
  webmsg_recemb' = IF Len(webmsg_recemb) < MbCap
                     THEN Append(webmsg_recemb, f) ELSE webmsg_recemb

ServerAnswer ==
  /\ lika
  /\ srv = "asked"
  /\ Prompt => cpc = "auth" /\ i < AuthPolls
  /\ \E k \in {"grant", "deny"} :
       /\ Deliver([kind |-> k, sess |-> sess])
       /\ srv' = IF k = "grant" THEN "granted" ELSE "none"
  /\ UNCHANGED <<pins, conn_flag, comm_key, webmsg_sendmq, conn, handle, sess>>

ServerCommand ==
  /\ lika
  /\ srv = "granted"
  /\ \E k \in Commands : Deliver([kind |-> k, sess |-> sess])
  /\ UNCHANGED <<pins, conn_flag, comm_key, webmsg_sendmq, conn, handle, sess,
                 srv>>

Environment == LinkUp \/ LinkDown \/ ServerAnswer \/ ServerCommand

-----------------------------------------------------------------------------
(* EXTI1_IRQHandler. *)

\* mutant of MqSendNul: the loss is recorded but T_conn is not woken
MqSendNothing == UNCHANGED webmsg_sendmq

MqSendNul ==
  webmsg_sendmq' = IF MqFree THEN Append(webmsg_sendmq, "nul")
                             ELSE webmsg_sendmq

\* mutant of EndSession: the interrupt stays unmasked
EndSessionArmed ==
  /\ conn_flag' = 0
  /\ MqSendNul
  /\ UNCHANGED imr

EndSession ==
  /\ imr' = FALSE
  /\ conn_flag' = 0
  /\ MqSendNul

EXTI1_IRQHandler ==
  /\ pr /\ imr
  /\ IF conn_flag = 1
       THEN EndSession
       ELSE UNCHANGED <<imr, conn_flag, webmsg_sendmq>>
  /\ pr' = FALSE
  /\ UNCHANGED <<lika, comm_key, webmsg_recemb, conn, handle, sess, srv>>

-----------------------------------------------------------------------------
(* T_conn: newwebconnect_entry. *)

ConnGoto(from, to) ==
  /\ cpc = from
  /\ cpc' = to

\* G4_RST: the module restarts and its connection drops.
ResetModule ==
  /\ ConnGoto("reset", "mask")
  /\ PinFalls
  /\ UNCHANGED <<imr, conn_flag, comm_key, webmsg_sendmq, webmsg_recemb, i,
                 cache, handle, sess>>

SetLIKAPin(mode) == imr' = mode

MaskLika ==
  /\ ConnGoto("mask", "delay")
  /\ SetLIKAPin(FALSE)
  /\ UNCHANGED <<lika, pr, conn_flag, comm_key, webmsg_sendmq, webmsg_recemb,
                 i, cache, handle, sess, srv>>

\* 2000 ticks are enough for T_handle to run until it blocks, in its mailbox or
\* in the pulse of an unlock.
ResetDelay ==
  /\ ConnGoto("delay", "poll")
  /\ \/ hpc = "wait" /\ webmsg_recemb = <<>>
     \/ hpc = "pulse"
  /\ UNCHANGED <<pins, conn_flag, comm_key, webmsg_sendmq, webmsg_recemb, i,
                 cache, handle, sess, srv>>

LinkFound ==
  /\ ConnGoto("poll", "token")
  /\ lika
  /\ UNCHANGED <<pins, conn_flag, comm_key, webmsg_sendmq, webmsg_recemb, i,
                 cache, handle, sess, srv>>

SendToken ==
  /\ ConnGoto("token", "auth")
  /\ i' = 0
  /\ sess' = (sess % NSess) + 1
  /\ srv' = IF lika THEN "asked" ELSE srv
  /\ UNCHANGED <<pins, conn_flag, comm_key, webmsg_sendmq, webmsg_recemb,
                 cache, handle>>

\* The server's answer is between the wire and conn_flag.
AnswerUnderWay ==
  \/ hpc \in {"got", "key", "flag"} /\ msg.kind = "grant"
  \/ \E n \in DOMAIN webmsg_recemb : webmsg_recemb[n].kind = "grant"

AuthPoll ==
  /\ i < AuthPolls
  /\ IF conn_flag = 1
       THEN ConnGoto("auth", "arm") /\ UNCHANGED i
       ELSE /\ ConnGoto("auth", "auth")
            /\ i' = i + 1
            /\ Prompt /\ i' = AuthPolls => ~AnswerUnderWay
  /\ UNCHANGED <<pins, conn_flag, comm_key, webmsg_sendmq, webmsg_recemb,
                 cache, handle, sess, srv>>

\* conn_flag is not cleared on the way back to the reset.
AuthTimeout ==
  /\ i >= AuthPolls
  /\ ConnGoto("auth", "reset")
  /\ UNCHANGED <<pins, conn_flag, comm_key, webmsg_sendmq, webmsg_recemb, i,
                 cache, handle, sess, srv>>

ArmLika ==
  /\ ConnGoto("arm", "recv")
  /\ SetLIKAPin(TRUE)
  /\ UNCHANGED <<lika, pr, conn_flag, comm_key, webmsg_sendmq, webmsg_recemb,
                 i, cache, handle, sess, srv>>

\* rt_mq_recv takes the head off the queue, and frees its block after the copy.
RecvTake ==
  /\ ConnGoto("recv", "copy")
  /\ webmsg_sendmq # <<>>
  /\ cache' = Head(webmsg_sendmq)
  /\ webmsg_sendmq' = Tail(webmsg_sendmq)
  /\ UNCHANGED <<pins, conn_flag, comm_key, webmsg_recemb, i, handle, sess, srv>>

RecvFree ==
  /\ ConnGoto("copy", "check")
  /\ UNCHANGED <<pins, conn_flag, comm_key, webmsg_sendmq, webmsg_recemb, i,
                 cache, handle, sess, srv>>

\* 5000 ticks pass on an empty queue.
RecvTimeout ==
  /\ ConnGoto("recv", "check")
  /\ webmsg_sendmq = <<>>
  /\ cache' = "none"
  /\ UNCHANGED <<pins, conn_flag, comm_key, webmsg_sendmq, webmsg_recemb, i,
                 handle, sess, srv>>

\* mutant of CheckFlag: the flag is not read after rt_mq_recv
CheckNothing ==
  /\ ConnGoto("check", IF cache = "nul" THEN "recv" ELSE "send")
  /\ UNCHANGED <<pins, conn_flag, comm_key, webmsg_sendmq, webmsg_recemb, i,
                 cache, handle, sess, srv>>

CheckFlag ==
  /\ \/ conn_flag = 0 /\ ConnGoto("check", "reset")
     \/ conn_flag = 1 /\ cache = "nul" /\ ConnGoto("check", "empty")
     \/ conn_flag = 1 /\ cache # "nul" /\ ConnGoto("check", "send")
  /\ UNCHANGED <<pins, conn_flag, comm_key, webmsg_sendmq, webmsg_recemb, i,
                 cache, handle, sess, srv>>

\* mutant of CheckEmpty: every empty message is taken for the loss of the link
CheckEmptyResets ==
  /\ ConnGoto("empty", "reset")
  /\ UNCHANGED <<pins, conn_flag, comm_key, webmsg_sendmq, webmsg_recemb, i,
                 cache, handle, sess, srv>>

\* A message of length 0 is not sent, and conn_flag is read once more.
CheckEmpty ==
  /\ ConnGoto("empty", IF conn_flag = 0 THEN "reset" ELSE "recv")
  /\ UNCHANGED <<pins, conn_flag, comm_key, webmsg_sendmq, webmsg_recemb, i,
                 cache, handle, sess, srv>>

\* Heartbeat, or assembleWebMsg with comm_key and the packet on the wire.
Send ==
  /\ ConnGoto("send", "recv")
  /\ UNCHANGED <<pins, conn_flag, comm_key, webmsg_sendmq, webmsg_recemb, i,
                 cache, handle, sess, srv>>

newwebconnect_entry ==
  \/ ResetModule \/ MaskLika \/ ResetDelay \/ LinkFound \/ SendToken
  \/ AuthPoll \/ AuthTimeout \/ ArmLika
  \/ RecvTake \/ RecvFree \/ RecvTimeout
  \/ CheckFlag \/ CheckEmpty \/ Send

-----------------------------------------------------------------------------
(* T_handle: newwebhandle_entry. *)

\* T_handle moves on; back at its mailbox, the frame it had is forgotten.
HandleGoto(from, to) ==
  /\ hpc = from
  /\ hpc' = to
  /\ msg' = IF to = "wait" THEN NoFrame ELSE msg

MbRecv ==
  /\ hpc = "wait" /\ hpc' = "got"
  /\ webmsg_recemb # <<>>
  /\ msg' = Head(webmsg_recemb)
  /\ webmsg_recemb' = Tail(webmsg_recemb)
  /\ UNCHANGED <<pins, conn_flag, comm_key, webmsg_sendmq, conn,
                 sess, srv>>

\* mutant of TakeAnswer: the flag is set before the key is copied
TakeAnswerFlagFirst ==
  /\ conn_flag = 0
  /\ IF msg.kind = "grant"
       THEN HandleGoto("got", "key") /\ comm_key' = 0 /\ conn_flag' = 1
       ELSE HandleGoto("got", "wait") /\ UNCHANGED <<comm_key, conn_flag>>
  /\ UNCHANGED <<pins, webmsg_sendmq, webmsg_recemb, conn, sess, srv>>

\* Unauthenticated, a frame can only be the server's answer: anything else is
\* not JSON, and an answer that is no "success" is ignored.
TakeAnswer ==
  /\ conn_flag = 0
  /\ IF msg.kind = "grant"
       THEN HandleGoto("got", "key") /\ comm_key' = 0
       ELSE HandleGoto("got", "wait") /\ UNCHANGED comm_key
  /\ UNCHANGED <<pins, conn_flag, webmsg_sendmq, webmsg_recemb, conn,
                 sess, srv>>

\* mutant of KeyCopied: the decoded key never reaches comm_key
KeyLost ==
  /\ HandleGoto("key", "flag")
  /\ UNCHANGED <<pins, conn_flag, comm_key, webmsg_sendmq, webmsg_recemb, conn,
                 sess, srv>>

KeyCopied ==
  /\ HandleGoto("key", "flag")
  /\ comm_key' = msg.sess
  /\ UNCHANGED <<pins, conn_flag, webmsg_sendmq, webmsg_recemb, conn,
                 sess, srv>>

SetFlag ==
  /\ HandleGoto("flag", "wait")
  /\ conn_flag' = 1
  /\ UNCHANGED <<pins, comm_key, webmsg_sendmq, webmsg_recemb, conn,
                 sess, srv>>

\* Authenticated, a frame is decrypted with comm_key: one of another session,
\* or one in clear, is not JSON after it.
TakeCommand ==
  /\ conn_flag = 1
  /\ HandleGoto("got", IF msg.kind \in Commands /\ msg.sess = comm_key
                         THEN "post" ELSE "wait")
  /\ UNCHANGED <<pins, conn_flag, comm_key, webmsg_sendmq, webmsg_recemb, conn,
                 sess, srv>>

AfterReply == IF msg.kind = "unlock" THEN "pulse" ELSE "wait"

\* rt_mq_send takes a block off the free list and links it after the copy; its
\* result is not looked at, so a full queue loses the reply.
PostReply ==
  /\ HandleGoto("post", IF MqFree THEN "link" ELSE AfterReply)
  /\ UNCHANGED <<pins, conn_flag, comm_key, webmsg_sendmq, webmsg_recemb, conn,
                 sess, srv>>

LinkReply ==
  /\ HandleGoto("link", AfterReply)
  /\ webmsg_sendmq' = Append(webmsg_sendmq, "reply")
  /\ UNCHANGED <<pins, conn_flag, comm_key, webmsg_recemb, conn,
                 sess, srv>>

\* The relay is held for 1000 ticks in this thread.
PulseEnds ==
  /\ HandleGoto("pulse", "wait")
  /\ UNCHANGED <<pins, conn_flag, comm_key, webmsg_sendmq, webmsg_recemb, conn,
                 sess, srv>>

newwebhandle_entry ==
  \/ MbRecv \/ TakeAnswer \/ KeyCopied \/ SetFlag
  \/ TakeCommand \/ PostReply \/ LinkReply \/ PulseEnds

-----------------------------------------------------------------------------
Next ==
  \/ Environment
  \/ EXTI1_IRQHandler
  \/ newwebconnect_entry
  \/ newwebhandle_entry

Spec == Init /\ [][Next]_vars

\* The scheduler runs a ready thread of the highest priority class, time-sliced;
\* a pending unmasked interrupt is taken.
Fairness ==
  /\ WF_vars(EXTI1_IRQHandler)
  /\ WF_vars(newwebconnect_entry)
  /\ WF_vars(newwebhandle_entry)

FairSpec == Spec /\ Fairness

-----------------------------------------------------------------------------
(* Properties. *)

\* Types, and the queues within their capacity.
TypeOK ==
  /\ lika \in BOOLEAN /\ imr \in BOOLEAN /\ pr \in BOOLEAN
  /\ conn_flag \in {0, 1}
  /\ comm_key \in Sessions \cup {0}
  /\ webmsg_sendmq \in Seq(Messages)
  /\ Len(webmsg_sendmq) + InFlight <= MqCap
  /\ webmsg_recemb \in Seq(Frame)
  /\ Len(webmsg_recemb) <= MbCap
  /\ cpc \in ConnPc /\ i \in 0 .. AuthPolls /\ cache \in Messages \cup {"none"}
  /\ hpc \in HandlePc
  /\ IF hpc = "wait" THEN msg = NoFrame ELSE msg \in Frame
  /\ sess \in Sessions
  /\ srv \in {"none", "asked", "granted"}

\* No lost wake-up: when T_conn is about to wait on the queue (or waits on it)
\* although the connection was reported lost, the queue holds a message or a
\* sender is about to link one.  The interrupt's rt_mq_send may find the queue
\* full and its result is ignored (stm32f10x_it.c 18), and a block may be on
\* neither list; T_conn still learns of the loss at once.
NoLostWakeup ==
  cpc \in {"recv", "send"} /\ conn_flag = 0
    => webmsg_sendmq # <<>> \/ hpc = "link"

\* The key that conn_flag promises is complete: T_conn reads comm_key in
\* assembleWebMsg with no lock, relying on T_handle's order (key, then flag) in
\* newweb.c 194-198, also when the connection drops and another answer comes.
KeyComplete == conn_flag = 1 => comm_key # 0

\* The key in use never changes under an established session.
KeyStable == [][conn_flag = 1 /\ conn_flag' = 1 => comm_key' = comm_key]_vars

\* EXTI1 is unmasked only while T_conn serves an authenticated session, so that
\* a fall of LIKA that the code hears of always ends a session.
ArmedOnlyInSession ==
  imr => conn_flag = 1 /\ cpc \in ConnLoop

\* conn_flag = 1 means that the server has granted the session that T_conn last
\* asked for, and that comm_key is that session's key (newweb.c 40).
FlagMeansGranted == conn_flag = 1 => comm_key = sess

\* What T_conn encrypts, it encrypts with the key of its session, whole.
SendsWithSessionKey == cpc = "send" => comm_key = sess

\* The link as the rest of the lock sees it.
Phase == IF conn_flag = 1 THEN "up"
         ELSE IF cpc = "auth" THEN "asking" ELSE "idle"
KeyInUse == IF conn_flag = 1 THEN comm_key ELSE 0
Link == INSTANCE Session WITH phase <- Phase, key <- KeyInUse

\* T_conn, T_handle and the interrupt together implement Session: a session
\* comes up only from a token that is being waited on, with its own key, and
\* nothing but its loss takes it down.
ImplementsSession == Link!Spec

\* A session reported lost is given up: T_conn leaves the send loop and resets
\* the module.
LossLeadsToReset == (cpc \in ConnLoop /\ conn_flag = 0) ~> cpc = "reset"

\* conn_flag does not stay 1 over a link that stays down.
FlagFollowsLink == ~<>[](conn_flag = 1 /\ ~lika)
=============================================================================
