--------------------------- MODULE FingerLockProofs ---------------------------
(***************************************************************************)
(* Proofs about FingerLock, for every set of fingers, every capacity and   *)
(* every number of rounds.  Type correctness and NotLeftOpen hold of every *)
(* behaviour; what is said about answers and templates needs Prompt: an    *)
(* answer comes before the wait for it ends, or never.                     *)
(***************************************************************************)
EXTENDS FingerLock, SequenceTheorems, TLAPS

\* Nothing is under way when no command waits for its answer.
Idle == io = "idle" => reqs = <<>> /\ wire = <<>> /\ n = 0 /\ ~done /\ ~tim7
AskInPlace == step \notin Asking => io = "idle"

\* The one command that can be under way is that of this step.
OneCommand ==
  reqs # <<>> =>
    /\ Len(reqs) = 1 /\ wire = <<>> /\ n = 0 /\ ~done /\ ~tim7
    /\ reqs[1].cmd = Command[step] /\ reqs[1].arg = Argument(step) /\ reqs[1].own

\* Where its answer is: on the line, half received, received.
OneAnswer ==
  /\ Len(wire) = 2 => wire[1].code = "head" /\ wire[2].code # "head" /\ wire[2].own /\ n = 0 /\ ~done /\ ~tim7
  /\ Len(wire) = 1 => wire[1].own /\ wire[1].code # "head" /\ ~done /\ tim7 /\ n <= 1
                        /\ buf[1].code = "head"
  /\ done => wire = <<>> /\ ~tim7
  /\ n > 0 => done \/ tim7
  /\ wire = <<>> /\ (done \/ tim7) /\ buf[1].code = "head" => buf[2].own

\* The answer under way says "ok".
OkComes ==
  \/ wire # <<>> /\ wire[Len(wire)].code = "ok"
  \/ wire = <<>> /\ (done \/ tim7) /\ buf[1].code = "head" /\ buf[2].code = "ok"

Known == \E id \in ID : lib[id] = char[1] /\ char[1] # NoFinger
Stored == num < Cap /\ lib[num] = char[1]

\* What has been done by the time it is answered with "ok".
Earned ==
  OkComes =>
    /\ step = "pressSearch" => Known
    /\ step = "match" => Same
    /\ step = "reg" => model
    /\ step = "store" => Stored

\* What holds at a step because of the answers before it.
Reached ==
  /\ step = "open" => Known
  /\ step \in {"reg", "id", "store", "storeNum"} => Same
  /\ step \in {"id", "store"} => model
  /\ step = "storeNum" => Stored

IInv == TypeOK /\ Idle /\ AskInPlace /\ OneCommand /\ OneAnswer /\ Earned /\ Reached

-----------------------------------------------------------------------------
(* Types. *)

\* Nothing is under way after a reset, and what the module holds is of its kind.
LEMMA PowerOnType == ASSUME PowerOn, lib \in [ID -> Fingerprint] PROVE LinkTypeOK
<1>1. NoFinger \in Fingerprint
  BY DEF Fingerprint
<1>2. [code |-> "no", own |-> FALSE] \in Part
  BY DEF Part
<1>3. reqs \in Seq(Request) /\ wire \in Seq(Part) /\ Len(wire) <= 2
  BY DEF PowerOn
<1>4. buf \in [1 .. 2 -> Part]
  BY <1>2 DEF PowerOn
<1>5. image \in Fingerprint /\ char \in [1 .. 2 -> Fingerprint]
  BY <1>1 DEF PowerOn
<1>6. n \in 0 .. 2
  BY DEF PowerOn
<1>7. done \in BOOLEAN /\ tim7 \in BOOLEAN /\ model \in BOOLEAN
  BY DEF PowerOn
<1> QED
  BY <1>3, <1>4, <1>5, <1>6, <1>7 DEF LinkTypeOK

\* What the module does to itself keeps its buffers and its library of their kinds.
LEMMA DoneType ==
  ASSUME LinkTypeOK, NEW r \in Request, Done(r) \/ UNCHANGED module
  PROVE  /\ image' \in Fingerprint /\ char' \in [1 .. 2 -> Fingerprint] /\ model' \in BOOLEAN
         /\ lib' \in [ID -> Fingerprint]
<1>1. NoFinger \in Fingerprint
  BY DEF Fingerprint
<1>2. CASE UNCHANGED module
  BY <1>2 DEF LinkTypeOK, module
<1>3. CASE GetImage
  BY <1>3 DEF GetImage, LinkTypeOK, Fingerprint
<1>4. CASE GenChar(r.arg)
  BY <1>4 DEF GenChar, LinkTypeOK
<1>5. CASE RegModel
  BY <1>5 DEF RegModel, LinkTypeOK
<1>6. CASE StoreChar(r.arg)
  <2>1. char[2] \in Fingerprint
    BY DEF LinkTypeOK
  <2> QED
    BY <1>6, <2>1 DEF StoreChar, LinkTypeOK
<1>7. CASE DeletChar(r.arg)
  BY <1>1, <1>7 DEF DeletChar, LinkTypeOK
<1>8. CASE Empty
  BY <1>1, <1>8 DEF Empty, LinkTypeOK
<1> QED
  BY <1>2, <1>3, <1>4, <1>5, <1>6, <1>7, <1>8 DEF Done, Match, Search

LEMMA As608Type == ASSUME LinkTypeOK, As608 PROVE LinkTypeOK'
<1>1. Head(reqs) \in Request /\ reqs' \in Seq(Request)
  BY DEF LinkTypeOK, As608
<1>2. Done(Head(reqs)) \/ UNCHANGED module
  BY DEF As608
<1>3. /\ image' \in Fingerprint /\ char' \in [1 .. 2 -> Fingerprint] /\ model' \in BOOLEAN
      /\ lib' \in [ID -> Fingerprint]
  BY <1>1, <1>2, DoneType
<1>4. Head(reqs).own \in BOOLEAN
  BY <1>1 DEF Request
<1>5. /\ Answer("ok", Head(reqs).own) \in Seq(Part) /\ Len(Answer("ok", Head(reqs).own)) <= 2
      /\ Answer("no", Head(reqs).own) \in Seq(Part) /\ Len(Answer("no", Head(reqs).own)) <= 2
  BY <1>4 DEF Answer, Header, Part
<1>6. wire' \in {<<>>, Answer("ok", Head(reqs).own), Answer("no", Head(reqs).own)}
  BY DEF As608
<1>7. wire' \in Seq(Part) /\ Len(wire') <= 2
  <2>1. CASE wire' = <<>>
    BY <2>1
  <2>2. CASE wire' = Answer("ok", Head(reqs).own)
    BY <1>5, <2>2
  <2>3. CASE wire' = Answer("no", Head(reqs).own)
    BY <1>5, <2>3
  <2> QED
    BY <1>6, <2>1, <2>2, <2>3
<1>8. UNCHANGED receiver
  BY DEF As608
<1> QED
  BY <1>1, <1>3, <1>7, <1>8 DEF LinkTypeOK, receiver

LEMMA ReceiverType ==
  ASSUME LinkTypeOK, USART2_IRQHandler \/ TIM7_IRQHandler PROVE LinkTypeOK'
<1>1. CASE USART2_IRQHandler
  <2>1. wire \in Seq(Part) /\ wire # <<>>
    BY <1>1 DEF USART2_IRQHandler, LinkTypeOK
  <2>2. Head(wire) \in Part /\ wire' \in Seq(Part) /\ Len(wire') <= 2
    BY <1>1, <2>1 DEF USART2_IRQHandler, LinkTypeOK
  <2>3. n' \in 0 .. 2
    BY <1>1 DEF USART2_IRQHandler, LinkTypeOK
  <2>5. tim7' \in BOOLEAN
    BY <1>1 DEF USART2_IRQHandler, LinkTypeOK
  <2>4. buf' \in [1 .. 2 -> Part]
    BY <1>1, <2>2 DEF USART2_IRQHandler, LinkTypeOK
  <2> QED
    BY <1>1, <2>2, <2>3, <2>4, <2>5 DEF USART2_IRQHandler, LinkTypeOK, module
<1>2. CASE TIM7_IRQHandler
  <2>1. done' \in BOOLEAN /\ tim7' \in BOOLEAN
    BY <1>2 DEF TIM7_IRQHandler
  <2> QED
    BY <1>2, <2>1 DEF TIM7_IRQHandler, LinkTypeOK, module
<1> QED
  BY <1>1, <1>2

\* Whose answer a part is does not change its kind.
LEMMA OthersType ==
  ASSUME LinkTypeOK
  PROVE  /\ Others(reqs) \in Seq(Request) /\ Len(Others(reqs)) = Len(reqs)
         /\ Others(wire) \in Seq(Part) /\ Len(Others(wire)) = Len(wire)
         /\ Others(buf) \in [1 .. 2 -> Part]
<1>1. reqs \in Seq(Request) /\ wire \in Seq(Part) /\ buf \in [1 .. 2 -> Part]
  BY DEF LinkTypeOK
<1>a. /\ \A k \in DOMAIN reqs : reqs[k] \in Request
      /\ \A k \in DOMAIN wire : wire[k] \in Part
      /\ \A k \in DOMAIN buf : buf[k] \in Part
  BY <1>1
<1>b. DOMAIN reqs = 1 .. Len(reqs) /\ DOMAIN wire = 1 .. Len(wire)
  BY <1>1
<1>2. \A k \in DOMAIN reqs : [reqs[k] EXCEPT !.own = FALSE] \in Request
  BY <1>a DEF Request
<1>3. \A k \in DOMAIN wire : [wire[k] EXCEPT !.own = FALSE] \in Part
  BY <1>a DEF Part
<1>4. \A k \in DOMAIN buf : [buf[k] EXCEPT !.own = FALSE] \in Part
  BY <1>a DEF Part
<1>5. Others(reqs) \in Seq(Request) /\ Len(Others(reqs)) = Len(reqs)
  BY <1>1, <1>b, <1>2 DEF Others
<1>6. Others(wire) \in Seq(Part) /\ Len(Others(wire)) = Len(wire)
  BY <1>1, <1>b, <1>3 DEF Others
<1>7. Others(buf) \in [1 .. 2 -> Part]
  BY <1>1, <1>4 DEF Others
<1> QED
  BY <1>5, <1>6, <1>7

LEMMA DisownType ==
  ASSUME LinkTypeOK, Disown, UNCHANGED module,
         n' \in 0 .. 2, done' \in BOOLEAN, tim7' \in BOOLEAN
  PROVE  LinkTypeOK'
BY OthersType DEF LinkTypeOK, Disown, module

LEMMA SendType ==
  ASSUME LinkTypeOK, NEW c \in Commands, NEW a \in Nat, Send(c, a) PROVE LinkTypeOK'
<1>1. reqs' \in Seq(Request)
  BY DEF LinkTypeOK, Send, Request
<1> QED
  BY <1>1 DEF LinkTypeOK, Send, receiver, module

LEMMA JudgeStrType == ASSUME LinkTypeOK, JudgeStr PROVE LinkTypeOK'
<1>1. n' \in 0 .. 2
  BY DEF JudgeStr, Clear
<1>2. done' \in BOOLEAN
  BY DEF JudgeStr, Clear
<1> QED
  BY <1>1, <1>2 DEF LinkTypeOK, JudgeStr, module

LEMMA ReturnsType ==
  ASSUME LinkTypeOK, NEW ok \in BOOLEAN, Returns(ok) PROVE LinkTypeOK'
<1>1. CASE Answered(ok)
  <2>1. n' \in 0 .. 2
    BY <1>1 DEF Answered, Clear, LinkTypeOK
  <2>2. done' \in BOOLEAN /\ tim7' \in BOOLEAN
    BY <1>1 DEF Answered, Clear, LinkTypeOK
  <2> QED
    BY <1>1, <2>1, <2>2, DisownType DEF Answered
<1>2. CASE TimedOut
  BY <1>2, DisownType DEF TimedOut, LinkTypeOK
<1> QED
  BY <1>1, <1>2 DEF Returns

LEMMA ShakeType == ASSUME LinkTypeOK, Shake PROVE LinkTypeOK'
<1>1. CASE ShakeAnswered
  <2>1. n' \in 0 .. 2
    BY <1>1 DEF ShakeAnswered, Clear, LinkTypeOK
  <2>2. done' \in BOOLEAN /\ tim7' \in BOOLEAN
    BY <1>1 DEF ShakeAnswered, Clear, LinkTypeOK
  <2> QED
    BY <1>1, <2>1, <2>2, DisownType DEF ShakeAnswered
<1>2. CASE ShakeFailed
  <2>1. n' \in 0 .. 2
    BY <1>2 DEF ShakeFailed, Clear, LinkTypeOK
  <2>2. done' \in BOOLEAN /\ tim7' \in BOOLEAN
    BY <1>2 DEF ShakeFailed, Clear, LinkTypeOK
  <2> QED
    BY <1>2, <2>1, <2>2, DisownType DEF ShakeFailed
<1> QED
  BY <1>1, <1>2 DEF Shake

\* T_FR's own variables.
LocalTypeOK ==
  /\ step \in Step /\ io \in {"idle", "sent", "wait"} /\ count \in Nat
  /\ num \in Nat /\ PS_max \in Nat

\* The end of a round stays within the dialogue.
LEMMA RoundType ==
  ASSUME LocalTypeOK, NEW s \in Step, NEW limit, Round(s, limit)
  PROVE  step' \in Step /\ count' \in Nat /\ num' \in Nat
BY DEF LocalTypeOK, Round, Leave, Goto, Step

LEMMA StayType ==
  ASSUME LocalTypeOK, NEW s \in Step, Stay(s)
  PROVE  step' \in Step /\ count' \in Nat /\ num' \in Nat
BY DEF LocalTypeOK, Stay, Goto

LEMMA LeaveType ==
  ASSUME Leave PROVE step' \in Step /\ count' \in Nat /\ num' \in Nat
BY DEF Leave, Step

\* Whatever answer or none comes, T_FR goes to a step of its own.
LEMMA ContinueType ==
  ASSUME LocalTypeOK, LinkTypeOK, NEW ok \in BOOLEAN, Returns(ok),
         Handle_AS608(ok) \/ press_FR(ok) \/ verify_FR(ok) \/ Add_FR(ok) \/ Del_FR(ok)
  PROVE  LocalTypeOK'
<1>1. io' = "idle"
  BY DEF Returns
<1> DEFINE Places == step' \in Step /\ count' \in Nat /\ num' \in Nat
<1>2. CASE Handle_AS608(ok)
  <2>1. PS_max' \in Nat
    BY <1>2, As608Assumption, FingerLockAssumption DEF Handle_AS608, LocalTypeOK
  <2>2. Places
    BY <1>2 DEF Handle_AS608, LocalTypeOK, Goto, Step, Asking, Command
  <2> QED
    BY <1>1, <2>1, <2>2 DEF LocalTypeOK
<1>3. CASE press_FR(ok)
  <2>1. Places
    BY <1>3 DEF press_FR, LocalTypeOK, Goto, Step, Asking, Command
  <2> QED
    BY <1>1, <1>3, <2>1 DEF LocalTypeOK, press_FR
<1>4. CASE verify_FR(ok)
  <2>1. {"verGen", "verSearch", "verify", "addImage1"} \subseteq Step
    BY DEF Step, Asking, Command
  <2>2. Places
    BY <1>4, <2>1, RoundType, StayType, LeaveType DEF verify_FR, LocalTypeOK, Goto
  <2> QED
    BY <1>1, <1>4, <2>2 DEF LocalTypeOK, verify_FR
<1>5. CASE Add_FR(ok)
  <2>1. {"addImage1", "addGen1", "addImage2", "addGen2", "match", "reg", "id", "store",
         "storeNum"} \subseteq Step
    BY DEF Step, Asking, Command
  <2>2. Places
    BY <1>5, <2>1, RoundType, StayType, LeaveType DEF Add_FR
  <2> QED
    BY <1>1, <1>5, <2>2 DEF LocalTypeOK, Add_FR
<1>6. CASE Del_FR(ok)
  <2>1. "delNum" \in Step
    BY DEF Step, Asking, Command
  <2>2. Places
    BY <1>6, <2>1, StayType, LeaveType DEF Del_FR
  <2> QED
    BY <1>1, <1>6, <2>2 DEF LocalTypeOK, Del_FR
<1> QED
  BY <1>2, <1>3, <1>4, <1>5, <1>6

\* The relay is on or off, and only the other two threads are noted as holding it.
DoorTypeOK == relay \in BOOLEAN /\ openers \subseteq Opener

LEMMA StepNames ==
  ASSUME NEW s \in Asking
  PROVE  s \in {"shake", "shakeNum", "sysPara", "pressImage", "pressGen", "pressSearch",
                "verImage", "verGen", "verSearch", "addImage1", "addGen1", "addImage2", "addGen2",
                "match", "reg", "store", "storeNum", "delete", "empty", "delNum"}
BY DEF Asking, Command

\* Every command has a name and a number to go with it.
LEMMA CommandType ==
  ASSUME LocalTypeOK, step \in Asking PROVE Command[step] \in Commands /\ Argument(step) \in Nat
<1>1. Command[step] \in Commands
  BY StepNames DEF Command, Commands
<1>2. Argument(step) \in {0, 1, 2, PS_max, num}
  BY DEF Argument
<1> QED
  BY <1>1, <1>2 DEF LocalTypeOK

LEMMA TypeStep == ASSUME TypeOK, [Next]_vars PROVE TypeOK'
<1>1. LinkTypeOK /\ LocalTypeOK /\ DoorTypeOK
  BY DEF TypeOK, LocalTypeOK, DoorTypeOK
<1>2. ASSUME UNCHANGED link PROVE LinkTypeOK'
  BY <1>1, <1>2 DEF link, receiver, module, LinkTypeOK
<1>3. ASSUME UNCHANGED local PROVE LocalTypeOK'
  BY <1>1, <1>3 DEF local, LocalTypeOK
<1>4. ASSUME UNCHANGED door PROVE DoorTypeOK'
  BY <1>1, <1>4 DEF door, DoorTypeOK
<1>5. ASSUME LinkTypeOK', LocalTypeOK', DoorTypeOK' PROVE TypeOK'
  BY <1>5 DEF TypeOK, LocalTypeOK, DoorTypeOK
<1>6. CASE Link
  BY <1>1, <1>3, <1>4, <1>5, <1>6, As608Type, ReceiverType DEF Link
<1>7. CASE Ask
  <2>1. LinkTypeOK'
    BY <1>1, <1>7, CommandType, SendType DEF Ask
  <2>2. LocalTypeOK'
    BY <1>1, <1>7 DEF Ask, LocalTypeOK
  <2> QED
    BY <1>4, <1>5, <1>7, <2>1, <2>2 DEF Ask
<1>8. CASE Wait \/ Look
  <2>1. LinkTypeOK'
    BY <1>1, <1>8, JudgeStrType DEF Wait, Look, NoHeader
  <2>2. LocalTypeOK'
    BY <1>1, <1>8 DEF Wait, Look, LocalTypeOK, local
  <2> QED
    BY <1>4, <1>5, <1>8, <2>1, <2>2 DEF Wait, Look
<1>9. CASE Shake
  <2>1. LocalTypeOK'
    BY <1>1, <1>9 DEF Shake, LocalTypeOK, Goto, Step, Asking, Command
  <2> QED
    BY <1>1, <1>4, <1>5, <1>9, <2>1, ShakeType DEF Shake
<1>10. CASE Continue
  <2>1. PICK ok \in BOOLEAN :
          /\ Returns(ok)
          /\ Handle_AS608(ok) \/ press_FR(ok) \/ verify_FR(ok) \/ Add_FR(ok) \/ Del_FR(ok)
    BY <1>10 DEF Continue
  <2>2. LinkTypeOK'
    BY <1>1, <2>1, ReturnsType
  <2>3. LocalTypeOK'
    BY <1>1, <2>1, ContinueType
  <2>4. DoorTypeOK'
    BY <1>1, <2>1 DEF Handle_AS608, press_FR, verify_FR, Add_FR, Del_FR, door, DoorTypeOK
  <2> QED
    BY <1>5, <2>2, <2>3, <2>4
<1>11. CASE VerifyTop
  <2>1. "verImage" \in Step /\ "verify" \in Step
    BY DEF Step, Asking, Command
  <2>2. LocalTypeOK'
    BY <1>1, <1>11, <2>1, RoundType, StayType DEF VerifyTop, LocalTypeOK
  <2> QED
    BY <1>2, <1>4, <1>5, <1>11, <2>2 DEF VerifyTop
<1>12. CASE Close
  <2>1. LocalTypeOK' /\ DoorTypeOK'
    BY <1>1, <1>12 DEF Close, LocalTypeOK, DoorTypeOK, Goto, Step
  <2> QED
    BY <1>2, <1>5, <1>12, <2>1 DEF Close
<1>13. CASE Menu
  <2>1. LocalTypeOK'
    BY <1>1, <1>13 DEF Menu, LocalTypeOK, Goto, Step, Asking, Command
  <2> QED
    BY <1>2, <1>4, <1>5, <1>13, <2>1 DEF Menu
<1>14. CASE Restart
  <2>1. lib' \in [ID -> Fingerprint]
    BY <1>1, <1>14 DEF Restart, LinkTypeOK
  <2>2. NoFinger \in Fingerprint /\ [code |-> "no", own |-> FALSE] \in Part
    BY DEF Fingerprint, Part
  <2>3. LinkTypeOK'
    <3>1. reqs' \in Seq(Request) /\ wire' \in Seq(Part) /\ Len(wire') <= 2
      BY <1>14 DEF Restart
    <3>2. n' \in 0 .. 2
      BY <1>14 DEF Restart
    <3>3. done' \in BOOLEAN /\ tim7' \in BOOLEAN /\ model' \in BOOLEAN
      BY <1>14 DEF Restart
    <3>4. buf' \in [1 .. 2 -> Part] /\ image' \in Fingerprint /\ char' \in [1 .. 2 -> Fingerprint]
      BY <1>14, <2>2 DEF Restart
    <3> QED
      BY <2>1, <3>1, <3>2, <3>3, <3>4 DEF LinkTypeOK
  <2>4. LocalTypeOK'
    BY <1>14 DEF Restart, LocalTypeOK, Step, Asking, Command
  <2>5. DoorTypeOK'
    BY <1>14 DEF Restart, DoorTypeOK
  <2> QED
    BY <1>5, <2>3, <2>4, <2>5
<1>15. ASSUME NEW k \in Typed, TypeId(k) \/ TypeDelId(k) PROVE TypeOK'
  <2>1. k \in Nat
    BY FingerLockAssumption
  <2>2. LocalTypeOK'
    BY <1>1, <1>15, <2>1 DEF TypeId, TypeDelId, LocalTypeOK, Goto, Step, Asking, Command
  <2> QED
    BY <1>2, <1>4, <1>5, <1>15, <2>2 DEF TypeId, TypeDelId
<1>16. ASSUME NEW t \in Opener, OtherOpens(t) \/ OtherCloses(t) PROVE TypeOK'
  <2>1. DoorTypeOK'
    BY <1>1, <1>16 DEF OtherOpens, OtherCloses, DoorTypeOK
  <2> QED
    BY <1>2, <1>3, <1>5, <1>16, <2>1 DEF OtherOpens, OtherCloses
<1>17. CASE UNCHANGED vars
  BY <1>2, <1>3, <1>4, <1>5, <1>17 DEF vars
<1> QED
  BY <1>6, <1>7, <1>8, <1>9, <1>10, <1>11, <1>12, <1>13, <1>14, <1>15, <1>16, <1>17
     DEF Next, FRopen_entry

LEMMA TypeInit == ASSUME Init PROVE TypeOK
<1>1. LinkTypeOK
  BY PowerOnType DEF Init
<1> QED
  BY <1>1 DEF Init, Start, TypeOK, Step, Asking, Command

\* Whatever the module answers, T_FR is at one of its steps with at most one number typed, and
\* the buffers of lock and module hold what they can hold.
THEOREM TypeCorrect == Spec => []TypeOK
BY TypeInit, TypeStep, PTL DEF Spec

\* The door is left open by nobody.
THEOREM DoorNotLeftOpen == Spec => []NotLeftOpen
<1>1. Init => NotLeftOpen
  BY DEF Init, Start, NotLeftOpen
<1>2. NotLeftOpen /\ [Next]_vars => NotLeftOpen'
  <2> SUFFICES ASSUME NotLeftOpen, [Next]_vars PROVE NotLeftOpen'
    OBVIOUS
  <2>1. CASE Continue
    BY <2>1 DEF Continue, Handle_AS608, press_FR, verify_FR, Add_FR, Del_FR, Goto, door,
                NotLeftOpen, Stay, Round, Leave
  <2>2. CASE Close \/ Restart
    BY <2>2 DEF Close, Restart, NotLeftOpen
  <2>3. CASE Link \/ Ask \/ Wait \/ Look \/ Shake \/ VerifyTop \/ Menu \/ UNCHANGED vars
    BY <2>3 DEF Link, Ask, Wait, Look, Shake, VerifyTop, Menu, Goto, Stay, Round, Leave, local,
                door, vars, NotLeftOpen, Asking, Command
  <2>4. CASE \E k \in Typed : TypeId(k) \/ TypeDelId(k)
    BY <2>4 DEF TypeId, TypeDelId, Goto, door, NotLeftOpen
  <2>5. CASE \E t \in Opener : OtherOpens(t) \/ OtherCloses(t)
    BY <2>5 DEF OtherOpens, OtherCloses, local, NotLeftOpen
  <2> QED
    BY <2>1, <2>2, <2>3, <2>4, <2>5 DEF Next, FRopen_entry
<1> QED
  BY <1>1, <1>2, PTL DEF Spec

-----------------------------------------------------------------------------
(* Answers and templates, where an answer comes in time or never. *)

\* The steps the argument is about, and what they ask of the module.
LEMMA Asked ==
  /\ Command["pressSearch"] = "HighSpeedSearch" /\ Command["match"] = "Match"
  /\ Command["reg"] = "RegModel" /\ Command["store"] = "StoreChar"
  /\ Command["storeNum"] = "ValidTempleteNum" /\ Command["delete"] = "DeletChar"
  /\ Command["empty"] = "Empty"
BY DEF Command

LEMMA NotAsked == {"menu", "open", "verify", "id", "delId"} \cap Asking = {}
BY DEF Asking, Command

\* With nothing under way and nothing received the parts about answers hold.
LEMMA Quiet ==
  ASSUME reqs' = <<>>, wire' = <<>>, n' = 0, ~done', ~tim7'
  PROVE  Idle' /\ OneCommand' /\ OneAnswer' /\ Earned'
BY DEF Idle, OneCommand, OneAnswer, Earned, OkComes

LEMMA IdleMeansQuiet ==
  ASSUME IInv, io = "idle" PROVE reqs = <<>> /\ wire = <<>> /\ n = 0 /\ ~done /\ ~tim7 /\ ~OkComes
BY DEF IInv, Idle, OkComes

\* A command that the module carries out leaves what its step needs.
LEMMA DoneAt ==
  ASSUME TypeOK, NEW r \in Request, r.cmd = Command[step], r.arg = Argument(step), Done(r),
         UNCHANGED <<step, num>>
  PROVE  /\ step = "pressSearch" => Known'
         /\ step = "match" => Same'
         /\ step = "reg" => model' /\ UNCHANGED char
         /\ step = "store" /\ Same => Stored' /\ UNCHANGED <<char, model>>
         /\ step = "storeNum" => UNCHANGED module
<1>1. ASSUME step = "pressSearch" PROVE Known'
  <2>1. Search(r.arg)
    BY <1>1, Asked DEF Done
  <2> QED
    BY <2>1 DEF Search, Found, Known, module
<1>2. ASSUME step = "match" PROVE Same'
  <2>1. Match
    BY <1>2, Asked DEF Done
  <2> QED
    BY <2>1 DEF Match, Same, module
<1>3. ASSUME step = "reg" PROVE model' /\ UNCHANGED char
  <2>1. RegModel
    BY <1>3, Asked DEF Done
  <2> QED
    BY <2>1 DEF RegModel
<1>4. ASSUME step = "store", Same PROVE Stored' /\ UNCHANGED <<char, model>>
  <2>1. StoreChar(r.arg) /\ r.arg = num
    BY <1>4, Asked DEF Done, Argument
  <2>2. num \in ID
    BY <2>1, As608Assumption DEF StoreChar, ID, TypeOK
  <2>3. lib'[num] = char[2]
    BY <2>1, <2>2 DEF StoreChar, TypeOK, LinkTypeOK
  <2> QED
    BY <1>4, <2>1, <2>3 DEF StoreChar, Stored, Same
<1>5. ASSUME step = "storeNum" PROVE UNCHANGED module
  BY <1>5, Asked DEF Done
<1> QED
  BY <1>1, <1>2, <1>3, <1>4, <1>5

\* The module.
LEMMA As608Inv == ASSUME IInv, As608, UNCHANGED <<local, door>> PROVE IInv'
<1> DEFINE r == Head(reqs)
<1>1. TypeOK'
  BY TypeStep DEF IInv, Next, Link
<1>2. /\ r \in Request /\ r.cmd = Command[step] /\ r.arg = Argument(step) /\ r.own
      /\ reqs' = <<>> /\ wire = <<>> /\ n = 0 /\ ~done /\ ~tim7
  BY DEF IInv, OneCommand, As608, TypeOK, LinkTypeOK
<1>3. io # "idle" /\ step \in Asking
  BY DEF IInv, Idle, AskInPlace, As608
<1>4. UNCHANGED <<step, io, num, PS_max, n, done, tim7>>
  BY DEF local, As608, receiver
<1>5. wire' \in {<<>>, Answer("ok", r.own), Answer("no", r.own)}
  BY DEF As608
<1>6. Idle' /\ AskInPlace'
  BY <1>3, <1>4 DEF Idle, AskInPlace
<1>7. OneCommand'
  BY <1>2 DEF OneCommand
<1>8. ASSUME NEW c \in {"ok", "no"}, wire' = Answer(c, r.own)
      PROVE  Len(wire') = 2 /\ wire'[1].code = "head" /\ wire'[2].code = c /\ wire'[2].own
  BY <1>2, <1>8 DEF Answer, Header
<1>9. OneAnswer'
  <2>1. CASE wire' = <<>>
    BY <1>2, <1>4, <2>1 DEF OneAnswer
  <2>2. CASE wire' = Answer("ok", r.own) \/ wire' = Answer("no", r.own)
    BY <1>2, <1>4, <1>8, <2>2 DEF OneAnswer
  <2> QED
    BY <1>5, <2>1, <2>2
<1>10. ASSUME OkComes' PROVE Done(r)
  <2>1. wire' # <<>> /\ wire'[Len(wire')].code = "ok"
    BY <1>2, <1>4, <1>10 DEF OkComes
  <2>2. wire' # Answer("no", r.own)
    BY <1>8, <2>1
  <2>3. wire' \notin {<<>>, Answer("no", r.own)}
    BY <2>1, <2>2
  <2> QED
    BY <2>3 DEF As608
<1>11. Reached /\ step \notin {"open", "id"}
  BY <1>3, NotAsked DEF IInv
<1>12. Earned'
  BY <1>2, <1>4, <1>10, <1>11, DoneAt DEF Earned, IInv, Reached
<1>13. Reached'
  <2>1. CASE Done(r)
    BY <1>2, <1>4, <1>11, <2>1, DoneAt DEF Reached, IInv, module, Same, Stored
  <2>2. CASE UNCHANGED module
    BY <1>4, <1>11, <2>2 DEF Reached, Known, Same, Stored, module
  <2> QED
    BY <2>1, <2>2 DEF As608
<1> QED
  BY <1>1, <1>6, <1>7, <1>9, <1>12, <1>13 DEF IInv

\* What was established stays so while the module and T_FR stand still.
LEMMA StandStill ==
  ASSUME UNCHANGED <<step, io, num, PS_max, module>>
  PROVE  /\ AskInPlace => AskInPlace'
         /\ Reached => Reached'
         /\ (OkComes' => OkComes) /\ Earned => Earned'
BY DEF AskInPlace, Reached, Earned, Known, Same, Stored, module

\* A sequence of two or less, and what is behind its first element.
LEMMA ShortSeq ==
  ASSUME NEW S, NEW s \in Seq(S), Len(s) <= 2
  PROVE  /\ s = <<>> \/ Len(s) = 1 \/ Len(s) = 2
         /\ Len(s) = 1 => Tail(s) = <<>>
         /\ Len(s) = 2 => Len(Tail(s)) = 1 /\ Tail(s)[1] = s[2]
<1>1. Len(s) \in Nat /\ (s # <<>> => Len(s) \in Nat \ {0})
  BY EmptySeq
<1> DEFINE k == Len(s)
<1>a. k \in Nat /\ k <= 2 /\ (s # <<>> => k # 0)
  BY <1>1
<1> HIDE DEF k
<1>b. k = 0 \/ k = 1 \/ k = 2
  BY <1>a
<1>2. s = <<>> \/ Len(s) = 1 \/ Len(s) = 2
  BY <1>a, <1>b DEF k
<1>3. ASSUME s # <<>>
      PROVE  /\ Tail(s) \in Seq(S) /\ Len(Tail(s)) = Len(s) - 1
             /\ \A i \in 1 .. Len(Tail(s)) : Tail(s)[i] = s[i + 1]
  BY <1>3, HeadTailProperties
<1>4. Len(s) \in {1, 2} => s # <<>>
  BY EmptySeq
<1>5. ASSUME Len(s) = 1 PROVE Tail(s) = <<>>
  <2>1. Tail(s) \in Seq(S) /\ Len(Tail(s)) = 0
    BY <1>3, <1>4, <1>5
  <2> QED
    BY <2>1, EmptySeq
<1>6. ASSUME Len(s) = 2 PROVE Len(Tail(s)) = 1 /\ Tail(s)[1] = s[2]
  <2>1. s # <<>>
    BY <1>4, <1>6
  <2>2. Len(Tail(s)) = 1
    BY <1>3, <1>6, <2>1
  <2>3. \A m \in {1} : 1 \in 1 .. m
    OBVIOUS
  <2>4. Tail(s)[1] = s[1 + 1]
    BY <1>3, <2>1, <2>2, <2>3
  <2> QED
    BY <2>2, <2>3, <2>4
<1> QED
  BY <1>2, <1>5, <1>6

\* The two interrupts.
LEMMA ReceiverInv ==
  ASSUME IInv, USART2_IRQHandler \/ TIM7_IRQHandler, UNCHANGED <<local, door>> PROVE IInv'
<1>1. TypeOK' /\ UNCHANGED <<step, io, num, PS_max, module, reqs>>
  BY TypeStep DEF IInv, Next, Link, USART2_IRQHandler, TIM7_IRQHandler, local
<1>2. io # "idle"
  BY DEF IInv, Idle, USART2_IRQHandler, TIM7_IRQHandler
<1>3. reqs = <<>>
  BY DEF IInv, OneCommand, USART2_IRQHandler, TIM7_IRQHandler
<1>4. Idle' /\ OneCommand'
  BY <1>1, <1>2, <1>3 DEF Idle, OneCommand
<1>5. ASSUME TIM7_IRQHandler PROVE OneAnswer' /\ (OkComes' => OkComes)
  <2>1. wire \in Seq(Part) /\ Len(wire) <= 2
    BY DEF IInv, TypeOK, LinkTypeOK
  <2>2. tim7 /\ Len(wire) # 1 /\ Len(wire) # 2
    BY <1>5 DEF TIM7_IRQHandler, IInv, OneAnswer
  <2>3. wire = <<>>
    BY <2>1, <2>2, ShortSeq
  <2> QED
    BY <1>5, <2>3 DEF TIM7_IRQHandler, IInv, OneAnswer, OkComes
<1>6. ASSUME USART2_IRQHandler PROVE OneAnswer' /\ (OkComes' => OkComes)
  <2>a. wire # <<>> /\ wire \in Seq(Part) /\ Len(wire) <= 2 /\ ~done /\ done' = done
    BY <1>6 DEF USART2_IRQHandler, IInv, TypeOK, LinkTypeOK, OneAnswer
  <2>1. (Len(wire) = 1 \/ Len(wire) = 2) /\ wire \in Seq(Part) /\ ~done /\ done' = done
    BY <2>a, ShortSeq
  <2>2. n # 2
    BY <2>1 DEF IInv, OneAnswer
  <2>3. /\ buf' = [buf EXCEPT ![n + 1] = wire[1]] /\ n' = n + 1 /\ wire' = Tail(wire)
        /\ tim7' = (tim7 \/ n = 0)
    BY <1>6, <2>1, <2>2 DEF USART2_IRQHandler
  <2>4. CASE Len(wire) = 2
    <3>1. n = 0 /\ wire[1].code = "head" /\ wire[2].code # "head" /\ wire[2].own
      BY <2>4 DEF IInv, OneAnswer
    <3>a. Len(wire') = 1 /\ wire'[1] = wire[2]
      BY <2>1, <2>3, <2>4, ShortSeq
    <3>b. buf'[1] = wire[1] /\ n' = 1
      BY <2>3, <3>1 DEF IInv, TypeOK, LinkTypeOK
    <3>2. buf'[1] = wire[1] /\ Len(wire') = 1 /\ wire'[1] = wire[2] /\ n' = 1 /\ tim7'
      BY <2>3, <3>1, <3>a, <3>b
    <3>3. wire' # <<>> /\ wire # <<>>
      BY <2>4, <3>2
    <3>4. OneAnswer'
      BY <2>1, <3>1, <3>2, <3>3 DEF OneAnswer
    <3>5. OkComes' => OkComes
      BY <2>4, <3>2, <3>3 DEF OkComes
    <3> QED
      BY <3>4, <3>5
  <2>5. CASE Len(wire) = 1
    <3>1. wire[1].own /\ wire[1].code # "head" /\ tim7 /\ n \in 0 .. 1 /\ buf[1].code = "head"
      BY <2>5 DEF IInv, OneAnswer, TypeOK, LinkTypeOK
    <3>a. wire' = <<>> /\ wire # <<>>
      BY <2>a, <2>1, <2>3, <2>5, ShortSeq
    <3>2. wire' = <<>> /\ tim7' /\ wire # <<>>
      BY <2>3, <3>1, <3>a
    <3>3. CASE n = 0
      <4>1. buf'[1] = wire[1]
        BY <2>3, <3>3 DEF IInv, TypeOK, LinkTypeOK
      <4> QED
        BY <2>1, <3>1, <3>2, <4>1 DEF OneAnswer, OkComes
    <3>4. CASE n = 1
      <4>1. buf'[2] = wire[1] /\ buf'[1] = buf[1]
        BY <2>3, <3>4 DEF IInv, TypeOK, LinkTypeOK
      <4> QED
        BY <2>1, <2>5, <3>1, <3>2, <4>1 DEF OneAnswer, OkComes
    <3> QED
      BY <3>1, <3>3, <3>4
  <2> QED
    BY <2>1, <2>4, <2>5
<1> QED
  BY <1>1, <1>4, <1>5, <1>6, StandStill DEF IInv

\* A command leaves; the wait for its answer begins; what is no answer is passed over.
LEMMA AskInv == ASSUME IInv, Ask PROVE IInv'
<1>1. TypeOK'
  BY TypeStep DEF IInv, Next, FRopen_entry
<1>2. reqs = <<>> /\ wire = <<>> /\ n = 0 /\ ~done /\ ~tim7 /\ ~OkComes
  BY IdleMeansQuiet DEF Ask
<1>3. /\ reqs' = <<[cmd |-> Command[step], arg |-> Argument(step), own |-> TRUE]>>
      /\ UNCHANGED <<wire, n, done, tim7, buf, module>>
  BY <1>2 DEF Ask, Send, receiver, module
<1>4. UNCHANGED <<step, num, PS_max>> /\ io' = "sent" /\ step \in Asking
  BY DEF Ask
<1>5. Idle' /\ AskInPlace'
  BY <1>4 DEF Idle, AskInPlace
<1>6. OneCommand'
  BY <1>2, <1>3, <1>4 DEF OneCommand, Argument
<1>7. OneAnswer' /\ Earned'
  BY <1>2, <1>3 DEF OneAnswer, Earned, OkComes
<1>8. Reached'
  BY <1>3, <1>4 DEF IInv, Reached, Known, Same, Stored, module
<1> QED
  BY <1>1, <1>5, <1>6, <1>7, <1>8 DEF IInv

LEMMA WaitInv == ASSUME IInv, Wait \/ Look PROVE IInv'
<1>1. TypeOK'
  BY TypeStep DEF IInv, Next, FRopen_entry
<1>2. /\ JudgeStr /\ UNCHANGED <<step, num, PS_max, module>> /\ io # "idle" /\ io' # "idle"
      /\ step \in Asking
  BY DEF Wait, Look, NoHeader, JudgeStr, local, IInv, AskInPlace
<1>3. UNCHANGED <<reqs, wire, buf, tim7>> /\ n' = 0 /\ ~done'
  BY <1>2 DEF JudgeStr, Clear
<1>4. Idle' /\ AskInPlace' /\ Reached'
  BY <1>2 DEF Idle, AskInPlace, IInv, Reached, Known, Same, Stored, module
<1>5. OneCommand'
  BY <1>2, <1>3 DEF IInv, OneCommand, Argument
<1>6. OneAnswer' /\ (OkComes' => OkComes)
  BY <1>3 DEF IInv, OneAnswer, OkComes
<1>7. Earned'
  BY <1>2, <1>6 DEF IInv, Earned, Known, Same, Stored, module
<1> QED
  BY <1>1, <1>4, <1>5, <1>6, <1>7 DEF IInv

\* When the wait is over nothing is left of the command.
LEMMA Returned ==
  ASSUME IInv, Prompt, NEW ok \in BOOLEAN, Returns(ok)
  PROVE  /\ reqs' = <<>> /\ wire' = <<>> /\ n' = 0 /\ ~done' /\ ~tim7'
         /\ UNCHANGED module /\ io' = "idle" /\ (ok => OkComes)
<1>1. reqs = <<>> /\ wire = <<>> /\ ~tim7
  BY DEF Returns, Answered, TimedOut, Outstanding, IInv, OneCommand, OneAnswer
<1>2. n' = 0 /\ ~done' /\ tim7' = tim7
  BY <1>1 DEF Returns, Answered, TimedOut, Clear, IInv, OneAnswer, TypeOK, LinkTypeOK
<1>3. Disown /\ UNCHANGED module /\ io' = "idle"
  BY DEF Returns, Answered, TimedOut
<1>4. reqs' = <<>> /\ wire' = <<>>
  BY <1>1, <1>3 DEF Disown, Others
<1>5. ok => OkComes
  BY <1>1 DEF Returns, Answered, OkComes
<1> QED
  BY <1>1, <1>2, <1>3, <1>4, <1>5

LEMMA ShakeInv == ASSUME IInv, Prompt, Shake PROVE IInv'
<1>1. TypeOK'
  BY TypeStep DEF IInv, Next, FRopen_entry
<1>2. reqs = <<>> /\ wire = <<>> /\ ~tim7
  BY DEF Shake, ShakeAnswered, ShakeFailed, IInv, OneCommand, OneAnswer
<1>3. n' = 0 /\ ~done' /\ tim7' = tim7
  BY <1>2 DEF Shake, ShakeAnswered, ShakeFailed, Clear, IInv, OneAnswer, TypeOK, LinkTypeOK
<1>4. reqs' = <<>> /\ wire' = <<>>
  BY <1>2 DEF Shake, ShakeAnswered, ShakeFailed, Disown, Others
<1>5. Reached' /\ AskInPlace'
  BY DEF Shake, Goto, Reached, AskInPlace
<1> QED
  BY <1>1, <1>2, <1>3, <1>4, <1>5, Quiet DEF IInv

\* The answer leads on only where it has earned it.
LEMMA ContinueInv == ASSUME IInv, Prompt, Continue PROVE IInv'
<1>1. TypeOK'
  BY TypeStep DEF IInv, Next, FRopen_entry
<1>2. PICK ok \in BOOLEAN :
        /\ Returns(ok)
        /\ Handle_AS608(ok) \/ press_FR(ok) \/ verify_FR(ok) \/ Add_FR(ok) \/ Del_FR(ok)
  BY DEF Continue
<1>3. /\ reqs' = <<>> /\ wire' = <<>> /\ n' = 0 /\ ~done' /\ ~tim7'
      /\ UNCHANGED module /\ io' = "idle" /\ (ok => OkComes)
  BY <1>2, Returned
<1>4. UNCHANGED <<image, char, model, lib>> /\ Earned /\ Reached
  BY <1>3 DEF module, IInv
<1>5. AskInPlace'
  BY <1>3 DEF AskInPlace
<1>6. Reached'
  <2>1. CASE Handle_AS608(ok)
    BY <2>1 DEF Handle_AS608, Goto, Reached
  <2>2. CASE press_FR(ok)
    BY <1>3, <1>4, <2>2 DEF press_FR, Goto, Reached, Earned, Known
  <2>3. CASE verify_FR(ok)
    BY <2>3 DEF verify_FR, Goto, Stay, Round, Leave, Reached
  <2>4. CASE Add_FR(ok)
    <3>1. step' = "reg" => step = "match" /\ ok
      BY <2>4 DEF Add_FR, Goto, Stay, Round, Leave
    <3>2. step' = "id" => step = "reg" /\ ok
      BY <2>4 DEF Add_FR, Goto, Stay, Round, Leave
    <3>3. step' = "storeNum" => step = "store" /\ ok /\ num' = num
      BY <2>4 DEF Add_FR, Goto, Stay, Round, Leave
    <3>4. step' \notin {"open", "store"}
      BY <2>4 DEF Add_FR, Goto, Stay, Round, Leave
    <3> QED
      BY <1>3, <1>4, <3>1, <3>2, <3>3, <3>4 DEF Reached, Earned, Same, Stored
  <2>5. CASE Del_FR(ok)
    BY <2>5 DEF Del_FR, Goto, Stay, Leave, Reached
  <2> QED
    BY <1>2, <2>1, <2>2, <2>3, <2>4, <2>5
<1> QED
  BY <1>1, <1>3, <1>5, <1>6, Quiet DEF IInv

\* The steps without a command.
LEMMA FreeInv ==
  ASSUME IInv, VerifyTop \/ Close \/ Menu \/ (\E k \in Typed : TypeId(k) \/ TypeDelId(k))
  PROVE  IInv'
<1>1. TypeOK'
  BY TypeStep DEF IInv, Next, FRopen_entry
<1>2. step \in {"verify", "open", "menu", "id", "delId"} /\ UNCHANGED <<link, io>>
  BY DEF VerifyTop, Close, Menu, TypeId, TypeDelId
<1>3. io = "idle"
  BY <1>2, NotAsked DEF IInv, AskInPlace
<1>4. UNCHANGED <<reqs, wire, n, done, tim7, image, char, model, lib>>
  BY <1>2 DEF link, receiver, module
<1>5. Idle' /\ OneCommand' /\ OneAnswer' /\ Earned'
  BY <1>3, <1>4, IdleMeansQuiet, Quiet
<1>6. AskInPlace'
  BY <1>2, <1>3 DEF AskInPlace
<1>7. step' = "store" => step = "id"
  BY DEF VerifyTop, Close, Menu, TypeId, TypeDelId, Goto, Stay, Round, Leave
<1>8. step' \notin {"open", "reg", "id", "storeNum"}
  BY DEF VerifyTop, Close, Menu, TypeId, TypeDelId, Goto, Stay, Round, Leave
<1>9. Reached'
  BY <1>4, <1>7, <1>8 DEF Reached, IInv, Same
<1> QED
  BY <1>1, <1>5, <1>6, <1>9 DEF IInv

LEMMA RestartInv == ASSUME IInv, Restart PROVE IInv'
<1>1. TypeOK'
  BY TypeStep DEF IInv, Next
<1>2. Idle' /\ OneCommand' /\ OneAnswer' /\ Earned'
  BY Quiet DEF Restart
<1>3. AskInPlace' /\ Reached'
  BY DEF Restart, AskInPlace, Reached
<1> QED
  BY <1>1, <1>2, <1>3 DEF IInv

LEMMA OthersInv == ASSUME IInv, UNCHANGED <<link, local>>, TypeOK' PROVE IInv'
<1>1. /\ Idle' /\ AskInPlace' /\ Earned' /\ Reached'
  BY DEF IInv, Idle, AskInPlace, Earned, Reached, OkComes, Known, Same, Stored, link, receiver,
         module, local
<1>2. OneCommand' /\ OneAnswer'
  BY DEF IInv, OneCommand, OneAnswer, Argument, link, receiver, local
<1> QED
  BY <1>1, <1>2 DEF IInv

LEMMA InvStep == ASSUME IInv, Prompt, [Next]_vars PROVE IInv'
<1>1. TypeOK'
  BY TypeStep DEF IInv
<1>2. CASE Link
  BY <1>2, As608Inv, ReceiverInv DEF Link
<1>3. CASE \E t \in Opener : OtherOpens(t) \/ OtherCloses(t)
  BY <1>1, <1>3, OthersInv DEF OtherOpens, OtherCloses
<1>4. CASE UNCHANGED vars
  BY <1>1, <1>4, OthersInv DEF vars
<1> QED
  BY <1>2, <1>3, <1>4, AskInv, WaitInv, ShakeInv, ContinueInv, FreeInv, RestartInv
     DEF Next, FRopen_entry

LEMMA InvInit == ASSUME Init PROVE IInv
<1>1. Idle /\ OneCommand /\ OneAnswer /\ Earned
  BY DEF Init, PowerOn, Idle, OneCommand, OneAnswer, Earned, OkComes
<1>2. AskInPlace /\ Reached
  BY DEF Init, Start, AskInPlace, Reached
<1> QED
  BY <1>1, <1>2, TypeInit DEF IInv

\* One command at most is under way, its answer is its own, and what the answers before have
\* established still holds.
THEOREM OneAtATime == ASSUME Prompt PROVE Spec => []IInv
<1>1. Init => IInv
  BY InvInit
<1>2. IInv /\ [Next]_vars => IInv'
  BY InvStep
<1> QED
  BY <1>1, <1>2, PTL DEF Spec

\* What the wait returns answers the command it waits for.
THEOREM AnswersAreOwn == ASSUME Prompt PROVE Spec => []AnswerIsOwn
<1>1. IInv => AnswerIsOwn
  BY DEF IInv, OneAnswer, AnswerIsOwn
<1> QED
  BY <1>1, OneAtATime, PTL

\* The finger that opens the door is enrolled.
THEOREM OnlyEnrolledOpens == ASSUME Prompt PROVE Spec => []OpensForEnrolled
<1>1. IInv => OpensForEnrolled
  BY DEF IInv, Reached, Known, OpensForEnrolled
<1> QED
  BY <1>1, OneAtATime, PTL

\* A reported success is one.
THEOREM ReportedIsStored == ASSUME Prompt PROVE Spec => []SuccessIsStored
<1>1. IInv => SuccessIsStored
  BY DEF IInv, Reached, Stored, SuccessIsStored
<1> QED
  BY <1>1, OneAtATime, PTL

\* The library changes only when the module carries out the command of the step T_FR is at.
LEMMA LibraryStep ==
  ASSUME IInv, [Next]_vars, lib' # lib
  PROVE  /\ reqs # <<>> /\ Head(reqs).cmd = Command[step] /\ Head(reqs).arg = Argument(step)
         /\ Done(Head(reqs)) /\ step \in Asking
<1>1. CASE Link
  <2>1. As608
    BY <1>1 DEF Link, USART2_IRQHandler, TIM7_IRQHandler, module
  <2>2. Done(Head(reqs)) /\ reqs # <<>>
    BY <2>1 DEF As608, module
  <2> QED
    BY <2>2 DEF IInv, OneCommand, Idle, AskInPlace
<1>2. CASE Ask \/ Wait \/ Look \/ Shake \/ Continue
  BY <1>2 DEF Ask, Wait, Look, Shake, Continue, Returns, Send, NoHeader, JudgeStr, Answered, TimedOut,
              ShakeAnswered, ShakeFailed, module
<1>3. CASE VerifyTop \/ Close \/ Menu \/ (\E k \in Typed : TypeId(k) \/ TypeDelId(k))
  BY <1>3 DEF VerifyTop, Close, Menu, TypeId, TypeDelId, link, module
<1>4. CASE Restart \/ (\E t \in Opener : OtherOpens(t) \/ OtherCloses(t)) \/ UNCHANGED vars
  BY <1>4 DEF Restart, OtherOpens, OtherCloses, vars, link, module
<1> QED
  BY <1>1, <1>2, <1>3, <1>4 DEF Next, FRopen_entry

\* Which commands change the library, and at which steps they are sent.
LEMMA Changers ==
  ASSUME NEW r, Done(r), r.cmd = Command[step], step \in Asking, lib' # lib
  PROVE  \/ step = "store" /\ StoreChar(r.arg)
         \/ step = "delete" /\ DeletChar(r.arg)
         \/ step = "empty" /\ Empty
<1>1. r.cmd \in {"StoreChar", "DeletChar", "Empty"}
  BY DEF Done, GetImage, GenChar, Match, RegModel, Search, module
<1>2. step \in {"store", "delete", "empty"}
  BY <1>1, StepNames DEF Command
<1> QED
  BY <1>2, Asked DEF Done

\* A stored template is made of two images of one finger.
THEOREM TwoImages == ASSUME Prompt PROVE Spec => StoresTwoImages
<1>1. ASSUME IInv, [Next]_vars, NEW id \in ID, lib'[id] \notin {lib[id], NoFinger}
      PROVE  model /\ Same /\ lib'[id] = char[1]
  <2>1. lib' # lib
    BY <1>1
  <2>2. step = "store" /\ StoreChar(Head(reqs).arg)
    BY <1>1, <2>1, LibraryStep, Changers DEF DeletChar, Empty, IInv, TypeOK, LinkTypeOK
  <2>3. lib'[id] = char[2]
    BY <1>1, <2>2 DEF StoreChar, IInv, TypeOK, LinkTypeOK
  <2> QED
    BY <1>1, <2>2, <2>3 DEF IInv, Reached, Same
<1>2. IInv /\ [Next]_vars => [\A id \in ID : lib'[id] \notin {lib[id], NoFinger} =>
                                 model /\ Same /\ lib'[id] = char[1]]_vars
  BY <1>1
<1> QED
  BY <1>2, OneAtATime, PTL DEF Spec, StoresTwoImages

\* A template goes only by its own deletion.
THEOREM OnlyChosenDeleted == ASSUME Prompt PROVE Spec => DeletesChosen
<1>1. ASSUME IInv, [Next]_vars, NEW id \in ID, lib[id] # NoFinger, lib'[id] = NoFinger
      PROVE  step = "empty" \/ (step = "delete" /\ num = id)
  <2>1. lib' # lib
    BY <1>1
  <2>2. \/ step = "store" /\ StoreChar(Head(reqs).arg)
        \/ step = "delete" /\ DeletChar(Head(reqs).arg) /\ Head(reqs).arg = num
        \/ step = "empty"
    BY <1>1, <2>1, LibraryStep, Changers DEF Argument
  <2>3. CASE step = "store" /\ StoreChar(Head(reqs).arg)
    BY <1>1, <2>3 DEF StoreChar, IInv, TypeOK, LinkTypeOK
  <2>4. CASE step = "delete" /\ DeletChar(Head(reqs).arg) /\ Head(reqs).arg = num
    BY <1>1, <2>4 DEF DeletChar, IInv, TypeOK, LinkTypeOK
  <2> QED
    BY <2>2, <2>3, <2>4
<1>2. IInv /\ [Next]_vars => [\A id \in ID : lib[id] # NoFinger /\ lib'[id] = NoFinger =>
                                 step = "empty" \/ (step = "delete" /\ num = id)]_vars
  BY <1>1
<1> QED
  BY <1>2, OneAtATime, PTL DEF Spec, DeletesChosen
===============================================================================
