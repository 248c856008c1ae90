--------------------------- MODULE FingerAuthProofs ---------------------------
(***************************************************************************)
(* FingerLock implements FingerAuth, where an answer comes before the wait *)
(* for it ends, or never: for every set of fingers, every library, every   *)
(* set of numbers typed and every number of rounds.                        *)
(***************************************************************************)
EXTENDS FingerLockProofs

\* Del_FR empties the library for the clear key and for no other number.
ClearEmpties ==
  /\ step = "empty" => num = ClearKey
  /\ step = "delete" => num # ClearKey

AuthInv == IInv /\ ClearEmpties

\* What the dialogues do, by the step they are at.
LEMMA DoingAt ==
  /\ step = "open" => Doing = "open" /\ Shown = char[1] /\ Chosen = 0
  /\ step \in {"addImage1", "addGen1", "addImage2", "addGen2", "match", "reg", "id"}
       => Doing = "enrol" /\ Shown = NoFinger /\ Chosen = 0
  /\ step = "store" => Doing = "keep" /\ Shown = NoFinger /\ Chosen = num
  /\ step = "storeNum" => Doing = "kept" /\ Shown = char[1] /\ Chosen = num
  /\ step \in {"delete", "empty", "delNum"}
       => Doing = "delete" /\ Shown = NoFinger /\ Chosen = num
  /\ step \in {"menu", "verify", "delId", "shake", "shakeNum", "sysPara", "pressImage", "pressGen",
               "pressSearch", "verImage", "verGen", "verSearch"}
       => Doing = "none" /\ Shown = NoFinger /\ Chosen = 0
  BY DEF Doing, Shown, Chosen

LEMMA DoingNext ==
  /\ step' = "open" => Doing' = "open" /\ Shown' = char'[1] /\ Chosen' = 0
  /\ step' \in {"addImage1", "addGen1", "addImage2", "addGen2", "match", "reg", "id"}
       => Doing' = "enrol" /\ Shown' = NoFinger /\ Chosen' = 0
  /\ step' = "store" => Doing' = "keep" /\ Shown' = NoFinger /\ Chosen' = num'
  /\ step' = "storeNum" => Doing' = "kept" /\ Shown' = char'[1] /\ Chosen' = num'
  /\ step' \in {"delete", "empty", "delNum"}
       => Doing' = "delete" /\ Shown' = NoFinger /\ Chosen' = num'
  /\ step' \in {"menu", "verify", "delId", "shake", "shakeNum", "sysPara", "pressImage", "pressGen",
                "pressSearch", "verImage", "verGen", "verSearch"}
       => Doing' = "none" /\ Shown' = NoFinger /\ Chosen' = 0
  BY DEF Doing, Shown, Chosen

\* A step that leaves the place, the number and the module alone changes nothing there.
LEMMA AuthStutter ==
  ASSUME UNCHANGED <<step, num, module>>
  PROVE  UNCHANGED Auth!vars
  BY DEF Auth!vars, Doing, Shown, Chosen, module

\* So does one that stays within what is being done.
LEMMA WithinNone ==
  ASSUME Doing = "none", Doing' = "none", UNCHANGED lib,
         Shown = NoFinger, Shown' = NoFinger, Chosen = 0, Chosen' = 0
  PROVE  UNCHANGED Auth!vars
  BY DEF Auth!vars

LEMMA ClearInit == ASSUME Init PROVE ClearEmpties
  BY DEF Init, Start, ClearEmpties

LEMMA ClearStep ==
  ASSUME IInv, ClearEmpties, [Next]_vars
  PROVE  ClearEmpties'
<1>1. CASE UNCHANGED <<step, num>>
  BY <1>1 DEF ClearEmpties
<1>2. CASE step' \notin {"empty", "delete"}
  BY <1>2 DEF ClearEmpties
<1>3. ASSUME NEW k \in Typed, TypeDelId(k) PROVE ClearEmpties'
  BY <1>3 DEF TypeDelId, Goto, ClearEmpties
<1>4. CASE Link \/ Ask \/ Wait \/ Look \/ (\E t \in Opener : OtherOpens(t) \/ OtherCloses(t))
           \/ UNCHANGED vars
  BY <1>1, <1>4 DEF Link, Ask, Wait, Look, OtherOpens, OtherCloses, vars, local
<1>5. CASE Shake \/ VerifyTop \/ Close \/ Menu \/ Restart \/ (\E k \in Typed : TypeId(k))
  BY <1>2, <1>5 DEF Shake, VerifyTop, Close, Menu, Restart, TypeId, Goto, Stay, Round, Leave
<1>6. CASE Continue
  BY <1>2, <1>6 DEF Continue, Handle_AS608, press_FR, verify_FR, Add_FR, Del_FR, Goto, Stay, Round, Leave
<1> QED BY <1>3, <1>4, <1>5, <1>6 DEF Next, FRopen_entry

-----------------------------------------------------------------------------
(* The steps. *)

\* The module changes the library only to store a finger or to remove what was chosen.
LEMMA LinkAuth ==
  ASSUME AuthInv, Link
  PROVE  Auth!Store \/ Auth!Remove \/ UNCHANGED Auth!vars
<1>1. CASE USART2_IRQHandler \/ TIM7_IRQHandler
  BY <1>1, AuthStutter DEF Link, USART2_IRQHandler, TIM7_IRQHandler, local
<1>2. CASE As608
  <2> DEFINE r == Head(reqs)
  <2>1. /\ r \in Request /\ r.cmd = Command[step] /\ r.arg = Argument(step) /\ step \in Asking
        /\ UNCHANGED <<step, num>>
    BY <1>2 DEF AuthInv, IInv, OneCommand, Idle, AskInPlace, As608, TypeOK, LinkTypeOK, Link, local
  <2>2. UNCHANGED <<Doing, Chosen>>
    BY <2>1 DEF Doing, Chosen
  <2>3. UNCHANGED Shown
    <3>1. step # "open"
      BY <2>1, NotAsked
    <3>2. step = "storeNum" => UNCHANGED module
      BY <1>2, <2>1, DoneAt DEF As608, AuthInv, IInv
    <3> QED BY <2>1, <3>1, <3>2 DEF Shown, module
  <2>4. CASE lib' = lib
    BY <2>2, <2>3, <2>4 DEF Auth!vars
  <2>5. CASE lib' # lib
    <3>1. Done(r)
      BY <1>2, <2>5 DEF As608, module
    <3>2. \/ step = "store" /\ StoreChar(r.arg) /\ r.arg = num
          \/ step = "delete" /\ DeletChar(r.arg) /\ r.arg = num
          \/ step = "empty" /\ Empty
      BY <2>1, <2>5, <3>1, Changers DEF Argument
    <3>3. CASE step = "store" /\ StoreChar(r.arg) /\ r.arg = num
      <4>0. num < Cap /\ num \in Nat /\ lib' = [lib EXCEPT ![num] = char[2]]
        BY <3>3 DEF StoreChar, AuthInv, IInv, TypeOK
      <4>1. num \in ID /\ lib' = [lib EXCEPT ![num] = char[2]]
        BY <4>0, As608Assumption DEF ID
      <4>2. char[2] \in Finger
        BY <3>3 DEF StoreChar, AuthInv, IInv, TypeOK, LinkTypeOK, Fingerprint
      <4>3. Doing = "keep" /\ Chosen = num
        BY <3>3, DoingAt
      <4> QED BY <2>2, <2>3, <4>1, <4>2, <4>3 DEF Auth!Store
    <3>4. CASE step = "delete" /\ DeletChar(r.arg) /\ r.arg = num
      <4>1. lib' = [lib EXCEPT ![num] = NoFinger] /\ lib \in [ID -> Fingerprint]
        BY <3>4 DEF DeletChar, AuthInv, IInv, TypeOK, LinkTypeOK
      <4>2. Doing = "delete" /\ Chosen = num /\ num # ClearKey
        BY <3>4, DoingAt DEF AuthInv, ClearEmpties
      <4>3. lib' = [id \in ID |-> IF Chosen \in {ClearKey, id} THEN NoFinger ELSE lib[id]]
        BY <4>1, <4>2
      <4> QED BY <2>2, <2>3, <4>2, <4>3 DEF Auth!Remove
    <3>5. CASE step = "empty" /\ Empty
      <4>1. Doing = "delete" /\ Chosen = ClearKey
        BY <3>5, DoingAt DEF AuthInv, ClearEmpties
      <4>2. lib' = [id \in ID |-> IF Chosen \in {ClearKey, id} THEN NoFinger ELSE lib[id]]
        BY <3>5, <4>1 DEF Empty
      <4> QED BY <2>2, <2>3, <4>1, <4>2 DEF Auth!Remove
    <3> QED BY <3>2, <3>3, <3>4, <3>5
  <2> QED BY <2>4, <2>5
<1> QED BY <1>1, <1>2 DEF Link

\* From the answer on, the module stands still.
LEMMA ContinueAuth ==
  ASSUME AuthInv, Prompt, Continue
  PROVE  [Auth!Next]_(Auth!vars)
<1>1. PICK ok \in BOOLEAN :
        /\ Returns(ok)
        /\ Handle_AS608(ok) \/ press_FR(ok) \/ verify_FR(ok) \/ Add_FR(ok) \/ Del_FR(ok)
  BY DEF Continue
<1>2. UNCHANGED <<char, lib>> /\ (ok => OkComes)
  BY <1>1, Returned DEF AuthInv, module
<1>3. TypeOK /\ Earned /\ Reached
  BY DEF AuthInv, IInv
<1>4. CASE Handle_AS608(ok)
  <2>1. step \in {"shakeNum", "sysPara"} /\ step' \in {"sysPara", "menu"}
    BY <1>4 DEF Handle_AS608, Goto
  <2> QED BY <1>2, <2>1, DoingAt, DoingNext, WithinNone
<1>5. CASE press_FR(ok)
  <2>1. CASE step' # "open"
    <3>1. step \in {"pressImage", "pressGen", "pressSearch"}
          /\ step' \in {"menu", "pressGen", "pressSearch"}
      BY <1>5, <2>1 DEF press_FR, Goto
    <3> QED BY <1>2, <3>1, DoingAt, DoingNext, WithinNone
  <2>2. CASE step' = "open"
    <3>1. step = "pressSearch" /\ ok
      BY <1>5, <2>2 DEF press_FR, Goto
    <3>2. Known
      BY <1>2, <1>3, <3>1 DEF Earned
    <3>3. Doing = "none" /\ Doing' = "open" /\ Chosen = 0 /\ Chosen' = 0 /\ Shown' = char[1]
      BY <1>2, <2>2, <3>1, DoingAt, DoingNext
    <3>4. Auth!Admit
      BY <1>2, <3>2, <3>3 DEF Auth!Admit, Known
    <3> QED BY <3>4 DEF Auth!Next
  <2> QED BY <2>1, <2>2
<1>6. CASE verify_FR(ok)
  <2>1. step \in {"verImage", "verGen", "verSearch"}
        /\ step' \in {"verGen", "verSearch", "verify", "menu", "addImage1"}
    BY <1>6 DEF verify_FR, Goto, Stay, Round, Leave
  <2>2. CASE step' = "addImage1"
    <3>1. Auth!Begin
      BY <1>2, <2>1, <2>2, DoingAt, DoingNext DEF Auth!Begin
    <3> QED BY <3>1 DEF Auth!Next
  <2>3. CASE step' # "addImage1"
    BY <1>2, <2>1, <2>3, DoingAt, DoingNext, WithinNone
  <2> QED BY <2>2, <2>3
<1>7. CASE Add_FR(ok)
  <2>1. /\ step \in {"addImage1", "addGen1", "addImage2", "addGen2", "match", "reg", "store", "storeNum"}
        /\ step \in {"store", "storeNum"} =>
             \/ step = "store" /\ step' = "storeNum" /\ ok /\ num' = num
             \/ step = "store" /\ step' = "addImage1"
             \/ step' = "menu"
        /\ step \notin {"store", "storeNum"} => step' \in {"addImage1", "addGen1", "addImage2", "addGen2",
             "match", "reg", "id", "menu"}
    BY <1>7 DEF Add_FR, Goto, Stay, Round, Leave
  <2>2. CASE step' = "menu"
    <3>1. Auth!End
      BY <1>2, <2>1, <2>2, DoingAt, DoingNext DEF Auth!End
    <3> QED BY <3>1 DEF Auth!Next
  <2>3. CASE step \notin {"store", "storeNum"} /\ step' # "menu"
    BY <1>2, <2>1, <2>3, DoingAt, DoingNext DEF Auth!vars
  <2>4. CASE step = "store" /\ step' = "storeNum" /\ ok /\ num' = num
    <3>1. num \in ID /\ lib[num] = char[1] /\ char[1] # NoFinger
      BY <1>2, <1>3, <2>4, As608Assumption DEF Earned, Reached, Stored, Same, ID, TypeOK
    <3>2. Auth!Report
      BY <1>2, <2>4, <3>1, DoingAt, DoingNext DEF Auth!Report
    <3> QED BY <3>2 DEF Auth!Next
  <2>5. CASE step = "store" /\ step' = "addImage1"
    <3>1. Auth!Retry
      BY <1>2, <2>5, DoingAt, DoingNext DEF Auth!Retry
    <3> QED BY <3>1 DEF Auth!Next
  <2> QED BY <2>1, <2>2, <2>3, <2>4, <2>5
<1>8. CASE Del_FR(ok)
  <2>1. \/ step \in {"delete", "empty"} /\ step' = "delNum" /\ num' = num
        \/ step = "delNum" /\ step' = "menu"
    BY <1>8 DEF Del_FR, Goto, Stay, Leave
  <2>2. CASE step \in {"delete", "empty"} /\ step' = "delNum" /\ num' = num
    BY <1>2, <2>2, DoingAt, DoingNext DEF Auth!vars
  <2>3. CASE step = "delNum" /\ step' = "menu"
    <3>1. Auth!End
      BY <1>2, <2>3, DoingAt, DoingNext DEF Auth!End
    <3> QED BY <3>1 DEF Auth!Next
  <2> QED BY <2>1, <2>2, <2>3
<1> QED BY <1>1, <1>4, <1>5, <1>6, <1>7, <1>8

\* The steps without an answer.
LEMMA FreeAuth ==
  ASSUME AuthInv, VerifyTop \/ Close \/ Menu \/ Shake \/ (\E k \in Typed : TypeId(k) \/ TypeDelId(k))
  PROVE  [Auth!Next]_(Auth!vars)
<1>1. UNCHANGED <<char, lib>>
  BY DEF VerifyTop, Close, Menu, Shake, ShakeAnswered, ShakeFailed, TypeId, TypeDelId, link, module
<1>2. CASE VerifyTop \/ Menu \/ Shake
  <2>1. /\ step \in {"verify", "menu", "shake"}
        /\ step' \in {"verImage", "verify", "menu", "pressImage", "delId", "shake", "shakeNum"}
    BY <1>2 DEF VerifyTop, Menu, Shake, Goto, Stay, Round, Leave
  <2> QED BY <1>1, <2>1, DoingAt, DoingNext, WithinNone
<1>3. CASE Close
  <2>1. step = "open" /\ step' = "menu"
    BY <1>3 DEF Close, Goto
  <2>2. Auth!End
    BY <1>1, <2>1, DoingAt, DoingNext DEF Auth!End
  <2> QED BY <2>2 DEF Auth!Next
<1>4. ASSUME NEW k \in Typed, TypeId(k) PROVE Auth!Next
  <2>1. step = "id" /\ step' = "store" /\ num' = k /\ k \in Nat
    BY <1>4, FingerLockAssumption DEF TypeId, Goto
  <2>2. Auth!Keep
    BY <1>1, <2>1, DoingAt, DoingNext DEF Auth!Keep
  <2> QED BY <2>2 DEF Auth!Next
<1>5. ASSUME NEW k \in Typed, TypeDelId(k) PROVE Auth!Next
  <2>1. step = "delId" /\ step' \in {"empty", "delete"} /\ num' = k /\ k \in Nat
    BY <1>5, FingerLockAssumption DEF TypeDelId, Goto
  <2>2. Auth!Choose
    BY <1>1, <2>1, DoingAt, DoingNext DEF Auth!Choose
  <2> QED BY <2>2 DEF Auth!Next
<1> QED BY <1>2, <1>3, <1>4, <1>5

\* A restart gives up what is being done.
LEMMA RestartAuth ==
  ASSUME AuthInv, Restart
  PROVE  [Auth!Next]_(Auth!vars)
<1>1. step' = "shake" /\ lib' = lib
  BY DEF Restart
<1>2. Doing' = "none" /\ Shown' = NoFinger /\ Chosen' = 0
  BY <1>1, DoingNext
<1>3. CASE Doing # "none"
  <2>1. Auth!End
    BY <1>1, <1>2, <1>3 DEF Auth!End
  <2> QED BY <2>1 DEF Auth!Next
<1>4. CASE Doing = "none"
  <2>1. Shown = NoFinger /\ Chosen = 0
    BY <1>4, DoingAt DEF Shown, Chosen
  <2> QED BY <1>1, <1>2, <1>4, <2>1, WithinNone
<1> QED BY <1>3, <1>4

\* The fingerprint dialogues implement FingerAuth, if an answer comes before the wait for it
\* ends or never: the door opens for a finger of the library, which stays as it is meanwhile;
\* only an enrolment stores, under the number typed, and what it reports is there; only a
\* deletion removes, the number typed or, for the clear key, all; and commands and answers that
\* are lost, failed rounds and restarts change nothing in that (Handle_AS608.c 89-374).
THEOREM FingerImplements == ASSUME Prompt PROVE Spec => ImplementsFingerAuth
<1>1. Init => Auth!Init
  <2> SUFFICES ASSUME Init PROVE Auth!Init
    OBVIOUS
  <2>1. step = "shake" /\ lib \in [ID -> Finger \cup {NoFinger}]
    BY DEF Init, Start, Fingerprint
  <2> QED BY <2>1, DoingAt DEF Auth!Init
<1>2. Init => ClearEmpties
  BY ClearInit
<1>3. IInv /\ ClearEmpties /\ [Next]_vars => ClearEmpties'
  BY ClearStep
<1>4. IInv /\ ClearEmpties /\ [Next]_vars => [Auth!Next]_(Auth!vars)
  <2> SUFFICES ASSUME AuthInv, [Next]_vars PROVE [Auth!Next]_(Auth!vars)
    BY DEF AuthInv
  <2>1. CASE Link
    BY <2>1, LinkAuth DEF Auth!Next
  <2>2. CASE Continue
    BY <2>2, ContinueAuth
  <2>3. CASE VerifyTop \/ Close \/ Menu \/ Shake \/ (\E k \in Typed : TypeId(k) \/ TypeDelId(k))
    BY <2>3, FreeAuth
  <2>4. CASE Restart
    BY <2>4, RestartAuth
  <2>5. CASE Ask \/ Wait \/ Look \/ (\E t \in Opener : OtherOpens(t) \/ OtherCloses(t)) \/ UNCHANGED vars
    <3>1. UNCHANGED <<step, num, module>>
      BY <2>5 DEF Ask, Send, Wait, Look, NoHeader, JudgeStr, OtherOpens, OtherCloses, vars, local, link
    <3> QED BY <3>1, AuthStutter
  <2> QED BY <2>1, <2>2, <2>3, <2>4, <2>5 DEF Next, FRopen_entry
<1> QED BY <1>1, <1>2, <1>3, <1>4, OneAtATime, PTL DEF Spec, ImplementsFingerAuth, Auth!Spec
===============================================================================
