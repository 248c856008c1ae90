------------------------------ MODULE FingerLock ------------------------------
(***************************************************************************)
(* T_FR and the fingerprint module: the start (Handle_AS608), a finger at  *)
(* the door (press_FR), enrolment (verify_FR, Add_FR) and deletion         *)
(* (Del_FR).  "step" is the place in these functions, named after the      *)
(* answer that is waited for; "io" is where the command of that step is.   *)
(* The prompts for the authentication password are in CodeLock.            *)
(*                                                                         *)
(* The relay is shared with T_code and T_handle, each of which opens the   *)
(* door for a second in its own time.                                      *)
(***************************************************************************)
EXTENDS As608Link

CONSTANTS
  Typed,       \* numbers typed for a template
  Sizes,       \* what a wrong answer may give as the module's size
  MaxRound,    \* rounds of Add_FR: 10
  MaxVerify,   \* rounds of verify_FR: 10
  DupVerify,   \* the round after which it stops at a known finger: 6
  Opener,      \* T_code and T_handle
  MaxPending   \* bound: commands the module has not carried out

\* What GET_NUM returns for key 14; for key 13, the return key, it is 65535.
ClearKey == 65280

ASSUME FingerLockAssumption ==
  /\ Typed \subseteq Nat /\ Sizes \subseteq Nat
  /\ {MaxRound, MaxVerify, DupVerify, MaxPending} \subseteq Nat \ {0}

VARIABLES
  step, io, count,  \* T_FR: place, its command, round of the loop it is in
  num,              \* the template typed
  PS_max,           \* AS608Para.PS_max
  relay, openers    \* the relay; which of T_code and T_handle hold it

local == <<step, io, count, num, PS_max>>
door == <<relay, openers>>
vars == <<link, local, door>>

\* The command of each step that waits for an answer, and its argument.
Command ==
  [shake |-> "HandShake", shakeNum |-> "ValidTempleteNum", sysPara |-> "ReadSysPara",
   pressImage |-> "GetImage", pressGen |-> "GenChar", pressSearch |-> "HighSpeedSearch",
   verImage |-> "GetImage", verGen |-> "GenChar", verSearch |-> "HighSpeedSearch",
   addImage1 |-> "GetImage", addGen1 |-> "GenChar", addImage2 |-> "GetImage",
   addGen2 |-> "GenChar", match |-> "Match", reg |-> "RegModel", store |-> "StoreChar",
   storeNum |-> "ValidTempleteNum", delete |-> "DeletChar", empty |-> "Empty",
   delNum |-> "ValidTempleteNum"]
Asking == DOMAIN Command
Step == Asking \cup {"menu", "open", "verify", "id", "delId"}

\* mutant of Argument: the number to delete is sent in one byte
ArgumentByte(s) ==
  CASE s \in {"pressGen", "verGen", "addGen1"} -> 1
    [] s = "addGen2" -> 2
    [] s \in {"pressSearch", "verSearch"} -> PS_max
    [] s = "store" -> num
    [] s = "delete" -> num % 256
    [] OTHER -> 0

Argument(s) ==
  CASE s \in {"pressGen", "verGen", "addGen1"} -> 1
    [] s = "addGen2" -> 2
    [] s \in {"pressSearch", "verSearch"} -> PS_max
    [] s \in {"store", "delete"} -> num
    [] OTHER -> 0

Start == step = "shake" /\ io = "idle" /\ count = 0 /\ num = 0 /\ PS_max = 0
          /\ relay = FALSE /\ openers = {}

Init ==
  /\ PowerOn /\ Start
  /\ lib \in [ID -> Fingerprint]

Goto(s) == step' = s
\* A function returns to the menu, and its variables are gone.
Leave == step' = "menu" /\ count' = 0 /\ num' = 0

-----------------------------------------------------------------------------
(* A command and its answer. *)

Ask ==
  /\ step \in Asking /\ io = "idle" /\ Len(reqs) < MaxPending
  /\ Send(Command[step], Argument(step))
  /\ io' = "sent"
  /\ UNCHANGED <<step, count, num, PS_max, door>>

Wait ==
  /\ step # "shake" /\ io = "sent"
  /\ JudgeStr
  /\ io' = "wait"
  /\ UNCHANGED <<step, count, num, PS_max, door>>

Look == io = "wait" /\ NoHeader /\ UNCHANGED <<local, door>>

\* JudgeStr returns an answer whose code is "ok" or not, or none.
Returns(ok) ==
  /\ io = "wait" /\ io' = "idle"
  /\ Answered(ok) \/ (~ok /\ TimedOut)

-----------------------------------------------------------------------------
(* What follows the answer. *)

\* PS_HandShake, in the loop of Handle_AS608.
Shake ==
  /\ step = "shake" /\ io = "sent" /\ io' = "idle"
  /\ \/ ShakeAnswered /\ Goto("shakeNum")
     \/ ShakeFailed /\ Goto("shake")
  /\ UNCHANGED <<count, num, PS_max, door>>

\* The module's size is taken from any answer, whatever its code.
Handle_AS608(ok) ==
  \/ step = "shakeNum" /\ Goto("sysPara") /\ UNCHANGED <<count, num, PS_max, door>>
  \/ /\ step = "sysPara" /\ Goto("menu")
     /\ PS_max' \in IF ~done THEN {PS_max} ELSE IF ok /\ buf[2].own THEN {Cap} ELSE Sizes
     /\ UNCHANGED <<count, num, door>>

\* mutant of press_FR: the search's code is not looked at
press_FRAny(ok) ==
  /\ \/ step = "pressImage" /\ Goto(IF ok THEN "pressGen" ELSE "menu") /\ UNCHANGED relay
     \/ step = "pressGen" /\ Goto(IF ok THEN "pressSearch" ELSE "menu") /\ UNCHANGED relay
     \/ step = "pressSearch" /\ Goto("open") /\ relay' = TRUE
  /\ UNCHANGED <<count, num, PS_max, openers>>

press_FR(ok) ==
  /\ \/ step = "pressImage" /\ Goto(IF ok THEN "pressGen" ELSE "menu") /\ UNCHANGED relay
     \/ step = "pressGen" /\ Goto(IF ok THEN "pressSearch" ELSE "menu") /\ UNCHANGED relay
     \/ step = "pressSearch" /\ ok /\ Goto("open") /\ relay' = TRUE
     \/ step = "pressSearch" /\ ~ok /\ Goto("menu") /\ UNCHANGED relay
  /\ UNCHANGED <<count, num, PS_max, openers>>

\* mutants of Round: the rounds are not counted; they are counted down past zero
RoundUncounted(s, limit) == Goto(s) /\ UNCHANGED <<count, num>>
RoundDown(s, limit) ==
  \/ count = limit + 1 /\ Leave
  \/ count # limit + 1 /\ Goto(s) /\ count' = count - 1 /\ UNCHANGED num

\* The end of a round: another one, from step s, or the last one was the limit.
Round(s, limit) ==
  \/ count = limit /\ Leave
  \/ count # limit /\ Goto(s) /\ count' = count + 1 /\ UNCHANGED num

\* Within a round.
Stay(s) == Goto(s) /\ UNCHANGED <<count, num>>

\* A known finger ends the loop in one round only; an unknown one is enrolled.
verify_FR(ok) ==
  /\ \/ step = "verImage" /\ IF ok THEN Stay("verGen") ELSE Round("verify", MaxVerify)
     \/ step = "verGen" /\ IF ok THEN Stay("verSearch") ELSE Leave
     \/ step = "verSearch" /\ ok /\ IF count = DupVerify THEN Leave ELSE Round("verify", MaxVerify)
     \/ step = "verSearch" /\ ~ok /\ Goto("addImage1") /\ count' = 1 /\ UNCHANGED num
  /\ UNCHANGED <<PS_max, door>>

\* mutant of Add_FR: a failed comparison or template is gone past
Add_FRUnmatched(ok) ==
  /\ \/ step = "addImage1" /\ IF ok THEN Stay("addGen1") ELSE Round("addImage1", MaxRound)
     \/ step = "addGen1" /\ Round(IF ok THEN "addImage2" ELSE "addImage1", MaxRound)
     \/ step = "addImage2" /\ IF ok THEN Stay("addGen2") ELSE Round("addImage2", MaxRound)
     \/ step = "addGen2" /\ Round(IF ok THEN "match" ELSE "addImage2", MaxRound)
     \/ step = "match" /\ Round("reg", MaxRound)
     \/ step = "reg" /\ Round("id", MaxRound)
     \/ step = "store" /\ IF ok THEN Stay("storeNum") ELSE Round("addImage1", MaxRound)
     \/ step = "storeNum" /\ Leave
  /\ UNCHANGED <<PS_max, door>>

\* mutant of Add_FR: a failed storing is reported as success
Add_FRUnstored(ok) ==
  /\ \/ step = "addImage1" /\ IF ok THEN Stay("addGen1") ELSE Round("addImage1", MaxRound)
     \/ step = "addGen1" /\ Round(IF ok THEN "addImage2" ELSE "addImage1", MaxRound)
     \/ step = "addImage2" /\ IF ok THEN Stay("addGen2") ELSE Round("addImage2", MaxRound)
     \/ step = "addGen2" /\ Round(IF ok THEN "match" ELSE "addImage2", MaxRound)
     \/ step = "match" /\ Round(IF ok THEN "reg" ELSE "addImage1", MaxRound)
     \/ step = "reg" /\ Round(IF ok THEN "id" ELSE "addImage1", MaxRound)
     \/ step = "store" /\ Stay("storeNum")
     \/ step = "storeNum" /\ Leave
  /\ UNCHANGED <<PS_max, door>>

Add_FR(ok) ==
  /\ \/ step = "addImage1" /\ IF ok THEN Stay("addGen1") ELSE Round("addImage1", MaxRound)
     \/ step = "addGen1" /\ Round(IF ok THEN "addImage2" ELSE "addImage1", MaxRound)
     \/ step = "addImage2" /\ IF ok THEN Stay("addGen2") ELSE Round("addImage2", MaxRound)
     \/ step = "addGen2" /\ Round(IF ok THEN "match" ELSE "addImage2", MaxRound)
     \/ step = "match" /\ Round(IF ok THEN "reg" ELSE "addImage1", MaxRound)
     \/ step = "reg" /\ Round(IF ok THEN "id" ELSE "addImage1", MaxRound)
     \/ step = "store" /\ IF ok THEN Stay("storeNum") ELSE Round("addImage1", MaxRound)
     \/ step = "storeNum" /\ Leave
  /\ UNCHANGED <<PS_max, door>>

Del_FR(ok) ==
  /\ \/ step \in {"delete", "empty"} /\ Stay("delNum")
     \/ step = "delNum" /\ Leave
  /\ UNCHANGED <<PS_max, door>>

Continue ==
  \E ok \in BOOLEAN :
    /\ Returns(ok)
    /\ Handle_AS608(ok) \/ press_FR(ok) \/ verify_FR(ok) \/ Add_FR(ok) \/ Del_FR(ok)

-----------------------------------------------------------------------------
(* Steps without a command. *)

\* The menu: a finger is on the sensor, or an authorised key 11 or 12.
Menu ==
  /\ step = "menu"
  /\ \/ Goto("pressImage") /\ UNCHANGED count
     \/ Goto("verify") /\ count' = 1
     \/ Goto("delId") /\ UNCHANGED count
  /\ UNCHANGED <<link, io, num, PS_max, door>>

\* A round of verify_FR begins: a finger is on the sensor, or none is.
VerifyTop ==
  /\ step = "verify"
  /\ Stay("verImage") \/ Round("verify", MaxVerify)
  /\ UNCHANGED <<link, io, PS_max, door>>

\* Add_FR asks until the number is less than the module's size.
TypeId(k) ==
  /\ step = "id" /\ k < PS_max
  /\ num' = k /\ Goto("store")
  /\ UNCHANGED <<link, io, count, PS_max, door>>

\* mutant of TypeDelId: whatever is beyond the library empties it, the return key too
TypeDelIdBeyond(k) ==
  /\ step = "delId"
  /\ num' = k /\ Goto(IF k >= Cap THEN "empty" ELSE "delete")
  /\ UNCHANGED <<link, io, count, PS_max, door>>

\* Del_FR: key 14 empties the library; the return key is a number like another.
TypeDelId(k) ==
  /\ step = "delId"
  /\ num' = k /\ Goto(IF k = ClearKey THEN "empty" ELSE "delete")
  /\ UNCHANGED <<link, io, count, PS_max, door>>

\* mutant of Close: the relay is left on
CloseForgets ==
  /\ step = "open" /\ Goto("menu")
  /\ UNCHANGED <<link, io, count, num, PS_max, door>>

\* The second is over.
Close ==
  /\ step = "open" /\ Goto("menu")
  /\ relay' = FALSE
  /\ UNCHANGED <<link, io, count, num, PS_max, openers>>

FRopen_entry ==
  Ask \/ Wait \/ Look \/ Shake \/ Continue \/ VerifyTop \/ Close

\* T_code and T_handle open the door, and a second later close it.
OtherOpens(t) ==
  /\ t \notin openers /\ relay' = TRUE /\ openers' = openers \cup {t}
  /\ UNCHANGED <<link, local>>
OtherCloses(t) ==
  /\ t \in openers /\ relay' = FALSE /\ openers' = openers \ {t}
  /\ UNCHANGED <<link, local>>

Restart ==
  /\ reqs' = <<>> /\ wire' = <<>>
  /\ n' = 0 /\ done' = FALSE /\ tim7' = FALSE
  /\ buf' = [k \in 1 .. 2 |-> [code |-> "no", own |-> FALSE]]
  /\ image' = NoFinger /\ char' = [b \in 1 .. 2 |-> NoFinger] /\ model' = FALSE
  /\ step' = "shake" /\ io' = "idle" /\ count' = 0 /\ num' = 0 /\ PS_max' = 0
  /\ relay' = FALSE /\ openers' = {}
  /\ UNCHANGED lib

Link == (As608 \/ USART2_IRQHandler \/ TIM7_IRQHandler) /\ UNCHANGED <<local, door>>

Next ==
  \/ Link \/ FRopen_entry \/ Menu \/ Restart
  \/ \E k \in Typed : TypeId(k) \/ TypeDelId(k)
  \/ \E t \in Opener : OtherOpens(t) \/ OtherCloses(t)

Spec == Init /\ [][Next]_vars

\* T_FR is scheduled, the line and the timer do what has begun, and whoever enrols or
\* deletes types a number in the end.
Typing == \E k \in Typed : TypeId(k) \/ TypeDelId(k)
Fairness ==
  /\ WF_vars(FRopen_entry) /\ WF_vars(Typing)
  /\ WF_vars(As608 /\ UNCHANGED <<local, door>>)
  /\ WF_vars(USART2_IRQHandler /\ UNCHANGED <<local, door>>)
  /\ WF_vars(TIM7_IRQHandler /\ UNCHANGED <<local, door>>)
FairSpec == Spec /\ Fairness

TypeOK ==
  /\ LinkTypeOK
  /\ step \in Step /\ io \in {"idle", "sent", "wait"} /\ count \in Nat
  /\ num \in Nat /\ PS_max \in Nat
  /\ relay \in BOOLEAN /\ openers \subseteq Opener

-----------------------------------------------------------------------------
(* Properties. *)

\* The answer JudgeStr (as608.c 88-93) is about to return is the answer to the command of this
\* step, although nothing in an answer says which command it is for.
AnswerIsOwn == io = "wait" /\ done /\ buf[1].code = "head" => buf[2].own

\* What Add_FR (Handle_AS608.c 89-199) has the module store is the template made of two images
\* of one finger, however often a round failed or an answer was lost in between.
StoresTwoImages ==
  [][\A id \in ID : lib'[id] \notin {lib[id], NoFinger} => model /\ Same /\ lib'[id] = char[1]]_vars

\* A template goes only by the deletion of its own number or of all (Del_FR, Handle_AS608.c
\* 340-374), while Del_FR waits for it: the return key deletes none.
DeletesChosen ==
  [][\A id \in ID : lib[id] # NoFinger /\ lib'[id] = NoFinger =>
       step = "empty" \/ (step = "delete" /\ num = id)]_vars

\* While press_FR (Handle_AS608.c 219-243) holds the door open, the finger that was pressed is
\* in the library.
OpensForEnrolled == step = "open" => \E id \in ID : lib[id] = char[1] /\ char[1] # NoFinger

\* When Add_FR reports success (Handle_AS608.c 181-187), the template is stored where it says.
SuccessIsStored == step = "storeNum" => num < Cap /\ lib[num] = char[1] /\ Same

\* Every dialogue and every press of a finger ends (the counts of verify_FR and Add_FR, the
\* limit of JudgeStr), if the module's size has been read.
DialogueEnds == (step # "shake" /\ PS_max > 0) ~> (step \in {"menu", "shake"})

\* The door is never left open: while the relay is on, a thread is between switching it on and
\* switching it off (newweb.c 221-238, Handle_code.c 265-271, Handle_AS608.c 225-243).
NotLeftOpen == relay => step = "open" \/ openers # {}

\* The dialogues (Handle_AS608.c 89-374) and the library they change implement FingerAuth.
Doing ==
  CASE step = "open" -> "open"
    [] step \in {"addImage1", "addGen1", "addImage2", "addGen2", "match", "reg", "id"} -> "enrol"
    [] step = "store" -> "keep"
    [] step = "storeNum" -> "kept"
    [] step \in {"delete", "empty", "delNum"} -> "delete"
    [] OTHER -> "none"

Shown == IF step \in {"open", "storeNum"} THEN char[1] ELSE NoFinger
Chosen == IF step \in {"store", "storeNum", "delete", "empty", "delNum"} THEN num ELSE 0

Auth ==
  INSTANCE FingerAuth WITH All <- ClearKey, stored <- lib, act <- Doing, finger <- Shown,
    number <- Chosen
ImplementsFingerAuth == Auth!Spec
=============================================================================
