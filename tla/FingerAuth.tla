------------------------------ MODULE FingerAuth ------------------------------
(***************************************************************************)
(* What the fingerprint dialogues promise: the door opens for a finger of  *)
(* the library, which does not change meanwhile; a dialogue that enrols    *)
(* only stores, one finger under the number that was typed, and reports    *)
(* what is stored there; one that deletes only removes the template of the *)
(* number typed, or all of them when that was asked for.  That a storing   *)
(* is reported is not promised: the report may be lost, and the finger is  *)
(* enrolled again.                                                         *)
(***************************************************************************)
EXTENDS Naturals

CONSTANTS Finger, NoFinger, ID, All \* All: typed to delete every template

VARIABLES
  stored,  \* finger of each template, or NoFinger
  act,     \* what the lock is doing
  finger,  \* finger that opened, or whose enrolment is reported
  number   \* number typed

vars == <<stored, act, finger, number>>

Init ==
  /\ stored \in [ID -> Finger \cup {NoFinger}]
  /\ act = "none" /\ finger = NoFinger /\ number = 0

\* The door.
Admit ==
  /\ act = "none" /\ act' = "open"
  /\ finger' # NoFinger /\ \E id \in ID : stored[id] = finger'
  /\ UNCHANGED <<stored, number>>

\* Enrolment.
Begin ==
  /\ act = "none" /\ act' = "enrol"
  /\ UNCHANGED <<stored, finger, number>>

Keep ==
  /\ act = "enrol" /\ act' = "keep" /\ number' \in Nat
  /\ UNCHANGED <<stored, finger>>

Store ==
  /\ act = "keep" /\ number \in ID
  /\ \E f \in Finger : stored' = [stored EXCEPT ![number] = f]
  /\ UNCHANGED <<act, finger, number>>

Report ==
  /\ act = "keep" /\ act' = "kept"
  /\ number \in ID /\ stored[number] # NoFinger /\ finger' = stored[number]
  /\ UNCHANGED <<stored, number>>

Retry ==
  /\ act = "keep" /\ act' = "enrol" /\ number' = 0
  /\ UNCHANGED <<stored, finger>>

\* Deletion.
Choose ==
  /\ act = "none" /\ act' = "delete" /\ number' \in Nat
  /\ UNCHANGED <<stored, finger>>

Remove ==
  /\ act = "delete"
  /\ stored' = [id \in ID |-> IF number \in {All, id} THEN NoFinger ELSE stored[id]]
  /\ UNCHANGED <<act, finger, number>>

\* A dialogue ends or is given up, the door closes, or the power fails.
End ==
  /\ act # "none" /\ act' = "none" /\ finger' = NoFinger /\ number' = 0
  /\ UNCHANGED stored

Next ==
  \/ Admit \/ Begin \/ Keep \/ Store \/ Report \/ Retry \/ Choose \/ Remove \/ End

Spec == Init /\ [][Next]_vars
=============================================================================
