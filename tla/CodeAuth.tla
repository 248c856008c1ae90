------------------------------ MODULE CodeAuth ------------------------------
(***************************************************************************)
(* What the keypad promises: the door opens for the system password in     *)
(* force, or for a temporary code the app has issued, and for each code    *)
(* once; the system password is changed by the app, or at the keypad by    *)
(* somebody who has entered it.                                            *)
(***************************************************************************)
CONSTANTS Password, Code, NoCode, Entry \* Entry: what can be entered

VARIABLES
  sysPw,   \* system password in force
  tempCode,\* code that may still be used, or NoCode
  entered, \* what was entered last
  grant    \* what it gives the right to: "none", "open", "change"

vars == <<sysPw, tempCode, entered, grant>>

Init ==
  /\ sysPw \in Password
  /\ tempCode \in Code \cup {NoCode}
  /\ entered \in Entry
  /\ grant = "none"

\* The app.
SetPassword ==
  /\ sysPw' \in Password
  /\ UNCHANGED <<tempCode, entered, grant>>

IssueCode ==
  /\ tempCode' \in Code
  /\ UNCHANGED <<sysPw, entered, grant>>

\* The keypad.
Enter ==
  /\ grant = "none"
  /\ entered' \in Entry
  /\ UNCHANGED <<sysPw, tempCode, grant>>

AcceptPassword ==
  /\ grant = "none" /\ entered = sysPw
  /\ grant' \in {"open", "change"}
  /\ UNCHANGED <<sysPw, tempCode, entered>>

AcceptCode ==
  /\ grant = "none" /\ entered = tempCode
  /\ grant' = "open"
  /\ tempCode' = NoCode
  /\ UNCHANGED <<sysPw, entered>>

Open ==
  /\ grant = "open" /\ grant' = "none"
  /\ entered' \in Entry
  /\ UNCHANGED <<sysPw, tempCode>>

Change ==
  /\ grant = "change" /\ grant' = "none"
  /\ sysPw' \in Password
  /\ entered' \in Entry
  /\ UNCHANGED tempCode

\* The power fails.
Lose ==
  /\ grant # "none" /\ grant' = "none"
  /\ entered' \in Entry
  /\ UNCHANGED <<sysPw, tempCode>>

Next ==
  \/ SetPassword \/ IssueCode
  \/ Enter \/ AcceptPassword \/ AcceptCode \/ Open \/ Change \/ Lose

Spec == Init /\ [][Next]_vars
=============================================================================
