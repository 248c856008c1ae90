------------------------------ MODULE Session ------------------------------
(***************************************************************************)
(* What the link to the server promises the rest of the lock: it is idle,  *)
(* asking for a session, or up; it comes up only when the session it last  *)
(* asked for has been granted, under the key of that session, and that key *)
(* is in use until the session is lost.                                    *)
(***************************************************************************)
EXTENDS Naturals

CONSTANT NSess  \* session numbers, used in rotation

VARIABLES
  phase,  \* "idle", "asking" or "up"
  sess,   \* the session last asked for
  key     \* the session whose key is in use, 0 if none is

Init ==
  /\ phase = "idle"
  /\ sess = NSess
  /\ key = 0

Ask ==
  /\ phase = "idle" /\ phase' = "asking"
  /\ sess' = (sess % NSess) + 1
  /\ UNCHANGED key

GiveUp ==
  /\ phase = "asking" /\ phase' = "idle"
  /\ UNCHANGED <<sess, key>>

Granted ==
  /\ phase = "asking" /\ phase' = "up"
  /\ key' = sess
  /\ UNCHANGED sess

Lose ==
  /\ phase = "up" /\ phase' = "idle"
  /\ key' = 0
  /\ UNCHANGED sess

Next == Ask \/ GiveUp \/ Granted \/ Lose

Spec == Init /\ [][Next]_<<phase, sess, key>>
=============================================================================
