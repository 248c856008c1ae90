------------------------------ MODULE As608Link ------------------------------
(***************************************************************************)
(* A command to the AS608 fingerprint module and its answer.  T_FR sends a *)
(* command on USART2; the module, which is not under src, carries it out   *)
(* and answers; USART2's interrupt collects the bytes and TIM7, restarted  *)
(* with each of them, marks them complete ten milliseconds after the last  *)
(* one; JudgeStr looks once a tick whether that has happened.              *)
(*                                                                         *)
(* An answer comes in two parts, its header and the rest with the          *)
(* confirmation code, so that JudgeStr may clear the count between them.   *)
(* strstr stops at the zero every second part holds: an answer is found    *)
(* only if the buffer begins with a header.  "own" tells the answer to     *)
(* the command being waited for from an earlier one; the code cannot.      *)
(***************************************************************************)
EXTENDS Naturals, Sequences

CONSTANTS
  Finger, NoFinger,  \* fingers, and none
  Cap,               \* templates the module holds
  Prompt             \* an answer comes before the wait for it ends, or never

ASSUME As608Assumption ==
  NoFinger \notin Finger /\ Cap \in Nat \ {0} /\ Prompt \in BOOLEAN

VARIABLES
  reqs,              \* commands sent and not carried out: [cmd, arg, own]
  wire,              \* parts of an answer that have not arrived
  n, done,           \* USART2_RX_STA: parts received, bit 15
  buf,               \* USART2_RX_BUF
  tim7,              \* TIM7 is counting
  image, char, model,\* in the module: ImageBuffer, CharBuffer1 and 2, the two are a template
  lib                \* in the module: the finger of each stored template

receiver == <<n, done, buf, tim7>>
module == <<image, char, model, lib>>
link == <<reqs, wire, receiver, module>>

ID == 0 .. Cap - 1
Fingerprint == Finger \cup {NoFinger}
Commands == {"HandShake", "ReadSysPara", "ValidTempleteNum", "GetImage", "GenChar", "Match",
             "RegModel", "HighSpeedSearch", "StoreChar", "DeletChar", "Empty"}
Request == [cmd : Commands, arg : Nat, own : BOOLEAN]
Part == [code : {"head", "ok", "no"}, own : BOOLEAN]
Header == [code |-> "head", own |-> FALSE]
Answer(code, own) == <<Header, [code |-> code, own |-> own]>>

\* A reset of lock and module: the templates stay.
PowerOn ==
  /\ reqs = <<>> /\ wire = <<>>
  /\ n = 0 /\ done = FALSE /\ tim7 = FALSE
  /\ buf = [k \in 1 .. 2 |-> [code |-> "no", own |-> FALSE]]
  /\ image = NoFinger /\ char = [b \in 1 .. 2 |-> NoFinger] /\ model = FALSE

-----------------------------------------------------------------------------
(* The module. *)

Same == char[1] = char[2] /\ char[1] # NoFinger
Found(size) == \E id \in ID : id < size /\ lib[id] = char[1] /\ char[1] # NoFinger

GetImage == image' \in Finger /\ UNCHANGED <<char, model, lib>>
GenChar(b) ==
  image # NoFinger /\ char' = [char EXCEPT ![b] = image] /\ model' = FALSE
  /\ UNCHANGED <<image, lib>>
Match == Same /\ UNCHANGED module
RegModel == Same /\ model' = TRUE /\ UNCHANGED <<image, char, lib>>
Search(size) == Found(size) /\ UNCHANGED module
StoreChar(id) ==
  /\ id < Cap /\ char[2] # NoFinger
  /\ lib' = [lib EXCEPT ![id] = char[2]]
  /\ UNCHANGED <<image, char, model>>
DeletChar(id) == id < Cap /\ lib' = [lib EXCEPT ![id] = NoFinger] /\ UNCHANGED <<image, char, model>>
Empty == lib' = [id \in ID |-> NoFinger] /\ UNCHANGED <<image, char, model>>

Done(r) ==
  \/ r.cmd = "GetImage" /\ GetImage
  \/ r.cmd = "GenChar" /\ GenChar(r.arg)
  \/ r.cmd = "Match" /\ Match
  \/ r.cmd = "RegModel" /\ RegModel
  \/ r.cmd = "HighSpeedSearch" /\ Search(r.arg)
  \/ r.cmd = "StoreChar" /\ StoreChar(r.arg)
  \/ r.cmd = "DeletChar" /\ DeletChar(r.arg)
  \/ r.cmd = "Empty" /\ Empty
  \/ r.cmd \in {"HandShake", "ReadSysPara", "ValidTempleteNum"} /\ UNCHANGED module

\* The next command is carried out or refused; it, or its answer, may be lost on the line.
As608 ==
  /\ reqs # <<>> /\ wire = <<>>
  /\ reqs' = Tail(reqs)
  /\ \/ Done(Head(reqs)) /\ wire' \in {<<>>, Answer("ok", Head(reqs).own)}
     \/ UNCHANGED module /\ wire' \in {<<>>, Answer("no", Head(reqs).own)}
  /\ UNCHANGED receiver

-----------------------------------------------------------------------------
(* The interrupts. *)

\* What comes while a complete answer has not been dealt with is dropped; what comes third
\* is behind a zero and does not matter.
USART2_IRQHandler ==
  /\ wire # <<>> /\ wire' = Tail(wire)
  /\ IF done \/ n = 2 THEN UNCHANGED <<n, buf, tim7>>
     ELSE /\ buf' = [buf EXCEPT ![n + 1] = Head(wire)]
          /\ n' = n + 1
          /\ tim7' = (tim7 \/ n = 0)
  /\ UNCHANGED <<reqs, done, module>>

\* The bytes of one answer are less than TIM7's ten milliseconds apart.
TIM7_IRQHandler ==
  /\ tim7 /\ Len(wire) # 1
  /\ done' = TRUE /\ tim7' = FALSE
  /\ UNCHANGED <<reqs, wire, n, buf, module>>

-----------------------------------------------------------------------------
(* T_FR's side. *)

Send(cmd, arg) ==
  reqs' = Append(reqs, [cmd |-> cmd, arg |-> arg, own |-> TRUE])
  /\ UNCHANGED <<wire, receiver, module>>

\* What is still to come will not be the answer to the next command.
Others(s) == [k \in DOMAIN s |-> [s[k] EXCEPT !.own = FALSE]]
Disown == reqs' = Others(reqs) /\ wire' = Others(wire) /\ buf' = Others(buf)

Outstanding == reqs # <<>> \/ wire # <<>> \/ done \/ tim7
Clear == n' = 0 /\ done' = FALSE

\* USART2_RX_STA = 0, at the beginning of JudgeStr.
JudgeStr == Clear /\ UNCHANGED <<reqs, wire, buf, tim7, module>>

\* A look finds something complete that is not an answer.
NoHeader == done /\ buf[1].code # "head" /\ JudgeStr

\* mutant of Answered: bit 15 is not tested
AnsweredAtOnce(ok) ==
  /\ n > 0 /\ buf[1].code = "head" /\ ok = (buf[2].code = "ok")
  /\ Clear /\ Disown /\ UNCHANGED <<tim7, module>>

\* A look finds an answer.
Answered(ok) ==
  /\ done /\ buf[1].code = "head" /\ ok = (buf[2].code = "ok")
  /\ Clear /\ Disown /\ UNCHANGED <<tim7, module>>

\* The wait is over.
TimedOut ==
  /\ ~done
  /\ Prompt => ~Outstanding
  /\ Disown /\ UNCHANGED <<n, done, tim7, module>>

\* PS_HandShake after its delay: what has come is dealt with, and nothing else cleared.
ShakeAnswered == done /\ buf[1].code = "head" /\ Clear /\ Disown /\ UNCHANGED <<tim7, module>>
ShakeFailed ==
  /\ ~(done /\ buf[1].code = "head")
  /\ IF done THEN Clear ELSE UNCHANGED <<n, done>>
  /\ Prompt => reqs = <<>> /\ wire = <<>> /\ ~tim7
  /\ Disown /\ UNCHANGED <<tim7, module>>

LinkTypeOK ==
  /\ reqs \in Seq(Request)
  /\ wire \in Seq(Part) /\ Len(wire) <= 2
  /\ n \in 0 .. 2 /\ done \in BOOLEAN /\ tim7 \in BOOLEAN
  /\ buf \in [1 .. 2 -> Part]
  /\ image \in Fingerprint /\ char \in [1 .. 2 -> Fingerprint] /\ model \in BOOLEAN
  /\ lib \in [ID -> Fingerprint]
=============================================================================
