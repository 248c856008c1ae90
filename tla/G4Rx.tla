-------------------------------- MODULE G4Rx --------------------------------
(***************************************************************************)
(* Reception from the 4G module: the USART3 interrupt (G4_USART_IRQHandler *)
(* of G4.c) fills a ring of buffers, taking the next one at the first byte *)
(* of each frame, and posts the buffer's address to the mailbox            *)
(* webmsg_recemb when the line falls idle; T_handle (newwebhandle_entry)   *)
(* takes the address and reads the buffer while the interrupt goes on.     *)
(*                                                                         *)
(* A byte is <<f, k>>, the k-th byte of the f-th frame on the wire, so     *)
(* that what the thread has read tells which bytes of which frames it is   *)
(* made of.  The five bytes of header and checksum are part of the frame.  *)
(***************************************************************************)
EXTENDS Integers, Sequences

CONSTANTS
  NBuf,     \* receive buffers, G4_GET[3]
  BufMax,   \* bytes a buffer takes (1499)
  MbCap,    \* slots of webmsg_recemb (5)
  NFrames,  \* frames that arrive
  Lens,     \* their lengths
  Backlog   \* frames the server lets be on their way at once

ASSUME G4RxAssumption ==
  /\ NBuf \in Nat \ {0}
  /\ BufMax \in Nat \ {0}
  /\ MbCap \in Nat \ {0}
  /\ NFrames \in Nat
  /\ Lens \in [1 .. NFrames -> Nat \ {0}]
  /\ Backlog \in Nat

VARIABLES
  data,          \* G4_GET[b].data
  num,           \* G4_GET[b].num
  G4_GET_POINT,  \* buffer in use by the interrupt
  getnum,        \* bytes of the current frame stored
  webmsg_recemb, \* posted buffers
  hpc, G4_MSG, reclen, cache, \* T_handle: counter, buffer, its length, bytes read
  arrived, pos,  \* frames begun on the wire, bytes of the last one sent
  handled        \* frames T_handle is done with

rx   == <<data, num, G4_GET_POINT, getnum>>
hand == <<hpc, G4_MSG, reclen, cache>>
wire == <<arrived, pos>>
vars == <<rx, webmsg_recemb, hand, wire, handled>>

Buf == 0 .. NBuf - 1
Byte == (1 .. NFrames) \X (Nat \ {0})
NoByte == <<0, 0>>

\* What a buffer is to hold of frame f: all of it, or as much as fits.
Stored(f) == IF Lens[f] < BufMax THEN Lens[f] ELSE BufMax
FrameBytes(f) == [k \in 1 .. Stored(f) |-> <<f, k>>]

Init ==
  /\ data = [b \in Buf |-> [k \in 1 .. BufMax |-> NoByte]]
  /\ num = [b \in Buf |-> 0]
  /\ G4_GET_POINT = 0
  /\ getnum = 0
  /\ webmsg_recemb = <<>>
  /\ hpc = "wait" /\ G4_MSG = 0 /\ reclen = 0 /\ cache = <<>>
  /\ arrived = 0 /\ pos = 0
  /\ handled = 0

-----------------------------------------------------------------------------
(* The interrupt.  The line is idle when pos = 0. *)

\* mutant of NextBuf: every frame goes to the same buffer
SameBuf(b) == b

NextBuf(b) == (b + 1) % NBuf

\* mutant of StoreByte: the bound on the buffer is off by one
StoreBytePast(b, n, byte) ==
  IF n <= BufMax
    THEN /\ data' = [data EXCEPT ![b] = [@ EXCEPT ![n + 1] = byte]]
         /\ getnum' = n + 1
    ELSE UNCHANGED <<data, getnum>>

\* A byte beyond the buffer's size is dropped.
StoreByte(b, n, byte) ==
  IF n < BufMax
    THEN /\ data' = [data EXCEPT ![b] = [@ EXCEPT ![n + 1] = byte]]
         /\ getnum' = n + 1
    ELSE UNCHANGED <<data, getnum>>

\* RXNE, first byte of a frame.
FirstByte ==
  /\ pos = 0 /\ getnum = 0
  /\ arrived < NFrames
  /\ arrived - handled < Backlog
  /\ G4_GET_POINT' = NextBuf(G4_GET_POINT)
  /\ StoreByte(G4_GET_POINT', 0, <<arrived + 1, 1>>)
  /\ arrived' = arrived + 1
  /\ pos' = 1
  /\ UNCHANGED <<num, webmsg_recemb, hand, handled>>

\* RXNE, a further byte.
FurtherByte ==
  /\ 0 < pos /\ pos < Lens[arrived]
  /\ StoreByte(G4_GET_POINT, getnum, <<arrived, pos + 1>>)
  /\ pos' = pos + 1
  /\ UNCHANGED <<num, G4_GET_POINT, webmsg_recemb, hand, arrived, handled>>

\* mutant of Post: a frame that finds another one waiting is not posted
PostIfEmpty(b) ==
  webmsg_recemb' = IF webmsg_recemb = <<>> THEN <<b>> ELSE webmsg_recemb

\* rt_mb_send: a full mailbox refuses the buffer, and nobody looks.
Post(b) ==
  webmsg_recemb' = IF Len(webmsg_recemb) < MbCap
                     THEN Append(webmsg_recemb, b) ELSE webmsg_recemb

\* IDLE: the frame is complete.
LineIdle ==
  /\ 0 < pos /\ pos = Lens[arrived]
  /\ num' = [num EXCEPT ![G4_GET_POINT] = getnum]
  /\ getnum' = 0
  /\ Post(G4_GET_POINT)
  /\ pos' = 0
  /\ UNCHANGED <<data, G4_GET_POINT, hand, arrived, handled>>

G4_USART_IRQHandler == FirstByte \/ FurtherByte \/ LineIdle

-----------------------------------------------------------------------------
(* T_handle. *)

\* rt_mb_recv, and the length of the frame taken from the buffer.
MbRecv ==
  /\ hpc = "wait" /\ hpc' = "read"
  /\ webmsg_recemb # <<>>
  /\ webmsg_recemb' = Tail(webmsg_recemb)
  /\ G4_MSG' = Head(webmsg_recemb)
  /\ reclen' = num[G4_MSG']
  /\ cache' = <<>>
  /\ UNCHANGED <<rx, wire, handled>>

\* myaes_decrypt and cJSON_Parse read the buffer, which is not locked.
ReadByte ==
  /\ hpc = "read" /\ Len(cache) < reclen
  /\ cache' = Append(cache, data[G4_MSG][Len(cache) + 1])
  /\ UNCHANGED <<rx, webmsg_recemb, hpc, G4_MSG, reclen, wire, handled>>

FrameRead ==
  /\ hpc = "read" /\ Len(cache) = reclen
  /\ hpc' = "handle"
  /\ UNCHANGED <<rx, webmsg_recemb, G4_MSG, reclen, cache, wire, handled>>

\* The command is carried out; an unlock holds the thread for 1000 ticks.
HandleFrame ==
  /\ hpc = "handle" /\ hpc' = "wait"
  /\ handled' = handled + 1
  /\ UNCHANGED <<rx, webmsg_recemb, G4_MSG, reclen, cache, wire>>

newwebhandle_entry == MbRecv \/ ReadByte \/ FrameRead \/ HandleFrame

-----------------------------------------------------------------------------
Next == G4_USART_IRQHandler \/ newwebhandle_entry

Spec == Init /\ [][Next]_vars

\* Bytes that were sent arrive, and a thread with a frame to take runs; that
\* the server sends more frames is not assumed.
Fairness == WF_vars(FurtherByte \/ LineIdle) /\ WF_vars(newwebhandle_entry)

FairSpec == Spec /\ Fairness

-----------------------------------------------------------------------------
(* Properties. *)

\* Types; the interrupt never writes outside a buffer.
TypeOK ==
  /\ data \in [Buf -> [1 .. BufMax -> Byte \cup {NoByte}]]
  /\ num \in [Buf -> 0 .. BufMax]
  /\ G4_GET_POINT \in Buf
  /\ getnum \in 0 .. BufMax
  /\ webmsg_recemb \in Seq(Buf) /\ Len(webmsg_recemb) <= MbCap
  /\ hpc \in {"wait", "read", "handle"}
  /\ G4_MSG \in Buf /\ reclen \in 0 .. BufMax
  /\ cache \in Seq(Byte \cup {NoByte}) /\ Len(cache) <= reclen
  /\ arrived \in 0 .. NFrames
  /\ pos \in Nat /\ (pos > 0 => arrived > 0 /\ pos <= Lens[arrived])
  /\ handled \in Nat

\* The n-th frame that T_handle carries out is the n-th frame that arrived,
\* whole and unmixed: none is lost, repeated, reordered or overwritten while it
\* waits or is read (G4.c 588, newweb.c 172-206).
FramesInOrder == hpc = "handle" => cache = FrameBytes(handled + 1)

\* The interrupt never touches the buffer that T_handle is reading.
ReadIsStable == [][hpc = "read" => data'[G4_MSG] = data[G4_MSG]]_vars

\* Every frame that begins to arrive is carried out.
AllHandled == \A f \in 1 .. NFrames : arrived >= f ~> handled >= f
=============================================================================
