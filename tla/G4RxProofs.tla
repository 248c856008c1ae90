----------------------------- MODULE G4RxProofs -----------------------------
(***************************************************************************)
(* Proofs about G4Rx, for every number and size of buffers and every       *)
(* sequence of frames.                                                     *)
(***************************************************************************)
EXTENDS G4Rx, TLAPS

\* The remainder and the quotient of a division.
LEMMA DivMod ==
  ASSUME NEW a \in Nat, NEW n \in Nat \ {0}
  PROVE  /\ a \div n \in Nat /\ a % n \in 0 .. n - 1
         /\ a = n * (a \div n) + (a % n)
OBVIOUS

\* Fewer than n apart, two numbers have different remainders.
LEMMA ModDistinct ==
  ASSUME NEW n \in Nat \ {0}, NEW a \in Nat, NEW b \in Nat, a < b, b - a < n
  PROVE  a % n # b % n
<1> SUFFICES ASSUME a % n = b % n PROVE FALSE
  OBVIOUS
<1> DEFINE p == a \div n
           q == b \div n
           r == a % n
<1>a. p \in Nat /\ r \in 0 .. n - 1 /\ a = n * p + r
  BY DivMod
<1>b. q \in Nat /\ b = n * q + r
  BY DivMod
<1> HIDE DEF p, q, r
<1>1. /\ p \in Nat /\ q \in Nat /\ r \in Int
      /\ a = n * p + r /\ b = n * q + r
  BY <1>a, <1>b
<1>2. b - a = n * (q - p)
  BY <1>1
<1>3. CASE q <= p
  <2>1. n * (q - p) <= 0
    BY <1>1, <1>3
  <2>2. QED
    BY <1>2, <2>1
<1>4. CASE q > p
  <2>1. q - p >= 1 /\ q - p \in Nat
    BY <1>1, <1>4
  <2>2. n * (q - p) >= n
    BY <2>1
  <2>3. QED
    BY <1>2, <2>2
<1>5. QED
  BY <1>1, <1>3, <1>4

\* The remainder of the successor.
LEMMA ModNext ==
  ASSUME NEW n \in Nat \ {0}, NEW a \in Nat, NEW b \in Nat, b = a + 1
  PROVE  ((a % n) + 1) % n = b % n
<1> DEFINE p == a \div n
           r == a % n
           s == b \div n
           t == b % n
<1>1. p \in Nat /\ r \in 0 .. n - 1 /\ a = n * p + r
  BY DivMod
<1>2. s \in Nat /\ t \in 0 .. n - 1 /\ b = n * s + t
  BY DivMod
<1>3. (r + 1) % n = IF r + 1 = n THEN 0 ELSE r + 1
  BY <1>1
<1> HIDE DEF p, r, s, t
<1>t. a + 1 = n * s + t
  BY <1>2
<1>4. CASE r + 1 = n
  <2>1. n * (p + 1) = n * s + t
    BY <1>1, <1>2, <1>t, <1>4
  <2>2. t = n * (p + 1 - s)
    BY <2>1, <1>1, <1>2
  <2>3. t = 0
    <3>1. CASE p + 1 - s >= 1
      <4>1. n * (p + 1 - s) >= n
        BY <3>1, <1>1, <1>2
      <4>2. QED
        BY <4>1, <2>2, <1>2
    <3>2. CASE p + 1 - s <= 0
      <4>1. n * (p + 1 - s) <= 0
        BY <3>2, <1>1, <1>2
      <4>2. QED
        BY <4>1, <2>2, <1>2
    <3>3. QED
      BY <3>1, <3>2, <1>1, <1>2
  <2>4. QED
    BY <1>3, <1>4, <2>3 DEF r, t
<1>5. CASE r + 1 < n
  <2>1. t - (r + 1) = n * (p - s)
    BY <1>1, <1>2, <1>t
  <2>2. t = r + 1
    <3>1. CASE p - s >= 1
      <4>1. n * (p - s) >= n
        BY <3>1, <1>1, <1>2
      <4>2. t - (r + 1) >= n
        BY <4>1, <2>1
      <4>3. t < n /\ r >= 0 /\ t \in Nat /\ r \in Nat
        BY <1>1, <1>2
      <4>4. QED
        BY <4>2, <4>3
    <3>2. CASE p - s <= -1
      <4>1. n * (p - s) <= -n
        BY <3>2, <1>1, <1>2
      <4>2. t - (r + 1) <= -n
        BY <4>1, <2>1
      <4>3. r + 1 < n /\ t \in Nat /\ r \in Nat
        BY <1>1, <1>2, <1>5
      <4>4. QED
        BY <4>2, <4>3
    <3>3. CASE p - s = 0
      BY <3>3, <2>1, <1>1, <1>2
    <3>4. QED
      BY <3>1, <3>2, <3>3, <1>1, <1>2
  <2>3. QED
    BY <1>3, <1>5, <2>2 DEF r, t
<1>6. QED
  BY <1>1, <1>4, <1>5

-----------------------------------------------------------------------------
(* The invariant.  Frame f lives in buffer f % NBuf from its first byte      *)
(* until T_handle has read it; at most Backlog frames are on their way, so   *)
(* no two of them share a buffer as long as Backlog <= NBuf.                 *)

BufOf(f) == f % NBuf
Taken == handled + (IF hpc = "wait" THEN 0 ELSE 1)
Complete == arrived - (IF pos = 0 THEN 0 ELSE 1)

\* The mailbox holds the complete frames not yet taken, in order.
Ring ==
  /\ Taken + Len(webmsg_recemb) = Complete
  /\ arrived - handled <= Backlog
  /\ G4_GET_POINT = BufOf(arrived)
  /\ \A k \in 1 .. Len(webmsg_recemb) : webmsg_recemb[k] = BufOf(Taken + k)
  /\ hpc # "wait" => G4_MSG = BufOf(handled + 1)

Full(f) ==
  /\ num[BufOf(f)] = Stored(f)
  /\ \A k \in 1 .. Stored(f) : data[BufOf(f)][k] = <<f, k>>

\* What the interrupt has put in the buffers.
Filled ==
  /\ getnum = IF pos < BufMax THEN pos ELSE BufMax
  /\ pos > 0 => \A k \in 1 .. getnum : data[G4_GET_POINT][k] = <<arrived, k>>
  /\ \A f \in Taken + 1 .. Complete : Full(f)

\* What T_handle has read.
ReadSoFar ==
  /\ hpc # "wait" => /\ reclen = Stored(handled + 1)
                     /\ \A k \in 1 .. Len(cache) : cache[k] = <<handled + 1, k>>
  /\ hpc = "read" => Full(handled + 1)
  /\ hpc = "handle" => Len(cache) = reclen

RxInv == TypeOK /\ Ring /\ Filled /\ ReadSoFar

\* Where a byte goes, and what stays.
LEMMA StoreOne ==
  ASSUME data \in [Buf -> [1 .. BufMax -> Byte \cup {NoByte}]],
         NEW b \in Buf, NEW n \in 0 .. BufMax, getnum = n, NEW byte \in Byte,
         StoreByte(b, n, byte)
  PROVE  /\ data' \in [Buf -> [1 .. BufMax -> Byte \cup {NoByte}]]
         /\ getnum' = IF n < BufMax THEN n + 1 ELSE n
         /\ \A c \in Buf, k \in 1 .. BufMax :
              data'[c][k] = IF c = b /\ n < BufMax /\ k = n + 1
                              THEN byte ELSE data[c][k]
<1> USE G4RxAssumption
<1>1. CASE n < BufMax
  <2>1. n + 1 \in 1 .. BufMax
    BY <1>1
  <2>2. data' = [data EXCEPT ![b] = [@ EXCEPT ![n + 1] = byte]] /\ getnum' = n + 1
    BY <1>1 DEF StoreByte
  <2>3. QED
    BY <1>1, <2>1, <2>2
<1>2. CASE ~(n < BufMax)
  BY <1>2 DEF StoreByte
<1>3. QED
  BY <1>1, <1>2

LEMMA NextBufType == ASSUME NEW b \in Buf PROVE NextBuf(b) \in Buf
BY G4RxAssumption DEF NextBuf, Buf

LEMMA RxTypeInit == Init => TypeOK
<1> SUFFICES ASSUME Init PROVE TypeOK
  OBVIOUS
<1> USE G4RxAssumption DEF Init
<1>1. 0 \in Buf
  BY DEF Buf
<1>2. webmsg_recemb \in Seq(Buf) /\ Len(webmsg_recemb) = 0
  OBVIOUS
<1>3. cache \in Seq(Byte \cup {NoByte}) /\ Len(cache) = 0
  OBVIOUS
<1>4. data \in [Buf -> [1 .. BufMax -> Byte \cup {NoByte}]]
  OBVIOUS
<1>5. QED
  BY <1>1, <1>2, <1>3, <1>4 DEF TypeOK

LEMMA RxTypeStep == TypeOK /\ [Next]_vars => TypeOK'
<1> SUFFICES ASSUME TypeOK, [Next]_vars PROVE TypeOK'
  OBVIOUS
<1> USE G4RxAssumption DEF TypeOK
<1>1. CASE FirstByte
  <2>1. arrived + 1 \in 1 .. NFrames /\ Lens[arrived + 1] \in Nat \ {0}
    BY <1>1 DEF FirstByte
  <2>2. G4_GET_POINT' \in Buf
    BY <1>1, NextBufType DEF FirstByte
  <2>3. <<arrived + 1, 1>> \in Byte
    BY <2>1 DEF Byte
  <2>4. /\ data' \in [Buf -> [1 .. BufMax -> Byte \cup {NoByte}]]
        /\ getnum' \in 0 .. BufMax
    <3>1. /\ StoreByte(G4_GET_POINT', 0, <<arrived + 1, 1>>)
          /\ getnum = 0 /\ 0 \in 0 .. BufMax
      BY <1>1 DEF FirstByte
    <3>2. getnum' = IF 0 < BufMax THEN 1 ELSE 0
      BY <2>2, <2>3, <3>1, StoreOne
    <3>3. data' \in [Buf -> [1 .. BufMax -> Byte \cup {NoByte}]]
      BY <2>2, <2>3, <3>1, StoreOne
    <3>4. getnum' \in 0 .. BufMax
      BY <3>2
    <3>5. QED
      BY <3>3, <3>4
  <2>5. QED
    BY <1>1, <2>1, <2>2, <2>4 DEF FirstByte, hand
<1>2. CASE FurtherByte
  <2>1. arrived \in 1 .. NFrames /\ pos + 1 \in Nat \ {0} /\ pos + 1 <= Lens[arrived]
    <3>1. arrived \in 1 .. NFrames
      BY <1>2 DEF FurtherByte
    <3>2. Lens[arrived] \in Nat
      BY <3>1
    <3>3. QED
      BY <1>2, <3>1, <3>2 DEF FurtherByte
  <2>2. <<arrived, pos + 1>> \in Byte
    BY <2>1 DEF Byte
  <2>3. /\ data' \in [Buf -> [1 .. BufMax -> Byte \cup {NoByte}]]
        /\ getnum' \in 0 .. BufMax
    <3>1. StoreByte(G4_GET_POINT, getnum, <<arrived, pos + 1>>)
      BY <1>2 DEF FurtherByte
    <3>2. /\ data' \in [Buf -> [1 .. BufMax -> Byte \cup {NoByte}]]
          /\ getnum' = IF getnum < BufMax THEN getnum + 1 ELSE getnum
      BY <2>2, <3>1, StoreOne
    <3>3. getnum' \in 0 .. BufMax
      BY <3>2
    <3>4. QED
      BY <3>2, <3>3
  <2>4. QED
    BY <1>2, <2>1, <2>3 DEF FurtherByte, hand
<1>3. CASE LineIdle
  <2>1. webmsg_recemb' \in Seq(Buf) /\ Len(webmsg_recemb)' <= MbCap
    BY <1>3 DEF LineIdle, Post
  <2>2. num' \in [Buf -> 0 .. BufMax]
    BY <1>3 DEF LineIdle
  <2>3. QED
    BY <1>3, <2>1, <2>2 DEF LineIdle, hand
<1>4. CASE MbRecv
  <2>1. /\ Head(webmsg_recemb) \in Buf /\ Tail(webmsg_recemb) \in Seq(Buf)
        /\ Len(Tail(webmsg_recemb)) <= MbCap
    BY <1>4 DEF MbRecv
  <2>2. <<>> \in Seq(Byte \cup {NoByte}) /\ Len(<<>>) = 0
    OBVIOUS
  <2>3. G4_MSG' \in Buf /\ reclen' \in 0 .. BufMax
    BY <1>4, <2>1 DEF MbRecv
  <2>4. cache' \in Seq(Byte \cup {NoByte}) /\ Len(cache') <= reclen'
    BY <1>4, <2>2, <2>3 DEF MbRecv
  <2>5. QED
    BY <1>4, <2>1, <2>3, <2>4 DEF MbRecv, rx, wire
<1>5. CASE ReadByte
  <2>1. Len(cache) + 1 \in 1 .. BufMax
    BY <1>5 DEF ReadByte
  <2>2. data[G4_MSG][Len(cache) + 1] \in Byte \cup {NoByte}
    BY <2>1
  <2>3. cache' \in Seq(Byte \cup {NoByte}) /\ Len(cache') = Len(cache) + 1
    BY <1>5, <2>2 DEF ReadByte
  <2>4. QED
    BY <1>5, <2>3 DEF ReadByte, rx, wire
<1>6. CASE FrameRead
  BY <1>6 DEF FrameRead, rx, wire
<1>7. CASE HandleFrame
  BY <1>7 DEF HandleFrame, rx, wire
<1>8. CASE UNCHANGED vars
  BY <1>8 DEF vars, rx, hand, wire
<1>9. QED
  BY <1>1, <1>2, <1>3, <1>4, <1>5, <1>6, <1>7, <1>8
  DEF Next, G4_USART_IRQHandler, newwebhandle_entry

\* Type correctness; whatever the server sends, and however fast, the interrupt
\* stays inside its buffers.
THEOREM RxTypeCorrect == Spec => []TypeOK
BY RxTypeInit, RxTypeStep, PTL DEF Spec

-----------------------------------------------------------------------------
LEMMA StoredType ==
  ASSUME NEW f \in 1 .. NFrames
  PROVE  /\ Stored(f) \in 1 .. BufMax /\ Stored(f) <= Lens[f]
         /\ Lens[f] \in Nat \ {0}
         /\ Stored(f) = IF Lens[f] < BufMax THEN Lens[f] ELSE BufMax
BY G4RxAssumption DEF Stored

LEMMA BufOfType == ASSUME NEW f \in Nat PROVE BufOf(f) \in Buf
BY G4RxAssumption, DivMod DEF BufOf, Buf

\* Frames that are on their way together have buffers of their own.
LEMMA OwnBuffer ==
  ASSUME NEW f \in Nat, NEW g \in Nat, f < g, g - f < NBuf
  PROVE  BufOf(f) # BufOf(g)
BY G4RxAssumption, ModDistinct DEF BufOf

\* A byte stored for another frame leaves a complete one as it is.
LEMMA FullKept ==
  ASSUME TypeOK, NEW f \in 1 .. NFrames, Full(f),
         NEW b \in Buf, b # BufOf(f),
         UNCHANGED num,
         \A c \in Buf, k \in 1 .. BufMax : c # b => data'[c][k] = data[c][k]
  PROVE  Full(f)'
<1> USE G4RxAssumption
<1>1. BufOf(f) \in Buf /\ Stored(f) \in 1 .. BufMax
  BY StoredType, BufOfType
<1>2. num'[BufOf(f)] = Stored(f)
  BY DEF Full
<1>3. ASSUME NEW k \in 1 .. Stored(f) PROVE data'[BufOf(f)][k] = <<f, k>>
  <2>1. k \in 1 .. BufMax
    BY <1>1
  <2>2. QED
    BY <1>1, <2>1 DEF Full
<1> DEFINE c == BufOf(f)
<1>4. QED
  BY <1>2, <1>3 DEF Full, BufOf, Stored

\* The quantities of the ring, in numbers.
LEMMA Counts ==
  ASSUME TypeOK, Ring
  PROVE  /\ arrived \in Nat /\ handled \in Nat /\ pos \in Nat
         /\ Taken \in Nat /\ Complete \in Int /\ Len(webmsg_recemb) \in Nat
         /\ handled <= Taken /\ Taken <= handled + 1
         /\ hpc = "wait" => Taken = handled
         /\ hpc # "wait" => Taken = handled + 1
         /\ Taken <= Complete /\ Complete <= arrived
         /\ pos = 0 => Complete = arrived
         /\ pos # 0 => Complete = arrived - 1
<1>1. /\ arrived \in Nat /\ handled \in Nat /\ pos \in Nat
      /\ Len(webmsg_recemb) \in Nat /\ Taken + Len(webmsg_recemb) = Complete
  BY G4RxAssumption DEF TypeOK, Ring
<1>2. Taken = handled + (IF hpc = "wait" THEN 0 ELSE 1)
  BY DEF Taken
<1>3. Complete = arrived - (IF pos = 0 THEN 0 ELSE 1)
  BY DEF Complete
<1>4. /\ Taken \in Nat /\ handled <= Taken /\ Taken <= handled + 1
      /\ hpc = "wait" => Taken = handled
      /\ hpc # "wait" => Taken = handled + 1
  BY <1>1, <1>2
<1>5. /\ Complete \in Int /\ Complete <= arrived
      /\ pos = 0 => Complete = arrived
      /\ pos # 0 => Complete = arrived - 1
  BY <1>1, <1>3
<1>6. Taken <= Complete
  <2> HIDE DEF Taken, Complete
  <2>1. QED
    BY <1>1, <1>4, <1>5
<1>7. QED
  BY <1>1, <1>4, <1>5, <1>6

LEMMA RxInit == Init => RxInv
<1> SUFFICES ASSUME Init PROVE RxInv
  OBVIOUS
<1> USE G4RxAssumption DEF Init
<1>1. TypeOK
  BY RxTypeInit
<1>2. Len(webmsg_recemb) = 0 /\ Taken = 0 /\ Complete = 0 /\ BufOf(0) = 0
  BY DEF Taken, Complete, BufOf
<1>3. Ring
  BY <1>2 DEF Ring
<1>4. Filled /\ ReadSoFar
  BY <1>2 DEF Filled, ReadSoFar
<1>5. QED
  BY <1>1, <1>3, <1>4 DEF RxInv

\* The interrupt's steps, when no more frames are on their way than there are
\* buffers and mailbox slots.
LEMMA FirstByteStep ==
  ASSUME Backlog <= NBuf, RxInv, FirstByte
  PROVE  Ring' /\ Filled' /\ ReadSoFar'
<1> USE G4RxAssumption
<1>0. TypeOK /\ Ring /\ Filled /\ ReadSoFar
  BY DEF RxInv
<1> DEFINE a == arrived + 1
<1>1. /\ a \in 1 .. NFrames /\ a \in Nat /\ arrived' = a /\ arrived \in Nat
      /\ arrived - handled < NBuf /\ arrived - handled < Backlog
      /\ pos = 0 /\ pos' = 1 /\ getnum = 0
      /\ UNCHANGED <<num, webmsg_recemb, hpc, G4_MSG, reclen, cache, handled>>
  BY <1>0 DEF FirstByte, TypeOK, hand
<1>2. G4_GET_POINT' = BufOf(a) /\ BufOf(a) \in Buf
  BY <1>0, <1>1, ModNext, BufOfType DEF FirstByte, Ring, NextBuf, BufOf
<1>3. /\ getnum' = 1
      /\ \A c \in Buf, k \in 1 .. BufMax :
           data'[c][k] = IF c = BufOf(a) /\ k = 1 THEN <<a, 1>> ELSE data[c][k]
  <2>1. StoreByte(BufOf(a), 0, <<a, 1>>) /\ <<a, 1>> \in Byte /\ 0 < BufMax
    BY <1>1, <1>2 DEF FirstByte, Byte
  <2>2. QED
    BY <1>0, <1>1, <1>2, <2>1, StoreOne DEF TypeOK
<1>4. Taken' = Taken /\ Complete' = Complete /\ Complete = arrived
  BY <1>1 DEF Taken, Complete
<1>5. Ring'
  BY <1>0, <1>1, <1>2, <1>4, Counts DEF Ring
<1>6. ASSUME NEW f \in Nat, handled < f, f <= arrived, Full(f)
      PROVE  Full(f)'
  <2>1. f \in 1 .. NFrames /\ f < a /\ a - f < NBuf
    BY <1>0, <1>1, <1>6 DEF TypeOK
  <2>2. BufOf(f) # BufOf(a)
    BY <1>1, <2>1, OwnBuffer
  <2>3. QED
    BY <1>0, <1>1, <1>2, <1>3, <1>6, <2>1, <2>2, FullKept
<1> HIDE DEF a
<1>7. Filled'
  <2>1. getnum' = IF pos' < BufMax THEN pos' ELSE BufMax
    BY <1>1, <1>3
  <2>2. \A k \in 1 .. getnum' : data'[G4_GET_POINT'][k] = <<arrived', k>>
    BY <1>1, <1>2, <1>3
  <2>3. ASSUME NEW f \in Taken + 1 .. Complete PROVE Full(f)'
    BY <1>0, <1>1, <1>4, <1>6, Counts DEF Filled
  <2>4. QED
    BY <1>4, <2>1, <2>2, <2>3 DEF Filled
<1>8. ReadSoFar'
  <2>1. ASSUME hpc = "read" PROVE Full(handled + 1)'
    BY <1>0, <1>1, <1>4, <1>6, <2>1, Counts DEF ReadSoFar
  <2>2. QED
    BY <1>0, <1>1, <2>1 DEF ReadSoFar, Full, Stored
<1>9. QED
  BY <1>5, <1>7, <1>8

LEMMA FurtherByteStep ==
  ASSUME Backlog <= NBuf, RxInv, FurtherByte
  PROVE  Ring' /\ Filled' /\ ReadSoFar'
<1> USE G4RxAssumption
<1>0. TypeOK /\ Ring /\ Filled /\ ReadSoFar
  BY DEF RxInv
<1> DEFINE p == pos + 1
<1>1. /\ pos # 0 /\ pos > 0 /\ pos' = p /\ p # 0
      /\ arrived \in 1 .. NFrames /\ arrived \in Nat
      /\ arrived - handled <= NBuf /\ handled \in Nat /\ pos \in Nat
      /\ UNCHANGED <<num, G4_GET_POINT, webmsg_recemb, hpc, G4_MSG, reclen, cache,
                     arrived, handled>>
  BY <1>0 DEF FurtherByte, TypeOK, hand, Ring
<1>2. G4_GET_POINT = BufOf(arrived) /\ BufOf(arrived) \in Buf
  BY <1>0, <1>1, BufOfType DEF Ring
<1>3. /\ getnum' = IF getnum < BufMax THEN getnum + 1 ELSE getnum
      /\ \A c \in Buf, k \in 1 .. BufMax :
           data'[c][k] = IF c = BufOf(arrived) /\ getnum < BufMax /\ k = getnum + 1
                           THEN <<arrived, p>> ELSE data[c][k]
  <2>1. StoreByte(BufOf(arrived), getnum, <<arrived, p>>) /\ <<arrived, p>> \in Byte
    BY <1>1, <1>2 DEF FurtherByte, Byte
  <2>2. getnum \in 0 .. BufMax
    BY <1>0 DEF TypeOK
  <2>3. QED
    BY <1>0, <1>2, <2>1, <2>2, StoreOne DEF TypeOK
<1>4. /\ getnum = IF pos < BufMax THEN pos ELSE BufMax
      /\ \A k \in 1 .. getnum : data[BufOf(arrived)][k] = <<arrived, k>>
  BY <1>0, <1>1, <1>2 DEF Filled
<1>5. Taken' = Taken /\ Complete' = Complete /\ Complete = arrived - 1
  BY <1>1 DEF Taken, Complete
<1>6. Ring'
  BY <1>0, <1>1, <1>5 DEF Ring, BufOf
<1>7. ASSUME NEW f \in Nat, handled < f, f < arrived, Full(f)
      PROVE  Full(f)'
  <2>1. f \in 1 .. NFrames /\ arrived - f < NBuf
    BY <1>0, <1>1, <1>7 DEF TypeOK
  <2>2. BufOf(f) # BufOf(arrived)
    BY <1>1, <1>7, <2>1, OwnBuffer
  <2>3. QED
    BY <1>0, <1>1, <1>2, <1>3, <1>7, <2>1, <2>2, FullKept
<1>8. Filled'
  <2>1. getnum' = IF pos' < BufMax THEN pos' ELSE BufMax
    BY <1>1, <1>3, <1>4
  <2>2. ASSUME NEW k \in 1 .. getnum' PROVE data'[G4_GET_POINT'][k] = <<arrived', k>>
    <3>1. getnum \in 0 .. BufMax /\ k \in 1 .. BufMax
      BY <1>0, <1>3 DEF TypeOK
    <3>2. CASE k \in 1 .. getnum
      <4>1. k # getnum + 1
        BY <3>1, <3>2
      <4>2. data'[BufOf(arrived)][k] = data[BufOf(arrived)][k]
        BY <1>2, <1>3, <3>1, <4>1
      <4>3. data[BufOf(arrived)][k] = <<arrived, k>>
        BY <1>4, <3>2
      <4>4. QED
        BY <1>1, <1>2, <4>2, <4>3
    <3>3. CASE k \notin 1 .. getnum
      <4>1. getnum < BufMax /\ k = getnum + 1
        BY <1>3, <3>1, <3>3
      <4>2. getnum = pos /\ k = p
        BY <1>1, <1>4, <4>1
      <4>3. data'[BufOf(arrived)][k] = <<arrived, p>>
        BY <1>2, <1>3, <3>1, <4>1
      <4>4. QED
        BY <1>1, <1>2, <4>2, <4>3
    <3>4. QED
      BY <3>2, <3>3
  <2>3. ASSUME NEW f \in Taken + 1 .. Complete PROVE Full(f)'
    <3>1. f \in Nat /\ handled < f /\ f < arrived
      BY <1>0, <1>1, <1>5, Counts
    <3>2. Full(f)
      BY <1>0 DEF Filled
    <3>3. QED
      BY <1>7, <3>1, <3>2
  <2>4. QED
    BY <1>5, <2>1, <2>2, <2>3 DEF Filled
<1>9. ReadSoFar'
  <2>1. ASSUME hpc = "read" PROVE Full(handled + 1)'
    <3>1. handled + 1 \in Nat /\ handled < handled + 1 /\ handled + 1 < arrived
      BY <1>0, <1>1, <1>5, <2>1, Counts
    <3>2. Full(handled + 1)
      BY <1>0, <2>1 DEF ReadSoFar
    <3>3. Full(handled + 1)'
      BY <1>1, <1>7, <3>1, <3>2
    <3>4. QED
      BY <3>3
  <2>2. QED
    BY <1>0, <1>1, <2>1 DEF ReadSoFar, Full, Stored
<1>10. QED
  BY <1>6, <1>8, <1>9

LEMMA LineIdleStep ==
  ASSUME Backlog <= NBuf, Backlog <= MbCap, RxInv, LineIdle
  PROVE  Ring' /\ Filled' /\ ReadSoFar'
<1> USE G4RxAssumption
<1>0. TypeOK /\ Ring /\ Filled /\ ReadSoFar
  BY DEF RxInv
<1>1. /\ pos # 0 /\ pos > 0 /\ pos' = 0 /\ pos = Lens[arrived] /\ getnum' = 0
      /\ arrived \in 1 .. NFrames /\ arrived \in Nat
      /\ arrived - handled <= NBuf /\ arrived - handled <= MbCap
      /\ handled \in Nat /\ pos \in Nat
      /\ num' = [num EXCEPT ![G4_GET_POINT] = getnum]
      /\ UNCHANGED <<data, G4_GET_POINT, hpc, G4_MSG, reclen, cache, arrived, handled>>
  BY <1>0 DEF LineIdle, TypeOK, hand, Ring
<1>2. /\ G4_GET_POINT = BufOf(arrived) /\ BufOf(arrived) \in Buf
      /\ num \in [Buf -> 0 .. BufMax]
  BY <1>0, <1>1, BufOfType DEF Ring, TypeOK
<1>3. /\ Taken' = Taken /\ Complete' = arrived /\ Complete = arrived - 1
      /\ Taken \in Nat /\ handled <= Taken /\ Len(webmsg_recemb) \in Nat
      /\ Taken + Len(webmsg_recemb) = arrived - 1
  <2>1. Taken' = Taken /\ Complete' = arrived /\ Complete = arrived - 1
    BY <1>1 DEF Taken, Complete
  <2>2. QED
    BY <1>0, <2>1, Counts DEF Ring
<1>4. /\ webmsg_recemb' = Append(webmsg_recemb, BufOf(arrived))
      /\ webmsg_recemb \in Seq(Buf)
  <2>1. Len(webmsg_recemb) < MbCap
    BY <1>1, <1>3
  <2>2. QED
    BY <1>0, <1>2, <2>1 DEF LineIdle, Post, TypeOK
<1>5. Ring'
  <2>1. Taken' + Len(webmsg_recemb') = Complete'
    <3>1. Len(webmsg_recemb') = Len(webmsg_recemb) + 1
      BY <1>2, <1>4
    <3>2. QED
      BY <1>1, <1>3, <3>1
  <2>2. ASSUME NEW k \in 1 .. Len(webmsg_recemb') PROVE webmsg_recemb'[k] = BufOf(Taken + k)
    <3>1. CASE k \in 1 .. Len(webmsg_recemb)
      <4>1. webmsg_recemb'[k] = webmsg_recemb[k]
        BY <1>2, <1>4, <3>1
      <4>2. QED
        BY <1>0, <3>1, <4>1 DEF Ring
    <3>2. CASE k \notin 1 .. Len(webmsg_recemb)
      <4>1. k = Len(webmsg_recemb) + 1 /\ webmsg_recemb'[k] = BufOf(arrived)
        BY <1>2, <1>4, <3>2
      <4>2. Taken + k = arrived
        BY <1>1, <1>3, <4>1
      <4>3. QED
        BY <4>1, <4>2
    <3>3. QED
      BY <3>1, <3>2
  <2>3. \A k \in 1 .. Len(webmsg_recemb') : webmsg_recemb'[k] = BufOf(Taken' + k)
    BY <1>3, <2>2
  <2>4. QED
    BY <1>0, <1>1, <2>1, <2>3 DEF Ring, BufOf
<1>6. ASSUME NEW f \in Nat, handled < f, f < arrived, Full(f)
      PROVE  Full(f)'
  <2>1. BufOf(f) # BufOf(arrived) /\ BufOf(f) \in Buf
    BY <1>1, <1>6, OwnBuffer, BufOfType
  <2>2. num'[BufOf(f)] = num[BufOf(f)]
    BY <1>1, <1>2, <2>1
  <2>3. QED
    BY <1>1, <1>6, <2>2 DEF Full, BufOf, Stored
<1>7. Full(arrived)'
  <2>1. getnum = Stored(arrived)
    BY <1>0, <1>1 DEF Filled, Stored
  <2>2. num'[BufOf(arrived)] = Stored(arrived)
    BY <1>1, <1>2, <2>1
  <2>3. \A k \in 1 .. Stored(arrived) : data'[BufOf(arrived)][k] = <<arrived, k>>
    BY <1>0, <1>1, <1>2, <2>1 DEF Filled
  <2>4. QED
    BY <1>1, <2>2, <2>3 DEF Full, BufOf, Stored
<1>8. Filled'
  <2>1. getnum' = IF pos' < BufMax THEN pos' ELSE BufMax
    BY <1>1
  <2>2. ASSUME NEW f \in Taken + 1 .. arrived PROVE Full(f)'
    <3>1. f \in Nat /\ handled < f
      BY <1>1, <1>3
    <3>2. CASE f = arrived
      <4>1. Full(arrived)' = Full(f)'
        BY <1>1, <3>2 DEF Full, BufOf, Stored
      <4>2. QED
        BY <1>7, <4>1
    <3>3. CASE f # arrived
      <4>1. f < arrived /\ f \in Taken + 1 .. Complete
        BY <1>1, <1>3, <3>3
      <4>2. QED
        BY <1>0, <1>6, <3>1, <4>1 DEF Filled
    <3>4. QED
      BY <3>2, <3>3
  <2>3. QED
    BY <1>1, <1>3, <2>1, <2>2 DEF Filled
<1>9. ReadSoFar'
  <2>1. ASSUME hpc = "read" PROVE Full(handled + 1)'
    <3>1. handled + 1 \in Nat /\ handled < handled + 1 /\ handled + 1 < arrived
      BY <1>0, <1>1, <1>3, <2>1, Counts
    <3>2. Full(handled + 1)
      BY <1>0, <2>1 DEF ReadSoFar
    <3>3. Full(handled + 1)'
      BY <1>1, <1>6, <3>1, <3>2
    <3>4. QED
      BY <3>3
  <2>2. QED
    BY <1>0, <1>1, <2>1 DEF ReadSoFar, Full, Stored
<1>10. QED
  BY <1>5, <1>8, <1>9

\* The thread's steps.
LEMMA MbRecvStep ==
  ASSUME RxInv, MbRecv
  PROVE  Ring' /\ Filled' /\ ReadSoFar'
<1> USE G4RxAssumption
<1>0. TypeOK /\ Ring /\ Filled /\ ReadSoFar
  BY DEF RxInv
<1> DEFINE h == handled + 1
<1>1. /\ hpc = "wait" /\ hpc' = "read" /\ handled \in Nat /\ h \in Nat /\ arrived \in Nat
      /\ webmsg_recemb \in Seq(Buf) /\ webmsg_recemb # <<>>
      /\ webmsg_recemb' = Tail(webmsg_recemb)
      /\ UNCHANGED <<data, num, G4_GET_POINT, getnum, arrived, pos, handled>>
  BY <1>0 DEF MbRecv, TypeOK, rx, wire
<1>2. /\ Len(webmsg_recemb) \in Nat /\ 1 \in 1 .. Len(webmsg_recemb)
      /\ Len(webmsg_recemb') = Len(webmsg_recemb) - 1
      /\ \A k \in 1 .. Len(webmsg_recemb') :
           k + 1 \in 1 .. Len(webmsg_recemb) /\ webmsg_recemb'[k] = webmsg_recemb[k + 1]
  BY <1>1
<1>3. /\ Taken = handled /\ Taken' = h /\ Complete' = Complete /\ Complete \in Int
      /\ Complete <= arrived
      /\ handled + Len(webmsg_recemb) = Complete
  <2>1. Taken = handled /\ Taken' = h /\ Complete' = Complete
    BY <1>1 DEF Taken, Complete
  <2>2. QED
    BY <1>0, <2>1, Counts DEF Ring
<1>4. G4_MSG' = BufOf(h) /\ reclen' = num[BufOf(h)] /\ cache' = <<>>
  BY <1>0, <1>1, <1>2, <1>3 DEF MbRecv, Ring
<1>5. h \in Taken + 1 .. Complete
  BY <1>1, <1>2, <1>3
<1>6. Full(h)
  BY <1>0, <1>5 DEF Filled
<1>7. Ring'
  <2>1. h + Len(webmsg_recemb') = Complete
    <3>1. /\ Len(webmsg_recemb) \in Nat /\ Len(webmsg_recemb') = Len(webmsg_recemb) - 1
          /\ handled + Len(webmsg_recemb) = Complete /\ handled \in Nat
      BY <1>1, <1>2, <1>3
    <3>2. QED
      BY <3>1
  <2>2. ASSUME NEW k \in 1 .. Len(webmsg_recemb') PROVE webmsg_recemb'[k] = BufOf(h + k)
    <3>1. webmsg_recemb'[k] = BufOf(Taken + (k + 1))
      BY <1>0, <1>2 DEF Ring
    <3>2. Taken + (k + 1) = h + k
      BY <1>1, <1>2, <1>3
    <3>3. QED
      BY <3>1, <3>2
  <2>3. QED
    BY <1>0, <1>1, <1>3, <1>4, <2>1, <2>2 DEF Ring, BufOf
<1>8. Filled'
  <2>1. ASSUME NEW f \in h + 1 .. Complete PROVE Full(f)'
    <3>1. f \in Taken + 1 .. Complete
      BY <1>1, <1>3
    <3>2. Full(f)
      BY <1>0, <3>1 DEF Filled
    <3>3. QED
      BY <1>1, <3>2 DEF Full, BufOf, Stored
  <2>2. getnum' = IF pos' < BufMax THEN pos' ELSE BufMax
    BY <1>0, <1>1 DEF Filled
  <2>3. pos' > 0 => \A k \in 1 .. getnum' : data'[G4_GET_POINT'][k] = <<arrived', k>>
    BY <1>0, <1>1 DEF Filled
  <2>4. QED
    BY <1>3, <2>1, <2>2, <2>3 DEF Filled
<1>9. ReadSoFar'
  <2>1. reclen' = Stored(h) /\ Full(h)'
    BY <1>1, <1>4, <1>6 DEF Full, BufOf, Stored
  <2>2. QED
    BY <1>1, <1>4, <2>1 DEF ReadSoFar, Stored
<1>10. QED
  BY <1>7, <1>8, <1>9

LEMMA ReadByteStep ==
  ASSUME RxInv, ReadByte
  PROVE  Ring' /\ Filled' /\ ReadSoFar'
<1> USE G4RxAssumption
<1>0. TypeOK /\ Ring /\ Filled /\ ReadSoFar
  BY DEF RxInv
<1>1. /\ hpc = "read" /\ handled \in Nat /\ cache \in Seq(Byte \cup {NoByte})
      /\ Len(cache) < reclen
      /\ cache' = Append(cache, data[G4_MSG][Len(cache) + 1])
      /\ UNCHANGED <<data, num, G4_GET_POINT, getnum, arrived, pos, handled,
                     hpc, G4_MSG, reclen, webmsg_recemb>>
  BY <1>0 DEF ReadByte, TypeOK, rx, wire
<1>2. Taken' = Taken /\ Complete' = Complete
  BY <1>1 DEF Taken, Complete
<1>3. Ring' /\ Filled'
  BY <1>0, <1>1, <1>2 DEF Ring, Filled, Full, Stored, BufOf
<1>4. data[G4_MSG][Len(cache) + 1] = <<handled + 1, Len(cache) + 1>>
  <2>1. /\ G4_MSG = BufOf(handled + 1) /\ Full(handled + 1)
        /\ reclen = Stored(handled + 1) /\ reclen \in Nat
    BY <1>0, <1>1 DEF Ring, ReadSoFar, TypeOK
  <2>2. Len(cache) + 1 \in 1 .. Stored(handled + 1)
    BY <1>1, <2>1
  <2>3. QED
    BY <2>1, <2>2 DEF Full
<1>5. ASSUME NEW k \in 1 .. Len(cache') PROVE cache'[k] = <<handled + 1, k>>
  <2>1. CASE k \in 1 .. Len(cache)
    BY <1>0, <1>1, <2>1 DEF ReadSoFar
  <2>2. CASE k \notin 1 .. Len(cache)
    BY <1>1, <1>4, <2>2
  <2>3. QED
    BY <2>1, <2>2
<1>6. Full(handled + 1)'
  BY <1>0, <1>1 DEF ReadSoFar, Full, BufOf, Stored
<1>7. ReadSoFar'
  BY <1>0, <1>1, <1>5, <1>6 DEF ReadSoFar, Stored
<1>8. QED
  BY <1>3, <1>7

LEMMA FrameReadStep ==
  ASSUME RxInv, FrameRead
  PROVE  Ring' /\ Filled' /\ ReadSoFar'
<1> USE G4RxAssumption
<1>0. Ring /\ Filled /\ ReadSoFar
  BY DEF RxInv
<1>1. /\ hpc = "read" /\ hpc' = "handle" /\ Len(cache) = reclen
      /\ UNCHANGED <<data, num, G4_GET_POINT, getnum, arrived, pos, handled,
                     G4_MSG, reclen, cache, webmsg_recemb>>
  BY DEF FrameRead, rx, wire
<1>2. Taken' = Taken /\ Complete' = Complete
  BY <1>1 DEF Taken, Complete
<1>3. Ring'
  BY <1>0, <1>1, <1>2 DEF Ring, BufOf
<1>4. Filled' /\ ReadSoFar'
  BY <1>0, <1>1, <1>2 DEF Filled, ReadSoFar, Full, Stored, BufOf
<1>5. QED
  BY <1>3, <1>4

LEMMA HandleFrameStep ==
  ASSUME RxInv, HandleFrame
  PROVE  Ring' /\ Filled' /\ ReadSoFar'
<1> USE G4RxAssumption
<1>0. TypeOK /\ Ring /\ Filled /\ ReadSoFar
  BY DEF RxInv
<1>1. /\ hpc = "handle" /\ hpc' = "wait" /\ handled \in Nat /\ handled' = handled + 1
      /\ arrived \in Nat /\ Backlog \in Nat
      /\ UNCHANGED <<data, num, G4_GET_POINT, getnum, arrived, pos,
                     G4_MSG, reclen, cache, webmsg_recemb>>
  BY <1>0 DEF HandleFrame, rx, wire, TypeOK
<1>2. Taken' = Taken /\ Complete' = Complete
  BY <1>1 DEF Taken, Complete
<1>3. arrived - handled' <= Backlog
  BY <1>0, <1>1 DEF Ring
<1>4. Ring'
  BY <1>0, <1>1, <1>2, <1>3 DEF Ring, BufOf
<1>5. Filled' /\ ReadSoFar'
  BY <1>0, <1>1, <1>2 DEF Filled, ReadSoFar, Full, Stored, BufOf
<1>6. QED
  BY <1>4, <1>5

LEMMA RxStep ==
  ASSUME Backlog <= NBuf, Backlog <= MbCap, RxInv, [Next]_vars
  PROVE  RxInv'
<1>1. TypeOK'
  BY RxTypeStep DEF RxInv
<1>2. CASE FirstByte
  BY <1>1, <1>2, FirstByteStep DEF RxInv
<1>3. CASE FurtherByte
  BY <1>1, <1>3, FurtherByteStep DEF RxInv
<1>4. CASE LineIdle
  BY <1>1, <1>4, LineIdleStep DEF RxInv
<1>5. CASE MbRecv
  BY <1>1, <1>5, MbRecvStep DEF RxInv
<1>6. CASE ReadByte
  BY <1>1, <1>6, ReadByteStep DEF RxInv
<1>7. CASE FrameRead
  BY <1>1, <1>7, FrameReadStep DEF RxInv
<1>8. CASE HandleFrame
  BY <1>1, <1>8, HandleFrameStep DEF RxInv
<1>9. CASE UNCHANGED vars
  BY <1>1, <1>9 DEF RxInv, vars, rx, hand, wire, Ring, Filled, ReadSoFar, Full, Stored,
     BufOf, Taken, Complete
<1>10. QED
  BY <1>2, <1>3, <1>4, <1>5, <1>6, <1>7, <1>8, <1>9
  DEF Next, G4_USART_IRQHandler, newwebhandle_entry

LEMMA RxInvHolds ==
  ASSUME Backlog <= NBuf, Backlog <= MbCap
  PROVE  Spec => []RxInv
<1>1. RxInv /\ [Next]_vars => RxInv'
  BY RxStep
<1>2. QED
  BY <1>1, RxInit, PTL DEF Spec

\* What T_handle has read when it carries a frame out.
LEMMA ReadWhole == RxInv => FramesInOrder
<1> USE G4RxAssumption
<1> SUFFICES ASSUME RxInv, hpc = "handle" PROVE cache = FrameBytes(handled + 1)
  BY DEF FramesInOrder
<1>1. /\ cache \in Seq(Byte \cup {NoByte}) /\ Len(cache) = Stored(handled + 1)
      /\ \A k \in 1 .. Len(cache) : cache[k] = <<handled + 1, k>>
  BY DEF RxInv, TypeOK, ReadSoFar
<1>2. cache = [k \in 1 .. Len(cache) |-> cache[k]]
  BY <1>1
<1>3. QED
  BY <1>1, <1>2 DEF FrameBytes

\* As long as no more frames are on their way than there are buffers and
\* mailbox slots, T_handle carries out every frame whole, once and in order.
THEOREM RxInOrder ==
  ASSUME Backlog <= NBuf, Backlog <= MbCap
  PROVE  Spec => []FramesInOrder
BY RxInvHolds, ReadWhole, PTL

\* A byte stored leaves the buffer T_handle reads alone.
LEMMA ReadKept ==
  ASSUME Backlog <= NBuf, RxInv, [Next]_vars, hpc = "read"
  PROVE  data'[G4_MSG] = data[G4_MSG]
<1> USE G4RxAssumption
<1>0. TypeOK /\ Ring
  BY DEF RxInv
<1>1. /\ G4_MSG = BufOf(handled + 1) /\ G4_MSG \in Buf /\ handled + 1 \in Nat
      /\ data \in [Buf -> [1 .. BufMax -> Byte \cup {NoByte}]]
      /\ arrived \in Nat /\ handled \in Nat /\ G4_GET_POINT = BufOf(arrived)
      /\ handled + 1 <= Complete /\ arrived - handled <= NBuf
  <2>1. G4_MSG = BufOf(handled + 1) /\ G4_GET_POINT = BufOf(arrived)
    BY <1>0 DEF Ring
  <2>2. /\ G4_MSG \in Buf /\ arrived \in Nat /\ handled \in Nat /\ handled + 1 \in Nat
        /\ data \in [Buf -> [1 .. BufMax -> Byte \cup {NoByte}]]
    BY <1>0 DEF TypeOK
  <2>3. handled + 1 <= Complete
    BY <1>0, Counts
  <2>4. arrived - handled <= NBuf
    BY <1>0, <2>2 DEF Ring
  <2>5. QED
    BY <2>1, <2>2, <2>3, <2>4
<1>2. CASE FirstByte
  <2> DEFINE a == arrived + 1
  <2>1. a \in Nat /\ handled + 1 < a /\ a - (handled + 1) < NBuf
    BY <1>0, <1>1, <1>2, Counts DEF FirstByte
  <2>2. BufOf(handled + 1) # BufOf(a)
    BY <1>1, <2>1, OwnBuffer
  <2>3. G4_GET_POINT' = BufOf(a)
    BY <1>1, <1>2, <2>1, ModNext DEF FirstByte, NextBuf, BufOf
  <2>4. QED
    BY <1>1, <1>2, <2>2, <2>3 DEF FirstByte, StoreByte
<1>3. CASE FurtherByte
  <2>1. pos # 0
    BY <1>0, <1>3 DEF FurtherByte, TypeOK
  <2>2. handled + 1 < arrived /\ arrived - (handled + 1) < NBuf
    BY <1>0, <1>1, <2>1, Counts
  <2>3. BufOf(handled + 1) # BufOf(arrived)
    BY <1>1, <2>2, OwnBuffer
  <2>4. QED
    BY <1>1, <1>3, <2>3 DEF FurtherByte, StoreByte
<1>4. CASE LineIdle
  BY <1>4 DEF LineIdle
<1>5. CASE newwebhandle_entry
  BY <1>5 DEF newwebhandle_entry, MbRecv, ReadByte, FrameRead, HandleFrame, rx
<1>6. CASE UNCHANGED vars
  BY <1>6 DEF vars, rx
<1>7. QED
  BY <1>2, <1>3, <1>4, <1>5, <1>6 DEF Next, G4_USART_IRQHandler

\* Under the same bound on the buffers, the interrupt never writes into the
\* buffer T_handle is reading.
THEOREM RxReadStable ==
  ASSUME Backlog <= NBuf, Backlog <= MbCap
  PROVE  Spec => ReadIsStable
<1>1. RxInv /\ [Next]_vars => [hpc = "read" => data'[G4_MSG] = data[G4_MSG]]_vars
  BY ReadKept
<1>2. QED
  BY <1>1, RxInvHolds, PTL DEF Spec, ReadIsStable
=============================================================================
