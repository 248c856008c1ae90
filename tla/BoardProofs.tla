----------------------------- MODULE BoardProofs -----------------------------
(***************************************************************************)
(* Proofs about Board: what T_code reads from the key matrix while it      *)
(* scans alone, for a matrix of any size and a flash of any number of      *)
(* pages.  They rest on one invariant.                                     *)
(***************************************************************************)
EXTENDS Board, TLAPS

\* Before T_FR joins, it does not scan.
Alone == ~joined => place["T_FR"] \in {"idle", "disk"}

\* The column that is sampled is the one that is driven.
Driven == ~joined /\ place["T_code"] = "sample" => cols = {col["T_code"]}

\* A key that has been decoded and is still down keeps the scan waiting.
Held == KeyVal # NoKey /\ down # NoKey => place["T_code"] = "release" /\ IDR # {}

Typed ==
  /\ place \in [Thread -> Place] /\ col \in [Thread -> Nat] /\ joined \in BOOLEAN
  /\ down \in Key \cup {NoKey} /\ KeyVal \in Key \cup {NoKey} /\ (joined => KeyVal = NoKey)

IInv == Typed /\ Alone /\ Driven /\ Held

LEMMA KeyLemma == NoKey \notin Key /\ Twice \notin Key
BY SMT DEF NoKey, Twice, Key

LEMMA InitIInv == Init => IInv
<1> SUFFICES ASSUME Init PROVE IInv  OBVIOUS
<1>1. Typed
  <2>1. place \in [Thread -> Place]  BY DEF Init, Place
  <2>2. col \in [Thread -> Nat]  BY SMT DEF Init
  <2> QED  BY <2>1, <2>2 DEF Init, Typed
<1>2. Alone  BY SMT DEF Init, Alone, Thread
<1>3. Driven  BY SMT DEF Init, Driven, Thread
<1>4. Held  BY SMT DEF Init, Held
<1> QED  BY <1>1, <1>2, <1>3, <1>4 DEF IInv

\* A thread that scans while T_FR does not is T_code.
LEMMA ScansAlone ==
  ASSUME IInv, NEW t \in Thread, place[t] \notin {"idle", "disk"}
  PROVE  joined \/ t = "T_code"
BY DEF IInv, Alone, Thread

\* Once T_FR has joined, nothing is decoded, and only the types are left to show.
LEMMA JoinedIInv ==
  ASSUME Typed', joined'
  PROVE  IInv'
BY DEF IInv, Typed, Alone, Driven, Held

\* A disk function, called or run, leaves the matrix and the scans alone.
LEMMA DiskIInv ==
  ASSUME IInv, UNCHANGED <<cols, down, col, joined, KeyVal>>,
         NEW t \in Thread, place[t] \in {"idle", "disk"}, NEW p \in {"idle", "disk"},
         place' = [place EXCEPT ![t] = p]
  PROVE  IInv'
<1>1. Typed'  BY SMT DEF IInv, Typed, Place
<1>2. Alone'  BY SMT DEF IInv, Typed, Alone, Thread
<1>3. Driven'  BY SMT DEF IInv, Typed, Driven, Thread
<1>4. Held'  BY SMT DEF IInv, Typed, Held, IDR, Thread
<1> QED  BY <1>1, <1>2, <1>3, <1>4 DEF IInv

LEMMA ScanIInv ==
  ASSUME IInv, NEW t \in Thread, Scan(t)
  PROVE  IInv'
<1>1. Typed'  BY SMT DEF IInv, Typed, Scan, Goto, matrix, Place
<1>2. CASE joined  BY <1>1, <1>2, JoinedIInv DEF Scan
<1>3. CASE ~joined
  <2>1. t = "T_code"  BY <1>3 DEF Scan, Thread
  <2>2. Alone' /\ Driven'
    BY <2>1, SMT DEF IInv, Typed, Alone, Driven, Scan, Goto, matrix, Thread
  <2>3. Held'  BY <2>1, SMT DEF IInv, Typed, Held, IDR, Scan, Goto, matrix, Thread
  <2> QED  BY <1>1, <2>2, <2>3 DEF IInv
<1> QED  BY <1>2, <1>3

LEMMA ReadOdrIInv ==
  ASSUME IInv, NEW t \in Thread, ReadOdr(t)
  PROVE  IInv'
<1>1. Typed'  BY SMT DEF IInv, Typed, ReadOdr, Goto, matrix, Place
<1>2. CASE joined  BY <1>1, <1>2, JoinedIInv DEF ReadOdr
<1>3. CASE ~joined
  <2>1. t = "T_code"  BY <1>3, ScansAlone DEF ReadOdr
  <2>2. Alone' /\ Driven'
    BY <2>1, SMT DEF IInv, Typed, Alone, Driven, ReadOdr, Goto, matrix, Thread
  <2>3. Held'  BY <2>1, SMT DEF IInv, Typed, Held, IDR, ReadOdr, Goto, matrix, Thread
  <2> QED  BY <1>1, <2>2, <2>3 DEF IInv
<1> QED  BY <1>2, <1>3

LEMMA WriteOdrIInv ==
  ASSUME IInv, NEW t \in Thread, WriteOdr(t)
  PROVE  IInv'
<1>1. Typed'  BY SMT DEF IInv, Typed, WriteOdr, Goto, Place
<1>2. CASE joined  BY <1>1, <1>2, JoinedIInv DEF WriteOdr
<1>3. CASE ~joined
  <2>1. t = "T_code"  BY <1>3, ScansAlone DEF WriteOdr
  <2>2. Alone'  BY <2>1, SMT DEF IInv, Typed, Alone, WriteOdr, Goto, Thread
  <2>3. Driven'  BY <2>1, SMT DEF IInv, Typed, Driven, WriteOdr, OneColumn, Goto, Thread
  <2>4. Held'  BY <2>1, SMT DEF IInv, Typed, Held, WriteOdr, Goto, Thread
  <2> QED  BY <1>1, <2>2, <2>3, <2>4 DEF IInv
<1> QED  BY <1>2, <1>3

LEMMA TestIInv ==
  ASSUME IInv, NEW t \in Thread, Test(t)
  PROVE  IInv'
<1>1. Typed'  BY SMT DEF IInv, Typed, Test, Goto, matrix, Place
<1>2. CASE joined  BY <1>1, <1>2, JoinedIInv DEF Test
<1>3. CASE ~joined
  <2>1. t = "T_code"  BY <1>3, ScansAlone DEF Test
  <2>2. Alone' /\ Driven'
    BY <2>1, SMT DEF IInv, Typed, Alone, Driven, Test, Goto, matrix, Thread
  <2>3. Held'  BY <2>1, SMT DEF IInv, Typed, Held, Test, Goto, matrix, Thread
  <2> QED  BY <1>1, <2>2, <2>3 DEF IInv
<1> QED  BY <1>2, <1>3

\* A row reads high in the driven column only if the key that is down is there.
LEMMA SampledIsDown ==
  ASSUME IInv, ~joined, place["T_code"] = "sample", NEW r \in IDR
  PROVE  <<r, col["T_code"]>> = down /\ down \in Key
BY SMT DEF IInv, Typed, Driven, IDR, Key, NoKey

\* ... and then it has not been decoded before.
LEMMA SampledOnce ==
  ASSUME IInv, NEW t \in Thread, Sample(t), IDR # {}, ~joined
  PROVE  t = "T_code" /\ KeyVal = NoKey /\ KeyVal' = down /\ down \in Key
<1>1. t = "T_code" /\ place["T_code"] = "sample"  BY ScansAlone DEF Sample
<1>2. down # NoKey  BY DEF IDR
<1>3. KeyVal = NoKey  BY <1>1, <1>2 DEF IInv, Held
<1>4. PICK r \in IDR : KeyVal' = <<r, col[t]>>  BY <1>3 DEF Sample
<1> QED  BY <1>1, <1>3, <1>4, SampledIsDown

LEMMA SampleIInv ==
  ASSUME IInv, NEW t \in Thread, Sample(t)
  PROVE  IInv'
<1> USE DEF Sample, Goto, matrix
<1>1. KeyVal' \in Key \cup {NoKey} /\ (joined => KeyVal' = NoKey)
  BY SampledOnce DEF IInv, Typed
<1>2. Typed'  BY <1>1, SMT DEF IInv, Typed, Place
<1>3. CASE joined  BY <1>2, <1>3, JoinedIInv
<1>4. CASE ~joined
  <2>1. t = "T_code"  BY <1>4, ScansAlone
  <2>2. Alone' /\ Driven'  BY <2>1, SMT DEF IInv, Typed, Alone, Driven, Thread
  <2>3. place'["T_code"] = "release" /\ IDR' = IDR
    BY <2>1, SMT DEF IInv, Typed, IDR, Thread
  <2>4. IDR = {} => KeyVal' = KeyVal /\ ~(KeyVal # NoKey /\ down # NoKey)
    BY <2>1 DEF IInv, Held
  <2>5. Held'  BY <2>3, <2>4 DEF Held
  <2> QED  BY <1>2, <2>2, <2>5 DEF IInv
<1> QED  BY <1>3, <1>4

LEMMA ReleaseIInv ==
  ASSUME IInv, NEW t \in Thread, Release(t)
  PROVE  IInv'
<1>1. Typed'  BY SMT DEF IInv, Typed, Release, Goto, matrix, Place
<1>2. CASE joined  BY <1>1, <1>2, JoinedIInv DEF Release
<1>3. CASE ~joined
  <2>1. t = "T_code"  BY <1>3, ScansAlone DEF Release
  <2>2. Alone' /\ Driven'
    BY <2>1, SMT DEF IInv, Typed, Alone, Driven, Release, Goto, matrix, Thread
  <2>3. Held'  BY <2>1 DEF IInv, Held, Release, Released, matrix
  <2> QED  BY <1>1, <2>2, <2>3 DEF IInv
<1> QED  BY <1>2, <1>3

\* The power, the fingers and T_FR's joining.
LEMMA OutsideIInv ==
  ASSUME IInv, Join \/ Chip \/ LetGo \/ Restart \/ \E k \in Key : Press(k)
  PROVE  IInv'
<1>1. CASE Join
  BY <1>1, SMT DEF IInv, Typed, Alone, Driven, Held, Join, matrix
<1>2. CASE Chip
  BY <1>2, SMT DEF IInv, Typed, Alone, Driven, Held, IDR, Chip, matrix, threads
<1>3. CASE LetGo
  BY <1>3, SMT DEF IInv, Typed, Alone, Driven, Held, LetGo, threads
<1>4. CASE Restart
  <2>1. (place \in [Thread -> Place])'  BY <1>4 DEF Restart, Place
  <2>2. (col \in [Thread -> Nat])'  BY <1>4, SMT DEF Restart
  <2>3. Typed'  BY <1>4, <2>1, <2>2 DEF IInv, Typed, Restart
  <2> QED  BY <1>4, <2>3 DEF IInv, Alone, Driven, Held, Restart, Thread
<1>5. CASE \E k \in Key : Press(k)
  BY <1>5, SMT DEF IInv, Typed, Alone, Driven, Held, Press
<1> QED  BY <1>1, <1>2, <1>3, <1>4, <1>5

LEMMA NextIInv == IInv /\ [Next]_vars => IInv'
<1> SUFFICES ASSUME IInv, [Next]_vars PROVE IInv'  OBVIOUS
<1>1. ASSUME NEW t \in Thread, Scan(t) \/ KeyScan(t) PROVE IInv'
  BY <1>1, ScanIInv, ReadOdrIInv, WriteOdrIInv, TestIInv, SampleIInv, ReleaseIInv DEF KeyScan
<1>2. ASSUME NEW t \in Thread, Call(t) PROVE IInv'
  BY <1>2, DiskIInv DEF Call, Goto, matrix
<1>3. ASSUME NEW t \in Thread, Disk(t) PROVE IInv'
  <2>1. place' = [place EXCEPT ![t] = "idle"] \/ place' = [place EXCEPT ![t] = "disk"]
    BY <1>3, SMT DEF Disk, Goto, IInv, Typed
  <2> QED  BY <1>3, <2>1, DiskIInv DEF Disk, matrix
<1>4. CASE UNCHANGED vars
  BY <1>4 DEF IInv, Typed, Alone, Driven, Held, IDR, vars, matrix, threads
<1> QED  BY <1>1, <1>2, <1>3, <1>4, OutsideIInv DEF Next

LEMMA InvariantHolds == Spec => []IInv
BY InitIInv, NextIInv, PTL DEF Spec

\* However large the matrix, one press is decoded once while T_code scans alone (Key.c 47).
THEOREM OneKeyPerPress == Spec => []DecodedOnce
<1>1. IInv => DecodedOnce  BY KeyLemma, SMT DEF IInv, Typed, DecodedOnce, NoKey, Twice
<1> QED  BY <1>1, InvariantHolds, PTL

\* ... and what is decoded is the key that is down (Key.c 39-76).
THEOREM KeysAreTrue == Spec => KeyIsTrue
<1>1. IInv /\ [Next]_vars => [KeyVal' \in Key \ {KeyVal} => KeyVal' = down]_vars
  <2> SUFFICES ASSUME IInv, [Next]_vars, KeyVal' \in Key, KeyVal' # KeyVal
               PROVE  KeyVal' = down
    OBVIOUS
  <2>1. ASSUME NEW t \in Thread, Sample(t) PROVE KeyVal' = down
    BY <2>1, SampledOnce DEF Sample
  <2>2. KeyVal' \notin {NoKey, KeyVal}  BY KeyLemma
  <2>3. \E t \in Thread : Sample(t)
    BY <2>2 DEF Next, Scan, KeyScan, ReadOdr, WriteOdr, Test, Release, Call, Disk, Join, Chip,
                LetGo, Restart, Press, vars, threads
  <2> QED  BY <2>1, <2>3
<1> QED  BY <1>1, InvariantHolds, PTL DEF Spec, KeyIsTrue

-----------------------------------------------------------------------------
(* disk_read, between the scans. *)

\* How far an undisturbed read is: its transaction is whole, and the chip answers it.
ReadsOn ==
  op = "read" /\ ~disturbed =>
    /\ writing = {}
    /\ \/ /\ todo = SPI_FLASH_BufferRead
          /\ \/ phase = "low" /\ sent = 0
             \/ phase = "head" /\ ~cs /\ sent = 0
             \/ phase = "data" /\ ~cs /\ ins = "read" /\ (sent = 0 \/ (sent = 1 /\ good))
       \/ todo = <<>> /\ good

LEMMA ReadTransaction ==
  LET r == Head(SPI_FLASH_BufferRead)
  IN  /\ r.ins = "read" /\ r.len = 1
      /\ Tail(SPI_FLASH_BufferRead) = <<>> /\ SPI_FLASH_BufferRead # <<>>
BY SMT DEF SPI_FLASH_BufferRead, T

\* A scan's write to the port either disturbs or leaves the transaction as it was.
LEMMA WritePortReadsOn ==
  ASSUME ReadsOn, NEW high, WritePort(high)
  PROVE  ReadsOn'
<1> SUFFICES ASSUME op' = "read", ~disturbed' PROVE ReadsOn'  BY DEF ReadsOn
<1>1. op = "read" /\ ~disturbed /\ ~(~cs /\ high)  BY DEF WritePort
<1>2. UNCHANGED <<chip, op, todo, phase, sent, good>> /\ cs' = high
  BY <1>1 DEF WritePort, Select
<1> QED  BY <1>1, <1>2 DEF ReadsOn, chip

LEMMA DiskStepReadsOn ==
  ASSUME ReadsOn, DiskStep
  PROVE  ReadsOn'
<1> SUFFICES ASSUME op' = "read", ~disturbed' PROVE ReadsOn'  BY DEF ReadsOn
<1>1. CASE CsLow
  BY <1>1, ReadTransaction, SMT DEF CsLow, Select, ReadsOn, chip
<1>2. CASE SendHead
  <2>1. /\ op = "read" /\ writing = {} /\ todo = SPI_FLASH_BufferRead
        /\ phase = "head" /\ ~cs /\ sent = 0
    BY <1>2 DEF SendHead, ReadsOn
  <2>2. ins' = "read"  BY <1>2, <2>1, ReadTransaction DEF SendHead
  <2>3. /\ writing' = {} /\ todo' = SPI_FLASH_BufferRead
        /\ phase' = "data" /\ ~cs' /\ sent' = 0
    BY <1>2, <2>1 DEF SendHead
  <2> QED  BY <2>2, <2>3 DEF ReadsOn
<1>3. CASE SendData
  <2>1. /\ op = "read" /\ writing = {} /\ todo = SPI_FLASH_BufferRead
        /\ phase = "data" /\ ~cs /\ ins = "read" /\ sent \in {0, 1}
    BY <1>3 DEF SendData, ReadsOn
  <2>2. sent = 0  BY <1>3, <2>1, ReadTransaction DEF SendData, Finished
  <2>3. sent' = 1  BY <1>3, <2>2, SMT DEF SendData
  <2>4. good'  BY <1>3, <2>1 DEF SendData
  <2> QED  BY <1>3, <2>1, <2>3, <2>4 DEF SendData, ReadsOn
<1>4. CASE Poll
  BY <1>4, ReadTransaction, SMT DEF Poll, ReadsOn
<1>5. CASE CsHigh
  <2>1. todo = SPI_FLASH_BufferRead /\ phase = "data" /\ ins = "read" /\ good /\ writing = {}
    BY <1>5, ReadTransaction, SMT DEF CsHigh, Finished, ReadsOn
  <2>2. writing' = {}  BY <1>5, <2>1 DEF CsHigh, Select, Execute, chip
  <2>3. todo' = <<>> /\ good'  BY <1>5, <2>1, ReadTransaction DEF CsHigh
  <2> QED  BY <2>2, <2>3 DEF ReadsOn
<1>6. CASE Return
  BY <1>6 DEF Return
<1> QED  BY <1>1, <1>2, <1>3, <1>4, <1>5, <1>6 DEF DiskStep

\* disk_read returns what the sector holds, unless a scan has raised the chip's select
\* (diskio.c 122-129), for a sector of any number of pages.
THEOREM ReadsReturn == Spec => []ReadReturns
<1>1. Init => ReadsOn  BY DEF Init, Start, ReadsOn
<1>2. ReadsOn /\ [Next]_vars => ReadsOn'
  <2> SUFFICES ASSUME ReadsOn, [Next]_vars PROVE ReadsOn'  OBVIOUS
  <2>1. ASSUME UNCHANGED flash PROVE ReadsOn'
    BY <2>1 DEF ReadsOn, flash, chip, driver
  <2>2. ASSUME NEW t \in Thread, Scan(t) \/ KeyScan(t) PROVE ReadsOn'
    BY <2>1, <2>2, WritePortReadsOn
    DEF KeyScan, Scan, ReadOdr, WriteOdr, Test, Sample, Release
  <2>3. ASSUME NEW t \in Thread, Call(t) PROVE ReadsOn'
    <3>1. op' \in {"read", "write"} /\ (op' = "read" => disk_read)
      BY <2>3 DEF Call, disk_read, disk_write, Begin
    <3> SUFFICES ASSUME op' = "read", ~disturbed' PROVE ReadsOn'  BY DEF ReadsOn
    <3>2. writing = {} /\ writing' = writing  BY <3>1 DEF disk_read, Begin, chip
    <3>3. todo' = SPI_FLASH_BufferRead /\ phase' = "low" /\ sent' = 0
      BY <3>1 DEF disk_read, Begin
    <3> QED  BY <3>2, <3>3 DEF ReadsOn
  <2>4. ASSUME NEW t \in Thread, Disk(t) PROVE ReadsOn'
    BY <2>4, DiskStepReadsOn DEF Disk
  <2>5. CASE Chip
    BY <2>5 DEF Chip, ChipDone, driver, ReadsOn
  <2>6. CASE Restart
    BY <2>6 DEF Restart, ReadsOn
  <2> QED  BY <2>1, <2>2, <2>3, <2>4, <2>5, <2>6 DEF Next, Join, LetGo, Press, vars
<1>3. ReadsOn => ReadReturns
  BY ReadTransaction DEF ReadsOn, ReadReturns
<1> QED  BY <1>1, <1>2, <1>3, PTL DEF Spec
=============================================================================
