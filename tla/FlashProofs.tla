----------------------------- MODULE FlashProofs -----------------------------
(***************************************************************************)
(* More of Board, for a flash of any number of pages: its types, and that  *)
(* an undisturbed disk_write leaves what it was given in every page.       *)
(***************************************************************************)
EXTENDS BoardProofs, SequenceTheorems

-----------------------------------------------------------------------------
(* The transactions of disk_write. *)

DiskWrite == SPI_FLASH_SectorErase \o SPI_FLASH_BufferWrite
Total == 3 * Pages + 7

\* The place in them that the disk function is at.
At == Total + 1 - Len(todo)

\* What is left to do is the rest of them.
Rest ==
  op = "write" =>
    /\ Len(todo) <= Total
    /\ \A n \in 1 .. Len(todo) : todo[n] = DiskWrite[Total - Len(todo) + n]

\* What a page will hold when the chip has finished.
Will(p) == IF p \in writing THEN value ELSE page[p]

\* The transactions are well formed.
LEMMA TransactionType ==
  /\ T("enable", 1, 0) \in Transaction /\ T("status", 1, 0) \in Transaction
  /\ T("erase", 1, 0) \in Transaction /\ T("read", 1, 1) \in Transaction
  /\ \A p \in Page, len \in 0 .. 1 : T("program", p, len) \in Transaction
  BY FlashDiskAssumption DEF T, Transaction, Instruction, Page

\* The erasure is four transactions, and a page three.
LEMMA EraseShape ==
  /\ SPI_FLASH_SectorErase \in Seq(Transaction) /\ Len(SPI_FLASH_SectorErase) = 4
  /\ SPI_FLASH_SectorErase[1] = T("enable", 1, 0)
  /\ SPI_FLASH_SectorErase[2] = T("status", 1, 0)
  /\ SPI_FLASH_SectorErase[3] = T("erase", 1, 0)
  /\ SPI_FLASH_SectorErase[4] = T("status", 1, 0)
  BY TransactionType DEF SPI_FLASH_SectorErase, SPI_FLASH_WriteEnable, SPI_FLASH_WaitForWriteEnd

LEMMA PageShape ==
  ASSUME NEW p \in Page, NEW len \in 0 .. 1, NEW r \in 1 .. 3
  PROVE  /\ SPI_FLASH_PageWrite(p, len)[r] \in Transaction
         /\ r = 1 => SPI_FLASH_PageWrite(p, len)[r] = T("enable", 1, 0)
         /\ r = 2 => SPI_FLASH_PageWrite(p, len)[r] = T("program", p, len)
         /\ r = 3 => SPI_FLASH_PageWrite(p, len)[r] = T("status", 1, 0)
  BY TransactionType DEF SPI_FLASH_PageWrite, SPI_FLASH_WriteEnable, SPI_FLASH_WaitForWriteEnd

\* A place is one of three of its page.
LEMMA DivMod ==
  ASSUME NEW n \in Nat
  PROVE  /\ n \div 3 \in Nat /\ n % 3 \in 0 .. 2 /\ n = (3 * (n \div 3)) + (n % 3)
  OBVIOUS

\* The transactions of the k-th page, and those of the rest of length 0.
LEMMA BufferShape ==
  /\ SPI_FLASH_BufferWrite \in Seq(Transaction) /\ Len(SPI_FLASH_BufferWrite) = 3 * (Pages + 1)
  /\ \A k \in 0 .. Pages :
       /\ SPI_FLASH_BufferWrite[3 * k + 1] = T("enable", 1, 0)
       /\ SPI_FLASH_BufferWrite[3 * k + 2] =
            IF k < Pages THEN T("program", k + 1, 1) ELSE T("program", 1, 0)
       /\ SPI_FLASH_BufferWrite[3 * k + 3] = T("status", 1, 0)
<1> USE FlashDiskAssumption
<1> DEFINE N == 3 * (Pages + 1)
<1>1. ASSUME NEW k \in 0 .. Pages, NEW r \in 1 .. 3
      PROVE  /\ 3 * k + r \in 1 .. N
             /\ SPI_FLASH_BufferWrite[3 * k + r] = PageOrRest(k + 1)[r]
  <2>1. ((3 * k + r) - 1) \div 3 = k /\ ((3 * k + r) - 1) % 3 = r - 1 /\ 3 * k + r \in 1 .. N
    OBVIOUS
  <2> QED BY <2>1 DEF SPI_FLASH_BufferWrite
<1>2. ASSUME NEW k \in 0 .. Pages
      PROVE  \E p \in Page, len \in 0 .. 1 :
               /\ PageOrRest(k + 1) = SPI_FLASH_PageWrite(p, len)
               /\ T("program", p, len) =
                    IF k < Pages THEN T("program", k + 1, 1) ELSE T("program", 1, 0)
  <2>1. CASE k < Pages
    <3>1. k + 1 \in Page /\ k + 1 <= Pages
      BY <2>1 DEF Page
    <3> QED BY <2>1, <3>1 DEF PageOrRest
  <2>2. CASE ~(k < Pages)
    <3>1. 1 \in Page /\ ~(k + 1 <= Pages)
      BY <2>2 DEF Page
    <3> QED BY <2>2, <3>1 DEF PageOrRest
  <2> QED BY <2>1, <2>2
<1>3. ASSUME NEW k \in 0 .. Pages, NEW r \in 1 .. 3
      PROVE  /\ SPI_FLASH_BufferWrite[3 * k + r] \in Transaction
             /\ r = 1 => SPI_FLASH_BufferWrite[3 * k + r] = T("enable", 1, 0)
             /\ r = 2 => SPI_FLASH_BufferWrite[3 * k + r] =
                  IF k < Pages THEN T("program", k + 1, 1) ELSE T("program", 1, 0)
             /\ r = 3 => SPI_FLASH_BufferWrite[3 * k + r] = T("status", 1, 0)
  <2>1. PICK p \in Page, len \in 0 .. 1 :
               /\ PageOrRest(k + 1) = SPI_FLASH_PageWrite(p, len)
               /\ T("program", p, len) =
                    IF k < Pages THEN T("program", k + 1, 1) ELSE T("program", 1, 0)
    BY <1>2
  <2>2. SPI_FLASH_BufferWrite[3 * k + r] = SPI_FLASH_PageWrite(p, len)[r]
    BY <1>1, <2>1
  <2> QED BY <2>1, <2>2, PageShape
<1>4. \A n \in 1 .. N : SPI_FLASH_BufferWrite[n] \in Transaction
  <2> SUFFICES ASSUME NEW n \in 1 .. N PROVE SPI_FLASH_BufferWrite[n] \in Transaction
    OBVIOUS
  <2> DEFINE k == (n - 1) \div 3
             r == ((n - 1) % 3) + 1
  <2>1. k \in 0 .. Pages /\ r \in 1 .. 3 /\ n = 3 * k + r
    BY DivMod
  <2> HIDE DEF k, r
  <2> QED BY <1>3, <2>1
<1>5. SPI_FLASH_BufferWrite \in [1 .. N -> Transaction]
  BY <1>4 DEF SPI_FLASH_BufferWrite
<1>6. SPI_FLASH_BufferWrite \in Seq(Transaction) /\ N \in Nat
  BY <1>5, SeqDef
<1>7. Len(SPI_FLASH_BufferWrite) = N
  BY <1>5, <1>6, LenProperties
<1> QED BY <1>3, <1>6, <1>7

\* Every transaction of disk_write, by its place.
LEMMA WriteShape ==
  /\ DiskWrite \in Seq(Transaction) /\ Len(DiskWrite) = Total
  /\ DiskWrite[1] = T("enable", 1, 0) /\ DiskWrite[2] = T("status", 1, 0)
  /\ DiskWrite[3] = T("erase", 1, 0)  /\ DiskWrite[4] = T("status", 1, 0)
  /\ \A k \in 0 .. Pages :
       /\ DiskWrite[3 * k + 5] = T("enable", 1, 0)
       /\ DiskWrite[3 * k + 6] = IF k < Pages THEN T("program", k + 1, 1) ELSE T("program", 1, 0)
       /\ DiskWrite[3 * k + 7] = T("status", 1, 0)
<1> USE FlashDiskAssumption
<1>1. /\ DiskWrite \in Seq(Transaction) /\ Len(DiskWrite) = 4 + 3 * (Pages + 1)
      /\ \A n \in 1 .. 4 + 3 * (Pages + 1) :
           DiskWrite[n] = IF n <= 4 THEN SPI_FLASH_SectorErase[n] ELSE SPI_FLASH_BufferWrite[n - 4]
  <2>1. Len(SPI_FLASH_SectorErase) + Len(SPI_FLASH_BufferWrite) = 4 + 3 * (Pages + 1)
    BY EraseShape, BufferShape
  <2>2. /\ DiskWrite \in Seq(Transaction)
        /\ Len(DiskWrite) = Len(SPI_FLASH_SectorErase) + Len(SPI_FLASH_BufferWrite)
        /\ \A n \in 1 .. Len(SPI_FLASH_SectorErase) + Len(SPI_FLASH_BufferWrite) :
             DiskWrite[n] = IF n <= Len(SPI_FLASH_SectorErase) THEN SPI_FLASH_SectorErase[n]
                            ELSE SPI_FLASH_BufferWrite[n - Len(SPI_FLASH_SectorErase)]
    BY EraseShape, BufferShape, ConcatProperties DEF DiskWrite
  <2> QED BY <2>1, <2>2, EraseShape
<1>2. Len(DiskWrite) = Total
  BY <1>1 DEF Total
<1>3. /\ DiskWrite[1] = T("enable", 1, 0) /\ DiskWrite[2] = T("status", 1, 0)
      /\ DiskWrite[3] = T("erase", 1, 0)  /\ DiskWrite[4] = T("status", 1, 0)
  <2>1. \A n \in 1 .. 4 : DiskWrite[n] = SPI_FLASH_SectorErase[n]
    BY <1>1
  <2> QED BY <2>1, EraseShape
<1>4. ASSUME NEW k \in 0 .. Pages, NEW r \in 1 .. 3
      PROVE  DiskWrite[3 * k + (4 + r)] = SPI_FLASH_BufferWrite[3 * k + r]
  <2>1. 3 * k + (4 + r) \in 1 .. 4 + 3 * (Pages + 1) /\ ~(3 * k + (4 + r) <= 4)
        /\ 3 * k + (4 + r) - 4 = 3 * k + r
    OBVIOUS
  <2> QED BY <1>1, <2>1
<1>5. ASSUME NEW k \in 0 .. Pages
      PROVE  /\ DiskWrite[3 * k + 5] = SPI_FLASH_BufferWrite[3 * k + 1]
             /\ DiskWrite[3 * k + 6] = SPI_FLASH_BufferWrite[3 * k + 2]
             /\ DiskWrite[3 * k + 7] = SPI_FLASH_BufferWrite[3 * k + 3]
  BY <1>4
<1> QED BY <1>1, <1>2, <1>3, <1>5, BufferShape

\* The other way about: what is at each place.
LEMMA WriteAt ==
  ASSUME NEW m \in 1 .. Total
  PROVE  \/ m \in {2, 4} /\ DiskWrite[m] = T("status", 1, 0)
         \/ m = 1 /\ DiskWrite[m] = T("enable", 1, 0)
         \/ m = 3 /\ DiskWrite[m] = T("erase", 1, 0)
         \/ \E k \in 0 .. Pages :
              \/ m = 3 * k + 5 /\ DiskWrite[m] = T("enable", 1, 0)
              \/ m = 3 * k + 6 /\ k < Pages /\ DiskWrite[m] = T("program", k + 1, 1)
              \/ m = 3 * k + 6 /\ k = Pages /\ DiskWrite[m] = T("program", 1, 0)
              \/ m = 3 * k + 7 /\ DiskWrite[m] = T("status", 1, 0)
<1> USE FlashDiskAssumption
<1>1. CASE m <= 4
  <2>1. m \in {1, 2, 3, 4}
    BY <1>1 DEF Total
  <2> QED BY <2>1, WriteShape
<1>2. CASE m > 4
  <2> DEFINE k == (m - 5) \div 3
  <2>1. k \in 0 .. Pages /\ (m = 3 * k + 5 \/ m = 3 * k + 6 \/ m = 3 * k + 7)
    BY <1>2, DivMod DEF Total
  <2> HIDE DEF k
  <2>2. /\ m = 3 * k + 5 => DiskWrite[m] = T("enable", 1, 0)
        /\ m = 3 * k + 6 => DiskWrite[m] =
             IF k < Pages THEN T("program", k + 1, 1) ELSE T("program", 1, 0)
        /\ m = 3 * k + 7 => DiskWrite[m] = T("status", 1, 0)
    BY <2>1, WriteShape
  <2>3. k < Pages \/ k = Pages
    BY <2>1
  <2> QED BY <2>1, <2>2, <2>3
<1> QED BY <1>1, <1>2

-----------------------------------------------------------------------------
(* Invariants. *)

\* The chip hears of a transaction only while it is selected, and counts no more
\* data than were sent.
DriverOK ==
  /\ op = "none" => todo = <<>>
  /\ todo = <<>> => phase = "low"
  /\ phase \in {"low", "head"} => sent = 0
  /\ cs \/ phase = "low" => ins = "none" /\ data = 0
  /\ data <= sent
  /\ todo # <<>> => sent <= Head(todo).len
  /\ phase = "high" => Head(todo).ins = "status"

-----------------------------------------------------------------------------
(* Types. *)

\* The transaction under way, and those after it.
LEMMA HeadType ==
  ASSUME FlashTypeOK, todo # <<>>
  PROVE  /\ Head(todo).ins \in Instruction /\ Head(todo).page \in Page
         /\ Head(todo).len \in 0 .. 1
         /\ Tail(todo) \in Seq(Transaction)
<1>1. Head(todo) \in Transaction /\ Tail(todo) \in Seq(Transaction)
  BY HeadTailProperties DEF FlashTypeOK
<1> QED BY <1>1 DEF Transaction

\* The types of the chip and of the select, and what it hears while the select is high.
ChipOK ==
  /\ cs \in BOOLEAN /\ wel \in BOOLEAN
  /\ ins \in Instruction \cup {"none"} /\ adr \in Page /\ data \in 0 .. 1
  /\ writing \subseteq Page /\ value \in Content /\ page \in [Page -> Content]
  /\ cs => ins = "none" /\ data = 0

LEMMA SelectType ==
  ASSUME ChipOK, NEW high \in BOOLEAN, Select(high)
  PROVE  ChipOK' /\ cs' = high /\ (high \/ UNCHANGED <<ins, data>>)
<1>1. CASE high /\ ~cs
  <2>1. 1 \in Page /\ "erased" \in Content /\ "new" \in Content /\ "other" \in Content
    BY FlashDiskAssumption DEF Page, Content
  <2>2. /\ cs' = high /\ ins' = "none" /\ adr' = 1 /\ data' = 0 /\ Execute
    BY <1>1 DEF Select
  <2>3. wel' \in BOOLEAN
    BY <2>2 DEF Execute, ChipOK
  <2>4. writing' \subseteq Page /\ value' \in Content
    BY <2>1, <2>2 DEF Execute, ChipOK
  <2>5. page' \in [Page -> Content]
    BY <2>1, <2>2 DEF Execute, ChipOK
  <2> QED BY <1>1, <2>1, <2>2, <2>3, <2>4, <2>5 DEF ChipOK
<1>2. CASE ~(high /\ ~cs)
  BY <1>2 DEF Select, ChipOK, chip
<1> QED BY <1>1, <1>2

LEMMA FlashSplit ==
  FlashTypeOK /\ DriverOK <=>
    /\ ChipOK
    /\ op \in {"none", "read", "write"} /\ todo \in Seq(Transaction)
    /\ phase \in {"low", "head", "data", "high"} /\ sent \in 0 .. 1
    /\ good \in BOOLEAN /\ disturbed \in BOOLEAN
    /\ DriverOK
  BY DEF FlashTypeOK, DriverOK, ChipOK

\* A disk function keeps them.
LEMMA DiskTypes ==
  ASSUME FlashTypeOK, DriverOK, DiskStep
  PROVE  FlashTypeOK' /\ DriverOK'
<1>1. ChipOK
  BY FlashSplit
<1>2. CASE CsLow
  <2>1. ChipOK' /\ UNCHANGED <<ins, data>> /\ ~cs'
    BY <1>1, <1>2, SelectType DEF CsLow
  <2> QED BY <1>2, <2>1 DEF CsLow, FlashTypeOK, DriverOK, ChipOK
<1>3. CASE SendHead
  <2>1. Head(todo).ins \in Instruction /\ Head(todo).page \in Page
    BY <1>3, HeadType DEF SendHead
  <2>2. ins' \in Instruction \cup {"none"} /\ adr' \in Page /\ (cs => ins' = ins)
    BY <1>3, <2>1 DEF SendHead, FlashTypeOK
  <2> QED BY <1>3, <2>2 DEF SendHead, FlashTypeOK, DriverOK
<1>4. CASE SendData
  <2>1. todo # <<>> /\ sent' = sent + 1 /\ sent # Head(todo).len
    BY <1>4 DEF SendData, Finished
  <2>2. sent' \in 0 .. 1 /\ sent' <= Head(todo).len
    BY <2>1, HeadType DEF FlashTypeOK, DriverOK
  <2>3. data' \in 0 .. 1 /\ data' <= sent' /\ (cs => data' = data)
    BY <1>4, <2>1, <2>2 DEF SendData, FlashTypeOK, DriverOK
  <2>4. good' \in BOOLEAN
    BY <1>4 DEF SendData
  <2>5. FlashTypeOK'
    BY <1>4, <2>2, <2>3, <2>4 DEF SendData, FlashTypeOK
  <2>6. DriverOK'
    BY <1>4, <2>1, <2>2, <2>3 DEF SendData, DriverOK
  <2> QED BY <2>5, <2>6
<1>5. CASE Poll
  <2>1. phase' \in {"data", "high"} /\ phase = "data" /\ todo # <<>> /\ Head(todo).ins = "status"
        /\ UNCHANGED <<cs, ins, adr, data, wel, writing, value, page, op, todo, sent, good, disturbed>>
    BY <1>5 DEF Poll, chip
  <2>2. FlashTypeOK'
    BY <2>1 DEF FlashTypeOK
  <2>3. DriverOK'
    BY <2>1 DEF DriverOK
  <2> QED BY <2>2, <2>3
<1>6. CASE CsHigh
  <2>1. ChipOK' /\ cs'
    BY <1>1, <1>6, SelectType DEF CsHigh
  <2>2. /\ todo' \in Seq(Transaction) /\ phase' = "low" /\ sent' = 0
        /\ UNCHANGED <<op, good, disturbed>>
    BY <1>6, HeadType DEF CsHigh
  <2>3. ins' = "none" /\ data' = 0
    BY <2>1 DEF ChipOK
  <2>4. op' = "none" => todo' = <<>>
    BY <1>6 DEF CsHigh, DriverOK
  <2>5. todo' # <<>> => sent' <= Head(todo').len
    <3>1. todo' # <<>> => Head(todo') \in Transaction
      BY <2>2, HeadTailProperties
    <3> QED BY <2>2, <3>1 DEF Transaction
  <2>6. FlashTypeOK'
    BY <2>1, <2>2 DEF FlashTypeOK, ChipOK
  <2>7. DriverOK'
    BY <2>2, <2>3, <2>4, <2>5 DEF DriverOK
  <2> QED BY <2>6, <2>7
<1>7. CASE Return
  <2>1. \A c \in Content : Age(c) \in Content
    BY DEF Age, Content
  <2>2. page' \in [Page -> Content] /\ value' \in Content
    BY <1>7, <2>1 DEF Return, FlashTypeOK
  <2> QED BY <1>7, <2>2 DEF Return, FlashTypeOK, DriverOK
<1> QED BY <1>2, <1>3, <1>4, <1>5, <1>6, <1>7 DEF DiskStep

\* So do a scan's write to the port, the chip, the beginning of a disk function and a restart.
LEMMA PortTypes ==
  ASSUME FlashTypeOK, DriverOK, NEW high \in BOOLEAN, WritePort(high)
  PROVE  FlashTypeOK' /\ DriverOK'
<1>1. ChipOK' /\ (high \/ UNCHANGED <<ins, data>>) /\ cs' = high
  BY FlashSplit, SelectType DEF WritePort
<1>2. disturbed' \in BOOLEAN /\ UNCHANGED <<op, todo, phase, sent, good>>
  BY DEF WritePort, FlashTypeOK
<1>3. FlashTypeOK'
  BY <1>1, <1>2 DEF FlashTypeOK, ChipOK
<1>4. CASE high
  BY <1>1, <1>2, <1>4 DEF ChipOK, DriverOK, FlashTypeOK
<1>5. CASE ~high
  <2>1. ~cs' /\ UNCHANGED <<ins, data>>
    BY <1>1, <1>5
  <2> QED BY <1>2, <1>3, <2>1 DEF DriverOK
<1> QED BY <1>3, <1>4, <1>5

LEMMA ChipTypes ==
  ASSUME FlashTypeOK, DriverOK, ChipDone
  PROVE  FlashTypeOK' /\ DriverOK'
<1>1. "erased" \in Content
  BY DEF Content
<1>2. page' \in [Page -> Content]
  BY DEF ChipDone, FlashTypeOK
<1>3. /\ writing' = {} /\ value' = "erased" /\ wel' = FALSE
      /\ UNCHANGED <<cs, ins, adr, data, op, todo, phase, sent, good, disturbed>>
  BY DEF ChipDone, driver
<1>4. FlashTypeOK'
  BY <1>1, <1>2, <1>3 DEF FlashTypeOK
<1>5. DriverOK'
  BY <1>3 DEF DriverOK
<1> QED BY <1>4, <1>5

LEMMA BeginTypes ==
  ASSUME FlashTypeOK, DriverOK, disk_write \/ disk_read
  PROVE  FlashTypeOK' /\ DriverOK'
<1>1. PICK name \in {"read", "write"}, ts \in {DiskWrite, SPI_FLASH_BufferRead} : Begin(name, ts)
  BY DEF disk_write, disk_read, DiskWrite
<1>2. DiskWrite \in Seq(Transaction) /\ Len(DiskWrite) > 0
  BY WriteShape, FlashDiskAssumption DEF Total
<1>3. SPI_FLASH_BufferRead \in Seq(Transaction) /\ Len(SPI_FLASH_BufferRead) > 0
  BY TransactionType DEF SPI_FLASH_BufferRead
<1>4. ts \in Seq(Transaction) /\ ts # <<>>
  BY <1>2, <1>3
<1>5. Head(ts) \in Transaction
  BY <1>4, HeadTailProperties
<1>6. UNCHANGED <<cs, chip>>
  BY DEF disk_write, disk_read
<1>7. /\ op = "none" /\ op' = name /\ todo' = ts
      /\ phase' = "low" /\ sent' = 0 /\ good' = FALSE
      /\ disturbed' = (writing # {})
  BY <1>1 DEF Begin
<1>8. FlashTypeOK'
  <2>1. disturbed' \in BOOLEAN /\ good' \in BOOLEAN /\ op' \in {"none", "read", "write"}
    BY <1>7
  <2>2. todo' \in Seq(Transaction) /\ phase' = "low" /\ sent' = 0
    BY <1>4, <1>7
  <2>3. UNCHANGED <<cs, ins, adr, data, wel, writing, value, page>>
    BY <1>6 DEF chip
  <2> QED BY <2>1, <2>2, <2>3 DEF FlashTypeOK
<1>9. todo = <<>> /\ phase = "low" /\ 0 <= Head(ts).len
  BY <1>5, <1>7 DEF DriverOK, Transaction
<1>10. ins = "none" /\ data = 0
  BY <1>9 DEF DriverOK
<1>11. DriverOK'
  BY <1>4, <1>6, <1>7, <1>9, <1>10 DEF chip, DriverOK
<1> QED BY <1>8, <1>11

\* The matrix and the threads, whose other types are in BoardProofs.
MatrixOK ==
  /\ cols \subseteq 1 .. Columns
  /\ col \in [Thread -> 1 .. Columns] /\ seen \in [Thread -> BOOLEAN]

TypeInv == FlashTypeOK /\ DriverOK /\ MatrixOK

LEMMA MatrixStep ==
  ASSUME TypeInv, [Next]_vars
  PROVE  MatrixOK'
<1> USE DEF TypeInv, MatrixOK
<1>1. ASSUME NEW t \in Thread, Scan(t) \/ Test(t) \/ Sample(t) \/ Call(t) \/ Disk(t) PROVE MatrixOK'
  BY <1>1 DEF Scan, Test, Sample, Call, Disk, matrix
<1>2. ASSUME NEW t \in Thread, ReadOdr(t) PROVE MatrixOK'
  BY <1>2 DEF ReadOdr, matrix, FlashTypeOK
<1>3. ASSUME NEW t \in Thread, WriteOdr(t) PROVE MatrixOK'
  BY <1>3 DEF WriteOdr, OneColumn
<1>4. ASSUME NEW t \in Thread, Release(t) PROVE MatrixOK'
  BY <1>4, BoardAssumption DEF Release, matrix
<1>5. CASE Join \/ Chip \/ LetGo \/ (\E k \in Key : Press(k)) \/ UNCHANGED vars
  BY <1>5 DEF Join, Chip, LetGo, Press, vars, matrix, threads
<1>6. CASE Restart
  BY <1>6, BoardAssumption DEF Restart
<1> QED BY <1>1, <1>2, <1>3, <1>4, <1>5, <1>6 DEF Next, KeyScan

LEMMA FlashStep ==
  ASSUME TypeInv, [Next]_vars
  PROVE  FlashTypeOK' /\ DriverOK'
<1> USE DEF TypeInv
<1>1. ASSUME UNCHANGED flash PROVE FlashTypeOK' /\ DriverOK'
  BY <1>1 DEF flash, chip, driver, FlashTypeOK, DriverOK
<1>2. ASSUME NEW t \in Thread, Scan(t) \/ KeyScan(t) PROVE FlashTypeOK' /\ DriverOK'
  <2>1. CASE WriteOdr(t)
    <3>1. seen[t] \in BOOLEAN /\ WritePort(seen[t])
      BY <2>1 DEF WriteOdr, MatrixOK
    <3> QED BY <3>1, PortTypes
  <2>2. CASE ~WriteOdr(t)
    <3>1. UNCHANGED flash
      BY <1>2, <2>2 DEF Scan, KeyScan, ReadOdr, Test, Sample, Release
    <3> QED BY <1>1, <3>1
  <2> QED BY <2>1, <2>2
<1>3. ASSUME NEW t \in Thread, Call(t) PROVE FlashTypeOK' /\ DriverOK'
  BY <1>3, BeginTypes DEF Call
<1>4. ASSUME NEW t \in Thread, Disk(t) PROVE FlashTypeOK' /\ DriverOK'
  BY <1>4, DiskTypes DEF Disk
<1>5. CASE Chip
  BY <1>5, ChipTypes DEF Chip
<1>6. CASE Restart
  <2>1. 1 \in Page /\ "erased" \in Content
    BY FlashDiskAssumption DEF Page, Content
  <2>2. todo' = <<>> /\ <<>> \in Seq(Transaction)
    BY <1>6 DEF Restart
  <2>3. /\ cs' = TRUE /\ ins' = "none" /\ adr' = 1 /\ data' = 0 /\ wel' = FALSE /\ writing' = {}
        /\ value' = "erased" /\ page' = page
        /\ op' = "none" /\ phase' = "low" /\ sent' = 0 /\ good' = FALSE /\ disturbed' = FALSE
    BY <1>6 DEF Restart
  <2>4. FlashTypeOK'
    <3>1. /\ cs' \in BOOLEAN /\ wel' \in BOOLEAN /\ good' \in BOOLEAN /\ disturbed' \in BOOLEAN
      BY <2>3
    <3>2. /\ ins' \in Instruction \cup {"none"} /\ adr' \in Page /\ data' \in 0 .. 1
          /\ writing' \subseteq Page /\ value' \in Content /\ page' \in [Page -> Content]
      BY <2>1, <2>3 DEF FlashTypeOK
    <3>3. /\ op' \in {"none", "read", "write"} /\ sent' \in 0 .. 1
          /\ phase' \in {"low", "head", "data", "high"} /\ todo' \in Seq(Transaction)
      BY <2>2, <2>3
    <3> QED BY <3>1, <3>2, <3>3 DEF FlashTypeOK
  <2>5. DriverOK'
    BY <2>2, <2>3 DEF DriverOK
  <2> QED BY <2>4, <2>5
<1>7. CASE Join \/ LetGo \/ (\E k \in Key : Press(k)) \/ UNCHANGED vars
  BY <1>1, <1>7 DEF Join, LetGo, Press, vars
<1> QED BY <1>2, <1>3, <1>4, <1>5, <1>6, <1>7 DEF Next

LEMMA InitTypes == Init => TypeInv
<1> SUFFICES ASSUME Init PROVE TypeInv
  OBVIOUS
<1>1. 1 \in Page /\ "erased" \in Content /\ "other" \in Content
  BY FlashDiskAssumption DEF Page, Content
<1>2. FlashTypeOK
  <2>1. todo \in Seq(Transaction)
    BY DEF Init, Start
  <2>2. page \in [Page -> Content]
    BY <1>1 DEF Init
  <2>3. /\ cs \in BOOLEAN /\ wel \in BOOLEAN /\ good \in BOOLEAN /\ disturbed \in BOOLEAN
    BY DEF Init, Start
  <2>4. /\ ins \in Instruction \cup {"none"} /\ adr \in Page /\ data \in 0 .. 1
        /\ writing \subseteq Page /\ value \in Content
    BY <1>1 DEF Init, Start
  <2>5. /\ op \in {"none", "read", "write"} /\ sent \in 0 .. 1
        /\ phase \in {"low", "head", "data", "high"}
    BY DEF Init, Start
  <2> QED BY <2>1, <2>2, <2>3, <2>4, <2>5 DEF FlashTypeOK
<1>3. DriverOK
  BY DEF Init, Start, DriverOK
<1>4. MatrixOK
  BY BoardAssumption DEF Init, MatrixOK
<1> QED BY <1>2, <1>3, <1>4 DEF TypeInv

\* The types are an invariant, for any matrix and any number of pages: no more
\* data are sent, or counted by the chip, than a transaction has, however the
\* scans move its select (bsp_spi_flash.c 136-172).
THEOREM TypeCorrect == Spec => []TypeOK
<1>1. Init => TypeInv
  BY InitTypes
<1>2. TypeInv /\ [Next]_vars => TypeInv'
  BY MatrixStep, FlashStep DEF TypeInv
<1>3. TypeInv /\ IInv => TypeOK
  BY DEF TypeInv, MatrixOK, IInv, Typed, TypeOK
<1> QED BY <1>1, <1>2, <1>3, InvariantHolds, PTL DEF Spec

-----------------------------------------------------------------------------
(* disk_write, between the scans. *)

\* An undisturbed write: the chip is in the transaction that is being sent, is
\* idle except while its end is waited for, and is enabled before it erases or
\* programs; each page is erased until its turn comes, and then it is written.
WritesOn ==
  op = "write" /\ ~disturbed =>
    /\ phase # "low" => ~cs
    /\ phase \in {"data", "high"} =>
         /\ ins = Head(todo).ins /\ adr = Head(todo).page
         /\ ins = "program" => data = sent
    /\ At <= 3 \/ todo = <<>> \/ Head(todo).ins # "status" \/ phase = "high" => writing = {}
    /\ At \in {2, 3} => wel
    /\ todo # <<>> /\ Head(todo).ins = "program" => wel
    /\ At >= 4 => \A p \in Page : Will(p) = IF 3 * p + 4 <= At THEN "new" ELSE "erased"

WriteInv == FlashTypeOK /\ DriverOK /\ Rest /\ WritesOn

\* What is left begins with the transaction at At, and ends with the last.
LEMMA AtHead ==
  ASSUME FlashTypeOK, Rest, op = "write", todo # <<>>
  PROVE  /\ At \in 1 .. Total /\ Head(todo) = DiskWrite[At]
         /\ Total + 1 - Len(Tail(todo)) = At + 1
         /\ Tail(todo) = <<>> <=> At = Total
         /\ \A n \in 1 .. Len(Tail(todo)) : Tail(todo)[n] = DiskWrite[At + n]
         /\ Tail(todo) # <<>> => Head(Tail(todo)) = DiskWrite[At + 1]
<1>1. todo \in Seq(Transaction) /\ Total \in Nat
  BY FlashDiskAssumption DEF FlashTypeOK, Total
<1>2. /\ Len(todo) \in Nat /\ Len(todo) > 0 /\ Head(todo) = todo[1]
      /\ Tail(todo) \in Seq(Transaction) /\ Len(Tail(todo)) = Len(todo) - 1
      /\ \A n \in 1 .. Len(Tail(todo)) : Tail(todo)[n] = todo[n + 1]
  BY <1>1, HeadTailProperties, EmptySeq, LenProperties
<1>3. Len(todo) <= Total /\ \A n \in 1 .. Len(todo) : todo[n] = DiskWrite[Total - Len(todo) + n]
  BY DEF Rest
<1>4. /\ At \in 1 .. Total /\ Total + 1 - Len(Tail(todo)) = At + 1
      /\ Len(Tail(todo)) = 0 <=> At = Total
  BY <1>1, <1>2, <1>3 DEF At
<1>5. Head(todo) = DiskWrite[At]
  <2>1. 1 \in 1 .. Len(todo) /\ Total - Len(todo) + 1 = At
    BY <1>1, <1>2 DEF At
  <2> QED BY <1>2, <1>3, <2>1
<1>6. ASSUME NEW n \in 1 .. Len(Tail(todo)) PROVE Tail(todo)[n] = DiskWrite[At + n]
  <2>1. n + 1 \in 1 .. Len(todo) /\ Total - Len(todo) + (n + 1) = At + n
    BY <1>1, <1>2 DEF At
  <2> QED BY <1>2, <1>3, <2>1
<1>7. Tail(todo) = <<>> <=> Len(Tail(todo)) = 0
  BY <1>2, EmptySeq
<1>8. Tail(todo) # <<>> => Head(Tail(todo)) = DiskWrite[At + 1]
  <2>1. SUFFICES ASSUME Tail(todo) # <<>> PROVE Head(Tail(todo)) = DiskWrite[At + 1]
    OBVIOUS
  <2>2. Head(Tail(todo)) = Tail(todo)[1] /\ 1 \in 1 .. Len(Tail(todo))
    BY <1>2, <1>7, <2>1, LenProperties, HeadTailProperties
  <2> QED BY <1>6, <2>2
<1> QED BY <1>4, <1>5, <1>6, <1>7, <1>8

\* A disk function drops the transactions it has done from the front, ...
LEMMA RestStep ==
  ASSUME FlashTypeOK, Rest, DiskStep
  PROVE  Rest'
<1>1. CASE UNCHANGED <<op, todo>> \/ op' = "none"
  BY <1>1 DEF Rest
<1>2. CASE CsHigh
  <2>1. SUFFICES ASSUME op = "write" PROVE Rest'
    BY <1>2 DEF CsHigh, Rest
  <2>2. todo # <<>> /\ todo' = Tail(todo) /\ op' = op
    BY <1>2 DEF CsHigh
  <2>3. /\ Total + 1 - Len(todo') = At + 1 /\ At \in 1 .. Total
        /\ \A n \in 1 .. Len(todo') : todo'[n] = DiskWrite[At + n]
    BY <2>1, <2>2, AtHead
  <2>4. Total \in Nat /\ At \in Nat /\ Len(todo') \in Nat
    BY <2>2, <2>3, FlashDiskAssumption, HeadType, LenProperties DEF Total
  <2>5. Len(todo') <= Total /\ Total - Len(todo') = At
    BY <2>3, <2>4
  <2> QED BY <2>2, <2>3, <2>5 DEF Rest
<1> QED BY <1>1, <1>2 DEF DiskStep, CsLow, SendHead, SendData, Poll, Return

\* The instructions that follow a status or a program.
LEMMA After ==
  ASSUME NEW k \in 0 .. Pages
  PROVE  DiskWrite[3 * k + 5].ins = "enable" /\ DiskWrite[3 * k + 7].ins = "status"
<1>1. DiskWrite[3 * k + 5] = T("enable", 1, 0) /\ DiskWrite[3 * k + 7] = T("status", 1, 0)
  BY WriteShape
<1>2. T("enable", 1, 0).ins = "enable" /\ T("status", 1, 0).ins = "status"
  BY DEF T
<1> QED BY <1>1, <1>2

\* A transaction is over, and the chip does what it was told: the write stays as WritesOn
\* says, at the next place.
LEMMA TransactionDone ==
  ASSUME WriteInv, CsHigh, op = "write", ~disturbed
  PROVE  WritesOn'
<1> USE FlashDiskAssumption
<1> DEFINE m == At
<1>1. /\ todo # <<>> /\ phase \in {"data", "high"} /\ (phase = "high" \/ Finished)
      /\ todo' = Tail(todo) /\ phase' = "low" /\ Select(TRUE)
  BY DEF CsHigh
<1>2. /\ m \in 1 .. Total /\ Head(todo) = DiskWrite[m] /\ At' = m + 1
      /\ todo' = <<>> <=> m = Total
      /\ todo' # <<>> => Head(todo') = DiskWrite[m + 1]
  BY <1>1, AtHead DEF WriteInv, At
<1>3. /\ ins = Head(todo).ins /\ adr = Head(todo).page
      /\ ins = "program" => data = sent /\ wel
      /\ m <= 3 \/ Head(todo).ins # "status" \/ phase = "high" => writing = {}
      /\ m \in {2, 3} => wel
      /\ m >= 4 => \A p \in Page : Will(p) = IF 3 * p + 4 <= m THEN "new" ELSE "erased"
      /\ ~cs
  BY <1>1 DEF WriteInv, WritesOn
<1>4. Execute
  BY <1>1, <1>3 DEF Select
<1>5. writing = {}
  BY <1>1, <1>3 DEF Finished
<1> DEFINE Goal ==
             /\ m + 1 <= 3 \/ todo' = <<>> \/ Head(todo').ins # "status" => writing' = {}
             /\ m + 1 \in {2, 3} => wel'
             /\ todo' # <<>> /\ Head(todo').ins = "program" => wel'
             /\ m + 1 >= 4 => \A p \in Page :
                  Will(p)' = IF 3 * p + 4 <= m + 1 THEN "new" ELSE "erased"
<1>6. Goal => WritesOn'
  BY <1>1, <1>2 DEF WritesOn
<1> HIDE DEF m
<1>7. ASSUME m \in {2, 4}, DiskWrite[m] = T("status", 1, 0) PROVE Goal
  <2>1. ins = "status"
    BY <1>2, <1>3, <1>7 DEF T
  <2>2. UNCHANGED <<wel, writing, value, page>>
    BY <1>4, <2>1 DEF Execute
  <2>3. \/ m = 2 /\ m + 1 = 3 /\ DiskWrite[m + 1].ins = "erase"
        \/ m = 4 /\ m + 1 = 5 /\ DiskWrite[m + 1].ins = "enable"
    <3>1. DiskWrite[3].ins = "erase"
      BY WriteShape DEF T
    <3>2. 0 \in 0 .. Pages /\ 3 * 0 + 5 = 5
      OBVIOUS
    <3>3. DiskWrite[5].ins = "enable"
      BY <3>2, After
    <3> QED BY <1>7, <3>1, <3>3
  <2>4. ASSUME NEW p \in Page, m + 1 >= 4
        PROVE  Will(p)' = IF 3 * p + 4 <= m + 1 THEN "new" ELSE "erased"
    <3>1. Will(p)' = Will(p) /\ p >= 1 /\ p \in Nat /\ m = 4
      BY <1>7, <2>2, <2>4 DEF Will, Page
    <3> QED BY <1>3, <3>1
  <2> QED BY <1>2, <1>3, <1>5, <2>2, <2>3, <2>4
<1>8. ASSUME m = 1, DiskWrite[m] = T("enable", 1, 0) PROVE Goal
  <2>1. ins = "enable"
    BY <1>2, <1>3, <1>8 DEF T
  <2>2. wel' /\ UNCHANGED <<writing, value, page>>
    BY <1>4, <1>5, <2>1 DEF Execute
  <2> QED BY <1>5, <1>8, <2>2
<1>9. ASSUME m = 3, DiskWrite[m] = T("erase", 1, 0) PROVE Goal
  <2>1. ins = "erase" /\ wel
    BY <1>2, <1>3, <1>9 DEF T
  <2>2. writing' = Page /\ value' = "erased"
    BY <1>4, <1>5, <2>1 DEF Execute
  <2>3. Total # 3 /\ DiskWrite[m + 1].ins = "status"
    BY <1>9, WriteShape DEF T, Total
  <2>4. \A p \in Page : Will(p)' = "erased" /\ ~(3 * p + 4 <= m + 1)
    BY <1>9, <2>2 DEF Will, Page
  <2> QED BY <1>2, <1>9, <2>3, <2>4
<1>10. ASSUME NEW k \in 0 .. Pages, m = 3 * k + 5, DiskWrite[m] = T("enable", 1, 0) PROVE Goal
  <2>1. ins = "enable"
    BY <1>2, <1>3, <1>10 DEF T
  <2>2. wel' /\ UNCHANGED <<writing, value, page>>
    BY <1>4, <1>5, <2>1 DEF Execute
  <2>3. ASSUME NEW p \in Page PROVE Will(p)' = IF 3 * p + 4 <= m + 1 THEN "new" ELSE "erased"
    <3>1. Will(p)' = Will(p) /\ p \in Nat /\ m >= 4 /\ (3 * p + 4 <= m <=> 3 * p + 4 <= m + 1)
      BY <1>10, <2>2 DEF Will, Page
    <3> QED BY <1>3, <3>1
  <2> QED BY <1>5, <2>2, <2>3
<1>11. ASSUME NEW k \in 0 .. Pages, m = 3 * k + 6, k < Pages, DiskWrite[m] = T("program", k + 1, 1)
       PROVE  Goal
  <2>1. ins = "program" /\ adr = k + 1 /\ adr \in Page /\ wel /\ data = sent
    BY <1>2, <1>3, <1>11 DEF T, Page
  <2>2. sent = 1 /\ data > 0
    BY <1>1, <1>2, <1>11, <2>1 DEF Finished, T, WriteInv, DriverOK
  <2>3. page[adr] = "erased"
    <3>1. Will(adr) = page[adr] /\ m >= 4 /\ ~(3 * adr + 4 <= m)
      BY <1>5, <1>11, <2>1 DEF Will
    <3> QED BY <1>3, <2>1, <3>1
  <2>4. /\ writing' = {k + 1} /\ value' = "new"
        /\ page' = [page EXCEPT ![k + 1] = "other"]
    BY <1>4, <1>5, <2>1, <2>2, <2>3 DEF Execute
  <2>5. ASSUME NEW p \in Page PROVE Will(p)' = IF 3 * p + 4 <= m + 1 THEN "new" ELSE "erased"
    <3>1. CASE p = k + 1
      <4>1. Will(p)' = "new" /\ 3 * p + 4 <= m + 1
        BY <1>11, <2>4, <3>1 DEF Will
      <4> QED BY <4>1
    <3>2. CASE p # k + 1
      <4>1. Will(p)' = Will(p)
        BY <1>5, <2>4, <3>2 DEF Will, WriteInv, FlashTypeOK
      <4>2. p \in Nat /\ m >= 4 /\ (3 * p + 4 <= m <=> 3 * p + 4 <= m + 1)
        BY <1>11, <3>2 DEF Page
      <4> QED BY <1>3, <4>1, <4>2
    <3> QED BY <3>1, <3>2
  <2>6. Total # m /\ DiskWrite[m + 1].ins = "status"
    <3>1. DiskWrite[3 * k + 7].ins = "status"
      BY After
    <3>2. m + 1 = 3 * k + 7 /\ Total # m
      BY <1>11 DEF Total
    <3> QED BY <3>1, <3>2
  <2>7. ~(m + 1 \in {2, 3}) /\ ~(m + 1 <= 3)
    BY <1>11
  <2> QED BY <1>2, <2>5, <2>6, <2>7
<1>12. ASSUME NEW k \in 0 .. Pages, m = 3 * k + 6, k = Pages, DiskWrite[m] = T("program", 1, 0)
       PROVE  Goal
  <2>1. ins = "program" /\ data = sent
    BY <1>2, <1>3, <1>12 DEF T
  <2>2. sent = 0 /\ data = 0
    BY <1>1, <1>2, <1>12, <2>1, HeadType DEF Finished, T, WriteInv, DriverOK
  <2>3. UNCHANGED <<wel, writing, value, page>>
    BY <1>4, <1>5, <2>1, <2>2 DEF Execute
  <2>4. ASSUME NEW p \in Page PROVE Will(p)' = IF 3 * p + 4 <= m + 1 THEN "new" ELSE "erased"
    <3>1. Will(p)' = Will(p)
      BY <2>3 DEF Will
    <3>2. p \in Nat /\ m >= 4 /\ (3 * p + 4 <= m <=> 3 * p + 4 <= m + 1)
      BY <1>12 DEF Page
    <3> QED BY <1>3, <3>1, <3>2
  <2>5. Total # m /\ DiskWrite[m + 1].ins = "status"
    <3>1. DiskWrite[3 * k + 7].ins = "status"
      BY After
    <3>2. m + 1 = 3 * k + 7 /\ Total # m
      BY <1>12 DEF Total
    <3> QED BY <3>1, <3>2
  <2>6. ~(m + 1 \in {2, 3}) /\ ~(m + 1 <= 3)
    BY <1>12
  <2> QED BY <1>2, <2>4, <2>5, <2>6
<1>13. ASSUME NEW k \in 0 .. Pages, m = 3 * k + 7, DiskWrite[m] = T("status", 1, 0) PROVE Goal
  <2>1. ins = "status"
    BY <1>2, <1>3, <1>13 DEF T
  <2>2. UNCHANGED <<wel, writing, value, page>>
    BY <1>4, <2>1 DEF Execute
  <2>3. ASSUME NEW p \in Page PROVE Will(p)' = IF 3 * p + 4 <= m + 1 THEN "new" ELSE "erased"
    <3>1. Will(p)' = Will(p)
      BY <2>2 DEF Will
    <3>2. p \in Nat /\ m >= 4 /\ (3 * p + 4 <= m <=> 3 * p + 4 <= m + 1)
      BY <1>13 DEF Page
    <3> QED BY <1>3, <3>1, <3>2
  <2>4. m # Total => DiskWrite[m + 1].ins = "enable"
    <3>1. SUFFICES ASSUME m # Total PROVE DiskWrite[m + 1].ins = "enable"
      OBVIOUS
    <3>2. k + 1 \in 0 .. Pages /\ 3 * (k + 1) + 5 = m + 1
      BY <1>13, <3>1 DEF Total
    <3>3. PICK j \in 0 .. Pages : 3 * j + 5 = m + 1
      BY <3>2
    <3> QED BY <3>3, After
  <2>5. ~(m + 1 \in {2, 3})
    BY <1>13
  <2> QED BY <1>2, <1>5, <2>2, <2>3, <2>4, <2>5
<1> QED BY <1>2, <1>6, <1>7, <1>8, <1>9, <1>10, <1>11, <1>12, <1>13, WriteAt

\* The other steps of the write itself, the chip's, and the scans', which leave the select
\* as it is unless they disturb it.
LEMMA WriteStep ==
  ASSUME WriteInv, op = "write", ~disturbed, DiskStep
  PROVE  WritesOn'
<1>1. CASE CsLow
  <2>1. /\ phase = "low" /\ phase' = "head" /\ ~cs'
        /\ UNCHANGED <<op, todo, disturbed, ins, adr, data, wel, writing, value, page>>
    BY <1>1 DEF CsLow, Select, chip
  <2>2. At' = At /\ \A p \in Page : Will(p)' = Will(p)
    BY <2>1 DEF At, Will
  <2> QED BY <2>1, <2>2 DEF WriteInv, WritesOn
<1>2. CASE SendHead
  <2>1. ~cs /\ phase = "head" /\ sent = 0 /\ data = 0
    BY <1>2 DEF SendHead, WriteInv, WritesOn, DriverOK, FlashTypeOK
  <2>2. /\ ins' = Head(todo).ins /\ adr' = Head(todo).page /\ phase' = "data"
        /\ UNCHANGED <<cs, op, todo, disturbed, sent, data, wel, writing, value, page>>
    BY <1>2, <2>1 DEF SendHead
  <2>3. At' = At /\ \A p \in Page : Will(p)' = Will(p)
    BY <2>2 DEF At, Will
  <2> QED BY <2>1, <2>2, <2>3 DEF WriteInv, WritesOn
<1>3. CASE SendData
  <2>1. ~cs /\ phase = "data" /\ (ins = "program" => data = sent)
    BY <1>3 DEF SendData, WriteInv, WritesOn
  <2>2. /\ sent' = sent + 1 /\ (ins = "program" => data' = data + 1)
        /\ UNCHANGED <<cs, op, todo, disturbed, phase, ins, adr, wel, writing, value, page>>
    BY <1>3, <2>1 DEF SendData
  <2>3. At' = At /\ \A p \in Page : Will(p)' = Will(p)
    BY <2>2 DEF At, Will
  <2> QED BY <2>1, <2>2, <2>3 DEF WriteInv, WritesOn
<1>4. CASE Poll
  <2>1. ~cs /\ phase = "data" /\ ins = "status"
    BY <1>4 DEF Poll, WriteInv, WritesOn
  <2>2. /\ phase' \in {"data", "high"} /\ (phase' = "high" => writing = {})
        /\ UNCHANGED <<cs, op, todo, sent, disturbed, ins, adr, data, wel, writing, value, page>>
    BY <1>4, <2>1 DEF Poll, WIP, chip
  <2>3. At' = At /\ \A p \in Page : Will(p)' = Will(p)
    BY <2>2 DEF At, Will
  <2> QED BY <2>1, <2>2, <2>3 DEF WriteInv, WritesOn
<1>5. CASE CsHigh
  BY <1>5, TransactionDone
<1>6. CASE Return
  BY <1>6 DEF Return, WritesOn
<1> QED BY <1>1, <1>2, <1>3, <1>4, <1>5, <1>6 DEF DiskStep

LEMMA WriteScan ==
  ASSUME WriteInv, NEW high \in BOOLEAN, WritePort(high)
  PROVE  Rest' /\ WritesOn'
<1>1. Rest'
  BY DEF WriteInv, Rest, WritePort
<1>2. SUFFICES ASSUME op' = "write", ~disturbed' PROVE WritesOn'
  BY <1>1 DEF WritesOn
<1>3. /\ op = "write" /\ ~disturbed /\ (high => cs) /\ cs' = high
      /\ UNCHANGED <<op, todo, phase, sent, ins, adr, data, wel, writing, value, page>>
  BY <1>2 DEF WritePort, Select, chip
<1>4. At' = At /\ \A p \in Page : Will(p)' = Will(p)
  BY <1>3 DEF At, Will
<1> QED BY <1>1, <1>2, <1>3, <1>4 DEF WriteInv, WritesOn

LEMMA WriteChip ==
  ASSUME WriteInv, ChipDone
  PROVE  Rest' /\ WritesOn'
<1>1. /\ writing # {} /\ writing' = {} /\ page' = [p \in Page |-> IF p \in writing THEN value ELSE page[p]]
      /\ UNCHANGED <<cs, ins, adr, data, op, todo, phase, sent, disturbed>>
  BY DEF ChipDone, driver
<1>2. Rest'
  BY <1>1 DEF WriteInv, Rest
<1>3. At' = At /\ \A p \in Page : Will(p)' = Will(p)
  BY <1>1 DEF At, Will
<1> QED BY <1>1, <1>2, <1>3 DEF WriteInv, WritesOn

\* A disk function begins with nothing done.
LEMMA WriteBegins ==
  ASSUME WriteInv, disk_write \/ disk_read
  PROVE  Rest' /\ WritesOn'
<1>1. CASE disk_write
  <2>1. /\ todo' = DiskWrite /\ phase' = "low" /\ disturbed' = (writing # {})
        /\ UNCHANGED <<wel, writing, value, page>>
    BY <1>1 DEF disk_write, Begin, DiskWrite, chip
  <2>2. Len(todo') = Total /\ Total \in Nat
    BY <2>1, WriteShape, FlashDiskAssumption DEF Total
  <2>3. Rest'
    BY <2>1, <2>2 DEF Rest
  <2>4. At' = 1
    BY <2>2 DEF At
  <2>5. Head(todo').ins = "enable"
    <3>1. Head(todo') = DiskWrite[1]
      BY <2>1
    <3> QED BY <3>1, WriteShape DEF T
  <2>6. ~disturbed' => writing' = {}
    BY <2>1
  <2> QED BY <2>1, <2>3, <2>4, <2>5, <2>6 DEF WritesOn
<1>2. CASE disk_read
  BY <1>2 DEF disk_read, Begin, Rest, WritesOn
<1> QED BY <1>1, <1>2

LEMMA WriteNext ==
  ASSUME TypeInv, Rest, WritesOn, [Next]_vars
  PROVE  Rest' /\ WritesOn'
<1>1. WriteInv
  BY DEF TypeInv, WriteInv
<1>2. ASSUME UNCHANGED flash PROVE Rest' /\ WritesOn'
  <2>1. UNCHANGED <<cs, ins, adr, data, wel, writing, value, page, op, todo, phase, sent, disturbed>>
    BY <1>2 DEF flash, chip, driver
  <2>2. At' = At /\ \A p \in Page : Will(p)' = Will(p)
    BY <2>1 DEF At, Will
  <2> QED BY <2>1, <2>2 DEF Rest, WritesOn
<1>3. ASSUME NEW t \in Thread, Scan(t) \/ KeyScan(t) PROVE Rest' /\ WritesOn'
  <2>1. CASE WriteOdr(t)
    <3>1. seen[t] \in BOOLEAN /\ WritePort(seen[t])
      BY <2>1 DEF WriteOdr, TypeInv, MatrixOK
    <3> QED BY <1>1, <3>1, WriteScan
  <2>2. CASE ~WriteOdr(t)
    <3>1. UNCHANGED flash
      BY <1>3, <2>2 DEF Scan, KeyScan, ReadOdr, Test, Sample, Release
    <3> QED BY <1>2, <3>1
  <2> QED BY <2>1, <2>2
<1>4. ASSUME NEW t \in Thread, Call(t) PROVE Rest' /\ WritesOn'
  BY <1>1, <1>4, WriteBegins DEF Call
<1>5. ASSUME NEW t \in Thread, Disk(t) PROVE Rest' /\ WritesOn'
  <2>1. Rest'
    BY <1>1, <1>5, RestStep DEF Disk, WriteInv
  <2>2. CASE op = "write" /\ ~disturbed
    BY <1>1, <1>5, <2>1, <2>2, WriteStep DEF Disk
  <2>3. CASE ~(op = "write" /\ ~disturbed)
    <3>1. op' = "none" \/ UNCHANGED <<op, disturbed>>
      BY <1>5 DEF Disk, DiskStep, CsLow, SendHead, SendData, Poll, CsHigh, Return
    <3> QED BY <2>1, <2>3, <3>1 DEF WritesOn
  <2> QED BY <2>2, <2>3
<1>6. CASE Chip
  BY <1>1, <1>6, WriteChip DEF Chip
<1>7. CASE Restart
  BY <1>7 DEF Restart, Rest, WritesOn
<1>8. CASE Join \/ LetGo \/ (\E k \in Key : Press(k)) \/ UNCHANGED vars
  BY <1>2, <1>8 DEF Join, LetGo, Press, vars
<1> QED BY <1>3, <1>4, <1>5, <1>6, <1>7, <1>8 DEF Next

\* When nothing is left, every page has been written and the chip is idle.
LEMMA WriteEnds ==
  ASSUME FlashTypeOK, Rest, WritesOn
  PROVE  WriteReaches
<1> SUFFICES ASSUME op = "write", todo = <<>>, ~disturbed, NEW p \in Page PROVE page[p] = "new"
  BY DEF WriteReaches
<1>1. At = 3 * Pages + 8
  BY FlashDiskAssumption, EmptySeq DEF At, Total
<1>2. writing = {} /\ Will(p) = page[p]
  BY DEF WritesOn, Will
<1>3. p \in Nat /\ 3 * p + 4 <= At /\ At >= 4
  BY <1>1, FlashDiskAssumption DEF Page
<1> QED BY <1>2, <1>3 DEF WritesOn

\* disk_write (diskio.c 163-173) over a sector of any number of pages: the erasure, the pages
\* one by one and the write of length 0 that follows them leave what was given in each page,
\* whatever the sector held, however the scans of a matrix of any size fall between the
\* transactions and wherever the power failed before, unless a scan raised the select under it.
THEOREM WriteReachesAll == Spec => []WriteReaches
<1> DEFINE Inv == TypeInv /\ Rest /\ WritesOn
<1>1. Init => Inv
  BY InitTypes DEF Init, Start, Rest, WritesOn
<1>2. Inv /\ [Next]_vars => Inv'
  BY MatrixStep, FlashStep, WriteNext DEF TypeInv
<1>3. Inv => WriteReaches
  BY WriteEnds DEF TypeInv
<1> QED BY <1>1, <1>2, <1>3, PTL DEF Spec
=============================================================================
