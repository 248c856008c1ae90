------------------------------ MODULE FlashDisk ------------------------------
(***************************************************************************)
(* One sector of the SPI flash under the disk functions of FatFs.  A disk  *)
(* function is a sequence of transactions; a transaction lowers the chip   *)
(* select, sends an instruction with its address and then data, and raises *)
(* it again.  The chip, which is not under src, listens while it is        *)
(* selected and acts when the select rises, whoever raises it: the select  *)
(* is bit 0 of port C, which KeyScan writes as a whole.                    *)
(*                                                                         *)
(* A page's 256 bytes go in one step.  A page is erased, holds what is     *)
(* being written, or holds something else.                                 *)
(***************************************************************************)
EXTENDS Naturals, Sequences

CONSTANT Pages  \* pages of a sector: 16

ASSUME FlashDiskAssumption == Pages \in Nat \ {0}

VARIABLES
  cs,              \* the chip select, TRUE if high
  ins, adr, data,  \* chip: instruction of this transaction, its page, data received
  wel,             \* chip: write enable latch
  writing, value,  \* chip: pages it is busy with, what they will hold
  page,            \* chip: contents
  op, todo,        \* the disk function that runs, its transactions
  phase, sent,     \* of the first of todo: where it is, data sent or read
  good,            \* the selected chip gave the data read
  disturbed        \* ghost: the select was raised under this disk function, or it began
                   \*   while the chip was busy

chip == <<ins, adr, data, wel, writing, value, page>>
driver == <<op, todo, phase, sent, good, disturbed>>
flash == <<cs, chip, driver>>

Page == 1 .. Pages
Content == {"erased", "new", "other"}
Instruction == {"enable", "status", "erase", "program", "read"}
Transaction == [ins : Instruction, page : Page, len : 0 .. 1]

Start ==
  /\ cs = TRUE
  /\ ins = "none" /\ adr = 1 /\ data = 0 /\ wel = FALSE /\ writing = {} /\ value = "erased"
  /\ op = "none" /\ todo = <<>> /\ phase = "low" /\ sent = 0 /\ good = FALSE /\ disturbed = FALSE

-----------------------------------------------------------------------------
(* The chip. *)

\* What the chip does with a finished transaction; busy, it does nothing.
Execute ==
  \/ /\ ins = "enable" /\ writing = {}
     /\ wel' = TRUE /\ UNCHANGED <<writing, value, page>>
  \/ /\ ins = "erase" /\ writing = {} /\ wel
     /\ writing' = Page /\ value' = "erased"
     /\ page' = [p \in Page |-> "other"] /\ UNCHANGED wel
  \/ /\ ins = "program" /\ writing = {} /\ wel /\ data > 0
     /\ writing' = {adr}
     /\ value' = IF page[adr] = "erased" THEN "new" ELSE "other"
     /\ page' = [page EXCEPT ![adr] = "other"] /\ UNCHANGED wel
  \/ /\ \/ ins \in {"none", "status", "read"} \/ writing # {}
        \/ ins \in {"erase", "program"} /\ ~wel
        \/ ins = "program" /\ data = 0
     /\ UNCHANGED <<wel, writing, value, page>>

\* The select is set high or low by a write to the port.
Select(high) ==
  /\ cs' = high
  /\ IF high /\ ~cs THEN Execute /\ ins' = "none" /\ adr' = 1 /\ data' = 0
     ELSE UNCHANGED chip

\* Erasing or programming is finished.
ChipDone ==
  /\ writing # {}
  /\ page' = [p \in Page |-> IF p \in writing THEN value ELSE page[p]]
  /\ writing' = {} /\ value' = "erased" /\ wel' = FALSE
  /\ UNCHANGED <<cs, ins, adr, data, driver>>

-----------------------------------------------------------------------------
(* The disk functions. *)

T(i, p, l) == [ins |-> i, page |-> p, len |-> l]
SPI_FLASH_WriteEnable == T("enable", 1, 0)
SPI_FLASH_WaitForWriteEnd == T("status", 1, 0)

\* mutant of SPI_FLASH_SectorErase: the end of the erasure is not waited for
SPI_FLASH_SectorEraseOnly ==
  <<SPI_FLASH_WriteEnable, SPI_FLASH_WaitForWriteEnd, T("erase", 1, 0)>>

SPI_FLASH_SectorErase ==
  <<SPI_FLASH_WriteEnable, SPI_FLASH_WaitForWriteEnd, T("erase", 1, 0), SPI_FLASH_WaitForWriteEnd>>

SPI_FLASH_PageWrite(p, len) ==
  <<SPI_FLASH_WriteEnable, T("program", p, len), SPI_FLASH_WaitForWriteEnd>>

\* All whole pages, and then the rest, which for a sector is of length 0 at the next address.
PageOrRest(k) == IF k <= Pages THEN SPI_FLASH_PageWrite(k, 1) ELSE SPI_FLASH_PageWrite(1, 0)

\* Their transactions one after the other, three for each.
SPI_FLASH_BufferWrite ==
  [n \in 1 .. 3 * (Pages + 1) |-> PageOrRest(((n - 1) \div 3) + 1)[((n - 1) % 3) + 1]]

\* mutant of SPI_FLASH_BufferRead: the length is cut
SPI_FLASH_BufferReadShort == <<T("read", 1, 0)>>

SPI_FLASH_BufferRead == <<T("read", 1, 1)>>

Begin(name, ts) ==
  /\ op = "none" /\ op' = name /\ todo' = ts
  /\ phase' = "low" /\ sent' = 0 /\ good' = FALSE
  /\ disturbed' = (writing # {})

disk_write ==
  Begin("write", SPI_FLASH_SectorErase \o SPI_FLASH_BufferWrite) /\ UNCHANGED <<cs, chip>>

disk_read == Begin("read", SPI_FLASH_BufferRead) /\ UNCHANGED <<cs, chip>>

CsLow ==
  /\ todo # <<>> /\ phase = "low"
  /\ Select(FALSE)
  /\ phase' = "head" /\ UNCHANGED <<op, todo, sent, good, disturbed>>

\* SPI_FLASH_SendByte, for the instruction and its address.
SendHead ==
  /\ todo # <<>> /\ phase = "head"
  /\ IF cs THEN UNCHANGED <<ins, adr>> ELSE ins' = Head(todo).ins /\ adr' = Head(todo).page
  /\ phase' = "data"
  /\ UNCHANGED <<cs, data, wel, writing, value, page, op, todo, sent, good, disturbed>>

\* mutant of Finished: one more is sent
FinishedLate == Head(todo).ins # "status" /\ sent > Head(todo).len

Finished == Head(todo).ins # "status" /\ sent = Head(todo).len

\* ... for the data: the chip's is what it says only while it is selected.
SendData ==
  /\ todo # <<>> /\ phase = "data" /\ Head(todo).ins # "status" /\ ~Finished
  /\ sent' = sent + 1
  /\ data' = IF ~cs /\ ins = "program" THEN data + 1 ELSE data
  /\ good' = (~cs /\ ins = "read" /\ writing = {})
  /\ UNCHANGED <<cs, ins, adr, wel, writing, value, page, op, todo, phase, disturbed>>

\* mutant of WIP: the flag is taken the wrong way round
WIPInverted(b) == IF ~cs /\ ins = "status" THEN b = (writing = {}) ELSE b \in BOOLEAN

\* The status register's busy flag, as read: from a chip that is not selected, anything.
WIP(b) == IF ~cs /\ ins = "status" THEN b = (writing # {}) ELSE b \in BOOLEAN

\* The loop of SPI_FLASH_WaitForWriteEnd.
Poll ==
  /\ todo # <<>> /\ phase = "data" /\ Head(todo).ins = "status"
  /\ \E b \in BOOLEAN : WIP(b) /\ phase' = IF b THEN "data" ELSE "high"
  /\ UNCHANGED <<cs, chip, op, todo, sent, good, disturbed>>

CsHigh ==
  /\ todo # <<>>
  /\ phase = "high" \/ (phase = "data" /\ Finished)
  /\ Select(TRUE)
  /\ todo' = Tail(todo) /\ phase' = "low" /\ sent' = 0
  /\ UNCHANGED <<op, good, disturbed>>

Age(c) == IF c = "new" THEN "other" ELSE c

\* What was written is something else for the next disk function.
Return ==
  /\ op # "none" /\ todo = <<>>
  /\ op' = "none" /\ good' = FALSE /\ disturbed' = FALSE
  /\ page' = [p \in Page |-> Age(page[p])] /\ value' = Age(value)
  /\ UNCHANGED <<cs, ins, adr, data, wel, writing, todo, phase, sent>>

DiskStep == CsLow \/ SendHead \/ SendData \/ Poll \/ CsHigh \/ Return

\* The port is written as a whole, with a select that was read before.
WritePort(high) ==
  /\ Select(high)
  /\ disturbed' = (disturbed \/ (op # "none" /\ ~cs /\ high))
  /\ UNCHANGED <<op, todo, phase, sent, good>>

FlashTypeOK ==
  /\ cs \in BOOLEAN /\ wel \in BOOLEAN /\ disturbed \in BOOLEAN
  /\ ins \in Instruction \cup {"none"} /\ adr \in Page /\ data \in 0 .. 1
  /\ writing \subseteq Page /\ value \in Content /\ page \in [Page -> Content]
  /\ op \in {"none", "read", "write"} /\ todo \in Seq(Transaction)
  /\ phase \in {"low", "head", "data", "high"} /\ sent \in 0 .. 1 /\ good \in BOOLEAN
=============================================================================
