-------------------------------- MODULE Board --------------------------------
(***************************************************************************)
(* T_code and T_FR on the board they share: both scan the key matrix, and  *)
(* both use the flash, whose chip select is a bit of the port the matrix   *)
(* is on.  KeyScan reads the whole port and writes it back with other      *)
(* columns; between the two the threads, of equal priority, may change.    *)
(*                                                                         *)
(* T_FR uses the flash at its start (Handle_flash) and scans keys only     *)
(* after it: until then T_code scans alone.  Their disk functions do not   *)
(* overlap; that they may is the subject of CodeLock.                      *)
(***************************************************************************)
EXTENDS FlashDisk

CONSTANTS Rows, Columns  \* of the key matrix: 4 and 4

ASSUME BoardAssumption == {Rows, Columns} \subseteq Nat \ {0}

VARIABLES
  cols,            \* columns that are driven high
  down,            \* the key that is down
  place, col,      \* thread: where it is, the column it is at
  seen,            \* thread: the chip select in the port as it was read
  joined,          \* T_FR scans too
  KeyVal           \* what T_code, alone, has decoded since a key was last pressed

matrix == <<cols, down>>
threads == <<place, col, seen, joined, KeyVal>>
vars == <<flash, matrix, threads>>

Thread == {"T_code", "T_FR"}
Key == (1 .. Rows) \X (1 .. Columns)
NoKey == <<0, 0>>
Twice == <<0, 1>>
Place == {"idle", "read", "write", "test", "again", "colRead", "colWrite", "sample", "release",
          "disk"}

\* The rows that read high.
IDR == IF down # NoKey /\ down[2] \in cols THEN {down[1]} ELSE {}

Init ==
  /\ Start /\ page = [p \in Page |-> "other"]
  /\ cols = {} /\ down = NoKey
  /\ place = [t \in Thread |-> "idle"] /\ col = [t \in Thread |-> 1]
  /\ seen = [t \in Thread |-> TRUE] /\ joined = FALSE /\ KeyVal = NoKey

Goto(t, p) == place' = [place EXCEPT ![t] = p]

-----------------------------------------------------------------------------
(* KeyScan. *)

\* The volume is mounted and the passwords are read; T_FR's loop begins.
Join == ~joined /\ place["T_FR"] = "idle" /\ joined' = TRUE /\ KeyVal' = NoKey
          /\ UNCHANGED <<flash, matrix, place, col, seen>>

Scan(t) ==
  /\ place[t] = "idle" /\ (t = "T_FR" => joined)
  /\ Goto(t, "read")
  /\ UNCHANGED <<flash, matrix, col, seen, joined, KeyVal>>

\* GPIOC->ODR, before all columns are driven or one is.
ReadOdr(t) ==
  /\ \/ place[t] = "read" /\ Goto(t, "write")
     \/ place[t] = "colRead" /\ Goto(t, "colWrite")
  /\ seen' = [seen EXCEPT ![t] = cs]
  /\ UNCHANGED <<flash, matrix, col, joined, KeyVal>>

\* mutant of OneColumn: the others stay high
OneColumnMore(c) == cols \cup {c}

OneColumn(c) == {c}

\* GPIO_Write(GPIOC, ...); what was read is of no use any more.
WriteOdr(t) ==
  /\ \/ /\ place[t] = "write" /\ Goto(t, "test")
        /\ cols' = 1 .. Columns
     \/ /\ place[t] = "colWrite" /\ Goto(t, "sample")
        /\ cols' = OneColumn(col[t])
  /\ WritePort(seen[t]) /\ seen' = [seen EXCEPT ![t] = TRUE]
  /\ UNCHANGED <<down, col, joined, KeyVal>>

\* No key, or one that is still down after three ticks.
Test(t) ==
  /\ \/ place[t] = "test" /\ Goto(t, IF IDR = {} THEN "idle" ELSE "again")
     \/ place[t] = "again" /\ Goto(t, IF IDR = {} THEN "idle" ELSE "colRead")
  /\ UNCHANGED <<flash, matrix, col, seen, joined, KeyVal>>

\* The switch on the rows of this column.
Sample(t) ==
  /\ place[t] = "sample" /\ Goto(t, "release")
  /\ IF IDR = {} \/ joined THEN UNCHANGED KeyVal
     ELSE \E r \in IDR : KeyVal' = IF KeyVal = NoKey THEN <<r, col[t]>> ELSE Twice
  /\ UNCHANGED <<flash, matrix, col, seen, joined>>

\* mutant of Released: the key is not waited for
ReleasedAtOnce == TRUE

Released == IDR = {}

Release(t) ==
  /\ place[t] = "release" /\ Released
  /\ IF col[t] < Columns
     THEN Goto(t, "colRead") /\ col' = [col EXCEPT ![t] = @ + 1]
     ELSE Goto(t, "idle") /\ col' = [col EXCEPT ![t] = 1]
  /\ UNCHANGED <<flash, matrix, seen, joined, KeyVal>>

KeyScan(t) == ReadOdr(t) \/ WriteOdr(t) \/ Test(t) \/ Sample(t) \/ Release(t)

-----------------------------------------------------------------------------
(* The flash, the fingers and the power. *)

\* f_read or f_write comes to a disk function.
Call(t) ==
  /\ place[t] = "idle"
  /\ disk_write \/ disk_read
  /\ Goto(t, "disk")
  /\ UNCHANGED <<matrix, col, seen, joined, KeyVal>>

Disk(t) ==
  /\ place[t] = "disk" /\ DiskStep
  /\ IF op' = "none" THEN Goto(t, "idle") ELSE UNCHANGED place
  /\ UNCHANGED <<matrix, col, seen, joined, KeyVal>>

Chip == ChipDone /\ UNCHANGED <<matrix, threads>>

Press(k) ==
  /\ down = NoKey /\ down' = k /\ KeyVal' = NoKey
  /\ UNCHANGED <<flash, cols, place, col, seen, joined>>
LetGo == down # NoKey /\ down' = NoKey
           /\ UNCHANGED <<flash, cols, threads>>

\* The power fails and comes back: pages that were being written hold anything.
Restart ==
  /\ cs' = TRUE /\ ins' = "none" /\ adr' = 1 /\ data' = 0 /\ wel' = FALSE /\ writing' = {}
  /\ value' = "erased"
  /\ op' = "none" /\ todo' = <<>> /\ phase' = "low" /\ sent' = 0 /\ good' = FALSE
  /\ disturbed' = FALSE
  /\ cols' = {} /\ place' = [t \in Thread |-> "idle"] /\ col' = [t \in Thread |-> 1]
  /\ seen' = [t \in Thread |-> TRUE] /\ joined' = FALSE /\ KeyVal' = NoKey
  /\ UNCHANGED <<page, down>>

Next ==
  \/ \E t \in Thread : Scan(t) \/ KeyScan(t) \/ Call(t) \/ Disk(t)
  \/ Join \/ Chip \/ LetGo \/ Restart
  \/ \E k \in Key : Press(k)

Spec == Init /\ [][Next]_vars

\* Both threads are given their time slices, and the chip finishes.
Fairness == (\A t \in Thread : WF_vars(Disk(t))) /\ WF_vars(Chip)
FairSpec == Spec /\ Fairness

TypeOK ==
  /\ FlashTypeOK
  /\ cols \subseteq 1 .. Columns /\ down \in Key \cup {NoKey}
  /\ place \in [Thread -> Place] /\ col \in [Thread -> 1 .. Columns]
  /\ seen \in [Thread -> BOOLEAN] /\ joined \in BOOLEAN
  /\ KeyVal \in Key \cup {NoKey, Twice}

-----------------------------------------------------------------------------
(* Properties. *)

\* disk_write (diskio.c 163-173) returns with the sector holding the buffer, whatever was
\* there before, half written sectors included, unless a scan has raised its chip select.
WriteReaches == op = "write" /\ todo = <<>> /\ ~disturbed => \A p \in Page : page[p] = "new"

\* disk_read (diskio.c 122-129) returns what the sector holds, with the same exception.
ReadReturns == op = "read" /\ todo = <<>> /\ ~disturbed => good

\* While T_code scans alone, the key it decodes (Key.c 39-76) is the key that is down.
KeyIsTrue == [][KeyVal' \in Key \ {KeyVal} => KeyVal' = down]_vars

\* While T_code scans alone, one press is one key, however long it lasts: the scan waits for
\* its release (Key.c 47, 57, 67, 77).
DecodedOnce == KeyVal # Twice

\* A disk function ends, unless a scan has taken the chip from it.
DiskOpEnds == op # "none" ~> (op = "none" \/ disturbed)
=============================================================================
