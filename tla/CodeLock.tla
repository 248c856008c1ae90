------------------------------ MODULE CodeLock ------------------------------
(***************************************************************************)
(* Passwords and temporary codes.  T_code (codeOpen_entry, handle_sys) opens *)
(* the door for what is entered at the keypad; T_FR (FRopen_entry,         *)
(* Handle_flash, handle_FR) loads the files at the start and asks for the  *)
(* authentication password before fingerprints are enrolled or deleted;    *)
(* T_handle stores what the app sends.  All three share the FatFs volume   *)
(* and its one file object, and there is no lock.                          *)
(*                                                                         *)
(* A section is a stretch of file operations of T_code or T_FR, with the   *)
(* decision that hangs on it.  Overlap says whether sections of two        *)
(* threads may overlap, as they may in the program.  T_handle has the      *)
(* higher priority and waits for nothing while it uses the volume, so each *)
(* of its commands is one step; it may come between any two steps of the   *)
(* others.  The other two have the same priority and take turns.           *)
(*                                                                         *)
(* What is entered at a prompt is taken as a whole: every prompt clears    *)
(* the string first, and whatever key ends it, what is there is used.      *)
(***************************************************************************)
EXTENDS FatFile

CONSTANTS
  Sys0, Auth0,    \* passwords the program starts with
  Empty,          \* the empty string
  Usable,         \* passwords of 2 to 12 characters
  NoCode,         \* TPC_code points nowhere
  Zero,           \* "000000", what a used code is overwritten with
  AppCodes,       \* codes the app issues
  OldCodes,       \* codes that may be in the file at first
  SysEntry,       \* what is entered for a system password or code
  AuthEntry,      \* what is entered for an authentication password
  NewSys, NewAuth,\* new passwords
  Overlap,        \* sections of two threads may overlap
  Early,          \* the keypad is used before the volume is mounted
  Fresh           \* the volume is empty at first

ASSUME CodeLockAssumption ==
  /\ {Sys0, Auth0, Empty} \subseteq Password
  /\ Usable \subseteq Password
  /\ Zero \in Code /\ AppCodes \cup OldCodes \subseteq Code \ {Zero}
  /\ NoCode \notin Code
  /\ SysEntry \subseteq Password \cup Code /\ AuthEntry \subseteq Password
  /\ Password \cap Code = {}
  /\ NewSys \subseteq Password /\ NewAuth \subseteq Password
  /\ {Overlap, Early, Fresh} \subseteq BOOLEAN

VARIABLES
  sys_password, rData1,        \* in memory: the system password, as last read
  i,                           \* a usable system password was found at the start
  tpc_code_t, TPC_code, wData3,\* uses left, temporary code, the code as last read
  flash_password, j,           \* the authentication password, and its flag
  kpc, openinig_password,      \* T_code: counter, what was entered
  fpc, password,               \* T_FR: counter, what was entered
  spent                        \* history: codes that have opened since they were issued

memory == <<sys_password, rData1, i, tpc_code_t, TPC_code, wData3, flash_password, j>>
code   == <<kpc, openinig_password>>
finger == <<fpc, password>>
volume == <<disk, fp, mounted>>
vars   == <<volume, memory, code, finger, spent>>

\* Sections of T_code and T_FR.
KSection == {"oldOpen", "oldRead", "oldClose", "newOpen", "newWrite", "newClose",
             "sysOpen", "sysRead", "sysClose", "tmpOpen", "tmpRead", "tmpClose",
             "useOpen", "useWrite", "useClose", "decide"}
FSection == {"loadSys", "loadAuth", "loadTemp", "aOpen", "aRead", "aClose",
             "wOpen", "wWrite", "wClose"}
KFree == Overlap \/ kpc \notin KSection
FFree == Overlap \/ fpc \notin FSection

\* Memory after a reset, wData3 holding no code; T_FR looks for the fingerprint module first.
Init ==
  /\ disk \in IF Fresh THEN {[f \in File |-> NoContent]}
              ELSE {[sys |-> <<p>>, auth |-> <<q>>, temp |-> t] :
                      p \in Usable, q \in Usable, t \in {NoContent} \cup (OldCodes \X {"1"})}
  /\ fp = Closed /\ mounted = FALSE
  /\ sys_password = Sys0 /\ rData1 = Empty /\ i = 0
  /\ tpc_code_t = "nul" /\ TPC_code = NoCode /\ wData3 = Mixed
  /\ flash_password = Auth0 /\ j = 0
  /\ kpc = "main" /\ openinig_password = Empty
  /\ fpc = "boot" /\ password = Empty
  /\ spent = {}

\* Power lost and restored, between two file operations.
Restart ==
  /\ fp' = Closed /\ mounted' = FALSE
  /\ sys_password' = Sys0 /\ rData1' = Empty /\ i' = 0
  /\ tpc_code_t' = "nul" /\ TPC_code' = NoCode /\ wData3' = Mixed
  /\ flash_password' = Auth0 /\ j' = 0
  /\ kpc' = "main" /\ openinig_password' = Empty
  /\ fpc' = "boot" /\ password' = Empty
  /\ UNCHANGED <<disk, spent>>

-----------------------------------------------------------------------------
(* T_handle. *)

\* setTemporaryCode: the uses left in memory are not touched.
setTemporaryCode ==
  \E c \in AppCodes :
    /\ KFree /\ FFree
    /\ TPC_code' = c
    /\ Store("temp", <<c, "1">>)
    /\ spent' = spent \ {c}
    /\ UNCHANGED <<mounted, sys_password, rData1, i, tpc_code_t, wData3, flash_password, j,
                   code, finger>>

\* modifyPassword: the password in memory is not touched.
modifyPassword ==
  \E p \in NewSys :
    /\ KFree /\ FFree
    /\ Store("sys", <<p>>)
    /\ UNCHANGED <<mounted, memory, code, finger, spent>>

newwebhandle_entry == setTemporaryCode \/ modifyPassword

-----------------------------------------------------------------------------
(* T_code. *)

KGoto(from, to) == kpc = from /\ kpc' = to
KOnly == UNCHANGED <<mounted, finger>>  \* what no step of T_code changes

\* Key 13; a second one within fifty scans asks for a change.
Key13 ==
  /\ KGoto("main", "scan")
  /\ Early \/ fpc \notin {"boot"} \cup FSection
  /\ KOnly /\ UNCHANGED <<disk, fp, memory, openinig_password, spent>>

SecondKey13 ==
  /\ KGoto("scan", "askOld")
  /\ KOnly /\ UNCHANGED <<disk, fp, memory, openinig_password, spent>>

FiftyScans ==
  /\ KGoto("scan", "askCode")
  /\ KOnly /\ UNCHANGED <<disk, fp, memory, openinig_password, spent>>

\* Change of the system password.
EnterOld ==
  /\ KGoto("askOld", "oldOpen") /\ FFree
  /\ openinig_password' \in SysEntry
  /\ KOnly /\ UNCHANGED <<disk, fp, memory, spent>>

OldOpen ==
  /\ KGoto("oldOpen", "oldRead")
  /\ f_open("sys")
  /\ KOnly /\ UNCHANGED <<disk, memory, openinig_password, spent>>

OldRead ==
  /\ KGoto("oldRead", "oldClose")
  /\ sys_password' = AsPassword(f_read, sys_password)
  /\ KOnly /\ UNCHANGED <<disk, fp, rData1, i, tpc_code_t, TPC_code, wData3, flash_password,
                          j, openinig_password, spent>>

\* mutant of OldClose: the entry is not compared
OldCloseAny ==
  /\ KGoto("oldClose", "askNew")
  /\ f_close
  /\ KOnly /\ UNCHANGED <<memory, openinig_password, spent>>

\* A wrong entry goes back to the scan.
OldClose ==
  /\ f_close
  /\ kpc = "oldClose"
  /\ kpc' = IF openinig_password = sys_password THEN "askNew" ELSE "scan"
  /\ KOnly /\ UNCHANGED <<memory, openinig_password, spent>>

EnterNew ==
  /\ KGoto("askNew", "newOpen") /\ FFree
  /\ sys_password' \in NewSys
  /\ KOnly /\ UNCHANGED <<disk, fp, rData1, i, tpc_code_t, TPC_code, wData3, flash_password,
                          j, openinig_password, spent>>

NewOpen ==
  /\ kpc = "newOpen" /\ kpc' = IF mounted THEN "newWrite" ELSE "main"
  /\ f_open("sys")
  /\ KOnly /\ UNCHANGED <<disk, memory, openinig_password, spent>>

NewWrite ==
  /\ KGoto("newWrite", "newClose")
  /\ f_write(<<sys_password>>)
  /\ KOnly /\ UNCHANGED <<disk, memory, openinig_password, spent>>

NewClose ==
  /\ KGoto("newClose", "main")
  /\ f_close
  /\ openinig_password' = Empty
  /\ KOnly /\ UNCHANGED <<memory, spent>>

\* Opening.  Without a usable system password at the start and without a code
\* left, nothing is read and the prompt comes again.
GateOpen == i = 1 \/ tpc_code_t = "1"

EnterCode ==
  /\ kpc = "askCode" /\ kpc' = IF GateOpen THEN "sysOpen" ELSE "scan"
  /\ FFree
  /\ openinig_password' \in SysEntry
  /\ KOnly /\ UNCHANGED <<disk, fp, memory, spent>>

SysOpen ==
  /\ KGoto("sysOpen", "sysRead")
  /\ f_open("sys")
  /\ KOnly /\ UNCHANGED <<disk, memory, openinig_password, spent>>

SysRead ==
  /\ KGoto("sysRead", "sysClose")
  /\ rData1' = AsPassword(f_read, rData1)
  /\ sys_password' = rData1'
  /\ KOnly /\ UNCHANGED <<disk, fp, i, tpc_code_t, TPC_code, wData3, flash_password,
                          j, openinig_password, spent>>

SysClose ==
  /\ KGoto("sysClose", "tmpOpen")
  /\ f_close
  /\ KOnly /\ UNCHANGED <<memory, openinig_password, spent>>

TmpOpen ==
  /\ KGoto("tmpOpen", "tmpRead")
  /\ f_open("temp")
  /\ KOnly /\ UNCHANGED <<disk, memory, openinig_password, spent>>

\* The seventh byte read is the number of uses; it was cleared after the last
\* read, so it is nul when nothing is read.
TakeCode(c) ==
  /\ \/ Len(c) = 0 /\ wData3' = wData3 /\ tpc_code_t' = "nul"
     \/ Len(c) = 1 /\ wData3' = Mixed /\ tpc_code_t' \in Uses \cup {"nul"}
     \/ Len(c) = 2 /\ wData3' = c[1] /\ tpc_code_t' = c[2]
  /\ TPC_code' = wData3'

TmpRead ==
  /\ KGoto("tmpRead", "tmpClose")
  /\ TakeCode(f_read)
  /\ KOnly /\ UNCHANGED <<disk, fp, sys_password, rData1, i, flash_password,
                          j, openinig_password, spent>>

IsCode == openinig_password = TPC_code /\ tpc_code_t = "1"

\* mutant of TmpClose: a code is not invalidated
TmpCloseKeep ==
  /\ KGoto("tmpClose", "decide")
  /\ f_close
  /\ KOnly /\ UNCHANGED <<memory, openinig_password, spent>>

TmpClose ==
  /\ kpc = "tmpClose" /\ kpc' = IF IsCode THEN "useOpen" ELSE "decide"
  /\ f_close
  /\ KOnly /\ UNCHANGED <<memory, openinig_password, spent>>

\* A code that matches is overwritten with a used one, whatever comes of it.
UseOpen ==
  /\ KGoto("useOpen", "useWrite")
  /\ f_open("temp")
  /\ KOnly /\ UNCHANGED <<disk, memory, openinig_password, spent>>

UseWrite ==
  /\ KGoto("useWrite", "useClose")
  /\ f_write(<<Zero, "0">>)
  /\ KOnly /\ UNCHANGED <<disk, memory, openinig_password, spent>>

UseClose ==
  /\ KGoto("useClose", "decide")
  /\ f_close
  /\ KOnly /\ UNCHANGED <<memory, openinig_password, spent>>

Accepted == openinig_password = sys_password \/ IsCode

Decide ==
  /\ kpc = "decide" /\ kpc' = IF Accepted THEN "open" ELSE "beep"
  /\ openinig_password' = Empty
  /\ spent' = IF Accepted THEN spent \cup ({openinig_password} \cap Code) ELSE spent
  /\ KOnly /\ UNCHANGED <<disk, fp, memory>>

\* The relay, or the buzzer, for its time.
Signalled ==
  /\ kpc \in {"open", "beep"} /\ kpc' = "main"
  /\ KOnly /\ UNCHANGED <<disk, fp, memory, openinig_password, spent>>

codeOpen_entry ==
  \/ Key13 \/ SecondKey13 \/ FiftyScans
  \/ EnterOld \/ OldOpen \/ OldRead \/ OldClose \/ EnterNew \/ NewOpen \/ NewWrite \/ NewClose
  \/ EnterCode \/ SysOpen \/ SysRead \/ SysClose \/ TmpOpen \/ TmpRead \/ TmpClose
  \/ UseOpen \/ UseWrite \/ UseClose \/ Decide \/ Signalled

-----------------------------------------------------------------------------
(* T_FR. *)

FGoto(from, to) == fpc = from /\ fpc' = to
FOnly == UNCHANGED code  \* what no step of T_FR changes

\* Handle_flash, once the fingerprint module has answered: the volume is
\* mounted and each file is opened, read and closed.
Mount ==
  /\ FGoto("boot", "loadSys") /\ KFree
  /\ mounted' = TRUE
  /\ FOnly /\ UNCHANGED <<disk, fp, memory, password, spent>>

UsableContent == {<<p>> : p \in Usable}

LoadSys ==
  /\ FGoto("loadSys", "loadAuth")
  /\ fp' = Closed
  /\ IF disk["sys"] \in UsableContent
       THEN i' = 1 /\ sys_password' = disk["sys"][1]
       ELSE UNCHANGED <<i, sys_password>>
  /\ FOnly /\ UNCHANGED <<disk, mounted, rData1, tpc_code_t, TPC_code, wData3,
                          flash_password, j, password, spent>>

LoadAuth ==
  /\ FGoto("loadAuth", "loadTemp")
  /\ fp' = Closed
  /\ IF disk["auth"] \in UsableContent
       THEN j' = 1 /\ flash_password' = disk["auth"][1]
       ELSE UNCHANGED <<j, flash_password>>
  /\ FOnly /\ UNCHANGED <<disk, mounted, sys_password, rData1, i, tpc_code_t, TPC_code,
                          wData3, password, spent>>

LoadTemp ==
  /\ FGoto("loadTemp", "main")
  /\ fp' = Closed
  /\ IF disk["temp"] # NoContent THEN TakeCode(disk["temp"])
       ELSE UNCHANGED <<tpc_code_t, TPC_code, wData3>>
  /\ FOnly /\ UNCHANGED <<disk, mounted, sys_password, rData1, i, flash_password, j,
                          password, spent>>

\* Key 12 (delete) asks at once, key 11 (enrol) after fifty scans, and a second
\* key 11 asks for a change.
Key12 ==
  /\ FGoto("main", "askAuth")
  /\ FOnly /\ UNCHANGED <<volume, memory, password, spent>>

Key11 ==
  /\ FGoto("main", "scan")
  /\ FOnly /\ UNCHANGED <<volume, memory, password, spent>>

AuthFiftyScans ==
  /\ FGoto("scan", "askAuth")
  /\ FOnly /\ UNCHANGED <<volume, memory, password, spent>>

\* The file is read only if it held a usable password at the start.
EnterAuth ==
  /\ fpc = "askAuth" /\ fpc' = IF j = 1 THEN "aOpen" ELSE "test"
  /\ KFree
  /\ password' \in AuthEntry
  /\ FOnly /\ UNCHANGED <<volume, memory, spent>>

AOpen ==
  /\ FGoto("aOpen", "aRead")
  /\ f_open("auth")
  /\ FOnly /\ UNCHANGED <<disk, mounted, memory, password, spent>>

ARead ==
  /\ FGoto("aRead", "aClose")
  /\ flash_password' = AsPassword(f_read, flash_password)
  /\ FOnly /\ UNCHANGED <<volume, sys_password, rData1, i, tpc_code_t, TPC_code, wData3, j,
                          password, spent>>

AClose ==
  /\ FGoto("aClose", "test")
  /\ f_close
  /\ FOnly /\ UNCHANGED <<mounted, memory, password, spent>>

\* mutant of AuthTest: an empty entry passes
AuthTestEmpty ==
  /\ fpc = "test"
  /\ fpc' = IF password \in {flash_password, Empty} THEN "admin" ELSE "main"
  /\ FOnly /\ UNCHANGED <<volume, memory, password, spent>>

\* "admin": fingerprints are enrolled or deleted.
AuthTest ==
  /\ fpc = "test" /\ fpc' = IF password = flash_password THEN "admin" ELSE "main"
  /\ FOnly /\ UNCHANGED <<volume, memory, password, spent>>

AdminDone ==
  /\ FGoto("admin", "main")
  /\ password' = Empty
  /\ FOnly /\ UNCHANGED <<volume, memory, spent>>

\* Change of the authentication password, which is compared with the one in memory.
SecondKey11 ==
  /\ fpc = "scan"
  /\ \E p \in AuthEntry :
       /\ password' = p
       /\ fpc' = IF p = flash_password THEN "askNewAuth" ELSE "scan"
  /\ FOnly /\ UNCHANGED <<volume, memory, spent>>

EnterNewAuth ==
  /\ FGoto("askNewAuth", "wOpen") /\ KFree
  /\ flash_password' \in NewAuth
  /\ FOnly /\ UNCHANGED <<volume, sys_password, rData1, i, tpc_code_t, TPC_code, wData3, j,
                          password, spent>>

WOpen ==
  /\ FGoto("wOpen", "wWrite")
  /\ f_open("auth")
  /\ FOnly /\ UNCHANGED <<disk, mounted, memory, password, spent>>

WWrite ==
  /\ FGoto("wWrite", "wClose")
  /\ f_write(<<flash_password>>)
  /\ FOnly /\ UNCHANGED <<disk, mounted, memory, password, spent>>

WClose ==
  /\ FGoto("wClose", "main")
  /\ f_close
  /\ FOnly /\ UNCHANGED <<mounted, memory, password, spent>>

FRopen_entry ==
  \/ Mount \/ LoadSys \/ LoadAuth \/ LoadTemp
  \/ Key12 \/ Key11 \/ AuthFiftyScans \/ EnterAuth \/ AOpen \/ ARead \/ AClose
  \/ AuthTest \/ AdminDone
  \/ SecondKey11 \/ EnterNewAuth \/ WOpen \/ WWrite \/ WClose

-----------------------------------------------------------------------------
Next == newwebhandle_entry \/ codeOpen_entry \/ FRopen_entry \/ Restart

Spec == Init /\ [][Next]_vars

-----------------------------------------------------------------------------
(* Properties. *)

KPc == KSection \cup {"main", "scan", "askOld", "askNew", "askCode", "open", "beep"}
FPc == FSection \cup {"boot", "main", "scan", "askAuth", "askNewAuth", "test", "admin"}

\* Types of the memory, the file object and the files.
MemoryTypeOK ==
  /\ {sys_password, rData1, flash_password} \subseteq Password \cup {Mixed}
  /\ i \in {0, 1} /\ j \in {0, 1}
  /\ tpc_code_t \in Uses \cup {"nul"}
  /\ TPC_code \in Code \cup {NoCode, Mixed} /\ wData3 \in Code \cup {Mixed}

ThreadTypeOK ==
  /\ kpc \in KPc /\ openinig_password \in SysEntry \cup {Empty}
  /\ fpc \in FPc /\ password \in AuthEntry \cup {Empty}

TypeOK == FileTypeOK /\ MemoryTypeOK /\ ThreadTypeOK /\ spent \subseteq Code

\* A temporary code opens the door once and is then of no use, restarts
\* included (README 31 and 42, Handle_code.c 246-261).
CodeOpensOnce ==
  [][kpc = "decide" /\ kpc' = "open" => openinig_password \notin spent]_vars

\* The door opens only for the stored system password or a code still to be
\* used, which is used up by it, and the stored password changes only at the
\* app's order or after it has been entered.
SysInForce == AsPassword(disk["sys"], Sys0)
CodeInForce ==
  IF disk["temp"] \in Code \X {"1"} THEN disk["temp"][1] ELSE NoCode

Grant ==
  IF \/ kpc \in {"sysClose", "tmpOpen", "tmpRead", "tmpClose", "decide"}
        /\ openinig_password = sys_password
     \/ kpc = "decide" /\ IsCode
  THEN "open"
  ELSE IF \/ kpc = "oldClose" /\ openinig_password = sys_password
          \/ kpc \in {"askNew", "newOpen", "newWrite", "newClose"}
  THEN "change" ELSE "none"

Keypad ==
  INSTANCE CodeAuth WITH Entry <- Password \cup Code, sysPw <- SysInForce,
    tempCode <- CodeInForce, entered <- openinig_password, grant <- Grant
ImplementsCodeAuth == Keypad!Spec

\* Fingerprints are enrolled or deleted only after the stored authentication
\* password has been entered.
AuthInForce == AsPassword(disk["auth"], Auth0)
AdminAuthorised == [][fpc = "test" /\ fpc' = "admin" => password = AuthInForce]_vars

\* A system password changed at the keypad is what the file holds afterwards.
ChangeIsStored ==
  [][kpc = "newClose" /\ kpc' = "main" /\ mounted' => disk'["sys"] = <<sys_password>>]_vars

\* Who enters a password or code in force gets the lock to compare it
\* (Handle_code.c 138, Handle_flash.c 63).
CodeIsTried ==
  [][kpc = "askCode" /\ kpc' = "scan" =>
       openinig_password' \notin {SysInForce, CodeInForce}]_vars
=============================================================================
