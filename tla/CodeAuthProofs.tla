---------------------------- MODULE CodeAuthProofs ----------------------------
(***************************************************************************)
(* More of CodeLock, proved for every set of passwords and codes: who      *)
(* holds the file object, that what is changed at the keypad is stored,    *)
(* that administration needs the stored authentication password, and that  *)
(* the keypad implements CodeAuth.                                         *)
(***************************************************************************)
EXTENDS CodeLockProofs

-----------------------------------------------------------------------------
(* The file object is its section's. *)

\* The points between the opening of a file and its closing.
HasSys  == kpc \in {"oldRead", "oldClose", "newWrite", "newClose", "sysRead", "sysClose"}
HasTemp == kpc \in {"tmpRead", "tmpClose", "useWrite", "useClose"}
HasAuth == fpc \in {"aRead", "aClose", "wWrite", "wClose"}

\* The file object refers to the file its section has opened, and to none
\* outside the sections.
ObjectHeld ==
  /\ fpc # "boot" => mounted
  /\ fp.file = "sys" => HasSys
  /\ fp.file = "temp" => HasTemp
  /\ fp.file = "auth" => HasAuth
  /\ mounted => /\ HasSys => fp.file = "sys"
                /\ HasTemp => fp.file = "temp"
                /\ HasAuth => fp.file = "auth"

\* What it buffers is the file's content, or what the section has written.
BufferHeld ==
  /\ fp.file # "none" /\ ~fp.dirty => fp.buf = disk[fp.file]
  /\ fp.dirty => kpc \in {"newClose", "useClose"} \/ fpc = "wClose"
  /\ kpc \in {"newWrite", "newClose"} => mounted
  /\ kpc = "newClose" => fp.dirty /\ fp.buf = <<sys_password>>
  /\ kpc = "useClose" /\ mounted => fp.dirty /\ fp.buf = Over(disk["temp"], <<Zero, "0">>)
  /\ fpc = "wClose" => fp.dirty /\ fp.buf = <<flash_password>>

HeldInv == TypeOK /\ Exclusive /\ ObjectHeld /\ BufferHeld

\* What each operation does to the file object.
LEMMA OpenHeld ==
  ASSUME TypeOK, NEW f \in File, f_open(f)
  PROVE  /\ ~fp'.dirty
         /\ mounted => fp'.file = f /\ fp'.buf = disk[f]
         /\ ~mounted => fp'.file = "none"
  BY DEF f_open, Closed

LEMMA WriteHeld ==
  ASSUME TypeOK, NEW c, f_write(c)
  PROVE  /\ fp'.file = fp.file
         /\ fp.file = "none" => ~fp'.dirty
         /\ fp.file # "none" => fp'.dirty /\ fp'.buf = Over(fp.buf, c)
<1>1. fp \in FileObject /\ (fp.file = "none" => ~fp.dirty)
  BY DEF TypeOK, FileTypeOK, File, FileObject
<1> QED BY <1>1 DEF f_write, FileObject

LEMMA CloseHeld ==
  ASSUME TypeOK, f_close
  PROVE  /\ fp'.file = "none" /\ ~fp'.dirty
         /\ ~fp.dirty => disk' = disk
         /\ fp.dirty => disk' = [disk EXCEPT ![fp.file] = fp.buf]
  BY DEF TypeOK, FileTypeOK, File, f_close, Closed

\* Outside the file's points an object that refers to no file is as it should be.
LEMMA NoneHeld ==
  ASSUME (fpc # "boot" => mounted)', fp'.file = "none", ~fp'.dirty,
         ~HasSys', ~HasTemp', ~HasAuth'
  PROVE  ObjectHeld' /\ BufferHeld'
  BY DEF ObjectHeld, BufferHeld, HasSys, HasTemp, HasAuth

\* While T_FR is in a section, the other threads leave files and memory alone.
LEMMA UndisturbedF ==
  ASSUME ~Overlap, Exclusive, fpc \in FSection, newwebhandle_entry \/ codeOpen_entry
  PROVE  UNCHANGED <<volume, memory, finger, spent>>
<1>1. ~FFree /\ kpc \notin KSection
  BY DEF FFree, Exclusive
<1>2. ~newwebhandle_entry
  BY <1>1 DEF newwebhandle_entry, setTemporaryCode, modifyPassword
<1>3. Key13 \/ SecondKey13 \/ FiftyScans \/ Signalled
  BY <1>1, <1>2
  DEF codeOpen_entry, Key13, SecondKey13, FiftyScans, EnterOld, OldOpen, OldRead, OldClose,
        EnterNew, NewOpen, NewWrite, NewClose, EnterCode, SysOpen, SysRead, SysClose, TmpOpen,
        TmpRead, TmpClose, UseOpen, UseWrite, UseClose, Decide, Signalled, KGoto, KSection
<1> QED
  BY <1>3 DEF Key13, SecondKey13, FiftyScans, Signalled, KOnly, volume

\* A step that changes neither the volume nor the passwords in memory, and moves
\* no thread inside a section, or into one, keeps the object where it is.
LEMMA HeldStutter ==
  ASSUME HeldInv, UNCHANGED <<volume, sys_password, flash_password>>,
         kpc' = kpc \/ (kpc \notin KSection /\ kpc' \notin KSection),
         fpc' = fpc \/ (fpc \notin FSection /\ fpc' \notin FSection),
         (fpc # "boot" => mounted)'
  PROVE  ObjectHeld' /\ BufferHeld'
  BY DEF HeldInv, ObjectHeld, BufferHeld, HasSys, HasTemp, HasAuth, KSection, FSection, volume

\* T_code's steps.
LEMMA HeldStepK ==
  ASSUME HeldInv, fpc \notin FSection, codeOpen_entry
  PROVE  ObjectHeld' /\ BufferHeld'
<1> USE DEF HeldInv
<1>1. UNCHANGED <<mounted, fpc, flash_password>> /\ ~HasAuth /\ ~HasAuth' /\ fpc # "wClose"
  BY DEF codeOpen_entry, Key13, SecondKey13, FiftyScans, EnterOld, OldOpen, OldRead, OldClose,
        EnterNew, NewOpen, NewWrite, NewClose, EnterCode, SysOpen, SysRead, SysClose, TmpOpen,
        TmpRead, TmpClose, UseOpen, UseWrite, UseClose, Decide, Signalled, KOnly, finger, memory,
        HasAuth, FSection
<1>2. (fpc # "boot" => mounted)'
  BY <1>1 DEF ObjectHeld
<1>3. fp.file # "auth"
  BY <1>1 DEF ObjectHeld
<1>4. CASE Key13 \/ SecondKey13 \/ FiftyScans \/ EnterOld \/ EnterNew \/ EnterCode
           \/ Decide \/ Signalled
  <2>1. UNCHANGED <<disk, fp>> /\ ~HasSys /\ ~HasTemp /\ ~HasSys' /\ ~HasTemp'
    BY <1>4 DEF Key13, SecondKey13, FiftyScans, EnterOld, EnterNew, EnterCode, Decide,
                Signalled, KGoto, HasSys, HasTemp
  <2>2. fp.file = "none" /\ ~fp.dirty
    BY <1>1, <2>1 DEF ObjectHeld, TypeOK, FileTypeOK, FileObject, File
  <2> QED BY <1>1, <1>2, <2>1, <2>2, NoneHeld
<1>5. CASE OldOpen \/ SysOpen
  <2>1. f_open("sys") /\ UNCHANGED disk /\ kpc' \in {"oldRead", "sysRead"}
    BY <1>5 DEF OldOpen, SysOpen, KGoto
  <2> QED BY <1>1, <1>2, <2>1, OpenHeld
          DEF ObjectHeld, BufferHeld, HasSys, HasTemp, HasAuth, File, TypeOK, FileTypeOK
<1>6. CASE NewOpen
  <2>1. f_open("sys") /\ UNCHANGED disk /\ kpc' = IF mounted THEN "newWrite" ELSE "main"
    BY <1>6 DEF NewOpen
  <2> QED BY <1>1, <1>2, <2>1, OpenHeld
          DEF ObjectHeld, BufferHeld, HasSys, HasTemp, HasAuth, File, TypeOK, FileTypeOK
<1>7. CASE TmpOpen \/ UseOpen
  <2>1. f_open("temp") /\ UNCHANGED disk /\ kpc' \in {"tmpRead", "useWrite"}
    BY <1>7 DEF TmpOpen, UseOpen, KGoto
  <2> QED BY <1>1, <1>2, <2>1, OpenHeld
          DEF ObjectHeld, BufferHeld, HasSys, HasTemp, HasAuth, File, TypeOK, FileTypeOK
<1>8. CASE OldRead \/ SysRead \/ TmpRead
  <2>1. /\ UNCHANGED <<disk, fp>>
        /\ \/ kpc = "oldRead" /\ kpc' = "oldClose"
           \/ kpc = "sysRead" /\ kpc' = "sysClose"
           \/ kpc = "tmpRead" /\ kpc' = "tmpClose"
    BY <1>8 DEF OldRead, SysRead, TmpRead, KGoto
  <2>2. ~fp.dirty
    BY <1>1, <2>1 DEF BufferHeld
  <2>3. ObjectHeld'
    BY <1>1, <2>1 DEF ObjectHeld, HasSys, HasTemp, HasAuth
  <2>4. BufferHeld'
    BY <1>1, <2>1, <2>2 DEF BufferHeld
  <2> QED BY <2>3, <2>4
<1>9. CASE NewWrite
  <2>1. /\ f_write(<<sys_password>>) /\ UNCHANGED <<disk, sys_password>>
        /\ kpc = "newWrite" /\ kpc' = "newClose"
    BY <1>9 DEF NewWrite, KGoto, memory
  <2>2. fp.file = "sys" /\ mounted
    BY <2>1 DEF ObjectHeld, BufferHeld, HasSys
  <2>3. Over(fp.buf, <<sys_password>>) = <<sys_password>>
    BY DEF Over
  <2>4. fp'.file = "sys" /\ fp'.dirty /\ fp'.buf = <<sys_password>>
    BY <2>1, <2>2, <2>3, WriteHeld
  <2> QED BY <1>1, <2>1, <2>2, <2>4 DEF ObjectHeld, BufferHeld, HasSys, HasTemp, HasAuth
<1>10. CASE UseWrite
  <2>1. /\ f_write(<<Zero, "0">>) /\ UNCHANGED disk
        /\ kpc = "useWrite" /\ kpc' = "useClose"
    BY <1>10 DEF UseWrite, KGoto
  <2>2. fp'.file = fp.file /\ ~fp.dirty
    BY <1>1, <2>1, WriteHeld DEF BufferHeld
  <2>3. mounted => fp.file = "temp" /\ fp.buf = disk["temp"]
    BY <2>1, <2>2 DEF ObjectHeld, BufferHeld, HasTemp
  <2>4. mounted => fp'.dirty /\ fp'.buf = Over(disk["temp"], <<Zero, "0">>)
    BY <2>1, <2>3, WriteHeld
  <2>5. fp.file \in {"none", "temp"}
    BY <1>1, <2>1 DEF ObjectHeld, HasSys, TypeOK, FileTypeOK, FileObject, File
  <2>6. fp.file = "none" => ~fp'.dirty
    BY <2>1, WriteHeld
  <2>7. fp.file # "none" => fp'.dirty
    BY <2>1, WriteHeld
  <2>8. ObjectHeld'
    BY <1>1, <2>1, <2>2, <2>3, <2>5 DEF ObjectHeld, HasSys, HasTemp, HasAuth
  <2>9. BufferHeld'
    BY <1>1, <2>1, <2>2, <2>4, <2>6, <2>7 DEF BufferHeld
  <2> QED BY <2>8, <2>9
<1>11. CASE OldClose \/ NewClose \/ SysClose \/ TmpClose \/ UseClose
  <2>1. f_close /\ ~HasSys' /\ ~HasTemp'
    BY <1>11 DEF OldClose, NewClose, SysClose, TmpClose, UseClose, KGoto, HasSys, HasTemp
  <2> QED BY <1>1, <1>2, <2>1, CloseHeld, NoneHeld
<1> QED BY <1>4, <1>5, <1>6, <1>7, <1>8, <1>9, <1>10, <1>11 DEF codeOpen_entry

\* T_FR's steps.
LEMMA HeldStepF ==
  ASSUME HeldInv, kpc \notin KSection, FRopen_entry
  PROVE  ObjectHeld' /\ BufferHeld'
<1> USE DEF HeldInv
<1>1. kpc' = kpc /\ ~HasSys' /\ ~HasTemp' /\ fp.file \notin {"sys", "temp"}
  BY DEF FRopen_entry, Mount, LoadSys, LoadAuth, LoadTemp, Key12, Key11, AuthFiftyScans,
        EnterAuth, AOpen, ARead, AClose, AuthTest, AdminDone, SecondKey11, EnterNewAuth,
        WOpen, WWrite, WClose, FOnly, code, KSection, HasSys, HasTemp, ObjectHeld
<1>2. kpc' \notin {"newWrite", "newClose", "useClose"}
  BY <1>1 DEF KSection
<1>3. (fpc # "boot" => mounted)' /\ (fpc # "boot" => mounted' = mounted)
  BY DEF FRopen_entry, Mount, LoadSys, LoadAuth, LoadTemp, Key12, Key11, AuthFiftyScans,
        EnterAuth, AOpen, ARead, AClose, AuthTest, AdminDone, SecondKey11, EnterNewAuth,
        WOpen, WWrite, WClose, FGoto, volume, ObjectHeld
<1>4. CASE Mount \/ LoadSys \/ LoadAuth \/ LoadTemp \/ Key12 \/ Key11 \/ AuthFiftyScans
           \/ EnterAuth \/ AuthTest \/ AdminDone \/ SecondKey11 \/ EnterNewAuth
  <2>1. fp' \in {fp, Closed} /\ ~HasAuth /\ ~HasAuth'
    BY <1>4 DEF Mount, LoadSys, LoadAuth, LoadTemp, Key12, Key11, AuthFiftyScans, EnterAuth,
                AuthTest, AdminDone, SecondKey11, EnterNewAuth, FGoto, volume, HasAuth
  <2>2. fp.file = "none" /\ ~fp.dirty
    BY <1>1, <2>1 DEF ObjectHeld, TypeOK, FileTypeOK, FileObject, File
  <2>3. fp'.file = "none" /\ ~fp'.dirty
    BY <2>1, <2>2 DEF Closed
  <2> QED BY <1>1, <1>3, <2>1, <2>3, NoneHeld
<1>5. CASE AOpen \/ WOpen
  <2>1. f_open("auth") /\ UNCHANGED disk /\ fpc # "boot" /\ fpc' \in {"aRead", "wWrite"}
    BY <1>5 DEF AOpen, WOpen, FGoto
  <2>2. mounted /\ mounted'
    BY <1>3, <2>1 DEF ObjectHeld
  <2> QED BY <1>1, <1>2, <2>1, <2>2, OpenHeld DEF ObjectHeld, BufferHeld, HasAuth, File
<1>6. CASE ARead
  <2>1. UNCHANGED volume /\ fpc = "aRead" /\ fpc' = "aClose"
    BY <1>6 DEF ARead, FGoto
  <2>2. ~fp.dirty
    BY <1>1, <1>2, <2>1 DEF BufferHeld
  <2> QED BY <1>1, <1>2, <1>3, <2>1, <2>2 DEF ObjectHeld, BufferHeld, HasAuth, volume
<1>7. CASE WWrite
  <2>1. /\ f_write(<<flash_password>>) /\ UNCHANGED <<disk, flash_password>>
        /\ fpc = "wWrite" /\ fpc' = "wClose"
    BY <1>7 DEF WWrite, FGoto, memory
  <2>2. fp.file = "auth"
    BY <2>1 DEF ObjectHeld, HasAuth
  <2>3. Over(fp.buf, <<flash_password>>) = <<flash_password>>
    BY DEF Over
  <2>4. fp'.file = "auth" /\ fp'.dirty /\ fp'.buf = <<flash_password>>
    BY <2>1, <2>2, <2>3, WriteHeld
  <2> QED BY <1>1, <1>2, <1>3, <2>1, <2>4 DEF ObjectHeld, BufferHeld, HasAuth
<1>8. CASE AClose \/ WClose
  <2>1. f_close /\ ~HasAuth'
    BY <1>8 DEF AClose, WClose, FGoto, HasAuth
  <2> QED BY <1>1, <1>3, <2>1, CloseHeld, NoneHeld
<1> QED BY <1>4, <1>5, <1>6, <1>7, <1>8 DEF FRopen_entry

\* No step takes the object from its section.
LEMMA HeldStep ==
  ASSUME ~Overlap, HeldInv, [Next]_vars
  PROVE  ObjectHeld' /\ BufferHeld'
<1> USE DEF HeldInv
<1>1. Exclusive'
  BY ExclusiveStep
<1>2. CASE newwebhandle_entry
  <2>1. fp' = Closed /\ UNCHANGED <<kpc, fpc, mounted>> /\ kpc \notin KSection /\ fpc \notin FSection
    BY <1>2 DEF newwebhandle_entry, setTemporaryCode, modifyPassword, Store, KFree, FFree,
                code, finger
  <2>2. ~HasSys' /\ ~HasTemp' /\ ~HasAuth'
    BY <2>1 DEF HasSys, HasTemp, HasAuth, KSection, FSection
  <2> QED BY <2>1, <2>2, NoneHeld DEF Closed, ObjectHeld
<1>3. CASE codeOpen_entry
  <2>1. CASE fpc \in FSection
    <3>1. UNCHANGED <<volume, memory, finger>> /\ kpc \notin KSection
      BY <1>3, <2>1, UndisturbedF DEF Exclusive
    <3>2. kpc' \notin KSection
      BY <1>1, <2>1, <3>1 DEF Exclusive, finger
    <3>3. (fpc # "boot" => mounted)'
      BY <3>1 DEF volume, finger, ObjectHeld
    <3> QED BY <3>1, <3>2, <3>3, HeldStutter DEF memory, finger
  <2>2. CASE fpc \notin FSection
    BY <1>3, <2>2, HeldStepK
  <2> QED BY <2>1, <2>2
<1>4. CASE FRopen_entry
  <2>1. CASE kpc \in KSection
    <3>1. UNCHANGED <<volume, memory, code>> /\ fpc \notin FSection
      BY <1>4, <2>1, Undisturbed DEF Exclusive
    <3>2. fpc' \notin FSection
      BY <1>1, <2>1, <3>1 DEF Exclusive, code
    <3>3. fpc = "boot" => fpc' = "boot"
      BY <1>4, <2>1, <3>1, <3>2
      DEF FRopen_entry, Mount, LoadSys, LoadAuth, LoadTemp, Key12, Key11, AuthFiftyScans,
        EnterAuth, AOpen, ARead, AClose, AuthTest, AdminDone, SecondKey11, EnterNewAuth,
        WOpen, WWrite, WClose, FGoto, FSection
    <3>4. (fpc # "boot" => mounted)'
      BY <3>1, <3>3 DEF volume, ObjectHeld
    <3> QED BY <3>1, <3>2, <3>4, HeldStutter DEF memory, code
  <2>2. CASE kpc \notin KSection
    BY <1>4, <2>2, HeldStepF
  <2> QED BY <2>1, <2>2
<1>5. CASE Restart
  <2>1. fp' = Closed /\ kpc' = "main" /\ fpc' = "boot"
    BY <1>5 DEF Restart
  <2> QED BY <2>1, NoneHeld DEF Closed, HasSys, HasTemp, HasAuth
<1>6. CASE UNCHANGED vars
  BY <1>6, HeldStutter DEF vars, volume, memory, code, finger, ObjectHeld
<1> QED BY <1>2, <1>3, <1>4, <1>5, <1>6 DEF Next

\* At first nothing is open and nothing is going on.
LEMMA InitHeld == Init => HeldInv
<1> SUFFICES ASSUME Init PROVE HeldInv
  OBVIOUS
<1>1. TypeOK
  BY InitType
<1>2. Exclusive
  BY DEF Init, Exclusive, KSection
<1>3. ObjectHeld /\ BufferHeld
  BY DEF Init, ObjectHeld, BufferHeld, HasSys, HasTemp, HasAuth, Closed
<1> QED BY <1>1, <1>2, <1>3 DEF HeldInv

\* While sections do not overlap, the file object belongs to the section that has
\* opened a file, and buffers that file's content or what was written to it
\* (Handle_flash.c's fp, shared by all threads).
THEOREM ObjectIsHeld ==
  ASSUME ~Overlap
  PROVE  Spec => []HeldInv
<1>1. Init => HeldInv
  BY InitHeld
<1>2. HeldInv /\ TypeOK' /\ [Next]_vars => HeldInv'
  BY HeldStep, ExclusiveStep DEF HeldInv
<1> QED BY <1>1, <1>2, TypeCorrect, PTL DEF Spec

\* What is changed at the keypad is what the file holds: the object T_code closes
\* is the system password's, and holds what was entered (Handle_code.c 183-198).
THEOREM ChangeStored ==
  ASSUME ~Overlap
  PROVE  Spec => ChangeIsStored
<1>1. ASSUME HeldInv, [Next]_vars
      PROVE  [kpc = "newClose" /\ kpc' = "main" /\ mounted'
                => disk'["sys"] = <<sys_password>>]_vars
  <2>1. SUFFICES ASSUME kpc = "newClose", kpc' = "main", mounted'
                 PROVE  disk'["sys"] = <<sys_password>>
    OBVIOUS
  <2>2. fp.file = "sys" /\ fp.dirty /\ fp.buf = <<sys_password>>
    BY <1>1, <2>1 DEF HeldInv, ObjectHeld, BufferHeld, HasSys
  <2>3. f_close
    <3>1. ~Restart
      BY <2>1 DEF Restart
    <3>2. kpc' # kpc
      BY <2>1
    <3>3. ~newwebhandle_entry /\ ~FRopen_entry /\ vars' # vars
      BY <3>2 DEF newwebhandle_entry, setTemporaryCode, modifyPassword, FRopen_entry, Mount,
        LoadSys, LoadAuth, LoadTemp, Key12, Key11, AuthFiftyScans, EnterAuth, AOpen, ARead,
        AClose, AuthTest, AdminDone, SecondKey11, EnterNewAuth, WOpen, WWrite, WClose, FOnly,
        code, vars
    <3>4. NewClose
      BY <1>1, <2>1, <3>1, <3>3
      DEF Next, codeOpen_entry, Key13, SecondKey13, FiftyScans, EnterOld, OldOpen, OldRead,
        OldClose, EnterNew, NewOpen, NewWrite, NewClose, EnterCode, SysOpen, SysRead, SysClose,
        TmpOpen, TmpRead, TmpClose, UseOpen, UseWrite, UseClose, Decide, Signalled, KGoto
    <3> QED BY <3>4 DEF NewClose
  <2>4. disk' = [disk EXCEPT !["sys"] = fp.buf] /\ disk \in [File -> Content]
    BY <1>1, <2>2, <2>3, CloseHeld DEF HeldInv, TypeOK, FileTypeOK
  <2> QED BY <2>2, <2>4 DEF File
<1> QED BY <1>1, ObjectIsHeld, PTL DEF ChangeIsStored, Spec

-----------------------------------------------------------------------------
(* Administration. *)

\* The authentication password's file is empty or holds a usable password, and
\* the memory agrees with it except before it is read and while it is changed.
AuthKept ==
  /\ disk["auth"] \in {NoContent} \cup UsableContent
  /\ fpc \in {"boot", "loadSys", "loadAuth"} => flash_password = Auth0
  /\ fpc \in {"wOpen", "wWrite", "wClose"} => flash_password \in Usable
  /\ fpc \notin {"boot", "loadSys", "loadAuth", "wOpen", "wWrite", "wClose"}
       => flash_password = AuthInForce

\* A step that changes neither the file nor the memory nor T_FR's place.
LEMMA AuthStutter ==
  ASSUME AuthKept, UNCHANGED <<fpc, flash_password>>, disk'["auth"] = disk["auth"]
  PROVE  AuthKept'
  BY DEF AuthKept, AuthInForce

\* What the file yields when it is read as a password.
LEMMA UsableRead ==
  /\ AsPassword(NoContent, Auth0) = Auth0
  /\ \A c \in UsableContent : AsPassword(c, Auth0) = c[1] /\ c[1] \in Usable /\ c # NoContent
  /\ \A p \in Usable : <<p>> \in UsableContent /\ AsPassword(<<p>>, Auth0) = p
  BY DEF AsPassword, NoContent, UsableContent

\* T_handle and T_code leave the authentication password's file alone.
LEMMA OthersAuth ==
  ASSUME ~Overlap, HeldInv, newwebhandle_entry \/ codeOpen_entry
  PROVE  disk'["auth"] = disk["auth"] /\ UNCHANGED <<fpc, flash_password>>
<1>1. UNCHANGED <<fpc, flash_password>>
  BY DEF newwebhandle_entry, setTemporaryCode, modifyPassword,
        codeOpen_entry, Key13, SecondKey13, FiftyScans, EnterOld, OldOpen, OldRead, OldClose,
        EnterNew, NewOpen, NewWrite, NewClose, EnterCode, SysOpen, SysRead, SysClose, TmpOpen,
        TmpRead, TmpClose, UseOpen, UseWrite, UseClose, Decide, Signalled, KOnly, finger, memory
<1>2. disk \in [File -> Content]
  BY DEF HeldInv, TypeOK, FileTypeOK
<1>3. CASE newwebhandle_entry
  <2>1. \E f \in {"sys", "temp"} : \E c : Store(f, c)
    BY <1>3 DEF newwebhandle_entry, setTemporaryCode, modifyPassword
  <2> QED BY <1>1, <1>2, <2>1 DEF Store, File
<1>4. CASE codeOpen_entry
  <2>1. CASE fpc \in FSection
    BY <1>1, <1>4, <2>1, UndisturbedF DEF HeldInv, volume
  <2>2. CASE fpc \notin FSection
    <3>1. disk' = disk \/ f_close
      BY <1>4
      DEF codeOpen_entry, Key13, SecondKey13, FiftyScans, EnterOld, OldOpen, OldRead, OldClose,
        EnterNew, NewOpen, NewWrite, NewClose, EnterCode, SysOpen, SysRead, SysClose, TmpOpen,
        TmpRead, TmpClose, UseOpen, UseWrite, UseClose, Decide, Signalled
    <3>2. fp.file # "auth"
      BY <2>2 DEF HeldInv, ObjectHeld, HasAuth, FSection
    <3> QED BY <1>1, <1>2, <3>1, <3>2, CloseHeld DEF HeldInv, File
  <2> QED BY <2>1, <2>2
<1> QED BY <1>3, <1>4

\* T_FR keeps memory and file in step.
LEMMA AuthStepF ==
  ASSUME ~Overlap, NewAuth \subseteq Usable, HeldInv, AuthKept, FRopen_entry
  PROVE  AuthKept'
<1> USE DEF HeldInv
<1>1. CASE LoadAuth
  <2>1. UNCHANGED disk /\ fpc = "loadAuth" /\ fpc' = "loadTemp"
    BY <1>1 DEF LoadAuth, FGoto
  <2>2. flash_password' = IF disk["auth"] \in UsableContent THEN disk["auth"][1] ELSE flash_password
    BY <1>1 DEF LoadAuth
  <2>3. flash_password = Auth0
    BY <2>1 DEF AuthKept
  <2> QED BY <2>1, <2>2, <2>3, UsableRead DEF AuthKept, AuthInForce
<1>2. CASE ARead
  <2>1. UNCHANGED disk /\ fpc = "aRead" /\ fpc' = "aClose"
    BY <1>2 DEF ARead, FGoto, volume
  <2>2. kpc \notin KSection
    BY <2>1 DEF Exclusive, FSection
  <2>3. fp.file = "auth" /\ fp.buf = disk["auth"]
    BY <2>1, <2>2 DEF ObjectHeld, BufferHeld, HasAuth, KSection
  <2>4. flash_password' = AsPassword(disk["auth"], flash_password)
    BY <1>2, <2>3 DEF ARead, f_read
  <2>5. flash_password = AuthInForce
    BY <2>1 DEF AuthKept
  <2>6. flash_password' = AuthInForce
    BY <2>4, <2>5, UsableRead DEF AuthKept, AuthInForce, AsPassword, NoContent, UsableContent
  <2> QED BY <2>1, <2>6 DEF AuthKept, AuthInForce
<1>3. CASE EnterNewAuth
  BY <1>3 DEF EnterNewAuth, FGoto, AuthKept, AuthInForce, volume
<1>4. CASE AClose
  <2>1. f_close /\ fpc = "aClose" /\ fpc' = "test" /\ UNCHANGED flash_password
    BY <1>4 DEF AClose, FGoto, memory
  <2>2. ~fp.dirty
    BY <2>1 DEF BufferHeld, Exclusive, FSection, KSection
  <2>3. UNCHANGED disk
    BY <2>1, <2>2, CloseHeld
  <2> QED BY <2>1, <2>3 DEF AuthKept, AuthInForce
<1>5. CASE WClose
  <2>1. f_close /\ fpc = "wClose" /\ fpc' = "main" /\ UNCHANGED flash_password
    BY <1>5 DEF WClose, FGoto, memory
  <2>2. fp.dirty /\ fp.buf = <<flash_password>> /\ fp.file = "auth"
    BY <2>1 DEF BufferHeld, ObjectHeld, HasAuth
  <2>3. disk'["auth"] = <<flash_password>>
    BY <2>1, <2>2, CloseHeld DEF TypeOK, FileTypeOK, File
  <2>4. flash_password \in Usable
    BY <2>1 DEF AuthKept
  <2> QED BY <2>1, <2>3, <2>4, UsableRead DEF AuthKept, AuthInForce
<1>6. CASE ~(LoadAuth \/ ARead \/ EnterNewAuth \/ AClose \/ WClose)
  <2>1. UNCHANGED <<disk, flash_password>>
    BY <1>6
    DEF FRopen_entry, Mount, LoadSys, LoadTemp, Key12, Key11, AuthFiftyScans, EnterAuth, AOpen,
        AuthTest, AdminDone, SecondKey11, WOpen, WWrite, memory, volume
  <2>2. \/ fpc \in {"boot", "loadSys"} /\ fpc' \in {"loadSys", "loadAuth"}
        \/ fpc \in {"wOpen", "wWrite"} /\ fpc' \in {"wWrite", "wClose"}
        \/ /\ fpc \notin {"boot", "loadSys", "loadAuth", "wOpen", "wWrite", "wClose"}
           /\ fpc' \notin {"boot", "loadSys", "loadAuth", "wOpen", "wWrite", "wClose"}
    BY <1>6
    DEF FRopen_entry, Mount, LoadSys, LoadTemp, Key12, Key11, AuthFiftyScans, EnterAuth, AOpen,
        AuthTest, AdminDone, SecondKey11, WOpen, WWrite, FGoto
  <2> QED BY <2>1, <2>2 DEF AuthKept, AuthInForce
<1> QED BY <1>1, <1>2, <1>3, <1>4, <1>5, <1>6

\* The invariant behind the next theorem: if a new authentication password has
\* 2 to 12 characters, so that Handle_flash takes it up after a restart, memory
\* and file agree whenever T_FR is not changing them.
THEOREM AuthInvariant ==
  ASSUME ~Overlap, NewAuth \subseteq Usable
  PROVE  Spec => []AuthKept
<1>1. Init => AuthKept
  <2> SUFFICES ASSUME Init PROVE AuthKept
    OBVIOUS
  <2>1. disk["auth"] \in {NoContent} \cup UsableContent
    BY DEF Init, File, UsableContent
  <2> QED BY <2>1 DEF Init, AuthKept
<1>2. HeldInv /\ AuthKept /\ [Next]_vars => AuthKept'
  <2> SUFFICES ASSUME HeldInv, AuthKept, [Next]_vars PROVE AuthKept'
    OBVIOUS
  <2>1. CASE newwebhandle_entry \/ codeOpen_entry
    BY <2>1, OthersAuth, AuthStutter
  <2>2. CASE FRopen_entry
    BY <2>2, AuthStepF
  <2>3. CASE Restart
    BY <2>3 DEF Restart, AuthKept
  <2>4. CASE UNCHANGED vars
    BY <2>4, AuthStutter DEF vars, volume, memory, finger
  <2> QED BY <2>1, <2>2, <2>3, <2>4 DEF Next
<1> QED BY <1>1, <1>2, ObjectIsHeld, PTL DEF Spec

\* Fingerprints are enrolled or deleted only after the stored authentication
\* password has been entered, restarts and changes of it included, if every new
\* one has 2 to 12 characters (Handle_code.c 101-131, Handle_flash.c 80-100).
THEOREM AdminNeedsPassword ==
  ASSUME ~Overlap, NewAuth \subseteq Usable
  PROVE  Spec => AdminAuthorised
<1>1. ASSUME AuthKept, [Next]_vars
      PROVE  [fpc = "test" /\ fpc' = "admin" => password = AuthInForce]_vars
  <2>1. SUFFICES ASSUME fpc = "test", fpc' = "admin" PROVE password = AuthInForce
    OBVIOUS
  <2>2. CASE FRopen_entry
    <3>1. AuthTest
      BY <2>1, <2>2
      DEF FRopen_entry, Mount, LoadSys, LoadAuth, LoadTemp, Key12, Key11, AuthFiftyScans,
        EnterAuth, AOpen, ARead, AClose, AuthTest, AdminDone, SecondKey11, EnterNewAuth,
        WOpen, WWrite, WClose, FGoto
    <3> QED BY <1>1, <2>1, <3>1 DEF AuthTest, AuthKept
  <2>3. CASE newwebhandle_entry \/ codeOpen_entry
    BY <2>1, <2>3
    DEF newwebhandle_entry, setTemporaryCode, modifyPassword, codeOpen_entry, Key13,
        SecondKey13, FiftyScans, EnterOld, OldOpen, OldRead, OldClose, EnterNew, NewOpen,
        NewWrite, NewClose, EnterCode, SysOpen, SysRead, SysClose, TmpOpen, TmpRead, TmpClose,
        UseOpen, UseWrite, UseClose, Decide, Signalled, KOnly, finger
  <2>4. CASE Restart \/ UNCHANGED vars
    BY <2>1, <2>4 DEF Restart, vars, finger
  <2> QED BY <1>1, <2>2, <2>3, <2>4 DEF Next
<1> QED BY <1>1, AuthInvariant, PTL DEF AdminAuthorised, Spec

-----------------------------------------------------------------------------
(* The keypad implements CodeAuth. *)

\* The files hold a password and a code, or no code.
FilesSound ==
  /\ disk["sys"] \in {<<p>> : p \in Password}
  /\ disk["temp"] \in {NoContent} \cup (Code \X Uses)
  /\ kpc \in {"newOpen", "newWrite", "newClose"} => sys_password \in Password

\* T_code is idle until the volume is mounted; what it has read is in force.
InHand ==
  /\ kpc # "main" => fpc # "boot"
  /\ kpc \in {"oldClose", "sysClose", "tmpOpen", "tmpRead", "tmpClose",
              "useOpen", "useWrite", "useClose", "decide"}
       => sys_password = SysInForce
  /\ kpc \in {"tmpClose", "useOpen", "useWrite", "useClose"} /\ tpc_code_t = "1"
       => disk["temp"] = <<TPC_code, "1">>
  /\ kpc \in {"useOpen", "useWrite", "useClose"} => IsCode

KeypadInv == HeldInv /\ FilesSound /\ InHand

\* A stored password or code, as what is in force.
LEMMA ForceOf ==
  ASSUME FilesSound
  PROVE  /\ SysInForce \in Password /\ disk["sys"] = <<SysInForce>>
         /\ \A old : AsPassword(disk["sys"], old) = SysInForce
         /\ Len(disk["temp"]) # 1
         /\ CodeInForce \in Code \cup {NoCode}
<1>1. PICK p \in Password : disk["sys"] = <<p>>
  BY DEF FilesSound
<1>2. \A old : AsPassword(disk["sys"], old) = p
  BY <1>1 DEF AsPassword
<1>3. Len(disk["temp"]) \in {0, 2}
  BY DEF FilesSound, NoContent
<1> QED BY <1>1, <1>2, <1>3 DEF SysInForce, CodeInForce

\* The files T_code changes: the password's when a new one is closed, the
\* code's when a used one is.
LEMMA FilesStepK ==
  ASSUME ~Overlap, KeypadInv, codeOpen_entry
  PROVE  \/ NewClose /\ disk' = [disk EXCEPT !["sys"] = <<sys_password>>]
         \/ UseClose /\ disk' = [disk EXCEPT !["temp"] = <<Zero, "0">>]
         \/ ~NewClose /\ ~UseClose /\ UNCHANGED disk
<1> USE DEF KeypadInv, HeldInv
<1>1. CASE OldClose \/ SysClose \/ TmpClose
  <2>1. f_close /\ kpc \in {"oldClose", "sysClose", "tmpClose"}
    BY <1>1 DEF OldClose, SysClose, TmpClose, KGoto
  <2>2. ~fp.dirty
    BY <2>1 DEF BufferHeld, Exclusive, KSection, FSection
  <2>3. UNCHANGED disk /\ ~NewClose /\ ~UseClose
    BY <2>1, <2>2, CloseHeld DEF NewClose, UseClose, KGoto
  <2> QED BY <2>3
<1>2. CASE NewClose
  <2>1. f_close /\ kpc = "newClose"
    BY <1>2 DEF NewClose, KGoto
  <2>2. fp.dirty /\ fp.file = "sys" /\ fp.buf = <<sys_password>>
    BY <2>1 DEF BufferHeld, ObjectHeld, HasSys
  <2> QED BY <1>2, <2>1, <2>2, CloseHeld
<1>3. CASE UseClose
  <2>1. f_close /\ kpc = "useClose"
    BY <1>3 DEF UseClose, KGoto
  <2>2. mounted
    BY <2>1 DEF InHand, ObjectHeld
  <2>3. Over(disk["temp"], <<Zero, "0">>) = <<Zero, "0">>
    BY ForceOf DEF Over
  <2>4. fp.dirty /\ fp.file = "temp" /\ fp.buf = <<Zero, "0">>
    BY <2>1, <2>2, <2>3 DEF BufferHeld, ObjectHeld, HasTemp
  <2> QED BY <1>3, <2>1, <2>4, CloseHeld
<1>4. CASE ~(OldClose \/ SysClose \/ TmpClose \/ NewClose \/ UseClose)
  <2>1. UNCHANGED disk
    BY <1>4
    DEF codeOpen_entry, Key13, SecondKey13, FiftyScans, EnterOld, OldOpen, OldRead, EnterNew,
        NewOpen, NewWrite, EnterCode, SysOpen, SysRead, TmpOpen, TmpRead, UseOpen, UseWrite,
        Decide, Signalled
  <2> QED BY <1>4, <2>1
<1> QED BY <1>1, <1>2, <1>3, <1>4

\* T_FR changes neither.
LEMMA FilesStepF ==
  ASSUME ~Overlap, HeldInv, FRopen_entry
  PROVE  disk'["sys"] = disk["sys"] /\ disk'["temp"] = disk["temp"] /\ UNCHANGED code
<1>1. UNCHANGED code
  BY DEF FRopen_entry, Mount, LoadSys, LoadAuth, LoadTemp, Key12, Key11, AuthFiftyScans,
        EnterAuth, AOpen, ARead, AClose, AuthTest, AdminDone, SecondKey11, EnterNewAuth,
        WOpen, WWrite, WClose, FOnly
<1>2. CASE AClose \/ WClose
  <2>1. f_close /\ HasAuth /\ fpc # "boot"
    BY <1>2 DEF AClose, WClose, FGoto, HasAuth
  <2>2. fp.file = "auth"
    BY <2>1 DEF HeldInv, ObjectHeld
  <2>3. disk \in [File -> Content]
    BY DEF HeldInv, TypeOK, FileTypeOK
  <2> QED BY <1>1, <2>1, <2>2, <2>3, CloseHeld DEF HeldInv, File
<1>3. CASE ~(AClose \/ WClose)
  BY <1>1, <1>3
  DEF FRopen_entry, Mount, LoadSys, LoadAuth, LoadTemp, Key12, Key11, AuthFiftyScans,
      EnterAuth, AOpen, ARead, AuthTest, AdminDone, SecondKey11, EnterNewAuth,
      WOpen, WWrite, volume
<1> QED BY <1>2, <1>3

\* T_handle stores a password or an unused code, or nothing before the mount,
\* and never within a section.
LEMMA FilesStepH ==
  ASSUME ~Overlap, KeypadInv, newwebhandle_entry
  PROVE  /\ UNCHANGED code /\ kpc \notin KSection /\ UNCHANGED fpc
         /\ \/ UNCHANGED disk
            \/ \E p \in NewSys : disk' = [disk EXCEPT !["sys"] = <<p>>]
            \/ \E c \in AppCodes : disk' = [disk EXCEPT !["temp"] = <<c, "1">>]
<1>1. UNCHANGED <<code, fpc>> /\ kpc \notin KSection
  BY DEF newwebhandle_entry, setTemporaryCode, modifyPassword, KFree, finger
<1>2. CASE setTemporaryCode
  <2>1. PICK c \in AppCodes : Store("temp", <<c, "1">>)
    BY <1>2 DEF setTemporaryCode
  <2>2. Over(disk["temp"], <<c, "1">>) = <<c, "1">>
    BY ForceOf DEF Over, KeypadInv
  <2> QED BY <1>1, <2>1, <2>2 DEF Store
<1>3. CASE modifyPassword
  <2>1. PICK p \in NewSys : Store("sys", <<p>>)
    BY <1>3 DEF modifyPassword
  <2>2. Over(disk["sys"], <<p>>) = <<p>>
    BY DEF Over
  <2> QED BY <1>1, <2>1, <2>2 DEF Store
<1> QED BY <1>2, <1>3 DEF newwebhandle_entry

\* The files stay a password and a code.
LEMMA SoundStep ==
  ASSUME ~Overlap, KeypadInv, [Next]_vars
  PROVE  FilesSound'
<1> USE DEF KeypadInv
<1>1. disk \in [File -> Content] /\ "sys" \in File /\ "temp" \in File
  BY DEF HeldInv, TypeOK, FileTypeOK, File
<1>2. CASE newwebhandle_entry
  <2>1. NewSys \subseteq Password /\ AppCodes \subseteq Code /\ "1" \in Uses
    BY CodeLockAssumption DEF Uses
  <2>2. kpc' \notin {"newOpen", "newWrite", "newClose"}
    BY <1>2, FilesStepH DEF code, KSection
  <2>3. disk'["sys"] \in {<<p>> : p \in Password}
    BY <1>1, <1>2, <2>1, FilesStepH DEF FilesSound
  <2>4. disk'["temp"] \in {NoContent} \cup (Code \X Uses)
    BY <1>1, <1>2, <2>1, FilesStepH DEF FilesSound
  <2> QED BY <2>2, <2>3, <2>4 DEF FilesSound
<1>3. CASE codeOpen_entry
  <2>1. NewClose => sys_password \in Password
    BY DEF FilesSound, NewClose, KGoto
  <2>2. Zero \in Code /\ "0" \in Uses
    BY CodeLockAssumption DEF Uses
  <2>3. disk'["sys"] \in {<<p>> : p \in Password}
    BY <1>1, <1>3, <2>1, FilesStepK DEF FilesSound
  <2>4. disk'["temp"] \in {NoContent} \cup (Code \X Uses)
    BY <1>1, <1>3, <2>2, FilesStepK DEF FilesSound
  <2>5. ASSUME kpc' \in {"newOpen", "newWrite", "newClose"} PROVE sys_password' \in Password
    <3>1. EnterNew \/ NewOpen \/ NewWrite
      BY <1>3, <2>5
      DEF codeOpen_entry, Key13, SecondKey13, FiftyScans, EnterOld, OldOpen, OldRead, OldClose,
        EnterNew, NewOpen, NewWrite, NewClose, EnterCode, SysOpen, SysRead, SysClose, TmpOpen,
        TmpRead, TmpClose, UseOpen, UseWrite, UseClose, Decide, Signalled, KGoto
    <3> QED BY <3>1, CodeLockAssumption
            DEF EnterNew, NewOpen, NewWrite, KGoto, memory, FilesSound
  <2> QED BY <2>3, <2>4, <2>5 DEF FilesSound
<1>4. CASE FRopen_entry
  <2>1. CASE kpc \in KSection
    BY <1>4, <2>1, Undisturbed DEF HeldInv, volume, memory, code, FilesSound
  <2>2. CASE kpc \notin KSection
    BY <1>4, <2>2, FilesStepF DEF FilesSound, code, KSection
  <2> QED BY <2>1, <2>2
<1>5. CASE Restart
  BY <1>5 DEF Restart, FilesSound
<1>6. CASE UNCHANGED vars
  BY <1>6 DEF vars, volume, memory, code, FilesSound
<1> QED BY <1>2, <1>3, <1>4, <1>5, <1>6 DEF Next

\* T_code's points at which it compares with what is in force.
Compares == {"oldClose", "sysClose", "tmpOpen", "tmpRead", "tmpClose",
             "useOpen", "useWrite", "useClose", "decide"}

\* T_code begins after the mount, and what it has read stays in force.
LEMMA InHandStepK ==
  ASSUME ~Overlap, ~Early, KeypadInv, codeOpen_entry
  PROVE  InHand'
<1> USE DEF KeypadInv
<1>1. (kpc # "main" => fpc # "boot")'
  BY DEF codeOpen_entry, Key13, SecondKey13, FiftyScans, EnterOld, OldOpen, OldRead, OldClose,
        EnterNew, NewOpen, NewWrite, NewClose, EnterCode, SysOpen, SysRead, SysClose, TmpOpen,
        TmpRead, TmpClose, UseOpen, UseWrite, UseClose, Decide, Signalled, KGoto, KOnly, finger,
        InHand
<1>2. CASE OldRead \/ SysRead
  <2>1. /\ kpc \in {"oldRead", "sysRead"} /\ kpc' \in {"oldClose", "sysClose"} /\ UNCHANGED disk
        /\ \E old : sys_password' = AsPassword(f_read, old)
    BY <1>2 DEF OldRead, SysRead, KGoto
  <2>2. mounted
    BY <2>1 DEF HeldInv, InHand, ObjectHeld
  <2>3. fp.file = "sys" /\ fp.buf = disk["sys"]
    BY <2>1, <2>2
    DEF HeldInv, ObjectHeld, BufferHeld, HasSys, Exclusive, KSection, FSection
  <2>4. sys_password' = SysInForce /\ SysInForce' = SysInForce
    BY <2>1, <2>3, ForceOf DEF f_read, SysInForce
  <2> QED BY <1>1, <2>1, <2>4 DEF InHand
<1>3. CASE TmpRead
  <2>1. kpc = "tmpRead" /\ kpc' = "tmpClose" /\ UNCHANGED <<disk, sys_password>>
    BY <1>3 DEF TmpRead, KGoto
  <2>2. mounted
    BY <2>1 DEF HeldInv, InHand, ObjectHeld
  <2>3. f_read = disk["temp"]
    BY <2>1, <2>2
    DEF HeldInv, ObjectHeld, BufferHeld, HasTemp, Exclusive, KSection, FSection, f_read
  <2>4. tpc_code_t' = "1" => disk["temp"] = <<TPC_code', "1">>
    BY <1>3, <2>3, ForceOf DEF TmpRead, TakeCode, FilesSound, NoContent
  <2>5. sys_password' = SysInForce'
    BY <2>1 DEF InHand, SysInForce
  <2> QED BY <1>1, <2>1, <2>4, <2>5 DEF InHand
<1>4. CASE SysClose \/ TmpOpen \/ TmpClose \/ UseOpen \/ UseWrite
  <2>1. UNCHANGED <<disk, memory, openinig_password>> /\ kpc \in Compares
    BY <1>4, FilesStepK
    DEF codeOpen_entry, SysClose, TmpOpen, TmpClose, UseOpen, UseWrite, NewClose, UseClose,
        KGoto, Compares
  <2>2. sys_password' = SysInForce'
    BY <2>1 DEF InHand, Compares, SysInForce, memory
  <2>3. \/ kpc' \in {"useOpen", "useWrite", "useClose"} /\ IsCode
           /\ kpc \in {"tmpClose", "useOpen", "useWrite"}
        \/ kpc' \in {"tmpOpen", "tmpRead", "decide"}
    BY <1>4 DEF SysClose, TmpOpen, TmpClose, UseOpen, UseWrite, KGoto, InHand
  <2> QED BY <1>1, <2>1, <2>2, <2>3 DEF InHand, IsCode, memory
<1>5. CASE UseClose
  <2>1. UNCHANGED memory /\ kpc = "useClose" /\ kpc' = "decide"
    BY <1>5 DEF UseClose, KGoto
  <2>2. disk'["sys"] = disk["sys"]
    BY <1>5, <2>1, FilesStepK DEF NewClose, KGoto, HeldInv, TypeOK, FileTypeOK, File
  <2>3. sys_password' = SysInForce'
    BY <2>1, <2>2 DEF InHand, SysInForce, memory
  <2> QED BY <1>1, <2>1, <2>3 DEF InHand
<1>6. CASE ~(OldRead \/ SysRead \/ TmpRead \/ SysClose \/ TmpOpen \/ TmpClose \/ UseOpen
             \/ UseWrite \/ UseClose)
  <2>1. kpc' \notin Compares
    BY <1>6
    DEF codeOpen_entry, Key13, SecondKey13, FiftyScans, EnterOld, OldOpen, OldClose, EnterNew,
        NewOpen, NewWrite, NewClose, EnterCode, SysOpen, Decide, Signalled, KGoto, Compares
  <2> QED BY <1>1, <2>1 DEF InHand, Compares
<1> QED BY <1>2, <1>3, <1>4, <1>5, <1>6

\* Nobody else takes it from T_code.
LEMMA InHandStep ==
  ASSUME ~Overlap, ~Early, KeypadInv, [Next]_vars
  PROVE  InHand'
<1> USE DEF KeypadInv, HeldInv
<1>1. CASE newwebhandle_entry
  BY <1>1, FilesStepH DEF code, InHand, KSection
<1>2. CASE codeOpen_entry
  BY <1>2, InHandStepK
<1>3. CASE FRopen_entry
  <2>1. fpc' # "boot" /\ UNCHANGED code
    BY <1>3, FilesStepF
    DEF FRopen_entry, Mount, LoadSys, LoadAuth, LoadTemp, Key12, Key11, AuthFiftyScans,
        EnterAuth, AOpen, ARead, AClose, AuthTest, AdminDone, SecondKey11, EnterNewAuth,
        WOpen, WWrite, WClose, FGoto
  <2>2. CASE kpc \in KSection
    BY <1>3, <2>1, <2>2, Undisturbed
    DEF volume, memory, code, InHand, SysInForce, IsCode
  <2>3. CASE kpc \notin KSection
    BY <2>1, <2>3 DEF code, KSection, InHand
  <2> QED BY <2>2, <2>3
<1>4. CASE Restart
  BY <1>4 DEF Restart, InHand
<1>5. CASE UNCHANGED vars
  BY <1>5 DEF vars, volume, memory, code, finger, InHand, SysInForce, IsCode
<1> QED BY <1>1, <1>2, <1>3, <1>4, <1>5 DEF Next

\* The invariant behind the refinement: on a volume that holds both passwords,
\* with the keypad used after the mount, what T_code compares with is in force.
THEOREM KeypadInvariant ==
  ASSUME ~Overlap, ~Early, ~Fresh
  PROVE  Spec => []KeypadInv
<1>1. Init => FilesSound /\ InHand
  <2> SUFFICES ASSUME Init PROVE FilesSound /\ InHand
    OBVIOUS
  <2>1. PICK p \in Usable, q \in Usable, t \in {NoContent} \cup (OldCodes \X {"1"}) :
          disk = [sys |-> <<p>>, auth |-> <<q>>, temp |-> t]
    BY DEF Init
  <2>2. FilesSound
    BY <2>1, CodeLockAssumption DEF Init, FilesSound, Uses
  <2> QED BY <2>2 DEF Init, InHand
<1>2. Init => HeldInv
  BY InitHeld
<1>3. KeypadInv /\ HeldInv' /\ [Next]_vars => KeypadInv'
  BY SoundStep, InHandStep DEF KeypadInv
<1> QED BY <1>1, <1>2, <1>3, ObjectIsHeld, PTL DEF Spec, KeypadInv

-----------------------------------------------------------------------------
(* The refinement, step by step. *)

\* Codes and passwords in force depend on the files only.
LEMMA ForceSame ==
  /\ disk'["sys"] = disk["sys"] => SysInForce' = SysInForce
  /\ disk'["temp"] = disk["temp"] => CodeInForce' = CodeInForce
  BY DEF SysInForce, CodeInForce

\* What is entered can be entered in CodeAuth.
LEMMA EntryType ==
  ASSUME TypeOK
  PROVE  openinig_password \in Password \cup Code
  BY CodeLockAssumption DEF TypeOK, ThreadTypeOK

\* What Grant is at each point.
LEMMA GrantAt ==
  /\ kpc \notin KSection \cup {"askNew"} => Grant = "none"
  /\ kpc \in {"askNew", "newOpen", "newWrite", "newClose"} => Grant = "change"
  /\ kpc \in {"oldOpen", "oldRead", "sysOpen", "sysRead", "useOpen", "useWrite", "useClose"}
       => Grant = "none"
  /\ kpc = "oldClose"
       => Grant = IF openinig_password = sys_password THEN "change" ELSE "none"
  /\ kpc \in {"sysClose", "tmpOpen", "tmpRead", "tmpClose"}
       => Grant = IF openinig_password = sys_password THEN "open" ELSE "none"
  /\ kpc = "decide" => Grant = IF Accepted THEN "open" ELSE "none"
  BY DEF Grant, KSection, Accepted

LEMMA GrantNext ==
  /\ kpc' \notin KSection \cup {"askNew"} => Grant' = "none"
  /\ kpc' \in {"askNew", "newOpen", "newWrite", "newClose"} => Grant' = "change"
  /\ kpc' \in {"oldOpen", "oldRead", "sysOpen", "sysRead", "useOpen", "useWrite", "useClose"}
       => Grant' = "none"
  /\ kpc' = "oldClose"
       => Grant' = IF openinig_password' = sys_password' THEN "change" ELSE "none"
  /\ kpc' \in {"sysClose", "tmpOpen", "tmpRead", "tmpClose"}
       => Grant' = IF openinig_password' = sys_password' THEN "open" ELSE "none"
  /\ kpc' = "decide" => Grant' = IF Accepted' THEN "open" ELSE "none"
  BY DEF Grant, KSection, Accepted

\* A step that leaves what CodeAuth sees.
LEMMA KeypadStutter ==
  ASSUME disk'["sys"] = disk["sys"], disk'["temp"] = disk["temp"],
         openinig_password' = openinig_password, Grant' = Grant
  PROVE  [Keypad!Next]_(Keypad!vars)
  BY ForceSame DEF Keypad!vars

\* Something is entered or forgotten while nothing is granted.
LEMMA KeypadEnter ==
  ASSUME UNCHANGED disk, Grant = "none", Grant' = "none",
         openinig_password' \in Password \cup Code
  PROVE  [Keypad!Next]_(Keypad!vars)
  BY ForceSame DEF Keypad!Next, Keypad!Enter

\* The app's orders.
LEMMA RefineH ==
  ASSUME ~Overlap, KeypadInv, newwebhandle_entry
  PROVE  [Keypad!Next]_(Keypad!vars)
<1>1. UNCHANGED code /\ kpc \notin KSection
  BY FilesStepH
<1>2. openinig_password' = openinig_password /\ kpc' = kpc
  BY <1>1 DEF code
<1>3. Grant' = Grant
  BY <1>1, <1>2, GrantAt, GrantNext
<1>4. disk \in [File -> Content] /\ "sys" \in File /\ "temp" \in File
  BY DEF KeypadInv, HeldInv, TypeOK, FileTypeOK, File
<1>5. CASE UNCHANGED disk
  BY <1>2, <1>3, <1>5, KeypadStutter
<1>6. ASSUME NEW p \in NewSys, disk' = [disk EXCEPT !["sys"] = <<p>>]
      PROVE  Keypad!SetPassword
  <2>1. disk'["sys"] = <<p>> /\ disk'["temp"] = disk["temp"]
    BY <1>4, <1>6
  <2>2. SysInForce' = p /\ p \in Password
    BY <2>1, CodeLockAssumption DEF SysInForce, AsPassword
  <2> QED BY <1>2, <1>3, <2>1, <2>2, ForceSame DEF Keypad!SetPassword
<1>7. ASSUME NEW c \in AppCodes, disk' = [disk EXCEPT !["temp"] = <<c, "1">>]
      PROVE  Keypad!IssueCode
  <2>1. disk'["temp"] = <<c, "1">> /\ disk'["sys"] = disk["sys"]
    BY <1>4, <1>7
  <2>2. CodeInForce' = c /\ c \in Code
    BY <2>1, CodeLockAssumption DEF CodeInForce
  <2> QED BY <1>2, <1>3, <2>1, <2>2, ForceSame DEF Keypad!IssueCode
<1> QED BY <1>5, <1>6, <1>7, FilesStepH DEF Keypad!Next

\* T_FR's steps are not seen at the keypad.
LEMMA RefineF ==
  ASSUME ~Overlap, KeypadInv, FRopen_entry
  PROVE  [Keypad!Next]_(Keypad!vars)
<1>1. disk'["sys"] = disk["sys"] /\ disk'["temp"] = disk["temp"] /\ UNCHANGED code
  BY FilesStepF DEF KeypadInv
<1>2. CASE kpc \in KSection
  <2>1. UNCHANGED <<memory, code>>
    BY <1>2, Undisturbed DEF KeypadInv, HeldInv
  <2>2. Grant' = Grant
    BY <2>1 DEF memory, code, Grant, IsCode
  <2> QED BY <1>1, <2>2, KeypadStutter DEF code
<1>3. CASE kpc \notin KSection
  <2>1. Grant' = Grant
    BY <1>1, <1>3, GrantAt, GrantNext DEF code
  <2> QED BY <1>1, <2>1, KeypadStutter DEF code
<1> QED BY <1>2, <1>3

\* T_code's steps: each is one of CodeAuth's, or none.
LEMMA RefineK ==
  ASSUME ~Overlap, KeypadInv, KeypadInv', codeOpen_entry
  PROVE  [Keypad!Next]_(Keypad!vars)
<1> USE DEF KeypadInv, HeldInv
<1>1. openinig_password' \in Password \cup Code
  BY EntryType, CodeLockAssumption DEF TypeOK, ThreadTypeOK
<1>2. disk \in [File -> Content] /\ "sys" \in File /\ "temp" \in File
  BY DEF TypeOK, FileTypeOK, File
<1>3. CASE Key13 \/ SecondKey13 \/ FiftyScans \/ Signalled \/ EnterOld \/ EnterCode
           \/ OldOpen \/ SysOpen \/ UseOpen \/ UseWrite
  <2>1. UNCHANGED disk
    BY <1>3 DEF Key13, SecondKey13, FiftyScans, Signalled, EnterOld, EnterCode, OldOpen,
                SysOpen, UseOpen, UseWrite
  <2>2. /\ kpc \notin (KSection \cup {"askNew"}) \ {"oldOpen", "sysOpen", "useOpen", "useWrite"}
        /\ \/ kpc' \notin KSection \cup {"askNew"}
           \/ kpc' \in {"oldOpen", "oldRead", "sysOpen", "sysRead", "useWrite", "useClose"}
    BY <1>3 DEF Key13, SecondKey13, FiftyScans, Signalled, EnterOld, EnterCode, OldOpen,
                SysOpen, UseOpen, UseWrite, KGoto, KSection
  <2>3. Grant = "none" /\ Grant' = "none"
    BY <2>2, GrantAt, GrantNext
  <2> QED BY <1>1, <2>1, <2>3, KeypadEnter
<1>4. CASE OldRead \/ SysRead
  <2>1. /\ UNCHANGED <<disk, openinig_password>>
        /\ \/ kpc = "oldRead" /\ kpc' = "oldClose"
           \/ kpc = "sysRead" /\ kpc' = "sysClose"
    BY <1>4 DEF OldRead, SysRead, KGoto
  <2>2. Grant = "none"
    BY <2>1, GrantAt
  <2>3. sys_password' = SysInForce
    BY <2>1, ForceSame DEF InHand
  <2>4. CASE openinig_password = SysInForce
    <3>1. Grant' \in {"open", "change"}
      BY <2>1, <2>3, <2>4, GrantNext
    <3>2. Keypad!AcceptPassword
      BY <2>1, <2>2, <2>4, <3>1, ForceSame DEF Keypad!AcceptPassword
    <3> QED BY <3>2 DEF Keypad!Next
  <2>5. CASE openinig_password # SysInForce
    <3>1. Grant' = "none"
      BY <2>1, <2>3, <2>5, GrantNext
    <3> QED BY <2>1, <2>2, <3>1, KeypadStutter
  <2> QED BY <2>4, <2>5
<1>5. CASE OldClose
  <2>1. /\ UNCHANGED <<openinig_password, sys_password>> /\ kpc = "oldClose"
        /\ kpc' = IF openinig_password = sys_password THEN "askNew" ELSE "scan"
    BY <1>5 DEF OldClose, memory
  <2>2. UNCHANGED disk
    BY <1>5, <2>1, FilesStepK DEF NewClose, UseClose, KGoto
  <2>3. Grant' = Grant
    BY <2>1, GrantAt, GrantNext DEF KSection
  <2> QED BY <2>1, <2>2, <2>3, KeypadStutter
<1>6. CASE EnterNew \/ NewOpen \/ NewWrite
  <2>1. UNCHANGED <<disk, openinig_password>> /\ kpc \in {"askNew", "newOpen", "newWrite"}
    BY <1>6 DEF EnterNew, NewOpen, NewWrite, KGoto
  <2>2. mounted
    BY <2>1 DEF InHand, ObjectHeld
  <2>3. kpc' \in {"newOpen", "newWrite", "newClose"}
    BY <1>6, <2>2 DEF EnterNew, NewOpen, NewWrite, KGoto
  <2>4. Grant' = Grant
    BY <2>1, <2>3, GrantAt, GrantNext
  <2> QED BY <2>1, <2>4, KeypadStutter
<1>7. CASE NewClose
  <2>1. kpc = "newClose" /\ kpc' = "main"
    BY <1>7 DEF NewClose, KGoto
  <2>2. Grant = "change" /\ Grant' = "none"
    BY <2>1, GrantAt, GrantNext DEF KSection
  <2>3. disk'["temp"] = disk["temp"]
    BY <1>2, <1>7, <2>1, FilesStepK DEF UseClose, KGoto
  <2>4. SysInForce' \in Password
    <3>1. PICK p \in Password : disk'["sys"] = <<p>>
      BY DEF FilesSound
    <3> QED BY <3>1 DEF SysInForce, AsPassword
  <2>5. Keypad!Change
    BY <1>1, <2>2, <2>3, <2>4, ForceSame DEF Keypad!Change
  <2> QED BY <2>5 DEF Keypad!Next
<1>8. CASE SysClose \/ TmpOpen \/ TmpRead
  <2>1. /\ UNCHANGED <<openinig_password, sys_password>>
        /\ kpc \in {"sysClose", "tmpOpen", "tmpRead"}
        /\ kpc' \in {"tmpOpen", "tmpRead", "tmpClose"}
    BY <1>8 DEF SysClose, TmpOpen, TmpRead, KGoto, memory
  <2>2. UNCHANGED disk
    BY <2>1, FilesStepK DEF NewClose, UseClose, KGoto
  <2>3. Grant' = Grant
    BY <2>1, GrantAt, GrantNext
  <2> QED BY <2>1, <2>2, <2>3, KeypadStutter
<1>9. CASE TmpClose
  <2>1. /\ UNCHANGED <<memory, openinig_password>> /\ kpc = "tmpClose"
        /\ kpc' = IF IsCode THEN "useOpen" ELSE "decide"
    BY <1>9 DEF TmpClose
  <2>2. UNCHANGED disk
    BY <1>9, <2>1, FilesStepK DEF NewClose, UseClose, KGoto
  <2>3. CASE IsCode
    <3>1. TPC_code \in Code
      BY <2>1, <2>3 DEF InHand, IsCode, FilesSound, NoContent
    <3>2. openinig_password # sys_password
      BY <2>3, <3>1, Apart DEF IsCode, TypeOK, MemoryTypeOK, Secret
    <3>3. Grant = "none" /\ Grant' = "none"
      BY <2>1, <2>3, <3>2, GrantAt, GrantNext
    <3> QED BY <1>1, <2>2, <3>3, KeypadEnter
  <2>4. CASE ~IsCode
    <3>1. Accepted' <=> openinig_password = sys_password
      BY <2>1, <2>4 DEF memory, Accepted, IsCode
    <3>2. Grant' = Grant
      BY <2>1, <2>4, <3>1, GrantAt, GrantNext
    <3> QED BY <2>1, <2>2, <3>2, KeypadStutter
  <2> QED BY <2>3, <2>4
<1>10. CASE UseClose
  <2>1. UNCHANGED <<memory, openinig_password>> /\ kpc = "useClose" /\ kpc' = "decide"
    BY <1>10 DEF UseClose, KGoto
  <2>2. IsCode /\ disk["temp"] = <<TPC_code, "1">>
    BY <2>1 DEF InHand, IsCode
  <2>3. disk' = [disk EXCEPT !["temp"] = <<Zero, "0">>]
    BY <1>10, <2>1, FilesStepK DEF NewClose, KGoto
  <2>4. TPC_code \in Code
    BY <2>2 DEF FilesSound, NoContent
  <2>5. CodeInForce = openinig_password /\ CodeInForce' = NoCode
    BY <1>2, <2>2, <2>3, <2>4 DEF CodeInForce, IsCode
  <2>6. SysInForce' = SysInForce
    BY <1>2, <2>3, ForceSame
  <2>7. Accepted'
    BY <2>1, <2>2 DEF Accepted, IsCode, memory
  <2>8. Grant = "none" /\ Grant' = "open"
    BY <2>1, <2>7, GrantAt, GrantNext
  <2>9. Keypad!AcceptCode
    BY <2>1, <2>5, <2>6, <2>8 DEF Keypad!AcceptCode
  <2> QED BY <2>9 DEF Keypad!Next
<1>11. CASE Decide
  <2>1. /\ UNCHANGED disk /\ kpc = "decide"
        /\ kpc' = IF Accepted THEN "open" ELSE "beep"
    BY <1>11 DEF Decide
  <2>2. Grant' = "none"
    BY <2>1, GrantNext DEF KSection
  <2>3. CASE Accepted
    <3>1. Keypad!Open
      BY <1>1, <2>1, <2>2, <2>3, GrantAt, ForceSame DEF Keypad!Open
    <3> QED BY <3>1 DEF Keypad!Next
  <2>4. CASE ~Accepted
    BY <1>1, <2>1, <2>2, <2>4, GrantAt, KeypadEnter
  <2> QED BY <2>3, <2>4
<1> QED BY <1>3, <1>4, <1>5, <1>6, <1>7, <1>8, <1>9, <1>10, <1>11 DEF codeOpen_entry

\* The keypad implements CodeAuth: for every set of passwords and codes, the door
\* opens for the stored system password or an unused code, and the password
\* changes at the app's order or after it was entered (Handle_code.c handle_sys,
\* newweb.c), on a volume that holds both passwords, with the keypad used after
\* the mount and sections that do not overlap; each of the three is needed.
THEOREM KeypadImplements ==
  ASSUME ~Overlap, ~Early, ~Fresh
  PROVE  Spec => ImplementsCodeAuth
<1>1. Init => Keypad!Init
  <2> SUFFICES ASSUME Init PROVE Keypad!Init
    OBVIOUS
  <2>1. PICK p \in Usable, q \in Usable, t \in {NoContent} \cup (OldCodes \X {"1"}) :
          disk = [sys |-> <<p>>, auth |-> <<q>>, temp |-> t]
    BY DEF Init
  <2>2. SysInForce \in Password
    BY <2>1, CodeLockAssumption DEF SysInForce, AsPassword
  <2>3. CodeInForce \in Code \cup {NoCode}
    BY DEF CodeInForce
  <2>4. Grant = "none"
    BY GrantAt DEF Init, KSection
  <2>5. openinig_password \in Password \cup Code
    BY CodeLockAssumption DEF Init
  <2> QED BY <2>2, <2>3, <2>4, <2>5 DEF Keypad!Init
<1>2. KeypadInv /\ KeypadInv' /\ [Next]_vars => [Keypad!Next]_(Keypad!vars)
  <2> SUFFICES ASSUME KeypadInv, KeypadInv', [Next]_vars
               PROVE  [Keypad!Next]_(Keypad!vars)
    OBVIOUS
  <2>1. CASE newwebhandle_entry
    BY <2>1, RefineH
  <2>2. CASE codeOpen_entry
    BY <2>2, RefineK
  <2>3. CASE FRopen_entry
    BY <2>3, RefineF
  <2>4. CASE Restart
    <3>1. UNCHANGED disk /\ openinig_password' = Empty /\ kpc' = "main"
      BY <2>4 DEF Restart
    <3>2. Grant' = "none" /\ Empty \in Password
      BY <3>1, GrantNext, CodeLockAssumption DEF KSection
    <3>3. CASE Grant = "none"
      BY <3>1, <3>2, <3>3, KeypadEnter
    <3>4. CASE Grant # "none"
      BY <3>1, <3>2, <3>4, ForceSame DEF Keypad!Lose, Keypad!Next
    <3> QED BY <3>3, <3>4
  <2>5. CASE UNCHANGED vars
    <3>1. Grant' = Grant
      BY <2>5 DEF vars, memory, code, Grant, IsCode
    <3> QED BY <2>5, <3>1, KeypadStutter DEF vars, volume, code
  <2> QED BY <2>1, <2>2, <2>3, <2>4, <2>5 DEF Next
<1> QED BY <1>1, <1>2, KeypadInvariant, PTL DEF Spec, ImplementsCodeAuth, Keypad!Spec
=============================================================================
