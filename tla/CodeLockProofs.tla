--------------------------- MODULE CodeLockProofs ---------------------------
(***************************************************************************)
(* What is proved of CodeLock for every set of passwords and codes: its    *)
(* types, and that a temporary code opens the door once when the threads'  *)
(* sections do not overlap.                                                *)
(***************************************************************************)
EXTENDS CodeLock, TLAPS

Secret == Password \cup {Mixed}

-----------------------------------------------------------------------------
(* The file object. *)

\* What a content can be.
LEMMA ContentCases ==
  ASSUME NEW c \in Content
  PROVE  \/ c = <<>> /\ Len(c) = 0
         \/ \E p \in Secret : c = <<p>> /\ Len(c) = 1 /\ c[1] \in Secret
         \/ /\ c \in Code \X Uses /\ Len(c) = 2
            /\ c[1] \in Code /\ c[2] \in Uses /\ c = <<c[1], c[2]>>
  BY DEF Content, NoContent, Secret

\* A content read as a password is a password or Mixed.
LEMMA AsPasswordType ==
  ASSUME NEW c \in Content, NEW old \in Secret
  PROVE  AsPassword(c, old) \in Secret
  BY ContentCases DEF AsPassword, Secret

\* A read delivers a content.
LEMMA ReadType ==
  ASSUME FileTypeOK
  PROVE  f_read \in Content
  BY DEF FileTypeOK, f_read, FileObject, Content, NoContent

\* What f_write leaves in the buffer is one of the two contents, or Mixed.
LEMMA OverCases ==
  ASSUME NEW old \in Content, NEW new \in Content
  PROVE  /\ Over(old, new) \in Content
         /\ Over(old, new) \in {new, <<Mixed>>}
  BY DEF Over, Content

\* Each operation keeps the types of the file object and of the files.
LEMMA OpenType ==
  ASSUME FileTypeOK, NEW f \in File, f_open(f), UNCHANGED <<disk, mounted>>
  PROVE  FileTypeOK'
  BY DEF FileTypeOK, f_open, FileObject, Closed, File, Content, NoContent

LEMMA WriteType ==
  ASSUME FileTypeOK, NEW c \in Content, f_write(c), UNCHANGED <<disk, mounted>>
  PROVE  FileTypeOK'
<1>1. fp.buf \in Content /\ fp.file \in File \cup {"none"}
  BY DEF FileTypeOK, FileObject
<1>2. Over(fp.buf, c) \in Content
  BY <1>1, OverCases
<1>3. CASE fp.file = "none"
  BY <1>3 DEF FileTypeOK, f_write
<1>4. CASE fp.file # "none"
  <2>1. fp' = [fp EXCEPT !.buf = Over(fp.buf, c), !.dirty = TRUE]
    BY <1>4 DEF f_write
  <2>2. fp' \in FileObject /\ fp'.file = fp.file
    BY <2>1, <1>1, <1>2 DEF FileTypeOK, FileObject
  <2> QED BY <2>2, <1>1, <1>4 DEF FileTypeOK
<1> QED BY <1>3, <1>4

LEMMA CloseType ==
  ASSUME FileTypeOK, f_close, UNCHANGED mounted
  PROVE  FileTypeOK'
<1>1. fp' \in FileObject /\ ~(fp'.dirty /\ fp'.file \notin File)
  BY DEF FileTypeOK, f_close, FileObject, Closed, Content, NoContent
<1>2. disk' \in [File -> Content]
  BY DEF FileTypeOK, f_close, FileObject
<1> QED BY <1>1, <1>2 DEF FileTypeOK

LEMMA StoreType ==
  ASSUME FileTypeOK, NEW f \in File, NEW c \in Content, Store(f, c), UNCHANGED mounted
  PROVE  FileTypeOK'
<1>1. Over(disk[f], c) \in Content
  BY OverCases DEF FileTypeOK
<1>2. disk' \in [File -> Content]
  BY <1>1 DEF FileTypeOK, Store
<1> QED BY <1>2 DEF FileTypeOK, Store, Closed, FileObject, Content, NoContent
-----------------------------------------------------------------------------
(* Types. *)

\* The types depend on the values of the variables only.
LEMMA FileStutter ==
  ASSUME FileTypeOK, UNCHANGED volume
  PROVE  FileTypeOK'
  BY DEF FileTypeOK, volume

LEMMA MemoryStutter ==
  ASSUME MemoryTypeOK, UNCHANGED memory
  PROVE  MemoryTypeOK'
  BY DEF MemoryTypeOK, memory

\* What a read of the code's file leaves in memory.
LEMMA TakeCodeType ==
  ASSUME NEW c \in Content, MemoryTypeOK, TakeCode(c),
         UNCHANGED <<sys_password, rData1, i, flash_password, j>>
  PROVE  MemoryTypeOK'
<1>1. wData3' \in Code \cup {Mixed} /\ tpc_code_t' \in Uses \cup {"nul"}
  BY ContentCases DEF TakeCode, MemoryTypeOK
<1> QED BY <1>1 DEF TakeCode, MemoryTypeOK

\* The initial state is well typed: the files hold passwords and an unused code.
LEMMA InitType == Init => TypeOK
<1> SUFFICES ASSUME Init PROVE TypeOK
  OBVIOUS
<1>1. disk \in [File -> Content]
  <2>1. CASE Fresh
    BY <2>1 DEF Init, File, Content, NoContent
  <2>2. CASE ~Fresh
    <3>1. PICK p \in Usable, q \in Usable, t \in {NoContent} \cup (OldCodes \X {"1"}) :
            disk = [sys |-> <<p>>, auth |-> <<q>>, temp |-> t]
      BY <2>2 DEF Init
    <3>2. t \in Content /\ <<p>> \in Content /\ <<q>> \in Content
      BY CodeLockAssumption DEF Content, Uses
    <3> QED BY <3>1, <3>2 DEF File
  <2> QED BY <2>1, <2>2
<1>2. FileTypeOK
  BY <1>1 DEF Init, FileTypeOK, FileObject, Closed, Content, NoContent
<1>3. MemoryTypeOK
  BY CodeLockAssumption DEF Init, MemoryTypeOK
<1>4. ThreadTypeOK /\ spent \subseteq Code
  BY DEF Init, ThreadTypeOK, KPc, FPc
<1> QED BY <1>2, <1>3, <1>4 DEF TypeOK

\* Every step is one of these.
LEMMA NextCases ==
  ASSUME [Next]_vars
  PROVE  \/ setTemporaryCode \/ modifyPassword \/ codeOpen_entry \/ FRopen_entry
         \/ Restart \/ UNCHANGED vars
  BY DEF Next, newwebhandle_entry

\* No step spoils the types of the files and of the file object.
LEMMA FileStep ==
  ASSUME TypeOK, [Next]_vars
  PROVE  FileTypeOK'
<1> USE DEF TypeOK
<1>1. CASE setTemporaryCode
  <2>1. PICK c \in AppCodes : Store("temp", <<c, "1">>) /\ UNCHANGED mounted
    BY <1>1 DEF setTemporaryCode
  <2>2. <<c, "1">> \in Content /\ "temp" \in File
    BY CodeLockAssumption DEF Content, Uses, File
  <2> QED BY <2>1, <2>2, StoreType
<1>2. CASE modifyPassword
  <2>1. PICK p \in NewSys : Store("sys", <<p>>) /\ UNCHANGED mounted
    BY <1>2 DEF modifyPassword
  <2>2. <<p>> \in Content /\ "sys" \in File
    BY CodeLockAssumption DEF Content, File
  <2> QED BY <2>1, <2>2, StoreType
<1>3. CASE codeOpen_entry
  <2>1. CASE Key13 \/ SecondKey13 \/ FiftyScans \/ EnterOld \/ OldRead \/ EnterNew
             \/ EnterCode \/ SysRead \/ TmpRead \/ Decide \/ Signalled
    <3>1. UNCHANGED volume
      BY <2>1 DEF Key13, SecondKey13, FiftyScans, EnterOld, OldRead, EnterNew, EnterCode,
                  SysRead, TmpRead, Decide, Signalled, KOnly, volume
    <3> QED BY <3>1, FileStutter
  <2>2. CASE OldOpen \/ NewOpen \/ SysOpen \/ TmpOpen \/ UseOpen
    <3>1. PICK f \in File : f_open(f) /\ UNCHANGED <<disk, mounted>>
      BY <2>2 DEF OldOpen, NewOpen, SysOpen, TmpOpen, UseOpen, KOnly, File
    <3> QED BY <3>1, OpenType
  <2>3. CASE NewWrite
    <3>1. <<sys_password>> \in Content
      BY DEF MemoryTypeOK, Content
    <3> QED BY <2>3, <3>1, WriteType DEF NewWrite, KOnly
  <2>4. CASE UseWrite
    <3>1. <<Zero, "0">> \in Content
      BY CodeLockAssumption DEF Content, Uses
    <3> QED BY <2>4, <3>1, WriteType DEF UseWrite, KOnly
  <2>5. CASE OldClose \/ NewClose \/ SysClose \/ TmpClose \/ UseClose
    <3>1. f_close /\ UNCHANGED mounted
      BY <2>5 DEF OldClose, NewClose, SysClose, TmpClose, UseClose, KOnly
    <3> QED BY <3>1, CloseType
  <2> QED BY <1>3, <2>1, <2>2, <2>3, <2>4, <2>5 DEF codeOpen_entry
<1>4. CASE FRopen_entry
  <2>1. CASE Mount \/ LoadSys \/ LoadAuth \/ LoadTemp
    <3>1. UNCHANGED disk /\ fp' \in {fp, Closed} /\ mounted' \in {mounted, TRUE}
      BY <2>1 DEF Mount, LoadSys, LoadAuth, LoadTemp
    <3>2. Closed \in FileObject /\ ~Closed.dirty
      BY DEF Closed, FileObject, Content, NoContent
    <3>3. fp' \in FileObject /\ (fp'.dirty => fp'.file \in File)
      BY <3>1, <3>2 DEF FileTypeOK
    <3> QED BY <3>1, <3>3 DEF FileTypeOK
  <2>2. CASE Key12 \/ Key11 \/ AuthFiftyScans \/ EnterAuth \/ ARead \/ AuthTest
             \/ AdminDone \/ SecondKey11 \/ EnterNewAuth
    <3>1. UNCHANGED volume
      BY <2>2 DEF Key12, Key11, AuthFiftyScans, EnterAuth, ARead, AuthTest, AdminDone,
                  SecondKey11, EnterNewAuth
    <3> QED BY <3>1, FileStutter
  <2>3. CASE AOpen \/ WOpen
    <3>1. f_open("auth") /\ UNCHANGED <<disk, mounted>>
      BY <2>3 DEF AOpen, WOpen
    <3> QED BY <3>1, OpenType DEF File
  <2>4. CASE WWrite
    <3>1. <<flash_password>> \in Content
      BY DEF MemoryTypeOK, Content
    <3> QED BY <2>4, <3>1, WriteType DEF WWrite
  <2>5. CASE AClose \/ WClose
    <3>1. f_close /\ UNCHANGED mounted
      BY <2>5 DEF AClose, WClose
    <3> QED BY <3>1, CloseType
  <2> QED BY <1>4, <2>1, <2>2, <2>3, <2>4, <2>5 DEF FRopen_entry
<1>5. CASE Restart
  BY <1>5 DEF Restart, FileTypeOK, Closed, FileObject, Content, NoContent
<1>6. CASE UNCHANGED vars
  BY <1>6, FileStutter DEF vars
<1> QED BY <1>1, <1>2, <1>3, <1>4, <1>5, <1>6, NextCases

\* No step spoils the types of the memory.
LEMMA MemoryStep ==
  ASSUME TypeOK, [Next]_vars
  PROVE  MemoryTypeOK'
<1> USE DEF TypeOK
<1>1. CASE setTemporaryCode
  BY <1>1, CodeLockAssumption DEF setTemporaryCode, MemoryTypeOK
<1>2. CASE codeOpen_entry
  <2>1. CASE OldRead
    <3>1. sys_password' \in Secret
      BY <2>1, ReadType, AsPasswordType DEF OldRead, MemoryTypeOK, Secret
    <3> QED BY <2>1, <3>1 DEF OldRead, MemoryTypeOK, Secret
  <2>2. CASE EnterNew
    BY <2>2, CodeLockAssumption DEF EnterNew, MemoryTypeOK
  <2>3. CASE SysRead
    <3>1. rData1' \in Secret
      BY <2>3, ReadType, AsPasswordType DEF SysRead, MemoryTypeOK, Secret
    <3> QED BY <2>3, <3>1 DEF SysRead, MemoryTypeOK, Secret
  <2>4. CASE TmpRead
    BY <2>4, ReadType, TakeCodeType DEF TmpRead
  <2>5. CASE ~(OldRead \/ EnterNew \/ SysRead \/ TmpRead)
    <3>1. UNCHANGED memory
      BY <1>2, <2>5
      DEF codeOpen_entry, Key13, SecondKey13, FiftyScans, EnterOld, OldOpen, OldClose,
          NewOpen, NewWrite, NewClose, EnterCode, SysOpen, SysClose, TmpOpen, TmpClose,
          UseOpen, UseWrite, UseClose, Decide, Signalled
    <3> QED BY <3>1, MemoryStutter
  <2> QED BY <2>1, <2>2, <2>3, <2>4, <2>5
<1>3. CASE FRopen_entry
  <2>1. CASE LoadSys
    <3>1. disk["sys"] \in UsableContent => disk["sys"][1] \in Password
      BY CodeLockAssumption DEF UsableContent
    <3> QED BY <2>1, <3>1 DEF LoadSys, MemoryTypeOK
  <2>2. CASE LoadAuth
    <3>1. disk["auth"] \in UsableContent => disk["auth"][1] \in Password
      BY CodeLockAssumption DEF UsableContent
    <3> QED BY <2>2, <3>1 DEF LoadAuth, MemoryTypeOK
  <2>3. CASE LoadTemp
    <3>1. disk["temp"] \in Content
      BY DEF FileTypeOK, File
    <3>2. CASE disk["temp"] # NoContent
      BY <2>3, <3>1, <3>2, TakeCodeType DEF LoadTemp
    <3>3. CASE disk["temp"] = NoContent
      BY <2>3, <3>3 DEF LoadTemp, MemoryTypeOK
    <3> QED BY <3>2, <3>3
  <2>4. CASE ARead
    <3>1. flash_password' \in Secret
      BY <2>4, ReadType, AsPasswordType DEF ARead, MemoryTypeOK, Secret
    <3> QED BY <2>4, <3>1 DEF ARead, MemoryTypeOK, Secret
  <2>5. CASE EnterNewAuth
    BY <2>5, CodeLockAssumption DEF EnterNewAuth, MemoryTypeOK
  <2>6. CASE ~(LoadSys \/ LoadAuth \/ LoadTemp \/ ARead \/ EnterNewAuth)
    <3>1. UNCHANGED memory
      BY <1>3, <2>6
      DEF FRopen_entry, Mount, Key12, Key11, AuthFiftyScans, EnterAuth, AOpen, AClose,
          AuthTest, AdminDone, SecondKey11, WOpen, WWrite, WClose
    <3> QED BY <3>1, MemoryStutter
  <2> QED BY <2>1, <2>2, <2>3, <2>4, <2>5, <2>6
<1>4. CASE Restart
  BY <1>4, CodeLockAssumption DEF Restart, MemoryTypeOK
<1>5. CASE modifyPassword \/ UNCHANGED vars
  BY <1>5, MemoryStutter DEF modifyPassword, vars
<1> QED BY <1>1, <1>2, <1>3, <1>4, <1>5, NextCases

\* No step spoils the types of the threads' counters and entries.
LEMMA ThreadStep ==
  ASSUME TypeOK, [Next]_vars
  PROVE  ThreadTypeOK'
<1> USE DEF TypeOK, ThreadTypeOK
<1>1. CASE codeOpen_entry
  <2>1. UNCHANGED finger
    BY <1>1
    DEF codeOpen_entry, Key13, SecondKey13, FiftyScans, EnterOld, OldOpen, OldRead, OldClose,
        EnterNew, NewOpen, NewWrite, NewClose, EnterCode, SysOpen, SysRead, SysClose, TmpOpen,
        TmpRead, TmpClose, UseOpen, UseWrite, UseClose, Decide, Signalled, KOnly
  <2>2. openinig_password' \in SysEntry \cup {Empty}
    BY <1>1
    DEF codeOpen_entry, Key13, SecondKey13, FiftyScans, EnterOld, OldOpen, OldRead, OldClose,
        EnterNew, NewOpen, NewWrite, NewClose, EnterCode, SysOpen, SysRead, SysClose, TmpOpen,
        TmpRead, TmpClose, UseOpen, UseWrite, UseClose, Decide, Signalled
  <2>3. kpc' \in KPc
    BY <1>1
    DEF codeOpen_entry, Key13, SecondKey13, FiftyScans, EnterOld, OldOpen, OldRead, OldClose,
        EnterNew, NewOpen, NewWrite, NewClose, EnterCode, SysOpen, SysRead, SysClose, TmpOpen,
        TmpRead, TmpClose, UseOpen, UseWrite, UseClose, Decide, Signalled, KGoto, KPc, KSection
  <2> QED BY <2>1, <2>2, <2>3 DEF finger
<1>2. CASE FRopen_entry
  <2>1. UNCHANGED code
    BY <1>2
    DEF FRopen_entry, Mount, LoadSys, LoadAuth, LoadTemp, Key12, Key11, AuthFiftyScans,
        EnterAuth, AOpen, ARead, AClose, AuthTest, AdminDone, SecondKey11, EnterNewAuth,
        WOpen, WWrite, WClose, FOnly
  <2>2. password' \in AuthEntry \cup {Empty}
    BY <1>2
    DEF FRopen_entry, Mount, LoadSys, LoadAuth, LoadTemp, Key12, Key11, AuthFiftyScans,
        EnterAuth, AOpen, ARead, AClose, AuthTest, AdminDone, SecondKey11, EnterNewAuth,
        WOpen, WWrite, WClose
  <2>3. fpc' \in FPc
    BY <1>2
    DEF FRopen_entry, Mount, LoadSys, LoadAuth, LoadTemp, Key12, Key11, AuthFiftyScans,
        EnterAuth, AOpen, ARead, AClose, AuthTest, AdminDone, SecondKey11, EnterNewAuth,
        WOpen, WWrite, WClose, FGoto, FPc, FSection
  <2> QED BY <2>1, <2>2, <2>3 DEF code
<1>3. CASE Restart
  BY <1>3 DEF Restart, KPc, FPc
<1>4. CASE setTemporaryCode \/ modifyPassword \/ UNCHANGED vars
  BY <1>4 DEF setTemporaryCode, modifyPassword, code, finger, vars
<1> QED BY <1>1, <1>2, <1>3, <1>4, NextCases

\* The types are an invariant: whatever is entered, stored or lost, the memory
\* holds passwords and codes (or a mixture of them), the files their contents.
THEOREM TypeCorrect == Spec => []TypeOK
<1>1. Init => TypeOK
  BY InitType
<1>2. TypeOK /\ [Next]_vars => TypeOK'
  <2> SUFFICES ASSUME TypeOK, [Next]_vars PROVE TypeOK'
    OBVIOUS
  <2>1. (spent \subseteq Code)'
    <3>1. spent' \subseteq spent \cup Code
      BY DEF TypeOK, Next, newwebhandle_entry, setTemporaryCode, modifyPassword,
             codeOpen_entry, Key13, SecondKey13, FiftyScans, EnterOld, OldOpen, OldRead,
             OldClose, EnterNew, NewOpen, NewWrite, NewClose, EnterCode, SysOpen, SysRead,
             SysClose, TmpOpen, TmpRead, TmpClose, UseOpen, UseWrite, UseClose, Decide,
             Signalled, FRopen_entry, Mount, LoadSys, LoadAuth, LoadTemp, Key12, Key11,
             AuthFiftyScans, EnterAuth, AOpen, ARead, AClose, AuthTest, AdminDone,
             SecondKey11, EnterNewAuth, WOpen, WWrite, WClose, Restart, vars
    <3> QED BY <3>1 DEF TypeOK
  <2> QED BY <2>1, FileStep, MemoryStep, ThreadStep DEF TypeOK
<1> QED BY <1>1, <1>2, PTL DEF Spec

-----------------------------------------------------------------------------
(* A code opens the door once. *)

\* A content that still lets somebody in.
Live == Code \X {"1"}

\* Sections do not overlap.
Exclusive == kpc \in KSection => fpc \notin FSection

\* No code that has opened the door is in the file with a use left, or about to
\* be written there.
SpentIsGone ==
  /\ \A c \in spent : disk["temp"] # <<c, "1">>
  /\ fp.dirty => fp.buf \notin Live

\* The file object while T_code reads, and then invalidates, the code: a code
\* with a use left came from the file, so the file can be opened again.
ObjectIsTemp ==
  /\ fp.file # "none" => mounted
  /\ kpc = "tmpRead" => fp.file = "none" \/ (fp.file = "temp" /\ fp.buf = disk["temp"])
  /\ kpc = "tmpClose" /\ tpc_code_t = "1" => fp.file = "temp"
  /\ kpc = "useOpen" => mounted
  /\ kpc \in {"useWrite", "useClose"} => fp.file = "temp"
  /\ kpc = "useClose" => fp.dirty

\* The code T_code compares with has not opened yet, and is out of the file when
\* it does.
CodeInHand ==
  /\ kpc \in {"tmpClose", "useOpen", "useWrite", "useClose", "decide"} /\ tpc_code_t = "1"
       => TPC_code \notin spent
  /\ kpc = "decide" /\ IsCode => disk["temp"] \notin Live

OnceInv == TypeOK /\ Exclusive /\ SpentIsGone /\ ObjectIsTemp /\ CodeInHand

\* The invariant holds at first: nothing has been spent, nothing is going on.
LEMMA InitOnce == Init => OnceInv
<1> SUFFICES ASSUME Init PROVE OnceInv
  OBVIOUS
<1>1. TypeOK
  BY InitType
<1>2. Exclusive /\ CodeInHand
  BY DEF Init, Exclusive, CodeInHand, KSection
<1>3. SpentIsGone /\ ObjectIsTemp
  BY DEF Init, SpentIsGone, ObjectIsTemp, Closed
<1> QED BY <1>1, <1>2, <1>3 DEF OnceInv

\* A section of one thread begins only outside those of the other.
LEMMA ExclusiveStep ==
  ASSUME ~Overlap, Exclusive, [Next]_vars
  PROVE  Exclusive'
<1>1. CASE codeOpen_entry
  <2>1. UNCHANGED fpc
    BY <1>1
    DEF codeOpen_entry, Key13, SecondKey13, FiftyScans, EnterOld, OldOpen, OldRead, OldClose,
        EnterNew, NewOpen, NewWrite, NewClose, EnterCode, SysOpen, SysRead, SysClose, TmpOpen,
        TmpRead, TmpClose, UseOpen, UseWrite, UseClose, Decide, Signalled, KOnly, finger
  <2>2. kpc' \in KSection => kpc \in KSection \/ fpc \notin FSection
    BY <1>1
    DEF codeOpen_entry, Key13, SecondKey13, FiftyScans, EnterOld, OldOpen, OldRead, OldClose,
        EnterNew, NewOpen, NewWrite, NewClose, EnterCode, SysOpen, SysRead, SysClose, TmpOpen,
        TmpRead, TmpClose, UseOpen, UseWrite, UseClose, Decide, Signalled, KGoto, KSection, FFree
  <2> QED BY <2>1, <2>2 DEF Exclusive
<1>2. CASE FRopen_entry
  <2>1. UNCHANGED kpc
    BY <1>2
    DEF FRopen_entry, Mount, LoadSys, LoadAuth, LoadTemp, Key12, Key11, AuthFiftyScans,
        EnterAuth, AOpen, ARead, AClose, AuthTest, AdminDone, SecondKey11, EnterNewAuth,
        WOpen, WWrite, WClose, FOnly, code
  <2>2. fpc' \in FSection => fpc \in FSection \/ kpc \notin KSection
    BY <1>2
    DEF FRopen_entry, Mount, LoadSys, LoadAuth, LoadTemp, Key12, Key11, AuthFiftyScans,
        EnterAuth, AOpen, ARead, AClose, AuthTest, AdminDone, SecondKey11, EnterNewAuth,
        WOpen, WWrite, WClose, FGoto, FSection, KFree
  <2> QED BY <2>1, <2>2 DEF Exclusive
<1>3. CASE Restart
  BY <1>3 DEF Restart, Exclusive, KSection
<1>4. CASE setTemporaryCode \/ modifyPassword \/ UNCHANGED vars
  BY <1>4 DEF setTemporaryCode, modifyPassword, code, finger, vars, Exclusive
<1> QED BY <1>1, <1>2, <1>3, <1>4, NextCases

\* While T_code is in a section, the other threads leave files and memory alone.
LEMMA Undisturbed ==
  ASSUME ~Overlap, Exclusive, kpc \in KSection, newwebhandle_entry \/ FRopen_entry
  PROVE  UNCHANGED <<volume, memory, code, spent>>
<1>1. ~KFree /\ fpc \notin FSection
  BY DEF KFree, Exclusive
<1>2. ~newwebhandle_entry
  BY <1>1 DEF newwebhandle_entry, setTemporaryCode, modifyPassword
<1>3. Key12 \/ Key11 \/ AuthFiftyScans \/ AuthTest \/ AdminDone \/ SecondKey11
  BY <1>1, <1>2
  DEF FRopen_entry, Mount, LoadSys, LoadAuth, LoadTemp, Key12, Key11, AuthFiftyScans,
        EnterAuth, AOpen, ARead, AClose, AuthTest, AdminDone, SecondKey11, EnterNewAuth,
        WOpen, WWrite, WClose, FGoto, FSection
<1> QED
  BY <1>3 DEF Key12, Key11, AuthFiftyScans, AuthTest, AdminDone, SecondKey11, FOnly

\* The object refers to a file only while the volume is mounted: no operation
\* makes it refer to one otherwise.
FileOperation ==
  \/ fp' \in {fp, Closed}
  \/ \E f \in File : f_open(f)
  \/ \E c : f_write(c)
  \/ f_close

LEMMA MountedOperation ==
  ASSUME FileTypeOK, fp.file # "none" => mounted, mounted => mounted', FileOperation
  PROVE  (fp.file # "none" => mounted)'
<1>1. Closed.file = "none"
  BY DEF Closed
<1>2. CASE fp' \in {fp, Closed}
  BY <1>1, <1>2
<1>3. CASE \E f \in File : f_open(f)
  <2>1. ~mounted => fp' = Closed
    BY <1>3 DEF f_open
  <2> QED BY <1>1, <2>1
<1>4. CASE \E c : f_write(c)
  <2>1. fp'.file = fp.file
    BY <1>4 DEF f_write, FileTypeOK, FileObject
  <2> QED BY <2>1
<1>5. CASE f_close
  BY <1>1, <1>5 DEF f_close
<1> QED BY <1>2, <1>3, <1>4, <1>5 DEF FileOperation

LEMMA MountedStep ==
  ASSUME TypeOK, fp.file # "none" => mounted, [Next]_vars
  PROVE  (fp.file # "none" => mounted)'
<1>1. CASE newwebhandle_entry \/ Restart
  <2>1. fp' = Closed
    BY <1>1 DEF newwebhandle_entry, setTemporaryCode, modifyPassword, Store, Restart
  <2> QED BY <2>1 DEF Closed
<1>2. CASE codeOpen_entry
  <2>1. UNCHANGED mounted
    BY <1>2
    DEF codeOpen_entry, Key13, SecondKey13, FiftyScans, EnterOld, OldOpen, OldRead, OldClose,
        EnterNew, NewOpen, NewWrite, NewClose, EnterCode, SysOpen, SysRead, SysClose, TmpOpen,
        TmpRead, TmpClose, UseOpen, UseWrite, UseClose, Decide, Signalled, KOnly
  <2>2. FileOperation
    BY <1>2
    DEF codeOpen_entry, Key13, SecondKey13, FiftyScans, EnterOld, OldOpen, OldRead, OldClose,
        EnterNew, NewOpen, NewWrite, NewClose, EnterCode, SysOpen, SysRead, SysClose, TmpOpen,
        TmpRead, TmpClose, UseOpen, UseWrite, UseClose, Decide, Signalled, File, FileOperation
  <2> QED BY <2>1, <2>2, MountedOperation DEF TypeOK
<1>3. CASE FRopen_entry
  <2>1. mounted => mounted'
    BY <1>3
    DEF FRopen_entry, Mount, LoadSys, LoadAuth, LoadTemp, Key12, Key11, AuthFiftyScans,
        EnterAuth, AOpen, ARead, AClose, AuthTest, AdminDone, SecondKey11, EnterNewAuth,
        WOpen, WWrite, WClose, volume
  <2>2. FileOperation
    BY <1>3
    DEF FRopen_entry, Mount, LoadSys, LoadAuth, LoadTemp, Key12, Key11, AuthFiftyScans,
        EnterAuth, AOpen, ARead, AClose, AuthTest, AdminDone, SecondKey11, EnterNewAuth,
        WOpen, WWrite, WClose, volume, File, FileOperation
  <2> QED BY <2>1, <2>2, MountedOperation DEF TypeOK
<1>4. CASE UNCHANGED vars
  BY <1>4 DEF vars, volume
<1> QED BY <1>1, <1>2, <1>3, <1>4 DEF Next

\* A code is not a password, nor what a mixture of them reads as.
LEMMA Apart == Code \cap Secret = {}
  BY CodeLockAssumption, FatFileAssumption DEF Secret

\* The file operations, and what each does to the codes that have been used.
LEMMA OpenSpent ==
  ASSUME SpentIsGone, NEW f \in File, f_open(f), UNCHANGED <<disk, spent>>
  PROVE  SpentIsGone'
<1>1. ~fp'.dirty
  BY DEF f_open, Closed
<1> QED BY <1>1 DEF SpentIsGone

LEMMA WriteSpent ==
  ASSUME TypeOK, SpentIsGone, NEW c \in Content \ Live, f_write(c), UNCHANGED <<disk, spent>>
  PROVE  SpentIsGone'
<1>1. CASE fp.file = "none"
  BY <1>1 DEF SpentIsGone, f_write
<1>2. CASE fp.file # "none"
  <2>1. fp'.buf = Over(fp.buf, c) /\ fp.buf \in Content
    BY <1>2 DEF f_write, TypeOK, FileTypeOK, FileObject
  <2>2. <<Mixed>> \notin Live
    BY DEF Live
  <2>3. fp'.buf \notin Live
    BY <2>1, <2>2, OverCases
  <2> QED BY <2>3 DEF SpentIsGone
<1> QED BY <1>1, <1>2

LEMMA CloseSpent ==
  ASSUME TypeOK, SpentIsGone, f_close, UNCHANGED spent
  PROVE  SpentIsGone'
<1>1. fp' = fp \/ ~fp'.dirty
  BY DEF f_close, Closed
<1>2. disk' = disk \/ fp.dirty
  BY DEF f_close
<1>3. disk'["temp"] = disk["temp"] \/ (fp.dirty /\ disk'["temp"] = fp.buf)
  BY DEF f_close, TypeOK, FileTypeOK, File
<1>4. \A c \in spent : <<c, "1">> \in Live
  BY DEF TypeOK, Live
<1> QED BY <1>1, <1>3, <1>4 DEF SpentIsGone

\* No step brings a used code back.
LEMMA SpentStep ==
  ASSUME OnceInv, [Next]_vars
  PROVE  SpentIsGone'
<1> USE DEF OnceInv
<1>1. CASE setTemporaryCode
  <2>1. PICK c \in AppCodes : Store("temp", <<c, "1">>) /\ spent' = spent \ {c}
    BY <1>1 DEF setTemporaryCode
  <2>2. disk'["temp"] \in {disk["temp"], <<Mixed>>, <<c, "1">>}
    BY <2>1 DEF Store, Over, TypeOK, FileTypeOK, File
  <2>3. ~fp'.dirty
    BY <2>1 DEF Store, Closed
  <2>4. \A d \in spent : d # c => <<d, "1">> \notin {<<Mixed>>, <<c, "1">>}
    OBVIOUS
  <2> QED BY <2>1, <2>2, <2>3, <2>4 DEF SpentIsGone
<1>2. CASE modifyPassword
  <2>1. PICK p \in NewSys : Store("sys", <<p>>) /\ UNCHANGED spent
    BY <1>2 DEF modifyPassword
  <2>2. disk'["temp"] = disk["temp"] /\ ~fp'.dirty
    BY <2>1 DEF Store, Closed, TypeOK, FileTypeOK, File
  <2> QED BY <2>1, <2>2 DEF SpentIsGone
<1>3. CASE codeOpen_entry
  <2>1. CASE OldOpen \/ NewOpen \/ SysOpen \/ TmpOpen \/ UseOpen
    <3>1. PICK f \in File : f_open(f) /\ UNCHANGED <<disk, spent>>
      BY <2>1 DEF OldOpen, NewOpen, SysOpen, TmpOpen, UseOpen, File
    <3> QED BY <3>1, OpenSpent
  <2>2. CASE NewWrite \/ UseWrite
    <3>1. <<sys_password>> \in Content \ Live
      BY DEF TypeOK, MemoryTypeOK, Content, Live
    <3>2. <<Zero, "0">> \in Content \ Live
      BY CodeLockAssumption DEF Content, Uses, Live
    <3> QED BY <2>2, <3>1, <3>2, WriteSpent DEF NewWrite, UseWrite
  <2>3. CASE OldClose \/ NewClose \/ SysClose \/ TmpClose \/ UseClose
    <3>1. f_close /\ UNCHANGED spent
      BY <2>3 DEF OldClose, NewClose, SysClose, TmpClose, UseClose
    <3> QED BY <3>1, CloseSpent
  <2>4. CASE Decide
    <3>1. UNCHANGED <<disk, fp>>
      BY <2>4 DEF Decide
    <3>2. ASSUME NEW c \in spent', c \notin spent PROVE disk["temp"] # <<c, "1">>
      <4>1. Accepted /\ c = openinig_password /\ c \in Code /\ kpc = "decide"
        BY <2>4, <3>2 DEF Decide
      <4>2. openinig_password # sys_password
        BY <4>1, Apart DEF TypeOK, MemoryTypeOK, Secret
      <4>3. IsCode
        BY <4>1, <4>2 DEF Accepted
      <4> QED BY <4>1, <4>3 DEF CodeInHand, Live
    <3> QED BY <3>1, <3>2 DEF SpentIsGone
  <2>5. CASE Key13 \/ SecondKey13 \/ FiftyScans \/ EnterOld \/ OldRead \/ EnterNew
             \/ EnterCode \/ SysRead \/ TmpRead \/ Signalled
    <3>1. UNCHANGED <<disk, fp, spent>>
      BY <2>5 DEF Key13, SecondKey13, FiftyScans, EnterOld, OldRead, EnterNew, EnterCode,
                  SysRead, TmpRead, Signalled
    <3> QED BY <3>1 DEF SpentIsGone
  <2> QED BY <1>3, <2>1, <2>2, <2>3, <2>4, <2>5 DEF codeOpen_entry
<1>4. CASE FRopen_entry
  <2>1. CASE AOpen \/ WOpen
    <3>1. f_open("auth") /\ UNCHANGED <<disk, spent>>
      BY <2>1 DEF AOpen, WOpen
    <3> QED BY <3>1, OpenSpent DEF File
  <2>2. CASE WWrite
    <3>1. <<flash_password>> \in Content \ Live
      BY DEF TypeOK, MemoryTypeOK, Content, Live
    <3> QED BY <2>2, <3>1, WriteSpent DEF WWrite
  <2>3. CASE AClose \/ WClose
    <3>1. f_close /\ UNCHANGED spent
      BY <2>3 DEF AClose, WClose
    <3> QED BY <3>1, CloseSpent
  <2>4. CASE ~(AOpen \/ WOpen \/ WWrite \/ AClose \/ WClose)
    <3>1. UNCHANGED <<disk, spent>> /\ fp' \in {fp, Closed}
      BY <1>4, <2>4
      DEF FRopen_entry, Mount, LoadSys, LoadAuth, LoadTemp, Key12, Key11, AuthFiftyScans,
          EnterAuth, ARead, AuthTest, AdminDone, SecondKey11, EnterNewAuth, volume
    <3> QED BY <3>1 DEF SpentIsGone, Closed
  <2> QED BY <2>1, <2>2, <2>3, <2>4
<1>5. CASE Restart
  BY <1>5 DEF Restart, Closed, SpentIsGone
<1>6. CASE UNCHANGED vars
  BY <1>6 DEF vars, volume, SpentIsGone
<1> QED BY <1>1, <1>2, <1>3, <1>4, <1>5, <1>6, NextCases

\* Whatever the other threads do, T_code finds files and memory as it left them,
\* or is in no section.
LEMMA OthersStep ==
  ASSUME ~Overlap, Exclusive, newwebhandle_entry \/ FRopen_entry
  PROVE  \/ UNCHANGED <<volume, memory, code, spent>>
         \/ kpc' = kpc /\ kpc \notin KSection
<1>1. UNCHANGED code
  BY DEF newwebhandle_entry, setTemporaryCode, modifyPassword,
         FRopen_entry, Mount, LoadSys, LoadAuth, LoadTemp, Key12, Key11, AuthFiftyScans,
         EnterAuth, AOpen, ARead, AClose, AuthTest, AdminDone, SecondKey11, EnterNewAuth,
         WOpen, WWrite, WClose, FOnly
<1> QED BY <1>1, Undisturbed DEF code

\* The step of T_code that leads to each point of the temporary code's section.
LEMMA SectionStep ==
  ASSUME codeOpen_entry
  PROVE  /\ kpc' = "tmpRead" => TmpOpen
         /\ kpc' = "tmpClose" => TmpRead
         /\ kpc' = "useOpen" => TmpClose
         /\ kpc' = "useWrite" => UseOpen
         /\ kpc' = "useClose" => UseWrite
         /\ kpc' = "decide" => TmpClose \/ UseClose
  BY DEF codeOpen_entry, Key13, SecondKey13, FiftyScans, EnterOld, OldOpen, OldRead, OldClose,
        EnterNew, NewOpen, NewWrite, NewClose, EnterCode, SysOpen, SysRead, SysClose, TmpOpen,
        TmpRead, TmpClose, UseOpen, UseWrite, UseClose, Decide, Signalled, KGoto

\* The file object is the code's while T_code reads and invalidates it.
LEMMA ObjectStep ==
  ASSUME ~Overlap, OnceInv, [Next]_vars
  PROVE  ObjectIsTemp'
<1> USE DEF OnceInv
<1>1. (fp.file # "none" => mounted)'
  BY MountedStep DEF ObjectIsTemp
<1>2. CASE newwebhandle_entry \/ FRopen_entry
  <2>1. CASE UNCHANGED <<volume, memory, code, spent>>
    BY <2>1 DEF volume, memory, code, ObjectIsTemp
  <2>2. CASE kpc' = kpc /\ kpc \notin KSection
    BY <1>1, <2>2 DEF ObjectIsTemp, KSection
  <2> QED BY <1>2, <2>1, <2>2, OthersStep
<1>3. CASE codeOpen_entry
  <2>1. CASE TmpOpen
    <3>1. kpc' = "tmpRead" /\ UNCHANGED disk
      BY <2>1 DEF TmpOpen, KGoto
    <3>2. fp'.file = "none" \/ (fp'.file = "temp" /\ fp'.buf = disk["temp"])
      BY <2>1 DEF TmpOpen, f_open, Closed
    <3> QED BY <1>1, <3>1, <3>2 DEF ObjectIsTemp
  <2>2. CASE TmpRead
    <3>1. kpc = "tmpRead" /\ kpc' = "tmpClose" /\ fp' = fp
      BY <2>2 DEF TmpRead, KGoto
    <3>2. fp.file = "none" => tpc_code_t' = "nul"
      BY <2>2 DEF TmpRead, TakeCode, f_read, NoContent
    <3> QED BY <1>1, <3>1, <3>2 DEF ObjectIsTemp
  <2>3. CASE TmpClose
    <3>1. kpc = "tmpClose" /\ kpc' \in {"useOpen", "decide"} /\ mounted' = mounted
      BY <2>3 DEF TmpClose, KOnly
    <3>2. kpc' = "useOpen" => tpc_code_t = "1"
      BY <2>3 DEF TmpClose, IsCode
    <3> QED BY <1>1, <3>1, <3>2 DEF ObjectIsTemp
  <2>4. CASE UseOpen
    <3>1. kpc = "useOpen" /\ kpc' = "useWrite"
      BY <2>4 DEF UseOpen, KGoto
    <3>2. mounted => fp'.file = "temp"
      BY <2>4 DEF UseOpen, f_open
    <3> QED BY <1>1, <3>1, <3>2 DEF ObjectIsTemp
  <2>5. CASE UseWrite
    <3>1. kpc = "useWrite" /\ kpc' = "useClose"
      BY <2>5 DEF UseWrite, KGoto
    <3>2. fp.file # "none" => fp'.file = fp.file /\ fp'.dirty
      BY <2>5 DEF UseWrite, f_write, TypeOK, FileTypeOK, FileObject
    <3> QED BY <1>1, <3>1, <3>2 DEF ObjectIsTemp
  <2>6. CASE kpc' \notin {"tmpRead", "tmpClose", "useOpen", "useWrite", "useClose"}
    BY <1>1, <2>6 DEF ObjectIsTemp
  <2> QED BY <1>3, <2>1, <2>2, <2>3, <2>4, <2>5, <2>6, SectionStep
<1>4. CASE Restart
  BY <1>1, <1>4 DEF Restart, ObjectIsTemp
<1>5. CASE UNCHANGED vars
  BY <1>5 DEF vars, volume, memory, code, ObjectIsTemp
<1> QED BY <1>2, <1>3, <1>4, <1>5 DEF Next

\* The code in hand has not opened the door, and is out of the file when it does.
LEMMA CodeStep ==
  ASSUME ~Overlap, OnceInv, [Next]_vars
  PROVE  CodeInHand'
<1> USE DEF OnceInv
<1>1. CASE newwebhandle_entry \/ FRopen_entry
  <2>1. CASE UNCHANGED <<volume, memory, code, spent>>
    BY <2>1 DEF volume, memory, code, CodeInHand, IsCode
  <2>2. CASE kpc' = kpc /\ kpc \notin KSection
    BY <2>2 DEF CodeInHand, KSection
  <2> QED BY <1>1, <2>1, <2>2, OthersStep
<1>2. CASE codeOpen_entry
  <2>1. CASE TmpRead
    <3> DEFINE c == f_read
    <3>1. kpc = "tmpRead" /\ kpc' = "tmpClose" /\ spent' = spent /\ TakeCode(c)
      BY <2>1 DEF TmpRead, KGoto
    <3>2. SUFFICES ASSUME tpc_code_t' = "1" PROVE TPC_code' \notin spent
      BY <3>1, <3>2 DEF CodeInHand
    <3>3. c \in Content
      BY ReadType DEF TypeOK
    <3>4. CASE Len(c) = 1
      BY <3>1, <3>4, Apart DEF TakeCode, TypeOK, Secret
    <3>5. CASE Len(c) = 2
      <4>1. TPC_code' = c[1] /\ c = <<c[1], "1">>
        BY <3>1, <3>2, <3>3, <3>5, ContentCases DEF TakeCode
      <4>2. c = disk["temp"]
        BY <3>1, <3>5 DEF f_read, NoContent, ObjectIsTemp
      <4> QED BY <4>1, <4>2 DEF SpentIsGone
    <3>6. Len(c) # 0
      BY <3>1, <3>2 DEF TakeCode
    <3> QED BY <3>3, <3>4, <3>5, <3>6, ContentCases
  <2>2. CASE TmpClose \/ UseOpen \/ UseWrite
    <3>1. UNCHANGED <<memory, openinig_password, spent>>
      BY <2>2 DEF TmpClose, UseOpen, UseWrite
    <3>2. kpc \in {"tmpClose", "useOpen", "useWrite"} /\ (kpc' = "decide" => ~IsCode)
      BY <2>2 DEF TmpClose, UseOpen, UseWrite, KGoto
    <3> QED BY <3>1, <3>2 DEF memory, CodeInHand, IsCode
  <2>3. CASE UseClose
    <3>1. UNCHANGED <<memory, openinig_password, spent>>
      BY <2>3 DEF UseClose
    <3>2. kpc = "useClose" /\ kpc' = "decide"
      BY <2>3 DEF UseClose, KGoto
    <3>3. disk'["temp"] = fp.buf
      BY <2>3, <3>2 DEF UseClose, f_close, ObjectIsTemp, TypeOK, FileTypeOK, File
    <3>4. disk'["temp"] \notin Live
      BY <3>2, <3>3 DEF ObjectIsTemp, SpentIsGone
    <3> QED BY <3>1, <3>2, <3>4 DEF memory, CodeInHand
  <2>4. CASE kpc' \notin {"tmpClose", "useOpen", "useWrite", "useClose", "decide"}
    BY <2>4 DEF CodeInHand
  <2> QED BY <1>2, <2>1, <2>2, <2>3, <2>4, SectionStep
<1>3. CASE Restart
  BY <1>3 DEF Restart, CodeInHand
<1>4. CASE UNCHANGED vars
  BY <1>4 DEF vars, volume, memory, code, CodeInHand, IsCode
<1> QED BY <1>1, <1>2, <1>3, <1>4 DEF Next

\* The invariant behind the next theorem: one thread at a time is in a section,
\* used codes are gone, and the code in hand is the file's.
THEOREM OnceInvariant ==
  ASSUME ~Overlap
  PROVE  Spec => []OnceInv
<1>1. Init => OnceInv
  BY InitOnce
<1>2. OnceInv /\ TypeOK' /\ [Next]_vars => OnceInv'
  BY ExclusiveStep, SpentStep, ObjectStep, CodeStep DEF OnceInv
<1> QED BY <1>1, <1>2, TypeCorrect, PTL DEF Spec

\* A temporary code opens the door once: for every set of passwords and codes,
\* on a fresh volume or a used one, before the mount and after, restarts
\* included, if sections do not overlap (Handle_code.c 246-261).
THEOREM CodesOpenOnce ==
  ASSUME ~Overlap
  PROVE  Spec => CodeOpensOnce
<1>1. ASSUME OnceInv, [Next]_vars
      PROVE  [kpc = "decide" /\ kpc' = "open" => openinig_password \notin spent]_vars
  <2>1. SUFFICES ASSUME kpc = "decide", kpc' = "open", openinig_password \in spent
                 PROVE  FALSE
    OBVIOUS
  <2>2. CASE codeOpen_entry
    <3>1. Decide
      BY <2>1, <2>2
      DEF codeOpen_entry, Key13, SecondKey13, FiftyScans, EnterOld, OldOpen, OldRead, OldClose,
        EnterNew, NewOpen, NewWrite, NewClose, EnterCode, SysOpen, SysRead, SysClose, TmpOpen,
        TmpRead, TmpClose, UseOpen, UseWrite, UseClose, Decide, Signalled, KGoto
    <3>2. Accepted
      BY <2>1, <3>1 DEF Decide
    <3>3. openinig_password # sys_password
      BY <1>1, <2>1, Apart DEF OnceInv, TypeOK, MemoryTypeOK, Secret
    <3>4. IsCode
      BY <3>2, <3>3 DEF Accepted
    <3> QED BY <1>1, <2>1, <3>1, <3>4 DEF OnceInv, CodeInHand, IsCode
  <2>3. CASE newwebhandle_entry \/ FRopen_entry
    BY <2>1, <2>3
    DEF newwebhandle_entry, setTemporaryCode, modifyPassword, FRopen_entry, Mount, LoadSys,
        LoadAuth, LoadTemp, Key12, Key11, AuthFiftyScans, EnterAuth, AOpen, ARead, AClose,
        AuthTest, AdminDone, SecondKey11, EnterNewAuth, WOpen, WWrite, WClose, FOnly, code
  <2>4. CASE Restart \/ UNCHANGED vars
    BY <2>1, <2>4 DEF Restart, vars, code
  <2> QED BY <1>1, <2>2, <2>3, <2>4 DEF Next
<1> QED BY <1>1, OnceInvariant, PTL DEF CodeOpensOnce, Spec
=============================================================================
