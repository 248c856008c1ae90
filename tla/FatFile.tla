------------------------------- MODULE FatFile -------------------------------
(***************************************************************************)
(* The one file object, FIL fp of Handle_flash.c, through which all        *)
(* threads use the FatFs volume (ff.c).  The three files fit in a sector,  *)
(* so what is written stays in fp.buf until f_close writes it back.        *)
(* f_lseek(&fp, 0) is part of the read or write that follows it.           *)
(*                                                                         *)
(* A content is <<p>>, the 100 bytes of a password, <<c, u>>, the six      *)
(* digits of a temporary code and the number of uses left, or <<>>.  A     *)
(* code written over a password, or read as one, is Mixed.                 *)
(***************************************************************************)
EXTENDS Integers, Sequences

CONSTANTS Password, \* passwords
          Code,     \* temporary codes
          Mixed     \* what is no password and no code

ASSUME FatFileAssumption == Mixed \notin Password \cup Code

VARIABLES disk,    \* what the volume holds, by file
          fp,      \* the file object
          mounted  \* f_mount has been called

File == {"sys", "auth", "temp"}
Uses == {"0", "1"}
NoContent == <<>>
Content == {NoContent} \cup {<<p>> : p \in Password \cup {Mixed}} \cup (Code \X Uses)

Closed == [file |-> "none", buf |-> NoContent, dirty |-> FALSE]
FileObject == [file : File \cup {"none"}, buf : Content, dirty : BOOLEAN]

\* fp->fs = 0 until the file is found: an open that fails closes the object.
f_open(f) ==
  fp' = IF mounted THEN [file |-> f, buf |-> disk[f], dirty |-> FALSE] ELSE Closed

\* What a read delivers, NoContent if the object is not valid.
f_read == IF fp.file = "none" THEN NoContent ELSE fp.buf

Over(old, new) == IF Len(old) = 1 /\ Len(new) = 2 THEN <<Mixed>> ELSE new

f_write(c) ==
  fp' = IF fp.file = "none" THEN fp
        ELSE [fp EXCEPT !.buf = Over(fp.buf, c), !.dirty = TRUE]

\* mutant of f_close: what was written is not written back
f_closeNoSync == fp' = Closed /\ UNCHANGED disk

\* mutant of f_close: what was to be written back stays marked
f_closeKeepsDirty ==
  /\ fp' = [fp EXCEPT !.file = "none"]
  /\ disk' = IF fp.dirty THEN [disk EXCEPT ![fp.file] = fp.buf] ELSE disk

f_close ==
  /\ fp' = IF fp.file = "none" THEN fp ELSE Closed
  /\ disk' = IF fp.dirty THEN [disk EXCEPT ![fp.file] = fp.buf] ELSE disk

\* Open, write and close in one go, as T_handle does, which outranks the others;
\* what they had not yet written back is lost.
Store(f, c) ==
  /\ fp' = Closed
  /\ disk' = IF mounted THEN [disk EXCEPT ![f] = Over(disk[f], c)] ELSE disk

\* The content as a password; an empty file leaves the old one as it is.
AsPassword(c, old) ==
  CASE Len(c) = 0 -> old [] Len(c) = 1 -> c[1] [] Len(c) = 2 -> Mixed

FileTypeOK ==
  /\ disk \in [File -> Content]
  /\ fp \in FileObject
  /\ fp.dirty => fp.file \in File
  /\ mounted \in BOOLEAN
=============================================================================
