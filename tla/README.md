# SmartLock: models, checks and proofs

SmartLock is the firmware of a door lock: an STM32F103 with RT-Thread 3.0.3, a 4G module that
connects it to a server, a key matrix, an AS608 fingerprint module, an SPI flash with a FatFs
volume, a relay, LEDs and a buzzer. The application is `src/User`; `rtthread/`, `Libraries/`,
`ff.c`, cJSON, AES and USMART are vendored. This directory holds TLA+ modules of the
application's concurrent parts, TLC configurations that check them on small instances, and
proofs of what matters most for every instance.

## 1. The system

Four threads (`main.c` 87-155), five interrupts:

| actor | code | priority | what it does |
|---|---|---|---|
| `T_conn` | `newwebconnect_entry`, newweb.c 64-155 | 3 | resets the 4G module, asks the server for a session, sends replies and heartbeats |
| `T_handle` | `newwebhandle_entry`, newweb.c 157-417 | 3 | takes received frames, keeps the session key, carries out the app's commands |
| `T_FR` | `FRopen_entry`, open.c 51-105 | 8 | starts the fingerprint module, mounts the volume, loads the passwords; keys 11 and 12; fingers |
| `T_code` | `codeOpen_entry`, open.c 33-49 | 8 | key 13: opening by password or code, change of the password |
| USART3 | `G4_USART_IRQHandler`, G4.c 581-612 | irq | fills the receive ring, posts a frame |
| EXTI1 | stm32f10x_it.c 8-24 | irq | the LIKA pin has fallen: ends the session |
| USART2, TIM7 | usart2.c, timer.c | irq | collect an answer of the fingerprint module |
| SysTick | board.c | irq | time slices of 20 ms among threads of one priority |

A higher priority preempts; equal priorities take turns, so `T_conn` and `T_handle` interleave
anywhere, and so do `T_code` and `T_FR`. There is no lock anywhere in the application.

### Components

**Server link.** State: `conn_flag`, `comm_key`, the queue `webmsg_sendmq` (10 blocks), EXTI1's
mask and pending bit. Operations: reset, wait for LIKA, token, fifty polls of `conn_flag`, unmask,
the send loop; on the other side key and flag from the server's answer; the interrupt clears the
flag and posts a one-byte wake-up. Hard: the flag and the key are shared without a lock, the
interrupt ignores whether its message was queued, answers come late, the link drops between any
two steps. Correct if: the flag means a granted session with its whole key, what is sent uses the
session's key, a reported loss always reaches `T_conn`.

**4G reception.** State: three buffers `G4_GET`, the index, the byte count, the mailbox
`webmsg_recemb` (5 slots) of buffer addresses. Operations: byte, idle line, `rt_mb_recv`, reading
the buffer in place. Hard: a buffer is taken again with no regard to whether it was read; an
unlock holds the reader for a second. Correct if: each frame is carried out once, whole, in order.

**Passwords and codes.** State: the system password, the authentication password and the
temporary code with its uses left, each once in memory and once in a file; the flags `i` and `j`;
one file object `fp` and one `res` for all threads. Operations: the app stores a code or a
password (`T_handle`), the keypad opens or changes the system password (`T_code`), the start loads
the files, and enrolling and deleting fingerprints asks for the authentication password (`T_FR`).
Hard: three threads on one file object; a code must be used up before the door opens and stay
so over a restart; memory is compared that another read may have left. Correct if: the door opens
only for what is in force, a code opens once, a change needs the stored password and is stored.

**Keypad scan and entry.** `KeyScan` drives and reads the matrix in five phases; `T_code` and
`T_FR` both run it, into one global `num`, on a port whose bit 0 selects the flash. Correct if: a
key pressed is decoded once, as itself, and a scan does not disturb the flash; `GET_str` and
`GET_NUM` stay within their buffer and their range.

**Fingerprint module.** A command goes out on USART2, USART2's interrupt and TIM7 collect the
answer, `JudgeStr` looks for it once a tick up to a limit. Nothing in an answer says which command
it is for. On top: `Add_FR` (enrolment in five steps, ten rounds), `Del_FR`, `verify_FR`,
`press_FR`. Correct if: an answer is taken for its own command, the door opens for a finger in the
library, what is stored is two images of one finger, only the chosen template is deleted.

**Outputs.** Relay, LEDs, buzzer, set and cleared by three threads around a delay. Correct if:
the relay never stays on.

**Flash.** `disk_write` erases a sector and writes it page by page, each step a transaction framed
by the chip select and ended by polling the chip. Correct if: whatever a power failure left there,
the next write brings the sector in order, and nothing else takes the chip in between.

**Framing.** AES with PKCS5 padding, Base64, CRC-16: data only.

Interactions: USART3 -> mailbox -> `T_handle`; `T_handle`, EXTI1 -> queue -> `T_conn`;
`T_handle`, `T_code`, `T_FR` <-> `fp` and the volume; `T_code`, `T_FR` <-> key matrix and `num`;
`T_handle`, `T_code`, `T_FR` -> relay. The vendored kernel, parser, debugger and firmware library,
the unused AT command helpers and the build outputs are left out.

PROJECT.json lists the components with what is modelled of each, and the hazards, each at its
line, with the properties that cover it or a note why none does.

## 2. The modules

| module | models | abstract specification | proofs |
|---|---|---|---|
| `WebLink` | `T_conn`, `T_handle`'s side of the session, EXTI1, queue and mailbox | `Session` | `WebLinkProofs` |
| `G4Rx` (`MCG4Rx`) | USART3 interrupt, receive ring, mailbox, `T_handle`'s reading | frames in order, whole | `G4RxProofs` |
| `FatFile` | the shared `FIL` and the three files | | |
| `CodeLock` (extends `FatFile`) | `T_code`, `T_FR`'s start and password dialogues, the app's two storing commands, restarts | `CodeAuth` | `CodeLockProofs`, `CodeAuthProofs` |
| `As608Link` | a command to the fingerprint module and its answer: USART2, TIM7, `JudgeStr`, the module | | |
| `FingerLock` (extends `As608Link`) | `T_FR`'s use of the module: start, press, verify, enrol, delete; the relay and the other threads' openings; restarts | `FingerAuth` | `FingerLockProofs`, `FingerAuthProofs` |
| `FlashDisk` | `disk_read` and `disk_write` of a sector, the flash chip, its select | | |
| `Board` (extends `FlashDisk`) | `KeyScan` by `T_code` and `T_FR`, their disk functions on the shared port; restarts | | `BoardProofs`, `FlashProofs` |

### WebLink

A step is a stretch of code that no other thread can see half done: each access to `conn_flag`,
`comm_key` and the pins is one, and `rt_mq_send` and `rt_mq_recv` are two each, because a block is
on neither list of the queue while it is copied (`InFlight`). The variables have the code's names;
`cpc` and `hpc` are the threads' positions, `sess` counts the tokens sent and `srv` is the server's
side. A frame carries the session it is encrypted for; a frame of another session, or one in clear
once a session is up, does not parse. `comm_key` is a session number, 0 while it is being copied.
A masked EXTI1 does not latch a fall of LIKA (`PinFalls`).

Two assumptions about time are made, both visible in the module:

* `ResetDelay`: during the 2000 ticks after a reset `T_handle` gets to its mailbox or to the pulse
  of an unlock. It has `T_conn`'s priority, nothing else to wait for, and at most a few frames.
* `Prompt`: the server answers, if it does, so early that `T_handle` has dealt with the answer by
  the last of the fifty polls. `link_late` is the same model without it.

### G4Rx

A byte is the pair of its frame and its place in it, so that what was read tells where it came
from. `Backlog` is the number of frames that may have begun and not been carried out: nothing in
the code bounds it, and the runs and theorems say what happens at the number of buffers and one
above. Frames are separated by an idle line, as the module's packet timer leaves one.

### CodeLock and FatFile

One action per prompt and per file operation of `T_code` and `T_FR`; `f_lseek` goes with the read
or write that follows. `T_handle` outranks both and waits for nothing while it uses the volume
(the flash driver polls, it does not sleep), so each of its commands is one step, which may fall
between any two of theirs. The three files fit in a sector: what `f_write` writes is in `fp.buf`
until `f_close` writes it back, and an object that was closed by somebody else refuses the
operations of its first user. A content is a password, a code with its uses left, or nothing;
`Mixed` is what one kind becomes when it is written over or read as the other.

Three constants choose the circumstances, so that a run can say which of them a property needs:

* `Overlap`: sections (stretches of file operations with the decision that hangs on them) of two
  threads may overlap. TRUE is the program; FALSE is the program when nobody uses the app and both
  dialogues in the same milliseconds, and what a mutex around the sections would give.
* `Early`: somebody uses the keypad before `T_FR` has found the fingerprint module and mounted the
  volume. TRUE is the program.
* `Fresh`: the volume starts empty. Otherwise it holds both passwords and perhaps a code.

What is typed is taken as a whole: every prompt clears the string, and whichever key ends the
entry, what is there is used. New authentication passwords are of a length the start takes over
(2 to 12, Handle_flash.c 89); with a shorter one `AdminAuthorised` fails after a restart, since
the start falls back to the original password.

### As608Link and FingerLock

A command stays in `reqs` until the module carries it out; the module, or the line, may lose it or
its answer. An answer travels in two parts, header and rest, so that `JudgeStr` can clear
`USART2_RX_STA` between them: this is what makes an answer that overtakes the wait unreadable
(`NoHeader`). TIM7 marks what has come as complete. Every part carries `own`, which is TRUE while
the command it answers is the one being waited for; the program does not see it, and
`AnswerIsOwn` says that it need not. `FingerLock` is one step per answer: `Ask`, `Wait`, `Look`,
and then what `press_FR`, `verify_FR`, `Add_FR` or `Del_FR` do with the code. `count` is the round
of the loop `T_FR` is in. Numbers typed include 65280, which `GET_NUM` also returns for the clear
key, and 256, which stands for every number beyond the library. `ReadSysPara` takes the size from
whatever answer comes, so after a wrong one `PS_max` may be any of `Sizes`.

`Prompt` is the assumption about time: an answer comes before the wait for it ends (2000 ticks; 200
for the handshake, 1000 for `PS_ReadSysPara`) or never. `finger_late` is the same model without it: one late answer shifts all later ones.

### FlashDisk and Board

A disk function is a list of transactions, `todo`, made by the operators that have the driver's
names; a transaction is a fall of the select, an instruction, data, and a rise, and the chip acts
on the rise. A page's bytes are one step; what a page holds is `"erased"`, `"new"` (what is being
written) or `"other"`. `KeyScan` reads the port (`seen`) and writes it back with other columns, as
`GPIO_Write(GPIOC, GPIOC->ODR & ...)` does, so the write may raise the select of a transaction the
other thread has begun meanwhile; `disturbed` records that, and that a disk function began with the
chip busy. `SPI_FLASH_BufferWrite` is a function of the place in the list, three transactions to a
page, and not a recursion over the pages, so that it can be reasoned about; after the whole pages
the code always writes the rest, which for a sector has length 0 and which the chip ignores.
`T_FR` scans only after the volume is mounted (`Join`), and waits for the fingerprint
module before that without limit; what T_code alone decodes is in `KeyVal`. Disk functions of two
threads do not overlap here: that they may, at the level of whole file operations, is `codes_race`.
`T_handle` runs its file operations to their end and scans no keys.

## 3. The runs

| run | result | what it shows |
|---|---|---|
| `link` | holds | with a server that answers in time: `NoLostWakeup`, `KeyComplete`, `KeyStable`, `ArmedOnlyInSession`, `FlagMeansGranted`, `SendsWithSessionKey`, `LossLeadsToReset`, and the refinement `ImplementsSession` |
| `link_late` | violated | `FlagMeansGranted`: an answer after the last poll sets the flag under the next attempt, with a key the server no longer uses |
| `link_edge` | violated | `FlagFollowsLink`: a fall of LIKA between the grant and the unmasking is not latched, and the lock goes on sending heartbeats into a dead link |
| `rx` | holds | up to as many frames on their way as buffers: `FramesInOrder`, `ReadIsStable`, `AllHandled` |
| `rx_overrun` | violated | `FramesInOrder`: one frame more is written over one that waits, although the mailbox has room |
| `codes` | holds | sections that do not overlap, a volume in use: `CodeOpensOnce`, `AdminAuthorised`, `ChangeIsStored`, and the refinement `ImplementsCodeAuth`, restarts included |
| `codes_race` | violated | `CodeOpensOnce`: a command between `f_open` and `f_write` of a code's invalidation closes the shared object; the code opens again |
| `codes_gate` | violated | `CodeIsTried`: until a start has found a usable password, the password in force is asked for and never compared |
| `codes_fresh` | violated | `ImplementsCodeAuth`: with a code stored and no password file, an empty entry opens the door |
| `finger` | holds | with answers that come in time or never: `AnswerIsOwn`, `OpensForEnrolled`, `SuccessIsStored`, `StoresTwoImages`, `DeletesChosen`, `NotLeftOpen`, `DialogueEnds`, and the refinement `ImplementsFingerAuth` |
| `finger_late` | violated | `OpensForEnrolled`: after one late answer `press_FR` takes the answer to `PS_GenChar` for that to its search and opens the door for a finger that is not enrolled |
| `board` | holds | `WriteReaches`, `ReadReturns`, `DiskOpEnds` unless a scan has raised the select; `KeyIsTrue`, `DecodedOnce` while one thread scans |

The violations are the findings of PROJECT.json, each with the line that promises otherwise.

**Bounds.** `link`: two session numbers tell the current session from the one before, the only
one whose frames can still be about since `ResetDelay`; two polls give a first and a last one; two
queue blocks allow full, one in flight and one linked; two mailbox slots allow a frame before the
answer, a full mailbox and a frame refused. `rx`: three buffers as in the code, three bytes each, six frames of one to
four bytes, so the ring goes round twice and a frame is longer than a buffer; the behaviour
depends on a buffer's number and a frame's length only through what these show. `codes`: two codes
(the one in the file and the next), the zero code, the original password, a new one and the empty
one, all of them entered at every prompt; 1.8 million states. `finger`: two fingers and a
library of one template tell the same finger from another and a free place from a taken one; six
rounds let an enrolment finish with one failed round, wherever it fails, and end it at the second;
one command the module has not carried out, since with `Prompt` there is never
another; 750 thousand states. `board`: two pages, so that one is written while the other is
erased, two columns, so that the key is in the one sampled first or later, one row, since the
rows are read together; 630 thousand states. The runs with violations use the smallest instance
that has one.

**Fairness.** `LossLeadsToReset` needs weak fairness of the two threads and of the interrupt: they
have the highest thread priority, which they share round-robin, and an unmasked pending interrupt
is taken. Nothing is assumed of the server or of the pin, so `T_conn` may poll LIKA for ever.
`AllHandled` needs weak fairness of `T_handle` and that a frame that has begun on the wire ends.
`link_edge` is a violation under that same fairness. `DialogueEnds` needs weak fairness
of `T_FR`, of both interrupts, of the module's dealing with a command (it may still lose the
answer) and of somebody's typing at a prompt, and supposes that the size was read: with
`PS_max = 0` no number is accepted. `DiskOpEnds` needs it of a thread in a disk function (equal
priorities take turns) and of the chip, which finishes what it has begun. CodeLock states no
liveness: people may stop
anywhere. `G4Rx` stops when all its frames are handled, hence `CHECK_DEADLOCK FALSE` there only.

## 4. What is proved

TLAPS proves, for every value of the constants that meets the named assumptions:

*WebLinkProofs.* `TypeCorrect`, `Wakeup` (`NoLostWakeup`), `KeyIsComplete`, `KeyIsStable` and
`ArmedInSession` from `WebLinkAssumption` alone; `FlagIsGrant`, `SendsWithItsKey` and
`LinkImplementsSession` with `Prompt`. `NoLostWakeup`
is not inductive: one has to know where `T_conn` can be when the interrupt strikes and finds the
queue full. `WakeInv` adds that EXTI1 is unmasked only in the send loop, that nothing lowers the
flag between the polls and the unmasking (`ArmsInSession`), and that the key is written only while
the flag is 0 (`KeyBeforeFlag`). `GrantInv` adds, for the rest, that at most one grant is between
the wire and the flag (`OneGrant`), that it is for the token being waited on (`GrantForToken`),
and that it is there only while `T_conn` polls (`GrantWhilePolling`), so that flag, key and
session agree (`KeyOfSession`).

*G4RxProofs.* `RxTypeCorrect` for every backlog; `RxInOrder` and `RxReadStable` under
`Backlog <= NBuf` and `Backlog <= MbCap`, for any number of buffers, slots and frames of any
lengths. The invariant says that the mailbox holds the consecutive buffers of the frames posted
and not taken (`Ring`), that each of them and the one in hand holds its frame (`Filled`), and how
far the reader is (`ReadSoFar`); the bound on the backlog keeps the interrupt's buffer different
from all of them.

*CodeLockProofs.* `TypeCorrect`, also with overlap; `CodesOpenOnce` (`CodeOpensOnce`) if sections
do not overlap, for every set of passwords and codes, early or not, fresh or not, from `OnceInv`:
one thread at a time is in a section (`Exclusive`), no used code is in the file or in a buffer
about to be written (`SpentIsGone`), the object is the code's file from the reading to the
invalidation (`ObjectIsTemp`), so a code in memory with a use left is the one in the file and is
out of it when the door opens (`CodeInHand`). The invariant is needed because the decision is
taken on memory, several file operations after the file was read.

*FingerLockProofs.* `TypeCorrect` and `DoorNotLeftOpen` from `FingerLockAssumption` and
`As608Assumption` alone; with `Prompt`, `AnswersAreOwn`, `OnlyEnrolledOpens`, `ReportedIsStored`,
`TwoImages` and `OnlyChosenDeleted`, for every library, number of rounds and set of fingers. The
invariant `IInv` says that a thread that does not wait has nothing outstanding (`Idle`), that at
most one command is under way and is the step's (`OneCommand`, `OneAnswer`), that an answer "ok"
that has not been read yet tells the truth about the module (`Earned`), and that each step keeps
what the answers before it have established (`Reached`): after `Match` the two images are of one
finger, after `RegModel` there is a template of them, after `StoreChar` it is where it was sent.
None of these holds by itself: an answer is believed because the command before it has been dealt
with, which is what `Prompt` gives.

*FingerAuthProofs.* `FingerImplements` (`ImplementsFingerAuth`), with `Prompt`: the dialogues and
the library implement `FingerAuth`, which says in one place who may change the library when, and
more than the properties one by one: the library stands still while the door is open, a template is
stored only under the number typed and only while an enrolment waits for that, and nothing but the
clear key removes more than one. The mapping follows `step`; besides `IInv` it needs that the clear
key and no other number leads to the emptying (`ClearEmpties`). Without `Prompt` it is violated.

*CodeAuthProofs.* What the rest of `codes` checks, for every set of passwords and codes. First
`ObjectIsHeld`: if sections do not overlap, the one file object belongs to the section that opened
a file and buffers that file's content, or what was written to it (`ObjectHeld`, `BufferHeld`);
from it `ChangeStored` (`ChangeIsStored`), on any volume, early or not. Two further invariants rest
on it. `AuthKept` follows the authentication password: memory and file agree except while `T_FR` is
loading or changing it, and what a change writes is what the next start takes up. It gives
`AdminNeedsPassword` (`AdminAuthorised`). `KeypadInv` says what a comparison at the keypad compares
with: the file of the system password always holds one (`FilesSound`), and what `T_code` has read
is still in the file when it decides, a code's remaining use included (`InHand`). It gives
`KeypadImplements` (`ImplementsCodeAuth`): under the refinement mapping each step of `T_code`,
`T_handle`, `T_FR` and each restart is a step of `CodeAuth` or none.

Every hypothesis is there because TLC has a counterexample without it:

| hypothesis | needed by | without it |
|---|---|---|
| `~Overlap` | all of them | `T_handle` closes the object under `T_code` or `T_FR` (`codes_race`) |
| `NewAuth \subseteq Usable` | `AdminNeedsPassword` | a new authentication password of fewer than 2 or more than 12 characters is not taken up by the next start, which accepts the original one instead (Handle_flash.c 89) |
| `~Early` | `KeypadImplements` | before the mount the files cannot be read, and the keypad compares with the original password (`codes_gate` shows what else is wrong then) |
| `~Fresh` | `KeypadImplements` | with no password file the keypad compares with what an earlier read left (`codes_fresh`) |

The first is a restriction on when people use the lock, the third and fourth on how it was set up;
the second is on what an administrator enters, which no line of the program checks.

*BoardProofs.* `OneKeyPerPress` and `KeysAreTrue` for a matrix of any size: before `T_FR` joins,
the column sampled is the one driven (`Driven`), and a key that was decoded and is still down keeps
the scan at the loop that waits for its release (`Held`). `ReadsReturn` for any number of pages,
from how far an undisturbed read has come (`ReadsOn`).

*FlashProofs.* `TypeCorrect` and `WriteReachesAll` (`WriteReaches`), for any matrix and any number
of pages. The types need that the chip counts no more data than were sent, wherever a scan moves
the select (`DriverOK`). A write does `3 * Pages + 7` transactions, and `WriteShape` and `WriteAt`
say which is at each place of the list, without induction, by division by three. `Rest` says that
what is left of them is the end of that list, so that its length tells the place, `At`. `WritesOn`
is the state at each place of an undisturbed write: the chip is idle except while its end is waited
for, is enabled when it must be, and page `p` is erased before place `3 * p + 4` and written from
there on, or will be once the chip is done (`Will`). `WriteReaches` by itself speaks of the end
only and is not inductive.

Only model-checked: the liveness properties (`LossLeadsToReset`, `AllHandled`, `DialogueEnds`,
`DiskOpEnds`), because the provers here do not reason about fairness and `ENABLED`. Every invariant
and action property and the three refinements that a passing run checks are also proved. The violations
are counterexamples.

## 5. What is left

Done: the link, the reception, the passwords, the fingerprints, and the port the keypad and the
flash share, with proofs of their safety. Left, in this order:

1. The sector window of FatFs, so that `FatFile`'s write-back becomes the disk functions of
   `FlashDisk` and `T_handle` may come in between them.
2. `num` and `sign`, shared by the dialogues of `T_code` and `T_FR`.
3. `GET_NUM` and `GET_str`, and framing lengths (`num - 5`, padding, the 16-byte case), as operators
   checked against a reference.
4. A run of `G4Rx` without the gap between frames.

Not modelled: JSON and AES as data, the console, LEDs and buzzer, the heap, directory and allocation
table of FatFs, the kernel's own lists, contact bounce, the driver's SPI timeout, which the
properties above do not depend on; two scanners at once on the key matrix are modelled, but nothing
is claimed of the keys they decode, and nothing in the repository promises anything of them. The
vendored code under `rtthread/`, `Libraries/`, `FATFS/option` (code pages) and the unused AT, notepad
and bulk erase functions is most of the repository by size and has no part in the lock's behaviour
beyond what the modules assume of it.
