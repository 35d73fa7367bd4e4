# A TLA+ model of AndroidXroar

AndroidXroar packages XRoar 1.10, an emulator of the Dragon and Tandy Colour
Computers, as an Android application: a Kotlin activity shows a web page, the page
runs XRoar compiled to WebAssembly, and XRoar itself is a C program of some two
hundred files under `src/xroar-1.10/src`. This directory holds TLA+ modules for the
parts of it whose correctness depends on the order in which things happen, TLC
configurations that check them on small instances, and proofs for TLAPS.

Paths below are relative to `src/xroar-1.10/src` unless they begin with `src/`.

## The system

### Components, their state and their operations

| Component | State | Operations | Makes it correct |
|---|---|---|---|
| Event scheduler `events.[ch]` | two lists of events sorted by due tick; a 32-bit tick counter | queue, dequeue, run a list for a time, drain it | a list is in order of true due time, first in first out; nothing due is left behind; flags and links agree |
| Floppy disk controller `wd279x.[ch]` | registers, status bits, a state and a state event, armed interrupts, the drive's lines | register reads and writes, one handler per state, four lines from the drive, reset | a command under way is scheduled; every end is announced; DRQ bit and line agree; no byte is lost silently; only write commands write |
| Disk drives `vdrive.[ch]` | a disk and a head position per drive; selected drive and head; cached pointer to the track; the lines; two index events | insert, eject, flush, two switches; select, step, read, write, search; the index pulse and its end | the cache is fresh; a disk turns |
| Disk images `vdisk.[ch]` | files and backups; a copy in each drive with its tracks, dirty, write-back, write-protect; a format for each file | load, save, extend, format | a save never loses both the old file and the new contents; what is saved is read back as it was |
| Disk cartridges `rsdos.c`, `dragondos.c`, `deltados.c`, `dragonpro.c` | latch, HALT enable, density, interrupt flags | the latch, DRQ and INTRQ from the controller, reset | a stopped CPU is waiting for something; every end of a command reaches the CPU |
| Cartridges, multi-pak `cart.c`, `mpi.c` | slots, selected slots, lines | select, toggle FIRQ, reset | the machine sees the selected slot's line as it is now |
| GDB target `gdb.c`, `dragon_run` in `dragon.c` and `coco3.c` | run state, mutex, condition variable, a socket thread, breakpoints | run a slice, trap, step; attach, break in, handle a packet, continue, detach | no access while instructions run; one stop reply per resumption; nobody blocks for good |
| Messenger `messenger.[ch]` | clients, groups and their members | join, leave, send | the user interface shows what is so |
| Tape `tape.c` | motor, play, pulses, two events, intercepted ROM routines, the byte being rewritten | motor, insert, eject, seek, write, the intercepts | pulses come exactly while the tape turns; a byte begun is padded on its tape |
| Tape files `tape_cas.c` | the bytes; a CUE list of sections and silences at their end; pulses, a bit and a byte begun; a position while playing | a sample, a pulse, seek, motor off, open, close | the list plays what was recorded; wherever a tape is put, it plays on as from the start |
| Typing `auto_kbd.c` | queue of strings and files, an index, breakpoints | queue, type a character | every character once and in order |
| Breakpoints `breakpoint.c` | two lists, the pointer of the walk | walk, add, remove | nothing is skipped and nothing freed is visited when a handler changes the list |
| SD card `spi_sdcard.c`, `spi65.c` | command and data state machine, one byte at a time | exchange a byte, select, reset, replace | a block is written whole or not at all |
| IDE `ide.c`, `idecart.c`, `blockdev.c` | two drives with registers, a buffer and a file | commands, data words, reset, replace | a sector is written whole, in its place |
| Becker port `becker.c` | input and output buffers, a socket | status, read, write | bytes in order, none twice |
| PIA `mc6821.c` | flags, control lines, three events | register access, line edges | an interrupt is up while flagged and enabled |
| CPUs `mc6809/`, `mc6801/` | masks, latches, a stack, the state of the run loop; a timer | a cycle, an instruction | every interrupt is stacked, handled and returned from once |
| Video and memory `mc6847/`, `mc6883.c`, `tcc1014/` | dividers, lines and rows of a frame; the GIME's timer and interrupts | fetch, HS, FS, borders, change of mode | each byte is fetched from where the mode puts it; a frame is whole |
| Keyboard `hkbd.c`, `keyboard.c` | modifiers, translation, the matrix | press, release, focus, sticky keys | no key stays down |
| Printer `printer.c` | destination, stream, ACK, a count, two events | strobe, choose, flush, change of machine | bytes go where the user last asked |
| WebAssembly port `wasm/wasm.c` | files under way; requests that wait | ask, file arrived or failed, try again | the result is that of asking with everything at hand |
| Android application `src/app/src/main/java`, page `src/app/src/main/assets/xroar` | library of ROMs; one pending import; boot plan | import, clear, load, read, boot, reload | the machine boots from the library, whole |

### How they interact

Everything in the emulated machine happens on one thread, which calls the machine's
`run` for a slice of time (`xroar.c`, `xroar_run`); within a slice the CPU calls back
for each cycle and the machine runs its event list up to that cycle. Parts call each
other synchronously through delegates. A disk transfer is such a conversation: the
program writes a command to the controller; the controller queues its state event;
the event's handler calls the drive; the drive moves the head and may call the
controller back with an index pulse *during* that call; the controller raises DRQ or
INTRQ; the cartridge stops or releases the CPU, through the multi-pak interface if
there is one. The user interface changes disks and tapes and switches between two
slices, and is told of changes by messages. There is real concurrency in two places:
the GDB target, whose socket thread shares the machine with the emulation thread, and
the Android application, which copies ROMs on its main thread while the page reads
them on its own.

### What is hard

- **Ordering and wrapping time.** 32-bit ticks are compared by the sign of their
  difference, two lists share one clock and a late list moves it backwards.
- **Callbacks inside calls.** Index pulses reach the controller from within its own
  call of a drive operation; breakpoint handlers change the list that is being walked;
  handlers of messages send messages.
- **Things that must eventually happen.** A BUSY controller with no event queued, a
  disk with no index pulse queued or a stopped CPU with nobody to release it are
  silent and final.
- **Stale state.** The pointer to the track under the head, copies of the drive's
  lines, a command register that is overwritten while the command runs, lines of slots
  that are not selected, what a key meant when it was pressed.
- **Transfers given up half way**, on a card, a drive, a tape or a socket.
- **Failure and crash** between the steps of a save or of an import.
- **Two threads and a third party.** Breakpoint, end of step, BREAK, timeout and a
  debugger that leaves may come in any order.

`PROJECT.json` lists these hazards line by line with the properties that cover each.

## The modules

| Module | Models | State |
|---|---|---|
| `EventsAbs` | what the scheduler promises: no lists, no wrapping clock | pending events, ticks left, who was queued before whom |
| `Events` | `events.h`, `events.c`, the start-up loop of `wasm/wasm.c` | `cur`, `list`, `at`, `queued`: the C variables; `phase`: idle, in the loop, in a delegate |
| `WD279X` | `wd279x.c` | one record `fdc`, a field for each field of `struct WD279X` |
| `VDrive` | `vdrive.c`, `vdisk_track_base`, `vdisk_extend_disk` | one record `vip`, as `struct vdrive_interface_private` |
| `Floppy` | `rsdos.c`, composing `WD279X` and `VDrive` | `fdc`, `vip`, `cart` |
| `Gdb` | `gdb.c`, `dragon_run`, and the debugger as environment | run state, mutex, waiting set, a program counter for each thread, what is on the wire |
| `Images` | saving and loading in `vdisk.c`, with `vdrive.c` and `xroar.c` above it | files, backups, the copy in each drive, the save under way |
| `Formats` | VDK, JVC, OS-9 and DMK in `vdisk.c` | the shape of a disk, and what its file says of it |
| `AutoKbd` | `auto_kbd.c` | the queue, the index, whether BASIC's polling is intercepted |
| `Tape` | `tape.c`, messages of `messenger.c`; EXTENDS `AutoKbd`, which its autorun types with | one record `deck` |
| `Cas` | `tape_cas.c`, as `tape.c` and a recording machine use it | one record `cas`, as `struct tape_cas`, with the file |
| `SdCard` | `spi_sdcard.c`, `spi65.c`, `blockdev.c` | the card, the image, the program |
| `Ide` | `ide.c`, `idecart.c`, `blockdev.c` | the controller with two drives, two files, the program |
| `Media` | a session with one of the drives, the images, the formats, the tape, typing, tape files, the card, the hard disk | all of theirs |
| `Breakpoints` | `breakpoint.c`, `dragon_op_rts` | the list, the walk's two pointers |
| `Cpu` | interrupts in `mc6809/mc6809.c` and `hd6309.c` | one record `cpu`: the run loop's state, masks, latches, the stack |
| `Mc6801` | timer and interrupts in `mc6801/mc6801.c` | one record `mcu` |
| `Pia` | a side of `mc6821.c` | one record `side` |
| `Sam` | address dividers in `mc6883.c`, lines and frames of `mc6847/mc6847.c` | the SAM; the frame being drawn |
| `Gime` | frames and timer in `tcc1014/tcc1014.c` | registers, counts of lines and rows, the timer; the frame being shown |
| `Slots` | `mpi.c`, `cart.c`, the lines of `rsdos.c` and `dragondos.c`, the GIME's interrupts in `tcc1014/tcc1014.c` | the interface, disk cartridges, GIME, the machine's lines |
| `Keyboard` | `hkbd.c`, `keyboard.c`, the page's keys | one record `kb` |
| `Printer` | `printer.c`, its use by `xroar.c` and `dragon.c` | one record `pip`, `private_cfg.printer`, the count shown |
| `Becker` | `becker.c` over a socket | one record `becker` |
| `Fetch` | `wasm/wasm.c` with `xroar.c` below it | one record `web` |
| `Library` | ROM import of `MainActivity.kt`, and `index.html` | the directory, the import, the page |
| `Host` | a session with one of the twelve modules above, `Breakpoints` to `Library`, or one of two with `Gime` | all of theirs |
| `EventsProofs`, `VDriveProofs`, `WD279XProofs`, `FloppyProofs`, `GdbProofs` | theorems about the module of that name | |
| `FilesProofs` | theorems about `Images`, `Formats`, `Library`, `Printer` and `Fetch` | |
| `DeviceProofs` | theorems about `SdCard`, `Ide`, `Keyboard`, `AutoKbd`, `Tape` and `Becker` | |
| `MachineProofs` | theorems about `Slots`, `Pia`, `Cpu`, `Mc6801`, `Breakpoints` and `Gime` | |
| `MC…` | small instances | |

Many modules keep their state in one record and are written as operators over it: an
operator is one C function (or one `case` of a state machine) and returns the record as
the function leaves the struct. That is how C composes them, and it is how the modules
do: in `Floppy` a handler of the controller and the drive operation that it calls are
one step, and the index pulse raised on the way is part of the same step; in `Tape` a
message's handlers run within the operation that sends it. On their own `WD279X` and
`VDrive` let the other side do anything; the wired controller never leaves what the
controller does on its own (`Controller`), which a run checks and `FloppyProofs` proves.

`Media` and `Host` compose parts that, as modelled, share no state. A behaviour is a
*session* with one part, chosen at the start, in which the others stay as they began:
all of a part's behaviours are there, and the product of unrelated states is not. Parts
that do interact are composed in full: `Floppy` (controller, drives, cartridge), `Tape`
(deck, messages, typing), `Slots` (cartridges, multi-pak, PIA, GIME), `Gdb` (two threads
and a debugger), `Fetch` (page, downloads, machine), `Library` (activity and page).

Some definitions are preceded by a variant marked "Slip": a plausible mistake in the
same code, there to show that the properties would notice it. No specification uses them.

History variables record what no C variable holds, and properties name their exceptions
by them:

| Module | History | Meaning |
|---|---|---|
| `Events` | `before` | order of queueing |
| `WD279X` | `acc`, `meddled`, `due`, `got` | the command accepted, whether it was overwritten, bytes expected and answered |
| `Floppy` | `tracking` | the program may rely on the track register: not after it has written that register, nor the data register while a RESTORE ran |
| `Images` | `orig`, `renamed`, `shared`, `cut` | what a file first held; given to a new disk; inserted while a drive held it; a write ran out of room unnoticed |
| `AutoKbd` | `asked`, `typed` | characters asked for and typed |
| `Tape` | `split`, `spins` | rewriting was turned off within a byte; a handler never returns |
| `Cas` | `heard`, `wave`, `whole` | the whole bits the machine has sent, and where it is in one |
| `Cas` | `told`, `odd`, `bare`, `strayed`, `spins` | a rewind was asked for; a seek or a rest cut into a recording; bytes without timing were recorded on; a seek into a block; opening never ends |
| `SdCard`, `Ide` | `carried`, `faulty`, `misled`, `pulled` | the card took one command's bytes for another's; the image failed; the program was told wrong; an image was taken out in a transfer |
| `Breakpoints` | `due`, `called`, `nested` | who should be called, who was; memory was read on the way |
| `Cpu` | `owed`, `diverted` | an NMI to come; the debugger set the PC between a push and its vector |
| `Mc6801` | `owed`, `dropped`, `stale`, `unseen`, `halved` | what the timer should be heard for, how that was forgotten, taken away, or raised unseen; half a compare value was met |
| `Pia` | `late`, `remade` | the cause went before the event ran; the mode changed under a strobe |
| `Sam` | `steady`, `base` | the frame has had one mode; its first address |
| `Gime` | `shape`, `rows`, `carried`, `rewritten`, `base`, `vbords` | what of the mode has stood since the frame, or its active area, began; it began within an active area; a register was written; its first address; its border interrupts |
| `Gime` | `value`, `lines` | what the timer was last loaded with, and the lines since |
| `Slots` | `still`, `missed` | a cartridge toggled to the level it was at; NMI was enabled too late |
| `Keyboard` | `held`, `stray` | keys held; keys down whose meaning has changed |
| `Printer` | `misclosed`, `left`, `unshown` | a pipe closed as a file; a freed printer's event; its count shown |
| `Becker` | `lost`, `emptied` | bytes thrown away; what was written when the output was last empty |
| `Fetch` | `overtaken`, `misplaced` | a request overtook an earlier one; BASIC was typed at another machine |
| `Library` | `silent`, `interrupted` | an import found nothing; the application was killed in a copy |

### What is abstracted

- `Events`: delegates are any sequence of queueing and dequeueing. The tick counter has
  `2 * Half` values. Callers keep to a contract, `Near`: nothing is scheduled half the
  counter's range or more from another event or from the end of the run. The C code
  relies on it and does not check it (half the range is 150 seconds).
- `WD279X`: what is read from a drive (IDs, marks, bytes, checksums) is the drive's
  answer to a handler, one of the set `Responses`. Delays are left out: a queued event
  runs at any later time. The ready line and its two interrupts are left out because
  every board of the repository ties the line high. Registers wrap at `MaxByte + 1`.
- `VDrive`: bytes on a track, and with them the position of the head, are left out;
  each operation may reach the end of the track or not. Snapshots are left out.
- `Floppy`: no Becker port, no ROM.
- `Gdb`: the contents of packets; a reply is sent in one step; a wake-up of a condition
  variable without a signal; `gdb_interface_free`.
- `Images`: what a file or a disk holds is the number of the write that made it.
- `Formats`: bytes are counted and not kept. A disk is its type, cylinders, heads and a
  layout for each track; a sector is the place it was written at.
- `Tape`: a tape is the number of its pulses, and what is written the number of bits in
  its last byte. `AutoKbd`: a character is the number of the request for it.
- `Cas`: a bit is the number of the bit the machine sent, a byte a tuple of them, and
  every second bit is short. Time is counted in half-waves; silences below 10 ms are not
  entries. A half-wave is told from the next by its length alone, as in the code.
- `SdCard`, `Ide`: a byte or word of data is the number of the command that sent it. The
  registers that carry it to the card, and single IDE registers, are not separate steps.
- `Cpu`, `Mc6801`: of the instructions, those that touch masks, latches, stack or timer;
  the registers that are pushed are one value. An MC6809's illegal instructions that push
  all registers without setting E are left out. `Cpu` goes cycle by cycle; an instruction
  of `Mc6801` is one step within which its cycles pass.
- `Pia`: control registers and lines; the data lines are left out. `Slots`: the GIME's
  interrupt from the cartridge; its other sources raise theirs in the same way.
- `Sam`: addresses, not data; the clock rates of the SAM and memory decoding are left
  out, and with them the fast mode in which the address is the CPU's.
- `Gime`: a line is three events, in the order their delays always put them in; pixels,
  colours, horizontal timing and the MMU are left out. The tables of lines are constants,
  of which the module assumes what it needs (`Fits`), and assumes it of the measured ones
  too. The timer's own rate has no length: its event comes at any time.
- `Keyboard`: four host keys stand for the rest, and two keymaps for all.
- `Becker`, `Printer`: bytes are numbers. `Fetch`, `Library`: a file is there, whole or
  in part, or is not.

### The environment

- The host of `WD279X` loads track and sector registers only between commands. Commands
  other than FORCE INTERRUPT are given while BUSY only in run `wd_busy`.
- The program in `Floppy` behaves as a disk driver does: no command while BUSY but FORCE
  INTERRUPT, FORCE INTERRUPT only with HALT disabled, drive and registers changed
  between commands, HALT enabled only for a command it has given. Without this
  discipline a program can stop the CPU for good; that is how the hardware is, too.
- The user inserts, ejects and flips switches at any moment between two steps.
- The debugger in `Gdb` waits for no quiet moment: it may break in or come back at once,
  ask while the machine runs, and vanish by a reset or by closing its socket. It removes
  its breakpoints before it goes.
- The host in `Images` may refuse to open a file, run out of room, or end the process in
  the middle of a save; in `SdCard` and `Ide` any access to an image may fail.
- The machine in `Cas` sends half-waves and leaves its line idle, at either level, or at
  rest for a moment; the motor stops and the user rewinds, seeks and reopens at any of
  them. It sends whole half-waves: widths at the limits of what is a pulse are left out.
- The programs in `SdCard` and `Ide` may give up at any byte. That of `SdCard` then
  sends one with the card deselected before its next command, and that of `Ide` moves
  data only while it sees DRQ.
- What `Cpu` samples of FIRQ, IRQ and HALT is a choice at every cycle. The program of
  `Mc6801` is any sequence of instructions.
- The server of `Becker` sends at any time; the socket takes any part of what it is
  offered, or nothing.
- The page in `Fetch` asks for a machine, a cartridge, a file or a program at any time,
  and a fetch ends at any time, well or not. In `Library` the user picks folders, clears
  the library, reloads the page and kills the application at any moment.

## The runs

| Run | Asks | Instance and why it is enough |
|---|---|---|
| `events` | Are lists and flags consistent, is every list in true order, is nothing left behind, is the abstract scheduler implemented? | Two lists (the second run late, with no time of its own, and drained), three events, delays 0 to 2, a counter of 8 values: the clock wraps within a few dispatches, two events share a list and a tick |
| `events_live` | Does an event that stays queued run? | One tick per run; delays 1 and 2, since a delegate that asks for no delay may keep a run going for ever |
| `wd` | What the controller owes its host and its disk, in four properties | One command byte of every kind, sectors of two bytes (a first and a last), a search of two pulses, bytes 0 and 1, all three lines moving freely |
| `wd_busy` | Finding 1 | The sector commands, with WRITE SECTOR also while BUSY |
| `floppy` | Do controller, drives, cartridge and program agree (`WiredUp`), and does the CPU hear of all it waits for (`CpuHears`)? | Two drives, RESTORE, SEEK, READ and WRITE SECTOR, FORCE INTERRUPT, reset, insertion and ejection at any point |
| `floppy_live` | Is the CPU released, does `Floppy` implement `WD279X`? | One drive, every transfer command, WRITE TRACK and READ ADDRESS included |
| `floppy_abort`, `floppy_protect` | Findings 2 and 3 | One drive, one command |
| `media` | For each session of `Media`, its property | See below |
| `host` | For each session of `Host`, its property | See below |
| `gdb` | All properties of the GDB target | Four packets under way in both directions, one debugger after another, both ways to vanish |
| `gdb_hasty` | Finding 4 | Three packets |

The sessions of `media` and `host`, whose bounds are in `MCMedia.cfg` and `MCHost.cfg`:

| Session | Property | Instance |
|---|---|---|
| drives | `CacheFresh`, `Turning` | Two drives of two cylinders, one protected disk of one track and an empty one that grows in both directions |
| disks | `OriginalKept`, `EjectedMeansSaved` | Two drives, two files, one of a format that holds sectors only; two writes; a host that refuses, runs out of room or crashes: a third write or file repeats what two have done |
| formats | `SectorsReloaded` | Layouts with sectors from 0, from 1 and from 200, of one size and of two, single and double density; 39, 40, 88, 159 and 256 cylinders: a standard size, one below it, an odd one, and the limits of the headers |
| cassette | `TapeTurns` | Two pulses on a tape, bytes of two bits, both kinds of machine and all flags |
| recording | `PlayedAsRecorded` | Bytes of two bits, a buffer of three pulses (one more than a bit, so that it fills within a byte), three bits recorded on files that are opened with up to three entries and hold up to four bytes: new, with a list, and without one, smaller than the marks of a list or as large; played from CAS, K7 and ASCII files, put at the start, within a byte, within a section and within a block |
| typing | `TypedInOrder` | Four characters in two events: a second string is queued while the first is typed |
| card | `BlocksWhole` | Two blocks of two bytes (a first and a last), two commands, sectors as long as a block or half as long |
| hard disk | `SectorsWhole` | Two drives of one sector of two words, that may grow by one, raw and with a geometry, two commands of one or two sectors |
| breakpoints | `BreakpointsHeard` | Two breakpoints at one address and one at another: a handler may remove itself, the next, or one before |
| interrupts | `InterruptsAccounted` | Two frames nested on the HD6309, which does as an MC6809 until its mode is changed, and one on that |
| timer | `TimerHeard` | A counter to 3, which wraps within an instruction or an interrupt |
| ports | `IrqMeansFlagged` | Either side, every control register that selects the port, and 0 |
| video | `SamInStep` | Frames of 13 lines, so that rows of 12 lines go on by one; all eight modes, lines of 42 and 22 bytes fetched in pieces of 10 or whole; a base near the end of memory, so that addresses wrap; one change of mode or base in a frame |
| frames | `FramesWhole` | Frames of 27 and 32 lines that have the proportions of those of 263 and 314; 15 modes of a CoCo 3 and a VDG, rows of 1 to 12 lines, shortened first rows, endless lines; one change, offset or reset in a frame, and any number of writes that change nothing |
| lines | `FramesWhole` | A timer with two bits, in a GIME of either year |
| slots | `SlotsHeard` | Two slots: two cartridges that start themselves, RS-DOS with DragonDOS, DragonDOS with one that starts itself |
| keyboard | `KeysLetGo` | A letter, a key with characters on two keys of the Dragon, SHIFT and CONTROL; one change of what keys mean |
| printing | `PrintedWhereAsked` | Two names, two bytes, any number of changes of machine |
| server | `BytesCarried` | Four bytes each way through buffers of two: a buffer fills twice |
| downloads | `AsIfAtOnce` | A machine with a default cartridge and one that takes none, a file for each, three requests |
| roms | `BootedFromLibrary` | Two ROMs, two imports: the second falls in the page's reading of the first |

These two runs do not check for deadlock: a session ends when its bound on bytes,
commands or requests is reached. The parts share no state, so a session with two of them
would show nothing more.

In the runs of `wd` and `floppy*` TLC identifies states by a VIEW, `Remembered`: fields
that will be assigned before they are next read (bytes left of a finished command, the
command register when no event is queued, and so on) do not tell states apart. No
property reads such a field. In `media` and `host` the view, `MCView`, is the session and
its own part: the other parts never change. It leaves out four things: what the host did
to the last save, which is read only in the step that sets it; the E flag of the CPU's
own CC, which is read only in what has been pushed; while a tape file plays, what
only its recording reads, which cannot change until the tape is taken out, and that leads
back to the state it was put in from; and the GIME's row and address once the mode has
changed in an active area, since nothing reads them before they are next set.

Deadlock is checked elsewhere except in `floppy_live` and `gdb`, where the program really
can stop: after a failed assertion (finding 2), and on a mutex (finding 4).

### Fairness

- `Events`: the main loop runs both lists over and over (`xroar.c:1590`), a loop goes on
  and a delegate returns. `QueuedRuns` follows, and it is what lets
- `Floppy` assume that a queued event is dispatched: weak fairness of the controller's
  resumption and of the two index events. Program and user owe nothing.
- `Gdb`: weak fairness of the emulation thread, which never waits for more than 20 ms
  except for the mutex; strong fairness of the socket thread, which finds the mutex free
  again and again because the emulation thread sleeps between slices; the debugger reads
  what is sent to it.

`HaltReleased` is about a disk that stays in the drive: with none there are no index
pulses, and the code does leave the command BUSY. `Reported` and `LeftRunning` are about
runs in which the mutex is always given back. The sessions of `media` and `host` state
safety only: nothing in the code makes a user, a program or a server go on.

### Findings

1. `wd_busy`. `wd279x.c:429` says "Ignore any other command if busy", but line 400 has
   stored it in `command_register`, from which the running command reads its flags: a
   READ SECTOR turns into a WRITE SECTOR.
2. `floppy_abort`. `vdrive_write_idam` does not ask whether there is a disk;
   `vdisk_extend_disk` asserts it. Ejecting during WRITE TRACK ends the emulator.
3. `floppy_protect`. `doc/xroar.texi:687` says that unticking "Write enable" prevents
   writing; the line to the controller changes only with the next step, selection or
   change of disk, and until then sectors are written.
4. `gdb_hasty`. `gdb_run_lock` may return "stopped" with the mutex held, when the
   machine was continued and stopped again before the emulation thread had the mutex
   back; `dragon_run` then returns without unlocking, and both threads block for ever.

### What the code does that its reader may not expect

Properties name their exceptions. These are the ones that come from the code and not
from its environment, with other behaviour met in reading it; the modules do as the code
does.

- **Images.** A file inserted while a drive holds it is loaded before that drive's disk
  is saved (`xroar.c:1828`); a new disk under an old name is not backed up
  (`vdisk.c:223`); a save that runs out of room is not noticed by every format.
- **Formats.** A single-sided JVC of 88 cylinders or more is read back as two-sided, and
  so is an OS-9 image of as many tracks, with one more if they are odd; sectors numbered
  64 apart or more are saved to a JVC and refused by its loader;
  OS-9's geometry is lost when its disk is formatted otherwise, extended or padded; a
  VDK whose first sector is not 1 is saved unreadable, with a warning, and loses its
  write-protect flag; 256 cylinders overflow a byte in the headers of VDK and DMK; a
  blank JVC is saved as a header of zeros. (The spans and the odd tracks are at
  `vdisk.c:1008` and `vdisk.c:541`; the search for an inductive invariant found both, and
  `MCMedia` has layouts and sizes that reach them.) `vdisk_get_info` refuses disks of one sector
  to a track. A loop of `vdisk_read_sector` (`vdisk.c:1204`) does not advance; it is
  reached for a sector larger than was asked for.
- **Tape files.** A CAS file without a CUE list has no timing, so opening it to write
  does not append, against `tape_cas.c:223` and line 306: it is as if rewound, and the
  first sample of a recording erases it; in a deck that does not turn, its bytes up to
  where line 1093 left the file are taken for new, and a list is added that plays them
  twice. A seek forward loses the section begun (line 591); a rewind keeps the pulses
  that are buffered. `cue_entry_seek` leaves the offset in a block of a file as it was
  (line 571). Opening a K7 file whose first sound is a leader without silence counts for
  ever (line 313). Silences are written as 16 bits of milliseconds, also when they were
  joined into more.
- **Tape.** An ejected input leaves its intercepts, against `tape.c:1630`; turning
  rewriting off within a byte and on again after ejecting makes a handler spin.
- **Typing, breakpoints.** A handler that reads memory while a watchpoint is set hides
  the breakpoints after its own (`breakpoint.c:212`). Reads for a debugger or a
  breakpoint go through the SAM's cycle and so change whether it is in a fast or a slow
  one without a change of the clock; `mc6883_reset` does the like.
- **Floppy disks.** A data register written while RESTORE runs is where the head stops,
  with the track register saying so (`wd279x.c:563-600`). READ TRACK is not implemented: it
  raises INTRQ and stays BUSY, with nothing queued (line 897). An interrupt armed for the index pulse takes the event of the command
  that is under way off the queue, and leaves it BUSY (line 335).
- **Cartridges.** All cartridges that start themselves share a static level
  (`cart.c:983`). DragonDOS's NMI, enabled with INTRQ up, is not raised. A stale low byte
  of the GIME's timer survives.
- **CPU.** On the MC6803 WAI does not look again at the latch it waits for, and waits for
  ever unless the interrupt was there when it began (`mc6801/mc6801.c:392`); SEI, TAP and
  any interrupt taken put out a latched timer interrupt (lines 486, 549, 1339); enabling
  an interrupt whose flag is up raises nothing; clearing the flag while it is latched
  gives a spurious SCI vector (line 429); reset leaves the timer's registers as they were.
- **GIME.** Registers written in the bottom border, with the same values even, give it the
  length of a top border again (`tcc1014/tcc1014.c:1599`); it ends first, in every mode of
  the tables. A change to 60 Hz there begins a second active area, which goes on into the
  next frame, without a top border. One such frame puts it right; but if a register is
  written in the bottom border of each, they go on so. A reset leaves the active area, and
  the events queued for the line, as they are.
- **PIA.** An active edge of Cx1 restores Cx2 in the mode where the comment says that E
  does. An interrupt that was queued is raised though its flag has been cleared since.
- **SD card.** `acmd` survives a reset; a failed write is answered as accepted; of an
  image with 256-byte sectors, half of each block is dropped (`blockdev.c:277`).
- **IDE.** The cartridge decodes three address lines, so the device control register and
  soft reset are out of reach and BSY is never seen; CHS addresses do not work on the
  second drive; INITIALISE PARAMETERS fails on a raw image, and every READ and WRITE
  after it; an error in CHS on a raw image divides by zero sectors; VERIFY always fails;
  in LBA an error names the wrong sector; writing past the end makes the file longer; a
  drive whose image is taken out in a transfer meets an assertion.
- **Keyboard.** A key held while translation, keymap or joystick changes, or repeated
  with another modifier, may leave a key of the Dragon down.
- **Printer.** `printer_interface_free` leaves the event that reports the count queued
  whenever a stream was open; a machine never sees busy.
- **Becker port.** What a short send leaves waits for the next byte the program writes.
- **WebAssembly.** Taking a cartridge out, and any request in the frame between the last
  fetch and the retry, overtakes requests that wait (`xroar.c:2259`, `wasm/wasm.c:623`).
- **Android.** Importing a folder with no ROMs empties the library and reloads no page.

## What is proved

The theorems hold for every value of the constants that meets the named assumptions of
the modules. Each is `Spec => []Inv` from an inductive invariant, or a step property
from the same invariant. Every invariant that a run checks was checked on its own, and
every inductive invariant was checked by TLC on a run's instance before it was proved.

**`EventsProofs`** — any finite set of events and lists, any set of delays below half
the counter's range, any counter width. `TypeCorrect`, `ListsAgree`
(`LinkedIffQueued`), `InOrder` (`Ordered`), `WindowKept` (`Window`, which no run
repeats), `RunComplete`
(`NoneLeftBehind`) and `Refinement` (`Implements`: the lists and the wrapping clock
implement `EventsAbs`). The assumptions are those on `Half`, the lists and the delays,
and the callers' contract `Near`, which is a guard of the specification. Order is not inductive
by itself, for two reasons that `IInv` supplies: the sign of a wrapped difference
survives a move of the clock only while every tick stays within the window, and a
dispatch takes the right event off the right list only while lists and flags agree. The
proof goes from insertion and removal, element by element, to a list's soundness
relative to ticks to go, to tick arithmetic, and last to one lemma for each action.

**`VDriveProofs`** — any drives, any number of cylinders, any images. `TypeCorrect`,
`CacheNeverStale` (`CacheFresh`), `AlwaysTurning` (`Turning`). The three are inductive
together: that a disk keeps turning needs the ready line to be the truth. Every
operation that selects, moves or changes a disk ends in `update_signals`, which makes
fresh whatever it is given (`UpdateSignalsFresh`). Growing a disk does not end in
it, and keeps the cache fresh for a reason of its own (`ExtendFresh`).

**`WD279XProofs`** — any width of registers, lengths of sectors, set of commands and set
of answers of a drive. `CommandsGoOn` (`BusyIsScheduled`), `EndsAreTold` (`HostTold`),
`SectorsAccounted` (`NoSilentLoss`, a step property) and `OnlyWritesWrite`
(`WritesCommanded`). The invariant `FdcInv` adds to them which state may be queued for
which command (`Stage`) and the account of the sector under way (`Account`): bytes left,
bytes taken and the one that is asked for are what the sector has, in each state by a
formula of its own. There is a lemma for each handler. `OnlyWritesWrite` has a
hypothesis, that no other command is given while BUSY; run `wd_busy` shows what happens
otherwise. The three others hold with such commands, and name the exceptions.

**`FloppyProofs`** — any drives, tracks, images and answers, and any program of the
discipline below. `Implementation` (`Controller`: `Floppy` implements `WD279X`),
`AgreedAlways` (`WiredUp`) and `CpuReleased` (`CpuHears`). The invariants of
`WD279XProofs` and `VDriveProofs` are used through instances; to them come the lines'
copies (`Wired`), what a RESTORE knows of the head (`Restoring`: it counts down from the
last track, so the register is never behind the head), and what HALT waits for
(`Stopped`). That a step of the composition is one of the controller's rests on this: in
the composition the drive's lines change in the middle of a handler, and only a step of
the head looks at them after that. It needs of the answers that with each there is the
same one with other lines (`LinesAssumption`), since on its own the controller takes
lines and answer together. `CpuReleased` has a hypothesis on the program: it gives
neither READ TRACK nor an interrupt armed for the index pulse, each of which can stop
the CPU for good, as the list above says.

**`GdbProofs`** — any number of packets under way, any way to vanish. `TypeCorrect`,
`HandledStopped` (`HandledWhileStopped`), `FoundStanding` (`StandsStill`) and
`RepliesAwaited` (`NoStrayReply`, a step property). The packet is handled without the mutex, after
a check without the mutex. It is safe because the emulation thread executes only with
the mutex and in the run state it took (`SliceHeld`), and because nobody but the socket
thread itself takes a stopped machine out of that state (`RequestStopped`). What the
debugger may rely on is proved from `Conversation`: a resumption is in one place at a
time, in the request that is on its way, in the machine that runs or has not reported its
stop yet, or in the report; and for a debugger that waits for none it is nowhere. That
needs to be known of who may be on the line at all: breakpoints belong to a debugger
that is there (`Arming`), and nothing is left of a connection that is closed (`Seated`).

**`FilesProofs`** — any drives, files, ROMs, names and bytes, layouts and cylinders. `ImagesKept`
(`OriginalKept`): a file that no new disk was given the name of is as it was first seen,
or its backup is, which is never made again; this is inductive once it is known that
what a disk was loaded from was there. `EjectionsSave` (`EjectedMeansSaved`, a step
property): a disk thought clean is what its file holds. `RomsWhole`
(`BootedFromLibrary`): while nothing is under way that the page has yet to be told of,
what it has read, or never planned to, is the library's. `PrintsWhereAsked`
(`PrintedWhereAsked`). `AsIfFilesWereAtHand` (`AsIfAtOnce`): the reference asks with
every file at hand, the program with some, and the queue is what lies between. So the
invariant (`WebKept`) has a path through the queue (`Serves`): what its requests come to,
one after another, from what the machine and its cartridge are now; it ends at what was
wanted, has come there wherever only loads are left, and has BASIC's machine where its
request stands. A request that is served is the path's first step, one that is queued
its last. That every file of a queued request has been asked for, and that `waiting` is
the number of those not yet come, is what keeps a request from waiting twice.
`SectorsAreReloaded` (`SectorsReloaded`): a stored file is what saving made of the shape
(`FormatsInv`), and loading undoes it. Two things make that hard. How the bytes are
divided: a size rounded up to a standard one and divided by the products of sectors,
heads and bytes comes out whole, and one side that is too long is made two. And whether
the first sector is believed: of a disk that OS-9 formatted it says no more than there
is, and all there is only in its own geometry, with a second side made of the first at
most (`Fits`); so a file is read as OS-9's only where that comes to what its header would
have said. Rounding alone would not do: it is formatting, extending and reading back,
over and over, that must not let what is said catch up with what there is.

**`DeviceProofs`** — images of any size, blocks and sectors of any length; any texts,
pulses and buffers. `BlocksKept`
(`BlocksWhole`): from its response on a command has the address it was sent with, and
the buffer has as much of the block as has come. `SectorsKept` (`SectorsWhole`): drive and
program count the words of a transfer alike, across sectors, and the buffer has what the
file has, or what was sent. A command no drive has heard is not in its place, but is held
up at the end of a sector. The lemmas are about division by the length of a sector.
`KeysAreLetGo` (`KeysLetGo`) from `KeysHeld`: each crosspoint that is closed and not
stray is claimed by a host key that is held, by what that key came to mean when it was
pressed, or by a key of the page; SHIFT is down only with its host key.

`TypesInOrder` (`TypedInOrder`), `TapeAgrees` (`TapeTurns`, and `TypedInOrder` for what
the tape has typed) and `BytesAreCarried` (`BytesCarried`) are about queues that are read
as one sequence. What was typed and what the queue still holds are the requests in order
(`TypingKept`), where the first text is short of what the index has passed; what the
server got and what the buffer has not sent are the bytes written less those lost
(`BeckerKept`). Both are folds, `FlattenSeq`, and what a fold computes needs induction.
The library's induction theorems take an operator and cannot be used, but the least
element of a set of numbers can: from `WFMin` comes `AllNumbers`, induction for *sets* of
numbers, and from it, for sequences of any length, that flattening appends
(`FlattenAppend`), begins with its first (`FlattenHead`) and keeps types
(`FlattenTyped`). The tape has messages handled within messages: `DeckSteady` is what
each handler finds and leaves, the breakpoints being those the flags want, and there is a
lemma for each handler and each operation on top of it.

**`MachineProofs`** — any finite set of slots and any cartridges in them; any control
registers of a PIA; interrupts nested to any depth; any breakpoints; any tables of a GIME
that `Fits` allows. `CartridgesHeard`
(`SlotsHeard`): what the interface has of a slot is what its cartridge asks for, and the
level a lone cartridge toggles to next is never the one it toggled to last.
`TimerIsHeard` (`TimerHeard`) from `McuInv`, whose largest part says what each state of
the run loop owes to the timer and what is latched; an instruction's cycles are one step,
of any number, for which the module has a closed form: a count passes the compare value
and zero, or does not.
`InterruptsFlagged` (`IrqMeansFlagged`). `FramesMatch` (`InterruptsAccounted`): each
handler has its frame, there is one frame more exactly in the states between a push and
its vector, and a frame has as many registers as its E flag says. `WalkHears`
(`BreakpointsHeard`): what is due and not called is onward of the walk's pointer, or of
the next one while a handler runs; both move with what is removed. `FramesAreWhole`
(`FramesWhole`): in a frame that keeps its shape the line says what each count is
(`Latched`, `Bordered`, and `Unbordered` for one that began within an active area), so
that the bottom border, when a write has given it an end again, is over before it; and
of the lines shown, some number of rows have ended and some number of lines of the next
have gone (`Shown`), which division by the lines of a row makes `RowsEnded`.

Constants are assumed to be no more than the modules' `ASSUME`s say: that slots are
finite and an image has a block, that bounds are natural numbers, and that markers such
as `NoDisk` are none of what they mark. TLC evaluates them in the runs.

Types are checked by TLC too: `WiredUp` begins with those of controller, drives and
cartridge, and each invariant of `host` and `media` with that of its part. Those of
`Events` and `Gdb` are left to the theorems.

### Only model-checked

- Everything that must eventually happen (`QueuedRuns`, `HaltReleased`, `Reported`,
  `LeftRunning`): liveness under fairness is beyond the proof system.
- `SamInStep`: the dividers of the SAM feed one another in a tree that a register shapes,
  which the code walks recursively and `Sam` with it; the prover takes no module with a
  RECURSIVE operator. `PlayedAsRecorded`: bytes are read from bits and bits from pulses,
  through a list of marks and a buffer that may end within any of them; these are
  recursive functions within one another, of data as much as of state, and an invariant
  would restate them all.
- The findings, which are counterexamples.

## What is not modelled

- **Arithmetic and tables on one thread**, where example programs are the better test:
  the instruction sets of the CPUs, pixels and colours, memory decoding and clock rates,
  sound, the axes of joysticks, languages of keyboards, character sets.
- **Host I/O**: user interfaces, audio and video drivers, sockets being opened, option
  parsing and look-up of files, the pickers and settings of the Android application.
- **Generated code**: `xroar.js` beside the web page and the GTK resources.
- **Within the modelled parts**: the bytes of a track, checksums and the encoding of a
  sector; tapes that are audio files (`tape_sndfile.c`), whose samples a library keeps;
  packet syntax and checksums of the GDB protocol, and
  `gdb_interface_free`; ROM banks; Delta and DragonPro, and the deluxe CoCo's parts;
  joining and leaving groups of messages; single registers of IDE and SPI; the `coco3.c`
  variant of the run loop, which differs from `dragon.c` only in what it runs.
- **Snapshots**: each part writes and reads its own fields in order; a snapshot is taken
  between two slices, and its hazards (a field forgotten, an event re-queued) are of a
  kind that a round trip through the code tests better than a model does.

## Plan

All that the plan had to model is modelled. What is left to prove is little, and hard.

1. **`Cas`**: `PlayedAsRecorded`, which needs its readers as functions of one recursion.
2. **`Sam`**: `SamInStep`, once the tree of dividers is a function on its six registers.
