----------------------------------- MODULE Ide -----------------------------------
(***************************************************************************)
(* The IDE cartridge: idecart.c, the controller and its two drives in       *)
(* ide.c, and the files behind them in blockdev.c.  Commands end at once;   *)
(* the words of a sector go one by one through a buffer of the drive, and a *)
(* transfer may be broken off by another command, a reset, or the user.     *)
(* The cartridge decodes eight registers, so the device control register    *)
(* and the soft reset behind it are out of reach, and BSY is never seen.    *)
(*                                                                         *)
(* The program numbers its commands to read and write, each with all the    *)
(* registers it needs and always in one mode, and moves a word only while   *)
(* it sees DRQ; it gives up a command when it turns to the other drive.  It *)
(* writes into a sector the drive, the command's number and the sector.     *)
(***************************************************************************)
EXTENDS Integers, Sequences

CONSTANTS
    HdKinds,     \* of images: "raw" has no geometry, "old" is not addressed by LBA
    HdSectors,   \* in an image, before a write beyond its end
    IdeWords,    \* in a sector: 256 in the code
    LastTransfer \* bounds the commands to read and write

ASSUME IdeAssumption ==
    /\ HdKinds \subseteq {"raw", "old", "ide"} /\ HdKinds # {}
    /\ HdSectors \in Nat \ {0} /\ IdeWords \in Nat \ {0} /\ LastTransfer \in Nat

VARIABLES
    ide,    \* the controller
    hd,     \* the two files
    driver  \* the program

ideVars == <<ide, hd, driver>>

Units == {0, 1}
Counts == {1, 2}
Word == Units \X (0..LastTransfer) \X (-1..HdSectors)

\* All words of a sector alike.
Filled(unit, n, lsn) == [w \in 1..IdeWords |-> <<unit, n, lsn>>]

IdeDrives ==
    [present : BOOLEAN, failed : BOOLEAN, \* failed: told of a geometry it does not have
     err : BOOLEAN, drq : BOOLEAN,        \* of the status register
     state : {"IDLE", "DATA_IN", "DATA_OUT"},
     dptr : 0..IdeWords, data : [1..IdeWords -> Word],
     length : 0..2,           \* these two only in a transfer, for each sets them first;
     pos : -1..(HdSectors + 2)] \* pos is that of the file, or -1: no valid position

Drivers ==
    [mode : {"LBA", "CHS"}, last : 0..LastTransfer, \* the commands numbered
     lsn : 0..HdSectors, count : Counts, cmd : {"none", "READ", "WRITE", "IDENTIFY"},
     words : 0..(2 * IdeWords), got : Seq(Word), \* moved for cmd; got of this sector
     pulled : BOOLEAN, \* an image was taken out in a transfer
     misled : BOOLEAN] \* it was told of a sector what is not so

Unit == ide.drive[ide.selected]

Quit == [driver EXCEPT !.lsn = 0, !.count = 1, !.cmd = "none", !.words = 0, !.got = <<>>]

-----------------------------------------------------------------------------
IdeReady(d) == [d EXCEPT !.drq = FALSE, !.state = "IDLE", !.length = 0, !.pos = -1]

Failing(d) == [IdeReady(d) EXCEPT !.err = TRUE]

DataIn(d) == [d EXCEPT !.state = "DATA_IN", !.dptr = IdeWords, !.drq = TRUE]

\* (Slip: the words of a sector given up stay in the buffer.)
DataOutOn(d) == [d EXCEPT !.state = "DATA_OUT", !.dptr = @ % IdeWords, !.drq = TRUE]

DataOut(d) == [d EXCEPT !.state = "DATA_OUT", !.dptr = 0, !.drq = TRUE]

ResetDrive(d) == IF d.present THEN [IdeReady(d) EXCEPT !.err = FALSE] ELSE d

\* xlate_block finds a sector that the image has, and bd_seek_lsn goes to it; it
\* compares heads with all of a register that holds the number of the drive too.
Found(unit, lsn) ==
    /\ \/ driver.mode = "LBA" /\ ide.kind # "old"
       \/ driver.mode = "CHS" /\ ide.kind # "raw" /\ unit = 0
    /\ lsn < HdSectors

\* The handlers of commands to one drive; valid is what the parameters are.
Completed(d, unit, cmd, lsn, count, valid) ==
    LET t == [d EXCEPT !.length = count, !.pos = lsn]
    IN  CASE cmd = "IDENTIFY" ->
               [DataIn(d) EXCEPT !.dptr = 0, !.length = 1, !.data = Filled(unit, 0, -1)]
          [] cmd = "INTPARAMS" ->
               IF valid /\ ide.kind # "raw" THEN IdeReady([d EXCEPT !.failed = FALSE])
               ELSE Failing([d EXCEPT !.failed = TRUE])
          [] cmd \in {"READ", "WRITE", "SEEK"} ->
               IF d.failed \/ ~Found(unit, lsn) THEN Failing(d)
               ELSE IF cmd = "SEEK" THEN IdeReady(d)
               ELSE IF cmd = "READ" THEN DataIn(t) ELSE DataOut(t)
          [] OTHER -> IF valid THEN IdeReady(d) ELSE Failing(d)

-----------------------------------------------------------------------------
\* The device register, which any drive takes, there or not.
SelectUnit(unit) ==
    /\ ide' = [ide EXCEPT !.selected = unit]
    /\ driver' = Quit
    /\ UNCHANGED hd

\* The registers of a command and then the command, all of which a drive that is not
\* there refuses.
IssueCommand(cmd, lsn, count, valid) ==
    /\ LET d == [Unit EXCEPT !.err = FALSE]
           done == Completed(d, ide.selected, cmd, lsn, count, valid)
           drives == [ide.drive EXCEPT ![ide.selected] = d]
       IN  ide' = IF ~d.present THEN ide
                  ELSE IF cmd # "EDD" THEN [ide EXCEPT !.drive[ide.selected] = done]
                  ELSE [ide EXCEPT !.selected = 0, !.drive =
                          [i \in Units |-> IF drives[i].present THEN IdeReady(drives[i])
                                           ELSE drives[i]]]
    /\ \/ /\ cmd \in {"READ", "WRITE"} /\ driver.last < LastTransfer
          /\ driver' = [Quit EXCEPT !.last = @ + 1, !.cmd = cmd,
                                    !.lsn = lsn, !.count = count]
       \/ cmd = "IDENTIFY" /\ driver' = [Quit EXCEPT !.cmd = cmd]
       \/ cmd \notin {"READ", "WRITE", "IDENTIFY"} /\ driver' = Quit
    /\ UNCHANGED hd

\* ide_set_error; the registers it changes are loaded again for the next command.
SetError(unit, d) == [ide EXCEPT !.drive[unit] = Failing(d)]

\* At the end of a sector the program looks for ERR: what it was told is so, or not.
Judged(p) ==
    LET u == ide.selected
        at == p.lsn + p.words \div IdeWords
        there == at <= Len(hd'[u])
    IN  IF p.words % IdeWords # 0 \/ ide'.drive[u].err THEN p
        ELSE [p EXCEPT !.misled = @ \/
                CASE p.cmd = "READ" -> ~there \/ p.got # hd'[u][at]
                  [] p.cmd = "WRITE" -> ~there \/ hd'[u][at] # Filled(u, p.last, at - 1)
                  [] OTHER -> p.got # Filled(u, 0, -1)]

\* The program has moved one more word, to it or from it.
WordIn(word) ==
    driver' = Judged([driver EXCEPT
                        !.words = @ + 1,
                        !.got = IF driver.words % IdeWords = 0 THEN <<word>>
                                ELSE Append(@, word)])

WordOut == driver' = Judged([driver EXCEPT !.words = @ + 1])

Wants(cmds) ==
    /\ Unit.drq /\ driver.cmd \in cmds
    /\ driver.words < IdeWords * (IF driver.cmd = "IDENTIFY" THEN 1 ELSE driver.count)

\* Reading the data register: the next sector is read with its first word.
ReadWord(fails) ==
    /\ Wants({"READ", "IDENTIFY"}) /\ Unit.state = "DATA_IN"
    /\ UNCHANGED hd
    /\ LET u == ide.selected
           d == Unit
           first == d.dptr = IdeWords
           got == ~fails /\ d.pos \in 0..(Len(hd[u]) - 1)
           e == IF ~first THEN d
                ELSE [d EXCEPT !.dptr = 0, !.data = hd[u][d.pos + 1], !.pos = @ + 1]
           f == [e EXCEPT !.dptr = @ + 1]
           g == [f EXCEPT !.length = @ - 1]
       IN  \/ /\ first /\ ~d.present /\ ~fails
              /\ ide' = [ide EXCEPT !.aborted = TRUE] /\ UNCHANGED driver
           \/ /\ first /\ d.present /\ ~got
              /\ ide' = SetError(u, [d EXCEPT !.dptr = 0])
              /\ WordIn(<<u, 0, -1>>)
           \/ /\ IF first THEN d.present /\ got ELSE ~fails
              /\ ide' = [ide EXCEPT !.drive[u] = IF f.dptr < IdeWords THEN f
                                                 ELSE IF g.length = 0
                                                 THEN IdeReady(g) ELSE g]
              /\ WordIn(e.data[f.dptr])

\* Writing it: the sector goes to the file with its last word, and may extend it.
WriteWord(fails) ==
    /\ Wants({"WRITE"}) /\ Unit.state = "DATA_OUT"
    /\ LET u == ide.selected
           d == Unit
           lsn == driver.lsn + driver.words \div IdeWords
           e == [d EXCEPT !.data[d.dptr + 1] = <<u, driver.last, lsn>>, !.dptr = @ + 1]
           f == [e EXCEPT !.dptr = 0, !.pos = @ + 1, !.length = @ - 1]
           last == e.dptr = IdeWords
           kept == ~fails /\ d.pos >= 0
       IN  \/ /\ ~last /\ ~fails
              /\ ide' = [ide EXCEPT !.drive[u] = e] /\ UNCHANGED hd /\ WordOut
           \/ /\ last /\ ~d.present /\ ~fails
              /\ ide' = [ide EXCEPT !.aborted = TRUE] /\ UNCHANGED <<hd, driver>>
           \/ /\ last /\ d.present /\ ~kept
              /\ ide' = SetError(u, [e EXCEPT !.dptr = 0])
              /\ UNCHANGED hd /\ WordOut
           \/ /\ last /\ d.present /\ kept
              /\ ide' = [ide EXCEPT !.drive[u] = IF f.length = 0 THEN IdeReady(f) ELSE f]
              /\ hd' = [hd EXCEPT ![u] = IF d.pos = Len(@) THEN Append(@, e.data)
                                         ELSE [@ EXCEPT ![d.pos + 1] = e.data]]
              /\ WordOut

-----------------------------------------------------------------------------
\* The user takes an image out, and names it again or none; attaching may fail.
SetHdFilename(unit, attached) ==
    /\ LET d == [ide.drive[unit] EXCEPT !.present = attached,
                                        !.pos = -1]
       IN  /\ ide' = [ide EXCEPT !.drive[unit] = ResetDrive(d)]
           /\ driver' = [driver EXCEPT !.pulled = @ \/ (~attached /\ d.state # "IDLE")]
    /\ UNCHANGED hd

\* A reset of the machine, and of its program.
ResetIde ==
    /\ ide' = [ide EXCEPT !.selected = 0,
                          !.drive = [i \in Units |-> ResetDrive(ide.drive[i])]]
    /\ driver' = Quit
    /\ UNCHANGED hd

NoDrive ==
    [present |-> FALSE, failed |-> FALSE, err |-> FALSE, drq |-> FALSE, state |-> "IDLE",
     dptr |-> 0, length |-> 0, data |-> Filled(0, 0, -1), pos |-> -1]

IdeInit ==
    /\ \E kind \in HdKinds :
          ide = [selected |-> 0, kind |-> kind, drive |-> [i \in Units |-> NoDrive],
                 aborted |-> FALSE]
    /\ hd = [i \in Units |-> [s \in 1..HdSectors |-> Filled(i, 0, s - 1)]]
    /\ \E mode \in {"LBA", "CHS"} :
          driver = [mode |-> mode, last |-> 0, lsn |-> 0, count |-> 1, cmd |-> "none",
                    words |-> 0, got |-> <<>>, pulled |-> FALSE, misled |-> FALSE]

IdeNext ==
    /\ ~ide.aborted
    /\ \/ \E unit \in Units : SelectUnit(unit)
       \/ \E lsn \in 0..HdSectors :
             \/ IssueCommand("SEEK", lsn, 1, TRUE)
             \/ \E cmd \in {"READ", "WRITE"}, count \in Counts : IssueCommand(cmd, lsn, count, TRUE)
       \/ IssueCommand("IDENTIFY", 0, 1, TRUE) \/ IssueCommand("EDD", 0, 1, TRUE)
       \/ \E cmd \in {"INTPARAMS", "other"}, valid \in BOOLEAN : IssueCommand(cmd, 0, 1, valid)
       \/ \E fails \in BOOLEAN : ReadWord(fails) \/ WriteWord(fails)
       \/ \E unit \in Units, attached \in BOOLEAN : SetHdFilename(unit, attached)
       \/ ResetIde

IdeSpec == IdeInit /\ [][IdeNext]_ideVars

-----------------------------------------------------------------------------
IdeOK ==
    /\ ide.selected \in Units /\ ide.aborted \in BOOLEAN
    /\ \A i \in Units : ide.drive[i] \in IdeDrives
    /\ driver \in Drivers
    /\ hd \in [Units -> Seq([1..IdeWords -> Word])]

\* A sector of either file holds, whole and in its place, what one command wrote to it,
\* and the program is told only what is so, wherever it gives up a transfer, turns to
\* the other drive, resets the machine or has an image replaced; and nothing aborts.  An
\* image taken out in a transfer is the exception: a drive that is not there is not reset
\* (idecart.c:229), and goes on with it until blockdev.c asserts that there is a file.
SectorsWhole ==
    /\ IdeOK
    /\ \A i \in Units : \A s \in 1..Len(hd[i]) :
          \E n \in 0..driver.last : hd[i][s] = Filled(i, n, s - 1)
    /\ ~driver.pulled => ~driver.misled /\ ~ide.aborted
=================================================================================
