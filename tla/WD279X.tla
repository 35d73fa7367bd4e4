-------------------------------- MODULE WD279X --------------------------------
(***************************************************************************)
(* The floppy disk controller, wd279x.c: the register file a host program  *)
(* reads and writes, and the state machine that the event scheduler steps  *)
(* through a command.  The whole controller is one record, and each        *)
(* function of the source one operator from a record to a record, so that  *)
(* Floppy can drive the same operators with a real drive.                  *)
(*                                                                         *)
(* Here the drive is nondeterministic: a response r says what the drive    *)
(* operations of one handler come back with.  The length of a delay is     *)
(* left out; the ready line is tied high by every board that has this part *)
(* (rsdos.c:287-288), so neither it nor its two interrupts ever change.    *)
(***************************************************************************)
EXTENDS Integers

CONSTANTS
    HasSSO,       \* does this type drive the side select line (2795, 2797)
    MaxByte,      \* the largest byte, 255 in the code
    Lengths,      \* the sector lengths an ID field can announce
    HoleLimit,    \* index pulses a search lasts, 5 in the code
    IdamByte,     \* the byte WRITE TRACK turns into an ID address mark, 0xfe
    Commands,     \* command bytes the host writes
    BusyCommands, \* those it writes although BUSY, besides FORCE INTERRUPT
    HostBytes,    \* bytes the host writes to the other registers
    Lines,        \* the drive's lines that move on their own
    Responses,    \* what the drive may answer one handler
    NoID, NoCommand

Byte == 0..MaxByte

ASSUME ByteAssumption == MaxByte \in Nat \ {0} /\ IdamByte \in Byte
ASSUME LengthsAssumption == Lengths \subseteq Nat \ {0} /\ HoleLimit \in Nat \ {0}
ASSUME HostAssumption ==
    HostBytes \subseteq Byte /\ Lines \subseteq {"index", "tr00", "wp"}
ASSUME CommandsAssumption ==
    /\ Commands \subseteq 0..255 /\ BusyCommands \subseteq Commands
    /\ NoCommand \notin 0..255 /\ HasSSO \in BOOLEAN

VARIABLE fdc

\* The status register is the set of its bits that are set; four of them mean
\* one thing after a type 1 command and another after the rest.
BUSY == "bit0"
DRQ == "bit1"
INDEX_PULSE == "bit1"
LOST_DATA == "bit2"
TRACK_0 == "bit2"
CRC_ERROR == "bit3"
RNF == "bit4"
SEEK_ERROR == "bit4"
RECORD_TYPE == "bit5"
WRITE_PROTECT == "bit6"

Bits == {BUSY, DRQ, LOST_DATA, CRC_ERROR, RNF, RECORD_TYPE, WRITE_PROTECT}

States == {"accept_command", "type1_1", "verify_track_1", "verify_track_2",
           "type2_1", "type2_2", "read_sector_1", "read_sector_2", "read_sector_3",
           "write_sector_1", "write_sector_2", "write_sector_3", "write_sector_4",
           "write_sector_5", "write_sector_6", "type3_1",
           "read_address_1", "read_address_2", "read_address_3",
           "write_track_2", "write_track_2b", "write_track_3"}

\* What one handler learns from the drive: an index pulse raised during the
\* operation, the lines after a step, the ID field found, the data mark found, a
\* byte, and whether the checksum came out right.
IDs == [cyl : Byte, side : {0, 1}, sec : Byte, len : Lengths, ok : BOOLEAN]
AllResponses == [idx : BOOLEAN, tr00 : BOOLEAN, wp : BOOLEAN, id : IDs \union {NoID},
                 dam : {"none", "data", "deleted"}, byte : Byte, ok : BOOLEAN]

ASSUME ResponsesAssumption == NoID \notin IDs /\ Responses \subseteq AllResponses

Bit(c, n) == (c \div 2^n) % 2 = 1

Wrap(b) == b % (MaxByte + 1)

IsForce(c) == c \div 16 = 13
IsType1(c) == c < 128
IsType2(c) == c \div 64 = 2
IsType3(c) == c \div 16 \in {12, 14, 15} /\ c % 2 = 0 /\ ~Bit(c, 3)
IsKnown(c) == IsType1(c) \/ IsType2(c) \/ IsType3(c)
IsReadTrack(c) == c \div 16 = 14

\* (Slip: the multiple-record bit.)
WriteBitLow(c) == Bit(c, 4)

WriteBit(c) == Bit(c, 5)

IsWriting(c) == (IsType2(c) /\ Bit(c, 5)) \/ c \div 16 = 15

\* The fields, with their names in struct WD279X where they have one.
Type == [
    st : States,           \* state: where the next state event resumes
    q : BOOLEAN,           \* state_event is queued
    sr : SUBSET Bits,      \* status_register
    tr : Byte, sec : Byte, dat : Byte,  \* track, sector and data registers
    cmd : 0..255,          \* command_register
    dir : {1, -1},         \* direction
    side : {0, 1},
    t1 : BOOLEAN,          \* status_type1
    isStep : BOOLEAN,      \* is_step_cmd
    left : Nat,            \* bytes_left
    holes : 0..(HoleLimit + 1),         \* index_holes_count, up to its last limit
    dam : {"none", "data", "deleted"},
    tmp : Byte,            \* track_register_tmp
    iIdx : BOOLEAN, iImm : BOOLEAN,     \* intrq_index_pulse, intrq_immediate
    tr00 : BOOLEAN, index : BOOLEAN, wp : BOOLEAN,  \* the drive's lines
    drq : BOOLEAN, intrq : BOOLEAN,     \* the lines it drives
    call : {"none", "sso", "step", "idam", "read", "skip", "write", "write_idam"},
                           \* the drive operation of the last step
    acc : (0..255) \union {NoCommand},  \* history: the command accepted, until
                           \* its end is acknowledged or it is forced off
    meddled : BOOLEAN,     \* history: the register was written since, while BUSY
    due : Nat,             \* history: the length of the sector found
    got : Nat]             \* history: data requests the host has answered

-----------------------------------------------------------------------------
(* The helper macros.                                                      *)

Set(f, bits) == [f EXCEPT !.sr = @ \union bits]
Clear(f, bits) == [f EXCEPT !.sr = @ \ bits]
SetDrq(f) == [f EXCEPT !.sr = @ \union {DRQ}, !.drq = TRUE]

\* (Slip: the line is left high.)
ResetDrqBit(f) == [f EXCEPT !.sr = @ \ {DRQ}]

ResetDrq(f) == [f EXCEPT !.sr = @ \ {DRQ}, !.drq = FALSE]
Goto(f, s) == [f EXCEPT !.st = s, !.q = TRUE]

\* (Slip: the end of the command is not signalled.)
EndQuiet(f) == [f EXCEPT !.sr = @ \ {BUSY}, !.st = "accept_command"]

\* How nearly every command ends.  The state is not read again before the next
\* command sets it.
End(f) == [f EXCEPT !.sr = @ \ {BUSY}, !.intrq = TRUE, !.st = "accept_command",
                 !.due = 0, !.got = 0]

\* wd279x_index_pulse: a rising edge counts, and with the interrupt armed takes
\* the state event of whatever command is running off the queue.
IndexPulse(f, level) ==
    IF f.index = level THEN f
    ELSE IF ~level THEN [f EXCEPT !.index = FALSE]
    ELSE [f EXCEPT !.index = TRUE,
                   !.holes = IF @ > HoleLimit THEN @ ELSE @ + 1,
                   !.q = @ /\ ~f.iIdx,
                   !.intrq = @ \/ f.iIdx]

\* A drive operation, and the index pulse that it may raise on the way.
Drive(f, op, r) == [IF r.idx THEN IndexPulse(f, TRUE) ELSE f EXCEPT !.call = op]

-----------------------------------------------------------------------------
(* The state machine.  A "continue" in the source is one operator applying *)
(* the next; a return leaves either a queued event or the end.             *)

Verify1(f) ==
    IF Bit(f.cmd, 2) THEN Goto([f EXCEPT !.holes = 0], "verify_track_2") ELSE End(f)

Type1_3(f, r) ==
    IF f.tr00 /\ f.dir = -1
      THEN Goto([f EXCEPT !.tr = 0], "verify_track_1")
      ELSE Goto([f EXCEPT !.call = "step", !.tr00 = r.tr00, !.wp = r.wp],
                IF f.isStep THEN "verify_track_1" ELSE "type1_1")

Type1_2(f, r) == Type1_3([f EXCEPT !.tr = Wrap(@ + f.dir)], r)

Type1_1(f, r) ==
    IF f.dat = f.tr
      THEN Verify1(f)
      ELSE Type1_2([f EXCEPT !.dir = IF f.dat > f.tr THEN 1 ELSE -1], r)

\* next_idam, as the four searches use it.  Only a pulse raised by the search
\* itself, which finds nothing then, is there when the holes are counted.
Search(f, r) == Drive(f, "idam", [r EXCEPT !.idx = @ /\ r.id = NoID])
Found(f, r) == Drive(f, "idam", r)

Verify2(f0, r) ==
    LET f == Search(f0, r)
        g == Found(f, r)
    IN  IF f.holes >= HoleLimit THEN End(Set(f, {SEEK_ERROR}))
        ELSE IF r.id = NoID THEN Goto(f, "verify_track_2")
        ELSE IF r.id.cyl # f.tr THEN Goto(g, "verify_track_2")
        ELSE IF ~r.id.ok THEN Goto(Set(g, {CRC_ERROR}), "verify_track_2")
        ELSE End(Clear(g, {CRC_ERROR}))

Type2_1(f) ==
    IF WriteBit(f.cmd) /\ f.wp
      THEN End(Set(f, {WRITE_PROTECT}))
      ELSE Goto([f EXCEPT !.holes = 0], "type2_2")

Matches(f, id) ==
    /\ id.cyl = f.tr
    /\ id.side = f.side \/ ~(HasSSO \/ Bit(f.cmd, 1))
    /\ id.sec = f.sec

Type2_2(f0, r) ==
    LET f == Search(f0, r)
        g == Found(f, r)
        h == [g EXCEPT !.left = r.id.len, !.due = r.id.len]
    IN  IF f.holes >= HoleLimit THEN End(Set(f, {RNF}))
        ELSE IF r.id = NoID THEN Goto(f, "type2_2")
        ELSE IF ~Matches(f, r.id) THEN Goto(g, "type2_2")
        ELSE IF ~r.id.ok THEN Goto(Set(h, {CRC_ERROR}), "type2_2")
        ELSE IF WriteBit(f.cmd) THEN Goto(h, "write_sector_1")
        ELSE Goto([h EXCEPT !.dam = r.dam],
                  IF r.dam = "none" THEN "type2_2" ELSE "read_sector_1")

\* A byte from the drive is put before the host.
Offer(f, r, s) ==
    Goto(SetDrq([Drive(f, "read", r) EXCEPT !.dat = r.byte, !.left = @ - 1]), s)

ReadSector1(f, r) ==
    Offer(IF f.dam = "deleted" THEN Set(f, {RECORD_TYPE}) ELSE f, r, "read_sector_2")

\* (Slip: a byte the host has not fetched is overwritten without a word.)
ReadSector2Silent(f, r) ==
    IF f.left > 0
      THEN Offer(f, r, "read_sector_2")
      ELSE Goto(Drive(f, "read", r), "read_sector_3")

ReadSector2(f, r) ==
    IF f.left > 0
      THEN Offer(IF DRQ \in f.sr THEN Set(f, {LOST_DATA}) ELSE f, r, "read_sector_2")
      ELSE Goto(Drive(f, "read", r), "read_sector_3")

NextSector(f) ==
    IF Bit(f.cmd, 4) THEN Type2_1([f EXCEPT !.sec = Wrap(@ + 1)]) ELSE End(f)

ReadSector3(f, r) == NextSector(IF r.ok THEN f ELSE Set(f, {CRC_ERROR}))

WriteSector1(f, r) == Goto(Drive(SetDrq(f), "skip", r), "write_sector_2")

WriteSector2(f, r) ==
    IF DRQ \in f.sr
      THEN End(Set(ResetDrq(f), {LOST_DATA}))
      ELSE Goto(Drive(f, "skip", r), "write_sector_3")

WriteSector3(f, r) == Goto(Drive(f, "write", r), "write_sector_4")
WriteSector4(f, r) == Goto(Drive(f, "write", r), "write_sector_5")

WriteSector5(f, r) ==
    LET g == Drive(IF DRQ \in f.sr THEN Set(ResetDrq(f), {LOST_DATA}) ELSE f, "write", r)
        h == [g EXCEPT !.left = @ - 1]
    IN  IF h.left > 0 THEN Goto(SetDrq(h), "write_sector_5") ELSE Goto(h, "write_sector_6")

WriteSector6(f, r) == NextSector(Drive(f, "write", r))

WriteTrack1(f) ==
    IF f.wp THEN End(Set(f, {WRITE_PROTECT})) ELSE Goto(SetDrq(f), "write_track_2")

WriteTrack2(f) ==
    IF DRQ \in f.sr
      THEN End(Set(ResetDrq(f), {LOST_DATA}))
      ELSE Goto([f EXCEPT !.holes = 0], "write_track_2b")

WriteTrack3(f, r) ==
    LET late == DRQ \in f.sr
        data == IF late THEN 0 ELSE f.dat
        g == SetDrq(IF late THEN Set(f, {LOST_DATA}) ELSE f)
    IN  IF f.holes > 0
          THEN End(ResetDrq(f))
          ELSE Goto(Drive(g, IF data = IdamByte THEN "write_idam" ELSE "write", r),
                    "write_track_3")

WriteTrack2b(f, r) ==
    IF f.holes = 0
      THEN Goto(f, "write_track_2b")
      ELSE WriteTrack3([f EXCEPT !.holes = 0], r)

ReadAddress1(f0, r) ==
    LET f == Search(f0, r)
    IN  IF f.holes >= HoleLimit + 1 THEN End(Set(f, {RNF}))
        ELSE IF r.id = NoID THEN Goto(f, "read_address_1")
        ELSE Goto(Found(f, r), "read_address_2")

ReadAddress2(f, r) ==
    Offer([f EXCEPT !.left = 6, !.tmp = r.byte], r, "read_address_3")

ReadAddress3(f, r) ==
    IF f.left > 0
      THEN Offer(f, r, "read_address_3")
      ELSE End([IF r.ok THEN f ELSE Set(f, {CRC_ERROR}) EXCEPT !.sec = f.tmp])

\* READ TRACK is not implemented: it interrupts and stays BUSY.  A command byte
\* that is none of the three can only come from a write while BUSY.
Type3_1(f) ==
    CASE f.cmd \div 16 = 12 -> Goto([f EXCEPT !.holes = 0], "read_address_1")
      [] f.cmd \div 16 = 14 -> [f EXCEPT !.intrq = TRUE]
      [] f.cmd \div 16 = 15 -> WriteTrack1(f)
      [] OTHER -> f

\* The event has been dispatched: wd279x_state_machine resumes.
Handler(f0, r) ==
    LET f == [f0 EXCEPT !.q = FALSE, !.call = "none"]
    IN  CASE f.st = "type1_1" -> Type1_1(f, r)
          [] f.st = "verify_track_1" -> Verify1(f)
          [] f.st = "verify_track_2" -> Verify2(f, r)
          [] f.st = "type2_1" -> Type2_1(f)
          [] f.st = "type2_2" -> Type2_2(f, r)
          [] f.st = "read_sector_1" -> ReadSector1(f, r)
          [] f.st = "read_sector_2" -> ReadSector2(f, r)
          [] f.st = "read_sector_3" -> ReadSector3(f, r)
          [] f.st = "write_sector_1" -> WriteSector1(f, r)
          [] f.st = "write_sector_2" -> WriteSector2(f, r)
          [] f.st = "write_sector_3" -> WriteSector3(f, r)
          [] f.st = "write_sector_4" -> WriteSector4(f, r)
          [] f.st = "write_sector_5" -> WriteSector5(f, r)
          [] f.st = "write_sector_6" -> WriteSector6(f, r)
          [] f.st = "type3_1" -> Type3_1(f)
          [] f.st = "read_address_1" -> ReadAddress1(f, r)
          [] f.st = "read_address_2" -> ReadAddress2(f, r)
          [] f.st = "read_address_3" -> ReadAddress3(f, r)
          [] f.st = "write_track_2" -> WriteTrack2(f)
          [] f.st = "write_track_2b" -> WriteTrack2b(f, r)
          [] f.st = "write_track_3" -> WriteTrack3(f, r)

-----------------------------------------------------------------------------
(* The register file.                                                      *)

Accepted(f, c) == [f EXCEPT !.acc = c, !.meddled = FALSE]

\* RESTORE is a seek from the last track to track 0.
Homing(f) == [f EXCEPT !.tr = MaxByte, !.dat = 0]

AcceptType1(f, c, r) ==
    LET kind == c \div 32
        g == [Clear(ResetDrq(f), {CRC_ERROR, SEEK_ERROR}) EXCEPT
                 !.t1 = TRUE, !.isStep = kind > 0,
                 !.dir = CASE kind = 2 -> 1 [] kind = 3 -> -1 [] OTHER -> @]
        h == Set(g, {BUSY})
    IN  IF kind > 0 THEN (IF Bit(c, 4) THEN Type1_2(h, r) ELSE Type1_3(h, r))
        ELSE Type1_1(IF c \div 16 = 0 THEN Homing(h) ELSE h, r)

\* The side comes from one command bit or another, and reaches the drive only
\* where the controller has a side select line.
SetSide(f, c) ==
    [f EXCEPT !.side = IF Bit(c, IF HasSSO THEN 1 ELSE 3) THEN 1 ELSE 0,
              !.call = IF HasSSO THEN "sso" ELSE @]

AcceptType2(f, c) ==
    LET g == Clear(ResetDrq(f), {LOST_DATA, RNF, RECORD_TYPE, WRITE_PROTECT})
        h == SetSide([Set(g, {BUSY}) EXCEPT !.t1 = FALSE], c)
    IN  IF Bit(c, 2) THEN Goto(h, "type2_1") ELSE Type2_1(h)

AcceptType3(f, c) ==
    LET g == Clear(IF c \div 16 = 15 THEN ResetDrq(f) ELSE f, {LOST_DATA, RNF, RECORD_TYPE})
        h == SetSide([Set(g, {BUSY}) EXCEPT !.t1 = FALSE], c)
    IN  IF Bit(c, 2) THEN Goto(h, "type3_1") ELSE Type3_1(h)

AcceptCommand(f0, c, r) ==
    LET f == [f0 EXCEPT !.cmd = c, !.call = "none", !.intrq = @ /\ f0.iImm]
    IN  CASE IsType1(c) -> AcceptType1(Accepted(f, c), c, r)
          [] IsType2(c) -> AcceptType2(Accepted(f, c), c)
          [] IsType3(c) -> AcceptType3(Accepted(f, c), c)
          [] OTHER -> Accepted(f, NoCommand)

\* (Slip: the state event is left on the queue.)
ForceInterruptQueued(f, c) ==
    [f EXCEPT !.cmd = c, !.call = "none", !.acc = NoCommand, !.due = 0, !.got = 0,
              !.iIdx = Bit(c, 2), !.iImm = Bit(c, 3),
              !.t1 = @ \/ BUSY \notin f.sr,
              !.sr = @ \ {BUSY},
              !.intrq = @ \/ Bit(c, 3)]

\* FORCE INTERRUPT ends whatever runs, and arms the interrupts it names.
ForceInterrupt(f, c) ==
    [f EXCEPT !.cmd = c, !.call = "none", !.acc = NoCommand, !.due = 0, !.got = 0,
              !.iIdx = Bit(c, 2), !.iImm = Bit(c, 3),
              !.t1 = @ \/ BUSY \notin f.sr,
              !.q = FALSE, !.sr = @ \ {BUSY},
              !.intrq = @ \/ Bit(c, 3)]

\* The other commands are ignored while BUSY - but the command register has
\* taken the byte, and the state machine goes on reading it.
WhileBusy(f, c) == [f EXCEPT !.cmd = c, !.call = "none", !.meddled = TRUE]

WriteCommand(f, c, r) ==
    IF IsForce(c) THEN ForceInterrupt(f, c)
    ELSE IF BUSY \in f.sr THEN WhileBusy(f, c)
    ELSE AcceptCommand(f, c, r)

\* A data request is answered: the host reads or writes the data register.
AnswerDrq(f) ==
    [ResetDrq(f) EXCEPT !.call = "none",
        !.got = IF DRQ \in f.sr /\ BUSY \in f.sr /\ ~f.t1 /\ \E n \in Lengths : @ <= n
                  THEN @ + 1 ELSE @]

WriteData(f, b) == [AnswerDrq(f) EXCEPT !.dat = b]
WriteTrack(f, b) == [f EXCEPT !.tr = b, !.call = "none"]
WriteSector(f, b) == [f EXCEPT !.sec = b, !.call = "none"]

\* Reading the status takes the interrupt away, and refreshes the two bits that
\* show the drive's lines after a type 1 command.
ReadStatus(f) ==
    [f EXCEPT !.intrq = @ /\ f.iImm,
              !.sr = IF f.t1 THEN (@ \ {TRACK_0, INDEX_PULSE}) \union
                                    {b \in {TRACK_0, INDEX_PULSE} :
                                        IF b = TRACK_0 THEN f.tr00 ELSE f.index}
                     ELSE @,
              !.call = "none",
              !.acc = IF BUSY \in f.sr THEN @ ELSE NoCommand]

\* wd279x_reset leaves the lines, the armed interrupts and the state alone.
Reset(f) ==
    [f EXCEPT !.q = FALSE, !.sr = {}, !.tr = 0, !.sec = 0, !.dat = 0, !.cmd = 0,
              !.dir = -1, !.side = 0, !.call = IF HasSSO THEN "sso" ELSE "none",
              !.acc = NoCommand, !.due = 0, !.got = 0]

\* A controller allocated, attached to its drives and reset.
New(tr00, wp) ==
    [st |-> "accept_command", q |-> FALSE, sr |-> {}, tr |-> 0, sec |-> 0, dat |-> 0,
     cmd |-> 0, dir |-> -1, side |-> 0, t1 |-> FALSE, isStep |-> FALSE, left |-> 0,
     holes |-> 0, dam |-> "none", tmp |-> 0, iIdx |-> FALSE, iImm |-> FALSE,
     tr00 |-> tr00, index |-> FALSE, wp |-> wp, drq |-> FALSE, intrq |-> FALSE,
     call |-> "none", acc |-> NoCommand, meddled |-> FALSE, due |-> 0,
     got |-> 0]

-----------------------------------------------------------------------------
Init == \E tr00, wp \in BOOLEAN : fdc = New(tr00, wp)

Resume(r) == fdc.q /\ fdc' = Handler(fdc, r)

\* Only a type 1 command reaches the drive before its first event.
Command(c) ==
    /\ BUSY \in fdc.sr => IsForce(c) \/ c \in BusyCommands
    /\ \E r \in IF IsType1(c) THEN Responses ELSE {CHOOSE r \in Responses : TRUE} :
          fdc' = WriteCommand(fdc, c, r)

HostReadsStatus == fdc' = ReadStatus(fdc)
HostReadsData == fdc' = AnswerDrq(fdc)

\* The track and sector registers are loaded between commands.
HostWrites(b) ==
    \/ fdc' = WriteData(fdc, b)
    \/ BUSY \notin fdc.sr /\ fdc' = WriteTrack(fdc, b)
    \/ BUSY \notin fdc.sr /\ fdc' = WriteSector(fdc, b)

\* The other two lines of the drive, as they now are.
SeeLines(f, tr00, wp) == [f EXCEPT !.tr00 = tr00, !.wp = wp]

\* A board may drop its own copies of the two lines, and select another drive.
HostResets ==
    \E clear, tr00, wp \in BOOLEAN :
        /\ "tr00" \in Lines \/ tr00 = fdc.tr00
        /\ "wp" \in Lines \/ wp = fdc.wp
        /\ fdc' = SeeLines([Reset(fdc) EXCEPT !.drq = @ /\ ~clear, !.intrq = @ /\ ~clear],
                           tr00, wp)

\* The drive's lines move on their own: the disk turns; a disk is inserted or
\* ejected, or another drive is selected.
IndexMoves ==
    /\ "index" \in Lines
    /\ \E level \in BOOLEAN : fdc' = [IndexPulse(fdc, level) EXCEPT !.call = "none"]

DriveChanges ==
    \E tr00, wp \in BOOLEAN :
        /\ "tr00" \in Lines \/ tr00 = fdc.tr00
        /\ "wp" \in Lines \/ wp = fdc.wp
        /\ fdc' = [SeeLines(fdc, tr00, wp) EXCEPT !.call = "none"]

Next ==
    \/ \E r \in Responses : Resume(r)
    \/ \E c \in Commands : Command(c)
    \/ HostReadsStatus \/ HostReadsData \/ \E b \in HostBytes : HostWrites(b)
    \/ HostResets \/ IndexMoves \/ DriveChanges

Spec == Init /\ [][Next]_fdc

\* What later steps and the properties below can tell of a controller, a VIEW for
\* model checking: a field that the next command, or the state the event resumes,
\* sets before it is read does not count, and of the last call only whether it wrote.
Remembered(f) ==
    LET resumes(S) == f.q /\ f.st \in S
        transfer == {"read_sector_1", "read_sector_2", "write_sector_1", "write_sector_2",
                     "write_sector_3", "write_sector_4", "write_sector_5", "read_address_3"}
        search == {"verify_track_2", "type2_2", "read_address_1", "write_track_2b",
                   "write_track_3"}
        counted == f.q /\ f.acc # NoCommand /\ IsType2(f.acc) /\ ~Bit(f.acc, 4)
    IN  [f EXCEPT
            !.st = IF f.q THEN @ ELSE "accept_command",
            !.cmd = IF f.q THEN @ ELSE 0,
            !.left = IF resumes(transfer) THEN @ ELSE 0,
            !.holes = IF resumes(search) THEN @ ELSE 0,
            !.dam = IF resumes({"read_sector_1"}) THEN @ ELSE "none",
            !.tmp = IF resumes({"read_address_3"}) THEN @ ELSE 0,
            !.isStep = IF resumes({"type1_1"}) THEN @ ELSE FALSE,
            !.due = IF counted THEN @ ELSE 0,
            !.got = IF counted THEN @ ELSE 0,
            !.call = IF @ \in {"write", "write_idam"} THEN @ ELSE "none"]

-----------------------------------------------------------------------------
\* A command that is under way has its next step on the event queue, and nothing
\* is on the queue for a command that is over; nothing else would ever clear
\* BUSY.  The exceptions are the code's: READ TRACK, which stops there
\* (wd279x.c:897-900), the index interrupt armed by an earlier FORCE INTERRUPT,
\* which takes any later command off the queue (wd279x.c:334-337), and a command
\* register overwritten while BUSY.
BusyIsScheduled ==
    /\ fdc \in Type
    /\ fdc.q => BUSY \in fdc.sr
    /\ BUSY \in fdc.sr =>
          /\ fdc.acc # NoCommand
          /\ fdc.q \/ fdc.iIdx \/ fdc.meddled \/ IsReadTrack(fdc.acc)

\* However a command ends - done, not found, protected, data lost - the interrupt
\* is up until the host has read the status or replaced the command: the host
\* waits on nothing else.
EndInterrupts == fdc.acc # NoCommand /\ BUSY \notin fdc.sr => fdc.intrq

\* While sectors are transferred or a track is written, polling status bit 1 and
\* watching the DRQ line tell the host the same, although the bit is the index
\* pulse at other times (wd279x.c:372-378) and is left so by the commands that
\* do not clear it.
DrqAgrees ==
    BUSY \in fdc.sr /\ fdc.acc # NoCommand /\ (IsType2(fdc.acc) \/ IsWriting(fdc.acc)) =>
        (DRQ \in fdc.sr <=> fdc.drq)

\* The host is told of the end of a command and of each byte of one, by line and by bit.
HostTold == EndInterrupts /\ DrqAgrees

\* A sector that ends without LOST DATA was transferred whole: the host answered
\* one request for every byte, but for a last one it may still answer.
NoSilentLoss ==
    [][/\ fdc.q /\ fdc.st \in {"read_sector_3", "write_sector_6"}
       /\ BUSY \notin fdc'.sr /\ fdc'.acc # NoCommand
       /\ ~fdc.meddled /\ ~Bit(fdc.acc, 4) /\ LOST_DATA \notin fdc'.sr
       => fdc.got + (IF DRQ \in fdc'.sr THEN 1 ELSE 0) = fdc.due]_fdc

\* The disk is written only on behalf of a write command ("Ignore any other
\* command if busy", wd279x.c:429).
WritesCommanded ==
    fdc.call \in {"write", "write_idam"} => fdc.acc # NoCommand /\ IsWriting(fdc.acc)
=============================================================================
