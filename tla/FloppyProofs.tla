---------------------------- MODULE FloppyProofs ----------------------------
(***************************************************************************)
(* What is proved about the RS-DOS cartridge for any drives, images,       *)
(* registers, answers of a disk and commands of a program: the wired       *)
(* controller does what the controller does on its own, controller and     *)
(* drives agree, and the stopped CPU is let go.                            *)
(*                                                                         *)
(* What is proved about the controller and the drives on their own is used *)
(* here through the two instances P and V, with the constants that Floppy  *)
(* gives its own, W and D.                                                 *)
(***************************************************************************)
EXTENDS Floppy, TLAPS

P == INSTANCE WD279XProofs WITH
    HasSSO <- FALSE, BusyCommands <- {}, Lines <- {"index", "tr00", "wp"}
V == INSTANCE VDriveProofs WITH MaxCyl <- MaxByte

(* The instances' assumptions are those of this module. *)
LEMMA ControllerAssumed ==
    P!ByteAssumption /\ P!LengthsAssumption /\ P!HostAssumption
    /\ P!CommandsAssumption /\ P!ResponsesAssumption
  BY ControllerAssumption
     DEF P!ByteAssumption, P!LengthsAssumption, P!HostAssumption, P!CommandsAssumption,
         P!ResponsesAssumption, P!Byte, W!Byte, P!IDs, W!IDs, P!AllResponses, W!AllResponses

LEMMA DrivesAssumed == V!DrivesAssumption /\ V!ImagesAssumption
  BY ControllerAssumption, DrivesAssumption
     DEF V!DrivesAssumption, V!ImagesAssumption, V!Disks, D!Disks

-----------------------------------------------------------------------------
(* The instances' operators are those that Floppy uses.                    *)

LEMMA SameTypes == P!Type = W!Type /\ P!AllResponses = W!AllResponses
  BY DEF P!Type, W!Type, P!AllResponses, W!AllResponses, P!IDs, W!IDs, P!Byte, W!Byte,
         P!States, W!States, P!Bits, W!Bits, P!BUSY, W!BUSY, P!DRQ, W!DRQ,
         P!LOST_DATA, W!LOST_DATA, P!CRC_ERROR, W!CRC_ERROR, P!RNF, W!RNF,
         P!RECORD_TYPE, W!RECORD_TYPE, P!WRITE_PROTECT, W!WRITE_PROTECT

LEMMA SameHandler ==
    ASSUME NEW f, NEW r
    PROVE  P!Handler(f, r) = W!Handler(f, r)
  BY ZenonT(60) DEF P!Handler, W!Handler, P!BUSY, W!BUSY, P!DRQ, W!DRQ,
         P!INDEX_PULSE, W!INDEX_PULSE, P!LOST_DATA, W!LOST_DATA,
         P!TRACK_0, W!TRACK_0, P!CRC_ERROR, W!CRC_ERROR, P!RNF, W!RNF,
         P!SEEK_ERROR, W!SEEK_ERROR, P!RECORD_TYPE, W!RECORD_TYPE,
         P!WRITE_PROTECT, W!WRITE_PROTECT, P!Bit, W!Bit, P!Wrap, W!Wrap,
         P!WriteBit, W!WriteBit, P!Set, W!Set, P!Clear, W!Clear, P!SetDrq, W!SetDrq,
         P!ResetDrq, W!ResetDrq, P!Goto, W!Goto, P!End, W!End,
         P!IndexPulse, W!IndexPulse, P!Drive, W!Drive, P!Verify1, W!Verify1,
         P!Type1_3, W!Type1_3, P!Type1_2, W!Type1_2, P!Type1_1, W!Type1_1,
         P!Search, W!Search, P!Found, W!Found, P!Verify2, W!Verify2,
         P!Type2_1, W!Type2_1, P!Matches, W!Matches, P!Type2_2, W!Type2_2,
         P!Offer, W!Offer, P!ReadSector1, W!ReadSector1,
         P!ReadSector2, W!ReadSector2, P!NextSector, W!NextSector,
         P!ReadSector3, W!ReadSector3, P!WriteSector1, W!WriteSector1,
         P!WriteSector2, W!WriteSector2, P!WriteSector3, W!WriteSector3,
         P!WriteSector4, W!WriteSector4, P!WriteSector5, W!WriteSector5,
         P!WriteSector6, W!WriteSector6, P!WriteTrack1, W!WriteTrack1,
         P!WriteTrack2, W!WriteTrack2, P!WriteTrack3, W!WriteTrack3,
         P!WriteTrack2b, W!WriteTrack2b, P!ReadAddress1, W!ReadAddress1,
         P!ReadAddress2, W!ReadAddress2, P!ReadAddress3, W!ReadAddress3,
         P!Type3_1, W!Type3_1

LEMMA SameCommand ==
    ASSUME NEW f, NEW c, NEW r
    PROVE  P!WriteCommand(f, c, r) = W!WriteCommand(f, c, r)
  BY ZenonT(60) DEF P!WriteCommand, W!WriteCommand, P!Accepted, W!Accepted, P!Homing, W!Homing,
         P!AcceptType1, W!AcceptType1, P!SetSide, W!SetSide,
         P!AcceptType2, W!AcceptType2, P!AcceptType3, W!AcceptType3,
         P!AcceptCommand, W!AcceptCommand, P!ForceInterrupt, W!ForceInterrupt,
         P!WhileBusy, W!WhileBusy, P!IsForce, W!IsForce, P!IsType1, W!IsType1,
         P!IsType2, W!IsType2, P!IsType3, W!IsType3, P!BUSY, W!BUSY, P!DRQ, W!DRQ,
         P!INDEX_PULSE, W!INDEX_PULSE, P!LOST_DATA, W!LOST_DATA,
         P!TRACK_0, W!TRACK_0, P!CRC_ERROR, W!CRC_ERROR, P!RNF, W!RNF,
         P!SEEK_ERROR, W!SEEK_ERROR, P!RECORD_TYPE, W!RECORD_TYPE,
         P!WRITE_PROTECT, W!WRITE_PROTECT, P!Bit, W!Bit, P!Wrap, W!Wrap,
         P!WriteBit, W!WriteBit, P!Set, W!Set, P!Clear, W!Clear, P!SetDrq, W!SetDrq,
         P!ResetDrq, W!ResetDrq, P!Goto, W!Goto, P!End, W!End,
         P!IndexPulse, W!IndexPulse, P!Drive, W!Drive, P!Verify1, W!Verify1,
         P!Type1_3, W!Type1_3, P!Type1_2, W!Type1_2, P!Type1_1, W!Type1_1,
         P!Type2_1, W!Type2_1, P!Type3_1, W!Type3_1, P!WriteTrack1, W!WriteTrack1

LEMMA SameRegisters ==
    ASSUME NEW f, NEW b
    PROVE  /\ P!ReadStatus(f) = W!ReadStatus(f) /\ P!AnswerDrq(f) = W!AnswerDrq(f)
           /\ P!WriteData(f, b) = W!WriteData(f, b)
           /\ P!WriteTrack(f, b) = W!WriteTrack(f, b)
           /\ P!WriteSector(f, b) = W!WriteSector(f, b)
           /\ P!Reset(f) = W!Reset(f) /\ P!IndexPulse(f, b) = W!IndexPulse(f, b)
  BY DEF P!ReadStatus, W!ReadStatus, P!AnswerDrq, W!AnswerDrq,
         P!WriteData, W!WriteData, P!WriteTrack, W!WriteTrack,
         P!WriteSector, W!WriteSector, P!Reset, W!Reset, P!IndexPulse, W!IndexPulse,
         P!ResetDrq, W!ResetDrq, P!BUSY, W!BUSY, P!DRQ, W!DRQ,
         P!INDEX_PULSE, W!INDEX_PULSE, P!TRACK_0, W!TRACK_0

LEMMA SameNext == P!Next <=> W!Next
  <1>1. \A r : P!Resume(r) <=> W!Resume(r)
    BY SameHandler DEF P!Resume, W!Resume
  <1>2. \A c : P!Command(c) <=> W!Command(c)
    BY SameCommand DEF P!Command, W!Command, P!BUSY, W!BUSY, P!IsForce, W!IsForce,
                       P!IsType1, W!IsType1
  <1>3. /\ P!HostReadsStatus <=> W!HostReadsStatus
        /\ P!HostReadsData <=> W!HostReadsData
        /\ \A b : P!HostWrites(b) <=> W!HostWrites(b)
    BY SameRegisters DEF P!HostReadsStatus, W!HostReadsStatus, P!HostReadsData,
                         W!HostReadsData, P!HostWrites, W!HostWrites, P!BUSY, W!BUSY
  <1>4. P!HostResets <=> W!HostResets
    <2>1. P!Reset(fdc) = W!Reset(fdc)
      BY SameRegisters
    <2> QED
      BY Zenon, <2>1 DEF P!HostResets, W!HostResets, P!SeeLines, W!SeeLines
  <1>5. P!IndexMoves <=> W!IndexMoves
    BY SameRegisters DEF P!IndexMoves, W!IndexMoves
  <1>6. P!DriveChanges <=> W!DriveChanges
    BY DEF P!DriveChanges, W!DriveChanges, P!SeeLines, W!SeeLines
  <1> QED
    BY <1>1, <1>2, <1>3, <1>4, <1>5, <1>6 DEF P!Next, W!Next


LEMMA SameDriveTypes == V!Type = D!Type
  BY DEF V!Type, D!Type, V!Disks, D!Disks, V!Heads, D!Heads, V!Tracks, D!Tracks

LEMMA SameSignals ==
    ASSUME NEW v, NEW d, NEW image
    PROVE  /\ V!UpdateSignals(v) = D!UpdateSignals(v)
           /\ V!SetDrive(v, d) = D!SetDrive(v, d) /\ V!SetSSO(v, d) = D!SetSSO(v, d)
           /\ V!SetDirc(v, d) = D!SetDirc(v, d) /\ V!Step(v) = D!Step(v)
           /\ V!Eject(v, d) = D!Eject(v, d)
           /\ V!Insert(v, d, image) = D!Insert(v, d, image)
           /\ V!ToggleWriteEnable(v, d) = D!ToggleWriteEnable(v, d)
           /\ V!DoIndexPulse(v) = D!DoIndexPulse(v)
           /\ V!DoResetIndexPulse(v) = D!DoResetIndexPulse(v)
  <1>1. \A w : V!UpdateSignals(w) = D!UpdateSignals(w)
    BY DEF V!UpdateSignals, D!UpdateSignals, V!Disk, D!Disk, V!TrackBase, D!TrackBase
  <1>2. /\ V!SetDrive(v, d) = D!SetDrive(v, d) /\ V!SetSSO(v, d) = D!SetSSO(v, d)
        /\ V!SetDirc(v, d) = D!SetDirc(v, d)
    BY <1>1 DEF V!SetDrive, D!SetDrive, V!SetSSO, D!SetSSO, V!SetDirc, D!SetDirc
  <1>3. V!Step(v) = D!Step(v)
    BY <1>1 DEF V!Step, D!Step
  <1>4. V!Eject(v, d) = D!Eject(v, d)
    BY <1>1 DEF V!Eject, D!Eject
  <1>5. V!Insert(v, d, image) = D!Insert(v, d, image)
    BY <1>1, <1>4 DEF V!Insert, D!Insert
  <1>6. V!ToggleWriteEnable(v, d) = D!ToggleWriteEnable(v, d)
    BY DEF V!ToggleWriteEnable, D!ToggleWriteEnable
  <1>7. /\ V!DoIndexPulse(v) = D!DoIndexPulse(v)
        /\ V!DoResetIndexPulse(v) = D!DoResetIndexPulse(v)
    BY DEF V!DoIndexPulse, D!DoIndexPulse, V!DoResetIndexPulse, D!DoResetIndexPulse
  <1> QED
    BY <1>1, <1>2, <1>3, <1>4, <1>5, <1>6, <1>7

LEMMA SameTransfers ==
    ASSUME NEW v, NEW pass
    PROVE  /\ V!Write(v, pass) = D!Write(v, pass) /\ V!Read(v, pass) = D!Read(v, pass)
           /\ V!WriteIdam(v, pass) = D!WriteIdam(v, pass)
           /\ V!NextIdam(v, pass) = D!NextIdam(v, pass)
           /\ V!Extend(v) = D!Extend(v) /\ V!Dirty(v) = D!Dirty(v)
           /\ V!Pass(v, pass) = D!Pass(v, pass)
  BY DEF V!Write, D!Write, V!Read, D!Read, V!WriteIdam, D!WriteIdam, V!NextIdam,
         D!NextIdam, V!Pass, D!Pass, V!Dirty, D!Dirty, V!Extend, D!Extend,
         V!TrackBase, D!TrackBase, V!Disk, D!Disk

-----------------------------------------------------------------------------
(* The inductive invariant.                                                *)

(* The lines' copies. *)
Wired ==
    /\ fdc.tr00 = vip.tr00 /\ fdc.index = vip.index /\ fdc.wp = vip.wprot
    /\ fdc.dir = vip.dir

(* A RESTORE counts down from the last track, so the track register is never behind
   the head, and ends where the drive says that it is at track 0. *)
Restoring(f, v) ==
    /\ W!BUSY \in f.sr
    /\ f.st \in {"type1_1", "verify_track_1", "verify_track_2"} /\ ~f.isStep
    /\ IF f.st = "type1_1" THEN f.dat = 0 /\ v.cyl[v.drive] <= f.tr
                           ELSE f.tr = 0 /\ v.cyl[v.drive] = 0

Tracked ==
    /\ tracking = "known" => fdc.tr = vip.cyl[vip.drive]
    /\ tracking = "restoring" => Restoring(fdc, vip)

(* HALT is enabled only for a command under way whose end is not announced yet. *)
Stopped ==
    /\ cart.haltEn => W!BUSY \in fdc.sr /\ fdc.acc # NoCommand /\ ~fdc.intrq
    /\ fdc.intrq => (cart.dden => cart.nmi)

(* What the program has given the controller. *)
Given ==
    /\ fdc.acc # NoCommand => fdc.acc \in Commands
    /\ fdc.iIdx => \E c \in Commands : W!IsForce(c) /\ W!Bit(c, 2)

Agreed ==
    /\ vip \in D!Type /\ V!Fresh(vip)
    /\ cart \in CartType /\ tracking \in {"lost", "restoring", "known"}
    /\ Wired /\ Tracked /\ Stopped /\ Given

IInv == P!Inv /\ Agreed

-----------------------------------------------------------------------------
(* What a handler or a command does with the drive's lines.                *)

Calls == {"none", "step", "idam", "read", "skip", "write", "write_idam"}

(* The controller goes from f to g, or, were the drive's answer s, to h: only a step
   looks at the lines that the drive answers with. *)
Lawful(f, g, h, s) ==
    /\ g.call \in Calls
    /\ g.call = "step" => h = W!SeeLines(g, s.tr00, s.wp)
    /\ g.call # "step" => g.tr00 = f.tr00 /\ g.wp = f.wp

(* Nor do other handlers move the head or lose count of it. *)
Quiet(f, g) ==
    /\ g.call \in Calls \ {"step"}
    /\ g.tr00 = f.tr00 /\ g.wp = f.wp /\ g.tr = f.tr /\ g.isStep = f.isStep
    /\ g.acc = f.acc /\ g.iIdx = f.iIdx

LEMMA VerifyQuiet ==
    ASSUME NEW f \in W!Type, f.call = "none", NEW r
    PROVE  /\ Quiet(f, W!Verify1(f)) /\ Quiet(f, W!Verify2(f, r))
           /\ W!Verify1(f).st = "verify_track_2" \/ W!BUSY \notin W!Verify1(f).sr
           /\ W!Verify2(f, r).st = "verify_track_2" \/ W!BUSY \notin W!Verify2(f, r).sr
  <1>1. /\ Quiet(f, W!Verify1(f))
        /\ W!Verify1(f).st = "verify_track_2" \/ W!BUSY \notin W!Verify1(f).sr
    BY DEF Quiet, Calls, W!Type, W!Verify1, W!Goto, W!End
  <1>2. Quiet(f, W!Verify2(f, r))
    <2> DEFINE g == W!Verify2(f, r)
    <2>1. g.call \in Calls \ {"step"} /\ g.tr = f.tr /\ g.acc = f.acc
      BY SMTT(30) DEF Calls, W!Type, W!Verify2, W!Search, W!Found, W!Drive,
                      W!IndexPulse, W!Goto, W!End, W!Set, W!Clear
    <2>2. g.tr00 = f.tr00 /\ g.wp = f.wp
      BY SMTT(30) DEF W!Type, W!Verify2, W!Search, W!Found, W!Drive,
                      W!IndexPulse, W!Goto, W!End, W!Set, W!Clear
    <2>3. g.isStep = f.isStep /\ g.iIdx = f.iIdx
      BY SMTT(30) DEF W!Type, W!Verify2, W!Search, W!Found, W!Drive,
                      W!IndexPulse, W!Goto, W!End, W!Set, W!Clear
    <2> QED
      BY <2>1, <2>2, <2>3 DEF Quiet
  <1>3. W!Verify2(f, r).st = "verify_track_2" \/ W!BUSY \notin W!Verify2(f, r).sr
    BY SMTT(30) DEF W!Type, W!Verify2, W!Search, W!Found, W!Drive,
                    W!IndexPulse, W!Goto, W!End, W!Set, W!Clear
  <1> QED
    BY <1>1, <1>2, <1>3

LEMMA SearchQuiet ==
    ASSUME NEW f \in W!Type, f.call = "none", NEW r
    PROVE  Quiet(f, W!Type2_1(f)) /\ Quiet(f, W!Type2_2(f, r))
  <1>1. Quiet(f, W!Type2_1(f))
    BY DEF Quiet, Calls, W!Type, W!Type2_1, W!Goto, W!End, W!Set
  <1>2. Quiet(f, W!Type2_2(f, r))
    <2> DEFINE g == W!Type2_2(f, r)
    <2>1. g.call \in Calls \ {"step"} /\ g.tr = f.tr /\ g.acc = f.acc
      BY SMTT(30) DEF Calls, W!Type, W!Type2_2, W!Search, W!Found, W!Drive,
                      W!IndexPulse, W!Goto, W!End, W!Set
    <2>2. g.tr00 = f.tr00 /\ g.wp = f.wp
      BY SMTT(30) DEF W!Type, W!Type2_2, W!Search, W!Found, W!Drive,
                      W!IndexPulse, W!Goto, W!End, W!Set
    <2>3. g.isStep = f.isStep /\ g.iIdx = f.iIdx
      BY SMTT(30) DEF W!Type, W!Type2_2, W!Search, W!Found, W!Drive,
                      W!IndexPulse, W!Goto, W!End, W!Set
    <2> QED
      BY <2>1, <2>2, <2>3 DEF Quiet
  <1> QED
    BY <1>1, <1>2

LEMMA ReadQuiet ==
    ASSUME NEW f \in W!Type, f.call = "none", NEW r
    PROVE  /\ Quiet(f, W!ReadSector1(f, r)) /\ Quiet(f, W!ReadSector2(f, r))
           /\ Quiet(f, W!ReadSector3(f, r))
  BY DEF Quiet, Calls, W!Type, W!ReadSector1, W!ReadSector2, W!ReadSector3, W!Offer,
         W!NextSector, W!Type2_1, W!Drive, W!IndexPulse, W!Goto, W!End, W!Set, W!SetDrq

LEMMA WriteQuiet ==
    ASSUME NEW f \in W!Type, f.call = "none", NEW r
    PROVE  /\ Quiet(f, W!WriteSector1(f, r)) /\ Quiet(f, W!WriteSector2(f, r))
           /\ Quiet(f, W!WriteSector3(f, r)) /\ Quiet(f, W!WriteSector4(f, r))
           /\ Quiet(f, W!WriteSector5(f, r)) /\ Quiet(f, W!WriteSector6(f, r))
  <1>1. /\ Quiet(f, W!WriteSector1(f, r)) /\ Quiet(f, W!WriteSector2(f, r))
        /\ Quiet(f, W!WriteSector3(f, r)) /\ Quiet(f, W!WriteSector4(f, r))
    BY SMTT(30) DEF Quiet, Calls, W!Type, W!WriteSector1, W!WriteSector2, W!WriteSector3,
                    W!WriteSector4, W!Drive, W!IndexPulse, W!Goto, W!End, W!Set, W!SetDrq,
                    W!ResetDrq
  <1>2. Quiet(f, W!WriteSector5(f, r))
    BY SMTT(30) DEF Quiet, Calls, W!Type, W!WriteSector5, W!Drive, W!IndexPulse, W!Goto,
                    W!Set, W!SetDrq, W!ResetDrq
  <1>3. Quiet(f, W!WriteSector6(f, r))
    BY SMTT(30) DEF Quiet, Calls, W!Type, W!WriteSector6, W!NextSector, W!Type2_1, W!Drive,
                    W!IndexPulse, W!Goto, W!End, W!Set
  <1> QED
    BY <1>1, <1>2, <1>3

LEMMA TrackQuiet ==
    ASSUME NEW f \in W!Type, f.call = "none", NEW r
    PROVE  /\ Quiet(f, W!ReadAddress1(f, r)) /\ Quiet(f, W!ReadAddress2(f, r))
           /\ Quiet(f, W!ReadAddress3(f, r)) /\ Quiet(f, W!Type3_1(f))
           /\ Quiet(f, W!WriteTrack2(f)) /\ Quiet(f, W!WriteTrack2b(f, r))
           /\ Quiet(f, W!WriteTrack3(f, r))
  BY DEF Quiet, Calls, W!Type, W!ReadAddress1, W!ReadAddress2, W!ReadAddress3, W!Type3_1,
         W!WriteTrack1, W!WriteTrack2, W!WriteTrack2b, W!WriteTrack3, W!Offer, W!Search,
         W!Found, W!Drive, W!IndexPulse, W!Goto, W!End, W!Set, W!SetDrq, W!ResetDrq


(* A step towards the track in the data register, on the way from f to g. *)
Seeks(f, g) ==
    /\ g.dir = IF f.dat > f.tr THEN 1 ELSE -1
    /\ IF f.tr00 /\ g.dir = -1
         THEN g.call = "none" /\ g.tr = 0 /\ g.st = "verify_track_1"
         ELSE /\ g.call = "step" /\ g.tr = f.tr + g.dir
              /\ g.st = IF f.isStep THEN "verify_track_1" ELSE "type1_1"
    /\ g.isStep = f.isStep /\ g.dat = f.dat /\ g.q

LEMMA StepLawful ==
    ASSUME NEW f \in W!Type, f.call = "none", NEW r, NEW s
    PROVE  /\ Lawful(f, W!Type1_3(f, r), W!Type1_3(f, s), s)
           /\ W!Type1_3(f, r).acc = f.acc /\ W!Type1_3(f, r).iIdx = f.iIdx
  BY DEF Lawful, Calls, W!Type, W!Type1_3, W!Goto, W!SeeLines

LEMMA WrapByte == \A n \in Int : W!Wrap(n) \in W!Byte /\ (n \in W!Byte => W!Wrap(n) = n)
  BY ControllerAssumption DEF W!Wrap, W!Byte

LEMMA MovedLawful ==
    ASSUME NEW f \in W!Type, f.call = "none", NEW r, NEW s
    PROVE  /\ Lawful(f, W!Type1_2(f, r), W!Type1_2(f, s), s)
           /\ W!Type1_2(f, r).acc = f.acc /\ W!Type1_2(f, r).iIdx = f.iIdx
  <1> DEFINE m == [f EXCEPT !.tr = W!Wrap(@ + f.dir)]
  <1>1. f.tr \in Int /\ f.dir \in Int
    BY ControllerAssumption DEF W!Type, W!Byte
  <1>2. W!Wrap(f.tr + f.dir) \in W!Byte
    BY <1>1, WrapByte
  <1>3. m \in W!Type
    BY <1>2 DEF W!Type
  <1>4. m.call = f.call /\ m.tr00 = f.tr00 /\ m.wp = f.wp /\ m.acc = f.acc /\ m.iIdx = f.iIdx
    BY DEF W!Type
  <1> HIDE DEF m
  <1>5. /\ Lawful(m, W!Type1_3(m, r), W!Type1_3(m, s), s)
        /\ W!Type1_3(m, r).acc = m.acc /\ W!Type1_3(m, r).iIdx = m.iIdx
    BY <1>3, <1>4, StepLawful
  <1> QED
    BY <1>4, <1>5 DEF Lawful, W!Type1_2, m

LEMMA SeekLawful ==
    ASSUME NEW f \in W!Type, f.call = "none", NEW r, NEW s
    PROVE  /\ Lawful(f, W!Type1_1(f, r), W!Type1_1(f, s), s)
           /\ W!Type1_1(f, r).acc = f.acc /\ W!Type1_1(f, r).iIdx = f.iIdx
           /\ f.dat # f.tr => Seeks(f, W!Type1_1(f, r))
  <1>1. CASE f.dat = f.tr
    BY <1>1, VerifyQuiet DEF W!Type1_1, Quiet, Lawful, Calls
  <1>2. CASE f.dat # f.tr
    <2> DEFINE d == IF f.dat > f.tr THEN 1 ELSE -1
               m == [f EXCEPT !.dir = d]
               n == [m EXCEPT !.tr = m.tr + m.dir]
    <2>1. m \in W!Type /\ m.dir = d
      BY DEF W!Type
    <2>2. /\ m.call = f.call /\ m.tr00 = f.tr00 /\ m.wp = f.wp /\ m.acc = f.acc
          /\ m.iIdx = f.iIdx /\ m.tr = f.tr /\ m.isStep = f.isStep /\ m.dat = f.dat
      BY DEF W!Type
    <2>3. m.tr + m.dir \in W!Byte /\ m.tr + m.dir \in Int
      BY <1>2, <2>1, <2>2, ControllerAssumption DEF W!Type, W!Byte
    <2>4. W!Type1_1(f, r) = W!Type1_2(m, r) /\ W!Type1_1(f, s) = W!Type1_2(m, s)
      BY <1>2 DEF W!Type1_1
    <2> HIDE DEF m
    <2>5. W!Type1_2(m, r) = W!Type1_3(n, r)
      BY <2>3, WrapByte DEF W!Type1_2
    <2>6. n \in W!Type
      BY <2>1, <2>3 DEF W!Type
    <2>7. /\ n.tr = f.tr + d /\ n.dir = d /\ n.tr00 = f.tr00 /\ n.isStep = f.isStep
          /\ n.dat = f.dat /\ n.call = "none"
      BY <2>1, <2>2 DEF W!Type
    <2> HIDE DEF n
    <2>8. Seeks(f, W!Type1_3(n, r))
      <3> DEFINE g == W!Type1_3(n, r)
      <3>1. /\ g.dir = n.dir /\ g.isStep = n.isStep /\ g.dat = n.dat /\ g.q
            /\ IF n.tr00 /\ n.dir = -1
                 THEN g.call = n.call /\ g.tr = 0 /\ g.st = "verify_track_1"
                 ELSE /\ g.call = "step" /\ g.tr = n.tr
                      /\ g.st = IF n.isStep THEN "verify_track_1" ELSE "type1_1"
        BY <2>6 DEF W!Type1_3, W!Goto, W!Type
      <3> HIDE DEF g
      <3>2. Seeks(f, g)
        BY <2>7, <3>1 DEF Seeks
      <3> QED
        BY <3>2 DEF g
    <2>9. /\ Lawful(m, W!Type1_2(m, r), W!Type1_2(m, s), s)
          /\ W!Type1_2(m, r).acc = m.acc /\ W!Type1_2(m, r).iIdx = m.iIdx
      BY <2>1, <2>2, MovedLawful
    <2> QED
      BY <2>2, <2>4, <2>5, <2>8, <2>9 DEF Lawful
  <1> QED
    BY <1>1, <1>2

(* Handlers. *)
LEMMA HandlerQuiet ==
    ASSUME NEW f0 \in W!Type, f0.st \in W!States \ {"accept_command", "type1_1"}, NEW r
    PROVE  /\ Quiet(f0, W!Handler(f0, r))
           /\ f0.st \in {"verify_track_1", "verify_track_2"} =>
                 LET g == W!Handler(f0, r)
                 IN  g.st = "verify_track_2" \/ W!BUSY \notin g.sr
  <1> DEFINE f == [f0 EXCEPT !.q = FALSE, !.call = "none"]
  <1>1. f \in W!Type /\ f.call = "none" /\ f.st = f0.st
    <2>1. f \in W!Type
      BY ZenonT(60) DEF W!Type
    <2> QED
      BY <2>1 DEF W!Type
  <1>2. /\ f.tr00 = f0.tr00 /\ f.wp = f0.wp /\ f.isStep = f0.isStep
        /\ f.tr = f0.tr /\ f.acc = f0.acc /\ f.iIdx = f0.iIdx
    <2>1. f.tr00 = f0.tr00 /\ f.wp = f0.wp
      BY DEF W!Type
    <2>2. f.isStep = f0.isStep /\ f.iIdx = f0.iIdx
      BY DEF W!Type
    <2>3. f.tr = f0.tr /\ f.acc = f0.acc
      BY DEF W!Type
    <2> QED
      BY <2>1, <2>2, <2>3
  <1> HIDE DEF f
  <1>3. ASSUME NEW g, Quiet(f, g)
        PROVE  Quiet(f0, g)
    BY <1>2, <1>3 DEF Quiet
  <1>4. CASE f.st \in {"verify_track_1", "verify_track_2"}
    BY <1>1, <1>3, <1>4, VerifyQuiet DEF W!Handler, f
  <1>5. CASE f.st \in {"type2_1", "type2_2"}
    BY <1>1, <1>3, <1>5, SearchQuiet DEF W!Handler, f
  <1>6. CASE f.st \in {"read_sector_1", "read_sector_2", "read_sector_3"}
    BY <1>1, <1>3, <1>6, ReadQuiet DEF W!Handler, f
  <1>7. CASE f.st \in {"write_sector_1", "write_sector_2", "write_sector_3",
                       "write_sector_4", "write_sector_5", "write_sector_6"}
    BY <1>1, <1>3, <1>7, WriteQuiet DEF W!Handler, f
  <1>8. CASE f.st \in {"type3_1", "read_address_1", "read_address_2", "read_address_3",
                       "write_track_2", "write_track_2b", "write_track_3"}
    BY <1>1, <1>3, <1>8, TrackQuiet DEF W!Handler, f
  <1> QED
    BY <1>1, <1>4, <1>5, <1>6, <1>7, <1>8 DEF W!States


LEMMA HandlerLawful ==
    ASSUME NEW f0 \in W!Type, f0.st \in W!States \ {"accept_command"}, NEW r, NEW s
    PROVE  /\ Lawful(f0, W!Handler(f0, r), W!Handler(f0, s), s)
           /\ W!Handler(f0, r).acc = f0.acc /\ W!Handler(f0, r).iIdx = f0.iIdx
           /\ f0.st = "type1_1" =>
                 LET g == W!Handler(f0, r)
                 IN  IF f0.dat = f0.tr
                       THEN /\ g.tr = f0.tr /\ g.isStep = f0.isStep
                            /\ g.st = "verify_track_2" \/ W!BUSY \notin g.sr
                            /\ g.call # "step"
                       ELSE Seeks(f0, g)
  <1>1. CASE f0.st # "type1_1"
    <2>1. Quiet(f0, W!Handler(f0, r))
      BY <1>1, HandlerQuiet
    <2> QED
      BY <1>1, <2>1 DEF Quiet, Lawful
  <1>2. CASE f0.st = "type1_1"
    <2> DEFINE f == [f0 EXCEPT !.q = FALSE, !.call = "none"]
    <2>1. f \in W!Type
      BY ZenonT(60) DEF W!Type
    <2>2. f.call = "none" /\ f.dat = f0.dat /\ f.tr = f0.tr /\ f.acc = f0.acc /\ f.st = f0.st
      BY DEF W!Type
    <2>3. f.tr00 = f0.tr00 /\ f.wp = f0.wp
      BY DEF W!Type
    <2>4. f.isStep = f0.isStep /\ f.iIdx = f0.iIdx
      BY DEF W!Type
    <2> HIDE DEF f
    <2>5. W!Handler(f0, r) = W!Type1_1(f, r) /\ W!Handler(f0, s) = W!Type1_1(f, s)
      BY <1>2, <2>2 DEF W!Handler, f
    <2>6. /\ Lawful(f, W!Type1_1(f, r), W!Type1_1(f, s), s)
          /\ W!Type1_1(f, r).acc = f.acc /\ W!Type1_1(f, r).iIdx = f.iIdx
          /\ f.dat # f.tr => Seeks(f, W!Type1_1(f, r))
      BY <2>1, <2>2, SeekLawful
    <2>7. f.dat = f.tr => W!Type1_1(f, r) = W!Verify1(f)
      BY DEF W!Type1_1
    <2>8. /\ Quiet(f, W!Verify1(f))
          /\ W!Verify1(f).st = "verify_track_2" \/ W!BUSY \notin W!Verify1(f).sr
      BY <2>1, <2>2, VerifyQuiet
    <2>9. Seeks(f, W!Type1_1(f, r)) => Seeks(f0, W!Type1_1(f, r))
      BY <2>2, <2>3, <2>4 DEF Seeks
    <2> QED
      BY <2>2, <2>3, <2>4, <2>5, <2>6, <2>7, <2>8, <2>9 DEF Lawful, Quiet
  <1> QED
    BY <1>1, <1>2

-----------------------------------------------------------------------------
(* Commands.                                                               *)

(* A command is being accepted, and nothing has been done about it yet. *)
Taking(f, h) ==
    /\ h \in W!Type /\ h.call = f.call /\ h.tr = f.tr /\ h.dat = f.dat
    /\ h.tr00 = f.tr00 /\ h.wp = f.wp /\ h.acc = f.acc /\ h.iIdx = f.iIdx

LEMMA BitsTaking ==
    ASSUME NEW f, NEW h, Taking(f, h), NEW bits \in SUBSET W!Bits
    PROVE  /\ Taking(f, W!Set(h, bits)) /\ Taking(f, W!Clear(h, bits))
           /\ Taking(f, W!ResetDrq(h)) /\ W!Set(h, bits).isStep = h.isStep
  <1>1. W!Set(h, bits) \in W!Type
    BY DEF Taking, W!Set, W!Type
  <1>2. W!Clear(h, bits) \in W!Type
    BY DEF Taking, W!Clear, W!Type
  <1>3. W!ResetDrq(h) \in W!Type
    BY ZenonT(30) DEF Taking, W!ResetDrq, W!Type
  <1>4. /\ Taking(f, W!Set(h, bits)) /\ W!Set(h, bits).isStep = h.isStep
    BY <1>1 DEF Taking, W!Set, W!Type
  <1>5. Taking(f, W!Clear(h, bits))
    BY <1>2 DEF Taking, W!Clear, W!Type
  <1>6. Taking(f, W!ResetDrq(h))
    BY <1>3 DEF Taking, W!ResetDrq, W!Type
  <1> QED
    BY <1>4, <1>5, <1>6

(* RESTORE seeks from the last track, SEEK from where the register says. *)
Aimed(f, c, h) ==
    /\ h \in W!Type /\ h.call = "none" /\ h.tr00 = f.tr00 /\ ~h.isStep
    /\ IF c \div 16 = 0 THEN h.tr = MaxByte /\ h.dat = 0
                        ELSE h.tr = f.tr /\ h.dat = f.dat

LEMMA AcceptType1Lawful ==
    ASSUME NEW f \in W!Type, f.call = "none", NEW c \in 0..255, NEW r, NEW s
    PROVE  /\ Lawful(f, W!AcceptType1(f, c, r), W!AcceptType1(f, c, s), s)
           /\ W!AcceptType1(f, c, r).acc = f.acc /\ W!AcceptType1(f, c, r).iIdx = f.iIdx
           /\ c \div 16 \in {0, 1} =>
                \E h : Aimed(f, c, h) /\ W!AcceptType1(f, c, r) = W!Type1_1(h, r)
  <1> DEFINE kind == c \div 32
             n == W!ResetDrq(f)
             m == W!Clear(n, {W!CRC_ERROR, W!SEEK_ERROR})
             dir == CASE kind = 2 -> 1 [] kind = 3 -> -1 [] OTHER -> m.dir
             g == [m EXCEPT !.t1 = TRUE, !.isStep = kind > 0,
                            !.dir = CASE kind = 2 -> 1 [] kind = 3 -> -1 [] OTHER -> @]
             h == W!Set(g, {W!BUSY})
             o == W!Homing(h)
  <1>1. {W!CRC_ERROR, W!SEEK_ERROR} \in SUBSET W!Bits /\ {W!BUSY} \in SUBSET W!Bits
    BY DEF W!Bits, W!CRC_ERROR, W!SEEK_ERROR, W!RNF, W!BUSY
  <1>2. Taking(f, f)
    BY DEF Taking
  <1>3. Taking(f, n)
    BY <1>1, <1>2, BitsTaking
  <1> HIDE DEF n
  <1>4. Taking(f, m)
    BY <1>1, <1>3, BitsTaking
  <1> HIDE DEF m
  <1>5. g \in W!Type
    <2>1. m.dir \in {1, -1} /\ (kind > 0) \in BOOLEAN
      BY <1>4 DEF Taking, W!Type
    <2>2. dir \in {1, -1}
      BY <2>1
    <2> HIDE DEF kind
    <2> QED
      BY ZenonT(30), <1>4, <2>1, <2>2 DEF Taking, W!Type
  <1>6. Taking(f, g)
    <2>1. /\ g.call = m.call /\ g.tr = m.tr /\ g.dat = m.dat /\ g.acc = m.acc
      BY <1>4 DEF Taking, W!Type
    <2>2. g.tr00 = m.tr00 /\ g.wp = m.wp /\ g.iIdx = m.iIdx
      BY <1>4 DEF Taking, W!Type
    <2> QED
      BY <1>4, <1>5, <2>1, <2>2 DEF Taking
  <1>7. g.isStep = (kind > 0)
    BY <1>4 DEF Taking, W!Type
  <1> HIDE DEF g
  <1>8. Taking(f, h) /\ h.isStep = g.isStep
    BY <1>1, <1>6, BitsTaking
  <1> HIDE DEF h
  <1>9. o \in W!Type
    <2>1. MaxByte \in W!Byte /\ 0 \in W!Byte /\ h \in W!Type
      BY <1>8, ControllerAssumption DEF Taking, W!Byte
    <2> QED
      BY ZenonT(30), <2>1 DEF W!Homing, W!Type
  <1>10. /\ o.tr = MaxByte /\ o.dat = 0 /\ o.call = h.call /\ o.acc = h.acc
    BY <1>8 DEF Taking, W!Homing, W!Type
  <1>11. o.tr00 = h.tr00 /\ o.wp = h.wp
    BY <1>8 DEF Taking, W!Homing, W!Type
  <1>12. o.iIdx = h.iIdx /\ o.isStep = h.isStep
    BY <1>8 DEF Taking, W!Homing, W!Type
  <1> HIDE DEF o
  <1>13. \A t : W!AcceptType1(f, c, t) =
           IF kind > 0 THEN (IF W!Bit(c, 4) THEN W!Type1_2(h, t) ELSE W!Type1_3(h, t))
           ELSE W!Type1_1(IF c \div 16 = 0 THEN o ELSE h, t)
    BY DEF W!AcceptType1, n, m, g, h, o
  <1>14. /\ Lawful(h, W!Type1_2(h, r), W!Type1_2(h, s), s)
         /\ W!Type1_2(h, r).acc = h.acc /\ W!Type1_2(h, r).iIdx = h.iIdx
         /\ Lawful(h, W!Type1_3(h, r), W!Type1_3(h, s), s)
         /\ W!Type1_3(h, r).acc = h.acc /\ W!Type1_3(h, r).iIdx = h.iIdx
         /\ Lawful(h, W!Type1_1(h, r), W!Type1_1(h, s), s)
         /\ W!Type1_1(h, r).acc = h.acc /\ W!Type1_1(h, r).iIdx = h.iIdx
    BY <1>8, StepLawful, MovedLawful, SeekLawful DEF Taking
  <1>15. /\ Lawful(o, W!Type1_1(o, r), W!Type1_1(o, s), s)
         /\ W!Type1_1(o, r).acc = o.acc /\ W!Type1_1(o, r).iIdx = o.iIdx
    BY <1>8, <1>9, <1>10, SeekLawful DEF Taking
  <1>16. ASSUME NEW g1, NEW h1, Lawful(h, g1, h1, s) \/ Lawful(o, g1, h1, s)
         PROVE  Lawful(f, g1, h1, s)
    BY <1>8, <1>11, <1>16 DEF Lawful, Taking
  <1>17. c \div 16 \in {0, 1} => ~(kind > 0)
    OBVIOUS
  <1>18. c \div 16 = 0 => Aimed(f, c, o)
    BY <1>7, <1>8, <1>9, <1>10, <1>11, <1>12, <1>17 DEF Aimed, Taking
  <1>19. c \div 16 = 1 => Aimed(f, c, h)
    <2>1. c \div 16 = 1 => ~h.isStep
      BY <1>7, <1>8, <1>17
    <2>2. c \div 16 = 1 => c \div 16 # 0
      OBVIOUS
    <2> QED
      BY Zenon, <1>8, <2>1, <2>2 DEF Aimed, Taking
  <1>20. h.acc = f.acc /\ h.iIdx = f.iIdx /\ o.acc = f.acc /\ o.iIdx = f.iIdx
    BY <1>8, <1>10, <1>12 DEF Taking
  <1> HIDE DEF kind
  <1>21. c \div 16 \in {0, 1} =>
           \E h1 : Aimed(f, c, h1) /\ W!AcceptType1(f, c, r) = W!Type1_1(h1, r)
    BY <1>13, <1>17, <1>18, <1>19
  <1> QED
    BY <1>13, <1>14, <1>15, <1>16, <1>20, <1>21


(* Commands of types 2 and 3 start with the status and the side. *)
LEMMA AcceptOthersQuiet ==
    ASSUME NEW f \in W!Type, f.call = "none", NEW c \in 0..255
    PROVE  Quiet(f, W!AcceptType2(f, c)) /\ Quiet(f, W!AcceptType3(f, c))
  <1>1. Quiet(f, W!AcceptType2(f, c))
    BY DEF Quiet, Calls, W!Type, W!AcceptType2, W!SetSide, W!Type2_1, W!Goto, W!End, W!Set,
           W!Clear, W!ResetDrq
  <1>2. Quiet(f, W!AcceptType3(f, c))
    BY DEF Quiet, Calls, W!Type, W!AcceptType3, W!SetSide, W!Type3_1, W!WriteTrack1, W!Goto,
           W!End, W!Set, W!SetDrq, W!Clear, W!ResetDrq
  <1> QED
    BY <1>1, <1>2

LEMMA ForceQuiet ==
    ASSUME NEW f \in W!Type, NEW c \in 0..255
    PROVE  LET g == W!ForceInterrupt(f, c)
           IN  /\ g.call = "none" /\ g.tr00 = f.tr00 /\ g.wp = f.wp /\ g.tr = f.tr
               /\ g.acc = NoCommand /\ g.iIdx = W!Bit(c, 2)
  <1>1. /\ W!ForceInterrupt(f, c).call = "none" /\ W!ForceInterrupt(f, c).tr = f.tr
        /\ W!ForceInterrupt(f, c).acc = NoCommand
    BY DEF W!Type, W!ForceInterrupt
  <1>2. W!ForceInterrupt(f, c).tr00 = f.tr00 /\ W!ForceInterrupt(f, c).wp = f.wp
    BY DEF W!Type, W!ForceInterrupt
  <1>3. W!ForceInterrupt(f, c).iIdx = W!Bit(c, 2)
    BY DEF W!Type, W!ForceInterrupt
  <1> QED
    BY <1>1, <1>2, <1>3

LEMMA CommandLawful ==
    ASSUME NEW f0 \in W!Type, NEW c \in 0..255, W!IsForce(c) \/ W!BUSY \notin f0.sr,
           NEW r, NEW s
    PROVE  LET g == W!WriteCommand(f0, c, r)
               h == W!WriteCommand(f0, c, s)
           IN  /\ Lawful(f0, g, h, s)
               /\ ~W!IsType1(c) => g = h
               /\ g.acc \in {c, NoCommand}
               /\ g.iIdx => f0.iIdx \/ (W!IsForce(c) /\ W!Bit(c, 2))
               /\ c >= 128 => g.tr = f0.tr /\ g.call # "step"
               /\ c \div 16 \in {0, 1} =>
                     \E a : Aimed(f0, c, a) /\ g = W!Type1_1(a, r)
  <1> DEFINE g == W!WriteCommand(f0, c, r)
             h == W!WriteCommand(f0, c, s)
  <1>1. CASE W!IsForce(c)
    <2>1. \A t : W!WriteCommand(f0, c, t) = W!ForceInterrupt(f0, c)
      BY <1>1 DEF W!WriteCommand
    <2>2. c \div 16 \notin {0, 1}
      BY <1>1 DEF W!IsForce
    <2>3. g = W!ForceInterrupt(f0, c) /\ h = g
      BY <2>1
    <2> HIDE DEF g, h
    <2>4. /\ g.call = "none" /\ g.tr00 = f0.tr00 /\ g.wp = f0.wp /\ g.tr = f0.tr
          /\ g.acc = NoCommand /\ g.iIdx = W!Bit(c, 2)
      BY <2>3, ForceQuiet
    <2>5. Lawful(f0, g, h, s)
      BY <2>4 DEF Lawful, Calls
    <2> QED
      BY <1>1, <2>2, <2>3, <2>4, <2>5 DEF g, h
  <1>2. CASE ~W!IsForce(c)
    <2> DEFINE intrq == f0.intrq /\ f0.iImm
               f == [f0 EXCEPT !.cmd = c, !.call = "none", !.intrq = intrq]
               a == W!Accepted(f, c)
               n == W!Accepted(f, NoCommand)
    <2>1. intrq \in BOOLEAN
      BY DEF W!Type
    <2>2. f = [f0 EXCEPT !.cmd = c, !.call = "none", !.intrq = @ /\ f0.iImm]
      OBVIOUS
    <2> HIDE DEF intrq
    <2>3. f \in W!Type
      BY ZenonT(30), <2>1 DEF W!Type
    <2>4. f.call = "none" /\ f.tr = f0.tr /\ f.dat = f0.dat
      BY DEF W!Type
    <2>5. f.tr00 = f0.tr00 /\ f.wp = f0.wp
      BY DEF W!Type
    <2>6. f.iIdx = f0.iIdx
      BY DEF W!Type
    <2>7. \A t : W!AcceptCommand(f0, c, t) = CASE W!IsType1(c) -> W!AcceptType1(a, c, t)
                                                [] W!IsType2(c) -> W!AcceptType2(a, c)
                                                [] W!IsType3(c) -> W!AcceptType3(a, c)
                                                [] OTHER -> n
      BY <2>2 DEF W!AcceptCommand, a, n
    <2> HIDE DEF f
    <2>8. a \in W!Type /\ n \in W!Type
      <3>1. a \in W!Type
        BY ZenonT(60), <2>3 DEF W!Accepted, W!Type
      <3>2. n \in W!Type
        <4> DEFINE m == [f EXCEPT !.acc = NoCommand]
        <4>1. m \in W!Type
          BY <2>3 DEF W!Type
        <4>2. n = [m EXCEPT !.meddled = FALSE]
          BY DEF W!Accepted
        <4> HIDE DEF m, n
        <4> DEFINE no == FALSE
        <4>3. no \in BOOLEAN /\ n = [m EXCEPT !.meddled = no]
          BY <4>2
        <4> HIDE DEF no
        <4>4. [m EXCEPT !.meddled = no] \in W!Type
          BY ZenonT(60), <4>1, <4>3 DEF W!Type
        <4> QED
          BY <4>3, <4>4
      <3> QED
        BY <3>1, <3>2
    <2>9. /\ a.call = f.call /\ a.tr = f.tr /\ a.dat = f.dat /\ a.acc = c
          /\ n.call = f.call /\ n.tr = f.tr /\ n.acc = NoCommand
      BY <2>3 DEF W!Accepted, W!Type
    <2>10. a.tr00 = f.tr00 /\ a.wp = f.wp /\ n.tr00 = f.tr00 /\ n.wp = f.wp
      BY <2>3 DEF W!Accepted, W!Type
    <2>11. a.iIdx = f.iIdx /\ n.iIdx = f.iIdx
      BY <2>3 DEF W!Accepted, W!Type
    <2> HIDE DEF a, n
    <2>12. \A t : W!WriteCommand(f0, c, t) = W!AcceptCommand(f0, c, t)
      BY <1>2 DEF W!WriteCommand
    <2>13. CASE W!IsType1(c)
      <3>1. g = W!AcceptType1(a, c, r) /\ h = W!AcceptType1(a, c, s)
        BY <2>7, <2>12, <2>13 DEF W!IsType1, W!IsType2, W!IsType3
      <3>2. /\ Lawful(a, g, h, s) /\ g.acc = a.acc /\ g.iIdx = a.iIdx
            /\ c \div 16 \in {0, 1} => \E b : Aimed(a, c, b) /\ g = W!Type1_1(b, r)
        <4>1. a \in W!Type /\ a.call = "none"
          BY <2>4, <2>8, <2>9
        <4> HIDE DEF g, h
        <4> QED
          BY <3>1, <4>1, AcceptType1Lawful, SMTT(30)
      <3>3. Lawful(f0, g, h, s)
        BY <2>5, <2>10, <3>2 DEF Lawful
      <3>4. \A b : Aimed(a, c, b) => Aimed(f0, c, b)
        BY <2>4, <2>5, <2>9, <2>10 DEF Aimed
      <3>5. ~(c >= 128)
        BY <2>13 DEF W!IsType1
      <3> HIDE DEF g, h
      <3>6. g.acc = c /\ g.iIdx = f0.iIdx
        BY <2>6, <2>9, <2>11, <3>2
      <3> QED
        BY <2>13, <3>2, <3>3, <3>4, <3>5, <3>6 DEF g, h
    <2>14. CASE ~W!IsType1(c)
      <3>1. g = h
        BY <2>7, <2>12, <2>14
      <3>2. Quiet(a, g) \/ g = n
        <4>1. Quiet(a, W!AcceptType2(a, c)) /\ Quiet(a, W!AcceptType3(a, c))
          BY <2>4, <2>8, <2>9, AcceptOthersQuiet
        <4>2. g \in {W!AcceptType2(a, c), W!AcceptType3(a, c), n}
          BY <2>7, <2>12, <2>14
        <4> QED
          BY <4>1, <4>2
      <3>3. c \div 16 \notin {0, 1}
        BY <2>14 DEF W!IsType1
      <3> HIDE DEF g, h
      <3>4. /\ g.call \in Calls \ {"step"} /\ g.tr = f0.tr /\ g.acc \in {c, NoCommand}
        BY <2>4, <2>9, <3>2 DEF Quiet, Calls
      <3>5. g.tr00 = f0.tr00 /\ g.wp = f0.wp
        BY <2>5, <2>10, <3>2 DEF Quiet
      <3>6. g.iIdx = f0.iIdx
        BY <2>6, <2>11, <3>2 DEF Quiet
      <3>7. Lawful(f0, g, h, s)
        BY <3>4, <3>5 DEF Lawful
      <3> QED
        BY <3>1, <3>3, <3>4, <3>6, <3>7 DEF g, h
    <2> QED
      BY <2>13, <2>14
  <1> QED
    BY <1>1, <1>2


-----------------------------------------------------------------------------
(* What the drive does when it is called.                                  *)

(* The drive has moved on along the track, or written to it. *)
Stayed(v, w) ==
    /\ w \in D!Type /\ V!Fresh(w)
    /\ w.cyl = v.cyl /\ w.drive = v.drive /\ w.dir = v.dir
    /\ w.ready = v.ready /\ w.tr00 = v.tr00 /\ w.wprot = v.wprot

LEMMA ReadStayed ==
    ASSUME NEW v \in D!Type, V!Fresh(v), NEW pass \in BOOLEAN
    PROVE  Stayed(v, D!Read(v, pass)) /\ Stayed(v, D!NextIdam(v, pass))
  <1>1. /\ D!Read(v, pass) \in D!Type /\ V!Fresh(D!Read(v, pass))
        /\ D!NextIdam(v, pass) \in D!Type /\ V!Fresh(D!NextIdam(v, pass))
    BY DrivesAssumed, SameDriveTypes, SameTransfers, V!TransferFresh
  <1>2. ASSUME NEW b
        PROVE  LET w == D!Pass(v, b)
               IN  /\ w.cyl = v.cyl /\ w.drive = v.drive /\ w.dir = v.dir
                   /\ w.ready = v.ready /\ w.tr00 = v.tr00 /\ w.wprot = v.wprot
    BY DEF D!Pass, D!Type
  <1> QED
    BY <1>1, <1>2 DEF Stayed, D!Read, D!NextIdam

LEMMA WriteStayed ==
    ASSUME NEW v \in D!Type, V!Fresh(v), NEW pass \in BOOLEAN
    PROVE  Stayed(v, D!Write(v, pass)) /\ Stayed(v, D!WriteIdam(v, pass))
  <1> DEFINE Along(a, b) == /\ b.cyl = a.cyl /\ b.drive = a.drive /\ b.dir = a.dir
                            /\ b.ready = a.ready /\ b.tr00 = a.tr00 /\ b.wprot = a.wprot
             w == D!Pass(D!Dirty(D!Extend(v)), pass)
             x == [v EXCEPT !.aborted = TRUE]
  <1>1. ASSUME v.ready
        PROVE  w \in D!Type /\ V!Fresh(w) /\ Along(v, w)
    <2>1. D!Extend(v) \in D!Type /\ V!Fresh(D!Extend(v)) /\ D!Extend(v).ready
      BY <1>1, DrivesAssumed, SameDriveTypes, SameTransfers, V!ExtendFresh
    <2>2. D!Dirty(D!Extend(v)) \in D!Type /\ V!Fresh(D!Dirty(D!Extend(v)))
      BY <2>1, DrivesAssumed, SameDriveTypes, SameTransfers, V!DirtyFresh
    <2>3. w \in D!Type /\ V!Fresh(w)
      BY <2>2, DrivesAssumed, SameDriveTypes, SameTransfers, V!PassFresh
    <2>4. Along(v, D!Extend(v))
      BY DEF D!Extend, D!Type
    <2>5. Along(D!Extend(v), D!Dirty(D!Extend(v)))
      BY <2>1 DEF D!Dirty, D!Type
    <2>6. Along(D!Dirty(D!Extend(v)), w)
      BY <2>2 DEF D!Pass, D!Type
    <2> QED
      BY <2>3, <2>4, <2>5, <2>6
  <1>2. x \in D!Type /\ Along(v, x)
    BY DEF D!Type
  <1>3. V!Fresh(x)
    <2>1. /\ x.disk = v.disk /\ x.head = v.head /\ x.base = v.base /\ x.pulseQ = v.pulseQ
      BY DEF D!Type
    <2> HIDE DEF x
    <2>2. V!Disk(x) = V!Disk(v) /\ V!TrackBase(x) = V!TrackBase(v)
      BY <1>2, <2>1 DEF V!Disk, V!TrackBase
    <2> QED
      BY <1>2, <2>1, <2>2 DEF V!Fresh
  <1>4. Stayed(v, v)
    BY DEF Stayed
  <1> HIDE DEF w, x
  <1>5. v.ready => Stayed(v, w)
    BY <1>1 DEF Stayed
  <1>6. Stayed(v, x)
    BY <1>2, <1>3 DEF Stayed
  <1> QED
    BY <1>4, <1>5, <1>6 DEF D!Write, D!WriteIdam, w, x

(* Where a step takes the head. *)
Onward(v, w) ==
    LET c == v.cyl[v.drive] + v.dir
    IN  w.cyl[w.drive] = IF v.ready /\ c \in 0..MaxByte THEN c ELSE v.cyl[v.drive]

LEMMA StepOnward ==
    ASSUME NEW v \in D!Type, V!Fresh(v)
    PROVE  LET w == D!Step(v)
           IN  /\ w \in D!Type /\ V!Fresh(w) /\ w.dir = v.dir /\ w.drive = v.drive
               /\ w.ready = v.ready /\ w.index = v.index /\ Onward(v, w)
  <1> DEFINE c == v.cyl[v.drive] + v.dir
             u == IF v.ready /\ c \in 0..MaxByte THEN [v EXCEPT !.cyl[v.drive] = c] ELSE v
             w == D!Step(v)
  <1>1. w \in D!Type /\ V!Fresh(w)
    BY DrivesAssumed, SameDriveTypes, SameSignals, V!MoveFresh
  <1>2. w = D!UpdateSignals(u)
    BY DEF D!Step
  <1>3. /\ u \in D!Type /\ u.drive = v.drive /\ u.dir = v.dir /\ u.disk = v.disk
        /\ u.index = v.index
        /\ u.cyl[v.drive] = IF v.ready /\ c \in 0..MaxByte THEN c ELSE v.cyl[v.drive]
    BY DEF D!Type
  <1> HIDE DEF u
  <1>4. /\ w.drive = u.drive /\ w.dir = u.dir /\ w.cyl = u.cyl /\ w.disk = u.disk
        /\ w.index = u.index
    BY <1>2, <1>3 DEF D!UpdateSignals, D!Type
  <1>5. w.ready = v.ready
    <2>1. w.ready \in BOOLEAN /\ v.ready \in BOOLEAN
      BY <1>1 DEF D!Type
    <2>2. V!Disk(w) = V!Disk(v)
      BY <1>3, <1>4 DEF V!Disk
    <2> QED
      BY <1>1, <2>1, <2>2 DEF V!Fresh
  <1> QED
    BY <1>1, <1>3, <1>4, <1>5 DEF Onward

LEMMA CalledFresh ==
    ASSUME NEW v0 \in D!Type, V!Fresh(v0), NEW f \in W!Type, f.call \in Calls,
           NEW r \in W!AllResponses
    PROVE  LET v == Called(v0, f, r)
           IN  /\ v \in D!Type /\ V!Fresh(v) /\ v.dir = f.dir /\ v.drive = v0.drive
               /\ v.ready = v0.ready
               /\ f.call # "step" =>
                     v.cyl = v0.cyl /\ v.tr00 = v0.tr00 /\ v.wprot = v0.wprot
               /\ f.call = "step" => v.index = v0.index /\ Onward(D!SetDirc(v0, f.dir), v)
  <1> DEFINE v == D!SetDirc(v0, f.dir)
             w == Called(v0, f, r)
  <1>1. f.dir \in {1, -1} /\ r.idx \in BOOLEAN
    BY DEF W!Type, W!AllResponses
  <1>2. v \in D!Type /\ V!Fresh(v)
    BY <1>1, DrivesAssumed, SameDriveTypes, SameSignals, V!MoveFresh
  <1>3. /\ v.dir = f.dir /\ v.drive = v0.drive /\ v.ready = v0.ready /\ v.cyl = v0.cyl
        /\ v.tr00 = v0.tr00 /\ v.wprot = v0.wprot /\ v.index = v0.index
    BY DEF D!SetDirc, D!Type
  <1> HIDE DEF v
  <1>4. CASE f.call = "step"
    <2>1. w = D!Step(v)
      BY <1>4 DEF Called, v
    <2> HIDE DEF w
    <2> QED
      BY <1>2, <1>3, <1>4, <2>1, StepOnward DEF v, w
  <1>5. CASE f.call # "step"
    <2>1. Stayed(v, w)
      <3>1. Stayed(v, v)
        BY <1>2 DEF Stayed
      <3>2. /\ Stayed(v, D!Read(v, r.idx)) /\ Stayed(v, D!NextIdam(v, FALSE))
            /\ Stayed(v, D!Write(v, r.idx)) /\ Stayed(v, D!WriteIdam(v, r.idx))
        BY <1>1, <1>2, ReadStayed, WriteStayed
      <3>3. Stayed(v, D!Read(D!NextIdam(v, TRUE), r.idx))
        <4>1. Stayed(v, D!NextIdam(v, TRUE))
          BY <1>2, ReadStayed
        <4>2. Stayed(D!NextIdam(v, TRUE), D!Read(D!NextIdam(v, TRUE), r.idx))
          BY <1>1, <4>1, ReadStayed DEF Stayed
        <4> QED
          BY <4>1, <4>2 DEF Stayed
      <3> QED
        BY <1>5, <3>1, <3>2, <3>3 DEF Called, Calls, v
    <2> HIDE DEF w
    <2> QED
      BY <1>3, <1>5, <2>1 DEF Stayed, w
  <1> QED
    BY <1>4, <1>5


-----------------------------------------------------------------------------
(* Controller, drive and head in one step.                                 *)

LEMMA ControllerKept ==
    ASSUME P!Inv, [W!Next]_fdc
    PROVE  P!Inv'
  BY ControllerAssumed, SameNext, P!NextInv

LEMMA ControllerSound ==
    ASSUME P!Inv
    PROVE  /\ fdc \in W!Type /\ ~fdc.meddled
           /\ fdc.q => W!BUSY \in fdc.sr /\ fdc.st \in W!States \ {"accept_command"}
           /\ W!BUSY \in fdc.sr =>
                 /\ fdc.acc # NoCommand
                 /\ fdc.q \/ fdc.iIdx \/ W!IsReadTrack(fdc.acc)
           /\ W!BUSY \notin fdc.sr /\ fdc.acc # NoCommand => fdc.intrq
  BY SameTypes DEF P!Inv, P!FdcInv, P!Before, P!Under, P!BUSY, W!BUSY, P!States, W!States,
                   P!IsReadTrack, W!IsReadTrack

(* The step that the wired controller takes is one of the controller on its own: what
   the drive's lines become is an answer to it. *)
LEMMA Coupled ==
    ASSUME P!Inv, Agreed, NEW r \in Answers, NEW g \in W!Type, NEW h,
           Lawful(fdc, g, h, [r EXCEPT !.tr00 = vip'.tr00, !.wp = vip'.wprot]),
           Together(g, r)
    PROVE  /\ vip' \in D!Type /\ V!Fresh(vip') /\ Wired'
           /\ vip' = Called(vip, g, r) /\ vip'.drive = vip.drive /\ vip'.ready = vip.ready
           /\ fdc' = W!SeeLines(g, vip'.tr00, vip'.wprot)
           /\ fdc' = IF g.call = "step" THEN h ELSE g
           /\ g.call # "step" => vip'.cyl = vip.cyl
           /\ g.call = "step" => Onward(D!SetDirc(vip, g.dir), vip')
  <1> DEFINE v == Called(vip, g, r)
             s == [r EXCEPT !.tr00 = vip'.tr00, !.wp = vip'.wprot]
  <1>1. r \in W!AllResponses
    BY ControllerAssumption DEF Answers
  <1>2. vip' = v /\ fdc' = W!SeeLines(g, v.tr00, v.wprot) /\ g.index = v.index
    BY DEF Together
  <1>3. g.call \in Calls
    BY DEF Lawful
  <1>4. /\ v \in D!Type /\ V!Fresh(v) /\ v.dir = g.dir /\ v.drive = vip.drive
        /\ v.ready = vip.ready
        /\ g.call # "step" => v.cyl = vip.cyl /\ v.tr00 = vip.tr00 /\ v.wprot = vip.wprot
        /\ g.call = "step" => Onward(D!SetDirc(vip, g.dir), v)
    BY <1>1, <1>3, CalledFresh DEF Agreed
  <1> HIDE DEF v
  <1>5. v.tr00 \in BOOLEAN /\ v.wprot \in BOOLEAN
    BY <1>4 DEF D!Type
  <1>6. /\ fdc'.dir = g.dir /\ fdc'.tr00 = v.tr00 /\ fdc'.wp = v.wprot
        /\ fdc'.index = g.index
    BY <1>2, <1>5 DEF W!SeeLines, W!Type
  <1>7. Wired'
    BY <1>2, <1>4, <1>6 DEF Wired
  <1>8. fdc' = IF g.call = "step" THEN h ELSE g
    <2>1. CASE g.call = "step"
      <3>1. h = W!SeeLines(g, s.tr00, s.wp)
        BY <2>1 DEF Lawful
      <3>2. s.tr00 = vip'.tr00 /\ s.wp = vip'.wprot
        BY <1>1 DEF W!AllResponses
      <3> QED
        BY <1>2, <2>1, <3>1, <3>2
    <2>2. CASE g.call # "step"
      <3>1. g.tr00 = v.tr00 /\ g.wp = v.wprot
        BY <1>4, <2>2 DEF Lawful, Agreed, Wired
      <3>2. W!SeeLines(g, g.tr00, g.wp) = g
        BY DEF W!SeeLines, W!Type
      <3> QED
        BY <1>2, <2>2, <3>1, <3>2
    <2> QED
      BY <2>1, <2>2
  <1>9. vip' = Called(vip, g, r)
    BY <1>2 DEF v
  <1>10. /\ vip' \in D!Type /\ V!Fresh(vip')
         /\ vip'.drive = vip.drive /\ vip'.ready = vip.ready
         /\ fdc' = W!SeeLines(g, vip'.tr00, vip'.wprot)
         /\ g.call # "step" => vip'.cyl = vip.cyl
         /\ g.call = "step" => Onward(D!SetDirc(vip, g.dir), vip')
    BY <1>2, <1>4
  <1> QED
    BY <1>7, <1>8, <1>9, <1>10

(* Where the head is after that. *)
LEMMA HeadAfter ==
    ASSUME vip \in D!Type, NEW w, NEW dir \in {1, -1}, NEW step \in BOOLEAN, vip.ready,
           w.drive = vip.drive, ~step => w.cyl = vip.cyl,
           step => Onward(D!SetDirc(vip, dir), w)
    PROVE  LET x == vip.cyl[vip.drive]
           IN  /\ x \in 0..MaxByte
               /\ w.cyl[w.drive] = IF step /\ x + dir \in 0..MaxByte THEN x + dir ELSE x
  <1>1. LET v == D!SetDirc(vip, dir)
        IN  /\ v.cyl = vip.cyl /\ v.drive = vip.drive /\ v.dir = dir
            /\ v.ready = vip.ready
    BY DEF D!SetDirc, D!Type
  <1>2. vip.cyl[vip.drive] \in 0..MaxByte
    BY DEF D!Type
  <1> QED
    BY <1>1, <1>2 DEF Onward

(* The track register follows the head, and in a RESTORE it does not fall behind. *)
LEMMA SeekTracks ==
    ASSUME NEW f \in W!Type, NEW g \in W!Type, f.dat # f.tr, Seeks(f, g),
           NEW x \in 0..MaxByte, NEW y, f.tr00 <=> x = 0,
           y = IF g.call = "step" /\ x + g.dir \in 0..MaxByte THEN x + g.dir ELSE x
    PROVE  /\ f.tr = x => g.tr = y
           /\ f.dat = 0 /\ x <= f.tr /\ ~f.isStep =>
                 /\ ~g.isStep /\ g.q
                 /\ \/ g.st = "verify_track_1" /\ g.tr = 0 /\ y = 0
                    \/ g.st = "type1_1" /\ g.dat = 0 /\ y <= g.tr
  <1>1. f.tr \in 0..MaxByte /\ f.dat \in 0..MaxByte /\ MaxByte \in Nat
    BY ControllerAssumption DEF W!Type, W!Byte
  <1>2. g.dir = IF f.dat > f.tr THEN 1 ELSE -1
    BY DEF Seeks
  <1>3. CASE f.tr00 /\ g.dir = -1
    <2>1. /\ g.call = "none" /\ g.tr = 0 /\ g.st = "verify_track_1" /\ g.q
          /\ g.isStep = f.isStep
      BY <1>3 DEF Seeks
    <2>2. x = 0 /\ y = x
      BY <1>3, <2>1
    <2> QED
      BY <2>1, <2>2
  <1>4. CASE ~(f.tr00 /\ g.dir = -1)
    <2>1. /\ g.call = "step" /\ g.tr = f.tr + g.dir /\ g.q
          /\ g.st = IF f.isStep THEN "verify_track_1" ELSE "type1_1"
          /\ g.isStep = f.isStep /\ g.dat = f.dat
      BY <1>4 DEF Seeks
    <2>2. y = IF x + g.dir \in 0..MaxByte THEN x + g.dir ELSE x
      BY <2>1
    <2>3. f.tr = x => g.tr = y
      BY <1>1, <1>2, <2>1, <2>2
    <2>4. ASSUME f.dat = 0, x <= f.tr, ~f.isStep
          PROVE  ~g.isStep /\ g.st = "type1_1" /\ g.dat = 0 /\ y <= g.tr
      <3>1. g.dir = -1 /\ x # 0
        BY <1>1, <1>2, <1>4, <2>4
      <3>2. y = x - 1 /\ g.tr = f.tr - 1
        BY <1>1, <2>1, <2>2, <3>1
      <3> QED
        BY <1>1, <2>1, <2>4, <3>2
    <2> QED
      BY <2>1, <2>3, <2>4
  <1> QED
    BY <1>3, <1>4


(* What the cartridge does with the interrupt of a controller that has become g. *)
Told(c, g, k) ==
    /\ k \in CartType
    /\ k.haltEn <=> c.haltEn /\ ~g.intrq
    /\ g.intrq => (k.dden => k.nmi)

Cleared(c, g) == Intrq(c, g, TRUE)
Uncleared(c, g) == Intrq(c, g, FALSE)

LEMMA IntrqTold ==
    ASSUME NEW c \in CartType, NEW g, g.intrq \in BOOLEAN
    PROVE  Told(c, g, Cleared(c, g)) /\ Told(c, g, Uncleared(c, g))
  <1>1. ASSUME NEW old \in BOOLEAN
        PROVE  Told(c, g, [c EXCEPT !.haltEn = @ /\ ~g.intrq,
                                    !.nmi = old \/ (g.intrq /\ c.dden)])
    <2> DEFINE haltEn == c.haltEn /\ ~g.intrq
               nmi == old \/ (g.intrq /\ c.dden)
               k == [c EXCEPT !.haltEn = haltEn, !.nmi = nmi]
    <2>1. haltEn \in BOOLEAN /\ nmi \in BOOLEAN
      BY <1>1 DEF CartType
    <2>2. g.intrq => (c.dden => nmi)
      OBVIOUS
    <2> HIDE DEF haltEn, nmi
    <2>3. k \in CartType
      BY <2>1 DEF CartType
    <2>4. k.haltEn = haltEn /\ k.nmi = nmi /\ k.dden = c.dden
      BY <2>1 DEF CartType
    <2> QED
      BY <2>2, <2>3, <2>4 DEF haltEn, nmi, Told
  <1>2. c.nmi \in BOOLEAN
    BY DEF CartType
  <1>3. Told(c, g, Cleared(c, g))
    BY <1>1, <1>2 DEF Cleared, Intrq
  <1>4. Told(c, g, Uncleared(c, g))
    BY <1>1, <1>2 DEF Uncleared, Intrq
  <1> QED
    BY <1>3, <1>4

LEMMA ResumeKeeps ==
    ASSUME IInv, Resume
    PROVE  W!Next /\ IInv'
  <1>0. P!Inv /\ Agreed /\ fdc.q
    BY DEF IInv, Resume
  <1>1. PICK r \in Answers : /\ Together(W!Handler(fdc, r), r)
                             /\ cart' = Intrq(cart, W!Handler(fdc, r), FALSE)
                             /\ tracking' = Tracking(W!Handler(fdc, r))
    BY DEF Resume
  <1> DEFINE g == W!Handler(fdc, r)
             s == [r EXCEPT !.tr00 = vip'.tr00, !.wp = vip'.wprot]
             h == W!Handler(fdc, s)
             x == vip.cyl[vip.drive]
             y == vip'.cyl[vip'.drive]
  <1>2. r \in Responses /\ r \in P!AllResponses
    BY ControllerAssumption, SameTypes DEF Answers
  <1>3. P!FdcInv(g) /\ g \in W!Type
    <2>1. P!Done(fdc, g)
      BY <1>0, <1>2, ControllerAssumed, SameHandler, P!HandlerInv DEF P!Inv
    <2> QED
      BY <2>1, SameTypes DEF P!Done, P!FdcInv
  <1>4. fdc \in W!Type /\ W!BUSY \in fdc.sr /\ fdc.st \in W!States \ {"accept_command"}
    BY <1>0, ControllerSound
  <1>5. /\ Lawful(fdc, g, h, s)
        /\ g.acc = fdc.acc /\ g.iIdx = fdc.iIdx
        /\ fdc.st = "type1_1" =>
              IF fdc.dat = fdc.tr
                THEN /\ g.tr = fdc.tr /\ g.isStep = fdc.isStep
                     /\ g.st = "verify_track_2" \/ W!BUSY \notin g.sr
                     /\ g.call # "step"
                ELSE Seeks(fdc, g)
    BY <1>4, HandlerLawful
  <1>6. fdc.st # "type1_1" =>
          /\ Quiet(fdc, g)
          /\ fdc.st \in {"verify_track_1", "verify_track_2"} =>
                g.st = "verify_track_2" \/ W!BUSY \notin g.sr
    BY <1>4, HandlerQuiet
  <1>7. Together(g, r) /\ cart' = Intrq(cart, g, FALSE) /\ tracking' = Tracking(g)
    BY <1>1
  <1> HIDE DEF g, h
  <1>8. /\ vip' \in D!Type /\ V!Fresh(vip') /\ Wired'
        /\ vip'.drive = vip.drive /\ vip'.ready = vip.ready
        /\ fdc' = W!SeeLines(g, vip'.tr00, vip'.wprot)
        /\ fdc' = IF g.call = "step" THEN h ELSE g
        /\ g.call # "step" => vip'.cyl = vip.cyl
        /\ g.call = "step" => Onward(D!SetDirc(vip, g.dir), vip')
    BY <1>0, <1>3, <1>5, <1>7, Coupled
  <1>9. W!Next
    <2>1. s \in Responses
      BY <1>2, <1>8, LinesAssumption DEF D!Type
    <2>2. W!Resume(r) \/ W!Resume(s)
      BY <1>0, <1>8 DEF W!Resume, g, h
    <2> QED
      BY <1>2, <2>1, <2>2 DEF W!Next
  <1>10. P!Inv'
    BY <1>0, <1>9, ControllerKept
  <1>11. /\ fdc'.tr = g.tr /\ fdc'.st = g.st /\ fdc'.dat = g.dat /\ fdc'.sr = g.sr
         /\ fdc'.acc = g.acc
    BY <1>3, <1>8 DEF W!SeeLines, W!Type
  <1>12. fdc'.isStep = g.isStep /\ fdc'.intrq = g.intrq /\ fdc'.iIdx = g.iIdx
    BY <1>3, <1>8 DEF W!SeeLines, W!Type
  <1>13. /\ cart' \in CartType
         /\ cart'.haltEn <=> cart.haltEn /\ ~g.intrq
         /\ g.intrq => (cart'.dden => cart'.nmi)
    <2>1. g.intrq \in BOOLEAN /\ cart \in CartType
      BY <1>0, <1>3 DEF W!Type, Agreed
    <2>2. Told(cart, g, Uncleared(cart, g))
      BY <2>1, IntrqTold
    <2>3. cart' = Uncleared(cart, g)
      BY <1>7 DEF Uncleared
    <2> QED
      BY <2>2, <2>3 DEF Told
  <1>14. Stopped'
    <2>1. cart.haltEn => fdc.acc # NoCommand
      BY <1>0 DEF Agreed, Stopped
    <2>2. W!BUSY \notin g.sr /\ g.acc # NoCommand => g.intrq
      BY <1>3 DEF P!FdcInv, P!BUSY, W!BUSY
    <2> QED
      BY <1>5, <1>11, <1>12, <1>13, <2>1, <2>2 DEF Stopped
  <1>15. Given'
    BY <1>0, <1>5, <1>11, <1>12 DEF Agreed, Given
  <1>16. tracking' \in {"lost", "restoring", "known"} /\ Tracked'
    <2>1. CASE ~vip.ready
      BY <1>7, <2>1 DEF Tracking, Tracked
    <2>2. CASE vip.ready
      <3>1. tracking' = IF tracking = "restoring" /\ W!BUSY \notin g.sr
                          THEN "known" ELSE tracking
        BY <1>7, <2>2 DEF Tracking
      <3>2. g.dir \in {1, -1} /\ vip \in D!Type
        BY <1>0, <1>3 DEF W!Type, Agreed
      <3>3. /\ x \in 0..MaxByte
            /\ y = IF g.call = "step" /\ x + g.dir \in 0..MaxByte THEN x + g.dir ELSE x
        BY <1>8, <2>2, <3>2, HeadAfter
      <3>4. fdc.tr00 <=> x = 0
        BY <1>0 DEF Agreed, Wired, V!Fresh
      <3> HIDE DEF x, y
      <3>5. tracking = "known" => fdc.tr = x
        BY <1>0 DEF Agreed, Tracked, x
      <3>6. tracking = "restoring" =>
              /\ fdc.st \in {"type1_1", "verify_track_1", "verify_track_2"} /\ ~fdc.isStep
              /\ IF fdc.st = "type1_1" THEN fdc.dat = 0 /\ x <= fdc.tr
                                       ELSE fdc.tr = 0 /\ x = 0
        BY <1>0 DEF Agreed, Tracked, Restoring, x
      <3>7. tracking = "known" => g.tr = y
        <4>1. CASE fdc.st = "type1_1" /\ fdc.dat # fdc.tr
          BY <1>3, <1>4, <1>5, <3>3, <3>4, <3>5, <4>1, SeekTracks
        <4>2. CASE ~(fdc.st = "type1_1" /\ fdc.dat # fdc.tr)
          BY <1>5, <1>6, <3>3, <3>5, <4>2 DEF Quiet
        <4> QED
          BY <4>1, <4>2
      <3>8. tracking = "restoring" =>
              IF W!BUSY \notin g.sr THEN g.tr = y
              ELSE /\ ~g.isStep
                   /\ \/ g.st \in {"verify_track_1", "verify_track_2"} /\ g.tr = 0 /\ y = 0
                      \/ g.st = "type1_1" /\ g.dat = 0 /\ y <= g.tr
        <4>1. CASE fdc.st = "type1_1" /\ fdc.dat # fdc.tr
          <5>1. g.q => W!BUSY \in g.sr
            BY <1>3 DEF P!FdcInv, P!BUSY, W!BUSY
          <5> QED
            BY <1>3, <1>4, <1>5, <3>3, <3>4, <3>6, <4>1, <5>1, SeekTracks
        <4>2. CASE fdc.st = "type1_1" /\ fdc.dat = fdc.tr
          BY <1>5, <3>3, <3>6, <4>2
        <4>3. CASE fdc.st # "type1_1"
          BY <1>6, <3>3, <3>6, <4>3 DEF Quiet
        <4> QED
          BY <4>1, <4>2, <4>3
      <3>9. tracking' = "known" => fdc'.tr = y
        BY <1>11, <3>1, <3>7, <3>8
      <3>10. tracking' = "restoring" => Restoring(fdc', vip')
        BY <1>11, <1>12, <3>1, <3>8 DEF Restoring, y
      <3> QED
        BY <1>0, <3>1, <3>9, <3>10 DEF Agreed, Tracked, y
    <2> QED
      BY <2>1, <2>2
  <1> QED
    BY <1>8, <1>9, <1>10, <1>13, <1>14, <1>15, <1>16 DEF IInv, Agreed


(* HALT stays enabled only for a command, and one that has not interrupted. *)
LEMMA StoppedKept ==
    ASSUME P!Inv', Told(cart, fdc', cart'), cart.haltEn => fdc'.acc # NoCommand
    PROVE  cart' \in CartType /\ Stopped'
  <1>1. W!BUSY \notin fdc'.sr /\ fdc'.acc # NoCommand => fdc'.intrq
    BY DEF P!Inv, P!FdcInv, P!BUSY, W!BUSY
  <1> QED
    BY <1>1 DEF Told, Stopped

-----------------------------------------------------------------------------
(* The disk turns.                                                         *)

LEMMA PulseStays ==
    ASSUME NEW f \in W!Type, NEW level \in BOOLEAN
    PROVE  LET g == [W!IndexPulse(f, level) EXCEPT !.call = "none"]
           IN  /\ g.sr = f.sr /\ g.st = f.st /\ g.tr = f.tr /\ g.dat = f.dat
               /\ g.acc = f.acc /\ g.dir = f.dir /\ g.isStep = f.isStep
               /\ g.tr00 = f.tr00 /\ g.wp = f.wp /\ g.iIdx = f.iIdx /\ g.index = level
  <1> DEFINE g == [W!IndexPulse(f, level) EXCEPT !.call = "none"]
  <1>1. g.sr = f.sr /\ g.st = f.st /\ g.tr = f.tr /\ g.dat = f.dat
    BY DEF W!IndexPulse, W!Type
  <1>2. g.acc = f.acc /\ g.dir = f.dir
    BY DEF W!IndexPulse, W!Type
  <1>3. g.isStep = f.isStep /\ g.iIdx = f.iIdx
    BY DEF W!IndexPulse, W!Type
  <1>4. g.tr00 = f.tr00 /\ g.wp = f.wp
    BY DEF W!IndexPulse, W!Type
  <1>5. g.index = level
    BY DEF W!IndexPulse, W!Type
  <1> QED
    BY <1>1, <1>2, <1>3, <1>4, <1>5

LEMMA TurnKeeps ==
    ASSUME IInv, NEW w \in D!Type, V!Fresh(w), TurnTo(w),
           w.cyl = vip.cyl, w.drive = vip.drive, w.dir = vip.dir,
           w.tr00 = vip.tr00, w.wprot = vip.wprot
    PROVE  W!Next /\ IInv'
  <1> DEFINE g == [W!IndexPulse(fdc, w.index) EXCEPT !.call = "none"]
  <1>0. P!Inv /\ Agreed /\ fdc \in W!Type
    BY ControllerSound DEF IInv
  <1>1. w.index \in BOOLEAN
    BY DEF D!Type
  <1>2. fdc' = g /\ vip' = w /\ cart' = Uncleared(cart, g) /\ tracking' = tracking
    BY DEF TurnTo, Uncleared
  <1>3. W!Next
    BY <1>1, <1>2 DEF W!IndexMoves, W!Next
  <1>4. P!Inv'
    BY <1>0, <1>3, ControllerKept
  <1>5. /\ g.sr = fdc.sr /\ g.st = fdc.st /\ g.tr = fdc.tr /\ g.dat = fdc.dat
        /\ g.acc = fdc.acc /\ g.dir = fdc.dir /\ g.isStep = fdc.isStep
        /\ g.tr00 = fdc.tr00 /\ g.wp = fdc.wp /\ g.iIdx = fdc.iIdx /\ g.index = w.index
    BY <1>0, <1>1, PulseStays
  <1> HIDE DEF g
  <1>6. g.intrq \in BOOLEAN
    BY <1>2, <1>4, SameTypes DEF P!Inv, P!FdcInv, W!Type
  <1>7. Told(cart, fdc', cart')
    BY <1>0, <1>2, <1>6, IntrqTold DEF Agreed
  <1>8. cart' \in CartType /\ Stopped'
    BY <1>0, <1>2, <1>4, <1>5, <1>7, StoppedKept DEF Agreed, Stopped
  <1>9. Wired'
    BY <1>0, <1>2, <1>5 DEF Agreed, Wired
  <1>10. Tracked'
    BY <1>0, <1>2, <1>5 DEF Agreed, Tracked, Restoring
  <1>11. Given'
    BY <1>0, <1>2, <1>5 DEF Agreed, Given
  <1> QED
    BY <1>0, <1>2, <1>3, <1>4, <1>8, <1>9, <1>10, <1>11 DEF IInv, Agreed

LEMMA IndexKeeps ==
    ASSUME IInv, IndexPulses \/ IndexFalls
    PROVE  W!Next /\ IInv'
  <1>1. vip \in D!Type /\ V!Fresh(vip)
    BY DEF IInv, Agreed
  <1>2. /\ D!DoIndexPulse(vip) \in D!Type /\ V!Fresh(D!DoIndexPulse(vip))
        /\ D!DoResetIndexPulse(vip) \in D!Type /\ V!Fresh(D!DoResetIndexPulse(vip))
    BY <1>1, DrivesAssumed, SameDriveTypes, SameSignals, V!IndexFresh
  <1>3. ASSUME NEW w \in {D!DoIndexPulse(vip), D!DoResetIndexPulse(vip)}
        PROVE  /\ w.cyl = vip.cyl /\ w.drive = vip.drive /\ w.dir = vip.dir
               /\ w.tr00 = vip.tr00 /\ w.wprot = vip.wprot
    BY <1>1 DEF D!DoIndexPulse, D!DoResetIndexPulse, D!Type
  <1>4. PICK w \in {D!DoIndexPulse(vip), D!DoResetIndexPulse(vip)} : TurnTo(w)
    BY DEF IndexPulses, IndexFalls
  <1> QED
    BY <1>2, <1>3, <1>4, TurnKeeps

-----------------------------------------------------------------------------
(* The registers.                                                          *)

(* All that wiring and tracking go by, but for the track and data registers. *)
Steady(f, g) ==
    /\ W!BUSY \in g.sr <=> W!BUSY \in f.sr
    /\ g.st = f.st /\ g.isStep = f.isStep /\ g.dir = f.dir
    /\ g.tr00 = f.tr00 /\ g.wp = f.wp /\ g.index = f.index /\ g.iIdx = f.iIdx

LEMMA StatusSteady ==
    ASSUME NEW f \in W!Type
    PROVE  LET g == W!ReadStatus(f)
           IN  /\ Steady(f, g) /\ g.tr = f.tr /\ g.dat = f.dat
               /\ g.acc = IF W!BUSY \in f.sr THEN f.acc ELSE NoCommand
  <1> DEFINE g == W!ReadStatus(f)
  <1>1. W!BUSY \in g.sr <=> W!BUSY \in f.sr
    BY DEF W!ReadStatus, W!Type, W!BUSY, W!TRACK_0, W!INDEX_PULSE
  <1>2. g.st = f.st /\ g.dir = f.dir /\ g.tr = f.tr /\ g.dat = f.dat
    BY DEF W!ReadStatus, W!Type
  <1>3. g.acc = IF W!BUSY \in f.sr THEN f.acc ELSE NoCommand
    BY DEF W!ReadStatus, W!Type
  <1>4. g.isStep = f.isStep /\ g.iIdx = f.iIdx
    BY DEF W!ReadStatus, W!Type
  <1>5. g.tr00 = f.tr00 /\ g.wp = f.wp /\ g.index = f.index
    BY DEF W!ReadStatus, W!Type
  <1> QED
    BY <1>1, <1>2, <1>3, <1>4, <1>5 DEF Steady

LEMMA AnswerSteady ==
    ASSUME NEW f \in W!Type
    PROVE  LET g == W!AnswerDrq(f)
           IN  /\ Steady(f, g) /\ g.tr = f.tr /\ g.dat = f.dat /\ g.acc = f.acc
               /\ g.intrq = f.intrq
  <1> DEFINE g == W!AnswerDrq(f)
  <1>1. W!BUSY \in g.sr <=> W!BUSY \in f.sr
    BY DEF W!AnswerDrq, W!ResetDrq, W!Type, W!BUSY, W!DRQ
  <1>2. g.st = f.st /\ g.dir = f.dir /\ g.tr = f.tr /\ g.dat = f.dat /\ g.acc = f.acc
    BY DEF W!AnswerDrq, W!ResetDrq, W!Type
  <1>3. g.isStep = f.isStep /\ g.iIdx = f.iIdx /\ g.intrq = f.intrq
    BY DEF W!AnswerDrq, W!ResetDrq, W!Type
  <1>4. g.tr00 = f.tr00 /\ g.wp = f.wp /\ g.index = f.index
    BY DEF W!AnswerDrq, W!ResetDrq, W!Type
  <1> QED
    BY <1>1, <1>2, <1>3, <1>4 DEF Steady

LEMMA WriteSteady ==
    ASSUME NEW f \in W!Type, NEW b \in HostBytes
    PROVE  /\ LET g == W!WriteData(f, b)
              IN  Steady(f, g) /\ g.tr = f.tr /\ g.acc = f.acc /\ g.intrq = f.intrq
           /\ LET g == W!WriteTrack(f, b)
              IN  Steady(f, g) /\ g.acc = f.acc /\ g.intrq = f.intrq
           /\ LET g == W!WriteSector(f, b)
              IN  Steady(f, g) /\ g.tr = f.tr /\ g.dat = f.dat /\ g.acc = f.acc
                    /\ g.intrq = f.intrq
  <1> DEFINE d == W!WriteData(f, b)
             t == W!WriteTrack(f, b)
             s == W!WriteSector(f, b)
  <1>1. Steady(f, d) /\ d.tr = f.tr /\ d.acc = f.acc /\ d.intrq = f.intrq
    <2>1. W!BUSY \in d.sr <=> W!BUSY \in f.sr
      BY DEF W!WriteData, W!AnswerDrq, W!ResetDrq, W!Type, W!BUSY, W!DRQ
    <2>2. d.st = f.st /\ d.dir = f.dir /\ d.tr = f.tr /\ d.acc = f.acc
      BY DEF W!WriteData, W!AnswerDrq, W!ResetDrq, W!Type
    <2>3. d.isStep = f.isStep /\ d.iIdx = f.iIdx /\ d.intrq = f.intrq
      BY DEF W!WriteData, W!AnswerDrq, W!ResetDrq, W!Type
    <2>4. d.tr00 = f.tr00 /\ d.wp = f.wp /\ d.index = f.index
      BY DEF W!WriteData, W!AnswerDrq, W!ResetDrq, W!Type
    <2> QED
      BY <2>1, <2>2, <2>3, <2>4 DEF Steady
  <1>2. Steady(f, t) /\ t.acc = f.acc /\ t.intrq = f.intrq
    <2>1. t.sr = f.sr /\ t.st = f.st /\ t.dir = f.dir /\ t.acc = f.acc
      BY DEF W!WriteTrack, W!Type
    <2>2. t.isStep = f.isStep /\ t.iIdx = f.iIdx /\ t.intrq = f.intrq
      BY DEF W!WriteTrack, W!Type
    <2>3. t.tr00 = f.tr00 /\ t.wp = f.wp /\ t.index = f.index
      BY DEF W!WriteTrack, W!Type
    <2> QED
      BY <2>1, <2>2, <2>3 DEF Steady
  <1>3. /\ Steady(f, s) /\ s.tr = f.tr /\ s.dat = f.dat /\ s.acc = f.acc
        /\ s.intrq = f.intrq
    <2>1. /\ s.sr = f.sr /\ s.st = f.st /\ s.dir = f.dir /\ s.acc = f.acc
          /\ s.tr = f.tr /\ s.dat = f.dat
      BY DEF W!WriteSector, W!Type
    <2>2. s.isStep = f.isStep /\ s.iIdx = f.iIdx /\ s.intrq = f.intrq
      BY DEF W!WriteSector, W!Type
    <2>3. s.tr00 = f.tr00 /\ s.wp = f.wp /\ s.index = f.index
      BY DEF W!WriteSector, W!Type
    <2> QED
      BY <2>1, <2>2, <2>3 DEF Steady
  <1> QED
    BY <1>1, <1>2, <1>3

LEMMA SteadyKeeps ==
    ASSUME Agreed, W!Next, P!Inv', UNCHANGED vip, Steady(fdc, fdc'),
           fdc'.acc \in {fdc.acc, NoCommand}, Told(cart, fdc', cart'),
           cart.haltEn => fdc'.acc # NoCommand,
           tracking' \in {tracking, "lost"},
           tracking' = "known" => fdc'.tr = fdc.tr,
           tracking' = "restoring" => fdc'.tr = fdc.tr /\ fdc'.dat = fdc.dat
    PROVE  IInv'
  <1>1. cart' \in CartType /\ Stopped'
    BY StoppedKept DEF Agreed
  <1>2. Wired'
    BY DEF Agreed, Wired, Steady
  <1>3. Tracked' /\ tracking' \in {"lost", "restoring", "known"}
    BY DEF Agreed, Tracked, Restoring, Steady
  <1>4. Given'
    BY DEF Agreed, Given, Steady
  <1> QED
    BY <1>1, <1>2, <1>3, <1>4 DEF IInv, Agreed

LEMMA StatusKeeps ==
    ASSUME IInv, ReadStatus
    PROVE  W!Next /\ IInv'
  <1>0. P!Inv /\ Agreed /\ fdc \in W!Type
    BY ControllerSound DEF IInv
  <1>1. fdc' = W!ReadStatus(fdc) /\ UNCHANGED <<vip, tracking>>
    BY DEF ReadStatus
  <1>2. W!Next
    BY <1>1 DEF W!HostReadsStatus, W!Next
  <1>3. P!Inv'
    BY <1>0, <1>2, ControllerKept
  <1>4. /\ Steady(fdc, fdc') /\ fdc'.tr = fdc.tr /\ fdc'.dat = fdc.dat
        /\ fdc'.acc = IF W!BUSY \in fdc.sr THEN fdc.acc ELSE NoCommand
    BY <1>0, <1>1, StatusSteady
  <1>5. fdc'.intrq \in BOOLEAN
    BY <1>3, SameTypes DEF P!Inv, P!FdcInv, W!Type
  <1>6. Told(cart, fdc', cart')
    <2>1. Told(cart, fdc', Cleared(cart, fdc')) /\ Told(cart, fdc', Uncleared(cart, fdc'))
      BY <1>0, <1>5, IntrqTold DEF Agreed
    <2>2. cart' = IF fdc.iImm THEN Uncleared(cart, fdc') ELSE Cleared(cart, fdc')
      BY DEF ReadStatus, Intrq, Cleared, Uncleared
    <2> QED
      BY <2>1, <2>2
  <1>7. cart.haltEn => fdc'.acc # NoCommand
    BY <1>0, <1>4 DEF Agreed, Stopped
  <1> QED
    BY <1>0, <1>1, <1>2, <1>3, <1>4, <1>6, <1>7, SteadyKeeps

LEMMA CartStays ==
    ASSUME Agreed, cart' = cart, fdc'.acc = fdc.acc, fdc'.intrq = fdc.intrq
    PROVE  Told(cart, fdc', cart') /\ (cart.haltEn => fdc'.acc # NoCommand)
  BY DEF Agreed, Stopped, Told

LEMMA TransferKeeps ==
    ASSUME IInv, Transfer
    PROVE  W!Next /\ IInv'
  <1>0. P!Inv /\ Agreed /\ fdc \in W!Type
    BY ControllerSound DEF IInv
  <1>1. vip' = vip /\ cart' = cart
    BY DEF Transfer
  <1>2. CASE fdc' = W!AnswerDrq(fdc) /\ UNCHANGED tracking
    <2>1. W!Next
      BY <1>2 DEF W!HostReadsData, W!Next
    <2>2. P!Inv'
      BY <1>0, <2>1, ControllerKept
    <2>3. /\ Steady(fdc, fdc') /\ fdc'.tr = fdc.tr /\ fdc'.dat = fdc.dat
          /\ fdc'.acc = fdc.acc /\ fdc'.intrq = fdc.intrq
      BY <1>0, <1>2, AnswerSteady
    <2> QED
      BY <1>0, <1>1, <1>2, <2>1, <2>2, <2>3, CartStays, SteadyKeeps
  <1>3. ASSUME NEW b \in HostBytes, fdc' = W!WriteData(fdc, b),
               tracking' = IF tracking = "restoring" THEN "lost" ELSE tracking
        PROVE  W!Next /\ IInv'
    <2>1. W!Next
      BY <1>3 DEF W!HostWrites, W!Next
    <2>2. P!Inv'
      BY <1>0, <2>1, ControllerKept
    <2>3. /\ Steady(fdc, fdc') /\ fdc'.tr = fdc.tr
          /\ fdc'.acc = fdc.acc /\ fdc'.intrq = fdc.intrq
      BY <1>0, <1>3, WriteSteady
    <2> QED
      BY <1>0, <1>1, <1>3, <2>1, <2>2, <2>3, CartStays, SteadyKeeps
  <1> QED
    BY <1>2, <1>3 DEF Transfer

LEMMA LoadKeeps ==
    ASSUME IInv, NEW b \in HostBytes, LoadRegister(b)
    PROVE  W!Next /\ IInv'
  <1>0. P!Inv /\ Agreed /\ fdc \in W!Type
    BY ControllerSound DEF IInv
  <1>1. vip' = vip /\ cart' = cart /\ W!BUSY \notin fdc.sr
    BY DEF LoadRegister, Busy
  <1>2. CASE fdc' = W!WriteTrack(fdc, b) /\ tracking' = "lost"
    <2>1. W!Next
      BY <1>1, <1>2 DEF W!HostWrites, W!Next
    <2>2. P!Inv'
      BY <1>0, <2>1, ControllerKept
    <2>3. Steady(fdc, fdc') /\ fdc'.acc = fdc.acc /\ fdc'.intrq = fdc.intrq
      BY <1>0, <1>2, WriteSteady
    <2> QED
      BY <1>0, <1>1, <1>2, <2>1, <2>2, <2>3, CartStays, SteadyKeeps
  <1>3. CASE fdc' = W!WriteSector(fdc, b) /\ UNCHANGED tracking
    <2>1. W!Next
      BY <1>1, <1>3 DEF W!HostWrites, W!Next
    <2>2. P!Inv'
      BY <1>0, <2>1, ControllerKept
    <2>3. /\ Steady(fdc, fdc') /\ fdc'.tr = fdc.tr /\ fdc'.dat = fdc.dat
          /\ fdc'.acc = fdc.acc /\ fdc'.intrq = fdc.intrq
      BY <1>0, <1>3, WriteSteady
    <2> QED
      BY <1>0, <1>1, <1>3, <2>1, <2>2, <2>3, CartStays, SteadyKeeps
  <1> QED
    BY <1>2, <1>3 DEF LoadRegister

-----------------------------------------------------------------------------
(* Another drive, another disk, a reset.                                   *)

LEMMA SeeSteady ==
    ASSUME NEW f \in W!Type, NEW v \in D!Type
    PROVE  LET g == See(f, v)
           IN  /\ g.sr = f.sr /\ g.st = f.st /\ g.tr = f.tr /\ g.dat = f.dat
               /\ g.acc = f.acc /\ g.dir = f.dir /\ g.isStep = f.isStep
               /\ g.iIdx = f.iIdx /\ g.intrq = f.intrq /\ g.index = f.index
               /\ g.tr00 = v.tr00 /\ g.wp = v.wprot
  <1> DEFINE g == See(f, v)
  <1>1. /\ g.sr = f.sr /\ g.st = f.st /\ g.tr = f.tr /\ g.dat = f.dat
        /\ g.acc = f.acc /\ g.dir = f.dir
    BY DEF See, W!SeeLines, W!Type
  <1>2. g.isStep = f.isStep /\ g.iIdx = f.iIdx
    BY DEF See, W!SeeLines, W!Type
  <1>3. g.intrq = f.intrq /\ g.index = f.index
    BY DEF See, W!SeeLines, W!Type
  <1>4. g.tr00 = v.tr00 /\ g.wp = v.wprot
    BY DEF See, W!SeeLines, W!Type
  <1> QED
    BY <1>1, <1>2, <1>3, <1>4

LEMMA DriveKeeps ==
    ASSUME P!Inv, Agreed, vip' \in D!Type, V!Fresh(vip'), fdc' = See(fdc, vip'),
           vip'.index = vip.index, vip'.dir = vip.dir,
           tracking' \in {tracking, "lost"},
           tracking' # "lost" => vip'.cyl = vip.cyl /\ vip'.drive = vip.drive
    PROVE  /\ W!Next /\ P!Inv'
           /\ Wired' /\ Tracked' /\ Given' /\ tracking' \in {"lost", "restoring", "known"}
           /\ fdc'.sr = fdc.sr /\ fdc'.acc = fdc.acc /\ fdc'.intrq = fdc.intrq
  <1>0. fdc \in W!Type
    BY ControllerSound
  <1>1. vip'.tr00 \in BOOLEAN /\ vip'.wprot \in BOOLEAN
    BY DEF D!Type
  <1>2. W!Next
    BY <1>1 DEF See, W!DriveChanges, W!Next
  <1>3. P!Inv'
    BY <1>2, ControllerKept
  <1>4. /\ fdc'.sr = fdc.sr /\ fdc'.st = fdc.st /\ fdc'.tr = fdc.tr /\ fdc'.dat = fdc.dat
        /\ fdc'.acc = fdc.acc /\ fdc'.dir = fdc.dir /\ fdc'.isStep = fdc.isStep
        /\ fdc'.iIdx = fdc.iIdx /\ fdc'.intrq = fdc.intrq /\ fdc'.index = fdc.index
        /\ fdc'.tr00 = vip'.tr00 /\ fdc'.wp = vip'.wprot
    BY <1>0, SeeSteady
  <1>5. Wired'
    BY <1>4 DEF Agreed, Wired
  <1>6. Tracked' /\ tracking' \in {"lost", "restoring", "known"}
    BY <1>4 DEF Agreed, Tracked, Restoring
  <1>7. Given'
    BY <1>4 DEF Agreed, Given
  <1> QED
    BY <1>2, <1>3, <1>4, <1>5, <1>6, <1>7

LEMMA SignalsStay ==
    ASSUME NEW v \in D!Type
    PROVE  LET w == D!UpdateSignals(v)
           IN  /\ w.cyl = v.cyl /\ w.drive = v.drive /\ w.dir = v.dir /\ w.index = v.index
               /\ w.disk = v.disk
  BY DEF D!UpdateSignals, D!Type

LEMMA SelectStays ==
    ASSUME NEW v \in D!Type, V!Fresh(v), NEW d \in Drives, NEW side \in D!Heads
    PROVE  LET w == D!SetDrive(D!SetSSO(v, side), d)
           IN  /\ w \in D!Type /\ V!Fresh(w)
               /\ w.cyl = v.cyl /\ w.drive = d /\ w.dir = v.dir /\ w.index = v.index
  <1> DEFINE a == [v EXCEPT !.head = side]
             u == D!SetSSO(v, side)
             b == [u EXCEPT !.drive = d]
             w == D!SetDrive(u, d)
  <1>1. u \in D!Type /\ V!Fresh(u)
    BY DrivesAssumed, SameDriveTypes, SameSignals, V!SelectFresh DEF D!Heads, V!Heads
  <1>2. a \in D!Type /\ a.cyl = v.cyl /\ a.dir = v.dir /\ a.index = v.index
    BY DEF D!Type
  <1>3. u = D!UpdateSignals(a)
    BY DEF D!SetSSO
  <1> HIDE DEF u, a
  <1>4. u.cyl = v.cyl /\ u.dir = v.dir /\ u.index = v.index
    BY <1>2, <1>3, SignalsStay
  <1>5. w \in D!Type /\ V!Fresh(w)
    BY <1>1, DrivesAssumed, SameDriveTypes, SameSignals, V!SelectFresh
  <1>6. b \in D!Type /\ b.cyl = u.cyl /\ b.dir = u.dir /\ b.index = u.index /\ b.drive = d
    BY <1>1 DEF D!Type
  <1>7. w = D!UpdateSignals(b)
    BY DEF D!SetDrive
  <1> HIDE DEF w, b
  <1>8. w.cyl = b.cyl /\ w.dir = b.dir /\ w.index = b.index /\ w.drive = b.drive
    BY <1>6, <1>7, SignalsStay
  <1> QED
    BY <1>4, <1>5, <1>6, <1>8 DEF u, w

LEMMA LatchKeeps ==
    ASSUME IInv, NEW d \in Drives, NEW side \in Sides, NEW halt \in BOOLEAN,
           NEW dden \in Densities, WriteLatch(d, side, halt, dden)
    PROVE  W!Next /\ IInv'
  <1>0. P!Inv /\ Agreed
    BY DEF IInv
  <1>1. side \in D!Heads /\ dden \in BOOLEAN
    BY DrivesAssumption
  <1>2. /\ vip' = D!SetDrive(D!SetSSO(vip, side), d)
        /\ fdc' = See(fdc, vip')
        /\ tracking' = IF d = vip.drive THEN tracking ELSE "lost"
        /\ halt => fdc.acc # NoCommand
    BY DEF WriteLatch
  <1>3. /\ vip' \in D!Type /\ V!Fresh(vip')
        /\ vip'.cyl = vip.cyl /\ vip'.drive = d /\ vip'.dir = vip.dir
        /\ vip'.index = vip.index
    BY <1>0, <1>1, <1>2, SelectStays DEF Agreed
  <1>4. /\ W!Next /\ P!Inv'
        /\ Wired' /\ Tracked' /\ Given' /\ tracking' \in {"lost", "restoring", "known"}
        /\ fdc'.sr = fdc.sr /\ fdc'.acc = fdc.acc /\ fdc'.intrq = fdc.intrq
    BY <1>0, <1>2, <1>3, DriveKeeps
  <1>5. W!BUSY \notin fdc.sr /\ fdc.acc # NoCommand => fdc.intrq
    BY <1>0, ControllerSound
  <1>6. fdc.intrq \in BOOLEAN /\ cart \in CartType
    BY <1>0, ControllerSound DEF Agreed, W!Type
  <1>7. cart' \in CartType /\ Stopped'
    <2> DEFINE haltEn == halt /\ ~fdc.intrq
               nmi == cart.nmi \/ (dden /\ fdc.intrq)
               k == [cart EXCEPT !.haltEn = haltEn, !.dden = dden, !.nmi = nmi]
    <2>1. haltEn \in BOOLEAN /\ nmi \in BOOLEAN
      BY <1>6 DEF CartType
    <2>2. cart' = k
      BY DEF WriteLatch, Latched
    <2>3. haltEn => W!BUSY \in fdc.sr /\ fdc.acc # NoCommand /\ ~fdc.intrq
      BY <1>2, <1>5
    <2>4. fdc.intrq => (dden => nmi)
      OBVIOUS
    <2> HIDE DEF haltEn, nmi
    <2>5. k \in CartType
      BY <1>1, <1>6, <2>1 DEF CartType
    <2>6. k.haltEn = haltEn /\ k.dden = dden /\ k.nmi = nmi
      BY <1>1, <1>6, <2>1 DEF CartType
    <2> HIDE DEF k
    <2> QED
      BY <1>4, <2>2, <2>3, <2>4, <2>5, <2>6 DEF Stopped
  <1> QED
    BY <1>3, <1>4, <1>7 DEF IInv, Agreed

LEMMA DiskStays ==
    ASSUME NEW v \in D!Type, V!Fresh(v), NEW d \in Drives,
           NEW w \in {D!Insert(v, d, image) : image \in Images} \union {D!Eject(v, d)}
                       \union {x \in {D!ToggleWriteEnable(v, d)} : v.disk[d] # NoDisk}
    PROVE  /\ w \in D!Type /\ V!Fresh(w)
           /\ w.cyl = v.cyl /\ w.drive = v.drive /\ w.dir = v.dir /\ w.index = v.index
  <1> DEFINE b == [v EXCEPT !.disk[d] = NoDisk]
             e == D!Eject(v, d)
  <1>1. b \in D!Type /\ b.cyl = v.cyl /\ b.drive = v.drive /\ b.dir = v.dir /\ b.index = v.index
    BY DEF D!Type
  <1>2. e \in {v, D!UpdateSignals(b)}
    BY DEF D!Eject
  <1>3. e \in D!Type /\ V!Fresh(e)
    BY DrivesAssumed, SameDriveTypes, SameSignals, V!EjectFresh
  <1> HIDE DEF b, e
  <1>4. e.cyl = v.cyl /\ e.drive = v.drive /\ e.dir = v.dir /\ e.index = v.index
    BY <1>1, <1>2, SignalsStay
  <1>5. CASE w = D!Eject(v, d)
    BY <1>3, <1>4, <1>5 DEF e
  <1>6. ASSUME NEW image \in Images, w = D!Insert(v, d, image)
        PROVE  /\ w \in D!Type /\ V!Fresh(w)
               /\ w.cyl = v.cyl /\ w.drive = v.drive /\ w.dir = v.dir /\ w.index = v.index
    <2> DEFINE f == [e EXCEPT !.disk[d] = image]
    <2>1. w \in D!Type /\ V!Fresh(w)
      BY <1>6, DrivesAssumed, SameDriveTypes, SameSignals, V!InsertFresh
    <2>2. /\ f \in D!Type /\ f.cyl = e.cyl /\ f.drive = e.drive /\ f.dir = e.dir
          /\ f.index = e.index
      BY <1>3, DrivesAssumption DEF D!Type
    <2>3. w = D!UpdateSignals(f)
      BY <1>6 DEF D!Insert, e
    <2> HIDE DEF f
    <2> QED
      BY <1>4, <2>1, <2>2, <2>3, SignalsStay
  <1>7. CASE w = D!ToggleWriteEnable(v, d) /\ v.disk[d] # NoDisk
    <2>1. w \in D!Type /\ V!Fresh(w)
      BY <1>7, DrivesAssumed, SameDriveTypes, SameSignals, V!SwitchesFresh
    <2>2. w.cyl = v.cyl /\ w.drive = v.drive /\ w.dir = v.dir /\ w.index = v.index
      BY <1>7 DEF D!ToggleWriteEnable, D!Type
    <2> QED
      BY <2>1, <2>2
  <1> QED
    BY <1>5, <1>6, <1>7

LEMMA DiskKeeps ==
    ASSUME IInv, NEW d \in Drives, ChangeDisk(d)
    PROVE  W!Next /\ IInv'
  <1>0. P!Inv /\ Agreed
    BY DEF IInv
  <1>1. /\ fdc' = See(fdc, vip') /\ cart' = cart
        /\ tracking' = IF d = vip.drive /\ tracking = "restoring" THEN "lost" ELSE tracking
    BY DEF ChangeDisk
  <1>2. vip' \in {D!Insert(vip, d, image) : image \in Images} \union {D!Eject(vip, d)}
                    \union {x \in {D!ToggleWriteEnable(vip, d)} : vip.disk[d] # NoDisk}
    BY DEF ChangeDisk
  <1>3. /\ vip' \in D!Type /\ V!Fresh(vip')
        /\ vip'.cyl = vip.cyl /\ vip'.drive = vip.drive /\ vip'.dir = vip.dir
        /\ vip'.index = vip.index
    BY <1>0, <1>2, DiskStays DEF Agreed
  <1>4. /\ W!Next /\ P!Inv'
        /\ Wired' /\ Tracked' /\ Given' /\ tracking' \in {"lost", "restoring", "known"}
        /\ fdc'.sr = fdc.sr /\ fdc'.acc = fdc.acc /\ fdc'.intrq = fdc.intrq
    BY <1>0, <1>1, <1>3, DriveKeeps
  <1>5. cart' \in CartType /\ Stopped'
    BY <1>0, <1>1, <1>4 DEF Agreed, Stopped
  <1> QED
    BY <1>3, <1>4, <1>5 DEF IInv, Agreed

LEMMA ResetSteady ==
    ASSUME NEW f \in W!Type
    PROVE  LET g == ResetParts(f)
           IN  /\ g \in W!Type /\ g.sr = {} /\ g.acc = NoCommand /\ g.dir = -1
               /\ g.iIdx = f.iIdx /\ g.intrq = FALSE /\ g.index = f.index
               /\ g.call = "none" /\ g.tr00 = f.tr00 /\ g.wp = f.wp
  <1> DEFINE a == W!Reset(f)
             g == ResetParts(f)
  <1>1. 0 \in W!Byte /\ {} \in SUBSET W!Bits /\ FALSE \in BOOLEAN
    BY ControllerAssumption DEF W!Byte
  <1>2. a \in W!Type
    <2> DEFINE b == [f EXCEPT !.q = FALSE, !.sr = {}, !.tr = 0, !.sec = 0, !.dat = 0]
               c == [b EXCEPT !.cmd = 0, !.dir = -1, !.side = 0, !.call = "none"]
    <2>1. b \in W!Type
      BY <1>1, ZenonT(60) DEF W!Type
    <2>2. a = [c EXCEPT !.acc = NoCommand, !.due = 0, !.got = 0]
      BY DEF W!Reset, W!Type
    <2> HIDE DEF b
    <2>3. c \in W!Type
      <3>1. 0 \in 0..255 /\ -1 \in {1, -1} /\ 0 \in {0, 1}
        OBVIOUS
      <3> QED
        BY <2>1, <3>1, ZenonT(60) DEF W!Type
    <2> HIDE DEF c
    <2> DEFINE e == [c EXCEPT !.acc = NoCommand]
    <2>4. e \in W!Type
      BY <2>3 DEF W!Type
    <2>5. a = [e EXCEPT !.due = 0, !.got = 0]
      BY <2>2
    <2> HIDE DEF a, e
    <2>6. [e EXCEPT !.due = 0, !.got = 0] \in W!Type
      BY ZenonT(60), <2>4 DEF W!Type
    <2> QED
      BY <2>5, <2>6
  <1>3. a.sr = {} /\ a.acc = NoCommand /\ a.dir = -1 /\ a.call = "none"
    BY DEF W!Reset, W!Type
  <1>4. a.iIdx = f.iIdx /\ a.index = f.index
    BY DEF W!Reset, W!Type
  <1>5. a.tr00 = f.tr00 /\ a.wp = f.wp
    BY DEF W!Reset, W!Type
  <1>6. g = [a EXCEPT !.drq = FALSE, !.intrq = FALSE]
    BY DEF ResetParts
  <1> HIDE DEF a, g
  <1>7. g \in W!Type
    <2> DEFINE no == FALSE
    <2>1. no \in BOOLEAN /\ g = [a EXCEPT !.drq = no, !.intrq = no]
      BY <1>6
    <2> HIDE DEF no
    <2>2. [a EXCEPT !.drq = no, !.intrq = no] \in W!Type
      BY ZenonT(60), <1>2, <2>1 DEF W!Type
    <2> QED
      BY <2>1, <2>2
  <1>8. g.sr = a.sr /\ g.acc = a.acc /\ g.dir = a.dir /\ g.call = a.call
    BY <1>2, <1>6 DEF W!Type
  <1>9. g.iIdx = a.iIdx /\ g.index = a.index
    BY <1>2, <1>6 DEF W!Type
  <1>10. g.tr00 = a.tr00 /\ g.wp = a.wp
    BY <1>2, <1>6 DEF W!Type
  <1>11. g.intrq = FALSE
    BY <1>2, <1>6 DEF W!Type
  <1> QED
    BY <1>3, <1>4, <1>5, <1>7, <1>8, <1>9, <1>10, <1>11 DEF g

LEMMA ResetKeeps ==
    ASSUME IInv, MachineReset
    PROVE  W!Next /\ IInv'
  <1> DEFINE f == ResetParts(fdc)
             u == D!SetDirc(vip, f.dir)
  <1>0. P!Inv /\ Agreed /\ fdc \in W!Type
    BY ControllerSound DEF IInv
  <1>1. /\ vip' = D!SetDrive(D!SetSSO(u, 0), Drive0) /\ fdc' = See(f, vip')
        /\ tracking' = "lost"
    BY DEF MachineReset
  <1>2. /\ f \in W!Type /\ f.sr = {} /\ f.acc = NoCommand /\ f.dir = -1
        /\ f.iIdx = fdc.iIdx /\ f.intrq = FALSE /\ f.index = fdc.index
        /\ f.call = "none"
    BY <1>0, ResetSteady
  <1>3. f = [W!Reset(fdc) EXCEPT !.drq = @ /\ ~TRUE, !.intrq = @ /\ ~TRUE]
    BY DEF ResetParts
  <1>4. cart' = Latched(cart, f, FALSE, FALSE)
    BY DEF MachineReset
  <1> HIDE DEF f
  <1>5. u \in D!Type /\ V!Fresh(u)
    BY <1>0, <1>2, DrivesAssumed, SameDriveTypes, SameSignals, V!MoveFresh DEF Agreed
  <1>6. u.dir = -1 /\ u.index = vip.index
    BY <1>0, <1>2 DEF Agreed, D!SetDirc, D!Type
  <1>7. Drive0 \in Drives /\ 0 \in D!Heads
    BY DrivesAssumption DEF D!Heads
  <1> HIDE DEF u
  <1>8. vip' \in D!Type /\ V!Fresh(vip') /\ vip'.dir = u.dir /\ vip'.index = u.index
    BY <1>1, <1>5, <1>7, SelectStays
  <1>9. vip'.tr00 \in BOOLEAN /\ vip'.wprot \in BOOLEAN
    BY <1>8 DEF D!Type
  <1>10. fdc' = W!SeeLines(f, vip'.tr00, vip'.wprot)
    BY <1>1, <1>2 DEF See, W!SeeLines, W!Type
  <1>11. W!HostResets
    BY <1>3, <1>9, <1>10 DEF W!HostResets
  <1>12. W!Next
    BY <1>11 DEF W!Next
  <1>13. P!Inv'
    BY <1>0, <1>12, ControllerKept
  <1>14. /\ fdc'.acc = f.acc /\ fdc'.dir = f.dir /\ fdc'.iIdx = f.iIdx
         /\ fdc'.intrq = f.intrq /\ fdc'.index = f.index
         /\ fdc'.tr00 = vip'.tr00 /\ fdc'.wp = vip'.wprot
    BY <1>1, <1>2, <1>8, SeeSteady
  <1>15. cart' \in CartType /\ ~cart'.haltEn
    BY <1>0, <1>2, <1>4 DEF Latched, Agreed, CartType
  <1>16. Wired'
    BY <1>0, <1>2, <1>6, <1>8, <1>14 DEF Agreed, Wired
  <1>17. Stopped' /\ Tracked'
    BY <1>1, <1>2, <1>14, <1>15 DEF Stopped, Tracked
  <1>18. Given'
    BY <1>0, <1>2, <1>14 DEF Agreed, Given
  <1> QED
    BY <1>1, <1>8, <1>12, <1>13, <1>15, <1>16, <1>17, <1>18 DEF IInv, Agreed

-----------------------------------------------------------------------------
(* The start.                                                              *)

LEMMA SameNew ==
    /\ \A tr00, wp : P!New(tr00, wp) = W!New(tr00, wp)
    /\ V!New = D!New
  BY DEF P!New, W!New, V!New, D!New, V!UpdateSignals, D!UpdateSignals, V!Disk, D!Disk,
         V!TrackBase, D!TrackBase

LEMMA InitKeeps ==
    ASSUME Init
    PROVE  W!Init /\ IInv
  <1>1. D!New \in D!Type /\ V!Fresh(D!New)
    <2> DEFINE v == [disk |-> [d \in Drives |-> NoDisk], cyl |-> [d \in Drives |-> 0],
                     drive |-> Drive0, head |-> 0, dir |-> 1, base |-> NoTrack,
                     ready |-> FALSE, tr00 |-> TRUE, index |-> FALSE, wprot |-> FALSE,
                     pulseQ |-> FALSE, resetQ |-> FALSE, aborted |-> FALSE]
    <2>1. v \in V!Type
      BY DrivesAssumption, ControllerAssumption DEF V!Type, V!Heads
    <2>2. V!New = V!UpdateSignals(v)
      BY DEF V!New
    <2> HIDE DEF v
    <2> QED
      BY <2>1, <2>2, DrivesAssumed, SameDriveTypes, SameNew, V!UpdateSignalsFresh
  <1>2. vip = D!SetDirc(D!New, -1)
    BY DEF Init, D!SetDirc
  <1>3. vip \in D!Type /\ V!Fresh(vip)
    BY <1>1, <1>2, DrivesAssumed, SameDriveTypes, SameSignals, V!MoveFresh
  <1>4. vip.dir = -1 /\ vip.index = FALSE
    <2>1. D!New.index = FALSE
      BY DEF D!New, D!UpdateSignals
    <2> QED
      BY <1>1, <1>2, <2>1 DEF D!SetDirc, D!Type
  <1>5. fdc = W!New(vip.tr00, vip.wprot) /\ vip.tr00 \in BOOLEAN /\ vip.wprot \in BOOLEAN
    BY <1>3 DEF Init, D!Type
  <1>6. W!Init
    BY <1>5 DEF W!Init
  <1>7. P!Inv
    <2>1. P!Init
      BY <1>5, SameNew DEF P!Init
    <2> QED
      BY <2>1, ControllerAssumed, P!InitInv
  <1>8. /\ fdc.tr00 = vip.tr00 /\ fdc.wp = vip.wprot /\ fdc.index = FALSE /\ fdc.dir = -1
        /\ fdc.acc = NoCommand /\ fdc.iIdx = FALSE /\ fdc.intrq = FALSE
    BY <1>5 DEF W!New
  <1>9. cart \in CartType /\ cart.haltEn = FALSE /\ tracking = "lost"
    BY DEF Init, CartType
  <1> QED
    BY <1>3, <1>4, <1>6, <1>7, <1>8, <1>9
    DEF IInv, Agreed, Wired, Tracked, Stopped, Given

-----------------------------------------------------------------------------
(* The program gives a command.                                            *)

(* The head was at x and is at y after the drive has done what g asks. *)
Landed(f, g, x, y) ==
    /\ x \in 0..MaxByte /\ (f.tr00 <=> x = 0)
    /\ y = IF g.call = "step" /\ x + g.dir \in 0..MaxByte THEN x + g.dir ELSE x

(* A RESTORE is under way, or a SEEK has not lost the head. *)
SetOut(f, c, g, x, y) ==
    IF c \div 16 = 0
      THEN /\ ~g.isStep /\ g.q
           /\ \/ g.st = "verify_track_1" /\ g.tr = 0 /\ y = 0
              \/ g.st = "type1_1" /\ g.dat = 0 /\ y <= g.tr
      ELSE f.tr = x => g.tr = y

LEMMA HeadsOn ==
    ASSUME NEW f, NEW c, NEW g \in W!Type, NEW r,
           NEW a, Aimed(f, c, a), g = W!Type1_1(a, r), NEW x, NEW y, Landed(f, g, x, y)
    PROVE  SetOut(f, c, g, x, y)
  <1>1. /\ a \in W!Type /\ a.call = "none" /\ a.tr00 = f.tr00 /\ ~a.isStep
        /\ IF c \div 16 = 0 THEN a.tr = MaxByte /\ a.dat = 0
                            ELSE a.tr = f.tr /\ a.dat = f.dat
    BY DEF Aimed
  <1>2. /\ MaxByte \in Nat \ {0} /\ x \in 0..MaxByte /\ (f.tr00 <=> x = 0)
        /\ y = IF g.call = "step" /\ x + g.dir \in 0..MaxByte THEN x + g.dir ELSE x
    BY ControllerAssumption DEF Landed
  <1>3. CASE a.dat # a.tr
    <2>1. Seeks(a, g)
      BY <1>1, <1>3, SeekLawful
    <2>2. /\ a.tr = x => g.tr = y
          /\ a.dat = 0 /\ x <= a.tr /\ ~a.isStep =>
               /\ ~g.isStep /\ g.q
               /\ \/ g.st = "verify_track_1" /\ g.tr = 0 /\ y = 0
                  \/ g.st = "type1_1" /\ g.dat = 0 /\ y <= g.tr
      BY <1>1, <1>2, <1>3, <2>1, SeekTracks
    <2> QED
      BY <1>1, <1>2, <2>2 DEF SetOut
  <1>4. CASE a.dat = a.tr
    <2>1. c \div 16 # 0
      BY <1>1, <1>2, <1>4
    <2>2. g = W!Verify1(a)
      BY <1>4 DEF W!Type1_1
    <2>3. g.tr = a.tr /\ g.call # "step"
      BY <1>1, <2>2, VerifyQuiet DEF Quiet
    <2> QED
      BY <1>1, <1>2, <2>1, <2>3 DEF SetOut
  <1> QED
    BY <1>3, <1>4

LEMMA CommandKeeps ==
    ASSUME IInv, NEW c \in Commands, GiveCommand(c)
    PROVE  W!Next /\ IInv'
  <1>0. P!Inv /\ Agreed /\ fdc \in W!Type /\ c \in 0..255
    BY ControllerSound, ControllerAssumption DEF IInv
  <1>1. PICK r \in Answers :
           /\ Together(W!WriteCommand(fdc, c, r), r)
           /\ cart' = Intrq(cart, W!WriteCommand(fdc, c, r), ~W!IsForce(c) /\ ~fdc.iImm)
    BY DEF GiveCommand
  <1> DEFINE g == W!WriteCommand(fdc, c, r)
             s == [r EXCEPT !.tr00 = vip'.tr00, !.wp = vip'.wprot]
             h == W!WriteCommand(fdc, c, s)
             x == vip.cyl[vip.drive]
             y == vip'.cyl[vip'.drive]
  <1>2. r \in Responses /\ r \in P!AllResponses
    BY ControllerAssumption, SameTypes DEF Answers
  <1>3. IF W!IsForce(c) THEN ~cart.haltEn ELSE W!BUSY \notin fdc.sr
    BY DEF GiveCommand, Busy
  <1>4. P!FdcInv(g) /\ g \in W!Type
    <2>1. P!FdcInv(g)
      BY <1>0, <1>2, ControllerAssumed, SameCommand, P!WriteCommandInv DEF P!Inv
    <2> QED
      BY <2>1, SameTypes DEF P!FdcInv
  <1>5. ASSUME NEW t
        PROVE  LET k == W!WriteCommand(fdc, c, t)
               IN  /\ Lawful(fdc, g, k, t)
                   /\ ~W!IsType1(c) => g = k
                   /\ g.acc \in {c, NoCommand}
                   /\ g.iIdx => fdc.iIdx \/ (W!IsForce(c) /\ W!Bit(c, 2))
                   /\ c >= 128 => g.tr = fdc.tr /\ g.call # "step"
                   /\ c \div 16 \in {0, 1} =>
                         \E a : Aimed(fdc, c, a) /\ g = W!Type1_1(a, r)
    <2>1. W!IsForce(c) \/ W!BUSY \notin fdc.sr
      BY <1>3
    <2> QED
      BY <1>0, <2>1, CommandLawful
  <1>6. /\ Lawful(fdc, g, h, s)
        /\ ~W!IsType1(c) => g = h
        /\ g.acc \in {c, NoCommand}
        /\ g.iIdx => fdc.iIdx \/ (W!IsForce(c) /\ W!Bit(c, 2))
        /\ c >= 128 => g.tr = fdc.tr /\ g.call # "step"
        /\ c \div 16 \in {0, 1} => \E a : Aimed(fdc, c, a) /\ g = W!Type1_1(a, r)
    BY <1>5
  <1>7. /\ vip' \in D!Type /\ V!Fresh(vip') /\ Wired'
        /\ vip'.drive = vip.drive /\ vip'.ready = vip.ready
        /\ fdc' = W!SeeLines(g, vip'.tr00, vip'.wprot)
        /\ fdc' = IF g.call = "step" THEN h ELSE g
        /\ g.call # "step" => vip'.cyl = vip.cyl
        /\ g.call = "step" => Onward(D!SetDirc(vip, g.dir), vip')
    <2>1. Together(g, r)
      BY <1>1
    <2> HIDE DEF g, h
    <2> QED
      BY <1>0, <1>4, <1>6, <2>1, Coupled
  <1>8. W!Next
    <2>1. s \in Responses
      BY <1>2, <1>7, LinesAssumption DEF D!Type
    <2>2. W!BUSY \in fdc.sr => W!IsForce(c) \/ c \in {}
      BY <1>3
    <2>3. CASE W!IsType1(c)
      <3>1. \E t \in Responses : fdc' = W!WriteCommand(fdc, c, t)
        BY <1>2, <1>7, <2>1
      <3> QED
        BY <2>2, <2>3, <3>1 DEF W!Command, W!Next
    <2>4. CASE ~W!IsType1(c)
      <3> DEFINE t == CHOOSE t \in Responses : TRUE
      <3>1. g = W!WriteCommand(fdc, c, t) /\ g = h
        BY <1>5, <1>6, <2>4
      <3>2. fdc' = W!WriteCommand(fdc, c, t)
        BY <1>7, <3>1
      <3> QED
        BY <2>2, <2>4, <3>2 DEF W!Command, W!Next
    <2> QED
      BY <2>3, <2>4
  <1>9. P!Inv'
    BY <1>0, <1>8, ControllerKept
  <1>10. cart' = Cleared(cart, g) \/ cart' = Uncleared(cart, g)
    BY <1>1 DEF Cleared, Uncleared, Intrq
  <1>11. tracking' = TrackingFor(c)
    BY DEF GiveCommand
  <1> HIDE DEF g, h
  <1>12. /\ fdc'.tr = g.tr /\ fdc'.st = g.st /\ fdc'.dat = g.dat /\ fdc'.sr = g.sr
         /\ fdc'.acc = g.acc
    BY <1>4, <1>7 DEF W!SeeLines, W!Type
  <1>13. fdc'.isStep = g.isStep /\ fdc'.intrq = g.intrq /\ fdc'.iIdx = g.iIdx
    BY <1>4, <1>7 DEF W!SeeLines, W!Type
  <1>14. Told(cart, fdc', cart')
    <2>1. g.intrq \in BOOLEAN /\ cart \in CartType
      BY <1>0, <1>4 DEF W!Type, Agreed
    <2>2. Told(cart, g, Cleared(cart, g)) /\ Told(cart, g, Uncleared(cart, g))
      BY <2>1, IntrqTold
    <2> QED
      BY <1>10, <1>13, <2>2 DEF Told
  <1>15. cart' \in CartType /\ Stopped'
    <2>1. ~cart.haltEn
      BY <1>0, <1>3 DEF Agreed, Stopped
    <2> QED
      BY <1>9, <1>14, <2>1, StoppedKept
  <1>16. Given'
    BY <1>0, <1>6, <1>12, <1>13 DEF Agreed, Given
  <1>17. tracking' \in {"lost", "restoring", "known"} /\ Tracked'
    <2>1. CASE ~vip.ready
      BY <1>11, <2>1 DEF TrackingFor, Tracked
    <2>2. CASE vip.ready
      <3>1. g.dir \in {1, -1} /\ vip \in D!Type
        BY <1>0, <1>4 DEF W!Type, Agreed
      <3>2. /\ x \in 0..MaxByte
            /\ y = IF g.call = "step" /\ x + g.dir \in 0..MaxByte THEN x + g.dir ELSE x
        BY <1>7, <2>2, <3>1, HeadAfter
      <3>3. fdc.tr00 <=> x = 0
        BY <1>0 DEF Agreed, Wired, V!Fresh
      <3> HIDE DEF x, y
      <3>4. tracking = "known" => fdc.tr = x
        BY <1>0 DEF Agreed, Tracked, x
      <3>5. tracking = "restoring" => W!IsForce(c)
        BY <1>0, <1>3 DEF Agreed, Tracked, Restoring
      <3>6. ASSUME c \div 16 \in {0, 1}
            PROVE  /\ c \div 16 = 0 => Restoring(fdc', vip')
                   /\ c \div 16 = 1 /\ fdc.tr = x => g.tr = y
        <4>1. g.q => W!BUSY \in g.sr
          BY <1>4 DEF P!FdcInv, P!BUSY, W!BUSY
        <4>2. PICK a : Aimed(fdc, c, a) /\ g = W!Type1_1(a, r)
          BY <1>6, <3>6
        <4>3. SetOut(fdc, c, g, x, y)
          <5>1. Landed(fdc, g, x, y)
            BY <3>2, <3>3 DEF Landed
          <5> QED
            BY <1>4, <4>2, <5>1, HeadsOn
        <4> QED
          BY <1>12, <1>13, <4>1, <4>3 DEF Restoring, SetOut, y
      <3>7. c \div 16 = 1 /\ fdc.tr = x => g.tr = y
        BY <3>6
      <3>8. c >= 128 /\ fdc.tr = x => g.tr = y
        BY <1>6, <3>2
      <3>9. W!IsForce(c) => c >= 128
        BY <1>0 DEF W!IsForce
      <3>10. tracking' = IF c \div 16 = 0 THEN "restoring"
                         ELSE IF W!IsForce(c)
                           THEN (IF tracking = "restoring" THEN "lost" ELSE tracking)
                         ELSE IF c \div 16 = 1 \/ c >= 128 THEN tracking
                         ELSE "lost"
        BY <1>11, <2>2 DEF TrackingFor
      <3>11. tracking' = "known" => fdc'.tr = y
        BY <1>12, <3>4, <3>7, <3>8, <3>9, <3>10
      <3>12. tracking' = "restoring" => Restoring(fdc', vip')
        BY <3>5, <3>6, <3>10
      <3>13. tracking' \in {"lost", "restoring", "known"}
        BY <1>0, <3>10 DEF Agreed
      <3> QED
        BY <3>11, <3>12, <3>13 DEF Tracked, y
    <2> QED
      BY <2>1, <2>2
  <1> QED
    BY <1>7, <1>8, <1>9, <1>15, <1>16, <1>17 DEF IInv, Agreed

-----------------------------------------------------------------------------
(* The cartridge.                                                          *)

LEMMA StillKeeps ==
    ASSUME IInv, UNCHANGED vars
    PROVE  IInv'
  BY DEF vars, IInv, P!Inv, Agreed, Wired, Tracked, Stopped, Given

LEMMA NextKeeps ==
    ASSUME IInv, [Next]_vars
    PROVE  [W!Next]_fdc /\ IInv'
  <1>1. CASE Machine
    BY <1>1, ResumeKeeps, IndexKeeps DEF Machine
  <1>2. CASE CPU
    BY <1>2, CommandKeeps, StatusKeeps, TransferKeeps, LoadKeeps, LatchKeeps DEF CPU
  <1>3. CASE MachineReset
    BY <1>3, ResetKeeps
  <1>4. CASE \E d \in Drives : ChangeDisk(d)
    BY <1>4, DiskKeeps
  <1>5. CASE UNCHANGED vars
    BY <1>5, StillKeeps DEF vars
  <1> QED
    BY <1>1, <1>2, <1>3, <1>4, <1>5 DEF Next

LEMMA AlwaysKept == Spec => []IInv
  <1>1. Init => IInv
    BY InitKeeps
  <1>2. IInv /\ [Next]_vars => IInv'
    BY NextKeeps
  <1> QED
    BY <1>1, <1>2, PTL DEF Spec

(* Wired to real drives the controller takes no step that WD279X does not allow it on
   its own: each is one of its handlers, with an answer it may be given, or one of its
   registers' or lines' actions. *)
THEOREM Implementation == Spec => Controller
  <1>1. Init => W!Init
    BY InitKeeps
  <1>2. IInv /\ [Next]_vars => [W!Next]_fdc
    BY NextKeeps
  <1> QED
    BY <1>1, <1>2, AlwaysKept, PTL DEF Spec, Controller, W!Spec

(* The lines that the controller has seen are the drive's, and a track register that a
   RESTORE has set says where the head is: for every track a disk may have, not only
   the two or three of the runs (wd279x.c:501-600, vdrive.c:442-451). *)
THEOREM AgreedAlways == Spec => []WiredUp
  <1>1. IInv => WiredUp
    <2> SUFFICES ASSUME IInv
                 PROVE  WiredUp
      OBVIOUS
    <2>1. TypeOK
      BY ControllerSound DEF IInv, Agreed, TypeOK
    <2>2. V!Disk(vip) = D!Disk(vip) /\ V!TrackBase(vip) = D!TrackBase(vip)
      BY DEF V!Disk, D!Disk, V!TrackBase, D!TrackBase
    <2>3. D!CacheFresh /\ D!Turning
      BY <2>2 DEF IInv, Agreed, V!Fresh, D!CacheFresh, D!Turning
    <2> QED
      BY <2>1, <2>3 DEF IInv, Agreed, Wired, Tracked, WiredUp
  <1> QED
    BY <1>1, AlwaysKept, PTL

(* A stopped CPU has an event to wait for, and hears of the end of its command: unless
   the program gives READ TRACK, which never ends, or arms the index interrupt, which
   takes the next command's event off the queue (wd279x.c:334-337, 897-900). *)
THEOREM CpuReleased ==
    ASSUME \A c \in Commands : ~W!IsReadTrack(c) /\ ~(W!IsForce(c) /\ W!Bit(c, 2))
    PROVE  Spec => []CpuHears
  <1>1. IInv => CpuHears
    <2> SUFFICES ASSUME IInv
                 PROVE  CpuHears
      OBVIOUS
    <2>1. /\ W!BUSY \in fdc.sr => fdc.q \/ fdc.iIdx \/ W!IsReadTrack(fdc.acc)
      BY ControllerSound DEF IInv
    <2>2. Stopped /\ Given
      BY DEF IInv, Agreed
    <2>3. W!BUSY \in fdc.sr /\ fdc.acc # NoCommand => fdc.q
      BY <2>1, <2>2 DEF Given
    <2> QED
      BY <2>2, <2>3 DEF Stopped, CpuHears, Halted
  <1> QED
    BY <1>1, AlwaysKept, PTL
===============================================================================
