-------------------------------- MODULE VDrive --------------------------------
(***************************************************************************)
(* The virtual disk drives, vdrive.c, with the part of vdisk.c they lean   *)
(* on: which drive and head are selected, where each head stands, the      *)
(* cached pointer to the track under the head, the four lines to the       *)
(* controller and the two events that turn the disk.  As in WD279X, the    *)
(* component is one record and a function of the source one operator.      *)
(*                                                                         *)
(* A disk is its switches and its size; bytes on a track, and so the       *)
(* position of the head along it, are left out: an operation may reach the *)
(* end of the track (pass) or not, and a search may find an ID or not.     *)
(***************************************************************************)
EXTENDS Integers, FiniteSets

CONSTANTS
    Drives,   \* the drives, MAX_DRIVES of them
    Drive0,   \* the one selected at first
    MaxCyl,   \* the last cylinder, MAX_TRACKS - 1
    Images,   \* the disks a user may insert
    NoDisk, NoTrack

ASSUME DrivesAssumption == Drive0 \in Drives /\ MaxCyl \in Nat

VARIABLE vip

Heads == {0, 1}
Disks == [wp : BOOLEAN,             \* write_protect
          wb : BOOLEAN,             \* write_back
          dirty : BOOLEAN,
          ncyl : 0..(MaxCyl + 1), nhead : 0..2]

ASSUME ImagesAssumption == Images \subseteq Disks /\ NoDisk \notin Disks

Tracks == Drives \X (0..MaxCyl) \X Heads

Type == [
    disk : [Drives -> Disks \union {NoDisk}],
    cyl : [Drives -> 0..MaxCyl],    \* current_cyl of each drive
    drive : Drives, head : Heads,   \* cur_drive_number, cur_head
    dir : {1, -1},                  \* cur_direction
    base : Tracks \union {NoTrack}, \* track_base and idamptr
    ready : BOOLEAN, tr00 : BOOLEAN, index : BOOLEAN, wprot : BOOLEAN,
                                    \* ready_state and so on, as last signalled
    pulseQ : BOOLEAN,               \* index_pulse_event is queued
    resetQ : BOOLEAN,               \* reset_index_pulse_event is queued
    aborted : BOOLEAN]              \* an assertion failed

-----------------------------------------------------------------------------
Disk(v) == v.disk[v.drive]

\* vdisk_track_base: no track beyond the size of the disk.
TrackBase(v) ==
    IF v.head < Disk(v).nhead /\ v.cyl[v.drive] < Disk(v).ncyl
      THEN <<v.drive, v.cyl[v.drive], v.head>>
      ELSE NoTrack

\* update_signals, called by all that selects, moves or changes a disk: the lines,
\* the pointer, and a disk that is not turning starts to.
UpdateSignals(v0) ==
    LET v == [v0 EXCEPT !.ready = Disk(v0) # NoDisk, !.tr00 = v0.cyl[v0.drive] = 0]
    IN  IF v.ready
          THEN [v EXCEPT !.wprot = Disk(v).wp, !.base = TrackBase(v), !.pulseQ = TRUE]
          ELSE [v EXCEPT !.wprot = FALSE, !.base = NoTrack]

New == UpdateSignals(
    [disk |-> [d \in Drives |-> NoDisk], cyl |-> [d \in Drives |-> 0],
     drive |-> Drive0, head |-> 0, dir |-> 1, base |-> NoTrack,
     ready |-> FALSE, tr00 |-> TRUE, index |-> FALSE, wprot |-> FALSE,
     pulseQ |-> FALSE, resetQ |-> FALSE, aborted |-> FALSE])

\* (Slip: the image leaves the drive without a word to the rest.)
EjectSilent(v, d) == [v EXCEPT !.disk[d] = NoDisk]

\* vdrive_eject_disk, once the image is saved.
Eject(v, d) ==
    IF v.disk[d] = NoDisk THEN v ELSE UpdateSignals([v EXCEPT !.disk[d] = NoDisk])

Insert(v, d, image) == UpdateSignals([Eject(v, d) EXCEPT !.disk[d] = image])

\* vdrive_flush: a disk with write-back on is clean once it is saved; saving can fail.
Flush(v, failed) ==
    [v EXCEPT !.disk = [d \in Drives |->
        IF @[d] # NoDisk /\ @[d].wb /\ d \notin failed
          THEN [@[d] EXCEPT !.dirty = FALSE] ELSE @[d]]]

\* The user interface's two switches.  Neither tells the controller.
ToggleWriteEnable(v, d) == [v EXCEPT !.disk[d].wp = ~@]
ToggleWriteBack(v, d) == [v EXCEPT !.disk[d].wb = ~@]

SetDirc(v, dir) == [v EXCEPT !.dir = dir]
SetSSO(v, h) == UpdateSignals([v EXCEPT !.head = h])
SetDrive(v, d) == UpdateSignals([v EXCEPT !.drive = d])

\* (Slip: the head moves in an empty drive, and past the last cylinder.)
StepFree(v) ==
    UpdateSignals([v EXCEPT !.cyl[v.drive] = IF v.dir > 0 \/ @ > 0 THEN @ + v.dir ELSE @])

Step(v) ==
    LET c == v.cyl[v.drive] + v.dir
    IN  UpdateSignals(IF v.ready /\ c \in 0..MaxCyl
                        THEN [v EXCEPT !.cyl[v.drive] = c] ELSE v)

\* The head comes to the end of the track.
Pass(v, pass) == [v EXCEPT !.index = @ \/ pass]

\* Write routines make the disk as large as they need.
Extend(v) ==
    IF v.base # NoTrack THEN v
    ELSE LET c == v.cyl[v.drive]
             grown == [v EXCEPT
                 !.disk[v.drive].ncyl = IF c >= @ THEN c + 1 ELSE @,
                 !.disk[v.drive].nhead = IF v.head >= @ THEN v.head + 1 ELSE @]
         IN  [grown EXCEPT !.base = TrackBase(grown)]

Dirty(v) == [v EXCEPT !.disk[v.drive].dirty = TRUE]

Write(v, pass) == IF v.ready THEN Pass(Dirty(Extend(v)), pass) ELSE v

\* vdrive_skip and vdrive_read move the head alike.
Read(v, pass) == IF v.ready THEN Pass(v, pass) ELSE v

\* Unlike the others it does not look whether there is a disk: vdisk_extend_disk
\* asserts that there is.
WriteIdam(v, pass) ==
    IF v.ready THEN Pass(Dirty(Extend(v)), pass) ELSE [v EXCEPT !.aborted = TRUE]

\* vdrive_next_idam: no pointers, nothing found, and then the index pulse is there.
NextIdam(v, found) == IF v.ready THEN Pass(v, ~found) ELSE v
CanFind(v) == v.ready /\ v.base # NoTrack

\* (Slip: the next revolution is queued only when the disk is inserted.)
DoIndexPulseOnce(v) ==
    IF v.ready
      THEN [v EXCEPT !.index = TRUE, !.pulseQ = FALSE, !.resetQ = TRUE]
      ELSE [v EXCEPT !.index = TRUE, !.pulseQ = FALSE]

\* do_index_pulse turns the disk once more, unless it has gone.
DoIndexPulse(v) ==
    IF v.ready
      THEN [v EXCEPT !.index = TRUE, !.pulseQ = TRUE, !.resetQ = TRUE]
      ELSE [v EXCEPT !.index = TRUE, !.pulseQ = FALSE]

DoResetIndexPulse(v) == [v EXCEPT !.index = FALSE, !.resetQ = FALSE]

-----------------------------------------------------------------------------
(* A drive interface on its own: the user, and a controller that may call  *)
(* any operation at any time.                                              *)

Init == vip = New

UserActs ==
    \E d \in Drives :
        \/ \E image \in Images : vip' = Insert(vip, d, image)
        \/ vip' = Eject(vip, d)
        \/ vip.disk[d] # NoDisk /\ vip' = ToggleWriteEnable(vip, d)
        \/ vip.disk[d] # NoDisk /\ vip' = ToggleWriteBack(vip, d)

Flushes == \E failed \in SUBSET Drives : vip' = Flush(vip, failed)

Selects ==
    \/ \E d \in Drives : vip' = SetDrive(vip, d)
    \/ \E h \in Heads : vip' = SetSSO(vip, h)

Moves ==
    \/ \E dir \in {1, -1} : vip' = SetDirc(vip, dir)
    \/ vip' = Step(vip)

Transfers ==
    \E pass \in BOOLEAN :
        \/ vip' = Write(vip, pass)
        \/ vip' = Read(vip, pass)
        \/ vip.ready /\ vip' = WriteIdam(vip, pass)
        \/ (~pass => CanFind(vip)) /\ vip' = NextIdam(vip, ~pass)

\* Both events are set when a pulse begins, the end of the pulse a hundredth of a
\* revolution on: it always comes before the next.
IndexPulses == vip.pulseQ /\ ~vip.resetQ /\ vip' = DoIndexPulse(vip)
IndexFalls == vip.resetQ /\ vip' = DoResetIndexPulse(vip)

Next == UserActs \/ Flushes \/ Selects \/ Moves \/ Transfers \/ IndexPulses \/ IndexFalls

Spec == Init /\ [][Next]_vip

-----------------------------------------------------------------------------
TypeOK == vip \in Type

\* What the drive caches is never stale: after any sequence of insertions,
\* ejections, selections, steps and writes that grow the disk, the pointer to the
\* track is the one a fresh look-up would give, none when there is no disk, and
\* two of the lines show the selected drive (vdrive.c:647-668).
CacheFresh ==
    /\ vip.ready <=> Disk(vip) # NoDisk
    /\ vip.tr00 <=> vip.cyl[vip.drive] = 0
    /\ vip.base = IF vip.ready THEN TrackBase(vip) ELSE NoTrack

\* A disk in the selected drive is turning: vdrive_time_to_next_idam takes the
\* time of the next index pulse from the event without asking whether it is
\* queued (vdrive.c:563-565).
Turning == vip.ready => vip.pulseQ
=============================================================================
