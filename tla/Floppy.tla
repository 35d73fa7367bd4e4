-------------------------------- MODULE Floppy --------------------------------
(***************************************************************************)
(* The RS-DOS disk cartridge, rsdos.c: a controller (WD279X) wired to the  *)
(* drives (VDrive), a latch that selects drive, side and density, and the  *)
(* logic that stops the CPU.  With HALT enabled, the CPU is stopped until  *)
(* the controller asks for data, and HALT is disabled when it interrupts.  *)
(*                                                                         *)
(* The program on the CPU is held to what a disk driver does: it gives no  *)
(* command while BUSY but FORCE INTERRUPT, changes drive and registers     *)
(* between commands, and enables HALT only for a command it has given and  *)
(* not seen the end of.  The user may act between any two of its steps and *)
(* the controller's.                                                       *)
(***************************************************************************)
EXTENDS Integers

CONSTANTS
    MaxByte, Lengths, HoleLimit, IdamByte, Commands, HostBytes, Responses,
    NoID, NoCommand,                        \* of WD279X
    Drives, Drive0, Images, NoDisk, NoTrack, \* of VDrive; MaxCyl is MaxByte
    Sides, Densities,   \* what the program selects
    User        \* what the user may do: "insert", "eject", "enable"

VARIABLES
    fdc,        \* the controller
    vip,        \* the drives
    cart,       \* the cartridge's own logic
    tracking    \* history: "lost", "restoring" or "known", where the head is

vars == <<fdc, vip, cart, tracking>>

W == INSTANCE WD279X WITH
    HasSSO <- FALSE, BusyCommands <- {}, Lines <- {"index", "tr00", "wp"}
D == INSTANCE VDrive WITH MaxCyl <- MaxByte

ASSUME ControllerAssumption ==
    /\ MaxByte \in Nat \ {0} /\ IdamByte \in W!Byte
    /\ Lengths \subseteq Nat \ {0} /\ HoleLimit \in Nat \ {0}
    /\ HostBytes \subseteq W!Byte
    /\ Commands \subseteq 0..255 /\ NoCommand \notin 0..255
    /\ NoID \notin W!IDs /\ Responses \subseteq W!AllResponses
\* Whatever else a drive answers, its lines may be anything.
ASSUME LinesAssumption ==
    \A r \in Responses, tr00, wp \in BOOLEAN : [r EXCEPT !.tr00 = tr00, !.wp = wp] \in Responses
ASSUME DrivesAssumption ==
    /\ Drive0 \in Drives /\ Images \subseteq D!Disks /\ NoDisk \notin D!Disks
    /\ Sides \subseteq D!Heads /\ Densities \subseteq BOOLEAN

CartType == [
    haltEn : BOOLEAN,   \* halt_enable
    dden : BOOLEAN,     \* ~latch_density
    nmi : BOOLEAN]      \* the line to the CPU; intrq_flag and drq_flag are fdc's

\* The CPU is stopped.
Halted == cart.haltEn /\ ~fdc.drq

\* Nothing runs after a failed assertion.
Running == ~vip.aborted
CPURuns == Running /\ ~Halted

Busy == W!BUSY \in fdc.sr

-----------------------------------------------------------------------------
(* Wiring.                                                                 *)

\* (Slip: the interrupt does not disable HALT.)
IntrqHalting(c, f, cleared) == [c EXCEPT !.nmi = (@ /\ ~cleared) \/ (f.intrq /\ c.dden)]

\* set_drq and set_intrq, after the controller has become f; cleared says whether
\* the interrupt was taken away on the way.
Intrq(c, f, cleared) ==
    [c EXCEPT !.haltEn = @ /\ ~f.intrq,
              !.nmi = (@ /\ ~cleared) \/ (f.intrq /\ c.dden)]

\* (Slip: the drives' lines are not connected.)
SeeNothing(f, v) == [f EXCEPT !.call = "none"]

\* The controller, the drives' lines being what they now are.
See(f, v) == [W!SeeLines(f, v.tr00, v.wprot) EXCEPT !.call = "none"]

\* The drive operation the controller asked for on becoming f, answered by r.
Called(v0, f, r) ==
    LET v == D!SetDirc(v0, f.dir)
    IN  CASE f.call = "none" -> v
          [] f.call = "step" -> D!Step(v)
          [] f.call = "idam" -> IF r.id = NoID THEN D!NextIdam(v, FALSE)
                                ELSE D!Read(D!NextIdam(v, TRUE), r.idx)
          [] f.call \in {"read", "skip"} -> D!Read(v, r.idx)
          [] f.call = "write" -> D!Write(v, r.idx)
          [] f.call = "write_idam" -> D!WriteIdam(v, r.idx)

\* The controller becomes f with the drive's answer r: the answer has to be one
\* that the drive gives, and the controller sees the lines that the drive now has.
Together(f, r) ==
    LET v == Called(vip, f, r)
    IN  /\ f.call = "idam" /\ r.id # NoID => D!CanFind(vip)
        /\ f.index = v.index
        /\ fdc' = W!SeeLines(f, v.tr00, v.wprot) /\ vip' = v

\* The lines after a step are the drive's, so one answer for them will do.
Answers == {r \in Responses : r.tr00 = fdc.tr00 /\ r.wp = fdc.wp}

\* Where the head is: known after a RESTORE that ran its course over a disk that
\* stayed, until the program gives another stepping command, another track number
\* or another drive.
Tracking(f) ==
    IF ~vip.ready THEN "lost"
    ELSE IF tracking = "restoring" /\ W!BUSY \notin f.sr THEN "known"
    ELSE tracking

-----------------------------------------------------------------------------
(* The machine: the controller's events and the drives'.                   *)

Resume ==
    /\ Running /\ fdc.q
    /\ \E r \in Answers :
          LET f == W!Handler(fdc, r)
          IN  /\ Together(f, r)
              /\ cart' = Intrq(cart, f, FALSE)
              /\ tracking' = Tracking(f)

TurnTo(v) ==
    LET f == [W!IndexPulse(fdc, v.index) EXCEPT !.call = "none"]
    IN  /\ vip' = v /\ fdc' = f
        /\ cart' = Intrq(cart, f, FALSE)
        /\ UNCHANGED tracking

IndexPulses == Running /\ vip.pulseQ /\ ~vip.resetQ /\ TurnTo(D!DoIndexPulse(vip))
IndexFalls == Running /\ vip.resetQ /\ TurnTo(D!DoResetIndexPulse(vip))

-----------------------------------------------------------------------------
(* The program on the CPU.                                                 *)

\* A stepping command that is not SEEK or RESTORE leaves the head anywhere.
TrackingFor(c) ==
    IF ~vip.ready THEN "lost"
    ELSE IF c \div 16 = 0 THEN "restoring"
    ELSE IF W!IsForce(c) THEN (IF tracking = "restoring" THEN "lost" ELSE tracking)
    ELSE IF c \div 16 = 1 \/ c >= 128 THEN tracking
    ELSE "lost"

\* FORCE INTERRUPT is given with HALT disabled: nothing would release the CPU.
GiveCommand(c) ==
    /\ CPURuns
    /\ IF W!IsForce(c) THEN ~cart.haltEn ELSE ~Busy
    /\ \E r \in Answers :
          LET f == W!WriteCommand(fdc, c, r)
          IN  /\ Together(f, r)
              /\ cart' = Intrq(cart, f, ~W!IsForce(c) /\ ~fdc.iImm)
    /\ tracking' = TrackingFor(c)

ReadStatus ==
    /\ CPURuns
    /\ fdc' = W!ReadStatus(fdc)
    /\ cart' = Intrq(cart, fdc', ~fdc.iImm)
    /\ UNCHANGED <<vip, tracking>>

\* Written while a RESTORE runs, the data register is where the head will stop.
Transfer ==
    /\ CPURuns
    /\ \/ fdc' = W!AnswerDrq(fdc) /\ UNCHANGED tracking
       \/ /\ \E b \in HostBytes : fdc' = W!WriteData(fdc, b)
          /\ tracking' = IF tracking = "restoring" THEN "lost" ELSE tracking
    /\ UNCHANGED <<vip, cart>>

LoadRegister(b) ==
    /\ CPURuns /\ ~Busy
    /\ \/ fdc' = W!WriteTrack(fdc, b) /\ tracking' = "lost"
       \/ fdc' = W!WriteSector(fdc, b) /\ UNCHANGED tracking
    /\ UNCHANGED <<vip, cart>>

\* latch_write.
Latched(c, f, halt, dden) ==
    [c EXCEPT !.haltEn = halt /\ ~f.intrq, !.dden = dden,
              !.nmi = @ \/ (dden /\ f.intrq)]

WriteLatch(d, side, halt, dden) ==
    /\ CPURuns
    /\ Busy => d = vip.drive /\ side = vip.head
    /\ halt => fdc.acc # NoCommand
    /\ vip' = D!SetDrive(D!SetSSO(vip, side), d)
    /\ fdc' = See(fdc, vip')
    /\ cart' = Latched(cart, fdc, halt, dden)
    /\ tracking' = IF d = vip.drive THEN tracking ELSE "lost"

-----------------------------------------------------------------------------
(* The user.                                                               *)

\* (Slip: the cartridge drops its flags, but the controller is not reset.)
DroppedFlags(f) == [f EXCEPT !.drq = FALSE, !.intrq = FALSE]

\* rsdos_reset: the controller resets, the cartridge drops its flags, and the
\* latch selects drive 0, side 0, single density and no HALT.
ResetParts(f) == [W!Reset(f) EXCEPT !.drq = FALSE, !.intrq = FALSE]

MachineReset ==
    LET f == ResetParts(fdc)
        v == D!SetDrive(D!SetSSO(D!SetDirc(vip, f.dir), 0), Drive0)
    IN  /\ Running /\ vip' = v /\ fdc' = See(f, v)
        /\ cart' = Latched(cart, f, FALSE, FALSE)
        /\ tracking' = "lost"

ChangeDisk(d) ==
    /\ Running
    /\ \/ "insert" \in User /\ \E image \in Images : vip' = D!Insert(vip, d, image)
       \/ "eject" \in User /\ vip' = D!Eject(vip, d)
       \/ "enable" \in User /\ vip.disk[d] # NoDisk /\ vip' = D!ToggleWriteEnable(vip, d)
    /\ fdc' = See(fdc, vip')
    /\ tracking' = IF d = vip.drive /\ tracking = "restoring" THEN "lost" ELSE tracking
    /\ UNCHANGED cart

-----------------------------------------------------------------------------
Init ==
    /\ vip = [D!New EXCEPT !.dir = -1]
    /\ fdc = W!New(vip.tr00, vip.wprot)
    /\ cart = [haltEn |-> FALSE, dden |-> FALSE, nmi |-> FALSE]
    /\ tracking = "lost"

Machine == Resume \/ IndexPulses \/ IndexFalls

CPU ==
    \/ \E c \in Commands : GiveCommand(c)
    \/ ReadStatus \/ Transfer \/ \E b \in HostBytes : LoadRegister(b)
    \/ \E d \in Drives, side \in Sides, halt \in BOOLEAN, dden \in Densities :
          WriteLatch(d, side, halt, dden)

Next == Machine \/ CPU \/ MachineReset \/ \E d \in Drives : ChangeDisk(d)

Spec == Init /\ [][Next]_vars

\* A queued event is dispatched (Events: QueuedRuns).
Fairness == WF_vars(Resume) /\ WF_vars(IndexPulses) /\ WF_vars(IndexFalls)

FairSpec == Spec /\ Fairness

-----------------------------------------------------------------------------
TypeOK ==
    /\ fdc \in W!Type /\ vip \in D!Type /\ cart \in CartType
    /\ tracking \in {"lost", "restoring", "known"}

\* Controller and drives agree: the controller's copies of the drive's lines are the
\* drive's, through all that selects, moves, inserts or ejects; the drives' cache is fresh
\* and their disks turn; and once a RESTORE has found track 0, the track register says
\* where the head is, through every SEEK and FORCE INTERRUPT after it: with no verify, it
\* is all that the program has to go by.
WiredUp ==
    /\ TypeOK
    /\ fdc.tr00 = vip.tr00 /\ fdc.index = vip.index /\ fdc.wp = vip.wprot
    /\ fdc.dir = vip.dir
    /\ D!CacheFresh /\ D!Turning
    /\ tracking = "known" => fdc.tr = vip.cyl[vip.drive]

\* The CPU is not left behind.  While it is stopped the controller has an event queued:
\* nothing else can raise DRQ or INTRQ then, and without either the CPU is never let go
\* (rsdos.c:340-355).  And whatever ends a command, the CPU hears of it: HALT is off,
\* and in double density the NMI is up, until the program has read the status.
CpuHears ==
    /\ Halted => fdc.q
    /\ fdc.intrq => ~cart.haltEn /\ (cart.dden => cart.nmi)

\* Wired to real drives the controller does nothing it could not do on its own, so
\* what WD279X promises is true here.
Controller == W!Spec

\* With a disk in the drive, the CPU is stopped only for a while.
HaltReleased == <>[](vip.ready /\ ~vip.aborted) => []<>~Halted

\* "assert(disk != NULL)", vdisk.c:908.
DiskToExtend == ~vip.aborted

\* "Unticking this prevents the emulated system from writing to the disk",
\* doc/xroar.texi:687.
ProtectedUnwritten ==
    [][Resume /\ fdc'.call \in {"write", "write_idam"} /\ vip.ready
         => ~vip.disk[vip.drive].wp]_vars
=============================================================================
