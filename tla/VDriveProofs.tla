----------------------------- MODULE VDriveProofs -----------------------------
(***************************************************************************)
(* What is proved about the disk drives for any set of drives, any number  *)
(* of cylinders and any images: the cached pointer and the lines are never *)
(* stale, and an inserted disk turns.                                      *)
(***************************************************************************)
EXTENDS VDrive, TLAPS

(* The drives without the fields that update_signals sets. *)
Fresh(v) ==
    /\ v.ready <=> Disk(v) # NoDisk
    /\ v.tr00 <=> v.cyl[v.drive] = 0
    /\ v.base = IF v.ready THEN TrackBase(v) ELSE NoTrack
    /\ v.ready => v.pulseQ

(* The inductive invariant: the three properties together.  A disk that has just
   been inserted turns because update_signals found it, and that it is still
   turning needs the ready line to be the truth. *)
IInv == vip \in Type /\ Fresh(vip)

(* update_signals makes fresh whatever it is given. *)
LEMMA UpdateSignalsFresh ==
    ASSUME NEW v \in Type
    PROVE  UpdateSignals(v) \in Type /\ Fresh(UpdateSignals(v))
  <1> DEFINE w == [v EXCEPT !.ready = Disk(v) # NoDisk, !.tr00 = v.cyl[v.drive] = 0]
  <1>1. w \in Type /\ w.ready = (Disk(v) # NoDisk) /\ w.tr00 = (v.cyl[v.drive] = 0)
    BY DEF Type, Disk
  <1>2. w.disk = v.disk /\ w.drive = v.drive /\ w.cyl = v.cyl /\ w.head = v.head
    BY DEF Type
  <1>3. UpdateSignals(v) = IF w.ready
            THEN [w EXCEPT !.wprot = Disk(w).wp, !.base = TrackBase(w), !.pulseQ = TRUE]
            ELSE [w EXCEPT !.wprot = FALSE, !.base = NoTrack]
    BY DEF UpdateSignals
  <1>4. w.ready => Disk(w) \in Disks
    BY <1>1, <1>2 DEF Type, Disk
  <1>5. TrackBase(w) \in Tracks \union {NoTrack}
    BY <1>1 DEF Type, TrackBase, Tracks
  <1> HIDE DEF w
  <1>6. CASE w.ready
    <2>1. UpdateSignals(v) =
            [w EXCEPT !.wprot = Disk(w).wp, !.base = TrackBase(w), !.pulseQ = TRUE]
      BY <1>3, <1>6
    <2>2. Disk(w).wp \in BOOLEAN
      BY <1>4, <1>6 DEF Disks
    <2>3. UpdateSignals(v) \in Type
      BY <1>1, <1>5, <2>1, <2>2 DEF Type
    <2> DEFINE u == UpdateSignals(v)
    <2>4. /\ u.ready = w.ready /\ u.tr00 = w.tr00 /\ u.disk = w.disk /\ u.drive = w.drive
          /\ u.cyl = w.cyl /\ u.head = w.head /\ u.base = TrackBase(w) /\ u.pulseQ = TRUE
      BY <1>1, <2>1 DEF Type
    <2>5. Disk(u) = Disk(w) /\ TrackBase(u) = TrackBase(w)
      BY <2>4 DEF Disk, TrackBase
    <2> HIDE DEF u
    <2>6. Fresh(u)
      BY <1>1, <1>2, <1>6, <2>4, <2>5 DEF Fresh, Disk
    <2> QED
      BY <2>3, <2>6 DEF u
  <1>7. CASE ~w.ready
    BY <1>1, <1>2, <1>3, <1>7 DEF Type, Fresh, Disk
  <1> QED
    BY <1>6, <1>7

-----------------------------------------------------------------------------
(* What no operation touches, or touches without changing the shape of a disk. *)

LEMMA FreshKept ==
    ASSUME NEW v \in Type, Fresh(v), NEW w \in Type,
           w.ready = v.ready, w.tr00 = v.tr00, w.base = v.base, w.pulseQ = v.pulseQ,
           w.drive = v.drive, w.cyl = v.cyl, w.head = v.head,
           Disk(w) = NoDisk <=> Disk(v) = NoDisk,
           v.ready => Disk(w).ncyl = Disk(v).ncyl /\ Disk(w).nhead = Disk(v).nhead
    PROVE  Fresh(w)
  <1>1. v.ready => TrackBase(w) = TrackBase(v)
    BY DEF TrackBase
  <1> QED
    BY <1>1 DEF Fresh

(* A disk in a drive may change its switches. *)
LEMMA SwitchKept ==
    ASSUME NEW v \in Type, Fresh(v), NEW d \in Drives, NEW image \in Disks,
           v.disk[d] # NoDisk,
           image.ncyl = v.disk[d].ncyl, image.nhead = v.disk[d].nhead
    PROVE  [v EXCEPT !.disk[d] = image] \in Type /\ Fresh([v EXCEPT !.disk[d] = image])
  <1> DEFINE w == [v EXCEPT !.disk[d] = image]
  <1>1. w \in Type /\ w.disk = [v.disk EXCEPT ![d] = image]
    BY DEF Type
  <1>2. /\ w.ready = v.ready /\ w.tr00 = v.tr00 /\ w.base = v.base /\ w.pulseQ = v.pulseQ
        /\ w.drive = v.drive /\ w.cyl = v.cyl /\ w.head = v.head
    BY DEF Type
  <1> HIDE DEF w
  <1>3. Disk(w) = IF v.drive = d THEN image ELSE Disk(v)
    BY <1>1, <1>2 DEF Type, Disk
  <1>4. image # NoDisk
    BY ImagesAssumption
  <1>5. Fresh(w)
    BY <1>1, <1>2, <1>3, <1>4, FreshKept DEF Disk
  <1> QED
    BY <1>1, <1>5 DEF w

LEMMA EjectFresh ==
    ASSUME NEW v \in Type, Fresh(v), NEW d \in Drives
    PROVE  Eject(v, d) \in Type /\ Fresh(Eject(v, d))
  <1>1. [v EXCEPT !.disk[d] = NoDisk] \in Type
    BY DEF Type
  <1> QED
    BY <1>1, UpdateSignalsFresh DEF Eject

LEMMA InsertFresh ==
    ASSUME NEW v \in Type, Fresh(v), NEW d \in Drives, NEW image \in Images
    PROVE  Insert(v, d, image) \in Type /\ Fresh(Insert(v, d, image))
  <1>1. [Eject(v, d) EXCEPT !.disk[d] = image] \in Type
    BY EjectFresh, ImagesAssumption DEF Type
  <1> QED
    BY <1>1, UpdateSignalsFresh DEF Insert

LEMMA SwitchesFresh ==
    ASSUME NEW v \in Type, Fresh(v), NEW d \in Drives, v.disk[d] # NoDisk
    PROVE  /\ ToggleWriteEnable(v, d) \in Type /\ Fresh(ToggleWriteEnable(v, d))
           /\ ToggleWriteBack(v, d) \in Type /\ Fresh(ToggleWriteBack(v, d))
  <1>1. v.disk[d] \in Disks
    BY DEF Type
  <1> DEFINE a == [v.disk[d] EXCEPT !.wp = ~@]
             b == [v.disk[d] EXCEPT !.wb = ~@]
  <1>2. a \in Disks /\ a.ncyl = v.disk[d].ncyl /\ a.nhead = v.disk[d].nhead
    BY <1>1 DEF Disks
  <1>3. b \in Disks /\ b.ncyl = v.disk[d].ncyl /\ b.nhead = v.disk[d].nhead
    BY <1>1 DEF Disks
  <1>4. ToggleWriteEnable(v, d) = [v EXCEPT !.disk[d] = a]
    BY DEF ToggleWriteEnable, Type
  <1>5. ToggleWriteBack(v, d) = [v EXCEPT !.disk[d] = b]
    BY DEF ToggleWriteBack, Type
  <1> HIDE DEF a, b
  <1> QED
    BY <1>2, <1>3, <1>4, <1>5, SwitchKept

LEMMA FlushFresh ==
    ASSUME NEW v \in Type, Fresh(v), NEW failed \in SUBSET Drives
    PROVE  Flush(v, failed) \in Type /\ Fresh(Flush(v, failed))
  <1> DEFINE saved(d) == v.disk[d] # NoDisk /\ v.disk[d].wb /\ d \notin failed
             clean(d) == IF saved(d) THEN [v.disk[d] EXCEPT !.dirty = FALSE] ELSE v.disk[d]
             w == [v EXCEPT !.disk = [d \in Drives |-> clean(d)]]
  <1>1. Flush(v, failed) = w
    BY DEF Flush, Type
  <1>2. ASSUME NEW d \in Drives
        PROVE  /\ clean(d) \in Disks \union {NoDisk}
               /\ clean(d) = NoDisk <=> v.disk[d] = NoDisk
               /\ v.disk[d] # NoDisk => /\ clean(d).ncyl = v.disk[d].ncyl
                                        /\ clean(d).nhead = v.disk[d].nhead
    <2>1. CASE v.disk[d] = NoDisk
      BY <2>1
    <2>2. CASE v.disk[d] # NoDisk
      <3>1. v.disk[d] \in Disks
        BY <2>2 DEF Type
      <3>2. /\ [v.disk[d] EXCEPT !.dirty = FALSE] \in Disks
            /\ [v.disk[d] EXCEPT !.dirty = FALSE].ncyl = v.disk[d].ncyl
            /\ [v.disk[d] EXCEPT !.dirty = FALSE].nhead = v.disk[d].nhead
        BY <3>1 DEF Disks
      <3> QED
        BY <2>2, <3>1, <3>2, ImagesAssumption
    <2> QED
      BY <2>1, <2>2
  <1> HIDE DEF clean
  <1>3. w \in Type /\ w.disk = [d \in Drives |-> clean(d)]
    BY <1>2 DEF Type
  <1>4. /\ w.ready = v.ready /\ w.tr00 = v.tr00 /\ w.base = v.base /\ w.pulseQ = v.pulseQ
        /\ w.drive = v.drive /\ w.cyl = v.cyl /\ w.head = v.head
    BY DEF Type
  <1> HIDE DEF w
  <1>5. v.drive \in Drives
    BY DEF Type
  <1>6. Disk(w) = clean(v.drive) /\ Disk(v) = v.disk[v.drive]
    BY <1>3, <1>4, <1>5 DEF Disk
  <1>7. v.ready => Disk(v) # NoDisk
    BY DEF Fresh
  <1>8. Fresh(w)
    BY <1>2, <1>3, <1>4, <1>5, <1>6, <1>7, FreshKept
  <1> QED
    BY <1>1, <1>3, <1>8

-----------------------------------------------------------------------------
(* The controller's operations.                                            *)

LEMMA SelectFresh ==
    ASSUME NEW v \in Type, Fresh(v)
    PROVE  /\ \A d \in Drives : SetDrive(v, d) \in Type /\ Fresh(SetDrive(v, d))
           /\ \A h \in Heads : SetSSO(v, h) \in Type /\ Fresh(SetSSO(v, h))
  <1>1. ASSUME NEW d \in Drives
        PROVE  [v EXCEPT !.drive = d] \in Type
    BY DEF Type
  <1>2. ASSUME NEW h \in Heads
        PROVE  [v EXCEPT !.head = h] \in Type
    BY DEF Type
  <1> QED
    BY <1>1, <1>2, UpdateSignalsFresh DEF SetDrive, SetSSO

LEMMA MoveFresh ==
    ASSUME NEW v \in Type, Fresh(v)
    PROVE  /\ Step(v) \in Type /\ Fresh(Step(v))
           /\ \A dir \in {1, -1} : SetDirc(v, dir) \in Type /\ Fresh(SetDirc(v, dir))
  <1>1. ASSUME NEW c \in 0..MaxCyl
        PROVE  [v EXCEPT !.cyl[v.drive] = c] \in Type
    BY DEF Type
  <1>2. Step(v) \in Type /\ Fresh(Step(v))
    BY <1>1, UpdateSignalsFresh DEF Step
  <1>3. ASSUME NEW dir \in {1, -1}
        PROVE  SetDirc(v, dir) \in Type /\ Fresh(SetDirc(v, dir))
    <2>1. SetDirc(v, dir) \in Type
      BY DEF SetDirc, Type
    <2> QED
      BY <2>1, FreshKept DEF SetDirc, Type, Disk
  <1> QED
    BY <1>2, <1>3

LEMMA PassFresh ==
    ASSUME NEW v \in Type, Fresh(v), NEW pass \in BOOLEAN
    PROVE  Pass(v, pass) \in Type /\ Fresh(Pass(v, pass))
  <1>1. Pass(v, pass) \in Type
    BY DEF Pass, Type
  <1> QED
    BY <1>1, FreshKept DEF Pass, Type, Disk

(* A disk that grows gets its new track cached: only the selected disk grows, and
   only when the cache holds no track. *)
LEMMA ExtendFresh ==
    ASSUME NEW v \in Type, Fresh(v), v.ready
    PROVE  Extend(v) \in Type /\ Fresh(Extend(v)) /\ Extend(v).ready
  <1> DEFINE c == v.cyl[v.drive]
             old == v.disk[v.drive]
             grown == [v EXCEPT !.disk[v.drive].ncyl = IF c >= @ THEN c + 1 ELSE @,
                                !.disk[v.drive].nhead = IF v.head >= @ THEN v.head + 1 ELSE @]
             new == [old EXCEPT !.ncyl = IF c >= old.ncyl THEN c + 1 ELSE old.ncyl,
                                !.nhead = IF v.head >= old.nhead THEN v.head + 1 ELSE old.nhead]
             w == [v EXCEPT !.disk[v.drive] = new]
  <1>1. v.drive \in Drives /\ c \in 0..MaxCyl /\ v.head \in {0, 1} /\ old \in Disks
    BY DEF Type, Fresh, Disk, Heads
  <1>2. new \in Disks
    <2>1. old.ncyl \in 0..(MaxCyl + 1) /\ old.nhead \in 0..2
      BY <1>1 DEF Disks
    <2>2. MaxCyl \in Nat
      BY DrivesAssumption
    <2> DEFINE cyls == IF c >= old.ncyl THEN c + 1 ELSE old.ncyl
               heads == IF v.head >= old.nhead THEN v.head + 1 ELSE old.nhead
    <2>3. cyls \in 0..(MaxCyl + 1)
      BY <1>1, <2>1, <2>2
    <2>4. heads \in 0..2
      BY <1>1, <2>1
    <2>5. new = [old EXCEPT !.ncyl = cyls, !.nhead = heads]
      OBVIOUS
    <2> HIDE DEF cyls, heads, new, c, old
    <2> QED
      BY <1>1, <2>3, <2>4, <2>5 DEF Disks
  <1>3. grown = w
    BY <1>1 DEF Type, Disks
  <1>4. w \in Type /\ w.disk = [v.disk EXCEPT ![v.drive] = new]
    BY <1>1, <1>2 DEF Type
  <1>5. w.drive = v.drive /\ w.cyl = v.cyl /\ w.head = v.head /\ w.tr00 = v.tr00
        /\ w.ready = v.ready /\ w.pulseQ = v.pulseQ
    BY DEF Type
  <1>6. Disk(w) = new
    BY <1>1, <1>4, <1>5 DEF Disk, Type
  <1>7. CASE v.base # NoTrack
    BY <1>7 DEF Extend
  <1>8. CASE v.base = NoTrack
    <2> HIDE DEF w, new
    <2> DEFINE u == [w EXCEPT !.base = TrackBase(w)]
    <2>1. Extend(v) = u
      BY <1>3, <1>8 DEF Extend, w, new
    <2>2. TrackBase(w) \in Tracks \union {NoTrack}
      BY <1>4 DEF Type, TrackBase, Tracks
    <2>3. u \in Type
      BY <1>4, <2>2 DEF Type
    <2>4. u.drive = w.drive /\ u.cyl = w.cyl /\ u.head = w.head /\ u.tr00 = w.tr00
          /\ u.ready = w.ready /\ u.pulseQ = w.pulseQ /\ u.disk = w.disk
          /\ u.base = TrackBase(w)
      BY <1>4 DEF Type
    <2> HIDE DEF u
    <2>5. Disk(u) = Disk(w) /\ TrackBase(u) = TrackBase(w)
      BY <2>4 DEF Disk, TrackBase
    <2>6. Disk(u) # NoDisk
      BY <1>2, <1>6, <2>5, ImagesAssumption
    <2>7. Fresh(u)
      BY <1>5, <2>4, <2>5, <2>6 DEF Fresh
    <2> QED
      BY <1>5, <2>1, <2>3, <2>4, <2>7
  <1> QED
    BY <1>7, <1>8

LEMMA DirtyFresh ==
    ASSUME NEW v \in Type, Fresh(v), v.ready
    PROVE  Dirty(v) \in Type /\ Fresh(Dirty(v))
  <1> DEFINE new == [v.disk[v.drive] EXCEPT !.dirty = TRUE]
  <1>1. v.drive \in Drives /\ v.disk[v.drive] \in Disks /\ v.disk[v.drive] # NoDisk
    BY DEF Type, Fresh, Disk
  <1>2. new \in Disks /\ new.ncyl = v.disk[v.drive].ncyl /\ new.nhead = v.disk[v.drive].nhead
    BY <1>1 DEF Disks
  <1>3. Dirty(v) = [v EXCEPT !.disk[v.drive] = new]
    BY <1>1 DEF Dirty, Type
  <1> HIDE DEF new
  <1> QED
    BY <1>1, <1>2, <1>3, SwitchKept

LEMMA TransferFresh ==
    ASSUME NEW v \in Type, Fresh(v), NEW pass \in BOOLEAN
    PROVE  /\ Write(v, pass) \in Type /\ Fresh(Write(v, pass))
           /\ Read(v, pass) \in Type /\ Fresh(Read(v, pass))
           /\ v.ready => WriteIdam(v, pass) \in Type /\ Fresh(WriteIdam(v, pass))
           /\ NextIdam(v, pass) \in Type /\ Fresh(NextIdam(v, pass))
  <1>1. v.ready => /\ Pass(Dirty(Extend(v)), pass) \in Type
                  /\ Fresh(Pass(Dirty(Extend(v)), pass))
    BY ExtendFresh, DirtyFresh, PassFresh
  <1>2. Pass(v, ~pass) \in Type /\ Fresh(Pass(v, ~pass))
    BY PassFresh
  <1> QED
    BY <1>1, <1>2, PassFresh DEF Write, Read, WriteIdam, NextIdam

LEMMA IndexFresh ==
    ASSUME NEW v \in Type, Fresh(v)
    PROVE  /\ DoIndexPulse(v) \in Type /\ Fresh(DoIndexPulse(v))
           /\ DoResetIndexPulse(v) \in Type /\ Fresh(DoResetIndexPulse(v))
  <1> DEFINE a == [v EXCEPT !.index = TRUE, !.pulseQ = TRUE, !.resetQ = TRUE]
             b == [v EXCEPT !.index = TRUE, !.pulseQ = FALSE]
  <1>1. ASSUME v.ready
        PROVE  DoIndexPulse(v) \in Type /\ Fresh(DoIndexPulse(v))
    <2>1. a \in Type /\ a.disk = v.disk /\ a.drive = v.drive /\ a.head = v.head
          /\ a.cyl = v.cyl /\ a.ready = v.ready /\ a.tr00 = v.tr00 /\ a.base = v.base
          /\ a.pulseQ = TRUE
      BY DEF Type
    <2>2. DoIndexPulse(v) = a
      BY <1>1 DEF DoIndexPulse
    <2> HIDE DEF a
    <2>3. Disk(a) = Disk(v) /\ TrackBase(a) = TrackBase(v)
      BY <2>1 DEF Disk, TrackBase
    <2>4. Fresh(a)
      BY <1>1, <2>1, <2>3 DEF Fresh
    <2> QED
      BY <2>1, <2>2, <2>4
  <1>2. ASSUME ~v.ready
        PROVE  DoIndexPulse(v) \in Type /\ Fresh(DoIndexPulse(v))
    <2>1. b \in Type /\ b.disk = v.disk /\ b.drive = v.drive /\ b.head = v.head
          /\ b.cyl = v.cyl /\ b.ready = v.ready /\ b.tr00 = v.tr00 /\ b.base = v.base
      BY DEF Type
    <2>2. DoIndexPulse(v) = b
      BY <1>2 DEF DoIndexPulse
    <2> HIDE DEF b
    <2>3. Disk(b) = Disk(v)
      BY <2>1 DEF Disk
    <2>4. Fresh(b)
      BY <1>2, <2>1, <2>3 DEF Fresh
    <2> QED
      BY <2>1, <2>2, <2>4
  <1>3. DoResetIndexPulse(v) \in Type
    BY DEF DoResetIndexPulse, Type
  <1>4. Fresh(DoResetIndexPulse(v))
    BY <1>3, FreshKept DEF DoResetIndexPulse, Type, Disk
  <1> QED
    BY <1>1, <1>2, <1>3, <1>4

-----------------------------------------------------------------------------
(* The invariant.                                                          *)

LEMMA InitFresh == Init => IInv
  <1> DEFINE v == [disk |-> [d \in Drives |-> NoDisk], cyl |-> [d \in Drives |-> 0],
                   drive |-> Drive0, head |-> 0, dir |-> 1, base |-> NoTrack,
                   ready |-> FALSE, tr00 |-> TRUE, index |-> FALSE, wprot |-> FALSE,
                   pulseQ |-> FALSE, resetQ |-> FALSE, aborted |-> FALSE]
  <1>1. v \in Type
    BY DrivesAssumption DEF Type, Heads
  <1>2. New = UpdateSignals(v)
    BY DEF New
  <1> HIDE DEF v
  <1> QED
    BY <1>1, <1>2, UpdateSignalsFresh DEF Init, IInv

LEMMA NextFresh == IInv /\ [Next]_vip => IInv'
  <1> SUFFICES ASSUME vip \in Type, Fresh(vip), [Next]_vip
               PROVE  vip' \in Type /\ Fresh(vip')
    BY DEF IInv
  <1>1. CASE UserActs
    BY <1>1, EjectFresh, InsertFresh, SwitchesFresh DEF UserActs
  <1>2. CASE Flushes
    BY <1>2, FlushFresh DEF Flushes
  <1>3. CASE Selects
    BY <1>3, SelectFresh DEF Selects
  <1>4. CASE Moves
    BY <1>4, MoveFresh DEF Moves
  <1>5. CASE Transfers
    <2>1. PICK pass \in BOOLEAN :
             \/ vip' = Write(vip, pass)
             \/ vip' = Read(vip, pass)
             \/ vip.ready /\ vip' = WriteIdam(vip, pass)
             \/ vip' = NextIdam(vip, ~pass)
      BY <1>5 DEF Transfers
    <2> QED
      BY <2>1, TransferFresh
  <1>6. CASE IndexPulses \/ IndexFalls
    BY <1>6, IndexFresh DEF IndexPulses, IndexFalls
  <1>7. CASE vip' = vip
    BY <1>7
  <1> QED
    BY <1>1, <1>2, <1>3, <1>4, <1>5, <1>6, <1>7 DEF Next

LEMMA AlwaysFresh == Spec => []IInv
  BY InitFresh, NextFresh, PTL DEF Spec

(* The drives' fields keep their types: a head never leaves its cylinders, however
   it is stepped, and a disk never outgrows them (vdrive.c:442-451, vdisk.c:907). *)
THEOREM TypeCorrect == Spec => []TypeOK
  <1>1. IInv => TypeOK
    BY DEF IInv, TypeOK
  <1> QED
    BY <1>1, AlwaysFresh, PTL

(* The cached pointer is the one a fresh look-up would give, and the lines show the
   selected drive (vdrive.c:647-668). *)
THEOREM CacheNeverStale == Spec => []CacheFresh
  <1>1. IInv => CacheFresh
    BY DEF IInv, Fresh, CacheFresh
  <1> QED
    BY <1>1, AlwaysFresh, PTL

(* The event that vdrive_time_to_next_idam takes the time of is queued whenever
   there is a disk in the selected drive (vdrive.c:563-565). *)
THEOREM AlwaysTurning == Spec => []Turning
  <1>1. IInv => Turning
    BY DEF IInv, Fresh, Turning
  <1> QED
    BY <1>1, AlwaysFresh, PTL
===============================================================================
