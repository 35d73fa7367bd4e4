----------------------------- MODULE WD279XProofs -----------------------------
(***************************************************************************)
(* What is proved about the floppy disk controller for any byte size, any  *)
(* sector lengths, any drive and any commands: a command under way has its *)
(* next step queued, the host is told of its end and of each byte, only a  *)
(* write command writes the disk, and no byte of a sector is lost without  *)
(* LOST DATA.                                                              *)
(***************************************************************************)
EXTENDS WD279X, TLAPS

ReadStates == {"read_sector_1", "read_sector_2", "read_sector_3"}
WriteStates == {"write_sector_1", "write_sector_2", "write_sector_3", "write_sector_4",
                "write_sector_5", "write_sector_6"}
TrackStates == {"write_track_2", "write_track_2b", "write_track_3"}

(* What command the state machine is in the middle of, by its state. *)
Stage(s, c) ==
    /\ s \in {"type2_1", "type2_2"} \union ReadStates \union WriteStates => IsType2(c)
    /\ s \in WriteStates => WriteBit(c)
    /\ s = "type3_1" => IsType3(c)
    /\ s \in TrackStates => c \div 16 = 15

(* States that take a byte from those left without asking whether there is one. *)
Needy == {"read_sector_1", "write_sector_1", "write_sector_2", "write_sector_3",
          "write_sector_4", "write_sector_5"}

(* The sector is one whose bytes are accounted for. *)
Counted(f) ==
    ~f.meddled /\ IsType2(f.acc) /\ ~Bit(f.acc, 4) /\ LOST_DATA \notin f.sr

Asked(f) == IF DRQ \in f.sr THEN 1 ELSE 0

(* Bytes left, requests answered and the one that is open make up the sector; a
   write asks for its first byte before it takes one from those left. *)
Account(f, s) ==
    Counted(f) =>
        /\ s \in {"type2_1", "type2_2", "read_sector_1", "write_sector_1"} =>
              f.got = 0 /\ DRQ \notin f.sr
        /\ s \in ReadStates \union WriteStates => f.due \in Lengths
        /\ s \in {"read_sector_1", "write_sector_1"} => f.left = f.due
        /\ s = "read_sector_2" => f.left + f.got + Asked(f) = f.due
        /\ s \in {"read_sector_3", "write_sector_6"} => f.got + Asked(f) = f.due
        /\ s \in {"write_sector_2", "write_sector_3", "write_sector_4", "write_sector_5"} =>
              f.left + f.got + Asked(f) = f.due + 1

(* What holds before the state machine goes to state s, or is in it. *)
Before(f, s) ==
    /\ s \in States \ {"accept_command"}
    /\ ~f.meddled => Stage(s, f.acc)
    /\ s \in Needy => f.left > 0
    /\ Account(f, s)

(* A command is under way. *)
Under(f) ==
    /\ f.acc # NoCommand
    /\ f.t1 <=> IsType1(f.acc)
    /\ ~f.meddled => f.cmd = f.acc
    /\ IsType2(f.acc) \/ IsWriting(f.acc) => (DRQ \in f.sr <=> f.drq)

Writing(f) ==
    ~f.meddled /\ f.call \in {"write", "write_idam"} => f.acc # NoCommand /\ IsWriting(f.acc)

(* The inductive invariant: besides the properties, which state may be queued for
   which command, and the account of the sector that is being transferred. *)
FdcInv(f) ==
    /\ f \in Type
    /\ f.q => BUSY \in f.sr /\ Before(f, f.st)
    /\ BUSY \in f.sr =>
          Under(f) /\ (f.q \/ f.iIdx \/ f.meddled \/ IsReadTrack(f.acc))
    /\ BUSY \notin f.sr => /\ f.due = 0 /\ f.got = 0
                           /\ f.acc # NoCommand => f.intrq
    /\ Writing(f)

Inv == FdcInv(fdc) /\ (BusyCommands = {} => ~fdc.meddled)

-----------------------------------------------------------------------------
(* The primitives the handlers are made of.                                *)

(* What all of them leave alone. *)
Same(f, g) ==
    /\ g.acc = f.acc /\ g.meddled = f.meddled /\ g.cmd = f.cmd /\ g.t1 = f.t1
    /\ g.got = f.got /\ g.iIdx = f.iIdx

(* A handler is at work: its event is off the queue, and its command goes on. *)
Mid(f) ==
    /\ f \in Type /\ ~f.q /\ BUSY \in f.sr
    /\ Under(f) /\ Writing(f)

(* The handler, or the acceptance of a command, is through. *)
Done(f, g) == FdcInv(g) /\ g.meddled = f.meddled

LEMMA EndInv ==
    ASSUME NEW f, Mid(f)
    PROVE  Done(f, End(f)) /\ End(f).sr = f.sr \ {BUSY}
  <1> DEFINE g == End(f)
  <1>1. g \in Type
    <2>1. f \in Type /\ f.sr \ {BUSY} \in SUBSET Bits /\ "accept_command" \in States
      BY DEF Mid, Type, States
    <2> QED
      BY ZenonT(30), <2>1 DEF End, Type
  <1>2. /\ g.q = f.q /\ g.sr = f.sr \ {BUSY} /\ g.intrq = TRUE /\ g.due = 0 /\ g.got = 0
        /\ g.call = f.call /\ g.acc = f.acc /\ g.meddled = f.meddled
        /\ g.cmd = f.cmd /\ g.t1 = f.t1 /\ g.iIdx = f.iIdx
    BY DEF Mid, End, Type
  <1> HIDE DEF g
  <1>4. BUSY \notin g.sr /\ ~g.q
    BY <1>2 DEF Mid
  <1>5. Writing(g)
    BY <1>2 DEF Mid, Writing
  <1>6. FdcInv(g)
    BY <1>1, <1>2, <1>4, <1>5 DEF FdcInv
  <1> QED
    BY <1>2, <1>6 DEF Done, g

LEMMA GotoInv ==
    ASSUME NEW f, Mid(f), NEW s, Before(f, s)
    PROVE  Done(f, Goto(f, s))
  <1> DEFINE g == Goto(f, s)
  <1>1. g \in Type
    <2>1. f \in Type /\ s \in States
      BY DEF Mid, Before
    <2> QED
      BY ZenonT(30), <2>1 DEF Goto, Type
  <1>2. /\ g.q = TRUE /\ g.st = s /\ g.sr = f.sr /\ g.due = f.due /\ g.got = f.got
        /\ g.call = f.call /\ g.acc = f.acc /\ g.meddled = f.meddled /\ g.left = f.left
        /\ g.cmd = f.cmd /\ g.t1 = f.t1 /\ g.iIdx = f.iIdx /\ g.drq = f.drq
    BY DEF Mid, Goto, Type
  <1> HIDE DEF g
  <1>3. Before(g, s)
    BY <1>2 DEF Before, Account, Counted, Asked
  <1>4. Under(g) /\ Writing(g)
    BY <1>2 DEF Mid, Under, Writing
  <1>5. FdcInv(g)
    BY <1>1, <1>2, <1>3, <1>4 DEF Mid, FdcInv
  <1> QED
    BY <1>2, <1>5 DEF Done, g

(* Bits of the status other than BUSY and DRQ come and go. *)
LEMMA BitsMid ==
    ASSUME NEW f, Mid(f), NEW bits \in SUBSET (Bits \ {BUSY, DRQ})
    PROVE  /\ Mid(Set(f, bits)) /\ Same(f, Set(f, bits))
           /\ Mid(Clear(f, bits)) /\ Same(f, Clear(f, bits))
           /\ Set(f, bits).sr = f.sr \union bits /\ Clear(f, bits).sr = f.sr \ bits
           /\ Set(f, bits).left = f.left /\ Set(f, bits).due = f.due
           /\ Set(f, bits).dat = f.dat /\ Clear(f, bits).dat = f.dat
           /\ Set(f, bits).tmp = f.tmp /\ Set(f, bits).wp = f.wp
  <1> DEFINE g == Set(f, bits)
             h == Clear(f, bits)
  <1>1. g \in Type /\ h \in Type
    BY DEF Mid, Set, Clear, Type
  <1>2. g.sr = f.sr \union bits /\ h.sr = f.sr \ bits
    BY DEF Mid, Set, Clear, Type
  <1>3. /\ Same(f, g) /\ g.q = f.q /\ g.drq = f.drq /\ g.call = f.call
        /\ g.left = f.left /\ g.due = f.due /\ g.dat = f.dat /\ g.tmp = f.tmp
        /\ g.wp = f.wp
    BY DEF Mid, Set, Type, Same
  <1>4. Same(f, h) /\ h.q = f.q /\ h.drq = f.drq /\ h.call = f.call /\ h.dat = f.dat
    BY DEF Mid, Clear, Type, Same
  <1> HIDE DEF g, h
  <1>5. BUSY \in g.sr /\ BUSY \in h.sr
    BY <1>2 DEF Mid
  <1>6. (DRQ \in g.sr <=> DRQ \in f.sr) /\ (DRQ \in h.sr <=> DRQ \in f.sr)
    BY <1>2 DEF Mid
  <1>7. Mid(g)
    BY <1>1, <1>3, <1>5, <1>6 DEF Mid, Same, Under, Writing
  <1>8. Mid(h)
    BY <1>1, <1>4, <1>5, <1>6 DEF Mid, Same, Under, Writing
  <1> QED
    BY <1>2, <1>3, <1>4, <1>7, <1>8 DEF g, h

LEMMA SetDrqMid ==
    ASSUME NEW f, Mid(f)
    PROVE  LET g == SetDrq(f)
           IN  /\ Mid(g) /\ Same(f, g) /\ g.sr = f.sr \union {DRQ}
               /\ g.left = f.left /\ g.due = f.due /\ g.dat = f.dat /\ g.wp = f.wp
  <1> DEFINE g == SetDrq(f)
  <1>1. g \in Type
    BY ZenonT(30) DEF Mid, SetDrq, Type, Bits
  <1>2. /\ Same(f, g) /\ g.q = f.q /\ g.drq = TRUE /\ g.call = f.call
        /\ g.sr = f.sr \union {DRQ}
        /\ g.left = f.left /\ g.due = f.due /\ g.dat = f.dat /\ g.wp = f.wp
    BY DEF Mid, SetDrq, Type, Same
  <1> HIDE DEF g
  <1>3. Mid(g)
    BY <1>1, <1>2 DEF Mid, Same, Under, Writing
  <1> QED
    BY <1>2, <1>3 DEF g

LEMMA ResetDrqMid ==
    ASSUME NEW f, Mid(f)
    PROVE  LET g == ResetDrq(f)
           IN  /\ Mid(g) /\ Same(f, g) /\ g.sr = f.sr \ {DRQ}
               /\ g.left = f.left /\ g.due = f.due
  <1> DEFINE g == ResetDrq(f)
  <1>1. g \in Type
    BY ZenonT(30) DEF Mid, ResetDrq, Type, Bits
  <1>2. /\ Same(f, g) /\ g.q = f.q /\ g.drq = FALSE /\ g.call = f.call
        /\ g.sr = f.sr \ {DRQ} /\ g.left = f.left /\ g.due = f.due
    BY DEF Mid, ResetDrq, Type, Same
  <1> HIDE DEF g
  <1>3. BUSY \in g.sr /\ DRQ \notin g.sr
    BY <1>2 DEF Mid, BUSY, DRQ
  <1>4. Mid(g)
    BY <1>1, <1>2, <1>3 DEF Mid, Same, Under, Writing
  <1> QED
    BY <1>2, <1>4 DEF g

(* An index pulse takes no event off a queue that is empty, and a controller that
   writes to the drive has to be writing. *)
LEMMA PulseType ==
    ASSUME NEW f \in Type, NEW level \in BOOLEAN
    PROVE  LET g == IndexPulse(f, level)
           IN  /\ g \in Type /\ Same(f, g) /\ g.sr = f.sr /\ g.drq = f.drq
               /\ g.st = f.st /\ g.call = f.call /\ g.left = f.left /\ g.due = f.due
               /\ g.dat = f.dat /\ g.q = (f.q /\ ~(~f.index /\ level /\ f.iIdx))
               /\ f.intrq => g.intrq
  <1> DEFINE holes == IF f.holes > HoleLimit THEN f.holes ELSE f.holes + 1
             q == f.q /\ ~f.iIdx
             intrq == f.intrq \/ f.iIdx
             g == [[f EXCEPT !.index = TRUE, !.holes = holes] EXCEPT !.q = q, !.intrq = intrq]
             low == [f EXCEPT !.index = FALSE]
  <1>1. holes \in 0..(HoleLimit + 1)
    BY LengthsAssumption DEF Type
  <1>2. q \in BOOLEAN /\ intrq \in BOOLEAN
    BY DEF Type
  <1>3. IndexPulse(f, level) = IF f.index = level THEN f ELSE IF ~level THEN low ELSE g
    BY DEF IndexPulse, Type
  <1>4. f.index \in BOOLEAN /\ f.q \in BOOLEAN /\ f.iIdx \in BOOLEAN
    BY DEF Type
  <1>5. /\ low \in Type
        /\ Same(f, low) /\ low.sr = f.sr /\ low.drq = f.drq
        /\ low.st = f.st /\ low.call = f.call /\ low.left = f.left /\ low.due = f.due
        /\ low.dat = f.dat /\ low.q = f.q /\ low.intrq = f.intrq
    <2>1. low \in Type
      BY ZenonT(30) DEF Type
    <2>2. Same(f, low)
      BY DEF Type, Same
    <2>3. low.sr = f.sr /\ low.st = f.st /\ low.call = f.call /\ low.left = f.left
            /\ low.due = f.due /\ low.dat = f.dat
      BY DEF Type
    <2>4. low.drq = f.drq /\ low.q = f.q /\ low.intrq = f.intrq
      BY DEF Type
    <2> QED
      BY <2>1, <2>2, <2>3, <2>4
  <1> HIDE DEF holes, q, intrq
  <1>6. g \in Type
    BY ZenonT(30), <1>1, <1>2 DEF Type
  <1>7. /\ Same(f, g) /\ g.sr = f.sr /\ g.drq = f.drq
        /\ g.st = f.st /\ g.call = f.call /\ g.left = f.left /\ g.due = f.due
        /\ g.dat = f.dat /\ g.q = q /\ g.intrq = intrq
    BY DEF Type, Same
  <1> HIDE DEF g, low
  <1>8. CASE f.index = level
    BY <1>3, <1>4, <1>8 DEF Same
  <1>9. CASE f.index # level /\ ~level
    BY <1>3, <1>4, <1>5, <1>9
  <1>10. CASE f.index # level /\ level
    <2>1. q = (f.q /\ ~(~f.index /\ level /\ f.iIdx)) /\ (f.intrq => intrq)
      BY <1>4, <1>10 DEF q, intrq
    <2> QED
      BY <1>3, <1>6, <1>7, <1>10, <2>1
  <1> QED
    BY <1>8, <1>9, <1>10

Ops == {"none", "sso", "step", "idam", "read", "skip", "write", "write_idam"}

LEMMA DriveMid ==
    ASSUME NEW f, Mid(f), NEW op \in Ops, NEW r \in AllResponses,
           ~f.meddled /\ op \in {"write", "write_idam"} => IsWriting(f.acc)
    PROVE  LET g == Drive(f, op, r)
           IN  /\ Mid(g) /\ Same(f, g) /\ g.sr = f.sr
               /\ g.left = f.left /\ g.due = f.due /\ g.dat = f.dat
  <1> DEFINE h == IF r.idx THEN IndexPulse(f, TRUE) ELSE f
             g == Drive(f, op, r)
  <1>1. h \in Type /\ Same(f, h) /\ h.sr = f.sr /\ h.drq = f.drq /\ h.left = f.left
           /\ h.due = f.due /\ h.dat = f.dat /\ ~h.q
    <2>1. f \in Type /\ ~f.q
      BY DEF Mid
    <2>2. CASE r.idx
      BY <2>1, <2>2, PulseType
    <2>3. CASE ~r.idx
      BY <2>1, <2>3 DEF Same
    <2> QED
      BY <2>2, <2>3
  <1>2. g = [h EXCEPT !.call = op]
    BY DEF Drive
  <1> HIDE DEF h, g
  <1>3. g \in Type /\ g.call = op /\ g.drq = h.drq /\ ~g.q
    BY <1>1, <1>2 DEF Type, Ops
  <1>4. Same(h, g) /\ g.sr = h.sr /\ g.left = h.left /\ g.due = h.due /\ g.dat = h.dat
    BY <1>1, <1>2 DEF Type, Same
  <1>5. Same(f, g) /\ g.sr = f.sr /\ g.drq = f.drq
    BY <1>1, <1>3, <1>4 DEF Same
  <1>6. Mid(g)
    BY <1>3, <1>5 DEF Mid, Same, Under, Writing
  <1> QED
    BY <1>1, <1>4, <1>5, <1>6 DEF g

(* Fields that the invariant does not read. *)
LEMMA MidKept ==
    ASSUME NEW f, Mid(f), NEW g \in Type, Same(f, g), g.sr = f.sr, g.drq = f.drq, g.q = f.q,
           g.call = f.call \/ g.call \notin {"write", "write_idam"}
    PROVE  Mid(g)
  BY DEF Mid, Same, Under, Writing

LEMMA HolesMid ==
    ASSUME NEW f, Mid(f)
    PROVE  LET g == [f EXCEPT !.holes = 0]
           IN  /\ Mid(g) /\ Same(f, g) /\ g.sr = f.sr /\ g.left = f.left /\ g.due = f.due
               /\ g.holes = 0
  <1> DEFINE g == [f EXCEPT !.holes = 0]
  <1>1. g \in Type
    BY LengthsAssumption DEF Mid, Type
  <1>2. /\ Same(f, g) /\ g.sr = f.sr /\ g.drq = f.drq /\ g.q = f.q /\ g.call = f.call
        /\ g.left = f.left /\ g.due = f.due /\ g.holes = 0
    BY LengthsAssumption DEF Mid, Type, Same
  <1> HIDE DEF g
  <1>3. Mid(g)
    BY <1>1, <1>2, MidKept
  <1> QED
    BY <1>2, <1>3 DEF g

(* States that ask nothing of the account. *)
LEMMA BeforeFree ==
    ASSUME NEW f, NEW s \in {"type1_1", "verify_track_1", "verify_track_2",
                             "read_address_1", "read_address_2", "read_address_3"}
    PROVE  Before(f, s)
  BY DEF Before, States, Stage, Needy, Account, ReadStates, WriteStates, TrackStates

LEMMA FreeInv ==
    ASSUME NEW f, Mid(f),
           NEW s \in {"type1_1", "verify_track_1", "verify_track_2",
                      "read_address_1", "read_address_2", "read_address_3"}
    PROVE  Done(f, Goto(f, s))
  BY BeforeFree, GotoInv

-----------------------------------------------------------------------------
(* Type 1: the head moves, and perhaps looks where it is.                  *)

LEMMA Verify1Inv ==
    ASSUME NEW f, Mid(f)
    PROVE  Done(f, Verify1(f))
  <1> DEFINE g == [f EXCEPT !.holes = 0]
  <1>1. Mid(g) /\ Same(f, g)
    BY HolesMid
  <1> HIDE DEF g
  <1>2. Done(g, Goto(g, "verify_track_2"))
    BY <1>1, FreeInv
  <1>3. Done(f, Goto(g, "verify_track_2"))
    BY <1>1, <1>2 DEF Done, Same
  <1>4. Done(f, End(f))
    BY EndInv
  <1> QED
    BY <1>3, <1>4 DEF Verify1, g

LEMMA Type1_3Inv ==
    ASSUME NEW f, Mid(f), NEW r \in AllResponses
    PROVE  Done(f, Type1_3(f, r))
  <1> DEFINE g == [f EXCEPT !.tr = 0]
             h == [f EXCEPT !.call = "step", !.tr00 = r.tr00, !.wp = r.wp]
  <1>0. r.tr00 \in BOOLEAN /\ r.wp \in BOOLEAN /\ 0 \in Byte
    BY ByteAssumption DEF AllResponses, Byte
  <1>1. g \in Type /\ h \in Type
    <2>1. g \in Type
      BY <1>0 DEF Mid, Type
    <2>2. h \in Type
      BY ZenonT(30), <1>0 DEF Mid, Type
    <2> QED
      BY <2>1, <2>2
  <1>2. /\ Same(f, g) /\ g.sr = f.sr /\ g.drq = f.drq /\ g.q = f.q /\ g.call = f.call
    BY DEF Mid, Type, Same
  <1>3. /\ Same(f, h) /\ h.sr = f.sr /\ h.drq = f.drq /\ h.q = f.q /\ h.call = "step"
    BY DEF Mid, Type, Same
  <1> HIDE DEF g, h
  <1>4. Mid(g) /\ Mid(h)
    BY <1>1, <1>2, <1>3, MidKept
  <1>5. /\ Done(g, Goto(g, "verify_track_1"))
        /\ Done(h, Goto(h, "verify_track_1")) /\ Done(h, Goto(h, "type1_1"))
    BY <1>4, FreeInv
  <1>6. /\ Done(f, Goto(g, "verify_track_1"))
        /\ Done(f, Goto(h, "verify_track_1")) /\ Done(f, Goto(h, "type1_1"))
    BY <1>2, <1>3, <1>5 DEF Done, Same
  <1> QED
    BY <1>6 DEF Type1_3, g, h

LEMMA WrapByte ==
    ASSUME NEW b \in Int
    PROVE  Wrap(b) \in Byte
  BY ByteAssumption DEF Wrap, Byte

LEMMA Type1_2Inv ==
    ASSUME NEW f, Mid(f), NEW r \in AllResponses
    PROVE  Done(f, Type1_2(f, r))
  <1> DEFINE g == [f EXCEPT !.tr = Wrap(@ + f.dir)]
  <1>1. Wrap(f.tr + f.dir) \in Byte
    BY ByteAssumption, WrapByte DEF Mid, Type, Byte
  <1>2. g \in Type
    BY <1>1 DEF Mid, Type
  <1>3. /\ Same(f, g) /\ g.sr = f.sr /\ g.drq = f.drq /\ g.q = f.q /\ g.call = f.call
    BY DEF Mid, Type, Same
  <1> HIDE DEF g
  <1>4. Mid(g)
    BY <1>2, <1>3, MidKept
  <1>5. Done(g, Type1_3(g, r))
    BY <1>4, Type1_3Inv
  <1> QED
    BY <1>3, <1>5 DEF Type1_2, g, Done, Same

LEMMA Type1_1Inv ==
    ASSUME NEW f, Mid(f), NEW r \in AllResponses
    PROVE  Done(f, Type1_1(f, r))
  <1> DEFINE g == [f EXCEPT !.dir = IF f.dat > f.tr THEN 1 ELSE -1]
  <1>1. g \in Type
    BY DEF Mid, Type
  <1>2. /\ Same(f, g) /\ g.sr = f.sr /\ g.drq = f.drq /\ g.q = f.q /\ g.call = f.call
    BY DEF Mid, Type, Same
  <1> HIDE DEF g
  <1>3. Mid(g)
    BY <1>1, <1>2, MidKept
  <1>4. Done(g, Type1_2(g, r))
    BY <1>3, Type1_2Inv
  <1>5. Done(f, Type1_2(g, r))
    BY <1>2, <1>4 DEF Done, Same
  <1> QED
    BY <1>5, Verify1Inv DEF Type1_1, g

(* A search may raise an index pulse, and that is all it does to the controller. *)
LEMMA SearchMid ==
    ASSUME NEW f, Mid(f), NEW r \in AllResponses
    PROVE  /\ Mid(Search(f, r)) /\ Same(f, Search(f, r)) /\ Search(f, r).sr = f.sr
           /\ Search(f, r).left = f.left /\ Search(f, r).due = f.due
           /\ Mid(Found(f, r)) /\ Same(f, Found(f, r)) /\ Found(f, r).sr = f.sr
           /\ Found(f, r).left = f.left /\ Found(f, r).due = f.due
  <1> DEFINE idx == r.idx /\ r.id = NoID
             s == [r EXCEPT !.idx = idx]
  <1>1. idx \in BOOLEAN
    BY DEF AllResponses
  <1>2. s = [r EXCEPT !.idx = @ /\ r.id = NoID]
    BY DEF AllResponses
  <1> HIDE DEF idx
  <1>3. s \in AllResponses
    BY <1>1 DEF AllResponses
  <1>4. Search(f, r) = Drive(f, "idam", s) /\ Found(f, r) = Drive(f, "idam", r)
    BY <1>2 DEF Search, Found
  <1> HIDE DEF s
  <1>5. "idam" \in Ops /\ "idam" \notin {"write", "write_idam"}
    BY DEF Ops
  <1>6. /\ Mid(Drive(f, "idam", s)) /\ Same(f, Drive(f, "idam", s))
        /\ Drive(f, "idam", s).sr = f.sr /\ Drive(f, "idam", s).left = f.left
        /\ Drive(f, "idam", s).due = f.due
    BY <1>3, <1>5, DriveMid
  <1>7. /\ Mid(Drive(f, "idam", r)) /\ Same(f, Drive(f, "idam", r))
        /\ Drive(f, "idam", r).sr = f.sr /\ Drive(f, "idam", r).left = f.left
        /\ Drive(f, "idam", r).due = f.due
    BY <1>5, DriveMid
  <1> QED
    BY <1>4, <1>6, <1>7

LEMMA Verify2Inv ==
    ASSUME NEW f0, Mid(f0), NEW r \in AllResponses
    PROVE  Done(f0, Verify2(f0, r))
  <1> DEFINE f == Search(f0, r)
             g == Found(f, r)
             bad == Set(g, {CRC_ERROR})
             good == Clear(g, {CRC_ERROR})
             lost == Set(f, {SEEK_ERROR})
  <1>1. Mid(f) /\ Same(f0, f) /\ Mid(g) /\ Same(f, g)
    BY SearchMid
  <1> HIDE DEF f, g
  <1>2. /\ {CRC_ERROR} \in SUBSET (Bits \ {BUSY, DRQ})
        /\ {SEEK_ERROR} \in SUBSET (Bits \ {BUSY, DRQ})
    BY DEF Bits, CRC_ERROR, SEEK_ERROR, RNF, BUSY, DRQ
  <1>3. Mid(bad) /\ Mid(good) /\ Same(g, bad) /\ Same(g, good) /\ Mid(lost) /\ Same(f, lost)
    BY <1>1, <1>2, BitsMid
  <1> HIDE DEF bad, good, lost
  <1>4. /\ Done(lost, End(lost)) /\ Done(good, End(good))
        /\ Done(f, Goto(f, "verify_track_2")) /\ Done(g, Goto(g, "verify_track_2"))
        /\ Done(bad, Goto(bad, "verify_track_2"))
    BY <1>1, <1>3, EndInv, FreeInv
  <1>5. /\ Done(f0, End(lost)) /\ Done(f0, End(good))
        /\ Done(f0, Goto(f, "verify_track_2")) /\ Done(f0, Goto(g, "verify_track_2"))
        /\ Done(f0, Goto(bad, "verify_track_2"))
    BY <1>1, <1>3, <1>4 DEF Done, Same
  <1> QED
    BY <1>5 DEF Verify2, f, g, bad, good, lost

-----------------------------------------------------------------------------
(* Type 2: sectors are searched for, and their bytes accounted for.        *)

LEMMA BeforeKept ==
    ASSUME NEW f, NEW s, Before(f, s), NEW g, Same(f, g), g.left = f.left, g.due = f.due,
           LOST_DATA \in f.sr => LOST_DATA \in g.sr,
           LOST_DATA \notin g.sr => (DRQ \in g.sr <=> DRQ \in f.sr)
    PROVE  Before(g, s)
  <1>1. Counted(g) => Counted(f) /\ Asked(g) = Asked(f)
    BY DEF Counted, Asked, Same
  <1>2. Account(g, s)
    BY <1>1 DEF Before, Account, Same, Counted
  <1> QED
    BY <1>2 DEF Before, Same

(* A sector is about to be searched for. *)
Searching(f) == Before(f, "type2_2")

LEMMA SearchingBefore ==
    ASSUME NEW f
    PROVE  Before(f, "type2_1") <=> Before(f, "type2_2")
  BY DEF Before, States, Stage, Needy, Account, ReadStates, WriteStates, TrackStates

LEMMA Type2_1Inv ==
    ASSUME NEW f, Mid(f), Searching(f)
    PROVE  Done(f, Type2_1(f))
  <1> DEFINE g == [f EXCEPT !.holes = 0]
             p == Set(f, {WRITE_PROTECT})
  <1>1. Mid(g) /\ Same(f, g) /\ g.sr = f.sr /\ g.left = f.left /\ g.due = f.due
    BY HolesMid
  <1> HIDE DEF g
  <1>2. Before(g, "type2_2")
    BY <1>1, BeforeKept DEF Searching
  <1>3. {WRITE_PROTECT} \in SUBSET (Bits \ {BUSY, DRQ})
    BY DEF Bits, WRITE_PROTECT, BUSY, DRQ
  <1>4. Mid(p) /\ Same(f, p)
    BY <1>3, BitsMid
  <1> HIDE DEF p
  <1>5. Done(g, Goto(g, "type2_2")) /\ Done(p, End(p))
    BY <1>1, <1>2, <1>4, GotoInv, EndInv
  <1>6. Done(f, Goto(g, "type2_2")) /\ Done(f, End(p))
    BY <1>1, <1>4, <1>5 DEF Done, Same
  <1> QED
    BY <1>6 DEF Type2_1, g, p

LEMMA Type2_2Inv ==
    ASSUME NEW f0, Mid(f0), Searching(f0), NEW r \in AllResponses
    PROVE  Done(f0, Type2_2(f0, r))
  <1> DEFINE f == Search(f0, r)
             g == Found(f, r)
             h == [g EXCEPT !.left = r.id.len, !.due = r.id.len]
             d == [h EXCEPT !.dam = r.dam]
             bad == Set(h, {CRC_ERROR})
             lost == Set(f, {RNF})
  <1>1. /\ Mid(f) /\ Same(f0, f) /\ f.sr = f0.sr /\ f.left = f0.left /\ f.due = f0.due
        /\ Mid(g) /\ Same(f, g) /\ g.sr = f.sr /\ g.left = f.left /\ g.due = f.due
    BY SearchMid
  <1>2. Before(f, "type2_2") /\ Before(g, "type2_2")
    <2>1. Before(f, "type2_2")
      BY <1>1, BeforeKept DEF Searching
    <2> QED
      BY <1>1, <2>1, BeforeKept
  <1> HIDE DEF f, g
  <1>3. /\ {CRC_ERROR} \in SUBSET (Bits \ {BUSY, DRQ})
        /\ {RNF} \in SUBSET (Bits \ {BUSY, DRQ})
    BY DEF Bits, CRC_ERROR, RNF, BUSY, DRQ
  <1>4. Mid(lost) /\ Same(f, lost)
    BY <1>1, <1>3, BitsMid
  <1> HIDE DEF lost
  <1>5. /\ Done(lost, End(lost)) /\ Done(f, Goto(f, "type2_2")) /\ Done(g, Goto(g, "type2_2"))
    BY <1>1, <1>2, <1>4, EndInv, GotoInv
  <1>6. /\ Done(f0, End(lost)) /\ Done(f0, Goto(f, "type2_2")) /\ Done(f0, Goto(g, "type2_2"))
    BY <1>1, <1>4, <1>5 DEF Done, Same
  <1>7. CASE f.holes >= HoleLimit \/ r.id = NoID \/ ~Matches(f, r.id)
    BY <1>6, <1>7 DEF Type2_2, f, g, lost
  <1>8. CASE r.id # NoID
    <2>1. r.id.len \in Lengths /\ r.id.len \in Nat \ {0} /\ r.dam \in {"none", "data", "deleted"}
      BY <1>8, LengthsAssumption DEF AllResponses, IDs
    <2>2. h \in Type
      BY ZenonT(30), <1>1, <2>1 DEF Mid, Type
    <2>3. /\ Same(g, h) /\ h.sr = g.sr /\ h.drq = g.drq /\ h.q = g.q /\ h.call = g.call
          /\ h.left = r.id.len /\ h.due = r.id.len
      BY <1>1 DEF Mid, Type, Same
    <2> HIDE DEF h
    <2>4. Mid(h)
      BY <1>1, <2>2, <2>3, MidKept
    <2>5. d \in Type
      BY <2>1, <2>2 DEF Type
    <2>6. /\ Same(h, d) /\ d.sr = h.sr /\ d.drq = h.drq /\ d.q = h.q /\ d.call = h.call
          /\ d.left = h.left /\ d.due = h.due
      BY <2>2 DEF Type, Same
    <2> HIDE DEF d
    <2>7. Mid(d)
      BY <2>4, <2>5, <2>6, MidKept
    <2>8. /\ Mid(bad) /\ Same(h, bad) /\ bad.sr = h.sr \union {CRC_ERROR}
          /\ bad.left = h.left /\ bad.due = h.due
      BY <1>3, <2>4, BitsMid
    <2> HIDE DEF bad
    <2>9. Before(h, "type2_2")
      BY <1>2, <2>1, <2>3
      DEF Before, States, Needy, Account, Counted, ReadStates, WriteStates, Same
    <2>10. Before(bad, "type2_2")
      BY <2>8, <2>9, BeforeKept DEF CRC_ERROR, LOST_DATA, DRQ
    <2>11. Before(d, "type2_2") /\ Before(d, "read_sector_1")
      <3>1. Before(d, "type2_2")
        BY <2>6, <2>9, BeforeKept
      <3> QED
        BY <3>1, <2>1, <2>3, <2>6
        DEF Before, States, Stage, Needy, Account, ReadStates, WriteStates, TrackStates
    <2>12. ASSUME WriteBit(f.cmd)
           PROVE  Before(h, "write_sector_1")
      <3>1. ~h.meddled => WriteBit(h.acc)
        BY <1>1, <2>3, <2>12 DEF Mid, Under, Same
      <3> QED
        BY <3>1, <2>1, <2>3, <2>9
        DEF Before, States, Stage, Needy, Account, ReadStates, WriteStates, TrackStates
    <2>13. /\ Done(bad, Goto(bad, "type2_2")) /\ Done(d, Goto(d, "type2_2"))
           /\ Done(d, Goto(d, "read_sector_1"))
           /\ WriteBit(f.cmd) => Done(h, Goto(h, "write_sector_1"))
      BY <2>4, <2>7, <2>8, <2>10, <2>11, <2>12, GotoInv
    <2>14. /\ Done(f0, Goto(bad, "type2_2")) /\ Done(f0, Goto(d, "type2_2"))
           /\ Done(f0, Goto(d, "read_sector_1"))
           /\ WriteBit(f.cmd) => Done(f0, Goto(h, "write_sector_1"))
      BY <1>1, <2>3, <2>6, <2>8, <2>13 DEF Done, Same
    <2>15. Type2_2(f0, r) =
             IF f.holes >= HoleLimit THEN End(lost)
             ELSE IF r.id = NoID THEN Goto(f, "type2_2")
             ELSE IF ~Matches(f, r.id) THEN Goto(g, "type2_2")
             ELSE IF ~r.id.ok THEN Goto(bad, "type2_2")
             ELSE IF WriteBit(f.cmd) THEN Goto(h, "write_sector_1")
             ELSE Goto(d, IF r.dam = "none" THEN "type2_2" ELSE "read_sector_1")
      BY DEF Type2_2, f, g, h, d, bad, lost
    <2> QED
      BY <1>6, <2>14, <2>15
  <1> QED
    BY <1>7, <1>8

(* A byte is offered to the host; of a sector, one of those accounted for. *)
LEMMA OfferInv ==
    ASSUME NEW f, Mid(f), NEW r \in AllResponses, f.left > 0,
           NEW s \in {"read_sector_2", "read_address_3"},
           s = "read_sector_2" => /\ ~f.meddled => IsType2(f.acc)
                                  /\ Counted(f) => f.due \in Lengths /\ f.left + f.got = f.due
    PROVE  Done(f, Offer(f, r, s))
  <1> DEFINE g == Drive(f, "read", r)
             h == [g EXCEPT !.dat = r.byte, !.left = @ - 1]
             i == SetDrq(h)
  <1>1. "read" \in Ops /\ "read" \notin {"write", "write_idam"}
    BY DEF Ops
  <1>2. Mid(g) /\ Same(f, g) /\ g.sr = f.sr /\ g.left = f.left /\ g.due = f.due
    BY <1>1, DriveMid
  <1> HIDE DEF g
  <1>3. r.byte \in Byte /\ g.left - 1 \in Nat
    BY <1>2 DEF AllResponses, Mid, Type
  <1>4. h \in Type
    BY ZenonT(30), <1>2, <1>3 DEF Mid, Type
  <1>5. /\ Same(g, h) /\ h.sr = g.sr /\ h.drq = g.drq /\ h.q = g.q /\ h.call = g.call
        /\ h.left = g.left - 1 /\ h.due = g.due
    BY <1>2 DEF Mid, Type, Same
  <1> HIDE DEF h
  <1>6. Mid(h)
    BY <1>2, <1>4, <1>5, MidKept
  <1>7. Mid(i) /\ Same(h, i) /\ i.sr = h.sr \union {DRQ} /\ i.left = h.left /\ i.due = h.due
    BY <1>6, SetDrqMid
  <1> HIDE DEF i
  <1>8. CASE s = "read_sector_2"
    <2>1. Asked(i) = 1 /\ (Counted(i) => Counted(f))
      BY <1>2, <1>5, <1>7 DEF Asked, Counted, Same, LOST_DATA, DRQ
    <2>2. Counted(i) => i.due \in Lengths /\ i.left + i.got + Asked(i) = i.due
      <3>1. f.left \in Nat /\ f.got \in Nat
        BY DEF Mid, Type
      <3> QED
        BY <1>2, <1>5, <1>7, <1>8, <2>1, <3>1 DEF Same
    <2>3. Before(i, s)
      BY <1>2, <1>5, <1>7, <1>8, <2>2
      DEF Before, States, Stage, Needy, Account, ReadStates, WriteStates, TrackStates, Same
    <2>4. Done(i, Goto(i, s))
      BY <1>7, <2>3, GotoInv
    <2> QED
      BY <1>2, <1>5, <1>7, <2>4 DEF Offer, Done, Same, g, h, i
  <1>9. CASE s = "read_address_3"
    <2>1. Done(i, Goto(i, s))
      BY <1>7, <1>9, FreeInv
    <2> QED
      BY <1>2, <1>5, <1>7, <2>1 DEF Offer, Done, Same, g, h, i
  <1> QED
    BY <1>8, <1>9

LEMMA ReadSector1Inv ==
    ASSUME NEW f, Mid(f), Before(f, "read_sector_1"), NEW r \in AllResponses
    PROVE  Done(f, ReadSector1(f, r))
  <1> DEFINE g == IF f.dam = "deleted" THEN Set(f, {RECORD_TYPE}) ELSE f
  <1>1. {RECORD_TYPE} \in SUBSET (Bits \ {BUSY, DRQ})
    BY DEF Bits, RECORD_TYPE, BUSY, DRQ
  <1>2. /\ Mid(g) /\ Same(f, g) /\ g.left = f.left /\ g.due = f.due
        /\ LOST_DATA \in f.sr => LOST_DATA \in g.sr
    BY <1>1, BitsMid DEF Same
  <1> HIDE DEF g
  <1>3. g.left > 0
    BY <1>2 DEF Before, Needy
  <1>4. ~g.meddled => IsType2(g.acc)
    BY <1>2 DEF Before, Stage, ReadStates, Same
  <1>5. Counted(g) => g.due \in Lengths /\ g.left + g.got = g.due
    <2>1. Counted(g) => Counted(f)
      BY <1>2 DEF Counted, Same
    <2>2. f.left \in Nat
      BY DEF Mid, Type
    <2>3. Counted(f) => f.got = 0 /\ f.left = f.due /\ f.due \in Lengths
      BY DEF Before, Account, ReadStates
    <2> QED
      BY <1>2, <2>1, <2>2, <2>3 DEF Same
  <1>6. Done(g, Offer(g, r, "read_sector_2"))
    BY <1>2, <1>3, <1>4, <1>5, OfferInv
  <1> QED
    BY <1>2, <1>6 DEF ReadSector1, Done, Same, g

LEMMA ReadSector2Inv ==
    ASSUME NEW f, Mid(f), Before(f, "read_sector_2"), NEW r \in AllResponses
    PROVE  Done(f, ReadSector2(f, r))
  <1> DEFINE g == IF DRQ \in f.sr THEN Set(f, {LOST_DATA}) ELSE f
             h == Drive(f, "read", r)
  <1>1. f.left \in Nat /\ f.got \in Nat
    BY DEF Mid, Type
  <1>2. CASE f.left > 0
    <2>1. {LOST_DATA} \in SUBSET (Bits \ {BUSY, DRQ})
      BY DEF Bits, LOST_DATA, BUSY, DRQ
    <2>2. /\ Mid(g) /\ Same(f, g) /\ g.left = f.left /\ g.due = f.due
          /\ LOST_DATA \in f.sr => LOST_DATA \in g.sr
          /\ DRQ \in f.sr => LOST_DATA \in g.sr
      BY <2>1, BitsMid DEF Same
    <2> HIDE DEF g
    <2>3. ~g.meddled => IsType2(g.acc)
      BY <2>2 DEF Before, Stage, ReadStates, Same
    <2>4. Counted(g) => g.due \in Lengths /\ g.left + g.got = g.due
      <3>1. Counted(g) => Counted(f) /\ Asked(f) = 0
        BY <2>2 DEF Counted, Asked, Same
      <3> QED
        BY <1>1, <2>2, <3>1, LengthsAssumption DEF Before, Account, ReadStates, Same
    <2>5. Done(g, Offer(g, r, "read_sector_2"))
      BY <1>2, <2>2, <2>3, <2>4, OfferInv
    <2> QED
      BY <1>2, <2>2, <2>5 DEF ReadSector2, Done, Same, g
  <1>3. CASE ~(f.left > 0)
    <2>1. "read" \in Ops /\ "read" \notin {"write", "write_idam"}
      BY DEF Ops
    <2>2. Mid(h) /\ Same(f, h) /\ h.sr = f.sr /\ h.left = f.left /\ h.due = f.due
      BY <2>1, DriveMid
    <2> HIDE DEF h
    <2>3. Before(h, "read_sector_2")
      BY <2>2, BeforeKept
    <2>4. h.left = 0 /\ h.got \in Nat /\ Asked(h) \in Nat
      BY <1>1, <1>3, <2>2 DEF Same, Asked
    <2>5. Before(h, "read_sector_3")
      BY <2>3, <2>4
      DEF Before, States, Stage, Needy, Account, ReadStates, WriteStates, TrackStates
    <2>6. Done(h, Goto(h, "read_sector_3"))
      BY <2>2, <2>5, GotoInv
    <2> QED
      BY <1>3, <2>2, <2>6 DEF ReadSector2, Done, Same, h
  <1> QED
    BY <1>2, <1>3

(* The next of several sectors is not accounted for. *)
LEMMA NextSectorInv ==
    ASSUME NEW f, Mid(f), ~f.meddled => IsType2(f.acc)
    PROVE  Done(f, NextSector(f))
  <1> DEFINE g == [f EXCEPT !.sec = Wrap(@ + 1)]
  <1>1. CASE Bit(f.cmd, 4)
    <2>1. Wrap(f.sec + 1) \in Byte
      BY ByteAssumption, WrapByte DEF Mid, Type, Byte
    <2>2. g \in Type
      BY <2>1 DEF Mid, Type
    <2>3. Same(f, g) /\ g.sr = f.sr /\ g.drq = f.drq /\ g.q = f.q /\ g.call = f.call
      BY DEF Mid, Type, Same
    <2> HIDE DEF g
    <2>4. Mid(g)
      BY <2>2, <2>3, MidKept
    <2>5. ~Counted(g)
      BY <1>1, <2>3 DEF Mid, Under, Counted, Same
    <2>6. Searching(g)
      BY <2>3, <2>5
      DEF Searching, Before, States, Stage, Needy, Account, ReadStates, WriteStates,
          TrackStates, Same
    <2>7. Done(g, Type2_1(g))
      BY <2>4, <2>6, Type2_1Inv
    <2> QED
      BY <1>1, <2>3, <2>7 DEF NextSector, Done, Same, g
  <1>2. CASE ~Bit(f.cmd, 4)
    BY <1>2, EndInv DEF NextSector
  <1> QED
    BY <1>1, <1>2

LEMMA ReadSector3Inv ==
    ASSUME NEW f, Mid(f), Before(f, "read_sector_3"), NEW r \in AllResponses
    PROVE  Done(f, ReadSector3(f, r))
  <1> DEFINE g == IF r.ok THEN f ELSE Set(f, {CRC_ERROR})
  <1>1. {CRC_ERROR} \in SUBSET (Bits \ {BUSY, DRQ})
    BY DEF Bits, CRC_ERROR, BUSY, DRQ
  <1>2. Mid(g) /\ Same(f, g)
    BY <1>1, BitsMid DEF Same
  <1> HIDE DEF g
  <1>3. ~g.meddled => IsType2(g.acc)
    BY <1>2 DEF Before, Stage, ReadStates, Same
  <1>4. Done(g, NextSector(g))
    BY <1>2, <1>3, NextSectorInv
  <1> QED
    BY <1>2, <1>4 DEF ReadSector3, Done, Same, g

LEMMA WriteSector1Inv ==
    ASSUME NEW f, Mid(f), Before(f, "write_sector_1"), NEW r \in AllResponses
    PROVE  Done(f, WriteSector1(f, r))
  <1> DEFINE g == SetDrq(f)
             h == Drive(g, "skip", r)
  <1>1. Mid(g) /\ Same(f, g) /\ g.sr = f.sr \union {DRQ} /\ g.left = f.left /\ g.due = f.due
    BY SetDrqMid
  <1> HIDE DEF g
  <1>2. "skip" \in Ops /\ "skip" \notin {"write", "write_idam"}
    BY DEF Ops
  <1>3. Mid(h) /\ Same(g, h) /\ h.sr = g.sr /\ h.left = g.left /\ h.due = g.due
    BY <1>1, <1>2, DriveMid
  <1> HIDE DEF h
  <1>4. Counted(h) => Counted(f)
    BY <1>1, <1>3 DEF Counted, Same
  <1>5. Counted(h) => h.due \in Lengths /\ h.left + h.got + Asked(h) = h.due + 1
    <2>1. f.left \in Nat
      BY DEF Mid, Type
    <2>2. Counted(f) => f.got = 0 /\ f.left = f.due /\ f.due \in Lengths
      BY DEF Before, Account, WriteStates
    <2>3. Asked(h) = 1
      BY <1>1, <1>3 DEF Asked
    <2> QED
      BY <1>1, <1>3, <1>4, <2>1, <2>2, <2>3 DEF Same
  <1>6. Before(h, "write_sector_2")
    BY <1>1, <1>3, <1>5
    DEF Before, States, Stage, Needy, Account, ReadStates, WriteStates, TrackStates, Same
  <1>7. Done(h, Goto(h, "write_sector_2"))
    BY <1>3, <1>6, GotoInv
  <1> QED
    BY <1>1, <1>3, <1>7 DEF WriteSector1, Done, Same, g, h

(* The end of a transfer to which the host was late. *)
LEMMA LateInv ==
    ASSUME NEW f, Mid(f)
    PROVE  /\ Done(f, End(Set(ResetDrq(f), {LOST_DATA})))
           /\ Mid(Set(ResetDrq(f), {LOST_DATA})) /\ Same(f, Set(ResetDrq(f), {LOST_DATA}))
           /\ LOST_DATA \in Set(ResetDrq(f), {LOST_DATA}).sr
           /\ Set(ResetDrq(f), {LOST_DATA}).left = f.left
           /\ Set(ResetDrq(f), {LOST_DATA}).due = f.due
  <1> DEFINE g == ResetDrq(f)
             h == Set(g, {LOST_DATA})
  <1>1. Mid(g) /\ Same(f, g) /\ g.left = f.left /\ g.due = f.due
    BY ResetDrqMid
  <1> HIDE DEF g
  <1>2. {LOST_DATA} \in SUBSET (Bits \ {BUSY, DRQ})
    BY DEF Bits, LOST_DATA, BUSY, DRQ
  <1>3. /\ Mid(h) /\ Same(g, h) /\ h.sr = g.sr \union {LOST_DATA}
        /\ h.left = g.left /\ h.due = g.due
    BY <1>1, <1>2, BitsMid
  <1> HIDE DEF h
  <1>4. Done(h, End(h))
    BY <1>3, EndInv
  <1>5. Done(f, End(h)) /\ Same(f, h) /\ LOST_DATA \in h.sr
    BY <1>1, <1>3, <1>4 DEF Done, Same
  <1> QED
    BY <1>1, <1>3, <1>5 DEF g, h

(* Between the bytes of a sector that is written nothing moves on the account. *)
LEMMA WriteOnInv ==
    ASSUME NEW f, Mid(f), NEW r \in AllResponses,
           NEW op \in {"skip", "write"},
           NEW s \in {"write_sector_2", "write_sector_3", "write_sector_4"}, Before(f, s),
           NEW t \in {"write_sector_3", "write_sector_4", "write_sector_5"}
    PROVE  Done(f, Goto(Drive(f, op, r), t))
  <1> DEFINE g == Drive(f, op, r)
  <1>1. op \in Ops /\ (~f.meddled => IsWriting(f.acc))
    BY DEF Ops, Before, Stage, WriteStates, IsWriting, WriteBit
  <1>2. Mid(g) /\ Same(f, g) /\ g.sr = f.sr /\ g.left = f.left /\ g.due = f.due
    BY <1>1, DriveMid
  <1> HIDE DEF g
  <1>3. Before(g, s)
    BY <1>2, BeforeKept
  <1>4. Before(g, t)
    BY <1>3
    DEF Before, States, Stage, Needy, Account, ReadStates, WriteStates, TrackStates
  <1>5. Done(g, Goto(g, t))
    BY <1>2, <1>4, GotoInv
  <1> QED
    BY <1>2, <1>5 DEF Done, Same, g

LEMMA WriteSector234Inv ==
    ASSUME NEW f, Mid(f), NEW r \in AllResponses
    PROVE  /\ Before(f, "write_sector_2") => Done(f, WriteSector2(f, r))
           /\ Before(f, "write_sector_3") => Done(f, WriteSector3(f, r))
           /\ Before(f, "write_sector_4") => Done(f, WriteSector4(f, r))
  <1>1. ASSUME Before(f, "write_sector_2")
        PROVE  Done(f, WriteSector2(f, r))
    <2>1. Done(f, Goto(Drive(f, "skip", r), "write_sector_3"))
      BY <1>1, WriteOnInv
    <2> QED
      BY <2>1, LateInv DEF WriteSector2
  <1>2. ASSUME Before(f, "write_sector_3")
        PROVE  Done(f, WriteSector3(f, r))
    BY <1>2, WriteOnInv DEF WriteSector3
  <1>3. ASSUME Before(f, "write_sector_4")
        PROVE  Done(f, WriteSector4(f, r))
    BY <1>3, WriteOnInv DEF WriteSector4
  <1> QED
    BY <1>1, <1>2, <1>3

LEMMA WriteSector5Inv ==
    ASSUME NEW f, Mid(f), Before(f, "write_sector_5"), NEW r \in AllResponses
    PROVE  Done(f, WriteSector5(f, r))
  <1> DEFINE e == IF DRQ \in f.sr THEN Set(ResetDrq(f), {LOST_DATA}) ELSE f
             g == Drive(e, "write", r)
             h == [g EXCEPT !.left = @ - 1]
             i == SetDrq(h)
  <1>1. /\ Mid(e) /\ Same(f, e) /\ e.left = f.left /\ e.due = f.due
        /\ LOST_DATA \in f.sr => LOST_DATA \in e.sr
        /\ LOST_DATA \notin e.sr => DRQ \notin f.sr /\ e.sr = f.sr
    BY LateInv DEF Same
  <1> HIDE DEF e
  <1>2. "write" \in Ops /\ (~e.meddled => IsWriting(e.acc))
    BY <1>1 DEF Ops, Before, Stage, WriteStates, IsWriting, WriteBit, Same
  <1>3. Mid(g) /\ Same(e, g) /\ g.sr = e.sr /\ g.left = e.left /\ g.due = e.due
    BY <1>1, <1>2, DriveMid
  <1> HIDE DEF g
  <1>4. f.left \in Nat /\ f.left > 0 /\ f.got \in Nat
    BY DEF Mid, Type, Before, Needy
  <1>5. h \in Type
    BY <1>1, <1>3, <1>4 DEF Mid, Type
  <1>6. /\ Same(g, h) /\ h.sr = g.sr /\ h.drq = g.drq /\ h.q = g.q /\ h.call = g.call
        /\ h.left = g.left - 1 /\ h.due = g.due
    BY <1>3 DEF Mid, Type, Same
  <1> HIDE DEF h
  <1>7. Mid(h)
    BY <1>3, <1>5, <1>6, MidKept
  <1>8. Mid(i) /\ Same(h, i) /\ i.sr = h.sr \union {DRQ} /\ i.left = h.left /\ i.due = h.due
    BY <1>7, SetDrqMid
  <1> HIDE DEF i
  <1>9. Counted(h) => /\ Counted(f) /\ DRQ \notin h.sr /\ h.due \in Lengths
                      /\ h.left + h.got = h.due
    <2>1. Counted(h) => Counted(f) /\ DRQ \notin f.sr /\ h.sr = f.sr
      BY <1>1, <1>3, <1>6 DEF Counted, Same
    <2>2. Counted(f) /\ DRQ \notin f.sr => f.due \in Lengths /\ f.left + f.got = f.due + 1
      <3>1. Counted(f) => f.due \in Lengths /\ f.left + f.got + Asked(f) = f.due + 1
        BY DEF Before, Account, WriteStates
      <3>2. DRQ \notin f.sr => Asked(f) = 0
        BY DEF Asked
      <3> QED
        BY <1>4, <3>1, <3>2
    <2>3. h.got = f.got /\ h.left = f.left - 1 /\ h.due = f.due
      BY <1>1, <1>3, <1>6 DEF Same
    <2>4. f.due \in Nat
      BY DEF Mid, Type
    <2>5. Counted(h) => f.due \in Lengths /\ (f.left - 1) + f.got = f.due
      BY <1>4, <2>1, <2>2, <2>4
    <2> QED
      BY <2>1, <2>3, <2>5
  <1>10. ~h.meddled => IsType2(h.acc) /\ WriteBit(h.acc)
    BY <1>1, <1>3, <1>6 DEF Before, Stage, WriteStates, Same
  <1>11. CASE h.left > 0
    <2>1. Counted(i) => Counted(h) /\ Asked(i) = 1
      BY <1>8 DEF Counted, Asked, Same
    <2>2. Counted(i) => i.due \in Lengths /\ i.left + i.got + Asked(i) = i.due + 1
      <3>1. h.left \in Nat /\ h.got \in Nat
        BY <1>5 DEF Type
      <3> QED
        BY <1>8, <1>9, <2>1, <3>1 DEF Same
    <2>3. Before(i, "write_sector_5")
      BY <1>8, <1>10, <1>11, <2>2
      DEF Before, States, Stage, Needy, Account, ReadStates, WriteStates, TrackStates, Same
    <2>4. Done(i, Goto(i, "write_sector_5"))
      BY <1>8, <2>3, GotoInv
    <2>5. WriteSector5(f, r) = Goto(i, "write_sector_5")
      BY <1>11 DEF WriteSector5, e, g, h, i
    <2> QED
      BY <1>1, <1>3, <1>6, <1>8, <2>4, <2>5 DEF Done, Same
  <1>12. CASE ~(h.left > 0)
    <2>1. h.left = 0 /\ h.got \in Nat
      BY <1>5, <1>12 DEF Type
    <2>2. Counted(h) => h.due \in Lengths /\ h.got + Asked(h) = h.due
      BY <1>9, <2>1 DEF Asked
    <2>3. Before(h, "write_sector_6")
      BY <1>10, <2>2
      DEF Before, States, Stage, Needy, Account, ReadStates, WriteStates, TrackStates
    <2>4. Done(h, Goto(h, "write_sector_6"))
      BY <1>7, <2>3, GotoInv
    <2>5. WriteSector5(f, r) = Goto(h, "write_sector_6")
      BY <1>12 DEF WriteSector5, e, g, h
    <2> QED
      BY <1>1, <1>3, <1>6, <2>4, <2>5 DEF Done, Same
  <1> QED
    BY <1>11, <1>12

LEMMA WriteSector6Inv ==
    ASSUME NEW f, Mid(f), Before(f, "write_sector_6"), NEW r \in AllResponses
    PROVE  Done(f, WriteSector6(f, r))
  <1> DEFINE g == Drive(f, "write", r)
  <1>1. "write" \in Ops /\ (~f.meddled => IsType2(f.acc) /\ IsWriting(f.acc))
    BY DEF Ops, Before, Stage, WriteStates, IsWriting, WriteBit
  <1>2. Mid(g) /\ Same(f, g)
    BY <1>1, DriveMid
  <1> HIDE DEF g
  <1>3. Done(g, NextSector(g))
    BY <1>1, <1>2, NextSectorInv DEF Same
  <1> QED
    BY <1>2, <1>3 DEF WriteSector6, Done, Same, g

-----------------------------------------------------------------------------
(* Type 3.                                                                 *)

(* A track is written, whatever is left to the host and the index pulse. *)
LEMMA TrackInv ==
    ASSUME NEW f, Mid(f), ~f.meddled => f.acc \div 16 = 15, NEW s \in TrackStates
    PROVE  Done(f, Goto(f, s))
  <1>1. ~f.meddled => ~IsType2(f.acc)
    BY DEF IsType2, Mid, Type, Under
  <1>2. Before(f, s)
    BY <1>1
    DEF Before, States, Stage, Needy, Account, Counted, ReadStates, WriteStates, TrackStates
  <1> QED
    BY <1>2, GotoInv

LEMMA WriteTrack1Inv ==
    ASSUME NEW f, Mid(f), ~f.meddled => f.acc \div 16 = 15
    PROVE  Done(f, WriteTrack1(f))
  <1> DEFINE g == SetDrq(f)
             p == Set(f, {WRITE_PROTECT})
  <1>1. Mid(g) /\ Same(f, g)
    BY SetDrqMid
  <1>2. {WRITE_PROTECT} \in SUBSET (Bits \ {BUSY, DRQ})
    BY DEF Bits, WRITE_PROTECT, BUSY, DRQ
  <1>3. Mid(p) /\ Same(f, p)
    BY <1>2, BitsMid
  <1> HIDE DEF g, p
  <1>4. Done(g, Goto(g, "write_track_2")) /\ Done(p, End(p))
    BY <1>1, <1>3, TrackInv, EndInv DEF TrackStates, Same
  <1> QED
    BY <1>1, <1>3, <1>4 DEF WriteTrack1, Done, Same, g, p

LEMMA WriteTrack2Inv ==
    ASSUME NEW f, Mid(f), Before(f, "write_track_2")
    PROVE  Done(f, WriteTrack2(f))
  <1> DEFINE g == [f EXCEPT !.holes = 0]
  <1>1. Mid(g) /\ Same(f, g)
    BY HolesMid
  <1> HIDE DEF g
  <1>2. ~g.meddled => g.acc \div 16 = 15
    BY <1>1 DEF Before, Stage, TrackStates, Same
  <1>3. Done(g, Goto(g, "write_track_2b"))
    BY <1>1, <1>2, TrackInv DEF TrackStates
  <1> QED
    BY <1>1, <1>3, LateInv DEF WriteTrack2, Done, Same, g

LEMMA WriteTrack3Inv ==
    ASSUME NEW f, Mid(f), ~f.meddled => f.acc \div 16 = 15, NEW r \in AllResponses
    PROVE  Done(f, WriteTrack3(f, r))
  <1> DEFINE late == DRQ \in f.sr
             data == IF late THEN 0 ELSE f.dat
             e == IF late THEN Set(f, {LOST_DATA}) ELSE f
             g == SetDrq(e)
             op == IF data = IdamByte THEN "write_idam" ELSE "write"
             h == Drive(g, op, r)
             n == ResetDrq(f)
  <1>1. {LOST_DATA} \in SUBSET (Bits \ {BUSY, DRQ})
    BY DEF Bits, LOST_DATA, BUSY, DRQ
  <1>2. Mid(e) /\ Same(f, e)
    BY <1>1, BitsMid DEF Same
  <1> HIDE DEF e
  <1>3. Mid(g) /\ Same(e, g)
    BY <1>2, SetDrqMid
  <1>4. Mid(n) /\ Same(f, n)
    BY ResetDrqMid
  <1> HIDE DEF g, n
  <1>5. op \in Ops /\ (~g.meddled => g.acc \div 16 = 15 /\ IsWriting(g.acc))
    BY <1>2, <1>3 DEF Ops, IsWriting, Same
  <1> HIDE DEF op
  <1>6. Mid(h) /\ Same(g, h)
    BY <1>3, <1>5, DriveMid
  <1> HIDE DEF h
  <1>7. Done(h, Goto(h, "write_track_3")) /\ Done(n, End(n))
    BY <1>4, <1>5, <1>6, TrackInv, EndInv DEF TrackStates, Same
  <1>8. Done(f, Goto(h, "write_track_3")) /\ Done(f, End(n))
    BY <1>2, <1>3, <1>4, <1>6, <1>7 DEF Done, Same
  <1>9. WriteTrack3(f, r) = IF f.holes > 0 THEN End(n) ELSE Goto(h, "write_track_3")
    BY DEF WriteTrack3, n, h, op, g, e
  <1> QED
    BY <1>8, <1>9

LEMMA WriteTrack2bInv ==
    ASSUME NEW f, Mid(f), Before(f, "write_track_2b"), NEW r \in AllResponses
    PROVE  Done(f, WriteTrack2b(f, r))
  <1> DEFINE g == [f EXCEPT !.holes = 0]
  <1>1. Mid(g) /\ Same(f, g)
    BY HolesMid
  <1> HIDE DEF g
  <1>2. ~f.meddled => f.acc \div 16 = 15
    BY DEF Before, Stage, TrackStates
  <1>3. Done(g, WriteTrack3(g, r))
    BY <1>1, <1>2, WriteTrack3Inv DEF Same
  <1>4. Done(f, Goto(f, "write_track_2b"))
    BY <1>2, TrackInv DEF TrackStates
  <1> QED
    BY <1>1, <1>3, <1>4 DEF WriteTrack2b, Done, Same, g

LEMMA ReadAddress1Inv ==
    ASSUME NEW f0, Mid(f0), NEW r \in AllResponses
    PROVE  Done(f0, ReadAddress1(f0, r))
  <1> DEFINE f == Search(f0, r)
             g == Found(f, r)
             lost == Set(f, {RNF})
  <1>1. Mid(f) /\ Same(f0, f) /\ Mid(g) /\ Same(f, g)
    BY SearchMid
  <1> HIDE DEF f, g
  <1>2. {RNF} \in SUBSET (Bits \ {BUSY, DRQ})
    BY DEF Bits, RNF, BUSY, DRQ
  <1>3. Mid(lost) /\ Same(f, lost)
    BY <1>1, <1>2, BitsMid
  <1> HIDE DEF lost
  <1>4. /\ Done(lost, End(lost)) /\ Done(f, Goto(f, "read_address_1"))
        /\ Done(g, Goto(g, "read_address_2"))
    BY <1>1, <1>3, EndInv, FreeInv
  <1>5. /\ Done(f0, End(lost)) /\ Done(f0, Goto(f, "read_address_1"))
        /\ Done(f0, Goto(g, "read_address_2"))
    BY <1>1, <1>3, <1>4 DEF Done, Same
  <1> QED
    BY <1>5 DEF ReadAddress1, f, g, lost

LEMMA ReadAddress2Inv ==
    ASSUME NEW f, Mid(f), NEW r \in AllResponses
    PROVE  Done(f, ReadAddress2(f, r))
  <1> DEFINE g == [f EXCEPT !.left = 6, !.tmp = r.byte]
  <1>1. g \in Type
    BY ZenonT(30) DEF Mid, Type, AllResponses
  <1>2. /\ Same(f, g) /\ g.sr = f.sr /\ g.drq = f.drq /\ g.q = f.q /\ g.call = f.call
        /\ g.left = 6
    BY DEF Mid, Type, Same
  <1> HIDE DEF g
  <1>3. Mid(g) /\ g.left > 0
    BY <1>1, <1>2, MidKept
  <1>4. Done(g, Offer(g, r, "read_address_3"))
    BY <1>3, OfferInv
  <1> QED
    BY <1>2, <1>4 DEF ReadAddress2, Done, Same, g

LEMMA ReadAddress3Inv ==
    ASSUME NEW f, Mid(f), NEW r \in AllResponses
    PROVE  Done(f, ReadAddress3(f, r))
  <1> DEFINE e == IF r.ok THEN f ELSE Set(f, {CRC_ERROR})
             g == [e EXCEPT !.sec = f.tmp]
  <1>1. CASE f.left > 0
    BY <1>1, OfferInv DEF ReadAddress3
  <1>2. CASE ~(f.left > 0)
    <2>1. {CRC_ERROR} \in SUBSET (Bits \ {BUSY, DRQ})
      BY DEF Bits, CRC_ERROR, BUSY, DRQ
    <2>2. Mid(e) /\ Same(f, e)
      BY <2>1, BitsMid DEF Same
    <2> HIDE DEF e
    <2>3. f.tmp \in Byte
      BY DEF Mid, Type
    <2>4. g \in Type
      BY <2>2, <2>3 DEF Mid, Type
    <2>5. Same(e, g) /\ g.sr = e.sr /\ g.drq = e.drq /\ g.q = e.q /\ g.call = e.call
      BY <2>2 DEF Mid, Type, Same
    <2> HIDE DEF g
    <2>6. Mid(g)
      BY <2>2, <2>4, <2>5, MidKept
    <2>7. Done(g, End(g))
      BY <2>6, EndInv
    <2>8. ReadAddress3(f, r) = End(g)
      BY <1>2 DEF ReadAddress3, e, g
    <2> QED
      BY <2>2, <2>5, <2>7, <2>8 DEF Done, Same
  <1> QED
    BY <1>1, <1>2

(* READ TRACK stops here, and so does a command byte that is none of type 3: such a
   one has been written while BUSY. *)
LEMMA Type3_1Inv ==
    ASSUME NEW f, Mid(f), ~f.meddled => IsType3(f.acc)
    PROVE  Done(f, Type3_1(f))
  <1> DEFINE g == [f EXCEPT !.holes = 0]
             i == [f EXCEPT !.intrq = TRUE]
  <1>1. CASE f.cmd \div 16 = 12
    <2>1. Mid(g) /\ Same(f, g)
      BY HolesMid
    <2> HIDE DEF g
    <2>2. Done(g, Goto(g, "read_address_1"))
      BY <2>1, FreeInv
    <2> QED
      BY <1>1, <2>1, <2>2 DEF Type3_1, Done, Same, g
  <1>2. CASE f.cmd \div 16 = 14
    <2>1. i \in Type
      BY ZenonT(30) DEF Mid, Type
    <2>2. /\ Same(f, i) /\ i.sr = f.sr /\ i.drq = f.drq /\ i.q = f.q /\ i.call = f.call
      BY DEF Mid, Type, Same
    <2> HIDE DEF i
    <2>3. Mid(i)
      BY <2>1, <2>2, MidKept
    <2>4. ~i.meddled => IsReadTrack(i.acc)
      BY <1>2, <2>2 DEF Mid, Under, Same, IsReadTrack
    <2>5. Done(f, i)
      BY <2>2, <2>3, <2>4 DEF Mid, FdcInv, Done, Same
    <2> QED
      BY <1>2, <2>5 DEF Type3_1, i
  <1>3. CASE f.cmd \div 16 = 15
    <2>1. ~f.meddled => f.acc \div 16 = 15
      BY <1>3 DEF Mid, Under
    <2> QED
      BY <1>3, <2>1, WriteTrack1Inv DEF Type3_1
  <1>4. CASE f.cmd \div 16 \notin {12, 14, 15}
    <2>1. f.meddled \in BOOLEAN
      BY DEF Mid, Type
    <2>2. f.meddled
      BY <1>4, <2>1 DEF Mid, Under, IsType3
    <2>3. Done(f, f)
      BY <2>2 DEF Mid, FdcInv, Done
    <2> QED
      BY <1>4, <2>3 DEF Type3_1
  <1> QED
    BY <1>1, <1>2, <1>3, <1>4

-----------------------------------------------------------------------------
(* The event is dispatched.                                                *)

LEMMA ResumedMid ==
    ASSUME NEW f0, FdcInv(f0), f0.q
    PROVE  LET f == [f0 EXCEPT !.q = FALSE, !.call = "none"]
           IN  /\ Mid(f) /\ Same(f0, f) /\ f.st = f0.st /\ Before(f, f.st)
               /\ f.sr = f0.sr /\ f.due = f0.due
  <1> DEFINE f == [f0 EXCEPT !.q = FALSE, !.call = "none"]
  <1>0. f0 \in Type
    BY DEF FdcInv
  <1>1. f \in Type
    BY ZenonT(30), <1>0 DEF Type
  <1>2. /\ Same(f0, f) /\ f.sr = f0.sr /\ f.drq = f0.drq /\ f.st = f0.st /\ f.left = f0.left
        /\ f.due = f0.due /\ f.q = FALSE /\ f.call = "none"
    <2>1. Same(f0, f)
      BY <1>0 DEF Type, Same
    <2>2. /\ f.sr = f0.sr /\ f.st = f0.st /\ f.left = f0.left /\ f.due = f0.due
          /\ f.call = "none"
      BY <1>0 DEF Type
    <2>3. f.drq = f0.drq /\ f.q = FALSE
      BY <1>0 DEF Type
    <2> QED
      BY <2>1, <2>2, <2>3
  <1> HIDE DEF f
  <1>3. Mid(f)
    BY <1>1, <1>2 DEF FdcInv, Mid, Same, Under, Writing
  <1>4. Before(f, f.st)
    BY <1>2, BeforeKept DEF FdcInv
  <1> QED
    BY <1>2, <1>3, <1>4 DEF f

LEMMA HandlerInv ==
    ASSUME NEW f0, FdcInv(f0), f0.q, NEW r \in AllResponses
    PROVE  Done(f0, Handler(f0, r))
  <1> DEFINE f == [f0 EXCEPT !.q = FALSE, !.call = "none"]
  <1>1. Mid(f) /\ Same(f0, f) /\ f.st = f0.st /\ Before(f, f.st)
    BY ResumedMid
  <1>2. f.st \in States \ {"accept_command"}
    BY <1>1 DEF Before
  <1>3. ~f.meddled => Stage(f.st, f.acc)
    BY <1>1 DEF Before
  <1>4. CASE f.st \in {"type1_1", "verify_track_1", "verify_track_2"}
    <2>1. CASE f.st = "type1_1"
      BY <1>1, <2>1, Type1_1Inv DEF Handler, Done, Same
    <2>2. CASE f.st = "verify_track_1"
      BY <1>1, <2>2, Verify1Inv DEF Handler, Done, Same
    <2>3. CASE f.st = "verify_track_2"
      BY <1>1, <2>3, Verify2Inv DEF Handler, Done, Same
    <2> QED
      BY <1>4, <2>1, <2>2, <2>3
  <1>5. CASE f.st \in {"type2_1", "type2_2"}
    <2>1. Searching(f)
      BY <1>1, <1>5, SearchingBefore DEF Searching
    <2>2. CASE f.st = "type2_1"
      BY <1>1, <2>1, <2>2, Type2_1Inv DEF Handler, Done, Same
    <2>3. CASE f.st = "type2_2"
      BY <1>1, <2>1, <2>3, Type2_2Inv DEF Handler, Done, Same
    <2> QED
      BY <1>5, <2>2, <2>3
  <1>6. CASE f.st \in ReadStates
    <2>1. CASE f.st = "read_sector_1"
      BY <1>1, <2>1, ReadSector1Inv DEF Handler, Done, Same
    <2>2. CASE f.st = "read_sector_2"
      BY <1>1, <2>2, ReadSector2Inv DEF Handler, Done, Same
    <2>3. CASE f.st = "read_sector_3"
      BY <1>1, <2>3, ReadSector3Inv DEF Handler, Done, Same
    <2> QED
      BY <1>6, <2>1, <2>2, <2>3 DEF ReadStates
  <1>7. CASE f.st \in WriteStates
    <2>1. CASE f.st = "write_sector_1"
      BY <1>1, <2>1, WriteSector1Inv DEF Handler, Done, Same
    <2>2. CASE f.st = "write_sector_2"
      BY <1>1, <2>2, WriteSector234Inv DEF Handler, Done, Same
    <2>3. CASE f.st = "write_sector_3"
      BY <1>1, <2>3, WriteSector234Inv DEF Handler, Done, Same
    <2>4. CASE f.st = "write_sector_4"
      BY <1>1, <2>4, WriteSector234Inv DEF Handler, Done, Same
    <2>5. CASE f.st = "write_sector_5"
      BY <1>1, <2>5, WriteSector5Inv DEF Handler, Done, Same
    <2>6. CASE f.st = "write_sector_6"
      BY <1>1, <2>6, WriteSector6Inv DEF Handler, Done, Same
    <2> QED
      BY <1>7, <2>1, <2>2, <2>3, <2>4, <2>5, <2>6 DEF WriteStates
  <1>8. CASE f.st = "type3_1"
    <2>1. ~f.meddled => IsType3(f.acc)
      BY <1>3, <1>8 DEF Stage
    <2> QED
      BY <1>1, <1>8, <2>1, Type3_1Inv DEF Handler, Done, Same
  <1>9. CASE f.st \in {"read_address_1", "read_address_2", "read_address_3"}
    <2>1. CASE f.st = "read_address_1"
      BY <1>1, <2>1, ReadAddress1Inv DEF Handler, Done, Same
    <2>2. CASE f.st = "read_address_2"
      BY <1>1, <2>2, ReadAddress2Inv DEF Handler, Done, Same
    <2>3. CASE f.st = "read_address_3"
      BY <1>1, <2>3, ReadAddress3Inv DEF Handler, Done, Same
    <2> QED
      BY <1>9, <2>1, <2>2, <2>3
  <1>10. CASE f.st \in TrackStates
    <2>1. CASE f.st = "write_track_2"
      BY <1>1, <2>1, WriteTrack2Inv DEF Handler, Done, Same
    <2>2. CASE f.st = "write_track_2b"
      BY <1>1, <2>2, WriteTrack2bInv DEF Handler, Done, Same
    <2>3. CASE f.st = "write_track_3"
      <3>1. ~f.meddled => f.acc \div 16 = 15
        BY <1>3, <2>3 DEF Stage, TrackStates
      <3> QED
        BY <1>1, <2>3, <3>1, WriteTrack3Inv DEF Handler, Done, Same
    <2> QED
      BY <1>10, <2>1, <2>2, <2>3 DEF TrackStates
  <1> QED
    BY <1>2, <1>4, <1>5, <1>6, <1>7, <1>8, <1>9, <1>10
    DEF States, ReadStates, WriteStates, TrackStates

-----------------------------------------------------------------------------
(* The register file.                                                      *)

(* A command has been taken, and its flags are about to be set up. *)
Taken(f, c) ==
    /\ f \in Type /\ ~f.q /\ f.acc = c /\ f.cmd = c /\ ~f.meddled /\ f.call = "none"
    /\ f.due = 0 /\ f.got = 0

LEMMA BitsTaken ==
    ASSUME NEW f, NEW c, Taken(f, c), NEW bits \in SUBSET Bits
    PROVE  /\ Taken(Set(f, bits), c) /\ Set(f, bits).sr = f.sr \union bits
           /\ Set(f, bits).drq = f.drq /\ Set(f, bits).t1 = f.t1
           /\ Taken(Clear(f, bits), c) /\ Clear(f, bits).sr = f.sr \ bits
           /\ Clear(f, bits).drq = f.drq
           /\ Taken(ResetDrq(f), c) /\ ResetDrq(f).sr = f.sr \ {DRQ} /\ ~ResetDrq(f).drq
  <1> DEFINE g == Set(f, bits)
             h == Clear(f, bits)
             i == ResetDrq(f)
  <1>1. g \in Type /\ h \in Type /\ i \in Type
    <2>1. g \in Type
      BY DEF Taken, Set, Type
    <2>2. h \in Type
      BY DEF Taken, Clear, Type
    <2>3. i \in Type
      BY ZenonT(30) DEF Taken, ResetDrq, Type
    <2> QED
      BY <2>1, <2>2, <2>3
  <1>2. /\ g.sr = f.sr \union bits /\ g.drq = f.drq /\ g.t1 = f.t1 /\ ~g.q /\ g.acc = c
        /\ g.cmd = c /\ ~g.meddled /\ g.call = "none" /\ g.due = 0 /\ g.got = 0
    BY DEF Taken, Set, Type
  <1>3. /\ h.sr = f.sr \ bits /\ h.drq = f.drq /\ ~h.q /\ h.acc = c
        /\ h.cmd = c /\ ~h.meddled /\ h.call = "none" /\ h.due = 0 /\ h.got = 0
    BY DEF Taken, Clear, Type
  <1>4. /\ i.sr = f.sr \ {DRQ} /\ ~i.drq /\ ~i.q /\ i.acc = c
        /\ i.cmd = c /\ ~i.meddled /\ i.call = "none" /\ i.due = 0 /\ i.got = 0
    BY DEF Taken, ResetDrq, Type
  <1> HIDE DEF g, h, i
  <1> QED
    BY <1>1, <1>2, <1>3, <1>4 DEF Taken, g, h, i

(* Commands of the three types differ, and those that write are of the last two. *)
LEMMA TypesDiffer ==
    ASSUME NEW c \in 0..255
    PROVE  /\ IsType1(c) => ~IsType2(c) /\ ~IsType3(c) /\ ~IsWriting(c)
           /\ IsType2(c) => ~IsType3(c)
           /\ IsType3(c) /\ IsWriting(c) => c \div 16 = 15
  BY DEF IsType1, IsType2, IsType3, IsWriting

(* A command taken, with BUSY set and the two kinds of status told apart, is under way. *)
LEMMA TakenMid ==
    ASSUME NEW f, NEW c \in 0..255, Taken(f, c), BUSY \in f.sr, f.t1 <=> IsType1(c),
           IsType2(c) \/ IsWriting(c) => DRQ \notin f.sr /\ ~f.drq
    PROVE  Mid(f)
  BY CommandsAssumption DEF Taken, Mid, Under, Writing

LEMMA AcceptType1Inv ==
    ASSUME NEW f, NEW c \in 0..255, Taken(f, c), IsType1(c), NEW r \in AllResponses
    PROVE  FdcInv(AcceptType1(f, c, r)) /\ ~AcceptType1(f, c, r).meddled
  <1> DEFINE kind == c \div 32
             dir == CASE kind = 2 -> 1 [] kind = 3 -> -1 [] OTHER -> f.dir
             n == ResetDrq(f)
             m == Clear(n, {CRC_ERROR, SEEK_ERROR})
             g == [m EXCEPT !.t1 = TRUE, !.isStep = kind > 0,
                            !.dir = CASE kind = 2 -> 1 [] kind = 3 -> -1 [] OTHER -> @]
             h == Set(g, {BUSY})
             o == Homing(h)
  <1>1. {CRC_ERROR, SEEK_ERROR} \in SUBSET Bits /\ {BUSY} \in SUBSET Bits
    BY DEF Bits, CRC_ERROR, SEEK_ERROR, RNF, BUSY
  <1>2. Taken(n, c)
    BY <1>1, BitsTaken
  <1> HIDE DEF n
  <1>3. Taken(m, c)
    BY <1>1, <1>2, BitsTaken
  <1> HIDE DEF m
  <1>4. g \in Type
    <2>1. m.dir \in {1, -1} /\ (kind > 0) \in BOOLEAN
      BY <1>3 DEF Taken, Type
    <2>2. (CASE kind = 2 -> 1 [] kind = 3 -> -1 [] OTHER -> m.dir) \in {1, -1}
      BY <2>1
    <2> HIDE DEF kind
    <2> QED
      BY ZenonT(30), <1>3, <2>1, <2>2 DEF Taken, Type
  <1>5. Taken(g, c) /\ g.t1
    <2>1. /\ g.q = m.q /\ g.acc = m.acc /\ g.cmd = m.cmd /\ g.meddled = m.meddled
          /\ g.call = m.call /\ g.due = m.due /\ g.got = m.got /\ g.t1
      BY <1>3 DEF Taken, Type
    <2> QED
      BY <1>3, <1>4, <2>1 DEF Taken
  <1> HIDE DEF g
  <1>6. Taken(h, c) /\ h.t1 /\ BUSY \in h.sr
    <2>1. Taken(h, c) /\ h.sr = g.sr \union {BUSY}
      BY <1>1, <1>5, BitsTaken
    <2>2. h.t1 = g.t1
      BY <1>5 DEF Taken, Set, Type
    <2> QED
      BY <1>5, <2>1, <2>2
  <1> HIDE DEF h
  <1>7. Mid(h)
    BY <1>6, TakenMid, TypesDiffer
  <1>8. o \in Type
    <2>1. MaxByte \in Byte /\ 0 \in Byte /\ h \in Type
      BY <1>6, ByteAssumption DEF Taken, Byte
    <2> QED
      BY ZenonT(30), <2>1 DEF Homing, Type
  <1>9. Same(h, o) /\ o.sr = h.sr /\ o.drq = h.drq /\ o.q = h.q /\ o.call = h.call
    BY <1>6 DEF Taken, Homing, Type, Same
  <1> HIDE DEF o
  <1>10. Mid(o)
    BY <1>7, <1>8, <1>9, MidKept
  <1>11. /\ Done(h, Type1_2(h, r)) /\ Done(h, Type1_3(h, r))
         /\ Done(h, Type1_1(h, r)) /\ Done(o, Type1_1(o, r))
    BY <1>7, <1>10, Type1_1Inv, Type1_2Inv, Type1_3Inv
  <1>12. ~h.meddled /\ ~o.meddled
    BY <1>6, <1>9 DEF Taken, Same
  <1>13. AcceptType1(f, c, r) =
           IF kind > 0 THEN (IF Bit(c, 4) THEN Type1_2(h, r) ELSE Type1_3(h, r))
           ELSE Type1_1(IF c \div 16 = 0 THEN o ELSE h, r)
    BY DEF AcceptType1, n, m, g, h, o
  <1> QED
    BY <1>11, <1>12, <1>13 DEF Done

(* t1 is cleared, the side chosen, and BUSY set. *)
LEMMA SetSideTaken ==
    ASSUME NEW f, NEW c \in 0..255, Taken(f, c), BUSY \in f.sr
    PROVE  LET h == SetSide([f EXCEPT !.t1 = FALSE], c)
           IN  /\ h \in Type /\ ~h.q /\ h.acc = c /\ h.cmd = c /\ ~h.meddled
               /\ h.call \in {"none", "sso"} /\ h.due = 0 /\ h.got = 0 /\ ~h.t1
               /\ h.sr = f.sr /\ h.drq = f.drq
  <1> DEFINE side == IF Bit(c, IF HasSSO THEN 1 ELSE 3) THEN 1 ELSE 0
             g == [f EXCEPT !.t1 = FALSE]
             call == IF HasSSO THEN "sso" ELSE g.call
             h == [g EXCEPT !.side = side, !.call = call]
  <1>1. side \in {0, 1}
    OBVIOUS
  <1> HIDE DEF side
  <1>2. g \in Type
    BY ZenonT(30) DEF Taken, Type
  <1>3. /\ g.q = f.q /\ g.acc = f.acc /\ g.cmd = f.cmd /\ g.meddled = f.meddled
        /\ g.call = f.call /\ g.due = f.due /\ g.got = f.got /\ g.t1 = FALSE
        /\ g.sr = f.sr /\ g.drq = f.drq
    BY DEF Taken, Type
  <1>4. SetSide(g, c) = h
    BY DEF SetSide, side
  <1> HIDE DEF g
  <1>5. call \in {"none", "sso"}
    BY <1>3 DEF Taken
  <1> HIDE DEF call
  <1>6. h \in Type
    BY ZenonT(30), <1>1, <1>2, <1>5 DEF Type
  <1>7. /\ h.q = g.q /\ h.acc = g.acc /\ h.cmd = g.cmd /\ h.meddled = g.meddled
        /\ h.call = call /\ h.due = g.due /\ h.got = g.got /\ h.t1 = g.t1
        /\ h.sr = g.sr /\ h.drq = g.drq
    BY <1>2 DEF Type
  <1> HIDE DEF h
  <1> QED
    BY <1>3, <1>4, <1>5, <1>6, <1>7 DEF Taken, g

LEMMA SideMid ==
    ASSUME NEW f, NEW c \in 0..255, f \in Type, ~f.q, f.acc = c, f.cmd = c, ~f.meddled,
           f.call \in {"none", "sso"}, ~f.t1, BUSY \in f.sr, ~IsType1(c),
           IsType2(c) \/ IsWriting(c) => DRQ \notin f.sr /\ ~f.drq
    PROVE  Mid(f)
  BY CommandsAssumption DEF Mid, Under, Writing

LEMMA AcceptType2Inv ==
    ASSUME NEW f, NEW c \in 0..255, Taken(f, c), IsType2(c)
    PROVE  FdcInv(AcceptType2(f, c)) /\ ~AcceptType2(f, c).meddled
  <1> DEFINE n == ResetDrq(f)
             bits == {LOST_DATA, RNF, RECORD_TYPE, WRITE_PROTECT}
             g == Clear(n, bits)
             s == Set(g, {BUSY})
             h == SetSide([s EXCEPT !.t1 = FALSE], c)
  <1>1. bits \in SUBSET Bits /\ {BUSY} \in SUBSET Bits
    BY DEF Bits, LOST_DATA, RNF, RECORD_TYPE, WRITE_PROTECT, BUSY
  <1>2. Taken(n, c) /\ n.sr = f.sr \ {DRQ} /\ ~n.drq
    BY <1>1, BitsTaken
  <1> HIDE DEF n, bits
  <1>3. Taken(g, c) /\ g.sr = n.sr \ bits /\ g.drq = n.drq
    BY <1>1, <1>2, BitsTaken
  <1> HIDE DEF g
  <1>4. Taken(s, c) /\ s.sr = g.sr \union {BUSY} /\ s.drq = g.drq
    BY <1>1, <1>3, BitsTaken
  <1> HIDE DEF s
  <1>5. BUSY \in s.sr /\ DRQ \notin s.sr /\ ~s.drq
    BY <1>2, <1>3, <1>4 DEF BUSY, DRQ
  <1>6. /\ h \in Type /\ ~h.q /\ h.acc = c /\ h.cmd = c /\ ~h.meddled
        /\ h.call \in {"none", "sso"} /\ h.due = 0 /\ h.got = 0 /\ ~h.t1
        /\ h.sr = s.sr /\ h.drq = s.drq
    BY Zenon, <1>4, <1>5, SetSideTaken
  <1> HIDE DEF h
  <1>7. ~IsType1(c)
    BY TypesDiffer
  <1>8. BUSY \in h.sr /\ DRQ \notin h.sr /\ ~h.drq
    BY <1>5, <1>6
  <1>9. Mid(h)
    BY <1>6, <1>7, <1>8, SideMid
  <1>10. Searching(h)
    BY <1>6, <1>8
    DEF Searching, Before, States, Stage, Needy, Account, ReadStates, WriteStates, TrackStates
  <1>11. Done(h, Goto(h, "type2_1")) /\ Done(h, Type2_1(h))
    BY <1>9, <1>10, SearchingBefore, GotoInv, Type2_1Inv DEF Searching
  <1>12. AcceptType2(f, c) = IF Bit(c, 2) THEN Goto(h, "type2_1") ELSE Type2_1(h)
    BY DEF AcceptType2, n, bits, g, s, h
  <1> QED
    BY <1>6, <1>11, <1>12 DEF Done

LEMMA AcceptType3Inv ==
    ASSUME NEW f, NEW c \in 0..255, Taken(f, c), IsType3(c)
    PROVE  FdcInv(AcceptType3(f, c)) /\ ~AcceptType3(f, c).meddled
  <1> DEFINE n == IF c \div 16 = 15 THEN ResetDrq(f) ELSE f
             bits == {LOST_DATA, RNF, RECORD_TYPE}
             g == Clear(n, bits)
             s == Set(g, {BUSY})
             h == SetSide([s EXCEPT !.t1 = FALSE], c)
  <1>1. bits \in SUBSET Bits /\ {BUSY} \in SUBSET Bits
    BY DEF Bits, LOST_DATA, RNF, RECORD_TYPE, BUSY
  <1>2. Taken(n, c) /\ (c \div 16 = 15 => DRQ \notin n.sr /\ ~n.drq)
    BY <1>1, BitsTaken
  <1> HIDE DEF n, bits
  <1>3. Taken(g, c) /\ g.sr = n.sr \ bits /\ g.drq = n.drq
    BY <1>1, <1>2, BitsTaken
  <1> HIDE DEF g
  <1>4. Taken(s, c) /\ s.sr = g.sr \union {BUSY} /\ s.drq = g.drq
    BY <1>1, <1>3, BitsTaken
  <1> HIDE DEF s
  <1>5. BUSY \in s.sr /\ (c \div 16 = 15 => DRQ \notin s.sr /\ ~s.drq)
    BY <1>2, <1>3, <1>4 DEF BUSY, DRQ
  <1>6. /\ h \in Type /\ ~h.q /\ h.acc = c /\ h.cmd = c /\ ~h.meddled
        /\ h.call \in {"none", "sso"} /\ h.due = 0 /\ h.got = 0 /\ ~h.t1
        /\ h.sr = s.sr /\ h.drq = s.drq
    BY <1>4, <1>5, SetSideTaken
  <1> HIDE DEF h
  <1>7. ~IsType1(c) /\ ~IsType2(c)
    BY TypesDiffer
  <1>8. BUSY \in h.sr /\ (IsType2(c) \/ IsWriting(c) => DRQ \notin h.sr /\ ~h.drq)
    BY <1>5, <1>6, <1>7, TypesDiffer
  <1>9. Mid(h)
    BY <1>6, <1>7, <1>8, SideMid
  <1>10. Before(h, "type3_1")
    BY <1>6
    DEF Before, States, Stage, Needy, Account, ReadStates, WriteStates, TrackStates
  <1>11. Done(h, Goto(h, "type3_1")) /\ Done(h, Type3_1(h))
    BY <1>6, <1>9, <1>10, GotoInv, Type3_1Inv
  <1>12. AcceptType3(f, c) = IF Bit(c, 2) THEN Goto(h, "type3_1") ELSE Type3_1(h)
    BY DEF AcceptType3, n, bits, g, s, h
  <1> QED
    BY <1>6, <1>11, <1>12 DEF Done

LEMMA AcceptCommandInv ==
    ASSUME NEW f0, FdcInv(f0), BUSY \notin f0.sr, NEW c \in 0..255, NEW r,
           IsType1(c) => r \in AllResponses
    PROVE  FdcInv(AcceptCommand(f0, c, r)) /\ ~AcceptCommand(f0, c, r).meddled
  <1> DEFINE intrq == f0.intrq /\ f0.iImm
             f == [f0 EXCEPT !.cmd = c, !.call = "none", !.intrq = intrq]
             a == Accepted(f, c)
             n == Accepted(f, NoCommand)
  <1>1. intrq \in BOOLEAN
    BY DEF FdcInv, Type
  <1>2. f = [f0 EXCEPT !.cmd = c, !.call = "none", !.intrq = @ /\ f0.iImm]
    OBVIOUS
  <1> HIDE DEF intrq
  <1>3. f \in Type
    BY ZenonT(30), <1>1 DEF FdcInv, Type
  <1>4. /\ f.q = f0.q /\ f.cmd = c /\ f.call = "none" /\ f.due = f0.due /\ f.got = f0.got
        /\ f.sr = f0.sr
    BY DEF FdcInv, Type
  <1> HIDE DEF f
  <1>5. ~f.q /\ f.due = 0 /\ f.got = 0 /\ BUSY \notin f.sr
    BY <1>4 DEF FdcInv
  <1>6. a \in Type /\ n \in Type
    <2>1. a \in Type
      BY ZenonT(30), <1>3 DEF Accepted, Type
    <2>2. n \in Type
      BY ZenonT(30), <1>3 DEF Accepted, Type
    <2> QED
      BY <2>1, <2>2
  <1>7. /\ a.q = f.q /\ a.cmd = f.cmd /\ a.call = f.call /\ a.due = f.due /\ a.got = f.got
        /\ a.acc = c /\ a.meddled = FALSE
    BY <1>3 DEF Accepted, Type
  <1>8. /\ n.q = f.q /\ n.call = f.call /\ n.due = f.due /\ n.got = f.got
        /\ n.sr = f.sr /\ n.acc = NoCommand /\ n.meddled = FALSE
    BY <1>3 DEF Accepted, Type
  <1> HIDE DEF a, n
  <1>9. Taken(a, c)
    BY <1>4, <1>5, <1>6, <1>7 DEF Taken
  <1>10. FdcInv(n) /\ ~n.meddled
    BY <1>4, <1>5, <1>6, <1>8 DEF FdcInv, Writing
  <1>11. AcceptCommand(f0, c, r) = CASE IsType1(c) -> AcceptType1(a, c, r)
                                     [] IsType2(c) -> AcceptType2(a, c)
                                     [] IsType3(c) -> AcceptType3(a, c)
                                     [] OTHER -> n
    BY <1>2 DEF AcceptCommand, a, n
  <1>12. CASE IsType1(c)
    <2>1. AcceptCommand(f0, c, r) = AcceptType1(a, c, r)
      BY <1>11, <1>12, TypesDiffer
    <2> QED
      BY <1>9, <1>12, <2>1, AcceptType1Inv
  <1>13. CASE IsType2(c)
    <2>1. AcceptCommand(f0, c, r) = AcceptType2(a, c)
      BY <1>11, <1>13, TypesDiffer
    <2> QED
      BY <1>9, <1>13, <2>1, AcceptType2Inv
  <1>14. CASE IsType3(c)
    <2>1. AcceptCommand(f0, c, r) = AcceptType3(a, c)
      BY <1>11, <1>14, TypesDiffer
    <2> QED
      BY <1>9, <1>14, <2>1, AcceptType3Inv
  <1>15. CASE ~IsType1(c) /\ ~IsType2(c) /\ ~IsType3(c)
    BY <1>10, <1>11, <1>15
  <1> QED
    BY <1>12, <1>13, <1>14, <1>15

LEMMA ForceInterruptInv ==
    ASSUME NEW f, FdcInv(f), NEW c \in 0..255
    PROVE  Done(f, ForceInterrupt(f, c)) /\ ForceInterrupt(f, c).acc = NoCommand
  <1> DEFINE idx == Bit(c, 2)
             imm == Bit(c, 3)
             t1 == f.t1 \/ BUSY \notin f.sr
             intrq == f.intrq \/ Bit(c, 3)
             g == [f EXCEPT !.cmd = c, !.call = "none", !.acc = NoCommand, !.due = 0,
                            !.got = 0]
             e == [g EXCEPT !.iIdx = idx, !.iImm = imm]
             h == [e EXCEPT !.t1 = t1, !.q = FALSE]
             i == [h EXCEPT !.sr = @ \ {BUSY}, !.intrq = intrq]
  <1>1. idx \in BOOLEAN /\ imm \in BOOLEAN /\ t1 \in BOOLEAN /\ intrq \in BOOLEAN
    BY DEF FdcInv, Type, Bit
  <1>2. f \in Type
    BY DEF FdcInv
  <1>3. ForceInterrupt(f, c) = i
    BY <1>2 DEF ForceInterrupt, Type
  <1> HIDE DEF idx, imm, t1, intrq
  <1>4. g \in Type /\ g.call = "none" /\ g.acc = NoCommand /\ g.due = 0 /\ g.got = 0
           /\ g.meddled = f.meddled
    BY ZenonT(30), <1>2 DEF Type
  <1> HIDE DEF g
  <1>5. h \in Type /\ h.call = g.call /\ h.acc = g.acc /\ h.due = g.due /\ h.got = g.got
           /\ h.meddled = g.meddled /\ h.q = FALSE
    <2>1. e \in Type
      <3>1. g \in Type /\ idx \in BOOLEAN /\ imm \in BOOLEAN
        BY <1>1, <1>4
      <3> QED
        BY ZenonT(30), <3>1 DEF Type
    <2>2. e.call = g.call /\ e.acc = g.acc /\ e.due = g.due /\ e.got = g.got
             /\ e.meddled = g.meddled
      BY <1>4 DEF Type
    <2> HIDE DEF e
    <2>3. h \in Type
      BY ZenonT(30), <1>1, <2>1 DEF Type
    <2>4. h.call = e.call /\ h.acc = e.acc /\ h.due = e.due /\ h.got = e.got
             /\ h.meddled = e.meddled /\ h.q = FALSE
      BY <2>1 DEF Type
    <2> QED
      BY <2>2, <2>3, <2>4
  <1> HIDE DEF h
  <1>6. i \in Type /\ i.call = h.call /\ i.acc = h.acc /\ i.due = h.due /\ i.got = h.got
           /\ i.meddled = h.meddled /\ i.q = h.q /\ i.sr = h.sr \ {BUSY}
    BY ZenonT(30), <1>1, <1>5 DEF Type
  <1> HIDE DEF i
  <1>7. BUSY \notin i.sr
    BY <1>6
  <1>8. FdcInv(i)
    BY <1>4, <1>5, <1>6, <1>7 DEF FdcInv, Writing
  <1> QED
    BY <1>3, <1>4, <1>5, <1>6, <1>8 DEF Done

(* A command register overwritten while BUSY: from then on nothing is said of the
   command that the state machine carries out. *)
LEMMA WhileBusyInv ==
    ASSUME NEW f, FdcInv(f), BUSY \in f.sr, NEW c \in 0..255
    PROVE  FdcInv(WhileBusy(f, c))
  <1> DEFINE g == WhileBusy(f, c)
  <1>1. g \in Type
    BY ZenonT(30) DEF FdcInv, WhileBusy, Type
  <1>2. /\ g.q = f.q /\ g.sr = f.sr /\ g.drq = f.drq /\ g.st = f.st /\ g.left = f.left
        /\ g.acc = f.acc /\ g.t1 = f.t1 /\ g.call = "none" /\ g.meddled = TRUE
    BY DEF FdcInv, WhileBusy, Type
  <1> HIDE DEF g
  <1>3. g.q => Before(g, g.st)
    BY <1>2 DEF FdcInv, Before, Account, Counted
  <1>4. FdcInv(g)
    BY <1>1, <1>2, <1>3 DEF FdcInv, Under, Writing
  <1> QED
    BY <1>4 DEF g

LEMMA WriteCommandInv ==
    ASSUME NEW f, FdcInv(f), NEW c \in 0..255, NEW r, IsType1(c) => r \in AllResponses
    PROVE  LET g == WriteCommand(f, c, r)
           IN  /\ FdcInv(g)
               /\ g.meddled => f.meddled \/ (BUSY \in f.sr /\ ~IsForce(c))
  <1>1. CASE IsForce(c)
    <2>1. Done(f, ForceInterrupt(f, c))
      BY ForceInterruptInv
    <2> QED
      BY <1>1, <2>1 DEF WriteCommand, Done
  <1>2. CASE ~IsForce(c) /\ BUSY \in f.sr
    BY <1>2, WhileBusyInv DEF WriteCommand
  <1>3. CASE ~IsForce(c) /\ BUSY \notin f.sr
    BY <1>3, AcceptCommandInv DEF WriteCommand
  <1> QED
    BY <1>1, <1>2, <1>3

-----------------------------------------------------------------------------
(* What else happens to a controller.                                      *)

(* Fields that neither the invariant nor the state machine's account reads, and a
   call that is not a write. *)
LEMMA InvKept ==
    ASSUME NEW f, FdcInv(f), NEW g \in Type, Same(f, g), g.q = f.q, g.st = f.st,
           g.sr = f.sr, g.drq = f.drq, g.left = f.left, g.due = f.due,
           f.intrq => g.intrq,
           g.call = f.call \/ g.call \notin {"write", "write_idam"}
    PROVE  Done(f, g)
  <1>1. g.q => Before(g, g.st)
    BY BeforeKept DEF FdcInv
  <1>2. BUSY \in g.sr => Under(g) /\ (g.q \/ g.iIdx \/ g.meddled \/ IsReadTrack(g.acc))
    BY DEF FdcInv, Under, Same
  <1>3. Writing(g)
    BY DEF FdcInv, Writing, Same
  <1> QED
    BY <1>1, <1>2, <1>3 DEF FdcInv, Done, Same

(* The account after a request has been answered. *)
LEMMA AnswerDrqInv ==
    ASSUME NEW f, FdcInv(f)
    PROVE  /\ Done(f, AnswerDrq(f)) /\ AnswerDrq(f).acc = f.acc
           /\ BUSY \in f.sr => BUSY \in AnswerDrq(f).sr
           /\ AnswerDrq(f).call = "none"
  <1> DEFINE counts == DRQ \in f.sr /\ BUSY \in f.sr /\ ~f.t1 /\ \E n \in Lengths : f.got <= n
             got == IF counts THEN f.got + 1 ELSE f.got
             n == ResetDrq(f)
             g == [n EXCEPT !.call = "none", !.got = got]
  <1>1. f \in Type /\ f.got \in Nat /\ f.left \in Nat /\ got \in Nat
    BY DEF FdcInv, Type
  <1>2. n \in Type
    BY ZenonT(30), <1>1 DEF ResetDrq, Type
  <1>3. /\ n.q = f.q /\ n.st = f.st /\ n.sr = f.sr \ {DRQ} /\ n.drq = FALSE /\ n.acc = f.acc
        /\ n.meddled = f.meddled /\ n.cmd = f.cmd /\ n.t1 = f.t1 /\ n.iIdx = f.iIdx
        /\ n.left = f.left /\ n.due = f.due /\ n.got = f.got /\ n.intrq = f.intrq
    <2>1. /\ n.st = f.st /\ n.sr = f.sr \ {DRQ} /\ n.drq = FALSE /\ n.acc = f.acc
          /\ n.cmd = f.cmd /\ n.left = f.left /\ n.due = f.due /\ n.got = f.got
      BY <1>1 DEF ResetDrq, Type
    <2>2. /\ n.q = f.q /\ n.meddled = f.meddled /\ n.t1 = f.t1 /\ n.iIdx = f.iIdx
          /\ n.intrq = f.intrq
      BY <1>1 DEF ResetDrq, Type
    <2> QED
      BY <2>1, <2>2
  <1>4. AnswerDrq(f) = g
    <2>1. AnswerDrq(f) = [n EXCEPT !.call = "none",
              !.got = IF DRQ \in f.sr /\ BUSY \in f.sr /\ ~f.t1 /\ \E m \in Lengths : @ <= m
                        THEN @ + 1 ELSE @]
      BY DEF AnswerDrq
    <2> QED
      BY <1>3, <2>1
  <1> HIDE DEF n, got
  <1>5. g \in Type
    BY ZenonT(30), <1>1, <1>2 DEF Type
  <1>6. /\ g.q = n.q /\ g.st = n.st /\ g.sr = n.sr /\ g.drq = n.drq /\ g.acc = n.acc
        /\ g.meddled = n.meddled /\ g.cmd = n.cmd /\ g.t1 = n.t1 /\ g.iIdx = n.iIdx
        /\ g.left = n.left /\ g.due = n.due /\ g.got = got /\ g.intrq = n.intrq
        /\ g.call = "none"
    <2>1. /\ g.st = n.st /\ g.sr = n.sr /\ g.acc = n.acc /\ g.cmd = n.cmd
          /\ g.left = n.left /\ g.due = n.due /\ g.got = got /\ g.call = "none"
      BY <1>1, <1>2 DEF Type
    <2>2. /\ g.q = n.q /\ g.drq = n.drq /\ g.meddled = n.meddled /\ g.t1 = n.t1
          /\ g.iIdx = n.iIdx /\ g.intrq = n.intrq
      BY <1>1, <1>2 DEF Type
    <2> QED
      BY <2>1, <2>2
  <1> HIDE DEF g
  <1>7. (BUSY \in g.sr <=> BUSY \in f.sr) /\ (LOST_DATA \in g.sr <=> LOST_DATA \in f.sr)
           /\ DRQ \notin g.sr /\ ~g.drq
    BY <1>3, <1>6 DEF BUSY, DRQ, LOST_DATA
  <1>8. Counted(g) <=> Counted(f)
    BY <1>3, <1>6, <1>7 DEF Counted
  <1>9. g.q => Before(g, g.st)
    <2>1. SUFFICES ASSUME g.q
                   PROVE  Before(g, g.st)
      OBVIOUS
    <2>2. Before(f, f.st) /\ f.q /\ BUSY \in f.sr
      BY <1>3, <1>6, <2>1 DEF FdcInv
    <2>3. Asked(g) = 0
      BY <1>7 DEF Asked
    <2>4. Counted(f) /\ f.due \in Lengths /\ f.got <= f.due => got = f.got + Asked(f)
      <3>1. Counted(f) => ~f.t1
        BY <1>1, <2>2, TypesDiffer, CommandsAssumption DEF FdcInv, Under, Counted, Type
      <3> QED
        BY <1>1, <2>2, <3>1 DEF got, counts, Asked
    <2>5. DRQ \notin f.sr => got = f.got
      BY DEF got, counts
    <2>6. f.due \in Nat
      BY <1>1 DEF Type
    <2>7. Account(g, g.st)
      <3>1. SUFFICES ASSUME Counted(f)
                     PROVE  Account(g, f.st)
        BY <1>3, <1>6, <1>8 DEF Account
      <3>2. Account(f, f.st)
        BY <2>2 DEF Before
      <3>3. g.left = f.left /\ g.due = f.due /\ g.got = got
        BY <1>3, <1>6
      <3>4. CASE f.st \in {"type2_1", "type2_2", "read_sector_1", "write_sector_1"}
        BY <1>7, <2>5, <3>1, <3>2, <3>3, <3>4 DEF Account, ReadStates, WriteStates
      <3>5. CASE f.st = "read_sector_2"
        <4>1. f.due \in Lengths /\ f.left + f.got + Asked(f) = f.due
          BY <3>1, <3>2, <3>5 DEF Account, ReadStates
        <4>2. f.got <= f.due
          BY <1>1, <2>6, <4>1 DEF Asked
        <4>3. g.left + g.got + Asked(g) = g.due
          BY <1>1, <2>3, <2>4, <3>1, <3>3, <4>1, <4>2 DEF Asked
        <4> QED
          BY <3>3, <3>5, <4>1, <4>3 DEF Account, ReadStates, WriteStates
      <3>6. CASE f.st \in {"read_sector_3", "write_sector_6"}
        <4>1. f.due \in Lengths /\ f.got + Asked(f) = f.due
          BY <3>1, <3>2, <3>6 DEF Account, ReadStates, WriteStates
        <4>2. f.got <= f.due
          BY <1>1, <2>6, <4>1 DEF Asked
        <4>3. g.got + Asked(g) = g.due
          BY <1>1, <2>3, <2>4, <3>1, <3>3, <4>1, <4>2 DEF Asked
        <4> QED
          BY <3>3, <3>6, <4>1, <4>3 DEF Account, ReadStates, WriteStates
      <3>7. CASE f.st \in {"write_sector_2", "write_sector_3", "write_sector_4",
                           "write_sector_5"}
        <4>1. f.due \in Lengths /\ f.left + f.got + Asked(f) = f.due + 1
          BY <3>1, <3>2, <3>7 DEF Account, WriteStates
        <4>2. f.left > 0
          BY <2>2, <3>7 DEF Before, Needy
        <4>3. f.got <= f.due
          BY <1>1, <2>6, <4>1, <4>2 DEF Asked
        <4>4. g.left + g.got + Asked(g) = g.due + 1
          BY <1>1, <2>3, <2>4, <3>1, <3>3, <4>1, <4>3 DEF Asked
        <4> QED
          BY <3>3, <3>7, <4>1, <4>4 DEF Account, ReadStates, WriteStates
      <3>8. CASE f.st \notin {"type2_1", "type2_2"} \union ReadStates \union WriteStates
        BY <3>8 DEF Account, ReadStates, WriteStates
      <3> QED
        BY <3>4, <3>5, <3>6, <3>7, <3>8 DEF ReadStates, WriteStates
    <2> QED
      BY <1>3, <1>6, <2>2, <2>7 DEF Before
  <1>10. BUSY \in g.sr => Under(g) /\ (g.q \/ g.iIdx \/ g.meddled \/ IsReadTrack(g.acc))
    BY <1>3, <1>6, <1>7 DEF FdcInv, Under
  <1>11. BUSY \notin g.sr => g.due = 0 /\ g.got = 0 /\ (g.acc # NoCommand => g.intrq)
    BY <1>3, <1>6, <1>7 DEF FdcInv, got, counts
  <1>12. g.q => BUSY \in g.sr
    BY <1>3, <1>6, <1>7 DEF FdcInv
  <1>13. FdcInv(g)
    BY <1>5, <1>6, <1>9, <1>10, <1>11, <1>12 DEF FdcInv, Writing
  <1> QED
    BY <1>3, <1>4, <1>6, <1>7, <1>13 DEF Done

LEMMA WriteRegisterInv ==
    ASSUME NEW f, FdcInv(f), NEW b \in Byte
    PROVE  /\ Done(f, WriteData(f, b)) /\ WriteData(f, b).acc = f.acc
           /\ BUSY \in f.sr => BUSY \in WriteData(f, b).sr
           /\ Done(f, WriteTrack(f, b)) /\ Done(f, WriteSector(f, b))
  <1> DEFINE a == AnswerDrq(f)
             d == WriteData(f, b)
             t == WriteTrack(f, b)
             s == WriteSector(f, b)
  <1>1. Done(f, a) /\ a.acc = f.acc /\ (BUSY \in f.sr => BUSY \in a.sr)
    BY AnswerDrqInv
  <1>2. d = [a EXCEPT !.dat = b]
    BY DEF WriteData
  <1> HIDE DEF a, d
  <1>3. FdcInv(a) /\ a \in Type
    BY <1>1 DEF Done, FdcInv
  <1>4. d \in Type
    BY <1>2, <1>3 DEF Type
  <1>5. /\ Same(a, d) /\ d.st = a.st /\ d.sr = a.sr
        /\ d.left = a.left /\ d.due = a.due /\ d.call = a.call
    BY <1>2, <1>3 DEF Type, Same
  <1>6. d.q = a.q /\ d.drq = a.drq /\ d.intrq = a.intrq
    BY <1>2, <1>3 DEF Type
  <1>7. Done(a, d)
    BY <1>3, <1>4, <1>5, <1>6, InvKept
  <1>8. f \in Type
    BY DEF FdcInv
  <1>9. Done(f, t)
    <2>1. t \in Type
      BY ZenonT(30), <1>8 DEF WriteTrack, Type
    <2>2. /\ Same(f, t) /\ t.st = f.st /\ t.sr = f.sr
          /\ t.left = f.left /\ t.due = f.due /\ t.call = "none"
      BY <1>8 DEF WriteTrack, Type, Same
    <2>3. t.q = f.q /\ t.drq = f.drq /\ t.intrq = f.intrq
      BY <1>8 DEF WriteTrack, Type
    <2> HIDE DEF t
    <2> QED
      BY <2>1, <2>2, <2>3, InvKept
  <1>10. Done(f, s)
    <2>1. s \in Type
      BY ZenonT(30), <1>8 DEF WriteSector, Type
    <2>2. /\ Same(f, s) /\ s.st = f.st /\ s.sr = f.sr
          /\ s.left = f.left /\ s.due = f.due /\ s.call = "none"
      BY <1>8 DEF WriteSector, Type, Same
    <2>3. s.q = f.q /\ s.drq = f.drq /\ s.intrq = f.intrq
      BY <1>8 DEF WriteSector, Type
    <2> HIDE DEF s
    <2> QED
      BY <2>1, <2>2, <2>3, InvKept
  <1> HIDE DEF t, s
  <1>11. Done(f, d) /\ d.acc = f.acc /\ (BUSY \in f.sr => BUSY \in d.sr)
    BY <1>1, <1>5, <1>7 DEF Done, Same
  <1> QED
    BY <1>9, <1>10, <1>11 DEF d, t, s

LEMMA ReadStatusInv ==
    ASSUME NEW f, FdcInv(f)
    PROVE  /\ Done(f, ReadStatus(f))
           /\ BUSY \in f.sr => BUSY \in ReadStatus(f).sr
  <1> DEFINE intrq == f.intrq /\ f.iImm
             lines == {b \in {TRACK_0, INDEX_PULSE} :
                          IF b = TRACK_0 THEN f.tr00 ELSE f.index}
             sr == IF f.t1 THEN (f.sr \ {TRACK_0, INDEX_PULSE}) \union lines ELSE f.sr
             acc == IF BUSY \in f.sr THEN f.acc ELSE NoCommand
             g == [[f EXCEPT !.intrq = intrq, !.sr = sr] EXCEPT !.call = "none", !.acc = acc]
  <1>1. f \in Type
    BY DEF FdcInv
  <1>2. ReadStatus(f) = g
    BY <1>1 DEF ReadStatus, Type
  <1>3. intrq \in BOOLEAN /\ acc \in 0..255 \union {NoCommand}
    BY <1>1 DEF Type
  <1>4. sr \in SUBSET Bits
    BY <1>1 DEF Type, Bits, TRACK_0, INDEX_PULSE, LOST_DATA, DRQ
  <1>5. (BUSY \in sr <=> BUSY \in f.sr) /\ (~f.t1 => sr = f.sr)
    BY DEF BUSY, TRACK_0, INDEX_PULSE
  <1> HIDE DEF intrq, sr
  <1>6. g \in Type
    <2>1. [f EXCEPT !.intrq = intrq, !.sr = sr] \in Type
      <3>1. f \in Type /\ intrq \in BOOLEAN /\ sr \in SUBSET Bits
        BY <1>1, <1>3, <1>4
      <3> QED
        BY ZenonT(30), <3>1 DEF Type
    <2> HIDE DEF acc
    <2> QED
      BY ZenonT(30), <1>3, <2>1 DEF Type
  <1>7. /\ g.sr = sr /\ g.acc = acc /\ g.st = f.st /\ g.cmd = f.cmd /\ g.left = f.left
        /\ g.due = f.due /\ g.got = f.got /\ g.call = "none"
    BY <1>1 DEF Type
  <1>8. /\ g.q = f.q /\ g.t1 = f.t1 /\ g.meddled = f.meddled /\ g.iIdx = f.iIdx
        /\ g.drq = f.drq
    BY <1>1 DEF Type
  <1> HIDE DEF g
  <1>9. ASSUME BUSY \in f.sr
        PROVE  FdcInv(g) /\ BUSY \in g.sr
    <2>1. g.acc = f.acc /\ BUSY \in g.sr
      BY <1>5, <1>7, <1>9
    <2>2. f.acc \in 0..255
      BY <1>1, <1>9 DEF FdcInv, Under, Type
    <2>3. IsType2(f.acc) \/ IsWriting(f.acc) => g.sr = f.sr
      BY <1>5, <1>7, <1>9, <2>2, TypesDiffer DEF FdcInv, Under
    <2>4. Under(g)
      BY <1>7, <1>8, <1>9, <2>1, <2>3 DEF FdcInv, Under
    <2>5. g.q => Before(g, g.st)
      <3>1. Counted(g) => Counted(f) /\ g.sr = f.sr
        BY <1>7, <1>8, <2>1, <2>3 DEF Counted
      <3> QED
        BY <1>7, <1>8, <2>1, <3>1 DEF FdcInv, Before, Account, Asked
    <2>6. g.q \/ g.iIdx \/ g.meddled \/ IsReadTrack(g.acc)
      BY <1>8, <1>9, <2>1 DEF FdcInv
    <2>7. Writing(g)
      BY <1>7 DEF Writing
    <2> QED
      BY <1>6, <2>1, <2>4, <2>5, <2>6, <2>7 DEF FdcInv
  <1>10. ASSUME BUSY \notin f.sr
         PROVE  FdcInv(g)
    <2>1. g.acc = NoCommand /\ BUSY \notin g.sr /\ ~g.q
      BY <1>5, <1>7, <1>8, <1>10 DEF FdcInv
    <2>2. g.due = 0 /\ g.got = 0
      BY <1>7, <1>10 DEF FdcInv
    <2>3. Writing(g)
      BY <1>7 DEF Writing
    <2> QED
      BY <1>6, <2>1, <2>2, <2>3 DEF FdcInv
  <1>11. FdcInv(g) /\ (BUSY \in f.sr => BUSY \in g.sr)
    BY <1>9, <1>10
  <1> QED
    BY <1>2, <1>8, <1>11 DEF Done

LEMMA SeeLinesInv ==
    ASSUME NEW f, FdcInv(f), NEW tr00 \in BOOLEAN, NEW wp \in BOOLEAN
    PROVE  LET g == [SeeLines(f, tr00, wp) EXCEPT !.call = "none"]
           IN  Done(f, g) /\ g.sr = f.sr /\ g.acc = f.acc
  <1> DEFINE s == SeeLines(f, tr00, wp)
             g == [s EXCEPT !.call = "none"]
  <1>1. f \in Type
    BY DEF FdcInv
  <1>2. s \in Type
    BY ZenonT(30), <1>1 DEF SeeLines, Type
  <1>3. /\ Same(f, s) /\ s.st = f.st /\ s.sr = f.sr /\ s.left = f.left /\ s.due = f.due
    BY <1>1 DEF SeeLines, Type, Same
  <1>4. s.q = f.q /\ s.drq = f.drq /\ s.intrq = f.intrq
    <2>1. s.q = f.q
      BY <1>1 DEF SeeLines, Type
    <2>2. s.drq = f.drq
      BY <1>1 DEF SeeLines, Type
    <2>3. s.intrq = f.intrq
      BY <1>1 DEF SeeLines, Type
    <2> QED
      BY <2>1, <2>2, <2>3
  <1> HIDE DEF s
  <1>5. g \in Type
    BY <1>2 DEF Type
  <1>6. /\ Same(s, g) /\ g.st = s.st /\ g.sr = s.sr /\ g.left = s.left /\ g.due = s.due
        /\ g.call = "none"
    BY <1>2 DEF Type, Same
  <1>7. g.q = s.q /\ g.drq = s.drq /\ g.intrq = s.intrq
    BY <1>2 DEF Type
  <1> HIDE DEF g
  <1>8. Done(f, g)
    BY <1>3, <1>4, <1>5, <1>6, <1>7, InvKept DEF Same
  <1> QED
    BY <1>3, <1>6, <1>8 DEF g, s, Same

LEMMA PulseInv ==
    ASSUME NEW f, FdcInv(f), NEW level \in BOOLEAN
    PROVE  LET g == [IndexPulse(f, level) EXCEPT !.call = "none"]
           IN  Done(f, g) /\ g.sr = f.sr /\ g.acc = f.acc
  <1> DEFINE p == IndexPulse(f, level)
             g == [p EXCEPT !.call = "none"]
  <1>1. /\ p \in Type /\ Same(f, p) /\ p.sr = f.sr /\ p.drq = f.drq
        /\ p.st = f.st /\ p.left = f.left /\ p.due = f.due
        /\ p.q = (f.q /\ ~(~f.index /\ level /\ f.iIdx)) /\ (f.intrq => p.intrq)
    BY PulseType DEF FdcInv
  <1> HIDE DEF p
  <1>2. g \in Type
    BY <1>1 DEF Type
  <1>3. /\ Same(p, g) /\ g.st = p.st /\ g.sr = p.sr /\ g.left = p.left /\ g.due = p.due
        /\ g.call = "none"
    BY <1>1 DEF Type, Same
  <1>4. g.q = p.q /\ g.drq = p.drq /\ g.intrq = p.intrq
    BY <1>1 DEF Type
  <1> HIDE DEF g
  <1>5. (g.q => f.q) /\ (f.q => g.q \/ g.iIdx)
    BY <1>1, <1>3, <1>4 DEF Same
  <1>6. g.q => Before(g, g.st)
    BY <1>1, <1>3, <1>5, BeforeKept DEF FdcInv, Same
  <1>7. BUSY \in g.sr => Under(g) /\ (g.q \/ g.iIdx \/ g.meddled \/ IsReadTrack(g.acc))
    BY <1>1, <1>3, <1>4, <1>5 DEF FdcInv, Under, Same
  <1>8. FdcInv(g)
    BY <1>1, <1>2, <1>3, <1>4, <1>5, <1>6, <1>7 DEF FdcInv, Writing, Same
  <1> QED
    BY <1>1, <1>3, <1>8 DEF Done, Same, g, p

(* A reset forgets the command, and a board may drop the lines with it. *)
Board(f, clear, tr00, wp) ==
    SeeLines([Reset(f) EXCEPT !.drq = @ /\ ~clear, !.intrq = @ /\ ~clear], tr00, wp)

LEMMA ResetInv ==
    ASSUME NEW f, FdcInv(f), NEW clear \in BOOLEAN, NEW tr00 \in BOOLEAN, NEW wp \in BOOLEAN
    PROVE  /\ Done(f, Board(f, clear, tr00, wp))
           /\ Board(f, clear, tr00, wp).acc = NoCommand
  <1> DEFINE call == IF HasSSO THEN "sso" ELSE "none"
             a == [f EXCEPT !.q = FALSE, !.sr = {}, !.tr = 0, !.sec = 0]
             b == [a EXCEPT !.dat = 0, !.cmd = 0, !.dir = -1, !.side = 0]
             c == [b EXCEPT !.call = call, !.acc = NoCommand, !.due = 0, !.got = 0]
             drq == c.drq /\ ~clear
             intrq == c.intrq /\ ~clear
             d == [c EXCEPT !.drq = drq, !.intrq = intrq]
             g == [d EXCEPT !.tr00 = tr00, !.wp = wp]
  <1>1. f \in Type /\ 0 \in Byte
    BY ByteAssumption DEF FdcInv, Byte
  <1>2. Reset(f) = c
    BY <1>1 DEF Reset, Type
  <1>3. Board(f, clear, tr00, wp) = g
    BY <1>2 DEF Board, SeeLines
  <1>4. a \in Type /\ a.q = FALSE /\ a.sr = {} /\ a.meddled = f.meddled
    BY ZenonT(30), <1>1 DEF Type
  <1> HIDE DEF a
  <1>5. b \in Type /\ b.q = FALSE /\ b.sr = {} /\ b.meddled = a.meddled
    <2>1. b \in Type
      <3> DEFINE e == [a EXCEPT !.dat = 0, !.cmd = 0]
      <3>1. a \in Type /\ 0 \in Byte /\ 0 \in 0..255
        BY <1>1, <1>4
      <3>2. e \in Type
        BY ZenonT(30), <3>1 DEF Type
      <3>3. b = [e EXCEPT !.dir = -1, !.side = 0]
        OBVIOUS
      <3> HIDE DEF e
      <3>4. [e EXCEPT !.dir = -1, !.side = 0] \in Type
        BY ZenonT(30), <3>2 DEF Type
      <3> QED
        BY <3>3, <3>4
    <2>2. b.q = FALSE /\ b.sr = {}
      BY <1>4 DEF Type
    <2>3. b.meddled = a.meddled
      BY <1>4 DEF Type
    <2> QED
      BY <2>1, <2>2, <2>3
  <1> HIDE DEF b
  <1>6. call \in {"none", "sso"}
    OBVIOUS
  <1> HIDE DEF call
  <1>7. c \in Type /\ c.q = FALSE /\ c.sr = {} /\ c.meddled = b.meddled /\ c.call = call
           /\ c.acc = NoCommand /\ c.due = 0 /\ c.got = 0
    BY ZenonT(30), <1>5, <1>6 DEF Type
  <1> HIDE DEF c
  <1>8. drq \in BOOLEAN /\ intrq \in BOOLEAN
    BY <1>7 DEF Type
  <1> HIDE DEF drq, intrq
  <1>9. d \in Type /\ d.q = FALSE /\ d.sr = {} /\ d.meddled = c.meddled /\ d.call = c.call
           /\ d.acc = c.acc /\ d.due = c.due /\ d.got = c.got
    <2>1. d \in Type
      <3>1. c \in Type /\ drq \in BOOLEAN /\ intrq \in BOOLEAN
        BY <1>7, <1>8
      <3> QED
        BY ZenonT(30), <3>1 DEF Type
    <2>2. d.sr = {} /\ d.call = c.call /\ d.acc = c.acc /\ d.due = c.due /\ d.got = c.got
      BY <1>7, <1>8 DEF Type
    <2>3. d.q = FALSE
      BY <1>7, <1>8 DEF Type
    <2>4. d.meddled = c.meddled
      BY <1>7, <1>8 DEF Type
    <2> QED
      BY <2>1, <2>2, <2>3, <2>4
  <1> HIDE DEF d
  <1>10. g \in Type /\ g.q = FALSE /\ g.sr = {} /\ g.meddled = d.meddled /\ g.call = d.call
           /\ g.acc = d.acc /\ g.due = d.due /\ g.got = d.got
    <2>1. g \in Type
      BY ZenonT(30), <1>9 DEF Type
    <2>2. g.sr = {} /\ g.call = d.call /\ g.acc = d.acc /\ g.due = d.due /\ g.got = d.got
      BY <1>9 DEF Type
    <2>3. g.q = FALSE
      BY <1>9 DEF Type
    <2>4. g.meddled = d.meddled
      BY <1>9 DEF Type
    <2> QED
      BY <2>1, <2>2, <2>3, <2>4
  <1> HIDE DEF g
  <1>11. FdcInv(g)
    BY <1>6, <1>7, <1>9, <1>10 DEF FdcInv, Writing
  <1> QED
    BY <1>3, <1>4, <1>5, <1>7, <1>9, <1>10, <1>11 DEF Done

-----------------------------------------------------------------------------
(* The steps.                                                              *)

LEMMA InitInv == Init => Inv
  <1> SUFFICES ASSUME NEW tr00 \in BOOLEAN, NEW wp \in BOOLEAN, fdc = New(tr00, wp)
               PROVE  Inv
    BY DEF Init
  <1>1. 0 \in Byte /\ 0 \in 0..(HoleLimit + 1) /\ 0 \in 0..255
    BY ByteAssumption, LengthsAssumption DEF Byte
  <1>2. New(tr00, wp) \in Type
    BY <1>1 DEF New, Type, States
  <1>3. /\ fdc.q = FALSE /\ fdc.sr = {} /\ fdc.due = 0 /\ fdc.got = 0 /\ fdc.acc = NoCommand
        /\ fdc.call = "none" /\ fdc.meddled = FALSE
    BY DEF New
  <1> QED
    BY <1>2, <1>3 DEF Inv, FdcInv, Writing

LEMMA NextInv == Inv /\ [Next]_fdc => Inv'
  <1> SUFFICES ASSUME Inv, [Next]_fdc
               PROVE  Inv'
    OBVIOUS
  <1>0. FdcInv(fdc) /\ (BusyCommands = {} => ~fdc.meddled)
    BY DEF Inv
  <1>1. ASSUME NEW g, fdc' = g, Done(fdc, g)
        PROVE  Inv'
    BY <1>0, <1>1 DEF Inv, Done
  <1>2. CASE UNCHANGED fdc
    BY <1>0, <1>2 DEF Inv, FdcInv, Writing, Under, Before, Account, Counted, Asked
  <1>3. ASSUME NEW r \in Responses, Resume(r)
        PROVE  Inv'
    <2>1. r \in AllResponses
      BY ResponsesAssumption
    <2>2. Done(fdc, Handler(fdc, r))
      BY <1>0, <1>3, <2>1, HandlerInv DEF Resume
    <2> QED
      BY <1>1, <1>3, <2>2 DEF Resume
  <1>4. ASSUME NEW c \in Commands, Command(c)
        PROVE  Inv'
    <2>1. PICK r : /\ fdc' = WriteCommand(fdc, c, r)
                   /\ IsType1(c) => r \in AllResponses
      BY <1>4, ResponsesAssumption DEF Command
    <2>2. c \in 0..255
      BY CommandsAssumption
    <2>3. /\ FdcInv(fdc')
          /\ fdc'.meddled => fdc.meddled \/ (BUSY \in fdc.sr /\ ~IsForce(c))
      BY <1>0, <2>1, <2>2, WriteCommandInv
    <2>4. BusyCommands = {} => ~fdc'.meddled
      BY <1>0, <1>4, <2>3 DEF Command
    <2> QED
      BY <2>3, <2>4 DEF Inv
  <1>5. CASE HostReadsStatus
    BY <1>0, <1>1, <1>5, ReadStatusInv DEF HostReadsStatus
  <1>6. CASE HostReadsData
    BY <1>0, <1>1, <1>6, AnswerDrqInv DEF HostReadsData
  <1>7. ASSUME NEW b \in HostBytes, HostWrites(b)
        PROVE  Inv'
    <2>1. b \in Byte
      BY HostAssumption
    <2> QED
      BY <1>0, <1>1, <1>7, <2>1, WriteRegisterInv DEF HostWrites
  <1>8. CASE HostResets
    <2>1. PICK clear \in BOOLEAN, tr00 \in BOOLEAN, wp \in BOOLEAN :
            fdc' = Board(fdc, clear, tr00, wp)
      BY <1>8 DEF HostResets, Board
    <2>2. Done(fdc, Board(fdc, clear, tr00, wp))
      BY <1>0, ResetInv
    <2> QED
      BY <1>1, <2>1, <2>2
  <1>9. CASE IndexMoves
    BY <1>0, <1>1, <1>9, PulseInv DEF IndexMoves
  <1>10. CASE DriveChanges
    BY <1>0, <1>1, <1>10, SeeLinesInv DEF DriveChanges
  <1> QED
    BY <1>2, <1>3, <1>4, <1>5, <1>6, <1>7, <1>8, <1>9, <1>10 DEF Next

LEMMA AlwaysInv == Spec => []Inv
  <1> QED
    BY InitInv, NextInv, PTL DEF Spec

(* Whatever the drive answers and the host does, a command under way has its next step
   on the event queue, but for the exceptions that BusyIsScheduled names, and nothing is
   queued for a command that is over (wd279x.c:127-131, 327-339, 395-457). *)
THEOREM CommandsGoOn == Spec => []BusyIsScheduled
  <1>1. Inv => BusyIsScheduled
    BY DEF Inv, FdcInv, Under, BusyIsScheduled
  <1> QED
    BY <1>1, AlwaysInv, PTL

(* The host is told of every end of a command by INTRQ, and of every byte of one by line
   and status bit alike (wd279x.c:109-126, 361-393). *)
THEOREM EndsAreTold == Spec => []HostTold
  <1>1. Inv => HostTold
    BY DEF Inv, FdcInv, Under, HostTold, EndInterrupts, DrqAgrees
  <1> QED
    BY <1>1, AlwaysInv, PTL

(* As long as the host gives no other command while BUSY, the disk is written only for
   a write command; MCWD279XBusy shows that it is not so otherwise (wd279x.c:400, 429). *)
THEOREM OnlyWritesWrite ==
    ASSUME BusyCommands = {}
    PROVE  Spec => []WritesCommanded
  <1>1. Inv => WritesCommanded
    BY DEF Inv, FdcInv, Writing, WritesCommanded
  <1> QED
    BY <1>1, AlwaysInv, PTL

(* The step that ends a sector finds every byte of it transferred, or the host was told
   of LOST DATA: the account is settled (wd279x.c:748-890). *)
THEOREM SectorsAccounted == Spec => NoSilentLoss
  <1> DEFINE P == /\ fdc.q /\ fdc.st \in {"read_sector_3", "write_sector_6"}
                  /\ BUSY \notin fdc'.sr /\ fdc'.acc # NoCommand
                  /\ ~fdc.meddled /\ ~Bit(fdc.acc, 4) /\ LOST_DATA \notin fdc'.sr
             Q == fdc.got + (IF DRQ \in fdc'.sr THEN 1 ELSE 0) = fdc.due
  <1>1. ASSUME Inv, Next, P
        PROVE  Q
    <2>0. FdcInv(fdc) /\ BUSY \in fdc.sr
      BY <1>1 DEF Inv, FdcInv
    <2>1. PICK r \in Responses : Resume(r)
      <3>1. ASSUME NEW c \in Commands, Command(c)
            PROVE  FALSE
        <4>1. PICK r : fdc' = WriteCommand(fdc, c, r)
          BY <3>1 DEF Command
        <4>2. c \in 0..255
          BY CommandsAssumption
        <4>3. CASE IsForce(c)
          BY <1>1, <2>0, <4>1, <4>2, <4>3, ForceInterruptInv DEF WriteCommand
        <4>4. CASE ~IsForce(c)
          BY <1>1, <2>0, <4>1, <4>4 DEF WriteCommand, WhileBusy, FdcInv, Type
        <4> QED
          BY <4>3, <4>4
      <3>2. ~HostReadsStatus
        BY <1>1, <2>0, ReadStatusInv DEF HostReadsStatus
      <3>3. ~HostReadsData
        BY <1>1, <2>0, AnswerDrqInv DEF HostReadsData
      <3>4. ASSUME NEW b \in HostBytes, HostWrites(b)
            PROVE  FALSE
        <4>1. b \in Byte
          BY HostAssumption
        <4> QED
          BY <1>1, <2>0, <3>4, <4>1, WriteRegisterInv DEF HostWrites
      <3>5. ASSUME HostResets
            PROVE  FALSE
        <4>1. PICK clear \in BOOLEAN, tr00 \in BOOLEAN, wp \in BOOLEAN :
                fdc' = Board(fdc, clear, tr00, wp)
          BY <3>5 DEF HostResets, Board
        <4>2. fdc'.acc = NoCommand
          BY <2>0, <4>1, ResetInv
        <4> QED
          BY <1>1, <4>2
      <3>6. ASSUME IndexMoves
            PROVE  FALSE
        <4>1. PICK level \in BOOLEAN : fdc' = [IndexPulse(fdc, level) EXCEPT !.call = "none"]
          BY <3>6 DEF IndexMoves
        <4>2. fdc'.sr = fdc.sr
          BY <2>0, <4>1, PulseInv
        <4> QED
          BY <1>1, <2>0, <4>2
      <3>7. ASSUME DriveChanges
            PROVE  FALSE
        <4>1. PICK tr00 \in BOOLEAN, wp \in BOOLEAN :
                fdc' = [SeeLines(fdc, tr00, wp) EXCEPT !.call = "none"]
          BY <3>7 DEF DriveChanges
        <4>2. fdc'.sr = fdc.sr
          BY <2>0, <4>1, SeeLinesInv
        <4> QED
          BY <1>1, <2>0, <4>2
      <3> QED
        BY <1>1, <3>1, <3>2, <3>3, <3>4, <3>5, <3>6, <3>7 DEF Next
    <2> DEFINE f == [fdc EXCEPT !.q = FALSE, !.call = "none"]
    <2>2. fdc' = Handler(fdc, r) /\ r \in AllResponses
      BY <2>1, ResponsesAssumption DEF Resume
    <2>3. /\ Mid(f) /\ Same(fdc, f) /\ f.st = fdc.st /\ Before(f, f.st)
          /\ f.sr = fdc.sr /\ f.due = fdc.due
      BY <1>1, <2>0, ResumedMid
    <2>4. fdc' = IF f.st = "read_sector_3" THEN ReadSector3(f, r) ELSE WriteSector6(f, r)
      BY <1>1, <2>2, <2>3 DEF Handler
    <2> HIDE DEF f
    <2>5. IsType2(f.acc) /\ ~f.meddled /\ ~Bit(f.acc, 4) /\ ~Bit(f.cmd, 4)
      BY <1>1, <2>3 DEF Before, Stage, ReadStates, WriteStates, Mid, Under, Same
    <2>6. fdc'.sr = f.sr \ {BUSY} \/ fdc'.sr = (f.sr \union {CRC_ERROR}) \ {BUSY}
      <3>1. CASE f.st = "read_sector_3"
        <4> DEFINE g == IF r.ok THEN f ELSE Set(f, {CRC_ERROR})
        <4>1. {CRC_ERROR} \in SUBSET (Bits \ {BUSY, DRQ})
          BY DEF Bits, CRC_ERROR, BUSY, DRQ
        <4>2. Mid(g) /\ Same(f, g) /\ (g.sr = f.sr \/ g.sr = f.sr \union {CRC_ERROR})
          BY <2>3, <4>1, BitsMid DEF Same
        <4>3. fdc' = NextSector(g)
          BY <2>4, <3>1 DEF ReadSector3
        <4> HIDE DEF g
        <4>4. fdc' = End(g)
          BY <2>5, <4>2, <4>3 DEF NextSector, Same
        <4>5. fdc'.sr = g.sr \ {BUSY}
          BY <4>2, <4>4, EndInv
        <4> QED
          BY <4>2, <4>5
      <3>2. CASE f.st = "write_sector_6"
        <4> DEFINE g == Drive(f, "write", r)
        <4>1. "write" \in Ops /\ (~f.meddled => IsWriting(f.acc))
          BY <2>3, <3>2 DEF Ops, Before, Stage, WriteStates, IsWriting, WriteBit
        <4>2. Mid(g) /\ Same(f, g) /\ g.sr = f.sr
          BY <2>2, <2>3, <4>1, DriveMid
        <4>3. fdc' = NextSector(g)
          BY <2>4, <3>2 DEF WriteSector6
        <4> HIDE DEF g
        <4>4. fdc' = End(g)
          BY <2>5, <4>2, <4>3 DEF NextSector, Same
        <4>5. fdc'.sr = g.sr \ {BUSY}
          BY <4>2, <4>4, EndInv
        <4> QED
          BY <4>2, <4>5
      <3> QED
        BY <1>1, <2>3, <3>1, <3>2
    <2>7. /\ DRQ \in fdc'.sr <=> DRQ \in f.sr
          /\ LOST_DATA \in fdc'.sr <=> LOST_DATA \in f.sr
      BY <2>6 DEF BUSY, DRQ, LOST_DATA, CRC_ERROR
    <2>8. Counted(f)
      BY <1>1, <2>5, <2>7 DEF Counted
    <2>9. f.got + Asked(f) = f.due
      BY <1>1, <2>3, <2>8 DEF Before, Account, ReadStates, WriteStates
    <2> QED
      BY <2>3, <2>7, <2>9 DEF Asked, Same
  <1>2. Inv /\ [Next]_fdc => [P => Q]_fdc
    BY <1>1
  <1> QED
    BY <1>2, AlwaysInv, PTL DEF Spec, NoSilentLoss
===============================================================================
