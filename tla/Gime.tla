---------------------------------- MODULE Gime ----------------------------------
(***************************************************************************)
(* The frames and the timer of the GIME, tcc1014/tcc1014.c.  Three events   *)
(* follow one another in each line: HS falls, the vertical border's point,  *)
(* the horizontal border's.  The second counts lines through sync, top      *)
(* border, active area and bottom border, which is a border with no end;    *)
(* the third counts lines of a row.  The program writes any register        *)
(* between any two, and each write works out some of the counts again and   *)
(* leaves the others to the next frame.  Interrupts but the timer's are in  *)
(* Slots.                                                                   *)
(***************************************************************************)
EXTENDS Integers

CONSTANTS
    VRES_LPF_lTB, \* lines of top border: for 50 Hz or not, and LPF
    VRES_LPF_lAA, \* lines of active area
    FrameLines,   \* lines of a frame, lF: for 50 Hz or not
    Settings,     \* what the registers for video may hold
    Offsets,      \* values of the vertical offset, Y
    LastWrite,    \* bounds changes and resets in a frame
    LowSize       \* values of the timer's low byte, and 2 of its high byte

Endless == 65535
SyncLines == 7
Tables == [top |-> VRES_LPF_lTB, active |-> VRES_LPF_lAA, frame |-> FrameLines]

\* The tables as they were measured.
MeasuredTables ==
    [top |-> [h \in BOOLEAN |-> [p \in 0..3 |->
                 IF h THEN <<63, 59, Endless, 46>>[p + 1] ELSE <<36, 34, Endless, 19>>[p + 1]]],
     active |-> [p \in 0..3 |-> <<192, 199, Endless, 225>>[p + 1]],
     frame |-> [h \in BOOLEAN |-> IF h THEN 314 ELSE 263]]

\* What the code relies on in them: an active area ends within its frame, which ends
\* before a border with no end would, a bottom border is shorter than a top border of the
\* same mode, and an LPF of 2 has no active area.
Fits(t) ==
    /\ t.top \in [BOOLEAN -> [0..3 -> Nat]] /\ t.active \in [0..3 -> Nat \ {0}]
    /\ t.frame \in [BOOLEAN -> 0..(Endless - 1)]
    /\ \A h \in BOOLEAN :
          /\ t.top[h][2] >= t.frame[h]
          /\ \A p \in {0, 1, 3} :
                LET end == SyncLines + t.top[h][p] + t.active[p]
                IN  end < t.frame[h] /\ t.frame[h] - 1 - end < t.top[h][p]

\* Fields that are written together.
Written ==
    {{"COCO"}, {"H50", "BP", "LPR"}, {"LPF", "HRES", "CRES"}, {"VSC"}, {"HVEN"}, {"GnA"}, {"V"},
     {"F"}}

Zeroed ==
    [COCO |-> FALSE, H50 |-> FALSE, BP |-> FALSE, LPR |-> 0, LPF |-> 0, HRES |-> 0, CRES |-> 0,
     VSC |-> 0, HVEN |-> FALSE, GnA |-> FALSE, V |-> 0, F |-> 0]

ASSUME GimeAssumption ==
    /\ Fits(Tables) /\ Fits(MeasuredTables)
    /\ Settings \subseteq
          [COCO : BOOLEAN, H50 : BOOLEAN, BP : BOOLEAN, LPR : 0..7, LPF : 0..3, HRES : 0..7,
           CRES : 0..3, VSC : 0..15, HVEN : BOOLEAN, GnA : BOOLEAN, V : 0..7, F : 0..127]
    /\ Zeroed \in Settings
    /\ 0 \in Offsets /\ \A y \in Offsets : y \in Nat /\ y < 524288 /\ y % 8 = 0
    /\ LastWrite \in Nat /\ LowSize \in Nat \ {0}

VARIABLES
    vreg, \* the registers, with the bits snooped at $FF22 and those of the SAM
    Y,    \* the vertical offset
    vert, \* the counts of lines and rows, and the event that is due next
    shot, \* history: the frame being shown
    tmr   \* the timer, its registers, and its interrupt in registers[2] and irq_state

gimeVars == <<vreg, Y, vert, shot, tmr>>

Verts ==
    [next : {"hs", "vb", "hb"}, scanline : Nat, lcount : Nat, lF : Nat, lTB : Nat, lAA : Nat,
     sync : BOOLEAN, active_area : BOOLEAN, fs : BOOLEAN,
     row : 0..15, row_advance : BOOLEAN, row_stride : Nat, B : Nat]

Shots ==
    [shape : BOOLEAN,     \* COCO, H50 and LPF are as when it began
     rows : BOOLEAN,      \* all registers are as when its active area began
     carried : BOOLEAN,   \* it began within the active area of the last
     rewritten : BOOLEAN, \* a register was written in it
     base : Nat,          \* where it starts
     vbords : Nat,        \* vertical border interrupts
     writes : 0..LastWrite]

Timers ==
    [TINS : BOOLEAN, high : 0..1, low : 0..(LowSize - 1), timer_offset : 1..2, counter : Nat,
     queued : BOOLEAN,                   \* update_event
     enabled : BOOLEAN, pending : BOOLEAN,
     value : Nat,                        \* history: what it was last loaded with,
     lines : Nat]                        \* and the lines since

-----------------------------------------------------------------------------
\* What a mode comes to.
TopLines(r) == VRES_LPF_lTB[r.H50][IF r.COCO THEN 0 ELSE r.LPF]
ActiveLines(r) == VRES_LPF_lAA[IF r.COCO THEN 0 ELSE r.LPF]

LPR_rowmask == [n \in 0..7 |-> <<0, 1, 2, 8, 9, 10, 11, 16>>[n + 1]]
SAM_V_rowmask == [n \in 0..7 |-> <<3, 3, 3, 2, 2, 1, 1, 1>>[n + 1]]
VSC_rowmask == [n \in 0..15 |-> CASE n <= 10 -> 11 - n [] n = 15 -> 12 [] OTHER -> 15 - n]

\* (VSC 11 to 14 give 4, 3, 2 and 1.)
Rowmask(r) ==
    CASE ~r.COCO -> LPR_rowmask[r.LPR]
      [] r.COCO /\ r.GnA -> SAM_V_rowmask[r.V]
      [] r.COCO /\ ~r.GnA -> VSC_rowmask[r.VSC]

BPR(r) ==
    CASE r.COCO -> IF ~r.GnA \/ r.V % 2 = 0 THEN 32 ELSE 16
      [] ~r.COCO /\ r.BP -> <<16, 20, 32, 40, 64, 80, 128, 160>>[r.HRES + 1]
      [] ~r.COCO /\ ~r.BP -> <<32, 40, 32, 40, 64, 80, 64, 80>>[r.HRES + 1]

RowStride(r) ==
    CASE r.HVEN -> 256
      [] ~r.HVEN /\ ~r.COCO /\ ~r.BP /\ r.CRES % 2 = 1 -> 2 * BPR(r)
      [] OTHER -> BPR(r)

FrameBase(r, y) ==
    IF r.COCO THEN (y \div 65536) * 65536 + (y % 512) + r.F * 512 ELSE y

\* A row number has every bit of the mask.
Full(row, mask) ==
    \A b \in {1, 2, 4, 8, 16} : (mask \div b) % 2 = 1 => (row \div b) % 2 = 1

-----------------------------------------------------------------------------
\* schedule_timer
ScheduleTimer(t) ==
    LET timer_reset == t.high * LowSize + t.low
    IN  [t EXCEPT !.counter = IF timer_reset = 0 THEN 0 ELSE timer_reset + t.timer_offset,
                  !.queued = t.TINS /\ timer_reset > 0,
                  !.value = timer_reset, !.lines = 0]

\* update_timer
UpdateTimer(t) == ScheduleTimer([t EXCEPT !.pending = @ \/ t.enabled])

\* The timer at the end of a line, unless it has a rate of its own.
Counted(t) ==
    LET c == [t EXCEPT !.counter = @ - 1, !.lines = @ + 1]
    IN  CASE t.TINS \/ t.counter = 0 -> t
          [] ~t.TINS /\ t.counter > 1 -> c
          [] ~t.TINS /\ t.counter = 1 -> UpdateTimer(c)

\* do_hs_fall
GimeHsFall ==
    /\ vert.next = "hs"
    /\ vert' = [vert EXCEPT !.scanline = @ + 1, !.next = "vb"]
    /\ tmr' = Counted(tmr)
    /\ UNCHANGED <<vreg, Y, shot>>

\* At the end of a line's active area a row goes on, or ends.
\* (Slip: row_advance is not cleared.)
RowOnKept(v, r) ==
    LET onto == (v.row + 1) % 16
    IN  IF v.active_area
        THEN [v EXCEPT !.row = onto, !.row_advance = @ \/ Full(onto, Rowmask(r))]
        ELSE v

RowOn(v, r) ==
    LET onto == (v.row + 1) % 16
    IN  IF v.active_area
        THEN [v EXCEPT !.row = onto, !.row_advance = Full(onto, Rowmask(r))]
        ELSE [v EXCEPT !.row_advance = FALSE]

\* do_hb_irq
GimeHbIrq ==
    /\ vert.next = "hb"
    /\ vert' = [RowOn(vert, vreg) EXCEPT !.next = "hs"]
    /\ UNCHANGED <<vreg, Y, shot, tmr>>

\* The first half of do_vb_irq: a row that is full ends, and the address goes on by the
\* stride of the line that ends.  LPR 7 is a row without an end.
RowEnds(v, r) ==
    LET ends == v.active_area /\ Full(v.row, Rowmask(r))
        advances == v.active_area /\ (v.row_advance \/ ends) /\ (r.COCO \/ r.LPR # 7)
    IN  [v EXCEPT !.row = IF ends THEN 0 ELSE @,
                  !.row_advance = IF v.active_area THEN advances ELSE @,
                  !.B = IF advances THEN @ + v.row_stride ELSE @,
                  !.row_stride = RowStride(r), !.lcount = @ + 1, !.next = "hb"]

\* Its second half, by where in the frame the line is: FS falls,
FrameBegins(v) ==
    /\ v.scanline >= v.lF
    /\ vert' = [v EXCEPT !.fs = FALSE, !.lAA = ActiveLines(vreg), !.lF = FrameLines[vreg.H50],
                         !.lTB = TopLines(vreg), !.sync = TRUE, !.lcount = 0, !.scanline = 0]
    /\ shot' = [shape |-> TRUE, rows |-> FALSE, carried |-> v.active_area, rewritten |-> FALSE,
                base |-> 0, vbords |-> 0, writes |-> 0]

\* sync and blanking,
InSync(v) ==
    /\ v.scanline < v.lF /\ v.sync
    /\ LET over == v.lcount >= SyncLines
       IN  /\ vert' = [v EXCEPT !.fs = @ \/ v.lcount = 4,
                                !.B = IF over THEN FrameBase(vreg, Y) ELSE @,
                                !.sync = ~over, !.lcount = IF over THEN 0 ELSE @]
           /\ shot' = IF over THEN [shot EXCEPT !.base = FrameBase(vreg, Y)] ELSE shot

\* border,
FirstRow(r) == IF r.COCO \/ Full(r.VSC, Rowmask(r)) THEN 0 ELSE r.VSC

InBorder(v) ==
    /\ v.scanline < v.lF /\ ~v.sync /\ ~v.active_area
    /\ IF v.lcount >= v.lTB
       THEN /\ vert' = [v EXCEPT !.row = FirstRow(vreg), !.active_area = TRUE, !.lcount = 0]
            /\ shot' = [shot EXCEPT !.rows = TRUE]
       ELSE vert' = v /\ UNCHANGED shot

\* active area.
InActiveArea(v) ==
    /\ v.scanline < v.lF /\ ~v.sync /\ v.active_area
    /\ IF v.lcount >= v.lAA
       THEN /\ vert' = [v EXCEPT !.lTB = Endless, !.active_area = FALSE, !.lcount = 0]
            /\ shot' = [shot EXCEPT !.vbords = @ + 1]
       ELSE vert' = v /\ UNCHANGED shot

\* do_vb_irq
GimeVbIrq ==
    /\ vert.next = "vb"
    /\ LET v == RowEnds(vert, vreg)
       IN  FrameBegins(v) \/ InSync(v) \/ InBorder(v) \/ InActiveArea(v)
    /\ UNCHANGED <<vreg, Y, tmr>>

-----------------------------------------------------------------------------
\* A register for video is written, or $FF22, or a bit of the SAM, with what it holds or
\* something else: tcc1014_set_register and update_from_gime_registers.
Rewrite ==
    /\ vert' = [vert EXCEPT !.lTB = TopLines(vreg)]
    /\ shot' = [shot EXCEPT !.rewritten = TRUE]
    /\ UNCHANGED <<vreg, Y, tmr>>

Write(r) ==
    /\ shot.writes < LastWrite /\ r # vreg
    /\ \E fields \in Written : \A f \in DOMAIN r \ fields : r[f] = vreg[f]
    /\ vreg' = r
    /\ vert' = [vert EXCEPT !.lTB = TopLines(r)]
    /\ shot' = [shot EXCEPT !.writes = @ + 1, !.rewritten = TRUE, !.rows = FALSE,
                            !.shape = @ /\ r.COCO = vreg.COCO /\ r.H50 = vreg.H50
                                        /\ r.LPF = vreg.LPF]
    /\ UNCHANGED <<Y, tmr>>

WriteOffset(y) ==
    /\ shot.writes < LastWrite /\ y # Y
    /\ Y' = y /\ shot' = [shot EXCEPT !.writes = @ + 1]
    /\ UNCHANGED <<vreg, vert, tmr>>

\* The timer's: the rate, the high byte, which loads it, the low byte, which does not,
WriteRate(tins) ==
    /\ tmr' = IF tins = tmr.TINS THEN tmr ELSE ScheduleTimer([tmr EXCEPT !.TINS = tins])
    /\ UNCHANGED <<vreg, Y, vert, shot>>

WriteHigh(high) ==
    /\ tmr' = ScheduleTimer([tmr EXCEPT !.high = high])
    /\ UNCHANGED <<vreg, Y, vert, shot>>

WriteLow(low) ==
    /\ tmr' = [tmr EXCEPT !.low = low]
    /\ UNCHANGED <<vreg, Y, vert, shot>>

\* the interrupt, which is raised as it is enabled if the timer stands still,
EnableTimer(enabled) ==
    /\ tmr' = [tmr EXCEPT !.enabled = enabled,
                          !.pending = enabled /\ (@ \/ (~tmr.enabled /\ tmr.counter = 0))]
    /\ UNCHANGED <<vreg, Y, vert, shot>>

\* and its acknowledgement.
AcknowledgeTimer ==
    /\ tmr' = [tmr EXCEPT !.pending = FALSE]
    /\ UNCHANGED <<vreg, Y, vert, shot>>

\* do_update_timer
DoUpdateTimer ==
    /\ tmr.queued
    /\ tmr' = UpdateTimer(tmr)
    /\ UNCHANGED <<vreg, Y, vert, shot>>

\* tcc1014_reset.  The registers are zeroed in order, so that the timer is loaded with
\* what its low byte was.  The events queued for this line, and the active area, stay.
GimeReset ==
    /\ shot.writes < LastWrite
    /\ vreg' = Zeroed /\ Y' = 0
    /\ vert' = [vert EXCEPT !.scanline = 0, !.sync = TRUE, !.lcount = 0, !.row = 0,
                            !.lTB = TopLines(Zeroed)]
    /\ shot' = [shot EXCEPT !.writes = @ + 1, !.shape = FALSE, !.rows = FALSE]
    /\ tmr' = [ScheduleTimer([tmr EXCEPT !.TINS = FALSE, !.high = 0])
                 EXCEPT !.low = 0, !.enabled = FALSE, !.pending = FALSE]

\* Of the two GIMEs there are.
TimerInit ==
    \E offset \in 1..2 :
       tmr = [TINS |-> FALSE, high |-> 0, low |-> 0, timer_offset |-> offset, counter |-> 0,
              queued |-> FALSE, enabled |-> FALSE, pending |-> FALSE, value |-> 0, lines |-> 0]

GimeInit ==
    /\ vreg = Zeroed /\ Y = 0
    /\ vert = [next |-> "hs", scanline |-> 0, lcount |-> 0, lF |-> 0, lTB |-> TopLines(Zeroed),
               lAA |-> 0, sync |-> TRUE, active_area |-> FALSE, fs |-> FALSE, row |-> 0,
               row_advance |-> FALSE, row_stride |-> 0, B |-> 394240]
    /\ shot = [shape |-> FALSE, rows |-> FALSE, carried |-> FALSE, rewritten |-> FALSE,
               base |-> 0, vbords |-> 0, writes |-> 0]
    /\ TimerInit

LineNext == GimeHsFall \/ GimeVbIrq \/ GimeHbIrq \/ GimeReset

FramesNext ==
    \/ LineNext \/ Rewrite
    \/ \E r \in Settings : Write(r)
    \/ \E y \in Offsets : WriteOffset(y)

TimerNext ==
    \/ LineNext \/ DoUpdateTimer \/ AcknowledgeTimer
    \/ \E high \in 0..1 : WriteHigh(high)
    \/ \E low \in 0..(LowSize - 1) : WriteLow(low)
    \/ \E on \in BOOLEAN : WriteRate(on) \/ EnableTimer(on)

GimeSpec == GimeInit /\ [][FramesNext \/ TimerNext]_gimeVars

-----------------------------------------------------------------------------
\* Lines of the frame the vertical border's point has been through.
LinesDone == IF vert.next = "vb" THEN vert.scanline - 1 ELSE vert.scanline

\* A frame of one shape has its sync, its active area and its interrupt where the tables
\* put them, once each.  One that began within the active area has no top border; that
\* is put right in one frame unless registers are written in it.
FrameShape ==
    LET r == vreg
        begins == SyncLines + TopLines(r)
        ends == begins + ActiveLines(r)
    IN  /\ vert.sync = (LinesDone < SyncLines)
        /\ vert.fs = (LinesDone >= 4)
        /\ LinesDone < FrameLines[r.H50]
        /\ ~shot.carried =>
              /\ vert.active_area = (LinesDone >= begins /\ LinesDone < ends)
              /\ shot.vbords = IF LinesDone >= ends THEN 1 ELSE 0
        /\ shot.carried /\ ~shot.rewritten =>
              vert.active_area = (LinesDone < SyncLines + ActiveLines(r))

\* Rows that have ended after n lines from row first: the first may be shorter, and one
\* ends when its number next has every bit of the mask.
LinesToEnd(row, mask) ==
    LET full == {k \in 1..16 : Full((row + k) % 16, mask)}
    IN  CHOOSE k \in full : \A j \in full : k <= j

RowsEnded(first, mask, n) ==
    IF mask = 16 \/ n < LinesToEnd(first, mask) THEN 0
    ELSE 1 + (n - LinesToEnd(first, mask)) \div LinesToEnd(0, mask)

\* Each line is fetched from where its row begins.
RowsInPlace ==
    LET begins == SyncLines + TopLines(vreg)
        n == LinesDone - begins
        lines == IF n < ActiveLines(vreg) THEN n ELSE ActiveLines(vreg)
    IN  n >= 0 =>
        vert.B = shot.base
                 + RowStride(vreg) * RowsEnded(FirstRow(vreg), Rowmask(vreg), lines)

\* The timer counts by lines or by its event and never by both; it comes as many lines
\* after it was loaded as it was loaded with, the GIME's own offset added.
TimerCounts ==
    /\ tmr.queued = (tmr.TINS /\ tmr.counter > 0)
    /\ tmr.counter = IF tmr.value = 0 THEN 0 ELSE tmr.value + tmr.timer_offset - tmr.lines
    /\ tmr.value > 0 => tmr.counter > 0
    /\ tmr.pending => tmr.enabled

\* Whatever is written in the middle of frames, a frame that keeps its shape is whole,
\* and one that keeps its mode shows each row from its place; the timer is on time.
FramesWhole ==
    /\ vert \in Verts /\ shot \in Shots /\ tmr \in Timers
    /\ shot.shape => FrameShape
    /\ shot.shape /\ shot.rows /\ ~shot.carried => RowsInPlace
    /\ TimerCounts
=============================================================================
