---------------------------------- MODULE Sam ----------------------------------
(***************************************************************************)
(* The video address counter of the SAM, mc6883.c, and the VDG that drives  *)
(* it, mc6847.c.  The counter is a chain of dividers, each of which counts  *)
(* the falling edges of another's output; which, the program chooses at any *)
(* time.  The VDG asks for a line's bytes in pieces, as far as its beam has *)
(* come, ends the line by HS and the frame by FS; both clear dividers.      *)
(***************************************************************************)
EXTENDS Integers, Sequences, SequencesExt

CONSTANTS
    Bases,     \* values of F, as the rows of 32 bytes they are at
    Fetches,   \* what the beam may have gone on by, in bytes
    LastLine,  \* bounds the lines of a frame
    LastChange \* bounds the changes the program makes in a frame

ASSUME SamAssumption ==
    /\ 0 \in Bases /\ \A b \in Bases : b \in 0..2047 /\ b % 16 = 0
    /\ Fetches \subseteq Nat \ {0} /\ LastLine \in Nat /\ LastChange \in Nat

VARIABLES
    sam,   \* struct MC6883_private: V, F and the counters
    frame  \* the frame the VDG draws: its base, the line, bytes of it, 32-byte lines or 16

samVars == <<sam, frame>>

-----------------------------------------------------------------------------
\* In the order of the array; B3_0 counts bytes and has no input.
Dividers == <<"B15_5", "YDIV4", "YDIV3", "YDIV2", "B4", "XDIV3", "XDIV2">>
Counters == {"B3_0"} \union {Dividers[i] : i \in 1..7}

ValMod ==
    [B15_5 |-> 2048, YDIV4 |-> 4, YDIV3 |-> 3, YDIV2 |-> 2, B4 |-> 2, XDIV3 |-> 3,
     XDIV2 |-> 2, B3_0 |-> 16]

\* A counter's output for its value, by out_mask.
Output(i, val) ==
    CASE i \in {"YDIV4", "YDIV3", "XDIV3"} -> (val \div 2) % 2 = 1
      [] i \in {"YDIV2", "B4", "XDIV2"} -> val % 2 = 1
      [] i = "B3_0" -> val >= 8
      [] i \in {"B15_5", "GROUND"} -> FALSE

\* The modes V, with what they divide lines (Y) and half lines (X) by.
vdg_ydivs == [V \in 0..7 |-> CASE V = 0 -> 12 [] V = 2 -> 3 [] V = 4 -> 2 [] OTHER -> 1]
vdg_xdivs == [V \in 0..7 |-> CASE V = 1 -> 3 [] V = 3 -> 2 [] OTHER -> 1]
vdg_hclrs == [V \in 0..7 |-> IF V = 7 THEN "CLRN" ELSE IF V % 2 = 0 THEN "CLR4" ELSE "CLR3"]

YSource == [d \in {1, 2, 3, 12} |-> CASE d = 12 -> "YDIV4" [] d = 3 -> "YDIV3"
                                      [] d = 2 -> "YDIV2" [] d = 1 -> "B4"]
XSource == [d \in {1, 2, 3} |-> CASE d = 3 -> "XDIV3" [] d = 2 -> "XDIV2" [] d = 1 -> "B3_0"]

Sams ==
    [V : 0..7, F : Bases, value : [Counters -> 0..2047],
     input : [Counters -> BOOLEAN], input_from : [{"B15_5", "B4"} -> Counters]]

InputFrom(s, i) ==
    CASE i \in {"B15_5", "B4"} -> s.input_from[i]
      [] i = "YDIV4" -> "YDIV3"
      [] i \in {"YDIV3", "YDIV2"} -> "B4"
      [] i \in {"XDIV3", "XDIV2"} -> "B3_0"

-----------------------------------------------------------------------------
RECURSIVE VcounterSet(_, _, _)

\* Falling edges count.
VcounterUpdate(s, i) ==
    LET from == InputFrom(s, i)
        new_input == from # "GROUND" /\ Output(from, s.value[from])
        t == [s EXCEPT !.input[i] = new_input]
    IN  IF new_input = s.input[i] THEN s
        ELSE IF new_input THEN t
        ELSE VcounterSet(t, i, (t.value[i] + 1) % ValMod[i])

VcounterSet(s, i, val) ==
    FoldLeft(LAMBDA t, j : IF InputFrom(t, j) = i THEN VcounterUpdate(t, j) ELSE t,
             [s EXCEPT !.value[i] = val], Dividers)

UpdateAll(s, order) == FoldLeft(VcounterUpdate, s, order)

\* mc6883_vdg_hsync, of the falling edge.
VdgHsync(s) ==
    CASE vdg_hclrs[s.V] = "CLR4" ->
           UpdateAll([s EXCEPT !.value["B3_0"] = 0, !.value["B4"] = 0, !.input["XDIV3"] = FALSE,
                               !.input["XDIV2"] = FALSE, !.input["B4"] = FALSE],
                     <<"YDIV2", "YDIV3", "YDIV4", "B15_5">>)
      [] vdg_hclrs[s.V] = "CLR3" ->
           UpdateAll([s EXCEPT !.value["B3_0"] = 0], <<"XDIV2", "XDIV3", "B4">>)
      [] OTHER -> s

\* mc6883_vdg_fsync, of the rising edge.
VdgFsync(s) ==
    [s EXCEPT !.value = [i \in Counters |-> IF i = "B15_5" THEN s.F ELSE 0],
              !.input = [i \in Counters |-> FALSE]]

\* mc6883_vdg_bytes, and how many it gives: as far as the next 16-byte boundary, where
\* bit 3 rises, if it has not, and falls.
Given(s, nbytes) ==
    IF s.value["B3_0"] + nbytes < 16 THEN nbytes ELSE 16 - s.value["B3_0"]

\* (Slip: the rising edge is missed.)
VdgBytesSkipped(s, nbytes) ==
    IF s.value["B3_0"] + nbytes < 16 THEN VcounterSet(s, "B3_0", s.value["B3_0"] + nbytes)
    ELSE VcounterSet(s, "B3_0", 0)

VdgBytes(s, nbytes) ==
    IF s.value["B3_0"] + nbytes < 16 THEN VcounterSet(s, "B3_0", s.value["B3_0"] + nbytes)
    ELSE VcounterSet(VcounterSet(s, "B3_0", 15), "B3_0", 0)

\* update_from_register: between some modes the input is for a moment another's.
Glitch(old, new) ==
    CASE {old, new} \in {{12, 3}, {3, 2}} -> "GROUND"
      [] {old, new} = {12, 2} -> "B4"
      [] OTHER -> "none"

\* Input i is taken from another divider, which may be by way of a glitch.
Switched(s, i, glitch, from) ==
    LET t == IF glitch = "none" THEN s
             ELSE VcounterUpdate([s EXCEPT !.input_from[i] = glitch], i)
    IN  [t EXCEPT !.input_from[i] = from]

UpdateFromRegister(s, V) ==
    LET oldY == vdg_ydivs[s.V]  newY == vdg_ydivs[V]
        oldX == vdg_xdivs[s.V]  newX == vdg_xdivs[V]
        \* Y's dividers glitch between 12 and 3 or 2, X's between 3 and 2.
        yGlitch == IF 12 \in {oldY, newY} THEN Glitch(oldY, newY) ELSE "none"
        y == IF newY = oldY THEN s
             ELSE UpdateAll(Switched(s, "B15_5", yGlitch, YSource[newY]),
                            <<"YDIV2", "YDIV3", "YDIV4", "B15_5">>)
        x == IF newX = oldX THEN y
             ELSE UpdateAll(Switched(y, "B4", Glitch(oldX, newX), XSource[newX]),
                            <<"XDIV2", "XDIV3", "B4">>)
    IN  [x EXCEPT !.V = V]

-----------------------------------------------------------------------------
\* A frame begins, with what F was as FS rose.
NewFrame(F, is_32byte) ==
    [base |-> F, line |-> 0, fetched |-> 0, is_32byte |-> is_32byte, steady |-> TRUE,
     changes |-> 0]

LineBytes(is_32byte) == IF is_32byte THEN 42 ELSE 22

\* The beam has come on; vdg_fetch_handler asks until it has all.
RECURSIVE Fetched(_, _)
Fetched(s, nbytes) ==
    IF nbytes = 0 THEN s ELSE Fetched(VdgBytes(s, nbytes), nbytes - Given(s, nbytes))

RenderScanline(n) ==
    /\ frame.line < LastLine
    /\ frame.fetched < LineBytes(frame.is_32byte)
    /\ LET left == LineBytes(frame.is_32byte) - frame.fetched
           nbytes == IF n < left THEN n ELSE left
       IN  /\ sam' = Fetched(sam, nbytes)
           /\ frame' = [frame EXCEPT !.fetched = @ + nbytes]

\* do_hs_fall, when the line has been rendered.
HsFall ==
    /\ frame.fetched >= LineBytes(frame.is_32byte)
    /\ sam' = VdgHsync(sam)
    /\ frame' = [frame EXCEPT !.line = @ + 1, !.fetched = 0]

\* do_hs_fall, of a line above or below the active area.
HsFallBorder ==
    /\ frame.line \in {0, LastLine} /\ frame.fetched = 0
    /\ sam' = VdgHsync(sam)
    /\ UNCHANGED frame

FsRise ==
    /\ frame.line = LastLine
    /\ sam' = VdgFsync(sam) /\ frame' = NewFrame(sam.F, frame.is_32byte)

\* The program writes SAM registers; F counts from the next frame on.
WriteV(V) ==
    /\ V # sam.V /\ frame.changes < LastChange
    /\ sam' = UpdateFromRegister(sam, V)
    /\ frame' = [frame EXCEPT !.steady = frame.line = 0 /\ frame.fetched = 0,
                              !.changes = @ + 1]

WriteF(F) ==
    /\ F # sam.F /\ frame.changes < LastChange
    /\ sam' = [sam EXCEPT !.F = F]
    /\ frame' = [frame EXCEPT !.changes = @ + 1]

\* The program changes the VDG's mode: render_scanline runs first.
SetMode ==
    /\ frame.changes < LastChange
    /\ frame' = [frame EXCEPT !.is_32byte = ~@, !.changes = @ + 1,
                              !.steady = frame.line = 0 /\ frame.fetched = 0]
    /\ UNCHANGED sam

\* mc6883_reset, with mc6847_reset, which goes back to text.
ResetSam ==
    /\ sam' = VdgFsync([UpdateFromRegister(sam, 0) EXCEPT !.F = 0])
    /\ frame' = NewFrame(0, TRUE)

SamInit ==
    /\ sam = [V |-> 0, F |-> 0, value |-> [i \in Counters |-> 0],
              input |-> [i \in Counters |-> FALSE],
              input_from |-> [i \in {"B15_5", "B4"} |-> IF i = "B4" THEN "B3_0" ELSE "YDIV4"]]
    /\ frame = NewFrame(0, TRUE)

SamNext ==
    \/ HsFall \/ HsFallBorder \/ FsRise \/ SetMode \/ ResetSam
    \/ \E n \in Fetches : RenderScanline(n)
    \/ \E V \in 0..7 : WriteV(V)
    \/ \E F \in Bases : WriteF(F)

SamSpec == SamInit /\ [][SamNext]_samVars

-----------------------------------------------------------------------------
\* The address of the next byte.
VideoAddress(s) == s.value["B15_5"] * 32 + s.value["B4"] * 16 + s.value["B3_0"]

\* Where the data sheet's divisions (mc6883.c:122-132) put it in a frame of one mode:
\* even modes have rows of 32 bytes, each for Y lines, odd ones of 16, each for X halves,
\* of which a line of 42 bytes has three.
Expected(V, f) ==
    LET j == f.fetched
        halves == (IF f.is_32byte THEN 3 ELSE 1) * f.line + (j \div 16)
        offset == CASE V = 7 -> f.line * LineBytes(f.is_32byte) + j
                    [] V # 7 /\ V % 2 = 0 ->
                         32 * ((f.line + (j \div 32)) \div vdg_ydivs[V]) + (j % 32)
                    [] V # 7 /\ V % 2 = 1 -> 16 * (halves \div vdg_xdivs[V]) + (j % 16)
    IN  (f.base * 32 + offset) % 65536

\* However its mode is changed in the middle of lines and frames, no divider misses an
\* edge of the one it counts; and every byte of a frame that has one mode is fetched
\* from where the divisions put it, in whatever pieces the beam asks for it.
SamInStep ==
    /\ sam \in Sams
    /\ \A i \in Counters : sam.value[i] < ValMod[i]
    /\ \A i \in Counters \ {"B3_0"} :
          LET from == InputFrom(sam, i) IN sam.input[i] = Output(from, sam.value[from])
    /\ frame.steady => VideoAddress(sam) = Expected(sam.V, frame)
================================================================================
