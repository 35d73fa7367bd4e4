------------------------------- MODULE MCHost -------------------------------
(* Two breakpoints at one address and a third at another; two interrupts nested on the
   HD6309, which does as an MC6809 until it changes modes, and one on that; a timer that
   counts to 3, and so wraps within an instruction or an interrupt; either side of a
   PIA, its port selected or its control register 0; frames of 13 lines of either width,
   so that rows of 12 lines go on by one, from a base that wraps, with one change in a
   frame; two slots, with cartridges that start themselves, an RS-DOS and a DragonDOS;
   four host keys and one change of what keys mean; two names to print to and two bytes;
   four bytes each way through buffers of two; a machine with a cartridge and one that
   takes none, each part's ROM to be fetched; two ROMs imported twice; frames of a GIME of 27 and 32 lines, so
   that the measured tables are to scale in what Fits asks, and rows of 12 lines go on by
   one; a timer that counts to 5. *)
EXTENDS Host

CONSTANTS b1, b2, b3, m1, m2, c1, g1, g2, r1, r2, p1, p2

MCAddress == (b1 :> 1) @@ (b2 :> 1) @@ (b3 :> 2)
MCMaxFrames == ("MC6809" :> 1) @@ ("HD6309" :> 2)
MCControls == {0} \union {c \in Registers : Bit(c, 2)}
MCFitted == {(1 :> "autorun") @@ (2 :> "autorun"), (1 :> "rsdos") @@ (2 :> "dragondos"),
             (1 :> "dragondos") @@ (2 :> "autorun")}
MCMasters == {<<FALSE, FALSE>>, <<TRUE, TRUE>>}
MCRomsOf == (m1 :> {}) @@ (m2 :> {g1}) @@ (c1 :> {g2})
MCDefault == (m1 :> NoCart) @@ (m2 :> c1)

MCTop == [h \in BOOLEAN |-> [p \in 0..3 |->
             IF h THEN <<7, 6, Endless, 5>>[p + 1] ELSE <<4, 3, Endless, 2>>[p + 1]]]
MCActive == [p \in 0..3 |-> <<13, 14, Endless, 17>>[p + 1]]
MCFrame == [h \in BOOLEAN |-> IF h THEN 32 ELSE 27]

\* Modes of a CoCo 3 and of a VDG, each one write from another.
Gfx == [Zeroed EXCEPT !.BP = TRUE, !.LPR = 3]
Wide == [Gfx EXCEPT !.LPF = 1, !.HRES = 1]
Short == [Wide EXCEPT !.VSC = 5]
Vdg == [Zeroed EXCEPT !.COCO = TRUE]
MCSettings ==
    {Zeroed, [Zeroed EXCEPT !.H50 = TRUE], [Zeroed EXCEPT !.HRES = 5, !.CRES = 1], Gfx, Wide,
     Short, [Short EXCEPT !.LPF = 2], [Short EXCEPT !.LPF = 3, !.HRES = 5],
     [Short EXCEPT !.H50 = TRUE, !.LPR = 7], [Short EXCEPT !.HVEN = TRUE],
     Vdg, [Vdg EXCEPT !.H50 = TRUE], [Vdg EXCEPT !.F = 2], [Vdg EXCEPT !.GnA = TRUE],
     [Vdg EXCEPT !.GnA = TRUE, !.V = 3]}

\* A row and its address are not read where the frame's mode has changed, until the next
\* active area, nor by the timer.
Unrowed(v) == [v EXCEPT !.B = 0, !.row = 0, !.row_advance = FALSE, !.row_stride = 0]

(* The parts that are not the session's stay as they began; E is not read but in what
   has been pushed. *)
MCView ==
    <<session,
      CASE session = "breakpoints" -> <<bpVars>>
        [] session = "interrupts" -> <<[cpu EXCEPT !.cc = @ \ {"E"}]>>
        [] session = "timer" -> <<mcu>>
        [] session = "ports" -> <<side>>
        [] session = "video" -> <<samVars>>
        [] session = "slots" -> <<slotsVars>>
        [] session = "keyboard" -> <<kb>>
        [] session = "printing" -> <<printerVars>>
        [] session = "server" -> <<becker>>
        [] session = "downloads" -> <<web>>
        [] session = "roms" -> <<libraryVars>>
        [] session = "frames" ->
             <<vreg, Y, IF vert.active_area /\ ~shot.rows THEN Unrowed(vert) ELSE vert, shot>>
        [] session = "lines" -> <<Unrowed(vert), shot.writes, tmr>> >>
=============================================================================
