---------------------------------- MODULE Slots ----------------------------------
(***************************************************************************)
(* The interrupt lines of cartridges in a multi-pak interface, mpi.c, up to *)
(* a CoCo 3: its PIA, its CPU, and its GIME, which raises an interrupt of   *)
(* its own for each rise of FIRQ it sees (coco3.c, tcc1014.c).  The FIRQ of *)
(* one slot is passed on, the one the program has selected; NMI and HALT    *)
(* are those of all slots.  A cartridge that starts itself toggles FIRQ     *)
(* every 100 ms (cart.c).  Those with a disk controller turn its DRQ and    *)
(* INTRQ into NMI and HALT (rsdos.c) or NMI and FIRQ (dragondos.c).  The    *)
(* controller is the environment here, and is itself in Floppy.             *)
(***************************************************************************)
EXTENDS Integers, FiniteSets

CONSTANTS
    Slot,    \* the slots with a cartridge in them
    Initial, \* the slot selected by a reset
    Fitted,  \* the ways the slots are filled
    Masters  \* the program's choices of the GIME's IEN and FEN

CartKinds == {"autorun", "rsdos", "dragondos"}

ASSUME SlotsAssumption ==
    /\ IsFiniteSet(Slot) /\ Initial \in Slot
    /\ Fitted \subseteq [Slot -> CartKinds]
    /\ Masters \subseteq BOOLEAN \X BOOLEAN

VARIABLES
    mpi,   \* struct mpi, and the cartridges' side
    disk_cart, \* the cartridges' disk controllers and their latches
    gime,  \* the GIME's interrupts
    lines  \* as the machine has them

slotsVars == <<mpi, disk_cart, gime, lines>>

Mpis ==
    [kind : [Slot -> CartKinds],
     cts_route : Slot,
     firq_state : SUBSET Slot, nmi_state : SUBSET Slot, halt_state : SUBSET Slot,
     level : BOOLEAN,         \* of do_firq, one for all cartridges
     last : [Slot -> BOOLEAN], \* what each has toggled to last
     still : BOOLEAN]         \* a cartridge has toggled to the level it was at

DiskCarts ==
    [drq : BOOLEAN, intrq : BOOLEAN,  \* of the controller
     nmi_enable : BOOLEAN,            \* latch_nmi_enable; with RS-DOS, double density
     halt_enable : BOOLEAN,           \* of RS-DOS
     missed : BOOLEAN]                \* NMI was enabled with INTRQ up already

\* Of the GIME's sources, the cartridge.  The timer, the borders and the other lines
\* raise theirs in the same way.
Gimes ==
    [IL0_state : BOOLEAN,
     irq_state : BOOLEAN, firq_state : BOOLEAN,
     irq_enable : BOOLEAN, firq_enable : BOOLEAN, \* in registers[2] and registers[3]
     IEN : BOOLEAN, FEN : BOOLEAN]

Lines ==
    [cx1 : BOOLEAN, IL0 : BOOLEAN,     \* of PIA1's side B, and of the GIME
     halt : BOOLEAN, nmi : BOOLEAN,    \* nmi: the last signalled; the CPU takes it down
     IRQ : BOOLEAN, FIRQ : BOOLEAN]    \* of the GIME

-----------------------------------------------------------------------------
\* cart_firq
Firq(l, level) == [l EXCEPT !.cx1 = level, !.IL0 = level]

Routed(m) == m.cts_route \in m.firq_state

\* (Slip: what the slot's line is at is not passed on.)
SelectedOnly(m, slot) ==
    /\ mpi' = [m EXCEPT !.cts_route = slot]
    /\ lines' = lines

\* select_slot, after whatever else has been done to the interface.
Selected(m, slot) ==
    /\ mpi' = [m EXCEPT !.cts_route = slot]
    /\ lines' = Firq(lines, Routed(mpi'))

\* The CPU is not stopped, and its program does something.
Runs == ~lines.halt

\* A write to $FF7F.
Select(slot) == Runs /\ Selected(mpi, slot) /\ UNCHANGED <<disk_cart, gime>>

With(set, slot, level) == IF level THEN set \union {slot} ELSE set \ {slot}

\* mpi_set_firq
SignalsFirq(m, slot, level) ==
    /\ mpi' = [m EXCEPT !.firq_state = With(@, slot, level)]
    /\ lines' = Firq(lines, Routed(mpi'))

\* mpi_set_nmi and mpi_set_halt; the machine then has CartBecomes' lines.
WithNmi(m, slot, level) == [m EXCEPT !.nmi_state = With(@, slot, level)]
WithHalt(m, slot, level) == [m EXCEPT !.halt_state = With(@, slot, level)]

Stops(d) == d.halt_enable /\ ~d.drq

\* A cartridge becomes d, and the interface m.
CartBecomes(slot, d, m) ==
    /\ disk_cart' = [disk_cart EXCEPT ![slot] = d]
    /\ mpi' = m
    /\ lines' = [lines EXCEPT !.nmi = m.nmi_state # {}, !.halt = m.halt_state # {}]
    /\ UNCHANGED gime

\* set_drq
RsdosDrq(slot, level) ==
    LET d == [disk_cart[slot] EXCEPT !.drq = level]
    IN  CartBecomes(slot, d, WithHalt(mpi, slot, Stops(d)))

DragondosDrq(slot, level) ==
    /\ disk_cart' = [disk_cart EXCEPT ![slot].drq = level]
    /\ SignalsFirq(mpi, slot, level)
    /\ UNCHANGED gime

\* set_intrq
RsdosIntrq(slot, level) ==
    LET was == disk_cart[slot]
        d == [was EXCEPT !.intrq = level, !.halt_enable = @ /\ ~level]
    IN  CartBecomes(slot, d,
               IF ~level THEN WithNmi(mpi, slot, FALSE)
               ELSE LET m == WithHalt(mpi, slot, FALSE)
                    IN  IF was.nmi_enable THEN WithNmi(m, slot, TRUE) ELSE m)

DragondosIntrq(slot, level) ==
    LET was == disk_cart[slot]
    IN  CartBecomes(slot, [was EXCEPT !.intrq = level, !.missed = @ /\ level /\ ~was.nmi_enable],
               IF level => was.nmi_enable THEN WithNmi(mpi, slot, level) ELSE mpi)

\* latch_write
RsdosLatch(slot, double, halt) ==
    LET was == disk_cart[slot]
        d == [was EXCEPT !.nmi_enable = double, !.halt_enable = halt /\ ~was.intrq]
        m == IF double /\ was.intrq THEN WithNmi(mpi, slot, TRUE) ELSE mpi
    IN  CartBecomes(slot, d, WithHalt(m, slot, Stops(d)))

DragondosLatch(slot, enable) ==
    LET was == disk_cart[slot]
    IN  CartBecomes(slot, [was EXCEPT !.nmi_enable = enable,
                                   !.missed = @ \/ (was.intrq /\ slot \notin mpi.nmi_state)],
               mpi)

DiskCart(slot) ==
    \/ /\ mpi.kind[slot] = "rsdos"
       /\ \E level \in BOOLEAN :
             \/ RsdosDrq(slot, level)
             \/ RsdosIntrq(slot, level)
             \/ Runs /\ \E double \in BOOLEAN : RsdosLatch(slot, double, level)
    \/ /\ mpi.kind[slot] = "dragondos"
       /\ \E level \in BOOLEAN :
             \/ DragondosDrq(slot, level)
             \/ DragondosIntrq(slot, level)
             \/ Runs /\ DragondosLatch(slot, level)

\* do_firq
Toggle(slot) ==
    /\ mpi.kind[slot] = "autorun"
    /\ SignalsFirq([mpi EXCEPT !.level = ~@, !.last[slot] = mpi.level,
                               !.still = @ \/ mpi.last[slot] = mpi.level],
                   slot, mpi.level)
    /\ UNCHANGED <<disk_cart, gime>>

-----------------------------------------------------------------------------
\* SET_INTERRUPT, of the lines the GIME is given.
Raised(g) ==
    [g EXCEPT !.irq_state = @ \/ g.irq_enable, !.firq_state = @ \/ g.firq_enable]

Lined(l, g) == [l EXCEPT !.IRQ = g.IEN /\ g.irq_state, !.FIRQ = g.FEN /\ g.firq_state]

\* tcc1014_mem_cycle: a rise of the cartridge's line since the last cycle.
MemCycle ==
    /\ gime' = [IF lines.IL0 /\ ~gime.IL0_state THEN Raised(gime) ELSE gime
                  EXCEPT !.IL0_state = lines.IL0]
    /\ lines' = IF lines.IL0 /\ ~gime.IL0_state THEN Lined(lines, gime') ELSE lines
    /\ UNCHANGED <<mpi, disk_cart>>

\* A write to $FF90.
SetEnables(ien, fen) ==
    /\ Runs
    /\ gime' = [gime EXCEPT !.IEN = ien, !.FEN = fen]
    /\ lines' = Lined(lines, gime')
    /\ UNCHANGED <<mpi, disk_cart>>

\* What a write to $FF92 or $FF93 leaves of a state: an interrupt that is enabled now,
\* of a line that is up, is raised at once.
Left(state, was, enabled) == enabled /\ (state \/ (~was /\ gime.IL0_state))

EnableIrq(enabled) ==
    /\ Runs
    /\ gime' = [gime EXCEPT !.irq_enable = enabled,
                            !.irq_state = Left(@, gime.irq_enable, enabled)]
    /\ lines' = [lines EXCEPT !.IRQ = gime.IEN /\ gime'.irq_state]
    /\ UNCHANGED <<mpi, disk_cart>>

EnableFirq(enabled) ==
    /\ Runs
    /\ gime' = [gime EXCEPT !.firq_enable = enabled,
                            !.firq_state = Left(@, gime.firq_enable, enabled)]
    /\ lines' = [lines EXCEPT !.FIRQ = gime.FEN /\ gime'.firq_state]
    /\ UNCHANGED <<mpi, disk_cart>>

\* Reads of them acknowledge.
AcknowledgeIrq ==
    /\ Runs
    /\ gime' = [gime EXCEPT !.irq_state = FALSE] /\ lines' = [lines EXCEPT !.IRQ = FALSE]
    /\ UNCHANGED <<mpi, disk_cart>>

AcknowledgeFirq ==
    /\ Runs
    /\ gime' = [gime EXCEPT !.firq_state = FALSE] /\ lines' = [lines EXCEPT !.FIRQ = FALSE]
    /\ UNCHANGED <<mpi, disk_cart>>

-----------------------------------------------------------------------------
NoGime ==
    [IL0_state |-> FALSE, irq_state |-> FALSE, firq_state |-> FALSE, irq_enable |-> FALSE,
     firq_enable |-> FALSE, IEN |-> FALSE, FEN |-> FALSE]

NoDiskCart ==
    [drq |-> FALSE, intrq |-> FALSE, nmi_enable |-> FALSE, halt_enable |-> FALSE,
     missed |-> FALSE]

\* coco3_reset: PIAs, the interface and its cartridges, whose controllers forget what
\* they asked for, the GIME, all of whose registers are zeroed, and the CPU, which drops
\* NMI and HALT.
ResetMpi ==
    /\ mpi' = [mpi EXCEPT !.firq_state = {}, !.nmi_state = {}, !.halt_state = {},
                          !.cts_route = Initial]
    /\ disk_cart' = [s \in Slot |-> NoDiskCart]
    /\ gime' = [NoGime EXCEPT !.IL0_state = gime.IL0_state]
    /\ lines' = [Lined(Firq(lines, FALSE), NoGime) EXCEPT !.nmi = FALSE, !.halt = FALSE]

SlotsInit ==
    /\ \E kind \in Fitted :
          mpi = [kind |-> kind, cts_route |-> Initial, firq_state |-> {},
                 nmi_state |-> {}, halt_state |-> {}, level |-> FALSE,
                 last |-> [s \in Slot |-> TRUE], still |-> FALSE]
    /\ disk_cart = [s \in Slot |-> NoDiskCart]
    /\ gime = NoGime
    /\ lines = [cx1 |-> FALSE, IL0 |-> FALSE, halt |-> FALSE, nmi |-> FALSE,
                IRQ |-> FALSE, FIRQ |-> FALSE]

SlotsNext ==
    \/ \E slot \in Slot : Select(slot) \/ Toggle(slot) \/ DiskCart(slot)
    \/ MemCycle \/ AcknowledgeIrq \/ AcknowledgeFirq \/ ResetMpi
    \/ \E master \in Masters : SetEnables(master[1], master[2])
    \/ \E enabled \in BOOLEAN : EnableIrq(enabled) \/ EnableFirq(enabled)

SlotsSpec == SlotsInit /\ [][SlotsNext]_slotsVars

-----------------------------------------------------------------------------
SlotsOK == mpi \in Mpis /\ disk_cart \in [Slot -> DiskCarts] /\ gime \in Gimes /\ lines \in Lines

\* However selections, resets and the cartridges' signals come, the machine sees the
\* selected slot's FIRQ, in its PIA and in its GIME, and NMI and HALT while any slot
\* has them; what the GIME signals is what is enabled, raised and not acknowledged;
\* and a cartridge that starts itself goes on toggling, if it is the only one: the
\* level is shared, and two of them in turn toggle nothing (cart.c:983).  A disk
\* cartridge's end of command is heard, whatever the latch was told before or after:
\* RS-DOS has NMI up while INTRQ is, in double density, and stops the CPU for DRQ only
\* and never once the command has ended.  DragonDOS has FIRQ up while DRQ is, and NMI
\* if it was enabled when INTRQ rose: enabling it later is not enough (dragondos.c:320).
SlotsHeard ==
    /\ SlotsOK
    /\ lines.cx1 = Routed(mpi) /\ lines.IL0 = Routed(mpi)
    /\ lines.nmi = (mpi.nmi_state # {}) /\ lines.halt = (mpi.halt_state # {})
    /\ (gime.irq_state => gime.irq_enable) /\ (gime.firq_state => gime.firq_enable)
    /\ lines.IRQ = (gime.IEN /\ gime.irq_state) /\ lines.FIRQ = (gime.FEN /\ gime.firq_state)
    /\ Cardinality({s \in Slot : mpi.kind[s] = "autorun"}) < 2 => ~mpi.still
    /\ \A s \in Slot :
          LET d == disk_cart[s]
          IN  /\ s \in mpi.nmi_state => d.intrq
              /\ d.intrq /\ d.nmi_enable /\ ~d.missed => s \in mpi.nmi_state
              /\ (s \in mpi.halt_state) = Stops(d)
              /\ d.intrq => ~d.halt_enable
              /\ mpi.kind[s] = "dragondos" => (s \in mpi.firq_state) = d.drq
==================================================================================
