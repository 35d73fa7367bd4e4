---------------------------------- MODULE Pia ----------------------------------
(***************************************************************************)
(* One side of a PIA, mc6821.c: two control lines whose edges set flags,    *)
(* and an interrupt that follows an enabled flag a microsecond later, by an *)
(* event.  The program may read the port or write the control register      *)
(* before the event has run.  Cx2 is an input, an output the program sets,  *)
(* or a strobe that goes low on an access to the port (side A a read, side  *)
(* B a write) and is restored by an event or by Cx1.                        *)
(***************************************************************************)
EXTENDS Integers

CONSTANTS
    PiaSides, \* "a" and "b", or one of them
    Controls  \* what programs write to the control register

ASSUME PiaAssumption == PiaSides \subseteq {"a", "b"} /\ Controls \subseteq 0..63

VARIABLE side

Bit(c, n) == (c \div 2^n) % 2 = 1

\* The control register: bit 0 enables IRQ1 and bit 1 is Cx1's active edge, bit 2
\* selects the port, bits 3 to 5 are Cx2's.
Registers == 0..63

Sides ==
    [side : PiaSides, control_register : Registers,
     cx1 : BOOLEAN, cx2 : BOOLEAN,
     irq1_received : BOOLEAN, irq2_received : BOOLEAN, irq : BOOLEAN,
     irqQ : BOOLEAN, strobeQ : BOOLEAN, restoreQ : BOOLEAN, \* the events are queued
     cx2_out_sink : BOOLEAN,
     late : BOOLEAN,    \* flags were cleared, or the interrupt disabled, before irq_event ran
     shared : BOOLEAN,  \* IRQ2 has been enabled, or flagged
     remade : BOOLEAN]  \* Cx2's mode was changed with a strobe under way

IRQ1Enabled(c) == Bit(c, 0)
IRQ2Enabled(c) == ~Bit(c, 5) /\ Bit(c, 3)
Strobes(c) == Bit(c, 5) /\ ~Bit(c, 4)       \* (control_register & 0x30) == 0x20
RestoredByCx1(c) == Strobes(c) /\ ~Bit(c, 3)
RestoredByE(c) == Strobes(c) /\ Bit(c, 3)

-----------------------------------------------------------------------------
\* An active edge of Cx1.  With IRQ1 disabled, irq becomes a bit that the control
\* register never has.
Received(s) ==
    IF IRQ1Enabled(s.control_register)
      THEN [s EXCEPT !.irq1_received = TRUE, !.irqQ = TRUE]
      ELSE [s EXCEPT !.irq1_received = TRUE, !.irq = FALSE]

\* mc6821_set_cx1; the code restores Cx2 in the mode that E restores.
SetCx1(level) ==
    /\ level # side.cx1
    /\ LET s == [side EXCEPT !.cx1 = level]
           restored == IF RestoredByE(s.control_register) THEN [s EXCEPT !.cx2_out_sink = TRUE]
                       ELSE s
       IN  side' = IF Bit(s.control_register, 1) = level THEN Received(restored) ELSE s

\* mc6821_update_cx2_state, of a Cx2 that is an input.
Cx2Seen(s, level) ==
    LET t == [s EXCEPT !.cx2 = level]
    IN  IF level = s.cx2 THEN s
        ELSE IF Bit(s.control_register, 4) # level THEN t
        ELSE IF Bit(s.control_register, 3)
               THEN [t EXCEPT !.irq2_received = TRUE, !.irqQ = TRUE, !.shared = TRUE]
               ELSE [t EXCEPT !.irq2_received = TRUE, !.irq = FALSE, !.shared = TRUE]

\* mc6821_read of the port.
ReadPort ==
    /\ Bit(side.control_register, 2)
    /\ LET s == [side EXCEPT !.irq1_received = FALSE, !.irq2_received = FALSE,
                             !.irq = FALSE, !.late = side.irqQ]
           strobes == s.side = "a" /\ Strobes(s.control_register)
       IN  side' = IF strobes
                     THEN [s EXCEPT !.strobeQ = TRUE,
                                    !.restoreQ = RestoredByE(s.control_register)]
                     ELSE s

\* mc6821_write to the port.
WritePort ==
    /\ side.side = "b" /\ Bit(side.control_register, 2) /\ Strobes(side.control_register)
    /\ side' = [side EXCEPT !.strobeQ = TRUE,
                            !.restoreQ = RestoredByE(side.control_register)]

\* (Slip: a flag that is up is forgotten when its interrupt is enabled.)
IrqUnderForgets(s, c) ==
    IF IRQ1Enabled(c) THEN s.irq ELSE IRQ2Enabled(c) /\ (s.irq \/ s.irq2_received)

IrqUnder(s, c) ==
    IF IRQ1Enabled(c) THEN s.irq \/ s.irq1_received
    ELSE IRQ2Enabled(c) /\ (s.irq \/ s.irq2_received)

\* write_cr
Configured(s, c) ==
    LET t == [s EXCEPT !.control_register = c, !.irq2_received = @ /\ ~Bit(c, 5)]
    IN  [t EXCEPT
           !.irq = IrqUnder(t, c),
           !.late = @ \/ (s.irqQ /\ ~IRQ1Enabled(c)),
           !.shared = @ \/ IRQ2Enabled(c),
           !.remade = @ \/ s.strobeQ \/ s.restoreQ]

\* mc6821_write to the control register.  Nothing outside drives Cx2: as an input it
\* is pulled up on side A, and low on side B.
WriteControl(c) ==
    LET s == Configured(side, c)
    IN  side' = IF Bit(c, 5)
                  THEN [s EXCEPT !.cx2_out_sink = Bit(c, 4) => Bit(c, 3)]
                  ELSE Cx2Seen([s EXCEPT !.cx2_out_sink = TRUE], s.side = "a")

\* The events.  do_irq does not ask what the event was for.
DoIrq == side.irqQ /\ side' = [side EXCEPT !.irqQ = FALSE, !.irq = TRUE]

DoStrobeCx2 ==
    side.strobeQ /\ side' = [side EXCEPT !.strobeQ = FALSE, !.cx2_out_sink = FALSE]

\* Queued with the strobe, and later than it.
DoRestoreCx2 ==
    /\ side.restoreQ /\ ~side.strobeQ
    /\ side' = [side EXCEPT !.restoreQ = FALSE, !.cx2_out_sink = TRUE]

\* mc6821_reset: flags and events stay as they are.
ResetPia ==
    side' = [side EXCEPT !.control_register = 0, !.cx1 = FALSE, !.cx2 = FALSE,
                         !.irq = FALSE, !.cx2_out_sink = TRUE,
                         !.late = @ \/ side.irqQ,
                         !.remade = @ \/ side.strobeQ \/ side.restoreQ]

PiaInit ==
    \E s \in PiaSides :
        side = [side |-> s, control_register |-> 0, cx1 |-> FALSE, cx2 |-> FALSE,
                irq1_received |-> FALSE, irq2_received |-> FALSE, irq |-> FALSE,
                irqQ |-> FALSE, strobeQ |-> FALSE, restoreQ |-> FALSE,
                cx2_out_sink |-> TRUE, late |-> FALSE, shared |-> FALSE, remade |-> FALSE]

PiaNext ==
    \/ \E level \in BOOLEAN : SetCx1(level)
    \/ \E c \in Controls : WriteControl(c)
    \/ ReadPort \/ WritePort \/ DoIrq \/ DoStrobeCx2 \/ DoRestoreCx2 \/ ResetPia

PiaSpec == PiaInit /\ [][PiaNext]_side

-----------------------------------------------------------------------------
PiaOK == side \in Sides

\* "An active transition causing the IRQ line to fall" (mc6821.h:87-90): in whatever
\* order edges, their delayed events, reads of the port and writes of the control
\* register come, an enabled flag of Cx1 has its interrupt, or will have it, and an
\* interrupt has its flag; and a strobed Cx2 that E restores comes back.  The
\* exceptions are an event that runs after what it was queued for has gone, a Cx2
\* that shares the interrupt, and a mode changed under a strobe.
IrqMeansFlagged ==
    LET enabled == IRQ1Enabled(side.control_register) /\ side.irq1_received
    IN  /\ PiaOK
        /\ ~side.shared => (enabled => side.irq \/ side.irqQ)
        /\ ~side.shared /\ ~side.late => (side.irq \/ side.irqQ => enabled)
        /\ ~side.remade /\ RestoredByE(side.control_register) /\ ~side.cx2_out_sink =>
              side.restoreQ
================================================================================
