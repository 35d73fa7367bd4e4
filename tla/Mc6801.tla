--------------------------------- MODULE Mc6801 ---------------------------------
(***************************************************************************)
(* The MC6803 of an MC-10, mc6801.c: its timer and the interrupts that it   *)
(* raises.  Every access to memory is a cycle and advances a counter, which *)
(* sets TOF as it wraps and OCF as it meets the output compare register; a  *)
(* flag is cleared by reading TCSR and then the counter, or writing the     *)
(* register.  NMI and IRQ1 have nothing connected to them in an MC-10, and  *)
(* nothing captures its input.                                              *)
(*                                                                         *)
(* The program is any sequence of the instructions that touch these; an     *)
(* instruction runs to its end, and its cycles pass within the step.        *)
(***************************************************************************)
EXTENDS Integers, Sequences, SequencesExt

CONSTANTS
    ByteSize, \* values of a byte: 256 in the code; the counter has two bytes
    Preset,   \* what a write to the counter makes it: $FFF8
    Spans,    \* of cycles, that instructions take before an access
    Nested    \* bounds the frames pushed

ASSUME Mc6801Assumption ==
    /\ ByteSize \in Nat \ {0, 1} /\ Preset \in 0..(ByteSize * ByteSize - 1)
    /\ Spans \subseteq Nat /\ Nested \in Nat

VARIABLE mcu

LastCount == ByteSize * ByteSize - 1
TimerFlags == {"OCF", "TOF"}

Mcus ==
    [state : {"label_a", "next_instruction", "wai", "dispatch_irq"},
     I : BOOLEAN, itmp : BOOLEAN, \* I follows itmp an instruction later
     counter : 0..LastCount,
     output_compare : 0..LastCount, OCMSB : 0..(ByteSize - 1), OCLSB : 0..(ByteSize - 1),
     output_compare_inhibit : BOOLEAN,
     flags : SUBSET TimerFlags, read : SUBSET TimerFlags, \* OCF, TOF; OCF_read, TOF_read
     unseen : SUBSET TimerFlags,    \* raised since the program read TCSR
     enabled : SUBSET TimerFlags,   \* EOCI and ETOI of TCSR
     irq2_latch : BOOLEAN, irq2_active : BOOLEAN,
     stack : Seq(BOOLEAN),    \* I in each frame pushed
     owed : SUBSET TimerFlags,     \* raised while enabled, and neither served nor cleared since
     dropped : SUBSET TimerFlags,  \* of these, what was forgotten
     stale : BOOLEAN,         \* the program has cleared or disabled what was latched
     halved : BOOLEAN]        \* half a compare value written by one store was met

-----------------------------------------------------------------------------
\* What fetch_byte_notrace and store_byte begin with, n times: the compare register is
\* looked at in all cycles but the first after half of it was written.
\* (Slip: half a value is compared.)
McuCyclesUninhibited(s, n) ==
    LET after(k) == (s.counter + k) % (LastCount + 1)
        met == {f \in TimerFlags : \E k \in 1..n :
                    after(k) = IF f = "TOF" THEN LastCount ELSE s.output_compare}
    IN  [s EXCEPT !.counter = after(n), !.output_compare_inhibit = @ /\ n = 0,
                  !.flags = @ \union met, !.unseen = @ \union (met \ s.flags),
                  !.irq2_latch = @ \/ met \intersect s.enabled # {},
                  !.owed = @ \union (met \intersect s.enabled),
                  !.dropped = @ \ (met \intersect s.enabled)]

McuCycles(s, n) ==
    LET after(k) == (s.counter + k) % (LastCount + 1)
        compared(f, k) == f = "OCF" /\ k = 1 => ~s.output_compare_inhibit
        met == {f \in TimerFlags : \E k \in 1..n :
                    /\ after(k) = IF f = "TOF" THEN LastCount ELSE s.output_compare
                    /\ compared(f, k)}
    IN  [s EXCEPT !.counter = after(n), !.output_compare_inhibit = @ /\ n = 0,
                  !.flags = @ \union met, !.unseen = @ \union (met \ s.flags),
                  !.irq2_latch = @ \/ met \intersect s.enabled # {},
                  !.owed = @ \union (met \intersect s.enabled),
                  !.dropped = @ \ (met \intersect s.enabled)]

McuCycle(s) == McuCycles(s, 1)

\* The latch is put out; what it stood for is not raised again.
Unlatched(s) == [s EXCEPT !.irq2_latch = FALSE, !.dropped = s.owed]

\* stack_irq_registers: seven bytes.
McuStacked(s) == [McuCycles(s, 7) EXCEPT !.stack = Append(@, s.I)]

\* take_interrupt, for what has been served.
TakeInterrupt(s, served) ==
    LET t == Unlatched([s EXCEPT !.I = TRUE, !.itmp = TRUE, !.stale = FALSE,
                                 !.owed = @ \ served, !.dropped = @ \ served])
    IN  [McuCycles(t, 2) EXCEPT !.state = "label_a"]

\* A flag that was read before is cleared.
FlagCleared(s, flag) ==
    IF flag \in s.read
      THEN [s EXCEPT !.flags = @ \ {flag}, !.read = @ \ {flag}, !.owed = @ \ {flag},
                     !.dropped = @ \ {flag}, !.stale = @ \/ flag \in s.owed]
      ELSE s

-----------------------------------------------------------------------------
Pending(s) == ~s.I /\ s.irq2_active

\* Between two instructions: an interrupt is taken, or the next one begun.
LabelA ==
    /\ mcu.state = "label_a"
    /\ LET s == [mcu EXCEPT !.I = mcu.itmp]
       IN  mcu' = IF Pending(mcu)
                    THEN [McuCycle(McuStacked(McuCycles(s, 2))) EXCEPT !.state = "dispatch_irq"]
                    ELSE [s EXCEPT !.state = "next_instruction"]

\* In WAI irq2_active is not brought up to date (mc6801.c:392-404): what was not
\* pending when it began never ends it.
Waits ==
    /\ mcu.state = "wai"
    /\ LET s == McuCycle(mcu)
       IN  mcu' = IF Pending(s) THEN [s EXCEPT !.I = s.itmp, !.state = "dispatch_irq"] ELSE s

\* OCF before TOF; with neither, the SCI's vector is taken.
DispatchIrq2 ==
    /\ mcu.state = "dispatch_irq"
    /\ LET ready == IF mcu.I THEN {} ELSE mcu.flags \intersect mcu.enabled
       IN  mcu' = TakeInterrupt(mcu, IF "OCF" \in ready THEN {"OCF"} ELSE ready)

-----------------------------------------------------------------------------
(* Instructions.                                                           *)

\* What every one but WAI and SWI ends with.
Ends(s) == mcu' = [s EXCEPT !.irq2_active = s.irq2_latch, !.state = "label_a"]

\* The cycles before the access, or whatever else, that matters.
Begun(span) == McuCycles(mcu, span)

TAP(masks) ==
    LET s == [Begun(1) EXCEPT !.I = TRUE, !.itmp = masks]
    IN  Ends(McuCycle(IF masks THEN Unlatched(s) ELSE s))

CLI == Ends(McuCycle([Begun(1) EXCEPT !.itmp = FALSE]))

SEI == Ends(McuCycle(Unlatched([Begun(1) EXCEPT !.I = TRUE, !.itmp = TRUE])))

ReturnRTI ==
    /\ mcu.stack # <<>>
    /\ LET s == McuCycles(Begun(1), 9)
           I == Last(s.stack)
       IN  Ends([s EXCEPT !.I = I, !.itmp = I, !.stack = Front(@)])

WAI ==
    LET s == McuStacked([Begun(2) EXCEPT !.I = mcu.itmp])
    IN  mcu' = [s EXCEPT !.state = "wai"]

SWI6801 ==
    LET s == McuCycle(McuStacked([Begun(2) EXCEPT !.I = mcu.itmp]))
    IN  mcu' = TakeInterrupt(s, {})

ReadTCSR(span) == LET s == McuCycle(Begun(span)) IN Ends([s EXCEPT !.read = s.flags, !.unseen = {}])

WriteTCSR(span, enabled) ==
    LET s == McuCycle(Begun(span))
    IN  Ends([s EXCEPT !.enabled = enabled, !.stale = @ \/ s.owed \ enabled # {},
                       !.owed = @ \intersect enabled, !.dropped = @ \intersect enabled])

ReadCounter(span) == Ends(FlagCleared(McuCycle(Begun(span)), "TOF"))

WriteCounter(span) == Ends([McuCycle(Begun(span)) EXCEPT !.counter = Preset])

\* store_byte to either byte of the output compare register.
StoreOC(s, msb, byte) ==
    LET t == IF msb THEN [McuCycle(s) EXCEPT !.OCMSB = byte, !.output_compare_inhibit = TRUE]
             ELSE [McuCycle(s) EXCEPT !.OCLSB = byte]
    IN  FlagCleared([t EXCEPT !.output_compare = t.OCMSB * ByteSize + t.OCLSB], "OCF")

WriteOC(span, msb, byte) == Ends(StoreOC(Begun(span), msb, byte))

\* Both bytes, by one instruction.
WriteOC16(span, high, low) ==
    LET half == StoreOC(Begun(span), TRUE, high)
        met == "OCF" \in McuCycle(half).flags \ half.flags
    IN  Ends([StoreOC(half, FALSE, low) EXCEPT !.halved = @ \/ met])

Other(span) == Ends(Begun(span)) \* Another instruction.

\* The registers keep what was written to them; OCF and TOF stay enabled.
ResetMcu ==
    mcu' = TakeInterrupt(
             [mcu EXCEPT !.itmp = TRUE, !.I = TRUE, !.irq2_latch = FALSE, !.irq2_active = FALSE,
                         !.flags = {}, !.read = {}, !.unseen = {}, !.counter = 0,
                         !.output_compare = LastCount, !.stack = <<>>, !.owed = {}, !.dropped = {}], {})

Mc6801Init ==
    mcu = [state |-> "label_a", I |-> TRUE, itmp |-> TRUE, counter |-> 2,
           output_compare |-> LastCount, OCMSB |-> 0, OCLSB |-> 0, output_compare_inhibit |-> FALSE,
           flags |-> {}, read |-> {}, unseen |-> {}, enabled |-> {}, irq2_latch |-> FALSE,
           irq2_active |-> FALSE, stack |-> <<>>, owed |-> {}, dropped |-> {},
           stale |-> FALSE, halved |-> FALSE]

Mc6801Next ==
    \/ LabelA \/ Waits \/ DispatchIrq2 \/ ResetMcu
    \/ /\ mcu.state = "next_instruction"
       /\ \/ ReturnRTI \/ SEI \/ TAP(TRUE)
          \/ /\ Len(mcu.stack) < Nested \* else the program stays masked
             /\ CLI \/ TAP(FALSE) \/ WAI \/ SWI6801
          \/ \E span \in Spans :
                \/ ReadTCSR(span) \/ ReadCounter(span) \/ WriteCounter(span) \/ Other(span)
                \/ \E enabled \in SUBSET TimerFlags : WriteTCSR(span, enabled)
                \/ \E msb \in BOOLEAN, byte \in 0..(ByteSize - 1) : WriteOC(span, msb, byte)
                \/ \E high, low \in 0..(ByteSize - 1) : WriteOC16(span, high, low)

Mc6801Spec == Mc6801Init /\ [][Mc6801Next]_mcu

-----------------------------------------------------------------------------
\* The timer is heard: what rose while it was enabled, and was neither served nor
\* cleared, is still latched, unless the program masked interrupts since, which puts
\* out the latch (mc6801.c:486, 549), or another interrupt was taken (mc6801.c:1339);
\* an interrupt that is taken has its cause, unless the program took it away while it
\* was latched; a flag that rose after the program read TCSR is not cleared for the one
\* that it saw; and a compare value stored by one instruction is not met when half of
\* it is there.
TimerHeard ==
    /\ mcu \in Mcus /\ Len(mcu.stack) <= Nested
    /\ mcu.owed \subseteq mcu.flags \intersect mcu.enabled
    /\ mcu.owed \ mcu.dropped # {} => mcu.irq2_latch
    /\ mcu.state = "dispatch_irq" => mcu.owed # {} \/ mcu.stale
    /\ mcu.unseen \subseteq mcu.flags
    /\ ~mcu.halved
=================================================================================
