---------------------------------- MODULE Cpu ----------------------------------
(***************************************************************************)
(* Interrupts of the MC6809 and the HD6309, mc6809.c and hd6309.c: how NMI, *)
(* FIRQ and IRQ are latched cycle by cycle, recognised at the end of an     *)
(* instruction, stacked and dispatched, with SYNC, CWAI, the HD6309's       *)
(* interruptible TFM and HALT.  Slices of a run end at any cycle, so the    *)
(* debugger finds the CPU in any state; a step here is one `case' of the    *)
(* run loop.                                                               *)
(*                                                                         *)
(* FIRQ, IRQ and HALT are levels that devices change at any cycle: what a  *)
(* cycle samples of them is a choice.  NMI is an edge to the CPU, which    *)
(* takes the line down itself.  Of the registers only CC's E, F and I, the *)
(* HD6309's modes and what is stacked matter.  The illegal instructions that *)
(* push all registers and leave E as it was, 0x3E on each page, are left out. *)
(***************************************************************************)
EXTENDS Integers, Sequences, SequencesExt

CONSTANTS
    MaxFrames, \* bounds the frames on the stack of each kind
    CpuKinds,  \* "MC6809" and "HD6309", or one of them
    ModeSets   \* the modes programs set an HD6309 to

Modes == {"NM", "FM"} \* MD: native mode, and FIRQ stacks all

ASSUME CpuAssumption ==
    /\ MaxFrames \in [CpuKinds -> Nat]
    /\ CpuKinds \subseteq {"MC6809", "HD6309"} /\ ModeSets \subseteq SUBSET Modes

VARIABLE cpu

CpuStates == {"reset", "reset_check_halt", "label_a", "label_b", "dispatch_irq",
              "cwai_check_halt", "sync", "sync_check_halt", "next_instruction",
              "tfm", "tfm_write", "hcf"}

Flags == {"E", "F", "I"}
Levels == {"firq", "irq"}
Handlers == {"nmi", "firq", "irq", "swi"}

\* What a push leaves and a pull expects: PC and CC only, all registers, or in
\* native mode E and F too.
Extents == {"short", "all", "native"}
Frames == [cc : SUBSET Flags, regs : Extents]

Cpus ==
    [kind : CpuKinds, state : CpuStates,
     nmi : BOOLEAN, nmi_armed : BOOLEAN, nmi_latch : BOOLEAN,
     active : SUBSET (Levels \union {"nmi"}),   \* nmi_active, firq_active, irq_active
     cc : SUBSET Flags, md : SUBSET Modes,
     stack : Seq(Frames),
     handlers : Seq(Handlers), \* those running, the innermost last
     owed : BOOLEAN,           \* NMI has risen and its handler has not been entered
     torn : BOOLEAN,           \* RTI has pulled what was not pushed
     diverted : BOOLEAN]       \* the debugger set the PC after a push, before its vector

-----------------------------------------------------------------------------
\* A cycle, fetch_byte_notrace or store_byte, samples the lines.
Cycle(c) == [c EXCEPT !.nmi_latch = @ \/ (c.nmi_armed /\ c.nmi)]

\* The latches are copied, with FIRQ and IRQ as the last cycle found them.
Recognised(c, levels) ==
    [c EXCEPT !.active = levels \union (IF c.nmi_latch THEN {"nmi"} ELSE {})]

Instruction(c, levels) == [Recognised(Cycle(c), levels) EXCEPT !.state = "label_a"]

\* What is taken: NMI before FIRQ before IRQ.
Taken(c) ==
    IF "nmi" \in c.active THEN "nmi"
    ELSE IF "firq" \in c.active /\ "F" \notin c.cc THEN "firq"
    ELSE IF "irq" \in c.active /\ "I" \notin c.cc THEN "irq"
    ELSE "none"

All(c) == IF "NM" \in c.md THEN "native" ELSE "all"

\* (Slip: E is left as it was.)
StackedKeepE(c, entire) ==
    [Cycle(c) EXCEPT
        !.stack = Append(@, [cc |-> c.cc, regs |-> IF entire THEN All(c) ELSE "short"])]

\* stack_irq_registers and stack_firq_registers: E is set or cleared, and pushed.
Stacked(c, entire) ==
    LET cc == IF entire THEN c.cc \union {"E"} ELSE c.cc \ {"E"}
    IN  [Cycle(c) EXCEPT
            !.cc = cc,
            !.stack = Append(@, [cc |-> cc, regs |-> IF entire THEN All(c) ELSE "short"])]

\* take_interrupt
Interrupt(c, mask) == [Cycle([c EXCEPT !.cc = @ \union mask]) EXCEPT !.state = "label_a"]

Enters(c, handler, mask) == [Interrupt(c, mask) EXCEPT !.handlers = Append(@, handler)]

Mask(handler) == IF handler = "irq" THEN {"I"} ELSE {"F", "I"}

Room == Len(cpu.stack) < MaxFrames[cpu.kind]

-----------------------------------------------------------------------------
\* The lines, and what else is done to the CPU between two of its steps.
SetNMI(level) ==
    /\ cpu.nmi # level
    /\ cpu' = [cpu EXCEPT !.nmi = level, !.owed = @ \/ level]

\* A reset of the machine, whose program starts over with a stack of its own.
ResetCpu ==
    cpu' = [cpu EXCEPT !.state = "reset", !.nmi = FALSE, !.nmi_armed = FALSE,
                       !.nmi_latch = FALSE, !.active = {}, !.stack = <<>>,
                       !.handlers = <<>>, !.owed = FALSE, !.torn = FALSE,
                       !.diverted = FALSE]

\* By the debugger or a program file, between two slices.
SetPC ==
    cpu' = [cpu EXCEPT !.state = "next_instruction",
                       !.diverted = @ \/ cpu.state \in {"dispatch_irq", "cwai_check_halt"}]

-----------------------------------------------------------------------------
\* The states of the run loop.
ResetState ==
    /\ cpu.state \in {"reset", "reset_check_halt"}
    /\ LET c == IF cpu.state = "reset"
                  THEN [cpu EXCEPT !.cc = @ \union {"F", "I"}, !.md = {},
                                   !.nmi_armed = FALSE, !.nmi = FALSE, !.active = {}]
                  ELSE cpu
       IN  cpu' \in {Interrupt(c, {}), [Cycle(c) EXCEPT !.state = "reset_check_halt"]}

Halted == cpu.state = "label_a" /\ cpu' = Cycle(cpu)

LabelB ==
    /\ cpu.state \in {"label_a", "label_b"}
    /\ \/ /\ Taken(cpu) # "none" /\ Room
          /\ cpu' = [Stacked(cpu, Taken(cpu) # "firq" \/ "FM" \in cpu.md)
                       EXCEPT !.state = "dispatch_irq"]
       \/ /\ Taken(cpu) = "none"
          /\ cpu' = [cpu EXCEPT !.state = "next_instruction"]

DispatchIrq ==
    /\ cpu.state = "dispatch_irq"
    /\ \/ /\ Taken(cpu) = "nmi"
          /\ cpu' = Enters([cpu EXCEPT !.nmi = FALSE, !.nmi_latch = FALSE,
                                       !.active = @ \ {"nmi"}, !.owed = FALSE],
                           "nmi", Mask("nmi"))
       \/ /\ Taken(cpu) \in Levels /\ cpu' = Enters(cpu, Taken(cpu), Mask(Taken(cpu)))
       \/ /\ Taken(cpu) = "none" /\ cpu' = [cpu EXCEPT !.state = "cwai_check_halt"]

CwaiCheckHalt(levels) ==
    /\ cpu.state = "cwai_check_halt"
    /\ \E state \in {"cwai_check_halt", "dispatch_irq"} :
          cpu' = [Cycle(Recognised(cpu, levels)) EXCEPT !.state = state]

Sync(levels) ==
    /\ cpu.state = "sync"
    /\ LET c == Cycle(Recognised(cpu, levels))
       IN  IF c.active # {} THEN cpu' = [c EXCEPT !.state = "label_b"]
           ELSE cpu' \in {c, [c EXCEPT !.state = "sync_check_halt"]}

SyncCheckHalt ==
    /\ cpu.state = "sync_check_halt"
    /\ \E state \in {"sync", "sync_check_halt"} : cpu' = [Cycle(cpu) EXCEPT !.state = state]

\* A byte is read; with none left TFM ends.
Tfm(levels) ==
    /\ cpu.state = "tfm"
    /\ cpu' \in {Recognised([cpu EXCEPT !.state = "label_a"], levels),
                 [Cycle(cpu) EXCEPT !.state = "tfm_write"]}

\* An interrupt comes before the byte is written, and it is read again after it.
TfmWrite(levels) ==
    /\ cpu.state = "tfm_write"
    /\ cpu' = IF Taken(cpu) # "none" THEN [cpu EXCEPT !.state = "label_b"]
              ELSE [Recognised(Cycle(cpu), levels) EXCEPT !.state = "tfm"]

Hcf == cpu.state = "hcf" /\ cpu' = Cycle(cpu)

-----------------------------------------------------------------------------
\* The instructions, by what they do to all this.
Executes == cpu.state = "next_instruction"

\* A page prefix: no interrupt between it and its instruction.
Prefix == Executes /\ cpu' = Cycle(cpu)

\* ANDCC, ORCC and the like
ChangeMasks(masks, levels) ==
    Executes /\ cpu' = Instruction([cpu EXCEPT !.cc = masks \union (@ \ {"F", "I"})], levels)

\* Any instruction that loads S arms NMI, some before their last cycle.
LoadS(levels) ==
    /\ Executes
    /\ LET armed(c) == [c EXCEPT !.nmi_armed = TRUE]
       IN  cpu' \in {Instruction(armed(cpu), levels), armed(Instruction(cpu, levels))}

\* A program returns from handlers only.
RTI(levels) ==
    /\ Executes /\ cpu.handlers # <<>>
    /\ LET frame == Last(cpu.stack)
           pulls == IF "E" \in frame.cc THEN All(cpu) ELSE "short"
       IN  cpu' = Instruction([cpu EXCEPT !.cc = frame.cc, !.stack = Front(@),
                                          !.handlers = Front(@), !.nmi_armed = TRUE,
                                          !.torn = @ \/ pulls # frame.regs], levels)

CWAI(masks, levels) ==
    /\ Executes /\ Room
    /\ cpu' = [Recognised(Stacked([cpu EXCEPT !.cc = @ \ masks], TRUE), levels)
                 EXCEPT !.state = "dispatch_irq"]

\* SWI and the HD6309's trap mask both interrupts, SWI2 and SWI3 none; what was
\* recognised before them is left for their handler's first instruction.
SWI(mask) == Executes /\ Room /\ cpu' = Enters(Stacked(cpu, TRUE), "swi", mask)

SYNC == Executes /\ cpu' = [Cycle(cpu) EXCEPT !.state = "sync"]

HCF(levels) ==
    /\ Executes /\ cpu.kind = "MC6809"
    /\ cpu' = [Instruction(cpu, levels) EXCEPT !.state = "hcf"]

TFM == Executes /\ cpu.kind = "HD6309" /\ cpu' = [Cycle(cpu) EXCEPT !.state = "tfm"]

\* A program changes modes with nothing stacked.
LDMD(md, levels) ==
    /\ Executes /\ cpu.kind = "HD6309" /\ cpu.stack = <<>>
    /\ cpu' = Instruction([cpu EXCEPT !.md = md], levels)

-----------------------------------------------------------------------------
CpuInit ==
    \E kind \in CpuKinds :
        cpu = [kind |-> kind, state |-> "reset", nmi |-> FALSE, nmi_armed |-> FALSE,
               nmi_latch |-> FALSE, active |-> {}, cc |-> {}, md |-> {}, stack |-> <<>>,
               handlers |-> <<>>, owed |-> FALSE, torn |-> FALSE, diverted |-> FALSE]

CpuNext ==
    \/ \E level \in BOOLEAN : SetNMI(level)
    \/ \E levels \in SUBSET Levels :
          \/ CwaiCheckHalt(levels) \/ Sync(levels) \/ Tfm(levels) \/ TfmWrite(levels)
          \/ LoadS(levels) \/ RTI(levels) \/ HCF(levels)
          \/ \E masks \in SUBSET {"F", "I"} : ChangeMasks(masks, levels) \/ CWAI(masks, levels)
          \/ \E md \in ModeSets : LDMD(md, levels)
    \/ \E mask \in {{}, {"F", "I"}} : SWI(mask)
    \/ ResetCpu \/ SetPC \/ ResetState \/ Halted \/ LabelB \/ DispatchIrq \/ SyncCheckHalt
    \/ Hcf \/ Prefix \/ SYNC \/ TFM

CpuSpec == CpuInit /\ [][CpuNext]_cpu

-----------------------------------------------------------------------------
CpuOK == cpu \in Cpus

\* Wherever interrupts, HALT, SYNC, CWAI and an interrupted TFM fall between cycles,
\* every push is followed by its one handler and every handler has its frame; RTI
\* pulls what was pushed; a handler is entered only if its mask allowed it when its
\* frame was pushed; and one rise of NMI gives one NMI.  Only a debugger that sets
\* the PC while the CPU waits in CWAI, or between a push and its vector, strands a
\* frame (mc6809.c:1376).
InterruptsAccounted ==
    /\ CpuOK
    /\ cpu.nmi_latch \/ "nmi" \in cpu.active => cpu.owed
    /\ ~cpu.diverted =>
        /\ ~cpu.torn
        /\ Len(cpu.stack) = Len(cpu.handlers)
             + (IF cpu.state \in {"dispatch_irq", "cwai_check_halt"} THEN 1 ELSE 0)
        /\ \A i \in DOMAIN cpu.handlers :
              /\ cpu.handlers[i] = "firq" => "F" \notin cpu.stack[i].cc
              /\ cpu.handlers[i] = "irq" => "I" \notin cpu.stack[i].cc
================================================================================
