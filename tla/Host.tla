-------------------------------- MODULE Host --------------------------------
(***************************************************************************)
(* What surrounds the machine's media: the interrupts of its CPU, of an     *)
(* MC-10's timer, of a side of a PIA and of cartridges in their slots, its  *)
(* video addresses, the frames and the timer of a GIME, the breakpoints its *)
(* ROM is intercepted by, the keyboard, a printer, a server on the Becker port, the files the web      *)
(* build fetches, and the ROM library it is started from.  As in Media, the *)
(* parts share no state, and a behaviour is a session with one of them.     *)
(***************************************************************************)
EXTENDS Breakpoints, Cpu, Mc6801, Pia, Sam, Slots, Keyboard, Printer, Becker, Fetch,
        Library, Gime

VARIABLE session \* the part this behaviour is about

hostVars == <<bpVars, cpu, mcu, side, samVars, slotsVars, kb, printerVars, becker, web, libraryVars, gimeVars, session>>

Sessions == {"breakpoints", "interrupts", "timer", "ports", "video", "slots", "keyboard",
             "printing", "server", "downloads", "roms", "frames", "lines"}

HostInit ==
    /\ session \in Sessions
    /\ BpInit /\ (session # "breakpoints" => pc = CHOOSE p \in Pcs : TRUE)
    /\ CpuInit /\ (session # "interrupts" => cpu.kind = CHOOSE k \in CpuKinds : TRUE)
    /\ Mc6801Init
    /\ PiaInit /\ (session # "ports" => side.side = CHOOSE s \in PiaSides : TRUE)
    /\ SamInit
    /\ SlotsInit /\ (session # "slots" => mpi.kind = CHOOSE k \in Fitted : TRUE)
    /\ KeyboardInit /\ (session # "keyboard" => ~kb.translate)
    /\ PrinterInit
    /\ BeckerInit
    /\ FetchInit /\ (session # "downloads" => web.here = {})
    /\ LibraryInit
    /\ GimeInit /\ (session # "lines" => tmr.timer_offset = 1)

HostNext ==
    \/ /\ session = "breakpoints"
       /\ UNCHANGED <<cpu, mcu, side, samVars, slotsVars, kb, printerVars, becker, web, libraryVars, gimeVars, session>>
       /\ BpNext
    \/ /\ session = "interrupts"
       /\ UNCHANGED <<bpVars, mcu, side, samVars, slotsVars, kb, printerVars, becker, web, libraryVars, gimeVars, session>>
       /\ CpuNext
       /\ cpu.diverted => ~cpu'.diverted \* a program with a stray frame is reset
    \/ /\ session = "timer"
       /\ UNCHANGED <<bpVars, cpu, side, samVars, slotsVars, kb, printerVars, becker, web, libraryVars, gimeVars, session>>
       /\ Mc6801Next
    \/ /\ session = "ports"
       /\ UNCHANGED <<bpVars, cpu, mcu, samVars, slotsVars, kb, printerVars, becker, web, libraryVars, gimeVars, session>>
       /\ PiaNext
    \/ /\ session = "video"
       /\ UNCHANGED <<bpVars, cpu, mcu, side, slotsVars, kb, printerVars, becker, web, libraryVars, gimeVars, session>>
       /\ SamNext
    \/ /\ session = "slots"
       /\ UNCHANGED <<bpVars, cpu, mcu, side, samVars, kb, printerVars, becker, web, libraryVars, gimeVars, session>>
       /\ SlotsNext
    \/ /\ session = "keyboard"
       /\ UNCHANGED <<bpVars, cpu, mcu, side, samVars, slotsVars, printerVars, becker, web, libraryVars, gimeVars, session>>
       /\ KeyboardNext
    \/ /\ session = "printing"
       /\ UNCHANGED <<bpVars, cpu, mcu, side, samVars, slotsVars, kb, becker, web, libraryVars, gimeVars, session>>
       /\ PrinterNext
    \/ /\ session = "server"
       /\ UNCHANGED <<bpVars, cpu, mcu, side, samVars, slotsVars, kb, printerVars, web, libraryVars, gimeVars, session>>
       /\ BeckerNext
    \/ /\ session = "downloads"
       /\ UNCHANGED <<bpVars, cpu, mcu, side, samVars, slotsVars, kb, printerVars, becker, libraryVars, gimeVars, session>>
       /\ FetchNext
    \/ /\ session = "roms"
       /\ UNCHANGED <<bpVars, cpu, mcu, side, samVars, slotsVars, kb, printerVars, becker, web, gimeVars, session>>
       /\ LibraryNext
    \/ /\ session = "frames"
       /\ UNCHANGED <<bpVars, cpu, mcu, side, samVars, slotsVars, kb, printerVars, becker, web, libraryVars, session>>
       /\ FramesNext
    \/ /\ session = "lines"
       /\ UNCHANGED <<bpVars, cpu, mcu, side, samVars, slotsVars, kb, printerVars, becker, web, libraryVars, session>>
       /\ TimerNext

HostSpec == HostInit /\ [][HostNext]_hostVars

=============================================================================
