-------------------------------- MODULE Printer --------------------------------
(***************************************************************************)
(* Printing to a file or a pipe, printer.c, of a machine that may be        *)
(* switched for another: each has a printer of its own, and is told what    *)
(* xroar.c kept in private_cfg.  A stream is opened by the first byte and   *)
(* closed when the user chooses another; two events follow each byte, one   *)
(* that ends ACK and one that has its count shown.                          *)
(***************************************************************************)
EXTENDS Integers

CONSTANTS
    Names,    \* of files and of commands
    NoName,
    NoStream,
    LastChar  \* bounds the bytes printed to a stream

ASSUME PrinterAssumption == NoName \notin Names /\ LastChar \in Nat

VARIABLES
    pip,           \* struct printer_interface_private
    printer_cfg,   \* private_cfg.printer
    count_shown    \* what the user interface shows

printerVars == <<pip, printer_cfg, count_shown>>

PrintDestinations == {"none", "file", "pipe"}
Chosen ==
    [destination : PrintDestinations, file : Names \union {NoName}, pipe : Names \union {NoName}]
Streams == {"file", "pipe"} \X Names

Pips ==
    [chosen : Chosen,                      \* destination, filename and pipe
     stream : Streams \union {NoStream},
     strobe_state : BOOLEAN,
     ack : BOOLEAN, ack_clear_queued : BOOLEAN,
     chars_printed : 0..LastChar, update_queued : BOOLEAN,
     misclosed : BOOLEAN,  \* a stream has been closed as what it is not
     left : BOOLEAN,       \* the event of a printer that was freed is still queued
     unshown : BOOLEAN]    \* what is shown is a freed printer's

\* The stream that these choices ask for.
Destined(chosen) ==
    IF chosen.destination = "none" \/ chosen[chosen.destination] = NoName THEN NoStream
    ELSE <<chosen.destination, chosen[chosen.destination]>>

-----------------------------------------------------------------------------
Flush(p) ==
    IF p.stream = NoStream THEN p
    ELSE [p EXCEPT !.stream = NoStream, !.chars_printed = 0, !.update_queued = TRUE,
                   !.misclosed = @ \/ p.chosen.destination # p.stream[1]]

\* printer_ui_set_print_destination.
\* (Slip: what is open is closed as the new kind is.)
SetDestinationFirst(p, dest) == Flush([p EXCEPT !.chosen.destination = dest])

SetDestination(p, dest) ==
    IF dest = p.chosen.destination THEN p ELSE [Flush(p) EXCEPT !.chosen.destination = dest]

\* printer_ui_set_print_file and _pipe: only the stream of that kind is closed.
SetName(p, kind, name) ==
    [IF p.chosen.destination = kind THEN Flush(p) ELSE p EXCEPT !.chosen[kind] = name]

\* open_stream; what is asked for may not open.
Opened(p, opens) == [p EXCEPT !.stream = IF opens THEN Destined(p.chosen) ELSE NoStream]

\* printer_strobe, of a rising edge.
Byte(p, opens) ==
    LET q == IF p.stream = NoStream THEN Opened(p, opens) ELSE p
        r == IF q.stream = NoStream THEN q
             ELSE [q EXCEPT !.chars_printed = @ + 1, !.update_queued = TRUE]
    IN  [r EXCEPT !.ack = TRUE, !.ack_clear_queued = TRUE]

Strobed(p, strobe, opens) ==
    IF strobe /\ ~p.strobe_state THEN [Byte(p, opens) EXCEPT !.strobe_state = TRUE]
    ELSE [p EXCEPT !.strobe_state = strobe]

\* printer_interface_new, once the last printer is freed: printer_interface_free
\* queues the update event, to have an open stream's count put back to 0, and frees it
\* as it is (printer.c:90-101).
NewPip(old) ==
    LET freed == Flush(old)
    IN  [chosen |-> [destination |-> "none", file |-> NoName, pipe |-> NoName],
         stream |-> NoStream, strobe_state |-> TRUE, ack |-> FALSE, ack_clear_queued |-> FALSE,
         chars_printed |-> 0, update_queued |-> FALSE, misclosed |-> freed.misclosed,
         left |-> old.left \/ freed.update_queued, unshown |-> TRUE]

-----------------------------------------------------------------------------
\* pia1a_data_postwrite.
Strobe(strobe, opens) ==
    /\ pip.chars_printed < LastChar
    /\ pip' = Strobed(pip, strobe, opens)
    /\ UNCHANGED <<printer_cfg, count_shown>>

\* coco_print_byte, when the ROM prints a byte.
PrintByte(opens) ==
    /\ pip.chars_printed < LastChar
    /\ pip' = Strobed(Strobed(pip, FALSE, opens), TRUE, opens)
    /\ UNCHANGED <<printer_cfg, count_shown>>

PrinterReset ==
    /\ pip' = [pip EXCEPT !.strobe_state = TRUE]
    /\ UNCHANGED <<printer_cfg, count_shown>>

\* Messages to the printer, which is first of their groups, and to xroar.c.
ChooseDestination(dest) ==
    /\ pip' = SetDestination(pip, dest)
    /\ printer_cfg' = [printer_cfg EXCEPT !.destination = dest]
    /\ UNCHANGED count_shown

ChooseName(kind, name) ==
    /\ pip' = SetName(pip, kind, name)
    /\ printer_cfg' = [printer_cfg EXCEPT ![kind] = name]
    /\ UNCHANGED count_shown

FlushPrinter == pip' = Flush(pip) /\ UNCHANGED <<printer_cfg, count_shown>>

\* The machine is freed, and another connected (xroar_connect_machine).
SwitchMachine ==
    /\ pip' = SetName(SetName(SetDestination(NewPip(pip), printer_cfg.destination),
                              "file", printer_cfg.file),
                      "pipe", printer_cfg.pipe)
    /\ UNCHANGED <<printer_cfg, count_shown>>

AckClears ==
    /\ pip.ack_clear_queued
    /\ pip' = [pip EXCEPT !.ack = FALSE, !.ack_clear_queued = FALSE]
    /\ UNCHANGED <<printer_cfg, count_shown>>

UpdateShows ==
    /\ pip.update_queued
    /\ pip' = [pip EXCEPT !.update_queued = FALSE, !.unshown = FALSE]
    /\ count_shown' = pip.chars_printed
    /\ UNCHANGED printer_cfg

\* It reads the printer that was freed: any number.
LeftShows ==
    /\ pip.left
    /\ pip' = [pip EXCEPT !.left = FALSE, !.unshown = TRUE]
    /\ count_shown' \in 0..LastChar
    /\ UNCHANGED printer_cfg

PrinterInit ==
    /\ printer_cfg = [destination |-> "none", file |-> NoName, pipe |-> NoName]
    /\ pip = [chosen |-> printer_cfg,
              stream |-> NoStream, strobe_state |-> TRUE, ack |-> FALSE,
              ack_clear_queued |-> FALSE, chars_printed |-> 0, update_queued |-> FALSE,
              misclosed |-> FALSE, left |-> FALSE, unshown |-> FALSE]
    /\ count_shown = 0

PrinterNext ==
    \/ \E opens \in BOOLEAN : PrintByte(opens) \/ \E strobe \in BOOLEAN : Strobe(strobe, opens)
    \/ PrinterReset \/ FlushPrinter \/ SwitchMachine \/ AckClears \/ UpdateShows \/ LeftShows
    \/ \E dest \in PrintDestinations : ChooseDestination(dest)
    \/ \E kind \in {"file", "pipe"}, name \in Names \union {NoName} : ChooseName(kind, name)

PrinterSpec == PrinterInit /\ [][PrinterNext]_printerVars

-----------------------------------------------------------------------------
\* Bytes are printed where the user last asked, whatever machine prints them: the open
\* stream is what private_cfg names, and is closed as it was opened, a pipe by pclose; ACK
\* does not stay up; and the count that is shown becomes the stream's, unless it is that
\* of a printer that was freed (printer.c:90-101).
PrintedWhereAsked ==
    /\ pip \in Pips /\ printer_cfg \in Chosen /\ count_shown \in 0..LastChar
    /\ pip.chosen = printer_cfg
    /\ pip.stream # NoStream => pip.stream = Destined(printer_cfg)
    /\ ~pip.misclosed
    /\ pip.ack => pip.ack_clear_queued
    /\ count_shown # pip.chars_printed => pip.update_queued \/ pip.unshown
=================================================================================
