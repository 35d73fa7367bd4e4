------------------------------- MODULE AutoKbd -------------------------------
(***************************************************************************)
(* Typing for the user, auto_kbd.c: strings and files are queued, and      *)
(* BASIC finds their characters where it polls the keyboard, by a          *)
(* breakpoint that is on only while something is queued.                   *)
(*                                                                         *)
(* A character is the number of the request for it, so that what is typed  *)
(* can be compared with what was asked for.                                *)
(***************************************************************************)
EXTENDS Integers, Sequences, SequencesExt

CONSTANTS
    LastChar,  \* bounds the characters asked for
    LongQueue  \* bounds the events queued

ASSUME AutoKbdAssumption == LastChar \in Nat /\ LongQueue \in Nat \ {0}

VARIABLES
    auto_event_list, \* what is queued: strings and files
    command_index,   \* the characters typed of the string at the head
    listening,       \* the breakpoints of basic_command_breakpoint are on
    asked, typed     \* the characters asked for since start-up, and those typed

kbdVars == <<auto_event_list, command_index, listening, asked, typed>>

KbdEvents == [kind : {"string", "file"}, text : Seq(1..LastChar)]

\* What was asked for, as numbers: the next k characters.
Text(k) == [i \in 1..k |-> asked + i]

\* What the queue still has to type: a file is read as it is typed, a string is not.
Pending ==
    FlattenSeq([i \in DOMAIN auto_event_list |->
        LET text == auto_event_list[i].text
        IN  IF i = 1 THEN SubSeq(text, command_index + 1, Len(text)) ELSE text])

\* ak_type_sds, ak_type_file and queue_auto_event; a string may be empty when it
\* has been parsed, and a file from the start.
TypeIn(kind, k) ==
    /\ asked + k <= LastChar /\ Len(auto_event_list) < LongQueue
    /\ auto_event_list' = Append(auto_event_list, [kind |-> kind, text |-> Text(k)])
    /\ listening' = TRUE
    /\ asked' = asked + k
    /\ UNCHANGED <<command_index, typed>>

\* (Slip: the next event starts where the last one ended.)
DoneIndexKept ==
    /\ auto_event_list' = Tail(auto_event_list)
    /\ UNCHANGED command_index

\* The event at the head has been typed.
Done ==
    /\ auto_event_list' = Tail(auto_event_list)
    /\ command_index' = 0

\* do_auto_event for a string: its last character ends it.
TypeString ==
    /\ listening /\ auto_event_list # <<>> /\ Head(auto_event_list).kind = "string"
    /\ LET text == Head(auto_event_list).text
           more == command_index < Len(text)
           last == (IF more THEN command_index + 1 ELSE command_index) >= Len(text)
       IN  /\ typed' = IF more THEN Append(typed, text[command_index + 1]) ELSE typed
           /\ \/ last /\ Done
              \/ /\ ~last /\ command_index' = command_index + 1
                 /\ UNCHANGED auto_event_list
    /\ listening' = (auto_event_list' # <<>>)
    /\ UNCHANGED asked

\* do_auto_event for a file: the poll after its last character ends it.
TypeFile ==
    /\ listening /\ auto_event_list # <<>> /\ Head(auto_event_list).kind = "file"
    /\ LET text == Head(auto_event_list).text
       IN  \/ text = <<>> /\ Done /\ UNCHANGED typed
           \/ /\ text # <<>>
              /\ typed' = Append(typed, Head(text))
              /\ auto_event_list' = [auto_event_list EXCEPT ![1].text = Tail(@)]
              /\ UNCHANGED command_index
    /\ listening' = (auto_event_list' # <<>>)
    /\ UNCHANGED asked

\* auto_kbd_free and auto_kbd_new: what was queued is never typed, and is forgotten.
KbdReplaced ==
    /\ auto_event_list' = <<>> /\ command_index' = 0 /\ listening' = FALSE
    /\ typed' = <<>> /\ asked' = 0

KbdInit ==
    /\ auto_event_list = <<>> /\ command_index = 0 /\ listening = FALSE
    /\ asked = 0 /\ typed = <<>>

KbdNext ==
    \/ \E kind \in {"string", "file"}, k \in 0..LastChar : TypeIn(kind, k)
    \/ TypeString \/ TypeFile \/ KbdReplaced

KbdSpec == KbdInit /\ [][KbdNext]_kbdVars

-----------------------------------------------------------------------------
KbdOK ==
    /\ auto_event_list \in Seq(KbdEvents) /\ Len(auto_event_list) <= LongQueue
    /\ command_index \in 0..LastChar
    /\ listening \in BOOLEAN
    /\ asked \in 0..LastChar
    /\ typed \in Seq(1..LastChar)

\* Whatever strings and files are queued, and while others are being typed, BASIC
\* is given every character asked for, once and in the order asked; and it finds
\* the keyboard its own again when, and only when, all have been typed.
TypedInOrder ==
    /\ typed \o Pending = [i \in 1..asked |-> i]
    /\ listening <=> auto_event_list # <<>>
=============================================================================
