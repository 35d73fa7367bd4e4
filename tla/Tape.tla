--------------------------------- MODULE Tape ---------------------------------
(***************************************************************************)
(* The tape interface, tape.c, with the messages that couple it to the user *)
(* interface (messenger.c) and the typing an autorun asks for.  The tape    *)
(* turns while the machine's relay (motor) and the play key (playing) are   *)
(* both on; then the input's pulses come by waggle_event, long output       *)
(* pulses are cut by flush_event, and ROM routines are intercepted.         *)
(*                                                                         *)
(* The state is one record, so that handlers that call each other compose   *)
(* as operators on it.  A tape is the number of pulses left on it; what is  *)
(* written is the number of bits in its last byte.                         *)
(***************************************************************************)
EXTENDS AutoKbd

CONSTANTS
    Pulses,      \* the pulses on a tape
    BitsPerByte  \* 8 in the code

ASSUME TapeAssumption == Pulses \in Nat /\ BitsPerByte \in Nat \ {0}

VARIABLE deck

tapeVars == <<deck, kbdVars>>

Machines == {"dragon", "mc10"}
\* A CAS file with a short leader, with a long one, and a tape of any other type.
Inputs == {"short", "cas", "wav"}
Intercepts == {"pad", "fast", "rewrite"}

Decks ==
    [machine : Machines, motor : BOOLEAN, playing : BOOLEAN,
     input : Inputs \union {"none"}, left : 0..Pulses, short_leader : BOOLEAN,
     output : BOOLEAN, bit_count : 0..(BitsPerByte - 1), have_sync : BOOLEAN,
     tape_fast : BOOLEAN, tape_pad_auto : BOOLEAN, tape_rewrite : BOOLEAN,
     waggle : BOOLEAN, flush : BOOLEAN, \* waggle_event, flush_event are queued
     bps : SUBSET Intercepts,           \* bp_list_pad, _fast and _rewrite are added
     press : BOOLEAN,                   \* bp_list_press_play is
     shown : BOOLEAN,                   \* playing, as the user interface was told
     split : BOOLEAN,                   \* rewriting was once turned off within a byte
     spins : BOOLEAN]                   \* a handler never returns

-----------------------------------------------------------------------------
\* No motor control: the tape is paused when it is opened and at its end.
DefaultPaused(s) == s.machine = "mc10"

Turns(s) == s.motor /\ s.playing

Wanted(s) ==
    (IF (s.short_leader /\ s.tape_pad_auto) \/ s.tape_fast THEN {"pad"} ELSE {})
    \union (IF s.tape_fast THEN {"fast"} ELSE {})
    \union (IF s.tape_rewrite THEN {"rewrite"} ELSE {})

\* (Slip: breakpoints are only added.)
SetBreakpointsAdd(s) ==
    [s EXCEPT !.bps = @ \union (IF Turns(s) /\ s.input # "none" THEN Wanted(s) ELSE {})]

SetBreakpoints(s) ==
    [s EXCEPT !.bps = IF Turns(s) /\ s.input # "none" THEN Wanted(s) ELSE {}]

\* The last byte is padded bit by bit until bit_count is 0 again: tape_bit_out does
\* not count a bit when there is no tape to write it to.
RewriteTapeDesync(s) ==
    IF s.bit_count # 0 /\ ~s.output THEN [s EXCEPT !.spins = TRUE]
    ELSE [s EXCEPT !.bit_count = 0, !.have_sync = FALSE]

RewriteBitin(s) ==
    IF s.have_sync /\ s.output
      THEN [s EXCEPT !.bit_count = (@ + 1) % BitsPerByte]
      ELSE s

\* messenger_send_message: what becomes of s when a message would make it t, sent
\* perhaps from within a message to the same group.
Sent(sending, s, t) == IF sending THEN s ELSE t

\* The other half of update_motor.
Stopped(s) ==
    LET t == [s EXCEPT !.waggle = FALSE, !.flush = FALSE]
    IN  IF s.tape_rewrite THEN RewriteTapeDesync(t) ELSE t

\* tape_ui_set_playing, of a message to pause from within another handler.
Paused(s) ==
    [SetBreakpoints(Stopped([s EXCEPT !.playing = FALSE])) EXCEPT !.shown = FALSE]

\* A pulse is read and the next one scheduled; at the end of the tape, or without
\* one, a tape that was paused at first is paused again.
WaggleBit(s, sending) ==
    LET ended == [s EXCEPT !.waggle = FALSE]
    IN  IF s.input # "none" /\ s.left > 0
          THEN [s EXCEPT !.left = @ - 1, !.waggle = TRUE]
          ELSE IF DefaultPaused(s) THEN Sent(sending, ended, Paused(ended)) ELSE ended

\* `running' is read before waggle_bit may pause the tape.
UpdateMotor(s, sending) ==
    LET read == IF s.input # "none" /\ ~s.waggle THEN WaggleBit(s, sending) ELSE s
        running == IF read.output THEN [read EXCEPT !.flush = TRUE] ELSE read
    IN  SetBreakpoints(IF Turns(s) THEN running ELSE Stopped(s))

\* A message of ui_tag_tape_playing: the tape has preempted the group, and the user
\* interface is told after it.
Play(s, play) ==
    [UpdateMotor([s EXCEPT !.playing = play], TRUE) EXCEPT !.shown = play]

-----------------------------------------------------------------------------
CloseReading(s) == [s EXCEPT !.input = "none", !.left = 0]

OpenReading(s, input) ==
    LET opened == [CloseReading(s) EXCEPT !.input = input, !.left = Pulses,
                                          !.short_leader = (input = "short")]
        set == IF input = "wav" THEN opened ELSE SetBreakpoints(opened)
        synced == IF s.tape_rewrite THEN RewriteTapeDesync(set) ELSE set
    IN  Play(synced, ~DefaultPaused(s))

OpenReadingFails(s) == [CloseReading(s) EXCEPT !.short_leader = FALSE]

CloseWriting(s) ==
    IF s.output
      THEN [IF s.tape_rewrite THEN RewriteTapeDesync(s) ELSE s
              EXCEPT !.output = FALSE, !.flush = FALSE]
      ELSE s

OpenWriting(s) ==
    [Play([CloseWriting(s) EXCEPT !.output = TRUE], ~DefaultPaused(s))
       EXCEPT !.bit_count = 0]

\* tape_reset; mc10_reset then turns the motor on for good.
Reset(s) ==
    LET stopped == [CloseWriting(s) EXCEPT !.motor = FALSE, !.waggle = FALSE]
        reset == Play(stopped, ~DefaultPaused(s))
    IN  IF s.machine = "mc10" THEN UpdateMotor([reset EXCEPT !.motor = TRUE], FALSE) ELSE reset

\* tape_seek, of either tape; at the beginning, rewriting starts again.
Seek(s, start) ==
    LET moved == UpdateMotor(s, FALSE)
    IN  IF s.tape_rewrite /\ start THEN RewriteTapeDesync(moved) ELSE moved

\* advance_read_time: time skipped over may take pulses, or the rest of the tape.
Advanced(s) ==
    {[s EXCEPT !.left = n, !.waggle = TRUE] : n \in 0..s.left}
    \union {[s EXCEPT !.left = 0, !.waggle = FALSE]}

-----------------------------------------------------------------------------
Deck(s) == ~deck.spins /\ deck' = s

\* tape_set_motor
SetMotor(motor) ==
    /\ deck.machine # "mc10"
    /\ Deck(UpdateMotor([deck EXCEPT !.motor = motor], FALSE)) /\ UNCHANGED kbdVars

SetPlaying(play) == Deck(Play(deck, play)) /\ UNCHANGED kbdVars

\* tape_ui_set_tape_flag
SetFast(on) ==
    Deck(SetBreakpoints([deck EXCEPT !.tape_fast = on])) /\ UNCHANGED kbdVars

SetPadAuto(on) ==
    Deck(SetBreakpoints([deck EXCEPT !.tape_pad_auto = on])) /\ UNCHANGED kbdVars

SetRewrite(on) ==
    /\ Deck(SetBreakpoints([deck EXCEPT !.tape_rewrite = on,
                                        !.split = @ \/ (~on /\ deck.bit_count # 0)]))
    /\ UNCHANGED kbdVars

InsertInput(input) ==
    /\ \/ Deck(OpenReading(deck, input))
       \/ Deck(OpenReadingFails(deck))
    /\ UNCHANGED kbdVars

EjectInput == Deck(CloseReading(deck)) /\ UNCHANGED kbdVars

InsertOutput ==
    /\ \/ Deck(OpenWriting(deck))
       \/ Deck(CloseWriting(deck))
    /\ UNCHANGED kbdVars

EjectOutput == deck.output /\ Deck(CloseWriting(deck)) /\ UNCHANGED kbdVars

SeekInput(left) ==
    /\ deck.input # "none"
    /\ Deck(Seek([deck EXCEPT !.left = left], left = Pulses)) /\ UNCHANGED kbdVars

SeekOutput(start) == deck.output /\ Deck(Seek(deck, start)) /\ UNCHANGED kbdVars

ResetMachine == Deck(Reset(deck)) /\ UNCHANGED kbdVars

\* xroar_configure_machine and the hard reset: another machine, with breakpoints
\* and a keyboard of its own.
SwitchMachine(machine) ==
    /\ Deck(Reset([deck EXCEPT !.machine = machine, !.bps = {}, !.press = FALSE]))
    /\ KbdReplaced

\* tape_autorun: the tape is read for a file's name, and rewound.  If there is one,
\* what loads it is typed, unless it is data; and on a machine that cannot start
\* the tape, its ROM's motor routine will.
Autorun(input) ==
    LET rewound == Seek([OpenReading(deck, input) EXCEPT !.left = Pulses], TRUE)
    IN  \/ Deck(rewound) /\ UNCHANGED kbdVars
        \/ /\ Deck([rewound EXCEPT !.press = deck.machine = "mc10"])
           /\ TypeIn("string", 1) \/ UNCHANGED kbdVars

PressPlay ==
    /\ deck.press
    /\ Deck([Play(deck, TRUE) EXCEPT !.press = FALSE]) /\ UNCHANGED kbdVars

-----------------------------------------------------------------------------
\* The events, and the handlers of intercepted ROM routines.
WaggleEvent == deck.waggle /\ Deck(WaggleBit(deck, FALSE)) /\ UNCHANGED kbdVars

FlushEvent == deck.flush /\ Deck([deck EXCEPT !.flush = Turns(deck)]) /\ UNCHANGED kbdVars

\* fast_motor_on, fast_sync_leader, fast_tape_p0_wait_p1, fast_cbin
FastRead ==
    /\ deck.bps \intersect {"pad", "fast"} # {}
    /\ \E s \in Advanced(deck) : Deck(s)
    /\ UNCHANGED kbdVars

FastBitin ==
    /\ "fast" \in deck.bps
    /\ \E s \in Advanced(deck) : Deck(IF s.tape_rewrite THEN RewriteBitin(s) ELSE s)
    /\ UNCHANGED kbdVars

RewriteBit == "rewrite" \in deck.bps /\ Deck(RewriteBitin(deck)) /\ UNCHANGED kbdVars

\* rewrite_sync writes whole bytes.
RewriteSync ==
    "rewrite" \in deck.bps /\ Deck([deck EXCEPT !.have_sync = TRUE]) /\ UNCHANGED kbdVars

\* rewrite_tape_on, rewrite_end_of_block
RewriteGap == "rewrite" \in deck.bps /\ Deck(RewriteTapeDesync(deck)) /\ UNCHANGED kbdVars

TypeKey == ~deck.spins /\ (TypeString \/ TypeFile) /\ UNCHANGED deck

\* -type, -load-text and a program file dropped on a machine without a tape.
TypeText(kind, k) == ~deck.spins /\ TypeIn(kind, k) /\ UNCHANGED deck

-----------------------------------------------------------------------------
TapeInit ==
    /\ KbdInit
    /\ \E machine \in Machines, fast, pad, rewrite \in BOOLEAN :
          deck = [machine |-> machine, motor |-> machine = "mc10",
                  playing |-> machine # "mc10", shown |-> machine # "mc10",
                  input |-> "none", left |-> 0, short_leader |-> FALSE,
                  output |-> FALSE, bit_count |-> 0, have_sync |-> FALSE,
                  tape_fast |-> fast, tape_pad_auto |-> pad, tape_rewrite |-> rewrite,
                  waggle |-> FALSE, flush |-> FALSE, bps |-> {}, press |-> FALSE,
                  split |-> FALSE, spins |-> FALSE]

TapeNext ==
    \/ \E on \in BOOLEAN :
          \/ SetMotor(on) \/ SetPlaying(on) \/ SeekOutput(on)
          \/ SetFast(on) \/ SetPadAuto(on) \/ SetRewrite(on)
    \/ \E input \in Inputs : InsertInput(input) \/ Autorun(input)
    \/ \E left \in 0..Pulses : SeekInput(left)
    \/ \E machine \in Machines : SwitchMachine(machine)
    \/ \E kind \in {"string", "file"}, k \in 0..LastChar : TypeText(kind, k)
    \/ EjectInput \/ InsertOutput \/ EjectOutput \/ ResetMachine \/ PressPlay
    \/ WaggleEvent \/ FlushEvent \/ FastRead \/ FastBitin
    \/ RewriteBit \/ RewriteSync \/ RewriteGap \/ TypeKey

TapeSpec == TapeInit /\ [][TapeNext]_tapeVars

-----------------------------------------------------------------------------
TapeOK == deck \in Decks /\ KbdOK

\* Through every insertion, ejection, seek, reset, message and event, what follows
\* from the tape's turning agrees with it: pulses come exactly while there are some
\* to come, output is flushed every half second (tape.c:926-927), and the ROM is
\* intercepted as the flags ask.  The exception is an input tape just ejected:
\* tape_close_reading leaves its breakpoints, against tape.c:1630.  And the user
\* interface shows the play key as the tape has it, whichever handlers sent
\* messages from within messages.  A byte that was begun on an output tape is padded
\* on that tape (tape.c:98), and no handler spins padding one on no tape: unless the
\* user turned rewriting off within a byte, when closing the tape does not pad it, and
\* all is lost when rewriting is turned on again.
TapeTurns ==
    /\ TapeOK
    /\ deck.shown = deck.playing
    /\ ~deck.spins =>
        /\ deck.waggle => Turns(deck)
        /\ Turns(deck) /\ deck.left > 0 => deck.waggle
        /\ Turns(deck) /\ deck.output => deck.flush
        /\ ~Turns(deck) => deck.bps = {}
        /\ Turns(deck) /\ deck.input # "none" => deck.bps = Wanted(deck)
    /\ (deck.bit_count # 0 /\ ~deck.output) \/ deck.spins => deck.split
=============================================================================
