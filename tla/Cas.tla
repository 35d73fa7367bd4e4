--------------------------------- MODULE Cas ---------------------------------
(***************************************************************************)
(* The tapes that are files of bytes, tape_cas.c: recording on a CAS file   *)
(* and playing CAS, K7 and ASCII files.  What a machine records comes as    *)
(* half-waves, a bit being two of them; they are buffered until their       *)
(* lengths are known, made into bits and bytes, and the CUE list at the end *)
(* of the file, rewritten whenever the motor stops, says which bytes play   *)
(* and where there is silence.                                              *)
(*                                                                         *)
(* Half-wave h belongs to bit (h + 1) \div 2, and odd bits are the short    *)
(* ones, as in a leader.  A byte is a tuple of bits, each the number of the *)
(* machine's bit that it is.  Time is counted in pulses, of which a bit has *)
(* two, and silences below 10 ms are left out.                              *)
(***************************************************************************)
EXTENDS Integers, SequencesExt

CONSTANTS
    CasBits,     \* the bits of a byte, 8 in the code
    PulseBuffer, \* PULSE_BUFFER_SIZE
    CueMarks,    \* the bytes of an empty CUE list, 12 in the code
    OldSizes,    \* the sizes in bytes of the CAS files there may be at first
    LastBit,     \* bounds the bits a machine records
    SeekTimes,   \* bounds where the user puts a tape to play it
    LastEntry,   \* bounds the entries of a file's list that it records on
    LastByte,    \* bounds the bytes of a file it records on
    NoCue

ASSUME CasAssumption ==
    /\ CasBits \in Nat \ {0} /\ PulseBuffer \in Nat \ {0} /\ CueMarks \in Nat \ {0, 1}
    /\ OldSizes \subseteq Nat /\ SeekTimes \subseteq Nat /\ LastBit \in Nat /\ LastByte \in Nat /\ LastEntry \in Nat

VARIABLE cas \* the file, the tape that is open and what has been recorded

-----------------------------------------------------------------------------
(* Bytes, and the entries of a CUE list. *)

Padding == 0  \* a bit that fills a byte
Mixed == -1   \* a bit made of halves of two
Hush == -2    \* no bit: silence

\* Bytes no machine of this model writes.
Mark(k) == [i \in 1..CasBits |-> -(k * CasBits + i)]
LeaderByte == Mark(2)
Decoration == <<LeaderByte, Mark(3), Mark(4), Mark(5)>> \* leader, sync, type, size
Checksum == Mark(6)
Lf == Mark(7)
Cr == Mark(8)
Beyond == Mark(9) \* what is read past the data

NoPulse == [time |-> -1, bit |-> Hush, half |-> 0]

Silence(n) == [type |-> "silence", n |-> n]
Leader(n) == [type |-> "leader", n |-> n]
Raw(at, n, timed) == [type |-> "raw", at |-> at, n |-> n, timed |-> timed]
\* A block of n bytes of the file, or a synthetic one of what is given.
FileBlock(at, n) == [type |-> "block", at |-> at, n |-> n]
OwnBlock(data) == [type |-> "own", data |-> data, n |-> Len(data)]

InFile(e) == e.type \in {"raw", "block"}

ByteAt(bytes, i) == IF i \in 0..(Len(bytes) - 1) THEN bytes[i + 1] ELSE Beyond

Translated(byte) == IF byte = Lf THEN Cr ELSE byte

\* What an entry plays, byte by byte, and how long it is: nsamples.
EntryBytes(e, bytes) ==
    LET taken == [i \in 1..e.n |-> ByteAt(bytes, e.at + i - 1)]
    IN  CASE e.type = "leader" -> [i \in 1..e.n |-> LeaderByte]
          [] e.type = "raw" -> taken
          [] e.type = "own" -> Decoration \o e.data \o <<Checksum, LeaderByte>>
          [] e.type = "block" ->
                 Decoration \o [i \in 1..e.n |-> Translated(taken[i])]
                 \o <<Checksum, LeaderByte>>

Samples(e) ==
    CASE e.type = "silence" -> e.n
      [] e.type \in {"leader", "raw"} -> 2 * CasBits * e.n
      [] e.type \in {"own", "block"} -> 2 * CasBits * (e.n + 6)

\* The time at the start of entry i, builder->time when it was added.
Time(list, i) == FoldLeft(LAMBDA t, e : t + Samples(e), 0, SubSeq(list, 1, i - 1))

CueDataSize(list) == Time(list, Len(list) + 1)

\* The bits of the machine's that a list plays of a file.
Played(list, bytes) ==
    SelectSeq(FlattenSeq([i \in 1..Len(list) |->
                  IF list[i].type = "raw" THEN FlattenSeq(EntryBytes(list[i], bytes)) ELSE <<>>]),
              LAMBDA b : b # Padding)

\* What is in a file: its list, or without one all of it.
ListOf(s) ==
    IF s.cue # NoCue THEN s.cue
    ELSE IF s.bytes # <<>> THEN <<Raw(0, Len(s.bytes), FALSE)>> ELSE <<>>

-----------------------------------------------------------------------------
(* Writing, as operators on the state. *)

\* write_byte, which writes over the CUE list of before.
WriteByte(s, byte) ==
    [s EXCEPT !.bytes = IF s.pos < Len(@) THEN [@ EXCEPT ![s.pos + 1] = byte] ELSE Append(@, byte),
              !.pos = @ + 1, !.size = @ + 1, !.cue = NoCue]

BitOut(s, bit) ==
    LET part == Append(s.part, bit)
    IN  IF Len(part) = CasBits THEN WriteByte([s EXCEPT !.part = <<>>], part)
        ELSE [s EXCEPT !.part = part]

\* commit_silence: an entry, and a leader in the file that no entry is about.
CommitSilence(s) ==
    IF ~s.silent THEN [s EXCEPT !.half = 0]
    ELSE LET t == WriteByte(s, LeaderByte)
         IN  [t EXCEPT !.half = 0, !.silent = FALSE, !.timed = FALSE, !.sized = TRUE,
                       !.list = Append(@, Silence(1)), !.start = t.pos]

\* add_silence, of less than 10 ms or of more; twice that is 2 s, and committed at once.
AddSilence(s, long) ==
    LET t == [s EXCEPT !.half = 0, !.timed = FALSE, !.silent = @ \/ long]
    IN  IF s.silent /\ long THEN CommitSilence(t) ELSE t

\* add_pulse: a bit is two pulses, whichever they are.
AddPulse(s, p) ==
    IF s.half = 0 THEN [s EXCEPT !.half = p]
    ELSE BitOut([s EXCEPT !.half = 0, !.silent = FALSE, !.sized = TRUE],
                IF s.half % 2 = 1 /\ p = s.half + 1 THEN p \div 2 ELSE Mixed)

\* Pulses below 0 are what is left of an idle line, by its length.
Short(p) == IF p < 0 THEN p = -1 ELSE ((p + 1) \div 2) % 2 = 1

\* process_pulse_buffer: whatever comes before two pulses of a kind is silence.
ProcessPulseBuffer(s) ==
    IF s.buf = <<>> THEN s
    ELSE LET n == Len(s.buf)
             start == CHOOSE i \in 1..n :
                         /\ i = n \/ Short(s.buf[i]) = Short(s.buf[i + 1])
                         /\ \A j \in 1..(i - 1) : Short(s.buf[j]) # Short(s.buf[j + 1])
         IN  FoldLeft(AddPulse,
                      [CommitSilence([s EXCEPT !.buf = <<>>]) EXCEPT !.timed = TRUE],
                      SubSeq(s.buf, start, n))

CommitData(s) ==
    LET t == ProcessPulseBuffer(s)
        whole == IF t.part = <<>> THEN t
                 ELSE WriteByte([t EXCEPT !.part = <<>>],
                                t.part \o [i \in 1..(CasBits - Len(t.part)) |-> Padding])
    IN  IF whole.pos > whole.start
          THEN [whole EXCEPT !.start = whole.pos,
                  !.list = Append(@, Raw(whole.start, whole.pos - whole.start, whole.timed))]
          ELSE whole

\* pulse_out: a half-wave that ends, which may be none at all.
PulseOut(s, p) ==
    IF p = 0 THEN AddSilence(CommitData(s), FALSE)
    ELSE IF s.timed THEN AddPulse(s, p)
    ELSE LET t == [s EXCEPT !.buf = Append(@, p)]
         IN  IF Len(t.buf) < PulseBuffer THEN t ELSE ProcessPulseBuffer(t)

\* What the user may expect of a tape that is recorded on again after rewinding it.
RewindTape(s) ==
    [s EXCEPT !.rewind = FALSE, !.bytes = <<>>, !.cue = NoCue, !.list = <<>>, !.timed = FALSE,
              !.size = 0, !.pos = 0, !.start = 0, !.part = <<>>, !.silent = FALSE,
              !.pulse = 0, !.half = 0,
              !.heard = IF s.told THEN <<>> ELSE @, !.bare = @ /\ ~s.told, !.told = FALSE]

\* The half-wave that was going on has ended: what has been heard of the machine.
Heard(s) ==
    [s EXCEPT !.heard = IF s.wave > 0 /\ s.wave % 2 = 0 /\ s.whole THEN Append(@, s.wave \div 2) ELSE @,
              !.whole = s.wave % 2 = 1]

\* cas_sample_out, of a level: up to where the half-waves are told apart.
Crossing(s, level) ==
    LET t == IF s.rewind THEN RewindTape(s) ELSE s
    IN  IF t.sense \in {-1, level} THEN [t EXCEPT !.sense = level]
        ELSE [Heard(PulseOut(t, t.pulse)) EXCEPT !.pulse = 0, !.wave = 0, !.sense = level]

\* The rest of cas_sample_out, for a level that lasts less than 10 ms, or longer.
SampleOut(s, level, p) == [Crossing(s, level) EXCEPT !.pulse = p, !.wave = p]

SampleOutLong(s, level) ==
    LET t == CommitData(Crossing(s, level))
    IN  [AddSilence(t, TRUE) EXCEPT !.pulse = 0, !.wave = 0, !.whole = FALSE]

\* write_cue_data: silences that follow one another become one.
Coalesced(list) ==
    FoldLeft(LAMBDA l, e :
               IF l # <<>> /\ e.type = "silence" /\ Last(l).type = "silence"
                 THEN Append(Front(l), Silence(Last(l).n + e.n)) ELSE Append(l, e),
             <<>>, list)

WriteCueData(s) ==
    IF s.list = <<>> THEN s
    ELSE [s EXCEPT !.timed = FALSE, !.cue = Coalesced(s.list), !.pos = s.size]

\* (Slip: the half-wave that is going on is left.)
LastPulseLeft(s) == s

\* The level is changed, to end the last half-wave.
LastPulse(s) == IF s.sense = -1 THEN s ELSE Crossing(s, 1 - s.sense)

\* cas_motor_off
MotorOff(s) ==
    LET written == WriteCueData(CommitSilence(CommitData(LastPulse(s))))
    IN  [Heard(written) EXCEPT !.sense = -1, !.pulse = 0, !.half = 0, !.silent = FALSE,
                               !.timed = FALSE, !.wave = 0, !.whole = FALSE]

-----------------------------------------------------------------------------
(* Opening and closing. *)

\* do_tape_cas_open of a file to write: where it leaves the file, which had no list,
\* is where the second half of its mark would be.
CasOpenToWrite(s) ==
    LET list == ListOf(s)
        sized == \E i \in 1..Len(list) : list[i].type = "silence" \/ list[i].timed
        n == Len(s.bytes)
    IN  [s EXCEPT !.mode = "write", !.list = list, !.size = n, !.sized = sized,
                  !.rewind = ~sized, !.start = IF sized THEN n ELSE 0,
                  !.pos = IF sized THEN n
                          ELSE IF s.cue # NoCue THEN n + 1 \* the end of its list
                          ELSE IF n >= CueMarks THEN n - 2 ELSE 0,
                  !.bare = @ \/ (list # <<>> /\ ~sized)]

\* cas_close, of what was written or read.
Closed(s) == [s EXCEPT !.mode = "closed", !.list = <<>>, !.size = 0, !.pos = 0, !.start = 0,
                       !.part = <<>>, !.sized = FALSE, !.rewind = FALSE, !.told = FALSE]

CasClosedReading(s) ==
    [s EXCEPT !.mode = "closed", !.list = <<>>, !.pos = 0, !.at = 0, !.time = 0, !.byteoff = 0,
              !.byte = Mark(1), !.nbits = 0, !.npulses = 0, !.got = NoPulse, !.strayed = FALSE]

\* update_motor, for which a tape that does not turn is one that stops.
Updated(s) == IF s.mode = "write" /\ ~s.turns THEN MotorOff(s) ELSE s

-----------------------------------------------------------------------------
(* Reading. *)

\* cue_next
CueNext(s) ==
    LET e == s.list[s.at + 1]
    IN  [s EXCEPT !.at = @ + 1, !.pos = IF InFile(e) THEN e.at ELSE @]

\* Whether read_byte takes a byte from the file, and what it gives, Beyond for -1; past
\* the data of a CAS file there is its list.  Where it is within a section of the file
\* is the file's position alone.
Takes(s) ==
    LET e == s.list[s.at]
    IN  e.type = "raw" \/ (e.type = "block" /\ s.byteoff \in 4..(e.n + 3))

Given(s) ==
    LET e == s.list[s.at]
        all == EntryBytes(e, s.bytes)
    IN  IF e.type = "raw" THEN ByteAt(s.bytes, s.pos)
        ELSE IF Takes(s) THEN Translated(ByteAt(s.bytes, s.pos))
        ELSE IF e.type = "leader" THEN LeaderByte
        ELSE ByteAt(all, s.byteoff)

ReadByte(s) ==
    IF Given(s) = Beyond /\ s.list[s.at].type # "raw" THEN [s EXCEPT !.byte = Beyond]
    ELSE [s EXCEPT !.byte = Given(s), !.pos = IF Takes(s) THEN @ + 1 ELSE @,
                   !.byteoff = IF s.list[s.at].type = "raw" THEN @ ELSE @ + 1]

\* The entry that cas_seek finds, the last one when it is past them all.
Sought(list, time) ==
    IF \E i \in 1..Len(list) : time < Time(list, i) + Samples(list[i])
      THEN CHOOSE i \in 1..Len(list) :
             Time(list, i) <= time /\ time < Time(list, i) + Samples(list[i])
      ELSE Len(list)

\* cue_entry_seek: the position in the entry is set only where there is no file.
EntrySeek(s, off) ==
    LET e == s.list[s.at]
    IN  IF ~InFile(e) THEN [s EXCEPT !.byteoff = off]
        ELSE [s EXCEPT !.pos = e.at + (IF e.type = "raw" THEN off ELSE IF off > 4 THEN off - 4 ELSE 0)]

\* cas_seek of a tape that is read.
SeekReading(s, time) ==
    LET i == Sought(s.list, time)
        e == s.list[i]
        into == time - Time(s.list, i)
        rest == IF into >= Samples(e) THEN into - Samples(e) ELSE into
        there == [CueNext([s EXCEPT !.at = i - 1])
                    EXCEPT !.time = time, !.strayed = e.type = "block", !.got = NoPulse]
        byte == EntrySeek(there, rest \div (2 * CasBits))
        bit == [byte EXCEPT !.nbits = (rest \div 2) % CasBits, !.npulses = rest % 2]
    IN  IF e.type = "silence" THEN [there EXCEPT !.nbits = 0, !.npulses = 0]
        ELSE IF rest % (2 * CasBits) = 0 THEN bit ELSE ReadByte(bit)

\* The bytes read to count those of the leader do not end in an entry that is one.
CountsForEver(list) ==
    list # <<>> /\ list[Sought(list, 0)].type = "leader"

CasOpenToRead(s, list) ==
    IF list = <<>> THEN s
    ELSE IF CountsForEver(list) THEN [s EXCEPT !.spins = TRUE]
    ELSE SeekReading([s EXCEPT !.mode = "read", !.list = list], 0)

\* cas_pulse_in: entries that are over are left, and silence is waited for.
Over(s) == s.time >= Time(s.list, s.at) + Samples(s.list[s.at])

NextEntry(s) ==
    LET more == {i \in (s.at + 1)..Len(s.list) : s.time < Time(s.list, i) + Samples(s.list[i])}
    IN  IF ~Over(s) \/ more = {} THEN s
        ELSE [CueNext([s EXCEPT !.at = (CHOOSE i \in more : \A j \in more : i <= j) - 1])
                EXCEPT !.byteoff = 0, !.strayed = FALSE]

Pulse(s, bit) == [time |-> s.time, bit |-> bit, half |-> s.npulses]

PulseIn(s) ==
    LET fresh == s.nbits = 0 /\ s.npulses = 0
        t == IF fresh THEN NextEntry(s) ELSE s
        quiet == fresh /\ t.list[t.at].type = "silence"
        u == IF fresh /\ ~quiet THEN ReadByte(t) ELSE t
        none == fresh /\ (Over(t) \/ (u.byte = Beyond /\ u.list[u.at].type # "raw"))
    IN  IF none THEN [t EXCEPT !.got = NoPulse]
        ELSE IF quiet THEN [t EXCEPT !.time = @ + 1, !.got = Pulse(t, Hush)]
        ELSE [u EXCEPT !.time = @ + 1, !.npulses = 1 - @, !.got = Pulse(u, u.byte[u.nbits + 1]),
                       !.nbits = IF u.npulses = 1 THEN (@ + 1) % CasBits ELSE @]

-----------------------------------------------------------------------------
(* The machine and the user. *)

Cassette(s) == ~cas.spins /\ cas' = s

\* update_motor: the relay or the play key.
SetTurns(on) == cas.kind = "cas" /\ cas.mode # "read" /\ Cassette(Updated([cas EXCEPT !.turns = on]))

Records == cas.mode = "write" /\ cas.turns /\ cas.size < LastByte

\* A half-wave; after anything else the machine begins with the first half of a bit.
NextHalf == IF cas.wave > 0 THEN cas.wave + 1 ELSE 2 * cas.sent + 1

SendHalf ==
    /\ Records /\ (NextHalf % 2 = 1 => cas.sent < LastBit)
    /\ Cassette([SampleOut(cas, NextHalf % 2, NextHalf)
                  EXCEPT !.sent = IF NextHalf % 2 = 1 THEN @ + 1 ELSE @])

\* The line is left at a level: when that ends within 10 ms it is a pulse before the
\* first bit, and the bits are told apart wrongly when it is as short as theirs.
Rest(p) ==
    /\ Records /\ cas.wave = 0 /\ cas.pulse = 0 /\ cas.sent < LastBit
    /\ Cassette([SampleOut(cas, 0, p) EXCEPT !.wave = 0,
                  !.odd = @ \/ Short(p) = Short(2 * cas.sent + 1)])

IdleLine(level) == Records /\ Cassette(SampleOutLong(cas, level))

\* tape_seek of the tape that is written: back to the start, or to anywhere ahead.
WindOutput(start) ==
    /\ cas.mode = "write" /\ (start \/ cas.sized)
    /\ LET moved == [cas EXCEPT !.rewind = start, !.told = start, !.odd = @ \/ cas.sense # -1,
                               !.start = IF start THEN @ ELSE cas.size,
                               !.pos = IF start THEN @ ELSE cas.size]
       IN  Cassette(Updated(moved))

PutOutput ==
    /\ cas.mode = "closed" /\ cas.kind = "cas" /\ Len(ListOf(cas)) < LastEntry
    /\ Cassette(Updated(CasOpenToWrite(cas)))

TakeOutput == cas.mode = "write" /\ Cassette(Closed(MotorOff(cas)))

PutInput == cas.mode = "closed" /\ Cassette(CasOpenToRead(cas, ListOf(cas)))

TakeInput == cas.mode = "read" /\ Cassette(CasClosedReading(cas))

WindInput(time) ==
    /\ cas.mode = "read" /\ time \in 0..CueDataSize(cas.list)
    /\ Cassette(SeekReading(cas, time))

ReadPulse == cas.mode = "read" /\ Cassette(PulseIn(cas))

-----------------------------------------------------------------------------
\* The bytes there may be on a file, and what is heard of them.
OldBytes(n) == [i \in 1..n |-> [j \in 1..CasBits |-> LastBit + (i - 1) * CasBits + j]]

TextBytes == <<Lf, OldBytes(1)[1]>>

\* cue_read_ascii, of one block, and a list of cue_read_k7, for a file whose
\* preamble asks for n of silence.
AsciiList ==
    LET gap == <<Silence(1), Leader(1)>>
    IN  gap \o <<OwnBlock(<<>>)>>
        \o gap \o <<FileBlock(0, Len(TextBytes))>>
        \o gap \o <<FileBlock(Len(TextBytes), 0)>>

K7List(n) == <<Silence(n), Leader(1), Raw(0, 2, TRUE)>>

NewTape(kind, bytes, cue) ==
    [kind |-> kind, bytes |-> bytes, cue |-> cue, mode |-> "closed", turns |-> FALSE,
     list |-> <<>>, pos |-> 0,
     \* writing
     size |-> 0, start |-> 0, sized |-> FALSE, rewind |-> FALSE, timed |-> FALSE,
     sense |-> -1, pulse |-> 0, buf |-> <<>>, half |-> 0, silent |-> FALSE, part |-> <<>>,
     \* reading
     at |-> 0, time |-> 0, byteoff |-> 0, byte |-> Mark(1), nbits |-> 0, npulses |-> 0,
     got |-> NoPulse, spins |-> FALSE, strayed |-> FALSE,
     \* the machine, and what its user may expect
     sent |-> 0, wave |-> 0, whole |-> FALSE, told |-> FALSE, odd |-> FALSE, bare |-> FALSE,
     heard |-> IF kind = "cas" THEN FlattenSeq(bytes) ELSE <<>>]

CasInit ==
    \/ \E n \in OldSizes : cas = NewTape("cas", OldBytes(n), NoCue)
    \/ cas = NewTape("cas", OldBytes(1), <<Raw(0, 1, TRUE)>>)
    \/ \E n \in {0, 2} : cas = NewTape("k7", OldBytes(2), K7List(n))
    \/ cas = NewTape("asc", TextBytes, AsciiList)

CasNext ==
    \/ \E on \in BOOLEAN : SetTurns(on) \/ WindOutput(on)
    \/ SendHalf \/ Rest(-1) \/ Rest(-2)
    \/ \E level \in {0, 1} : IdleLine(level)
    \/ PutOutput \/ TakeOutput \/ PutInput \/ TakeInput
    \/ \E time \in SeekTimes : WindInput(time)
    \/ ReadPulse

CasSpec == CasInit /\ [][CasNext]_cas

-----------------------------------------------------------------------------
CueEntries ==
    [type : {"silence", "leader"}, n : Nat]
    \union [type : {"raw"}, at : Nat, n : Nat, timed : BOOLEAN]
    \union [type : {"block"}, at : Nat, n : Nat]
    \union [type : {"own"}, data : Seq(Seq(Int)), n : Nat]

CasOK ==
    /\ cas.kind \in {"cas", "k7", "asc"} /\ cas.mode \in {"closed", "write", "read"}
    /\ cas.bytes \in Seq([1..CasBits -> Int])
    /\ cas.cue = NoCue \/ cas.cue \in Seq(CueEntries)
    /\ cas.list \in Seq(CueEntries)
    /\ cas.pos \in 0..(Len(cas.bytes) + 1)
    /\ cas.mode = "write" => cas.size = Len(cas.bytes)
    /\ Len(cas.buf) < PulseBuffer /\ Len(cas.part) < CasBits
    /\ cas.sense \in -1..1 /\ cas.nbits \in 0..(CasBits - 1) /\ cas.npulses \in 0..1
    /\ cas.buf # <<>> \/ cas.half # 0 => cas.turns

\* What is heard at a time of a list.
Sounds(list, bytes, time) ==
    LET i == Sought(list, time)
        into == time - Time(list, i)
        byte == EntryBytes(list[i], bytes)[into \div (2 * CasBits) + 1]
    IN  IF list[i].type = "silence" THEN [time |-> time, bit |-> Hush, half |-> 0]
        ELSE [time |-> time, bit |-> byte[((into \div 2) % CasBits) + 1], half |-> into % 2]

\* Through any recording, with the motor stopped by the program or the user at any
\* half-wave, idle lines, rewinding and opening the tape again, what the CUE list plays
\* whenever the motor has stopped is what the machine has sent since the tape was
\* rewound, in whole bits, after what was on it: "new data will be appended unless user
\* rewinds tape" (tape_cas.c:223-224).  The exceptions are a tape that had bytes but no
\* timing (bare), whose first new sample erases it; a seek while the machine records, and
\* a line that rests as long as a short half-wave before the first (odd).  And wherever
\* a tape is put, it plays on as if it had been played to there, except into a block of
\* an ASCII file (strayed): cue_entry_seek leaves the offset in the block as it was.
\* A tape is opened, unless its first sound is a leader (spins), which is counted for ever.
PlayedAsRecorded ==
    /\ CasOK
    /\ (cas.mode = "write" => ~cas.turns) /\ cas.kind = "cas" /\ ~cas.odd /\ ~cas.bare =>
          Played(ListOf(cas), cas.bytes) = cas.heard
    /\ cas.mode = "read" /\ cas.got # NoPulse /\ ~cas.strayed =>
          cas.got = Sounds(cas.list, cas.bytes, cas.got.time)
    /\ cas.spins => cas.kind = "k7"
==============================================================================
