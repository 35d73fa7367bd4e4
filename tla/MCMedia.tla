------------------------------- MODULE MCMedia -------------------------------
(* Two drives of two cylinders, with a one-track protected disk and an empty one that
   grows when it is written; the same two and two image files, one of sectors; five
   layouts of tracks, one far from the others, and five counts of cylinders, a standard
   one, one just below it, an odd one and both limits; a tape of two pulses, bytes of two bits and a character to type, or four
   without the tape; a CAS file of up to four bytes of two bits, three half-waves to
   buffer and three bits to record, and places within every kind of entry to wind to; a
   card with two blocks of two bytes and two commands; an IDE drive of one sector of two
   words, that may grow by one, and two commands. *)
EXTENDS Media

CONSTANTS d0, d1, f0, f1

MCImages ==
    {[wp |-> TRUE, wb |-> TRUE, dirty |-> FALSE, ncyl |-> 1, nhead |-> 1],
     [wp |-> FALSE, wb |-> FALSE, dirty |-> FALSE, ncyl |-> 0, nhead |-> 0]}
MCLayout(first, last, code, dden) ==
    [first |-> first, last |-> last, code |-> code, dden |-> dden]
MCLayouts == {MCLayout(1, 18, 1, TRUE), MCLayout(0, 17, 1, TRUE), MCLayout(1, 10, 1, FALSE),
              MCLayout(1, 18, 2, TRUE), MCLayout(200, 217, 1, TRUE)}

(* The parts that are not the session's stay as they began.  Nothing reads what became
   of the last save but the step that saves.  Playing a CAS tape is left for the state it
   began in, and reads no byte again once it has been played. *)
MCView ==
    <<session,
      CASE session = "drives" -> <<vip>>
        [] session = "disks" ->
               <<file, bak, disk, todo, writes, orig, renamed, shared, cut>>
        [] session = "formats" -> <<formatVars>>
        [] session \in {"cassette", "typing"} -> <<tapeVars>>
        [] session = "recording" ->
               IF cas.mode # "read" THEN <<cas>>
               ELSE <<cas.bytes, cas.list, cas.pos, cas.at, cas.time, cas.byteoff, cas.nbits,
                      cas.npulses, cas.got, cas.strayed,
                      IF cas.nbits + cas.npulses = 0 THEN <<>> ELSE cas.byte>>
        [] session = "card" -> <<sdVars>>
        [] session = "hard disk" -> <<ideVars>> >>
==============================================================================
