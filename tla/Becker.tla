------------------------------- MODULE Becker -------------------------------
(***************************************************************************)
(* The Becker port, becker.c: a program reads and writes bytes, one at a   *)
(* time, of a TCP connection to a server.  The socket does not block, so a *)
(* send may take some of the bytes or none.  What it left is only sent     *)
(* with the next byte the program writes, and takes room until all has     *)
(* gone.  A reset of the machine leaves both buffers as they are.          *)
(*                                                                         *)
(* Bytes are numbered in the order each end sends them.                    *)
(***************************************************************************)
EXTENDS Integers, Sequences, SequencesExt

CONSTANTS
    INPUT_BUFFER_SIZE, OUTPUT_BUFFER_SIZE,
    LastByte \* bounds the bytes each end sends

ASSUME BeckerAssumption ==
    /\ INPUT_BUFFER_SIZE \in Nat \ {0} /\ OUTPUT_BUFFER_SIZE \in Nat \ {0}
    /\ LastByte \in Nat

VARIABLE becker

Beckers ==
    [input : Seq(1..LastByte),            \* what is in input_buf and has not been read
     output : Seq(1..LastByte),           \* output_buf, output_buf_length of it
     output_buf_ptr : 0..OUTPUT_BUFFER_SIZE,
     wire : Seq(1..LastByte),             \* sent by the server, and not received
     got : Seq(1..LastByte),              \* received by the server
     read : Seq(1..LastByte),             \* read by the program
     sent : 0..LastByte, written : 0..LastByte,
     lost : SUBSET (1..LastByte),         \* written and thrown away
     emptied : 0..LastByte]               \* written when the output was last empty

Unsent(b) == SubSeq(b.output, b.output_buf_ptr + 1, Len(b.output))

\* fetch_input: n bytes are there.
FetchInput(b, n) ==
    IF b.input = <<>>
    THEN [b EXCEPT !.input = SubSeq(b.wire, 1, n),
                   !.wire = SubSeq(b.wire, n + 1, Len(b.wire))]
    ELSE b

Available(b) == 0..(IF Len(b.wire) < INPUT_BUFFER_SIZE THEN Len(b.wire) ELSE INPUT_BUFFER_SIZE)

\* (Slip: what a short send left over is dropped.)
WriteOutputShort(b, taken) ==
    IF taken = 0 THEN b
    ELSE [b EXCEPT !.got = @ \o SubSeq(Unsent(b), 1, taken),
                   !.output = <<>>, !.output_buf_ptr = 0, !.emptied = b.written]

\* write_output: the socket takes some of what there is.
WriteOutput(b, taken) ==
    LET all == taken = Len(Unsent(b))
    IN  IF taken = 0 THEN b
        ELSE [b EXCEPT !.got = @ \o SubSeq(Unsent(b), 1, taken),
                       !.output = IF all THEN <<>> ELSE @,
                       !.output_buf_ptr = IF all THEN 0 ELSE @ + taken,
                       !.emptied = IF all THEN b.written ELSE @]

ReadStatus == \E n \in Available(becker) : becker' = FetchInput(becker, n)

ReadData ==
    \E n \in Available(becker) :
        LET b == FetchInput(becker, n)
        IN  becker' = IF b.input = <<>> THEN b
                      ELSE [b EXCEPT !.input = Tail(@), !.read = Append(@, Head(b.input))]

WriteData ==
    /\ becker.written < LastByte
    /\ LET byte == becker.written + 1
           b == [IF Len(becker.output) < OUTPUT_BUFFER_SIZE
                 THEN [becker EXCEPT !.output = Append(@, byte)]
                 ELSE [becker EXCEPT !.lost = @ \union {byte}]
                 EXCEPT !.written = byte]
       IN  \E taken \in 0..Len(Unsent(b)) : becker' = WriteOutput(b, taken)

ServerSends ==
    /\ becker.sent < LastByte
    /\ becker' = [becker EXCEPT !.sent = @ + 1, !.wire = Append(@, becker.sent + 1)]

BeckerInit ==
    becker = [input |-> <<>>, output |-> <<>>, output_buf_ptr |-> 0, wire |-> <<>>,
              got |-> <<>>, read |-> <<>>, sent |-> 0, written |-> 0, lost |-> {},
              emptied |-> 0]

BeckerNext == ReadStatus \/ ReadData \/ WriteData \/ ServerSends

BeckerSpec == BeckerInit /\ [][BeckerNext]_becker

-----------------------------------------------------------------------------
BeckerOK == becker \in Beckers

\* Each end gets the other's bytes once and in order, however the socket divides them,
\* but for those written with the output buffer at its limit, and that is reached only
\* by a buffer's worth of bytes written since the socket last took all (write_output
\* keeps what a short send leaves, and its room).
BytesCarried ==
    /\ BeckerOK
    /\ becker.read \o becker.input \o becker.wire = [i \in 1..becker.sent |-> i]
    /\ becker.got \o Unsent(becker) =
          FlattenSeq([i \in 1..becker.written |-> IF i \in becker.lost THEN <<>> ELSE <<i>>])
    /\ \A i \in becker.lost :
          i > becker.emptied => i > becker.emptied + OUTPUT_BUFFER_SIZE
=============================================================================
