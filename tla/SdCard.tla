--------------------------------- MODULE SdCard ---------------------------------
(***************************************************************************)
(* The SD card on the 65SPI of the MOOH cartridge, spi_sdcard.c, spi65.c    *)
(* and blockdev.c.  Each byte the program sends is exchanged for one of the *)
(* card's, and is all that drives it: a command and its arguments, a token, *)
(* the bytes of a block and its CRC.  The card learns that it has been      *)
(* deselected from the next byte only.                                     *)
(*                                                                         *)
(* The program numbers its commands, and sends that number as data.  It may *)
(* give up on a command at any byte, but then sends one with the card       *)
(* deselected before the next command, as is usual.                        *)
(***************************************************************************)
EXTENDS Integers, Sequences

CONSTANTS
    Lbas,         \* the blocks of the image
    BlockBytes,   \* bytes in a block of the card: 512 in the code
    SectorSizes,  \* of the image: a block, or half of one (a .vhd)
    FrameBytes,   \* arguments after a command: 6 in the code
    LastCommand   \* bounds the commands

ASSUME SdCardAssumption ==
    /\ BlockBytes \in Nat \ {0} /\ SectorSizes \subseteq 1..BlockBytes
    /\ FrameBytes \in Nat \ {0} /\ LastCommand \in Nat /\ Lbas # {}

VARIABLES
    sd,    \* the card
    image, \* what each block of the image holds: the numbers sent, or 0
    prog   \* the program: what it has sent, and what it was told

sdVars == <<sd, image, prog>>

Codes == {"GO_IDLE", "SEND_OP_COND", "APP_CMD", "READ", "WRITE", "SEND_CSD", "SEND_IF_COND"}

SdStates == {"STBY", "CMDFRAME", "RESP", "RESP_R7", "SENDCSD", "TOKEN", "SBLKREAD",
             "RTOKEN", "SBLKWRITE", "DATARESP"}

Numbers == 0..LastCommand
Blocks == [1..BlockBytes -> Numbers]

SdCards ==
    [state_sd : SdStates, code : Codes, app : BOOLEAN, \* app: current_cmd has APP_FLAG
     cmdcount : 0..FrameBytes, address : Lbas,
     blkbuf : Blocks, blkcount : 0..(BlockBytes + 2),
     idle_state : BOOLEAN, acmd : BOOLEAN]

Programs ==
    [sector : SectorSizes,
     target : Seq(Lbas),  \* the block each command is about
     free : BOOLEAN,      \* it may send a command: the last one has ended, or been given up
     carried : BOOLEAN,   \* the card has gone on with a command, or been replaced in one,
                          \* and takes what the program sends next for something else
     faulty : BOOLEAN,    \* the image could not be read, or written
     misled : BOOLEAN]    \* it was told of a block what is not so

Begun == Len(prog.target)

-----------------------------------------------------------------------------
NextState(sel) == IF sel THEN sd.state_sd ELSE "STBY"

To(c, state) == [c EXCEPT !.state_sd = state]

\* The program is free again when the card, as it counts, is back in standby.
Told(c, sel) == [prog EXCEPT !.free = ~sel \/ c.state_sd = "STBY"]

\* A byte that starts a command; it is sent with the card selected.
Command(code, lba) ==
    /\ prog.free /\ sd.state_sd = "STBY" /\ Begun < LastCommand
    /\ prog' = [prog EXCEPT !.free = FALSE, !.target = Append(@, lba)]
    /\ sd' = To([sd EXCEPT !.code = code, !.app = sd.acmd, !.acmd = FALSE, !.cmdcount = 0],
                "CMDFRAME")
    /\ UNCHANGED image

\* A byte that the card has no use for in this state.
Idle(sel) ==
    /\ sd.state_sd = "STBY" \/ (sd.state_sd \in {"CMDFRAME", "RTOKEN"} /\ ~sel)
    /\ sd' = To(sd, NextState(sel)) /\ prog' = Told(sd', sel)
    /\ UNCHANGED image

\* Inside the frame of a command: its argument, which is the block it is about.
Argument ==
    /\ sd.state_sd = "CMDFRAME"
    /\ sd' = To([sd EXCEPT !.cmdcount = @ + 1, !.address = prog.target[Begun]],
                IF sd.cmdcount + 1 = FrameBytes THEN "RESP" ELSE "CMDFRAME")
    /\ prog' = Told(sd', TRUE)
    /\ UNCHANGED image

\* The response to a command, selected or not; one with APP_FLAG is but ACMD41.
Respond(sel) ==
    /\ sd.state_sd = "RESP"
    /\ LET next == CASE ~sd.app /\ sd.code \in {"READ", "SEND_CSD"} -> "TOKEN"
                     [] ~sd.app /\ sd.code = "WRITE" -> "RTOKEN"
                     [] ~sd.app /\ sd.code = "SEND_IF_COND" -> "RESP_R7"
                     [] OTHER -> "STBY"
           c == CASE ~sd.app /\ sd.code = "GO_IDLE" -> [sd EXCEPT !.idle_state = TRUE]
                  [] sd.app /\ sd.code = "SEND_OP_COND" -> [sd EXCEPT !.idle_state = FALSE]
                  [] ~sd.app /\ sd.code = "APP_CMD" -> [sd EXCEPT !.acmd = TRUE]
                  [] OTHER -> sd
       IN  /\ sd' = To(c, next)
           /\ prog' = [Told(sd', sel) EXCEPT !.carried = @ \/ (~sel /\ next # "STBY")]
    /\ UNCHANGED image

\* The four bytes of an R7 response, or a CSD and its CRC: which is the last is a
\* choice.
SendRegister(sel, last) ==
    /\ sd.state_sd \in {"RESP_R7", "SENDCSD"}
    /\ sd' = To(sd, IF last THEN "STBY" ELSE NextState(sel)) /\ prog' = Told(sd', sel)
    /\ UNCHANGED image

\* What a read of the image gives: shorter sectors are padded.
Sector(lba) == [i \in 1..BlockBytes |-> IF i <= prog.sector THEN image[lba][i] ELSE 0]

\* The card's token; a block that cannot be read leaves the buffer as it was.
SendToken(sel, fails) ==
    /\ sd.state_sd = "TOKEN"
    /\ sd' = IF sd.code = "SEND_CSD" THEN To(sd, "SENDCSD")
             ELSE To([sd EXCEPT !.blkbuf = IF fails THEN @ ELSE Sector(sd.address),
                                !.blkcount = 0], "SBLKREAD")
    /\ prog' = [Told(sd', sel) EXCEPT !.carried = @ \/ ~sel,
                                      !.faulty = @ \/ (fails /\ sd.code = "READ")]
    /\ UNCHANGED image

\* A byte of the block, or of its CRC.
SendByte(sel) ==
    /\ sd.state_sd = "SBLKREAD"
    /\ LET last == sd.blkcount = BlockBytes + 1
       IN  /\ sd' = To([sd EXCEPT !.blkcount = @ + 1], IF last THEN "STBY" ELSE NextState(sel))
           /\ prog' = [Told(sd', sel) EXCEPT
                         !.misled = @ \/ (last /\ sel /\ sd.blkbuf # image[sd.address])]
    /\ UNCHANGED image

\* (Slip: the block goes on where the last one was given up.)
TakeTokenOn(c) == To(c, "SBLKWRITE")

TakeToken(c) == To([c EXCEPT !.blkcount = 0], "SBLKWRITE")

\* The program's token, or a byte before it.
AwaitToken(token, sel) ==
    /\ sd.state_sd = "RTOKEN"
    /\ sd' = IF token THEN TakeToken(sd) ELSE To(sd, NextState(sel))
    /\ prog' = [Told(sd', sel) EXCEPT !.carried = @ \/ (token /\ ~sel)]
    /\ UNCHANGED image

\* What a write of the image keeps of a block, if it can be written.
Kept(block, fails) ==
    [image EXCEPT ![sd.address] =
        IF fails THEN @ ELSE [i \in 1..BlockBytes |-> IF i <= prog.sector THEN block[i] ELSE @[i]]]

\* A byte of a block, or of its CRC, after which it is written.
TakeByte(sel, fails) ==
    /\ sd.state_sd = "SBLKWRITE"
    /\ LET i == sd.blkcount + 1
           last == i = BlockBytes + 2
           byte == IF sel THEN Begun ELSE 0
           c == IF i <= BlockBytes THEN [sd EXCEPT !.blkbuf[i] = byte] ELSE sd
       IN  /\ sd' = To([c EXCEPT !.blkcount = i], IF last THEN "DATARESP" ELSE NextState(sel))
           /\ image' = IF last THEN Kept(sd.blkbuf, fails) ELSE image
           /\ prog' = [Told(sd', sel) EXCEPT !.carried = @ \/ (last /\ ~sel),
                                             !.faulty = @ \/ (last /\ fails)]

\* Whatever became of it, the block is "accepted".
Accepted(sel) ==
    /\ sd.state_sd = "DATARESP"
    /\ sd' = To(sd, "STBY")
    /\ prog' = [Told(sd', sel) EXCEPT !.misled = @ \/ (sel /\ sd.blkbuf # image[sd.address])]
    /\ UNCHANGED image

-----------------------------------------------------------------------------
\* A reset of the machine: nothing but the state.
ResetCard ==
    /\ sd' = To(sd, "STBY") /\ prog' = [prog EXCEPT !.free = TRUE]
    /\ UNCHANGED image

NewCard(lba) ==
    [state_sd |-> "STBY", code |-> "GO_IDLE", app |-> FALSE, cmdcount |-> 0, address |-> lba,
     blkbuf |-> [i \in 1..BlockBytes |-> 0], blkcount |-> 0,
     idle_state |-> FALSE, acmd |-> FALSE]

\* The user names the image again: the card is replaced by a new one.
ReplaceCard ==
    /\ \E lba \in Lbas : sd' = NewCard(lba)
    /\ prog' = [prog EXCEPT !.carried = @ \/ ~prog.free]
    /\ UNCHANGED image

SdInit ==
    /\ sd = NewCard(CHOOSE lba \in Lbas : TRUE)
    /\ image = [lba \in Lbas |-> [i \in 1..BlockBytes |-> 0]]
    /\ \E sector \in SectorSizes :
          prog = [sector |-> sector, target |-> <<>>, free |-> TRUE, carried |-> FALSE,
                  faulty |-> FALSE, misled |-> FALSE]

SdNext ==
    \/ \E code \in Codes, lba \in Lbas : Command(code, lba)
    \/ \E sel \in BOOLEAN :
          \/ Idle(sel) \/ Respond(sel) \/ SendByte(sel) \/ Accepted(sel)
          \/ \E last \in BOOLEAN : SendRegister(sel, last)
          \/ \E fails \in BOOLEAN : SendToken(sel, fails) \/ TakeByte(sel, fails)
          \/ \E token \in BOOLEAN : AwaitToken(token, sel)
    \/ Argument \/ ResetCard \/ ReplaceCard

SdSpec == SdInit /\ [][SdNext]_sdVars

-----------------------------------------------------------------------------
SdOK == sd \in SdCards /\ image \in [Lbas -> Blocks] /\ prog \in Programs

\* Wherever the program gives up on a command, resets the machine or has its card
\* replaced, a block of the image holds what one command addressed to it sent, whole;
\* and what the program is told of a block is so.  Bytes not meant for the card that
\* take it further in a command (spi_sdcard.c:254), a card replaced in one, images that
\* fail, and those with shorter sectors than the card's blocks, of which the end is
\* dropped (blockdev.c:277), are the exceptions.
BlocksWhole ==
    /\ SdOK
    /\ ~prog.carried => \A lba \in Lbas :
          \/ \A i \in 1..BlockBytes : image[lba][i] = 0
          \/ \E n \in 1..Begun : /\ prog.target[n] = lba
                                 /\ \A i \in 1..prog.sector : image[lba][i] = n
    /\ ~prog.carried /\ ~prog.faulty /\ prog.sector = BlockBytes => ~prog.misled
=================================================================================
