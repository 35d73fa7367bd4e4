----------------------------- MODULE DeviceProofs -----------------------------
(***************************************************************************)
(* What is proved about what is at the other end of the machine's ports:   *)
(* a block of a card or a sector of a hard disk, of any length, holds what *)
(* one command sent to it, whole, and the program is told what is so; a    *)
(* key of the Dragon that is down is one that a held key will let go of;   *)
(* texts are typed in order; the tape turns, flushes and is intercepted as *)
(* motor and flags ask; and a server's bytes are carried once, in order.   *)
(***************************************************************************)
EXTENDS SdCard, Ide, Keyboard, Tape, Becker, SequenceTheorems, WellFoundedInduction, TLAPS

-----------------------------------------------------------------------------
(* The SD card *)

(* Where the card is in a command, and that from the response on it has the
   address that the command was sent with. *)
InCommand(c, p) ==
    /\ c.state_sd # "STBY" => Len(p.target) > 0
    /\ c.state_sd \notin {"STBY", "CMDFRAME"} => c.address = p.target[Len(p.target)]
    /\ c.state_sd = "CMDFRAME" => c.cmdcount < FrameBytes
    /\ c.state_sd = "TOKEN" => c.code \in {"READ", "SEND_CSD"}
    /\ c.state_sd \in {"SBLKREAD", "SBLKWRITE"} => c.blkcount < BlockBytes + 2

(* The buffer has so much of the block as has come from the program, or the block of
   the image that the card sends or has written. *)
Buffered(c, im, p) ==
    /\ ~p.carried /\ c.state_sd = "SBLKWRITE" =>
          \A i \in 1..BlockBytes : i <= c.blkcount => c.blkbuf[i] = Len(p.target)
    /\ ~p.carried /\ ~p.faulty /\ p.sector = BlockBytes
       /\ c.state_sd \in {"SBLKREAD", "DATARESP"} => c.blkbuf = im[c.address]

HoldsOne(im, p) ==
    ~p.carried => \A lba \in Lbas :
        \/ \A i \in 1..BlockBytes : im[lba][i] = 0
        \/ \E n \in 1..Len(p.target) : /\ p.target[n] = lba
                                       /\ \A i \in 1..p.sector : im[lba][i] = n

Trusted(p) == ~p.carried /\ ~p.faulty /\ p.sector = BlockBytes => ~p.misled

SdInv ==
    /\ SdOK /\ Begun <= LastCommand
    /\ InCommand(sd, prog) /\ Buffered(sd, image, prog) /\ HoldsOne(image, prog) /\ Trusted(prog)

LEMMA ToIs ==
    ASSUME NEW c \in SdCards, NEW state \in SdStates
    PROVE  /\ To(c, state) \in SdCards /\ To(c, state).state_sd = state
           /\ To(c, state).address = c.address /\ To(c, state).code = c.code
           /\ To(c, state).cmdcount = c.cmdcount /\ To(c, state).blkcount = c.blkcount
           /\ To(c, state).blkbuf = c.blkbuf
  BY DEF To, SdCards

LEMMA ToldIs ==
    ASSUME prog \in Programs, NEW c, NEW sel
    PROVE  /\ Told(c, sel) = [prog EXCEPT !.free = (~sel \/ c.state_sd = "STBY")]
           /\ Told(c, sel) \in Programs
           /\ Told(c, sel).target = prog.target /\ Told(c, sel).sector = prog.sector
           /\ Told(c, sel).carried = prog.carried /\ Told(c, sel).faulty = prog.faulty
           /\ Told(c, sel).misled = prog.misled
  <1>1. (~sel \/ c.state_sd = "STBY") \in BOOLEAN
    OBVIOUS
  <1> QED
    BY <1>1 DEF Told, Programs

(* Where the program's account does not get worse, and the card is in no block. *)
LEMMA QuietInv ==
    ASSUME SdInv, sd' \in SdCards, UNCHANGED image, prog' \in Programs,
           prog'.target = prog.target, prog'.sector = prog.sector,
           prog.carried => prog'.carried, prog.faulty => prog'.faulty,
           prog'.misled = prog.misled,
           InCommand(sd', prog'), Buffered(sd', image', prog')
    PROVE  SdInv'
  <1>1. SdOK'
    BY DEF SdInv, SdOK
  <1>2. HoldsOne(image', prog')
    BY DEF SdInv, HoldsOne
  <1>3. Trusted(prog')
    BY DEF SdInv, SdOK, Trusted, Programs
  <1> QED
    BY <1>1, <1>2, <1>3 DEF SdInv, Begun

LEMMA NewCardIs ==
    ASSUME NEW lba \in Lbas
    PROVE  NewCard(lba) \in SdCards /\ NewCard(lba).state_sd = "STBY"
  <1>1. /\ "STBY" \in SdStates /\ "GO_IDLE" \in Codes /\ 0 \in 0..FrameBytes
        /\ 0 \in 0..(BlockBytes + 2) /\ 0 \in Numbers
    BY SdCardAssumption DEF SdStates, Codes, Numbers
  <1>2. [i \in 1..BlockBytes |-> 0] \in Blocks
    BY <1>1 DEF Blocks
  <1> QED
    BY <1>1, <1>2 DEF NewCard, SdCards

LEMMA SdInitInv == SdInit => SdInv
  <1> SUFFICES ASSUME SdInit PROVE SdInv
    OBVIOUS
  <1> DEFINE lba == CHOOSE lba \in Lbas : TRUE
  <1>1. lba \in Lbas
    BY SdCardAssumption
  <1> HIDE DEF lba
  <1>2. sd = NewCard(lba)
    BY DEF SdInit, lba
  <1>3. sd \in SdCards /\ sd.state_sd = "STBY"
    BY <1>1, <1>2, NewCardIs
  <1>4. PICK sector \in SectorSizes :
          prog = [sector |-> sector, target |-> <<>>, free |-> TRUE, carried |-> FALSE,
                  faulty |-> FALSE, misled |-> FALSE]
    BY DEF SdInit
  <1>5. <<>> \in Seq(Lbas) /\ Len(<<>>) = 0
    OBVIOUS
  <1>6. prog \in Programs /\ Begun = 0 /\ prog.misled = FALSE
    BY <1>4, <1>5 DEF Programs, Begun
  <1>7. /\ image = [l \in Lbas |-> [i \in 1..BlockBytes |-> 0]]
        /\ [i \in 1..BlockBytes |-> 0] \in Blocks
    BY SdCardAssumption DEF SdInit, Blocks, Numbers
  <1>8. SdOK
    BY <1>3, <1>6, <1>7 DEF SdOK
  <1>9. InCommand(sd, prog) /\ Buffered(sd, image, prog)
    BY <1>3 DEF InCommand, Buffered
  <1>10. HoldsOne(image, prog)
    BY <1>7 DEF HoldsOne
  <1>11. Begun <= LastCommand
    BY <1>6, SdCardAssumption
  <1> QED
    BY <1>6, <1>8, <1>9, <1>10, <1>11 DEF SdInv, Trusted

LEMMA CommandInv ==
    ASSUME SdInv, NEW code \in Codes, NEW lba \in Lbas, Command(code, lba)
    PROVE  SdInv'
  <1>1. sd \in SdCards /\ prog \in Programs /\ image \in [Lbas -> Blocks] /\ sd.state_sd = "STBY"
    BY DEF SdInv, SdOK, Command
  <1>2. /\ prog.target \in Seq(Lbas) /\ prog' = [prog EXCEPT !.free = FALSE, !.target = Append(@, lba)]
        /\ Len(prog.target) < LastCommand /\ Len(prog.target) \in Nat
    BY <1>1 DEF Command, Programs, Begun
  <1> DEFINE t == Append(prog.target, lba)
  <1>3. /\ t \in Seq(Lbas) /\ Len(t) = Len(prog.target) + 1 /\ Len(t) > 0
        /\ \A n \in 1..Len(prog.target) : t[n] = prog.target[n]
    BY <1>2
  <1> HIDE DEF t
  <1>4. prog' = [prog EXCEPT !.free = FALSE, !.target = t]
    BY <1>1, <1>2 DEF t, Programs
  <1>5. /\ prog' \in Programs /\ prog'.target = t /\ prog'.sector = prog.sector
        /\ prog'.carried = prog.carried /\ prog'.faulty = prog.faulty
        /\ prog'.misled = prog.misled
    BY <1>1, <1>3, <1>4 DEF Programs
  <1> DEFINE c == [sd EXCEPT !.code = code, !.app = sd.acmd, !.acmd = FALSE, !.cmdcount = 0]
  <1>6. sd' = To(c, "CMDFRAME") /\ image' = image
    BY DEF Command
  <1>7. c \in SdCards /\ c.cmdcount = 0
    <2>1. 0 \in 0..FrameBytes /\ FALSE \in BOOLEAN /\ sd.acmd \in BOOLEAN
      BY <1>1, SdCardAssumption DEF SdCards
    <2>2. c \in SdCards
      BY <1>1, <2>1, ZenonT(30) DEF SdCards
    <2>3. c.cmdcount = 0
      BY <1>1 DEF SdCards
    <2> QED
      BY <2>2, <2>3
  <1> HIDE DEF c
  <1>8. sd' \in SdCards /\ sd'.state_sd = "CMDFRAME" /\ sd'.cmdcount = 0
    BY <1>6, <1>7, ToIs DEF SdStates
  <1>9. SdOK'
    BY <1>1, <1>5, <1>6, <1>8 DEF SdOK
  <1>10. InCommand(sd', prog') /\ Buffered(sd', image', prog')
    BY <1>3, <1>5, <1>8, SdCardAssumption DEF InCommand, Buffered
  <1>11. HoldsOne(image', prog')
    <2>1. \A n \in 1..Len(prog.target) : n \in 1..Len(t)
      BY <1>2, <1>3
    <2> QED
      BY SMTT(30), <1>3, <1>5, <1>6, <2>1 DEF SdInv, HoldsOne
  <1>12. Trusted(prog')
    BY <1>5 DEF SdInv, Trusted
  <1>13. Begun' <= LastCommand
    BY <1>2, <1>3, <1>5, SdCardAssumption DEF Begun
  <1> QED
    BY <1>9, <1>10, <1>11, <1>12, <1>13 DEF SdInv

(* Steps that leave the block in the buffer, or have none, and go on or to standby. *)
LEMMA IdleInv ==
    ASSUME SdInv, NEW sel \in BOOLEAN, Idle(sel)
    PROVE  SdInv'
  <1>1. sd \in SdCards /\ prog \in Programs
    BY DEF SdInv, SdOK
  <1>2. sd' = To(sd, NextState(sel)) /\ prog' = Told(sd', sel) /\ image' = image
    BY DEF Idle
  <1>3. NextState(sel) \in {"STBY", sd.state_sd} /\ NextState(sel) \in SdStates
    BY <1>1 DEF NextState, SdCards, SdStates
  <1>4. sd' \in SdCards /\ sd'.state_sd \in {"STBY", sd.state_sd} /\ sd'.address = sd.address
        /\ sd'.cmdcount = sd.cmdcount
    BY <1>1, <1>2, <1>3, ToIs
  <1>5. sd.state_sd \in {"STBY", "CMDFRAME", "RTOKEN"}
    BY DEF Idle
  <1>6. /\ prog' \in Programs /\ prog'.target = prog.target /\ prog'.sector = prog.sector
        /\ prog'.carried = prog.carried /\ prog'.faulty = prog.faulty
        /\ prog'.misled = prog.misled
    BY <1>1, <1>2, ToldIs
  <1>7. InCommand(sd', prog') /\ Buffered(sd', image', prog')
    BY <1>4, <1>5, <1>6 DEF SdInv, InCommand, Buffered
  <1> QED
    BY <1>2, <1>4, <1>6, <1>7, QuietInv

LEMMA ArgumentInv == ASSUME SdInv, Argument PROVE SdInv'
  <1>1. /\ sd \in SdCards /\ prog \in Programs /\ sd.state_sd = "CMDFRAME"
        /\ Len(prog.target) > 0 /\ Len(prog.target) \in Nat
    BY DEF SdInv, SdOK, Argument, InCommand, Programs
  <1>2. prog.target[Begun] \in Lbas
    BY <1>1 DEF Begun, Programs
  <1> DEFINE count == sd.cmdcount + 1
             c == [sd EXCEPT !.cmdcount = count, !.address = prog.target[Begun]]
             next == IF count = FrameBytes THEN "RESP" ELSE "CMDFRAME"
  <1>3. sd' = To(c, next) /\ prog' = Told(sd', TRUE) /\ image' = image
    BY DEF Argument
  <1>4. count \in 0..FrameBytes /\ next \in SdStates /\ (next = "CMDFRAME" => count < FrameBytes)
    <2>1. sd.cmdcount \in Nat /\ sd.cmdcount < FrameBytes /\ FrameBytes \in Nat
      BY <1>1, SdCardAssumption DEF SdInv, InCommand, SdCards
    <2> QED
      BY <2>1 DEF SdStates
  <1> HIDE DEF count, next
  <1>5. c \in SdCards /\ c.cmdcount = count /\ c.address = prog.target[Begun]
    BY <1>1, <1>2, <1>4 DEF SdCards
  <1> HIDE DEF c
  <1>6. /\ sd' \in SdCards /\ sd'.state_sd = next /\ sd'.cmdcount = count
        /\ sd'.address = prog.target[Begun]
    BY <1>3, <1>4, <1>5, ToIs
  <1>7. /\ prog' \in Programs /\ prog'.target = prog.target /\ prog'.sector = prog.sector
        /\ prog'.carried = prog.carried /\ prog'.faulty = prog.faulty
        /\ prog'.misled = prog.misled
    <2>1. LET p == Told(sd', TRUE)
          IN  /\ p \in Programs /\ p.target = prog.target /\ p.sector = prog.sector
              /\ p.carried = prog.carried /\ p.faulty = prog.faulty /\ p.misled = prog.misled
      BY <1>1, ToldIs
    <2> QED
      BY <1>3, <2>1
  <1>8. next \in {"RESP", "CMDFRAME"}
    BY DEF next
  <1>9. InCommand(sd', prog') /\ Buffered(sd', image', prog')
    BY <1>1, <1>4, <1>6, <1>7, <1>8 DEF InCommand, Buffered, Begun
  <1> QED
    BY <1>3, <1>6, <1>7, <1>9, QuietInv

LEMMA RespondInv ==
    ASSUME SdInv, NEW sel \in BOOLEAN, Respond(sel)
    PROVE  SdInv'
  <1>1. /\ sd \in SdCards /\ prog \in Programs /\ sd.state_sd = "RESP"
        /\ Len(prog.target) > 0 /\ sd.address = prog.target[Len(prog.target)]
    BY DEF SdInv, SdOK, Respond, InCommand
  <1> DEFINE next == CASE ~sd.app /\ sd.code \in {"READ", "SEND_CSD"} -> "TOKEN"
                       [] ~sd.app /\ sd.code = "WRITE" -> "RTOKEN"
                       [] ~sd.app /\ sd.code = "SEND_IF_COND" -> "RESP_R7"
                       [] OTHER -> "STBY"
             c == CASE ~sd.app /\ sd.code = "GO_IDLE" -> [sd EXCEPT !.idle_state = TRUE]
                    [] sd.app /\ sd.code = "SEND_OP_COND" -> [sd EXCEPT !.idle_state = FALSE]
                    [] ~sd.app /\ sd.code = "APP_CMD" -> [sd EXCEPT !.acmd = TRUE]
                    [] OTHER -> sd
             carried == prog.carried \/ (~sel /\ next # "STBY")
  <1>2. /\ next \in {"TOKEN", "RTOKEN", "RESP_R7", "STBY"}
        /\ next = "TOKEN" => sd.code \in {"READ", "SEND_CSD"}
    OBVIOUS
  <1>3. c \in SdCards /\ c.code = sd.code /\ c.address = sd.address
    <2>1. \/ c = [sd EXCEPT !.idle_state = TRUE] \/ c = [sd EXCEPT !.idle_state = FALSE]
          \/ c = [sd EXCEPT !.acmd = TRUE] \/ c = sd
      OBVIOUS
    <2> HIDE DEF c
    <2> QED
      BY <1>1, <2>1 DEF SdCards
  <1>4. /\ sd' = To(c, next) /\ image' = image
        /\ prog' = [Told(sd', sel) EXCEPT !.carried = @ \/ (~sel /\ next # "STBY")]
    BY DEF Respond
  <1> HIDE DEF c, next
  <1>5. next \in SdStates
    BY <1>2 DEF SdStates
  <1>6. sd' \in SdCards /\ sd'.state_sd = next /\ sd'.code = sd.code /\ sd'.address = sd.address
    BY <1>3, <1>4, <1>5, ToIs
  <1>7. /\ Told(sd', sel) \in Programs /\ Told(sd', sel).target = prog.target
        /\ Told(sd', sel).sector = prog.sector /\ Told(sd', sel).carried = prog.carried
        /\ Told(sd', sel).faulty = prog.faulty /\ Told(sd', sel).misled = prog.misled
    BY <1>1, ToldIs
  <1>8. carried \in BOOLEAN
    OBVIOUS
  <1>9. prog' = [Told(sd', sel) EXCEPT !.carried = carried]
    BY <1>4, <1>7
  <1>10. /\ prog' \in Programs /\ prog'.target = prog.target /\ prog'.sector = prog.sector
         /\ prog'.carried = carried /\ prog'.faulty = prog.faulty
         /\ prog'.misled = prog.misled
    BY <1>7, <1>8, <1>9 DEF Programs
  <1>11. InCommand(sd', prog') /\ Buffered(sd', image', prog')
    BY <1>1, <1>2, <1>6, <1>10 DEF InCommand, Buffered
  <1> QED
    BY <1>4, <1>6, <1>10, <1>11, QuietInv

LEMMA SendRegisterInv ==
    ASSUME SdInv, NEW sel \in BOOLEAN, NEW last \in BOOLEAN, SendRegister(sel, last)
    PROVE  SdInv'
  <1> DEFINE next == IF last THEN "STBY" ELSE NextState(sel)
  <1>1. /\ sd \in SdCards /\ prog \in Programs /\ sd.state_sd \in {"RESP_R7", "SENDCSD"}
    BY DEF SdInv, SdOK, SendRegister
  <1>2. sd' = To(sd, next) /\ prog' = Told(sd', sel) /\ image' = image
    BY DEF SendRegister
  <1>3. next \in {"STBY", sd.state_sd} /\ next \in SdStates
    BY <1>1 DEF NextState, SdStates
  <1>4. sd' \in SdCards /\ sd'.state_sd \in {"STBY", sd.state_sd} /\ sd'.address = sd.address
    BY <1>1, <1>2, <1>3, ToIs
  <1>5. /\ prog' \in Programs /\ prog'.target = prog.target /\ prog'.sector = prog.sector
        /\ prog'.carried = prog.carried /\ prog'.faulty = prog.faulty
        /\ prog'.misled = prog.misled
    BY <1>1, <1>2, ToldIs
  <1>6. InCommand(sd', prog') /\ Buffered(sd', image', prog')
    BY <1>1, <1>4, <1>5 DEF SdInv, InCommand, Buffered
  <1> QED
    BY <1>2, <1>4, <1>5, <1>6, QuietInv

(* The whole block is read where the image's sectors are as long as the card's. *)
LEMMA WholeSector ==
    ASSUME SdOK, NEW lba \in Lbas
    PROVE  Sector(lba) \in Blocks /\ (prog.sector = BlockBytes => Sector(lba) = image[lba])
  <1>1. /\ image[lba] \in [1..BlockBytes -> Numbers] /\ 0 \in Numbers
    BY SdCardAssumption DEF SdOK, Blocks, Numbers
  <1>2. Sector(lba) \in Blocks
    BY <1>1 DEF Sector, Blocks
  <1>3. ASSUME prog.sector = BlockBytes PROVE Sector(lba) = image[lba]
    <2>1. \A i \in 1..BlockBytes : i <= prog.sector
      BY <1>3, SdCardAssumption
    <2>2. Sector(lba) = [i \in 1..BlockBytes |-> image[lba][i]]
      BY <2>1 DEF Sector
    <2> QED
      BY <1>1, <2>2
  <1> QED
    BY <1>2, <1>3

LEMMA SendTokenInv ==
    ASSUME SdInv, NEW sel \in BOOLEAN, NEW fails \in BOOLEAN, SendToken(sel, fails)
    PROVE  SdInv'
  <1>1. /\ SdOK /\ sd \in SdCards /\ prog \in Programs /\ sd.state_sd = "TOKEN"
        /\ Len(prog.target) > 0 /\ sd.address = prog.target[Len(prog.target)]
        /\ sd.code \in {"READ", "SEND_CSD"} /\ image' = image
    BY DEF SdInv, SdOK, SendToken, InCommand
  <1> DEFINE buf == IF fails THEN sd.blkbuf ELSE Sector(sd.address)
             c == [sd EXCEPT !.blkbuf = buf, !.blkcount = 0]
             carried == prog.carried \/ ~sel
             faulty == prog.faulty \/ (fails /\ sd.code = "READ")
  <1>2. sd.address \in Lbas /\ sd.blkbuf \in Blocks
    BY <1>1 DEF SdCards
  <1>3. buf \in Blocks /\ (~fails /\ prog.sector = BlockBytes => buf = image[sd.address])
    BY <1>1, <1>2, WholeSector
  <1> HIDE DEF buf
  <1>4. /\ c \in SdCards /\ c.address = sd.address /\ c.blkbuf = buf /\ c.blkcount = 0
        /\ 0 < BlockBytes + 2
    <2>1. 0 \in 0..(BlockBytes + 2) /\ 0 < BlockBytes + 2
      BY SdCardAssumption
    <2>2. c \in SdCards
      BY <1>1, <1>3, <2>1, ZenonT(30) DEF SdCards
    <2> QED
      BY <1>1, <2>1, <2>2 DEF SdCards
  <1>5. sd' = IF sd.code = "SEND_CSD" THEN To(sd, "SENDCSD") ELSE To(c, "SBLKREAD")
    BY DEF SendToken, buf
  <1> HIDE DEF c
  <1>6. /\ sd' \in SdCards /\ sd'.address = sd.address
        /\ \/ sd'.state_sd = "SENDCSD"
           \/ /\ sd.code = "READ" /\ sd'.state_sd = "SBLKREAD"
              /\ sd'.blkbuf = buf /\ sd'.blkcount = 0
    BY <1>1, <1>4, <1>5, ToIs DEF SdStates
  <1>7. /\ Told(sd', sel) \in Programs /\ Told(sd', sel).target = prog.target
        /\ Told(sd', sel).sector = prog.sector /\ Told(sd', sel).carried = prog.carried
        /\ Told(sd', sel).faulty = prog.faulty /\ Told(sd', sel).misled = prog.misled
    BY <1>1, ToldIs
  <1>8. carried \in BOOLEAN /\ faulty \in BOOLEAN
    OBVIOUS
  <1>9. prog' = [Told(sd', sel) EXCEPT !.carried = carried, !.faulty = faulty]
    BY <1>7 DEF SendToken
  <1>10. /\ prog' \in Programs /\ prog'.target = prog.target /\ prog'.sector = prog.sector
         /\ prog'.carried = carried /\ prog'.faulty = faulty /\ prog'.misled = prog.misled
    BY <1>7, <1>8, <1>9 DEF Programs
  <1>11. InCommand(sd', prog')
    BY <1>1, <1>4, <1>6, <1>10 DEF InCommand
  <1>12. Buffered(sd', image', prog')
    BY <1>1, <1>3, <1>6, <1>10 DEF Buffered
  <1> QED
    BY <1>1, <1>6, <1>10, <1>11, <1>12, QuietInv

LEMMA SendByteInv ==
    ASSUME SdInv, NEW sel \in BOOLEAN, SendByte(sel)
    PROVE  SdInv'
  <1> DEFINE last == sd.blkcount = BlockBytes + 1
             c == [sd EXCEPT !.blkcount = sd.blkcount + 1]
             next == IF last THEN "STBY" ELSE NextState(sel)
             misled == prog.misled \/ (last /\ sel /\ sd.blkbuf # image[sd.address])
  <1>1. /\ SdOK /\ sd \in SdCards /\ prog \in Programs /\ sd.state_sd = "SBLKREAD"
        /\ Len(prog.target) > 0 /\ sd.address = prog.target[Len(prog.target)]
        /\ sd.blkcount \in Nat /\ sd.blkcount < BlockBytes + 2 /\ BlockBytes \in Nat
        /\ image' = image
    BY SdCardAssumption DEF SdInv, SdOK, SendByte, InCommand, SdCards
  <1>2. /\ next \in {"STBY", "SBLKREAD"} /\ next \in SdStates
        /\ next = "SBLKREAD" => sd.blkcount + 1 < BlockBytes + 2
    BY <1>1 DEF NextState, SdStates
  <1>3. sd.blkcount + 1 \in 0..(BlockBytes + 2)
    BY <1>1
  <1>4. /\ c \in SdCards /\ c.address = sd.address /\ c.blkbuf = sd.blkbuf
        /\ c.blkcount = sd.blkcount + 1
    BY <1>1, <1>3 DEF SdCards
  <1>5. sd' = To(c, next)
    BY <1>1 DEF SendByte
  <1>6. prog' = [Told(sd', sel) EXCEPT !.misled =
                    @ \/ (last /\ sel /\ sd.blkbuf # image[sd.address])]
    BY DEF SendByte
  <1> HIDE DEF c, next
  <1>7. /\ sd' \in SdCards /\ sd'.state_sd = next /\ sd'.address = sd.address
        /\ sd'.blkbuf = sd.blkbuf /\ sd'.blkcount = sd.blkcount + 1
    BY <1>2, <1>4, <1>5, ToIs
  <1>8. /\ Told(sd', sel) \in Programs /\ Told(sd', sel).target = prog.target
        /\ Told(sd', sel).sector = prog.sector /\ Told(sd', sel).carried = prog.carried
        /\ Told(sd', sel).faulty = prog.faulty /\ Told(sd', sel).misled = prog.misled
    BY <1>1, ToldIs
  <1>9. misled \in BOOLEAN
    OBVIOUS
  <1>10. prog' = [Told(sd', sel) EXCEPT !.misled = misled]
    BY <1>6, <1>8
  <1>11. /\ prog' \in Programs /\ prog'.target = prog.target /\ prog'.sector = prog.sector
         /\ prog'.carried = prog.carried /\ prog'.faulty = prog.faulty
         /\ prog'.misled = misled
    BY <1>8, <1>9, <1>10 DEF Programs
  <1>12. InCommand(sd', prog')
    BY <1>1, <1>2, <1>7, <1>11 DEF InCommand
  <1>13. Buffered(sd', image', prog')
    BY <1>1, <1>2, <1>7, <1>11 DEF SdInv, Buffered
  <1>14. Trusted(prog')
    BY <1>1, <1>11 DEF SdInv, Trusted, Buffered
  <1>15. HoldsOne(image', prog') /\ Begun' <= LastCommand
    BY <1>1, <1>11 DEF SdInv, HoldsOne, Begun
  <1>16. SdOK'
    BY <1>1, <1>7, <1>11 DEF SdOK
  <1> QED
    BY <1>12, <1>13, <1>14, <1>15, <1>16 DEF SdInv

LEMMA AwaitTokenInv ==
    ASSUME SdInv, NEW token \in BOOLEAN, NEW sel \in BOOLEAN, AwaitToken(token, sel)
    PROVE  SdInv'
  <1>1. /\ sd \in SdCards /\ prog \in Programs /\ sd.state_sd = "RTOKEN"
        /\ Len(prog.target) > 0 /\ sd.address = prog.target[Len(prog.target)]
        /\ image' = image
    BY DEF SdInv, SdOK, AwaitToken, InCommand
  <1> DEFINE c == [sd EXCEPT !.blkcount = 0]
             carried == prog.carried \/ (token /\ ~sel)
  <1>2. 0 \in 0..(BlockBytes + 2) /\ 0 < BlockBytes + 2 /\ \A i \in 1..BlockBytes : ~(i <= 0)
    BY SdCardAssumption
  <1>3. c \in SdCards /\ c.address = sd.address /\ c.blkcount = 0
    BY <1>1, <1>2 DEF SdCards
  <1>4. sd' = IF token THEN To(c, "SBLKWRITE") ELSE To(sd, NextState(sel))
    BY DEF AwaitToken, TakeToken
  <1> HIDE DEF c
  <1>5. NextState(sel) \in {"STBY", "RTOKEN"} /\ NextState(sel) \in SdStates
    BY <1>1 DEF NextState, SdStates
  <1>6. /\ sd' \in SdCards /\ sd'.address = sd.address
        /\ \/ sd'.state_sd \in {"STBY", "RTOKEN"}
           \/ sd'.state_sd = "SBLKWRITE" /\ sd'.blkcount = 0
    BY <1>1, <1>3, <1>4, <1>5, ToIs DEF SdStates
  <1>7. /\ Told(sd', sel) \in Programs /\ Told(sd', sel).target = prog.target
        /\ Told(sd', sel).sector = prog.sector /\ Told(sd', sel).carried = prog.carried
        /\ Told(sd', sel).faulty = prog.faulty /\ Told(sd', sel).misled = prog.misled
    BY <1>1, ToldIs
  <1>8. carried \in BOOLEAN
    OBVIOUS
  <1>9. prog' = [Told(sd', sel) EXCEPT !.carried = carried]
    BY <1>7 DEF AwaitToken
  <1>10. /\ prog' \in Programs /\ prog'.target = prog.target /\ prog'.sector = prog.sector
         /\ prog'.carried = carried /\ prog'.faulty = prog.faulty
         /\ prog'.misled = prog.misled
    BY <1>7, <1>8, <1>9 DEF Programs
  <1>11. InCommand(sd', prog')
    BY <1>1, <1>2, <1>6, <1>10 DEF InCommand
  <1>12. Buffered(sd', image', prog')
    BY <1>2, <1>6, <1>10 DEF Buffered
  <1> QED
    BY <1>1, <1>6, <1>10, <1>11, <1>12, QuietInv

LEMMA AcceptedInv ==
    ASSUME SdInv, NEW sel \in BOOLEAN, Accepted(sel)
    PROVE  SdInv'
  <1> DEFINE misled == prog.misled \/ (sel /\ sd.blkbuf # image[sd.address])
  <1>1. /\ SdOK /\ sd \in SdCards /\ prog \in Programs /\ sd.state_sd = "DATARESP"
        /\ image' = image
    BY DEF SdInv, SdOK, Accepted
  <1>2. sd' \in SdCards /\ sd'.state_sd = "STBY"
    BY <1>1, ToIs DEF Accepted, SdStates
  <1>3. /\ Told(sd', sel) \in Programs /\ Told(sd', sel).target = prog.target
        /\ Told(sd', sel).sector = prog.sector /\ Told(sd', sel).carried = prog.carried
        /\ Told(sd', sel).faulty = prog.faulty /\ Told(sd', sel).misled = prog.misled
    BY <1>1, ToldIs
  <1>4. misled \in BOOLEAN /\ prog' = [Told(sd', sel) EXCEPT !.misled = misled]
    BY <1>3 DEF Accepted
  <1>5. /\ prog' \in Programs /\ prog'.target = prog.target /\ prog'.sector = prog.sector
        /\ prog'.carried = prog.carried /\ prog'.faulty = prog.faulty
        /\ prog'.misled = misled
    BY <1>3, <1>4 DEF Programs
  <1>6. InCommand(sd', prog') /\ Buffered(sd', image', prog')
    BY <1>2 DEF InCommand, Buffered
  <1>7. Trusted(prog')
    BY <1>1, <1>5 DEF SdInv, Trusted, Buffered
  <1>8. HoldsOne(image', prog') /\ Begun' <= LastCommand /\ SdOK'
    BY <1>1, <1>2, <1>5 DEF SdInv, HoldsOne, Begun, SdOK
  <1> QED
    BY <1>6, <1>7, <1>8 DEF SdInv

LEMMA ResetCardInv == ASSUME SdInv, ResetCard PROVE SdInv'
  <1>1. sd \in SdCards /\ prog \in Programs /\ image' = image
    BY DEF SdInv, SdOK, ResetCard
  <1>2. sd' \in SdCards /\ sd'.state_sd = "STBY"
    BY <1>1, ToIs DEF ResetCard, SdStates
  <1>3. /\ prog' \in Programs /\ prog'.target = prog.target /\ prog'.sector = prog.sector
        /\ prog'.carried = prog.carried /\ prog'.faulty = prog.faulty
        /\ prog'.misled = prog.misled
    BY <1>1 DEF ResetCard, Programs
  <1>4. InCommand(sd', prog') /\ Buffered(sd', image', prog')
    BY <1>2 DEF InCommand, Buffered
  <1> QED
    BY <1>1, <1>2, <1>3, <1>4, QuietInv

LEMMA ReplaceCardInv == ASSUME SdInv, ReplaceCard PROVE SdInv'
  <1> DEFINE carried == prog.carried \/ ~prog.free
  <1>1. prog \in Programs /\ image' = image
    BY DEF SdInv, SdOK, ReplaceCard
  <1>2. sd' \in SdCards /\ sd'.state_sd = "STBY"
    BY NewCardIs DEF ReplaceCard
  <1>3. carried \in BOOLEAN /\ prog' = [prog EXCEPT !.carried = carried]
    BY <1>1 DEF ReplaceCard, Programs
  <1>4. /\ prog' \in Programs /\ prog'.target = prog.target /\ prog'.sector = prog.sector
        /\ prog'.carried = carried /\ prog'.faulty = prog.faulty
        /\ prog'.misled = prog.misled
    BY <1>1, <1>3 DEF Programs
  <1>5. InCommand(sd', prog') /\ Buffered(sd', image', prog')
    BY <1>2 DEF InCommand, Buffered
  <1> QED
    BY <1>1, <1>2, <1>4, <1>5, QuietInv

(* What is left of a block that has come whole. *)
LEMMA KeptIs ==
    ASSUME SdInv, sd.state_sd = "SBLKWRITE", sd.blkcount = BlockBytes + 1,
           NEW fails \in BOOLEAN, image' = Kept(sd.blkbuf, fails)
    PROVE  /\ image' \in [Lbas -> Blocks]
           /\ HoldsOne(image', prog)
           /\ ~fails /\ prog.sector = BlockBytes => image'[sd.address] = sd.blkbuf
  <1>1. /\ SdOK /\ sd \in SdCards /\ image \in [Lbas -> Blocks]
        /\ sd.address \in Lbas /\ sd.blkbuf \in Blocks
        /\ Len(prog.target) > 0 /\ sd.address = prog.target[Len(prog.target)]
    BY DEF SdInv, SdOK, InCommand, SdCards
  <1>2. prog.sector \in 1..BlockBytes /\ Len(prog.target) \in Nat /\ BlockBytes \in Nat
    <2>1. prog \in Programs
      BY <1>1 DEF SdOK
    <2>2. prog.sector \in SectorSizes /\ prog.target \in Seq(Lbas)
      BY <2>1 DEF Programs
    <2>3. Len(prog.target) \in Nat
      BY <2>2
    <2>4. prog.sector \in 1..BlockBytes /\ BlockBytes \in Nat
      BY <2>2, SdCardAssumption
    <2> QED
      BY <2>3, <2>4
  <1> DEFINE old == image[sd.address]
             mixed == [i \in 1..BlockBytes |-> IF i <= prog.sector THEN sd.blkbuf[i] ELSE old[i]]
             new == IF fails THEN old ELSE mixed
  <1>3. old \in Blocks
    BY <1>1
  <1>4. mixed \in Blocks
    BY <1>1, <1>3 DEF Blocks
  <1>5. image' = [image EXCEPT ![sd.address] = new]
    BY DEF Kept
  <1>6. new \in Blocks
    BY <1>3, <1>4
  <1>7. \A i \in 1..prog.sector : i \in 1..BlockBytes /\ mixed[i] = sd.blkbuf[i]
    BY <1>2
  <1>8. prog.sector = BlockBytes => mixed = sd.blkbuf
    <2>1. sd.blkbuf = [i \in 1..BlockBytes |-> sd.blkbuf[i]]
      BY <1>1 DEF Blocks
    <2>2. prog.sector = BlockBytes => \A i \in 1..BlockBytes : i <= prog.sector
      BY <1>2
    <2> QED
      BY <2>1, <2>2
  <1> HIDE DEF old, mixed
  <1>9. image' \in [Lbas -> Blocks]
    BY <1>1, <1>5, <1>6
  <1>10. ASSUME ~prog.carried, NEW lba \in Lbas
         PROVE  \/ \A i \in 1..BlockBytes : image'[lba][i] = 0
                \/ \E n \in 1..Len(prog.target) : /\ prog.target[n] = lba
                                                  /\ \A i \in 1..prog.sector : image'[lba][i] = n
    <2>1. \/ \A i \in 1..BlockBytes : image[lba][i] = 0
          \/ \E n \in 1..Len(prog.target) : /\ prog.target[n] = lba
                                            /\ \A i \in 1..prog.sector : image[lba][i] = n
      BY <1>10 DEF SdInv, HoldsOne
    <2>2. CASE image'[lba] = image[lba]
      BY <2>1, <2>2
    <2>3. CASE image'[lba] # image[lba]
      <3>1. lba = sd.address /\ ~fails /\ image'[lba] = mixed
        BY <1>1, <1>5, <2>3 DEF old
      <3>2. \A i \in 1..BlockBytes : sd.blkbuf[i] = Len(prog.target)
        BY <1>2, <1>10 DEF SdInv, Buffered
      <3>3. \A i \in 1..prog.sector : image'[lba][i] = Len(prog.target)
        BY <1>7, <3>1, <3>2
      <3>4. Len(prog.target) \in 1..Len(prog.target)
        BY <1>1, <1>2
      <3> QED
        BY <1>1, <3>1, <3>3, <3>4
    <2> QED
      BY <2>2, <2>3
  <1>11. ~fails /\ prog.sector = BlockBytes => image'[sd.address] = sd.blkbuf
    BY <1>1, <1>5, <1>8
  <1> QED
    BY <1>9, <1>10, <1>11 DEF HoldsOne

LEMMA TakeByteInv ==
    ASSUME SdInv, NEW sel \in BOOLEAN, NEW fails \in BOOLEAN, TakeByte(sel, fails)
    PROVE  SdInv'
  <1> DEFINE count == sd.blkcount + 1
             last == count = BlockBytes + 2
             byte == IF sel THEN Begun ELSE 0
             buf == IF count <= BlockBytes THEN [sd.blkbuf EXCEPT ![count] = byte]
                                           ELSE sd.blkbuf
             c == [sd EXCEPT !.blkbuf = buf, !.blkcount = count]
             next == IF last THEN "DATARESP" ELSE NextState(sel)
             carried == prog.carried \/ (last /\ ~sel)
             faulty == prog.faulty \/ (last /\ fails)
  <1>1. /\ SdOK /\ sd \in SdCards /\ image \in [Lbas -> Blocks] /\ prog \in Programs
        /\ sd.state_sd = "SBLKWRITE" /\ Begun <= LastCommand
        /\ Len(prog.target) > 0 /\ sd.address = prog.target[Len(prog.target)]
        /\ sd.blkcount < BlockBytes + 2
    BY DEF SdInv, SdOK, TakeByte, InCommand
  <1>2. /\ sd.blkcount \in Nat /\ BlockBytes \in Nat /\ Len(prog.target) \in Nat
        /\ sd.blkbuf \in [1..BlockBytes -> Numbers] /\ LastCommand \in Nat
    BY <1>1, SdCardAssumption DEF SdCards, Programs, Blocks
  <1>3. count \in 0..(BlockBytes + 2) /\ count \in 1..(BlockBytes + 2)
    BY <1>1, <1>2
  <1>4. byte \in Numbers
    BY <1>1, <1>2 DEF Numbers, Begun
  <1>5. buf \in Blocks
    BY <1>2, <1>4 DEF Blocks
  <1>6. /\ next \in {"DATARESP", "STBY", "SBLKWRITE"} /\ next \in SdStates
        /\ last <=> next = "DATARESP"
        /\ next = "SBLKWRITE" => sel /\ count < BlockBytes + 2
    BY <1>1, <1>2, <1>3 DEF NextState, SdStates
  <1>7. sel => \A i \in 1..BlockBytes : i <= count =>
                  buf[i] = IF i <= sd.blkcount THEN sd.blkbuf[i] ELSE Len(prog.target)
    <2>1. ASSUME sel, NEW i \in 1..BlockBytes, i <= count
          PROVE  buf[i] = IF i <= sd.blkcount THEN sd.blkbuf[i] ELSE Len(prog.target)
      <3>1. byte = Len(prog.target)
        BY <2>1 DEF Begun
      <3> HIDE DEF byte
      <3> QED
        BY <1>2, <2>1, <3>1
    <2> QED
      BY <2>1
  <1>8. last => buf = sd.blkbuf
    BY <1>2
  <1>9. sd' = To(c, next)
    <2>1. CASE count <= BlockBytes
      <3>1. c = [[sd EXCEPT !.blkbuf[count] = byte] EXCEPT !.blkcount = count]
        BY <1>1, <2>1 DEF SdCards
      <3> QED
        BY <2>1, <3>1 DEF TakeByte
    <2>2. CASE ~(count <= BlockBytes)
      <3>1. c = [sd EXCEPT !.blkcount = count]
        BY <1>1, <2>2 DEF SdCards
      <3> QED
        BY <2>2, <3>1 DEF TakeByte
    <2> QED
      BY <2>1, <2>2
  <1>10. image' = IF last THEN Kept(sd.blkbuf, fails) ELSE image
    BY DEF TakeByte
  <1>11. prog' = [Told(sd', sel) EXCEPT !.carried = @ \/ (last /\ ~sel),
                                        !.faulty = @ \/ (last /\ fails)]
    BY DEF TakeByte
  <1>12. sd.blkcount = BlockBytes + 1 <=> last
    BY <1>2
  <1>13. carried \in BOOLEAN /\ faulty \in BOOLEAN
    OBVIOUS
  <1> HIDE DEF buf, next
  <1>14. /\ c \in SdCards /\ c.address = sd.address /\ c.blkbuf = buf /\ c.blkcount = count
    BY <1>1, <1>3, <1>5 DEF SdCards
  <1> HIDE DEF c, count
  <1>15. /\ sd' \in SdCards /\ sd'.state_sd = next /\ sd'.address = sd.address
         /\ sd'.blkbuf = buf /\ sd'.blkcount = count
    BY <1>6, <1>9, <1>14, ToIs
  <1>16. /\ Told(sd', sel) \in Programs /\ Told(sd', sel).target = prog.target
         /\ Told(sd', sel).sector = prog.sector /\ Told(sd', sel).carried = prog.carried
         /\ Told(sd', sel).faulty = prog.faulty /\ Told(sd', sel).misled = prog.misled
    BY <1>1, ToldIs
  <1>17. prog' = [Told(sd', sel) EXCEPT !.carried = carried, !.faulty = faulty]
    BY <1>11, <1>16
  <1> HIDE DEF last
  <1>18. /\ prog' \in Programs /\ prog'.target = prog.target /\ prog'.sector = prog.sector
         /\ prog'.carried = carried /\ prog'.faulty = faulty /\ prog'.misled = prog.misled
    BY <1>13, <1>16, <1>17 DEF Programs
  <1>19. /\ image' \in [Lbas -> Blocks] /\ HoldsOne(image', prog)
         /\ last /\ ~fails /\ prog.sector = BlockBytes => image'[sd.address] = sd.blkbuf
    <2>1. CASE last
      BY <1>1, <1>10, <1>12, <2>1, KeptIs
    <2>2. CASE ~last
      BY <1>1, <1>10, <2>2 DEF SdInv
    <2> QED
      BY <2>1, <2>2
  <1>20. HoldsOne(image', prog')
    <2>1. ~prog'.carried => ~prog.carried
      BY <1>18
    <2> QED
      BY <1>18, <1>19, <2>1 DEF HoldsOne
  <1>21. InCommand(sd', prog')
    BY <1>1, <1>6, <1>15, <1>18 DEF InCommand
  <1>22. Buffered(sd', image', prog')
    <2>1. ASSUME ~prog'.carried, sd'.state_sd = "SBLKWRITE"
          PROVE  \A i \in 1..BlockBytes : i <= count => buf[i] = Len(prog.target)
      <3>1. \A i \in 1..BlockBytes : i <= sd.blkcount => sd.blkbuf[i] = Len(prog.target)
        BY <1>1, <1>18, <2>1 DEF SdInv, Buffered
      <3> QED
        BY <1>6, <1>7, <1>15, <2>1, <3>1
    <2>2. ASSUME ~prog'.carried, ~prog'.faulty, prog'.sector = BlockBytes,
                 sd'.state_sd \in {"SBLKREAD", "DATARESP"}
          PROVE  sd'.blkbuf = image'[sd'.address]
      <3>1. last
        BY <1>6, <1>15, <2>2
      <3> QED
        BY <1>8, <1>15, <1>18, <1>19, <2>2, <3>1
    <2> QED
      BY <1>15, <1>18, <2>1, <2>2 DEF Buffered
  <1>23. Trusted(prog')
    BY <1>18 DEF SdInv, Trusted
  <1>24. SdOK' /\ Begun' <= LastCommand
    BY <1>1, <1>15, <1>18, <1>19 DEF SdOK, Begun
  <1> QED
    BY <1>20, <1>21, <1>22, <1>23, <1>24 DEF SdInv

LEMMA SdNextInv == SdInv /\ [SdNext]_sdVars => SdInv'
  <1> SUFFICES ASSUME SdInv, [SdNext]_sdVars PROVE SdInv'
    OBVIOUS
  <1>1. ASSUME NEW code \in Codes, NEW lba \in Lbas, Command(code, lba) PROVE SdInv'
    BY <1>1, CommandInv
  <1>2. ASSUME NEW sel \in BOOLEAN,
               Idle(sel) \/ Respond(sel) \/ SendByte(sel) \/ Accepted(sel)
        PROVE  SdInv'
    BY <1>2, IdleInv, RespondInv, SendByteInv, AcceptedInv
  <1>3. ASSUME NEW sel \in BOOLEAN, NEW x \in BOOLEAN,
               SendRegister(sel, x) \/ SendToken(sel, x) \/ TakeByte(sel, x)
               \/ AwaitToken(x, sel)
        PROVE  SdInv'
    BY <1>3, SendRegisterInv, SendTokenInv, TakeByteInv, AwaitTokenInv
  <1>4. ASSUME Argument \/ ResetCard \/ ReplaceCard PROVE SdInv'
    BY <1>4, ArgumentInv, ResetCardInv, ReplaceCardInv
  <1>5. ASSUME UNCHANGED sdVars PROVE SdInv'
    BY <1>5 DEF sdVars, SdInv, SdOK, Begun, InCommand, Buffered, HoldsOne, Trusted
  <1> QED
    BY <1>1, <1>2, <1>3, <1>4, <1>5 DEF SdNext

(* For an image of any size, and programs that give up on commands wherever they like,
   reset the machine or have the card replaced: a block of the image is as it was, or
   holds what one WRITE addressed to it sent, whole, since the card's address is that of
   the last command from its response on (spi_sdcard.c:250) and a block is written only
   when all of it has come; and what the program is told of a block it has read or
   written is so, where nothing has carried the card further in a command
   (spi_sdcard.c:254) and, for the answers, the image has not failed. *)
THEOREM BlocksKept == SdSpec => []BlocksWhole
  <1>1. SdInv => BlocksWhole
    BY DEF SdInv, BlocksWhole, HoldsOne, Trusted, Begun
  <1> QED
    BY <1>1, SdInitInv, SdNextInv, PTL DEF SdSpec


-----------------------------------------------------------------------------
(* The hard disks *)

Controllers ==
    [selected : Units, kind : HdKinds, drive : [Units -> IdeDrives], aborted : BOOLEAN]

(* The words that the program has moved of a sector, and the sector they are of. *)
Moved(p) == p.words % IdeWords

Sought(p) == p.lsn + (p.words \div IdeWords)

GotSoFar(d, p, n) == Len(p.got) = n /\ \A w \in 1..n : p.got[w] = d.data[w]

(* How far a drive u has gone with the command that the program is about, and the program
   with it: they count alike, and the buffer has what the file has, or what was sent. *)
Reading(d, f, p) ==
    /\ d.state = "DATA_IN" /\ p.lsn < HdSectors
    /\ Moved(p) = 0 => d.dptr = IdeWords /\ d.pos = Sought(p)
    /\ Moved(p) # 0 => /\ d.dptr = Moved(p) /\ d.pos = Sought(p) + 1 /\ d.pos <= Len(f)
                       /\ d.data = f[d.pos] /\ GotSoFar(d, p, Moved(p))

Storing(d, u, p) ==
    /\ d.state = "DATA_OUT" /\ p.lsn < HdSectors /\ d.dptr = Moved(p) /\ d.pos = Sought(p)
    /\ \A w \in 1..Moved(p) : d.data[w] = <<u, p.last, Sought(p)>>

Identifying(d, u, p) ==
    /\ d.state = "DATA_IN" /\ d.length = 1 /\ p.words < IdeWords /\ d.dptr = p.words
    /\ d.data = Filled(u, 0, -1) /\ GotSoFar(d, p, p.words)

InTransfer(d, u, f, p) ==
    /\ p.cmd = "READ" => Reading(d, f, p)
    /\ p.cmd = "WRITE" => Storing(d, u, p)
    /\ p.cmd = "IDENTIFY" => Identifying(d, u, p)

(* Of any drive: one that is not there is in a transfer only where it was pulled. *)
DriveSound(d, p) ==
    /\ d.state # "IDLE" => d.length > 0 /\ (d.present \/ p.pulled)
    /\ d.state = "DATA_OUT" => d.dptr < IdeWords

(* Of the one the program uses; a command that no drive has heard is not in its place,
   but is held up at the end of a sector. *)
UnitSound(d, u, f, p) ==
    /\ d.state = "DATA_OUT" /\ p.cmd = "WRITE" => p.lsn < HdSectors \/ p.words <= d.dptr
    /\ d.present /\ d.state # "IDLE" => InTransfer(d, u, f, p)

(* A file is never shorter than it was, and each sector is what one command wrote. *)
FileWhole(u, f, n) ==
    /\ Len(f) >= HdSectors
    /\ \A s \in 1..Len(f) : \E m \in 0..n : f[s] = Filled(u, m, s - 1)

IdeTyped ==
    /\ ide \in Controllers /\ driver \in Drivers
    /\ hd \in [Units -> Seq([1..IdeWords -> Word])]

IdeInv ==
    /\ IdeTyped
    /\ \A i \in Units : DriveSound(ide.drive[i], driver)
    /\ UnitSound(Unit, ide.selected, hd[ide.selected], driver)
    /\ \A i \in Units : FileWhole(i, hd[i], driver.last)
    /\ ~driver.pulled => ~driver.misled /\ ~ide.aborted

LEMMA DivMod ==
    ASSUME NEW b \in Nat \ {0}, NEW n \in Nat
    PROVE  /\ n \div b \in Nat /\ n % b \in 0..(b - 1)
           /\ n = b * (n \div b) + (n % b)
  OBVIOUS

LEMMA DivUnique ==
    ASSUME NEW b \in Nat \ {0}, NEW q \in Nat, NEW r \in 0..(b - 1),
           NEW q2 \in Nat, NEW r2 \in 0..(b - 1), b * q + r = b * q2 + r2
    PROVE  q = q2 /\ r = r2
  <1>1. ASSUME NEW x \in Nat, NEW y \in Nat, x < y PROVE b * y >= b * x + b
    <2>1. y >= x + 1
      BY <1>1
    <2>2. b * y >= b * (x + 1)
      BY <2>1
    <2> QED
      BY <2>2
  <1> QED
    BY <1>1

(* One word more: of the same sector, or the first of the next. *)
LEMMA OneMore ==
    ASSUME NEW b \in Nat \ {0}, NEW n \in Nat
    PROVE  /\ n % b = b - 1 => (n + 1) % b = 0 /\ (n + 1) \div b = (n \div b) + 1
           /\ n % b # b - 1 => (n + 1) % b = (n % b) + 1 /\ (n + 1) \div b = n \div b
  <1>1. n \div b \in Nat /\ n % b \in 0..(b - 1) /\ n = b * (n \div b) + (n % b)
    BY DivMod
  <1>2. n + 1 \in Nat
    OBVIOUS
  <1>3. /\ (n + 1) \div b \in Nat /\ (n + 1) % b \in 0..(b - 1)
        /\ n + 1 = b * ((n + 1) \div b) + ((n + 1) % b)
    BY <1>2, DivMod
  <1> DEFINE q == n \div b  r == n % b  q2 == (n + 1) \div b  r2 == (n + 1) % b
  <1>4. CASE r = b - 1
    <2>1. b * (q + 1) + 0 = b * q2 + r2
      BY <1>1, <1>3, <1>4
    <2> QED
      BY <1>1, <1>3, <1>4, <2>1, DivUnique
  <1>5. CASE r # b - 1
    <2>1. b * q + (r + 1) = b * q2 + r2 /\ r + 1 \in 0..(b - 1)
      BY <1>1, <1>3, <1>5
    <2> QED
      BY <1>1, <1>3, <1>5, <2>1, DivUnique
  <1> QED
    BY <1>4, <1>5


(* What the operators on a drive leave it as. *)
LEMMA IdeBounds ==
    /\ IdeWords \in Nat /\ IdeWords > 0 /\ HdSectors \in Nat /\ HdSectors > 0
    /\ 0 \in 0..IdeWords /\ IdeWords \in 0..IdeWords /\ -1 \in -1..(HdSectors + 2)
    /\ 0 \in 0..LastTransfer /\ 0 \in 0..HdSectors /\ 0 \in 0..(2 * IdeWords)
    /\ 0 \in 0..2 /\ 1 \in 0..2 /\ 1 \in Counts /\ -1 \in -1..HdSectors
  BY IdeAssumption DEF Counts

LEMMA FilledIs ==
    ASSUME NEW u \in Units, NEW n \in 0..LastTransfer, NEW lsn \in -1..HdSectors
    PROVE  Filled(u, n, lsn) \in [1..IdeWords -> Word]
  <1>1. <<u, n, lsn>> \in Word
    BY DEF Word
  <1> QED
    BY <1>1 DEF Filled

LEMMA IdeReadyIs ==
    ASSUME NEW d \in IdeDrives
    PROVE  /\ IdeReady(d) \in IdeDrives /\ IdeReady(d).state = "IDLE"
           /\ IdeReady(d).present = d.present
  <1>1. IdeReady(d) \in IdeDrives
    BY IdeBounds, ZenonT(30) DEF IdeReady, IdeDrives
  <1>2. IdeReady(d).state = "IDLE" /\ IdeReady(d).present = d.present
    BY DEF IdeReady, IdeDrives
  <1> QED
    BY <1>1, <1>2

LEMMA FailingIs ==
    ASSUME NEW d \in IdeDrives
    PROVE  /\ Failing(d) \in IdeDrives /\ Failing(d).state = "IDLE"
           /\ Failing(d).present = d.present /\ Failing(d).err = TRUE
  <1>1. /\ IdeReady(d) \in IdeDrives /\ IdeReady(d).state = "IDLE"
        /\ IdeReady(d).present = d.present
    BY IdeReadyIs
  <1>2. Failing(d) = [IdeReady(d) EXCEPT !.err = TRUE]
    BY DEF Failing
  <1>3. Failing(d) \in IdeDrives
    BY <1>1, <1>2, ZenonT(30) DEF IdeDrives
  <1>4. Failing(d).state = "IDLE" /\ Failing(d).present = d.present /\ Failing(d).err = TRUE
    BY <1>1, <1>2 DEF IdeDrives
  <1> QED
    BY <1>3, <1>4

LEMMA ResetDriveIs ==
    ASSUME NEW d \in IdeDrives
    PROVE  /\ ResetDrive(d) \in IdeDrives /\ ResetDrive(d).present = d.present
           /\ IF d.present THEN ResetDrive(d).state = "IDLE" ELSE ResetDrive(d) = d
  <1>1. /\ IdeReady(d) \in IdeDrives /\ IdeReady(d).state = "IDLE"
        /\ IdeReady(d).present = d.present
    BY IdeReadyIs
  <1> DEFINE c == [IdeReady(d) EXCEPT !.err = FALSE]
  <1>2. c \in IdeDrives
    BY <1>1, ZenonT(30) DEF IdeDrives
  <1>3. c.state = "IDLE" /\ c.present = d.present
    BY <1>1 DEF IdeDrives
  <1>4. ResetDrive(d) = IF d.present THEN c ELSE d
    BY DEF ResetDrive
  <1> HIDE DEF c
  <1> QED
    BY <1>2, <1>3, <1>4

LEMMA QuitIs ==
    ASSUME driver \in Drivers
    PROVE  /\ Quit \in Drivers /\ Quit.cmd = "none" /\ Quit.last = driver.last
           /\ Quit.words = 0 /\ Quit.got = <<>>
           /\ Quit.pulled = driver.pulled /\ Quit.misled = driver.misled
  <1>1. <<>> \in Seq(Word)
    OBVIOUS
  <1> DEFINE p == [driver EXCEPT !.lsn = 0, !.count = 1, !.cmd = "none"]
  <1>2. p \in Drivers
    BY IdeBounds, ZenonT(30) DEF Drivers
  <1>3. /\ p.cmd = "none" /\ p.last = driver.last
        /\ p.pulled = driver.pulled /\ p.misled = driver.misled
    BY DEF Drivers
  <1>4. Quit = [p EXCEPT !.words = 0, !.got = <<>>]
    BY DEF Quit, Drivers
  <1> HIDE DEF p
  <1>5. Quit \in Drivers
    BY <1>1, <1>2, <1>4, IdeBounds, ZenonT(30) DEF Drivers
  <1>6. /\ Quit.cmd = "none" /\ Quit.last = driver.last /\ Quit.words = 0 /\ Quit.got = <<>>
        /\ Quit.pulled = driver.pulled /\ Quit.misled = driver.misled
    BY <1>2, <1>3, <1>4 DEF Drivers
  <1> QED
    BY <1>5, <1>6

LEMMA CompletedIs ==
    ASSUME NEW d \in IdeDrives, NEW u \in Units, NEW cmd, NEW lsn \in 0..HdSectors,
           NEW count \in Counts, NEW valid \in BOOLEAN
    PROVE  LET c == Completed(d, u, cmd, lsn, count, valid)
           IN  /\ c \in IdeDrives /\ c.present = d.present
               /\ \/ c.state = "IDLE"
                  \/ /\ cmd = "IDENTIFY" /\ c.state = "DATA_IN" /\ c.dptr = 0
                     /\ c.length = 1 /\ c.data = Filled(u, 0, -1)
                  \/ /\ cmd = "READ" /\ c.state = "DATA_IN" /\ c.dptr = IdeWords
                     /\ c.length = count /\ c.pos = lsn /\ lsn < HdSectors
                  \/ /\ cmd = "WRITE" /\ c.state = "DATA_OUT" /\ c.dptr = 0
                     /\ c.length = count /\ c.pos = lsn /\ lsn < HdSectors
  <1> DEFINE c == Completed(d, u, cmd, lsn, count, valid)
             t == [d EXCEPT !.length = count, !.pos = lsn]
             identify == [DataIn(d) EXCEPT !.dptr = 0, !.length = 1, !.data = Filled(u, 0, -1)]
             good == [d EXCEPT !.failed = FALSE]
             bad == [d EXCEPT !.failed = TRUE]
  <1>1. /\ count \in 0..2 /\ lsn \in -1..(HdSectors + 2)
        /\ Filled(u, 0, -1) \in [1..IdeWords -> Word]
        /\ good \in IdeDrives /\ bad \in IdeDrives
        /\ good.present = d.present /\ bad.present = d.present
    <2>1. count \in 0..2 /\ lsn \in -1..(HdSectors + 2)
      BY IdeBounds DEF Counts
    <2>2. Filled(u, 0, -1) \in [1..IdeWords -> Word]
      BY IdeBounds, FilledIs
    <2>3. good \in IdeDrives /\ bad \in IdeDrives
      BY ZenonT(30) DEF IdeDrives
    <2>4. good.present = d.present /\ bad.present = d.present
      BY DEF IdeDrives
    <2> QED
      BY <2>1, <2>2, <2>3, <2>4
  <1>2. t \in IdeDrives /\ t.present = d.present /\ t.length = count /\ t.pos = lsn
    <2>1. t \in IdeDrives
      BY <1>1, ZenonT(30) DEF IdeDrives
    <2> QED
      BY <2>1 DEF IdeDrives
  <1>3. \/ c = identify /\ cmd = "IDENTIFY"
        \/ c \in {IdeReady(good), Failing(bad), IdeReady(d), Failing(d)}
        \/ cmd = "READ" /\ Found(u, lsn) /\ c = DataIn(t)
        \/ cmd = "WRITE" /\ Found(u, lsn) /\ c = DataOut(t)
    BY DEF Completed
  <1> HIDE DEF c, t, good, bad
  <1>4. CASE c = identify /\ cmd = "IDENTIFY"
    <2> DEFINE e == DataIn(d)
    <2>1. e \in IdeDrives
      BY IdeBounds, ZenonT(30) DEF DataIn, IdeDrives
    <2>2. e.present = d.present /\ e.state = "DATA_IN"
      BY DEF DataIn, IdeDrives
    <2>3. c = [e EXCEPT !.dptr = 0, !.length = 1, !.data = Filled(u, 0, -1)]
      BY <1>4
    <2> HIDE DEF e
    <2>4. c \in IdeDrives
      BY <1>1, <2>1, <2>3, IdeBounds, ZenonT(30) DEF IdeDrives
    <2>5. /\ c.present = d.present /\ c.state = "DATA_IN" /\ c.dptr = 0
          /\ c.length = 1 /\ c.data = Filled(u, 0, -1)
      BY <2>1, <2>2, <2>3 DEF IdeDrives
    <2> QED
      BY <1>4, <2>4, <2>5 DEF c
  <1>5. CASE c \in {IdeReady(good), Failing(bad), IdeReady(d), Failing(d)}
    <2>1. \A e \in {IdeReady(good), Failing(bad), IdeReady(d), Failing(d)} :
             e \in IdeDrives /\ e.present = d.present /\ e.state = "IDLE"
      <3>1. \A e \in IdeDrives :
               /\ IdeReady(e) \in IdeDrives /\ IdeReady(e).state = "IDLE"
               /\ IdeReady(e).present = e.present
               /\ Failing(e) \in IdeDrives /\ Failing(e).state = "IDLE"
               /\ Failing(e).present = e.present
        BY IdeReadyIs, FailingIs
      <3> QED
        BY <1>1, <3>1
    <2>2. c \in IdeDrives /\ c.present = d.present /\ c.state = "IDLE"
      BY <1>5, <2>1
    <2> QED
      BY <2>2 DEF c
  <1>6. CASE cmd = "READ" /\ Found(u, lsn) /\ c = DataIn(t)
    <2>1. c \in IdeDrives
      BY <1>2, <1>6, IdeBounds, ZenonT(30) DEF DataIn, IdeDrives
    <2>2. /\ c.present = d.present /\ c.state = "DATA_IN" /\ c.dptr = IdeWords
          /\ c.length = count /\ c.pos = lsn
      BY <1>2, <1>6 DEF DataIn, IdeDrives
    <2> QED
      BY <1>6, <2>1, <2>2 DEF c, Found
  <1>7. CASE cmd = "WRITE" /\ Found(u, lsn) /\ c = DataOut(t)
    <2>1. c \in IdeDrives
      BY <1>2, <1>7, IdeBounds, ZenonT(30) DEF DataOut, IdeDrives
    <2>2. /\ c.present = d.present /\ c.state = "DATA_OUT" /\ c.dptr = 0
          /\ c.length = count /\ c.pos = lsn
      BY <1>2, <1>7 DEF DataOut, IdeDrives
    <2> QED
      BY <1>7, <2>1, <2>2 DEF c, Found
  <1> QED
    BY <1>3, <1>4, <1>5, <1>6, <1>7


LEMMA NoDriveIs == NoDrive \in IdeDrives /\ NoDrive.state = "IDLE" /\ NoDrive.present = FALSE
  <1>1. Filled(0, 0, -1) \in [1..IdeWords -> Word]
    BY IdeBounds, FilledIs DEF Units
  <1>2. NoDrive \in IdeDrives
    BY <1>1, IdeBounds, ZenonT(30) DEF NoDrive, IdeDrives
  <1> QED
    BY <1>2 DEF NoDrive

LEMMA IdeInitInv == IdeInit => IdeInv
  <1> SUFFICES ASSUME IdeInit PROVE IdeInv
    OBVIOUS
  <1>1. PICK kind \in HdKinds :
          ide = [selected |-> 0, kind |-> kind, drive |-> [i \in Units |-> NoDrive],
                 aborted |-> FALSE]
    BY DEF IdeInit
  <1>2. PICK mode \in {"LBA", "CHS"} :
          driver = [mode |-> mode, last |-> 0, lsn |-> 0, count |-> 1, cmd |-> "none",
                    words |-> 0, got |-> <<>>, pulled |-> FALSE, misled |-> FALSE]
    BY DEF IdeInit
  <1>3. hd = [i \in Units |-> [s \in 1..HdSectors |-> Filled(i, 0, s - 1)]]
    BY DEF IdeInit
  <1>4. ide \in Controllers /\ ide.selected \in Units /\ ~ide.aborted
        /\ \A i \in Units : ide.drive[i] = NoDrive
    <2>1. 0 \in Units /\ FALSE \in BOOLEAN /\ [i \in Units |-> NoDrive] \in [Units -> IdeDrives]
      BY NoDriveIs DEF Units
    <2>2. ide \in Controllers
      BY <1>1, <2>1, ZenonT(30) DEF Controllers
    <2> QED
      BY <1>1, <2>1, <2>2
  <1>5. driver \in Drivers /\ ~driver.pulled /\ ~driver.misled /\ driver.last = 0
    <2>1. <<>> \in Seq(Word)
      OBVIOUS
    <2>2. driver \in Drivers
      BY <1>2, <2>1, IdeBounds, ZenonT(30) DEF Drivers
    <2> QED
      BY <1>2, <2>2
  <1>6. ASSUME NEW i \in Units
        PROVE  /\ hd[i] \in Seq([1..IdeWords -> Word]) /\ Len(hd[i]) = HdSectors
               /\ \A s \in 1..Len(hd[i]) : hd[i][s] = Filled(i, 0, s - 1)
    <2>1. \A s \in 1..HdSectors : s - 1 \in -1..HdSectors
      BY IdeBounds
    <2>2. hd[i] = [s \in 1..HdSectors |-> Filled(i, 0, s - 1)]
      BY <1>3
    <2>3. \A s \in 1..HdSectors : Filled(i, 0, s - 1) \in [1..IdeWords -> Word]
      BY <2>1, IdeBounds, FilledIs
    <2>4. hd[i] \in [1..HdSectors -> [1..IdeWords -> Word]]
      BY <2>2, <2>3
    <2>5. hd[i] \in Seq([1..IdeWords -> Word]) /\ Len(hd[i]) = HdSectors
      BY <2>4, IdeBounds
    <2> QED
      BY <2>2, <2>5
  <1>7. hd \in [Units -> Seq([1..IdeWords -> Word])]
    <2>1. hd = [i \in Units |-> hd[i]]
      BY <1>3
    <2> QED
      BY <1>6, <2>1
  <1>8. ASSUME NEW i \in Units PROVE FileWhole(i, hd[i], driver.last)
    <2>1. 0 \in 0..driver.last
      BY <1>5
    <2> QED
      BY <1>6, <2>1, IdeBounds DEF FileWhole
  <1>9. \A i \in Units : DriveSound(ide.drive[i], driver)
    BY <1>4, NoDriveIs DEF DriveSound
  <1>10. UnitSound(Unit, ide.selected, hd[ide.selected], driver)
    BY <1>4, NoDriveIs DEF UnitSound, Unit
  <1> QED
    BY <1>4, <1>5, <1>7, <1>8, <1>9, <1>10 DEF IdeInv, IdeTyped

LEMMA UnitIs ==
    ASSUME IdeTyped
    PROVE  /\ ide.selected \in Units /\ Unit = ide.drive[ide.selected]
           /\ \A i \in Units : ide.drive[i] \in IdeDrives
           /\ hd[ide.selected] \in Seq([1..IdeWords -> Word])
           /\ driver.last \in 0..LastTransfer
  BY DEF IdeTyped, Controllers, Unit, Drivers

(* Where the files stay as they are. *)
LEMMA FilesSame ==
    ASSUME IdeInv, hd' = hd, ide' \in Controllers, driver' \in Drivers,
           driver'.last >= driver.last,
           ~driver'.pulled => ~driver'.misled /\ ~ide'.aborted,
           \A i \in Units : DriveSound(ide'.drive[i], driver'),
           UnitSound(ide'.drive[ide'.selected], ide'.selected, hd[ide'.selected], driver')
    PROVE  IdeInv'
  <1>1. IdeTyped'
    BY DEF IdeInv, IdeTyped
  <1>2. driver.last \in Nat /\ driver'.last \in Nat
    BY IdeBounds DEF IdeInv, IdeTyped, Drivers
  <1>3. \A n \in 0..driver.last : n \in 0..driver'.last
    BY <1>2
  <1>4. \A i \in Units : FileWhole(i, hd'[i], driver'.last)
    BY <1>3 DEF IdeInv, FileWhole
  <1>5. \A i \in Units : DriveSound(ide.drive[i], driver)'
    BY DEF DriveSound
  <1>6. UnitSound(Unit, ide.selected, hd[ide.selected], driver)'
    BY DEF Unit, UnitSound, InTransfer, Reading, Storing, Identifying, GotSoFar, Moved,
           Sought, Filled
  <1> QED
    BY <1>1, <1>4, <1>5, <1>6 DEF IdeInv

(* And the program is told no more. *)
LEMMA FilesStay ==
    ASSUME IdeInv, hd' = hd, ide' \in Controllers, driver' \in Drivers,
           driver'.last >= driver.last, driver'.misled = driver.misled,
           ide'.aborted = ide.aborted, driver.pulled => driver'.pulled,
           \A i \in Units : DriveSound(ide'.drive[i], driver'),
           UnitSound(ide'.drive[ide'.selected], ide'.selected, hd[ide'.selected], driver')
    PROVE  IdeInv'
  <1>1. ~driver'.pulled => ~driver'.misled /\ ~ide'.aborted
    BY DEF IdeInv
  <1> QED
    BY <1>1, FilesSame

LEMMA SelectUnitInv == ASSUME IdeInv, NEW unit \in Units, SelectUnit(unit) PROVE IdeInv'
  <1>1. /\ driver \in Drivers /\ ide \in Controllers /\ driver' = Quit /\ hd' = hd
        /\ ide' = [ide EXCEPT !.selected = unit]
    BY DEF IdeInv, IdeTyped, SelectUnit
  <1>2. /\ driver' \in Drivers /\ driver'.cmd = "none" /\ driver'.last = driver.last
        /\ driver'.pulled = driver.pulled /\ driver'.misled = driver.misled
    BY <1>1, QuitIs
  <1>3. ide' \in Controllers /\ ide'.drive = ide.drive /\ ide'.aborted = ide.aborted
    BY <1>1 DEF Controllers
  <1>4. \A i \in Units : DriveSound(ide'.drive[i], driver')
    BY <1>2, <1>3 DEF IdeInv, DriveSound
  <1>5. UnitSound(ide'.drive[ide'.selected], ide'.selected, hd[ide'.selected], driver')
    BY <1>2 DEF UnitSound, InTransfer
  <1>6. driver'.last >= driver.last
    BY <1>1, <1>2 DEF Drivers
  <1> QED
    BY <1>1, <1>2, <1>3, <1>4, <1>5, <1>6, FilesStay


LEMMA NoneMoved == 0 % IdeWords = 0 /\ 0 \div IdeWords = 0
  <1>1. IdeWords \in Nat \ {0} /\ 0 \in Nat /\ 0 \in 0..(IdeWords - 1) /\ IdeWords * 0 + 0 = 0
    BY IdeBounds
  <1>2. /\ 0 \div IdeWords \in Nat /\ 0 % IdeWords \in 0..(IdeWords - 1)
        /\ 0 = IdeWords * (0 \div IdeWords) + (0 % IdeWords)
    BY <1>1, DivMod
  <1> QED
    BY <1>1, <1>2, DivUnique

(* The program begins a command with nothing moved. *)
LEMMA Begins ==
    ASSUME IdeInv, NEW cmd, NEW lsn \in 0..HdSectors, NEW count \in Counts, NEW valid,
           IssueCommand(cmd, lsn, count, valid)
    PROVE  /\ driver' \in Drivers /\ driver'.words = 0 /\ driver'.got = <<>>
           /\ driver'.last >= driver.last /\ driver'.pulled = driver.pulled
           /\ driver'.misled = driver.misled
           /\ \/ cmd \in {"READ", "WRITE"} /\ driver'.cmd = cmd /\ driver'.lsn = lsn
              \/ cmd = "IDENTIFY" /\ driver'.cmd = cmd
              \/ driver'.cmd = "none"
  <1>1. driver \in Drivers /\ driver.last \in Nat /\ LastTransfer \in Nat
    BY IdeAssumption DEF IdeInv, IdeTyped, Drivers
  <1>2. /\ Quit \in Drivers /\ Quit.cmd = "none" /\ Quit.last = driver.last
        /\ Quit.words = 0 /\ Quit.got = <<>>
        /\ Quit.pulled = driver.pulled /\ Quit.misled = driver.misled
    BY <1>1, QuitIs
  <1>3. CASE /\ cmd \in {"READ", "WRITE"} /\ driver.last < LastTransfer
             /\ driver' = [Quit EXCEPT !.last = @ + 1, !.cmd = cmd, !.lsn = lsn, !.count = count]
    <2>1. driver.last + 1 \in 0..LastTransfer /\ driver.last + 1 >= driver.last
      BY <1>1, <1>3
    <2>2. driver' = [Quit EXCEPT !.last = driver.last + 1, !.cmd = cmd, !.lsn = lsn,
                                 !.count = count]
      BY <1>2, <1>3
    <2>3. driver' \in Drivers
      BY <1>2, <1>3, <2>1, <2>2, ZenonT(30) DEF Drivers
    <2>4. /\ driver'.words = 0 /\ driver'.got = <<>> /\ driver'.last = driver.last + 1
          /\ driver'.pulled = driver.pulled /\ driver'.misled = driver.misled
          /\ driver'.cmd = cmd /\ driver'.lsn = lsn
      BY <1>2, <2>2 DEF Drivers
    <2> QED
      BY <1>3, <2>1, <2>3, <2>4
  <1>4. CASE cmd = "IDENTIFY" /\ driver' = [Quit EXCEPT !.cmd = cmd]
    <2>1. driver' \in Drivers
      BY <1>2, <1>4 DEF Drivers
    <2>2. /\ driver'.words = 0 /\ driver'.got = <<>> /\ driver'.last = driver.last
          /\ driver'.pulled = driver.pulled /\ driver'.misled = driver.misled
          /\ driver'.cmd = cmd
      BY <1>2, <1>4 DEF Drivers
    <2> QED
      BY <1>1, <1>4, <2>1, <2>2
  <1>5. CASE driver' = Quit
    BY <1>1, <1>2, <1>5
  <1> QED
    BY <1>3, <1>4, <1>5 DEF IssueCommand

LEMMA IssueCommandInv ==
    ASSUME IdeInv, NEW cmd, NEW lsn \in 0..HdSectors, NEW count \in Counts,
           NEW valid \in BOOLEAN, IssueCommand(cmd, lsn, count, valid)
    PROVE  IdeInv'
  <1> DEFINE u == ide.selected
             d == [Unit EXCEPT !.err = FALSE]
             done == Completed(d, u, cmd, lsn, count, valid)
             drives == [ide.drive EXCEPT ![u] = d]
             detected == [i \in Units |-> IF drives[i].present THEN IdeReady(drives[i])
                                          ELSE drives[i]]
  <1>1. /\ IdeTyped /\ ide \in Controllers /\ u \in Units /\ Unit = ide.drive[u] /\ Unit \in IdeDrives
        /\ ide.drive \in [Units -> IdeDrives] /\ hd' = hd
    <2>1. IdeTyped /\ hd' = hd
      BY DEF IdeInv, IssueCommand
    <2> QED
      BY <2>1, UnitIs DEF IdeTyped, Controllers
  <1>2. d \in IdeDrives /\ d.present = Unit.present /\ d.state = Unit.state
        /\ d.length = Unit.length /\ d.dptr = Unit.dptr
    <2>1. d \in IdeDrives
      BY <1>1, ZenonT(30) DEF IdeDrives
    <2> QED
      BY <1>1, <2>1 DEF IdeDrives
  <1>3. /\ driver' \in Drivers /\ driver'.words = 0 /\ driver'.got = <<>>
        /\ driver'.last >= driver.last /\ driver'.pulled = driver.pulled
        /\ driver'.misled = driver.misled
        /\ \/ cmd \in {"READ", "WRITE"} /\ driver'.cmd = cmd /\ driver'.lsn = lsn
           \/ cmd = "IDENTIFY" /\ driver'.cmd = cmd
           \/ driver'.cmd = "none"
    BY Begins
  <1>4. ide' = IF ~d.present THEN ide
               ELSE IF cmd # "EDD" THEN [ide EXCEPT !.drive[u] = done]
               ELSE [ide EXCEPT !.selected = 0, !.drive = detected]
    BY DEF IssueCommand
  <1>5. \A i \in Units : DriveSound(ide.drive[i], driver')
    BY <1>3 DEF IdeInv, DriveSound
  <1> HIDE DEF d, done, detected
  <1>6. CASE ~d.present
    <2>1. Unit.dptr \in Nat
      BY <1>1, IdeBounds DEF IdeDrives
    <2>2. UnitSound(Unit, u, hd[u], driver')
      BY <1>2, <1>3, <1>6, <2>1 DEF UnitSound
    <2> QED
      BY <1>1, <1>3, <1>4, <1>5, <1>6, <2>2, FilesStay DEF Unit
  <1>7. CASE d.present /\ cmd # "EDD"
    <2>1. /\ done \in IdeDrives /\ done.present = d.present
          /\ \/ done.state = "IDLE"
             \/ /\ cmd = "IDENTIFY" /\ done.state = "DATA_IN" /\ done.dptr = 0
                /\ done.length = 1 /\ done.data = Filled(u, 0, -1)
             \/ /\ cmd = "READ" /\ done.state = "DATA_IN" /\ done.dptr = IdeWords
                /\ done.length = count /\ done.pos = lsn /\ lsn < HdSectors
             \/ /\ cmd = "WRITE" /\ done.state = "DATA_OUT" /\ done.dptr = 0
                /\ done.length = count /\ done.pos = lsn /\ lsn < HdSectors
      BY <1>1, <1>2, CompletedIs DEF done
    <2>2. ide' = [ide EXCEPT !.drive[u] = done]
      BY <1>4, <1>7
    <2>3. /\ ide' \in Controllers /\ ide'.selected = u /\ ide'.aborted = ide.aborted
          /\ ide'.drive = [ide.drive EXCEPT ![u] = done]
      BY <1>1, <2>1, <2>2 DEF Controllers
    <2>4. DriveSound(done, driver')
      <3>1. count > 0
        BY DEF Counts
      <3> QED
        BY <1>7, <2>1, <3>1, IdeBounds DEF DriveSound
    <2>5. \A i \in Units : DriveSound(ide'.drive[i], driver')
      BY <1>1, <1>5, <2>3, <2>4
    <2>6. Moved(driver') = 0 /\ Sought(driver') = driver'.lsn + 0 /\ driver'.lsn \in 0..HdSectors
      BY <1>3, NoneMoved DEF Moved, Sought, Drivers
    <2>7. driver'.lsn + 0 = driver'.lsn
      BY <2>6, IdeBounds
    <2>8. \A w \in 1..0 : FALSE
      OBVIOUS
    <2>9. UnitSound(done, u, hd[u], driver')
      <3>1. CASE done.state = "IDLE"
        BY <3>1 DEF UnitSound
      <3>2. CASE cmd = "IDENTIFY" /\ done.state = "DATA_IN"
        <4>1. driver'.cmd \in {"IDENTIFY", "none"}
          BY <1>3, <3>2
        <4>2. Identifying(done, u, driver')
          BY <1>3, <2>1, <2>8, <3>2, IdeBounds DEF Identifying, GotSoFar
        <4> QED
          BY <3>2, <4>1, <4>2 DEF UnitSound, InTransfer
      <3>3. CASE cmd = "READ" /\ done.state = "DATA_IN"
        <4>1. driver'.cmd = "none" \/ (driver'.cmd = "READ" /\ driver'.lsn = lsn)
          BY <1>3, <3>3
        <4>2. driver'.cmd = "READ" => Reading(done, hd[u], driver')
          BY <2>1, <2>6, <2>7, <3>3, <4>1 DEF Reading
        <4> QED
          BY <3>3, <4>1, <4>2 DEF UnitSound, InTransfer
      <3>4. CASE cmd = "WRITE" /\ done.state = "DATA_OUT"
        <4>1. driver'.cmd = "none" \/ (driver'.cmd = "WRITE" /\ driver'.lsn = lsn)
          BY <1>3, <3>4
        <4>2. driver'.cmd = "WRITE" => Storing(done, u, driver')
          BY <2>1, <2>6, <2>7, <2>8, <3>4, <4>1 DEF Storing
        <4>3. driver'.cmd = "WRITE" => driver'.lsn < HdSectors
          BY <2>1, <3>4, <4>1
        <4> QED
          BY <4>1, <4>2, <4>3 DEF UnitSound, InTransfer
      <3> QED
        BY <2>1, <3>1, <3>2, <3>3, <3>4
    <2>10. ide'.drive[u] = done
      BY <1>1, <2>3
    <2> QED
      BY <1>1, <1>3, <2>3, <2>5, <2>9, <2>10, FilesStay
  <1>8. CASE d.present /\ cmd = "EDD"
    <2>1. \A i \in Units : drives[i] \in IdeDrives /\ DriveSound(drives[i], driver')
      <3>1. DriveSound(d, driver')
        BY <1>1, <1>2, <1>5 DEF DriveSound
      <3> QED
        BY <1>1, <1>2, <1>5, <3>1
    <2> HIDE DEF drives
    <2>2. /\ detected \in [Units -> IdeDrives]
          /\ \A i \in Units : DriveSound(detected[i], driver')
      <3>1. ASSUME NEW i \in Units
            PROVE  detected[i] \in IdeDrives /\ DriveSound(detected[i], driver')
        <4>1. detected[i] = IF drives[i].present THEN IdeReady(drives[i]) ELSE drives[i]
          BY DEF detected
        <4>2. IdeReady(drives[i]) \in IdeDrives /\ IdeReady(drives[i]).state = "IDLE"
          BY <2>1, IdeReadyIs
        <4> QED
          BY <2>1, <4>1, <4>2 DEF DriveSound
      <3>2. detected = [i \in Units |-> detected[i]]
        BY DEF detected
      <3> QED
        BY <3>1, <3>2
    <2>3. 0 \in Units
      BY DEF Units
    <2>4. ide' = [ide EXCEPT !.selected = 0, !.drive = detected]
      BY <1>4, <1>8
    <2>5. ide' \in Controllers /\ ide'.drive = detected /\ ide'.aborted = ide.aborted
      BY <1>1, <2>2, <2>3, <2>4 DEF Controllers
    <2>6. driver'.cmd = "none"
      BY <1>3, <1>8
    <2>7. UnitSound(ide'.drive[ide'.selected], ide'.selected, hd[ide'.selected], driver')
      BY <2>6 DEF UnitSound, InTransfer
    <2> QED
      BY <1>1, <1>3, <2>2, <2>5, <2>7, FilesStay
  <1> QED
    BY <1>6, <1>7, <1>8


LEMMA SetHdFilenameInv ==
    ASSUME IdeInv, NEW unit \in Units, NEW attached \in BOOLEAN,
           SetHdFilename(unit, attached)
    PROVE  IdeInv'
  <1> DEFINE old == ide.drive[unit]
             d == [old EXCEPT !.present = attached, !.pos = -1]
             new == ResetDrive(d)
             pulled == driver.pulled \/ (~attached /\ d.state # "IDLE")
  <1>1. /\ IdeTyped /\ ide \in Controllers /\ ide.drive \in [Units -> IdeDrives]
        /\ old \in IdeDrives /\ driver \in Drivers /\ hd' = hd
        /\ ide.selected \in Units /\ Unit = ide.drive[ide.selected]
    <2>1. IdeTyped /\ hd' = hd
      BY DEF IdeInv, SetHdFilename
    <2> QED
      BY <2>1, UnitIs DEF IdeTyped, Controllers
  <1>2. /\ d \in IdeDrives /\ d.present = attached /\ d.state = old.state
        /\ d.dptr = old.dptr /\ d.length = old.length
    <2>1. d \in IdeDrives
      BY <1>1, IdeBounds, ZenonT(30) DEF IdeDrives
    <2> QED
      BY <1>1, <2>1 DEF IdeDrives
  <1>3. ide' = [ide EXCEPT !.drive[unit] = new]
    BY DEF SetHdFilename
  <1>4. driver' = [driver EXCEPT !.pulled = pulled]
    BY <1>1 DEF SetHdFilename, Drivers
  <1> HIDE DEF d, new
  <1>5. /\ new \in IdeDrives /\ new.present = attached
        /\ IF attached THEN new.state = "IDLE" ELSE new = d
    BY <1>2, ResetDriveIs DEF new
  <1>6. /\ ide' \in Controllers /\ ide'.selected = ide.selected /\ ide'.aborted = ide.aborted
        /\ ide'.drive = [ide.drive EXCEPT ![unit] = new]
    BY <1>1, <1>3, <1>5 DEF Controllers
  <1>7. pulled \in BOOLEAN
    BY <1>1 DEF Drivers
  <1>8. /\ driver' \in Drivers /\ driver'.pulled = pulled /\ driver'.last = driver.last
        /\ driver'.misled = driver.misled /\ driver'.cmd = driver.cmd
        /\ driver'.lsn = driver.lsn /\ driver'.words = driver.words
        /\ driver'.got = driver.got
    BY <1>1, <1>4, <1>7 DEF Drivers
  <1>9. driver.pulled => driver'.pulled
    BY <1>8
  <1>10. \A i \in Units : DriveSound(ide'.drive[i], driver')
    <2>1. DriveSound(old, driver) /\ \A i \in Units : DriveSound(ide.drive[i], driver)
      BY DEF IdeInv
    <2>2. DriveSound(new, driver')
      BY <1>2, <1>5, <1>8, <2>1 DEF DriveSound
    <2>3. \A i \in Units : DriveSound(ide.drive[i], driver')
      BY <1>9, <2>1 DEF DriveSound
    <2> QED
      BY <1>1, <1>6, <2>2, <2>3
  <1>11. UnitSound(ide'.drive[ide'.selected], ide'.selected, hd[ide'.selected], driver')
    <2>1. UnitSound(Unit, ide.selected, hd[ide.selected], driver)
      BY DEF IdeInv
    <2>2. CASE ide.selected = unit
      <3>1. ide'.drive[ide'.selected] = new /\ Unit = old
        BY <1>1, <1>6, <2>2
      <3> QED
        BY <1>2, <1>5, <1>8, <2>1, <3>1 DEF UnitSound
    <2>3. CASE ide.selected # unit
      <3>1. ide'.drive[ide'.selected] = Unit /\ ide'.selected = ide.selected
        BY <1>1, <1>6, <2>3
      <3> QED
        BY <1>8, <2>1, <3>1
           DEF UnitSound, InTransfer, Reading, Storing, Identifying, GotSoFar, Moved, Sought
    <2> QED
      BY <2>2, <2>3
  <1>12. driver'.last >= driver.last
    BY <1>1, <1>8 DEF Drivers
  <1> QED
    BY <1>1, <1>6, <1>8, <1>9, <1>10, <1>11, <1>12, FilesStay

LEMMA ResetIdeInv == ASSUME IdeInv, ResetIde PROVE IdeInv'
  <1> DEFINE drives == [i \in Units |-> ResetDrive(ide.drive[i])]
  <1>1. /\ ide \in Controllers /\ driver \in Drivers /\ driver' = Quit /\ hd' = hd
        /\ ide' = [ide EXCEPT !.selected = 0, !.drive = drives]
        /\ ide.drive \in [Units -> IdeDrives]
    BY DEF IdeInv, IdeTyped, Controllers, ResetIde
  <1>2. /\ driver' \in Drivers /\ driver'.cmd = "none" /\ driver'.last = driver.last
        /\ driver'.pulled = driver.pulled /\ driver'.misled = driver.misled
    BY <1>1, QuitIs
  <1>3. ASSUME NEW i \in Units
        PROVE  drives[i] \in IdeDrives /\ DriveSound(drives[i], driver')
    <2>1. /\ ResetDrive(ide.drive[i]) \in IdeDrives
          /\ \/ ResetDrive(ide.drive[i]).state = "IDLE"
             \/ ResetDrive(ide.drive[i]) = ide.drive[i]
      BY <1>1, ResetDriveIs
    <2>2. DriveSound(ide.drive[i], driver')
      BY <1>2 DEF IdeInv, DriveSound
    <2> QED
      BY <2>1, <2>2 DEF DriveSound
  <1>4. drives = [i \in Units |-> drives[i]] /\ 0 \in Units
    BY DEF Units
  <1> HIDE DEF drives
  <1>5. drives \in [Units -> IdeDrives]
    BY <1>3, <1>4
  <1>6. ide' \in Controllers /\ ide'.drive = drives /\ ide'.aborted = ide.aborted
    BY <1>1, <1>4, <1>5 DEF Controllers
  <1>7. UnitSound(ide'.drive[ide'.selected], ide'.selected, hd[ide'.selected], driver')
    BY <1>2 DEF UnitSound, InTransfer
  <1>8. driver'.last >= driver.last
    BY <1>1, <1>2 DEF Drivers
  <1> QED
    BY <1>1, <1>2, <1>3, <1>6, <1>7, <1>8, FilesStay


(* The last word of a sector is that before a multiple of a sector's words, and a command
   is about no more than two. *)
LEMMA MovedOn ==
    ASSUME NEW p \in Drivers, NEW q, q.words = p.words + 1, q.lsn = p.lsn
    PROVE  /\ Moved(p) \in 0..(IdeWords - 1) /\ Sought(p) \in Nat /\ p.lsn <= Sought(p)
           /\ Moved(p) + 1 = IdeWords => Moved(q) = 0 /\ Sought(q) = Sought(p) + 1
           /\ Moved(p) + 1 # IdeWords => Moved(q) = Moved(p) + 1 /\ Sought(q) = Sought(p)
           /\ p.words < 2 * IdeWords => Sought(p) <= p.lsn + 1
           /\ p.words < IdeWords => Sought(p) = p.lsn /\ Moved(p) = p.words
  <1>1. p.words \in Nat /\ p.lsn \in Nat /\ IdeWords \in Nat \ {0}
    BY IdeBounds DEF Drivers
  <1> DEFINE n == p.words \div IdeWords
             m == p.words % IdeWords
  <1>2. n \in Nat /\ m \in 0..(IdeWords - 1) /\ p.words = IdeWords * n + m
    BY <1>1, DivMod
  <1>3. /\ m = IdeWords - 1 => q.words % IdeWords = 0 /\ q.words \div IdeWords = n + 1
        /\ m # IdeWords - 1 => q.words % IdeWords = m + 1 /\ q.words \div IdeWords = n
    BY <1>1, OneMore
  <1>4. ASSUME p.words < 2 * IdeWords PROVE n <= 1
    <2> HIDE DEF n, m
    <2>1. ASSUME n >= 2 PROVE IdeWords * n >= 2 * IdeWords
      <3>1. n - 2 \in Nat /\ n = 2 + (n - 2)
        BY <1>2, <2>1
      <3> DEFINE k == n - 2
      <3>2. k \in Nat /\ IdeWords * k >= 0 /\ n = 2 + k
        BY <1>1, <3>1
      <3> HIDE DEF k
      <3>3. IdeWords * (2 + k) = 2 * IdeWords + IdeWords * k
        BY <1>1, <3>2
      <3> QED
        BY <1>1, <3>2, <3>3
    <2> QED
      BY <1>1, <1>2, <1>4, <2>1
  <1>5. ASSUME p.words < IdeWords PROVE n = 0 /\ m = p.words
    <2> HIDE DEF n, m
    <2>1. /\ p.words \in 0..(IdeWords - 1) /\ 0 \in Nat
          /\ IdeWords * 0 + p.words = IdeWords * n + m
      BY <1>1, <1>2, <1>5
    <2> QED
      BY <1>1, <1>2, <2>1, DivUnique
  <1>6. Moved(p) = m /\ Sought(p) = p.lsn + n
    BY DEF Moved, Sought
  <1>7. Moved(q) = q.words % IdeWords /\ Sought(q) = p.lsn + (q.words \div IdeWords)
    BY DEF Moved, Sought
  <1> HIDE DEF n, m
  <1> QED
    BY <1>1, <1>2, <1>3, <1>4, <1>5, <1>6, <1>7

(* What the program is told at the end of a sector is so. *)
Right(p) ==
    LET at == Sought(p)
    IN  /\ p.cmd = "READ" => at <= Len(hd'[ide.selected]) /\ p.got = hd'[ide.selected][at]
        /\ p.cmd = "WRITE" => /\ at <= Len(hd'[ide.selected])
                              /\ hd'[ide.selected][at] = Filled(ide.selected, p.last, at - 1)
        /\ p.cmd \notin {"READ", "WRITE"} => p.got = Filled(ide.selected, 0, -1)

LEMMA JudgedIs ==
    ASSUME NEW p \in Drivers, driver' = Judged(p)
    PROVE  /\ driver' \in Drivers /\ driver'.cmd = p.cmd /\ driver'.last = p.last
           /\ driver'.lsn = p.lsn /\ driver'.words = p.words /\ driver'.got = p.got
           /\ driver'.pulled = p.pulled /\ driver'.count = p.count
           /\ Moved(p) # 0 \/ ide'.drive[ide.selected].err \/ Right(p)
              => driver'.misled = p.misled
  <1> DEFINE u == ide.selected
             at == p.lsn + p.words \div IdeWords
             there == at <= Len(hd'[u])
             wrong == CASE p.cmd = "READ" -> ~there \/ p.got # hd'[u][at]
                        [] p.cmd = "WRITE" -> ~there \/ hd'[u][at] # Filled(u, p.last, at - 1)
                        [] OTHER -> p.got # Filled(u, 0, -1)
             told == p.misled \/ wrong
             q == [p EXCEPT !.misled = told]
  <1>1. driver' = IF p.words % IdeWords # 0 \/ ide'.drive[u].err THEN p ELSE q
    BY DEF Judged
  <1>2. p.misled \in BOOLEAN
    BY DEF Drivers
  <1>3. told \in BOOLEAN
    OBVIOUS
  <1>4. Right(p) => ~wrong
    BY DEF Right, Sought
  <1>5. Right(p) => told = p.misled
    BY <1>2, <1>4
  <1> HIDE DEF told
  <1>6. /\ q \in Drivers /\ q.cmd = p.cmd /\ q.last = p.last /\ q.lsn = p.lsn
        /\ q.words = p.words /\ q.got = p.got /\ q.pulled = p.pulled /\ q.count = p.count
    BY <1>3 DEF Drivers
  <1>7. q.misled = told
    BY DEF Drivers
  <1> HIDE DEF q
  <1> QED
    BY <1>1, <1>5, <1>6, <1>7 DEF Moved


LEMMA WantsFew ==
    ASSUME driver \in Drivers, NEW cmds, Wants(cmds)
    PROVE  /\ driver.cmd \in cmds /\ driver.words < 2 * IdeWords
           /\ driver.words + 1 \in 0..(2 * IdeWords)
           /\ driver.cmd = "IDENTIFY" => driver.words < IdeWords
  <1>1. driver.words \in Nat /\ IdeWords \in Nat /\ driver.count \in {1, 2}
    BY IdeBounds DEF Drivers, Counts
  <1>2. CASE driver.cmd = "IDENTIFY"
    BY <1>1, <1>2 DEF Wants
  <1>3. CASE driver.cmd # "IDENTIFY" /\ driver.count = 1
    BY <1>1, <1>3 DEF Wants
  <1>4. CASE driver.cmd # "IDENTIFY" /\ driver.count = 2
    <2>1. driver.words < IdeWords * 2
      BY <1>4 DEF Wants
    <2> QED
      BY <1>1, <1>4, <2>1 DEF Wants
  <1> QED
    BY <1>1, <1>2, <1>3, <1>4

(* What the program has of a sector, before another word. *)
Gathered == IF Moved(driver) = 0 THEN <<>> ELSE driver.got

LEMMA WordInIs ==
    ASSUME driver \in Drivers, NEW cmds, Wants(cmds), NEW word \in Word, WordIn(word)
    PROVE  \E p \in Drivers :
             /\ driver' = Judged(p) /\ p.words = driver.words + 1
             /\ p.got = Append(Gathered, word)
             /\ p.cmd = driver.cmd /\ p.lsn = driver.lsn /\ p.last = driver.last
             /\ p.pulled = driver.pulled /\ p.misled = driver.misled
  <1> DEFINE got == IF Moved(driver) = 0 THEN <<word>> ELSE Append(driver.got, word)
             p == [driver EXCEPT !.words = driver.words + 1, !.got = got]
  <1>1. driver.got \in Seq(Word) /\ <<>> \in Seq(Word)
    BY DEF Drivers
  <1>2. got \in Seq(Word) /\ got = Append(Gathered, word)
    <2>1. Append(<<>>, word) = <<word>> /\ <<word>> \in Seq(Word)
      OBVIOUS
    <2>2. Append(driver.got, word) \in Seq(Word)
      BY <1>1
    <2> QED
      BY <2>1, <2>2 DEF Gathered
  <1>3. driver' = Judged(p)
    BY DEF WordIn, Moved, Drivers
  <1> HIDE DEF got
  <1>4. driver.words + 1 \in 0..(2 * IdeWords)
    BY WantsFew
  <1>5. p \in Drivers
    BY <1>2, <1>4, ZenonT(30) DEF Drivers
  <1>6. /\ p.words = driver.words + 1 /\ p.got = got
        /\ p.cmd = driver.cmd /\ p.lsn = driver.lsn /\ p.last = driver.last
        /\ p.pulled = driver.pulled /\ p.misled = driver.misled
    BY DEF Drivers
  <1> HIDE DEF p
  <1> QED
    BY <1>2, <1>3, <1>5, <1>6

LEMMA WordOutIs ==
    ASSUME driver \in Drivers, NEW cmds, Wants(cmds), WordOut
    PROVE  \E p \in Drivers :
             /\ driver' = Judged(p) /\ p.words = driver.words + 1
             /\ p.cmd = driver.cmd /\ p.lsn = driver.lsn /\ p.last = driver.last
             /\ p.pulled = driver.pulled /\ p.misled = driver.misled
  <1> DEFINE p == [driver EXCEPT !.words = driver.words + 1]
  <1>1. driver' = Judged(p)
    BY DEF WordOut, Drivers
  <1>2. driver.words + 1 \in 0..(2 * IdeWords)
    BY WantsFew
  <1>3. p \in Drivers
    BY <1>2, ZenonT(30) DEF Drivers
  <1>4. /\ p.words = driver.words + 1
        /\ p.cmd = driver.cmd /\ p.lsn = driver.lsn /\ p.last = driver.last
        /\ p.pulled = driver.pulled /\ p.misled = driver.misled
    BY DEF Drivers
  <1> HIDE DEF p
  <1> QED
    BY <1>1, <1>3, <1>4

(* A step of one drive, and what it leaves of the controller. *)
LEMMA DriveStep ==
    ASSUME IdeInv, NEW d \in IdeDrives, NEW u, u = ide.selected,
           ide' = [ide EXCEPT !.drive[u] = d],
           driver.pulled => driver'.pulled, DriveSound(d, driver')
    PROVE  /\ ide' \in Controllers /\ ide'.selected = u /\ ide'.aborted = ide.aborted
           /\ ide'.drive[u] = d /\ \A i \in Units : DriveSound(ide'.drive[i], driver')
  <1>1. ide \in Controllers /\ ide.drive \in [Units -> IdeDrives] /\ u \in Units
    BY DEF IdeInv, IdeTyped, Controllers
  <1>2. ide' \in Controllers /\ ide'.selected = u /\ ide'.aborted = ide.aborted
        /\ ide'.drive = [ide.drive EXCEPT ![u] = d]
    BY <1>1 DEF Controllers
  <1>3. \A i \in Units : DriveSound(ide.drive[i], driver')
    BY DEF IdeInv, DriveSound
  <1> QED
    BY <1>1, <1>2, <1>3

(* Only a drive that was pulled in a transfer is held up for good. *)
LEMMA AbortedInv ==
    ASSUME IdeInv, ide' = [ide EXCEPT !.aborted = TRUE], UNCHANGED <<hd, driver>>,
           Unit.state # "IDLE", ~Unit.present
    PROVE  IdeInv'
  <1>1. /\ ide \in Controllers /\ driver \in Drivers /\ ide.selected \in Units
        /\ Unit = ide.drive[ide.selected]
    BY DEF IdeInv, IdeTyped, Controllers, Unit
  <1>2. driver.pulled
    BY <1>1 DEF IdeInv, DriveSound
  <1>3. ide' \in Controllers /\ ide'.drive = ide.drive /\ ide'.selected = ide.selected
    BY <1>1 DEF Controllers
  <1>4. driver'.last >= driver.last
    BY <1>1 DEF Drivers
  <1>5. UnitSound(ide'.drive[ide'.selected], ide'.selected, hd[ide'.selected], driver')
    BY <1>1, <1>3 DEF IdeInv
  <1>6. \A i \in Units : DriveSound(ide'.drive[i], driver')
    BY <1>3 DEF IdeInv
  <1> QED
    BY <1>1, <1>2, <1>3, <1>4, <1>5, <1>6, FilesSame


(* The buffer that a word is read from: the drive's, or the next sector in it. *)
Filling(d, f) ==
    IF d.dptr # IdeWords THEN d
    ELSE [d EXCEPT !.dptr = 0, !.data = f[d.pos + 1], !.pos = @ + 1]

LEMMA FillingIs ==
    ASSUME IdeInv, NEW cmds, Wants(cmds), driver.cmd \in {"READ", "IDENTIFY"},
           Unit.state = "DATA_IN", NEW e, e = Filling(Unit, hd[ide.selected]),
           Unit.dptr = IdeWords => Unit.present /\ Unit.pos \in 0..(Len(hd[ide.selected]) - 1)
    PROVE  /\ e \in IdeDrives /\ e.state = "DATA_IN" /\ e.dptr < IdeWords
           /\ e.present = Unit.present /\ e.length = Unit.length
           /\ Unit.present =>
                /\ e.dptr = Moved(driver) /\ GotSoFar(e, [got |-> Gathered], Moved(driver))
                /\ driver.cmd = "READ" => /\ driver.lsn < HdSectors /\ e.pos = Sought(driver) + 1
                                          /\ e.pos <= Len(hd[ide.selected])
                                          /\ e.data = hd[ide.selected][e.pos]
                /\ driver.cmd = "IDENTIFY" =>
                     /\ e.length = 1 /\ e.data = Filled(ide.selected, 0, -1)
                     /\ driver.words < IdeWords /\ e.dptr = driver.words
  <1> DEFINE u == ide.selected
             d == Unit
             f == hd[u]
  <1>1. /\ d \in IdeDrives /\ driver \in Drivers /\ u \in Units
        /\ f \in Seq([1..IdeWords -> Word])
    BY UnitIs DEF IdeInv, IdeTyped
  <1>2. d.dptr \in 0..IdeWords /\ d.pos \in -1..(HdSectors + 2) /\ IdeWords \in Nat /\ IdeWords > 0
    BY <1>1, IdeBounds DEF IdeDrives
  <1>3. /\ driver.words < 2 * IdeWords
        /\ driver.cmd = "IDENTIFY" => driver.words < IdeWords
    BY <1>1, WantsFew
  <1> DEFINE q == [words |-> driver.words + 1, lsn |-> driver.lsn]
  <1>4. /\ Moved(driver) \in 0..(IdeWords - 1) /\ Sought(driver) \in Nat
        /\ Sought(driver) <= driver.lsn + 1
        /\ driver.words < IdeWords => Moved(driver) = driver.words
    <2>1. q.words = driver.words + 1 /\ q.lsn = driver.lsn
      OBVIOUS
    <2> QED
      BY <1>1, <1>3, <2>1, MovedOn
  <1> HIDE DEF q
  <1>5. d.present => InTransfer(d, u, f, driver)
    BY DEF IdeInv, UnitSound
  <1>6. CASE d.dptr # IdeWords
    <2>1. e = d
      BY <1>6 DEF Filling
    <2>2. d.dptr < IdeWords
      BY <1>2, <1>6
    <2>3. ASSUME d.present, driver.cmd = "READ"
          PROVE  /\ d.dptr = Moved(driver) /\ GotSoFar(d, [got |-> Gathered], Moved(driver))
                 /\ driver.lsn < HdSectors /\ d.pos = Sought(driver) + 1 /\ d.pos <= Len(f)
                 /\ d.data = f[d.pos]
      <3>1. Reading(d, f, driver)
        BY <1>5, <2>3 DEF InTransfer
      <3>2. Moved(driver) # 0
        BY <1>6, <3>1 DEF Reading
      <3> QED
        BY <3>1, <3>2 DEF Reading, Gathered, GotSoFar
    <2>4. ASSUME d.present, driver.cmd = "IDENTIFY"
          PROVE  /\ d.dptr = Moved(driver) /\ GotSoFar(d, [got |-> Gathered], Moved(driver))
                 /\ d.length = 1 /\ d.data = Filled(u, 0, -1)
                 /\ driver.words < IdeWords /\ d.dptr = driver.words
      <3>1. Identifying(d, u, driver) /\ Moved(driver) = driver.words
        BY <1>3, <1>4, <1>5, <2>4 DEF InTransfer
      <3>2. CASE Moved(driver) = 0
        <4>1. \A w \in 1..0 : FALSE
          OBVIOUS
        <4> QED
          BY <3>1, <3>2, <4>1 DEF Identifying, Gathered, GotSoFar
      <3>3. CASE Moved(driver) # 0
        BY <3>1, <3>3 DEF Identifying, Gathered, GotSoFar
      <3> QED
        BY <3>2, <3>3
    <2> QED
      BY <1>1, <2>1, <2>2, <2>3, <2>4
  <1>7. CASE d.dptr = IdeWords
    <2>1. e = [d EXCEPT !.dptr = 0, !.data = f[d.pos + 1], !.pos = d.pos + 1]
      BY <1>1, <1>7 DEF Filling, IdeDrives
    <2>2. d.present /\ InTransfer(d, u, f, driver) /\ d.pos + 1 \in 1..Len(f)
      BY <1>1, <1>2, <1>5, <1>7
    <2>3. driver.cmd = "READ" /\ Reading(d, f, driver)
      <3>1. driver.cmd # "IDENTIFY"
        BY <1>2, <1>7, <2>2 DEF InTransfer, Identifying
      <3> QED
        BY <2>2, <3>1 DEF InTransfer
    <2>4. Moved(driver) = 0 /\ d.pos = Sought(driver) /\ driver.lsn < HdSectors
      BY <1>2, <1>4, <1>7, <2>3 DEF Reading
    <2>5. d.pos + 1 \in -1..(HdSectors + 2) /\ f[d.pos + 1] \in [1..IdeWords -> Word]
      <3>1. driver.lsn \in 0..HdSectors
        BY <1>1 DEF Drivers
      <3> QED
        BY <1>1, <1>4, <2>2, <2>4, <3>1, IdeBounds
    <2>6. e \in IdeDrives
      BY <1>1, <2>1, <2>5, IdeBounds, ZenonT(30) DEF IdeDrives
    <2>7. /\ e.state = "DATA_IN" /\ e.dptr = 0 /\ e.present = d.present /\ e.length = d.length
          /\ e.pos = d.pos + 1 /\ e.data = f[d.pos + 1]
      BY <1>1, <2>1 DEF IdeDrives
    <2>8. GotSoFar(e, [got |-> Gathered], 0)
      <3>1. Gathered = <<>> /\ Len(<<>>) = 0 /\ \A w \in 1..0 : FALSE
        BY <2>4 DEF Gathered
      <3> QED
        BY <3>1 DEF GotSoFar
    <2> QED
      BY <1>2, <2>2, <2>3, <2>4, <2>6, <2>7, <2>8
  <1> QED
    BY <1>6, <1>7

(* Two sectors' words are the same when all of them are. *)
LEMMA SameWords ==
    ASSUME NEW s \in Seq(Word), NEW f \in [1..IdeWords -> Word], Len(s) = IdeWords,
           \A w \in 1..IdeWords : s[w] = f[w]
    PROVE  s = f
  <1>1. s = [w \in 1..IdeWords |-> s[w]]
    OBVIOUS
  <1>2. f = [w \in 1..IdeWords |-> f[w]]
    OBVIOUS
  <1> QED
    BY <1>1, <1>2


LEMMA GatheredIs == ASSUME driver \in Drivers PROVE Gathered \in Seq(Word)
  <1>1. driver.got \in Seq(Word)
    BY DEF Drivers
  <1>2. <<>> \in Seq(Word)
    OBVIOUS
  <1> QED
    BY <1>1, <1>2 DEF Gathered

(* The drive with the buffer filled, one word of it read, and the last of them. *)
Loaded == Filling(Unit, hd[ide.selected])

Counted == [Loaded EXCEPT !.dptr = @ + 1]

Ended == [Counted EXCEPT !.length = @ - 1]

(* A word that comes from the buffer, and the sector with its last. *)
LEMMA WordComes ==
    ASSUME IdeInv, Wants({"READ", "IDENTIFY"}), Unit.state = "DATA_IN", hd' = hd,
           Unit.dptr = IdeWords => Unit.present /\ Unit.pos \in 0..(Len(hd[ide.selected]) - 1),
           ide' = [ide EXCEPT !.drive[ide.selected] =
                      IF Counted.dptr < IdeWords THEN Counted
                      ELSE IF Ended.length = 0 THEN IdeReady(Ended) ELSE Ended],
           WordIn(Loaded.data[Counted.dptr])
    PROVE  IdeInv'
  <1> DEFINE e == Loaded
             f == Counted
             g == Ended
  <1>0. /\ e = Filling(Unit, hd[ide.selected]) /\ f = [e EXCEPT !.dptr = @ + 1]
        /\ g = [f EXCEPT !.length = @ - 1] /\ WordIn(e.data[f.dptr])
        /\ ide' = [ide EXCEPT !.drive[ide.selected] =
                      IF f.dptr < IdeWords THEN f ELSE IF g.length = 0 THEN IdeReady(g) ELSE g]
    BY DEF Loaded, Counted, Ended
  <1> HIDE DEF e, f, g
  <1> DEFINE u == ide.selected
             file == hd[u]
             new == IF f.dptr < IdeWords THEN f ELSE IF g.length = 0 THEN IdeReady(g) ELSE g
             word == e.data[f.dptr]
  <1>1. /\ Unit \in IdeDrives /\ driver \in Drivers /\ u \in Units /\ Unit = ide.drive[u]
        /\ file \in Seq([1..IdeWords -> Word]) /\ DriveSound(Unit, driver)
        /\ driver.last \in Nat
    BY UnitIs, IdeBounds DEF IdeInv, IdeTyped
  <1>2. driver.cmd \in {"READ", "IDENTIFY"} /\ driver.words < 2 * IdeWords
        /\ (driver.cmd = "IDENTIFY" => driver.words < IdeWords)
    BY <1>1, WantsFew
  <1>3. /\ e \in IdeDrives /\ e.state = "DATA_IN" /\ e.dptr < IdeWords
        /\ e.present = Unit.present /\ e.length = Unit.length
        /\ Unit.present =>
             /\ e.dptr = Moved(driver) /\ GotSoFar(e, [got |-> Gathered], Moved(driver))
             /\ driver.cmd = "READ" => /\ driver.lsn < HdSectors /\ e.pos = Sought(driver) + 1
                                       /\ e.pos <= Len(file) /\ e.data = file[e.pos]
             /\ driver.cmd = "IDENTIFY" =>
                  /\ e.length = 1 /\ e.data = Filled(u, 0, -1)
                  /\ driver.words < IdeWords /\ e.dptr = driver.words
    BY <1>0, <1>2, FillingIs
  <1>4. /\ e.dptr \in Nat /\ IdeWords \in Nat /\ e.length \in 0..2 /\ e.length > 0
        /\ e.data \in [1..IdeWords -> Word]
    <2>1. e.dptr \in 0..IdeWords /\ e.length \in 0..2 /\ e.data \in [1..IdeWords -> Word]
      BY <1>3 DEF IdeDrives
    <2>2. Unit.length > 0
      <3>1. Unit.state # "IDLE"
        OBVIOUS
      <3> QED
        BY <1>1, <3>1 DEF DriveSound
    <2> QED
      BY <1>3, <2>1, <2>2, IdeBounds
  <1>5. e.dptr + 1 \in 0..IdeWords /\ e.dptr + 1 \in 1..IdeWords /\ e.length - 1 \in 0..2
    BY <1>3, <1>4
  <1>6. /\ f \in IdeDrives /\ f.dptr = e.dptr + 1 /\ f.data = e.data /\ f.pos = e.pos
        /\ f.length = e.length /\ f.state = "DATA_IN" /\ f.present = Unit.present
    <2>1. f = [e EXCEPT !.dptr = e.dptr + 1]
      BY <1>0, <1>3 DEF IdeDrives
    <2> QED
      BY <1>3, <1>5, <2>1 DEF IdeDrives
  <1>7. /\ g \in IdeDrives /\ g.dptr = e.dptr + 1 /\ g.data = e.data /\ g.pos = e.pos
        /\ g.length = e.length - 1 /\ g.state = "DATA_IN" /\ g.present = Unit.present
    <2>1. g = [f EXCEPT !.length = e.length - 1]
      BY <1>0, <1>6 DEF IdeDrives
    <2> QED
      BY <1>5, <1>6, <2>1 DEF IdeDrives
  <1>8. /\ new \in IdeDrives /\ new.present = Unit.present
        /\ \/ new = f /\ e.dptr + 1 < IdeWords
           \/ new.state = "IDLE" /\ e.dptr + 1 = IdeWords
           \/ new = g /\ e.dptr + 1 = IdeWords /\ e.length - 1 > 0
    <2>1. /\ IdeReady(g) \in IdeDrives /\ IdeReady(g).state = "IDLE"
          /\ IdeReady(g).present = g.present
      BY <1>7, IdeReadyIs
    <2>2. e.length - 1 = 0 \/ e.length - 1 > 0
      BY <1>4
    <2>3. e.dptr + 1 < IdeWords \/ e.dptr + 1 = IdeWords
      BY <1>5, <1>4
    <2> QED
      BY <1>4, <1>6, <1>7, <2>1, <2>2, <2>3
  <1> HIDE DEF new
  <1>9. word \in Word /\ word = e.data[e.dptr + 1]
    BY <1>4, <1>5, <1>6
  <1>10. PICK p \in Drivers :
             /\ driver' = Judged(p) /\ p.words = driver.words + 1
             /\ p.got = Append(Gathered, word)
             /\ p.cmd = driver.cmd /\ p.lsn = driver.lsn /\ p.last = driver.last
             /\ p.pulled = driver.pulled /\ p.misled = driver.misled
    BY <1>0, <1>1, <1>9, WordInIs
  <1>11. /\ driver' \in Drivers /\ driver'.cmd = p.cmd /\ driver'.last = p.last
         /\ driver'.lsn = p.lsn /\ driver'.words = p.words /\ driver'.got = p.got
         /\ driver'.pulled = p.pulled
         /\ Moved(p) # 0 \/ Right(p) => driver'.misled = p.misled
    BY <1>10, JudgedIs
  <1>12. /\ Moved(driver) \in 0..(IdeWords - 1) /\ Sought(driver) \in Nat
         /\ Moved(driver) + 1 = IdeWords => Moved(p) = 0 /\ Sought(p) = Sought(driver) + 1
         /\ Moved(driver) + 1 # IdeWords =>
               Moved(p) = Moved(driver) + 1 /\ Sought(p) = Sought(driver)
    BY <1>1, <1>10, MovedOn
  <1>13. DriveSound(new, driver')
    <2>1. Unit.present \/ driver'.pulled
      BY <1>1, <1>10, <1>11 DEF DriveSound
    <2> QED
      BY <1>4, <1>6, <1>7, <1>8, <2>1 DEF DriveSound
  <1>14. /\ ide' \in Controllers /\ ide'.selected = u /\ ide'.aborted = ide.aborted
         /\ ide'.drive[u] = new /\ \A i \in Units : DriveSound(ide'.drive[i], driver')
    <2>1. ide' = [ide EXCEPT !.drive[u] = new]
      BY <1>0 DEF new
    <2>2. driver.pulled => driver'.pulled
      BY <1>10, <1>11
    <2> QED
      BY <1>8, <1>13, <2>1, <2>2, DriveStep
  <1>15. ASSUME Unit.present
         PROVE  /\ GotSoFar(e, p, Moved(driver) + 1)
                /\ Moved(driver) + 1 = IdeWords => p.got = e.data
    <2>1. Len(Gathered) = Moved(driver) /\ \A w \in 1..Moved(driver) : Gathered[w] = e.data[w]
      BY <1>3, <1>15 DEF GotSoFar
    <2>2. Gathered \in Seq(Word)
      BY <1>1, GatheredIs
    <2> HIDE DEF word
    <2>3. /\ p.got \in Seq(Word) /\ Len(p.got) = Moved(driver) + 1
          /\ \A w \in 1..Moved(driver) : p.got[w] = Gathered[w]
          /\ p.got[Moved(driver) + 1] = word
      <3>1. p.got = Append(Gathered, word) /\ word \in Word
        BY <1>9, <1>10
      <3> QED
        BY <2>1, <2>2, <3>1
    <2>4. \A w \in 1..(Moved(driver) + 1) : p.got[w] = e.data[w]
      BY <1>3, <1>9, <1>12, <1>15, <2>1, <2>3
    <2>5. GotSoFar(e, p, Moved(driver) + 1)
      BY <2>3, <2>4 DEF GotSoFar
    <2>6. ASSUME Moved(driver) + 1 = IdeWords PROVE p.got = e.data
      BY <1>4, <2>3, <2>4, <2>6, SameWords
    <2> QED
      BY <2>5, <2>6
  <1>16. ASSUME Unit.present PROVE driver'.misled = driver.misled
    <2>1. CASE Moved(driver) + 1 # IdeWords
      BY <1>10, <1>11, <1>12, <2>1
    <2>2. CASE Moved(driver) + 1 = IdeWords
      <3>1. Right(p)
        BY <1>2, <1>3, <1>10, <1>12, <1>15, <1>16, <2>2 DEF Right
      <3> QED
        BY <1>10, <1>11, <3>1
    <2> QED
      BY <2>1, <2>2
  <1>17. ~driver'.pulled => ~driver'.misled /\ ~ide'.aborted
    BY <1>1, <1>10, <1>11, <1>14, <1>16 DEF IdeInv, DriveSound
  <1>18. UnitSound(new, u, file, driver')
    <2>1. ~(new.state = "DATA_OUT")
      BY <1>6, <1>7, <1>8
    <2>2. ASSUME new.present, new.state # "IDLE", driver.cmd = "READ"
          PROVE  Reading(new, file, driver')
      <3>1. CASE new = f /\ e.dptr + 1 < IdeWords
        <4>1. Moved(driver) + 1 < IdeWords
          BY <1>3, <1>8, <2>2, <3>1
        <4>2. Moved(p) = Moved(driver) + 1 /\ Sought(p) = Sought(driver) /\ Moved(p) # 0
          BY <1>12, <4>1, IdeBounds
        <4>3. Moved(driver') = Moved(p) /\ Sought(driver') = Sought(p)
          BY <1>11 DEF Moved, Sought
        <4>4. GotSoFar(f, driver', Moved(p))
          BY <1>6, <1>8, <1>11, <1>15, <2>2, <4>2 DEF GotSoFar
        <4> QED
          BY <1>3, <1>6, <1>8, <1>10, <1>11, <2>2, <3>1, <4>2, <4>3, <4>4 DEF Reading
      <3>2. CASE new = g /\ e.dptr + 1 = IdeWords
        <4>1. Moved(p) = 0 /\ Sought(p) = Sought(driver) + 1
          BY <1>3, <1>8, <1>12, <2>2, <3>2
        <4>2. Moved(driver') = Moved(p) /\ Sought(driver') = Sought(p)
          BY <1>11 DEF Moved, Sought
        <4> QED
          BY <1>3, <1>7, <1>8, <1>10, <1>11, <2>2, <3>2, <4>1, <4>2 DEF Reading
      <3> QED
        BY <1>8, <2>2, <3>1, <3>2
    <2>3. ASSUME new.present, new.state # "IDLE", driver.cmd = "IDENTIFY"
          PROVE  Identifying(new, u, driver')
      <3>1. new = f /\ e.dptr + 1 < IdeWords
        BY <1>3, <1>8, <2>3
      <3>2. Moved(driver) = driver.words /\ driver.words < IdeWords
        BY <1>3, <1>8, <2>3
      <3>3. GotSoFar(f, driver', driver'.words)
        <4>1. GotSoFar(e, p, Moved(driver) + 1) /\ Moved(driver) + 1 = driver'.words
          BY <1>8, <1>10, <1>11, <1>15, <2>3, <3>2
        <4>2. driver'.got = p.got /\ f.data = e.data
          BY <1>6, <1>11
        <4> QED
          BY <4>1, <4>2 DEF GotSoFar
      <3> QED
        BY <1>3, <1>6, <1>8, <1>10, <1>11, <2>3, <3>1, <3>2, <3>3 DEF Identifying
    <2> QED
      BY <1>2, <1>10, <1>11, <2>1, <2>2, <2>3 DEF UnitSound, InTransfer
  <1>19. driver'.last >= driver.last
    <2>1. driver'.last = driver.last /\ driver.last \in Nat
      BY <1>1, <1>10, <1>11
    <2> QED
      BY <2>1
  <1> QED
    BY <1>11, <1>14, <1>17, <1>18, <1>19, FilesSame

LEMMA ReadWordInv ==
    ASSUME IdeInv, NEW fails \in BOOLEAN, ReadWord(fails)
    PROVE  IdeInv'
  <1> DEFINE u == ide.selected
             d == Unit
             first == d.dptr = IdeWords
             got == ~fails /\ d.pos \in 0..(Len(hd[u]) - 1)
             e == IF ~first THEN d
                  ELSE [d EXCEPT !.dptr = 0, !.data = hd[u][d.pos + 1], !.pos = @ + 1]
             f == [e EXCEPT !.dptr = @ + 1]
             g == [f EXCEPT !.length = @ - 1]
  <1>1. /\ d \in IdeDrives /\ driver \in Drivers /\ u \in Units /\ hd' = hd
        /\ Wants({"READ", "IDENTIFY"}) /\ d.state = "DATA_IN" /\ driver.last \in Nat
    BY UnitIs, IdeBounds DEF IdeInv, IdeTyped, ReadWord
  <1>2. CASE first /\ ~d.present /\ ide' = [ide EXCEPT !.aborted = TRUE] /\ driver' = driver
    BY <1>1, <1>2, AbortedInv
  <1>3. CASE /\ ide' = SetError(u, [d EXCEPT !.dptr = 0]) /\ WordIn(<<u, 0, -1>>)
    <2> DEFINE c == [d EXCEPT !.dptr = 0]
               new == Failing(c)
    <2>1. c \in IdeDrives
      BY <1>1, IdeBounds DEF IdeDrives
    <2> HIDE DEF c
    <2>2. new \in IdeDrives /\ new.state = "IDLE" /\ new.err = TRUE
      BY <2>1, FailingIs
    <2>3. ide' = [ide EXCEPT !.drive[u] = new]
      BY <1>3 DEF SetError, c
    <2> HIDE DEF new
    <2>4. <<u, 0, -1>> \in Word
      BY <1>1, IdeBounds DEF Word
    <2>5. PICK p \in Drivers :
             /\ driver' = Judged(p) /\ p.last = driver.last
             /\ p.pulled = driver.pulled /\ p.misled = driver.misled
      BY <1>1, <1>3, <2>4, WordInIs
    <2>6. /\ driver' \in Drivers /\ driver'.last = p.last /\ driver'.pulled = p.pulled
          /\ ide'.drive[u].err => driver'.misled = p.misled
      BY <2>5, JudgedIs
    <2>7. DriveSound(new, driver')
      BY <2>2 DEF DriveSound
    <2>8. /\ ide' \in Controllers /\ ide'.selected = u /\ ide'.aborted = ide.aborted
          /\ ide'.drive[u] = new /\ \A i \in Units : DriveSound(ide'.drive[i], driver')
      BY <2>2, <2>3, <2>5, <2>6, <2>7, DriveStep
    <2>9. UnitSound(new, u, hd[u], driver')
      BY <2>2 DEF UnitSound
    <2> QED
      BY <1>1, <2>2, <2>5, <2>6, <2>8, <2>9, FilesStay
  <1>4. CASE /\ IF first THEN d.present /\ got ELSE ~fails
             /\ ide' = [ide EXCEPT !.drive[u] = IF f.dptr < IdeWords THEN f
                                                ELSE IF g.length = 0 THEN IdeReady(g) ELSE g]
             /\ WordIn(e.data[f.dptr])
    <2>1. e = Filling(d, hd[u])
      BY DEF Filling
    <2>2. first => d.present /\ d.pos \in 0..(Len(hd[u]) - 1)
      BY <1>4
    <2>3. e = Loaded /\ f = Counted /\ g = Ended
      BY <2>1 DEF Loaded, Counted, Ended
    <2> HIDE DEF e, f, g
    <2>4. /\ ide' = [ide EXCEPT !.drive[u] =
                        IF Counted.dptr < IdeWords THEN Counted
                        ELSE IF Ended.length = 0 THEN IdeReady(Ended) ELSE Ended]
          /\ WordIn(Loaded.data[Counted.dptr])
      BY <1>4, <2>3
    <2> QED
      BY <1>1, <2>2, <2>4, WordComes
  <1> QED
    BY <1>1, <1>2, <1>3, <1>4 DEF ReadWord


LEMMA WriteWordInv ==
    ASSUME IdeInv, NEW fails \in BOOLEAN, WriteWord(fails)
    PROVE  IdeInv'
  <1> DEFINE u == ide.selected
             d == Unit
             file == hd[u]
             lsn == driver.lsn + driver.words \div IdeWords
             e == [d EXCEPT !.data[d.dptr + 1] = <<u, driver.last, lsn>>, !.dptr = @ + 1]
             f == [e EXCEPT !.dptr = 0, !.pos = @ + 1, !.length = @ - 1]
             last == e.dptr = IdeWords
             kept == ~fails /\ d.pos >= 0
             new == IF f.length = 0 THEN IdeReady(f) ELSE f
  <1>0. \/ ~last /\ ide' = [ide EXCEPT !.drive[u] = e] /\ hd' = hd /\ WordOut
        \/ last /\ ~d.present /\ ide' = [ide EXCEPT !.aborted = TRUE] /\ UNCHANGED <<hd, driver>>
        \/ ide' = SetError(u, [e EXCEPT !.dptr = 0]) /\ hd' = hd /\ WordOut
        \/ /\ last /\ d.present /\ kept
           /\ ide' = [ide EXCEPT !.drive[u] = new]
           /\ hd' = [hd EXCEPT ![u] = IF d.pos = Len(@) THEN Append(@, e.data)
                                      ELSE [@ EXCEPT ![d.pos + 1] = e.data]]
           /\ WordOut
    BY DEF WriteWord
  <1>1. /\ d \in IdeDrives /\ driver \in Drivers /\ u \in Units /\ d = ide.drive[u]
        /\ file \in Seq([1..IdeWords -> Word])
        /\ Wants({"WRITE"}) /\ d.state = "DATA_OUT" /\ driver.last \in 0..LastTransfer
    BY UnitIs DEF IdeInv, IdeTyped, WriteWord
  <1>2. driver.cmd = "WRITE" /\ driver.words < 2 * IdeWords
    BY <1>1, WantsFew
  <1>3. /\ d.dptr < IdeWords /\ d.length > 0
        /\ driver.lsn < HdSectors \/ driver.words <= d.dptr
        /\ d.present => Storing(d, u, driver)
    <2>1. DriveSound(d, driver) /\ UnitSound(d, u, file, driver)
      BY <1>1 DEF IdeInv
    <2> QED
      BY <1>1, <1>2, <2>1 DEF DriveSound, UnitSound, InTransfer
  <1>4. /\ d.dptr \in Nat /\ d.length \in Nat /\ d.length \in 0..2 /\ IdeWords \in Nat
        /\ HdSectors \in Nat /\ driver.lsn \in 0..HdSectors /\ driver.words \in Nat
        /\ d.data \in [1..IdeWords -> Word] /\ d.pos \in -1..(HdSectors + 2)
    <2>1. /\ d.dptr \in 0..IdeWords /\ d.length \in 0..2
          /\ d.data \in [1..IdeWords -> Word] /\ d.pos \in -1..(HdSectors + 2)
      BY <1>1 DEF IdeDrives
    <2>2. driver.lsn \in 0..HdSectors /\ driver.words \in 0..(2 * IdeWords)
      BY <1>1 DEF Drivers
    <2> QED
      BY <2>1, <2>2, IdeBounds
  <1>5. PICK p \in Drivers :
             /\ WordOut => driver' = Judged(p)
             /\ p.words = driver.words + 1
             /\ p.cmd = driver.cmd /\ p.lsn = driver.lsn /\ p.last = driver.last
             /\ p.pulled = driver.pulled /\ p.misled = driver.misled
    <2> DEFINE q == [driver EXCEPT !.words = driver.words + 1]
    <2>1. WordOut => driver' = Judged(q)
      BY <1>1 DEF WordOut, Drivers
    <2>2. driver.words + 1 \in 0..(2 * IdeWords)
      BY <1>1, WantsFew
    <2>3. q \in Drivers
      BY <1>1, <2>2, ZenonT(30) DEF Drivers
    <2>4. /\ q.words = driver.words + 1
          /\ q.cmd = driver.cmd /\ q.lsn = driver.lsn /\ q.last = driver.last
          /\ q.pulled = driver.pulled /\ q.misled = driver.misled
      BY <1>1 DEF Drivers
    <2> HIDE DEF q
    <2> QED
      BY <2>1, <2>3, <2>4
  <1>6. WordOut =>
          /\ driver' \in Drivers /\ driver'.cmd = "WRITE" /\ driver'.last = driver.last
          /\ driver'.lsn = driver.lsn /\ driver'.words = driver.words + 1
          /\ driver'.pulled = driver.pulled
          /\ Moved(p) # 0 \/ ide'.drive[u].err \/ Right(p) => driver'.misled = driver.misled
          /\ Moved(driver') = Moved(p) /\ Sought(driver') = Sought(p)
    <2>1. ASSUME WordOut
          PROVE  /\ driver' \in Drivers /\ driver'.cmd = "WRITE" /\ driver'.last = driver.last
                 /\ driver'.lsn = driver.lsn /\ driver'.words = driver.words + 1
                 /\ driver'.pulled = driver.pulled
                 /\ Moved(p) # 0 \/ ide'.drive[u].err \/ Right(p)
                    => driver'.misled = driver.misled
      <3>1. driver' = Judged(p)
        BY <1>5, <2>1
      <3> QED
        BY <1>2, <1>5, <3>1, JudgedIs
    <2> QED
      BY <1>5, <2>1 DEF Moved, Sought
  <1>7. /\ Moved(driver) \in 0..(IdeWords - 1) /\ Sought(driver) \in Nat
        /\ driver.lsn <= Sought(driver)
        /\ Moved(driver) + 1 = IdeWords => Moved(p) = 0 /\ Sought(p) = Sought(driver) + 1
        /\ Moved(driver) + 1 # IdeWords =>
              Moved(p) = Moved(driver) + 1 /\ Sought(p) = Sought(driver)
        /\ Sought(driver) <= driver.lsn + 1
        /\ driver.words < IdeWords => Sought(driver) = driver.lsn
    BY <1>1, <1>2, <1>5, MovedOn
  <1>8. lsn = Sought(driver) /\ lsn \in -1..HdSectors /\ <<u, driver.last, lsn>> \in Word
    <2>1. lsn = Sought(driver)
      BY DEF Sought
    <2>2. lsn \in -1..HdSectors
      <3>1. CASE driver.lsn < HdSectors
        BY SMTT(30), <1>4, <1>7, <2>1, <3>1
      <3>2. CASE driver.words <= d.dptr
        <4>1. Sought(driver) = driver.lsn
          BY <1>3, <1>4, <1>7, <3>2
        <4> QED
          BY <1>4, <2>1, <4>1
      <3> QED
        BY <1>3, <3>1, <3>2
    <2> QED
      BY <1>1, <2>1, <2>2 DEF Word
  <1> HIDE DEF lsn
  <1> DEFINE count == d.dptr + 1
             data == [d.data EXCEPT ![count] = <<u, driver.last, lsn>>]
  <1>9. data \in [1..IdeWords -> Word] /\ count \in 0..IdeWords /\ count \in 1..IdeWords
    BY SMTT(30), <1>3, <1>4, <1>8
  <1>10. \A w \in 1..count : data[w] = IF w = count THEN <<u, driver.last, lsn>> ELSE d.data[w]
    BY <1>3, <1>4
  <1>11. e = [d EXCEPT !.data = data, !.dptr = count]
    BY <1>1 DEF IdeDrives
  <1> HIDE DEF count, data, e
  <1>12. /\ e \in IdeDrives /\ e.dptr = count /\ e.data = data /\ e.pos = d.pos
         /\ e.length = d.length /\ e.state = "DATA_OUT" /\ e.present = d.present
    <2>1. e \in IdeDrives
      BY <1>1, <1>9, <1>11, ZenonT(30) DEF IdeDrives
    <2> QED
      BY <1>1, <1>11, <2>1 DEF IdeDrives
  <1>13. driver.last \in Nat
    BY <1>1, IdeBounds
  <1>14. d.present => /\ driver.lsn < HdSectors /\ count = Moved(driver) + 1
                      /\ d.pos = Sought(driver)
                      /\ \A w \in 1..count : data[w] = <<u, driver.last, lsn>>
    <2>1. ASSUME d.present
          PROVE  /\ driver.lsn < HdSectors /\ d.dptr = Moved(driver) /\ d.pos = Sought(driver)
                 /\ \A w \in 1..Moved(driver) : d.data[w] = <<u, driver.last, lsn>>
      BY <1>3, <1>8, <2>1 DEF Storing
    <2>2. count = d.dptr + 1
      BY DEF count
    <2>3. \A w \in 1..count : w = count \/ w \in 1..d.dptr
      BY <1>4, <2>2
    <2> QED
      BY <1>10, <2>1, <2>2, <2>3
  <1>15. CASE ~last /\ ide' = [ide EXCEPT !.drive[u] = e] /\ hd' = hd /\ WordOut
    <2>1. count < IdeWords
      BY <1>4, <1>9, <1>12, <1>15
    <2>2. DriveSound(e, driver')
      <3>1. d.present \/ driver'.pulled
        BY <1>1, <1>6, <1>15 DEF IdeInv, DriveSound
      <3> QED
        BY <1>3, <1>12, <2>1, <3>1 DEF DriveSound
    <2>3. /\ ide' \in Controllers /\ ide'.selected = u /\ ide'.aborted = ide.aborted
          /\ ide'.drive[u] = e /\ \A i \in Units : DriveSound(ide'.drive[i], driver')
      BY <1>6, <1>12, <1>15, <2>2, DriveStep
    <2>4. d.present => Moved(p) = Moved(driver) + 1 /\ Sought(p) = Sought(driver) /\ Moved(p) # 0
      BY <1>7, <1>14, <2>1, IdeBounds
    <2>5. UnitSound(e, u, file, driver')
      <3>1. driver'.lsn < HdSectors \/ driver'.words <= e.dptr
        BY <1>3, <1>4, <1>6, <1>12, <1>15 DEF count
      <3>2. d.present => Storing(e, u, driver')
        BY <1>6, <1>8, <1>12, <1>14, <1>15, <2>4 DEF Storing
      <3> QED
        BY <1>6, <1>12, <1>15, <3>1, <3>2 DEF UnitSound, InTransfer
    <2>6. ~driver'.pulled => ~driver'.misled /\ ~ide'.aborted
      <3>1. d.present \/ driver.pulled
        BY <1>1 DEF IdeInv, DriveSound
      <3>2. d.present => driver'.misled = driver.misled
        BY <1>6, <1>15, <2>4
      <3> QED
        BY <1>6, <1>15, <2>3, <3>1, <3>2 DEF IdeInv
    <2>7. driver'.last >= driver.last
      <3>1. driver'.last = driver.last
        BY <1>6, <1>15
      <3> QED
        BY <1>13, <3>1
    <2> QED
      BY <1>6, <1>15, <2>3, <2>5, <2>6, <2>7, FilesSame
  <1>16. CASE last /\ ~d.present /\ ide' = [ide EXCEPT !.aborted = TRUE] /\ UNCHANGED <<hd, driver>>
    BY <1>1, <1>16, AbortedInv
  <1>17. CASE ide' = SetError(u, [e EXCEPT !.dptr = 0]) /\ hd' = hd /\ WordOut
    <2> DEFINE c == [e EXCEPT !.dptr = 0]
               failed == Failing(c)
    <2>1. c \in IdeDrives
      BY <1>12, IdeBounds DEF IdeDrives
    <2> HIDE DEF c
    <2>2. failed \in IdeDrives /\ failed.state = "IDLE" /\ failed.err = TRUE
      BY <2>1, FailingIs
    <2>3. ide' = [ide EXCEPT !.drive[u] = failed]
      BY <1>17 DEF SetError, c
    <2> HIDE DEF failed
    <2>4. DriveSound(failed, driver') /\ UnitSound(failed, u, file, driver')
      BY <2>2 DEF DriveSound, UnitSound
    <2>5. /\ ide' \in Controllers /\ ide'.selected = u /\ ide'.aborted = ide.aborted
          /\ ide'.drive[u] = failed /\ \A i \in Units : DriveSound(ide'.drive[i], driver')
      BY <1>6, <1>17, <2>2, <2>3, <2>4, DriveStep
    <2>6. driver'.last >= driver.last /\ driver'.misled = driver.misled
      <3>1. driver'.last = driver.last /\ driver'.misled = driver.misled
        BY <1>6, <1>17, <2>2, <2>5
      <3> QED
        BY <1>13, <3>1
    <2> QED
      BY <1>6, <1>17, <2>4, <2>5, <2>6, FilesStay
  <1>18. CASE /\ last /\ d.present /\ kept
              /\ ide' = [ide EXCEPT !.drive[u] = new]
              /\ hd' = [hd EXCEPT ![u] = IF d.pos = Len(@) THEN Append(@, e.data)
                                         ELSE [@ EXCEPT ![d.pos + 1] = e.data]]
              /\ WordOut
    <2>1. /\ count = IdeWords /\ Moved(driver) + 1 = IdeWords /\ d.pos = Sought(driver)
          /\ Moved(p) = 0 /\ Sought(p) = d.pos + 1 /\ driver.lsn < HdSectors
      BY <1>7, <1>12, <1>14, <1>18
    <2>2. d.pos \in Nat /\ d.pos <= HdSectors /\ d.pos = lsn
      BY <1>4, <1>7, <1>8, <2>1
    <2>3. data = Filled(u, driver.last, d.pos)
      <3>1. data = [w \in 1..IdeWords |-> data[w]]
        BY <1>9
      <3>2. \A w \in 1..IdeWords : data[w] = <<u, driver.last, d.pos>>
        BY <1>14, <1>18, <2>1, <2>2
      <3> QED
        BY <3>1, <3>2 DEF Filled
    <2> DEFINE grown == IF d.pos = Len(file) THEN Append(file, data)
                        ELSE [file EXCEPT ![d.pos + 1] = data]
    <2>4. FileWhole(u, file, driver.last) /\ Len(file) >= HdSectors /\ Len(file) \in Nat
      BY <1>1 DEF IdeInv, FileWhole
    <2>5. /\ grown \in Seq([1..IdeWords -> Word]) /\ Len(grown) >= Len(file) /\ Len(grown) \in Nat
          /\ d.pos + 1 \in 1..Len(grown) /\ grown[d.pos + 1] = data
          /\ \A s \in 1..Len(grown) : s # d.pos + 1 => s \in 1..Len(file) /\ grown[s] = file[s]
      <3>1. CASE d.pos = Len(file)
        BY SMTT(30), <1>1, <1>9, <2>2, <2>4, <3>1
      <3>2. CASE d.pos # Len(file)
        <4>1. d.pos + 1 \in 1..Len(file)
          BY <2>2, <2>4, <3>2, IdeBounds
        <4> QED
          BY <1>1, <1>9, <2>2, <2>4, <3>2, <4>1
      <3> QED
        BY <3>1, <3>2
    <2>6. /\ hd' = [hd EXCEPT ![u] = grown] /\ hd \in [Units -> Seq([1..IdeWords -> Word])]
      BY <1>1, <1>12, <1>18 DEF IdeInv, IdeTyped
    <2> HIDE DEF grown
    <2>7. hd' \in [Units -> Seq([1..IdeWords -> Word])] /\ hd'[u] = grown
          /\ \A i \in Units : i # u => hd'[i] = hd[i]
      BY <1>1, <2>5, <2>6
    <2>8. FileWhole(u, grown, driver.last)
      <3>1. Len(grown) >= HdSectors
        BY <2>4, <2>5, IdeBounds
      <3>2. ASSUME NEW s \in 1..Len(grown)
            PROVE  \E m \in 0..driver.last : grown[s] = Filled(u, m, s - 1)
        <4>1. CASE s = d.pos + 1
          <5>1. s - 1 = d.pos /\ driver.last \in 0..driver.last
            BY <1>13, <2>2, <4>1
          <5> QED
            BY <2>3, <2>5, <4>1, <5>1
        <4>2. CASE s # d.pos + 1
          BY <2>4, <2>5, <4>2 DEF FileWhole
        <4> QED
          BY <4>1, <4>2
      <3> QED
        BY <3>1, <3>2 DEF FileWhole
    <2>9. \A i \in Units : FileWhole(i, hd'[i], driver.last)
      BY <2>7, <2>8 DEF IdeInv
    <2>10. /\ f \in IdeDrives /\ f.dptr = 0 /\ f.pos = d.pos + 1 /\ f.length = d.length - 1
           /\ f.state = "DATA_OUT" /\ f.present = d.present
      <3>1. d.pos + 1 \in -1..(HdSectors + 2) /\ d.length - 1 \in 0..2
        BY <1>3, <1>4, <2>2
      <3>2. f = [e EXCEPT !.dptr = 0, !.pos = d.pos + 1, !.length = d.length - 1]
        BY <1>12 DEF IdeDrives
      <3> HIDE DEF f
      <3>3. f \in IdeDrives
        BY <1>12, <3>1, <3>2, IdeBounds, ZenonT(30) DEF IdeDrives
      <3> QED
        BY <1>12, <3>2, <3>3 DEF IdeDrives
    <2> HIDE DEF f
    <2>11. /\ new \in IdeDrives /\ new.present = d.present
           /\ new.state = "IDLE" \/ (new = f /\ d.length - 1 > 0)
      <3>1. /\ IdeReady(f) \in IdeDrives /\ IdeReady(f).state = "IDLE"
            /\ IdeReady(f).present = f.present
        BY <2>10, IdeReadyIs
      <3>2. d.length - 1 = 0 \/ d.length - 1 > 0
        BY <1>3, <1>4
      <3> QED
        BY <2>10, <3>1, <3>2
    <2> HIDE DEF new
    <2>12. DriveSound(new, driver')
      BY <1>18, <2>10, <2>11, IdeBounds DEF DriveSound
    <2>13. /\ ide' \in Controllers /\ ide'.selected = u /\ ide'.aborted = ide.aborted
           /\ ide'.drive[u] = new /\ \A i \in Units : DriveSound(ide'.drive[i], driver')
      BY <1>6, <1>18, <2>11, <2>12, DriveStep
    <2>14. UnitSound(new, u, grown, driver')
      <3>1. \A w \in 1..0 : FALSE
        OBVIOUS
      <3>2. new = f => Storing(f, u, driver')
        BY <1>6, <1>18, <2>1, <2>10, <3>1 DEF Storing
      <3> QED
        BY <1>6, <1>18, <2>1, <2>11, <3>2 DEF UnitSound, InTransfer
    <2>15. driver'.misled = driver.misled
      <3>1. Right(p)
        <4>1. Sought(p) <= Len(hd'[u]) /\ Sought(p) - 1 = d.pos
          BY <2>1, <2>2, <2>5, <2>7
        <4>2. hd'[u][Sought(p)] = Filled(u, p.last, Sought(p) - 1)
          BY <1>5, <2>1, <2>3, <2>5, <2>7, <4>1
        <4> QED
          BY <1>2, <1>5, <4>1, <4>2 DEF Right
      <3> QED
        BY <1>6, <1>18, <3>1
    <2>16. IdeTyped'
      BY <1>6, <1>18, <2>7, <2>13 DEF IdeTyped
    <2>17. (\A i \in Units : DriveSound(ide.drive[i], driver))'
      BY <2>13 DEF DriveSound
    <2>18. UnitSound(Unit, ide.selected, hd[ide.selected], driver)'
      BY <2>7, <2>13, <2>14
         DEF Unit, UnitSound, InTransfer, Reading, Storing, Identifying, GotSoFar, Moved,
             Sought, Filled
    <2>19. (\A i \in Units : FileWhole(i, hd[i], driver.last))'
      BY <1>6, <1>18, <2>9
    <2>20. ~driver'.pulled => ~driver'.misled /\ ~ide'.aborted
      BY <1>6, <1>18, <2>13, <2>15 DEF IdeInv
    <2> QED
      BY <2>16, <2>17, <2>18, <2>19, <2>20 DEF IdeInv
  <1> QED
    BY <1>0, <1>15, <1>16, <1>17, <1>18


LEMMA IdeNextInv == IdeInv /\ [IdeNext]_ideVars => IdeInv'
  <1> SUFFICES ASSUME IdeInv, [IdeNext]_ideVars PROVE IdeInv'
    OBVIOUS
  <1>1. ASSUME NEW unit \in Units, SelectUnit(unit) PROVE IdeInv'
    BY <1>1, SelectUnitInv
  <1>2. ASSUME NEW cmd, NEW lsn \in 0..HdSectors, NEW count \in Counts, NEW valid \in BOOLEAN,
               IssueCommand(cmd, lsn, count, valid)
        PROVE  IdeInv'
    BY <1>2, IssueCommandInv
  <1>3. ASSUME NEW fails \in BOOLEAN, ReadWord(fails) \/ WriteWord(fails) PROVE IdeInv'
    BY <1>3, ReadWordInv, WriteWordInv
  <1>4. ASSUME NEW unit \in Units, NEW attached \in BOOLEAN, SetHdFilename(unit, attached)
        PROVE  IdeInv'
    BY <1>4, SetHdFilenameInv
  <1>5. ASSUME ResetIde PROVE IdeInv'
    BY <1>5, ResetIdeInv
  <1>6. ASSUME UNCHANGED ideVars PROVE IdeInv'
    <2>1. ide' = ide /\ hd' = hd /\ driver' = driver
      BY <1>6 DEF ideVars
    <2>2. /\ ide \in Controllers /\ driver \in Drivers /\ ide.selected \in Units
          /\ Unit = ide.drive[ide.selected] /\ driver.last \in Nat
      BY UnitIs, IdeBounds DEF IdeInv, IdeTyped
    <2>3. driver'.last >= driver.last
      BY <2>1, <2>2
    <2>4. /\ \A i \in Units : DriveSound(ide'.drive[i], driver')
          /\ UnitSound(ide'.drive[ide'.selected], ide'.selected, hd[ide'.selected], driver')
      BY <2>1, <2>2 DEF IdeInv
    <2> QED
      BY <2>1, <2>2, <2>3, <2>4, FilesStay
  <1>7. ASSUME IdeNext PROVE IdeInv'
    <2>1. 0 \in 0..HdSectors /\ 1 \in Counts /\ TRUE \in BOOLEAN
      BY IdeBounds
    <2>2. ASSUME NEW lsn \in 0..HdSectors,
                 \/ IssueCommand("SEEK", lsn, 1, TRUE)
                 \/ \E cmd \in {"READ", "WRITE"}, count \in Counts :
                       IssueCommand(cmd, lsn, count, TRUE)
          PROVE  IdeInv'
      BY <1>2, <2>1, <2>2
    <2>3. ASSUME \/ IssueCommand("IDENTIFY", 0, 1, TRUE) \/ IssueCommand("EDD", 0, 1, TRUE)
                 \/ \E cmd \in {"INTPARAMS", "other"}, valid \in BOOLEAN :
                       IssueCommand(cmd, 0, 1, valid)
          PROVE  IdeInv'
      BY <1>2, <2>1, <2>3
    <2> QED
      BY <1>1, <1>3, <1>4, <1>5, <1>7, <2>2, <2>3 DEF IdeNext
  <1> QED
    BY <1>6, <1>7

(* For images of any size and sectors of any length: each sector of either file holds,
   whole and in its place, what one command wrote to it, for a sector goes to the file
   only with its last word (ide.c:474) and the drive counts its words as the program
   does; what the program is told of a sector is so; and the emulator does not abort,
   wherever the program gives up a transfer, turns to the other drive or resets the
   machine, and the user replaces images, but where one was taken out in a transfer. *)
THEOREM SectorsKept == IdeSpec => []SectorsWhole
  <1>1. IdeInv => SectorsWhole
    <2> SUFFICES ASSUME IdeInv PROVE SectorsWhole
      OBVIOUS
    <2>1. ide.selected \in Units /\ ide.aborted \in BOOLEAN
      BY DEF IdeInv, IdeTyped, Controllers
    <2>2. \A i \in Units : ide.drive[i] \in IdeDrives
      BY UnitIs DEF IdeInv
    <2>3. IdeOK
      BY <2>1, <2>2 DEF IdeInv, IdeTyped, IdeOK
    <2> QED
      BY <2>3 DEF IdeInv, FileWhole, SectorsWhole
  <1> QED
    BY <1>1, IdeInitInv, IdeNextInv, PTL DEF IdeSpec

-----------------------------------------------------------------------------
(* Keys *)

\* A held key of the keyboard, or one of the page, will let go of the crosspoint.
HeldBy(k, p) ==
    \/ \E code \in k.held \ k.joystick : p \in ClaimOf(k, code)
    \/ \E d \in k.pads : p \in Point(k.keymap, d)

KeysHeld(k) ==
    /\ k \in Keyboards
    /\ \A p \in k.closed \ k.stray : HeldBy(k, p)
    /\ Shift(k) => "Shift_L" \in k.held
    /\ k.joystick \subseteq {"z"}

LEMMA PointTyped ==
    ASSUME NEW m \in {"dragon", "coco"}, NEW s \in 0..63
    PROVE  Point(m, s) \subseteq Points
  BY DEF Points

LEMMA PointOfShift ==
    ASSUME NEW m \in {"dragon", "coco"}
    PROVE  Point(m, DSCAN_SHIFT) = {DSCAN_SHIFT} /\ DSCAN_SHIFT \in 0..63
  BY SMT DEF Point, DSCAN_SHIFT, DSCAN_INVALID

LEMMA ChordTyped ==
    ASSUME NEW u \in DOMAIN unicode_to_dkey
    PROVE  unicode_to_dkey[u].dk_key \in 0..63
  <1>1. u \in {"z", "Z", ";", ":", "none"}
    BY DEF unicode_to_dkey
  <1>2. /\ unicode_to_dkey["z"].dk_key = DSCAN_Z /\ unicode_to_dkey["Z"].dk_key = DSCAN_Z
        /\ unicode_to_dkey[";"].dk_key = DSCAN_SEMICOLON
        /\ unicode_to_dkey[":"].dk_key = DSCAN_COLON
        /\ unicode_to_dkey["none"].dk_key = DSCAN_INVALID
    BY DEF unicode_to_dkey
  <1>3. {DSCAN_COLON, DSCAN_SEMICOLON, DSCAN_Z, DSCAN_INVALID} \subseteq 0..63
    BY DEF DSCAN_COLON, DSCAN_SEMICOLON, DSCAN_Z, DSCAN_INVALID
  <1> HIDE DEF unicode_to_dkey
  <1> QED
    BY <1>1, <1>2, <1>3, Zenon

LEMMA SymbolTyped ==
    ASSUME NEW code \in Scancodes, NEW shift \in BOOLEAN
    PROVE  /\ Symbol(code, shift) \in DOMAIN unicode_to_dkey
           /\ code \in {"z", "semicolon"} =>
                 unicode_to_dkey[Symbol(code, shift)].dk_mod \in {"SHIFT", "UNSHIFT"}
  BY DEF Symbol, unicode_to_dkey, Scancodes

LEMMA CodeTyped ==
    ASSUME NEW code \in Scancodes
    PROVE  /\ code_to_dkey[code] \in 0..63
           /\ scancode_mod[code] \subseteq Modifiers
           /\ "shift" \in scancode_mod[code] <=> code = "Shift_L"
           /\ "control" \in scancode_mod[code] <=> code = "Control_L"
  BY DEF code_to_dkey, scancode_mod, Scancodes, Modifiers, DSCAN_SEMICOLON, DSCAN_Z,
         DSCAN_INVALID, DSCAN_SHIFT

(* A change of one key, or of what keys mean: the others keep their claims. *)
LEMMA ClaimKept ==
    ASSUME NEW k, NEW r, NEW code, r.translate = k.translate, r.keymap = k.keymap,
           r.unicode[code] = k.unicode[code]
    PROVE  ClaimOf(r, code) = ClaimOf(k, code)
  BY DEF ClaimOf

(* Closing and opening, in the matrix and nowhere else. *)
LEMMA Closes ==
    ASSUME NEW k \in Keyboards, NEW s \in 0..63
    PROVE  /\ Close(k, s) \in Keyboards
           /\ Close(k, s) = [k EXCEPT !.closed = Close(k, s).closed]
           /\ Close(k, s).closed = k.closed \union Point(k.keymap, s)
           /\ Open(k, s) \in Keyboards
           /\ Open(k, s) = [k EXCEPT !.closed = Open(k, s).closed]
           /\ Open(k, s).closed = k.closed \ Point(k.keymap, s)
  <1>1. Point(k.keymap, s) \subseteq Points
    BY PointTyped DEF Keyboards
  <1> QED
    BY <1>1 DEF Keyboards, Close, Open

\* Of the keyboard's state only the matrix has changed.
Matrixed(k, r) == r \in Keyboards /\ r = [k EXCEPT !.closed = r.closed]

LEMMA ShiftCloses ==
    ASSUME NEW k \in Keyboards
    PROVE  LET c == Close(k, DSCAN_SHIFT)
               o == Open(k, DSCAN_SHIFT)
           IN  /\ Matrixed(k, c) /\ c.closed = k.closed \union {DSCAN_SHIFT}
               /\ Matrixed(k, o) /\ o.closed = k.closed \ {DSCAN_SHIFT}
  <1>1. Point(k.keymap, DSCAN_SHIFT) = {DSCAN_SHIFT} /\ DSCAN_SHIFT \in 0..63
    BY PointOfShift DEF Keyboards
  <1> QED
    BY <1>1, Closes DEF Matrixed

LEMMA UnicodePresses ==
    ASSUME NEW k \in Keyboards, NEW u \in DOMAIN unicode_to_dkey,
           unicode_to_dkey[u].dk_mod \in {"SHIFT", "UNSHIFT"}
    PROVE  LET r == UnicodePress(k, u)
               chord == unicode_to_dkey[u]
           IN  /\ Matrixed(k, r)
               /\ r.closed \subseteq k.closed \union Point(k.keymap, chord.dk_key)
                                    \union {DSCAN_SHIFT}
               /\ DSCAN_SHIFT \in r.closed =>
                     \/ chord.dk_mod = "SHIFT"
                     \/ DSCAN_SHIFT \in Point(k.keymap, chord.dk_key)
  <1> DEFINE chord == unicode_to_dkey[u]
             h == CASE chord.dk_mod = "SHIFT"   -> Close(k, DSCAN_SHIFT)
                    [] chord.dk_mod = "UNSHIFT" -> Open(k, DSCAN_SHIFT)
                    [] OTHER                    -> k
             r == Close(h, chord.dk_key)
  <1>1. chord.dk_key \in 0..63
    BY ChordTyped
  <1>2. UnicodePress(k, u) = r
    BY DEF UnicodePress
  <1>3. /\ Matrixed(k, h)
        /\ h.closed \subseteq k.closed \union {DSCAN_SHIFT}
        /\ DSCAN_SHIFT \in h.closed => chord.dk_mod = "SHIFT"
    <2>1. CASE chord.dk_mod = "SHIFT"
      BY <2>1, ShiftCloses
    <2>2. CASE chord.dk_mod = "UNSHIFT"
      <3>1. h = Open(k, DSCAN_SHIFT)
        BY <2>2
      <3> QED
        BY <3>1, ShiftCloses
    <2> QED
      BY <2>1, <2>2
  <1> HIDE DEF h, chord
  <1>4. /\ Matrixed(h, r) /\ r.closed = h.closed \union Point(h.keymap, chord.dk_key)
    BY <1>1, <1>3, Closes DEF Matrixed
  <1>5. h.keymap = k.keymap
    BY <1>3 DEF Matrixed, Keyboards
  <1> HIDE DEF r
  <1>6. Matrixed(k, r)
    BY <1>3, <1>4 DEF Matrixed, Keyboards
  <1> QED
    BY <1>2, <1>3, <1>4, <1>5, <1>6 DEF chord

LEMMA UnicodeReleases ==
    ASSUME NEW k \in Keyboards, NEW u \in DOMAIN unicode_to_dkey
    PROVE  LET r == ShiftBack(UnicodeRelease(k, u))
               chord == unicode_to_dkey[u]
           IN  /\ Matrixed(k, r)
               /\ r.closed \subseteq (k.closed \ Point(k.keymap, chord.dk_key))
                                     \union {DSCAN_SHIFT}
               /\ DSCAN_SHIFT \in r.closed => Shift(k)
  <1> DEFINE chord == unicode_to_dkey[u]
             h == CASE chord.dk_mod = "SHIFT"   -> Open(k, DSCAN_SHIFT)
                    [] chord.dk_mod = "UNSHIFT" -> Close(k, DSCAN_SHIFT)
                    [] OTHER                    -> k
             o == Open(h, chord.dk_key)
             r == ShiftBack(o)
  <1>1. chord.dk_key \in 0..63
    BY ChordTyped
  <1>2. UnicodeRelease(k, u) = o
    BY DEF UnicodeRelease
  <1>3. h = Open(k, DSCAN_SHIFT) \/ h = Close(k, DSCAN_SHIFT) \/ h = k
    OBVIOUS
  <1> HIDE DEF h, chord
  <1>4. Matrixed(k, h) /\ h.closed \subseteq k.closed \union {DSCAN_SHIFT}
    <2>1. CASE h = k
      BY <2>1 DEF Matrixed, Keyboards
    <2>2. CASE h = Open(k, DSCAN_SHIFT)
      BY <2>2, ShiftCloses
    <2>3. CASE h = Close(k, DSCAN_SHIFT)
      BY <2>3, ShiftCloses
    <2> QED
      BY <1>3, <2>1, <2>2, <2>3
  <1>5. h.keymap = k.keymap /\ h.state = k.state /\ h \in Keyboards
    BY <1>4 DEF Matrixed, Keyboards
  <1>6. /\ o \in Keyboards /\ o = [h EXCEPT !.closed = o.closed]
        /\ o.closed = h.closed \ Point(k.keymap, chord.dk_key)
    BY <1>1, <1>5, Closes
  <1> HIDE DEF o
  <1>7. Matrixed(k, o) /\ o.keymap = k.keymap /\ o.state = k.state
    BY <1>4, <1>5, <1>6 DEF Matrixed, Keyboards
  <1>8. CASE Shift(o)
    <2>1. r = Close(o, DSCAN_SHIFT)
      BY <1>8 DEF ShiftBack
    <2> HIDE DEF r
    <2>2. Matrixed(o, r) /\ r.closed = o.closed \union {DSCAN_SHIFT}
      BY <1>6, <2>1, ShiftCloses
    <2>3. Matrixed(k, r)
      BY <1>7, <2>2 DEF Matrixed, Keyboards
    <2> QED
      BY <1>2, <1>4, <1>6, <1>7, <1>8, <2>2, <2>3 DEF Shift, r, chord
  <1>9. CASE ~Shift(o)
    <2>1. r = Open(o, DSCAN_SHIFT)
      BY <1>9 DEF ShiftBack
    <2> HIDE DEF r
    <2>2. Matrixed(o, r) /\ r.closed = o.closed \ {DSCAN_SHIFT}
      BY <1>6, <2>1, ShiftCloses
    <2>3. Matrixed(k, r)
      BY <1>7, <2>2 DEF Matrixed, Keyboards
    <2> QED
      BY <1>2, <1>4, <1>6, <2>2, <2>3 DEF r, chord
  <1> QED
    BY <1>8, <1>9

(* What keys mean changes: whatever is down is given up. *)
LEMMA GoneAstray ==
    ASSUME NEW k \in Keyboards, k.switches < LastSwitch
    PROVE  /\ Translated(k) \in Keyboards
           /\ Translated(k).closed = k.closed /\ k.closed \subseteq Translated(k).stray
           /\ Translated(k).state = k.state /\ Translated(k).held = k.held
           /\ Translated(k).joystick = k.joystick
  <1>1. Translated(k) = [k EXCEPT !.translate = ~@, !.stray = @ \union k.closed,
                                  !.switches = @ + 1]
    BY DEF Keyboards, Translated, Astray
  <1>2. k.stray \union k.closed \subseteq Points /\ k.switches + 1 \in 0..LastSwitch
    BY KeyboardAssumption DEF Keyboards
  <1>3. (~k.translate) \in BOOLEAN
    OBVIOUS
  <1> QED
    BY <1>1, <1>2, <1>3 DEF Keyboards

(* A press: whatever it closes is what the key will open again. *)
LEMMA Presses ==
    ASSUME NEW k, KeysHeld(k), NEW code \in Scancodes
    PROVE  KeysHeld(ScanPress(k, code))
  <1> DEFINE p == [k EXCEPT !.state = @ \union scancode_mod[code], !.marked = @ \union {code}]
             q == PressAs(p, code)
             r == [q EXCEPT !.held = @ \union {code}]
             u == Symbol(code, Shift(p))
  <1>1. /\ p \in Keyboards /\ p.closed = k.closed /\ p.stray = k.stray /\ p.held = k.held
        /\ p.joystick = k.joystick /\ p.pads = k.pads /\ p.keymap = k.keymap
        /\ p.translate = k.translate /\ p.unicode = k.unicode /\ p.switches = k.switches
        /\ p.state = k.state \union scancode_mod[code]
    BY CodeTyped DEF KeysHeld, Keyboards
  <1>2. ScanPress(k, code) = r
    BY DEF ScanPress
  <1> HIDE DEF p
  <1>3. Shift(p) => code = "Shift_L" \/ "Shift_L" \in k.held
    BY <1>1, CodeTyped DEF Shift, KeysHeld
  <1>4. SUFFICES /\ q \in Keyboards /\ q.state = p.state /\ q.held = p.held
                 /\ q.joystick = p.joystick
                 /\ \A x \in q.closed \ q.stray : HeldBy(r, x)
    <2>1. /\ r \in Keyboards /\ r.held = k.held \union {code} /\ r.closed = q.closed
          /\ r.stray = q.stray /\ r.state = p.state /\ r.joystick = k.joystick
      BY <1>1 DEF Keyboards
    <2> HIDE DEF r
    <2> QED
      BY <1>1, <1>2, <1>3, <2>1 DEF KeysHeld, Shift
  <1>5. ASSUME q = p PROVE \A x \in p.closed \ p.stray : HeldBy(r, x)
    <2>1. /\ r.translate = k.translate /\ r.keymap = k.keymap /\ r.unicode = k.unicode
          /\ r.joystick = k.joystick /\ r.pads = k.pads /\ k.held \subseteq r.held
      BY <1>1, <1>5 DEF Keyboards
    <2> HIDE DEF r
    <2> QED
      BY <1>1, <2>1, ClaimKept DEF KeysHeld, HeldBy
  <1>6. CASE "control" \in p.state
    <2>1. q = EmulatorCommand(p, code)
      BY <1>6 DEF PressAs
    <2>2. CASE q = p
      BY <1>1, <1>5, <2>2
    <2>3. CASE q # p
      <3>1. q = Translated(p) /\ p.switches < LastSwitch
        BY <2>1, <2>3 DEF EmulatorCommand
      <3> HIDE DEF q
      <3> QED
        BY <1>1, <3>1, GoneAstray
    <2> QED
      BY <2>2, <2>3
  <1>7. CASE "control" \notin p.state /\ code \in p.joystick
    <2>1. q = p
      BY <1>7 DEF PressAs
    <2> QED
      BY <1>1, <1>5, <2>1
  <1>8. CASE "control" \notin p.state /\ code \notin p.joystick
    <2>1. CASE p.translate /\ code \notin code_preempt
      <3> DEFINE c == Recorded(p, code, u)
                 old == unicode_to_dkey[p.unicode[code]]
                 new == unicode_to_dkey[u]
      <3>1. q = UnicodePress(c, u)
        BY <1>8, <2>1 DEF PressAs
      <3>2. code \in {"z", "semicolon"}
        BY <1>1, <1>8, <2>1, CodeTyped DEF Scancodes, code_preempt
      <3>3. u \in DOMAIN unicode_to_dkey /\ new.dk_mod \in {"SHIFT", "UNSHIFT"}
        <4>1. Shift(p) \in BOOLEAN
          BY DEF Shift
        <4> QED
          BY <3>2, <4>1, SymbolTyped
      <3>4. old.dk_key \in 0..63
        BY <1>1, ChordTyped DEF Keyboards
      <3>5. Point(p.keymap, old.dk_key) \subseteq Points
        BY <1>1, <3>4, PointTyped DEF Keyboards
      <3> HIDE DEF old, u
      <3>6. /\ c \in Keyboards /\ c.closed = k.closed /\ c.held = k.held /\ c.pads = k.pads
            /\ c.joystick = k.joystick /\ c.keymap = k.keymap /\ c.translate = k.translate
            /\ c.state = p.state
            /\ c.stray = IF code \in k.held THEN k.stray \union Point(k.keymap, old.dk_key)
                         ELSE k.stray
            /\ c.unicode = [k.unicode EXCEPT ![code] = u]
        BY <1>1, <3>3, <3>5 DEF Recorded, Keyboards, old
      <3> HIDE DEF c, q, new
      <3>7. /\ Matrixed(c, q)
            /\ q.closed \subseteq c.closed \union Point(c.keymap, new.dk_key) \union {DSCAN_SHIFT}
            /\ DSCAN_SHIFT \in q.closed =>
                  new.dk_mod = "SHIFT" \/ DSCAN_SHIFT \in Point(c.keymap, new.dk_key)
        BY <3>1, <3>3, <3>6, UnicodePresses DEF new
      <3>8. /\ q \in Keyboards /\ q.state = p.state /\ q.held = k.held /\ q.pads = k.pads
            /\ q.joystick = k.joystick /\ q.keymap = k.keymap /\ q.translate = k.translate
            /\ q.stray = c.stray /\ q.unicode = c.unicode
        BY <3>6, <3>7 DEF Matrixed, Keyboards
      <3>9. /\ r.held = k.held \union {code} /\ r.pads = k.pads /\ r.joystick = k.joystick
            /\ r.keymap = k.keymap /\ r.translate = k.translate /\ r.unicode = c.unicode
        BY <3>8 DEF Keyboards
      <3> HIDE DEF r
      <3>10. r.unicode[code] = u
        BY <1>1, <3>6, <3>9 DEF Keyboards
      <3>11. ClaimOf(r, code) = Point(k.keymap, new.dk_key)
                                \union (IF new.dk_mod = "SHIFT" THEN {DSCAN_SHIFT} ELSE {})
        BY <1>1, <2>1, <3>9, <3>10 DEF ClaimOf, new
      <3>12. code \in r.held \ r.joystick
        BY <1>1, <1>8, <3>9
      <3>13. ASSUME NEW x \in q.closed \ q.stray PROVE HeldBy(r, x)
        <4>1. CASE x \in ClaimOf(r, code)
          BY <3>12, <4>1 DEF HeldBy
        <4>2. CASE x \notin ClaimOf(r, code)
          <5>1. x \in k.closed /\ x # DSCAN_SHIFT
            BY <3>6, <3>7, <3>11, <3>13, <4>2
          <5>2. x \in k.closed \ k.stray
            BY <3>6, <3>8, <3>13, <5>1
          <5>3. HeldBy(k, x)
            BY <5>2 DEF KeysHeld
          <5>4. CASE \E d \in k.pads : x \in Point(k.keymap, d)
            BY <3>9, <5>4 DEF HeldBy
          <5>5. ASSUME NEW other \in k.held \ k.joystick, x \in ClaimOf(k, other)
                PROVE  HeldBy(r, x)
            <6>1. other # code
              <7>1. ASSUME other = code PROVE FALSE
                <8>1. ClaimOf(k, code) = Point(k.keymap, old.dk_key)
                                \union (IF old.dk_mod = "SHIFT" THEN {DSCAN_SHIFT} ELSE {})
                  BY <1>1, <2>1 DEF ClaimOf, old
                <8>2. x \in Point(k.keymap, old.dk_key)
                  BY <5>1, <5>5, <7>1, <8>1
                <8> QED
                  BY <3>6, <3>8, <3>13, <5>5, <7>1, <8>2
              <7> QED
                BY <7>1
            <6>2. r.unicode[other] = k.unicode[other]
              BY <3>6, <3>9, <6>1 DEF KeysHeld, Keyboards
            <6>3. x \in ClaimOf(r, other)
              BY <3>9, <5>5, <6>2, ClaimKept
            <6> QED
              BY <3>9, <5>5, <6>3 DEF HeldBy
          <5> QED
            BY <5>3, <5>4, <5>5 DEF HeldBy
        <4> QED
          BY <4>1, <4>2
      <3> QED
        BY <1>1, <3>8, <3>13
    <2>2. CASE ~(p.translate /\ code \notin code_preempt)
      <3>1. q = Close(p, code_to_dkey[code])
        BY <1>8, <2>2 DEF PressAs
      <3> HIDE DEF q
      <3>2. /\ q \in Keyboards /\ q = [p EXCEPT !.closed = q.closed]
            /\ q.closed = p.closed \union Point(p.keymap, code_to_dkey[code])
        BY <1>1, <3>1, CodeTyped, Closes
      <3>3. /\ q.state = p.state /\ q.held = k.held /\ q.pads = k.pads
            /\ q.joystick = k.joystick /\ q.keymap = k.keymap /\ q.translate = k.translate
            /\ q.stray = k.stray /\ q.unicode = k.unicode
        BY <1>1, <3>2 DEF Keyboards
      <3>4. /\ r.held = k.held \union {code} /\ r.pads = k.pads /\ r.joystick = k.joystick
            /\ r.keymap = k.keymap /\ r.translate = k.translate /\ r.unicode = k.unicode
        BY <3>2, <3>3 DEF Keyboards
      <3> HIDE DEF r
      <3>5. ClaimOf(r, code) = Point(k.keymap, code_to_dkey[code])
        BY <1>1, <2>2, <3>4 DEF ClaimOf
      <3>6. ASSUME NEW x \in q.closed \ q.stray PROVE HeldBy(r, x)
        <4>1. CASE x \in ClaimOf(r, code)
          BY <1>1, <1>8, <3>4, <4>1 DEF HeldBy
        <4>2. CASE x \notin ClaimOf(r, code)
          <5>1. HeldBy(k, x)
            BY <1>1, <3>2, <3>3, <3>5, <3>6, <4>2 DEF KeysHeld
          <5> QED
            BY <3>4, <5>1, ClaimKept DEF HeldBy
        <4> QED
          BY <4>1, <4>2
      <3> QED
        BY <1>1, <3>2, <3>3, <3>6
    <2> QED
      BY <2>1, <2>2
  <1> QED
    BY <1>6, <1>7, <1>8

(* A release: what it opens again is all that the key claimed, and SHIFT is left as the
   keys that are SHIFT have it. *)
LEMMA Releases ==
    ASSUME NEW k, KeysHeld(k), NEW code \in Scancodes
    PROVE  KeysHeld(ScanRelease(k, code))
  <1> DEFINE p == [k EXCEPT !.state = @ \ scancode_mod[code], !.marked = @ \ {code}]
             q == ReleaseAs(p, code)
             r == [q EXCEPT !.held = @ \ {code}]
             old == unicode_to_dkey[k.unicode[code]]
  <1>1. /\ p \in Keyboards /\ p.closed = k.closed /\ p.stray = k.stray /\ p.held = k.held
        /\ p.joystick = k.joystick /\ p.pads = k.pads /\ p.keymap = k.keymap
        /\ p.translate = k.translate /\ p.unicode = k.unicode
        /\ p.state = k.state \ scancode_mod[code]
    BY DEF KeysHeld, Keyboards
  <1>2. ScanRelease(k, code) = r
    BY DEF ScanRelease
  <1> HIDE DEF p
  <1>3. Shift(p) => code # "Shift_L" /\ "Shift_L" \in k.held
    BY <1>1, CodeTyped DEF Shift, KeysHeld
  <1>4. SUFFICES /\ Matrixed(p, q)
                 /\ q.closed \subseteq p.closed \union {DSCAN_SHIFT}
                 /\ DSCAN_SHIFT \in q.closed =>
                       \/ Shift(p)
                       \/ /\ DSCAN_SHIFT \in p.closed
                          /\ DSCAN_SHIFT \notin ClaimOf(k, code) \/ code \in k.joystick
                 /\ \/ code \in k.joystick
                    \/ \A x \in ClaimOf(k, code) \ {DSCAN_SHIFT} : x \notin q.closed
    <2> HIDE DEF q
    <2>1. /\ r \in Keyboards /\ r.closed = q.closed /\ r.held = k.held \ {code}
          /\ r.stray = k.stray /\ r.joystick = k.joystick /\ r.pads = k.pads
          /\ r.keymap = k.keymap /\ r.translate = k.translate /\ r.unicode = k.unicode
          /\ r.state = p.state
      BY <1>1, <1>4 DEF Matrixed, Keyboards
    <2> HIDE DEF r
    <2>2. ASSUME NEW other \in k.held \ k.joystick, other # code, NEW x \in ClaimOf(k, other)
          PROVE  HeldBy(r, x)
      BY <2>1, <2>2, ClaimKept DEF HeldBy
    <2>3. ASSUME NEW x \in q.closed \ k.stray PROVE HeldBy(r, x)
      <3>1. CASE x = DSCAN_SHIFT /\ Shift(p)
        <4>1. "Shift_L" \in k.held \ k.joystick /\ code # "Shift_L"
          BY <1>3, <3>1 DEF KeysHeld
        <4>2. ClaimOf(k, "Shift_L") = Point(k.keymap, DSCAN_SHIFT)
          BY DEF ClaimOf, code_preempt, code_to_dkey, Scancodes
        <4>3. x \in ClaimOf(k, "Shift_L")
          BY <3>1, <4>2, PointOfShift DEF KeysHeld, Keyboards
        <4> QED
          BY <2>2, <4>1, <4>3
      <3>2. CASE ~(x = DSCAN_SHIFT /\ Shift(p))
        <4>1. x \in k.closed \ k.stray
          BY <1>1, <1>4, <2>3, <3>2
        <4>2. code \in k.joystick \/ x \notin ClaimOf(k, code)
          BY <1>4, <2>3, <3>2
        <4>3. HeldBy(k, x)
          BY <4>1 DEF KeysHeld
        <4>4. CASE \E d \in k.pads : x \in Point(k.keymap, d)
          BY <2>1, <4>4 DEF HeldBy
        <4>5. ASSUME NEW other \in k.held \ k.joystick, x \in ClaimOf(k, other)
              PROVE  HeldBy(r, x)
          BY <2>2, <4>2, <4>5
        <4> QED
          BY <4>3, <4>4, <4>5 DEF HeldBy
      <3> QED
        BY <3>1, <3>2
    <2>4. Shift(r) => "Shift_L" \in r.held
      BY <1>3, <2>1 DEF Shift
    <2> QED
      BY <1>2, <2>1, <2>3, <2>4 DEF KeysHeld
  <1>5. CASE code \in p.joystick
    <2>1. q = p
      BY <1>5 DEF ReleaseAs
    <2> HIDE DEF q
    <2> QED
      BY <1>1, <1>5, <2>1 DEF Matrixed, Keyboards
  <1>6. CASE code \notin p.joystick /\ p.translate /\ code \notin code_preempt
    <2>1. q = ShiftBack(UnicodeRelease(p, p.unicode[code]))
      BY <1>6 DEF ReleaseAs
    <2>2. p.unicode[code] \in DOMAIN unicode_to_dkey
      BY <1>1 DEF Keyboards
    <2>3. ClaimOf(k, code) \subseteq Point(k.keymap, old.dk_key) \union {DSCAN_SHIFT}
      BY <1>1, <1>6 DEF ClaimOf
    <2> HIDE DEF q
    <2>4. /\ Matrixed(p, q)
          /\ q.closed \subseteq (p.closed \ Point(p.keymap, old.dk_key)) \union {DSCAN_SHIFT}
          /\ DSCAN_SHIFT \in q.closed => Shift(p)
      BY <1>1, <2>1, <2>2, UnicodeReleases
    <2> HIDE DEF old
    <2> QED
      BY <1>1, <2>3, <2>4
  <1>7. CASE code \notin p.joystick /\ ~(p.translate /\ code \notin code_preempt)
    <2>1. q = Open(p, code_to_dkey[code])
      BY <1>7 DEF ReleaseAs
    <2>2. ClaimOf(k, code) = Point(k.keymap, code_to_dkey[code])
      BY <1>1, <1>7 DEF ClaimOf
    <2> HIDE DEF q
    <2>3. Matrixed(p, q) /\ q.closed = p.closed \ Point(k.keymap, code_to_dkey[code])
      BY <1>1, <2>1, CodeTyped, Closes DEF Matrixed
    <2> QED
      BY <2>2, <2>3
  <1> QED
    BY <1>5, <1>6, <1>7

(* Keys that are open again are not stray. *)
LEMMA Settles ==
    ASSUME NEW k, KeysHeld(k), Settled(k)
    PROVE  KeysHeld(kb)'
  <1>1. kb' = [k EXCEPT !.stray = @ \intersect k.closed]
    BY DEF Settled
  <1>2. /\ kb' \in Keyboards /\ kb'.closed = k.closed /\ kb'.stray = k.stray \intersect k.closed
        /\ kb'.held = k.held /\ kb'.joystick = k.joystick /\ kb'.pads = k.pads
        /\ kb'.keymap = k.keymap /\ kb'.translate = k.translate /\ kb'.unicode = k.unicode
        /\ kb'.state = k.state
    BY <1>1 DEF KeysHeld, Keyboards
  <1>3. \A code \in Scancodes : ClaimOf(kb', code) = ClaimOf(k, code)
    BY <1>2 DEF ClaimOf
  <1>4. k.held \subseteq Scancodes
    BY DEF KeysHeld, Keyboards
  <1>5. ASSUME NEW x \in kb'.closed \ kb'.stray PROVE HeldBy(kb', x)
    <2>1. HeldBy(k, x)
      BY <1>2, <1>5 DEF KeysHeld
    <2> QED
      BY <1>2, <1>3, <1>4, <2>1 DEF HeldBy
  <1> QED
    BY <1>2, <1>5 DEF KeysHeld, Shift

(* When what keys mean changes, what is down is all stray, and nothing is claimed. *)
LEMMA StrayHeld ==
    ASSUME NEW k, KeysHeld(k), NEW r \in Keyboards, r.closed \subseteq r.stray,
           r.state = k.state, r.held = k.held, r.joystick \subseteq {"z"}
    PROVE  KeysHeld(r)
  BY DEF KeysHeld, Shift

LEMMA StickyHeld ==
    ASSUME NEW k, KeysHeld(k), NEW sticky \in BOOLEAN
    PROVE  KeysHeld([k EXCEPT !.sticky = sticky])
  <1> DEFINE r == [k EXCEPT !.sticky = sticky]
  <1>1. /\ r \in Keyboards /\ r.closed = k.closed /\ r.stray = k.stray
        /\ r.held = k.held /\ r.joystick = k.joystick /\ r.pads = k.pads
        /\ r.keymap = k.keymap /\ r.translate = k.translate /\ r.unicode = k.unicode
        /\ r.state = k.state
    BY DEF KeysHeld, Keyboards
  <1> HIDE DEF r
  <1>2. \A x : HeldBy(r, x) = HeldBy(k, x)
    BY <1>1, ClaimKept DEF HeldBy
  <1> QED
    BY <1>1, <1>2 DEF KeysHeld, Shift, r

LEMMA Unsticks ==
    ASSUME NEW k, KeysHeld(k)
    PROVE  KeysHeld(Unstick(k))
  <1>1. "Shift_L" \in Scancodes
    BY DEF Scancodes
  <1> QED
    BY <1>1, Releases, StickyHeld DEF Unstick

LEMMA FocusHeld ==
    ASSUME KeysHeld(kb), FocusIn
    PROVE  KeysHeld(kb)'
  <1>1. ASSUME NEW k, KeysHeld(k), NEW code \in Scancodes PROVE KeysHeld(LetGo(k, code))
    BY <1>1, Releases DEF LetGo
  <1> DEFINE a == LetGo(LetGo(kb, "z"), "semicolon")
             b == LetGo(LetGo(a, "Control_L"), "Shift_L")
             r == [b EXCEPT !.state = {}]
  <1>2. KeysHeld(a)
    BY <1>1 DEF Scancodes
  <1> HIDE DEF a
  <1>3. KeysHeld(b)
    BY <1>1, <1>2 DEF Scancodes
  <1>4. Settled(r)
    BY DEF FocusIn, a
  <1> HIDE DEF b
  <1>5. /\ r \in Keyboards /\ r.closed = b.closed /\ r.stray = b.stray
        /\ r.held = b.held /\ r.joystick = b.joystick /\ r.pads = b.pads
        /\ r.keymap = b.keymap /\ r.translate = b.translate /\ r.unicode = b.unicode
        /\ r.state = {}
    BY <1>3 DEF KeysHeld, Keyboards
  <1> HIDE DEF r
  <1>6. \A x : HeldBy(r, x) = HeldBy(b, x)
    BY <1>5, ClaimKept DEF HeldBy
  <1>7. KeysHeld(r)
    BY <1>3, <1>5, <1>6 DEF KeysHeld, Shift
  <1> QED
    BY <1>4, <1>7, Settles

LEMMA ScreenShiftHeld ==
    ASSUME KeysHeld(kb), ScreenShift
    PROVE  KeysHeld(kb)'
  <1> DEFINE s == IF kb.sticky THEN ScanRelease(kb, "Shift_L") ELSE ScanPress(kb, "Shift_L")
  <1>1. KeysHeld(s)
    BY Presses, Releases DEF Scancodes
  <1> HIDE DEF s
  <1>2. (~s.sticky) \in BOOLEAN
    OBVIOUS
  <1>3. KeysHeld([s EXCEPT !.sticky = ~s.sticky])
    BY <1>1, <1>2, StickyHeld
  <1>4. Settled([s EXCEPT !.sticky = ~@])
    BY DEF ScreenShift, s
  <1>5. [s EXCEPT !.sticky = ~@] = [s EXCEPT !.sticky = ~s.sticky]
    OBVIOUS
  <1> QED
    BY <1>3, <1>4, <1>5, Settles

LEMMA DkeyDownHeld ==
    ASSUME KeysHeld(kb), DkeyDown
    PROVE  KeysHeld(kb)'
  <1> DEFINE c == Close(kb, DSCAN_COLON)
             r == [c EXCEPT !.pads = {DSCAN_COLON}]
  <1>1. DSCAN_COLON \in 0..63
    BY DEF DSCAN_COLON
  <1>2. Settled(r)
    BY DEF DkeyDown
  <1>3. /\ c \in Keyboards /\ c = [kb EXCEPT !.closed = c.closed]
        /\ c.closed = kb.closed \union Point(kb.keymap, DSCAN_COLON)
    BY <1>1, Closes DEF KeysHeld
  <1> HIDE DEF c
  <1>4. /\ r \in Keyboards /\ r.closed = c.closed /\ r.stray = kb.stray
        /\ r.held = kb.held /\ r.joystick = kb.joystick /\ r.pads = {DSCAN_COLON}
        /\ r.keymap = kb.keymap /\ r.translate = kb.translate /\ r.unicode = kb.unicode
        /\ r.state = kb.state
    BY <1>3 DEF KeysHeld, Keyboards
  <1> HIDE DEF r
  <1>5. kb.pads \subseteq {DSCAN_COLON}
    BY DEF KeysHeld, Keyboards
  <1>6. ASSUME NEW x, HeldBy(kb, x) \/ x \in Point(kb.keymap, DSCAN_COLON) PROVE HeldBy(r, x)
    BY <1>4, <1>5, <1>6, ClaimKept DEF HeldBy
  <1>7. KeysHeld(r)
    BY <1>3, <1>4, <1>6 DEF KeysHeld, Shift
  <1> QED
    BY <1>2, <1>7, Settles

LEMMA DkeyUpHeld ==
    ASSUME KeysHeld(kb), DkeyUp
    PROVE  KeysHeld(kb)'
  <1> DEFINE c == Open(kb, DSCAN_COLON)
             r == [c EXCEPT !.pads = {}]
  <1>1. DSCAN_COLON \in 0..63
    BY DEF DSCAN_COLON
  <1>2. Settled(Unstick(r))
    BY DEF DkeyUp
  <1>3. /\ c \in Keyboards /\ c = [kb EXCEPT !.closed = c.closed]
        /\ c.closed = kb.closed \ Point(kb.keymap, DSCAN_COLON)
    BY <1>1, Closes DEF KeysHeld
  <1> HIDE DEF c
  <1>4. /\ r \in Keyboards /\ r.closed = c.closed /\ r.stray = kb.stray
        /\ r.held = kb.held /\ r.joystick = kb.joystick /\ r.pads = {}
        /\ r.keymap = kb.keymap /\ r.translate = kb.translate /\ r.unicode = kb.unicode
        /\ r.state = kb.state
    BY <1>3 DEF KeysHeld, Keyboards
  <1> HIDE DEF r
  <1>5. kb.pads \subseteq {DSCAN_COLON}
    BY DEF KeysHeld, Keyboards
  <1>6. ASSUME NEW x, HeldBy(kb, x), x \notin Point(kb.keymap, DSCAN_COLON) PROVE HeldBy(r, x)
    BY <1>4, <1>5, <1>6, ClaimKept DEF HeldBy
  <1>7. KeysHeld(r)
    BY <1>3, <1>4, <1>6 DEF KeysHeld, Shift
  <1> QED
    BY <1>2, <1>7, Unsticks, Settles

LEMMA SequenceHeld ==
    ASSUME KeysHeld(kb), NEW code \in {"z", "semicolon"}, NEW shifted \in BOOLEAN,
           SendKeySequence(code, shifted)
    PROVE  KeysHeld(kb)'
  <1> DEFINE s == IF shifted THEN ScanPress(kb, "Shift_L") ELSE kb
             fits == ScanRelease(ScanPress(s, code), code)
             r == IF shifted THEN ScanRelease(fits, "Shift_L") ELSE fits
  <1>1. code \in Scancodes /\ "Shift_L" \in Scancodes
    BY DEF Scancodes
  <1>2. KeysHeld(s)
    BY <1>1, Presses
  <1> HIDE DEF s
  <1>3. KeysHeld(fits)
    BY <1>1, <1>2, Presses, Releases
  <1> HIDE DEF fits
  <1>4. KeysHeld(r)
    BY <1>1, <1>3, Releases
  <1>5. Settled(r)
    BY DEF SendKeySequence, s, fits
  <1> QED
    BY <1>4, <1>5, Settles

LEMMA SwitchesHeld ==
    ASSUME KeysHeld(kb), SetTranslate \/ SetKeymap \/ SetJoystick \/ NewMatrix
    PROVE  KeysHeld(kb)'
  <1>1. /\ kb.switches + 1 \in 0..LastSwitch
        /\ kb.stray \union kb.closed \subseteq Points
    BY KeyboardAssumption DEF SetTranslate, SetKeymap, SetJoystick, NewMatrix, KeysHeld, Keyboards
  <1>2. CASE SetTranslate
    <2>1. KeysHeld(Translated(kb))
      BY <1>2, GoneAstray, StrayHeld DEF KeysHeld, SetTranslate
    <2> QED
      BY <1>2, <2>1, Settles DEF SetTranslate
  <1>3. CASE SetKeymap
    <2> DEFINE keymap == IF kb.keymap = "dragon" THEN "coco" ELSE "dragon"
               r == [kb EXCEPT !.keymap = keymap, !.stray = @ \union kb.closed,
                               !.switches = @ + 1]
    <2>1. NextKeymap(kb) = r
      BY DEF NextKeymap, Astray, KeysHeld, Keyboards
    <2>2. keymap \in {"dragon", "coco"}
      OBVIOUS
    <2> HIDE DEF keymap
    <2>3. /\ r \in Keyboards /\ r.closed \subseteq r.stray /\ r.state = kb.state
          /\ r.held = kb.held /\ r.joystick = kb.joystick
      BY <1>1, <2>2 DEF KeysHeld, Keyboards
    <2> HIDE DEF r
    <2>4. KeysHeld(r)
      BY <2>3, StrayHeld DEF KeysHeld
    <2> QED
      BY <1>3, <2>1, <2>4, Settles DEF SetKeymap
  <1>4. CASE SetJoystick
    <2> DEFINE joystick == IF kb.joystick = {} THEN {"z"} ELSE {}
               r == [kb EXCEPT !.joystick = joystick, !.stray = @ \union kb.closed,
                               !.switches = @ + 1]
    <2>1. Settled(r)
      BY <1>4 DEF SetJoystick, Astray, KeysHeld, Keyboards
    <2>2. joystick \subseteq {"z"} /\ {"z"} \subseteq Scancodes
      BY DEF Scancodes
    <2> HIDE DEF joystick
    <2>3. /\ r \in Keyboards /\ r.closed \subseteq r.stray /\ r.state = kb.state
          /\ r.held = kb.held /\ r.joystick \subseteq {"z"}
      BY <1>1, <2>2 DEF KeysHeld, Keyboards
    <2> HIDE DEF r
    <2>4. KeysHeld(r)
      BY <2>3, StrayHeld
    <2> QED
      BY <2>1, <2>4, Settles
  <1>5. CASE NewMatrix
    <2> DEFINE r == [kb EXCEPT !.closed = {}, !.keymap = "dragon", !.stray = @ \union kb.closed,
                               !.switches = @ + 1]
    <2>1. Settled(r)
      BY <1>5 DEF NewMatrix, Astray, KeysHeld, Keyboards
    <2>2. /\ r \in Keyboards /\ r.closed \subseteq r.stray /\ r.state = kb.state
          /\ r.held = kb.held /\ r.joystick = kb.joystick
      BY <1>1 DEF KeysHeld, Keyboards
    <2> HIDE DEF r
    <2>3. KeysHeld(r)
      BY <2>2, StrayHeld DEF KeysHeld
    <2> QED
      BY <2>1, <2>3, Settles
  <1> QED
    BY <1>2, <1>3, <1>4, <1>5

LEMMA UpdateHeld ==
    ASSUME KeysHeld(kb), UpdateKeymap
    PROVE  KeysHeld(kb)'
  <1> DEFINE r == [kb EXCEPT !.marked = {}, !.switches = @ + 1]
  <1>1. /\ r \in Keyboards /\ r.closed = kb.closed /\ r.stray = kb.stray
        /\ r.held = kb.held /\ r.joystick = kb.joystick /\ r.pads = kb.pads
        /\ r.keymap = kb.keymap /\ r.translate = kb.translate /\ r.unicode = kb.unicode
        /\ r.state = kb.state
    <2>1. kb.switches + 1 \in 0..LastSwitch
      BY KeyboardAssumption DEF UpdateKeymap, KeysHeld, Keyboards
    <2> QED
      BY <2>1 DEF KeysHeld, Keyboards
  <1>2. Settled(r)
    BY DEF UpdateKeymap
  <1> HIDE DEF r
  <1>3. \A x : HeldBy(r, x) = HeldBy(kb, x)
    BY <1>1, ClaimKept DEF HeldBy
  <1>4. KeysHeld(r)
    BY <1>1, <1>3 DEF KeysHeld, Shift
  <1> QED
    BY <1>2, <1>4, Settles

(* Of whatever is down a held key will let go, through any number of changes of what
   keys mean. *)
THEOREM KeysAreHeld == KeyboardSpec => []KeysHeld(kb)
  <1>1. KeyboardInit => KeysHeld(kb)
    <2> SUFFICES ASSUME KeyboardInit PROVE KeysHeld(kb)
      OBVIOUS
    <2>1. "none" \in DOMAIN unicode_to_dkey
      BY Zenon DEF unicode_to_dkey
    <2>2. [c \in Scancodes |-> "none"] \in [Scancodes -> DOMAIN unicode_to_dkey]
      BY <2>1
    <2>3. 0 \in 0..LastSwitch
      BY KeyboardAssumption
    <2>4. kb \in Keyboards
      BY <2>2, <2>3 DEF KeyboardInit, Keyboards
    <2> QED
      BY <2>4 DEF KeyboardInit, KeysHeld, Shift
  <1>2. ASSUME KeysHeld(kb), [KeyboardNext]_kb
        PROVE  KeysHeld(kb)'
    <2>1. ASSUME NEW code \in Scancodes, KeyDown(code) \/ KeyUp(code)
          PROVE  KeysHeld(kb)'
      BY <1>2, <2>1, Presses, Releases, Settles DEF KeyDown, KeyUp
    <2>2. ASSUME NEW code \in {"z", "semicolon"}, ScreenKeyUp(code)
          PROVE  KeysHeld(kb)'
      <3>1. code \in Scancodes
        BY DEF Scancodes
      <3> QED
        BY <1>2, <2>2, <3>1, Releases, Unsticks, Settles DEF ScreenKeyUp
    <2>3. CASE UNCHANGED kb
      BY <1>2, <2>3
    <2> QED
      BY <1>2, <2>1, <2>2, <2>3, FocusHeld, ScreenShiftHeld, DkeyDownHeld, DkeyUpHeld,
         SequenceHeld, SwitchesHeld, UpdateHeld DEF KeyboardNext
  <1> QED
    BY <1>1, <1>2, PTL DEF KeyboardSpec

(* No key of the Dragon stays down by itself: whatever presses, repeats, lost and made up
   releases, modifiers, text from the page and sticky keys come between, what is down
   and not stray is what a held key will let go of as it is released: for any number of
   changes of what keys mean. *)
THEOREM KeysAreLetGo == KeyboardSpec => []KeysLetGo
  <1>1. KeysHeld(kb) => KeysLetGo
    <2> SUFFICES ASSUME KeysHeld(kb) PROVE KeysLetGo
      OBVIOUS
    <2>1. ASSUME NEW x, HeldBy(kb, x) PROVE x \in Claimed
      <3>1. ASSUME NEW code \in kb.held, x \in ClaimOf(kb, code) PROVE x \in Claimed
        <4>1. ClaimOf(kb, code) \in {ClaimOf(kb, c) : c \in kb.held}
          OBVIOUS
        <4>2. x \in UNION {ClaimOf(kb, c) : c \in kb.held}
          BY <3>1, <4>1
        <4> QED
          BY <4>2 DEF Claimed
      <3>2. ASSUME NEW d \in kb.pads, x \in Point(kb.keymap, d) PROVE x \in Claimed
        <4>1. Point(kb.keymap, d) \in {Point(kb.keymap, e) : e \in kb.pads}
          OBVIOUS
        <4>2. x \in UNION {Point(kb.keymap, e) : e \in kb.pads}
          BY <3>2, <4>1
        <4> QED
          BY <4>2 DEF Claimed
      <3> QED
        BY <2>1, <3>1, <3>2 DEF HeldBy
    <2> QED
      BY <2>1 DEF KeysHeld, KeysLetGo, KeyboardOK
  <1> QED
    BY <1>1, KeysAreHeld, PTL

-----------------------------------------------------------------------------
(* What is folded over a sequence *)

\* A set of numbers with 0 in it and, with each number, the next, has them all: what
\* holds of a set of numbers is proved by it of all numbers.
LEMMA AllNumbers ==
    ASSUME NEW S \in SUBSET Nat, 0 \in S, \A n \in S : n + 1 \in S
    PROVE  S = Nat
  <1> DEFINE R == {ss \in Nat \X Nat : ss[1] < ss[2]}
             T == Nat \ S
  <1>1. IsWellFoundedOn(R, Nat)
    BY NatLessThanWellFounded DEF OpToRel
  <1> HIDE DEF R
  <1>2. SUFFICES ASSUME T # {} PROVE FALSE
    OBVIOUS
  <1>3. PICK x \in T : \A y \in T : ~ (<<y, x>> \in R)
    BY <1>1, <1>2, WFMin
  <1>4. x # 0 /\ x - 1 \in Nat /\ x - 1 < x
    OBVIOUS
  <1>5. <<x - 1, x>> \in R
    BY <1>4 DEF R
  <1>6. x - 1 \in S
    BY <1>3, <1>4, <1>5
  <1> QED
    BY <1>4, <1>6

LEMMA AsSeq ==
    ASSUME NEW S, NEW n \in Nat, NEW x \in [1..n -> S]
    PROVE  x \in Seq(S) /\ Len(x) = n
  OBVIOUS

\* The provers find it easier when they do not see what it is.
Together(a, b) == a \o b

LEMMA TogetherIs ==
    ASSUME NEW S, NEW a \in Seq(S), NEW b \in Seq(S)
    PROVE  /\ Together(a, b) \in Seq(S) /\ Len(Together(a, b)) = Len(a) + Len(b)
           /\ \A i \in 1..(Len(a) + Len(b)) :
                 Together(a, b)[i] = IF i <= Len(a) THEN a[i] ELSE b[i - Len(a)]
  BY ConcatProperties DEF Together

LEMMA InAnyOrder ==
    ASSUME NEW S, NEW a \in Seq(S), NEW b \in Seq(S), NEW c \in Seq(S)
    PROVE  Together(Together(a, b), c) = Together(a, Together(b, c))
  BY DEF Together

\* f has what the first sequences of s are together.
Flats(s, f, S) ==
    /\ f \in [0..Len(s) -> Seq(S)] /\ f[0] = <<>>
    /\ \A i \in 1..Len(s) : f[i] = f[i - 1] \o s[i]

LEMMA FlatsExists ==
    ASSUME NEW S, NEW s \in Seq(Seq(S))
    PROVE  \E f : Flats(s, f, S)
  <1> DEFINE P(n) == \E f \in [0..n -> Seq(S)] :
                        f[0] = <<>> /\ \A i \in 1..n : f[i] = f[i - 1] \o s[i]
             N == {n \in Nat : n <= Len(s) => P(n)}
  <1>0. Len(s) \in Nat
    OBVIOUS
  <1>1. P(0)
    <2> DEFINE f == [i \in 0..0 |-> <<>>]
    <2>1. f \in [0..0 -> Seq(S)] /\ f[0] = <<>>
      OBVIOUS
    <2>2. \A i \in 1..0 : f[i] = f[i - 1] \o s[i]
      OBVIOUS
    <2> HIDE DEF f
    <2> QED
      BY <2>1, <2>2
  <1>2. ASSUME NEW n \in Nat, n + 1 <= Len(s), P(n)
        PROVE  P(n + 1)
    <2>1. PICK f \in [0..n -> Seq(S)] :
             f[0] = <<>> /\ \A i \in 1..n : f[i] = f[i - 1] \o s[i]
      BY <1>2
    <2>2. s[n + 1] \in Seq(S)
      BY <1>0, <1>2
    <2> DEFINE g == [i \in 0..(n + 1) |-> IF i = n + 1 THEN f[n] \o s[n + 1] ELSE f[i]]
    <2>3. f[n] \o s[n + 1] \in Seq(S)
      BY <2>1, <2>2, ConcatProperties
    <2>4. g \in [0..(n + 1) -> Seq(S)]
      BY <2>1, <2>3
    <2>5. g[0] = <<>>
      BY <2>1
    <2>6. ASSUME NEW i \in 1..(n + 1) PROVE g[i] = g[i - 1] \o s[i]
      <3>1. i \in 0..(n + 1) /\ i - 1 \in 0..n /\ i - 1 \in 0..(n + 1) /\ i - 1 # n + 1
        OBVIOUS
      <3>2. g[i - 1] = f[i - 1]
        BY <3>1
      <3>3. CASE i = n + 1
        BY <3>1, <3>2, <3>3
      <3>4. CASE i # n + 1
        <4>1. i \in 1..n /\ g[i] = f[i]
          BY <3>1, <3>4
        <4> HIDE DEF g
        <4> QED
          BY <2>1, <3>2, <4>1
      <3> QED
        BY <3>3, <3>4
    <2> QED
      BY <2>4, <2>5, <2>6
  <1> HIDE DEF P
  <1>3. N = Nat
    <2>1. 0 \in N
      BY <1>1
    <2>2. \A n \in N : n + 1 \in N
      BY <1>0, <1>2
    <2> HIDE DEF N
    <2> QED
      BY <2>1, <2>2, AllNumbers DEF N
  <1>4. P(Len(s))
    BY <1>0, <1>3
  <1> QED
    BY <1>4 DEF P, Flats

LEMMA FlatsUnique ==
    ASSUME NEW S, NEW s \in Seq(Seq(S)), NEW f, Flats(s, f, S), NEW g, Flats(s, g, S)
    PROVE  f[Len(s)] = g[Len(s)]
  <1> DEFINE N == {n \in Nat : n <= Len(s) => f[n] = g[n]}
  <1>0. Len(s) \in Nat
    OBVIOUS
  <1>1. 0 \in N
    BY DEF Flats
  <1>2. ASSUME NEW n \in N, n + 1 <= Len(s) PROVE f[n + 1] = g[n + 1]
    <2>1. n + 1 \in 1..Len(s) /\ (n + 1) - 1 = n /\ n <= Len(s)
      BY <1>0, <1>2
    <2>2. f[n + 1] = f[n] \o s[n + 1] /\ g[n + 1] = g[n] \o s[n + 1]
      BY <2>1 DEF Flats
    <2> QED
      BY <2>1, <2>2
  <1>3. \A n \in N : n + 1 \in N
    BY <1>0, <1>2
  <1> HIDE DEF N
  <1>4. N = Nat
    BY <1>1, <1>3, AllNumbers DEF N
  <1> QED
    BY <1>0, <1>4 DEF N

LEMMA FlattenIs ==
    ASSUME NEW S, NEW s \in Seq(Seq(S)), NEW f, Flats(s, f, S)
    PROVE  FlattenSeq(s) = f[Len(s)] /\ FlattenSeq(s) \in Seq(S)
  <1>0. Len(s) \in Nat
    OBVIOUS
  <1>1. CASE Len(s) = 0
    <2>1. s = <<>>
      BY <1>1, EmptySeq
    <2> QED
      BY <1>1, <2>1 DEF FlattenSeq, Flats
  <1>2. CASE Len(s) # 0
    <2> DEFINE g == [i \in 1..Len(s) |-> f[i]]
    <2>1. g = [i \in 1..Len(s) |-> IF i = 1 THEN s[i] ELSE g[i - 1] \o s[i]]
      <3>1. ASSUME NEW i \in 1..Len(s)
            PROVE  g[i] = IF i = 1 THEN s[i] ELSE g[i - 1] \o s[i]
        <4>1. f[i] = f[i - 1] \o s[i] /\ f[0] = <<>>
          BY DEF Flats
        <4>4. s[i] \in Seq(S)
          BY <1>0
        <4>5. g[i] = f[i]
          OBVIOUS
        <4>2. CASE i = 1
          <5>0. i - 1 = 0
            BY <4>2
          <5>1. f[i] = f[0] \o s[i]
            BY <4>1, <5>0
          <5>2. f[i] = s[i]
            BY <4>1, <4>4, <5>1, ConcatEmptySeq
          <5> QED
            BY <4>2, <4>5, <5>2
        <4>3. CASE i # 1
          <5>1. i - 1 \in 1..Len(s)
            BY <1>0, <4>3
          <5>2. g[i - 1] = f[i - 1]
            BY <5>1
          <5> HIDE DEF g
          <5> QED
            BY <4>1, <4>3, <4>5, <5>2
        <4> QED
          BY <4>2, <4>3
      <3> QED
        BY <3>1
    <2> HIDE DEF g
    <2>2. PICK h : /\ h = [i \in 1..Len(s) |-> IF i = 1 THEN s[i] ELSE h[i - 1] \o s[i]]
                   /\ FlattenSeq(s) = h[Len(s)]
      BY <1>2, <2>1 DEF FlattenSeq
    <2> DEFINE N == {n \in Nat : n \in 1..Len(s) => h[n] = f[n]}
    <2>3. 0 \in N
      OBVIOUS
    <2>4. ASSUME NEW n \in N, n + 1 \in 1..Len(s) PROVE h[n + 1] = f[n + 1]
      <3>1. f[n + 1] = f[n] \o s[n + 1] /\ f[0] = <<>>
        <4>1. (n + 1) - 1 = n
          OBVIOUS
        <4> QED
          BY <2>4, <4>1 DEF Flats
      <3>5. s[n + 1] \in Seq(S)
        BY <1>0, <2>4
      <3>2. h[n + 1] = IF n + 1 = 1 THEN s[n + 1] ELSE h[(n + 1) - 1] \o s[n + 1]
        BY <2>2, <2>4
      <3>3. CASE n = 0
        <4>1. f[n + 1] = <<>> \o s[n + 1]
          BY <3>1, <3>3
        <4>2. h[n + 1] = s[n + 1]
          BY <3>2, <3>3
        <4> QED
          BY <3>5, <4>1, <4>2, ConcatEmptySeq
      <3>4. CASE n # 0
        <4>1. n \in 1..Len(s) /\ (n + 1) - 1 = n
          BY <1>0, <2>4, <3>4
        <4>2. h[n] = f[n]
          BY <4>1
        <4>3. n + 1 # 1
          BY <3>4
        <4>4. h[n + 1] = h[n] \o s[n + 1]
          BY <3>2, <4>1, <4>3
        <4> QED
          BY <3>1, <4>2, <4>4
      <3> QED
        BY <3>3, <3>4
    <2>5. \A n \in N : n + 1 \in N
      BY <2>4
    <2> HIDE DEF N
    <2>6. N = Nat
      BY <2>3, <2>5, AllNumbers DEF N
    <2>7. h[Len(s)] = f[Len(s)]
      BY <1>0, <1>2, <2>6 DEF N
    <2>8. f[Len(s)] \in Seq(S)
      BY <1>0 DEF Flats
    <2> QED
      BY <2>2, <2>7, <2>8
  <1> QED
    BY <1>1, <1>2

LEMMA FlattenTyped ==
    ASSUME NEW S, NEW s \in Seq(Seq(S))
    PROVE  FlattenSeq(s) \in Seq(S)
  BY FlatsExists, FlattenIs

LEMMA FlattenAppend ==
    ASSUME NEW S, NEW s \in Seq(Seq(S)), NEW e \in Seq(S)
    PROVE  FlattenSeq(Append(s, e)) = FlattenSeq(s) \o e
  <1> DEFINE t == Append(s, e)
  <1>1. t \in Seq(Seq(S)) /\ Len(t) = Len(s) + 1 /\ Len(s) \in Nat
    BY AppendProperties
  <1>2. \A i \in 1..Len(s) : t[i] = s[i]
    BY AppendProperties
  <1>3. t[Len(s) + 1] = e
    BY AppendProperties
  <1> HIDE DEF t
  <1>4. PICK f : Flats(t, f, S)
    BY <1>1, FlatsExists
  <1> DEFINE g == [i \in 0..Len(s) |-> f[i]]
  <1>5. g \in [0..Len(s) -> Seq(S)] /\ g[0] = <<>> /\ g[Len(s)] = f[Len(s)]
    BY <1>1, <1>4 DEF Flats
  <1>6. ASSUME NEW i \in 1..Len(s) PROVE g[i] = g[i - 1] \o s[i]
    <2>1. i \in 0..Len(s) /\ i - 1 \in 0..Len(s) /\ i \in 1..Len(t)
      BY <1>1
    <2>2. f[i] = f[i - 1] \o t[i]
      BY <1>4, <2>1 DEF Flats
    <2> QED
      BY <1>2, <2>1, <2>2
  <1> HIDE DEF g
  <1>7. FlattenSeq(s) = g[Len(s)]
    BY <1>5, <1>6, FlattenIs DEF Flats
  <1>8. FlattenSeq(t) = f[Len(s) + 1]
    BY <1>1, <1>4, FlattenIs
  <1>9. f[Len(s) + 1] = f[Len(s)] \o e
    <2>1. Len(s) + 1 \in 1..Len(t) /\ (Len(s) + 1) - 1 = Len(s)
      BY <1>1
    <2> QED
      BY <1>3, <1>4, <2>1 DEF Flats
  <1> QED
    BY <1>5, <1>7, <1>8, <1>9 DEF t

LEMMA FlattenHead ==
    ASSUME NEW S, NEW s \in Seq(Seq(S)), s # <<>>
    PROVE  FlattenSeq(s) = Head(s) \o FlattenSeq(Tail(s))
  <1> DEFINE t == Tail(s)
  <1>1. /\ t \in Seq(Seq(S)) /\ Len(s) = Len(t) + 1 /\ Len(t) \in Nat
        /\ \A i \in 1..Len(t) : t[i] = s[i + 1] /\ t[i] \in Seq(S)
        /\ Head(s) = s[1] /\ s[1] \in Seq(S)
    BY HeadTailProperties
  <1> HIDE DEF t
  <1>2. PICK g : Flats(t, g, S)
    BY <1>1, FlatsExists
  <1> DEFINE f == [i \in 0..Len(s) |-> IF i = 0 THEN <<>> ELSE s[1] \o g[i - 1]]
  <1>3. \A i \in 0..Len(t) : g[i] \in Seq(S)
    BY <1>2 DEF Flats
  <1>4. f \in [0..Len(s) -> Seq(S)]
    <2>1. ASSUME NEW i \in 0..Len(s), i # 0 PROVE s[1] \o g[i - 1] \in Seq(S)
      <3>1. i - 1 \in 0..Len(t)
        BY <1>1, <2>1
      <3> QED
        BY <1>1, <1>3, <3>1, ConcatProperties
    <2> QED
      BY <2>1
  <1>5. f[0] = <<>>
    BY <1>1
  <1>6. ASSUME NEW i \in 1..Len(s) PROVE f[i] = f[i - 1] \o s[i]
    <2>1. i \in 0..Len(s) /\ i - 1 \in 0..Len(s) /\ i # 0
      BY <1>1
    <2>2. f[i] = s[1] \o g[i - 1]
      BY <2>1
    <2>3. CASE i = 1
      <3>1. f[i - 1] = <<>> /\ g[i - 1] = <<>>
        BY <1>2, <1>5, <2>3 DEF Flats
      <3> QED
        BY <1>1, <2>2, <2>3, <3>1, ConcatEmptySeq
    <2>4. CASE i # 1
      <3>1. i - 1 \in 1..Len(t) /\ i - 2 \in 0..Len(t) /\ (i - 1) - 1 = i - 2 /\ (i - 1) + 1 = i
        BY <1>1, <2>4
      <3>2. g[i - 1] = g[i - 2] \o t[i - 1] /\ t[i - 1] = s[i]
        BY <1>1, <1>2, <3>1 DEF Flats
      <3>3. f[i - 1] = s[1] \o g[i - 2]
        <4>1. f[i - 1] = IF i - 1 = 0 THEN <<>> ELSE s[1] \o g[(i - 1) - 1]
          BY <2>1
        <4>2. i - 1 # 0 /\ (i - 1) - 1 = i - 2
          BY <2>4, <3>1
        <4> HIDE DEF f
        <4> QED
          BY <4>1, <4>2
      <3>4. g[i - 2] \in Seq(S) /\ s[i] \in Seq(S) /\ s[1] \in Seq(S)
        BY <1>1, <1>3, <3>1, <3>2
      <3> HIDE DEF f
      <3>5. (s[1] \o g[i - 2]) \o s[i] = s[1] \o (g[i - 2] \o s[i])
        <4>1. Together(Together(s[1], g[i - 2]), s[i]) = Together(s[1], Together(g[i - 2], s[i]))
          BY <3>4, InAnyOrder
        <4> QED
          BY <4>1 DEF Together
      <3> QED
        BY <2>2, <3>2, <3>3, <3>5
    <2> QED
      BY <2>3, <2>4
  <1>7. f[Len(s)] = s[1] \o g[Len(t)]
    <2>1. Len(s) \in 0..Len(s) /\ Len(s) # 0 /\ Len(s) - 1 = Len(t)
      BY <1>1
    <2> QED
      BY <2>1
  <1> HIDE DEF f
  <1>8. FlattenSeq(s) = f[Len(s)]
    BY <1>4, <1>5, <1>6, FlattenIs DEF Flats
  <1>9. FlattenSeq(t) = g[Len(t)]
    BY <1>1, <1>2, FlattenIs
  <1> QED
    BY <1>1, <1>7, <1>8, <1>9 DEF t

-----------------------------------------------------------------------------
(* The tape *)

DeckWell(s) ==
    /\ s \in Decks
    /\ s.left > 0 => s.input # "none"
    /\ (s.bit_count # 0 /\ ~(s.output /\ s.tape_rewrite)) \/ s.spins => s.split

DeckTurns(s) ==
    /\ s.waggle => Turns(s)
    /\ Turns(s) /\ s.left > 0 => s.waggle
    /\ Turns(s) /\ s.output => s.flush
    /\ ~Turns(s) => s.bps = {}
    /\ Turns(s) /\ s.input # "none" => s.bps = Wanted(s)
    /\ "rewrite" \in s.bps => s.tape_rewrite

DeckSteady(s) == DeckWell(s) /\ DeckTurns(s) /\ s.shown = s.playing

\* The tape's handlers find it so and leave it so.
LEMMA BreakpointsWell ==
    ASSUME NEW s \in Decks
    PROVE  /\ SetBreakpoints(s) \in Decks
           /\ DeckWell(s) => DeckWell(SetBreakpoints(s))
           /\ \E b \in SUBSET Intercepts : SetBreakpoints(s) = [s EXCEPT !.bps = b]
           /\ ~Turns(s) => SetBreakpoints(s).bps = {}
           /\ Turns(s) /\ s.input # "none" => SetBreakpoints(s).bps = Wanted(s)
           /\ "rewrite" \in SetBreakpoints(s).bps => s.tape_rewrite
  <1> DEFINE b == IF Turns(s) /\ s.input # "none" THEN Wanted(s) ELSE {}
  <1>1. b \in SUBSET Intercepts
    BY DEF Wanted, Intercepts
  <1>2. "rewrite" \in b => s.tape_rewrite
    BY DEF Wanted
  <1>3. SetBreakpoints(s) = [s EXCEPT !.bps = b]
    BY DEF SetBreakpoints
  <1>4. ~Turns(s) => b = {}
    OBVIOUS
  <1>5. Turns(s) /\ s.input # "none" => b = Wanted(s)
    OBVIOUS
  <1> HIDE DEF b
  <1>6. [s EXCEPT !.bps = b] \in Decks /\ [s EXCEPT !.bps = b].bps = b
    BY <1>1 DEF Decks
  <1>7. DeckWell(s) => DeckWell([s EXCEPT !.bps = b])
    BY <1>6 DEF DeckWell, Decks
  <1> QED
    BY <1>1, <1>2, <1>3, <1>4, <1>5, <1>6, <1>7

LEMMA DesyncWell ==
    ASSUME NEW s, DeckWell(s)
    PROVE  /\ DeckWell(RewriteTapeDesync(s))
           /\ DeckSteady(s) => DeckSteady(RewriteTapeDesync(s))
           /\ \A f \in {"machine", "motor", "playing", "shown", "input", "left", "output",
                        "tape_rewrite", "waggle", "flush"} :
                 RewriteTapeDesync(s)[f] = s[f]
           /\ s.output => RewriteTapeDesync(s).bit_count = 0
  <1>0. 0 \in 0..(BitsPerByte - 1)
    BY TapeAssumption
  <1>1. CASE s.bit_count # 0 /\ ~s.output
    <2> DEFINE t == [s EXCEPT !.spins = TRUE]
    <2>1. RewriteTapeDesync(s) = t
      BY <1>1 DEF RewriteTapeDesync
    <2>2. t \in Decks
      BY DEF DeckWell, Decks
    <2>3. DeckWell(t)
      BY <1>1, <2>2 DEF DeckWell, Decks
    <2>4. DeckSteady(s) => DeckSteady(t)
      BY <2>3 DEF DeckSteady, DeckTurns, Turns, Wanted, DeckWell, Decks
    <2>5. \A f \in {"machine", "motor", "playing", "shown", "input", "left", "output",
                    "tape_rewrite", "waggle", "flush"} : t[f] = s[f]
      BY DEF DeckWell, Decks
    <2> QED
      BY <1>1, <2>1, <2>3, <2>4, <2>5
  <1>2. CASE ~(s.bit_count # 0 /\ ~s.output)
    <2> DEFINE t == [s EXCEPT !.bit_count = 0, !.have_sync = FALSE]
    <2>1. RewriteTapeDesync(s) = t
      BY <1>2 DEF RewriteTapeDesync
    <2>2. t \in Decks
      BY <1>0 DEF DeckWell, Decks
    <2>3. DeckWell(t)
      BY <1>2, <2>2 DEF DeckWell, Decks
    <2>4. DeckSteady(s) => DeckSteady(t)
      BY <2>3 DEF DeckSteady, DeckTurns, Turns, Wanted, DeckWell, Decks
    <2>5. \A f \in {"machine", "motor", "playing", "shown", "input", "left", "output",
                    "tape_rewrite", "waggle", "flush"} : t[f] = s[f]
      BY DEF DeckWell, Decks
    <2>6. t.bit_count = 0
      BY DEF DeckWell, Decks
    <2> QED
      BY <2>1, <2>3, <2>4, <2>5, <2>6
  <1> QED
    BY <1>1, <1>2

LEMMA StoppedWell ==
    ASSUME NEW s, DeckWell(s)
    PROVE  /\ DeckWell(Stopped(s))
           /\ ~Stopped(s).waggle
           /\ \A f \in {"machine", "motor", "playing", "shown", "input", "left", "output",
                        "tape_rewrite"} : Stopped(s)[f] = s[f]
  <1> DEFINE t == [s EXCEPT !.waggle = FALSE, !.flush = FALSE]
  <1>1. t \in Decks
    BY DEF DeckWell, Decks
  <1>2. DeckWell(t)
    BY <1>1 DEF DeckWell, Decks
  <1>3. /\ ~t.waggle
        /\ \A f \in {"machine", "motor", "playing", "shown", "input", "left", "output",
                     "tape_rewrite"} : t[f] = s[f]
    BY DEF DeckWell, Decks
  <1>4. Stopped(s) = IF s.tape_rewrite THEN RewriteTapeDesync(t) ELSE t
    BY DEF Stopped
  <1> HIDE DEF t
  <1>5. ~RewriteTapeDesync(t).waggle
    BY <1>2, <1>3, DesyncWell
  <1>6. \A f \in {"machine", "motor", "playing", "shown", "input", "left", "output",
                  "tape_rewrite"} : RewriteTapeDesync(t)[f] = s[f]
    BY <1>2, <1>3, DesyncWell
  <1> QED
    BY <1>2, <1>3, <1>4, <1>5, <1>6, DesyncWell

LEMMA PausedWell ==
    ASSUME NEW s, DeckWell(s)
    PROVE  /\ DeckWell(Paused(s))
           /\ ~Paused(s).waggle /\ ~Paused(s).playing /\ ~Paused(s).shown
           /\ Paused(s).bps = {}
           /\ \A f \in {"machine", "motor", "input", "left", "output", "tape_rewrite"} :
                 Paused(s)[f] = s[f]
  <1> DEFINE q == [s EXCEPT !.playing = FALSE]
  <1>1. q \in Decks
    BY DEF DeckWell, Decks
  <1>2. DeckWell(q)
    BY <1>1 DEF DeckWell, Decks
  <1>3. /\ ~q.playing
        /\ \A f \in {"machine", "motor", "input", "left", "output", "tape_rewrite"} :
              q[f] = s[f]
    BY DEF DeckWell, Decks
  <1> DEFINE t == Stopped(q)
  <1>4. Paused(s) = [SetBreakpoints(t) EXCEPT !.shown = FALSE]
    BY DEF Paused
  <1> HIDE DEF q
  <1>5. /\ DeckWell(t) /\ ~t.waggle /\ ~t.playing
        /\ \A f \in {"machine", "motor", "input", "left", "output", "tape_rewrite"} :
              t[f] = s[f]
    BY <1>2, <1>3, StoppedWell
  <1> HIDE DEF t
  <1>6. PICK b \in SUBSET Intercepts : SetBreakpoints(t) = [t EXCEPT !.bps = b]
    BY <1>5, BreakpointsWell DEF DeckWell
  <1>7. SetBreakpoints(t).bps = {} /\ DeckWell(SetBreakpoints(t))
    BY <1>5, BreakpointsWell DEF DeckWell, Turns
  <1> DEFINE u == SetBreakpoints(t)
  <1>8. /\ ~u.waggle /\ ~u.playing
        /\ \A f \in {"machine", "motor", "input", "left", "output", "tape_rewrite"} :
              u[f] = s[f]
    BY <1>5, <1>6 DEF DeckWell, Decks
  <1> HIDE DEF u
  <1>9. [u EXCEPT !.shown = FALSE] \in Decks
    BY <1>7 DEF DeckWell, Decks, u
  <1>10. DeckWell([u EXCEPT !.shown = FALSE])
    BY <1>7, <1>9 DEF DeckWell, Decks, u
  <1>11. \A f \in {"waggle", "playing", "bps", "machine", "motor", "input", "left", "output",
                   "tape_rewrite"} : [u EXCEPT !.shown = FALSE][f] = u[f]
    BY <1>7 DEF DeckWell, Decks, u
  <1>12. [u EXCEPT !.shown = FALSE].shown = FALSE
    BY <1>7 DEF DeckWell, Decks, u
  <1> QED
    BY <1>4, <1>7, <1>8, <1>10, <1>11, <1>12 DEF u
LEMMA WaggleWell ==
    ASSUME NEW s, DeckWell(s), NEW sending \in BOOLEAN
    PROVE  LET t == WaggleBit(s, sending)
           IN  /\ DeckWell(t)
               /\ s.shown = s.playing => t.shown = t.playing
               /\ sending => t.playing = s.playing /\ t.shown = s.shown
               /\ t.output = s.output /\ t.motor = s.motor /\ t.input = s.input
               /\ t.waggle => t.playing = s.playing
               /\ t.left > 0 /\ Turns(t) => t.waggle
  <1> DEFINE t == WaggleBit(s, sending)
             ended == [s EXCEPT !.waggle = FALSE]
  <1>1. CASE s.input # "none" /\ s.left > 0
    <2> DEFINE u == [s EXCEPT !.left = @ - 1, !.waggle = TRUE]
    <2>1. t = u
      BY <1>1 DEF WaggleBit
    <2>2. s.left - 1 \in 0..Pulses
      BY <1>1, TapeAssumption DEF DeckWell, Decks
    <2>9. u \in Decks
      BY <2>2 DEF DeckWell, Decks
    <2>3. /\ u.waggle /\ u.input # "none"
          /\ \A f \in {"playing", "shown", "input", "motor", "output", "tape_rewrite", "bit_count",
                       "spins", "split"} : u[f] = s[f]
      BY <1>1 DEF DeckWell, Decks
    <2> HIDE DEF u, t
    <2>4. DeckWell(u)
      BY <2>9, <2>3 DEF DeckWell
    <2> QED
      BY <2>1, <2>3, <2>4 DEF t
  <1>2. CASE ~(s.input # "none" /\ s.left > 0)
    <2>1. ended \in Decks
      BY DEF DeckWell, Decks
    <2>2. /\ ~ended.waggle
          /\ \A f \in {"playing", "shown", "motor", "output", "tape_rewrite", "bit_count",
                       "spins", "split", "input", "left"} : ended[f] = s[f]
      BY DEF DeckWell, Decks
    <2>3. t = IF DefaultPaused(s) THEN Sent(sending, ended, Paused(ended)) ELSE ended
      BY <1>2 DEF WaggleBit
    <2> HIDE DEF ended, t
    <2>4. DeckWell(ended)
      BY <2>1, <2>2 DEF DeckWell
    <2>5. ~(s.left > 0)
      BY <1>2 DEF DeckWell
    <2>6. /\ DeckWell(Paused(ended)) /\ ~Paused(ended).waggle
          /\ ~Paused(ended).playing /\ ~Paused(ended).shown
          /\ Paused(ended).output = s.output /\ Paused(ended).motor = s.motor
          /\ Paused(ended).left = s.left /\ Paused(ended).input = s.input
      BY <2>2, <2>4, PausedWell
    <2>7. t = ended \/ (t = Paused(ended) /\ ~sending)
      BY <2>3 DEF Sent
    <2>8. CASE t = ended
      BY <2>2, <2>4, <2>5, <2>8 DEF t
    <2>9. CASE t = Paused(ended) /\ ~sending
      <3>1. t.shown = t.playing
        BY <2>6, <2>9 DEF DeckWell, Decks
      <3> QED
        BY <2>5, <2>6, <2>9, <3>1 DEF t
    <2> QED
      BY <2>7, <2>8, <2>9
  <1> QED
    BY <1>1, <1>2

LEMMA MotorWell ==
    ASSUME NEW s, DeckWell(s), NEW sending \in BOOLEAN
    PROVE  LET t == UpdateMotor(s, sending)
           IN  /\ DeckWell(t) /\ DeckTurns(t)
               /\ s.shown = s.playing => t.shown = t.playing
               /\ sending => t.playing = s.playing
               /\ t.output = s.output /\ t.input = s.input
  <1> DEFINE reads == s.input # "none" /\ ~s.waggle
             read == IF reads THEN WaggleBit(s, sending) ELSE s
             running == IF read.output THEN [read EXCEPT !.flush = TRUE] ELSE read
             u == IF Turns(s) THEN running ELSE Stopped(s)
  <1>1. UpdateMotor(s, sending) = SetBreakpoints(u)
    BY DEF UpdateMotor
  <1>2. /\ DeckWell(read)
        /\ s.shown = s.playing => read.shown = read.playing
        /\ sending => read.playing = s.playing
        /\ read.output = s.output /\ read.motor = s.motor /\ read.input = s.input
        /\ read.waggle /\ Turns(s) => Turns(read)
        /\ read.left > 0 /\ Turns(read) => read.waggle
    <2>1. CASE reads
      <3>1. read = WaggleBit(s, sending)
        BY <2>1
      <3> HIDE DEF read
      <3> QED
        BY <3>1, WaggleWell DEF Turns
    <2>2. CASE ~reads
      <3>1. read = s
        BY <2>2
      <3> QED
        BY <2>2, <3>1 DEF DeckWell
    <2> QED
      BY <2>1, <2>2
  <1> HIDE DEF read
  <1>3. /\ DeckWell(running)
        /\ \A f \in {"shown", "playing", "output", "motor", "waggle", "left", "input"} :
              running[f] = read[f]
        /\ running.output => running.flush
    <2>1. CASE read.output
      <3> DEFINE r == [read EXCEPT !.flush = TRUE]
      <3>1. r \in Decks
        BY <1>2 DEF DeckWell, Decks
      <3>2. \A f \in {"shown", "playing", "output", "motor", "waggle", "left", "input",
                      "tape_rewrite", "bit_count", "spins", "split"} : r[f] = read[f]
        BY <1>2 DEF DeckWell, Decks
      <3>3. r.flush
        BY <1>2 DEF DeckWell, Decks
      <3>4. running = r
        BY <2>1
      <3> HIDE DEF r, running
      <3>5. DeckWell(r)
        BY <1>2, <3>1, <3>2 DEF DeckWell
      <3> QED
        BY <3>2, <3>3, <3>4, <3>5
    <2>2. CASE ~read.output
      <3>1. running = read
        BY <2>2
      <3> QED
        BY <1>2, <2>2, <3>1
    <2> QED
      BY <2>1, <2>2
  <1> HIDE DEF running
  <1>4. /\ DeckWell(u)
        /\ s.shown = s.playing => u.shown = u.playing
        /\ sending => u.playing = s.playing
        /\ u.output = s.output /\ u.input = s.input
        /\ u.waggle => Turns(u)
        /\ Turns(u) /\ u.left > 0 => u.waggle
        /\ Turns(u) /\ u.output => u.flush
    <2>1. CASE Turns(s)
      <3>1. u = running
        BY <2>1
      <3> HIDE DEF u
      <3>2. Turns(running) <=> Turns(read)
        BY <1>3 DEF Turns
      <3> QED
        BY <1>2, <1>3, <2>1, <3>1, <3>2
    <2>2. CASE ~Turns(s)
      <3>1. u = Stopped(s)
        BY <2>2
      <3> HIDE DEF u
      <3>2. ~Turns(u)
        BY <2>2, <3>1, StoppedWell DEF Turns
      <3> QED
        BY <3>1, <3>2, StoppedWell
    <2> QED
      BY <2>1, <2>2
  <1> HIDE DEF u
  <1> DEFINE t == SetBreakpoints(u)
  <1>5. u \in Decks
    BY <1>4 DEF DeckWell
  <1>6. PICK b \in SUBSET Intercepts : t = [u EXCEPT !.bps = b]
    BY <1>5, BreakpointsWell
  <1>7. /\ \A f \in {"shown", "playing", "output", "motor", "waggle", "left", "input", "flush",
                     "tape_rewrite", "tape_fast", "short_leader", "tape_pad_auto"} :
              t[f] = u[f]
    BY <1>5, <1>6 DEF Decks
  <1>8. /\ DeckWell(t)
        /\ ~Turns(u) => t.bps = {}
        /\ Turns(u) /\ u.input # "none" => t.bps = Wanted(u)
        /\ "rewrite" \in t.bps => u.tape_rewrite
    BY <1>4, <1>5, BreakpointsWell
  <1> HIDE DEF t
  <1>9. (Turns(t) <=> Turns(u)) /\ Wanted(t) = Wanted(u)
    BY <1>7 DEF Turns, Wanted
  <1>10. DeckTurns(t)
    BY <1>4, <1>7, <1>8, <1>9 DEF DeckTurns
  <1> QED
    BY <1>1, <1>4, <1>7, <1>8, <1>10 DEF t

LEMMA PlayWell ==
    ASSUME NEW s, DeckWell(s), NEW play \in BOOLEAN
    PROVE  /\ DeckSteady(Play(s, play))
           /\ Play(s, play).output = s.output /\ Play(s, play).input = s.input
  <1> DEFINE q == [s EXCEPT !.playing = play]
             t == UpdateMotor(q, TRUE)
             u == [t EXCEPT !.shown = play]
  <1>1. q \in Decks
    BY DEF DeckWell, Decks
  <1>2. \A f \in {"output", "input", "left", "tape_rewrite", "bit_count", "spins", "split"} :
           q[f] = s[f]
    BY DEF DeckWell, Decks
  <1>3. q.playing = play
    BY DEF DeckWell, Decks
  <1>4. Play(s, play) = u
    BY DEF Play
  <1> HIDE DEF q
  <1>5. DeckWell(q)
    BY <1>1, <1>2 DEF DeckWell
  <1>6. DeckWell(t) /\ DeckTurns(t) /\ t.playing = play /\ t.output = s.output /\ t.input = s.input
    BY <1>2, <1>3, <1>5, MotorWell
  <1> HIDE DEF t
  <1>7. u \in Decks
    BY <1>6 DEF DeckWell, Decks
  <1>8. /\ \A f \in {"playing", "output", "motor", "waggle", "left", "input", "flush", "bps",
                     "tape_rewrite", "tape_fast", "short_leader", "tape_pad_auto",
                     "bit_count", "spins", "split"} : u[f] = t[f]
        /\ u.shown = play
    BY <1>6 DEF DeckWell, Decks
  <1> HIDE DEF u
  <1>9. DeckWell(u)
    BY <1>6, <1>7, <1>8 DEF DeckWell
  <1>10. DeckTurns(u)
    BY <1>6, <1>8 DEF DeckTurns, Turns, Wanted
  <1> QED
    BY <1>4, <1>6, <1>8, <1>9, <1>10 DEF DeckSteady

\* A flag that asks for breakpoints is set, and they are.
LEMMA FlagSteady ==
    ASSUME NEW s, DeckSteady(s), NEW q, DeckWell(q),
           \A f \in {"motor", "playing", "shown", "waggle", "left", "output", "flush",
                     "input"} : q[f] = s[f]
    PROVE  DeckSteady(SetBreakpoints(q))
  <1> DEFINE t == SetBreakpoints(q)
  <1>1. PICK b \in SUBSET Intercepts : t = [q EXCEPT !.bps = b]
    BY BreakpointsWell DEF DeckWell
  <1>2. \A f \in {"shown", "playing", "output", "motor", "waggle", "left", "input", "flush",
                  "tape_rewrite", "tape_fast", "short_leader", "tape_pad_auto"} :
           t[f] = q[f]
    BY <1>1 DEF DeckWell, Decks
  <1>3. /\ DeckWell(t)
        /\ ~Turns(q) => t.bps = {}
        /\ Turns(q) /\ q.input # "none" => t.bps = Wanted(q)
        /\ "rewrite" \in t.bps => q.tape_rewrite
    BY BreakpointsWell DEF DeckWell
  <1> HIDE DEF t
  <1>4. (Turns(t) <=> Turns(q)) /\ (Turns(q) <=> Turns(s)) /\ Wanted(t) = Wanted(q)
    BY <1>2 DEF Turns, Wanted
  <1>5. DeckTurns(t)
    BY <1>2, <1>3, <1>4 DEF DeckTurns, DeckSteady
  <1> QED
    BY <1>2, <1>3, <1>5 DEF DeckSteady, t

LEMMA SeekWell ==
    ASSUME NEW s, DeckWell(s), s.shown = s.playing, NEW start \in BOOLEAN
    PROVE  DeckSteady(Seek(s, start))
  <1> DEFINE moved == UpdateMotor(s, FALSE)
  <1>1. DeckSteady(moved)
    BY MotorWell DEF DeckSteady
  <1>2. Seek(s, start) = IF s.tape_rewrite /\ start THEN RewriteTapeDesync(moved) ELSE moved
    BY DEF Seek
  <1> HIDE DEF moved
  <1> QED
    BY <1>1, <1>2, DesyncWell DEF DeckSteady

LEMMA CloseReadingWell ==
    ASSUME NEW s, DeckWell(s), NEW short \in BOOLEAN
    PROVE  LET t == [CloseReading(s) EXCEPT !.short_leader = short]
           IN  /\ DeckWell(CloseReading(s)) /\ DeckWell(t)
               /\ CloseReading(s).tape_rewrite = s.tape_rewrite
               /\ DeckSteady(s) => DeckSteady(CloseReading(s)) /\ DeckSteady(t)
  <1> DEFINE c == CloseReading(s)
             t == [c EXCEPT !.short_leader = short]
  <1>0. 0 \in 0..Pulses
    BY TapeAssumption
  <1>1. c \in Decks
    BY <1>0 DEF CloseReading, DeckWell, Decks
  <1>2. /\ \A f \in {"tape_rewrite", "bit_count", "output", "spins", "split", "motor",
                     "playing", "shown", "waggle", "flush", "bps"} : c[f] = s[f]
        /\ c.left = 0 /\ c.input = "none"
    BY DEF CloseReading, DeckWell, Decks
  <1>3. DeckWell(c)
    BY <1>1, <1>2 DEF DeckWell
  <1>4. DeckSteady(s) => DeckSteady(c)
    BY <1>2, <1>3 DEF DeckSteady, DeckTurns, Turns
  <1> HIDE DEF c
  <1>5. t \in Decks
    BY <1>1 DEF Decks
  <1>6. \A f \in {"tape_rewrite", "bit_count", "output", "spins", "split", "motor", "left",
                  "playing", "shown", "waggle", "flush", "bps", "input"} : t[f] = c[f]
    BY <1>1 DEF Decks
  <1> HIDE DEF t
  <1>7. DeckWell(t)
    BY <1>2, <1>3, <1>5, <1>6 DEF DeckWell
  <1>8. DeckSteady(s) => DeckSteady(t)
    BY <1>2, <1>4, <1>6, <1>7 DEF DeckSteady, DeckTurns, Turns
  <1> QED
    BY <1>2, <1>3, <1>4, <1>7, <1>8 DEF c, t

LEMMA CloseWritingWell ==
    ASSUME NEW s, DeckWell(s)
    PROVE  LET t == CloseWriting(s)
           IN  /\ DeckWell(t) /\ ~t.output
               /\ DeckSteady(s) => DeckSteady(t)
  <1>1. CASE s.output
    <2> DEFINE q == IF s.tape_rewrite THEN RewriteTapeDesync(s) ELSE s
               t == [q EXCEPT !.output = FALSE, !.flush = FALSE]
    <2>1. CloseWriting(s) = t
      BY <1>1 DEF CloseWriting
    <2>2. /\ DeckWell(q) /\ q.output
          /\ DeckSteady(s) => DeckSteady(q)
          /\ q.bit_count # 0 => q.split
      <3>1. CASE s.tape_rewrite
        BY <1>1, <3>1, DesyncWell
      <3>2. CASE ~s.tape_rewrite
        BY <1>1, <3>2 DEF DeckWell
      <3> QED
        BY <3>1, <3>2
    <2> HIDE DEF q
    <2>3. t \in Decks
      BY <2>2 DEF DeckWell, Decks
    <2>4. /\ \A f \in {"tape_rewrite", "bit_count", "spins", "split", "motor", "left",
                       "playing", "shown", "waggle", "bps", "input", "tape_fast",
                       "short_leader", "tape_pad_auto"} : t[f] = q[f]
          /\ ~t.output
      BY <2>2 DEF DeckWell, Decks
    <2> HIDE DEF t
    <2>5. DeckWell(t)
      BY <2>2, <2>3, <2>4 DEF DeckWell
    <2>6. DeckSteady(q) => DeckSteady(t)
      BY <2>4, <2>5 DEF DeckSteady, DeckTurns, Turns, Wanted
    <2> QED
      BY <2>1, <2>2, <2>4, <2>5, <2>6
  <1>2. CASE ~s.output
    BY <1>2 DEF CloseWriting
  <1> QED
    BY <1>1, <1>2

LEMMA OpenReadingWell ==
    ASSUME NEW s, DeckWell(s), NEW input \in Inputs
    PROVE  DeckSteady(OpenReading(s, input)) /\ OpenReading(s, input).input = input
  <1> DEFINE c == CloseReading(s)
             opened == [c EXCEPT !.input = input, !.left = Pulses,
                                 !.short_leader = (input = "short")]
             set == IF input = "wav" THEN opened ELSE SetBreakpoints(opened)
             synced == IF s.tape_rewrite THEN RewriteTapeDesync(set) ELSE set
  <1>1. OpenReading(s, input) = Play(synced, ~DefaultPaused(s))
    BY DEF OpenReading
  <1>2. DeckWell(c)
    BY CloseReadingWell
  <1> HIDE DEF c
  <1>3. (input = "short") \in BOOLEAN /\ input # "none" /\ Pulses \in 0..Pulses
    BY TapeAssumption DEF Inputs
  <1>4. opened \in Decks
    BY <1>2, <1>3 DEF DeckWell, Decks
  <1>5. /\ \A f \in {"tape_rewrite", "bit_count", "output", "spins", "split"} :
              opened[f] = c[f]
        /\ opened.input = input
    BY <1>2 DEF DeckWell, Decks
  <1> HIDE DEF opened
  <1>6. DeckWell(opened)
    BY <1>2, <1>3, <1>4, <1>5 DEF DeckWell
  <1>7. DeckWell(set) /\ set.input = input
    <2>1. PICK b \in SUBSET Intercepts : SetBreakpoints(opened) = [opened EXCEPT !.bps = b]
      BY <1>4, BreakpointsWell
    <2>2. SetBreakpoints(opened).input = input
      BY <1>4, <1>5, <2>1 DEF Decks
    <2> QED
      BY <1>4, <1>5, <1>6, <2>2, BreakpointsWell
  <1> HIDE DEF set
  <1>8. DeckWell(synced) /\ synced.input = input
    BY <1>7, DesyncWell
  <1> HIDE DEF synced
  <1>9. (~DefaultPaused(s)) \in BOOLEAN
    BY DEF DefaultPaused
  <1> QED
    BY <1>1, <1>8, <1>9, PlayWell

LEMMA OpenWritingWell ==
    ASSUME NEW s, DeckWell(s)
    PROVE  DeckSteady(OpenWriting(s))
  <1> DEFINE c == CloseWriting(s)
             q == [c EXCEPT !.output = TRUE]
             p == Play(q, ~DefaultPaused(s))
             t == [p EXCEPT !.bit_count = 0]
  <1>1. OpenWriting(s) = t
    BY DEF OpenWriting
  <1>2. DeckWell(c) /\ ~c.output
    BY CloseWritingWell
  <1> HIDE DEF c
  <1>3. q \in Decks
    BY <1>2 DEF DeckWell, Decks
  <1>4. \A f \in {"tape_rewrite", "bit_count", "spins", "split", "input", "left"} :
           q[f] = c[f]
    BY <1>2 DEF DeckWell, Decks
  <1> HIDE DEF q
  <1>5. DeckWell(q)
    BY <1>2, <1>3, <1>4 DEF DeckWell
  <1>6. (~DefaultPaused(s)) \in BOOLEAN
    BY DEF DefaultPaused
  <1>7. DeckSteady(p)
    BY <1>5, <1>6, PlayWell
  <1> HIDE DEF p
  <1>8. 0 \in 0..(BitsPerByte - 1)
    BY TapeAssumption
  <1>9. t \in Decks
    BY <1>7, <1>8 DEF DeckSteady, DeckWell, Decks
  <1>10. /\ \A f \in {"tape_rewrite", "spins", "split", "motor", "left", "output", "flush",
                      "playing", "shown", "waggle", "bps", "input", "tape_fast",
                      "short_leader", "tape_pad_auto"} : t[f] = p[f]
         /\ t.bit_count = 0
    BY <1>7 DEF DeckSteady, DeckWell, Decks
  <1> HIDE DEF t
  <1>11. DeckWell(t)
    BY <1>7, <1>9, <1>10 DEF DeckWell, DeckSteady
  <1>12. DeckSteady(t)
    BY <1>7, <1>10, <1>11 DEF DeckSteady, DeckTurns, Turns, Wanted
  <1> QED
    BY <1>1, <1>12

LEMMA ResetWell ==
    ASSUME NEW s, DeckWell(s)
    PROVE  DeckSteady(Reset(s))
  <1> DEFINE c == CloseWriting(s)
             stopped == [c EXCEPT !.motor = FALSE, !.waggle = FALSE]
             reset == Play(stopped, ~DefaultPaused(s))
             on == [reset EXCEPT !.motor = TRUE]
  <1>1. Reset(s) = IF s.machine = "mc10" THEN UpdateMotor(on, FALSE) ELSE reset
    BY DEF Reset
  <1>2. DeckWell(c)
    BY CloseWritingWell
  <1> HIDE DEF c
  <1>3. stopped \in Decks
    BY <1>2 DEF DeckWell, Decks
  <1>4. \A f \in {"tape_rewrite", "bit_count", "output", "spins", "split", "input", "left"} :
           stopped[f] = c[f]
    BY <1>2 DEF DeckWell, Decks
  <1> HIDE DEF stopped
  <1>5. DeckWell(stopped)
    BY <1>2, <1>3, <1>4 DEF DeckWell
  <1>6. (~DefaultPaused(s)) \in BOOLEAN
    BY DEF DefaultPaused
  <1>7. DeckSteady(reset)
    BY <1>5, <1>6, PlayWell
  <1> HIDE DEF reset
  <1>8. on \in Decks
    BY <1>7 DEF DeckSteady, DeckWell, Decks
  <1>9. \A f \in {"tape_rewrite", "bit_count", "output", "spins", "split", "input", "left",
                  "playing", "shown"} : on[f] = reset[f]
    BY <1>7 DEF DeckSteady, DeckWell, Decks
  <1> HIDE DEF on
  <1>10. DeckWell(on) /\ on.shown = on.playing
    BY <1>7, <1>8, <1>9 DEF DeckWell, DeckSteady
  <1>11. DeckSteady(UpdateMotor(on, FALSE))
    BY <1>10, MotorWell DEF DeckSteady
  <1> QED
    BY <1>1, <1>7, <1>11

\* An intercepted routine runs only while the tape turns.
LEMMA AdvancedSteady ==
    ASSUME NEW s, DeckSteady(s), s.bps # {}, NEW t \in Advanced(s)
    PROVE  DeckSteady(t) /\ t.bps = s.bps /\ t.tape_rewrite = s.tape_rewrite
  <1> DEFINE some(n) == [s EXCEPT !.left = n, !.waggle = TRUE]
             none == [s EXCEPT !.left = 0, !.waggle = FALSE]
  <1>1. Turns(s) /\ s \in Decks
    BY DEF DeckSteady, DeckTurns, DeckWell
  <1>2. CASE t = none
    <2>0. 0 \in 0..Pulses
      BY TapeAssumption
    <2>1. t \in Decks
      BY <1>1, <1>2, <2>0 DEF Decks
    <2>2. /\ \A f \in {"tape_rewrite", "bit_count", "output", "spins", "split", "input",
                       "motor", "playing", "shown", "flush", "bps", "tape_fast",
                       "short_leader", "tape_pad_auto"} : t[f] = s[f]
          /\ t.left = 0 /\ ~t.waggle
      BY <1>1, <1>2 DEF Decks
    <2> HIDE DEF none
    <2>3. DeckWell(t)
      BY <2>1, <2>2 DEF DeckWell, DeckSteady
    <2> QED
      BY <2>2, <2>3 DEF DeckSteady, DeckTurns, Turns, Wanted
  <1>3. ASSUME NEW n \in 0..s.left, t = some(n)
        PROVE  DeckSteady(t) /\ t.bps = s.bps /\ t.tape_rewrite = s.tape_rewrite
    <2>0. s.left \in 0..Pulses
      BY <1>1 DEF Decks
    <2>1. n \in 0..Pulses
      BY <2>0, TapeAssumption
    <2>2. t \in Decks
      BY <1>1, <1>3, <2>1 DEF Decks
    <2>3. /\ \A f \in {"tape_rewrite", "bit_count", "output", "spins", "split", "input",
                       "motor", "playing", "shown", "flush", "bps", "tape_fast",
                       "short_leader", "tape_pad_auto"} : t[f] = s[f]
          /\ t.left = n /\ t.waggle
      BY <1>1, <1>3 DEF Decks
    <2> HIDE DEF some
    <2>4. n > 0 => s.left > 0
      BY <2>0, TapeAssumption
    <2>5. DeckWell(t)
      BY <2>2, <2>3, <2>4 DEF DeckWell, DeckSteady
    <2> QED
      BY <1>1, <2>3, <2>5 DEF DeckSteady, DeckTurns, Turns, Wanted
  <1> QED
    BY <1>2, <1>3 DEF Advanced

LEMMA BitSteady ==
    ASSUME NEW s, DeckSteady(s), s.tape_rewrite
    PROVE  DeckSteady(RewriteBitin(s))
  <1>1. CASE s.have_sync /\ s.output
    <2> DEFINE t == [s EXCEPT !.bit_count = (@ + 1) % BitsPerByte]
    <2>1. (s.bit_count + 1) % BitsPerByte \in 0..(BitsPerByte - 1)
      BY TapeAssumption DEF DeckSteady, DeckWell, Decks
    <2>2. t \in Decks
      BY <2>1 DEF DeckSteady, DeckWell, Decks
    <2>3. \A f \in {"tape_rewrite", "output", "spins", "split", "motor", "left", "flush",
                    "playing", "shown", "waggle", "bps", "input", "tape_fast",
                    "short_leader", "tape_pad_auto"} : t[f] = s[f]
      BY DEF DeckSteady, DeckWell, Decks
    <2>4. RewriteBitin(s) = t
      BY <1>1 DEF RewriteBitin
    <2> HIDE DEF t
    <2>5. DeckWell(t)
      BY <1>1, <2>2, <2>3 DEF DeckWell, DeckSteady
    <2> QED
      BY <2>3, <2>4, <2>5 DEF DeckSteady, DeckTurns, Turns, Wanted
  <1>2. CASE ~(s.have_sync /\ s.output)
    BY <1>2 DEF RewriteBitin
  <1> QED
    BY <1>1, <1>2

-----------------------------------------------------------------------------
(* Typing *)

\* What each event queued has left to type.
LeftOf(list, index) ==
    [i \in DOMAIN list |->
        IF i = 1 THEN SubSeq(list[i].text, index + 1, Len(list[i].text)) ELSE list[i].text]

CountTo(n) == [i \in 1..n |-> i]

TypingKept(list, index, done, n) ==
    /\ list \in Seq(KbdEvents) /\ \A i \in 1..Len(list) : Len(list[i].text) <= LastChar
    /\ index \in 0..LastChar /\ n \in 0..LastChar /\ done \in Seq(1..LastChar)
    /\ IF list = <<>> THEN index = 0
       ELSE index = 0 \/ (list[1].kind = "string" /\ index < Len(list[1].text))
    /\ Together(done, FlattenSeq(LeftOf(list, index))) = CountTo(n)

KbdInv ==
    /\ TypingKept(auto_event_list, command_index, typed, asked)
    /\ Len(auto_event_list) <= LongQueue
    /\ listening = (auto_event_list # <<>>)

LEMMA KbdInvMeans ==
    KbdInv => KbdOK /\ TypedInOrder
  <1> SUFFICES ASSUME KbdInv PROVE KbdOK /\ TypedInOrder
    OBVIOUS
  <1>1. Pending = FlattenSeq(LeftOf(auto_event_list, command_index))
    BY DEF Pending, LeftOf
  <1>2. typed \o Pending = [i \in 1..asked |-> i]
    BY <1>1 DEF KbdInv, TypingKept, Together, CountTo
  <1>3. listening \in BOOLEAN
    BY DEF KbdInv
  <1> QED
    BY <1>2, <1>3 DEF KbdInv, TypingKept, KbdOK, TypedInOrder

LEMMA LeftTyped ==
    ASSUME NEW list \in Seq(KbdEvents), NEW index \in Nat
    PROVE  LeftOf(list, index) \in Seq(Seq(1..LastChar)) /\ Len(LeftOf(list, index)) = Len(list)
  <1> DEFINE e == LeftOf(list, index)
  <1>1. Len(list) \in Nat /\ DOMAIN list = 1..Len(list)
    OBVIOUS
  <1>2. ASSUME NEW i \in 1..Len(list) PROVE e[i] \in Seq(1..LastChar)
    <2>1. list[i] \in KbdEvents
      BY <1>1
    <2>2. PICK x : x = list[i].text /\ x \in Seq(1..LastChar)
      BY <2>1 DEF KbdEvents
    <2>0. x \in Seq(1..LastChar)
      BY <2>2
    <2>3. SubSeq(x, index + 1, Len(x)) \in Seq(1..LastChar)
      <3>0. Len(x) \in Nat /\ \A j \in 1..Len(x) : x[j] \in 1..LastChar
        BY <2>0, LenProperties, ElementOfSeq
      <3>1. \A j \in (index + 1)..Len(x) : x[j] \in 1..LastChar
        BY <3>0
      <3> QED
        BY <3>0, <3>1, SubSeqProperties
    <2> QED
      BY <1>1, <2>2, <2>3 DEF LeftOf
  <1>3. e = [i \in 1..Len(list) |-> e[i]]
    BY <1>1 DEF LeftOf
  <1> HIDE DEF e
  <1>4. e \in [1..Len(list) -> Seq(1..LastChar)]
    BY <1>2, <1>3
  <1>5. e \in Seq(Seq(1..LastChar))
    BY <1>1, <1>4
  <1>6. Len(e) = Len(list)
    BY <1>1, <1>4, <1>5
  <1> QED
    BY <1>5, <1>6 DEF e

LEMMA NothingKept ==
    TypingKept(<<>>, 0, <<>>, 0)
  <1>1. LeftOf(<<>>, 0) = <<>>
    BY DEF LeftOf
  <1>2. FlattenSeq(<<>>) = <<>>
    BY DEF FlattenSeq
  <1>3. Together(<<>>, <<>>) = <<>> /\ CountTo(0) = <<>>
    BY DEF Together, CountTo
  <1>4. <<>> \in Seq(KbdEvents) /\ Len(<<>>) = 0 /\ <<>> \in Seq(1..LastChar)
    OBVIOUS
  <1>5. 0 \in 0..LastChar
    BY AutoKbdAssumption
  <1>6. \A i \in 1..0 : Len(<<>>[i].text) <= LastChar
    OBVIOUS
  <1> QED
    BY <1>1, <1>2, <1>3, <1>4, <1>5, <1>6 DEF TypingKept

\* Two sequences, and one that has their elements.
LEMMA TogetherAs ==
    ASSUME NEW S, NEW a \in Seq(S), NEW b \in Seq(S), NEW c \in Seq(S),
           Len(c) = Len(a) + Len(b),
           \A i \in 1..Len(a) : c[i] = a[i],
           \A i \in 1..Len(b) : c[Len(a) + i] = b[i]
    PROVE  Together(a, b) = c
  <1> DEFINE t == Together(a, b)
  <1>0. Len(a) \in Nat /\ Len(b) \in Nat
    OBVIOUS
  <1>1. /\ t \in Seq(S) /\ Len(t) = Len(a) + Len(b)
        /\ \A i \in 1..(Len(a) + Len(b)) : t[i] = IF i <= Len(a) THEN a[i] ELSE b[i - Len(a)]
    BY TogetherIs
  <1> HIDE DEF t
  <1>2. ASSUME NEW i \in 1..Len(t) PROVE t[i] = c[i]
    <2>1. CASE i <= Len(a)
      BY <1>0, <1>1, <2>1
    <2>2. CASE ~(i <= Len(a))
      <3>1. i - Len(a) \in 1..Len(b) /\ Len(a) + (i - Len(a)) = i
        BY <1>0, <1>1, <2>2
      <3>2. c[i] = b[i - Len(a)]
        BY <3>1
      <3> QED
        BY <1>1, <2>2, <3>2
    <2> QED
      BY <2>1, <2>2
  <1>3. t = c
    BY <1>1, <1>2, SeqEqual
  <1> QED
    BY <1>3 DEF t

LEMMA CountedOn ==
    ASSUME NEW n \in Nat, NEW k \in Nat
    PROVE  Together(CountTo(n), [i \in 1..k |-> n + i]) = CountTo(n + k)
  <1> DEFINE c == CountTo(n)
             d == CountTo(n + k)
             x == [i \in 1..k |-> n + i]
             S == 1..(n + k)
  <1>1. c \in [1..n -> S] /\ d \in [1..(n + k) -> S] /\ x \in [1..k -> S] /\ n + k \in Nat
    BY DEF CountTo
  <1>3. /\ \A i \in 1..n : c[i] = i
        /\ \A i \in 1..(n + k) : d[i] = i
        /\ \A i \in 1..k : x[i] = n + i
    BY DEF CountTo
  <1> HIDE DEF c, d, x, S
  <1>2. /\ c \in Seq(S) /\ Len(c) = n /\ d \in Seq(S) /\ Len(d) = n + k
        /\ x \in Seq(S) /\ Len(x) = k
    BY <1>1
  <1>4. \A i \in 1..Len(c) : d[i] = c[i]
    BY <1>2, <1>3
  <1>5. \A i \in 1..Len(x) : d[Len(c) + i] = x[i]
    BY <1>2, <1>3
  <1>6. Together(c, x) = d
    <2>1. Len(d) = Len(c) + Len(x)
      BY <1>2
    <2>2. c \in Seq(S) /\ x \in Seq(S) /\ d \in Seq(S)
      BY <1>2
    <2> QED
      BY <1>4, <1>5, <2>1, <2>2, TogetherAs
  <1> QED
    BY <1>6 DEF c, d, x

\* What is asked for is queued.
LEMMA AskedKept ==
    ASSUME NEW list, NEW index, NEW done, NEW n, TypingKept(list, index, done, n),
           NEW k \in 0..LastChar, n + k <= LastChar, NEW e \in KbdEvents,
           e.text = [i \in 1..k |-> n + i]
    PROVE  TypingKept(Append(list, e), index, done, n + k)
  <1> DEFINE t == Append(list, e)
             text == [i \in 1..k |-> n + i]
  <1>0. k \in Nat /\ n \in Nat /\ Len(list) \in Nat /\ index \in Nat
    BY AutoKbdAssumption DEF TypingKept
  <1>1. /\ t \in Seq(KbdEvents) /\ Len(t) = Len(list) + 1
        /\ (\A i \in 1..Len(list) : t[i] = list[i]) /\ t[Len(list) + 1] = e
    BY DEF TypingKept
  <1>2. text \in Seq(1..LastChar) /\ Len(text) = k
    <2>1. text \in [1..k -> 1..LastChar]
      BY <1>0, AutoKbdAssumption
    <2> QED
      BY <1>0, <2>1
  <1>3. \A i \in 1..Len(t) : Len(t[i].text) <= LastChar
    BY <1>0, <1>1, <1>2, AutoKbdAssumption DEF TypingKept
  <1> DEFINE l == LeftOf(list, index)
             m == LeftOf(t, index)
  <1>4. m = Append(l, text)
    <2>1. m \in Seq(Seq(1..LastChar)) /\ Len(m) = Len(list) + 1
      BY <1>0, <1>1, LeftTyped
    <2>2. l \in Seq(Seq(1..LastChar)) /\ Len(l) = Len(list)
      BY <1>0, LeftTyped DEF TypingKept
    <2> DEFINE a == Append(l, text)
    <2> HIDE DEF l, text
    <2>3. /\ a \in Seq(Seq(1..LastChar)) /\ Len(a) = Len(list) + 1
          /\ (\A i \in 1..Len(list) : a[i] = l[i]) /\ a[Len(list) + 1] = text
      BY <1>2, <2>2, AppendProperties
    <2>4. ASSUME NEW i \in 1..Len(list) PROVE m[i] = a[i]
      <3>1. i \in DOMAIN list /\ i \in DOMAIN t /\ t[i] = list[i]
        BY <1>0, <1>1 DEF TypingKept
      <3>2. m[i] = l[i]
        BY <3>1 DEF LeftOf, l
      <3> QED
        BY <2>3, <3>2
    <2>5. m[Len(list) + 1] = text
      <3> DEFINE j == Len(list) + 1
      <3>1. j \in DOMAIN t
        BY <1>0, <1>1
      <3>2. m[j] = IF j = 1 THEN SubSeq(t[j].text, index + 1, Len(t[j].text)) ELSE t[j].text
        BY <3>1 DEF LeftOf
      <3>3. t[j].text = text
        BY <1>1 DEF text
      <3>4. CASE j = 1
        <4>1. list = <<>> /\ index = 0
          BY <1>0, <3>4, EmptySeq DEF TypingKept
        <4>2. SubSeq(text, 1, Len(text)) = text
          BY <1>2
        <4> HIDE DEF m, t, j
        <4> QED
          BY <3>2, <3>3, <3>4, <4>1, <4>2
      <3>5. CASE j # 1
        <4> HIDE DEF m, t
        <4> QED
          BY <3>2, <3>3, <3>5
      <3> QED
        BY <3>4, <3>5
    <2> HIDE DEF m, a
    <2>6. ASSUME NEW i \in 1..Len(m) PROVE m[i] = a[i]
      <3>1. Len(m) = Len(list) + 1 /\ Len(list) \in Nat
        BY <2>1, LenProperties
      <3>2. i \in 1..Len(list) \/ i = Len(list) + 1
        BY <3>1
      <3> QED
        BY <2>3, <2>4, <2>5, <3>2
    <2>7. m = a
      BY <2>1, <2>3, <2>6, SeqEqual
    <2> QED
      BY <2>7 DEF a
  <1>5. l \in Seq(Seq(1..LastChar)) /\ done \in Seq(1..LastChar)
    BY <1>0, LeftTyped DEF TypingKept
  <1> HIDE DEF l, m
  <1>6. FlattenSeq(m) = Together(FlattenSeq(l), text) /\ FlattenSeq(l) \in Seq(1..LastChar)
    BY <1>2, <1>4, <1>5, FlattenAppend, FlattenTyped DEF Together
  <1>7. Together(done, FlattenSeq(m)) = Together(Together(done, FlattenSeq(l)), text)
    <2> HIDE DEF text
    <2> QED
      BY <1>2, <1>5, <1>6, InAnyOrder
  <1>8. Together(CountTo(n), text) = CountTo(n + k)
    <2> HIDE DEF text
    <2> QED
      BY <1>0, CountedOn DEF text
  <1>9. t # <<>> /\ (list # <<>> => t[1] = list[1])
    BY <1>0, <1>1, EmptySeq DEF TypingKept
  <1>10. Together(done, FlattenSeq(m)) = CountTo(n + k)
    BY <1>7, <1>8 DEF TypingKept, l
  <1> HIDE DEF t
  <1>11. n + k \in 0..LastChar
    BY <1>0, AutoKbdAssumption
  <1> QED
    BY <1>1, <1>3, <1>9, <1>10, <1>11 DEF TypingKept, m, t

LEMMA FlattenFirst ==
    ASSUME NEW S, NEW s \in Seq(Seq(S)), s # <<>>
    PROVE  FlattenSeq(s) = Together(Head(s), FlattenSeq(Tail(s)))
  BY FlattenHead DEF Together

\* What is typed is no longer left: of the head, or all there was of it.
LEMMA HeadShorter ==
    ASSUME NEW S, NEW l \in Seq(Seq(S)), l # <<>>, NEW m \in Seq(Seq(S)), m # <<>>,
           Tail(m) = Tail(l), NEW a \in Seq(S), NEW b \in Seq(S),
           Together(b, Head(m)) = Together(a, Head(l))
    PROVE  Together(b, FlattenSeq(m)) = Together(a, FlattenSeq(l))
  <1> DEFINE t == FlattenSeq(Tail(l))
  <1>1. Head(l) \in Seq(S) /\ Head(m) \in Seq(S) /\ Tail(l) \in Seq(Seq(S))
    BY HeadTailProperties
  <1>2. t \in Seq(S)
    BY <1>1, FlattenTyped
  <1>3. FlattenSeq(m) = Together(Head(m), t) /\ FlattenSeq(l) = Together(Head(l), t)
    BY FlattenFirst
  <1> HIDE DEF t
  <1>4. /\ Together(b, Together(Head(m), t)) = Together(Together(b, Head(m)), t)
        /\ Together(a, Together(Head(l), t)) = Together(Together(a, Head(l)), t)
    BY <1>1, <1>2, InAnyOrder
  <1> QED
    BY <1>3, <1>4

LEMMA HeadGone ==
    ASSUME NEW S, NEW l \in Seq(Seq(S)), l # <<>>, NEW a \in Seq(S)
    PROVE  Together(Together(a, Head(l)), FlattenSeq(Tail(l))) = Together(a, FlattenSeq(l))
  <1> DEFINE t == FlattenSeq(Tail(l))
  <1>1. Head(l) \in Seq(S) /\ Tail(l) \in Seq(Seq(S))
    BY HeadTailProperties
  <1>2. t \in Seq(S)
    BY <1>1, FlattenTyped
  <1>3. FlattenSeq(l) = Together(Head(l), t)
    BY FlattenFirst
  <1> HIDE DEF t
  <1>4. Together(a, Together(Head(l), t)) = Together(Together(a, Head(l)), t)
    BY <1>1, <1>2, InAnyOrder
  <1> QED
    BY <1>3, <1>4 DEF t

LEMMA CharTyped ==
    ASSUME NEW S, NEW a \in Seq(S), NEW x \in Seq(S), NEW j \in 1..Len(x)
    PROVE  /\ Append(a, x[j]) \in Seq(S)
           /\ Together(Append(a, x[j]), SubSeq(x, j + 1, Len(x))) =
                 Together(a, SubSeq(x, j, Len(x)))
           /\ j = Len(x) => Append(a, x[j]) = Together(a, SubSeq(x, j, Len(x)))
  <1>0. Len(x) \in Nat /\ x[j] \in S
    BY ElementOfSeq
  <1> DEFINE c == <<x[j]>>
             r == SubSeq(x, j + 1, Len(x))
  <1>1. c \in Seq(S)
    BY <1>0
  <1>2. r \in Seq(S)
    <2>1. \A i \in (j + 1)..Len(x) : x[i] \in S
      <3>1. \A i \in 1..Len(x) : x[i] \in S
        BY ElementOfSeq
      <3> QED
        BY <1>0, <3>1
    <2> QED
      BY <1>0, <2>1, SubSeqProperties
  <1>3. SubSeq(x, j, Len(x)) = Together(c, r)
    <2>1. Len(x) \in j..Len(x)
      BY <1>0
    <2> QED
      BY <2>1, SubSeqRecursiveFirst DEF Together
  <1>4. Append(a, x[j]) = Together(a, c)
    BY <1>0, AppendIsConcat DEF Together
  <1>5. j = Len(x) => r = <<>>
    BY <1>0, SubSeqEmpty
  <1>6. Append(a, x[j]) \in Seq(S)
    BY <1>0
  <1> HIDE DEF c, r
  <1>7. Together(Together(a, c), r) = Together(a, Together(c, r))
    BY <1>1, <1>2, InAnyOrder
  <1>8. Together(c, <<>>) = c
    BY <1>1, ConcatEmptySeq DEF Together
  <1> QED
    BY <1>3, <1>4, <1>5, <1>6, <1>7, <1>8 DEF r

\* The event at the head is gone.
LEMMA LeftTail ==
    ASSUME NEW list \in Seq(KbdEvents), list # <<>>, NEW index \in Nat
    PROVE  /\ LeftOf(Tail(list), 0) = Tail(LeftOf(list, index))
           /\ LeftOf(list, index) # <<>>
           /\ Head(LeftOf(list, index)) =
                 SubSeq(list[1].text, index + 1, Len(list[1].text))
  <1> DEFINE t == Tail(list)
             l == LeftOf(list, index)
             m == LeftOf(t, 0)
  <1>1. /\ t \in Seq(KbdEvents) /\ Len(list) = Len(t) + 1 /\ Len(t) \in Nat
        /\ \A i \in 1..Len(t) : t[i] = list[i + 1]
        /\ DOMAIN list = 1..Len(list) /\ DOMAIN t = 1..Len(t)
    BY HeadTailProperties
  <1> HIDE DEF t
  <1>2. /\ l \in Seq(Seq(1..LastChar)) /\ Len(l) = Len(list)
        /\ m \in Seq(Seq(1..LastChar)) /\ Len(m) = Len(t)
    BY <1>1, LeftTyped
  <1>3. \A i \in 1..Len(list) :
           l[i] = IF i = 1 THEN SubSeq(list[i].text, index + 1, Len(list[i].text))
                  ELSE list[i].text
    BY <1>1 DEF LeftOf
  <1>4. \A i \in 1..Len(t) :
           m[i] = IF i = 1 THEN SubSeq(t[i].text, 1, Len(t[i].text)) ELSE t[i].text
    BY <1>1 DEF LeftOf
  <1> HIDE DEF l, m
  <1>5. l # <<>>
    BY <1>1, <1>2
  <1> DEFINE r == Tail(l)
  <1>6. /\ r \in Seq(Seq(1..LastChar)) /\ Len(r) = Len(t)
        /\ \A i \in 1..Len(t) : r[i] = l[i + 1]
    BY <1>1, <1>2, <1>5, HeadTailProperties
  <1> HIDE DEF r
  <1>7. ASSUME NEW i \in 1..Len(t) PROVE m[i] = r[i]
    <2>1. i + 1 \in 1..Len(list) /\ i + 1 # 1
      BY <1>1
    <2>2. r[i] = t[i].text
      BY <1>1, <1>3, <1>6, <2>1
    <2>3. t[i] \in KbdEvents
      BY <1>1
    <2>4. PICK x : x = t[i].text /\ x \in Seq(1..LastChar)
      BY <2>3 DEF KbdEvents
    <2>5. x \in Seq(1..LastChar)
      BY <2>4
    <2>6. SubSeq(x, 1, Len(x)) = x
      BY <2>5
    <2>7. m[i] = x
      BY <1>4, <2>4, <2>6
    <2> QED
      BY <2>2, <2>4, <2>7
  <1>8. m = r
    BY <1>2, <1>6, <1>7, SeqEqual
  <1>9. Head(l) = l[1] /\ 1 \in 1..Len(list)
    BY <1>1, <1>2, <1>5
  <1> QED
    BY <1>3, <1>5, <1>8, <1>9 DEF l, m, r, t

LEMMA GoneKept ==
    ASSUME NEW list, NEW index, NEW done, NEW n, TypingKept(list, index, done, n), list # <<>>,
           NEW b \in Seq(1..LastChar),
           b = Together(done, SubSeq(list[1].text, index + 1, Len(list[1].text)))
    PROVE  TypingKept(Tail(list), 0, b, n)
  <1> DEFINE l == LeftOf(list, index)
  <1>0. list \in Seq(KbdEvents) /\ index \in Nat /\ done \in Seq(1..LastChar)
    BY AutoKbdAssumption DEF TypingKept
  <1>1. /\ LeftOf(Tail(list), 0) = Tail(l) /\ l # <<>>
        /\ Head(l) = SubSeq(list[1].text, index + 1, Len(list[1].text))
    BY <1>0, LeftTail
  <1>2. l \in Seq(Seq(1..LastChar))
    BY <1>0, LeftTyped
  <1>6. Together(done, FlattenSeq(l)) = CountTo(n) /\ n \in 0..LastChar
    BY DEF TypingKept
  <1> HIDE DEF l
  <1>3. Together(b, FlattenSeq(Tail(l))) = Together(done, FlattenSeq(l))
    BY <1>0, <1>1, <1>2, HeadGone
  <1>4. /\ Tail(list) \in Seq(KbdEvents)
        /\ \A i \in 1..Len(Tail(list)) : Len(Tail(list)[i].text) <= LastChar
    <2>1. /\ Tail(list) \in Seq(KbdEvents) /\ Len(Tail(list)) = Len(list) - 1
          /\ \A i \in 1..Len(Tail(list)) : Tail(list)[i] = list[i + 1]
          /\ Len(list) \in Nat
      BY <1>0, HeadTailProperties
    <2>2. \A i \in 1..Len(list) : Len(list[i].text) <= LastChar
      BY DEF TypingKept
    <2> HIDE <1>0
    <2> QED
      BY <2>1, <2>2
  <1>5. 0 \in 0..LastChar
    BY AutoKbdAssumption
  <1> QED
    BY <1>1, <1>3, <1>4, <1>5, <1>6 DEF TypingKept

LEMMA StringKept ==
    ASSUME NEW list, NEW index, NEW done, NEW n, TypingKept(list, index, done, n), list # <<>>,
           NEW text, text = list[1].text, list[1].kind = "string"
    PROVE  /\ index < Len(text) /\ index + 1 < Len(text) =>
                TypingKept(list, index + 1, Append(done, text[index + 1]), n)
           /\ index < Len(text) /\ index + 1 >= Len(text) =>
                TypingKept(Tail(list), 0, Append(done, text[index + 1]), n)
           /\ ~(index < Len(text)) => TypingKept(Tail(list), 0, done, n)
  <1>0. /\ list \in Seq(KbdEvents) /\ index \in Nat /\ done \in Seq(1..LastChar)
        /\ index + 1 \in Nat /\ n \in 0..LastChar
    BY AutoKbdAssumption DEF TypingKept
  <1>1. list[1] \in KbdEvents /\ Len(list) \in Nat /\ 1 \in 1..Len(list)
    BY <1>0, EmptySeq
  <1>2. text \in Seq(1..LastChar)
    BY <1>1 DEF KbdEvents
  <1>3. Len(text) \in Nat /\ Len(text) <= LastChar
    <2>1. \A i \in 1..Len(list) : Len(list[i].text) <= LastChar
      BY DEF TypingKept
    <2> QED
      BY <1>1, <1>2, <2>1
  <1> DEFINE b == Append(done, text[index + 1])
             r(j) == SubSeq(text, j, Len(text))
  <1>4. index < Len(text) =>
          /\ b \in Seq(1..LastChar)
          /\ Together(b, r(index + 2)) = Together(done, r(index + 1))
          /\ index + 1 = Len(text) => b = Together(done, r(index + 1))
    <2> SUFFICES ASSUME index < Len(text)
                 PROVE  /\ b \in Seq(1..LastChar)
                        /\ Together(b, r(index + 2)) = Together(done, r(index + 1))
                        /\ index + 1 = Len(text) => b = Together(done, r(index + 1))
      OBVIOUS
    <2>1. index + 1 \in 1..Len(text) /\ (index + 1) + 1 = index + 2
      BY <1>0, <1>3
    <2>2. /\ b \in Seq(1..LastChar)
          /\ Together(b, SubSeq(text, (index + 1) + 1, Len(text))) = Together(done, r(index + 1))
          /\ index + 1 = Len(text) => b = Together(done, r(index + 1))
      BY <1>0, <1>2, <2>1, CharTyped
    <2> QED
      BY <2>1, <2>2
  <1>5. ASSUME index < Len(text), index + 1 < Len(text)
        PROVE  TypingKept(list, index + 1, b, n)
    <2> DEFINE l == LeftOf(list, index)
               m == LeftOf(list, index + 1)
    <2>1. /\ l \in Seq(Seq(1..LastChar)) /\ m \in Seq(Seq(1..LastChar))
      BY <1>0, LeftTyped
    <2>2. /\ Tail(m) = Tail(l) /\ l # <<>> /\ m # <<>>
          /\ Head(l) = r(index + 1) /\ Head(m) = SubSeq(text, (index + 1) + 1, Len(text))
      BY <1>0, LeftTail
    <2>3. (index + 1) + 1 = index + 2
      BY <1>0
    <2>4. Together(done, FlattenSeq(l)) = CountTo(n)
      BY DEF TypingKept
    <2> HIDE DEF l, m
    <2>5. b \in Seq(1..LastChar) /\ Together(b, Head(m)) = Together(done, Head(l))
      BY <1>4, <1>5, <2>2, <2>3
    <2>6. Together(b, FlattenSeq(m)) = Together(done, FlattenSeq(l))
      <3> HIDE DEF b
      <3> QED
        BY <1>0, <2>1, <2>2, <2>5, HeadShorter
    <2>7. index + 1 \in 0..LastChar
      BY <1>0, <1>3, <1>5, AutoKbdAssumption
    <2> HIDE DEF b
    <2> QED
      BY <1>0, <1>5, <2>4, <2>5, <2>6, <2>7 DEF TypingKept, m
  <1>6. ASSUME index < Len(text), index + 1 >= Len(text)
        PROVE  TypingKept(Tail(list), 0, b, n)
    <2>1. index + 1 = Len(text)
      BY <1>0, <1>3, <1>6
    <2>2. b \in Seq(1..LastChar) /\ b = Together(done, r(index + 1))
      BY <1>4, <1>6, <2>1
    <2> HIDE DEF b
    <2> QED
      BY <2>2, GoneKept
  <1>7. ASSUME ~(index < Len(text)) PROVE TypingKept(Tail(list), 0, done, n)
    <2>1. r(index + 1) = <<>>
      BY <1>0, <1>3, <1>7, SubSeqEmpty
    <2>2. done = Together(done, r(index + 1))
      BY <1>0, <2>1, ConcatEmptySeq DEF Together
    <2> QED
      BY <1>0, <2>2, GoneKept
  <1> QED
    BY <1>5, <1>6, <1>7

LEMMA FileKept ==
    ASSUME NEW list, NEW index, NEW done, NEW n, TypingKept(list, index, done, n), list # <<>>,
           NEW text, text = list[1].text, list[1].kind = "file"
    PROVE  /\ text = <<>> => TypingKept(Tail(list), 0, done, n)
           /\ text # <<>> => TypingKept([list EXCEPT ![1].text = Tail(@)], index,
                                        Append(done, Head(text)), n)
  <1>0. /\ list \in Seq(KbdEvents) /\ index = 0 /\ done \in Seq(1..LastChar)
        /\ n \in 0..LastChar
    BY DEF TypingKept
  <1>1. list[1] \in KbdEvents /\ Len(list) \in Nat /\ 1 \in 1..Len(list)
    BY <1>0, EmptySeq
  <1>2. text \in Seq(1..LastChar)
    BY <1>1 DEF KbdEvents
  <1>3. Len(text) \in Nat /\ Len(text) <= LastChar
    <2>1. \A i \in 1..Len(list) : Len(list[i].text) <= LastChar
      BY DEF TypingKept
    <2> QED
      BY <1>1, <1>2, <2>1
  <1>4. CASE text = <<>>
    <2>1. SubSeq(text, 1, Len(text)) = <<>>
      BY <1>3, <1>4, SubSeqEmpty
    <2>2. done = Together(done, <<>>)
      BY <1>0, ConcatEmptySeq DEF Together
    <2>3. index + 1 = 1
      BY <1>0
    <2>4. done = Together(done, SubSeq(list[1].text, index + 1, Len(list[1].text)))
      BY <2>1, <2>2, <2>3
    <2> QED
      BY <1>0, <1>4, <2>4, GoneKept
  <1>5. CASE text # <<>>
    <2> DEFINE e == [list[1] EXCEPT !.text = Tail(text)]
               t == [list EXCEPT ![1] = e]
               b == Append(done, Head(text))
               l == LeftOf(list, 0)
               m == LeftOf(t, 0)
    <2>1. /\ Tail(text) \in Seq(1..LastChar) /\ Tail(text) = SubSeq(text, 2, Len(text))
          /\ Len(Tail(text)) = Len(text) - 1 /\ Head(text) = text[1]
          /\ 1 \in 1..Len(text)
      <3>1. /\ Tail(text) \in Seq(1..LastChar) /\ Tail(text) = SubSeq(text, 2, Len(text))
            /\ Len(Tail(text)) = Len(text) - 1
        BY <1>2, <1>5, HeadTailProperties, TailIsSubSeq
      <3>2. Len(text) # 0
        BY <1>2, <1>5, EmptySeq
      <3> QED
        BY <1>2, <1>3, <1>5, <3>1, <3>2
    <2>2. e \in KbdEvents /\ e.text = Tail(text) /\ e.kind = "file"
      BY <1>1, <2>1 DEF KbdEvents
    <2>3. [list EXCEPT ![1].text = Tail(@)] = t
      OBVIOUS
    <2> HIDE DEF e
    <2>4. /\ t \in Seq(KbdEvents) /\ Len(t) = Len(list) /\ t[1] = e
          /\ \A i \in 1..Len(list) : i # 1 => t[i] = list[i]
      BY <1>0, <1>1, <2>2, ExceptSeq
    <2> HIDE DEF t
    <2>5. t # <<>> /\ Tail(t) = Tail(list)
      <3>1. t # <<>>
        BY <1>1, <2>4
      <3>2. /\ Tail(t) \in Seq(KbdEvents) /\ Len(Tail(t)) = Len(list) - 1
            /\ \A i \in 1..Len(Tail(t)) : Tail(t)[i] = t[i + 1]
        BY <2>4, <3>1, HeadTailProperties
      <3>3. /\ Tail(list) \in Seq(KbdEvents) /\ Len(Tail(list)) = Len(list) - 1
            /\ \A i \in 1..Len(Tail(list)) : Tail(list)[i] = list[i + 1]
        BY <1>0, HeadTailProperties
      <3>4. \A i \in 1..Len(Tail(t)) : Tail(t)[i] = Tail(list)[i]
        BY <1>1, <2>4, <3>2, <3>3
      <3> QED
        BY <3>1, <3>2, <3>3, <3>4, SeqEqual
    <2>6. /\ l \in Seq(Seq(1..LastChar)) /\ m \in Seq(Seq(1..LastChar))
      BY <1>0, <2>4, LeftTyped
    <2>7. /\ Tail(m) = Tail(l) /\ l # <<>> /\ m # <<>>
          /\ Head(l) = SubSeq(text, 1, Len(text))
          /\ Head(m) = SubSeq(Tail(text), 1, Len(Tail(text)))
      <3>1. LeftOf(Tail(list), 0) = Tail(l) /\ l # <<>> /\ Head(l) = SubSeq(text, 0 + 1, Len(text))
        BY <1>0, LeftTail
      <3>2. /\ LeftOf(Tail(t), 0) = Tail(m) /\ m # <<>>
            /\ Head(m) = SubSeq(Tail(text), 0 + 1, Len(Tail(text)))
        BY <2>2, <2>4, <2>5, LeftTail
      <3>3. 0 + 1 = 1
        OBVIOUS
      <3> QED
        BY <2>5, <3>1, <3>2, <3>3
    <2>8. SubSeq(Tail(text), 1, Len(Tail(text))) = SubSeq(text, 1 + 1, Len(text))
      <3>1. SubSeq(Tail(text), 1, Len(Tail(text))) = Tail(text)
        BY <2>1, SubSeqFull
      <3>2. 1 + 1 = 2
        OBVIOUS
      <3> QED
        BY <2>1, <3>1, <3>2
    <2>9. /\ Append(done, text[1]) \in Seq(1..LastChar)
          /\ Together(Append(done, text[1]), SubSeq(text, 1 + 1, Len(text))) =
                Together(done, SubSeq(text, 1, Len(text)))
      BY <1>0, <1>2, <2>1, CharTyped
    <2>10. b \in Seq(1..LastChar) /\ Together(b, Head(m)) = Together(done, Head(l))
      BY <2>1, <2>7, <2>8, <2>9
    <2>11. Together(done, FlattenSeq(l)) = CountTo(n)
      BY <1>0 DEF TypingKept
    <2> HIDE DEF b, l, m
    <2>12. Together(b, FlattenSeq(m)) = CountTo(n)
      BY <1>0, <2>6, <2>7, <2>10, <2>11, HeadShorter
    <2>13. \A i \in 1..Len(t) : Len(t[i].text) <= LastChar
      <3>1. \A i \in 1..Len(list) : Len(list[i].text) <= LastChar
        BY DEF TypingKept
      <3>2. Len(t[1].text) <= LastChar
        <4>1. t[1].text = Tail(text)
          BY <2>2, <2>4
        <4>2. Len(t[1].text) = Len(text) - 1
          BY <2>1, <4>1
        <4> HIDE <1>0
        <4> QED
          BY <1>3, <4>2, AutoKbdAssumption
      <3> QED
        BY <2>4, <3>1, <3>2
    <2>14. index \in 0..LastChar
      BY DEF TypingKept
    <2>15. TypingKept(t, index, b, n)
      BY <1>0, <2>4, <2>5, <2>10, <2>12, <2>13, <2>14 DEF TypingKept, m
    <2> QED
      BY <1>5, <2>3, <2>15 DEF b
  <1> QED
    BY <1>4, <1>5

LEMMA KbdInit0 ==
    KbdInit => KbdInv
  <1> SUFFICES ASSUME KbdInit PROVE KbdInv
    OBVIOUS
  <1>1. Len(<<>>) <= LongQueue
    BY AutoKbdAssumption
  <1> QED
    BY <1>1, NothingKept DEF KbdInit, KbdInv

LEMMA KbdNextKept ==
    ASSUME KbdInv, KbdNext
    PROVE  KbdInv'
  <1>0. /\ auto_event_list \in Seq(KbdEvents) /\ asked \in Nat
        /\ Len(auto_event_list) \in Nat
    BY AutoKbdAssumption DEF KbdInv, TypingKept
  <1>1. ASSUME NEW kind \in {"string", "file"}, NEW k \in 0..LastChar, TypeIn(kind, k)
        PROVE  KbdInv'
    <2> DEFINE e == [kind |-> kind, text |-> Text(k)]
    <2>1. e.text = [i \in 1..k |-> asked + i]
      BY DEF Text
    <2>2. asked + k <= LastChar /\ k \in Nat
      BY <1>1, AutoKbdAssumption DEF TypeIn
    <2>3. e.text \in Seq(1..LastChar)
      <3>1. [i \in 1..k |-> asked + i] \in [1..k -> 1..LastChar]
        BY <1>0, <2>2, AutoKbdAssumption
      <3> HIDE DEF e
      <3>2. k \in Nat /\ e.text \in [1..k -> 1..LastChar]
        BY <2>1, <2>2, <3>1
      <3> QED
        BY <3>2, AsSeq
    <2>4. e \in KbdEvents
      BY <2>3 DEF KbdEvents
    <2> HIDE DEF e
    <2>5. TypingKept(Append(auto_event_list, e), command_index, typed, asked + k)
      BY <2>1, <2>2, <2>4, AskedKept DEF KbdInv
    <2>6. /\ auto_event_list' = Append(auto_event_list, e) /\ asked' = asked + k
          /\ command_index' = command_index /\ typed' = typed /\ listening' = TRUE
          /\ Len(auto_event_list) < LongQueue
      BY <1>1 DEF TypeIn, e
    <2>7. /\ Append(auto_event_list, e) # <<>>
          /\ Len(Append(auto_event_list, e)) = Len(auto_event_list) + 1
      BY <1>0, <2>4, AppendProperties
    <2>8. Len(auto_event_list') <= LongQueue
      BY <1>0, <2>6, <2>7, AutoKbdAssumption
    <2>9. TypingKept(auto_event_list', command_index', typed', asked')
      BY <2>5, <2>6
    <2>10. listening' = (auto_event_list' # <<>>)
      BY <2>6, <2>7
    <2> QED
      BY <2>8, <2>9, <2>10 DEF KbdInv
  <1>2. ASSUME TypeString PROVE KbdInv'
    <2>0. auto_event_list # <<>> /\ Head(auto_event_list) = auto_event_list[1]
      BY <1>0, <1>2 DEF TypeString
    <2> DEFINE text == auto_event_list[1].text
    <2>1. auto_event_list[1].kind = "string"
      BY <1>2, <2>0 DEF TypeString
    <2>2. /\ command_index < Len(text) /\ command_index + 1 < Len(text) =>
                TypingKept(auto_event_list, command_index + 1,
                           Append(typed, text[command_index + 1]), asked)
          /\ command_index < Len(text) /\ command_index + 1 >= Len(text) =>
                TypingKept(Tail(auto_event_list), 0,
                           Append(typed, text[command_index + 1]), asked)
          /\ ~(command_index < Len(text)) =>
                TypingKept(Tail(auto_event_list), 0, typed, asked)
      BY <2>0, <2>1, StringKept DEF KbdInv
    <2>3. Len(text) \in Nat /\ command_index \in Nat
      <3>1. auto_event_list[1] \in KbdEvents
        BY <1>0, <2>0
      <3> QED
        BY <3>1, AutoKbdAssumption DEF KbdInv, TypingKept, KbdEvents
    <2>4. /\ listening' = (auto_event_list' # <<>>) /\ asked' = asked
          /\ typed' = IF command_index < Len(text) THEN Append(typed, text[command_index + 1])
                      ELSE typed
      BY <1>2, <2>0 DEF TypeString
    <2>5. \/ /\ command_index < Len(text) /\ command_index + 1 < Len(text)
             /\ command_index' = command_index + 1 /\ auto_event_list' = auto_event_list
          \/ /\ ~(command_index < Len(text) /\ command_index + 1 < Len(text))
             /\ auto_event_list' = Tail(auto_event_list) /\ command_index' = 0
      <3>1. /\ (IF command_index < Len(text) THEN command_index + 1 ELSE command_index)
                  >= Len(text)
            /\ Done
            \/ /\ ~((IF command_index < Len(text) THEN command_index + 1 ELSE command_index)
                      >= Len(text))
               /\ command_index' = command_index + 1 /\ auto_event_list' = auto_event_list
        BY <1>2, <2>0 DEF TypeString
      <3> HIDE DEF text
      <3> QED
        BY <2>3, <3>1 DEF Done
    <2>6. Len(Tail(auto_event_list)) = Len(auto_event_list) - 1
      BY <1>0, <2>0, HeadTailProperties
    <2>7. Len(auto_event_list) <= LongQueue
      BY DEF KbdInv
    <2>8. Len(auto_event_list') <= LongQueue
      BY <1>0, <2>5, <2>6, <2>7, AutoKbdAssumption
    <2>9. TypingKept(auto_event_list', command_index', typed', asked')
      <3> HIDE DEF text
      <3>1. CASE command_index < Len(text) /\ command_index + 1 < Len(text)
        BY <2>2, <2>4, <2>5, <3>1
      <3>2. CASE ~(command_index < Len(text))
        BY <2>2, <2>4, <2>5, <3>2
      <3>3. CASE command_index < Len(text) /\ ~(command_index + 1 < Len(text))
        <4>1. command_index + 1 >= Len(text)
          BY <2>3, <3>3
        <4> QED
          BY <2>2, <2>4, <2>5, <3>3, <4>1
      <3> QED
        BY <3>1, <3>2, <3>3
    <2> QED
      BY <2>4, <2>8, <2>9 DEF KbdInv
  <1>3. ASSUME TypeFile PROVE KbdInv'
    <2>0. auto_event_list # <<>> /\ Head(auto_event_list) = auto_event_list[1]
      BY <1>0, <1>3 DEF TypeFile
    <2> DEFINE text == auto_event_list[1].text
               t == [auto_event_list EXCEPT ![1].text = Tail(@)]
    <2>1. auto_event_list[1].kind = "file"
      BY <1>3, <2>0 DEF TypeFile
    <2>2. /\ text = <<>> => TypingKept(Tail(auto_event_list), 0, typed, asked)
          /\ text # <<>> => TypingKept(t, command_index, Append(typed, Head(text)), asked)
      BY <2>0, <2>1, FileKept DEF KbdInv
    <2>4. listening' = (auto_event_list' # <<>>) /\ asked' = asked
      BY <1>3 DEF TypeFile
    <2>5. \/ /\ text = <<>> /\ typed' = typed
             /\ auto_event_list' = Tail(auto_event_list) /\ command_index' = 0
          \/ /\ text # <<>> /\ typed' = Append(typed, Head(text))
             /\ auto_event_list' = t /\ command_index' = command_index
      BY <1>3, <2>0 DEF TypeFile, Done
    <2>6. Len(Tail(auto_event_list)) = Len(auto_event_list) - 1
      BY <1>0, <2>0, HeadTailProperties
    <2>10. Len(t) = Len(auto_event_list)
      BY <1>0
    <2>7. Len(auto_event_list) <= LongQueue
      BY DEF KbdInv
    <2> HIDE DEF text, t
    <2>8. Len(auto_event_list') <= LongQueue
      BY <1>0, <2>5, <2>6, <2>7, <2>10, AutoKbdAssumption
    <2>9. TypingKept(auto_event_list', command_index', typed', asked')
      BY <2>2, <2>4, <2>5
    <2> QED
      BY <2>4, <2>8, <2>9 DEF KbdInv
  <1>4. ASSUME KbdReplaced PROVE KbdInv'
    <2>1. Len(<<>>) <= LongQueue
      BY AutoKbdAssumption
    <2> QED
      BY <1>4, <2>1, NothingKept DEF KbdReplaced, KbdInv
  <1> QED
    BY <1>1, <1>2, <1>3, <1>4 DEF KbdNext

\* Whatever is queued, and while other things are typed, what was asked for is typed,
\* once and in order, and the keyboard is listened to while something is left.
THEOREM TypesInOrder ==
    KbdSpec => []TypedInOrder
  <1>1. KbdInv /\ [KbdNext]_kbdVars => KbdInv'
    <2> SUFFICES ASSUME KbdInv, [KbdNext]_kbdVars PROVE KbdInv'
      OBVIOUS
    <2>1. CASE UNCHANGED kbdVars
      BY <2>1 DEF kbdVars, KbdInv
    <2> QED
      BY <2>1, KbdNextKept
  <1> QED
    BY <1>1, KbdInit0, KbdInvMeans, PTL DEF KbdSpec

-----------------------------------------------------------------------------
(* The tape's steps *)

LEMMA TapeInitSteady ==
    ASSUME TapeInit
    PROVE  DeckSteady(deck)
  <1>1. PICK machine \in Machines, fast \in BOOLEAN, pad \in BOOLEAN, rewrite \in BOOLEAN :
          deck = [machine |-> machine, motor |-> machine = "mc10",
                  playing |-> machine # "mc10", shown |-> machine # "mc10",
                  input |-> "none", left |-> 0, short_leader |-> FALSE,
                  output |-> FALSE, bit_count |-> 0, have_sync |-> FALSE,
                  tape_fast |-> fast, tape_pad_auto |-> pad, tape_rewrite |-> rewrite,
                  waggle |-> FALSE, flush |-> FALSE, bps |-> {}, press |-> FALSE,
                  split |-> FALSE, spins |-> FALSE]
    BY DEF TapeInit
  <1>2. 0 \in 0..Pulses /\ 0 \in 0..(BitsPerByte - 1)
    BY TapeAssumption
  <1>3. deck \in Decks
    BY <1>1, <1>2 DEF Decks
  <1> QED
    BY <1>1, <1>3 DEF DeckSteady, DeckWell, DeckTurns, Turns

\* What the user, the machine and the debugger's breakpoints set.
LEMMA SettingsWell ==
    ASSUME NEW s, DeckSteady(s), NEW on \in BOOLEAN, NEW left \in 0..Pulses,
           NEW machine \in Machines
    PROVE  /\ DeckWell([s EXCEPT !.motor = on])
           /\ [s EXCEPT !.motor = on].shown = [s EXCEPT !.motor = on].playing
           /\ DeckSteady(SetBreakpoints([s EXCEPT !.tape_fast = on]))
           /\ DeckSteady(SetBreakpoints([s EXCEPT !.tape_pad_auto = on]))
           /\ DeckSteady(SetBreakpoints([s EXCEPT !.tape_rewrite = on,
                                     !.split = @ \/ (~on /\ s.bit_count # 0)]))
           /\ s.input # "none" => DeckWell([s EXCEPT !.left = left])
           /\ [s EXCEPT !.left = left].shown = [s EXCEPT !.left = left].playing
           /\ DeckWell([s EXCEPT !.machine = machine, !.bps = {}, !.press = FALSE])
           /\ DeckSteady([s EXCEPT !.flush = Turns(s)])
           /\ DeckSteady([s EXCEPT !.have_sync = TRUE])
           /\ DeckSteady([s EXCEPT !.press = on])
  <1>0. s \in Decks
    BY DEF DeckSteady, DeckWell
  <1>1. /\ DeckWell([s EXCEPT !.motor = on])
        /\ [s EXCEPT !.motor = on].shown = [s EXCEPT !.motor = on].playing
    <2> DEFINE t == [s EXCEPT !.motor = on]
    <2>1. t \in Decks
      BY <1>0 DEF Decks
    <2>2. \A f \in {"bit_count", "output", "tape_rewrite", "spins", "split", "left", "input",
                    "shown", "playing"} : t[f] = s[f]
      BY <1>0 DEF Decks
    <2> HIDE DEF t
    <2>3. DeckWell(t) /\ t.shown = t.playing
      BY <2>1, <2>2 DEF DeckSteady, DeckWell
    <2> QED
      BY <2>3 DEF t
  <1>2. DeckSteady(SetBreakpoints([s EXCEPT !.tape_fast = on]))
    <2> DEFINE t == [s EXCEPT !.tape_fast = on]
    <2>1. t \in Decks
      BY <1>0 DEF Decks
    <2>2. \A f \in {"bit_count", "output", "tape_rewrite", "spins", "split", "left", "input",
                    "shown", "playing", "motor", "waggle", "flush"} : t[f] = s[f]
      BY <1>0 DEF Decks
    <2> HIDE DEF t
    <2>3. DeckWell(t)
      BY <2>1, <2>2 DEF DeckSteady, DeckWell
    <2>4. DeckSteady(SetBreakpoints(t))
      BY <2>2, <2>3, FlagSteady
    <2> QED
      BY <2>4 DEF t
  <1>3. DeckSteady(SetBreakpoints([s EXCEPT !.tape_pad_auto = on]))
    <2> DEFINE t == [s EXCEPT !.tape_pad_auto = on]
    <2>1. t \in Decks
      BY <1>0 DEF Decks
    <2>2. \A f \in {"bit_count", "output", "tape_rewrite", "spins", "split", "left", "input",
                    "shown", "playing", "motor", "waggle", "flush"} : t[f] = s[f]
      BY <1>0 DEF Decks
    <2> HIDE DEF t
    <2>3. DeckWell(t)
      BY <2>1, <2>2 DEF DeckSteady, DeckWell
    <2>4. DeckSteady(SetBreakpoints(t))
      BY <2>2, <2>3, FlagSteady
    <2> QED
      BY <2>4 DEF t
  <1>4. DeckSteady(SetBreakpoints([s EXCEPT !.tape_rewrite = on,
                                     !.split = @ \/ (~on /\ s.bit_count # 0)]))
    <2> DEFINE t == [s EXCEPT !.tape_rewrite = on, !.split = @ \/ (~on /\ s.bit_count # 0)]
    <2>0. PICK b \in BOOLEAN : b = (s.split \/ (~on /\ s.bit_count # 0))
      OBVIOUS
    <2>1. t \in Decks
      <3>1. t = [s EXCEPT !.tape_rewrite = on, !.split = b]
        BY <2>0
      <3>2. [s EXCEPT !.tape_rewrite = on, !.split = b] \in Decks
        BY <1>0 DEF Decks
      <3> HIDE DEF t
      <3> QED
        BY <3>1, <3>2
    <2>2. /\ \A f \in {"bit_count", "output", "spins", "left", "input",
                       "shown", "playing", "motor", "waggle", "flush"} : t[f] = s[f]
          /\ t.tape_rewrite = on
      BY <1>0 DEF Decks
    <2>5. (~on /\ s.bit_count # 0) \/ s.split => t.split
      BY <1>0 DEF Decks
    <2> HIDE DEF t
    <2>3. DeckWell(t)
      BY <2>1, <2>2, <2>5 DEF DeckSteady, DeckWell
    <2>4. DeckSteady(SetBreakpoints(t))
      BY <2>2, <2>3, FlagSteady
    <2> QED
      BY <2>4 DEF t
  <1>5. /\ s.input # "none" => DeckWell([s EXCEPT !.left = left])
        /\ [s EXCEPT !.left = left].shown = [s EXCEPT !.left = left].playing
    <2> DEFINE t == [s EXCEPT !.left = left]
    <2>1. t \in Decks
      BY <1>0 DEF Decks
    <2>2. \A f \in {"bit_count", "output", "tape_rewrite", "spins", "split", "input",
                    "shown", "playing"} : t[f] = s[f]
      BY <1>0 DEF Decks
    <2> HIDE DEF t
    <2>3. (s.input # "none" => DeckWell(t)) /\ t.shown = t.playing
      BY <2>1, <2>2 DEF DeckSteady, DeckWell
    <2> QED
      BY <2>3 DEF t
  <1>6. DeckWell([s EXCEPT !.machine = machine, !.bps = {}, !.press = FALSE])
    <2> DEFINE t == [s EXCEPT !.machine = machine, !.bps = {}, !.press = FALSE]
    <2>1. t \in Decks
      BY <1>0 DEF Decks
    <2>2. \A f \in {"bit_count", "output", "tape_rewrite", "spins", "split", "input", "left"} :
             t[f] = s[f]
      BY <1>0 DEF Decks
    <2> HIDE DEF t
    <2>3. DeckWell(t)
      BY <2>1, <2>2 DEF DeckSteady, DeckWell
    <2> QED
      BY <2>3 DEF t
  <1>7. DeckSteady([s EXCEPT !.flush = Turns(s)])
    <2> DEFINE t == [s EXCEPT !.flush = Turns(s)]
    <2>0. Turns(s) \in BOOLEAN
      BY DEF Turns
    <2>1. t \in Decks
      BY <1>0, <2>0 DEF Decks
    <2>2. /\ \A f \in {"tape_rewrite", "bit_count", "output", "spins", "split", "input", "left",
                       "motor", "playing", "shown", "waggle", "bps", "tape_fast",
                       "short_leader", "tape_pad_auto"} : t[f] = s[f]
          /\ t.flush = Turns(s)
      BY <1>0 DEF Decks
    <2> HIDE DEF t
    <2>3. DeckWell(t)
      BY <2>1, <2>2 DEF DeckSteady, DeckWell
    <2>4. DeckSteady(t)
      BY <2>2, <2>3 DEF DeckSteady, DeckTurns, Turns, Wanted
    <2> QED
      BY <2>4 DEF t
  <1>8. DeckSteady([s EXCEPT !.have_sync = TRUE])
    <2> DEFINE t == [s EXCEPT !.have_sync = TRUE]
    <2>1. t \in Decks
      BY <1>0 DEF Decks
    <2>2. \A f \in {"tape_rewrite", "bit_count", "output", "spins", "split", "input", "left",
                    "motor", "playing", "shown", "waggle", "bps", "tape_fast", "flush",
                    "short_leader", "tape_pad_auto"} : t[f] = s[f]
      BY <1>0 DEF Decks
    <2> HIDE DEF t
    <2>3. DeckWell(t)
      BY <2>1, <2>2 DEF DeckSteady, DeckWell
    <2>4. DeckSteady(t)
      BY <2>2, <2>3 DEF DeckSteady, DeckTurns, Turns, Wanted
    <2> QED
      BY <2>4 DEF t
  <1>9. DeckSteady([s EXCEPT !.press = on])
    <2> DEFINE t == [s EXCEPT !.press = on]
    <2>1. t \in Decks
      BY <1>0 DEF Decks
    <2>2. \A f \in {"tape_rewrite", "bit_count", "output", "spins", "split", "input", "left",
                    "motor", "playing", "shown", "waggle", "bps", "tape_fast", "flush",
                    "short_leader", "tape_pad_auto"} : t[f] = s[f]
      BY <1>0 DEF Decks
    <2> HIDE DEF t
    <2>3. DeckWell(t)
      BY <2>1, <2>2 DEF DeckSteady, DeckWell
    <2>4. DeckSteady(t)
      BY <2>2, <2>3 DEF DeckSteady, DeckTurns, Turns, Wanted
    <2> QED
      BY <2>4 DEF t
  <1> QED
    BY <1>1, <1>2, <1>3, <1>4, <1>5, <1>6, <1>7, <1>8, <1>9

LEMMA AutorunWell ==
    ASSUME NEW s, DeckSteady(s), NEW input \in Inputs
    PROVE  DeckSteady(Seek([OpenReading(s, input) EXCEPT !.left = Pulses], TRUE))
  <1> DEFINE o == OpenReading(s, input)
             q == [o EXCEPT !.left = Pulses]
  <1>1. DeckSteady(o) /\ o.input # "none"
    BY OpenReadingWell DEF DeckSteady, Inputs
  <1>2. Pulses \in 0..Pulses /\ "dragon" \in Machines
    BY TapeAssumption DEF Machines
  <1> HIDE DEF o
  <1>3. DeckWell(q) /\ q.shown = q.playing
    BY <1>1, <1>2, SettingsWell
  <1> HIDE DEF q
  <1>4. DeckSteady(Seek(q, TRUE))
    BY <1>3, SeekWell
  <1> QED
    BY <1>4 DEF q, o

\* The event's handler: the tape turns, so that only the pulse and what is left change,
\* unless the end of the tape pauses it.
LEMMA WaggleSteady ==
    ASSUME NEW s, DeckSteady(s), s.waggle
    PROVE  DeckSteady(WaggleBit(s, FALSE))
  <1> DEFINE ended == [s EXCEPT !.waggle = FALSE]
  <1>0. s \in Decks /\ DeckWell(s) /\ Turns(s)
    BY DEF DeckSteady, DeckWell, DeckTurns
  <1>1. CASE s.input # "none" /\ s.left > 0
    <2> DEFINE u == [s EXCEPT !.left = @ - 1, !.waggle = TRUE]
    <2>1. WaggleBit(s, FALSE) = u
      BY <1>1 DEF WaggleBit
    <2>2. s.left - 1 \in 0..Pulses
      BY <1>0, <1>1, TapeAssumption DEF Decks
    <2>3. u \in Decks
      BY <1>0, <2>2 DEF Decks
    <2>4. /\ u.waggle
          /\ \A f \in {"tape_rewrite", "bit_count", "output", "spins", "split", "input",
                       "motor", "playing", "shown", "flush", "bps", "tape_fast",
                       "short_leader", "tape_pad_auto"} : u[f] = s[f]
      BY <1>0 DEF Decks
    <2> HIDE DEF u
    <2>5. DeckWell(u)
      BY <1>0, <1>1, <2>3, <2>4 DEF DeckWell
    <2> QED
      BY <1>0, <2>1, <2>4, <2>5 DEF DeckSteady, DeckTurns, Turns, Wanted
  <1>2. CASE ~(s.input # "none" /\ s.left > 0)
    <2>1. ~(s.left > 0)
      BY <1>0, <1>2 DEF DeckWell
    <2>2. ended \in Decks
      BY <1>0 DEF Decks
    <2>3. /\ ~ended.waggle
          /\ \A f \in {"tape_rewrite", "bit_count", "output", "spins", "split", "input",
                       "motor", "playing", "shown", "flush", "bps", "tape_fast", "left",
                       "short_leader", "tape_pad_auto"} : ended[f] = s[f]
      BY <1>0 DEF Decks
    <2>4. WaggleBit(s, FALSE) = IF DefaultPaused(s) THEN Paused(ended) ELSE ended
      BY <1>2 DEF WaggleBit, Sent
    <2> HIDE DEF ended
    <2>5. DeckWell(ended)
      BY <1>0, <2>2, <2>3 DEF DeckWell
    <2>6. CASE DefaultPaused(s)
      <3> DEFINE p == Paused(ended)
      <3>1. DeckWell(p) /\ ~p.waggle /\ ~p.playing /\ ~p.shown /\ p.bps = {}
        BY <2>5, PausedWell
      <3> HIDE DEF p
      <3>2. p.shown = p.playing
        BY <3>1 DEF DeckWell, Decks
      <3> QED
        BY <2>4, <2>6, <3>1, <3>2 DEF p, DeckSteady, DeckTurns, Turns
    <2>7. CASE ~DefaultPaused(s)
      <3>1. DeckSteady(ended)
        BY <2>1, <2>3, <2>5 DEF DeckSteady, DeckTurns, Turns, Wanted
      <3> QED
        BY <2>4, <2>7, <3>1
    <2> QED
      BY <2>6, <2>7
  <1> QED
    BY <1>1, <1>2

LEMMA DeckKept ==
    ASSUME DeckSteady(deck), TapeNext
    PROVE  DeckSteady(deck')
  <1>0. DeckWell(deck) /\ deck.shown = deck.playing /\ deck \in Decks
    BY DEF DeckSteady, DeckWell
  <1>1. ASSUME NEW on \in BOOLEAN, SetMotor(on) PROVE DeckSteady(deck')
    <2> DEFINE q == [deck EXCEPT !.motor = on]
    <2>1. deck' = UpdateMotor(q, FALSE)
      BY <1>1 DEF SetMotor, Deck
    <2>2. Pulses \in 0..Pulses /\ "dragon" \in Machines
      BY TapeAssumption DEF Machines
    <2>3. DeckWell(q) /\ q.shown = q.playing
      BY <2>2, SettingsWell
    <2> HIDE DEF q
    <2> QED
      BY <2>1, <2>3, MotorWell DEF DeckSteady
  <1>2. ASSUME NEW on \in BOOLEAN, SetPlaying(on) PROVE DeckSteady(deck')
    BY <1>0, <1>2, PlayWell DEF SetPlaying, Deck
  <1>3. ASSUME NEW on \in BOOLEAN, SeekOutput(on) PROVE DeckSteady(deck')
    BY <1>0, <1>3, SeekWell DEF SeekOutput, Deck
  <1>4. ASSUME NEW on \in BOOLEAN, SetFast(on) \/ SetPadAuto(on) \/ SetRewrite(on)
        PROVE  DeckSteady(deck')
    <2>2. Pulses \in 0..Pulses /\ "dragon" \in Machines
      BY TapeAssumption DEF Machines
    <2>1. /\ DeckSteady(SetBreakpoints([deck EXCEPT !.tape_fast = on]))
          /\ DeckSteady(SetBreakpoints([deck EXCEPT !.tape_pad_auto = on]))
          /\ DeckSteady(SetBreakpoints([deck EXCEPT !.tape_rewrite = on,
                                     !.split = @ \/ (~on /\ deck.bit_count # 0)]))
      BY <2>2, SettingsWell
    <2> QED
      BY <1>4, <2>1 DEF SetFast, SetPadAuto, SetRewrite, Deck
  <1>5. ASSUME NEW input \in Inputs, InsertInput(input) PROVE DeckSteady(deck')
    <2>1. DeckSteady(OpenReading(deck, input))
      BY <1>0, OpenReadingWell
    <2>2. DeckSteady(OpenReadingFails(deck))
      BY <1>0, CloseReadingWell DEF OpenReadingFails
    <2> QED
      BY <1>5, <2>1, <2>2 DEF InsertInput, Deck
  <1>6. ASSUME NEW input \in Inputs, Autorun(input) PROVE DeckSteady(deck')
    <2> DEFINE rewound == Seek([OpenReading(deck, input) EXCEPT !.left = Pulses], TRUE)
               press == deck.machine = "mc10"
    <2>1. DeckSteady(rewound)
      BY AutorunWell
    <2>2. deck' = rewound \/ deck' = [rewound EXCEPT !.press = press]
      BY <1>6 DEF Autorun, Deck
    <2>3. Pulses \in 0..Pulses /\ "dragon" \in Machines /\ press \in BOOLEAN
      BY TapeAssumption DEF Machines
    <2> HIDE DEF rewound, press
    <2>4. DeckSteady([rewound EXCEPT !.press = press])
      BY <2>1, <2>3, SettingsWell
    <2> QED
      BY <2>1, <2>2, <2>4
  <1>7. ASSUME NEW left \in 0..Pulses, SeekInput(left) PROVE DeckSteady(deck')
    <2> DEFINE q == [deck EXCEPT !.left = left]
    <2>1. "dragon" \in Machines /\ TRUE \in BOOLEAN
      BY DEF Machines
    <2>2. DeckWell(q) /\ q.shown = q.playing
      BY <1>7, <2>1, SettingsWell DEF SeekInput
    <2>3. deck' = Seek(q, left = Pulses) /\ (left = Pulses) \in BOOLEAN
      BY <1>7 DEF SeekInput, Deck
    <2> HIDE DEF q
    <2> QED
      BY <2>2, <2>3, SeekWell
  <1>8. ASSUME NEW machine \in Machines, SwitchMachine(machine) PROVE DeckSteady(deck')
    <2> DEFINE q == [deck EXCEPT !.machine = machine, !.bps = {}, !.press = FALSE]
    <2>1. Pulses \in 0..Pulses /\ TRUE \in BOOLEAN
      BY TapeAssumption
    <2>2. DeckWell(q)
      BY <2>1, SettingsWell
    <2>3. deck' = Reset(q)
      BY <1>8 DEF SwitchMachine, Deck
    <2> HIDE DEF q
    <2> QED
      BY <2>2, <2>3, ResetWell
  <1>9. ASSUME NEW kind \in {"string", "file"}, NEW k \in 0..LastChar, TypeText(kind, k)
        PROVE  DeckSteady(deck')
    BY <1>9 DEF TypeText
  <1>10. CASE EjectInput
    <2>1. FALSE \in BOOLEAN
      OBVIOUS
    <2> QED
      BY <1>0, <1>10, <2>1, CloseReadingWell DEF EjectInput, Deck
  <1>11. CASE InsertOutput \/ EjectOutput
    BY <1>0, <1>11, OpenWritingWell, CloseWritingWell DEF InsertOutput, EjectOutput, Deck
  <1>12. CASE ResetMachine
    BY <1>0, <1>12, ResetWell DEF ResetMachine, Deck
  <1>13. CASE PressPlay
    <2> DEFINE p == Play(deck, TRUE)
    <2>1. DeckSteady(p)
      BY <1>0, PlayWell
    <2>2. deck' = [p EXCEPT !.press = FALSE]
      BY <1>13 DEF PressPlay, Deck
    <2>3. Pulses \in 0..Pulses /\ "dragon" \in Machines /\ FALSE \in BOOLEAN
      BY TapeAssumption DEF Machines
    <2> HIDE DEF p
    <2> QED
      BY <2>1, <2>2, <2>3, SettingsWell
  <1>14. CASE WaggleEvent
    <2> DEFINE t == WaggleBit(deck, FALSE)
    <2>1. deck' = t /\ deck.waggle
      BY <1>14 DEF WaggleEvent, Deck
    <2> HIDE DEF t
    <2> QED
      BY <2>1, WaggleSteady DEF t
  <1>15. CASE FlushEvent
    <2>1. deck' = [deck EXCEPT !.flush = Turns(deck)]
      BY <1>15 DEF FlushEvent, Deck
    <2>2. Pulses \in 0..Pulses /\ "dragon" \in Machines /\ TRUE \in BOOLEAN
      BY TapeAssumption DEF Machines
    <2> QED
      BY <2>1, <2>2, SettingsWell
  <1>16. CASE FastRead
    <2>1. PICK s \in Advanced(deck) : deck' = s
      BY <1>16 DEF FastRead, Deck
    <2>2. deck.bps # {}
      BY <1>16 DEF FastRead
    <2> QED
      BY <2>1, <2>2, AdvancedSteady
  <1>17. CASE FastBitin
    <2>1. PICK s \in Advanced(deck) : deck' = IF s.tape_rewrite THEN RewriteBitin(s) ELSE s
      BY <1>17 DEF FastBitin, Deck
    <2>2. deck.bps # {}
      BY <1>17 DEF FastBitin
    <2>3. DeckSteady(s)
      BY <2>2, AdvancedSteady
    <2> QED
      BY <2>1, <2>3, BitSteady
  <1>18. CASE RewriteBit
    <2>1. deck.tape_rewrite /\ deck' = RewriteBitin(deck)
      BY <1>18 DEF RewriteBit, Deck, DeckSteady, DeckTurns
    <2> QED
      BY <2>1, BitSteady
  <1>19. CASE RewriteSync
    <2>1. deck' = [deck EXCEPT !.have_sync = TRUE]
      BY <1>19 DEF RewriteSync, Deck
    <2>2. Pulses \in 0..Pulses /\ "dragon" \in Machines /\ TRUE \in BOOLEAN
      BY TapeAssumption DEF Machines
    <2> QED
      BY <2>1, <2>2, SettingsWell
  <1>20. CASE RewriteGap
    BY <1>0, <1>20, DesyncWell DEF RewriteGap, Deck
  <1>21. CASE TypeKey
    BY <1>21 DEF TypeKey
  <1> QED
    BY <1>1, <1>2, <1>3, <1>4, <1>5, <1>6, <1>7, <1>8, <1>9, <1>10, <1>11, <1>12, <1>13,
       <1>14, <1>15, <1>16, <1>17, <1>18, <1>19, <1>20, <1>21
    DEF TapeNext

\* What a step of the tape's does to the keyboard is a step of the keyboard's.
LEMMA TapeTypes ==
    ASSUME KbdInv, TapeNext
    PROVE  [KbdNext]_kbdVars
  <1> SUFFICES KbdNext \/ UNCHANGED kbdVars
    OBVIOUS
  <1>1. ASSUME NEW input \in Inputs, Autorun(input) PROVE KbdNext \/ UNCHANGED kbdVars
    <2>1. CASE TypeIn("string", 1)
      <3>1. 1 \in 0..LastChar
        BY <2>1, AutoKbdAssumption DEF TypeIn, KbdInv, TypingKept
      <3> QED
        BY <2>1, <3>1 DEF KbdNext
    <2> QED
      BY <1>1, <2>1 DEF Autorun
  <1>2. ASSUME NEW kind \in {"string", "file"}, NEW k \in 0..LastChar, TypeText(kind, k)
        PROVE  KbdNext
    BY <1>2 DEF TypeText, KbdNext
  <1>3. ASSUME NEW machine \in Machines, SwitchMachine(machine) PROVE KbdNext
    BY <1>3 DEF SwitchMachine, KbdNext
  <1>4. TypeKey => KbdNext
    BY DEF TypeKey, KbdNext
  <1> QED
    BY <1>1, <1>2, <1>3, <1>4
    DEF TapeNext, SetMotor, SetPlaying, SeekOutput, SetFast, SetPadAuto, SetRewrite,
        InsertInput, SeekInput, EjectInput, InsertOutput, EjectOutput, ResetMachine, PressPlay,
        WaggleEvent, FlushEvent, FastRead, FastBitin, RewriteBit, RewriteSync, RewriteGap

TapeInv == DeckSteady(deck) /\ KbdInv

LEMMA TapeInvMeans ==
    TapeInv => TapeTurns /\ TypedInOrder
  <1> SUFFICES ASSUME TapeInv PROVE TapeTurns /\ TypedInOrder
    OBVIOUS
  <1>1. KbdOK /\ TypedInOrder
    BY KbdInvMeans DEF TapeInv
  <1>2. deck \in Decks /\ deck.shown = deck.playing
    BY DEF TapeInv, DeckSteady, DeckWell
  <1>3. (deck.bit_count # 0 /\ ~deck.output) \/ deck.spins => deck.split
    BY DEF TapeInv, DeckSteady, DeckWell
  <1>4. DeckTurns(deck)
    BY DEF TapeInv, DeckSteady
  <1> QED
    BY <1>1, <1>2, <1>3, <1>4 DEF DeckTurns, TapeTurns, TapeOK

\* Through every insertion, ejection, seek, reset, message and event the pulses, the
\* flushing of output, the breakpoints and the user interface are as the tape turns, and
\* a byte begun on an output tape is padded on it, whatever a tape holds.
THEOREM TapeAgrees ==
    TapeSpec => [](TapeTurns /\ TypedInOrder)
  <1>1. TapeInit => TapeInv
    BY TapeInitSteady, KbdInit0 DEF TapeInit, TapeInv
  <1>2. TapeInv /\ [TapeNext]_tapeVars => TapeInv'
    <2> SUFFICES ASSUME TapeInv, [TapeNext]_tapeVars PROVE TapeInv'
      OBVIOUS
    <2>1. CASE UNCHANGED tapeVars
      BY <2>1 DEF tapeVars, kbdVars, TapeInv, KbdInv
    <2>2. CASE TapeNext
      <3>1. DeckSteady(deck')
        BY <2>2, DeckKept DEF TapeInv
      <3>2. [KbdNext]_kbdVars
        BY <2>2, TapeTypes DEF TapeInv
      <3>3. KbdInv'
        <4>1. CASE UNCHANGED kbdVars
          BY <4>1 DEF kbdVars, TapeInv, KbdInv
        <4> QED
          BY <3>2, <4>1, KbdNextKept DEF TapeInv
      <3> QED
        BY <3>1, <3>3 DEF TapeInv
    <2> QED
      BY <2>1, <2>2
  <1> QED
    BY <1>1, <1>2, TapeInvMeans, PTL DEF TapeSpec

-----------------------------------------------------------------------------
(* The Becker port *)

\* What was written and not thrown away, byte by byte.
Written(n, lost) == [i \in 1..n |-> IF i \in lost THEN <<>> ELSE <<i>>]

BeckerKept(b) ==
    /\ b \in Beckers
    /\ Together(Together(b.read, b.input), b.wire) = CountTo(b.sent)
    /\ Together(b.got, Unsent(b)) = FlattenSeq(Written(b.written, b.lost))
    /\ b.lost \subseteq 1..b.written
    /\ \A i \in b.lost : i > b.emptied => i > b.emptied + OUTPUT_BUFFER_SIZE
    /\ Len(b.output) <= OUTPUT_BUFFER_SIZE /\ b.output_buf_ptr <= Len(b.output)
    /\ b.emptied + Len(b.output) <= b.written

LEMMA BeckerKeptMeans ==
    BeckerKept(becker) => BytesCarried
  <1> SUFFICES ASSUME BeckerKept(becker) PROVE BytesCarried
    OBVIOUS
  <1>1. becker.read \o becker.input \o becker.wire = [i \in 1..becker.sent |-> i]
    BY DEF BeckerKept, Together, CountTo
  <1>2. becker.got \o Unsent(becker) =
           FlattenSeq([i \in 1..becker.written |-> IF i \in becker.lost THEN <<>> ELSE <<i>>])
    BY DEF BeckerKept, Together, Written
  <1> QED
    BY <1>1, <1>2 DEF BeckerKept, BytesCarried, BeckerOK

\* A sequence in two parts.
LEMMA Parted ==
    ASSUME NEW S, NEW s \in Seq(S), NEW n \in 0..Len(s)
    PROVE  /\ SubSeq(s, 1, n) \in Seq(S) /\ Len(SubSeq(s, 1, n)) = n
           /\ SubSeq(s, n + 1, Len(s)) \in Seq(S)
           /\ Together(SubSeq(s, 1, n), SubSeq(s, n + 1, Len(s))) = s
  <1>0. Len(s) \in Nat /\ \A i \in 1..Len(s) : s[i] \in S
    BY ElementOfSeq
  <1>1. \A i \in 1..n : s[i] \in S
    BY <1>0
  <1>2. \A i \in (n + 1)..Len(s) : s[i] \in S
    BY <1>0
  <1>3. SubSeq(s, 1, n) \in Seq(S) /\ Len(SubSeq(s, 1, n)) = n
    BY <1>0, <1>1, SubSeqProperties
  <1>4. SubSeq(s, n + 1, Len(s)) \in Seq(S)
    BY <1>0, <1>2, SubSeqProperties
  <1>5. SubSeq(s, 1, n) \o SubSeq(s, n + 1, Len(s)) = SubSeq(s, 1, Len(s))
    <2>1. 1 \in 1..(Len(s) + 1) /\ n \in (1 - 1)..Len(s) /\ Len(s) \in n..Len(s)
      BY <1>0
    <2> QED
      BY <2>1, ConcatAdjacentSubSeq
  <1> QED
    BY <1>3, <1>4, <1>5, SubSeqFull DEF Together

LEMMA HeadMoves ==
    ASSUME NEW S, NEW a \in Seq(S), NEW b \in Seq(S), b # <<>>
    PROVE  /\ Append(a, Head(b)) \in Seq(S) /\ Tail(b) \in Seq(S)
           /\ Together(Append(a, Head(b)), Tail(b)) = Together(a, b)
  <1>1. /\ Len(b) \in Nat /\ 1 \in 1..Len(b) /\ Head(b) = b[1] /\ Tail(b) \in Seq(S)
        /\ Tail(b) = SubSeq(b, 2, Len(b))
    BY EmptySeq, HeadTailProperties, TailIsSubSeq
  <1>2. /\ Append(a, b[1]) \in Seq(S)
        /\ Together(Append(a, b[1]), SubSeq(b, 1 + 1, Len(b))) =
              Together(a, SubSeq(b, 1, Len(b)))
    BY <1>1, CharTyped
  <1>3. SubSeq(b, 1, Len(b)) = b /\ 1 + 1 = 2
    BY SubSeqFull
  <1> QED
    BY <1>1, <1>2, <1>3

LEMMA OneOrNone ==
    ASSUME NEW S, NEW x \in S
    PROVE  <<x>> \in Seq(S) /\ <<>> \in Seq(S)
  OBVIOUS

LEMMA AppendTogether ==
    ASSUME NEW S, NEW a \in Seq(S), NEW b \in Seq(S), NEW x \in S
    PROVE  /\ Append(b, x) \in Seq(S)
           /\ Together(a, Append(b, x)) = Together(Together(a, b), <<x>>)
  <1> DEFINE e == <<x>>
             l == Append(b, x)
  <1>1. l = Together(b, e) /\ l \in Seq(S)
    BY AppendIsConcat DEF Together
  <1>2. e \in Seq(S)
    BY OneOrNone
  <1> HIDE DEF e, l
  <1>3. \A q, r, s \in Seq(S) : Together(Together(q, r), s) = Together(q, Together(r, s))
    BY InAnyOrder
  <1>4. Together(Together(a, b), e) = Together(a, Together(b, e))
    BY <1>2, <1>3, Zenon
  <1> QED
    BY <1>1, <1>4 DEF e, l

\* The same, of every two sequences.
LEMMA AppendsTogether ==
    ASSUME NEW n, NEW x \in 1..n
    PROVE  \A a, b \in Seq(1..n) :
              /\ Append(b, x) \in Seq(1..n)
              /\ Together(a, Append(b, x)) = Together(Together(a, b), <<x>>)
  <1> DEFINE S == 1..n
  <1>1. x \in S
    OBVIOUS
  <1> HIDE DEF S
  <1>2. ASSUME NEW a \in Seq(S), NEW b \in Seq(S)
        PROVE  /\ Append(b, x) \in Seq(S)
               /\ Together(a, Append(b, x)) = Together(Together(a, b), <<x>>)
    BY <1>1, AppendTogether
  <1> QED
    BY <1>2, Zenon DEF S

LEMMA CountOne ==
    ASSUME NEW n \in Nat
    PROVE  Together(CountTo(n), <<n + 1>>) = CountTo(n + 1)
  <1>1. <<n + 1>> = [i \in 1..1 |-> n + i]
    OBVIOUS
  <1> QED
    BY <1>1, CountedOn

LEMMA WrittenTyped ==
    ASSUME NEW n \in Nat, NEW lost
    PROVE  Written(n, lost) \in Seq(Seq(1..n)) /\ Len(Written(n, lost)) = n
  <1>1. ASSUME NEW i \in 1..n PROVE Written(n, lost)[i] \in Seq(1..n)
    <2>1. Written(n, lost)[i] = IF i \in lost THEN <<>> ELSE <<i>>
      BY DEF Written
    <2>2. <<i>> \in Seq(1..n) /\ <<>> \in Seq(1..n)
      BY OneOrNone
    <2> QED
      BY <2>1, <2>2
  <1>2. Written(n, lost) = [i \in 1..n |-> Written(n, lost)[i]]
    BY DEF Written
  <1>3. Written(n, lost) \in [1..n -> Seq(1..n)]
    BY <1>1, <1>2
  <1> QED
    BY <1>3, AsSeq

LEMMA WrittenNext ==
    ASSUME NEW n \in Nat, NEW lost \in SUBSET (1..n), NEW more \in {{}, {n + 1}}
    PROVE  FlattenSeq(Written(n + 1, lost \union more)) =
              Together(FlattenSeq(Written(n, lost)), IF more = {} THEN <<n + 1>> ELSE <<>>)
  <1> DEFINE S == 1..(n + 1)
             w == Written(n, lost)
             v == Written(n + 1, lost \union more)
             e == IF more = {} THEN <<n + 1>> ELSE <<>>
             a == Append(w, e)
  <1>1. w \in Seq(Seq(S)) /\ Len(w) = n
    <2>1. ASSUME NEW i \in 1..n PROVE w[i] \in Seq(S)
      <3>1. w[i] = IF i \in lost THEN <<>> ELSE <<i>>
        BY DEF Written
      <3>2. <<i>> \in Seq(S) /\ <<>> \in Seq(S)
        BY OneOrNone
      <3> HIDE DEF w, S
      <3> QED
        BY <3>1, <3>2
    <2>2. w = [i \in 1..n |-> w[i]]
      BY DEF Written
    <2> HIDE DEF w, S
    <2>3. w \in [1..n -> Seq(S)]
      BY <2>1, <2>2
    <2> QED
      BY <2>3, AsSeq
  <1>2. v \in Seq(Seq(S)) /\ Len(v) = n + 1
    BY WrittenTyped
  <1>3. e \in Seq(S)
    <2>1. <<n + 1>> \in Seq(S) /\ <<>> \in Seq(S)
      BY OneOrNone
    <2> HIDE DEF S
    <2> QED
      BY <2>1
  <1>4. \A i \in 1..n : v[i] = w[i]
    BY DEF Written
  <1>5. v[n + 1] = e
    BY DEF Written
  <1> HIDE DEF w, v, e, S
  <1>6. /\ a \in Seq(Seq(S)) /\ Len(a) = n + 1
        /\ (\A i \in 1..n : a[i] = w[i]) /\ a[n + 1] = e
    BY <1>1, <1>3, AppendProperties
  <1> HIDE DEF a
  <1>7. \A i \in 1..(n + 1) : v[i] = a[i]
    BY <1>4, <1>5, <1>6
  <1>8. v = a
    BY <1>2, <1>6, <1>7, SeqEqual
  <1>9. FlattenSeq(a) = Together(FlattenSeq(w), e)
    BY <1>1, <1>3, FlattenAppend DEF a, Together
  <1> QED
    BY <1>8, <1>9 DEF v, w, e

\* What the program is read and what it writes are kept apart.
ReadKept(b) ==
    Together(Together(b.read, b.input), b.wire) = CountTo(b.sent)

WroteKept(b) ==
    /\ Together(b.got, Unsent(b)) = FlattenSeq(Written(b.written, b.lost))
    /\ b.lost \subseteq 1..b.written
    /\ \A i \in b.lost : i > b.emptied => i > b.emptied + OUTPUT_BUFFER_SIZE
    /\ Len(b.output) <= OUTPUT_BUFFER_SIZE /\ b.output_buf_ptr <= Len(b.output)
    /\ b.emptied + Len(b.output) <= b.written

LEMMA BeckerIs ==
    ASSUME NEW b
    PROVE  BeckerKept(b) <=> b \in Beckers /\ ReadKept(b) /\ WroteKept(b)
  BY DEF BeckerKept, ReadKept, WroteKept

LEMMA FetchKept ==
    ASSUME NEW b, BeckerKept(b), NEW n \in Available(b)
    PROVE  BeckerKept(FetchInput(b, n))
  <1>0. b \in Beckers /\ ReadKept(b) /\ WroteKept(b)
    BY BeckerIs
  <1>1. CASE b.input = <<>>
    <2> DEFINE w == b.wire
               c == [b EXCEPT !.input = SubSeq(b.wire, 1, n),
                              !.wire = SubSeq(b.wire, n + 1, Len(b.wire))]
    <2>1. w \in Seq(1..LastByte) /\ b.read \in Seq(1..LastByte)
      BY <1>0 DEF Beckers
    <2>2. n \in 0..Len(w)
      <3>1. Len(w) \in Nat
        BY <2>1
      <3> QED
        BY <3>1, BeckerAssumption DEF Available
    <2>3. /\ SubSeq(w, 1, n) \in Seq(1..LastByte) /\ SubSeq(w, n + 1, Len(w)) \in Seq(1..LastByte)
          /\ Together(SubSeq(w, 1, n), SubSeq(w, n + 1, Len(w))) = w
      <3> HIDE DEF w
      <3> QED
        BY <2>1, <2>2, Parted
    <2>4. c \in Beckers
      BY <1>0, <2>3 DEF Beckers
    <2>5. /\ c.input = SubSeq(w, 1, n) /\ c.wire = SubSeq(w, n + 1, Len(w))
          /\ \A f \in {"read", "sent", "got", "output", "output_buf_ptr", "written", "lost",
                       "emptied"} : c[f] = b[f]
      BY <1>0 DEF Beckers
    <2>6. Together(b.read, <<>>) = b.read
      BY <2>1, ConcatEmptySeq DEF Together
    <2>7. Together(b.read, w) = CountTo(b.sent)
      BY <1>0, <1>1, <2>6 DEF ReadKept
    <2>8. FetchInput(b, n) = c
      BY <1>1 DEF FetchInput
    <2> HIDE DEF c, w
    <2>9. Together(Together(b.read, c.input), c.wire) = Together(b.read, w)
      <3>1. \A x, y, z \in Seq(1..LastByte) :
               Together(Together(x, y), z) = Together(x, Together(y, z))
        BY InAnyOrder
      <3>2. /\ c.input \in Seq(1..LastByte) /\ c.wire \in Seq(1..LastByte)
            /\ Together(c.input, c.wire) = w
        BY <2>3, <2>5
      <3> QED
        BY <2>1, <3>1, <3>2, Zenon
    <2>10. ReadKept(c)
      BY <2>5, <2>7, <2>9 DEF ReadKept
    <2>11. WroteKept(c)
      BY <1>0, <2>5 DEF WroteKept, Unsent
    <2> QED
      BY <2>4, <2>8, <2>10, <2>11, BeckerIs
  <1>2. CASE b.input # <<>>
    BY <1>2 DEF FetchInput
  <1> QED
    BY <1>1, <1>2

LEMMA ReadOne ==
    ASSUME NEW b, BeckerKept(b), b.input # <<>>
    PROVE  BeckerKept([b EXCEPT !.input = Tail(@), !.read = Append(@, Head(b.input))])
  <1> DEFINE c == [b EXCEPT !.input = Tail(@), !.read = Append(@, Head(b.input))]
  <1>0. b \in Beckers /\ ReadKept(b) /\ WroteKept(b)
    BY BeckerIs
  <1>1. b.input \in Seq(1..LastByte) /\ b.read \in Seq(1..LastByte)
    BY <1>0 DEF Beckers
  <1>2. /\ Append(b.read, Head(b.input)) \in Seq(1..LastByte) /\ Tail(b.input) \in Seq(1..LastByte)
        /\ Together(Append(b.read, Head(b.input)), Tail(b.input)) = Together(b.read, b.input)
    BY <1>1, HeadMoves
  <1>3. c \in Beckers
    BY <1>0, <1>2 DEF Beckers
  <1>4. /\ c.input = Tail(b.input) /\ c.read = Append(b.read, Head(b.input))
        /\ \A f \in {"wire", "sent", "got", "output", "output_buf_ptr", "written", "lost",
                     "emptied"} : c[f] = b[f]
    BY <1>0 DEF Beckers
  <1> HIDE DEF c
  <1>5. ReadKept(c)
    BY <1>0, <1>2, <1>4 DEF ReadKept
  <1>6. WroteKept(c)
    BY <1>0, <1>4 DEF WroteKept, Unsent
  <1>7. BeckerKept(c)
    BY <1>3, <1>5, <1>6, BeckerIs
  <1> QED
    BY <1>7 DEF c

LEMMA SendOne ==
    ASSUME NEW b, BeckerKept(b), b.sent < LastByte
    PROVE  BeckerKept([b EXCEPT !.sent = @ + 1, !.wire = Append(@, b.sent + 1)])
  <1> DEFINE c == [b EXCEPT !.sent = @ + 1, !.wire = Append(@, b.sent + 1)]
             x == b.sent + 1
             p == Together(b.read, b.input)
  <1>0. b \in Beckers /\ ReadKept(b) /\ WroteKept(b)
    BY BeckerIs
  <1>1. /\ b.input \in Seq(1..LastByte) /\ b.read \in Seq(1..LastByte)
        /\ b.wire \in Seq(1..LastByte) /\ b.sent \in Nat /\ x \in 1..LastByte /\ x \in 0..LastByte
    BY <1>0, BeckerAssumption DEF Beckers
  <1>2. p \in Seq(1..LastByte)
    BY <1>1, TogetherIs
  <1>3. Together(CountTo(b.sent), <<x>>) = CountTo(x)
    BY <1>1, CountOne
  <1> HIDE DEF x, p
  <1>4. /\ Append(b.wire, x) \in Seq(1..LastByte)
        /\ Together(p, Append(b.wire, x)) = Together(Together(p, b.wire), <<x>>)
    <2>1. \A q, r \in Seq(1..LastByte) :
             /\ Append(r, x) \in Seq(1..LastByte)
             /\ Together(q, Append(r, x)) = Together(Together(q, r), <<x>>)
      BY <1>1, AppendsTogether, Zenon
    <2> QED
      BY <1>1, <1>2, <2>1, Zenon
  <1>5. c = [b EXCEPT !.sent = x, !.wire = Append(b.wire, x)]
    BY DEF x
  <1> HIDE DEF c
  <1>6. c \in Beckers
    BY <1>0, <1>1, <1>4, <1>5 DEF Beckers
  <1>7. /\ c.sent = x /\ c.wire = Append(b.wire, x)
        /\ \A f \in {"read", "input", "got", "output", "output_buf_ptr", "written", "lost",
                     "emptied"} : c[f] = b[f]
    BY <1>0, <1>5 DEF Beckers
  <1>8. ReadKept(c)
    <2>1. Together(p, b.wire) = CountTo(b.sent)
      BY <1>0 DEF ReadKept, p
    <2> QED
      BY <1>3, <1>4, <1>7, <2>1 DEF ReadKept, p
  <1>9. WroteKept(c)
    BY <1>0, <1>7 DEF WroteKept, Unsent
  <1>10. BeckerKept(c)
    BY <1>6, <1>8, <1>9, BeckerIs
  <1> QED
    BY <1>10 DEF c

\* The program's next byte, before the socket is tried.
Queued(b) ==
    [IF Len(b.output) < OUTPUT_BUFFER_SIZE
     THEN [b EXCEPT !.output = Append(@, b.written + 1)]
     ELSE [b EXCEPT !.lost = @ \union {b.written + 1}]
     EXCEPT !.written = b.written + 1]

LEMMA QueueKept ==
    ASSUME NEW b, BeckerKept(b), b.written < LastByte
    PROVE  BeckerKept(Queued(b))
  <1> DEFINE x == b.written + 1
             u == Unsent(b)
  <1>0. b \in Beckers /\ ReadKept(b) /\ WroteKept(b)
    BY BeckerIs
  <1>1. /\ b.output \in Seq(1..LastByte) /\ b.got \in Seq(1..LastByte)
        /\ b.written \in Nat /\ x \in 1..LastByte /\ x \in 0..LastByte /\ Len(b.output) \in Nat
        /\ b.output_buf_ptr \in Nat /\ b.emptied \in Nat /\ b.lost \subseteq 1..b.written
    BY <1>0, BeckerAssumption DEF Beckers, WroteKept
  <1>2. u \in Seq(1..LastByte)
    <2>1. \A i \in 1..Len(b.output) : b.output[i] \in 1..LastByte
      BY <1>1, ElementOfSeq
    <2>2. \A i \in (b.output_buf_ptr + 1)..Len(b.output) : b.output[i] \in 1..LastByte
      BY <1>1, <2>1
    <2> QED
      BY <1>1, <2>2, SubSeqProperties DEF Unsent
  <1>3. CASE Len(b.output) < OUTPUT_BUFFER_SIZE
    <2> DEFINE o == Append(b.output, x)
               c == [b EXCEPT !.output = o, !.written = x]
    <2>1. /\ o \in Seq(1..LastByte) /\ Len(o) = Len(b.output) + 1
          /\ (\A i \in 1..Len(b.output) : o[i] = b.output[i]) /\ o[Len(b.output) + 1] = x
      <3> HIDE DEF x
      <3> QED
        BY <1>1, AppendProperties
    <2>2. Queued(b) = c
      BY <1>3 DEF Queued
    <2> HIDE DEF o
    <2>3. c \in Beckers
      BY <1>0, <1>1, <2>1 DEF Beckers
    <2>4. /\ c.output = o /\ c.written = x
          /\ \A f \in {"read", "input", "wire", "sent", "got", "output_buf_ptr", "lost",
                       "emptied"} : c[f] = b[f]
      BY <1>0 DEF Beckers
    <2> HIDE DEF c
    <2>5. Unsent(c) = Append(u, x)
      <3> DEFINE m == b.output_buf_ptr + 1
                 n == Len(b.output)
      <3>1. m \in 1..(n + 1) /\ n \in Nat
        BY <1>0, <1>1 DEF WroteKept
      <3>2. Unsent(c) = SubSeq(o, m, n + 1)
        BY <2>1, <2>4 DEF Unsent
      <3>3. u = SubSeq(b.output, m, n)
        BY DEF Unsent
      <3>4. \A i \in m..n : b.output[i] \in 1..LastByte
        <4>1. \A i \in 1..n : b.output[i] \in 1..LastByte
          BY <1>1, ElementOfSeq
        <4> QED
          BY <3>1, <4>1
      <3>5. \A i \in m..(n + 1) : o[i] \in 1..LastByte
        <4> SUFFICES ASSUME NEW i \in m..(n + 1) PROVE o[i] \in 1..LastByte
          OBVIOUS
        <4>1. CASE i <= n
          <5>1. i \in m..n /\ i \in 1..Len(b.output)
            BY <3>1, <4>1
          <5>2. o[i] = b.output[i]
            BY <2>1, <5>1
          <5> HIDE DEF m, n
          <5> QED
            BY <3>4, <5>1, <5>2
        <4>2. CASE ~(i <= n)
          <5>1. i = Len(b.output) + 1
            BY <3>1, <4>2
          <5> HIDE DEF x
          <5> QED
            BY <1>1, <2>1, <5>1
        <4> QED
          BY <4>1, <4>2
      <3> HIDE DEF m, n, x, u
      <3>6. /\ Len(SubSeq(b.output, m, n)) = IF m <= n THEN n - m + 1 ELSE 0
            /\ \A i \in 1..(n - m + 1) : SubSeq(b.output, m, n)[i] = b.output[m + i - 1]
        BY <3>1, <3>4, SubSeqProperties
      <3>7. /\ SubSeq(o, m, n + 1) \in Seq(1..LastByte)
            /\ Len(SubSeq(o, m, n + 1)) = IF m <= n + 1 THEN (n + 1) - m + 1 ELSE 0
            /\ \A i \in 1..((n + 1) - m + 1) : SubSeq(o, m, n + 1)[i] = o[m + i - 1]
        BY <3>1, <3>5, SubSeqProperties
      <3> DEFINE r == SubSeq(o, m, n + 1)
                 a == Append(u, x)
      <3>8. /\ a \in Seq(1..LastByte) /\ Len(a) = Len(u) + 1
            /\ (\A i \in 1..Len(u) : a[i] = u[i]) /\ a[Len(u) + 1] = x
        BY <1>1, <1>2, AppendProperties
      <3> HIDE DEF r, a
      <3>9. Len(u) = n - m + 1
        BY <3>1, <3>3, <3>6
      <3>10. Len(r) = Len(a) /\ r \in Seq(1..LastByte)
        BY <3>1, <3>7, <3>8, <3>9 DEF r
      <3>11. ASSUME NEW i \in 1..Len(r) PROVE r[i] = a[i]
        <4>1. i \in 1..((n + 1) - m + 1) /\ r[i] = o[m + i - 1]
          BY <3>1, <3>7, <3>8, <3>9, <3>10 DEF r
        <4>2. CASE i <= Len(u)
          <5>1. m + i - 1 \in 1..n
            BY <3>1, <3>9, <4>1, <4>2
          <5>2. o[m + i - 1] = b.output[m + i - 1]
            BY <2>1, <5>1 DEF n
          <5>3. u[i] = b.output[m + i - 1]
            BY <3>1, <3>3, <3>6, <3>9, <4>1, <4>2
          <5> QED
            BY <3>8, <4>1, <4>2, <5>2, <5>3
        <4>3. CASE ~(i <= Len(u))
          <5>1. i = Len(u) + 1 /\ m + i - 1 = n + 1
            BY <3>1, <3>9, <4>1, <4>3
          <5>2. o[n + 1] = x
            BY <2>1 DEF n
          <5> QED
            BY <3>8, <4>1, <5>1, <5>2
        <4> QED
          BY <4>2, <4>3
      <3>12. r = a
        BY <3>8, <3>10, <3>11, SeqEqual
      <3> QED
        BY <3>2, <3>12 DEF r, a
    <2> HIDE DEF u
    <2>6. Together(b.got, Append(u, x)) = Together(Together(b.got, u), <<x>>)
      <3> HIDE DEF x
      <3>1. \A q, r \in Seq(1..LastByte) :
               /\ Append(r, x) \in Seq(1..LastByte)
               /\ Together(q, Append(r, x)) = Together(Together(q, r), <<x>>)
        BY <1>1, AppendsTogether, Zenon
      <3> QED
        BY <1>1, <1>2, <3>1, Zenon
    <2>7. FlattenSeq(Written(x, b.lost)) = Together(FlattenSeq(Written(b.written, b.lost)), <<x>>)
      <3>1. b.lost \in SUBSET (1..b.written) /\ {} \in {{}, {b.written + 1}}
            /\ b.lost \union {} = b.lost
        BY <1>1
      <3>2. FlattenSeq(Written(b.written + 1, b.lost \union {})) =
               Together(FlattenSeq(Written(b.written, b.lost)), <<b.written + 1>>)
        BY <1>1, <3>1, WrittenNext
      <3> QED
        BY <3>1, <3>2
    <2>8. Together(c.got, Unsent(c)) = FlattenSeq(Written(c.written, c.lost))
      <3> HIDE DEF x
      <3>1. Together(b.got, u) = FlattenSeq(Written(b.written, b.lost))
        BY <1>0 DEF WroteKept, u
      <3> QED
        BY <2>4, <2>5, <2>6, <2>7, <3>1
    <2>9. WroteKept(c)
      <3>1. b.emptied + Len(b.output) + 1 <= x /\ 1..b.written \subseteq 1..x
        BY <1>0, <1>1 DEF WroteKept
      <3>2. Len(b.output) + 1 <= OUTPUT_BUFFER_SIZE /\ b.output_buf_ptr <= Len(b.output) + 1
        BY <1>0, <1>1, <1>3, BeckerAssumption DEF WroteKept
      <3>3. c.emptied + Len(c.output) <= c.written
        <4> HIDE DEF x
        <4> QED
          BY <1>1, <2>1, <2>4, <3>1
      <3>4. Len(c.output) <= OUTPUT_BUFFER_SIZE /\ c.output_buf_ptr <= Len(c.output)
        <4> HIDE DEF x
        <4> QED
          BY <2>1, <2>4, <3>2
      <3> HIDE DEF x
      <3> QED
        BY <1>0, <1>1, <2>4, <2>8, <3>1, <3>3, <3>4 DEF WroteKept
    <2>10. ReadKept(c)
      BY <1>0, <2>4 DEF ReadKept
    <2> QED
      BY <2>2, <2>3, <2>9, <2>10, BeckerIs
  <1>4. CASE ~(Len(b.output) < OUTPUT_BUFFER_SIZE)
    <2> DEFINE more == {x}
               c == [b EXCEPT !.lost = b.lost \union more, !.written = x]
    <2>1. Queued(b) = c
      BY <1>4 DEF Queued
    <2>2. b.lost \union more \in SUBSET (1..LastByte) /\ b.lost \union more \subseteq 1..x
      BY <1>0, <1>1 DEF Beckers
    <2>3. c \in Beckers
      BY <1>0, <1>1, <2>2 DEF Beckers
    <2>4. /\ c.lost = b.lost \union more /\ c.written = x
          /\ \A f \in {"read", "input", "wire", "sent", "got", "output_buf_ptr", "output",
                       "emptied"} : c[f] = b[f]
      BY <1>0 DEF Beckers
    <2> HIDE DEF c
    <2>5. FlattenSeq(Written(x, b.lost \union more)) =
             Together(FlattenSeq(Written(b.written, b.lost)), <<>>)
      <3>1. b.lost \in SUBSET (1..b.written) /\ more \in {{}, {b.written + 1}} /\ more # {}
        BY <1>1
      <3> HIDE DEF more
      <3> QED
        BY <1>1, <3>1, WrittenNext
    <2>6. Together(b.got, u) = FlattenSeq(Written(b.written, b.lost))
      BY <1>0 DEF WroteKept
    <2>7. Together(b.got, u) \in Seq(1..LastByte)
      BY <1>1, <1>2, TogetherIs
    <2>8. Together(FlattenSeq(Written(b.written, b.lost)), <<>>) = Together(b.got, u)
      BY <2>6, <2>7, ConcatEmptySeq DEF Together
    <2>9. Together(c.got, Unsent(c)) = FlattenSeq(Written(c.written, c.lost))
      <3> HIDE DEF x, more
      <3> QED
        BY <2>4, <2>5, <2>8 DEF Unsent
    <2>10. \A i \in c.lost : i > c.emptied => i > c.emptied + OUTPUT_BUFFER_SIZE
      <3>1. x > b.emptied + OUTPUT_BUFFER_SIZE
        <4>1. b.emptied + Len(b.output) <= b.written /\ Len(b.output) <= OUTPUT_BUFFER_SIZE
          BY <1>0, Zenon DEF WroteKept
        <4>2. /\ b.written \in Nat /\ b.emptied \in Nat /\ Len(b.output) \in Nat
              /\ OUTPUT_BUFFER_SIZE \in Nat
          BY <1>0, <1>1, BeckerAssumption DEF Beckers
        <4> DEFINE w == b.written  e == b.emptied  l == Len(b.output)
        <4>3. /\ w \in Nat /\ e \in Nat /\ l \in Nat
              /\ e + l <= w /\ l <= OUTPUT_BUFFER_SIZE /\ ~(l < OUTPUT_BUFFER_SIZE) /\ x = w + 1
          BY <1>4, <4>1, <4>2
        <4> HIDE DEF w, e, l, x
        <4>4. x > e + OUTPUT_BUFFER_SIZE
          BY <4>2, <4>3
        <4> QED
          BY <4>4 DEF e
      <3> QED
        BY <1>0, <2>4, <3>1 DEF WroteKept
    <2>11. WroteKept(c)
      <3>1. b.emptied + Len(b.output) <= x
        BY <1>0, <1>1 DEF WroteKept
      <3> HIDE DEF x, more
      <3> QED
        BY <1>0, <2>2, <2>4, <2>9, <2>10, <3>1 DEF WroteKept
    <2>12. ReadKept(c)
      BY <1>0, <2>4 DEF ReadKept
    <2> QED
      BY <2>1, <2>3, <2>11, <2>12, BeckerIs
  <1> QED
    BY <1>3, <1>4

\* The rest of what is left of a sequence.
LEMMA RestOfRest ==
    ASSUME NEW S, NEW s \in Seq(S), NEW m \in Nat, m <= Len(s), NEW k \in Nat,
           NEW u, u = SubSeq(s, m + 1, Len(s)), k < Len(u)
    PROVE  SubSeq(u, k + 1, Len(u)) = SubSeq(s, m + k + 1, Len(s))
  <1>1. Len(s) \in Nat /\ m \in 0..Len(s)
    OBVIOUS
  <1>2. \A i \in (m + 1)..Len(s) : s[i] \in S
    <2>1. \A i \in 1..Len(s) : s[i] \in S
      BY ElementOfSeq
    <2> QED
      BY <1>1, <2>1
  <1>3. Len(u) = IF m + 1 <= Len(s) THEN Len(s) - (m + 1) + 1 ELSE 0
    BY <1>1, <1>2, SubSeqProperties
  <1>4. m + 1 \in 1..Len(s) /\ Len(s) \in 1..Len(s) /\ Len(u) = Len(s) - m
    BY <1>1, <1>3
  <1>5. k + 1 \in 1..(Len(s) - (m + 1) + 1) /\ Len(u) \in 1..(Len(s) - (m + 1) + 1)
    BY <1>1, <1>4
  <1>6. SubSeq(SubSeq(s, m + 1, Len(s)), k + 1, Len(u))
           = SubSeq(s, m + 1 + (k + 1) - 1, m + 1 + Len(u) - 1)
    BY <1>4, <1>5, SubSeqOfSubSeq
  <1>7. m + 1 + (k + 1) - 1 = m + k + 1 /\ m + 1 + Len(u) - 1 = Len(s)
    BY <1>1, <1>4
  <1> QED
    BY <1>6, <1>7

LEMMA OutputKept ==
    ASSUME NEW b, BeckerKept(b), NEW taken \in 0..Len(Unsent(b))
    PROVE  BeckerKept(WriteOutput(b, taken))
  <1> DEFINE u == Unsent(b)
             first == SubSeq(u, 1, taken)
             rest == SubSeq(u, taken + 1, Len(u))
             g == b.got \o first
  <1>0. b \in Beckers /\ ReadKept(b) /\ WroteKept(b)
    BY BeckerIs
  <1>1. /\ b.output \in Seq(1..LastByte) /\ b.got \in Seq(1..LastByte)
        /\ b.written \in 0..LastByte /\ b.written \in Nat /\ Len(b.output) \in Nat
        /\ b.output_buf_ptr \in Nat /\ b.output_buf_ptr <= Len(b.output)
        /\ Len(b.output) <= OUTPUT_BUFFER_SIZE /\ OUTPUT_BUFFER_SIZE \in Nat
        /\ b.emptied \in Nat /\ b.lost \subseteq 1..b.written
    BY <1>0, BeckerAssumption DEF Beckers, WroteKept
  <1>2. u \in Seq(1..LastByte) /\ Len(u) = Len(b.output) - b.output_buf_ptr
    <2>1. \A i \in 1..Len(b.output) : b.output[i] \in 1..LastByte
      BY <1>1, ElementOfSeq
    <2>2. \A i \in (b.output_buf_ptr + 1)..Len(b.output) : b.output[i] \in 1..LastByte
      BY <1>1, <2>1
    <2> DEFINE m == b.output_buf_ptr + 1
               n == Len(b.output)
    <2>3. m \in Int /\ n \in Int /\ m - 1 <= n
      BY <1>1
    <2>4. SubSeq(b.output, m, n) \in Seq(1..LastByte)
          /\ Len(SubSeq(b.output, m, n)) = IF m <= n THEN n - m + 1 ELSE 0
      <3> HIDE DEF m, n
      <3> QED
        BY <2>2, <2>3, SubSeqProperties DEF m, n
    <2> QED
      BY <1>1, <2>4 DEF Unsent
  <1>3. taken \in 0..Len(u) /\ Len(u) \in Nat
    BY <1>2
  <1> HIDE DEF u
  <1>4. /\ first \in Seq(1..LastByte) /\ rest \in Seq(1..LastByte)
        /\ Together(first, rest) = u
    BY <1>2, <1>3, Parted
  <1>5. g \in Seq(1..LastByte) /\ g = Together(b.got, first)
    BY <1>1, <1>4, ConcatProperties DEF Together
  <1>6. CASE taken = 0
    BY <1>6 DEF WriteOutput
  <1>7. CASE taken # 0 /\ taken = Len(u)
    <2> DEFINE c == [b EXCEPT !.got = g, !.output = <<>>, !.output_buf_ptr = 0,
                              !.emptied = b.written]
    <2>1. WriteOutput(b, taken) = c
      BY <1>7 DEF WriteOutput, u
    <2>2. <<>> \in Seq(1..LastByte) /\ 0 \in 0..OUTPUT_BUFFER_SIZE
      BY <1>1
    <2> HIDE DEF g
    <2>3. c \in Beckers
      BY <1>0, <1>1, <1>5, <2>2 DEF Beckers
    <2>4. /\ c.got = g /\ c.output = <<>> /\ c.output_buf_ptr = 0 /\ c.emptied = b.written
          /\ \A f \in {"read", "input", "wire", "sent", "written", "lost"} : c[f] = b[f]
      BY <1>0 DEF Beckers
    <2> HIDE DEF c
    <2>5. g = Together(b.got, u) /\ Unsent(c) = <<>>
      <3>1. first = u
        BY <1>2, <1>7, SubSeqFull
      <3>2. SubSeq(<<>>, 1, 0) = <<>> /\ Len(<<>>) = 0 /\ 0 + 1 = 1
        BY SubSeqEmpty
      <3> QED
        BY <1>5, <2>4, <3>1, <3>2 DEF Unsent
    <2>6. Together(c.got, Unsent(c)) = FlattenSeq(Written(c.written, c.lost))
      <3>1. Together(g, <<>>) = g
        BY <1>5, ConcatEmptySeq DEF Together
      <3>2. Together(b.got, u) = FlattenSeq(Written(b.written, b.lost))
        BY <1>0 DEF WroteKept, u
      <3> QED
        BY <2>4, <2>5, <3>1, <3>2
    <2>7. WroteKept(c)
      <3>1. Len(c.output) = 0 /\ \A i \in c.lost : i <= c.emptied
        BY <1>1, <2>4
      <3> QED
        BY <1>0, <1>1, <2>4, <2>6, <3>1 DEF WroteKept
    <2>8. ReadKept(c)
      BY <1>0, <2>4 DEF ReadKept
    <2> QED
      BY <2>1, <2>3, <2>7, <2>8, BeckerIs
  <1>8. CASE taken # 0 /\ taken # Len(u)
    <2> DEFINE ptr == b.output_buf_ptr + taken
               c == [b EXCEPT !.got = g, !.output_buf_ptr = ptr]
    <2>1. WriteOutput(b, taken) = c
      <3>1. WriteOutput(b, taken) = [b EXCEPT !.got = g, !.output = b.output,
                                     !.output_buf_ptr = ptr, !.emptied = b.emptied]
        BY <1>8 DEF WriteOutput, u
      <3> HIDE DEF g, ptr
      <3> QED
        BY <1>0, <3>1 DEF Beckers
    <2>2. ptr \in 0..OUTPUT_BUFFER_SIZE /\ ptr <= Len(b.output) /\ taken < Len(u)
          /\ taken \in Nat /\ ptr + 1 = b.output_buf_ptr + taken + 1
      BY <1>1, <1>2, <1>3, <1>8
    <2> HIDE DEF g, ptr
    <2>3. c \in Beckers
      BY <1>0, <1>1, <1>5, <2>2 DEF Beckers
    <2>4. /\ c.got = g /\ c.output_buf_ptr = ptr
          /\ \A f \in {"read", "input", "output", "wire", "sent", "written", "lost",
                       "emptied"} : c[f] = b[f]
      BY <1>0 DEF Beckers
    <2> HIDE DEF c
    <2>5. Unsent(c) = rest
      <3>1. u = SubSeq(b.output, b.output_buf_ptr + 1, Len(b.output))
        BY DEF u, Unsent
      <3>2. rest = SubSeq(b.output, b.output_buf_ptr + taken + 1, Len(b.output))
        <4> DEFINE o == b.output
                   m == b.output_buf_ptr
        <4>1. o \in Seq(1..LastByte) /\ m \in Nat /\ m <= Len(o)
          BY <1>1
        <4>2. u = SubSeq(o, m + 1, Len(o))
          BY <3>1
        <4> HIDE DEF o, m
        <4>3. SubSeq(u, taken + 1, Len(u)) = SubSeq(o, m + taken + 1, Len(o))
          BY <2>2, <4>1, <4>2, RestOfRest
        <4> QED
          BY <4>3 DEF o, m
      <3>3. Unsent(c) = SubSeq(b.output, ptr + 1, Len(b.output))
        BY <2>4 DEF Unsent
      <3> QED
        BY <2>2, <3>2, <3>3
    <2> HIDE DEF first, rest
    <2>6. Together(c.got, Unsent(c)) = FlattenSeq(Written(c.written, c.lost))
      <3>1. \A q, r, s \in Seq(1..LastByte) :
               Together(Together(q, r), s) = Together(q, Together(r, s))
        BY InAnyOrder
      <3>2. Together(Together(b.got, first), rest) = Together(b.got, Together(first, rest))
        BY <1>1, <1>4, <3>1, Zenon
      <3>3. Together(b.got, u) = FlattenSeq(Written(b.written, b.lost))
        BY <1>0 DEF WroteKept, u
      <3> QED
        BY <1>4, <1>5, <2>4, <2>5, <3>2, <3>3
    <2>7. WroteKept(c)
      BY <1>0, <2>2, <2>4, <2>6 DEF WroteKept
    <2>8. ReadKept(c)
      BY <1>0, <2>4 DEF ReadKept
    <2> QED
      BY <2>1, <2>3, <2>7, <2>8, BeckerIs
  <1> QED
    BY <1>6, <1>7, <1>8

\* The Becker port's steps keep what its two streams amount to.
BeckerInv == BeckerKept(becker)

LEMMA BeckerStarts ==
    BeckerInit => BeckerKept(becker)
  <1> SUFFICES ASSUME BeckerInit PROVE BeckerKept(becker)
    OBVIOUS
  <1> USE BeckerInit DEF BeckerInit
  <1>1. becker \in Beckers
    BY BeckerAssumption DEF Beckers
  <1>2. ReadKept(becker)
    <2>1. CountTo(0) = <<>>
      BY DEF CountTo
    <2>2. Together(<<>>, <<>>) = <<>>
      BY DEF Together
    <2> QED
      BY <2>1, <2>2 DEF ReadKept
  <1>3. FlattenSeq(Written(0, {})) = <<>>
    <2>1. Written(0, {}) = <<>>
      BY DEF Written
    <2> QED
      BY <2>1 DEF FlattenSeq
  <1>4. Together(<<>>, SubSeq(<<>>, 1, 0)) = <<>>
    BY SubSeqEmpty DEF Together
  <1>5. WroteKept(becker)
    BY <1>3, <1>4, BeckerAssumption DEF WroteKept, Unsent
  <1> QED
    BY <1>1, <1>2, <1>5, BeckerIs

LEMMA BeckerSteps ==
    BeckerKept(becker) /\ [BeckerNext]_becker => BeckerKept(becker')
  <1> SUFFICES ASSUME BeckerKept(becker), [BeckerNext]_becker PROVE BeckerKept(becker')
    OBVIOUS
  <1>1. CASE ReadStatus
    BY <1>1, FetchKept DEF ReadStatus
  <1>2. CASE ReadData
    <2>1. PICK n \in Available(becker) :
             LET b == FetchInput(becker, n)
             IN  becker' = IF b.input = <<>> THEN b
                           ELSE [b EXCEPT !.input = Tail(@), !.read = Append(@, Head(b.input))]
      BY <1>2 DEF ReadData
    <2> DEFINE b == FetchInput(becker, n)
    <2>2. BeckerKept(b)
      BY FetchKept
    <2> HIDE DEF b
    <2>3. CASE b.input = <<>>
      BY <2>1, <2>2, <2>3 DEF b
    <2>4. CASE b.input # <<>>
      <3>1. BeckerKept([b EXCEPT !.input = Tail(@), !.read = Append(@, Head(b.input))])
        BY <2>2, <2>4, ReadOne
      <3> QED
        BY <2>1, <2>4, <3>1 DEF b
    <2> QED
      BY <2>3, <2>4
  <1>3. CASE WriteData
    <2> DEFINE b == Queued(becker)
    <2>1. becker.written < LastByte
          /\ \E taken \in 0..Len(Unsent(b)) : becker' = WriteOutput(b, taken)
      BY <1>3 DEF WriteData, Queued
    <2>2. BeckerKept(b)
      BY <2>1, QueueKept
    <2> HIDE DEF b
    <2> QED
      BY <2>1, <2>2, OutputKept
  <1>4. CASE ServerSends
    BY <1>4, SendOne DEF ServerSends
  <1>5. CASE becker' = becker
    BY <1>5
  <1> QED
    BY <1>1, <1>2, <1>3, <1>4, <1>5 DEF BeckerNext

\* However the socket divides them, the bytes each end of the Becker port sends come to the
\* other once and in order, but for those written with the output buffer full
\* (becker_write_data, write_output, fetch_input).
THEOREM BytesAreCarried ==
    BeckerSpec => []BytesCarried
  <1>1. BeckerInit => BeckerInv
    BY BeckerStarts DEF BeckerInv
  <1>2. BeckerInv /\ [BeckerNext]_becker => BeckerInv'
    BY BeckerSteps DEF BeckerInv
  <1>3. BeckerInv => BytesCarried
    BY BeckerKeptMeans DEF BeckerInv
  <1> QED
    BY <1>1, <1>2, <1>3, PTL DEF BeckerSpec
=============================================================================
