-------------------------------- MODULE Media --------------------------------
(***************************************************************************)
(* What the machine keeps its programs and data on: the disk drives, the    *)
(* image files in them and their formats, the tape deck with the typing it  *)
(* asks for, the files that are tapes, an SD card and an IDE drive.  The    *)
(* parts, as modelled, share no state, so a behaviour is a session with one *)
(* of them while the others stay as they began: every step of every part is *)
(* taken, in every order.                                                   *)
(***************************************************************************)
EXTENDS VDrive, Images, Formats, Tape, Cas, SdCard, Ide

\* Bounds the characters a session with the tape types; it types with its flags off.
CONSTANT CassetteChars

ASSUME MediaAssumption == CassetteChars \in 0..LastChar

VARIABLE session \* the part this behaviour is about

mediaVars == <<vip, imageVars, formatVars, tapeVars, cas, sdVars, ideVars, session>>

Sessions == {"drives", "disks", "formats", "cassette", "recording", "typing", "card", "hard disk"}

MediaInit ==
    /\ session \in Sessions
    /\ Init
    /\ ImagesInit /\ (session # "disks" => \A f \in Files : file[f] = Absent)
    /\ FormatsInit /\ (session # "formats" =>
          auto = (CHOOSE a \in AutoOs9 : TRUE) /\ shape.cyls = 0
          /\ shape.type = CHOOSE t \in FormatTypes : TRUE)
    /\ TapeInit /\ (session # "cassette" =>
          deck.machine = "dragon" /\ ~deck.tape_fast /\ ~deck.tape_pad_auto /\ ~deck.tape_rewrite)
    /\ CasInit /\ (session # "recording" => cas.kind = "asc")
    /\ SdInit /\ (session # "card" => prog.sector = BlockBytes)
    /\ IdeInit /\ (session # "hard disk" =>
          ide.kind = (CHOOSE k \in HdKinds : TRUE) /\ driver.mode = "LBA")

MediaNext ==
    \/ /\ session = "drives"
       /\ UNCHANGED <<imageVars, formatVars, tapeVars, cas, sdVars, ideVars, session>>
       /\ Next
    \/ /\ session = "disks"
       /\ UNCHANGED <<vip, formatVars, tapeVars, cas, sdVars, ideVars, session>>
       /\ ImagesNext
    \/ /\ session = "formats"
       /\ UNCHANGED <<vip, imageVars, tapeVars, cas, sdVars, ideVars, session>>
       /\ FormatsNext
    \/ /\ session = "cassette"
       /\ UNCHANGED <<vip, imageVars, formatVars, cas, sdVars, ideVars, session>>
       /\ TapeNext /\ asked' <= CassetteChars
       /\ asked' > 0 => ~deck'.tape_fast /\ ~deck'.tape_pad_auto /\ ~deck'.tape_rewrite
    \/ /\ session = "recording"
       /\ UNCHANGED <<vip, imageVars, formatVars, tapeVars, sdVars, ideVars, session>>
       /\ CasNext
    \/ /\ session = "typing"
       /\ UNCHANGED <<vip, imageVars, formatVars, deck, cas, sdVars, ideVars, session>>
       /\ KbdNext
    \/ /\ session = "card"
       /\ UNCHANGED <<vip, imageVars, formatVars, tapeVars, cas, ideVars, session>>
       /\ SdNext
    \/ /\ session = "hard disk"
       /\ UNCHANGED <<vip, imageVars, formatVars, tapeVars, cas, sdVars, session>>
       /\ IdeNext
       /\ {i \in Units : ide'.drive[i] # NoDrive} # Units \* only one is used

MediaSpec == MediaInit /\ [][MediaNext]_mediaVars

=============================================================================
