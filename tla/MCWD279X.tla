------------------------------- MODULE MCWD279X -------------------------------
(* Small instances of the controller: bytes 0 and 1, sectors of two bytes, a
   search that lasts two index pulses, and one command byte of every kind. *)
EXTENDS WD279X

(* No handler reads both ok and tr00, or both idx and wp, so one choice serves
   for each pair; a data mark is looked for only behind a good ID field. *)
MCResponses ==
    {[idx |-> i, tr00 |-> o, wp |-> i, ok |-> o, byte |-> 1,
      id |-> IF d = "nothing" THEN NoID
             ELSE [cyl |-> 1, side |-> 0, sec |-> 1, len |-> 2, ok |-> d # "bad ID"],
      dam |-> IF d \in {"data", "deleted"} THEN d ELSE "none"] :
        i, o \in BOOLEAN, d \in {"nothing", "bad ID", "no mark", "data", "deleted"}}

(* READ SECTOR, READ SECTOR for multiple records with delay, WRITE SECTOR; RESTORE,
   SEEK with verify, STEP IN with update, and a byte that is no command; READ
   ADDRESS, READ TRACK, WRITE TRACK with delay; FORCE INTERRUPT, plain and at the
   next index pulse. *)
MCSectors == {128, 148, 160, 208, 212}
MCCommands == {128, 148, 160, 0, 20, 80, 193, 192, 224, 244, 208, 212}
MCDisciplined == {}
MCCareless == {160}
MCLinesSectors == {"index", "wp"}

MCView == Remembered(fdc)
===============================================================================
