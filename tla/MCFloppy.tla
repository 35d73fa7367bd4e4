------------------------------- MODULE MCFloppy -------------------------------
(* A cartridge with one drive or two, disks of one or two tracks, and sectors of
   one byte. *)
EXTENDS Floppy

CONSTANTS d0, d1

MCOpen == [wp |-> FALSE, wb |-> FALSE, dirty |-> FALSE, ncyl |-> 1, nhead |-> 1]
MCImages == {MCOpen}

(* An ID field that is found is the one searched for. *)
MCResponses ==
    {[idx |-> i, tr00 |-> t, wp |-> w, ok |-> TRUE, byte |-> 1,
      id |-> IF d = "nothing" THEN NoID
             ELSE [cyl |-> 1, side |-> 0, sec |-> 1, len |-> 1, ok |-> TRUE],
      dam |-> IF d = "data" THEN d ELSE "none"] :
        i, t, w \in BOOLEAN, d \in {"nothing", "data"}}

(* READ SECTOR, WRITE SECTOR and FORCE INTERRUPT; RESTORE, SEEK and FORCE
   INTERRUPT; WRITE TRACK. *)
MCTransfers == {128, 160, 208}
MCSeeks == {0, 16, 208}
MCBoth == {0, 16, 128, 160, 208}
MCData == {128, 160, 192, 240, 208}
MCFormat == {240}
MCWrite == {160}

MCView == <<W!Remembered(fdc), vip, cart, tracking>>
===============================================================================
