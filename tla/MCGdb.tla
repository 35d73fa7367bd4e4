-------------------------------- MODULE MCGdb --------------------------------
(* One debugger after another, a few packets under way. *)
EXTENDS Gdb

MCAnyEnding == {"reset", "fin"}
==============================================================================
