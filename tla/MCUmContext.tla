---------------------------- MODULE MCUmContext ----------------------------
(* UmContext for TLC: every program with every combination of options, and *)
(* two loops, so that a null pass is followed by a send pass once and by   *)
(* the report once.                                                        *)
EXTENDS UmContext

MCPrograms == {"src", "ss", "smx"}
=============================================================================
