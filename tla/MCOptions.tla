----------------------------- MODULE MCOptions -----------------------------
(* Options for TLC: ports of 3 bits, TTLs of 4, addresses of 2.  Ports and *)
(* TTLs that are given are 0, the greatest, one beyond it and more; TTLs   *)
(* also negative and too large for a signed char.  Letters without         *)
(* arguments here are handled like -w.                                     *)
EXTENDS Options

MCArguments ==
  [o \in Letters |->
     CASE o = "D" -> {0, 7, 8, 9}
       [] o \in {"G", "I"} -> {0, 1, INADDR_NONE}
       [] o = "T" -> {-1, 0, 7, 12, 15, 16}
       [] o = "v" -> {-1, 0, 1, 2}
       [] o \in {"c", "w"} -> {-1}
       [] o = "f" -> {1}
       [] o = "B" -> {7}
       [] OTHER -> {}]
=============================================================================
