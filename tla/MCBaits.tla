------------------------------ MODULE MCBaits -------------------------------
(* Two directories, of which one has the other's name in its own.          *)
EXTENDS Baits

MCContaining == [p \in Paths |-> IF p = "/opt/baits" THEN Paths ELSE {p}]
=============================================================================
