------------------------------ MODULE MCOrigin ------------------------------
(* Origin on four files, two of which ("a" and "a::b") share a key, in a    *)
(* directory that was cleared or holds two entries: of a file and of none.  *)
EXTENDS Origin

MCPaths == {"a", "a::b", "c", "d"}
MCKeys == {"a", "c", "d", "z"}
MCKeyOf == [p \in MCPaths |-> IF p = "a::b" THEN "a" ELSE p]
MCLeftovers == {{}, {"a", "z"}}
=============================================================================
