----------------------------- MODULE MCFrsTask ------------------------------
(* One task on up to two files, two masters, and a pipe that one of the     *)
(* two units of log a child may write fills.                                *)
EXTENDS FrsTask

MCMasterList == <<"m1", "m2">>
=============================================================================
