------------------------------ MODULE MCStore ------------------------------
(***************************************************************************)
(* Store with three states to save: the one on disk, the one of a save     *)
(* that raised, and the one of the save after it.                          *)
(***************************************************************************)
EXTENDS Store

CONSTANTS v1, v2, v3

MCValues == {v1, v2, v3}

=============================================================================
