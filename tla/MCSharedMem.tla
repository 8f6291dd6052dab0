---------------------------- MODULE MCSharedMem ----------------------------
(***************************************************************************)
(* Small instances of SharedMem for TLC.                                   *)
(***************************************************************************)
EXTENDS SharedMem, TLC

SharedSymmetry == Permutations(Proxies) \cup Permutations(Workers)
=============================================================================
