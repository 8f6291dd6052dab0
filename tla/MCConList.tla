----------------------------- MODULE MCConList -----------------------------
(***************************************************************************)
(* Small instances of ConList for TLC.  The fields of a fresh node are     *)
(* overwritten by newConnection(), so one start value for them is enough.  *)
(***************************************************************************)
EXTENDS ConList, TLC

ListSymmetry == Permutations(Workers) \cup Permutations(Addrs)

MCInit ==
    /\ Init
    /\ conn = [a \in Addrs |-> CHOOSE c \in Conns : TRUE]
    /\ next = [a \in Addrs |-> NULL]

MCSpec == MCInit /\ [][Next]_vars
MCSpecAll == MCInit /\ [][NextAll]_vars
=============================================================================
