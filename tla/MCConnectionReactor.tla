------------------------- MODULE MCConnectionReactor --------------------------
(* Connections are interchangeable: nothing but None tells them apart. *)
EXTENDS ConnectionReactor

LOCAL INSTANCE TLC

ConnSymmetry == Permutations(Conns)
===============================================================================
