-------------------------- MODULE MCAuthKeepAlive ---------------------------
(* One user who logs in twice and one who logs in once; or one user who    *)
(* logs in twice.                                                          *)
EXTENDS AuthKeepAlive, TLC

CONSTANTS k1, k2, k3, u1, u2, f1, f2

TwoUsers == (k1 :> u1) @@ (k2 :> u1) @@ (k3 :> u2)
OneUser == [k \in Conn |-> u1]

(* The connections of u1 may change places, and so may the descriptors.    *)
Symmetry == Permutations({k1, k2}) \cup Permutations(Fd)
=============================================================================
