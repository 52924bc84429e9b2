---------------------------- MODULE MCOperators -----------------------------
(* One operator logs in three times on two auth_check threads; descriptors *)
(* are fewer than connections, so that a closed one is used again.  (Two   *)
(* operators share nothing but the lock and the descriptors.)              *)
EXTENDS MT4Operators

CONSTANTS o, k1, k2, k3, w1, w2

OneOwner == [k \in Conn |-> o]
=============================================================================
