---------------------------- MODULE MCCustomers -----------------------------
(* Two operators, two customers and two auth_check threads, as the cluster *)
(* of main.cpp has.  Customer a follows both operators and logs in twice;  *)
(* customer b follows one operator.                                        *)
EXTENDS MT4Customers, TLC

CONSTANTS a, b, p, q, k1, k2, k3, w1, w2

MCUser == (k1 :> a) @@ (k2 :> a) @@ (k3 :> b)
MCFollows == (a :> {p, q}) @@ (b :> {p})

(* One customer who logs in over and over, and one operator.               *)
OneUser == [k \in Conn |-> a]
OneFollows == (a :> {p})

Workers == Permutations(Auth)
=============================================================================
