------------------------------ MODULE MCServer -------------------------------
(* A cluster of two members, as in main.cpp; two children, the limit after *)
(* one second, two EAs and two failures.                                   *)
EXTENDS MT4Server

CONSTANTS s1, s2
=============================================================================
