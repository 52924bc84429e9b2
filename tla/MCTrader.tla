------------------------------ MODULE MCTrader -------------------------------
(* Two positions; two levels of price, stop and target.                    *)
EXTENDS Trader

CONSTANTS t1, t2
=============================================================================
