----------------------------- MODULE MCFollower ------------------------------
(* Two positions, of one trader or of two with the same ticket number,     *)
(* three copies, three orders under way.                                   *)
EXTENDS Follower

CONSTANTS t1, t2
=============================================================================
