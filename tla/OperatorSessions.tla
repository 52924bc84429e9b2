-------------------------- MODULE OperatorSessions --------------------------
(***************************************************************************)
(* What the rest of the server may rely on when operators log in again     *)
(* and again: the orders of an operator come from one session at a time,   *)
(* and a session that has ended never feeds another order.                 *)
(***************************************************************************)
CONSTANTS Oper, Conn, NoConn, Owner

VARIABLES
  current,  \* current[o]: the session that may feed orders of o, or NoConn
  ended     \* sessions that are over

sessVars == <<current, ended>>

SessInit == current = [o \in Oper |-> NoConn] /\ ended = {}

Begin(k) ==
  /\ current[Owner[k]] = NoConn /\ k \notin ended
  /\ current' = [current EXCEPT ![Owner[k]] = k] /\ UNCHANGED ended

End(k) ==
  /\ current[Owner[k]] = k
  /\ current' = [current EXCEPT ![Owner[k]] = NoConn]
  /\ ended' = ended \cup {k}

(* The process dies: every session ends at once.                           *)
EndAll ==
  /\ current' = [o \in Oper |-> NoConn]
  /\ ended' = ended \cup {k \in Conn : current[Owner[k]] = k}

SessNext == EndAll \/ \E k \in Conn : Begin(k) \/ End(k)

SessSpec == SessInit /\ [][SessNext]_sessVars

=============================================================================
