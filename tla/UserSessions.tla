---------------------------- MODULE UserSessions ----------------------------
(***************************************************************************)
(* What the servers promise of the connections they have let in: a user's  *)
(* login takes the place of his last one in one step, and what is over     *)
(* stays over.  The transfer server closes nothing but the user's old      *)
(* session when he logs in; the auth server may close another connection   *)
(* instead, one at most.                                                   *)
(***************************************************************************)
CONSTANTS Conn, Login

VARIABLES
  sessions,  \* connections that have been let in
  over       \* connections that are closed, let in or not

sessVars == <<sessions, over>>

SessInit == sessions = {} /\ over = {}

Own(k) == {j \in sessions : Login[j] = Login[k]}

(* K makes way for k.                                                      *)
LogIn(k, K) ==
  /\ k \notin sessions \cup over /\ k \notin K /\ K \cap over = {}
  /\ Own(k) \subseteq K
  /\ sessions' = (sessions \ K) \cup {k} /\ over' = over \cup K

(* A purge, a refusal, a hang-up, the death of the process: any number of  *)
(* connections end.                                                        *)
Close(K) ==
  /\ K \cap over = {}
  /\ sessions' = sessions \ K /\ over' = over \cup K

Ends == \E K \in SUBSET Conn : Close(K)

LogsIn ==
  \E k \in Conn, K \in SUBSET Conn : (\A i, j \in K : i = j) /\ LogIn(k, K)
LogsInAlone == \E k \in Conn : LogIn(k, Own(k))

SessSpec == SessInit /\ [][LogsIn \/ Ends]_sessVars
OwnSpec == SessInit /\ [][LogsInAlone \/ Ends]_sessVars
=============================================================================
