---------------------------- MODULE MCAuthQueues ----------------------------
(* Three parts of the transfer server that share no state; one moves while *)
(* the others stay as they begin.                                          *)
(* The pipeline: two connections and two descriptors; entries older than   *)
(* one second are purged, connections come in the first three seconds.     *)
(* The database: two accounts; one is a customer's, the other an operator's*)
(* or a customer's, in rows that are tidy and rows that are not; the name  *)
(* of the first is not plain, so it may log in with the other one's row.   *)
(* The control port: the tool, and a peer with a wrong password, with half *)
(* a login, or logged in and sending another command, or none.             *)
EXTENDS MT4AuthQueues, MT4Database, MT4Communicator, TLC

CONSTANTS k1, k2, f1, f2, u1, u2, c1, c2, p1, p2

Customer(i, ops) == [priority |-> {"NOR_CUSTOMER"}, id |-> i, op |-> ops]
Operator(bits, ops) == [priority |-> bits, id |-> 2, op |-> ops]
Accounts ==
  (u1 :> {Customer(1, <<2, 1, None>>)}) @@
  (u2 :> {Operator({"MASTER"}, <<2, None, None>>), Customer(2, <<1, 0, None>>),
          Customer(2, <<2, 1, 2>>)})

ToolAndOther ==
  (p1 :> {<<"login", "stop">>}) @@
  (p2 :> {<<"wrong">>, <<"half", "half">>, <<"login", "other">>})

VARIABLE moves  \* the part this behaviour is about

allVars == <<moves, vars, dbVars, controlVars>>

QueuesMove == moves = 1 /\ Next /\ UNCHANGED <<moves, dbVars, controlVars>>
DatabaseMoves == moves = 2 /\ DbNext /\ UNCHANGED <<moves, vars, controlVars>>
ControlMoves == moves = 3 /\ ControlNext /\ UNCHANGED <<moves, vars, dbVars>>

QueuesThread(s) ==
  moves = 1 /\ Thread(s) /\ UNCHANGED <<moves, dbVars, controlVars>>
QueuesTick ==
  moves = 1 /\ (Tick \/ Restart) /\ UNCHANGED <<moves, dbVars, controlVars>>
DatabaseCheck == moves = 2 /\ CheckStep /\ UNCHANGED <<moves, vars, controlVars>>
DatabasePing == moves = 2 /\ PingStep /\ UNCHANGED <<moves, vars, controlVars>>
DatabaseLock == moves = 2 /\ Lock /\ UNCHANGED <<moves, vars, controlVars>>
ControlServes == moves = 3 /\ ControlThread /\ UNCHANGED <<moves, vars, dbVars>>
ToolSends(p) == moves = 3 /\ Sends(p) /\ UNCHANGED <<moves, vars, dbVars>>

MCInit ==
  /\ Init /\ ControlInit /\ moves \in 1..3
  /\ IF moves = 2
     THEN DbInit
     ELSE /\ Idle /\ server = "transfer" /\ connected = TRUE /\ edits = 0
          /\ accounts = NoRow
  /\ moves # 3 => script[p2] = <<"wrong">>

(* The threads run; the ping thread sleeps for 30 seconds between pings,   *)
(* so the mutex does not go to it every time.  A tool sends what it has to.*)
MCSpec ==
  /\ MCInit /\ [][QueuesMove \/ DatabaseMoves \/ ControlMoves]_allVars
  /\ WF_allVars(QueuesTick) /\ \A s \in Stage : WF_allVars(QueuesThread(s))
  /\ WF_allVars(DatabaseCheck) /\ WF_allVars(DatabasePing)
  /\ SF_allVars(DatabaseLock)
  /\ WF_allVars(ControlServes) /\ \A p \in Tool : WF_allVars(ToolSends(p))

MCTypeOK == TypeOK /\ DbTypeOK /\ ControlTypeOK
=============================================================================
