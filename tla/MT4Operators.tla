---------------------------- MODULE MT4Operators ----------------------------
(***************************************************************************)
(* Operator sessions of the transfer server.  add_operator runs in an      *)
(* auth_check thread with operators_lock held from beginning to end; when  *)
(* the operator is logged in already, it destroys the old MT4Operator,     *)
(* which closes the connection, tells the receiving thread to stop and     *)
(* joins it.  The receiving thread takes no lock and shares ssl, sock and  *)
(* running with the destructor.                                            *)
(*                                                                         *)
(* An MT4Operator and its thread are named by the connection they were     *)
(* made for.  Descriptors are numbers the kernel gives out again, so that  *)
(* closing one twice can close somebody else's connection.  What the       *)
(* thread does with an order is MT4Customers; here it is one step, which   *)
(* may never come: MT4Customers has logins that hang inside a list lock.   *)
(***************************************************************************)
EXTENDS Naturals, FiniteSets

CONSTANTS
  Oper,      \* operator ids
  Auth,      \* the auth_check threads
  Conn,      \* connections
  NoConn,    \* no entry in the map
  Owner,     \* Owner[k]: the operator that logs in on connection k
  FD,        \* descriptors
  MaxOrder   \* bound: orders received on one connection

ASSUME OperatorsAssumption ==
  /\ Conn # {} /\ FD # {}
  /\ NoConn \notin Conn /\ Owner \in [Conn -> Oper] /\ MaxOrder \in Nat

VARIABLES
  up,              \* the server process is alive
  operators,       \* the map: operator id -> object
  object,          \* "none", "live", "deleted"
  ssl,             \* the ssl field of the object is not NULL
  running, pid,    \* fields of the object; pid: a thread id has been stored
  conn,            \* "new"; "open"; "gone": the peer has left; "cut": its
                   \*   descriptor was closed for another one; "closed"
  fd,              \* fd[k]: descriptor of connection k
  wpc, login, victim,  \* auth thread: control, the new connection, the
                       \*   object it is destroying
  tpc, ord         \* receiving thread: control, orders received

objVars == <<operators, object, running, pid>>
netVars == <<conn, fd>>
authVars == <<wpc, login, victim>>
recvVars == <<tpc, ord>>
vars == <<up, objVars, ssl, netVars, authVars, recvVars>>

AuthPC == {"idle", "check", "free", "stop", "join", "delete", "create"}
RecvPC == {"none", "loop", "read", "fan", "hung", "check", "free", "null",
           "exited"}
Holding == {"open", "gone"}   \* the connection owns its descriptor

TypeOK ==
  /\ up \in BOOLEAN
  /\ operators \in [Oper -> Conn \cup {NoConn}]
  /\ object \in [Conn -> {"none", "live", "deleted"}]
  /\ ssl \in [Conn -> BOOLEAN] /\ running \in [Conn -> BOOLEAN]
  /\ pid \in [Conn -> BOOLEAN]
  /\ conn \in [Conn -> {"new", "open", "gone", "cut", "closed"}]
  /\ fd \in [Conn -> FD]
  /\ wpc \in [Auth -> AuthPC]
  /\ login \in [Auth -> Conn] /\ victim \in [Auth -> Conn]
  /\ tpc \in [Conn -> RecvPC] /\ ord \in [Conn -> 0..MaxOrder]

-----------------------------------------------------------------------------

Each(S, v) == [x \in S |-> v]
Some(S) == CHOOSE x \in S : TRUE

Init ==
  /\ up = TRUE /\ operators = Each(Oper, NoConn)
  /\ object = Each(Conn, "none") /\ ssl = Each(Conn, FALSE)
  /\ running = Each(Conn, FALSE) /\ pid = Each(Conn, FALSE)
  /\ conn = Each(Conn, "new") /\ fd = Each(Conn, Some(FD))
  /\ wpc = Each(Auth, "idle")
  /\ login = Each(Auth, Some(Conn)) /\ victim = Each(Auth, Some(Conn))
  /\ tpc = Each(Conn, "none") /\ ord = Each(Conn, 0)

(* The process ends: memory and threads are gone, connections are closed.  *)
Dies ==
  /\ up' = FALSE /\ operators' = Each(Oper, NoConn)
  /\ object' = [k \in Conn |-> IF object[k] = "none" THEN "none" ELSE "deleted"]
  /\ ssl' = Each(Conn, FALSE) /\ running' = Each(Conn, FALSE)
  /\ pid' = Each(Conn, FALSE)
  /\ conn' = [k \in Conn |-> IF conn[k] = "new" THEN "new" ELSE "closed"]
  /\ wpc' = Each(Auth, "idle")
  /\ login' = Each(Auth, Some(Conn)) /\ victim' = Each(Auth, Some(Conn))
  /\ tpc' = [k \in Conn |-> IF tpc[k] = "none" THEN "none" ELSE "exited"]
  /\ UNCHANGED <<fd, ord>>

Restart ==
  /\ ~up /\ up' = TRUE
  /\ UNCHANGED <<objVars, ssl, netVars, authVars, recvVars>>

(* A connection is accepted on any descriptor that is free: customers and  *)
(* databases take and return descriptors too.                              *)
Accept(k) ==
  /\ up /\ conn[k] = "new"
  /\ \E f \in FD :
       /\ \A j \in Conn : conn[j] \in Holding => fd[j] # f
       /\ fd' = [fd EXCEPT ![k] = f]
  /\ conn' = [conn EXCEPT ![k] = "open"]
  /\ UNCHANGED <<up, objVars, ssl, authVars, recvVars>>

PeerLeaves(k) ==
  /\ conn[k] = "open" /\ conn' = [conn EXCEPT ![k] = "gone"]
  /\ UNCHANGED <<up, fd, objVars, ssl, authVars, recvVars>>

(* SSL_shutdown, SSL_free, close(sock).  The descriptor is closed whoever  *)
(* has it by now.                                                          *)
Release(k) ==
  conn' = [j \in Conn |->
             IF j = k THEN "closed"
             ELSE IF conn[j] \in Holding /\ fd[j] = fd[k] THEN "cut"
             ELSE conn[j]]

(* The alert of SSL_shutdown may raise SIGPIPE, and an SSL object that has *)
(* been freed before may do anything.                                      *)
ReleaseMayKill(k) == conn[k] \in {"gone", "closed"}

-----------------------------------------------------------------------------
(* add_operator.  A thread that waits for operators_lock is still "idle".  *)

LockFree == \A w \in Auth : wpc[w] = "idle"

Installs(o, k) ==
  /\ object' = [object EXCEPT ![k] = "live"]
  /\ ssl' = [ssl EXCEPT ![k] = TRUE]
  /\ running' = [running EXCEPT ![k] = TRUE]
  /\ operators' = [operators EXCEPT ![o] = k]
  /\ UNCHANGED pid

(* The operator is not in the map: new, insert.                            *)
AddNew(w, k) ==
  /\ up /\ LockFree /\ conn[k] \in Holding /\ object[k] = "none"
  /\ operators[Owner[k]] = NoConn
  /\ Installs(Owner[k], k)
  /\ login' = [login EXCEPT ![w] = k] /\ UNCHANGED victim
  /\ wpc' = [wpc EXCEPT ![w] = "create"]
  /\ UNCHANGED <<up, netVars, recvVars>>

(* It is: the old object is deleted first.                                 *)
AddExisting(w, k) ==
  /\ up /\ LockFree /\ conn[k] \in Holding /\ object[k] = "none"
  /\ operators[Owner[k]] # NoConn
  /\ login' = [login EXCEPT ![w] = k]
  /\ victim' = [victim EXCEPT ![w] = operators[Owner[k]]]
  /\ wpc' = [wpc EXCEPT ![w] = "check"]
  /\ UNCHANGED <<up, objVars, ssl, netVars, recvVars>>

Goes(w, from, to) == up /\ wpc[w] = from /\ wpc' = [wpc EXCEPT ![w] = to]

(* ~MT4Operator: ssl != NULL?                                              *)
CheckSSL(w) ==
  /\ Goes(w, "check", IF ssl[victim[w]] THEN "free" ELSE "stop")
  /\ UNCHANGED <<up, objVars, ssl, netVars, login, victim, recvVars>>

FreeSSL(w) ==
  /\ Goes(w, "free", "stop") /\ Release(victim[w])
  /\ UNCHANGED <<up, objVars, ssl, fd, login, victim, recvVars>>

FreeKills(w) == up /\ wpc[w] = "free" /\ ReleaseMayKill(victim[w]) /\ Dies

(* Mutants: the thread id is never stored, so nothing is joined; running   *)
(* stays as it is, to be cleared after the join.                           *)
JoinsNothing(v) == FALSE
StoppedLate(v) == running

Joins(v) == pid[v]
Stopped(v) == [running EXCEPT ![v] = FALSE]

StopRunning(w) ==
  LET v == victim[w] IN
  /\ Goes(w, "stop", IF Joins(v) THEN "join" ELSE "delete")
  /\ running' = Stopped(v)
  /\ UNCHANGED <<up, operators, object, pid, ssl, netVars, login, victim,
                 recvVars>>

Join(w) ==
  /\ Goes(w, "join", "delete") /\ tpc[victim[w]] = "exited"
  /\ UNCHANGED <<up, objVars, ssl, netVars, login, victim, recvVars>>

(* Deleting an object twice would leave the type of object.                *)
Deleted(k) == IF object[k] = "live" THEN "deleted" ELSE "deleted twice"

(* The rest of delete and erase, then the new object takes its place.      *)
Replace(w) ==
  LET k == login[w] IN
  /\ Goes(w, "delete", "create") /\ victim[w] # k
  /\ object' = [object EXCEPT ![victim[w]] = Deleted(victim[w]),
                               ![k] = "live"]
  /\ ssl' = [ssl EXCEPT ![k] = TRUE]
  /\ running' = [running EXCEPT ![k] = TRUE]
  /\ operators' = [operators EXCEPT ![Owner[k]] = k]
  /\ UNCHANGED <<up, pid, netVars, login, victim, recvVars>>

CreateThread(w) ==
  LET k == login[w] IN
  /\ Goes(w, "create", "idle")
  /\ tpc' = [tpc EXCEPT ![k] = "loop"] /\ pid' = [pid EXCEPT ![k] = TRUE]
  /\ UNCHANGED <<up, operators, object, running, ssl, netVars, login, victim,
                 ord>>

(* Mutant: the failed object is only erased from the map, not deleted.     *)
AfterFailureErase(w) == "delete"
AfterFailure(w) == "check"

(* pthread_create fails: the object just made is deleted and erased.       *)
CreateFails(w) ==
  /\ Goes(w, "create", AfterFailure(w))
  /\ victim' = [victim EXCEPT ![w] = login[w]]
  /\ UNCHANGED <<up, objVars, ssl, netVars, login, recvVars>>

(* Mutant: the object is deleted but stays in the map.                     *)
ErasedNot(o) == operators
Erased(o) == [operators EXCEPT ![o] = NoConn]

Erase(w) ==
  LET k == login[w] IN
  /\ Goes(w, "delete", "idle") /\ victim[w] = k
  /\ object' = [object EXCEPT ![k] = Deleted(k)]
  /\ operators' = Erased(Owner[k])
  /\ UNCHANGED <<up, running, pid, ssl, netVars, login, victim, recvVars>>

-----------------------------------------------------------------------------
(* operator_thread of object k.                                            *)

Steps(k, from, to) == up /\ tpc[k] = from /\ tpc' = [tpc EXCEPT ![k] = to]

ExitLoop(k) ==
  /\ Steps(k, "loop", "exited") /\ ~running[k]
  /\ UNCHANGED <<up, objVars, ssl, netVars, authVars, ord>>

(* select on cli_sock reports whatever connection has that descriptor now; *)
(* a timeout and EBADF lead back to the loop.                              *)
Select(k) ==
  /\ Steps(k, "loop", "read") /\ running[k]
  /\ \E j \in Conn : conn[j] \in Holding /\ fd[j] = fd[k]
  /\ UNCHANGED <<up, objVars, ssl, netVars, authVars, ord>>

ReadOrder(k) ==
  /\ Steps(k, "read", "fan") /\ ord[k] < MaxOrder
  /\ ord' = [ord EXCEPT ![k] = @ + 1]
  /\ UNCHANGED <<up, objVars, ssl, netVars, authVars>>

(* SSL_read < 0: usleep, next round.  On a freed SSL object, or with bytes *)
(* of another connection, SSL_read may return anything.                    *)
ReadAgain(k) ==
  /\ Steps(k, "read", "loop")
  /\ UNCHANGED <<up, objVars, ssl, netVars, authVars, ord>>

(* SSL_read = 0, or a record that is not as long as an order.              *)
ReadEnd(k) ==
  /\ Steps(k, "read", "check")
  /\ UNCHANGED <<up, objVars, ssl, netVars, authVars, ord>>

ReadKills(k) == up /\ tpc[k] = "read" /\ conn[k] = "closed" /\ Dies

FanOut(k) ==
  /\ Steps(k, "fan", "loop")
  /\ UNCHANGED <<up, objVars, ssl, netVars, authVars, ord>>

(* send_order_to_customers waits for the lock of the operator's list,      *)
(* which a thread that walks a torn list never gives back (AddCreateHangs  *)
(* of MT4Customers).                                                       *)
FanOutHangs(k) ==
  /\ Steps(k, "fan", "hung")
  /\ UNCHANGED <<up, objVars, ssl, netVars, authVars, ord>>

Disconnect(k) ==
  /\ Steps(k, "check", IF ssl[k] THEN "free" ELSE "exited")
  /\ UNCHANGED <<up, objVars, ssl, netVars, authVars, ord>>

DisconnectFree(k) ==
  /\ Steps(k, "free", "null") /\ Release(k)
  /\ UNCHANGED <<up, objVars, ssl, fd, authVars, ord>>

DisconnectKills(k) == up /\ tpc[k] = "free" /\ ReleaseMayKill(k) /\ Dies

(* Mutant: ssl keeps its value.                                            *)
NulledNot(k) == ssl
Nulled(k) == [ssl EXCEPT ![k] = FALSE]

DisconnectNull(k) ==
  /\ Steps(k, "null", "exited") /\ ssl' = Nulled(k)
  /\ UNCHANGED <<up, objVars, netVars, authVars, ord>>

-----------------------------------------------------------------------------

Adding(w) ==
  \/ CheckSSL(w) \/ FreeSSL(w) \/ FreeKills(w) \/ StopRunning(w) \/ Join(w)
  \/ Replace(w) \/ CreateThread(w) \/ CreateFails(w) \/ Erase(w)

Receiving(k) ==
  \/ ExitLoop(k) \/ Select(k)
  \/ ReadOrder(k) \/ ReadAgain(k) \/ ReadEnd(k) \/ ReadKills(k)
  \/ FanOut(k) \/ FanOutHangs(k)
  \/ Disconnect(k) \/ DisconnectFree(k) \/ DisconnectKills(k)
  \/ DisconnectNull(k)

Next ==
  \/ \E w \in Auth :
       Adding(w) \/ \E k \in Conn : AddNew(w, k) \/ AddExisting(w, k)
  \/ \E k \in Conn : Receiving(k) \/ Accept(k) \/ PeerLeaves(k)
  \/ Restart

(* Threads run, though a fan-out may hang, and the parent restarts its     *)
(* child.                                                                  *)
Fairness ==
  /\ WF_vars(Restart)
  /\ \A w \in Auth : WF_vars(Adding(w))
  /\ \A k \in Conn : WF_vars(Receiving(k))

Spec == Init /\ [][Next]_vars
FairSpec == Spec /\ Fairness

-----------------------------------------------------------------------------
(* What should hold.                                                       *)

Alive(k) == tpc[k] \notin {"none", "exited"}

(* No object is lost: a live one is in the map, and a deleted one has      *)
(* closed its connection.  It holds when pthread_create fails, too.        *)
NothingLost ==
  \A k \in Conn :
    /\ object[k] = "live" => operators[Owner[k]] = k
    /\ object[k] = "deleted" => conn[k] = "closed"

(* The ssl field of an object points to a freed SSL object only between    *)
(* the free and the NULL of its own thread, or while the destructor waits  *)
(* for that thread.  Only in these windows can either of the two free or   *)
(* read it a second time.                                                  *)
DanglingWindow ==
  \A k \in Conn :
    object[k] = "live" /\ ssl[k] /\ conn[k] = "closed" =>
      \/ tpc[k] = "null"
      \/ \E w \in Auth :
           victim[w] = k /\ wpc[w] \in {"stop", "join", "delete"}

(* add_operator returns: the thread it joins under operators_lock does     *)
(* stop, in whatever state the destructor has left the connection.  Only a *)
(* fan-out that hangs in the list of its operator keeps it for ever, and   *)
(* with it every later login of an operator.                               *)
LoginReturns ==
  \A w \in Auth :
    (wpc[w] # "idle") ~> (wpc[w] = "idle" \/ tpc[victim[w]] = "hung")

(* Sessions of one operator do not overlap and do not come back.           *)
Sessions == INSTANCE OperatorSessions WITH
  current <- [o \in Oper |->
    IF \E k \in Conn : Owner[k] = o /\ Alive(k)
    THEN CHOOSE k \in Conn : Owner[k] = o /\ Alive(k) ELSE NoConn],
  ended <- {k \in Conn : tpc[k] = "exited"}

SessionsDoNotOverlap == Sessions!SessSpec

=============================================================================
