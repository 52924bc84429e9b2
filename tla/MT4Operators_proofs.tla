------------------------- MODULE MT4Operators_proofs -------------------------
(***************************************************************************)
(* Proofs about the operator sessions, for any number of operators,        *)
(* connections, descriptors and auth_check threads.                        *)
(***************************************************************************)
EXTENDS MT4Operators, TLAPS

Destroying == {"check", "free", "stop", "join", "delete"}
Closing == {"stop", "join", "delete"}

(* operators_lock.                                                         *)
OneHolder == \A v, w \in Auth : wpc[v] # "idle" /\ wpc[w] # "idle" => v = w

(* The map and the objects that are alive belong to one another.           *)
Filed ==
  /\ \A o \in Oper : operators[o] # NoConn =>
       object[operators[o]] = "live" /\ Owner[operators[o]] = o
  /\ \A k \in Conn : object[k] = "live" => operators[Owner[k]] = k

(* An object is made from a connection, and a thread for an object.        *)
Made ==
  /\ \A k \in Conn : object[k] # "none" => conn[k] # "new"
  /\ \A k \in Conn : tpc[k] # "none" => object[k] # "none"

(* Who clears ssl or deletes has closed the connection.                    *)
Shut ==
  /\ \A k \in Conn : object[k] = "deleted" => conn[k] = "closed"
  /\ \A k \in Conn : object[k] # "none" /\ ~ssl[k] => conn[k] = "closed"
  /\ \A k \in Conn : tpc[k] = "null" => conn[k] = "closed"

(* What is destroyed is alive until it is deleted; the connection that     *)
(* takes its place still has to get an object, and nobody closes it.       *)
Working ==
  \A w \in Auth :
    /\ wpc[w] \in Destroying =>
         /\ object[victim[w]] = "live"
         /\ victim[w] # login[w] =>
              /\ object[login[w]] = "none" /\ conn[login[w]] \in {"open", "gone", "cut"}
              /\ operators[Owner[login[w]]] = victim[w]
    /\ wpc[w] \in Closing => conn[victim[w]] = "closed"
    /\ wpc[w] = "create" => object[login[w]] = "live"

(* A thread that runs has an object, and none runs when it is deleted.     *)
Threads ==
  /\ \A k \in Conn : Alive(k) => object[k] = "live" /\ pid[k]
  /\ \A w \in Auth :
       /\ wpc[w] = "delete" => ~Alive(victim[w])
       /\ wpc[w] = "create" => tpc[login[w]] = "none"
       /\ wpc[w] \in Destroying /\ victim[w] = login[w] => tpc[login[w]] = "none"

IInv ==
  /\ TypeOK /\ OneHolder /\ Filed /\ Made /\ Shut /\ Working /\ Threads
  /\ DanglingWindow

-----------------------------------------------------------------------------
LEMMA Starts == Init => IInv
<1> SUFFICES ASSUME Init PROVE IInv
  OBVIOUS
<1>1. Some(Conn) \in Conn /\ Some(FD) \in FD
  BY OperatorsAssumption DEF Some
<1>2. TypeOK
  BY <1>1, OperatorsAssumption DEF Init, TypeOK, Each, AuthPC, RecvPC
<1>3. OneHolder /\ Filed /\ Made /\ Shut
  BY DEF Init, Each, OneHolder, Filed, Made, Shut
<1>4. Working /\ Threads /\ DanglingWindow
  BY DEF Init, Each, Working, Threads, DanglingWindow, Alive, Destroying, Closing
<1> QED BY <1>2, <1>3, <1>4 DEF IInv

(* A round of the receiving thread without ssl: it moves on, and still     *)
(* runs or has ended.                                                      *)
LEMMA ReceiverMoves ==
  ASSUME IInv, NEW k \in Conn, NEW to \in RecvPC \ {"none", "null"},
         Alive(k), tpc[k] # "null", tpc' = [tpc EXCEPT ![k] = to],
         ord' \in [Conn -> 0..MaxOrder],
         UNCHANGED <<up, objVars, ssl, netVars, authVars>>
  PROVE  IInv'
<1> USE DEF IInv, objVars, netVars, authVars
<1>1. tpc \in [Conn -> RecvPC]
  BY DEF TypeOK
<1>2. TypeOK'
  BY <1>1 DEF TypeOK
<1>3. OneHolder' /\ Filed'
  BY DEF OneHolder, Filed
<1>4. Made' /\ Shut'
  BY <1>1 DEF Made, Shut, Alive
<1>5. Working'
  BY DEF Working
<1>6. Threads'
  BY <1>1 DEF Threads, Alive, Destroying
<1>7. DanglingWindow'
  BY <1>1 DEF DanglingWindow
<1> QED BY <1>2, <1>3, <1>4, <1>5, <1>6, <1>7

LEMMA ReceiverStep ==
  ASSUME IInv, NEW k \in Conn,
         \/ ExitLoop(k) \/ Select(k) \/ ReadOrder(k) \/ ReadAgain(k) \/ ReadEnd(k)
         \/ FanOut(k) \/ FanOutHangs(k) \/ Disconnect(k)
  PROVE  IInv'
<1>1. ord \in [Conn -> 0..MaxOrder] /\ MaxOrder \in Nat
  BY OperatorsAssumption DEF IInv, TypeOK
<1>2. ord' \in [Conn -> 0..MaxOrder]
  BY <1>1 DEF ExitLoop, Select, ReadOrder, ReadAgain, ReadEnd, FanOut, FanOutHangs, Disconnect
<1>3. UNCHANGED <<up, objVars, ssl, netVars, authVars>>
  BY DEF ExitLoop, Select, ReadOrder, ReadAgain, ReadEnd, FanOut, FanOutHangs, Disconnect, Steps
<1>4. \E to \in RecvPC \ {"none", "null"} : tpc' = [tpc EXCEPT ![k] = to]
  BY DEF ExitLoop, Select, ReadOrder, ReadAgain, ReadEnd, FanOut, FanOutHangs, Disconnect, Steps, RecvPC
<1>5. Alive(k) /\ tpc[k] # "null"
  BY DEF ExitLoop, Select, ReadOrder, ReadAgain, ReadEnd, FanOut, FanOutHangs, Disconnect, Steps, Alive
<1> QED BY <1>2, <1>3, <1>4, <1>5, ReceiverMoves

(* Closing the connection of an object that is alive; no other one gets    *)
(* "closed", and none that is still to get an object does.                 *)
LEMMA Releases ==
  ASSUME TypeOK, NEW k \in Conn, Release(k)
  PROVE  /\ conn' \in [Conn -> {"new", "open", "gone", "cut", "closed"}]
         /\ conn'[k] = "closed"
         /\ \A j \in Conn : conn[j] = "closed" => conn'[j] = "closed"
         /\ \A j \in Conn : conn'[j] = "new" => conn[j] = "new"
         /\ \A j \in Conn \ {k} : conn'[j] = "closed" => conn[j] = "closed"
         /\ \A j \in Conn \ {k} : conn[j] \in {"open", "gone", "cut"} =>
              conn'[j] \in {"open", "gone", "cut"}
BY DEF TypeOK, Release, Holding

LEMMA DisconnectFreeStep ==
  ASSUME IInv, NEW k \in Conn, DisconnectFree(k)
  PROVE  IInv'
<1> USE DEF IInv, objVars, authVars
<1>1. /\ tpc[k] = "free" /\ tpc' = [tpc EXCEPT ![k] = "null"]
      /\ UNCHANGED <<up, operators, object, running, pid, ssl, fd, wpc, login, victim, ord>>
  BY DEF DisconnectFree, Steps
<1>2. /\ conn' \in [Conn -> {"new", "open", "gone", "cut", "closed"}]
      /\ conn'[k] = "closed"
      /\ \A j \in Conn : conn[j] = "closed" => conn'[j] = "closed"
      /\ \A j \in Conn : conn'[j] = "new" => conn[j] = "new"
      /\ \A j \in Conn \ {k} : conn'[j] = "closed" => conn[j] = "closed"
      /\ \A j \in Conn \ {k} : conn[j] \in {"open", "gone", "cut"} =>
           conn'[j] \in {"open", "gone", "cut"}
  BY Releases DEF DisconnectFree
<1>3. tpc \in [Conn -> RecvPC] /\ victim \in [Auth -> Conn] /\ login \in [Auth -> Conn]
  BY DEF TypeOK
<1>4. TypeOK'
  BY <1>1, <1>2 DEF TypeOK, RecvPC
<1>5. OneHolder' /\ Filed'
  BY <1>1 DEF OneHolder, Filed
<1>6. Made' /\ Shut'
  BY <1>1, <1>2, <1>3 DEF Made, Shut
<1>7. object[k] = "live"
  BY <1>1 DEF Threads, Alive
<1>8. Working'
  BY <1>1, <1>2, <1>3, <1>7 DEF Working
<1>9. Threads'
  BY <1>1, <1>3 DEF Threads, Alive
<1>10. DanglingWindow'
  BY <1>1, <1>2, <1>3 DEF DanglingWindow
<1> QED BY <1>4, <1>5, <1>6, <1>8, <1>9, <1>10

LEMMA DisconnectNullStep ==
  ASSUME IInv, NEW k \in Conn, DisconnectNull(k)
  PROVE  IInv'
<1> USE DEF IInv, objVars, netVars, authVars
<1>1. /\ tpc[k] = "null" /\ tpc' = [tpc EXCEPT ![k] = "exited"]
      /\ ssl' = [ssl EXCEPT ![k] = FALSE]
      /\ UNCHANGED <<up, operators, object, running, pid, conn, fd, wpc, login, victim, ord>>
  BY DEF DisconnectNull, Steps, Nulled
<1>2. tpc \in [Conn -> RecvPC] /\ ssl \in [Conn -> BOOLEAN]
  BY DEF TypeOK
<1>3. TypeOK'
  BY <1>1, <1>2 DEF TypeOK, RecvPC
<1>4. OneHolder' /\ Filed'
  BY <1>1 DEF OneHolder, Filed
<1>5. Made' /\ Shut'
  BY <1>1, <1>2 DEF Made, Shut
<1>6. Working'
  BY <1>1 DEF Working
<1>7. Threads'
  BY <1>1, <1>2 DEF Threads, Alive
<1>8. DanglingWindow'
  BY <1>1, <1>2 DEF DanglingWindow
<1> QED BY <1>3, <1>4, <1>5, <1>6, <1>7, <1>8

(* The process ends: all that was alive is deleted and closed.             *)
LEMMA DeathStep ==
  ASSUME IInv, Dies
  PROVE  IInv'
<1> USE DEF IInv, Dies, Each
<1>1. Some(Conn) \in Conn
  BY OperatorsAssumption DEF Some
<1>2. TypeOK'
  <2>1. /\ object' \in [Conn -> {"none", "live", "deleted"}]
        /\ conn' \in [Conn -> {"new", "open", "gone", "cut", "closed"}]
        /\ tpc' \in [Conn -> RecvPC]
    BY DEF RecvPC
  <2> QED BY <1>1, <2>1 DEF TypeOK, AuthPC
<1>3. OneHolder' /\ Filed'
  BY DEF OneHolder, Filed
<1>4. Made' /\ Shut'
  BY DEF Made, Shut
<1>5. Working'
  BY DEF Working, Destroying, Closing
<1>6. Threads'
  BY DEF Threads, Alive, Destroying
<1>7. DanglingWindow'
  BY DEF DanglingWindow
<1> QED BY <1>2, <1>3, <1>4, <1>5, <1>6, <1>7

LEMMA ArrivalStep ==
  ASSUME IInv, NEW k \in Conn, Accept(k) \/ PeerLeaves(k)
  PROVE  IInv'
<1> USE DEF IInv, objVars, authVars, recvVars
<1>1. /\ UNCHANGED <<up, operators, object, running, pid, ssl, wpc, login, victim, tpc, ord>>
      /\ \/ conn[k] = "new" /\ conn' = [conn EXCEPT ![k] = "open"]
         \/ conn[k] = "open" /\ conn' = [conn EXCEPT ![k] = "gone"]
      /\ fd' \in [Conn -> FD]
  BY DEF Accept, PeerLeaves, TypeOK
<1>2. conn \in [Conn -> {"new", "open", "gone", "cut", "closed"}]
  BY DEF TypeOK
<1>3. TypeOK'
  BY <1>1, <1>2 DEF TypeOK
<1>4. OneHolder' /\ Filed' /\ Threads'
  BY <1>1 DEF OneHolder, Filed, Threads, Alive
<1>5. Made' /\ Shut'
  BY <1>1, <1>2 DEF Made, Shut
<1>6. Working'
  BY <1>1, <1>2 DEF Working, TypeOK
<1>7. DanglingWindow'
  BY <1>1, <1>2 DEF DanglingWindow
<1> QED BY <1>3, <1>4, <1>5, <1>6, <1>7

-----------------------------------------------------------------------------
(* The holder of operators_lock.                                           *)

(* Nobody else has the lock when w goes on.                                *)
LEMMA Alone ==
  ASSUME OneHolder, NEW w \in Auth, wpc[w] # "idle"
  PROVE  \A v \in Auth \ {w} : wpc[v] = "idle"
BY DEF OneHolder

LEMMA AddNewStep ==
  ASSUME IInv, NEW w \in Auth, NEW k \in Conn, AddNew(w, k)
  PROVE  IInv'
<1> USE DEF IInv, netVars, recvVars
<1>1. /\ \A v \in Auth : wpc[v] = "idle"
      /\ conn[k] \in {"open", "gone"} /\ object[k] = "none" /\ operators[Owner[k]] = NoConn
      /\ object' = [object EXCEPT ![k] = "live"] /\ ssl' = [ssl EXCEPT ![k] = TRUE]
      /\ running' = [running EXCEPT ![k] = TRUE]
      /\ operators' = [operators EXCEPT ![Owner[k]] = k]
      /\ login' = [login EXCEPT ![w] = k] /\ wpc' = [wpc EXCEPT ![w] = "create"]
      /\ UNCHANGED <<up, pid, conn, fd, victim, tpc, ord>>
  BY DEF AddNew, LockFree, Installs, Holding
<1>2. /\ object \in [Conn -> {"none", "live", "deleted"}] /\ ssl \in [Conn -> BOOLEAN]
      /\ operators \in [Oper -> Conn \cup {NoConn}] /\ wpc \in [Auth -> AuthPC]
      /\ login \in [Auth -> Conn] /\ Owner \in [Conn -> Oper] /\ NoConn \notin Conn
  BY OperatorsAssumption DEF TypeOK
<1>3. tpc[k] = "none"
  BY <1>1 DEF Made
<1>4. TypeOK'
  BY <1>1, <1>2 DEF TypeOK, AuthPC
<1>5. OneHolder'
  BY <1>1, <1>2 DEF OneHolder
<1>6. Filed'
  BY <1>1, <1>2 DEF Filed
<1>7. Made' /\ Shut'
  BY <1>1, <1>2, <1>3 DEF Made, Shut
<1>8. Working'
  BY <1>1, <1>2 DEF Working, Destroying, Closing
<1>9. Threads'
  BY <1>1, <1>2, <1>3 DEF Threads, Alive, Destroying
<1>10. DanglingWindow'
  BY <1>1, <1>2 DEF DanglingWindow
<1> QED BY <1>4, <1>5, <1>6, <1>7, <1>8, <1>9, <1>10

(* A step of the lock's holder that touches neither objects nor            *)
(* connections.                                                            *)
LEMMA HolderMoves ==
  ASSUME IInv, NEW w \in Auth, NEW to \in AuthPC,
         \A v \in Auth \ {w} : wpc[v] = "idle",
         wpc' = [wpc EXCEPT ![w] = to],
         UNCHANGED <<up, operators, object, pid, ssl, netVars, recvVars>>,
         running' \in [Conn -> BOOLEAN],
         login' \in [Auth -> Conn], victim' \in [Auth -> Conn],
         to \in Destroying,
         object[victim'[w]] = "live",
         victim'[w] # login'[w] =>
           /\ object[login'[w]] = "none" /\ conn[login'[w]] \in {"open", "gone", "cut"}
           /\ operators[Owner[login'[w]]] = victim'[w],
         victim'[w] = login'[w] => tpc[login'[w]] = "none",
         to \in Closing => conn[victim'[w]] = "closed",
         to = "delete" => ~Alive(victim'[w]),
         wpc[w] \in Closing => to \in Closing /\ victim'[w] = victim[w]
  PROVE  IInv'
<1> USE DEF IInv, netVars, recvVars
<1>1. wpc \in [Auth -> AuthPC]
  BY DEF TypeOK
<1>2. \A v \in Auth : wpc'[v] = IF v = w THEN to ELSE "idle"
  BY <1>1
<1>3. TypeOK'
  BY <1>1 DEF TypeOK
<1>4. OneHolder'
  BY <1>2 DEF OneHolder
<1>5. Filed' /\ Made' /\ Shut'
  BY DEF Filed, Made, Shut
<1>6. Working'
  BY <1>2 DEF Working, Destroying, Closing
<1>7. Threads'
  BY <1>2 DEF Threads, Alive, Destroying
<1>8. DanglingWindow'
  BY <1>2 DEF DanglingWindow, Closing
<1> QED BY <1>3, <1>4, <1>5, <1>6, <1>7, <1>8

LEMMA AddExistingStep ==
  ASSUME IInv, NEW w \in Auth, NEW k \in Conn, AddExisting(w, k)
  PROVE  IInv'
<1> USE DEF IInv
<1>1. /\ \A v \in Auth : wpc[v] = "idle"
      /\ conn[k] \in {"open", "gone"} /\ object[k] = "none" /\ operators[Owner[k]] # NoConn
      /\ login' = [login EXCEPT ![w] = k]
      /\ victim' = [victim EXCEPT ![w] = operators[Owner[k]]]
      /\ wpc' = [wpc EXCEPT ![w] = "check"]
      /\ UNCHANGED <<up, operators, object, pid, ssl, netVars, recvVars, running>>
  BY DEF AddExisting, LockFree, Holding, objVars
<1>2. /\ operators \in [Oper -> Conn \cup {NoConn}] /\ Owner \in [Conn -> Oper]
      /\ login \in [Auth -> Conn] /\ victim \in [Auth -> Conn] /\ running \in [Conn -> BOOLEAN]
  BY OperatorsAssumption DEF TypeOK
<1>3. object[operators[Owner[k]]] = "live"
  BY <1>1, <1>2 DEF Filed
<1>4. /\ login' \in [Auth -> Conn] /\ victim' \in [Auth -> Conn]
      /\ login'[w] = k /\ victim'[w] = operators[Owner[k]] /\ victim'[w] # k
  BY <1>1, <1>2, <1>3
<1>5. "check" \in AuthPC /\ "check" \in Destroying /\ "check" \notin Closing
  BY DEF AuthPC, Destroying, Closing
<1> QED BY <1>1, <1>2, <1>3, <1>4, <1>5, HolderMoves DEF Closing

(* The steps of the destructor up to the join, and a failed                *)
(* pthread_create.                                                         *)
LEMMA DestructorStep ==
  ASSUME IInv, NEW w \in Auth, CheckSSL(w) \/ StopRunning(w) \/ Join(w) \/ CreateFails(w)
  PROVE  IInv'
<1> USE DEF IInv, objVars, Goes
<1>1. \A v \in Auth \ {w} : wpc[v] = "idle"
  BY Alone DEF CheckSSL, StopRunning, Join, CreateFails
<1>2. /\ victim \in [Auth -> Conn] /\ login \in [Auth -> Conn] /\ running \in [Conn -> BOOLEAN]
      /\ victim[w] \in Conn /\ login[w] \in Conn /\ Owner[login[w]] \in Oper
  BY OperatorsAssumption DEF TypeOK
<1>3. CASE CheckSSL(w)
  <2>1. PICK to \in {"free", "stop"} :
          wpc' = [wpc EXCEPT ![w] = to] /\ (to = "stop" => ~ssl[victim[w]])
    BY <1>3 DEF CheckSSL
  <2>2. wpc[w] = "check" /\ UNCHANGED <<up, objVars, ssl, netVars, login, victim, recvVars>>
    BY <1>3 DEF CheckSSL
  <2>3. to = "stop" => conn[victim[w]] = "closed"
    BY <1>2, <2>1, <2>2 DEF Working, Shut, Destroying
  <2>4. /\ object[victim[w]] = "live" /\ (victim[w] = login[w] => tpc[login[w]] = "none")
        /\ victim[w] # login[w] =>
             /\ object[login[w]] = "none" /\ conn[login[w]] \in {"open", "gone", "cut"}
             /\ operators[Owner[login[w]]] = victim[w]
    BY <2>2 DEF Working, Threads, Destroying
  <2>5. to \in AuthPC /\ to \in Destroying /\ to # "delete" /\ (to \in Closing => to = "stop")
        /\ wpc[w] \notin Closing
    BY <2>1, <2>2 DEF AuthPC, Destroying, Closing
  <2> QED BY <1>1, <1>2, <2>1, <2>2, <2>3, <2>4, <2>5, HolderMoves
<1>4. CASE StopRunning(w) \/ Join(w)
  <2>1. PICK to \in {"join", "delete"} :
          wpc' = [wpc EXCEPT ![w] = to] /\ (to = "delete" => ~pid[victim[w]] \/ tpc[victim[w]] = "exited")
    BY <1>4 DEF StopRunning, Join, Joins
  <2>2. /\ wpc[w] \in {"stop", "join"} /\ running' \in [Conn -> BOOLEAN]
        /\ UNCHANGED <<up, operators, object, pid, ssl, netVars, login, victim, recvVars>>
    BY <1>2, <1>4 DEF StopRunning, Stopped, Join
  <2>3. to = "delete" => ~Alive(victim[w])
    BY <1>2, <2>1 DEF Threads, Alive
  <2>4. /\ object[victim[w]] = "live" /\ (victim[w] = login[w] => tpc[login[w]] = "none")
        /\ victim[w] # login[w] =>
             /\ object[login[w]] = "none" /\ conn[login[w]] \in {"open", "gone", "cut"}
             /\ operators[Owner[login[w]]] = victim[w]
        /\ conn[victim[w]] = "closed"
    BY <2>2 DEF Working, Threads, Destroying, Closing
  <2>5. to \in AuthPC /\ to \in Destroying /\ to \in Closing
    BY <2>1 DEF AuthPC, Destroying, Closing
  <2> QED BY <1>1, <1>2, <2>1, <2>2, <2>3, <2>4, <2>5, HolderMoves
<1>5. CASE CreateFails(w)
  <2>1. /\ wpc[w] = "create" /\ wpc' = [wpc EXCEPT ![w] = "check"]
        /\ victim' = [victim EXCEPT ![w] = login[w]]
        /\ UNCHANGED <<up, objVars, ssl, netVars, login, recvVars>>
    BY <1>5 DEF CreateFails, AfterFailure
  <2>2. victim' \in [Auth -> Conn] /\ victim'[w] = login[w]
    BY <1>2, <2>1
  <2>3. object[login[w]] = "live" /\ tpc[login[w]] = "none"
    BY <2>1 DEF Working, Threads
  <2>4. /\ "check" \in AuthPC /\ "check" \in Destroying /\ "check" \notin Closing
        /\ wpc[w] \notin Closing
    BY <2>1 DEF AuthPC, Destroying, Closing
  <2> QED BY <1>1, <1>2, <2>1, <2>2, <2>3, <2>4, HolderMoves
<1> QED BY <1>3, <1>4, <1>5

LEMMA FreeSSLStep ==
  ASSUME IInv, NEW w \in Auth, FreeSSL(w)
  PROVE  IInv'
<1> USE DEF IInv, objVars, recvVars
<1>1. /\ wpc[w] = "free" /\ wpc' = [wpc EXCEPT ![w] = "stop"]
      /\ UNCHANGED <<up, operators, object, running, pid, ssl, fd, login, victim, tpc, ord>>
  BY DEF FreeSSL, Goes
<1>2. /\ victim \in [Auth -> Conn] /\ login \in [Auth -> Conn] /\ wpc \in [Auth -> AuthPC]
      /\ victim[w] \in Conn /\ login[w] \in Conn
  BY DEF TypeOK
<1> DEFINE k == victim[w]
<1>3. /\ conn' \in [Conn -> {"new", "open", "gone", "cut", "closed"}]
      /\ conn'[k] = "closed"
      /\ \A j \in Conn : conn[j] = "closed" => conn'[j] = "closed"
      /\ \A j \in Conn : conn'[j] = "new" => conn[j] = "new"
      /\ \A j \in Conn \ {k} : conn'[j] = "closed" => conn[j] = "closed"
      /\ \A j \in Conn \ {k} : conn[j] \in {"open", "gone", "cut"} =>
           conn'[j] \in {"open", "gone", "cut"}
  BY <1>2, Releases DEF FreeSSL
<1>4. \A v \in Auth \ {w} : wpc[v] = "idle"
  BY <1>1, Alone
<1>5. \A v \in Auth : wpc'[v] = IF v = w THEN "stop" ELSE "idle"
  BY <1>1, <1>2, <1>4
<1>6. TypeOK'
  BY <1>1, <1>2, <1>3 DEF TypeOK, AuthPC
<1>7. OneHolder' /\ Filed'
  BY <1>1, <1>5 DEF OneHolder, Filed
<1>8. Made' /\ Shut'
  BY <1>1, <1>2, <1>3 DEF Made, Shut
<1>9. Working'
  BY <1>1, <1>2, <1>3, <1>5 DEF Working, Destroying, Closing
<1>10. Threads'
  BY <1>1, <1>5 DEF Threads, Alive, Destroying
<1>11. DanglingWindow'
  BY <1>1, <1>2, <1>3, <1>5 DEF DanglingWindow
<1> QED BY <1>6, <1>7, <1>8, <1>9, <1>10, <1>11

LEMMA ReplaceStep ==
  ASSUME IInv, NEW w \in Auth, Replace(w)
  PROVE  IInv'
<1> USE DEF IInv, netVars, recvVars
<1> DEFINE k == login[w]
           v == victim[w]
<1>1. /\ wpc[w] = "delete" /\ wpc' = [wpc EXCEPT ![w] = "create"] /\ v # k
      /\ object' = [object EXCEPT ![v] = Deleted(v), ![k] = "live"]
      /\ ssl' = [ssl EXCEPT ![k] = TRUE] /\ running' = [running EXCEPT ![k] = TRUE]
      /\ operators' = [operators EXCEPT ![Owner[k]] = k]
      /\ UNCHANGED <<up, pid, conn, fd, login, victim, tpc, ord>>
  BY DEF Replace, Goes
<1>2. /\ object \in [Conn -> {"none", "live", "deleted"}] /\ ssl \in [Conn -> BOOLEAN]
      /\ operators \in [Oper -> Conn \cup {NoConn}] /\ wpc \in [Auth -> AuthPC]
      /\ k \in Conn /\ v \in Conn /\ Owner \in [Conn -> Oper] /\ NoConn \notin Conn
  BY OperatorsAssumption DEF TypeOK
<1>3. /\ object[v] = "live" /\ object[k] = "none" /\ conn[k] \in {"open", "gone", "cut"}
      /\ operators[Owner[k]] = v /\ conn[v] = "closed"
  BY <1>1 DEF Working, Destroying, Closing
<1>4. ~Alive(v) /\ tpc[k] = "none" /\ Owner[v] = Owner[k]
  BY <1>1, <1>2, <1>3 DEF Threads, Made, Filed
<1>5. \A x \in Auth : wpc'[x] = IF x = w THEN "create" ELSE "idle"
  BY <1>1, <1>2, Alone
<1>6. object'[v] = "deleted" /\ object'[k] = "live"
      /\ \A j \in Conn \ {k, v} : object'[j] = object[j]
  BY <1>1, <1>2, <1>3 DEF Deleted
<1>7. TypeOK'
  <2>1. object' \in [Conn -> {"none", "live", "deleted"}]
    BY <1>1, <1>2, <1>3 DEF Deleted
  <2> QED BY <1>1, <1>2, <2>1 DEF TypeOK, AuthPC
<1>8. OneHolder'
  BY <1>5 DEF OneHolder
<1>9. Filed'
  <2>1. ASSUME NEW j \in Conn, object'[j] = "live" PROVE operators'[Owner[j]] = j
    <3>1. CASE j = k
      BY <1>1, <1>2, <3>1
    <3>2. CASE j # k
      <4>1. object[j] = "live" /\ j # v
        BY <1>6, <2>1, <3>2
      <4>2. operators[Owner[j]] = j /\ Owner[j] # Owner[k]
        BY <1>3, <4>1 DEF Filed
      <4> QED BY <1>1, <1>2, <4>2
    <3> QED BY <3>1, <3>2
  <2>2. ASSUME NEW o \in Oper, operators'[o] # NoConn
        PROVE  object'[operators'[o]] = "live" /\ Owner[operators'[o]] = o
    <3>1. CASE o = Owner[k]
      BY <1>1, <1>2, <1>6, <3>1
    <3>2. CASE o # Owner[k]
      <4>1. operators'[o] = operators[o] /\ operators[o] \in Conn
        BY <1>1, <1>2, <2>2, <3>2
      <4>2. object[operators[o]] = "live" /\ Owner[operators[o]] = o
        BY <2>2, <4>1 DEF Filed
      <4>3. operators[o] # k /\ operators[o] # v
        BY <1>4, <3>2, <4>2
      <4> QED BY <1>6, <4>1, <4>2, <4>3
    <3> QED BY <3>1, <3>2
  <2> QED BY <1>1, <2>1, <2>2 DEF Filed
<1>10. Made' /\ Shut'
  BY <1>1, <1>2, <1>3, <1>4, <1>6 DEF Made, Shut
<1>11. Working'
  BY <1>1, <1>5, <1>6 DEF Working, Destroying, Closing
<1>12. Threads'
  BY <1>1, <1>2, <1>4, <1>5, <1>6 DEF Threads, Alive, Destroying
<1>13. DanglingWindow'
  <2>1. ASSUME NEW j \in Conn, object'[j] = "live", ssl'[j], conn[j] = "closed"
        PROVE  tpc[j] = "null"
    <3>1. j # k /\ j # v
      BY <1>3, <1>6, <2>1
    <3>2. object[j] = "live" /\ ssl[j]
      BY <1>1, <1>2, <1>6, <2>1, <3>1
    <3>3. ~\E x \in Auth : victim[x] = j /\ wpc[x] \in {"stop", "join", "delete"}
      BY <1>1, <3>1, Alone
    <3> QED BY <2>1, <3>2, <3>3 DEF DanglingWindow
  <2> QED BY <1>1, <2>1 DEF DanglingWindow
<1> QED BY <1>7, <1>8, <1>9, <1>10, <1>11, <1>12, <1>13

LEMMA CreateThreadStep ==
  ASSUME IInv, NEW w \in Auth, CreateThread(w)
  PROVE  IInv'
<1> USE DEF IInv, netVars
<1>1. /\ wpc[w] = "create" /\ wpc' = [wpc EXCEPT ![w] = "idle"]
      /\ tpc' = [tpc EXCEPT ![login[w]] = "loop"] /\ pid' = [pid EXCEPT ![login[w]] = TRUE]
      /\ UNCHANGED <<up, operators, object, running, ssl, conn, fd, login, victim, ord>>
  BY DEF CreateThread, Goes
<1>2. /\ tpc \in [Conn -> RecvPC] /\ pid \in [Conn -> BOOLEAN] /\ wpc \in [Auth -> AuthPC]
      /\ login[w] \in Conn
  BY DEF TypeOK
<1>3. object[login[w]] = "live" /\ tpc[login[w]] = "none"
  BY <1>1 DEF Working, Threads
<1>4. \A x \in Auth : wpc'[x] = "idle"
  BY <1>1, <1>2, Alone
<1>5. TypeOK'
  BY <1>1, <1>2 DEF TypeOK, AuthPC, RecvPC
<1>6. OneHolder' /\ Filed'
  BY <1>1, <1>4 DEF OneHolder, Filed
<1>7. Made' /\ Shut'
  BY <1>1, <1>2, <1>3 DEF Made, Shut
<1>8. Working'
  BY <1>4 DEF Working, Destroying, Closing
<1>9. Threads'
  BY <1>1, <1>2, <1>3, <1>4 DEF Threads, Alive, Destroying
<1>10. DanglingWindow'
  <2>1. \A x \in Auth : wpc[x] \notin {"stop", "join", "delete"}
    BY <1>1, Alone
  <2> QED BY <1>1, <1>2, <1>3, <2>1 DEF DanglingWindow
<1> QED BY <1>5, <1>6, <1>7, <1>8, <1>9, <1>10

LEMMA EraseStep ==
  ASSUME IInv, NEW w \in Auth, Erase(w)
  PROVE  IInv'
<1> USE DEF IInv, netVars, recvVars
<1> DEFINE k == login[w]
<1>1. /\ wpc[w] = "delete" /\ wpc' = [wpc EXCEPT ![w] = "idle"] /\ victim[w] = k
      /\ object' = [object EXCEPT ![k] = Deleted(k)]
      /\ operators' = [operators EXCEPT ![Owner[k]] = NoConn]
      /\ UNCHANGED <<up, running, pid, ssl, conn, fd, login, victim, tpc, ord>>
  BY DEF Erase, Goes, Erased
<1>2. /\ object \in [Conn -> {"none", "live", "deleted"}] /\ wpc \in [Auth -> AuthPC]
      /\ operators \in [Oper -> Conn \cup {NoConn}] /\ k \in Conn /\ Owner \in [Conn -> Oper]
      /\ NoConn \notin Conn
  BY OperatorsAssumption DEF TypeOK
<1>3. object[k] = "live" /\ conn[k] = "closed" /\ ~Alive(k)
  BY <1>1 DEF Working, Threads, Destroying, Closing
<1>4. \A x \in Auth : wpc'[x] = "idle"
  BY <1>1, <1>2, Alone
<1>5. /\ object' \in [Conn -> {"none", "live", "deleted"}] /\ object'[k] = "deleted"
      /\ \A j \in Conn \ {k} : object'[j] = object[j]
  BY <1>1, <1>2, <1>3 DEF Deleted
<1>6. TypeOK'
  BY <1>1, <1>2, <1>5 DEF TypeOK, AuthPC
<1>7. OneHolder'
  BY <1>4 DEF OneHolder
<1>8. Filed'
  <2>1. operators[Owner[k]] = k
    BY <1>2, <1>3 DEF Filed
  <2>2. ASSUME NEW j \in Conn, object'[j] = "live" PROVE operators'[Owner[j]] = j
    <3>1. j # k /\ object[j] = "live"
      BY <1>5, <2>2
    <3>2. operators[Owner[j]] = j
      BY <3>1 DEF Filed
    <3> QED BY <1>1, <1>2, <2>1, <3>1, <3>2
  <2>3. ASSUME NEW o \in Oper, operators'[o] # NoConn
        PROVE  object'[operators'[o]] = "live" /\ Owner[operators'[o]] = o
    <3>1. o # Owner[k] /\ operators'[o] = operators[o] /\ operators[o] \in Conn
      BY <1>1, <1>2, <2>3
    <3>2. object[operators[o]] = "live" /\ Owner[operators[o]] = o
      BY <2>3, <3>1 DEF Filed
    <3> QED BY <1>5, <3>1, <3>2
  <2> QED BY <2>2, <2>3 DEF Filed
<1>9. Made' /\ Shut'
  BY <1>1, <1>2, <1>3, <1>5 DEF Made, Shut
<1>10. Working'
  BY <1>4 DEF Working, Destroying, Closing
<1>11. Threads'
  BY <1>1, <1>3, <1>4, <1>5 DEF Threads, Alive, Destroying
<1>12. DanglingWindow'
  <2>1. \A x \in Auth : wpc[x] \in {"stop", "join", "delete"} => victim[x] = k
    BY <1>1, Alone
  <2> QED BY <1>1, <1>5, <2>1 DEF DanglingWindow
<1> QED BY <1>6, <1>7, <1>8, <1>9, <1>10, <1>11, <1>12

LEMMA NothingMoves ==
  ASSUME IInv, Restart \/ UNCHANGED vars
  PROVE  IInv'
<1> USE DEF IInv, Restart, vars, objVars, netVars, authVars, recvVars
<1>1. up' \in BOOLEAN /\ UNCHANGED <<objVars, ssl, netVars, authVars, recvVars>>
  BY DEF TypeOK
<1>2. TypeOK'
  BY <1>1 DEF TypeOK
<1>3. OneHolder' /\ Filed' /\ Made' /\ Shut'
  BY <1>1 DEF OneHolder, Filed, Made, Shut
<1>4. Working' /\ Threads' /\ DanglingWindow'
  BY <1>1 DEF Working, Threads, Alive, DanglingWindow
<1> QED BY <1>2, <1>3, <1>4

LEMMA IInvStep == IInv /\ [Next]_vars => IInv'
<1> SUFFICES ASSUME IInv, [Next]_vars PROVE IInv'
  OBVIOUS
<1>1. ASSUME NEW w \in Auth, Adding(w) PROVE IInv'
  BY <1>1, DestructorStep, FreeSSLStep, DeathStep, ReplaceStep, CreateThreadStep, EraseStep
     DEF Adding, FreeKills
<1>2. ASSUME NEW k \in Conn, Receiving(k) PROVE IInv'
  BY <1>2, ReceiverStep, DisconnectFreeStep, DisconnectNullStep, DeathStep
     DEF Receiving, ReadKills, DisconnectKills
<1> QED BY <1>1, <1>2, AddNewStep, AddExistingStep, ArrivalStep, NothingMoves DEF Next

-----------------------------------------------------------------------------
(* The conjunction of the parts above is an invariant of add_operator, the *)
(* destructor of MT4Operator and operator_thread together.                 *)
THEOREM Invariance == Spec => []IInv
BY Starts, IInvStep, PTL DEF Spec

(* The fields of the objects, the descriptors and the program counters of  *)
(* the two kinds of threads keep their types; in particular no MT4Operator *)
(* is deleted twice by add_operator.                                       *)
THEOREM TypeCorrect == Spec => []TypeOK
<1>1. IInv => TypeOK
  BY DEF IInv
<1> QED BY <1>1, Invariance, PTL

(* add_operator loses no MT4Operator: whatever its destructor, the erase   *)
(* and a failing pthread_create do, a live object is in the map and a      *)
(* deleted one has closed its connection.                                  *)
THEOREM NothingLostHolds == Spec => []NothingLost
<1>1. IInv => NothingLost
  BY DEF IInv, Filed, Shut, NothingLost
<1> QED BY <1>1, Invariance, PTL

(* The ssl field of a live MT4Operator points to a freed SSL object only   *)
(* while its own thread is in disconnect, between SSL_free and the         *)
(* assignment of NULL, or while the destructor waits for that thread.      *)
THEOREM DanglingWindowHolds == Spec => []DanglingWindow
<1>1. IInv => DanglingWindow
  BY DEF IInv
<1> QED BY <1>1, Invariance, PTL

-----------------------------------------------------------------------------
(* The refinement of OperatorSessions.                                     *)

Cur == [o \in Oper |->
          IF \E k \in Conn : Owner[k] = o /\ Alive(k)
          THEN CHOOSE k \in Conn : Owner[k] = o /\ Alive(k) ELSE NoConn]
Over == {k \in Conn : tpc[k] = "exited"}

(* The current session of an operator is the one whose thread runs.        *)
Sole ==
  /\ \A k \in Conn : Alive(k) <=> Cur[Owner[k]] = k
  /\ \A o \in Oper : Cur[o] # NoConn => Cur[o] \in Conn /\ Alive(Cur[o]) /\ Owner[Cur[o]] = o

LEMMA CurrentIsSole == IInv => Sole
<1> SUFFICES ASSUME IInv PROVE Sole
  OBVIOUS
<1>1. Owner \in [Conn -> Oper] /\ NoConn \notin Conn
  BY OperatorsAssumption
<1>2. ASSUME NEW o \in Oper
      PROVE  \/ /\ Cur[o] \in Conn /\ Alive(Cur[o]) /\ Owner[Cur[o]] = o
             \/ Cur[o] = NoConn /\ \A k \in Conn : ~(Owner[k] = o /\ Alive(k))
  <2> DEFINE P(k) == Owner[k] = o /\ Alive(k)
  <2>1. Cur[o] = IF \E k \in Conn : P(k) THEN CHOOSE k \in Conn : P(k) ELSE NoConn
    BY DEF Cur
  <2>2. (\E k \in Conn : P(k)) => (CHOOSE k \in Conn : P(k)) \in Conn /\ P(CHOOSE k \in Conn : P(k))
    <3> HIDE DEF P
    <3> QED OBVIOUS
  <2> QED BY <2>1, <2>2
<1>3. \A j, k \in Conn : Alive(j) /\ Alive(k) /\ Owner[j] = Owner[k] => j = k
  BY DEF IInv, Threads, Filed
<1> QED BY <1>1, <1>2, <1>3 DEF Sole

(* Who runs decides what the sessions do.                                  *)
LEMMA SameSessions ==
  ASSUME \A k \in Conn : (Alive(k)' <=> Alive(k)) /\ (tpc'[k] = "exited" <=> tpc[k] = "exited"),
         Sole, Sole'
  PROVE  Cur' = Cur /\ Over' = Over
<1>1. Owner \in [Conn -> Oper] /\ NoConn \notin Conn
  BY OperatorsAssumption
<1>2. ASSUME NEW o \in Oper PROVE Cur'[o] = Cur[o]
  <2>1. CASE Cur[o] # NoConn
    <3>1. PICK k \in Conn : k = Cur[o] /\ Alive(k) /\ Owner[k] = o
      BY <2>1 DEF Sole
    <3>2. Alive(k)'
      BY <3>1
    <3> QED BY <3>1, <3>2 DEF Sole
  <2>2. CASE Cur'[o] # NoConn
    <3>1. Cur'[o] \in Conn /\ Alive(Cur'[o]) /\ Owner[Cur'[o]] = o
      BY <2>2 DEF Sole, Alive
    <3> QED BY <3>1 DEF Sole
  <2> QED BY <2>1, <2>2
<1>3. Cur' = Cur
  BY <1>2 DEF Cur
<1>4. Over' = Over
  BY DEF Over
<1> QED BY <1>3, <1>4

LEMMA Begins ==
  ASSUME NEW k \in Conn, tpc[k] = "none", Alive(k)', Sole, Sole',
         \A j \in Conn \ {k} : tpc'[j] = tpc[j]
  PROVE  /\ Cur[Owner[k]] = NoConn /\ k \notin Over /\ Over' = Over
         /\ Cur' = [Cur EXCEPT ![Owner[k]] = k]
<1>1. Owner \in [Conn -> Oper] /\ NoConn \notin Conn
  BY OperatorsAssumption
<1>2. Cur'[Owner[k]] = k
  BY DEF Sole
<1>3. Cur[Owner[k]] = NoConn
  <2>1. SUFFICES ASSUME Cur[Owner[k]] # NoConn PROVE FALSE
    OBVIOUS
  <2>2. PICK j \in Conn : j = Cur[Owner[k]] /\ Alive(j) /\ Owner[j] = Owner[k]
    BY <1>1, <2>1 DEF Sole
  <2>3. j # k /\ Alive(j)'
    BY <2>2 DEF Alive
  <2> QED BY <1>2, <2>2, <2>3 DEF Sole
<1>4. ASSUME NEW o \in Oper, o # Owner[k] PROVE Cur'[o] = Cur[o]
  <2>1. CASE Cur[o] # NoConn
    <3>1. PICK j \in Conn \ {k} : j = Cur[o] /\ Alive(j) /\ Owner[j] = o
      BY <1>4, <2>1 DEF Sole
    <3>2. Alive(j)'
      BY <3>1 DEF Alive
    <3> QED BY <3>1, <3>2 DEF Sole
  <2>2. CASE Cur'[o] # NoConn
    <3>1. Cur'[o] \in Conn \ {k} /\ Owner[Cur'[o]] = o /\ tpc'[Cur'[o]] \notin {"none", "exited"}
      BY <1>4, <2>2 DEF Sole, Alive
    <3>2. Alive(Cur'[o])
      BY <3>1 DEF Alive
    <3> QED BY <3>1, <3>2 DEF Sole
  <2> QED BY <2>1, <2>2
<1>5. Cur' = [Cur EXCEPT ![Owner[k]] = k]
  BY <1>1, <1>2, <1>4 DEF Cur
<1>6. k \notin Over /\ Over' = Over
  BY DEF Over, Alive
<1> QED BY <1>3, <1>5, <1>6

LEMMA Ends ==
  ASSUME NEW k \in Conn, Alive(k), tpc'[k] = "exited", Sole, Sole',
         \A j \in Conn \ {k} : tpc'[j] = tpc[j]
  PROVE  /\ Cur[Owner[k]] = k /\ Over' = Over \cup {k}
         /\ Cur' = [Cur EXCEPT ![Owner[k]] = NoConn]
<1>1. Owner \in [Conn -> Oper] /\ NoConn \notin Conn
  BY OperatorsAssumption
<1>2. Cur[Owner[k]] = k /\ ~Alive(k)'
  BY DEF Sole, Alive
<1>3. ASSUME NEW o \in Oper, Cur'[o] # NoConn
      PROVE  o # Owner[k] /\ Cur'[o] = Cur[o]
  <2>1. /\ Cur'[o] \in Conn \ {k} /\ Owner[Cur'[o]] = o
        /\ tpc'[Cur'[o]] \notin {"none", "exited"}
    BY <1>2, <1>3 DEF Sole, Alive
  <2>2. Alive(Cur'[o])
    BY <2>1 DEF Alive
  <2> QED BY <1>2, <2>1, <2>2 DEF Sole
<1>4. ASSUME NEW o \in Oper, o # Owner[k], Cur[o] # NoConn PROVE Cur'[o] = Cur[o]
  <2>1. PICK j \in Conn \ {k} : j = Cur[o] /\ Alive(j) /\ Owner[j] = o
    BY <1>4 DEF Sole
  <2>2. Alive(j)'
    BY <2>1 DEF Alive
  <2> QED BY <2>1, <2>2 DEF Sole
<1>5. Cur' = [Cur EXCEPT ![Owner[k]] = NoConn]
  BY <1>1, <1>3, <1>4 DEF Cur
<1>6. Over' = Over \cup {k}
  BY DEF Over
<1> QED BY <1>2, <1>5, <1>6

LEMMA AllEnd ==
  ASSUME Sole, Sole', \A k \in Conn : tpc'[k] = IF tpc[k] = "none" THEN "none" ELSE "exited"
  PROVE  /\ Cur' = [o \in Oper |-> NoConn]
         /\ Over' = Over \cup {k \in Conn : Cur[Owner[k]] = k}
<1>1. \A k \in Conn : ~Alive(k)'
  BY DEF Alive
<1>2. \A o \in Oper : Cur'[o] = NoConn
  BY <1>1 DEF Sole
<1>3. Cur' = [o \in Oper |-> NoConn]
  BY <1>2 DEF Cur
<1>4. Over' = Over \cup {k \in Conn : Cur[Owner[k]] = k}
  BY DEF Over, Sole, Alive
<1> QED BY <1>3, <1>4

(* A step of OperatorSessions, or none, written with Cur and Over.         *)
Session ==
  \/ Cur' = Cur /\ Over' = Over
  \/ /\ Cur' = [o \in Oper |-> NoConn]
     /\ Over' = Over \cup {k \in Conn : Cur[Owner[k]] = k}
  \/ \E k \in Conn :
       /\ Cur[Owner[k]] = NoConn /\ k \notin Over /\ Over' = Over
       /\ Cur' = [Cur EXCEPT ![Owner[k]] = k]
  \/ \E k \in Conn :
       /\ Cur[Owner[k]] = k /\ Over' = Over \cup {k}
       /\ Cur' = [Cur EXCEPT ![Owner[k]] = NoConn]

LEMMA SessionStep ==
  ASSUME IInv, Sole, Sole', [Next]_vars
  PROVE  Session
<1>1. tpc \in [Conn -> RecvPC] /\ login \in [Auth -> Conn]
  BY DEF IInv, TypeOK
<1>2. ASSUME UNCHANGED tpc PROVE Session
  BY <1>2, SameSessions DEF Alive, Session
<1>3. ASSUME Dies PROVE Session
  <2>1. \A k \in Conn : tpc'[k] = IF tpc[k] = "none" THEN "none" ELSE "exited"
    BY <1>3 DEF Dies
  <2> QED BY <2>1, AllEnd DEF Session
<1>4. ASSUME NEW w \in Auth, CreateThread(w) PROVE Session
  <2>1. tpc[login[w]] = "none" /\ tpc' = [tpc EXCEPT ![login[w]] = "loop"]
    BY <1>4 DEF CreateThread, Goes, IInv, Threads
  <2>2. PICK k \in Conn : k = login[w]
    BY <1>1
  <2>3. tpc[k] = "none" /\ Alive(k)' /\ \A j \in Conn \ {k} : tpc'[j] = tpc[j]
    BY <1>1, <2>1, <2>2 DEF Alive
  <2> QED BY <2>2, <2>3, Begins DEF Session
<1>5. ASSUME NEW w \in Auth, Adding(w) PROVE Session
  BY <1>2, <1>3, <1>4, <1>5
     DEF Adding, CheckSSL, FreeSSL, FreeKills, StopRunning, Join, Replace, CreateFails, Erase,
         recvVars
<1>6. ASSUME NEW k \in Conn, NEW from \in RecvPC \ {"none", "exited"}, NEW to \in RecvPC \ {"none"},
             Steps(k, from, to)
      PROVE  Session
  <2>1. /\ Alive(k) /\ tpc'[k] = to
        /\ \A j \in Conn \ {k} : tpc'[j] = tpc[j]
    BY <1>1, <1>6 DEF Steps, Alive
  <2>2. CASE to = "exited"
    BY <2>1, <2>2, Ends DEF Session
  <2>3. CASE to # "exited"
    <3>1. \A j \in Conn : (Alive(j)' <=> Alive(j)) /\ (tpc'[j] = "exited" <=> tpc[j] = "exited")
      BY <2>1, <2>3 DEF Alive
    <3> QED BY <3>1, SameSessions DEF Session
  <2> QED BY <2>2, <2>3
<1>7. ASSUME NEW k \in Conn, Receiving(k) PROVE Session
  <2>1. \/ Dies
        \/ \E from \in RecvPC \ {"none", "exited"}, to \in RecvPC \ {"none"} : Steps(k, from, to)
    BY <1>7 DEF Receiving, ExitLoop, Select, ReadOrder, ReadAgain, ReadEnd, ReadKills, FanOut, FanOutHangs,
                Disconnect, DisconnectFree, DisconnectKills, DisconnectNull, RecvPC
  <2> QED BY <1>3, <1>6, <2>1
<1>8. ASSUME NEW k \in Conn, Accept(k) \/ PeerLeaves(k) PROVE Session
  BY <1>2, <1>8 DEF Accept, PeerLeaves, recvVars
<1>9. ASSUME NEW w \in Auth, NEW k \in Conn, AddNew(w, k) \/ AddExisting(w, k) PROVE Session
  BY <1>2, <1>9 DEF AddNew, AddExisting, recvVars
<1>10. ASSUME Restart \/ UNCHANGED vars PROVE Session
  BY <1>2, <1>10 DEF Restart, vars, recvVars
<1> QED BY <1>5, <1>7, <1>8, <1>9, <1>10 DEF Next

(* Every step of add_operator and operator_thread begins or ends one       *)
(* session, ends all of them, or leaves them alone: the join in the        *)
(* destructor keeps two threads of one operator from running together.     *)
THEOREM SessionsRefined == Spec => SessionsDoNotOverlap
<1>1. Init => Sessions!SessInit
  <2> SUFFICES ASSUME Init PROVE Sessions!SessInit
    OBVIOUS
  <2>1. \A k \in Conn : ~Alive(k) /\ tpc[k] # "exited"
    BY DEF Init, Each, Alive
  <2> QED BY <2>1 DEF Sessions!SessInit
<1>2. IInv /\ Sole /\ Sole' /\ [Next]_vars => [Sessions!SessNext]_(Sessions!sessVars)
  <2> SUFFICES ASSUME IInv, Sole, Sole', [Next]_vars
               PROVE  [Sessions!SessNext]_(Sessions!sessVars)
    OBVIOUS
  <2>1. Session
    BY SessionStep
  <2> QED BY <2>1
       DEF Session, Cur, Over, Sessions!SessNext, Sessions!sessVars, Sessions!EndAll,
           Sessions!Begin, Sessions!End
<1> QED BY <1>1, <1>2, CurrentIsSole, Invariance, PTL
        DEF Spec, SessionsDoNotOverlap, Sessions!SessSpec
=============================================================================
