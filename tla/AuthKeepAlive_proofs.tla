------------------------ MODULE AuthKeepAlive_proofs ------------------------
(***************************************************************************)
(* Proofs about the auth server, for any number of users, connections and  *)
(* descriptors.                                                            *)
(***************************************************************************)
EXTENDS AuthKeepAlive, TLAPS

(* An open connection has a descriptor, and no two have the same one.      *)
Distinct ==
  /\ \A k \in Conn : IsOpen(k) => sock[k] \in Fd
  /\ \A j, k \in Conn : IsOpen(j) /\ IsOpen(k) /\ sock[j] = sock[k] => j = k

(* keep_alive_thread hangs up on a descriptor.                             *)
Hanging == failed => event \in Fd

(* As long as add_alive_users inserts, its user is new to the maps, and no *)
(* authenticated connection has the number that it inserts, even if the    *)
(* one it was called for is closed meanwhile and the number comes back.    *)
Adding ==
  pc = "insert" =>
    /\ keep_alive_users[Login[adding]] = NoFd
    /\ \A j \in Conn : st[j] = "alive" => sock[j] # sock[adding]

IInv == TypeOK /\ Distinct /\ Hanging /\ Adding /\ OneSession

-----------------------------------------------------------------------------
LEMMA Starts == Init => IInv
<1> SUFFICES ASSUME Init PROVE IInv
  OBVIOUS
<1>1. TypeOK
  <2>1. 0 \in 0..MaxTime /\ 0 \in 0..LastLogin
    BY KeepAliveAssumption DEF MaxTime
  <2>2. NoUsers \in [User -> Fd \cup {NoFd}] /\ NoChannels \in [Fd -> Conn \cup {NoConn}]
    BY DEF NoUsers, NoChannels
  <2> QED BY <2>1, <2>2 DEF Init, TypeOK
<1>2. Distinct /\ Hanging /\ Adding /\ OneSession
  BY DEF Init, Distinct, IsOpen, Hanging, Adding, OneSession
<1> QED BY <1>1, <1>2 DEF IInv

(* A step that only closes connections, or moves one on without letting    *)
(* it in, keeps who has which descriptor and which session.                *)
LEMMA OnlyCloses ==
  ASSUME IInv,
         \A k \in Conn : IsOpen(k)' => IsOpen(k) /\ (st'[k] = "alive" => st[k] = "alive"),
         UNCHANGED <<sock, keep_alive_users>>,
         pc' = "insert" => pc = "insert" /\ adding' = adding
  PROVE  Distinct' /\ Adding' /\ OneSession'
<1>1. Distinct'
  BY DEF IInv, Distinct
<1>2. OneSession'
  BY DEF IInv, OneSession, IsOpen
<1>3. Adding'
  BY DEF IInv, Adding, IsOpen
<1> QED BY <1>1, <1>2, <1>3

(* close(2) opens nothing.                                                 *)
LEMMA Closing ==
  ASSUME NEW F, CloseFds(F), TypeOK
  PROVE  /\ st' \in [Conn -> {"new", "ssl", "pending", "alive", "closed"}]
         /\ watched' \in SUBSET Conn
         /\ \A k \in Conn : st'[k] \in {st[k], "closed"}
BY DEF CloseFds, TypeOK

LEMMA DeathStep == IInv /\ Dies => IInv'
<1> SUFFICES ASSUME IInv, Dies PROVE IInv'
  OBVIOUS
<1>1. TypeOK'
  BY KeepAliveAssumption DEF IInv, TypeOK, Dies, NoUsers, NoChannels, connVars
<1>2. \A k \in Conn : ~IsOpen(k)'
  BY DEF Dies, IsOpen
<1>3. Distinct' /\ Hanging' /\ Adding' /\ OneSession'
  BY <1>2 DEF Dies, Distinct, Hanging, Adding, OneSession, IsOpen
<1> QED BY <1>1, <1>3 DEF IInv

LEMMA AcceptStep ==
  ASSUME IInv, NEW k \in Conn, NEW f \in Fd, Accept(k, f)
  PROVE  IInv'
<1> USE DEF Accept, mapVars, keepVars
<1>1. TypeOK
  BY DEF IInv
<1>2. TypeOK'
  BY <1>1, KeepAliveAssumption DEF TypeOK
<1>3. \A j \in Conn \ {k} : st'[j] = st[j] /\ sock'[j] = sock[j]
  BY <1>1 DEF TypeOK
<1>4. st'[k] = "ssl" /\ sock'[k] = f /\ \A j \in Conn : IsOpen(j) => sock[j] # f
  BY <1>1 DEF TypeOK, On
<1>5. Distinct'
  <2>1. \A j \in Conn : IsOpen(j)' => sock'[j] \in Fd
    BY <1>3, <1>4 DEF IInv, Distinct, IsOpen
  <2>2. \A i, j \in Conn : IsOpen(i)' /\ IsOpen(j)' /\ sock'[i] = sock'[j] => i = j
    BY <1>3, <1>4 DEF IInv, Distinct, IsOpen
  <2> QED BY <2>1, <2>2 DEF Distinct
<1>6. Hanging'
  BY DEF IInv, Hanging
<1>7. OneSession'
  BY <1>3, <1>4 DEF IInv, OneSession
<1>8. Adding'
  <2>1. \A j \in Conn : st'[j] = "alive" => j # k /\ IsOpen(j) /\ st[j] = "alive"
    BY <1>3, <1>4 DEF IsOpen
  <2>2. \A j \in Conn : st'[j] = "alive" => sock'[j] = sock[j] /\ sock[j] # f
    BY <1>3, <1>4, <2>1
  <2> SUFFICES ASSUME pc = "insert"
               PROVE  /\ keep_alive_users[Login[adding]] = NoFd
                      /\ \A j \in Conn : st'[j] = "alive" => sock'[j] # sock'[adding]
    BY DEF Adding
  <2>3. adding \in Conn /\ sock'[adding] \in {sock[adding], f}
    BY <1>1, <1>3, <1>4, KeepAliveAssumption DEF TypeOK
  <2> QED BY <2>1, <2>2, <2>3 DEF IInv, Adding
<1> QED BY <1>2, <1>5, <1>6, <1>7, <1>8 DEF IInv

(* Peers and the clock, and a new start, change no descriptor.             *)
LEMMA OutsideStep ==
  ASSUME IInv,
         Restart \/ Tick \/ UNCHANGED vars \/ \E k \in Conn : PeerLeaves(k)
  PROVE  IInv'
<1> USE DEF Restart, Tick, PeerLeaves, vars, connVars, mapVars, authVars, keepVars
<1>1. TypeOK'
  <2>1. up' \in BOOLEAN /\ gone' \in SUBSET Conn /\ now' \in 0..MaxTime
    <3>1. now' = now \/ (now < MaxTime /\ now' = now + 1)
      OBVIOUS
    <3>2. now' \in 0..MaxTime
      BY <3>1, KeepAliveAssumption DEF IInv, TypeOK, MaxTime
    <3>3. up' = up \/ up' = TRUE
      OBVIOUS
    <3> QED BY <3>2, <3>3 DEF IInv, TypeOK
  <2>2. UNCHANGED <<st, freed, sock, create_time, authVars, mapVars, watched, keepVars>>
    OBVIOUS
  <2> QED BY <2>1, <2>2 DEF IInv, TypeOK
<1>2. UNCHANGED <<st, sock, keep_alive_users, event, failed, pc, adding>>
  OBVIOUS
<1>3. Distinct' /\ Hanging' /\ Adding' /\ OneSession'
  BY <1>2 DEF IInv, Distinct, IsOpen, Hanging, Adding, OneSession
<1> QED BY <1>1, <1>3 DEF IInv

-----------------------------------------------------------------------------
LEMMA SSLStep == IInv /\ SSLThread => IInv'
<1> SUFFICES ASSUME IInv, SSLThread PROVE IInv'
  OBVIOUS
<1> USE DEF connVars, mapVars, keepVars
<1>1. TypeOK
  BY DEF IInv
<1>2. CASE SSLPurge
  <2> USE <1>2 DEF SSLPurge
  <2>1. SSLExpired \in SUBSET Conn
    BY <1>1 DEF TypeOK, SSLExpired
  <2>2. /\ st' \in [Conn -> {"new", "ssl", "pending", "alive", "closed"}]
        /\ watched' \in SUBSET Conn
        /\ \A k \in Conn : st'[k] \in {st[k], "closed"}
    BY <1>1, Closing
  <2>3. TypeOK'
    BY <1>1, <2>1, <2>2 DEF TypeOK
  <2>4. Hanging'
    BY DEF IInv, Hanging
  <2> QED BY <2>2, <2>3, <2>4, OnlyCloses DEF IInv, IsOpen
<1>3. ASSUME NEW k \in Conn, SSLHandle(k) PROVE IInv'
  <2> USE <1>3 DEF SSLHandle
  <2>1. k \in ssl_queue
    OBVIOUS
  <2>2. Hanging'
    BY DEF IInv, Hanging
  <2>3. CASE /\ st[k] = "ssl" /\ st' = [st EXCEPT ![k] = "pending"]
             /\ queue' = queue \cup {k} /\ UNCHANGED <<freed, watched>>
    <3>1. TypeOK'
      BY <1>1, <2>1, <2>3 DEF TypeOK
    <3>2. \A j \in Conn : IsOpen(j)' => IsOpen(j) /\ (st'[j] = "alive" => st[j] = "alive")
      BY <1>1, <2>3 DEF TypeOK, IsOpen
    <3> QED BY <2>2, <3>1, <3>2, OnlyCloses DEF IInv
  <2>4. CASE freed' = freed \cup {k} /\ CloseFds({sock[k]}) /\ UNCHANGED queue
    <3>1. /\ st' \in [Conn -> {"new", "ssl", "pending", "alive", "closed"}]
          /\ watched' \in SUBSET Conn
          /\ \A j \in Conn : st'[j] \in {st[j], "closed"}
      BY <1>1, <2>4, Closing
    <3>2. TypeOK'
      BY <1>1, <2>4, <3>1 DEF TypeOK
    <3> QED BY <2>2, <3>1, <3>2, OnlyCloses DEF IInv, IsOpen
  <2> QED BY <2>3, <2>4
<1> QED BY <1>2, <1>3 DEF SSLThread

-----------------------------------------------------------------------------
LEMMA RoundStep == IInv /\ Round => IInv'
<1> SUFFICES ASSUME IInv, Round PROVE IInv'
  OBVIOUS
<1> USE DEF Round, connVars, mapVars, keepVars
<1>1. TypeOK
  BY DEF IInv
<1>2. Expired \in SUBSET Conn /\ Purged \in SUBSET queue
  BY <1>1 DEF TypeOK, Expired, Purged
<1>3. /\ st' \in [Conn -> {"new", "ssl", "pending", "alive", "closed"}]
      /\ watched' \in SUBSET Conn
      /\ \A k \in Conn : st'[k] \in {st[k], "closed"}
  BY <1>1, Closing
<1>4. temp' \in SUBSET Purged /\ pc' = IF temp' = {} THEN "select" ELSE "handle"
  OBVIOUS
<1>5. TypeOK'
  BY <1>1, <1>2, <1>3, <1>4 DEF TypeOK
<1>6. Hanging'
  BY DEF IInv, Hanging
<1> QED BY <1>3, <1>5, <1>6, OnlyCloses DEF IInv, IsOpen

(* add_alive_users begins: the connection is the one that has its number,  *)
(* and if it was let in before, it is the one its user is known by.        *)
LEMMA PassStep ==
  ASSUME IInv, NEW k \in Conn, Pass(k)
  PROVE  IInv'
<1> DEFINE old == keep_alive_users[Login[k]]
<1> USE DEF Pass, ReadsLogin, Handles, connVars, mapVars, keepVars
<1>1. TypeOK /\ old \in Fd \cup {NoFd} /\ sock[k] \in Fd /\ IsOpen(k)
  BY KeepAliveAssumption DEF IInv, TypeOK, Distinct, IsOpen
<1>2. freed' \in SUBSET Conn /\ watched' \in SUBSET Conn /\ pc' \in {"insert", "close"}
  <2>1. CASE old = NoFd
    BY <1>1, <2>1 DEF TypeOK
  <2>2. CASE old # NoFd
    <3>1. ssl_com_channel[old] \in Conn \cup {NoConn}
      BY <1>1, <2>2 DEF TypeOK
    <3>2. /\ pc' = "close" /\ watched' = watched \ On({old})
          /\ freed' = freed \cup ({ssl_com_channel[old]} \ {NoConn})
      BY <2>2
    <3> HIDE DEF old
    <3> QED BY <1>1, <3>1, <3>2 DEF TypeOK
  <2> QED BY <2>1, <2>2
<1>3. TypeOK'
  BY <1>1, <1>2, KeepAliveAssumption DEF TypeOK
<1>4. Distinct' /\ Hanging' /\ OneSession'
  BY DEF IInv, Distinct, IsOpen, Hanging, OneSession
<1>5. Adding'
  <2> SUFFICES ASSUME pc' = "insert"
               PROVE  old = NoFd /\ \A j \in Conn : st[j] = "alive" => sock[j] # sock[k]
    BY DEF Adding
  <2>1. old = NoFd
    OBVIOUS
  <2>2. ASSUME NEW j \in Conn, st[j] = "alive" PROVE sock[j] # sock[k]
    BY <1>1, <2>1, <2>2, KeepAliveAssumption DEF IInv, Distinct, IsOpen, OneSession
  <2> QED BY <2>1, <2>2
<1> QED BY <1>3, <1>4, <1>5 DEF IInv

(* The number is filed: no other authenticated connection of the user is   *)
(* left, as a new user has none and no other connection has the number     *)
(* that keep_alive_users holds.                                            *)
LEMMA FiledStep ==
  ASSUME IInv, Insert \/ CloseOld
  PROVE  IInv'
<1> DEFINE u == Login[adding]
           old == keep_alive_users[u]
<1> USE DEF Insert, CloseOld, HangsUp, connVars, keepVars
<1>1. TypeOK /\ adding \in Conn /\ u \in User /\ sock[adding] \in Fd \cup {NoFd}
  BY KeepAliveAssumption DEF IInv, TypeOK
<1>2. keep_alive_users' = [keep_alive_users EXCEPT ![u] = sock[adding]] /\ pc' = "watch"
  OBVIOUS
<1>3. /\ st' \in [Conn -> {"new", "ssl", "pending", "alive", "closed"}]
      /\ watched' \in SUBSET Conn
      /\ ssl_com_channel' \in [Fd -> Conn \cup {NoConn}]
      /\ \A j \in Conn \ {adding} : st'[j] \in {st[j], "closed"}
      /\ \A j \in Conn \ {adding} : ~(st'[j] = "alive" /\ Login[j] = u)
      /\ IsOpen(adding)' => IsOpen(adding)
  <2>1. CASE Insert
    <3>1. \A j \in Conn : ~(st[j] = "alive" /\ Login[j] = u)
      BY <2>1, KeepAliveAssumption DEF IInv, Adding, OneSession, Distinct, IsOpen
    <3> QED BY <1>1, <2>1, <3>1 DEF TypeOK, IsOpen
  <2>2. CASE CloseOld
    <3> DEFINE away == On({old})
    <3>1. /\ ssl_com_channel' = [ssl_com_channel EXCEPT ![old] = IF @ = NoConn THEN @ ELSE adding]
          /\ st' = [j \in Conn |-> IF j \in away THEN "closed"
                                   ELSE IF j = adding /\ IsOpen(j) THEN "alive" ELSE st[j]]
          /\ watched' = watched \ away
      BY <2>2
    <3>2. \A j \in Conn : st[j] = "alive" /\ Login[j] = u => j \in away
      BY DEF IInv, OneSession, On, IsOpen
    <3>3. ssl_com_channel' \in [Fd -> Conn \cup {NoConn}]
      <4> HIDE DEF old
      <4> QED BY <1>1, <3>1 DEF TypeOK
    <3> HIDE DEF away
    <3> QED BY <1>1, <3>1, <3>2, <3>3 DEF TypeOK, IsOpen
  <2> QED BY <2>1, <2>2
<1>4. UNCHANGED <<up, now, freed, gone, sock, create_time, ssl_queue, queue, temp, removed,
                  adding, event, failed>>
  BY Zenon
<1>5. TypeOK'
  <2>1. keep_alive_users' \in [User -> Fd \cup {NoFd}]
    BY <1>1, <1>2 DEF TypeOK
  <2>2. (adding' = NoConn) = (pc' \in {"select", "handle"})
    BY <1>1, <1>2, <1>4, KeepAliveAssumption
  <2> QED BY <1>1, <1>2, <1>3, <1>4, <2>1, <2>2 DEF TypeOK
<1>6. Distinct'
  BY <1>1, <1>3, <1>4 DEF IInv, Distinct, IsOpen
<1>7. Hanging' /\ Adding'
  BY <1>2, <1>4 DEF IInv, Hanging, Adding
<1>8. OneSession'
  <2> SUFFICES ASSUME NEW j \in Conn, st'[j] = "alive"
               PROVE  keep_alive_users'[Login[j]] = sock'[j]
    BY DEF OneSession
  <2>1. CASE j = adding
    BY <1>1, <1>2, <1>4, <2>1 DEF TypeOK
  <2>2. CASE j # adding
    <3>1. st[j] = "alive" /\ Login[j] # u /\ Login[j] \in User
      BY <1>3, <2>2, KeepAliveAssumption
    <3> QED BY <1>1, <1>2, <1>4, <3>1 DEF IInv, OneSession, TypeOK
  <2> QED BY <2>1, <2>2
<1> QED BY <1>5, <1>6, <1>7, <1>8 DEF IInv

LEMMA WatchStep == IInv /\ Watch => IInv'
<1> SUFFICES ASSUME IInv, Watch PROVE IInv'
  OBVIOUS
<1> USE DEF Watch, connVars, mapVars, keepVars
<1>1. watched' \in SUBSET Conn
  BY DEF IInv, TypeOK, On
<1>2. TypeOK'
  BY <1>1 DEF IInv, TypeOK
<1>3. Distinct' /\ Hanging' /\ Adding' /\ OneSession'
  BY DEF IInv, Distinct, IsOpen, Hanging, Adding, OneSession
<1> QED BY <1>2, <1>3 DEF IInv

(* A wrong password, no answer, or no request.                             *)
LEMMA RefusalStep ==
  ASSUME IInv, NEW k \in Conn, Fail(k) \/ Again(k) \/ Malformed(k)
  PROVE  IInv'
<1> USE DEF Fail, Again, Malformed, ReadsLogin, Handles, connVars, mapVars, keepVars
<1>1. TypeOK
  BY DEF IInv
<1>2. /\ st' \in [Conn -> {"new", "ssl", "pending", "alive", "closed"}]
      /\ watched' \in SUBSET Conn
      /\ \A j \in Conn : st'[j] \in {st[j], "closed"}
  <2>1. CASE Again(k)
    BY <1>1, <2>1 DEF TypeOK
  <2>2. CASE Fail(k) \/ Malformed(k)
    BY <1>1, <2>2, Closing
  <2> QED BY <2>1, <2>2
<1>3. TypeOK'
  BY <1>1, <1>2 DEF TypeOK
<1>4. Hanging'
  BY DEF IInv, Hanging
<1> QED BY <1>2, <1>3, <1>4, OnlyCloses DEF IInv, IsOpen

LEMMA RemoveStep == IInv /\ Remove => IInv'
<1> SUFFICES ASSUME IInv, Remove PROVE IInv'
  OBVIOUS
<1> USE DEF Remove, connVars, mapVars, keepVars
<1>1. TypeOK'
  BY DEF IInv, TypeOK, Cleared
<1>2. Distinct' /\ Hanging' /\ Adding' /\ OneSession'
  BY DEF IInv, Distinct, IsOpen, Hanging, Adding, OneSession
<1> QED BY <1>1, <1>2 DEF IInv

-----------------------------------------------------------------------------
LEMMA KeepAliveStep == IInv /\ KeepAliveThread => IInv'
<1> SUFFICES ASSUME IInv, KeepAliveThread PROVE IInv'
  OBVIOUS
<1> USE DEF connVars, mapVars, authVars
<1>1. TypeOK /\ NoFd \notin Fd
  BY KeepAliveAssumption DEF IInv
<1>2. CASE Answer \/ \E f \in Fd : Wake(f)
  <2>1. UNCHANGED <<st, sock, keep_alive_users>>
    BY <1>2 DEF Answer, Wake
  <2>2. /\ event' \in Fd \cup {NoFd} /\ failed' \in BOOLEAN
        /\ failed' => event' \in Fd
    <3>1. CASE Answer
      <4>1. event \in Fd /\ failed = FALSE
        BY <1>1, <3>1, Zenon DEF Answer, TypeOK
      <4>2. \/ event' = NoFd /\ UNCHANGED failed
            \/ failed' = TRUE /\ UNCHANGED event
        BY <3>1, Zenon DEF Answer
      <4> QED BY <4>1, <4>2, Zenon
    <3>2. ASSUME NEW f \in Fd, Wake(f)
          PROVE  event' = f /\ failed' = FALSE
      BY <3>2 DEF Wake
    <3> QED BY <1>2, <3>1, <3>2
  <2>3. TypeOK'
    BY <1>1, <1>2, <2>2 DEF Answer, Wake, TypeOK
  <2>4. Hanging'
    BY <2>2 DEF Hanging
  <2>5. Distinct' /\ Adding' /\ OneSession'
    BY <1>2, <2>1 DEF Answer, Wake, IInv, Distinct, IsOpen, Adding, OneSession
  <2> QED BY <2>3, <2>4, <2>5 DEF IInv
<1>3. CASE HangUp
  <2> USE <1>3 DEF HangUp
  <2>1. Found(event) \subseteq Conn \cup {NoConn}
    BY <1>1 DEF IInv, Hanging, TypeOK, Found
  <2>2. /\ st' \in [Conn -> {"new", "ssl", "pending", "alive", "closed"}]
        /\ watched' \in SUBSET Conn
        /\ \A k \in Conn : st'[k] \in {st[k], "closed"}
    BY <1>1, Closing
  <2>3. TypeOK'
    BY <1>1, <2>1, <2>2 DEF TypeOK
  <2>4. Hanging'
    BY DEF Hanging
  <2> QED BY <2>2, <2>3, <2>4, OnlyCloses DEF IInv, IsOpen
<1> QED BY <1>2, <1>3 DEF KeepAliveThread

LEMMA IInvStep == IInv /\ [Next]_vars => IInv'
<1> SUFFICES ASSUME IInv, [Next]_vars PROVE IInv'
  OBVIOUS
<1>1. CASE AuthThread
  BY <1>1, RoundStep, RemoveStep, PassStep, FiledStep, WatchStep, RefusalStep DEF AuthThread
<1>2. CASE Killed
  BY <1>2, DeathStep DEF Killed
<1> QED BY <1>1, <1>2, AcceptStep, OutsideStep, SSLStep, KeepAliveStep DEF Next

-----------------------------------------------------------------------------
(* Queues, maps, descriptors and SSL objects keep their types; what waits  *)
(* in a queue has been accepted, and a round leaves nothing behind.        *)
THEOREM TypeCorrect == Spec => []TypeOK
<1>1. IInv => TypeOK
  BY DEF IInv
<1> QED BY <1>1, Starts, IInvStep, PTL DEF Spec

(* add_alive_users leaves a user one authenticated connection at most, the *)
(* one keep_alive_users has the descriptor of, although the map is never   *)
(* cleaned and the kernel gives the descriptors in it out again.           *)
THEOREM OneSessionHolds == Spec => []OneSession
<1>1. IInv => OneSession
  BY DEF IInv
<1> QED BY <1>1, Starts, IInvStep, PTL DEF Spec

(* A login changes ssl_com_channel under its own number or under one it    *)
(* hangs up on: no authenticated connection that stays has either.         *)
THEOREM KeepsItsObjectHolds == Spec => KeepsItsObject
<1>1. ASSUME IInv, [Next]_vars, NEW k \in Conn, st[k] = "alive", st'[k] = "alive"
      PROVE  ssl_com_channel'[sock[k]] = ssl_com_channel[sock[k]]
  <2> USE <1>1
  <2>1. TypeOK /\ sock[k] \in Fd /\ IsOpen(k)
    BY DEF IInv, Distinct, IsOpen
  <2>2. CASE Insert \/ CloseOld
    <3>1. adding \in Conn /\ Login[adding] \in User
      BY <2>1, <2>2, KeepAliveAssumption DEF Insert, CloseOld, TypeOK
    <3>2. CASE Insert
      <4>1. sock[adding] # sock[k]
        BY <3>2 DEF Insert, IInv, Adding
      <4> QED BY <2>1, <3>2, <4>1 DEF Insert, TypeOK
    <3>3. CASE CloseOld
      <4> DEFINE old == keep_alive_users[Login[adding]]
      <4>1. old # sock[k]
        BY <2>1, <3>3 DEF CloseOld, HangsUp, On
      <4> QED BY <2>1, <3>3, <4>1 DEF CloseOld, TypeOK
    <3> QED BY <2>2, <3>2, <3>3
  <2>3. CASE Killed
    BY <2>3, <2>1 DEF Killed, Dies, IsOpen
  <2>4. CASE UNCHANGED ssl_com_channel
    BY <2>4
  <2>5. \/ UNCHANGED ssl_com_channel \/ Killed
        \/ Insert \/ CloseOld
    BY DEF Next, vars, mapVars, Accept, PeerLeaves, Tick, SSLThread, SSLPurge, SSLHandle,
           AuthThread, Round, Remove, Pass, Watch, Fail, Again, Malformed, KeepAliveThread, Wake,
           Answer, HangUp, Restart
  <2> QED BY <2>2, <2>3, <2>4, <2>5
<1>2. IInv /\ [Next]_vars =>
        [\A k \in Conn :
           st[k] = "alive" /\ st'[k] = "alive" =>
             ssl_com_channel'[sock[k]] = ssl_com_channel[sock[k]]]_vars
  BY <1>1
<1> QED BY <1>2, Starts, IInvStep, PTL DEF Spec, KeepsItsObject

-----------------------------------------------------------------------------
(* The refinement of UserSessions.                                         *)

Alive == {k \in Conn : st[k] = "alive"}
Over == {k \in Conn : st[k] = "closed"}

(* A step that lets nobody in and brings nothing back.                     *)
LEMMA OnlyEnds ==
  ASSUME \A k \in Conn : /\ st'[k] = "alive" => st[k] = "alive"
                         /\ st[k] = "alive" => st'[k] \in {"alive", "closed"}
                         /\ st[k] = "closed" => st'[k] = "closed"
  PROVE  Sessions!LogsIn \/ Sessions!Ends
<1> DEFINE K == Over' \ Over
<1>1. K \in SUBSET Conn /\ K \cap Over = {}
  BY DEF Over
<1>2. Alive' = Alive \ K
  BY DEF Alive, Over
<1>3. Over' = Over \cup K
  BY DEF Over
<1> HIDE DEF K
<1>4. \E J \in SUBSET Conn : Sessions!Close(J)
  BY <1>1, <1>2, <1>3 DEF Sessions!Close, Alive, Over
<1> QED BY <1>4 DEF Sessions!Ends

(* Whoever logs in was not there, and the connections that make way for    *)
(* him are one at most: those with one descriptor.  The one that logs in   *)
(* may be gone by then, or be the one that makes way.                      *)
LEMMA LogsIn ==
  ASSUME IInv, Insert \/ CloseOld
  PROVE  Sessions!LogsIn \/ Sessions!Ends
<1> DEFINE k == adding
           u == Login[k]
           f == keep_alive_users[u]
<1>1. TypeOK /\ k \in Conn /\ u \in User
  BY KeepAliveAssumption DEF IInv, TypeOK, Insert, CloseOld
<1>2. CASE Insert
  <2>1. \A j \in Alive : Login[j] # u
    BY <1>2, KeepAliveAssumption DEF Insert, IInv, Adding, OneSession, Distinct, IsOpen, Alive
  <2>2. \A j \in Conn : st'[j] = IF j = k /\ IsOpen(k) THEN "alive" ELSE st[j]
    BY <1>1, <1>2 DEF Insert, TypeOK, IsOpen
  <2>3. CASE IsOpen(k)
    <3>1. k \notin Alive \cup Over
      BY <1>1, <2>1, <2>3 DEF Alive, Over, IsOpen
    <3>2. Alive' = (Alive \ {}) \cup {k} /\ Over' = Over \cup {}
      BY <1>1, <2>2, <2>3 DEF Alive, Over, IsOpen
    <3>3. Sessions!LogIn(k, {})
      BY <2>1, <3>1, <3>2 DEF Sessions!LogIn, Sessions!Own, Alive, Over
    <3> QED BY <1>1, <3>3 DEF Sessions!LogsIn
  <2>4. CASE ~IsOpen(k)
    BY <2>2, <2>4, OnlyEnds
  <2> QED BY <2>3, <2>4
<1>3. CASE CloseOld
  <2> DEFINE K == On({f})
  <2>1. st' = [j \in Conn |-> IF j \in K THEN "closed"
                             ELSE IF j = k /\ IsOpen(j) THEN "alive" ELSE st[j]]
    BY <1>3 DEF CloseOld, HangsUp
  <2>2. /\ K \in SUBSET Conn
        /\ \A j \in K : IsOpen(j)
        /\ \A i, j \in K : i = j
    BY DEF On, IInv, Distinct
  <2>3. \A j \in Alive : Login[j] = u => j \in K
    BY DEF IInv, OneSession, On, IsOpen, Alive
  <2>4. CASE k \in K \/ ~IsOpen(k)
    <3>1. \A j \in Conn : st'[j] = IF j \in K THEN "closed" ELSE st[j]
      BY <2>1, <2>2, <2>4
    <3> HIDE DEF K
    <3> QED BY <3>1, <2>2, OnlyEnds DEF IsOpen
  <2>5. CASE k \notin K /\ IsOpen(k)
    <3>1. Alive' = (Alive \ K) \cup {k} /\ Over' = Over \cup K
      <4> HIDE DEF K
      <4> QED BY <1>1, <2>1, <2>2, <2>5 DEF Alive, Over, IsOpen
    <3>2. K \cap Over = {}
      BY <2>2 DEF Over, IsOpen
    <3>3. k \notin Alive \cup Over
      BY <1>1, <2>3, <2>5 DEF Alive, Over, IsOpen
    <3>4. \E J \in SUBSET Conn : (\A i, j \in J : i = j) /\ Sessions!LogIn(k, J)
      <4> HIDE DEF K
      <4> QED BY <2>2, <2>3, <2>5, <3>1, <3>2, <3>3
              DEF Sessions!LogIn, Sessions!Own, Alive, Over
    <3> QED BY <1>1, <3>4 DEF Sessions!LogsIn
  <2> QED BY <2>4, <2>5
<1> QED BY <1>2, <1>3

LEMMA SessionStep ==
  ASSUME IInv, [Next]_vars
  PROVE  Sessions!LogsIn \/ Sessions!Ends
<1>1. TypeOK
  BY DEF IInv
<1>2. ASSUME UNCHANGED st PROVE Sessions!LogsIn \/ Sessions!Ends
  BY <1>2, OnlyEnds
<1>3. ASSUME NEW F, CloseFds(F) PROVE Sessions!LogsIn \/ Sessions!Ends
  <2>1. \A k \in Conn : st'[k] \in {st[k], "closed"}
    BY <1>1, <1>3, Closing
  <2> QED BY <2>1, OnlyEnds
<1>4. ASSUME NEW k \in Conn, NEW f \in Fd, Accept(k, f) PROVE Sessions!LogsIn \/ Sessions!Ends
  <2>1. \A j \in Conn : st'[j] = IF j = k THEN "ssl" ELSE st[j]
    BY <1>1, <1>4 DEF Accept, TypeOK
  <2> QED BY <1>4, <2>1, OnlyEnds DEF Accept
<1>5. CASE SSLThread
  <2>1. ASSUME NEW k \in Conn, SSLHandle(k) PROVE Sessions!LogsIn \/ Sessions!Ends
    <3>1. CASE st[k] = "ssl" /\ st' = [st EXCEPT ![k] = "pending"]
      <4>1. \A j \in Conn : st'[j] = IF j = k THEN "pending" ELSE st[j]
        BY <1>1, <3>1 DEF TypeOK
      <4> QED BY <3>1, <4>1, OnlyEnds
    <3> QED BY <1>3, <2>1, <3>1 DEF SSLHandle
  <2> QED BY <1>3, <1>5, <2>1 DEF SSLThread, SSLPurge
<1>6. CASE AuthThread
  BY <1>2, <1>3, <1>6, LogsIn
     DEF AuthThread, Round, Remove, Pass, Watch, Fail, Again, Malformed
<1>7. CASE KeepAliveThread
  BY <1>2, <1>3, <1>7 DEF KeepAliveThread, Wake, Answer, HangUp
<1>8. CASE Killed
  <2>1. \A k \in Conn : st'[k] = IF st[k] = "new" THEN "new" ELSE "closed"
    BY <1>8 DEF Killed, Dies
  <2> QED BY <2>1, OnlyEnds
<1>9. CASE Tick \/ Restart \/ UNCHANGED vars \/ \E k \in Conn : PeerLeaves(k)
  BY <1>2, <1>9 DEF Tick, Restart, PeerLeaves, vars
<1> QED BY <1>4, <1>5, <1>6, <1>7, <1>8, <1>9 DEF Next

(* The auth server's maps work as one table of sessions: every step of its *)
(* threads is a login that replaces the user's last session or an end of   *)
(* some connections.  Neither the entries that stay in the queue after a   *)
(* login nor the numbers that stay in keep_alive_users let a second        *)
(* session of a user in, or bring one back.                                *)
THEOREM SessionsRefined == Spec => LoginsReplace
<1>1. Init => Sessions!SessInit
  BY DEF Init, Sessions!SessInit
<1>2. IInv /\ [Next]_vars => [Sessions!LogsIn \/ Sessions!Ends]_(Sessions!sessVars)
  BY SessionStep
<1> QED BY <1>1, <1>2, Starts, IInvStep, PTL DEF Spec, LoginsReplace, Sessions!SessSpec
=============================================================================
