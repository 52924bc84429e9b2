------------------------ MODULE MT4AuthQueues_proofs ------------------------
(***************************************************************************)
(* Proofs about the parts of the transfer server that let clients in: the  *)
(* login pipeline, the account database with the registries it fills, and  *)
(* the control port; then about the three beside one another.              *)
(***************************************************************************)
EXTENDS MCAuthQueues, SequenceTheorems, WellFoundedInduction, TLAPS

-----------------------------------------------------------------------------
(* The login pipeline.  Open connections have descriptors of their own     *)
(* (Descriptors), and what has been handled has left the stage that handled*)
(* it (HandledLeft); with them QueueOwned and LostOnlyByReuse are inductive*)

Descriptors ==
  \A j, k \in Conn : j # k /\ IsOpen(j) /\ IsOpen(k) => sock[j] # sock[k]

HandledLeft ==
  /\ \A k \in removed["ssl"] : at[k] \in {"auth", "given", "closed"}
  /\ \A k \in removed["auth"] : at[k] \in {"given", "closed"}

IInv == TypeOK /\ Descriptors /\ HandledLeft /\ QueueOwned /\ LostOnlyByReuse

(* The memory of a fresh process satisfies the invariant.                  *)
LEMMA InitIInv == Init => IInv
  BY QueuesAssumption DEF Init, IInv, TypeOK, Descriptors, HandledLeft,
     QueueOwned, LostOnlyByReuse, Lost, Owned, IsOpen, Nothing, Selecting, Stage,
     MaxTime

(* Closing by number changes whose descriptors are open, and nothing else. *)
LEMMA CloseFacts ==
  ASSUME TypeOK, NEW K \in SUBSET Conn, Close(K)
  PROVE  /\ at' = [k \in Conn |-> IF k \in K THEN "closed" ELSE at[k]]
         /\ at' \in [Conn -> {"new", "given", "closed"} \cup Stage]
         /\ cut' \in SUBSET Conn /\ gone' \in SUBSET Conn
         /\ \A k \in cut : k \in cut' \/ k \in K
         /\ \A k \in cut' : Owned(k)'
  BY DEF TypeOK, Close, Hit, IsOpen, Owned, Stage

(* Every action keeps the types.                                           *)
LEMMA TypeStep == TypeOK /\ [Next]_vars => TypeOK'
<1> SUFFICES ASSUME TypeOK, [Next]_vars PROVE TypeOK'
  OBVIOUS
<1> USE QueuesAssumption DEF TypeOK, Owned, Stage, MaxTime, connVars
<1>1. ASSUME NEW k \in Conn, NEW f \in Fd, Accept(k, f) PROVE TypeOK'
  BY <1>1 DEF Accept
<1>2. ASSUME NEW k \in Conn,
             PeerLeaves(k) \/ RegistryCloses(k) \/ RegistryClosesAgain(k)
      PROVE  TypeOK'
  <2>1. CASE PeerLeaves(k)
    BY <2>1 DEF PeerLeaves
  <2>2. CASE RegistryCloses(k)
    <3>1. Close({k}) /\ {k} \in SUBSET Conn
      BY <2>2 DEF RegistryCloses
    <3>2. /\ at' \in [Conn -> {"new", "given", "closed"} \cup Stage]
          /\ cut' \in SUBSET Conn /\ gone' \in SUBSET Conn
          /\ \A j \in cut' : Owned(j)'
      BY <3>1, CloseFacts
    <3> QED
      BY <2>2, <3>2 DEF RegistryCloses
  <2>3. CASE RegistryClosesAgain(k)
    BY <2>3 DEF RegistryClosesAgain, Hit, IsOpen
  <2> QED
    BY <1>2, <2>1, <2>2, <2>3
<1>3. ASSUME NEW s \in Stage, Round(s) PROVE TypeOK'
  <2>1. Close(Expired(s)) /\ Expired(s) \in SUBSET Conn
    BY <1>3 DEF Round, Expired
  <2>2. /\ at' \in [Conn -> {"new", "given", "closed"} \cup Stage]
        /\ cut' \in SUBSET Conn /\ gone' \in SUBSET Conn
        /\ \A j \in cut' : Owned(j)'
    BY <2>1, CloseFacts
  <2> QED
    BY <1>3, <2>2 DEF Round, Expired
<1>4. ASSUME NEW s \in Stage, Remove(s) PROVE TypeOK'
  BY <1>4 DEF Remove, Cleared
<1>5. ASSUME NEW s \in Stage, NEW k \in Conn,
             HandOn(s, k) \/ Reject(s, k) \/ Again(s, k)
      PROVE  TypeOK'
  <2>1. CASE HandOn(s, k)
    BY <2>1 DEF HandOn, Handled, Passes
  <2>2. CASE Reject(s, k)
    <3>1. Close({k}) /\ {k} \in SUBSET Conn
      BY <2>2 DEF Reject
    <3>2. /\ at' \in [Conn -> {"new", "given", "closed"} \cup Stage]
          /\ cut' \in SUBSET Conn /\ gone' \in SUBSET Conn
          /\ \A j \in cut' : Owned(j)'
      BY <3>1, CloseFacts
    <3> QED
      BY <2>2, <3>2 DEF Reject, Handled
  <2>3. CASE Again(s, k)
    BY <2>3 DEF Again, Handled
  <2> QED
    BY <1>5, <2>1, <2>2, <2>3
<1>6. CASE Tick
  BY <1>6 DEF Tick
<1>7. CASE Killed
  <2>1. at' \in [Conn -> {"new", "given", "closed"} \cup Stage]
    BY <1>7 DEF Killed
  <2> QED
    BY <1>7, <2>1 DEF Killed, Nothing, Selecting
<1>8. CASE Restart \/ UNCHANGED vars
  BY <1>8 DEF Restart, vars
<1> QED
  BY <1>1, <1>2, <1>3, <1>4, <1>5, <1>6, <1>7, <1>8 DEF Next, Thread

(* What the actions of one stage do, in the terms the other lemmas need:   *)
(* what is handed on or closed was in the copy, and belonged to the stage. *)
LEMMA HandleFacts ==
  ASSUME TypeOK, QueueOwned, NEW s \in Stage, NEW k \in Conn,
         HandOn(s, k) \/ Reject(s, k) \/ Again(s, k)
  PROVE  /\ at[k] = s /\ k \in temp[s]
         /\ UNCHANGED <<sock, create_time, pc>>
         /\ \A j \in cut : j \in cut' \/ at'[j] = "closed"
         /\ temp' = [temp EXCEPT ![s] = @ \ {k}]
         /\ \E owner, taken :
              /\ at' = [at EXCEPT ![k] = owner]
              /\ removed' = [removed EXCEPT ![s] = @ \cup taken]
              /\ \/ owner = "closed" /\ taken = {k} /\ UNCHANGED queue
                 \/ owner = s /\ taken = {} /\ UNCHANGED queue
                 \/ owner = "given" /\ taken = {k} /\ UNCHANGED queue /\ s = "auth"
                 \/ /\ owner = "auth" /\ taken = {k} /\ s = "ssl"
                    /\ queue' = [queue EXCEPT !["auth"] = @ \cup {k}]
<1>1. k \in temp[s] /\ at[k] = s
  BY DEF HandOn, Reject, Again, Handled, QueueOwned
<1>2. CASE HandOn(s, k)
  <2>1. CASE s = "ssl"
    BY <1>1, <1>2, <2>1 DEF HandOn, Handled, Passes, connVars
  <2>2. CASE s = "auth"
    BY <1>1, <1>2, <2>2 DEF HandOn, Handled, Passes, connVars
  <2> QED
    BY <2>1, <2>2 DEF Stage
<1>3. CASE Reject(s, k)
  <2>1. Close({k}) /\ {k} \in SUBSET Conn
    BY <1>3 DEF Reject
  <2>2. /\ at' = [j \in Conn |-> IF j \in {k} THEN "closed" ELSE at[j]]
        /\ \A j \in cut : j \in cut' \/ j \in {k}
    BY <2>1, CloseFacts
  <2>3. at' = [at EXCEPT ![k] = "closed"]
    BY <2>2 DEF TypeOK
  <2> QED
    BY <1>1, <1>3, <2>2, <2>3 DEF Reject, Handled, connVars, TypeOK
<1>4. CASE Again(s, k)
  <2>1. at' = [at EXCEPT ![k] = s] /\ removed' = [removed EXCEPT ![s] = @ \cup {}]
    BY <1>1, <1>4 DEF Again, Handled, TypeOK
  <2> QED
    BY <1>1, <1>4, <2>1 DEF Again, Handled, connVars
<1> QED
  BY <1>2, <1>3, <1>4

(* Descriptors stay distinct: accept gives a free one and nothing else     *)
(* changes a descriptor or opens a connection.                             *)
LEMMA DescriptorsStep ==
  TypeOK /\ QueueOwned /\ Descriptors /\ [Next]_vars => Descriptors'
<1> SUFFICES ASSUME TypeOK, QueueOwned, Descriptors, [Next]_vars
             PROVE  Descriptors'
  OBVIOUS
<1> USE DEF Descriptors, IsOpen, Owned
<1>1. ASSUME NEW k \in Conn, NEW f \in Fd, Accept(k, f) PROVE Descriptors'
  <2>1. /\ at' = [at EXCEPT ![k] = "ssl"] /\ sock' = [sock EXCEPT ![k] = f]
        /\ \A j \in Conn : IsOpen(j) => sock[j] # f
        /\ UNCHANGED cut
    BY <1>1 DEF Accept
  <2> QED
    BY <2>1 DEF TypeOK
<1>2. ASSUME UNCHANGED sock, \A k \in Conn : IsOpen(k)' => IsOpen(k)
      PROVE  Descriptors'
  BY <1>2
<1>3. ASSUME NEW K \in SUBSET Conn, Close(K), UNCHANGED sock PROVE Descriptors'
  <2>1. /\ at' = [k \in Conn |-> IF k \in K THEN "closed" ELSE at[k]]
        /\ \A k \in cut : k \in cut' \/ k \in K
    BY <1>3, CloseFacts
  <2> QED
    BY <1>2, <1>3, <2>1
<1>4. ASSUME NEW k \in Conn,
             PeerLeaves(k) \/ RegistryCloses(k) \/ RegistryClosesAgain(k)
      PROVE  Descriptors'
  <2>1. CASE RegistryCloses(k)
    BY <1>3, <2>1 DEF RegistryCloses, connVars
  <2>2. CASE PeerLeaves(k) \/ RegistryClosesAgain(k)
    BY <1>2, <2>2 DEF PeerLeaves, RegistryClosesAgain, connVars
  <2> QED
    BY <1>4, <2>1, <2>2
<1>5. ASSUME NEW s \in Stage, Round(s) \/ Remove(s) PROVE Descriptors'
  <2>1. CASE Round(s)
    <3>1. Expired(s) \in SUBSET Conn
      BY DEF Expired, TypeOK
    <3> QED
      BY <1>3, <2>1, <3>1 DEF Round, connVars
  <2>2. CASE Remove(s)
    BY <1>2, <2>2 DEF Remove, connVars
  <2> QED
    BY <1>5, <2>1, <2>2
<1>8. ASSUME NEW s \in Stage, NEW k \in Conn,
             HandOn(s, k) \/ Reject(s, k) \/ Again(s, k)
      PROVE  Descriptors'
  <2>1. /\ at[k] = s /\ UNCHANGED sock /\ \E owner : at' = [at EXCEPT ![k] = owner]
        /\ \A j \in cut : j \in cut' \/ at'[j] = "closed"
    BY <1>8, HandleFacts
  <2> QED
    BY <1>2, <2>1 DEF TypeOK, Stage
<1>6. CASE Tick \/ Killed \/ Restart
  BY <1>2, <1>6 DEF Tick, Killed, Restart, connVars, TypeOK
<1>7. CASE UNCHANGED vars
  BY <1>2, <1>7 DEF vars, connVars
<1> QED
  BY <1>1, <1>4, <1>5, <1>6, <1>7, <1>8 DEF Next, Thread

(* What a stage has handled has left it for good.                          *)
LEMMA HandledLeftStep ==
  TypeOK /\ QueueOwned /\ HandledLeft /\ [Next]_vars => HandledLeft'
<1> SUFFICES ASSUME TypeOK, QueueOwned, HandledLeft, [Next]_vars
             PROVE  HandledLeft'
  OBVIOUS
<1> USE DEF HandledLeft, TypeOK, Stage
<1>1. ASSUME NEW k \in Conn, NEW f \in Fd, Accept(k, f) PROVE HandledLeft'
  BY <1>1 DEF Accept
<1>2. ASSUME NEW k \in Conn,
             PeerLeaves(k) \/ RegistryCloses(k) \/ RegistryClosesAgain(k)
      PROVE  HandledLeft'
  BY <1>2 DEF PeerLeaves, RegistryCloses, RegistryClosesAgain, Close
<1>3. ASSUME NEW s \in Stage, Round(s) PROVE HandledLeft'
  BY <1>3 DEF Round, Close
<1>4. ASSUME NEW s \in Stage, Remove(s) PROVE HandledLeft'
  BY <1>4 DEF Remove, Cleared
<1>5. ASSUME NEW s \in Stage, NEW k \in Conn,
             HandOn(s, k) \/ Reject(s, k) \/ Again(s, k)
      PROVE  HandledLeft'
  <2>1. at[k] = s /\ k \in temp[s]
    BY <1>5, HandleFacts
  <2>2. PICK owner, taken :
          /\ at' = [at EXCEPT ![k] = owner]
          /\ removed' = [removed EXCEPT ![s] = @ \cup taken]
          /\ \/ owner = "closed" /\ taken = {k} /\ UNCHANGED queue
             \/ owner = s /\ taken = {} /\ UNCHANGED queue
             \/ owner = "given" /\ taken = {k} /\ UNCHANGED queue /\ s = "auth"
             \/ /\ owner = "auth" /\ taken = {k} /\ s = "ssl"
                /\ queue' = [queue EXCEPT !["auth"] = @ \cup {k}]
    BY <1>5, HandleFacts, Zenon
  <2>3. k \notin removed["auth"]
    BY <2>1
  <2>4. CASE s = "ssl"
    BY <2>1, <2>2, <2>3, <2>4
  <2>5. CASE s = "auth"
    BY <2>1, <2>2, <2>3, <2>5
  <2> QED
    BY <2>4, <2>5
<1>6. CASE Tick \/ Restart \/ UNCHANGED vars
  BY <1>6 DEF Tick, Restart, vars
<1>7. CASE Killed
  BY <1>7 DEF Killed, Nothing
<1> QED
  BY <1>1, <1>2, <1>3, <1>4, <1>5, <1>6, <1>7 DEF Next, Thread

(* A stage's thread changes only what it owns.                             *)
LEMMA OwnedStep == TypeOK /\ QueueOwned /\ [Next]_vars => QueueOwned'
<1> SUFFICES ASSUME TypeOK, QueueOwned, [Next]_vars PROVE QueueOwned'
  OBVIOUS
<1> USE DEF QueueOwned, TypeOK
<1>1. ASSUME NEW k \in Conn, NEW f \in Fd, Accept(k, f) PROVE QueueOwned'
  BY <1>1 DEF Accept, Stage
<1>2. ASSUME NEW k \in Conn,
             PeerLeaves(k) \/ RegistryCloses(k) \/ RegistryClosesAgain(k)
      PROVE  QueueOwned'
  BY <1>2 DEF PeerLeaves, RegistryCloses, RegistryClosesAgain, Close, Stage
<1>3. ASSUME NEW s \in Stage, Round(s) PROVE QueueOwned'
  <2>1. /\ queue' = [queue EXCEPT ![s] = @ \ Expired(s)] /\ UNCHANGED removed
        /\ removed[s] = {} /\ Expired(s) \subseteq queue[s]
        /\ at' = [k \in Conn |-> IF k \in Expired(s) THEN "closed" ELSE at[k]]
        /\ \A t \in Stage \ {s} : temp'[t] = temp[t]
        /\ temp'[s] \in SUBSET (queue[s] \ Expired(s))
    BY <1>3 DEF Round, Close, Expired
  <2> QED
    BY <2>1
<1>4. ASSUME NEW s \in Stage, Remove(s) PROVE QueueOwned'
  <2>1. queue'[s] \cap removed[s] = {}
    BY <1>4 DEF Remove, SameEntry
  <2> QED
    BY <1>4, <2>1 DEF Remove, Cleared
<1>5. ASSUME NEW s \in Stage, NEW k \in Conn,
             HandOn(s, k) \/ Reject(s, k) \/ Again(s, k)
      PROVE  QueueOwned'
  <2>1. at[k] = s /\ k \in temp[s] /\ temp' = [temp EXCEPT ![s] = @ \ {k}]
    BY <1>5, HandleFacts
  <2>2. PICK owner, taken :
          /\ at' = [at EXCEPT ![k] = owner]
          /\ removed' = [removed EXCEPT ![s] = @ \cup taken]
          /\ \/ owner = "closed" /\ taken = {k} /\ UNCHANGED queue
             \/ owner = s /\ taken = {} /\ UNCHANGED queue
             \/ owner = "given" /\ taken = {k} /\ UNCHANGED queue /\ s = "auth"
             \/ /\ owner = "auth" /\ taken = {k} /\ s = "ssl"
                /\ queue' = [queue EXCEPT !["auth"] = @ \cup {k}]
    BY <1>5, HandleFacts
  <2>3. \A t \in Stage : t # s => k \notin temp[t] /\ k \notin queue[t] \ removed[t]
    BY <2>1
  <2>4. \A t \in Stage : \A j \in temp'[t] : at'[j] = t
    BY <2>1, <2>2, <2>3
  <2>5. \A t \in Stage : \A j \in queue'[t] \ removed'[t] : at'[j] = t
    BY <2>1, <2>2, <2>3 DEF Stage
  <2> QED
    BY <2>4, <2>5
<1>6. CASE Tick \/ Restart \/ UNCHANGED vars
  BY <1>6 DEF Tick, Restart, vars
<1>7. CASE Killed
  BY <1>7 DEF Killed, Nothing, Stage
<1> QED
  BY <1>1, <1>2, <1>3, <1>4, <1>5, <1>6, <1>7 DEF Next, Thread

(* A connection is lost only in Remove, to an entry that is closed.        *)
LEMMA LostStep ==
  TypeOK /\ Descriptors /\ HandledLeft /\ QueueOwned /\ LostOnlyByReuse
    /\ [Next]_vars => LostOnlyByReuse'
<1> SUFFICES ASSUME TypeOK, Descriptors, HandledLeft, QueueOwned,
                    LostOnlyByReuse, [Next]_vars
             PROVE  LostOnlyByReuse'
  OBVIOUS
<1> USE DEF Lost, SameEntry, Dead
<1>1. ASSUME UNCHANGED <<sock, create_time>>,
             \A k \in Conn : Dead(k) => Dead(k)',
             \A k \in Conn : Lost(k)' => Lost(k)
      PROVE  LostOnlyByReuse'
  BY <1>1 DEF LostOnlyByReuse, Stage
<1>2. ASSUME NEW k \in Conn, NEW f \in Fd, Accept(k, f) PROVE LostOnlyByReuse'
  <2>1. /\ at[k] = "new" /\ at' = [at EXCEPT ![k] = "ssl"]
        /\ sock' = [sock EXCEPT ![k] = f]
        /\ create_time' = [create_time EXCEPT ![k] = now]
        /\ queue' = [queue EXCEPT !["ssl"] = @ \cup {k}] /\ UNCHANGED cut
    BY <1>2 DEF Accept
  <2>2. ASSUME NEW i \in Conn, Lost(i)', i \notin cut'
        PROVE  \E j \in Conn \ {i} : Dead(j)' /\ SameEntry(j, i)'
    <3>1. i # k /\ Lost(i)
      BY <2>1, <2>2 DEF TypeOK, Stage
    <3>2. PICK j \in Conn \ {i} : Dead(j) /\ SameEntry(j, i)
      BY <2>1, <2>2, <3>1 DEF LostOnlyByReuse
    <3>3. j # k
      BY <2>1, <3>2 DEF TypeOK, Owned
    <3> QED
      BY <2>1, <3>1, <3>2, <3>3 DEF TypeOK
  <2> QED
    BY <2>2 DEF LostOnlyByReuse
<1>9. ASSUME NEW K \in SUBSET Conn, Close(K), UNCHANGED <<sock, create_time>>,
             \A k \in Conn \ K : at[k] \in Stage =>
               (k \in queue[at[k]] => k \in queue'[at[k]])
      PROVE  LostOnlyByReuse'
  <2>1. /\ at' = [k \in Conn |-> IF k \in K THEN "closed" ELSE at[k]]
        /\ \A k \in cut : k \in cut' \/ k \in K
    BY <1>9, CloseFacts
  <2> QED
    BY <1>1, <1>9, <2>1 DEF Stage
<1>3. ASSUME NEW k \in Conn,
             PeerLeaves(k) \/ RegistryCloses(k) \/ RegistryClosesAgain(k)
      PROVE  LostOnlyByReuse'
  <2>1. CASE RegistryCloses(k)
    BY <1>9, <2>1 DEF RegistryCloses, connVars
  <2>2. CASE PeerLeaves(k) \/ RegistryClosesAgain(k)
    BY <1>1, <2>2 DEF PeerLeaves, RegistryClosesAgain, connVars
  <2> QED
    BY <1>3, <2>1, <2>2
<1>4. ASSUME NEW s \in Stage, Round(s) PROVE LostOnlyByReuse'
  <2>1. /\ Close(Expired(s)) /\ UNCHANGED <<sock, create_time>>
        /\ queue' = [queue EXCEPT ![s] = @ \ Expired(s)]
    BY <1>4 DEF Round, connVars
  <2>2. Expired(s) \in SUBSET Conn
    BY DEF Expired, TypeOK
  <2> QED
    BY <1>9, <2>1, <2>2 DEF TypeOK
<1>5. ASSUME NEW s \in Stage, Remove(s) PROVE LostOnlyByReuse'
  <2>1. /\ UNCHANGED <<at, sock, create_time, cut>>
        /\ queue' = [queue EXCEPT ![s] =
                       {k \in @ : \A j \in removed[s] : ~SameEntry(j, k)}]
    BY <1>5 DEF Remove, connVars
  <2>2. ASSUME NEW i \in Conn, Lost(i)', ~Lost(i), i \notin cut
        PROVE  \E j \in Conn \ {i} : Dead(j) /\ SameEntry(j, i)
    <3>1. at[i] = s /\ i \in queue[s] /\ i \notin queue'[s]
      BY <2>1, <2>2 DEF TypeOK
    <3>2. PICK j \in removed[s] : SameEntry(j, i)
      BY <2>1, <3>1 DEF TypeOK
    <3>3. j \in Conn /\ at[j] \in {"auth", "given", "closed"} /\ at[j] # s
      BY <3>2 DEF HandledLeft, Stage, TypeOK
    <3>4. j # i /\ IsOpen(i)
      BY <2>2, <3>1, <3>3 DEF Owned, IsOpen, Stage
    <3>5. ~IsOpen(j)
      BY <3>2, <3>3, <3>4 DEF Descriptors
    <3> QED
      BY <3>2, <3>3, <3>4, <3>5 DEF Owned, IsOpen
  <2>3. ASSUME NEW i \in Conn, Lost(i)', i \notin cut
        PROVE  \E j \in Conn \ {i} : Dead(j) /\ SameEntry(j, i)
    BY <2>2, <2>3 DEF LostOnlyByReuse
  <2> QED
    BY <2>1, <2>3 DEF LostOnlyByReuse
<1>6. ASSUME NEW s \in Stage, NEW k \in Conn,
             HandOn(s, k) \/ Reject(s, k) \/ Again(s, k)
      PROVE  LostOnlyByReuse'
  <2>1. at[k] = s /\ k \in temp[s] /\ UNCHANGED <<sock, create_time>>
    BY <1>6, HandleFacts
  <2>2. PICK owner, taken :
          /\ at' = [at EXCEPT ![k] = owner]
          /\ removed' = [removed EXCEPT ![s] = @ \cup taken]
          /\ \/ owner = "closed" /\ taken = {k} /\ UNCHANGED queue
             \/ owner = s /\ taken = {} /\ UNCHANGED queue
             \/ owner = "given" /\ taken = {k} /\ UNCHANGED queue /\ s = "auth"
             \/ /\ owner = "auth" /\ taken = {k} /\ s = "ssl"
                /\ queue' = [queue EXCEPT !["auth"] = @ \cup {k}]
    BY <1>6, HandleFacts
  <2>3. \A j \in Conn : Dead(j) => Dead(j)'
    <3>1. \A j \in cut : j \in cut' \/ at'[j] = "closed"
      BY <1>6, HandleFacts
    <3> QED
      BY <2>1, <2>2, <3>1 DEF TypeOK, Stage
  <2>4. \A j \in Conn : Lost(j)' => Lost(j)
    BY <2>1, <2>2 DEF TypeOK, Stage
  <2> QED
    BY <1>1, <2>1, <2>3, <2>4
<1>7. CASE Tick \/ Restart \/ UNCHANGED vars
  BY <1>1, <1>7 DEF Tick, Restart, vars, connVars
<1>8. CASE Killed
  <2>1. \A k \in Conn : at'[k] = IF at[k] = "new" THEN "new" ELSE "closed"
    BY <1>8 DEF Killed
  <2>2. \A k \in Conn : ~Lost(k)'
    BY <2>1 DEF Stage
  <2> QED
    BY <2>2 DEF LostOnlyByReuse
<1> QED
  BY <1>2, <1>3, <1>4, <1>5, <1>6, <1>7, <1>8 DEF Next, Thread

(* The invariant holds in every reachable state.                           *)
LEMMA Invariance == Spec => []IInv
<1>1. IInv /\ [Next]_vars => IInv'
  BY TypeStep, DescriptorsStep, HandledLeftStep, OwnedStep, LostStep DEF IInv
<1> QED
  BY <1>1, InitIInv, PTL DEF Spec

(* The queues hold connections and the threads' locals are empty between   *)
(* two rounds (handle_auth_safe of both stages).                           *)
THEOREM TypeCorrect == Spec => []TypeOK
  BY Invariance, PTL DEF IInv

(* Neither stage touches or frees a connection that it does not own,       *)
(* whatever the listener, the peers, the registries and the other stage do *)
(* (MT4SSLAuth.cpp:153, MT4Authroize.cpp:217-235).                         *)
THEOREM OwnershipHolds == Spec => []QueueOwned
  BY Invariance, PTL DEF IInv

(* Taking entries out by descriptor and second loses a connection only if  *)
(* it, or one accepted in the same second, has been closed or cut          *)
(* (MT4SSLAuth.cpp:175).                                                   *)
THEOREM LossIsBounded == Spec => []LostOnlyByReuse
  BY Invariance, PTL DEF IInv

-----------------------------------------------------------------------------
(* The account database: what a row makes of control_list.                 *)

(* A set of numbers that is not empty has a smallest.                      *)
LEMMA Smallest ==
  ASSUME NEW S \in SUBSET Nat, S # {}
  PROVE  \E n \in S : \A m \in S : n <= m
<1> DEFINE R == {ss \in Nat \X Nat : ss[1] < ss[2]}
<1>1. IsWellFoundedOn(R, Nat)
  BY NatLessThanWellFounded DEF OpToRel
<1> HIDE DEF R
<1>2. PICK n \in S : \A m \in S : <<m, n>> \notin R
  BY <1>1, WFMin
<1>3. \A m \in S : n <= m
  <2> TAKE m \in S
  <2>1. n \in Nat /\ m \in Nat
    OBVIOUS
  <2>2. ~(m < n)
    BY <1>2, <2>1 DEF R
  <2> QED BY <2>1, <2>2
<1> QED BY <1>3

(* What is written to control_list of any row: numbers, and some that the  *)
(* account has.                                                            *)
LEMMA Numbers ==
  ASSUME NEW r \in Row, ~Undefined(r)
  PROVE  Key(r) \in Id /\ Followed(r) \subseteq Id
<1>1. MaxControl \in Nat \ {0} /\ Columns \subseteq Nat /\ 1 \in Columns
  BY DatabaseAssumption DEF Columns
<1>2. control_list(r) \subseteq Columns /\ control_list(r) # {}
  BY <1>1 DEF control_list, Filled, Undefined
<1>3. First(r) \in control_list(r)
  <2>1. \E n \in control_list(r) : \A m \in control_list(r) : n <= m
    BY <1>1, <1>2, Smallest
  <2> QED BY <2>1 DEF First
<1>4. \A n \in control_list(r) : Column(r, n) \in Id
  <2>1. \A n \in Columns : Column(r, n) \in Id \cup {None}
    BY DatabaseAssumption DEF Column, Columns
  <2>2. \A n \in control_list(r) : Column(r, n) # None
    BY DEF control_list, Filled, Column
  <2> QED BY <1>2, <2>1, <2>2
<1> QED BY <1>3, <1>4 DEF Key, Followed

(* A tidy row says what its owner is filed under and whom he follows.      *)
LEMMA TidyRow ==
  ASSUME NEW r \in Row, Tidy(r), r.priority # {}
  PROVE  /\ ~Undefined(r)
         /\ "MASTER" \in r.priority => Key(r) = r.op[1]
         /\ IsCustomer(r) => Key(r) = r.id /\ Followed(r) = OperatorsOf(r)
<1>1. MaxControl \in Nat \ {0} /\ 0 \in Columns /\ Columns = {0} \cup 1..MaxControl
  BY DatabaseAssumption DEF Columns
<1>2. CASE "MASTER" \in r.priority
  <2>1. control_list(r) = {1}
    BY <1>2 DEF Tidy, control_list
  <2>2. First(r) = 1
    BY <2>1 DEF First
  <2> QED BY <1>1, <1>2, <2>1, <2>2 DEF Undefined, IsCustomer, Key, Column
<1>3. CASE "MASTER" \notin r.priority
  <2>1. r.priority = {"NOR_CUSTOMER"}
    BY <1>3, DatabaseAssumption
  <2>2. control_list(r) = Filled(r) /\ r.id \notin {None, 0}
    BY <1>3, <2>1 DEF Tidy, control_list
  <2>3. 0 \in Filled(r) /\ \A m \in Filled(r) : 0 <= m
    BY <1>1, <2>2 DEF Filled, Column, Columns
  <2>4. First(r) = 0
    <3>1. First(r) \in Filled(r) /\ \A m \in Filled(r) : First(r) <= m
      BY <2>2, <2>3 DEF First
    <3>2. First(r) \in Nat /\ First(r) <= 0
      BY <1>1, <2>3, <3>1 DEF Filled, Columns
    <3> QED BY <3>2
  <2>5. Key(r) = r.id
    BY <2>4 DEF Key, Column
  <2>6. Followed(r) = OperatorsOf(r)
    <3>1. Filled(r) \ {0} = {n \in 1..MaxControl : r.op[n] \notin {None, 0}}
      BY <1>1 DEF Filled, Column
    <3>2. Followed(r) = {Column(r, n) : n \in Filled(r) \ {0}}
      BY <2>2, <2>4 DEF Followed
    <3>3. \A n \in Filled(r) \ {0} : Column(r, n) = r.op[n]
      BY DEF Column
    <3> QED BY <3>1, <3>2, <3>3 DEF OperatorsOf
  <2>7. \E n \in 1..MaxControl : n \notin Filled(r)
    <3>1. PICK n \in 1..MaxControl : r.op[n] \in {None, 0}
      BY <2>1 DEF Tidy
    <3> QED BY <3>1 DEF Filled, Column
  <2>8. ~Undefined(r)
    BY <1>1, <2>2, <2>3, <2>7 DEF Undefined
  <2> QED BY <1>3, <2>5, <2>6, <2>8
<1> QED BY <1>2, <1>3

-----------------------------------------------------------------------------
(* Who is being checked, and when there is a row.                          *)
Asking ==
  /\ \A u \in Name : accounts[u] \in Rows[u] \cup {None}
  /\ step # "idle" => username \in Name
  /\ row # None => step \in {"fetch", "answer"}

(* Who has logged in.                                                      *)
Logged ==
  \A u \in Name :
    /\ \A r \in logins[u] : r.priority # {}
    /\ last[u] # None => last[u] \in logins[u]
    /\ last[u] = None => \A i \in Id : customers[i] # u

(* What the registries owe to rows that users have logged in with: also    *)
(* those of users who have left.                                           *)
FiledCustomers ==
  \A i \in Id, u \in Name :
    customers[i] = u => \E r \in logins[u] : IsCustomer(r) /\ r.id = i
FiledOperators ==
  \A i \in Id, u \in Name :
    operators[i] = u => \E r \in logins[u] : "MASTER" \in r.priority /\ r.op[1] = i
Following ==
  \A i, o \in Id :
    i \in relations[o] =>
      \E v \in Name : \E r \in logins[v] :
        IsCustomer(r) /\ r.id = i /\ o \in OperatorsOf(r)
UpToDate ==
  \A u \in Name :
    last[u] # None /\ IsCustomer(last[u]) =>
      \A o \in OperatorsOf(last[u]) : last[u].id \in relations[o]
Filed == FiledCustomers /\ FiledOperators /\ Following /\ UpToDate

DbInv == DbTypeOK /\ Asking /\ Logged /\ (AllTidy => Filed)

(* A process begins with no entries, and no users that could be filed.     *)
LEMMA IdleInv ==
  ASSUME Idle, server \in {"transfer", "auth"}, connected \in BOOLEAN, edits = 0,
         accounts \in [Name -> Row \cup {None}],
         \A u \in Name : accounts[u] \in Rows[u] \cup {None}
  PROVE  DbInv
<1> USE DatabaseAssumption DEF Idle, Nobody, NoFollower, NoLogin, NoRow
<1>1. DbTypeOK
  <2>1. (query_mutex = "check") = (step \in {"query", "fetch"})
    OBVIOUS
  <2>2. (query_mutex = "ping") = (ping = "ping")
    OBVIOUS
  <2>3. res = (step = "fetch")
    OBVIOUS
  <2>4. astray \in BOOLEAN /\ right \in BOOLEAN /\ res \in BOOLEAN
    OBVIOUS
  <2>5. /\ operators \in [Id -> Name \cup {None}] /\ customers \in [Id -> Name \cup {None}]
        /\ relations \in [Id -> SUBSET Id]
        /\ logins \in [Name -> SUBSET Row] /\ last \in [Name -> Row \cup {None}]
    OBVIOUS
  <2>6. edits \in 0..MaxEdits
    OBVIOUS
  <2> QED BY <2>1, <2>2, <2>3, <2>4, <2>5, <2>6 DEF DbTypeOK
<1>2. Asking /\ Logged
  BY DEF Asking, Logged
<1>3. Filed
  BY DEF Filed, FiledCustomers, FiledOperators, Following, UpToDate
<1> QED BY <1>1, <1>2, <1>3 DEF DbInv

LEMMA DbStarts == DbInit => DbInv
<1> SUFFICES ASSUME DbInit PROVE DbInv
  OBVIOUS
<1>1. accounts \in [Name -> Row \cup {None}] /\ \A u \in Name : accounts[u] \in Rows[u]
  BY DEF DbInit
<1> QED BY <1>1, IdleInv DEF DbInit

(* What concerns no login and no entry.                                    *)
LEMMA Unfiled ==
  ASSUME DbInv, UNCHANGED registryVars
  PROVE  Logged' /\ (AllTidy' => Filed')
<1> USE DEF registryVars
<1>1. Logged'
  BY DEF DbInv, Logged
<1>2. AllTidy' => AllTidy
  BY DEF AllTidy
<1>3. Filed => Filed'
  BY DEF Filed, FiledCustomers, FiledOperators, Following, UpToDate
<1> QED BY <1>1, <1>2, <1>3 DEF DbInv

LEMMA TableStep ==
  ASSUME DbInv, Wake \/ PingStep \/ (\E u \in Name : Edit(u)) \/ UNCHANGED dbVars
  PROVE  DbInv'
<1> USE DEF setVars, lockVars, askVars, dbVars
<1>1. UNCHANGED registryVars /\ UNCHANGED <<server, connected, res, step, username, right, row>>
  BY DEF Wake, PingStep, PingLock, Ping, Edit, registryVars
<1>2. accounts' \in [Name -> Row \cup {None}] /\ edits' \in 0..MaxEdits
      /\ \A u \in Name : accounts'[u] \in Rows[u] \cup {None}
  <2>1. CASE \E u \in Name : Edit(u)
    <3>1. PICK u \in Name : Edit(u)
      BY <2>1
    <3>2. PICK r \in Rows[u] \cup {None} : accounts' = [accounts EXCEPT ![u] = r]
      BY <3>1 DEF Edit
    <3>3. edits' \in 0..MaxEdits
      BY <3>1, DatabaseAssumption DEF Edit, DbInv, DbTypeOK
    <3> QED BY <3>2, <3>3 DEF DbInv, DbTypeOK, Asking, Row
  <2>2. CASE Wake \/ PingStep \/ UNCHANGED dbVars
    <3>1. UNCHANGED <<accounts, edits>>
      BY <2>2 DEF Wake, PingStep, PingLock, Ping
    <3> QED BY <3>1 DEF DbInv, DbTypeOK, Asking
  <2> QED BY <2>1, <2>2
<1>3. /\ query_mutex' \in {None, "check", "ping"} /\ ping' \in {"sleep", "lock", "ping"}
      /\ (query_mutex' = "check") = (step \in {"query", "fetch"})
      /\ (query_mutex' = "ping") = (ping' = "ping")
  BY DatabaseAssumption DEF Wake, PingStep, PingLock, Ping, Edit, DbInv, DbTypeOK
<1>4. DbTypeOK'
  BY <1>1, <1>2, <1>3 DEF DbInv, DbTypeOK, registryVars
<1>5. Asking'
  BY <1>1, <1>2 DEF DbInv, Asking
<1> QED BY <1>1, <1>4, <1>5, Unfiled DEF DbInv

(* Up to the answer of the database.                                       *)
LEMMA QueryStep ==
  ASSUME DbInv, Lock \/ QueryFails \/ Query \/ Fetch \/ \E u \in Name : Ask(u)
  PROVE  DbInv'
<1> USE DEF setVars, lockVars, askVars
<1>1. UNCHANGED registryVars /\ UNCHANGED <<setVars, accounts, edits, ping>>
  BY DEF Lock, QueryFails, Query, Fetch, Ask, registryVars
<1>2. DbTypeOK /\ Asking
  BY DEF DbInv
<1>3. CASE \E u \in Name : Ask(u)
  <2> PICK u \in Name : Ask(u)
    BY <1>3
  <2> USE DEF Ask
  <2>1. right' \in BOOLEAN
    OBVIOUS
  <2>2. (query_mutex' = "check") = (step' \in {"query", "fetch"}) /\ res' = (step' = "fetch")
    BY <1>2 DEF DbTypeOK
  <2>3. DbTypeOK'
    BY <1>1, <1>2, <2>1, <2>2 DEF DbTypeOK, registryVars
  <2>4. Asking'
    BY <1>2 DEF Asking
  <2> QED BY <1>1, <2>3, <2>4, Unfiled DEF DbInv
<1>4. CASE Lock
  <2> USE <1>4 DEF Lock
  <2>1. (query_mutex' = "check") = (step' \in {"query", "fetch"}) /\ res' = (step' = "fetch")
    BY <1>2 DEF DbTypeOK
  <2>2. (query_mutex' = "ping") = (ping' = "ping")
    BY <1>2, DatabaseAssumption DEF DbTypeOK
  <2>3. DbTypeOK'
    BY <1>1, <1>2, <2>1, <2>2 DEF DbTypeOK, registryVars
  <2>4. Asking'
    BY <1>2 DEF Asking
  <2> QED BY <1>1, <2>3, <2>4, Unfiled DEF DbInv
<1>5. CASE Query
  <2> USE <1>5 DEF Query
  <2>1. username \in Name /\ row' \in Row \cup {None}
    BY <1>2 DEF Asking, Selected, DbTypeOK
  <2>2. (query_mutex' = "check") = (step' \in {"query", "fetch"}) /\ res' = (step' = "fetch")
    BY <1>2 DEF DbTypeOK
  <2>3. DbTypeOK'
    BY <1>1, <1>2, <2>1, <2>2 DEF DbTypeOK, registryVars
  <2>4. Asking'
    BY <1>2, <2>1 DEF Asking
  <2> QED BY <1>1, <2>3, <2>4, Unfiled DEF DbInv
<1>6. ASSUME query_mutex' = None, res' = FALSE, row' \in {row, None}, step \in {"query", "fetch"},
             \/ step' = "answer" /\ UNCHANGED askVars
             \/ step' = "idle" /\ username' = None /\ right' = FALSE /\ row' = None
      PROVE  DbInv'
  <2>1. right' \in BOOLEAN
    BY <1>2, <1>6 DEF DbTypeOK
  <2>2. (query_mutex' = "check") = (step' \in {"query", "fetch"})
    BY <1>6, DatabaseAssumption
  <2>3. res' = (step' = "fetch")
    <3>1. res' = FALSE /\ step' \in {"idle", "answer"}
      BY <1>6
    <3> QED BY <3>1
  <2>4. (query_mutex' = "ping") = (ping' = "ping")
    BY <1>1, <1>2, <1>6, DatabaseAssumption DEF DbTypeOK
  <2>5. username' \in Name \cup {None} /\ row' \in Row \cup {None}
    BY <1>2, <1>6 DEF DbTypeOK
  <2>6. query_mutex' \in {None, "check", "ping"} /\ res' \in BOOLEAN
        /\ step' \in {"idle", "lock", "query", "fetch", "answer"}
    BY <1>6
  <2>7. DbTypeOK'
    BY <1>1, <1>2, <2>1, <2>2, <2>3, <2>4, <2>5, <2>6 DEF DbTypeOK, registryVars
  <2>8. Asking'
    BY <1>1, <1>2, <1>6 DEF Asking
  <2> QED BY <1>1, <2>7, <2>8, Unfiled DEF DbInv
<1>7. CASE QueryFails
  <2>1. row = None
    BY <1>2, <1>7 DEF Asking, QueryFails
  <2>2. Failing \in {"idle", "answer"}
    BY DEF Failing
  <2> QED BY <1>6, <1>7, <2>1, <2>2 DEF QueryFails, Done, Unlocked
<1>8. CASE Fetch
  <2>1. PICK found \in {row # None, FALSE} :
          /\ step = "fetch" /\ query_mutex' = Unlocked
          /\ Done(IF found THEN "answer" ELSE Failing)
          /\ row' = IF found /\ right /\ server = "transfer" THEN row ELSE None
    BY <1>8 DEF Fetch
  <2>2. Failing \in {"idle", "answer"}
    BY DEF Failing
  <2>3. row' \in {row, None} /\ (~found => row' = None)
    BY <2>1
  <2>4. CASE found
    BY <1>6, <2>1, <2>3, <2>4 DEF Done, Unlocked
  <2>5. CASE ~found
    BY <1>6, <2>1, <2>2, <2>3, <2>5 DEF Done, Unlocked
  <2> QED BY <2>4, <2>5
<1> QED BY <1>3, <1>4, <1>5, <1>7, <1>8

LEMMA LeaveStep == ASSUME DbInv, NEW i \in Id, Leave(i) PROVE DbInv'
<1> USE DEF Leave, setVars, lockVars, askVars
<1>1. DbTypeOK'
  BY DEF DbInv, DbTypeOK
<1>2. Asking'
  BY DEF DbInv, Asking
<1>3. \A j \in Id, u \in Name : customers'[j] = u => customers[j] = u
  BY DatabaseAssumption DEF DbInv, DbTypeOK
<1>4. Logged'
  BY <1>3 DEF DbInv, Logged
<1>5. Filed => Filed'
  <2>1. FiledCustomers => FiledCustomers'
    BY <1>3 DEF FiledCustomers
  <2> QED BY <2>1 DEF Filed, FiledOperators, Following, UpToDate
<1>6. AllTidy' => AllTidy
  BY DEF AllTidy
<1> QED BY <1>1, <1>2, <1>4, <1>5, <1>6 DEF DbInv

LEMMA RenewStep == DbInv /\ Renew => DbInv'
<1> SUFFICES ASSUME DbInv, Renew PROVE DbInv'
  OBVIOUS
<1> USE DatabaseAssumption DEF Renew, Nobody, NoFollower, NoLogin, NoRow
<1>1. DbTypeOK'
  <2>1. (query_mutex' = "check") = (step' \in {"query", "fetch"})
    OBVIOUS
  <2>2. (query_mutex' = "ping") = (ping' = "ping")
    OBVIOUS
  <2>3. res' = (step' = "fetch")
    OBVIOUS
  <2>4. astray' \in BOOLEAN /\ right' \in BOOLEAN /\ res' \in BOOLEAN
    OBVIOUS
  <2>5. /\ operators' \in [Id -> Name \cup {None}] /\ customers' \in [Id -> Name \cup {None}]
        /\ relations' \in [Id -> SUBSET Id]
        /\ logins' \in [Name -> SUBSET Row] /\ last' \in [Name -> Row \cup {None}]
    OBVIOUS
  <2> QED BY <2>1, <2>2, <2>3, <2>4, <2>5 DEF DbInv, DbTypeOK
<1>2. Asking' /\ Logged'
  BY DEF DbInv, Asking, Logged
<1>3. Filed'
  BY DEF Filed, FiledCustomers, FiledOperators, Following, UpToDate
<1> QED BY <1>1, <1>2, <1>3 DEF DbInv

(* handle_auth_safe after the answer: the customer or operator is filed.   *)
LEMMA AnswerStep == DbInv /\ Answer => DbInv'
<1> SUFFICES ASSUME DbInv, Answer PROVE DbInv'
  OBVIOUS
<1> USE DEF Answer, setVars, lockVars
<1>1. DbTypeOK /\ Asking /\ Logged /\ (AllTidy => Filed)
  BY DEF DbInv
<1>2. username \in Name /\ username # None
  BY <1>1, DatabaseAssumption DEF Asking
<1>3. /\ (query_mutex' = "check") = (step' \in {"query", "fetch"})
      /\ (query_mutex' = "ping") = (ping' = "ping")
  BY <1>1 DEF DbTypeOK
<1>4. res' = (step' = "fetch")
  BY <1>1 DEF DbTypeOK
<1>5. Asking'
  BY <1>1 DEF Asking
<1>6. CASE UNCHANGED registryVars
  <2>1. DbTypeOK'
    BY <1>1, <1>3, <1>4, <1>6 DEF DbTypeOK, registryVars
  <2> QED BY <1>5, <1>6, <2>1, Unfiled DEF DbInv
<1>7. CASE /\ row # None /\ row.priority # {} /\ ~astray /\ Files(row)
           /\ logins' = [logins EXCEPT ![username] = @ \cup {row}]
           /\ last' = [last EXCEPT ![username] = row]
  <2>1. row \in Row
    BY <1>1, <1>7 DEF DbTypeOK
  <2>2. /\ logins' \in [Name -> SUBSET Row] /\ last' \in [Name -> Row \cup {None}]
        /\ logins'[username] = logins[username] \cup {row} /\ last'[username] = row
        /\ \A u \in Name \ {username} : logins'[u] = logins[u] /\ last'[u] = last[u]
        /\ \A u \in Name : logins[u] \subseteq logins'[u]
    BY <1>1, <1>2, <1>7, <2>1 DEF DbTypeOK
  <2>3. /\ operators' \in [Id -> Name \cup {None}] /\ customers' \in [Id -> Name \cup {None}]
        /\ relations' \in [Id -> SUBSET Id]
    BY <1>1, <1>2, <1>7, <2>1, Numbers
       DEF Files, FilesOperator, FilesCustomer, DbTypeOK, Nobody, NoFollower
  <2>4. astray' \in BOOLEAN
    <3>1. astray' = TRUE \/ astray' = astray
      BY <1>7 DEF Files, FilesOperator, FilesCustomer
    <3> QED BY <1>1, <3>1 DEF DbTypeOK
  <2>5. DbTypeOK'
    BY <1>1, <1>3, <1>4, <2>2, <2>3, <2>4 DEF DbTypeOK
  <2>6. Logged'
    <3>1. \A i \in Id : customers'[i] \in {customers[i], username, None}
      BY <1>1, <1>7, <2>1, Numbers
         DEF Files, FilesOperator, FilesCustomer, DbTypeOK, Nobody
    <3> QED BY <1>1, <1>2, <1>7, <2>1, <2>2, <3>1, DatabaseAssumption DEF Logged
  <2>7. ASSUME AllTidy' PROVE Filed'
    <3>1. Tidy(row)
      BY <1>2, <2>2, <2>7 DEF AllTidy
    <3>2. Filed
      BY <1>1, <2>2, <2>7 DEF AllTidy
    <3>3. /\ ~Undefined(row)
          /\ "MASTER" \in row.priority => Key(row) = row.op[1]
          /\ IsCustomer(row) => Key(row) = row.id /\ Followed(row) = OperatorsOf(row)
      BY <1>7, <2>1, <3>1, TidyRow
    <3>4. Key(row) \in Id
      BY <2>1, <3>3, Numbers
    <3>5. CASE "MASTER" \in row.priority
      <4>1. FilesOperator(row)
        BY <1>7, <3>3, <3>5 DEF Files
      <4>2. FiledCustomers' /\ Following'
        BY <2>2, <3>2, <4>1 DEF FilesOperator, Filed, FiledCustomers, Following
      <4>3. FiledOperators'
        <5>1. \A i \in Id, u \in Name : operators'[i] = u =>
                operators[i] = u \/ (i = Key(row) /\ u = username)
          <6>1. PICK who \in {username, None} :
                  operators' = [operators EXCEPT ![Key(row)] = who]
            BY <4>1 DEF FilesOperator
          <6>2. \A i \in Id : operators'[i] = IF i = Key(row) THEN who ELSE operators[i]
            BY <1>1, <6>1 DEF DbTypeOK
          <6> QED BY <6>2, DatabaseAssumption
        <5> QED BY <2>2, <3>2, <3>3, <3>5, <5>1 DEF Filed, FiledOperators
      <4>4. UpToDate'
        BY <2>2, <3>2, <3>5, <4>1 DEF FilesOperator, Filed, UpToDate, IsCustomer
      <4> QED BY <4>2, <4>3, <4>4 DEF Filed
    <3>6. CASE "MASTER" \notin row.priority
      <4>1. FilesCustomer(row) /\ IsCustomer(row)
        BY <1>7, <3>3, <3>6 DEF Files, IsCustomer
      <4>2. Key(row) = row.id /\ Followed(row) = OperatorsOf(row)
        BY <3>3, <4>1
      <4>3. FiledOperators'
        BY <2>2, <3>2, <4>1 DEF FilesCustomer, Filed, FiledOperators
      <4>4. FiledCustomers'
        <5>1. \A i \in Id : customers'[i] = IF i = row.id THEN username ELSE customers[i]
          BY <1>1, <4>1, <4>2 DEF FilesCustomer, DbTypeOK
        <5> QED BY <2>2, <3>2, <4>1, <5>1 DEF Filed, FiledCustomers
      <4>5. \A o \in Id : relations'[o] = IF o \in OperatorsOf(row)
                                          THEN relations[o] \cup {row.id} ELSE relations[o]
        BY <4>1, <4>2 DEF FilesCustomer
      <4>6. Following'
        <5> SUFFICES ASSUME NEW i \in Id, NEW o \in Id, i \in relations'[o]
                     PROVE  \E v \in Name : \E r \in logins'[v] :
                              IsCustomer(r) /\ r.id = i /\ o \in OperatorsOf(r)
          BY DEF Following
        <5>1. CASE i \in relations[o]
          <6>1. PICK v \in Name : \E r \in logins[v] :
                  IsCustomer(r) /\ r.id = i /\ o \in OperatorsOf(r)
            BY <3>2, <5>1 DEF Filed, Following
          <6> QED BY <2>2, <6>1
        <5>2. CASE i \notin relations[o]
          <6>1. i = row.id /\ o \in OperatorsOf(row)
            BY <4>5, <5>2
          <6> QED BY <1>2, <2>2, <4>1, <6>1
        <5> QED BY <5>1, <5>2
      <4>7. UpToDate'
        <5> SUFFICES ASSUME NEW u \in Name, last'[u] # None, IsCustomer(last'[u]),
                            NEW o \in OperatorsOf(last'[u])
                     PROVE  last'[u].id \in relations'[o]
          BY DEF UpToDate
        <5>1. last'[u] \in Row
          BY <2>2
        <5>2. o \in Id
          BY <5>1, DatabaseAssumption DEF OperatorsOf
        <5>3. CASE u = username
          BY <2>2, <4>5, <5>2, <5>3
        <5>4. CASE u # username
          <6>1. last'[u] = last[u]
            BY <2>2, <5>4
          <6>2. last[u].id \in relations[o]
            BY <3>2, <6>1 DEF Filed, UpToDate
          <6> QED BY <4>5, <5>2, <6>1, <6>2
        <5> QED BY <5>3, <5>4
      <4> QED BY <4>3, <4>4, <4>6, <4>7 DEF Filed
    <3> QED BY <3>5, <3>6
  <2> QED BY <1>5, <2>5, <2>6, <2>7 DEF DbInv
<1> QED BY <1>6, <1>7

LEMMA DbInvariance == DbInv /\ [DbNext]_dbVars => DbInv'
<1> SUFFICES ASSUME DbInv, [DbNext]_dbVars PROVE DbInv'
  OBVIOUS
<1>1. CASE Wake \/ PingStep \/ (\E u \in Name : Edit(u)) \/ UNCHANGED dbVars
  BY <1>1, TableStep
<1>2. CASE Lock \/ QueryFails \/ Query \/ Fetch \/ \E u \in Name : Ask(u)
  BY <1>2, QueryStep
<1>3. CASE Answer
  BY <1>3, AnswerStep
<1>4. CASE Renew
  BY <1>4, RenewStep
<1>5. ASSUME NEW i \in Id, Leave(i) PROVE DbInv'
  BY <1>5, LeaveStep
<1> QED BY <1>1, <1>2, <1>3, <1>4, <1>5 DEF DbNext, CheckStep

(* The invariant says what a reader of the registries wants to know.       *)
LEMMA EntriesAreRight == DbInv => RightEntries
<1> SUFFICES ASSUME DbInv PROVE RightEntries
  OBVIOUS
<1>2. ASSUME AllTidy, OwnIds, NEW i \in Id, NEW u \in Name
      PROVE  /\ customers[i] = u =>
                  /\ \E r \in logins[u] : IsCustomer(r) /\ r.id = i
                  /\ \A o \in Id : i \in relations[o] =>
                       \E r \in logins[u] :
                         IsCustomer(r) /\ r.id = i /\ o \in OperatorsOf(r)
                  /\ IsCustomer(last[u]) /\ last[u].id = i =>
                       \A o \in OperatorsOf(last[u]) : i \in relations[o]
             /\ operators[i] = u =>
                  \E r \in logins[u] : "MASTER" \in r.priority /\ r.op[1] = i
  <2>1. Filed
    BY <1>2 DEF DbInv
  <2>2. ASSUME customers[i] = u
        PROVE  \E r \in logins[u] : IsCustomer(r) /\ r.id = i
    BY <2>1, <2>2 DEF Filed, FiledCustomers
  <2>3. ASSUME customers[i] = u, NEW o \in Id, i \in relations[o]
        PROVE  \E r \in logins[u] : IsCustomer(r) /\ r.id = i /\ o \in OperatorsOf(r)
    <3>1. PICK v \in Name : \E s \in logins[v] :
            IsCustomer(s) /\ s.id = i /\ o \in OperatorsOf(s)
      BY <2>1, <2>3 DEF Filed, Following
    <3>2. u = v
      BY <1>2, <2>2, <2>3, <3>1 DEF OwnIds
    <3> QED BY <3>1, <3>2
  <2>4. ASSUME customers[i] = u, IsCustomer(last[u]), last[u].id = i,
               NEW o \in OperatorsOf(last[u])
        PROVE  i \in relations[o]
    <3>1. last[u] # None
      BY <2>4 DEF DbInv, Logged
    <3> QED BY <2>1, <2>4, <3>1 DEF Filed, UpToDate
  <2>5. ASSUME operators[i] = u
        PROVE  \E r \in logins[u] : "MASTER" \in r.priority /\ r.op[1] = i
    BY <2>1, <2>5 DEF Filed, FiledOperators
  <2> QED BY <2>2, <2>3, <2>4, <2>5
<1> QED BY <1>2 DEF RightEntries

LEMMA DbAlways == DbSpec => []DbInv
<1> QED BY DbStarts, DbInvariance, PTL DEF DbSpec

(* The mutex is held by the thread that is inside a query, and by nobody   *)
(* else; the result set is freed with it (MT4DataBase.cpp:81-117).         *)
THEOREM DbTypeCorrect == DbSpec => []DbTypeOK
<1>1. DbInv => DbTypeOK
  BY DEF DbInv
<1> QED BY <1>1, DbAlways, PTL

(* Customers and operators are filed where the rows they logged in with    *)
(* say, and customers get the orders these rows say: for any table of      *)
(* accounts, however it is edited while the server runs, and whichever row *)
(* a name that is not plain selects.                                       *)
THEOREM RightEntriesHold == DbSpec => []RightEntries
<1> QED BY EntriesAreRight, DbAlways, PTL

-----------------------------------------------------------------------------
(* The control port.                                                       *)

(* The first recv from a peer is to come.                                  *)
Unread ==
  \A p \in Peer :
    line[p] \in {"none", "queued"} \/ (serving = p /\ ~let_in) => read[p] = 0

ControlInv == ControlTypeOK /\ Unread /\ OnlyAfterLogin

(* What recv may take is a piece of what the peer sends.                   *)
LEMMA Received ==
  ASSUME ControlTypeOK, NEW p \in Peer
  PROVE  /\ Len(script[p]) \in Nat /\ Arrived(p) \in Nat
         /\ read[p] <= Arrived(p) /\ Arrived(p) <= sent[p] /\ Arrived(p) <= Len(script[p])
         /\ Len(Waiting(p)) = Arrived(p) - read[p]
         /\ \A n \in 1..Arrived(p) - read[p] : Waiting(p)[n] = script[p][read[p] + n]
<1> DEFINE S == script[p]
<1>1. S \in Seq(Item) /\ sent[p] \in Nat /\ read[p] \in Nat
      /\ sent[p] <= Len(S) + 1 /\ read[p] <= sent[p] /\ read[p] <= Len(S)
  BY DEF ControlTypeOK
<1> HIDE DEF S
<1>2. Len(S) \in Nat
  BY <1>1
<1>3. /\ Arrived(p) \in Nat
      /\ read[p] <= Arrived(p) /\ Arrived(p) <= sent[p] /\ Arrived(p) <= Len(S)
  BY <1>1, <1>2 DEF Arrived, S
<1>4. \A i \in 1..Len(S)+1, j \in 0..Len(S) :
        /\ Len(SubSeq(S, i, j)) = IF i <= j THEN j - i + 1 ELSE 0
        /\ \A n \in 1..j - i + 1 : SubSeq(S, i, j)[n] = S[i + n - 1]
  BY <1>1, SubSeqProperties
<1>5. read[p] + 1 \in 1..Len(S)+1 /\ Arrived(p) \in 0..Len(S)
  BY <1>1, <1>2, <1>3
<1>6. /\ Len(Waiting(p)) = IF read[p] + 1 <= Arrived(p) THEN Arrived(p) - (read[p] + 1) + 1 ELSE 0
      /\ \A n \in 1..Arrived(p) - (read[p] + 1) + 1 : Waiting(p)[n] = S[read[p] + 1 + n - 1]
  BY <1>4, <1>5 DEF Waiting, S
<1>7. Len(Waiting(p)) = Arrived(p) - read[p]
  BY <1>1, <1>3, <1>6
<1>8. \A n \in 1..Arrived(p) - read[p] : Waiting(p)[n] = S[read[p] + n]
  <2> TAKE n \in 1..Arrived(p) - read[p]
  <2>1. Arrived(p) - (read[p] + 1) + 1 = Arrived(p) - read[p] /\ read[p] + 1 + n - 1 = read[p] + n
    BY <1>1, <1>3
  <2> QED BY <1>6, <2>1
<1> QED BY <1>2, <1>3, <1>7, <1>8 DEF S

LEMMA ControlStarts == ControlInit => ControlInv
<1> SUFFICES ASSUME ControlInit PROVE ControlInv
  OBVIOUS
<1> USE CommunicatorAssumption DEF ControlInit
<1>1. script \in [Peer -> Seq(Item)] /\ \A p \in Peer : script[p] \in Scripts[p]
  OBVIOUS
<1>2. \A p \in Peer : Len(script[p]) \in Nat
  BY <1>1
<1>3. ControlTypeOK
  <2>1. \A p \in Peer : /\ sent[p] = 0 /\ read[p] = 0 /\ serving # p /\ line[p] = "none"
                        /\ 0 <= Len(script[p]) /\ 0 <= Len(script[p]) + 1
    BY <1>2
  <2>2. /\ sent \in [Peer -> Nat] /\ read \in [Peer -> Nat] /\ starts \in 0..MaxStart
        /\ line \in [Peer -> {"none", "queued", "served", "ignored", "closed", "reset"}]
    OBVIOUS
  <2>3. let_in \in BOOLEAN /\ running \in SUBSET Child /\ control_port \in running \cup {NoChild}
        /\ serving \in Peer \cup {NoPeer}
    OBVIOUS
  <2> HIDE DEF ControlInit
  <2>4. \A p \in Peer : /\ line[p] = "served" <=> serving = p
                        /\ sent[p] <= Len(script[p]) + 1
                        /\ read[p] <= sent[p] /\ read[p] <= Len(script[p])
    BY <2>1
  <2> QED BY <1>1, <2>2, <2>3, <2>4 DEF ControlTypeOK
<1>4. Unread /\ OnlyAfterLogin
  BY DEF Unread, OnlyAfterLogin, Live
<1> QED BY <1>3, <1>4 DEF ControlInv

LEMMA StartChildStep ==
  ASSUME ControlInv, NEW c \in Child, StartChild(c)
  PROVE  ControlInv'
<1> USE DEF StartChild, threadVars, peerVars
<1>1. ControlTypeOK'
  BY CommunicatorAssumption DEF ControlInv, ControlTypeOK
<1>2. Unread'
  BY DEF ControlInv, Unread
<1>3. OnlyAfterLogin'
  BY CommunicatorAssumption DEF ControlInv, OnlyAfterLogin, Live
<1> QED BY <1>1, <1>2, <1>3 DEF ControlInv

(* A child ends, of itself or because it is told to.                       *)
LEMMA ExitStep ==
  ASSUME ControlInv, NEW c \in running, Exit(c)
  PROVE  ControlInv'
<1> USE DEF Exit, threadVars
<1>1. c \in Child /\ c # NoChild
  BY CommunicatorAssumption DEF ControlInv, ControlTypeOK
<1>2. CASE c = control_port
  <2>1. line' = [p \in Peer |-> IF line[p] \in Live THEN "reset" ELSE line[p]]
        /\ control_port' = NoChild /\ serving' = NoPeer /\ let_in' = FALSE
    BY <1>2
  <2>2. \A p \in Peer : line'[p] # "served" /\ line'[p] \notin Live
                        /\ serving' # p /\ (line'[p] \in {"none", "queued"} => line[p] = "none")
    BY <2>1, CommunicatorAssumption DEF Live
  <2>3. line' \in [Peer -> {"none", "queued", "served", "ignored", "closed", "reset"}]
    BY <2>1 DEF ControlInv, ControlTypeOK
  <2>4. ControlTypeOK'
    BY <2>1, <2>2, <2>3 DEF ControlInv, ControlTypeOK
  <2>5. Unread'
    BY <2>1, <2>2 DEF ControlInv, Unread
  <2>6. OnlyAfterLogin'
    BY <2>1, <2>2 DEF OnlyAfterLogin
  <2> QED BY <2>4, <2>5, <2>6 DEF ControlInv
<1>3. CASE c # control_port
  <2>1. ControlTypeOK'
    BY <1>3 DEF ControlInv, ControlTypeOK
  <2>2. Unread' /\ OnlyAfterLogin'
    BY <1>3 DEF ControlInv, Unread, OnlyAfterLogin
  <2> QED BY <2>1, <2>2 DEF ControlInv
<1> QED BY <1>2, <1>3

LEMMA PeerStep ==
  ASSUME ControlInv, NEW p \in Peer, Connects(p) \/ Sends(p) \/ Serve(p)
  PROVE  ControlInv'
<1> USE CommunicatorAssumption DEF childVars, threadVars
<1>1. Len(script[p]) \in Nat
  BY DEF ControlInv, ControlTypeOK
<1>2. CASE Connects(p)
  BY <1>2 DEF Connects, ControlInv, ControlTypeOK, Unread, OnlyAfterLogin, Live
<1>3. CASE Sends(p)
  <2>1. ControlTypeOK'
    BY <1>1, <1>3 DEF Sends, ControlInv, ControlTypeOK
  <2> QED BY <1>3, <2>1 DEF Sends, ControlInv, Unread, OnlyAfterLogin
<1>4. CASE Serve(p)
  <2>1. ControlTypeOK'
    BY <1>4 DEF Serve, ControlInv, ControlTypeOK
  <2>2. Unread'
    BY <1>4 DEF Serve, ControlInv, ControlTypeOK, Unread
  <2>3. OnlyAfterLogin'
    BY <1>4 DEF Serve, ControlInv, ControlTypeOK, OnlyAfterLogin, Live
  <2> QED BY <2>1, <2>2, <2>3 DEF ControlInv
<1> QED BY <1>2, <1>3, <1>4

(* The thread leaves the connection of p, whatever it has read.            *)
LEMMA LeavesStep ==
  ASSUME ControlInv, NEW p \in Peer, serving = p, NEW how \in {"closed", "ignored"},
         Leaves(p, how), NEW n \in Nat, read' = [read EXCEPT ![p] = n],
         n <= sent[p], n <= Len(script[p]),
         UNCHANGED <<childVars, script, sent>>
  PROVE  ControlInv'
<1> USE CommunicatorAssumption DEF Leaves, childVars
<1>1. p # NoPeer /\ line[p] = "served"
  BY DEF ControlInv, ControlTypeOK
<1>2. ControlTypeOK'
  BY <1>1 DEF ControlInv, ControlTypeOK
<1>3. Unread'
  BY <1>1 DEF ControlInv, ControlTypeOK, Unread
<1>4. OnlyAfterLogin'
  BY <1>1 DEF ControlInv, ControlTypeOK, OnlyAfterLogin, Live
<1> QED BY <1>2, <1>3, <1>4 DEF ControlInv

LEMMA ReadLoginStep ==
  ASSUME ControlInv, NEW p \in Peer, ReadLogin(p)
  PROVE  ControlInv'
<1> USE DEF ReadLogin
<1>1. ControlTypeOK /\ read[p] = 0 /\ p # NoPeer /\ line[p] = "served"
  BY CommunicatorAssumption DEF ControlInv, ControlTypeOK, Unread
<1>2. Arrived(p) \in Nat /\ Arrived(p) <= sent[p] /\ Arrived(p) <= Len(script[p])
  BY <1>1, Received
<1>3. CASE Waiting(p) = <<"login">> /\ let_in' = TRUE /\ UNCHANGED <<serving, line>>
  <2> USE <1>3 DEF childVars
  <2>1. Arrived(p) = 1 /\ script[p][1] = "login"
    <3>1. Len(Waiting(p)) = 1 /\ Waiting(p)[1] = "login"
      OBVIOUS
    <3>2. Arrived(p) - read[p] = 1
      BY <1>1, <3>1, Received
    <3>3. Waiting(p)[1] = script[p][read[p] + 1]
      BY <1>1, <3>2, Received
    <3> QED BY <1>1, <1>2, <3>1, <3>2, <3>3
  <2>2. read' = [read EXCEPT ![p] = 1] /\ read'[p] = 1
    BY <1>1, <2>1 DEF ControlTypeOK
  <2>3. ControlTypeOK'
    BY <1>1, <1>2, <2>1, <2>2 DEF ControlTypeOK
  <2>4. Unread'
    BY <1>1, <2>2 DEF ControlInv, ControlTypeOK, Unread
  <2>5. OnlyAfterLogin'
    BY <1>1, <2>1, <2>2 DEF ControlInv, OnlyAfterLogin
  <2> QED BY <2>3, <2>4, <2>5 DEF ControlInv
<1>4. CASE WrongLeaves(p) \/ Leaves(p, "ignored")
  BY <1>1, <1>2, <1>4, LeavesStep DEF WrongLeaves
<1> QED BY <1>3, <1>4

LEMMA ReadCommandStep ==
  ASSUME ControlInv, NEW p \in Peer, ReadCommand(p)
  PROVE  ControlInv'
<1> USE DEF ReadCommand
<1>1. /\ ControlTypeOK /\ p # NoPeer /\ line[p] = "served" /\ serving = p /\ let_in
      /\ read[p] \in Nat /\ read[p] <= sent[p] /\ read[p] <= Len(script[p])
  BY CommunicatorAssumption DEF ControlInv, ControlTypeOK
<1>2. CASE Waiting(p) = <<>>
  <2>1. read' = [read EXCEPT ![p] = read[p]]
    BY <1>1, <1>2 DEF ControlTypeOK
  <2> QED BY <1>1, <1>2, <2>1, LeavesStep
<1>3. CASE Waiting(p) # <<>> /\ Head(Waiting(p)) = "stop" /\ Exit(control_port)
  <2>1. control_port \in running
    BY <1>1, <1>3 DEF ControlInv, ControlTypeOK, OnlyAfterLogin, Live
  <2> QED BY <1>3, <2>1, ExitStep
<1>4. CASE /\ Waiting(p) # <<>> /\ Head(Waiting(p)) # "stop" /\ read' = [read EXCEPT ![p] = @ + 1]
           /\ UNCHANGED <<childVars, threadVars, script, line, sent>>
  <2> USE <1>4 DEF childVars, threadVars
  <2>1. read[p] + 1 <= Arrived(p) /\ script[p][read[p] + 1] # "stop"
    <3>1. Waiting(p) \in Seq(Item)
      <4>1. script[p] \in Seq(Item) /\ read[p] + 1 \in 1..Len(script[p]) + 1
        BY <1>1 DEF ControlTypeOK
      <4>2. Arrived(p) \in 0..Len(script[p])
        BY <1>1, Received
      <4> QED BY <4>1, <4>2, SubSeqProperties DEF Waiting
    <3>2. Len(Waiting(p)) \in Nat /\ Len(Waiting(p)) # 0
      BY <3>1
    <3>3. Arrived(p) \in Nat /\ Arrived(p) - read[p] = Len(Waiting(p))
      BY <1>1, Received
    <3>4. Arrived(p) - read[p] >= 1
      BY <3>2, <3>3
    <3>5. Waiting(p)[1] = script[p][read[p] + 1]
      BY <1>1, <3>3, <3>4, Received
    <3>6. Head(Waiting(p)) = Waiting(p)[1]
      BY <3>1, <3>2
    <3> QED BY <1>1, <3>3, <3>4, <3>5, <3>6
  <2>2. Arrived(p) \in Nat /\ Arrived(p) <= sent[p] /\ Arrived(p) <= Len(script[p])
    BY <1>1, Received
  <2>3. read'[p] = read[p] + 1 /\ \A q \in Peer \ {p} : read'[q] = read[q]
    BY <1>1 DEF ControlTypeOK
  <2>4. ControlTypeOK'
    BY <1>1, <2>1, <2>2 DEF ControlTypeOK
  <2>5. Unread'
    BY <1>1, <2>3 DEF ControlInv, Unread
  <2>6. OnlyAfterLogin'
    <3>1. read[p] >= 1 /\ script[p][1] = "login" /\ \A n \in 2..read[p] : script[p][n] # "stop"
      BY <1>1 DEF ControlInv, OnlyAfterLogin
    <3>2. \A n \in 2..read'[p] : n \in 2..read[p] \/ n = read[p] + 1
      BY <1>1, <2>3
    <3>3. \A n \in 2..read'[p] : script[p][n] # "stop"
      BY <2>1, <3>1, <3>2
    <3>4. read'[p] >= 1
      BY <1>1, <2>3
    <3> QED BY <1>1, <3>1, <3>3, <3>4 DEF ControlInv, OnlyAfterLogin
  <2> QED BY <2>4, <2>5, <2>6 DEF ControlInv
<1> QED BY <1>2, <1>3, <1>4

LEMMA ControlInvariance == ControlInv /\ [ControlNext]_controlVars => ControlInv'
<1> SUFFICES ASSUME ControlInv, [ControlNext]_controlVars PROVE ControlInv'
  OBVIOUS
<1>1. ASSUME NEW c \in Child, StartChild(c) PROVE ControlInv'
  BY <1>1, StartChildStep
<1>2. ASSUME NEW c \in Child, Ends(c) PROVE ControlInv'
  BY <1>2, ExitStep DEF Ends
<1>3. ASSUME NEW p \in Peer, Connects(p) \/ Sends(p) \/ Serve(p) PROVE ControlInv'
  BY <1>3, PeerStep
<1>4. ASSUME NEW p \in Peer, ReadLogin(p) PROVE ControlInv'
  BY <1>4, ReadLoginStep
<1>5. ASSUME NEW p \in Peer, ReadCommand(p) PROVE ControlInv'
  BY <1>5, ReadCommandStep
<1>6. CASE UNCHANGED controlVars
  BY <1>6 DEF controlVars, childVars, threadVars, peerVars,
     ControlInv, ControlTypeOK, Unread, OnlyAfterLogin
<1> QED BY <1>1, <1>2, <1>3, <1>4, <1>5, <1>6 DEF ControlNext, ControlThread

LEMMA ControlAlways == ControlSpec => []ControlInv
<1> QED BY ControlStarts, ControlInvariance, PTL DEF ControlSpec

(* The peer that is served is the only one whose connection is, and no     *)
(* more of it is read than it has sent (MT4Communicator.cpp:71-86).        *)
THEOREM ControlTypeCorrect == ControlSpec => []ControlTypeOK
<1>1. ControlInv => ControlTypeOK
  BY DEF ControlInv
<1> QED BY <1>1, ControlAlways, PTL

(* Commands come from a peer whose first bytes were one login, and no stop *)
(* of such a peer is passed over; whatever peers send and children do.     *)
THEOREM OnlyAfterLoginHolds == ControlSpec => []OnlyAfterLogin
<1>1. ControlInv => OnlyAfterLogin
  BY DEF ControlInv
<1> QED BY <1>1, ControlAlways, PTL

-----------------------------------------------------------------------------
(* The three beside one another.                                           *)
AllInv == IInv /\ DbInv /\ ControlInv

LEMMA AllStart == MCInit => AllInv
<1> SUFFICES ASSUME MCInit PROVE AllInv
  OBVIOUS
<1>1. IInv /\ ControlInv
  BY InitIInv, ControlStarts DEF MCInit
<1>2. CASE moves = 2
  BY <1>1, <1>2, DbStarts DEF MCInit, AllInv
<1>3. CASE moves # 2
  <2>1. Idle /\ server = "transfer" /\ connected = TRUE /\ edits = 0 /\ accounts = NoRow
    BY <1>3 DEF MCInit
  <2>2. /\ accounts \in [Name -> Row \cup {None}]
        /\ \A u \in Name : accounts[u] \in Rows[u] \cup {None}
    BY <2>1 DEF NoRow
  <2>3. server \in {"transfer", "auth"} /\ connected \in BOOLEAN
    BY <2>1
  <2> QED BY <1>1, <2>1, <2>2, <2>3, IdleInv DEF AllInv
<1> QED BY <1>2, <1>3

LEMMA AllStep ==
  AllInv /\ [QueuesMove \/ DatabaseMoves \/ ControlMoves]_allVars => AllInv'
<1> SUFFICES ASSUME AllInv, [QueuesMove \/ DatabaseMoves \/ ControlMoves]_allVars
             PROVE  AllInv'
  OBVIOUS
<1>1. [Next]_vars /\ [DbNext]_dbVars /\ [ControlNext]_controlVars
  BY DEF QueuesMove, DatabaseMoves, ControlMoves, allVars
<1>2. IInv'
  BY <1>1, TypeStep, DescriptorsStep, HandledLeftStep, OwnedStep, LostStep DEF AllInv, IInv
<1> QED BY <1>1, <1>2, DbInvariance, ControlInvariance DEF AllInv

(* Each of the three keeps its types whatever the other two do.            *)
THEOREM AllTypesCorrect == MCSpec => []MCTypeOK
<1>1. AllInv => MCTypeOK
  BY DEF AllInv, IInv, DbInv, ControlInv, MCTypeOK
<1> QED BY <1>1, AllStart, AllStep, PTL DEF MCSpec
=============================================================================
