---------------------------- MODULE MT4AuthQueues ----------------------------
(***************************************************************************)
(* The login pipeline of one member of the cluster: an accepted socket     *)
(* waits in ssl_pending_queue until its TLS handshake is over, then in     *)
(* pending_queue until its user name and password are checked, and is then *)
(* given to a registry, which owns it from there on.                       *)
(*                                                                         *)
(* MT4SSLAuth and MT4Authroize run the same round on their own queue: shut *)
(* everything older than five seconds, select on the rest, copy the queue  *)
(* and handle the readable entries of the copy with the queue unlocked,    *)
(* then lock it again and take out what has been handled.  An entry has no *)
(* identity: it is taken out by its descriptor and its creation second.    *)
(*                                                                         *)
(* Purge, select and copy are one action: an entry of the queue belongs to *)
(* the thread of the queue (QueueOwned), so nobody closes its descriptor   *)
(* between them, and what the listener adds meanwhile is not in the        *)
(* descriptor set.  The exception: an operator's connection can be closed  *)
(* twice by its registry (DanglingWindow of MT4Operators), and the second  *)
(* time its number may be that of a connection in a queue.  Such a one is  *)
(* cut: its owner still has it, but not the descriptor.                    *)
(***************************************************************************)
EXTENDS Naturals, FiniteSets

CONSTANTS
  Conn,      \* connections that reach this member
  Fd,        \* descriptor numbers
  MaxAge,    \* seconds an entry may wait (5 in the code)
  LastLogin  \* bound: the last second in which a connection is accepted

ASSUME QueuesAssumption ==
  /\ Conn # {} /\ Fd # {}
  /\ MaxAge \in Nat /\ LastLogin \in Nat

Stage == {"ssl", "auth"}
MaxTime == LastLogin + MaxAge + 1

VARIABLES
  up,       \* the server process is alive
  now,      \* time(NULL)
  at,       \* who owns a connection: "new", a stage, "given" to a registry,
            \*   or nobody: "closed"
  sock,     \* its descriptor
  create_time,
  gone,     \* open connections whose peer has left
  cut,      \* connections whose descriptor was closed under their owner
  stray,    \* connections whose registry is about to close them once more
  queue,    \* ssl_pending_queue and pending_queue
  pc,       \* "select"; "handle": the copy is being gone through
  temp,     \* readable entries of the copy still to be handled
  removed   \* entries handled in this round

connVars == <<sock, create_time>>
vars == <<up, now, at, connVars, gone, cut, stray, queue, pc, temp, removed>>

Owned(k) == at[k] \notin {"new", "closed"}
IsOpen(k) == Owned(k) /\ k \notin cut

TypeOK ==
  /\ up \in BOOLEAN
  /\ now \in 0..MaxTime
  /\ at \in [Conn -> {"new", "given", "closed"} \cup Stage]
  /\ sock \in [Conn -> Fd]
  /\ create_time \in [Conn -> 0..LastLogin]
  /\ gone \in SUBSET Conn /\ cut \in SUBSET Conn /\ stray \in SUBSET Conn
  /\ queue \in [Stage -> SUBSET Conn]
  /\ pc \in [Stage -> {"select", "handle"}]
  /\ temp \in [Stage -> SUBSET Conn]
  /\ removed \in [Stage -> SUBSET Conn]
  /\ \A k \in cut : Owned(k)
  /\ \A s \in Stage : pc[s] = "select" => temp[s] = {} /\ removed[s] = {}

Nothing == [s \in Stage |-> {}]
Selecting == [s \in Stage |-> "select"]

Init ==
  /\ up = TRUE /\ now = 0 /\ gone = {} /\ cut = {} /\ stray = {}
  /\ queue = Nothing /\ pc = Selecting /\ temp = Nothing /\ removed = Nothing
  /\ at = [k \in Conn |-> "new"]
  /\ sock = [k \in Conn |-> CHOOSE f \in Fd : TRUE]
  /\ create_time = [k \in Conn |-> 0]

(* The owners of connections K close them, by their descriptors; those of  *)
(* K that are cut close whoever has got the number meanwhile.              *)
Hit(K) == {j \in Conn : IsOpen(j) /\ \E k \in K : sock[j] = sock[k]}

Close(K) ==
  /\ at' = [k \in Conn |-> IF k \in K THEN "closed" ELSE at[k]]
  /\ cut' = (cut \cup Hit(K \cap cut)) \ K
  /\ gone' = gone \ K

-----------------------------------------------------------------------------
(* The world around the pipeline.                                          *)

(* accept(2) returns a descriptor nobody has open; add stamps the entry.   *)
Accept(k, f) ==
  /\ up /\ at[k] = "new" /\ now <= LastLogin
  /\ \A j \in Conn : IsOpen(j) => sock[j] # f
  /\ at' = [at EXCEPT ![k] = "ssl"]
  /\ sock' = [sock EXCEPT ![k] = f]
  /\ create_time' = [create_time EXCEPT ![k] = now]
  /\ queue' = [queue EXCEPT !["ssl"] = @ \cup {k}]
  /\ UNCHANGED <<up, now, gone, cut, stray, pc, temp, removed>>

PeerLeaves(k) ==
  /\ IsOpen(k) /\ k \notin gone /\ gone' = gone \cup {k}
  /\ UNCHANGED <<up, now, at, connVars, cut, stray, queue, pc, temp, removed>>

(* A registry frees a connection and closes its descriptor: a customer's   *)
(* under customers_lock, once; an operator's from the destructor or from   *)
(* the receiving thread, or from both.                                     *)
RegistryCloses(k) ==
  /\ up /\ at[k] = "given" /\ Close({k})
  /\ stray' \in {stray, stray \cup {k}}
  /\ UNCHANGED <<up, now, connVars, queue, pc, temp, removed>>

RegistryClosesAgain(k) ==
  /\ up /\ k \in stray /\ stray' = stray \ {k}
  /\ cut' = cut \cup Hit({k})
  /\ UNCHANGED <<up, now, at, connVars, gone, queue, pc, temp, removed>>

Tick ==
  /\ now < MaxTime /\ now' = now + 1
  /\ UNCHANGED <<up, at, connVars, gone, cut, stray, queue, pc, temp, removed>>

Restart ==
  /\ ~up /\ up' = TRUE
  /\ UNCHANGED <<now, at, connVars, gone, cut, stray, queue, pc, temp, removed>>

-----------------------------------------------------------------------------
(* A round of the thread of stage s.                                       *)

Expired(s) == {k \in queue[s] : now - create_time[k] > MaxAge}

(* select fails when one of the numbers is not open.                       *)
SelectFails(K) == \E k \in K \cap cut : Hit({k}) = {}

Round(s) ==
  /\ up /\ pc[s] = "select" /\ queue[s] # {}
  /\ Close(Expired(s))
  /\ queue' = [queue EXCEPT ![s] = @ \ Expired(s)]
  /\ \E readable \in SUBSET queue'[s] :
       /\ SelectFails(queue[s] \ Expired(s)) => readable = {}
       /\ temp' = [temp EXCEPT ![s] = readable]
       /\ pc' = [pc EXCEPT ![s] = IF readable = {} THEN "select" ELSE "handle"]
  /\ UNCHANGED <<up, now, connVars, stray, removed>>

Handled(s, k, taken) ==
  /\ up /\ pc[s] = "handle" /\ k \in temp[s]
  /\ temp' = [temp EXCEPT ![s] = @ \ {k}]
  /\ removed' = [removed EXCEPT ![s] = @ \cup taken]
  /\ UNCHANGED <<up, now, connVars, stray, pc>>

(* Mutant: the entry handed to the password stage is not put in removed.   *)
PassesKept(s, k) == IF s = "ssl" THEN {} ELSE {k}
Passes(s, k) == {k}

(* SSL_accept returned 1: the copy goes to the next stage while the entry  *)
(* is still in this queue.  Or the password is right and the answer has    *)
(* been written: the connection goes to a registry.                        *)
HandOn(s, k) ==
  /\ Handled(s, k, Passes(s, k)) /\ k \notin cut /\ UNCHANGED <<gone, cut>>
  /\ IF s = "ssl"
     THEN /\ at' = [at EXCEPT ![k] = "auth"]
          /\ queue' = [queue EXCEPT !["auth"] = @ \cup {k}]
     ELSE at' = [at EXCEPT ![k] = "given"] /\ UNCHANGED queue

(* SSL_accept returned 0, the password is wrong, or what SSL_read returned *)
(* is not exactly one auth_pair.                                           *)
Reject(s, k) == Handled(s, k, {k}) /\ Close({k}) /\ UNCHANGED queue

(* The handshake goes on, or auth_pass could not be written: the entry     *)
(* waits for another round or the purge.  (A failed query is answered like *)
(* a wrong password: customer_auth_check returns 0 for it.)                *)
Again(s, k) == Handled(s, k, {}) /\ UNCHANGED <<at, gone, cut, queue>>

(* Mutant: entries are compared by descriptor only.                        *)
SameSock(j, k) == sock[j] = sock[k]
SameEntry(j, k) == sock[j] = sock[k] /\ create_time[j] = create_time[k]

(* Mutant: removed outlives the round, as a member of the class would.     *)
OutlivesRound(s) == removed
Cleared(s) == [removed EXCEPT ![s] = {}]

Remove(s) ==
  /\ up /\ pc[s] = "handle" /\ temp[s] = {}
  /\ queue' = [queue EXCEPT ![s] =
                 {k \in @ : \A j \in removed[s] : ~SameEntry(j, k)}]
  /\ removed' = Cleared(s)
  /\ pc' = [pc EXCEPT ![s] = "select"]
  /\ UNCHANGED <<up, now, at, connVars, gone, cut, stray, temp>>

(* Writing to a connection whose peer has left raises SIGPIPE, which no    *)
(* thread ignores: the close_notify of the purge (after a handshake only), *)
(* the server's part of a handshake, the answer to a password, and what a  *)
(* registry sends may end the process.  So may freeing an SSL object twice.*)
Killed ==
  /\ up
  /\ \/ pc["auth"] = "select" /\ gone \cap Expired("auth") # {}
     \/ \E s \in Stage : pc[s] = "handle" /\ gone \cap temp[s] # {}
     \/ \E k \in gone : at[k] = "given"
     \/ stray # {}
  /\ up' = FALSE
  /\ at' = [k \in Conn |-> IF at[k] = "new" THEN "new" ELSE "closed"]
  /\ gone' = {} /\ cut' = {} /\ stray' = {}
  /\ queue' = Nothing /\ pc' = Selecting /\ temp' = Nothing /\ removed' = Nothing
  /\ UNCHANGED <<now, connVars>>

Thread(s) ==
  \/ Round(s) \/ Remove(s)
  \/ \E k \in Conn : HandOn(s, k) \/ Reject(s, k) \/ Again(s, k)

Next ==
  \/ \E k \in Conn, f \in Fd : Accept(k, f)
  \/ \E k \in Conn : PeerLeaves(k) \/ RegistryCloses(k) \/ RegistryClosesAgain(k)
  \/ \E s \in Stage : Thread(s)
  \/ Tick \/ Killed \/ Restart

Spec == Init /\ [][Next]_vars

(* The threads run (select times out after 10 ms), the clock goes on, and  *)
(* the parent process starts a new child.                                  *)
Fairness ==
  /\ WF_vars(Tick) /\ WF_vars(Restart)
  /\ \A s \in Stage : WF_vars(Thread(s))
FairSpec == Spec /\ Fairness

-----------------------------------------------------------------------------
(* Between two rounds everything in a queue belongs to the queue's thread, *)
(* and during a round so does every entry of the copy that is still to be  *)
(* handled: neither thread reads, shuts or frees a connection that it has  *)
(* closed, that the other thread works on, or that a registry owns.        *)
(* (MT4SSLAuth.cpp:153 hands the copy on before the entry leaves the       *)
(* queue; both threads free without asking who else has the pointer.)      *)
QueueOwned ==
  \A s \in Stage :
    /\ \A k \in temp[s] : at[k] = s
    /\ \A k \in queue[s] \ removed[s] : at[k] = s

(* A connection that is open but in no queue is never looked at again, not *)
(* even by the purge.                                                      *)
Lost(k) == at[k] \in Stage /\ k \notin queue[at[k]]

(* The test by descriptor and second (MT4SSLAuth.cpp:175,                  *)
(* MT4Authroize.cpp:224) loses a connection only if it has been cut, or    *)
(* was accepted in the same second as a connection that has been closed,   *)
(* or cut, already and whose descriptor it got.                            *)
Dead(j) == at[j] = "closed" \/ j \in cut

LostOnlyByReuse ==
  \A k \in Conn : Lost(k) /\ k \notin cut =>
    \E j \in Conn \ {k} :
      Dead(j) /\ sock[j] = sock[k] /\ create_time[j] = create_time[k]

=============================================================================
