---------------------------- MODULE AuthKeepAlive ----------------------------
(***************************************************************************)
(* The auth server: both queues of a cluster member, and MT4KeepAlive,     *)
(* which all members share.  The TLS stage is the transfer server's, and   *)
(* the steps of its round are those of MT4AuthQueues: here a purge is one  *)
(* action, and so is everything a round does to one entry.  The password   *)
(* stage is a copy of the transfer server's that went its own way.         *)
(*                                                                         *)
(* Once checked, an entry is erased through an iterator of the copy of the *)
(* queue, not of the queue: libstdc++ takes the node out of the copy.  So  *)
(* a connection stays in pending_queue after its login, and after a failed *)
(* login a descriptor that is closed does.  MT4KeepAlive maps a user to a  *)
(* descriptor and a descriptor to an SSL object, and erases neither.       *)
(*                                                                         *)
(* An SSL object reads and writes a descriptor number, whoever has it      *)
(* open; close(2) is given a number too.  What a freed SSL object does is  *)
(* undefined: using one returns anything or ends the process.              *)
(*                                                                         *)
(* add_alive_users holds users_lock, but what it does to ssl_com_channel,  *)
(* to descriptors and to epoll the others see step by step: freeing the    *)
(* old object, putting the new one in its place and closing the number,    *)
(* and registering the new number, whoever has it by then.                 *)
(* keep_alive_thread takes no lock: fetching an event, answering it and    *)
(* hanging up are three.                                                   *)
(***************************************************************************)
EXTENDS Naturals, FiniteSets

CONSTANTS
  Conn,      \* connections, each with its SSL object
  User,      \* users, with their EA number
  Login,     \* Login[k] is the user on connection k, whenever it logs in
  Fd, NoFd,  \* descriptor numbers, and none
  NoConn,
  MaxAge,    \* seconds an entry may wait (5 in the code)
  LastLogin  \* bound: the last second in which a connection arrives

ASSUME KeepAliveAssumption ==
  /\ Conn # {} /\ Fd # {} /\ NoFd \notin Fd /\ NoConn \notin Conn
  /\ Login \in [Conn -> User]
  /\ MaxAge \in Nat /\ LastLogin \in Nat

MaxTime == LastLogin + MaxAge + 1

VARIABLES
  up,       \* the server process is alive
  now,      \* time(NULL)
  st,       \* socket: "new"; "ssl": in the handshake; "pending"; "alive":
            \*   its number is in keep_alive_users; "closed"
  freed,    \* connections whose SSL object has been freed
  sock, create_time,
  gone,     \* connections whose peer has left
  ssl_queue, \* ssl_pending_queue
  queue,    \* pending_queue
  pc,       \* auth thread: "select", "handle", or in add_alive_users
  temp, removed,
  adding,   \* what add_alive_users was called with
  keep_alive_users, ssl_com_channel,
  watched,  \* connections epoll reports
  event,    \* keep-alive thread: the descriptor of the event, or NoFd
  failed    \* keep-alive thread: handle_keep_alive returned false

vars == <<up, now, st, freed, sock, create_time, gone, ssl_queue, queue, pc,
          temp, removed, adding, keep_alive_users, ssl_com_channel, watched, event, failed>>
connVars == <<sock, create_time>>
mapVars == <<keep_alive_users, ssl_com_channel>>
authVars == <<ssl_queue, queue, pc, temp, removed, adding>>
keepVars == <<event, failed>>

TypeOK ==
  /\ up \in BOOLEAN /\ now \in 0..MaxTime
  /\ st \in [Conn -> {"new", "ssl", "pending", "alive", "closed"}]
  /\ freed \in SUBSET Conn /\ gone \in SUBSET Conn
  /\ sock \in [Conn -> Fd \cup {NoFd}] /\ create_time \in [Conn -> 0..LastLogin]
  /\ ssl_queue \in SUBSET Conn /\ queue \in SUBSET Conn
  /\ \A k \in ssl_queue \cup queue : sock[k] # NoFd
  /\ temp \in SUBSET Conn /\ removed \in SUBSET Conn
  /\ pc \in {"select", "handle", "insert", "close", "watch"}
  /\ adding \in Conn \cup {NoConn}
  /\ (adding = NoConn) = (pc \in {"select", "handle"})
  /\ pc = "select" => temp = {} /\ removed = {}
  /\ keep_alive_users \in [User -> Fd \cup {NoFd}]
  /\ ssl_com_channel \in [Fd -> Conn \cup {NoConn}]
  /\ watched \in SUBSET Conn
  /\ event \in Fd \cup {NoFd} /\ failed \in BOOLEAN

NoUsers == [u \in User |-> NoFd]
NoChannels == [f \in Fd |-> NoConn]

Init ==
  /\ up = TRUE /\ now = 0 /\ st = [k \in Conn |-> "new"]
  /\ freed = {} /\ gone = {}
  /\ sock = [k \in Conn |-> NoFd]
  /\ create_time = [k \in Conn |-> 0]
  /\ ssl_queue = {} /\ queue = {} /\ pc = "select" /\ temp = {} /\ removed = {}
  /\ adding = NoConn /\ keep_alive_users = NoUsers /\ ssl_com_channel = NoChannels
  /\ watched = {} /\ event = NoFd /\ failed = FALSE

IsOpen(k) == st[k] \in {"ssl", "pending", "alive"}
On(F) == {k \in Conn : IsOpen(k) /\ sock[k] \in F}

(* close(2) of some descriptor numbers: whoever has them open loses them,  *)
(* and epoll forgets them.                                                 *)
CloseFds(F) ==
  /\ st' = [k \in Conn |-> IF k \in On(F) THEN "closed" ELSE st[k]]
  /\ watched' = watched \ On(F)

(* SSL_shutdown and SSL_free.  A second free, or writing to a peer that    *)
(* has left (SIGPIPE), may end the process.                                *)
Deadly(K) == K \cap (freed \cup gone) # {}
Dies ==
  /\ up' = FALSE /\ UNCHANGED <<now, connVars, gone>>
  /\ st' = [k \in Conn |-> IF st[k] = "new" THEN "new" ELSE "closed"]
  /\ freed' = {} /\ ssl_queue' = {} /\ queue' = {} /\ pc' = "select" /\ temp' = {}
  /\ removed' = {} /\ adding' = NoConn
  /\ keep_alive_users' = NoUsers /\ ssl_com_channel' = NoChannels
  /\ watched' = {} /\ event' = NoFd /\ failed' = FALSE

Restart ==
  /\ ~up /\ up' = TRUE
  /\ UNCHANGED <<now, st, freed, gone, connVars, authVars, mapVars, watched,
                 keepVars>>

-----------------------------------------------------------------------------
PeerLeaves(k) ==
  /\ IsOpen(k) /\ k \notin gone /\ gone' = gone \cup {k}
  /\ UNCHANGED <<up, now, st, freed, connVars, authVars, mapVars, watched,
                 keepVars>>

Tick ==
  /\ now < MaxTime /\ now' = now + 1
  /\ UNCHANGED <<up, st, freed, gone, connVars, authVars, mapVars, watched,
                 keepVars>>

-----------------------------------------------------------------------------
(* The TLS stage: MT4SSLAuth::add and ssl_auth_thread.                     *)

Accept(k, f) ==
  /\ up /\ st[k] = "new" /\ now <= LastLogin /\ On({f}) = {}
  /\ st' = [st EXCEPT ![k] = "ssl"]
  /\ sock' = [sock EXCEPT ![k] = f]
  /\ create_time' = [create_time EXCEPT ![k] = now]
  /\ ssl_queue' = ssl_queue \cup {k}
  /\ UNCHANGED <<up, now, freed, gone, queue, pc, temp, removed, adding, mapVars,
                 watched, keepVars>>

Old(k) == now - create_time[k] > MaxAge
SameEntry(j, k) == sock[j] = sock[k] /\ create_time[j] = create_time[k]

(* select fails (EBADF) as long as a descriptor of the set is closed.      *)
Selectable(Q) == \A k \in Q : On({sock[k]}) # {}

SSLExpired == {k \in ssl_queue : Old(k)}

SSLPurge ==
  /\ up /\ SSLExpired # {} /\ ssl_queue' = ssl_queue \ SSLExpired
  /\ freed' = freed \cup SSLExpired
  /\ CloseFds({sock[k] : k \in SSLExpired})
  /\ UNCHANGED <<up, now, gone, connVars, queue, pc, temp, removed, adding,
                 mapVars, keepVars>>

(* SSL_accept returns 1, which needs the peer that connected, or 0.  An    *)
(* entry for which it returns -1 stays.                                    *)
SSLHandle(k) ==
  /\ up /\ SSLExpired = {} /\ k \in ssl_queue /\ Selectable(ssl_queue)
  /\ ssl_queue' = {j \in ssl_queue : ~SameEntry(j, k)}
  /\ \/ /\ st[k] = "ssl" /\ st' = [st EXCEPT ![k] = "pending"]
        /\ queue' = queue \cup {k} /\ UNCHANGED <<freed, watched>>
     \/ /\ freed' = freed \cup {k} /\ CloseFds({sock[k]})
        /\ UNCHANGED queue
  /\ UNCHANGED <<up, now, gone, connVars, pc, temp, removed, adding, mapVars,
                 keepVars>>

SSLThread == SSLPurge \/ \E k \in Conn : SSLHandle(k)

-----------------------------------------------------------------------------
(* The auth_check thread.                                                  *)

(* Mutant: the purge spares what has been answered.                        *)
ExpiredPending == {k \in queue : Old(k) /\ IsOpen(k)}
Expired == {k \in queue : Old(k)}
Purged == queue \ Expired

Round ==
  /\ up /\ pc = "select" /\ queue # {}
  /\ UNCHANGED <<up, now, gone, connVars, ssl_queue, removed, adding, mapVars,
                 keepVars>>
  /\ freed' = freed \cup Expired
  /\ CloseFds({sock[k] : k \in Expired})
  /\ queue' = Purged
  /\ \E readable \in SUBSET Purged :
       /\ \/ readable = {}
          \/ \A k \in Purged : On({sock[k]})' # {}
       /\ temp' = readable
       /\ pc' = IF readable = {} THEN "select" ELSE "handle"

Handles(k) == up /\ pc = "handle" /\ k \in temp /\ temp' = temp \ {k}

(* One auth_pair: a login, the first on the connection or, as long as it   *)
(* is left in pending_queue, another one after that.                       *)
ReadsLogin(k) == Handles(k) /\ st[k] \in {"pending", "alive"}

(* auth_pass is written and add_alive_users begins.  If the user has been  *)
(* here before, the object under his old number is freed.                  *)
Pass(k) ==
  LET old == keep_alive_users[Login[k]] IN
  /\ ReadsLogin(k) /\ adding' = k
  /\ IF old = NoFd
     THEN pc' = "insert" /\ UNCHANGED <<freed, watched>>
     ELSE /\ pc' = "close" /\ watched' = watched \ On({old})
          /\ freed' = freed \cup ({ssl_com_channel[old]} \ {NoConn})
  /\ UNCHANGED <<up, now, st, gone, connVars, ssl_queue, queue, removed, mapVars,
                 keepVars>>

(* The first login of a user: std::map::insert does not replace an SSL     *)
(* object that is already there.                                           *)
Insert ==
  /\ up /\ pc = "insert" /\ pc' = "watch"
  /\ keep_alive_users' = [keep_alive_users EXCEPT ![Login[adding]] = sock[adding]]
  /\ ssl_com_channel' =
       [ssl_com_channel EXCEPT ![sock[adding]] = IF @ = NoConn THEN adding ELSE @]
  /\ st' = [st EXCEPT ![adding] = IF IsOpen(adding) THEN "alive" ELSE @]
  /\ UNCHANGED <<up, now, freed, gone, connVars, ssl_queue, queue, temp, removed,
                 adding, watched, keepVars>>

(* Mutant: the old connection of the user is left alone.                   *)
LetsGo(f) == {}
HangsUp(f) == {f}

(* A later one: the SSL object is put under the old number, which is       *)
(* closed.  If it has come back as the new one, or the login is not the    *)
(* first on the connection, it is this connection that close ends.  (The   *)
(* number goes into keep_alive_users here: nobody else reads that map      *)
(* before users_lock is free.)                                             *)
CloseOld ==
  LET old == keep_alive_users[Login[adding]]
      away == On(HangsUp(old)) IN
  /\ up /\ pc = "close" /\ pc' = "watch"
  /\ ssl_com_channel' =
       [ssl_com_channel EXCEPT ![old] = IF @ = NoConn THEN @ ELSE adding]
  /\ keep_alive_users' = [keep_alive_users EXCEPT ![Login[adding]] = sock[adding]]
  /\ st' = [j \in Conn |-> IF j \in away THEN "closed"
                           ELSE IF j = adding /\ IsOpen(j) THEN "alive" ELSE st[j]]
  /\ watched' = watched \ away
  /\ UNCHANGED <<up, now, freed, gone, connVars, ssl_queue, queue, temp, removed,
                 adding, keepVars>>

(* EPOLL_CTL_ADD takes a number: that of the connection, or of another one *)
(* that has been accepted since it was closed.                             *)
Watch ==
  /\ up /\ pc = "watch" /\ pc' = "handle" /\ adding' = NoConn
  /\ watched' = watched \cup On({sock[adding]})
  /\ UNCHANGED <<up, now, st, freed, gone, connVars, ssl_queue, queue, temp, removed,
                 mapVars, keepVars>>

(* Wrong password: closed, neither freed nor taken out of the queue.       *)
Fail(k) ==
  /\ ReadsLogin(k) /\ CloseFds({sock[k]})
  /\ UNCHANGED <<up, now, freed, gone, connVars, ssl_queue, queue, pc, removed,
                 adding, mapVars, keepVars>>

(* MT4Error from the database.                                             *)
Again(k) ==
  /\ ReadsLogin(k)
  /\ UNCHANGED <<up, now, st, freed, gone, connVars, ssl_queue, queue, pc, removed,
                 adding, mapVars, watched, keepVars>>

(* SSL_read did not return one auth_pair: the peer closed, sent something  *)
(* else (a keep-alive record has another length), or the SSL object is not *)
(* the one of the connection that has its descriptor now.                  *)
Malformed(k) ==
  /\ Handles(k)
  /\ freed' = freed \cup {k} /\ CloseFds({sock[k]})
  /\ removed' = removed \cup {k}
  /\ UNCHANGED <<up, now, gone, connVars, ssl_queue, queue, pc, adding, mapVars,
                 keepVars>>

(* Mutant: removed outlives the round, as a member of the class would.     *)
OutlivesRound == removed
Cleared == {}

Remove ==
  /\ up /\ pc = "handle" /\ temp = {}
  /\ queue' = {k \in queue : \A j \in removed : ~SameEntry(j, k)}
  /\ removed' = Cleared /\ pc' = "select"
  /\ UNCHANGED <<up, now, st, freed, gone, connVars, ssl_queue, temp, adding,
                 mapVars, watched, keepVars>>

AuthThread ==
  \/ Round \/ Remove \/ Insert \/ CloseOld \/ Watch
  \/ \E k \in Conn : Pass(k) \/ Fail(k) \/ Again(k) \/ Malformed(k)

-----------------------------------------------------------------------------
(* keep_alive_thread.  epoll_wait may report several descriptors; they are *)
(* answered one after the other, as if each were fetched just before, or   *)
(* long before, it is answered.                                            *)

Wake(f) ==
  /\ up /\ event = NoFd /\ \E k \in watched : sock[k] = f
  /\ event' = f /\ failed' = FALSE
  /\ UNCHANGED <<up, now, st, freed, gone, connVars, authVars, mapVars, watched>>

(* While a first login inserts, find may not see what is in the map.       *)
Found(f) == {ssl_com_channel[f]} \cup (IF pc = "insert" THEN {NoConn} ELSE {})

(* handle_keep_alive.  It has no return statement for a descriptor that is *)
(* not in the map.                                                         *)
Answer ==
  /\ up /\ event # NoFd /\ ~failed
  /\ \/ event' = NoFd /\ UNCHANGED failed
     \/ /\ \E c \in Found(event) : c = NoConn \/ Deadly({c})
        /\ failed' = TRUE /\ UNCHANGED event
  /\ UNCHANGED <<up, now, st, freed, gone, connVars, authVars, mapVars, watched>>

HangUp ==
  /\ up /\ failed /\ CloseFds({event})
  /\ \E c \in Found(event) : freed' = freed \cup ({c} \ {NoConn})
  /\ event' = NoFd /\ failed' = FALSE
  /\ UNCHANGED <<up, now, gone, connVars, authVars, mapVars>>

KeepAliveThread == (\E f \in Fd : Wake(f)) \/ Answer \/ HangUp

(* What a thread is about to use has been freed, or its peer has left; or  *)
(* two threads are in ssl_com_channel while it changes its shape.          *)
Killed ==
  /\ up /\ Dies
  /\ \/ Deadly(ssl_queue)
     \/ pc = "select" /\ Deadly(Expired)
     \/ pc = "handle" /\ Deadly(temp)
     \/ \E k \in temp, f \in Fd :
          /\ keep_alive_users[Login[k]] = f
          /\ ssl_com_channel[f] # NoConn /\ Deadly({ssl_com_channel[f]})
     \/ event # NoFd /\ (Deadly({ssl_com_channel[event]}) \/ pc = "insert")

Next ==
  \/ \E k \in Conn, f \in Fd : Accept(k, f)
  \/ \E k \in Conn : PeerLeaves(k)
  \/ Tick \/ SSLThread \/ AuthThread \/ KeepAliveThread \/ Killed \/ Restart

Spec == Init /\ [][Next]_vars

(* The threads run, the clock goes on.                                     *)
FairSpec ==
  /\ Spec /\ WF_vars(Tick)
  /\ WF_vars(SSLThread) /\ WF_vars(AuthThread) /\ WF_vars(KeepAliveThread)

-----------------------------------------------------------------------------
(* A user has at most one authenticated connection, the one whose          *)
(* descriptor keep_alive_users holds, although that map is never cleaned   *)
(* and numbers come back for other users' connections (add_alive_users,    *)
(* MT4KeepAlive.cpp:22-43).                                                *)
OneSession ==
  \A k \in Conn : st[k] = "alive" => keep_alive_users[Login[k]] = sock[k]

(* Both maps and the epoll set together are a table of sessions: a login   *)
(* replaces the session of its user in the step that closes the old        *)
(* connection, whichever stale number keep_alive_users has for him, and    *)
(* closes one connection at most (add_alive_users, MT4KeepAlive.cpp:22-43).*)
Sessions == INSTANCE UserSessions WITH
  sessions <- {k \in Conn : st[k] = "alive"},
  over <- {k \in Conn : st[k] = "closed"}

LoginsReplace == Sessions!SessSpec

(* The SSL object on which keep_alive_thread answers an authenticated      *)
(* connection, its own or not, stays the same as long as the connection    *)
(* stays: nobody else's login puts an object there, although logins file   *)
(* theirs under the numbers of old connections and numbers come back       *)
(* (MT4KeepAlive.cpp:34, 47).                                              *)
KeepsItsObject ==
  [][\A k \in Conn :
       st[k] = "alive" /\ st'[k] = "alive" =>
         ssl_com_channel'[sock[k]] = ssl_com_channel[sock[k]]]_vars

(* No entry of either queue stays for good: neither what is left in        *)
(* pending_queue after a login, nor the descriptors that are closed under  *)
(* the feet of the stage that has them and make its select fail for        *)
(* everybody, a handshake's by a stale entry of the password stage among   *)
(* them (MT4SSLAuth.cpp:50, MT4Authroize.cpp:104).                         *)
Drains ==
  \A k \in Conn :
    /\ k \in ssl_queue ~> k \notin ssl_queue
    /\ k \in queue ~> k \notin queue

(* mt4_client.c:52-74 sends a keep-alive every five seconds for ever and   *)
(* reports "Channel has been closed" or "received error" otherwise: an     *)
(* authenticated connection is closed only after its peer has left or when *)
(* its user logs in again.                                                 *)
AuthenticatedStays ==
  [][\A k \in Conn : st[k] = "alive" /\ st'[k] = "closed" /\ up' =>
       k \in gone \/ (pc = "close" /\ pc' # "close" /\ Login[adding] = Login[k])]_vars
=============================================================================
