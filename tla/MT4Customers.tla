---------------------------- MODULE MT4Customers ----------------------------
(***************************************************************************)
(* The customer registry of the transfer server: the map of logged-in      *)
(* customers, the per-operator lists of customer ids, and the fan-out of   *)
(* an operator's order to the customers on its list.                       *)
(*                                                                         *)
(* Two kinds of thread meet here.  The auth_check threads (Auth) run       *)
(* add_customer and then add_customer_to_operator for every operator on    *)
(* the account.  The receiving thread of each operator (Oper, one thread   *)
(* per operator: MT4Operators shows it) runs send_order_to_customers.      *)
(*                                                                         *)
(* One action is one critical section, or one access made outside every    *)
(* lock.  For an auth_check thread looking an operator up and locking its  *)
(* list are one action: an entry of relations is never erased, so what the *)
(* lookup found still holds when the list lock is granted.  Sending an     *)
(* order to one customer is three: find the object under customers_lock,   *)
(* read its ssl field, SSL_write, the last two on pointers no lock         *)
(* protects any more.  relations.size(), read without a lock and printed   *)
(* by send_order_to_customers, is one word and left out; the size of a     *)
(* list, which add_customer_to_operator prints, is counted by walking it.  *)
(***************************************************************************)
EXTENDS Naturals, FiniteSets

CONSTANTS
  Cust,      \* customer ids
  Oper,      \* operator ids; the receiving thread of an operator has its id
  Auth,      \* the auth_check threads, one per member of the cluster
  Conn,      \* connections: one SSL object and its socket, used by one login
  NoConn,    \* stands for "not in the map" and for an unset pointer
  User,      \* User[k] is the customer that logs in on connection k
  Follows,   \* Follows[c] is the set of operators on the account of c
  MaxOrder   \* bound: orders each operator sends

ASSUME CustomersAssumption ==
  /\ Cust # {} /\ Oper # {} /\ IsFiniteSet(Auth)
  /\ NoConn \notin Conn
  /\ User \in [Conn -> Cust]
  /\ Follows \in [Cust -> SUBSET Oper]
  /\ MaxOrder \in Nat

VARIABLES
  up,         \* the server process (the forked child) is alive
  customers,  \* customers map: the object of a customer, named by the
              \*   connection it was created with, or NoConn
  ssl,        \* ssl[x] is the connection in the ssl/sock fields of object x
  conn,       \* "new"; "open"; "gone": the peer has left, the SSL object is
              \*   still there; "closed": shut down, freed and closed
  known,      \* operators that have an entry in relations and list_locks
  relations,  \* relations[o][c]: occurrences of c in the list of operator o
  raced,      \* an entry was pushed on a list another thread was sorting
  apc, todo, who, at,     \* auth thread: control, operators left to add,
                          \*   customer_id, operator_id
  opc, ord, snap, target, \* receiving thread: control, orders read, snap, id
  cu, key                 \* receiving thread: the MT4Customer*, its SSL*

regVars  == <<customers, ssl, conn>>
listVars == <<known, relations, raced>>
authVars == <<apc, todo, who, at>>
operVars == <<opc, ord, snap, target, cu, key>>
vars == <<up, regVars, listVars, authVars, operVars>>

List == [Cust -> Nat]
EmptyList == [c \in Cust |-> 0]
AuthPC == {"idle", "find", "append", "create", "size", "hung", "stuck"}
OperPC == {"idle", "lock", "snap", "loop", "load", "write", "remove"}

TypeOK ==
  /\ up \in BOOLEAN /\ raced \in BOOLEAN
  /\ customers \in [Cust -> Conn \cup {NoConn}]
  /\ ssl \in [Conn -> Conn]
  /\ conn \in [Conn -> {"new", "open", "gone", "closed"}]
  /\ known \in SUBSET Oper
  /\ relations \in [Oper -> List]
  /\ apc \in [Auth -> AuthPC]
  /\ todo \in [Auth -> SUBSET Oper]
  /\ who \in [Auth -> Cust]
  /\ at \in [Auth -> Oper]
  /\ opc \in [Oper -> OperPC]
  /\ ord \in [Oper -> 0..MaxOrder]
  /\ snap \in [Oper -> List]
  /\ target \in [Oper -> Cust]
  /\ cu \in [Oper -> Conn \cup {NoConn}]
  /\ key \in [Oper -> Conn \cup {NoConn}]
  /\ \A o \in Oper : opc[o] \in {"load", "write", "remove"} => cu[o] \in Conn

-----------------------------------------------------------------------------
(* The memory of a fresh process, and what is left when it dies: the       *)
(* kernel closes its sockets.  The parent forks a new child five seconds   *)
(* later.                                                                  *)

Each(S, v) == [x \in S |-> v]
Some(S) == CHOOSE x \in S : TRUE

Init ==
  /\ up = TRUE
  /\ customers = Each(Cust, NoConn) /\ ssl = [k \in Conn |-> k]
  /\ conn = Each(Conn, "new")
  /\ known = {} /\ relations = Each(Oper, EmptyList) /\ raced = FALSE
  /\ apc = Each(Auth, "idle") /\ todo = Each(Auth, {})
  /\ who = Each(Auth, Some(Cust)) /\ at = Each(Auth, Some(Oper))
  /\ opc = Each(Oper, "idle") /\ ord = Each(Oper, 0)
  /\ snap = Each(Oper, EmptyList) /\ target = Each(Oper, Some(Cust))
  /\ cu = Each(Oper, NoConn) /\ key = Each(Oper, NoConn)

Dies ==
  /\ up' = FALSE
  /\ customers' = Each(Cust, NoConn) /\ ssl' = [k \in Conn |-> k]
  /\ conn' = [k \in Conn |-> IF conn[k] = "new" THEN "new" ELSE "closed"]
  /\ known' = {} /\ relations' = Each(Oper, EmptyList) /\ raced' = FALSE
  /\ apc' = Each(Auth, "idle") /\ todo' = Each(Auth, {})
  /\ who' = Each(Auth, Some(Cust)) /\ at' = Each(Auth, Some(Oper))
  /\ opc' = Each(Oper, "idle") /\ UNCHANGED ord
  /\ snap' = Each(Oper, EmptyList) /\ target' = Each(Oper, Some(Cust))
  /\ cu' = Each(Oper, NoConn) /\ key' = Each(Oper, NoConn)

Restart ==
  /\ ~up /\ up' = TRUE
  /\ UNCHANGED <<regVars, listVars, authVars, operVars>>

(* The peer of an established connection leaves.                           *)
PeerLeaves(k) ==
  /\ conn[k] = "open" /\ conn' = [conn EXCEPT ![k] = "gone"]
  /\ UNCHANGED <<up, customers, ssl, listVars, authVars, operVars>>

Registered(c) == customers[c] # NoConn
Current(c) == ssl[customers[c]]
Live == {customers[c] : c \in Cust} \ {NoConn}

(* SSL_shutdown writes its alert to the socket; no thread ignores SIGPIPE, *)
(* so doing that to a connection whose peer has left may end the process.  *)
ShutdownKills(k) == conn[k] = "gone" /\ Dies

-----------------------------------------------------------------------------
(* An auth_check thread: add_customer, then one add_customer_to_operator   *)
(* per operator of the account.                                            *)

AuthReturns(w, c) ==
  /\ apc' = [apc EXCEPT ![w] = IF Follows[c] = {} THEN "idle" ELSE "find"]
  /\ todo' = [todo EXCEPT ![w] = Follows[c]]
  /\ who' = [who EXCEPT ![w] = c]
  /\ UNCHANGED <<at, operVars, listVars>>

AddNewCustomer(w, k) ==
  LET c == User[k] IN
  /\ up /\ apc[w] = "idle" /\ conn[k] = "new" /\ ~Registered(c)
  /\ customers' = [customers EXCEPT ![c] = k]
  /\ ssl' = [ssl EXCEPT ![k] = k]
  /\ conn' = [conn EXCEPT ![k] = "open"]
  /\ AuthReturns(w, c) /\ UNCHANGED up

(* Mutant: update forgets to close the connection it replaces.             *)
ReplacedLeaks(c, k) == [conn EXCEPT ![k] = "open"]
Replaced(c, k) == [conn EXCEPT ![Current(c)] = "closed", ![k] = "open"]

UpdateCustomer(w, k) ==
  LET c == User[k] IN
  /\ up /\ apc[w] = "idle" /\ conn[k] = "new" /\ Registered(c)
  /\ ssl' = [ssl EXCEPT ![customers[c]] = k]
  /\ conn' = Replaced(c, k)
  /\ AuthReturns(w, c) /\ UNCHANGED <<up, customers>>

UpdateKills(w, k) ==
  /\ up /\ apc[w] = "idle" /\ conn[k] = "new" /\ Registered(User[k])
  /\ ShutdownKills(Current(User[k]))

(* The threads inside a critical section of the list lock of o.  A "hung"  *)
(* thread walks a broken list and never returns the lock.                  *)
Sorters(o) == {w \in Auth : apc[w] \in {"append", "hung"} /\ at[w] = o}
ListFree(o) == Sorters(o) = {} /\ opc[o] # "snap"

(* Mutant: the loop over control_list does not advance.                    *)
RestStuck(w, o) == todo
Rest(w, o) == [todo EXCEPT ![w] = @ \ {o}]

AddFind(w) ==
  /\ up /\ apc[w] = "find"
  /\ \E o \in todo[w] :
       /\ \/ o \in known /\ ListFree(o) /\ apc' = [apc EXCEPT ![w] = "append"]
          \/ o \notin known /\ apc' = [apc EXCEPT ![w] = "create"]
       /\ at' = [at EXCEPT ![w] = o]
       /\ todo' = Rest(w, o)
  /\ UNCHANGED <<up, regVars, listVars, who, operVars>>

AddReturns(w) ==
  /\ apc' = [apc EXCEPT ![w] = IF todo[w] = {} THEN "idle" ELSE "find"]
  /\ UNCHANGED <<up, regVars, todo, who, at, operVars>>

(* Mutant: no unique.                                                      *)
DeduplicatedNot(l, c) == [l EXCEPT ![c] = @ + 1]

(* push_back, sort, unique: one copy of every customer that has any.       *)
Deduplicated(l, c) ==
  [d \in Cust |-> IF d = c \/ l[d] > 0 THEN 1 ELSE 0]

AddAppend(w) ==
  LET o == at[w] IN
  /\ up /\ apc[w] = "append"
  /\ relations' = [relations EXCEPT ![o] = Deduplicated(@, who[w])]
  /\ AddReturns(w) /\ UNCHANGED <<known, raced>>

(* Mutant: the new list replaces the one another thread has just made.     *)
PushedOnNew(l, c) == [EmptyList EXCEPT ![c] = 1]
Pushed(l, c) == [l EXCEPT ![c] = @ + 1]

(* The else branch holds relations_lock and not the list lock.  The entry  *)
(* may exist by now: then both inserts do nothing, and the push_back meets *)
(* whoever is inside the list.  A reader copes with it (a list node is     *)
(* linked in last); a thread that sorts may lose the entry, follow a wrong *)
(* link for ever or die.  The size of the list is printed afterwards.      *)
Printing(w) == [apc EXCEPT ![w] = "size"]

AddCreate(w) ==
  LET o == at[w] IN
  /\ up /\ apc[w] = "create"
  /\ relations' = [relations EXCEPT ![o] = Pushed(@, who[w])]
  /\ known' = known \cup {o}
  /\ raced' = (raced \/ Sorters(o) # {})
  /\ apc' = Printing(w)
  /\ UNCHANGED <<up, regVars, todo, who, at, operVars>>

AddCreateLost(w) ==
  /\ up /\ apc[w] = "create" /\ Sorters(at[w]) # {}
  /\ raced' = TRUE
  /\ apc' = Printing(w)
  /\ UNCHANGED <<up, regVars, known, relations, todo, who, at, operVars>>

AddCreateHangs(w) ==
  /\ up /\ apc[w] = "create"
  /\ \E v \in Sorters(at[w]) : apc' = [Printing(w) EXCEPT ![v] = "hung"]
  /\ raced' = TRUE
  /\ UNCHANGED <<up, regVars, known, relations, todo, who, at, operVars>>

AddCreateDies(w) == up /\ apc[w] = "create" /\ Sorters(at[w]) # {} /\ Dies

(* relations[operator_id]->size() holds no lock: it walks the map, which   *)
(* another thread may be inserting into, and the list, which another may   *)
(* be sorting or pushing on.  It may follow a wrong link for ever, with no *)
(* lock in its hands, or die.                                              *)
Meddlers(w) ==
  {v \in Auth \ {w} :
     \/ apc[v] \in {"append", "hung", "create"} /\ at[v] = at[w]
     \/ apc[v] = "create" /\ at[v] \notin known}

AddSize(w) ==
  /\ up /\ apc[w] = "size"
  /\ AddReturns(w) /\ UNCHANGED listVars

AddSizeStuck(w) ==
  /\ up /\ apc[w] = "size" /\ Meddlers(w) # {}
  /\ apc' = [apc EXCEPT ![w] = "stuck"]
  /\ UNCHANGED <<up, regVars, listVars, todo, who, at, operVars>>

AddSizeDies(w) == up /\ apc[w] = "size" /\ Meddlers(w) # {} /\ Dies

-----------------------------------------------------------------------------
(* The receiving thread of operator o: send_order_to_customers.            *)

Others == <<up, listVars, authVars>>

(* An order from an operator without an entry is dropped.                  *)
ReceiveOrder(o) ==
  /\ up /\ opc[o] = "idle" /\ ord[o] < MaxOrder
  /\ ord' = [ord EXCEPT ![o] = @ + 1]
  /\ \/ o \notin known /\ UNCHANGED opc
     \/ o \in known /\ opc' = [opc EXCEPT ![o] = "lock"]
  /\ UNCHANGED <<Others, regVars, snap, target, cu, key>>

LockList(o) ==
  /\ up /\ opc[o] = "lock" /\ Sorters(o) = {}
  /\ opc' = [opc EXCEPT ![o] = "snap"]
  /\ UNCHANGED <<Others, regVars, ord, snap, target, cu, key>>

TakeSnapshot(o) ==
  /\ up /\ opc[o] = "snap"
  /\ snap' = [snap EXCEPT ![o] = relations[o]]
  /\ opc' = [opc EXCEPT ![o] = "loop"]
  /\ UNCHANGED <<Others, regVars, ord, target, cu, key>>

(* Mutants: one element past the end; lower_bound instead of find; nt++    *)
(* forgotten.                                                              *)
InSnapshotOrEnd(o) == {c \in Cust : snap[o][c] >= 0}
ChannelAtLeast(c) ==
  IF Registered(c) \/ Live = {} THEN customers[c] ELSE CHOOSE x \in Live : TRUE
AdvanceNot(o, c) == snap

InSnapshot(o) == {c \in Cust : snap[o][c] > 0}
Advance(o, c) == [snap EXCEPT ![o][c] = @ - 1]
Channel(c) == customers[c]

(* The next entry of the snapshot; find_customer_channel.                  *)
FindChannel(o) ==
  /\ up /\ opc[o] = "loop"
  /\ \E c \in InSnapshot(o) :
       /\ snap' = Advance(o, c)
       /\ target' = [target EXCEPT ![o] = c]
       /\ cu' = [cu EXCEPT ![o] = Channel(c)]
       /\ opc' = [opc EXCEPT ![o] =
                    IF Channel(c) = NoConn THEN "loop" ELSE "load"]
  /\ UNCHANGED <<Others, regVars, ord, key>>

EndFanOut(o) ==
  /\ up /\ opc[o] = "loop" /\ InSnapshot(o) = {}
  /\ opc' = [opc EXCEPT ![o] = "idle"]
  /\ UNCHANGED <<Others, regVars, ord, snap, target, cu, key>>

(* cu->ssl.  When another operator's thread has removed the customer, cu   *)
(* dangles: the field may still read as it was, belong to an object made   *)
(* since in the same memory, or fault.                                     *)
LoadKey(o) ==
  /\ up /\ opc[o] = "load"
  /\ \E x \in IF cu[o] \in Live THEN {cu[o]} ELSE {cu[o]} \cup Live :
       key' = [key EXCEPT ![o] = ssl[x]]
  /\ opc' = [opc EXCEPT ![o] = "write"]
  /\ UNCHANGED <<Others, regVars, ord, snap, target, cu>>

LoadDies(o) == up /\ opc[o] = "load" /\ cu[o] \notin Live /\ Dies

(* SSL_write of the whole order: the loop goes on.  It succeeds as well,   *)
(* with nothing received, when the peer has left but no reset has come     *)
(* back, and it may when the SSL object has been freed in the meantime.    *)
WriteOrder(o) ==
  /\ up /\ opc[o] = "write"
  /\ opc' = [opc EXCEPT ![o] = "loop"]
  /\ UNCHANGED <<Others, regVars, ord, snap, target, cu, key>>

(* A full send buffer of the non-blocking socket, a reset connection or a  *)
(* freed SSL object.                                                       *)
WriteFails(o) ==
  /\ up /\ opc[o] = "write"
  /\ opc' = [opc EXCEPT ![o] = "remove"]
  /\ UNCHANGED <<Others, regVars, ord, snap, target, cu, key>>

(* SIGPIPE, a freed SSL object, or one SSL object used by two threads.     *)
WriteDies(o) ==
  /\ up /\ opc[o] = "write"
  /\ \/ conn[key[o]] \in {"gone", "closed"}
     \/ \E p \in Oper \ {o} : opc[p] = "write" /\ key[p] = key[o]
  /\ Dies

(* remove_customer: whatever object the customer has by now is deleted.   *)
RemoveCustomer(o) ==
  LET c == target[o] IN
  /\ up /\ opc[o] = "remove"
  /\ IF Registered(c)
     THEN /\ conn' = [conn EXCEPT ![Current(c)] = "closed"]
          /\ customers' = [customers EXCEPT ![c] = NoConn]
     ELSE UNCHANGED <<conn, customers>>
  /\ opc' = [opc EXCEPT ![o] = "loop"]
  /\ UNCHANGED <<Others, ssl, ord, snap, target, cu, key>>

RemoveDies(o) ==
  /\ up /\ opc[o] = "remove" /\ Registered(target[o])
  /\ ShutdownKills(Current(target[o]))

-----------------------------------------------------------------------------

Adding(w) ==
  \/ AddFind(w) \/ AddAppend(w)
  \/ AddCreate(w) \/ AddCreateLost(w) \/ AddCreateHangs(w) \/ AddCreateDies(w)
  \/ AddSize(w) \/ AddSizeStuck(w) \/ AddSizeDies(w)

Sending(o) ==
  \/ LockList(o) \/ TakeSnapshot(o) \/ FindChannel(o) \/ EndFanOut(o)
  \/ LoadKey(o) \/ LoadDies(o)
  \/ WriteOrder(o) \/ WriteFails(o) \/ WriteDies(o)
  \/ RemoveCustomer(o) \/ RemoveDies(o)

Next ==
  \/ \E w \in Auth :
       \/ Adding(w)
       \/ \E k \in Conn :
            AddNewCustomer(w, k) \/ UpdateCustomer(w, k) \/ UpdateKills(w, k)
  \/ \E o \in Oper : ReceiveOrder(o) \/ Sending(o)
  \/ \E k \in Conn : PeerLeaves(k)
  \/ Restart

(* Threads that are in the middle of a call go on, and the parent restarts *)
(* its child.  Nobody has to log in, send an order or leave.               *)
Fairness ==
  /\ WF_vars(Restart)
  /\ \A w \in Auth : WF_vars(Adding(w))
  /\ \A o \in Oper : WF_vars(Sending(o))

Spec == Init /\ [][Next]_vars
FairSpec == Spec /\ Fairness

-----------------------------------------------------------------------------
(* What should hold.                                                       *)

(* An operator that has a list has a customer on it: the message "BIG      *)
(* ERROR OF THE CUSTOMER QUEUE" of send_order_to_customers never shows,    *)
(* even when two threads create the list of one operator at once.          *)
CustomerQueueNeverEmpty ==
  \A o \in known : \E c \in Cust : relations[o][c] > 0

(* Customers of one operator that log in at once may each find no list, so *)
(* one customer logging in twice can be on it twice and gets every order   *)
(* twice.  It is never there more often than there are auth_check threads. *)
CopiesBounded ==
  \A o \in Oper, c \in Cust :
    relations[o][c] <= Cardinality(Auth) /\ snap[o][c] <= Cardinality(Auth)

(* add_customer, update and remove_customer neither leak a connection nor  *)
(* close one that is in use: a customer is in the map exactly while one    *)
(* connection of his own, the last he logged in on, is open.               *)
ConnAccounting ==
  /\ \A c \in Cust : Registered(c) => User[Current(c)] = c
  /\ \A k \in Conn : conn[k] \in {"open", "gone"}
       <=> Registered(User[k]) /\ Current(User[k]) = k

(* The map of customers is a table of sessions: a login closes the last    *)
(* connection of the customer in the step that puts the new one in its     *)
(* place, and no other; no connection comes back (add_customer, update,    *)
(* remove_customer).                                                       *)
Sessions == INSTANCE UserSessions WITH
  Login <- User,
  sessions <- {k \in Conn : conn[k] \in {"open", "gone"}},
  over <- {k \in Conn : conn[k] = "closed"}

LoginsReplace == Sessions!OwnSpec

(* An order goes to a customer who follows its operator, on a connection   *)
(* of that customer, as long as the object it was looked up in exists.     *)
Isolation ==
  \A o \in Oper :
    /\ opc[o] \in {"load", "write", "remove"} => o \in Follows[target[o]]
    /\ opc[o] = "write" /\ cu[o] \in Live => User[key[o]] = target[o]

(* A customer whose logins have all returned is on the list of every       *)
(* operator he follows, whatever logins of others ran at the same time,    *)
(* unless a push_back without the list lock met a thread that was sorting. *)
RegisteredIsListed ==
  \A c \in Cust, o \in Oper :
    /\ ~raced /\ Registered(c) /\ o \in Follows[c]
    /\ \A w \in Auth : apc[w] # "idle" => who[w] # c
    => relations[o][c] > 0

(* "Can not Send out Order successfully  remove it": what remove_customer  *)
(* is about to delete is the connection the order could not be sent on.    *)
RemovesWhatFailed ==
  \A o \in Oper :
    opc[o] = "remove" /\ Registered(target[o])
      => Current(target[o]) = key[o]

Hung == \E v \in Auth : apc[v] = "hung"

(* A login returns and a fan-out comes to its end, whoever logs in or      *)
(* leaves meanwhile and though the process may die and restart, unless a   *)
(* thread hangs in a list it has seen torn: one that hangs inside the lock *)
(* keeps everybody else out of the list, senders too.                      *)
LoginCompletes ==
  \A w \in Auth : apc[w] \in {"find", "append", "create", "size"}
    ~> (apc[w] \in {"idle", "stuck"} \/ Hung)

(* The same of a fan-out (send_order_to_customers).                        *)
FanOutCompletes ==
  \A o \in Oper : (opc[o] # "idle") ~> (opc[o] = "idle" \/ Hung)

=============================================================================
