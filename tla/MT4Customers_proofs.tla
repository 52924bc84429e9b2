------------------------ MODULE MT4Customers_proofs -------------------------
(***************************************************************************)
(* Safety of the customer registry for any number of customers, operators, *)
(* auth_check threads, connections and orders.                             *)
(***************************************************************************)
EXTENDS MT4Customers, FiniteSetTheorems, TLAPS

USE DEF vars, regVars, listVars, authVars, operVars, Others

-----------------------------------------------------------------------------
(* Which variables a thread of each kind can change.                       *)

LEMMA SendingTouches ==
  ASSUME NEW o \in Oper, ReceiveOrder(o) \/ Sending(o)
  PROVE  Dies \/ UNCHANGED <<up, listVars, authVars>>
BY DEF ReceiveOrder, Sending, LockList, TakeSnapshot, FindChannel, EndFanOut, LoadKey,
       LoadDies, WriteOrder, WriteFails, WriteDies, RemoveCustomer,
       RemoveDies, ShutdownKills

LEMMA AddingTouches ==
  ASSUME NEW w \in Auth, Adding(w)
  PROVE  Dies \/ UNCHANGED <<up, regVars, operVars>>
BY DEF Adding, AddFind, AddAppend, AddCreate, AddCreateLost, AddCreateHangs,
       AddCreateDies, AddSize, AddSizeStuck, AddSizeDies, AddReturns, Printing

-----------------------------------------------------------------------------
(* Type correctness.                                                       *)

LEMMA EmptyListType == EmptyList \in List
BY DEF EmptyList, List

LEMMA SomeType == Some(Cust) \in Cust /\ Some(Oper) \in Oper
BY CustomersAssumption DEF Some

LEMMA TypeInit == Init => TypeOK
<1> SUFFICES ASSUME Init PROVE TypeOK
  OBVIOUS
<1>1. 0 \in 0..MaxOrder
  BY CustomersAssumption
<1>2. ord \in [Oper -> 0..MaxOrder]
  BY <1>1 DEF Init, Each
<1> QED
  BY <1>2, CustomersAssumption, EmptyListType, SomeType
     DEF Init, TypeOK, Each, AuthPC, OperPC

LEMMA TypeDies == ASSUME TypeOK, Dies PROVE TypeOK'
BY CustomersAssumption, EmptyListType, SomeType
   DEF Dies, TypeOK, Each, AuthPC, OperPC

LEMMA TypeAdding ==
  ASSUME TypeOK, NEW w \in Auth, Adding(w)
  PROVE  TypeOK'
<1> USE DEF TypeOK
<1>1. CASE AddFind(w)
  BY <1>1 DEF AddFind, Rest, AuthPC
<1>2. CASE AddAppend(w)
  <2>1. Deduplicated(relations[at[w]], who[w]) \in List
    BY DEF Deduplicated, List
  <2> QED BY <1>2, <2>1 DEF AddAppend, AddReturns, AuthPC
<1>3. CASE AddCreate(w)
  <2>1. Pushed(relations[at[w]], who[w]) \in List
    BY DEF Pushed, List
  <2> QED BY <1>3, <2>1 DEF AddCreate, Printing, AuthPC
<1>4. CASE AddCreateLost(w)
  BY <1>4 DEF AddCreateLost, Printing, AuthPC
<1>5. CASE AddCreateHangs(w)
  BY <1>5 DEF AddCreateHangs, Sorters, Printing, AuthPC
<1>6. CASE AddCreateDies(w) \/ AddSizeDies(w)
  BY <1>6, TypeDies DEF AddCreateDies, AddSizeDies
<1>7. CASE AddSize(w) \/ AddSizeStuck(w)
  BY <1>7 DEF AddSize, AddSizeStuck, AddReturns, AuthPC
<1> QED BY <1>1, <1>2, <1>3, <1>4, <1>5, <1>6, <1>7 DEF Adding

LEMMA TypeLogin ==
  ASSUME TypeOK, NEW w \in Auth, NEW k \in Conn,
         AddNewCustomer(w, k) \/ UpdateCustomer(w, k) \/ UpdateKills(w, k)
  PROVE  TypeOK'
<1> USE CustomersAssumption DEF TypeOK
<1>1. CASE AddNewCustomer(w, k)
  BY <1>1 DEF AddNewCustomer, AuthReturns, AuthPC
<1>2. CASE UpdateCustomer(w, k)
  <2>1. User[k] \in Cust /\ customers[User[k]] \in Conn
    BY <1>2 DEF UpdateCustomer, Registered
  <2>2. Replaced(User[k], k) \in [Conn -> {"new", "open", "gone", "closed"}]
    BY DEF Replaced
  <2>3. ssl' \in [Conn -> Conn] /\ conn' \in [Conn -> {"new", "open", "gone", "closed"}]
    BY <1>2, <2>1, <2>2 DEF UpdateCustomer
  <2> HIDE DEF Replaced
  <2> QED BY <1>2, <2>3 DEF UpdateCustomer, AuthReturns, AuthPC
<1>3. CASE UpdateKills(w, k)
  BY <1>3, TypeDies DEF UpdateKills, ShutdownKills
<1> QED BY <1>1, <1>2, <1>3

LEMMA TypeSending ==
  ASSUME TypeOK, NEW o \in Oper, ReceiveOrder(o) \/ Sending(o)
  PROVE  TypeOK'
<1> USE DEF TypeOK
<1>1. CASE ReceiveOrder(o)
  <2>1. ord' \in [Oper -> 0..MaxOrder]
    BY <1>1, CustomersAssumption DEF ReceiveOrder
  <2>2. opc' \in [Oper -> OperPC] /\ opc'[o] # "load"
        /\ \A p \in Oper : opc'[p] = "load" => opc[p] = "load"
    BY <1>1 DEF ReceiveOrder, OperPC
  <2> QED BY <1>1, <2>1, <2>2 DEF ReceiveOrder
<1>2. CASE TakeSnapshot(o)
  BY <1>2 DEF TakeSnapshot, OperPC
<1>3. CASE FindChannel(o)
  <2>1. PICK c \in InSnapshot(o) :
          /\ snap' = Advance(o, c)
          /\ target' = [target EXCEPT ![o] = c]
          /\ cu' = [cu EXCEPT ![o] = Channel(c)]
          /\ opc' = [opc EXCEPT ![o] =
                       IF Channel(c) = NoConn THEN "loop" ELSE "load"]
    BY <1>3 DEF FindChannel
  <2>2. c \in Cust /\ snap[o][c] > 0
    BY <2>1 DEF InSnapshot
  <2>3. [snap[o] EXCEPT ![c] = @ - 1] \in List
    BY <2>2 DEF List
  <2>4. snap' \in [Oper -> List]
    BY <2>1, <2>3 DEF Advance
  <2> QED BY <1>3, <2>1, <2>2, <2>4 DEF FindChannel, Channel, OperPC
<1>4. CASE LockList(o) \/ EndFanOut(o) \/ WriteOrder(o) \/ WriteFails(o)
  BY <1>4 DEF LockList, EndFanOut, WriteOrder, WriteFails, OperPC
<1>5. CASE LoadKey(o)
  <2>1. PICK x \in {cu[o]} \cup Live : key' = [key EXCEPT ![o] = ssl[x]]
    BY <1>5 DEF LoadKey
  <2> QED BY <1>5, <2>1 DEF LoadKey, OperPC, Live
<1>6. CASE RemoveCustomer(o)
  BY <1>6 DEF RemoveCustomer, OperPC
<1>7. CASE Dies
  BY <1>7, TypeDies
<1> QED BY <1>1, <1>2, <1>3, <1>4, <1>5, <1>6, <1>7
        DEF Sending, LoadDies, WriteDies, RemoveDies, ShutdownKills

LEMMA TypeNext == TypeOK /\ [Next]_vars => TypeOK'
<1> SUFFICES ASSUME TypeOK, [Next]_vars PROVE TypeOK'
  OBVIOUS
<1>1. CASE UNCHANGED vars
  BY <1>1 DEF TypeOK
<1>2. ASSUME NEW k \in Conn, PeerLeaves(k) PROVE TypeOK'
  BY <1>2 DEF PeerLeaves, TypeOK
<1>3. CASE Restart
  BY <1>3 DEF Restart, TypeOK
<1> QED BY <1>1, <1>2, <1>3, TypeAdding, TypeLogin, TypeSending DEF Next

(* Every variable keeps its type, and send_order is called, and fails, on  *)
(* a pointer find_customer_channel has returned, never on NULL.            *)
THEOREM TypeCorrect == Spec => []TypeOK
BY TypeInit, TypeNext, PTL DEF Spec

(* The cases of a step: one per kind of thread, the death of the process,  *)
(* and the actions that only touch conn or up.                             *)
LEMMA StepCases ==
  ASSUME [Next]_vars
  PROVE  \/ Dies
         \/ \E w \in Auth, k \in Conn :
              AddNewCustomer(w, k) \/ UpdateCustomer(w, k)
         \/ \E w \in Auth : Adding(w) /\ ~Dies
         \/ \E o \in Oper : (ReceiveOrder(o) \/ Sending(o)) /\ ~Dies
         \/ \E k \in Conn : PeerLeaves(k)
         \/ Restart \/ UNCHANGED vars
BY DEF Next, UpdateKills, ShutdownKills

-----------------------------------------------------------------------------
(* Connections.  Beside the accounting itself: an object keeps the user it *)
(* was made for, and is never made from a connection that was in use.      *)

Objects ==
  /\ \A x \in Conn : User[ssl[x]] = User[x]
  /\ \A c \in Cust : Registered(c) => User[customers[c]] = c
  /\ \A c \in Cust : Registered(c) => conn[customers[c]] # "new"
  /\ ConnAccounting

LEMMA ObjectsInit == Init => Objects
BY CustomersAssumption
   DEF Init, Objects, ConnAccounting, Registered, Current, Each

LEMMA ObjectsDies == Dies => Objects'
BY CustomersAssumption
   DEF Dies, Objects, ConnAccounting, Registered, Current, Each

LEMMA ObjectsLogin ==
  ASSUME TypeOK, Objects, NEW w \in Auth, NEW k \in Conn,
         AddNewCustomer(w, k) \/ UpdateCustomer(w, k)
  PROVE  Objects'
<1> USE CustomersAssumption
    DEF TypeOK, Objects, ConnAccounting, Registered, Current
<1>0. User[k] \in Cust
  OBVIOUS
<1>1. CASE AddNewCustomer(w, k)
  <2>1. /\ ~Registered(User[k]) /\ conn[k] = "new"
        /\ customers' = [customers EXCEPT ![User[k]] = k]
        /\ ssl' = [ssl EXCEPT ![k] = k]
        /\ conn' = [conn EXCEPT ![k] = "open"]
    BY <1>1 DEF AddNewCustomer
  <2>2. \A d \in Cust : d # User[k] /\ Registered(d) => customers[d] # k
    OBVIOUS
  <2>3. \A d \in Cust : d # User[k] =>
          /\ customers'[d] = customers[d]
          /\ Registered(d) => Current(d)' = Current(d)
    BY <2>1, <2>2
  <2>4. Registered(User[k])' /\ Current(User[k])' = k
    BY <2>1, <1>0
  <2> QED BY <2>1, <2>2, <2>3, <2>4, <1>0
<1>2. CASE UpdateCustomer(w, k)
  <2> DEFINE x == customers[User[k]]
  <2>1. /\ Registered(User[k]) /\ conn[k] = "new"
        /\ customers' = customers
        /\ ssl' = [ssl EXCEPT ![x] = k]
        /\ conn' = [conn EXCEPT ![ssl[x]] = "closed", ![k] = "open"]
    BY <1>2 DEF UpdateCustomer, Replaced
  <2>2. x \in Conn /\ ssl[x] \in Conn /\ ssl[x] # k
    BY <2>1, <1>0
  <2>3. \A d \in Cust : d # User[k] /\ Registered(d) =>
          customers[d] # x /\ Current(d)' = Current(d)
    BY <2>1, <2>2
  <2>4. Registered(User[k])' /\ Current(User[k])' = k
    BY <2>1, <2>2, <1>0
  <2>5. /\ conn'[k] = "open" /\ conn'[ssl[x]] = "closed"
        /\ \A j \in Conn \ {k, ssl[x]} : conn'[j] = conn[j]
    BY <2>1, <2>2
  <2>6. \A j \in Conn : User[ssl'[j]] = User[j]
    BY <2>1, <2>2
  <2>7. \A c \in Cust : Registered(c)' =>
          User[customers'[c]] = c /\ conn'[customers'[c]] # "new"
    BY <2>1, <2>5
  <2>8. \A c \in Cust : Registered(c)' => User[Current(c)'] = c
    BY <2>3, <2>4, <2>1, <1>0
  <2>9. ASSUME NEW j \in Conn
        PROVE  conn'[j] \in {"open", "gone"}
                 <=> Registered(User[j])' /\ Current(User[j])' = j
    <3>1. CASE User[j] = User[k]
      <4>1. conn[j] \in {"open", "gone"} <=> j = ssl[x]
        BY <3>1, <2>1
      <4> QED BY <4>1, <2>4, <2>5, <2>2, <3>1
    <3>2. CASE User[j] # User[k]
      <4>1. j # k /\ j # ssl[x]
        BY <3>2, <2>2, <2>1
      <4>2. conn'[j] = conn[j] /\ User[j] \in Cust
        BY <4>1, <2>5
      <4> QED BY <4>2, <2>3, <2>1, <3>2
    <3> QED BY <3>1, <3>2
  <2> QED BY <2>6, <2>7, <2>8, <2>9
<1> QED BY <1>1, <1>2

LEMMA ObjectsSending ==
  ASSUME TypeOK, Objects, NEW o \in Oper, ReceiveOrder(o) \/ Sending(o), ~Dies
  PROVE  Objects'
<1> USE DEF TypeOK, Objects, ConnAccounting, Registered, Current
<1>1. CASE UNCHANGED regVars
  BY <1>1
<1>2. CASE RemoveCustomer(o)
  <2> DEFINE c == target[o]
  <2>1. CASE ~Registered(c)
    BY <1>2, <2>1 DEF RemoveCustomer
  <2>2. CASE Registered(c)
    <3>1. /\ conn' = [conn EXCEPT ![Current(c)] = "closed"]
          /\ customers' = [customers EXCEPT ![c] = NoConn] /\ ssl' = ssl
      BY <1>2, <2>2 DEF RemoveCustomer
    <3>2. c \in Cust /\ Current(c) \in Conn /\ User[Current(c)] = c
      BY <2>2
    <3>3. \A d \in Cust : d # c /\ Registered(d) => Current(d) # Current(c)
      BY <2>2, <3>2
    <3>4. \A d \in Cust : Registered(d)' <=> d # c /\ Registered(d)
      BY <3>1, <3>2
    <3>5. \A d \in Cust : d # c => customers'[d] = customers[d]
      BY <3>1
    <3>6. ASSUME NEW j \in Conn
          PROVE  conn'[j] \in {"open", "gone"}
                   <=> Registered(User[j])' /\ Current(User[j])' = j
      <4>1. User[j] \in Cust
        BY CustomersAssumption
      <4>2. CASE j = Current(c)
        BY <4>2, <3>1, <3>2, <3>4, <2>2
      <4>3. CASE j # Current(c)
        <5>1. conn'[j] = conn[j]
          BY <4>3, <3>1, <3>2
        <5>2. CASE User[j] = c
          BY <5>1, <5>2, <4>3, <3>4
        <5>3. CASE User[j] # c
          <6>1. customers'[User[j]] = customers[User[j]] /\ ssl' = ssl
            BY <5>3, <4>1, <3>1, <3>5
          <6> QED BY <6>1, <5>1, <5>3, <4>1, <3>4
        <5> QED BY <5>2, <5>3
      <4> QED BY <4>2, <4>3
    <3> QED BY <3>1, <3>2, <3>3, <3>4, <3>5, <3>6
  <2> QED BY <2>1, <2>2
<1> QED BY <1>1, <1>2 DEF ReceiveOrder, Sending, LockList, TakeSnapshot, FindChannel,
        EndFanOut, LoadKey, LoadDies, WriteOrder, WriteFails, WriteDies,
        RemoveDies, ShutdownKills

LEMMA ObjectsNext == TypeOK /\ Objects /\ [Next]_vars => Objects'
<1> SUFFICES ASSUME TypeOK, Objects, [Next]_vars PROVE Objects'
  OBVIOUS
<1>1. ASSUME NEW w \in Auth, Adding(w), ~Dies PROVE Objects'
  <2>1. UNCHANGED regVars
    BY <1>1, AddingTouches
  <2> QED BY <2>1 DEF Objects, ConnAccounting, Registered, Current
<1>2. ASSUME NEW k \in Conn, PeerLeaves(k) PROVE Objects'
  <2>1. /\ customers' = customers /\ ssl' = ssl
        /\ conn' = [conn EXCEPT ![k] = "gone"] /\ conn[k] = "open"
    BY <1>2 DEF PeerLeaves
  <2>2. \A j \in Conn : /\ conn'[j] = "new" <=> conn[j] = "new"
                        /\ conn'[j] \in {"open", "gone"}
                             <=> conn[j] \in {"open", "gone"}
    BY <2>1 DEF TypeOK
  <2>3. \A c \in Cust : Registered(c) => customers[c] \in Conn
    BY DEF TypeOK, Registered
  <2> QED BY <2>1, <2>2, <2>3 DEF Objects, ConnAccounting, Registered, Current
<1>3. CASE Restart \/ UNCHANGED vars
  BY <1>3 DEF Restart, Objects, ConnAccounting, Registered, Current
<1> QED BY <1>1, <1>2, <1>3, ObjectsDies, ObjectsLogin, ObjectsSending, StepCases

(* However logins, removals and the death of the process interleave, a     *)
(* connection is closed exactly when it has been replaced or removed, and  *)
(* a customer is in the map exactly while one of his connections is open.  *)
THEOREM AccountingHolds == Spec => []ConnAccounting
<1>1. Objects => ConnAccounting
  BY DEF Objects
<1> QED BY <1>1, TypeCorrect, ObjectsInit, ObjectsNext, PTL DEF Spec

-----------------------------------------------------------------------------
(* Lists.  Every entry, whether in a list, in a snapshot or still on its   *)
(* way there in a thread, says that a customer follows an operator; an     *)
(* operator without an entry in the map has no list.                       *)

Lists ==
  /\ \A o \in Oper, c \in Cust : relations[o][c] > 0 => o \in Follows[c]
  /\ \A o \in Oper : o \notin known => relations[o] = EmptyList
  /\ \A w \in Auth : todo[w] \subseteq Follows[who[w]]
  /\ \A w \in Auth :
       apc[w] \in {"append", "create"} => at[w] \in Follows[who[w]]
  /\ \A w \in Auth : apc[w] = "append" => at[w] \in known
  /\ CustomerQueueNeverEmpty

LEMMA ListsInit == Init => Lists
BY CustomersAssumption
   DEF Init, Lists, CustomerQueueNeverEmpty, Each, EmptyList

LEMMA ListsDies == Dies => Lists'
BY CustomersAssumption
   DEF Dies, Lists, CustomerQueueNeverEmpty, Each, EmptyList

LEMMA ListsAdding ==
  ASSUME TypeOK, Lists, NEW w \in Auth, Adding(w), ~Dies
  PROVE  Lists'
<1> USE DEF TypeOK, Lists, CustomerQueueNeverEmpty
<1> DEFINE o == at[w]
           c == who[w]
<1>1. CASE AddFind(w)
  <2>1. PICK p \in todo[w] :
          /\ \/ p \in known /\ apc' = [apc EXCEPT ![w] = "append"]
             \/ apc' = [apc EXCEPT ![w] = "create"]
          /\ at' = [at EXCEPT ![w] = p]
          /\ todo' = [todo EXCEPT ![w] = @ \ {p}]
    BY <1>1 DEF AddFind, Rest
  <2>2. UNCHANGED <<known, relations, who>>
    BY <1>1 DEF AddFind
  <2>3. p \in Oper /\ p \in Follows[who[w]]
    BY <2>1
  <2>4. \A v \in Auth : todo'[v] \subseteq Follows[who'[v]]
    BY <2>1, <2>2
  <2>5. \A v \in Auth : apc'[v] \in {"append", "create"}
          => at'[v] \in Follows[who'[v]]
    BY <2>1, <2>2, <2>3
  <2>6. \A v \in Auth : apc'[v] = "append" => at'[v] \in known'
    BY <2>1, <2>2
  <2> QED BY <2>2, <2>4, <2>5, <2>6
<1>2. CASE AddAppend(w)
  <2>1. /\ relations' = [relations EXCEPT ![o] = Deduplicated(relations[o], c)]
        /\ UNCHANGED <<known, todo, who, at>>
        /\ apc' = [apc EXCEPT ![w] = IF todo[w] = {} THEN "idle" ELSE "find"]
    BY <1>2 DEF AddAppend, AddReturns
  <2>2. \A d \in Cust : relations'[o][d] > 0 <=> d = c \/ relations[o][d] > 0
    BY <2>1 DEF Deduplicated, List
  <2>3. o \in Follows[c] /\ c \in Cust /\ o \in Oper
    BY <1>2 DEF AddAppend
  <2>4. \A p \in Oper : p # o => relations'[p] = relations[p]
    BY <2>1
  <2>5. o \in known
    BY <1>2 DEF AddAppend
  <2>6. \A p \in Oper, d \in Cust : relations'[p][d] > 0 => p \in Follows[d]
    BY <2>2, <2>3, <2>4
  <2>7. \A p \in Oper : p \notin known' => relations'[p] = EmptyList
    BY <2>1, <2>4, <2>5
  <2>8. \A p \in known' : \E d \in Cust : relations'[p][d] > 0
    BY <2>1, <2>2, <2>3, <2>4
  <2>9. \A v \in Auth : apc'[v] \in {"append", "create"} => apc'[v] = apc[v]
    BY <2>1
  <2> QED BY <2>1, <2>6, <2>7, <2>8, <2>9
<1>3. CASE AddCreate(w)
  <2>1. /\ relations' = [relations EXCEPT ![o] = Pushed(relations[o], c)]
        /\ known' = known \cup {o} /\ UNCHANGED <<todo, who, at>>
        /\ apc' = [apc EXCEPT ![w] = "size"]
    BY <1>3 DEF AddCreate, Printing
  <2>2. o \in Follows[c] /\ c \in Cust /\ o \in Oper
    BY <1>3 DEF AddCreate
  <2>3. \A d \in Cust : relations'[o][d] > 0 <=> d = c \/ relations[o][d] > 0
    BY <2>1, <2>2 DEF Pushed, List
  <2>4. \A p \in Oper : p # o => relations'[p] = relations[p]
    BY <2>1
  <2> QED BY <2>1, <2>2, <2>3, <2>4
<1>4. CASE AddCreateLost(w)
  BY <1>4 DEF AddCreateLost, Printing
<1>5. CASE AddCreateHangs(w)
  <2>1. PICK v \in Sorters(at[w]) :
          apc' = [apc EXCEPT ![w] = "size", ![v] = "hung"]
    BY <1>5 DEF AddCreateHangs, Printing
  <2>2. UNCHANGED <<known, relations, todo, who, at>>
    BY <1>5 DEF AddCreateHangs
  <2> QED BY <2>1, <2>2 DEF Sorters
<1>6. CASE AddSize(w) \/ AddSizeStuck(w)
  BY <1>6 DEF AddSize, AddSizeStuck, AddReturns
<1> QED BY <1>1, <1>2, <1>3, <1>4, <1>5, <1>6 DEF Adding, AddCreateDies, AddSizeDies

LEMMA ListsNext == TypeOK /\ Lists /\ [Next]_vars => Lists'
<1> SUFFICES ASSUME TypeOK, Lists, [Next]_vars PROVE Lists'
  OBVIOUS
<1>1. ASSUME NEW w \in Auth, NEW k \in Conn,
             AddNewCustomer(w, k) \/ UpdateCustomer(w, k)
      PROVE  Lists'
  <2>1. User[k] \in Cust /\ AuthReturns(w, User[k])
    BY <1>1, CustomersAssumption DEF AddNewCustomer, UpdateCustomer
  <2> QED BY <2>1, CustomersAssumption
          DEF AuthReturns, TypeOK, Lists, CustomerQueueNeverEmpty
<1>2. CASE UNCHANGED <<listVars, authVars>>
  BY <1>2 DEF Lists, CustomerQueueNeverEmpty
<1> QED BY <1>1, <1>2, ListsDies, ListsAdding, SendingTouches, StepCases
        DEF PeerLeaves, Restart

(* An operator that has a list always has a customer on it, so the error   *)
(* message of send_order_to_customers is never printed.                    *)
THEOREM QueueNeverEmpty == Spec => []CustomerQueueNeverEmpty
<1>1. Lists => CustomerQueueNeverEmpty
  BY DEF Lists
<1> QED BY <1>1, TypeCorrect, ListsInit, ListsNext, PTL DEF Spec

LEMMA ListsHold == Spec => []Lists
BY TypeCorrect, ListsInit, ListsNext, PTL DEF Spec

-----------------------------------------------------------------------------
(* Isolation.  What a receiving thread holds in its locals: entries of     *)
(* followers only, and a pointer to an object made for the target, which   *)
(* may have been deleted since but never comes back.                       *)

Locals(o) ==
  /\ \A c \in Cust : snap[o][c] > 0 => o \in Follows[c]
  /\ opc[o] \in {"load", "write", "remove"} => o \in Follows[target[o]]
  /\ opc[o] \in {"load", "write"} =>
       cu[o] \in Conn /\ User[cu[o]] = target[o] /\ conn[cu[o]] # "new"
  /\ opc[o] = "write" /\ cu[o] \in Live => User[key[o]] = target[o]

Threads == \A o \in Oper : Locals(o)

LEMMA ThreadsInit == Init => Threads
BY DEF Init, Threads, Locals, Each, EmptyList

LEMMA ThreadsDies == Dies => Threads'
BY DEF Dies, Threads, Locals, Each, EmptyList

LEMMA ThreadsLogin ==
  ASSUME TypeOK, Objects, Threads, NEW w \in Auth, NEW k \in Conn,
         AddNewCustomer(w, k) \/ UpdateCustomer(w, k)
  PROVE  Threads'
<1>1. UNCHANGED operVars
  BY DEF AddNewCustomer, UpdateCustomer, AuthReturns
<1>2. \A x \in Conn : conn[x] # "new" => conn'[x] # "new"
  BY DEF AddNewCustomer, UpdateCustomer, Replaced, TypeOK
<1>3. \A x \in Conn : conn[x] # "new" /\ x \in Live' => x \in Live
  BY CustomersAssumption
     DEF AddNewCustomer, UpdateCustomer, TypeOK, Live
<1> QED BY <1>1, <1>2, <1>3 DEF Threads, Locals

LEMMA ThreadsSending ==
  ASSUME TypeOK, Objects, Lists, Threads, NEW o \in Oper,
         ReceiveOrder(o) \/ Sending(o), ~Dies
  PROVE  Threads'
<1> USE DEF TypeOK, Threads, Locals
<1>1. CASE ReceiveOrder(o)
  BY <1>1 DEF ReceiveOrder, Live
<1>2. CASE TakeSnapshot(o)
  BY <1>2 DEF TakeSnapshot, Live, Lists
<1>3. CASE FindChannel(o)
  <2>1. PICK c \in Cust :
          /\ snap[o][c] > 0
          /\ snap' = [snap EXCEPT ![o][c] = @ - 1]
          /\ target' = [target EXCEPT ![o] = c]
          /\ cu' = [cu EXCEPT ![o] = customers[c]]
          /\ opc' = [opc EXCEPT ![o] =
                       IF customers[c] = NoConn THEN "loop" ELSE "load"]
    BY <1>3 DEF FindChannel, InSnapshot, Advance, Channel
  <2>2. UNCHANGED <<regVars, key>> /\ Live' = Live
    BY <1>3 DEF FindChannel, Live
  <2>3. \A d \in Cust : snap'[o][d] > 0 => snap[o][d] > 0
    BY <2>1 DEF List
  <2>4. customers[c] # NoConn =>
          /\ customers[c] \in Conn /\ User[customers[c]] = c
          /\ conn[customers[c]] # "new"
    BY DEF Objects, Registered
  <2>5. Locals(o)'
    BY <2>1, <2>2, <2>3, <2>4
  <2>6. ASSUME NEW p \in Oper, p # o PROVE Locals(p)'
    BY <2>1, <2>2, <2>6
  <2> QED BY <2>5, <2>6
<1>4. CASE LockList(o) \/ EndFanOut(o) \/ WriteOrder(o) \/ WriteFails(o)
  BY <1>4 DEF LockList, EndFanOut, WriteOrder, WriteFails, Live
<1>5. CASE LoadKey(o)
  <2>1. PICK x \in Conn :
          /\ cu[o] \in Live => x = cu[o]
          /\ key' = [key EXCEPT ![o] = ssl[x]]
    <3>1. cu[o] \in Conn /\ Live \subseteq Conn
      BY <1>5 DEF LoadKey, Live
    <3> QED BY <1>5, <3>1 DEF LoadKey
  <2>2. /\ opc' = [opc EXCEPT ![o] = "write"] /\ opc[o] = "load"
        /\ UNCHANGED <<regVars, snap, target, cu>> /\ Live' = Live
    BY <1>5 DEF LoadKey, Live
  <2>3. \A p \in Oper : p # o => key'[p] = key[p] /\ opc'[p] = opc[p]
    BY <2>1, <2>2
  <2>4. cu[o] \in Live => User[key'[o]] = target[o]
    BY <2>1, <2>2 DEF Objects
  <2>5. Locals(o)'
    BY <2>2, <2>4
  <2>6. ASSUME NEW p \in Oper, p # o PROVE Locals(p)'
    BY <2>2, <2>3, <2>6
  <2> QED BY <2>5, <2>6
<1>6. CASE RemoveCustomer(o)
  <2>1. \A x \in Conn : conn[x] # "new" => conn'[x] # "new"
    BY <1>6 DEF RemoveCustomer
  <2>2. Live' \subseteq Live
    BY <1>6 DEF RemoveCustomer, Live
  <2>3. UNCHANGED <<snap, target, cu, key>> /\ opc' = [opc EXCEPT ![o] = "loop"]
    BY <1>6 DEF RemoveCustomer
  <2> QED BY <2>1, <2>2, <2>3
<1> QED BY <1>1, <1>2, <1>3, <1>4, <1>5, <1>6
        DEF Sending, LoadDies, WriteDies, RemoveDies, ShutdownKills

LEMMA ThreadsNext == TypeOK /\ Objects /\ Lists /\ Threads /\ [Next]_vars => Threads'
<1> SUFFICES ASSUME TypeOK, Objects, Lists, Threads, [Next]_vars PROVE Threads'
  OBVIOUS
<1>1. ASSUME NEW k \in Conn, PeerLeaves(k) PROVE Threads'
  BY <1>1 DEF PeerLeaves, TypeOK, Threads, Locals, Live
<1>2. CASE UNCHANGED <<regVars, operVars>>
  BY <1>2 DEF Threads, Locals, Live
<1> QED BY <1>1, <1>2, ThreadsDies, ThreadsLogin, ThreadsSending,
           AddingTouches, StepCases DEF Restart

(* An order is written for a customer who follows its operator, and on one *)
(* of his own connections, unless the object it was to be written through  *)
(* has been deleted under the thread.                                      *)
THEOREM IsolationHolds == Spec => []Isolation
<1>1. TypeOK /\ Threads => Isolation
  BY DEF Threads, Locals, Isolation
<1> QED BY <1>1, TypeCorrect, ObjectsInit, ObjectsNext, ListsHold,
           ThreadsInit, ThreadsNext, PTL DEF Spec

-----------------------------------------------------------------------------
(* Nobody is forgotten.  Until a torn list, a registered customer is on    *)
(* the list of an operator he follows or a thread is about to put him on.  *)

OnTheWay(w, c, o) ==
  /\ who[w] = c
  /\ \/ o \in todo[w]
     \/ apc[w] \in {"append", "create"} /\ at[w] = o

Covered(c, o) ==
  Registered(c) /\ o \in Follows[c]
    => relations[o][c] > 0 \/ \E w \in Auth : OnTheWay(w, c, o)

Listed ==
  /\ \A w \in Auth : apc[w] \in {"idle", "hung"} /\ ~raced => todo[w] = {}
  /\ ~raced => \A c \in Cust, o \in Oper : Covered(c, o)

LEMMA ListedInit == Init => Listed
BY CustomersAssumption DEF Init, Listed, Covered, Registered, Each

LEMMA ListedDies == Dies => Listed'
BY CustomersAssumption DEF Dies, Listed, Covered, Registered, Each

LEMMA ListedLogin ==
  ASSUME TypeOK, Listed, NEW w \in Auth, NEW k \in Conn,
         AddNewCustomer(w, k) \/ UpdateCustomer(w, k)
  PROVE  Listed'
<1> USE DEF TypeOK
<1> DEFINE c == User[k]
<1>1. /\ c \in Cust /\ apc[w] = "idle" /\ AuthReturns(w, c)
      /\ \A d \in Cust : d # c => customers'[d] = customers[d]
  BY CustomersAssumption DEF AddNewCustomer, UpdateCustomer
<1>2. /\ apc' = [apc EXCEPT ![w] = IF Follows[c] = {} THEN "idle" ELSE "find"]
      /\ todo' = [todo EXCEPT ![w] = Follows[c]] /\ who' = [who EXCEPT ![w] = c]
      /\ UNCHANGED <<at, relations, raced>>
  BY <1>1 DEF AuthReturns
<1>3. ASSUME ~raced, NEW d \in Cust, NEW o \in Oper PROVE Covered(d, o)'
  <2>1. CASE d = c
    <3>1. todo'[w] = Follows[c] /\ who'[w] = c
      BY <1>2
    <3>2. o \in Follows[c] => OnTheWay(w, c, o)'
      BY <3>1 DEF OnTheWay
    <3> QED BY <2>1, <3>2 DEF Covered
  <2>2. CASE d # c
    <3>1. \A v \in Auth : OnTheWay(v, d, o) => OnTheWay(v, d, o)'
      BY <1>1, <1>2, <1>3 DEF OnTheWay, Listed
    <3>2. Registered(d)' = Registered(d)
      BY <1>1, <2>2 DEF Registered
    <3> QED BY <1>2, <1>3, <3>1, <3>2 DEF Covered, Listed
  <2> QED BY <2>1, <2>2
<1>4. \A v \in Auth : apc'[v] \in {"idle", "hung"} /\ ~raced' => todo'[v] = {}
  BY <1>2 DEF Listed
<1> QED BY <1>2, <1>3, <1>4 DEF Listed

LEMMA ListedAdding ==
  ASSUME TypeOK, Listed, NEW w \in Auth, Adding(w), ~Dies
  PROVE  Listed'
<1> USE DEF TypeOK
<1>0. UNCHANGED customers
  BY AddingTouches
<1>1. CASE AddFind(w)
  <2>1. PICK p \in todo[w] :
          /\ \/ apc' = [apc EXCEPT ![w] = "append"]
             \/ apc' = [apc EXCEPT ![w] = "create"]
          /\ at' = [at EXCEPT ![w] = p]
          /\ todo' = [todo EXCEPT ![w] = @ \ {p}]
    BY <1>1 DEF AddFind, Rest
  <2>2. UNCHANGED <<raced, relations, who>> /\ apc[w] = "find"
    BY <1>1 DEF AddFind
  <2>3. ASSUME NEW v \in Auth, NEW c \in Cust, NEW o \in Oper, OnTheWay(v, c, o)
        PROVE  OnTheWay(v, c, o)'
    <3>1. CASE v = w
      <4>1. o \in todo[w] /\ who[w] = c
        BY <2>2, <2>3, <3>1 DEF OnTheWay
      <4>2. /\ todo'[w] = todo[w] \ {p} /\ at'[w] = p /\ who'[w] = c
            /\ apc'[w] \in {"append", "create"}
        BY <2>1, <2>2, <4>1
      <4> QED BY <3>1, <4>1, <4>2 DEF OnTheWay
    <3>2. CASE v # w
      BY <2>1, <2>2, <2>3, <3>2 DEF OnTheWay
    <3> QED BY <3>1, <3>2
  <2> QED BY <1>0, <2>1, <2>2, <2>3 DEF Listed, Covered, Registered
<1>2. CASE AddAppend(w) \/ AddCreate(w)
  <2> DEFINE o == at[w]
             c == who[w]
  <2>1. /\ apc[w] \in {"append", "create"}
        /\ apc' = [apc EXCEPT ![w] = IF todo[w] = {} THEN "idle" ELSE "find"]
           \/ apc' = [apc EXCEPT ![w] = "size"]
        /\ UNCHANGED <<todo, who, at>> /\ (raced => raced')
        /\ \/ relations' = [relations EXCEPT ![o] = Deduplicated(@, c)]
           \/ relations' = [relations EXCEPT ![o] = Pushed(@, c)]
    BY <1>2 DEF AddAppend, AddCreate, AddReturns, Printing
  <2>2. PICK l \in List :
          /\ relations' = [relations EXCEPT ![o] = l]
          /\ \A d \in Cust : d = c \/ relations[o][d] > 0 => l[d] > 0
    <3>1. CASE relations' = [relations EXCEPT ![o] = Deduplicated(@, c)]
      <4>1. /\ Deduplicated(relations[o], c) \in List
            /\ \A d \in Cust : d = c \/ relations[o][d] > 0
                 => Deduplicated(relations[o], c)[d] > 0
        BY DEF Deduplicated, List
      <4> QED BY <3>1, <4>1
    <3>2. CASE relations' = [relations EXCEPT ![o] = Pushed(@, c)]
      <4>1. /\ Pushed(relations[o], c) \in List
            /\ \A d \in Cust : d = c \/ relations[o][d] > 0
                 => Pushed(relations[o], c)[d] > 0
        BY DEF Pushed, List
      <4> QED BY <3>2, <4>1
    <3> QED BY <2>1, <3>1, <3>2
  <2>3. /\ o \in Oper /\ c \in Cust /\ relations'[o][c] > 0
        /\ \A p \in Oper, d \in Cust :
             relations[p][d] > 0 => relations'[p][d] > 0
    BY <2>2
  <2>4. \A v \in Auth, d \in Cust, p \in Oper :
          OnTheWay(v, d, p) => OnTheWay(v, d, p)' \/ relations'[p][d] > 0
    BY <2>1, <2>3 DEF OnTheWay
  <2> QED BY <1>0, <2>1, <2>3, <2>4 DEF Listed, Covered, Registered
<1>3. CASE AddCreateLost(w) \/ AddCreateHangs(w)
  BY <1>3 DEF AddCreateLost, AddCreateHangs, Listed
<1>4. CASE AddSize(w)
  <2>1. \A v \in Auth, c \in Cust, o \in Oper : OnTheWay(v, c, o) => OnTheWay(v, c, o)'
    BY <1>4 DEF AddSize, AddReturns, OnTheWay
  <2> QED BY <1>0, <1>4, <2>1 DEF AddSize, AddReturns, Listed, Covered, Registered
<1>5. CASE AddSizeStuck(w)
  <2>1. \A v \in Auth, c \in Cust, o \in Oper : OnTheWay(v, c, o) => OnTheWay(v, c, o)'
    BY <1>5 DEF AddSizeStuck, OnTheWay
  <2> QED BY <1>0, <1>5, <2>1 DEF AddSizeStuck, Listed, Covered, Registered
<1> QED BY <1>1, <1>2, <1>3, <1>4, <1>5 DEF Adding, AddCreateDies, AddSizeDies

LEMMA ListedNext == TypeOK /\ Listed /\ [Next]_vars => Listed'
<1> SUFFICES ASSUME TypeOK, Listed, [Next]_vars PROVE Listed'
  OBVIOUS
<1>1. ASSUME NEW o \in Oper, ReceiveOrder(o) \/ Sending(o), ~Dies
      PROVE  Listed'
  <2>1. UNCHANGED <<listVars, authVars>>
    BY <1>1, SendingTouches
  <2>2. \A c \in Cust : Registered(c)' => Registered(c)
    BY <1>1 DEF ReceiveOrder, Sending, LockList, TakeSnapshot, FindChannel, EndFanOut,
         LoadKey, LoadDies, WriteOrder, WriteFails, WriteDies, RemoveCustomer,
         RemoveDies, ShutdownKills, Registered, TypeOK
  <2> QED BY <2>1, <2>2 DEF Listed, Covered, OnTheWay
<1>2. CASE UNCHANGED <<customers, listVars, authVars>>
  BY <1>2 DEF Listed, Covered, OnTheWay, Registered
<1> QED BY <1>1, <1>2, ListedDies, ListedLogin, ListedAdding, StepCases
        DEF PeerLeaves, Restart

(* A customer none of whose logins is still running is on the list of      *)
(* every operator he follows, unless a list has been torn.                 *)
THEOREM ListedHolds == Spec => []RegisteredIsListed
<1>1. TypeOK /\ Listed => RegisteredIsListed
  <2> SUFFICES ASSUME TypeOK, Listed, NEW c \in Cust, NEW o \in Oper, ~raced,
                      Registered(c), o \in Follows[c],
                      \A w \in Auth : apc[w] # "idle" => who[w] # c
               PROVE  relations[o][c] > 0
    BY DEF RegisteredIsListed
  <2>1. \A w \in Auth : ~OnTheWay(w, c, o)
    BY DEF OnTheWay, Listed
  <2> QED BY <2>1 DEF Listed, Covered
<1> QED BY <1>1, TypeCorrect, ListedInit, ListedNext, PTL DEF Spec

-----------------------------------------------------------------------------
(* Duplicates.  The entries of a customer in one list and the threads that *)
(* are about to push another are together no more than the threads.        *)

Creating(o, c) == {w \in Auth : apc[w] = "create" /\ at[w] = o /\ who[w] = c}

Copies ==
  \A o \in Oper, c \in Cust :
    /\ relations[o][c] + Cardinality(Creating(o, c)) <= Cardinality(Auth)
    /\ snap[o][c] <= Cardinality(Auth)

LEMMA CreatingCounts ==
  ASSUME NEW S, S \in SUBSET Auth
  PROVE  /\ Cardinality(S) \in Nat /\ Cardinality(Auth) \in Nat
         /\ Cardinality(S) <= Cardinality(Auth)
         /\ \A T \in SUBSET S :
              /\ Cardinality(T) \in Nat /\ Cardinality(T) <= Cardinality(S)
              /\ T # S => Cardinality(T) + 1 <= Cardinality(S)
<1>1. IsFiniteSet(S) /\ IsFiniteSet(Auth)
  BY CustomersAssumption, FS_Subset
<1>2. /\ Cardinality(S) \in Nat /\ Cardinality(Auth) \in Nat
      /\ Cardinality(S) <= Cardinality(Auth)
  BY <1>1, FS_CardinalityType, FS_Subset
<1>3. ASSUME NEW T \in SUBSET S
      PROVE  /\ Cardinality(T) \in Nat /\ Cardinality(T) <= Cardinality(S)
             /\ T # S => Cardinality(T) + 1 <= Cardinality(S)
  <2>1. /\ IsFiniteSet(T) /\ Cardinality(T) <= Cardinality(S)
        /\ Cardinality(S) = Cardinality(T) => S = T
    BY <1>1, FS_Subset
  <2>2. Cardinality(T) \in Nat
    BY <2>1, FS_CardinalityType
  <2> QED BY <1>2, <2>1, <2>2
<1> QED BY <1>2, <1>3

LEMMA CopiesInit == Init => Copies
<1> SUFFICES ASSUME Init, NEW o \in Oper, NEW c \in Cust
             PROVE  /\ relations[o][c] + Cardinality(Creating(o, c))
                         <= Cardinality(Auth)
                    /\ snap[o][c] <= Cardinality(Auth)
  BY DEF Copies
<1>1. relations[o][c] = 0 /\ snap[o][c] = 0
  BY DEF Init, Each, EmptyList
<1>2. Creating(o, c) \in SUBSET Auth
  BY DEF Creating
<1> QED BY <1>1, <1>2, CreatingCounts

LEMMA CopiesDies == Dies => Copies'
<1> SUFFICES ASSUME Dies, NEW o \in Oper, NEW c \in Cust
             PROVE  /\ relations'[o][c] + Cardinality(Creating(o, c)')
                         <= Cardinality(Auth)
                    /\ snap'[o][c] <= Cardinality(Auth)
  BY DEF Copies
<1>1. relations'[o][c] = 0 /\ snap'[o][c] = 0
  BY DEF Dies, Each, EmptyList
<1>2. Creating(o, c)' \in SUBSET Auth
  BY DEF Creating
<1> QED BY <1>1, <1>2, CreatingCounts

(* Nothing is pushed and no thread sets out to push: the bound stays.      *)
LEMMA CopiesKept ==
  ASSUME TypeOK, Copies, NEW o \in Oper, NEW c \in Cust,
         relations'[o][c] <= relations[o][c], relations'[o][c] \in Nat,
         Creating(o, c)' \subseteq Creating(o, c)
  PROVE  relations'[o][c] + Cardinality(Creating(o, c)') <= Cardinality(Auth)
<1>1. Creating(o, c) \in SUBSET Auth
  BY DEF Creating
<1>2. /\ Cardinality(Creating(o, c)) \in Nat /\ Cardinality(Auth) \in Nat
      /\ Cardinality(Creating(o, c)') \in Nat
      /\ Cardinality(Creating(o, c)') <= Cardinality(Creating(o, c))
  BY <1>1, CreatingCounts
<1>3. relations[o][c] \in Nat
  BY DEF TypeOK, List
<1> QED BY <1>2, <1>3 DEF Copies

LEMMA CopiesAdding ==
  ASSUME TypeOK, Lists, Copies, NEW w \in Auth, Adding(w), ~Dies
  PROVE  Copies'
<1> USE DEF TypeOK
<1> SUFFICES ASSUME NEW o \in Oper, NEW c \in Cust
             PROVE  relations'[o][c] + Cardinality(Creating(o, c)')
                      <= Cardinality(Auth)
  BY AddingTouches DEF Copies
<1>0. relations[o][c] \in Nat /\ Creating(o, c) \in SUBSET Auth
  BY DEF List, Creating
<1>1. CASE AddFind(w)
  <2>1. PICK p \in todo[w] :
          /\ \/ apc' = [apc EXCEPT ![w] = "append"]
             \/ p \notin known /\ apc' = [apc EXCEPT ![w] = "create"]
          /\ at' = [at EXCEPT ![w] = p]
    BY <1>1 DEF AddFind
  <2>2. UNCHANGED <<relations, who>>
    BY <1>1 DEF AddFind
  <2>3. CASE Creating(o, c)' \subseteq Creating(o, c)
    BY <1>0, <2>2, <2>3, CopiesKept
  <2>4. CASE ~(Creating(o, c)' \subseteq Creating(o, c))
    <3>1. o \notin known
      BY <2>1, <2>2, <2>4 DEF Creating
    <3>2. relations'[o][c] = 0
      BY <2>2, <3>1 DEF Lists, EmptyList
    <3>3. Creating(o, c)' \in SUBSET Auth
      BY DEF Creating
    <3> QED BY <3>2, <3>3, CreatingCounts
  <2> QED BY <2>3, <2>4
<1>2. CASE AddAppend(w)
  <2>1. /\ relations' = [relations EXCEPT ![at[w]] =
                            Deduplicated(relations[at[w]], who[w])]
        /\ UNCHANGED <<at, who>> /\ apc[w] = "append"
        /\ apc' = [apc EXCEPT ![w] = IF todo[w] = {} THEN "idle" ELSE "find"]
    BY <1>2 DEF AddAppend, AddReturns
  <2>2. Creating(o, c)' \subseteq Creating(o, c) /\ w \notin Creating(o, c)
    BY <2>1 DEF Creating
  <2>3. CASE o = at[w] /\ c = who[w]
    <3>1. relations'[o][c] = 1
      BY <2>1, <2>3 DEF Deduplicated
    <3>2. Creating(o, c)' \in SUBSET Auth /\ Creating(o, c)' # Auth
      BY <1>0, <2>2
    <3>3. Cardinality(Creating(o, c)') + 1 <= Cardinality(Auth)
      BY <3>2, CreatingCounts
    <3>4. Cardinality(Creating(o, c)') \in Nat /\ Cardinality(Auth) \in Nat
      BY <3>2, CreatingCounts
    <3> QED BY <3>1, <3>3, <3>4
  <2>4. CASE ~(o = at[w] /\ c = who[w])
    <3>1. relations'[o][c] \in Nat /\ relations'[o][c] <= relations[o][c]
      BY <1>0, <2>1, <2>4 DEF Deduplicated
    <3> QED BY <2>2, <3>1, CopiesKept
  <2> QED BY <2>3, <2>4
<1>3. CASE AddCreate(w)
  <2>1. /\ relations' = [relations EXCEPT ![at[w]] =
                            Pushed(relations[at[w]], who[w])]
        /\ UNCHANGED <<at, who>> /\ apc[w] = "create"
        /\ apc' = [apc EXCEPT ![w] = "size"]
    BY <1>3 DEF AddCreate, Printing
  <2>2. Creating(o, c)' \subseteq Creating(o, c) /\ w \notin Creating(o, c)'
    BY <2>1 DEF Creating
  <2>3. CASE o = at[w] /\ c = who[w]
    <3>1. relations'[o][c] = relations[o][c] + 1
      BY <2>1, <2>3 DEF Pushed, List
    <3>2. w \in Creating(o, c)
      BY <2>1, <2>3 DEF Creating
    <3>3. /\ Cardinality(Creating(o, c)') + 1 <= Cardinality(Creating(o, c))
          /\ Cardinality(Creating(o, c)') \in Nat
          /\ Cardinality(Creating(o, c)) \in Nat /\ Cardinality(Auth) \in Nat
      BY <1>0, <2>2, <3>2, CreatingCounts
    <3> QED BY <1>0, <3>1, <3>3 DEF Copies
  <2>4. CASE ~(o = at[w] /\ c = who[w])
    <3>1. relations'[o][c] = relations[o][c]
      BY <2>1, <2>4 DEF Pushed, List
    <3> QED BY <1>0, <2>2, <3>1, CopiesKept
  <2> QED BY <2>3, <2>4
<1>4. CASE \/ AddCreateLost(w) \/ AddCreateHangs(w)
           \/ AddSize(w) \/ AddSizeStuck(w)
  <2>1. UNCHANGED <<relations, at, who>>
        /\ \A v \in Auth : apc'[v] = "create" => apc[v] = "create"
    <3>1. CASE AddCreateLost(w) \/ AddCreateHangs(w)
      BY <3>1 DEF AddCreateLost, AddCreateHangs, Printing
    <3>2. CASE AddSize(w)
      BY <3>2 DEF AddSize, AddReturns
    <3>3. CASE AddSizeStuck(w)
      BY <3>3 DEF AddSizeStuck
    <3> QED BY <1>4, <3>1, <3>2, <3>3
  <2>2. Creating(o, c)' \subseteq Creating(o, c)
    BY <2>1 DEF Creating
  <2>3. relations'[o][c] <= relations[o][c] /\ relations'[o][c] \in Nat
    BY <1>0, <2>1
  <2> HIDE DEF TypeOK
  <2> QED BY <2>2, <2>3, CopiesKept
<1> QED BY <1>1, <1>2, <1>3, <1>4 DEF Adding, AddCreateDies, AddSizeDies

LEMMA CopiesNext == TypeOK /\ Lists /\ Copies /\ [Next]_vars => Copies'
<1> SUFFICES ASSUME TypeOK, Lists, Copies, [Next]_vars PROVE Copies'
  OBVIOUS
<1> USE DEF TypeOK
<1>1. ASSUME NEW w \in Auth, NEW k \in Conn,
             AddNewCustomer(w, k) \/ UpdateCustomer(w, k)
      PROVE  Copies'
  <2>1. /\ apc[w] = "idle" /\ UNCHANGED <<relations, snap, at>>
        /\ \A v \in Auth : v # w => apc'[v] = apc[v] /\ who'[v] = who[v]
        /\ apc'[w] # "create"
    BY <1>1 DEF AddNewCustomer, UpdateCustomer, AuthReturns
  <2>2. \A o \in Oper, c \in Cust : Creating(o, c)' = Creating(o, c)
    BY <2>1 DEF Creating
  <2> QED BY <2>1, <2>2 DEF Copies
<1>2. ASSUME NEW o \in Oper, ReceiveOrder(o) \/ Sending(o), ~Dies
      PROVE  Copies'
  <2>1. UNCHANGED <<listVars, authVars>>
    BY <1>2, SendingTouches
  <2>2. ASSUME NEW p \in Oper, NEW c \in Cust
        PROVE  snap'[p][c] <= snap[p][c] \/ snap'[p][c] = relations[p][c]
    <3>1. CASE TakeSnapshot(o)
      BY <3>1 DEF TakeSnapshot, List
    <3>2. CASE FindChannel(o)
      <4>1. PICK d \in Cust : snap' = [snap EXCEPT ![o][d] = @ - 1]
        BY <3>2 DEF FindChannel, InSnapshot, Advance
      <4> QED BY <4>1 DEF List
    <3>3. CASE snap' = snap
      BY <3>3 DEF List
    <3> QED BY <1>2, <3>1, <3>2, <3>3
            DEF ReceiveOrder, Sending, LockList, EndFanOut, LoadKey, LoadDies,
                WriteOrder, WriteFails, WriteDies, RemoveCustomer, RemoveDies,
                ShutdownKills
  <2>3. ASSUME NEW p \in Oper, NEW c \in Cust
        PROVE  snap'[p][c] <= Cardinality(Auth)
    <3>1. Creating(p, c) \in SUBSET Auth
      BY DEF Creating
    <3>2. /\ Cardinality(Creating(p, c)) \in Nat /\ Cardinality(Auth) \in Nat
          /\ relations[p][c] \in Nat /\ snap[p][c] \in Nat
      BY <3>1, CreatingCounts DEF List
    <3>3. snap'[p][c] \in Nat
      BY <1>2, TypeSending DEF List
    <3> QED BY <2>2, <3>2, <3>3 DEF Copies
  <2> QED BY <2>1, <2>3 DEF Copies, Creating
<1>3. CASE UNCHANGED <<listVars, authVars, snap>>
  BY <1>3 DEF Copies, Creating
<1> QED BY <1>1, <1>2, <1>3, CopiesDies, CopiesAdding, StepCases
        DEF PeerLeaves, Restart

(* A customer is on a list, and so gets an order, at most as many times as *)
(* there are auth_check threads.                                           *)
THEOREM CopiesHold == Spec => []CopiesBounded
<1>1. TypeOK /\ Copies => CopiesBounded
  <2> SUFFICES ASSUME TypeOK, Copies, NEW o \in Oper, NEW c \in Cust
               PROVE  /\ relations[o][c] <= Cardinality(Auth)
                      /\ snap[o][c] <= Cardinality(Auth)
    BY DEF CopiesBounded
  <2>1. Creating(o, c) \in SUBSET Auth /\ relations[o][c] \in Nat
    BY DEF Creating, TypeOK, List
  <2>2. Cardinality(Creating(o, c)) \in Nat /\ Cardinality(Auth) \in Nat
    BY <2>1, CreatingCounts
  <2> QED BY <2>1, <2>2 DEF Copies
<1> QED BY <1>1, TypeCorrect, ListsHold, CopiesInit, CopiesNext, PTL DEF Spec

-----------------------------------------------------------------------------
(* The refinement of UserSessions.                                         *)

InUse == {k \in Conn : conn[k] \in {"open", "gone"}}
Over == {k \in Conn : conn[k] = "closed"}

(* A step that opens nothing.                                              *)
LEMMA OnlyEnds ==
  ASSUME \A k \in Conn : /\ k \in InUse' => k \in InUse
                         /\ k \in InUse => k \in InUse' \cup Over'
                         /\ k \in Over => k \in Over'
  PROVE  Sessions!Ends
<1> DEFINE K == Over' \ Over
<1>1. K \in SUBSET Conn /\ K \cap Over = {}
  BY DEF Over
<1>2. InUse' = InUse \ K
  BY DEF InUse, Over
<1>3. Over' = Over \cup K
  BY DEF Over
<1> HIDE DEF K
<1>4. \E J \in SUBSET Conn : Sessions!Close(J)
  BY <1>1, <1>2, <1>3 DEF Sessions!Close, InUse, Over
<1> QED BY <1>4 DEF Sessions!Ends

(* The one connection a customer has in use is the one in the map.         *)
LEMMA OwnIsCurrent ==
  ASSUME TypeOK, Objects, NEW k \in Conn
  PROVE  {j \in InUse : User[j] = User[k]}
           = IF Registered(User[k]) THEN {Current(User[k])} ELSE {}
<1>1. User[k] \in Cust
  BY CustomersAssumption
<1>2. \A j \in Conn : j \in InUse <=> Registered(User[j]) /\ Current(User[j]) = j
  BY DEF Objects, ConnAccounting, InUse
<1>3. Registered(User[k]) =>
        Current(User[k]) \in Conn /\ User[Current(User[k])] = User[k]
  BY <1>1 DEF Objects, ConnAccounting, TypeOK, Registered, Current
<1>4. InUse \subseteq Conn
  BY DEF InUse
<1> QED BY <1>2, <1>3, <1>4

LEMMA LoginReplaces ==
  ASSUME TypeOK, Objects, NEW w \in Auth, NEW k \in Conn,
         AddNewCustomer(w, k) \/ UpdateCustomer(w, k)
  PROVE  Sessions!LogsInAlone
<1> DEFINE own == {j \in InUse : User[j] = User[k]}
<1>1. User[k] \in Cust /\ conn[k] = "new" /\ conn \in [Conn -> {"new", "open", "gone", "closed"}]
  BY CustomersAssumption DEF AddNewCustomer, UpdateCustomer, TypeOK
<1>2. /\ conn'[k] = "open"
      /\ \A j \in Conn \ {k} : conn'[j] = IF j \in own THEN "closed" ELSE conn[j]
  <2>1. CASE AddNewCustomer(w, k)
    <3>1. own = {}
      BY <2>1, OwnIsCurrent DEF AddNewCustomer
    <3>2. conn' = [conn EXCEPT ![k] = "open"]
      BY <2>1 DEF AddNewCustomer
    <3> QED BY <1>1, <3>1, <3>2
  <2>2. CASE UpdateCustomer(w, k)
    <3>1. own = {Current(User[k])}
      BY <2>2, OwnIsCurrent DEF UpdateCustomer
    <3>2. conn' = [conn EXCEPT ![Current(User[k])] = "closed", ![k] = "open"]
      BY <2>2 DEF UpdateCustomer, Replaced
    <3> QED BY <1>1, <3>1, <3>2
  <2> QED BY <2>1, <2>2
<1>3. k \notin InUse \cup Over /\ k \notin own /\ own \cap Over = {}
  BY <1>1 DEF InUse, Over
<1>4. own \subseteq Conn
  BY DEF InUse
<1>5. InUse' = (InUse \ own) \cup {k} /\ Over' = Over \cup own
  <2> HIDE DEF own
  <2> QED BY <1>1, <1>2, <1>3, <1>4 DEF InUse, Over
<1>6. Sessions!LogIn(k, Sessions!Own(k))
  BY <1>3, <1>5 DEF Sessions!LogIn, Sessions!Own, InUse, Over
<1> QED BY <1>6 DEF Sessions!LogsInAlone

LEMMA SessionStep ==
  ASSUME TypeOK, Objects, [Next]_vars
  PROVE  Sessions!LogsInAlone \/ Sessions!Ends
<1>1. conn \in [Conn -> {"new", "open", "gone", "closed"}]
  BY DEF TypeOK
<1>2. ASSUME UNCHANGED conn PROVE Sessions!Ends
  <2>1. InUse' = InUse /\ Over' = Over
    BY <1>2 DEF InUse, Over
  <2> QED BY <2>1, OnlyEnds
<1>3. CASE Dies
  <2>1. \A k \in Conn : conn'[k] = IF conn[k] = "new" THEN "new" ELSE "closed"
    BY <1>3 DEF Dies
  <2>2. \A k \in Conn : /\ k \notin InUse' /\ (k \in Over => k \in Over')
                        /\ k \in InUse => k \in Over'
    BY <2>1 DEF InUse, Over
  <2> QED BY <2>2, OnlyEnds
<1>4. ASSUME NEW w \in Auth, Adding(w), ~Dies PROVE Sessions!Ends
  BY <1>2, <1>4, AddingTouches
<1>5. ASSUME NEW k \in Conn, PeerLeaves(k) PROVE Sessions!Ends
  <2>1. conn[k] = "open" /\ \A j \in Conn : conn'[j] = IF j = k THEN "gone" ELSE conn[j]
    BY <1>1, <1>5 DEF PeerLeaves
  <2>2. InUse' = InUse /\ Over' = Over
    BY <2>1 DEF InUse, Over
  <2> QED BY <2>2, OnlyEnds
<1>6. ASSUME NEW o \in Oper, RemoveCustomer(o) PROVE Sessions!Ends
  <2>1. CASE Registered(target[o])
    <3>1. \A j \in Conn : conn'[j] \in {conn[j], "closed"}
      BY <1>1, <1>6, <2>1 DEF RemoveCustomer
    <3>2. \A j \in Conn : /\ j \in InUse' => j \in InUse
                          /\ j \in InUse => j \in InUse' \cup Over'
                          /\ j \in Over => j \in Over'
      BY <3>1 DEF InUse, Over
    <3> QED BY <3>2, OnlyEnds
  <2>2. CASE ~Registered(target[o])
    BY <1>2, <1>6, <2>2 DEF RemoveCustomer
  <2> QED BY <2>1, <2>2
<1>7. ASSUME NEW o \in Oper, ReceiveOrder(o) \/ Sending(o), ~Dies PROVE Sessions!Ends
  <2>1. RemoveCustomer(o) \/ UNCHANGED conn
    BY <1>7 DEF ReceiveOrder, Sending, LockList, TakeSnapshot, FindChannel, EndFanOut, LoadKey,
                LoadDies, WriteOrder, WriteFails, WriteDies, RemoveDies, ShutdownKills
  <2> QED BY <1>2, <1>6, <2>1
<1>8. CASE Restart \/ UNCHANGED vars
  BY <1>2, <1>8 DEF Restart
<1> QED BY <1>3, <1>4, <1>5, <1>7, <1>8, LoginReplaces, StepCases

(* The map of customers works as one table of sessions: whichever threads  *)
(* log customers in, send them orders and remove them, a login closes the  *)
(* customer's last connection, that one only, and none comes back.         *)
THEOREM SessionsRefined == Spec => LoginsReplace
<1>1. Init => Sessions!SessInit
  BY DEF Init, Each, Sessions!SessInit
<1>2. TypeOK /\ Objects /\ [Next]_vars
        => [Sessions!LogsInAlone \/ Sessions!Ends]_(Sessions!sessVars)
  BY SessionStep
<1> QED BY <1>1, <1>2, TypeCorrect, ObjectsInit, ObjectsNext, PTL
        DEF Spec, LoginsReplace, Sessions!OwnSpec
=============================================================================
