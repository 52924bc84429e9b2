----------------------------- MODULE MT4Database -----------------------------
(***************************************************************************)
(* MT4Database and the login decided by it: one MySQL connection, used by  *)
(* the auth_check thread and by a thread that pings it every 30 seconds,   *)
(* with query_mutex between them.  The transfer server asks                *)
(* customer_auth_check for the kind of login and a list of numbers, and    *)
(* files the connection under the first; the auth server asks              *)
(* user_auth_query for yes or no.  The account table is edited by hand.    *)
(*                                                                         *)
(* A row has the bits of priority, the account's id and the columns op1 to *)
(* op6; None is NULL.  What a thread reads from the stack before it has    *)
(* been written, or past the end of control_list, may be anything.         *)
(***************************************************************************)
EXTENDS Naturals

CONSTANTS
  Name,        \* user names
  Plain,       \* those the text of the query takes as they are
  Id,          \* numbers of accounts and operators, 0 among them
  Rows,        \* Rows[u]: what the account of u may look like
  None,        \* NULL, no row, nobody
  MaxControl,  \* entries of control_list, and op columns (6 in the code)
  MaxEdits     \* bound: edits of the table

Row == UNION {Rows[u] : u \in Name}

ASSUME DatabaseAssumption ==
  /\ Plain \subseteq Name
  /\ 0 \in Id /\ None \notin Id /\ None \notin Name /\ None \notin Row
  /\ None \notin {"check", "ping"}
  /\ MaxControl \in Nat \ {0}
  /\ \A r \in Row :
       /\ r.priority \subseteq {"MASTER", "NOR_CUSTOMER"}
       /\ r.id \in Id \cup {None} /\ r.op \in [1..MaxControl -> Id \cup {None}]
  /\ MaxEdits \in Nat

VARIABLES
  server,       \* "transfer" or "auth"
  connected,    \* connect succeeded: there is a ping thread, and RECONNECT is set
  accounts,     \* the table; NoRow: no such user
  edits,
  query_mutex,  \* its holder
  res,          \* a result set is not freed
  step, ping,     \* the two threads
  username, right,  \* what the client sent; the password is right
  row,          \* what the query gave
  operators, customers, relations,  \* the registries: who is filed under a number
  astray,       \* the registries hold what nobody can say
  logins,       \* rows users have logged in with since the process started
  last          \* the last of them

dbVars == <<server, connected, accounts, edits, query_mutex, res, step, ping,
            username, right, row, operators, customers, relations, astray, logins, last>>
setVars == <<server, connected>>
lockVars == <<query_mutex, res, ping>>
askVars == <<username, right>>
registryVars == <<operators, customers, relations, astray, logins, last>>

Nobody == [i \in Id |-> None]
NoFollower == [i \in Id |-> {}]
NoLogin == [u \in Name |-> {}]
NoRow == [u \in Name |-> None]

DbTypeOK ==
  /\ server \in {"transfer", "auth"}
  /\ connected \in BOOLEAN /\ astray \in BOOLEAN
  /\ accounts \in [Name -> Row \cup {None}] /\ edits \in 0..MaxEdits
  /\ query_mutex \in {None, "check", "ping"} /\ res \in BOOLEAN
  /\ step \in {"idle", "lock", "query", "fetch", "answer"}
  /\ ping \in {"sleep", "lock", "ping"}
  /\ (query_mutex = "check") = (step \in {"query", "fetch"})
  /\ (query_mutex = "ping") = (ping = "ping")
  /\ res = (step = "fetch")
  /\ username \in Name \cup {None} /\ right \in BOOLEAN /\ row \in Row \cup {None}
  /\ operators \in [Id -> Name \cup {None}] /\ customers \in [Id -> Name \cup {None}]
  /\ relations \in [Id -> SUBSET Id]
  /\ logins \in [Name -> SUBSET Row] /\ last \in [Name -> Row \cup {None}]

Idle ==
  /\ query_mutex = None /\ res = FALSE /\ step = "idle" /\ ping = "sleep"
  /\ username = None /\ right = FALSE /\ row = None
  /\ operators = Nobody /\ customers = Nobody /\ relations = NoFollower
  /\ astray = FALSE /\ logins = NoLogin /\ last = NoRow

DbInit ==
  /\ server \in {"transfer", "auth"}
  /\ connected \in BOOLEAN /\ edits = 0
  /\ accounts \in {a \in [Name -> Row] : \A u \in Name : a[u] \in Rows[u]}
  /\ Idle

-----------------------------------------------------------------------------
(* The table, the line, and the thread DB_keep_alive.                      *)

Edit(u) ==
  /\ edits < MaxEdits /\ edits' = edits + 1
  /\ \E r \in Rows[u] \cup {None} : accounts' = [accounts EXCEPT ![u] = r]
  /\ UNCHANGED <<setVars, lockVars, step, askVars, row, registryVars>>

Wake ==
  /\ connected /\ ping = "sleep" /\ ping' = "lock"
  /\ UNCHANGED <<setVars, accounts, edits, query_mutex, res, step, askVars, row,
                 registryVars>>

PingLock ==
  /\ ping = "lock" /\ query_mutex = None /\ query_mutex' = "ping" /\ ping' = "ping"
  /\ UNCHANGED <<setVars, accounts, edits, res, step, askVars, row, registryVars>>

Ping ==
  /\ ping = "ping" /\ ping' = "sleep" /\ query_mutex' = None
  /\ UNCHANGED <<setVars, accounts, edits, res, step, askVars, row, registryVars>>

-----------------------------------------------------------------------------
(* customer_auth_check and user_auth_query.                                *)

Ask(u) ==
  /\ step = "idle" /\ step' = "lock" /\ username' = u /\ right' \in BOOLEAN
  /\ UNCHANGED <<setVars, accounts, edits, lockVars, row, registryVars>>

Lock ==
  /\ step = "lock" /\ query_mutex = None /\ query_mutex' = "check" /\ step' = "query"
  /\ UNCHANGED <<setVars, accounts, edits, res, ping, askVars, row, registryVars>>

(* user_auth_query throws when there is no answer or no row: the client is *)
(* not answered, its entry stays in the queue.  customer_auth_check        *)
(* returns 0, the same as for a wrong password.                            *)
Failing == IF server = "auth" THEN "idle" ELSE "answer"

(* Mutant: the mutex is not unlocked before the throw.                     *)
Kept == IF server = "auth" THEN query_mutex ELSE None
Unlocked == None

Done(next) ==
  /\ step' = next /\ res' = FALSE
  /\ IF next = "idle" THEN username' = None /\ right' = FALSE ELSE UNCHANGED askVars

QueryFails ==
  /\ step = "query" /\ Done(Failing) /\ query_mutex' = Unlocked
  /\ UNCHANGED <<setVars, accounts, edits, ping, row, registryVars>>

(* mysql_query opens the session again if it has to, and if connect did    *)
(* not fail when the process started.  The name goes into the text of the  *)
(* statement as it came from the client: a name that is not plain text to  *)
(* SQL may select any row of the table, or none.                           *)
Selected(u) ==
  IF u \in Plain THEN {accounts[u]} ELSE {accounts[v] : v \in Name} \cup {None}

Query ==
  /\ step = "query" /\ connected /\ step' = "fetch" /\ res' = TRUE
  /\ row' \in Selected(username)
  /\ UNCHANGED <<setVars, accounts, edits, query_mutex, ping, askVars, registryVars>>

(* mysql_fetch_row and mysql_free_result.  The line may break before it.   *)
Fetch ==
  \E found \in {row # None, FALSE} :
    /\ step = "fetch" /\ query_mutex' = Unlocked
    /\ Done(IF found THEN "answer" ELSE Failing)
    /\ row' = IF found /\ right /\ server = "transfer" THEN row ELSE None
    /\ UNCHANGED <<setVars, accounts, edits, ping, registryVars>>

-----------------------------------------------------------------------------
(* handle_auth_safe after the answer of the database.                      *)

(* What is written to control_list, as the columns it comes from: the id   *)
(* is number 0, op1 to op6 follow.                                         *)
Column(r, n) == IF n = 0 THEN r.id ELSE r.op[n]
Columns == 0..MaxControl
Filled(r) == {n \in Columns : Column(r, n) \notin {None, 0}}

(* Mutant: the columns from op1 on.                                        *)
FromOp1(r) ==
  IF "MASTER" \in r.priority /\ r.op[1] # None THEN {1}
  ELSE IF "NOR_CUSTOMER" \in r.priority THEN Filled(r) \ {0} ELSE {}
control_list(r) ==
  IF "MASTER" \in r.priority /\ r.op[1] # None THEN {1}
  ELSE IF "NOR_CUSTOMER" \in r.priority THEN Filled(r) ELSE {}

(* The first entry has not been written, or one has past the end.          *)
Undefined(r) == control_list(r) \in {{}, Columns}

(* control_list[0], and what comes after it.                               *)
First(r) == CHOOSE n \in control_list(r) : \A m \in control_list(r) : n <= m
Key(r) == Column(r, First(r))
Followed(r) == {Column(r, n) : n \in control_list(r) \ {First(r)}}

(* An operator whose receiving thread cannot be created is taken out again.*)
FilesOperator(r) ==
  /\ \E who \in {username, None} :
       operators' = [operators EXCEPT ![Key(r)] = who]
  /\ UNCHANGED <<customers, relations, astray>>

FilesCustomer(r) ==
  /\ customers' = [customers EXCEPT ![Key(r)] = username]
  /\ relations' = [o \in Id |-> IF o \in Followed(r) THEN relations[o] \cup {Key(r)}
                                ELSE relations[o]]
  /\ UNCHANGED <<operators, astray>>

Files(r) ==
  \/ /\ Undefined(r) /\ astray' = TRUE
     /\ operators' = Nobody /\ customers' = Nobody /\ relations' = NoFollower
  \/ ~Undefined(r) /\ "MASTER" \in r.priority /\ FilesOperator(r)
  \/ ~Undefined(r) /\ "MASTER" \notin r.priority /\ FilesCustomer(r)

Answer ==
  /\ step = "answer" /\ step' = "idle"
  /\ username' = None /\ right' = FALSE /\ row' = None
  /\ \/ /\ row # None /\ row.priority # {} /\ ~astray /\ Files(row)
        /\ logins' = [logins EXCEPT ![username] = @ \cup {row}]
        /\ last' = [last EXCEPT ![username] = row]
     \/ UNCHANGED registryVars
  /\ UNCHANGED <<setVars, accounts, edits, lockVars>>

(* An order cannot be written to a customer: he is removed, but stays on   *)
(* the lists of his operators.  An operator stays in the map for good.     *)
Leave(i) ==
  /\ customers' = [customers EXCEPT ![i] = None]
  /\ UNCHANGED <<setVars, accounts, edits, lockVars, step, askVars, row, operators,
                 relations, astray, logins, last>>

(* The process ends, and the parent starts another one.                    *)
Renew ==
  /\ connected' \in BOOLEAN
  /\ query_mutex' = None /\ res' = FALSE /\ step' = "idle" /\ ping' = "sleep"
  /\ username' = None /\ right' = FALSE /\ row' = None
  /\ operators' = Nobody /\ customers' = Nobody /\ relations' = NoFollower
  /\ astray' = FALSE /\ logins' = NoLogin /\ last' = NoRow
  /\ UNCHANGED <<server, accounts, edits>>

CheckStep == QueryFails \/ Query \/ Fetch \/ Answer
PingStep == PingLock \/ Ping

DbNext ==
  \/ Wake \/ PingStep \/ Lock \/ CheckStep \/ Renew
  \/ \E u \in Name : Edit(u) \/ Ask(u)
  \/ \E i \in Id : Leave(i)

DbSpec == DbInit /\ [][DbNext]_dbVars

-----------------------------------------------------------------------------
(* A row that is as the code expects: an operator has op1, a customer has  *)
(* an id, and what is filled in fits into control_list.                    *)
OperatorsOf(r) == {r.op[n] : n \in 1..MaxControl} \ {None, 0}
IsCustomer(r) == "MASTER" \notin r.priority
Tidy(r) ==
  /\ "MASTER" \in r.priority => r.op[1] \notin {None, 0}
  /\ r.priority = {"NOR_CUSTOMER"} =>
       /\ r.id \notin {None, 0}
       /\ \E n \in 1..MaxControl : r.op[n] \in {None, 0}

AllTidy == \A u \in Name : \A r \in logins[u] : Tidy(r)

(* No two users who have logged in as customers have had the same id.      *)
OwnIds ==
  \A u, v \in Name : \A r \in logins[u], s \in logins[v] :
    IsCustomer(r) /\ IsCustomer(s) /\ r.id = s.id => u = v

(* As long as the rows users have logged in with are tidy and give no two  *)
(* of them the same id, through edits of the table, refused logins and     *)
(* broken lines: a customer is filed under an id of such a row of his,     *)
(* gets the orders of every operator the row of his last login listed, and *)
(* of none that no row of his has listed since the process started; an     *)
(* operator is filed under a number such a row gave him.  For a plain name *)
(* these are the rows of its account; whose they are otherwise, this does  *)
(* not say (MT4DataBase.cpp:91-110, MT4Authroize.cpp:177-190).             *)
RightEntries ==
  AllTidy /\ OwnIds =>
    \A i \in Id, u \in Name :
      /\ customers[i] = u =>
           /\ \E r \in logins[u] : IsCustomer(r) /\ r.id = i
           /\ \A o \in Id : i \in relations[o] =>
                \E r \in logins[u] :
                  IsCustomer(r) /\ r.id = i /\ o \in OperatorsOf(r)
           /\ IsCustomer(last[u]) /\ last[u].id = i =>
                \A o \in OperatorsOf(last[u]) : i \in relations[o]
      /\ operators[i] = u =>
           \E r \in logins[u] : "MASTER" \in r.priority /\ r.op[1] = i

(* Every check of a password comes back, whatever the database answers and *)
(* whenever the line breaks: the mutex is free again on every way out      *)
(* (MT4DataBase.cpp:117, AuthServer MT4DataBase.cpp:103-122).              *)
CheckReturns == step # "idle" ~> step = "idle"
=============================================================================
