--------------------------- MODULE Follower_proofs ---------------------------
(***************************************************************************)
(* Proofs about the Follower EA: its types, that it closes copies of       *)
(* closed positions only, and that no copy outlives its position but for   *)
(* the reasons NoOrphan names.                                             *)
(***************************************************************************)
EXTENDS Follower, SequenceTheorems, TLAPS

-----------------------------------------------------------------------------
(* What the operators on sequences return.                                 *)

LEMMA Removed ==
  ASSUME NEW S, NEW s \in Seq(S), NEW n \in 1..Len(s)
  PROVE  /\ RemoveAt(s, n) \in Seq(S)
         /\ Len(RemoveAt(s, n)) = Len(s) - 1
         /\ \A m \in 1..Len(s) - 1 :
              RemoveAt(s, n)[m] = IF m < n THEN s[m] ELSE s[m + 1]
<1> DEFINE a == SubSeq(s, 1, n - 1)
           b == SubSeq(s, n + 1, Len(s))
           r == a \o b
<1>1. /\ a \in Seq(S) /\ Len(a) = n - 1
      /\ \A m \in 1..n - 1 : a[m] = s[m]
  BY SubSeqProperties
<1>2. /\ b \in Seq(S) /\ Len(b) = Len(s) - n
      /\ \A m \in 1..Len(s) - n : b[m] = s[n + m]
  BY SubSeqProperties
<1>3. /\ r \in Seq(S) /\ Len(r) = Len(s) - 1
      /\ \A m \in 1..Len(s) - 1 :
           r[m] = IF m <= n - 1 THEN a[m] ELSE b[m - (n - 1)]
  <2> HIDE DEF a, b
  <2> QED BY <1>1, <1>2, ConcatProperties
<1> HIDE DEF a, b, r
<1>4. ASSUME NEW m \in 1..Len(s) - 1
      PROVE  r[m] = IF m < n THEN s[m] ELSE s[m + 1]
  <2>1. CASE m <= n - 1
    BY <1>1, <1>3, <2>1
  <2>2. CASE ~(m <= n - 1)
    <3>1. m - (n - 1) \in 1..Len(s) - n /\ n + (m - (n - 1)) = m + 1
      BY <2>2
    <3>2. r[m] = b[m - (n - 1)]
      BY <1>3, <2>2
    <3> QED BY <1>2, <2>2, <3>1, <3>2
  <2> QED BY <2>1, <2>2
<1> QED BY <1>3, <1>4 DEF RemoveAt, a, b, r

LEMMA Appended ==
  ASSUME NEW S, NEW s \in Seq(S), NEW e \in S
  PROVE  /\ Append(s, e) \in Seq(S) /\ Len(Append(s, e)) = Len(s) + 1
         /\ \A n \in 1..Len(s) : Append(s, e)[n] = s[n]
         /\ Append(s, e)[Len(s) + 1] = e
BY AppendProperties

LEMMA Behead ==
  ASSUME NEW S, NEW s \in Seq(S), s # <<>>
  PROVE  /\ Head(s) = s[1] /\ 1 \in 1..Len(s) /\ Tail(s) \in Seq(S)
         /\ Len(Tail(s)) = Len(s) - 1
         /\ \A n \in 1..Len(s) - 1 : Tail(s)[n] = s[n + 1]
BY HeadTailProperties, LenProperties, EmptySeq

LEMMA WaitingMeans ==
  ASSUME NEW t
  PROVE  t \in Waiting <=> \E n \in 1..Len(inbox) :
                             inbox[n].operate = CLOSE /\ inbox[n].ticket = t
BY DEF Waiting

-----------------------------------------------------------------------------
(* The invariant.                                                          *)

At(n, op, t) == n \in 1..Len(inbox) /\ inbox[n].operate = op /\ inbox[n].ticket = t

(* The connection is empty and nothing new comes into it until a login     *)
(* succeeds; before init nothing has been counted.                         *)
Linked ==
  /\ ~initialized => inbox = <<>> /\ conn # "up"
  /\ pc = "off" => ~initialized /\ retry_login_count = 0

(* Nothing is sent about a position before it is opened, and its close     *)
(* only when it is closed.                                                 *)
Told ==
  /\ \A t \in Ticket : life[t] = "none" =>
       ~Holds(t) /\ \A n \in 1..Len(inbox) : inbox[n].ticket # t
  /\ \A t \in Ticket : life[t] = "twice" => t \in excused
  /\ \A n \in 1..Len(inbox) :
       inbox[n].operate = CLOSE => life[inbox[n].ticket] = "closed"
  /\ magic # None => life[magic] = "closed"

(* Of a ticket that is not excused there is one open, in the connection,   *)
(* before everything else about it, or one copy.                           *)
Single ==
  \A t \in Ticket \ excused :
    /\ \A n \in 1..Len(inbox) : At(n, OPEN, t) =>
         /\ ~Holds(t) /\ magic # t
         /\ \A m \in 1..Len(inbox) : m < n => inbox[m].ticket # t
    /\ \A m, n \in 1..Len(pool) : pool[m] = t /\ pool[n] = t => m = n

(* If its position is closed, then the close is on the way behind the      *)
(* open, or comes for the copy.                                            *)
Follows ==
  \A t \in Ticket \ excused : life[t] = "closed" =>
    /\ (\E n \in 1..Len(inbox) : At(n, OPEN, t)) => t \in Waiting
    /\ Holds(t) /\ ~SharesNumber(t) => t \in Waiting \/ magic = t

(* The loop has not passed the copy it looks for, and will get to it.      *)
Ahead ==
  pc = "close" =>
    /\ Len(pool) <= OrderTotal
    /\ magic \notin excused /\ ~SharesNumber(magic) =>
         \A n \in 1..Len(pool) : pool[n] = magic => i < n

Inv == TypeOK /\ Linked /\ Told /\ Single /\ Follows /\ Ahead

-----------------------------------------------------------------------------
(* What an action does to the connection and to the pool.                  *)

LEMMA DeliverEffect ==
  ASSUME TypeOK, NEW op \in {OPEN, CLOSE, MODIFY}, NEW t \in Ticket,
         Deliver(op, t)
  PROVE  \/ /\ conn = "up" /\ inbox' \in Seq(Order) /\ excused' = excused
            /\ Len(inbox') = Len(inbox) + 1 /\ Len(inbox') <= MaxBox
            /\ \A n \in 1..Len(inbox) : inbox'[n] = inbox[n]
            /\ inbox'[Len(inbox) + 1].operate = op
            /\ inbox'[Len(inbox) + 1].ticket = t
         \/ /\ inbox' = inbox
            /\ excused' = IF op = CLOSE THEN excused \cup {t} ELSE excused
<1> DEFINE o == [operate |-> op, ticket |-> t]
<1>1. o \in Order
  BY DEF Order
<1>2. inbox \in Seq(Order)
  BY DEF TypeOK
<1>3. CASE /\ conn = "up" /\ Len(inbox) < MaxBox /\ UNCHANGED excused
           /\ inbox' = Append(inbox, o)
  <2>1. /\ Append(inbox, o) \in Seq(Order)
        /\ Len(Append(inbox, o)) = Len(inbox) + 1
        /\ \A n \in 1..Len(inbox) : Append(inbox, o)[n] = inbox[n]
        /\ Append(inbox, o)[Len(inbox) + 1] = o
    BY <1>1, <1>2, Appended
  <2>2. Len(inbox) \in Nat /\ MaxBox \in Nat
    BY <1>2, LenProperties, FollowerAssumption
  <2> QED BY <1>3, <2>1, <2>2
<1>4. CASE /\ UNCHANGED inbox
           /\ excused' = IF op = CLOSE THEN excused \cup {t} ELSE excused
  BY <1>4
<1> QED BY <1>3, <1>4 DEF Deliver

LEMMA ReceivesEffect ==
  ASSUME TypeOK, NEW op \in {OPEN, CLOSE, MODIFY}, Receives(op)
  PROVE  /\ 1 \in 1..Len(inbox) /\ inbox' \in Seq(Order)
         /\ Head(inbox) = inbox[1] /\ inbox[1].operate = op
         /\ inbox[1].ticket \in Ticket
         /\ Len(inbox') = Len(inbox) - 1
         /\ \A n \in 1..Len(inbox') : n + 1 \in 1..Len(inbox) /\ inbox'[n] = inbox[n + 1]
<1>1. inbox \in Seq(Order) /\ inbox # <<>> /\ inbox' = Tail(inbox)
  BY DEF TypeOK, Receives
<1>2. /\ Head(inbox) = inbox[1] /\ 1 \in 1..Len(inbox) /\ Tail(inbox) \in Seq(Order)
      /\ Len(Tail(inbox)) = Len(inbox) - 1
      /\ \A n \in 1..Len(inbox) - 1 : Tail(inbox)[n] = inbox[n + 1]
  BY <1>1, Behead
<1>3. inbox[1] \in Order /\ Len(inbox) \in Nat
  BY <1>1, <1>2, ElementOfSeq, LenProperties
<1> QED BY <1>1, <1>2, <1>3 DEF Receives, Order

LEMMA PoolShrinks ==
  ASSUME TypeOK, NEW n \in 1..Len(pool), pool' = RemoveAt(pool, n)
  PROVE  /\ pool' \in Seq(Ticket) /\ Len(pool') = Len(pool) - 1
         /\ \A m \in 1..Len(pool') :
              IF m < n THEN m \in 1..Len(pool) /\ pool'[m] = pool[m]
              ELSE m + 1 \in 1..Len(pool) /\ pool'[m] = pool[m + 1]
         /\ \A t : Holds(t)' => Holds(t)
<1>1. pool \in Seq(Ticket) /\ Len(pool) \in Nat
  BY LenProperties DEF TypeOK
<1>2. /\ pool' \in Seq(Ticket) /\ Len(pool') = Len(pool) - 1
      /\ \A m \in 1..Len(pool) - 1 :
           pool'[m] = IF m < n THEN pool[m] ELSE pool[m + 1]
  BY <1>1, Removed
<1>3. \A m \in 1..Len(pool') :
        IF m < n THEN m \in 1..Len(pool) /\ pool'[m] = pool[m]
        ELSE m + 1 \in 1..Len(pool) /\ pool'[m] = pool[m + 1]
  BY <1>1, <1>2
<1>4. \A t : Holds(t)' => Holds(t)
  BY <1>3 DEF Holds
<1> QED BY <1>2, <1>3, <1>4

-----------------------------------------------------------------------------
(* Types.                                                                  *)

LEMMA Starts == Init => Inv
<1> SUFFICES ASSUME Init PROVE Inv
  OBVIOUS
<1>1. /\ <<>> \in Seq(Order) /\ <<>> \in Seq(Ticket) /\ Len(<<>>) = 0
  BY EmptySeq
<1>2. inbox = <<>> /\ pool = <<>> /\ magic = None /\ pc = "off" /\ ~initialized
  BY DEF Init
<1>3. TypeOK
  <2>1. life \in [Ticket -> {"none", "open", "twice", "closed"}]
    BY DEF Init
  <2>2. 0 \in 0..3 /\ 0 \in 0..MaxPool /\ 0 \in 0..MaxDrop /\ 0 <= MaxBox
    BY FollowerAssumption
  <2>3. inbox \in Seq(Order) /\ Len(inbox) = 0 /\ pool \in Seq(Ticket) /\ Len(pool) = 0
    BY <1>1 DEF Init
  <2>4. initialized \in BOOLEAN /\ sized \in BOOLEAN
    BY DEF Init
  <2> QED BY <2>1, <2>2, <2>3, <2>4, FollowerAssumption DEF Init, TypeOK
<1>4. Linked /\ Ahead
  BY DEF Init, Linked, Ahead
<1>5. Told /\ Single /\ Follows
  BY <1>1, <1>2 DEF Init, Told, Single, Follows, Holds, At
<1> QED BY <1>3, <1>4, <1>5 DEF Inv

LEMMA TypeStep == Inv /\ [Next]_vars => TypeOK'
<1> SUFFICES ASSUME Inv, [Next]_vars PROVE TypeOK'
  OBVIOUS
<1>0. TypeOK /\ Linked /\ MaxPool \in Nat /\ MaxBox \in Nat /\ MaxDrop \in Nat
  BY FollowerAssumption DEF Inv
<1>1. /\ inbox \in Seq(Order) /\ pool \in Seq(Ticket)
      /\ Len(inbox) \in Nat /\ Len(pool) \in Nat
      /\ <<>> \in Seq(Order) /\ Len(<<>>) = 0
  BY <1>0, LenProperties, EmptySeq DEF TypeOK
<1>2. ASSUME NEW t \in Ticket, Trade(t) PROVE TypeOK'
  <2>1. /\ inbox' \in Seq(Order) /\ Len(inbox') <= MaxBox
        /\ excused' \in SUBSET Ticket
        /\ conn \in {"off", "reset"} => inbox' = <<>>
    <3>1. ASSUME NEW op \in {OPEN, CLOSE, MODIFY}, Deliver(op, t)
          PROVE  /\ inbox' \in Seq(Order) /\ Len(inbox') <= MaxBox
                 /\ excused' \in SUBSET Ticket
                 /\ conn \in {"off", "reset"} => inbox' = <<>>
      BY <1>0, <1>1, <3>1, DeliverEffect DEF TypeOK
    <3>2. CASE /\ conn = "up" /\ Len(inbox) < MaxBox
               /\ inbox' = Append(inbox, [operate |-> OPEN, ticket |-> t])
               /\ excused' = excused \cup {t}
      <4>1. [operate |-> OPEN, ticket |-> t] \in Order
        BY DEF Order
      <4> QED BY <1>0, <1>1, <3>2, <4>1, Appended DEF TypeOK
    <3> QED BY <1>2, <3>1, <3>2 DEF Trade
  <2>2. life' \in [Ticket -> {"none", "open", "twice", "closed"}]
    BY <1>0, <1>2 DEF Trade, TypeOK
  <2>3. UNCHANGED <<number, conn, drops, loginVars, pc, pool, orderVars>>
    BY <1>2 DEF Trade
  <2> QED BY <1>0, <2>1, <2>2, <2>3 DEF TypeOK, loginVars, orderVars
<1>3. ASSUME NEW n \in 1..MaxPool, Stopped(n) PROVE TypeOK'
  <2>1. pool' \in Seq(Ticket) /\ Len(pool') <= MaxPool
    BY <1>0, <1>1, <1>3, PoolShrinks DEF Stopped, TypeOK
  <2>2. excused' \in SUBSET Ticket
    BY <1>0, <1>3 DEF Stopped, TypeOK
  <2> QED BY <1>0, <1>3, <2>1, <2>2
       DEF TypeOK, Stopped, marketVars, loginVars, orderVars
<1>4. CASE Drop
  <2>1. Waiting \in SUBSET Ticket
    <3>1. ASSUME NEW n \in 1..Len(inbox) PROVE inbox[n].ticket \in Ticket
      <4>1. inbox[n] \in Order
        BY <1>1, ElementOfSeq
      <4> QED BY <4>1 DEF Order
    <3> QED BY <3>1 DEF Waiting
  <2>2. /\ inbox' \in Seq(Order) /\ Len(inbox') <= MaxBox
        /\ excused' \in SUBSET Ticket
        /\ conn' \in {"off", "up", "closed", "reset"}
        /\ conn' \in {"off", "reset"} => inbox' = <<>>
    <3>1. CASE conn' = "closed" /\ UNCHANGED <<inbox, excused>>
      BY <1>0, <3>1 DEF TypeOK
    <3>2. CASE conn' = "reset" /\ inbox' = <<>> /\ excused' = excused \cup Waiting
      BY <1>0, <1>1, <2>1, <3>2 DEF TypeOK
    <3> QED BY <1>4, <3>1, <3>2 DEF Drop
  <2>3. drops' \in 0..MaxDrop
    BY <1>0, <1>4 DEF TypeOK, Drop
  <2> QED BY <1>0, <1>4, <2>2, <2>3 DEF TypeOK, Drop, loginVars, orderVars
<1>5. CASE Attach \/ Retry \/ Ended
  <2>1. inbox' \in Seq(Order) /\ Len(inbox') <= MaxBox
        /\ (conn' \in {"off", "reset"} => inbox' = <<>>)
    BY <1>0, <1>1, <1>5 DEF Attach, Retry, Ended, Login, TypeOK, Linked, marketVars
  <2>2. conn' \in {"off", "up", "closed", "reset"} /\ initialized' \in BOOLEAN
        /\ sized' \in BOOLEAN /\ retry_login_count' \in 0..3
    <3>1. CASE Attach
      <4>1. retry_login_count' \in 0..3 /\ conn' \in {"off", "up"}
        BY <1>0, <3>1 DEF Attach, Login, Linked
      <4>2. initialized' \in BOOLEAN /\ sized' \in BOOLEAN
        BY <3>1 DEF Attach, Login
      <4> QED BY <4>1, <4>2
    <3>2. CASE Retry
      <4>1. retry_login_count' \in 0..3 /\ conn' \in {"off", "up"}
        BY <1>0, <3>2 DEF Retry, Login, TypeOK
      <4>2. initialized' \in BOOLEAN /\ sized' \in BOOLEAN
        BY <1>0, <3>2 DEF Retry, Login, TypeOK
      <4> QED BY <4>1, <4>2
    <3>3. CASE Ended
      BY <1>0, <3>3 DEF Ended, TypeOK, marketVars
    <3> QED BY <1>5, <3>1, <3>2, <3>3
  <2>3. pc' \in {"off", "run", "close"} /\ (pc' = "close") = (magic' # None)
    BY <1>0, <1>5 DEF Attach, Retry, Ended, TypeOK, orderVars
  <2> QED BY <1>0, <1>5, <2>1, <2>2, <2>3
       DEF TypeOK, Attach, Retry, Ended, marketVars, orderVars
<1>6. ASSUME NEW op \in {OPEN, CLOSE, MODIFY}, Receives(op)
      PROVE  /\ inbox' \in Seq(Order) /\ Len(inbox') <= MaxBox
             /\ conn' \in {"off", "reset"} => inbox' = <<>>
             /\ Head(inbox).ticket \in Ticket
  <2>1. inbox # <<>> /\ conn' = conn
    BY <1>6 DEF Receives
  <2> QED BY <1>0, <1>1, <1>6, <2>1, ReceivesEffect DEF TypeOK
<1>7. CASE MakeOpen
  <2>1. Receives(OPEN) /\ OPEN \in {OPEN, CLOSE, MODIFY}
    BY <1>7 DEF MakeOpen
  <2>2. Head(inbox).ticket \in Ticket
    BY <1>6, <2>1
  <2>3. pool' \in Seq(Ticket) /\ Len(pool') <= MaxPool
    <3> DEFINE c == Append(pool, Head(inbox).ticket)
    <3>1. c \in Seq(Ticket) /\ Len(c) = Len(pool) + 1
      BY <1>1, <2>2, Appended
    <3> HIDE DEF c
    <3>2. pool' = pool \/ (Len(pool) < MaxPool /\ pool' = c)
      BY <1>7 DEF MakeOpen, c
    <3> QED BY <1>0, <1>1, <3>1, <3>2 DEF TypeOK
  <2> QED BY <1>0, <1>6, <1>7, <2>1, <2>3
       DEF TypeOK, MakeOpen, Receives, loginVars, orderVars
<1>8. CASE MakeModify
  <2>1. Receives(MODIFY) /\ MODIFY \in {OPEN, CLOSE, MODIFY}
    BY <1>8 DEF MakeModify
  <2> QED BY <1>0, <1>6, <1>8, <2>1
       DEF TypeOK, MakeModify, Receives, loginVars, orderVars
<1>9. CASE MakeClose
  <2>1. Receives(CLOSE) /\ CLOSE \in {OPEN, CLOSE, MODIFY}
    BY <1>9 DEF MakeClose
  <2>2. Head(inbox).ticket \in Ticket /\ Head(inbox).ticket # None
    BY <1>6, <2>1, FollowerAssumption
  <2> QED BY <1>0, <1>1, <1>6, <1>9, <2>1, <2>2
       DEF TypeOK, MakeClose, Receives, loginVars, Total
<1>10. CASE CloseTurn
  <2>1. pool' \in Seq(Ticket) /\ Len(pool') <= MaxPool /\ excused' \in SUBSET Ticket
    <3>1. CASE i < Len(pool) /\ IsCopy(i + 1)
      <4>1. i + 1 \in 1..Len(pool)
        BY <1>0, <1>1, <3>1 DEF TypeOK
      <4> QED BY <1>0, <1>1, <1>10, <3>1, <4>1, PoolShrinks DEF CloseTurn, TypeOK
    <3>2. CASE ~(i < Len(pool) /\ IsCopy(i + 1))
      BY <1>0, <1>10, <3>2 DEF CloseTurn, TypeOK
    <3> QED BY <3>1, <3>2
  <2>2. i' \in 0..MaxPool
    BY <1>0, <1>10 DEF CloseTurn, TypeOK
  <2> QED BY <1>0, <1>10, <2>1, <2>2 DEF TypeOK, CloseTurn, marketVars, loginVars
<1>11. CASE CloseDone
  BY <1>0, <1>11 DEF TypeOK, CloseDone, Forgets, marketVars, loginVars
<1>12. CASE UNCHANGED vars
  BY <1>0, <1>12 DEF TypeOK, vars, marketVars, loginVars, orderVars
<1> QED BY <1>2, <1>3, <1>4, <1>5, <1>7, <1>8, <1>9, <1>10, <1>11, <1>12 DEF Next, EA

-----------------------------------------------------------------------------
(* What the traders' side and the logins do.                               *)

Adds(op, t) ==
  /\ Len(inbox') = Len(inbox) + 1
  /\ \A n \in 1..Len(inbox) : inbox'[n] = inbox[n]
  /\ inbox'[Len(inbox) + 1].operate = op
  /\ inbox'[Len(inbox) + 1].ticket = t

(* The position's life becomes l, and op is sent or lost.                  *)
Trades(t, op, l) ==
  /\ life[t] # "closed" /\ l # "none" /\ life' = [life EXCEPT ![t] = l]
  /\ op = CLOSE <=> l = "closed"
  /\ op = OPEN => life[t] = "none" \/ l = "twice"
  /\ l = "twice" => t \in excused'
  /\ excused \subseteq excused'
  /\ Adds(op, t) \/ (inbox' = inbox /\ (op = CLOSE => t \in excused'))

LEMMA TradeEffect ==
  ASSUME TypeOK, Told, NEW t \in Ticket, Trade(t)
  PROVE  \E op \in {OPEN, CLOSE, MODIFY}, l \in {"open", "twice", "closed"} :
           Trades(t, op, l)
<1>1. ASSUME NEW op \in {OPEN, CLOSE, MODIFY}, Deliver(op, t)
      PROVE  /\ excused \subseteq excused'
             /\ Adds(op, t) \/ (inbox' = inbox /\ (op = CLOSE => t \in excused'))
  BY <1>1, DeliverEffect DEF Adds
<1>2. life[t] = "twice" => t \in excused
  BY DEF Told
<1>3. life \in [Ticket -> {"none", "open", "twice", "closed"}]
  BY DEF TypeOK
<1>4. OPEN # CLOSE /\ MODIFY # CLOSE /\ OPEN # MODIFY
  BY DEF OPEN, CLOSE, MODIFY
<1>5. CASE life[t] = "none" /\ Deliver(OPEN, t) /\ life' = [life EXCEPT ![t] = "open"]
  <2>1. Trades(t, OPEN, "open")
    BY <1>1, <1>4, <1>5 DEF Trades
  <2> QED BY <2>1
<1>6. CASE /\ life[t] = "open" /\ conn = "up" /\ Len(inbox) < MaxBox
           /\ inbox' = Append(inbox, [operate |-> OPEN, ticket |-> t])
           /\ excused' = excused \cup {t} /\ life' = [life EXCEPT ![t] = "twice"]
  <2>1. [operate |-> OPEN, ticket |-> t] \in Order /\ inbox \in Seq(Order)
    BY DEF Order, TypeOK
  <2>2. Adds(OPEN, t)
    BY <1>6, <2>1, Appended DEF Adds
  <2>3. Trades(t, OPEN, "twice")
    BY <1>4, <1>6, <2>2 DEF Trades
  <2> QED BY <2>3
<1>7. CASE life[t] \in {"open", "twice"} /\ Deliver(MODIFY, t) /\ UNCHANGED life
  <2>1. life' = [life EXCEPT ![t] = life[t]]
    BY <1>3, <1>7
  <2>2. Trades(t, MODIFY, life[t])
    BY <1>1, <1>2, <1>4, <1>7, <2>1 DEF Trades
  <2> QED BY <1>7, <2>2
<1>8. CASE /\ life[t] \in {"open", "twice"} /\ Deliver(CLOSE, t)
           /\ life' = [life EXCEPT ![t] = "closed"]
  <2>1. Trades(t, CLOSE, "closed")
    BY <1>1, <1>4, <1>8 DEF Trades
  <2> QED BY <2>1
<1> QED BY <1>5, <1>6, <1>7, <1>8 DEF Trade

(* What the invariant says of positions is about these.                    *)
Quiet == /\ UNCHANGED <<number, life, pool, inbox, magic, OrderTotal, i, excused>>
         /\ pc' = "close" => pc = "close"

LEMMA LoginsAreQuiet ==
  ASSUME Linked, Attach \/ Retry \/ Ended \/ UNCHANGED vars
  PROVE  Quiet
<1>1. CASE Attach
  BY <1>1 DEF Attach, orderVars, Quiet
<1>2. CASE Retry
  BY <1>2 DEF Retry, Linked, orderVars, Quiet
<1>3. CASE Ended
  BY <1>3 DEF Ended, marketVars, orderVars, Quiet
<1>4. CASE UNCHANGED vars
  BY <1>4 DEF vars, marketVars, orderVars, Quiet
<1> QED BY <1>1, <1>2, <1>3, <1>4

LEMMA QuietStep ==
  ASSUME Quiet
  PROVE  (Told => Told') /\ (Single => Single') /\ (Follows => Follows') /\ (Ahead => Ahead')
<1>1. Told => Told'
  BY DEF Quiet, Told, Holds
<1>2. Single => Single'
  BY DEF Quiet, Single, Holds, At
<1>3. Follows => Follows'
  BY DEF Quiet, Follows, Holds, At, SharesNumber, Waiting
<1>4. Ahead => Ahead'
  BY DEF Quiet, Ahead, SharesNumber
<1> QED BY <1>1, <1>2, <1>3, <1>4

LEMMA LinkedStep == Inv /\ [Next]_vars => Linked'
<1> SUFFICES ASSUME Inv, [Next]_vars PROVE Linked'
  OBVIOUS
<1>0. TypeOK /\ Linked
  BY DEF Inv
<1>1. ASSUME NEW t \in Ticket, Trade(t) PROVE Linked'
  <2>1. UNCHANGED <<conn, initialized, retry_login_count, pc>>
    BY <1>1 DEF Trade, loginVars
  <2>2. conn # "up" => inbox' = inbox
    BY <1>1 DEF Trade, Deliver
  <2> QED BY <1>0, <2>1, <2>2 DEF Linked
<1>2. ASSUME NEW n \in 1..MaxPool, Stopped(n) PROVE Linked'
  BY <1>0, <1>2 DEF Linked, Stopped, marketVars, loginVars
<1>3. CASE Drop
  BY <1>0, <1>3 DEF Linked, Drop, loginVars
<1>4. CASE Attach \/ Retry
  BY <1>0, <1>4 DEF Linked, Attach, Retry, Login
<1>5. CASE Ended
  BY <1>0, <1>5 DEF Linked, Ended, StreamEnds, marketVars
<1>6. ASSUME NEW op, Receives(op), pc' # "off" PROVE Linked'
  BY <1>6 DEF Receives, Linked, loginVars
<1>7. CASE MakeOpen \/ MakeModify \/ MakeClose
  <2>1. \E op : Receives(op)
    BY <1>7 DEF MakeOpen, MakeModify, MakeClose
  <2>2. pc' # "off"
    BY <1>7 DEF MakeOpen, MakeModify, MakeClose, Receives
  <2> QED BY <1>6, <2>1, <2>2
<1>8. CASE CloseTurn \/ CloseDone
  BY <1>0, <1>8 DEF Linked, CloseTurn, CloseDone, marketVars, loginVars
<1>9. CASE UNCHANGED vars
  BY <1>0, <1>9 DEF Linked, vars, marketVars, loginVars
<1> QED BY <1>1, <1>2, <1>3, <1>4, <1>5, <1>7, <1>8, <1>9 DEF Next, EA

-----------------------------------------------------------------------------
(* One lemma for each kind of step.                                        *)

Positions == Told /\ Single /\ Follows /\ Ahead

LEMMA TradeStep ==
  ASSUME Inv, NEW t \in Ticket, Trade(t)
  PROVE  Positions'
<1>0. TypeOK /\ Told /\ Single /\ Follows /\ Ahead
  BY DEF Inv
<1>1. PICK op \in {OPEN, CLOSE, MODIFY}, l \in {"open", "twice", "closed"} :
        Trades(t, op, l)
  BY <1>0, TradeEffect
<1>2. UNCHANGED <<number, pc, pool, magic, OrderTotal, i>>
  BY DEF Trade, orderVars
<1>3. /\ life \in [Ticket -> {"none", "open", "twice", "closed"}]
      /\ inbox \in Seq(Order) /\ Len(inbox) \in Nat /\ magic \in Ticket \cup {None}
  BY <1>0, LenProperties DEF TypeOK
<1>4. /\ \A u \in Ticket : life'[u] = IF u = t THEN l ELSE life[u]
      /\ excused \subseteq excused' /\ life[t] # "closed" /\ l # "none"
  BY <1>1, <1>3 DEF Trades
<1>5. ASSUME NEW n \in 1..Len(inbox')
      PROVE  \/ n \in 1..Len(inbox) /\ inbox'[n] = inbox[n]
             \/ /\ n = Len(inbox) + 1 /\ Adds(op, t)
                /\ inbox'[n].operate = op /\ inbox'[n].ticket = t
  BY <1>1, <1>3 DEF Trades, Adds
<1>6. ASSUME NEW n \in 1..Len(inbox)
      PROVE  n \in 1..Len(inbox') /\ inbox'[n] = inbox[n] /\ inbox[n].ticket \in Ticket
  <2>1. inbox[n] \in Order
    BY <1>3, ElementOfSeq
  <2> QED BY <1>1, <1>3, <2>1 DEF Trades, Adds, Order
<1>7. magic # t
  BY <1>0, <1>4, FollowerAssumption DEF Told
<1>8. Told'
  <2>1. ASSUME NEW u \in Ticket, life'[u] = "none"
        PROVE  ~Holds(u)' /\ \A n \in 1..Len(inbox') : inbox'[n].ticket # u
    <3>1. u # t /\ life[u] = "none"
      BY <1>4, <2>1
    <3> QED BY <1>0, <1>2, <1>5, <3>1 DEF Told, Holds
  <2>2. ASSUME NEW u \in Ticket, life'[u] = "twice" PROVE u \in excused'
    BY <1>0, <1>1, <1>4, <2>2 DEF Told, Trades
  <2>3. ASSUME NEW n \in 1..Len(inbox'), inbox'[n].operate = CLOSE
        PROVE  life'[inbox'[n].ticket] = "closed"
    <3>1. CASE n \in 1..Len(inbox) /\ inbox'[n] = inbox[n]
      BY <1>0, <1>4, <1>6, <2>3, <3>1 DEF Told
    <3>2. CASE inbox'[n].operate = op /\ inbox'[n].ticket = t
      BY <1>1, <1>4, <2>3, <3>2 DEF Trades
    <3> QED BY <1>5, <3>1, <3>2
  <2>4. magic' # None => life'[magic'] = "closed"
    BY <1>0, <1>2, <1>3, <1>4, <1>7 DEF Told
  <2> QED BY <2>1, <2>2, <2>3, <2>4 DEF Told
<1>9. Single'
  <2> SUFFICES ASSUME NEW u \in Ticket, u \notin excused'
               PROVE  /\ \A n \in 1..Len(inbox') : At(n, OPEN, u)' =>
                           /\ ~Holds(u)' /\ magic' # u
                           /\ \A m \in 1..Len(inbox') : m < n => inbox'[m].ticket # u
                      /\ \A m, n \in 1..Len(pool') : pool'[m] = u /\ pool'[n] = u => m = n
    BY DEF Single
  <2>1. u \in Ticket \ excused /\ (Holds(u)' <=> Holds(u))
    BY <1>2, <1>4 DEF Holds
  <2>2. ASSUME NEW n \in 1..Len(inbox'), At(n, OPEN, u)'
        PROVE  /\ ~Holds(u) /\ magic # u
               /\ \A m \in 1..Len(inbox') : m < n => inbox'[m].ticket # u
    <3>1. CASE n \in 1..Len(inbox) /\ inbox'[n] = inbox[n]
      <4>1. At(n, OPEN, u)
        BY <2>2, <3>1 DEF At
      <4>2. \A m \in 1..Len(inbox') : m < n => m \in 1..Len(inbox)
        BY <1>3, <3>1
      <4> QED BY <1>0, <1>6, <2>1, <3>1, <4>1, <4>2 DEF Single
    <3>2. CASE /\ n = Len(inbox) + 1 /\ Adds(op, t)
               /\ inbox'[n].operate = op /\ inbox'[n].ticket = t
      <4>1. u = t /\ op = OPEN
        BY <2>2, <3>2 DEF At
      <4>2. life[t] = "none"
        BY <1>1, <4>1 DEF Trades
      <4>3. \A m \in 1..Len(inbox') : m < n => m \in 1..Len(inbox)
        BY <1>3, <3>2
      <4> QED BY <1>0, <1>6, <1>7, <4>1, <4>2, <4>3 DEF Told
    <3> QED BY <1>5, <3>1, <3>2
  <2> QED BY <1>0, <1>2, <2>1, <2>2 DEF Single
<1>10. Follows'
  <2> SUFFICES ASSUME NEW u \in Ticket, u \notin excused', life'[u] = "closed"
               PROVE  /\ (\E n \in 1..Len(inbox') : At(n, OPEN, u)') => u \in Waiting'
                      /\ Holds(u)' /\ ~SharesNumber(u)' => u \in Waiting' \/ magic' = u
    BY DEF Follows
  <2>1. CASE u = t
    <3>1. op = CLOSE /\ Adds(op, t)
      BY <1>1, <1>4, <2>1 DEF Trades
    <3>2. Len(inbox) + 1 \in 1..Len(inbox')
      BY <1>3, <3>1 DEF Adds
    <3> QED BY <2>1, <3>1, <3>2 DEF Adds, Waiting
  <2>2. CASE u # t
    <3>1. u \in Ticket \ excused /\ life[u] = "closed"
      BY <1>4, <2>2
    <3>2. u \in Waiting => u \in Waiting'
      BY <1>6 DEF Waiting
    <3>3. (\E n \in 1..Len(inbox') : At(n, OPEN, u)') => \E n \in 1..Len(inbox) : At(n, OPEN, u)
      BY <1>5, <2>2 DEF At
    <3>4. (Holds(u)' <=> Holds(u)) /\ (SharesNumber(u)' <=> SharesNumber(u))
      BY <1>2 DEF Holds, SharesNumber
    <3> QED BY <1>0, <1>2, <3>1, <3>2, <3>3, <3>4 DEF Follows
  <2> QED BY <2>1, <2>2
<1>11. Ahead'
  BY <1>0, <1>2, <1>4 DEF Ahead, SharesNumber
<1> QED BY <1>8, <1>9, <1>10, <1>11 DEF Positions

LEMMA DropStep ==
  ASSUME Inv, Drop
  PROVE  Positions'
<1>0. TypeOK /\ Told /\ Single /\ Follows /\ Ahead
  BY DEF Inv
<1>1. UNCHANGED <<number, life, pc, pool, magic, OrderTotal, i>>
  BY DEF Drop, orderVars
<1>2. CASE UNCHANGED <<inbox, excused>>
  <2>1. Quiet
    BY <1>1, <1>2 DEF Quiet
  <2> QED BY <1>0, <2>1, QuietStep DEF Positions
<1>3. CASE inbox' = <<>> /\ excused' = excused \cup Waiting
  <2>1. 1..Len(inbox') = {}
    BY <1>3, EmptySeq
  <2>2. Told'
    BY <1>0, <1>1, <1>3, <2>1 DEF Told, Holds
  <2>3. Single'
    BY <1>0, <1>1, <1>3, <2>1 DEF Single
  <2>4. \A u : (Holds(u)' <=> Holds(u)) /\ (SharesNumber(u)' <=> SharesNumber(u))
    BY <1>1 DEF Holds, SharesNumber
  <2>5. Follows'
    BY <1>0, <1>1, <1>3, <2>1, <2>4 DEF Follows
  <2>6. Ahead'
    BY <1>0, <1>1, <1>3, <2>4 DEF Ahead
  <2> QED BY <2>2, <2>3, <2>5, <2>6 DEF Positions
<1> QED BY <1>2, <1>3 DEF Drop

(* A copy has gone, by the terminal or by the loop.                        *)
LEMMA Shrunk ==
  ASSUME Inv, NEW k \in 1..Len(pool), pool' = RemoveAt(pool, k),
         UNCHANGED <<number, life, inbox, magic, OrderTotal>>, excused \subseteq excused'
  PROVE  /\ Told' /\ Single' /\ Follows'
         /\ Len(pool) <= OrderTotal => Len(pool') <= OrderTotal'
<1>0. TypeOK /\ Told /\ Single /\ Follows
  BY DEF Inv
<1>1. /\ pool' \in Seq(Ticket) /\ Len(pool') = Len(pool) - 1
      /\ \A m \in 1..Len(pool') :
           IF m < k THEN m \in 1..Len(pool) /\ pool'[m] = pool[m]
           ELSE m + 1 \in 1..Len(pool) /\ pool'[m] = pool[m + 1]
      /\ \A u : Holds(u)' => Holds(u)
  BY <1>0, PoolShrinks
<1>2. Told'
  BY <1>0, <1>1 DEF Told
<1>3. Single'
  <2>1. ASSUME NEW u \in Ticket, u \notin excused', NEW m \in 1..Len(pool'),
               NEW n \in 1..Len(pool'), pool'[m] = u, pool'[n] = u
        PROVE  m = n
    <3> DEFINE From(j) == IF j < k THEN j ELSE j + 1
    <3>1. /\ From(m) \in 1..Len(pool) /\ pool[From(m)] = u
          /\ From(n) \in 1..Len(pool) /\ pool[From(n)] = u
      BY <1>1, <2>1
    <3>2. From(m) = From(n)
      <4> HIDE DEF From
      <4> QED BY <1>0, <2>1, <3>1 DEF Single
    <3> QED BY <3>2
  <2>2. ASSUME NEW u \in Ticket, u \notin excused', NEW n \in 1..Len(inbox'), At(n, OPEN, u)'
        PROVE  /\ ~Holds(u)' /\ magic' # u
               /\ \A m \in 1..Len(inbox') : m < n => inbox'[m].ticket # u
    <3>1. u \in Ticket \ excused /\ n \in 1..Len(inbox) /\ At(n, OPEN, u)
      BY <2>2 DEF At
    <3> QED BY <1>0, <1>1, <3>1 DEF Single
  <2> QED BY <2>1, <2>2 DEF Single
<1>4. Follows'
  <2>1. \A u : SharesNumber(u)' <=> SharesNumber(u)
    BY DEF SharesNumber
  <2> QED BY <1>0, <1>1, <2>1 DEF Follows, At, Waiting
<1>5. Len(pool) <= OrderTotal => Len(pool') <= OrderTotal'
  <2>1. Len(pool) \in Nat /\ OrderTotal \in Nat
    BY <1>0, LenProperties, FollowerAssumption DEF TypeOK
  <2> QED BY <1>1, <2>1
<1> QED BY <1>2, <1>3, <1>4, <1>5

LEMMA StoppedStep ==
  ASSUME Inv, NEW k \in 1..MaxPool, Stopped(k)
  PROVE  Positions'
<1>1. /\ k \in 1..Len(pool) /\ pool' = RemoveAt(pool, k) /\ excused \subseteq excused'
      /\ UNCHANGED <<number, life, inbox, magic, OrderTotal, pc, i>>
  BY DEF Stopped, marketVars, orderVars
<1>2. /\ Told' /\ Single' /\ Follows'
      /\ Len(pool) <= OrderTotal => Len(pool') <= OrderTotal'
  BY <1>1, Shrunk
<1>3. pc = "close" => magic \in excused'
  BY DEF Stopped
<1>4. Ahead'
  BY <1>1, <1>2, <1>3 DEF Inv, Ahead
<1> QED BY <1>2, <1>4 DEF Positions

(* The first order of the connection is read: what the invariant says of   *)
(* the others stays true of them.                                          *)
LEMMA ReceivesStep ==
  ASSUME Inv, NEW op \in {OPEN, CLOSE, MODIFY}, Receives(op), UNCHANGED excused
  PROVE  /\ \A n \in 1..Len(inbox') : n + 1 \in 1..Len(inbox) /\ inbox'[n] = inbox[n + 1]
         /\ \A u \in Ticket \ excused :
              /\ \A n \in 1..Len(inbox') : At(n, OPEN, u)' =>
                   /\ u # inbox[1].ticket /\ ~Holds(u) /\ magic # u
                   /\ \A m \in 1..Len(inbox') : m < n => inbox'[m].ticket # u
              /\ u \in Waiting => u \in Waiting' \/ (op = CLOSE /\ u = inbox[1].ticket)
              /\ life[u] = "closed" /\ (\E n \in 1..Len(inbox') : At(n, OPEN, u)') =>
                   u \in Waiting'
<1>0. TypeOK /\ Told /\ Single /\ Follows
  BY DEF Inv
<1>1. /\ 1 \in 1..Len(inbox) /\ inbox[1].operate = op /\ inbox[1].ticket \in Ticket
      /\ Len(inbox') = Len(inbox) - 1 /\ Len(inbox) \in Nat
      /\ \A n \in 1..Len(inbox') : n + 1 \in 1..Len(inbox) /\ inbox'[n] = inbox[n + 1]
  BY <1>0, ReceivesEffect, LenProperties DEF TypeOK
<1>2. ASSUME NEW u \in Ticket \ excused, NEW n \in 1..Len(inbox'), At(n, OPEN, u)'
      PROVE  /\ n + 1 \in 1..Len(inbox) /\ At(n + 1, OPEN, u)
             /\ u # inbox[1].ticket /\ ~Holds(u) /\ magic # u
             /\ \A m \in 1..Len(inbox') : m < n => inbox'[m].ticket # u
  <2>1. n + 1 \in 1..Len(inbox) /\ At(n + 1, OPEN, u)
    BY <1>1, <1>2 DEF At
  <2>2. /\ ~Holds(u) /\ magic # u
        /\ \A m \in 1..Len(inbox) : m < n + 1 => inbox[m].ticket # u
    BY <1>0, <2>1 DEF Single
  <2>3. inbox[1].ticket # u
    BY <1>1, <2>2
  <2>4. ASSUME NEW m \in 1..Len(inbox'), m < n PROVE inbox'[m].ticket # u
    BY <1>1, <2>2, <2>4
  <2> QED BY <2>1, <2>2, <2>3, <2>4
<1>3. ASSUME NEW u \in Ticket \ excused, u \in Waiting, ~(op = CLOSE /\ u = inbox[1].ticket)
      PROVE  u \in Waiting'
  <2>1. PICK n \in 1..Len(inbox) : inbox[n].operate = CLOSE /\ inbox[n].ticket = u
    BY <1>3, WaitingMeans
  <2>2. n # 1
    BY <1>1, <1>3, <2>1
  <2>3. n - 1 \in 1..Len(inbox') /\ (n - 1) + 1 = n
    BY <1>1, <2>2
  <2> QED BY <1>1, <2>1, <2>3 DEF Waiting
<1>4. ASSUME NEW u \in Ticket \ excused, life[u] = "closed",
             NEW n \in 1..Len(inbox'), At(n, OPEN, u)'
      PROVE  u \in Waiting'
  <2>1. At(n + 1, OPEN, u) /\ n + 1 \in 1..Len(inbox) /\ u # inbox[1].ticket
    BY <1>2, <1>4
  <2>2. u \in Waiting
    BY <1>0, <1>4, <2>1 DEF Follows
  <2> QED BY <1>3, <2>1, <2>2
<1> QED BY <1>1, <1>2, <1>3, <1>4

LEMMA MakeStep ==
  ASSUME Inv, MakeOpen \/ MakeModify \/ MakeClose
  PROVE  Positions'
<1>0. TypeOK /\ Told /\ Single /\ Follows /\ Ahead
  BY DEF Inv
<1>1. PICK op \in {OPEN, CLOSE, MODIFY} :
        \/ op = OPEN /\ MakeOpen
        \/ op = MODIFY /\ MakeModify
        \/ op = CLOSE /\ MakeClose
  OBVIOUS
<1>2. Receives(op) /\ UNCHANGED <<number, life, excused>> /\ pc = "run" /\ magic = None
  BY <1>0, <1>1 DEF Receives, MakeOpen, MakeModify, MakeClose, TypeOK
<1> DEFINE h == inbox[1].ticket
<1>3. /\ 1 \in 1..Len(inbox) /\ Head(inbox) = inbox[1] /\ inbox[1].operate = op
      /\ h \in Ticket /\ h # None
  BY <1>0, <1>2, ReceivesEffect, FollowerAssumption
<1>4. /\ \A n \in 1..Len(inbox') : n + 1 \in 1..Len(inbox) /\ inbox'[n] = inbox[n + 1]
      /\ \A u \in Ticket \ excused :
           /\ \A n \in 1..Len(inbox') : At(n, OPEN, u)' =>
                /\ u # h /\ ~Holds(u)
                /\ \A m \in 1..Len(inbox') : m < n => inbox'[m].ticket # u
           /\ u \in Waiting => u \in Waiting' \/ (op = CLOSE /\ u = h)
           /\ life[u] = "closed" /\ (\E n \in 1..Len(inbox') : At(n, OPEN, u)') =>
                u \in Waiting'
  BY <1>2, ReceivesStep
<1>5. OPEN # CLOSE /\ MODIFY # CLOSE /\ OPEN # MODIFY
  BY DEF OPEN, CLOSE, MODIFY
<1>6. magic' = IF op = CLOSE THEN h ELSE None
  BY <1>1, <1>2, <1>3, <1>5 DEF MakeOpen, MakeModify, MakeClose, orderVars
<1>7. pool' = pool \/ (op = OPEN /\ pool' = Append(pool, h))
  BY <1>1, <1>3 DEF MakeOpen, MakeModify, MakeClose
<1>8. pool \in Seq(Ticket) /\ Len(pool) \in Nat
  BY <1>0, LenProperties DEF TypeOK
<1>9. ASSUME NEW n \in 1..Len(pool'), ~(n \in 1..Len(pool) /\ pool'[n] = pool[n])
      PROVE  op = OPEN /\ n = Len(pool) + 1 /\ pool'[n] = h
  BY <1>3, <1>7, <1>8, <1>9, Appended
<1>10. \A u : Holds(u)' => Holds(u) \/ (op = OPEN /\ u = h)
  BY <1>9 DEF Holds
<1>11. op = OPEN => At(1, OPEN, h)
  BY <1>3 DEF At
<1> HIDE DEF h
<1>12. op = OPEN => life[h] # "none"
  BY <1>0, <1>3, <1>11 DEF Told, At
<1>13. Told'
  <2>1. ASSUME NEW u \in Ticket, life[u] = "none"
        PROVE  ~Holds(u)' /\ \A n \in 1..Len(inbox') : inbox'[n].ticket # u
    BY <1>0, <1>4, <1>10, <1>12, <2>1 DEF Told
  <2>2. ASSUME NEW n \in 1..Len(inbox'), inbox'[n].operate = CLOSE
        PROVE  life[inbox'[n].ticket] = "closed"
    BY <1>0, <1>4, <2>2 DEF Told
  <2>3. op = CLOSE => life[h] = "closed"
    BY <1>0, <1>3 DEF Told, h
  <2> QED BY <1>0, <1>2, <1>6, <2>1, <2>2, <2>3 DEF Told
<1>14. Single'
  <2>1. ASSUME NEW u \in Ticket \ excused, NEW n \in 1..Len(inbox'), At(n, OPEN, u)'
        PROVE  /\ ~Holds(u)' /\ magic' # u
               /\ \A m \in 1..Len(inbox') : m < n => inbox'[m].ticket # u
    BY <1>4, <1>6, <1>10, <2>1, FollowerAssumption
  <2>2. ASSUME NEW u \in Ticket \ excused, NEW m \in 1..Len(pool'), NEW n \in 1..Len(pool'),
               pool'[m] = u, pool'[n] = u
        PROVE  m = n
    <3>1. CASE op = OPEN /\ u = h
      <4>1. ~Holds(u)
        BY <1>0, <1>3, <1>11, <3>1 DEF Single
      <4>2. ~(m \in 1..Len(pool) /\ pool'[m] = pool[m])
            /\ ~(n \in 1..Len(pool) /\ pool'[n] = pool[n])
        BY <2>2, <4>1 DEF Holds
      <4> QED BY <1>9, <4>2
    <3>2. CASE ~(op = OPEN /\ u = h)
      <4>1. /\ m \in 1..Len(pool) /\ pool'[m] = pool[m]
            /\ n \in 1..Len(pool) /\ pool'[n] = pool[n]
        BY <1>9, <2>2, <3>2
      <4> QED BY <1>0, <2>2, <4>1 DEF Single
    <3> QED BY <3>1, <3>2
  <2> QED BY <1>2, <2>1, <2>2 DEF Single
<1>15. Follows'
  <2>1. ASSUME NEW u \in Ticket \ excused, life[u] = "closed", Holds(u)', ~SharesNumber(u)
        PROVE  u \in Waiting' \/ magic' = u
    <3>1. u \in Waiting
      <4>1. CASE Holds(u)
        BY <1>0, <1>2, <2>1, <4>1, FollowerAssumption DEF Follows
      <4>2. CASE op = OPEN /\ u = h
        BY <1>0, <1>3, <1>11, <2>1, <4>2 DEF Follows
      <4> QED BY <1>10, <2>1, <4>1, <4>2
    <3> QED BY <1>4, <1>6, <3>1
  <2>2. \A u : SharesNumber(u)' <=> SharesNumber(u)
    BY <1>2 DEF SharesNumber
  <2> QED BY <1>2, <1>4, <2>1, <2>2 DEF Follows
<1>16. Ahead'
  <2>1. CASE MakeClose
    BY <1>8, <2>1 DEF Ahead, MakeClose, Total
  <2>2. CASE MakeOpen \/ MakeModify
    BY <1>2, <2>2 DEF Ahead, MakeOpen, MakeModify
  <2> QED BY <1>1, <2>1, <2>2
<1> QED BY <1>13, <1>14, <1>15, <1>16 DEF Positions

LEMMA CloseTurnStep ==
  ASSUME Inv, CloseTurn
  PROVE  Positions'
<1>0. TypeOK /\ Told /\ Single /\ Follows /\ Ahead
  BY DEF Inv
<1>1. /\ UNCHANGED <<number, life, inbox, magic, OrderTotal, pc>>
      /\ pc = "close" /\ i' = i + 1 /\ excused \subseteq excused'
  BY DEF CloseTurn, marketVars
<1>2. /\ i \in Nat /\ pool \in Seq(Ticket) /\ Len(pool) \in Nat /\ magic \in Ticket
      /\ \A n \in 1..Len(pool) : pool[n] \in Ticket
  BY <1>0, <1>1, LenProperties, ElementOfSeq, FollowerAssumption DEF TypeOK
<1>3. \A u : SharesNumber(u)' <=> SharesNumber(u)
  BY <1>1 DEF SharesNumber
<1>4. ASSUME magic \notin excused, ~SharesNumber(magic), i < Len(pool)
      PROVE  IsCopy(i + 1) <=> pool[i + 1] = magic
  <2>1. i + 1 \in 1..Len(pool)
    BY <1>2, <1>4
  <2> QED BY <1>2, <1>4, <2>1 DEF IsCopy, SharesNumber
<1>5. CASE i < Len(pool) /\ IsCopy(i + 1) /\ pool' = RemoveAt(pool, i + 1)
  <2>1. i + 1 \in 1..Len(pool)
    BY <1>2, <1>5
  <2>2. /\ Told' /\ Single' /\ Follows'
        /\ Len(pool) <= OrderTotal => Len(pool') <= OrderTotal'
    BY <1>1, <1>5, <2>1, Shrunk
  <2>3. ASSUME magic \notin excused, ~SharesNumber(magic),
               NEW n \in 1..Len(pool'), pool'[n] = magic
        PROVE  FALSE
    <3>1. pool[i + 1] = magic
      BY <1>4, <1>5, <2>3
    <3>2. IF n < i + 1 THEN n \in 1..Len(pool) /\ pool'[n] = pool[n]
          ELSE n + 1 \in 1..Len(pool) /\ pool'[n] = pool[n + 1]
      BY <1>0, <1>5, <2>1, PoolShrinks
    <3>3. \A k \in 1..Len(pool) : pool[k] = magic => k = i + 1
      BY <1>0, <1>2, <2>1, <2>3, <3>1 DEF Single
    <3> QED BY <1>2, <2>3, <3>2, <3>3
  <2>4. Ahead'
    BY <1>0, <1>1, <1>3, <2>2, <2>3 DEF Ahead
  <2> QED BY <2>2, <2>4 DEF Positions
<1>6. CASE /\ pool' = pool
           /\ magic \in excused' \/ ~(i < Len(pool) /\ IsCopy(i + 1))
  <2>1. Told' /\ Single' /\ Follows'
    BY <1>0, <1>1, <1>3, <1>6 DEF Told, Single, Follows, Holds, At, Waiting
  <2>2. ASSUME magic \notin excused', ~SharesNumber(magic),
               NEW n \in 1..Len(pool), pool[n] = magic
        PROVE  i + 1 < n
    <3>1. i < n
      BY <1>0, <1>1, <2>2 DEF Ahead
    <3>2. n # i + 1
      BY <1>1, <1>2, <1>4, <1>6, <2>2
    <3> QED BY <1>2, <3>1, <3>2
  <2>3. Ahead'
    BY <1>0, <1>1, <1>3, <1>6, <2>2 DEF Ahead
  <2> QED BY <2>1, <2>3 DEF Positions
<1> QED BY <1>5, <1>6 DEF CloseTurn

LEMMA CloseDoneStep ==
  ASSUME Inv, CloseDone
  PROVE  Positions'
<1>0. TypeOK /\ Told /\ Single /\ Follows /\ Ahead
  BY DEF Inv
<1>1. /\ UNCHANGED <<number, life, inbox, pool, excused>>
      /\ pc = "close" /\ pc' = "run" /\ magic' = None /\ i >= OrderTotal
  BY DEF CloseDone, Forgets, marketVars
<1>2. Told' /\ Single'
  BY <1>0, <1>1, FollowerAssumption DEF Told, Single, Holds, At
<1>3. ASSUME magic \notin excused, ~SharesNumber(magic) PROVE ~Holds(magic)
  <2>1. i \in Nat /\ OrderTotal \in Nat /\ Len(pool) \in Nat
    BY <1>0, LenProperties, FollowerAssumption DEF TypeOK
  <2> QED BY <1>0, <1>1, <1>3, <2>1 DEF Ahead, Holds
<1>4. \A u : (SharesNumber(u)' <=> SharesNumber(u)) /\ (Holds(u)' <=> Holds(u))
  BY <1>1 DEF SharesNumber, Holds
<1>5. Follows'
  BY <1>0, <1>1, <1>3, <1>4 DEF Follows, At, Waiting
<1>6. Ahead'
  BY <1>1 DEF Ahead
<1> QED BY <1>2, <1>5, <1>6 DEF Positions

LEMMA InvStep == Inv /\ [Next]_vars => Inv'
<1> SUFFICES ASSUME Inv, [Next]_vars PROVE Inv'
  OBVIOUS
<1>1. TypeOK' /\ Linked'
  BY TypeStep, LinkedStep
<1>2. ASSUME Attach \/ Retry \/ Ended \/ UNCHANGED vars PROVE Positions'
  BY <1>2, LoginsAreQuiet, QuietStep DEF Inv, Positions
<1>3. Positions'
  BY <1>2, TradeStep, StoppedStep, DropStep, MakeStep, CloseTurnStep, CloseDoneStep
     DEF Next, EA, Positions
<1> QED BY <1>1, <1>3 DEF Inv, Positions

-----------------------------------------------------------------------------
(* Linked, Told, Single, Follows and Ahead hold in every reachable state:  *)
(* what the order of the connection, the one open per ticket and the loop  *)
(* of MakeOrder have in common (Follower.mq4:447-640).                     *)
THEOREM Invariance == Spec => []Inv
BY Starts, InvStep, PTL DEF Spec

(* The EA's state keeps its types; of these, that no order waits in a      *)
(* connection that is not there, and that the login is tried three times   *)
(* at most.                                                                *)
THEOREM TypeCorrect == Spec => []TypeOK
<1>1. Inv => TypeOK
  BY DEF Inv
<1> QED BY <1>1, Invariance, PTL

(* However many positions and traders there are, and whenever the terminal *)
(* takes a copy away, a copy outlives its position for the reasons named   *)
(* in NoOrphan only (Follower.mq4:580-611).                                *)
THEOREM NoOrphanHolds == Spec => []NoOrphan
<1>1. Inv => NoOrphan
  BY FollowerAssumption DEF Inv, TypeOK, Follows, NoOrphan
<1> QED BY <1>1, Invariance, PTL

(* An open that is read once is copied once: no two copies of a position   *)
(* that is not excused (Follower.mq4:534-579).                             *)
THEOREM OneCopyHolds == Spec => []OneCopy
<1>1. Inv => OneCopy
  BY DEF Inv, Single, OneCopy
<1> QED BY <1>1, Invariance, PTL

(* The loop closes no copy of an open position unless a closed one has the *)
(* same ticket number (Follower.mq4:587).                                  *)
THEOREM ClosesItsCopiesHolds == Spec => ClosesItsCopies
<1> DEFINE Only == i' = i + 1 /\ pool' # pool =>
             \E u \in Ticket : number[u] = number[pool[i + 1]] /\ life[u] = "closed"
<1>1. Inv /\ [Next]_vars => [Only]_vars
  <2> SUFFICES ASSUME Inv, Next, i' = i + 1, pool' # pool
               PROVE  \E u \in Ticket : number[u] = number[pool[i + 1]] /\ life[u] = "closed"
    OBVIOUS
  <2>1. i \in Nat
    BY FollowerAssumption DEF Inv, TypeOK
  <2>2. i' # i
    BY <2>1
  <2>3. UNCHANGED orderVars \/ UNCHANGED pool \/ CloseTurn
    BY DEF Next, EA, Trade, Stopped, Drop, Attach, Retry, Ended, MakeOpen, MakeModify,
           MakeClose, CloseDone
  <2>4. CloseTurn
    BY <2>2, <2>3 DEF orderVars
  <2>5. IsCopy(i + 1) /\ pc = "close"
    BY <2>4 DEF CloseTurn
  <2>6. magic \in Ticket /\ life[magic] = "closed"
    BY <2>5 DEF Inv, TypeOK, Told
  <2> QED BY <2>5, <2>6 DEF IsCopy
<1> QED BY <1>1, Invariance, PTL DEF Spec, ClosesItsCopies
=============================================================================
