---------------------------- MODULE Trader_proofs ----------------------------
(***************************************************************************)
(* Proofs about the Trader EA: its types, and that it sends no open and no *)
(* close twice or without cause.                                           *)
(***************************************************************************)
EXTENDS Trader, SequenceTheorems, FiniteSetTheorems, TLAPS

-----------------------------------------------------------------------------
(* The invariant.                                                          *)

(* A position is in one place of one list.                                 *)
Distinct ==
  /\ \A i, j \in 1..Len(pool) : pool[i] = pool[j] => i = j
  /\ \A i, j \in 1..Len(history) : history[i] = history[j] => i = j
  /\ \A i \in 1..Len(pool), j \in 1..Len(history) : pool[i] # history[j]

(* Before init nothing is remembered and nothing has been sent; as long as  *)
(* init has not looked at the lists, nothing counts as old.                *)
Fresh ==
  /\ pc = "off" =>
       /\ prev_last_order = 0 /\ prev_close_order = 0 /\ ~looked
       /\ \A t \in Ticket : opened[t] = 0 /\ closed[t] = 0
  /\ ~looked => first = <<>> /\ base = 0

(* Where the loops are in the lists.                                       *)
InOpens == pc = "opens" /\ total > prev_last_order
InCloses == pc = "closes" /\ close_total > prev_close_order

Placed ==
  /\ InOpens => prev_last_order - 1 <= open_item /\ open_item < total
  /\ ~InOpens => open_item >= 0
  /\ pc = "closes" => close_total <= Len(history) /\ item < close_total
  /\ InCloses => prev_close_order - 1 <= item
  /\ pc = "modify" => item >= 0
  /\ base <= prev_close_order

(* SendOrder has been called for the closes counted and for those the     *)
(* loop has been through.                                                  *)
CloseSent(i) ==
  /\ base < i
  /\ \/ i <= prev_close_order
     \/ InCloses /\ item + 1 < i /\ i <= close_total

ClosesCountedOnce ==
  \A t \in Ticket :
    closed[t] = IF \E i \in 1..Len(history) : history[i] = t /\ CloseSent(i)
                THEN 1 ELSE 0

(* And so are the opens, as long as nothing has been closed.               *)
OpenSent(i) ==
  /\ Len(first) < i
  /\ \/ i <= prev_last_order
     \/ InOpens /\ open_item + 1 < i /\ i <= total

OpensCountedOnce ==
  pc # "off" /\ Len(history) = base =>
    /\ Len(first) <= prev_last_order /\ prev_last_order <= Len(pool)
    /\ pc = "opens" => total <= Len(pool)
    /\ \A i \in 1..Len(pool) : opened[pool[i]] = IF OpenSent(i) THEN 1 ELSE 0
    /\ \A t \in Ticket : ~In(t, pool) => opened[t] = 0

Inv == TypeOK /\ Distinct /\ Fresh /\ Placed /\ ClosesCountedOnce /\ OpensCountedOnce

-----------------------------------------------------------------------------
(* Lists.                                                                  *)

(* RemoveAt closes the gap.                                                *)
LEMMA Removed ==
  ASSUME NEW S, NEW s \in Seq(S), NEW n \in 1..Len(s)
  PROVE  /\ RemoveAt(s, n) \in Seq(S)
         /\ Len(RemoveAt(s, n)) = Len(s) - 1
         /\ \A m \in 1..Len(s) - 1 :
              RemoveAt(s, n)[m] = IF m < n THEN s[m] ELSE s[m + 1]
<1> DEFINE a == SubSeq(s, 1, n - 1)
           b == SubSeq(s, n + 1, Len(s))
           r == a \o b
<1>1. /\ a \in Seq(S) /\ Len(a) = n - 1
      /\ \A m \in 1..n - 1 : a[m] = s[m]
  BY SubSeqProperties
<1>2. /\ b \in Seq(S) /\ Len(b) = Len(s) - n
      /\ \A m \in 1..Len(s) - n : b[m] = s[n + m]
  BY SubSeqProperties
<1>3. /\ r \in Seq(S) /\ Len(r) = Len(s) - 1
      /\ \A m \in 1..Len(s) - 1 :
           r[m] = IF m <= n - 1 THEN a[m] ELSE b[m - (n - 1)]
  <2> HIDE DEF a, b
  <2> QED BY <1>1, <1>2, ConcatProperties
<1> HIDE DEF a, b, r
<1>4. ASSUME NEW m \in 1..Len(s) - 1
      PROVE  r[m] = IF m < n THEN s[m] ELSE s[m + 1]
  <2>1. CASE m <= n - 1
    BY <1>1, <1>3, <2>1
  <2>2. CASE ~(m <= n - 1)
    <3>1. m - (n - 1) \in 1..Len(s) - n /\ n + (m - (n - 1)) = m + 1
      BY <2>2
    <3>2. r[m] = b[m - (n - 1)]
      BY <1>3, <2>2
    <3> QED BY <1>2, <2>2, <3>1, <3>2
  <2> QED BY <2>1, <2>2
<1> QED BY <1>3, <1>4 DEF RemoveAt, a, b, r


(* Positions that are in one place only are no more than there are.        *)
LEMMA Fits ==
  ASSUME NEW p \in Seq(Ticket), NEW h \in Seq(Ticket),
         \A i, j \in 1..Len(p) : p[i] = p[j] => i = j,
         \A i, j \in 1..Len(h) : h[i] = h[j] => i = j,
         \A i \in 1..Len(p), j \in 1..Len(h) : p[i] # h[j]
  PROVE  Len(p) + Len(h) <= Most
<1> DEFINE n == Len(p) + Len(h)
           f == [i \in 1..n |-> IF i <= Len(p) THEN p[i] ELSE h[i - Len(p)]]
<1>1. IsFiniteSet(Ticket) /\ Most \in Nat
  BY TraderAssumption, FS_CardinalityType DEF Most
<1>2. n \in Nat /\ Len(p) \in Nat /\ Len(h) \in Nat
  BY LenProperties
<1>3. IsFiniteSet(1..n) /\ Cardinality(1..n) = n
  <2>1. n \in Int /\ 1 \in Int
    BY <1>2
  <2> HIDE DEF n
  <2>2. IsFiniteSet(1..n) /\ Cardinality(1..n) = IF 1 > n THEN 0 ELSE n - 1 + 1
    BY <2>1, FS_Interval
  <2> QED BY <1>2, <2>2
<1>4. f \in [1..n -> Ticket]
  <2> SUFFICES ASSUME NEW i \in 1..n PROVE (IF i <= Len(p) THEN p[i] ELSE h[i - Len(p)]) \in Ticket
    OBVIOUS
  <2>1. CASE i <= Len(p)
    BY <1>2, <2>1
  <2>2. CASE ~(i <= Len(p))
    <3>1. i - Len(p) \in 1..Len(h)
      BY <1>2, <2>2
    <3> QED BY <2>2, <3>1
  <2> QED BY <2>1, <2>2
<1>5. ASSUME NEW i \in 1..n, NEW j \in 1..n, f[i] = f[j]
      PROVE  i = j
  <2>1. /\ f[i] = IF i <= Len(p) THEN p[i] ELSE h[i - Len(p)]
        /\ f[j] = IF j <= Len(p) THEN p[j] ELSE h[j - Len(p)]
    OBVIOUS
  <2>2. /\ i <= Len(p) \/ i - Len(p) \in 1..Len(h)
        /\ j <= Len(p) \/ j - Len(p) \in 1..Len(h)
    BY <1>2
  <2> HIDE DEF f
  <2>3. CASE i <= Len(p) /\ j <= Len(p)
    <3>1. p[i] = p[j]
      BY <1>5, <2>1, <2>3
    <3>2. i \in 1..Len(p) /\ j \in 1..Len(p)
      BY <1>2, <2>3
    <3> QED BY <3>1, <3>2
  <2>4. CASE ~(i <= Len(p)) /\ ~(j <= Len(p))
    <3>1. h[i - Len(p)] = h[j - Len(p)]
      BY <1>5, <2>1, <2>4
    <3>2. i - Len(p) = j - Len(p)
      BY <2>2, <2>4, <3>1
    <3> QED BY <1>2, <3>2
  <2>5. CASE i <= Len(p) /\ ~(j <= Len(p))
    <3>1. p[i] = h[j - Len(p)]
      BY <1>5, <2>1, <2>5
    <3>2. i \in 1..Len(p) /\ j - Len(p) \in 1..Len(h)
      BY <1>2, <2>2, <2>5
    <3> QED BY <3>1, <3>2
  <2>6. CASE ~(i <= Len(p)) /\ j <= Len(p)
    <3>1. p[j] = h[i - Len(p)]
      BY <1>5, <2>1, <2>6
    <3>2. j \in 1..Len(p) /\ i - Len(p) \in 1..Len(h)
      BY <1>2, <2>2, <2>6
    <3> QED BY <3>1, <3>2
  <2> QED BY <2>3, <2>4, <2>5, <2>6
<1>6. ~(Most < n)
  <2> SUFFICES ASSUME Most < n PROVE FALSE
    OBVIOUS
  <2> DEFINE D == 1..n
  <2>1. IsFiniteSet(D) /\ Cardinality(Ticket) < Cardinality(D) /\ f \in [D -> Ticket]
    BY <1>3, <1>4 DEF Most
  <2>2. \A i, j \in D : f[i] = f[j] => i = j
    BY <1>5
  <2> HIDE DEF f, D
  <2>3. \E i, j \in D : i # j /\ f[i] = f[j]
    BY <1>1, <2>1, FS_PigeonHole
  <2> QED BY <2>2, <2>3
<1> QED BY <1>1, <1>2, <1>6
-----------------------------------------------------------------------------
LEMMA Start == Init => Inv
<1> SUFFICES ASSUME Init PROVE Inv
  OBVIOUS
<1>1. Most \in Nat /\ Level0 \in Level
  BY TraderAssumption, FS_CardinalityType DEF Most, Level0
<1>2. /\ pool = <<>> /\ history = <<>> /\ first = <<>>
      /\ <<>> \in Seq(Ticket) /\ Len(pool) = 0 /\ Len(history) = 0
  BY DEF Init
<1>3. TypeOK
  <2>1. open_order \in [Slots -> Entry]
    BY DEF Init, Zero, Entry
  <2>2. /\ level \in [Ticket -> Level] /\ shown \in [Ticket -> Level]
        /\ opened \in [Ticket -> Nat] /\ closed \in [Ticket -> Nat]
        /\ lostClose \in SUBSET Ticket /\ lostLevel \in [Ticket -> Level \cup {0}]
    BY <1>1 DEF Init
  <2>3. /\ pool \in Seq(Ticket) /\ history \in Seq(Ticket) /\ first \in Seq(Ticket)
        /\ Len(pool) + Len(history) <= Most
    BY <1>1, <1>2
  <2>4. pc = "off" /\ initialized \in BOOLEAN /\ looked \in BOOLEAN
    BY DEF Init
  <2>5. /\ changes \in 0..MaxChange
        /\ retry_login_count \in 0..3 /\ drops \in 0..MaxDrop
        /\ prev_last_order \in 0..Most /\ prev_close_order \in 0..Len(history)
        /\ total \in 0..Most /\ close_total \in 0..Most
        /\ open_item \in -1..Most /\ item \in -1..Most
        /\ open_order_count \in 0..Most /\ base \in 0..Most
    <3>1. /\ changes = 0 /\ retry_login_count = 0
          /\ drops = 0 /\ prev_last_order = 0 /\ prev_close_order = 0 /\ total = 0
          /\ close_total = 0 /\ open_item = 0 /\ item = 0 /\ open_order_count = 0 /\ base = 0
      BY DEF Init
    <3> QED BY <1>1, <1>2, <3>1, TraderAssumption
  <2> QED BY <2>1, <2>2, <2>3, <2>4, <2>5 DEF TypeOK
<1>4. Distinct
  BY <1>2 DEF Distinct
<1>5. Fresh
  BY DEF Init, Fresh
<1>6. Placed
  BY DEF Init, Placed, InOpens, InCloses
<1>7. ClosesCountedOnce
  BY <1>2 DEF Init, ClosesCountedOnce
<1>8. OpensCountedOnce
  BY DEF Init, OpensCountedOnce
<1> QED BY <1>3, <1>4, <1>5, <1>6, <1>7, <1>8 DEF Inv

(* The terminal.                                                           *)

LEMMA OpensStep ==
  ASSUME Inv, NEW t \in Ticket, Opens(t),
         UNCHANGED <<pc, linkVars, prevVars, itemVars, tableVars, sentVars, startVars>>
  PROVE  Inv'
<1>1. /\ TypeOK /\ Distinct /\ Fresh /\ Placed /\ ClosesCountedOnce /\ OpensCountedOnce
  BY DEF Inv
<1>2. /\ UNCHANGED <<history, level, changes, pc, initialized, retry_login_count, drops,
                     prev_last_order, prev_close_order, total, close_total, open_item, item,
                     open_order, open_order_count, opened, closed, lostClose, shown, lostLevel,
                     looked, first, base>>
      /\ ~In(t, pool) /\ ~In(t, history)
  BY DEF Opens, linkVars, prevVars, itemVars, tableVars, sentVars, startVars
<1>3. /\ pool' \in Seq(Ticket) /\ Len(pool') = Len(pool) + 1 /\ Len(pool) \in Nat
      /\ \A i \in 1..Len(pool) : pool'[i] = pool[i]
      /\ pool'[Len(pool) + 1] = t
  BY <1>1, AppendProperties, LenProperties DEF Opens, TypeOK
<1>4. Distinct'
  <2>1. \A i \in 1..Len(pool') : i \in 1..Len(pool) \/ i = Len(pool) + 1
    BY <1>3
  <2>2. \A i, j \in 1..Len(pool') : pool'[i] = pool'[j] => i = j
    BY <1>1, <1>2, <1>3, <2>1 DEF Distinct, In
  <2>3. \A i \in 1..Len(pool'), j \in 1..Len(history) : pool'[i] # history[j]
    BY <1>1, <1>2, <1>3, <2>1 DEF Distinct, In
  <2> QED BY <1>1, <1>2, <2>2, <2>3 DEF Distinct
<1>5. TypeOK'
  <2>1. history \in Seq(Ticket)
    BY <1>1 DEF TypeOK
  <2>2. Len(pool') + Len(history) <= Most
    BY <1>2, <1>3, <1>4, <2>1, Fits DEF Distinct
  <2> QED BY <1>1, <1>2, <1>3, <2>2 DEF TypeOK
<1>6. Fresh' /\ Placed' /\ ClosesCountedOnce'
  BY <1>1, <1>2 DEF Fresh, Placed, InOpens, InCloses, ClosesCountedOnce, CloseSent
<1>7. OpensCountedOnce'
  <2> SUFFICES ASSUME pc # "off", Len(history) = base
               PROVE  /\ Len(first) <= prev_last_order /\ prev_last_order <= Len(pool')
                      /\ pc = "opens" => total <= Len(pool')
                      /\ \A i \in 1..Len(pool') : opened[pool'[i]] = IF OpenSent(i) THEN 1 ELSE 0
                      /\ \A u \in Ticket : ~In(u, pool') => opened[u] = 0
    BY <1>2 DEF OpensCountedOnce, OpenSent, InOpens
  <2>1. /\ Len(first) <= prev_last_order /\ prev_last_order <= Len(pool)
        /\ pc = "opens" => total <= Len(pool)
        /\ \A i \in 1..Len(pool) : opened[pool[i]] = IF OpenSent(i) THEN 1 ELSE 0
        /\ \A u \in Ticket : ~In(u, pool) => opened[u] = 0
    BY <1>1 DEF OpensCountedOnce
  <2>2. prev_last_order \in Nat /\ total \in Nat /\ open_item \in Int
    BY <1>1, TraderAssumption DEF TypeOK
  <2>3. prev_last_order <= Len(pool') /\ (pc = "opens" => total <= Len(pool'))
    BY <1>3, <2>1, <2>2
  <2>4. ~OpenSent(Len(pool) + 1)
    BY <1>3, <2>1, <2>2 DEF OpenSent, InOpens
  <2>5. ASSUME NEW i \in 1..Len(pool')
        PROVE  opened[pool'[i]] = IF OpenSent(i) THEN 1 ELSE 0
    <3>1. CASE i \in 1..Len(pool)
      BY <1>3, <2>1, <3>1
    <3>2. CASE i = Len(pool) + 1
      BY <1>2, <1>3, <2>1, <2>4, <3>2
    <3> QED BY <1>3, <3>1, <3>2
  <2>6. ASSUME NEW u \in Ticket, ~In(u, pool')
        PROVE  opened[u] = 0
    <3>1. ~In(u, pool)
      <4> SUFFICES ASSUME NEW i \in 1..Len(pool) PROVE pool[i] # u
        BY DEF In
      <4>1. i \in 1..Len(pool') /\ pool'[i] = pool[i]
        BY <1>3
      <4> QED BY <2>6, <4>1 DEF In
    <3> QED BY <2>1, <3>1
  <2> QED BY <2>1, <2>3, <2>5, <2>6
<1> QED BY <1>4, <1>5, <1>6, <1>7 DEF Inv

LEMMA ClosesStep ==
  ASSUME Inv, NEW t \in Ticket, Closes(t),
         UNCHANGED <<pc, linkVars, prevVars, itemVars, tableVars, sentVars, startVars>>
  PROVE  Inv'
<1>1. /\ TypeOK /\ Distinct /\ Fresh /\ Placed /\ ClosesCountedOnce /\ OpensCountedOnce
  BY DEF Inv
<1>2. /\ UNCHANGED <<level, changes, pc, initialized, retry_login_count, drops,
                     prev_last_order, prev_close_order, total, close_total, open_item, item,
                     open_order, open_order_count, opened, closed, lostClose, shown, lostLevel,
                     looked, first, base>>
  BY DEF Closes, linkVars, prevVars, itemVars, tableVars, sentVars, startVars
<1>3. PICK k \in 1..Len(pool) : pool[k] = t /\ pool' = RemoveAt(pool, k)
  BY DEF Closes
<1>4. /\ pool' \in Seq(Ticket) /\ Len(pool') = Len(pool) - 1 /\ Len(pool) \in Nat
      /\ \A m \in 1..Len(pool) - 1 : pool'[m] = IF m < k THEN pool[m] ELSE pool[m + 1]
  BY <1>1, <1>3, Removed, LenProperties DEF TypeOK
<1>5. /\ history' \in Seq(Ticket) /\ Len(history') = Len(history) + 1 /\ Len(history) \in Nat
      /\ \A i \in 1..Len(history) : history'[i] = history[i]
      /\ history'[Len(history) + 1] = t
  BY <1>1, AppendProperties, LenProperties DEF Closes, TypeOK
<1>6. \A i \in 1..Len(history') : i \in 1..Len(history) \/ i = Len(history) + 1
  BY <1>5
<1>7. \A m \in 1..Len(pool') : \E n \in 1..Len(pool) :
         pool'[m] = pool[n] /\ n # k /\ n = IF m < k THEN m ELSE m + 1
  <2> SUFFICES ASSUME NEW m \in 1..Len(pool')
               PROVE  \E n \in 1..Len(pool) :
                        pool'[m] = pool[n] /\ n # k /\ n = IF m < k THEN m ELSE m + 1
    OBVIOUS
  <2> DEFINE n == IF m < k THEN m ELSE m + 1
  <2>1. m \in 1..Len(pool) - 1 /\ k \in Nat
    BY <1>3, <1>4
  <2>2. n \in 1..Len(pool) /\ n # k
    BY <1>4, <2>1
  <2>3. pool'[m] = pool[n]
    BY <1>4, <2>1
  <2> QED BY <2>2, <2>3
<1>8. Distinct'
  <2>1. ASSUME NEW i \in 1..Len(pool'), NEW j \in 1..Len(pool'), pool'[i] = pool'[j]
        PROVE  i = j
    <3>1. PICK m \in 1..Len(pool) : pool'[i] = pool[m] /\ m # k /\ m = IF i < k THEN i ELSE i + 1
      BY <1>7
    <3>2. PICK n \in 1..Len(pool) : pool'[j] = pool[n] /\ n # k /\ n = IF j < k THEN j ELSE j + 1
      BY <1>7
    <3>3. m = n
      BY <1>1, <2>1, <3>1, <3>2 DEF Distinct
    <3>4. i \in Nat /\ j \in Nat /\ k \in Nat
      BY <1>3, <1>4
    <3> QED BY <3>1, <3>2, <3>3, <3>4
  <2>2. \A i \in 1..Len(history) : history[i] # t
    BY <1>1, <1>3 DEF Distinct
  <2>3. \A i, j \in 1..Len(history') : history'[i] = history'[j] => i = j
    BY <1>1, <1>5, <1>6, <2>2 DEF Distinct
  <2>4. ASSUME NEW i \in 1..Len(pool'), NEW j \in 1..Len(history')
        PROVE  pool'[i] # history'[j]
    <3>1. PICK m \in 1..Len(pool) : pool'[i] = pool[m] /\ m # k
      BY <1>7
    <3>2. pool[m] # t
      BY <1>1, <1>3, <3>1 DEF Distinct
    <3> QED BY <1>1, <1>5, <1>6, <3>1, <3>2 DEF Distinct
  <2> QED BY <2>1, <2>3, <2>4 DEF Distinct
<1>9. TypeOK'
  <2>1. Len(pool') + Len(history') <= Most
    BY <1>4, <1>5, <1>8, Fits DEF Distinct
  <2>2. prev_close_order \in 0..Len(history')
    BY <1>1, <1>5 DEF TypeOK
  <2> QED BY <1>1, <1>2, <1>4, <1>5, <2>1, <2>2 DEF TypeOK
<1>10. Fresh'
  BY <1>1, <1>2 DEF Fresh
<1>11. Placed'
  <2>1. close_total \in Nat
    BY <1>1 DEF TypeOK
  <2>2. pc = "closes" => close_total <= Len(history')
    BY <1>1, <1>5, <2>1 DEF Placed
  <2> QED BY <1>1, <1>2, <2>2 DEF Placed, InOpens, InCloses
<1>12. /\ base \in Nat /\ prev_close_order \in Nat /\ prev_close_order <= Len(history)
       /\ close_total \in Nat /\ item \in Int
  BY <1>1, <1>5 DEF TypeOK
<1>13. ClosesCountedOnce'
  <2>1. \A i : CloseSent(i)' <=> CloseSent(i)
    BY <1>2 DEF CloseSent, InCloses
  <2>2. ~CloseSent(Len(history) + 1)
    BY <1>1, <1>5, <1>12 DEF CloseSent, InCloses, Placed
  <2>3. ASSUME NEW u \in Ticket
        PROVE  (\E i \in 1..Len(history') : history'[i] = u /\ CloseSent(i))
                 <=> \E i \in 1..Len(history) : history[i] = u /\ CloseSent(i)
    <3>1. \A i \in 1..Len(history) : i \in 1..Len(history')
      BY <1>5
    <3> QED BY <1>5, <1>6, <2>2, <3>1
  <2> QED BY <1>1, <1>2, <2>1, <2>3 DEF ClosesCountedOnce
<1>14. OpensCountedOnce'
  <2>1. base <= prev_close_order
    BY <1>1 DEF Placed
  <2>2. Len(history') # base
    BY <1>5, <1>12, <2>1
  <2> QED BY <1>2, <2>2 DEF OpensCountedOnce
<1> QED BY <1>8, <1>9, <1>10, <1>11, <1>13, <1>14 DEF Inv

LEMMA TerminalStep ==
  ASSUME Inv, Terminal
  PROVE  Inv'
<1>1. UNCHANGED <<pc, linkVars, prevVars, itemVars, tableVars, sentVars, startVars>>
  BY DEF Terminal
<1>2. PICK t \in Ticket : Opens(t) \/ Closes(t) \/ \E v \in Level : Changes(t, v)
  BY DEF Terminal
<1>3. ASSUME NEW v \in Level, Changes(t, v)
      PROVE  Inv'
  <2>1. /\ UNCHANGED <<pool, history, pc, initialized, retry_login_count, drops,
                       prev_last_order, prev_close_order, total, close_total, open_item, item,
                       open_order, open_order_count, opened, closed, lostClose, shown, lostLevel,
                     looked, first, base>>
        /\ level' = [level EXCEPT ![t] = v] /\ changes < MaxChange /\ changes' = changes + 1
    BY <1>1, <1>3 DEF Changes, linkVars, prevVars, itemVars, tableVars, sentVars, startVars
  <2>2. TypeOK'
    BY <2>1, TraderAssumption DEF Inv, TypeOK
  <2>3. Distinct' /\ Fresh' /\ Placed' /\ ClosesCountedOnce' /\ OpensCountedOnce'
    BY <2>1 DEF Inv, Distinct, Fresh, Placed, InOpens, InCloses, ClosesCountedOnce, CloseSent,
                OpensCountedOnce, OpenSent, In
  <2> QED BY <2>2, <2>3 DEF Inv
<1> QED BY <1>1, <1>2, <1>3, OpensStep, ClosesStep

-----------------------------------------------------------------------------
(* The EA.                                                                 *)

(* What the tables are filled with.                                        *)
LEMMA Tables ==
  ASSUME TypeOK
  PROVE  /\ Recorded \in [Slots -> Entry]
         /\ open_item >= 0 => RecordedAtOpenItem \in [Slots -> Entry]
         /\ \A i \in Nat : Selects(i) => At(i) \in Ticket /\ EntryAt(i) \in Entry
<1>1. Len(pool) \in Nat /\ pool \in Seq(Ticket) /\ level \in [Ticket -> Level]
  BY LenProperties DEF TypeOK
<1>2. ASSUME NEW i \in Nat, Selects(i)
      PROVE  At(i) \in Ticket /\ EntryAt(i) \in Entry
  <2>1. i + 1 \in 1..Len(pool)
    BY <1>1, <1>2 DEF Selects
  <2>2. At(i) \in Ticket
    BY <1>1, <2>1 DEF At
  <2> QED BY <1>1, <2>2 DEF EntryAt, Entry
<1>3. open_order \in [Slots -> Entry] /\ \A i \in Slots : i \in Nat
  BY DEF TypeOK, Slots
<1>4. open_item \in Int
  BY DEF TypeOK
<1> QED BY <1>2, <1>3, <1>4 DEF Recorded, RecordedAtOpenItem

LEMMA AttachStep ==
  ASSUME Inv, Attach
  PROVE  Inv'
<1>1. /\ TypeOK /\ Distinct /\ Fresh /\ Placed
  BY DEF Inv
<1>2. /\ pc = "off" /\ pc' = "loop" /\ shown' = level
      /\ UNCHANGED <<pool, history, level, changes, drops, total, close_total, open_item,
                     item, opened, closed, lostClose, lostLevel>>
  BY DEF Attach, termVars, itemVars
<1>3. /\ prev_last_order = 0 /\ prev_close_order = 0 /\ first = <<>> /\ base = 0 /\ ~looked
      /\ \A t \in Ticket : opened[t] = 0 /\ closed[t] = 0
  BY <1>1, <1>2 DEF Fresh
<1>4. /\ Len(pool) \in Nat /\ Len(history) \in Nat /\ pool \in Seq(Ticket)
      /\ Len(pool) + Len(history) <= Most /\ Most \in Nat
  BY <1>1, LenProperties, TraderAssumption, FS_CardinalityType DEF TypeOK, Most
<1>5. \/ /\ initialized' = TRUE /\ retry_login_count' = 0
         /\ prev_last_order' = Len(pool) /\ prev_close_order' = Len(history)
         /\ open_order' = Recorded /\ open_order_count' = Len(pool)
         /\ looked' = TRUE /\ first' = pool /\ base' = Len(history)
      \/ /\ retry_login_count' = 1
         /\ UNCHANGED <<initialized, prev_last_order, prev_close_order, open_order,
                        open_order_count, looked, first, base>>
  BY DEF Attach, prevVars, tableVars, startVars
<1>6. /\ Len(first') = prev_last_order' /\ prev_last_order' \in 0..Len(pool) /\ first' \in Seq(Ticket)
      /\ base' = prev_close_order' /\ prev_close_order' \in 0..Len(history)
  <2>1. CASE /\ prev_last_order' = Len(pool) /\ prev_close_order' = Len(history)
             /\ first' = pool /\ base' = Len(history)
    BY <1>4, <2>1
  <2>2. CASE /\ prev_last_order' = prev_last_order /\ prev_close_order' = prev_close_order
             /\ first' = first /\ base' = base
    <3>1. Len(<<>>) = 0 /\ <<>> \in Seq(Ticket)
      OBVIOUS
    <3>2. first' = <<>> /\ prev_last_order' = 0 /\ prev_close_order' = 0 /\ base' = 0
      BY <1>3, <2>2
    <3> QED BY <1>4, <3>1, <3>2
  <2> QED BY <1>5, <2>1, <2>2
<1>7. TypeOK'
  <2>1. Recorded \in [Slots -> Entry]
    BY <1>1, Tables
  <2>2. open_order' \in [Slots -> Entry] /\ open_order_count' \in 0..Most
    BY <1>1, <1>4, <1>5, <2>1 DEF TypeOK
  <2>3. initialized' \in BOOLEAN /\ looked' \in BOOLEAN /\ retry_login_count' \in 0..3
    <3>1. initialized \in BOOLEAN /\ looked \in BOOLEAN
      BY <1>1 DEF TypeOK
    <3>2. initialized' \in BOOLEAN /\ looked' \in BOOLEAN
      BY <1>5, <3>1
    <3>3. retry_login_count' \in {0, 1}
      BY <1>5
    <3> QED BY <3>2, <3>3
  <2>4. prev_last_order' \in 0..Most /\ base' \in 0..Most
    BY <1>4, <1>6
  <2> QED BY <1>1, <1>2, <1>6, <2>2, <2>3, <2>4 DEF TypeOK
<1>8. Distinct' /\ Fresh'
  BY <1>1, <1>2, <1>5 DEF Distinct, Fresh
<1>9. Placed'
  <2>1. open_item >= 0
    BY <1>1, <1>2 DEF Placed, InOpens
  <2>2. base' <= prev_close_order'
    BY <1>4, <1>6
  <2> QED BY <1>2, <2>1, <2>2 DEF Placed, InOpens, InCloses
<1>10. ClosesCountedOnce'
  <2>1. \A i \in 1..Len(history) : ~CloseSent(i)'
    BY <1>2, <1>4, <1>6 DEF CloseSent, InCloses
  <2> QED BY <1>2, <1>3, <2>1 DEF ClosesCountedOnce
<1>11. OpensCountedOnce'
  <2>1. \A i \in 1..Len(pool) : ~OpenSent(i)'
    BY <1>2, <1>4, <1>6 DEF OpenSent, InOpens
  <2>2. \A i \in 1..Len(pool) : pool[i] \in Ticket
    BY <1>4
  <2>3. Len(first') <= prev_last_order' /\ prev_last_order' <= Len(pool)
    BY <1>4, <1>6
  <2> QED BY <1>2, <1>3, <2>1, <2>2, <2>3 DEF OpensCountedOnce
<1> QED BY <1>7, <1>8, <1>9, <1>10, <1>11 DEF Inv

(* Nothing of what is counted changes.                                     *)
LEMMA LinkStep ==
  ASSUME Inv, Login \/ Broken \/ PassDone
  PROVE  Inv'
<1>1. /\ UNCHANGED <<pool, history, level, changes, prev_last_order, prev_close_order,
                     open_item, open_order, open_order_count, opened,
                     closed, lostClose, shown, lostLevel, looked, first, base>>
  BY DEF Login, Broken, PassDone, termVars, linkVars, prevVars, itemVars, tableVars, sentVars,
         startVars
<1>2. /\ pc \in {"loop", "modify"} /\ pc' = "loop"
      /\ total' \in {total, 0} /\ close_total' \in {close_total, 0} /\ item' \in {item, 0}
  BY DEF Login, Broken, PassDone, itemVars
<1>3. initialized' \in BOOLEAN /\ retry_login_count' \in 0..3 /\ drops' \in 0..MaxDrop
  <2>1. initialized \in BOOLEAN
    BY DEF Inv, TypeOK
  <2>2. initialized' \in {initialized, TRUE, FALSE}
    BY DEF Login, Broken, PassDone, linkVars
  <2>3. retry_login_count \in 0..3 /\ drops \in 0..MaxDrop /\ MaxDrop \in Nat
    BY TraderAssumption DEF Inv, TypeOK
  <2>4. /\ \/ retry_login_count' \in {retry_login_count, 0}
           \/ retry_login_count < 3 /\ retry_login_count' = retry_login_count + 1
        /\ \/ drops' = drops
           \/ drops < MaxDrop /\ drops' = drops + 1
    BY DEF Login, Broken, PassDone, linkVars
  <2>5. retry_login_count' \in 0..3 /\ drops' \in 0..MaxDrop
    BY <2>3, <2>4
  <2> QED BY <2>1, <2>2, <2>5
<1>4. TypeOK'
  <2>1. Most \in Nat
    BY TraderAssumption, FS_CardinalityType DEF Most
  <2>2. total' \in 0..Most /\ close_total' \in 0..Most /\ item' \in -1..Most
    BY <1>2, <2>1 DEF Inv, TypeOK
  <2> QED BY <1>1, <1>2, <1>3, <2>2 DEF Inv, TypeOK
<1>5. ~InOpens /\ ~InCloses /\ ~InOpens' /\ ~InCloses'
  BY <1>2 DEF InOpens, InCloses
<1>6. Distinct' /\ Fresh' /\ Placed'
  BY <1>1, <1>2, <1>5 DEF Inv, Distinct, Fresh, Placed
<1>7. ClosesCountedOnce'
  BY <1>1, <1>5 DEF Inv, ClosesCountedOnce, CloseSent
<1>8. OpensCountedOnce'
  BY <1>1, <1>2, <1>5 DEF Inv, OpensCountedOnce, OpenSent, In
<1> QED BY <1>4, <1>6, <1>7, <1>8 DEF Inv

LEMMA ReadTotalStep ==
  ASSUME Inv, ReadTotal
  PROVE  Inv'
<1>1. /\ TypeOK /\ Distinct /\ Fresh /\ Placed /\ ClosesCountedOnce /\ OpensCountedOnce
  BY DEF Inv
<1>2. /\ pc = "loop" /\ pc' = "opens" /\ total' = Len(pool)
      /\ open_item' = IF Len(pool) > prev_last_order THEN Len(pool) - 1 ELSE open_item
      /\ UNCHANGED <<pool, history, level, changes, initialized, retry_login_count, drops,
                     prev_last_order, prev_close_order, close_total, item, open_order,
                     open_order_count, opened, closed, lostClose, shown, lostLevel,
                     looked, first, base>>
  BY DEF ReadTotal, termVars, linkVars, prevVars, tableVars, sentVars, startVars
<1>3. /\ Len(pool) \in 0..Most /\ Most \in Nat /\ prev_last_order \in 0..Most
      /\ open_item \in -1..Most /\ open_item >= 0
  <2>1. Len(pool) \in Nat /\ Len(history) \in Nat /\ Most \in Nat
    BY <1>1, LenProperties, TraderAssumption, FS_CardinalityType DEF TypeOK, Most
  <2>2. Len(pool) <= Most /\ prev_last_order \in 0..Most /\ open_item \in -1..Most
    BY <1>1, <2>1 DEF TypeOK
  <2>3. open_item >= 0
    BY <1>1, <1>2 DEF Placed, InOpens
  <2> QED BY <2>1, <2>2, <2>3
<1>4. /\ open_item' \in -1..Most /\ open_item' >= 0
      /\ InOpens' => prev_last_order - 1 <= open_item' /\ open_item' = total' - 1
  BY <1>2, <1>3 DEF InOpens
<1>5. TypeOK'
  BY <1>1, <1>2, <1>3, <1>4 DEF TypeOK
<1>6. Distinct' /\ Fresh' /\ ClosesCountedOnce'
  BY <1>1, <1>2 DEF Distinct, Fresh, ClosesCountedOnce, CloseSent, InCloses
<1>7. Placed'
  <2>1. ~InCloses'
    BY <1>2 DEF InCloses
  <2>2. InOpens' => open_item' < total'
    BY <1>2, <1>3, <1>4
  <2> QED BY <1>1, <1>2, <1>4, <2>1, <2>2 DEF Placed
<1>8. OpensCountedOnce'
  <2>1. \A i \in 1..Len(pool) : OpenSent(i)' <=> OpenSent(i)
    BY <1>2, <1>3, <1>4 DEF OpenSent, InOpens
  <2>2. Len(pool) <= Len(pool)
    BY <1>3
  <2> QED BY <1>1, <1>2, <2>1, <2>2 DEF OpensCountedOnce, In
<1> QED BY <1>5, <1>6, <1>7, <1>8 DEF Inv

(* A call, whether it succeeds or not.                                     *)
LEMMA Sending ==
  ASSUME NEW ok, Sends(ok)
  PROVE  /\ initialized' \in BOOLEAN /\ retry_login_count' = retry_login_count
         /\ drops' = drops
<1>1. initialized' = (initialized /\ ok) /\ UNCHANGED <<retry_login_count, drops>>
  BY Zenon DEF Sends
<1>2. initialized' \in BOOLEAN
  BY <1>1, Zenon
<1> QED BY <1>1, <1>2

LEMMA SendOpenStep ==
  ASSUME Inv, SendOpen
  PROVE  Inv'
<1>1. /\ TypeOK /\ Distinct /\ Fresh /\ Placed /\ ClosesCountedOnce /\ OpensCountedOnce
  BY DEF Inv
<1>2. /\ pc = "opens" /\ total > prev_last_order /\ open_item >= prev_last_order
      /\ open_item' = open_item - 1
      /\ UNCHANGED <<pool, history, level, changes, pc, prev_last_order, prev_close_order,
                     total, close_total, item, open_order, open_order_count, closed,
                     lostClose, shown, lostLevel, looked, first, base>>
  BY DEF SendOpen, termVars, prevVars, tableVars, startVars
<1>3. /\ open_item \in -1..Most /\ Most \in Nat /\ prev_last_order \in 0..Most /\ total \in 0..Most
      /\ Len(pool) \in Nat /\ Len(first) \in Nat /\ open_item < total /\ InOpens
  BY <1>1, <1>2, LenProperties, TraderAssumption, FS_CardinalityType
     DEF TypeOK, Most, Placed, InOpens
<1>4. InOpens'
  BY <1>2, <1>3 DEF InOpens
<1>5. /\ initialized' \in BOOLEAN /\ retry_login_count' = retry_login_count /\ drops' = drops
      /\ opened' \in [Ticket -> Nat]
      /\ opened' = IF Selects(open_item)
                   THEN [opened EXCEPT ![At(open_item)] = opened[At(open_item)] + 1] ELSE opened
      /\ Selects(open_item) => At(open_item) \in Ticket
  <2>1. initialized \in BOOLEAN /\ opened \in [Ticket -> Nat]
    BY <1>1 DEF TypeOK
  <2>2. CASE Selects(open_item)
    <3>1. At(open_item) \in Ticket
      BY <1>1, <1>2, <1>3, <2>2, Tables
    <3>2. /\ \E ok \in BOOLEAN : Sends(ok)
          /\ opened' = [opened EXCEPT ![At(open_item)] = @ + 1]
      BY <2>2 DEF SendOpen
    <3>3. /\ initialized' \in BOOLEAN /\ retry_login_count' = retry_login_count
          /\ drops' = drops
      BY <3>2, Sending
    <3> QED BY <2>1, <2>2, <3>1, <3>2, <3>3
  <2>3. CASE ~Selects(open_item)
    BY <2>1, <2>3 DEF SendOpen, SendsNothing, linkVars
  <2> QED BY <2>2, <2>3
<1>6. TypeOK'
  <2>1. open_item' \in -1..Most
    BY <1>2, <1>3
  <2> QED BY <1>1, <1>2, <1>5, <2>1 DEF TypeOK
<1>7. Distinct' /\ Fresh'
  BY <1>1, <1>2 DEF Distinct, Fresh
<1>8. Placed'
  <2>1. prev_last_order - 1 <= open_item' /\ open_item' < total
    BY <1>2, <1>3
  <2> QED BY <1>1, <1>2, <1>4, <2>1 DEF Placed, InCloses
<1>9. ClosesCountedOnce'
  BY <1>1, <1>2 DEF ClosesCountedOnce, CloseSent, InCloses
<1>10. OpensCountedOnce'
  <2> SUFFICES ASSUME Len(history) = base
               PROVE  /\ Len(first) <= prev_last_order /\ prev_last_order <= Len(pool)
                      /\ total <= Len(pool)
                      /\ \A i \in 1..Len(pool) :
                           opened'[pool[i]] = IF OpenSent(i)' THEN 1 ELSE 0
                      /\ \A u \in Ticket : ~In(u, pool) => opened'[u] = 0
    BY <1>2 DEF OpensCountedOnce, In
  <2>1. /\ Len(first) <= prev_last_order /\ prev_last_order <= Len(pool) /\ total <= Len(pool)
        /\ \A i \in 1..Len(pool) : opened[pool[i]] = IF OpenSent(i) THEN 1 ELSE 0
        /\ \A u \in Ticket : ~In(u, pool) => opened[u] = 0
    BY <1>1, <1>2 DEF OpensCountedOnce
  <2>2. PICK k \in 1..Len(pool) : k = open_item + 1 /\ Selects(open_item) /\ At(open_item) = pool[k]
    <3>1. open_item + 1 \in 1..Len(pool) /\ Selects(open_item)
      BY <1>2, <1>3, <2>1 DEF Selects
    <3> QED BY <3>1 DEF At
  <2>3. opened' = [opened EXCEPT ![pool[k]] = opened[pool[k]] + 1]
    BY <1>5, <2>2
  <2>4. opened \in [Ticket -> Nat] /\ pool[k] \in Ticket
    BY <1>1, <1>5, <2>2 DEF TypeOK
  <2>5. ~OpenSent(k)
    BY <1>2, <1>3, <2>2 DEF OpenSent
  <2>6. OpenSent(k)'
    BY <1>2, <1>3, <1>4, <2>1, <2>2 DEF OpenSent
  <2>7. \A i \in 1..Len(pool) : i # k => (OpenSent(i)' <=> OpenSent(i))
    BY <1>2, <1>3, <1>4, <2>2 DEF OpenSent
  <2>8. ASSUME NEW i \in 1..Len(pool)
        PROVE  opened'[pool[i]] = IF OpenSent(i)' THEN 1 ELSE 0
    <3>1. CASE i = k
      <4>1. opened[pool[i]] = 0
        BY <2>1, <2>5, <3>1
      <4> QED BY <2>3, <2>4, <2>6, <3>1, <4>1
    <3>2. CASE i # k
      <4>1. pool[i] # pool[k]
        BY <1>1, <2>2, <3>2 DEF Distinct
      <4>2. opened'[pool[i]] = opened[pool[i]]
        BY <2>3, <2>4, <4>1
      <4> QED BY <2>1, <2>7, <3>2, <4>2
    <3> QED BY <3>1, <3>2
  <2>9. ASSUME NEW u \in Ticket, ~In(u, pool)
        PROVE  opened'[u] = 0
    <3>1. u # pool[k]
      BY <2>2, <2>9 DEF In
    <3> QED BY <2>1, <2>3, <2>4, <2>9, <3>1
  <2> QED BY <2>1, <2>8, <2>9
<1> QED BY <1>6, <1>7, <1>8, <1>9, <1>10 DEF Inv

LEMMA OpensDoneStep ==
  ASSUME Inv, OpensDone
  PROVE  Inv'
<1>1. /\ TypeOK /\ Distinct /\ Fresh /\ Placed /\ ClosesCountedOnce /\ OpensCountedOnce
  BY DEF Inv
<1>2. /\ pc = "opens" /\ pc' = "closes"
      /\ ~(total > prev_last_order /\ open_item >= prev_last_order)
      /\ close_total' = Len(history) /\ item' = Len(history) - 1
      /\ UNCHANGED <<pool, history, level, changes, initialized, retry_login_count, drops,
                     prev_close_order, total, opened, closed, lostClose, shown, lostLevel,
                     looked, first, base>>
  BY DEF OpensDone, termVars, linkVars, sentVars, startVars
<1>3. \/ /\ total > prev_last_order /\ prev_last_order' = total
         /\ open_order' = Recorded /\ open_order_count' = Len(pool) /\ open_item' = Len(pool)
      \/ /\ ~(total > prev_last_order)
         /\ UNCHANGED <<prev_last_order, open_order, open_order_count, open_item>>
  BY DEF OpensDone, Counted, tableVars
<1>4. /\ open_item \in -1..Most /\ Most \in Nat /\ prev_last_order \in 0..Most /\ total \in 0..Most
      /\ Len(pool) \in 0..Most /\ Len(history) \in 0..Most /\ Len(first) \in Nat
      /\ prev_close_order \in 0..Len(history)
  <2>1. Len(pool) \in Nat /\ Len(history) \in Nat /\ Len(first) \in Nat /\ Most \in Nat
    BY <1>1, LenProperties, TraderAssumption, FS_CardinalityType DEF TypeOK, Most
  <2> QED BY <1>1, <2>1 DEF TypeOK
<1>5. /\ prev_last_order' \in 0..Most /\ open_item' \in -1..Most /\ open_item' >= 0
      /\ open_order' \in [Slots -> Entry] /\ open_order_count' \in 0..Most
  <2>1. CASE total > prev_last_order
    <3>1. Recorded \in [Slots -> Entry]
      BY <1>1, Tables
    <3> QED BY <1>3, <1>4, <2>1, <3>1
  <2>2. CASE ~(total > prev_last_order)
    <3>1. open_item >= 0
      BY <1>1, <2>2 DEF Placed, InOpens
    <3>2. open_order \in [Slots -> Entry] /\ open_order_count \in 0..Most
      BY <1>1 DEF TypeOK
    <3> QED BY <1>3, <1>4, <2>2, <3>1, <3>2
  <2> QED BY <2>1, <2>2
<1>6. TypeOK'
  <2>1. close_total' \in 0..Most /\ item' \in -1..Most
    BY <1>2, <1>4
  <2> QED BY <1>1, <1>2, <1>5, <2>1 DEF TypeOK
<1>7. Distinct' /\ Fresh'
  BY <1>1, <1>2 DEF Distinct, Fresh
<1>8. Placed'
  <2>1. ~InOpens'
    BY <1>2 DEF InOpens
  <2>2. close_total' <= Len(history) /\ item' < close_total'
    BY <1>2, <1>4
  <2>3. InCloses' => prev_close_order - 1 <= item'
    BY <1>2, <1>4 DEF InCloses
  <2> QED BY <1>1, <1>2, <1>5, <2>1, <2>2, <2>3 DEF Placed
<1>9. ClosesCountedOnce'
  <2>1. ~InCloses
    BY <1>2 DEF InCloses
  <2>2. \A i \in 1..Len(history) : CloseSent(i)' <=> CloseSent(i)
    BY <1>2, <1>4, <2>1 DEF CloseSent
  <2> QED BY <1>1, <1>2, <2>2 DEF ClosesCountedOnce
<1>10. OpensCountedOnce'
  <2> SUFFICES ASSUME Len(history) = base
               PROVE  /\ Len(first) <= prev_last_order' /\ prev_last_order' <= Len(pool)
                      /\ \A i \in 1..Len(pool) : OpenSent(i)' <=> OpenSent(i)
    BY <1>1, <1>2 DEF OpensCountedOnce, In
  <2>1. Len(first) <= prev_last_order /\ prev_last_order <= Len(pool) /\ total <= Len(pool)
    BY <1>1, <1>2 DEF OpensCountedOnce
  <2>2. ~InOpens'
    BY <1>2 DEF InOpens
  <2>3. CASE total > prev_last_order
    <3>1. InOpens /\ open_item = prev_last_order - 1 /\ prev_last_order' = total
      BY <1>1, <1>2, <1>3, <1>4, <2>3 DEF Placed, InOpens
    <3> QED BY <1>2, <1>4, <2>1, <2>2, <2>3, <3>1 DEF OpenSent
  <2>4. CASE ~(total > prev_last_order)
    <3>1. ~InOpens /\ prev_last_order' = prev_last_order
      BY <1>3, <2>4 DEF InOpens
    <3> QED BY <1>2, <2>1, <2>2, <3>1 DEF OpenSent
  <2> QED BY <2>3, <2>4
<1> QED BY <1>6, <1>7, <1>8, <1>9, <1>10 DEF Inv

LEMMA SendCloseStep ==
  ASSUME Inv, SendClose
  PROVE  Inv'
<1>1. /\ TypeOK /\ Distinct /\ Fresh /\ Placed /\ ClosesCountedOnce /\ OpensCountedOnce
  BY DEF Inv
<1>2. /\ pc = "closes" /\ close_total > prev_close_order /\ item >= prev_close_order
      /\ item' = item - 1
      /\ UNCHANGED <<pool, history, level, changes, pc, prev_last_order, prev_close_order,
                     total, close_total, open_item, open_order, open_order_count, opened,
                     shown, lostLevel, looked, first, base>>
      /\ closed' = [closed EXCEPT ![history[item + 1]] = closed[history[item + 1]] + 1]
      /\ \E ok \in BOOLEAN : Sends(ok)
      /\ lostClose' \in {lostClose, lostClose \cup {history[item + 1]}}
  BY DEF SendClose, FromNew, termVars, prevVars, tableVars, startVars
<1>3. /\ item \in -1..Most /\ Most \in Nat /\ Len(history) \in Nat
      /\ prev_close_order \in 0..Len(history) /\ close_total \in 0..Most
      /\ item < close_total /\ close_total <= Len(history) /\ base \in 0..Most
      /\ base <= prev_close_order
  BY <1>1, <1>2, LenProperties, TraderAssumption, FS_CardinalityType DEF TypeOK, Most, Placed
<1>4. PICK k \in 1..Len(history) : k = item + 1
  BY <1>2, <1>3
<1>5. /\ history[k] \in Ticket /\ closed \in [Ticket -> Nat] /\ lostClose \in SUBSET Ticket
      /\ initialized' \in BOOLEAN /\ retry_login_count' = retry_login_count /\ drops' = drops
  <2>1. initialized' \in BOOLEAN /\ retry_login_count' = retry_login_count /\ drops' = drops
    BY <1>2, Sending
  <2> QED BY <1>1, <2>1 DEF TypeOK
<1>6. closed' = [closed EXCEPT ![history[k]] = closed[history[k]] + 1]
  BY <1>2, <1>4
<1>7. /\ InCloses /\ InCloses' /\ ~InOpens /\ ~InOpens'
  BY <1>2 DEF InCloses, InOpens
<1>8. TypeOK'
  <2>1. lostClose' \in SUBSET Ticket /\ closed' \in [Ticket -> Nat]
    BY <1>2, <1>4, <1>5, <1>6
  <2>2. item' \in -1..Most
    BY <1>2, <1>3
  <2> QED BY <1>1, <1>2, <1>5, <2>1, <2>2 DEF TypeOK
<1>9. Distinct' /\ Fresh'
  BY <1>1, <1>2 DEF Distinct, Fresh
<1>10. Placed'
  <2>1. prev_close_order - 1 <= item' /\ item' < close_total
    BY <1>2, <1>3
  <2>2. open_item >= 0
    BY <1>1, <1>7 DEF Placed
  <2> QED BY <1>2, <1>3, <1>7, <2>1, <2>2 DEF Placed
<1>11. ClosesCountedOnce'
  <2>1. ~CloseSent(k) /\ CloseSent(k)'
    BY <1>2, <1>3, <1>4, <1>7 DEF CloseSent
  <2>2. \A i \in 1..Len(history) : i # k => (CloseSent(i)' <=> CloseSent(i))
    BY <1>2, <1>3, <1>4, <1>7 DEF CloseSent
  <2>3. ASSUME NEW u \in Ticket
        PROVE  closed'[u] = IF \E i \in 1..Len(history) : history[i] = u /\ CloseSent(i)'
                            THEN 1 ELSE 0
    <3>1. closed[u] = IF \E i \in 1..Len(history) : history[i] = u /\ CloseSent(i) THEN 1 ELSE 0
      BY <1>1 DEF ClosesCountedOnce
    <3>2. CASE u = history[k]
      <4>1. ~\E i \in 1..Len(history) : history[i] = u /\ CloseSent(i)
        BY <1>1, <2>1, <3>2 DEF Distinct
      <4>2. \E i \in 1..Len(history) : history[i] = u /\ CloseSent(i)'
        BY <2>1, <3>2
      <4>3. closed'[u] = closed[u] + 1 /\ closed[u] = 0
        BY <1>5, <1>6, <3>1, <3>2, <4>1
      <4> QED BY <4>2, <4>3
    <3>3. CASE u # history[k]
      <4>1. (\E i \in 1..Len(history) : history[i] = u /\ CloseSent(i)')
              <=> \E i \in 1..Len(history) : history[i] = u /\ CloseSent(i)
        BY <2>2, <3>3
      <4>2. closed'[u] = closed[u]
        BY <1>5, <1>6, <3>3
      <4> QED BY <3>1, <4>1, <4>2
    <3> QED BY <3>2, <3>3
  <2> QED BY <1>2, <2>3 DEF ClosesCountedOnce
<1>12. OpensCountedOnce'
  BY <1>1, <1>2, <1>7 DEF OpensCountedOnce, OpenSent, In
<1> QED BY <1>8, <1>9, <1>10, <1>11, <1>12 DEF Inv

LEMMA ClosesDoneStep ==
  ASSUME Inv, ClosesDone
  PROVE  Inv'
<1>1. /\ TypeOK /\ Distinct /\ Fresh /\ Placed /\ ClosesCountedOnce /\ OpensCountedOnce
  BY DEF Inv
<1>2. /\ pc = "closes" /\ pc' = "modify" /\ item' = 0
      /\ ~(close_total > prev_close_order /\ item >= prev_close_order)
      /\ UNCHANGED <<pool, history, level, changes, initialized, retry_login_count, drops,
                     total, close_total, open_item, opened, closed, lostClose, shown, lostLevel,
                     looked, first, base>>
  BY DEF ClosesDone, FromNew, termVars, linkVars, sentVars, startVars
<1>3. \/ /\ close_total > prev_close_order
         /\ prev_close_order' = close_total /\ prev_last_order' = Len(pool)
         /\ open_order' = RecordedAtOpenItem /\ open_order_count' = Len(pool)
      \/ /\ ~(close_total > prev_close_order)
         /\ UNCHANGED <<prev_last_order, prev_close_order, open_order, open_order_count>>
  BY DEF ClosesDone, ClosesCounted, prevVars, tableVars
<1>4. /\ item \in -1..Most /\ Most \in Nat /\ prev_last_order \in 0..Most /\ close_total \in 0..Most
      /\ Len(pool) \in 0..Most /\ Len(history) \in Nat /\ base \in 0..Most
      /\ prev_close_order \in 0..Len(history)
      /\ close_total <= Len(history) /\ base <= prev_close_order
      /\ open_item >= 0
  <2>1. Len(pool) \in Nat /\ Len(history) \in Nat /\ Most \in Nat
    BY <1>1, LenProperties, TraderAssumption, FS_CardinalityType DEF TypeOK, Most
  <2>2. close_total <= Len(history) /\ base <= prev_close_order /\ open_item >= 0
    BY <1>1, <1>2 DEF Placed, InOpens
  <2> QED BY <1>1, <2>1, <2>2 DEF TypeOK
<1>5. /\ prev_last_order' \in 0..Most /\ prev_close_order' \in 0..Len(history)
      /\ open_order' \in [Slots -> Entry] /\ open_order_count' \in 0..Most
      /\ prev_close_order <= prev_close_order'
  <2>1. RecordedAtOpenItem \in [Slots -> Entry]
    BY <1>1, <1>4, Tables
  <2>2. open_order \in [Slots -> Entry] /\ open_order_count \in 0..Most
    BY <1>1 DEF TypeOK
  <2> QED BY <1>3, <1>4, <2>1, <2>2
<1>6. TypeOK'
  <2>1. item' \in -1..Most
    BY <1>2, <1>4
  <2> QED BY <1>1, <1>2, <1>5, <2>1 DEF TypeOK
<1>7. Distinct' /\ Fresh'
  BY <1>1, <1>2 DEF Distinct, Fresh
<1>8. ~InOpens' /\ ~InCloses' /\ ~InOpens
  BY <1>2 DEF InOpens, InCloses
<1>9. Placed'
  <2>1. base <= prev_close_order'
    BY <1>4, <1>5
  <2>2. item' >= 0
    BY <1>2
  <2> QED BY <1>2, <1>4, <1>8, <2>1, <2>2 DEF Placed
<1>10. ClosesCountedOnce'
  <2>1. \A i \in 1..Len(history) : CloseSent(i)' <=> CloseSent(i)
    <3>1. CASE close_total > prev_close_order
      <4>1. InCloses /\ item + 1 = prev_close_order /\ prev_close_order' = close_total
        BY <1>1, <1>2, <1>3, <1>4, <3>1 DEF Placed, InCloses
      <4> QED BY <1>2, <1>4, <1>8, <3>1, <4>1 DEF CloseSent
    <3>2. CASE ~(close_total > prev_close_order)
      <4>1. ~InCloses /\ prev_close_order' = prev_close_order
        BY <1>3, <3>2 DEF InCloses
      <4> QED BY <1>2, <1>8, <4>1 DEF CloseSent
    <3> QED BY <3>1, <3>2
  <2> QED BY <1>1, <1>2, <2>1 DEF ClosesCountedOnce
<1>11. OpensCountedOnce'
  <2> SUFFICES ASSUME Len(history) = base PROVE OpensCountedOnce'
    BY <1>2 DEF OpensCountedOnce
  <2>1. ~(close_total > prev_close_order)
    BY <1>4
  <2>2. prev_last_order' = prev_last_order
    BY <1>3, <2>1
  <2> QED BY <1>1, <1>2, <1>8, <2>2 DEF OpensCountedOnce, OpenSent, In
<1> QED BY <1>6, <1>7, <1>9, <1>10, <1>11 DEF Inv

LEMMA SendChangeStep ==
  ASSUME Inv, SendChange
  PROVE  Inv'
<1>1. /\ TypeOK /\ Distinct /\ Fresh /\ Placed /\ ClosesCountedOnce /\ OpensCountedOnce
  BY DEF Inv
<1>2. /\ pc = "modify" /\ item < open_order_count /\ item' = item + 1
      /\ UNCHANGED <<pool, history, level, changes, pc, prev_last_order, prev_close_order,
                     total, close_total, open_item, open_order_count, opened, closed, lostClose,
                     looked, first, base>>
  BY DEF SendChange, termVars, prevVars, startVars
<1>3. /\ item \in -1..Most /\ item >= 0 /\ Most \in Nat /\ open_order_count \in 0..Most
  BY <1>1, <1>2, TraderAssumption, FS_CardinalityType DEF TypeOK, Most, Placed
<1>4. /\ initialized' \in BOOLEAN /\ retry_login_count' = retry_login_count /\ drops' = drops
      /\ shown' \in [Ticket -> Level] /\ lostLevel' \in [Ticket -> Level \cup {0}]
      /\ open_order' \in [Slots -> Entry]
  <2>1. /\ initialized \in BOOLEAN /\ shown \in [Ticket -> Level] /\ level \in [Ticket -> Level]
        /\ lostLevel \in [Ticket -> Level \cup {0}] /\ open_order \in [Slots -> Entry]
    BY <1>1 DEF TypeOK
  <2>2. CASE Selects(item) /\ open_order[item].ticket = At(item) /\ NotEqual(item)
    <3> DEFINE t == At(item)
    <3>1. /\ open_order' = [open_order EXCEPT ![item].level = level[t]]
          /\ \/ /\ Sends(TRUE)
                /\ shown' = [shown EXCEPT ![t] = level[t]]
                /\ lostLevel' = [lostLevel EXCEPT ![t] = 0]
             \/ /\ Sends(FALSE)
                /\ lostLevel' = [lostLevel EXCEPT ![t] = level[t]]
                /\ UNCHANGED shown
      BY <2>2 DEF SendChange
    <3>2. t \in Ticket /\ level[t] \in Level
      BY <1>1, <1>3, <2>1, <2>2, Tables
    <3>3. initialized' \in BOOLEAN /\ retry_login_count' = retry_login_count /\ drops' = drops
      BY <3>1, Sending
    <3> HIDE DEF t
    <3>4. shown' \in [Ticket -> Level] /\ lostLevel' \in [Ticket -> Level \cup {0}]
      BY <2>1, <3>1, <3>2
    <3>5. item \in Slots
      BY <1>2, <1>3 DEF Slots, Most
    <3>6. [open_order[item] EXCEPT !.level = level[t]] \in Entry
      BY <2>1, <3>2, <3>5 DEF Entry
    <3>7. open_order' = [open_order EXCEPT ![item] = [open_order[item] EXCEPT !.level = level[t]]]
      BY <2>1, <3>1, <3>5
    <3> QED BY <2>1, <3>3, <3>4, <3>6, <3>7
  <2>3. CASE ~(Selects(item) /\ open_order[item].ticket = At(item) /\ NotEqual(item))
    BY <2>1, <2>3 DEF SendChange, SendsNothing, linkVars
  <2> QED BY <2>2, <2>3
<1>5. item' \in -1..Most /\ item' >= 0
  BY <1>2, <1>3
<1>6. TypeOK'
  BY <1>1, <1>2, <1>4, <1>5 DEF TypeOK
<1>7. Distinct' /\ Fresh' /\ Placed'
  BY <1>1, <1>2, <1>5 DEF Distinct, Fresh, Placed, InOpens, InCloses
<1>8. ClosesCountedOnce' /\ OpensCountedOnce'
  BY <1>1, <1>2 DEF ClosesCountedOnce, CloseSent, InCloses, OpensCountedOnce, OpenSent, InOpens, In
<1> QED BY <1>6, <1>7, <1>8 DEF Inv

-----------------------------------------------------------------------------
LEMMA Step ==
  ASSUME Inv, [Next]_vars
  PROVE  Inv'
<1>1. CASE Next
  BY <1>1, TerminalStep, AttachStep, LinkStep, ReadTotalStep, SendOpenStep, OpensDoneStep,
     SendCloseStep, ClosesDoneStep, SendChangeStep DEF Next, EA
<1>2. CASE UNCHANGED vars
  <2>1. UNCHANGED <<pool, history, level, changes, pc, initialized, retry_login_count, drops,
                    prev_last_order, prev_close_order, total, close_total, open_item, item,
                    open_order, open_order_count, opened, closed, lostClose, shown, lostLevel,
                     looked, first, base>>
    BY <1>2 DEF vars, termVars, linkVars, prevVars, itemVars, tableVars, sentVars, startVars
  <2>2. TypeOK' /\ Distinct' /\ Fresh' /\ Placed'
    BY <2>1 DEF Inv, TypeOK, Distinct, Fresh, Placed, InOpens, InCloses
  <2>3. ClosesCountedOnce'
    BY <2>1 DEF Inv, ClosesCountedOnce, CloseSent, InCloses
  <2>4. OpensCountedOnce'
    BY <2>1 DEF Inv, OpensCountedOnce, OpenSent, InOpens, In
  <2> QED BY <2>2, <2>3, <2>4 DEF Inv
<1> QED BY <1>1, <1>2

LEMMA Invariant == Spec => []Inv
<1> QED BY Start, Step, PTL DEF Spec

(* The lists, counters and tables of the EA have their types, for any      *)
(* number of positions, changes and lost connections.                      *)
THEOREM TypeCorrect == Spec => []TypeOK
<1>1. Inv => TypeOK
  BY DEF Inv
<1> QED BY <1>1, Invariant, PTL

(* Whatever the trader does while a batch is being sent and however often  *)
(* a call fails or the connection is lost, SendOrder is called for no      *)
(* close twice, for none of an open position, and for none of a position   *)
(* closed before init unless init's login failed; and until a position is  *)
(* closed every open among the first prev_last_order that init has not     *)
(* counted is sent once and no other (Trader.mq4:184-188, 306-353).        *)
THEOREM SentOnceHolds == Spec => []SentOnce
<1>1. Inv => SentOnce
  <2> SUFFICES ASSUME Inv PROVE SentOnce
    OBVIOUS
  <2>0. OldOpens = Len(first) /\ OldCloses = base
    BY DEF OldOpens, OldCloses, Inv, Fresh
  <2>1. OpensOnce
    <3> SUFFICES ASSUME pc = "loop", Len(history) = OldCloses
                 PROVE  \A i \in 1..Len(pool) : opened[pool[i]] = IF Known(i) THEN 1 ELSE 0
      BY DEF OpensOnce
    <3>1. \A i : OpenSent(i) <=> Known(i)
      BY <2>0 DEF OpenSent, InOpens, Known
    <3> QED BY <2>0, <3>1 DEF Inv, OpensCountedOnce
  <2>2. ASSUME NEW t \in Ticket, closed[t] # 0
        PROVE  closed[t] = 1 /\ \E i \in OldCloses + 1..Len(history) : history[i] = t
    <3>1. closed[t] = 1 /\ \E i \in 1..Len(history) : history[i] = t /\ CloseSent(i)
      BY <2>2 DEF Inv, ClosesCountedOnce
    <3>2. PICK i \in 1..Len(history) : history[i] = t /\ CloseSent(i)
      BY <3>1
    <3>3. base \in Int /\ Len(history) \in Nat
      BY LenProperties, TraderAssumption, FS_CardinalityType DEF Inv, TypeOK, Most
    <3>4. i \in OldCloses + 1..Len(history)
      BY <2>0, <3>2, <3>3 DEF CloseSent
    <3> QED BY <3>1, <3>2, <3>4
  <2> QED BY <2>1, <2>2 DEF SentOnce, ClosesOnce
<1> QED BY <1>1, Invariant, PTL
=============================================================================
