------------------------------ MODULE Follower -------------------------------
(***************************************************************************)
(* The Follower EA: it receives the orders of the traders its customer     *)
(* follows one by one and repeats them on the customer's account.  A copy  *)
(* carries the ticket number of the trader's position as its magic number; *)
(* closes and changes look it up by position number in a pool the terminal *)
(* may change at any time.  Traders have brokers of their own, and two     *)
(* positions of different traders may have the same number.                *)
(*                                                                         *)
(* The traders and the server appear as what they deliver: opens, possibly *)
(* twice (Trader), changes and closes of a position in order, to a         *)
(* connection that may be closed in an orderly way or reset.  An order and *)
(* a copy are told apart by the position they come from; the code sees the *)
(* number only.                                                            *)
(***************************************************************************)
EXTENDS Naturals, Sequences, SequencesExt

CONSTANTS
  Ticket,   \* the traders' positions
  Number,   \* ticket numbers
  None,     \* no ticket
  MaxPool,  \* bound: copies held at a time
  MaxBox,   \* bound: orders waiting in the connection
  MaxDrop   \* bound: connections lost

ASSUME FollowerAssumption ==
  None \notin Ticket /\ MaxPool \in Nat /\ MaxBox \in Nat /\ MaxDrop \in Nat

OPEN == 1
CLOSE == 0
MODIFY == 2
Order == [operate : {OPEN, CLOSE, MODIFY}, ticket : Ticket]

VARIABLES
  number,    \* the ticket number of a position
  life,      \* the trader's position: "none", "open", "twice": its open has
             \*   been sent twice, "closed"
  conn,      \* "off"; "up"; "closed": SSL_read returns 0 once what was sent
             \*   is read; "reset": it returns -1 from now on
  inbox,     \* orders in the connection
  drops,
  initialized, retry_login_count,
  sized,     \* init has read MinLot and MaxLot, which are 0 otherwise
  pc,        \* "off", "run", "close"
  pool,      \* the positions of this account, by what they are copies of
  magic, OrderTotal, i,  \* MakeOrder's ticket, and its locals
  excused    \* tickets whose close was lost, failed, or came while the pool
             \*   changed, or whose open came twice

marketVars == <<number, life, conn, inbox, drops>>
loginVars == <<initialized, retry_login_count, sized>>
orderVars == <<magic, OrderTotal, i>>
vars == <<marketVars, loginVars, pc, pool, orderVars, excused>>

TypeOK ==
  /\ number \in [Ticket -> Number]
  /\ life \in [Ticket -> {"none", "open", "twice", "closed"}]
  /\ conn \in {"off", "up", "closed", "reset"}
  /\ inbox \in Seq(Order) /\ Len(inbox) <= MaxBox /\ drops \in 0..MaxDrop
  /\ conn \in {"off", "reset"} => inbox = <<>>
  /\ initialized \in BOOLEAN /\ sized \in BOOLEAN /\ retry_login_count \in 0..3
  /\ pc \in {"off", "run", "close"}
  /\ pool \in Seq(Ticket) /\ Len(pool) <= MaxPool
  /\ magic \in Ticket \cup {None}
  /\ (pc = "close") = (magic # None)
  /\ OrderTotal \in 0..MaxPool /\ i \in 0..MaxPool
  /\ excused \in SUBSET Ticket

Init ==
  /\ number \in [Ticket -> Number]
  /\ life = [t \in Ticket |-> "none"] /\ conn = "off" /\ inbox = <<>> /\ drops = 0
  /\ initialized = FALSE /\ retry_login_count = 0 /\ sized = FALSE
  /\ pc = "off" /\ pool = <<>> /\ magic = None /\ OrderTotal = 0 /\ i = 0
  /\ excused = {}

-----------------------------------------------------------------------------
(* The trader and the server.  An order for a customer who is not there is *)
(* dropped, and so is one that the trader's EA fails to send.              *)

Deliver(op, t) ==
  \/ /\ conn = "up" /\ Len(inbox) < MaxBox /\ UNCHANGED excused
     /\ inbox' = Append(inbox, [operate |-> op, ticket |-> t])
  \/ /\ UNCHANGED inbox
     /\ excused' = IF op = CLOSE THEN excused \cup {t} ELSE excused

Trade(t) ==
  /\ \/ life[t] = "none" /\ Deliver(OPEN, t) /\ life' = [life EXCEPT ![t] = "open"]
     \/ /\ life[t] = "open" /\ conn = "up" /\ Len(inbox) < MaxBox
        /\ inbox' = Append(inbox, [operate |-> OPEN, ticket |-> t])
        /\ excused' = excused \cup {t}
        /\ life' = [life EXCEPT ![t] = "twice"]
     \/ life[t] \in {"open", "twice"} /\ Deliver(MODIFY, t) /\ UNCHANGED life
     \/ /\ life[t] \in {"open", "twice"} /\ Deliver(CLOSE, t)
        /\ life' = [life EXCEPT ![t] = "closed"]
  /\ UNCHANGED <<number, conn, drops, loginVars, pc, pool, orderVars>>

Waiting == {inbox[n].ticket : n \in {m \in 1..Len(inbox) : inbox[m].operate = CLOSE}}

Drop ==
  /\ conn = "up" /\ drops < MaxDrop /\ drops' = drops + 1
  /\ \/ conn' = "closed" /\ UNCHANGED <<inbox, excused>>
     \/ conn' = "reset" /\ inbox' = <<>> /\ excused' = excused \cup Waiting
  /\ UNCHANGED <<number, life, loginVars, pc, pool, orderVars>>

(* A stop, a target or the customer closes a position of this account.     *)
Stopped(n) ==
  /\ n \in 1..Len(pool) /\ pool' = RemoveAt(pool, n)
  /\ excused' = IF pc = "close" THEN excused \cup {magic} ELSE excused
  /\ UNCHANGED <<marketVars, loginVars, pc, orderVars>>

-----------------------------------------------------------------------------
(* init and login.  A login replaces the connection, whatever became of    *)
(* the old one.                                                            *)

Login ==
  \/ initialized' = TRUE /\ retry_login_count' = 0 /\ conn' = "up"
  \/ /\ retry_login_count' = retry_login_count + 1 /\ conn' = "off"
     /\ initialized' = FALSE

(* init returns before it reads the lot sizes when the login fails.        *)
Attach ==
  /\ pc = "off" /\ pc' = "run" /\ Login /\ sized' = initialized'
  /\ UNCHANGED <<number, life, inbox, drops, pool, orderVars, excused>>

LockedOut == pc = "run" /\ ~initialized /\ retry_login_count >= 3

Retry ==
  /\ pc = "run" /\ ~initialized /\ retry_login_count < 3 /\ Login
  /\ inbox' = <<>>
  /\ UNCHANGED <<number, life, drops, sized, pc, pool, orderVars, excused>>

-----------------------------------------------------------------------------
(* start.  ReceiveFromHost returns 1 for a timeout and for every error of  *)
(* SSL_read, -1 for the end of the stream.                                 *)

(* Mutant: the end of the stream is taken for a timeout as well.           *)
NeverEnds == FALSE
StreamEnds == conn = "closed" /\ inbox = <<>>

Ended ==
  /\ pc = "run" /\ initialized /\ StreamEnds /\ initialized' = FALSE
  /\ UNCHANGED <<marketVars, retry_login_count, sized, pc, pool, orderVars, excused>>

Receives(op) ==
  /\ pc = "run" /\ initialized /\ inbox # <<>> /\ Head(inbox).operate = op
  /\ inbox' = Tail(inbox)
  /\ UNCHANGED <<number, life, conn, drops, loginVars>>

(* OrderSend may fail; it does when lots has been cut to MaxLot = 0.       *)
MakeOpen ==
  /\ Receives(OPEN)
  /\ \/ UNCHANGED pool
     \/ sized /\ Len(pool) < MaxPool /\ pool' = Append(pool, Head(inbox).ticket)
  /\ UNCHANGED <<pc, orderVars, excused>>

MakeModify == Receives(MODIFY) /\ UNCHANGED <<pc, pool, orderVars, excused>>

(* Mutant: the loop stops one position short.                              *)
OneShort == IF pool = <<>> THEN 0 ELSE Len(pool) - 1
Total == Len(pool)

MakeClose ==
  /\ Receives(CLOSE) /\ pc' = "close" /\ magic' = Head(inbox).ticket
  /\ OrderTotal' = Total /\ i' = 0
  /\ UNCHANGED <<pool, excused>>

(* Mutant: the magic number is not compared.                               *)
AnyCopy(n) == TRUE
IsCopy(n) == number[pool[n]] = number[magic]

(* One turn of the loop.  OrderClose, and OrderDelete or a second try at   *)
(* the market price after it, may all fail.  After a success what follows  *)
(* moves down, and the next turn looks at the one after it.                *)
CloseTurn ==
  /\ pc = "close" /\ i < OrderTotal /\ i' = i + 1
  /\ IF i < Len(pool) /\ IsCopy(i + 1)
     THEN \/ pool' = RemoveAt(pool, i + 1) /\ UNCHANGED excused
          \/ excused' = excused \cup {magic} /\ UNCHANGED pool
     ELSE UNCHANGED <<pool, excused>>
  /\ UNCHANGED <<marketVars, loginVars, pc, magic, OrderTotal>>

(* Mutant: the loop does not end the order.                                *)
Stays == magic
Forgets == None

CloseDone ==
  /\ pc = "close" /\ i >= OrderTotal /\ pc' = "run" /\ magic' = Forgets
  /\ UNCHANGED <<marketVars, loginVars, pool, OrderTotal, i, excused>>

EA == \/ Attach \/ Retry \/ Ended \/ MakeOpen \/ MakeModify
      \/ MakeClose \/ CloseTurn \/ CloseDone

Next ==
  \/ \E t \in Ticket : Trade(t)
  \/ \E n \in 1..MaxPool : Stopped(n)
  \/ Drop \/ EA

Spec == Init /\ [][Next]_vars

(* The terminal calls start at every tick of the market.                   *)
FairSpec == Spec /\ WF_vars(EA)

-----------------------------------------------------------------------------
Holds(t) == \E n \in 1..Len(pool) : pool[n] = t

SharesNumber(t) == \E u \in Ticket \ {t} : number[u] = number[t]

(* A copy outlives the trader's position only when the close was lost on   *)
(* the way, the terminal refused it, the pool changed during the loop, or  *)
(* there is another copy with the same number for the loop to close or to  *)
(* step over: the trader's EA sent the open twice, or another trader has a *)
(* position with this number (Follower.mq4:580-611).                       *)
NoOrphan ==
  \A t \in Ticket :
    life[t] = "closed" /\ Holds(t) =>
      \/ t \in excused \/ SharesNumber(t)
      \/ t \in Waiting \/ (pc = "close" /\ magic = t)

(* A position has one copy at most, however its orders and the connections *)
(* interleave, unless the open came twice or its close went wrong          *)
(* (Follower.mq4:534-579).                                                 *)
OneCopy ==
  \A t \in Ticket \ excused :
    \A m, n \in 1..Len(pool) : pool[m] = t /\ pool[n] = t => m = n

(* Whatever happens to the pool during the loop, the EA closes a copy of a *)
(* position that is still open only if a position of another trader with   *)
(* the same number has been closed (Follower.mq4:587).                     *)
ClosesItsCopies ==
  [][i' = i + 1 /\ pool' # pool =>
       \E u \in Ticket : number[u] = number[pool[i + 1]] /\ life[u] = "closed"]_vars

(* The end of the stream is noticed: the EA logs in again, or gives up. A  *)
(* reset is not: ReceiveFromHost reports it as a timeout for ever          *)
(* (EAClient.cpp:860-863).                                                 *)
Recovers == conn = "closed" ~> conn \in {"up", "reset"} \/ LockedOut
=============================================================================
