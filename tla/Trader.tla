------------------------------- MODULE Trader --------------------------------
(***************************************************************************)
(* The Trader EA.  The terminal changes the trader's positions whenever it *)
(* likes; the EA polls.  It has no events: it compares the lengths of the  *)
(* pool of open positions and of the history with what it remembers, takes *)
(* the positions at the end of each list for the new ones, and compares    *)
(* prices, stops and targets with a table filed by position number.        *)
(*                                                                         *)
(* The pool is live: it may change between any two calls that leave the    *)
(* program.  A step of the model therefore ends at every SendOrder; a loop *)
(* that only reads the pool is one step.                                   *)
(***************************************************************************)
EXTENDS Integers, Sequences, FiniteSets, SequencesExt

CONSTANTS
  Ticket, NoTicket,
  Level,      \* values of open price, stop loss and take profit together
  MaxChange,  \* bound: changes of levels
  MaxDrop     \* bound: times ConnectionStatusDetect finds the link broken

ASSUME TraderAssumption ==
  /\ IsFiniteSet(Ticket) /\ NoTicket \notin Ticket
  /\ Level # {} /\ Level \subseteq Nat /\ MaxChange \in Nat /\ MaxDrop \in Nat

Slots == 0..Cardinality(Ticket) - 1

VARIABLES
  pool, history,   \* MODE_TRADES and MODE_HISTORY, oldest first
  level, changes,
  pc,              \* "off": not attached; "loop"; the phases of a pass:
                   \*   "opens", "closes", "modify"
  initialized, retry_login_count, drops,
  prev_last_order, prev_close_order, total, close_total,
  open_item,       \* survives its loop, and is used after it (line 359)
  item,            \* close_item and item
  open_order,      \* open_order_ticket and the tables of levels
  open_order_count,
  opened, closed,  \* SendOrder calls made for a ticket, failed ones too
  lostClose,       \* tickets whose close SendOrder has failed to send
  shown,           \* the level at init, or in the last change told
  lostLevel,       \* the level SendOrder has failed to send since, or 0
  looked,          \* init's login succeeded, so init has looked at the lists
  first, base      \* then: pool and length of the history when it did

termVars == <<pool, history, level, changes>>
linkVars == <<initialized, retry_login_count, drops>>
prevVars == <<prev_last_order, prev_close_order>>
itemVars == <<total, close_total, open_item, item>>
tableVars == <<open_order, open_order_count>>
sentVars == <<opened, closed, lostClose, shown, lostLevel>>
startVars == <<looked, first, base>>
vars == <<termVars, pc, linkVars, prevVars, itemVars, tableVars, sentVars, startVars>>

Entry == [ticket : Ticket \cup {NoTicket}, level : Level \cup {0}]
Most == Cardinality(Ticket)

TypeOK ==
  /\ pool \in Seq(Ticket) /\ history \in Seq(Ticket)
  /\ Len(pool) + Len(history) <= Most
  /\ level \in [Ticket -> Level] /\ changes \in 0..MaxChange
  /\ pc \in {"off", "loop", "opens", "closes", "modify"}
  /\ initialized \in BOOLEAN /\ retry_login_count \in 0..3 /\ drops \in 0..MaxDrop
  /\ prev_last_order \in 0..Most /\ prev_close_order \in 0..Len(history)
  /\ total \in 0..Most /\ close_total \in 0..Most
  /\ open_item \in -1..Most /\ item \in -1..Most
  /\ open_order \in [Slots -> Entry] /\ open_order_count \in 0..Most
  /\ opened \in [Ticket -> Nat] /\ closed \in [Ticket -> Nat]
  /\ lostClose \in SUBSET Ticket
  /\ shown \in [Ticket -> Level] /\ lostLevel \in [Ticket -> Level \cup {0}]
  /\ looked \in BOOLEAN /\ first \in Seq(Ticket) /\ base \in 0..Most

Zero == [ticket |-> NoTicket, level |-> 0]
Level0 == CHOOSE v \in Level : TRUE

Init ==
  /\ pool = <<>> /\ history = <<>> /\ level = [t \in Ticket |-> Level0] /\ changes = 0
  /\ pc = "off" /\ initialized = FALSE /\ retry_login_count = 0 /\ drops = 0
  /\ prev_last_order = 0 /\ prev_close_order = 0
  /\ total = 0 /\ close_total = 0 /\ open_item = 0 /\ item = 0
  /\ open_order = [i \in Slots |-> Zero] /\ open_order_count = 0
  /\ opened = [t \in Ticket |-> 0] /\ closed = [t \in Ticket |-> 0]
  /\ lostClose = {} /\ shown = [t \in Ticket |-> Level0]
  /\ lostLevel = [t \in Ticket |-> 0]
  /\ looked = FALSE /\ first = <<>> /\ base = 0

-----------------------------------------------------------------------------
(* The terminal: the trader, or a stop loss.                               *)

In(t, s) == \E i \in 1..Len(s) : s[i] = t

Opens(t) ==
  /\ ~In(t, pool) /\ ~In(t, history) /\ pool' = Append(pool, t)
  /\ UNCHANGED <<history, level, changes>>

Closes(t) ==
  /\ \E i \in 1..Len(pool) : pool[i] = t /\ pool' = RemoveAt(pool, i)
  /\ history' = Append(history, t)
  /\ UNCHANGED <<level, changes>>

Changes(t, v) ==
  /\ In(t, pool) /\ v # level[t] /\ changes < MaxChange
  /\ level' = [level EXCEPT ![t] = v] /\ changes' = changes + 1
  /\ UNCHANGED <<pool, history>>

Terminal ==
  /\ \E t \in Ticket : Opens(t) \/ Closes(t) \/ \E v \in Level : Changes(t, v)
  /\ UNCHANGED <<pc, linkVars, prevVars, itemVars, tableVars, sentVars, startVars>>

-----------------------------------------------------------------------------
(* OrderSelect by position, and the tables.                                *)

Selects(i) == i < Len(pool)
At(i) == pool[i + 1]
EntryAt(i) == [ticket |-> At(i), level |-> level[At(i)]]

(* Lines 204-213 and 324-334: the entries beyond the pool keep what they   *)
(* had.                                                                    *)
Recorded == [i \in Slots |-> IF Selects(i) THEN EntryAt(i) ELSE open_order[i]]

(* Lines 357-366: every entry gets what is at open_item.                   *)
RecordedAtOpenItem ==
  [i \in Slots |-> IF Selects(i) /\ Selects(open_item) THEN EntryAt(open_item)
                   ELSE open_order[i]]

(* init.  When the login fails it returns before it has looked at the      *)
(* pool and the history.                                                   *)
Attach ==
  /\ pc = "off" /\ pc' = "loop" /\ shown' = level
  /\ \/ /\ initialized' = TRUE /\ retry_login_count' = 0
        /\ looked' = TRUE /\ first' = pool /\ base' = Len(history)
        /\ prev_last_order' = Len(pool) /\ prev_close_order' = Len(history)
        /\ open_order' = Recorded /\ open_order_count' = Len(pool)
     \/ /\ retry_login_count' = 1
        /\ UNCHANGED <<initialized, prevVars, tableVars, startVars>>
  /\ UNCHANGED <<termVars, drops, itemVars, opened, closed, lostClose, lostLevel>>

(* start, outside its loop.  The answer to the message box of line 402     *)
(* makes no difference: after three failures nobody logs in again.         *)
Login ==
  /\ pc = "loop" /\ ~initialized /\ retry_login_count < 3
  /\ \/ initialized' = TRUE /\ retry_login_count' = 0
     \/ retry_login_count' = retry_login_count + 1 /\ UNCHANGED initialized
  /\ UNCHANGED <<termVars, pc, drops, prevVars, itemVars, tableVars, sentVars,
                 startVars>>

(* The top of a pass.                                                      *)
Broken ==
  /\ pc = "loop" /\ initialized /\ drops < MaxDrop
  /\ initialized' = FALSE /\ drops' = drops + 1
  /\ UNCHANGED <<termVars, pc, retry_login_count, prevVars, itemVars,
                 tableVars, sentVars, startVars>>

ReadTotal ==
  /\ pc = "loop" /\ initialized /\ pc' = "opens"
  /\ total' = Len(pool)
  /\ open_item' = IF Len(pool) > prev_last_order THEN Len(pool) - 1 ELSE open_item
  /\ UNCHANGED <<termVars, linkVars, prevVars, close_total, item, tableVars,
                 sentVars, startVars>>

(* SendOrder returns 0, or an error: then the server has been told nothing,*)
(* and the pass goes on; the loop ends after it.                           *)
Sends(ok) ==
  /\ initialized' = (initialized /\ ok)
  /\ UNCHANGED <<retry_login_count, drops>>
SendsNothing == UNCHANGED linkVars

SendOpen ==
  /\ pc = "opens" /\ total > prev_last_order /\ open_item >= prev_last_order
  /\ open_item' = open_item - 1
  /\ IF Selects(open_item)
     THEN /\ \E ok \in BOOLEAN : Sends(ok)
          /\ opened' = [opened EXCEPT ![At(open_item)] = @ + 1]
     ELSE SendsNothing /\ UNCHANGED opened
  /\ UNCHANGED <<termVars, pc, prevVars, total, close_total, item, tableVars,
                 closed, lostClose, shown, lostLevel, startVars>>

Counted == total

OpensDone ==
  /\ pc = "opens" /\ pc' = "closes"
  /\ ~(total > prev_last_order /\ open_item >= prev_last_order)
  /\ IF total > prev_last_order
     THEN /\ prev_last_order' = Counted
          /\ open_order' = Recorded /\ open_order_count' = Len(pool)
          /\ open_item' = Len(pool)
     ELSE UNCHANGED <<prev_last_order, tableVars, open_item>>
  /\ close_total' = Len(history) /\ item' = Len(history) - 1
  /\ UNCHANGED <<termVars, linkVars, prev_close_order, total, sentVars, startVars>>

(* Mutant: one entry of the history too many.                              *)
FromLastSent == IF prev_close_order = 0 THEN 0 ELSE prev_close_order - 1
FromNew == prev_close_order

(* prev_close_order moves on whether or not the call has succeeded.        *)
SendClose ==
  LET t == history[item + 1] IN
  /\ pc = "closes" /\ close_total > prev_close_order /\ item >= FromNew
  /\ item' = item - 1
  /\ closed' = [closed EXCEPT ![t] = @ + 1]
  /\ \/ Sends(TRUE) /\ UNCHANGED lostClose
     \/ Sends(FALSE) /\ lostClose' = lostClose \cup {t}
  /\ UNCHANGED <<termVars, pc, prevVars, total, close_total, open_item,
                 tableVars, opened, shown, lostLevel, startVars>>

(* Mutants: the history is counted again after it has been sent; the       *)
(* counter is one ahead.                                                   *)
ClosesCountedAgain == Len(history)
OneAhead == close_total + 1
ClosesCounted == close_total

ClosesDone ==
  /\ pc = "closes" /\ pc' = "modify" /\ item' = 0
  /\ ~(close_total > prev_close_order /\ item >= FromNew)
  /\ IF close_total > prev_close_order
     THEN /\ prev_close_order' = ClosesCounted /\ prev_last_order' = Len(pool)
          /\ open_order' = RecordedAtOpenItem /\ open_order_count' = Len(pool)
     ELSE UNCHANGED <<prevVars, tableVars>>
  /\ UNCHANGED <<termVars, linkVars, total, close_total, open_item, sentVars,
                 startVars>>

(* Mutant: not_equal without MathAbs.                                      *)
Greater(i) == level[At(i)] > open_order[i].level
NotEqual(i) == level[At(i)] # open_order[i].level

(* So does the table.                                                      *)
SendChange ==
  /\ pc = "modify" /\ total = prev_last_order /\ item < open_order_count
  /\ item' = item + 1
  /\ IF Selects(item) /\ open_order[item].ticket = At(item) /\ NotEqual(item)
     THEN LET t == At(item) IN
          /\ open_order' = [open_order EXCEPT ![item].level = level[t]]
          /\ \/ /\ Sends(TRUE)
                /\ shown' = [shown EXCEPT ![t] = level[t]]
                /\ lostLevel' = [lostLevel EXCEPT ![t] = 0]
             \/ /\ Sends(FALSE)
                /\ lostLevel' = [lostLevel EXCEPT ![t] = level[t]]
                /\ UNCHANGED shown
     ELSE SendsNothing /\ UNCHANGED <<open_order, shown, lostLevel>>
  /\ UNCHANGED <<termVars, pc, prevVars, total, close_total, open_item,
                 open_order_count, opened, closed, lostClose, startVars>>

(* total, close_total and item are set anew before they are read again;    *)
(* the model clears them here.                                             *)
PassDone ==
  /\ pc = "modify" /\ ~(total = prev_last_order /\ item < open_order_count)
  /\ pc' = "loop" /\ total' = 0 /\ close_total' = 0 /\ item' = 0
  /\ UNCHANGED <<termVars, linkVars, prevVars, open_item, tableVars, sentVars,
                 startVars>>

EA ==
  \/ Attach \/ Login \/ Broken \/ ReadTotal
  \/ SendOpen \/ OpensDone \/ SendClose \/ ClosesDone \/ SendChange \/ PassDone

Next == Terminal \/ EA
Spec == Init /\ [][Next]_vars

(* The terminal calls start at every tick of the market.                   *)
FairSpec == Spec /\ WF_vars(EA)

-----------------------------------------------------------------------------
(* Three logins in a row have failed: the EA has given up.                 *)
LockedOut == pc = "loop" /\ ~initialized /\ retry_login_count >= 3

(* What init has counted and will not report.                              *)
OldOpens == IF looked THEN Len(first) ELSE 0
OldCloses == IF looked THEN base ELSE 0

Known(i) == OldOpens < i /\ i <= prev_last_order

OpensOnce ==
  pc = "loop" /\ Len(history) = OldCloses =>
    \A i \in 1..Len(pool) : opened[pool[i]] = IF Known(i) THEN 1 ELSE 0

ClosesOnce ==
  \A t \in Ticket :
    closed[t] # 0 =>
      closed[t] = 1 /\ \E i \in OldCloses + 1..Len(history) : history[i] = t

(* SendOrder is called for nothing twice and for nothing without cause,    *)
(* through any number of failed calls and lost connections and whatever    *)
(* the trader does while a batch is being sent: for the close of a         *)
(* position once at most, and not at all as long as it is open; for a      *)
(* position closed before init only if the login of init failed (lines     *)
(* 184-188: then the whole history is sent once, lines 337-353).  And as   *)
(* long as no position has been closed since init, or ever if its login    *)
(* failed, it is called once for the open of every position among the      *)
(* first prev_last_order that init has not counted and for no other open   *)
(* (lines 306-322).  A close in between breaks that: positions move down   *)
(* in the pool, and one may be sent twice or not at all.                   *)
SentOnce == OpensOnce /\ ClosesOnce

Told(t) == closed[t] > 0 /\ t \notin lostClose

(* The server is told in the end of every close since init (of every close *)
(* in the history if init's login failed), also of a position that was     *)
(* opened between two polls and never seen, unless the one call of         *)
(* SendOrder for it failed, which is not repeated after the next login     *)
(* (lines 345-353), or the EA has given up.                                *)
ClosesSent ==
  \A t \in Ticket :
    pc # "off" /\ (\E i \in OldCloses + 1..Len(history) : history[i] = t)
      ~> Told(t) \/ t \in lostClose \/ LockedOut

Untouched == looked /\ pool = first /\ Len(history) = base

(* As long as positions neither come nor go after an init that has looked, *)
(* the server is told of every change (lines 369-395), unless the call of  *)
(* SendOrder for just this level failed: the table has it all the same and *)
(* it is not sent again (lines 385-390).  An open or a close files the     *)
(* table anew and swallows the changes since the last pass.                *)
ChangesSent ==
  \A t \in Ticket :
    pc # "off" /\ Untouched /\ In(t, pool) /\ shown[t] # level[t]
      ~> \/ shown[t] = level[t] \/ lostLevel[t] = level[t]
         \/ ~Untouched \/ LockedOut
=============================================================================
