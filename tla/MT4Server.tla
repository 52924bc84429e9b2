------------------------------ MODULE MT4Server ------------------------------
(***************************************************************************)
(* The transfer server as processes: a parent that starts a child, waits   *)
(* for it and starts another five seconds later; and the child's main      *)
(* thread, which opens the listening socket, makes the cluster and hands   *)
(* accepted EAs to its members in turn.                                    *)
(*                                                                         *)
(* A child lives in a slot.  Two are enough for one stop: waitpid is asked *)
(* to return also when the child is stopped or continued, and then the     *)
(* parent starts a second child beside the first.  When fork fails,        *)
(* child_pid is -1 and waitpid waits for any child there is, a forgotten   *)
(* one too.  The listening socket is the kernel's to give: one process has *)
(* the port at a time.                                                     *)
(*                                                                         *)
(* The other threads of a child appear as its possible deaths: a SIGPIPE,  *)
(* a freed object (MT4Customers, MT4Operators, MT4AuthQueues), or the stop *)
(* command of the control port.                                            *)
(***************************************************************************)
EXTENDS Naturals

CONSTANTS
  Slot, NoSlot,  \* places for a child process
  Limit,         \* time_limit: the server is to end after it
  Cluster,       \* members of the cluster (2 in the code)
  MaxTime,       \* bound: the clock
  MaxConn,       \* bound: EAs that connect
  MaxFail        \* bound: calls that fail, signals, deaths from outside

ASSUME ServerAssumption ==
  /\ Slot # {} /\ NoSlot \notin Slot
  /\ Limit \in Nat /\ Cluster \in Nat \ {0}
  /\ MaxTime \in Nat /\ MaxConn \in Nat /\ MaxFail \in Nat

VARIABLES
  now, failures,
  parent,      \* "sleep", "wait": in waitpid, "gone"
  child,       \* child_pid while waitpid waits for it; NoSlot is -1
  zombies,     \* children that have ended and were not waited for
  pc,          \* main thread of a child: "dead", or what it does next
  stopped,     \* children a signal has stopped
  signalled,   \* stopped or continued, and not yet reported by waitpid
  foreign,     \* another program has the port
  listening,   \* children whose listener has the port
  members,     \* MT4Auth.size()
  current_position,
  backlog,     \* EAs waiting to be accepted
  came, late   \* EAs that have connected; accepted after the limit

parentVars == <<parent, child, zombies>>
signalVars == <<stopped, signalled>>
clusterVars == <<members, current_position>>
eaVars == <<backlog, came, late>>
vars == <<now, failures, parentVars, pc, signalVars, foreign, listening,
          clusterVars, eaVars>>

PC == {"dead", "control", "listen", "cluster", "check", "accept"}

TypeOK ==
  /\ now \in 0..MaxTime /\ failures \in 0..MaxFail
  /\ parent \in {"sleep", "wait", "gone"}
  /\ child \in Slot \cup {NoSlot} /\ zombies \in Nat
  /\ pc \in [Slot -> PC]
  /\ stopped \in SUBSET Slot /\ signalled \in SUBSET Slot /\ foreign \in BOOLEAN
  /\ listening \in SUBSET Slot
  /\ members \in [Slot -> 0..Cluster]
  /\ current_position \in [Slot -> 0..Cluster - 1]
  /\ backlog \in 0..MaxConn /\ came \in 0..MaxConn /\ late \in 0..MaxConn
  /\ late + backlog <= came

Init ==
  /\ now = 0 /\ failures = 0 /\ parent = "sleep" /\ child = NoSlot
  /\ zombies = 0
  /\ pc = [s \in Slot |-> "dead"] /\ stopped = {} /\ signalled = {}
  /\ foreign \in BOOLEAN /\ listening = {}
  /\ members = [s \in Slot |-> 0] /\ current_position = [s \in Slot |-> 0]
  /\ backlog = 0 /\ came = 0 /\ late = 0

Alive(s) == pc[s] # "dead"
Runs(s) == Alive(s) /\ s \notin stopped
Fails == failures < MaxFail /\ failures' = failures + 1

(* The process ends; the kernel closes what it had open.                   *)
Dies(s) ==
  /\ pc' = [pc EXCEPT ![s] = "dead"]
  /\ stopped' = stopped \ {s} /\ signalled' = signalled \ {s}
  /\ listening' = listening \ {s}
  /\ members' = [members EXCEPT ![s] = 0]
  /\ current_position' = [current_position EXCEPT ![s] = 0]
  /\ backlog' = IF s \in listening THEN 0 ELSE backlog
  /\ zombies' = IF s = child \/ parent = "gone" THEN zombies ELSE zombies + 1
  /\ UNCHANGED <<now, parent, child, foreign, came>>

-----------------------------------------------------------------------------
(* The parent.                                                             *)

Fork(s) ==
  /\ parent = "sleep" /\ ~Alive(s)
  /\ parent' = "wait" /\ child' = s /\ pc' = [pc EXCEPT ![s] = "control"]
  /\ UNCHANGED <<now, failures, zombies, signalVars, foreign, listening,
                 clusterVars, eaVars>>

ForkFails ==
  /\ parent = "sleep" /\ Fails /\ parent' = "wait"
  /\ UNCHANGED <<now, child, zombies, pc, signalVars, foreign, listening,
                 clusterVars, eaVars>>

(* Mutants: the goto is missing; the limit is not looked at.               *)
WaitsOn == "wait"
AlwaysSleeps == "sleep"
AfterWait == IF now > Limit THEN "gone" ELSE "sleep"

(* waitpid reports a death, or that a signal has stopped or continued a    *)
(* child; asked for any child when there is none, it fails.                *)
Reported ==
  \/ /\ IF child = NoSlot THEN \A s \in Slot : ~Alive(s) ELSE ~Alive(child)
     /\ child = NoSlot => zombies = 0
     /\ UNCHANGED <<signalled, zombies>>
  \/ /\ child = NoSlot /\ zombies > 0 /\ zombies' = zombies - 1
     /\ UNCHANGED signalled
  \/ \E s \in signalled :
       /\ child \in {s, NoSlot} /\ signalled' = signalled \ {s}
       /\ UNCHANGED zombies

WaitReturns ==
  /\ parent = "wait" /\ Reported /\ parent' = AfterWait /\ child' = NoSlot
  /\ UNCHANGED <<now, failures, pc, stopped, foreign, listening, clusterVars,
                 eaVars>>

Parent == WaitReturns \/ ForkFails \/ \E s \in Slot : Fork(s)

-----------------------------------------------------------------------------
(* The main thread of a child.                                             *)

Goes(s, from, to) == Runs(s) /\ pc[s] = from /\ pc' = [pc EXCEPT ![s] = to]

(* control_pannel_daemon; without a thread for it the process exits.       *)
StartControl(s) ==
  /\ Goes(s, "control", "listen")
  /\ UNCHANGED <<now, failures, parentVars, signalVars, foreign, listening,
                 clusterVars, eaVars>>

ControlFails(s) ==
  Runs(s) /\ pc[s] = "control" /\ Fails /\ Dies(s) /\ UNCHANGED late

StartListen(s) ==
  /\ Goes(s, "listen", "cluster") /\ ~foreign /\ listening = {}
  /\ listening' = {s}
  /\ UNCHANGED <<now, failures, parentVars, signalVars, foreign, clusterVars, eaVars>>

(* start_listen throws: start_auth is not called, but the catch leads into *)
(* the loop all the same.                                                  *)
ListenFails(s) ==
  /\ Goes(s, "listen", "check")
  /\ IF foreign \/ listening # {} THEN UNCHANGED failures ELSE Fails
  /\ UNCHANGED <<now, parentVars, signalVars, foreign, listening, clusterVars, eaVars>>

(* start_auth.  It throws when mysql_init fails for one of the members.    *)
StartAuth(s) ==
  /\ Goes(s, "cluster", "check")
  /\ \/ members' = [members EXCEPT ![s] = Cluster] /\ UNCHANGED failures
     \/ /\ Fails
        /\ \E n \in 0..Cluster - 1 : members' = [members EXCEPT ![s] = n]
  /\ UNCHANGED <<now, parentVars, signalVars, foreign, listening,
                 current_position, eaVars>>

(* Mutant: current_time is the time of the start.                          *)
NeverOver == FALSE
Over == now > Limit

CheckTime(s) ==
  /\ ~Over /\ Goes(s, "check", "accept")
  /\ UNCHANGED <<now, failures, parentVars, signalVars, foreign, listening,
                 clusterVars, eaVars>>

EndOfTime(s) ==
  /\ Over /\ Runs(s) /\ pc[s] = "check" /\ Dies(s)
  /\ UNCHANGED <<failures, late>>

(* accept_conn returns -1 at once when start_listen has failed.            *)
Accepts(s) ==
  /\ Runs(s) /\ pc[s] = "accept" /\ (s \in listening => backlog > 0)
  /\ late' = IF s \in listening /\ now > Limit THEN late + 1 ELSE late

(* Mutant: no modulo.                                                      *)
NextNoModulo(s) == current_position[s] + 1
NextPosition(s) == (current_position[s] + 1) % Cluster

(* Mutant: the index is checked, and what is beyond the end skipped.       *)
SurvivesAlways(s) == TRUE

(* MT4Auth[...] beyond the end reads address 8 when the vector is empty,   *)
(* and what malloc left behind its elements otherwise: the process dies,   *)
(* or the EA is handed to nobody.                                          *)
Survives(s) == members[s] > 0

(* MT4AuthCluster::add.                                                    *)
Accept(s) ==
  /\ Accepts(s) /\ pc' = [pc EXCEPT ![s] = "check"]
  /\ NextPosition(s) < members[s] \/ Survives(s)
  /\ current_position' = [current_position EXCEPT ![s] = NextPosition(s)]
  /\ backlog' = IF s \in listening THEN backlog - 1 ELSE backlog
  /\ UNCHANGED <<now, failures, parentVars, signalVars, foreign, listening,
                 members, came>>

AcceptDies(s) ==
  /\ Accepts(s) /\ NextPosition(s) >= members[s] /\ Dies(s)
  /\ UNCHANGED failures

Main(s) ==
  \/ StartControl(s) \/ ControlFails(s) \/ StartListen(s) \/ ListenFails(s)
  \/ StartAuth(s) \/ CheckTime(s) \/ EndOfTime(s) \/ Accept(s) \/ AcceptDies(s)

-----------------------------------------------------------------------------
(* Outside: EAs, signals and deaths, the other program, the clock.         *)

Arrive ==
  /\ listening # {} /\ came < MaxConn /\ came' = came + 1 /\ backlog' = backlog + 1
  /\ UNCHANGED <<now, failures, parentVars, pc, signalVars, foreign, listening,
                 clusterVars, late>>

(* Another thread ends the process, or start_listen finds no address for   *)
(* the host name (hp->h_addr of NULL).                                     *)
Crash(s) ==
  Runs(s) /\ pc[s] # "control" /\ Fails /\ Dies(s) /\ UNCHANGED late

Stop(s) ==
  /\ Runs(s) /\ Fails /\ stopped' = stopped \cup {s}
  /\ signalled' = signalled \cup {s}
  /\ UNCHANGED <<now, parentVars, pc, foreign, listening, clusterVars, eaVars>>

Continue(s) ==
  /\ s \in stopped /\ stopped' = stopped \ {s}
  /\ signalled' = signalled \cup {s}
  /\ UNCHANGED <<now, failures, parentVars, pc, foreign, listening, clusterVars,
                 eaVars>>

OtherProgram ==
  /\ \/ foreign /\ foreign' = FALSE /\ UNCHANGED failures
     \/ ~foreign /\ listening = {} /\ Fails /\ foreign' = TRUE
  /\ UNCHANGED <<now, parentVars, pc, signalVars, listening, clusterVars, eaVars>>

Tick ==
  /\ now < MaxTime /\ now' = now + 1
  /\ UNCHANGED <<failures, parentVars, pc, signalVars, foreign, listening,
                 clusterVars, eaVars>>

Outside ==
  \/ Arrive \/ OtherProgram \/ Tick
  \/ \E s \in Slot : Crash(s) \/ Stop(s) \/ Continue(s)

Next == Parent \/ Outside \/ \E s \in Slot : Main(s)
Spec == Init /\ [][Next]_vars

(* The parent and the children run.  Nothing obliges an EA to come, a      *)
(* stopped child to be continued or the other program to end.              *)
FairSpec == Spec /\ WF_vars(Parent) /\ \A s \in Slot : WF_vars(Main(s))

-----------------------------------------------------------------------------
(* After the limit one more EA is accepted at most, the one the accept of  *)
(* the listening child was waiting for, whatever dies, is restarted, is    *)
(* stopped or continued around that time (main.cpp:151-156, 166).          *)
OneLateAccept == late <= 1

(* A server that does not listen listens again: whoever had the port and   *)
(* whatever failed, because a child that could not listen dies at its      *)
(* first add (MT4AuthCluster.cpp:54) and is started anew.                  *)
Returns ==
  parent # "gone" /\ listening = {} ~>
    listening # {} \/ foreign \/ stopped # {} \/ now > Limit

(* When the limit has passed and an EA is waiting, the server goes away    *)
(* for good: the parent and every child, forgotten ones too.               *)
Expires ==
  now > Limit /\ backlog > 0 ~>
    (parent = "gone" /\ \A s \in Slot : ~Alive(s)) \/ stopped # {}
=============================================================================
