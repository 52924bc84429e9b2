--------------------------- MODULE MT4Server_proofs ---------------------------
(***************************************************************************)
(* TLAPS proofs about MT4Server, for any number of children, members of    *)
(* the cluster, connections and failures and any limit.                    *)
(***************************************************************************)
EXTENDS MT4Server, TLAPS

(* One child has the port, and it is past start_listen.                    *)
OnePort ==
  /\ \A s, t \in listening : s = t
  /\ \A s \in listening : pc[s] \in {"cluster", "check", "accept"}

(* An EA is accepted late by the child that was in accept when the limit   *)
(* passed; nobody who listens is in accept afterwards, and CheckTime lets  *)
(* nobody in again.                                                        *)
LateOnce ==
  \/ late = 0
  \/ /\ late = 1 /\ now > Limit
     /\ \A s \in listening : pc[s] # "accept"

IInv == TypeOK /\ OnePort /\ LateOnce

LEMMA InitHolds == Init => IInv
BY ServerAssumption DEF Init, IInv, TypeOK, OnePort, LateOnce, PC

(* The round robin stays within the cluster.                               *)
LEMMA PositionInRange ==
  ASSUME TypeOK, NEW s \in Slot
  PROVE  NextPosition(s) \in 0..Cluster - 1
<1>1. /\ current_position[s] \in 0..Cluster - 1 /\ Cluster \in Nat \ {0}
  BY ServerAssumption DEF TypeOK
<1> QED
  BY <1>1 DEF NextPosition

LEMMA ParentKeeps == ASSUME IInv, Parent PROVE IInv'
<1> USE ServerAssumption DEF IInv, TypeOK, OnePort, LateOnce, PC
<1>1. CASE WaitReturns
  <2>1. zombies' \in Nat /\ signalled' \subseteq signalled
    BY <1>1 DEF WaitReturns, Reported
  <2>2. parent' \in {"gone", "sleep"} /\ child' = NoSlot
    BY <1>1 DEF WaitReturns, AfterWait
  <2>3. UNCHANGED <<now, failures, pc, stopped, foreign, listening, clusterVars, eaVars>>
    BY <1>1 DEF WaitReturns
  <2> QED
    BY <2>1, <2>2, <2>3 DEF clusterVars, eaVars
<1>2. ASSUME NEW s \in Slot, Fork(s) PROVE IInv'
  BY <1>2 DEF Fork, Alive, signalVars, clusterVars, eaVars
<1>3. CASE ForkFails
  BY <1>3 DEF ForkFails, Fails, signalVars, clusterVars, eaVars
<1> QED
  BY <1>1, <1>2, <1>3 DEF Parent

(* A death frees the port and empties the queue of the listener.           *)
LEMMA DeathKeeps ==
  ASSUME IInv, NEW s \in Slot, Dies(s), failures' \in 0..MaxFail,
         \/ late' = late
         \/ /\ late' = late + 1 /\ s \in listening /\ backlog > 0
            /\ now > Limit /\ pc[s] = "accept"
  PROVE  IInv'
<1> USE ServerAssumption DEF IInv, TypeOK, OnePort, LateOnce, PC, Dies, parentVars
<1>1. TypeOK'
  OBVIOUS
<1>2. OnePort'
  OBVIOUS
<1>3. LateOnce'
  OBVIOUS
<1> QED
  BY <1>1, <1>2, <1>3

LEMMA MainKeeps == ASSUME IInv, NEW s \in Slot, Main(s) PROVE IInv'
<1> USE ServerAssumption DEF IInv, TypeOK, OnePort, LateOnce, PC,
        Goes, Runs, Alive, Fails, Over, parentVars, signalVars, clusterVars, eaVars
<1>1. CASE StartControl(s)
  BY <1>1 DEF StartControl
<1>2. CASE ControlFails(s)
  BY <1>2, DeathKeeps DEF ControlFails
<1>3. CASE StartListen(s)
  BY <1>3 DEF StartListen
<1>4. CASE ListenFails(s)
  BY <1>4 DEF ListenFails
<1>5. CASE StartAuth(s)
  BY <1>5 DEF StartAuth
<1>6. CASE CheckTime(s)
  BY <1>6 DEF CheckTime
<1>7. CASE EndOfTime(s)
  BY <1>7, DeathKeeps DEF EndOfTime
<1>8. CASE Accept(s)
  <2>1. NextPosition(s) \in 0..Cluster - 1
    BY PositionInRange
  <2>2. \/ late' = late
        \/ late' = late + 1 /\ s \in listening /\ now > Limit /\ backlog > 0
    BY <1>8 DEF Accept, Accepts
  <2>3. TypeOK'
    BY <1>8, <2>1, <2>2 DEF Accept, Accepts
  <2>4. OnePort' /\ LateOnce'
    BY <1>8, <2>2 DEF Accept, Accepts
  <2> QED
    BY <2>3, <2>4
<1>9. CASE AcceptDies(s)
  BY <1>9, DeathKeeps DEF AcceptDies, Accepts
<1> QED
  BY <1>1, <1>2, <1>3, <1>4, <1>5, <1>6, <1>7, <1>8, <1>9 DEF Main

LEMMA OutsideKeeps == ASSUME IInv, Outside PROVE IInv'
<1> USE ServerAssumption DEF IInv, TypeOK, OnePort, LateOnce, PC,
        Runs, Alive, Fails, parentVars, signalVars, clusterVars, eaVars
<1>1. CASE Arrive
  BY <1>1 DEF Arrive
<1>2. CASE OtherProgram
  <2>1. foreign' \in BOOLEAN
    BY <1>2 DEF OtherProgram
  <2>2. failures' \in 0..MaxFail
    BY <1>2 DEF OtherProgram
  <2>3. UNCHANGED <<now, parentVars, pc, signalVars, listening, clusterVars, eaVars>>
    BY <1>2 DEF OtherProgram
  <2> QED
    BY <2>1, <2>2, <2>3
<1>3. CASE Tick
  BY <1>3 DEF Tick
<1>4. ASSUME NEW s \in Slot, Crash(s) PROVE IInv'
  BY <1>4, DeathKeeps DEF Crash
<1>5. ASSUME NEW s \in Slot, Stop(s) PROVE IInv'
  BY <1>5 DEF Stop
<1>6. ASSUME NEW s \in Slot, Continue(s) PROVE IInv'
  BY <1>6 DEF Continue
<1> QED
  BY <1>1, <1>2, <1>3, <1>4, <1>5, <1>6 DEF Outside

LEMMA StutterKeeps == ASSUME IInv, UNCHANGED vars PROVE IInv'
BY DEF IInv, TypeOK, OnePort, LateOnce, vars, parentVars, signalVars,
       clusterVars, eaVars

(* The invariant holds in every behaviour, fair or not.                    *)
LEMMA InvariantHolds == Spec => []IInv
<1>1. IInv /\ [Next]_vars => IInv'
  BY ParentKeeps, MainKeeps, OutsideKeeps, StutterKeeps DEF Next
<1> QED
  BY InitHolds, <1>1, PTL DEF Spec

(* The type invariant; with it, that no index of the round robin leaves    *)
(* the cluster that was asked for, and that no more EAs wait or have been  *)
(* accepted late than have come (MT4AuthCluster.cpp:42-46).                *)
THEOREM TypeCorrect == Spec => []TypeOK
<1>1. IInv => TypeOK
  BY DEF IInv
<1> QED
  BY InvariantHolds, <1>1, PTL

(* After the limit one EA is accepted at most, whatever dies, is started   *)
(* again, stopped or continued, however many children there are            *)
(* (main.cpp:151-156).                                                     *)
THEOREM LimitHolds == Spec => []OneLateAccept
<1>1. IInv => OneLateAccept
  BY DEF IInv, LateOnce, OneLateAccept
<1> QED
  BY InvariantHolds, <1>1, PTL
=============================================================================
