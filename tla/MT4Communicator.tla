--------------------------- MODULE MT4Communicator ---------------------------
(***************************************************************************)
(* The control port of the transfer server.  Each child makes a            *)
(* MT4Communicator and gives it a thread, which serves one connection at a *)
(* time: it reads a user name and a password, then commands, of which one  *)
(* ends the process.  MT4Server has that as one of the deaths of a child.  *)
(*                                                                         *)
(* TCP keeps no records apart: recv takes what has come, up to 48 bytes    *)
(* where 40 are a login, so a command that came close behind a login is    *)
(* read with it and the two are no login.  A connection whose first recv   *)
(* was not one login is neither served nor closed.                         *)
(***************************************************************************)
EXTENDS Naturals, Sequences

CONSTANTS
  Child, NoChild,  \* children of the server
  Peer, NoPeer,    \* connections to the control port
  Scripts,         \* Scripts[p]: what p may send, in order, before it closes:
                   \*   "login", "wrong" (another password), "half" a login
                   \*   (too short, and two of them too long), "stop"
                   \*   (command 1), "other" (any other command)
  Tool,            \* peers that send all they have to without a pause
  MaxStart         \* bound: children started

Item == {"login", "wrong", "half", "stop", "other"}

ASSUME CommunicatorAssumption ==
  /\ NoChild \notin Child /\ NoPeer \notin Peer /\ Tool \subseteq Peer
  /\ Scripts \in [Peer -> SUBSET Seq(Item)]
  /\ MaxStart \in Nat

VARIABLES
  running,   \* children that are alive
  starts,    \* children started
  control_port, \* the child whose MT4Communicator listens
  serving,   \* cli_sock of its thread: the peer, or NoPeer: in accept
  let_in,    \* the thread has found name and password right
  script,    \* what a peer sends
  line,      \* a peer's connection: "none"; "queued" in the backlog;
             \*   "served"; "ignored"; "closed" by the thread; "reset"
  sent, read \* items a peer has sent, and the thread has read; an item
             \*   beyond the script is the end of the stream

childVars == <<running, starts, control_port>>
threadVars == <<serving, let_in>>
peerVars == <<script, line, sent, read>>
controlVars == <<childVars, threadVars, peerVars>>

(* The peer's connection is open at this end.                              *)
Live == {"queued", "served", "ignored"}

ControlTypeOK ==
  /\ running \in SUBSET Child /\ starts \in 0..MaxStart
  /\ control_port \in running \cup {NoChild}
  /\ serving \in Peer \cup {NoPeer} /\ let_in \in BOOLEAN
  /\ script \in [Peer -> Seq(Item)] /\ \A p \in Peer : script[p] \in Scripts[p]
  /\ line \in [Peer -> {"none", "queued", "served", "ignored", "closed",
                        "reset"}]
  /\ sent \in [Peer -> Nat] /\ read \in [Peer -> Nat]
  /\ \A p \in Peer :
       /\ line[p] = "served" <=> serving = p
       /\ sent[p] <= Len(script[p]) + 1
       /\ read[p] <= sent[p] /\ read[p] <= Len(script[p])

ControlInit ==
  /\ running = {} /\ starts = 0 /\ control_port = NoChild
  /\ serving = NoPeer /\ let_in = FALSE
  /\ script \in {s \in [Peer -> UNION {Scripts[p] : p \in Peer}] :
                 \A p \in Peer : s[p] \in Scripts[p]}
  /\ line = [p \in Peer |-> "none"]
  /\ sent = [p \in Peer |-> 0] /\ read = [p \in Peer |-> 0]

-----------------------------------------------------------------------------
(* The children.                                                           *)

(* The constructor gives up at the first call that fails, bind among them  *)
(* when another child has the port; the thread then ends at once, and      *)
(* nobody tries again.  Children are started one beside another when a     *)
(* signal has stopped or continued one (MT4Server).                        *)
StartChild(c) ==
  /\ c \notin running /\ starts < MaxStart /\ starts' = starts + 1
  /\ running' = running \cup {c}
  /\ \/ control_port = NoChild /\ control_port' = c
     \/ UNCHANGED control_port
  /\ UNCHANGED <<threadVars, peerVars>>

Exit(c) ==
  /\ running' = running \ {c} /\ UNCHANGED <<starts, script, sent, read>>
  /\ IF c = control_port
     THEN /\ control_port' = NoChild /\ serving' = NoPeer /\ let_in' = FALSE
          /\ line' = [p \in Peer |->
               IF line[p] \in Live THEN "reset" ELSE line[p]]
     ELSE UNCHANGED <<control_port, threadVars, line>>

Ends(c) == c \in running /\ Exit(c)

-----------------------------------------------------------------------------
(* The peers.                                                              *)

Connects(p) ==
  /\ line[p] = "none" /\ control_port # NoChild
  /\ line' = [line EXCEPT ![p] = "queued"]
  /\ UNCHANGED <<childVars, threadVars, script, sent, read>>

Sends(p) ==
  /\ line[p] \in Live /\ sent[p] <= Len(script[p])
  /\ sent' = [sent EXCEPT ![p] = @ + 1]
  /\ UNCHANGED <<childVars, threadVars, script, line, read>>

-----------------------------------------------------------------------------
(* communicator_thread.                                                    *)

Serve(p) ==
  /\ control_port # NoChild /\ serving = NoPeer /\ line[p] = "queued"
  /\ serving' = p /\ line' = [line EXCEPT ![p] = "served"]
  /\ UNCHANGED <<childVars, let_in, script, sent, read>>

(* What recv may take; the end of the stream takes no room.                *)
Arrived(p) == IF sent[p] > Len(script[p]) THEN Len(script[p]) ELSE sent[p]
Waiting(p) == SubSeq(script[p], read[p] + 1, Arrived(p))

Leaves(p, how) ==
  /\ serving' = NoPeer /\ let_in' = FALSE /\ line' = [line EXCEPT ![p] = how]

(* Mutant: the branch of a wrong password has no close and reads on.       *)
WrongStays(p) == UNCHANGED <<threadVars, line>>
WrongLeaves(p) == Leaves(p, "closed")

(* The first recv takes all that waits: one login, or anything else, the   *)
(* end of the stream included.                                             *)
ReadLogin(p) ==
  /\ serving = p /\ ~let_in /\ read[p] < sent[p]
  /\ read' = [read EXCEPT ![p] = Arrived(p)]
  /\ \/ Waiting(p) = <<"login">> /\ let_in' = TRUE /\ UNCHANGED <<serving, line>>
     \/ Waiting(p) = <<"wrong">> /\ WrongLeaves(p)
     \/ Waiting(p) \notin {<<"login">>, <<"wrong">>} /\ Leaves(p, "ignored")
  /\ UNCHANGED <<childVars, script, sent>>

ReadCommand(p) ==
  /\ serving = p /\ let_in /\ read[p] < sent[p]
  /\ IF Waiting(p) = <<>>
     THEN Leaves(p, "closed") /\ UNCHANGED <<childVars, script, sent, read>>
     ELSE \/ Head(Waiting(p)) = "stop" /\ Exit(control_port)
          \/ /\ Head(Waiting(p)) # "stop" /\ read' = [read EXCEPT ![p] = @ + 1]
             /\ UNCHANGED <<childVars, threadVars, script, line, sent>>

ControlThread == \E p \in Peer : Serve(p) \/ ReadLogin(p) \/ ReadCommand(p)

ControlNext ==
  \/ \E c \in Child : StartChild(c) \/ Ends(c)
  \/ \E p \in Peer : Connects(p) \/ Sends(p)
  \/ ControlThread

ControlSpec == ControlInit /\ [][ControlNext]_controlVars

-----------------------------------------------------------------------------
(* Commands are read from one peer at a time, whose first recv was one     *)
(* login with the right password; none that it has sent since is passed    *)
(* over, and no stop is read without an end of the process.  A connection  *)
(* is open no longer than the child that has the port is alive             *)
(* (MT4Communicator.cpp:71-86).                                            *)
OnlyAfterLogin ==
  /\ let_in =>
       /\ serving # NoPeer
       /\ read[serving] >= 1 /\ script[serving][1] = "login"
       /\ \A n \in 2..read[serving] : script[serving][n] # "stop"
  /\ \A p \in Peer : line[p] \in Live => control_port # NoChild

(* Somebody else has the thread and says nothing.                          *)
Held(p) ==
  /\ serving \notin {p, NoPeer} /\ read[serving] = sent[serving]
  /\ let_in \/ read[serving] = 0

(* The stop a tool sends after its login (mt4_client.c:23-35) ends the     *)
(* child it reached, although peers before it sent a wrong password or     *)
(* half a login or went away: unless login and stop arrived together and   *)
(* the connection is left open and unread for good, or a silent peer has   *)
(* the thread for good, which serves one connection at a time              *)
(* (MT4Communicator.cpp:71-86).                                            *)
Obeyed ==
  \A p \in Tool :
    line[p] = "queued" /\ script[p] = <<"login", "stop">> ~>
      line[p] \in {"reset", "ignored"} \/ []Held(p)
=============================================================================
