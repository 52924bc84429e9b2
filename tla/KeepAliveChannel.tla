-------------------------- MODULE KeepAliveChannel --------------------------
(***************************************************************************)
(* One connection between SendKeepAlive of EAClient.dll and the auth       *)
(* server's keep_alive_thread.  The EA writes a number and reads until its *)
(* receive timeout (SetRecvTimeOut), then compares the numbers.  The       *)
(* server asks epoll for edges (EPOLLIN | EPOLLET) and reads one record    *)
(* for each event, so a record that arrives together with another stays    *)
(* where it is until a third arrives.  The number is the caller's choice:  *)
(* no EA of the repository calls SendKeepAlive.                            *)
(***************************************************************************)
EXTENDS Naturals, Sequences

CONSTANTS
  Magic,   \* numbers the EA uses
  MaxLag   \* bound: keep-alives not answered, or answers not read

ASSUME ChannelAssumption == MaxLag \in Nat \ {0} /\ Magic # {}

VARIABLES
  magic,    \* the number of the EA's last, or present, keep-alive
  repeated, \* it was on its way already when the EA used it
  calling,  \* the EA is in SSL_read
  result,   \* what the last call returned: 0, 1
  wire,     \* sent, on the way
  arrived,  \* with the server, not read
  edge,     \* epoll has an event
  answers   \* written by the server, not read by the EA

channelVars == <<magic, repeated, calling, result, wire, arrived, edge, answers>>

Behind == Len(wire) + Len(arrived) + Len(answers)

ChannelTypeOK ==
  /\ magic \in Magic /\ repeated \in BOOLEAN /\ calling \in BOOLEAN
  /\ edge \in BOOLEAN /\ result \in {0, 1}
  /\ wire \in Seq(Magic) /\ arrived \in Seq(Magic) /\ answers \in Seq(Magic)
  /\ Behind <= MaxLag
  /\ calling => Behind > 0

ChannelInit ==
  /\ magic \in Magic /\ repeated = FALSE /\ calling = FALSE /\ result = 1 /\ edge = FALSE
  /\ wire = <<>> /\ arrived = <<>> /\ answers = <<>>

(* SendKeepAlive up to SSL_read.                                           *)
Numbers(s) == {s[i] : i \in 1..Len(s)}
OnItsWay == Numbers(wire) \cup Numbers(arrived) \cup Numbers(answers)

Write(m) ==
  /\ ~calling /\ Behind < MaxLag /\ calling' = TRUE
  /\ magic' = m /\ repeated' = (m \in OnItsWay) /\ wire' = Append(wire, m)
  /\ UNCHANGED <<result, arrived, edge, answers>>

(* Mutant: any answer of the right length will do.                         *)
AnyAnswer(m) == 0
Compared(m) == IF m = magic THEN 0 ELSE 1

Read ==
  /\ calling /\ calling' = FALSE
  /\ \/ /\ answers # <<>> /\ answers' = Tail(answers)
        /\ result' = Compared(Head(answers))
     \/ result' = 1 /\ UNCHANGED answers
  /\ UNCHANGED <<magic, repeated, wire, arrived, edge>>

Arrive ==
  /\ wire # <<>> /\ wire' = Tail(wire)
  /\ arrived' = Append(arrived, Head(wire)) /\ edge' = TRUE
  /\ UNCHANGED <<magic, repeated, calling, result, answers>>

(* epoll_wait and handle_keep_alive.                                       *)
Serve ==
  /\ edge /\ edge' = FALSE
  /\ answers' = answers \o SubSeq(arrived, 1, 1)
  /\ arrived' = SubSeq(arrived, 2, Len(arrived))
  /\ UNCHANGED <<magic, repeated, calling, result, wire>>

ChannelNext == (\E m \in Magic : Write(m)) \/ Read \/ Arrive \/ Serve

ChannelSpec == ChannelInit /\ [][ChannelNext]_channelVars

-----------------------------------------------------------------------------
(* A keep-alive whose number is not on its way already is a success only   *)
(* when nothing sent before it is left anywhere: after one answer that     *)
(* came late, or one record that came together with another, every such    *)
(* keep-alive of the connection fails although the server answers each     *)
(* (EAClient.cpp:816-825, MT4KeepAlive.cpp:104).  A number that is used    *)
(* again while it is on its way may be answered by the old record.         *)
InStep == ~calling /\ result = 0 /\ ~repeated => Behind = 0
=============================================================================
