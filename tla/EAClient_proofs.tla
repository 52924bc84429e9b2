--------------------------- MODULE EAClient_proofs ---------------------------
(***************************************************************************)
(* Proofs about EAClient.dll: a keep-alive connection of any length, any   *)
(* number of EAs in a terminal, any number of terminals that share prices. *)
(***************************************************************************)
EXTENDS MCTerminal, SequenceTheorems, TLAPS

-----------------------------------------------------------------------------
(* The keep-alive connection.                                              *)

(* A record d places before the last is not the keep-alive the EA waits    *)
(* with, when that has a number of its own.                                *)
Older(v, d) == calling /\ ~repeated /\ v = magic => d = 0

(* What is on its way is in the order it was sent in.                      *)
Numbered ==
  /\ \A i \in 1..Len(answers) : Older(answers[i], Behind - i)
  /\ \A i \in 1..Len(arrived) : Older(arrived[i], Len(arrived) + Len(wire) - i)
  /\ \A i \in 1..Len(wire) : Older(wire[i], Len(wire) - i)

(* An event is there for a record that has not been read.                  *)
Edges == edge => Len(arrived) > 0

ChannelInv == ChannelTypeOK /\ Numbered /\ Edges /\ InStep

LEMMA ChannelStarts == ChannelInit => ChannelInv
<1> SUFFICES ASSUME ChannelInit PROVE ChannelInv
  OBVIOUS
<1>1. Behind = 0 /\ 0 <= MaxLag /\ <<>> \in Seq(Magic)
  BY ChannelAssumption DEF ChannelInit, Behind
<1>2. ChannelTypeOK
  BY <1>1 DEF ChannelInit, ChannelTypeOK
<1>3. Numbered /\ Edges /\ InStep
  BY <1>1 DEF ChannelInit, Numbered, Edges, InStep
<1> QED BY <1>2, <1>3 DEF ChannelInv

LEMMA WriteStep == ASSUME ChannelInv, NEW m \in Magic, Write(m) PROVE ChannelInv'
<1> USE DEF Write
<1>1. ChannelTypeOK /\ MaxLag \in Nat
  BY ChannelAssumption DEF ChannelInv
<1>2. /\ wire' \in Seq(Magic) /\ Len(wire') = Len(wire) + 1 /\ wire'[Len(wire) + 1] = m
      /\ \A i \in 1..Len(wire) : wire'[i] = wire[i]
  BY <1>1 DEF ChannelTypeOK
<1>3. Behind' = Behind + 1 /\ Behind \in Nat /\ Behind < MaxLag
  BY <1>1, <1>2 DEF ChannelTypeOK, Behind
<1>4. ChannelTypeOK'
  BY <1>1, <1>2, <1>3 DEF ChannelTypeOK
<1>5. ASSUME ~repeated'
      PROVE  /\ \A i \in 1..Len(answers) : answers[i] # magic'
             /\ \A i \in 1..Len(arrived) : arrived[i] # magic'
             /\ \A i \in 1..Len(wire) : wire[i] # magic'
  BY <1>5 DEF OnItsWay, Numbers
<1>6. ASSUME NEW i \in 1..Len(wire'), ~repeated', wire'[i] = magic'
      PROVE  Len(wire') - i = 0
  <2>1. i = Len(wire) + 1
    BY <1>1, <1>2, <1>5, <1>6 DEF ChannelTypeOK
  <2> QED BY <1>1, <1>2, <2>1 DEF ChannelTypeOK
<1>7. Numbered'
  <2>1. \A i \in 1..Len(answers') : Older(answers[i], Behind - i)'
    BY <1>5 DEF Older
  <2>2. \A i \in 1..Len(arrived') : Older(arrived[i], Len(arrived) + Len(wire) - i)'
    BY <1>5 DEF Older
  <2>3. \A i \in 1..Len(wire') : Older(wire[i], Len(wire) - i)'
    BY <1>6 DEF Older
  <2> QED BY <2>1, <2>2, <2>3 DEF Numbered
<1>8. Edges' /\ InStep'
  BY DEF ChannelInv, Edges, InStep
<1> QED BY <1>4, <1>7, <1>8 DEF ChannelInv

(* The answer to a number of its own is the last of what is on its way.    *)
LEMMA ReadStep == ChannelInv /\ Read => ChannelInv'
<1> SUFFICES ASSUME ChannelInv, Read PROVE ChannelInv'
  OBVIOUS
<1> USE DEF Read
<1>1. ChannelTypeOK /\ MaxLag \in Nat
  BY ChannelAssumption DEF ChannelInv
<1>2. Edges'
  BY DEF ChannelInv, Edges
<1>3. CASE result' = 1 /\ UNCHANGED answers
  <2>1. Behind' = Behind /\ calling' = FALSE
    BY <1>3 DEF Behind
  <2>2. ChannelTypeOK'
    BY <1>1, <1>3, <2>1 DEF ChannelTypeOK
  <2>3. Numbered'
    BY <1>3, <2>1 DEF Numbered, Older
  <2>4. InStep'
    BY <1>3 DEF InStep
  <2> QED BY <1>2, <2>2, <2>3, <2>4 DEF ChannelInv
<1>4. CASE answers # <<>> /\ answers' = Tail(answers) /\ result' = Compared(Head(answers))
  <2>1. /\ answers' \in Seq(Magic) /\ Len(answers) > 0 /\ Len(answers') = Len(answers) - 1
        /\ \A i \in 1..Len(answers') : answers'[i] = answers[i + 1]
    BY <1>1, <1>4 DEF ChannelTypeOK
  <2>2. Behind' = Behind - 1 /\ Behind \in 1..MaxLag /\ calling' = FALSE
    BY <1>1, <2>1 DEF ChannelTypeOK, Behind
  <2>3. ChannelTypeOK'
    <3>1. result' \in {0, 1}
      BY <1>4 DEF Compared
    <3>2. Behind' <= MaxLag /\ calling' = FALSE
      BY <1>1, <2>2
    <3> QED BY <1>1, <2>1, <3>1, <3>2 DEF ChannelTypeOK
  <2>4. Numbered'
    BY DEF Numbered, Older
  <2>5. ASSUME result' = 0, ~repeated PROVE Behind' = 0
    <3>1. Head(answers) = magic /\ Head(answers) = answers[1]
      BY <1>1, <1>4, <2>5 DEF Compared, ChannelTypeOK
    <3>2. Older(answers[1], Behind - 1)
      BY <1>1, <2>1 DEF ChannelInv, Numbered, ChannelTypeOK
    <3> QED BY <1>1, <2>2, <2>5, <3>1, <3>2 DEF Older
  <2> QED BY <1>2, <2>3, <2>4, <2>5 DEF ChannelInv, InStep
<1> QED BY <1>3, <1>4

LEMMA ArriveStep == ChannelInv /\ Arrive => ChannelInv'
<1> SUFFICES ASSUME ChannelInv, Arrive PROVE ChannelInv'
  OBVIOUS
<1> USE DEF Arrive
<1>1. ChannelTypeOK
  BY DEF ChannelInv
<1>2. /\ wire' \in Seq(Magic) /\ Len(wire) > 0 /\ Len(wire') = Len(wire) - 1
      /\ \A i \in 1..Len(wire') : wire'[i] = wire[i + 1]
      /\ Head(wire) = wire[1] /\ wire[1] \in Magic
  BY <1>1 DEF ChannelTypeOK
<1>3. /\ arrived' \in Seq(Magic) /\ Len(arrived') = Len(arrived) + 1
      /\ arrived'[Len(arrived) + 1] = wire[1]
      /\ \A i \in 1..Len(arrived) : arrived'[i] = arrived[i]
  BY <1>1, <1>2 DEF ChannelTypeOK
<1>4. Behind' = Behind /\ Len(arrived') + Len(wire') = Len(arrived) + Len(wire)
  BY <1>1, <1>2, <1>3 DEF ChannelTypeOK, Behind
<1>5. ChannelTypeOK'
  BY <1>1, <1>2, <1>3, <1>4 DEF ChannelTypeOK
<1>6. ASSUME NEW i \in 1..Len(arrived')
      PROVE  Older(arrived'[i], Len(arrived') + Len(wire') - i)
  <2>1. CASE i = Len(arrived) + 1
    <3>1. Older(wire[1], Len(wire) - 1)
      BY <1>1, <1>2 DEF ChannelInv, Numbered, ChannelTypeOK
    <3>2. Len(arrived') + Len(wire') - i = Len(wire) - 1
      BY <1>1, <1>4, <2>1 DEF ChannelTypeOK
    <3> QED BY <1>3, <2>1, <3>1, <3>2
  <2>2. CASE i \in 1..Len(arrived)
    BY <1>3, <1>4, <2>2 DEF ChannelInv, Numbered
  <2> QED BY <1>1, <1>3, <2>1, <2>2 DEF ChannelTypeOK
<1>7. ASSUME NEW i \in 1..Len(wire') PROVE Older(wire'[i], Len(wire') - i)
  <2>1. i + 1 \in 1..Len(wire) /\ Len(wire') - i = Len(wire) - (i + 1)
    BY <1>1, <1>2 DEF ChannelTypeOK
  <2> QED BY <1>2, <2>1 DEF ChannelInv, Numbered
<1>8. Numbered'
  BY <1>4, <1>6, <1>7 DEF ChannelInv, Numbered, Older
<1>9. Edges' /\ InStep'
  BY <1>1, <1>3, <1>4 DEF ChannelInv, Edges, InStep, ChannelTypeOK
<1> QED BY <1>5, <1>8, <1>9 DEF ChannelInv

LEMMA ServeStep == ChannelInv /\ Serve => ChannelInv'
<1> SUFFICES ASSUME ChannelInv, Serve PROVE ChannelInv'
  OBVIOUS
<1>0. /\ edge /\ edge' = FALSE /\ UNCHANGED <<magic, repeated, calling, result, wire>>
      /\ answers' = answers \o SubSeq(arrived, 1, 1)
      /\ arrived' = SubSeq(arrived, 2, Len(arrived))
  BY DEF Serve
<1>1. ChannelTypeOK
  BY DEF ChannelInv
<1>2. Len(arrived) \in Nat /\ Len(arrived) > 0
  BY <1>0, <1>1 DEF ChannelInv, Edges, ChannelTypeOK
<1>3. /\ arrived' \in Seq(Magic) /\ Len(arrived') = Len(arrived) - 1
      /\ \A i \in 1..Len(arrived') : arrived'[i] = arrived[i + 1]
  <2>1. arrived \in Seq(Magic) /\ arrived # <<>>
    BY <1>1, <1>2 DEF ChannelTypeOK
  <2>2. arrived' = Tail(arrived)
    BY <1>0, <2>1, TailIsSubSeq
  <2> QED BY <2>1, <2>2, HeadTailProperties
<1>4. SubSeq(arrived, 1, 1) = <<arrived[1]>> /\ arrived[1] \in Magic
  <2>1. arrived \in Seq(Magic) /\ 1 \in 1..Len(arrived)
    BY <1>1, <1>2 DEF ChannelTypeOK
  <2>2. SubSeq(arrived, 1, 1) = SubSeq(arrived, 1, 0) \o <<arrived[1]>>
    BY <2>1, SubSeqRecursiveSecond
  <2>3. SubSeq(arrived, 1, 0) = <<>>
    BY SubSeqEmpty
  <2>4. <<>> \o <<arrived[1]>> = <<arrived[1]>>
    OBVIOUS
  <2>5. arrived[1] \in Magic
    BY <2>1
  <2> QED BY <2>2, <2>3, <2>4, <2>5
<1>5. /\ answers' \in Seq(Magic) /\ Len(answers') = Len(answers) + 1
      /\ answers'[Len(answers) + 1] = arrived[1]
      /\ \A i \in 1..Len(answers) : answers'[i] = answers[i]
  BY <1>0, <1>1, <1>4 DEF ChannelTypeOK
<1>6. Behind' = Behind
  <2>1. Len(wire) \in Nat /\ Len(answers) \in Nat
    BY <1>1 DEF ChannelTypeOK
  <2>2. wire' = wire
    BY <1>0
  <2>3. Len(arrived') = Len(arrived) - 1 /\ Len(answers') = Len(answers) + 1
    BY <1>3, <1>5
  <2> QED BY <1>2, <2>1, <2>2, <2>3 DEF Behind
<1>7. ChannelTypeOK'
  BY <1>0, <1>1, <1>3, <1>5, <1>6 DEF ChannelTypeOK
<1>8. ASSUME NEW i \in 1..Len(answers') PROVE Older(answers'[i], Behind - i)
  <2>1. CASE i = Len(answers) + 1
    <3>1. Older(arrived[1], Len(arrived) + Len(wire) - 1)
      BY <1>1, <1>2 DEF ChannelInv, Numbered
    <3>2. Behind - i = Len(arrived) + Len(wire) - 1
      BY <1>1, <2>1 DEF ChannelTypeOK, Behind
    <3> QED BY <1>5, <2>1, <3>1, <3>2
  <2>2. CASE i \in 1..Len(answers)
    BY <1>5, <2>2 DEF ChannelInv, Numbered
  <2> QED BY <1>1, <1>5, <2>1, <2>2 DEF ChannelTypeOK
<1>9. ASSUME NEW i \in 1..Len(arrived')
      PROVE  Older(arrived'[i], Len(arrived') + Len(wire) - i)
  <2>1. /\ i + 1 \in 1..Len(arrived)
        /\ Len(arrived') + Len(wire) - i = Len(arrived) + Len(wire) - (i + 1)
    BY <1>1, <1>2, <1>3 DEF ChannelTypeOK
  <2> QED BY <1>3, <2>1 DEF ChannelInv, Numbered
<1>10. Numbered'
  BY <1>0, <1>6, <1>8, <1>9 DEF ChannelInv, Numbered, Older
<1>11. Edges' /\ InStep'
  BY <1>0, <1>6 DEF ChannelInv, Edges, InStep
<1> QED BY <1>7, <1>10, <1>11 DEF ChannelInv

LEMMA ChannelStep == ChannelInv /\ [ChannelNext]_channelVars => ChannelInv'
<1> SUFFICES ASSUME ChannelInv, [ChannelNext]_channelVars PROVE ChannelInv'
  OBVIOUS
<1>1. CASE UNCHANGED channelVars
  BY <1>1 DEF channelVars, ChannelInv, ChannelTypeOK, Numbered, Older, Edges, InStep, Behind
<1> QED BY <1>1, WriteStep, ReadStep, ArriveStep, ServeStep DEF ChannelNext

(* For any numbers and any records that are late or arrive together: a     *)
(* keep-alive whose number is not on its way already succeeds only when no *)
(* earlier one is left, for SendKeepAlive compares its number with that of *)
(* the first answer it reads (EAClient.cpp:816-825, MT4KeepAlive.cpp:104). *)
THEOREM InStepHolds == ChannelSpec => []InStep
<1>1. ChannelInv => InStep
  BY DEF ChannelInv
<1> QED BY <1>1, ChannelStarts, ChannelStep, PTL DEF ChannelSpec

-----------------------------------------------------------------------------
(* The sessions of one terminal.                                           *)

(* What carries data writes to a socket that is open.                      *)
Attached == \A o \in ready : fd[o] \in open

(* The server has been asked nothing on a socket that is not open.         *)
Unasked == \A n \in Sock \ open : asked[n] = None

(* An open socket is the local or the global of an EA; an EA that has      *)
(* closed its own does not count with it.                                  *)
Held ==
  \A n \in open \ replaced :
    \E e \in Ea : n = ClientSock[e] \/ (n = socket[e] /\ pc[e] # "deinit")

(* Whoever frees what ssl points to is about to clear ssl.                 *)
Valid == ssl \in live \cup {None} \/ \E e \in Ea : pc[e] \in {"shut", "fail"}

(* During a call nobody else takes part in, the EA uses what it has made.  *)
Quiet(e) == e \notin mixed /\ \A d \in Ea \ {e} : ~InCall(d)
Sound(e) ==
  /\ pc[e] \in {"setfd", "reply"} => ssl \in live
  /\ pc[e] \in {"connect", "recv"} => ssl \in live /\ using[e] = ssl
Serial == \A e \in Ea : Quiet(e) => Sound(e)

(* From the login on, as long as no other EA makes a call.                 *)
Mine(e) ==
  /\ pc[e] \in {"new", "setfd", "connect"} =>
       ClientSock[e] \in open /\ asked[ClientSock[e]] = None
  /\ pc[e] = "connect" => using[e] = ssl /\ fd[ssl] = ClientSock[e]
  /\ pc[e] \in {"auth", "reply", "run", "recv"} => ssl \in live /\ fd[ssl] = socket[e]
  /\ pc[e] = "auth" => asked[socket[e]] = None
  /\ pc[e] \in {"reply", "run", "recv"} => asked[socket[e]] = e
Own == \A e \in alone : Mine(e)

SessionInv ==
  /\ SessionTypeOK /\ Attached /\ Unasked /\ Held /\ Valid /\ Serial /\ Own

LEMMA SessionStarts == SessionInit => SessionInv
<1> SUFFICES ASSUME SessionInit PROVE SessionInv
  OBVIOUS
<1> USE DEF SessionInit, Nowhere
<1>1. SessionTypeOK
  BY DEF SessionTypeOK, Steps, Outside
<1>2. Attached /\ Unasked /\ Held /\ Valid /\ Own
  BY DEF Attached, Unasked, Held, Valid, Own
<1>3. Serial
  BY DEF Serial, Sound
<1> QED BY <1>1, <1>2, <1>3 DEF SessionInv

(* A step of e: what it says about the others.                             *)
LEMMA Moves ==
  ASSUME SessionTypeOK, NEW e \in Ea, NEW from, NEW to \in Steps, Goes(e, from, to)
  PROVE  /\ pc[e] = from /\ pc' \in [Ea -> Steps] /\ pc'[e] = to
         /\ \A d \in Ea \ {e} : pc'[d] = pc[d]
         /\ mixed' \in SUBSET Ea /\ alone' \in SUBSET {e}
         /\ e \in alone' => to \notin {"off", "idle", "close"} /\ (to = "login" \/ e \in alone)
         /\ \A d \in Ea \ {e} : d \notin mixed' => ~InCall(d)
         /\ e \notin mixed' => to \in Outside \/ e \notin mixed
<1>1. /\ pc[e] = from /\ pc' \in [Ea -> Steps] /\ pc'[e] = to
      /\ \A d \in Ea \ {e} : pc'[d] = pc[d]
  BY DEF Goes, SessionTypeOK
<1>2. /\ mixed' \in SUBSET Ea
      /\ \A d \in Ea \ {e} : d \notin mixed' => ~InCall(d)
      /\ e \notin mixed' => to \in Outside \/ e \notin mixed
  BY DEF Goes, SessionTypeOK
<1>3. /\ alone' \in SUBSET {e}
      /\ e \in alone' => to \notin {"off", "idle", "close"} /\ (to = "login" \/ e \in alone)
  BY DEF Goes, SessionTypeOK
<1> QED BY <1>1, <1>2, <1>3

(* Serial and Own are a matter of the EA that moves.                       *)
LEMMA ItsOwnMatter ==
  ASSUME SessionTypeOK, Serial, Own, NEW e \in Ea, NEW from, NEW to \in Steps, Goes(e, from, to),
         Quiet(e) /\ Sound(e) => Sound(e)',
         e \in alone /\ Mine(e) /\ to \notin {"off", "idle", "close"} => Mine(e)'
  PROVE  Serial' /\ Own'
<1>1. /\ pc' \in [Ea -> Steps] /\ pc'[e] = to
      /\ \A d \in Ea \ {e} : pc'[d] = pc[d]
      /\ alone' \in SUBSET {e}
      /\ e \in alone' => to \notin {"off", "idle", "close"} /\ (to = "login" \/ e \in alone)
      /\ \A d \in Ea \ {e} : d \notin mixed' => ~InCall(d)
      /\ e \notin mixed' => to \in Outside \/ e \notin mixed
  BY Moves
<1>2. Serial'
  <2> SUFFICES ASSUME NEW d \in Ea, Quiet(d)' PROVE Sound(d)'
    BY DEF Serial
  <2>1. CASE d # e
    BY <1>1, <2>1 DEF Quiet, Sound, InCall, Outside
  <2>2. CASE d = e /\ to \in Outside
    BY <1>1, <2>2 DEF Sound, Outside
  <2>3. CASE d = e /\ to \notin Outside
    <3>1. Quiet(e)
      BY <1>1, <2>3 DEF Quiet, InCall
    <3> QED BY <2>3, <3>1 DEF Serial
  <2> QED BY <2>1, <2>2, <2>3
<1>3. Own'
  <2>1. CASE to = "login"
    BY <1>1, <2>1 DEF Own, Mine
  <2>2. CASE to # "login"
    BY <1>1, <2>2 DEF Own
  <2> QED BY <2>1, <2>2
<1> QED BY <1>2, <1>3

(* closesocket and SSL_free.                                               *)
LEMMA Ending ==
  ASSUME SessionTypeOK, Attached, Unasked, NEW F, NEW O, Ends(F, O)
  PROVE  /\ live' \in SUBSET Obj /\ ready' \in SUBSET live' /\ open' \in SUBSET Sock
         /\ fd' \in [Obj -> Sock \cup {None}] /\ asked' \in [Sock -> Ea \cup {None}]
         /\ lost' \in SUBSET open' /\ due' \in SUBSET open' /\ replaced' \in SUBSET open'
         /\ open' = open \ F /\ live' = live \ O /\ replaced' = replaced \ F
         /\ Attached' /\ Unasked'
<1>1. /\ live' \in SUBSET Obj /\ ready' \in SUBSET live' /\ open' \in SUBSET Sock
      /\ fd' \in [Obj -> Sock \cup {None}] /\ asked' \in [Sock -> Ea \cup {None}]
      /\ lost' \in SUBSET open' /\ due' \in SUBSET open' /\ replaced' \in SUBSET open'
      /\ open' = open \ F /\ live' = live \ O /\ replaced' = replaced \ F
  BY DEF Ends, SessionTypeOK
<1>2. Attached'
  <2> SUFFICES ASSUME NEW o \in ready' PROVE fd'[o] \in open'
    BY DEF Attached
  <2>1. o \in ready /\ o \notin O /\ fd[o] \notin F /\ o \in Obj
    BY DEF Ends, SessionTypeOK
  <2>2. fd'[o] = fd[o]
    BY <2>1 DEF Ends
  <2> QED BY <1>1, <2>1, <2>2 DEF Attached
<1>3. Unasked'
  BY DEF Ends, Unasked, SessionTypeOK
<1> QED BY <1>1, <1>2, <1>3

(* What is open stays held when the EA that moves keeps its sockets, or    *)
(* closes what it lets go of.                                              *)
LEMMA StaysHeld ==
  ASSUME Held, open' \in SUBSET open, open' \cap replaced \in SUBSET replaced', NEW e \in Ea,
         \A d \in Ea \ {e} : ClientSock'[d] = ClientSock[d] /\ socket'[d] = socket[d] /\ pc'[d] = pc[d],
         ClientSock[e] \in open' \ replaced' => ClientSock[e] \in {ClientSock'[e]},
         /\ socket[e] \in open' \ replaced' /\ pc[e] # "deinit"
              => socket'[e] = socket[e] /\ pc'[e] # "deinit"
  PROVE  Held'
<1> SUFFICES ASSUME NEW n \in open' \ replaced'
             PROVE  \E d \in Ea : n = ClientSock'[d] \/ (n = socket'[d] /\ pc'[d] # "deinit")
  BY DEF Held
<1>1. PICK d \in Ea : n = ClientSock[d] \/ (n = socket[d] /\ pc[d] # "deinit")
  BY DEF Held
<1> QED BY <1>1

-----------------------------------------------------------------------------
SharedOK ==
  /\ ctx \in BOOLEAN
  /\ live \in SUBSET Obj /\ ready \in SUBSET live /\ ssl \in Obj \cup {None}
  /\ fd \in [Obj -> Sock \cup {None}] /\ open \in SUBSET Sock
  /\ lost \in SUBSET open /\ asked \in [Sock -> Ea \cup {None}]
  /\ due \in SUBSET open /\ replaced \in SUBSET open

Making == {"new", "setfd", "connect", "fail"}
LocalOK(e) ==
  /\ ClientSock[e] # None <=> pc[e] \in Making
  /\ using[e] # None <=> pc[e] \in {"connect", "recv"}
  /\ e \in leaving => pc[e] \in {"close", "shut", "deinit"}

LEMMA Typed ==
  ASSUME SessionTypeOK, NEW e \in Ea, NEW from, NEW to \in Steps, Goes(e, from, to),
         SharedOK', LocalOK(e)', leaving' \in SUBSET (leaving \cup {e}),
         ClientSock' \in [Ea -> Sock \cup {None}], socket' \in [Ea -> Sock \cup {None}],
         using' \in [Ea -> Obj \cup {None}],
         \A d \in Ea \ {e} : ClientSock'[d] = ClientSock[d] /\ using'[d] = using[d]
  PROVE  SessionTypeOK'
<1>1. /\ pc' \in [Ea -> Steps] /\ pc'[e] = to
      /\ \A d \in Ea \ {e} : pc'[d] = pc[d]
      /\ mixed' \in SUBSET Ea /\ alone' \in SUBSET {e}
  BY Moves
<1>2. ASSUME NEW d \in Ea
      PROVE /\ ClientSock'[d] # None <=> pc'[d] \in {"new", "setfd", "connect", "fail"}
            /\ using'[d] # None <=> pc'[d] \in {"connect", "recv"}
            /\ d \in leaving' => pc'[d] \in {"close", "shut", "deinit"}
  <2>1. CASE d = e
    <3>1. /\ ClientSock'[e] # None <=> pc'[e] \in {"new", "setfd", "connect", "fail"}
          /\ using'[e] # None <=> pc'[e] \in {"connect", "recv"}
          /\ e \in leaving' => pc'[e] \in {"close", "shut", "deinit"}
      BY DEF LocalOK, Making
    <3> QED BY <2>1, <3>1
  <2>2. CASE d # e
    BY <1>1, <2>2 DEF SessionTypeOK
  <2> QED BY <2>1, <2>2
<1> QED BY <1>1, <1>2 DEF SharedOK, SessionTypeOK

LEMMA StillValid ==
  ASSUME SessionTypeOK, Valid, NEW e \in Ea, NEW from \in Steps \ {"shut", "fail"},
         NEW to \in Steps, Goes(e, from, to), ssl' = ssl, live \in SUBSET live'
  PROVE  Valid'
<1>1. pc[e] = from /\ \A d \in Ea \ {e} : pc'[d] = pc[d]
  BY Moves
<1> QED BY <1>1 DEF Valid

(* Steps that change neither sockets nor SSL objects.                      *)
LEMMA PlainStep ==
  ASSUME SessionInv, NEW e \in Ea,
         NEW from \in Steps \ (Making \cup {"shut"}), NEW to \in Steps \ (Making \cup {"deinit"}),
         Goes(e, from, to), UNCHANGED <<sockVars, ssl, tlsVars, ClientSock>>, ctx' \in BOOLEAN,
         socket' \in [Ea -> Sock \cup {None}], using' \in [Ea -> Obj \cup {None}],
         \A d \in Ea \ {e} : socket'[d] = socket[d] /\ using'[d] = using[d],
         from # "deinit" => socket'[e] = socket[e],
         leaving' \in SUBSET (leaving \cup {e}),
         e \in leaving' => to \in {"close", "shut", "deinit"},
         using'[e] # None <=> to \in {"connect", "recv"},
         Quiet(e) /\ Sound(e) => Sound(e)',
         e \in alone /\ Mine(e) /\ to \notin {"off", "idle", "close"} => Mine(e)'
  PROVE  SessionInv'
<1> USE DEF sockVars, netVars, tlsVars
<1>1. SessionTypeOK /\ pc[e] = from /\ pc'[e] = to /\ \A d \in Ea \ {e} : pc'[d] = pc[d]
  BY Moves DEF SessionInv
<1>2. SharedOK'
  BY <1>1 DEF SharedOK, SessionTypeOK
<1>3. LocalOK(e)'
  BY <1>1 DEF LocalOK, SessionTypeOK, Making
<1>4. SessionTypeOK'
  <2>1. /\ ClientSock' \in [Ea -> Sock \cup {None}]
        /\ \A d \in Ea \ {e} : ClientSock'[d] = ClientSock[d] /\ using'[d] = using[d]
    BY <1>1 DEF SessionTypeOK
  <2> QED BY <1>1, <1>2, <1>3, <2>1, Typed
<1>5. Attached' /\ Unasked'
  BY DEF SessionInv, Attached, Unasked
<1>6. Held'
  BY <1>1, StaysHeld DEF SessionInv
<1>7. Valid'
  BY <1>1, StillValid DEF SessionInv, Making
<1>8. Serial' /\ Own'
  BY <1>1, ItsOwnMatter DEF SessionInv
<1> QED BY <1>4, <1>5, <1>6, <1>7, <1>8 DEF SessionInv

LEMMA EasyStep ==
  ASSUME SessionInv, NEW e \in Ea,
         NEW from \in {"off", "idle", "login", "run", "auth", "reply"},
         NEW to \in {"login", "close", "idle", "run"}, Goes(e, from, to),
         UNCHANGED <<sockVars, ssl, tlsVars, ClientSock, socket, using>>, ctx' \in BOOLEAN,
         leaving' \in SUBSET (leaving \cup {e}), e \in leaving' => e \in leaving \/ to = "close",
         to = "run" => from = "run"
  PROVE  SessionInv'
<1>1. /\ from \in Steps \ (Making \cup {"shut"}) /\ from # "deinit"
      /\ to \in Steps \ (Making \cup {"deinit"})
  BY DEF Steps, Outside, Making
<1>2. SessionTypeOK
  BY DEF SessionInv
<1>3. pc[e] = from /\ pc'[e] = to
  BY <1>1, <1>2, Moves
<1>4. e \in leaving' => to \in {"close", "shut", "deinit"}
  BY <1>2, <1>3 DEF SessionTypeOK
<1>5. /\ socket' \in [Ea -> Sock \cup {None}] /\ using' \in [Ea -> Obj \cup {None}]
      /\ \A d \in Ea \ {e} : socket'[d] = socket[d] /\ using'[d] = using[d]
      /\ from # "deinit" => socket'[e] = socket[e]
      /\ using'[e] # None <=> to \in {"connect", "recv"}
  BY <1>2, <1>3 DEF SessionTypeOK
<1>6. Sound(e)'
  BY <1>3 DEF Sound
<1>7. Mine(e) /\ to \notin {"off", "idle", "close"} => Mine(e)'
  BY <1>3 DEF Mine, sockVars, netVars, tlsVars
<1> QED BY <1>1, <1>4, <1>5, <1>6, <1>7, PlainStep

LEMMA CallSteps ==
  ASSUME SessionInv, NEW e \in Ea, Attach(e) \/ Retry(e) \/ Deinit(e) \/ SendOrder(e)
  PROVE  SessionInv'
<1> USE DEF NetStays, DllStays, eaVars
<1>1. ctx \in BOOLEAN
  BY DEF SessionInv, SessionTypeOK
<1>2. CASE Attach(e)
  BY <1>2, EasyStep DEF Attach
<1>3. CASE Retry(e)
  BY <1>1, <1>3, EasyStep DEF Retry
<1>4. CASE Deinit(e)
  BY <1>1, <1>4, EasyStep DEF Deinit
<1>5. CASE SendOrder(e)
  BY <1>1, <1>5, EasyStep DEF SendOrder
<1> QED BY <1>2, <1>3, <1>4, <1>5

LEMMA GivesUp ==
  ASSUME SessionInv, NEW e \in Ea, NetStays, DllStays, UNCHANGED eaVars,
         Goes(e, "login", Failed(e)) \/ Goes(e, "auth", "close") \/ Goes(e, "reply", "close")
  PROVE  SessionInv'
<1>1. ctx' \in BOOLEAN
  BY DEF SessionInv, SessionTypeOK, DllStays
<1>2. Failed(e) \in {"close", "idle"}
  BY DEF Failed
<1> QED BY <1>1, <1>2, EasyStep DEF NetStays, DllStays, eaVars


(* Receiving: the pointer read is the one ssl has.                         *)
LEMMA ReceiveSteps ==
  ASSUME SessionInv, NEW e \in Ea, ReceiveFromHost(e) \/ Received(e)
  PROVE  SessionInv'
<1> USE DEF NetStays, DllStays
<1>1. SessionTypeOK /\ ctx' \in BOOLEAN /\ None \notin Obj
  BY SessionAssumption DEF SessionInv, SessionTypeOK, ReceiveFromHost, Received
<1>2. PICK from \in {"run", "recv"}, to \in {"run", "recv", "idle"} :
        /\ Goes(e, from, to)
        /\ using'[e] # None <=> to = "recv"
        /\ to = "recv" => ssl \in live /\ using'[e] = ssl
        /\ UNCHANGED <<sockVars, ssl, tlsVars, ClientSock, socket, leaving>>
        /\ using' \in [Ea -> Obj \cup {None}]
        /\ \A d \in Ea \ {e} : using'[d] = using[d]
  <2>1. ASSUME ReceiveFromHost(e)
        PROVE  /\ Goes(e, "run", IF ssl = None THEN "idle" ELSE "recv")
               /\ using' = [using EXCEPT ![e] = ssl] /\ ssl \in live \cup {None}
    BY <2>1 DEF ReceiveFromHost
  <2>2. ASSUME Received(e)
        PROVE  /\ Goes(e, "recv", "run") \/ Goes(e, "recv", "idle")
               /\ using' = [using EXCEPT ![e] = None]
    BY <2>2 DEF Received
  <2>3. UNCHANGED <<sockVars, ssl, tlsVars, ClientSock, socket, leaving>>
    BY DEF ReceiveFromHost, Received
  <2>4. CASE ReceiveFromHost(e) /\ ssl = None
    BY <1>1, <2>1, <2>3, <2>4 DEF SessionTypeOK
  <2>5. CASE ReceiveFromHost(e) /\ ssl # None
    BY <1>1, <2>1, <2>3, <2>5 DEF SessionTypeOK
  <2>6. CASE Received(e)
    BY <1>1, <2>2, <2>3, <2>6 DEF SessionTypeOK
  <2> QED BY <2>4, <2>5, <2>6
<1>3. /\ from \in Steps \ (Making \cup {"shut"}) /\ from # "deinit"
      /\ to \in Steps \ (Making \cup {"deinit"})
  BY DEF Steps, Outside, Making
<1>4. pc[e] = from /\ pc'[e] = to
  <2>1. Goes(e, from, to) /\ to \in Steps
    BY <1>2, <1>3
  <2> QED BY <1>1, <2>1, Moves
<1>5. e \in leaving' => to \in {"close", "shut", "deinit"}
  BY <1>1, <1>2, <1>4 DEF SessionTypeOK
<1>6. /\ socket' \in [Ea -> Sock \cup {None}]
      /\ \A d \in Ea \ {e} : socket'[d] = socket[d]
      /\ socket'[e] = socket[e] /\ leaving' \in SUBSET (leaving \cup {e})
  <2>1. socket' = socket /\ leaving' = leaving
    BY <1>2
  <2> QED BY <1>1, <2>1 DEF SessionTypeOK
<1>9. /\ using' \in [Ea -> Obj \cup {None}]
      /\ \A d \in Ea \ {e} : socket'[d] = socket[d] /\ using'[d] = using[d]
      /\ using'[e] # None <=> to \in {"connect", "recv"}
  BY <1>2, <1>6
<1>10. Goes(e, from, to) /\ UNCHANGED <<sockVars, ssl, tlsVars, ClientSock>>
  BY <1>2
<1>7. Sound(e)'
  BY <1>2, <1>4 DEF Sound, tlsVars
<1>8. Mine(e) /\ to \notin {"off", "idle", "close"} => Mine(e)'
  BY <1>2, <1>4 DEF Mine, sockVars, netVars, tlsVars
<1> QED BY <1>1, <1>3, <1>5, <1>6, <1>7, <1>8, <1>9, <1>10, PlainStep

LEMMA DeInitStep ==
  ASSUME SessionInv, NEW e \in Ea, DeInitNetwork(e)
  PROVE  SessionInv'
<1> USE DEF DeInitNetwork, NetStays
<1>1. SessionTypeOK
  BY DEF SessionInv
<1>2. "deinit" \in Steps \ (Making \cup {"shut"}) /\ "off" \in Steps \ (Making \cup {"deinit"})
  BY DEF Steps, Outside, Making
<1>3. pc[e] = "deinit" /\ pc'[e] = "off"
  BY <1>1, <1>2, Moves
<1>4. /\ socket' \in [Ea -> Sock \cup {None}] /\ using' \in [Ea -> Obj \cup {None}]
      /\ \A d \in Ea \ {e} : socket'[d] = socket[d] /\ using'[d] = using[d]
      /\ leaving' \in SUBSET (leaving \cup {e}) /\ e \notin leaving' /\ using'[e] = None
  BY <1>1, <1>3 DEF SessionTypeOK
<1>5. Sound(e)'
  BY <1>3 DEF Sound
<1> QED BY <1>2, <1>4, <1>5, PlainStep

-----------------------------------------------------------------------------
(* Steps that open, close, allocate or free.  What they have in common.    *)
LEMMA Together ==
  ASSUME SessionInv, NEW e \in Ea, NEW from, NEW to \in Steps, Goes(e, from, to),
         SharedOK', LocalOK(e)', leaving' \in SUBSET (leaving \cup {e}),
         ClientSock' \in [Ea -> Sock \cup {None}], socket' \in [Ea -> Sock \cup {None}],
         using' \in [Ea -> Obj \cup {None}],
         \A d \in Ea \ {e} : ClientSock'[d] = ClientSock[d] /\ using'[d] = using[d],
         Attached', Unasked', Held', Valid',
         Quiet(e) /\ Sound(e) => Sound(e)',
         e \in alone /\ Mine(e) /\ to \notin {"off", "idle", "close"} => Mine(e)'
  PROVE  SessionInv'
<1>1. SessionTypeOK'
  BY Typed DEF SessionInv
<1>2. Serial' /\ Own'
  BY ItsOwnMatter DEF SessionInv
<1> QED BY <1>1, <1>2 DEF SessionInv

LEMMA ConnectStep ==
  ASSUME SessionInv, NEW e \in Ea, Connect(e)
  PROVE  SessionInv'
<1>1. CASE Goes(e, "login", Failed(e)) /\ NetStays /\ DllStays /\ UNCHANGED eaVars
  BY <1>1, GivesUp
<1>2. ASSUME NEW n \in Sock \ open,
             /\ Goes(e, "login", "new") /\ open' = open \cup {n}
             /\ ClientSock' = [ClientSock EXCEPT ![e] = n]
             /\ DllStays /\ UNCHANGED <<socket, using, leaving, lost, asked, due, replaced>>
      PROVE  SessionInv'
  <2> USE <1>2 DEF DllStays, tlsVars
  <2>1. SessionTypeOK /\ None \notin Sock /\ "new" \in Steps /\ "login" \in Steps \ {"shut", "fail"}
    BY SessionAssumption DEF SessionInv, Steps, Outside
  <2>2. pc[e] = "login" /\ pc'[e] = "new" /\ \A d \in Ea \ {e} : pc'[d] = pc[d]
    BY <2>1, Moves
  <2>3. /\ ClientSock' \in [Ea -> Sock \cup {None}] /\ ClientSock'[e] = n /\ ClientSock[e] = None
        /\ \A d \in Ea \ {e} : ClientSock'[d] = ClientSock[d]
        /\ e \notin leaving /\ using[e] = None
    BY <2>1, <2>2 DEF SessionTypeOK
  <2>4. SharedOK' /\ LocalOK(e)'
    BY <2>1, <2>2, <2>3 DEF SharedOK, LocalOK, Making, SessionTypeOK
  <2>5. Attached' /\ Unasked'
    BY DEF SessionInv, Attached, Unasked
  <2>6. Held'
    <3> SUFFICES ASSUME NEW m \in open' \ replaced'
                 PROVE  \E d \in Ea : m = ClientSock'[d] \/ (m = socket'[d] /\ pc'[d] # "deinit")
      BY DEF Held
    <3>1. CASE m = n
      BY <2>3, <3>1
    <3>2. CASE m # n
      <4>1. PICK d \in Ea : m = ClientSock[d] \/ (m = socket[d] /\ pc[d] # "deinit")
        BY <3>2 DEF SessionInv, Held
      <4>2. m # None
        BY <2>1 DEF SessionTypeOK
      <4> QED BY <2>2, <2>3, <4>1, <4>2
    <3> QED BY <3>1, <3>2
  <2>7. Valid'
    BY <2>1, StillValid DEF SessionInv
  <2>8. Sound(e)' /\ Mine(e)'
    BY <2>2, <2>3 DEF Sound, Mine, SessionInv, Unasked
  <2>9. /\ socket' \in [Ea -> Sock \cup {None}] /\ using' \in [Ea -> Obj \cup {None}]
        /\ \A d \in Ea \ {e} : using'[d] = using[d]
    BY <2>1 DEF SessionTypeOK
  <2> QED BY <2>1, <2>3, <2>4, <2>5, <2>6, <2>7, <2>8, <2>9, Together
<1> QED BY <1>1, <1>2 DEF Connect

LEMMA NewSslStep ==
  ASSUME SessionInv, NEW e \in Ea, NewSsl(e)
  PROVE  SessionInv'
<1>1. SessionTypeOK /\ None \notin Sock \cup Obj /\ UNCHANGED <<ctx, socket, using, leaving>>
  BY SessionAssumption DEF SessionInv, NewSsl
<1>2. /\ socket' \in [Ea -> Sock \cup {None}] /\ using' \in [Ea -> Obj \cup {None}]
      /\ \A d \in Ea \ {e} : using'[d] = using[d]
      /\ leaving' \in SUBSET (leaving \cup {e})
  BY <1>1 DEF SessionTypeOK
<1>3. ASSUME NEW o \in Obj \ live, Goes(e, "new", "setfd"), NetStays,
             ssl' = o, live' = live \cup {o}, UNCHANGED <<fd, ready, ClientSock>>
      PROVE  SessionInv'
  <2> USE <1>3 DEF NetStays, sockVars, netVars
  <2>1. "setfd" \in Steps
    BY DEF Steps
  <2>2. pc[e] = "new" /\ pc'[e] = "setfd" /\ \A d \in Ea \ {e} : pc'[d] = pc[d]
    BY <1>1, <2>1, Moves
  <2>3. SharedOK' /\ LocalOK(e)'
    BY <1>1, <2>2 DEF SharedOK, LocalOK, Making, SessionTypeOK
  <2>4. Attached' /\ Unasked'
    BY DEF SessionInv, Attached, Unasked
  <2>5. Held'
    BY <2>2, StaysHeld, <1>1 DEF SessionInv
  <2>6. Valid' /\ Sound(e)'
    BY <2>2 DEF Valid, Sound
  <2>7. Mine(e) => Mine(e)'
    BY <2>2 DEF Mine
  <2>8. /\ ClientSock' \in [Ea -> Sock \cup {None}]
        /\ \A d \in Ea \ {e} : ClientSock'[d] = ClientSock[d]
    BY <1>1 DEF SessionTypeOK
  <2> QED BY <1>2, <2>1, <2>3, <2>4, <2>5, <2>6, <2>7, <2>8, Together
<1>4. ASSUME Goes(e, "new", Failed(e)), ssl' = None, Ends({ClientSock[e]}, {}), NoLocal(e)
      PROVE  SessionInv'
  <2>1. Failed(e) \in {"idle", "close"} /\ {"idle", "close"} \subseteq Steps
    BY DEF Failed, Steps, Outside
  <2>2. pc[e] = "new" /\ pc'[e] = Failed(e) /\ \A d \in Ea \ {e} : pc'[d] = pc[d]
    BY <1>1, <1>4, <2>1, Moves
  <2>3. /\ live' \in SUBSET Obj /\ ready' \in SUBSET live' /\ open' \in SUBSET Sock
        /\ fd' \in [Obj -> Sock \cup {None}] /\ asked' \in [Sock -> Ea \cup {None}]
        /\ lost' \in SUBSET open' /\ due' \in SUBSET open' /\ replaced' \in SUBSET open'
        /\ open' = open \ {ClientSock[e]} /\ replaced' = replaced \ {ClientSock[e]}
        /\ Attached' /\ Unasked'
    BY <1>1, <1>4, Ending DEF SessionInv
  <2>4. /\ ClientSock' \in [Ea -> Sock \cup {None}] /\ ClientSock'[e] = None
        /\ \A d \in Ea \ {e} : ClientSock'[d] = ClientSock[d]
    BY <1>1, <1>4 DEF NoLocal, SessionTypeOK
  <2>5. SharedOK'
    BY <1>1, <1>4, <2>3 DEF SharedOK, SessionTypeOK
  <2>6. LocalOK(e)'
    BY <1>1, <2>1, <2>2, <2>4 DEF LocalOK, Making, SessionTypeOK
  <2>7. Held'
    BY <1>1, <2>1, <2>2, <2>3, <2>4, StaysHeld DEF SessionInv
  <2>8. Valid' /\ Sound(e)'
    BY <1>4, <2>1, <2>2 DEF Valid, Sound
  <2> QED BY <1>2, <1>4, <2>1, <2>3, <2>4, <2>5, <2>6, <2>7, <2>8, Together
<1> QED BY <1>3, <1>4 DEF NewSsl


LEMMA SetFdStep ==
  ASSUME SessionInv, NEW e \in Ea, SetFd(e)
  PROVE  SessionInv'
<1> USE DEF SetFd, NetStays, sockVars, netVars
<1>1. SessionTypeOK /\ None \notin Sock \cup Obj /\ "connect" \in Steps /\ ssl \in live
  BY SessionAssumption DEF SessionInv, Steps
<1>2. pc[e] = "setfd" /\ pc'[e] = "connect" /\ \A d \in Ea \ {e} : pc'[d] = pc[d]
  BY <1>1, Moves
<1>3. /\ using' \in [Ea -> Obj \cup {None}] /\ using'[e] = ssl /\ ssl # None
      /\ \A d \in Ea \ {e} : ClientSock'[d] = ClientSock[d] /\ using'[d] = using[d]
      /\ ClientSock' \in [Ea -> Sock \cup {None}] /\ socket' \in [Ea -> Sock \cup {None}]
      /\ leaving' \in SUBSET (leaving \cup {e})
      /\ fd' \in [Obj -> Sock \cup {None}] /\ fd'[ssl] = ClientSock[e]
      /\ \A o \in Obj \ {ssl} : fd'[o] = fd[o]
  BY <1>1 DEF SessionTypeOK
<1>4. SharedOK'
  BY <1>1, <1>3 DEF SharedOK, SessionTypeOK
<1>5. LocalOK(e)'
  BY <1>1, <1>2, <1>3 DEF LocalOK, Making, SessionTypeOK
<1>6. Attached' /\ Unasked'
  BY <1>1, <1>3 DEF SessionInv, Attached, Unasked, SessionTypeOK
<1>7. Held'
  BY <1>1, <1>2, StaysHeld DEF SessionInv
<1>8. Valid' /\ Sound(e)'
  BY <1>1, <1>2, <1>3 DEF Valid, Sound
<1>9. Mine(e) => Mine(e)'
  BY <1>2, <1>3 DEF Mine
<1> QED BY <1>1, <1>3, <1>4, <1>5, <1>6, <1>7, <1>8, <1>9, Together

LEMMA ConnectedStep ==
  ASSUME SessionInv, NEW e \in Ea, Connected(e)
  PROVE  SessionInv'
<1> DEFINE o == using[e]
<1> USE DEF Connected, Stores, NoLocal, netVars
<1>1. /\ SessionTypeOK /\ None \notin Sock \cup Obj
      /\ "connect" \in Steps \ {"shut", "fail"} /\ "auth" \in Steps
  BY SessionAssumption DEF SessionInv, Steps, Outside
<1>2. pc[e] = "connect" /\ pc'[e] = "auth" /\ \A d \in Ea \ {e} : pc'[d] = pc[d]
  BY <1>1, Moves
<1>3. /\ using' \in [Ea -> Obj \cup {None}] /\ using'[e] = None
      /\ ClientSock' \in [Ea -> Sock \cup {None}] /\ ClientSock'[e] = None
      /\ socket' \in [Ea -> Sock \cup {None}] /\ socket'[e] = ClientSock[e]
      /\ \A d \in Ea \ {e} :
           ClientSock'[d] = ClientSock[d] /\ socket'[d] = socket[d] /\ using'[d] = using[d]
      /\ leaving' \in SUBSET (leaving \cup {e})
  BY <1>1 DEF SessionTypeOK
<1>4. o \in live /\ fd[o] \in open /\ ready' = ready \cup {o} /\ UNCHANGED <<open, fd, live, ssl, asked>>
  OBVIOUS
<1>5. SharedOK'
  BY <1>1 DEF SharedOK, SessionTypeOK
<1>6. LocalOK(e)'
  BY <1>1, <1>2, <1>3 DEF LocalOK, Making, SessionTypeOK
<1>7. Attached' /\ Unasked'
  BY <1>4 DEF SessionInv, Attached, Unasked
<1>8. Held'
  <2> SUFFICES ASSUME NEW n \in open' \ replaced'
               PROVE  \E d \in Ea : n = ClientSock'[d] \/ (n = socket'[d] /\ pc'[d] # "deinit")
    BY DEF Held
  <2>1. n \in open \ replaced /\ (n = socket[e] => n = ClientSock[e])
    OBVIOUS
  <2>2. PICK d \in Ea : n = ClientSock[d] \/ (n = socket[d] /\ pc[d] # "deinit")
    BY <2>1 DEF SessionInv, Held
  <2> QED BY <1>2, <1>3, <2>1, <2>2
<1>9. Valid'
  BY <1>1, StillValid DEF SessionInv
<1>10. Sound(e)'
  BY <1>2 DEF Sound
<1>11. Mine(e) => Mine(e)'
  BY <1>2, <1>3, <1>4 DEF Mine
<1> QED BY <1>1, <1>3, <1>5, <1>6, <1>7, <1>8, <1>9, <1>10, <1>11, Together

(* SSL_set_fd or the handshake fails: the object is freed, then ssl is     *)
(* cleared and the socket closed.                                          *)
LEMMA RefusedStep ==
  ASSUME SessionInv, NEW e \in Ea, Refused(e)
  PROVE  SessionInv'
<1>1. /\ SessionTypeOK /\ None \notin Sock \cup Obj /\ "fail" \in Steps
      /\ Goes(e, "setfd", "fail") \/ Goes(e, "connect", "fail")
      /\ Ends({}, {ssl}) /\ using' = [using EXCEPT ![e] = None]
      /\ UNCHANGED <<ctx, ssl, ClientSock, socket, leaving>>
  BY SessionAssumption DEF SessionInv, Steps, Refused
<1>0. PICK from \in {"setfd", "connect"} : Goes(e, from, "fail")
  BY <1>1
<1>2. pc[e] = from /\ pc'[e] = "fail" /\ \A d \in Ea \ {e} : pc'[d] = pc[d]
  BY <1>0, <1>1, Moves
<1>3. /\ live' \in SUBSET Obj /\ ready' \in SUBSET live' /\ open' \in SUBSET Sock
      /\ fd' \in [Obj -> Sock \cup {None}] /\ asked' \in [Sock -> Ea \cup {None}]
      /\ lost' \in SUBSET open' /\ due' \in SUBSET open' /\ replaced' \in SUBSET open'
      /\ open' = open /\ replaced' = replaced /\ Attached' /\ Unasked'
  <2>1. open' = open \ {} /\ replaced' = replaced \ {}
    BY <1>1, Ending DEF SessionInv
  <2> QED BY <1>1, <2>1, Ending DEF SessionInv
<1>4. /\ using' \in [Ea -> Obj \cup {None}] /\ using'[e] = None
      /\ ClientSock' \in [Ea -> Sock \cup {None}] /\ socket' \in [Ea -> Sock \cup {None}]
      /\ \A d \in Ea \ {e} : ClientSock'[d] = ClientSock[d] /\ using'[d] = using[d]
      /\ leaving' \in SUBSET (leaving \cup {e})
  BY <1>1 DEF SessionTypeOK
<1>5. SharedOK'
  BY <1>1, <1>3 DEF SharedOK, SessionTypeOK
<1>6. LocalOK(e)'
  BY <1>1, <1>2, <1>4 DEF LocalOK, Making, SessionTypeOK
<1>7. Held'
  BY <1>1, <1>2, <1>3, StaysHeld DEF SessionInv
<1>8. Valid' /\ Sound(e)' /\ Mine(e)'
  BY <1>2 DEF Valid, Sound, Mine
<1> QED BY <1>0, <1>1, <1>3, <1>4, <1>5, <1>6, <1>7, <1>8, Together

LEMMA RefusedDoneStep ==
  ASSUME SessionInv, NEW e \in Ea, RefusedDone(e)
  PROVE  SessionInv'
<1>1. /\ SessionTypeOK /\ None \notin Sock \cup Obj
      /\ Goes(e, "fail", Failed(e)) /\ Ends({ClientSock[e]}, {}) /\ ssl' = None
      /\ UNCHANGED <<ctx, socket, using, leaving>>
  BY SessionAssumption DEF SessionInv, RefusedDone, Abandoned
<1>2. Failed(e) \in {"idle", "close"} /\ {"idle", "close"} \subseteq Steps
  BY DEF Failed, Steps, Outside
<1>3. pc[e] = "fail" /\ pc'[e] = Failed(e) /\ \A d \in Ea \ {e} : pc'[d] = pc[d]
  BY <1>1, <1>2, Moves
<1>4. /\ live' \in SUBSET Obj /\ ready' \in SUBSET live' /\ open' \in SUBSET Sock
      /\ fd' \in [Obj -> Sock \cup {None}] /\ asked' \in [Sock -> Ea \cup {None}]
      /\ lost' \in SUBSET open' /\ due' \in SUBSET open' /\ replaced' \in SUBSET open'
      /\ open' = open \ {ClientSock[e]} /\ replaced' = replaced \ {ClientSock[e]}
      /\ Attached' /\ Unasked'
  BY <1>1, Ending DEF SessionInv
<1>5. /\ ClientSock' \in [Ea -> Sock \cup {None}] /\ ClientSock'[e] = None
      /\ socket' \in [Ea -> Sock \cup {None}] /\ using' \in [Ea -> Obj \cup {None}]
      /\ \A d \in Ea \ {e} : ClientSock'[d] = ClientSock[d] /\ using'[d] = using[d]
      /\ leaving' \in SUBSET (leaving \cup {e})
  BY <1>1 DEF RefusedDone, NoLocal, SessionTypeOK
<1>6. SharedOK'
  BY <1>1, <1>4 DEF SharedOK, SessionTypeOK
<1>7. LocalOK(e)'
  BY <1>1, <1>2, <1>3, <1>5 DEF LocalOK, Making, SessionTypeOK
<1>8. Held'
  BY <1>1, <1>2, <1>3, <1>4, <1>5, StaysHeld DEF SessionInv
<1>9. Valid' /\ Sound(e)'
  BY <1>1, <1>2, <1>3 DEF Valid, Sound
<1> QED BY <1>1, <1>2, <1>4, <1>5, <1>6, <1>7, <1>8, <1>9, Together

-----------------------------------------------------------------------------
LEMMA SendAuthStep ==
  ASSUME SessionInv, NEW e \in Ea, SendAuth(e)
  PROVE  SessionInv'
<1> DEFINE n == fd[ssl]
<1>1. /\ SessionTypeOK /\ None \notin Sock \cup Obj \cup Ea /\ "reply" \in Steps
      /\ DllStays /\ UNCHANGED <<eaVars, open, lost, replaced>>
  BY SessionAssumption DEF SessionInv, Steps, SendAuth
<1>2. CASE Goes(e, "auth", "close") /\ UNCHANGED <<asked, due>>
  BY <1>1, <1>2, GivesUp DEF NetStays, sockVars, netVars
<1>3. CASE /\ ssl \in live /\ Carries(ssl) /\ Goes(e, "auth", "reply")
           /\ IF asked[n] = None
              THEN asked' = [asked EXCEPT ![n] = e] /\ due' = due \cup {n}
              ELSE UNCHANGED <<asked, due>>
  <2> USE DEF DllStays, tlsVars, eaVars
  <2>1. pc[e] = "auth" /\ pc'[e] = "reply" /\ \A d \in Ea \ {e} : pc'[d] = pc[d]
    BY <1>1, <1>3, Moves
  <2>2. n \in open /\ n \in Sock
    BY <1>1, <1>3 DEF Carries, SessionInv, Attached, SessionTypeOK
  <2>3. /\ asked' \in [Sock -> Ea \cup {None}] /\ due' \in SUBSET open
        /\ asked[n] = None => asked'[n] = e
        /\ \A m \in Sock \ {n} : asked'[m] = asked[m]
    <3>1. CASE asked[n] = None
      BY <1>1, <1>3, <2>2, <3>1 DEF SessionTypeOK
    <3>2. CASE asked[n] # None
      BY <1>1, <1>3, <2>2, <3>2 DEF SessionTypeOK
    <3> QED BY <3>1, <3>2
  <2>4. SharedOK'
    BY <1>1, <2>3 DEF SharedOK, SessionTypeOK
  <2>5. LocalOK(e)'
    BY <1>1, <2>1 DEF LocalOK, Making, SessionTypeOK
  <2>6. Attached' /\ Unasked'
    BY <1>1, <2>2, <2>3 DEF SessionInv, Attached, Unasked
  <2>7. Held'
    BY <1>1, <2>1, StaysHeld DEF SessionInv
  <2>8. Valid' /\ Sound(e)'
    BY <1>1, <1>3, <2>1 DEF Valid, Sound
  <2>9. Mine(e) => Mine(e)'
    BY <1>1, <1>3, <2>1, <2>3 DEF Mine
  <2>10. /\ ClientSock' \in [Ea -> Sock \cup {None}] /\ socket' \in [Ea -> Sock \cup {None}]
         /\ using' \in [Ea -> Obj \cup {None}] /\ leaving' \in SUBSET (leaving \cup {e})
         /\ \A d \in Ea \ {e} : ClientSock'[d] = ClientSock[d] /\ using'[d] = using[d]
    BY <1>1 DEF SessionTypeOK
  <2> QED BY <1>1, <1>3, <2>4, <2>5, <2>6, <2>7, <2>8, <2>9, <2>10, Together
<1> QED BY <1>2, <1>3 DEF SendAuth

LEMMA ReadReplyStep ==
  ASSUME SessionInv, NEW e \in Ea, ReadReply(e)
  PROVE  SessionInv'
<1>1. /\ SessionTypeOK /\ ssl \in live /\ DllStays /\ UNCHANGED <<eaVars, open, lost, asked, replaced>>
  BY DEF SessionInv, ReadReply
<1>2. CASE Goes(e, "reply", "close") /\ UNCHANGED due
  BY <1>1, <1>2, GivesUp DEF NetStays, sockVars, netVars
<1>3. ASSUME NEW to \in {"run", "close"}, Goes(e, "reply", to), due' = due \ {fd[ssl]}
      PROVE  SessionInv'
  <2> USE DEF DllStays, tlsVars, eaVars
  <2>1. to \in Steps
    BY DEF Steps, Outside
  <2>2. pc[e] = "reply" /\ pc'[e] = to /\ \A d \in Ea \ {e} : pc'[d] = pc[d]
    BY <1>1, <1>3, <2>1, Moves
  <2>3. SharedOK'
    BY <1>1, <1>3 DEF SharedOK, SessionTypeOK
  <2>4. LocalOK(e)'
    BY <1>1, <2>2 DEF LocalOK, Making, SessionTypeOK
  <2>5. Attached' /\ Unasked'
    BY <1>1 DEF SessionInv, Attached, Unasked
  <2>6. Held'
    BY <1>1, <2>2, StaysHeld DEF SessionInv
  <2>7. Valid' /\ Sound(e)'
    BY <1>1, <2>2 DEF Valid, Sound
  <2>8. Mine(e) /\ to # "close" => Mine(e)'
    BY <1>1, <2>2 DEF Mine
  <2>9. /\ ClientSock' \in [Ea -> Sock \cup {None}] /\ socket' \in [Ea -> Sock \cup {None}]
        /\ using' \in [Ea -> Obj \cup {None}] /\ leaving' \in SUBSET (leaving \cup {e})
        /\ \A d \in Ea \ {e} : ClientSock'[d] = ClientSock[d] /\ using'[d] = using[d]
    BY <1>1 DEF SessionTypeOK
  <2> QED BY <1>3, <2>1, <2>3, <2>4, <2>5, <2>6, <2>7, <2>8, <2>9, Together
<1> QED BY <1>2, <1>3 DEF ReadReply


(* The last step of CloseConnection: the EA closes its own socket.         *)
LEMMA ClosesOwn ==
  ASSUME SessionInv, NEW e \in Ea, NEW from, Goes(e, from, Closed(e)),
         ssl' = None, Ends({socket[e]}, {}), from \in {"close", "shut"},
         UNCHANGED <<ctx, eaVars>>
  PROVE  SessionInv'
<1> USE DEF eaVars
<1>1. SessionTypeOK /\ None \notin Sock \cup Obj
  BY SessionAssumption DEF SessionInv
<1>2. /\ Closed(e) \in {"idle", "deinit"} /\ {"idle", "deinit"} \subseteq Steps
      /\ e \in leaving => Closed(e) = "deinit"
  BY DEF Closed, Steps, Outside
<1>3. pc[e] = from /\ pc'[e] = Closed(e) /\ \A d \in Ea \ {e} : pc'[d] = pc[d]
  BY <1>1, <1>2, Moves
<1>4. /\ live' \in SUBSET Obj /\ ready' \in SUBSET live' /\ open' \in SUBSET Sock
      /\ fd' \in [Obj -> Sock \cup {None}] /\ asked' \in [Sock -> Ea \cup {None}]
      /\ lost' \in SUBSET open' /\ due' \in SUBSET open' /\ replaced' \in SUBSET open'
      /\ open' = open \ {socket[e]} /\ replaced' = replaced \ {socket[e]}
      /\ Attached' /\ Unasked'
  BY <1>1, Ending DEF SessionInv
<1>5. /\ ClientSock' \in [Ea -> Sock \cup {None}] /\ socket' \in [Ea -> Sock \cup {None}]
      /\ using' \in [Ea -> Obj \cup {None}] /\ leaving' \in SUBSET (leaving \cup {e})
      /\ \A d \in Ea \ {e} : ClientSock'[d] = ClientSock[d] /\ using'[d] = using[d]
  BY <1>1 DEF SessionTypeOK
<1>6. SharedOK'
  BY <1>1, <1>4 DEF SharedOK, SessionTypeOK
<1>7. LocalOK(e)'
  BY <1>1, <1>2, <1>3 DEF LocalOK, Making, SessionTypeOK
<1>8. Held'
  BY <1>1, <1>2, <1>3, <1>4, StaysHeld DEF SessionInv
<1>9. Valid' /\ Sound(e)' /\ Mine(e)'
  BY <1>2, <1>3 DEF Valid, Sound, Mine
<1> QED BY <1>2, <1>4, <1>5, <1>6, <1>7, <1>8, <1>9, Together

LEMMA CloseSteps ==
  ASSUME SessionInv, NEW e \in Ea, CloseConnection(e) \/ CloseDone(e)
  PROVE  SessionInv'
<1>1. CASE CloseDone(e)
  BY <1>1, ClosesOwn DEF CloseDone, Cleared
<1>2. CASE /\ UNCHANGED <<ctx, ssl, eaVars>> /\ ssl = None
           /\ Goes(e, "close", Closed(e)) /\ Ends({socket[e]}, {})
  BY <1>2, ClosesOwn
<1>3. CASE /\ UNCHANGED <<ctx, ssl, eaVars>> /\ ssl \in live
           /\ Goes(e, "close", "shut") /\ Ends({}, {ssl})
  <2>1. /\ SessionTypeOK /\ "shut" \in Steps
        /\ UNCHANGED <<ctx, ssl, ClientSock, socket, using, leaving>>
    BY <1>3 DEF SessionInv, Steps, eaVars
  <2>2. pc[e] = "close" /\ pc'[e] = "shut" /\ \A d \in Ea \ {e} : pc'[d] = pc[d]
    BY <1>3, <2>1, Moves
  <2>3. /\ live' \in SUBSET Obj /\ ready' \in SUBSET live' /\ open' \in SUBSET Sock
        /\ fd' \in [Obj -> Sock \cup {None}] /\ asked' \in [Sock -> Ea \cup {None}]
        /\ lost' \in SUBSET open' /\ due' \in SUBSET open' /\ replaced' \in SUBSET open'
        /\ open' = open /\ replaced' = replaced /\ Attached' /\ Unasked'
    <3>1. open' = open \ {} /\ replaced' = replaced \ {}
      BY <1>3, <2>1, Ending DEF SessionInv
    <3> QED BY <1>3, <2>1, <3>1, Ending DEF SessionInv
  <2>4. /\ ClientSock' \in [Ea -> Sock \cup {None}] /\ socket' \in [Ea -> Sock \cup {None}]
        /\ using' \in [Ea -> Obj \cup {None}] /\ leaving' \in SUBSET (leaving \cup {e})
        /\ \A d \in Ea \ {e} : ClientSock'[d] = ClientSock[d] /\ using'[d] = using[d]
    BY <2>1 DEF SessionTypeOK
  <2>5. SharedOK'
    BY <2>1, <2>3 DEF SharedOK, SessionTypeOK
  <2>6. LocalOK(e)'
    BY <2>1, <2>2 DEF LocalOK, Making, SessionTypeOK
  <2>7. Held'
    BY <2>1, <2>2, <2>3, StaysHeld DEF SessionInv
  <2>8. Valid' /\ Sound(e)' /\ Mine(e)'
    BY <2>2 DEF Valid, Sound, Mine
  <2> QED BY <1>3, <2>1, <2>3, <2>4, <2>5, <2>6, <2>7, <2>8, Together
<1> QED BY <1>1, <1>2, <1>3 DEF CloseConnection

LEMMA CrashStep ==
  ASSUME SessionInv, NEW e \in Ea, Crash(e)
  PROVE  SessionInv'
<1>1. /\ ctx' = FALSE /\ ssl' = None /\ pc' = [d \in Ea |-> "off"] /\ leaving' = {}
      /\ ClientSock' = [d \in Ea |-> None] /\ socket' = [d \in Ea |-> None]
      /\ using' = [d \in Ea |-> None] /\ alone' = {} /\ mixed' = {} /\ Ends(Sock, Obj)
  BY DEF Crash, Nowhere
<1>2. SessionTypeOK
  BY DEF SessionInv
<1>3. /\ live' \in SUBSET Obj /\ ready' \in SUBSET live' /\ open' \in SUBSET Sock
      /\ fd' \in [Obj -> Sock \cup {None}] /\ asked' \in [Sock -> Ea \cup {None}]
      /\ lost' \in SUBSET open' /\ due' \in SUBSET open' /\ replaced' \in SUBSET open'
      /\ open' = open \ Sock /\ Attached' /\ Unasked'
  BY <1>1, <1>2, Ending DEF SessionInv
<1>4. SessionTypeOK'
  BY <1>1, <1>3 DEF SessionTypeOK, Steps, Outside
<1>5. Held' /\ Valid' /\ Own'
  BY <1>1, <1>3 DEF Held, Valid, Own
<1>6. Serial'
  BY <1>1 DEF Serial, Sound
<1> QED BY <1>3, <1>4, <1>5, <1>6 DEF SessionInv

LEMMA LoseStep == SessionInv /\ (Lose \/ UNCHANGED sessionVars) => SessionInv'
<1> SUFFICES ASSUME SessionInv, Lose \/ UNCHANGED sessionVars PROVE SessionInv'
  OBVIOUS
<1>1. /\ UNCHANGED <<ctx, ssl, live, fd, ready, open, asked, due, replaced, pc,
                     ClientSock, socket, using, leaving, alone, mixed>>
  BY DEF Lose, DllStays, tlsVars, eaVars, ghostVars, sessionVars, sockVars, netVars
<1>2. lost' \in SUBSET open
  <2>1. CASE Lose
    BY <2>1 DEF Lose, SessionInv, SessionTypeOK, Attached
  <2>2. CASE UNCHANGED sessionVars
    BY <2>2 DEF sessionVars, sockVars, netVars, SessionInv, SessionTypeOK
  <2> QED BY <2>1, <2>2
<1>3. SessionTypeOK'
  BY <1>1, <1>2 DEF SessionInv, SessionTypeOK
<1>4. Attached' /\ Unasked' /\ Held' /\ Valid' /\ Own'
  BY <1>1 DEF SessionInv, Attached, Unasked, Held, Valid, Own, Mine
<1>5. Serial'
  BY <1>1 DEF SessionInv, Serial, Quiet, Sound, InCall
<1> QED BY <1>3, <1>4, <1>5 DEF SessionInv

LEMMA SessionStep == SessionInv /\ [SessionNext]_sessionVars => SessionInv'
<1> SUFFICES ASSUME SessionInv, [SessionNext]_sessionVars PROVE SessionInv'
  OBVIOUS
<1>1. ASSUME NEW e \in Ea, Call(e) PROVE SessionInv'
  BY <1>1, ConnectStep, NewSslStep, SetFdStep, ConnectedStep, RefusedStep, RefusedDoneStep,
     SendAuthStep, ReadReplyStep, ReceiveSteps, CloseSteps, DeInitStep, CrashStep DEF Call
<1> QED BY <1>1, LoseStep, CallSteps, ReceiveSteps DEF SessionNext

-----------------------------------------------------------------------------
(* The globals of the DLL, the sockets and the SSL objects keep their      *)
(* types, and a local of ConnectToHost is in use exactly while it runs.    *)
THEOREM SessionTypeCorrect == SessionSpec => []SessionTypeOK
<1>1. SessionInv => SessionTypeOK
  BY DEF SessionInv
<1> QED BY <1>1, SessionStarts, SessionStep, PTL DEF SessionSpec

(* An EA that no other EA disturbs talks over its own socket, through any  *)
(* number of lost connections and repeated logins of any EA before.        *)
THEOREM OwnSessionHolds == SessionSpec => []OwnSession
<1>1. SessionInv => OwnSession
  BY DEF SessionInv, Own, Mine, OwnSession
<1> QED BY <1>1, SessionStarts, SessionStep, PTL DEF SessionSpec

(* A freed SSL object is given to OpenSSL only where the calls of two EAs  *)
(* overlap: whoever frees the object is about to clear the pointer, and a  *)
(* call that is alone uses what it has made itself.                        *)
THEOREM SerialCallsAreSafe == SessionSpec => []SerialCallsSafe
<1>1. SessionInv => SerialCallsSafe
  <2> SUFFICES ASSUME SessionInv, NEW e \in Ea, Quiet(e), Misused(e) PROVE FALSE
    BY DEF SerialCallsSafe, Quiet
  <2>1. None \notin Obj /\ live \in SUBSET Obj
    BY SessionAssumption DEF SessionInv, SessionTypeOK
  <2>2. Sound(e)
    BY DEF SessionInv, Serial
  <2>3. pc[e] \in {"auth", "close", "run"} => ssl \in live \cup {None}
    <3>1. \A d \in Ea \ {e} : pc[d] \notin {"shut", "fail"}
      BY DEF Quiet, InCall, Outside
    <3> QED BY <3>1 DEF SessionInv, Valid
  <2> QED BY <2>1, <2>2, <2>3 DEF Sound, Misused
<1> QED BY <1>1, SessionStarts, SessionStep, PTL DEF SessionSpec

(* An open socket that its EA has not replaced belongs to an EA that can   *)
(* still close it, wherever logins fail and whoever closes what.           *)
THEOREM ClosesWhatItOpenedHolds == SessionSpec => []ClosesWhatItOpened
<1>1. SessionInv => ClosesWhatItOpened
  BY DEF SessionInv, Held, ClosesWhatItOpened
<1> QED BY <1>1, SessionStarts, SessionStep, PTL DEF SessionSpec

-----------------------------------------------------------------------------
(* The shared prices.                                                      *)

(* The price v is one that its publisher puts into f.                      *)
Belongs(v, f) ==
  LET p == Feed[v[1]][v[3]] IN
  v = Nothing \/ (v \in Quote /\ p[2] \in Fitting /\ f = FileName[p])

(* A publisher's price in a mapping is from its present quote, or from the *)
(* last one while the present is half published.                           *)
Current ==
  \A f \in File :
    /\ Belongs(content[f], f)
    /\ content[f] # Nothing =>
         LET t == content[f][1] IN
         /\ content[f][2] <= quote[t]
         /\ t \notin skipped =>
              /\ content[f][2] + 1 >= quote[t]
              /\ content[f][3] = 1 \/ t \notin half => content[f][2] = quote[t]

(* What a reader has got is no newer than what is there.                   *)
Known ==
  /\ seen.by # Nothing => seen.by \in Terminal /\ seen.pair \in Pair
  /\ seen.by = Nothing => seen.first = Nothing /\ seen.second = Nothing
  /\ seen.first \in Quote => seen.first[2] <= quote[seen.first[1]]
  /\ QuotesTogether

(* Half a quote is one.                                                    *)
Begun == \A t \in half : quote[t] # 0

PricesInv == PricesTypeOK /\ Begun /\ Current /\ Known

LEMMA NoQuote == Nothing \notin Terminal \cup Quote /\ Stray \notin Quote
<1> QED BY PricesAssumption

(* The parts of a price.                                                   *)
LEMMA QuoteParts ==
  /\ \A v \in Quote : /\ v[1] \in Terminal /\ v[2] \in Nat /\ v[3] \in {1, 2}
                      /\ v[2] <= MaxQuote[v[1]]
  /\ \A t \in Terminal, k \in {1, 2} : \A n \in 1..MaxQuote[t] : <<t, n, k>> \in Quote
<1>1. ASSUME NEW v \in Quote
      PROVE  v[1] \in Terminal /\ v[2] \in Nat /\ v[3] \in {1, 2} /\ v[2] <= MaxQuote[v[1]]
  <2>1. PICK t \in Terminal : v \in {t} \X (1..MaxQuote[t]) \X {1, 2}
    BY DEF Quote
  <2>2. MaxQuote[t] \in Nat
    BY PricesAssumption
  <2> QED BY <2>1, <2>2
<1>2. ASSUME NEW t \in Terminal, NEW k \in {1, 2}, NEW n \in 1..MaxQuote[t]
      PROVE  <<t, n, k>> \in Quote
  <2>1. <<t, n, k>> \in {t} \X (1..MaxQuote[t]) \X {1, 2}
    OBVIOUS
  <2> QED BY <2>1 DEF Quote
<1> QED BY <1>1, <1>2

LEMMA Places ==
  /\ \A t \in Terminal, n \in {1, 2} : Feed[t][n] \in Place
  /\ \A pp \in Pair, n \in {1, 2} : pp[n] \in Place
  /\ \A p \in Place : p[2] \in Fitting => FileName[p] \in File
<1>1. \A pp \in Place \X Place, n \in {1, 2} : pp[n] \in Place
  OBVIOUS
<1>2. Feed \in [Terminal -> Place \X Place] /\ Pair \subseteq Place \X Place
  BY PricesAssumption
<1>3. \A p \in Place : p[2] \in Fitting => p \in DOMAIN FileName
  BY DEF FileName
<1> QED BY <1>1, <1>2, <1>3 DEF File

LEMMA PricesStart == PricesInit => PricesInv
<1> SUFFICES ASSUME PricesInit PROVE PricesInv
  OBVIOUS
<1>1. PricesTypeOK
  <2>1. \A t \in Terminal : MaxQuote[t] \in Nat
    BY PricesAssumption
  <2> QED BY <2>1 DEF PricesInit, PricesTypeOK, NotRead, Price
<1>2. Current
  BY DEF PricesInit, Current, Belongs
<1>3. Known
  BY NoQuote DEF PricesInit, Known, NotRead, QuotesTogether
<1>4. Begun
  BY DEF PricesInit, Begun
<1> QED BY <1>1, <1>2, <1>3, <1>4 DEF PricesInv

(* A terminal comes, or makes a mapping.                                   *)
LEMMA ComesStep ==
  ASSUME PricesInv, NEW t \in Terminal,
         Load(t) \/ CloseShared(t) \/ \E p \in Place : InitShared(t, p)
  PROVE  PricesInv'
<1>1. PricesTypeOK
  BY DEF PricesInv
<1>2. UNCHANGED <<content, quote, half, skipped, seen>>
  BY DEF Load, CloseShared, InitShared, priceVars
<1>3. /\ loaded \in SUBSET loaded' /\ loaded' \in SUBSET Terminal
      /\ handles' \in [File -> SUBSET loaded']
      /\ \A f \in File : handles[f] \subseteq handles'[f]
  <2>1. CASE Load(t) \/ CloseShared(t)
    BY <1>1, <2>1 DEF Load, CloseShared, priceVars, PricesTypeOK
  <2>2. ASSUME NEW p \in Place, InitShared(t, p)
        PROVE  <1>3!1 /\ <1>3!2 /\ <1>3!3
    BY <1>1, <2>2 DEF InitShared, PricesTypeOK
  <2> QED BY <2>1, <2>2
<1>4. PricesTypeOK'
  BY <1>1, <1>2, <1>3 DEF PricesTypeOK, Holders
<1>5. Begun' /\ Current' /\ Known'
  BY <1>2 DEF PricesInv, Begun, Current, Known, Belongs, QuotesTogether
<1> QED BY <1>4, <1>5 DEF PricesInv

LEMMA ExitStep ==
  ASSUME PricesInv, NEW t \in Terminal, Exit(t)
  PROVE  PricesInv'
<1>1. PricesTypeOK /\ Nothing \notin Terminal
  BY NoQuote DEF PricesInv
<1>2. /\ loaded' = loaded \ {t} /\ handles' = [f \in File |-> handles[f] \ {t}]
      /\ content' = [f \in File |-> IF Holders(f) \subseteq {t} THEN Nothing ELSE content[f]]
      /\ half' = half \ {t} /\ skipped' = skipped \cup (half \cap {t})
      /\ seen' = IF seen.by = t THEN NotRead ELSE seen
      /\ quote' = quote
  BY DEF Exit
<1>3. \A f \in File : content'[f] \in {Nothing, content[f]}
  BY <1>2
<1>4. PricesTypeOK'
  <2>1. \A f \in File : Holders(f)' = Holders(f) \ {t}
    BY <1>2 DEF Holders
  <2>2. \A f \in File : content'[f] # Nothing => Holders(f)' # {}
    BY <1>1, <1>2, <2>1 DEF PricesTypeOK
  <2>3. content' \in [File -> Price] /\ handles' \in [File -> SUBSET loaded']
    BY <1>1, <1>2 DEF PricesTypeOK, Price
  <2>4. seen' \in [by : loaded' \cup {Nothing}, pair : Pair \cup {Nothing}, first : Price \cup {Stray}, second : Price \cup {Stray}]
    BY <1>1, <1>2 DEF PricesTypeOK, NotRead, Price
  <2> QED BY <1>1, <1>2, <2>2, <2>3, <2>4 DEF PricesTypeOK
<1>5. Current'
  <2> SUFFICES ASSUME NEW f \in File, content'[f] # Nothing
               PROVE  /\ Belongs(content'[f], f)
                      /\ content'[f][2] <= quote'[content'[f][1]]
                      /\ content'[f][1] \notin skipped' =>
                           /\ content'[f][2] + 1 >= quote'[content'[f][1]]
                           /\ content'[f][3] = 1 \/ content'[f][1] \notin half'
                                => content'[f][2] = quote'[content'[f][1]]
    BY DEF Current, Belongs
  <2>1. content'[f] = content[f]
    BY <1>3
  <2> QED BY <1>2, <2>1 DEF PricesInv, Current
<1>6. Known'
  BY <1>2, NoQuote DEF PricesInv, Known, NotRead, QuotesTogether
<1>7. Begun'
  BY <1>2 DEF PricesInv, Begun
<1> QED BY <1>4, <1>5, <1>6, <1>7 DEF PricesInv

-----------------------------------------------------------------------------
LEMMA ReadSteps ==
  ASSUME PricesInv, GetSecond \/ \E t \in Terminal, pp \in Pair : GetFirst(t, pp)
  PROVE  PricesInv'
<1>1. PricesTypeOK /\ Nothing \notin Terminal
  BY NoQuote DEF PricesInv
<1>2. UNCHANGED <<loaded, handles, content, quote, half, skipped>>
  BY DEF GetSecond, GetFirst
<1>3. Begun' /\ Current'
  BY <1>2 DEF PricesInv, Begun, Current, Belongs
<1> DEFINE Good(v) == /\ v \in Price \cup {Stray}
                      /\ v \in Quote =>
                           /\ v[2] <= quote[v[1]]
                           /\ v[1] \notin skipped => v[2] + 1 >= quote[v[1]]
<1>4. ASSUME NEW p, p \in Place, NEW v, v \in Gets(p)
      PROVE  Good(v)
  <2>1. CASE p[2] \in Fitting /\ v = content[FileName[p]]
    <3>1. FileName[p] \in File
      BY <1>4, <2>1, Places
    <3> QED BY <1>1, <2>1, <3>1, NoQuote DEF PricesInv, PricesTypeOK, Current
  <2>2. CASE v \in {Stray, Nothing}
    BY <2>2, NoQuote DEF Price
  <2> QED BY <1>4, <2>1, <2>2 DEF Gets
<1> HIDE DEF Good
<1>5. ASSUME NEW t \in Terminal, NEW pp \in Pair, GetFirst(t, pp)
      PROVE  PricesInv'
  <2>1. PICK v \in Gets(pp[1]) :
          seen' = [by |-> t, pair |-> pp, first |-> v, second |-> Nothing]
    BY <1>5 DEF GetFirst
  <2>2. t \in loaded /\ pp[1] \in Place
    BY <1>5, Places DEF GetFirst
  <2>0. Good(v)
    BY <1>4, <2>2
  <2>3. /\ v \in Price \cup {Stray} /\ Nothing \in Price
        /\ v \in Quote => v[2] <= quote[v[1]]
    BY <2>0 DEF Good, Price
  <2>4. PricesTypeOK'
    BY <1>1, <1>2, <2>1, <2>2, <2>3 DEF PricesTypeOK, Holders
  <2>5. Known'
    BY <1>1, <1>2, <2>1, <2>3, NoQuote DEF Known, QuotesTogether
  <2> QED BY <1>3, <2>4, <2>5 DEF PricesInv
<1>6. CASE GetSecond
  <2>1. seen.by \in Terminal /\ seen.by # Nothing /\ seen.pair \in Pair
    BY <1>1, <1>6 DEF GetSecond, PricesTypeOK, PricesInv, Known
  <2>2. PICK v \in Gets(seen.pair[2]) : seen' = [seen EXCEPT !.second = v]
    BY <1>6 DEF GetSecond
  <2>3. seen.pair[2] \in Place
    BY <2>1, Places
  <2>0. Good(v)
    BY <1>4, <2>3
  <2>4. /\ v \in Price \cup {Stray}
        /\ v \in Quote /\ v[1] \notin skipped => v[2] + 1 >= quote[v[1]]
    BY <2>0 DEF Good
  <2>5. seen' = [by |-> seen.by, pair |-> seen.pair, first |-> seen.first, second |-> v]
    BY <1>1, <2>2 DEF PricesTypeOK
  <2>6. PricesTypeOK'
    BY <1>1, <1>2, <2>4, <2>5 DEF PricesTypeOK, Holders
  <2>7. ASSUME seen.first \in Quote, v \in Quote, seen.first[1] = v[1], v[1] \notin skipped
        PROVE  v[2] + 1 >= seen.first[2]
    <3>1. v[2] + 1 >= quote[v[1]] /\ seen.first[2] <= quote[v[1]]
      BY <2>4, <2>7 DEF PricesInv, Known
    <3>2. v[2] \in Nat /\ seen.first[2] \in Nat /\ quote[v[1]] \in Nat
      BY <1>1, <2>7, QuoteParts DEF PricesTypeOK
    <3> QED BY <3>1, <3>2
  <2>8. Known'
    BY <1>2, <2>1, <2>5, <2>7 DEF PricesInv, Known, QuotesTogether
  <2> QED BY <1>3, <2>6, <2>8 DEF PricesInv
<1> QED BY <1>5, <1>6

-----------------------------------------------------------------------------
(* What is put replaces what was there; where it is not, there is nothing  *)
(* of the publisher, or the publisher has skipped it.                      *)
LEMMA PutStep ==
  ASSUME PricesTypeOK, NEW t \in Terminal, NEW p \in Place, NEW v \in Price, Put(t, p, v)
  PROVE  /\ content' \in [File -> Price] /\ skipped' \in SUBSET Terminal
         /\ skipped \in SUBSET skipped' /\ skipped' \in SUBSET (skipped \cup {t})
         /\ \A f \in File : content'[f] # Nothing => Holders(f) # {}
         /\ \A f \in File :
              \/ p[2] \in Fitting /\ f = FileName[p] /\ content'[f] = v
              \/ /\ content'[f] = content[f]
                 /\ p[2] \in Fitting /\ f = FileName[p] /\ t \notin skipped'
                      => content[f] = Nothing
<1>1. /\ content \in [File -> Price] /\ skipped \in SUBSET Terminal
      /\ \A f \in File : content[f] # Nothing => Holders(f) # {}
  BY DEF PricesTypeOK
<1>2. PICK viewed \in BOOLEAN :
        /\ content' = IF viewed /\ p[2] \in Fitting /\ IsThere(FileName[p])
                      THEN [content EXCEPT ![FileName[p]] = v] ELSE content
        /\ skipped' = IF viewed THEN skipped ELSE skipped \cup {t}
  BY DEF Put
<1>3. /\ skipped' \in SUBSET Terminal /\ skipped \in SUBSET skipped'
      /\ skipped' \in SUBSET (skipped \cup {t}) /\ (~viewed => t \in skipped')
  BY <1>1, <1>2
<1>4. CASE viewed /\ p[2] \in Fitting /\ IsThere(FileName[p])
  <2>1. content' = [content EXCEPT ![FileName[p]] = v] /\ Holders(FileName[p]) # {}
    BY <1>2, <1>4 DEF IsThere
  <2>2. FileName[p] \in File
    BY <1>4, Places
  <2> QED BY <1>1, <1>3, <1>4, <2>1, <2>2
<1>5. CASE ~(viewed /\ p[2] \in Fitting /\ IsThere(FileName[p]))
  <2>1. content' = content
    BY <1>2, <1>5
  <2>2. viewed /\ p[2] \in Fitting => Holders(FileName[p]) = {}
    BY <1>5 DEF IsThere
  <2> QED BY <1>1, <1>3, <2>1, <2>2
<1> QED BY <1>4, <1>5

(* A publisher sets its first price: what it has left elsewhere is now one *)
(* quote old.                                                              *)
LEMMA SetFirstStep ==
  ASSUME PricesInv, NEW t \in Terminal, SetFirst(t)
  PROVE  PricesInv'
<1> DEFINE p == Feed[t][1]
           v == <<t, quote[t] + 1, 1>>
<1>1. PricesTypeOK /\ p \in Place /\ MaxQuote[t] \in Nat
  BY PricesAssumption, Places DEF PricesInv
<1>2. /\ t \in loaded /\ t \notin half /\ half' = half \cup {t}
      /\ quote' = [quote EXCEPT ![t] = @ + 1] /\ quote[t] < MaxQuote[t]
      /\ UNCHANGED <<loaded, handles, seen>>
  BY DEF SetFirst
<1>3. quote \in [Terminal -> Nat] /\ \A u \in Terminal : quote[u] <= MaxQuote[u]
  BY <1>1 DEF PricesTypeOK
<1>4. /\ quote' \in [Terminal -> Nat] /\ quote'[t] = quote[t] + 1
      /\ \A u \in Terminal : u # t => quote'[u] = quote[u]
      /\ \A u \in Terminal : quote'[u] <= MaxQuote[u]
  BY <1>1, <1>2, <1>3
<1>5. v \in Quote /\ v \in Price /\ v # Nothing /\ v[1] = t /\ v[2] = quote[t] + 1 /\ v[3] = 1
  <2>1. quote[t] + 1 \in 1..MaxQuote[t] /\ 1 \in {1, 2}
    BY <1>1, <1>2, <1>3
  <2>2. <<t, quote[t] + 1, 1>> \in Quote
    BY <2>1, QuoteParts
  <2> QED BY <2>2, NoQuote DEF Price
<1>6. Put(t, p, v)
  BY <1>4 DEF SetFirst
<1> HIDE DEF v
<1>7. /\ content' \in [File -> Price] /\ skipped' \in SUBSET Terminal
      /\ skipped \in SUBSET skipped' /\ skipped' \in SUBSET (skipped \cup {t})
      /\ \A f \in File : content'[f] # Nothing => Holders(f) # {}
      /\ \A f \in File :
           \/ p[2] \in Fitting /\ f = FileName[p] /\ content'[f] = v
           \/ /\ content'[f] = content[f]
              /\ p[2] \in Fitting /\ f = FileName[p] /\ t \notin skipped'
                   => content[f] = Nothing
  BY <1>1, <1>5, <1>6, PutStep
<1>8. PricesTypeOK'
  BY <1>1, <1>2, <1>4, <1>7 DEF PricesTypeOK, Holders
<1>9. Current'
  <2> SUFFICES ASSUME NEW f \in File, content'[f] # Nothing
               PROVE  /\ Belongs(content'[f], f)
                      /\ content'[f][2] <= quote'[content'[f][1]]
                      /\ content'[f][1] \notin skipped' =>
                           /\ content'[f][2] + 1 >= quote'[content'[f][1]]
                           /\ content'[f][3] = 1 \/ content'[f][1] \notin half'
                                => content'[f][2] = quote'[content'[f][1]]
    BY DEF Current, Belongs
  <2>1. CASE p[2] \in Fitting /\ f = FileName[p] /\ content'[f] = v
    <3>1. Belongs(v, f)
      BY <1>5, <2>1 DEF Belongs
    <3> QED BY <1>3, <1>4, <1>5, <2>1, <3>1
  <2>2. CASE /\ content'[f] = content[f]
             /\ p[2] \in Fitting /\ f = FileName[p] /\ t \notin skipped'
                  => content[f] = Nothing
    <3>1. /\ Belongs(content[f], f) /\ content[f] # Nothing
          /\ content[f][2] <= quote[content[f][1]]
          /\ content[f][1] \notin skipped =>
               /\ content[f][2] + 1 >= quote[content[f][1]]
               /\ content[f][3] = 1 \/ content[f][1] \notin half
                    => content[f][2] = quote[content[f][1]]
      BY <2>2 DEF PricesInv, Current
    <3>2. content[f][1] \in Terminal /\ content[f][2] \in Nat /\ content[f][3] \in {1, 2}
      BY <3>1, QuoteParts DEF Belongs
    <3>3. CASE content[f][1] # t
      BY <1>2, <1>4, <1>7, <2>2, <3>1, <3>2, <3>3
    <3>4. CASE content[f][1] = t
      <4>1. Feed[t][content[f][3]][2] \in Fitting /\ f = FileName[Feed[t][content[f][3]]]
        BY <3>1, <3>4 DEF Belongs
      <4>2. t \notin skipped' => content[f][3] # 1
        BY <2>2, <3>1, <4>1
      <4>3. t \notin skipped => content[f][2] = quote[t]
        BY <1>2, <3>1, <3>4
      <4>4. t \notin skipped' => t \notin skipped
        BY <1>7
      <4>5. content[f][2] <= quote'[t]
        BY <1>3, <1>4, <3>1, <3>2, <3>4
      <4>6. t \notin skipped' => content[f][2] + 1 >= quote'[t]
        BY <1>3, <1>4, <4>3, <4>4
      <4> QED BY <1>2, <2>2, <3>1, <3>4, <4>2, <4>5, <4>6
    <3> QED BY <3>3, <3>4
  <2> QED BY <1>7, <2>1, <2>2
<1>10. Known'
  <2>1. ASSUME seen.first \in Quote PROVE seen.first[2] <= quote'[seen.first[1]]
    <3>1. seen.first[2] <= quote[seen.first[1]]
      BY <2>1 DEF PricesInv, Known
    <3>2. seen.first[1] \in Terminal /\ seen.first[2] \in Nat
      BY <2>1, QuoteParts
    <3> QED BY <1>3, <1>4, <3>1, <3>2
  <2> QED BY <1>2, <1>7, <2>1 DEF PricesInv, Known, QuotesTogether
<1>11. Begun'
  BY <1>1, <1>2, <1>3, <1>4 DEF PricesInv, Begun, PricesTypeOK
<1> QED BY <1>8, <1>9, <1>10, <1>11 DEF PricesInv

(* And its second: both are now of its present quote.                      *)
LEMMA SetSecondStep ==
  ASSUME PricesInv, NEW t \in Terminal, SetSecond(t)
  PROVE  PricesInv'
<1> DEFINE p == Feed[t][2]
           v == <<t, quote[t], 2>>
<1>1. PricesTypeOK /\ p \in Place /\ MaxQuote[t] \in Nat
  BY PricesAssumption, Places DEF PricesInv
<1>2. /\ t \in half /\ half' = half \ {t}
      /\ UNCHANGED <<loaded, handles, quote, seen>>
  BY DEF SetSecond
<1>3. quote \in [Terminal -> Nat] /\ quote[t] \in 1..MaxQuote[t]
  BY <1>1, <1>2 DEF PricesTypeOK, PricesInv, Begun
<1>4. v \in Quote /\ v \in Price /\ v # Nothing /\ v[1] = t /\ v[2] = quote[t] /\ v[3] = 2
  <2>1. <<t, quote[t], 2>> \in Quote
    BY <1>3, QuoteParts
  <2> QED BY <2>1, NoQuote DEF Price
<1>5. Put(t, p, v)
  BY DEF SetSecond
<1> HIDE DEF v
<1>6. /\ content' \in [File -> Price] /\ skipped' \in SUBSET Terminal
      /\ skipped \in SUBSET skipped' /\ skipped' \in SUBSET (skipped \cup {t})
      /\ \A f \in File : content'[f] # Nothing => Holders(f) # {}
      /\ \A f \in File :
           \/ p[2] \in Fitting /\ f = FileName[p] /\ content'[f] = v
           \/ /\ content'[f] = content[f]
              /\ p[2] \in Fitting /\ f = FileName[p] /\ t \notin skipped'
                   => content[f] = Nothing
  BY <1>1, <1>4, <1>5, PutStep
<1>7. PricesTypeOK'
  BY <1>1, <1>2, <1>6 DEF PricesTypeOK, Holders
<1>8. Current'
  <2> SUFFICES ASSUME NEW f \in File, content'[f] # Nothing
               PROVE  /\ Belongs(content'[f], f)
                      /\ content'[f][2] <= quote'[content'[f][1]]
                      /\ content'[f][1] \notin skipped' =>
                           /\ content'[f][2] + 1 >= quote'[content'[f][1]]
                           /\ content'[f][3] = 1 \/ content'[f][1] \notin half'
                                => content'[f][2] = quote'[content'[f][1]]
    BY DEF Current, Belongs
  <2>1. CASE p[2] \in Fitting /\ f = FileName[p] /\ content'[f] = v
    <3>1. Belongs(v, f)
      BY <1>4, <2>1 DEF Belongs
    <3> QED BY <1>2, <1>3, <1>4, <2>1, <3>1
  <2>2. CASE /\ content'[f] = content[f]
             /\ p[2] \in Fitting /\ f = FileName[p] /\ t \notin skipped'
                  => content[f] = Nothing
    <3>1. /\ Belongs(content[f], f) /\ content[f] # Nothing
          /\ content[f][2] <= quote[content[f][1]]
          /\ content[f][1] \notin skipped =>
               /\ content[f][2] + 1 >= quote[content[f][1]]
               /\ content[f][3] = 1 \/ content[f][1] \notin half
                    => content[f][2] = quote[content[f][1]]
      BY <2>2 DEF PricesInv, Current
    <3>2. content[f][3] \in {1, 2}
      BY <3>1, QuoteParts DEF Belongs
    <3>3. CASE content[f][1] # t
      BY <1>2, <1>6, <2>2, <3>1, <3>3
    <3>4. CASE content[f][1] = t
      <4>1. Feed[t][content[f][3]][2] \in Fitting /\ f = FileName[Feed[t][content[f][3]]]
        BY <3>1, <3>4 DEF Belongs
      <4>2. t \notin skipped' => content[f][3] = 1
        BY <2>2, <3>1, <3>2, <4>1
      <4>3. t \notin skipped' => t \notin skipped
        BY <1>6
      <4> QED BY <1>2, <2>2, <3>1, <3>4, <4>2, <4>3
    <3> QED BY <3>3, <3>4
  <2> QED BY <1>6, <2>1, <2>2
<1>9. Begun' /\ Known'
  BY <1>2, <1>6 DEF PricesInv, Begun, Known, QuotesTogether
<1> QED BY <1>7, <1>8, <1>9 DEF PricesInv

LEMMA PricesStep ==
  ASSUME PricesInv, [PricesNext]_priceVars
  PROVE  PricesInv'
<1>1. CASE PricesNext
  BY <1>1, ComesStep, ExitStep, ReadSteps, SetFirstStep, SetSecondStep DEF PricesNext
<1>2. CASE UNCHANGED priceVars
  BY <1>2 DEF priceVars, PricesInv, PricesTypeOK, Begun, Current, Known, Belongs, Holders,
          QuotesTogether
<1> QED BY <1>1, <1>2

LEMMA PricesInvariant == PricesSpec => []PricesInv
<1> QED BY PricesStart, PricesStep, PTL DEF PricesSpec

(* However many terminals there are, come, go and make mappings: of two    *)
(* prices of one publisher that has put all of its quotes, the one read    *)
(* second is at most one quote older (EAClient.cpp:193-311, 313-439).      *)
THEOREM QuotesTogetherHolds == PricesSpec => []QuotesTogether
<1>1. PricesInv => QuotesTogether
  BY DEF PricesInv, Known
<1> QED BY <1>1, PricesInvariant, PTL

(* A mapping has a price only while somebody has a handle of it, a handle  *)
(* only a process that has the DLL loaded (EAClient.cpp:107-205).          *)
THEOREM PricesTypeCorrect == PricesSpec => []PricesTypeOK
<1>1. PricesInv => PricesTypeOK
  BY DEF PricesInv
<1> QED BY <1>1, PricesInvariant, PTL

(* A call to SendKeepAlive waits only while something is on the way or     *)
(* may be lost: no more is on the way than has been written.               *)
THEOREM ChannelTypeCorrect == ChannelSpec => []ChannelTypeOK
<1>1. ChannelInv => ChannelTypeOK
  BY DEF ChannelInv
<1> QED BY <1>1, ChannelStarts, ChannelStep, PTL DEF ChannelSpec

-----------------------------------------------------------------------------
(* The three beside one another.                                           *)
TerminalInv == SessionInv /\ PricesInv /\ ChannelInv

LEMMA TerminalStarts == Init => TerminalInv
<1> QED BY SessionStarts, PricesStart, ChannelStarts DEF Init, TerminalInv

LEMMA TerminalStep ==
  TerminalInv /\ [Next]_<<moves, sessionVars, priceVars, channelVars>> => TerminalInv'
<1> SUFFICES ASSUME TerminalInv, [Next]_<<moves, sessionVars, priceVars, channelVars>>
             PROVE  TerminalInv'
  OBVIOUS
<1>1. [SessionNext]_sessionVars /\ [PricesNext]_priceVars /\ [ChannelNext]_channelVars
  BY DEF Next, SessionMoves, PricesMove, ChannelMoves
<1> QED BY <1>1, SessionStep, PricesStep, ChannelStep DEF TerminalInv

(* The parts of EAClient.dll keep their types, whatever the others do.     *)
THEOREM TerminalTypeCorrect == Spec => []TypeOK
<1>1. TerminalInv => TypeOK
  BY DEF TerminalInv, SessionInv, PricesInv, ChannelInv, TypeOK
<1> QED BY <1>1, TerminalStarts, TerminalStep, PTL DEF Spec
=============================================================================
