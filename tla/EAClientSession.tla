--------------------------- MODULE EAClientSession ---------------------------
(***************************************************************************)
(* EAClient.dll in one terminal process.  The terminal runs every EA in a  *)
(* thread of its own; all of them share the DLL's two globals, ssl and     *)
(* ctx.  The socket an EA passes is used by closesocket and setsockopt     *)
(* only: what is sent and received goes through ssl, whoever put it there. *)
(*                                                                         *)
(* A step ends where another thread can come in between: at a call that    *)
(* blocks, and between freeing the object and clearing the pointer.  What  *)
(* OpenSSL does with an object that has been freed is undefined; the model *)
(* lets it end the process, and the user start it again.  Socket and       *)
(* object numbers are used again.                                          *)
(***************************************************************************)
EXTENDS Naturals, FiniteSets

CONSTANTS
  Ea,
  Follower,   \* EAs that call ReceiveFromHost; the others call SendOrder
  Sock, Obj,  \* socket numbers, SSL objects
  None        \* no socket, no EA; NULL

ASSUME SessionAssumption ==
  /\ Follower \subseteq Ea /\ None \notin Sock \cup Obj \cup Ea

VARIABLES
  ctx,         \* ctx # NULL
  ssl,
  live,        \* objects allocated
  fd,          \* the open socket an object writes to
  ready,       \* objects whose handshake is done
  open,        \* sockets this process has open
  pc,          \* where an EA is; "off", "idle" and "run" are outside the DLL
  ClientSock,  \* local of ConnectToHost
  socket,      \* the EA's global
  using,       \* the pointer given to SSL_connect or SSL_read
  leaving,     \* EAs in deinit
  lost,        \* connections broken or ended by the server
  asked,       \* whose user name and password the server got first
  due,         \* connections on which its answer has not been read
  replaced,    \* open sockets whose EA has stored another one
  alone,       \* EAs since whose login nobody else made a call
  mixed        \* EAs during whose present call somebody else made a step

tlsVars == <<live, fd, ready>>
netVars == <<open, lost, asked, due>>
eaVars == <<ClientSock, socket, using, leaving>>
ghostVars == <<alone, mixed>>
sockVars == <<netVars, replaced>>
sessionVars == <<ctx, ssl, tlsVars, sockVars, pc, eaVars, ghostVars>>

Outside == {"off", "idle", "run"}
Steps == Outside \cup {"login", "new", "setfd", "connect", "fail", "auth",
                       "reply", "close", "shut", "deinit", "recv"}

SessionTypeOK ==
  /\ ctx \in BOOLEAN
  /\ live \in SUBSET Obj /\ ready \in SUBSET live /\ ssl \in Obj \cup {None}
  /\ fd \in [Obj -> Sock \cup {None}] /\ open \in SUBSET Sock
  /\ pc \in [Ea -> Steps]
  /\ ClientSock \in [Ea -> Sock \cup {None}] /\ socket \in [Ea -> Sock \cup {None}]
  /\ using \in [Ea -> Obj \cup {None}]
  /\ \A e \in Ea :
       /\ ClientSock[e] # None <=> pc[e] \in {"new", "setfd", "connect", "fail"}
       /\ using[e] # None <=> pc[e] \in {"connect", "recv"}
       /\ e \in leaving => pc[e] \in {"close", "shut", "deinit"}
  /\ leaving \in SUBSET Ea /\ lost \in SUBSET open
  /\ asked \in [Sock -> Ea \cup {None}] /\ due \in SUBSET open
  /\ replaced \in SUBSET open /\ alone \in SUBSET Ea /\ mixed \in SUBSET Ea

Nowhere(S) == [x \in S |-> None]

SessionInit ==
  /\ ctx = FALSE /\ ssl = None /\ live = {} /\ fd = Nowhere(Obj) /\ ready = {}
  /\ pc = [e \in Ea |-> "off"] /\ leaving = {}
  /\ ClientSock = Nowhere(Ea) /\ socket = Nowhere(Ea) /\ using = Nowhere(Ea)
  /\ open = {} /\ lost = {} /\ replaced = {}
  /\ asked = Nowhere(Sock) /\ due = {}
  /\ alone = {} /\ mixed = {}

-----------------------------------------------------------------------------
InCall(e) == pc[e] \notin Outside

(* A step of e inside the DLL, or the start of a call.                     *)
Goes(e, from, to) ==
  /\ pc[e] = from /\ pc' = [pc EXCEPT ![e] = to]
  /\ alone' = IF to = "login" THEN {e}
              ELSE IF to \in {"off", "idle", "close"} THEN {} ELSE alone \cap {e}
  /\ mixed' = (mixed \ {d \in {e} : to \in Outside}) \cup {d \in Ea \ {e} : InCall(d)}

(* A call that leaves the socket alone; one that leaves ssl and the        *)
(* objects alone.                                                          *)
NetStays == UNCHANGED sockVars
DllStays == UNCHANGED <<ctx, ssl, tlsVars>>

(* closesocket of F and SSL_free of O.  An object whose socket has been    *)
(* closed fails from then on, also when the number comes back.             *)
Ends(F, O) ==
  /\ open' = open \ F /\ lost' = lost \ F /\ live' = live \ O
  /\ asked' = [n \in Sock |-> IF n \in F THEN None ELSE asked[n]]
  /\ due' = due \ F /\ replaced' = replaced \ F
  /\ fd' = [o \in Obj |-> IF o \in O \/ fd[o] \in F THEN None ELSE fd[o]]
  /\ ready' = {o \in ready \ O : fd[o] \notin F}

(* What is written to or read from an object reaches the server.           *)
Carries(o) == o \in ready /\ fd[o] \notin lost

(* InitNetwork, which may fail; then login, whatever InitNetwork says.  A  *)
(* context that is there already is given up.                              *)
Attach(e) ==
  /\ Goes(e, "off", "login") /\ ctx' \in BOOLEAN
  /\ NetStays /\ UNCHANGED <<ssl, tlsVars, eaVars>>

(* start: InitNetwork is not called again.                                 *)
Retry(e) == Goes(e, "idle", "login") /\ NetStays /\ DllStays /\ UNCHANGED eaVars

(* The Trader returns when ConnectToHost fails, the Follower closes the    *)
(* socket it had before.                                                   *)
Failed(e) == IF e \in Follower THEN "close" ELSE "idle"

-----------------------------------------------------------------------------
(* ConnectToHost and ConnectToAuthHost, which differ in the port.          *)

Connect(e) ==
  \/ /\ Goes(e, "login", Failed(e)) /\ NetStays /\ DllStays /\ UNCHANGED eaVars
  \/ \E n \in Sock \ open :
       /\ Goes(e, "login", "new") /\ open' = open \cup {n}
       /\ ClientSock' = [ClientSock EXCEPT ![e] = n]
       /\ DllStays /\ UNCHANGED <<socket, using, leaving, lost, asked, due, replaced>>

NoLocal(e) == ClientSock' = [ClientSock EXCEPT ![e] = None]

NewSsl(e) ==
  /\ UNCHANGED <<ctx, socket, using, leaving>>
  /\ \/ \E o \in Obj \ live :
          /\ ctx /\ Goes(e, "new", "setfd") /\ NetStays
          /\ ssl' = o /\ live' = live \cup {o}
          /\ UNCHANGED <<fd, ready, ClientSock>>
     \/ /\ ~ctx \/ live = Obj
        /\ Goes(e, "new", Failed(e)) /\ ssl' = None
        /\ Ends({ClientSock[e]}, {}) /\ NoLocal(e)

SetFd(e) ==
  /\ ssl \in live /\ Goes(e, "setfd", "connect") /\ NetStays
  /\ fd' = [fd EXCEPT ![ssl] = ClientSock[e]] /\ ready' = ready \ {ssl}
  /\ using' = [using EXCEPT ![e] = ssl]
  /\ UNCHANGED <<ctx, ssl, live, ClientSock, socket, leaving>>

(* login stores what ConnectToHost returns.  Mutant: only the first time.  *)
StoresFirst(e) == IF socket[e] = None THEN ClientSock[e] ELSE socket[e]
Stores(e) == ClientSock[e]

Connected(e) ==
  LET o == using[e] IN
  /\ o \in live /\ fd[o] \in open \ lost /\ \A p \in ready : fd[p] # fd[o]
  /\ Goes(e, "connect", "auth") /\ ready' = ready \cup {o}
  /\ socket' = [socket EXCEPT ![e] = Stores(e)]
  /\ replaced' = replaced \cup ((open \cap {socket[e]}) \ {ClientSock[e]})
  /\ using' = [using EXCEPT ![e] = None] /\ NoLocal(e)
  /\ UNCHANGED <<ctx, ssl, live, fd, leaving, netVars>>

(* SSL_set_fd or SSL_connect failed: what ssl points to by now is freed.   *)
Refused(e) ==
  /\ ssl \in live
  /\ \/ Goes(e, "setfd", "fail")
     \/ using[e] \in live /\ Goes(e, "connect", "fail")
  /\ Ends({}, {ssl}) /\ using' = [using EXCEPT ![e] = None]
  /\ UNCHANGED <<ctx, ssl, ClientSock, socket, leaving>>

(* Mutant: the socket stays open then.                                     *)
Forgotten(e) == {}
Abandoned(e) == {ClientSock[e]}

RefusedDone(e) ==
  /\ Goes(e, "fail", Failed(e)) /\ ssl' = None
  /\ Ends(Abandoned(e), {}) /\ NoLocal(e)
  /\ UNCHANGED <<ctx, socket, using, leaving>>

-----------------------------------------------------------------------------
(* SendAuthMessage and SendAuthEAIDMessage: a write, then a read, each     *)
(* through what ssl is at the time.                                        *)

Fails(o) == o = None \/ (o \in live /\ ~Carries(o))

SendAuth(e) ==
  LET n == fd[ssl] IN
  /\ DllStays /\ UNCHANGED <<eaVars, open, lost, replaced>>
  /\ \/ /\ ssl \in live /\ Carries(ssl) /\ Goes(e, "auth", "reply")
        /\ IF asked[n] = None
           THEN asked' = [asked EXCEPT ![n] = e] /\ due' = due \cup {n}
           ELSE UNCHANGED <<asked, due>>
     \/ Fails(ssl) /\ Goes(e, "auth", "close") /\ UNCHANGED <<asked, due>>

ReadReply(e) ==
  /\ ssl \in live /\ DllStays /\ UNCHANGED <<eaVars, open, lost, asked, replaced>>
  /\ \/ /\ Carries(ssl) /\ fd[ssl] \in due /\ due' = due \ {fd[ssl]}
        /\ Goes(e, "reply", "run") \/ Goes(e, "reply", "close")
     \/ Fails(ssl) /\ Goes(e, "reply", "close") /\ UNCHANGED due

-----------------------------------------------------------------------------
(* A session.  An error makes the EA leave the loop of start.              *)

(* SendKeepAlive uses ssl in the same way.                                 *)
SendOrder(e) ==
  /\ e \notin Follower /\ ssl \in live \cup {None}
  /\ Goes(e, "run", IF Fails(ssl) THEN "idle" ELSE "run")
  /\ NetStays /\ DllStays /\ UNCHANGED eaVars

ReceiveFromHost(e) ==
  /\ e \in Follower /\ ssl \in live \cup {None}
  /\ Goes(e, "run", IF ssl = None THEN "idle" ELSE "recv")
  /\ using' = [using EXCEPT ![e] = ssl]
  /\ NetStays /\ DllStays /\ UNCHANGED <<ClientSock, socket, leaving>>

(* An order, a timeout, or the end of the stream.                          *)
Received(e) ==
  /\ using[e] \in live /\ using' = [using EXCEPT ![e] = None]
  /\ \/ Goes(e, "recv", "run")
     \/ ~Carries(using[e]) /\ Goes(e, "recv", "idle")
  /\ NetStays /\ DllStays /\ UNCHANGED <<ClientSock, socket, leaving>>

-----------------------------------------------------------------------------
(* CloseConnection and DeInitNetwork.                                      *)

Deinit(e) ==
  /\ leaving' = leaving \cup {e}
  /\ Goes(e, "idle", "close") \/ Goes(e, "run", "close")
  /\ NetStays /\ DllStays /\ UNCHANGED <<ClientSock, socket, using>>

(* Mutant: deinit ends before DeInitNetwork.                               *)
SkipsDeInit(e) == "idle"
Closed(e) == IF e \in leaving THEN "deinit" ELSE "idle"

(* Mutant: the pointer is not cleared.                                     *)
Dangling == ssl
Cleared == None

CloseConnection(e) ==
  /\ UNCHANGED <<ctx, ssl, eaVars>>
  /\ \/ ssl = None /\ Goes(e, "close", Closed(e)) /\ Ends({socket[e]}, {})
     \/ ssl \in live /\ Goes(e, "close", "shut") /\ Ends({}, {ssl})

CloseDone(e) ==
  /\ Goes(e, "shut", Closed(e)) /\ ssl' = Cleared /\ Ends({socket[e]}, {})
  /\ UNCHANGED <<ctx, eaVars>>

DeInitNetwork(e) ==
  /\ Goes(e, "deinit", "off") /\ ctx' = FALSE
  /\ leaving' = leaving \ {e} /\ socket' = [socket EXCEPT ![e] = None]
  /\ NetStays /\ UNCHANGED <<ssl, tlsVars, ClientSock, using>>

-----------------------------------------------------------------------------
Lose ==
  /\ \E o \in ready : Carries(o) /\ lost' = lost \cup {fd[o]}
  /\ DllStays /\ UNCHANGED <<open, asked, due, replaced, pc, eaVars, ghostVars>>

(* An object that has been freed, or NULL, is given to OpenSSL.            *)
Misused(e) ==
  \/ pc[e] \in {"setfd", "reply"} /\ ssl \notin live
  \/ pc[e] \in {"auth", "close"} /\ ssl # None /\ ssl \notin live
  \/ pc[e] = "run" /\ ssl # None /\ ssl \notin live
  \/ pc[e] \in {"connect", "recv"} /\ using[e] \notin live
  \/ pc[e] = "connect" /\ ssl \notin live

Crash(e) ==
  /\ Misused(e)
  /\ ctx' = FALSE /\ ssl' = None /\ pc' = [d \in Ea |-> "off"] /\ leaving' = {}
  /\ ClientSock' = Nowhere(Ea) /\ socket' = Nowhere(Ea) /\ using' = Nowhere(Ea)
  /\ alone' = {} /\ mixed' = {} /\ Ends(Sock, Obj)

Call(e) ==
  \/ Connect(e) \/ NewSsl(e) \/ SetFd(e) \/ Connected(e) \/ Refused(e) \/ RefusedDone(e)
  \/ SendAuth(e) \/ ReadReply(e) \/ Received(e)
  \/ CloseConnection(e) \/ CloseDone(e) \/ DeInitNetwork(e) \/ Crash(e)

SessionNext ==
  \/ Lose
  \/ \E e \in Ea :
       \/ Call(e) \/ Attach(e) \/ Retry(e) \/ Deinit(e)
       \/ SendOrder(e) \/ ReceiveFromHost(e)

SessionSpec == SessionInit /\ [][SessionNext]_sessionVars

-----------------------------------------------------------------------------
(* As long as no other EA of the terminal has made a call since its login, *)
(* an EA that is in its loop talks over the socket it holds, through an    *)
(* object that exists, to a server that has got its own user name: also    *)
(* after lost connections and repeated logins (EAClient.cpp:58, 619).      *)
OwnSession ==
  \A e \in alone :
    pc[e] = "run" =>
      /\ ssl \in live /\ fd[ssl] = socket[e]
      /\ asked[socket[e]] = e

(* OpenSSL is given a freed object only when calls of two EAs overlap      *)
(* (EAClient.cpp:725-734 against 833-840): one call after the other is     *)
(* safe, whoever makes it.                                                 *)
SerialCallsSafe ==
  \A e \in Ea : Misused(e) => e \in mixed \/ \E d \in Ea \ {e} : InCall(d)

(* A socket stays open behind an EA's back only if a later login of the EA *)
(* replaced it while it was still open: whatever other EAs free and close, *)
(* and wherever a login fails, what an EA has opened and not replaced it   *)
(* can still close, and has closed when it is removed (EAClient.cpp:617-   *)
(* 645, 725-734; Trader.mq4:63-70).                                        *)
ClosesWhatItOpened ==
  \A n \in open \ replaced : \E e \in Ea : n \in {ClientSock[e], socket[e]}
=============================================================================
