----------------------------- MODULE MCTerminal ------------------------------
(* EAClient.dll: the sessions of two EAs in one terminal, one keep-alive   *)
(* connection, and the prices of two terminals.  The three share no state, *)
(* so one moves while the other two stay as they begin.                    *)
EXTENDS EAClientSession, EAClientPrices, KeepAliveChannel, TLC

CONSTANTS e1, e2, s1, s2, o1, o2, t1, t2, m1, m2, m3

US30 == <<"U", "S", "3", "0">>
US500 == <<"U", "S", "5", "0", "0">>
WTICrude == <<"W", "T", "I", "C", "r", "u", "d", "e", "O", "i", "l">>
Names == {US30, US500, WTICrude}
SlowAndFast(s) == <<<<"EASlowAsk", <<>>>>, <<"FastBuy", s>>>>
Feeds == (t1 :> SlowAndFast(US30)) @@ (t2 :> SlowAndFast(US500))
Quotes == (t1 :> 3) @@ (t2 :> 1)
Pairs == {SlowAndFast(US500), SlowAndFast(WTICrude)}

VARIABLE moves  \* the part this behaviour is about

SessionMoves == moves = 1 /\ SessionNext /\ UNCHANGED <<moves, priceVars, channelVars>>
PricesMove == moves = 2 /\ PricesNext /\ UNCHANGED <<moves, sessionVars, channelVars>>
ChannelMoves == moves = 3 /\ ChannelNext /\ UNCHANGED <<moves, sessionVars, priceVars>>

Init == SessionInit /\ PricesInit /\ ChannelInit /\ moves \in 1..3
Next == SessionMoves \/ PricesMove \/ ChannelMoves
Spec == Init /\ [][Next]_<<moves, sessionVars, priceVars, channelVars>>

TypeOK == SessionTypeOK /\ PricesTypeOK /\ ChannelTypeOK

Symmetry == Permutations(Sock) \cup Permutations(Obj)
=============================================================================
