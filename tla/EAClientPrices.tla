--------------------------- MODULE EAClientPrices ----------------------------
(***************************************************************************)
(* The prices EAClient.dll lets the terminals of one machine share: named  *)
(* file mappings of one double, made by InitShared* and looked up again by *)
(* every SetShared* and GetShared*, and a data section that is there as    *)
(* long as a process has the DLL loaded.                                   *)
(*                                                                         *)
(* A mapping is named after its table (FastBuy, FastSell, SlowBuy,         *)
(* SlowSell) and the letters ParseSymbol keeps of a symbol.  InitShared*   *)
(* never closes its handle and CloseShared* does nothing, so the mapping   *)
(* lasts as long as a process that has made one of these calls.  A quote   *)
(* is two calls: there is no lock, and a reader may come in between.       *)
(* A call with too many letters ends the process (Exit) or uses a mapping  *)
(* with a name nobody knows, where a stray price may be.                   *)
(* A price stands for where it comes from: the publisher, the number of    *)
(* the quote, and which of its two prices it is.                           *)
(***************************************************************************)
EXTENDS Naturals, Sequences

CONSTANTS
  Terminal,  \* processes
  Table,     \* "FastBuy", "FastSell", "SlowBuy", "SlowSell"
  Name,      \* symbol names, as sequences of characters
  Feed,      \* Feed[t]: the pair of places a terminal's quotes go to
  Pair,      \* pairs of places quotes are read from
  Nothing,   \* no price: 0
  Stray,     \* a price of some other mapping
  MaxQuote   \* bound: MaxQuote[t], quotes of a terminal

(* The letters strictly between A and Z and between a and z.               *)
Letter == {"B", "C", "D", "E", "F", "G", "H", "I", "J", "K", "L", "M", "N",
           "O", "P", "Q", "R", "S", "T", "U", "V", "W", "X", "Y",
           "b", "c", "d", "e", "f", "g", "h", "i", "j", "k", "l", "m", "n",
           "o", "p", "q", "r", "s", "t", "u", "v", "w", "x", "y"}

ParseSymbol(csymbol) == SelectSeq(csymbol, LAMBDA c : c \in Letter)

(* Places as an EA names them: a table and a symbol, or a variable.        *)
Segment == {"EAFastBid", "EASlowBid", "EASlowAsk"}
Place == (Table \X Name) \cup (Segment \X {<<>>})

(* symbol[10] holds nine letters.  More leave no zero at the end: the name *)
(* goes on with what is on the stack.                                      *)
Fitting == {s \in Name \cup {<<>>} : Len(ParseSymbol(s)) <= 9}

(* What a place is called by the system.                                   *)
FileName ==
  [p \in {q \in Place : q[2] \in Fitting} |->
     IF p[1] \in Segment THEN p ELSE <<p[1], ParseSymbol(p[2])>>]
File == {FileName[p] : p \in DOMAIN FileName}

Quote == UNION {{t} \X (1..MaxQuote[t]) \X {1, 2} : t \in Terminal}
Price == Quote \cup {Nothing}

ASSUME PricesAssumption ==
  /\ Table \subseteq {"FastBuy", "FastSell", "SlowBuy", "SlowSell"}
  /\ Feed \in [Terminal -> Place \X Place] /\ Pair \subseteq Place \X Place
  /\ MaxQuote \in [Terminal -> Nat]
  /\ {Nothing, Stray} \cap (Terminal \cup Pair \cup Quote) = {}

VARIABLES
  loaded,   \* terminals with the DLL loaded
  handles,  \* handles[f]: terminals with a handle of the mapping
  content,
  quote,    \* number of the quote a terminal publishes, or published last
  half,     \* terminals that have set the first price of a quote only
  skipped,  \* terminals that have not put a price of a quote
  seen      \* what was read last: by whom, which pair, first and second price

priceVars == <<loaded, handles, content, quote, half, skipped, seen>>

Holders(f) == IF f[1] \in Segment THEN loaded ELSE handles[f]

NotRead == [by |-> Nothing, pair |-> Nothing, first |-> Nothing, second |-> Nothing]

PricesTypeOK ==
  /\ loaded \in SUBSET Terminal /\ handles \in [File -> SUBSET loaded]
  /\ content \in [File -> Price]
  /\ quote \in [Terminal -> Nat] /\ \A t \in Terminal : quote[t] <= MaxQuote[t]
  /\ \A f \in File : content[f] # Nothing => Holders(f) # {}
  /\ half \in SUBSET loaded /\ skipped \in SUBSET Terminal
  /\ seen \in [by : loaded \cup {Nothing}, pair : Pair \cup {Nothing},
              first : Price \cup {Stray}, second : Price \cup {Stray}]

PricesInit ==
  /\ loaded = {} /\ handles = [f \in File |-> {}]
  /\ content = [f \in File |-> Nothing]
  /\ quote = [t \in Terminal |-> 0] /\ half = {} /\ skipped = {}
  /\ seen = NotRead

-----------------------------------------------------------------------------
Load(t) ==
  /\ t \notin loaded /\ loaded' = loaded \cup {t}
  /\ UNCHANGED <<handles, content, quote, half, skipped, seen>>

(* CreateFileMapping gives a handle of the mapping that is there, if one   *)
(* is, with its content.                                                   *)
InitShared(t, p) ==
  /\ t \in loaded /\ p[1] \in Table
  /\ handles' = IF p[2] \in Fitting THEN [handles EXCEPT ![FileName[p]] = @ \cup {t}]
                ELSE handles
  /\ UNCHANGED <<loaded, content, quote, half, skipped, seen>>

(* CloseShared* closes nothing.                                            *)
CloseShared(t) == t \in loaded /\ UNCHANGED priceVars

(* The process ends; a mapping nobody has a handle of goes away.           *)
Exit(t) ==
  /\ t \in loaded /\ loaded' = loaded \ {t}
  /\ handles' = [f \in File |-> handles[f] \ {t}]
  /\ content' = [f \in File |-> IF Holders(f) \subseteq {t} THEN Nothing ELSE content[f]]
  /\ half' = half \ {t} /\ skipped' = skipped \cup (half \cap {t})
  /\ seen' = IF seen.by = t THEN NotRead ELSE seen
  /\ UNCHANGED quote

(* SetShared* and SetEA*.  Nothing happens when the mapping is not there;  *)
(* when it is, no view of it may be had.                                   *)
IsThere(f) == Holders(f) # {}

(* Mutant: a terminal sets the price where it holds a handle itself.       *)
PutOwn(t, p, v) ==
  \E viewed \in BOOLEAN :
    /\ content' = IF /\ viewed /\ p[2] \in Fitting
                     /\ p[1] \in Segment \/ t \in handles[FileName[p]]
                  THEN [content EXCEPT ![FileName[p]] = v] ELSE content
    /\ skipped' = IF viewed THEN skipped ELSE skipped \cup {t}

Put(t, p, v) ==
  \E viewed \in BOOLEAN :
    /\ content' = IF viewed /\ p[2] \in Fitting /\ IsThere(FileName[p])
                  THEN [content EXCEPT ![FileName[p]] = v] ELSE content
    /\ skipped' = IF viewed THEN skipped ELSE skipped \cup {t}

SetFirst(t) ==
  /\ t \in loaded \ half /\ quote[t] < MaxQuote[t] /\ half' = half \cup {t}
  /\ quote' = [quote EXCEPT ![t] = @ + 1]
  /\ Put(t, Feed[t][1], <<t, quote'[t], 1>>)
  /\ UNCHANGED <<loaded, handles, seen>>

SetSecond(t) ==
  /\ t \in half /\ half' = half \ {t} /\ Put(t, Feed[t][2], <<t, quote[t], 2>>)
  /\ UNCHANGED <<loaded, handles, quote, seen>>

(* GetShared* and GetEA*; CalPriceDistance reads EAFastBid and EASlowBid.  *)
(* Without a mapping, or a view of it, there is no price.                  *)
Gets(p) == IF p[2] \in Fitting THEN {content[FileName[p]], Nothing} ELSE {Stray, Nothing}

GetFirst(t, pp) ==
  /\ t \in loaded
  /\ \E v \in Gets(pp[1]) :
       seen' = [by |-> t, pair |-> pp, first |-> v, second |-> Nothing]
  /\ UNCHANGED <<loaded, handles, content, quote, half, skipped>>

GetSecond ==
  /\ seen.by \in loaded /\ seen.second = Nothing
  /\ \E v \in Gets(seen.pair[2]) : seen' = [seen EXCEPT !.second = v]
  /\ UNCHANGED <<loaded, handles, content, quote, half, skipped>>

PricesNext ==
  \/ GetSecond
  \/ \E t \in Terminal :
       \/ Load(t) \/ Exit(t) \/ CloseShared(t) \/ SetFirst(t) \/ SetSecond(t)
       \/ \E p \in Place : InitShared(t, p)
       \/ \E pp \in Pair : GetFirst(t, pp)

PricesSpec == PricesInit /\ [][PricesNext]_priceVars

-----------------------------------------------------------------------------
(* Whatever terminals come and go, and whoever has made a mapping and      *)
(* whoever keeps it: of two prices of one publisher, the one read second   *)
(* is at most one quote older than the one read first, although the        *)
(* publisher may set and the reader may read between the two calls         *)
(* (EAClient.cpp:193-311, 313-439).  Named exceptions: a publisher that    *)
(* ended between its two calls, or could not view the mapping, and a       *)
(* symbol that overruns symbol[10] (EAClient.cpp:107).  How old both are   *)
(* nobody can tell: they stay as long as a process has a handle.           *)
QuotesTogether ==
  LET v == seen.first
      w == seen.second IN
  v \in Quote /\ w \in Quote /\ v[1] = w[1] /\ v[1] \notin skipped => w[2] + 1 >= v[2]
=============================================================================
