------------------------------ MODULE PriceFeed ------------------------------
(***************************************************************************)
(* One price fetch of a process (data_fetcher.py): IG with a session that  *)
(* is renewed once after a 403, else Yahoo, and the label that says where  *)
(* the prices came from.  Each action is a request and the reading of its  *)
(* answer; prices, headers and waiting times are left out.                 *)
(***************************************************************************)
EXTENDS Integers, Processes

CONSTANTS
  Retries,        \* of fetch_ohlcv, for IG and again for Yahoo
  Setups          \* what a process's environment and the symbol may offer

ASSUME PriceFeedAssumption ==
  /\ Retries \in Nat \ {0}
  /\ Setups \subseteq [Procs -> [key: BOOLEAN, epic: BOOLEAN]]

VARIABLES
  setup,          \* of a process: IG_API_KEY is set; the symbol has an ig_epic
  price,          \* where the fetch of a process stands
  tries,          \* attempts used up, of IG or of Yahoo
  renewed,        \* re_authed
  source,         \* LAST_FETCH_SOURCE[symbol]
  frame,          \* history: who answered with the frame in hand
  asked           \* history: price requests to IG with each session

priceVars == <<setup, price, tries, renewed, source, frame, asked>>

PricePhases == {"off", "session", "prices", "renew", "yahoo", "framed", "failed"}
Sources == {"none", "ig", "yfinance", "yfinance_fallback"}

PriceTypeOK ==
  /\ setup \in Setups
  /\ price \in [Procs -> PricePhases]
  /\ tries \in [Procs -> 0..Retries] /\ renewed \in [Procs -> BOOLEAN]
  /\ source \in [Procs -> Sources] /\ frame \in [Procs -> {"none", "ig", "yahoo"}]
  /\ asked \in [Procs -> [1..2 -> 0..(Retries + 1)]]

PriceInit ==
  /\ setup \in Setups
  /\ price = [p \in Procs |-> "off"] /\ tries = [p \in Procs |-> 0]
  /\ renewed = [p \in Procs |-> FALSE]
  /\ source = [p \in Procs |-> "none"] /\ frame = [p \in Procs |-> "none"]
  /\ asked = [p \in Procs |-> [s \in 1..2 |-> 0]]

PriceGoto(p, phase) == price' = [price EXCEPT ![p] = phase]

Labelled(p, label) == source' = [source EXCEPT ![p] = label]

\* The label when fetch_ohlcv has looked at the key and the epic.
FirstLabel(p) ==
  IF setup[p].key THEN IF setup[p].epic THEN "none" ELSE "yfinance_fallback"
  ELSE "yfinance"

\* fetch_ohlcv, up to its first request.
FetchPrices(p) ==
  /\ PriceGoto(p, IF setup[p].key /\ setup[p].epic THEN "session" ELSE "yahoo")
  /\ Labelled(p, FirstLabel(p))
  /\ tries' = [tries EXCEPT ![p] = 0] /\ renewed' = [renewed EXCEPT ![p] = FALSE]
  /\ frame' = [frame EXCEPT ![p] = "none"]
  /\ asked' = [asked EXCEPT ![p] = [s \in 1..2 |-> 0]]
  /\ UNCHANGED setup

\* Mutant: IG is given up without a label.
FallBackSilently(p) ==
  /\ PriceGoto(p, "yahoo") /\ UNCHANGED source
  /\ tries' = [tries EXCEPT ![p] = 0]

\* _fetch_via_ig returned None.
FallBack(p) ==
  /\ PriceGoto(p, "yahoo") /\ Labelled(p, "yfinance_fallback")
  /\ tries' = [tries EXCEPT ![p] = 0]

\* DataFetchError, or what no except clause names: a session without a token,
\* a body that is no JSON, a candle without a side.
PriceFails(p) == PriceGoto(p, "failed") /\ UNCHANGED <<tries, source>>

\* POST /session, the first time: any error it names ends the attempt on IG.
OpenSession(p) ==
  /\ price[p] = "session"
  /\ \/ PriceGoto(p, "prices") /\ UNCHANGED <<tries, source>>
     \/ FallBack(p)
     \/ PriceFails(p)
  /\ UNCHANGED <<setup, renewed, frame, asked>>

\* An attempt that failed and may be repeated.
Attempted(p) ==
  IF tries[p] + 1 = Retries THEN FallBack(p)
  ELSE tries' = [tries EXCEPT ![p] = @ + 1] /\ UNCHANGED <<price, source>>

\* Mutant: a 403 uses up its attempt.
ForbiddenCounted(p) ==
  IF renewed[p] THEN Attempted(p)
  ELSE PriceGoto(p, "renew") /\ tries' = [tries EXCEPT ![p] = @ + 1] /\ UNCHANGED source

\* A 403 on prices renews the session once and gives the attempt back.
Forbidden(p) ==
  IF renewed[p] THEN Attempted(p)
  ELSE PriceGoto(p, "renew") /\ UNCHANGED <<tries, source>>

\* GET /prices: a frame, candles without a time, a 403, another error.
AskPrices(p) ==
  /\ price[p] = "prices"
  /\ asked' = [asked EXCEPT ![p][IF renewed[p] THEN 2 ELSE 1] = @ + 1]
  /\ \/ /\ PriceGoto(p, "framed") /\ Labelled(p, "ig")
        /\ frame' = [frame EXCEPT ![p] = "ig"] /\ UNCHANGED tries
     \/ (FallBack(p) \/ Forbidden(p) \/ Attempted(p) \/ PriceFails(p)) /\ UNCHANGED frame
  /\ UNCHANGED <<setup, renewed>>

\* POST /session again, then the head of the loop.
RenewSession(p) ==
  /\ price[p] = "renew"
  /\ \/ /\ renewed' = [renewed EXCEPT ![p] = TRUE]
        /\ IF tries[p] < Retries THEN PriceGoto(p, "prices") /\ UNCHANGED <<tries, source>>
           ELSE FallBack(p)
     \/ (FallBack(p) \/ PriceFails(p)) /\ UNCHANGED renewed
  /\ UNCHANGED <<setup, frame, asked>>

\* Ticker.history: a frame, nothing or a transient error, missing columns.
AskYahoo(p) ==
  /\ price[p] = "yahoo"
  /\ \/ /\ PriceGoto(p, "framed") /\ frame' = [frame EXCEPT ![p] = "yahoo"]
        /\ UNCHANGED <<tries, source>>
     \/ /\ IF tries[p] + 1 = Retries THEN PriceFails(p)
           ELSE tries' = [tries EXCEPT ![p] = @ + 1] /\ UNCHANGED <<price, source>>
        /\ UNCHANGED frame
     \/ PriceFails(p) /\ UNCHANGED frame
  /\ UNCHANGED <<setup, renewed, asked>>

PriceStep(p) == OpenSession(p) \/ AskPrices(p) \/ RenewSession(p) \/ AskYahoo(p)

\* fetch_ohlcv returns or raises; the label stays until the next fetch.
PriceDone(p, kept) ==
  /\ PriceGoto(p, "off")
  /\ tries' = [tries EXCEPT ![p] = 0] /\ renewed' = [renewed EXCEPT ![p] = FALSE]
  /\ frame' = [frame EXCEPT ![p] = kept]
  /\ asked' = [asked EXCEPT ![p] = [s \in 1..2 |-> 0]]
  /\ UNCHANGED <<setup, source>>

-----------------------------------------------------------------------------
\* The label says where the frame came from, and that IG was to be asked.
LabelIsTrue ==
  \A p \in Procs : price[p] = "framed" =>
    /\ (source[p] = "ig") <=> (frame[p] = "ig")
    /\ (source[p] = "yfinance_fallback") <=> (frame[p] = "yahoo" /\ setup[p].key)

\* However often IG answers 403, a fetch asks it for prices at most once more
\* than its retries, and a session that was renewed is used before IG is given up.
RenewalIsUsed ==
  \A p \in Procs :
    /\ asked[p][1] + asked[p][2] <= Retries + 1
    /\ renewed[p] /\ price[p] = "yahoo" => asked[p][2] > 0
=============================================================================
