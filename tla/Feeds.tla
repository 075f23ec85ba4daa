--------------------------------- MODULE Feeds ---------------------------------
(***************************************************************************)
(* A market's part of the daily run over its two feeds: the prices, the    *)
(* warning of a fallback, the news gate, and the refresh of the headlines  *)
(* that the loop makes after a run.  The daemon and a run from the command *)
(* line are processes of their own over one cache file.                    *)
(*                                                                         *)
(* One market: a run takes its markets one after the other, and each has a *)
(* file and a label of its own.  What the run does with a market that the  *)
(* gate lets through is DailyRun's.                                        *)
(***************************************************************************)
EXTENDS PriceFeed, NewsFeed

CONSTANTS
  Loops,              \* the processes that run the scheduler's loop
  MaxRuns             \* bound: runs begun

ASSUME FeedsAssumption == Loops \subseteq Procs /\ MaxRuns \in Nat

VARIABLES
  pc,
  warned,             \* pending_warnings has the fallback
  verdict,            \* what the gate of the run said
  runs

runVars == <<pc, warned, verdict>>
vars == <<priceVars, newsVars, runVars, runs>>

Statuses == {"none", "clear", "blocked", "unknown"}

TypeOK ==
  /\ PriceTypeOK /\ NewsTypeOK
  /\ pc \in [Procs -> {"idle", "prices", "gate", "work", "refresh"}]
  /\ warned \in [Procs -> BOOLEAN]
  /\ verdict \in [Procs -> Statuses] /\ runs \in 0..MaxRuns

Init ==
  /\ PriceInit /\ NewsInit
  /\ pc = [p \in Procs |-> "idle"] /\ warned = [p \in Procs |-> FALSE]
  /\ verdict = [p \in Procs |-> "none"] /\ runs = 0

Goto(p, where) == pc' = [pc EXCEPT ![p] = where]

\* The market's turn comes.
StartRun(p) ==
  /\ pc[p] = "idle" /\ runs < MaxRuns
  /\ runs' = runs + 1 /\ Goto(p, "prices")
  /\ FetchPrices(p)
  /\ UNCHANGED <<newsVars, warned, verdict>>

\* A run that is over, well or not, leaves the cache and the label.
EndRun(p) ==
  /\ Goto(p, "idle") /\ PriceDone(p, "none")
  /\ warned' = [warned EXCEPT ![p] = FALSE]
  /\ verdict' = [verdict EXCEPT ![p] = "none"]
  /\ fetched' = [fetched EXCEPT ![p] = 0] /\ loose' = loose \ {p}
  /\ UNCHANGED <<today, cache, said, runs>>

Pricing(p) ==
  /\ pc[p] = "prices" /\ PriceStep(p)
  /\ UNCHANGED <<newsVars, runVars, runs>>

\* DataFetchError or worse; or a frame that is too short.
PricesFail(p) ==
  /\ pc[p] = "prices" /\ price[p] \in {"failed", "framed"}
  /\ EndRun(p)
  /\ UNCHANGED fetching

\* The warning of a fallback, and the gate's fetch.
Priced(p) ==
  /\ pc[p] = "prices" /\ price[p] = "framed"
  /\ warned' = [warned EXCEPT ![p] = source[p] = "yfinance_fallback"]
  /\ PriceDone(p, frame[p]) /\ Goto(p, "gate") /\ FetchNews(p, "gate")
  /\ UNCHANGED <<today, cache, said, fetched, loose,
                 verdict, runs>>

Feeding(p) ==
  /\ NewsStep(p)
  /\ UNCHANGED <<priceVars, runVars, runs>>

\* has_critical_event: what is not known blocks.
Status(result) ==
  IF result.error THEN "unknown"
  ELSE IF result.items \cap Critical # {} THEN "blocked" ELSE "clear"

\* "blocked" and "unknown" skip the market; the run goes on in either case.
Gate(p) ==
  /\ news[p] = "done" /\ job[p] = "gate"
  /\ verdict' = [verdict EXCEPT ![p] = Status(hand[p])]
  /\ NewsOff(p) /\ Goto(p, "work")
  /\ UNCHANGED <<priceVars, today, cache, said, fetched, loose,
                 warned, runs>>

\* The rest of the run fails, or is not the loop's: no refresh.
Finish(p) ==
  /\ pc[p] = "work"
  /\ EndRun(p)
  /\ UNCHANGED fetching

\* _refresh_news_cache_all_markets, after a run of the loop that succeeded.
Refresh(p) ==
  /\ pc[p] = "work" /\ p \in Loops
  /\ Goto(p, "refresh") /\ FetchNews(p, "refresh")
  /\ UNCHANGED <<priceVars, today, cache, said, fetched, loose,
                 warned, verdict, runs>>

Refreshed(p) ==
  /\ pc[p] = "refresh" /\ news[p] = "off"
  /\ EndRun(p)
  /\ UNCHANGED fetching

NextDay == Midnight /\ UNCHANGED <<priceVars, runVars, runs>>

Work(p) ==
  \/ Pricing(p) \/ PricesFail(p) \/ Priced(p)
  \/ Feeding(p) \/ Gate(p) \/ Finish(p) \/ Refresh(p) \/ Refreshed(p)

Next ==
  \/ \E p \in Procs : StartRun(p) \/ Work(p)
  \/ NextDay

Spec == Init /\ [][Next]_vars

\* A run that has begun goes on; every request has a timeout.
FairSpec == Spec /\ \A p \in Procs : WF_vars(Work(p))

-----------------------------------------------------------------------------
FailsClosed ==
  \A p \in Procs : verdict[p] # "clear" /\ verdict'[p] = "clear" =>
    /\ hand[p].nr > 0
    /\ said[hand[p].nr].items \cap Critical = {}
    /\ hand[p].sure /\ p \notin loose => said[hand[p].nr].day = today

\* The gate lets a market through only on headlines the service gave that day,
\* none of them critical: no answer and no file will do, and no other day's file
\* unless midnight or another process came between, or the process failed to
\* write a file of its own in this run.
GateFailsClosed == [][FailsClosed]_vars

\* A market that was to be priced by IG is not traded on Yahoo's prices without
\* a warning in the run.
NoSilentFallback ==
  \A p \in Procs : pc[p] \in {"gate", "work", "refresh"} =>
    (warned[p] <=> setup[p].key /\ frame[p] = "yahoo")

\* Whatever the two services answer, a run comes to its end.
RunEnds == \A p \in Procs : (pc[p] # "idle") ~> (pc[p] = "idle")
=============================================================================
