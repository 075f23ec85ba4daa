----------------------------- MODULE FeedsProofs ------------------------------
(***************************************************************************)
(* Theorems about Feeds, for every set of processes and headlines, every   *)
(* number of retries, and every bound.                                     *)
(*                                                                         *)
(* The prices: Fetch says, phase by phase, how many requests a fetch has   *)
(* made for the attempts it counts.  The news: a result is true of the     *)
(* answer it came from, and of its day while its process is not loose;     *)
(* what a process that is not loose holds is no older than the file.       *)
(***************************************************************************)
EXTENDS Feeds, TLAPS

-----------------------------------------------------------------------------
(* The prices.                                                              *)

Requests(p) == asked[p][1] + asked[p][2]

\* The attempts that are counted, and the requests made for them.
Fetch(p) ==
  /\ price[p] = "session" => ~renewed[p] /\ asked[p][1] = 0 /\ asked[p][2] = 0 /\ tries[p] = 0
  /\ price[p] = "prices" /\ ~renewed[p] => asked[p][1] = tries[p] /\ asked[p][2] = 0
  /\ price[p] = "renew" => ~renewed[p] /\ asked[p][1] = tries[p] + 1 /\ asked[p][2] = 0
  /\ price[p] = "prices" /\ renewed[p] => Requests(p) = tries[p] + 1
  /\ price[p] = "yahoo" /\ renewed[p] => asked[p][2] > 0
  /\ Requests(p) <= Retries + 1

\* What the label says before there is a frame, and of the frame.
Label(p) ==
  /\ price[p] \in {"session", "prices", "renew"} => setup[p].key
  /\ price[p] = "yahoo" => /\ source[p] # "ig"
                           /\ source[p] = "yfinance_fallback" <=> setup[p].key
  /\ price[p] = "framed" => /\ source[p] = "ig" <=> frame[p] = "ig"
                            /\ source[p] = "yfinance_fallback" <=> frame[p] = "yahoo" /\ setup[p].key

PriceTyped ==
  /\ setup \in [Procs -> [key: BOOLEAN, epic: BOOLEAN]] /\ setup \in Setups
  /\ price \in [Procs -> PricePhases] /\ tries \in [Procs -> 0..(Retries - 1)]
  /\ renewed \in [Procs -> BOOLEAN] /\ source \in [Procs -> Sources]
  /\ frame \in [Procs -> {"none", "ig", "yahoo"}] /\ asked \in [Procs -> [1..2 -> Nat]]

PriceInv == PriceTyped /\ \A p \in Procs : Fetch(p) /\ Label(p)

\* One fetch, without the others.
Alone(p) ==
  \A q \in Procs \ {p} :
    /\ price'[q] = price[q] /\ tries'[q] = tries[q] /\ renewed'[q] = renewed[q]
    /\ source'[q] = source[q] /\ frame'[q] = frame[q] /\ asked'[q] = asked[q]

LEMMA PriceAlone ==
  ASSUME PriceInv, NEW p \in Procs, setup' = setup, PriceTyped', Alone(p), Fetch(p)', Label(p)'
  PROVE  PriceInv'
<1>1. ASSUME NEW q \in Procs \ {p} PROVE Fetch(q)' /\ Label(q)'
  BY <1>1 DEF PriceInv, Alone, Fetch, Label, Requests
<1> QED BY <1>1 DEF PriceInv

LEMMA PriceInitInv == PriceInit => PriceInv
<1> SUFFICES ASSUME PriceInit PROVE PriceInv
  OBVIOUS
<1>1. Retries \in Nat \ {0} /\ 0 \in 0..(Retries - 1)
  BY PriceFeedAssumption
<1>2. PriceTyped
  BY <1>1, PriceFeedAssumption DEF PriceInit, PriceTyped, PricePhases, Sources
<1>3. ASSUME NEW p \in Procs PROVE Fetch(p) /\ Label(p)
  BY <1>1, <1>3 DEF PriceInit, Fetch, Label, Requests
<1> QED BY <1>2, <1>3 DEF PriceInv

LEMMA PriceImplies ==
  PriceInv => PriceTypeOK /\ LabelIsTrue /\ RenewalIsUsed
<1> SUFFICES ASSUME PriceInv PROVE PriceTypeOK /\ LabelIsTrue /\ RenewalIsUsed
  OBVIOUS
<1>r. Retries \in Nat \ {0}
  BY PriceFeedAssumption
<1>1. ASSUME NEW p \in Procs PROVE asked[p] \in [1..2 -> 0..(Retries + 1)]
  <2>1. asked[p] \in [1..2 -> Nat] /\ asked[p][1] + asked[p][2] <= Retries + 1
    BY DEF PriceInv, PriceTyped, Fetch, Requests
  <2>2. asked[p][1] \in 0..(Retries + 1) /\ asked[p][2] \in 0..(Retries + 1)
    BY <1>r, <2>1
  <2>3. \A s \in 1..2 : s = 1 \/ s = 2
    OBVIOUS
  <2> QED BY <2>1, <2>2, <2>3
<1>2. asked \in [Procs -> [1..2 -> 0..(Retries + 1)]]
  BY <1>1 DEF PriceInv, PriceTyped
<1>3. tries \in [Procs -> 0..Retries]
  BY <1>r DEF PriceInv, PriceTyped
<1>4. PriceTypeOK
  BY <1>2, <1>3 DEF PriceInv, PriceTyped, PriceTypeOK
<1>5. LabelIsTrue /\ RenewalIsUsed
  BY DEF PriceInv, LabelIsTrue, RenewalIsUsed, Fetch, Label, Requests
<1> QED BY <1>4, <1>5

LEMMA FetchPricesInv ==
  ASSUME PriceInv, NEW p \in Procs, FetchPrices(p) PROVE PriceInv'
<1>r. Retries \in Nat \ {0} /\ 0 \in 0..(Retries - 1)
  BY PriceFeedAssumption
<1>l. FirstLabel(p) \in {"none", "yfinance", "yfinance_fallback"}
  BY DEF FirstLabel
<1>1. PriceTyped'
  BY <1>r, <1>l DEF PriceInv, PriceTyped, FetchPrices, PriceGoto, Labelled, PricePhases, Sources
<1>2. Alone(p)
  BY DEF PriceInv, PriceTyped, FetchPrices, PriceGoto, Labelled, Alone
<1>3. Fetch(p)' /\ Label(p)'
  BY <1>r DEF PriceInv, PriceTyped, FetchPrices, PriceGoto, Labelled, Fetch, Label, Requests, FirstLabel
<1> QED BY <1>1, <1>2, <1>3, PriceAlone DEF FetchPrices

LEMMA PriceDoneInv ==
  ASSUME PriceInv, NEW p \in Procs, NEW kept \in {"none", "ig", "yahoo"}, PriceDone(p, kept)
  PROVE  PriceInv'
<1>r. Retries \in Nat \ {0} /\ 0 \in 0..(Retries - 1)
  BY PriceFeedAssumption
<1>1. PriceTyped'
  BY <1>r DEF PriceInv, PriceTyped, PriceDone, PriceGoto, PricePhases
<1>2. Alone(p)
  BY DEF PriceInv, PriceTyped, PriceDone, PriceGoto, Alone
<1>3. Fetch(p)' /\ Label(p)'
  BY <1>r DEF PriceInv, PriceTyped, PriceDone, PriceGoto, Fetch, Label, Requests
<1> QED BY <1>1, <1>2, <1>3, PriceAlone DEF PriceDone

\* What the ways out of an attempt leave.
Out(p) ==
  \/ price' = [price EXCEPT ![p] = "yahoo"] /\ source' = [source EXCEPT ![p] = "yfinance_fallback"]
     /\ tries' = [tries EXCEPT ![p] = 0]
  \/ price' = [price EXCEPT ![p] = "failed"] /\ UNCHANGED <<tries, source>>

LEMMA OutInv ==
  ASSUME PriceInv, NEW p \in Procs, setup[p].key, Out(p), setup' = setup, renewed' = renewed,
         frame' = frame, asked' \in [Procs -> [1..2 -> Nat]],
         \A q \in Procs \ {p} : asked'[q] = asked[q],
         Requests(p)' <= Retries + 1, renewed[p] => asked'[p][2] > 0
  PROVE  PriceInv'
<1>r. Retries \in Nat \ {0} /\ 0 \in 0..(Retries - 1)
  BY PriceFeedAssumption
<1>1. PriceTyped'
  <2>1. PriceTyped
    BY DEF PriceInv
  <2>2. price' \in [Procs -> PricePhases] /\ tries' \in [Procs -> 0..(Retries - 1)]
        /\ source' \in [Procs -> Sources]
    <3>1. CASE price' = [price EXCEPT ![p] = "yahoo"] /\ tries' = [tries EXCEPT ![p] = 0]
               /\ source' = [source EXCEPT ![p] = "yfinance_fallback"]
      BY <1>r, <2>1, <3>1 DEF PriceTyped, PricePhases, Sources
    <3>2. CASE price' = [price EXCEPT ![p] = "failed"] /\ UNCHANGED <<tries, source>>
      BY <2>1, <3>2 DEF PriceTyped, PricePhases
    <3> QED BY <3>1, <3>2 DEF Out
  <2> QED BY <2>1, <2>2 DEF PriceTyped
<1>2. Alone(p)
  BY DEF PriceInv, PriceTyped, Out, Alone
<1>3. Fetch(p)' /\ Label(p)'
  BY DEF PriceInv, PriceTyped, Out, Fetch, Label
<1> QED BY <1>1, <1>2, <1>3, PriceAlone

LEMMA PriceStepInv ==
  ASSUME PriceInv, NEW p \in Procs, PriceStep(p) PROVE PriceInv'
<1>r. Retries \in Nat \ {0} /\ 0 \in 0..(Retries - 1)
  BY PriceFeedAssumption
<1>t. /\ PriceTyped /\ Fetch(p) /\ Label(p) /\ tries[p] \in 0..(Retries - 1)
      /\ asked[p] \in [1..2 -> Nat] /\ asked[p][1] \in Nat /\ asked[p][2] \in Nat
  BY DEF PriceInv, PriceTyped
<1>1. CASE OpenSession(p)
  <2>1. CASE FallBack(p) \/ PriceFails(p)
    <3>1. Out(p) /\ setup[p].key /\ Requests(p)' <= Retries + 1 /\ ~renewed[p]
      BY <1>1, <1>r, <1>t, <2>1 DEF OpenSession, FallBack, PriceFails, PriceGoto, Labelled, Out,
           Fetch, Label, Requests
    <3> QED BY <1>1, <1>t, <3>1, OutInv DEF OpenSession, PriceTyped
  <2>2. CASE PriceGoto(p, "prices") /\ UNCHANGED <<tries, source>>
    <3>1. PriceTyped' /\ Alone(p)
      BY <1>1, <1>t, <2>2 DEF OpenSession, PriceGoto, PriceTyped, PricePhases, Alone
    <3>2. Fetch(p)' /\ Label(p)'
      BY <1>1, <1>t, <2>2 DEF OpenSession, PriceGoto, PriceTyped, Fetch, Label, Requests
    <3> QED BY <1>1, <3>1, <3>2, PriceAlone DEF OpenSession
  <2> QED BY <1>1, <2>1, <2>2 DEF OpenSession
<1>2. CASE AskPrices(p)
  <2> DEFINE s == IF renewed[p] THEN 2 ELSE 1
             more == [asked[p] EXCEPT ![s] = asked[p][s] + 1]
  <2>1. s \in 1..2 /\ more \in [1..2 -> Nat]
    BY <1>t
  <2>2. asked' = [asked EXCEPT ![p] = more]
    BY <1>2, <1>t DEF AskPrices, PriceTyped
  <2>3. /\ more[1] = IF renewed[p] THEN asked[p][1] ELSE asked[p][1] + 1
        /\ more[2] = IF renewed[p] THEN asked[p][2] + 1 ELSE asked[p][2]
    BY <1>t
  <2> HIDE DEF more, s
  <2>4. /\ asked' \in [Procs -> [1..2 -> Nat]] /\ asked'[p] = more
        /\ \A q \in Procs \ {p} : asked'[q] = asked[q]
    BY <1>t, <2>1, <2>2 DEF PriceTyped
  <2>5. Requests(p)' = IF renewed[p] THEN tries[p] + 2 ELSE tries[p] + 1
    BY <1>2, <1>t, <2>3, <2>4 DEF AskPrices, Fetch, Requests
  <2>6. Requests(p)' <= Retries + 1 /\ (renewed[p] => asked'[p][2] > 0) /\ setup[p].key
    BY <1>2, <1>r, <1>t, <2>3, <2>4, <2>5 DEF AskPrices, Label
  <2>7. setup' = setup /\ renewed' = renewed /\ price[p] = "prices"
    BY <1>2 DEF AskPrices
  <2>8. CASE Out(p) /\ UNCHANGED frame
    BY <2>4, <2>6, <2>7, <2>8, OutInv
  <2>9. CASE /\ PriceGoto(p, "framed") /\ Labelled(p, "ig")
             /\ frame' = [frame EXCEPT ![p] = "ig"] /\ UNCHANGED tries
    <3>1. PriceTyped' /\ Alone(p)
      BY <1>t, <2>4, <2>7, <2>9 DEF PriceGoto, Labelled, PriceTyped, PricePhases, Sources, Alone
    <3>2. Fetch(p)' /\ Label(p)'
      BY <1>t, <2>6, <2>9 DEF PriceGoto, Labelled, PriceTyped, Fetch, Label
    <3> QED BY <2>7, <3>1, <3>2, PriceAlone
  <2>10. CASE /\ tries[p] + 1 # Retries
              /\ tries' = [tries EXCEPT ![p] = tries[p] + 1] /\ UNCHANGED <<price, source, frame>>
    <3>1. tries[p] + 1 \in 0..(Retries - 1)
      BY <1>r, <1>t, <2>10
    <3>2. PriceTyped' /\ Alone(p)
      BY <1>t, <2>4, <2>7, <2>10, <3>1 DEF PriceTyped, Alone
    <3>3. Fetch(p)' /\ Label(p)'
      BY <1>t, <2>3, <2>4, <2>5, <2>6, <2>7, <2>10 DEF PriceTyped, Fetch, Label
    <3> QED BY <2>7, <3>2, <3>3, PriceAlone
  <2>11. CASE /\ ~renewed[p] /\ PriceGoto(p, "renew") /\ UNCHANGED <<tries, source, frame>>
    <3>1. PriceTyped' /\ Alone(p)
      BY <1>t, <2>4, <2>7, <2>11 DEF PriceGoto, PriceTyped, PricePhases, Alone
    <3>2. Fetch(p)' /\ Label(p)'
      BY <1>2, <1>t, <2>3, <2>4, <2>6, <2>7, <2>11 DEF PriceGoto, PriceTyped, Fetch, Label
    <3> QED BY <2>7, <3>1, <3>2, PriceAlone
  <2>12. Attempted(p) => \/ Out(p)
                         \/ /\ tries[p] + 1 # Retries
                            /\ tries' = [tries EXCEPT ![p] = tries[p] + 1] /\ UNCHANGED <<price, source>>
    BY DEF Attempted, FallBack, Out, PriceGoto, Labelled
  <2>13. FallBack(p) \/ PriceFails(p) => Out(p)
    BY DEF FallBack, PriceFails, Out, PriceGoto, Labelled
  <2>14. Forbidden(p) => Attempted(p) \/ (~renewed[p] /\ PriceGoto(p, "renew") /\ UNCHANGED <<tries, source>>)
    BY DEF Forbidden
  <2> QED BY <1>2, <2>8, <2>9, <2>10, <2>11, <2>12, <2>13, <2>14 DEF AskPrices
<1>3. CASE RenewSession(p)
  <2>1. setup' = setup /\ frame' = frame /\ asked' = asked /\ price[p] = "renew" /\ tries[p] < Retries
    BY <1>3, <1>r, <1>t DEF RenewSession
  <2>2. CASE Out(p) /\ UNCHANGED renewed
    <3>1. setup[p].key /\ Requests(p)' <= Retries + 1 /\ ~renewed[p]
      BY <1>t, <2>1 DEF Fetch, Label, Requests
    <3> QED BY <1>t, <2>1, <2>2, <3>1, OutInv DEF PriceTyped
  <2>3. CASE /\ renewed' = [renewed EXCEPT ![p] = TRUE]
             /\ PriceGoto(p, "prices") /\ UNCHANGED <<tries, source>>
    <3>1. PriceTyped' /\ Alone(p)
      BY <1>t, <2>1, <2>3 DEF PriceGoto, PriceTyped, PricePhases, Alone
    <3>2. Fetch(p)' /\ Label(p)'
      BY <1>t, <2>1, <2>3 DEF PriceGoto, PriceTyped, Fetch, Label, Requests
    <3> QED BY <2>1, <3>1, <3>2, PriceAlone
  <2>4. FallBack(p) \/ PriceFails(p) => Out(p)
    BY DEF FallBack, PriceFails, Out, PriceGoto, Labelled
  <2> QED BY <1>3, <2>1, <2>2, <2>3, <2>4 DEF RenewSession
<1>4. CASE AskYahoo(p)
  <2>1. setup' = setup /\ renewed' = renewed /\ asked' = asked /\ price[p] = "yahoo"
    BY <1>4 DEF AskYahoo
  <2>2. CASE PriceGoto(p, "framed") /\ frame' = [frame EXCEPT ![p] = "yahoo"] /\ UNCHANGED <<tries, source>>
    <3>1. PriceTyped' /\ Alone(p)
      BY <1>t, <2>1, <2>2 DEF PriceGoto, PriceTyped, PricePhases, Alone
    <3>2. Fetch(p)' /\ Label(p)'
      BY <1>t, <2>1, <2>2 DEF PriceGoto, PriceTyped, Fetch, Label, Requests
    <3> QED BY <2>1, <3>1, <3>2, PriceAlone
  <2>3. CASE /\ tries[p] + 1 # Retries /\ tries' = [tries EXCEPT ![p] = tries[p] + 1]
             /\ UNCHANGED <<price, source, frame>>
    <3>1. tries[p] + 1 \in 0..(Retries - 1)
      BY <1>r, <1>t, <2>3
    <3>2. PriceTyped' /\ Alone(p)
      BY <1>t, <2>1, <2>3, <3>1 DEF PriceTyped, Alone
    <3>3. Fetch(p)' /\ Label(p)'
      BY <1>t, <2>1, <2>3 DEF PriceTyped, Fetch, Label, Requests
    <3> QED BY <2>1, <3>2, <3>3, PriceAlone
  <2>4. CASE PriceFails(p) /\ UNCHANGED frame
    <3>1. PriceTyped' /\ Alone(p)
      BY <1>t, <2>1, <2>4 DEF PriceFails, PriceGoto, PriceTyped, PricePhases, Alone
    <3>2. Fetch(p)' /\ Label(p)'
      BY <1>t, <2>1, <2>4 DEF PriceFails, PriceGoto, PriceTyped, Fetch, Label, Requests
    <3> QED BY <2>1, <3>1, <3>2, PriceAlone
  <2> QED BY <1>4, <2>2, <2>3, <2>4 DEF AskYahoo
<1> QED BY <1>1, <1>2, <1>3, <1>4 DEF PriceStep

-----------------------------------------------------------------------------
(* The news. *)

NewsTyped ==
  /\ today \in Days /\ cache \in Files \cup {Absent}
  /\ news \in [Procs -> NewsPhases] /\ job \in [Procs -> {"none", "gate", "refresh"}]
  /\ asks \in [Procs -> 0..(NewsRetries - 1)] /\ hand \in [Procs -> Results]
  /\ said \in Seq([items: SUBSET Headlines, day: Days]) /\ Len(said) <= MaxAnswers
  /\ fetched \in [Procs -> Nat] /\ loose \subseteq Procs

\* Something that carries items is true of the answer it names.
Quotes(x) ==
  /\ x.nr \in 0..Len(said)
  /\ x.nr > 0 => x.items = said[x.nr].items
  /\ x.nr = 0 => x.items = {}

Dated(x) == x.nr > 0 /\ x.sure => said[x.nr].day = x.at

FileIsTrue == Quotes(cache) /\ Dated(cache) /\ (cache.date # 0 => cache.at = cache.date)

\* What a process holds, by where it stands; the day counts while it is not loose.
Hand(p) ==
  /\ Quotes(hand[p])
  /\ news[p] = "prior" => hand[p].nr = 0
  /\ news[p] = "write" => hand[p].nr > 0 /\ ~hand[p].error
  /\ news[p] = "done" => (hand[p].error => hand[p].nr = 0) /\ (~hand[p].error => hand[p].nr > 0)
  /\ p \notin loose =>
       /\ news[p] \in {"look", "ask", "done"} => hand[p].at = today
       /\ news[p] = "write" => said[hand[p].nr].day = today
       /\ news[p] \in {"done", "replace"} => Dated(hand[p])
       /\ news[p] \in {"write", "replace"} \/ (news[p] = "done" /\ ~hand[p].error)
            => cache.nr <= hand[p].nr

\* The headlines a run got are in the file for the rest of the run.
Once(p) ==
  fetched[p] > 0 /\ p \notin loose =>
    /\ fetched[p] = 1 /\ news[p] # "ask"
    /\ news[p] = "write" => hand[p].items # {}
    /\ news[p] = "look" \/ (pc[p] \in {"gate", "work"} /\ news[p] # "write") => Usable

\* Where a run stands, by its two feeds.
Stage(p) ==
  /\ pc[p] \in {"idle", "prices"} => fetched[p] = 0
  /\ pc[p] \in {"idle", "prices", "work"} => news[p] = "off"
  /\ news[p] # "off" => job[p] = pc[p]
  /\ news[p] \in {"prior", "replace"} => pc[p] = "refresh"

NewsInv == NewsTyped /\ FileIsTrue /\ \A p \in Procs : Hand(p) /\ Once(p) /\ Stage(p)

\* A step of one process, and what the others may notice of it.
Apart(p) ==
  /\ \A q \in Procs \ {p} : /\ news'[q] = news[q] /\ job'[q] = job[q] /\ hand'[q] = hand[q]
                            /\ fetched'[q] = fetched[q] /\ pc'[q] = pc[q]
                            /\ q \in loose => q \in loose'
                            /\ cache' = cache \/ ~InRun(q) \/ q \in loose'
  /\ today' = today
  /\ Len(said) <= Len(said') /\ \A n \in 1..Len(said) : said'[n] = said[n]

LEMMA QuotesStay ==
  ASSUME said \in Seq([items: SUBSET Headlines, day: Days]), NEW p, Apart(p), NEW x, Quotes(x)
  PROVE  /\ x.nr \in 0..Len(said')
         /\ x.nr > 0 => x.items = said'[x.nr].items /\ said'[x.nr].day = said[x.nr].day
         /\ x.nr = 0 => x.items = {}
BY DEF Apart, Quotes

LEMMA OthersStay ==
  ASSUME NewsInv, NEW p \in Procs, Apart(p), NEW q \in Procs \ {p}
  PROVE  Hand(q)' /\ Once(q)' /\ Stage(q)'
<1>1. /\ hand'[q] = hand[q] /\ news'[q] = news[q] /\ job'[q] = job[q] /\ pc'[q] = pc[q]
      /\ fetched'[q] = fetched[q] /\ today' = today /\ (q \in loose => q \in loose')
      /\ cache' = cache \/ ~InRun(q) \/ q \in loose'
  BY DEF Apart
<1>2. Hand(q) /\ Once(q) /\ Stage(q) /\ fetched[q] \in Nat
  BY DEF NewsInv, NewsTyped
<1>3. said \in Seq([items: SUBSET Headlines, day: Days]) /\ Quotes(hand[q])
  BY <1>2 DEF NewsInv, NewsTyped, Hand
<1>4. /\ hand[q].nr \in 0..Len(said')
      /\ hand[q].nr > 0 => /\ hand[q].items = said'[hand[q].nr].items
                           /\ said'[hand[q].nr].day = said[hand[q].nr].day
      /\ hand[q].nr = 0 => hand[q].items = {}
  BY <1>3, QuotesStay
<1>5. Quotes(hand[q])' /\ (Dated(hand[q]) => Dated(hand[q])')
  BY <1>1, <1>4 DEF Quotes, Dated
<1>6. Stage(q)'
  BY <1>1, <1>2 DEF Stage
<1>7. CASE cache' = cache
  <2>1. Hand(q)'
    BY <1>1, <1>2, <1>4, <1>5, <1>7 DEF Hand
  <2>2. Once(q)'
    BY <1>1, <1>2, <1>7 DEF Once, Usable
  <2> QED BY <1>6, <2>1, <2>2
<1>8. CASE ~InRun(q) \/ q \in loose'
  <2>1. Hand(q)'
    BY <1>1, <1>2, <1>5, <1>8 DEF Hand, InRun
  <2>2. Once(q)'
    BY <1>1, <1>2, <1>8 DEF Once, InRun
  <2> QED BY <1>6, <2>1, <2>2
<1> QED BY <1>1, <1>7, <1>8

LEMMA FileStays ==
  ASSUME NewsInv, NEW p \in Procs, Apart(p), cache' = cache PROVE FileIsTrue'
<1>1. said \in Seq([items: SUBSET Headlines, day: Days]) /\ Quotes(cache) /\ Dated(cache)
  BY DEF NewsInv, NewsTyped, FileIsTrue
<1>2. /\ cache.nr \in 0..Len(said')
      /\ cache.nr > 0 => cache.items = said'[cache.nr].items /\ said'[cache.nr].day = said[cache.nr].day
      /\ cache.nr = 0 => cache.items = {}
  BY <1>1, QuotesStay
<1> QED BY <1>1, <1>2 DEF NewsInv, FileIsTrue, Quotes, Dated

LEMMA NewsAlone ==
  ASSUME NewsInv, NEW p \in Procs, Apart(p), NewsTyped', FileIsTrue', Hand(p)', Once(p)', Stage(p)'
  PROVE  NewsInv'
BY OthersStay DEF NewsInv

LEMMA NewsConstants ==
  /\ NewsRetries \in Nat \ {0} /\ LastDay \in Nat \ {0} /\ MaxAnswers \in Nat
  /\ 0 \in 0..(NewsRetries - 1) /\ 1 \in Days /\ NoResult \in Results
<1>1. NewsRetries \in Nat \ {0} /\ LastDay \in Nat \ {0} /\ MaxAnswers \in Nat
  BY NewsFeedAssumption
<1> QED BY <1>1 DEF Days, NoResult, Results

LEMMA NewsInitInv == Init => NewsInv
<1> SUFFICES ASSUME Init PROVE NewsInv
  OBVIOUS
<1>1. NewsTyped
  BY NewsConstants DEF Init, NewsInit, NewsTyped, NewsPhases
<1>2. FileIsTrue
  BY <1>1 DEF Init, NewsInit, FileIsTrue, Quotes, Dated, Absent
<1>3. ASSUME NEW p \in Procs PROVE Hand(p) /\ Once(p) /\ Stage(p)
  BY <1>1, <1>3 DEF Init, NewsInit, Hand, Once, Stage, Quotes, NoResult
<1> QED BY <1>1, <1>2, <1>3 DEF NewsInv

LEMMA NewsFacts ==
  ASSUME NewsInv, NEW p \in Procs
  PROVE  /\ NewsTyped /\ Hand(p) /\ Once(p) /\ Stage(p) /\ FileIsTrue
         /\ hand[p] \in Results /\ Quotes(hand[p]) /\ Quotes(cache) /\ Dated(cache)
         /\ fetched[p] \in Nat /\ asks[p] \in 0..(NewsRetries - 1)
         /\ today \in Days /\ today # 0 /\ cache \in Files \cup {Absent}
<1>1. NewsTyped /\ Hand(p) /\ Once(p) /\ Stage(p) /\ FileIsTrue
  BY DEF NewsInv
<1>2. hand[p] \in Results /\ fetched[p] \in Nat /\ asks[p] \in 0..(NewsRetries - 1) /\ today \in Days
      /\ cache \in Files \cup {Absent}
  BY <1>1 DEF NewsTyped
<1>3. today # 0
  BY <1>2, NewsConstants DEF Days
<1> QED BY <1>1, <1>2, <1>3 DEF Hand, FileIsTrue

LEMMA LookInCacheInv ==
  ASSUME NewsInv, NEW p \in Procs, LookInCache(p), UNCHANGED pc PROVE NewsInv'
<1>f. /\ NewsTyped /\ Hand(p) /\ Once(p) /\ Stage(p) /\ FileIsTrue
      /\ hand[p] \in Results /\ Quotes(hand[p]) /\ Quotes(cache) /\ Dated(cache)
      /\ today \in Days /\ today # 0 /\ cache \in Files \cup {Absent}
  BY NewsFacts
<1>u. news[p] = "look" /\ UNCHANGED <<today, cache, job, asks, said, fetched, loose, pc>>
  BY DEF LookInCache
<1>1. CASE Usable
  <2> DEFINE new == [NoResult EXCEPT !.items = cache.items, !.nr = cache.nr,
                                     !.at = hand[p].at, !.sure = cache.sure]
  <2>1. hand' = [hand EXCEPT ![p] = new] /\ news' = [news EXCEPT ![p] = "done"]
    BY <1>1 DEF LookInCache, Holds, NewsGoto
  <2>2. cache \in Files /\ cache.date = today /\ cache.items # {}
    BY <1>1, <1>f DEF Usable, Absent
  <2>3. /\ new \in Results /\ new.items = cache.items /\ new.nr = cache.nr /\ new.at = hand[p].at
        /\ new.sure = cache.sure /\ ~new.error
    BY <1>f, <2>2 DEF NoResult, Results, Files
  <2> HIDE DEF new
  <2>4. hand'[p] = new /\ news'[p] = "done"
    BY <1>f, <2>1 DEF NewsTyped
  <2>5. NewsTyped' /\ Apart(p)
    BY <1>u, <1>f, <2>1, <2>3 DEF NewsTyped, NewsPhases, Apart
  <2>6. cache.nr > 0 /\ cache.at = today
    BY <1>f, <2>2 DEF Quotes, FileIsTrue, NewsTyped
  <2>7. Hand(p)'
    BY <1>u, <1>f, <2>3, <2>4, <2>6 DEF Hand, Quotes, Dated, NewsTyped
  <2>8. Once(p)' /\ Stage(p)'
    BY <1>u, <1>1, <1>f, <2>4 DEF Once, Stage, Usable
  <2> QED BY <1>u, <2>5, <2>7, <2>8, FileStays, NewsAlone
<1>2. CASE ~Usable
  <2>1. hand' = hand /\ news' = [news EXCEPT ![p] = "ask"]
    BY <1>2 DEF LookInCache, NewsGoto
  <2>2. NewsTyped' /\ Apart(p) /\ news'[p] = "ask"
    BY <1>u, <1>f, <2>1 DEF NewsTyped, NewsPhases, Apart
  <2>3. Hand(p)' /\ Once(p)' /\ Stage(p)'
    BY <1>u, <1>2, <1>f, <2>1, <2>2 DEF Hand, Quotes, Once, Stage
  <2> QED BY <1>u, <2>2, <2>3, FileStays, NewsAlone
<1> QED BY <1>1, <1>2

\* An answer of the service.
Answered(p, items) ==
  /\ said' = Append(said, [items |-> items, day |-> today])
  /\ Holds(p, [NoResult EXCEPT !.items = items, !.nr = Len(said) + 1])
  /\ fetched' = [fetched EXCEPT ![p] = IF items = {} THEN @ ELSE @ + 1]

LEMMA AnswerHeld ==
  ASSUME NEW items \in SUBSET Headlines, NEW n \in 0..MaxAnswers
  PROVE  LET held == [NoResult EXCEPT !.items = items, !.nr = n]
         IN  held \in Results /\ held.items = items /\ held.nr = n /\ ~held.error
BY NewsConstants DEF NoResult, Results

LEMMA AskNewsInv ==
  ASSUME NewsInv, NEW p \in Procs, AskNews(p), UNCHANGED pc PROVE NewsInv'
<1>f. /\ NewsTyped /\ Hand(p) /\ Once(p) /\ Stage(p) /\ FileIsTrue
      /\ hand[p] \in Results /\ Quotes(hand[p]) /\ Quotes(cache)
      /\ fetched[p] \in Nat /\ asks[p] \in 0..(NewsRetries - 1) /\ today \in Days
  BY NewsFacts
<1>u. news[p] = "ask" /\ UNCHANGED <<today, cache, job, loose, pc>>
  BY DEF AskNews
<1>0. fetched[p] > 0 => p \in loose
  BY <1>u, <1>f DEF Once
<1>1. CASE /\ Len(said) < MaxAnswers
           /\ \E items \in Answers : Answered(p, items)
           /\ NewsGoto(p, "write") /\ UNCHANGED asks
  <2>0. PICK items \in Answers : Answered(p, items)
    BY <1>1
  <2> DEFINE said1 == [items |-> items, day |-> today]
             new == [NoResult EXCEPT !.items = items, !.nr = Len(said) + 1]
  <2>1. said1 \in [items: SUBSET Headlines, day: Days] /\ said1.items = items /\ said1.day = today
    BY <1>f DEF Answers
  <2>2. said \in Seq([items: SUBSET Headlines, day: Days]) /\ Len(said) \in Nat
    BY <1>f DEF NewsTyped
  <2>3. /\ new \in Results /\ new.items = items /\ new.nr = Len(said) + 1 /\ ~new.error
    <3>1. Len(said) + 1 \in 0..MaxAnswers /\ items \in SUBSET Headlines /\ 1 \in Days
      BY <1>1, <2>2, NewsConstants DEF Answers
    <3> QED BY <3>1, AnswerHeld
  <2> HIDE DEF said1, new
  <2>4. said' = Append(said, said1) /\ hand' = [hand EXCEPT ![p] = new]
    BY <2>0 DEF said1, new, Answered, Holds
  <2>5. /\ said' \in Seq([items: SUBSET Headlines, day: Days]) /\ Len(said') = Len(said) + 1
        /\ said'[Len(said) + 1] = said1 /\ \A n \in 1..Len(said) : said'[n] = said[n]
    BY <2>1, <2>2, <2>4
  <2>6. hand'[p] = new /\ news'[p] = "write" /\ asks' = asks
        /\ fetched'[p] = IF items = {} THEN fetched[p] ELSE fetched[p] + 1
    BY <1>1, <1>f, <2>0, <2>4 DEF NewsTyped, NewsGoto, Answered
  <2>7. NewsTyped'
    <3>1. Len(said') <= MaxAnswers
      BY <1>1, <2>2, <2>5, NewsConstants
    <3>2. fetched' \in [Procs -> Nat]
      BY <1>f, <2>0 DEF NewsTyped, Answered
    <3>3. news' \in [Procs -> NewsPhases] /\ hand' \in [Procs -> Results]
      BY <1>1, <1>f, <2>3, <2>4 DEF NewsTyped, NewsPhases, NewsGoto
    <3> QED BY <1>u, <1>f, <2>5, <2>6, <3>1, <3>2, <3>3 DEF NewsTyped
  <2>8. Apart(p)
    <3>1. /\ \A q \in Procs \ {p} : /\ news'[q] = news[q] /\ hand'[q] = hand[q]
                                    /\ fetched'[q] = fetched[q]
      BY <1>1, <1>f, <2>0, <2>4 DEF NewsTyped, NewsGoto, Answered
    <3> QED BY <1>u, <2>2, <2>5, <3>1 DEF Apart
  <2>9. Hand(p)'
    <3>1. Quotes(hand[p])'
      BY <2>1, <2>2, <2>3, <2>5, <2>6 DEF Quotes
    <3>2. cache'.nr <= hand'[p].nr /\ hand'[p].nr > 0
      BY <1>u, <1>f, <2>2, <2>3, <2>6 DEF Quotes
    <3>3. said'[hand'[p].nr].day = today'
      BY <1>u, <2>1, <2>3, <2>5, <2>6
    <3> QED BY <2>3, <2>6, <3>1, <3>2, <3>3 DEF Hand
  <2>10. Once(p)' /\ Stage(p)'
    BY <1>u, <1>0, <1>f, <2>3, <2>6 DEF Once, Stage
  <2> QED BY <1>u, <2>7, <2>8, <2>9, <2>10, FileStays, NewsAlone
<1>2. CASE /\ Attempts(asks[p]) = NewsRetries
           /\ Holds(p, [NoResult EXCEPT !.error = TRUE, !.at = hand[p].at])
           /\ NewsGoto(p, "done") /\ UNCHANGED <<asks, said, fetched>>
  <2> DEFINE new == [NoResult EXCEPT !.error = TRUE, !.at = hand[p].at]
  <2>1. new \in Results /\ new.error /\ new.nr = 0 /\ new.items = {} /\ new.at = hand[p].at
    BY <1>f, NewsConstants DEF NoResult, Results
  <2>2. hand' = [hand EXCEPT ![p] = new]
    BY <1>2 DEF Holds
  <2> HIDE DEF new
  <2>3. hand'[p] = new /\ news'[p] = "done"
    BY <1>2, <1>f, <2>2 DEF NewsTyped, NewsGoto
  <2>4. NewsTyped' /\ Apart(p)
    BY <1>u, <1>2, <1>f, <2>1, <2>2 DEF NewsTyped, NewsPhases, NewsGoto, Apart
  <2>5. Hand(p)'
    BY <1>u, <1>2, <1>f, <2>1, <2>3 DEF Hand, Quotes, Dated, NewsTyped
  <2>6. Once(p)' /\ Stage(p)'
    BY <1>u, <1>0, <1>2, <1>f, <2>3 DEF Once, Stage
  <2> QED BY <1>u, <2>4, <2>5, <2>6, FileStays, NewsAlone
<1>3. CASE /\ Attempts(asks[p]) # NewsRetries
           /\ asks' = [asks EXCEPT ![p] = Attempts(@)] /\ UNCHANGED <<news, hand, said, fetched>>
  <2>1. asks[p] + 1 \in 0..(NewsRetries - 1)
    BY <1>3, <1>f, NewsConstants DEF Attempts
  <2>2. NewsTyped' /\ Apart(p)
    BY <1>u, <1>3, <1>f, <2>1 DEF NewsTyped, Attempts, Apart
  <2>3. Hand(p)' /\ Once(p)' /\ Stage(p)'
    BY <1>u, <1>3, <1>f DEF Hand, Quotes, Dated, Once, Usable, Stage
  <2> QED BY <1>u, <2>2, <2>3, FileStays, NewsAlone
<1> QED BY <1>1, <1>2, <1>3 DEF AskNews, Answered

\* A file that p puts in the place of the other.
LEMMA ReplacedTyped ==
  ASSUME NewsInv, NEW p \in Procs, NEW file \in Files, Replaced(p, file)
  PROVE  /\ cache' \in Files /\ cache'.items = file.items /\ cache'.nr = file.nr
         /\ cache'.at = file.at /\ cache'.date = file.date /\ cache'.state = "file"
         /\ cache'.sure <=> file.sure /\ p \notin loose
         /\ loose' \subseteq Procs /\ (p \in loose' <=> p \in loose)
         /\ \A q \in Procs \ {p} : (q \in loose => q \in loose') /\ (~InRun(q) \/ q \in loose')
<1>1. loose \subseteq Procs
  BY DEF NewsInv, NewsTyped
<1>2. cache' = [file EXCEPT !.sure = file.sure /\ p \notin loose]
  BY DEF Replaced, Files
<1>3. /\ cache' \in Files /\ cache'.items = file.items /\ cache'.nr = file.nr
      /\ cache'.at = file.at /\ cache'.date = file.date /\ cache'.state = "file"
      /\ cache'.sure = (file.sure /\ p \notin loose)
  BY <1>2 DEF Files
<1> QED BY <1>1, <1>3 DEF Replaced

LEMMA WriteNewsInv ==
  ASSUME NewsInv, NEW p \in Procs, WriteNews(p), UNCHANGED pc PROVE NewsInv'
<1>f. /\ NewsTyped /\ Hand(p) /\ Once(p) /\ Stage(p) /\ FileIsTrue
      /\ hand[p] \in Results /\ Quotes(hand[p]) /\ Quotes(cache)
      /\ today \in Days /\ today # 0
  BY NewsFacts
<1>u. news[p] = "write" /\ UNCHANGED <<today, job, asks, said, fetched, pc>>
  BY DEF WriteNews
<1> DEFINE new == [hand[p] EXCEPT !.at = today]
<1>1. hand' = [hand EXCEPT ![p] = new] /\ news' = [news EXCEPT ![p] = "done"]
  BY DEF WriteNews, NewsGoto
<1>2. /\ new \in Results /\ new.items = hand[p].items /\ new.nr = hand[p].nr /\ new.at = today
      /\ new.error = hand[p].error
  BY <1>f DEF Results
<1> HIDE DEF new
<1>3. hand'[p] = new /\ news'[p] = "done"
  BY <1>f, <1>1 DEF NewsTyped
<1>h. /\ hand[p].nr > 0 /\ ~hand[p].error
      /\ p \notin loose => said[hand[p].nr].day = today /\ cache.nr <= hand[p].nr
      /\ fetched[p] > 0 /\ p \notin loose => fetched[p] = 1 /\ hand[p].items # {}
  BY <1>u, <1>f DEF Hand, Once
<1>4. CASE Replaced(p, Envelope(hand[p]))
  <2> DEFINE file == Envelope(hand[p])
  <2>1. /\ file \in Files /\ file.items = hand[p].items /\ file.nr = hand[p].nr /\ file.at = today
        /\ file.date = today
    BY <1>f, NewsConstants DEF Envelope, Files, Results, Days
  <2> HIDE DEF file
  <2>2. /\ cache' \in Files /\ cache'.items = hand[p].items /\ cache'.nr = hand[p].nr
        /\ cache'.at = today /\ cache'.date = today /\ cache'.state = "file"
        /\ cache'.sure => p \notin loose
        /\ loose' \subseteq Procs /\ (p \in loose' <=> p \in loose)
        /\ \A q \in Procs \ {p} : (q \in loose => q \in loose') /\ (~InRun(q) \/ q \in loose')
    BY <1>4, <2>1, ReplacedTyped DEF file
  <2>3. NewsTyped' /\ Apart(p)
    BY <1>u, <1>f, <1>1, <1>2, <2>2 DEF NewsTyped, NewsPhases, Apart
  <2>4. FileIsTrue'
    BY <1>u, <1>f, <1>h, <2>2 DEF FileIsTrue, Quotes, Dated
  <2>5. Hand(p)'
    BY <1>u, <1>f, <1>h, <1>2, <1>3, <2>2 DEF Hand, Quotes, Dated, Results
  <2>6. Once(p)' /\ Stage(p)'
    BY <1>u, <1>f, <1>h, <1>3, <2>2 DEF Once, Stage, Usable
  <2> QED BY <2>3, <2>4, <2>5, <2>6, NewsAlone
<1>5. CASE UNCHANGED cache /\ loose' = loose \cup {p}
  <2>1. NewsTyped' /\ Apart(p)
    BY <1>u, <1>f, <1>1, <1>2, <1>5 DEF NewsTyped, NewsPhases, Apart
  <2>2. Hand(p)' /\ Once(p)' /\ Stage(p)'
    BY <1>u, <1>f, <1>h, <1>2, <1>3, <1>5 DEF Hand, Quotes, Once, Stage
  <2> QED BY <1>5, <2>1, <2>2, FileStays, NewsAlone
<1> QED BY <1>4, <1>5 DEF WriteNews

LEMMA ReadResultInv ==
  ASSUME NewsInv, NEW p \in Procs, ReadResult(p), UNCHANGED pc PROVE NewsInv'
<1>f. /\ NewsTyped /\ Hand(p) /\ Once(p) /\ Stage(p) /\ FileIsTrue
  BY NewsFacts
<1>u. /\ news[p] = "done" /\ job[p] = "refresh" /\ pc[p] = "refresh"
      /\ UNCHANGED <<today, cache, job, asks, hand, said, fetched, loose, pc>>
      /\ news' = [news EXCEPT ![p] = IF hand[p].error THEN "prior" ELSE "replace"]
  BY <1>f DEF ReadResult, NewsGoto, Stage
<1>1. news'[p] = IF hand[p].error THEN "prior" ELSE "replace"
  BY <1>u, <1>f DEF NewsTyped
<1>2. NewsTyped' /\ Apart(p)
  BY <1>u, <1>f, <1>1 DEF NewsTyped, NewsPhases, Apart
<1>3. Hand(p)'
  BY <1>u, <1>f, <1>1 DEF Hand, Quotes, Dated
<1>4. Once(p)' /\ Stage(p)'
  BY <1>u, <1>f, <1>1 DEF Once, Stage
<1> QED BY <1>u, <1>2, <1>3, <1>4, FileStays, NewsAlone

LEMMA ReadPriorInv ==
  ASSUME NewsInv, NEW p \in Procs, ReadPrior(p), UNCHANGED pc PROVE NewsInv'
<1>f. /\ NewsTyped /\ Hand(p) /\ Once(p) /\ Stage(p) /\ FileIsTrue
      /\ hand[p] \in Results /\ Quotes(hand[p]) /\ Quotes(cache) /\ Dated(cache)
      /\ cache \in Files \cup {Absent}
  BY NewsFacts
<1>u. news[p] = "prior" /\ UNCHANGED <<today, cache, job, asks, said, fetched, loose, pc>>
  BY DEF ReadPrior
<1> DEFINE new == Kept(hand[p])
<1>1. hand' = [hand EXCEPT ![p] = new] /\ news' = [news EXCEPT ![p] = "replace"]
  BY DEF ReadPrior, Holds, NewsGoto
<1>2. /\ new \in Results /\ new.nr = cache.nr /\ Quotes(new)
      /\ Dated(new)
  <2>1. CASE cache.state = "file"
    <3>1. cache \in Files
      BY <1>f, <2>1 DEF Absent
    <3>2. new \in Results /\ new.nr = cache.nr /\ new.items = cache.items /\ new.at = cache.at
          /\ new.sure = cache.sure
      BY <2>1, <3>1 DEF Kept, Files, Results
    <3> QED BY <1>f, <3>2 DEF Quotes, Dated
  <2>2. CASE cache.state # "file"
    <3>1. cache.nr = 0
      BY <1>f, <2>2 DEF Files, Absent
    <3>2. new = hand[p] /\ hand[p].nr = 0
      BY <1>u, <1>f, <2>2 DEF Kept, Hand
    <3> QED BY <1>f, <3>1, <3>2 DEF Dated
  <2> QED BY <2>1, <2>2
<1> HIDE DEF new
<1>3. hand'[p] = new /\ news'[p] = "replace"
  BY <1>f, <1>1 DEF NewsTyped
<1>4. NewsTyped' /\ Apart(p)
  BY <1>u, <1>f, <1>1, <1>2 DEF NewsTyped, NewsPhases, Apart
<1>5. Quotes(hand[p])' /\ Dated(hand[p])' /\ cache'.nr <= hand'[p].nr
  BY <1>u, <1>f, <1>2, <1>3 DEF Quotes, Dated
<1>6. Hand(p)'
  BY <1>3, <1>5 DEF Hand
<1>7. Once(p)' /\ Stage(p)'
  BY <1>u, <1>f, <1>3 DEF Once, Stage
<1> QED BY <1>u, <1>4, <1>6, <1>7, FileStays, NewsAlone

\* A process that leaves the headlines alone keeps nothing in its hands.
LEMMA OffHand ==
  ASSUME NewsInv, NEW p \in Procs, NewsOff(p)
  PROVE  /\ news' \in [Procs -> NewsPhases] /\ job' \in [Procs -> {"none", "gate", "refresh"}]
         /\ asks' \in [Procs -> 0..(NewsRetries - 1)] /\ hand' \in [Procs -> Results]
         /\ news'[p] = "off" /\ Hand(p)'
         /\ \A q \in Procs \ {p} : news'[q] = news[q] /\ job'[q] = job[q] /\ hand'[q] = hand[q]
<1>1. NewsTyped
  BY NewsFacts
<1>2. /\ news' \in [Procs -> NewsPhases] /\ job' \in [Procs -> {"none", "gate", "refresh"}]
      /\ asks' \in [Procs -> 0..(NewsRetries - 1)] /\ hand' \in [Procs -> Results]
  BY <1>1, NewsConstants DEF NewsOff, NewsGoto, Holds, NewsTyped, NewsPhases
<1>3. /\ news'[p] = "off" /\ hand'[p] = NoResult
      /\ \A q \in Procs \ {p} : news'[q] = news[q] /\ job'[q] = job[q] /\ hand'[q] = hand[q]
  BY <1>1 DEF NewsOff, NewsGoto, Holds, NewsTyped
<1>4. Quotes(NoResult)'
  BY DEF Quotes, NoResult
<1> QED BY <1>2, <1>3, <1>4 DEF Hand, Quotes

LEMMA ReplaceCacheInv ==
  ASSUME NewsInv, NEW p \in Procs, ReplaceCache(p), UNCHANGED pc PROVE NewsInv'
<1>f. /\ NewsTyped /\ Hand(p) /\ Once(p) /\ Stage(p) /\ FileIsTrue
      /\ hand[p] \in Results /\ Quotes(hand[p])
  BY NewsFacts
<1>u. news[p] = "replace" /\ NewsOff(p) /\ UNCHANGED <<today, said, fetched, pc>>
  BY DEF ReplaceCache
<1>1. /\ news' \in [Procs -> NewsPhases] /\ job' \in [Procs -> {"none", "gate", "refresh"}]
      /\ asks' \in [Procs -> 0..(NewsRetries - 1)] /\ hand' \in [Procs -> Results]
      /\ news'[p] = "off" /\ Hand(p)'
      /\ \A q \in Procs \ {p} : news'[q] = news[q] /\ job'[q] = job[q] /\ hand'[q] = hand[q]
  BY <1>u, OffHand
<1>2. pc[p] = "refresh"
  BY <1>u, <1>f DEF Stage, NewsTyped
<1>3. CASE Replaced(p, Payload(hand[p]))
  <2> DEFINE file == Payload(hand[p])
  <2>1. /\ file \in Files /\ file.items = hand[p].items /\ file.nr = hand[p].nr
        /\ file.at = hand[p].at /\ file.date = 0 /\ file.sure = hand[p].sure
    BY <1>f, NewsConstants DEF Payload, Files, Results
  <2> HIDE DEF file
  <2>2. /\ cache' \in Files /\ cache'.items = hand[p].items /\ cache'.nr = hand[p].nr
        /\ cache'.at = hand[p].at /\ cache'.date = 0
        /\ cache'.sure => p \notin loose /\ hand[p].sure
        /\ loose' \subseteq Procs /\ (p \in loose' <=> p \in loose)
        /\ \A q \in Procs \ {p} : (q \in loose => q \in loose') /\ (~InRun(q) \/ q \in loose')
    BY <1>3, <2>1, ReplacedTyped DEF file
  <2>3. NewsTyped'
    BY <1>u, <1>f, <1>1, <2>2 DEF NewsTyped
  <2>4. Apart(p)
    BY <1>u, <1>1, <2>2 DEF Apart
  <2>5. FileIsTrue'
    BY <1>u, <1>f, <2>2 DEF FileIsTrue, Quotes, Dated, Hand
  <2>6. Once(p)' /\ Stage(p)'
    BY <1>u, <1>f, <1>1, <1>2, <2>2 DEF Once, Stage
  <2> QED BY <1>1, <2>3, <2>4, <2>5, <2>6, NewsAlone
<1>4. CASE UNCHANGED <<cache, loose>>
  <2>1. NewsTyped' /\ Apart(p)
    BY <1>u, <1>f, <1>1, <1>4 DEF NewsTyped, Apart
  <2>2. Once(p)' /\ Stage(p)'
    BY <1>u, <1>f, <1>1, <1>2, <1>4 DEF Once, Stage
  <2> QED BY <1>1, <1>4, <2>1, <2>2, FileStays, NewsAlone
<1> QED BY <1>3, <1>4 DEF ReplaceCache

LEMMA NewsStepInv ==
  ASSUME NewsInv, NEW p \in Procs, NewsStep(p), UNCHANGED pc PROVE NewsInv'
BY LookInCacheInv, AskNewsInv, WriteNewsInv, ReadResultInv, ReadPriorInv, ReplaceCacheInv
   DEF NewsStep

\* fetch_news for a run that stands at where, which is also what it is for.
LEMMA FetchNewsInv ==
  ASSUME NewsInv, NEW p \in Procs, NEW who \in {"gate", "refresh"}, FetchNews(p, who),
         Goto(p, who), pc \in [Procs -> {"idle", "prices", "gate", "work", "refresh"}],
         pc[p] = IF who = "gate" THEN "prices" ELSE "work",
         UNCHANGED <<today, cache, said, fetched, loose>>
  PROVE  NewsInv'
<1>f. NewsTyped /\ Hand(p) /\ Once(p) /\ Stage(p) /\ Quotes(cache) /\ today \in Days
  BY NewsFacts
<1> DEFINE new == [NoResult EXCEPT !.at = today]
<1>1. /\ hand' = [hand EXCEPT ![p] = new] /\ news' = [news EXCEPT ![p] = "look"]
      /\ job' = [job EXCEPT ![p] = who] /\ asks' = [asks EXCEPT ![p] = 0]
      /\ pc' = [pc EXCEPT ![p] = who]
  BY DEF FetchNews, Holds, NewsGoto, Goto
<1>2. new \in Results /\ new.nr = 0 /\ new.items = {} /\ new.at = today
  BY <1>f, NewsConstants DEF NoResult, Results
<1> HIDE DEF new
<1>3. /\ hand'[p] = new /\ news'[p] = "look" /\ job'[p] = who /\ pc'[p] = who
      /\ news[p] = "off"
  BY <1>f, <1>1 DEF NewsTyped, Stage
<1>4. NewsTyped'
  BY <1>f, <1>1, <1>2, NewsConstants DEF NewsTyped, NewsPhases
<1>5. Apart(p)
  BY <1>f, <1>1 DEF NewsTyped, Apart
<1>6. Hand(p)'
  BY <1>f, <1>2, <1>3 DEF Hand, Quotes, NewsTyped
<1>7. Once(p)'
  BY <1>f, <1>3 DEF Once, Stage, Usable
<1>8. Stage(p)'
  BY <1>3 DEF Stage
<1> QED BY <1>4, <1>5, <1>6, <1>7, <1>8, FileStays, NewsAlone

-----------------------------------------------------------------------------
(* The run.                                                                 *)

RunTyped ==
  /\ pc \in [Procs -> {"idle", "prices", "gate", "work", "refresh"}]
  /\ warned \in [Procs -> BOOLEAN] /\ verdict \in [Procs -> Statuses] /\ runs \in 0..MaxRuns

Warned(p) ==
  pc[p] \in {"gate", "work", "refresh"} => (warned[p] <=> setup[p].key /\ frame[p] = "yahoo")

RunInv == RunTyped /\ \A p \in Procs : Warned(p)

Inv == PriceInv /\ NewsInv /\ RunInv

LEMMA InitInv == Init => Inv
<1>1. Init => RunInv
  BY FeedsAssumption DEF Init, RunInv, RunTyped, Warned, Statuses
<1> QED BY <1>1, PriceInitInv, NewsInitInv DEF Inv, Init

LEMMA EndRunInv ==
  ASSUME Inv, NEW p \in Procs, EndRun(p), UNCHANGED fetching, news[p] = "off" PROVE Inv'
<1>1. PriceInv'
  BY PriceDoneInv DEF EndRun, Inv
<1>2. NewsInv'
  <2>f. NewsInv /\ NewsTyped /\ Hand(p) /\ Once(p) /\ Stage(p) /\ RunTyped
    BY NewsFacts DEF Inv, RunInv
  <2>u. /\ UNCHANGED <<today, cache, said, news, job, asks, hand>>
        /\ fetched' = [fetched EXCEPT ![p] = 0] /\ loose' = loose \ {p}
        /\ pc' = [pc EXCEPT ![p] = "idle"]
    BY DEF EndRun, fetching, Goto
  <2>1. NewsTyped' /\ Apart(p)
    BY <2>f, <2>u DEF NewsTyped, RunTyped, Apart
  <2>2. Hand(p)' /\ Once(p)' /\ Stage(p)'
    BY <2>f, <2>u DEF Hand, Quotes, Once, Stage, NewsTyped, RunTyped
  <2> QED BY <2>f, <2>u, <2>1, <2>2, FileStays, NewsAlone
<1>3. RunInv'
  <2>1. RunTyped /\ PriceTyped
    BY DEF Inv, RunInv, PriceInv
  <2>2. RunTyped'
    BY <2>1 DEF EndRun, Goto, RunTyped, Statuses
  <2>3. ASSUME NEW q \in Procs PROVE Warned(q)'
    BY <2>1, <2>3 DEF Inv, RunInv, EndRun, Goto, PriceDone, PriceTyped, RunTyped, Warned
  <2> QED BY <2>2, <2>3 DEF RunInv
<1> QED BY <1>1, <1>2, <1>3 DEF Inv

\* A step that leaves the run and its prices where they are.
LEMMA RunStays ==
  ASSUME RunInv, UNCHANGED <<pc, warned, setup, frame>>, verdict' \in [Procs -> Statuses],
         runs' = runs
  PROVE  RunInv'
BY DEF RunInv, RunTyped, Warned

LEMMA StepInv == Inv /\ [Next]_vars => Inv'
<1> SUFFICES ASSUME Inv, [Next]_vars PROVE Inv'
  OBVIOUS
<1>t. /\ PriceInv /\ NewsInv /\ RunInv /\ PriceTyped /\ NewsTyped /\ RunTyped
      /\ \A p \in Procs : Stage(p) /\ Once(p) /\ Hand(p) /\ Warned(p)
  BY DEF Inv, PriceInv, NewsInv, RunInv
<1>1. ASSUME NEW p \in Procs, StartRun(p) PROVE Inv'
  <2>1. PriceInv'
    BY <1>1, <1>t, FetchPricesInv DEF StartRun
  <2>u. /\ UNCHANGED <<today, cache, news, job, asks, hand, said, fetched, loose>>
        /\ pc' = [pc EXCEPT ![p] = "prices"] /\ pc[p] = "idle"
    BY <1>1 DEF StartRun, newsVars, Goto
  <2>2. Apart(p) /\ NewsTyped'
    BY <2>u, <1>t DEF Apart, NewsTyped, RunTyped
  <2>3. Hand(p)' /\ Once(p)' /\ Stage(p)'
    BY <2>u, <1>t DEF Hand, Quotes, Dated, Once, Stage, RunTyped
  <2>4. NewsInv'
    BY <2>u, <2>2, <2>3, <1>t, FileStays, NewsAlone
  <2>5. RunTyped'
    BY <1>1, <1>t, FeedsAssumption DEF StartRun, Goto, RunTyped
  <2>6. ASSUME NEW q \in Procs PROVE Warned(q)'
    BY <1>1, <1>t, <2>6 DEF StartRun, Goto, FetchPrices, PriceTyped, RunTyped, Warned
  <2> QED BY <2>1, <2>4, <2>5, <2>6 DEF Inv, RunInv
<1>2. ASSUME NEW p \in Procs, Pricing(p) PROVE Inv'
  <2>1. PriceInv'
    BY <1>2, <1>t, PriceStepInv DEF Pricing
  <2>u. /\ UNCHANGED <<today, cache, news, job, asks, hand, said, fetched, loose>>
        /\ UNCHANGED <<pc, warned, verdict, runs>> /\ pc[p] = "prices" /\ setup' = setup
        /\ \A q \in Procs \ {p} : frame'[q] = frame[q]
    BY <1>2, <1>t DEF Pricing, newsVars, runVars, PriceStep, OpenSession, AskPrices, RenewSession,
       AskYahoo, PriceTyped
  <2>2. NewsInv'
    BY <2>u, <1>t DEF NewsInv, NewsTyped, FileIsTrue, Hand, Quotes, Dated, Once, Usable, Stage
  <2>3. RunInv'
    BY <2>u, <1>t DEF RunInv, RunTyped, Warned
  <2> QED BY <2>1, <2>2, <2>3 DEF Inv
<1>3. ASSUME NEW p \in Procs, PricesFail(p) PROVE Inv'
  BY <1>3, <1>t, EndRunInv DEF PricesFail, Stage
<1>4. ASSUME NEW p \in Procs, Priced(p) PROVE Inv'
  <2>1. frame[p] \in {"none", "ig", "yahoo"}
    BY <1>t DEF PriceTyped
  <2>2. PriceInv'
    BY <1>4, <1>t, <2>1, PriceDoneInv DEF Priced
  <2>3. NewsInv'
    BY <1>4, <1>t, FetchNewsInv DEF Priced, RunTyped
  <2>4. RunTyped'
    BY <1>4, <1>t DEF Priced, Goto, RunTyped
  <2>5. Label(p)
    BY <1>t DEF PriceInv
  <2>6. ASSUME NEW q \in Procs PROVE Warned(q)'
    BY <1>4, <1>t, <2>5, <2>6 DEF Priced, Goto, PriceDone, PriceTyped, RunTyped, Label, Warned
  <2> QED BY <2>2, <2>3, <2>4, <2>6 DEF Inv, RunInv
<1>5. ASSUME NEW p \in Procs, Feeding(p) PROVE Inv'
  <2>1. NewsInv'
    BY <1>5, <1>t, NewsStepInv DEF Feeding, runVars
  <2>2. PriceInv' /\ RunInv'
    BY <1>5, <1>t, RunStays DEF Feeding, priceVars, runVars, RunTyped, PriceInv, PriceTyped, Fetch,
       Label, Requests
  <2> QED BY <2>1, <2>2 DEF Inv
<1>6. ASSUME NEW p \in Procs, Gate(p) PROVE Inv'
  <2>u. /\ UNCHANGED <<today, cache, said, fetched, loose, warned, runs>> /\ UNCHANGED priceVars
        /\ news[p] = "done" /\ job[p] = "gate" /\ pc[p] = "gate" /\ NewsOff(p)
        /\ pc' = [pc EXCEPT ![p] = "work"] /\ pc'[p] = "work"
    BY <1>6, <1>t DEF Gate, Goto, Stage, RunTyped
  <2>1. /\ news' \in [Procs -> NewsPhases] /\ job' \in [Procs -> {"none", "gate", "refresh"}]
        /\ asks' \in [Procs -> 0..(NewsRetries - 1)] /\ hand' \in [Procs -> Results]
        /\ news'[p] = "off" /\ Hand(p)'
        /\ \A q \in Procs \ {p} : news'[q] = news[q] /\ job'[q] = job[q] /\ hand'[q] = hand[q]
    BY <2>u, <1>t, OffHand
  <2>2. NewsTyped' /\ Apart(p)
    BY <2>u, <2>1, <1>t DEF NewsTyped, RunTyped, Apart
  <2>3. Once(p)' /\ Stage(p)'
    BY <2>u, <2>1, <1>t DEF Once, Stage, Usable
  <2>4. NewsInv'
    BY <2>u, <2>1, <2>2, <2>3, <1>t, FileStays, NewsAlone
  <2>5. PriceInv'
    BY <2>u, <1>t DEF priceVars, PriceInv, PriceTyped, Fetch, Label, Requests
  <2>6. Status(hand[p]) \in Statuses
    BY DEF Status, Statuses
  <2>7. RunInv'
    BY <1>6, <1>t, <2>u, <2>6 DEF Gate, priceVars, RunInv, RunTyped, Warned
  <2> QED BY <2>4, <2>5, <2>7 DEF Inv
<1>7. ASSUME NEW p \in Procs, Finish(p) PROVE Inv'
  BY <1>7, <1>t, EndRunInv DEF Finish, Stage
<1>8. ASSUME NEW p \in Procs, Refresh(p) PROVE Inv'
  <2>1. NewsInv'
    BY <1>8, <1>t, FetchNewsInv DEF Refresh, RunTyped
  <2>2. PriceInv'
    BY <1>8, <1>t DEF Refresh, priceVars, PriceInv, PriceTyped, Fetch, Label, Requests
  <2>3. RunInv'
    BY <1>8, <1>t DEF Refresh, Goto, priceVars, RunInv, RunTyped, Warned
  <2> QED BY <2>1, <2>2, <2>3 DEF Inv
<1>9. ASSUME NEW p \in Procs, Refreshed(p) PROVE Inv'
  BY <1>9, <1>t, EndRunInv DEF Refreshed
<1>10. CASE NextDay
  <2>u. /\ UNCHANGED <<cache, news, job, asks, hand, said, fetched, pc, warned, verdict, runs>>
        /\ UNCHANGED priceVars /\ today < LastDay /\ today' = today + 1
        /\ loose' = loose \cup {p \in Procs : InRun(p)}
    BY <1>10 DEF NextDay, Midnight, fetching, runVars
  <2>1. today' \in Days
    BY <2>u, <1>t, NewsConstants DEF NewsTyped, Days
  <2>2. NewsTyped' /\ FileIsTrue'
    BY <2>u, <2>1, <1>t DEF NewsTyped, NewsInv, FileIsTrue, Quotes, Dated
  <2>3. ASSUME NEW p \in Procs PROVE Hand(p)' /\ Once(p)' /\ Stage(p)'
    <3>1. Stage(p)' /\ Quotes(hand[p])'
      BY <2>u, <2>3, <1>t DEF Stage, Hand, Quotes
    <3>2. CASE InRun(p)
      BY <2>u, <2>3, <1>t, <3>1, <3>2 DEF Hand, Once
    <3>3. CASE ~InRun(p)
      <4>1. news'[p] = "off" /\ ~(fetched'[p] > 0)
        BY <2>u, <3>3 DEF InRun
      <4> QED BY <3>1, <4>1 DEF Hand, Once
    <3> QED BY <3>1, <3>2, <3>3
  <2>4. PriceInv' /\ RunInv'
    BY <2>u, <1>t DEF priceVars, PriceInv, PriceTyped, Fetch, Label, Requests, RunInv, RunTyped, Warned
  <2> QED BY <2>2, <2>3, <2>4 DEF Inv, NewsInv
<1>11. CASE UNCHANGED vars
  <2>1. PriceInv'
    BY <1>11, <1>t DEF vars, priceVars, PriceInv, PriceTyped, Fetch, Label, Requests
  <2>2. NewsTyped' /\ FileIsTrue'
    BY <1>11, <1>t DEF vars, newsVars, NewsInv, NewsTyped, FileIsTrue, Quotes, Dated
  <2>3. ASSUME NEW p \in Procs PROVE Hand(p)' /\ Once(p)' /\ Stage(p)'
    BY <1>11, <1>t, <2>3 DEF vars, newsVars, runVars, Hand, Quotes, Dated, Once, Usable, Stage
  <2>4. RunInv'
    BY <1>11, <1>t DEF vars, priceVars, runVars, RunInv, RunTyped, Warned
  <2> QED BY <2>1, <2>2, <2>3, <2>4 DEF Inv, NewsInv
<1> QED BY <1>1, <1>2, <1>3, <1>4, <1>5, <1>6, <1>7, <1>8, <1>9, <1>10, <1>11 DEF Next, Work

LEMMA Invariance == Spec => []Inv
<1> QED BY InitInv, StepInv, PTL DEF Spec

LEMMA ElementsOf ==
  ASSUME NEW S, NEW s \in Seq(S) PROVE \A n \in DOMAIN s : s[n] \in S
OBVIOUS

\* The types, for every instance.
THEOREM FeedsTypeCorrect == Spec => []TypeOK
<1>1. Inv => TypeOK
  <2> SUFFICES ASSUME Inv PROVE TypeOK
    OBVIOUS
  <2>1. PriceTypeOK /\ NewsTyped /\ RunTyped
    BY PriceImplies DEF Inv, NewsInv, RunInv
  <2>2. \A n \in DOMAIN said : said[n] \in [items: SUBSET Headlines, day: Days]
    <3>1. said \in Seq([items: SUBSET Headlines, day: Days])
      BY <2>1 DEF NewsTyped
    <3> QED BY <3>1, ElementsOf
  <2> QED BY <2>1, <2>2 DEF TypeOK, NewsTypeOK, NewsTyped, RunTyped
<1> QED BY <1>1, Invariance, PTL

\* LAST_FETCH_SOURCE says of a frame in hand who answered with it, and whether
\* IG was to (fetch_ohlcv).
THEOREM FeedsLabelIsTrue == Spec => []LabelIsTrue
BY Invariance, PriceImplies, PTL DEF Inv

\* A 403 gives its attempt back, once: at most one request more than the
\* retries, and a renewed session is used (_fetch_via_ig), for every Retries.
THEOREM FeedsRenewalIsUsed == Spec => []RenewalIsUsed
BY Invariance, PriceImplies, PTL DEF Inv

\* The run warns of Yahoo's prices exactly when it has a key for IG
\* (fetch_ohlcv's label, read after the fetch by the run).
THEOREM FeedsNoSilentFallback == Spec => []NoSilentFallback
<1>1. Inv => NoSilentFallback
  BY DEF Inv, RunInv, Warned, NoSilentFallback
<1> QED BY <1>1, Invariance, PTL

\* The file is one answer of the service, of its day, whichever of fetch_news
\* and refresh_news_cache wrote it.
THEOREM FeedsCacheIsTrue == Spec => []CacheIsTrue
<1>1. Inv => CacheIsTrue
  BY DEF Inv, NewsInv, FileIsTrue, Quotes, Dated, CacheIsTrue
<1> QED BY <1>1, Invariance, PTL

\* The refresh of a run answers from the file its gate wrote.
THEOREM FeedsAskedOncePerRun == Spec => []AskedOncePerRun
<1>1. Inv => AskedOncePerRun
  BY NewsFacts DEF Inv, Once, AskedOncePerRun
<1> QED BY <1>1, Invariance, PTL

\* A replacement of the file, by fetch_news or by a refresh that failed, puts
\* no older headlines in the place of newer ones.
THEOREM FeedsLastGoodIsKept == Spec => LastGoodIsKept
<1>1. Inv /\ [Next]_vars => [NoOlder]_newsVars
  <2> SUFFICES ASSUME Inv, [Next]_vars, newsVars' # newsVars PROVE NoOlder
    OBVIOUS
  <2>t. NewsInv /\ cache.nr \in Nat
    BY NewsConstants DEF Inv, NewsInv, NewsTyped, Files, Absent
  <2>1. CASE cache' = cache
    BY <2>t, <2>1 DEF NoOlder
  <2>2. ASSUME NEW p \in Procs, WriteNews(p) \/ ReplaceCache(p), cache' # cache PROVE NoOlder
    <3>1. Hand(p) /\ hand[p] \in Results
      BY <2>t, NewsFacts
    <3>2. cache'.nr = hand[p].nr /\ news[p] \in {"write", "replace"}
      BY <2>2, <3>1 DEF WriteNews, ReplaceCache, Replaced, Envelope, Payload
    <3>3. hand[p].nr \in Nat
      BY <3>1, NewsConstants DEF Results
    <3>4. CASE p \in loose
      BY <3>2, <3>4 DEF NoOlder
    <3>5. CASE p \notin loose
      BY <2>t, <3>1, <3>2, <3>3, <3>5 DEF Hand, NoOlder
    <3> QED BY <3>4, <3>5
  <2>3. cache' = cache \/ \E p \in Procs : WriteNews(p) \/ ReplaceCache(p)
    BY DEF Next, vars, newsVars, Work, StartRun, Pricing, PricesFail, Priced, Feeding, NewsStep,
       LookInCache, AskNews, ReadResult, ReadPrior, Gate, Finish, Refresh, Refreshed, EndRun,
       NextDay, Midnight
  <2> QED BY <2>1, <2>2, <2>3
<1> QED BY <1>1, Invariance, PTL DEF Spec, LastGoodIsKept

\* The gate opens on headlines of the service, none of them critical, and of the
\* day unless midnight, another process or a failed write came between
\* (has_critical_event's fail-closed branches), for every set of headlines.
THEOREM FeedsGateFailsClosed == Spec => GateFailsClosed
<1>1. Inv /\ [Next]_vars => [FailsClosed]_vars
  <2> SUFFICES ASSUME Inv, [Next]_vars, NEW p \in Procs, verdict[p] # "clear", verdict'[p] = "clear"
               PROVE  /\ hand[p].nr > 0
                      /\ said[hand[p].nr].items \cap Critical = {}
                      /\ hand[p].sure /\ p \notin loose => said[hand[p].nr].day = today
    BY DEF FailsClosed
  <2>t. NewsInv /\ verdict \in [Procs -> Statuses]
    BY DEF Inv, RunInv, RunTyped
  <2>1. \A q \in Procs : EndRun(q) => verdict'[p] # "clear"
    BY <2>t DEF EndRun
  <2>2. PICK q \in Procs : Gate(q)
    BY <2>1 DEF Next, vars, runVars, Work, StartRun, Pricing, PricesFail, Priced, Feeding, Finish,
       Refresh, Refreshed, NextDay
  <2>3. q = p /\ Status(hand[p]) = "clear"
    BY <2>2, <2>t DEF Gate
  <2>4. ~hand[p].error /\ hand[p].items \cap Critical = {} /\ news[p] = "done"
    BY <2>2, <2>3 DEF Status, Gate
  <2>5. Hand(p) /\ Quotes(hand[p])
    BY <2>t, NewsFacts
  <2> QED BY <2>4, <2>5 DEF Hand, Quotes, Dated
<1> QED BY <1>1, Invariance, PTL DEF Spec, GateFailsClosed

=============================================================================
