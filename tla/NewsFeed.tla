------------------------------- MODULE NewsFeed -------------------------------
(***************************************************************************)
(* The headlines of a market (news_fetcher.py): the cache file that        *)
(* fetch_news and refresh_news_cache both replace, in two formats.         *)
(*                                                                         *)
(* A fetch and a refresh are a process's own sequences of reads, requests  *)
(* and replacements of the file.  A headline is a model value, its title,  *)
(* link and hash in one; the service answers with any of them.             *)
(***************************************************************************)
EXTENDS Integers, FiniteSets, Sequences, Processes

CONSTANTS
  Headlines, Critical, \* the ones classify_headline matches
  MaxItems,            \* of fetch_news
  NewsRetries,
  LastDay, MaxAnswers  \* bounds: days; answers of the service

ASSUME NewsFeedAssumption ==
  /\ Critical \subseteq Headlines /\ IsFiniteSet(Headlines)
  /\ {MaxItems, NewsRetries, LastDay} \subseteq Nat \ {0}
  /\ MaxAnswers \in Nat

VARIABLES
  today,          \* date.today() of every process
  cache,          \* .cache/news/news_<market>.json
  news, job,      \* where a process stands, and for whom
  asks,           \* attempts used up
  hand,           \* the NewsResult a process holds
  said,           \* history: the answers, each with its day
  fetched,        \* history: of a process's run, the non-empty answers it got
  loose           \* history: processes another one wrote past, or midnight, or the disk

newsVars == <<today, cache, news, job, asks, hand, said, fetched, loose>>
fetching == <<news, job, asks, hand>>

Days == 1..LastDay

\* nr is the answer the items came from, sure that no midnight or other process
\* came between (histories); at is the day of fetched_at; a date of 0 is none.
\* A file that is missing, or no envelope, is absent to every reader.
Files == [state: {"file"}, items: SUBSET Headlines, date: 0..LastDay, at: Days,
          error: BOOLEAN, stale: BOOLEAN, nr: 0..MaxAnswers, sure: BOOLEAN]
Absent == [state |-> "absent", items |-> {}, date |-> 0, at |-> 1, error |-> FALSE,
           stale |-> FALSE, nr |-> 0, sure |-> TRUE]
Results == [items: SUBSET Headlines, at: Days, error: BOOLEAN, stale: BOOLEAN,
            nr: 0..MaxAnswers, sure: BOOLEAN]
NoResult == [items |-> {}, at |-> 1, error |-> FALSE, stale |-> FALSE, nr |-> 0,
             sure |-> TRUE]

NewsPhases == {"off", "look", "ask", "write", "done", "prior", "replace"}

NewsTypeOK ==
  /\ today \in Days /\ cache \in Files \cup {Absent}
  /\ news \in [Procs -> NewsPhases] /\ job \in [Procs -> {"none", "gate", "refresh"}]
  /\ asks \in [Procs -> 0..(NewsRetries - 1)] /\ hand \in [Procs -> Results]
  /\ \A n \in DOMAIN said : said[n] \in [items: SUBSET Headlines, day: Days]
  /\ Len(said) <= MaxAnswers /\ fetched \in [Procs -> Nat]
  /\ loose \subseteq Procs

NewsInit ==
  /\ today = 1 /\ cache = Absent
  /\ news = [p \in Procs |-> "off"] /\ job = [p \in Procs |-> "none"]
  /\ asks = [p \in Procs |-> 0] /\ hand = [p \in Procs |-> NoResult]
  /\ said = << >> /\ fetched = [p \in Procs |-> 0] /\ loose = {}

NewsGoto(p, phase) == news' = [news EXCEPT ![p] = phase]
Holds(p, result) == hand' = [hand EXCEPT ![p] = result]

-----------------------------------------------------------------------------
(* fetch_news.                                                              *)

\* For the gate of a run, or for the refresh after it.
FetchNews(p, who) ==
  /\ NewsGoto(p, "look") /\ job' = [job EXCEPT ![p] = who]
  /\ asks' = [asks EXCEPT ![p] = 0] /\ Holds(p, [NoResult EXCEPT !.at = today])

\* Mutant: any day's file answers.
UsableEver == cache.state = "file" /\ cache.items # {}

\* _load_cache: only a file with today's date and with items.
Usable == cache.state = "file" /\ cache.date = today /\ cache.items # {}

\* The cache answers, or the service is asked.
LookInCache(p) ==
  /\ news[p] = "look"
  /\ IF Usable
       THEN /\ Holds(p, [NoResult EXCEPT !.items = cache.items, !.nr = cache.nr,
                                         !.at = hand[p].at, !.sure = cache.sure])
            /\ NewsGoto(p, "done")
       ELSE NewsGoto(p, "ask") /\ UNCHANGED hand
  /\ UNCHANGED <<today, cache, job, asks, said, fetched, loose>>

\* What is kept of an answer: of each headline one, and at most MaxItems.
Answers == {S \in SUBSET Headlines : Cardinality(S) <= MaxItems}

\* Mutant: an error of another kind starts the count again.
AttemptsByKind(n) == (n + 1) % NewsRetries

Attempts(n) == n + 1

\* Ticker.news: the headlines, or an error that is tried again.
AskNews(p) ==
  /\ news[p] = "ask"
  /\ \/ /\ Len(said) < MaxAnswers
        /\ \E items \in Answers :
             /\ said' = Append(said, [items |-> items, day |-> today])
             /\ Holds(p, [NoResult EXCEPT !.items = items, !.nr = Len(said) + 1])
             /\ fetched' = [fetched EXCEPT ![p] = IF items = {} THEN @ ELSE @ + 1]
        /\ NewsGoto(p, "write") /\ UNCHANGED asks
     \/ /\ IF Attempts(asks[p]) = NewsRetries
             THEN /\ Holds(p, [NoResult EXCEPT !.error = TRUE, !.at = hand[p].at])
                  /\ NewsGoto(p, "done") /\ UNCHANGED asks
             ELSE asks' = [asks EXCEPT ![p] = Attempts(@)] /\ UNCHANGED <<news, hand>>
        /\ UNCHANGED <<said, fetched>>
  /\ UNCHANGED <<today, cache, job, loose>>

\* Mutant: the file fetch_news writes has no date.
UndatedEnvelope(result) ==
  [state |-> "file", items |-> result.items, date |-> 0, at |-> today,
   error |-> FALSE, stale |-> FALSE, nr |-> result.nr, sure |-> result.sure]

\* The file fetch_news writes.
Envelope(result) ==
  [state |-> "file", items |-> result.items, date |-> today, at |-> today,
   error |-> FALSE, stale |-> FALSE, nr |-> result.nr, sure |-> result.sure]

InRun(q) == news[q] # "off" \/ fetched[q] > 0

\* os.replace, past every other process that is at work on the file.
Replaced(p, file) ==
  /\ cache' = [file EXCEPT !.sure = @ /\ p \notin loose]
  /\ loose' = loose \cup {q \in Procs \ {p} : InRun(q)}

\* _write_cache, whose failure only loses the cache.
WriteNews(p) ==
  /\ news[p] = "write"
  /\ \/ Replaced(p, Envelope(hand[p]))
     \/ UNCHANGED cache /\ loose' = loose \cup {p}
  /\ hand' = [hand EXCEPT ![p].at = today]
  /\ NewsGoto(p, "done")
  /\ UNCHANGED <<today, job, asks, said, fetched>>

-----------------------------------------------------------------------------
(* refresh_news_cache, from the result of its fetch_news.                   *)

ReadResult(p) ==
  /\ news[p] = "done" /\ job[p] = "refresh"
  /\ NewsGoto(p, IF hand[p].error THEN "prior" ELSE "replace")
  /\ UNCHANGED <<today, cache, job, asks, hand, said, fetched, loose>>

\* Mutant: a refresh that fails leaves nothing of the file.
KeptNothing(result) == result

\* Mutant: a refresh that fails dates the old headlines anew.
KeptAnew(result) ==
  IF cache.state = "file"
    THEN [items |-> cache.items, at |-> result.at, error |-> TRUE, stale |-> TRUE,
          nr |-> cache.nr, sure |-> cache.sure]
    ELSE result

\* What a failed refresh writes: the file's items and fetched_at, marked stale,
\* or the empty result when there is no file to read.
Kept(result) ==
  IF cache.state = "file"
    THEN [items |-> cache.items, at |-> cache.at, error |-> TRUE, stale |-> TRUE,
          nr |-> cache.nr, sure |-> cache.sure]
    ELSE result

ReadPrior(p) ==
  /\ news[p] = "prior"
  /\ Holds(p, Kept(hand[p]))
  /\ NewsGoto(p, "replace")
  /\ UNCHANGED <<today, cache, job, asks, said, fetched, loose>>

\* The file a refresh writes: without a date.
Payload(result) ==
  [state |-> "file", items |-> result.items, date |-> 0, at |-> result.at,
   error |-> result.error, stale |-> result.stale, nr |-> result.nr,
   sure |-> result.sure]

NewsOff(p) ==
  /\ NewsGoto(p, "off") /\ job' = [job EXCEPT ![p] = "none"]
  /\ asks' = [asks EXCEPT ![p] = 0] /\ Holds(p, NoResult)

ReplaceCache(p) ==
  /\ news[p] = "replace"
  /\ Replaced(p, Payload(hand[p])) \/ UNCHANGED <<cache, loose>>
  /\ NewsOff(p)
  /\ UNCHANGED <<today, said, fetched>>

NewsStep(p) ==
  LookInCache(p) \/ AskNews(p) \/ WriteNews(p) \/ ReadResult(p) \/ ReadPrior(p)
  \/ ReplaceCache(p)

-----------------------------------------------------------------------------
(* Outside.                                                                 *)

Midnight ==
  /\ today < LastDay /\ today' = today + 1
  /\ loose' = loose \cup {p \in Procs : InRun(p)}
  /\ UNCHANGED <<cache, fetching, said, fetched>>

-----------------------------------------------------------------------------
\* What the page shows as the headlines of a day is one answer of the service,
\* given on that day, through failed refreshes and both formats of the file,
\* unless midnight or another process came between an answer and the file.
CacheIsTrue ==
  cache.nr > 0 => /\ cache.items = said[cache.nr].items
                  /\ cache.sure => said[cache.nr].day = cache.at

\* A run that got headlines does not ask for more, its refresh lives on its
\* gate's file: unless the file was not written, or changed in the meantime.
AskedOncePerRun == \A p \in Procs : fetched[p] > 1 => p \in loose

NoOlder == cache'.nr >= cache.nr \/ \E p \in loose : news[p] \in {"write", "replace"}

\* A failed refresh keeps the last good headlines: older ones, or none, replace
\* newer ones only where another process wrote in the middle of a fetch.
LastGoodIsKept == [][NoOlder]_newsVars
=============================================================================
