--------------------------- MODULE GatheredReads ---------------------------
(***************************************************************************)
(* Requests that gather reads of several sources: the portfolio workspace, *)
(* book, liquidity, workflow, readiness and insights (services/            *)
(* portfolio_*.py), whose reads of lotus-core go through one cache, and    *)
(* the platform capabilities (services/platform_capabilities_service.py),  *)
(* whose reads have a timeout each and no cache.                           *)
(*                                                                         *)
(* A request gathers operations; an operation reads its sources, all at    *)
(* once or in stages.  A read is one action: what it answers is decided    *)
(* when the source answers, and a caller that joins the fill of another    *)
(* is one that finds its entry (AsyncTtlCache has the fills).  A caller    *)
(* that asks Core for no date is answered for Core's business date, which  *)
(* moves on; one that asks for a date, for the business day that the       *)
(* date belongs to.                                                        *)
(***************************************************************************)
EXTENDS Naturals, FiniteSets

CONSTANTS
  Requesters,   \* clients of the gateway, each with one request at a time
  Views,        \* the views they ask for
  Enrichments,  \* sources of the workspace that the service has a client for
  LastDay,      \* bound: the days of the behaviour are 0..LastDay
  Calendar,     \* Calendar[d]: the business day that day d belongs to
  MaxFailing,   \* bound: reads that fail
  Absent,       \* no date, no answer
  Clock         \* the date on the gateway's own clock

Days      == 0 .. LastDay
Arguments == Days \cup {Absent, Clock}

FirstStage  == {"portfolio", "aum", "support"}
SecondStage == {"cashflow", "cash", "readiness"}
Undated     == {"portfolio", "support", "runs", "supportability"}
Platform    == {"core", "performance", "advise", "manage", "report", "policy", "risk"}

(* The operations that a view gathers ...                                  *)
Gathers ==
  [workspace    |-> {"workspace"},
   workflow     |-> {"workspace", "probe"},
   readiness    |-> {"workspace", "ownReadiness", "positions", "allocations", "probe"},
   insights     |-> {"workspace", "positions", "allocations", "probe", "activity"},
   positions    |-> {"positions"},
   allocations  |-> {"allocations"},
   liquidity    |-> {"liquidity"},
   book         |-> {"allocations", "positions", "ownCash", "ownPortfolio"},
   capabilities |-> {"capabilities"}]

(* ... and the sources that an operation reads.                            *)
Sources ==
  [workspace    |-> FirstStage \cup SecondStage \cup Enrichments,
   positions    |-> {"aum", "positions"},
   allocations  |-> {"aum", "positions", "allocation"},
   liquidity    |-> {"aum", "cash", "cashflow"},
   probe        |-> {"transactions"},
   activity     |-> {"ledger"},
   ownReadiness |-> {"readiness"},
   ownCash      |-> {"cash"},
   ownPortfolio |-> {"portfolio"},
   capabilities |-> Platform]

Operations == UNION {Gathers[v] : v \in Views}
ReadNames  == UNION {{o} \X Sources[o] : o \in Operations}

ASSUME ReadsAssumption ==
  /\ Views \subseteq DOMAIN Gathers
  /\ Enrichments \in {{}, {"reference", "twr"}, {"runs", "supportability"},
                      {"reference", "twr", "runs", "supportability"}}
  /\ LastDay \in Nat /\ MaxFailing \in Nat
  /\ Calendar \in [Days -> Days]
  /\ \A d \in Days : Calendar[Calendar[d]] = Calendar[d]
  /\ Absent \notin Days \cup {Clock} /\ Clock \notin Days

AnswerStatuses == {"ok", "rejected", "down", "late"}
Answers == [status : AnswerStatuses, date : Days \cup {Absent}]

ASSUME AbsentIsNoAnswer == Absent \notin Answers

VARIABLES
  day,      \* today
  failing,  \* how many more reads may fail
  cached,   \* the entries of _upstream_cache: key -> answer, or Absent
  asked,    \* asked[q]: the as_of_date of q's request, or Absent
  wanted,   \* wanted[q]: what q's request is for
  got,      \* got[q]: the answer to each read of the request, or Absent
  ending    \* ending[q]: "none", "running", "answered", "raised"

readVars == <<day, failing, cached, asked, wanted, got, ending>>

Keys == (UNION {Sources[o] : o \in {p \in Operations : p # "capabilities"}}) \X Arguments

NothingRead == [read \in ReadNames |-> Absent]

ReadsInit ==
  /\ day     \in Days
  /\ failing \in 0 .. MaxFailing
  /\ cached  = [key \in Keys |-> Absent]
  /\ asked   = [q \in Requesters |-> Absent]
  /\ wanted  \in [Requesters -> Views]
  /\ got     = [q \in Requesters |-> NothingRead]
  /\ ending  = [q \in Requesters |-> "none"]

-----------------------------------------------------------------------------
(* Dates.                                                                  *)

IsOk(a) == a # Absent /\ a.status = "ok"

(* resolve_workspace_source_as_of_date: what AUM was resolved to, or the   *)
(* date asked for, or Core's business date.                                *)
ResolvedDate(q) ==
  LET aum     == got[q][<<"workspace", "aum">>]
      support == got[q][<<"workspace", "support">>]
  IN IF IsOk(aum) THEN aum.date
     ELSE IF asked[q] # Absent THEN asked[q]
     ELSE IF IsOk(support) THEN support.date ELSE Absent

(* The as_of_date of the workspace's response.                             *)
Label(q) == IF ResolvedDate(q) # Absent THEN ResolvedDate(q) ELSE Clock

PerformanceDate(q) == IF asked[q] # Absent THEN asked[q] ELSE Label(q)

(* Mutant: the second stage asks for the date that the caller asked for.   *)
SecondStageDate_Asked(q) == asked[q]
SecondStageDate(q) == ResolvedDate(q)

(* The date that a read asks its source for. *)
DateArgument(q, o, s) ==
  LET reference == got[q][<<o, "reference">>]
  IN IF s \in Undated THEN Absent
     ELSE IF o = "workspace" /\ s \in SecondStage THEN SecondStageDate(q)
     ELSE IF s = "twr" /\ IsOk(reference) THEN reference.date
     ELSE IF s \in {"reference", "twr"} THEN PerformanceDate(q)
     ELSE asked[q]

(* The reads whose answers a read waits for. *)
After(o, s) ==
  IF o # "workspace" \/ s \in FirstStage THEN {}
  ELSE IF s \in SecondStage THEN FirstStage
  ELSE IF s = "twr" THEN {"reference"} ELSE SecondStage

CacheKey_Undated(s, d) == <<s, Absent>>  \* mutant: the key leaves out the date
CacheKey(s, d) == <<s, d>>

(* What Core answers today to a read for date d. *)
CoreDate(d) == Calendar[IF d \in Days THEN d ELSE day]

-----------------------------------------------------------------------------
(* Reads.                                                                  *)

Reading(q, o, s) ==
  /\ ending[q] # "none"
  /\ o \in Gathers[wanted[q]] /\ s \in Sources[o]
  /\ got[q][<<o, s>>] = Absent
  /\ \A t \in After(o, s) : got[q][<<o, t>>] # Absent

Receives(q, o, s, a) ==
  /\ got' = [got EXCEPT ![q] = [got[q] EXCEPT ![<<o, s>>] = a]]
  /\ UNCHANGED <<day, asked, wanted, ending>>

(* The reads of Core go through the cache, those of the platform's         *)
(* capabilities do not.                                                    *)
IsCached(o) == o # "capabilities"
Entry(o, s, d) == IF IsCached(o) THEN cached[CacheKey(s, d)] ELSE Absent

(* Every result of a fill is stored, an error status too. *)
Stored(o, s, d, a) ==
  IF IsCached(o) THEN [cached EXCEPT ![CacheKey(s, d)] = a] ELSE cached

(* The entry is there and within its ttl ...                               *)
Hit(q, o, s) ==
  LET entry == Entry(o, s, DateArgument(q, o, s)) IN
  /\ Reading(q, o, s)
  /\ entry # Absent
  /\ Receives(q, o, s, entry)
  /\ UNCHANGED <<failing, cached>>

(* ... or its ttl, which any entry has, is over, and the source answers    *)
(* today.                                                                  *)
Expires_NotErrors(entry) == entry # Absent => IsOk(entry)  \* mutant: an error stays
Expires(entry) == TRUE

Fetch(q, o, s) ==
  LET d == DateArgument(q, o, s) IN
  /\ Reading(q, o, s)
  /\ Expires(Entry(o, s, d))
  /\ \E a \in Answers :
        /\ a.status # "late"
        /\ a.date = IF a.status = "ok" /\ IsCached(o) THEN CoreDate(d) ELSE Absent
        /\ a.status # "ok" => failing > 0
        /\ failing' = IF a.status = "ok" THEN failing ELSE failing - 1
        /\ cached' = Stored(o, s, d, a)
        /\ Receives(q, o, s, a)

(* _with_timeout: wait_for gives up on a source and cancels its read.      *)
Late(q, o, s) ==
  /\ Reading(q, o, s)
  /\ o = "capabilities"
  /\ Receives(q, o, s, [status |-> "late", date |-> Absent])
  /\ UNCHANGED <<failing, cached>>

-----------------------------------------------------------------------------
(* Requests.                                                               *)

(* A client asks for a view, of a day that has come or of no day.          *)
Call(q) ==
  /\ ending[q] # "running"
  /\ \E v \in Views : wanted' = [wanted EXCEPT ![q] = v]
  /\ \E d \in 0 .. day \cup {Absent} : asked' = [asked EXCEPT ![q] = d]
  /\ got'     = [got EXCEPT ![q] = NothingRead]
  /\ ending'  = [ending EXCEPT ![q] = "running"]
  /\ UNCHANGED <<day, failing, cached>>

IsDone(q, o) == \A s \in Sources[o] : got[q][<<o, s>>] # Absent

(* require_payload: the operation raises a 502 unless these are answered.  *)
Required(o) ==
  IF o \in {"ownReadiness", "capabilities"} THEN {}
  ELSE IF o = "workspace" THEN {"portfolio"}
  ELSE IF o = "liquidity" THEN {"aum", "cash"} ELSE Sources[o]

(* raise_on_upstream_client_error: a client error of these is passed on.   *)
Decisive(o) ==
  IF o = "workspace" THEN {"support", "readiness"}
  ELSE IF o = "ownReadiness" THEN {"readiness"} ELSE {}

(* The allocation is of the day asked for and of the day of the AUM, or it *)
(* is refused (PortfolioAllocationSourceContractError).                    *)
IsOneAllocation(q) ==
  LET aum        == got[q][<<"allocations", "aum">>]
      allocation == got[q][<<"allocations", "allocation">>]
  IN /\ allocation.date = aum.date
     /\ asked[q] # Absent => allocation.date = asked[q]

Fails_Gathered(q, o) ==  \* mutant: the first failure is everybody's
  \E s \in Sources[o] : ~IsOk(got[q][<<o, s>>])
Fails(q, o) ==
  \/ \E s \in Required(o) : ~IsOk(got[q][<<o, s>>])
  \/ \E s \in Decisive(o) : got[q][<<o, s>>].status = "rejected"
  \/ o = "allocations" /\ ~IsOneAllocation(q)

(* Results that the request itself looks at, when it has all of them.      *)
OwnReads == {"ownReadiness", "ownCash", "ownPortfolio"}

IsComplete(q) == \A o \in Gathers[wanted[q]] : IsDone(q, o)

Finishes(q, how) ==
  /\ ending[q] = "running"
  /\ ending' = [ending EXCEPT ![q] = how]
  /\ UNCHANGED <<day, failing, cached, asked, wanted, got>>

(* The first operation that raises ends the request; the gather leaves the *)
(* others running.                                                         *)
Raise(q) ==
  /\ \E o \in Gathers[wanted[q]] :
        /\ IsDone(q, o)
        /\ Fails(q, o)
        /\ o \in OwnReads => IsComplete(q)
  /\ Finishes(q, "raised")

Reply(q) ==
  /\ IsComplete(q)
  /\ \A o \in Gathers[wanted[q]] : ~Fails(q, o)
  /\ Finishes(q, "answered")

-----------------------------------------------------------------------------
NextDay ==
  /\ day < LastDay
  /\ day' = day + 1
  /\ UNCHANGED <<failing, cached, asked, wanted, got, ending>>

ReadTurn(q) ==
  \E read \in ReadNames : Hit(q, read[1], read[2]) \/ Fetch(q, read[1], read[2])

LateTurn(q) == \E read \in ReadNames : Late(q, read[1], read[2])

ReadsNext ==
  \/ \E q \in Requesters : Call(q) \/ Raise(q) \/ Reply(q) \/ ReadTurn(q) \/ LateTurn(q)
  \/ NextDay

ReadsSpec == ReadsInit /\ [][ReadsNext]_readVars
=============================================================================
