---------------------- MODULE GatheredReadsProperties ----------------------
(* What the gathered views promise.                                        *)
EXTENDS GatheredReads

(* The state is well typed. *)
ReadsTypeOK ==
  /\ day \in Days /\ failing \in 0 .. MaxFailing
  /\ cached  \in [Keys -> Answers \cup {Absent}]
  /\ asked   \in [Requesters -> Days \cup {Absent}]
  /\ wanted  \in [Requesters -> Views]
  /\ got     \in [Requesters -> [ReadNames -> Answers \cup {Absent}]]
  /\ ending  \in [Requesters -> {"none", "running", "answered", "raised"}]

Shows(q, o) == ending[q] = "answered" /\ o \in Gathers[wanted[q]]

(* The date that a read's answer is of, if it has one. *)
DatesOf(q, o, S) == {got[q][<<o, s>>].date : s \in {t \in S : IsOk(got[q][<<o, t>>])}}

(* Core has named the day: as that of the AUM, or of its books, or by      *)
(* being asked for a business day.                                         *)
CoreNamedTheDay(q) ==
  \/ IsOk(got[q][<<"workspace", "aum">>])
  \/ asked[q] = Absent /\ IsOk(got[q][<<"workspace", "support">>])
  \/ asked[q] # Absent /\ Calendar[asked[q]] = asked[q]

(* routers/portfolio_workspace.py:53-57: without a review date the latest  *)
(* date resolved by lotus-core is used, and "Gateway then aligns the other *)
(* workspace sources to that resolved date".  The dated blocks of a        *)
(* workspace are of the date it carries, whatever the days on which they   *)
(* were read and cached, and whichever reads failed.                       *)
WorkspaceIsAligned ==
  \A q \in Requesters :
    Shows(q, "workspace") /\ CoreNamedTheDay(q) =>
      DatesOf(q, "workspace", {"aum"} \cup SecondStage) \subseteq {Label(q)}

(* routers/portfolio_book.py:34-36, of a book whose date was asked for: its *)
(* holdings, allocations and cash are of one date, read and cached when     *)
(* they may be.                                                             *)
BookDates(q) ==
  DatesOf(q, "positions", Sources["positions"])
    \cup DatesOf(q, "allocations", Sources["allocations"])
    \cup DatesOf(q, "ownCash", {"cash"})

BookIsAligned ==
  \A q \in Requesters :
    ending[q] = "answered" /\ wanted[q] = "book" /\ asked[q] # Absent =>
      BookDates(q) = {asked[q]}

(* What one answer shows is of one date, the one it carries                *)
(* (PortfolioService.get_portfolio_workspace and its book).                *)
SectionsAgree == WorkspaceIsAligned /\ BookIsAligned

(* The same of every book, as the router has it.                           *)
BookIsOneDate ==
  \A q \in Requesters :
    ending[q] = "answered" /\ wanted[q] = "book" => Cardinality(BookDates(q)) = 1

-----------------------------------------------------------------------------
(* That an answer comes, without fairness: a request that has none can     *)
(* take a step, and every step of it brings the answer nearer.             *)

(* The reads of q's request that wait for an answer.                       *)
Unread(q) ==
  {read \in ReadNames : read[1] \in Gathers[wanted[q]] /\ got[q][read] = Absent}

(* A running request can read something, or it has read everything, when   *)
(* it is answered or refused: the stages of a workspace (portfolio_        *)
(* workspace_sources.py:60-87) never wait for each other.                  *)
RequestsGoOn ==
  \A q \in Requesters : ending[q] = "running" =>
    \/ \E read \in ReadNames : Reading(q, read[1], read[2])
    \/ IsComplete(q)

(* platform_capabilities_service.py:231-232: a source that fails, or does  *)
(* not answer, is left out; the capabilities are never refused.            *)
CapabilitiesAreNotRefused ==
  \A q \in Requesters : wanted[q] = "capabilities" => ending[q] # "raised"

(* Until its client asks again, what a request has read stays as it was    *)
(* read, although the entry it was read from may have been replaced; and   *)
(* each step of a request in progress reads one thing more or ends it.     *)
Asks(q) == ending[q] # "running" /\ ending'[q] = "running"

ReadsFillUp ==
  [][\A q \in Requesters : ~Asks(q) =>
       /\ wanted'[q] = wanted[q] /\ asked'[q] = asked[q]
       /\ \A read \in ReadNames : got[q][read] # Absent => got'[q][read] = got[q][read]
       /\ got'[q] # got[q] => Unread(q)' # Unread(q)
       /\ ending'[q] # ending[q] => ending[q] = "running" /\ got'[q] = got[q]]_readVars

-----------------------------------------------------------------------------
(* Core is called through clients whose calls end, in an answer or an      *)
(* error; nothing is assumed of the sources of the capabilities, whose     *)
(* timers fire.  An entry that is read again and again is found expired    *)
(* again and again: a hit does not prolong it (async_ttl_cache.py:51-55).  *)
FetchOf(key) ==
  \E q \in Requesters, read \in ReadNames :
    /\ key = CacheKey(read[2], DateArgument(q, read[1], read[2]))
    /\ Fetch(q, read[1], read[2])

ReadsFairness ==
  /\ \A q \in Requesters :
       /\ WF_readVars(wanted[q] # "capabilities" /\ ReadTurn(q))
       /\ WF_readVars(LateTurn(q))
       /\ WF_readVars(Raise(q) \/ Reply(q))
  /\ \A key \in Keys : SF_readVars(FetchOf(key))

ReadsFairSpec == ReadsSpec /\ ReadsFairness

(* platform_capabilities_service.py:69, :231-232: the capabilities are     *)
(* answered whichever sources fail and although none of them may ever      *)
(* answer.                                                                 *)
CapabilitiesAreAnswered ==
  \A q \in Requesters :
    ending[q] = "running" /\ wanted[q] = "capabilities" ~>
      ending[q] = "answered" /\ wanted[q] = "capabilities"

(* An error is cached like any other result (portfolio_upstream_access.py  *)
(* :35-45), and with an entry of yesterday a request may be refused today. *)
(* Neither lasts: of clients that keep asking, none is refused for ever    *)
(* once the sources have stopped failing.                                  *)
FailuresPass ==
  (\A q \in Requesters : []<><<Call(q)>>_readVars) =>
    <>[](\A q \in Requesters : ending[q] # "raised")
=============================================================================
