# Verification of Lotus Gateway

TLA+ models of the asynchronous core of the Lotus Gateway (`src/src/app`), model-checked with TLC on small instances and
proved with TLAPS for every value of their constants. Paths below are relative to `src/src/app` unless they begin with
`docs`, `wiki` or `tests`; the table of every definition and the lines it stands for is `PROJECT.json` (`map`).

The gateway is a FastAPI backend-for-frontend in front of nine services (`lotus-core`, `-performance`, `-risk`,
`-advise`, `-manage`, `-report`, `-archive`, `-idea`, `-ai`). It owns no durable state. What can go wrong in it is
concurrency on one event loop (shared cache fills, a process-wide bulkhead, cancellation at every `await`), time
(deadlines, budgets, cadences, retries), and answers of moving sources that are put together into one response.

## 1. Inventory

| Component | State | Operations and interactions | What is hard | What makes it correct |
| --- | --- | --- | --- | --- |
| Async TTL cache, `services/async_ttl_cache.py` | entries with an expiry, fills in flight, the scope of a view | `get_or_set[_with_status]`, `clear`, `discard`, `set`, `scoped`; the done-callback of a fill; used by the performance, portfolio, risk and brief services | a fill ends after its key was invalidated; waiters are cancelled or left behind; views of one store | no stale fill is stored, fills are shared, no key is poisoned, namespaces are apart |
| Attribution-trend bulkhead, `services/attribution_trend_orchestration.py` | the semaphore, per-request queue, results and workers, two process gauges | `run`, `execute`; one process-wide instance (`performance_workspace_attribution_trend_fetch.py`) | deadline and cancellations at any await, a permit given to a cancelled waiter | permits are conserved, no wake-up is lost, gauges are true, `run` ends and leaves no worker |
| Upstream call, `clients/http_*.py`, `observed_fanout.py`, `core_auth_context.py` | the attempt and the outcome | one logical request of any client, with retries, redirects and deadlines | an answer lost after the effect, redirected copies, trickled answers | an effect happens once where that is promised, errors are truthful, calls end |
| Analytics polling, `clients/lotus_analytics_*.py`, `execution_budget.py` | the budget, the poll state | submit, wait, read until there is a result | late answers, an accepted calculation behind a deadline, a source that never ends | the deadline is told as such and keeps the identity, the cadence is honoured, calls end |
| Proposal discussion pack, `services/proposal_discussion_pack_*.py` | none between calls; five answers within one | one GET: five concurrent reads of lotus-advise, projections, one retry | the source moves between the reads | nothing is shown as settled that was not, one transition is absorbed |
| Advisor brief, `services/advisor_brief_*.py` | briefs in the cache, runs and postures at lotus-ai | read a brief, record a review action | invalidation against fills in flight, a review that names no run | a reviewed brief is rebuilt, a review reaches the brief that was shown |
| Benchmark assignment, `services/performance_workspace_benchmark_assignment.py` | one cache key | resolve, refresh | absent and failed answers in a shared cache, late waiters | absence is never served from the past, failures are reported to all |
| Advisor book, `services/advisor_book_*.py` | none between calls; the budget, the actions counted so far | the members, then the values and the pages of the actions, side by side | a feed that moves between its pages, a budget used up half-way, one enrichment that fails | the coverage stated of the counts is earned; an enrichment degrades its own block; the request ends |
| Performance, risk and portfolio workspaces, workbench overview, advisor cockpit, platform capabilities (`services/performance_*`, `risk_*`, `portfolio_*`, `workbench_*`, `advisor_cockpit_*`, `platform_capabilities_*`) | cached answers | gathers in one or two stages, then pure projection | partial failure, reads of different instants | a failed optional source degrades only its own block; dates agree |
| Proposals, policy, copilot, DPM, reporting, archive, ideas, intake, source products (`services/proposal_*`, `advis*`, `dpm_*`, `report*`, `archive_*`, `idea_*`, `intake_*`, `source_*`, `domain_*`, `bank_demo_*`) | none | one upstream call each, shaped and checked | retried mutations (see upstream call) | the authority of the source |
| Clients, routers, contracts | none | paths, headers, payloads, validation | | |
| Contexts of a request (`middleware/*`, `dpm_manage_request_authority.py`, `principal_authority/*`) | context variables | set on entry, reset on exit | tasks that outlive the request inherit them | a tenant's answer is cached under that tenant |
| Service providers (`services/*_service_provider.py`) | module singletons and their settings signature | build, rebuild | a rebuild replaces caches and bulkhead at once | |
| Enterprise policy (`enterprise_readiness.py`), execution authority (`core_execution_authority.py`), observability, `main.py` | a drain flag, metrics | per-request decisions, signing, audit | | |

They interact by calls on one event loop. Shared mutable state is the caches (through `with_caller_headers`, which makes
scoped views of one store), the bulkhead's semaphore and gauges, and the sources themselves, which other clients change at
any time. A stretch of Python between two awaits is atomic; that is the grain of every action below.

## 2. Plan and modules

Built, in this order; `X` is the component, `XProperties` states its properties, `MC*` and `*.cfg` are the small instances,
`*Proofs` the theorems. A definition that ends in an underscore and a word is a mutant, a bug that could have been made
there; `PROJECT.json` says which property finds it.

| `X` | Models | Abstract specification | Proofs |
| --- | --- | --- | --- |
| `AsyncTtlCache` | the cache | `GenerationalCache`, refinement checked and proved | `AsyncTtlCacheProofs` |
| `AttributionTrend` | the bulkhead | `WindowBulkhead`, refinement checked and proved | `AttributionTrendProofs` |
| `UpstreamCall` | one call with its retries | `CarefulCall`, refinement checked and proved; `PreservesReplaySafety`, the documented promise | `UpstreamCallProofs` |
| `AnalyticsPolling` | one calculation; each exchange is one `UpstreamCall` seen from outside | | `AnalyticsPollingProofs` |
| `DiscussionPack` | the pack over a moving source | | `ReadModelsProofs` |
| `AdvisorBrief` | briefs and reviews, over a cache that does what `GenerationalCache` promises | | `AdvisorBriefProofs` |
| `BenchmarkAssignment` | one key of the performance cache | | `PerformanceProofs` |
| `EvidenceCompletion` | the evidence shown beside a performance view | | `PerformanceProofs` |
| `AdvisorBook` | one request for the book of an advisor, its values or its action items | | `AdvisorBookProofs` |
| `GatheredReads` | the portfolio views that gather cached reads of lotus-core, and the platform capabilities | | `ReadModelsProofs` |
| `TransactionPages` | the paged ledger behind the income and activity summaries | | `ReadModelsProofs` |

Components that share no state are checked in one instance: in `MCViews` (assignment, evidence, book), `MCReadModels`
(pack, gathered reads, pages; `ReadModels` composes them) and `MCBoundedWaits` (polling, gathered reads) each behaviour is one of *one* component, while
the variables of the others stay where they start, so that the state spaces add up and are not multiplied.

Next, in order of importance:

1. The workbench overview and the sandbox (`services/workbench_*`), whose changes are followed by reads.
2. The brief over the real cache: `AdvisorBrief` with an instance of `AsyncTtlCache` in the place of its own store.
3. Request contexts: what a shared fill inherits of the request that started it.

## 3. The models

**AsyncTtlCache.** `entries` and `inflight` are the two dictionaries; `fill` the tasks; `waiting` the callers behind
`asyncio.shield`. `get_or_set_with_status` is `Hit`, `Join`, `StartFill` or `StartDoneFill` (a factory whose future is done
already) and, later, `Resume` or `CancelWaiter`. `FinishFill` is the end of the factory's task and `PublishFill` its
done-callback, a turn later; both may come after `Clear`, `Discard` or `Set`. The lock guards a body without an await, so
it is never contended and the body is one action. Time is the remaining ttl of each entry. The history variable `gen`
counts what ended a key's contents. `GenerationalCache` is the promise: a caller is admitted against the current
generation, is given a value of exactly that one, and what is stored is current. Nothing in it is a task or a clock.

**AttributionTrend.** One action per stretch of `run`, of a worker and of the semaphore. `asyncio.Semaphore` of Python
3.11 is external and modelled as it is: a `value`, a line of waiters, `locked()` that looks at the line, a waiter that is
given a permit before it resumes, and hands it on when it is cancelled in between. Cancelling marks a task (`hit`); the
error is delivered later. Operations pass a `CancelledError` on, as every client here does. A request may be cancelled in
each of its awaits, the one in `finally` included. The deadline cannot fire before the workers have begun, since they were
scheduled before its timer. `WindowBulkhead`: at most `Limit` windows active, each at most once, with one final
disposition, none active when a request closes, and a verdict that is true of the windows. A request that its deadline or
a cancellation stops (`Stop`) starts no window and records no result from then on, and only such a request drops windows.

**UpstreamCall.** The attempt loop with the policy of `http_retry_policy.py`, for JSON and binary requests, below the
optional total deadline and the signed Core transport. A copy `<<attempt, hop>>` put on the wire may be processed at any
later time, also after its answer was given up. One redirect stands for a chain of them. The producer is external; one that
is sent a key replays what it did for it. `CarefulCall` is what an answer is worth to a caller that must decide whether to
submit a mutation again: a call that replays nothing ambiguous has one effect at most, "connection failure" means that there
is none and never will be, any other answer of the producer that the effect, if it is still missing, stays so, and only a
loss leaves it open. It knows neither attempts nor copies.

**AnalyticsPolling.** Timers count down with `Tick`, fire when due or later; an answer may be handled after the deadline.
The source answers anything: done, pending with any guidance and any result path, redirect, error, its own 504, or nothing.
An exchange has one outcome, what goes on inside is `UpstreamCall`'s. `bounded` calls carry the budget, `capped` ones a
number of reads; the interface allows both at once. At the cap the call ends with the status of the last read (`last`),
which of a bounded call may be a transient failure. A 202 may name its calculation without a path to its result (`named`):
it is returned as it is, but a deadline that it meets keeps its identity, as of one with a path (`accepted`).

**DiscussionPack.** `proposal` is what lotus-advise has recorded; `Answer(p)` takes one of the five answers from it, at its
own instant. The source is external and lawful: a proposal is ready or executed only with an approval of its version as the
latest consent, and awaits consent only without one; its ledger of consents is in the order of their sequence numbers. Everything the typed validation can refuse is one status,
`"malformed"`. `held` collects the controls that were settled at some instant of the attempt, `excuses` the legitimate
reasons to refuse. Approvals other than client consents take part in no decision.

**AdvisorBrief.** A fill is named by the run it executes. The posture of a run is read in two steps (consumer view,
operator profile) and the rest of a load in a third; other clients review runs between them. `Post` covers the commit and
the answer of a review; a commit whose answer is lost is `PostFails` with `ReviewElsewhere`. One key per scope:
`ClearElsewhere` is the clear by a review of another brief of the scope. `settled` and `kept` are history. The end of a fill
and its done-callback, which the loop runs next, are one step (`Publish`, `Break`): a request between the two joins the fill
and has its end at once, here as one that joined before it. `AsyncTtlCache` has them apart.

**BenchmarkAssignment.** One key. A fetch is a fill or a refresh; its answer reflects the assignment at one instant, and may
be handled much later. `HitCode`, `HitMissing`, `Join`, `StartFill` begin a request; `Resume` and `Refreshed` end it,
`Cancel` may. Callers that name a benchmark do not come here, and those that pass no list of warnings report nothing.
An exception of a fetch is recorded by the gather of `fetch_benchmark_context`.

**EvidenceCompletion.** One request for a view of some calculations. lotus-performance writes the execution, the lineage and
the execution's stage for it at different instants (`SourceMoves`), and each read takes what is there when it is answered,
or fails. It fails in two ways: refused (a status of 400 or more, the client's own 503 included), or misshapen (a lower
status without the status of a calculation). `ReadAnswered` is one read of a gather; the second of them decides what follows
(`Follows`): the end, a sleep and a poll, or the one extra read of the execution (`RefreshEnds`). That one leaves what there
is only if it is refused: a misshapen answer takes its place, as in a gather. `AssemblesView` is the label. Of complete
evidence it is no better than `quality`, the states of the source supportability of the calculations' own results, which the
request had before it began (`Resolved`); of incomplete evidence the code does not ask for them. `began`, `spoilt` and
`misses` (refused reads of the execution in a row) are history.

**AdvisorBook.** `route` is one of the three that ask for a book. The members come first (`MembersFail`, `MembersLate`,
`BookIsEmpty`, `BookHasMembers`), then `value` and `actions`, the two blocks, are read side by side. An action is its place
in the order of the feed at lotus-advise; `PageAnswered` is a page with what follows it: `Absorbs`, and `AfterPage` for the
end of the read. The source is external: a cursor names the last action given or counts them (`keyed`), a page states the
number of all actions or does not, and a cursor may stick or end too early (`faulty`). `FeedChanges` adds an action or
removes one between two pages. `budget` is the elapsed budget of the request, which the route of the values has not.
`first`, `sizes`, `changes`, `silent` and `faulty` are history. A page is a set: one that repeats an action within itself,
or that is not in order, is not modelled.

**GatheredReads.** `Gathers` says which operations a view gathers, `Sources` what an operation reads, `After` which answers a
read waits for; `Required` and `Decisive` which failures end the view. A read is `Hit` (the cache has the key) or `Fetch`
(it has not, or the entry is over; the source answers *today*). `day` is Core's business date; `Calendar` maps a day to the
business day it belongs to, which is what Core answers for. `failing` bounds the reads that fail, by rejection or otherwise,
and their answers are cached like any other. Capability reads go past the cache and may be given up (`Late`). A request that
raises leaves its other reads running. What one caller joins of another's fill is a hit here; fills are `AsyncTtlCache`'s.
The workspace's optional clients come in pairs (`Enrichments`), as the settings configure them.

**TransactionPages.** A transaction is its place in the ledger's order, which is by date. `Summarise` resolves the window,
`PageHit` and `PageFetched` add the rows of a page made of the ledger then, or of the ledger now, until a page is empty or
the page's own total is reached. Core may answer fewer rows than it is asked for. `Book` adds a transaction at any place;
`backdated` and `basis` (what was booked when the oldest page of the request was made) are history.

What the models assume of lotus-core, which is not in this repository: an AUM answer carries `resolved_as_of_date`; the
business day of a business day is itself; a page has a row if there is one left. The reporting currency is fixed and
`include_projected` is off, so that both stay out of the keys. The activity read of the insights view is one read in
`GatheredReads`; its pages are `TransactionPages`'s.

## 4. Runs

Bounds are constants in each `.cfg`; deadlock is checked where the system goes on for ever (`cache_all`, `trend_*`), and
switched off where a call ends or the supply of runs, fetches, days or moves is used up.

| Run | Instance | Shows |
| --- | --- | --- |
| `cache_all` | two callers of one scoped view and the root view, one key, two fills alive at once, ttl 1, one invalidation per key, fairness | `TypeOK`, `GenerationFence`, `OneFillPerGeneration`, `OnlyShutdownCancelsFills`, `NothingIsHeld`, `ImplementsGenerationalCache` |
| `trend_all` | requests of three windows, of one and of none, two permits, fairness | `TypeOK`, `NoLostWakeup`, `QueuedGaugeExact`, `ImplementsBulkhead`, `EveryRequestEnds` |
| `trend_gauge` | one request of two windows, one permit | violates `QueuedGaugeCountsWaitingWindows`, see section 6 |
| `upstream_all` | every argument list that the clients and their tests use, retries from -1 to 2, fairness | `TypeOK`, `TakesEffectOnce`, `ImplementsCarefulCall`, `CallsEnd` |
| `upstream_keyless` | the default argument list | violates `PreservesReplaySafety` |
| `polling_reason` | bounded calls | violates `ExpiryGivesReasonCode` |
| `brief_all` | two advisors of one context, one of another, two runs, two review states each | `TypeOK`, `ReviewedBriefIsRebuilt`, `ReviewShowsItself`, `ReviewReachesShownBrief`, `BriefStaysInContext` |
| `views_all` | assignment: three requests, three fetches, no assignment and then two codes; evidence: two calculations, one poll, each set of qualifications; book: three actions, pages of two, three pages, a budget of one tick, two changes of the feed; fairness | `TypeOK`, `AbsenceIsNotCached`, `FailureIsTold`, `EvidenceIsTrue`, `ExecutionIsKept`, `CoverageIsEarned`, `OnlyRefreshesGoBack`, `MCViewsAreMade` |
| `readmodels_all` | pack: two starting proposals, two versions, two moves of the source, one answer that is no evidence; reads: one client of workspace or book, a Sunday and a Monday, one failure; pages: four transactions on two dates, pages of two | `ReadModelsTypeOK`, `NoFalseReassurance`, `ExecutionIsConsented`, `OneTransitionIsAbsorbed`, `SectionsAgree` (`WorkspaceIsAligned` and `BookIsAligned`), `LedgerIsListedOnce` |
| `book_dates` | one client of a book without a date | violates `BookIsOneDate` |
| `window_year` | a window that begins in the year before its end | violates `RequestedWindowIsListed` |
| `waits_all` | polling: budgets of 0 to 4 ticks, caps of 1 to 3 reads, guidance of 0, 1 and 3 ticks around a fallback of 2; reads: a client of liquidity or capabilities, one failure; fairness | `TypeOK`, `BoundedAnswer`, `DeadlineKeepsIdentity`, `ReadsInTime`, `MCCallsEnd`, `MCReadsEnd` |

Why the bounds are enough. *Cache:* a stale fill needs one fill that was detached and one that took its place, and the
root view clears what the scoped view fills; two callers of one view share a fill, and one that gave up may come again. *Bulkhead:* three windows on two
permits make a worker take a second window; a second request competes for the permits; a lost wake-up needs one waiter
given a permit and one behind it. *Upstream:* a replay needs one lost answer, and after two retries the states repeat.
*Polling:* the cadences are shorter than, equal to and longer than the budgets, zero included. *Pack:* one move makes two
reads disagree; two are needed to see the retry both succeed and fail. *Brief:* one run to be reviewed, another to replace
it; two advisors race, and the third is in another scope. *Benchmark:* a request makes at most one fetch, so three fetches
leave no request without; two codes are needed to go back from one to the other. *Evidence:* one poll shows what a later
gather does to an earlier one; two calculations are needed for a label of both; the execution of the second is complete at
the source from the start, its lineage ends or does not, and its reads may fail. All sets of qualifications of the results
occur; as they only matter for the label of complete evidence, where there are any the second calculation is complete at the
source from the start, while its reads may fail. *Book:* three pages of one action or two
reach the bound on pages and a feed that is read to its end; an action that leaves and another that comes are two changes,
and a budget of one tick is used up before, between and after the reads. *Reads:* one client suffices, as requests
meet only in the cache, where what an earlier request left is as good as another's; two business days make stale entries,
and the Sunday between them a day that is answered for another. *Pages:* four rows on pages of two make a request cross a
page that grew, and two dates a window that begins before the year. Symmetry is used for advisors of one
context, runs, fills and requests, never in runs with liveness.

**Fairness.** The event loop runs what is ready and fires timers that are due. `cache_all`: tasks and callbacks run, and
a fill ends, as every upstream request has a timeout; `NothingIsHeld` says that then every waiter returns and every slot is
released. `trend_all`: workers, timers and clean-up run; nothing is assumed of operations, which need not end, and
cancellation need not come. `upstream_all`: the loop and the deadline; the network owes nothing, so `CallsEnd` says that a
call with a deadline ends, and one without *if* no exchange hangs for ever. `waits_all`: time passes and timers fire
(`PollingFairness`); a bounded call ends though the source never answers, a capped one if its exchanges end; the
capabilities end as `wait_for` gives up on a source that does not. For the liquidity, fairness is strong and per key
(`MCReadsFairness`): a client that goes on asking comes past the ttl of every entry, since a hit does not prolong it; so a
cached failure is passed once the source answers again. `views_all`: the reads of the evidence are answered or given up, and
sleeps end (`EvidenceFairness`); of the book only that time passes, the budget's timers fire and a complete answer is
returned (`LoopTurn`), so that it ends though no source ever answers. The other runs check safety only.

## 5. Theorems

Every theorem is about all values of the constants that satisfy the named assumptions of the module (which TLC evaluates in
the runs). Each proof module has the inductive invariant, the lemmas that the initial states satisfy it and that each action
keeps it, and the theorems, which follow from it.

| Module | Proved | The invariant, and why it is needed |
| --- | --- | --- |
| `AsyncTtlCacheProofs` | `TypeOK`, `GenerationFence`, `OneFillPerGeneration`, `OnlyShutdownCancelsFills`, `ImplementsGenerationalCache`; `FullKeyInjective`, `NamespacesAreApart`, `NothingIsStranded`, `FillsGoForward` | The fence is not inductive: a fill that may still be stored must hold the slot of its key in the current generation, or belong to an earlier one for good. Namespaces need that scope and key can be told apart in a full key, from the assumption that no key begins with a header tuple. For the refinement, each step of the cache maps to a step or a stutter of `GenerationalCache` under the invariant. `NothingIsStranded` follows from the same invariant. |
| `AttributionTrendProofs` | `TypeOK`, `QueuedGaugeExact`, `PermitsHold`, `NoLostWakeup`, `ImplementsBulkhead`; `NobodyIsStuck`, `TurnsAreUsedUp` | A busy worker owns a window of its request that nobody else has; one in line has not started its window; workers live only inside their request; `queuedCount` is the number of windows still to be admitted. The counts are cardinalities, so each action's effect on the set is a lemma. For `NoLostWakeup`: every waiter stands in the line (`LineInv`). For the refinement (`RefInv`): a window with a result was started and that of a busy worker has none; nobody has stopped the workers of a request that is still to be complete, and each index they took has a result or an owner; a request that timed out has an unfinished window whose worker can only unwind. For `NobodyIsStuck` (`TurnInv`): a request that nobody stopped leaves its wait only when its workers are done, a worker that has ended carries no `CancelledError`, and an idle request has no workers. |
| `UpstreamCallProofs` | `TypeOK`, `TakesEffectOnce`, `ImplementsCarefulCall`; `ConnectFailureMeansUnsent`, `Bounded`, `SignedStaysHome`, `StepsRunOut` | A cautious call has at most the copy of its current attempt on the wire, and none when it may make another. For the refinement (`AnswerInv`): what a careful call waits for is on the wire or processed, and once it has told anything but a loss, none of its copies is still on the way. `Bounded` and `SignedStaysHome` are local to the loop. |
| `AnalyticsPollingProofs` | `TypeOK`, `BoundedAnswer`, `DeadlineKeepsIdentity`, `ReadsInTime`; `AuthorityHome`, `BudgetEndsSleep`, `BudgetRunsOut`, `CapRunsOut` | A result is read only of an accepted calculation at an admitted place, and a sleep outlasts the cadence or the budget. For the last three: no sleep outlasts the budget (`TurnInv`). |
| `AdvisorBriefProofs` | `TypeOK`, `ReviewedBriefIsRebuilt`, `BriefStaysInContext`, `ReviewShowsItself`, `ReviewReachesShownBrief` | A stored or joinable brief belongs to its scope; a settled run is neither stored nor in a joinable fill, because its review cleared the scope that executed it. For the answers to reviews (`ReviewInv`): the posture read after an action is as late as the action; a scope has no joinable fill while it has a brief, so that none takes the place of the one that was shown. |
| `PerformanceProofs` | `TypeOK`, `AbsenceIsNotCached`, `FailureIsTold`, `OnlyRefreshesGoBack` of the assignment; `EvidenceIsTrue`, `ExecutionIsKept`, `GathersAwait`, `PollsRunOut` of the evidence | A refresh's fetch is nobody else's; a request awaits only fetches that had not ended when it began; a fill that may still be stored has not been answered before the newest revision the cache has held. Of the evidence: what is shown is no better than the source; an execution shown as refused has been refused just before; while nothing failed, what was complete from the start is shown complete. |
| `AdvisorBookProofs` | `CoverageIsEarned`, `BookTypeOK`; `EnrichmentsDegrade`, `BookRunsOut` | The totals are sizes the feed has had, and if all pages stated theirs, one change makes two of them differ (`TotalInv`); of a feed that stands still, at a source without fault, what was read is exactly what lies before the cursor, by name or by count (`StillInv`). That two changes can undo each other is why the third part of the property stops at one. |
| `ReadModelsProofs` | `ReadModelsTypeOK`; `SectionsAgree` (`WorkspaceIsAligned`, `BookIsAligned`), `RequestsGoOn`, `CapabilitiesAreNotRefused`, `ReadsFillUp`; `LedgerIsListedOnce`; `NoFalseReassurance`, `ExecutionIsConsented`, `OneTransitionIsAbsorbed` | *Gathered reads.* Four parts: what Core answered for a day is of its business day, in the cache (`CacheInv`) and in every request (`DateInv`); the second stage of a workspace is read after the first (`StageInv`), so that the date it asked for no longer changes; an answered view is whole (`EndInv`). The workspace needs that the business day of a business day is itself. *Pages.* A cached page is of a snapshot of the ledger and ends within its rows (`PageInv`); the rows listed so far are exactly those before `skip` in the ledger of now, and at the end no fewer than the oldest page knew of (`RowsInv`), unless something was booked before a row that was there. That rows booked at the end leave the first `n` as they are is counting, and takes most of the proof. *Pack.* Each answer is of a proposal that stood at some instant of this attempt, whose settled controls are in `held` and whose reasons to refuse are in `excuses`; as long as there is no excuse and every move belongs to an earlier attempt, all answers are of the proposal as it is now (`ReadingInv`); a second attempt follows only a move or an excuse. The last record of the ledger is the latest consent because the ledger is in order. |

Every invariant and every action property that a passing run checks is stated by a theorem, and so are the three refinements.
Only model-checked are the liveness properties: liveness under fairness is out of the prover's reach, and so is `ENABLED`.
What they rest on, besides fairness, is safety, and that part is proved for every value of the constants: somebody always
has a turn, which is written as the guard of an action, and turns are used up, since every step lowers what is left of them
or keeps a rank from falling.

| Property checked | Someone has a turn | Turns are used up |
| --- | --- | --- |
| `NothingIsHeld` | `NothingIsStranded`: a caller waits for a fill, and a slot is held by one, that the loop has still to run, to publish or to hand over | `FillsGoForward` |
| `EveryRequestEnds` | `NobodyIsStuck`: a request or a worker of it can go on, whatever its operations and the others do; at the end all permits are back | `TurnsAreUsedUp` |
| `CallsEnd` | the loop itself, which the code has at every point of an attempt | `StepsRunOut`: every step except those of the producer lowers `StepsLeft` |
| `MCCallsEnd` | `BudgetEndsSleep`: no sleep outlasts the budget | `BudgetRunsOut`, `CapRunsOut` |
| `MCReadsEnd` | `RequestsGoOn`: there is a read to make, or all are made | `ReadsFillUp`; `CapabilitiesAreNotRefused` for the way it ends |
| `MCViewsAreMade`, evidence | `GathersAwait`: a gather that goes on awaits an answer, and ends with the last | `PollsRunOut`: every turn lowers `StepsOf` |
| `MCViewsAreMade`, book | the loop: when the budget is used up, what waits is cut off | `BookRunsOut`; `EnrichmentsDegrade` for the way a workspace ends |

That guards hold is not yet that the actions are enabled (which the runs show), and the step from both columns to the
liveness property is TLC's. These theorems state properties that no run lists, as the liveness property of the same row is
the stronger one there; TLC has been used on them before they were proved.

The readiness, insights, workflow, positions and allocations views are instances of what
`ReadModelsProofs` proves and are in no run. What recursive definitions compute for every input cannot be proved with the
installed provers either; no module here has one.

## 6. What the runs found

- **A gauge that leaks** (`trend_gauge`). A cancellation that arrives while `run` already waits in its `finally` block for
  the cancelled workers (`attribution_trend_orchestration.py:111`) skips the rest of the block: the windows that never ran
  stay in the queued gauge for the life of the process, and no request state is recorded. `QueuedGaugeExact` says that this
  is the only way for it to be wrong.
- **Keyless mutations are replayed** (`upstream_keyless`). With default arguments a POST without an idempotency key is sent
  again after its answer was lost, although `docs/standards/durability-consistency.md:18` promises replay-safe behaviour.
- **A deadline without its reason code** (`polling_reason`). A 504 of the source on the submission, handled after the
  budget has expired, is returned as it is, although `docs/standards/scalability-availability.md:74-75` promises
  `ASYNC_RESULT_DEADLINE_EXHAUSTED`.
- **A book of two dates** (`book_dates`). Without a date, positions, allocations and cash come from cache entries of their
  own, so one book can have sections of two business dates, although `routers/portfolio_book.py:34-36` promises one.
  `BookIsAligned` says that it cannot when a date is given.
- **A window cut at the turn of the year** (`window_year`). Both cuts of a summary are made from the rows since the first of
  January (`portfolio_transaction_summary.py:105`), so the default window of 30 days loses its December in January.
  `LedgerIsListedOnce` says that within the year nothing is lost or counted twice, unless it was booked backdated.

Not contradicted by any document, but worth knowing:

- the `set` of a late benchmark refresh can put an older assignment over a newer one (`OnlyRefreshesGoBack` says nothing
  else can);
- a review whose answer is lost leaves the old brief in the cache until it expires; after an expiry or a clear, a review
  action acts on a brief that its advisor has not seen;
- a refused last poll erases an execution that was read well before. Where the lineage completes, it takes two refusals in
  a row (`ExecutionIsKept`), because the refresh keeps the execution if it is refused; yet *one* answer below 400 that is no
  record (`response_payload` makes one of any text) replaces a well-read execution, in a poll or in the refresh;
- `build_calculation_evidence_view` takes statuses from the payloads of errors too, so that an error whose payload says
  "complete" would count; the model takes the payload of a refusal to have no such status;
- incomplete evidence is labelled "partial" even where the source calls a result "unavailable", since
  `resolve_evidence_state` is asked only where the evidence is complete; a result that is an error qualifies nothing;
- when both AUM and support fail, a workspace is labelled with the date of the gateway's clock, and its performance block
  asks for the date of the request where there is one, not for the label;
- an allocation of today that meets a cached AUM of yesterday is refused with a 502 until the AUM expires, and one asked for
  a day that is no business day always is;
- an action that leaves the feed of an advisor while another comes, between two pages, leaves its stated total as it was, so
  that counts of a set which the feed never was can be reported as complete; so can one change behind a page that states no
  total. The read is documented as bounded, not as a snapshot; `CoverageIsEarned` says that nothing else goes wrong;
- in the workbench overview a raising read of the analytics references fails the whole overview; in the sandbox the version
  comes from the answer to the change while positions and summary are read afterwards, so that another advisor's change can
  lie between them.

## 7. Not modelled

The rows of section 1 without a module, for the reasons given in `PROJECT.json` (`components`): they hold no state between
calls and make one upstream call, or are pure projections, or are planned (section 2). Most of the implementation is of
this kind: payload shapes, projections of a payload to another, request parsing and one-call services, which have
no behaviour beyond that of `UpstreamCall`. Within the modelled components: the text of narratives and messages, metrics
other than the two gauges, logs, the typed shapes of payloads, and the sums and
formats of figures. Process restarts lose caches, bulkhead and calls in flight together and there is nothing to recover, so
no model has a crash action; the loop's shutdown, which cancels tasks, is part of `AsyncTtlCache`. `PROJECT.json`
(`hazards`) lists what can go wrong at which line, and names those that no property covers yet.
