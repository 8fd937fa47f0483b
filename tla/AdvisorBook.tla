---------------------------- MODULE AdvisorBook ----------------------------
(***************************************************************************)
(* One request for the book of an advisor: the workspace (services/        *)
(* advisor_book_workspace_service.py), the action items alone              *)
(* (advisor_book_action_items_service.py) or the values alone              *)
(* (advisor_book_summary_service.py).                                      *)
(*                                                                         *)
(* lotus-core says who is in the book; then its values, and the actions of *)
(* the advisor at lotus-advise, are read side by side, page after page of  *)
(* the actions, below one elapsed budget (execution_budget.py).  The feed  *)
(* of actions changes while it is read, its cursors mean what the source   *)
(* wants them to, and it may or may not state how many actions there are.  *)
(*                                                                         *)
(* An action is known by its place in the order of the feed.  The counts   *)
(* of an answer are made of the actions in `seen` and of nothing else.     *)
(***************************************************************************)
EXTENDS Naturals, FiniteSets

CONSTANTS
  LastAction, \* bound: the actions are 1..LastAction
  PageLimit,  \* ACTION_PAGE_SIZE
  MaxPages,   \* MAX_ACTION_PAGES
  Deadline,   \* composition_deadline_seconds, in ticks
  MaxChanges, \* bound: changes of the feed while it is read
  NotStated   \* a page without total_count; no total so far

Actions == 1 .. LastAction

ASSUME BookAssumption ==
  /\ LastAction \in Nat /\ MaxChanges \in Nat
  /\ PageLimit \in Nat \ {0} /\ MaxPages \in Nat \ {0} /\ Deadline \in Nat \ {0}
  /\ NotStated \notin Nat

VARIABLES
  feed,       \* the actions of the advisor that lotus-advise has now
  keyed,      \* its cursors name the last action given, or else count them
  route,      \* "workspace", "items", "values"
  scoped,     \* the caller presented a usable scope for lotus-advise
  budget,     \* remaining_seconds of the budget; 0 stands for <= 0
  stage,      \* "members", "facts", "answered", "refused", "timed out"
  cohort,     \* "unknown", "empty", "known"
  value,      \* the block of values
  actions,    \* the block of actions
  cursor,     \* the cursor of the next page; 0: none
  count,      \* pages read
  seen,       \* seen_action_ids
  total,      \* source_stated_total
  mixed,      \* inconsistent
  first,      \* history: the feed when the first page was answered
  sizes,      \* history: the sizes it has had since then
  changes,    \* history: how often it has changed since then
  silent,     \* history: some page stated no total
  faulty      \* history: some cursor stuck, or ended before the feed

readState == <<cursor, count, seen, total, mixed, first, sizes, silent, faulty>>
bookVars  == <<feed, keyed, route, scoped, budget, stage, cohort, value, actions, changes, readState>>

(* How a block stands.  "stated" with a coverage is one of the last two    *)
(* rows for the actions; "none" is a block that the route has not.         *)
Unavailable == {"unavailable", "late", "not presented"}
Partial     == {"page budget", "deadline", "mismatch", "inconsistent", "total not stated"}
Values      == {"none", "pending", "stated", "unavailable", "late"}
Coverages   == {"none", "pending", "not read", "complete", "unavailable", "not presented"} \cup Partial

BookInit ==
  /\ feed    \in SUBSET Actions
  /\ keyed   \in BOOLEAN
  /\ route   \in {"workspace", "items", "values"}
  /\ scoped  \in BOOLEAN
  /\ route # "workspace" => scoped
  /\ budget  = Deadline
  /\ stage   = "members"
  /\ cohort  = "unknown"
  /\ value   = "none"
  /\ actions = "none"
  /\ cursor = 0 /\ count = 0 /\ seen = {} /\ total = NotStated /\ mixed = FALSE
  /\ first = {} /\ sizes = {} /\ changes = 0 /\ silent = FALSE /\ faulty = FALSE

-----------------------------------------------------------------------------
(* run_request: what waits is cut off when the budget is used up, but an   *)
(* answer may be handled first.  The values alone have no budget.          *)
UsedUp_PerRequest == FALSE  \* mutant: the budget does not cut off what waits
UsedUp == budget = 0 /\ route # "values"

(* The blocks that a route fills.                                          *)
HasValues  == route # "items"
HasActions == route # "values"

Turns(how) ==
  /\ stage' = how
  /\ UNCHANGED <<feed, keyed, route, scoped, budget, changes, readState>>

(* An error, or an answer about the members that is unusable or            *)
(* INCOMPLETE, is the error of the request (403 or 502), and so is none in *)
(* time (504).                                                             *)
MembersFail ==
  /\ stage = "members"
  /\ Turns("refused")
  /\ UNCHANGED <<cohort, value, actions>>

MembersLate ==
  /\ stage = "members" /\ UsedUp
  /\ Turns("timed out")
  /\ UNCHANGED <<cohort, value, actions>>

(* A 404, or a book without members: nothing else is read.                 *)
BookIsEmpty ==
  /\ stage = "members"
  /\ cohort'  = "empty"
  /\ value'   = IF HasValues THEN "stated" ELSE "none"
  /\ actions' = IF ~HasActions THEN "none" ELSE IF scoped THEN "not read" ELSE "not presented"
  /\ Turns("answered")

(* The cohort is known: both blocks are begun, unless the budget is used   *)
(* up by then.                                                             *)
BookHasMembers ==
  /\ stage = "members"
  /\ cohort'  = "known"
  /\ value'   = IF ~HasValues THEN "none" ELSE IF UsedUp THEN "late" ELSE "pending"
  /\ actions' = IF ~HasActions THEN "none" ELSE IF ~scoped THEN "not presented"
                ELSE IF UsedUp THEN "deadline" ELSE "pending"
  /\ Turns("facts")

-----------------------------------------------------------------------------
(* The values: one bulk read.  Without budget its failure is the request's.*)
ValueComes(outcome) ==
  /\ stage = "facts" /\ value = "pending"
  /\ value' = outcome
  /\ UNCHANGED <<cohort, actions>>

ValueAnswered == ValueComes("stated") /\ Turns("facts")
ValueFails    == ValueComes("unavailable") /\ Turns(IF route = "values" THEN "refused" ELSE "facts")
ValueLate     == UsedUp /\ ValueComes("late") /\ Turns("facts")

-----------------------------------------------------------------------------
(* The actions.                                                            *)
ReadsFeed == stage = "facts" /\ actions = "pending"

(* The feed behind the cursor.                                             *)
Place(a) == Cardinality({b \in feed : b < a})
Behind   == {a \in feed : IF keyed THEN a > cursor ELSE Place(a) >= cursor}

Firsts(page) == \A a \in page, b \in Behind \ page : a < b

(* next is the cursor behind a page.                                       *)
IsBehind(next, page) ==
  IF page = {} THEN next = cursor
  ELSE IF keyed THEN next \in page /\ \A a \in page : a <= next
  ELSE next = cursor + Cardinality(page)

(* _final_coverage.                                                        *)
Final_Trusting == IF mixed' THEN "inconsistent" ELSE "complete"  \* mutant: no cursor, so complete
Final ==
  IF mixed' THEN "inconsistent"
  ELSE IF total' = NotStated THEN "total not stated"
  ELSE IF total' # Cardinality(seen') THEN "mismatch"
  ELSE "complete"

(* absorb.                                                                 *)
Drifts_Unchecked(stated) == FALSE  \* mutant: the latest total is taken
Drifts(stated) == stated # NotStated /\ total \notin {NotStated, stated}
Absorbs(page, stated) ==
  /\ seen'  = seen \cup page
  /\ mixed' = (mixed \/ page \cap seen # {} \/ Drifts(stated))
  /\ total' = IF stated = NotStated THEN total ELSE stated

(* What the read does after a page: it stops at a cursor that does not     *)
(* advance, ends without a cursor, and stops at its last page or with the  *)
(* budget.                                                                 *)
AfterPage(next) ==
  CASE next = cursor /\ next # 0 -> "inconsistent"
    [] next = 0                  -> Final
    [] OTHER -> IF count' = MaxPages THEN IF mixed' THEN "inconsistent" ELSE "page budget"
                ELSE IF UsedUp THEN "deadline" ELSE "pending"

(* A page is answered: the first actions behind the cursor, with the       *)
(* number of all or without it.  The next cursor is that behind the page,  *)
(* or none; a source at fault gives none too early, or the same again.     *)
PageAnswered ==
  /\ ReadsFeed
  /\ \E page \in SUBSET Behind, stated \in {NotStated, Cardinality(feed)} :
       /\ Cardinality(page) <= PageLimit /\ Firsts(page)
       /\ Absorbs(page, stated)
       /\ count' = count + 1
       /\ first' = IF count = 0 THEN feed ELSE first
       /\ sizes' = sizes \cup {Cardinality(feed)}
       /\ silent' = (silent \/ stated = NotStated)
       /\ \E next \in 0 .. LastAction :
            /\ next \in {0, cursor} \/ IsBehind(next, page)
            /\ faulty' = (faulty \/ (next = cursor /\ next # 0) \/ (next = 0 /\ page # Behind))
            /\ actions' = AfterPage(next)
            /\ cursor' = next
  /\ UNCHANGED <<feed, keyed, route, scoped, budget, stage, cohort, value, changes>>

FeedFails_Gathered ==  \* mutant: the failure is the workspace's
  /\ ReadsFeed
  /\ actions' = "unavailable"
  /\ Turns("refused")
  /\ UNCHANGED <<cohort, value>>

(* An error, or a page that the typed projection refuses.                  *)
FeedFails ==
  /\ ReadsFeed
  /\ actions' = "unavailable"
  /\ Turns(IF route = "items" THEN "refused" ELSE "facts")
  /\ UNCHANGED <<cohort, value>>

(* The budget cuts a page off: what was read before is kept.               *)
FeedLate ==
  /\ ReadsFeed /\ UsedUp
  /\ actions' = "deadline"
  /\ Turns("facts")
  /\ UNCHANGED <<cohort, value>>

BookAnswered ==
  /\ stage = "facts" /\ value # "pending" /\ actions # "pending"
  /\ Turns("answered")
  /\ UNCHANGED <<cohort, value, actions>>

-----------------------------------------------------------------------------
(* An action is added to the feed, or leaves it.  Before the first page    *)
(* any feed is as good as another.                                         *)
FeedChanges ==
  /\ ReadsFeed /\ count > 0
  /\ changes < MaxChanges
  /\ changes' = changes + 1
  /\ \E a \in Actions : feed' = IF a \in feed THEN feed \ {a} ELSE feed \cup {a}
  /\ sizes' = sizes \cup {Cardinality(feed')}
  /\ UNCHANGED <<keyed, route, scoped, budget, stage, cohort, value, actions,
                 cursor, count, seen, total, mixed, first, silent, faulty>>

BookTick ==
  /\ budget > 0 /\ route # "values"
  /\ stage \in {"members", "facts"}
  /\ budget' = budget - 1
  /\ UNCHANGED <<feed, keyed, route, scoped, stage, cohort, value, actions, changes, readState>>

BookNext ==
  \/ MembersFail \/ MembersLate \/ BookIsEmpty \/ BookHasMembers
  \/ ValueAnswered \/ ValueFails \/ ValueLate
  \/ PageAnswered \/ FeedFails \/ FeedLate
  \/ BookAnswered
  \/ FeedChanges \/ BookTick

BookSpec == BookInit /\ [][BookNext]_bookVars
=============================================================================
