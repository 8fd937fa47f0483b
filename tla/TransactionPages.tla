-------------------------- MODULE TransactionPages --------------------------
(***************************************************************************)
(* The income and activity summaries of a portfolio (services/             *)
(* portfolio_transaction_summary.py): the ledger of lotus-core is read     *)
(* page by page from the start of the year to the end of the reporting     *)
(* window, each page through the cache under a key of its own, while       *)
(* transactions go on being booked.                                        *)
(*                                                                         *)
(* A transaction is known by its place in the order of the ledger, which   *)
(* is by date (sort_by "transaction_date", "asc").                         *)
(***************************************************************************)
EXTENDS Naturals, FiniteSets

CONSTANTS
  LastRow,   \* bound: the transactions are 1..LastRow
  DateOf,    \* DateOf[r]: the date of transaction r
  LastDate,  \* bound: the dates are 0..LastDate
  YearStart, \* YearStart[d]: the first of January of the year of d
  Today,     \* the date on the gateway's clock
  PageSize,  \* rows that the gateway asks for in a page
  Rolling,   \* days in a window whose start is not given, less one
  Readers,   \* requests for a summary
  NoDate     \* a parameter that is left out

Transactions == 1 .. LastRow
Dates        == 0 .. LastDate

ASSUME PagesAssumption ==
  /\ LastRow \in Nat /\ LastDate \in Nat /\ Rolling \in Nat
  /\ DateOf \in [Transactions -> Dates]
  /\ \A r, x \in Transactions : r < x => DateOf[r] <= DateOf[x]
  /\ YearStart \in [Dates -> Dates]
  /\ Today \in Dates
  /\ PageSize \in Nat \ {0}
  /\ NoDate \notin Dates

(* A page: how many rows it holds, and the ledger when Core made it.       *)
Pages    == [size : 0 .. PageSize, ledger : SUBSET Transactions]
PageKeys == Dates \X Dates \X (0 .. LastRow)

VARIABLES
  ledger,     \* the transactions that are booked
  backdated,  \* those that were booked before another of a later place
  pages,      \* the pages in the cache: <<from, to, skip>> -> page, or NoDate
  reader,     \* each request: step, window, skip
  listed,     \* listed[q][r]: how often r is among q's rows
  basis       \* basis[q]: what was booked when the oldest page of q was made

pageVars == <<ledger, backdated, pages, reader, listed, basis>>

Steps == {"none", "listing", "done", "refused"}
Idle  == [step |-> "none", from |-> 0, to |-> 0, skip |-> 0]

PagesInit ==
  /\ ledger    \in SUBSET Transactions
  /\ backdated = {}
  /\ pages     = [key \in PageKeys |-> NoDate]
  /\ reader    = [q \in Readers |-> Idle]
  /\ listed    = [q \in Readers |-> [r \in Transactions |-> 0]]
  /\ basis     = [q \in Readers |-> Transactions]

-----------------------------------------------------------------------------
Monus(a, b) == IF a > b THEN a - b ELSE 0

(* resolve_reporting_window.  The end is end_date or else as_of_date.      *)
WindowEnd(end) == IF end = NoDate THEN Today ELSE end
WindowStart(start, end) ==
  IF start = NoDate THEN Monus(WindowEnd(end), Rolling) ELSE start

(* A request for a summary, refused (400) if its window is reversed.       *)
Summarise(q, start, end) ==
  /\ reader[q].step # "listing"
  /\ reader' = [reader EXCEPT ![q] =
       [step |-> IF WindowStart(start, end) > WindowEnd(end) THEN "refused" ELSE "listing",
        from |-> WindowStart(start, end), to |-> WindowEnd(end), skip |-> 0]]
  /\ listed' = [listed EXCEPT ![q] = [r \in Transactions |-> 0]]
  /\ basis'  = [basis EXCEPT ![q] = Transactions]
  /\ UNCHANGED <<ledger, backdated, pages>>

(* The rows of the ledger L that are asked for, and the first n of them    *)
(* after skip.                                                             *)
YearRows(q, L) ==
  {r \in L : YearStart[reader[q].to] <= DateOf[r] /\ DateOf[r] <= reader[q].to}

Place_Descending(r, R) == Cardinality({x \in R : x > r})  \* mutant: the latest first
Place(r, R) == Cardinality({x \in R : x < r})

RowsAfter(R, skip, n) == {r \in R : skip <= Place(r, R) /\ Place(r, R) < skip + n}

Key(q) == <<YearStart[reader[q].to], reader[q].to, reader[q].skip>>

Advance_Limit(page) == PageSize  \* mutant: the pages are taken to be full
Advance(page) == page.size

(* A page is added to the rows; it is the last if it is empty or if the    *)
(* total that Core gave with it is reached.                                *)
Lists(q, page) ==
  LET R    == YearRows(q, page.ledger)
      rows == RowsAfter(R, reader[q].skip, page.size)
      skip == reader[q].skip + Advance(page)
      last == page.size = 0 \/ skip >= Cardinality(R)
  IN /\ listed' = [listed EXCEPT ![q] =
                     [r \in Transactions |-> listed[q][r] + IF r \in rows THEN 1 ELSE 0]]
     /\ basis'  = [basis EXCEPT ![q] = basis[q] \cap page.ledger]
     /\ reader' = [reader EXCEPT ![q] =
                     [reader[q] EXCEPT !.skip = skip, !.step = IF last THEN "done" ELSE "listing"]]

(* The page is in the cache and within its ttl ...                         *)
PageHit(q) ==
  /\ reader[q].step = "listing"
  /\ pages[Key(q)] # NoDate
  /\ Lists(q, pages[Key(q)])
  /\ UNCHANGED <<ledger, backdated, pages>>

(* ... or Core makes it now, of PageSize rows if there are as many: it may *)
(* have a lower limit of its own.                                          *)
PageFetched(q) ==
  LET left == Monus(Cardinality(YearRows(q, ledger)), reader[q].skip) IN
  /\ reader[q].step = "listing"
  /\ \E size \in 0 .. PageSize :
        /\ size <= left /\ (size = 0 => left = 0)
        /\ pages' = [pages EXCEPT ![Key(q)] = [size |-> size, ledger |-> ledger]]
        /\ Lists(q, [size |-> size, ledger |-> ledger])
  /\ UNCHANGED <<ledger, backdated>>

(* require_payload: an error answer raises (502).  It takes the place of   *)
(* the page in the cache, and raises again until Core is asked anew.       *)
PageFails(q) ==
  /\ reader[q].step = "listing"
  /\ pages'  = [pages EXCEPT ![Key(q)] = NoDate]
  /\ reader' = [reader EXCEPT ![q] = [reader[q] EXCEPT !.step = "refused"]]
  /\ UNCHANGED <<ledger, backdated, listed, basis>>

(* lotus-core books a transaction. *)
Book(r) ==
  /\ r \notin ledger
  /\ ledger'    = ledger \cup {r}
  /\ backdated' = IF \E x \in ledger : x > r THEN backdated \cup {r} ELSE backdated
  /\ UNCHANGED <<pages, reader, listed, basis>>

PagesNext ==
  \/ \E q \in Readers :
       \/ \E start, end \in Dates \cup {NoDate} : Summarise(q, start, end)
       \/ PageHit(q) \/ PageFetched(q) \/ PageFails(q)
  \/ \E r \in Transactions : Book(r)

PagesSpec == PagesInit /\ [][PagesNext]_pageVars
=============================================================================
