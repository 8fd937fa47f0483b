--------------------- MODULE TransactionPagesProperties ---------------------
(* What the income and activity summaries are made of.                     *)
EXTENDS TransactionPages

(* The state is well typed. *)
PagesTypeOK ==
  /\ ledger \subseteq Transactions /\ backdated \subseteq ledger
  /\ pages  \in [PageKeys -> Pages \cup {NoDate}]
  /\ reader \in [Readers -> [step : Steps, from : Dates, to : Dates, skip : 0 .. LastRow]]
  /\ listed \in [Readers -> [Transactions -> 0 .. LastRow]]
  /\ basis  \in [Readers -> SUBSET Transactions]

(* Since the oldest page of q was made, a transaction of its rows was      *)
(* booked before one that was there already.                               *)
Upset(q) == YearRows(q, backdated \ basis[q]) # {}

(* list_transaction_rows (:133-167): while pages are read at different     *)
(* instants, some from the cache and some not, and the ledger grows at its *)
(* end, the rows of a summary are those of the year up to some             *)
(* transaction, each counted once, and none is missing that was there when *)
(* the oldest page was made.                                               *)
LedgerIsListedOnce ==
  \A q \in Readers :
    reader[q].step = "done" /\ ~Upset(q) =>
      /\ \A r \in Transactions : listed[q][r] <= 1
      /\ \A r \in YearRows(q, basis[q]) : listed[q][r] = 1
      /\ \A r, x \in YearRows(q, ledger) : x < r /\ listed[q][r] = 1 => listed[q][x] = 1

(* contracts/portfolio_activity_income.py:41, :77, :125: the totals of the *)
(* requested window are of the transactions of the requested window.       *)
InWindow(q, r) == reader[q].from <= DateOf[r] /\ DateOf[r] <= reader[q].to

RequestedWindowIsListed ==
  \A q \in Readers :
    reader[q].step = "done" /\ ~Upset(q) =>
      \A r \in basis[q] : InWindow(q, r) => listed[q][r] >= 1
=============================================================================
