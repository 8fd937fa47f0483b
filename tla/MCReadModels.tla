---------------------------- MODULE MCReadModels ----------------------------
(* Small instances of three services that make an answer of reads taken at *)
(* different instants, and that share no state: each behaviour is one of   *)
(* the discussion pack, of the portfolio workspace or book, or of the      *)
(* transaction summaries, while the others stay where they start.          *)
EXTENDS ReadModels, TLC

CONSTANTS none, q1

Given(version, life, consents, settled, package) ==
  [version |-> version, life |-> life, ledger |-> consents,
   reviewed |-> [c \in Reviewed |-> settled], package |-> package]

Consent1  == [rel |-> 1, approved |-> TRUE, at |-> 1]
Declined1 == [rel |-> 1, approved |-> FALSE, at |-> 1]
Report1   == [rel |-> 1, status |-> "available"]

(* A first version that the client declined and is asked about again, and  *)
(* a second version next to the consent, and to the report, of the first.  *)
MCStarts == {
  Given(1, "awaiting_consent", <<Declined1>>, TRUE, Report1),
  Given(2, "awaiting_consent", <<Consent1>>, TRUE, Report1)}

MCClients == {q1}

(* A Sunday that belongs to the day before, and a Monday. *)
MCCalendar == 0 :> 0 @@ 1 :> 0 @@ 2 :> 2

(* One transaction of last year and three of this year. *)
MCDateOf == 1 :> 0 @@ 2 :> 1 @@ 3 :> 1 @@ 4 :> 1

(* Each of the two dates is of a year of its own. *)
MCYearStart == 0 :> 0 @@ 1 :> 1

VARIABLE part

modelVars == <<vars, readVars, pageVars, part>>

MCInit ==
  /\ Init /\ ReadsInit /\ PagesInit
  /\ part \in {"pack", "reads", "pages"}
  /\ part # "reads" => failing = 0 /\ \A q \in Requesters : wanted[q] = "book"
  /\ part # "pack" => proposal = Given(1, "awaiting_consent", <<Declined1>>, TRUE, Report1)
  /\ day = 1 /\ ledger = {1}
  /\ \A q \in Requesters : wanted[q] = "book" => failing = 0

(* A client keeps to its view, and of the book asks always with a date or  *)
(* never.                                                                  *)
Keeps(q) ==
  /\ wanted'[q] = wanted[q]
  /\ wanted[q] = "book" /\ ending[q] # "none" => (asked'[q] = Absent) = (asked[q] = Absent)

MCNext ==
  \/ part = "pack" /\ Next /\ UNCHANGED <<readVars, pageVars, part>>
  \/ /\ part = "reads" /\ ReadsNext /\ \A q \in Requesters : Keeps(q)
     /\ UNCHANGED <<vars, pageVars, part>>
  \/ part = "pages" /\ PagesNext /\ UNCHANGED <<vars, readVars, part>>

MCSpec == MCInit /\ [][MCNext]_modelVars
=============================================================================
