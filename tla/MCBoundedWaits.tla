--------------------------- MODULE MCBoundedWaits ---------------------------
(* Small instances of two things that end although their sources may not   *)
(* answer, and that share no state: each behaviour is one of an analytics  *)
(* calculation, or of the reads of the platform capabilities or of the     *)
(* portfolio liquidity, while the other stays where it starts.             *)
EXTENDS MCAnalyticsPolling, GatheredReadsProperties, TLC

CONSTANTS q1

MCClients == {q1}

(* A first business day and a second one. *)
MCCalendar == 0 :> 0 @@ 1 :> 1

VARIABLE part

waitsVars == <<vars, readVars, part>>

MCInit ==
  /\ Init /\ ReadsInit
  /\ part \in {"polling", "reads"}
  /\ part # "polling" => call = CHOOSE c \in Both : TRUE
  /\ part # "reads" => failing = 0 /\ \A q \in Requesters : wanted[q] = "liquidity"
  /\ day = 0

(* A client keeps to its view, and asks for no date. *)
Keeps(q) == wanted'[q] = wanted[q] /\ asked'[q] = Absent

MCNext ==
  \/ part = "polling" /\ Next /\ UNCHANGED <<readVars, part>>
  \/ /\ part = "reads" /\ ReadsNext /\ \A q \in Requesters : Keeps(q)
     /\ UNCHANGED <<vars, part>>

(* ReadsFairness of the views and the keys that ReadsEnd is about: no key  *)
(* of the liquidity has a date here.                                       *)
Of(q, v) == part = "reads" /\ wanted[q] = v

MCReadsFairness ==
  \A q \in Requesters :
    /\ WF_readVars(Of(q, "liquidity") /\ ReadTurn(q))
    /\ WF_readVars(Of(q, "capabilities") /\ LateTurn(q))
    /\ WF_readVars(Raise(q) \/ Reply(q))
    /\ \A s \in Sources["liquidity"] :
         SF_readVars(Of(q, "liquidity") /\ FetchOf(<<s, Absent>>))

MCSpec ==
  /\ MCInit /\ [][MCNext]_waitsVars
  /\ part = "polling" => PollingFairness
  /\ MCReadsFairness

(* CallsEnd, of the behaviours that are of a calculation. *)
MCCallsEnd == part = "polling" => CallsEnd

(* FailuresPass, of the clients of the liquidity: a client that asks for a *)
(* Sunday's allocations is refused for ever.                               *)
MCReadsEnd ==
  /\ CapabilitiesAreAnswered
  /\ (\A q \in Requesters : Of(q, "liquidity")) => FailuresPass
=============================================================================
