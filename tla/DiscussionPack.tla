--------------------------- MODULE DiscussionPack ---------------------------
(***************************************************************************)
(* services/proposal_discussion_pack_*.py: one selected proposal version,  *)
(* read from lotus-advise by five concurrent requests, is projected to one *)
(* pack.  The source moves while the requests are answered, so the five    *)
(* answers may belong to different instants; the projection refuses what   *)
(* contradicts itself, and the whole set is read once more when lifecycle  *)
(* and consent contradict each other.                                      *)
(*                                                                         *)
(* The source answers a request at one instant, from what is recorded at   *)
(* that instant (Answer).  Texts, sections, hashes and identifiers are     *)
(* abstracted: an answer of status "malformed" is any successful answer    *)
(* that the typed validation refuses.  The approval ledger holds client    *)
(* consents only; other approvals take part in no decision.                *)
(***************************************************************************)
EXTENDS Naturals, Sequences, SequencesExt

CONSTANTS
  MaxVersion,  \* bound: proposal versions
  MaxLedger,   \* bound: consent records
  MaxMoves,    \* bound: moves of the source during the call
  MaxFaults,   \* bound: answers that are no evidence
  Starts,      \* proposals a call may find
  Nothing      \* no answer yet, no version, no report package

Parts     == {"detail", "narrative", "memo", "approvals", "delivery"}
Controls  == {"narrative", "memo", "package", "consent"}
Reviewed  == {"narrative", "memo"}
Versions  == 1 .. MaxVersion

(* Workflow states: the drafting and review states are one, and so are     *)
(* the ways in which a proposal is closed.                                 *)
Lives      == {"preparing", "awaiting_consent", "ready", "executed", "closed"}
Executable == {"ready", "executed"}

Consents == [rel : Versions \cup {Nothing}, approved : BOOLEAN, at : Nat]
Packages == [rel : Versions \cup {Nothing}, status : {"available", "pending"}]

Proposals == [version : Versions, life : Lives, ledger : Seq(Consents),
              reviewed : [Reviewed -> BOOLEAN], package : Packages \cup {Nothing}]

(* The ledger is appended to, under a clock that does not run backwards.   *)
InOrder(consents) == \A i, j \in DOMAIN consents : i <= j => consents[i].at <= consents[j].at

ASSUME PackAssumption ==
  /\ MaxVersion \in Nat \ {0}
  /\ MaxLedger \in Nat /\ MaxMoves \in Nat /\ MaxFaults \in Nat
  /\ Nothing \notin Nat
  /\ \A p \in Starts : p \in Proposals /\ InOrder(p.ledger)

(* An answer that the typed validation refuses, or an error status of any  *)
(* kind (restricted, missing, failed): the projection tells these apart    *)
(* in the evidence that it shows; no control is ready by any of them.      *)
Faults   == {"malformed", "unread"}
Statuses == Faults \cup {"ok"}

VARIABLES
  proposal,   \* what lotus-advise has recorded
  requested,  \* version_no of the request
  phase,      \* "idle", "reading", "done"
  attempt,    \* the loop variable, from 0
  reads,      \* reads[p]: the answer to the request for part p
  outcome,    \* what the call returned or raised
  moves,      \* bound: moves of the source so far
  faults,     \* bound: answers so far that are no evidence
  held,       \* history: the controls settled at some instant of this attempt
  turns,      \* history: lifecycle or consent moves since the call began
  excuses     \* history: what this call met that it may refuse

vars == <<proposal, requested, phase, attempt, reads, outcome, moves, faults, held, turns, excuses>>

-----------------------------------------------------------------------------
(* The source. *)

LastAt(p) == IF p.ledger = <<>> THEN 0 ELSE Last(p.ledger).at

(* The last consent on the current version is an approval.                 *)
LastApproved(p) ==
  \E i \in DOMAIN p.ledger :
     /\ p.ledger[i].rel = p.version /\ p.ledger[i].approved
     /\ \A j \in DOMAIN p.ledger : j > i => p.ledger[j].rel # p.version

(* The law of the source's own lifecycle, at every instant. *)
Lawful(p) ==
  /\ p.life \in Executable => LastApproved(p)
  /\ p.life = "awaiting_consent" => ~LastApproved(p)

(* The controls that are really settled for version v. *)
Settled(p, v) ==
  IF p.version # v THEN {} ELSE
    {c \in Reviewed : p.reviewed[c]}
    \cup (IF p.package # Nothing /\ p.package.rel = v /\ p.package.status = "available"
            THEN {"package"} ELSE {})
    \cup (IF LastApproved(p) THEN {"consent"} ELSE {})

(* Reasons in the source for a pack of version v to be refused: another    *)
(* version is current, or a consent record is not correlated or is         *)
(* contradicted at its own instant.                                        *)
Unclear(p) ==
  \E i, j \in DOMAIN p.ledger :
     \/ p.ledger[i].rel = Nothing
     \/ p.ledger[i].at = p.ledger[j].at /\ p.ledger[i].approved # p.ledger[j].approved
Reasons(p, v) == (IF p.version # v THEN {"version"} ELSE {}) \cup (IF Unclear(p) THEN {"ledger"} ELSE {})

Init ==
  /\ proposal \in {p \in Starts : Lawful(p)}
  /\ requested = Nothing
  /\ phase   = "idle"
  /\ attempt = 0
  /\ reads   = [p \in Parts |-> Nothing]
  /\ outcome = [kind |-> "none"]
  /\ moves   = 0
  /\ faults  = 0
  /\ held    = {}
  /\ turns   = 0
  /\ excuses = {}

(* The source moves to p, atomically. *)
MovesTo(p) ==
  /\ phase = "reading"
  /\ moves < MaxMoves
  /\ Lawful(p)
  /\ proposal' = p
  /\ moves'    = moves + 1
  /\ held'     = held \cup Settled(p, requested)
  /\ excuses'  = excuses \cup Reasons(p, requested)
  /\ UNCHANGED <<requested, phase, attempt, reads, outcome, faults>>

(* A consent is recorded and the lifecycle follows.  Two records may carry *)
(* the same timestamp; one of another version is not added later.          *)
RecordConsent ==
  \E rel \in {proposal.version, Nothing}, approved \in BOOLEAN, later \in {0, 1}, life \in Lives :
     /\ Len(proposal.ledger) < MaxLedger
     /\ MovesTo([proposal EXCEPT !.life = life,
                                 !.ledger = Append(@, [rel |-> rel, approved |-> approved,
                                                       at |-> LastAt(proposal) + later])])
     /\ turns' = turns + 1

Progress ==
  \E life \in Lives \ {proposal.life} :
     /\ MovesTo([proposal EXCEPT !.life = life])
     /\ turns' = turns + 1

(* A new version starts without reviews; older records and reports stay.   *)
NewVersion ==
  /\ proposal.version < MaxVersion
  /\ MovesTo([proposal EXCEPT !.version = @ + 1, !.life = "preparing",
                              !.reviewed = [c \in Reviewed |-> FALSE]])
  /\ turns' = turns + 1

(* The latest review of the narrative or of the memo settles or unsettles. *)
Review ==
  \E c \in Reviewed :
     /\ MovesTo([proposal EXCEPT !.reviewed[c] = ~@])
     /\ UNCHANGED turns

Report ==
  \E package \in Packages :
     /\ package.rel \in {proposal.version, Nothing}
     /\ MovesTo([proposal EXCEPT !.package = package])
     /\ UNCHANGED turns

-----------------------------------------------------------------------------
(* The gateway. *)

NoReads == [p \in Parts |-> Nothing]

Begin(v) ==
  /\ phase = "idle"
  /\ phase'     = "reading"
  /\ requested' = v
  /\ reads'     = NoReads
  /\ held'      = Settled(proposal, v)
  /\ excuses'   = Reasons(proposal, v)
  /\ UNCHANGED <<proposal, attempt, outcome, moves, faults, turns>>

(* What the answer to the request for a part holds, of the proposal p as   *)
(* it is recorded at that instant: each carries the proposal block, with   *)
(* the current version.                                                    *)
View(part, p) ==
  CASE part = "detail"    -> [version |-> p.version, life |-> p.life]
    [] part \in Reviewed  -> [version |-> p.version, settled |-> p.reviewed[part]]
    [] part = "approvals" -> [version |-> p.version, ledger |-> ToSet(p.ledger)]
    [] part = "delivery"  -> [version |-> p.version, package |-> p.package]

Answer(p) ==
  /\ phase = "reading"
  /\ reads[p] = Nothing
  /\ \/ /\ reads' = [reads EXCEPT ![p] = [status |-> "ok", view |-> View(p, proposal)]]
        /\ UNCHANGED <<faults, excuses>>
     \/ \E status \in Faults :
          /\ faults < MaxFaults
          /\ faults'  = faults + 1
          /\ reads'   = [reads EXCEPT ![p] = [status |-> status, view |-> Nothing]]
          /\ excuses' = excuses \cup (IF status = "malformed" THEN {"malformed"}
                                      ELSE IF p = "approvals" THEN {"unreadable"} ELSE {})
  /\ UNCHANGED <<proposal, requested, phase, attempt, outcome, moves, held, turns>>

Ok(p) == reads[p].status = "ok"

(* The typed validation of a successful answer: it binds every part to the *)
(* requested version.                                                      *)
Refused(p) == reads[p].status = "malformed" \/ (Ok(p) /\ reads[p].view.version # requested)

Current       == {r \in reads["approvals"].view.ledger : r.rel = requested}
Uncorrelated  == {r \in reads["approvals"].view.ledger : r.rel = Nothing}
LatestRecords == {r \in Current : \A x \in Current : x.at <= r.at}
AsLate(u)     == \A r \in Current : r.at <= u.at

(* project_discussion_consent: the latest decision on the requested        *)
(* version, unless a record without version is as late.                    *)
Consent ==
  IF ~Ok("approvals") THEN [state |-> "unread", decision |-> "not_recorded"]
  ELSE IF Current = {}
    THEN [state |-> IF Uncorrelated = {} THEN "supported" ELSE "partial", decision |-> "not_recorded"]
  ELSE IF \E u \in Uncorrelated : AsLate(u)
    THEN [state |-> "partial", decision |-> "not_recorded"]
  ELSE [state |-> "supported",
        decision |-> IF \E r \in LatestRecords : r.approved THEN "approved" ELSE "declined"]

(* Two decisions at the latest instant. *)
Tied ==
  /\ Ok("approvals") /\ Current # {}
  /\ \A u \in Uncorrelated : ~AsLate(u)
  /\ {r.approved : r \in LatestRecords} = BOOLEAN

(* project_discussion_package. *)
Package ==
  IF ~Ok("delivery") THEN [state |-> "unread", status |-> "not_requested"]
  ELSE LET package == reads["delivery"].view.package IN
    IF package = Nothing THEN [state |-> "not_available", status |-> "not_requested"]
    ELSE [state  |-> IF package.rel = requested THEN "supported" ELSE "partial",
          status |-> package.status]

(* validate_discussion_consent_lifecycle: lifecycle and consent contradict *)
(* each other.                                                             *)
Conflict_Unread ==  \* mutant: an unread ledger is no contradiction
  LET life == reads["detail"].view.life IN
  \/ life \in Executable /\ Consent.state = "supported" /\ Consent.decision # "approved"
  \/ Consent.state = "supported" /\ Consent.decision = "approved" /\ life = "awaiting_consent"

Conflict ==
  LET life == reads["detail"].view.life IN
  \/ /\ life \in Executable
     /\ Consent.state # "supported" \/ Consent.decision # "approved"
  \/ Consent.state = "supported" /\ Consent.decision = "approved" /\ life = "awaiting_consent"

(* _attention_required and _overall_state: false only when every source    *)
(* gave evidence of the version and every control is settled.              *)
ShownSettled ==
  {c \in Reviewed : Ok(c) /\ reads[c].view.settled}
  \cup (IF Package.state = "supported" /\ Package.status = "available" THEN {"package"} ELSE {})
  \cup (IF Consent.decision = "approved" THEN {"consent"} ELSE {})

AllRead  == phase = "reading" /\ \A p \in Parts : reads[p] # Nothing

Ends(result) ==
  /\ outcome' = result
  /\ phase'   = "done"
  /\ reads'   = NoReads
  /\ UNCHANGED <<proposal, requested, attempt, moves, faults, held, turns, excuses>>

(* The detail is mandatory: its failure is the gateway's error. *)
RaiseUpstreamError ==
  /\ AllRead
  /\ reads["detail"].status \in Faults \ {"malformed"}
  /\ Ends([kind |-> "upstream_error"])

Detailed == AllRead /\ reads["detail"].status \in {"ok", "malformed"}
Valid    == (\A p \in Parts : ~Refused(p)) /\ ~Tied

RaiseContractInvalid ==
  /\ Detailed
  /\ ~Valid
  /\ Ends([kind |-> "contract_invalid"])

Retry_KeepsReads ==  \* mutant: only what contradicts is read again
  /\ Detailed /\ Valid /\ Conflict
  /\ attempt = 0
  /\ attempt' = 1
  /\ reads'   = [reads EXCEPT !["detail"] = Nothing, !["approvals"] = Nothing]
  /\ held'    = Settled(proposal, requested)
  /\ UNCHANGED <<proposal, requested, phase, outcome, moves, faults, turns, excuses>>

Retry_Forever ==  \* mutant: every contradiction is read again
  /\ Detailed /\ Valid /\ Conflict
  /\ attempt' = attempt + 1
  /\ reads'   = NoReads
  /\ held'    = Settled(proposal, requested)
  /\ UNCHANGED <<proposal, requested, phase, outcome, moves, faults, turns, excuses>>

(* The first contradiction: the whole set is read again. *)
Retry ==
  /\ Detailed /\ Valid /\ Conflict
  /\ attempt = 0
  /\ attempt' = 1
  /\ reads'   = NoReads
  /\ held'    = Settled(proposal, requested)
  /\ UNCHANGED <<proposal, requested, phase, outcome, moves, faults, turns, excuses>>

GiveUp_AtOnce ==  \* mutant: range(1)
  /\ Detailed /\ Valid /\ Conflict
  /\ Ends([kind |-> "contract_invalid"])

GiveUp ==
  /\ Detailed /\ Valid /\ Conflict
  /\ attempt = 1
  /\ Ends([kind |-> "contract_invalid"])

Return ==
  /\ Detailed /\ Valid /\ ~Conflict
  /\ Ends([kind     |-> "pack",
           life     |-> reads["detail"].view.life,
           consent  |-> Consent.decision,
           settled  |-> ShownSettled,
           attention |-> ShownSettled # Controls])

(* The caller's task is cancelled, and gather cancels the requests. *)
Cancel ==
  /\ phase = "reading"
  /\ Ends([kind |-> "cancelled"])

Conclude == RaiseUpstreamError \/ RaiseContractInvalid \/ Retry \/ GiveUp \/ Return

Next ==
  \/ \E v \in Versions : Begin(v)
  \/ \E p \in Parts : Answer(p)
  \/ Conclude
  \/ Cancel
  \/ RecordConsent \/ Progress \/ NewVersion \/ Review \/ Report

Spec == Init /\ [][Next]_vars
=============================================================================
