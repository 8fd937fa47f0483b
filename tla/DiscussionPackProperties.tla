---------------------- MODULE DiscussionPackProperties ----------------------
(***************************************************************************)
(* What is checked of DiscussionPack.                                      *)
(***************************************************************************)
EXTENDS DiscussionPack

Kinds == {"none", "pack", "upstream_error", "contract_invalid", "cancelled"}

(* Every variable has the type of what it stands for; an answer is of the  *)
(* part it was asked for, and only a pack has contents.                    *)
TypeOK ==
  /\ proposal \in Proposals
  /\ requested \in Versions \cup {Nothing}
  /\ phase \in {"idle", "reading", "done"}
  /\ attempt \in {0, 1}
  /\ \A p \in Parts : reads[p] # Nothing =>
        /\ reads[p].status \in Statuses
        /\ Ok(p) => reads[p].view.version \in Versions
  /\ outcome.kind \in Kinds
  /\ outcome.kind = "pack" => outcome.life \in Lives /\ outcome.settled \subseteq Controls
  /\ moves \in 0 .. MaxMoves /\ faults \in 0 .. MaxFaults
  /\ held \subseteq Controls
  /\ turns \in 0 .. MaxMoves
  /\ excuses \subseteq {"version", "ledger", "malformed", "unreadable"}

(* A control shown as settled was settled, for the requested version, at   *)
(* an instant of the very attempt the pack was read in: not by evidence of *)
(* another version, nor by a decision that a later one had replaced, nor   *)
(* by an answer kept from the attempt before.  Since the pack asks for no  *)
(* attention only when all four are shown settled (projection :106-122),   *)
(* it never reassures by mixing the instants of two attempts.              *)
NoFalseReassurance ==
  outcome.kind = "pack" =>
    /\ outcome.settled \subseteq held
    /\ ~outcome.attention => held = Controls

(* A pack that shows a proposal as ready for execution or executed shows   *)
(* the client's approval too, and the approval stood for this version      *)
(* (workflow projection :181-194).                                         *)
ExecutionIsConsented ==
  outcome.kind = "pack" /\ outcome.life \in Executable =>
    outcome.consent = "approved" /\ "consent" \in held

(* One lifecycle or consent transition during the reads never fails the    *)
(* call (service :44-54): it is refused as contradictory only if the       *)
(* source moved at least twice, or gave it another reason to be.           *)
OneTransitionIsAbsorbed ==
  outcome.kind = "contract_invalid" /\ excuses = {} => turns >= 2
=============================================================================
