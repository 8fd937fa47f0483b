----------------------------- MODULE ReadModels -----------------------------
(***************************************************************************)
(* The discussion pack, the gathered portfolio reads and the transaction   *)
(* summaries as they run in one process: their steps interleave, and none  *)
(* touches the state of another (portfolio_upstream_access.py keeps the    *)
(* keys of pages and of other reads apart, and the pack has no cache).     *)
(***************************************************************************)
EXTENDS DiscussionPackProperties, GatheredReadsProperties, TransactionPagesProperties

ReadModelsSpec == Spec /\ ReadsSpec /\ PagesSpec

(* The state of all three is well typed, however their steps interleave    *)
(* (the packs of proposal_discussion_pack_service.py, and the reads and    *)
(* pages of portfolio_*.py).                                               *)
ReadModelsTypeOK == TypeOK /\ ReadsTypeOK /\ PagesTypeOK
=============================================================================
