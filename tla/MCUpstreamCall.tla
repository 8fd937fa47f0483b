--------------------------- MODULE MCUpstreamCall ---------------------------
(* The argument lists that the callers of request_observed_fanout,         *)
(* request_observed_binary_fanout and request_with_retry_outcome use.      *)
EXTENDS UpstreamCallProperties

Default ==
  [supported |-> TRUE, binary |-> FALSE, maxRetries |-> 2, statuses |-> {},
   retryTimeouts |-> TRUE, retryAmbiguous |-> TRUE, follow |-> TRUE,
   keyed |-> FALSE, deadline |-> FALSE, core |-> FALSE]

\* advise_proposal_client.py create_proposal; lotus_ai_client.py
\* execute_workflow_pack.
Keyed == {[Default EXCEPT !.keyed = TRUE, !.retryTimeouts = t] : t \in BOOLEAN}

\* lotus_ai_client.py review actions, and the same without its timeout flag,
\* as tests/unit/test_http_resilience.py uses it.
Review == {[Default EXCEPT !.retryAmbiguous = FALSE, !.retryTimeouts = t, !.maxRetries = n] :
             t \in BOOLEAN, n \in {-1, 0, 1, 2}}

\* archive_client.py access preflight; core_auth_context.py with an
\* authority; archive_client.py download; a bound analytics read; the retry
\* on a status and the unsupported method of the tests.
Other ==
  {[Default EXCEPT !.deadline = TRUE, !.maxRetries = 0],
   [Default EXCEPT !.core = TRUE],
   [Default EXCEPT !.binary = TRUE],
   [Default EXCEPT !.follow = FALSE, !.retryTimeouts = FALSE],
   [Default EXCEPT !.statuses = {"busy"}],
   [Default EXCEPT !.supported = FALSE]}

AllCalls   == Keyed \cup Review \cup Other
\* advise_proposal_delivery_client.py create_report_request has no key.
ReportCall == {Default}
=============================================================================
