----------------------- MODULE MCParticipantExecution -----------------------
(* Instances of ParticipantExecution for TLC.                              *)
EXTENDS ParticipantExecution

\* Each template at and around its bounds.
MCParameters ==
  [kind : {"memo"}, len : {0, 64, 65}, control : BOOLEAN]
  \cup [kind : {"compute_budget"}, units : {9999, 10000, 25000, 175001, 200000, 200001},
        priority_fee : {0, 1000, 1001}]
  \cup [kind : {"local_token_housekeeping"}, amount : {0, 1000000, 1000001},
        close_account : BOOLEAN]
  \cup [kind : {"local_stake_lifecycle"}, lamports : {0, 1, 1000000, 1000001},
        deactivate : BOOLEAN]

OneMemo == {[kind |-> "memo", len |-> 5, control |-> FALSE]}
MCWindows == {[start |-> 1, end |-> 2]}
=============================================================================
