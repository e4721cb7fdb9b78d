---------------------------- MODULE MCAgentQuery ----------------------------
(* A small instance of AgentQuery.                                         *)
EXTENDS AgentQuery

CONSTANTS q1, q2, ledger

TwoQueries == {q1, q2}
OneCanister == {ledger}
=============================================================================
