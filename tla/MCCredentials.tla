----------------------------- MODULE MCCredentials -----------------------------
(* Constants for model-checking Credentials. *)
EXTENDS Credentials

\* A period shorter than the grace period and one longer.
MCPeriods == {1, 3}
==============================================================================
