------------------------------ MODULE MCReports ------------------------------
(* Small instance of Reports for TLC. *)
EXTENDS Reports

CONSTANTS W1, W2

\* The solo worker of the deployment, and two.
MCPools == {{W1}, {W1, W2}}
=============================================================================
