--------------------------- MODULE JobLinkClaims ---------------------------
(***************************************************************************)
(* What comments and documents of the repository say of the job protocol   *)
(* and the code does not do. Each definition is checked by a run of its    *)
(* own, which finds the behaviour that contradicts it.                     *)
(***************************************************************************)
EXTENDS JobLink

\* agent-connection.ts:558-561: a hello must not fail "a receipt that is about
\* to print". A dispatch waiting for the frame thread is in no list the agent
\* reports, outlives the socket it came on, and prints after it was failed.
LostJobsStayUnprinted ==
    [][\A j \in Jobs : err[j] = "agent_lost_job" /\ j \notin paper => j \notin paper']_vars
=============================================================================
