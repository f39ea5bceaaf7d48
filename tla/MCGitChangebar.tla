----------------------------- MODULE MCGitChangebar -----------------------------
(* GitChangebar with a tracked file and a file of no repository.             *)
EXTENDS GitChangebar

CONSTANTS a, other
===============================================================================
