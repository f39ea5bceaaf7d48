---- MODULE MCDebugger ----
(* The debugger with two places for breakpoints. *)
EXTENDS Debugger, FiniteSets

AnyButOutlived == SUBSET (Circumstance \ {"outlived"})
OnlyRestart == {{"restart"}}
====
