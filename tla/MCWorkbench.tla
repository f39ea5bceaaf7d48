---------------------------- MODULE MCWorkbench ----------------------------
(* A directory with a file and a subdirectory with a file.                   *)
EXTENDS Workbench

CONSTANTS b, top, sub, inner

ParentOf == (top :> b) @@ (sub :> b) @@ (inner :> sub)
NoPrefix == {}
=============================================================================
