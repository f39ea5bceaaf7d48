---------------------------- MODULE MCFollowing ----------------------------
(* Plugins that follow something outside of the editor, one at a time: scope *)
(* GDB's threads, the workbench the files below a project's directories.     *)
(*   The workbench is taken in two parts.  In "lists" up to two directories  *)
(* with a file, a subdirectory and a file in it change under the project's   *)
(* monitors, and the queue is run as soon as something is in it, since no    *)
(* tags are made.  In "tags" there is one directory, tags are generated and  *)
(* documents open and close, without live update, under which no tags are    *)
(* made.                                                                     *)
(*   In scope, the first stop may be two frames deep, the second, which makes *)
(* what is shown of it outdated, is one; non-stop, all stops are.            *)
EXTENDS ScopeThreads, Workbench

CONSTANTS b, top, sub, inner

ParentOf == (top :> b) @@ (sub :> b) @@ (inner :> sub)
NoPrefix == {}

VARIABLE part

FollowingInit ==
  /\ part \in {"scope", "lists", "tags"}
  /\ ScopeInit
  /\ part # "scope" => ~async /\ ~all
  /\ WorkbenchInit
  /\ generate = (part = "tags")
  /\ part = "scope" => disk = {}
  /\ part # "lists" => ~live

ListsNext ==
  IF actions # <<>> THEN WbIdleQueueCallback ELSE WorkbenchNext /\ UNCHANGED docs

TagsNext == WorkbenchNext /\ Range(dirs') \subseteq {1} /\ ~live'

FramesNext ==
  /\ ScopeNext
  /\ \A t \in DOMAIN target' : target'[t].depth > 1 => target'[t].stop = 1 /\ ~async

FollowingNext ==
  /\ UNCHANGED part
  /\ \/ part = "scope" /\ FramesNext /\ UNCHANGED workbenchVars
     \/ /\ \/ part = "lists" /\ ListsNext
           \/ part = "tags" /\ TagsNext
        /\ UNCHANGED scopeVars

FollowingSpec == FollowingInit /\ [][FollowingNext]_<<part, scopeVars, workbenchVars>>
=============================================================================
