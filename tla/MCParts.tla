---------------------------------- MODULE MCParts ----------------------------------
(* Parts that are small by themselves, one of them at a time while the       *)
(* others are at rest.                                                       *)
(*   The language server plugin beside life cycle and synchronisation:       *)
(* progress on two servers, semantic tokens with arrays of up to two words   *)
(* (one that shrinks, one that grows and two of one length), every delta     *)
(* applied, every array decoded, and the chain on save with an action that   *)
(* is an edit, one that is a command, one that is both and one that has to   *)
(* be resolved.                                                              *)
(*   Scope over one thread, in sessions that run by themselves; and the end  *)
(* of git-changebar, with a tracked file and an untitled document.           *)
EXTENDS LspProgress, LspSemtokens, LspTokenEdits, LspTokenDecode, LspSave

CONSTANTS word1, word2, organize, fix, both, lazy, tracked, untitled, NULL

Arrays == {<<>>, <<word1>>, <<word1, word2>>, <<word2, word1>>}
Titles == {organize, fix, both, lazy}
WithEdit == {organize, both}
WithCommand == {fix, both}

VARIABLES scope, target, gdbUp, input, out, stops, created, async, all

Scope == INSTANCE ScopeThreads WITH
  Threads <- 1, Depth <- 1, MaxStops <- 1, MaxOut <- 2,
  SelectOnRunning <- TRUE, SelectOnStopped <- TRUE, SelectOnExited <- TRUE,
  SelectFollow <- FALSE, AutoRunExit <- TRUE

VARIABLES shown, contents, head, cached, tag, timer, jobs, worker, monitors,
          changed, reports, markers, undone, phase

Changebar == INSTANCE GitChangebar WITH
  Doc <- {tracked, untitled}, HasPath <- {tracked}, InRepo <- {tracked},
  MaxVersion <- 1, MaxEdits <- 1, MaxQueue <- 2, Background <- TRUE, CommitAnytime <- TRUE,
  current <- shown, text <- contents, cache <- cached, queue <- jobs

VARIABLE part

changebarVars == <<shown, contents, head, cached, tag, timer, jobs, worker, monitors, changed,
                   reports, markers, undone, phase>>
scopeVars == <<scope, target, gdbUp, input, out, stops, created, async, all>>
lspVars == <<progressVars, semtokensVars, editVars, decodeVars, saveVars>>
rest == <<lspVars, scopeVars, changebarVars>>

PartsInit ==
  /\ part \in {"progress", "semtokens", "edits", "decode", "save", "scope", "changebar"}
  /\ ProgressInit
  /\ SemtokensInit
  /\ IF part = "edits" THEN Given ELSE len = 0 /\ given = {} /\ data = <<>> /\ edits = <<>>
  /\ part # "decode" => tokens = <<>> /\ configured = {}
  /\ DecodeInit
  /\ SaveInit
  /\ Scope!ScopeInit /\ (part # "scope" => ~async /\ ~all)
  /\ Changebar!Init /\ (part # "changebar" => shown = tracked /\ head[tracked] = 0)

LspNext ==
  \/ /\ part = "progress" /\ ProgressNext
     /\ UNCHANGED <<semtokensVars, editVars, decodeVars, saveVars>>
  \/ /\ part = "semtokens" /\ SemtokensNext
     /\ UNCHANGED <<progressVars, editVars, decodeVars, saveVars>>
  \/ /\ part = "edits" /\ ApplyNext
     /\ UNCHANGED <<progressVars, semtokensVars, decodeVars, saveVars>>
  \/ /\ part = "decode" /\ DecodeNext
     /\ UNCHANGED <<progressVars, semtokensVars, editVars, saveVars>>
  \/ /\ part = "save" /\ SaveNext
     /\ UNCHANGED <<progressVars, semtokensVars, editVars, decodeVars>>

PartsNext ==
  /\ UNCHANGED part
  /\ \/ LspNext /\ UNCHANGED <<scopeVars, changebarVars>>
     \/ part = "scope" /\ Scope!ScopeNext /\ UNCHANGED <<lspVars, changebarVars>>
     \/ part = "changebar" /\ Changebar!Next /\ UNCHANGED <<lspVars, scopeVars>>
     \/ /\ \/ part = "edits" /\ edits = <<>>
           \/ part = "decode" /\ i = Len(tokens)
           \/ part = "changebar" /\ phase # "loaded"
        /\ UNCHANGED rest

(* Each part under its own fairness; a part at rest has none of its steps to *)
(* take.                                                                     *)
PartsSpec ==
  /\ PartsInit /\ [][PartsNext]_<<part, rest>>
  /\ WF_saveVars(part = "save" /\ Reply)
  /\ Scope!ScopeFairness
  /\ Changebar!Fairness

(* Every wait for GDB's prompt ends (ScopeThreads).                           *)
PromptReturns == Scope!PromptReturns

(* Unloading the plugin ends (GitChangebar).                                 *)
CleanupEnds == Changebar!CleanupEnds
===============================================================================
