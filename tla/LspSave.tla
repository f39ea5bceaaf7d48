-------------------------------- MODULE LspSave ---------------------------------
(***************************************************************************)
(* What the lsp plugin does around the saving of a document: the code      *)
(* actions matching command_on_save_regex are performed one after the      *)
(* other, each on the document the previous one left behind, then the      *)
(* document is formatted, then it is saved again (lsp-main.c 455-598,      *)
(* lsp-command.c, lsp-format.c).                                           *)
(*                                                                         *)
(* One document and its server.  Every request is answered by a callback   *)
(* of the main loop, with an error once the server is gone; meanwhile the  *)
(* user edits, saves and switches tabs.                                    *)
(***************************************************************************)
EXTENDS Naturals, FiniteSets

CONSTANTS
  Title,            \* code actions whose titles match command_on_save_regex
  Edits, Commands,  \* those with an edit, those with a command; the others
                    \* have to be resolved first
  CodeActionOnSave, \* code_action_enable and a command_on_save_regex
  FormatOnSave,     \* document_formatting_enable and format_on_save
  StaysCurrent,     \* is the document the current one all the time?
  SwitchesTab,      \* may the document be shown again while a request is in flight?
  MayCrash,         \* may the server crash?
  MaxCalls          \* bound: requests in flight

ASSUME LspSaveAssumption ==
  /\ Edits \subseteq Title /\ Commands \subseteq Title
  /\ {CodeActionOnSave, FormatOnSave, StaysCurrent, SwitchesTab, MayCrash}
       \subseteq BOOLEAN
  /\ MaxCalls \in Nat

VARIABLES
  saving,     \* is CODE_ACTIONS_PERFORMED set?
  performed,  \* the titles in it
  own,        \* has the document unsaved changes made by the plugin?
  user,       \* has it unsaved changes made by the user?
  up,         \* lsp_server_get() returns the server
  open,       \* is its JSON-RPC client connected?
  calls,      \* requests the server has not answered, by kind
  lost        \* requests whose error is queued on the main loop

saveVars == <<saving, performed, own, user, up, open, calls, lost>>

Kind == {"codeAction", "command", "resolve", "format"}
None == [k \in Kind |-> 0]

SaveTypeOK ==
  /\ saving \in BOOLEAN /\ performed \in SUBSET Title
  /\ own \in BOOLEAN /\ user \in BOOLEAN /\ up \in BOOLEAN /\ open \in BOOLEAN
  /\ calls \in [Kind -> 0..MaxCalls] /\ lost \in [Kind -> 0..MaxCalls]

Requests == {k \in Kind : calls[k] + lost[k] > 0}
Total == calls["codeAction"] + calls["command"] + calls["resolve"]
           + calls["format"] + lost["codeAction"] + lost["command"]
           + lost["resolve"] + lost["format"]

-------------------------------------------------------------------------------
(* The handlers, as functions on the state S of the document.                *)

Now == [saving |-> saving, performed |-> performed, own |-> own, user |-> user,
        calls |-> calls, lost |-> lost]

Become(S) ==
  /\ saving' = S.saving
  /\ performed' = S.performed
  /\ own' = S.own
  /\ user' = S.user
  /\ calls' = S.calls
  /\ lost' = S.lost

(* lsp_rpc_call(); a call over a closed client fails from the main loop. *)
Send(S, k) == IF open THEN [S EXCEPT !.calls[k] = @ + 1]
                      ELSE [S EXCEPT !.lost[k] = @ + 1]

(* document_save_file() writes the document, unless it is unchanged. *)
Written(S) == [S EXCEPT !.own = FALSE, !.user = FALSE]

(* Mutated: the document is not saved again. *)
OnSaveFinish_unsaved(S) == [S EXCEPT !.saving = FALSE, !.performed = {}]

(* on_save_finish() *)
OnSaveFinish(S) ==
  IF S.saving THEN [Written(S) EXCEPT !.saving = FALSE, !.performed = {}] ELSE S

(* on_command_performed(): the actions for the document as it is now.  With  *)
(* no server the callback gets no actions, and ends there.                   *)
OnCommandPerformed(S) == IF up THEN Send(S, "codeAction") ELSE S

(* lsp_command_perform() *)
LspCommandPerform(S, t) ==
  LET edited == IF t \in Edits THEN [S EXCEPT !.own = TRUE] ELSE S
  IN  IF t \notin Edits \cup Commands THEN Send(S, "resolve")
      ELSE IF t \in Commands THEN Send(edited, "command")
      ELSE OnCommandPerformed(edited)

(* The offered actions that on_code_actions_received() still performs: none  *)
(* without a server, and without CODE_ACTIONS_PERFORMED they count as        *)
(* performed (code_action_was_performed).                                    *)
Unperformed(offered) == IF up /\ saving THEN offered \ performed ELSE {}

(* Mutated: the title is not remembered. *)
Perform_forgets(S, t) == LspCommandPerform(S, t)

(* on_code_actions_received() when an offered action is to be performed *)
Perform(S, t) ==
  LspCommandPerform([S EXCEPT !.performed = @ \cup {t}], t)

(* on_code_actions_received() when there is none left *)
Finish(S) ==
  IF ~up THEN S ELSE IF FormatOnSave THEN Send(S, "format") ELSE OnSaveFinish(S)

(* on_document_before_save() *)
OnDocumentBeforeSave(S) ==
  IF ~up \/ S.saving THEN S
  ELSE LET marked == [S EXCEPT !.saving = TRUE, !.performed = {}]
       IN  IF CodeActionOnSave THEN Send(marked, "codeAction")
           ELSE IF FormatOnSave THEN Send(marked, "format") ELSE marked

-------------------------------------------------------------------------------
SaveInit ==
  /\ saving = FALSE /\ performed = {}
  /\ own = FALSE /\ user = FALSE
  /\ up = TRUE /\ open = TRUE
  /\ calls = None /\ lost = None

Edit ==
  /\ user' = TRUE
  /\ UNCHANGED <<saving, performed, own, up, open, calls, lost>>

(* The user saves the document. *)
Save ==
  /\ Total < MaxCalls
  /\ Become(Written(OnDocumentBeforeSave(Now)))
  /\ UNCHANGED <<up, open>>

(* on_document_visible() of the document, when its tab is shown *)
OnDocumentVisible ==
  /\ up
  /\ SwitchesTab \/ Requests = {}
  /\ Become(OnSaveFinish(Now))
  /\ UNCHANGED <<up, open>>

Answered(k) == [Now EXCEPT !.calls[k] = @ - 1]

(* code_action_cb() with the actions the server offers *)
ReplyCodeAction(offered) ==
  /\ calls["codeAction"] > 0
  /\ IF Unperformed(offered) = {} THEN Become(Finish(Answered("codeAction")))
     ELSE \E t \in Unperformed(offered) : Become(Perform(Answered("codeAction"), t))
  /\ UNCHANGED <<up, open>>

(* command_cb(), the server having edited the document by workspace/applyEdit *)
(* or not                                                                     *)
ReplyCommand(edited) ==
  /\ calls["command"] > 0
  /\ Become(OnCommandPerformed([Answered("command") EXCEPT !.own = @ \/ edited]))
  /\ UNCHANGED <<up, open>>

(* resolve_cb(): the resolved action has an edit, a command, or nothing; it  *)
(* is performed if there is a server.                                        *)
ReplyResolve(as) ==
  /\ calls["resolve"] > 0
  /\ LET S == Answered("resolve")
     IN  Become(CASE as = "command" /\ up -> Send(S, "command")
                  [] as = "edit" /\ up -> OnCommandPerformed([S EXCEPT !.own = TRUE])
                  [] OTHER -> OnCommandPerformed(S))
  /\ UNCHANGED <<up, open>>

(* format_cb() *)
ReplyFormat(edited) ==
  /\ calls["format"] > 0
  /\ Become(OnSaveFinish([Answered("format") EXCEPT !.own = @ \/ edited]))
  /\ UNCHANGED <<up, open>>

(* The server is gone: what it has not answered fails.  The closed pipe may  *)
(* be noticed before the end of the process, or after it.                    *)
Disconnected ==
  /\ MayCrash /\ open
  /\ open' = FALSE
  /\ lost' = [k \in Kind |-> lost[k] + calls[k]]
  /\ calls' = None
  /\ UNCHANGED <<saving, performed, own, user, up>>

(* process_stopped(): no ready server until another one has been started *)
ProcessStopped ==
  /\ MayCrash /\ up
  /\ up' = FALSE
  /\ UNCHANGED <<saving, performed, own, user, open, calls, lost>>

(* The callback of a failed request: code_action_cb() passes no actions on,  *)
(* the others run their callbacks as after an answer.                        *)
Fail(k) ==
  /\ lost[k] > 0
  /\ LET S == [Now EXCEPT !.lost[k] = @ - 1]
     IN  Become(CASE k = "codeAction" -> Finish(S)
                  [] k = "format" -> OnSaveFinish(S)
                  [] OTHER -> OnCommandPerformed(S))
  /\ UNCHANGED <<up, open>>

(* on_server_initialized() of the new server.  The errors were on the main   *)
(* loop before the new process was even started.                             *)
Restarted ==
  /\ ~up /\ ~open /\ lost = None
  /\ up' = TRUE /\ open' = TRUE
  /\ Become(IF StaysCurrent THEN OnSaveFinish(Now) ELSE Now)

Reply ==
  \/ \E offered \in SUBSET Title : ReplyCodeAction(offered)
  \/ \E edited \in BOOLEAN : ReplyCommand(edited) \/ ReplyFormat(edited)
  \/ \E as \in {"command", "edit", "nothing"} : ReplyResolve(as)
  \/ \E k \in Kind : Fail(k)

SaveNext ==
  \/ Edit \/ Save \/ OnDocumentVisible
  \/ Reply
  \/ Disconnected \/ ProcessStopped \/ Restarted

SaveSpec == SaveInit /\ [][SaveNext]_saveVars

(* A server answers its requests, and the main loop runs what is queued.     *)
FairSaveSpec == SaveSpec /\ WF_saveVars(Reply)

-------------------------------------------------------------------------------
(* Properties *)

(* The code actions and the formatting of a save are one chain: never two    *)
(* requests at a time, which would edit one document from two answers.  When *)
(* the chain is over and the server runs, what it changed is on disk: "save  *)
(* file at the end because the intermediate updates modified the file"       *)
(* (on_save_finish).                                                         *)
UpdatesSaved ==
  /\ SaveTypeOK /\ Total <= 1
  /\ up /\ Requests = {} => ~own

(* A chain ends: the list of performed titles keeps a server that offers the *)
(* same actions again and again from being asked for ever.                   *)
ChainEnds == []<>(Requests = {})

(* The second saving is for the updates of the chain ("because the           *)
(* intermediate updates modified the file"): with nothing in flight and     *)
(* nothing changed by the plugin, what the user has not saved stays unsaved. *)
SavesOwnUpdates ==
  [][(saving /\ ~saving' /\ Requests = {} /\ ~own /\ user)
       => user']_saveVars
===============================================================================
