-------------------------------- MODULE LspSync ---------------------------------
(***************************************************************************)
(* Document synchronisation of the lsp plugin: which documents are open at *)
(* which server, and whether the server's copy of a document is the text   *)
(* in the editor (lsp-sync.c, the document handlers of lsp-main.c, the     *)
(* choice of a server in lsp-server.c, lsp-workspace-folders.c).           *)
(*                                                                         *)
(* The servers are reduced to the part of their life cycle (module         *)
(* LspServer) these handlers see.  Every action is one Geany signal or one *)
(* main-loop callback with all the handlers it runs; the handlers are      *)
(* functions on the plugin's state P, composed in the order of the calls.  *)
(***************************************************************************)
EXTENDS Naturals, Sequences, SequencesExt, FiniteSets

CONSTANTS
  Doc,          \* GeanyDocument structs; Geany uses the struct of a closed one again
  Filetype,
  NoneFt,       \* filetypes[GEANY_FILETYPES_NONE], the type of a new document
  HasCmd,       \* the filetypes for which a server is configured
  Path,
  Mapping,      \* lang_id_mappings: the filetype whose patterns match a path
  Root,         \* lsp_utils_find_project_root() of a path outside the project
  NULL,
  Char,
  MaxLen,       \* bound: length of a text
  MRUSize,      \* MRU_SIZE (50 in the code)
  Incremental,  \* the filetypes whose server wants incremental changes
  EarlyFiletype,\* may a filetype be set between a re-initialisation of the
                \* servers and the next time a document is shown?
  Remap         \* may a document be saved under a path of another mapping?

ASSUME LspSyncAssumption ==
  /\ IsFiniteSet(Doc)
  /\ NULL \notin Doc \cup Filetype \cup Path
  /\ NoneFt \in Filetype /\ HasCmd \subseteq Filetype \ {NoneFt}
  /\ Mapping \in [Path -> HasCmd \cup {NULL}]
  /\ Incremental \subseteq Filetype
  /\ MRUSize \in Nat \ {0} /\ MaxLen \in Nat
  /\ EarlyFiletype \in BOOLEAN /\ Remap \in BOOLEAN

VARIABLES
  doc,      \* Geany's documents and the plugin's data attached to them
  current,  \* document_get_current()
  loaded,   \* session_loaded
  srv,      \* lsp_servers, and what each server was told
  misuse    \* notifications that break the protocol, as <<method, server>>

vars == <<doc, current, loaded, srv, misuse>>

Text == BoundedSeq(Char, MaxLen)

\* Not a document: the struct of one that was closed, or never used.
Closed ==
  [valid |-> FALSE, path |-> NULL, ft |-> NoneFt, cachedFt |-> NULL,
   text |-> <<>>, changed |-> FALSE]

\* lsp_server_new(): a server that is not running.
NewServer ==
  [state |-> "idle", open |-> {}, mru |-> <<>>, folders |-> {},
   copy |-> [p \in {} |-> <<>>]]

TypeOK ==
  /\ doc \in [Doc -> [valid: BOOLEAN, path: Path \cup {NULL}, ft: Filetype,
                      cachedFt: Filetype \cup {NULL}, text: Text, changed: BOOLEAN]]
  /\ current \in Doc \cup {NULL}
  /\ loaded \in BOOLEAN
  /\ \A f \in Filetype :
       /\ srv[f].state \in {"idle", "starting", "ready", "dead"}
       /\ srv[f].open \subseteq Doc /\ srv[f].mru \in BoundedSeq(Doc, MRUSize)
       /\ srv[f].folders \subseteq {Root[p] : p \in Path} \ {NULL}
       /\ DOMAIN srv[f].copy \subseteq Path
  /\ misuse \subseteq {"didOpen", "didChange", "didClose", "didSave"} \X Filetype

-------------------------------------------------------------------------------
(* The server of a document (lsp-server.c).  P is the plugin's state, a      *)
(* record of doc, loaded, srv and misuse.                                    *)

MappingOf(x) == IF x.path = NULL THEN NULL ELSE Mapping[x.path]

(* Mutated: the filetype goes before the patterns. *)
LspServerGetFtImpl_typeFirst(x) ==
  IF x.ft \in HasCmd \/ MappingOf(x) = NULL THEN x.ft ELSE MappingOf(x)

(* lsp_server_get_ft_impl() *)
LspServerGetFtImpl(x) == IF MappingOf(x) # NULL THEN MappingOf(x) ELSE x.ft

(* lsp_server_get_ft(): the cached filetype, computed at the first use. *)
LspServerGetFt(P, d) ==
  IF P.doc[d].cachedFt # NULL THEN P.doc[d].cachedFt
                              ELSE LspServerGetFtImpl(P.doc[d])

Cache(P, d) == [P EXCEPT !.doc[d].cachedFt = LspServerGetFt(P, d)]

(* server_get_configured_for_doc(), without its restrictions to projects *)
Configured(P, d) == P.doc[d].path # NULL /\ LspServerGetFt(P, d) \in HasCmd

(* The server lsp_server_get_if_running() returns; its caching is left to    *)
(* the caller.  lsp_server_get() returns the same one.                       *)
LspServerGetIfRunning(P, d) ==
  LET f == LspServerGetFt(P, d)
  IN  IF Configured(P, d) /\ P.srv[f].state = "ready" THEN f ELSE NULL

(* What lsp_server_get_for_ft() changes: an idle server is started. *)
LspServerGetForFt(P, f) ==
  IF f \in HasCmd /\ P.srv[f].state = "idle"
    THEN [P EXCEPT !.srv[f].state = "starting"] ELSE P

(* What lsp_server_get() changes. *)
LspServerGet(P, d) ==
  IF Configured(P, d) THEN LspServerGetForFt(Cache(P, d), LspServerGetFt(P, d))
                      ELSE Cache(P, d)

-------------------------------------------------------------------------------
(* lsp-workspace-folders.c, for a server that supports folders *)

RootOf(P, d) == IF P.doc[d].path = NULL THEN NULL ELSE Root[P.doc[d].path]

(* lsp_workspace_folders_doc_open() *)
WorkspaceFoldersDocOpen(P, d) ==
  LET f == LspServerGetIfRunning(P, d)
  IN  IF f = NULL \/ RootOf(P, d) = NULL THEN P
      ELSE [P EXCEPT !.srv[f].folders = @ \cup {RootOf(P, d)}]

(* Mutated: the folders of the closed document are removed. *)
WorkspaceFoldersDocClosed_all(P, d) ==
  LET f == LspServerGetIfRunning(P, d)
  IN  IF f = NULL THEN P ELSE [P EXCEPT !.srv[f].folders = @ \ {RootOf(P, d)}]

(* lsp_workspace_folders_doc_closed(): the folders no other document uses *)
WorkspaceFoldersDocClosed(P, d) ==
  LET f == LspServerGetIfRunning(P, d)
      used == {RootOf(P, e) : e \in {e \in Doc \ {d} : P.doc[e].valid}}
  IN  IF f = NULL THEN P ELSE [P EXCEPT !.srv[f].folders = @ \cap used]

-------------------------------------------------------------------------------
(* lsp-sync.c, each function with what the server makes of its notification *)

Told(P, f, method, legal) ==
  IF legal THEN P ELSE [P EXCEPT !.misuse = @ \cup {<<method, f>>}]

HasCopy(P, f, d) == P.doc[d].path \in DOMAIN P.srv[f].copy

(* lsp_sync_text_document_did_close() *)
DidClose(P, f, d) ==
  LET forgotten == [P EXCEPT !.srv[f].mru = RemoveFirst(@, d)]
      closed == [forgotten EXCEPT
                   !.srv[f].open = @ \ {d},
                   !.srv[f].copy = [p \in DOMAIN @ \ {P.doc[d].path} |-> @[p]]]
  IN  IF d \notin P.srv[f].open THEN forgotten
      ELSE WorkspaceFoldersDocClosed(
             Told(closed, f, "didClose", HasCopy(P, f, d)), d)

(* lsp_sync_text_document_did_open() *)
DidOpen(P, f, d) ==
  LET room == IF Len(P.srv[f].mru) >= MRUSize
                THEN DidClose(P, f, Head(P.srv[f].mru)) ELSE P
      added == WorkspaceFoldersDocOpen(room, d)
      opened == [added EXCEPT
                   !.srv[f].open = @ \cup {d},
                   !.srv[f].mru = Append(@, d),
                   !.srv[f].copy = [p \in DOMAIN @ \cup {P.doc[d].path} |->
                                      IF p = P.doc[d].path THEN P.doc[d].text ELSE @[p]]]
  IN  IF d \in P.srv[f].open THEN P
      ELSE Told(opened, f, "didOpen", ~HasCopy(room, f, d))

(* lsp_sync_text_document_did_save() *)
DidSave(P, f, d) == Told(P, f, "didSave", HasCopy(P, f, d))

(* A text after n characters at pos are replaced by ins. *)
Replace(t, pos, n, ins) ==
  SubSeq(t, 1, pos) \o ins \o SubSeq(t, pos + n + 1, Len(t))

(* Mutated: the range of a change ends where it starts. *)
DidChange_emptyRange(P, f, d, pos, n, ins) ==
  LET p == P.doc[d].path
      c == P.srv[f].copy[p]
      at == IF pos > Len(c) THEN Len(c) ELSE pos
      new == IF f \in Incremental THEN Replace(c, at, 0, ins) ELSE P.doc[d].text
  IN  IF HasCopy(P, f, d) THEN [P EXCEPT !.srv[f].copy[p] = new]
                          ELSE Told(P, f, "didChange", FALSE)

(* lsp_sync_text_document_did_change(): the change, or the whole text.  The  *)
(* server applies a change within what it has.                               *)
DidChange(P, f, d, pos, n, ins) ==
  LET p == P.doc[d].path
      c == P.srv[f].copy[p]
      at == IF pos > Len(c) THEN Len(c) ELSE pos
      new == IF f \in Incremental THEN Replace(c, at, n, ins) ELSE P.doc[d].text
  IN  IF HasCopy(P, f, d) THEN [P EXCEPT !.srv[f].copy[p] = new]
                          ELSE Told(P, f, "didChange", FALSE)

-------------------------------------------------------------------------------
(* The signal handlers of lsp-main.c *)

(* on_document_visible(): the save that ends a save's code actions is in     *)
(* module LspSave.                                                           *)
OnDocumentVisible(P, d) ==
  LET got == [LspServerGet(P, d) EXCEPT !.loaded = TRUE]
      f == LspServerGetIfRunning(got, d)
  IN  IF f = NULL THEN got ELSE DidOpen(got, f, d)

(* Mutated: only the closing of the current document is noticed. *)
OnDocumentClose_current(P, d) ==
  LET f == LspServerGetIfRunning(P, d)
  IN  IF f = NULL \/ d # current THEN P ELSE DidClose(P, f, d)

(* on_document_close() *)
OnDocumentClose(P, d) ==
  LET f == LspServerGetIfRunning(P, d)
  IN  IF f = NULL THEN P ELSE DidClose(P, f, d)

(* on_document_before_save_as() *)
OnDocumentBeforeSaveAs(P, d) ==
  LET got == LspServerGet(P, d)
      f == LspServerGetIfRunning(got, d)
  IN  IF f = NULL THEN got ELSE DidClose(got, f, d)

(* on_document_save() of a file that is not a configuration file *)
OnDocumentSave(P, d) ==
  LET got == LspServerGet(P, d)
      f == LspServerGetIfRunning(got, d)
  IN  IF f = NULL THEN got
      ELSE DidSave(IF d \in got.srv[f].open THEN got ELSE OnDocumentVisible(got, d),
                   f, d)

(* on_document_filetype_set() *)
OnDocumentFiletypeSet(P, d, old) ==
  LET started == LspServerGetForFt(P, old)
      srvOld == IF old \in HasCmd /\ started.srv[old].state = "ready"
                  THEN old ELSE NULL
      got == LspServerGet([started EXCEPT !.doc[d].cachedFt = NULL], d)
      srvNew == LspServerGetIfRunning(got, d)
      closed == IF srvOld = NULL THEN got ELSE DidClose(got, srvOld, d)
  IN  IF ~P.loaded THEN P
      ELSE IF srvOld = srvNew THEN got ELSE OnDocumentVisible(closed, d)

(* Mutated: a change of a document that is not open does not open it. *)
OnEditorNotify_noOpen(P, d, pos, n, ins) ==
  LET got == LspServerGet(P, d)
      f == LspServerGetIfRunning(got, d)
      after == [got EXCEPT !.doc[d].text = Replace(@, pos, n, ins),
                           !.doc[d].changed = TRUE]
  IN  IF f = NULL THEN after ELSE DidChange(after, f, d, pos, n, ins)

(* The SCN_MODIFIED notifications of one change, before and after it *)
OnEditorNotify(P, d, pos, n, ins) ==
  LET got == LspServerGet(P, d)
      f == LspServerGetIfRunning(got, d)
      before == IF f = NULL THEN got ELSE DidOpen(got, f, d)
      after == [before EXCEPT !.doc[d].text = Replace(@, pos, n, ins),
                              !.doc[d].changed = TRUE]
  IN  IF f = NULL THEN after ELSE DidChange(after, f, d, pos, n, ins)

(* stop_and_init_all_servers() *)
StopAndInitAllServers(P) ==
  [P EXCEPT !.doc = [d \in Doc |-> [@[d] EXCEPT !.cachedFt = NULL]],
            !.srv = [f \in Filetype |-> NewServer],
            !.loaded = FALSE]

(* on_server_initialized() for one document *)
Visit(P, f, d) ==
  LET C == Cache(P, d)
  IN  IF LspServerGetIfRunning(C, d) # f THEN C
      ELSE IF d = current THEN OnDocumentVisible(C, d)
      ELSE IF C.doc[d].changed THEN DidOpen(C, f, d) ELSE C

(* Mutated: only the current document is opened. *)
OnServerInitialized_current(P, f, order) ==
  LET visited[n \in 0..Len(order)] ==
        IF n = 0 THEN P
        ELSE IF order[n] = current THEN Visit(visited[n - 1], f, order[n])
        ELSE Cache(visited[n - 1], order[n])
  IN  visited[Len(order)]

(* on_server_initialized(), which goes through the documents in some order *)
OnServerInitialized(P, f, order) ==
  LET visited[n \in 0..Len(order)] ==
        IF n = 0 THEN P ELSE Visit(visited[n - 1], f, order[n])
  IN  visited[Len(order)]

-------------------------------------------------------------------------------
(* What the user does in Geany, and what the servers do *)

Plugin == [doc |-> doc, loaded |-> loaded, srv |-> srv, misuse |-> misuse]

Become(P) ==
  /\ doc' = P.doc
  /\ loaded' = P.loaded
  /\ srv' = P.srv
  /\ misuse' = P.misuse

Valid == {d \in Doc : doc[d].valid}
PathsInUse == {doc[d].path : d \in Valid}

Init ==
  /\ doc = [d \in Doc |-> Closed]
  /\ current = NULL
  /\ loaded = FALSE
  /\ srv = [f \in Filetype |-> NewServer]
  /\ misuse = {}

(* Geany sets the filetype of a document, unless it has it. *)
SetTo(P, d, f) ==
  IF P.doc[d].ft = f THEN P
  ELSE OnDocumentFiletypeSet([P EXCEPT !.doc[d].ft = f], d, P.doc[d].ft)

(* A file is opened, shown unless it is one of a session's files, or a new   *)
(* document is made and shown.                                               *)
Open(d, p, f, shown) ==
  LET P == SetTo([Plugin EXCEPT !.doc[d] =
                    [Closed EXCEPT !.valid = TRUE, !.path = p]], d, f)
  IN  /\ d \notin Valid
      /\ p \notin PathsInUse \ {NULL}
      /\ shown \/ p # NULL
      /\ current' = IF shown THEN d ELSE current
      /\ Become(IF shown THEN OnDocumentVisible(P, d) ELSE P)

(* on_document_activate() *)
OnDocumentActivate(d) ==
  /\ d \in Valid \ {current}
  /\ current' = d
  /\ Become(OnDocumentVisible(Plugin, d))

(* A document is closed; if it was the current one, another is activated. *)
Close(d, next) ==
  LET P == [OnDocumentClose(Plugin, d) EXCEPT !.doc[d] = Closed]
  IN  /\ d \in Valid
      /\ IF d # current THEN next = current
         ELSE next \in (IF Valid = {d} THEN {NULL} ELSE Valid \ {d})
      /\ current' = next
      /\ Become(IF next # current /\ next # NULL THEN OnDocumentVisible(P, next) ELSE P)

(* A document is saved, on_document_before_save() first. *)
Save(d) ==
  /\ d \in Valid /\ doc[d].path # NULL
  /\ Become(OnDocumentSave([LspServerGet(Plugin, d) EXCEPT !.doc[d].changed = FALSE], d))
  /\ UNCHANGED current

(* A document is saved under another name: Geany forgets its path, detects   *)
(* the filetype of one that has none, saves it and only then has its path.   *)
SaveAs(d, p, f) ==
  LET P == [OnDocumentBeforeSaveAs(Plugin, d) EXCEPT !.doc[d].path = NULL]
      Q == LspServerGet(SetTo(P, d, f), d)
  IN  /\ d \in Valid
      /\ p \notin PathsInUse
      /\ f # doc[d].ft => doc[d].ft = NoneFt /\ (loaded \/ EarlyFiletype)
      /\ Remap \/ MappingOf(doc[d]) = Mapping[p]
      /\ Become(OnDocumentSave([Q EXCEPT !.doc[d].path = p,
                                         !.doc[d].changed = FALSE], d))
      /\ UNCHANGED current

(* One change of a text, by the user or by a plugin. *)
Edit(d, pos, n, ins) ==
  /\ d \in Valid
  /\ pos + n <= Len(doc[d].text)
  /\ IF n = 0 THEN Len(ins) = 1 /\ Len(doc[d].text) < MaxLen ELSE ins = <<>>
  /\ Become(OnEditorNotify(Plugin, d, pos, n, ins))
  /\ UNCHANGED current

(* The user sets the filetype of the current document. *)
SetFiletype(f) ==
  /\ current # NULL /\ f # doc[current].ft
  /\ loaded \/ EarlyFiletype
  /\ Become(SetTo(Plugin, current, f))
  /\ UNCHANGED current

(* A server has answered "initialize". *)
Initialized(f, order) ==
  /\ srv[f].state = "starting"
  /\ Become(OnServerInitialized([Plugin EXCEPT !.srv[f].state = "ready"], f, order))
  /\ UNCHANGED current

(* A server stops by itself: process_stopped() starts it again, or gives up. *)
Crash(f, state) ==
  /\ srv[f].state \in {"starting", "ready"}
  /\ srv' = [srv EXCEPT ![f] = [NewServer EXCEPT !.state = state]]
  /\ UNCHANGED <<doc, current, loaded, misuse>>

(* A configuration file is saved, or a project opened or closed. *)
Reconfigure ==
  /\ Become(StopAndInitAllServers(Plugin))
  /\ UNCHANGED current

(* restart_all_servers() *)
RestartAllServers ==
  /\ current # NULL
  /\ Become(OnDocumentVisible(StopAndInitAllServers(Plugin), current))
  /\ UNCHANGED current

Next ==
  \/ \E d \in Doc, p \in Path \cup {NULL}, f \in Filetype, shown \in BOOLEAN :
       Open(d, p, f, shown)
  \/ \E d \in Doc : OnDocumentActivate(d) \/ Save(d)
  \/ \E d \in Doc, next \in Doc \cup {NULL} : Close(d, next)
  \/ \E d \in Doc, p \in Path, f \in Filetype : SaveAs(d, p, f)
  \/ \E d \in Doc, pos \in 0..MaxLen, n \in 0..MaxLen,
        ins \in {<<>>} \cup {<<c>> : c \in Char} : Edit(d, pos, n, ins)
  \/ \E f \in Filetype : SetFiletype(f)
  \/ \E f \in HasCmd, order \in SetToSeqs(Valid) : Initialized(f, order)
  \/ \E f \in HasCmd, state \in {"starting", "dead"} : Crash(f, state)
  \/ Reconfigure
  \/ RestartAllServers

Spec == Init /\ [][Next]_vars

-------------------------------------------------------------------------------
(* Properties *)

(* What a server has is what the editor shows: its copy of every document    *)
(* open at it is the text in the editor, whatever edits, closings,           *)
(* evictions, renamings and changes of filetype came in between, and it has  *)
(* no copy of anything else.                                                 *)
ServerInStep ==
  \A f \in Filetype :
    /\ DOMAIN srv[f].copy = {doc[d].path : d \in srv[f].open}
    /\ \A d \in srv[f].open :
         HasCopy(Plugin, f, d) => srv[f].copy[doc[d].path] = doc[d].text

(* No server is told of an opening twice, or of a change, a closing or a     *)
(* saving of a document it does not have.                                    *)
NoMisuse == misuse = {}

(* open_docs and mru_docs hold the same documents, at most MRU_SIZE of them, *)
(* none that Geany has closed (its struct may already be another document)   *)
(* and none that is open at another server too; the state is well typed.     *)
NothingDangling ==
  TypeOK /\ \A f \in Filetype :
    /\ srv[f].open \subseteq Valid
    /\ Range(srv[f].mru) = srv[f].open /\ Len(srv[f].mru) = Cardinality(srv[f].open)
    /\ Len(srv[f].mru) <= MRUSize
    /\ \A g \in Filetype \ {f} : srv[f].open \cap srv[g].open = {}

(* A server knows the workspace folder of every document open at it.         *)
FoldersCoverOpen ==
  \A f \in Filetype : \A d \in srv[f].open :
    RootOf(Plugin, d) \in srv[f].folders \cup {NULL}

(* The comment in on_document_visible(): "we also "open" current and         *)
(* modified documents after successful server handshake".                    *)
OpenedOnInitialized ==
  [][\A f \in Filetype, d \in Doc :
       (/\ srv[f].state = "starting" /\ srv'[f].state = "ready"
        /\ d \in Valid /\ (doc[d].changed \/ d = current)
        /\ (LspServerGetIfRunning(Plugin, d) = f)')
         => d \in srv'[f].open]_vars

(* lang_id_mappings of lsp.conf: "Files and their mappings to LSP language   *)
(* IDs for which the server is used", "in addition to the implicit mapping   *)
(* defined by the filetype name".  The server remembered for a file is the   *)
(* one whose patterns match it, or else that of its filetype, whatever       *)
(* happened to its name and filetype since.                                  *)
CachedServerUsed ==
  \A d \in Valid :
    doc[d].cachedFt \in {NULL, IF MappingOf(doc[d]) # NULL THEN MappingOf(doc[d]) ELSE doc[d].ft}
===============================================================================
