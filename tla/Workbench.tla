------------------------------ MODULE Workbench ------------------------------
(* The workbench plugin: the files below a project's directories            *)
(* (wb_project.c), the file monitors that keep the list of them up to date   *)
(* (wb_monitor.c, workbench.c), and the queue (idle_queue.c) over which the  *)
(* files are handed to Geany's tag manager (tm_control.c).                   *)
(*                                                                           *)
(* One project, in scan mode "workbench" with no pattern set, so that every  *)
(* file below a directory is in its list.  The file system, GIO's monitors   *)
(* and the tag manager are external.                                         *)
EXTENDS Naturals, Sequences, FiniteSets, SequencesExt

CONSTANTS
  Base,        \* directories that may be added to the project; they always exist
  File,        \* the regular files that may be below them
  Folder,      \* the directories that may be below them
  Parent,      \* where each of these is
  SamePrefix,  \* pairs <<p, q>> where q is not below p but its name begins with that of p
  MaxDirs,     \* bound: WB_PROJECT_DIRs at a time
  MaxSources,  \* bound: TMSourceFiles in use for one file
  MaxActions,  \* bound: actions queued
  MaxEvents,   \* bound: events of a monitor undelivered
  EarlyRescan  \* may the user rescan while a monitor's events are undelivered?

Path == File \cup Folder
Place == Base \cup Folder

Addr == 1..MaxDirs   \* of a WB_PROJECT_DIR; used again after wb_project_dir_free()
None == 0

ASSUME WorkbenchAssumption ==
  /\ IsFiniteSet(Path) /\ Parent \in [Path -> Place]
  /\ SamePrefix \subseteq Folder \X Path
  /\ {MaxDirs, MaxSources, MaxActions, MaxEvents} \subseteq Nat
  /\ EarlyRescan \in BOOLEAN

VARIABLES
  disk,      \* what there is below the directories
  opened,    \* wb_globals.opened_wb is set
  has,       \* the project is in the workbench
  saved,     \* the base_dir of each directory in the project's file
  generate,  \* generate_tag_prefs: "yes", or "auto" with few files, against "no"
  live,      \* enable_live_update
  dirs,      \* prj->directories
  base,      \* their base_dir, by address
  listed,    \* their file_table, by address
  entries,   \* monitor->monitors: whose directory each place's entry is
  dead,      \* the monitors whose directory is gone, or was another one
  events,    \* the events of each monitor that are not delivered
  docs,      \* the files open in an editor
  actions,   \* s_idle_actions
  table,     \* wb_tm_file_table: the number of each file's TMSourceFile
  tags,      \* how often each TMSourceFile is in the tag manager's workspace
  freed,     \* the TMSourceFiles freed
  followed   \* the directories listed under live update, by monitors of their own

diskVars == <<disk, events, dead>>
wbVars == <<opened, has, saved, generate, live, dirs, base, listed, entries, followed>>
tagVars == <<docs, actions, table, tags, freed>>
workbenchVars == <<diskVars, wbVars, tagVars>>

Source == File \X (1..MaxSources)

IdleAction ==
  [id : {"files_new", "files_remove"}, files : SUBSET File]
    \cup [id : {"file_add", "file_remove"}, file : File]
    \cup [id : {"file_free"}, source : Source]

\* What is below a place, wherever it is.
Below(p) ==
  LET within[q \in Path] == Parent[q] = p \/ (Parent[q] \in Folder /\ within[Parent[q]])
  IN  {q \in Path : within[q]}

WorkbenchTypeOK ==
  /\ disk \subseteq Path /\ docs \subseteq File
  /\ {opened, has, generate, live} \subseteq BOOLEAN
  /\ saved \in Seq(Base) /\ dirs \in Seq(Addr) /\ followed \subseteq Range(dirs)
  /\ base \in [Addr -> Base] /\ listed \in [Addr -> SUBSET Path]
  /\ entries \in [Place -> Addr \cup {None}] /\ dead \subseteq Folder
  /\ events \in [Place -> Seq([kind : {"created", "deleted"}, path : Path])]
  /\ actions \in Seq(IdleAction)
  /\ table \in [File -> 0..MaxSources] /\ tags \in [Source -> Nat]
  /\ freed \subseteq Source

WorkbenchInit ==
  /\ disk \in {d \in SUBSET Path : \A q \in d : Parent[q] \in d \cup Base}
  /\ opened = TRUE /\ has = TRUE /\ saved = <<>>
  /\ generate \in BOOLEAN /\ live \in BOOLEAN
  /\ dirs = <<>>
  /\ base \in [Addr -> Base] /\ \A a, b \in Addr : base[a] = base[b]
  /\ listed = [a \in Addr |-> {}]
  /\ entries = [p \in Place |-> None] /\ dead = {}
  /\ events = [p \in Place |-> <<>>]
  /\ docs = {} /\ actions = <<>>
  /\ table = [f \in File |-> None]
  /\ tags = [s \in Source |-> 0]
  /\ freed = {}
  /\ followed = {}

-----------------------------------------------------------------------------
(* The file system and its monitors: external                               *)

(* A monitor reports what is created or deleted in its directory.            *)
Told(ev, kind, q) ==
  LET p == Parent[q]
  IN  IF entries[p] = None \/ p \in dead THEN ev
      ELSE [ev EXCEPT ![p] = Append(@, [kind |-> kind, path |-> q])]

(* A monitor of a directory that is deleted may report that as well.         *)
ToldItself(ev, q) ==
  {ev} \cup (IF q \in Folder /\ entries[q] # None /\ q \notin dead
             THEN {[ev EXCEPT ![q] = Append(@, [kind |-> "deleted", path |-> q])]} ELSE {})

Bounded(ev) == \A p \in Place : Len(ev[p]) <= MaxEvents

(* q is made, or moved here with what is in it.                              *)
Created(q, content) ==
  /\ q \notin disk /\ Parent[q] \in disk \cup Base
  /\ content \subseteq Below(q)
  /\ \A r \in content : Parent[r] \in content \cup {q}
  /\ disk' = disk \cup {q} \cup content
  /\ events' = Told(events, "created", q)
  /\ UNCHANGED dead

(* q is deleted, if it is a directory because it is empty; or it is moved    *)
(* away with what is in it.                                                  *)
Deleted(q) ==
  /\ q \in disk
  /\ disk' = disk \ ({q} \cup Below(q))
  /\ events' \in IF Below(q) \cap disk = {}
                 THEN ToldItself(Told(events, "deleted", q), q)
                 ELSE {Told(events, "deleted", q)}
  /\ dead' = dead \cup {p \in (Below(q) \cup {q}) \cap Folder : entries[p] # None}

Deletions(gone) ==
  [i \in 1..Cardinality(gone) |-> [kind |-> "deleted", path |-> SetToSeq(gone)[i]]]

(* The files gone are deleted one after the other, then the directories.     *)
ToldAll(ev, gone) ==
  [p \in Place |->
     LET here == {q \in gone : Parent[q] = p}
     IN  IF entries[p] = None \/ p \in dead THEN ev[p]
         ELSE ev[p] \o Deletions(here \cap File) \o Deletions(here \cap Folder)]

DiskCreate(q, content) ==
  Created(q, content) /\ Bounded(events') /\ UNCHANGED <<wbVars, tagVars>>

DiskDelete(q) == Deleted(q) /\ Bounded(events') /\ UNCHANGED <<wbVars, tagVars>>

-----------------------------------------------------------------------------
(* The idle queue and the tag manager                                        *)

(* wb_idle_queue_add_action(), of one action after the other: each becomes   *)
(* the first.                                                                *)
Push(new) == actions' = Reverse(new) \o actions

FileRemoved(f) == [id |-> "file_remove", file |-> f]

(* tm_source_file_new(): a TMSourceFile that is not in use                   *)
NewSource(t, f) ==
  CHOOSE n \in 1..MaxSources :
    /\ t.tags[<<f, n>>] = 0 /\ t.table[f] # n
    /\ \A m \in 1..(n - 1) : t.tags[<<f, m>>] > 0 \/ t.table[f] = m

\* Mutant: open documents are not left out.
WbTmControlSourceFilesNew_openToo(t, files) ==
  LET new == {f \in files \cap disk : t.table[f] = None}
  IN  [t EXCEPT !.table = [f \in File |-> IF f \in new THEN NewSource(t, f) ELSE @[f]],
                !.tags = [s \in Source |-> IF s[1] \in new /\ s[2] = NewSource(t, s[1])
                                           THEN 1 ELSE @[s]]]

(* wb_tm_control_source_files_new(): no TMSourceFile is made of a file that  *)
(* is gone, and the one made of a file that is open is forgotten.            *)
WbTmControlSourceFilesNew(t, files) ==
  LET new == {f \in (files \cap disk) \ docs : t.table[f] = None}
  IN  [t EXCEPT !.table = [f \in File |-> IF f \in new THEN NewSource(t, f) ELSE @[f]],
                !.tags = [s \in Source |-> IF s[1] \in new /\ s[2] = NewSource(t, s[1])
                                           THEN 1 ELSE @[s]]]

\* free_file_table_entry()
Freeing(sources) == {[id |-> "file_free", source |-> s] : s \in sources}

(* wb_tm_control_source_file_add(): to insert the entry again frees the      *)
(* value it had, which is the same TMSourceFile.                             *)
WbTmControlSourceFileAdd(t, f) ==
  LET s == <<f, t.table[f]>>
  IN  IF t.table[f] = None \/ f \in docs THEN t
      ELSE [t EXCEPT !.tags[s] = @ + 1, !.added = @ \cup Freeing({s})]

(* wb_tm_control_source_file_remove()                                        *)
WbTmControlSourceFileRemove(t, f) ==
  LET s == <<f, t.table[f]>>
  IN  IF t.table[f] = None THEN t
      ELSE [t EXCEPT !.table[f] = None,
                     !.tags[s] = IF @ = 0 THEN 0 ELSE @ - 1,
                     !.added = @ \cup Freeing({s})]

(* wb_tm_control_source_files_remove(): the tag manager is given the array   *)
(* of names and finds no TMSourceFile of its own in it.                      *)
WbTmControlSourceFilesRemove(t, files) ==
  LET found == {f \in files : t.table[f] # None}
  IN  [t EXCEPT !.table = [f \in File |-> IF f \in found THEN None ELSE @[f]],
                !.added = @ \cup Freeing({<<f, t.table[f]>> : f \in found})]

RunAction(t, act) ==
  CASE act.id = "files_new" -> WbTmControlSourceFilesNew(t, act.files)
    [] act.id = "file_add" -> WbTmControlSourceFileAdd(t, act.file)
    [] act.id = "file_remove" -> WbTmControlSourceFileRemove(t, act.file)
    [] act.id = "files_remove" -> WbTmControlSourceFilesRemove(t, act.files)
    [] act.id = "file_free" -> [t EXCEPT !.freed = @ \cup {act.source}]

\* What the first n actions leave, with those they add.
RunUpTo ==
  LET ran[n \in 0..Len(actions)] ==
        IF n = 0 THEN [table |-> table, tags |-> tags, freed |-> freed, added |-> {}]
        ELSE RunAction(ran[n - 1], actions[n])
  IN  ran

Ran == RunUpTo[Len(actions)]

\* Mutant: only the actions that were run are removed.
WbIdleQueueCallback_keepsAdded ==
  /\ actions # <<>>
  /\ LET t == Ran
     IN  /\ table' = t.table /\ tags' = t.tags /\ freed' = t.freed
         /\ actions' = SetToSeq(t.added)
  /\ UNCHANGED <<diskVars, wbVars, docs>>

(* wb_idle_queue_callback(): from the first action, the one added last, to   *)
(* the one added first.  Those these add come before the first and are       *)
(* cleared without being run.                                                *)
WbIdleQueueCallback ==
  /\ actions # <<>>
  /\ LET t == Ran IN table' = t.table /\ tags' = t.tags /\ freed' = t.freed
  /\ actions' = <<>>
  /\ UNCHANGED <<diskVars, wbVars, docs>>

-----------------------------------------------------------------------------
(* File lists and monitors                                                   *)

OnDisk(b) == Below(b) \cap disk

\* The numbers of a file's TMSourceFiles in use
InUse(f) == {n \in 1..MaxSources : tags[<<f, n>>] > 0 \/ table[f] = n}

\* A TMSourceFile can still be numbered when the queue has been run, with n
\* more lists of files.
Room(n) ==
  /\ Len(actions) < MaxActions
  /\ generate =>
     LET new == Cardinality({i \in 1..Len(actions) : actions[i].id = "files_new"})
     IN  \A f \in File : Cardinality(InUse(f)) + new + n <= MaxSources

(* wb_monitor_add_dir() for the places of each of the directories ds, one    *)
(* after the other: a place that has an entry keeps it.                      *)
AddDirs(mon, ds, places) ==
  [p \in Place |->
     LET first == {i \in 1..Len(ds) : /\ p \in places[ds[i]]
                                      /\ \A j \in 1..(i - 1) : p \notin places[ds[j]]}
     IN  IF mon[p] # None \/ first = {} THEN mon[p] ELSE ds[CHOOSE i \in first : TRUE]]

\* the same for some places of one directory
AddDir(mon, a, places) == AddDirs(mon, <<a>>, [d \in {a} |-> places])

(* The directories of the list of a, and where it starts.                    *)
Places(list, a) == {base[a]} \cup (list \cap Folder)

FilesRemove(files) == [id |-> "files_remove", files |-> files]

(* wb_project_dir_regenerate_tags() of each of a sequence of lists, if the   *)
(* project's tags are generated.                                             *)
FilesNew(lists) ==
  IF ~generate THEN <<>>
  ELSE [i \in DOMAIN lists |-> [id |-> "files_new", files |-> lists[i] \cap File]]

\* The events of the monitors have been delivered.
Delivered == \A p \in Place : events[p] = <<>>

Settled == EarlyRescan \/ Delivered

\* No place at or below b has a monitor.
Unmonitored(b) == \A p \in (Below(b) \cap Folder) \cup {b} : entries[p] = None

(* wb_project_dir_rescan() and what is queued for it: the files listed so    *)
(* far are given up before those found are handed over.                      *)
WbProjectDirRescan(a) ==
  /\ Room(1) /\ Settled
  /\ listed' = [listed EXCEPT ![a] = OnDisk(base[a])]
  /\ Push(<<FilesRemove(listed[a] \cap File)>> \o FilesNew(<<OnDisk(base[a])>>))

(* wb_project_rescan() of the project with directories ds, "before" having   *)
(* been queued: all lists are made again, then their files handed over, then *)
(* the directories monitored that no monitor has yet.                        *)
WbProjectRescan(ds, before, nowBase) ==
  LET found == [a \in Range(ds) |-> Below(nowBase[a]) \cap disk]
      places == [a \in Range(ds) |-> {nowBase[a]} \cup (found[a] \cap Folder)]
  IN  /\ ds # <<>> => Room(Len(ds)) /\ Settled
      /\ listed' = [a \in Addr |-> IF a \in Range(ds) THEN found[a] ELSE {}]
      /\ Push(before \o [i \in 1..Len(ds) |-> FilesRemove(listed[ds[i]] \cap File)]
                     \o FilesNew([i \in 1..Len(ds) |-> found[ds[i]]]))
      /\ entries' = IF live THEN AddDirs(entries, ds, places) ELSE entries
      /\ followed' = Range(ds) \cap
           (followed \cup {a \in Addr : live /\ entries'[nowBase[a]] = a /\ Unmonitored(nowBase[a])})

-----------------------------------------------------------------------------
(* The user                                                                  *)

InProject(a) == opened /\ has /\ a \in Range(dirs)

(* wb_project_save_directories(): patterns and scan mode are left out.        *)
Saved(ds, nowBase) == [i \in 1..Len(ds) |-> nowBase[ds[i]]]

(* wb_project_add_directory(): the first directory stays the first, the      *)
(* others are sorted.                                                        *)
WbProjectAddDirectory(b, a) ==
  /\ \E i \in 0..Len(dirs) :
       /\ i = 0 => dirs = <<>>
       /\ dirs' = InsertAt(dirs, i + 1, a)
  /\ base' = [base EXCEPT ![a] = b]
  /\ WbProjectRescan(dirs', <<>>, base')

(* popup_menu_on_add_directory()                                             *)
AddDirectory(b, a) ==
  /\ opened /\ has /\ a \notin Range(dirs)
  /\ WbProjectAddDirectory(b, a)
  /\ saved' = Saved(dirs', base')
  /\ UNCHANGED <<diskVars, opened, has, generate, live, docs, table, tags, freed>>

(* popup_menu_on_remove_directory().  The directory's monitors stay.         *)
RemoveDirectory(a) ==
  /\ InProject(a) /\ Len(actions) < MaxActions
  /\ \E i \in DOMAIN dirs : dirs[i] = a /\ dirs' = RemoveAt(dirs, i)
  /\ WbProjectRescan(dirs', <<FilesRemove(listed[a] \cap File)>>, base)
  /\ saved' = Saved(dirs', base)
  /\ UNCHANGED <<diskVars, opened, has, generate, live, base, docs, table, tags, freed>>

(* popup_menu_on_rescan_directory() and popup_menu_on_directory_settings():  *)
(* new directories are listed and not monitored.                             *)
RescanDirectory(a) ==
  /\ InProject(a)
  /\ WbProjectDirRescan(a)
  /\ UNCHANGED <<diskVars, opened, has, saved, generate, live, dirs, base, entries, followed,
                 docs, table, tags, freed>>

(* item_workbench_settings_activate_cb(): the monitors are made for the      *)
(* directories shown in the sidebar, or freed.                               *)
SetLiveUpdate ==
  /\ opened
  /\ live' = ~live
  /\ entries' = IF live THEN [p \in Place |-> None]
                 ELSE AddDirs(entries, dirs, [a \in Range(dirs) |-> Places(listed[a], a)])
  /\ events' = [p \in Place |-> IF live THEN <<>> ELSE events[p]]
  /\ dead' = IF live THEN {} ELSE {p \in Folder : entries'[p] # None /\ p \notin disk}
  /\ followed' = IF live THEN {} ELSE followed
  /\ UNCHANGED <<disk, opened, has, saved, generate, dirs, base, listed, tagVars>>

\* What wb_project_free() queues.
AllRemoved == [i \in 1..Len(dirs) |-> FilesRemove(listed[dirs[i]] \cap File)]

(* item_close_workbench_activate_cb()                                        *)
CloseWorkbench ==
  /\ opened /\ Len(actions) < MaxActions
  /\ opened' = FALSE
  /\ Push(AllRemoved)
  /\ dirs' = <<>> /\ listed' = [a \in Addr |-> {}] /\ followed' = {}
  /\ entries' = [p \in Place |-> None]
  /\ dead' = {} /\ events' = [p \in Place |-> <<>>]
  /\ UNCHANGED <<disk, has, saved, generate, live, base, docs, table, tags, freed>>

(* popup_menu_on_remove_project().  Its monitors stay.                       *)
RemoveProject ==
  /\ opened /\ has /\ Len(actions) < MaxActions
  /\ has' = FALSE
  /\ Push(AllRemoved)
  /\ dirs' = <<>> /\ listed' = [a \in Addr |-> {}] /\ followed' = {}
  /\ UNCHANGED <<diskVars, opened, saved, generate, live, base, entries, docs, table, tags, freed>>

(* wb_project_load() and, with RescanProjectsOnOpen, wb_project_rescan().    *)
LoadProject(rescan) ==
  \E ds \in [1..Len(saved) -> Addr] :
    /\ IsInjective(ds)
    /\ dirs' = ds
    /\ base' = [a \in Addr |-> IF a \in Range(ds) THEN saved[CHOOSE i \in 1..Len(ds) : ds[i] = a] ELSE base[a]]
    /\ IF rescan THEN WbProjectRescan(ds, <<>>, base')
       ELSE UNCHANGED <<listed, actions, entries, followed>>

(* item_open_workbench_activate_cb() *)
OpenWorkbench(rescan) ==
  /\ ~opened
  /\ opened' = TRUE
  /\ IF has THEN LoadProject(rescan) ELSE UNCHANGED <<dirs, base, listed, actions, entries, followed>>
  /\ UNCHANGED <<diskVars, has, saved, generate, live, docs, table, tags, freed>>

(* popup_menu_on_add_project() *)
AddProject(rescan) ==
  /\ opened /\ ~has
  /\ has' = TRUE
  /\ LoadProject(rescan)
  /\ UNCHANGED <<diskVars, opened, saved, generate, live, docs, table, tags, freed>>

(* plugin_workbench_on_doc_open() *)
DocumentOpen(f) ==
  /\ f \in disk \ docs /\ Len(actions) < MaxActions
  /\ docs' = docs \cup {f}
  /\ Push(<<FileRemoved(f)>>)
  /\ UNCHANGED <<diskVars, wbVars, table, tags, freed>>

(* plugin_workbench_on_doc_close() *)
DocumentClose(f) ==
  /\ f \in docs /\ Len(actions) < MaxActions
  /\ docs' = docs \ {f}
  /\ Push(<<[id |-> "file_add", file |-> f]>>)
  /\ UNCHANGED <<diskVars, wbVars, table, tags, freed>>

(* popup_menu_on_new_file() and popup_menu_on_new_directory().  Without live *)
(* update the directory is rescanned; a file is opened.                      *)
NewHere(a, q) ==
  /\ InProject(a) /\ q \in Below(base[a])
  /\ Parent[q] \in Places(listed[a], a)
  /\ Created(q, {}) /\ Bounded(events')
  /\ LET opens == IF q \in File THEN <<FileRemoved(q)>> ELSE <<>>
         found == disk' \cap Below(base[a])
     IN  /\ docs' = docs \cup ({q} \cap File)
         /\ IF live THEN Len(actions) < MaxActions /\ Push(opens) /\ UNCHANGED listed
            ELSE /\ Room(1) /\ Settled
                 /\ listed' = [listed EXCEPT ![a] = found]
                 /\ Push(<<FilesRemove(listed[a] \cap File)>> \o FilesNew(<<found>>) \o opens)
  /\ UNCHANGED <<opened, has, saved, generate, live, dirs, base, entries, followed, table, tags, freed>>

(* popup_menu_on_remove_file_or_dir(): the files listed, then the            *)
(* directories, each before those in it and if it is empty by then, then q.  *)
RemoveHere(a, q) ==
  /\ InProject(a) /\ q \in listed[a] \cap disk
  /\ LET files == ({q} \cup Below(q)) \cap listed[a] \cap disk \cap File
         left == disk \ files
         bare == {p \in Below(q) \cap listed[a] \cap left : Below(p) \cap left = {}}
         gone == files \cup bare \cup
                   (IF q \in Folder /\ Below(q) \cap left \subseteq bare THEN {q} ELSE {})
         found == OnDisk(base[a]) \ gone
     IN  /\ gone # {} /\ Room(1) /\ Settled
         /\ disk' = disk \ gone
         /\ events' = ToldAll(events, gone) /\ Bounded(events')
         /\ dead' = dead \cup {p \in gone \cap Folder : entries[p] # None}
         /\ listed' = [listed EXCEPT ![a] = found]
         /\ Push(<<FilesRemove(listed[a] \cap File)>> \o FilesNew(<<found>>))
  /\ UNCHANGED <<opened, has, saved, generate, live, dirs, base, entries, followed, docs, table, tags, freed>>

-----------------------------------------------------------------------------
(* wb_monitor_file_changed_cb()                                              *)

\* Mutant: what a new directory has in it is not added.
WbProjectDirAddFile_shallow(a, q, ev) ==
  IF q \notin disk THEN events' = ev /\ UNCHANGED <<listed, entries>>
  ELSE /\ listed' = [listed EXCEPT ![a] = @ \cup {q}]
       /\ entries' = IF live THEN AddDir(entries, a, {q} \cap Folder) ELSE entries
       /\ events' = ev

(* wb_project_dir_add_file(): what is gone is ignored; a directory is        *)
(* monitored and what is in it added.  No tags are made: to be new a file    *)
(* has to have no value in file_table, and g_hash_table_add() makes each its *)
(* own value, so that the action queued for them has no file and is left out. *)
WbProjectDirAddFile(a, q, ev) ==
  IF q \notin disk THEN events' = ev /\ UNCHANGED <<listed, entries>>
  ELSE LET new == {q} \cup (Below(q) \cap disk)
       IN  /\ listed' = [listed EXCEPT ![a] = @ \cup new]
           /\ entries' = IF live THEN AddDir(entries, a, new \cap Folder) ELSE entries
           /\ events' = ev

\* What wb_project_dir_remove_child() finds below q.
Children(a, q) == (Below(q) \cup {p \in Path : <<q, p>> \in SamePrefix}) \cap listed[a]

(* wb_project_dir_remove_file(): q was a directory if it had a monitor.      *)
WbProjectDirRemoveFile(a, q, ev) ==
  LET wasDir == q \in Folder /\ entries[q] # None
      gone == {q} \cup (IF wasDir THEN Children(a, q) ELSE {})
  IN  /\ Push([i \in 1..Cardinality(gone \cap File) |-> FileRemoved(SetToSeq(gone \cap File)[i])])
      /\ listed' = [listed EXCEPT ![a] = @ \ gone]
      /\ entries' = IF wasDir THEN [entries EXCEPT ![q] = None] ELSE entries
      /\ dead' = dead \ {q}
      /\ events' = IF wasDir THEN [ev EXCEPT ![q] = <<>>] ELSE ev

(* An event for a directory that is in the project no more is dropped.       *)
WbMonitorFileChangedCb(p) ==
  /\ events[p] # <<>> /\ Len(actions) < MaxActions
  /\ LET e == Head(events[p])
         ev == [events EXCEPT ![p] = Tail(@)]
         a == entries[p]
     IN  CASE ~InProject(a) -> events' = ev /\ UNCHANGED <<listed, entries, dead, actions>>
           [] InProject(a) /\ e.kind = "created" ->
                WbProjectDirAddFile(a, e.path, ev) /\ UNCHANGED <<dead, actions>>
           [] InProject(a) /\ e.kind = "deleted" -> WbProjectDirRemoveFile(a, e.path, ev)
  /\ UNCHANGED <<disk, opened, has, saved, generate, live, dirs, base, followed, docs, table, tags, freed>>

WorkbenchNext ==
  \/ \E q \in Path : DiskDelete(q) \/ \E content \in SUBSET Below(q) : DiskCreate(q, content)
  \/ \E a \in Addr : RemoveDirectory(a) \/ RescanDirectory(a)
                      \/ \E b \in Base : AddDirectory(b, a)
                      \/ \E q \in Path : NewHere(a, q) \/ RemoveHere(a, q)
  \/ SetLiveUpdate \/ CloseWorkbench \/ RemoveProject
  \/ \E rescan \in BOOLEAN : OpenWorkbench(rescan) \/ AddProject(rescan)
  \/ \E f \in File : DocumentOpen(f) \/ DocumentClose(f)
  \/ WbIdleQueueCallback
  \/ \E p \in Place : WbMonitorFileChangedCb(p)

WorkbenchSpec == WorkbenchInit /\ [][WorkbenchNext]_workbenchVars

-----------------------------------------------------------------------------
(* Properties                                                                 *)

(* "If the option is activated (default), then the list of files and the      *)
(* sidebar will be updated automatically if a file or directory is created,   *)
(* removed or renamed" (README).  With its monitors in place and their events *)
(* delivered, a directory's list is what is below it.                         *)
ListFollowsDisk ==
  \A a \in followed : Delivered => listed[a] = OnDisk(base[a])

(* "The entry must be freed using the tag-manager in a syncronized way"       *)
(* (free_file_table_entry).  The tag manager never has a TMSourceFile that    *)
(* was freed.                                                                 *)
FreedNotTagged == WorkbenchTypeOK /\ \A s \in Source : s \in freed => tags[s] = 0

(* "tags of open files managed by geany": when the queue has been run, the    *)
(* plugin keeps no TMSourceFile of a file that is open.                       *)
OpenLeftToGeany == actions = <<>> => \A f \in docs : table[f] = None

(* "Remove all files contained in the project dir from the tm-workspace"      *)
(* (wb_project_dir_remove_from_tm_workspace).  When all directories were      *)
(* removed and the queue has been run, the tag manager has no file of theirs. *)
RemovedFromWorkspace ==
  dirs = <<>> /\ actions = <<>> => \A s \in Source : tags[s] = 0
=============================================================================
