------------------------------ MODULE GitChangebar ------------------------------
(***************************************************************************)
(* The git-changebar plugin: markers that compare the current document     *)
(* with its blob at HEAD (git-changebar/src/gcb-plugin.c).                 *)
(*                                                                         *)
(* The main loop owns the cached blob and the update timer.  A worker      *)
(* thread takes jobs from G_queue, reads blobs and posts each result as an *)
(* idle source.  File monitors of the repository, made by the worker, post *)
(* their events to the main loop.  An action is one callback of the main   *)
(* loop, or one step of the worker between two things others can observe.  *)
(***************************************************************************)
EXTENDS Naturals, Sequences

CONSTANTS
  Doc,          \* documents, by doc->id, which Geany never uses again
  HasPath,      \* documents with a real_path; the others are untitled
  InRepo,       \* documents whose path is in the repository's work tree
  NULL,
  MaxVersion,   \* bound: versions of a file at HEAD; 0 is "not in HEAD"
  MaxEdits,     \* bound: changes of a text
  MaxQueue,     \* bound: jobs that are queued, worked on or reported
  Background,   \* are documents edited and saved while another is current?
  CommitAnytime \* may HEAD change, and the change be noticed, while a job is
                \* under way?

ASSUME GitChangebarAssumption ==
  /\ NULL \notin Doc
  /\ InRepo \subseteq HasPath /\ HasPath \subseteq Doc
  /\ MaxVersion \in Nat \ {0} /\ {MaxEdits, MaxQueue} \subseteq Nat
  /\ {Background, CommitAnytime} \subseteq BOOLEAN

VARIABLES
  current,   \* document_get_current()
  text,      \* how often each document's text was changed
  head,      \* the version of each file at HEAD
  cache,     \* G_blob_contents
  tag,       \* G_blob_contents_tag
  timer,     \* the update behind G_source_id
  queue,     \* G_queue
  worker,    \* the worker thread: where it is, and its job
  monitors,  \* does the worker hold monitors of the repository?
  changed,   \* a "changed" signal of a monitor waits in the main loop
  reports,   \* report_work_in_idle() sources, with the blobs read
  markers,   \* what each document's markers compare: a blob and a text
  undone,    \* what the hunks undone so far were computed from
  phase      \* of the plugin: "loaded", "joining" in plugin_cleanup(), "gone"

vars == <<current, text, head, cache, tag, timer, queue, worker, monitors,
          changed, reports, markers, undone, phase>>

Blob == [of: InRepo, version: 1..MaxVersion]

\* A git_buf that holds nothing: compared with it, a whole text is one hunk.
EmptyBuf == [of |-> NULL, version |-> 0]

Callback == {"update_diff", "undo_hunk", "goto_next_hunk"}

\* AsyncBlobContentsJob, with the text its user data refers to
Job == [doc: HasPath, force: BOOLEAN, callback: Callback, text: 0..MaxEdits]

\* NULL is none of them.
ASSUME NullAssumption == NULL \notin Job \cup Blob \cup [doc: HasPath, force: BOOLEAN]

\* QUIT_THREAD_JOB, which ends the worker
QuitThreadJob == NULL

TypeOK ==
  /\ current \in Doc
  /\ text \in [Doc -> 0..MaxEdits]
  /\ head \in [InRepo -> 0..MaxVersion]
  /\ cache \in Blob \cup {NULL} /\ tag \in Doc \cup {NULL}
  /\ timer \in [doc: HasPath, force: BOOLEAN] \cup {NULL}
  /\ queue \in Seq(Job \cup {QuitThreadJob})
  /\ worker.pc \in {"none", "pop", "open", "read", "exited"}
  /\ worker.job \in Job \cup {NULL}
  /\ monitors \in BOOLEAN /\ changed \in BOOLEAN
  /\ reports \in Seq([job: Job, blob: Blob \cup {NULL}])
  /\ markers \in [Doc -> [blob: Blob, text: 0..MaxEdits] \cup {NULL}]
  /\ undone \subseteq [doc: Doc, blob: Blob \cup {EmptyBuf}, asked: 0..MaxEdits, text: 0..MaxEdits]
  /\ phase \in {"loaded", "joining", "gone"}

\* The blob of d at HEAD, if it has one.
AtHead(d) ==
  IF d \in InRepo /\ head[d] > 0 THEN [of |-> d, version |-> head[d]] ELSE NULL

Waiting == Len(queue) + Len(reports) + (IF worker.job = NULL THEN 0 ELSE 1)

-------------------------------------------------------------------------------
(* Pieces of the handlers.                                                   *)

(* clear_cached_blob_contents() *)
ClearCachedBlobContents ==
  /\ cache' = NULL
  /\ tag' = NULL

(* update_diff_push(): the update of d replaces the one that is pending. *)
UpdateDiffPush(d, force) ==
  IF d \in HasPath THEN [doc |-> d, force |-> force] ELSE NULL

(* update_diff() *)
UpdateDiff(d, blob) ==
  markers' = IF d # current THEN markers
             ELSE [markers EXCEPT ![d] =
                     IF blob = NULL THEN NULL ELSE [blob |-> blob, text |-> text[d]]]

(* undo_hunk_cb(): if there is a hunk at the line, the text changes, which   *)
(* on_editor_notify() is told of.                                            *)
UndoHunk(d, blob, asked, found, pending) ==
  IF d = current /\ blob # NULL /\ found /\ text[d] < MaxEdits
    THEN /\ undone' = undone \cup
              {[doc |-> d, blob |-> blob, asked |-> asked, text |-> text[d]]}
         /\ text' = [text EXCEPT ![d] = @ + 1]
         /\ timer' = UpdateDiffPush(d, FALSE)
    ELSE /\ timer' = pending
         /\ UNCHANGED <<text, undone>>

(* A job's callback with the contents it asked for, "pending" being the      *)
(* update that is pending.  goto_next_hunk_cb() only moves the caret.        *)
Deliver(job, blob, found, pending) ==
  \/ /\ job.callback = "update_diff"
     /\ UpdateDiff(job.doc, blob)
     /\ timer' = pending
     /\ UNCHANGED <<text, undone>>
  \/ /\ job.callback = "undo_hunk"
     /\ UndoHunk(job.doc, blob, job.text, found, pending)
     /\ UNCHANGED markers
  \/ /\ job.callback = "goto_next_hunk"
     /\ timer' = pending
     /\ UNCHANGED <<text, undone, markers>>

\* Mutant: the contents read last, whoever they are of.
Cached_any(d) == cache # NULL

Cached(d) == cache # NULL /\ tag = d

(* get_cached_blob_contents_async(): from the cache, at once, or as a job    *)
(* for the worker, which the first job creates.  Without a path the callback *)
(* gets the cache as it is.                                                  *)
GetCachedBlobContentsAsync(job, found, pending) ==
  IF (~job.force /\ Cached(job.doc)) \/ job.doc \notin HasPath
    THEN /\ Deliver(job, IF cache = NULL THEN EmptyBuf ELSE cache, found, pending)
         /\ UNCHANGED <<queue, worker>>
    ELSE /\ Waiting < MaxQueue
         /\ queue' = Append(queue, job)
         /\ worker' = IF worker.pc = "none" THEN [worker EXCEPT !.pc = "pop"] ELSE worker
         /\ timer' = pending
         /\ UNCHANGED <<text, undone, markers>>

-------------------------------------------------------------------------------
(* The main loop.                                                            *)

(* plugin_init() and on_startup_complete() with a document open *)
Init ==
  /\ current \in Doc
  /\ text = [d \in Doc |-> 0]
  /\ head \in [InRepo -> {0, 1}]
  /\ cache = NULL /\ tag = NULL
  /\ timer = UpdateDiffPush(current, FALSE)
  /\ queue = <<>> /\ worker = [pc |-> "none", job |-> NULL]
  /\ monitors = FALSE /\ changed = FALSE
  /\ reports = <<>>
  /\ markers = [d \in Doc |-> NULL]
  /\ undone = {}
  /\ phase = "loaded"

(* on_document_activate(): d's tab is shown, or d was reloaded or saved. *)
OnDocumentActivate(d, shown) ==
  /\ phase = "loaded"
  /\ shown \/ d = current \/ Background
  /\ current' = IF shown THEN d ELSE current
  /\ ClearCachedBlobContents
  /\ timer' = UpdateDiffPush(d, FALSE)
  /\ UNCHANGED <<text, head, queue, worker, monitors, changed, reports, markers,
                 undone, phase>>

(* on_editor_notify(): the text of d changes. *)
OnEditorNotify(d) ==
  /\ phase = "loaded"
  /\ d = current \/ Background
  /\ text[d] < MaxEdits
  /\ text' = [text EXCEPT ![d] = @ + 1]
  /\ timer' = UpdateDiffPush(d, FALSE)
  /\ UNCHANGED <<current, head, cache, tag, queue, worker, monitors, changed,
                 reports, markers, undone, phase>>

(* do_update_diff_idle() *)
DoUpdateDiffIdle ==
  /\ phase = "loaded" /\ timer # NULL
  /\ IF timer.doc = current
       THEN GetCachedBlobContentsAsync([doc |-> current, force |-> timer.force,
               callback |-> "update_diff", text |-> text[current]], FALSE, NULL)
       ELSE timer' = NULL /\ UNCHANGED <<queue, worker, text, undone, markers>>
  /\ UNCHANGED <<current, head, cache, tag, monitors, changed, reports, phase>>

(* on_kb_undo_hunk(), on_undo_hunk_activate(), on_kb_goto_next_hunk() *)
AskForHunk(callback, found) ==
  /\ phase = "loaded"
  /\ GetCachedBlobContentsAsync([doc |-> current, force |-> FALSE,
        callback |-> callback, text |-> text[current]], found, timer)
  /\ UNCHANGED <<current, head, cache, tag, monitors, changed, reports, phase>>

\* Mutant: the cache stays.
OnGitRepoChanged_keepsCache(force) ==
  /\ phase = "loaded" /\ changed
  /\ changed' = FALSE
  /\ timer' = UpdateDiffPush(current, force)
  /\ UNCHANGED <<current, text, head, cache, tag, queue, worker, monitors, reports,
                 markers, undone, phase>>

(* on_git_repo_changed(): HEAD itself changed, or the branch it names. *)
OnGitRepoChanged(force) ==
  /\ phase = "loaded" /\ changed
  /\ changed' = FALSE
  /\ ClearCachedBlobContents
  /\ timer' = UpdateDiffPush(current, force)
  /\ UNCHANGED <<current, text, head, queue, worker, monitors, reports, markers,
                 undone, phase>>

(* report_work_in_idle(), which takes the contents over into the cache even  *)
(* if the job was for a document that is not shown any more *)
ReportWorkInIdle(found) ==
  /\ phase = "loaded" /\ reports # <<>>
  /\ LET r == Head(reports)
     IN  /\ cache' = r.blob
         /\ tag' = IF r.blob = NULL THEN NULL ELSE r.job.doc
         /\ Deliver(r.job, r.blob, found, timer)
  /\ reports' = Tail(reports)
  /\ UNCHANGED <<current, head, queue, worker, monitors, changed, phase>>

\* Mutant: the worker is not told to end.
PluginCleanup_silent ==
  /\ phase = "loaded"
  /\ timer' = NULL
  /\ phase' = IF worker.pc = "none" THEN "gone" ELSE "joining"
  /\ ClearCachedBlobContents
  /\ UNCHANGED <<current, text, head, queue, worker, monitors, changed, reports,
                 markers, undone>>

(* plugin_cleanup() up to g_thread_join() *)
PluginCleanup ==
  /\ phase = "loaded"
  /\ timer' = NULL
  /\ IF worker.pc = "none" THEN phase' = "gone" /\ queue' = queue
     ELSE phase' = "joining" /\ queue' = Append(queue, QuitThreadJob)
  /\ ClearCachedBlobContents
  /\ UNCHANGED <<current, text, head, worker, monitors, changed, reports, markers,
                 undone>>

(* g_thread_join() returns. *)
Joined ==
  /\ phase = "joining" /\ worker.pc = "exited"
  /\ phase' = "gone"
  /\ UNCHANGED <<current, text, head, cache, tag, timer, queue, worker, monitors,
                 changed, reports, markers, undone>>

-------------------------------------------------------------------------------
(* worker_thread() *)

(* A job is taken.  A repository is always given up: what is asked is        *)
(* whether the work tree lies in the file, not the file in the work tree.    *)
(* With it go the monitors, and a signal of theirs that was not delivered.   *)
Pop ==
  /\ worker.pc = "pop" /\ queue # <<>>
  /\ CommitAnytime \/ ~changed
  /\ worker' = IF Head(queue) = QuitThreadJob THEN [pc |-> "exited", job |-> NULL]
               ELSE [pc |-> "open", job |-> Head(queue)]
  /\ queue' = Tail(queue)
  /\ monitors' = FALSE
  /\ changed' = FALSE
  /\ UNCHANGED <<current, text, head, cache, tag, timer, reports, markers, undone,
                 phase>>

(* The repository of the job's file is opened and monitored. *)
OpenRepo ==
  /\ worker.pc = "open"
  /\ worker' = [worker EXCEPT !.pc = "read"]
  /\ monitors' = (worker.job.doc \in InRepo)
  /\ UNCHANGED <<current, text, head, cache, tag, timer, queue, changed, reports,
                 markers, undone, phase>>

(* The blob is read and its report posted. *)
ReadBlob ==
  /\ worker.pc = "read"
  /\ reports' = Append(reports, [job |-> worker.job, blob |-> AtHead(worker.job.doc)])
  /\ worker' = [pc |-> "pop", job |-> NULL]
  /\ UNCHANGED <<current, text, head, cache, tag, timer, queue, monitors, changed,
                 markers, undone, phase>>

(* A commit, made by the user with git. *)
Commit(d) ==
  /\ CommitAnytime \/ Waiting = 0
  /\ head[d] < MaxVersion
  /\ head' = [head EXCEPT ![d] = @ + 1]
  /\ changed' = (changed \/ monitors)
  /\ UNCHANGED <<current, text, cache, tag, timer, queue, worker, monitors, reports,
                 markers, undone, phase>>

-------------------------------------------------------------------------------
Worker == Pop \/ OpenRepo \/ ReadBlob

MainLoop ==
  \/ DoUpdateDiffIdle
  \/ \E force \in BOOLEAN : OnGitRepoChanged(force)
  \/ \E found \in BOOLEAN : ReportWorkInIdle(found)

Next ==
  \/ \E d \in Doc : OnEditorNotify(d) \/ \E shown \in BOOLEAN : OnDocumentActivate(d, shown)
  \/ \E d \in InRepo : Commit(d)
  \/ \E callback \in Callback \ {"update_diff"}, found \in BOOLEAN : AskForHunk(callback, found)
  \/ MainLoop
  \/ Worker
  \/ PluginCleanup
  \/ Joined

Spec == Init /\ [][Next]_vars

(* Threads are scheduled, and the join returns once the worker has ended. *)
Fairness == WF_vars(Worker) /\ WF_vars(Joined)

-------------------------------------------------------------------------------
(* Properties *)

Quiet == timer = NULL /\ Waiting = 0 /\ ~changed

(* "Typically this should be called after the user modified the buffer to    *)
(* keep the diff in sync" (update_diff_push).  With nothing under way any    *)
(* more, the markers of the current document compare its text with its blob  *)
(* at HEAD, and there are none if it has no blob.                            *)
MarkersInSync ==
  (phase = "loaded" /\ Quiet /\ current \in HasPath) =>
    markers[current] = IF AtHead(current) = NULL THEN NULL
                       ELSE [blob |-> AtHead(current), text |-> text[current]]

(* Hunks are undone from the document's own blob, never from that of the     *)
(* document shown before or of no file at all.                               *)
UndoneFromOwnBlob == TypeOK /\ \A u \in undone : u.blob.of = u.doc

(* The README: hunks are "undone by either setting a cursor at a line with a *)
(* hunk and invoking" the keybinding.  The line still is the one the cursor  *)
(* was at: no change of the text came between.                               *)
UndoneWhereAsked == \A u \in undone : u.text = u.asked

(* plugin_cleanup() does not wait for ever: the worker takes all jobs before *)
(* the one that ends it.                                                     *)
CleanupEnds == (phase = "joining") ~> (phase = "gone")
===============================================================================
