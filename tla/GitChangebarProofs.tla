--------------------------- MODULE GitChangebarProofs ---------------------------
(* The blobs that git-changebar compares with and undoes hunks from are the  *)
(* document's own, and with nothing under way any more the markers compare   *)
(* the current text with the blob at HEAD.                                   *)
EXTENDS GitChangebar, TLAPS

Items(q) == {q[i] : i \in 1..Len(q)}

Update == [doc: HasPath, force: BOOLEAN]

Report == [job: Job, blob: Blob \cup {NULL}]

Marked == [blob: Blob, text: 0..MaxEdits]

Undone == [doc: Doc, blob: Blob \cup {EmptyBuf}, asked: 0..MaxEdits, text: 0..MaxEdits]

\* What a handler asks for: as a job, but perhaps of a document without a path.
Ask == [doc: Doc, force: BOOLEAN, callback: Callback, text: 0..MaxEdits]

(* The worker has a job exactly between taking it and posting its report.    *)
WorkerOK ==
  /\ worker \in [pc: {"none", "pop", "open", "read", "exited"}, job: Job \cup {NULL}]
  /\ worker.pc \in {"open", "read"} <=> worker.job # NULL

TypeIInv == TypeOK /\ WorkerOK

(* The blobs in the cache and in the reports are of the documents they are   *)
(* said to be of.                                                            *)
BlobsOwn ==
  /\ cache # NULL => cache.of = tag
  /\ \A r \in Items(reports) : r.blob # NULL => r.blob.of = r.job.doc
  /\ \A u \in undone : u.blob.of = u.doc

OwnIInv == TypeIInv /\ BlobsOwn

(* The worker started with the first job, has the monitors when it is done,  *)
(* and is not ended before plugin_cleanup(), which empties the cache.        *)
Started ==
  /\ worker.pc = "none" => cache = NULL /\ queue = <<>> /\ reports = <<>>
  /\ worker.pc = "pop" /\ ~monitors => queue # <<>>
  /\ worker.pc = "read" => monitors
  /\ phase = "loaded" => worker.pc # "exited" /\ \A j \in Items(queue) : j # QuitThreadJob
  /\ phase # "loaded" => cache = NULL

(* What was read is still at HEAD, unless the change waits to be noticed.    *)
BlobsAtHead ==
  /\ cache # NULL /\ ~changed => cache = AtHead(tag)
  /\ \A r \in Items(reports) : r.blob = AtHead(r.job.doc)

Updates(j) == j # NULL /\ j.doc = current /\ j.callback = "update_diff"

UnderWay == \/ \E j \in Items(queue) : Updates(j)
            \/ Updates(worker.job)
            \/ \E r \in Items(reports) : Updates(r.job)

Synced ==
  markers[current] = IF AtHead(current) = NULL THEN NULL
                     ELSE [blob |-> AtHead(current), text |-> text[current]]

(* Markers that are not in sync are about to be: the update is pending or    *)
(* under way, or the change at HEAD that will cause it waits.                *)
UpdateDue ==
  phase = "loaded" =>
    /\ timer # NULL => timer.doc = current
    /\ current \in HasPath =>
         /\ worker.pc = "none" => timer # NULL
         /\ timer # NULL \/ changed \/ UnderWay \/ Synced

SyncIInv == TypeIInv /\ Started /\ BlobsAtHead /\ UpdateDue

-------------------------------------------------------------------------------
LEMMA ItemsEmpty == Items(<<>>) = {}
BY DEF Items

LEMMA ItemsAppend ==
  ASSUME NEW S, NEW q \in Seq(S), NEW x \in S
  PROVE  /\ Append(q, x) \in Seq(S) /\ Append(q, x) # <<>>
         /\ Items(Append(q, x)) = Items(q) \cup {x}
<1>1. Len(Append(q, x)) = Len(q) + 1 /\ Len(q) \in Nat /\ Append(q, x) \in Seq(S)
  OBVIOUS
<1>2. Append(q, x)[Len(q) + 1] = x /\ \A i \in 1..Len(q) : Append(q, x)[i] = q[i]
  OBVIOUS
<1>3. 1..(Len(q) + 1) = 1..Len(q) \cup {Len(q) + 1}
  BY <1>1
<1>4. Items(Append(q, x)) = Items(q) \cup {x}
  BY <1>1, <1>2, <1>3 DEF Items
<1> QED
  BY <1>1, <1>4

LEMMA ItemsHead ==
  ASSUME NEW S, NEW q \in Seq(S), q # <<>>
  PROVE  /\ Head(q) \in S /\ Tail(q) \in Seq(S)
         /\ Items(q) = Items(Tail(q)) \cup {Head(q)}
<1>1. Len(q) \in Nat \ {0} /\ Head(q) = q[1] /\ q[1] \in S /\ Tail(q) \in Seq(S)
      /\ Len(Tail(q)) = Len(q) - 1
  OBVIOUS
<1>2. \A i \in 1..(Len(q) - 1) : Tail(q)[i] = q[i + 1]
  BY <1>1
<1>3. ASSUME NEW x \in Items(q)
      PROVE  x \in Items(Tail(q)) \cup {Head(q)}
  <2>1. PICK i \in 1..Len(q) : x = q[i]
    BY <1>3 DEF Items
  <2>2. i = 1 \/ (i - 1 \in 1..(Len(q) - 1) /\ (i - 1) + 1 = i)
    BY <1>1
  <2> QED
    BY <1>1, <1>2, <2>1, <2>2 DEF Items
<1>4. ASSUME NEW x \in Items(Tail(q))
      PROVE  x \in Items(q)
  <2>1. PICK i \in 1..(Len(q) - 1) : x = Tail(q)[i]
    BY <1>1, <1>4 DEF Items
  <2>2. i + 1 \in 1..Len(q)
    BY <1>1
  <2> QED
    BY <1>2, <2>1, <2>2 DEF Items
<1>5. Head(q) \in Items(q)
  BY <1>1 DEF Items
<1> QED
  BY <1>1, <1>3, <1>4, <1>5

LEMMA ItemsOf ==
  ASSUME NEW S, NEW q \in Seq(S)
  PROVE  Items(q) \subseteq S /\ (Len(q) = 0 <=> q = <<>>)
BY DEF Items

-------------------------------------------------------------------------------
(* Types.                                                                    *)

LEMMA DeliverTyped ==
  ASSUME GitChangebarAssumption, TypeOK,
         NEW job \in Ask, NEW blob \in Blob \cup {NULL, EmptyBuf}, NEW found,
         NEW pending \in Update \cup {NULL},
         job.callback = "update_diff" => blob \in Blob \cup {NULL},
         Deliver(job, blob, found, pending)
  PROVE  /\ text' \in [Doc -> 0..MaxEdits] /\ timer' \in Update \cup {NULL}
         /\ markers' \in [Doc -> Marked \cup {NULL}] /\ undone' \in SUBSET Undone
<1>1. /\ text \in [Doc -> 0..MaxEdits] /\ markers \in [Doc -> Marked \cup {NULL}]
      /\ undone \in SUBSET Undone /\ current \in Doc /\ job.doc \in Doc
      /\ job.text \in 0..MaxEdits /\ MaxEdits \in Nat
  BY DEF TypeOK, Marked, Undone, Ask, GitChangebarAssumption
<1>2. CASE job.callback = "update_diff"
  <2>1. UpdateDiff(job.doc, blob) /\ timer' = pending /\ UNCHANGED <<text, undone>>
    BY <1>2 DEF Deliver
  <2>2. (IF blob = NULL THEN NULL ELSE [blob |-> blob, text |-> text[job.doc]]) \in Marked \cup {NULL}
    BY <1>1, <1>2 DEF Marked
  <2> QED
    BY <1>1, <2>1, <2>2 DEF UpdateDiff
<1>3. CASE job.callback = "undo_hunk"
  <2>1. UndoHunk(job.doc, blob, job.text, found, pending) /\ UNCHANGED markers
    BY <1>3 DEF Deliver
  <2>2. CASE job.doc = current /\ blob # NULL /\ found /\ text[job.doc] < MaxEdits
    <3>1. /\ undone' = undone \cup {[doc |-> job.doc, blob |-> blob, asked |-> job.text, text |-> text[job.doc]]}
          /\ text' = [text EXCEPT ![job.doc] = @ + 1]
          /\ timer' = UpdateDiffPush(job.doc, FALSE)
      BY <2>1, <2>2 DEF UndoHunk
    <3>2. [doc |-> job.doc, blob |-> blob, asked |-> job.text, text |-> text[job.doc]] \in Undone
      BY <1>1, <2>2 DEF Undone
    <3>3. text[job.doc] + 1 \in 0..MaxEdits
      BY <1>1, <2>2
    <3>4. timer' \in Update \cup {NULL}
      BY <3>1 DEF UpdateDiffPush, Update
    <3> QED
      BY <1>1, <2>1, <3>1, <3>2, <3>3, <3>4
  <2>3. CASE ~(job.doc = current /\ blob # NULL /\ found /\ text[job.doc] < MaxEdits)
    BY <1>1, <2>1, <2>3 DEF UndoHunk
  <2> QED
    BY <2>2, <2>3
<1>4. CASE job.callback = "goto_next_hunk"
  BY <1>1, <1>4 DEF Deliver
<1> QED
  BY <1>2, <1>3, <1>4 DEF Deliver

LEMMA GetTyped ==
  ASSUME GitChangebarAssumption, TypeIInv,
         NEW job \in Ask, NEW found, NEW pending \in Update \cup {NULL},
         job.callback = "update_diff" => job.doc \in HasPath,
         GetCachedBlobContentsAsync(job, found, pending)
  PROVE  /\ text' \in [Doc -> 0..MaxEdits] /\ timer' \in Update \cup {NULL}
         /\ markers' \in [Doc -> Marked \cup {NULL}] /\ undone' \in SUBSET Undone
         /\ queue' \in Seq(Job \cup {QuitThreadJob})
         /\ WorkerOK'
<1>1. /\ queue \in Seq(Job \cup {QuitThreadJob}) /\ cache \in Blob \cup {NULL}
      /\ text \in [Doc -> 0..MaxEdits] /\ markers \in [Doc -> Marked \cup {NULL}]
      /\ undone \in SUBSET Undone
  BY DEF TypeIInv, TypeOK, Marked, Undone
<1>2. CASE (~job.force /\ Cached(job.doc)) \/ job.doc \notin HasPath
  <2> DEFINE blob == IF cache = NULL THEN EmptyBuf ELSE cache
  <2>1. Deliver(job, blob, found, pending) /\ UNCHANGED <<queue, worker>>
    BY <1>2 DEF GetCachedBlobContentsAsync
  <2>2. blob \in Blob \cup {NULL, EmptyBuf}
    BY <1>1
  <2>3. job.callback = "update_diff" => blob \in Blob \cup {NULL}
    BY <1>1, <1>2 DEF Cached
  <2> HIDE DEF blob
  <2>4. WorkerOK'
    BY <2>1 DEF TypeIInv, WorkerOK
  <2> QED
    BY <1>1, <2>1, <2>2, <2>3, <2>4, DeliverTyped DEF TypeIInv
<1>3. CASE ~((~job.force /\ Cached(job.doc)) \/ job.doc \notin HasPath)
  <2>1. /\ queue' = Append(queue, job)
        /\ worker' = IF worker.pc = "none" THEN [worker EXCEPT !.pc = "pop"] ELSE worker
        /\ timer' = pending /\ UNCHANGED <<text, undone, markers>>
    BY <1>3 DEF GetCachedBlobContentsAsync
  <2>2. job \in Job
    BY <1>3 DEF Ask, Job
  <2>3. queue' \in Seq(Job \cup {QuitThreadJob})
    BY <1>1, <2>1, <2>2
  <2>4. WorkerOK'
    BY <2>1 DEF TypeIInv, WorkerOK
  <2> QED
    BY <1>1, <2>1, <2>3, <2>4
<1> QED
  BY <1>2, <1>3

LEMMA AtHeadTyped ==
  ASSUME TypeOK, GitChangebarAssumption, NEW d
  PROVE  AtHead(d) \in Blob \cup {NULL} /\ (AtHead(d) # NULL => AtHead(d).of = d)
BY DEF TypeOK, AtHead, Blob, GitChangebarAssumption

LEMMA PushTyped ==
  ASSUME NEW d, NEW force \in BOOLEAN
  PROVE  /\ UpdateDiffPush(d, force) \in Update \cup {NULL}
         /\ UpdateDiffPush(d, force) # NULL => UpdateDiffPush(d, force).doc = d
         /\ d \in HasPath => UpdateDiffPush(d, force) # NULL
<1>1. d \in HasPath => [doc |-> d, force |-> force] \in [doc: HasPath, force: BOOLEAN]
  OBVIOUS
<1>2. d \in HasPath => [doc |-> d, force |-> force] # NULL
  BY <1>1, NullAssumption
<1> QED
  BY <1>1, <1>2 DEF UpdateDiffPush, Update

LEMMA InitTyped == GitChangebarAssumption /\ Init => TypeIInv
<1> SUFFICES ASSUME GitChangebarAssumption, Init
             PROVE  TypeIInv
  OBVIOUS
<1>1. MaxVersion \in Nat \ {0} /\ MaxEdits \in Nat
  BY DEF GitChangebarAssumption
<1>2. timer \in Update \cup {NULL}
  BY PushTyped DEF Init
<1>3. head \in [InRepo -> 0..MaxVersion]
  BY <1>1 DEF Init
<1>4. text \in [Doc -> 0..MaxEdits] /\ markers \in [Doc -> Marked \cup {NULL}]
  BY <1>1 DEF Init
<1>5. queue \in Seq(Job \cup {QuitThreadJob}) /\ reports \in Seq(Report)
  BY DEF Init
<1> QED
  BY <1>2, <1>3, <1>4, <1>5 DEF Init, TypeIInv, TypeOK, WorkerOK, Update, Report, Marked

(* What every action but the worker's leaves as it is, or changes to a value *)
(* of its type.                                                              *)
LEMMA NextTyped ==
  ASSUME GitChangebarAssumption, TypeIInv, Next
  PROVE  TypeIInv'
<1> USE DEF Update, Report, Marked, Undone
<1>1. /\ current \in Doc /\ text \in [Doc -> 0..MaxEdits] /\ head \in [InRepo -> 0..MaxVersion]
      /\ timer \in Update \cup {NULL} /\ queue \in Seq(Job \cup {QuitThreadJob})
      /\ reports \in Seq(Report) /\ cache \in Blob \cup {NULL}
      /\ MaxEdits \in Nat /\ MaxVersion \in Nat /\ HasPath \subseteq Doc
  BY DEF TypeIInv, TypeOK, GitChangebarAssumption
<1>2. ASSUME NEW d \in Doc, OnEditorNotify(d)
      PROVE  TypeIInv'
  <2>1. text' \in [Doc -> 0..MaxEdits]
    BY <1>1, <1>2 DEF OnEditorNotify
  <2>2. timer' \in Update \cup {NULL}
    BY <1>2, PushTyped DEF OnEditorNotify
  <2> QED
    BY <1>2, <2>1, <2>2 DEF OnEditorNotify, TypeIInv, TypeOK, WorkerOK
<1>3. ASSUME NEW d \in Doc, NEW shown \in BOOLEAN, OnDocumentActivate(d, shown)
      PROVE  TypeIInv'
  <2>1. timer' \in Update \cup {NULL}
    BY <1>3, PushTyped DEF OnDocumentActivate
  <2> QED
    BY <1>3, <2>1 DEF OnDocumentActivate, ClearCachedBlobContents, TypeIInv, TypeOK, WorkerOK
<1>4. ASSUME NEW d \in InRepo, Commit(d)
      PROVE  TypeIInv'
  <2>1. head' \in [InRepo -> 0..MaxVersion]
    BY <1>1, <1>4 DEF Commit
  <2>2. changed' \in BOOLEAN
    BY <1>4 DEF Commit, TypeIInv, TypeOK
  <2> QED
    BY <1>4, <2>1, <2>2 DEF Commit, TypeIInv, TypeOK, WorkerOK
<1>5. ASSUME NEW callback \in Callback \ {"update_diff"}, NEW found \in BOOLEAN,
             AskForHunk(callback, found)
      PROVE  TypeIInv'
  <2> DEFINE job == [doc |-> current, force |-> FALSE, callback |-> callback, text |-> text[current]]
  <2>1. job \in Ask /\ job.callback # "update_diff"
    BY <1>1 DEF Ask
  <2>2. GetCachedBlobContentsAsync(job, found, timer)
    BY <1>5 DEF AskForHunk
  <2> HIDE DEF job
  <2>3. /\ text' \in [Doc -> 0..MaxEdits] /\ timer' \in Update \cup {NULL}
        /\ markers' \in [Doc -> Marked \cup {NULL}] /\ undone' \in SUBSET Undone
        /\ queue' \in Seq(Job \cup {QuitThreadJob})
        /\ WorkerOK'
    BY <1>1, <2>1, <2>2, GetTyped
  <2> QED
    BY <1>5, <2>3 DEF AskForHunk, TypeIInv, TypeOK, WorkerOK
<1>6. CASE DoUpdateDiffIdle
  <2> DEFINE job == [doc |-> current, force |-> timer.force, callback |-> "update_diff", text |-> text[current]]
  <2>1. CASE timer.doc = current
    <3>1. job \in Ask /\ job.doc \in HasPath
      BY <1>1, <1>6, <2>1 DEF Ask, Callback, DoUpdateDiffIdle
    <3>2. GetCachedBlobContentsAsync(job, FALSE, NULL)
      BY <1>6, <2>1 DEF DoUpdateDiffIdle
    <3> HIDE DEF job
    <3>3. /\ text' \in [Doc -> 0..MaxEdits] /\ timer' \in Update \cup {NULL}
          /\ markers' \in [Doc -> Marked \cup {NULL}] /\ undone' \in SUBSET Undone
          /\ queue' \in Seq(Job \cup {QuitThreadJob})
          /\ WorkerOK'
      BY <3>1, <3>2, GetTyped
    <3> QED
      BY <1>6, <3>3 DEF DoUpdateDiffIdle, TypeIInv, TypeOK, WorkerOK
  <2>2. CASE timer.doc # current
    BY <1>6, <2>2 DEF DoUpdateDiffIdle, TypeIInv, TypeOK, WorkerOK
  <2> QED
    BY <2>1, <2>2
<1>7. ASSUME NEW force \in BOOLEAN, OnGitRepoChanged(force)
      PROVE  TypeIInv'
  <2>1. timer' \in Update \cup {NULL}
    BY <1>7, PushTyped DEF OnGitRepoChanged
  <2> QED
    BY <1>7, <2>1 DEF OnGitRepoChanged, ClearCachedBlobContents, TypeIInv, TypeOK, WorkerOK
<1>8. ASSUME NEW found \in BOOLEAN, ReportWorkInIdle(found)
      PROVE  TypeIInv'
  <2> DEFINE r == Head(reports)
  <2>1. r \in Report /\ Tail(reports) \in Seq(Report)
    BY <1>1, <1>8, ItemsHead DEF ReportWorkInIdle
  <2>2. /\ cache' = r.blob /\ tag' = (IF r.blob = NULL THEN NULL ELSE r.job.doc)
        /\ Deliver(r.job, r.blob, found, timer) /\ reports' = Tail(reports)
    BY <1>8 DEF ReportWorkInIdle
  <2> HIDE DEF r
  <2>3. r.job \in Ask /\ r.blob \in Blob \cup {NULL} /\ r.job.doc \in Doc
    BY <1>1, <2>1 DEF Ask, Job
  <2>4. /\ text' \in [Doc -> 0..MaxEdits] /\ timer' \in Update \cup {NULL}
        /\ markers' \in [Doc -> Marked \cup {NULL}] /\ undone' \in SUBSET Undone
    BY <1>1, <2>2, <2>3, DeliverTyped DEF TypeIInv
  <2> QED
    BY <1>8, <2>1, <2>2, <2>3, <2>4 DEF ReportWorkInIdle, TypeIInv, TypeOK, WorkerOK
<1>9. CASE Pop
  <2>1. Head(queue) \in Job \cup {QuitThreadJob} /\ Tail(queue) \in Seq(Job \cup {QuitThreadJob})
    BY <1>1, <1>9 DEF Pop
  <2>2. WorkerOK'
    BY <1>9, <2>1 DEF Pop, WorkerOK, QuitThreadJob
  <2> QED
    BY <1>9, <2>1, <2>2 DEF Pop, TypeIInv, TypeOK, WorkerOK
<1>10. CASE OpenRepo
  <2>1. WorkerOK'
    BY <1>10 DEF OpenRepo, TypeIInv, WorkerOK
  <2> QED
    BY <1>10, <2>1 DEF OpenRepo, TypeIInv, TypeOK, WorkerOK
<1>11. CASE ReadBlob
  <2>1. worker.job \in Job
    BY <1>11 DEF ReadBlob, TypeIInv, WorkerOK
  <2>2. AtHead(worker.job.doc) \in Blob \cup {NULL}
    BY AtHeadTyped DEF TypeIInv
  <2>3. [job |-> worker.job, blob |-> AtHead(worker.job.doc)] \in Report
    BY <2>1, <2>2
  <2>4. reports' \in Seq(Report)
    BY <1>1, <1>11, <2>3 DEF ReadBlob
  <2>5. WorkerOK'
    BY <1>11 DEF ReadBlob, WorkerOK
  <2> QED
    BY <1>11, <2>4, <2>5 DEF ReadBlob, TypeIInv, TypeOK, WorkerOK
<1>12. CASE PluginCleanup
  <2>1. queue' \in Seq(Job \cup {QuitThreadJob})
    <3>1. Append(queue, QuitThreadJob) \in Seq(Job \cup {QuitThreadJob})
      BY <1>1, ItemsAppend
    <3>2. queue' = queue \/ queue' = Append(queue, QuitThreadJob)
      BY <1>12 DEF PluginCleanup
    <3> QED
      BY <1>1, <3>1, <3>2
  <2> QED
    BY <1>12, <2>1 DEF PluginCleanup, ClearCachedBlobContents, TypeIInv, TypeOK, WorkerOK
<1>13. CASE Joined
  BY <1>13 DEF Joined, TypeIInv, TypeOK, WorkerOK
<1> QED
  BY <1>2, <1>3, <1>4, <1>5, <1>6, <1>7, <1>8, <1>9, <1>10, <1>11, <1>12, <1>13
    DEF Next, MainLoop, Worker

(* The state has the types of TypeOK.                                        *)
THEOREM ChangebarTyped == Spec => []TypeOK
<1>1. Init => TypeIInv
  BY GitChangebarAssumption, InitTyped
<1>2. TypeIInv /\ [Next]_vars => TypeIInv'
  <2> SUFFICES ASSUME TypeIInv, [Next]_vars
               PROVE  TypeIInv'
    OBVIOUS
  <2>1. CASE Next
    BY <2>1, GitChangebarAssumption, NextTyped
  <2>2. CASE UNCHANGED vars
    BY <2>2 DEF vars, TypeIInv, TypeOK, WorkerOK
  <2> QED
    BY <2>1, <2>2
<1>3. TypeIInv => TypeOK
  BY DEF TypeIInv
<1> QED
  BY <1>1, <1>2, <1>3, PTL DEF Spec

-------------------------------------------------------------------------------
(* Hunks are undone from the document's own blob.                            *)

LEMMA DeliverUndone ==
  ASSUME NEW job, NEW blob, NEW found, NEW pending, Deliver(job, blob, found, pending)
  PROVE  \/ undone' = undone
         \/ /\ blob # NULL
            /\ undone' = undone \cup {[doc |-> job.doc, blob |-> blob, asked |-> job.text,
                                       text |-> text[job.doc]]}
BY DEF Deliver, UndoHunk

LEMMA DeliverOwn ==
  ASSUME NEW job, NEW blob, NEW found, NEW pending, Deliver(job, blob, found, pending),
         blob # NULL => blob.of = job.doc,
         \A u \in undone : u.blob.of = u.doc
  PROVE  \A u \in undone' : u.blob.of = u.doc
BY DeliverUndone

LEMMA GetOwn ==
  ASSUME HasPath = Doc, OwnIInv, NEW job \in Ask, NEW found, NEW pending,
         GetCachedBlobContentsAsync(job, found, pending)
  PROVE  \A u \in undone' : u.blob.of = u.doc
<1>1. job.doc \in HasPath
  BY DEF Ask
<1>2. CASE ~job.force /\ Cached(job.doc)
  <2>1. cache # NULL /\ cache.of = job.doc
    BY <1>2 DEF Cached, OwnIInv, BlobsOwn
  <2>2. Deliver(job, cache, found, pending)
    BY <1>2, <2>1 DEF GetCachedBlobContentsAsync
  <2> QED
    BY <2>1, <2>2, DeliverOwn DEF OwnIInv, BlobsOwn
<1>3. CASE ~(~job.force /\ Cached(job.doc))
  BY <1>1, <1>3 DEF GetCachedBlobContentsAsync, OwnIInv, BlobsOwn
<1> QED
  BY <1>2, <1>3

LEMMA NextOwn ==
  ASSUME GitChangebarAssumption, HasPath = Doc, OwnIInv, Next
  PROVE  OwnIInv'
<1>1. TypeIInv'
  BY NextTyped DEF OwnIInv
<1>2. TypeOK /\ BlobsOwn /\ current \in Doc /\ text[current] \in 0..MaxEdits /\ reports \in Seq(Report)
  BY DEF OwnIInv, TypeIInv, TypeOK, Report
<1>3. SUFFICES BlobsOwn'
  BY <1>1 DEF OwnIInv
<1>4. ASSUME UNCHANGED <<cache, tag, reports, undone>>
      PROVE  BlobsOwn'
  BY <1>2, <1>4 DEF BlobsOwn
<1>5. ASSUME ClearCachedBlobContents, UNCHANGED <<reports, undone>>
      PROVE  BlobsOwn'
  BY <1>2, <1>5 DEF BlobsOwn, ClearCachedBlobContents
<1>6. ASSUME NEW callback \in Callback, NEW force \in BOOLEAN, NEW found, NEW pending,
             GetCachedBlobContentsAsync([doc |-> current, force |-> force,
                callback |-> callback, text |-> text[current]], found, pending),
             UNCHANGED <<cache, tag, reports>>
      PROVE  BlobsOwn'
  <2>1. [doc |-> current, force |-> force, callback |-> callback, text |-> text[current]] \in Ask
    BY <1>2 DEF Ask
  <2>2. \A u \in undone' : u.blob.of = u.doc
    BY <1>6, <2>1, GetOwn
  <2> QED
    BY <1>2, <1>6, <2>2 DEF BlobsOwn
<1>7. ASSUME NEW callback \in Callback \ {"update_diff"}, NEW found \in BOOLEAN,
             AskForHunk(callback, found)
      PROVE  BlobsOwn'
  BY <1>6, <1>7 DEF AskForHunk
<1>8. CASE DoUpdateDiffIdle
  <2>1. CASE timer.doc = current
    <3>1. timer.force \in BOOLEAN /\ "update_diff" \in Callback
      BY <1>2, <1>8 DEF TypeOK, DoUpdateDiffIdle, Callback
    <3> QED
      BY <1>6, <1>8, <2>1, <3>1 DEF DoUpdateDiffIdle
  <2>2. CASE timer.doc # current
    BY <1>4, <1>8, <2>2 DEF DoUpdateDiffIdle
  <2> QED
    BY <2>1, <2>2
<1>9. ASSUME NEW found \in BOOLEAN, ReportWorkInIdle(found)
      PROVE  BlobsOwn'
  <2> DEFINE r == Head(reports)
  <2>1. Items(reports) = Items(Tail(reports)) \cup {r}
    BY <1>2, <1>9, ItemsHead DEF ReportWorkInIdle
  <2>2. /\ cache' = r.blob /\ tag' = (IF r.blob = NULL THEN NULL ELSE r.job.doc)
        /\ Deliver(r.job, r.blob, found, timer) /\ reports' = Tail(reports)
    BY <1>9 DEF ReportWorkInIdle
  <2> HIDE DEF r
  <2>3. r.blob # NULL => r.blob.of = r.job.doc
    BY <1>2, <2>1 DEF BlobsOwn
  <2>4. \A u \in undone' : u.blob.of = u.doc
    BY <1>2, <2>2, <2>3, DeliverOwn DEF BlobsOwn
  <2> QED
    BY <1>2, <2>1, <2>2, <2>3, <2>4 DEF BlobsOwn
<1>10. CASE ReadBlob
  <2> DEFINE r == [job |-> worker.job, blob |-> AtHead(worker.job.doc)]
  <2>1. r \in Report
    <3>1. worker.job \in Job
      BY <1>10 DEF ReadBlob, OwnIInv, TypeIInv, WorkerOK
    <3>2. AtHead(worker.job.doc) \in Blob \cup {NULL}
      BY <1>2, AtHeadTyped
    <3> QED
      BY <3>1, <3>2 DEF Report
  <2>2. r.blob # NULL => r.blob.of = r.job.doc
    BY <1>2, AtHeadTyped
  <2>3. reports' = Append(reports, r) /\ UNCHANGED <<cache, tag, undone>>
    BY <1>10 DEF ReadBlob
  <2> HIDE DEF r
  <2>4. Items(reports') = Items(reports) \cup {r}
    BY <1>2, <2>1, <2>3, ItemsAppend
  <2> QED
    BY <1>2, <2>2, <2>3, <2>4 DEF BlobsOwn
<1> QED
  BY <1>4, <1>5, <1>7, <1>8, <1>9, <1>10
    DEF Next, MainLoop, Worker, OnEditorNotify, OnDocumentActivate, Commit, OnGitRepoChanged,
        Pop, OpenRepo, PluginCleanup, Joined

(* If every document has a path, no hunk is ever undone from the blob of     *)
(* another document or of none.  (An untitled one gets the cache as it is.)  *)
THEOREM OwnBlobs == HasPath = Doc /\ Spec => []UndoneFromOwnBlob
<1> SUFFICES ASSUME HasPath = Doc
             PROVE  Spec => []UndoneFromOwnBlob
  OBVIOUS
<1>1. Init => OwnIInv
  <2> SUFFICES ASSUME Init
               PROVE  OwnIInv
    OBVIOUS
  <2>1. BlobsOwn
    BY ItemsEmpty DEF Init, BlobsOwn
  <2> QED
    BY <2>1, GitChangebarAssumption, InitTyped DEF OwnIInv
<1>2. OwnIInv /\ [Next]_vars => OwnIInv'
  <2> SUFFICES ASSUME OwnIInv, [Next]_vars
               PROVE  OwnIInv'
    OBVIOUS
  <2>1. CASE Next
    BY <2>1, GitChangebarAssumption, NextOwn
  <2>2. CASE UNCHANGED vars
    BY <2>2 DEF vars, OwnIInv, BlobsOwn, TypeIInv, TypeOK, WorkerOK
  <2> QED
    BY <2>1, <2>2
<1>3. OwnIInv => UndoneFromOwnBlob
  BY DEF OwnIInv, BlobsOwn, TypeIInv, UndoneFromOwnBlob
<1> QED
  BY <1>1, <1>2, <1>3, PTL DEF Spec

-------------------------------------------------------------------------------
(* Markers in sync.                                                          *)

(* What the main loop does with contents: it updates the markers of the      *)
(* current document, or a hunk is undone and an update is pending again.     *)
LEMMA DeliverEffect ==
  ASSUME TypeOK, NEW job, NEW blob, NEW found, NEW pending,
         pending # NULL => pending.doc = current,
         Deliver(job, blob, found, pending)
  PROVE  /\ timer' # NULL => timer'.doc = current
         /\ \/ current \in HasPath /\ timer' # NULL
            \/ current \notin HasPath
            \/ /\ timer' = pending /\ text' = text
               /\ \/ ~Updates(job) /\ markers'[current] = markers[current]
                  \/ /\ job.doc = current
                     /\ markers'[current] = IF blob = NULL THEN NULL
                                            ELSE [blob |-> blob, text |-> text[current]]
<1>1. markers \in [Doc -> Marked \cup {NULL}] /\ current \in Doc
  BY DEF TypeOK, Marked
<1>2. CASE job.callback = "update_diff"
  <2>1. UpdateDiff(job.doc, blob) /\ timer' = pending /\ text' = text
    BY <1>2 DEF Deliver
  <2>2. CASE job.doc # current
    BY <2>1, <2>2 DEF UpdateDiff, Updates
  <2>3. CASE job.doc = current
    BY <1>1, <2>1, <2>3 DEF UpdateDiff
  <2> QED
    BY <2>1, <2>2, <2>3
<1>3. CASE job.callback = "undo_hunk"
  <2>1. UndoHunk(job.doc, blob, job.text, found, pending) /\ UNCHANGED markers /\ ~Updates(job)
    BY <1>3 DEF Deliver, Updates
  <2>2. CASE job.doc = current /\ timer' = UpdateDiffPush(job.doc, FALSE)
    <3>1. (timer' # NULL => timer'.doc = current) /\ (current \in HasPath => timer' # NULL)
      BY <2>2, PushTyped
    <3> QED
      BY <3>1
  <2>3. CASE timer' = pending /\ text' = text
    BY <2>1, <2>3
  <2> QED
    BY <2>1, <2>2, <2>3 DEF UndoHunk
<1>4. CASE job.callback = "goto_next_hunk"
  BY <1>4 DEF Deliver, Updates
<1> QED
  BY <1>2, <1>3, <1>4 DEF Deliver

(* A request is answered from the cache at once, or becomes a job.           *)
LEMMA GetEffect ==
  ASSUME TypeIInv, NEW job \in Ask, NEW found, NEW pending,
         GetCachedBlobContentsAsync(job, found, pending)
  PROVE  \/ /\ Deliver(job, IF cache = NULL THEN EmptyBuf ELSE cache, found, pending)
            /\ UNCHANGED <<queue, worker>>
            /\ job.doc \in HasPath => cache # NULL /\ tag = job.doc
         \/ /\ job \in Job /\ job # NULL
            /\ timer' = pending /\ UNCHANGED <<text, markers>>
            /\ queue' # <<>> /\ Items(queue') = Items(queue) \cup {job}
            /\ worker'.job = worker.job
            /\ worker'.pc = IF worker.pc = "none" THEN "pop" ELSE worker.pc
<1>1. CASE (~job.force /\ Cached(job.doc)) \/ job.doc \notin HasPath
  BY <1>1 DEF GetCachedBlobContentsAsync, Cached
<1>2. CASE ~((~job.force /\ Cached(job.doc)) \/ job.doc \notin HasPath)
  <2>1. /\ queue' = Append(queue, job)
        /\ worker' = IF worker.pc = "none" THEN [worker EXCEPT !.pc = "pop"] ELSE worker
        /\ timer' = pending /\ UNCHANGED <<text, markers>>
    BY <1>2 DEF GetCachedBlobContentsAsync
  <2>2. job \in Job /\ job # NULL
    BY <1>2, NullAssumption DEF Ask, Job
  <2>3. queue \in Seq(Job \cup {QuitThreadJob}) /\ job \in Job \cup {QuitThreadJob}
    BY <2>2 DEF TypeIInv, TypeOK
  <2>4. queue' # <<>> /\ Items(queue') = Items(queue) \cup {job}
    BY <2>1, <2>3, ItemsAppend
  <2>5. worker'.job = worker.job /\ worker'.pc = IF worker.pc = "none" THEN "pop" ELSE worker.pc
    BY <2>1 DEF TypeIInv, WorkerOK
  <2> QED
    BY <2>1, <2>2, <2>4, <2>5
<1> QED
  BY <1>1, <1>2

(* Nothing is queued, worked on or reported.                                 *)
LEMMA NoneWaiting ==
  ASSUME TypeIInv, Waiting = 0
  PROVE  queue = <<>> /\ reports = <<>> /\ worker.job = NULL
<1>1. queue \in Seq(Job \cup {QuitThreadJob}) /\ reports \in Seq(Report)
  BY DEF TypeIInv, TypeOK, Report
<1>2. Len(queue) \in Nat /\ Len(reports) \in Nat
  BY <1>1
<1>3. Len(queue) = 0 /\ Len(reports) = 0 /\ worker.job = NULL
  BY <1>2 DEF Waiting
<1> QED
  BY <1>1, <1>3

LEMMA AtHeadKept == ASSUME UNCHANGED head, NEW d  PROVE AtHead(d)' = AtHead(d)
BY DEF AtHead

LEMMA StartedNext ==
  ASSUME GitChangebarAssumption, InRepo = HasPath, TypeIInv, Started, Next
  PROVE  Started'
<1>1. /\ queue \in Seq(Job \cup {QuitThreadJob}) /\ reports \in Seq(Report)
      /\ current \in Doc /\ text[current] \in 0..MaxEdits
      /\ worker.pc \in {"none", "pop", "open", "read", "exited"}
  BY DEF TypeIInv, TypeOK, Report
<1>2. ASSUME UNCHANGED <<worker, queue, reports, monitors, phase>>, cache' \in {cache, NULL}
      PROVE  Started'
  BY <1>2 DEF Started
<1>3. ASSUME NEW callback \in Callback, NEW force \in BOOLEAN, NEW found, NEW pending,
             GetCachedBlobContentsAsync([doc |-> current, force |-> force,
                callback |-> callback, text |-> text[current]], found, pending),
             UNCHANGED <<cache, monitors, reports, phase>>, phase = "loaded"
      PROVE  Started'
  <2> DEFINE job == [doc |-> current, force |-> force, callback |-> callback, text |-> text[current]]
  <2>1. job \in Ask
    BY <1>1 DEF Ask
  <2> HIDE DEF job
  <2>2. CASE UNCHANGED <<queue, worker>>
    BY <1>2, <1>3, <2>2
  <2>3. CASE /\ job # NULL /\ queue' # <<>> /\ Items(queue') = Items(queue) \cup {job}
             /\ worker'.pc = IF worker.pc = "none" THEN "pop" ELSE worker.pc
    BY <1>1, <1>3, <2>3 DEF Started, QuitThreadJob
  <2>4. GetCachedBlobContentsAsync(job, found, pending)
    BY <1>3 DEF job
  <2> QED
    BY <2>1, <2>2, <2>3, <2>4, GetEffect
<1>4. ASSUME NEW callback \in Callback \ {"update_diff"}, NEW found \in BOOLEAN,
             AskForHunk(callback, found)
      PROVE  Started'
  BY <1>3, <1>4 DEF AskForHunk
<1>5. CASE DoUpdateDiffIdle
  <2>1. CASE timer.doc = current
    <3>1. timer.force \in BOOLEAN /\ "update_diff" \in Callback
      BY <1>5 DEF TypeIInv, TypeOK, DoUpdateDiffIdle, Callback
    <3> QED
      BY <1>3, <1>5, <2>1, <3>1 DEF DoUpdateDiffIdle
  <2>2. CASE timer.doc # current
    BY <1>2, <1>5, <2>2 DEF DoUpdateDiffIdle
  <2> QED
    BY <2>1, <2>2
<1>6. ASSUME NEW found \in BOOLEAN, ReportWorkInIdle(found)
      PROVE  Started'
  BY <1>6 DEF ReportWorkInIdle, Started
<1>7. CASE Pop
  <2>1. Items(queue) = Items(Tail(queue)) \cup {Head(queue)}
    BY <1>1, <1>7, ItemsHead DEF Pop
  <2>2. /\ worker'.pc = IF Head(queue) = QuitThreadJob THEN "exited" ELSE "open"
        /\ worker.pc = "pop" /\ queue' = Tail(queue) /\ UNCHANGED <<cache, phase>>
    BY <1>7 DEF Pop
  <2> QED
    BY <2>1, <2>2 DEF Started
<1>8. CASE OpenRepo
  <2>1. worker.job \in Job
    BY <1>8 DEF OpenRepo, TypeIInv, WorkerOK
  <2>2. monitors' = TRUE
    BY <1>8, <2>1 DEF OpenRepo, Job
  <2>3. worker.pc = "open" /\ worker'.pc = "read" /\ UNCHANGED <<cache, queue, reports, phase>>
    BY <1>8 DEF OpenRepo, TypeIInv, WorkerOK
  <2> QED
    BY <2>2, <2>3 DEF Started
<1>9. CASE ReadBlob
  BY <1>9 DEF ReadBlob, Started
<1>10. CASE PluginCleanup
  <2>1. queue' = queue \/ queue' # <<>>
    <3>1. Append(queue, QuitThreadJob) # <<>>
      BY <1>1, ItemsAppend
    <3> QED
      BY <1>10, <3>1 DEF PluginCleanup
  <2>2. phase' # "loaded" /\ cache' = NULL /\ UNCHANGED <<worker, monitors, reports>>
        /\ (worker.pc = "none" => queue' = queue)
    BY <1>10 DEF PluginCleanup, ClearCachedBlobContents
  <2> QED
    BY <2>1, <2>2 DEF Started
<1>11. CASE Joined
  BY <1>11 DEF Joined, Started
<1> QED
  BY <1>2, <1>4, <1>5, <1>6, <1>7, <1>8, <1>9, <1>10, <1>11
    DEF Next, MainLoop, Worker, OnEditorNotify, OnDocumentActivate, Commit, OnGitRepoChanged,
        ClearCachedBlobContents

LEMMA AtHeadNext ==
  ASSUME GitChangebarAssumption, ~CommitAnytime, TypeIInv, Started, BlobsAtHead, Next
  PROVE  BlobsAtHead'
<1>1. /\ reports \in Seq(Report) /\ worker.pc \in {"none", "pop", "open", "read", "exited"}
  BY DEF TypeIInv, TypeOK, Report
<1>2. ASSUME UNCHANGED <<head, reports>>, cache' = NULL \/ UNCHANGED <<cache, tag, changed>>
      PROVE  BlobsAtHead'
  BY <1>2, AtHeadKept DEF BlobsAtHead
<1>3. ASSUME NEW d \in InRepo, Commit(d)
      PROVE  BlobsAtHead'
  <2>1. queue = <<>> /\ reports = <<>> /\ worker.job = NULL
    BY <1>3, NoneWaiting DEF Commit
  <2>2. Items(reports') = {}
    BY <1>3, <2>1, ItemsEmpty DEF Commit
  <2>3. worker.pc \notin {"open", "read"}
    BY <2>1 DEF TypeIInv, WorkerOK
  <2>4. cache # NULL => monitors
    BY <1>1, <2>1, <2>3 DEF Started
  <2> QED
    BY <1>3, <2>2, <2>4 DEF Commit, BlobsAtHead
<1>4. ASSUME NEW found \in BOOLEAN, ReportWorkInIdle(found)
      PROVE  BlobsAtHead'
  <2> DEFINE r == Head(reports)
  <2>1. Items(reports) = Items(Tail(reports)) \cup {r}
    BY <1>1, <1>4, ItemsHead DEF ReportWorkInIdle
  <2>2. /\ cache' = r.blob /\ tag' = (IF r.blob = NULL THEN NULL ELSE r.job.doc)
        /\ reports' = Tail(reports) /\ UNCHANGED head
    BY <1>4 DEF ReportWorkInIdle
  <2> HIDE DEF r
  <2>3. r.blob = AtHead(r.job.doc)
    BY <2>1 DEF BlobsAtHead
  <2> QED
    BY <2>1, <2>2, <2>3, AtHeadKept DEF BlobsAtHead
<1>5. CASE Pop
  <2>1. ~changed /\ UNCHANGED <<cache, tag, head, reports>>
    BY <1>5 DEF Pop
  <2> QED
    BY <2>1, AtHeadKept DEF BlobsAtHead
<1>6. CASE ReadBlob
  <2> DEFINE r == [job |-> worker.job, blob |-> AtHead(worker.job.doc)]
  <2>1. r \in Report
    <3>1. worker.job \in Job
      BY <1>6 DEF ReadBlob, TypeIInv, WorkerOK
    <3>2. AtHead(worker.job.doc) \in Blob \cup {NULL}
      BY AtHeadTyped DEF TypeIInv
    <3> QED
      BY <3>1, <3>2 DEF Report
  <2>2. r.blob = AtHead(r.job.doc)
    OBVIOUS
  <2>3. reports' = Append(reports, r) /\ UNCHANGED <<cache, tag, head, changed>>
    BY <1>6 DEF ReadBlob
  <2> HIDE DEF r
  <2>4. Items(reports') = Items(reports) \cup {r}
    BY <1>1, <2>1, <2>3, ItemsAppend
  <2> QED
    BY <2>2, <2>3, <2>4, AtHeadKept DEF BlobsAtHead
<1> QED
  BY <1>2, <1>3, <1>4, <1>5, <1>6
    DEF Next, MainLoop, Worker, OnEditorNotify, OnDocumentActivate, AskForHunk, DoUpdateDiffIdle,
        OnGitRepoChanged, OpenRepo, PluginCleanup, Joined, ClearCachedBlobContents

(* An update that is under way stays so, or was delivered to the markers.    *)
LEMMA DueKept ==
  ASSUME UpdateDue, phase = "loaded", UNCHANGED <<current, head, timer>>,
         worker'.pc = "none" => worker.pc = "none",
         changed => changed',
         UnderWay => UnderWay' \/ Synced',
         text' = text, markers'[current] = markers[current] \/ Synced'
  PROVE  UpdateDue'
<1>1. Synced => Synced'
  BY AtHeadKept DEF Synced
<1> QED
  BY <1>1 DEF UpdateDue

LEMMA DuePushed ==
  ASSUME NEW force \in BOOLEAN, timer' = UpdateDiffPush(current', force)
  PROVE  UpdateDue'
<1>1. /\ timer' # NULL => timer'.doc = current'
      /\ current' \in HasPath => timer' # NULL
  BY PushTyped
<1> QED
  BY <1>1 DEF UpdateDue

LEMMA DueAsked ==
  ASSUME SyncIInv, phase = "loaded", UNCHANGED <<current, head, changed, reports>>,
         NEW callback \in Callback, NEW force \in BOOLEAN, NEW found,
         NEW pending, pending = timer \/ (callback = "update_diff" /\ current \in HasPath /\ pending = NULL),
         GetCachedBlobContentsAsync([doc |-> current, force |-> force,
                callback |-> callback, text |-> text[current]], found, pending)
  PROVE  UpdateDue'
<1> DEFINE job == [doc |-> current, force |-> force, callback |-> callback, text |-> text[current]]
<1>1. /\ TypeOK /\ TypeIInv /\ Started /\ BlobsAtHead /\ UpdateDue
      /\ current \in Doc /\ text[current] \in 0..MaxEdits
  BY DEF SyncIInv, TypeIInv, TypeOK
<1>2. job \in Ask /\ job.doc = current /\ job.callback = callback
  BY <1>1 DEF Ask
<1>3. GetCachedBlobContentsAsync(job, found, pending)
  OBVIOUS
<1>4. pending # NULL => pending.doc = current
  BY <1>1 DEF UpdateDue
<1> HIDE DEF job
<1> DEFINE blob == IF cache = NULL THEN EmptyBuf ELSE cache
<1>5. CASE /\ Deliver(job, blob, found, pending) /\ UNCHANGED <<queue, worker>>
           /\ job.doc \in HasPath => cache # NULL /\ tag = job.doc
  <2>1. /\ timer' # NULL => timer'.doc = current
        /\ \/ current \in HasPath /\ timer' # NULL
           \/ current \notin HasPath
           \/ /\ timer' = pending /\ text' = text
              /\ \/ ~Updates(job) /\ markers'[current] = markers[current]
                 \/ /\ job.doc = current
                    /\ markers'[current] = IF blob = NULL THEN NULL
                                           ELSE [blob |-> blob, text |-> text[current]]
    <3> HIDE DEF blob
    <3>1. Deliver(job, blob, found, pending)
      BY <1>5 DEF blob
    <3> QED
      BY <1>1, <1>4, <3>1, DeliverEffect
  <2>2. CASE current \in HasPath /\ timer' # NULL
    BY <2>1, <2>2 DEF UpdateDue
  <2>3. CASE current \notin HasPath
    BY <2>1, <2>3 DEF UpdateDue
  <2>4. CASE /\ current \in HasPath /\ timer' = pending /\ text' = text
             /\ ~Updates(job) /\ markers'[current] = markers[current]
    <3>1. timer' = timer
      <4>1. job \in Job
        BY <1>2, <2>4 DEF Ask, Job
      <4>2. callback # "update_diff"
        BY <1>2, <2>4, <4>1, NullAssumption DEF Updates
      <4> QED
        BY <2>4, <4>2
    <3>2. UnderWay => UnderWay'
      BY <1>5 DEF UnderWay, Updates
    <3> QED
      BY <1>1, <1>5, <2>4, <3>1, <3>2, DueKept
  <2>5. CASE /\ current \in HasPath /\ timer' = pending /\ text' = text
             /\ markers'[current] = IF blob = NULL THEN NULL
                                    ELSE [blob |-> blob, text |-> text[current]]
    <3>1. cache # NULL /\ tag = current /\ worker.pc # "none"
      BY <1>1, <1>2, <1>5, <2>5 DEF Started
    <3>2. ~changed => Synced'
      BY <1>1, <2>5, <3>1, AtHeadKept DEF BlobsAtHead, Synced
    <3> QED
      BY <1>5, <2>1, <3>1, <3>2 DEF UpdateDue
  <2> QED
    BY <2>1, <2>2, <2>3, <2>4, <2>5
<1>6. CASE /\ job # NULL
           /\ timer' = pending /\ UNCHANGED <<text, markers>>
           /\ Items(queue') = Items(queue) \cup {job}
           /\ worker'.job = worker.job
           /\ worker'.pc = IF worker.pc = "none" THEN "pop" ELSE worker.pc
  <2>1. CASE timer' = timer
    <3>1. UnderWay => UnderWay'
      BY <1>6 DEF UnderWay, Updates
    <3> QED
      BY <1>1, <1>6, <2>1, <3>1, DueKept
  <2>2. CASE callback = "update_diff" /\ timer' = NULL
    <3>1. job # NULL /\ job.doc = current' /\ job.callback = "update_diff" /\ job \in Items(queue')
      BY <1>2, <1>6, <2>2
    <3>2. UnderWay'
      BY <3>1 DEF UnderWay, Updates
    <3> QED
      BY <1>1, <1>6, <2>2, <3>2 DEF UpdateDue, TypeOK
  <2> QED
    BY <1>6, <2>1, <2>2
<1> QED
  BY <1>1, <1>2, <1>3, <1>5, <1>6, GetEffect

LEMMA DueReported ==
  ASSUME SyncIInv, NEW found, ReportWorkInIdle(found)
  PROVE  UpdateDue'
<1> DEFINE r == Head(reports)
<1>1. /\ TypeOK /\ TypeIInv /\ Started /\ BlobsAtHead /\ UpdateDue /\ reports \in Seq(Report)
      /\ phase = "loaded"
  BY DEF SyncIInv, TypeIInv, TypeOK, Report, ReportWorkInIdle
<1>2. Items(reports) = Items(Tail(reports)) \cup {r}
  BY <1>1, ItemsHead DEF ReportWorkInIdle
<1>3. /\ Deliver(r.job, r.blob, found, timer) /\ reports' = Tail(reports)
      /\ UNCHANGED <<current, head, queue, worker, changed>>
  BY DEF ReportWorkInIdle
<1> HIDE DEF r
<1>4. /\ timer' # NULL => timer'.doc = current
      /\ \/ current \in HasPath /\ timer' # NULL
         \/ current \notin HasPath
         \/ /\ timer' = timer /\ text' = text
            /\ \/ ~Updates(r.job) /\ markers'[current] = markers[current]
               \/ /\ r.job.doc = current
                  /\ markers'[current] = IF r.blob = NULL THEN NULL
                                         ELSE [blob |-> r.blob, text |-> text[current]]
  BY <1>1, <1>3, DeliverEffect DEF UpdateDue
<1>5. CASE current \in HasPath /\ timer' # NULL
  BY <1>3, <1>4, <1>5 DEF UpdateDue
<1>6. CASE current \notin HasPath
  BY <1>3, <1>4, <1>6 DEF UpdateDue
<1>7. CASE timer' = timer /\ text' = text /\ ~Updates(r.job) /\ markers'[current] = markers[current]
  <2>1. UnderWay => UnderWay'
    BY <1>2, <1>3, <1>7 DEF UnderWay, Updates
  <2> QED
    BY <1>1, <1>3, <1>7, <2>1, DueKept
<1>8. CASE /\ timer' = timer /\ text' = text /\ r.job.doc = current
           /\ markers'[current] = IF r.blob = NULL THEN NULL
                                  ELSE [blob |-> r.blob, text |-> text[current]]
  <2>1. r.blob = AtHead(current)
    BY <1>1, <1>2, <1>8 DEF BlobsAtHead
  <2>2. Synced'
    BY <1>3, <1>8, <2>1, AtHeadKept DEF Synced
  <2> QED
    BY <1>1, <1>3, <1>8, <2>2, DueKept
<1> QED
  BY <1>4, <1>5, <1>6, <1>7, <1>8

(* The worker takes a job, and posts its report.                             *)
LEMMA DueWorked ==
  ASSUME ~CommitAnytime, SyncIInv, Worker
  PROVE  UpdateDue'
<1>1. /\ TypeOK /\ TypeIInv /\ UpdateDue /\ reports \in Seq(Report)
      /\ queue \in Seq(Job \cup {QuitThreadJob})
  BY DEF SyncIInv, TypeIInv, TypeOK, Report
<1>2. UNCHANGED <<current, head, timer, text, markers, phase>>
  BY DEF Worker, Pop, OpenRepo, ReadBlob
<1>3. CASE Pop
  <2>1. Items(queue) = Items(Tail(queue)) \cup {Head(queue)}
    BY <1>1, <1>3, ItemsHead DEF Pop
  <2>2. queue' = Tail(queue) /\ ~changed /\ worker.pc = "pop" /\ worker'.pc \in {"exited", "open"}
        /\ reports' = reports
    BY <1>3 DEF Pop
  <2>3. worker.job = NULL /\ worker'.job = Head(queue)
    BY <1>1, <1>3 DEF Pop, TypeIInv, WorkerOK, QuitThreadJob
  <2>4. UnderWay => UnderWay'
    BY <1>2, <2>1, <2>2, <2>3 DEF UnderWay, Updates
  <2> QED
    BY <1>1, <1>2, <2>2, <2>4, DueKept DEF UpdateDue
<1>4. CASE OpenRepo
  <2>1. worker'.pc = "read" /\ worker'.job = worker.job /\ UNCHANGED <<queue, reports, changed>>
    BY <1>1, <1>4 DEF OpenRepo, TypeIInv, WorkerOK
  <2>2. UnderWay => UnderWay'
    BY <1>2, <2>1 DEF UnderWay, Updates
  <2> QED
    BY <1>1, <1>2, <2>1, <2>2, DueKept DEF UpdateDue
<1>5. CASE ReadBlob
  <2> DEFINE r == [job |-> worker.job, blob |-> AtHead(worker.job.doc)]
  <2>1. r \in Report
    <3>1. worker.job \in Job
      BY <1>1, <1>5 DEF ReadBlob, TypeIInv, WorkerOK
    <3>2. AtHead(worker.job.doc) \in Blob \cup {NULL}
      BY <1>1, AtHeadTyped, GitChangebarAssumption
    <3> QED
      BY <3>1, <3>2 DEF Report
  <2>2. r.job = worker.job
    OBVIOUS
  <2>3. reports' = Append(reports, r) /\ UNCHANGED <<queue, changed>> /\ worker'.pc = "pop"
    BY <1>5 DEF ReadBlob
  <2> HIDE DEF r
  <2>4. Items(reports') = Items(reports) \cup {r}
    BY <1>1, <2>1, <2>3, ItemsAppend
  <2>5. UnderWay => UnderWay'
    BY <1>2, <2>2, <2>3, <2>4 DEF UnderWay, Updates
  <2> QED
    BY <1>1, <1>2, <2>3, <2>5, DueKept DEF UpdateDue
<1> QED
  BY <1>3, <1>4, <1>5 DEF Worker

LEMMA DueNext ==
  ASSUME GitChangebarAssumption, ~Background, ~CommitAnytime, SyncIInv, Next
  PROVE  UpdateDue'
<1>1. /\ TypeOK /\ TypeIInv /\ Started /\ UpdateDue /\ current \in Doc
  BY DEF SyncIInv, TypeIInv, TypeOK
<1>2. ASSUME NEW d \in Doc, OnEditorNotify(d)
      PROVE  UpdateDue'
  BY <1>2, DuePushed DEF OnEditorNotify
<1>3. ASSUME NEW d \in Doc, NEW shown \in BOOLEAN, OnDocumentActivate(d, shown)
      PROVE  UpdateDue'
  BY <1>3, DuePushed DEF OnDocumentActivate
<1>4. ASSUME NEW d \in InRepo, Commit(d)
      PROVE  UpdateDue'
  <2>1. queue = <<>> /\ reports = <<>> /\ worker.job = NULL
    BY <1>1, <1>4, NoneWaiting DEF Commit
  <2>2. phase = "loaded" => worker.pc = "none" \/ monitors
    BY <1>1, <2>1 DEF TypeIInv, WorkerOK, Started
  <2>3. /\ changed' = (changed \/ monitors)
        /\ UNCHANGED <<current, timer, worker, phase>>
    BY <1>4 DEF Commit
  <2> QED
    BY <1>1, <2>2, <2>3 DEF UpdateDue
<1>5. ASSUME NEW callback \in Callback \ {"update_diff"}, NEW found \in BOOLEAN,
             AskForHunk(callback, found)
      PROVE  UpdateDue'
  BY <1>5, DueAsked DEF AskForHunk
<1>6. CASE DoUpdateDiffIdle
  <2>1. timer \in Update /\ timer.doc = current /\ "update_diff" \in Callback /\ phase = "loaded"
    BY <1>1, <1>6 DEF DoUpdateDiffIdle, TypeOK, Update, UpdateDue, Callback
  <2>2. timer.force \in BOOLEAN /\ current \in HasPath
    BY <2>1 DEF Update
  <2>3. /\ UNCHANGED <<current, head, changed, reports>>
        /\ GetCachedBlobContentsAsync([doc |-> current, force |-> timer.force,
               callback |-> "update_diff", text |-> text[current]], FALSE, NULL)
    BY <1>6, <2>1 DEF DoUpdateDiffIdle
  <2> QED
    BY <2>1, <2>2, <2>3, DueAsked
<1>7. ASSUME NEW force \in BOOLEAN, OnGitRepoChanged(force)
      PROVE  UpdateDue'
  BY <1>7, DuePushed DEF OnGitRepoChanged
<1>8. ASSUME NEW found \in BOOLEAN, ReportWorkInIdle(found)
      PROVE  UpdateDue'
  BY <1>8, DueReported
<1>9. CASE Worker
  BY <1>9, DueWorked
<1>10. CASE PluginCleanup \/ Joined
  <2>1. phase' # "loaded"
    BY <1>10 DEF PluginCleanup, Joined
  <2> QED
    BY <2>1 DEF UpdateDue
<1> QED
  BY <1>2, <1>3, <1>4, <1>5, <1>6, <1>7, <1>8, <1>9, <1>10 DEF Next, MainLoop

(* While documents are edited and saved only while they are shown, and HEAD  *)
(* changes only between two jobs, every document with a path being in the    *)
(* repository: whenever nothing is under way, the markers of the current     *)
(* document compare its text with its blob at HEAD.                          *)
THEOREM MarkersFollow ==
  ~Background /\ ~CommitAnytime /\ InRepo = HasPath /\ Spec => []MarkersInSync
<1> SUFFICES ASSUME ~Background, ~CommitAnytime, InRepo = HasPath
             PROVE  Spec => []MarkersInSync
  OBVIOUS
<1>1. Init => SyncIInv
  <2> SUFFICES ASSUME Init
               PROVE  SyncIInv
    OBVIOUS
  <2>1. Started /\ BlobsAtHead
    BY ItemsEmpty DEF Init, Started, BlobsAtHead
  <2>2. UpdateDue
    <3>1. /\ timer # NULL => timer.doc = current
          /\ current \in HasPath => timer # NULL
      BY PushTyped DEF Init
    <3> QED
      BY <3>1 DEF UpdateDue
  <2> QED
    BY <2>1, <2>2, GitChangebarAssumption, InitTyped DEF SyncIInv
<1>2. SyncIInv /\ [Next]_vars => SyncIInv'
  <2> SUFFICES ASSUME SyncIInv, [Next]_vars
               PROVE  SyncIInv'
    OBVIOUS
  <2>1. CASE Next
    BY <2>1, GitChangebarAssumption, NextTyped, StartedNext, AtHeadNext, DueNext DEF SyncIInv
  <2>2. CASE UNCHANGED vars
    <3>1. TypeIInv' /\ Started'
      BY <2>2 DEF vars, SyncIInv, TypeIInv, TypeOK, WorkerOK, Started
    <3>2. BlobsAtHead'
      BY <2>2, AtHeadKept DEF vars, SyncIInv, BlobsAtHead
    <3>3. UpdateDue'
      BY <2>2, AtHeadKept DEF vars, SyncIInv, UpdateDue, UnderWay, Updates, Synced
    <3> QED
      BY <3>1, <3>2, <3>3 DEF SyncIInv
  <2> QED
    BY <2>1, <2>2
<1>3. SyncIInv => MarkersInSync
  <2> SUFFICES ASSUME SyncIInv, phase = "loaded", Quiet, current \in HasPath
               PROVE  Synced
    BY DEF MarkersInSync, Synced
  <2>1. queue = <<>> /\ reports = <<>> /\ worker.job = NULL
    BY NoneWaiting DEF Quiet, SyncIInv
  <2>2. ~UnderWay
    BY <2>1, ItemsEmpty DEF UnderWay, Updates
  <2> QED
    BY <2>2 DEF SyncIInv, UpdateDue, Quiet
<1> QED
  BY <1>1, <1>2, <1>3, PTL DEF Spec
===============================================================================
