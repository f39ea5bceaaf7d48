----------------------------- MODULE LspSyncProofs -----------------------------
(***************************************************************************)
(* Theorems about LspSync, for any documents, paths, filetypes, texts and  *)
(* any MRU_SIZE: which documents are open at which server, that the server *)
(* has their text, and that it is told nothing it cannot make sense of.    *)
(***************************************************************************)
EXTENDS LspSync, FiniteSetTheorems, SequenceTheorems, WellFoundedInduction, TLAPS

Folder == {Root[p] : p \in Path} \ {NULL}

Copy == UNION {[S -> Text] : S \in SUBSET Path}

Document == [valid: BOOLEAN, path: Path \cup {NULL}, ft: Filetype,
             cachedFt: Filetype \cup {NULL}, text: Text, changed: BOOLEAN]

Server == [state: {"idle", "starting", "ready", "dead"}, open: SUBSET Doc,
           mru: BoundedSeq(Doc, MRUSize), folders: SUBSET Folder, copy: Copy]

State == [doc: [Doc -> Document], loaded: BOOLEAN, srv: [Filetype -> Server],
          misuse: SUBSET ({"didOpen", "didChange", "didClose", "didSave"} \X Filetype)]

(* No two documents are the same file.                                       *)
PathsApart(P) ==
  \A d, e \in Doc : /\ P.doc[d].valid /\ P.doc[e].valid
                    /\ P.doc[d].path = P.doc[e].path /\ P.doc[d].path # NULL
                    => d = e

(* A document is open at one server at most, which runs and knows its folder. *)
OpenSound(P) ==
  \A f \in Filetype : \A d \in P.srv[f].open :
    /\ P.doc[d].valid /\ P.doc[d].path # NULL
    /\ f \in HasCmd /\ P.srv[f].state = "ready"
    /\ RootOf(P, d) \in P.srv[f].folders \cup {NULL}
    /\ \A g \in Filetype \ {f} : d \notin P.srv[g].open

(* It is the server remembered for the document, ...                         *)
OpenCached(P, d) == \A f \in Filetype : d \in P.srv[f].open => P.doc[d].cachedFt = f

(* No two paths are matched by the patterns of the same filetype.            *)
MappedAlone == \A p, q \in Path : Mapping[p] = Mapping[q] /\ Mapping[p] # NULL => p = q

(* ... which is that of its filetype or of its path, ...                     *)
Fits(x) ==
  /\ x.cachedFt \in {NULL, x.ft, MappingOf(x)}
  /\ MappedAlone => x.cachedFt \in {NULL, LspServerGetFtImpl(x)}

CacheFits(P, d) == Fits(P.doc[d])

MruIsOpen(P) ==
  \A f \in Filetype : IsInjective(P.srv[f].mru) /\ Range(P.srv[f].mru) = P.srv[f].open

(* A server has the texts of the documents open there, and no others.        *)
CopiesFit(P) ==
  \A f \in Filetype :
    /\ DOMAIN P.srv[f].copy = {P.doc[d].path : d \in P.srv[f].open}
    /\ \A d \in P.srv[f].open : P.srv[f].copy[P.doc[d].path] = P.doc[d].text

(* The plugin's state between two calls, but for documents D whose cached    *)
(* filetype is about to be set right.                                        *)
Sound(P, D) ==
  /\ P \in State
  /\ P.misuse = {}
  /\ PathsApart(P)
  /\ OpenSound(P)
  /\ \A d \in Doc \ D : OpenCached(P, d) /\ (P.doc[d].valid => CacheFits(P, d))
  /\ MruIsOpen(P)
  /\ CopiesFit(P)

CurrentValid == current # NULL => current \in Doc /\ doc[current].valid

SyncIInv == Sound(Plugin, {}) /\ CurrentValid

-------------------------------------------------------------------------------
(* Sequences                                                                 *)

LEMMA Bounded ==
  ASSUME NEW S, NEW n \in Nat, NEW s
  PROVE  s \in BoundedSeq(S, n) <=> s \in Seq(S) /\ Len(s) <= n
<1>1. ASSUME s \in BoundedSeq(S, n)
      PROVE  s \in Seq(S) /\ Len(s) <= n
  BY <1>1 DEF BoundedSeq, SeqOf
<1>2. ASSUME s \in Seq(S), Len(s) <= n
      PROVE  s \in BoundedSeq(S, n)
  <2>1. Len(s) \in 0..n /\ s \in [1..Len(s) -> S]
    BY <1>2
  <2> QED
    BY <2>1 DEF BoundedSeq, SeqOf
<1> QED
  BY <1>1, <1>2

(* Of a sequence without repetitions, RemoveFirst removes all there is.      *)
LEMMA RemovedOnce ==
  ASSUME NEW S, NEW s \in Seq(S), IsInjective(s), NEW e
  PROVE  LET t == RemoveFirst(s, e) IN
         /\ t \in Seq(S) /\ IsInjective(t)
         /\ Range(t) = Range(s) \ {e}
         /\ Len(t) = IF e \in Range(s) THEN Len(s) - 1 ELSE Len(s)
<1> DEFINE t == RemoveFirst(s, e)
<1>1. CASE e \notin Range(s)
  <2>1. ~ \E j \in 1..Len(s) : s[j] = e
    BY <1>1 DEF Range
  <2>2. t = s
    BY <2>1 DEF RemoveFirst
  <2> QED
    BY <1>1, <2>2
<1>2. CASE e \in Range(s)
  <2>1. PICK k \in 1..Len(s) : s[k] = e
    BY <1>2 DEF Range
  <2>2. \A j \in 1..Len(s) : s[j] = e => j = k
    BY <2>1 DEF IsInjective
  <2>3. {j \in 1..Len(s) : s[j] = e} = {k}
    BY <2>1, <2>2
  <2>4. Min({k}) = k
    BY DEF Min
  <2>5. t = RemoveAt(s, k)
    BY <2>1, <2>3, <2>4 DEF RemoveFirst, SelectInSeq
  <2>6. t = SubSeq(s, 1, k - 1) \o SubSeq(s, k + 1, Len(s))
    BY <2>5 DEF RemoveAt
  <2>7. k \in Nat /\ Len(s) \in Nat /\ 1 <= k /\ k <= Len(s)
    BY <2>1
  <2>8. /\ SubSeq(s, 1, k - 1) \in Seq(S) /\ Len(SubSeq(s, 1, k - 1)) = k - 1
        /\ \A j \in 1..(k - 1) : SubSeq(s, 1, k - 1)[j] = s[j]
    BY <2>7
  <2>9. /\ SubSeq(s, k + 1, Len(s)) \in Seq(S) /\ Len(SubSeq(s, k + 1, Len(s))) = Len(s) - k
        /\ \A j \in 1..(Len(s) - k) : SubSeq(s, k + 1, Len(s))[j] = s[j + k]
    BY <2>7
  <2> HIDE DEF t
  <2>10. /\ t \in Seq(S) /\ Len(t) = Len(s) - 1
         /\ \A j \in 1..(Len(s) - 1) : t[j] = IF j < k THEN s[j] ELSE s[j + 1]
    <3> DEFINE u == SubSeq(s, 1, k - 1)
               w == SubSeq(s, k + 1, Len(s))
    <3>1. /\ u \in Seq(S) /\ Len(u) = k - 1 /\ \A j \in 1..(k - 1) : u[j] = s[j]
          /\ w \in Seq(S) /\ Len(w) = Len(s) - k /\ \A j \in 1..(Len(s) - k) : w[j] = s[j + k]
          /\ t = u \o w
      BY <2>6, <2>8, <2>9
    <3> HIDE DEF u, w
    <3>2. /\ t \in Seq(S) /\ Len(t) = Len(s) - 1
          /\ \A j \in 1..(Len(s) - 1) : t[j] = IF j <= k - 1 THEN u[j] ELSE w[j - (k - 1)]
      <4>1. (k - 1) + (Len(s) - k) = Len(s) - 1
        BY <2>7
      <4>2. /\ u \o w \in Seq(S) /\ Len(u \o w) = Len(u) + Len(w)
            /\ \A j \in 1..(Len(u) + Len(w)) :
                 (u \o w)[j] = IF j <= Len(u) THEN u[j] ELSE w[j - Len(u)]
        <5>1. u \in Seq(S) /\ w \in Seq(S)
          BY <3>1
        <5> QED
          BY <5>1, ConcatProperties
      <4>3. Len(u) = k - 1 /\ Len(u) + Len(w) = Len(s) - 1 /\ t = u \o w
        BY <3>1, <4>1
      <4> QED
        BY <4>2, <4>3
    <3>3. ASSUME NEW j \in 1..(Len(s) - 1)
          PROVE  t[j] = IF j < k THEN s[j] ELSE s[j + 1]
      <4>1. CASE j < k
        BY <2>7, <3>1, <3>2, <4>1
      <4>2. CASE ~(j < k)
        <5>1. j - (k - 1) \in 1..(Len(s) - k) /\ (j - (k - 1)) + k = j + 1
          BY <2>7, <4>2
        <5> QED
          BY <2>7, <3>1, <3>2, <4>2, <5>1
      <4> QED
        BY <4>1, <4>2
    <3> QED
      BY <3>2, <3>3
  <2>11. IsInjective(t)
    <3> SUFFICES ASSUME NEW i \in 1..Len(t), NEW j \in 1..Len(t), t[i] = t[j]
                 PROVE  i = j
      BY <2>10 DEF IsInjective
    <3> DEFINE At(n) == IF n < k THEN n ELSE n + 1
    <3>1. At(i) \in 1..Len(s) /\ At(j) \in 1..Len(s)
      BY <2>7, <2>10
    <3>2. t[i] = s[At(i)] /\ t[j] = s[At(j)]
      BY <2>10
    <3>3. At(i) = At(j)
      <4> HIDE DEF At
      <4>1. DOMAIN s = 1..Len(s)
        OBVIOUS
      <4>2. s[At(i)] = s[At(j)]
        BY <3>2
      <4> QED
        BY <3>1, <4>1, <4>2 DEF IsInjective
    <3>4. i \in Nat /\ j \in Nat
      OBVIOUS
    <3> QED
      BY <2>7, <3>3, <3>4
  <2>12. Range(t) = Range(s) \ {e}
    <3>1. ASSUME NEW j \in 1..Len(t)
          PROVE  t[j] \in Range(s) \ {e}
      <4> DEFINE n == IF j < k THEN j ELSE j + 1
      <4>1. n \in 1..Len(s) /\ n # k /\ t[j] = s[n]
        BY <2>7, <2>10
      <4> QED
        BY <2>2, <4>1 DEF Range
    <3>2. ASSUME NEW n \in 1..Len(s), s[n] # e
          PROVE  s[n] \in Range(t)
      <4> DEFINE j == IF n < k THEN n ELSE n - 1
      <4>1. n # k
        BY <2>1, <3>2
      <4>2. j \in 1..Len(t) /\ t[j] = s[n]
        BY <2>7, <2>10, <4>1
      <4> QED
        BY <2>10, <4>2 DEF Range
    <3> QED
      BY <2>10, <3>1, <3>2 DEF Range
  <2> QED
    BY <1>2, <2>10, <2>11, <2>12 DEF t
<1> QED
  BY <1>1, <1>2

LEMMA AppendedOnce ==
  ASSUME NEW S, NEW s \in Seq(S), IsInjective(s), NEW e \in S, e \notin Range(s)
  PROVE  /\ Append(s, e) \in Seq(S) /\ IsInjective(Append(s, e))
         /\ Range(Append(s, e)) = Range(s) \cup {e}
         /\ Len(Append(s, e)) = Len(s) + 1
<1>1. \A j \in 1..Len(s) : s[j] # e
  BY DEF Range
<1> DEFINE t == Append(s, e)
<1>2. /\ t \in Seq(S) /\ Len(t) = Len(s) + 1 /\ t[Len(s) + 1] = e /\ Len(s) \in Nat
      /\ \A j \in 1..Len(s) : t[j] = s[j]
  BY AppendProperties
<1> HIDE DEF t
<1>3. DOMAIN t = 1..Len(t) /\ DOMAIN s = 1..Len(s)
  BY <1>2
<1>4. 1..Len(t) = (1..Len(s)) \cup {Len(s) + 1}
  BY <1>2
<1>5. IsInjective(t)
  BY <1>1, <1>2, <1>3, <1>4 DEF IsInjective
<1>6. Range(t) = Range(s) \cup {e}
  BY <1>2, <1>3, <1>4 DEF Range
<1> QED
  BY <1>2, <1>5, <1>6 DEF t

(* Without repetitions a sequence is as long as it has members.              *)
LEMMA LengthOfInjective ==
  ASSUME NEW S, NEW s \in Seq(S), IsInjective(s)
  PROVE  Cardinality(Range(s)) = Len(s)
<1>1. s \in Bijection(1..Len(s), Range(s))
  BY DEF Bijection, Injection, Surjection, IsInjective, Range
<1> QED
  BY <1>1, FS_CountingElements DEF ExistsBijection

-------------------------------------------------------------------------------
(* What a call changes                                                       *)

(* Of the documents, at most whether they are changed, and the filetypes     *)
(* remembered for them.                                                      *)
DocsKept(P, Q) ==
  \A e \in Doc : /\ Q.doc[e].valid = P.doc[e].valid /\ Q.doc[e].path = P.doc[e].path
                 /\ Q.doc[e].ft = P.doc[e].ft /\ Q.doc[e].text = P.doc[e].text

(* Of a server, at most whether it runs.                                     *)
ServerKept(P, Q, g) ==
  /\ Q.srv[g].open = P.srv[g].open /\ Q.srv[g].mru = P.srv[g].mru
  /\ Q.srv[g].folders = P.srv[g].folders /\ Q.srv[g].copy = P.srv[g].copy

(* No server has come to run.                                                *)
NoneReady(P, Q) ==
  \A g \in Filetype : Q.srv[g].state = "ready" => P.srv[g].state = "ready"

(* mru_docs has room for all documents: none is closed to open another.      *)
RoomForAll == Cardinality(Doc) <= MRUSize

OpensKept(P, Q) ==
  RoomForAll => \A g \in Filetype : P.srv[g].open \subseteq Q.srv[g].open

LEMMA InState ==
  ASSUME NEW P
  PROVE  P \in State <=>
           /\ P = [doc |-> P.doc, loaded |-> P.loaded, srv |-> P.srv, misuse |-> P.misuse]
           /\ P.doc \in [Doc -> Document] /\ P.loaded \in BOOLEAN
           /\ P.srv \in [Filetype -> Server]
           /\ P.misuse \subseteq ({"didOpen", "didChange", "didClose", "didSave"} \X Filetype)
BY DEF State

LEMMA FiletypeOf ==
  ASSUME LspSyncAssumption, NEW P \in State, NEW d \in Doc
  PROVE  /\ MappingOf(P.doc[d]) \in HasCmd \cup {NULL}
         /\ LspServerGetFtImpl(P.doc[d]) \in Filetype
         /\ LspServerGetFt(P, d) \in Filetype
         /\ RootOf(P, d) \in Folder \cup {NULL}
<1>1. P.doc[d] \in Document
  BY InState
<1>2. MappingOf(P.doc[d]) \in HasCmd \cup {NULL}
  BY <1>1 DEF MappingOf, LspSyncAssumption, Document
<1>3. LspServerGetFtImpl(P.doc[d]) \in Filetype
  BY <1>1, <1>2 DEF LspServerGetFtImpl, LspSyncAssumption, Document
<1>4. LspServerGetFt(P, d) \in Filetype
  BY <1>1, <1>3 DEF LspServerGetFt, Document
<1>5. RootOf(P, d) \in Folder \cup {NULL}
  BY <1>1 DEF RootOf, Folder, Document
<1> QED
  BY <1>2, <1>3, <1>4, <1>5

LEMMA CacheSets ==
  ASSUME LspSyncAssumption, NEW P \in State, NEW d \in Doc
  PROVE  LET Q == Cache(P, d) IN
         /\ Q \in State
         /\ Q.loaded = P.loaded /\ Q.srv = P.srv /\ Q.misuse = P.misuse
         /\ DocsKept(P, Q)
         /\ \A e \in Doc \ {d} : Q.doc[e] = P.doc[e]
         /\ Q.doc[d].cachedFt = LspServerGetFt(P, d) /\ Q.doc[d].changed = P.doc[d].changed
         /\ LspServerGetFt(Q, d) = LspServerGetFt(P, d)
<1> DEFINE Q == Cache(P, d)
           x == [P.doc[d] EXCEPT !.cachedFt = LspServerGetFt(P, d)]
<1>1. LspServerGetFt(P, d) \in Filetype
  BY FiletypeOf
<1>2. P.doc \in [Doc -> Document] /\ P.doc[d] \in Document
  BY InState
<1>3. /\ x \in Document
      /\ x.valid = P.doc[d].valid /\ x.path = P.doc[d].path /\ x.ft = P.doc[d].ft
      /\ x.text = P.doc[d].text /\ x.changed = P.doc[d].changed
      /\ x.cachedFt = LspServerGetFt(P, d)
  BY <1>1, <1>2 DEF Document
<1>4. Q = [P EXCEPT !.doc = [P.doc EXCEPT ![d] = x]]
  BY DEF Cache
<1> HIDE DEF x, Q
<1>5. /\ Q.doc = [P.doc EXCEPT ![d] = x] /\ Q.loaded = P.loaded /\ Q.srv = P.srv
      /\ Q.misuse = P.misuse
      /\ Q = [doc |-> Q.doc, loaded |-> Q.loaded, srv |-> Q.srv, misuse |-> Q.misuse]
  BY <1>4, InState
<1>6. Q.doc \in [Doc -> Document] /\ Q.doc[d] = x /\ \A e \in Doc \ {d} : Q.doc[e] = P.doc[e]
  BY <1>2, <1>3, <1>5
<1>7. Q \in State
  BY <1>5, <1>6, InState
<1>8. DocsKept(P, Q)
  BY <1>3, <1>6 DEF DocsKept
<1>9. LspServerGetFt(Q, d) = LspServerGetFt(P, d)
  BY <1>1, <1>3, <1>6 DEF LspServerGetFt, LspSyncAssumption
<1> QED
  BY <1>3, <1>5, <1>6, <1>7, <1>8, <1>9 DEF Q

LEMMA GetForFtStarts ==
  ASSUME LspSyncAssumption, NEW P \in State, NEW f \in Filetype
  PROVE  LET Q == LspServerGetForFt(P, f) IN
         /\ Q \in State
         /\ Q.loaded = P.loaded /\ Q.doc = P.doc /\ Q.misuse = P.misuse
         /\ \A g \in Filetype :
              /\ ServerKept(P, Q, g)
              /\ Q.srv[g].state = "ready" <=> P.srv[g].state = "ready"
<1> DEFINE Q == LspServerGetForFt(P, f)
           s == [P.srv[f] EXCEPT !.state = "starting"]
<1>1. CASE Q = P
  BY <1>1 DEF ServerKept
<1>2. CASE Q = [P EXCEPT !.srv = [P.srv EXCEPT ![f] = s]] /\ P.srv[f].state = "idle"
  <2>1. P.srv \in [Filetype -> Server] /\ P.srv[f] \in Server
    BY InState
  <2>2. /\ s \in Server /\ s.state = "starting"
        /\ s.open = P.srv[f].open /\ s.mru = P.srv[f].mru
        /\ s.folders = P.srv[f].folders /\ s.copy = P.srv[f].copy
    BY <2>1 DEF Server
  <2> HIDE DEF s, Q
  <2>3. /\ Q.srv = [P.srv EXCEPT ![f] = s] /\ Q.loaded = P.loaded /\ Q.doc = P.doc
        /\ Q.misuse = P.misuse
        /\ Q = [doc |-> Q.doc, loaded |-> Q.loaded, srv |-> Q.srv, misuse |-> Q.misuse]
    BY <1>2, InState
  <2>4. Q.srv \in [Filetype -> Server] /\ Q.srv[f] = s /\ \A g \in Filetype \ {f} : Q.srv[g] = P.srv[g]
    BY <2>1, <2>2, <2>3
  <2>5. Q \in State
    BY <2>3, <2>4, InState
  <2>6. \A g \in Filetype : /\ ServerKept(P, Q, g)
                            /\ Q.srv[g].state = "ready" <=> P.srv[g].state = "ready"
    BY <1>2, <2>2, <2>4 DEF ServerKept
  <2> QED
    BY <2>3, <2>5, <2>6 DEF Q
<1>3. \/ Q = P
      \/ Q = [P EXCEPT !.srv = [P.srv EXCEPT ![f] = s]] /\ P.srv[f].state = "idle"
  BY DEF LspServerGetForFt
<1> QED
  BY <1>1, <1>2, <1>3

LEMMA RunningAt ==
  ASSUME LspSyncAssumption, NEW P \in State, NEW d \in Doc, NEW f \in Filetype
  PROVE  /\ LspServerGetIfRunning(P, d) = f <=>
              /\ P.doc[d].path # NULL /\ LspServerGetFt(P, d) = f
              /\ f \in HasCmd /\ P.srv[f].state = "ready"
         /\ LspServerGetIfRunning(P, d) \in HasCmd \cup {NULL}
<1>1. NULL \notin Filetype
  BY DEF LspSyncAssumption
<1> QED
  BY <1>1, FiletypeOf DEF LspServerGetIfRunning, Configured

(* Where a document is open, the plugin finds it.                            *)
LEMMA OpenIsRunning ==
  ASSUME LspSyncAssumption, NEW P, NEW D, Sound(P, D), NEW d \in Doc \ D,
         NEW f \in Filetype, d \in P.srv[f].open
  PROVE  LspServerGetIfRunning(P, d) = f /\ P.doc[d].cachedFt = f
<1>1. P \in State /\ OpenSound(P) /\ OpenCached(P, d)
  BY DEF Sound
<1>2. P.doc[d].path # NULL /\ f \in HasCmd /\ P.srv[f].state = "ready"
  BY <1>1 DEF OpenSound
<1>3. P.doc[d].cachedFt = f /\ f # NULL
  BY <1>1 DEF OpenCached, LspSyncAssumption
<1>4. LspServerGetFt(P, d) = f
  BY <1>3 DEF LspServerGetFt
<1> QED
  BY <1>1, <1>2, <1>3, <1>4, RunningAt

LEMMA SoundKept ==
  ASSUME NEW P, NEW D, Sound(P, D), NEW Q \in State, NEW E, D \subseteq E,
         Q.misuse = P.misuse, DocsKept(P, Q),
         \A e \in Doc \ E : Q.doc[e].cachedFt = P.doc[e].cachedFt,
         \A g \in Filetype : /\ ServerKept(P, Q, g)
                             /\ P.srv[g].state = "ready" => Q.srv[g].state = "ready"
  PROVE  Sound(Q, E)
<1>1. \A e \in Doc : /\ MappingOf(Q.doc[e]) = MappingOf(P.doc[e])
                     /\ RootOf(Q, e) = RootOf(P, e)
  BY DEF DocsKept, MappingOf, RootOf
<1>2. \A g \in Filetype : P.srv[g].open \subseteq Doc
  BY InState DEF Sound, Server
<1>3. PathsApart(Q)
  BY DEF Sound, PathsApart, DocsKept
<1>4. OpenSound(Q)
  BY <1>1, <1>2 DEF Sound, OpenSound, DocsKept, ServerKept
<1>5. \A d \in Doc \ E : OpenCached(Q, d) /\ (Q.doc[d].valid => CacheFits(Q, d))
  BY <1>1 DEF Sound, OpenCached, CacheFits, Fits, LspServerGetFtImpl, MappingOf, DocsKept, ServerKept
<1>6. MruIsOpen(Q)
  BY DEF Sound, MruIsOpen, ServerKept
<1>7. CopiesFit(Q)
  <2> SUFFICES ASSUME NEW f \in Filetype
               PROVE  /\ DOMAIN Q.srv[f].copy = {Q.doc[d].path : d \in Q.srv[f].open}
                      /\ \A d \in Q.srv[f].open : Q.srv[f].copy[Q.doc[d].path] = Q.doc[d].text
    BY DEF CopiesFit
  <2>1. /\ Q.srv[f].copy = P.srv[f].copy /\ Q.srv[f].open = P.srv[f].open
        /\ P.srv[f].open \subseteq Doc
    BY <1>2 DEF ServerKept
  <2>2. /\ DOMAIN P.srv[f].copy = {P.doc[d].path : d \in P.srv[f].open}
        /\ \A d \in P.srv[f].open : P.srv[f].copy[P.doc[d].path] = P.doc[d].text
    BY DEF Sound, CopiesFit
  <2>3. \A d \in P.srv[f].open : Q.doc[d].path = P.doc[d].path /\ Q.doc[d].text = P.doc[d].text
    BY <2>1 DEF DocsKept
  <2> QED
    BY <2>1, <2>2, <2>3
<1> QED
  BY <1>3, <1>4, <1>5, <1>6, <1>7 DEF Sound

LEMMA SoundAgain ==
  ASSUME NEW P, NEW D, NEW d \in Doc, Sound(P, D \cup {d}), OpenCached(P, d), CacheFits(P, d)
  PROVE  Sound(P, D)
BY DEF Sound

LEMMA CacheSound ==
  ASSUME LspSyncAssumption, NEW P, NEW D, Sound(P, D), NEW d \in Doc
  PROVE  Sound(Cache(P, d), D)
<1> DEFINE Q == Cache(P, d)
<1>1. P \in State
  BY DEF Sound
<1>2. /\ Q \in State /\ Q.srv = P.srv /\ Q.misuse = P.misuse /\ DocsKept(P, Q)
      /\ \A e \in Doc \ {d} : Q.doc[e] = P.doc[e]
      /\ Q.doc[d].cachedFt = LspServerGetFt(P, d)
  BY <1>1, CacheSets
<1> HIDE DEF Q
<1>3. Sound(Q, D \cup {d})
  BY <1>1, <1>2, SoundKept DEF ServerKept
<1>4. CASE d \in D
  <2>1. D \cup {d} = D
    BY <1>4
  <2> QED
    BY <1>3, <2>1 DEF Q
<1>5. CASE d \notin D
  <2>1. OpenCached(Q, d)
    <3>1. \A f \in Filetype : d \in P.srv[f].open => P.doc[d].cachedFt = f /\ f # NULL
      BY <1>5 DEF Sound, OpenCached, LspSyncAssumption
    <3> QED
      BY <1>2, <3>1 DEF OpenCached, LspServerGetFt
  <2>2. Q.doc[d].valid => CacheFits(Q, d)
    <3>1. P.doc[d].valid => CacheFits(P, d)
      BY <1>5 DEF Sound
    <3>2. MappingOf(Q.doc[d]) = MappingOf(P.doc[d]) /\ Q.doc[d].ft = P.doc[d].ft /\ Q.doc[d].valid = P.doc[d].valid
      BY <1>2 DEF DocsKept, MappingOf
    <3> QED
      BY <1>2, <3>1, <3>2 DEF CacheFits, Fits, LspServerGetFtImpl, MappingOf, LspServerGetFt
  <2> QED
    BY <1>3, <2>1, <2>2 DEF Sound, Q
<1> QED
  BY <1>4, <1>5

LEMMA GetSound ==
  ASSUME LspSyncAssumption, NEW P, NEW D, Sound(P, D), NEW d \in Doc
  PROVE  LET Q == LspServerGet(P, d) IN
         /\ Sound(Q, D)
         /\ Q.loaded = P.loaded /\ DocsKept(P, Q)
         /\ \A e \in Doc \ {d} : Q.doc[e] = P.doc[e]
         /\ Q.doc[d].cachedFt = LspServerGetFt(P, d) /\ Q.doc[d].changed = P.doc[d].changed
         /\ \A g \in Filetype : /\ ServerKept(P, Q, g)
                                /\ Q.srv[g].state = "ready" <=> P.srv[g].state = "ready"
<1> DEFINE C == Cache(P, d)
           f == LspServerGetFt(P, d)
           Q == LspServerGet(P, d)
           S == LspServerGetForFt(C, f)
<1>1. P \in State
  BY DEF Sound
<1>2. f \in Filetype
  BY <1>1, FiletypeOf
<1>3. /\ C \in State
      /\ C.loaded = P.loaded /\ C.srv = P.srv /\ C.misuse = P.misuse /\ DocsKept(P, C)
      /\ \A e \in Doc \ {d} : C.doc[e] = P.doc[e]
      /\ C.doc[d].cachedFt = f /\ C.doc[d].changed = P.doc[d].changed
  BY <1>1, CacheSets
<1>4. Sound(C, D)
  BY CacheSound
<1>5. Q = S \/ Q = C
  BY DEF LspServerGet
<1> HIDE DEF C, f, Q
<1>6. /\ S \in State
      /\ S.loaded = C.loaded /\ S.doc = C.doc /\ S.misuse = C.misuse
      /\ \A g \in Filetype : /\ ServerKept(C, S, g)
                             /\ S.srv[g].state = "ready" <=> C.srv[g].state = "ready"
  BY <1>2, <1>3, GetForFtStarts
<1> HIDE DEF S
<1>7. Sound(S, D)
  <2>1. DocsKept(C, S)
    BY <1>6 DEF DocsKept
  <2> QED
    BY <1>4, <1>6, <2>1, SoundKept
<1>8. Sound(Q, D)
  BY <1>4, <1>5, <1>7
<1>9. /\ Q.loaded = P.loaded /\ DocsKept(P, Q)
      /\ \A e \in Doc \ {d} : Q.doc[e] = P.doc[e]
      /\ Q.doc[d].cachedFt = f /\ Q.doc[d].changed = P.doc[d].changed
  <2>1. Q.doc = C.doc /\ Q.loaded = C.loaded
    BY <1>5, <1>6
  <2> QED
    BY <1>3, <2>1 DEF DocsKept
<1>10. \A g \in Filetype : /\ ServerKept(P, Q, g)
                           /\ Q.srv[g].state = "ready" <=> P.srv[g].state = "ready"
  BY <1>3, <1>5, <1>6 DEF ServerKept
<1> QED
  BY <1>8, <1>9, <1>10 DEF Q, f

WithServer(P, f, s) == [P EXCEPT !.srv = [P.srv EXCEPT ![f] = s]]

WithDocument(P, d, x) == [P EXCEPT !.doc = [P.doc EXCEPT ![d] = x]]

LEMMA ServerSet ==
  ASSUME NEW P \in State, NEW f \in Filetype, NEW s \in Server
  PROVE  LET Q == WithServer(P, f, s) IN
         /\ Q \in State
         /\ Q.doc = P.doc /\ Q.loaded = P.loaded /\ Q.misuse = P.misuse
         /\ Q.srv[f] = s /\ \A g \in Filetype \ {f} : Q.srv[g] = P.srv[g]
<1> DEFINE Q == WithServer(P, f, s)
<1>1. /\ Q.srv = [P.srv EXCEPT ![f] = s]
      /\ Q.doc = P.doc /\ Q.loaded = P.loaded /\ Q.misuse = P.misuse
      /\ Q = [doc |-> Q.doc, loaded |-> Q.loaded, srv |-> Q.srv, misuse |-> Q.misuse]
  BY InState DEF WithServer
<1> HIDE DEF Q
<1>2. P.srv \in [Filetype -> Server]
  BY InState
<1>3. /\ Q.srv \in [Filetype -> Server]
      /\ Q.srv[f] = s /\ \A g \in Filetype \ {f} : Q.srv[g] = P.srv[g]
  BY <1>1, <1>2
<1>4. Q \in State
  BY <1>1, <1>3, InState
<1> QED
  BY <1>1, <1>3, <1>4 DEF Q

LEMMA DocumentSet ==
  ASSUME NEW P \in State, NEW d \in Doc, NEW x \in Document
  PROVE  LET Q == WithDocument(P, d, x) IN
         /\ Q \in State
         /\ Q.srv = P.srv /\ Q.loaded = P.loaded /\ Q.misuse = P.misuse
         /\ Q.doc[d] = x /\ \A e \in Doc \ {d} : Q.doc[e] = P.doc[e]
<1> DEFINE Q == WithDocument(P, d, x)
<1>1. /\ Q.doc = [P.doc EXCEPT ![d] = x]
      /\ Q.srv = P.srv /\ Q.loaded = P.loaded /\ Q.misuse = P.misuse
      /\ Q = [doc |-> Q.doc, loaded |-> Q.loaded, srv |-> Q.srv, misuse |-> Q.misuse]
  BY InState DEF WithDocument
<1> HIDE DEF Q
<1>2. P.doc \in [Doc -> Document]
  BY InState
<1>3. /\ Q.doc \in [Doc -> Document]
      /\ Q.doc[d] = x /\ \A e \in Doc \ {d} : Q.doc[e] = P.doc[e]
  BY <1>1, <1>2
<1>4. Q \in State
  BY <1>1, <1>3, InState
<1> QED
  BY <1>1, <1>3, <1>4 DEF Q

(* Of the servers, at most the folders.                                      *)
FoldersOnly(P, Q) ==
  /\ Q.doc = P.doc /\ Q.loaded = P.loaded /\ Q.misuse = P.misuse
  /\ \A g \in Filetype : /\ Q.srv[g].state = P.srv[g].state /\ Q.srv[g].open = P.srv[g].open
                         /\ Q.srv[g].mru = P.srv[g].mru /\ Q.srv[g].copy = P.srv[g].copy

LEMMA FoldersClosed ==
  ASSUME LspSyncAssumption, NEW P \in State, NEW d \in Doc
  PROVE  LET Q == WorkspaceFoldersDocClosed(P, d) IN
         /\ Q \in State /\ FoldersOnly(P, Q)
         /\ \A g \in Filetype : \A e \in Doc \ {d} :
              P.doc[e].valid /\ RootOf(P, e) \in P.srv[g].folders
                => RootOf(P, e) \in Q.srv[g].folders
<1> DEFINE Q == WorkspaceFoldersDocClosed(P, d)
           f == LspServerGetIfRunning(P, d)
           used == {RootOf(P, e) : e \in {e \in Doc \ {d} : P.doc[e].valid}}
           s == [P.srv[f] EXCEPT !.folders = P.srv[f].folders \cap used]
<1>1. CASE f = NULL
  <2>1. Q = P
    BY <1>1 DEF WorkspaceFoldersDocClosed
  <2> QED
    BY <2>1 DEF FoldersOnly
<1>2. CASE f # NULL
  <2>1. f \in Filetype
    BY <1>2, RunningAt DEF LspSyncAssumption, LspServerGetIfRunning
  <2>2. Q = [P EXCEPT !.srv = [P.srv EXCEPT ![f] = s]]
    BY <1>2 DEF WorkspaceFoldersDocClosed
  <2>3. \A e \in Doc \ {d} : P.doc[e].valid => RootOf(P, e) \in used
    OBVIOUS
  <2> HIDE DEF f, used
  <2>4. P.srv[f] \in Server
    BY <2>1, InState
  <2>5. /\ s \in Server /\ s.folders = P.srv[f].folders \cap used
        /\ s.state = P.srv[f].state /\ s.open = P.srv[f].open
        /\ s.mru = P.srv[f].mru /\ s.copy = P.srv[f].copy
    BY <2>4 DEF Server
  <2> HIDE DEF s, Q
  <2>6. /\ Q \in State
        /\ Q.doc = P.doc /\ Q.loaded = P.loaded /\ Q.misuse = P.misuse
        /\ Q.srv[f] = s /\ \A g \in Filetype \ {f} : Q.srv[g] = P.srv[g]
    BY <2>1, <2>2, <2>5, ServerSet DEF WithServer
  <2>7. FoldersOnly(P, Q)
    BY <2>5, <2>6 DEF FoldersOnly
  <2> QED
    BY <2>3, <2>5, <2>6, <2>7 DEF Q
<1> QED
  BY <1>1, <1>2

LEMMA FoldersOpened ==
  ASSUME LspSyncAssumption, NEW P \in State, NEW d \in Doc
  PROVE  LET Q == WorkspaceFoldersDocOpen(P, d) IN
         /\ Q \in State /\ FoldersOnly(P, Q)
         /\ \A g \in Filetype : P.srv[g].folders \subseteq Q.srv[g].folders
         /\ \A f \in Filetype : LspServerGetIfRunning(P, d) = f
                                  => RootOf(P, d) \in Q.srv[f].folders \cup {NULL}
<1> DEFINE Q == WorkspaceFoldersDocOpen(P, d)
           f == LspServerGetIfRunning(P, d)
           s == [P.srv[f] EXCEPT !.folders = P.srv[f].folders \cup {RootOf(P, d)}]
<1>1. CASE f = NULL \/ RootOf(P, d) = NULL
  <2>1. Q = P
    BY <1>1 DEF WorkspaceFoldersDocOpen
  <2>2. \A g \in Filetype : f = g => RootOf(P, d) = NULL
    BY <1>1 DEF LspSyncAssumption
  <2> QED
    BY <2>1, <2>2 DEF FoldersOnly
<1>2. CASE ~(f = NULL \/ RootOf(P, d) = NULL)
  <2>1. f \in Filetype
    BY <1>2, RunningAt DEF LspSyncAssumption, LspServerGetIfRunning
  <2>2. Q = [P EXCEPT !.srv = [P.srv EXCEPT ![f] = s]]
    BY <1>2 DEF WorkspaceFoldersDocOpen
  <2>3. RootOf(P, d) \in Folder
    BY <1>2, FiletypeOf
  <2> HIDE DEF f
  <2>4. P.srv[f] \in Server
    BY <2>1, InState
  <2>5. /\ s \in Server /\ s.folders = P.srv[f].folders \cup {RootOf(P, d)}
        /\ s.state = P.srv[f].state /\ s.open = P.srv[f].open
        /\ s.mru = P.srv[f].mru /\ s.copy = P.srv[f].copy
    BY <2>3, <2>4 DEF Server
  <2> HIDE DEF s, Q
  <2>6. /\ Q \in State
        /\ Q.doc = P.doc /\ Q.loaded = P.loaded /\ Q.misuse = P.misuse
        /\ Q.srv[f] = s /\ \A g \in Filetype \ {f} : Q.srv[g] = P.srv[g]
    BY <2>1, <2>2, <2>5, ServerSet DEF WithServer
  <2>7. FoldersOnly(P, Q)
    BY <2>5, <2>6 DEF FoldersOnly
  <2> QED
    BY <2>5, <2>6, <2>7 DEF Q, f
<1> QED
  BY <1>1, <1>2

(* A document that is open at a server goes out of all the server's lists.   *)
Removed(P, f, d, s) ==
  /\ s.state = P.srv[f].state /\ s.folders = P.srv[f].folders
  /\ s.open = P.srv[f].open \ {d}
  /\ s.mru = RemoveFirst(P.srv[f].mru, d)
  /\ s.copy = [p \in DOMAIN P.srv[f].copy \ {P.doc[d].path} |-> P.srv[f].copy[p]]

LEMMA DidCloseSets ==
  ASSUME LspSyncAssumption, NEW P, NEW D, Sound(P, D), NEW f \in Filetype,
         NEW d \in P.srv[f].open
  PROVE  \E s \in Server :
         /\ Removed(P, f, d, s)
         /\ DidClose(P, f, d) = WorkspaceFoldersDocClosed(WithServer(P, f, s), d)
<1> DEFINE mru == RemoveFirst(P.srv[f].mru, d)
           copy == [p \in DOMAIN P.srv[f].copy \ {P.doc[d].path} |-> P.srv[f].copy[p]]
           forgotten == [P EXCEPT !.srv[f].mru = RemoveFirst(@, d)]
           closed == [forgotten EXCEPT
                   !.srv[f].open = @ \ {d},
                   !.srv[f].copy = [p \in DOMAIN @ \ {P.doc[d].path} |-> @[p]]]
           m == [P.srv[f] EXCEPT !.mru = mru]
           s == [m EXCEPT !.open = P.srv[f].open \ {d}, !.copy = copy]
<1>1. P \in State /\ P.srv \in [Filetype -> Server] /\ P.srv[f] \in Server
  BY InState DEF Sound
<1>2. mru \in BoundedSeq(Doc, MRUSize)
  <2>1. MRUSize \in Nat
    BY DEF LspSyncAssumption
  <2>2. P.srv[f].mru \in Seq(Doc) /\ Len(P.srv[f].mru) <= MRUSize
    BY <1>1, <2>1, Bounded DEF Server
  <2>3. IsInjective(P.srv[f].mru)
    BY DEF Sound, MruIsOpen
  <2>4. mru \in Seq(Doc) /\ Len(mru) <= Len(P.srv[f].mru)
    BY <2>2, <2>3, RemovedOnce
  <2> QED
    BY <2>1, <2>2, <2>4, Bounded
<1>3. copy \in Copy
  <2> DEFINE c == P.srv[f].copy
  <2>1. c \in Copy
    BY <1>1 DEF Server
  <2>2. PICK S \in SUBSET Path : c \in [S -> Text]
    BY <2>1 DEF Copy
  <2> HIDE DEF c
  <2>3. [p \in DOMAIN c \ {P.doc[d].path} |-> c[p]] \in [S \ {P.doc[d].path} -> Text]
    BY <2>2
  <2> QED
    BY <2>3 DEF c, Copy
<1> HIDE DEF mru, copy
<1>4. /\ m \in Server /\ m.open = P.srv[f].open /\ m.copy = P.srv[f].copy
      /\ s \in Server /\ s.state = P.srv[f].state /\ s.open = P.srv[f].open \ {d}
      /\ s.mru = mru /\ s.folders = P.srv[f].folders /\ s.copy = copy
  BY <1>1, <1>2, <1>3 DEF Server
<1>5. closed = [P EXCEPT !.srv = [P.srv EXCEPT ![f] = s]]
  <2>1. forgotten = [P EXCEPT !.srv = [P.srv EXCEPT ![f] = m]]
    BY DEF mru
  <2>2. forgotten.srv = [P.srv EXCEPT ![f] = m]
    BY <1>1, <2>1, InState
  <2>3. forgotten.srv[f] = m
    BY <1>1, <1>4, <2>2
  <2> HIDE DEF m, forgotten
  <2> DEFINE A == forgotten.srv[f].open \ {d}
             B == [p \in DOMAIN forgotten.srv[f].copy \ {P.doc[d].path} |-> forgotten.srv[f].copy[p]]
  <2>4. closed = [forgotten EXCEPT !.srv[f].open = A, !.srv[f].copy = B]
    OBVIOUS
  <2>5. A = P.srv[f].open \ {d} /\ B = copy
    BY <1>4, <2>3 DEF copy
  <2> HIDE DEF A, B, closed
  <2>6. closed = [forgotten EXCEPT !.srv = [forgotten.srv EXCEPT ![f] =
                                     [forgotten.srv[f] EXCEPT !.open = A, !.copy = B]]]
    BY <2>4, ZenonT(60)
  <2>7. [forgotten.srv[f] EXCEPT !.open = A, !.copy = B] = s
    BY <2>3, <2>5
  <2> HIDE DEF s
  <2>8. [forgotten.srv EXCEPT ![f] = s] = [P.srv EXCEPT ![f] = s]
    BY <1>1, <2>2
  <2> QED
    BY <1>1, <2>1, <2>6, <2>7, <2>8, InState
<1>6. HasCopy(P, f, d)
  BY DEF HasCopy, Sound, CopiesFit
<1>7. DidClose(P, f, d) = WorkspaceFoldersDocClosed(closed, d)
  BY <1>6 DEF DidClose, Told
<1> HIDE DEF closed, s, m
<1>8. Removed(P, f, d, s)
  BY <1>4 DEF Removed, mru, copy
<1>9. DidClose(P, f, d) = WorkspaceFoldersDocClosed(WithServer(P, f, s), d)
  BY <1>5, <1>7 DEF WithServer
<1> QED
  BY <1>4, <1>8, <1>9

LEMMA DidCloseNothing ==
  ASSUME LspSyncAssumption, NEW P, NEW D, Sound(P, D), NEW f \in Filetype,
         NEW d, d \notin P.srv[f].open
  PROVE  DidClose(P, f, d) = P
<1> DEFINE s == [P.srv[f] EXCEPT !.mru = P.srv[f].mru]
<1>1. P \in State /\ P.srv \in [Filetype -> Server] /\ P.srv[f] \in Server
  BY InState DEF Sound
<1>2. RemoveFirst(P.srv[f].mru, d) = P.srv[f].mru
  <2>1. P.srv[f].mru \in Seq(Doc)
    BY <1>1, Bounded DEF Server, LspSyncAssumption
  <2>2. d \notin Range(P.srv[f].mru)
    BY DEF Sound, MruIsOpen
  <2>3. ~ \E j \in 1..Len(P.srv[f].mru) : P.srv[f].mru[j] = d
    BY <2>1, <2>2 DEF Range
  <2> QED
    BY <2>3 DEF RemoveFirst
<1>3. DidClose(P, f, d) = [P EXCEPT !.srv[f].mru = RemoveFirst(P.srv[f].mru, d)]
  BY DEF DidClose
<1>4. DidClose(P, f, d) = [P EXCEPT !.srv = [P.srv EXCEPT ![f] = s]]
  BY <1>2, <1>3
<1>5. s = P.srv[f]
  BY <1>1 DEF Server
<1> HIDE DEF s
<1>6. [P.srv EXCEPT ![f] = s] = P.srv
  BY <1>1, <1>5
<1>7. [P EXCEPT !.srv = P.srv] = P
  BY <1>1, InState
<1> QED
  BY <1>4, <1>6, <1>7

LEMMA DidCloseSound ==
  ASSUME LspSyncAssumption, NEW P, NEW D, Sound(P, D), NEW f \in Filetype, NEW d
  PROVE  LET Q == DidClose(P, f, d) IN
         /\ Sound(Q, D)
         /\ Q.doc = P.doc /\ Q.loaded = P.loaded
         /\ \A g \in Filetype :
              /\ Q.srv[g].state = P.srv[g].state
              /\ Q.srv[g].open = P.srv[g].open \ (IF g = f THEN {d} ELSE {})
         /\ Len(Q.srv[f].mru) = IF d \in P.srv[f].open THEN Len(P.srv[f].mru) - 1
                                                       ELSE Len(P.srv[f].mru)
<1> DEFINE Q == DidClose(P, f, d)
<1>0. /\ P \in State /\ PathsApart(P) /\ OpenSound(P) /\ MruIsOpen(P) /\ CopiesFit(P)
      /\ P.misuse = {}
  BY DEF Sound
<1>1. CASE d \notin P.srv[f].open
  BY <1>1, DidCloseNothing
<1>2. CASE d \in P.srv[f].open
  <2>0. PICK s \in Server :
         Removed(P, f, d, s) /\ Q = WorkspaceFoldersDocClosed(WithServer(P, f, s), d)
    BY <1>2, DidCloseSets
  <2>1. /\ s.state = P.srv[f].state /\ s.folders = P.srv[f].folders
        /\ s.open = P.srv[f].open \ {d}
        /\ s.mru = RemoveFirst(P.srv[f].mru, d)
        /\ s.copy = [p \in DOMAIN P.srv[f].copy \ {P.doc[d].path} |-> P.srv[f].copy[p]]
    BY <2>0 DEF Removed
  <2> DEFINE C == WithServer(P, f, s)
  <2>2. /\ C \in State
        /\ C.doc = P.doc /\ C.loaded = P.loaded /\ C.misuse = P.misuse
        /\ C.srv[f] = s /\ \A g \in Filetype \ {f} : C.srv[g] = P.srv[g]
    BY <1>0, ServerSet
  <2>3. Q = WorkspaceFoldersDocClosed(C, d)
    BY <2>0
  <2> HIDE DEF Q, C
  <2>4. d \in Doc
    BY <1>0, <1>2, InState DEF Server
  <2>5. /\ Q \in State /\ FoldersOnly(C, Q)
        /\ \A g \in Filetype : \A e \in Doc \ {d} :
              C.doc[e].valid /\ RootOf(C, e) \in C.srv[g].folders
                => RootOf(C, e) \in Q.srv[g].folders
    BY <2>2, <2>3, <2>4, FoldersClosed
  <2>6. Q.doc = P.doc /\ Q.loaded = P.loaded /\ Q.misuse = P.misuse
    BY <2>2, <2>5 DEF FoldersOnly
  <2>7. \A g \in Filetype : /\ Q.srv[g].state = P.srv[g].state
                            /\ Q.srv[g].open = P.srv[g].open \ (IF g = f THEN {d} ELSE {})
    BY <2>1, <2>2, <2>5 DEF FoldersOnly
  <2>8. \A g \in Filetype \ {f} : Q.srv[g].mru = P.srv[g].mru /\ Q.srv[g].copy = P.srv[g].copy
    BY <2>2, <2>5 DEF FoldersOnly
  <2>9. Q.srv[f].mru = s.mru /\ Q.srv[f].copy = s.copy
    BY <2>2, <2>5 DEF FoldersOnly
  <2>10. P.srv[f].mru \in Seq(Doc) /\ IsInjective(P.srv[f].mru)
         /\ Range(P.srv[f].mru) = P.srv[f].open
    <3>1. P.srv[f] \in Server /\ MRUSize \in Nat
      BY <1>0, InState DEF LspSyncAssumption
    <3> QED
      BY <1>0, <3>1, Bounded DEF Server, MruIsOpen
  <2>11. /\ IsInjective(Q.srv[f].mru) /\ Range(Q.srv[f].mru) = P.srv[f].open \ {d}
         /\ Len(Q.srv[f].mru) = Len(P.srv[f].mru) - 1
    <3> DEFINE t == RemoveFirst(P.srv[f].mru, d)
    <3>1. /\ IsInjective(t) /\ Range(t) = Range(P.srv[f].mru) \ {d}
          /\ Len(t) = IF d \in Range(P.srv[f].mru) THEN Len(P.srv[f].mru) - 1 ELSE Len(P.srv[f].mru)
      BY <2>10, RemovedOnce
    <3> HIDE DEF t
    <3>2. Q.srv[f].mru = t
      BY <2>1, <2>9 DEF t
    <3> QED
      BY <1>2, <2>10, <3>1, <3>2
  <2>12. \A g \in Filetype : \A e \in Q.srv[g].open : e # d /\ e \in Doc /\ e \in P.srv[g].open
    <3>1. \A g \in Filetype : P.srv[g].open \subseteq Doc
      BY <1>0, InState DEF Server
    <3> QED
      BY <1>0, <1>2, <2>7, <3>1 DEF OpenSound
  <2>13. PathsApart(Q)
    BY <1>0, <2>6 DEF PathsApart
  <2>14. OpenSound(Q)
    <3> SUFFICES ASSUME NEW g \in Filetype, NEW e \in Q.srv[g].open
                 PROVE  /\ Q.doc[e].valid /\ Q.doc[e].path # NULL
                        /\ g \in HasCmd /\ Q.srv[g].state = "ready"
                        /\ RootOf(Q, e) \in Q.srv[g].folders \cup {NULL}
                        /\ \A h \in Filetype \ {g} : e \notin Q.srv[h].open
      BY DEF OpenSound
    <3>1. e # d /\ e \in Doc /\ e \in P.srv[g].open
      BY <2>12
    <3>2. RootOf(Q, e) = RootOf(P, e) /\ RootOf(C, e) = RootOf(P, e)
      BY <2>2, <2>6 DEF RootOf
    <3>3. /\ P.doc[e].valid /\ P.doc[e].path # NULL
          /\ g \in HasCmd /\ P.srv[g].state = "ready"
          /\ RootOf(P, e) \in P.srv[g].folders \cup {NULL}
          /\ \A h \in Filetype \ {g} : e \notin P.srv[h].open
      BY <1>0, <3>1 DEF OpenSound
    <3>4. C.srv[g].folders = P.srv[g].folders
      BY <2>1, <2>2
    <3>5. RootOf(Q, e) \in Q.srv[g].folders \cup {NULL}
      BY <2>2, <2>5, <3>1, <3>2, <3>3, <3>4
    <3> QED
      BY <2>6, <2>7, <2>12, <3>3, <3>5
  <2>15. \A e \in Doc \ D : OpenCached(Q, e) /\ (Q.doc[e].valid => CacheFits(Q, e))
    BY <2>6, <2>12 DEF Sound, OpenCached, CacheFits, Fits, LspServerGetFtImpl, MappingOf
  <2>16. MruIsOpen(Q)
    <3>1. ASSUME NEW g \in Filetype
          PROVE  IsInjective(Q.srv[g].mru) /\ Range(Q.srv[g].mru) = Q.srv[g].open
      <4>1. CASE g = f
        BY <2>7, <2>11, <4>1
      <4>2. CASE g # f
        BY <1>0, <2>7, <2>8, <4>2 DEF MruIsOpen
      <4> QED
        BY <4>1, <4>2
    <3> QED
      BY <3>1 DEF MruIsOpen
  <2>17. CopiesFit(Q)
    <3>1. ASSUME NEW g \in Filetype \ {f}
          PROVE  /\ DOMAIN Q.srv[g].copy = {Q.doc[e].path : e \in Q.srv[g].open}
                 /\ \A e \in Q.srv[g].open : Q.srv[g].copy[Q.doc[e].path] = Q.doc[e].text
      BY <1>0, <2>6, <2>7, <2>8, <3>1 DEF CopiesFit
    <3>2. /\ DOMAIN Q.srv[f].copy = {Q.doc[e].path : e \in Q.srv[f].open}
          /\ \A e \in Q.srv[f].open : Q.srv[f].copy[Q.doc[e].path] = Q.doc[e].text
      <4> DEFINE c == P.srv[f].copy
                 o == P.srv[f].open
      <4>1. /\ DOMAIN c = {P.doc[e].path : e \in o}
            /\ \A e \in o : c[P.doc[e].path] = P.doc[e].text
        BY <1>0 DEF CopiesFit
      <4>2. \A e \in o \ {d} : P.doc[e].path # P.doc[d].path
        <5>1. \A e \in o : e \in Doc /\ P.doc[e].valid /\ P.doc[e].path # NULL
          BY <1>0, InState DEF OpenSound, Server
        <5> QED
          BY <1>0, <1>2, <5>1 DEF PathsApart
      <4>3. Q.srv[f].copy = [p \in DOMAIN c \ {P.doc[d].path} |-> c[p]] /\ Q.srv[f].open = o \ {d}
        BY <2>1, <2>7, <2>9
      <4> HIDE DEF c, o
      <4>4. DOMAIN c \ {P.doc[d].path} = {P.doc[e].path : e \in o \ {d}}
        BY <4>1, <4>2
      <4>5. ASSUME NEW e \in o \ {d}
            PROVE  Q.srv[f].copy[P.doc[e].path] = P.doc[e].text
        <5>1. P.doc[e].path \in DOMAIN c \ {P.doc[d].path}
          BY <4>4
        <5>2. Q.srv[f].copy[P.doc[e].path] = c[P.doc[e].path]
          BY <4>3, <5>1
        <5> QED
          BY <4>1, <5>2
      <4>6. DOMAIN Q.srv[f].copy = DOMAIN c \ {P.doc[d].path}
        BY <4>3
      <4>7. Q.doc = P.doc /\ Q.srv[f].open = o \ {d}
        BY <2>6, <4>3
      <4>8. {Q.doc[e].path : e \in Q.srv[f].open} = {P.doc[e].path : e \in o \ {d}}
        BY <4>7
      <4>9. \A e \in Q.srv[f].open : Q.srv[f].copy[Q.doc[e].path] = Q.doc[e].text
        BY <4>5, <4>7
      <4> QED
        BY <4>4, <4>6, <4>8, <4>9
    <3> QED
      BY <3>1, <3>2 DEF CopiesFit
  <2>18. Sound(Q, D)
    BY <1>0, <2>5, <2>6, <2>13, <2>14, <2>15, <2>16, <2>17 DEF Sound
  <2> QED
    BY <1>2, <2>6, <2>7, <2>11, <2>18 DEF Q
<1> QED
  BY <1>1, <1>2

(* A server with room for a document that is open nowhere.                   *)
Added(P, f, d, s) ==
  /\ s.state = P.srv[f].state /\ s.folders = P.srv[f].folders
  /\ s.open = P.srv[f].open \cup {d}
  /\ s.mru = Append(P.srv[f].mru, d)
  /\ DOMAIN s.copy = DOMAIN P.srv[f].copy \cup {P.doc[d].path}
  /\ s.copy[P.doc[d].path] = P.doc[d].text
  /\ \A p \in DOMAIN P.srv[f].copy \ {P.doc[d].path} : s.copy[p] = P.srv[f].copy[p]

WithOpen(P, f, d) ==
  [P EXCEPT !.srv[f].open = @ \cup {d}, !.srv[f].mru = Append(@, d),
            !.srv[f].copy = [p \in DOMAIN @ \cup {P.doc[d].path} |->
                               IF p = P.doc[d].path THEN P.doc[d].text ELSE @[p]]]

LEMMA OpenSets ==
  ASSUME LspSyncAssumption, NEW P \in State, NEW f \in Filetype, NEW d \in Doc,
         P.doc[d].path \in Path, Len(P.srv[f].mru) < MRUSize, d \notin Range(P.srv[f].mru),
         IsInjective(P.srv[f].mru)
  PROVE  \E s \in Server : Added(P, f, d, s) /\ WithOpen(P, f, d) = WithServer(P, f, s)
<1> DEFINE A == P.srv[f].open \cup {d}
           M == Append(P.srv[f].mru, d)
           C == [p \in DOMAIN P.srv[f].copy \cup {P.doc[d].path} |->
                   IF p = P.doc[d].path THEN P.doc[d].text ELSE P.srv[f].copy[p]]
           s == [P.srv[f] EXCEPT !.open = A, !.mru = M, !.copy = C]
           Q == WithOpen(P, f, d)
<1>1. P.srv[f] \in Server /\ MRUSize \in Nat
  BY InState DEF LspSyncAssumption
<1>2. A \in SUBSET Doc
  BY <1>1 DEF Server
<1>3. M \in BoundedSeq(Doc, MRUSize)
  <2>1. P.srv[f].mru \in Seq(Doc)
    BY <1>1, Bounded DEF Server
  <2>2. M \in Seq(Doc) /\ Len(M) = Len(P.srv[f].mru) + 1
    BY <2>1, AppendedOnce
  <2>3. Len(P.srv[f].mru) \in Nat
    BY <2>1
  <2> HIDE DEF M
  <2>4. Len(M) <= MRUSize
    BY <1>1, <2>2, <2>3
  <2> QED
    BY <1>1, <2>2, <2>4, Bounded
<1>4. /\ C \in Copy
      /\ DOMAIN C = DOMAIN P.srv[f].copy \cup {P.doc[d].path}
      /\ C[P.doc[d].path] = P.doc[d].text
      /\ \A p \in DOMAIN P.srv[f].copy \ {P.doc[d].path} : C[p] = P.srv[f].copy[p]
  <2> DEFINE c == P.srv[f].copy
             q == P.doc[d].path
             text == P.doc[d].text
  <2>1. c \in Copy
    BY <1>1 DEF Server
  <2>2. PICK S \in SUBSET Path : c \in [S -> Text]
    BY <2>1 DEF Copy
  <2>3. C = [p \in DOMAIN c \cup {q} |-> IF p = q THEN text ELSE c[p]]
    OBVIOUS
  <2>4. q \in Path /\ text \in Text
    BY InState DEF Document
  <2> HIDE DEF c, q, text, C
  <2>5. C \in [S \cup {q} -> Text]
    BY <2>2, <2>3, <2>4
  <2>6. S \cup {q} \in SUBSET Path
    BY <2>4
  <2>7. C \in Copy
    BY <2>5, <2>6 DEF Copy
  <2>8. /\ DOMAIN C = DOMAIN c \cup {q} /\ C[q] = text
        /\ \A p \in DOMAIN c \ {q} : C[p] = c[p]
    BY <2>3
  <2> QED
    BY <2>7, <2>8 DEF c, q, text
<1>5. Q = [P EXCEPT !.srv[f].open = A, !.srv[f].mru = M, !.srv[f].copy = C]
  BY DEF WithOpen
<1> HIDE DEF A, M, C, Q
<1>6. Q = [P EXCEPT !.srv = [P.srv EXCEPT ![f] = s]]
  BY <1>5, ZenonT(60)
<1>7. /\ s \in Server /\ s.state = P.srv[f].state /\ s.folders = P.srv[f].folders
      /\ s.open = A /\ s.mru = M /\ s.copy = C
  BY <1>1, <1>2, <1>3, <1>4 DEF Server
<1> HIDE DEF s
<1>8. Added(P, f, d, s)
  BY <1>4, <1>7 DEF Added, A, M
<1>9. Q = WithServer(P, f, s)
  BY <1>6 DEF WithServer
<1> QED
  BY <1>7, <1>8, <1>9 DEF Q

(* There is room for a document that is to be opened.                        *)
LEMMA RoomMade ==
  ASSUME LspSyncAssumption, NEW P, Sound(P, {}), NEW f \in Filetype, NEW d \in Doc,
         LspServerGetIfRunning(P, d) = f, P.doc[d].cachedFt = f, d \notin P.srv[f].open,
         NEW R, R = IF Len(P.srv[f].mru) >= MRUSize THEN DidClose(P, f, Head(P.srv[f].mru)) ELSE P
  PROVE  /\ Sound(R, {}) /\ R.doc = P.doc /\ R.loaded = P.loaded
         /\ \A g \in Filetype : /\ R.srv[g].state = P.srv[g].state
                                /\ R.srv[g].open \subseteq P.srv[g].open
                                /\ d \notin R.srv[g].open
         /\ Len(R.srv[f].mru) < MRUSize
         /\ LspServerGetIfRunning(R, d) = f
         /\ RoomForAll => R = P
<1> DEFINE mru == P.srv[f].mru
           e == Head(mru)
           C == DidClose(P, f, e)
<1>1. /\ mru \in Seq(Doc) /\ Len(mru) <= MRUSize /\ MRUSize \in Nat \ {0}
      /\ Range(mru) = P.srv[f].open
  <2>1. P.srv[f] \in Server /\ MRUSize \in Nat
    BY InState DEF Sound, LspSyncAssumption
  <2> QED
    BY <2>1, Bounded DEF Sound, Server, MruIsOpen, LspSyncAssumption
<1> HIDE DEF mru
<1>2. /\ Sound(C, {}) /\ C.doc = P.doc /\ C.loaded = P.loaded
      /\ \A g \in Filetype :
           /\ C.srv[g].state = P.srv[g].state
           /\ C.srv[g].open = P.srv[g].open \ (IF g = f THEN {e} ELSE {})
      /\ Len(C.srv[f].mru) = IF e \in P.srv[f].open THEN Len(mru) - 1 ELSE Len(mru)
  BY DidCloseSound DEF mru
<1>3. R = IF Len(mru) >= MRUSize THEN C ELSE P
  BY DEF mru
<1> HIDE DEF C
<1>4. \A g \in Filetype : d \notin P.srv[g].open
  BY DEF Sound, OpenCached
<1>5. /\ Sound(R, {}) /\ R.doc = P.doc /\ R.loaded = P.loaded
      /\ \A g \in Filetype : /\ R.srv[g].state = P.srv[g].state
                             /\ R.srv[g].open \subseteq P.srv[g].open
  BY <1>2, <1>3
<1>6. Len(R.srv[f].mru) < MRUSize
  <2>1. CASE Len(mru) >= MRUSize
    <3>1. Len(mru) = MRUSize /\ mru # <<>>
      BY <1>1, <2>1
    <3>2. e \in Range(mru)
      BY <1>1, <3>1 DEF Range
    <3> HIDE DEF e
    <3>3. Len(R.srv[f].mru) = Len(mru) - 1
      BY <1>1, <1>2, <1>3, <2>1, <3>2
    <3> QED
      BY <1>1, <3>1, <3>3
  <2>2. CASE ~(Len(mru) >= MRUSize)
    <3>1. Len(mru) \in Nat
      BY <1>1
    <3> QED
      BY <1>1, <1>3, <2>2, <3>1 DEF mru
  <2> QED
    BY <2>1, <2>2
<1>7. LspServerGetIfRunning(R, d) = f
  <2>1. P \in State /\ R \in State
    BY <1>5 DEF Sound
  <2>2. LspServerGetFt(R, d) = LspServerGetFt(P, d)
    BY <1>5 DEF LspServerGetFt
  <2>3. /\ P.doc[d].path # NULL /\ LspServerGetFt(P, d) = f
        /\ f \in HasCmd /\ P.srv[f].state = "ready"
    BY <2>1, RunningAt
  <2>4. /\ R.doc[d].path # NULL /\ LspServerGetFt(R, d) = f
        /\ R.srv[f].state = "ready"
    BY <1>5, <2>2, <2>3
  <2> QED
    BY <2>1, <2>3, <2>4, RunningAt
<1>8. RoomForAll => R = P
  <2>1. P.srv[f].open \subseteq Doc \ {d}
    <3>1. P.srv[f] \in Server
      BY InState DEF Sound
    <3> QED
      BY <3>1 DEF Server
  <2>2. IsFiniteSet(Doc) /\ Cardinality(Doc \ {d}) = Cardinality(Doc) - 1
    BY FS_RemoveElement DEF LspSyncAssumption
  <2>3. Cardinality(Doc) \in Nat /\ Cardinality(P.srv[f].open) <= Cardinality(Doc \ {d})
    BY <2>1, <2>2, FS_Subset, FS_CardinalityType
  <2>4. Len(mru) = Cardinality(P.srv[f].open)
    BY <1>1, LengthOfInjective DEF Sound, MruIsOpen, mru
  <2>5. Len(mru) \in Nat
    BY <1>1
  <2>6. RoomForAll => ~(Len(mru) >= MRUSize)
    BY <1>1, <2>2, <2>3, <2>4, <2>5 DEF RoomForAll
  <2> QED
    BY <1>3, <2>6
<1> QED
  BY <1>4, <1>5, <1>6, <1>7, <1>8

LEMMA DidOpenSound ==
  ASSUME LspSyncAssumption, NEW P, Sound(P, {}), NEW f \in Filetype, NEW d \in Doc,
         P.doc[d].valid, LspServerGetIfRunning(P, d) = f, P.doc[d].cachedFt = f
  PROVE  LET Q == DidOpen(P, f, d) IN
         /\ Sound(Q, {}) /\ Q.doc = P.doc /\ Q.loaded = P.loaded
         /\ d \in Q.srv[f].open
         /\ \A g \in Filetype : Q.srv[g].state = P.srv[g].state
         /\ OpensKept(P, Q)
<1> DEFINE Q == DidOpen(P, f, d)
<1>1. CASE d \in P.srv[f].open
  BY <1>1 DEF DidOpen, OpensKept
<1>2. CASE d \notin P.srv[f].open
  <2> DEFINE R == IF Len(P.srv[f].mru) >= MRUSize THEN DidClose(P, f, Head(P.srv[f].mru)) ELSE P
             A == WorkspaceFoldersDocOpen(R, d)
             O == [A EXCEPT !.srv[f].open = @ \cup {d},
                            !.srv[f].mru = Append(@, d),
                            !.srv[f].copy = [p \in DOMAIN @ \cup {P.doc[d].path} |->
                                      IF p = P.doc[d].path THEN P.doc[d].text ELSE @[p]]]
  <2>1. Q = IF ~HasCopy(R, f, d) THEN O ELSE [O EXCEPT !.misuse = @ \cup {<<"didOpen", f>>}]
    BY <1>2 DEF DidOpen, Told
  <2> HIDE DEF R
  <2>2. /\ Sound(R, {}) /\ R.doc = P.doc /\ R.loaded = P.loaded
        /\ \A g \in Filetype : /\ R.srv[g].state = P.srv[g].state
                               /\ R.srv[g].open \subseteq P.srv[g].open
                               /\ d \notin R.srv[g].open
        /\ Len(R.srv[f].mru) < MRUSize
        /\ LspServerGetIfRunning(R, d) = f
        /\ RoomForAll => R = P
    BY <1>2, RoomMade, SMTT(30) DEF R
  <2>3. /\ R \in State /\ OpenSound(R) /\ CopiesFit(R) /\ MruIsOpen(R) /\ PathsApart(R)
        /\ R.misuse = {}
    BY <2>2 DEF Sound
  <2>4. /\ A \in State /\ FoldersOnly(R, A)
        /\ \A g \in Filetype : R.srv[g].folders \subseteq A.srv[g].folders
        /\ RootOf(R, d) \in A.srv[f].folders \cup {NULL}
    BY <2>2, <2>3, FoldersOpened
  <2> HIDE DEF A
  <2>5. /\ A.doc = P.doc /\ A.loaded = P.loaded /\ A.misuse = {}
        /\ \A g \in Filetype : /\ A.srv[g].state = R.srv[g].state /\ A.srv[g].open = R.srv[g].open
                               /\ A.srv[g].mru = R.srv[g].mru /\ A.srv[g].copy = R.srv[g].copy
    BY <2>2, <2>3, <2>4 DEF FoldersOnly
  <2>6. P \in State /\ P.doc[d].path \in Path /\ f \in HasCmd /\ P.srv[f].state = "ready"
    <3>1. P \in State /\ P.doc[d] \in Document
      BY InState DEF Sound
    <3> QED
      BY <3>1, RunningAt DEF Document
  <2>7. PICK s \in Server : Added(A, f, d, s) /\ O = WithServer(A, f, s)
    <3>1. O = WithOpen(A, f, d)
      BY <2>5 DEF WithOpen
    <3>2. A.doc[d].path \in Path /\ Len(A.srv[f].mru) < MRUSize
      BY <2>2, <2>5, <2>6
    <3>3. d \notin Range(A.srv[f].mru) /\ IsInjective(A.srv[f].mru)
      BY <2>2, <2>3, <2>5 DEF MruIsOpen
    <3> HIDE DEF O
    <3> QED
      BY <2>4, <3>1, <3>2, <3>3, OpenSets
  <2>8. ~HasCopy(R, f, d)
    <3> SUFFICES ASSUME P.doc[d].path \in DOMAIN R.srv[f].copy
                 PROVE  FALSE
      BY <2>2 DEF HasCopy
    <3>1. PICK e \in R.srv[f].open : R.doc[e].path = P.doc[d].path
      BY <2>3 DEF CopiesFit
    <3>2. e \in Doc /\ R.doc[e].valid
      BY <2>3, InState DEF OpenSound, Server
    <3>3. P.doc[d].path # NULL
      BY <2>6 DEF LspSyncAssumption
    <3>4. e = d
      BY <2>2, <2>3, <3>1, <3>2, <3>3 DEF PathsApart
    <3> QED
      BY <2>2, <3>1, <3>4
  <2>9. Q = WithServer(A, f, s)
    BY <2>1, <2>7, <2>8
  <2> HIDE DEF Q, O
  <2>10. /\ Q \in State
         /\ Q.doc = A.doc /\ Q.loaded = A.loaded /\ Q.misuse = A.misuse
         /\ Q.srv[f] = s /\ \A g \in Filetype \ {f} : Q.srv[g] = A.srv[g]
    BY <2>4, <2>9, ServerSet
  <2>11. /\ s.state = A.srv[f].state /\ s.folders = A.srv[f].folders
         /\ s.open = A.srv[f].open \cup {d}
         /\ s.mru = Append(A.srv[f].mru, d)
         /\ DOMAIN s.copy = DOMAIN A.srv[f].copy \cup {A.doc[d].path}
         /\ s.copy[A.doc[d].path] = A.doc[d].text
         /\ \A p \in DOMAIN A.srv[f].copy \ {A.doc[d].path} : s.copy[p] = A.srv[f].copy[p]
    BY <2>7 DEF Added
  <2>12. \A g \in Filetype :
           /\ Q.srv[g].state = P.srv[g].state
           /\ g # f => Q.srv[g].open = R.srv[g].open
           /\ g = f => Q.srv[g].open = R.srv[g].open \cup {d}
    <3>1. ASSUME NEW g \in Filetype \ {f}
          PROVE  Q.srv[g].state = P.srv[g].state /\ Q.srv[g].open = R.srv[g].open
      BY <2>2, <2>5, <2>10
    <3>2. Q.srv[f].state = P.srv[f].state /\ Q.srv[f].open = R.srv[f].open \cup {d}
      BY <2>2, <2>5, <2>10, <2>11
    <3> QED
      BY <3>1, <3>2
  <2>13. \A g \in Filetype : R.srv[g].open \subseteq Doc
    BY <2>3, InState DEF Server
  <2>14. PathsApart(Q)
    BY <2>2, <2>3, <2>5, <2>10 DEF PathsApart
  <2>15. OpenSound(Q)
    <3> SUFFICES ASSUME NEW g \in Filetype, NEW e \in Q.srv[g].open
                 PROVE  /\ Q.doc[e].valid /\ Q.doc[e].path # NULL
                        /\ g \in HasCmd /\ Q.srv[g].state = "ready"
                        /\ RootOf(Q, e) \in Q.srv[g].folders \cup {NULL}
                        /\ \A h \in Filetype \ {g} : e \notin Q.srv[h].open
      BY DEF OpenSound
    <3>1. RootOf(Q, e) = RootOf(R, e) /\ Q.doc[e] = P.doc[e] /\ R.doc[e] = P.doc[e]
      BY <2>2, <2>5, <2>10 DEF RootOf
    <3>2. Q.srv[g].folders = A.srv[g].folders
      BY <2>10, <2>11
    <3>3. CASE e = d /\ g = f
      <4>1. P.doc[d].path # NULL
        BY <2>6 DEF LspSyncAssumption
      <4> QED
        BY <2>2, <2>4, <2>6, <2>12, <3>1, <3>2, <3>3, <4>1
    <3>4. CASE e \in R.srv[g].open
      <4>1. /\ R.doc[e].valid /\ R.doc[e].path # NULL
            /\ g \in HasCmd /\ R.srv[g].state = "ready"
            /\ RootOf(R, e) \in R.srv[g].folders \cup {NULL}
            /\ \A h \in Filetype \ {g} : e \notin R.srv[h].open
        BY <2>3, <3>4 DEF OpenSound
      <4>2. e # d
        BY <2>2, <3>4
      <4>3. RootOf(Q, e) \in Q.srv[g].folders \cup {NULL}
        BY <2>4, <3>1, <3>2, <4>1
      <4> QED
        BY <2>2, <2>12, <3>1, <4>1, <4>2, <4>3
    <3> QED
      BY <2>12, <3>3, <3>4
  <2>16. \A e \in Doc : OpenCached(Q, e) /\ (Q.doc[e].valid => CacheFits(Q, e))
    <3>1. \A e \in Doc : Q.doc[e] = P.doc[e] /\ R.doc[e] = P.doc[e]
      BY <2>2, <2>5, <2>10
    <3>2. \A e \in Doc : OpenCached(R, e) /\ (R.doc[e].valid => CacheFits(R, e))
      BY <2>2 DEF Sound
    <3>3. \A e \in Doc : OpenCached(Q, e)
      BY <2>12, <3>1, <3>2 DEF OpenCached
    <3> QED
      BY <3>1, <3>2, <3>3 DEF CacheFits, Fits, LspServerGetFtImpl, MappingOf
  <2>17. MruIsOpen(Q)
    <3> DEFINE m == R.srv[f].mru
    <3>1. m \in Seq(Doc) /\ IsInjective(m) /\ Range(m) = R.srv[f].open
      <4>1. R.srv[f] \in Server /\ MRUSize \in Nat
        BY <2>3, InState DEF LspSyncAssumption
      <4> QED
        BY <2>3, <4>1, Bounded DEF Server, MruIsOpen
    <3>2. Q.srv[f].mru = Append(m, d)
      BY <2>5, <2>10, <2>11
    <3>3. \A g \in Filetype \ {f} : Q.srv[g].mru = R.srv[g].mru
      BY <2>5, <2>10
    <3> HIDE DEF m
    <3>4. IsInjective(Append(m, d)) /\ Range(Append(m, d)) = R.srv[f].open \cup {d}
      BY <2>2, <3>1, AppendedOnce
    <3>5. ASSUME NEW g \in Filetype
          PROVE  IsInjective(Q.srv[g].mru) /\ Range(Q.srv[g].mru) = Q.srv[g].open
      <4>1. CASE g = f
        BY <2>12, <3>2, <3>4, <4>1
      <4>2. CASE g # f
        BY <2>3, <2>12, <3>3, <4>2 DEF MruIsOpen
      <4> QED
        BY <4>1, <4>2
    <3> QED
      BY <3>5 DEF MruIsOpen
  <2>18. CopiesFit(Q)
    <3>1. \A g \in Filetype :
            /\ DOMAIN R.srv[g].copy = {P.doc[e].path : e \in R.srv[g].open}
            /\ \A e \in R.srv[g].open : R.srv[g].copy[P.doc[e].path] = P.doc[e].text
      BY <2>2, <2>3 DEF CopiesFit
    <3>2. Q.doc = P.doc
      BY <2>5, <2>10
    <3>3. ASSUME NEW g \in Filetype \ {f}
          PROVE  /\ DOMAIN Q.srv[g].copy = {P.doc[e].path : e \in Q.srv[g].open}
                 /\ \A e \in Q.srv[g].open : Q.srv[g].copy[P.doc[e].path] = P.doc[e].text
      <4>1. Q.srv[g].copy = R.srv[g].copy /\ Q.srv[g].open = R.srv[g].open
        BY <2>5, <2>10
      <4> QED
        BY <3>1, <4>1
    <3>4. /\ DOMAIN Q.srv[f].copy = {P.doc[e].path : e \in Q.srv[f].open}
          /\ \A e \in Q.srv[f].open : Q.srv[f].copy[P.doc[e].path] = P.doc[e].text
      <4> DEFINE c == R.srv[f].copy
                 k == Q.srv[f].copy
                 o == R.srv[f].open
                 q == P.doc[d].path
      <4>1. /\ DOMAIN k = DOMAIN c \cup {q} /\ k[q] = P.doc[d].text
            /\ \A p \in DOMAIN c \ {q} : k[p] = c[p]
        BY <2>5, <2>10, <2>11
      <4>2. /\ DOMAIN c = {P.doc[e].path : e \in o}
            /\ \A e \in o : c[P.doc[e].path] = P.doc[e].text
        BY <3>1
      <4>3. Q.srv[f].open = o \cup {d}
        BY <2>12
      <4>4. q \notin DOMAIN c
        BY <2>2, <2>8 DEF HasCopy
      <4> HIDE DEF c, k, o, q
      <4>5. DOMAIN k = {P.doc[e].path : e \in o \cup {d}}
        BY <4>1, <4>2 DEF q
      <4>6. ASSUME NEW e \in o \cup {d}
            PROVE  k[P.doc[e].path] = P.doc[e].text
        <5>1. CASE e = d
          BY <4>1, <5>1 DEF q
        <5>2. CASE e \in o
          BY <4>1, <4>2, <4>4, <5>2
        <5> QED
          BY <5>1, <5>2
      <4> QED
        BY <4>3, <4>5, <4>6 DEF k
    <3> QED
      BY <3>2, <3>3, <3>4 DEF CopiesFit
  <2>19. Sound(Q, {})
    BY <2>5, <2>10, <2>14, <2>15, <2>16, <2>17, <2>18 DEF Sound
  <2>20. OpensKept(P, Q)
    BY <2>2, <2>12 DEF OpensKept
  <2> QED
    BY <2>5, <2>10, <2>12, <2>19, <2>20 DEF Q
<1> QED
  BY <1>1, <1>2

-------------------------------------------------------------------------------
(* The handlers                                                              *)

LEMMA LoadedSound ==
  ASSUME NEW P, NEW D, Sound(P, D)
  PROVE  LET Q == [P EXCEPT !.loaded = TRUE] IN
         /\ Sound(Q, D)
         /\ Q.doc = P.doc /\ Q.srv = P.srv /\ Q.misuse = P.misuse /\ Q.loaded = TRUE
<1> DEFINE Q == [P EXCEPT !.loaded = TRUE]
<1>1. P \in State
  BY DEF Sound
<1>2. /\ Q \in State
      /\ Q.doc = P.doc /\ Q.srv = P.srv /\ Q.misuse = P.misuse /\ Q.loaded = TRUE
  BY <1>1 DEF State
<1> HIDE DEF Q
<1>3. Sound(Q, D)
  BY <1>2, SoundKept DEF DocsKept, ServerKept
<1> QED
  BY <1>2, <1>3 DEF Q

LEMMA VisibleSound ==
  ASSUME LspSyncAssumption, NEW P, Sound(P, {}), NEW d \in Doc, P.doc[d].valid
  PROVE  LET Q == OnDocumentVisible(P, d) IN
         /\ Sound(Q, {}) /\ DocsKept(P, Q) /\ Q.loaded = TRUE
         /\ \A e \in Doc \ {d} : Q.doc[e] = P.doc[e]
         /\ Q.doc[d].cachedFt = LspServerGetFt(P, d) /\ Q.doc[d].changed = P.doc[d].changed
         /\ OpensKept(P, Q)
         /\ \A g \in Filetype : /\ Q.srv[g].state = "ready" <=> P.srv[g].state = "ready"
                                /\ LspServerGetIfRunning(P, d) = g => d \in Q.srv[g].open
<1> DEFINE L == LspServerGet(P, d)
           G == [L EXCEPT !.loaded = TRUE]
           f == LspServerGetIfRunning(G, d)
           O == DidOpen(G, f, d)
           Q == OnDocumentVisible(P, d)
<1>1. Q = IF f = NULL THEN G ELSE O
  BY DEF OnDocumentVisible
<1>2. /\ Sound(L, {})
      /\ DocsKept(P, L)
      /\ \A e \in Doc \ {d} : L.doc[e] = P.doc[e]
      /\ L.doc[d].cachedFt = LspServerGetFt(P, d) /\ L.doc[d].changed = P.doc[d].changed
      /\ \A g \in Filetype : /\ ServerKept(P, L, g)
                             /\ L.srv[g].state = "ready" <=> P.srv[g].state = "ready"
  BY GetSound
<1> HIDE DEF L
<1>3. Sound(G, {}) /\ G.doc = L.doc /\ G.srv = L.srv /\ G.loaded = TRUE
  BY <1>2, LoadedSound
<1> HIDE DEF G, Q
<1>4. P \in State /\ G \in State
  BY <1>3 DEF Sound
<1>5. LspServerGetFt(G, d) = LspServerGetFt(P, d) /\ LspServerGetFt(P, d) \in Filetype
  <2>1. LspServerGetFt(P, d) \in Filetype
    BY <1>4, FiletypeOf
  <2> QED
    BY <1>2, <1>3, <2>1 DEF LspServerGetFt, LspSyncAssumption
<1>6. ASSUME NEW g \in Filetype
      PROVE  LspServerGetIfRunning(P, d) = g <=> f = g
  <2>1. G.doc[d].path = P.doc[d].path /\ (G.srv[g].state = "ready" <=> P.srv[g].state = "ready")
    BY <1>2, <1>3 DEF DocsKept
  <2> QED
    BY <1>4, <1>5, <2>1, RunningAt
<1>7. f \in HasCmd \cup {NULL}
  BY <1>4, <1>5, RunningAt
<1>8. NULL \notin Filetype /\ HasCmd \subseteq Filetype
  BY DEF LspSyncAssumption
<1>9. CASE f = NULL
  BY <1>1, <1>2, <1>3, <1>6, <1>8, <1>9 DEF DocsKept, OpensKept, ServerKept, Q
<1>10. CASE f # NULL
  <2>1. f \in Filetype /\ G.doc[d].valid /\ G.doc[d].cachedFt = f
    <3>1. f \in Filetype
      BY <1>7, <1>8, <1>10
    <3>2. LspServerGetFt(P, d) = f
      BY <1>4, <1>6, <3>1, RunningAt
    <3> QED
      BY <1>2, <1>3, <3>1, <3>2 DEF DocsKept
  <2>2. f = LspServerGetIfRunning(G, d)
    OBVIOUS
  <2> HIDE DEF f
  <2>3. /\ Sound(O, {}) /\ O.doc = G.doc /\ O.loaded = G.loaded
        /\ d \in O.srv[f].open
        /\ \A g \in Filetype : O.srv[g].state = G.srv[g].state
        /\ OpensKept(G, O)
    BY <1>3, <2>1, <2>2, DidOpenSound
  <2> HIDE DEF O
  <2>4. OpensKept(P, O)
    BY <1>2, <1>3, <2>3 DEF OpensKept, ServerKept
  <2> QED
    BY <1>1, <1>2, <1>3, <1>6, <1>10, <2>3, <2>4 DEF DocsKept, Q
<1> QED
  BY <1>9, <1>10

LEMMA CloseSound ==
  ASSUME LspSyncAssumption, NEW P, Sound(P, {}), NEW d \in Doc
  PROVE  LET Q == OnDocumentClose(P, d) IN
         /\ Sound(Q, {}) /\ Q.doc = P.doc /\ Q.loaded = P.loaded
         /\ \A g \in Filetype : d \notin Q.srv[g].open
         /\ NoneReady(P, Q)
<1> DEFINE f == LspServerGetIfRunning(P, d)
           C == DidClose(P, f, d)
           Q == OnDocumentClose(P, d)
<1>1. Q = IF f = NULL THEN P ELSE C
  BY DEF OnDocumentClose
<1>2. \A g \in Filetype : d \in P.srv[g].open => f = g
  BY OpenIsRunning
<1>3. f \in HasCmd \cup {NULL} /\ HasCmd \subseteq Filetype /\ NULL \notin Filetype
  <2>1. P \in State
    BY DEF Sound
  <2>2. LspServerGetFt(P, d) \in Filetype /\ HasCmd \subseteq Filetype /\ NULL \notin Filetype
    BY <2>1, FiletypeOf DEF LspSyncAssumption
  <2> QED
    BY <2>1, <2>2, RunningAt
<1> HIDE DEF f
<1>4. CASE f = NULL
  BY <1>1, <1>2, <1>3, <1>4 DEF NoneReady
<1>5. CASE f # NULL
  <2>1. f \in Filetype
    BY <1>3, <1>5
  <2>2. /\ Sound(C, {}) /\ C.doc = P.doc /\ C.loaded = P.loaded
        /\ \A g \in Filetype : /\ C.srv[g].state = P.srv[g].state
                               /\ C.srv[g].open = P.srv[g].open \ (IF g = f THEN {d} ELSE {})
    BY <2>1, DidCloseSound
  <2> HIDE DEF C
  <2> QED
    BY <1>1, <1>2, <1>5, <2>2 DEF NoneReady
<1> QED
  BY <1>4, <1>5

LEMMA BeforeSaveAsSound ==
  ASSUME LspSyncAssumption, NEW P, Sound(P, {}), NEW d \in Doc
  PROVE  LET Q == OnDocumentBeforeSaveAs(P, d) IN
         /\ Sound(Q, {}) /\ DocsKept(P, Q) /\ Q.loaded = P.loaded
         /\ \A e \in Doc \ {d} : Q.doc[e] = P.doc[e]
         /\ Q.doc[d].cachedFt = LspServerGetFt(P, d)
         /\ \A g \in Filetype : d \notin Q.srv[g].open
         /\ NoneReady(P, Q)
<1> DEFINE L == LspServerGet(P, d)
           Q == OnDocumentBeforeSaveAs(P, d)
<1>1. Q = OnDocumentClose(L, d)
  BY DEF OnDocumentBeforeSaveAs, OnDocumentClose
<1>2. /\ Sound(L, {})
      /\ DocsKept(P, L) /\ L.loaded = P.loaded
      /\ \A e \in Doc \ {d} : L.doc[e] = P.doc[e]
      /\ L.doc[d].cachedFt = LspServerGetFt(P, d)
      /\ NoneReady(P, L)
  BY GetSound DEF NoneReady
<1> HIDE DEF L, Q
<1>3. /\ Sound(Q, {}) /\ Q.doc = L.doc /\ Q.loaded = L.loaded
      /\ \A g \in Filetype : d \notin Q.srv[g].open
      /\ NoneReady(L, Q)
  BY <1>1, <1>2, CloseSound
<1> QED
  BY <1>2, <1>3 DEF DocsKept, NoneReady, Q

LEMMA SaveSound ==
  ASSUME LspSyncAssumption, NEW P, Sound(P, {}), NEW d \in Doc, P.doc[d].valid
  PROVE  LET Q == OnDocumentSave(P, d) IN
         /\ Sound(Q, {}) /\ DocsKept(P, Q)
         /\ \A e \in Doc \ {d} : Q.doc[e] = P.doc[e]
         /\ Q.doc[d].cachedFt = LspServerGetFt(P, d)
         /\ NoneReady(P, Q)
<1> DEFINE L == LspServerGet(P, d)
           f == LspServerGetIfRunning(L, d)
           V == IF d \in L.srv[f].open THEN L ELSE OnDocumentVisible(L, d)
           Q == OnDocumentSave(P, d)
<1>1. Q = IF f = NULL THEN L ELSE DidSave(V, f, d)
  BY DEF OnDocumentSave
<1>2. /\ Sound(L, {})
      /\ DocsKept(P, L) /\ L.loaded = P.loaded
      /\ \A e \in Doc \ {d} : L.doc[e] = P.doc[e]
      /\ L.doc[d].cachedFt = LspServerGetFt(P, d)
      /\ NoneReady(P, L)
  BY GetSound DEF NoneReady
<1> HIDE DEF L, Q
<1>3. CASE f = NULL
  BY <1>1, <1>2, <1>3 DEF Q
<1>4. CASE f # NULL
  <2>1. P \in State /\ L \in State
    BY <1>2 DEF Sound
  <2>2. f \in Filetype
    <3>1. LspServerGetFt(L, d) \in Filetype /\ HasCmd \subseteq Filetype
      BY <2>1, FiletypeOf DEF LspSyncAssumption
    <3> QED
      BY <1>4, <2>1, <3>1, RunningAt
  <2>3. L.doc[d].valid /\ LspServerGetFt(L, d) = L.doc[d].cachedFt
    <3>1. LspServerGetFt(P, d) # NULL
      BY <2>1, FiletypeOf DEF LspSyncAssumption
    <3> QED
      BY <1>2, <3>1 DEF DocsKept, LspServerGetFt
  <2> DEFINE W == OnDocumentVisible(L, d)
  <2>4. /\ Sound(W, {}) /\ DocsKept(L, W)
        /\ \A e \in Doc \ {d} : W.doc[e] = L.doc[e]
        /\ W.doc[d].cachedFt = LspServerGetFt(L, d)
        /\ d \in W.srv[f].open
        /\ NoneReady(L, W)
    <3>1. /\ Sound(W, {}) /\ DocsKept(L, W)
          /\ \A e \in Doc \ {d} : W.doc[e] = L.doc[e]
          /\ W.doc[d].cachedFt = LspServerGetFt(L, d)
          /\ \A g \in Filetype : /\ W.srv[g].state = "ready" <=> L.srv[g].state = "ready"
                                 /\ LspServerGetIfRunning(L, d) = g => d \in W.srv[g].open
      BY <1>2, <2>3, VisibleSound
    <3> HIDE DEF W
    <3> QED
      BY <2>2, <3>1 DEF NoneReady
  <2>5. V = L \/ V = W
    OBVIOUS
  <2>6. d \in V.srv[f].open
    BY <2>4
  <2> HIDE DEF W, V, f
  <2>7. /\ Sound(V, {}) /\ DocsKept(P, V)
        /\ \A e \in Doc \ {d} : V.doc[e] = P.doc[e]
        /\ V.doc[d].cachedFt = LspServerGetFt(P, d)
        /\ NoneReady(P, V)
    BY <1>2, <2>3, <2>4, <2>5, SMTT(30) DEF DocsKept, NoneReady
  <2>8. HasCopy(V, f, d)
    BY <2>2, <2>6, <2>7 DEF Sound, CopiesFit, HasCopy
  <2>9. Q = V
    BY <1>1, <1>4, <2>8 DEF DidSave, Told
  <2> QED
    BY <2>7, <2>9 DEF Q
<1> QED
  BY <1>3, <1>4

(* A document whose filetype has been changed goes to its server.            *)
LEMMA FiletypeSetSound ==
  ASSUME LspSyncAssumption, NEW P, NEW d \in Doc, Sound(P, {d}), P.doc[d].valid, P.loaded,
         NEW old \in Filetype,
         \A g \in Filetype : d \in P.srv[g].open => g \in {old, MappingOf(P.doc[d])}
  PROVE  LET Q == OnDocumentFiletypeSet(P, d, old) IN
         /\ Sound(Q, {}) /\ DocsKept(P, Q)
         /\ \A e \in Doc \ {d} : Q.doc[e] = P.doc[e]
         /\ Q.doc[d].cachedFt = LspServerGetFtImpl(P.doc[d])
         /\ NoneReady(P, Q)
<1> DEFINE S == LspServerGetForFt(P, old)
           srvOld == IF old \in HasCmd /\ S.srv[old].state = "ready" THEN old ELSE NULL
           N == [S EXCEPT !.doc[d].cachedFt = NULL]
           G == LspServerGet(N, d)
           srvNew == LspServerGetIfRunning(G, d)
           C == IF srvOld = NULL THEN G ELSE DidClose(G, srvOld, d)
           Q == OnDocumentFiletypeSet(P, d, old)
           h == LspServerGetFtImpl(P.doc[d])
<1>1. Q = IF srvOld = srvNew THEN G ELSE OnDocumentVisible(C, d)
  BY DEF OnDocumentFiletypeSet
<1>2. P \in State /\ P.doc[d] \in Document
  BY InState DEF Sound
<1>3. /\ S \in State
      /\ S.loaded = P.loaded /\ S.doc = P.doc /\ S.misuse = P.misuse
      /\ \A g \in Filetype :
           /\ ServerKept(P, S, g)
           /\ S.srv[g].state = "ready" <=> P.srv[g].state = "ready"
  BY <1>2, GetForFtStarts
<1> DEFINE x == [S.doc[d] EXCEPT !.cachedFt = NULL]
<1>4. /\ x \in Document /\ x.cachedFt = NULL
      /\ x.valid = P.doc[d].valid /\ x.path = P.doc[d].path /\ x.ft = P.doc[d].ft
      /\ x.text = P.doc[d].text /\ x.changed = P.doc[d].changed
  BY <1>2, <1>3 DEF Document
<1>5. N = WithDocument(S, d, x)
  BY DEF WithDocument
<1> HIDE DEF S, x, N
<1>6. /\ N \in State /\ N.srv = S.srv /\ N.loaded = S.loaded /\ N.misuse = S.misuse
      /\ N.doc[d] = x /\ \A e \in Doc \ {d} : N.doc[e] = S.doc[e]
  <2>1. S \in State /\ x \in Document
    BY <1>3, <1>4
  <2> QED
    BY <1>5, <2>1, DocumentSet
<1>7. DocsKept(P, N)
  BY <1>3, <1>4, <1>6, ZenonT(60) DEF DocsKept
<1>8. Sound(N, {d})
  <2>1. \A g \in Filetype : ServerKept(P, N, g) /\ (P.srv[g].state = "ready" => N.srv[g].state = "ready")
    BY <1>3, <1>6 DEF ServerKept
  <2> QED
    BY <1>3, <1>6, <1>7, <2>1, SoundKept
<1>9. LspServerGetFt(N, d) = h /\ h \in Filetype
  <2>1. MappingOf(N.doc[d]) = MappingOf(P.doc[d])
    BY <1>4, <1>6 DEF MappingOf
  <2>2. h \in Filetype
    BY <1>2, FiletypeOf
  <2> QED
    BY <1>4, <1>6, <2>1, <2>2 DEF LspServerGetFt, LspServerGetFtImpl
<1>10. /\ Sound(G, {d}) /\ DocsKept(P, G)
       /\ \A e \in Doc \ {d} : G.doc[e] = P.doc[e]
       /\ G.doc[d].cachedFt = h
       /\ \A g \in Filetype : /\ ServerKept(P, G, g)
                              /\ G.srv[g].state = "ready" <=> P.srv[g].state = "ready"
  <2>1. /\ Sound(G, {d})
        /\ DocsKept(N, G)
        /\ \A e \in Doc \ {d} : G.doc[e] = N.doc[e]
        /\ G.doc[d].cachedFt = LspServerGetFt(N, d)
        /\ \A g \in Filetype : /\ ServerKept(N, G, g)
                               /\ G.srv[g].state = "ready" <=> N.srv[g].state = "ready"
    BY <1>8, GetSound
  <2> HIDE DEF G
  <2> QED
    BY <1>3, <1>6, <1>7, <1>9, <2>1 DEF DocsKept, ServerKept
<1> HIDE DEF G, h
<1>11. h \in {P.doc[d].ft, MappingOf(P.doc[d])} /\ (MappingOf(P.doc[d]) # NULL => h = MappingOf(P.doc[d]))
  BY DEF h, LspServerGetFtImpl
<1>12. NULL \notin Filetype
  BY DEF LspSyncAssumption
<1>13. \A X : DocsKept(P, X) /\ X.doc[d].cachedFt = h => CacheFits(X, d)
  BY <1>11 DEF DocsKept, CacheFits, Fits, LspServerGetFtImpl, MappingOf
<1>14. ASSUME NEW g \in Filetype, d \in P.srv[g].open
       PROVE  g = h \/ (g = old /\ srvOld = old)
  <2>1. CASE g = MappingOf(P.doc[d])
    BY <1>11, <1>12, <2>1
  <2>2. CASE g = old
    <3>1. old \in HasCmd /\ P.srv[old].state = "ready"
      BY <1>14, <2>2 DEF Sound, OpenSound
    <3> QED
      BY <1>3, <2>2, <3>1
  <2> QED
    BY <1>14, <2>1, <2>2
<1>15. srvOld \in {old, NULL}
  OBVIOUS
<1>16. srvNew # NULL => srvNew = h
  <2>1. G \in State /\ h # NULL
    BY <1>9, <1>10, <1>12 DEF Sound
  <2>2. LspServerGetFt(G, d) = h
    BY <1>10, <2>1 DEF LspServerGetFt
  <2> QED
    BY <2>2 DEF LspServerGetIfRunning
<1> HIDE DEF srvOld, srvNew, Q
<1>17. CASE srvOld = srvNew
  <2>1. OpenCached(G, d)
    BY <1>10, <1>12, <1>14, <1>16, <1>17 DEF OpenCached, ServerKept
  <2>2. Sound(G, {})
    BY <1>10, <1>13, <2>1, SoundAgain
  <2> QED
    BY <1>1, <1>10, <1>17, <2>2 DEF NoneReady, Q, h
<1>18. CASE srvOld # srvNew
  <2>1. /\ Sound(C, {d}) /\ C.doc = G.doc
        /\ \A g \in Filetype : C.srv[g].open \subseteq P.srv[g].open
        /\ NoneReady(G, C)
        /\ srvOld = old => d \notin C.srv[old].open
    <3>1. CASE srvOld = NULL
      BY <1>10, <1>12, <3>1 DEF ServerKept, NoneReady
    <3>2. CASE srvOld = old
      <4> DEFINE K == DidClose(G, srvOld, d)
      <4>1. /\ Sound(K, {d}) /\ K.doc = G.doc
            /\ \A g \in Filetype :
                 /\ K.srv[g].state = G.srv[g].state
                 /\ K.srv[g].open = G.srv[g].open \ (IF g = srvOld THEN {d} ELSE {})
        BY <1>10, <3>2, DidCloseSound
      <4>2. C = K
        BY <1>12, <3>2
      <4> HIDE DEF K, C
      <4> QED
        BY <1>10, <3>2, <4>1, <4>2 DEF ServerKept, NoneReady
    <3> QED
      BY <1>15, <3>1, <3>2
  <2> HIDE DEF C
  <2>2. OpenCached(C, d)
    BY <1>10, <1>14, <2>1 DEF OpenCached
  <2>3. DocsKept(P, C) /\ C.doc[d].cachedFt = h
    BY <1>10, <2>1 DEF DocsKept
  <2>4. Sound(C, {})
    BY <1>13, <2>1, <2>2, <2>3, SoundAgain
  <2>5. C.doc[d].valid /\ LspServerGetFt(C, d) = h
    BY <1>9, <1>12, <2>3 DEF DocsKept, LspServerGetFt
  <2> DEFINE V == OnDocumentVisible(C, d)
  <2>6. /\ Sound(V, {}) /\ DocsKept(C, V)
        /\ \A e \in Doc \ {d} : V.doc[e] = C.doc[e]
        /\ V.doc[d].cachedFt = h
        /\ NoneReady(C, V)
    BY <2>4, <2>5, VisibleSound DEF NoneReady
  <2>7. Q = V
    BY <1>1, <1>18
  <2> HIDE DEF V
  <2> QED
    BY <1>10, <2>1, <2>3, <2>6, <2>7 DEF DocsKept, NoneReady, Q, h
<1> QED
  BY <1>17, <1>18

LEMMA SetToSound ==
  ASSUME LspSyncAssumption, NEW P, NEW d \in Doc, NEW D \in SUBSET {d}, Sound(P, D),
         P.doc[d].valid, P.loaded \/ P.doc[d].cachedFt = NULL,
         D = {} \/ \A g \in Filetype : d \notin P.srv[g].open,
         NEW f \in Filetype
  PROVE  LET Q == SetTo(P, d, f) IN
         /\ Sound(Q, D)
         /\ \A e \in Doc \ {d} : Q.doc[e] = P.doc[e]
         /\ Q.doc[d].valid /\ Q.doc[d].path = P.doc[d].path /\ Q.doc[d].ft = f
         /\ P.doc[d].ft = f => Q = P
         /\ P.loaded /\ P.doc[d].ft # f => Q.doc[d].cachedFt = LspServerGetFtImpl(Q.doc[d])
         /\ ~P.loaded => Q.doc[d].cachedFt = P.doc[d].cachedFt
         /\ \A g \in Filetype : D # {} /\ P.doc[d].path = NULL => d \notin Q.srv[g].open
         /\ NoneReady(P, Q)
<1> DEFINE R == [P EXCEPT !.doc[d].ft = f]
           old == P.doc[d].ft
           S == OnDocumentFiletypeSet(R, d, old)
           Q == SetTo(P, d, f)
           x == [P.doc[d] EXCEPT !.ft = f]
<1>1. P \in State /\ P.doc[d] \in Document /\ old \in Filetype
  BY InState DEF Sound, Document
<1>2. CASE old = f
  BY <1>2 DEF SetTo, NoneReady
<1>3. CASE old # f
  <2>1. Q = S
    BY <1>3 DEF SetTo
  <2>2. R = WithDocument(P, d, x)
    BY DEF WithDocument
  <2>3. /\ x \in Document /\ x.cachedFt = P.doc[d].cachedFt /\ x.ft = f
        /\ x.valid = P.doc[d].valid /\ x.path = P.doc[d].path
        /\ x.text = P.doc[d].text /\ x.changed = P.doc[d].changed
    BY <1>1 DEF Document
  <2> HIDE DEF x, R
  <2>4. /\ R \in State
        /\ R.srv = P.srv /\ R.loaded = P.loaded /\ R.misuse = P.misuse
        /\ R.doc[d] = x /\ \A e \in Doc \ {d} : R.doc[e] = P.doc[e]
    BY <1>1, <2>2, <2>3, DocumentSet
  <2>5. MappingOf(R.doc[d]) = MappingOf(P.doc[d])
    BY <2>3, <2>4 DEF MappingOf
  <2>6. Sound(R, {d})
    <3>1. PathsApart(R)
      BY <2>3, <2>4 DEF Sound, PathsApart
    <3>2. \A e \in Doc : RootOf(R, e) = RootOf(P, e)
      BY <2>3, <2>4 DEF RootOf
    <3>3. \A g \in Filetype : P.srv[g].open \subseteq Doc
      BY <1>1, InState DEF Server
    <3>4. OpenSound(R)
      <4> SUFFICES ASSUME NEW g \in Filetype, NEW e \in R.srv[g].open
                   PROVE  /\ R.doc[e].valid /\ R.doc[e].path # NULL
                          /\ g \in HasCmd /\ R.srv[g].state = "ready"
                          /\ RootOf(R, e) \in R.srv[g].folders \cup {NULL}
                          /\ \A i \in Filetype \ {g} : e \notin R.srv[i].open
        BY DEF OpenSound
      <4>1. e \in Doc /\ e \in P.srv[g].open
        BY <2>4, <3>3
      <4>2. /\ P.doc[e].valid /\ P.doc[e].path # NULL
            /\ g \in HasCmd /\ P.srv[g].state = "ready"
            /\ RootOf(P, e) \in P.srv[g].folders \cup {NULL}
            /\ \A i \in Filetype \ {g} : e \notin P.srv[i].open
        BY <4>1 DEF Sound, OpenSound
      <4>3. R.doc[e].valid = P.doc[e].valid /\ R.doc[e].path = P.doc[e].path
        BY <2>3, <2>4, <4>1
      <4> QED
        BY <2>4, <3>2, <4>1, <4>2, <4>3
    <3>5. \A e \in Doc \ {d} : OpenCached(R, e) /\ (R.doc[e].valid => CacheFits(R, e))
      BY <2>4 DEF Sound, OpenCached, CacheFits, Fits, LspServerGetFtImpl, MappingOf
    <3>6. MruIsOpen(R)
      BY <2>4 DEF Sound, MruIsOpen
    <3>7. CopiesFit(R)
      <4> SUFFICES ASSUME NEW g \in Filetype
                   PROVE  /\ DOMAIN R.srv[g].copy = {R.doc[e].path : e \in R.srv[g].open}
                          /\ \A e \in R.srv[g].open : R.srv[g].copy[R.doc[e].path] = R.doc[e].text
        BY DEF CopiesFit
      <4>1. \A e \in P.srv[g].open : R.doc[e].path = P.doc[e].path /\ R.doc[e].text = P.doc[e].text
        BY <2>3, <2>4, <3>3
      <4>2. /\ DOMAIN P.srv[g].copy = {P.doc[e].path : e \in P.srv[g].open}
            /\ \A e \in P.srv[g].open : P.srv[g].copy[P.doc[e].path] = P.doc[e].text
        BY DEF Sound, CopiesFit
      <4> QED
        BY <2>4, <4>1, <4>2
    <3>8. P.misuse = {}
      BY DEF Sound
    <3> QED
      BY <2>4, <3>1, <3>4, <3>5, <3>6, <3>7, <3>8 DEF Sound
  <2>7. \A g \in Filetype : d \in R.srv[g].open => g \in {old, MappingOf(R.doc[d])}
    <3>1. CASE D = {}
      <4>1. OpenCached(P, d) /\ CacheFits(P, d)
        BY <3>1 DEF Sound
      <4> QED
        BY <2>4, <2>5, <4>1 DEF OpenCached, CacheFits, Fits, LspServerGetFtImpl, MappingOf, LspSyncAssumption
    <3>2. CASE D # {}
      BY <2>4, <3>2
    <3> QED
      BY <3>1, <3>2
  <2>8. CASE P.loaded
    <3>1. /\ Sound(S, {}) /\ DocsKept(R, S)
          /\ \A e \in Doc \ {d} : S.doc[e] = R.doc[e]
          /\ S.doc[d].cachedFt = LspServerGetFtImpl(R.doc[d])
          /\ NoneReady(R, S)
      <4>1. R.doc[d].valid /\ R.loaded
        BY <2>3, <2>4, <2>8
      <4>2. old \in Filetype
        BY <1>1
      <4> HIDE DEF old, Q
      <4>3. \A g \in Filetype : d \in R.srv[g].open => g \in {old, MappingOf(R.doc[d])}
        BY <2>7
      <4> QED
        BY <2>6, <4>1, <4>2, <4>3, FiletypeSetSound
    <3>2. S.doc[d].valid /\ S.doc[d].path = P.doc[d].path /\ S.doc[d].ft = f
      BY <2>3, <2>4, <3>1 DEF DocsKept
    <3>3. LspServerGetFtImpl(R.doc[d]) = LspServerGetFtImpl(S.doc[d])
      BY <3>1 DEF DocsKept, LspServerGetFtImpl, MappingOf
    <3> HIDE DEF S, Q
    <3>4. Sound(S, D)
      BY <3>1 DEF Sound
    <3>5. \A g \in Filetype : P.doc[d].path = NULL => d \notin S.srv[g].open
      BY <3>1, <3>2 DEF Sound, OpenSound
    <3> QED
      BY <1>3, <2>1, <2>4, <2>8, <3>1, <3>2, <3>3, <3>4, <3>5 DEF NoneReady, Q
  <2>9. CASE ~P.loaded
    <3>1. Q = R
      BY <2>1, <2>4, <2>9 DEF OnDocumentFiletypeSet
    <3>2. R.doc[d].cachedFt = NULL
      BY <2>3, <2>4, <2>9
    <3>3. Sound(R, D)
      <4>1. CASE D = {}
        <5>1. OpenCached(R, d)
          BY <2>3, <2>4, <4>1 DEF Sound, OpenCached
        <5>2. CacheFits(R, d)
          BY <3>2 DEF CacheFits, Fits, LspServerGetFtImpl, MappingOf
        <5> QED
          BY <2>6, <4>1, <5>1, <5>2, SoundAgain
      <4>2. CASE D = {d}
        BY <2>6, <4>2
      <4> QED
        BY <4>1, <4>2
    <3> HIDE DEF Q
    <3> QED
      BY <1>3, <2>3, <2>4, <2>9, <3>1, <3>3 DEF NoneReady, Q
  <2> QED
    BY <2>8, <2>9
<1> QED
  BY <1>2, <1>3

LEMMA ReplaceText ==
  ASSUME LspSyncAssumption, NEW t \in Text, NEW pos \in Nat, NEW n \in Nat, pos + n <= Len(t),
         NEW ins \in Seq(Char), Len(t) - n + Len(ins) <= MaxLen
  PROVE  Replace(t, pos, n, ins) \in Text
<1> DEFINE u == SubSeq(t, 1, pos)
           w == SubSeq(t, pos + n + 1, Len(t))
<1>1. MaxLen \in Nat /\ t \in Seq(Char) /\ Len(t) \in Nat /\ Len(ins) \in Nat
  BY Bounded DEF LspSyncAssumption, Text
<1>2. u \in Seq(Char) /\ Len(u) = pos
  BY <1>1
<1>3. w \in Seq(Char) /\ Len(w) = Len(t) - (pos + n)
  BY <1>1
<1> HIDE DEF u, w
<1>4. u \o ins \in Seq(Char) /\ Len(u \o ins) = pos + Len(ins)
  BY <1>2, ConcatProperties
<1>5. (u \o ins) \o w \in Seq(Char) /\ Len((u \o ins) \o w) = (pos + Len(ins)) + (Len(t) - (pos + n))
  <2> DEFINE v == u \o ins
  <2>1. v \in Seq(Char) /\ Len(v) = pos + Len(ins)
    BY <1>4
  <2> HIDE DEF v
  <2>2. v \o w \in Seq(Char) /\ Len(v \o w) = Len(v) + Len(w)
    BY <1>3, <2>1, ConcatProperties, ZenonT(60)
  <2> QED
    BY <1>3, <2>1, <2>2 DEF v
<1>6. Len((u \o ins) \o w) <= MaxLen
  BY <1>1, <1>5
<1>7. Replace(t, pos, n, ins) = (u \o ins) \o w
  BY DEF Replace, u, w
<1> QED
  BY <1>1, <1>5, <1>6, <1>7, Bounded DEF Text

(* A change of a text, told to the server of a document open there.          *)
LEMMA DidChangeSound ==
  ASSUME LspSyncAssumption, NEW B, Sound(B, {}), NEW d \in Doc, NEW f \in Filetype,
         d \in B.srv[f].open, NEW pos \in Nat, NEW n, NEW ins,
         pos <= Len(B.doc[d].text), NEW new \in Text,
         new = Replace(B.doc[d].text, pos, n, ins),
         NEW A \in State, A.srv = B.srv, A.misuse = B.misuse,
         A.doc[d].text = new, \A e \in Doc \ {d} : A.doc[e] = B.doc[e],
         A.doc[d].valid = B.doc[d].valid, A.doc[d].path = B.doc[d].path,
         A.doc[d].ft = B.doc[d].ft, A.doc[d].cachedFt = B.doc[d].cachedFt
  PROVE  LET Q == DidChange(A, f, d, pos, n, ins) IN
         /\ Sound(Q, {}) /\ Q.doc = A.doc /\ Q.loaded = A.loaded
         /\ NoneReady(B, Q)
<1> DEFINE Q == DidChange(A, f, d, pos, n, ins)
           p == A.doc[d].path
           c == A.srv[f].copy
           k == [c EXCEPT ![p] = new]
           s == [A.srv[f] EXCEPT !.copy = k]
<1>1. /\ B \in State /\ PathsApart(B) /\ OpenSound(B) /\ MruIsOpen(B) /\ CopiesFit(B)
      /\ B.misuse = {}
  BY DEF Sound
<1>2. HasCopy(A, f, d) /\ c[p] = B.doc[d].text
  BY <1>1 DEF CopiesFit, HasCopy
<1>3. Q = [A EXCEPT !.srv[f].copy[p] = new]
  <2>1. Len(B.doc[d].text) \in Nat
    <3>1. B.doc[d].text \in Text /\ MaxLen \in Nat
      BY <1>1, InState DEF Document, LspSyncAssumption
    <3> QED
      BY <3>1, Bounded DEF Text
  <2>2. ~(pos > Len(c[p]))
    BY <1>2, <2>1
  <2> QED
    BY <1>2, <2>2 DEF DidChange
<1>4. Q = WithServer(A, f, s)
  BY <1>3 DEF WithServer
<1>5. A.srv[f] \in Server
  BY InState
<1>6. k \in Copy /\ DOMAIN k = DOMAIN c /\ k[p] = new /\ \A q \in DOMAIN c \ {p} : k[q] = c[q]
  <2>1. c \in Copy /\ p \in DOMAIN c
    BY <1>2, <1>5 DEF Server, HasCopy
  <2>2. PICK S \in SUBSET Path : c \in [S -> Text]
    BY <2>1 DEF Copy
  <2> HIDE DEF c, p
  <2>3. k \in [S -> Text]
    BY <2>1, <2>2
  <2> QED
    BY <2>1, <2>3 DEF Copy
<1> HIDE DEF k
<1>7. /\ s \in Server /\ s.copy = k /\ s.state = A.srv[f].state /\ s.open = A.srv[f].open
      /\ s.mru = A.srv[f].mru /\ s.folders = A.srv[f].folders
  BY <1>5, <1>6 DEF Server
<1> HIDE DEF s, Q
<1>8. /\ Q \in State
      /\ Q.doc = A.doc /\ Q.loaded = A.loaded /\ Q.misuse = A.misuse
      /\ Q.srv[f] = s /\ \A g \in Filetype \ {f} : Q.srv[g] = A.srv[g]
  BY <1>4, <1>7, ServerSet
<1>9. \A g \in Filetype : /\ Q.srv[g].state = B.srv[g].state /\ Q.srv[g].open = B.srv[g].open
                          /\ Q.srv[g].mru = B.srv[g].mru /\ Q.srv[g].folders = B.srv[g].folders
  BY <1>7, <1>8
<1>10. \A e \in Doc : /\ Q.doc[e].valid = B.doc[e].valid /\ Q.doc[e].path = B.doc[e].path
                      /\ Q.doc[e].ft = B.doc[e].ft /\ Q.doc[e].cachedFt = B.doc[e].cachedFt
                      /\ e # d => Q.doc[e].text = B.doc[e].text
  BY <1>8
<1>11. \A g \in Filetype : B.srv[g].open \subseteq Doc
  BY <1>1, InState DEF Server
<1>12. \A e \in Doc : /\ RootOf(Q, e) = RootOf(B, e)
                      /\ MappingOf(Q.doc[e]) = MappingOf(B.doc[e])
  BY <1>10 DEF RootOf, MappingOf
<1>13. PathsApart(Q)
  BY <1>1, <1>10 DEF PathsApart
<1>14. OpenSound(Q)
  BY <1>1, <1>9, <1>10, <1>11, <1>12 DEF OpenSound
<1>15. \A e \in Doc \ {} : OpenCached(Q, e) /\ (Q.doc[e].valid => CacheFits(Q, e))
  BY <1>9, <1>10, <1>12 DEF Sound, OpenCached, CacheFits, Fits, LspServerGetFtImpl, MappingOf
<1>16. MruIsOpen(Q)
  BY <1>1, <1>9 DEF MruIsOpen
<1>17. CopiesFit(Q)
  <2> SUFFICES ASSUME NEW g \in Filetype
               PROVE  /\ DOMAIN Q.srv[g].copy = {Q.doc[e].path : e \in Q.srv[g].open}
                      /\ \A e \in Q.srv[g].open : Q.srv[g].copy[Q.doc[e].path] = Q.doc[e].text
    BY DEF CopiesFit
  <2> DEFINE o == B.srv[g].open
             b == B.srv[g].copy
  <2>1. /\ DOMAIN b = {B.doc[e].path : e \in o}
        /\ \A e \in o : b[B.doc[e].path] = B.doc[e].text
    BY <1>1 DEF CopiesFit
  <2>2. /\ DOMAIN Q.srv[g].copy = DOMAIN b
        /\ g # f => Q.srv[g].copy = b
        /\ g = f => Q.srv[g].copy = k /\ c = b
    BY <1>6, <1>7, <1>8
  <2>3. Q.srv[g].open = o /\ o \subseteq Doc
    BY <1>9, <1>11
  <2> HIDE DEF o, b, c
  <2>4. DOMAIN Q.srv[g].copy = {Q.doc[e].path : e \in Q.srv[g].open}
    BY <1>10, <2>1, <2>2, <2>3
  <2>5. ASSUME NEW e \in o
        PROVE  Q.srv[g].copy[Q.doc[e].path] = Q.doc[e].text
    <3>1. CASE e = d
      <4>1. g = f
        BY <1>1, <3>1 DEF o, OpenSound
      <4> QED
        BY <1>6, <1>8, <2>2, <3>1, <4>1
    <3>2. CASE e # d
      <4>1. e \in Doc /\ Q.doc[e].path = B.doc[e].path /\ Q.doc[e].text = B.doc[e].text
        BY <1>10, <2>3, <3>2
      <4>2. CASE g = f
        <5>1. B.doc[e].path # p
          <6>1. B.doc[e].valid /\ B.doc[e].path # NULL /\ B.doc[d].valid
            BY <1>1 DEF o, OpenSound
          <6> QED
            BY <1>1, <3>2, <4>1, <6>1 DEF PathsApart
        <5>2. B.doc[e].path \in DOMAIN b
          BY <2>1
        <5> HIDE DEF p
        <5> QED
          BY <1>6, <2>1, <2>2, <4>1, <4>2, <5>1, <5>2
      <4>3. CASE g # f
        BY <2>1, <2>2, <4>1, <4>3
      <4> QED
        BY <4>2, <4>3
    <3> QED
      BY <3>1, <3>2
  <2> QED
    BY <2>3, <2>4, <2>5
<1>18. Sound(Q, {})
  BY <1>1, <1>8, <1>13, <1>14, <1>15, <1>16, <1>17 DEF Sound
<1> QED
  BY <1>8, <1>9, <1>18 DEF NoneReady, Q

(* A document that is open nowhere may become another.                       *)
LEMMA UnopenedSound ==
  ASSUME NEW P, NEW D, Sound(P, D), NEW d \in Doc,
         \A g \in Filetype : d \notin P.srv[g].open,
         NEW x \in Document,
         x.valid /\ x.path # NULL
           => \A e \in Doc \ {d} : P.doc[e].valid => P.doc[e].path # x.path,
         NEW E, D \subseteq E \cup {d},
         d \notin E /\ x.valid => Fits(x)
  PROVE  LET Q == WithDocument(P, d, x) IN
         /\ Sound(Q, E) /\ Q.srv = P.srv /\ Q.loaded = P.loaded
         /\ Q.doc[d] = x /\ \A e \in Doc \ {d} : Q.doc[e] = P.doc[e]
<1> DEFINE Q == WithDocument(P, d, x)
<1>1. /\ P \in State /\ PathsApart(P) /\ OpenSound(P) /\ MruIsOpen(P) /\ CopiesFit(P)
      /\ P.misuse = {}
  BY DEF Sound
<1>2. /\ Q \in State
      /\ Q.srv = P.srv /\ Q.loaded = P.loaded /\ Q.misuse = P.misuse
      /\ Q.doc[d] = x /\ \A e \in Doc \ {d} : Q.doc[e] = P.doc[e]
  BY <1>1, DocumentSet
<1> HIDE DEF Q
<1>3. \A g \in Filetype : \A e \in P.srv[g].open : e \in Doc \ {d}
  BY <1>1, InState DEF Server
<1>4. PathsApart(Q)
  BY <1>1, <1>2 DEF PathsApart
<1>5. OpenSound(Q)
  BY <1>1, <1>2, <1>3 DEF OpenSound, RootOf
<1>6. ASSUME NEW e \in Doc \ E
      PROVE  OpenCached(Q, e) /\ (Q.doc[e].valid => CacheFits(Q, e))
  <2>1. CASE e = d
    BY <1>2, <2>1 DEF OpenCached, CacheFits, Fits, LspServerGetFtImpl, MappingOf
  <2>2. CASE e # d
    BY <1>2, <2>2 DEF Sound, OpenCached, CacheFits, Fits, LspServerGetFtImpl, MappingOf
  <2> QED
    BY <2>1, <2>2
<1>7. MruIsOpen(Q)
  BY <1>1, <1>2 DEF MruIsOpen
<1>8. CopiesFit(Q)
  <2> SUFFICES ASSUME NEW g \in Filetype
               PROVE  /\ DOMAIN Q.srv[g].copy = {Q.doc[e].path : e \in Q.srv[g].open}
                      /\ \A e \in Q.srv[g].open : Q.srv[g].copy[Q.doc[e].path] = Q.doc[e].text
    BY DEF CopiesFit
  <2>1. \A e \in P.srv[g].open : Q.doc[e].path = P.doc[e].path /\ Q.doc[e].text = P.doc[e].text
    BY <1>2, <1>3
  <2>2. /\ DOMAIN P.srv[g].copy = {P.doc[e].path : e \in P.srv[g].open}
        /\ \A e \in P.srv[g].open : P.srv[g].copy[P.doc[e].path] = P.doc[e].text
    BY <1>1 DEF CopiesFit
  <2> QED
    BY <1>2, <2>1, <2>2
<1>9. Sound(Q, E)
  BY <1>1, <1>2, <1>4, <1>5, <1>6, <1>7, <1>8 DEF Sound
<1> QED
  BY <1>2, <1>9 DEF Q

LEMMA NotifySound ==
  ASSUME LspSyncAssumption, NEW P, Sound(P, {}), NEW d \in Doc, P.doc[d].valid,
         NEW pos \in Nat, NEW n \in Nat, pos + n <= Len(P.doc[d].text),
         NEW ins \in Seq(Char), Len(P.doc[d].text) - n + Len(ins) <= MaxLen
  PROVE  LET Q == OnEditorNotify(P, d, pos, n, ins) IN
         /\ Sound(Q, {})
         /\ \A e \in Doc \ {d} : Q.doc[e] = P.doc[e]
         /\ Q.doc[d].valid /\ Q.doc[d].path = P.doc[d].path /\ Q.doc[d].ft = P.doc[d].ft
         /\ Q.doc[d].cachedFt = LspServerGetFt(P, d)
         /\ NoneReady(P, Q)
<1> DEFINE L == LspServerGet(P, d)
           f == LspServerGetIfRunning(L, d)
           B == IF f = NULL THEN L ELSE DidOpen(L, f, d)
           text == Replace(B.doc[d].text, pos, n, ins)
           A == [B EXCEPT !.doc[d].text = Replace(@, pos, n, ins), !.doc[d].changed = TRUE]
           x == [B.doc[d] EXCEPT !.text = text, !.changed = TRUE]
           Q == OnEditorNotify(P, d, pos, n, ins)
<1>1. Q = IF f = NULL THEN A ELSE DidChange(A, f, d, pos, n, ins)
  BY DEF OnEditorNotify
<1>2. /\ Sound(L, {})
      /\ DocsKept(P, L)
      /\ \A e \in Doc \ {d} : L.doc[e] = P.doc[e]
      /\ L.doc[d].cachedFt = LspServerGetFt(P, d)
      /\ NoneReady(P, L)
  BY GetSound DEF NoneReady
<1> HIDE DEF L, Q
<1>3. P \in State /\ L \in State /\ NULL \notin Filetype /\ LspServerGetFt(P, d) \in Filetype
  <2>1. P \in State /\ L \in State /\ NULL \notin Filetype
    BY <1>2 DEF Sound, LspSyncAssumption
  <2> QED
    BY <2>1, FiletypeOf
<1>4. f # NULL => f \in Filetype /\ L.doc[d].cachedFt = f
  <2>1. LspServerGetFt(L, d) = L.doc[d].cachedFt /\ HasCmd \subseteq Filetype
    BY <1>2, <1>3 DEF LspServerGetFt, LspSyncAssumption
  <2>2. LspServerGetFt(L, d) \in Filetype
    BY <1>2, <1>3, <2>1
  <2> QED
    BY <1>3, <2>1, <2>2, RunningAt
<1>5. /\ Sound(B, {}) /\ B.doc = L.doc /\ NoneReady(L, B)
      /\ f # NULL => d \in B.srv[f].open
      /\ f = NULL => \A g \in Filetype : d \notin B.srv[g].open
  <2>1. CASE f = NULL
    <3>1. \A g \in Filetype : d \in L.srv[g].open => f = g
      BY <1>2, OpenIsRunning
    <3> HIDE DEF f
    <3> QED
      BY <1>2, <1>3, <2>1, <3>1 DEF NoneReady
  <2>2. CASE f # NULL
    <3> DEFINE O == DidOpen(L, f, d)
    <3>1. L.doc[d].valid
      BY <1>2 DEF DocsKept
    <3>2. f = LspServerGetIfRunning(L, d)
      OBVIOUS
    <3> HIDE DEF f
    <3>3. Sound(O, {}) /\ O.doc = L.doc /\ d \in O.srv[f].open /\ NoneReady(L, O)
      BY <1>2, <1>4, <2>2, <3>1, <3>2, DidOpenSound DEF NoneReady
    <3>4. B = O
      BY <2>2
    <3> HIDE DEF O, B
    <3> QED
      BY <2>2, <3>3, <3>4
  <2> QED
    BY <2>1, <2>2
<1> HIDE DEF B, f
<1>6. A = WithDocument(B, d, x)
  BY ZenonT(60) DEF WithDocument
<1>7. B \in State /\ B.doc[d] \in Document
  BY <1>5, InState DEF Sound
<1>8. B.doc[d].text = P.doc[d].text /\ P.doc[d].text \in Text
  BY <1>2, <1>5, <1>7 DEF DocsKept, Document
<1>9. text \in Text
  BY <1>8, ReplaceText
<1> HIDE DEF text
<1>10. /\ x \in Document /\ x.text = text
       /\ x.valid = B.doc[d].valid /\ x.path = B.doc[d].path
       /\ x.ft = B.doc[d].ft /\ x.cachedFt = B.doc[d].cachedFt
  BY <1>7, <1>9 DEF Document
<1> HIDE DEF A, x
<1>11. /\ A \in State
       /\ A.srv = B.srv /\ A.loaded = B.loaded /\ A.misuse = B.misuse
       /\ A.doc[d] = x /\ \A e \in Doc \ {d} : A.doc[e] = B.doc[e]
  BY <1>6, <1>7, <1>10, DocumentSet
<1>12. Sound(Q, {}) /\ Q.doc = A.doc /\ NoneReady(B, Q)
  <2>1. CASE f = NULL
    <3>1. x.valid => Fits(x)
      <4>1. x.valid => Fits(B.doc[d])
        BY <1>5, <1>10 DEF Sound, CacheFits
      <4>2. Fits(B.doc[d]) <=> Fits(x)
        BY <1>10 DEF Fits, LspServerGetFtImpl, MappingOf
      <4> QED
        BY <4>1, <4>2
    <3>2. x.valid /\ x.path # NULL
            => \A e \in Doc \ {d} : B.doc[e].valid => B.doc[e].path # x.path
      BY <1>5, <1>10 DEF Sound, PathsApart
    <3>3. Sound(A, {})
      BY <1>5, <1>6, <1>10, <2>1, <3>1, <3>2, UnopenedSound
    <3> QED
      BY <1>1, <1>11, <2>1, <3>3 DEF NoneReady
  <2>2. CASE f # NULL
    <3> DEFINE K == DidChange(A, f, d, pos, n, ins)
    <3>1. pos <= Len(B.doc[d].text)
      <4>1. Len(P.doc[d].text) \in Nat
        BY <1>8, Bounded DEF Text, LspSyncAssumption
      <4> QED
        BY <1>8, <4>1
    <3>2. Sound(K, {}) /\ K.doc = A.doc /\ NoneReady(B, K)
      <4>1. text = Replace(B.doc[d].text, pos, n, ins)
        BY DEF text
      <4>2. /\ A.doc[d].text = text /\ A.doc[d].valid = B.doc[d].valid
            /\ A.doc[d].path = B.doc[d].path
            /\ A.doc[d].ft = B.doc[d].ft /\ A.doc[d].cachedFt = B.doc[d].cachedFt
        BY <1>10, <1>11
      <4>3. d \in B.srv[f].open /\ f \in Filetype
        BY <1>4, <1>5, <2>2
      <4> QED
        BY <1>5, <1>9, <1>11, <3>1, <4>1, <4>2, <4>3, DidChangeSound, SMTT(30)
    <3> HIDE DEF K
    <3> QED
      BY <1>1, <2>2, <3>2 DEF K
  <2> QED
    BY <2>1, <2>2
<1>13. /\ \A e \in Doc \ {d} : A.doc[e] = P.doc[e]
       /\ A.doc[d].valid /\ A.doc[d].path = P.doc[d].path /\ A.doc[d].ft = P.doc[d].ft
       /\ A.doc[d].cachedFt = LspServerGetFt(P, d)
  BY <1>2, <1>5, <1>10, <1>11 DEF DocsKept
<1>14. NoneReady(P, Q)
  BY <1>2, <1>5, <1>12 DEF NoneReady
<1> QED
  BY <1>12, <1>13, <1>14 DEF Q

LEMMA ServerIsNew ==
  ASSUME LspSyncAssumption
  PROVE  NewServer \in Server
<1>1. <<>> \in BoundedSeq(Doc, MRUSize)
  <2>1. <<>> \in Seq(Doc) /\ Len(<<>>) = 0
    OBVIOUS
  <2>2. MRUSize \in Nat /\ 0 <= MRUSize
    BY DEF LspSyncAssumption
  <2> QED
    BY <2>1, <2>2, Bounded
<1>2. [p \in {} |-> <<>>] \in [{} -> Text] /\ {} \in SUBSET Path
  OBVIOUS
<1>3. [p \in {} |-> <<>>] \in Copy
  BY <1>2 DEF Copy
<1> QED
  BY <1>1, <1>3 DEF NewServer, Server

(* A server with nothing open, as all are at first and one is after a crash. *)
LEMMA EmptiedSound ==
  ASSUME LspSyncAssumption, NEW P, NEW D, Sound(P, D), NEW Q \in State,
         Q.misuse = P.misuse, DocsKept(P, Q), NEW F,
         \A g \in Filetype \ F : Q.srv[g] = P.srv[g],
         \A g \in F : /\ Q.srv[g].open = {} /\ Q.srv[g].mru = <<>>
                      /\ DOMAIN Q.srv[g].copy = {},
         \A d \in Doc : \/ Q.doc[d].cachedFt = P.doc[d].cachedFt
                        \/ F = Filetype /\ Q.doc[d].cachedFt = NULL
  PROVE  Sound(Q, D)
<1>1. \A g \in Filetype : /\ Q.srv[g].open \subseteq P.srv[g].open
                          /\ Q.srv[g].open # {} => Q.srv[g] = P.srv[g]
  OBVIOUS
<1>2. \A g \in Filetype : P.srv[g].open \subseteq Doc
  BY InState DEF Sound, Server
<1>3. \A e \in Doc : /\ MappingOf(Q.doc[e]) = MappingOf(P.doc[e])
                     /\ RootOf(Q, e) = RootOf(P, e)
  BY DEF DocsKept, MappingOf, RootOf
<1>4. PathsApart(Q)
  BY DEF Sound, PathsApart, DocsKept
<1>5. OpenSound(Q)
  <2> SUFFICES ASSUME NEW g \in Filetype, NEW e \in Q.srv[g].open
               PROVE  /\ Q.doc[e].valid /\ Q.doc[e].path # NULL
                      /\ g \in HasCmd /\ Q.srv[g].state = "ready"
                      /\ RootOf(Q, e) \in Q.srv[g].folders \cup {NULL}
                      /\ \A i \in Filetype \ {g} : e \notin Q.srv[i].open
    BY DEF OpenSound
  <2>1. e \in Doc /\ e \in P.srv[g].open /\ Q.srv[g] = P.srv[g]
    BY <1>1, <1>2
  <2>2. /\ P.doc[e].valid /\ P.doc[e].path # NULL
        /\ g \in HasCmd /\ P.srv[g].state = "ready"
        /\ RootOf(P, e) \in P.srv[g].folders \cup {NULL}
        /\ \A i \in Filetype \ {g} : e \notin P.srv[i].open
    BY <2>1 DEF Sound, OpenSound
  <2> QED
    BY <1>1, <1>3, <2>1, <2>2 DEF DocsKept
<1>6. ASSUME NEW e \in Doc \ D
      PROVE  OpenCached(Q, e) /\ (Q.doc[e].valid => CacheFits(Q, e))
  <2>1. CASE F = Filetype /\ Q.doc[e].cachedFt = NULL
    BY <2>1 DEF OpenCached, CacheFits, Fits, LspServerGetFtImpl, MappingOf
  <2>2. CASE Q.doc[e].cachedFt = P.doc[e].cachedFt
    BY <1>1, <1>3, <2>2 DEF Sound, OpenCached, CacheFits, Fits, LspServerGetFtImpl, MappingOf, DocsKept
  <2> QED
    BY <2>1, <2>2
<1>7. MruIsOpen(Q)
  <2>1. IsInjective(<<>>) /\ Range(<<>>) = {}
    BY DEF IsInjective, Range
  <2>2. ASSUME NEW g \in Filetype
        PROVE  IsInjective(Q.srv[g].mru) /\ Range(Q.srv[g].mru) = Q.srv[g].open
    <3>1. CASE g \in F
      BY <2>1, <3>1
    <3>2. CASE g \notin F
      BY <3>2 DEF Sound, MruIsOpen
    <3> QED
      BY <3>1, <3>2
  <2> QED
    BY <2>2 DEF MruIsOpen
<1>8. CopiesFit(Q)
  <2> SUFFICES ASSUME NEW g \in Filetype
               PROVE  /\ DOMAIN Q.srv[g].copy = {Q.doc[e].path : e \in Q.srv[g].open}
                      /\ \A e \in Q.srv[g].open : Q.srv[g].copy[Q.doc[e].path] = Q.doc[e].text
    BY DEF CopiesFit
  <2>1. CASE g \in F
    BY <2>1
  <2>2. CASE g \notin F
    <3>1. \A e \in P.srv[g].open : Q.doc[e].path = P.doc[e].path /\ Q.doc[e].text = P.doc[e].text
      BY <1>2 DEF DocsKept
    <3>2. /\ DOMAIN P.srv[g].copy = {P.doc[e].path : e \in P.srv[g].open}
          /\ \A e \in P.srv[g].open : P.srv[g].copy[P.doc[e].path] = P.doc[e].text
      BY DEF Sound, CopiesFit
    <3>3. Q.srv[g] = P.srv[g]
      BY <2>2
    <3> QED
      BY <3>1, <3>2, <3>3
  <2> QED
    BY <2>1, <2>2
<1> QED
  BY <1>4, <1>5, <1>6, <1>7, <1>8 DEF Sound

LEMMA StopAndInitSound ==
  ASSUME LspSyncAssumption, NEW P, Sound(P, {})
  PROVE  LET Q == StopAndInitAllServers(P) IN
         /\ Sound(Q, {}) /\ DocsKept(P, Q)
         /\ \A d \in Doc : Q.doc[d].cachedFt = NULL
         /\ NoneReady(P, Q)
<1> DEFINE Q == StopAndInitAllServers(P)
<1>1. P \in State /\ P.doc \in [Doc -> Document]
  BY InState DEF Sound
<1>2. /\ Q.doc = [d \in Doc |-> [P.doc[d] EXCEPT !.cachedFt = NULL]]
      /\ Q.srv = [f \in Filetype |-> NewServer] /\ Q.misuse = P.misuse
      /\ Q.loaded = FALSE
      /\ Q = [P EXCEPT !.doc = Q.doc, !.srv = Q.srv, !.loaded = FALSE]
  <2> DEFINE ds == [d \in Doc |-> [P.doc[d] EXCEPT !.cachedFt = NULL]]
             ss == [f \in Filetype |-> NewServer]
  <2>1. Q = [P EXCEPT !.doc = ds, !.srv = ss, !.loaded = FALSE]
    BY DEF StopAndInitAllServers
  <2> HIDE DEF ds, ss, Q
  <2>2. Q.doc = ds /\ Q.srv = ss /\ Q.misuse = P.misuse /\ Q.loaded = FALSE
    BY <1>1, <2>1, InState
  <2>3. Q = [P EXCEPT !.doc = Q.doc, !.srv = Q.srv, !.loaded = FALSE]
    BY <2>1, <2>2
  <2> QED
    BY <2>2, <2>3 DEF ds, ss
<1> HIDE DEF Q
<1>3. ASSUME NEW d \in Doc
      PROVE  /\ Q.doc[d] \in Document /\ Q.doc[d].cachedFt = NULL
             /\ Q.doc[d].valid = P.doc[d].valid /\ Q.doc[d].path = P.doc[d].path
             /\ Q.doc[d].ft = P.doc[d].ft /\ Q.doc[d].text = P.doc[d].text
  <2> DEFINE y == [P.doc[d] EXCEPT !.cachedFt = NULL]
  <2>1. Q.doc[d] = y
    BY <1>2
  <2>2. P.doc[d] \in Document
    BY <1>1
  <2>3. /\ y \in Document /\ y.cachedFt = NULL /\ y.valid = P.doc[d].valid
        /\ y.path = P.doc[d].path /\ y.ft = P.doc[d].ft /\ y.text = P.doc[d].text
    BY <2>2 DEF Document
  <2> HIDE DEF y
  <2> QED
    BY <2>1, <2>3
<1>4. Q.doc \in [Doc -> Document]
  BY <1>2, <1>3
<1>5. Q \in State
  <2>1. Q.srv \in [Filetype -> Server]
    BY <1>2, ServerIsNew
  <2> QED
    BY <1>1, <1>2, <1>4, <2>1 DEF State
<1>6. DocsKept(P, Q)
  BY <1>3 DEF DocsKept
<1>7. Sound(Q, {})
  <2>1. \A g \in Filetype : /\ Q.srv[g].open = {} /\ Q.srv[g].mru = <<>>
                            /\ DOMAIN Q.srv[g].copy = {}
    BY <1>2 DEF NewServer
  <2> QED
    BY <1>2, <1>3, <1>5, <1>6, <2>1, EmptiedSound
<1>8. NoneReady(P, Q)
  BY <1>2 DEF NoneReady, NewServer
<1> QED
  BY <1>3, <1>6, <1>7, <1>8 DEF Q

(* Induction up to a bound.                                                  *)
LEMMA UpTo ==
  ASSUME NEW N \in Nat, NEW T \in SUBSET (0..N), 0 \in T,
         \A n \in T : n < N => n + 1 \in T
  PROVE  T = 0..N
<1> SUFFICES ASSUME (0..N) \ T # {}
             PROVE  FALSE
  OBVIOUS
<1> DEFINE R == (0..N) \ T
           Less == {p \in Nat \X Nat : p[1] < p[2]}
<1>1. IsWellFoundedOn(Less, Nat)
  BY NatLessThanWellFounded DEF OpToRel
<1>2. PICK m \in R : \A y \in R : ~(<<y, m>> \in Less)
  <2>1. R \subseteq Nat /\ R # {}
    OBVIOUS
  <2> HIDE DEF R, Less
  <2> QED
    BY <1>1, <2>1, WFMin
<1>3. m \in 0..N /\ m # 0 /\ m - 1 \in 0..N
  OBVIOUS
<1>4. <<m - 1, m>> \in Less
  BY <1>3
<1>5. m - 1 \in T
  BY <1>2, <1>3, <1>4
<1>6. m - 1 < N /\ (m - 1) + 1 = m
  BY <1>3
<1> QED
  BY <1>5, <1>6

(* The same documents have the same servers.                                 *)
SameServers(P, Q) ==
  \A e \in Doc, g \in Filetype :
    LspServerGetIfRunning(Q, e) = g <=> LspServerGetIfRunning(P, e) = g

LEMMA ServersStay ==
  ASSUME LspSyncAssumption, NEW P \in State, NEW Q \in State, DocsKept(P, Q), NEW d \in Doc,
         \A e \in Doc \ {d} : Q.doc[e] = P.doc[e],
         Q.doc[d].cachedFt = LspServerGetFt(P, d),
         \A g \in Filetype : Q.srv[g].state = "ready" <=> P.srv[g].state = "ready"
  PROVE  SameServers(P, Q)
<1> SUFFICES ASSUME NEW e \in Doc, NEW g \in Filetype
             PROVE  LspServerGetIfRunning(Q, e) = g <=> LspServerGetIfRunning(P, e) = g
  BY DEF SameServers
<1>1. LspServerGetFt(P, e) \in Filetype /\ NULL \notin Filetype
  BY FiletypeOf DEF LspSyncAssumption
<1>2. LspServerGetFt(Q, e) = LspServerGetFt(P, e)
  <2>1. CASE e = d
    BY <1>1, <2>1 DEF LspServerGetFt
  <2>2. CASE e # d
    BY <2>2 DEF LspServerGetFt
  <2> QED
    BY <2>1, <2>2
<1>3. Q.doc[e].path = P.doc[e].path
  BY DEF DocsKept
<1> QED
  BY <1>2, <1>3, RunningAt

(* What on_server_initialized() opens.                                       *)
Wanted(P, f, d) ==
  LspServerGetIfRunning(P, d) = f /\ (P.doc[d].changed \/ d = current)

ChangesKept(P, Q) == \A e \in Doc : Q.doc[e].changed = P.doc[e].changed

LEMMA VisitSound ==
  ASSUME LspSyncAssumption, NEW P, Sound(P, {}), NEW f \in Filetype, NEW d \in Doc,
         P.doc[d].valid
  PROVE  LET Q == Visit(P, f, d) IN
         /\ Sound(Q, {}) /\ DocsKept(P, Q) /\ ChangesKept(P, Q)
         /\ NoneReady(P, Q) /\ SameServers(P, Q) /\ OpensKept(P, Q)
         /\ Wanted(P, f, d) => d \in Q.srv[f].open
<1> DEFINE C == Cache(P, d)
           V == OnDocumentVisible(C, d)
           O == DidOpen(C, f, d)
           Q == Visit(P, f, d)
           Kept(X, Y) == /\ DocsKept(X, Y) /\ \A e \in Doc \ {d} : Y.doc[e] = X.doc[e]
                         /\ Y.doc[d].cachedFt = LspServerGetFt(X, d)
                         /\ Y.doc[d].changed = X.doc[d].changed
                         /\ \A g \in Filetype :
                              Y.srv[g].state = "ready" <=> X.srv[g].state = "ready"
                         /\ OpensKept(X, Y)
<1>1. /\ Sound(C, {}) /\ P \in State
      /\ Kept(P, C) /\ LspServerGetFt(C, d) = LspServerGetFt(P, d)
  <2>1. P \in State
    BY DEF Sound
  <2> HIDE DEF C
  <2>2. /\ C \in State /\ C.srv = P.srv /\ DocsKept(P, C)
        /\ \A e \in Doc \ {d} : C.doc[e] = P.doc[e]
        /\ C.doc[d].cachedFt = LspServerGetFt(P, d) /\ C.doc[d].changed = P.doc[d].changed
        /\ LspServerGetFt(C, d) = LspServerGetFt(P, d)
    BY <2>1, CacheSets DEF C
  <2>3. Sound(C, {})
    BY CacheSound DEF C
  <2> QED
    BY <2>1, <2>2, <2>3 DEF OpensKept
<1>2. Q = IF LspServerGetIfRunning(C, d) # f THEN C
          ELSE IF d = current THEN V ELSE IF C.doc[d].changed THEN O ELSE C
  BY DEF Visit
<1> HIDE DEF C, Q
<1>3. C.doc[d].valid /\ C \in State
  BY <1>1 DEF DocsKept, Sound
<1>4. /\ Sound(V, {}) /\ Kept(C, V)
      /\ LspServerGetIfRunning(C, d) = f => d \in V.srv[f].open
  <2>1. /\ Sound(V, {}) /\ DocsKept(C, V)
        /\ \A e \in Doc \ {d} : V.doc[e] = C.doc[e]
        /\ V.doc[d].cachedFt = LspServerGetFt(C, d) /\ V.doc[d].changed = C.doc[d].changed
        /\ OpensKept(C, V)
        /\ \A g \in Filetype : /\ V.srv[g].state = "ready" <=> C.srv[g].state = "ready"
                               /\ LspServerGetIfRunning(C, d) = g => d \in V.srv[g].open
    BY <1>1, <1>3, VisibleSound
  <2> QED
    BY <2>1
<1>5. LspServerGetIfRunning(C, d) = f => Sound(O, {}) /\ Kept(C, O) /\ d \in O.srv[f].open
  <2> SUFFICES ASSUME LspServerGetIfRunning(C, d) = f
               PROVE  Sound(O, {}) /\ Kept(C, O) /\ d \in O.srv[f].open
    OBVIOUS
  <2>1. C.doc[d].cachedFt = LspServerGetFt(C, d)
    BY <1>1
  <2>2. C.doc[d].cachedFt = f
    BY <1>3, <2>1, RunningAt
  <2> HIDE DEF O
  <2>3. /\ Sound(O, {}) /\ O.doc = C.doc /\ d \in O.srv[f].open
        /\ \A g \in Filetype : O.srv[g].state = C.srv[g].state
        /\ OpensKept(C, O)
    BY <1>1, <1>3, <2>2, DidOpenSound DEF O
  <2> QED
    BY <2>1, <2>3 DEF DocsKept
<1> HIDE DEF V, O
<1>6. SameServers(P, C)
  BY <1>1, <1>3, ServersStay
<1>7. Sound(Q, {}) /\ (Q = C \/ Kept(C, Q))
  BY <1>1, <1>2, <1>4, <1>5
<1>8. Kept(P, Q)
  BY <1>1, <1>7 DEF DocsKept, OpensKept
<1>9. SameServers(P, Q)
  <2>1. Q \in State
    BY <1>7 DEF Sound
  <2> QED
    BY <1>1, <1>8, <2>1, ServersStay
<1>10. ChangesKept(P, Q) /\ NoneReady(P, Q)
  BY <1>8 DEF ChangesKept, NoneReady
<1>11. Wanted(P, f, d) => d \in Q.srv[f].open
  BY <1>1, <1>2, <1>4, <1>5, <1>6 DEF Wanted, SameServers
<1> QED
  BY <1>7, <1>8, <1>9, <1>10, <1>11 DEF Q

LEMMA InitializedSound ==
  ASSUME LspSyncAssumption, NEW P, Sound(P, {}), NEW f \in Filetype, NEW order,
         Len(order) \in Nat, \A i \in 1..Len(order) : order[i] \in Doc /\ P.doc[order[i]].valid
  PROVE  LET Q == OnServerInitialized(P, f, order) IN
         /\ Sound(Q, {}) /\ DocsKept(P, Q) /\ ChangesKept(P, Q)
         /\ NoneReady(P, Q) /\ SameServers(P, Q)
         /\ RoomForAll => \A i \in 1..Len(order) :
                             Wanted(P, f, order[i]) => order[i] \in Q.srv[f].open
<1> DEFINE N == Len(order)
           Step(g, n) == IF n = 0 THEN P ELSE Visit(g[n - 1], f, order[n])
           visited == CHOOSE g : g = [n \in 0..N |-> Step(g, n)]
           Fine(X) == /\ Sound(X, {}) /\ DocsKept(P, X) /\ ChangesKept(P, X)
                      /\ NoneReady(P, X) /\ SameServers(P, X)
           Opened(X, n) == RoomForAll => \A i \in 1..n :
                             Wanted(P, f, order[i]) => order[i] \in X.srv[f].open
           Good(g, n) == /\ g = [i \in 0..n |-> g[i]]
                         /\ \A i \in 0..n : Fine(g[i]) /\ g[i] = Step(g, i)
           T == {n \in 0..N : \E g : Good(g, n)}
           U == {n \in 0..N : Fine(visited[n]) /\ Opened(visited[n], n)}
<1>1. OnServerInitialized(P, f, order) = visited[N]
  BY DEF OnServerInitialized
<1>2. Fine(P)
  BY DEF DocsKept, ChangesKept, NoneReady, SameServers
<1>3. ASSUME NEW X, Fine(X), NEW i \in 1..N
      PROVE  /\ Fine(Visit(X, f, order[i])) /\ OpensKept(X, Visit(X, f, order[i]))
             /\ Wanted(P, f, order[i]) => order[i] \in Visit(X, f, order[i]).srv[f].open
  <2> DEFINE Y == Visit(X, f, order[i])
  <2>1. order[i] \in Doc /\ X.doc[order[i]].valid
    BY <1>3 DEF DocsKept
  <2>2. /\ Sound(Y, {}) /\ DocsKept(X, Y) /\ ChangesKept(X, Y)
        /\ NoneReady(X, Y) /\ SameServers(X, Y) /\ OpensKept(X, Y)
        /\ Wanted(X, f, order[i]) => order[i] \in Y.srv[f].open
    BY <1>3, <2>1, VisitSound
  <2> HIDE DEF Y
  <2>3. Wanted(P, f, order[i]) => Wanted(X, f, order[i])
    BY <1>3, <2>1 DEF Wanted, SameServers, ChangesKept
  <2>4. DocsKept(P, Y) /\ ChangesKept(P, Y) /\ NoneReady(P, Y) /\ SameServers(P, Y)
    <3>1. DocsKept(P, Y)
      BY <1>3, <2>2 DEF DocsKept
    <3>2. ChangesKept(P, Y) /\ NoneReady(P, Y)
      BY <1>3, <2>2 DEF ChangesKept, NoneReady
    <3>3. SameServers(P, Y)
      BY <1>3, <2>2 DEF SameServers
    <3> QED
      BY <3>1, <3>2, <3>3
  <2> QED
    BY <2>2, <2>3, <2>4 DEF Y
<1> HIDE DEF Fine
<1>4. T = 0..N
  <2>1. 0 \in T
    <3> DEFINE g == [i \in 0..0 |-> P]
    <3>1. Good(g, 0)
      BY <1>2
    <3>2. 0 \in 0..N
      OBVIOUS
    <3> HIDE DEF g, Good
    <3> QED
      BY <3>1, <3>2
  <2>2. ASSUME NEW n \in T, n < N
        PROVE  n + 1 \in T
    <3>1. PICK g : Good(g, n)
      OBVIOUS
    <3> DEFINE k == [i \in 0..(n + 1) |-> IF i = n + 1 THEN Visit(g[n], f, order[n + 1]) ELSE g[i]]
    <3>2. n \in 0..N /\ n + 1 \in 1..N /\ n + 1 \in 0..N /\ n \in 0..n /\ (n + 1) - 1 = n /\ n + 1 # 0
      BY <2>2
    <3>3. ASSUME NEW i \in 0..(n + 1)
          PROVE  Fine(k[i]) /\ k[i] = Step(k, i)
      <4>1. CASE i = n + 1
        <5>1. k[i] = Visit(g[n], f, order[n + 1]) /\ k[n] = g[n] /\ Fine(g[n])
          <6>1. Fine(g[n])
            BY <3>1, <3>2
          <6>2. n \in 0..(n + 1) /\ n # n + 1
            BY <3>2
          <6>3. k[n] = g[n]
            BY <6>2
          <6>4. k[i] = Visit(g[n], f, order[n + 1])
            BY <4>1
          <6> QED
            BY <6>1, <6>3, <6>4
        <5>2. Fine(k[i])
          BY <1>3, <3>2, <5>1
        <5> QED
          BY <3>2, <4>1, <5>1, <5>2
      <4>2. CASE i # n + 1
        <5>1. i \in 0..n /\ (i # 0 => i - 1 \in 0..n)
          BY <3>2, <4>2
        <5>2. k[i] = g[i] /\ (i # 0 => k[i - 1] = g[i - 1])
          BY <3>2, <4>2, <5>1
        <5> QED
          BY <3>1, <5>1, <5>2
      <4> QED
        BY <4>1, <4>2
    <3>4. k = [i \in 0..(n + 1) |-> k[i]]
      OBVIOUS
    <3>5. Good(k, n + 1)
      BY <3>3, <3>4
    <3> QED
      BY <3>2, <3>5
  <2>3. T \in SUBSET (0..N) /\ N \in Nat
    OBVIOUS
  <2> HIDE DEF T
  <2> QED
    BY <2>1, <2>2, <2>3, UpTo
<1>5. visited = [n \in 0..N |-> Step(visited, n)]
  <2>1. N \in 0..N
    OBVIOUS
  <2>2. PICK g : Good(g, N)
    BY <1>4, <2>1
  <2>3. g = [n \in 0..N |-> Step(g, n)]
    BY <2>2
  <2> QED
    BY <2>3
<1>6. U = 0..N
  <2> HIDE DEF visited
  <2>1. 0 \in U
    BY <1>2, <1>5
  <2>2. ASSUME NEW n \in U, n < N
        PROVE  n + 1 \in U
    <3>1. n \in 0..N /\ n + 1 \in 1..N /\ n + 1 \in 0..N /\ (n + 1) - 1 = n /\ n + 1 # 0
      BY <2>2
    <3>2. visited[n + 1] = Visit(visited[n], f, order[n + 1])
      BY <1>5, <3>1
    <3> DEFINE X == visited[n]
               Y == visited[n + 1]
    <3>3. Fine(X) /\ Opened(X, n)
      BY <2>2
    <3>4. /\ Fine(Y) /\ OpensKept(X, Y)
          /\ Wanted(P, f, order[n + 1]) => order[n + 1] \in Y.srv[f].open
      BY <1>3, <3>1, <3>2, <3>3
    <3> HIDE DEF X, Y
    <3>5. \A i \in 1..(n + 1) : i \in 1..n \/ i = n + 1
      BY <3>1
    <3>6. Opened(Y, n + 1)
      BY <3>3, <3>4, <3>5 DEF OpensKept
    <3> QED
      BY <3>1, <3>4, <3>6 DEF Y
  <2>3. U \in SUBSET (0..N) /\ N \in Nat
    OBVIOUS
  <2> HIDE DEF U
  <2> QED
    BY <2>1, <2>2, <2>3, UpTo
<1>7. N \in U
  BY <1>6
<1> HIDE DEF visited
<1>8. Fine(visited[N]) /\ Opened(visited[N], N)
  BY <1>7
<1> QED
  BY <1>1, <1>8 DEF Fine

-------------------------------------------------------------------------------
(* The steps                                                                 *)

LEMMA Becomes ==
  ASSUME NEW P \in State, Become(P)
  PROVE  Plugin' = P
BY InState DEF Become, Plugin

(* No server comes to run in this step.                                      *)
NoneComesReady ==
  \A g \in Filetype : srv'[g].state = "ready" => srv[g].state = "ready"

(* Every step but Init ends like this.                                       *)
LEMMA SoundAfter ==
  ASSUME NEW P, Sound(P, {}), Become(P),
         current' # NULL => current' \in Doc /\ P.doc[current'].valid
  PROVE  SyncIInv' /\ (NoneReady(Plugin, P) => NoneComesReady)
<1>1. Plugin' = P
  BY Becomes DEF Sound
<1>2. doc' = P.doc
  BY DEF Become
<1>3. CurrentValid'
  BY <1>2 DEF CurrentValid
<1>4. Sound(P, {}) <=> Sound(Plugin, {})'
  BY <1>1
<1>5. NoneReady(Plugin, P) => NoneComesReady
  BY DEF Become, NoneReady, NoneComesReady, Plugin
<1> QED
  BY <1>3, <1>4, <1>5 DEF SyncIInv

LEMMA ClosedDocument ==
  ASSUME LspSyncAssumption, NEW p \in Path \cup {NULL}
  PROVE  LET x == [Closed EXCEPT !.valid = TRUE, !.path = p] IN
         /\ Closed \in Document /\ ~Closed.valid /\ x \in Document
         /\ x.valid /\ x.path = p /\ x.cachedFt = NULL
<1>1. <<>> \in Text
  <2>1. <<>> \in Seq(Char) /\ Len(<<>>) = 0
    OBVIOUS
  <2>2. MaxLen \in Nat /\ 0 <= MaxLen
    BY DEF LspSyncAssumption
  <2> QED
    BY <2>1, <2>2, Bounded DEF Text
<1> QED
  BY <1>1 DEF Closed, Document, LspSyncAssumption

LEMMA InitSound ==
  ASSUME LspSyncAssumption, Init
  PROVE  SyncIInv
<1>1. /\ Plugin.doc = [d \in Doc |-> Closed] /\ Plugin.loaded = FALSE
      /\ Plugin.srv = [f \in Filetype |-> NewServer] /\ Plugin.misuse = {}
  BY DEF Init, Plugin
<1>2. Closed \in Document /\ ~Closed.valid
  BY ClosedDocument
<1>3. Plugin \in State
  <2>1. Plugin.doc \in [Doc -> Document] /\ Plugin.srv \in [Filetype -> Server]
    BY <1>1, <1>2, ServerIsNew
  <2> QED
    BY <1>1, <2>1 DEF Plugin, State
<1>4. \A f \in Filetype : /\ Plugin.srv[f].open = {} /\ Plugin.srv[f].mru = <<>>
                          /\ DOMAIN Plugin.srv[f].copy = {}
  BY <1>1 DEF NewServer
<1>5. \A d \in Doc : ~Plugin.doc[d].valid
  BY <1>1, <1>2
<1> HIDE DEF Plugin
<1>6. PathsApart(Plugin) /\ OpenSound(Plugin)
  BY <1>4, <1>5 DEF PathsApart, OpenSound
<1>7. \A d \in Doc \ {} : OpenCached(Plugin, d) /\ (Plugin.doc[d].valid => CacheFits(Plugin, d))
  BY <1>4, <1>5 DEF OpenCached
<1>8. MruIsOpen(Plugin)
  <2>1. IsInjective(<<>>) /\ Range(<<>>) = {}
    BY DEF IsInjective, Range
  <2> QED
    BY <1>4, <2>1 DEF MruIsOpen
<1>9. CopiesFit(Plugin)
  BY <1>4 DEF CopiesFit
<1>10. CurrentValid
  BY DEF CurrentValid, Init
<1> QED
  BY <1>1, <1>3, <1>6, <1>7, <1>8, <1>9, <1>10 DEF Sound, SyncIInv

LEMMA ClosedNowhereOpen ==
  ASSUME NEW P, NEW D, Sound(P, D), NEW d \in Doc, ~P.doc[d].valid
  PROVE  \A g \in Filetype : d \notin P.srv[g].open
BY DEF Sound, OpenSound

LEMMA OpenStep ==
  ASSUME LspSyncAssumption, SyncIInv, NEW d \in Doc, NEW p \in Path \cup {NULL},
         NEW f \in Filetype, NEW shown \in BOOLEAN, Open(d, p, f, shown)
  PROVE  SyncIInv' /\ NoneComesReady
<1> DEFINE x == [Closed EXCEPT !.valid = TRUE, !.path = p]
           N == WithDocument(Plugin, d, x)
           P == SetTo(N, d, f)
           V == OnDocumentVisible(P, d)
<1>1. /\ d \notin Valid /\ p \notin PathsInUse \ {NULL}
      /\ current' = IF shown THEN d ELSE current
      /\ Become(IF shown THEN V ELSE P)
  <2>1. N = [Plugin EXCEPT !.doc[d] = x]
    BY DEF WithDocument
  <2> QED
    BY <2>1 DEF Open
<1>2. /\ Sound(Plugin, {}) /\ CurrentValid /\ Plugin.doc = doc
  BY DEF SyncIInv, Plugin
<1>3. ~doc[d].valid /\ \A g \in Filetype : d \notin Plugin.srv[g].open
  <2>1. ~doc[d].valid
    BY <1>1 DEF Valid
  <2> QED
    BY <1>2, <2>1, ClosedNowhereOpen
<1>4. x \in Document /\ x.valid /\ x.path = p /\ x.cachedFt = NULL
  BY ClosedDocument
<1> HIDE DEF x
<1>5. /\ Sound(N, {}) /\ NoneReady(Plugin, N)
      /\ N.doc[d] = x /\ \A e \in Doc \ {d} : N.doc[e] = doc[e]
  <2>1. x.path # NULL => \A e \in Doc \ {d} : Plugin.doc[e].valid => Plugin.doc[e].path # x.path
    BY <1>1, <1>2, <1>4 DEF PathsInUse, Valid
  <2>2. Fits(x)
    BY <1>4 DEF Fits
  <2> QED
    BY <1>2, <1>3, <1>4, <2>1, <2>2, UnopenedSound DEF NoneReady
<1> HIDE DEF N
<1>6. /\ Sound(P, {}) /\ P.doc[d].valid
      /\ \A e \in Doc \ {d} : P.doc[e] = N.doc[e]
      /\ NoneReady(Plugin, P)
  <2>1. N.doc[d].valid /\ N.doc[d].cachedFt = NULL
    BY <1>4, <1>5
  <2>2. /\ Sound(P, {}) /\ P.doc[d].valid
        /\ \A e \in Doc \ {d} : P.doc[e] = N.doc[e]
        /\ NoneReady(N, P)
    BY <1>5, <2>1, SetToSound
  <2> QED
    BY <1>5, <2>2 DEF NoneReady
<1> HIDE DEF P
<1>7. Sound(V, {}) /\ DocsKept(P, V) /\ NoneReady(Plugin, V)
  BY <1>6, VisibleSound DEF NoneReady
<1> HIDE DEF V
<1>8. V.doc[d].valid /\ \A e \in Doc \ {d} : P.doc[e] = doc[e] /\ V.doc[e].valid = doc[e].valid
  BY <1>5, <1>6, <1>7 DEF DocsKept
<1>9. CASE shown
  BY <1>1, <1>7, <1>8, <1>9, SoundAfter
<1>10. CASE ~shown
  <2>1. current' # NULL => current' \in Doc /\ P.doc[current'].valid
    <3>1. current' # NULL => current' \in Doc \ {d} /\ doc[current'].valid
      BY <1>1, <1>2, <1>3, <1>10 DEF CurrentValid
    <3> QED
      BY <1>8, <3>1
  <2> QED
    BY <1>1, <1>6, <1>10, <2>1, SoundAfter
<1> QED
  BY <1>9, <1>10

LEMMA ActivateStep ==
  ASSUME LspSyncAssumption, SyncIInv, NEW d \in Doc, OnDocumentActivate(d)
  PROVE  SyncIInv' /\ NoneComesReady
<1> DEFINE V == OnDocumentVisible(Plugin, d)
<1>1. Sound(Plugin, {}) /\ Plugin.doc = doc
  BY DEF SyncIInv, Plugin
<1>2. doc[d].valid /\ current' = d /\ Become(V)
  BY DEF OnDocumentActivate, Valid
<1>3. Sound(V, {}) /\ DocsKept(Plugin, V) /\ NoneReady(Plugin, V)
  BY <1>1, <1>2, VisibleSound DEF NoneReady
<1> HIDE DEF V
<1>4. V.doc[d].valid
  BY <1>1, <1>2, <1>3 DEF DocsKept
<1> QED
  BY <1>2, <1>3, <1>4, SoundAfter

LEMMA CloseStep ==
  ASSUME LspSyncAssumption, SyncIInv, NEW d \in Doc, NEW next \in Doc \cup {NULL}, Close(d, next)
  PROVE  SyncIInv' /\ NoneComesReady
<1> DEFINE C == OnDocumentClose(Plugin, d)
           P == WithDocument(C, d, Closed)
           V == OnDocumentVisible(P, next)
<1>1. /\ d \in Valid
      /\ IF d # current THEN next = current
         ELSE next \in (IF Valid = {d} THEN {NULL} ELSE Valid \ {d})
      /\ current' = next
      /\ Become(IF next # current /\ next # NULL THEN V ELSE P)
  <2>1. P = [C EXCEPT !.doc[d] = Closed]
    BY DEF WithDocument
  <2> QED
    BY <2>1 DEF Close
<1>2. Sound(Plugin, {}) /\ Plugin.doc = doc /\ CurrentValid
  BY DEF SyncIInv, Plugin
<1>3. /\ Sound(C, {}) /\ C.doc = doc
      /\ \A g \in Filetype : d \notin C.srv[g].open
      /\ NoneReady(Plugin, C)
  BY <1>2, CloseSound
<1> HIDE DEF C
<1>4. Closed \in Document /\ ~Closed.valid
  BY ClosedDocument
<1>5. /\ Sound(P, {}) /\ \A e \in Doc \ {d} : P.doc[e] = doc[e]
      /\ NoneReady(Plugin, P)
  BY <1>3, <1>4, UnopenedSound DEF NoneReady
<1> HIDE DEF P
<1>6. next # NULL => next \in Doc \ {d} /\ P.doc[next].valid
  <2>1. next # NULL => next \in Doc \ {d} /\ doc[next].valid
    BY <1>1, <1>2 DEF Valid, CurrentValid
  <2> QED
    BY <1>5, <2>1
<1>7. CASE next # current /\ next # NULL
  <2>1. Sound(V, {}) /\ DocsKept(P, V) /\ NoneReady(Plugin, V)
    BY <1>5, <1>6, <1>7, VisibleSound DEF NoneReady
  <2> HIDE DEF V
  <2>2. V.doc[next].valid
    BY <1>6, <1>7, <2>1 DEF DocsKept
  <2> QED
    BY <1>1, <1>6, <1>7, <2>1, <2>2, SoundAfter
<1>8. CASE ~(next # current /\ next # NULL)
  BY <1>1, <1>5, <1>6, <1>8, SoundAfter
<1> QED
  BY <1>7, <1>8

LEMMA SaveStep ==
  ASSUME LspSyncAssumption, SyncIInv, NEW d \in Doc, Save(d)
  PROVE  SyncIInv' /\ NoneComesReady
<1> DEFINE L == LspServerGet(Plugin, d)
           x == [L.doc[d] EXCEPT !.changed = FALSE]
           P == WithDocument(L, d, x)
           S == OnDocumentSave(P, d)
<1>1. d \in Valid /\ Become(S) /\ current' = current
  <2>1. P = [L EXCEPT !.doc[d].changed = FALSE]
    BY DEF WithDocument
  <2> QED
    BY <2>1 DEF Save
<1>2. Sound(Plugin, {}) /\ Plugin.doc = doc /\ CurrentValid
  BY DEF SyncIInv, Plugin
<1>3. Sound(L, {}) /\ DocsKept(Plugin, L) /\ NoneReady(Plugin, L)
  BY <1>2, GetSound DEF NoneReady
<1> HIDE DEF L
<1>4. L \in State /\ L.doc[d] \in Document
  BY <1>3, InState DEF Sound
<1>5. /\ x \in Document /\ x.valid = L.doc[d].valid /\ x.path = L.doc[d].path
      /\ x.ft = L.doc[d].ft /\ x.text = L.doc[d].text /\ x.cachedFt = L.doc[d].cachedFt
  BY <1>4 DEF Document
<1> HIDE DEF x
<1>6. /\ P \in State
      /\ P.srv = L.srv /\ P.loaded = L.loaded /\ P.misuse = L.misuse
      /\ P.doc[d] = x /\ \A e \in Doc \ {d} : P.doc[e] = L.doc[e]
  BY <1>4, <1>5, DocumentSet
<1> HIDE DEF P
<1>7. DocsKept(L, P) /\ \A e \in Doc : P.doc[e].cachedFt = L.doc[e].cachedFt
  BY <1>5, <1>6 DEF DocsKept
<1>8. Sound(P, {})
  <2>1. \A g \in Filetype : ServerKept(L, P, g) /\ (L.srv[g].state = "ready" => P.srv[g].state = "ready")
    BY <1>6 DEF ServerKept
  <2> QED
    BY <1>3, <1>6, <1>7, <2>1, SoundKept
<1>9. P.doc[d].valid
  BY <1>1, <1>2, <1>3, <1>7 DEF Valid, DocsKept
<1>10. Sound(S, {}) /\ DocsKept(P, S) /\ NoneReady(P, S)
  BY <1>8, <1>9, SaveSound
<1> HIDE DEF S
<1>11. \A e \in Doc : S.doc[e].valid = doc[e].valid
  BY <1>2, <1>3, <1>7, <1>10 DEF DocsKept
<1>12. current' # NULL => current' \in Doc /\ S.doc[current'].valid
  BY <1>1, <1>2, <1>11 DEF CurrentValid
<1>13. NoneReady(Plugin, S)
  BY <1>3, <1>6, <1>10 DEF NoneReady
<1> QED
  BY <1>1, <1>10, <1>12, <1>13, SoundAfter

(* While it is saved under another name a document has no path, is open      *)
(* nowhere and keeps a filetype that fits its new path.                      *)
LEMMA SaveAsStep ==
  ASSUME LspSyncAssumption, ~EarlyFiletype, ~Remap, SyncIInv, NEW d \in Doc, NEW p \in Path,
         NEW f \in Filetype, SaveAs(d, p, f)
  PROVE  SyncIInv' /\ NoneComesReady
<1> DEFINE B == OnDocumentBeforeSaveAs(Plugin, d)
           x == [B.doc[d] EXCEPT !.path = NULL]
           P == WithDocument(B, d, x)
           S == SetTo(P, d, f)
           Q == LspServerGet(S, d)
           y == [Q.doc[d] EXCEPT !.path = p, !.changed = FALSE]
           R == WithDocument(Q, d, y)
           W == OnDocumentSave(R, d)
           m == MappingOf(doc[d])
<1>1. /\ d \in Valid /\ p \notin PathsInUse
      /\ f # doc[d].ft => loaded
      /\ m = Mapping[p]
      /\ Become(W) /\ current' = current
  <2>1. P = [B EXCEPT !.doc[d].path = NULL]
    BY DEF WithDocument
  <2>2. R = [Q EXCEPT !.doc[d].path = p, !.doc[d].changed = FALSE]
    BY ZenonT(60) DEF WithDocument
  <2> HIDE DEF P, R
  <2> QED
    BY <2>1, <2>2 DEF SaveAs
<1>2. /\ Sound(Plugin, {}) /\ Plugin.doc = doc /\ Plugin.loaded = loaded /\ CurrentValid
      /\ NULL \notin Filetype
  BY DEF SyncIInv, Plugin, LspSyncAssumption
<1>3. /\ Sound(B, {}) /\ DocsKept(Plugin, B) /\ B.loaded = loaded
      /\ \A e \in Doc \ {d} : B.doc[e] = doc[e]
      /\ B.doc[d].cachedFt = LspServerGetFt(Plugin, d)
      /\ \A g \in Filetype : d \notin B.srv[g].open
      /\ NoneReady(Plugin, B)
  BY <1>2, BeforeSaveAsSound
<1> HIDE DEF B
<1>4. B.doc[d].cachedFt \in {doc[d].ft, m} /\ B.doc[d].cachedFt # NULL
  <2>1. Plugin \in State
    BY <1>2 DEF Sound
  <2>2. LspServerGetFt(Plugin, d) # NULL
    BY <1>2, <2>1, FiletypeOf
  <2>3. B.doc[d].valid /\ B.doc[d].ft = doc[d].ft /\ MappingOf(B.doc[d]) = m
    BY <1>1, <1>2, <1>3 DEF DocsKept, MappingOf, Valid
  <2>4. CacheFits(B, d)
    BY <1>3, <2>3 DEF Sound
  <2> QED
    BY <1>3, <2>2, <2>3, <2>4 DEF CacheFits, Fits, LspServerGetFtImpl, MappingOf
<1>5. B.doc[d] \in Document
  BY <1>3, InState DEF Sound
<1>6. /\ x \in Document /\ x.path = NULL /\ x.valid /\ x.ft = doc[d].ft
      /\ x.cachedFt = B.doc[d].cachedFt
  <2>1. B.doc[d].valid /\ B.doc[d].ft = doc[d].ft
    BY <1>1, <1>2, <1>3 DEF DocsKept, Valid
  <2> QED
    BY <1>5, <2>1 DEF Document
<1> HIDE DEF x, m
<1>7. /\ Sound(P, {d}) /\ P.srv = B.srv /\ P.loaded = loaded
      /\ P.doc[d] = x /\ \A e \in Doc \ {d} : P.doc[e] = doc[e]
  <2>1. /\ Sound(P, {d}) /\ P.srv = B.srv /\ P.loaded = B.loaded
        /\ P.doc[d] = x /\ \A e \in Doc \ {d} : P.doc[e] = B.doc[e]
    BY <1>3, <1>6, UnopenedSound
  <2> HIDE DEF P
  <2> QED
    BY <1>3, <2>1
<1> HIDE DEF P
<1>8. /\ Sound(S, {d})
      /\ \A e \in Doc \ {d} : S.doc[e] = doc[e]
      /\ S.doc[d].valid /\ S.doc[d].path = NULL /\ S.doc[d].ft = f
      /\ S.doc[d].cachedFt \in {f, m} /\ S.doc[d].cachedFt # NULL
      /\ \A g \in Filetype : d \notin S.srv[g].open
      /\ NoneReady(P, S)
  <2>1. CASE f = doc[d].ft
    <3>1. S = P
      BY <1>6, <1>7, <2>1 DEF SetTo
    <3> HIDE DEF S
    <3> QED
      BY <1>3, <1>4, <1>6, <1>7, <2>1, <3>1 DEF NoneReady
  <2>2. CASE f # doc[d].ft
    <3>1. {d} \in SUBSET {d} /\ P.doc[d].valid /\ P.loaded /\ P.doc[d].path = NULL /\ P.doc[d].ft # f
      BY <1>1, <1>6, <1>7, <2>2
    <3>2. \A g \in Filetype : d \notin P.srv[g].open
      BY <1>3, <1>7
    <3>3. /\ Sound(S, {d})
          /\ \A e \in Doc \ {d} : S.doc[e] = P.doc[e]
          /\ S.doc[d].valid /\ S.doc[d].path = NULL /\ S.doc[d].ft = f
          /\ S.doc[d].cachedFt = LspServerGetFtImpl(S.doc[d])
          /\ \A g \in Filetype : d \notin S.srv[g].open
          /\ NoneReady(P, S)
      <4> DEFINE D == {d}
      <4>1. D \in SUBSET {d} /\ D # {} /\ Sound(P, D)
        BY <1>7
      <4>2. D = {} \/ \A g \in Filetype : d \notin P.srv[g].open
        BY <3>2
      <4>3. P.loaded \/ P.doc[d].cachedFt = NULL
        BY <3>1
      <4> HIDE DEF D
      <4>4. /\ Sound(S, D)
            /\ \A e \in Doc \ {d} : S.doc[e] = P.doc[e]
            /\ S.doc[d].valid /\ S.doc[d].path = P.doc[d].path /\ S.doc[d].ft = f
            /\ P.loaded /\ P.doc[d].ft # f => S.doc[d].cachedFt = LspServerGetFtImpl(S.doc[d])
            /\ \A g \in Filetype : D # {} /\ P.doc[d].path = NULL => d \notin S.srv[g].open
            /\ NoneReady(P, S)
        BY <3>1, <4>1, <4>2, <4>3, SetToSound
      <4> HIDE DEF S
      <4> QED
        BY <3>1, <4>1, <4>4 DEF D
    <3> HIDE DEF S
    <3>4. S.doc[d].cachedFt = f
      BY <3>3 DEF LspServerGetFtImpl, MappingOf
    <3> QED
      BY <1>2, <1>7, <3>3, <3>4
  <2> QED
    BY <2>1, <2>2
<1> HIDE DEF S
<1>9. /\ Sound(Q, {d})
      /\ \A e \in Doc \ {d} : Q.doc[e] = doc[e]
      /\ Q.doc[d].valid /\ Q.doc[d].ft = f
      /\ Q.doc[d].cachedFt \in {f, m}
      /\ \A g \in Filetype : d \notin Q.srv[g].open
      /\ NoneReady(S, Q)
  <2>1. /\ Sound(Q, {d}) /\ DocsKept(S, Q)
        /\ \A e \in Doc \ {d} : Q.doc[e] = S.doc[e]
        /\ Q.doc[d].cachedFt = LspServerGetFt(S, d)
        /\ \A g \in Filetype : ServerKept(S, Q, g)
        /\ NoneReady(S, Q)
    BY <1>8, GetSound DEF NoneReady
  <2> HIDE DEF Q
  <2>2. LspServerGetFt(S, d) = S.doc[d].cachedFt
    BY <1>8 DEF LspServerGetFt
  <2> QED
    BY <1>8, <2>1, <2>2 DEF DocsKept, ServerKept
<1> HIDE DEF Q
<1>10. Q.doc[d] \in Document
  BY <1>9, InState DEF Sound
<1>11. /\ y \in Document /\ y.path = p /\ y.valid /\ y.ft = f
       /\ y.cachedFt = Q.doc[d].cachedFt
  BY <1>9, <1>10 DEF Document
<1> HIDE DEF y
<1>12. MappingOf(y) = m
  BY <1>1, <1>11 DEF MappingOf, LspSyncAssumption
<1>13. /\ Sound(R, {}) /\ R.doc[d] = y /\ \A e \in Doc \ {d} : R.doc[e] = doc[e]
       /\ R.srv = Q.srv
  <2>1. \A e \in Doc \ {d} : Q.doc[e].valid => Q.doc[e].path # y.path
    BY <1>1, <1>9, <1>11 DEF PathsInUse, Valid
  <2>2. Fits(y)
    <3>1. y.cachedFt \in {NULL, y.ft, MappingOf(y)}
      BY <1>9, <1>11, <1>12
    <3>2. ASSUME MappedAlone
          PROVE  m = NULL
      <4>1. doc[d].path # p /\ doc[d].path \in Path \cup {NULL}
        <5>1. doc[d] \in Document
          BY <1>2, InState DEF Sound
        <5> QED
          BY <1>1, <5>1 DEF PathsInUse, Document
      <4> QED
        BY <1>1, <3>2, <4>1 DEF MappedAlone, MappingOf, m
    <3>3. m = NULL => LspServerGetFtImpl(y) = y.ft
      BY <1>12 DEF LspServerGetFtImpl
    <3>4. m = NULL => y.cachedFt \in {NULL, y.ft}
      BY <1>9, <1>11
    <3> QED
      BY <3>1, <3>2, <3>3, <3>4 DEF Fits
  <2>3. /\ Sound(R, {}) /\ R.doc[d] = y /\ \A e \in Doc \ {d} : R.doc[e] = Q.doc[e]
        /\ R.srv = Q.srv
    BY <1>9, <1>11, <2>1, <2>2, UnopenedSound
  <2> HIDE DEF R
  <2> QED
    BY <1>9, <2>3
<1> HIDE DEF R
<1>14. Sound(W, {}) /\ DocsKept(R, W) /\ NoneReady(R, W)
  BY <1>11, <1>13, SaveSound
<1> HIDE DEF W
<1>15. \A e \in Doc : W.doc[e].valid = doc[e].valid
  BY <1>1, <1>11, <1>13, <1>14 DEF DocsKept, Valid
<1>16. current' # NULL => current' \in Doc /\ W.doc[current'].valid
  BY <1>1, <1>2, <1>15 DEF CurrentValid
<1>17. NoneReady(Plugin, W)
  BY <1>3, <1>7, <1>8, <1>9, <1>13, <1>14 DEF NoneReady
<1> QED
  BY <1>1, <1>14, <1>16, <1>17, SoundAfter

LEMMA EditStep ==
  ASSUME LspSyncAssumption, SyncIInv, NEW d \in Doc, NEW pos \in Nat, NEW n \in Nat,
         NEW ins \in {<<>>} \cup {<<c>> : c \in Char}, Edit(d, pos, n, ins)
  PROVE  SyncIInv' /\ NoneComesReady
<1> DEFINE Q == OnEditorNotify(Plugin, d, pos, n, ins)
<1>1. /\ d \in Valid /\ pos + n <= Len(doc[d].text)
      /\ IF n = 0 THEN Len(ins) = 1 /\ Len(doc[d].text) < MaxLen ELSE ins = <<>>
      /\ Become(Q) /\ current' = current
  BY DEF Edit
<1>2. Sound(Plugin, {}) /\ Plugin.doc = doc /\ CurrentValid
  BY DEF SyncIInv, Plugin
<1>3. Len(doc[d].text) \in Nat /\ Len(doc[d].text) <= MaxLen /\ MaxLen \in Nat
  <2>1. doc[d] \in Document
    BY <1>2, InState DEF Sound
  <2>2. doc[d].text \in Text /\ MaxLen \in Nat
    BY <2>1 DEF Document, LspSyncAssumption
  <2> QED
    BY <2>2, Bounded DEF Text
<1>4. ins \in Seq(Char) /\ Len(ins) \in Nat
  <2>1. CASE ins = <<>>
    BY <2>1
  <2>2. CASE ins # <<>>
    <3>1. PICK c \in Char : ins = <<c>>
      BY <2>2
    <3>2. <<c>> \in Seq(Char) /\ Len(<<c>>) = 1
      OBVIOUS
    <3> QED
      BY <3>1, <3>2
  <2> QED
    BY <2>1, <2>2
<1>5. Len(doc[d].text) - n + Len(ins) <= MaxLen
  <2>1. CASE n = 0
    <3>1. Len(ins) = 1 /\ Len(doc[d].text) < MaxLen
      BY <1>1, <2>1
    <3> DEFINE k == Len(doc[d].text)
    <3>2. k \in Nat /\ k < MaxLen /\ MaxLen \in Nat
      BY <1>3, <3>1
    <3> HIDE DEF k
    <3>3. k - 0 + 1 <= MaxLen
      BY <3>2
    <3> QED
      BY <2>1, <3>1, <3>3 DEF k
  <2>2. CASE n # 0
    <3>1. Len(ins) = 0
      BY <1>1, <2>2
    <3> QED
      BY <1>3, <3>1
  <2> QED
    BY <2>1, <2>2
<1>6. /\ Sound(Q, {})
      /\ \A e \in Doc \ {d} : Q.doc[e] = doc[e]
      /\ Q.doc[d].valid
      /\ NoneReady(Plugin, Q)
  <2>1. Plugin.doc[d].valid
    BY <1>1, <1>2 DEF Valid
  <2>2. /\ pos + n <= Len(Plugin.doc[d].text)
        /\ Len(Plugin.doc[d].text) - n + Len(ins) <= MaxLen
    BY <1>1, <1>2, <1>5
  <2>3. Sound(Plugin, {}) /\ ins \in Seq(Char)
    BY <1>2, <1>4
  <2> QED
    <3>1. /\ Sound(Q, {})
          /\ \A e \in Doc \ {d} : Q.doc[e] = Plugin.doc[e]
          /\ Q.doc[d].valid
          /\ NoneReady(Plugin, Q)
      BY <2>1, <2>2, <2>3, NotifySound
    <3> HIDE DEF Q
    <3> QED
      BY <1>2, <3>1
<1> HIDE DEF Q
<1>7. current' # NULL => current' \in Doc /\ Q.doc[current'].valid
  BY <1>1, <1>2, <1>6 DEF CurrentValid
<1> QED
  BY <1>1, <1>6, <1>7, SoundAfter

LEMMA SetFiletypeStep ==
  ASSUME LspSyncAssumption, ~EarlyFiletype, SyncIInv, NEW f \in Filetype, SetFiletype(f)
  PROVE  SyncIInv' /\ NoneComesReady
<1> DEFINE Q == SetTo(Plugin, current, f)
<1>1. current # NULL /\ loaded /\ Become(Q) /\ current' = current
  BY DEF SetFiletype
<1>2. Sound(Plugin, {}) /\ Plugin.doc = doc /\ Plugin.loaded = loaded /\ CurrentValid
  BY DEF SyncIInv, Plugin
<1>3. current \in Doc /\ Plugin.doc[current].valid
  BY <1>1, <1>2 DEF CurrentValid
<1>4. Sound(Q, {}) /\ Q.doc[current].valid /\ NoneReady(Plugin, Q)
  BY <1>1, <1>2, <1>3, SetToSound
<1> HIDE DEF Q
<1> QED
  BY <1>1, <1>3, <1>4, SoundAfter

(* What OpenedOnInitialized says of a step.                                  *)
HandshakeOpens ==
  \A f \in Filetype, d \in Doc :
    (/\ srv[f].state = "starting" /\ srv'[f].state = "ready"
     /\ d \in Valid /\ (doc[d].changed \/ d = current)
     /\ (LspServerGetIfRunning(Plugin, d) = f)')
      => d \in srv'[f].open

LEMMA InitializedStep ==
  ASSUME LspSyncAssumption, SyncIInv, NEW f \in HasCmd, NEW order \in SetToSeqs(Valid),
         Initialized(f, order)
  PROVE  SyncIInv' /\ (RoomForAll => HandshakeOpens)
<1> DEFINE s == [Plugin.srv[f] EXCEPT !.state = "ready"]
           P == WithServer(Plugin, f, s)
           Q == OnServerInitialized(P, f, order)
<1>1. srv[f].state = "starting" /\ Become(Q) /\ current' = current
  <2>1. P = [Plugin EXCEPT !.srv[f].state = "ready"]
    BY DEF WithServer
  <2> QED
    BY <2>1 DEF Initialized
<1>2. /\ Sound(Plugin, {}) /\ Plugin \in State /\ Plugin.doc = doc /\ CurrentValid
      /\ f \in Filetype
  BY DEF SyncIInv, Plugin, Sound, LspSyncAssumption
<1>3. Plugin.srv[f] \in Server
  BY <1>2, InState
<1>4. /\ s \in Server /\ s.state = "ready" /\ s.open = Plugin.srv[f].open
      /\ s.mru = Plugin.srv[f].mru /\ s.folders = Plugin.srv[f].folders
      /\ s.copy = Plugin.srv[f].copy
  BY <1>3 DEF Server
<1> HIDE DEF s
<1>5. /\ P \in State
      /\ P.doc = Plugin.doc /\ P.loaded = Plugin.loaded /\ P.misuse = Plugin.misuse
      /\ P.srv[f] = s /\ \A g \in Filetype \ {f} : P.srv[g] = Plugin.srv[g]
  BY <1>2, <1>4, ServerSet
<1> HIDE DEF P
<1>6. Sound(P, {})
  <2>1. \A g \in Filetype : /\ ServerKept(Plugin, P, g)
                            /\ Plugin.srv[g].state = "ready" => P.srv[g].state = "ready"
    BY <1>4, <1>5 DEF ServerKept
  <2>2. DocsKept(Plugin, P)
    BY <1>5 DEF DocsKept
  <2> QED
    BY <1>2, <1>5, <2>1, <2>2, SoundKept
<1>7. Len(order) \in Nat /\ \A i \in 1..Len(order) : order[i] \in Valid
  <2>1. Valid \subseteq Doc
    BY DEF Valid
  <2>2. Cardinality(Valid) \in Nat
    <3>1. IsFiniteSet(Doc)
      BY DEF LspSyncAssumption
    <3>2. IsFiniteSet(Valid)
      BY <2>1, <3>1, FS_Subset
    <3> QED
      BY <3>2, FS_CardinalityType
  <2>3. order \in [1..Cardinality(Valid) -> Valid]
    BY DEF SetToSeqs
  <2> DEFINE k == Cardinality(Valid)
  <2> HIDE DEF k
  <2>4. order \in Seq(Valid) /\ Len(order) = k
    BY <2>2, <2>3 DEF k
  <2> QED
    BY <2>4
<1>each. \A d \in Valid : \E i \in 1..Len(order) : order[i] = d
  <2> DEFINE k == Cardinality(Valid)
  <2>1. IsFiniteSet(Valid) /\ k \in Nat
    <3>1. IsFiniteSet(Doc) /\ Valid \in SUBSET Doc
      BY DEF LspSyncAssumption, Valid
    <3> QED
      BY <3>1, FS_Subset, FS_CardinalityType
  <2>2. order \in Injection(1..k, Valid)
    BY DEF SetToSeqs, Injection, IsInjective
  <2>3. Cardinality(1..k) = k
    BY <2>1, FS_Interval
  <2>4. order \in Surjection(1..k, Valid)
    BY <2>1, <2>2, <2>3, FS_Injection
  <2> HIDE DEF k
  <2>5. order \in Seq(Valid) /\ Len(order) = k
    BY <2>1, <2>4 DEF Surjection
  <2> QED
    BY <2>4, <2>5 DEF Surjection
<1>8. \A i \in 1..Len(order) : order[i] \in Doc /\ P.doc[order[i]].valid
  BY <1>2, <1>5, <1>7 DEF Valid
<1>9. /\ Sound(Q, {}) /\ DocsKept(P, Q) /\ NoneReady(P, Q) /\ SameServers(P, Q)
      /\ RoomForAll => \A i \in 1..Len(order) :
                          Wanted(P, f, order[i]) => order[i] \in Q.srv[f].open
  BY <1>2, <1>6, <1>7, <1>8, InitializedSound
<1> HIDE DEF Q
<1>10. current' # NULL => current' \in Doc /\ Q.doc[current'].valid
  BY <1>1, <1>2, <1>5, <1>9 DEF CurrentValid, DocsKept
<1>11. RoomForAll => HandshakeOpens
  <2> SUFFICES ASSUME RoomForAll, NEW g \in Filetype, NEW d \in Doc,
                      srv[g].state = "starting", srv'[g].state = "ready",
                      d \in Valid, doc[d].changed \/ d = current,
                      (LspServerGetIfRunning(Plugin, d) = g)'
               PROVE  d \in srv'[g].open
    BY DEF HandshakeOpens
  <2>1. Plugin' = Q /\ srv' = Q.srv
    BY <1>1, <1>9, Becomes DEF Sound, Become
  <2>2. g = f
    BY <1>5, <1>9, <2>1 DEF NoneReady, Plugin
  <2>3. LspServerGetIfRunning(Q, d) = f
    BY <2>1, <2>2
  <2>4. Wanted(P, f, d)
    BY <1>2, <1>5, <1>9, <2>3 DEF Wanted, SameServers
  <2>5. PICK i \in 1..Len(order) : order[i] = d
    BY <1>each
  <2> QED
    BY <1>9, <2>1, <2>2, <2>4, <2>5
<1> QED
  BY <1>1, <1>9, <1>10, <1>11, SoundAfter

LEMMA CrashStep ==
  ASSUME LspSyncAssumption, SyncIInv, NEW f \in HasCmd, NEW state \in {"starting", "dead"},
         Crash(f, state)
  PROVE  SyncIInv' /\ NoneComesReady
<1> DEFINE s == [NewServer EXCEPT !.state = state]
           Q == WithServer(Plugin, f, s)
<1>1. /\ srv' = [srv EXCEPT ![f] = s] /\ doc' = doc /\ current' = current /\ loaded' = loaded
      /\ misuse' = misuse
  BY DEF Crash
<1>2. /\ Sound(Plugin, {}) /\ Plugin \in State /\ Plugin.doc = doc /\ CurrentValid
      /\ f \in Filetype
  BY DEF SyncIInv, Plugin, Sound, LspSyncAssumption
<1>3. s \in Server /\ s.open = {} /\ s.mru = <<>> /\ DOMAIN s.copy = {} /\ s.state # "ready"
  <2>1. NewServer \in Server /\ NewServer.open = {} /\ NewServer.mru = <<>>
        /\ DOMAIN NewServer.copy = {}
    BY ServerIsNew DEF NewServer
  <2> QED
    BY <2>1 DEF Server
<1> HIDE DEF s
<1>4. /\ Q \in State
      /\ Q.doc = doc /\ Q.loaded = Plugin.loaded /\ Q.misuse = Plugin.misuse
      /\ Q.srv[f] = s /\ \A g \in Filetype \ {f} : Q.srv[g] = Plugin.srv[g]
  BY <1>2, <1>3, ServerSet
<1>5. Become(Q)
  BY <1>1 DEF Become, WithServer, Plugin
<1> HIDE DEF Q
<1>6. Sound(Q, {})
  <2>1. DocsKept(Plugin, Q)
    BY <1>2, <1>4 DEF DocsKept
  <2>2. \A g \in Filetype \ {f} : Q.srv[g] = Plugin.srv[g]
    BY <1>4
  <2>3. \A g \in {f} : Q.srv[g].open = {} /\ Q.srv[g].mru = <<>> /\ DOMAIN Q.srv[g].copy = {}
    BY <1>3, <1>4
  <2>4. \A d \in Doc : Q.doc[d].cachedFt = Plugin.doc[d].cachedFt
    BY <1>2, <1>4
  <2> DEFINE F == {f}
  <2>5. \A g \in Filetype \ F : Q.srv[g] = Plugin.srv[g]
    BY <2>2
  <2>6. \A g \in F : Q.srv[g].open = {} /\ Q.srv[g].mru = <<>> /\ DOMAIN Q.srv[g].copy = {}
    BY <2>3
  <2>7. \A d \in Doc : \/ Q.doc[d].cachedFt = Plugin.doc[d].cachedFt
                       \/ F = Filetype /\ Q.doc[d].cachedFt = NULL
    BY <2>4
  <2>8. Sound(Plugin, {}) /\ Q \in State /\ Q.misuse = Plugin.misuse
    BY <1>2, <1>4
  <2> HIDE DEF F
  <2> QED
    BY <2>1, <2>5, <2>6, <2>7, <2>8, EmptiedSound
<1>7. current' # NULL => current' \in Doc /\ Q.doc[current'].valid
  BY <1>1, <1>2, <1>4 DEF CurrentValid
<1>8. NoneReady(Plugin, Q)
  BY <1>3, <1>4 DEF NoneReady
<1> QED
  BY <1>5, <1>6, <1>7, <1>8, SoundAfter

LEMMA ReconfigureStep ==
  ASSUME LspSyncAssumption, SyncIInv, Reconfigure
  PROVE  SyncIInv' /\ NoneComesReady
<1> DEFINE Q == StopAndInitAllServers(Plugin)
<1>1. Become(Q) /\ current' = current
  BY DEF Reconfigure
<1>2. Sound(Plugin, {}) /\ Plugin.doc = doc /\ CurrentValid
  BY DEF SyncIInv, Plugin
<1>3. Sound(Q, {}) /\ DocsKept(Plugin, Q) /\ NoneReady(Plugin, Q)
  BY <1>2, StopAndInitSound
<1> HIDE DEF Q
<1>4. current' # NULL => current' \in Doc /\ Q.doc[current'].valid
  BY <1>1, <1>2, <1>3 DEF CurrentValid, DocsKept
<1> QED
  BY <1>1, <1>3, <1>4, SoundAfter

LEMMA RestartAllStep ==
  ASSUME LspSyncAssumption, SyncIInv, RestartAllServers
  PROVE  SyncIInv' /\ NoneComesReady
<1> DEFINE Q == StopAndInitAllServers(Plugin)
           V == OnDocumentVisible(Q, current)
<1>1. current # NULL /\ Become(V) /\ current' = current
  BY DEF RestartAllServers
<1>2. Sound(Plugin, {}) /\ Plugin.doc = doc /\ CurrentValid
  BY DEF SyncIInv, Plugin
<1>3. Sound(Q, {}) /\ DocsKept(Plugin, Q) /\ NoneReady(Plugin, Q)
  BY <1>2, StopAndInitSound
<1> HIDE DEF Q
<1>4. current \in Doc /\ Q.doc[current].valid
  BY <1>1, <1>2, <1>3 DEF CurrentValid, DocsKept
<1>5. Sound(V, {}) /\ DocsKept(Q, V) /\ NoneReady(Plugin, V)
  BY <1>3, <1>4, VisibleSound DEF NoneReady
<1> HIDE DEF V
<1>6. V.doc[current].valid
  BY <1>4, <1>5 DEF DocsKept
<1> QED
  BY <1>1, <1>4, <1>5, <1>6, SoundAfter

(* Every step keeps the invariant.                                           *)
LEMMA NextSound ==
  ASSUME LspSyncAssumption, ~EarlyFiletype, ~Remap, SyncIInv, [Next]_vars
  PROVE  SyncIInv'
<1>1. ASSUME NEW d \in Doc, NEW p \in Path \cup {NULL}, NEW f \in Filetype,
             NEW shown \in BOOLEAN, Open(d, p, f, shown)
      PROVE  SyncIInv'
  BY <1>1, OpenStep
<1>2. ASSUME NEW d \in Doc, OnDocumentActivate(d)
      PROVE  SyncIInv'
  BY <1>2, ActivateStep
<1>3. ASSUME NEW d \in Doc, Save(d)
      PROVE  SyncIInv'
  BY <1>3, SaveStep
<1>4. ASSUME NEW d \in Doc, NEW next \in Doc \cup {NULL}, Close(d, next)
      PROVE  SyncIInv'
  BY <1>4, CloseStep
<1>5. ASSUME NEW d \in Doc, NEW p \in Path, NEW f \in Filetype, SaveAs(d, p, f)
      PROVE  SyncIInv'
  BY <1>5, SaveAsStep
<1>6. ASSUME NEW d \in Doc, NEW pos \in 0..MaxLen, NEW n \in 0..MaxLen,
             NEW ins \in {<<>>} \cup {<<c>> : c \in Char}, Edit(d, pos, n, ins)
      PROVE  SyncIInv'
  <2>1. pos \in Nat /\ n \in Nat
    OBVIOUS
  <2> QED
    BY <1>6, <2>1, EditStep
<1>7. ASSUME NEW f \in Filetype, SetFiletype(f)
      PROVE  SyncIInv'
  BY <1>7, SetFiletypeStep
<1>8. ASSUME NEW f \in HasCmd, NEW order \in SetToSeqs(Valid), Initialized(f, order)
      PROVE  SyncIInv'
  BY <1>8, InitializedStep
<1>9. ASSUME NEW f \in HasCmd, NEW state \in {"starting", "dead"}, Crash(f, state)
      PROVE  SyncIInv'
  BY <1>9, CrashStep
<1>10. CASE Reconfigure
  BY <1>10, ReconfigureStep
<1>11. CASE RestartAllServers
  BY <1>11, RestartAllStep
<1>12. CASE UNCHANGED vars
  <2>1. Plugin' = Plugin /\ doc' = doc /\ current' = current
    BY <1>12 DEF vars, Plugin
  <2>2. Sound(Plugin, {}) <=> Sound(Plugin, {})'
    BY <2>1
  <2>3. CurrentValid <=> CurrentValid'
    BY <2>1 DEF CurrentValid
  <2> QED
    BY <2>2, <2>3 DEF SyncIInv
<1> QED
  BY <1>1, <1>2, <1>3, <1>4, <1>5, <1>6, <1>7, <1>8, <1>9, <1>10, <1>11, <1>12 DEF Next

(* A step in which no server comes to run says nothing of a handshake.       *)
LEMMA NextHandshake ==
  ASSUME LspSyncAssumption, ~EarlyFiletype, ~Remap, RoomForAll, SyncIInv, [Next]_vars
  PROVE  [HandshakeOpens]_vars
<1> SUFFICES ASSUME Next
             PROVE  HandshakeOpens
  OBVIOUS
<1>1. NoneComesReady => HandshakeOpens
  BY DEF NoneComesReady, HandshakeOpens
<1>2. ASSUME NEW d \in Doc, NEW pos \in 0..MaxLen, NEW n \in 0..MaxLen,
             NEW ins \in {<<>>} \cup {<<c>> : c \in Char}, Edit(d, pos, n, ins)
      PROVE  NoneComesReady
  <2>1. pos \in Nat /\ n \in Nat
    OBVIOUS
  <2> QED
    BY <1>2, <2>1, EditStep
<1>3. ASSUME NEW f \in HasCmd, NEW order \in SetToSeqs(Valid), Initialized(f, order)
      PROVE  HandshakeOpens
  BY <1>3, InitializedStep
<1>4. ASSUME NEW d \in Doc, NEW p \in Path \cup {NULL}, NEW f \in Filetype,
             NEW shown \in BOOLEAN, Open(d, p, f, shown)
      PROVE  NoneComesReady
  BY <1>4, OpenStep
<1>5. ASSUME NEW d \in Doc, OnDocumentActivate(d) \/ Save(d)
      PROVE  NoneComesReady
  BY <1>5, ActivateStep, SaveStep
<1>6. ASSUME NEW d \in Doc, NEW next \in Doc \cup {NULL}, Close(d, next)
      PROVE  NoneComesReady
  BY <1>6, CloseStep
<1>7. ASSUME NEW d \in Doc, NEW p \in Path, NEW f \in Filetype, SaveAs(d, p, f)
      PROVE  NoneComesReady
  BY <1>7, SaveAsStep
<1>8. ASSUME NEW f \in Filetype, SetFiletype(f)
      PROVE  NoneComesReady
  BY <1>8, SetFiletypeStep
<1>9. ASSUME NEW f \in HasCmd, NEW state \in {"starting", "dead"}, Crash(f, state)
      PROVE  NoneComesReady
  BY <1>9, CrashStep
<1>10. CASE Reconfigure \/ RestartAllServers
  BY <1>1, <1>10, ReconfigureStep, RestartAllStep
<1> QED
  BY <1>1, <1>2, <1>3, <1>4, <1>5, <1>6, <1>7, <1>8, <1>9, <1>10 DEF Next

(* The invariant the others follow from.                                     *)
THEOREM SyncInvariant ==
  ASSUME ~EarlyFiletype, ~Remap
  PROVE  Spec => []SyncIInv
<1>1. Init => SyncIInv
  BY InitSound, LspSyncAssumption
<1>2. SyncIInv /\ [Next]_vars => SyncIInv'
  BY NextSound, LspSyncAssumption
<1> QED
  BY <1>1, <1>2, PTL DEF Spec

(* No server is told of an opening twice, or of a change, a closing or a     *)
(* saving of a document it does not have, whatever the user and the servers  *)
(* do (lsp-sync.c, the document handlers of lsp-main.c).                     *)
THEOREM NothingMisused ==
  ASSUME ~EarlyFiletype, ~Remap
  PROVE  Spec => []NoMisuse
<1>1. SyncIInv => NoMisuse
  BY DEF SyncIInv, Sound, NoMisuse, Plugin
<1> QED
  BY <1>1, SyncInvariant, PTL

(* A server's copy of every document open there is the text in the editor,   *)
(* and it has no other copies (lsp_sync_text_document_did_open, _did_change, *)
(* _did_close).                                                              *)
THEOREM CopiesInStep ==
  ASSUME ~EarlyFiletype, ~Remap
  PROVE  Spec => []ServerInStep
<1>1. SyncIInv => ServerInStep
  BY DEF SyncIInv, Sound, CopiesFit, ServerInStep, Plugin
<1> QED
  BY <1>1, SyncInvariant, PTL

(* A server knows the workspace folder of every document open there          *)
(* (lsp_workspace_folders_doc_open, _doc_closed).                            *)
THEOREM FoldersKnown ==
  ASSUME ~EarlyFiletype, ~Remap
  PROVE  Spec => []FoldersCoverOpen
<1>1. SyncIInv => FoldersCoverOpen
  BY DEF SyncIInv, Sound, OpenSound, FoldersCoverOpen, Plugin
<1> QED
  BY <1>1, SyncInvariant, PTL

(* open_docs and mru_docs hold the same documents, MRU_SIZE at most, each    *)
(* once, none of them closed or open at another server (lsp-sync.c).         *)
THEOREM OpenAndRecent ==
  ASSUME ~EarlyFiletype, ~Remap
  PROVE  Spec => []NothingDangling
<1> SUFFICES ASSUME SyncIInv
             PROVE  NothingDangling
  <2>1. SyncIInv => NothingDangling
    OBVIOUS
  <2> QED
    BY <2>1, SyncInvariant, PTL
<1>1. /\ Plugin \in State /\ CurrentValid
      /\ Plugin.doc = doc /\ Plugin.srv = srv /\ Plugin.loaded = loaded /\ Plugin.misuse = misuse
      /\ OpenSound(Plugin) /\ MruIsOpen(Plugin)
  BY DEF SyncIInv, Sound, Plugin
<1>2. ASSUME NEW f \in Filetype
      PROVE  srv[f] \in Server
  BY <1>1, InState
<1>3. TypeOK
  <2>1. /\ doc \in [Doc -> Document] /\ loaded \in BOOLEAN
        /\ misuse \subseteq {"didOpen", "didChange", "didClose", "didSave"} \X Filetype
    BY <1>1 DEF State
  <2>2. current \in Doc \cup {NULL}
    BY <1>1 DEF CurrentValid
  <2>3. ASSUME NEW f \in Filetype
        PROVE  /\ srv[f].state \in {"idle", "starting", "ready", "dead"}
               /\ srv[f].open \subseteq Doc /\ srv[f].mru \in BoundedSeq(Doc, MRUSize)
               /\ srv[f].folders \subseteq {Root[p] : p \in Path} \ {NULL}
               /\ DOMAIN srv[f].copy \subseteq Path
    <3>1. /\ srv[f].state \in {"idle", "starting", "ready", "dead"}
          /\ srv[f].open \subseteq Doc /\ srv[f].mru \in BoundedSeq(Doc, MRUSize)
          /\ srv[f].folders \subseteq Folder /\ srv[f].copy \in Copy
      BY <1>2 DEF Server
    <3>2. DOMAIN srv[f].copy \subseteq Path
      BY <3>1 DEF Copy
    <3> QED
      BY <3>1, <3>2 DEF Folder
  <2> QED
    BY <2>1, <2>2, <2>3 DEF TypeOK, Document
<1>4. ASSUME NEW f \in Filetype
      PROVE  /\ srv[f].open \subseteq Valid
             /\ Range(srv[f].mru) = srv[f].open /\ Len(srv[f].mru) = Cardinality(srv[f].open)
             /\ Len(srv[f].mru) <= MRUSize
             /\ \A g \in Filetype \ {f} : srv[f].open \cap srv[g].open = {}
  <2>1. srv[f].mru \in BoundedSeq(Doc, MRUSize) /\ srv[f].open \subseteq Doc
    BY <1>2 DEF Server
  <2>2. srv[f].mru \in Seq(Doc) /\ Len(srv[f].mru) <= MRUSize
    BY <2>1, Bounded, LspSyncAssumption
  <2>3. IsInjective(srv[f].mru) /\ Range(srv[f].mru) = srv[f].open
    BY <1>1 DEF MruIsOpen
  <2>4. Len(srv[f].mru) = Cardinality(srv[f].open)
    BY <2>2, <2>3, LengthOfInjective
  <2>5. \A d \in srv[f].open : /\ doc[d].valid
                               /\ \A g \in Filetype \ {f} : d \notin srv[g].open
    BY <1>1 DEF OpenSound
  <2> QED
    BY <2>1, <2>2, <2>3, <2>4, <2>5 DEF Valid
<1> QED
  BY <1>3, <1>4 DEF NothingDangling

(* The server remembered for a document is the one whose patterns match its  *)
(* path, or else that of its filetype (lsp_server_get_ft), if the patterns   *)
(* of a server match one path only.                                          *)
THEOREM RightServer ==
  ASSUME ~EarlyFiletype, ~Remap, MappedAlone
  PROVE  Spec => []CachedServerUsed
<1>1. SyncIInv => CachedServerUsed
  <2> SUFFICES ASSUME SyncIInv, NEW d \in Valid
               PROVE  doc[d].cachedFt \in
                        {NULL, IF MappingOf(doc[d]) # NULL THEN MappingOf(doc[d]) ELSE doc[d].ft}
    BY DEF CachedServerUsed
  <2>1. d \in Doc /\ doc[d].valid /\ Plugin.doc = doc
    BY DEF Valid, Plugin
  <2>2. CacheFits(Plugin, d)
    BY <2>1 DEF SyncIInv, Sound
  <2> QED
    BY <2>1, <2>2 DEF CacheFits, Fits, LspServerGetFtImpl
<1> QED
  BY <1>1, SyncInvariant, PTL

(* After the handshake with a server the current document and the modified   *)
(* ones that use it are open there, whatever else on_server_initialized()    *)
(* opens and in whatever order, if mru_docs has room for all documents: with *)
(* more of them the ones it opens first are closed for the later ones.       *)
THEOREM HandshakeOpensDocuments ==
  ASSUME ~EarlyFiletype, ~Remap, Cardinality(Doc) <= MRUSize
  PROVE  Spec => OpenedOnInitialized
<1>1. SyncIInv /\ [Next]_vars => [HandshakeOpens]_vars
  BY NextHandshake, LspSyncAssumption DEF RoomForAll
<1>2. Spec => [][HandshakeOpens]_vars
  BY <1>1, SyncInvariant, PTL DEF Spec
<1> QED
  BY <1>2 DEF OpenedOnInitialized, HandshakeOpens
===============================================================================
