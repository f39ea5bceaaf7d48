----------------------------- MODULE WorkbenchProofs ----------------------------
(***************************************************************************)
(* Theorems about the workbench, for any directories and files, any number *)
(* of events, actions and TMSourceFiles: when the queue has been run, no   *)
(* TMSourceFile is kept of a file that is open; and the tag manager never  *)
(* has one that was freed, since none is.                                  *)
(***************************************************************************)
EXTENDS Workbench, FiniteSetTheorems, FunctionTheorems, SequenceTheorems, WellFoundedInduction, TLAPS

(* What the plugin queues outside of the idle callback                       *)
Queued ==
  [id : {"files_new", "files_remove"}, files : SUBSET File]
    \cup [id : {"file_add", "file_remove"}, file : File]

GivesUp(act, f) ==
  \/ act.id = "file_remove" /\ act.file = f
  \/ act.id = "files_remove" /\ f \in act.files

HandedOver(as) == {i \in 1..Len(as) : as[i].id = "files_new"}

(* The tables and the queue: no action frees a TMSourceFile.                 *)
TagsTyped ==
  /\ docs \subseteq File /\ generate \in BOOLEAN
  /\ actions \in Seq(Queued)
  /\ table \in [File -> 0..MaxSources] /\ tags \in [Source -> Nat]
  /\ freed = {}

(* The actions queued leave each file a number for its TMSourceFile.         *)
Numbered ==
  IF generate THEN \A f \in File : Cardinality(InUse(f)) + Cardinality(HandedOver(actions)) <= MaxSources
  ELSE HandedOver(actions) = {}

(* What there is of an open file is given up by an action queued.            *)
OpenGivenUp ==
  \A f \in docs : table[f] # None => \E i \in 1..Len(actions) : GivesUp(actions[i], f)

(* The lists, the monitors and the disk                                      *)
ListsTyped ==
  /\ disk \subseteq Path
  /\ {opened, has, live} \subseteq BOOLEAN
  /\ saved \in Seq(Base) /\ dirs \in Seq(Addr) /\ followed \subseteq Range(dirs)
  /\ followed # {} => opened /\ has
  /\ base \in [Addr -> Base] /\ listed \in [Addr -> SUBSET Path]
  /\ entries \in [Place -> Addr \cup {None}] /\ dead \subseteq Folder
  /\ events \in [Place -> Seq([kind : {"created", "deleted"}, path : Path])]

TagsOK == TagsTyped /\ Numbered /\ OpenGivenUp

WbIInv == ListsTyped /\ TagsOK

-------------------------------------------------------------------------------
(* Sets of numbers and sequences                                             *)

LEMMA Least ==
  ASSUME NEW R \in SUBSET Nat, R # {}
  PROVE  \E m \in R : \A y \in R : m <= y
<1> DEFINE Less == {p \in Nat \X Nat : p[1] < p[2]}
<1>1. IsWellFoundedOn(Less, Nat)
  BY NatLessThanWellFounded DEF OpToRel
<1>2. PICK m \in R : \A y \in R : ~(<<y, m>> \in Less)
  <2> HIDE DEF Less
  <2> QED
    BY <1>1, WFMin
<1>3. \A y \in R : ~(y < m)
  BY <1>2
<1> QED
  BY <1>2, <1>3

LEMMA UpTo ==
  ASSUME NEW N \in Nat, NEW T \in SUBSET (0..N), 0 \in T,
         \A n \in T : n < N => n + 1 \in T
  PROVE  T = 0..N
<1> SUFFICES ASSUME (0..N) \ T # {}
             PROVE  FALSE
  OBVIOUS
<1>1. PICK m \in (0..N) \ T : \A y \in (0..N) \ T : m <= y
  <2>1. (0..N) \ T \in SUBSET Nat
    OBVIOUS
  <2> QED
    BY <2>1, Least
<1>2. m # 0 /\ m - 1 \in 0..N /\ ~(m <= m - 1)
  BY <1>1
<1>3. m - 1 \in T /\ m - 1 < N /\ (m - 1) + 1 = m
  BY <1>1, <1>2
<1> QED
  BY <1>1, <1>3

LEMMA SetToSeqIs ==
  ASSUME NEW S, IsFiniteSet(S)
  PROVE  /\ Cardinality(S) \in Nat
         /\ SetToSeq(S) \in [1..Cardinality(S) -> S]
<1>1. PICK f \in Bijection(1..Cardinality(S), S) : TRUE
  BY FS_CardinalityType DEF ExistsBijection
<1>2. f \in [1..Cardinality(S) -> S] /\ IsInjective(f)
  BY <1>1 DEF Bijection, Injection, IsInjective
<1> QED
  BY <1>2, FS_CardinalityType DEF SetToSeq

LEMMA FunIsSeq ==
  ASSUME NEW S, NEW n \in Nat, NEW f \in [1..n -> S]
  PROVE  f \in Seq(S) /\ Len(f) = n
OBVIOUS

LEMMA ReverseIs ==
  ASSUME NEW S, NEW s \in Seq(S)
  PROVE  /\ Reverse(s) \in Seq(S) /\ Len(Reverse(s)) = Len(s)
         /\ \A i \in 1..Len(s) : Reverse(s)[i] = s[(Len(s) - i) + 1]
<1>1. Len(s) \in Nat /\ \A i \in 1..Len(s) : (Len(s) - i) + 1 \in 1..Len(s)
  OBVIOUS
<1>2. Reverse(s) \in [1..Len(s) -> S]
  BY <1>1 DEF Reverse
<1> QED
  BY <1>1, <1>2 DEF Reverse

LEMMA ShiftedCount ==
  ASSUME NEW A, IsFiniteSet(A), A \subseteq Nat, NEW k \in Nat, NEW B,
         B \subseteq Nat, \A j \in B : j - k \in A
  PROVE  IsFiniteSet(B) /\ Cardinality(B) <= Cardinality(A)
<1> DEFINE f == [j \in B |-> j - k]
<1>1. f \in [B -> A]
  OBVIOUS
<1>2. \A i, j \in B : f[i] = f[j] => i = j
  OBVIOUS
<1> HIDE DEF f
<1>3. f \in Injection(B, A)
  BY <1>1, <1>2 DEF Injection, IsInjective
<1> QED
  BY <1>3, FS_Injection

LEMMA HandedFinite ==
  ASSUME NEW as \in Seq(Queued)
  PROVE  /\ IsFiniteSet(HandedOver(as)) /\ Cardinality(HandedOver(as)) \in Nat
         /\ HandedOver(as) \subseteq 1..Len(as)
<1>1. HandedOver(as) \subseteq 1..Len(as) /\ Len(as) \in Nat
  BY LenProperties DEF HandedOver
<1>2. \A n \in Nat : IsFiniteSet(1..n)
  BY FS_Interval
<1>3. IsFiniteSet(1..Len(as))
  BY <1>1, <1>2
<1> QED
  BY <1>1, <1>3, FS_Subset, FS_CardinalityType


-------------------------------------------------------------------------------
(* The idle callback                                                         *)

RunState == [table : [File -> 0..MaxSources], tags : [Source -> Nat],
             freed : {{}}, added : SUBSET IdleAction]

UsedOf(t, f) == {n \in 1..MaxSources : t.tags[<<f, n>>] > 0 \/ t.table[f] = n}

(* What one action does with the files                                       *)
Follows(u, t, act) ==
  /\ u \in RunState
  /\ \A f \in File : \E k : UsedOf(u, f) \subseteq UsedOf(t, f) \cup {k}
  /\ act.id # "files_new" => \A f \in File : UsedOf(u, f) \subseteq UsedOf(t, f)
  /\ \A f \in docs : u.table[f] # None => t.table[f] # None /\ ~GivesUp(act, f)

LEMMA SourceIs ==
  ASSUME NEW t \in RunState, NEW f \in File, t.table[f] # None
  PROVE  /\ <<f, t.table[f]>> \in Source /\ t.table[f] \in 1..MaxSources
         /\ Freeing({<<f, t.table[f]>>}) \subseteq IdleAction
<1>1. MaxSources \in Nat
  BY WorkbenchAssumption
<1>2. t.table[f] \in 1..MaxSources
  BY <1>1 DEF RunState, None
<1> QED
  BY <1>2 DEF Source, Freeing, IdleAction

LEMMA NewFollows ==
  ASSUME NEW t \in RunState, docs \subseteq File, NEW act \in Queued, act.id = "files_new",
         \A f \in File : Cardinality(UsedOf(t, f)) < MaxSources
  PROVE  Follows(WbTmControlSourceFilesNew(t, act.files), t, act)
<1> DEFINE new == {f \in (act.files \cap disk) \ docs : t.table[f] = None}
           u == WbTmControlSourceFilesNew(t, act.files)
<1>1. MaxSources \in Nat /\ new \subseteq File /\ new \cap docs = {}
  BY WorkbenchAssumption DEF Queued
<1>2. ASSUME NEW f \in File
      PROVE  NewSource(t, f) \in 1..MaxSources
  <2> DEFINE free == (1..MaxSources) \ UsedOf(t, f)
  <2>1. IsFiniteSet(1..MaxSources) /\ Cardinality(1..MaxSources) = MaxSources
    BY <1>1, FS_Interval
  <2>2. free # {}
    <3>1. UsedOf(t, f) \subseteq 1..MaxSources
      BY DEF UsedOf
    <3>2. UsedOf(t, f) # 1..MaxSources
      BY <1>1, <2>1
    <3> QED
      BY <3>1, <3>2
  <2>3. PICK m \in free : \A y \in free : m <= y
    <3>1. free \in SUBSET Nat
      OBVIOUS
    <3> HIDE DEF free
    <3> QED
      BY <2>2, <3>1, Least
  <2>4. \A y \in 1..(m - 1) : y \in UsedOf(t, f)
    BY <1>1, <2>3
  <2>5. \A y \in 1..MaxSources : t.tags[<<f, y>>] \in Nat
    BY DEF RunState, Source
  <2>6. /\ m \in 1..MaxSources /\ t.tags[<<f, m>>] = 0 /\ t.table[f] # m
        /\ \A y \in 1..(m - 1) : t.tags[<<f, y>>] > 0 \/ t.table[f] = y
    BY <2>3, <2>4, <2>5 DEF UsedOf
  <2> QED
    BY <2>6 DEF NewSource
<1> DEFINE tab == [f \in File |-> IF f \in new THEN NewSource(t, f) ELSE t.table[f]]
           tg == [s \in Source |-> IF s[1] \in new /\ s[2] = NewSource(t, s[1])
                                   THEN 1 ELSE t.tags[s]]
<1>3. u = [t EXCEPT !.table = tab, !.tags = tg]
  BY DEF WbTmControlSourceFilesNew
<1>4. tab \in [File -> 0..MaxSources] /\ tg \in [Source -> Nat]
  BY <1>1, <1>2 DEF RunState
<1> HIDE DEF new, tab, tg, u
<1>5. u \in RunState /\ u.table = tab /\ u.tags = tg
  BY <1>3, <1>4 DEF RunState
<1>6. ASSUME NEW f \in File
      PROVE  UsedOf(u, f) \subseteq UsedOf(t, f) \cup {NewSource(t, f)}
  <2>1. ASSUME NEW n \in UsedOf(u, f), n # NewSource(t, f)
        PROVE  n \in UsedOf(t, f)
    <3>1. n \in 1..MaxSources /\ (tg[<<f, n>>] > 0 \/ tab[f] = n)
      BY <1>5 DEF UsedOf
    <3>2. <<f, n>> \in Source /\ <<f, n>>[1] = f /\ <<f, n>>[2] = n
      BY <3>1 DEF Source
    <3>3. tg[<<f, n>>] = t.tags[<<f, n>>]
      BY <2>1, <3>2 DEF tg
    <3>4. tab[f] = n => t.table[f] = n
      BY <2>1 DEF tab
    <3> QED
      BY <3>1, <3>3, <3>4 DEF UsedOf
  <2> QED
    BY <2>1
<1>7. \A f \in docs : u.table[f] = t.table[f] /\ ~GivesUp(act, f)
  BY <1>1, <1>5 DEF tab, GivesUp
<1> QED
  BY <1>5, <1>6, <1>7, Zenon DEF Follows, u


LEMMA AddFollows ==
  ASSUME NEW t \in RunState, docs \subseteq File, NEW act \in Queued, act.id = "file_add"
  PROVE  Follows(WbTmControlSourceFileAdd(t, act.file), t, act)
<1> DEFINE f == act.file
           s == <<f, t.table[f]>>
           u == WbTmControlSourceFileAdd(t, f)
<1>1. f \in File /\ \A g \in File : ~GivesUp(act, g)
  BY DEF Queued, GivesUp
<1>2. CASE t.table[f] = None \/ f \in docs
  BY <1>1, <1>2 DEF WbTmControlSourceFileAdd, Follows
<1>3. CASE ~(t.table[f] = None \/ f \in docs)
  <2>1. s \in Source /\ t.table[f] \in 1..MaxSources /\ Freeing({s}) \subseteq IdleAction
    BY <1>1, <1>3, SourceIs
  <2>2. u = [t EXCEPT !.tags = [t.tags EXCEPT ![s] = @ + 1],
                      !.added = t.added \cup Freeing({s})]
    BY <1>3 DEF WbTmControlSourceFileAdd, RunState
  <2>3. [t.tags EXCEPT ![s] = @ + 1] \in [Source -> Nat]
    BY <2>1 DEF RunState
  <2> DEFINE tg == [t.tags EXCEPT ![s] = @ + 1]
  <2>4. \A r \in Source : tg[r] = IF r = s THEN t.tags[s] + 1 ELSE t.tags[r]
    BY DEF RunState
  <2> HIDE DEF tg, u
  <2>5. u \in RunState /\ u.table = t.table /\ u.tags = tg
    BY <2>1, <2>2, <2>3 DEF RunState, tg
  <2>6. ASSUME NEW g \in File, NEW n \in UsedOf(u, g)
        PROVE  n \in UsedOf(t, g)
    <3>1. n \in 1..MaxSources /\ (tg[<<g, n>>] > 0 \/ t.table[g] = n)
      BY <2>5, <2>6 DEF UsedOf
    <3>2. <<g, n>> \in Source
      BY <3>1 DEF Source
    <3>3. CASE <<g, n>> = s
      BY <3>1, <3>3 DEF UsedOf
    <3>4. CASE <<g, n>> # s
      BY <2>4, <3>1, <3>2, <3>4 DEF UsedOf
    <3> QED
      BY <3>3, <3>4
  <2> QED
    BY <1>1, <2>5, <2>6 DEF Follows, u
<1> QED
  BY <1>2, <1>3

LEMMA RemoveFollows ==
  ASSUME NEW t \in RunState, docs \subseteq File, NEW act \in Queued, act.id = "file_remove"
  PROVE  Follows(WbTmControlSourceFileRemove(t, act.file), t, act)
<1> DEFINE f == act.file
           s == <<f, t.table[f]>>
           u == WbTmControlSourceFileRemove(t, f)
<1>1. f \in File /\ \A g \in File : GivesUp(act, g) => g = f
  BY DEF Queued, GivesUp
<1>2. CASE t.table[f] = None
  BY <1>1, <1>2 DEF WbTmControlSourceFileRemove, Follows
<1>3. CASE t.table[f] # None
  <2> DEFINE tg == [t.tags EXCEPT ![s] = IF @ = 0 THEN 0 ELSE @ - 1]
             tab == [t.table EXCEPT ![f] = None]
  <2>1. s \in Source /\ t.table[f] \in 1..MaxSources /\ Freeing({s}) \subseteq IdleAction
    BY <1>1, <1>3, SourceIs
  <2>2. u = [t EXCEPT !.table = tab, !.tags = tg, !.added = t.added \cup Freeing({s})]
    BY <1>3 DEF WbTmControlSourceFileRemove, RunState
  <2>3. tg \in [Source -> Nat] /\ tab \in [File -> 0..MaxSources]
    BY <1>1, <2>1, WorkbenchAssumption DEF RunState, None
  <2>4. /\ \A r \in Source : tg[r] = IF r = s THEN (IF t.tags[s] = 0 THEN 0 ELSE t.tags[s] - 1)
                                              ELSE t.tags[r]
        /\ \A g \in File : tab[g] = IF g = f THEN None ELSE t.table[g]
        /\ \A r \in Source : t.tags[r] \in Nat
    BY DEF RunState
  <2> HIDE DEF tg, tab, u
  <2>5. u \in RunState /\ u.table = tab /\ u.tags = tg
    BY <2>1, <2>2, <2>3 DEF RunState
  <2>6. ASSUME NEW g \in File, NEW n \in UsedOf(u, g)
        PROVE  n \in UsedOf(t, g)
    <3>1. n \in 1..MaxSources /\ (tg[<<g, n>>] > 0 \/ tab[g] = n)
      BY <2>5, <2>6 DEF UsedOf
    <3>2. <<g, n>> \in Source /\ n # None
      BY <3>1 DEF Source, None
    <3>3. CASE tg[<<g, n>>] > 0
      BY <2>1, <2>4, <3>1, <3>2, <3>3 DEF UsedOf
    <3>4. CASE tab[g] = n
      BY <2>4, <3>1, <3>2, <3>4 DEF UsedOf
    <3> QED
      BY <3>1, <3>3, <3>4
  <2>7. \A g \in docs : u.table[g] # None => t.table[g] # None /\ ~GivesUp(act, g)
    BY <1>1, <2>4, <2>5
  <2> QED
    BY <2>5, <2>6, <2>7 DEF Follows, u
<1> QED
  BY <1>2, <1>3

LEMMA FilesRemoveFollows ==
  ASSUME NEW t \in RunState, docs \subseteq File, NEW act \in Queued, act.id = "files_remove"
  PROVE  Follows(WbTmControlSourceFilesRemove(t, act.files), t, act)
<1> DEFINE found == {f \in act.files : t.table[f] # None}
           u == WbTmControlSourceFilesRemove(t, act.files)
           tab == [f \in File |-> IF f \in found THEN None ELSE t.table[f]]
           more == t.added \cup Freeing({<<f, t.table[f]>> : f \in found})
<1>1. act.files \subseteq File /\ \A g \in File : GivesUp(act, g) => g \in act.files
  BY DEF Queued, GivesUp
<1>2. u = [t EXCEPT !.table = tab, !.added = more]
  BY DEF WbTmControlSourceFilesRemove, RunState
<1>3. tab \in [File -> 0..MaxSources]
  BY <1>1, WorkbenchAssumption DEF RunState, None
<1>4. more \subseteq IdleAction
  <2>1. ASSUME NEW f \in found
        PROVE  Freeing({<<f, t.table[f]>>}) \subseteq IdleAction
    BY <1>1, SourceIs
  <2>2. \A f \in found : [id |-> "file_free", source |-> <<f, t.table[f]>>] \in IdleAction
    BY <2>1 DEF Freeing
  <2>3. t.added \subseteq IdleAction
    BY DEF RunState
  <2> QED
    BY <2>2, <2>3 DEF Freeing
<1>5. \A g \in File : tab[g] = IF g \in found THEN None ELSE t.table[g]
  OBVIOUS
<1>6. \A g \in docs : tab[g] # None => t.table[g] # None /\ ~GivesUp(act, g)
  BY <1>1
<1> HIDE DEF tab, more, u, found
<1>7. u \in RunState /\ u.table = tab /\ u.tags = t.tags
  BY <1>2, <1>3, <1>4 DEF RunState
<1>8. ASSUME NEW g \in File, NEW n \in UsedOf(u, g)
      PROVE  n \in UsedOf(t, g)
  BY <1>5, <1>7, <1>8 DEF UsedOf, None
<1> QED
  BY <1>6, <1>7, <1>8 DEF Follows, u


LEMMA ActionFollows ==
  ASSUME NEW t \in RunState, docs \subseteq File, NEW act \in Queued,
         act.id = "files_new" => \A f \in File : Cardinality(UsedOf(t, f)) < MaxSources
  PROVE  Follows(RunAction(t, act), t, act)
<1>1. act.id \in {"files_new", "files_remove", "file_add", "file_remove"}
  BY DEF Queued
<1>2. CASE act.id = "files_new"
  BY <1>2, NewFollows DEF RunAction
<1>3. CASE act.id = "files_remove"
  BY <1>3, FilesRemoveFollows DEF RunAction
<1>4. CASE act.id = "file_add"
  BY <1>4, AddFollows DEF RunAction
<1>5. CASE act.id = "file_remove"
  BY <1>5, RemoveFollows DEF RunAction
<1> QED
  BY <1>1, <1>2, <1>3, <1>4, <1>5

(* The first n actions have been run.                                        *)
Left(n) == {i \in (n + 1)..Len(actions) : actions[i].id = "files_new"}

HasRun(t, n) ==
  /\ t \in RunState
  /\ IF generate THEN \A f \in File : Cardinality(UsedOf(t, f)) + Cardinality(Left(n)) <= MaxSources
     ELSE Left(n) = {}
  /\ \A f \in docs : t.table[f] # None => \E i \in (n + 1)..Len(actions) : GivesUp(actions[i], f)

LEMMA CountsAre ==
  ASSUME TagsTyped
  PROVE  /\ Len(actions) \in Nat /\ MaxSources \in Nat
         /\ \A n \in Nat : IsFiniteSet(Left(n)) /\ Cardinality(Left(n)) \in Nat
         /\ \A t, f : IsFiniteSet(UsedOf(t, f)) /\ Cardinality(UsedOf(t, f)) \in Nat
<1>1. Len(actions) \in Nat /\ MaxSources \in Nat
  BY LenProperties, WorkbenchAssumption DEF TagsTyped
<1>2. \A n \in Nat : IsFiniteSet(1..n)
  BY FS_Interval
<1>3. \A n \in Nat : Left(n) \in SUBSET (1..Len(actions))
  BY <1>1 DEF Left
<1>4. \A t, f : UsedOf(t, f) \in SUBSET (1..MaxSources)
  BY DEF UsedOf
<1> QED
  BY <1>1, <1>2, <1>3, <1>4, FS_Subset, FS_CardinalityType

LEMMA OneMoreRun ==
  ASSUME TagsTyped, NEW n \in 1..Len(actions), NEW t, HasRun(t, n - 1)
  PROVE  HasRun(RunAction(t, actions[n]), n)
<1> DEFINE act == actions[n]
           u == RunAction(t, act)
<1>1. act \in Queued /\ n \in Nat /\ n - 1 \in Nat /\ (n - 1) + 1 = n
  BY CountsAre, ElementOfSeq DEF TagsTyped
<1>2. t \in RunState /\ docs \subseteq File
  BY DEF HasRun, TagsTyped
<1>3. Left(n - 1) = IF act.id = "files_new" THEN Left(n) \cup {n} ELSE Left(n)
  BY <1>1, CountsAre DEF Left
<1>4. n \notin Left(n)
  BY <1>1 DEF Left
<1>5. Cardinality(Left(n - 1)) = IF act.id = "files_new" THEN Cardinality(Left(n)) + 1
                                 ELSE Cardinality(Left(n))
  BY <1>1, <1>3, <1>4, CountsAre, FS_AddElement
<1>6. act.id = "files_new" => generate
  BY <1>3 DEF HasRun
<1>7. act.id = "files_new" => \A f \in File : Cardinality(UsedOf(t, f)) < MaxSources
  <2> SUFFICES ASSUME act.id = "files_new", NEW f \in File
               PROVE  Cardinality(UsedOf(t, f)) < MaxSources
    OBVIOUS
  <2>1. Cardinality(UsedOf(t, f)) + Cardinality(Left(n - 1)) <= MaxSources
    BY <1>6 DEF HasRun
  <2> QED
    BY <1>1, <1>5, <2>1, CountsAre
<1>8. Follows(u, t, act)
  BY <1>1, <1>2, <1>7, ActionFollows
<1> HIDE DEF act, u
<1>9. ASSUME generate, NEW f \in File
      PROVE  Cardinality(UsedOf(u, f)) + Cardinality(Left(n)) <= MaxSources
  <2>1. Cardinality(UsedOf(t, f)) + Cardinality(Left(n - 1)) <= MaxSources
    BY <1>9 DEF HasRun
  <2>2. CASE act.id = "files_new"
    <3>1. PICK k : UsedOf(u, f) \in SUBSET (UsedOf(t, f) \cup {k})
      BY <1>8, <1>9 DEF Follows
    <3>2. /\ IsFiniteSet(UsedOf(t, f) \cup {k})
          /\ Cardinality(UsedOf(t, f) \cup {k}) <= Cardinality(UsedOf(t, f)) + 1
      <4>1. IsFiniteSet(UsedOf(t, f)) /\ Cardinality(UsedOf(t, f)) \in Nat
        BY CountsAre
      <4>2. /\ IsFiniteSet(UsedOf(t, f) \cup {k})
            /\ Cardinality(UsedOf(t, f) \cup {k}) =
                 IF k \in UsedOf(t, f) THEN Cardinality(UsedOf(t, f))
                 ELSE Cardinality(UsedOf(t, f)) + 1
        BY <4>1, FS_AddElement
      <4> QED
        BY <4>1, <4>2
    <3>3. Cardinality(UsedOf(u, f)) <= Cardinality(UsedOf(t, f) \cup {k})
      BY <3>1, <3>2, FS_Subset
    <3>4. Cardinality(UsedOf(t, f) \cup {k}) \in Nat
      BY <3>2, FS_CardinalityType
    <3> QED
      BY <1>1, <1>5, <2>1, <2>2, <3>2, <3>3, <3>4, CountsAre
  <2>3. CASE act.id # "files_new"
    <3>1. UsedOf(u, f) \in SUBSET UsedOf(t, f)
      BY <1>8, <1>9, <2>3 DEF Follows
    <3>2. Cardinality(UsedOf(u, f)) <= Cardinality(UsedOf(t, f))
      BY <3>1, CountsAre, FS_Subset
    <3> QED
      BY <1>1, <1>5, <2>1, <2>3, <3>2, CountsAre
  <2> QED
    BY <2>2, <2>3
<1>10. ~generate => Left(n) = {}
  BY <1>3 DEF HasRun
<1>11. ASSUME NEW f \in docs, u.table[f] # None
       PROVE  \E i \in (n + 1)..Len(actions) : GivesUp(actions[i], f)
  <2>1. t.table[f] # None /\ ~GivesUp(act, f)
    BY <1>8, <1>11 DEF Follows
  <2>2. PICK i \in ((n - 1) + 1)..Len(actions) : GivesUp(actions[i], f)
    BY <2>1 DEF HasRun
  <2>3. i # n
    BY <2>1, <2>2 DEF act
  <2> QED
    BY <1>1, <2>2, <2>3, CountsAre
<1>12. u \in RunState
  BY <1>8 DEF Follows
<1> QED
  BY <1>9, <1>10, <1>11, <1>12 DEF HasRun, u, act

(* RunUpTo is the function its equation defines.                             *)
LEMMA RunUpToIs ==
  ASSUME TagsTyped
  PROVE  /\ RunUpTo[0] = [table |-> table, tags |-> tags, freed |-> freed, added |-> {}]
         /\ \A n \in 1..Len(actions) : RunUpTo[n] = RunAction(RunUpTo[n - 1], actions[n])
<1> DEFINE t0 == [table |-> table, tags |-> tags, freed |-> freed, added |-> {}]
           N == Len(actions)
           Step(n, t) == RunAction(t, actions[n])
           Is(f, n) == f = [i \in 0..n |-> IF i = 0 THEN t0 ELSE Step(i, f[i - 1])]
<1>1. N \in Nat
  BY CountsAre
<1>2. RunUpTo = CHOOSE f : f = [n \in 0..N |-> IF n = 0 THEN t0 ELSE RunAction(f[n - 1], actions[n])]
  BY DEF RunUpTo
<1> HIDE DEF Step, N
<1>3. \E f : Is(f, N)
  <2> DEFINE T == {n \in 0..N : \E f : Is(f, n)}
  <2>1. 0 \in T
    <3>1. Is([i \in 0..0 |-> t0], 0)
      OBVIOUS
    <3> HIDE DEF Is
    <3> QED
      BY <1>1, <3>1
  <2>2. ASSUME NEW n \in T, n < N
        PROVE  n + 1 \in T
    <3>1. PICK f : Is(f, n)
      OBVIOUS
    <3> DEFINE g == [i \in 0..(n + 1) |-> IF i = n + 1 THEN Step(n + 1, f[n]) ELSE f[i]]
    <3>2. n \in Nat
      BY <1>1
    <3>3. ASSUME NEW i \in 0..(n + 1)
          PROVE  g[i] = IF i = 0 THEN t0 ELSE Step(i, g[i - 1])
      <4>1. CASE i = n + 1
        <5>1. g[n] = f[n]
          BY <3>2
        <5>2. g[i] = Step(i, f[n]) /\ i # 0 /\ i - 1 = n
          BY <3>2, <4>1
        <5> HIDE DEF g
        <5> QED
          BY <5>1, <5>2
      <4>2. CASE i # n + 1
        <5>1. i \in 0..n /\ g[i] = f[i]
          BY <3>2, <4>2
        <5>2. f[i] = IF i = 0 THEN t0 ELSE Step(i, f[i - 1])
          BY <3>1, <5>1
        <5>3. i # 0 => g[i - 1] = f[i - 1]
          BY <3>2, <5>1
        <5> HIDE DEF g
        <5> QED
          BY <5>1, <5>2, <5>3
      <4> QED
        BY <4>1, <4>2
    <3>4. DOMAIN g = 0..(n + 1) /\ g = [i \in 0..(n + 1) |-> g[i]]
      OBVIOUS
    <3>5. Is(g, n + 1)
      <4> HIDE DEF g
      <4> QED
        BY <3>3, <3>4
    <3>6. n + 1 \in 0..N
      BY <1>1, <2>2
    <3> HIDE DEF Is, g
    <3> QED
      BY <3>5, <3>6
  <2>3. T = 0..N
    <3>1. T \in SUBSET (0..N)
      OBVIOUS
    <3> HIDE DEF T
    <3> QED
      BY <1>1, <2>1, <2>2, <3>1, UpTo
  <2>4. N \in T
    <3> HIDE DEF T
    <3> QED
      BY <1>1, <2>3
  <2> QED
    BY <2>4, Zenon
<1>4. Is(RunUpTo, N)
  <2>1. RunUpTo = CHOOSE f : Is(f, N)
    BY <1>2, Zenon DEF Step
  <2> HIDE DEF Is
  <2> QED
    BY <1>3, <2>1
<1>5. 0 \in 0..N /\ \A n \in 1..N : n \in 0..N /\ n # 0
  BY <1>1
<1>6. \A n \in 0..N : RunUpTo[n] = IF n = 0 THEN t0 ELSE Step(n, RunUpTo[n - 1])
  BY <1>4
<1> HIDE DEF t0
<1>7. RunUpTo[0] = t0 /\ \A n \in 1..N : RunUpTo[n] = Step(n, RunUpTo[n - 1])
  BY <1>5, <1>6
<1> QED
  BY <1>7 DEF Step, N, t0

LEMMA RanIs ==
  ASSUME TagsTyped, Numbered, OpenGivenUp
  PROVE  HasRun(Ran, Len(actions))
<1> DEFINE N == Len(actions)
           T == {n \in 0..N : HasRun(RunUpTo[n], n)}
<1>1. N \in Nat
  BY CountsAre
<1>2. HasRun(RunUpTo[0], 0)
  <2> DEFINE t0 == [table |-> table, tags |-> tags, freed |-> freed, added |-> {}]
  <2>1. t0 \in RunState
    BY DEF TagsTyped, RunState
  <2>2. Left(0) = HandedOver(actions)
    BY DEF Left, HandedOver
  <2>3. \A f \in File : UsedOf(t0, f) = InUse(f)
    BY DEF UsedOf, InUse
  <2>4. t0.table = table
    OBVIOUS
  <2>5. HasRun(t0, 0)
    <3> HIDE DEF t0
    <3> QED
      BY <2>1, <2>2, <2>3, <2>4 DEF HasRun, Numbered, OpenGivenUp
  <2> QED
    BY <2>5, RunUpToIs
<1>3. ASSUME NEW n \in T, n < N
      PROVE  n + 1 \in T
  <2>1. n + 1 \in 1..N /\ (n + 1) - 1 = n /\ n + 1 \in 0..N
    BY <1>1, <1>3
  <2>2. HasRun(RunAction(RunUpTo[n], actions[n + 1]), n + 1)
    BY <2>1, OneMoreRun
  <2>3. RunUpTo[n + 1] = RunAction(RunUpTo[n], actions[n + 1])
    BY <2>1, RunUpToIs
  <2> QED
    BY <2>1, <2>2, <2>3
<1>4. T = 0..N
  <2>1. T \in SUBSET (0..N) /\ 0 \in T
    BY <1>1, <1>2
  <2> HIDE DEF T, N
  <2> QED
    BY <1>1, <1>3, <2>1, UpTo
<1>5. N \in T
  <2> HIDE DEF T, N
  <2> QED
    BY <1>1, <1>4
<1> QED
  BY <1>5 DEF Ran


LEMMA CallbackOK ==
  ASSUME TagsOK, WbIdleQueueCallback
  PROVE  TagsOK'
<1>1. TagsTyped /\ HasRun(Ran, Len(actions)) /\ Len(actions) \in Nat
  BY RanIs, CountsAre DEF TagsOK
<1>2. /\ table' = Ran.table /\ tags' = Ran.tags /\ freed' = Ran.freed /\ actions' = <<>>
      /\ UNCHANGED <<docs, generate>>
  BY DEF WbIdleQueueCallback, wbVars
<1>3. Ran \in RunState
  BY <1>1 DEF HasRun
<1>4. TagsTyped'
  BY <1>1, <1>2, <1>3 DEF TagsTyped, RunState
<1>5. (HandedOver(actions))' = {} /\ Left(Len(actions)) = {} /\ Cardinality({}) = 0
  BY <1>1, <1>2, FS_EmptySet DEF HandedOver, Left
<1>6. \A f : (InUse(f))' = UsedOf(Ran, f)
  BY <1>2 DEF InUse, UsedOf
<1>7. \A f : Cardinality(UsedOf(Ran, f)) \in Nat
  BY <1>1, CountsAre
<1>8. Numbered'
  <2>1. ASSUME generate, NEW f \in File
        PROVE  Cardinality(UsedOf(Ran, f)) <= MaxSources
    <3>1. Cardinality(UsedOf(Ran, f)) + Cardinality(Left(Len(actions))) <= MaxSources
      BY <1>1, <2>1 DEF HasRun
    <3> QED
      BY <1>5, <1>7, <3>1
  <2>2. \A f \in File : Cardinality(UsedOf(Ran, f)) + 0 = Cardinality(UsedOf(Ran, f))
    BY <1>7
  <2>3. generate' => \A f \in File : Cardinality((InUse(f))') + Cardinality((HandedOver(actions))') <= MaxSources
    BY <1>2, <1>5, <1>6, <2>1, <2>2
  <2> QED
    BY <1>5, <2>3 DEF Numbered
<1>9. OpenGivenUp'
  <2>1. \A f \in docs : Ran.table[f] = None
    BY <1>1 DEF HasRun
  <2> QED
    BY <1>2, <2>1 DEF OpenGivenUp
<1> QED
  BY <1>4, <1>8, <1>9 DEF TagsOK

(* Few of what is queued are lists of new files, and there is room for them. *)
Few(new) ==
  \E m, n \in Nat :
    /\ \A i \in 1..Len(new) : new[i].id = "files_new" => i \in (m + 1)..(m + n)
    /\ n # 0 => generate /\ Room(n)

LEMMA PushOK ==
  ASSUME TagsOK, NEW new \in Seq(Queued), Few(new), Push(new),
         UNCHANGED <<table, tags, freed, generate>>, docs' \subseteq File,
         \A f \in docs' \ docs : \E i \in 1..Len(new) : GivesUp(new[i], f)
  PROVE  TagsOK'
<1> DEFINE L == Len(new)
           H == HandedOver(actions)
           as == Reverse(new) \o actions
           G == HandedOver(as)
<1>1. TagsTyped /\ Numbered /\ OpenGivenUp /\ L \in Nat /\ Len(actions) \in Nat
  BY CountsAre, LenProperties DEF TagsOK
<1>2. actions \in Seq(Queued) /\ actions' = as
  BY <1>1 DEF TagsTyped, Push
<1>3. /\ as \in Seq(Queued) /\ Len(as) = L + Len(actions)
      /\ \A j \in 1..(L + Len(actions)) : as[j] = IF j <= L THEN new[(L - j) + 1] ELSE actions[j - L]
  <2> DEFINE r == Reverse(new)
  <2>1. r \in Seq(Queued) /\ Len(r) = L /\ \A i \in 1..L : r[i] = new[(L - i) + 1]
    BY ReverseIs
  <2> HIDE DEF r
  <2>2. /\ r \o actions \in Seq(Queued) /\ Len(r \o actions) = Len(r) + Len(actions)
        /\ \A j \in 1..(Len(r) + Len(actions)) :
             (r \o actions)[j] = IF j <= Len(r) THEN r[j] ELSE actions[j - Len(r)]
    BY <1>2, <2>1, ConcatProperties
  <2>3. \A j \in 1..(L + Len(actions)) : j <= L => j \in 1..L
    BY <1>1
  <2> HIDE DEF L
  <2>4. /\ r \o actions \in Seq(Queued) /\ Len(r \o actions) = L + Len(actions)
        /\ \A j \in 1..(L + Len(actions)) :
             (r \o actions)[j] = IF j <= L THEN new[(L - j) + 1] ELSE actions[j - L]
    BY <2>1, <2>2, <2>3
  <2> QED
    BY <2>4 DEF r
<1>4. PICK m \in Nat, n \in Nat :
        /\ \A i \in 1..L : new[i].id = "files_new" => i \in (m + 1)..(m + n)
        /\ n # 0 => generate /\ Room(n)
  BY DEF Few
<1>5. IsFiniteSet(H) /\ Cardinality(H) \in Nat /\ H \subseteq Nat
  <2>1. H \subseteq 1..Len(actions)
    BY <1>2, HandedFinite
  <2> QED
    BY <1>1, <1>2, <2>1, HandedFinite
<1>6. IsFiniteSet(G) /\ Cardinality(G) \in Nat /\ G \subseteq 1..(L + Len(actions))
  <2> HIDE DEF as
  <2> QED
    BY <1>3, HandedFinite
<1>7. \A j \in G : j > L => j - L \in H
  <2>1. \A j \in G : as[j].id = "files_new"
    BY DEF HandedOver
  <2> SUFFICES ASSUME NEW j \in G, j > L
               PROVE  j - L \in H
    OBVIOUS
  <2>2. j \in 1..(L + Len(actions)) /\ ~(j <= L) /\ j - L \in 1..Len(actions)
    BY <1>1, <1>6
  <2>3. actions[j - L].id = "files_new"
    <3> HIDE DEF as, G, L
    <3> QED
      BY <1>3, <2>1, <2>2
  <2> QED
    BY <2>2, <2>3 DEF HandedOver
<1>8. \A j \in G : ~(j > L) => j \in ((L - m - n) + 1)..(L - m)
  <2>1. \A j \in G : as[j].id = "files_new"
    BY DEF HandedOver
  <2> SUFFICES ASSUME NEW j \in G, ~(j > L)
               PROVE  j \in ((L - m - n) + 1)..(L - m)
    OBVIOUS
  <2>2. j \in 1..(L + Len(actions)) /\ j <= L /\ (L - j) + 1 \in 1..L
    BY <1>1, <1>6
  <2>3. new[(L - j) + 1].id = "files_new"
    <3> HIDE DEF as, G, L
    <3> QED
      BY <1>3, <2>1, <2>2
  <2>4. (L - j) + 1 \in (m + 1)..(m + n)
    BY <1>4, <2>2, <2>3
  <2> HIDE DEF L, G
  <2> QED
    BY <1>1, <1>4, <2>2, <2>4
<1> HIDE DEF L, H, as, G
<1>9. Cardinality(G) <= Cardinality(H) + n
  <2> DEFINE A == {j \in G : ~(j > L)}
             B == {j \in G : j > L}
             R == ((L - m - n) + 1)..(L - m)
  <2>1. IsFiniteSet(R) /\ Cardinality(R) = n
    <3>1. /\ (L - m - n) + 1 \in Int /\ L - m \in Int
          /\ (L - m) - ((L - m - n) + 1) + 1 = n
          /\ (L - m - n) + 1 > L - m <=> n = 0
      BY <1>1, <1>4
    <3>2. /\ IsFiniteSet(R)
          /\ Cardinality(R) = IF (L - m - n) + 1 > L - m THEN 0
                              ELSE (L - m) - ((L - m - n) + 1) + 1
      BY <3>1, FS_Interval
    <3> QED
      BY <3>1, <3>2
  <2>2. A \in SUBSET R
    BY <1>8
  <2>3. B \subseteq Nat /\ \A j \in B : j - L \in H
    <3>1. 1..(L + Len(actions)) \subseteq Nat
      BY <1>1
    <3> QED
      BY <1>6, <1>7, <3>1
  <2>4. G = A \cup B /\ A \cap B = {}
    OBVIOUS
  <2> HIDE DEF A, B, R
  <2>5. IsFiniteSet(A) /\ Cardinality(A) <= n
    BY <2>1, <2>2, FS_Subset
  <2>6. IsFiniteSet(B) /\ Cardinality(B) <= Cardinality(H)
    BY <1>1, <1>5, <2>3, ShiftedCount
  <2>7. Cardinality(A \cup B) = Cardinality(A) + Cardinality(B) - Cardinality(A \cap B)
    BY <2>5, <2>6, FS_Union
  <2>8. Cardinality(A \cap B) = 0 /\ Cardinality(A) \in Nat /\ Cardinality(B) \in Nat
    BY <2>4, <2>5, <2>6, FS_EmptySet, FS_CardinalityType
  <2> QED
    BY <1>4, <1>5, <2>4, <2>5, <2>6, <2>7, <2>8
<1>10. TagsTyped'
  BY <1>1, <1>2, <1>3 DEF TagsTyped
<1>11. (HandedOver(actions))' = G /\ \A f : (InUse(f))' = InUse(f)
  BY <1>2 DEF G, InUse, HandedOver
<1>12. \A f : Cardinality(InUse(f)) \in Nat
  <2>1. \A f : InUse(f) \in SUBSET (1..MaxSources)
    BY DEF InUse
  <2>2. IsFiniteSet(1..MaxSources)
    BY WorkbenchAssumption, FS_Interval
  <2> QED
    BY <2>1, <2>2, FS_Subset, FS_CardinalityType
<1>13. Numbered'
  <2>1. ASSUME generate, NEW f \in File
        PROVE  Cardinality(InUse(f)) + Cardinality(G) <= MaxSources
    <3>1. Cardinality(InUse(f)) + Cardinality(H) + n <= MaxSources
      <4>1. CASE n = 0
        <5>1. Cardinality(InUse(f)) + Cardinality(H) <= MaxSources
          BY <1>1, <2>1 DEF Numbered, H
        <5> QED
          BY <1>5, <1>12, <4>1, <5>1
      <4>2. CASE n # 0
        BY <1>4, <2>1, <4>2 DEF Room, HandedOver, H
      <4> QED
        BY <4>1, <4>2
    <3> QED
      BY <1>4, <1>5, <1>6, <1>9, <1>12, <3>1, WorkbenchAssumption
  <2>2. ASSUME ~generate
        PROVE  G = {}
    <3>1. H = {} /\ n = 0
      BY <1>1, <1>4, <2>2 DEF Numbered, H
    <3>2. Cardinality(G) = 0
      BY <1>6, <1>9, <3>1, FS_EmptySet
    <3> QED
      BY <1>6, <3>2, FS_EmptySet
  <2>3. generate' => \A f \in File : Cardinality((InUse(f))') + Cardinality((HandedOver(actions))') <= MaxSources
    BY <1>11, <2>1
  <2>4. ~generate' => (HandedOver(actions))' = {}
    BY <1>11, <2>2
  <2> QED
    BY <2>3, <2>4 DEF Numbered
<1>14. OpenGivenUp'
  <2>1. ASSUME NEW f \in docs', table'[f] # None
        PROVE  \E j \in 1..Len(as) : GivesUp(as[j], f)
    <3>1. CASE f \in docs
      <4>1. PICK i \in 1..Len(actions) : GivesUp(actions[i], f)
        BY <1>1, <2>1, <3>1 DEF OpenGivenUp
      <4>2. L + i \in 1..(L + Len(actions)) /\ ~(L + i <= L) /\ (L + i) - L = i
        BY <1>1
      <4> QED
        BY <1>3, <4>1, <4>2
    <3>2. CASE f \notin docs
      <4>1. PICK i \in 1..L : GivesUp(new[i], f)
        BY <2>1, <3>2 DEF L
      <4>2. /\ (L - i) + 1 \in 1..(L + Len(actions)) /\ (L - i) + 1 <= L
            /\ (L - ((L - i) + 1)) + 1 = i
        BY <1>1
      <4> QED
        BY <1>3, <4>1, <4>2
    <3> QED
      BY <3>1, <3>2
  <2> QED
    BY <1>2, <2>1 DEF OpenGivenUp
<1> QED
  BY <1>10, <1>13, <1>14 DEF TagsOK


-------------------------------------------------------------------------------
(* What the operations queue                                                 *)

Plain(as) == \A i \in 1..Len(as) : as[i].id # "files_new"

LEMMA TagsKept ==
  ASSUME TagsOK, UNCHANGED <<tagVars, generate>>
  PROVE  TagsOK'
BY DEF TagsOK, tagVars, TagsTyped, Numbered, OpenGivenUp, InUse, HandedOver

LEMMA FewPlain ==
  ASSUME NEW as \in Seq(Queued), Plain(as)
  PROVE  Few(as)
BY DEF Few, Plain

LEMMA FilesNewIs ==
  ASSUME NEW lists \in Seq(SUBSET Path)
  PROVE  /\ FilesNew(lists) \in Seq(Queued)
         /\ Len(FilesNew(lists)) = IF generate THEN Len(lists) ELSE 0
<1>1. lists \in [1..Len(lists) -> SUBSET Path] /\ DOMAIN lists = 1..Len(lists) /\ Len(lists) \in Nat
  BY LenProperties
<1>2. ASSUME NEW i \in 1..Len(lists)
      PROVE  [id |-> "files_new", files |-> lists[i] \cap File] \in Queued
  BY <1>1 DEF Queued
<1> DEFINE new == [i \in 1..Len(lists) |-> [id |-> "files_new", files |-> lists[i] \cap File]]
<1>3. new \in Seq(Queued) /\ Len(new) = Len(lists)
  <2>1. new \in [1..Len(lists) -> Queued]
    BY <1>2
  <2> HIDE DEF new
  <2> QED
    BY <1>1, <2>1
<1>4. CASE generate
  BY <1>1, <1>3, <1>4 DEF FilesNew
<1>5. CASE ~generate
  BY <1>5 DEF FilesNew
<1> QED
  BY <1>4, <1>5

LEMMA HandOver ==
  ASSUME NEW before \in Seq(Queued), Plain(before), NEW lists \in Seq(SUBSET Path),
         lists # <<>> => Room(Len(lists))
  PROVE  before \o FilesNew(lists) \in Seq(Queued) /\ Few(before \o FilesNew(lists))
<1> DEFINE new == FilesNew(lists)
           as == before \o new
           m == Len(before)
           n == Len(new)
<1>1. new \in Seq(Queued) /\ n = (IF generate THEN Len(lists) ELSE 0) /\ Len(lists) \in Nat
  BY FilesNewIs, LenProperties
<1>2. n # 0 => generate /\ Room(n)
  <2>1. Len(lists) # 0 => lists # <<>>
    BY EmptySeq
  <2> HIDE DEF new
  <2> QED
    BY <1>1, <2>1
<1> HIDE DEF new
<1>3. m \in Nat /\ n \in Nat
  BY <1>1, LenProperties
<1>4. as \in Seq(Queued) /\ Len(as) = m + n /\ \A i \in 1..(m + n) : i <= m => as[i] = before[i]
  BY <1>1, ConcatProperties
<1> HIDE DEF as, m, n
<1>5. \A i \in 1..Len(as) : as[i].id = "files_new" => i \in (m + 1)..(m + n)
  <2> SUFFICES ASSUME NEW i \in 1..Len(as), as[i].id = "files_new"
               PROVE  i \in (m + 1)..(m + n)
    OBVIOUS
  <2>1. i \in 1..(m + n)
    BY <1>4
  <2>2. i <= m => as[i] = before[i]
    BY <1>4, <2>1
  <2>3. i <= m => i \in 1..m
    BY <1>3, <2>1
  <2>4. ~(i <= m)
    BY <2>2, <2>3 DEF Plain, m
  <2> QED
    BY <1>3, <2>1, <2>4
<1>6. Few(as)
  BY <1>2, <1>3, <1>5 DEF Few
<1> QED
  BY <1>4, <1>6 DEF as, new

LEMMA FewMore ==
  ASSUME NEW as \in Seq(Queued), Few(as), NEW more \in Seq(Queued), Plain(more)
  PROVE  as \o more \in Seq(Queued) /\ Few(as \o more)
<1> DEFINE new == as \o more
<1>1. /\ new \in Seq(Queued) /\ Len(new) = Len(as) + Len(more)
      /\ \A i \in 1..(Len(as) + Len(more)) : new[i] = IF i <= Len(as) THEN as[i] ELSE more[i - Len(as)]
  BY ConcatProperties
<1>2. Len(as) \in Nat /\ Len(more) \in Nat
  BY LenProperties
<1> DEFINE L == Len(as)
           M == Len(more)
<1> HIDE DEF new, L, M
<1>3. ASSUME NEW i \in 1..Len(new), new[i].id = "files_new"
      PROVE  i \in 1..Len(as) /\ as[i].id = "files_new"
  <2>0. i \in 1..(L + M) /\ L \in Nat /\ M \in Nat
    BY <1>1, <1>2 DEF L, M
  <2>1. CASE i <= L
    <3>1. i \in 1..L
      BY <2>0, <2>1
    <3> QED
      BY <1>1, <1>3, <2>0, <2>1, <3>1 DEF L, M
  <2>2. CASE ~(i <= L)
    <3>1. i - L \in 1..M
      BY <2>0, <2>2
    <3>2. new[i] = more[i - L]
      BY <1>1, <2>0, <2>2 DEF L, M
    <3> QED
      BY <1>3, <3>1, <3>2 DEF Plain, M
  <2> QED
    BY <2>1, <2>2
<1>4. Few(new)
  BY <1>3 DEF Few
<1> QED
  BY <1>1, <1>4 DEF new

LEMMA RemoveIs ==
  ASSUME NEW files \in SUBSET Path
  PROVE  /\ <<FilesRemove(files \cap File)>> \in Seq(Queued)
         /\ Plain(<<FilesRemove(files \cap File)>>)
<1>1. FilesRemove(files \cap File) \in Queued /\ FilesRemove(files \cap File).id = "files_remove"
  BY DEF FilesRemove, Queued
<1> QED
  BY <1>1 DEF Plain

LEMMA FileRemovedIs ==
  ASSUME NEW f \in File
  PROVE  /\ <<FileRemoved(f)>> \in Seq(Queued) /\ Plain(<<FileRemoved(f)>>)
         /\ GivesUp(<<FileRemoved(f)>>[1], f) /\ Len(<<FileRemoved(f)>>) = 1
<1>1. FileRemoved(f) \in Queued /\ FileRemoved(f).id = "file_remove" /\ FileRemoved(f).file = f
  BY DEF FileRemoved, Queued
<1> QED
  BY <1>1 DEF Plain, GivesUp

LEMMA BelowIs == \A p : Below(p) \subseteq Path /\ OnDisk(p) \subseteq Path
BY DEF Below, OnDisk

(* The files of each of a sequence of directories are given up.              *)
LEMMA AllRemovedIs ==
  ASSUME ListsTyped, NEW ds \in Seq(Addr)
  PROVE  LET as == [i \in 1..Len(ds) |-> FilesRemove(listed[ds[i]] \cap File)] IN
         as \in Seq(Queued) /\ Plain(as)
<1> DEFINE as == [i \in 1..Len(ds) |-> FilesRemove(listed[ds[i]] \cap File)]
<1>1. Len(ds) \in Nat
  BY LenProperties
<1>2. ASSUME NEW i \in 1..Len(ds)
      PROVE  /\ FilesRemove(listed[ds[i]] \cap File) \in Queued
             /\ FilesRemove(listed[ds[i]] \cap File).id = "files_remove"
  BY DEF FilesRemove, Queued
<1>3. as \in [1..Len(ds) -> Queued] /\ \A i \in 1..Len(ds) : as[i].id = "files_remove"
  BY <1>2
<1>4. as \in Seq(Queued) /\ Len(as) = Len(ds)
  <2>1. as \in [1..Len(ds) -> Queued]
    BY <1>3
  <2> HIDE DEF as
  <2> QED
    BY <1>1, <2>1, FunIsSeq
<1> HIDE DEF as
<1> QED
  BY <1>3, <1>4 DEF Plain, as

LEMMA AddDirsTyped ==
  ASSUME NEW mon \in [Place -> Addr \cup {None}], NEW ds \in Seq(Addr), NEW places
  PROVE  AddDirs(mon, ds, places) \in [Place -> Addr \cup {None}]
<1>1. ASSUME NEW p \in Place
      PROVE  LET first == {i \in 1..Len(ds) : /\ p \in places[ds[i]]
                                              /\ \A j \in 1..(i - 1) : p \notin places[ds[j]]}
             IN  (IF mon[p] # None \/ first = {} THEN mon[p] ELSE ds[CHOOSE i \in first : TRUE])
                   \in Addr \cup {None}
  <2> DEFINE first == {i \in 1..Len(ds) : /\ p \in places[ds[i]]
                                          /\ \A j \in 1..(i - 1) : p \notin places[ds[j]]}
  <2>1. CASE first = {}
    BY <2>1
  <2>2. CASE first # {}
    <3>1. (CHOOSE i \in first : TRUE) \in 1..Len(ds)
      <4>1. first \subseteq 1..Len(ds)
        OBVIOUS
      <4> HIDE DEF first
      <4> QED
        BY <2>2, <4>1
    <3> HIDE DEF first
    <3>2. ds[CHOOSE i \in first : TRUE] \in Addr
      BY <3>1, ElementOfSeq
    <3> QED
      BY <3>2 DEF first
  <2> QED
    BY <2>1, <2>2
<1> QED
  BY <1>1 DEF AddDirs


-------------------------------------------------------------------------------
(* The operations                                                            *)

Events == [Place -> Seq([kind : {"created", "deleted"}, path : Path])]

LEMMA PushKeeps ==
  ASSUME TagsOK, NEW new \in Seq(Queued), Few(new), Push(new),
         UNCHANGED <<docs, table, tags, freed, generate>>
  PROVE  TagsOK'
<1>1. docs' \subseteq File /\ docs' = docs
  BY DEF TagsOK, TagsTyped
<1> QED
  BY <1>1, PushOK

LEMMA RescanOK ==
  ASSUME ListsTyped, NEW ds \in Seq(Addr), NEW before \in Seq(Queued), Plain(before),
         NEW nowBase, WbProjectRescan(ds, before, nowBase)
  PROVE  /\ listed' \in [Addr -> SUBSET Path]
         /\ entries' \in [Place -> Addr \cup {None}]
         /\ followed' \subseteq Range(ds)
         /\ \E new \in Seq(Queued) : Few(new) /\ Push(new)
<1> DEFINE found == [a \in Range(ds) |-> Below(nowBase[a]) \cap disk]
           lists == [i \in 1..Len(ds) |-> found[ds[i]]]
           given == [i \in 1..Len(ds) |-> FilesRemove(listed[ds[i]] \cap File)]
<1>1. Len(ds) \in Nat /\ \A i \in 1..Len(ds) : ds[i] \in Range(ds)
  <2>1. DOMAIN ds = 1..Len(ds) /\ Len(ds) \in Nat
    BY LenProperties
  <2> QED
    BY <2>1 DEF Range
<1>2. \A a \in Range(ds) : found[a] \in SUBSET Path
  BY BelowIs
<1>3. lists \in Seq(SUBSET Path) /\ Len(lists) = Len(ds)
  <2>1. lists \in [1..Len(ds) -> SUBSET Path]
    BY <1>1, <1>2
  <2> HIDE DEF lists
  <2> QED
    BY <1>1, <2>1, FunIsSeq
<1>4. given \in Seq(Queued) /\ Plain(given)
  BY AllRemovedIs
<1>5. ds # <<>> => Room(Len(ds))
  BY DEF WbProjectRescan
<1>6. lists # <<>> => Room(Len(lists))
  <2> HIDE DEF lists
  <2>1. ds = <<>> => Len(lists) = 0
    BY <1>3
  <2>2. Len(lists) = 0 => lists = <<>>
    BY <1>3, EmptySeq
  <2> QED
    BY <1>3, <1>5, <2>1, <2>2
<1>7. Push(before \o given \o FilesNew(lists))
  BY Zenon DEF WbProjectRescan
<1>8. listed' = [a \in Addr |-> IF a \in Range(ds) THEN found[a] ELSE {}]
  BY Zenon DEF WbProjectRescan
<1>9. listed' \in [Addr -> SUBSET Path]
  BY <1>2, <1>8
<1>10. entries' \in [Place -> Addr \cup {None}]
  <2>1. PICK places : entries' = IF live THEN AddDirs(entries, ds, places) ELSE entries
    BY DEF WbProjectRescan
  <2> QED
    BY <2>1, AddDirsTyped DEF ListsTyped
<1>11. followed' \subseteq Range(ds)
  BY DEF WbProjectRescan
<1> HIDE DEF lists, given, found
<1>12. before \o given \in Seq(Queued) /\ Plain(before \o given)
  <2>1. Few(before)
    BY FewPlain
  <2>2. /\ before \o given \in Seq(Queued) /\ Len(before \o given) = Len(before) + Len(given)
        /\ \A i \in 1..(Len(before) + Len(given)) :
             (before \o given)[i] = IF i <= Len(before) THEN before[i] ELSE given[i - Len(before)]
    BY <1>4, ConcatProperties
  <2> DEFINE L == Len(before)
             M == Len(given)
             as == before \o given
  <2>3. L \in Nat /\ M \in Nat
    BY <1>4, LenProperties
  <2> HIDE DEF L, M, as
  <2>4. ASSUME NEW i \in 1..(L + M)
        PROVE  as[i].id # "files_new"
    <3>1. CASE i <= L
      <4>1. i \in 1..L
        BY <2>3, <3>1
      <4> QED
        BY <2>2, <3>1, <4>1 DEF Plain, L, M, as
    <3>2. CASE ~(i <= L)
      <4>1. i - L \in 1..M
        BY <2>3, <3>2
      <4> QED
        BY <1>4, <2>2, <3>2, <4>1 DEF Plain, L, M, as
    <3> QED
      BY <3>1, <3>2
  <2> QED
    BY <2>2, <2>4 DEF Plain, L, M, as
<1>13. /\ (before \o given) \o FilesNew(lists) \in Seq(Queued)
       /\ Few((before \o given) \o FilesNew(lists))
  BY <1>3, <1>6, <1>12, HandOver
<1> QED
  BY <1>7, <1>9, <1>10, <1>11, <1>13

LEMMA RescanOneIs ==
  ASSUME NEW X \in SUBSET Path, NEW Y \in SUBSET Path, Room(1)
  PROVE  /\ <<FilesRemove(X \cap File)>> \o FilesNew(<<Y>>) \in Seq(Queued)
         /\ Few(<<FilesRemove(X \cap File)>> \o FilesNew(<<Y>>))
<1>1. <<Y>> \in Seq(SUBSET Path) /\ Len(<<Y>>) = 1
  OBVIOUS
<1> QED
  BY <1>1, RemoveIs, HandOver

LEMMA ToldTyped ==
  ASSUME NEW ev \in Events, NEW kind \in {"created", "deleted"}, NEW q \in Path
  PROVE  Told(ev, kind, q) \in Events
<1>1. Parent[q] \in Place
  BY WorkbenchAssumption
<1>2. [kind |-> kind, path |-> q] \in [kind : {"created", "deleted"}, path : Path]
  OBVIOUS
<1>3. Append(ev[Parent[q]], [kind |-> kind, path |-> q])
        \in Seq([kind : {"created", "deleted"}, path : Path])
  BY <1>1, <1>2, AppendProperties DEF Events
<1> QED
  BY <1>1, <1>3 DEF Told, Events

LEMMA CreatedTyped ==
  ASSUME ListsTyped, NEW q \in Path, NEW content, Created(q, content)
  PROVE  disk' \subseteq Path /\ events' \in Events /\ dead' = dead
<1>1. content \subseteq Path
  BY BelowIs DEF Created
<1>2. events \in Events
  BY DEF ListsTyped, Events
<1> QED
  BY <1>1, <1>2, ToldTyped DEF Created, ListsTyped

LEMMA DeletedTyped ==
  ASSUME ListsTyped, NEW q \in Path, Deleted(q)
  PROVE  disk' \subseteq Path /\ events' \in Events /\ dead' \subseteq Folder
<1>1. events \in Events
  BY DEF ListsTyped, Events
<1> DEFINE ev == Told(events, "deleted", q)
<1>2. ev \in Events
  BY <1>1, ToldTyped
<1> HIDE DEF ev
<1>3. ASSUME q \in Folder
      PROVE  [ev EXCEPT ![q] = Append(@, [kind |-> "deleted", path |-> q])] \in Events
  <2>1. q \in Place
    BY <1>3 DEF Place
  <2>2. [kind |-> "deleted", path |-> q] \in [kind : {"created", "deleted"}, path : Path]
    OBVIOUS
  <2>3. Append(ev[q], [kind |-> "deleted", path |-> q])
          \in Seq([kind : {"created", "deleted"}, path : Path])
    BY <1>2, <2>1, <2>2, AppendProperties DEF Events
  <2> QED
    BY <1>2, <2>1, <2>3 DEF Events
<1>4. events' \in ToldItself(ev, q) \cup {ev}
  BY DEF Deleted, ev
<1>5. events' \in Events
  BY <1>2, <1>3, <1>4 DEF ToldItself
<1> QED
  BY <1>5 DEF Deleted, ListsTyped


LEMMA DiskOK ==
  ASSUME WbIInv, NEW q \in Path, NEW content, DiskCreate(q, content) \/ DiskDelete(q)
  PROVE  WbIInv'
<1>1. ListsTyped /\ TagsOK
  BY DEF WbIInv
<1>2. /\ disk' \subseteq Path /\ events' \in Events /\ dead' \subseteq Folder
      /\ UNCHANGED <<wbVars, tagVars>>
  BY <1>1, CreatedTyped, DeletedTyped DEF DiskCreate, DiskDelete, ListsTyped
<1>3. ListsTyped'
  BY <1>1, <1>2 DEF ListsTyped, Events, wbVars
<1>4. TagsOK'
  BY <1>1, <1>2, TagsKept DEF wbVars
<1> QED
  BY <1>3, <1>4 DEF WbIInv

LEMMA RemoveDirectoryOK ==
  ASSUME WbIInv, NEW a \in Addr, RemoveDirectory(a)
  PROVE  WbIInv'
<1>1. ListsTyped /\ TagsOK
  BY DEF WbIInv
<1>2. PICK i \in DOMAIN dirs : dirs' = RemoveAt(dirs, i)
  BY DEF RemoveDirectory
<1>3. PICK ds : ds = dirs'
  OBVIOUS
<1>4. ds \in Seq(Addr)
  <2>1. dirs \in Seq(Addr) /\ i \in 1..Len(dirs) /\ Len(dirs) \in Nat
    BY <1>1, LenProperties DEF ListsTyped
  <2>2. /\ \A j \in 1..(i - 1) : dirs[j] \in Addr
        /\ \A j \in (i + 1)..Len(dirs) : dirs[j] \in Addr
    BY <2>1
  <2>3. SubSeq(dirs, 1, i - 1) \in Seq(Addr) /\ SubSeq(dirs, i + 1, Len(dirs)) \in Seq(Addr)
    BY <2>1, <2>2, SubSeqProperties
  <2> QED
    BY <1>2, <1>3, <2>3, ConcatProperties DEF RemoveAt
<1> DEFINE before == <<FilesRemove(listed[a] \cap File)>>
<1>5. before \in Seq(Queued) /\ Plain(before)
  BY <1>1, RemoveIs DEF ListsTyped
<1>6. WbProjectRescan(ds, before, base)
  BY <1>3 DEF RemoveDirectory
<1> HIDE DEF before
<1>7. /\ listed' \in [Addr -> SUBSET Path]
      /\ entries' \in [Place -> Addr \cup {None}]
      /\ followed' \subseteq Range(ds)
      /\ \E new \in Seq(Queued) : Few(new) /\ Push(new)
  BY <1>1, <1>4, <1>5, <1>6, RescanOK
<1>8. saved' \in Seq(Base)
  <2>1. saved' = [j \in 1..Len(ds) |-> base[ds[j]]]
    BY <1>3 DEF RemoveDirectory, Saved
  <2>2. Len(ds) \in Nat /\ \A j \in 1..Len(ds) : ds[j] \in Addr
    BY <1>4, LenProperties, ElementOfSeq
  <2>3. saved' \in [1..Len(ds) -> Base]
    BY <1>1, <2>1, <2>2 DEF ListsTyped
  <2> QED
    BY <2>2, <2>3, FunIsSeq
<1>9. /\ opened /\ has
      /\ UNCHANGED <<diskVars, opened, has, generate, live, base, docs, table, tags, freed>>
  BY DEF RemoveDirectory, InProject
<1>10. ListsTyped'
  BY <1>1, <1>3, <1>4, <1>7, <1>8, <1>9 DEF ListsTyped, diskVars
<1>11. TagsOK'
  BY <1>1, <1>7, <1>9, PushKeeps
<1> QED
  BY <1>10, <1>11 DEF WbIInv

LEMMA AddDirectoryOK ==
  ASSUME WbIInv, NEW a \in Addr, NEW b \in Base, AddDirectory(b, a)
  PROVE  WbIInv'
<1>1. ListsTyped /\ TagsOK
  BY DEF WbIInv
<1>2. PICK i \in 0..Len(dirs) : dirs' = InsertAt(dirs, i + 1, a)
  BY DEF AddDirectory, WbProjectAddDirectory
<1>3. PICK ds, nowBase : ds = dirs' /\ nowBase = base'
  OBVIOUS
<1>4. ds \in Seq(Addr)
  <2>1. dirs \in Seq(Addr) /\ Len(dirs) \in Nat /\ i \in Nat
    BY <1>1, LenProperties DEF ListsTyped
  <2>2. /\ \A j \in 1..i : dirs[j] \in Addr
        /\ \A j \in (i + 1)..Len(dirs) : dirs[j] \in Addr
    BY <2>1
  <2>3. SubSeq(dirs, 1, i) \in Seq(Addr) /\ SubSeq(dirs, i + 1, Len(dirs)) \in Seq(Addr)
    BY <2>1, <2>2, SubSeqProperties
  <2>4. <<a>> \in Seq(Addr) /\ (i + 1) - 1 = i
    BY <2>1
  <2>5. (SubSeq(dirs, 1, i) \o <<a>>) \o SubSeq(dirs, i + 1, Len(dirs)) \in Seq(Addr)
    BY <2>3, <2>4, ConcatProperties
  <2> QED
    BY <1>2, <1>3, <2>4, <2>5 DEF InsertAt
<1>5. <<>> \in Seq(Queued) /\ Plain(<<>>)
  BY EmptySeq DEF Plain
<1>6. WbProjectRescan(ds, <<>>, nowBase) /\ nowBase = [base EXCEPT ![a] = b]
  BY <1>3 DEF AddDirectory, WbProjectAddDirectory
<1>7. /\ listed' \in [Addr -> SUBSET Path]
      /\ entries' \in [Place -> Addr \cup {None}]
      /\ followed' \subseteq Range(ds)
      /\ \E new \in Seq(Queued) : Few(new) /\ Push(new)
  BY <1>1, <1>4, <1>5, <1>6, RescanOK
<1>8. nowBase \in [Addr -> Base]
  BY <1>1, <1>6 DEF ListsTyped
<1>9. saved' \in Seq(Base)
  <2>1. saved' = [j \in 1..Len(ds) |-> nowBase[ds[j]]]
    BY <1>3 DEF AddDirectory, Saved
  <2>2. Len(ds) \in Nat /\ \A j \in 1..Len(ds) : ds[j] \in Addr
    BY <1>4, LenProperties, ElementOfSeq
  <2>3. saved' \in [1..Len(ds) -> Base]
    BY <1>8, <2>1, <2>2
  <2> QED
    BY <2>2, <2>3, FunIsSeq
<1>10. /\ opened /\ has
       /\ UNCHANGED <<diskVars, opened, has, generate, live, docs, table, tags, freed>>
  BY DEF AddDirectory
<1>11. ListsTyped'
  BY <1>1, <1>3, <1>4, <1>7, <1>8, <1>9, <1>10 DEF ListsTyped, diskVars
<1>12. TagsOK'
  BY <1>1, <1>7, <1>10, PushKeeps
<1> QED
  BY <1>11, <1>12 DEF WbIInv

LEMMA RescanDirectoryOK ==
  ASSUME WbIInv, NEW a \in Addr, RescanDirectory(a)
  PROVE  WbIInv'
<1>1. ListsTyped /\ TagsOK
  BY DEF WbIInv
<1> DEFINE new == <<FilesRemove(listed[a] \cap File)>> \o FilesNew(<<OnDisk(base[a])>>)
<1>2. Room(1) /\ Push(new) /\ listed' = [listed EXCEPT ![a] = OnDisk(base[a])]
  BY DEF RescanDirectory, WbProjectDirRescan
<1>3. new \in Seq(Queued) /\ Few(new)
  <2>1. listed[a] \in SUBSET Path /\ OnDisk(base[a]) \in SUBSET Path
    BY <1>1, BelowIs DEF ListsTyped
  <2> QED
    BY <1>2, <2>1, RescanOneIs
<1> HIDE DEF new
<1>4. UNCHANGED <<diskVars, opened, has, saved, generate, live, dirs, base, entries, followed,
                  docs, table, tags, freed>>
  BY DEF RescanDirectory
<1>5. listed' \in [Addr -> SUBSET Path]
  BY <1>1, <1>2, BelowIs DEF ListsTyped
<1>6. ListsTyped'
  BY <1>1, <1>4, <1>5 DEF ListsTyped, diskVars
<1>7. TagsOK'
  BY <1>1, <1>2, <1>3, <1>4, PushKeeps
<1> QED
  BY <1>6, <1>7 DEF WbIInv

LEMMA SetLiveUpdateOK ==
  ASSUME WbIInv, SetLiveUpdate
  PROVE  WbIInv'
<1>1. ListsTyped /\ TagsOK
  BY DEF WbIInv
<1>2. UNCHANGED <<disk, opened, has, saved, generate, dirs, base, listed, tagVars>>
  BY DEF SetLiveUpdate
<1>3. entries' \in [Place -> Addr \cup {None}]
  <2>1. PICK places : entries' = IF live THEN [p \in Place |-> None] ELSE AddDirs(entries, dirs, places)
    BY DEF SetLiveUpdate
  <2>2. AddDirs(entries, dirs, places) \in [Place -> Addr \cup {None}]
    BY <1>1, AddDirsTyped DEF ListsTyped
  <2> QED
    BY <2>1, <2>2
<1>4. events' \in Events
  <2>1. events' = [p \in Place |-> IF live THEN <<>> ELSE events[p]]
    BY DEF SetLiveUpdate
  <2> QED
    BY <1>1, <2>1, EmptySeq DEF ListsTyped, Events
<1>5. dead' \subseteq Folder /\ followed' \subseteq followed /\ live' \in BOOLEAN
  BY <1>1 DEF SetLiveUpdate, ListsTyped
<1>6. ListsTyped'
  BY <1>1, <1>2, <1>3, <1>4, <1>5 DEF ListsTyped, Events
<1>7. TagsOK'
  BY <1>1, <1>2, TagsKept
<1> QED
  BY <1>6, <1>7 DEF WbIInv

LEMMA ClosedOK ==
  ASSUME WbIInv, CloseWorkbench \/ RemoveProject
  PROVE  WbIInv'
<1>1. ListsTyped /\ TagsOK
  BY DEF WbIInv
<1>2. /\ Push(AllRemoved) /\ dirs' = <<>> /\ listed' = [a \in Addr |-> {}] /\ followed' = {}
      /\ UNCHANGED <<disk, saved, generate, live, base, docs, table, tags, freed>>
      /\ opened' \in {opened, FALSE} /\ has' \in {has, FALSE}
      /\ entries' \in {entries, [p \in Place |-> None]}
      /\ dead' \in {dead, {}} /\ events' \in {events, [p \in Place |-> <<>>]}
  BY DEF CloseWorkbench, RemoveProject, diskVars
<1>3. AllRemoved \in Seq(Queued) /\ Few(AllRemoved)
  <2>1. AllRemoved \in Seq(Queued) /\ Plain(AllRemoved)
    BY <1>1, AllRemovedIs DEF AllRemoved, ListsTyped
  <2> QED
    BY <2>1, FewPlain
<1>4. TagsOK'
  BY <1>1, <1>2, <1>3, PushKeeps
<1>5. events' \in Events /\ dirs' \in Seq(Addr) /\ entries' \in [Place -> Addr \cup {None}]
  BY <1>1, <1>2, EmptySeq DEF ListsTyped, Events
<1>6. ListsTyped'
  BY <1>1, <1>2, <1>5 DEF ListsTyped, Events
<1> QED
  BY <1>4, <1>6 DEF WbIInv

(* A project that is loaded, with or without a rescan.                       *)
LEMMA LoadedOK ==
  ASSUME WbIInv, NEW rescan \in BOOLEAN, LoadProject(rescan),
         UNCHANGED <<diskVars, saved, generate, live, docs, table, tags, freed>>,
         opened' = TRUE, has' = TRUE, ~opened \/ ~has
  PROVE  WbIInv'
<1>1. ListsTyped /\ TagsOK
  BY DEF WbIInv
<1> DEFINE Placed(ds) == [a \in Addr |-> IF a \in Range(ds)
                                       THEN saved[CHOOSE i \in 1..Len(ds) : ds[i] = a] ELSE base[a]]
<1>2. PICK nowBase : nowBase = base'
  OBVIOUS
<1>3. PICK ds \in [1..Len(saved) -> Addr] :
        /\ dirs' = ds
        /\ nowBase = Placed(ds)
        /\ IF rescan THEN WbProjectRescan(ds, <<>>, nowBase)
           ELSE UNCHANGED <<listed, actions, entries, followed>>
  BY <1>2 DEF LoadProject
<1>4. ds \in Seq(Addr) /\ Len(ds) = Len(saved) /\ Len(saved) \in Nat
  BY <1>1, LenProperties, FunIsSeq DEF ListsTyped
<1>5. nowBase \in [Addr -> Base]
  <2>1. ASSUME NEW a \in Range(ds)
        PROVE  saved[CHOOSE i \in 1..Len(ds) : ds[i] = a] \in Base
    <3>1. \E i \in 1..Len(ds) : ds[i] = a
      BY <1>4 DEF Range
    <3>2. (CHOOSE i \in 1..Len(ds) : ds[i] = a) \in 1..Len(saved)
      BY <1>4, <3>1
    <3> QED
      BY <1>1, <3>2, ElementOfSeq DEF ListsTyped
  <2> QED
    BY <1>1, <1>3, <2>1 DEF ListsTyped
<1>6. CASE rescan
  <2>1. WbProjectRescan(ds, <<>>, nowBase)
    BY <1>3, <1>6
  <2>2. <<>> \in Seq(Queued) /\ Plain(<<>>)
    BY EmptySeq DEF Plain
  <2>3. /\ listed' \in [Addr -> SUBSET Path]
        /\ entries' \in [Place -> Addr \cup {None}]
        /\ followed' \subseteq Range(ds)
        /\ \E new \in Seq(Queued) : Few(new) /\ Push(new)
    BY <1>1, <1>4, <2>1, <2>2, RescanOK
  <2>4. ListsTyped'
    BY <1>1, <1>2, <1>3, <1>4, <1>5, <2>3 DEF ListsTyped, diskVars
  <2>5. TagsOK'
    BY <1>1, <2>3, PushKeeps
  <2> QED
    BY <2>4, <2>5 DEF WbIInv
<1>7. CASE ~rescan
  <2>1. followed \subseteq Range(ds)
    BY <1>1 DEF ListsTyped
  <2>2. ListsTyped'
    BY <1>1, <1>2, <1>3, <1>4, <1>5, <1>7, <2>1 DEF ListsTyped, diskVars
  <2>3. TagsOK'
    BY <1>1, <1>3, <1>7, TagsKept DEF tagVars
  <2> QED
    BY <2>2, <2>3 DEF WbIInv
<1> QED
  BY <1>6, <1>7

LEMMA OpenedOK ==
  ASSUME WbIInv, NEW rescan \in BOOLEAN, OpenWorkbench(rescan) \/ AddProject(rescan)
  PROVE  WbIInv'
<1>1. ListsTyped /\ TagsOK
  BY DEF WbIInv
<1>2. CASE AddProject(rescan)
  BY <1>1, <1>2, LoadedOK DEF AddProject, ListsTyped
<1>3. CASE OpenWorkbench(rescan) /\ has
  BY <1>1, <1>3, LoadedOK DEF OpenWorkbench, ListsTyped
<1>4. CASE OpenWorkbench(rescan) /\ ~has
  <2>1. /\ opened' = TRUE /\ followed = {}
        /\ UNCHANGED <<disk, events, dead, has, saved, generate, live, docs, table, tags, freed,
                       dirs, base, listed, actions, entries, followed>>
    BY <1>1, <1>4 DEF OpenWorkbench, diskVars, ListsTyped
  <2>2. ListsTyped'
    BY <1>1, <2>1 DEF ListsTyped
  <2>3. TagsOK'
    BY <1>1, <2>1, TagsKept DEF tagVars
  <2> QED
    BY <2>2, <2>3 DEF WbIInv
<1> QED
  BY <1>2, <1>3, <1>4

LEMMA DocumentOK ==
  ASSUME WbIInv, NEW f \in File, DocumentOpen(f) \/ DocumentClose(f)
  PROVE  WbIInv'
<1>1. ListsTyped /\ TagsOK
  BY DEF WbIInv
<1>2. UNCHANGED <<diskVars, wbVars, table, tags, freed>>
  BY DEF DocumentOpen, DocumentClose
<1>3. ListsTyped'
  BY <1>1, <1>2 DEF ListsTyped, diskVars, wbVars
<1>4. CASE DocumentOpen(f)
  <2> DEFINE new == <<FileRemoved(f)>>
  <2>1. new \in Seq(Queued) /\ Few(new) /\ GivesUp(new[1], f) /\ Len(new) = 1
    BY FileRemovedIs, FewPlain
  <2>2. Push(new) /\ docs' = docs \cup {f}
    BY <1>4 DEF DocumentOpen
  <2> HIDE DEF new
  <2>3. docs' \subseteq File /\ \A g \in docs' \ docs : \E i \in 1..Len(new) : GivesUp(new[i], g)
    BY <1>1, <2>1, <2>2 DEF TagsOK, TagsTyped
  <2>4. TagsOK'
    BY <1>1, <1>2, <2>1, <2>2, <2>3, PushOK DEF wbVars
  <2> QED
    BY <1>3, <2>4 DEF WbIInv
<1>5. CASE DocumentClose(f)
  <2> DEFINE new == <<[id |-> "file_add", file |-> f]>>
  <2>1. new \in Seq(Queued) /\ Few(new)
    <3>1. [id |-> "file_add", file |-> f] \in Queued
      BY DEF Queued
    <3>2. new \in Seq(Queued) /\ Plain(new)
      BY <3>1 DEF Plain
    <3> QED
      BY <3>2, FewPlain
  <2>2. Push(new) /\ docs' = docs \ {f}
    BY <1>5 DEF DocumentClose
  <2> HIDE DEF new
  <2>3. docs' \subseteq File /\ docs' \ docs = {}
    BY <1>1, <2>2 DEF TagsOK, TagsTyped
  <2>4. TagsOK'
    BY <1>1, <1>2, <2>1, <2>2, <2>3, PushOK DEF wbVars
  <2> QED
    BY <1>3, <2>4 DEF WbIInv
<1> QED
  BY <1>4, <1>5

(* A file made here and opened is given up after what was handed over.       *)
LEMMA NewHereOK ==
  ASSUME WbIInv, NEW a \in Addr, NEW q \in Path, NewHere(a, q)
  PROVE  WbIInv'
<1>1. ListsTyped /\ TagsOK
  BY DEF WbIInv
<1> DEFINE opens == IF q \in File THEN <<FileRemoved(q)>> ELSE <<>>
<1>2. PICK found : found = disk' \cap Below(base[a])
  OBVIOUS
<1> DEFINE given == <<FilesRemove(listed[a] \cap File)>> \o FilesNew(<<found>>)
<1>3. /\ Created(q, {}) /\ docs' = docs \cup ({q} \cap File)
      /\ UNCHANGED <<opened, has, saved, generate, live, dirs, base, entries, followed,
                     table, tags, freed>>
      /\ \/ live /\ Push(opens) /\ UNCHANGED listed
         \/ ~live /\ Room(1) /\ listed' = [listed EXCEPT ![a] = found] /\ Push(given \o opens)
  BY <1>2 DEF NewHere
<1>4. disk' \subseteq Path /\ events' \in Events /\ dead' = dead
  BY <1>1, <1>3, CreatedTyped
<1>5. found \in SUBSET Path /\ listed[a] \in SUBSET Path
  BY <1>1, <1>2, <1>4 DEF ListsTyped
<1>6. ListsTyped'
  BY <1>1, <1>3, <1>4, <1>5 DEF ListsTyped, Events
<1>7. /\ opens \in Seq(Queued) /\ Plain(opens)
      /\ q \in File => Len(opens) = 1 /\ GivesUp(opens[1], q)
  <2>1. <<>> \in Seq(Queued) /\ Plain(<<>>)
    BY EmptySeq DEF Plain
  <2> QED
    BY <2>1, FileRemovedIs
<1>8. docs' \subseteq File /\ docs' \ docs \subseteq {q} \cap File
  BY <1>1, <1>3 DEF TagsOK, TagsTyped
<1> HIDE DEF opens
<1>9. CASE live
  <2>1. Push(opens) /\ Few(opens)
    BY <1>3, <1>7, <1>9, FewPlain
  <2>2. \A f \in docs' \ docs : \E i \in 1..Len(opens) : GivesUp(opens[i], f)
    BY <1>7, <1>8
  <2>3. TagsOK'
    BY <1>1, <1>3, <1>7, <1>8, <2>1, <2>2, PushOK
  <2> QED
    BY <1>6, <2>3 DEF WbIInv
<1>10. CASE ~live
  <2>1. Room(1) /\ Push(given \o opens)
    BY <1>3, <1>10
  <2>2. given \in Seq(Queued) /\ Few(given)
    BY <1>5, <2>1, RescanOneIs
  <2> HIDE DEF given
  <2> DEFINE new == given \o opens
             L == Len(given)
  <2>3. new \in Seq(Queued) /\ Few(new)
    BY <1>7, <2>2, FewMore
  <2>4. /\ Len(new) = Len(given) + Len(opens)
        /\ \A i \in 1..(Len(given) + Len(opens)) :
             new[i] = IF i <= Len(given) THEN given[i] ELSE opens[i - Len(given)]
    BY <1>7, <2>2, ConcatProperties
  <2>5. L \in Nat
    BY <2>2, LenProperties
  <2> HIDE DEF new, L
  <2>6. q \in File => L + 1 \in 1..Len(new) /\ new[L + 1] = opens[1]
    <3> SUFFICES ASSUME q \in File
                 PROVE  L + 1 \in 1..Len(new) /\ new[L + 1] = opens[1]
      OBVIOUS
    <3>1. Len(new) = L + 1 /\ \A i \in 1..(L + 1) : new[i] = IF i <= L THEN given[i] ELSE opens[i - L]
      BY <1>7, <2>4 DEF L
    <3>2. L + 1 \in 1..(L + 1) /\ ~(L + 1 <= L) /\ (L + 1) - L = 1
      BY <2>5
    <3> QED
      BY <3>1, <3>2
  <2>7. \A f \in docs' \ docs : \E i \in 1..Len(new) : GivesUp(new[i], f)
    BY <1>7, <1>8, <2>6
  <2>8. TagsOK'
    BY <1>1, <1>3, <1>8, <2>1, <2>3, <2>7, PushOK DEF new
  <2> QED
    BY <1>6, <2>8 DEF WbIInv
<1> QED
  BY <1>9, <1>10

EventOf == [kind : {"created", "deleted"}, path : Path]

LEMMA DeletionsTyped ==
  ASSUME NEW gone \in SUBSET Path
  PROVE  Deletions(gone) \in Seq(EventOf)
<1>1. IsFiniteSet(gone)
  BY WorkbenchAssumption, FS_Subset
<1> DEFINE n == Cardinality(gone)
           names == SetToSeq(gone)
<1>2. n \in Nat /\ names \in [1..n -> gone]
  BY <1>1, SetToSeqIs
<1>3. Deletions(gone) = [i \in 1..n |-> [kind |-> "deleted", path |-> names[i]]]
  BY DEF Deletions
<1> HIDE DEF n, names
<1>4. Deletions(gone) \in [1..n -> EventOf]
  BY <1>2, <1>3 DEF EventOf
<1> QED
  BY <1>2, <1>4, FunIsSeq

LEMMA ToldAllTyped ==
  ASSUME NEW ev \in Events, NEW gone \in SUBSET Path
  PROVE  ToldAll(ev, gone) \in Events
<1>1. ASSUME NEW p \in Place
      PROVE  LET here == {q \in gone : Parent[q] = p} IN
             ev[p] \o Deletions(here \cap File) \o Deletions(here \cap Folder) \in Seq(EventOf)
  <2> DEFINE here == {q \in gone : Parent[q] = p}
  <2>1. here \cap File \in SUBSET Path /\ here \cap Folder \in SUBSET Path
    OBVIOUS
  <2> HIDE DEF here
  <2>2. Deletions(here \cap File) \in Seq(EventOf) /\ Deletions(here \cap Folder) \in Seq(EventOf)
    BY <2>1, DeletionsTyped
  <2>3. ev[p] \in Seq(EventOf)
    BY DEF Events, EventOf
  <2> QED
    BY <2>2, <2>3, ConcatProperties DEF here
<1>2. \A p \in Place : ev[p] \in Seq(EventOf)
  BY DEF Events, EventOf
<1>3. ToldAll(ev, gone) \in [Place -> Seq(EventOf)]
  BY <1>1, <1>2 DEF ToldAll
<1> QED
  BY <1>3 DEF Events, EventOf

LEMMA RemoveHereOK ==
  ASSUME WbIInv, NEW a \in Addr, NEW q \in Path, RemoveHere(a, q)
  PROVE  WbIInv'
<1>1. ListsTyped /\ TagsOK
  BY DEF WbIInv
<1>2. PICK gone, found :
        /\ gone \subseteq Path /\ found = OnDisk(base[a]) \ gone
        /\ Room(1)
        /\ disk' = disk \ gone /\ events' = ToldAll(events, gone)
        /\ dead' = dead \cup {p \in gone \cap Folder : entries[p] # None}
        /\ listed' = [listed EXCEPT ![a] = found]
        /\ Push(<<FilesRemove(listed[a] \cap File)>> \o FilesNew(<<found>>))
  <2> DEFINE files == ({q} \cup Below(q)) \cap listed[a] \cap disk \cap File
             left == disk \ files
             bare == {p \in Below(q) \cap listed[a] \cap left : Below(p) \cap left = {}}
             gone == files \cup bare \cup
                       (IF q \in Folder /\ Below(q) \cap left \subseteq bare THEN {q} ELSE {})
             found == OnDisk(base[a]) \ gone
  <2>1. files \subseteq Path /\ bare \subseteq Path
    BY BelowIs DEF Path
  <2>2. gone \subseteq Path
    BY <2>1
  <2>3. /\ Room(1)
        /\ disk' = disk \ gone /\ events' = ToldAll(events, gone)
        /\ dead' = dead \cup {p \in gone \cap Folder : entries[p] # None}
        /\ listed' = [listed EXCEPT ![a] = found]
        /\ Push(<<FilesRemove(listed[a] \cap File)>> \o FilesNew(<<found>>))
    BY DEF RemoveHere
  <2> HIDE DEF gone
  <2> QED
    BY <2>2, <2>3
<1>3. UNCHANGED <<opened, has, saved, generate, live, dirs, base, entries, followed,
                  docs, table, tags, freed>>
  BY DEF RemoveHere
<1> DEFINE new == <<FilesRemove(listed[a] \cap File)>> \o FilesNew(<<found>>)
<1>4. found \in SUBSET Path /\ listed[a] \in SUBSET Path
  BY <1>1, <1>2, BelowIs DEF ListsTyped
<1>5. new \in Seq(Queued) /\ Few(new)
  BY <1>2, <1>4, RescanOneIs
<1>6. events' \in Events
  BY <1>1, <1>2, ToldAllTyped DEF ListsTyped, Events
<1>7. ListsTyped'
  BY <1>1, <1>2, <1>3, <1>4, <1>6 DEF ListsTyped, Events
<1>8. TagsOK'
  <2> HIDE DEF new
  <2>1. Push(new)
    BY <1>2 DEF new
  <2> QED
    BY <1>1, <1>3, <1>5, <2>1, PushKeeps
<1> QED
  BY <1>7, <1>8 DEF WbIInv

LEMMA FilesRemovedIs ==
  ASSUME NEW gone \in SUBSET File
  PROVE  LET as == [i \in 1..Cardinality(gone) |-> FileRemoved(SetToSeq(gone)[i])] IN
         as \in Seq(Queued) /\ Few(as)
<1>1. IsFiniteSet(gone)
  BY WorkbenchAssumption, FS_Subset DEF Path
<1> DEFINE n == Cardinality(gone)
           names == SetToSeq(gone)
           as == [i \in 1..n |-> FileRemoved(names[i])]
<1>2. n \in Nat /\ names \in [1..n -> gone]
  BY <1>1, SetToSeqIs
<1> HIDE DEF n, names
<1>3. as \in [1..n -> Queued] /\ \A i \in 1..n : as[i].id # "files_new"
  BY <1>2 DEF FileRemoved, Queued
<1> HIDE DEF as
<1>4. as \in Seq(Queued) /\ Plain(as)
  BY <1>2, <1>3, FunIsSeq DEF Plain
<1>5. as \in Seq(Queued) /\ Few(as)
  BY <1>4, FewPlain
<1> QED
  BY <1>5 DEF as, n, names

LEMMA MonitorOK ==
  ASSUME WbIInv, NEW p \in Place, WbMonitorFileChangedCb(p)
  PROVE  WbIInv'
<1>1. ListsTyped /\ TagsOK
  BY DEF WbIInv
<1> DEFINE e == Head(events[p])
           ev == [events EXCEPT ![p] = Tail(@)]
           a == entries[p]
<1>2. /\ UNCHANGED <<disk, opened, has, saved, generate, live, dirs, base, followed,
                     docs, table, tags, freed>>
      /\ \/ /\ ~InProject(a)
            /\ events' = ev /\ UNCHANGED <<listed, entries, dead, actions>>
         \/ /\ InProject(a)
            /\ WbProjectDirAddFile(a, e.path, ev) /\ UNCHANGED <<dead, actions>>
         \/ /\ InProject(a)
            /\ WbProjectDirRemoveFile(a, e.path, ev)
  <2>1. events[p] \in Seq(EventOf) /\ events[p] # <<>>
    BY <1>1 DEF ListsTyped, EventOf, WbMonitorFileChangedCb
  <2>2. e \in EventOf
    BY <2>1, HeadTailProperties
  <2>3. e.kind = "created" \/ e.kind = "deleted"
    BY <2>2 DEF EventOf
  <2> QED
    BY <2>3 DEF WbMonitorFileChangedCb
<1>3. ev \in Events /\ e \in EventOf
  <2>1. events[p] \in Seq(EventOf) /\ events[p] # <<>>
    BY <1>1 DEF ListsTyped, EventOf, WbMonitorFileChangedCb
  <2>2. Head(events[p]) \in EventOf /\ Tail(events[p]) \in Seq(EventOf)
    BY <2>1, HeadTailProperties
  <2> QED
    BY <1>1, <2>2 DEF ListsTyped, Events, EventOf
<1>4. InProject(a) => a \in Addr
  <2>1. dirs \in Seq(Addr) /\ DOMAIN dirs = 1..Len(dirs)
    BY <1>1, LenProperties DEF ListsTyped
  <2> QED
    BY <2>1, ElementOfSeq DEF InProject, Range
<1> PICK q : q = e.path
  OBVIOUS
<1>5. q \in Path
  BY <1>3 DEF EventOf
<1> HIDE DEF ev, a, e
<1>6. CASE ~InProject(a) /\ events' = ev /\ UNCHANGED <<listed, entries, dead, actions>>
  <2>1. ListsTyped'
    BY <1>1, <1>2, <1>3, <1>6 DEF ListsTyped, Events
  <2>2. TagsOK'
    BY <1>1, <1>2, <1>6, TagsKept DEF tagVars
  <2> QED
    BY <2>1, <2>2 DEF WbIInv
<1>7. CASE InProject(a) /\ WbProjectDirAddFile(a, q, ev) /\ UNCHANGED <<dead, actions>>
  <2>1. /\ events' = ev
        /\ \/ UNCHANGED <<listed, entries>>
           \/ \E new \in SUBSET Path :
                /\ listed' = [listed EXCEPT ![a] = @ \cup new]
                /\ entries' = IF live THEN AddDir(entries, a, new \cap Folder) ELSE entries
    <3>1. {q} \cup (Below(q) \cap disk) \in SUBSET Path
      BY <1>5, BelowIs
    <3> QED
      BY <1>7, <3>1 DEF WbProjectDirAddFile
  <2>2. listed' \in [Addr -> SUBSET Path]
    BY <1>1, <1>4, <1>7, <2>1 DEF ListsTyped
  <2>3. \A new : AddDir(entries, a, new) \in [Place -> Addr \cup {None}]
    <3>1. entries \in [Place -> Addr \cup {None}] /\ <<a>> \in Seq(Addr)
      BY <1>1, <1>4, <1>7 DEF ListsTyped
    <3>2. \A new : AddDirs(entries, <<a>>, [d \in {a} |-> new]) \in [Place -> Addr \cup {None}]
      BY <3>1, AddDirsTyped
    <3> QED
      BY <3>2 DEF AddDir
  <2>4. entries' \in [Place -> Addr \cup {None}]
    <3>1. PICK new : entries' = entries \/ entries' = AddDir(entries, a, new)
      BY <2>1
    <3> QED
      BY <1>1, <2>3, <3>1 DEF ListsTyped
  <2>5. ListsTyped'
    BY <1>1, <1>2, <1>3, <1>7, <2>1, <2>2, <2>4 DEF ListsTyped, Events
  <2>6. TagsOK'
    BY <1>1, <1>2, <1>7, TagsKept DEF tagVars
  <2> QED
    BY <2>5, <2>6 DEF WbIInv
<1>8. CASE InProject(a) /\ WbProjectDirRemoveFile(a, q, ev)
  <2>1. PICK gone, wasDir :
          /\ wasDir => q \in Folder
          /\ Push([i \in 1..Cardinality(gone \cap File) |-> FileRemoved(SetToSeq(gone \cap File)[i])])
          /\ listed' = [listed EXCEPT ![a] = @ \ gone]
          /\ entries' = (IF wasDir THEN [entries EXCEPT ![q] = None] ELSE entries)
          /\ dead' = dead \ {q}
          /\ events' = (IF wasDir THEN [ev EXCEPT ![q] = <<>>] ELSE ev)
    BY <1>8 DEF WbProjectDirRemoveFile
  <2>2. listed' \in [Addr -> SUBSET Path]
    BY <1>1, <1>4, <1>8, <2>1 DEF ListsTyped
  <2>3. entries' \in [Place -> Addr \cup {None}]
    BY <1>1, <2>1 DEF ListsTyped
  <2>4. events' \in Events
    BY <1>3, <2>1, EmptySeq DEF Events
  <2>5. ListsTyped'
    BY <1>1, <1>2, <2>1, <2>2, <2>3, <2>4 DEF ListsTyped, Events
  <2>6. TagsOK'
    <3> DEFINE new == [i \in 1..Cardinality(gone \cap File) |-> FileRemoved(SetToSeq(gone \cap File)[i])]
    <3>1. new \in Seq(Queued) /\ Few(new)
      BY FilesRemovedIs
    <3>2. Push(new)
      BY <2>1
    <3> HIDE DEF new
    <3> QED
      BY <1>1, <1>2, <3>1, <3>2, PushKeeps
  <2> QED
    BY <2>5, <2>6 DEF WbIInv
<1> QED
  BY <1>2, <1>6, <1>7, <1>8

-------------------------------------------------------------------------------
(* The invariant and what follows from it                                    *)

LEMMA WbInit == WorkbenchInit => WbIInv
<1> SUFFICES ASSUME WorkbenchInit
             PROVE  WbIInv
  OBVIOUS
<1>1. ListsTyped
  BY EmptySeq DEF WorkbenchInit, ListsTyped, Range
<1>2. TagsTyped
  BY EmptySeq, WorkbenchAssumption DEF WorkbenchInit, TagsTyped, None
<1>3. HandedOver(actions) = {} /\ Cardinality({}) = 0
  BY FS_EmptySet DEF WorkbenchInit, HandedOver
<1>4. \A f \in File : InUse(f) = {}
  <2> SUFFICES ASSUME NEW f \in File, NEW n \in 1..MaxSources
               PROVE  ~(tags[<<f, n>>] > 0 \/ table[f] = n)
    BY DEF InUse
  <2>1. <<f, n>> \in Source
    BY DEF Source
  <2> QED
    BY <2>1, WorkbenchAssumption DEF WorkbenchInit, None
<1>5. Numbered
  BY <1>3, <1>4, WorkbenchAssumption DEF Numbered
<1>6. OpenGivenUp
  BY DEF WorkbenchInit, OpenGivenUp
<1> QED
  BY <1>1, <1>2, <1>5, <1>6 DEF WbIInv, TagsOK

LEMMA CallbackKeeps ==
  ASSUME WbIInv, WbIdleQueueCallback
  PROVE  WbIInv'
<1>1. ListsTyped /\ TagsOK
  BY DEF WbIInv
<1>2. UNCHANGED <<diskVars, wbVars, docs>>
  BY DEF WbIdleQueueCallback
<1>3. ListsTyped'
  BY <1>1, <1>2 DEF ListsTyped, diskVars, wbVars
<1> QED
  BY <1>1, <1>3, CallbackOK DEF WbIInv

LEMMA WbStep == WbIInv /\ [WorkbenchNext]_workbenchVars => WbIInv'
<1> SUFFICES ASSUME WbIInv, [WorkbenchNext]_workbenchVars
             PROVE  WbIInv'
  OBVIOUS
<1>1. ASSUME NEW q \in Path, DiskDelete(q) \/ \E content \in SUBSET Below(q) : DiskCreate(q, content)
      PROVE  WbIInv'
  BY <1>1, DiskOK
<1>2. ASSUME NEW a \in Addr, RemoveDirectory(a)
      PROVE  WbIInv'
  BY <1>2, RemoveDirectoryOK
<1>3. ASSUME NEW a \in Addr, RescanDirectory(a)
      PROVE  WbIInv'
  BY <1>3, RescanDirectoryOK
<1>4. ASSUME NEW a \in Addr, NEW b \in Base, AddDirectory(b, a)
      PROVE  WbIInv'
  BY <1>4, AddDirectoryOK
<1>5. ASSUME NEW a \in Addr, NEW q \in Path, NewHere(a, q)
      PROVE  WbIInv'
  BY <1>5, NewHereOK
<1>6. ASSUME NEW a \in Addr, NEW q \in Path, RemoveHere(a, q)
      PROVE  WbIInv'
  BY <1>6, RemoveHereOK
<1>7. CASE SetLiveUpdate
  BY <1>7, SetLiveUpdateOK
<1>8. CASE CloseWorkbench \/ RemoveProject
  BY <1>8, ClosedOK
<1>9. ASSUME NEW rescan \in BOOLEAN, OpenWorkbench(rescan) \/ AddProject(rescan)
      PROVE  WbIInv'
  BY <1>9, OpenedOK
<1>10. ASSUME NEW f \in File, DocumentOpen(f) \/ DocumentClose(f)
       PROVE  WbIInv'
  BY <1>10, DocumentOK
<1>11. CASE WbIdleQueueCallback
  BY <1>11, CallbackKeeps
<1>12. ASSUME NEW p \in Place, WbMonitorFileChangedCb(p)
       PROVE  WbIInv'
  BY <1>12, MonitorOK
<1>13. CASE UNCHANGED workbenchVars
  <2>1. ListsTyped' /\ UNCHANGED <<tagVars, generate>>
    BY <1>13 DEF WbIInv, ListsTyped, workbenchVars, diskVars, wbVars
  <2> QED
    BY <2>1, TagsKept DEF WbIInv
<1> QED
  BY <1>1, <1>2, <1>3, <1>4, <1>5, <1>6, <1>7, <1>8, <1>9, <1>10, <1>11, <1>12, <1>13
     DEF WorkbenchNext

LEMMA WbAlways == WorkbenchSpec => []WbIInv
BY WbInit, WbStep, PTL DEF WorkbenchSpec

LEMMA WbTyped == WbIInv => WorkbenchTypeOK
<1> SUFFICES ASSUME WbIInv
             PROVE  WorkbenchTypeOK
  OBVIOUS
<1>1. ListsTyped /\ TagsTyped
  BY DEF WbIInv, TagsOK
<1>2. actions \in Seq(IdleAction)
  <2>1. Queued \subseteq IdleAction
    BY DEF Queued, IdleAction
  <2>2. actions \in [1..Len(actions) -> Queued] /\ Len(actions) \in Nat
    BY <1>1, LenProperties DEF TagsTyped
  <2>3. actions \in [1..Len(actions) -> IdleAction]
    BY <2>1, <2>2
  <2> QED
    BY <2>2, <2>3, FunIsSeq
<1> QED
  BY <1>1, <1>2 DEF WorkbenchTypeOK, ListsTyped, TagsTyped

(* "The entry must be freed using the tag-manager in a syncronized way"      *)
(* (free_file_table_entry): the tag manager never has a TMSourceFile that    *)
(* was freed, and every list, table and queue keeps its type.  It holds for  *)
(* a reason the code did not mean: what is queued to free one is cleared by  *)
(* the idle callback that queued it, so that none is ever freed.             *)
THEOREM NoFreedTagged == WorkbenchSpec => []FreedNotTagged
<1>1. WbIInv => FreedNotTagged
  BY WbTyped DEF FreedNotTagged, WbIInv, TagsOK, TagsTyped
<1> QED
  BY <1>1, WbAlways, PTL

(* "tags of open files managed by geany" (plugin_main.c): when the queue     *)
(* has been run, the plugin keeps no TMSourceFile of a file that is open,    *)
(* in whatever order files were opened, found, handed over and removed.      *)
THEOREM OpenFilesLeft == WorkbenchSpec => []OpenLeftToGeany
<1>1. WbIInv => OpenLeftToGeany
  <2> SUFFICES ASSUME WbIInv, actions = <<>>, NEW f \in docs
               PROVE  table[f] = None
    BY DEF OpenLeftToGeany
  <2>1. Len(actions) = 0
    BY EmptySeq
  <2> QED
    BY <2>1 DEF WbIInv, TagsOK, OpenGivenUp
<1> QED
  BY <1>1, WbAlways, PTL
================================================================================
