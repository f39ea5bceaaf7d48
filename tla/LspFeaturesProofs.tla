--------------------------- MODULE LspFeaturesProofs ---------------------------
(***************************************************************************)
(* Theorems about features of the lsp plugin, on the server's answers.     *)
(*   LspProgress, for every set of servers and tokens, when a server is    *)
(* never freed between the creation and the begin of one of its            *)
(* operations: the bar shows whether there is work.                        *)
(*   LspSave: while no other tab is shown during a save, the code actions  *)
(* and the formatting of a save are one chain, and what they change is     *)
(* saved.                                                                  *)
(*   LspTokenDecode, how an array of semantic tokens is decoded and        *)
(* highlighted, and LspSemtokens, what is cached of the arrays the server  *)
(* sends, for documents, arrays and legends of any size; LspTokenEdits,    *)
(* what the edits of a delta make of an array.                             *)
(*   LspPopups, for any documents and any number of requests: the list of  *)
(* completions is the latest, and its edits are made for the text they are *)
(* applied to, if the user waits for a completion that will be shown.      *)
(***************************************************************************)
EXTENDS LspProgress, LspSave, LspSemtokens, LspTokenDecode, LspTokenEdits, LspPopups,
        FiniteSetTheorems, SequenceTheorems, WellFoundedInduction, TLAPS

-------------------------------------------------------------------------------
(* LspProgress                                                               *)

(* The counter and the bar follow the operations that have begun.            *)
ProgressIInv == ProgressTypeOK /\ CounterIsWork /\ BarShowsWork

LEMMA OpFinite == IsFiniteSet(Op)
  BY LspProgressAssumption, FS_Product DEF Op

LEMMA OpsFinite ==
  ASSUME NEW S \in SUBSET Op
  PROVE  /\ IsFiniteSet(S)
         /\ Cardinality(S) \in Nat
         /\ Cardinality(S) = 0 <=> S = {}
  BY OpFinite, FS_Subset, FS_CardinalityType, FS_EmptySet

LEMMA BegunFinite ==
  ASSUME ProgressTypeOK
  PROVE  /\ IsFiniteSet(ops) /\ IsFiniteSet(begun)
         /\ Cardinality(begun) \in Nat
         /\ Cardinality(begun) = 0 <=> begun = {}
  BY OpsFinite DEF ProgressTypeOK

LEMMA BeginIInv ==
  ASSUME ProgressIInv, NEW o \in Op, Begin(o)
  PROVE  ProgressIInv'
<1>1. ProgressTypeOK'
  BY DEF Begin, ProgressIInv, ProgressTypeOK
<1>2. Cardinality(begun \cup {o}) = Cardinality(begun) + 1
  BY BegunFinite, FS_AddElement DEF ProgressIInv, Begin
<1>3. CounterIsWork'
  BY <1>2 DEF Begin, ProgressIInv, CounterIsWork
<1>4. BarShowsWork'
  <2>1. begun' # {}
    BY DEF Begin
  <2>2. progressNum = 0 <=> begun = {}
    BY BegunFinite DEF ProgressIInv, CounterIsWork
  <2>3. bar' = TRUE
    BY <2>2 DEF Begin, ProgressIInv, ProgressTypeOK, BarShowsWork
  <2> QED
    BY <2>1, <2>3 DEF BarShowsWork
<1> QED
  BY <1>1, <1>3, <1>4 DEF ProgressIInv

LEMMA EndIInv ==
  ASSUME ProgressIInv, NEW o \in Op, End(o)
  PROVE  ProgressIInv'
<1>1. ProgressTypeOK'
  BY DEF End, ProgressIInv, ProgressTypeOK
<1>2. Cardinality(begun \ {o}) = Cardinality(begun) - 1
  BY BegunFinite, FS_RemoveElement DEF ProgressIInv, End
<1>3. progressNum > 0
  BY BegunFinite DEF ProgressIInv, End, CounterIsWork
<1>4. CounterIsWork'
  BY <1>2, <1>3 DEF End, ProgressIInv, CounterIsWork
<1>5. progressNum' = 0 <=> begun' = {}
  BY <1>1, <1>4, OpsFinite DEF CounterIsWork, ProgressTypeOK
<1>6. BarShowsWork'
  BY <1>5 DEF End, ProgressIInv, ProgressTypeOK, BarShowsWork
<1> QED
  BY <1>1, <1>4, <1>6 DEF ProgressIInv

LEMMA FreeAllIInv ==
  ASSUME ProgressIInv, ~FreedUnbegun, NEW s \in Server, FreeAll(s)
  PROVE  ProgressIInv'
<1>1. ProgressTypeOK'
  <2>1. progressNum' \in Int
    <3>1. IsFiniteSet(OfServer(ops, s))
      BY BegunFinite, FS_Subset DEF ProgressIInv, OfServer
    <3> QED
      BY <3>1, FS_CardinalityType DEF FreeAll, ProgressIInv, ProgressTypeOK
  <2>2. bar' \in BOOLEAN
    BY DEF FreeAll, ProgressIInv, ProgressTypeOK
  <2> QED
    BY <2>1, <2>2 DEF FreeAll, ProgressIInv, ProgressTypeOK
<1>2. begun \cap OfServer(ops, s) = OfServer(ops, s)
  BY DEF FreeAll
<1>3. Cardinality(begun \ OfServer(ops, s)) =
        Cardinality(begun) - Cardinality(OfServer(ops, s))
  BY <1>2, BegunFinite, FS_Difference DEF ProgressIInv
<1>4. CounterIsWork'
  BY <1>3 DEF FreeAll, ProgressIInv, CounterIsWork
<1>5. progressNum' = 0 <=> begun' = {}
  BY <1>1, <1>4, OpsFinite DEF CounterIsWork, ProgressTypeOK
<1>6. BarShowsWork'
  <2>1. begun' # {} => begun # {}
    BY DEF FreeAll
  <2> QED
    BY <1>5, <2>1 DEF FreeAll, ProgressIInv, ProgressTypeOK, BarShowsWork
<1> QED
  BY <1>1, <1>4, <1>6 DEF ProgressIInv

(* While every operation has begun when its server is freed, the bar is on   *)
(* the screen exactly as long as some server works, whatever the number of   *)
(* servers that share the counter.                                           *)
THEOREM BarSound == ~FreedUnbegun => (ProgressSpec => [](BarShowsWork /\ CounterIsWork))
<1>1. ProgressInit => ProgressIInv
  <2>1. Cardinality({}) = 0
    BY FS_EmptySet
  <2> SUFFICES ASSUME ProgressInit PROVE ProgressIInv
    OBVIOUS
  <2>2. ops = {} /\ begun = {} /\ progressNum = 0 /\ bar = FALSE
    BY DEF ProgressInit
  <2>3. ProgressTypeOK
    <3>1. bar \in BOOLEAN
      BY <2>2, Zenon
    <3>2. ops \subseteq Op /\ begun \subseteq ops /\ progressNum \in Int
      BY <2>2
    <3> QED
      BY <3>1, <3>2 DEF ProgressTypeOK
  <2>4. CounterIsWork
    BY <2>1, <2>2 DEF CounterIsWork
  <2>5. BarShowsWork
    BY <2>2, Zenon DEF BarShowsWork
  <2> QED
    BY <2>3, <2>4, <2>5 DEF ProgressIInv
<1>2. ASSUME ~FreedUnbegun, ProgressIInv, [ProgressNext]_progressVars
      PROVE  ProgressIInv'
  <2>1. CASE UNCHANGED progressVars
    BY <1>2, <2>1 DEF progressVars, ProgressIInv, ProgressTypeOK, CounterIsWork, BarShowsWork
  <2>2. ASSUME NEW o \in Op, Create(o)
        PROVE  ProgressIInv'
    BY <1>2, <2>2 DEF Create, ProgressIInv, ProgressTypeOK, CounterIsWork, BarShowsWork
  <2>3. ASSUME NEW o \in Op, Begin(o)
        PROVE  ProgressIInv'
    BY <1>2, <2>3, BeginIInv
  <2>4. ASSUME NEW o \in Op, End(o)
        PROVE  ProgressIInv'
    BY <1>2, <2>4, EndIInv
  <2>5. ASSUME NEW s \in Server, FreeAll(s)
        PROVE  ProgressIInv'
    BY <1>2, <2>5, FreeAllIInv
  <2> QED
    BY <1>2, <2>1, <2>2, <2>3, <2>4, <2>5 DEF ProgressNext
<1>3. ASSUME ~FreedUnbegun
      PROVE  ProgressSpec => [](BarShowsWork /\ CounterIsWork)
  <2>1. ProgressIInv /\ [ProgressNext]_progressVars => ProgressIInv'
    BY <1>2, <1>3
  <2>2. ProgressIInv => BarShowsWork /\ CounterIsWork
    BY DEF ProgressIInv
  <2> QED
    BY <1>1, <2>1, <2>2, PTL DEF ProgressSpec
<1> QED
  BY <1>3

-------------------------------------------------------------------------------
(* LspSave                                                                   *)

Document == [saving: BOOLEAN, performed: SUBSET Title, own: BOOLEAN, user: BOOLEAN,
             calls: [Kind -> Nat], lost: [Kind -> Nat]]

One(k) == [None EXCEPT ![k] = 1]

(* No request is in flight, or the one that the save waits for.              *)
Idle(S) == S.calls = None /\ S.lost = None

Waits(S) ==
  /\ S.saving /\ MaxCalls >= 1
  /\ \E k \in Kind : \/ S.calls = One(k) /\ S.lost = None
                     \/ S.calls = None /\ S.lost = One(k)

(* A save that has changed the document goes on until it has saved it again, *)
(* or until the server is gone.                                              *)
Chained(S) ==
  /\ S \in Document
  /\ Idle(S) \/ Waits(S)
  /\ S.own => S.saving /\ (Waits(S) \/ ~up)
  /\ ~open => S.calls = None

SaveIInv == up \in BOOLEAN /\ open \in BOOLEAN /\ Chained(Now)

(* What a callback is run on: the answered request was the only one.         *)
Resumed(S) ==
  /\ S \in Document /\ Idle(S) /\ S.saving /\ MaxCalls >= 1
  /\ S.own \in BOOLEAN

-------------------------------------------------------------------------------
LEMMA NoneOne ==
  /\ None \in [Kind -> Nat] /\ \A k \in Kind : None[k] = 0
  /\ \A k \in Kind : /\ One(k) \in [Kind -> Nat] /\ One(k) # None /\ One(k)[k] = 1
                     /\ \A j \in Kind \ {k} : One(k)[j] = 0
                     /\ [None EXCEPT ![k] = @ + 1] = One(k)
                     /\ [One(k) EXCEPT ![k] = @ - 1] = None
BY DEF None, One

LEMMA NotBoth == ASSUME NEW S, Idle(S)  PROVE ~Waits(S)
BY NoneOne DEF Idle, Waits

(* A call becomes the one request in flight.                                 *)
LEMMA SendChained ==
  ASSUME NEW S, Resumed(S), NEW k \in Kind
  PROVE  Chained(Send(S, k))
<1>1. /\ S \in Document /\ S.calls = None /\ S.lost = None /\ S.saving /\ MaxCalls >= 1
      /\ [None EXCEPT ![k] = @ + 1] = One(k) /\ One(k) \in [Kind -> Nat] /\ None \in [Kind -> Nat]
  BY NoneOne DEF Resumed, Idle
<1>2. CASE open
  <2>1. Send(S, k) = [S EXCEPT !.calls = One(k)]
    BY <1>1, <1>2 DEF Send, Document
  <2> QED
    BY <1>1, <1>2, <2>1 DEF Document, Waits, Chained
<1>3. CASE ~open
  <2>1. Send(S, k) = [S EXCEPT !.lost = One(k)]
    BY <1>1, <1>3 DEF Send, Document
  <2> QED
    BY <1>1, <2>1 DEF Document, Waits, Chained
<1> QED
  BY <1>2, <1>3

(* The document is saved again at the end of the chain.                      *)
LEMMA FinishSaves ==
  ASSUME NEW S, S \in Document, Idle(S), S.own => S.saving
  PROVE  Chained(OnSaveFinish(S)) /\ ~OnSaveFinish(S).own
BY DEF OnSaveFinish, Written, Document, Idle, Waits, Chained

LEMMA CommandPerformedChained ==
  ASSUME NEW S, Resumed(S)
  PROVE  Chained(OnCommandPerformed(S))
<1>1. CASE up
  BY <1>1, SendChained DEF OnCommandPerformed, Kind
<1>2. CASE ~up
  BY <1>2 DEF OnCommandPerformed, Resumed, Chained, Idle
<1> QED
  BY <1>1, <1>2

LEMMA OwnResumed ==
  ASSUME NEW S, Resumed(S), NEW b \in BOOLEAN
  PROVE  Resumed([S EXCEPT !.own = b]) /\ Resumed([S EXCEPT !.own = @ \/ b])
BY DEF Resumed, Document, Idle

LEMMA PerformChained ==
  ASSUME LspSaveAssumption, NEW S, Resumed(S), NEW t \in Title
  PROVE  Chained(Perform(S, t))
<1> DEFINE T == [S EXCEPT !.performed = @ \cup {t}]
           edited == IF t \in Edits THEN [T EXCEPT !.own = TRUE] ELSE T
<1>1. Resumed(T)
  BY DEF Resumed, Document, Idle
<1>2. Resumed(edited)
  BY <1>1, OwnResumed
<1> HIDE DEF T
<1>3. Chained(Send(T, "resolve")) /\ Chained(Send(edited, "command"))
  BY <1>1, <1>2, SendChained DEF Kind
<1>4. Chained(OnCommandPerformed(edited))
  BY <1>2, CommandPerformedChained
<1>5. Perform(S, t) = LspCommandPerform(T, t)
  BY DEF Perform, T
<1> QED
  BY <1>3, <1>4, <1>5 DEF LspCommandPerform

LEMMA FinishChained ==
  ASSUME NEW S, Resumed(S)
  PROVE  Chained(Finish(S))
<1>1. CASE ~up
  BY <1>1 DEF Finish, Resumed, Chained, Idle
<1>2. CASE up /\ FormatOnSave
  BY <1>2, SendChained DEF Finish, Kind
<1>3. CASE up /\ ~FormatOnSave
  BY <1>3, FinishSaves DEF Finish, Resumed
<1> QED
  BY <1>1, <1>2, <1>3

(* The request answered, or failed, was the only one.                        *)
LEMMA OnlyOne ==
  ASSUME NEW S, S \in Document, Idle(S) \/ Waits(S), NEW k \in Kind
  PROVE  /\ S.calls[k] > 0 => Waits(S) /\ S.calls = One(k) /\ S.lost = None
         /\ S.lost[k] > 0 => Waits(S) /\ S.lost = One(k) /\ S.calls = None
<1>1. None[k] = 0
  BY NoneOne
<1>2. ~(0 > 0)
  OBVIOUS
<1>3. CASE Idle(S)
  BY <1>1, <1>2, <1>3 DEF Idle
<1>4. CASE Waits(S)
  <2>1. PICK j \in Kind : (S.calls = One(j) /\ S.lost = None)
                           \/ (S.calls = None /\ S.lost = One(j))
    BY <1>4 DEF Waits
  <2>2. j # k => One(j)[k] = 0
    BY NoneOne
  <2>3. CASE j = k
    BY <1>1, <1>2, <1>4, <2>1, <2>3
  <2>4. CASE j # k
    BY <1>1, <1>2, <2>1, <2>2, <2>4
  <2> QED
    BY <2>3, <2>4
<1> QED
  BY <1>3, <1>4

LEMMA AnsweredResumed ==
  ASSUME SaveIInv, NEW k \in Kind
  PROVE  /\ calls[k] > 0 => Resumed(Answered(k))
         /\ lost[k] > 0 => Resumed([Now EXCEPT !.lost[k] = @ - 1])
<1>1. Now \in Document /\ (Idle(Now) \/ Waits(Now)) /\ Now.calls = calls /\ Now.lost = lost
  BY DEF SaveIInv, Chained, Now
<1>2. /\ calls[k] > 0 => Waits(Now) /\ calls = One(k) /\ lost = None
      /\ lost[k] > 0 => Waits(Now) /\ lost = One(k) /\ calls = None
  BY <1>1, OnlyOne
<1>3. None \in [Kind -> Nat] /\ [One(k) EXCEPT ![k] = @ - 1] = None
  BY NoneOne
<1>4. ASSUME Waits(Now), calls = One(k), lost = None
      PROVE  Resumed(Answered(k))
  <2>1. [calls EXCEPT ![k] = calls[k] - 1] = None
    BY <1>3, <1>4
  <2>2. Answered(k) = [Now EXCEPT !.calls = None]
    BY <2>1 DEF Answered, Now
  <2>3. Now.saving /\ MaxCalls >= 1
    BY <1>4 DEF Waits
  <2> QED
    BY <1>1, <1>3, <1>4, <2>2, <2>3 DEF Resumed, Document, Idle
<1>5. ASSUME Waits(Now), lost = One(k), calls = None
      PROVE  Resumed([Now EXCEPT !.lost[k] = @ - 1])
  <2>1. [lost EXCEPT ![k] = lost[k] - 1] = None
    BY <1>3, <1>5
  <2>2. [Now EXCEPT !.lost[k] = @ - 1] = [Now EXCEPT !.lost = None]
    BY <2>1 DEF Now
  <2>3. Now.saving /\ MaxCalls >= 1
    BY <1>5 DEF Waits
  <2> QED
    BY <1>1, <1>3, <1>5, <2>2, <2>3 DEF Resumed, Document, Idle
<1> QED
  BY <1>2, <1>4, <1>5

(* A handler's outcome for the document, with server and client unchanged.   *)
LEMMA BecomeChained ==
  ASSUME SaveIInv, NEW S, Chained(S), Become(S), UNCHANGED <<up, open>>
  PROVE  SaveIInv'
<1>1. Now' = S
  BY DEF Become, Now, Chained, Document
<1>2. Chained(S)'
  BY DEF Chained, Idle, Waits
<1> QED
  BY <1>1 DEF SaveIInv, Chained, Idle, Waits, Document

-------------------------------------------------------------------------------
LEMMA InitChained == LspSaveAssumption /\ SaveInit => SaveIInv
BY NoneOne DEF SaveInit, SaveIInv, Chained, Now, Document, Idle

LEMMA SaveChained ==
  ASSUME LspSaveAssumption, SaveIInv, Save
  PROVE  SaveIInv'
<1>1. Now \in Document /\ Now.saving = saving /\ Chained(Now)
  BY DEF SaveIInv, Chained, Now
<1> DEFINE marked == [Now EXCEPT !.saving = TRUE, !.performed = {}]
<1>2. ASSUME ~saving
      PROVE  Chained(Written(marked)) /\ Resumed(marked)
  <2>1. Idle(Now)
    BY <1>1, <1>2 DEF Chained, Waits
  <2>2. MaxCalls >= 1
    <3>1. Total = 0
      BY <2>1, NoneOne DEF Idle, Now, Total, Kind
    <3> QED
      BY <3>1 DEF Save, LspSaveAssumption
  <2> QED
    BY <1>1, <2>1, <2>2 DEF Chained, Resumed, Document, Idle, Written
<1>3. ASSUME NEW S, Chained(S)
      PROVE  Chained(Written(S))
  BY <1>3 DEF Chained, Document, Idle, Waits, Written
<1> HIDE DEF marked
<1>4. Chained(Written(OnDocumentBeforeSave(Now)))
  <2>1. CASE ~up \/ saving
    BY <1>1, <1>3, <2>1 DEF OnDocumentBeforeSave
  <2>2. CASE up /\ ~saving
    <3>1. Chained(Send(marked, "codeAction")) /\ Chained(Send(marked, "format"))
      BY <1>2, <2>2, SendChained DEF Kind
    <3>2. OnDocumentBeforeSave(Now) \in {Send(marked, "codeAction"), Send(marked, "format"), marked}
      BY <1>1, <2>2 DEF OnDocumentBeforeSave, marked
    <3> QED
      BY <1>2, <1>3, <2>2, <3>1, <3>2
  <2> QED
    BY <2>1, <2>2
<1> QED
  BY <1>4, BecomeChained DEF Save

LEMMA ReplyChained ==
  ASSUME LspSaveAssumption, SaveIInv, Reply
  PROVE  SaveIInv'
<1>1. ASSUME NEW offered \in SUBSET Title, ReplyCodeAction(offered)
      PROVE  SaveIInv'
  <2>1. Resumed(Answered("codeAction"))
    BY <1>1, AnsweredResumed DEF ReplyCodeAction, Kind
  <2>2. CASE Unperformed(offered) = {}
    BY <1>1, <2>1, <2>2, FinishChained, BecomeChained DEF ReplyCodeAction
  <2>3. CASE Unperformed(offered) # {}
    <3>1. PICK t \in Unperformed(offered) : Become(Perform(Answered("codeAction"), t))
      BY <1>1, <2>3 DEF ReplyCodeAction
    <3>2. t \in Title
      BY <3>1 DEF Unperformed
    <3> QED
      BY <1>1, <2>1, <3>1, <3>2, PerformChained, BecomeChained DEF ReplyCodeAction
  <2> QED
    BY <2>2, <2>3
<1>2. ASSUME NEW edited \in BOOLEAN, ReplyCommand(edited)
      PROVE  SaveIInv'
  <2>1. Resumed([Answered("command") EXCEPT !.own = @ \/ edited])
    BY <1>2, AnsweredResumed, OwnResumed DEF ReplyCommand, Kind
  <2> QED
    BY <1>2, <2>1, CommandPerformedChained, BecomeChained DEF ReplyCommand
<1>3. ASSUME NEW edited \in BOOLEAN, ReplyFormat(edited)
      PROVE  SaveIInv'
  <2>1. Resumed([Answered("format") EXCEPT !.own = @ \/ edited])
    BY <1>3, AnsweredResumed, OwnResumed DEF ReplyFormat, Kind
  <2> QED
    BY <1>3, <2>1, FinishSaves, BecomeChained DEF ReplyFormat, Resumed
<1>4. ASSUME NEW as \in {"command", "edit", "nothing"}, ReplyResolve(as)
      PROVE  SaveIInv'
  <2> DEFINE S == Answered("resolve")
  <2>1. Resumed(S) /\ Resumed([S EXCEPT !.own = TRUE])
    BY <1>4, AnsweredResumed, OwnResumed DEF ReplyResolve, Kind
  <2> HIDE DEF S
  <2>2. /\ Chained(Send(S, "command")) /\ Chained(OnCommandPerformed(S))
        /\ Chained(OnCommandPerformed([S EXCEPT !.own = TRUE]))
    BY <2>1, SendChained, CommandPerformedChained DEF Kind
  <2>3. \/ Become(Send(S, "command")) \/ Become(OnCommandPerformed(S))
        \/ Become(OnCommandPerformed([S EXCEPT !.own = TRUE]))
    BY <1>4 DEF ReplyResolve, S
  <2> QED
    BY <1>4, <2>2, <2>3, BecomeChained DEF ReplyResolve
<1>5. ASSUME NEW k \in Kind, Fail(k)
      PROVE  SaveIInv'
  <2> DEFINE S == [Now EXCEPT !.lost[k] = @ - 1]
  <2>1. Resumed(S)
    BY <1>5, AnsweredResumed DEF Fail
  <2> HIDE DEF S
  <2>2. Chained(Finish(S)) /\ Chained(OnSaveFinish(S)) /\ Chained(OnCommandPerformed(S))
    BY <2>1, FinishChained, FinishSaves, CommandPerformedChained DEF Resumed
  <2>3. Become(Finish(S)) \/ Become(OnSaveFinish(S)) \/ Become(OnCommandPerformed(S))
    BY <1>5 DEF Fail, S
  <2> QED
    BY <1>5, <2>2, <2>3, BecomeChained DEF Fail
<1> QED
  BY <1>1, <1>2, <1>3, <1>4, <1>5 DEF Reply

(* The requests the server has not answered fail.                            *)
LEMMA DisconnectedChained ==
  ASSUME SaveIInv, Disconnected
  PROVE  SaveIInv'
<1>1. Now \in Document /\ (Idle(Now) \/ Waits(Now))
      /\ Now.calls = calls /\ Now.lost = lost /\ Now.saving = saving /\ Now.own = own
  BY DEF SaveIInv, Chained, Now
<1>2. /\ Now'.calls = None /\ Now'.lost = lost' /\ Now'.saving = saving /\ Now'.own = own
      /\ lost' \in [Kind -> Nat] => Now' \in Document
  BY <1>1, NoneOne DEF Disconnected, Now, Document
<1>3. \/ calls = None /\ lost' = lost
      \/ lost = None /\ lost' = calls
  <2>1. calls = None \/ lost = None
    BY <1>1 DEF Idle, Waits
  <2>2. lost' = [k \in Kind |-> lost[k] + calls[k]] /\ calls \in [Kind -> Nat] /\ lost \in [Kind -> Nat]
    BY <1>1 DEF Disconnected, Document
  <2>3. CASE calls = None
    <3>1. \A k \in Kind : calls[k] = 0
      BY <2>3, NoneOne
    <3>2. lost' = [k \in Kind |-> lost[k]]
      BY <2>2, <3>1
    <3> QED
      BY <2>2, <2>3, <3>2
  <2>4. CASE lost = None
    <3>1. \A k \in Kind : lost[k] = 0
      BY <2>4, NoneOne
    <3>2. lost' = [k \in Kind |-> calls[k]]
      BY <2>2, <3>1
    <3> QED
      BY <2>2, <2>4, <3>2
  <2> QED
    BY <2>1, <2>3, <2>4
<1>4. /\ Idle(Now) => Idle(Now')
      /\ Waits(Now) => Waits(Now')
  BY <1>1, <1>2, <1>3, NoneOne DEF Idle, Waits
<1>5. Now' \in Document
  BY <1>1, <1>2, <1>3, NoneOne DEF Document
<1> QED
  BY <1>1, <1>2, <1>4, <1>5 DEF SaveIInv, Chained, Disconnected, Idle, Waits, Document

LEMMA NextChained ==
  ASSUME LspSaveAssumption, ~SwitchesTab, StaysCurrent, SaveIInv, SaveNext
  PROVE  SaveIInv'
<1>1. CASE Edit
  <2>1. /\ Now \in Document => Now' \in Document
        /\ Now'.calls = Now.calls /\ Now'.lost = Now.lost
        /\ Now'.saving = Now.saving /\ Now'.own = Now.own
    BY <1>1 DEF Edit, Now, Document
  <2> QED
    BY <1>1, <2>1 DEF Edit, SaveIInv, Chained, Idle, Waits
<1>2. CASE Save
  BY <1>2, SaveChained
<1>3. ASSUME Idle(Now), Become(OnSaveFinish(Now)), up' \in BOOLEAN, open' \in BOOLEAN
      PROVE  SaveIInv'
  <2>1. Chained(OnSaveFinish(Now)) /\ ~OnSaveFinish(Now).own /\ Idle(OnSaveFinish(Now))
    BY <1>3, FinishSaves DEF SaveIInv, Chained, OnSaveFinish, Written, Idle, Document
  <2>2. Now' = OnSaveFinish(Now)
    BY <1>3, <2>1 DEF Become, Now, Chained, Document
  <2>3. Now' \in Document /\ ~(Now').own /\ (Now').calls = None /\ (Now').lost = None
    BY <2>1, <2>2 DEF Chained, Idle
  <2> QED
    BY <1>3, <2>3 DEF SaveIInv, Chained, Idle
<1>4. CASE OnDocumentVisible
  <2>1. \A k \in Kind : ~(calls[k] + lost[k] > 0)
    BY <1>4 DEF OnDocumentVisible, Requests
  <2>2. Idle(Now)
    <3>1. ASSUME Waits(Now)
          PROVE  FALSE
      <4>1. PICK k \in Kind : (calls = One(k) /\ lost = None) \/ (calls = None /\ lost = One(k))
        BY <3>1 DEF Waits, Now
      <4>2. One(k)[k] = 1 /\ None[k] = 0 /\ 1 + 0 > 0 /\ 0 + 1 > 0
        BY NoneOne
      <4> QED
        BY <2>1, <4>1, <4>2
    <3> QED
      BY <3>1 DEF SaveIInv, Chained
  <2> QED
    BY <1>3, <1>4, <2>2 DEF OnDocumentVisible, SaveIInv
<1>5. CASE Reply
  BY <1>5, ReplyChained
<1>6. CASE Disconnected
  BY <1>6, DisconnectedChained
<1>7. CASE ProcessStopped
  <2>1. Now' = Now
    BY <1>7 DEF ProcessStopped, Now
  <2> QED
    BY <1>7, <2>1 DEF ProcessStopped, SaveIInv, Chained, Idle, Waits
<1>8. CASE Restarted
  <2>1. Idle(Now)
    BY <1>8 DEF Restarted, SaveIInv, Chained, Idle, Now
  <2> QED
    BY <1>3, <1>8, <2>1 DEF Restarted
<1> QED
  BY <1>1, <1>2, <1>4, <1>5, <1>6, <1>7, <1>8 DEF SaveNext

LEMMA ChainedSaved ==
  ASSUME LspSaveAssumption, SaveIInv
  PROVE  UpdatesSaved
<1>1. /\ Now \in Document /\ (Idle(Now) \/ Waits(Now)) /\ Now.calls = calls /\ Now.lost = lost
      /\ Now.saving = saving /\ Now.performed = performed /\ Now.own = own /\ Now.user = user
  BY DEF SaveIInv, Chained, Now
<1>2. SaveTypeOK
  <2>1. calls \in [Kind -> 0..MaxCalls] /\ lost \in [Kind -> 0..MaxCalls]
    <3>1. None \in [Kind -> 0..MaxCalls]
      BY DEF None, LspSaveAssumption
    <3>2. MaxCalls >= 1 => \A k \in Kind : One(k) \in [Kind -> 0..MaxCalls]
      BY DEF None, One, LspSaveAssumption
    <3> QED
      BY <1>1, <3>1, <3>2 DEF Idle, Waits
  <2> QED
    BY <1>1, <2>1 DEF SaveTypeOK, SaveIInv, Document
<1>3. Total <= 1
  <2>1. CASE Idle(Now)
    BY <1>1, <2>1, NoneOne DEF Idle, Total, Kind
  <2>2. CASE Waits(Now)
    <3>1. PICK k \in Kind : (calls = One(k) /\ lost = None) \/ (calls = None /\ lost = One(k))
      BY <1>1, <2>2 DEF Waits
    <3>2. One(k) = [j \in Kind |-> IF j = k THEN 1 ELSE 0] /\ None = [j \in Kind |-> 0]
      BY DEF One, None
    <3> QED
      BY <3>1, <3>2 DEF Total, Kind
  <2> QED
    BY <1>1, <2>1, <2>2
<1>4. ASSUME up, Requests = {}
      PROVE  ~own
  <2>1. ASSUME Waits(Now)
        PROVE  FALSE
    <3>1. PICK k \in Kind : (calls = One(k) /\ lost = None) \/ (calls = None /\ lost = One(k))
      BY <1>1, <2>1 DEF Waits
    <3>2. One(k)[k] = 1 /\ None[k] = 0 /\ 1 + 0 > 0 /\ 0 + 1 > 0
      BY NoneOne
    <3>3. calls[k] + lost[k] > 0
      BY <3>1, <3>2
    <3> QED
      BY <1>4, <3>3 DEF Requests
  <2> QED
    BY <1>1, <1>4, <2>1 DEF SaveIInv, Chained
<1> QED
  BY <1>2, <1>3, <1>4 DEF UpdatesSaved

(* If no other tab is shown during a save and the document stays current     *)
(* over a restart of the server, there is never more than one request of a   *)
(* save in flight, and nothing the chain changed stays unsaved when it is    *)
(* over, whatever the server offers and whenever it crashes.                 *)
THEOREM ChainsSave == ~SwitchesTab /\ StaysCurrent /\ SaveSpec => []UpdatesSaved
<1> SUFFICES ASSUME ~SwitchesTab, StaysCurrent
             PROVE  SaveSpec => []UpdatesSaved
  OBVIOUS
<1>1. SaveIInv /\ [SaveNext]_saveVars => SaveIInv'
  <2> SUFFICES ASSUME SaveIInv, [SaveNext]_saveVars
               PROVE  SaveIInv'
    OBVIOUS
  <2>1. CASE SaveNext
    BY <2>1, LspSaveAssumption, NextChained
  <2>2. CASE UNCHANGED saveVars
    BY <2>2 DEF saveVars, SaveIInv, Chained, Now, Idle, Waits
  <2> QED
    BY <2>1, <2>2
<1>2. SaveInit => SaveIInv
  BY LspSaveAssumption, InitChained
<1>3. SaveIInv => UpdatesSaved
  BY LspSaveAssumption, ChainedSaved
<1> QED
  BY <1>1, <1>2, <1>3, PTL DEF SaveSpec

--------------------------------------------------------------------------------
(* LspTokenDecode                                                            *)

(* No index of the legend reaches the width of int or of the mask.           *)
NarrowLegend == \A v \in Type : v < IntBits /\ v < MaskBits

TypeOK ==
  /\ tokens \in Seq(PlacedToken)
  /\ configured \subseteq Type
  /\ i \in 0..Len(tokens)
  /\ lastPos \in [line: Int, char: Int]

(* Before the first token the position is the origin, which the first one is *)
(* relative to.                                                              *)
StartsAtOrigin == i = 0 => lastPos = [line |-> 0, char |-> 0]

Positions == TypeOK /\ StartsAtOrigin /\ PositionFollows

LEMMA InitPositions == DecodeInit => Positions /\ ConfiguredHighlighted
<1> SUFFICES ASSUME DecodeInit PROVE Positions /\ ConfiguredHighlighted
  OBVIOUS
<1> USE LspTokenDecodeAssumption
<1>1. PICK n \in 0..MaxTokens : tokens \in [1..n -> PlacedToken]
  BY DEF DecodeInit
<1>2. tokens \in Seq(PlacedToken) /\ Len(tokens) = n
  BY <1>1
<1>3. i = 0 /\ lastPos = [line |-> 0, char |-> 0] /\ highlighted = {}
  BY DEF DecodeInit
<1>4. configured \subseteq Type
  BY DEF DecodeInit
<1>5. Positions
  BY <1>2, <1>3, <1>4 DEF Positions, TypeOK, StartsAtOrigin, PositionFollows
<1>6. ConfiguredHighlighted
  BY <1>3 DEF ConfiguredHighlighted
<1> QED
  BY <1>5, <1>6

(* Decoding the next token leads to the position it was encoded from.        *)
LEMMA NextPosDecodes ==
  ASSUME Positions, i < Len(tokens)
  PROVE  NextPos(Encoded(i + 1)) =
           [line |-> tokens[i + 1].line, char |-> tokens[i + 1].char]
<1> USE LspTokenDecodeAssumption
<1>1. /\ i \in Nat
      /\ i + 1 \in 1..Len(tokens)
      /\ tokens[i + 1] \in PlacedToken
  BY DEF Positions, TypeOK
<1>2. tokens[i + 1].line \in Nat /\ tokens[i + 1].char \in Nat
  BY <1>1 DEF PlacedToken
<1>3. CASE i = 0
  <2>1. lastPos.line = 0 /\ lastPos.char = 0
    BY <1>3 DEF Positions, StartsAtOrigin
  <2> QED
    BY <1>2, <1>3, <2>1 DEF NextPos, Encoded
<1>4. CASE i > 0
  <2>1. /\ i \in 1..Len(tokens)
        /\ tokens[i] \in PlacedToken
    BY <1>1, <1>4 DEF Positions, TypeOK
  <2>2. tokens[i].line \in Nat /\ tokens[i].char \in Nat
    BY <2>1 DEF PlacedToken
  <2>3. lastPos.line = tokens[i].line /\ lastPos.char = tokens[i].char
    BY <1>4 DEF Positions, PositionFollows
  <2>4. i + 1 # 1 /\ (i + 1) - 1 = i
    BY <1>1, <1>4
  <2> QED
    BY <1>2, <2>2, <2>3, <2>4 DEF NextPos, Encoded
<1> QED
  BY <1>1, <1>3, <1>4

LEMMA StepPositions ==
  ASSUME Positions, ProcessToken
  PROVE  Positions'
<1> USE LspTokenDecodeAssumption
<1>1. /\ i < Len(tokens)
      /\ lastPos' = NextPos(Encoded(i + 1))
      /\ i' = i + 1
      /\ tokens' = tokens
      /\ configured' = configured
  BY DEF ProcessToken
<1>2. lastPos' = [line |-> tokens[i + 1].line, char |-> tokens[i + 1].char]
  BY <1>1, NextPosDecodes
<1>3. /\ i' \in 0..Len(tokens)
      /\ i' > 0
      /\ tokens[i + 1] \in PlacedToken
  BY <1>1 DEF Positions, TypeOK
<1>4. TypeOK'
  <2>1. tokens[i + 1].line \in Nat /\ tokens[i + 1].char \in Nat
    BY <1>3 DEF PlacedToken
  <2>2. lastPos' \in [line: Int, char: Int]
    BY <1>2, <2>1
  <2> QED
    BY <1>1, <1>3, <2>2 DEF Positions, TypeOK
<1>5. PositionFollows' /\ StartsAtOrigin'
  BY <1>1, <1>2, <1>3 DEF PositionFollows, StartsAtOrigin
<1> QED
  BY <1>4, <1>5 DEF Positions

(* The relative positions of the protocol are decoded to those the server    *)
(* meant, for every array of tokens.                                         *)
THEOREM PositionsDecoded == DecodeSpec => []PositionFollows
<1>1. DecodeInit => Positions
  BY InitPositions
<1>2. Positions /\ [DecodeNext]_decodeVars => Positions'
  <2> SUFFICES ASSUME Positions, [DecodeNext]_decodeVars PROVE Positions'
    OBVIOUS
  <2>1. CASE ProcessToken
    BY <2>1, StepPositions
  <2>2. CASE UNCHANGED decodeVars
    BY <2>2 DEF decodeVars, Positions, TypeOK, StartsAtOrigin, PositionFollows
  <2> QED
    BY <2>1, <2>2 DEF DecodeNext
<1>3. Positions => PositionFollows
  BY DEF Positions
<1> QED
  BY <1>1, <1>2, <1>3, PTL DEF DecodeSpec

LEMMA StepHighlighted ==
  ASSUME Positions, ConfiguredHighlighted, NarrowLegend, ProcessToken
  PROVE  ConfiguredHighlighted'
<1> USE LspTokenDecodeAssumption
<1> DEFINE Pos(k) == [line |-> tokens[k].line, char |-> tokens[k].char]
           Shown(k) == tokens[k].type \in configured
<1>1. /\ i \in Nat
      /\ i < Len(tokens)
      /\ i' = i + 1
      /\ tokens' = tokens
      /\ configured' = configured
      /\ configured \subseteq Type
      /\ tokens[i + 1] \in PlacedToken
  BY DEF ProcessToken, Positions, TypeOK
<1>2. NextPos(Encoded(i + 1)) = Pos(i + 1)
  BY <1>1, NextPosDecodes
<1>3. Encoded(i + 1).type = tokens[i + 1].type
  BY DEF Encoded
<1>4. tokens[i + 1].type \in Type
  BY <1>1 DEF PlacedToken
<1>5. TokenType(tokens[i + 1].type) = {{tokens[i + 1].type}}
  BY <1>4 DEF TokenType, NarrowLegend
<1>6. TokenMask = configured
  BY <1>1 DEF TokenMask, NarrowLegend
<1>7. highlighted' = IF Shown(i + 1) THEN highlighted \cup {Pos(i + 1)} ELSE highlighted
  <2>1. PICK bits \in {{tokens[i + 1].type}} :
          highlighted' = IF bits \cap TokenMask # {}
                         THEN highlighted \cup {Pos(i + 1)} ELSE highlighted
    BY <1>2, <1>3, <1>5 DEF ProcessToken
  <2>2. bits \cap TokenMask # {} <=> Shown(i + 1)
    BY <1>6, <2>1
  <2> QED
    BY <2>1, <2>2
<1>8. highlighted = {Pos(k) : k \in {m \in 1..i : Shown(m)}}
  BY DEF ConfiguredHighlighted
<1>9. {m \in 1..(i + 1) : Shown(m)} =
        IF Shown(i + 1) THEN {m \in 1..i : Shown(m)} \cup {i + 1}
                        ELSE {m \in 1..i : Shown(m)}
  <2> HIDE DEF Shown
  <2>1. 1..(i + 1) = (1..i) \cup {i + 1}
    BY <1>1
  <2> QED
    BY <2>1
<1>10. highlighted' = {Pos(k) : k \in {m \in 1..(i + 1) : Shown(m)}}
  <2> HIDE DEF Pos, Shown
  <2> QED
    BY <1>7, <1>8, <1>9
<1> QED
  BY <1>1, <1>10 DEF ConfiguredHighlighted

(* As long as the legend of the server is no longer than the bits of an int, *)
(* exactly the tokens of the configured types are highlighted.               *)
THEOREM HighlightingExact == NarrowLegend => (DecodeSpec => []ConfiguredHighlighted)
<1> DEFINE Inv == Positions /\ ConfiguredHighlighted
<1>1. ASSUME NarrowLegend, Inv, [DecodeNext]_decodeVars
      PROVE  Inv'
  <2>1. CASE ProcessToken
    BY <1>1, <2>1, StepPositions, StepHighlighted
  <2>2. CASE UNCHANGED decodeVars
    BY <1>1, <2>2 DEF decodeVars, Positions, TypeOK, StartsAtOrigin, PositionFollows,
       ConfiguredHighlighted
  <2> QED
    BY <1>1, <2>1, <2>2 DEF DecodeNext
<1>2. ASSUME NarrowLegend PROVE DecodeSpec => []ConfiguredHighlighted
  <2>1. DecodeInit => Inv
    BY InitPositions
  <2>2. Inv /\ [DecodeNext]_decodeVars => Inv'
    BY <1>1, <1>2
  <2>3. Inv => ConfiguredHighlighted
    OBVIOUS
  <2> QED
    BY <2>1, <2>2, <2>3, PTL DEF DecodeSpec
<1> QED
  BY <1>2

-------------------------------------------------------------------------------
(* LspSemtokens                                                              *)

(* The words the server's arrays are built from.                             *)
Word == UNION {Words(array) : array \in TokenArrays}

CachedData == [known: BOOLEAN, tokens: TokenArrays \cup {<<>>}, id: Nat]

Request == [doc: Doc, prev: Nat]

(* n is the number of the last of the results for d.                         *)
IsLast(numbered, d, n) ==
  /\ n \in 1..Len(numbered) /\ numbered[n].doc = d
  /\ \A m \in 1..Len(numbered) : m > n => numbered[m].doc # d

(* What is cached of a document is the last result for it, with its number   *)
(* or none.                                                                  *)
CacheIsLast(d) ==
  IF cache[d].known
  THEN \E n \in 1..Len(results) :
         IsLast(results, d, n) /\ cache[d].tokens = results[n].tokens /\ cache[d].id \in {0, n}
  ELSE cache[d] = NoCache

(* Requests name results of the running server, and a lost one has none.     *)
FlightSound ==
  /\ flight \in Seq(Request)
  /\ \A n \in 1..Len(flight) : flight[n].prev \in 0..Len(results)
  /\ ~ready => flight = <<>>

SemtokensIInv ==
  /\ cache \in [Doc -> CachedData]
  /\ results \in Seq(Result)
  /\ ready \in BOOLEAN /\ oldServer \in BOOLEAN
  /\ FlightSound
  /\ \A d \in Doc : CacheIsLast(d)

-------------------------------------------------------------------------------
LEMMA ArraysAreSeqs ==
  \A a \in TokenArrays \cup {<<>>} : a \in Seq(Word)
<1> SUFFICES ASSUME NEW a \in TokenArrays
             PROVE  a \in Seq(Word)
  BY EmptySeq
<1>1. a \in Seq(ToSet(a))
  BY LspSemtokensAssumption
<1>2. ToSet(a) \subseteq Word
  BY DEF Word, Words
<1> QED
  BY <1>1, <1>2, SeqMonotonic

(* Naturals with a bound have a greatest one.                                *)
LEMMA GreatestOf ==
  ASSUME NEW n \in Nat, NEW S \in SUBSET (0..n), S # {}
  PROVE  Max(S) \in S /\ \A y \in S : Max(S) >= y
<1> DEFINE T == {n - x : x \in S}
           Less == {p \in Nat \X Nat : p[1] < p[2]}
<1>1. T \subseteq Nat /\ T # {}
  <2>1. \A x \in S : n - x \in Nat
    OBVIOUS
  <2>2. PICK x \in S : TRUE
    OBVIOUS
  <2>3. n - x \in T
    OBVIOUS
  <2> QED
    BY <2>1, <2>3
<1>2. IsWellFoundedOn(Less, Nat)
  BY NatLessThanWellFounded DEF OpToRel
<1>3. PICK m \in T : \A y \in T : ~(<<y, m>> \in Less)
  <2> HIDE DEF T, Less
  <2> QED
    BY <1>1, <1>2, WFMin
<1>4. \A y \in T : m <= y
  <2> SUFFICES ASSUME NEW y \in T
               PROVE  m <= y
    OBVIOUS
  <2>1. y \in Nat /\ m \in Nat
    BY <1>1
  <2>2. ~(y < m)
    BY <1>3, <2>1
  <2> QED
    BY <2>1, <2>2
<1>5. PICK x \in S : m = n - x
  OBVIOUS
<1>6. \A y \in S : x >= y
  <2> SUFFICES ASSUME NEW y \in S
               PROVE  x >= y
    OBVIOUS
  <2>1. n - x <= n - y
    BY <1>4, <1>5
  <2>2. x \in 0..n /\ y \in 0..n
    OBVIOUS
  <2> HIDE DEF T, Less
  <2> QED
    BY <2>1, <2>2
<1> QED
  BY <1>6 DEF Max

LEMMA LesserOf ==
  ASSUME NEW m \in Nat, NEW n \in Nat
  PROVE  Min({m, n}) \in {m, n} /\ Min({m, n}) <= m /\ Min({m, n}) <= n
<1>1. \E x \in {m, n} : \A y \in {m, n} : x =< y
  <2>1. CASE m <= n
    BY <2>1
  <2>2. CASE n <= m
    BY <2>2
  <2> QED
    BY <2>1, <2>2
<1> QED
  BY <1>1 DEF Min

(* The edit between two arrays turns the one into the other.                 *)
LEMMA DiffApplied ==
  ASSUME NEW S, NEW a \in Seq(S), NEW b \in Seq(S)
  PROVE  EditApply(a, Diff(a, b)) = b
<1> DEFINE n == Min({Len(a), Len(b)})
           Common == {j \in 0..n : SubSeq(a, 1, j) = SubSeq(b, 1, j)}
           k == CommonPrefix(a, b)
<1>1. Len(a) \in Nat /\ Len(b) \in Nat
  OBVIOUS
<1>2. n \in Nat /\ n <= Len(a) /\ n <= Len(b)
  BY <1>1, LesserOf
<1> HIDE DEF n
<1>3. 0 \in Common
  <2>1. SubSeq(a, 1, 0) = <<>> /\ SubSeq(b, 1, 0) = <<>>
    BY SubSeqEmpty
  <2> QED
    BY <1>2, <2>1
<1>4. k = Max(Common)
  BY DEF CommonPrefix, n
<1>5. k \in Common
  <2>1. Common \in SUBSET (0..n) /\ Common # {}
    BY <1>3
  <2> HIDE DEF Common
  <2> QED
    BY <1>2, <1>4, <2>1, GreatestOf
<1>6. k \in Nat /\ k <= Len(a) /\ k <= Len(b) /\ SubSeq(a, 1, k) = SubSeq(b, 1, k)
  BY <1>1, <1>2, <1>5
<1> HIDE DEF k
<1>7. Diff(a, b) = [start |-> k, deleteCount |-> Len(a) - k, data |-> SubSeq(b, k + 1, Len(b))]
  BY DEF Diff, k
<1>8. k + (Len(a) - k) = Len(a)
  BY <1>1, <1>6
<1>9. SubSeq(a, Len(a) + 1, Len(a)) = <<>>
  <2>1. Len(a) + 1 \in Int /\ Len(a) \in Int /\ Len(a) < Len(a) + 1
    BY <1>1
  <2> QED
    BY <2>1, SubSeqEmpty
<1>10. SubSeq(b, 1, k) \o SubSeq(b, k + 1, Len(b)) = b
  <2>1. SubSeq(b, 1, k) \o SubSeq(b, k + 1, Len(b)) = SubSeq(b, 1, Len(b))
    <3>1. 1 \in 1..(Len(b) + 1) /\ k \in (1 - 1)..Len(b) /\ Len(b) \in k..Len(b)
      BY <1>1, <1>6
    <3> QED
      BY <3>1, ConcatAdjacentSubSeq
  <2> QED
    BY <2>1, SubSeqFull
<1>11. EditApply(a, Diff(a, b)) = (SubSeq(a, 1, k) \o SubSeq(b, k + 1, Len(b))) \o SubSeq(a, Len(a) + 1, Len(a))
  <2> DEFINE change == [start |-> k, deleteCount |-> Len(a) - k, data |-> SubSeq(b, k + 1, Len(b))]
  <2>1. /\ change.start = k /\ change.deleteCount = Len(a) - k
        /\ change.data = SubSeq(b, k + 1, Len(b))
    OBVIOUS
  <2>2. Diff(a, b) = change
    BY <1>7
  <2> HIDE DEF change
  <2>3. change.start + change.deleteCount = Len(a)
    BY <1>8, <2>1
  <2>4. InRange(a, change)
    BY <1>1, <2>3 DEF InRange
  <2>5. EditApply(a, change) = SubSeq(a, 1, change.start) \o change.data
          \o SubSeq(a, change.start + change.deleteCount + 1, Len(a))
    BY <2>4 DEF EditApply
  <2>6. EditApply(a, change) = SubSeq(a, 1, k) \o SubSeq(b, k + 1, Len(b))
          \o SubSeq(a, Len(a) + 1, Len(a))
    BY <2>1, <2>3, <2>5
  <2>7. EditApply(a, change) = (SubSeq(b, 1, k) \o SubSeq(b, k + 1, Len(b)))
          \o SubSeq(a, Len(a) + 1, Len(a))
    BY <1>6, <2>6
  <2> QED
    BY <1>6, <2>2, <2>7
<1> QED
  BY <1>6, <1>9, <1>10, <1>11, ConcatEmptySeq

-------------------------------------------------------------------------------
(* The server's number of the last result is that of the last in the order   *)
(* they are numbered.                                                        *)
LEMMA LastIsGreatest ==
  ASSUME results \in Seq(Result), NEW d, NEW n, IsLast(results, d, n)
  PROVE  LastResult(d) = n
<1> DEFINE S == {0} \cup {m \in 1..Len(results) : results[m].doc = d}
<1>1. Len(results) \in Nat
  OBVIOUS
<1>2. S \in SUBSET (0..Len(results)) /\ S # {}
  BY <1>1
<1>3. n \in S
  BY DEF IsLast
<1>4. Max(S) \in S /\ Max(S) >= n
  <2> HIDE DEF S
  <2> QED
    BY <1>1, <1>2, <1>3, GreatestOf
<1>5. Max(S) > n => FALSE
  <2> SUFFICES ASSUME Max(S) > n PROVE FALSE
    OBVIOUS
  <2> DEFINE m == Max(S)
  <2>1. m \in 0..Len(results) /\ n \in 1..Len(results) /\ m > n
    BY <1>2, <1>4 DEF IsLast
  <2>2. m \in {l \in 1..Len(results) : results[l].doc = d}
    <3>1. m # 0
      <4> HIDE DEF m
      <4> QED
        BY <2>1
    <3> QED
      BY <1>4, <3>1
  <2> HIDE DEF m
  <2> QED
    BY <2>1, <2>2 DEF IsLast
<1>6. Max(S) \in Int /\ n \in Int
  BY <1>2, <1>3, <1>4
<1>7. Max(S) = n
  <2> HIDE DEF S
  <2> QED
    BY <1>4, <1>5, <1>6
<1> QED
  BY <1>7 DEF LastResult

(* A new result for d is its last one, and leaves other documents theirs.    *)
LEMMA NewIsLast ==
  ASSUME results \in Seq(Result), NEW d \in Doc, NEW a \in TokenArrays, NewResult(d, a)
  PROVE  /\ results' \in Seq(Result)
         /\ Len(results') = Len(results) + 1
         /\ IsLast(results', d, Len(results) + 1)
         /\ results'[Len(results) + 1].tokens = a
         /\ \A n \in 1..Len(results) : results'[n] = results[n]
<1> DEFINE new == [doc |-> d, tokens |-> a]
<1>1. new \in Result
  BY DEF Result
<1>2. results' = Append(results, new)
  BY DEF NewResult
<1>3. new.doc = d /\ new.tokens = a
  OBVIOUS
<1> HIDE DEF new
<1>4. /\ results' \in Seq(Result)
      /\ Len(results') = Len(results) + 1
      /\ results'[Len(results) + 1] = new
      /\ \A n \in 1..Len(results) : results'[n] = results[n]
      /\ Len(results) \in Nat
  BY <1>1, <1>2, AppendProperties
<1>5. IsLast(results', d, Len(results) + 1)
  <2>1. Len(results) + 1 \in 1..Len(results')
    BY <1>4
  <2>2. \A m \in 1..Len(results') : ~(m > Len(results) + 1)
    BY <1>4
  <2> QED
    BY <1>3, <1>4, <2>1, <2>2 DEF IsLast
<1> QED
  BY <1>3, <1>4, <1>5

LEMMA OthersKeepLast ==
  ASSUME results \in Seq(Result), NEW d \in Doc, NEW a \in TokenArrays, NewResult(d, a),
         NEW e \in Doc, e # d, CacheIsLast(e), cache'[e] = cache[e]
  PROVE  CacheIsLast(e)'
<1>1. /\ Len(results') = Len(results) + 1
      /\ IsLast(results', d, Len(results) + 1)
      /\ \A n \in 1..Len(results) : results'[n] = results[n]
      /\ Len(results) \in Nat
  BY NewIsLast
<1>2. CASE ~cache[e].known
  BY <1>2 DEF CacheIsLast, NoCache
<1>3. CASE cache[e].known
  <2>1. PICK n \in 1..Len(results) :
          IsLast(results, e, n) /\ cache[e].tokens = results[n].tokens /\ cache[e].id \in {0, n}
    BY <1>3 DEF CacheIsLast
  <2>2. results'[Len(results) + 1].doc = d
    BY <1>1 DEF IsLast
  <2>3. n \in 1..Len(results') /\ results'[n] = results[n]
    BY <1>1
  <2>4. ASSUME NEW m \in 1..Len(results'), m > n
        PROVE  results'[m].doc # e
    <3>1. CASE m \in 1..Len(results)
      BY <1>1, <2>1, <2>4, <3>1 DEF IsLast
    <3>2. CASE m = Len(results) + 1
      BY <2>2, <3>2
    <3> QED
      BY <1>1, <3>1, <3>2
  <2>5. IsLast(results', e, n)
    BY <2>1, <2>3, <2>4 DEF IsLast
  <2> QED
    BY <1>3, <2>1, <2>3, <2>5 DEF CacheIsLast
<1> QED
  BY <1>2, <1>3

(* The request a reply answers, and what stays in flight.                    *)
LEMMA RepliedTo ==
  ASSUME SemtokensIInv, NextReply
  PROVE  /\ Head(flight).doc \in Doc
         /\ Head(flight).prev \in 0..Len(results)
         /\ flight' \in Seq(Request)
         /\ \A n \in 1..Len(flight') : flight'[n].prev \in 0..Len(results)
         /\ ready /\ ready' = ready /\ oldServer' = oldServer
<1>1. flight \in Seq(Request) /\ flight # <<>> /\ flight' = Tail(flight)
  BY DEF SemtokensIInv, FlightSound, NextReply
<1>2. /\ Head(flight) = flight[1] /\ 1 \in 1..Len(flight)
      /\ flight' \in Seq(Request)
      /\ Len(flight') = Len(flight) - 1
      /\ \A n \in 1..Len(flight') : flight'[n] = flight[n + 1] /\ n + 1 \in 1..Len(flight)
  BY <1>1
<1>3. flight[1] \in Request
  BY <1>1, <1>2
<1>4. \A n \in 1..Len(flight) : flight[n].prev \in 0..Len(results)
  BY DEF SemtokensIInv, FlightSound
<1>5. Head(flight).doc \in Doc
  BY <1>2, <1>3 DEF Request
<1>6. Head(flight).prev \in 0..Len(results)
  BY <1>2, <1>4
<1>7. \A n \in 1..Len(flight') : flight'[n].prev \in 0..Len(results)
  BY <1>2, <1>4
<1>8. ready /\ ready' = ready /\ oldServer' = oldServer
  BY <1>1 DEF SemtokensIInv, FlightSound, NextReply
<1> QED
  BY <1>2, <1>5, <1>6, <1>7, <1>8

LEMMA InitSemtokens == SemtokensInit => SemtokensIInv
<1> SUFFICES ASSUME SemtokensInit PROVE SemtokensIInv
  OBVIOUS
<1>1. NoCache \in CachedData /\ ~NoCache.known
  BY DEF NoCache, CachedData
<1>2. \A d \in Doc : CacheIsLast(d)
  BY <1>1 DEF SemtokensInit, CacheIsLast
<1>3. cache \in [Doc -> CachedData]
  BY <1>1 DEF SemtokensInit
<1>4. flight \in Seq(Request) /\ Len(flight) = 0 /\ results \in Seq(Result)
  BY DEF SemtokensInit
<1>5. FlightSound
  BY <1>4 DEF FlightSound, SemtokensInit
<1> QED
  BY <1>2, <1>3, <1>4, <1>5 DEF SemtokensIInv, SemtokensInit

(* A reply that caches array a for d and numbers it.                         *)
LEMMA ReplyCached ==
  ASSUME SemtokensIInv, NextReply, NEW d \in Doc, NEW a \in TokenArrays, NewResult(d, a),
         NEW id \in {0, Len(results) + 1},
         cache' = [cache EXCEPT ![d] = [known |-> TRUE, tokens |-> a, id |-> id]]
  PROVE  SemtokensIInv'
<1> DEFINE cached == [known |-> TRUE, tokens |-> a, id |-> id]
<1>1. results \in Seq(Result) /\ Len(results) \in Nat
  BY DEF SemtokensIInv
<1>2. /\ results' \in Seq(Result)
      /\ Len(results') = Len(results) + 1
      /\ IsLast(results', d, Len(results) + 1)
      /\ results'[Len(results) + 1].tokens = a
  BY <1>1, NewIsLast
<1>3. cached \in CachedData /\ cached.known /\ cached.tokens = a /\ cached.id = id
  BY <1>1 DEF CachedData
<1> HIDE DEF cached
<1>4. cache \in [Doc -> CachedData] /\ cache' = [cache EXCEPT ![d] = cached]
  BY DEF SemtokensIInv, cached
<1>5. cache' \in [Doc -> CachedData] /\ cache'[d] = cached
  BY <1>3, <1>4
<1>6. CacheIsLast(d)'
  <2>1. Len(results) + 1 \in 1..Len(results')
    BY <1>1, <1>2
  <2> QED
    BY <1>2, <1>3, <1>5, <2>1 DEF CacheIsLast
<1>7. ASSUME NEW e \in Doc, e # d
      PROVE  CacheIsLast(e)'
  <2>1. cache'[e] = cache[e]
    BY <1>4, <1>7
  <2>2. CacheIsLast(e)
    BY DEF SemtokensIInv
  <2> QED
    BY <1>1, <1>7, <2>1, <2>2, OthersKeepLast
<1>8. FlightSound'
  <2>1. /\ flight' \in Seq(Request)
        /\ \A n \in 1..Len(flight') : flight'[n].prev \in 0..Len(results)
        /\ ready /\ ready' = ready
    BY RepliedTo
  <2> QED
    BY <1>1, <1>2, <2>1 DEF FlightSound
<1>9. ready' \in BOOLEAN /\ oldServer' \in BOOLEAN
  BY RepliedTo DEF SemtokensIInv
<1> QED
  BY <1>2, <1>5, <1>6, <1>7, <1>8, <1>9 DEF SemtokensIInv

(* Where a server answers with edits since the last result only, the edits   *)
(* of its answer turn what is cached into what it computed.                  *)
LEMMA DeltaIsArray ==
  ASSUME ~KeepsAll, SemtokensIInv,
         NEW r \in Request, r.prev \in 0..Len(results), MayDelta(r), cache[r.doc].known,
         NEW a \in TokenArrays, NEW id
  PROVE  DeltaResult(r.doc, Diff(results[r.prev].tokens, a), id)
           = [known |-> TRUE, tokens |-> a, id |-> id]
<1>1. r.prev = LastResult(r.doc)
  BY DEF MayDelta
<1>2. r.doc \in Doc
  BY DEF Request
<1>3. PICK n \in 1..Len(results) :
        IsLast(results, r.doc, n) /\ cache[r.doc].tokens = results[n].tokens
  BY <1>2 DEF SemtokensIInv, CacheIsLast
<1>4. results \in Seq(Result)
  BY DEF SemtokensIInv
<1>5. r.prev = n
  BY <1>1, <1>3, <1>4, LastIsGreatest
<1>6. results[n].tokens \in TokenArrays
  <2>1. results[n] \in Result
    BY <1>3, <1>4
  <2> QED
    BY <2>1 DEF Result
<1>7. results[n].tokens \in Seq(Word) /\ a \in Seq(Word)
  BY <1>6, ArraysAreSeqs
<1>8. EditApply(results[n].tokens, Diff(results[n].tokens, a)) = a
  BY <1>7, DiffApplied
<1> QED
  BY <1>3, <1>5, <1>8 DEF DeltaResult

(* An answer to a request whose document's cache was cleared.                *)
LEMMA DeltaDropped ==
  ASSUME SemtokensIInv, NextReply, NEW d \in Doc, NEW a \in TokenArrays, NewResult(d, a),
         ~cache[d].known, cache' = cache
  PROVE  SemtokensIInv'
<1>1. results \in Seq(Result) /\ Len(results) \in Nat
  BY DEF SemtokensIInv
<1>2. results' \in Seq(Result) /\ Len(results') = Len(results) + 1
  BY <1>1, NewIsLast
<1>3. ASSUME NEW e \in Doc
      PROVE  CacheIsLast(e)'
  <2>1. CacheIsLast(e) /\ cache'[e] = cache[e]
    BY DEF SemtokensIInv
  <2>2. CASE e = d
    BY <2>1, <2>2 DEF CacheIsLast, NoCache
  <2>3. CASE e # d
    BY <1>1, <2>1, <2>3, OthersKeepLast
  <2> QED
    BY <2>2, <2>3
<1>4. FlightSound'
  <2>1. /\ flight' \in Seq(Request)
        /\ \A n \in 1..Len(flight') : flight'[n].prev \in 0..Len(results)
        /\ ready /\ ready' = ready
    BY RepliedTo
  <2> QED
    BY <1>1, <1>2, <2>1 DEF FlightSound
<1>5. ready' \in BOOLEAN /\ oldServer' \in BOOLEAN
  BY RepliedTo DEF SemtokensIInv
<1> QED
  BY <1>2, <1>3, <1>4, <1>5 DEF SemtokensIInv

(* A document's cache, or every document's, is emptied.                      *)
LEMMA CacheEmptied ==
  ASSUME SemtokensIInv, NEW D \in SUBSET Doc,
         cache' = [d \in Doc |-> IF d \in D THEN NoCache ELSE cache[d]],
         \/ results' = results
         \/ results' = <<>> /\ D = Doc
  PROVE  /\ cache' \in [Doc -> CachedData]
         /\ results' \in Seq(Result)
         /\ \A d \in Doc : CacheIsLast(d)'
<1>1. NoCache \in CachedData /\ ~NoCache.known
  BY DEF NoCache, CachedData
<1>2. cache' \in [Doc -> CachedData]
  <2>1. cache \in [Doc -> CachedData]
    BY DEF SemtokensIInv
  <2> QED
    BY <1>1, <2>1
<1>3. results' \in Seq(Result)
  BY EmptySeq DEF SemtokensIInv
<1>4. ASSUME NEW d \in Doc
      PROVE  CacheIsLast(d)'
  <2>1. CASE d \in D
    BY <1>1, <2>1 DEF CacheIsLast
  <2>2. CASE d \notin D
    <3>1. cache'[d] = cache[d] /\ results' = results
      BY <2>2
    <3>2. CacheIsLast(d)
      BY DEF SemtokensIInv
    <3> QED
      BY <3>1, <3>2 DEF CacheIsLast, IsLast
  <2> QED
    BY <2>1, <2>2
<1> QED
  BY <1>2, <1>3, <1>4

LEMMA NextSemtokens ==
  ASSUME ~KeepsAll, SemtokensIInv, [SemtokensNext]_semtokensVars
  PROVE  SemtokensIInv'
<1>1. ASSUME NEW d \in Doc, SendRequest(d)
      PROVE  SemtokensIInv'
  <2> DEFINE r == [doc |-> d, prev |-> IF cache[d].known THEN cache[d].id ELSE 0]
  <2>1. /\ flight' = Append(flight, r) /\ ready
        /\ UNCHANGED <<cache, results, ready, oldServer>>
    BY <1>1 DEF SendRequest
  <2>2. cache[d].known => cache[d].id \in 0..Len(results)
    BY DEF SemtokensIInv, CacheIsLast
  <2>3. r \in Request /\ r.prev \in 0..Len(results)
    BY <2>2 DEF Request, SemtokensIInv
  <2> HIDE DEF r
  <2>4. flight \in Seq(Request) /\ \A n \in 1..Len(flight) : flight[n].prev \in 0..Len(results)
    BY DEF SemtokensIInv, FlightSound
  <2>5. flight' \in Seq(Request) /\ \A n \in 1..Len(flight') : flight'[n].prev \in 0..Len(results)
    <3>1. /\ flight' \in Seq(Request) /\ Len(flight') = Len(flight) + 1
          /\ flight'[Len(flight) + 1] = r /\ Len(flight) \in Nat
          /\ \A n \in 1..Len(flight) : flight'[n] = flight[n]
      BY <2>1, <2>3, <2>4, AppendProperties
    <3>2. \A n \in 1..Len(flight') : n \in 1..Len(flight) \/ n = Len(flight) + 1
      BY <3>1
    <3> QED
      BY <2>3, <2>4, <3>1, <3>2
  <2> QED
    BY <2>1, <2>5 DEF SemtokensIInv, FlightSound, CacheIsLast, IsLast
<1>2. ASSUME NEW d \in Doc, Clear(d) \/ Destroy(d)
      PROVE  SemtokensIInv'
  <2>1. /\ cache' = [cache EXCEPT ![d] = NoCache]
        /\ UNCHANGED <<flight, results, ready, oldServer>>
    BY <1>2 DEF Clear, Destroy
  <2>2. cache' = [e \in Doc |-> IF e \in {d} THEN NoCache ELSE cache[e]]
    BY <2>1 DEF SemtokensIInv
  <2>3. /\ cache' \in [Doc -> CachedData] /\ results' \in Seq(Result)
        /\ \A e \in Doc : CacheIsLast(e)'
    BY <2>1, <2>2, CacheEmptied
  <2> QED
    BY <2>1, <2>3 DEF SemtokensIInv, FlightSound
<1>3. ASSUME ReplyFull
      PROVE  SemtokensIInv'
  <2> DEFINE d == Head(flight).doc
  <2>1. NextReply /\ d \in Doc
    BY <1>3, RepliedTo DEF ReplyFull
  <2>2. PICK a \in TokenArrays, numbered \in BOOLEAN :
          /\ NewResult(d, a)
          /\ cache' = [cache EXCEPT ![d] =
                         FullResult(d, a, IF numbered THEN Len(results) + 1 ELSE 0)]
    BY <1>3 DEF ReplyFull
  <2> DEFINE id == IF numbered THEN Len(results) + 1 ELSE 0
  <2>3. id \in {0, Len(results) + 1}
    OBVIOUS
  <2>4. cache' = [cache EXCEPT ![d] = [known |-> TRUE, tokens |-> a, id |-> id]]
    BY <2>2 DEF FullResult
  <2> HIDE DEF d, id
  <2> QED
    BY <2>1, <2>2, <2>3, <2>4, ReplyCached
<1>4. ASSUME ReplyDelta
      PROVE  SemtokensIInv'
  <2> DEFINE r == Head(flight)
             d == r.doc
  <2>1. NextReply /\ MayDelta(r) /\ d \in Doc /\ r.prev \in 0..Len(results)
    BY <1>4, RepliedTo DEF ReplyDelta
  <2>2. r \in Request
    BY <2>1 DEF SemtokensIInv, FlightSound, NextReply
  <2>3. PICK a \in TokenArrays :
          /\ NewResult(d, a)
          /\ IF cache[d].known
             THEN cache' = [cache EXCEPT ![d] =
                     DeltaResult(d, Diff(results[r.prev].tokens, a), Len(results) + 1)]
             ELSE cache' = cache
    BY <1>4 DEF ReplyDelta
  <2> HIDE DEF r
  <2>4. CASE cache[d].known
    <3>1. DeltaResult(d, Diff(results[r.prev].tokens, a), Len(results) + 1)
            = [known |-> TRUE, tokens |-> a, id |-> Len(results) + 1]
      BY <2>1, <2>2, <2>4, DeltaIsArray
    <3>2. Len(results) + 1 \in {0, Len(results) + 1}
      OBVIOUS
    <3>3. cache' = [cache EXCEPT ![d] = [known |-> TRUE, tokens |-> a, id |-> Len(results) + 1]]
      BY <2>3, <2>4, <3>1
    <3> HIDE DEF d
    <3> QED
      BY <2>1, <2>3, <3>2, <3>3, ReplyCached
  <2>5. CASE ~cache[d].known
    BY <2>1, <2>3, <2>5, DeltaDropped
  <2> QED
    BY <2>4, <2>5
<1>5. ASSUME ReplyNothing \/ ReplyError
      PROVE  SemtokensIInv'
  <2> DEFINE d == Head(flight).doc
  <2>1. NextReply /\ results' = results
    BY <1>5 DEF ReplyNothing, ReplyError
  <2>2. /\ d \in Doc
        /\ flight' \in Seq(Request)
        /\ \A n \in 1..Len(flight') : flight'[n].prev \in 0..Len(results)
        /\ ready /\ ready' = ready /\ oldServer' = oldServer
    BY <2>1, RepliedTo
  <2>3. cache \in [Doc -> CachedData]
    BY DEF SemtokensIInv
  <2>4. PICK D \in SUBSET Doc : cache' = [e \in Doc |-> IF e \in D THEN NoCache ELSE cache[e]]
    <3>1. CASE ReplyNothing
      <4>1. cache' = [e \in Doc |-> IF e \in {d} THEN NoCache ELSE cache[e]]
        BY <2>3, <3>1 DEF ReplyNothing
      <4>2. {d} \in SUBSET Doc
        BY <2>2
      <4> QED
        BY <4>1, <4>2
    <3>2. CASE ReplyError
      <4>1. cache' = [e \in Doc |-> IF e \in {} THEN NoCache ELSE cache[e]]
        BY <2>3, <3>2 DEF ReplyError
      <4>2. {} \in SUBSET Doc
        OBVIOUS
      <4> QED
        BY <4>1, <4>2
    <3> QED
      BY <1>5, <3>1, <3>2
  <2>5. /\ cache' \in [Doc -> CachedData] /\ results' \in Seq(Result)
        /\ \A e \in Doc : CacheIsLast(e)'
    BY <2>1, <2>4, CacheEmptied
  <2> QED
    BY <2>1, <2>2, <2>5 DEF SemtokensIInv, FlightSound
<1>6. ASSUME ServerLost
      PROVE  SemtokensIInv'
  <2>1. /\ flight' = <<>> /\ ready' = FALSE /\ oldServer' = TRUE
        /\ UNCHANGED <<cache, results>>
    BY <1>6 DEF ServerLost
  <2>2. FlightSound'
    BY <2>1, EmptySeq DEF FlightSound
  <2> QED
    BY <2>1, <2>2 DEF SemtokensIInv, CacheIsLast, IsLast
<1>7. ASSUME ServerInitialized \/ FreeOldServer
      PROVE  SemtokensIInv'
  <2>1. cache' = [d \in Doc |-> IF d \in Doc THEN NoCache ELSE cache[d]]
    BY <1>7 DEF ServerInitialized, FreeOldServer
  <2>2. results' = results \/ results' = <<>>
    BY <1>7 DEF ServerInitialized, FreeOldServer
  <2>3. /\ cache' \in [Doc -> CachedData] /\ results' \in Seq(Result)
        /\ \A e \in Doc : CacheIsLast(e)'
    BY <2>1, <2>2, CacheEmptied
  <2>4. FlightSound' /\ ready' \in BOOLEAN /\ oldServer' \in BOOLEAN
    <3>1. CASE ServerInitialized
      BY <3>1 DEF ServerInitialized, SemtokensIInv, FlightSound
    <3>2. CASE FreeOldServer
      BY <3>2 DEF FreeOldServer, SemtokensIInv, FlightSound
    <3> QED
      BY <1>7, <3>1, <3>2
  <2> QED
    BY <2>3, <2>4 DEF SemtokensIInv
<1>8. CASE UNCHANGED semtokensVars
  BY <1>8 DEF semtokensVars, SemtokensIInv, FlightSound, CacheIsLast, IsLast
<1> QED
  BY <1>1, <1>2, <1>3, <1>4, <1>5, <1>6, <1>7, <1>8 DEF SemtokensNext

(* With a server that answers with edits since a document's last result      *)
(* only, the cached array is the one numbered with the cached id, for any    *)
(* number of documents, results and requests in flight.                      *)
THEOREM CacheStaysResult ==
  ~KeepsAll /\ SemtokensSpec => []CacheIsResult
<1>1. SemtokensInit => SemtokensIInv
  BY InitSemtokens
<1>2. ASSUME ~KeepsAll, SemtokensIInv, [SemtokensNext]_semtokensVars
      PROVE  SemtokensIInv'
  BY <1>2, NextSemtokens
<1>3. SemtokensIInv => CacheIsResult
  <2> SUFFICES ASSUME SemtokensIInv PROVE CacheIsResult
    OBVIOUS
  <2>1. ASSUME NEW d \in Doc
        PROVE  /\ cache[d].known \in BOOLEAN
               /\ cache[d].id \in 0..Len(results)
               /\ cache[d].id # 0 => cache[d].tokens = results[cache[d].id].tokens
    <3>1. cache[d] \in CachedData /\ CacheIsLast(d) /\ Len(results) \in Nat
      BY DEF SemtokensIInv
    <3>2. CASE cache[d].known
      BY <3>1, <3>2 DEF CacheIsLast, CachedData
    <3>3. CASE ~cache[d].known
      BY <3>1, <3>3 DEF CacheIsLast, NoCache, CachedData
    <3> QED
      BY <3>2, <3>3
  <2>2. \A n \in 1..Len(flight) : flight[n].doc \in Doc /\ flight[n].prev \in 0..Len(results)
    <3>1. flight \in Seq(Request)
      BY DEF SemtokensIInv, FlightSound
    <3>2. \A n \in 1..Len(flight) : flight[n] \in Request
      BY <3>1
    <3> QED
      BY <3>2 DEF SemtokensIInv, FlightSound, Request
  <2>3. results \in Seq(Result) /\ ready \in BOOLEAN /\ oldServer \in BOOLEAN
    BY DEF SemtokensIInv
  <2>4. SemtokensTypeOK
    BY <2>1, <2>2, <2>3 DEF SemtokensTypeOK
  <2> QED
    BY <2>1, <2>4 DEF CacheIsResult
<1>4. ASSUME ~KeepsAll
      PROVE  SemtokensSpec => []CacheIsResult
  BY <1>1, <1>2, <1>3, <1>4, PTL DEF SemtokensSpec
<1> QED
  BY <1>4

-------------------------------------------------------------------------------
(* The keywords with the hash keyword_hash are those in the editor.          *)
HashIsOfEditor == keywordHash # NoHash => \A d \in Doc : keywords[d] = keywordHash

ReplyIInv ==
  /\ SemtokensIInv
  /\ keywords \in [Doc -> SUBSET Word]
  /\ HashIsOfEditor

(* Highlighting an array for the only document shows its words there.        *)
LEMMA Highlighted ==
  ASSUME ReplyIInv, NEW d, Doc = {d}, NEW a \in TokenArrays, NEW id,
         HighlightKeywords(d, [known |-> TRUE, tokens |-> a, id |-> id])
  PROVE  /\ keywords' \in [Doc -> SUBSET Word]
         /\ HashIsOfEditor'
         /\ keywords'[d] = Words(a)
<1>1. Words(a) \in SUBSET Word /\ Words(a) # NoHash
  BY NoHashAssumption DEF Word
<1>2. IF keywordHash # Words(a)
      THEN keywords' = [keywords EXCEPT ![d] = Words(a)] /\ keywordHash' = Words(a)
      ELSE UNCHANGED <<keywords, keywordHash>>
  BY DEF HighlightKeywords
<1>3. keywords \in [Doc -> SUBSET Word] /\ d \in Doc
  BY DEF ReplyIInv
<1>4. CASE keywordHash # Words(a)
  BY <1>1, <1>2, <1>3, <1>4 DEF HashIsOfEditor
<1>5. CASE keywordHash = Words(a)
  BY <1>1, <1>2, <1>3, <1>5 DEF ReplyIInv, HashIsOfEditor
<1> QED
  BY <1>4, <1>5

ReplyShowsStep ==
  \A d \in Doc : cache'[d].known /\ cache'[d] # cache[d] =>
    keywords'[d] = Words(cache'[d].tokens)

LEMMA NextShown ==
  ASSUME ~KeepsAll, NEW doc, Doc = {doc}, ReplyIInv, SemtokensNext
  PROVE  /\ keywords' \in [Doc -> SUBSET Word]
         /\ HashIsOfEditor'
         /\ ReplyShowsStep
<1> USE DEF ReplyIInv
<1>1. cache \in [Doc -> CachedData] /\ doc \in Doc
  BY DEF SemtokensIInv
<1>2. ASSUME NEW a \in TokenArrays, NEW id,
             cache' = [cache EXCEPT ![doc] = [known |-> TRUE, tokens |-> a, id |-> id]],
             HighlightKeywords(doc, [known |-> TRUE, tokens |-> a, id |-> id])
      PROVE  /\ keywords' \in [Doc -> SUBSET Word]
             /\ HashIsOfEditor'
             /\ ReplyShowsStep
  <2>1. /\ keywords' \in [Doc -> SUBSET Word]
        /\ HashIsOfEditor'
        /\ keywords'[doc] = Words(a)
    BY <1>2, Highlighted
  <2>2. cache'[doc].tokens = a
    BY <1>1, <1>2
  <2> QED
    BY <2>1, <2>2 DEF ReplyShowsStep
<1>3. ASSUME keywords' = keywords,
             keywordHash' = keywordHash \/ keywordHash' = NoHash,
             cache'[doc] = cache[doc] \/ cache'[doc] = NoCache
      PROVE  /\ keywords' \in [Doc -> SUBSET Word]
             /\ HashIsOfEditor'
             /\ ReplyShowsStep
  BY <1>3 DEF HashIsOfEditor, ReplyShowsStep, NoCache
<1>4. ASSUME NEW d \in Doc, SendRequest(d) \/ Clear(d) \/ Destroy(d)
      PROVE  /\ keywords' \in [Doc -> SUBSET Word]
             /\ HashIsOfEditor'
             /\ ReplyShowsStep
  <2>1. /\ keywords' = keywords
        /\ keywordHash' = keywordHash \/ keywordHash' = NoHash
        /\ cache'[doc] = cache[doc] \/ cache'[doc] = NoCache
    BY <1>1, <1>4 DEF SendRequest, Clear, Destroy
  <2> QED
    BY <1>3, <2>1
<1>5. ASSUME NextReply
      PROVE  Head(flight).doc = doc /\ Head(flight) \in Request
             /\ Head(flight).prev \in 0..Len(results)
  <2>1. Head(flight).doc \in Doc /\ Head(flight).prev \in 0..Len(results)
    BY <1>5, RepliedTo
  <2>2. Head(flight) \in Request
    BY <1>5 DEF SemtokensIInv, FlightSound, NextReply
  <2> QED
    BY <2>1, <2>2
<1>6. ASSUME ReplyFull
      PROVE  /\ keywords' \in [Doc -> SUBSET Word]
             /\ HashIsOfEditor'
             /\ ReplyShowsStep
  <2>1. Head(flight).doc = doc
    BY <1>5, <1>6 DEF ReplyFull
  <2>2. PICK a \in TokenArrays, numbered \in BOOLEAN :
          LET id == IF numbered THEN Len(results) + 1 ELSE 0
          IN /\ cache' = [cache EXCEPT ![doc] = FullResult(doc, a, id)]
             /\ HighlightKeywords(doc, FullResult(doc, a, id))
    BY <1>6, <2>1 DEF ReplyFull
  <2> QED
    BY <1>2, <2>2 DEF FullResult
<1>7. ASSUME ReplyDelta
      PROVE  /\ keywords' \in [Doc -> SUBSET Word]
             /\ HashIsOfEditor'
             /\ ReplyShowsStep
  <2> DEFINE r == Head(flight)
  <2>1. r.doc = doc /\ r \in Request /\ r.prev \in 0..Len(results) /\ MayDelta(r)
    BY <1>5, <1>7 DEF ReplyDelta
  <2>2. PICK a \in TokenArrays :
          LET cached == DeltaResult(doc, Diff(results[r.prev].tokens, a), Len(results) + 1)
          IN IF cache[doc].known
             THEN /\ cache' = [cache EXCEPT ![doc] = cached]
                  /\ HighlightKeywords(doc, cached)
             ELSE UNCHANGED <<cache, keywords, keywordHash>>
    BY <1>7, <2>1 DEF ReplyDelta
  <2> HIDE DEF r
  <2>3. CASE cache[doc].known
    <3>1. DeltaResult(doc, Diff(results[r.prev].tokens, a), Len(results) + 1)
            = [known |-> TRUE, tokens |-> a, id |-> Len(results) + 1]
      BY <2>1, <2>3, DeltaIsArray
    <3> QED
      BY <1>2, <2>2, <2>3, <3>1
  <2>4. CASE ~cache[doc].known
    BY <1>3, <2>2, <2>4
  <2> QED
    BY <2>3, <2>4
<1>8. ASSUME ReplyNothing \/ ReplyError \/ ServerLost \/ ServerInitialized \/ FreeOldServer
      PROVE  /\ keywords' \in [Doc -> SUBSET Word]
             /\ HashIsOfEditor'
             /\ ReplyShowsStep
  <2>1. keywords' = keywords /\ keywordHash' = keywordHash
    BY <1>8 DEF ReplyNothing, ReplyError, ServerLost, ServerInitialized, FreeOldServer
  <2>2. cache'[doc] = cache[doc] \/ cache'[doc] = NoCache
    BY <1>1, <1>8 DEF ReplyNothing, ReplyError, ServerLost, ServerInitialized, FreeOldServer
  <2> QED
    BY <1>3, <2>1, <2>2
<1> QED
  BY <1>4, <1>6, <1>7, <1>8 DEF SemtokensNext

(* A reply that changes the tokens of the one open document of a server      *)
(* shows in its editor: keyword_hash never takes new keywords for shown.     *)
THEOREM ReplyShows ==
  ~KeepsAll /\ (\E d : Doc = {d}) /\ SemtokensSpec => ReplyIsShown
<1>1. SemtokensInit => ReplyIInv
  BY InitSemtokens DEF ReplyIInv, SemtokensInit, HashIsOfEditor
<1>2. ASSUME ~KeepsAll, \E d : Doc = {d}, ReplyIInv, [SemtokensNext]_semtokensVars
      PROVE  ReplyIInv' /\ [ReplyShowsStep]_semtokensVars
  <2>1. SemtokensIInv'
    BY <1>2, NextSemtokens DEF ReplyIInv
  <2>2. CASE UNCHANGED semtokensVars
    BY <1>2, <2>1, <2>2 DEF semtokensVars, ReplyIInv, HashIsOfEditor
  <2>3. CASE SemtokensNext
    <3>1. PICK d : Doc = {d}
      BY <1>2
    <3> QED
      BY <1>2, <2>1, <2>3, <3>1, NextShown DEF ReplyIInv
  <2> QED
    BY <1>2, <2>2, <2>3
<1>3. ASSUME ~KeepsAll, \E d : Doc = {d}
      PROVE  SemtokensSpec => ReplyIsShown
  <2>1. ReplyIInv /\ [SemtokensNext]_semtokensVars
          => ReplyIInv' /\ [ReplyShowsStep]_semtokensVars
    BY <1>2, <1>3
  <2>2. SemtokensSpec => [][ReplyShowsStep]_semtokensVars
    BY <1>1, <2>1, PTL DEF SemtokensSpec
  <2> QED
    BY <2>2 DEF ReplyIsShown, ReplyShowsStep
<1> QED
  BY <1>3

--------------------------------------------------------------------------------
(* LspPopups                                                                 *)


Symbols == [id : Nat, at : Nat]

CompletionCall == [what : {"completion"}, doc : Tab, at : Nat, id : Nat]

Autoc == [sent : Nat, received : Nat, discard : Nat,
          displayed : Symbols \cup {Nothing}, list : Symbols \cup {Nothing}]

PopupTypeOK ==
  /\ cur \in Tab
  /\ now \in [Tab -> Nat]
  /\ ac \in Autoc
  /\ closed \in Nat
  /\ \A c \in awaiting : c.what = "completion" => c \in CompletionCall

(* Requests are numbered in the order they are sent.                         *)
RequestsNumbered ==
  /\ ac.received <= ac.sent /\ ac.discard <= ac.sent
  /\ \A c \in awaiting : c.what = "completion" => c.id <= ac.sent

(* An answer to a request sent before a list was closed is not shown.        *)
ClosedIsPast == closed <= ac.received \/ closed <= ac.discard

LatestIInv == PopupTypeOK /\ RequestsNumbered /\ ClosedIsPast /\ ListIsLatest

(* What is shown, or would be if it was answered now, is of the text and     *)
(* caret there are, if no request was sent after it.                         *)
ListUpToDate ==
  ac.list # Nothing /\ ac.sent = ac.received => ac.list.at = now[cur]

AwaitedUpToDate ==
  \A c \in awaiting :
    c.what = "completion" /\ c.id = ac.sent /\ c.id > ac.received /\ c.id > ac.discard
      => c.at = now[c.doc]

EditsIInv == LatestIInv /\ ListUpToDate /\ AwaitedUpToDate /\ EditsUpToDate

-------------------------------------------------------------------------------
(* SCI_AUTOCCANCEL and the loss of the list change nothing but what is       *)
(* displayed and which requests are discarded.                               *)
LEMMA CancelEffect ==
  ASSUME NEW a \in Autoc, NEW b \in SciAutocCancel(a)
  PROVE  /\ b \in Autoc
         /\ b.list = Nothing
         /\ b.sent = a.sent /\ b.received = a.received
         /\ b.discard \in {a.discard, a.sent}
BY DEF Autoc, SciAutocCancel, ListClosed, AutocCancelled

LEMMA CloseEffect ==
  ASSUME NEW a \in Autoc
  PROVE  /\ ListClosed(a) \in Autoc
         /\ ListClosed(a).list = Nothing
         /\ ListClosed(a).sent = a.sent /\ ListClosed(a).received = a.received
         /\ ListClosed(a).discard = IF a.list = Nothing THEN a.discard ELSE a.sent
BY DEF Autoc, ListClosed, AutocCancelled

(* A completion is a request with the next number, or none and no list.      *)
LEMMA CompletionEffect ==
  ASSUME NEW a \in Autoc, NEW at, NEW c \in Completion(a, at)
  PROVE  \/ c.new = {} /\ c.ac \in SciAutocCancel(a)
         \/ /\ c.new = {[what |-> "completion", doc |-> cur, at |-> at, id |-> a.sent + 1]}
            /\ c.ac = [a EXCEPT !.sent = a.sent + 1]
BY DEF Completion

LEMMA SignatureEffect ==
  ASSUME NEW t, NEW force, NEW s \in Signature(t, force), NEW c \in s.new
  PROVE  c.what = "signature"
BY DEF Signature

-------------------------------------------------------------------------------
(* With the list closed and no answer taken the list is no matter: it is     *)
(* enough that what was discarded stays so.                                  *)
LEMMA ListGone ==
  ASSUME LatestIInv, NEW a \in Autoc, ac' = a,
         a.list = Nothing, a.sent = ac.sent, a.received = ac.received,
         a.discard \in {ac.discard, ac.sent},
         UNCHANGED closed \/ (closed' = ac.sent /\ (a.discard = ac.sent \/ ac.received = ac.sent)),
         cur' \in Tab, now' \in [Tab -> Nat],
         \A c \in awaiting' : c.what = "completion" => c \in awaiting
  PROVE  LatestIInv'
<1> USE DEF LatestIInv
<1>1. ac.sent \in Nat /\ ac.received \in Nat /\ ac.discard \in Nat /\ closed \in Nat
  BY DEF PopupTypeOK, Autoc
<1>2. PopupTypeOK'
  BY <1>1 DEF PopupTypeOK
<1>3. RequestsNumbered'
  BY <1>1 DEF RequestsNumbered
<1>4. ClosedIsPast'
  BY <1>1 DEF ClosedIsPast, RequestsNumbered
<1>5. ListIsLatest'
  BY DEF ListIsLatest
<1> QED
  BY <1>2, <1>3, <1>4, <1>5

LEMMA ListKept ==
  ASSUME LatestIInv, UNCHANGED <<ac, closed>>,
         cur' \in Tab, now' \in [Tab -> Nat],
         \A c \in awaiting' : c.what = "completion" => c \in awaiting
  PROVE  LatestIInv'
BY DEF LatestIInv, PopupTypeOK, RequestsNumbered, ClosedIsPast, ListIsLatest

(* A completion is requested, or there is nothing to complete here.          *)
LEMMA CompletionLatest ==
  ASSUME LatestIInv, NEW at \in Nat, NEW c \in Completion(ac, at), ac' = c.ac,
         UNCHANGED <<closed, cur>>, now' \in [Tab -> Nat],
         \A d \in awaiting' : d.what = "completion" => d \in awaiting \cup c.new
  PROVE  LatestIInv'
<1>1. ac \in Autoc /\ cur \in Tab
  BY DEF LatestIInv, PopupTypeOK
<1>2. CASE c.new = {} /\ c.ac \in SciAutocCancel(ac)
  BY <1>1, <1>2, CancelEffect, ListGone
<1>3. CASE /\ c.new = {[what |-> "completion", doc |-> cur, at |-> at, id |-> ac.sent + 1]}
           /\ c.ac = [ac EXCEPT !.sent = ac.sent + 1]
  <2>1. PopupTypeOK'
    BY <1>1, <1>3 DEF LatestIInv, PopupTypeOK, Autoc, CompletionCall
  <2>2. RequestsNumbered'
    <3>1. /\ ac'.sent = ac.sent + 1 /\ ac'.received = ac.received
          /\ ac'.discard = ac.discard
      BY <1>1, <1>3 DEF Autoc
    <3>2. \A d \in awaiting : d.what = "completion" => d.id \in Nat
      BY DEF LatestIInv, PopupTypeOK, CompletionCall
    <3> QED
      BY <1>1, <1>3, <3>1, <3>2 DEF LatestIInv, RequestsNumbered, Autoc
  <2>3. ClosedIsPast' /\ ListIsLatest'
    BY <1>1, <1>3 DEF LatestIInv, ClosedIsPast, ListIsLatest, Autoc
  <2> QED
    BY <2>1, <2>2, <2>3 DEF LatestIInv
<1> QED
  BY <1>1, <1>2, <1>3, CompletionEffect

(* The answer to a completion: shown only if it was sent after what was      *)
(* answered and after what was discarded.                                    *)
LEMMA AnswerLatest ==
  ASSUME LatestIInv, NEW c \in awaiting, AutocompleteCb(c)
  PROVE  LatestIInv'
<1>1. ac \in Autoc /\ c \in CompletionCall /\ c.id <= ac.sent
  BY DEF LatestIInv, PopupTypeOK, RequestsNumbered, AutocompleteCb
<1>2. /\ UNCHANGED <<cur, now, closed>> /\ awaiting' \subseteq awaiting
  BY DEF AutocompleteCb, Replied
<1>3. CASE ~AutocompleteFits(c)
  BY <1>2, <1>3, ListKept DEF AutocompleteCb, LatestIInv, PopupTypeOK
<1>4. CASE AutocompleteFits(c)
  <2> DEFINE a == [ac EXCEPT !.received = c.id]
  <2>1. /\ a \in Autoc /\ a.sent = ac.sent /\ a.received = c.id
        /\ a.discard = ac.discard /\ c.id > ac.received /\ c.id > ac.discard
    BY <1>1, <1>4 DEF Autoc, CompletionCall, AutocompleteFits
  <2>2. ac' = ShowTagsList(a, [id |-> c.id, at |-> c.at]) \/ ac' \in SciAutocCancel(a)
    BY <1>4 DEF AutocompleteCb
  <2>3. /\ ac' \in Autoc /\ ac'.sent = ac.sent /\ ac'.received = c.id
        /\ ac'.discard \in {ac.discard, ac.sent}
        /\ ac'.list # Nothing => /\ ac'.list = ac'.displayed /\ ac'.list.id = c.id
                             /\ ac'.discard = ac.discard
    <3> HIDE DEF a
    <3>1. CASE ac' = ShowTagsList(a, [id |-> c.id, at |-> c.at])
      BY <1>1, <2>1, <3>1 DEF ShowTagsList, Autoc, Symbols, CompletionCall
    <3>2. CASE ac' \in SciAutocCancel(a)
      BY <2>1, <3>2, CancelEffect
    <3> QED
      BY <2>2, <3>1, <3>2
  <2> HIDE DEF a
  <2>4. /\ ac.sent \in Nat /\ ac.received \in Nat /\ ac.discard \in Nat
        /\ c.id \in Nat /\ closed \in Nat
    BY <1>1 DEF Autoc, CompletionCall, LatestIInv, PopupTypeOK
  <2>5. PopupTypeOK'
    BY <1>2, <2>3 DEF LatestIInv, PopupTypeOK
  <2>6. RequestsNumbered'
    BY <1>1, <1>2, <2>3, <2>4 DEF LatestIInv, RequestsNumbered
  <2>7. closed < c.id
    BY <2>1, <2>4 DEF LatestIInv, ClosedIsPast
  <2>8. ClosedIsPast' /\ ListIsLatest'
    BY <1>2, <2>3, <2>4, <2>7 DEF ClosedIsPast, ListIsLatest
  <2> QED
    BY <2>5, <2>6, <2>8 DEF LatestIInv
<1> QED
  BY <1>3, <1>4

LEMMA InitLatest == PopupInit => LatestIInv
BY DEF PopupInit, LatestIInv, PopupTypeOK, Autoc, RequestsNumbered, ClosedIsPast, ListIsLatest

LEMMA NextLatest ==
  ASSUME LatestIInv, PopupNext
  PROVE  LatestIInv'
<1>1. ac \in Autoc /\ cur \in Tab /\ now \in [Tab -> Nat]
  BY DEF LatestIInv, PopupTypeOK
<1>2. Changed(cur) => now' \in [Tab -> Nat]
  BY <1>1 DEF Changed
<1>3. CASE CharAdded
  <2>1. PICK s \in Signature(HideTips(tips), FALSE), c \in Completion(ac, now[cur] + 1) :
          ac' = c.ac /\ awaiting' = awaiting \cup (s.new \cup c.new)
    BY <1>3 DEF CharAdded, InFlight
  <2>2. \A d \in awaiting' : d.what = "completion" => d \in awaiting \cup c.new
    BY <2>1, SignatureEffect
  <2>3. now[cur] + 1 \in Nat /\ now' \in [Tab -> Nat] /\ UNCHANGED <<closed, cur>>
    BY <1>1, <1>2, <1>3 DEF CharAdded
  <2> QED
    BY <2>1, <2>2, <2>3, CompletionLatest
<1>4. CASE CompletionForced
  BY <1>1, <1>4, CompletionLatest DEF CompletionForced, InFlight
<1>5. CASE SignatureForced
  <2>1. \A d \in awaiting' : d.what = "completion" => d \in awaiting
    BY <1>5, SignatureEffect DEF SignatureForced, InFlight
  <2> QED
    BY <1>1, <1>5, <2>1, ListKept DEF SignatureForced
<1>6. CASE UpdateUi
  BY <1>1, <1>2, <1>6, CancelEffect, ListGone DEF UpdateUi
<1>7. CASE ItemSelected
  <2> DEFINE a == IF ac.sent # ac.received THEN [ac EXCEPT !.discard = ac.sent] ELSE ac
  <2>1. PICK b \in SciAutocCancel(a) : ac' = [b EXCEPT !.displayed = Nothing]
    BY <1>7 DEF ItemSelected
  <2>2. /\ a \in Autoc /\ a.sent = ac.sent /\ a.received = ac.received
        /\ a.discard = ac.sent \/ (ac.received = ac.sent /\ a.discard = ac.discard)
    BY <1>1 DEF Autoc
  <2> HIDE DEF a
  <2>3. /\ b \in Autoc /\ b.list = Nothing /\ b.sent = ac.sent /\ b.received = ac.received
        /\ b.discard = ac.sent \/ (ac.received = ac.sent /\ b.discard \in {ac.discard, ac.sent})
    BY <2>1, <2>2, CancelEffect
  <2>4. /\ ac' \in Autoc /\ ac'.list = Nothing /\ ac'.sent = ac.sent /\ ac'.received = ac.received
        /\ ac'.discard \in {ac.discard, ac.sent}
        /\ ac'.discard = ac.sent \/ ac.received = ac.sent
    BY <2>1, <2>3 DEF Autoc
  <2>5. closed' = ac.sent /\ UNCHANGED <<cur, awaiting>> /\ now' \in [Tab -> Nat]
    BY <1>2, <1>7 DEF ItemSelected
  <2> QED
    BY <1>1, <2>4, <2>5, ListGone
<1>8. ASSUME CancelModes, cur' \in Tab
      PROVE  LatestIInv'
  BY <1>1, <1>8, CloseEffect, ListGone DEF CancelModes
<1>9. CASE Escape \/ FocusOut \/ \E d \in Tab : SwitchTab(d)
  BY <1>1, <1>8, <1>9 DEF Escape, FocusOut, SwitchTab
<1>10. CASE FocusIn \/ DwellEnd
  BY <1>1, <1>10, ListKept DEF FocusIn, DwellEnd
<1>11. ASSUME ac' \in {[ac EXCEPT !.list = Nothing], ac}, UNCHANGED <<closed, cur, now>>,
              \A d \in awaiting' : d.what = "completion" => d \in awaiting
       PROVE  LatestIInv'
  <2>1. CASE ac' = [ac EXCEPT !.list = Nothing]
    <3>1. /\ ac' \in Autoc /\ ac'.list = Nothing /\ ac'.sent = ac.sent
          /\ ac'.received = ac.received /\ ac'.discard = ac.discard
      BY <1>1, <2>1 DEF Autoc
    <3> QED
      BY <1>1, <1>11, <3>1, ListGone
  <2> QED
    BY <1>1, <1>11, <2>1, ListKept
<1>12. CASE DwellStart
  <2>1. \A d \in awaiting' : d.what = "completion" => d \in awaiting
    BY <1>12 DEF DwellStart, InFlight
  <2> QED
    BY <1>11, <1>12, <2>1 DEF DwellStart
<1>13. ASSUME NEW c \in awaiting, SignatureCb(c) \/ HoverCb(c) \/ Failed(c)
       PROVE  LatestIInv'
  <2>1. awaiting' \subseteq awaiting /\ UNCHANGED <<closed, cur, now>>
    BY <1>13 DEF SignatureCb, HoverCb, Failed, Replied
  <2>2. ac' \in {[ac EXCEPT !.list = Nothing], ac}
    BY <1>13 DEF SignatureCb, HoverCb, Failed
  <2> QED
    BY <1>11, <2>1, <2>2
<1> QED
  BY <1>3, <1>4, <1>5, <1>6, <1>7, <1>9, <1>10, <1>12, <1>13, AnswerLatest DEF PopupNext

(* The list on the screen is the plugin's, is of the request answered last   *)
(* and was requested after the user last closed a list.                      *)
THEOREM ListLatest == PopupSpec => []ListIsLatest
<1>1. LatestIInv /\ [PopupNext]_popupVars => LatestIInv'
  <2> SUFFICES ASSUME LatestIInv, [PopupNext]_popupVars PROVE LatestIInv'
    OBVIOUS
  <2>1. CASE UNCHANGED popupVars
    BY <2>1, ListKept DEF popupVars, LatestIInv, PopupTypeOK
  <2> QED
    BY <2>1, NextLatest
<1>2. LatestIInv => ListIsLatest
  BY DEF LatestIInv
<1> QED
  BY InitLatest, <1>1, <1>2, PTL DEF PopupSpec

-------------------------------------------------------------------------------
(* What a closed list leaves: requests that are not awaited, and text that   *)
(* may change if none is.                                                    *)
LEMMA GoneUpToDate ==
  ASSUME EditsIInv, LatestIInv', ac'.list = Nothing,
         ac'.sent = ac.sent, ac'.received >= ac.received,
         ac'.discard \in {ac.discard, ac.sent},
         UNCHANGED now \/ ~Awaited(ac') \/ ac.sent \in {ac'.received, ac'.discard},
         \A c \in awaiting' : c.what = "completion" => c \in awaiting
  PROVE  ListUpToDate' /\ AwaitedUpToDate'
<1>1. ListUpToDate'
  BY DEF ListUpToDate
<1>2. SUFFICES ASSUME NEW c \in awaiting', c.what = "completion", c.id = ac'.sent,
                      c.id > ac'.received, c.id > ac'.discard
               PROVE  c.at = now'[c.doc]
  BY <1>1 DEF AwaitedUpToDate
<1>3. c \in awaiting /\ c \in CompletionCall
  BY <1>2 DEF EditsIInv, LatestIInv, PopupTypeOK
<1>4. /\ ac.sent \in Nat /\ ac.received \in Nat /\ ac.discard \in Nat
      /\ ac'.received \in Nat /\ ac'.discard \in Nat /\ c.id \in Nat
  BY <1>3 DEF EditsIInv, LatestIInv, PopupTypeOK, Autoc, CompletionCall
<1>5. ac.discard <= ac.sent
  BY DEF EditsIInv, LatestIInv, RequestsNumbered
<1>6. c.id > ac.received /\ c.id > ac.discard
  BY <1>2, <1>4, <1>5
<1>7. c.at = now[c.doc]
  BY <1>2, <1>3, <1>6 DEF EditsIInv, AwaitedUpToDate
<1>8. UNCHANGED now
  BY <1>2, <1>3, <1>4, <1>5 DEF Awaited
<1> QED
  BY <1>7, <1>8

(* Nothing about the list changes.                                           *)
LEMMA SameUpToDate ==
  ASSUME EditsIInv, UNCHANGED <<ac, cur, now>>,
         \A c \in awaiting' : c.what = "completion" => c \in awaiting
  PROVE  ListUpToDate' /\ AwaitedUpToDate'
BY DEF EditsIInv, ListUpToDate, AwaitedUpToDate

(* A completion requested is for the text there is then; the others are not  *)
(* the last any more.                                                        *)
LEMMA CompletionUpToDate ==
  ASSUME EditsIInv, LatestIInv', UNCHANGED cur,
         NEW c \in Completion(ac, now'[cur]), ac' = c.ac,
         UNCHANGED now \/ c.new # {} \/ ~Awaited(c.ac),
         \A d \in awaiting' : d.what = "completion" => d \in awaiting \cup c.new
  PROVE  ListUpToDate' /\ AwaitedUpToDate'
<1>1. ac \in Autoc /\ cur \in Tab /\ now' \in [Tab -> Nat]
  BY DEF EditsIInv, LatestIInv, PopupTypeOK
<1>2. CASE c.new = {} /\ c.ac \in SciAutocCancel(ac)
  <2>1. /\ ac'.list = Nothing /\ ac'.sent = ac.sent /\ ac'.received = ac.received
        /\ ac'.discard \in {ac.discard, ac.sent}
    BY <1>1, <1>2, CancelEffect
  <2>2. ac'.received >= ac.received
    BY <1>1, <2>1 DEF Autoc
  <2> QED
    BY <1>2, <2>1, <2>2, GoneUpToDate
<1>3. CASE /\ c.new = {[what |-> "completion", doc |-> cur, at |-> now'[cur], id |-> ac.sent + 1]}
           /\ c.ac = [ac EXCEPT !.sent = ac.sent + 1]
  <2>1. /\ ac'.sent = ac.sent + 1 /\ ac'.received = ac.received
        /\ ac.sent \in Nat /\ ac.received \in Nat /\ ac.received <= ac.sent
    BY <1>1, <1>3 DEF Autoc, EditsIInv, LatestIInv, RequestsNumbered
  <2>2. ListUpToDate'
    BY <2>1 DEF ListUpToDate
  <2>3. ASSUME NEW d \in awaiting', d.what = "completion", d.id = ac'.sent
        PROVE  d.at = now'[d.doc]
    <3>1. d \in awaiting => d.id \in Nat /\ d.id <= ac.sent
      BY <2>3 DEF EditsIInv, LatestIInv, RequestsNumbered, PopupTypeOK, CompletionCall
    <3>2. d \in c.new
      BY <2>1, <2>3, <3>1
    <3> QED
      BY <1>3, <3>2
  <2> QED
    BY <2>2, <2>3 DEF AwaitedUpToDate
<1> QED
  BY <1>1, <1>2, <1>3, CompletionEffect

LEMMA AnswerUpToDate ==
  ASSUME EditsIInv, LatestIInv', NEW c \in awaiting, AutocompleteCb(c)
  PROVE  ListUpToDate' /\ AwaitedUpToDate'
<1>1. ac \in Autoc /\ c \in CompletionCall
  BY DEF EditsIInv, LatestIInv, PopupTypeOK, AutocompleteCb
<1>2. /\ UNCHANGED <<cur, now>> /\ awaiting' \subseteq awaiting
  BY DEF AutocompleteCb, Replied
<1>3. CASE ~AutocompleteFits(c)
  BY <1>2, <1>3, SameUpToDate DEF AutocompleteCb
<1>4. CASE AutocompleteFits(c)
  <2> DEFINE a == [ac EXCEPT !.received = c.id]
  <2>1. /\ a \in Autoc /\ a.sent = ac.sent /\ a.received = c.id
        /\ a.discard = ac.discard /\ c.id > ac.received /\ c.id > ac.discard /\ c.doc = cur
    BY <1>1, <1>4 DEF Autoc, CompletionCall, AutocompleteFits
  <2>2. ac' = ShowTagsList(a, [id |-> c.id, at |-> c.at]) \/ ac' \in SciAutocCancel(a)
    BY <1>4 DEF AutocompleteCb
  <2> HIDE DEF a
  <2>3. CASE ac' = ShowTagsList(a, [id |-> c.id, at |-> c.at])
    <3>1. /\ ac'.sent = ac.sent /\ ac'.received = c.id /\ ac'.discard = ac.discard
          /\ ac'.list.at = c.at
      BY <1>1, <2>1, <2>3 DEF ShowTagsList, Autoc, CompletionCall
    <3>2. c.id = ac.sent => c.at = now[cur]
      BY <2>1 DEF EditsIInv, AwaitedUpToDate, AutocompleteCb
    <3>3. ListUpToDate'
      BY <1>2, <3>1, <3>2 DEF ListUpToDate
    <3>4. ac.received \in Nat /\ c.id \in Nat /\ \A d \in awaiting : d.what = "completion" => d.id \in Nat
      BY <1>1 DEF Autoc, CompletionCall, EditsIInv, LatestIInv, PopupTypeOK
    <3>5. AwaitedUpToDate'
      BY <1>2, <2>1, <3>1, <3>4 DEF EditsIInv, AwaitedUpToDate
    <3> QED
      BY <3>3, <3>5
  <2>4. CASE ac' \in SciAutocCancel(a)
    <3>1. /\ ac'.list = Nothing /\ ac'.sent = ac.sent /\ ac'.received = c.id
          /\ ac'.discard \in {ac.discard, ac.sent}
      BY <2>1, <2>4, CancelEffect
    <3>2. ac'.received >= ac.received
      BY <1>1, <2>1, <3>1 DEF Autoc, CompletionCall
    <3> QED
      BY <1>2, <3>1, <3>2, GoneUpToDate
  <2> QED
    BY <2>2, <2>3, <2>4
<1> QED
  BY <1>3, <1>4

(* An item picked closes the list.  Its edit is used only if no request was  *)
(* sent after the list was shown.                                            *)
LEMMA ItemUpToDate ==
  ASSUME EditsIInv, LatestIInv', ItemSelected
  PROVE  ListUpToDate' /\ AwaitedUpToDate' /\ EditsUpToDate'
<1> DEFINE a == IF ac.sent # ac.received THEN [ac EXCEPT !.discard = ac.sent] ELSE ac
<1>1. ac \in Autoc
  BY DEF EditsIInv, LatestIInv, PopupTypeOK
<1>2. PICK b \in SciAutocCancel(a) : ac' = [b EXCEPT !.displayed = Nothing]
  BY DEF ItemSelected
<1>3. /\ a \in Autoc /\ a.sent = ac.sent /\ a.received = ac.received
      /\ a.discard = ac.sent \/ (ac.received = ac.sent /\ a.discard = ac.discard)
  BY <1>1 DEF Autoc
<1>4. \E single \in BOOLEAN :
        edit' = IF ExactEdit(ac, single) THEN [made |-> ac.displayed.at, on |-> now[cur]] ELSE edit
  BY DEF ItemSelected
<1> HIDE DEF a
<1>5. /\ ac'.list = Nothing /\ ac'.sent = ac.sent /\ ac'.received = ac.received
      /\ ac'.discard \in {ac.discard, ac.sent}
      /\ ac.sent \in {ac'.received, ac'.discard}
  <2>1. /\ b \in Autoc /\ b.list = Nothing /\ b.sent = ac.sent /\ b.received = ac.received
        /\ b.discard \in {a.discard, ac.sent}
    BY <1>2, <1>3, CancelEffect
  <2> QED
    BY <1>2, <1>3, <2>1 DEF Autoc
<1>6. ac'.received >= ac.received
  BY <1>1, <1>5 DEF Autoc
<1>7. UNCHANGED awaiting /\ ac.list # Nothing
  BY DEF ItemSelected
<1>8. ListUpToDate' /\ AwaitedUpToDate'
  BY <1>5, <1>6, <1>7, GoneUpToDate
<1>9. EditsUpToDate'
  <2>1. ac.sent = ac.received => ac.displayed.at = now[cur]
    BY <1>7 DEF EditsIInv, LatestIInv, ListIsLatest, ListUpToDate
  <2>2. CASE edit' = edit
    BY <2>2 DEF EditsIInv, EditsUpToDate
  <2>3. CASE edit' = [made |-> ac.displayed.at, on |-> now[cur]] /\ ac.sent = ac.received
    BY <2>1, <2>3 DEF EditsUpToDate
  <2> QED
    BY <1>3, <1>4, <2>2, <2>3 DEF ExactEdit
<1> QED
  BY <1>8, <1>9

LEMMA NextUpToDate ==
  ASSUME ~Hasty, EditsIInv, PopupNext
  PROVE  EditsIInv'
<1>1. LatestIInv'
  BY NextLatest DEF EditsIInv
<1>2. ac \in Autoc /\ cur \in Tab /\ now \in [Tab -> Nat] /\ ac.received >= ac.received
  BY DEF EditsIInv, LatestIInv, PopupTypeOK, Autoc
<1>3. SUFFICES ListUpToDate' /\ AwaitedUpToDate' /\ EditsUpToDate'
  BY <1>1 DEF EditsIInv
<1>4. ASSUME UNCHANGED edit
      PROVE  EditsUpToDate'
  BY <1>4 DEF EditsIInv, EditsUpToDate
<1>5. CASE CharAdded
  <2>1. PICK s \in Signature(HideTips(tips), FALSE), c \in Completion(ac, now[cur] + 1) :
          /\ c.new # {} \/ ~Awaited(c.ac)
          /\ ac' = c.ac /\ awaiting' = awaiting \cup (s.new \cup c.new)
    BY <1>5 DEF CharAdded, InFlight
  <2>2. \A d \in awaiting' : d.what = "completion" => d \in awaiting \cup c.new
    BY <2>1, SignatureEffect
  <2>3. now[cur] + 1 = now'[cur] /\ UNCHANGED <<cur, edit>>
    BY <1>2, <1>5 DEF CharAdded, Changed
  <2> QED
    BY <1>1, <1>4, <2>1, <2>2, <2>3, CompletionUpToDate
<1>6. CASE CompletionForced
  <2>1. PICK c \in Completion(ac, now'[cur]) : ac' = c.ac /\ awaiting' = awaiting \cup c.new
    BY <1>6 DEF CompletionForced, InFlight
  <2>2. UNCHANGED <<cur, now, edit>>
    BY <1>6 DEF CompletionForced
  <2> QED
    BY <1>1, <1>4, <2>1, <2>2, CompletionUpToDate
<1>7. CASE SignatureForced
  <2>1. \A d \in awaiting' : d.what = "completion" => d \in awaiting
    BY <1>7, SignatureEffect DEF SignatureForced, InFlight
  <2> QED
    BY <1>4, <1>7, <2>1, SameUpToDate DEF SignatureForced
<1>8. CASE UpdateUi
  <2>1. /\ ac'.list = Nothing /\ ac'.sent = ac.sent /\ ac'.received = ac.received
        /\ ac'.discard \in {ac.discard, ac.sent}
    BY <1>2, <1>8, CancelEffect DEF UpdateUi
  <2>2. (UNCHANGED now \/ ~Awaited(ac')) /\ UNCHANGED <<awaiting, edit>>
    BY <1>8 DEF UpdateUi
  <2> QED
    BY <1>1, <1>2, <1>4, <2>1, <2>2, GoneUpToDate
<1>9. ASSUME CancelModes
      PROVE  ListUpToDate' /\ AwaitedUpToDate' /\ EditsUpToDate'
  <2>1. /\ ac'.list = Nothing /\ ac'.sent = ac.sent /\ ac'.received = ac.received
        /\ ac'.discard \in {ac.discard, ac.sent}
    BY <1>2, <1>9, CloseEffect DEF CancelModes
  <2>2. UNCHANGED <<now, awaiting, edit>>
    BY <1>9 DEF CancelModes
  <2> QED
    BY <1>1, <1>2, <1>4, <2>1, <2>2, GoneUpToDate
<1>10. CASE Escape \/ FocusOut \/ \E d \in Tab : SwitchTab(d)
  BY <1>9, <1>10 DEF Escape, FocusOut, SwitchTab
<1>11. CASE FocusIn \/ DwellEnd
  BY <1>4, <1>11, SameUpToDate DEF FocusIn, DwellEnd
<1>12. ASSUME ac' \in {[ac EXCEPT !.list = Nothing], ac}, UNCHANGED <<cur, now, edit>>,
              \A d \in awaiting' : d.what = "completion" => d \in awaiting
       PROVE  ListUpToDate' /\ AwaitedUpToDate' /\ EditsUpToDate'
  <2>1. CASE ac' = [ac EXCEPT !.list = Nothing]
    <3>1. /\ ac'.list = Nothing /\ ac'.sent = ac.sent
          /\ ac'.received = ac.received /\ ac'.discard = ac.discard
      BY <1>2, <2>1 DEF Autoc
    <3> QED
      BY <1>1, <1>2, <1>4, <1>12, <3>1, GoneUpToDate
  <2> QED
    BY <1>4, <1>12, <2>1, SameUpToDate
<1>13. CASE DwellStart
  <2>1. \A d \in awaiting' : d.what = "completion" => d \in awaiting
    BY <1>13 DEF DwellStart, InFlight
  <2> QED
    BY <1>12, <1>13, <2>1 DEF DwellStart
<1>14. ASSUME NEW c \in awaiting, SignatureCb(c) \/ HoverCb(c) \/ Failed(c)
       PROVE  ListUpToDate' /\ AwaitedUpToDate' /\ EditsUpToDate'
  <2>1. awaiting' \subseteq awaiting /\ UNCHANGED <<cur, now, edit>>
    BY <1>14 DEF SignatureCb, HoverCb, Failed, Replied
  <2>2. ac' \in {[ac EXCEPT !.list = Nothing], ac}
    BY <1>14 DEF SignatureCb, HoverCb, Failed
  <2> QED
    BY <1>12, <2>1, <2>2
<1>15. ASSUME NEW c \in awaiting, AutocompleteCb(c)
       PROVE  ListUpToDate' /\ AwaitedUpToDate' /\ EditsUpToDate'
  BY <1>1, <1>4, <1>15, AnswerUpToDate DEF AutocompleteCb, Replied
<1> QED
  BY <1>1, <1>5, <1>6, <1>7, <1>8, <1>10, <1>11, <1>13, <1>14, <1>15, ItemUpToDate DEF PopupNext

(* The text edits of a completion are applied to the text and the caret they *)
(* were made for, if neither changes while an answer that would be shown is  *)
(* awaited (~Hasty).                                                         *)
THEOREM EditsFitText == ~Hasty /\ PopupSpec => []EditsUpToDate
<1>1. PopupInit => EditsIInv
  BY InitLatest DEF EditsIInv, PopupInit, ListUpToDate, AwaitedUpToDate, EditsUpToDate
<1>2. ASSUME ~Hasty, EditsIInv, [PopupNext]_popupVars
      PROVE  EditsIInv'
  <2>1. CASE UNCHANGED popupVars
    BY <1>2, <2>1 DEF popupVars, EditsIInv, LatestIInv, PopupTypeOK, RequestsNumbered,
      ClosedIsPast, ListIsLatest, ListUpToDate, AwaitedUpToDate, EditsUpToDate
  <2> QED
    BY <1>2, <2>1, NextUpToDate
<1>3. EditsIInv => EditsUpToDate
  BY DEF EditsIInv
<1>4. ASSUME ~Hasty
      PROVE  PopupSpec => []EditsUpToDate
  BY <1>1, <1>2, <1>3, <1>4, PTL DEF PopupSpec
<1> QED
  BY <1>4

-------------------------------------------------------------------------------
(* LspTokenEdits                                                             *)

(* An edit of an array of length n                                           *)
IsEdit(n, e) ==
  /\ e.start \in Nat /\ e.deleteCount \in Nat /\ e.start + e.deleteCount <= n
  /\ e.data \in Seq(Value) /\ \A k \in 1..Len(e.data) : e.data[k] = <<e.start, k>>

(* e refers to places before those of f.                                     *)
Ahead(e, f) == e.start < f.start /\ e.start + e.deleteCount <= f.start

GivenSound ==
  /\ len \in Nat /\ \A e \in given : IsEdit(len, e)
  /\ edits \in Seq(given)

Applied == given \ Range(edits)

(* The edits still to apply are sorted, and lie before those applied.        *)
EditsSorted ==
  /\ \A u, j \in 1..Len(edits) : u < j => Ahead(edits[j], edits[u])
  /\ \A u \in 1..Len(edits) : \A f \in Applied : Ahead(edits[u], f)

(* What the edits still to apply refer to is where it was.                   *)
StillThere ==
  \A j \in 1..Len(edits) :
    /\ edits[j].start + edits[j].deleteCount <= Len(data)
    /\ \A u \in 1..(edits[j].start + edits[j].deleteCount) : data[u] = <<u, 0>>

AppliedIInv ==
  /\ GivenSound /\ EditsSorted
  /\ data \in Seq(Value) /\ StillThere
  /\ Means(data, len, Applied)

LEMMA RangeIs ==
  ASSUME NEW S, NEW s \in Seq(S)
  PROVE  /\ \A v : v \in Range(s) <=> \E u \in 1..Len(s) : s[u] = v
         /\ Range(s) \subseteq S
<1>1. DOMAIN s = 1..Len(s) /\ s \in [1..Len(s) -> S]
  BY LenProperties
<1> QED
  BY <1>1 DEF Range

(* Where the values are after an edit                                        *)
LEMMA EditedIs ==
  ASSUME NEW array \in Seq(Value), NEW n, NEW e, IsEdit(n, e),
         e.start + e.deleteCount <= Len(array)
  PROVE  LET new == SemTokensEditApply(array, e)
             s == e.start
             d == e.deleteCount
             m == Len(e.data)
         IN  /\ new \in Seq(Value) /\ Len(new) = s + m + (Len(array) - (s + d))
             /\ \A u \in 1..s : new[u] = array[u]
             /\ \A k \in 1..m : new[s + k] = <<s, k>>
             /\ \A j \in (s + d + 1)..Len(array) : new[(j - d) + m] = array[j]
<1> DEFINE new == SemTokensEditApply(array, e)
           s == e.start
           d == e.deleteCount
           m == Len(e.data)
           L == Len(array)
           A == SubSeq(array, 1, s)
           B == e.data
           C == SubSeq(array, s + d + 1, L)
<1>1. s \in Nat /\ d \in Nat /\ m \in Nat /\ L \in Nat /\ s + d <= L
  BY LenProperties DEF IsEdit
<1>2. \A u \in 1..L : array[u] \in Value
  BY ElementOfSeq
<1>3. new = (A \o B) \o C
  BY DEF SemTokensEditApply
<1>4. A \in Seq(Value) /\ Len(A) = s /\ \A u \in 1..s : A[u] = array[u]
  <2> HIDE DEF s, d, L
  <2>1. \A u \in 1..s : array[u] \in Value
    BY <1>1, <1>2
  <2>2. /\ A \in Seq(Value) /\ Len(A) = (IF 1 <= s THEN (s - 1) + 1 ELSE 0)
        /\ \A u \in 1..((s - 1) + 1) : A[u] = array[(1 + u) - 1]
    BY <1>1, <2>1, SubSeqProperties
  <2> HIDE DEF A
  <2> QED
    BY <1>1, <2>2
<1>5. C \in Seq(Value) /\ Len(C) = L - (s + d) /\ \A u \in 1..(L - (s + d)) : C[u] = array[u + (s + d)]
  <2> HIDE DEF s, d, L
  <2>1. \A u \in (s + d + 1)..L : array[u] \in Value
    BY <1>1, <1>2
  <2>2. s + d + 1 \in Int /\ L \in Int
    BY <1>1
  <2>3. /\ C \in Seq(Value)
        /\ Len(C) = (IF s + d + 1 <= L THEN (L - (s + d + 1)) + 1 ELSE 0)
        /\ \A u \in 1..((L - (s + d + 1)) + 1) : C[u] = array[((s + d + 1) + u) - 1]
    BY <2>1, <2>2, SubSeqProperties
  <2> HIDE DEF C
  <2> QED
    BY <1>1, <2>3
<1>6. B \in Seq(Value) /\ Len(B) = m /\ \A k \in 1..m : B[k] = <<s, k>>
  BY DEF IsEdit
<1> HIDE DEF new, s, d, m, L, A, B, C
<1>7. /\ A \o B \in Seq(Value) /\ Len(A \o B) = s + m
      /\ \A u \in 1..(s + m) : (A \o B)[u] = IF u <= s THEN A[u] ELSE B[u - s]
  BY <1>4, <1>6, ConcatProperties
<1> DEFINE AB == A \o B
<1> HIDE DEF AB
<1>8. /\ AB \o C \in Seq(Value) /\ Len(AB \o C) = (s + m) + (L - (s + d))
      /\ \A u \in 1..((s + m) + (L - (s + d))) :
           (AB \o C)[u] = IF u <= s + m THEN AB[u] ELSE C[u - (s + m)]
  BY <1>5, <1>7, ConcatProperties DEF AB
<1>9. /\ new \in Seq(Value) /\ Len(new) = (s + m) + (L - (s + d))
      /\ \A u \in 1..((s + m) + (L - (s + d))) :
           new[u] = IF u <= s + m THEN (IF u <= s THEN A[u] ELSE B[u - s]) ELSE C[u - (s + m)]
  <2>1. \A u \in 1..((s + m) + (L - (s + d))) : u <= s + m => u \in 1..(s + m)
    BY <1>1
  <2> QED
    BY <1>3, <1>7, <1>8, <2>1 DEF AB
<1>10. \A u \in 1..s : new[u] = array[u]
  <2>1. \A u \in 1..s : u \in 1..((s + m) + (L - (s + d))) /\ u <= s + m /\ u <= s
    BY <1>1
  <2> QED
    BY <1>4, <1>9, <2>1
<1>11. \A k \in 1..m : new[s + k] = <<s, k>>
  <2>1. \A k \in 1..m : /\ s + k \in 1..((s + m) + (L - (s + d))) /\ s + k <= s + m
                        /\ ~(s + k <= s) /\ (s + k) - s = k
    BY <1>1
  <2> QED
    BY <1>6, <1>9, <2>1
<1>12. \A j \in (s + d + 1)..L : new[(j - d) + m] = array[j]
  <2>1. ASSUME NEW j \in (s + d + 1)..L
        PROVE  /\ (j - d) + m \in 1..((s + m) + (L - (s + d))) /\ ~((j - d) + m <= s + m)
               /\ ((j - d) + m) - (s + m) = j - (s + d)
               /\ j - (s + d) \in 1..(L - (s + d)) /\ (j - (s + d)) + (s + d) = j
    BY <1>1
  <2>2. ASSUME NEW j \in (s + d + 1)..L
        PROVE  new[(j - d) + m] = array[j]
    <3>1. C[j - (s + d)] = array[j]
      BY <1>5, <2>1
    <3> QED
      BY <1>9, <2>1, <3>1
  <2> QED
    BY <2>2
<1> QED
  BY <1>9, <1>10, <1>11, <1>12 DEF new, s, d, m, L

(* v is a value of an edit of es.                                            *)
IsInserted(v, es) == \E f \in es : \E k \in 1..Len(f.data) : v = <<f.start, k>>

LEMMA InsertedIs ==
  ASSUME NEW n, NEW es, \A f \in es : IsEdit(n, f), NEW v
  PROVE  v \in Inserted(es) <=> IsInserted(v, es)
<1>1. ASSUME NEW e \in es
      PROVE  v \in Range(e.data) <=> \E k \in 1..Len(e.data) : v = <<e.start, k>>
  <2>1. IsEdit(n, e)
    OBVIOUS
  <2>2. v \in Range(e.data) <=> \E k \in 1..Len(e.data) : e.data[k] = v
    BY <2>1, RangeIs DEF IsEdit
  <2> QED
    BY <2>1, <2>2 DEF IsEdit
<1> QED
  BY <1>1 DEF Inserted, IsInserted

(* Tail of the edits: the head joins those applied.                          *)
LEMMA TailIs ==
  ASSUME GivenSound, EditsSorted, edits # <<>>
  PROVE  /\ edits[1] \in given /\ Len(edits) \in Nat /\ 1 \in 1..Len(edits)
         /\ Tail(edits) \in Seq(given) /\ Len(Tail(edits)) = Len(edits) - 1
         /\ \A j \in 1..(Len(edits) - 1) : Tail(edits)[j] = edits[j + 1]
         /\ given \ Range(Tail(edits)) = Applied \cup {edits[1]}
<1>1. edits \in Seq(given) /\ Len(edits) \in Nat /\ Len(edits) # 0
  BY EmptySeq, LenProperties DEF GivenSound
<1> DEFINE rest == Tail(edits)
<1>2. /\ rest \in Seq(given) /\ Len(rest) = Len(edits) - 1
      /\ \A j \in 1..(Len(edits) - 1) : rest[j] = edits[j + 1]
  BY <1>1, HeadTailProperties
<1> HIDE DEF rest
<1>3. 1 \in 1..Len(edits) /\ \A j \in 1..(Len(edits) - 1) : j + 1 \in 1..Len(edits) /\ 1 < j + 1
  BY <1>1
<1>4. edits[1] \in given
  BY <1>1, <1>3, ElementOfSeq
<1>5. \A f \in given : f \in Range(edits) <=> f \in Range(rest) \/ f = edits[1]
  <2>1. \A j \in 1..Len(edits) : j = 1 \/ (j - 1 \in 1..(Len(edits) - 1) /\ (j - 1) + 1 = j)
    BY <1>1
  <2>2. \A f : f \in Range(edits) <=> \E j \in 1..Len(edits) : edits[j] = f
    BY <1>1, RangeIs
  <2>3. \A f : f \in Range(rest) <=> \E j \in 1..(Len(edits) - 1) : rest[j] = f
    BY <1>2, RangeIs
  <2> SUFFICES ASSUME NEW f
               PROVE  f \in Range(edits) <=> f \in Range(rest) \/ f = edits[1]
    OBVIOUS
  <2>4. ASSUME NEW j \in 1..Len(edits), edits[j] = f, j # 1
        PROVE  f \in Range(rest)
    <3>1. rest[j - 1] = f /\ j - 1 \in 1..(Len(edits) - 1)
      BY <1>2, <2>1, <2>4
    <3> QED
      BY <2>3, <3>1
  <2>5. ASSUME NEW j \in 1..(Len(edits) - 1), rest[j] = f
        PROVE  f \in Range(edits)
    BY <1>2, <1>3, <2>2, <2>5
  <2> QED
    BY <1>3, <2>2, <2>3, <2>4, <2>5
<1>6. edits[1] \notin Range(rest)
  <2> SUFFICES ASSUME edits[1] \in Range(rest)
               PROVE  FALSE
    OBVIOUS
  <2>1. PICK j \in 1..(Len(edits) - 1) : edits[j + 1] = edits[1]
    BY <1>2, RangeIs
  <2>2. Ahead(edits[1], edits[1])
    BY <1>3, <2>1 DEF EditsSorted
  <2>3. edits[1].start \in Nat
    BY <1>4 DEF GivenSound, IsEdit
  <2> QED
    BY <2>2, <2>3 DEF Ahead
<1>7. given \ Range(rest) = Applied \cup {edits[1]}
  BY <1>4, <1>5, <1>6 DEF Applied
<1> QED
  BY <1>1, <1>2, <1>3, <1>4, <1>7 DEF rest

(* What follows the range of the next edit                                   *)
LEMMA BehindIs ==
  ASSUME AppliedIInv, edits # <<>>, NEW j \in 1..Len(data), ~(j <= edits[1].start + edits[1].deleteCount)
  PROVE  \/ \E u \in 1..len : /\ u > edits[1].start + edits[1].deleteCount
                              /\ data[j] = <<u, 0>> /\ data[j] \in Kept(len, Applied)
         \/ \E f \in Applied : \E k \in 1..Len(f.data) :
              f.start > edits[1].start /\ data[j] = <<f.start, k>>
<1>1. /\ GivenSound /\ EditsSorted /\ data \in Seq(Value) /\ Means(data, len, Applied)
      /\ edits[1] \in given /\ 1 \in 1..Len(edits)
  BY TailIs DEF AppliedIInv
<1> DEFINE p == edits[1].start + edits[1].deleteCount
<1>2. /\ p \in Nat /\ Len(data) \in Nat /\ p <= Len(data) /\ len \in Nat
      /\ \A u \in 1..p : data[u] = <<u, 0>>
  BY <1>1, LenProperties DEF GivenSound, IsEdit, AppliedIInv, StillThere
<1>3. data[j] \in Kept(len, Applied) \cup Inserted(Applied)
  BY <1>1, RangeIs DEF Means
<1>4. CASE data[j] \in Kept(len, Applied)
  <2>1. PICK u \in 1..len : data[j] = <<u, 0>>
    BY <1>4 DEF Kept
  <2>2. ~(u <= p)
    <3> SUFFICES ASSUME u <= p
                 PROVE  FALSE
      OBVIOUS
    <3> HIDE DEF p
    <3>1. u \in 1..p /\ u \in 1..Len(data) /\ u < j
      BY <1>2 DEF p
    <3>2. data[u] = data[j]
      BY <1>2, <2>1, <3>1
    <3>3. DOMAIN data = 1..Len(data)
      BY <1>1, LenProperties
    <3>4. Precedes(data[u], data[j])
      BY <1>1, <3>1, <3>3 DEF Means, Ordered
    <3> QED
      BY <2>1, <3>2, <3>4 DEF Precedes
  <2> QED
    BY <1>2, <1>4, <2>1, <2>2
<1>5. CASE data[j] \in Inserted(Applied)
  <2>1. \A e \in Applied : IsEdit(len, e)
    BY <1>1 DEF GivenSound, Applied
  <2>2. PICK f \in Applied : \E k \in 1..Len(f.data) : data[j] = <<f.start, k>>
    <3>1. IsInserted(data[j], Applied)
      BY <1>5, <2>1, InsertedIs
    <3> QED
      BY <3>1 DEF IsInserted
  <2>3. edits[1].start < f.start /\ edits[1].start \in Nat /\ f.start \in Nat
    BY <1>1, <2>1 DEF EditsSorted, Ahead, GivenSound, IsEdit
  <2> QED
    BY <2>2, <2>3
<1> QED
  BY <1>3, <1>4, <1>5

LEMMA AppliedStep ==
  ASSUME AppliedIInv, ApplyNext
  PROVE  AppliedIInv'
<1> DEFINE e == edits[1]
           s == e.start
           d == e.deleteCount
           m == Len(e.data)
           L == Len(data)
           new == SemTokensEditApply(data, e)
           done == Applied \cup {e}
<1>1. /\ GivenSound /\ EditsSorted /\ data \in Seq(Value) /\ StillThere
      /\ Means(data, len, Applied) /\ edits # <<>>
  BY DEF AppliedIInv, ApplyNext
<1>2. /\ e \in given /\ Len(edits) \in Nat /\ 1 \in 1..Len(edits)
      /\ Tail(edits) \in Seq(given) /\ Len(Tail(edits)) = Len(edits) - 1
      /\ \A j \in 1..(Len(edits) - 1) : Tail(edits)[j] = edits[j + 1]
      /\ given \ Range(Tail(edits)) = done
  BY <1>1, TailIs
<1>3. IsEdit(len, e) /\ s \in Nat /\ d \in Nat /\ m \in Nat /\ L \in Nat /\ len \in Nat
  BY <1>1, <1>2, LenProperties DEF GivenSound, IsEdit
<1>4. s + d <= L /\ \A u \in 1..(s + d) : data[u] = <<u, 0>>
  BY <1>1, <1>2 DEF StillThere
<1>5. /\ new \in Seq(Value) /\ Len(new) = s + m + (L - (s + d))
      /\ \A u \in 1..s : new[u] = data[u]
      /\ \A k \in 1..m : new[s + k] = <<s, k>>
      /\ \A j \in (s + d + 1)..L : new[(j - d) + m] = data[j]
  <2> HIDE DEF e
  <2>1. data \in Seq(Value) /\ IsEdit(len, e) /\ e.start + e.deleteCount <= Len(data)
    BY <1>1, <1>3, <1>4
  <2> QED
    BY <2>1, EditedIs
<1>6. data' = new /\ edits' = Tail(edits) /\ len' = len /\ given' = given /\ Applied' = done
  <2>1. Head(edits) = e
    BY <1>1 DEF GivenSound
  <2>2. data' = new /\ edits' = Tail(edits) /\ len' = len /\ given' = given
    BY <2>1 DEF ApplyNext
  <2> QED
    BY <1>2, <2>2 DEF Applied
<1>7. \A j \in (s + d + 1)..L :
        \/ \E u \in 1..len : u > s + d /\ data[j] = <<u, 0>> /\ data[j] \in Kept(len, Applied)
        \/ \E f \in Applied : \E k \in 1..Len(f.data) : f.start > s /\ data[j] = <<f.start, k>>
  <2>1. \A j \in (s + d + 1)..L : j \in 1..Len(data) /\ ~(j <= e.start + e.deleteCount)
    BY <1>3
  <2> QED
    BY <1>1, <2>1, BehindIs
<1>8. \A u \in 1..Len(new) :
        \/ u \in 1..s
        \/ \E k \in 1..m : u = s + k
        \/ \E j \in (s + d + 1)..L : u = (j - d) + m
  <2> HIDE DEF s, d, m, L, new
  <2> SUFFICES ASSUME NEW u \in 1..Len(new), ~(u <= s + m)
               PROVE  \E j \in (s + d + 1)..L : u = (j - d) + m
    <3>1. \A u \in 1..Len(new) : u <= s + m => u \in 1..s \/ (u - s \in 1..m /\ u = s + (u - s))
      BY <1>3, <1>5
    <3> QED
      BY <3>1
  <2>1. (u + d) - m \in (s + d + 1)..L /\ u = (((u + d) - m) - d) + m
    BY <1>3, <1>4, <1>5
  <2> QED
    BY <2>1
<1>9. \A f \in done : IsEdit(len, f)
  BY <1>1, <1>2 DEF GivenSound, Applied
<1> HIDE DEF e, s, d, m, L, new, done
<1>10. \A j \in (s + d + 1)..L : (j \in 1..L) /\ ~(j <= s) /\ data[j] \in Range(data)
  <2>1. \A j \in 1..L : data[j] \in Range(data)
    BY <1>1, RangeIs DEF L
  <2> QED
    BY <1>3, <2>1
<1>11. Ordered(new)
  <2>1. DOMAIN new = 1..Len(new) /\ DOMAIN data = 1..L
    BY <1>1, <1>5, LenProperties DEF L
  <2> SUFFICES ASSUME NEW u \in 1..Len(new), NEW j \in 1..Len(new), u < j
               PROVE  Precedes(new[u], new[j])
    BY <2>1 DEF Ordered
  <2>2. \A x, y \in 1..L : x < y => Precedes(data[x], data[y])
    BY <1>1, <2>1 DEF Means, Ordered
  <2>3. u \in Nat /\ j \in Nat
    OBVIOUS
  <2>4. CASE j \in 1..s
    <3>1. u \in 1..s /\ u \in 1..L /\ j \in 1..L
      BY <1>3, <1>4, <2>3, <2>4
    <3> QED
      BY <1>5, <2>2, <2>4, <3>1
  <2>5. ASSUME NEW k \in 1..m, j = s + k
        PROVE  Precedes(new[u], new[j])
    <3>1. new[j] = <<s, k>>
      BY <1>5, <2>5
    <3>2. CASE u \in 1..s
      <4>1. new[u] = <<u, 0>>
        BY <1>3, <1>4, <1>5, <3>2
      <4> QED
        BY <1>3, <3>1, <3>2, <4>1 DEF Precedes
    <3>3. CASE ~(u <= s)
      <4>1. u - s \in 1..m /\ u = s + (u - s) /\ u - s < k
        BY <1>3, <2>3, <2>5, <3>3
      <4>2. new[u] = <<s, u - s>>
        BY <1>5, <4>1
      <4> QED
        BY <3>1, <4>1, <4>2 DEF Precedes
    <3> QED
      BY <1>3, <2>3, <3>2, <3>3
  <2>6. ASSUME NEW y \in (s + d + 1)..L, j = (y - d) + m
        PROVE  Precedes(new[u], new[j])
    <3>1. new[j] = data[y] /\ y \in Nat
      BY <1>3, <1>5, <2>6
    <3>2. CASE u \in 1..s
      <4>1. u \in 1..L /\ y \in 1..L /\ u < y
        BY <1>3, <1>4, <2>6, <3>2
      <4> QED
        BY <1>5, <2>2, <3>1, <3>2, <4>1
    <3>3. ASSUME NEW k \in 1..m, u = s + k
          PROVE  Precedes(new[u], new[j])
      <4>1. new[u] = <<s, k>>
        BY <1>5, <3>3
      <4>2. ASSUME NEW x \in 1..len, x > s + d, data[y] = <<x, 0>>
            PROVE  Precedes(new[u], new[j])
        <5>1. s < x
          BY <1>3, <4>2
        <5> QED
          BY <3>1, <4>1, <4>2, <5>1 DEF Precedes
      <4>3. ASSUME NEW f, NEW l, f.start > s, data[y] = <<f.start, l>>
            PROVE  Precedes(new[u], new[j])
        BY <3>1, <4>1, <4>3 DEF Precedes
      <4> QED
        BY <1>7, <4>2, <4>3
    <3>4. ASSUME NEW x \in (s + d + 1)..L, u = (x - d) + m
          PROVE  Precedes(new[u], new[j])
      <4>1. x < y
        BY <1>3, <2>6, <3>4
      <4> QED
        BY <1>5, <1>10, <2>2, <3>1, <3>4, <4>1
    <3> QED
      BY <1>8, <3>2, <3>3, <3>4
  <2> QED
    BY <1>8, <2>4, <2>5, <2>6
<1>12. Range(new) = Kept(len, done) \cup Inserted(done)
  <2>1. ASSUME NEW v
        PROVE  v \in Range(new) <=> \E u \in 1..Len(new) : new[u] = v
    BY <1>5, RangeIs
  <2>2. ASSUME NEW v
        PROVE  v \in Inserted(done) <=> \E f \in done : \E k \in 1..Len(f.data) : v = <<f.start, k>>
    <3>1. v \in Inserted(done) <=> IsInserted(v, done)
      BY <1>9, InsertedIs
    <3> QED
      BY <3>1 DEF IsInserted
  <2>3. ASSUME NEW v
        PROVE  v \in Inserted(Applied) <=> \E f \in Applied : \E k \in 1..Len(f.data) : v = <<f.start, k>>
    <3>1. \A f \in Applied : IsEdit(len, f)
      BY <1>9 DEF done
    <3>2. v \in Inserted(Applied) <=> IsInserted(v, Applied)
      BY <3>1, InsertedIs
    <3> QED
      BY <3>2 DEF IsInserted
  <2>4. ASSUME NEW u \in Nat
        PROVE  <<u, 0>> \in Kept(len, done) <=> <<u, 0>> \in Kept(len, Applied) /\ u \notin (s + 1)..(s + d)
    BY DEF Kept, done, s, d
  <2>5. ASSUME NEW v \in Kept(len, Applied) \cup Kept(len, done)
        PROVE  \E u \in 1..len : v = <<u, 0>>
    BY DEF Kept
  <2>6. ASSUME NEW f \in done, NEW k \in 1..Len(f.data)
        PROVE  <<f.start, k>> \in Inserted(done) /\ k # 0
    <3>1. Len(f.data) \in Nat
      BY <1>9, LenProperties DEF IsEdit
    <3> QED
      BY <2>2, <3>1
  <2>7. \A v : v \in Range(data) <=> v \in Kept(len, Applied) \/ v \in Inserted(Applied)
    BY <1>1 DEF Means
  <2>8. ASSUME NEW u \in 1..Len(new)
        PROVE  new[u] \in Kept(len, done) \cup Inserted(done)
    <3>1. CASE u \in 1..s
      <4>1. u \in 1..(s + d) /\ u \in 1..L /\ u \notin (s + 1)..(s + d) /\ u \in Nat
        BY <1>3, <1>4, <3>1
      <4>2. new[u] = <<u, 0>> /\ <<u, 0>> \in Range(data)
        <5>1. data[u] \in Range(data)
          BY <1>1, <4>1, RangeIs DEF L
        <5> QED
          BY <1>4, <1>5, <3>1, <4>1, <5>1
      <4>3. <<u, 0>> \notin Inserted(Applied)
        BY <2>3, <2>6 DEF done
      <4> QED
        BY <2>4, <2>7, <4>1, <4>2, <4>3
    <3>2. ASSUME NEW k \in 1..m, u = s + k
          PROVE  new[u] \in Kept(len, done) \cup Inserted(done)
      <4>1. e \in done
        BY DEF done
      <4>2. <<s, k>> \in Inserted(done)
        BY <2>6, <4>1 DEF s, m
      <4> QED
        BY <1>5, <3>2, <4>2
    <3>3. ASSUME NEW j \in (s + d + 1)..L, u = (j - d) + m
          PROVE  new[u] \in Kept(len, done) \cup Inserted(done)
      <4>1. new[u] = data[j]
        BY <1>5, <3>3
      <4>2. ASSUME NEW x \in 1..len, x > s + d, data[j] = <<x, 0>>, data[j] \in Kept(len, Applied)
            PROVE  data[j] \in Kept(len, done)
        <5>1. x \in Nat /\ x \notin (s + 1)..(s + d)
          BY <1>3, <4>2
        <5> QED
          BY <2>4, <4>2, <5>1
      <4>3. ASSUME NEW f \in Applied, NEW k \in 1..Len(f.data), data[j] = <<f.start, k>>
            PROVE  data[j] \in Inserted(done)
        BY <2>6, <4>3 DEF done
      <4> QED
        BY <1>7, <4>1, <4>2, <4>3
    <3> QED
      BY <1>8, <3>1, <3>2, <3>3
  <2>9. ASSUME NEW v \in Kept(len, done) \cup Inserted(done)
        PROVE  v \in Range(new)
    <3>1. ASSUME NEW k \in 1..m, v = <<s, k>>
          PROVE  v \in Range(new)
      <4>1. s + k \in 1..Len(new)
        BY <1>3, <1>4, <1>5
      <4> QED
        BY <1>5, <2>1, <3>1, <4>1
    <3>2. ASSUME NEW j \in 1..L, data[j] = v, ~(\E u \in (s + 1)..(s + d) : v = <<u, 0>>)
          PROVE  v \in Range(new)
      <4>1. CASE j \in 1..s
        <5>1. j \in 1..Len(new)
          BY <1>3, <1>4, <1>5, <4>1
        <5> QED
          BY <1>5, <2>1, <3>2, <4>1, <5>1
      <4>2. CASE j \in (s + 1)..(s + d)
        <5>1. j \in 1..(s + d)
          BY <1>3, <4>2
        <5> QED
          BY <1>4, <3>2, <4>2, <5>1
      <4>3. CASE j \in (s + d + 1)..L
        <5>1. (j - d) + m \in 1..Len(new)
          BY <1>3, <1>4, <1>5, <4>3
        <5> QED
          BY <1>5, <2>1, <3>2, <4>3, <5>1
      <4> QED
        BY <1>3, <4>1, <4>2, <4>3
    <3>3. \A w : w \in Range(data) <=> \E j \in 1..L : data[j] = w
      BY <1>1, RangeIs DEF L
    <3>4. CASE v \in Kept(len, done)
      <4>1. PICK u \in 1..len : v = <<u, 0>>
        BY <2>5, <3>4
      <4>2. u \in Nat /\ v \in Kept(len, Applied) /\ u \notin (s + 1)..(s + d)
        BY <1>3, <2>4, <3>4, <4>1
      <4>3. ~(\E x \in (s + 1)..(s + d) : v = <<x, 0>>)
        BY <4>1, <4>2
      <4> QED
        BY <2>7, <3>2, <3>3, <4>2, <4>3
    <3>5. CASE v \in Inserted(done)
      <4> PICK f \in done : \E k \in 1..Len(f.data) : v = <<f.start, k>>
        BY <2>2, <3>5
      <4>1. PICK k \in 1..Len(f.data) : v = <<f.start, k>>
        OBVIOUS
      <4>2. CASE f = e
        BY <3>1, <4>1, <4>2 DEF s, m
      <4>3. CASE f \in Applied
        <5>1. v \in Range(data)
          BY <2>3, <2>7, <4>1, <4>3
        <5>2. k # 0
          BY <2>6
        <5>3. ~(\E x \in (s + 1)..(s + d) : v = <<x, 0>>)
          BY <4>1, <5>2
        <5> QED
          BY <3>2, <3>3, <5>1, <5>3
      <4> QED
        BY <4>2, <4>3 DEF done
    <3> QED
      BY <3>4, <3>5
  <2> QED
    BY <2>1, <2>8, <2>9
<1>13. (Means(data, len, Applied))'
  BY <1>6, <1>11, <1>12 DEF Means
<1>14. GivenSound'
  BY <1>1, <1>2, <1>6 DEF GivenSound
<1> DEFINE rest == Tail(edits)
<1> HIDE DEF rest
<1>15. /\ edits' = rest /\ Len(rest) = Len(edits) - 1
       /\ \A j \in 1..(Len(edits) - 1) : rest[j] = edits[j + 1] /\ j + 1 \in 1..Len(edits) /\ 1 < j + 1
  <2>1. \A j \in 1..(Len(edits) - 1) : j + 1 \in 1..Len(edits) /\ 1 < j + 1
    BY <1>2
  <2> QED
    BY <1>2, <1>6, <2>1 DEF rest
<1>16. EditsSorted'
  <2>1. ASSUME NEW u \in 1..Len(rest), NEW j \in 1..Len(rest), u < j
        PROVE  Ahead(rest[j], rest[u])
    <3>1. u + 1 < j + 1 /\ u \in 1..(Len(edits) - 1) /\ j \in 1..(Len(edits) - 1)
      BY <1>15, <2>1
    <3> QED
      BY <1>1, <1>15, <3>1 DEF EditsSorted
  <2>2. ASSUME NEW u \in 1..Len(rest), NEW f \in done
        PROVE  Ahead(rest[u], f)
    <3>1. u \in 1..(Len(edits) - 1)
      BY <1>15
    <3>2. Ahead(edits[u + 1], e) /\ \A g \in Applied : Ahead(edits[u + 1], g)
      BY <1>1, <1>2, <1>15, <3>1 DEF EditsSorted, e
    <3> QED
      BY <1>15, <3>1, <3>2 DEF done
  <2> QED
    BY <1>6, <1>15, <2>1, <2>2 DEF EditsSorted
<1>17. StillThere'
  <2> SUFFICES ASSUME NEW j \in 1..Len(rest)
               PROVE  /\ rest[j].start + rest[j].deleteCount <= Len(new)
                      /\ \A u \in 1..(rest[j].start + rest[j].deleteCount) : new[u] = <<u, 0>>
    BY <1>6, <1>15 DEF StillThere
  <2>1. j \in 1..(Len(edits) - 1)
    BY <1>15
  <2> DEFINE g == edits[j + 1]
             p == g.start + g.deleteCount
  <2>2. g = rest[j] /\ Ahead(g, e) /\ g \in given
    <3>1. Ahead(edits[j + 1], edits[1])
      BY <1>1, <1>2, <1>15, <2>1 DEF EditsSorted
    <3>2. edits[j + 1] \in given
      BY <1>1, <1>15, <2>1, ElementOfSeq DEF GivenSound
    <3> QED
      BY <1>15, <2>1, <3>1, <3>2 DEF e
  <2>3. p \in Nat /\ p <= s
    BY <1>1, <2>2 DEF GivenSound, IsEdit, Ahead, s
  <2> HIDE DEF g, p
  <2>4. p <= Len(new) /\ \A u \in 1..p : u \in 1..s /\ u \in 1..(s + d)
    BY <1>3, <1>4, <1>5, <2>3
  <2>5. \A u \in 1..p : new[u] = <<u, 0>>
    BY <1>4, <1>5, <2>4
  <2> QED
    BY <2>2, <2>4, <2>5 DEF p
<1> QED
  BY <1>5, <1>6, <1>13, <1>14, <1>16, <1>17 DEF AppliedIInv

LEMMA InitApplied == Given => AppliedIInv
<1> SUFFICES ASSUME Given
             PROVE  AppliedIInv
  OBVIOUS
<1>1. PICK starts \in SUBSET (0..len) : given \in DeltasAt(len, starts)
  BY DEF Given
<1>2. PICK f \in [starts -> (0..len) \X (0..MaxInsert)] :
        /\ given = {TokenEdit(s, f[s][1], f[s][2]) : s \in starts}
        /\ \A s \in starts : /\ s + f[s][1] <= len
                             /\ \A t \in starts : s < t => s + f[s][1] <= t
  BY <1>1 DEF DeltasAt
<1>3. len \in Nat /\ MaxInsert \in Nat /\ data = Old(len) /\ edits \in SortEdits(given)
  BY LspTokenEditsAssumption DEF Given
<1>4. ASSUME NEW s \in starts
      PROVE  LET e == TokenEdit(s, f[s][1], f[s][2]) IN
             IsEdit(len, e) /\ e.start = s /\ e.deleteCount = f[s][1]
  <2> DEFINE n == f[s][2]
             values == [k \in 1..n |-> <<s, k>>]
             e == TokenEdit(s, f[s][1], n)
  <2>1. s \in Nat /\ f[s][1] \in Nat /\ n \in Nat
    BY <1>3
  <2>2. e.start = s /\ e.deleteCount = f[s][1] /\ e.data = values
    BY DEF TokenEdit
  <2> HIDE DEF n
  <2>3. values \in [1..n -> Value] /\ \A k \in 1..n : values[k] = <<s, k>>
    BY <2>1 DEF Value
  <2> HIDE DEF values
  <2>4. values \in Seq(Value) /\ Len(values) = n
    BY <2>1, <2>3
  <2> HIDE DEF e
  <2>5. IsEdit(len, e)
    BY <1>2, <2>1, <2>2, <2>3, <2>4 DEF IsEdit
  <2> QED
    BY <2>2, <2>5 DEF e, n
<1>5. \A e \in given : IsEdit(len, e)
  BY <1>2, <1>4
<1>6. IsFiniteSet(given)
  <2> DEFINE g == [s \in starts |-> TokenEdit(s, f[s][1], f[s][2])]
  <2>1. IsFiniteSet(starts)
    <3>1. len \in Int /\ 0 \in Int /\ starts \subseteq 0..len
      BY <1>3
    <3>2. IsFiniteSet(0..len)
      BY <3>1, FS_Interval
    <3> QED
      BY <3>1, <3>2, FS_Subset
  <2>2. g \in Surjection(starts, given)
    BY <1>2 DEF Surjection
  <2> HIDE DEF g
  <2> QED
    BY <2>1, <2>2, FS_Surjection DEF ExistsSurjection
<1>7. /\ edits \in [1..Cardinality(given) -> given] /\ Range(edits) = given
      /\ \A u, j \in DOMAIN edits : u < j => edits[u].start > edits[j].start
  BY <1>3 DEF SortEdits
<1>8. edits \in Seq(given) /\ DOMAIN edits = 1..Len(edits)
  BY <1>6, <1>7, FS_CardinalityType
<1>9. Applied = {}
  BY <1>7 DEF Applied
<1>10. GivenSound
  BY <1>3, <1>5, <1>8 DEF GivenSound
<1>11. EditsSorted
  <2>1. ASSUME NEW a \in given, NEW b \in given, a.start < b.start
        PROVE  Ahead(a, b)
    <3>1. PICK s \in starts : a = TokenEdit(s, f[s][1], f[s][2])
      BY <1>2
    <3>2. PICK t \in starts : b = TokenEdit(t, f[t][1], f[t][2])
      BY <1>2
    <3>3. a.start = s /\ a.deleteCount = f[s][1] /\ b.start = t
      BY <1>4, <3>1, <3>2
    <3> QED
      BY <1>2, <2>1, <3>3 DEF Ahead
  <2>2. ASSUME NEW u \in 1..Len(edits), NEW j \in 1..Len(edits), u < j
        PROVE  Ahead(edits[j], edits[u])
    <3>1. edits[u] \in given /\ edits[j] \in given /\ edits[u].start > edits[j].start
      BY <1>7, <1>8, <2>2, ElementOfSeq
    <3>2. edits[u].start \in Nat /\ edits[j].start \in Nat
      BY <1>5, <3>1 DEF IsEdit
    <3>3. edits[j].start < edits[u].start
      BY <3>1, <3>2
    <3> QED
      BY <2>1, <3>1, <3>3
  <2> QED
    BY <1>9, <2>2 DEF EditsSorted
<1>12. data \in Seq(Value) /\ Len(data) = len /\ DOMAIN data = 1..len /\ \A u \in 1..len : data[u] = <<u, 0>>
  <2>1. data \in [1..len -> Value] /\ \A u \in 1..len : data[u] = <<u, 0>>
    BY <1>3 DEF Old, Value
  <2> QED
    BY <1>3, <2>1
<1>13. StillThere
  <2> SUFFICES ASSUME NEW j \in 1..Len(edits)
               PROVE  /\ edits[j].start + edits[j].deleteCount <= len
                      /\ \A u \in 1..(edits[j].start + edits[j].deleteCount) : data[u] = <<u, 0>>
    BY <1>12 DEF StillThere
  <2>1. IsEdit(len, edits[j])
    BY <1>5, <1>8, ElementOfSeq
  <2> DEFINE p == edits[j].start + edits[j].deleteCount
  <2>2. p \in Nat /\ p <= len
    BY <2>1 DEF IsEdit
  <2> HIDE DEF p
  <2>3. \A u \in 1..p : u \in 1..len
    BY <1>3, <2>2
  <2> QED
    BY <1>12, <2>2, <2>3 DEF p
<1>14. Means(data, len, {})
  <2>1. Ordered(data)
    BY <1>12 DEF Ordered, Precedes
  <2>2. Range(data) = {<<u, 0>> : u \in 1..len}
    BY <1>12 DEF Range
  <2>3. Kept(len, {}) = {<<u, 0>> : u \in 1..len} /\ Inserted({}) = {}
    BY DEF Kept, Inserted
  <2> QED
    BY <2>1, <2>2, <2>3 DEF Means
<1> QED
  BY <1>9, <1>10, <1>11, <1>12, <1>13, <1>14 DEF AppliedIInv

(* Applying the edits of a delta one by one, in place and in the order       *)
(* sort_edits() gives them, makes of the cached array the one the delta      *)
(* means, for arrays and edits of any length and however many edits.         *)
THEOREM EditsMakeTheArray == TokenEditsSpec => []AppliedAsMeant
<1>1. AppliedIInv /\ [ApplyNext]_editVars => AppliedIInv'
  <2>1. CASE UNCHANGED editVars
    BY <2>1 DEF editVars, AppliedIInv, GivenSound, EditsSorted, StillThere, Applied, Means, Ordered
  <2> QED
    BY <2>1, AppliedStep
<1>2. AppliedIInv => AppliedAsMeant
  <2> SUFFICES ASSUME AppliedIInv, edits = <<>>
               PROVE  Means(data, len, given)
    BY DEF AppliedAsMeant
  <2>1. Applied = given
    BY DEF Applied, Range
  <2> QED
    BY <2>1 DEF AppliedIInv
<1> QED
  BY <1>1, <1>2, InitApplied, PTL DEF TokenEditsSpec
================================================================================
