------------------------------- MODULE LspTokenEdits -------------------------------
(***************************************************************************)
(* The edits of a semantic tokens delta (lsp-semtokens.c).  All of them    *)
(* refer to the array as it was; process_delta_result() sorts them and     *)
(* applies them to the cached array one by one, in place.                  *)
(***************************************************************************)
EXTENDS Naturals, Sequences, FiniteSetsExt, SequencesExt

CONSTANTS
  MaxLen,       \* bound: length of the cached array
  MaxInsert,    \* bound: values one edit inserts
  MaxEdits      \* bound: edits in a delta

ASSUME LspTokenEditsAssumption == MaxLen \in Nat /\ MaxInsert \in Nat /\ MaxEdits \in Nat

VARIABLES
  len,          \* length of the array the delta refers to
  given,        \* the edits of the reply
  data,         \* data->tokens
  edits         \* the edits still to apply, in the order the loop takes them

editVars == <<len, given, data, edits>>

(* Every value is told apart: <<i, 0>> is the one at place i of the array the *)
(* delta refers to, <<i, k>> the k-th inserted behind it.                    *)
Value == Nat \X Nat
Old(n) == [i \in 1..n |-> <<i, 0>>]

TokenEdit(start, deleteCount, n) ==
  [start |-> start, deleteCount |-> deleteCount, data |-> [k \in 1..n |-> <<start, k>>]]

(* Deltas a server may send for an array of length n: the edits lie in the   *)
(* array, do not overlap and start at different places.                      *)
DeltasAt(n, starts) ==
  LET Fits(f) == \A s \in starts : /\ s + f[s][1] <= n
                                  /\ \A t \in starts : s < t => s + f[s][1] <= t
  IN {{TokenEdit(s, f[s][1], f[s][2]) : s \in starts} :
        f \in {g \in [starts -> (0..n) \X (0..MaxInsert)] : Fits(g)}}

(* g_ptr_array_sort() with sort_edits() *)
SortEdits(es) ==
  {s \in [1..Cardinality(es) -> es] :
     Range(s) = es /\ \A i, j \in DOMAIN s : i < j => s[i].start > s[j].start}

Given ==
  /\ len \in 0..MaxLen
  /\ data = Old(len)
  /\ \E starts \in SUBSET (0..len) : Cardinality(starts) <= MaxEdits /\ given \in DeltasAt(len, starts)
  /\ edits \in SortEdits(given)

(* Mutated: the values are inserted behind the one that follows the range. *)
SemTokensEditApply_late(tokens, e) ==
  IF e.start + e.deleteCount <= Len(tokens)
  THEN SubSeq(tokens, 1, e.start)
         \o SubSeq(tokens, e.start + e.deleteCount + 1, Len(tokens)) \o e.data
  ELSE tokens

(* sem_tokens_edit_apply() *)
SemTokensEditApply(tokens, e) ==
  IF e.start + e.deleteCount <= Len(tokens)
  THEN SubSeq(tokens, 1, e.start) \o e.data
         \o SubSeq(tokens, e.start + e.deleteCount + 1, Len(tokens))
  ELSE tokens

(* One turn of the loop of process_delta_result() *)
ApplyNext ==
  /\ edits # <<>>
  /\ data' = SemTokensEditApply(data, Head(edits))
  /\ edits' = Tail(edits)
  /\ UNCHANGED <<len, given>>

-------------------------------------------------------------------------------
TokenEditsSpec == Given /\ [][ApplyNext]_editVars

(* What a delta means: an old value stays unless some edit deletes it, the   *)
(* values an edit inserts follow the old values before its start in the      *)
(* order given, and nothing changes its place otherwise.                     *)
Kept(n, es) ==
  {<<i, 0>> : i \in {p \in 1..n : \A e \in es : p \notin (e.start + 1)..(e.start + e.deleteCount)}}

Inserted(es) == UNION {Range(e.data) : e \in es}

Precedes(v, w) == v[1] < w[1] \/ (v[1] = w[1] /\ v[2] < w[2])

Ordered(array) == \A i, j \in DOMAIN array : i < j => Precedes(array[i], array[j])

Means(array, n, es) == Ordered(array) /\ Range(array) = Kept(n, es) \cup Inserted(es)

(* Applying the edits one by one, in place and in the sorted order, gives    *)
(* the array the delta means, whatever the order they were sent in.          *)
AppliedAsMeant == edits = <<>> => Means(data, len, given)

===============================================================================
