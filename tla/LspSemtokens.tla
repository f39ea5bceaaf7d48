------------------------------- MODULE LspSemtokens -------------------------------
(***************************************************************************)
(* Semantic tokens of the lsp plugin (lsp-semtokens.c): the token array    *)
(* cached for a document, the delta requests that refer to it by result    *)
(* id, and the keywords shown in the editor.                               *)
(*                                                                         *)
(* A token is the word it highlights (semantic_tokens_type_style is empty, *)
(* so the words become keywords of the lexer), and tokens_str is a set of  *)
(* words.  The server answers its requests in order.                       *)
(***************************************************************************)
EXTENDS Naturals, Sequences, FiniteSetsExt, SequencesExt

CONSTANTS
  Doc,            \* documents of the server's filetype
  TokenArrays,    \* the token arrays the server may compute: sequences of words
  KeepsAll,       \* the server keeps every result, or only a document's last
  MaxResults,     \* bound: results a server numbers
  MaxFlight       \* bound: requests in flight

ASSUME LspSemtokensAssumption ==
  /\ \A tokens \in TokenArrays : tokens \in Seq(ToSet(tokens))
  /\ KeepsAll \in BOOLEAN
  /\ MaxResults \in Nat
  /\ MaxFlight \in Nat

VARIABLES
  cache,          \* CachedData of every document
  keywords,       \* words set with SCI_SETKEYWORDS in every document's editor
  keywordHash,    \* the static keyword_hash, as the words it is the hash of
  flight,         \* requests the server has not answered yet
  results,        \* the results of the server, numbered by their position
  ready,          \* the server has finished its handshake
  oldServer       \* a crashed server waits for free_server_after_delay()

semtokensVars == <<cache, keywords, keywordHash, flight, results, ready, oldServer>>

Words(tokens) == ToSet(tokens)
NoCache == [known |-> FALSE, tokens |-> <<>>, id |-> 0]
NoHash == {"keyword_hash = 0"}

(* No keywords have the hash 0. *)
ASSUME NoHashAssumption == \A tokens \in TokenArrays : Words(tokens) # NoHash

Result == [doc: Doc, tokens: TokenArrays]

SemtokensTypeOK ==
  /\ \A d \in Doc : /\ cache[d].known \in BOOLEAN
                    /\ cache[d].id \in 0..Len(results)
  /\ \A i \in 1..Len(flight) : /\ flight[i].doc \in Doc
                               /\ flight[i].prev \in 0..Len(results)
  /\ results \in Seq(Result)
  /\ ready \in BOOLEAN /\ oldServer \in BOOLEAN

SemtokensInit ==
  /\ cache = [d \in Doc |-> NoCache]
  /\ keywords = [d \in Doc |-> {}]
  /\ keywordHash = NoHash
  /\ flight = <<>>
  /\ results = <<>>
  /\ ready = FALSE
  /\ oldServer = FALSE

(* lsp_semtokens_send_request(): a delta against the cached result if that   *)
(* has an id, the full array (prev = 0) otherwise.                           *)
SendRequest(d) ==
  /\ ready
  /\ Len(flight) < MaxFlight
  /\ flight' = Append(flight, [doc |-> d, prev |-> IF cache[d].known THEN cache[d].id ELSE 0])
  /\ UNCHANGED <<cache, keywords, keywordHash, results, ready, oldServer>>

-------------------------------------------------------------------------------
(* The server, external: it computes an edit between two of its arrays.      *)
CommonPrefix(a, b) ==
  Max({k \in 0..Min({Len(a), Len(b)}) : SubSeq(a, 1, k) = SubSeq(b, 1, k)})

Diff(a, b) ==
  LET k == CommonPrefix(a, b) IN
  [start |-> k, deleteCount |-> Len(a) - k, data |-> SubSeq(b, k + 1, Len(b))]

LastResult(d) == Max({0} \cup {i \in 1..Len(results) : results[i].doc = d})

(* May the server answer request r with the edits since the result r names? *)
MayDelta(r) ==
  r.prev # 0 /\ (KeepsAll \/ r.prev = LastResult(r.doc))

-------------------------------------------------------------------------------
(* g_return_if_fail() of sem_tokens_edit_apply() *)
InRange(tokens, edit) == edit.start + edit.deleteCount <= Len(tokens)

(* sem_tokens_edit_apply() *)
EditApply(tokens, edit) ==
  IF InRange(tokens, edit)
  THEN SubSeq(tokens, 1, edit.start) \o edit.data
         \o SubSeq(tokens, edit.start + edit.deleteCount + 1, Len(tokens))
  ELSE tokens

(* highlight_keywords(), with cached as the new cache of d *)
HighlightKeywords(d, cached) ==
  LET words == IF cached.known THEN Words(cached.tokens) ELSE {} IN
  IF keywordHash # words
  THEN /\ keywords' = [keywords EXCEPT ![d] = words]
       /\ keywordHash' = words
  ELSE UNCHANGED <<keywords, keywordHash>>

(* process_full_result(): the cache becomes the result. *)
FullResult(d, tokens, id) == [known |-> TRUE, tokens |-> tokens, id |-> id]

(* Mutated: the id of the result before is kept. *)
DeltaResult_keepsId(d, edit, id) ==
  [known |-> TRUE, tokens |-> EditApply(cache[d].tokens, edit), id |-> cache[d].id]

(* process_delta_result(): the edits are applied to what is cached now. *)
DeltaResult(d, edit, id) ==
  [known |-> TRUE, tokens |-> EditApply(cache[d].tokens, edit), id |-> id]

NextReply == /\ flight # <<>>
         /\ flight' = Tail(flight)
         /\ UNCHANGED <<ready, oldServer>>

NewResult(d, tokens) == results' = Append(results, [doc |-> d, tokens |-> tokens])

(* semtokens_cb() with "data", and the result id or none *)
ReplyFull ==
  /\ NextReply
  /\ Len(results) < MaxResults
  /\ \E tokens \in TokenArrays, numbered \in BOOLEAN :
       LET d  == Head(flight).doc
           id == IF numbered THEN Len(results) + 1 ELSE 0
           cached == FullResult(d, tokens, id)
       IN /\ NewResult(d, tokens)
          /\ cache' = [cache EXCEPT ![d] = cached]
          /\ HighlightKeywords(d, cached)

(* Mutated: what the edits changed is not shown. *)
ReplyDelta_silent ==
  /\ NextReply
  /\ MayDelta(Head(flight))
  /\ Len(results) < MaxResults
  /\ \E tokens \in TokenArrays :
       LET r == Head(flight)
           d == r.doc
           cached == DeltaResult(d, Diff(results[r.prev].tokens, tokens), Len(results) + 1)
       IN /\ NewResult(d, tokens)
          /\ cache' = IF cache[d].known THEN [cache EXCEPT ![d] = cached] ELSE cache
  /\ UNCHANGED <<keywords, keywordHash>>

(* semtokens_cb() with "edits" and a result id; without a cache they are     *)
(* dropped.                                                                  *)
ReplyDelta ==
  /\ NextReply
  /\ MayDelta(Head(flight))
  /\ Len(results) < MaxResults
  /\ \E tokens \in TokenArrays :
       LET r == Head(flight)
           d == r.doc
           cached == DeltaResult(d, Diff(results[r.prev].tokens, tokens), Len(results) + 1)
       IN /\ NewResult(d, tokens)
          /\ IF cache[d].known
             THEN /\ cache' = [cache EXCEPT ![d] = cached]
                  /\ HighlightKeywords(d, cached)
             ELSE UNCHANGED <<cache, keywords, keywordHash>>

(* semtokens_cb() with neither: null, or edits without an id. *)
ReplyNothing ==
  /\ NextReply
  /\ cache' = [cache EXCEPT ![Head(flight).doc] = NoCache]
  /\ UNCHANGED <<keywords, keywordHash, results>>

(* semtokens_cb() with an error *)
ReplyError ==
  /\ NextReply
  /\ UNCHANGED <<cache, keywords, keywordHash, results>>

-------------------------------------------------------------------------------
(* lsp_semtokens_clear(): the document is closed or gets another filetype. *)
Clear(d) ==
  /\ cache' = [cache EXCEPT ![d] = NoCache]
  /\ keywordHash' = NoHash
  /\ UNCHANGED <<keywords, flight, results, ready, oldServer>>

(* lsp_semtokens_destroy(): the server is told the document is closed. *)
Destroy(d) ==
  /\ cache' = [cache EXCEPT ![d] = NoCache]
  /\ UNCHANGED <<keywords, keywordHash, flight, results, ready, oldServer>>

(* The server stops or crashes: what it was asked fails, and another one is  *)
(* started in its place.                                                     *)
ServerLost ==
  /\ ready /\ ~oldServer
  /\ flight' = <<>>
  /\ ready' = FALSE
  /\ oldServer' = TRUE
  /\ UNCHANGED <<cache, keywords, keywordHash, results>>

(* initialize_cb() calls lsp_semtokens_init(); the server numbers anew. *)
ServerInitialized ==
  /\ ~ready
  /\ ready' = TRUE
  /\ results' = <<>>
  /\ cache' = [d \in Doc |-> NoCache]
  /\ UNCHANGED <<keywords, keywordHash, flight, oldServer>>

(* free_server() calls lsp_sync_free() on the lost one, in its own time. *)
FreeOldServer ==
  /\ oldServer
  /\ oldServer' = FALSE
  /\ cache' = [d \in Doc |-> NoCache]
  /\ UNCHANGED <<keywords, keywordHash, flight, results, ready>>

SemtokensNext ==
  \/ \E d \in Doc : SendRequest(d) \/ Clear(d) \/ Destroy(d)
  \/ ReplyFull \/ ReplyDelta \/ ReplyNothing \/ ReplyError
  \/ ServerLost \/ ServerInitialized \/ FreeOldServer

SemtokensSpec == SemtokensInit /\ [][SemtokensNext]_semtokensVars

-------------------------------------------------------------------------------
(* The cached array is the array the server numbered with the cached id, so  *)
(* that the edits it sends against that id apply to the right tokens: not    *)
(* so once two delta requests name the same result and both are answered     *)
(* with edits.  Ids are always those of the running server (the type).       *)
CacheIsResult ==
  SemtokensTypeOK /\ \A d \in Doc : cache[d].id # 0 => cache[d].tokens = results[cache[d].id].tokens

(* A reply that changes the tokens of a document shows in its editor, though *)
(* one keyword_hash serves the editors of all documents.                     *)
ReplyIsShown ==
  [][\A d \in Doc : cache'[d].known /\ cache'[d] # cache[d] =>
       keywords'[d] = Words(cache'[d].tokens)]_semtokensVars
===============================================================================
