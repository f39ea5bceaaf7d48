------------------------------ MODULE LspTokenDecode ------------------------------
(***************************************************************************)
(* How process_tokens() of lsp-semtokens.c turns the relative positions of *)
(* a semantic tokens array into ranges, and which tokens it highlights:    *)
(* get_semantic_token_mask() of lsp-server.c has set a bit for every       *)
(* configured type of the server's legend.                                 *)
(***************************************************************************)
EXTENDS Integers, Sequences

CONSTANTS
  Line, Char,     \* positions of tokens: bounds of the document
  Type,           \* indexes into the legend (semanticTokensProvider.legend)
  MaxTokens,      \* bound: tokens in the array
  IntBits,        \* width of int, in which 1 << v is computed (32)
  MaskBits        \* width of guint64 semantic_token_mask (64)

ASSUME LspTokenDecodeAssumption ==
  /\ Line \subseteq Nat /\ Char \subseteq Nat /\ Type \subseteq Nat
  /\ MaxTokens \in Nat
  /\ IntBits \in Nat \ {0} /\ MaskBits \in Nat

VARIABLES
  tokens,         \* the tokens the server encodes, with absolute positions
  configured,     \* the types of semantic_tokens_types
  i,              \* tokens decoded so far
  lastPos,        \* last_pos
  highlighted     \* the tokens highlighted so far

decodeVars == <<tokens, configured, i, lastPos, highlighted>>

PlacedToken == [line: Line, char: Char, type: Type]
Before(a, b) == a.line < b.line \/ (a.line = b.line /\ a.char < b.char)

(* The encoding of the protocol, external: positions relative to the token   *)
(* before, the character so only on the same line.                           *)
Encoded(k) ==
  LET t == tokens[k]
      p == IF k = 1 THEN [line |-> 0, char |-> 0] ELSE tokens[k - 1]
  IN [deltaLine |-> t.line - p.line,
      deltaChar |-> IF t.line = p.line THEN t.char - p.char ELSE t.char,
      type |-> t.type]

DecodeInit ==
  /\ tokens \in UNION {[1..n -> PlacedToken] : n \in 0..MaxTokens}
  /\ \A k \in 2..Len(tokens) : Before(tokens[k - 1], tokens[k])
  /\ configured \in SUBSET Type
  /\ i = 0
  /\ lastPos = [line |-> 0, char |-> 0]
  /\ highlighted = {}

(* Mutated: the bit of the next type. *)
TokenMask_shifted == {v + 1 : v \in {w \in configured : w + 1 < MaskBits}}

(* get_semantic_token_mask(): index <<= 1 drops out of the guint64. *)
TokenMask == {v \in configured : v < MaskBits}

(* token_type = 1 << v, as the set of bits it may have.  The shift is done   *)
(* in int: from its width on it is undefined, and what is built from it      *)
(* shifts by v modulo the width or yields 0.                                 *)
TokenType(v) ==
  IF v < IntBits THEN {{v}} ELSE {{v % IntBits}, {}}

(* The position of the token encoded as e. *)
NextPos(e) ==
  [line |-> lastPos.line + e.deltaLine,
   char |-> IF e.deltaLine = 0 THEN lastPos.char + e.deltaChar ELSE e.deltaChar]

(* Five turns of the loop of process_tokens() *)
ProcessToken ==
  /\ i < Len(tokens)
  /\ LET e == Encoded(i + 1) IN
     /\ lastPos' = NextPos(e)
     /\ \E bits \in TokenType(e.type) :
          highlighted' = IF bits \cap TokenMask # {}
                         THEN highlighted \cup {NextPos(e)} ELSE highlighted
  /\ i' = i + 1
  /\ UNCHANGED <<tokens, configured>>

DecodeNext == ProcessToken

DecodeSpec == DecodeInit /\ [][DecodeNext]_decodeVars

-------------------------------------------------------------------------------
(* After k tokens the position is that of the k-th: relative positions add   *)
(* up within a line and start anew on the next.                              *)
PositionFollows ==
  i > 0 => lastPos = [line |-> tokens[i].line, char |-> tokens[i].char]

(* Highlighted are the tokens whose type is configured, and no others,       *)
(* wherever the server lists the type in its legend.                         *)
ConfiguredHighlighted ==
  highlighted = {[line |-> tokens[k].line, char |-> tokens[k].char] :
                   k \in {m \in 1..i : tokens[m].type \in configured}}
===============================================================================
