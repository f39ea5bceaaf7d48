------------------------------- MODULE LspProgress -------------------------------
(***************************************************************************)
(* Work in progress of the language servers (lsp-progress.c): the          *)
(* operations each server has announced, the counter all servers share,    *)
(* and the progress bar of the status bar.                                 *)
(*                                                                         *)
(* The servers keep to the protocol: a token is created before it begins,  *)
(* begun at most once, and ended only after that.                          *)
(***************************************************************************)
EXTENDS Integers, FiniteSets

CONSTANTS
  Server,          \* addresses of the LspServer structs
  Token,           \* progress tokens a server uses
  FreedUnbegun     \* a server may be freed between create and begin

ASSUME LspProgressAssumption ==
  /\ IsFiniteSet(Server) /\ IsFiniteSet(Token)
  /\ FreedUnbegun \in BOOLEAN

VARIABLES
  ops,             \* progress_ops of all servers: the tokens created
  begun,           \* those of them that have a title, i.e. have begun
  progressNum,     \* the static progress_num, a gint
  bar              \* the progress bar is on the screen

progressVars == <<ops, begun, progressNum, bar>>

Op == Server \X Token
OfServer(set, s) == {o \in set : o[1] = s}
CountLimit == Cardinality(Op)     \* bound: how far below 0 the counter is followed

ProgressTypeOK ==
  /\ ops \subseteq Op
  /\ begun \subseteq ops
  /\ progressNum \in Int
  /\ bar \in BOOLEAN

ProgressInit ==
  /\ ops = {}
  /\ begun = {}
  /\ progressNum = 0
  /\ bar = FALSE

(* lsp_progress_create(), for window/workDoneProgress/create *)
Create(o) ==
  /\ o \notin ops
  /\ ops' = ops \cup {o}
  /\ UNCHANGED <<begun, progressNum, bar>>

(* Mutated: the counter is tested after it was incremented, as if from 1. *)
Begin_late(o) ==
  /\ o \in ops \ begun
  /\ bar' = (bar \/ progressNum = 1)
  /\ progressNum' = progressNum + 1
  /\ begun' = begun \cup {o}
  /\ UNCHANGED ops

(* progress_begin() *)
Begin(o) ==
  /\ o \in ops \ begun
  /\ bar' = (bar \/ progressNum = 0)
  /\ progressNum' = progressNum + 1
  /\ begun' = begun \cup {o}
  /\ UNCHANGED ops

(* progress_end() *)
End(o) ==
  /\ o \in begun
  /\ progressNum' = IF progressNum > 0 THEN progressNum - 1 ELSE progressNum
  /\ bar' = (bar /\ progressNum' # 0)
  /\ ops' = ops \ {o}
  /\ begun' = begun \ {o}

(* lsp_progress_free_all(), from free_server().  The length is a guint, so   *)
(* the difference is unsigned: MAX(0, ...) never picks the 0, and the        *)
(* assignment to a gint turns a wrapped difference back into a negative one. *)
FreeAll(s) ==
  /\ FreedUnbegun \/ OfServer(ops, s) \subseteq begun
  /\ progressNum > -CountLimit
  /\ progressNum' = progressNum - Cardinality(OfServer(ops, s))
  /\ bar' = (bar /\ progressNum' # 0)
  /\ ops' = ops \ OfServer(ops, s)
  /\ begun' = begun \ OfServer(ops, s)

ProgressNext ==
  \/ \E o \in Op : Create(o) \/ Begin(o) \/ End(o)
  \/ \E s \in Server : FreeAll(s)

ProgressSpec == ProgressInit /\ [][ProgressNext]_progressVars

-------------------------------------------------------------------------------
(* The bar is on the screen exactly while some server works: neither an end  *)
(* for one server nor the freeing of another takes it away too early or      *)
(* leaves it pulsing for ever.                                               *)
BarShowsWork == bar = (begun # {})

(* The counter all servers share is the number of operations in progress.    *)
CounterIsWork == progressNum = Cardinality(begun)
===============================================================================
