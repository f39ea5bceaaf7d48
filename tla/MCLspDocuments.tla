----------------------------- MODULE MCLspDocuments -----------------------------
(* Two documents in the language server plugin, which tells their servers of *)
(* them as they are opened, edited, renamed and closed (LspSync), or shows   *)
(* over their text what the servers answer (LspPopups).  Under the popups    *)
(* one document changes twice, or each once.                                 *)
EXTENDS MCLspSync, LspPopups

VARIABLE part

DocumentsInit ==
  /\ part \in {"sync", "popups"}
  /\ Init
  /\ PopupInit
  /\ part # "popups" => cur = CHOOSE d \in Tab : TRUE

ChangesNext ==
  PopupNext /\ \A d \in Tab : now'[d] = MaxChanges => \A other \in Tab \ {d} : now'[other] = 0

DocumentsNext ==
  /\ UNCHANGED part
  /\ \/ part = "sync" /\ Next /\ UNCHANGED popupVars
     \/ part = "popups" /\ ChangesNext /\ UNCHANGED vars

DocumentsSpec == DocumentsInit /\ [][DocumentsNext]_<<part, vars, popupVars>>
===============================================================================
