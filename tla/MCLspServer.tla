------------------------------ MODULE MCLspServer ------------------------------
(***************************************************************************)
(* Instances of LspServer for TLC.                                         *)
(***************************************************************************)
EXTENDS LspServer, TLC

CONSTANTS c, cpp

OneFiletype  == {c}
TwoFiletypes == {c, cpp}

(* No filetype uses the server of another. *)
NoReferences == [f \in Filetype |-> NULL]

(* "use=C" in the section of cpp: both filetypes share one server. *)
CppUsesC == [f \in Filetype |-> IF f = cpp THEN c ELSE NULL]

(* Addresses and launches are only compared, and so are filetypes without   *)
(* references.                                                              *)
Symmetry == Permutations(Addr) \cup Permutations(Launch) \cup Permutations(Filetype)
===============================================================================
