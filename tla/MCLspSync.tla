-------------------------------- MODULE MCLspSync -------------------------------
(* Values for LspSync: two files of one workspace folder, one of them        *)
(* matched by the patterns of filetype cc's server; one server takes changes, *)
(* the other whole texts.                                                    *)
EXTENDS LspSync

CONSTANTS cc, dd, None, p1, p2, r1

Types == {cc, dd, None}
Served == {cc, dd}
Inc == {cc}
Paths == {p1, p2}
NoMapping == [p \in Path |-> NULL]
Patterns == (p1 :> NULL) @@ (p2 :> cc)
Symmetry == Permutations(Doc) \cup Permutations(Char)
Roots == [p \in Path |-> r1]
===============================================================================
