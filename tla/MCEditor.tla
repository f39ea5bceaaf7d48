------------------------------ MODULE MCEditor ------------------------------
(* Markers in the margin of a text that is edited, one plugin of two at a    *)
(* time: git-changebar with tracked files, and scope's breakpoints on two    *)
(* lines, which GDB places where it is asked to.                             *)
EXTENDS GitChangebar, ScopeBreaks, TLC

CONSTANTS doc1, doc2

Symmetry == Permutations({doc1, doc2})

Same == <<1, 2>>

VARIABLE part

EditorInit ==
  /\ part \in {"changebar", "breaks"}
  /\ Init
  /\ part # "changebar" => current = doc1 /\ head = [d \in InRepo |-> 0]
  /\ BreaksInit
  /\ part # "breaks" => ~async /\ ~notifies

EditorNext ==
  /\ UNCHANGED part
  /\ \/ part = "changebar" /\ Next /\ UNCHANGED breaksVars
     \/ part = "breaks" /\ BreaksNext /\ UNCHANGED vars
     \/ part = "changebar" /\ phase # "loaded" /\ UNCHANGED <<vars, breaksVars>>

EditorSpec == EditorInit /\ [][EditorNext]_<<part, vars, breaksVars>>
=============================================================================
