--------------------------- MODULE ScopeBreaksProofs ---------------------------
(* A theorem about ScopeBreaks, for files, lists and sessions of any size and *)
(* whatever GDB notifies of: while the user does not press Enter within a     *)
(* line with a breakpoint, and GDB places breakpoints where they are asked    *)
(* for, each line has the markers of its rows.                                *)
EXTENDS ScopeBreaks, FiniteSetTheorems, FunctionTheorems, SequenceTheorems, WellFoundedInduction, TLAPS

(* What the theorem is for: breaks_delta() takes Enter within a line for a    *)
(* new line above it, and break_node_parse() of a row that was inserted leaves *)
(* its marker where it was asked for.                                         *)
PlacedWhereAsked == ~SplitsLines /\ \A l \in Line : Placed[l] = l

--------------------------------------------------------------------------------
(* What rows, breakpoints and what is said of them look like                  *)

Where == 0..Lines

Row == {row \in [id : 0..MaxBreaks, at : Where, line : Where, on : BOOLEAN, temp : BOOLEAN,
                 watch : BOOLEAN, stage : Stages] :
          row.at = row.line /\ (row.watch <=> row.line = 0)}

Arg == {arg \in [at : Where, on : BOOLEAN, temp : BOOLEAN, watch : BOOLEAN] :
          arg.watch <=> arg.at = 0}

Break == {bp \in [at : Where, line : Where, on : BOOLEAN, temp : BOOLEAN, watch : BOOLEAN] :
            bp.at = bp.line /\ (bp.watch <=> bp.line = 0)}

Breaks == UNION {[S -> Break] : S \in SUBSET (1..MaxBreaks)}

Asked == {"load", "features", "insert", "break", "enable", "disable", "edit", "delete",
          "info", "list", "run", "continue", "cli delete", "cli toggle"}
Told == Results \cup {"created", "deleted", "hit", "exited"}

Commands == [cmd : Asked, token : Int, num : Nat, arg : Arg \cup {0}]
Records == [kind : Told, token : Int, breaks : Breaks]

(* The rows and markers of P: each line has the markers of its rows, and a    *)
(* row with an Id is where GDB has that breakpoint.                           *)
AtLine(P, l, on) == {s \in Known(P) : P.rows[s].line = l /\ P.rows[s].on = on}

Well(P, place) ==
  /\ P = [rows |-> P.rows, marked |-> P.marked, send |-> P.send]
  /\ Known(P) \subseteq Scid /\ IsFiniteSet(Known(P))
  /\ P.rows \in [Known(P) -> Row]
  /\ P.marked \in [Line -> [BOOLEAN -> Nat]]
  /\ \A l \in Line, on \in BOOLEAN : P.marked[l][on] = Cardinality(AtLine(P, l, on))
  /\ \A s \in Known(P) : P.rows[s].id # 0 => P.rows[s].line = place[P.rows[s].id]
  /\ P.send \in Seq(Commands)

SessionOK ==
  /\ session \in {"INACTIVE", "ACTIVE", "KILLING"}
  /\ prog \in {"none", "running", "stopped"} /\ target \in {"none", "running", "stopped"}
  /\ dirty \in BOOLEAN
  /\ commands \in Seq(Commands) /\ records \in Seq(Records)
  /\ bps \in Breaks /\ given \in 0..MaxBreaks
  /\ session = "INACTIVE" => commands = <<>> /\ records = <<>> /\ given = 0

(* Only numbers that were given are known or told of.                         *)
NumbersGiven ==
  /\ DOMAIN bps \subseteq 1..given
  /\ \A s \in DOMAIN rows : rows[s].id \in 0..given
  /\ \A i \in 1..Len(records) : DOMAIN records[i].breaks \subseteq 1..given

(* A breakpoint stays where it is, and is told of as being there.             *)
Places(place) ==
  /\ place \in [1..MaxBreaks -> Where]
  /\ \A n \in DOMAIN bps : bps[n].line = place[n]
  /\ \A i \in 1..Len(records) : \A n \in DOMAIN records[i].breaks :
       records[i].breaks[n].line = place[n]

(* A row whose insertion is asked for or done has no Id before it is told of. *)
InsertAsked(c) ==
  /\ c.cmd \in {"insert", "break"} => c.arg \in Arg
  /\ c.cmd = "insert" =>
       \/ c.token \in {ByUser, OnLoad, RunTo}
       \/ c.token \in DOMAIN rows /\ rows[c.token].id = 0 /\ rows[c.token].line = c.arg.at

InsertTold(r) ==
  r.kind = "inserted" =>
    \E n \in 1..given :
      /\ DOMAIN r.breaks = {n}
      /\ \/ r.token \in {ByUser, OnLoad, RunTo}
         \/ /\ r.token \in DOMAIN rows /\ rows[r.token].id = 0
            /\ rows[r.token].line = r.breaks[n].line

InsertsRow ==
  /\ \A i \in 1..Len(commands) : InsertAsked(commands[i])
  /\ \A i \in 1..Len(records) : InsertTold(records[i])

(* It is inserted once.                                                       *)
Inserts(c, s) == c.cmd = "insert" /\ c.token = s
HasInserted(r, s) == r.kind = "inserted" /\ r.token = s

Once(cs) == \A s \in Scid : \A i, j \in 1..Len(cs) : Inserts(cs[i], s) /\ Inserts(cs[j], s) => i = j

InsertsOnce ==
  /\ Once(commands)
  /\ \A s \in Scid : \A i, j \in 1..Len(records) :
       HasInserted(records[i], s) /\ HasInserted(records[j], s) => i = j
  /\ \A s \in Scid : \A i \in 1..Len(commands), j \in 1..Len(records) :
       ~(Inserts(commands[i], s) /\ HasInserted(records[j], s))

(* Nothing else is asked for before the program is loaded.                    *)
LoadFirst ==
  /\ \A i \in 1..Len(commands) : commands[i].cmd = "load" =>
       /\ i = 1 /\ records = <<>> /\ target = "none"
       /\ \A j \in 1..Len(commands) : j > 1 => commands[j].cmd = "features"
  /\ \A i \in 1..Len(records) : records[i].kind = "loaded" =>
       /\ i = 1 /\ target = "none"
       /\ \A j \in 1..Len(commands) : commands[j].cmd = "features"
       /\ \A j \in 1..Len(records) : j > 1 => records[j].kind \in {"features", "error"}

Removes(r, n) ==
  \/ r.kind \in {"removed", "deleted", "hit"} /\ r.token = n
  \/ r.kind = "list" /\ n \notin DOMAIN r.breaks

(* What removes a row tells of a breakpoint that GDB has no more, or that was *)
(* not known yet.                                                             *)
RemovesGone ==
  \A i \in 1..Len(records) :
    /\ records[i].kind \in {"removed", "deleted", "edited"} => records[i].token \in 1..given
    /\ records[i].kind = "hit" => records[i].token \in 0..given
    /\ \A n \in DOMAIN bps : Removes(records[i], n) =>
         /\ \A s \in DOMAIN rows : rows[s].id # n
         /\ \A j \in 1..(i - 1) : n \notin DOMAIN records[j].breaks

(* A row is there when its state changes.                                     *)
EnableAsked(c) ==
  c.cmd \in {"enable", "disable"} =>
    \/ c.token = 0
    \/ /\ c.num <= given
       /\ c.num \in DOMAIN bps => c.token \in DOMAIN rows /\ rows[c.token].id = c.num

EnablesRow ==
  /\ \A i \in 1..Len(commands) : EnableAsked(commands[i])
  /\ \A i \in 1..Len(records) : records[i].kind \in {"enabled", "disabled"} =>
       /\ records[i].token \in DOMAIN rows
       /\ rows[records[i].token].id # 0
       /\ \A j \in 1..(i - 1) : ~Removes(records[j], rows[records[i].token].id)

BreaksIInv ==
  /\ SessionOK /\ NumbersGiven /\ InsertsRow /\ InsertsOnce /\ LoadFirst /\ RemovesGone /\ EnablesRow
  /\ \E place : Places(place) /\ Well(List, place)

--------------------------------------------------------------------------------
(* The list                                                                   *)

Shaped(P) ==
  /\ P = [rows |-> P.rows, marked |-> P.marked, send |-> P.send]
  /\ P.marked \in [Line -> [BOOLEAN -> Nat]]

LEMMA MarkIs ==
  ASSUME NEW P, Shaped(P), NEW line \in Where, NEW on \in BOOLEAN, NEW n \in {1, -1}
  PROVE  LET Q == Mark(P, line, on, n) IN
         /\ Q = [rows |-> P.rows, marked |-> Q.marked, send |-> P.send]
         /\ Q.marked \in [Line -> [BOOLEAN -> Nat]]
         /\ \A l \in Line, o \in BOOLEAN :
              Q.marked[l][o] = IF l = line /\ o = on
                               THEN IF P.marked[l][o] + n < 0 THEN 0 ELSE P.marked[l][o] + n
                               ELSE P.marked[l][o]
<1> DEFINE m == P.marked
           k == IF m[line][on] + n < 0 THEN 0 ELSE m[line][on] + n
           q == [m EXCEPT ![line] = [m[line] EXCEPT ![on] = k]]
           Q == Mark(P, line, on, n)
<1>1. CASE line = 0
  BY <1>1, SMT DEF Mark, Shaped, Line
<1>2. CASE line # 0
  <2>1. line \in Line /\ m \in [Line -> [BOOLEAN -> Nat]] /\ m[line] \in [BOOLEAN -> Nat]
    BY <1>2, BreaksAssumption DEF Shaped, Line, Where
  <2>2. k \in Nat
    BY <2>1, m[line][on] \in Nat
  <2>3. Q = [rows |-> P.rows, marked |-> q, send |-> P.send]
    BY <1>2, <2>1 DEF Mark, Shaped
  <2> QED
    BY <2>1, <2>2, <2>3
<1> QED
  BY <1>1, <1>2

LEMMA AtLineFinite ==
  ASSUME NEW P, IsFiniteSet(Known(P)), NEW l, NEW o
  PROVE  IsFiniteSet(AtLine(P, l, o)) /\ Cardinality(AtLine(P, l, o)) \in Nat
<1>1. AtLine(P, l, o) \subseteq Known(P)
  BY DEF AtLine
<1> QED
  BY <1>1, FS_Subset, FS_CardinalityType

(* A row that is new or changed, with its marker.                             *)
LEMMA RowSet ==
  ASSUME NEW place, NEW P, Well(P, place), NEW s \in Scid, NEW row \in Row,
         row.id # 0 => row.line = place[row.id],
         NEW Q, Shaped(Q), Q.rows = With(P.rows, s, row), Q.send \in Seq(Commands),
         \A l \in Line, o \in BOOLEAN :
           Q.marked[l][o] =
             (IF s \in Known(P) /\ P.rows[s].line = l /\ P.rows[s].on = o
              THEN P.marked[l][o] - 1 ELSE P.marked[l][o])
             + (IF row.line = l /\ row.on = o THEN 1 ELSE 0)
  PROVE  Well(Q, place) /\ Known(Q) = Known(P) \cup {s}
<1>1. /\ Known(Q) = Known(P) \cup {s}
      /\ \A t \in Known(Q) : Q.rows[t] = IF t = s THEN row ELSE P.rows[t]
      /\ Q.rows \in [Known(Q) -> Row]
  BY DEF With, Known, Well
<1>2. IsFiniteSet(Known(Q)) /\ Known(Q) \subseteq Scid
  BY <1>1, FS_AddElement DEF Well
<1>3. ASSUME NEW l \in Line, NEW o \in BOOLEAN
      PROVE  Q.marked[l][o] = Cardinality(AtLine(Q, l, o))
  <2> DEFINE A == AtLine(P, l, o) \ {s}
  <2>1. /\ IsFiniteSet(AtLine(P, l, o)) /\ Cardinality(AtLine(P, l, o)) \in Nat
        /\ P.marked[l][o] = Cardinality(AtLine(P, l, o))
    BY AtLineFinite DEF Well
  <2>2. /\ IsFiniteSet(A) /\ s \notin A /\ Cardinality(A) \in Nat
        /\ Cardinality(A) = IF s \in AtLine(P, l, o) THEN Cardinality(AtLine(P, l, o)) - 1
                            ELSE Cardinality(AtLine(P, l, o))
    BY <2>1, FS_RemoveElement, FS_Subset, FS_CardinalityType
  <2>3. Cardinality(A \cup {s}) = Cardinality(A) + 1
    BY <2>2, FS_AddElement
  <2>4. s \in AtLine(P, l, o) <=> s \in Known(P) /\ P.rows[s].line = l /\ P.rows[s].on = o
    BY DEF AtLine
  <2>5. AtLine(Q, l, o) = IF row.line = l /\ row.on = o THEN A \cup {s} ELSE A
    <3>1. ASSUME NEW t
          PROVE  t \in AtLine(Q, l, o) <=>
                   t \in IF row.line = l /\ row.on = o THEN A \cup {s} ELSE A
      <4>1. t \in AtLine(Q, l, o) <=> t \in Known(Q) /\ Q.rows[t].line = l /\ Q.rows[t].on = o
        BY DEF AtLine
      <4>2. t \in AtLine(P, l, o) <=> t \in Known(P) /\ P.rows[t].line = l /\ P.rows[t].on = o
        BY DEF AtLine
      <4>3. CASE t = s
        BY <1>1, <4>1, <4>3
      <4>4. CASE t # s
        BY <1>1, <4>1, <4>2, <4>4
      <4> QED
        BY <4>3, <4>4
    <3> QED
      BY <3>1
  <2>6. Q.marked[l][o] = Cardinality(A) + (IF row.line = l /\ row.on = o THEN 1 ELSE 0)
    <3> HIDE DEF A
    <3> QED
      BY <2>1, <2>2, <2>4
  <2> QED
    BY <2>2, <2>3, <2>5, <2>6
<1> QED
  BY <1>1, <1>2, <1>3 DEF Well, Shaped

(* Rows that go, with their markers.                                          *)
LEMMA RowsRemoved ==
  ASSUME NEW place, NEW P, Well(P, place), NEW ss \in SUBSET Known(P)
  PROVE  LET Q == BreakRemove(P, ss) IN
         /\ Well(Q, place) /\ Q.send = P.send /\ Known(Q) = Known(P) \ ss
         /\ \A s \in Known(Q) : Q.rows[s] = P.rows[s]
<1> DEFINE Q == BreakRemove(P, ss)
           marks(l, o) == Cardinality({s \in ss : P.rows[s].line = l /\ P.rows[s].on = o})
           left == [t \in Known(P) \ ss |-> P.rows[t]]
           less == [l \in Line |-> [o \in BOOLEAN |->
                     IF P.marked[l][o] < marks(l, o) THEN 0 ELSE P.marked[l][o] - marks(l, o)]]
<1>1. /\ Q = [rows |-> left, marked |-> less, send |-> P.send]
      /\ Q.send = P.send /\ Q.rows = left /\ Q.marked = less
  <2>1. Q = [P EXCEPT !.rows = left, !.marked = less]
    BY DEF BreakRemove
  <2> HIDE DEF left, less, Q
  <2> QED
    BY <2>1 DEF Well
<1>2. /\ Known(Q) = Known(P) \ ss
      /\ \A s \in Known(Q) : Q.rows[s] = P.rows[s]
      /\ Q.rows \in [Known(Q) -> Row]
  BY <1>1 DEF Known, Well
<1>3. IsFiniteSet(Known(Q)) /\ Known(Q) \subseteq Scid
  BY <1>2, FS_Subset DEF Well
<1>4. ASSUME NEW l \in Line, NEW o \in BOOLEAN
      PROVE  Q.marked[l][o] \in Nat /\ Q.marked[l][o] = Cardinality(AtLine(Q, l, o))
  <2> DEFINE G == {s \in ss : P.rows[s].line = l /\ P.rows[s].on = o}
  <2>1. G \subseteq AtLine(P, l, o) /\ AtLine(Q, l, o) = AtLine(P, l, o) \ G
    <3>1. ASSUME NEW t
          PROVE  t \in AtLine(Q, l, o) <=> t \in AtLine(P, l, o) \ G
      <4>1. t \in AtLine(Q, l, o) <=> t \in Known(Q) /\ Q.rows[t].line = l /\ Q.rows[t].on = o
        BY DEF AtLine
      <4>2. t \in AtLine(P, l, o) <=> t \in Known(P) /\ P.rows[t].line = l /\ P.rows[t].on = o
        BY DEF AtLine
      <4> QED
        BY <1>2, <4>1, <4>2
    <3> QED
      BY <3>1 DEF AtLine
  <2>2. /\ IsFiniteSet(AtLine(P, l, o)) /\ Cardinality(AtLine(P, l, o)) \in Nat
        /\ P.marked[l][o] = Cardinality(AtLine(P, l, o))
    BY AtLineFinite DEF Well
  <2>3. /\ IsFiniteSet(G) /\ Cardinality(G) \in Nat /\ Cardinality(G) <= Cardinality(AtLine(P, l, o))
    BY <2>1, <2>2, FS_Subset, FS_CardinalityType
  <2>4. AtLine(P, l, o) \cap G = G
    BY <2>1
  <2>5. Cardinality(AtLine(Q, l, o)) = Cardinality(AtLine(P, l, o)) - Cardinality(G)
    <3> HIDE DEF G
    <3>1. Cardinality(AtLine(P, l, o) \ G) = Cardinality(AtLine(P, l, o)) - Cardinality(AtLine(P, l, o) \cap G)
      BY <2>2, FS_Difference
    <3> QED
      BY <2>1, <2>4, <3>1
  <2>6. Q.marked[l][o] = IF P.marked[l][o] < Cardinality(G) THEN 0 ELSE P.marked[l][o] - Cardinality(G)
    <3>1. Q.marked[l][o] = less[l][o]
      BY <1>1
    <3> HIDE DEF marks
    <3>2. less[l][o] = IF P.marked[l][o] < marks(l, o) THEN 0 ELSE P.marked[l][o] - marks(l, o)
      OBVIOUS
    <3>3. marks(l, o) = Cardinality(G)
      BY DEF marks
    <3> QED
      BY <3>1, <3>2, <3>3
  <2> HIDE DEF G
  <2> QED
    BY <2>2, <2>3, <2>5, <2>6
<1>5. Q.marked \in [Line -> [BOOLEAN -> Nat]]
  <2>1. \A l \in Line, o \in BOOLEAN : Q.marked[l][o] \in Nat
    BY <1>4
  <2>2. Q.marked = [l \in Line |-> [o \in BOOLEAN |-> Q.marked[l][o]]]
    <3> HIDE DEF marks
    <3> QED
      BY <1>1
  <2> HIDE DEF Q
  <2>3. [l \in Line |-> [o \in BOOLEAN |-> Q.marked[l][o]]] \in [Line -> [BOOLEAN -> Nat]]
    BY <2>1
  <2> QED
    BY <2>2, <2>3, Zenon
<1>6. Q = [rows |-> Q.rows, marked |-> Q.marked, send |-> Q.send]
  BY <1>1
<1>7. \A s \in Known(Q) : Q.rows[s].id # 0 => Q.rows[s].line = place[Q.rows[s].id]
  BY <1>2 DEF Well
<1>8. Q.send \in Seq(Commands)
  BY <1>1 DEF Well
<1>9. Well(Q, place)
  <2> HIDE DEF Q
  <2> QED
    BY <1>2, <1>3, <1>4, <1>5, <1>6, <1>7, <1>8 DEF Well
<1> QED
  BY <1>1, <1>2, <1>9

(* Rows that stay without their breakpoint.                                   *)
LEMMA RowsCleared ==
  ASSUME NEW place, NEW P, Well(P, place), NEW ss \in SUBSET Known(P)
  PROVE  LET Q == BreakClear(P, ss) IN
         /\ Well(Q, place) /\ Q.send = P.send /\ Known(Q) = Known(P)
         /\ \A s \in Known(Q) :
              /\ s \notin ss => Q.rows[s] = P.rows[s]
              /\ s \in ss => Q.rows[s].id = 0
              /\ Q.rows[s].line = P.rows[s].line /\ Q.rows[s].stage = P.rows[s].stage
<1> DEFINE Q == BreakClear(P, ss)
           clear(s) == [P.rows[s] EXCEPT !.id = 0, !.temp = @ /\ ~P.rows[s].watch]
           new == [s \in Known(P) |-> IF s \in ss THEN clear(s) ELSE P.rows[s]]
<1>1. /\ Q = [rows |-> new, marked |-> P.marked, send |-> P.send]
      /\ Q.send = P.send /\ Q.marked = P.marked /\ Q.rows = new
  <2>1. Q = [P EXCEPT !.rows = new]
    BY DEF BreakClear
  <2> HIDE DEF new, Q
  <2> QED
    BY <2>1 DEF Well
<1>2. ASSUME NEW s \in Known(P)
      PROVE  /\ clear(s) \in Row /\ clear(s).id = 0 /\ clear(s).line = P.rows[s].line
             /\ clear(s).on = P.rows[s].on /\ clear(s).stage = P.rows[s].stage
  <2> DEFINE row == P.rows[s]
             temp == row.temp /\ ~row.watch
  <2>1. row \in Row /\ temp \in BOOLEAN
    BY DEF Well
  <2>2. clear(s) = [[row EXCEPT !.id = 0] EXCEPT !.temp = temp]
    OBVIOUS
  <2> HIDE DEF row, temp, clear
  <2>3. clear(s) = [id |-> 0, at |-> row.at, line |-> row.line, on |-> row.on, temp |-> temp,
                    watch |-> row.watch, stage |-> row.stage]
    BY <2>1, <2>2 DEF Row
  <2> QED
    BY <2>1, <2>3, BreaksAssumption DEF Row, row
<1> HIDE DEF clear
<1>3. /\ Known(Q) = Known(P)
      /\ \A s \in Known(Q) : Q.rows[s] = IF s \in ss THEN clear(s) ELSE P.rows[s]
      /\ Q.rows \in [Known(Q) -> Row]
  BY <1>1, <1>2 DEF Known, Well
<1>4. ASSUME NEW l \in Line, NEW o \in BOOLEAN
      PROVE  AtLine(Q, l, o) = AtLine(P, l, o)
  BY <1>2, <1>3 DEF AtLine
<1>5. Q = [rows |-> Q.rows, marked |-> Q.marked, send |-> Q.send]
  BY <1>1
<1>6. \A s \in Known(Q) : Q.rows[s].id # 0 => Q.rows[s].line = place[Q.rows[s].id]
  BY <1>2, <1>3 DEF Well
<1>7. Well(Q, place)
  <2> HIDE DEF Q
  <2> QED
    BY <1>1, <1>3, <1>4, <1>5, <1>6 DEF Well
<1> QED
  BY <1>1, <1>2, <1>3, <1>7

(* What GDB has no more: rows stay as they were, lose their breakpoint or go. *)
LEMMA RowsGone ==
  ASSUME NEW place, NEW P, Well(P, place), NEW ss \in SUBSET Known(P), NEW force \in BOOLEAN
  PROVE  LET Q == Gone(P, ss, force) IN
         /\ Well(Q, place) /\ Q.send = P.send
         /\ Known(Q) \subseteq Known(P) /\ Known(P) \ ss \subseteq Known(Q)
         /\ \A s \in Known(Q) : IF s \in ss THEN Q.rows[s].id = 0 ELSE Q.rows[s] = P.rows[s]
<1> DEFINE going == {s \in ss : force \/ P.rows[s].stage \in Transient}
           C == BreakClear(P, ss \ going)
           Q == BreakRemove(C, going)
<1>1. Gone(P, ss, force) = Q
  BY DEF Gone
<1>2. /\ Well(C, place) /\ C.send = P.send /\ Known(C) = Known(P)
      /\ \A s \in Known(C) : /\ s \notin ss \ going => C.rows[s] = P.rows[s]
                             /\ s \in ss \ going => C.rows[s].id = 0
  <2>1. ss \ going \in SUBSET Known(P)
    OBVIOUS
  <2> HIDE DEF going
  <2> QED
    BY <2>1, RowsCleared
<1>3. /\ Well(Q, place) /\ Q.send = C.send /\ Known(Q) = Known(C) \ going
      /\ \A s \in Known(Q) : Q.rows[s] = C.rows[s]
  <2>1. going \in SUBSET Known(C)
    BY <1>2
  <2> HIDE DEF going, C
  <2> QED
    BY <1>2, <2>1, RowsRemoved
<1>4. going \subseteq ss
  OBVIOUS
<1> HIDE DEF going, C, Q
<1> QED
  BY <1>1, <1>2, <1>3, <1>4

(* The end of a session.                                                      *)
LEMMA RowsAfterSession ==
  ASSUME NEW place, NEW P, Well(P, place)
  PROVE  LET Q == BreaksClear(P) IN
         Well(Q, place) /\ \A s \in Known(Q) : Q.rows[s].id = 0
<1> DEFINE kept == {s \in Known(P) : P.rows[s].stage = "persist"}
           C == BreakClear(P, kept)
           Q == BreakRemove(C, Known(P) \ kept)
<1>1. BreaksClear(P) = Q
  BY DEF BreaksClear
<1>2. kept \in SUBSET Known(P)
  OBVIOUS
<1> HIDE DEF kept
<1>3. /\ Well(C, place) /\ C.send = P.send /\ Known(C) = Known(P)
      /\ \A s \in Known(C) : s \in kept => C.rows[s].id = 0
  BY <1>2, RowsCleared
<1>4. /\ Well(Q, place) /\ Known(Q) = Known(C) \ (Known(P) \ kept)
      /\ \A s \in Known(Q) : Q.rows[s] = C.rows[s]
  <2>1. Known(P) \ kept \in SUBSET Known(C)
    BY <1>3
  <2> HIDE DEF C
  <2> QED
    BY <1>3, <2>1, RowsRemoved
<1> HIDE DEF C, Q
<1> QED
  BY <1>1, <1>2, <1>3, <1>4

(* A number no row has yet.                                                   *)
LEMMA ScidIsNew ==
  ASSUME NEW P, IsFiniteSet(Known(P))
  PROVE  NewScid(P) \in Scid \ Known(P)
<1> DEFINE k == Cardinality(Known(P))
<1>1. k \in Nat
  BY FS_CardinalityType
<1>2. \E s \in 1..(k + 1) : s \notin Known(P)
  <2> SUFFICES ASSUME 1..(k + 1) \subseteq Known(P)
               PROVE  FALSE
    OBVIOUS
  <2> HIDE DEF k
  <2>1. Cardinality(1..(k + 1)) = k + 1
    BY <1>1, FS_Interval
  <2>2. Cardinality(1..(k + 1)) <= Cardinality(Known(P))
    BY FS_Subset
  <2> QED
    BY <1>1, <2>1, <2>2 DEF k
<1> HIDE DEF k
<1>3. NewScid(P) \in 1..(k + 1) /\ NewScid(P) \notin Known(P)
  BY <1>2 DEF NewScid, k
<1> QED
  BY <1>1, <1>3 DEF Scid

(* The marker a row has goes.                                                 *)
LEMMA Unmarked ==
  ASSUME NEW place, NEW P, Well(P, place), NEW s \in Known(P)
  PROVE  LET U == BreakMark(P, s, -1) IN
         /\ U = [rows |-> P.rows, marked |-> U.marked, send |-> P.send]
         /\ U.marked \in [Line -> [BOOLEAN -> Nat]]
         /\ \A l \in Line, o \in BOOLEAN :
              U.marked[l][o] = IF P.rows[s].line = l /\ P.rows[s].on = o
                               THEN P.marked[l][o] - 1 ELSE P.marked[l][o]
<1> DEFINE line == P.rows[s].line
           on == P.rows[s].on
           U == BreakMark(P, s, -1)
<1>1. line \in Where /\ on \in BOOLEAN /\ Shaped(P) /\ -1 \in {1, -1}
  BY DEF Well, Row, Shaped
<1>2. U = Mark(P, line, on, -1)
  BY DEF BreakMark
<1>3. ASSUME line \in Line
      PROVE  P.marked[line][on] >= 1
  <2>1. /\ IsFiniteSet(AtLine(P, line, on)) /\ s \in AtLine(P, line, on)
        /\ P.marked[line][on] = Cardinality(AtLine(P, line, on))
    <3>1. s \in AtLine(P, line, on)
      BY DEF AtLine
    <3> HIDE DEF line, on
    <3>2. IsFiniteSet(AtLine(P, line, on))
      BY AtLineFinite DEF Well
    <3> QED
      BY <1>1, <1>3, <3>1, <3>2 DEF Well
  <2>2. Cardinality(AtLine(P, line, on)) # 0 /\ Cardinality(AtLine(P, line, on)) \in Nat
    BY <2>1, FS_EmptySet, FS_CardinalityType
  <2> QED
    BY <2>1, <2>2
<1> HIDE DEF line, on, U
<1>4. /\ U = [rows |-> P.rows, marked |-> U.marked, send |-> P.send]
      /\ U.marked \in [Line -> [BOOLEAN -> Nat]]
      /\ \A l \in Line, o \in BOOLEAN :
           U.marked[l][o] = IF l = line /\ o = on
                            THEN IF P.marked[l][o] + -1 < 0 THEN 0 ELSE P.marked[l][o] + -1
                            ELSE P.marked[l][o]
  BY <1>1, <1>2, MarkIs
<1>5. ASSUME NEW l \in Line, NEW o \in BOOLEAN
      PROVE  U.marked[l][o] = IF line = l /\ on = o THEN P.marked[l][o] - 1 ELSE P.marked[l][o]
  <2>1. P.marked[l][o] \in Nat
    BY <1>1 DEF Shaped
  <2>2. CASE l = line /\ o = on
    BY <1>3, <1>4, <2>1, <2>2
  <2>3. CASE ~(l = line /\ o = on)
    BY <1>4, <2>3
  <2> QED
    BY <2>2, <2>3
<1> QED
  BY <1>4, <1>5 DEF line, on, U

(* The marker a row is to have comes.                                         *)
LEMMA RowMarked ==
  ASSUME NEW place, NEW P, Well(P, place), NEW s \in Scid, NEW row \in Row,
         row.id # 0 => row.line = place[row.id],
         NEW U, Shaped(U), U.rows = P.rows, U.send = P.send,
         \A l \in Line, o \in BOOLEAN :
           U.marked[l][o] = IF s \in Known(P) /\ P.rows[s].line = l /\ P.rows[s].on = o
                            THEN P.marked[l][o] - 1 ELSE P.marked[l][o]
  PROVE  LET Q == Mark([U EXCEPT !.rows = With(@, s, row)], row.line, row.on, 1) IN
         /\ Well(Q, place) /\ Q.send = P.send /\ Known(Q) = Known(P) \cup {s}
         /\ \A t \in Known(Q) : Q.rows[t] = IF t = s THEN row ELSE P.rows[t]
<1> DEFINE V == [U EXCEPT !.rows = With(U.rows, s, row)]
           Q == Mark(V, row.line, row.on, 1)
<1>1. /\ V = [rows |-> With(P.rows, s, row), marked |-> U.marked, send |-> P.send]
      /\ V.rows = With(P.rows, s, row) /\ V.marked = U.marked /\ V.send = P.send
      /\ Shaped(V)
  BY DEF Shaped
<1> HIDE DEF V
<1>2. row.line \in Where /\ row.on \in BOOLEAN /\ 1 \in {1, -1}
  BY DEF Row
<1>3. /\ Q = [rows |-> V.rows, marked |-> Q.marked, send |-> V.send]
      /\ Q.marked \in [Line -> [BOOLEAN -> Nat]]
      /\ \A l \in Line, o \in BOOLEAN :
           Q.marked[l][o] = IF l = row.line /\ o = row.on
                            THEN IF V.marked[l][o] + 1 < 0 THEN 0 ELSE V.marked[l][o] + 1
                            ELSE V.marked[l][o]
  BY <1>1, <1>2, MarkIs
<1> HIDE DEF Q
<1>4. /\ Q.rows = With(P.rows, s, row) /\ Q.send = P.send /\ Shaped(Q)
      /\ Q.send \in Seq(Commands)
  BY <1>1, <1>3 DEF Shaped, Well
<1>5. ASSUME NEW l \in Line, NEW o \in BOOLEAN
      PROVE  Q.marked[l][o] =
               (IF s \in Known(P) /\ P.rows[s].line = l /\ P.rows[s].on = o
                THEN P.marked[l][o] - 1 ELSE P.marked[l][o])
               + (IF row.line = l /\ row.on = o THEN 1 ELSE 0)
  <2>1. U.marked[l][o] \in Nat /\ P.marked[l][o] \in Nat
    BY DEF Shaped, Well
  <2>2. Q.marked[l][o] = IF row.line = l /\ row.on = o THEN U.marked[l][o] + 1 ELSE U.marked[l][o]
    BY <1>1, <1>3, <2>1
  <2> QED
    BY <2>1, <2>2
<1>6. Well(Q, place) /\ Known(Q) = Known(P) \cup {s}
  BY <1>4, <1>5, RowSet
<1>7. \A t \in Known(Q) : Q.rows[t] = IF t = s THEN row ELSE P.rows[t]
  BY <1>4, <1>6 DEF With, Known
<1> QED
  BY <1>4, <1>6, <1>7 DEF V, Q

(* break_enable() changes the state of a row, and its marker.                 *)
LEMMA StateSet ==
  ASSUME NEW place, NEW P, Well(P, place), NEW s \in Known(P), NEW on \in BOOLEAN
  PROVE  LET Q == BreakEnable(P, s, on) IN
         /\ Well(Q, place) /\ Q.send = P.send /\ Known(Q) = Known(P)
         /\ \A t \in Known(Q) : Q.rows[t].id = P.rows[t].id /\ Q.rows[t].line = P.rows[t].line
<1> DEFINE old == P.rows[s]
           row == [old EXCEPT !.on = on]
           U == BreakMark(P, s, -1)
           V == [U EXCEPT !.rows = With(@, s, row)]
           Q == Mark(V, row.line, row.on, 1)
<1>1. /\ old \in Row /\ s \in Scid
      /\ old.id # 0 => old.line = place[old.id]
      /\ P.rows \in [Known(P) -> Row]
  BY DEF Well
<1> HIDE DEF old
<1>2. row \in Row /\ row.id = old.id /\ row.line = old.line /\ row.on = on
  <2>1. row = [id |-> old.id, at |-> old.at, line |-> old.line, on |-> on, temp |-> old.temp,
               watch |-> old.watch, stage |-> old.stage]
    BY <1>1 DEF Row
  <2> HIDE DEF row
  <2> QED
    BY <1>1, <2>1 DEF Row
<1>3. /\ U = [rows |-> P.rows, marked |-> U.marked, send |-> P.send]
      /\ U.marked \in [Line -> [BOOLEAN -> Nat]]
      /\ \A l \in Line, o \in BOOLEAN :
           U.marked[l][o] = IF P.rows[s].line = l /\ P.rows[s].on = o
                            THEN P.marked[l][o] - 1 ELSE P.marked[l][o]
  BY Unmarked
<1> HIDE DEF row, U
<1>4. /\ Shaped(U) /\ U.rows = P.rows /\ U.send = P.send
      /\ \A l \in Line, o \in BOOLEAN :
           U.marked[l][o] = IF s \in Known(P) /\ P.rows[s].line = l /\ P.rows[s].on = o
                            THEN P.marked[l][o] - 1 ELSE P.marked[l][o]
  BY <1>3 DEF Shaped
<1>5. /\ Well(Q, place) /\ Q.send = P.send /\ Known(Q) = Known(P) \cup {s}
      /\ \A t \in Known(Q) : Q.rows[t] = IF t = s THEN row ELSE P.rows[t]
  <2>1. row.id # 0 => row.line = place[row.id]
    BY <1>1, <1>2
  <2> QED
    BY <1>1, <1>2, <1>4, <2>1, RowMarked
<1>6. BreakEnable(P, s, on) = Q
  <2>1. /\ With(P.rows, s, row) = [P.rows EXCEPT ![s] = row]
        /\ [P.rows EXCEPT ![s] = row][s] = row
    BY <1>1 DEF With, Known
  <2>2. [U EXCEPT !.rows[s].on = on] = V
    <3>1. [U EXCEPT !.rows[s].on = on] = [U EXCEPT !.rows = [U.rows EXCEPT ![s] = [U.rows[s] EXCEPT !.on = on]]]
      OBVIOUS
    <3> QED
      BY <1>4, <2>1, <3>1 DEF row, old
  <2>3. V.rows[s] = row
    <3>1. V = [rows |-> With(P.rows, s, row), marked |-> U.marked, send |-> P.send]
      BY <1>3, <1>4
    <3> QED
      BY <2>1, <3>1
  <2>4. BreakEnable(P, s, on) = Mark(V, V.rows[s].line, V.rows[s].on, 1)
    <3>1. BreakEnable(P, s, on) = BreakMark([U EXCEPT !.rows[s].on = on], s, 1)
      BY DEF BreakEnable, U
    <3> HIDE DEF V
    <3> QED
      BY <2>2, <3>1 DEF BreakMark
  <2> HIDE DEF V
  <2> QED
    BY <2>3, <2>4
<1> HIDE DEF Q
<1> QED
  BY <1>1, <1>2, <1>5, <1>6 DEF old

(* break_node_parse() of what GDB tells of a breakpoint.                      *)
LEMMA NodeParsed ==
  ASSUME NEW place, NEW P, Well(P, place), NEW stage \in Stages,
         NEW num \in 1..MaxBreaks, NEW bp \in Break, bp.line = place[num]
  PROVE  LET Q == BreakNodeParse(P, stage, num, bp) IN
         /\ Well(Q, place) /\ Q.send = P.send /\ Known(P) \subseteq Known(Q)
         /\ \A s \in Known(P) : /\ Q.rows[s].id = P.rows[s].id
                                /\ Q.rows[s].line = P.rows[s].line
         /\ \A s \in Known(Q) \ Known(P) : Q.rows[s].id = num
<1> DEFINE known == Named(P, num) # {}
           s == IF known THEN CHOOSE t \in Named(P, num) : TRUE ELSE NewScid(P)
           at == IF known THEN P.rows[s].at ELSE bp.at
           kept == IF known THEN P.rows[s].stage ELSE stage
           watch == IF known THEN P.rows[s].watch ELSE bp.watch
           U == IF known THEN BreakMark(P, s, -1) ELSE P
           row == [id |-> num, at |-> at, line |-> bp.line, on |-> bp.on, temp |-> bp.temp,
                   watch |-> watch, stage |-> kept]
           Q == Mark([U EXCEPT !.rows = With(@, s, row)], row.line, row.on, 1)
<1>1. BreakNodeParse(P, stage, num, bp) = Q
  BY DEF BreakNodeParse
<1>2. /\ num # 0 /\ num \in 0..MaxBreaks
      /\ bp.at = bp.line /\ (bp.watch <=> bp.line = 0) /\ bp.line \in Where
      /\ bp.on \in BOOLEAN /\ bp.temp \in BOOLEAN /\ bp.watch \in BOOLEAN
  BY DEF Break
<1>3. /\ known => s \in Known(P) /\ P.rows[s].id = num /\ P.rows[s] \in Row /\ P.rows[s].line = bp.line
      /\ ~known => s \in Scid \ Known(P)
      /\ s \in Scid
  <2>1. CASE known
    <3>1. s \in Named(P, num)
      BY <2>1
    <3> HIDE DEF s
    <3> QED
      BY <1>2, <2>1, <3>1 DEF Named, Well
  <2>2. CASE ~known
    BY <2>2, ScidIsNew DEF Well
  <2> QED
    BY <2>1, <2>2
<1> HIDE DEF known, s
<1>4. /\ row \in Row /\ row.id = num /\ row.line = bp.line /\ row.on = bp.on
      /\ row.line = place[row.id]
  <2>1. at = bp.line /\ watch \in BOOLEAN /\ (watch <=> bp.line = 0) /\ kept \in Stages
    BY <1>2, <1>3 DEF Row
  <2> HIDE DEF at, watch, kept
  <2> QED
    BY <1>2, <2>1 DEF Row
<1>5. /\ Shaped(U) /\ U.rows = P.rows /\ U.send = P.send
      /\ \A l \in Line, o \in BOOLEAN :
           U.marked[l][o] = IF s \in Known(P) /\ P.rows[s].line = l /\ P.rows[s].on = o
                            THEN P.marked[l][o] - 1 ELSE P.marked[l][o]
  <2>1. CASE known
    <3>1. s \in Known(P)
      BY <1>3, <2>1
    <3> DEFINE V == BreakMark(P, s, -1)
    <3>2. /\ V = [rows |-> P.rows, marked |-> V.marked, send |-> P.send]
          /\ V.marked \in [Line -> [BOOLEAN -> Nat]]
          /\ \A l \in Line, o \in BOOLEAN :
              V.marked[l][o] = IF P.rows[s].line = l /\ P.rows[s].on = o
                                THEN P.marked[l][o] - 1 ELSE P.marked[l][o]
      BY <3>1, Unmarked
    <3>3. U = V
      BY <2>1
    <3> HIDE DEF U, V
    <3> QED
      BY <3>1, <3>2, <3>3 DEF Shaped
  <2>2. CASE ~known
    BY <1>3, <2>2 DEF Shaped, Well
  <2> QED
    BY <2>1, <2>2
<1> HIDE DEF row, U
<1>6. /\ Well(Q, place) /\ Q.send = P.send /\ Known(Q) = Known(P) \cup {s}
      /\ \A t \in Known(Q) : Q.rows[t] = IF t = s THEN row ELSE P.rows[t]
  BY <1>3, <1>4, <1>5, RowMarked
<1> HIDE DEF Q
<1> QED
  BY <1>1, <1>3, <1>4, <1>6

(* Commands that follow from what was told: they name no row.                 *)
Quiet(cs) ==
  /\ cs \in Seq(Commands)
  /\ \A i \in 1..Len(cs) : cs[i].cmd \in {"disable", "info", "continue", "list"} /\ cs[i].token = 0

LEMMA QuietOne ==
  ASSUME NEW cmd \in {"disable", "info", "continue", "list"}, NEW num \in Nat
  PROVE  Quiet(<<Command(cmd, 0, num, 0)>>)
<1> DEFINE c == Command(cmd, 0, num, 0)
<1>1. c \in Commands /\ c.cmd = cmd /\ c.token = 0
  <2>1. cmd \in Asked
    BY Zenon DEF Asked
  <2>2. 0 \in Arg \cup {0}
    OBVIOUS
  <2> QED
    BY <2>1, <2>2 DEF Command, Commands
<1> HIDE DEF c
<1>2. <<c>> \in Seq(Commands) /\ Len(<<c>>) = 1 /\ <<c>>[1] = c
  BY <1>1
<1>3. \A i \in 1..Len(<<c>>) : i = 1
  BY <1>2
<1>4. Quiet(<<c>>)
  BY <1>1, <1>2, <1>3 DEF Quiet
<1> QED
  BY <1>4 DEF c

LEMMA QuietTwo ==
  ASSUME NEW a, Quiet(a), NEW b, Quiet(b)
  PROVE  Quiet(a \o b)
<1>1. /\ a \in Seq(Commands) /\ b \in Seq(Commands) /\ a \o b \in Seq(Commands)
      /\ Len(a \o b) = Len(a) + Len(b) /\ Len(a) \in Nat /\ Len(b) \in Nat
  BY DEF Quiet
<1>2. ASSUME NEW i \in 1..Len(a \o b)
      PROVE  \/ i \in 1..Len(a) /\ (a \o b)[i] = a[i]
             \/ i - Len(a) \in 1..Len(b) /\ (a \o b)[i] = b[i - Len(a)]
  BY <1>1
<1> QED
  BY <1>1, <1>2 DEF Quiet

(* break_node_parse() of a row that was inserted where it is.                 *)
LEMMA NodeApplied ==
  ASSUME NEW place, NEW P, Well(P, place), P.send = <<>>,
         NEW s \in Known(P), NEW num \in 1..MaxBreaks, NEW bp \in Break,
         bp.line = P.rows[s].line, bp.line = place[num]
  PROVE  LET Q == BreakNodeApplied(P, s, num, bp) IN
         /\ Well(Q, place) /\ Quiet(Q.send) /\ Known(Q) = Known(P)
         /\ \A t \in Known(Q) : /\ Q.rows[t].line = P.rows[t].line
                                /\ Q.rows[t].id = IF t = s THEN num ELSE P.rows[t].id
<1> DEFINE old == P.rows[s]
           row == [id |-> num, at |-> old.at, line |-> bp.line, on |-> old.on, temp |-> bp.temp,
                   watch |-> old.watch, stage |-> old.stage]
           V == [rows |-> With(P.rows, s, row), marked |-> P.marked, send |-> P.send]
           Q == BreakNodeApplied(P, s, num, bp)
<1>1. /\ old \in Row /\ s \in Scid /\ num # 0 /\ num \in 0..MaxBreaks
      /\ P.rows \in [Known(P) -> Row]
      /\ P = [rows |-> P.rows, marked |-> P.marked, send |-> P.send]
  BY DEF Well
<1>2. /\ row \in Row /\ row.id = num /\ row.line = old.line /\ row.on = old.on
      /\ row.id # 0 => row.line = place[row.id]
  BY <1>1 DEF Row, Break
<1>3. Q = BreakIterApplied(V, s)
  <2>1. [P EXCEPT !.rows[s].id = num, !.rows[s].line = bp.line, !.rows[s].temp = bp.temp] = V
    <3> DEFINE r1 == [P.rows EXCEPT ![s] = [old EXCEPT !.id = num]]
               r2 == [r1 EXCEPT ![s] = [r1[s] EXCEPT !.line = bp.line]]
               r3 == [r2 EXCEPT ![s] = [r2[s] EXCEPT !.temp = bp.temp]]
               P1 == [P EXCEPT !.rows[s].id = num]
               P2 == [P1 EXCEPT !.rows[s].line = bp.line]
               P3 == [P2 EXCEPT !.rows[s].temp = bp.temp]
    <3>1. P1 = [rows |-> r1, marked |-> P.marked, send |-> P.send]
      BY <1>1
    <3>2. P2 = [rows |-> r2, marked |-> P.marked, send |-> P.send]
      <4> HIDE DEF P1, r1
      <4> QED
        BY <3>1
    <3>3. P3 = [rows |-> r3, marked |-> P.marked, send |-> P.send]
      <4> HIDE DEF P2, r2
      <4> QED
        BY <3>2
    <3>4. r3 = With(P.rows, s, row)
      <4>1. /\ DOMAIN P.rows = Known(P) /\ s \in Known(P)
            /\ old = [id |-> old.id, at |-> old.at, line |-> old.line, on |-> old.on,
                      temp |-> old.temp, watch |-> old.watch, stage |-> old.stage]
        BY <1>1 DEF Row, Known
      <4>2. r1 = [t \in Known(P) |-> IF t = s THEN [old EXCEPT !.id = num] ELSE P.rows[t]]
        BY <1>1, <4>1
      <4>3. r2 = [t \in Known(P) |-> IF t = s THEN [[old EXCEPT !.id = num] EXCEPT !.line = bp.line] ELSE P.rows[t]]
        BY <1>1, <4>1, <4>2
      <4>4. r3 = [t \in Known(P) |-> IF t = s THEN [[[old EXCEPT !.id = num] EXCEPT !.line = bp.line]
                                                    EXCEPT !.temp = bp.temp] ELSE P.rows[t]]
        BY <1>1, <4>1, <4>3
      <4>5. [[[old EXCEPT !.id = num] EXCEPT !.line = bp.line] EXCEPT !.temp = bp.temp] = row
        <5> DEFINE o1 == [old EXCEPT !.id = num]
                   o2 == [o1 EXCEPT !.line = bp.line]
        <5> HIDE DEF old
        <5>1. o1 = [id |-> num, at |-> old.at, line |-> old.line, on |-> old.on,
                    temp |-> old.temp, watch |-> old.watch, stage |-> old.stage]
          BY <4>1
        <5> HIDE DEF o1
        <5>2. o2 = [id |-> num, at |-> old.at, line |-> bp.line, on |-> old.on,
                    temp |-> old.temp, watch |-> old.watch, stage |-> old.stage]
          BY <5>1
        <5> HIDE DEF o2
        <5>3. [o2 EXCEPT !.temp = bp.temp] = row
          BY <5>2
        <5> QED
          BY <5>3 DEF o1, o2
      <4>6. With(P.rows, s, row) = [t \in Known(P) |-> IF t = s THEN row ELSE P.rows[t]]
        BY <4>1 DEF With
      <4> HIDE DEF r3, row, old
      <4> QED
        BY <4>4, <4>5, <4>6, Zenon
    <3>5. [P EXCEPT !.rows[s].id = num, !.rows[s].line = bp.line, !.rows[s].temp = bp.temp] = P3
      OBVIOUS
    <3> HIDE DEF r3, P3
    <3> QED
      BY <3>3, <3>4, <3>5
  <2> HIDE DEF V
  <2> QED
    BY <2>1 DEF BreakNodeApplied
<1>4. V.rows = With(P.rows, s, row) /\ V.marked = P.marked /\ V.send = <<>>
      /\ V = [rows |-> V.rows, marked |-> V.marked, send |-> V.send]
  OBVIOUS
<1> HIDE DEF V, Q, row
<1>5. \E cs : Quiet(cs) /\ Q = [rows |-> V.rows, marked |-> V.marked, send |-> cs]
  <2>1. Quiet(<<>>)
    BY DEF Quiet
  <2>2. V.rows[s] = row
    BY <1>4 DEF With
  <2>3. CASE V.rows[s].watch /\ ~V.rows[s].on
    <3> DEFINE cs == <<Command("disable", 0, num, 0)>>
    <3>1. Quiet(cs) /\ <<>> \o cs = cs
      BY <1>1, QuietOne DEF Quiet
    <3>2. Q = [V EXCEPT !.send = V.send \o cs]
      BY <1>2, <1>3, <2>2, <2>3 DEF BreakIterApplied, Send
    <3> HIDE DEF cs
    <3> QED
      BY <1>4, <3>1, <3>2
  <2>4. CASE ~(V.rows[s].watch /\ ~V.rows[s].on)
    BY <1>3, <1>4, <2>1, <2>4 DEF BreakIterApplied
  <2> QED
    BY <2>3, <2>4
<1>6. /\ Shaped(Q) /\ Q.rows = With(P.rows, s, row) /\ Q.marked = P.marked /\ Quiet(Q.send)
  BY <1>4, <1>5 DEF Shaped, Well
<1>7. Q.send \in Seq(Commands)
  BY <1>6 DEF Quiet
<1>8. ASSUME NEW l \in Line, NEW o \in BOOLEAN
      PROVE  Q.marked[l][o] =
             (IF s \in Known(P) /\ P.rows[s].line = l /\ P.rows[s].on = o
              THEN P.marked[l][o] - 1 ELSE P.marked[l][o])
             + (IF row.line = l /\ row.on = o THEN 1 ELSE 0)
  <2>1. P.marked[l][o] \in Nat
    BY DEF Well
  <2> QED
    BY <1>2, <1>6, <2>1
<1>9. Well(Q, place) /\ Known(Q) = Known(P) \cup {s}
  BY <1>1, <1>2, <1>6, <1>7, <1>8, RowSet
<1>10. \A t \in Known(Q) : Q.rows[t] = IF t = s THEN row ELSE P.rows[t]
  BY <1>6, <1>9 DEF With, Known
<1> QED
  BY <1>2, <1>6, <1>9, <1>10 DEF Q

(* Induction up to a bound, and the least of a set of numbers.                *)
LEMMA Least ==
  ASSUME NEW R \in SUBSET Nat, R # {}
  PROVE  \E m \in R : \A y \in R : m <= y
<1> DEFINE Less == {p \in Nat \X Nat : p[1] < p[2]}
<1>1. IsWellFoundedOn(Less, Nat)
  BY NatLessThanWellFounded DEF OpToRel
<1>2. PICK m \in R : \A y \in R : ~(<<y, m>> \in Less)
  <2> HIDE DEF Less
  <2> QED
    BY <1>1, WFMin
<1>3. \A y \in R : ~(y < m)
  BY <1>2
<1> QED
  BY <1>2, <1>3

LEMMA UpTo ==
  ASSUME NEW N \in Nat, NEW T \in SUBSET (0..N), 0 \in T,
         \A n \in T : n < N => n + 1 \in T
  PROVE  T = 0..N
<1> SUFFICES ASSUME (0..N) \ T # {}
             PROVE  FALSE
  OBVIOUS
<1>1. PICK m \in (0..N) \ T : \A y \in (0..N) \ T : m <= y
  <2>1. (0..N) \ T \in SUBSET Nat
    OBVIOUS
  <2> QED
    BY <2>1, Least
<1>2. m # 0 /\ m - 1 \in 0..N /\ ~(m <= m - 1)
  BY <1>1
<1>3. m - 1 \in T /\ m - 1 < N /\ (m - 1) + 1 = m
  BY <1>1, <1>2
<1> QED
  BY <1>1, <1>3

(* InOrder() has each of the rows once.                                       *)
LEMMA OrderOf ==
  ASSUME NEW S \in SUBSET Nat, IsFiniteSet(S)
  PROVE  /\ InOrder(S) \in Seq(S) /\ Len(InOrder(S)) = Cardinality(S)
         /\ \A i, j \in 1..Cardinality(S) : InOrder(S)[i] = InOrder(S)[j] => i = j
<1> DEFINE c == Cardinality(S)
           below(s) == {t \in S : t < s}
           rank(s) == Cardinality(below(s))
<1>1. c \in Nat
  BY FS_CardinalityType
<1>2. ASSUME NEW i \in 1..c
      PROVE  \E s \in S : rank(s) = i - 1
  <2> DEFINE N == c - 1
             T == {k \in 0..N : \E s \in S : rank(s) = k}
  <2>1. N \in Nat /\ S # {}
    BY <1>1, FS_EmptySet
  <2>2. 0 \in T
    <3>1. PICK m \in S : \A y \in S : m <= y
      BY <2>1, Least
    <3>2. \A t \in S : ~(t < m)
      BY <3>1
    <3>3. below(m) = {}
      BY <3>2
    <3>4. rank(m) = 0
      BY <3>3, FS_EmptySet
    <3> HIDE DEF rank
    <3> QED
      BY <2>1, <3>1, <3>4
  <2>3. ASSUME NEW k \in T, k < N
        PROVE  k + 1 \in T
    <3>1. PICK s \in S : rank(s) = k
      OBVIOUS
    <3> DEFINE A == below(s) \cup {s}
    <3>2. IsFiniteSet(A) /\ Cardinality(A) = k + 1
      <4>1. IsFiniteSet(below(s)) /\ s \notin below(s)
        BY FS_Subset
      <4> QED
        BY <3>1, <4>1, FS_AddElement
    <3>3. S \ A # {}
      <4> SUFFICES ASSUME S \subseteq A PROVE FALSE
        OBVIOUS
      <4>1. S = A
        OBVIOUS
      <4> HIDE DEF A
      <4> QED
        BY <2>3, <3>2, <4>1
    <3>4. PICK m \in S \ A : \A y \in S \ A : m <= y
      <4>1. S \ A \in SUBSET Nat
        OBVIOUS
      <4> HIDE DEF A
      <4> QED
        BY <3>3, <4>1, Least
    <3>5. below(m) = A
      <4>1. m \in Nat /\ s \in Nat /\ m # s /\ ~(m < s)
        BY <3>4
      <4>2. s < m
        BY <4>1
      <4>3. \A t \in S : t < m <=> t < s \/ t = s
        <5> SUFFICES ASSUME NEW t \in S PROVE t < m <=> t < s \/ t = s
          OBVIOUS
        <5>1. t \in Nat /\ (t \notin A => m <= t)
          BY <3>4
        <5>2. t \in A <=> t < s \/ t = s
          OBVIOUS
        <5> HIDE DEF A
        <5> QED
          BY <4>1, <4>2, <5>1, <5>2
      <4> QED
        BY <4>3
    <3>6. rank(m) = k + 1
      BY <3>2, <3>5
    <3>7. k + 1 \in 0..N
      BY <2>1, <2>3
    <3> HIDE DEF rank
    <3> QED
      BY <3>4, <3>6, <3>7
  <2>4. T = 0..N
    <3>1. T \in SUBSET (0..N)
      OBVIOUS
    <3> HIDE DEF T, N
    <3> QED
      BY <2>1, <2>2, <2>3, <3>1, UpTo
  <2>5. i - 1 \in T
    BY <1>1, <2>4
  <2> QED
    BY <2>5
<1> HIDE DEF c
<1>3. InOrder(S) = [i \in 1..c |-> CHOOSE s \in S : rank(s) = i - 1]
  BY DEF InOrder, c
<1> HIDE DEF rank
<1>4. \A i \in 1..c : InOrder(S)[i] \in S /\ rank(InOrder(S)[i]) = i - 1
  BY <1>2, <1>3
<1>5. InOrder(S) \in [1..c -> S]
  BY <1>3, <1>4
<1> QED
  BY <1>1, <1>4, <1>5 DEF c

(* break_node_parse() of a list of breakpoints, in their order.               *)
LEMMA ListParsed ==
  ASSUME NEW place, NEW P, Well(P, place),
         NEW breaks \in Breaks, \A n \in DOMAIN breaks : breaks[n].line = place[n]
  PROVE  LET Q == Parsed(P, breaks)[MaxBreaks] IN
         /\ Well(Q, place) /\ Q.send = P.send /\ Known(P) \subseteq Known(Q)
         /\ \A s \in Known(P) : /\ Q.rows[s].id = P.rows[s].id
                                /\ Q.rows[s].line = P.rows[s].line
         /\ \A s \in Known(Q) \ Known(P) : Q.rows[s].id \in DOMAIN breaks
<1> DEFINE Step(n, Q) == IF n \in DOMAIN breaks
                         THEN BreakNodeParse(Q, "discard", n, breaks[n]) ELSE Q
           Is(f, n) == f = [i \in 0..n |-> IF i = 0 THEN P ELSE Step(i, f[i - 1])]
           More(Q) == /\ Well(Q, place) /\ Q.send = P.send /\ Known(P) \subseteq Known(Q)
                      /\ \A s \in Known(P) : /\ Q.rows[s].id = P.rows[s].id
                                             /\ Q.rows[s].line = P.rows[s].line
                      /\ \A s \in Known(Q) \ Known(P) : Q.rows[s].id \in DOMAIN breaks
           upTo == Parsed(P, breaks)
<1>1. MaxBreaks \in Nat
  BY BreaksAssumption
<1>2. upTo = CHOOSE f : f = [n \in 0..MaxBreaks |->
               IF n = 0 THEN P
               ELSE IF n \in DOMAIN breaks THEN BreakNodeParse(f[n - 1], "discard", n, breaks[n])
               ELSE f[n - 1]]
  BY DEF Parsed
<1>3. ASSUME NEW n \in 1..MaxBreaks, NEW Q, More(Q)
      PROVE  More(Step(n, Q))
  <2>1. CASE n \in DOMAIN breaks
    <3> DEFINE R == BreakNodeParse(Q, "discard", n, breaks[n])
    <3>1. breaks[n] \in Break /\ breaks[n].line = place[n]
      BY <2>1 DEF Breaks
    <3>2. "discard" \in Stages /\ Well(Q, place)
      BY <1>3 DEF Stages, Transient
    <3>3. /\ Well(R, place) /\ R.send = Q.send /\ Known(Q) \subseteq Known(R)
          /\ \A s \in Known(Q) : /\ R.rows[s].id = Q.rows[s].id
                                 /\ R.rows[s].line = Q.rows[s].line
          /\ \A s \in Known(R) \ Known(Q) : R.rows[s].id = n
      BY <3>1, <3>2, NodeParsed
    <3>4. Step(n, Q) = R
      BY <2>1
    <3> HIDE DEF R, Step
    <3> QED
      BY <1>3, <2>1, <3>3, <3>4
  <2>2. CASE n \notin DOMAIN breaks
    BY <1>3, <2>2
  <2> QED
    BY <2>1, <2>2
<1> HIDE DEF Step, More, upTo
<1>4. \E f : Is(f, MaxBreaks)
  <2> DEFINE T == {n \in 0..MaxBreaks : \E f : Is(f, n)}
  <2>1. 0 \in T
    <3>1. Is([i \in 0..0 |-> P], 0)
      OBVIOUS
    <3> HIDE DEF Is
    <3> QED
      BY <1>1, <3>1
  <2>2. ASSUME NEW n \in T, n < MaxBreaks
        PROVE  n + 1 \in T
    <3>1. PICK f : Is(f, n)
      OBVIOUS
    <3> DEFINE g == [i \in 0..(n + 1) |-> IF i = n + 1 THEN Step(n + 1, f[n]) ELSE f[i]]
    <3>2. n \in Nat
      BY <1>1
    <3>3. ASSUME NEW i \in 0..(n + 1)
          PROVE  g[i] = IF i = 0 THEN P ELSE Step(i, g[i - 1])
      <4>1. CASE i = n + 1
        <5>1. g[n] = f[n]
          BY <3>2
        <5>2. g[i] = Step(i, f[n]) /\ i # 0 /\ i - 1 = n
          BY <3>2, <4>1
        <5> HIDE DEF g
        <5> QED
          BY <5>1, <5>2
      <4>2. CASE i # n + 1
        <5>1. i \in 0..n /\ g[i] = f[i]
          BY <3>2, <4>2
        <5>2. f[i] = IF i = 0 THEN P ELSE Step(i, f[i - 1])
          BY <3>1, <5>1
        <5>3. i # 0 => g[i - 1] = f[i - 1]
          BY <3>2, <5>1
        <5> HIDE DEF g
        <5> QED
          BY <5>1, <5>2, <5>3
      <4> QED
        BY <4>1, <4>2
    <3>4. DOMAIN g = 0..(n + 1) /\ g = [i \in 0..(n + 1) |-> g[i]]
      OBVIOUS
    <3>5. Is(g, n + 1)
      <4> HIDE DEF g
      <4> QED
        BY <3>3, <3>4
    <3>6. n + 1 \in 0..MaxBreaks
      BY <1>1, <2>2
    <3> HIDE DEF Is, g
    <3> QED
      BY <3>5, <3>6
  <2>3. T = 0..MaxBreaks
    <3>1. T \in SUBSET (0..MaxBreaks)
      OBVIOUS
    <3> HIDE DEF T
    <3> QED
      BY <1>1, <2>1, <2>2, <3>1, UpTo
  <2>4. MaxBreaks \in T
    <3> HIDE DEF T
    <3> QED
      BY <1>1, <2>3
  <2> QED
    BY <2>4, Zenon
<1>5. Is(upTo, MaxBreaks)
  <2>1. upTo = CHOOSE f : Is(f, MaxBreaks)
    BY <1>2, Zenon DEF Step
  <2> HIDE DEF Is
  <2> QED
    BY <1>4, <2>1
<1>6. /\ upTo[0] = P
      /\ \A n \in 1..MaxBreaks : upTo[n] = Step(n, upTo[n - 1])
  BY <1>1, <1>5
<1>7. More(upTo[MaxBreaks])
  <2> DEFINE T == {n \in 0..MaxBreaks : More(upTo[n])}
  <2>1. 0 \in T
    BY <1>1, <1>6 DEF More
  <2>2. ASSUME NEW n \in T, n < MaxBreaks
        PROVE  n + 1 \in T
    <3>1. n + 1 \in 1..MaxBreaks /\ (n + 1) - 1 = n
      BY <1>1, <2>2
    <3>2. upTo[n + 1] = Step(n + 1, upTo[n])
      BY <1>6, <3>1
    <3> QED
      BY <1>3, <3>1, <3>2
  <2>3. T = 0..MaxBreaks
    <3>1. T \in SUBSET (0..MaxBreaks)
      OBVIOUS
    <3> HIDE DEF T
    <3> QED
      BY <1>1, <2>1, <2>2, <3>1, UpTo
  <2>4. MaxBreaks \in T
    <3> HIDE DEF T
    <3> QED
      BY <1>1, <2>3
  <2> QED
    BY <2>4, Zenon
<1> QED
  BY <1>7 DEF More, upTo

(* What a record does to the rows: one without Id stays, and has none but by  *)
(* its insertion, one with an Id stays if the record does not remove it, and  *)
(* what is new is what the record tells of.                                   *)
RowsFollow(Q, r) ==
  /\ \A s \in DOMAIN rows : rows[s].id = 0 =>
       /\ s \in Known(Q) /\ Q.rows[s].line = rows[s].line
       /\ Q.rows[s].id = 0 \/ HasInserted(r, s)
  /\ \A s \in DOMAIN rows : rows[s].id # 0 /\ ~Removes(r, rows[s].id) =>
       s \in Known(Q) /\ Q.rows[s].line = rows[s].line /\ Q.rows[s].id = rows[s].id
  /\ \A s \in Known(Q) : \/ Q.rows[s].id = 0
                         \/ s \in DOMAIN rows /\ rows[s].id = Q.rows[s].id
                         \/ Q.rows[s].id \in DOMAIN r.breaks

LEMMA ListIs == /\ List.rows = rows /\ List.marked = marked /\ List.send = <<>>
                /\ Known(List) = DOMAIN rows
BY DEF List, Known

LEMMA QuietNone == Quiet(<<>>)
BY DEF Quiet

LEMMA ListFollows ==
  ASSUME NEW place, Well(List, place), NEW r \in Records,
         \A n \in DOMAIN r.breaks : r.breaks[n].line = place[n], 0 \notin DOMAIN r.breaks,
         NEW refresh \in BOOLEAN, refresh <=> r.kind = "list"
  PROVE  LET Q == OnBreakList(List, r.breaks, refresh) IN
         Well(Q, place) /\ RowsFollow(Q, r) /\ Quiet(Q.send)
<1> DEFINE p == Parsed(List, r.breaks)[MaxBreaks]
           missing == {s \in Known(p) : p.rows[s].id \notin DOMAIN r.breaks \cup {0}}
           G == Gone(p, missing, FALSE)
           Q == OnBreakList(List, r.breaks, refresh)
<1>1. r.breaks \in Breaks
  BY DEF Records
<1>2. /\ Well(p, place) /\ p.send = <<>> /\ DOMAIN rows \subseteq Known(p)
      /\ \A s \in DOMAIN rows : /\ p.rows[s].id = rows[s].id
                                /\ p.rows[s].line = rows[s].line
      /\ \A s \in Known(p) \ DOMAIN rows : p.rows[s].id \in DOMAIN r.breaks
  BY <1>1, ListIs, ListParsed
<1>3. Q = IF refresh THEN G ELSE p
  BY DEF OnBreakList
<1> HIDE DEF p, Q
<1>4. missing \in SUBSET Known(p) /\ FALSE \in BOOLEAN
  OBVIOUS
<1>5. /\ Well(G, place) /\ G.send = p.send
      /\ Known(G) \subseteq Known(p) /\ Known(p) \ missing \subseteq Known(G)
      /\ \A s \in Known(G) : IF s \in missing THEN G.rows[s].id = 0 ELSE G.rows[s] = p.rows[s]
  <2> HIDE DEF missing
  <2> QED
    BY <1>2, <1>4, RowsGone
<1> HIDE DEF G
<1>6. CASE ~refresh
  <2>1. Q = p
    BY <1>3, <1>6
  <2>2. RowsFollow(Q, r)
    BY <1>2, <2>1 DEF RowsFollow
  <2> QED
    BY <1>2, <2>1, <2>2, QuietNone DEF Q
<1>7. CASE refresh
  <2>1. Q = G /\ r.kind = "list"
    BY <1>3, <1>7
  <2>2. ASSUME NEW s \in Known(p), p.rows[s].id \in DOMAIN r.breaks \cup {0}
        PROVE  s \in Known(Q) /\ Q.rows[s] = p.rows[s]
    BY <1>5, <2>1, <2>2
  <2>3. ASSUME NEW s \in Known(Q)
        PROVE  s \in Known(p) /\ (Q.rows[s].id = 0 \/ Q.rows[s] = p.rows[s])
    BY <1>5, <2>1
  <2>4. ASSUME NEW s \in DOMAIN rows, rows[s].id = 0
        PROVE  s \in Known(Q) /\ Q.rows[s].line = rows[s].line /\ Q.rows[s].id = 0
    BY <1>2, <2>2, <2>4
  <2>5. ASSUME NEW s \in DOMAIN rows, rows[s].id # 0, ~Removes(r, rows[s].id)
        PROVE  s \in Known(Q) /\ Q.rows[s].line = rows[s].line /\ Q.rows[s].id = rows[s].id
    <3>1. rows[s].id \in DOMAIN r.breaks
      BY <2>1, <2>5 DEF Removes
    <3> QED
      BY <1>2, <2>2, <3>1
  <2>6. ASSUME NEW s \in Known(Q)
        PROVE  \/ Q.rows[s].id = 0
               \/ s \in DOMAIN rows /\ rows[s].id = Q.rows[s].id
               \/ Q.rows[s].id \in DOMAIN r.breaks
    BY <1>2, <2>3
  <2>7. Well(Q, place) /\ Quiet(Q.send)
    BY <1>2, <1>5, <2>1, QuietNone
  <2>8. RowsFollow(Q, r)
    BY <2>4, <2>5, <2>6 DEF RowsFollow
  <2> QED
    BY <2>7, <2>8 DEF Q
<1> QED
  BY <1>6, <1>7 DEF Q

LEMMA GoneFollows ==
  ASSUME NEW place, Well(List, place), NEW r \in Records,
         r.kind \in {"removed", "deleted", "hit"}, r.token # 0, NEW force \in BOOLEAN
  PROVE  LET Q == Gone(List, Named(List, r.token), force) IN
         Well(Q, place) /\ RowsFollow(Q, r) /\ Quiet(Q.send)
<1> DEFINE ss == Named(List, r.token)
           Q == Gone(List, ss, force)
<1>1. /\ ss \in SUBSET Known(List)
      /\ \A s \in DOMAIN rows : s \in ss <=> rows[s].id = r.token
  BY ListIs DEF Named
<1> HIDE DEF ss
<1>2. /\ Well(Q, place) /\ Q.send = <<>>
      /\ Known(Q) \subseteq DOMAIN rows /\ DOMAIN rows \ ss \subseteq Known(Q)
      /\ \A s \in Known(Q) : IF s \in ss THEN Q.rows[s].id = 0 ELSE Q.rows[s] = rows[s]
  BY <1>1, ListIs, RowsGone
<1> HIDE DEF Q
<1>3. RowsFollow(Q, r)
  <2>1. ASSUME NEW s \in DOMAIN rows, rows[s].id = 0
        PROVE  s \in Known(Q) /\ Q.rows[s].line = rows[s].line /\ Q.rows[s].id = 0
    BY <1>1, <1>2, <2>1
  <2>2. ASSUME NEW s \in DOMAIN rows, ~Removes(r, rows[s].id)
        PROVE  s \in Known(Q) /\ Q.rows[s].line = rows[s].line /\ Q.rows[s].id = rows[s].id
    BY <1>1, <1>2, <2>2 DEF Removes
  <2>3. ASSUME NEW s \in Known(Q)
        PROVE  \/ Q.rows[s].id = 0
               \/ s \in DOMAIN rows /\ rows[s].id = Q.rows[s].id
    BY <1>2
  <2> QED
    BY <2>1, <2>2, <2>3 DEF RowsFollow
<1> QED
  BY <1>2, <1>3, QuietNone DEF Q, ss

LEMMA SameFollows ==
  ASSUME NEW Q, NEW r, Known(Q) = DOMAIN rows,
         \A s \in DOMAIN rows : Q.rows[s].id = rows[s].id /\ Q.rows[s].line = rows[s].line
  PROVE  RowsFollow(Q, r)
BY DEF RowsFollow

LEMMA SendIs ==
  ASSUME NEW place, NEW P, Well(P, place), NEW cs \in Seq(Commands)
  PROVE  LET Q == Send(P, cs) IN
         /\ Well(Q, place) /\ Q.rows = P.rows /\ Known(Q) = Known(P) /\ Q.send = P.send \o cs
<1> DEFINE Q == Send(P, cs)
           more == P.send \o cs
<1>1. more \in Seq(Commands)
  BY DEF Well
<1>2. Q = [P EXCEPT !.send = more]
  BY DEF Send
<1> HIDE DEF more, Q
<1>3. /\ Q = [rows |-> Q.rows, marked |-> Q.marked, send |-> Q.send]
      /\ Q.rows = P.rows /\ Q.marked = P.marked /\ Q.send = more
  BY <1>2 DEF Well
<1>4. Known(Q) = Known(P) /\ \A l, o : AtLine(Q, l, o) = AtLine(P, l, o)
  BY <1>3 DEF Known, AtLine
<1>5. Well(Q, place)
  BY <1>1, <1>3, <1>4 DEF Well
<1> QED
  BY <1>3, <1>4, <1>5 DEF Q, more

LEMMA InsertedFollows ==
  ASSUME NEW place, Well(List, place), NEW r \in Records, r.kind = "inserted", InsertTold(r),
         given \in 0..MaxBreaks, \A n \in DOMAIN r.breaks : r.breaks[n].line = place[n]
  PROVE  LET Q == Handled(List, r) IN
         Well(Q, place) /\ RowsFollow(Q, r) /\ Quiet(Q.send)
<1> DEFINE Q == Handled(List, r)
<1>1. PICK n \in 1..given :
        /\ DOMAIN r.breaks = {n}
        /\ \/ r.token \in {ByUser, OnLoad, RunTo}
           \/ /\ r.token \in DOMAIN rows /\ rows[r.token].id = 0
              /\ rows[r.token].line = r.breaks[n].line
  BY DEF InsertTold
<1> DEFINE bp == r.breaks[n]
<1>2. bp \in Break /\ bp.line = place[n] /\ n \in 1..MaxBreaks
  BY <1>1 DEF Records, Breaks
<1>3. Q = OnBreakInserted(List, r.token, n, bp)
  <2>1. DOMAIN r.breaks # {} /\ (CHOOSE m \in DOMAIN r.breaks : TRUE) = n
    BY <1>1
  <2> QED
    BY <2>1 DEF Handled
<1> HIDE DEF Q, bp
<1>4. /\ {"persist", "onload", "runto"} \subseteq Stages
      /\ ByUser = 0 /\ OnLoad = -1 /\ RunTo = -2
      /\ \A s \in DOMAIN rows : s # 0 /\ s # -1 /\ s # -2
  BY ListIs DEF Stages, Transient, ByUser, OnLoad, RunTo, Well, Scid
<1>5. ASSUME NEW stage \in Stages
      PROVE  LET N == BreakNodeParse(List, stage, n, bp) IN
             Well(N, place) /\ RowsFollow(N, r) /\ N.send = <<>>
  <2> DEFINE N == BreakNodeParse(List, stage, n, bp)
  <2>1. /\ Well(N, place) /\ N.send = <<>> /\ DOMAIN rows \subseteq Known(N)
        /\ \A s \in DOMAIN rows : /\ N.rows[s].id = rows[s].id
                                  /\ N.rows[s].line = rows[s].line
        /\ \A s \in Known(N) \ DOMAIN rows : N.rows[s].id = n
    BY <1>2, ListIs, NodeParsed
  <2> HIDE DEF N
  <2>2. RowsFollow(N, r)
    BY <1>1, <2>1 DEF RowsFollow
  <2> QED
    BY <2>1, <2>2 DEF N
<1>6. CASE r.token = ByUser
  <2>1. Q = BreakNodeParse(List, "persist", n, bp)
    BY <1>3, <1>4, <1>6 DEF OnBreakInserted
  <2> QED
    BY <1>4, <1>5, <2>1, QuietNone DEF Q
<1>7. CASE r.token = OnLoad
  <2>1. Q = BreakNodeParse(List, "onload", n, bp)
    BY <1>3, <1>4, <1>7 DEF OnBreakInserted
  <2> QED
    BY <1>4, <1>5, <2>1, QuietNone DEF Q
<1>8. CASE r.token = RunTo
  <2> DEFINE N == BreakNodeParse(List, "runto", n, bp)
  <2>1. Q = Send(N, Plain("continue"))
    BY <1>3, <1>4, <1>8 DEF OnBreakInserted
  <2>2. Well(N, place) /\ RowsFollow(N, r) /\ N.send = <<>>
    BY <1>4, <1>5
  <2> HIDE DEF N
  <2>3. Quiet(Plain("continue")) /\ Plain("continue") \in Seq(Commands)
    BY QuietOne DEF Plain, Quiet
  <2>4. Well(Q, place) /\ Q.rows = N.rows /\ Known(Q) = Known(N) /\ Q.send = <<>> \o Plain("continue")
    BY <2>1, <2>2, <2>3, SendIs
  <2>5. Q.send = Plain("continue")
    BY <2>3, <2>4
  <2>6. RowsFollow(Q, r)
    BY <2>2, <2>4 DEF RowsFollow
  <2> QED
    BY <2>3, <2>4, <2>5, <2>6 DEF Q
<1>9. CASE r.token \notin {ByUser, OnLoad, RunTo}
  <2>1. /\ r.token \in DOMAIN rows /\ rows[r.token].id = 0 /\ rows[r.token].line = bp.line
        /\ Q = BreakNodeApplied(List, r.token, n, bp)
    BY <1>1, <1>3, <1>4, <1>9 DEF OnBreakInserted, bp
  <2>2. /\ Well(Q, place) /\ Quiet(Q.send) /\ Known(Q) = DOMAIN rows
        /\ \A t \in Known(Q) : /\ Q.rows[t].line = rows[t].line
                               /\ Q.rows[t].id = IF t = r.token THEN n ELSE rows[t].id
    BY <1>2, <2>1, ListIs, NodeApplied
  <2>3. RowsFollow(Q, r)
    BY <1>1, <2>1, <2>2 DEF RowsFollow, HasInserted
  <2> QED
    BY <2>2, <2>3 DEF Q
<1> QED
  BY <1>6, <1>7, <1>8, <1>9 DEF Q

LEMMA HandledFollows ==
  ASSUME NEW place, Well(List, place), NEW r \in Records, InsertTold(r), given \in 0..MaxBreaks,
         \A n \in DOMAIN r.breaks : r.breaks[n].line = place[n], DOMAIN r.breaks \subseteq 1..given,
         r.kind \in {"removed", "deleted", "edited"} => r.token \in 1..given,
         r.kind \in {"enabled", "disabled"} => r.token \in DOMAIN rows,
         r.kind # "loaded"
  PROVE  LET Q == Handled(List, r) IN
         Well(Q, place) /\ RowsFollow(Q, r) /\ Quiet(Q.send)
<1> DEFINE Q == Handled(List, r)
<1>1. /\ Well(List, place) /\ RowsFollow(List, r) /\ Quiet(List.send)
      /\ 0 \notin DOMAIN r.breaks
  BY ListIs, QuietNone, SameFollows
<1>2. CASE r.kind = "inserted"
  BY <1>2, InsertedFollows
<1>3. CASE r.kind \in {"enabled", "disabled"}
  <2> DEFINE on == r.kind = "enabled"
  <2>1. Q = BreakEnable(List, r.token, on)
    <3>1. CASE r.kind = "enabled"
      BY <3>1 DEF Handled
    <3>2. CASE r.kind = "disabled"
      BY <3>2 DEF Handled
    <3> QED
      BY <1>3, <3>1, <3>2
  <2>2. on \in BOOLEAN /\ r.token \in Known(List)
    BY <1>3, ListIs
  <2> HIDE DEF on, Q
  <2>3. /\ Well(Q, place) /\ Q.send = List.send /\ Known(Q) = Known(List)
        /\ \A t \in Known(Q) : Q.rows[t].id = List.rows[t].id /\ Q.rows[t].line = List.rows[t].line
    BY <2>1, <2>2, StateSet
  <2>4. RowsFollow(Q, r)
    BY <2>3, ListIs, SameFollows
  <2> QED
    BY <2>3, <2>4, ListIs, QuietNone DEF Q
<1>4. CASE r.kind = "removed"
  <2>1. Q = Gone(List, Named(List, r.token), TRUE) /\ r.token # 0
    BY <1>4 DEF Handled
  <2> QED
    BY <1>4, <2>1, GoneFollows
<1>5. CASE r.kind = "deleted"
  <2>1. Q = Gone(List, Named(List, r.token), FALSE) /\ r.token # 0
    BY <1>5 DEF Handled
  <2> QED
    BY <1>5, <2>1, GoneFollows
<1>6. CASE r.kind = "hit"
  <2>1. CASE breakAsync # "yes" /\ r.token # 0
    <3>1. Q = Gone(List, Named(List, r.token), FALSE)
      BY <1>6, <2>1 DEF Handled
    <3> QED
      BY <1>6, <2>1, <3>1, GoneFollows
  <2>2. CASE ~(breakAsync # "yes" /\ r.token # 0)
    <3>1. Q = List
      BY <1>6, <2>2 DEF Handled
    <3> QED
      BY <1>1, <3>1
  <2> QED
    BY <2>1, <2>2
<1>7. CASE r.kind = "edited"
  <2> DEFINE cs == <<Command("info", 0, r.token, 0)>>
  <2>1. Q = Send(List, cs)
    BY <1>7 DEF Handled
  <2>2. Quiet(cs) /\ cs \in Seq(Commands)
    <3>1. r.token \in Nat
      BY <1>7
    <3> QED
      BY <3>1, QuietOne DEF Quiet
  <2> HIDE DEF cs
  <2>3. Well(Q, place) /\ Q.rows = rows /\ Known(Q) = DOMAIN rows /\ Q.send = <<>> \o cs
    BY <2>1, <2>2, ListIs, SendIs
  <2>4. Q.send = cs
    BY <2>2, <2>3
  <2>5. RowsFollow(Q, r)
    BY <2>3, SameFollows
  <2> QED
    BY <2>2, <2>3, <2>4, <2>5
<1>8. CASE r.kind \in {"info", "created"}
  <2>1. Q = OnBreakList(List, r.breaks, FALSE)
    <3>1. CASE r.kind = "info"
      BY <3>1 DEF Handled
    <3>2. CASE r.kind = "created"
      BY <3>2 DEF Handled
    <3> QED
      BY <1>8, <3>1, <3>2
  <2> QED
    BY <1>1, <1>8, <2>1, ListFollows
<1>9. CASE r.kind = "list"
  <2>1. Q = OnBreakList(List, r.breaks, TRUE)
    BY <1>9 DEF Handled
  <2> QED
    BY <1>1, <1>9, <2>1, ListFollows
<1>10. CASE r.kind \in {"error", "features", "running", "done", "exited"}
  <2>1. Q = List
    <3>1. /\ r.kind # "loaded" /\ r.kind # "inserted" /\ r.kind # "enabled" /\ r.kind # "disabled"
          /\ r.kind # "removed" /\ r.kind # "edited" /\ r.kind # "info" /\ r.kind # "list"
          /\ r.kind # "created" /\ r.kind # "deleted" /\ r.kind # "hit"
      BY <1>10
    <3> QED
      BY <3>1 DEF Handled
  <2> QED
    BY <1>1, <2>1
<1>11. r.kind \in Told
  BY DEF Records
<1> HIDE DEF Q
<1> QED
  BY <1>2, <1>3, <1>4, <1>5, <1>6, <1>7, <1>8, <1>9, <1>10, <1>11 DEF Told, Results, Q

--------------------------------------------------------------------------------
(* Commands                                                                   *)

(* Commands that may be added, and those of them that insert no row.          *)
Proper(cs) ==
  /\ cs \in Seq(Commands)
  /\ \A i \in 1..Len(cs) : cs[i].cmd # "load" /\ InsertAsked(cs[i]) /\ EnableAsked(cs[i])
  /\ Once(cs)

NoRow(cs) == \A i \in 1..Len(cs) : cs[i].cmd = "insert" => cs[i].token \notin Scid

LEMMA Joined ==
  ASSUME NEW S, NEW a \in Seq(S), NEW b \in Seq(S)
  PROVE  /\ a \o b \in Seq(S) /\ Len(a \o b) = Len(a) + Len(b) /\ Len(a) \in Nat /\ Len(b) \in Nat
         /\ \A i \in 1..Len(a \o b) :
              \/ i \in 1..Len(a) /\ (a \o b)[i] = a[i]
              \/ i - Len(a) \in 1..Len(b) /\ (a \o b)[i] = b[i - Len(a)]
OBVIOUS

LEMMA Single ==
  ASSUME NEW S, NEW c \in S
  PROVE  <<c>> \in Seq(S) /\ Len(<<c>>) = 1 /\ <<c>>[1] = c /\ \A i \in 1..Len(<<c>>) : i = 1
OBVIOUS

LEMMA OnceJoined ==
  ASSUME NEW a \in Seq(Commands), Once(a), NEW b \in Seq(Commands), Once(b), NoRow(b) \/ NoRow(a)
  PROVE  Once(a \o b)
<1> SUFFICES ASSUME NEW s \in Scid, NEW i \in 1..Len(a \o b), NEW j \in 1..Len(a \o b),
                    Inserts((a \o b)[i], s), Inserts((a \o b)[j], s)
             PROVE  i = j
  BY DEF Once
<1>1. /\ \/ i \in 1..Len(a) /\ (a \o b)[i] = a[i]
         \/ i - Len(a) \in 1..Len(b) /\ (a \o b)[i] = b[i - Len(a)]
      /\ \/ j \in 1..Len(a) /\ (a \o b)[j] = a[j]
         \/ j - Len(a) \in 1..Len(b) /\ (a \o b)[j] = b[j - Len(a)]
      /\ Len(a) \in Nat /\ i \in Nat /\ j \in Nat
  BY Joined
<1>2. CASE i \in 1..Len(a) /\ (a \o b)[i] = a[i] /\ j \in 1..Len(a) /\ (a \o b)[j] = a[j]
  BY <1>2 DEF Once
<1>3. CASE /\ i - Len(a) \in 1..Len(b) /\ (a \o b)[i] = b[i - Len(a)]
           /\ j - Len(a) \in 1..Len(b) /\ (a \o b)[j] = b[j - Len(a)]
  <2>1. i - Len(a) = j - Len(a)
    BY <1>3 DEF Once
  <2> QED
    BY <1>1, <2>1
<1>4. CASE NoRow(a)
  BY <1>1, <1>3, <1>4 DEF NoRow, Inserts
<1>5. CASE NoRow(b)
  BY <1>1, <1>2, <1>5 DEF NoRow, Inserts
<1> QED
  BY <1>4, <1>5

LEMMA ProperJoined ==
  ASSUME NEW a, Proper(a), NEW b, Proper(b), NoRow(b) \/ NoRow(a)
  PROVE  Proper(a \o b)
<1>1. a \in Seq(Commands) /\ b \in Seq(Commands) /\ Once(a) /\ Once(b)
  BY DEF Proper
<1>2. Once(a \o b)
  BY <1>1, OnceJoined
<1>3. a \o b \in Seq(Commands)
  BY <1>1, Joined
<1>4. ASSUME NEW i \in 1..Len(a \o b)
      PROVE  (a \o b)[i].cmd # "load" /\ InsertAsked((a \o b)[i]) /\ EnableAsked((a \o b)[i])
  <2>1. \/ i \in 1..Len(a) /\ (a \o b)[i] = a[i]
        \/ i - Len(a) \in 1..Len(b) /\ (a \o b)[i] = b[i - Len(a)]
    BY <1>1, Joined
  <2> QED
    BY <2>1 DEF Proper
<1> QED
  BY <1>2, <1>3, <1>4 DEF Proper

LEMMA ProperOne ==
  ASSUME NEW c \in Commands, c.cmd # "load", InsertAsked(c), EnableAsked(c)
  PROVE  Proper(<<c>>)
<1>1. <<c>> \in Seq(Commands) /\ Len(<<c>>) = 1 /\ <<c>>[1] = c /\ \A i \in 1..Len(<<c>>) : i = 1
  BY Single
<1> HIDE DEF InsertAsked
<1> QED
  BY <1>1 DEF Proper, Once

LEMMA QuietProper ==
  ASSUME NEW cs, Quiet(cs)
  PROVE  Proper(cs) /\ NoRow(cs)
<1>1. ASSUME NEW i \in 1..Len(cs)
      PROVE  /\ cs[i].cmd # "load" /\ cs[i].cmd # "insert" /\ cs[i].cmd # "break" /\ cs[i].cmd # "enable"
             /\ cs[i].token = 0
  BY DEF Quiet
<1> QED
  BY <1>1 DEF Proper, NoRow, Once, Inserts, InsertAsked, EnableAsked, Quiet

LEMMA CommandIs ==
  ASSUME NEW cmd \in Asked, NEW token \in Int, NEW num \in Nat, NEW arg \in Arg \cup {0}
  PROVE  LET c == Command(cmd, token, num, arg) IN
         /\ c \in Commands /\ c.cmd = cmd /\ c.token = token /\ c.num = num /\ c.arg = arg
BY DEF Command, Commands

LEMMA AtIs ==
  ASSUME NEW l \in Where, NEW on \in BOOLEAN, NEW temp \in BOOLEAN, NEW watch \in BOOLEAN,
         watch <=> l = 0
  PROVE  At(l, on, temp, watch) \in Arg /\ At(l, on, temp, watch).at = l
BY DEF At, Arg

(* break_apply() and breaks_apply() insert rows that GDB has not.             *)
LEMMA ApplyIs ==
  ASSUME NEW place, Well(List, place), NEW s \in DOMAIN rows, rows[s].id = 0
  PROVE  LET c == BreakApply(s) IN
         /\ c \in Commands /\ c.cmd = "insert" /\ c.token = s
         /\ InsertAsked(c) /\ EnableAsked(c)
<1> DEFINE row == rows[s]
           on == row.on \/ row.watch
           temp == row.temp /\ ~row.watch
           arg == At(row.at, on, temp, row.watch)
<1>1. row \in Row /\ s \in Int
  BY ListIs DEF Well, Scid
<1>2. row.at \in Where /\ row.watch \in BOOLEAN /\ (row.watch <=> row.at = 0) /\ row.line = row.at
  BY <1>1 DEF Row
<1>3. on \in BOOLEAN /\ temp \in BOOLEAN
  OBVIOUS
<1> HIDE DEF on, temp
<1>4. arg \in Arg /\ arg.at = row.at
  BY <1>2, <1>3, AtIs
<1>5. "insert" \in Asked /\ 0 \in Nat
  BY Zenon DEF Asked
<1> HIDE DEF arg
<1> DEFINE c == Command("insert", s, 0, arg)
<1>6. c \in Commands /\ c.cmd = "insert" /\ c.token = s /\ c.num = 0 /\ c.arg = arg
  BY <1>1, <1>4, <1>5, CommandIs
<1>7. BreakApply(s) = c
  BY DEF BreakApply, arg, on, temp
<1> HIDE DEF c
<1>8. InsertAsked(c) /\ EnableAsked(c)
  BY <1>2, <1>4, <1>6 DEF InsertAsked, EnableAsked
<1> QED
  BY <1>6, <1>7, <1>8

LEMMA AppliesAre ==
  ASSUME NEW place, Well(List, place)
  PROVE  Proper(BreaksApply)
<1> DEFINE S == {s \in DOMAIN rows : rows[s].id = 0 /\ ~rows[s].watch}
           u == InOrder(S)
           cs == BreaksApply
<1>1. S \in SUBSET Nat /\ IsFiniteSet(S)
  BY ListIs, FS_Subset DEF Well, Scid
<1>2. \A s \in S : s \in DOMAIN rows /\ rows[s].id = 0
  OBVIOUS
<1> HIDE DEF S
<1>3. /\ u \in Seq(S) /\ Len(u) = Cardinality(S)
      /\ \A i, j \in 1..Len(u) : u[i] = u[j] => i = j
  BY <1>1, OrderOf
<1>4. cs = [i \in DOMAIN u |-> BreakApply(u[i])]
  BY DEF BreaksApply, S
<1> HIDE DEF u, cs
<1>5. DOMAIN u = 1..Len(u) /\ Len(u) \in Nat /\ \A i \in 1..Len(u) : u[i] \in S
  BY <1>3
<1>6. ASSUME NEW i \in 1..Len(u)
      PROVE  /\ cs[i] \in Commands /\ cs[i].cmd = "insert" /\ cs[i].token = u[i]
             /\ InsertAsked(cs[i]) /\ EnableAsked(cs[i])
  BY <1>2, <1>4, <1>5, ApplyIs
<1>7. cs \in [1..Len(u) -> Commands]
  BY <1>4, <1>5, <1>6
<1>8. cs \in Seq(Commands) /\ Len(cs) = Len(u)
  BY <1>5, <1>7
<1>9. \A i \in 1..Len(cs) : cs[i].cmd # "load" /\ InsertAsked(cs[i]) /\ EnableAsked(cs[i])
  BY <1>6, <1>8
<1>10. Once(cs)
  BY <1>3, <1>6, <1>8 DEF Once, Inserts
<1> QED
  BY <1>8, <1>9, <1>10 DEF Proper, cs

--------------------------------------------------------------------------------
(* The steps of the user                                                      *)

LEMMA SendableIs ==
  ASSUME SessionOK, Sendable
  PROVE  /\ session = "ACTIVE" /\ commands = <<>>
         /\ \A i \in 1..Len(records) : records[i].kind \notin Results
<1>1. DebugState # "BUSY" /\ DebugState # "INACTIVE"
  BY DEF Sendable
<1>2. session # "INACTIVE" /\ session # "KILLING" /\ ~Unanswered(commands, records)
  BY <1>1 DEF DebugState, StateGiven
<1> QED
  BY <1>2 DEF Unanswered, SessionOK

(* Something is asked for when nothing is unanswered.                         *)
LEMMA AskStep ==
  ASSUME BreaksIInv, Sendable, NEW cs, Proper(cs), Asks(cs), Rest
  PROVE  BreaksIInv'
<1>1. /\ session = "ACTIVE" /\ commands = <<>>
      /\ \A i \in 1..Len(records) : records[i].kind \notin Results
  BY SendableIs DEF BreaksIInv
<1>2. /\ rows' = rows /\ marked' = marked /\ records' = records /\ bps' = bps /\ given' = given
      /\ target' = target /\ session' = session /\ prog' = prog /\ dirty' = dirty
  BY DEF Asks, Rest, gdbVars
<1>3. commands' = cs
  <2>1. cs \in Seq(Commands) /\ commands' = <<>> \o cs
    BY <1>1 DEF Asks, Proper
  <2> QED
    BY <2>1
<1>4. SessionOK'
  BY <1>1, <1>2, <1>3 DEF BreaksIInv, SessionOK, Proper
<1>5. NumbersGiven'
  BY <1>2 DEF BreaksIInv, NumbersGiven
<1>6. \A c : InsertAsked(c)' = InsertAsked(c) /\ EnableAsked(c)' = EnableAsked(c) /\ InsertTold(c)' = InsertTold(c)
  BY <1>2 DEF InsertAsked, EnableAsked, InsertTold
<1>7. InsertsRow'
  BY <1>2, <1>3, <1>6 DEF BreaksIInv, InsertsRow, Proper
<1>8. InsertsOnce'
  BY <1>1, <1>2, <1>3 DEF BreaksIInv, InsertsOnce, Proper, HasInserted, Results
<1>9. LoadFirst'
  BY <1>1, <1>2, <1>3 DEF LoadFirst, Proper, Results
<1>10. RemovesGone'
  BY <1>2 DEF BreaksIInv, RemovesGone, Removes
<1>11. EnablesRow'
  BY <1>2, <1>3, <1>6 DEF BreaksIInv, EnablesRow, Proper, Removes
<1>12. \E place : Places(place)' /\ Well(List, place)'
  <2>1. PICK place : Places(place) /\ Well(List, place)
    BY DEF BreaksIInv
  <2>2. List' = List
    BY <1>2 DEF List
  <2>3. Places(place)'
    BY <1>2, <2>1 DEF Places
  <2>4. Well(List, place)'
    BY <2>1, <2>2 DEF Well, Known, AtLine
  <2> QED
    BY <2>3, <2>4
<1> QED
  BY <1>4, <1>5, <1>7, <1>8, <1>9, <1>10, <1>11, <1>12 DEF BreaksIInv

(* The rows without Id change, when nothing is unanswered or there is no      *)
(* session.                                                                   *)
LEMMA DoStep ==
  ASSUME BreaksIInv, UNCHANGED <<session, prog, dirty, commands, records, bps, given, target>>,
         \A place : Well(List, place) => Well(List, place)',
         \A s \in DOMAIN rows : rows[s].id # 0 => s \in DOMAIN rows' /\ rows'[s].id = rows[s].id,
         \A s \in DOMAIN rows' : rows'[s].id # 0 => s \in DOMAIN rows /\ rows'[s].id = rows[s].id,
         \/ commands = <<>> /\ \A i \in 1..Len(records) : records[i].kind # "inserted"
         \/ \A s \in DOMAIN rows : s \in DOMAIN rows' /\ rows'[s].id = rows[s].id /\ rows'[s].line = rows[s].line
  PROVE  BreaksIInv'
<1>1. /\ records' = records /\ bps' = bps /\ given' = given /\ commands' = commands
      /\ target' = target /\ session' = session /\ prog' = prog /\ dirty' = dirty
  OBVIOUS
<1>2. SessionOK'
  BY <1>1 DEF BreaksIInv, SessionOK
<1>3. NumbersGiven'
  <2>1. given \in Nat
    BY BreaksAssumption DEF BreaksIInv, SessionOK
  <2>2. \A s \in DOMAIN rows' : rows'[s].id \in 0..given
    BY <2>1 DEF BreaksIInv, NumbersGiven
  <2> QED
    BY <1>1, <2>2 DEF BreaksIInv, NumbersGiven
<1>4. InsertsRow'
  <2>1. CASE commands = <<>> /\ \A i \in 1..Len(records) : records[i].kind # "inserted"
    BY <1>1, <2>1 DEF InsertsRow, InsertTold
  <2>2. CASE \A s \in DOMAIN rows : s \in DOMAIN rows' /\ rows'[s].id = rows[s].id /\ rows'[s].line = rows[s].line
    <3>1. \A c : (InsertAsked(c) => InsertAsked(c)') /\ (InsertTold(c) => InsertTold(c)')
      BY <1>1, <2>2 DEF InsertAsked, InsertTold
    <3> QED
      BY <1>1, <3>1 DEF BreaksIInv, InsertsRow
  <2> QED
    BY <2>1, <2>2
<1>5. InsertsOnce'
  BY <1>1 DEF BreaksIInv, InsertsOnce
<1>6. LoadFirst'
  BY <1>1 DEF BreaksIInv, LoadFirst
<1>7. RemovesGone'
  <2>1. ASSUME NEW n \in DOMAIN bps, \A s \in DOMAIN rows : rows[s].id # n
        PROVE  \A s \in DOMAIN rows' : rows'[s].id # n
    <3>1. n # 0
      BY DEF BreaksIInv, NumbersGiven
    <3> QED
      BY <2>1, <3>1
  <2> QED
    BY <1>1, <2>1 DEF BreaksIInv, RemovesGone, Removes
<1>8. EnablesRow'
  <2>1. ASSUME NEW c, EnableAsked(c)
        PROVE  EnableAsked(c)'
    <3>1. \A n \in DOMAIN bps : n # 0
      BY DEF BreaksIInv, NumbersGiven
    <3> QED
      BY <1>1, <2>1, <3>1 DEF EnableAsked
  <2> QED
    BY <1>1, <2>1 DEF BreaksIInv, EnablesRow, Removes
<1>9. \E place : Places(place)' /\ Well(List, place)'
  <2>1. PICK place : Places(place) /\ Well(List, place)
    BY DEF BreaksIInv
  <2>2. Places(place)'
    BY <1>1, <2>1 DEF Places
  <2> QED
    BY <2>1, <2>2
<1> QED
  BY <1>2, <1>3, <1>4, <1>5, <1>6, <1>7, <1>8, <1>9 DEF BreaksIInv

LEMMA WellDone ==
  ASSUME NEW place, NEW P, Well(P, place), rows' = P.rows, marked' = P.marked
  PROVE  Well(List, place)'
<1>1. /\ List' = [rows |-> P.rows, marked |-> P.marked, send |-> <<>>]
      /\ List'.rows = P.rows /\ List'.marked = P.marked /\ List'.send = <<>>
  BY DEF List
<1> DEFINE Q == List'
<1>2. Q = [rows |-> Q.rows, marked |-> Q.marked, send |-> Q.send]
  BY <1>1
<1> HIDE DEF Q
<1>3. Q.rows = P.rows /\ Q.marked = P.marked /\ Q.send \in Seq(Commands)
  BY <1>1 DEF Q
<1>4. Known(Q) = Known(P) /\ \A l, o : AtLine(Q, l, o) = AtLine(P, l, o)
  BY <1>3 DEF Known, AtLine
<1>5. Well(Q, place)
  BY <1>2, <1>3, <1>4 DEF Well
<1> QED
  BY <1>5 DEF Q, Well, Known, AtLine

LEMMA NoArgIs ==
  ASSUME NEW cmd \in Asked, NEW num \in Nat
  PROVE  LET c == Command(cmd, 0, num, 0) IN c \in Commands /\ c.cmd = cmd /\ c.token = 0
<1>1. 0 \in Arg \cup {0}
  OBVIOUS
<1> QED
  BY <1>1 DEF Command, Commands

LEMMA OtherIs ==
  ASSUME NEW cmd \in {"features", "edit", "delete", "info", "list", "run", "continue",
                      "cli delete", "cli toggle"}, NEW num \in Nat
  PROVE  Proper(<<Command(cmd, 0, num, 0)>>) /\ NoRow(<<Command(cmd, 0, num, 0)>>)
<1> DEFINE c == Command(cmd, 0, num, 0)
<1>1. cmd \in Asked
  BY Zenon DEF Asked
<1>2. c \in Commands /\ c.cmd = cmd /\ c.token = 0
  BY <1>1, NoArgIs, Zenon
<1> HIDE DEF c
<1>3. c.cmd # "load" /\ c.cmd # "insert" /\ c.cmd # "break" /\ c.cmd # "enable" /\ c.cmd # "disable"
  BY <1>2
<1>4. InsertAsked(c) /\ EnableAsked(c)
  BY <1>3 DEF InsertAsked, EnableAsked
<1>5. Proper(<<c>>)
  BY <1>2, <1>3, <1>4, ProperOne
<1>6. <<c>>[1] = c /\ \A i \in 1..Len(<<c>>) : i = 1
  BY <1>2, Single
<1>7. NoRow(<<c>>)
  BY <1>3, <1>6 DEF NoRow
<1> QED
  BY <1>5, <1>7 DEF c

LEMMA InsertIs ==
  ASSUME NEW cmd \in {"insert", "break"}, NEW token \in {ByUser, OnLoad, RunTo}, NEW arg \in Arg
  PROVE  Proper(<<Command(cmd, token, 0, arg)>>) /\ NoRow(<<Command(cmd, token, 0, arg)>>)
<1> DEFINE c == Command(cmd, token, 0, arg)
<1>1. cmd \in Asked /\ arg \in Arg \cup {0} /\ token \in Int \ Scid /\ 0 \in Nat
  <2>1. cmd \in Asked
    BY Zenon DEF Asked
  <2> QED
    BY <2>1 DEF ByUser, OnLoad, RunTo, Scid
<1>2. c \in Commands /\ c.cmd = cmd /\ c.token = token /\ c.arg = arg
  BY <1>1, CommandIs
<1> HIDE DEF c
<1>3. c.cmd # "load" /\ c.cmd # "enable" /\ c.cmd # "disable"
  BY <1>2
<1>4. InsertAsked(c) /\ EnableAsked(c)
  BY <1>2, <1>3 DEF InsertAsked, EnableAsked
<1>5. Proper(<<c>>)
  BY <1>2, <1>3, <1>4, ProperOne
<1>6. <<c>>[1] = c /\ \A i \in 1..Len(<<c>>) : i = 1
  BY <1>2, Single
<1>7. NoRow(<<c>>)
  BY <1>1, <1>2, <1>6 DEF NoRow
<1> QED
  BY <1>5, <1>7 DEF c

LEMMA RowIs ==
  ASSUME BreaksIInv
  PROVE  /\ \A s \in DOMAIN rows : rows[s] \in Row /\ rows[s].id \in Nat
         /\ session = "INACTIVE" => \A s \in DOMAIN rows : rows[s].id = 0
         /\ given \in Nat /\ \A n \in DOMAIN bps : n \in Nat \ {0}
<1>1. PICK place : Well(List, place)
  BY DEF BreaksIInv
<1>2. \A s \in DOMAIN rows : rows[s] \in Row
  BY <1>1, ListIs DEF Well
<1>3. given \in Nat
  BY BreaksAssumption DEF BreaksIInv, SessionOK
<1>4. \A n \in DOMAIN bps : n \in Nat \ {0}
  BY <1>3 DEF BreaksIInv, NumbersGiven
<1>5. \A s \in DOMAIN rows : rows[s].id \in Nat
  BY <1>3 DEF BreaksIInv, NumbersGiven
<1>6. session = "INACTIVE" => \A s \in DOMAIN rows : rows[s].id = 0
  BY DEF BreaksIInv, NumbersGiven, SessionOK
<1> QED
  BY <1>2, <1>3, <1>4, <1>5, <1>6

LEMMA BreakpointIs ==
  ASSUME NEW l \in Line, NEW temp \in BOOLEAN
  PROVE  Breakpoint(l, temp) \in Arg
<1>1. l \in Where /\ (FALSE <=> l = 0)
  BY BreaksAssumption DEF Line, Where
<1> QED
  BY <1>1, AtIs DEF Breakpoint

LEMMA DeleteStep ==
  ASSUME BreaksIInv, NEW s \in DOMAIN rows, session = "INACTIVE" \/ Sendable, BreakDelete(s), Rest
  PROVE  BreaksIInv'
<1>1. CASE session = "INACTIVE" \/ rows[s].id = 0
  <2> DEFINE Q == BreakRemove(List, {s})
  <2>1. rows' = Q.rows /\ marked' = Q.marked /\ commands' = commands
    BY <1>1 DEF BreakDelete, Does
  <2>2. rows[s].id = 0
    BY <1>1, RowIs
  <2>3. {s} \in SUBSET Known(List)
    BY ListIs
  <2>4. \A place : Well(List, place) =>
          Well(Q, place) /\ Known(Q) = DOMAIN rows \ {s} /\ \A t \in Known(Q) : Q.rows[t] = rows[t]
    BY <2>3, ListIs, RowsRemoved
  <2> HIDE DEF Q
  <2>5. \A place : Well(List, place) => Well(List, place)'
    BY <2>1, <2>4, WellDone
  <2>6. DOMAIN rows' = DOMAIN rows \ {s} /\ \A t \in DOMAIN rows' : rows'[t] = rows[t]
    <3>1. PICK place : Well(List, place)
      BY DEF BreaksIInv
    <3> QED
      BY <2>1, <2>4, <3>1 DEF Known
  <2>7. commands = <<>> /\ \A i \in 1..Len(records) : records[i].kind # "inserted"
    BY SendableIs DEF BreaksIInv, SessionOK, Results
  <2>8. UNCHANGED <<session, prog, dirty, commands, records, bps, given, target>>
    BY <2>1 DEF Rest, gdbVars
  <2> QED
    BY <2>2, <2>5, <2>6, <2>7, <2>8, DoStep
<1>2. CASE ~(session = "INACTIVE" \/ rows[s].id = 0)
  <2>1. Sendable /\ Asks(<<Command("delete", 0, rows[s].id, 0)>>) /\ rows[s].id \in Nat
    BY <1>2, RowIs DEF BreakDelete
  <2>2. Proper(<<Command("delete", 0, rows[s].id, 0)>>)
    BY <2>1, OtherIs
  <2> QED
    BY <2>1, <2>2, AskStep
<1> QED
  BY <1>1, <1>2

LEMMA ToggleStep ==
  ASSUME BreaksIInv, NEW l \in Line, OnBreakToggle(l)
  PROVE  BreaksIInv'
<1> DEFINE here == {s \in DOMAIN rows : rows[s].line = l}
<1>1. CASE \E s \in here : BreakDelete(s)
  BY <1>1, DeleteStep DEF OnBreakToggle
<1>2. CASE session # "INACTIVE" /\ Asks(<<Command("insert", ByUser, 0, Breakpoint(l, FALSE))>>)
  <2>1. Proper(<<Command("insert", ByUser, 0, Breakpoint(l, FALSE))>>)
    BY BreakpointIs, InsertIs
  <2> QED
    BY <1>2, <2>1, AskStep DEF OnBreakToggle
<1> DEFINE row == [id |-> 0, at |-> l, line |-> l, on |-> TRUE, temp |-> FALSE, watch |-> FALSE,
                   stage |-> "persist"]
           new == NewScid(List)
           Q == Mark([List EXCEPT !.rows = With(@, new, row)], l, TRUE, 1)
<1>3. CASE session = "INACTIVE" /\ Does(Q)
  <2>1. /\ row \in Row /\ row.id = 0 /\ row.line = l /\ row.on = TRUE
        /\ l \in Where /\ "persist" \in Stages
    BY BreaksAssumption DEF Row, Line, Where, Stages
  <2> HIDE DEF row
  <2>2. ASSUME NEW place, Well(List, place)
        PROVE  /\ Well(Q, place) /\ Known(Q) = DOMAIN rows \cup {new}
               /\ \A t \in Known(Q) : Q.rows[t] = IF t = new THEN row ELSE rows[t]
    <3>1. new \in Scid /\ new \notin Known(List)
      BY <2>2, ScidIsNew DEF Well
    <3> HIDE DEF new
    <3>2. Shaped(List)
      BY <2>2 DEF Well, Shaped
    <3>3. Q = Mark([List EXCEPT !.rows = With(@, new, row)], row.line, row.on, 1)
      BY <2>1
    <3> HIDE DEF Q
    <3> QED
      BY <2>1, <2>2, <3>1, <3>2, <3>3, ListIs, RowMarked
  <2> HIDE DEF Q, new
  <2>3. rows' = Q.rows /\ marked' = Q.marked /\ commands' = commands
    BY <1>3 DEF Does
  <2>4. \A place : Well(List, place) => Well(List, place)'
    BY <2>2, <2>3, WellDone
  <2>5. DOMAIN rows' = DOMAIN rows \cup {new} /\ \A t \in DOMAIN rows' : rows'[t] = IF t = new THEN row ELSE rows[t]
    <3>1. PICK place : Well(List, place)
      BY DEF BreaksIInv
    <3> QED
      BY <2>2, <2>3, <3>1 DEF Known
  <2>6. \A s \in DOMAIN rows : rows[s].id = 0
    BY <1>3, RowIs
  <2>7. commands = <<>> /\ \A i \in 1..Len(records) : records[i].kind # "inserted"
    BY <1>3 DEF BreaksIInv, SessionOK
  <2>8. UNCHANGED <<session, prog, dirty, commands, records, bps, given, target>>
    BY <2>3 DEF Rest, gdbVars, OnBreakToggle
  <2>9. \A s \in DOMAIN rows' : rows'[s].id = 0
    BY <2>1, <2>5, <2>6
  <2> QED
    BY <2>4, <2>6, <2>7, <2>8, <2>9, DoStep
<1> QED
  <2>1. \/ \E s \in here : BreakDelete(s)
        \/ session # "INACTIVE" /\ Asks(<<Command("insert", ByUser, 0, Breakpoint(l, FALSE))>>)
        \/ session = "INACTIVE" /\ Does(Q)
    BY DEF OnBreakToggle
  <2> QED
    BY <1>1, <1>2, <1>3, <2>1

LEMMA EnabledToggledStep ==
  ASSUME BreaksIInv, NEW s \in DOMAIN rows, OnBreakEnabledToggled(s)
  PROVE  BreaksIInv'
<1>1. CASE rows[s].id = 0 /\ Does(BreakEnable(List, s, ~rows[s].on))
  <2> DEFINE on == ~rows[s].on
             Q == BreakEnable(List, s, on)
  <2>1. rows' = Q.rows /\ marked' = Q.marked /\ commands' = commands
    BY <1>1 DEF Does
  <2>2. on \in BOOLEAN /\ s \in Known(List)
    BY ListIs
  <2> HIDE DEF on
  <2>3. \A place : Well(List, place) =>
          /\ Well(Q, place) /\ Known(Q) = DOMAIN rows
          /\ \A t \in DOMAIN rows : Q.rows[t].id = rows[t].id /\ Q.rows[t].line = rows[t].line
    BY <2>2, ListIs, StateSet
  <2> HIDE DEF Q
  <2>4. \A place : Well(List, place) => Well(List, place)'
    BY <2>1, <2>3, WellDone
  <2>5. DOMAIN rows' = DOMAIN rows /\ \A t \in DOMAIN rows : rows'[t].id = rows[t].id /\ rows'[t].line = rows[t].line
    <3>1. PICK place : Well(List, place)
      BY DEF BreaksIInv
    <3> QED
      BY <2>1, <2>3, <3>1 DEF Known
  <2>6. UNCHANGED <<session, prog, dirty, commands, records, bps, given, target>>
    BY <2>1 DEF Rest, gdbVars, OnBreakEnabledToggled
  <2> QED
    BY <2>4, <2>5, <2>6, DoStep
<1> DEFINE cmd == IF rows[s].on THEN "disable" ELSE "enable"
           c == Command(cmd, s, rows[s].id, 0)
<1>2. CASE Sendable /\ Asks(<<c>>)
  <2>1. rows[s].id \in Nat /\ s \in Int
    <3>1. PICK place : Well(List, place)
      BY DEF BreaksIInv
    <3> QED
      BY <3>1, ListIs, RowIs DEF Well, Scid
  <2>2. cmd \in Asked /\ cmd \in {"enable", "disable"}
    BY Zenon DEF Asked
  <2> HIDE DEF cmd
  <2>3. 0 \in Arg \cup {0}
    OBVIOUS
  <2>4. c \in Commands /\ c.cmd = cmd /\ c.token = s /\ c.num = rows[s].id
    <3> DEFINE id == rows[s].id
    <3> HIDE DEF id
    <3>1. id \in Nat
      BY <2>1 DEF id
    <3>2. Command(cmd, s, id, 0) = c
      BY DEF id
    <3> QED
      BY <2>1, <2>2, <2>3, <3>1, <3>2, CommandIs DEF id
  <2> HIDE DEF c
  <2>5. c.cmd # "load" /\ c.cmd # "insert" /\ c.cmd # "break"
    BY <2>2, <2>4
  <2>6. InsertAsked(c) /\ EnableAsked(c)
    <3>1. rows[s].id <= given
      BY RowIs DEF BreaksIInv, NumbersGiven
    <3> QED
      BY <2>4, <2>5, <3>1 DEF InsertAsked, EnableAsked
  <2>7. Proper(<<c>>)
    BY <2>4, <2>5, <2>6, ProperOne
  <2> QED
    BY <1>2, <2>7, AskStep DEF OnBreakEnabledToggled
<1> QED
  BY <1>1, <1>2 DEF OnBreakEnabledToggled

(* Actions that only ask.                                                     *)
LEMMA AskSteps ==
  ASSUME BreaksIInv,
         \/ RunContinue \/ OnBreakRefresh \/ CliCommand \/ OnBreakWatch
         \/ \E l \in Line : RunToCursor(l)
         \/ \E l \in Line, temp \in BOOLEAN : OnBreakInsert(l, temp)
         \/ \E s \in DOMAIN rows : OnBreakApply(s) \/ OnBreakColumnEdited(s)
  PROVE  BreaksIInv'
<1> SUFFICES \E cs : Sendable /\ Proper(cs) /\ Asks(cs) /\ Rest
  BY AskStep
<1>1. \A num \in Nat : /\ Proper(<<Command("edit", 0, num, 0)>>)
                       /\ Proper(<<Command("cli delete", 0, num, 0)>>)
                       /\ Proper(<<Command("cli toggle", 0, num, 0)>>)
  BY OtherIs
<1>2. /\ Proper(Plain("run")) /\ NoRow(Plain("run")) /\ Proper(Plain("continue"))
      /\ Proper(Plain("list"))
  BY OtherIs DEF Plain
<1>3. CASE RunContinue
  <2>1. CASE DebugState = "HANGING" /\ Asks(BreaksApply \o Plain("run"))
    <3>1. PICK place : Well(List, place)
      BY DEF BreaksIInv
    <3>2. Proper(BreaksApply \o Plain("run"))
      BY <1>2, <3>1, AppliesAre, ProperJoined
    <3> QED
      BY <1>3, <2>1, <3>2 DEF RunContinue, Sendable
  <2>2. CASE DebugState = "DEBUG" /\ Asks(Plain("continue"))
    BY <1>2, <1>3, <2>2 DEF RunContinue, Sendable
  <2> QED
    BY <1>3, <2>1, <2>2 DEF RunContinue
<1>4. CASE OnBreakRefresh
  BY <1>2, <1>4 DEF OnBreakRefresh
<1>5. CASE CliCommand
  <2>1. CASE \E l \in Line, temp \in BOOLEAN : Asks(<<Command("break", 0, 0, Breakpoint(l, temp))>>)
    <3>1. PICK l \in Line, temp \in BOOLEAN : Asks(<<Command("break", 0, 0, Breakpoint(l, temp))>>)
      BY <2>1
    <3>2. Proper(<<Command("break", 0, 0, Breakpoint(l, temp))>>)
      BY BreakpointIs, InsertIs DEF ByUser
    <3> QED
      BY <1>5, <3>1, <3>2 DEF CliCommand
  <2>2. CASE \E n \in DOMAIN bps, what \in {"cli delete", "cli toggle"} : Asks(<<Command(what, 0, n, 0)>>)
    <3>1. PICK n \in DOMAIN bps : \/ Asks(<<Command("cli delete", 0, n, 0)>>)
                                  \/ Asks(<<Command("cli toggle", 0, n, 0)>>)
      BY <2>2
    <3>2. n \in Nat
      BY RowIs
    <3> QED
      BY <1>1, <1>5, <3>1, <3>2 DEF CliCommand
  <2> QED
    BY <1>5, <2>1, <2>2 DEF CliCommand
<1>6. CASE OnBreakWatch
  <2>1. At(0, TRUE, FALSE, TRUE) \in Arg
    <3>1. 0 \in Where /\ TRUE \in BOOLEAN /\ FALSE \in BOOLEAN /\ (TRUE <=> 0 = 0)
      BY BreaksAssumption DEF Where
    <3> QED
      BY <3>1, AtIs
  <2>2. Proper(<<Command("insert", ByUser, 0, At(0, TRUE, FALSE, TRUE))>>)
    BY <2>1, InsertIs
  <2> QED
    BY <1>6, <2>2 DEF OnBreakWatch
<1>7. ASSUME NEW l \in Line, RunToCursor(l)
      PROVE  \E cs : Sendable /\ Proper(cs) /\ Asks(cs) /\ Rest
  <2>1. Proper(<<Command("insert", RunTo, 0, Breakpoint(l, TRUE))>>)
    BY BreakpointIs, InsertIs
  <2> QED
    BY <1>7, <2>1 DEF RunToCursor, Sendable
<1>8. ASSUME NEW l \in Line, NEW temp \in BOOLEAN, OnBreakInsert(l, temp)
      PROVE  \E cs : Sendable /\ Proper(cs) /\ Asks(cs) /\ Rest
  <2>1. Proper(<<Command("insert", ByUser, 0, Breakpoint(l, temp))>>)
    BY BreakpointIs, InsertIs
  <2> QED
    BY <1>8, <2>1 DEF OnBreakInsert
<1>9. ASSUME NEW s \in DOMAIN rows, OnBreakApply(s)
      PROVE  \E cs : Sendable /\ Proper(cs) /\ Asks(cs) /\ Rest
  <2>1. PICK place : Well(List, place)
    BY DEF BreaksIInv
  <2>2. rows[s].id = 0
    BY <1>9 DEF OnBreakApply
  <2>3. /\ BreakApply(s) \in Commands /\ BreakApply(s).cmd # "load"
        /\ InsertAsked(BreakApply(s)) /\ EnableAsked(BreakApply(s))
    BY <2>1, <2>2, ApplyIs
  <2>4. Proper(<<BreakApply(s)>>)
    BY <2>3, ProperOne
  <2> QED
    BY <1>9, <2>4 DEF OnBreakApply
<1>10. ASSUME NEW s \in DOMAIN rows, OnBreakColumnEdited(s)
       PROVE  \E cs : Sendable /\ Proper(cs) /\ Asks(cs) /\ Rest
  BY <1>1, <1>10, RowIs DEF OnBreakColumnEdited
<1> QED
  BY <1>3, <1>4, <1>5, <1>6, <1>7, <1>8, <1>9, <1>10

(* breaks_delta().                                                            *)
LEMMA MovedIs ==
  ASSUME NEW row \in Row, NEW k \in Where, row.line = 0 <=> k = 0
  PROVE  LET new == Moved(row, k) IN
         new \in Row /\ new.line = k /\ new.on = row.on /\ new.id = row.id
<1> DEFINE new == Moved(row, k)
<1> DEFINE once == [row EXCEPT !.line = k]
<1>2. new = [once EXCEPT !.at = k]
  BY DEF Moved
<1>3. once = [id |-> row.id, at |-> row.at, line |-> k, on |-> row.on, temp |-> row.temp,
              watch |-> row.watch, stage |-> row.stage]
  BY DEF Row
<1> HIDE DEF once
<1>4. new = [id |-> row.id, at |-> k, line |-> k, on |-> row.on, temp |-> row.temp,
             watch |-> row.watch, stage |-> row.stage]
  BY <1>2, <1>3
<1> HIDE DEF new
<1>5. new \in Row /\ new.line = k /\ new.on = row.on /\ new.id = row.id
  BY <1>4 DEF Row
<1> QED
  BY <1>5 DEF new

(* The text is edited: the markers are those of the rows' new lines.          *)
LEMMA TextStep ==
  ASSUME BreaksIInv, session = "INACTIVE", UNCHANGED commands, Rest,
         rows' \in [DOMAIN rows' -> Row], DOMAIN rows' \subseteq DOMAIN rows,
         \A s \in DOMAIN rows' : rows'[s].id = rows[s].id,
         marked' \in [Line -> [BOOLEAN -> Nat]],
         \A l \in Line, o \in BOOLEAN :
           marked'[l][o] = Cardinality({s \in DOMAIN rows' : rows'[s].line = l /\ rows'[s].on = o})
  PROVE  BreaksIInv'
<1> DEFINE Q == [rows |-> rows', marked |-> marked', send |-> <<>>]
<1>1. \A s \in DOMAIN rows : rows[s].id = 0
  BY RowIs
<1>2. commands = <<>> /\ records = <<>>
  BY DEF BreaksIInv, SessionOK
<1>3. ASSUME NEW place, Well(List, place)
      PROVE  Well(List, place)'
  <2>1. Q = [rows |-> Q.rows, marked |-> Q.marked, send |-> Q.send] /\ Known(Q) = DOMAIN rows'
    BY DEF Known
  <2>2. Q.rows = rows' /\ Q.marked = marked' /\ Q.send \in Seq(Commands)
    OBVIOUS
  <2> HIDE DEF Q
  <2>3. \A l, o : AtLine(Q, l, o) = {s \in DOMAIN rows' : rows'[s].line = l /\ rows'[s].on = o}
    BY <2>1, <2>2 DEF AtLine
  <2>4. IsFiniteSet(Known(Q)) /\ Known(Q) \subseteq Scid
    BY <1>3, <2>1, ListIs, FS_Subset DEF Well
  <2>5. \A s \in Known(Q) : Q.rows[s].id # 0 => Q.rows[s].line = place[Q.rows[s].id]
    BY <1>1, <2>1, <2>2
  <2>6. Q.rows \in [Known(Q) -> Row]
    BY <2>1, <2>2
  <2>7. \A l \in Line, o \in BOOLEAN : Q.marked[l][o] = Cardinality(AtLine(Q, l, o))
    BY <2>2, <2>3
  <2>8. Well(Q, place)
    BY <2>1, <2>2, <2>4, <2>5, <2>6, <2>7 DEF Well
  <2> QED
    BY <2>2, <2>8, WellDone
<1>4. /\ \A s \in DOMAIN rows : rows[s].id # 0 => s \in DOMAIN rows' /\ rows'[s].id = rows[s].id
      /\ \A s \in DOMAIN rows' : rows'[s].id # 0 => s \in DOMAIN rows /\ rows'[s].id = rows[s].id
  BY <1>1
<1>5. commands = <<>> /\ \A i \in 1..Len(records) : records[i].kind # "inserted"
  BY <1>2
<1> QED
  BY <1>3, <1>4, <1>5, DoStep DEF Rest, gdbVars

LEMMA EditTextStep ==
  ASSUME BreaksIInv, PlacedWhereAsked, EditText
  PROVE  BreaksIInv'
<1> DEFINE at(l, o) == {s \in DOMAIN rows : rows[s].line = l /\ rows[s].on = o}
           after(l, o) == {s \in DOMAIN rows' : rows'[s].line = l /\ rows'[s].on = o}
<1>1. session = "INACTIVE" /\ UNCHANGED commands /\ Rest
  BY DEF EditText
<1>2. PICK place : Well(List, place)
  BY DEF BreaksIInv
<1>3. /\ \A s \in DOMAIN rows : rows[s] \in Row /\ rows[s].line \in Where
      /\ marked \in [Line -> [BOOLEAN -> Nat]]
      /\ \A l \in Line, o \in BOOLEAN : marked[l][o] = Cardinality(at(l, o))
  <2>1. \A l, o : AtLine(List, l, o) = at(l, o)
    BY ListIs DEF AtLine
  <2> HIDE DEF at
  <2>2. \A s \in DOMAIN rows : rows[s] \in Row
    BY <1>2, ListIs DEF Well
  <2>3. \A l \in Line, o \in BOOLEAN : marked[l][o] = Cardinality(at(l, o))
    BY <1>2, <2>1, ListIs DEF Well
  <2>4. marked \in [Line -> [BOOLEAN -> Nat]]
    BY <1>2, ListIs DEF Well
  <2> QED
    BY <2>2, <2>3, <2>4 DEF Row
<1>4. Lines \in Nat /\ Line = 1..Lines /\ Where = 0..Lines
  BY BreaksAssumption DEF Line, Where
<1>5. SplitsLines = FALSE
  BY BreaksAssumption DEF PlacedWhereAsked
<1> HIDE DEF at
<1>6. ASSUME NEW start \in Line,
             \A s \in DOMAIN rows : rows[s].line < Lines,
             rows' = [s \in DOMAIN rows |-> Moved(rows[s],
                       [line \in 0..Lines |-> IF line >= start THEN line + 1 ELSE line][rows[s].line])],
             marked' = [l \in Line |-> IF l < start THEN marked[l]
                                       ELSE IF l = start THEN [on \in BOOLEAN |-> 0]
                                       ELSE marked[l - 1]]
      PROVE  BreaksIInv'
  <2>1. ASSUME NEW s \in DOMAIN rows
        PROVE  /\ rows'[s] \in Row /\ rows'[s].id = rows[s].id /\ rows'[s].on = rows[s].on
               /\ rows'[s].line = IF rows[s].line >= start THEN rows[s].line + 1 ELSE rows[s].line
    <3> DEFINE line == rows[s].line
               k == IF line >= start THEN line + 1 ELSE line
    <3>1. k \in Where /\ (line = 0 <=> k = 0)
      BY <1>3, <1>4, <1>6
    <3>2. rows'[s] = Moved(rows[s], k)
      BY <1>3, <1>4, <1>6
    <3> HIDE DEF k
    <3>3. /\ rows'[s] \in Row /\ rows'[s].id = rows[s].id /\ rows'[s].on = rows[s].on
          /\ rows'[s].line = k
      BY <1>3, <3>1, <3>2, MovedIs
    <3> QED
      BY <3>3 DEF k
  <2>2. DOMAIN rows' = DOMAIN rows /\ rows' \in [DOMAIN rows' -> Row]
    BY <1>6, <2>1
  <2>3. marked' \in [Line -> [BOOLEAN -> Nat]]
    BY <1>3, <1>4, <1>6
  <2>4. ASSUME NEW l \in Line, NEW o \in BOOLEAN
        PROVE  marked'[l][o] = Cardinality(after(l, o))
    <3>1. CASE l < start
      <4>1. after(l, o) = at(l, o)
        BY <1>3, <1>4, <2>1, <2>2, <3>1 DEF at
      <4> QED
        BY <1>3, <1>6, <3>1, <4>1
    <3>2. CASE l = start
      <4>1. after(l, o) = {}
        BY <1>3, <1>4, <2>1, <2>2, <3>2
      <4>2. marked'[l] = [on \in BOOLEAN |-> 0]
        BY <1>4, <1>6, <3>2
      <4>3. marked'[l][o] = 0
        BY <4>2
      <4> QED
        BY <4>1, <4>3, FS_EmptySet
    <3>3. CASE l > start
      <4>1. after(l, o) = at(l - 1, o)
        BY <1>3, <1>4, <2>1, <2>2, <3>3 DEF at
      <4>2. l - 1 \in Line /\ marked'[l] = marked[l - 1]
        BY <1>4, <1>6, <3>3
      <4> QED
        BY <1>3, <4>1, <4>2
    <3> QED
      BY <1>4, <3>1, <3>2, <3>3
  <2> QED
    BY <1>1, <2>1, <2>2, <2>3, <2>4, TextStep
<1>7. ASSUME NEW start \in Line, start < Lines,
             LET joined == {s \in DOMAIN rows : rows[s].line = start}
                 merged == [l \in Line |-> [on \in BOOLEAN |->
                             IF l < start THEN marked[l][on]
                             ELSE IF l = start THEN marked[l][on] + marked[l + 1][on]
                             ELSE IF l < Lines THEN marked[l + 1][on] ELSE 0]]
                 P == BreakRemove([List EXCEPT !.marked = merged], joined)
             IN  /\ marked' = P.marked
                 /\ rows' = [s \in Known(P) |-> [t \in DOMAIN rows |-> Moved(rows[t],
                      [line \in 0..Lines |-> IF line > start THEN line - 1 ELSE line][rows[t].line])][s]]
      PROVE  BreaksIInv'
  <2> DEFINE joined == {s \in DOMAIN rows : rows[s].line = start}
             merged == [l \in Line |-> [on \in BOOLEAN |->
                         IF l < start THEN marked[l][on]
                         ELSE IF l = start THEN marked[l][on] + marked[l + 1][on]
                         ELSE IF l < Lines THEN marked[l + 1][on] ELSE 0]]
             M == [List EXCEPT !.marked = merged]
             P == BreakRemove(M, joined)
             marks(l, o) == Cardinality({s \in joined : rows[s].line = l /\ rows[s].on = o})
  <2>1. M.rows = rows /\ M.marked = merged /\ M = [rows |-> rows, marked |-> merged, send |-> <<>>]
    <3> HIDE DEF merged
    <3> QED
      BY DEF List
  <2>2. /\ P.rows = [t \in DOMAIN rows \ joined |-> rows[t]]
        /\ P.marked = [l \in Line |-> [o \in BOOLEAN |->
             IF merged[l][o] < marks(l, o) THEN 0 ELSE merged[l][o] - marks(l, o)]]
    <3> HIDE DEF joined, merged, M
    <3> QED
      BY <2>1 DEF BreakRemove, Known
  <2>3. /\ marked' = P.marked
        /\ rows' = [s \in DOMAIN rows \ joined |-> Moved(rows[s],
             [line \in 0..Lines |-> IF line > start THEN line - 1 ELSE line][rows[s].line])]
    <3>1. Known(P) = DOMAIN rows \ joined
      BY <2>2 DEF Known
    <3> QED
      BY <1>7, <3>1
  <2> HIDE DEF P, M
  <2>4. ASSUME NEW s \in DOMAIN rows \ joined
        PROVE  /\ rows'[s] \in Row /\ rows'[s].id = rows[s].id /\ rows'[s].on = rows[s].on
               /\ rows'[s].line = IF rows[s].line > start THEN rows[s].line - 1 ELSE rows[s].line
    <3> DEFINE line == rows[s].line
               k == IF line > start THEN line - 1 ELSE line
    <3>1. k \in Where /\ (line = 0 <=> k = 0)
      BY <1>3, <1>4
    <3>2. rows'[s] = Moved(rows[s], k)
      BY <1>3, <1>4, <2>3
    <3> HIDE DEF k
    <3>3. /\ rows'[s] \in Row /\ rows'[s].id = rows[s].id /\ rows'[s].on = rows[s].on
          /\ rows'[s].line = k
      BY <1>3, <3>1, <3>2, MovedIs
    <3> QED
      BY <3>3 DEF k
  <2>5. DOMAIN rows' = DOMAIN rows \ joined /\ rows' \in [DOMAIN rows' -> Row]
    BY <2>3, <2>4
  <2>6. \A s \in DOMAIN rows' : s \in DOMAIN rows /\ rows[s].line # start
    BY <2>5
  <2>7. \A s \in DOMAIN rows : rows[s].line # start => s \in DOMAIN rows'
    BY <2>5
  <2>8. ASSUME NEW l \in Line, NEW o \in BOOLEAN
        PROVE  marks(l, o) = IF l = start THEN marked[l][o] ELSE 0
    <3>1. CASE l = start
      <4>1. {s \in joined : rows[s].line = l /\ rows[s].on = o} = at(l, o)
        BY <3>1 DEF at
      <4> QED
        BY <1>3, <3>1, <4>1
    <3>2. CASE l # start
      <4>1. {s \in joined : rows[s].line = l /\ rows[s].on = o} = {}
        BY <3>2
      <4> QED
        BY <3>2, <4>1, FS_EmptySet
    <3> QED
      BY <3>1, <3>2
  <2> HIDE DEF joined, marks
  <2>9. ASSUME NEW l \in Line, NEW o \in BOOLEAN
        PROVE  /\ marked'[l][o] = IF l < start THEN marked[l][o]
                                  ELSE IF l < Lines THEN marked[l + 1][o] ELSE 0
               /\ marked[l][o] \in Nat
               /\ l < Lines => marked[l + 1][o] \in Nat
    <3>1. marked[l][o] \in Nat
      BY <1>3
    <3>2. l < Lines => l + 1 \in Line /\ marked[l + 1][o] \in Nat
      BY <1>3, <1>4
    <3>3. merged[l][o] = IF l < start THEN marked[l][o]
                         ELSE IF l = start THEN marked[l][o] + marked[l + 1][o]
                         ELSE IF l < Lines THEN marked[l + 1][o] ELSE 0
      OBVIOUS
    <3> HIDE DEF merged
    <3>4. marked'[l][o] = IF merged[l][o] < marks(l, o) THEN 0 ELSE merged[l][o] - marks(l, o)
      BY <2>2, <2>3
    <3> QED
      BY <1>4, <1>7, <2>8, <3>1, <3>2, <3>3, <3>4
  <2>10. marked' \in [Line -> [BOOLEAN -> Nat]]
    <3>1. \A l \in Line, o \in BOOLEAN : marked'[l][o] \in Nat
      BY <1>4, <2>9
    <3>2. marked' = [l \in Line |-> [o \in BOOLEAN |-> marked'[l][o]]]
      BY <2>2, <2>3
    <3>3. [l \in Line |-> [o \in BOOLEAN |-> marked'[l][o]]] \in [Line -> [BOOLEAN -> Nat]]
      BY <3>1
    <3> QED
      BY <3>2, <3>3, Zenon
  <2>11. ASSUME NEW l \in Line, NEW o \in BOOLEAN
         PROVE  marked'[l][o] = Cardinality(after(l, o))
    <3> HIDE DEF merged
    <3>0. l \in Int /\ start \in Int /\ Lines \in Int /\ (l < Lines => l + 1 \in Line)
      BY <1>4
    <3>1. CASE l < start
      <4>1. after(l, o) = at(l, o)
        BY <1>3, <1>4, <2>4, <2>5, <2>6, <2>7, <3>1 DEF at
      <4> QED
        BY <1>3, <2>9, <3>1, <4>1
    <3>2. CASE l >= start /\ l < Lines
      <4>1. ASSUME NEW s
            PROVE  s \in after(l, o) <=> s \in at(l + 1, o)
        <5>1. CASE s \in DOMAIN rows'
          <6>1. /\ s \in DOMAIN rows \ joined /\ rows[s].line # start /\ rows[s].line \in 0..Lines
                /\ rows'[s].on = rows[s].on
                /\ rows'[s].line = IF rows[s].line > start THEN rows[s].line - 1 ELSE rows[s].line
            BY <1>3, <1>4, <2>4, <2>5, <2>6, <5>1
          <6>2. rows'[s].line = l <=> rows[s].line = l + 1
            BY <3>0, <3>2, <6>1
          <6> QED
            BY <5>1, <6>1, <6>2 DEF at
        <5>2. CASE s \notin DOMAIN rows'
          <6>1. s \in DOMAIN rows => rows[s].line = start
            BY <2>7, <5>2
          <6> QED
            BY <3>0, <3>2, <5>2, <6>1 DEF at
        <5> QED
          BY <5>1, <5>2
      <4>2. ~(l < start) /\ l + 1 \in Line /\ after(l, o) = at(l + 1, o)
        BY <3>0, <3>2, <4>1
      <4>3. marked'[l][o] = marked[l + 1][o]
        BY <2>9, <3>2, <4>2
      <4> QED
        BY <1>3, <4>2, <4>3
    <3>3. CASE l >= start /\ l = Lines
      <4>1. ASSUME NEW s \in DOMAIN rows'
            PROVE  rows'[s].line # l
        <5>1. /\ s \in DOMAIN rows \ joined /\ rows[s].line # start /\ rows[s].line \in 0..Lines
              /\ rows'[s].line = IF rows[s].line > start THEN rows[s].line - 1 ELSE rows[s].line
          BY <1>3, <1>4, <2>4, <2>5, <2>6
        <5> QED
          BY <1>7, <3>0, <3>3, <5>1
      <4>2. after(l, o) = {} /\ ~(l < start) /\ ~(l < Lines)
        BY <3>0, <3>3, <4>1
      <4>3. marked'[l][o] = 0
        BY <2>9, <4>2
      <4> QED
        BY <4>2, <4>3, FS_EmptySet
    <3> QED
      BY <1>4, <3>1, <3>2, <3>3
  <2> QED
    BY <1>1, <2>4, <2>5, <2>10, <2>11, TextStep
<1> QED
  BY <1>5, <1>6, <1>7 DEF EditText, Moved

--------------------------------------------------------------------------------
(* GDB: what it does and says                                                 *)

(* GDB keeps its breakpoints where they are, and numbers a new one.           *)
Keeps ==
  /\ bps' \in Breaks /\ given' \in 0..MaxBreaks
  /\ \/ given' = given /\ DOMAIN bps' \subseteq DOMAIN bps
     \/ given' = given + 1 /\ DOMAIN bps' = DOMAIN bps \cup {given'}
  /\ \A n \in DOMAIN bps \cap DOMAIN bps' : bps'[n].line = bps[n].line

(* It tells of breakpoints it has or had, and of those as gone that are.      *)
ToldOf(r) ==
  /\ \A n \in DOMAIN r.breaks : \/ n \in DOMAIN bps /\ r.breaks[n].line = bps[n].line
                                \/ n \in DOMAIN bps' /\ r.breaks[n].line = bps'[n].line
  /\ r.kind \in {"removed", "deleted", "edited"} => r.token \in DOMAIN bps
  /\ r.kind = "hit" => r.token \in DOMAIN bps \cup {0}
  /\ \A n \in DOMAIN bps' : ~Removes(r, n)

(* It answers the command it executed.                                        *)
Executed(c, r) ==
  /\ r.kind = "inserted" =>
       /\ c.cmd = "insert" /\ c.token = r.token
       /\ given' = given + 1 /\ DOMAIN r.breaks = {given'} /\ r.breaks[given'].line = c.arg.at
  /\ r.kind = "loaded" => c.cmd = "load"
  /\ r.kind \in {"enabled", "disabled"} =>
       /\ c.cmd \in {"enable", "disable"} /\ c.token = r.token
       /\ c.token # 0 /\ c.num \in DOMAIN bps

Answered(c, rs) ==
  /\ \A i \in 1..Len(rs) : Executed(c, rs[i])
  /\ \A i \in 1..Len(rs) : rs[i].kind \in {"inserted", "loaded", "enabled", "disabled"} => Len(rs) = 1
  /\ c.cmd = "load" => target' = target
  /\ c.cmd = "features" =>
       target' = target /\ \A i \in 1..Len(rs) : rs[i].kind \in {"features", "error"}

Unasked(rs) ==
  \A i \in 1..Len(rs) : rs[i].kind \notin {"inserted", "loaded", "enabled", "disabled"}

(* Commands are taken from the front.                                         *)
LEMMA Taken ==
  ASSUME NEW S, NEW q \in Seq(S), q # <<>>
  PROVE  /\ Head(q) \in S /\ Head(q) = q[1] /\ Tail(q) \in Seq(S) /\ Len(q) \in Nat \ {0}
         /\ Len(Tail(q)) = Len(q) - 1
         /\ \A i \in 1..Len(Tail(q)) : Tail(q)[i] = q[i + 1] /\ i + 1 \in 1..Len(q)
OBVIOUS

(* GDB answers the first command, or tells of what happens in the program.    *)
LEMMA AnswerStep ==
  ASSUME BreaksIInv, NEW rs \in Seq(Records), Answers(rs), Keeps,
         target' \in {"none", "running", "stopped"}, session = "ACTIVE",
         \A i \in 1..Len(rs) : ToldOf(rs[i]),
         \/ commands # <<>> /\ commands' = Tail(commands) /\ Answered(Head(commands), rs)
         \/ commands' = commands /\ target # "none" /\ Unasked(rs)
  PROVE  BreaksIInv'
<1> DEFINE c == Head(commands)
           Asking == commands # <<>> /\ commands' = Tail(commands) /\ Answered(c, rs)
           n0 == Len(records)
<1>1. /\ records' = records \o rs /\ rows' = rows /\ marked' = marked
      /\ session' = session /\ prog' = prog /\ dirty' = dirty
  BY DEF Answers
<1>2. /\ commands \in Seq(Commands) /\ records \in Seq(Records) /\ bps \in Breaks /\ given \in 0..MaxBreaks
      /\ MaxBreaks \in Nat /\ DOMAIN bps \subseteq 1..given
  BY BreaksAssumption DEF BreaksIInv, SessionOK, NumbersGiven
<1>3. /\ records' \in Seq(Records) /\ Len(records') = n0 + Len(rs) /\ n0 \in Nat /\ Len(rs) \in Nat
      /\ \A i \in 1..Len(records') : \/ i \in 1..n0 /\ records'[i] = records[i]
                                     \/ i - n0 \in 1..Len(rs) /\ records'[i] = rs[i - n0]
  BY <1>1, <1>2, Joined
<1>4. commands # <<>> =>
        /\ c \in Commands /\ c = commands[1] /\ Tail(commands) \in Seq(Commands)
        /\ Len(commands) \in Nat \ {0} /\ Len(Tail(commands)) = Len(commands) - 1
        /\ \A i \in 1..Len(Tail(commands)) : Tail(commands)[i] = commands[i + 1] /\ i + 1 \in 1..Len(commands)
  BY <1>2, Taken
<1> HIDE DEF c, n0
<1>5. /\ commands' \in Seq(Commands)
      /\ \A i \in 1..Len(commands') : \E j \in 1..Len(commands) :
           /\ commands'[i] = commands[j] /\ (j = i \/ j = i + 1) 
           /\ Asking => j = i + 1
  <2>1. CASE Asking
    BY <1>4, <2>1
  <2>2. CASE ~Asking
    BY <1>2, <2>2 DEF c
  <2> QED
    BY <2>1, <2>2
<1>6. SessionOK'
  BY <1>1, <1>3, <1>5 DEF BreaksIInv, SessionOK, Keeps
<1>7. given' \in Nat /\ given \in Nat /\ given <= given' /\ DOMAIN bps' \subseteq 1..given'
  BY <1>2 DEF Keeps
<1>8. \A i \in 1..Len(records') : DOMAIN records'[i].breaks \subseteq 1..given'
  <2>1. \A i \in 1..n0 : DOMAIN records[i].breaks \subseteq 1..given'
    BY <1>7 DEF BreaksIInv, NumbersGiven, n0
  <2>2. ASSUME NEW i \in 1..Len(rs)
        PROVE  DOMAIN rs[i].breaks \subseteq 1..given'
    <3>1. DOMAIN bps \subseteq 1..given'
      BY <1>2, <1>7
    <3>2. \A n \in DOMAIN rs[i].breaks : n \in DOMAIN bps \/ n \in DOMAIN bps'
      BY DEF ToldOf
    <3> QED
      BY <1>7, <3>1, <3>2
  <2> QED
    BY <1>3, <1>7, <2>1, <2>2
<1>9. NumbersGiven'
  <2>1. \A s \in DOMAIN rows' : rows'[s].id \in 0..given'
    BY <1>1, <1>7 DEF BreaksIInv, NumbersGiven
  <2> QED
    BY <1>7, <1>8, <2>1 DEF NumbersGiven
<1>10. InsertsRow'
  <2>1. /\ \A k : InsertAsked(k) => InsertAsked(k)'
        /\ \A r : InsertTold(r) => InsertTold(r)'
    BY <1>1, <1>7 DEF InsertAsked, InsertTold
  <2>2. ASSUME NEW i \in 1..Len(rs)
        PROVE  InsertTold(rs[i])'
    <3> DEFINE r == rs[i]
    <3>1. CASE r.kind = "inserted"
      <4>1. Asking
        BY <3>1 DEF Unasked, c
      <4>2. /\ c.cmd = "insert" /\ c.token = r.token
            /\ given' = given + 1 /\ DOMAIN r.breaks = {given'} /\ r.breaks[given'].line = c.arg.at
        BY <3>1, <4>1 DEF Answered, Executed
      <4>3. InsertAsked(c)
        BY <1>4, <4>1 DEF BreaksIInv, InsertsRow
      <4>4. given' \in 1..given'
        BY <1>7, <4>2
      <4> HIDE DEF r
      <4>5. InsertTold(r)'
        BY <1>1, <4>2, <4>3, <4>4 DEF InsertTold, InsertAsked
      <4> QED
        BY <4>5 DEF r
    <3>2. CASE r.kind # "inserted"
      BY <3>2 DEF InsertTold
    <3> QED
      BY <3>1, <3>2
  <2> QED
    BY <1>3, <1>5, <2>1, <2>2 DEF BreaksIInv, InsertsRow, n0
<1>11. InsertsOnce'
  <2>1. ASSUME NEW i \in 1..Len(rs), NEW s \in Scid, HasInserted(rs[i], s)
        PROVE  /\ Asking /\ Inserts(c, s) /\ i = 1 /\ Len(rs) = 1
               /\ \A j \in 1..Len(commands') : ~Inserts(commands'[j], s)
               /\ \A j \in 1..n0 : ~HasInserted(records[j], s)
    <3>1. Asking
      BY <2>1 DEF Unasked, HasInserted, c
    <3>2. Inserts(c, s) /\ Len(rs) = 1
      BY <2>1, <3>1 DEF Answered, Executed, HasInserted, Inserts
    <3>3. 1 \in 1..Len(commands) /\ Inserts(commands[1], s)
      BY <1>4, <3>1, <3>2
    <3>4. ASSUME NEW j \in 1..Len(commands')
          PROVE  ~Inserts(commands'[j], s)
      <4>1. commands'[j] = commands[j + 1] /\ j + 1 \in 1..Len(commands) /\ j + 1 # 1
        BY <1>4, <3>1
      <4> QED
        BY <3>3, <4>1 DEF BreaksIInv, InsertsOnce, Once
    <3>5. \A j \in 1..n0 : ~HasInserted(records[j], s)
      BY <3>3 DEF BreaksIInv, InsertsOnce, n0
    <3> QED
      BY <3>1, <3>2, <3>4, <3>5
  <2>2. Once(commands')
    <3>1. Once(commands)
      BY DEF BreaksIInv, InsertsOnce
    <3>2. CASE Asking
      <4> SUFFICES ASSUME NEW s \in Scid, NEW i \in 1..Len(commands'), NEW j \in 1..Len(commands'),
                          Inserts(commands'[i], s), Inserts(commands'[j], s)
                   PROVE  i = j
        BY DEF Once
      <4>1. /\ commands'[i] = commands[i + 1] /\ i + 1 \in 1..Len(commands)
            /\ commands'[j] = commands[j + 1] /\ j + 1 \in 1..Len(commands)
        BY <1>4, <3>2
      <4>2. i + 1 = j + 1
        BY <3>1, <4>1 DEF Once
      <4> QED
        BY <4>2
    <3>3. CASE commands' = commands
      BY <3>1, <3>3
    <3> QED
      BY <3>2, <3>3 DEF c
  <2>3. ASSUME NEW s \in Scid, NEW i \in 1..Len(records'), NEW j \in 1..Len(records'),
               HasInserted(records'[i], s), HasInserted(records'[j], s)
        PROVE  i = j
    <3>1. CASE i \in 1..n0 /\ records'[i] = records[i]
      <4>1. j \in 1..n0 /\ records'[j] = records[j]
        BY <1>3, <2>1, <2>3, <3>1
      <4> QED
        BY <2>3, <3>1, <4>1 DEF BreaksIInv, InsertsOnce, n0
    <3>2. CASE i - n0 \in 1..Len(rs) /\ records'[i] = rs[i - n0]
      <4>1. i - n0 = 1 /\ ~(j \in 1..n0 /\ records'[j] = records[j])
        BY <2>1, <2>3, <3>2
      <4>2. j - n0 \in 1..Len(rs) /\ records'[j] = rs[j - n0]
        BY <1>3, <4>1
      <4>3. j - n0 = 1
        BY <2>1, <2>3, <4>2
      <4> QED
        BY <1>3, <4>1, <4>3
    <3> QED
      BY <1>3, <3>1, <3>2
  <2>4. ASSUME NEW s \in Scid, NEW i \in 1..Len(commands'), NEW j \in 1..Len(records'),
               Inserts(commands'[i], s), HasInserted(records'[j], s)
        PROVE  FALSE
    <3>1. CASE j \in 1..n0 /\ records'[j] = records[j]
      BY <1>5, <2>4, <3>1 DEF BreaksIInv, InsertsOnce, n0
    <3>2. CASE j - n0 \in 1..Len(rs) /\ records'[j] = rs[j - n0]
      BY <2>1, <2>4, <3>2
    <3> QED
      BY <1>3, <3>1, <3>2
  <2> QED
    BY <2>2, <2>3, <2>4 DEF InsertsOnce, Once, Inserts, HasInserted
<1>12. LoadFirst'
  <2>1. ASSUME NEW i \in 1..Len(commands'), commands'[i].cmd = "load"
        PROVE  FALSE
    <3>1. PICK j \in 1..Len(commands) : /\ commands'[i] = commands[j] /\ (j = i \/ j = i + 1)
                                        /\ Asking => j = i + 1
      BY <1>5
    <3>2. j = 1 /\ target = "none"
      BY <2>1, <3>1 DEF BreaksIInv, LoadFirst
    <3> QED
      BY <3>1, <3>2 DEF c
  <2>2. ASSUME NEW i \in 1..Len(records'), records'[i].kind = "loaded"
        PROVE  /\ i = 1 /\ target' = "none"
               /\ \A j \in 1..Len(commands') : commands'[j].cmd = "features"
               /\ \A j \in 1..Len(records') : j > 1 => records'[j].kind \in {"features", "error"}
    <3>1. CASE i \in 1..n0 /\ records'[i] = records[i]
      <4>1. /\ i = 1 /\ target = "none"
            /\ \A j \in 1..Len(commands) : commands[j].cmd = "features"
            /\ \A j \in 1..n0 : j > 1 => records[j].kind \in {"features", "error"}
        BY <2>2, <3>1 DEF BreaksIInv, LoadFirst, n0
      <4>2. Asking /\ c.cmd = "features"
        BY <1>4, <4>1 DEF c
      <4>3. target' = target /\ \A j \in 1..Len(rs) : rs[j].kind \in {"features", "error"}
        BY <4>2 DEF Answered
      <4>4. \A j \in 1..Len(commands') : commands'[j].cmd = "features"
        BY <1>5, <4>1
      <4>5. \A j \in 1..Len(records') : j > 1 => records'[j].kind \in {"features", "error"}
        BY <1>3, <4>1, <4>3
      <4> QED
        BY <4>1, <4>3, <4>4, <4>5
    <3>2. CASE i - n0 \in 1..Len(rs) /\ records'[i] = rs[i - n0]
      <4>1. Asking /\ c.cmd = "load" /\ Len(rs) = 1 /\ target' = target
        BY <2>2, <3>2 DEF Unasked, Answered, Executed, c
      <4>2. /\ records = <<>> /\ target = "none"
            /\ \A j \in 1..Len(commands) : j > 1 => commands[j].cmd = "features"
        BY <1>4, <4>1 DEF BreaksIInv, LoadFirst
      <4>3. \A j \in 1..Len(commands') : commands'[j].cmd = "features"
        BY <1>5, <4>1, <4>2
      <4>4. n0 = 0 /\ Len(records') = 1
        BY <1>3, <4>1, <4>2 DEF n0
      <4> QED
        BY <4>1, <4>2, <4>3, <4>4
    <3> QED
      BY <1>3, <2>2, <3>1, <3>2
  <2> QED
    BY <2>1, <2>2 DEF LoadFirst
<1>13. ASSUME NEW r, NEW n, Removes(r, n), n \in DOMAIN bps', n \notin DOMAIN bps,
              r.kind \in {"removed", "deleted"} => r.token \in 1..given,
              r.kind = "hit" => r.token \in 0..given
       PROVE  /\ \A s \in DOMAIN rows : rows[s].id # n
              /\ \A i \in 1..n0 : n \notin DOMAIN records[i].breaks
  <2>1. n = given + 1
    BY <1>13 DEF Keeps
  <2>2. n \notin 0..given
    BY <1>7, <2>1
  <2> QED
    BY <1>7, <2>2 DEF BreaksIInv, NumbersGiven, n0
<1>14. RemovesGone'
  <2>1. \A i \in 1..Len(records') :
          /\ records'[i].kind \in {"removed", "deleted", "edited"} => records'[i].token \in 1..given'
          /\ records'[i].kind = "hit" => records'[i].token \in 0..given'
    <3>1. ASSUME NEW i \in 1..n0
          PROVE  /\ records[i].kind \in {"removed", "deleted", "edited"} => records[i].token \in 1..given'
                 /\ records[i].kind = "hit" => records[i].token \in 0..given'
      BY <1>7 DEF BreaksIInv, RemovesGone, n0
    <3>2. ASSUME NEW i \in 1..Len(rs)
          PROVE  /\ rs[i].kind \in {"removed", "deleted", "edited"} => rs[i].token \in 1..given'
                 /\ rs[i].kind = "hit" => rs[i].token \in 0..given'
      BY <1>2, <1>7 DEF ToldOf
    <3> QED
      BY <1>3, <3>1, <3>2
  <2>2. ASSUME NEW i \in 1..Len(records'), NEW n \in DOMAIN bps', Removes(records'[i], n)
        PROVE  /\ \A s \in DOMAIN rows : rows[s].id # n
               /\ \A j \in 1..(i - 1) : n \notin DOMAIN records'[j].breaks
    <3>1. i \in 1..n0 /\ records'[i] = records[i]
      BY <1>3, <2>2 DEF ToldOf
    <3>2. \A j \in 1..(i - 1) : j \in 1..n0 /\ records'[j] = records[j]
      BY <1>1, <1>2, <1>3, <3>1 DEF n0
    <3>3. CASE n \in DOMAIN bps
      BY <2>2, <3>1, <3>2, <3>3 DEF BreaksIInv, RemovesGone, n0
    <3>4. CASE n \notin DOMAIN bps
      <4>1. /\ records[i].kind \in {"removed", "deleted"} => records[i].token \in 1..given
            /\ records[i].kind = "hit" => records[i].token \in 0..given
        BY <3>1 DEF BreaksIInv, RemovesGone, n0
      <4> QED
        BY <1>13, <2>2, <3>1, <3>2, <3>4, <4>1
    <3> QED
      BY <3>3, <3>4
  <2> QED
    BY <1>1, <2>1, <2>2 DEF RemovesGone, Removes
<1>15. EnablesRow'
  <2>1. ASSUME NEW k, EnableAsked(k), k.num \in Nat
        PROVE  EnableAsked(k)'
    <3>1. \A m \in Nat : m <= given /\ m \in DOMAIN bps' => m \in DOMAIN bps
      BY <1>7 DEF Keeps
    <3>2. k.num <= given => k.num <= given'
      BY <1>7, <2>1
    <3> QED
      BY <1>1, <2>1, <3>1, <3>2 DEF EnableAsked
  <2>2. \A i \in 1..Len(commands) : EnableAsked(commands[i]) /\ commands[i].num \in Nat
    <3>1. \A i \in 1..Len(commands) : commands[i] \in Commands
      BY <1>2
    <3> QED
      BY <3>1 DEF BreaksIInv, EnablesRow, Commands
  <2>3. ASSUME NEW i \in 1..Len(records'), records'[i].kind \in {"enabled", "disabled"}
        PROVE  /\ records'[i].token \in DOMAIN rows
               /\ rows[records'[i].token].id # 0
               /\ \A j \in 1..(i - 1) : ~Removes(records'[j], rows[records'[i].token].id)
    <3>1. CASE i \in 1..n0 /\ records'[i] = records[i]
      <4>1. \A j \in 1..(i - 1) : j \in 1..n0 /\ records'[j] = records[j]
        BY <1>1, <1>2, <1>3, <3>1 DEF n0
      <4> QED
        BY <2>3, <3>1, <4>1 DEF BreaksIInv, EnablesRow, n0
    <3>2. CASE i - n0 \in 1..Len(rs) /\ records'[i] = rs[i - n0]
      <4> DEFINE r == rs[i - n0]
      <4>1. Asking
        BY <2>3, <3>2 DEF Unasked, c
      <4>2. /\ c.cmd \in {"enable", "disable"} /\ c.token = r.token
            /\ c.token # 0 /\ c.num \in DOMAIN bps /\ Len(rs) = 1
        BY <2>3, <3>2, <4>1 DEF Answered, Executed
      <4>3. EnableAsked(c)
        BY <1>4, <2>2, <4>1
      <4>4. r.token \in DOMAIN rows /\ rows[r.token].id = c.num /\ c.num # 0
        BY <1>2, <4>2, <4>3 DEF EnableAsked
      <4>5. \A j \in 1..(i - 1) : j \in 1..n0 /\ records'[j] = records[j]
        BY <1>1, <1>2, <1>3, <3>2, <4>2 DEF n0
      <4>6. \A j \in 1..n0 : ~Removes(records[j], c.num)
        BY <4>2, <4>4 DEF BreaksIInv, RemovesGone, n0
      <4> QED
        BY <3>2, <4>4, <4>5, <4>6
    <3> QED
      BY <1>3, <3>1, <3>2
  <2> QED
    BY <1>1, <1>5, <2>1, <2>2, <2>3 DEF EnablesRow, Removes
<1>16. \E place : Places(place)' /\ Well(List, place)'
  <2>1. PICK place : Places(place) /\ Well(List, place)
    BY DEF BreaksIInv
  <2>2. ASSUME NEW to, to \in [1..MaxBreaks -> Where], \A n \in 1..given : to[n] = place[n],
               \A n \in DOMAIN bps' : bps'[n].line = to[n]
        PROVE  Places(to)' /\ Well(List, to)'
    <3>1. \A i \in 1..n0 : \A n \in DOMAIN records[i].breaks : records[i].breaks[n].line = to[n]
      BY <2>1, <2>2 DEF Places, BreaksIInv, NumbersGiven, n0
    <3>2. ASSUME NEW i \in 1..Len(rs), NEW n \in DOMAIN rs[i].breaks
          PROVE  rs[i].breaks[n].line = to[n]
      <4>1. \A m \in DOMAIN bps : bps[m].line = to[m]
        BY <1>2, <2>1, <2>2 DEF Places
      <4> QED
        BY <2>2, <4>1 DEF ToldOf
    <3>3. Places(to)'
      BY <1>3, <2>2, <3>1, <3>2 DEF Places
    <3>4. Well(List, to)
      <4>1. \A s \in Known(List) : List.rows[s].id # 0 => List.rows[s].line = to[List.rows[s].id]
        BY <1>7, <2>1, <2>2, ListIs DEF Well, BreaksIInv, NumbersGiven
      <4> QED
        BY <2>1, <4>1 DEF Well
    <3>5. rows' = List.rows /\ marked' = List.marked
      BY <1>1, ListIs
    <3> QED
      BY <3>3, <3>4, <3>5, WellDone
  <2>3. CASE given' = given /\ DOMAIN bps' \subseteq DOMAIN bps
    BY <2>1, <2>2, <2>3 DEF Places, Keeps
  <2>4. CASE given' = given + 1 /\ DOMAIN bps' = DOMAIN bps \cup {given'}
    <3> DEFINE new == bps'[given'].line
               to == [place EXCEPT ![given'] = new]
    <3>1. new \in Where /\ given' \in 1..MaxBreaks
      BY <1>2, <1>7, <2>4 DEF Keeps, Breaks, Break
    <3>2. to \in [1..MaxBreaks -> Where] /\ \A n \in 1..given : to[n] = place[n]
      BY <1>7, <2>1, <2>4, <3>1 DEF Places
    <3>3. \A n \in DOMAIN bps' : bps'[n].line = to[n]
      BY <1>2, <2>1, <2>4, <3>1 DEF Places, Keeps
    <3> HIDE DEF to
    <3> QED
      BY <2>2, <3>2, <3>3
  <2> QED
    BY <2>3, <2>4 DEF Keeps
<1> QED
  BY <1>6, <1>9, <1>10, <1>11, <1>12, <1>14, <1>15, <1>16 DEF BreaksIInv

LEMMA RecordIs ==
  ASSUME NEW kind \in Told, NEW token \in Int, NEW breaks \in Breaks
  PROVE  LET r == Record(kind, token, breaks) IN
         r \in Records /\ r.kind = kind /\ r.token = token /\ r.breaks = breaks
BY DEF Record, Records

LEMMA KindIs ==
  ASSUME NEW kind \in {"loaded", "error", "features", "inserted", "enabled", "disabled", "removed",
                       "edited", "info", "list", "running", "done", "created", "deleted", "hit", "exited"}
  PROVE  kind \in Told
BY Zenon DEF Told, Results

LEMMA NoBreaksIs == NoBreaks \in Breaks /\ DOMAIN NoBreaks = {}
<1>1. NoBreaks \in [{} -> Break] /\ {} \in SUBSET (1..MaxBreaks)
  BY DEF NoBreaks
<1> QED
  BY <1>1 DEF Breaks, NoBreaks

LEMMA BreaksAre ==
  ASSUME NEW b \in Breaks
  PROVE  /\ DOMAIN b \subseteq 1..MaxBreaks /\ b \in [DOMAIN b -> Break]
         /\ \A S \in SUBSET (1..MaxBreaks) : \A f \in [S -> Break] : f \in Breaks
BY DEF Breaks

LEMMA OnlyIs ==
  ASSUME NEW n \in 1..MaxBreaks, NEW bp \in Break
  PROVE  Only(n, bp) \in Breaks /\ DOMAIN Only(n, bp) = {n} /\ Only(n, bp)[n] = bp
<1>1. Only(n, bp) \in [{n} -> Break] /\ {n} \in SUBSET (1..MaxBreaks)
  BY DEF Only
<1> QED
  BY <1>1, NoBreaksIs, BreaksAre DEF Only

LEMMA WithIs ==
  ASSUME NEW b \in Breaks, NEW n \in 1..MaxBreaks, NEW bp \in Break
  PROVE  /\ With(b, n, bp) \in Breaks /\ DOMAIN With(b, n, bp) = DOMAIN b \cup {n}
         /\ \A m \in DOMAIN b \cup {n} : With(b, n, bp)[m] = IF m = n THEN bp ELSE b[m]
<1>1. /\ DOMAIN b \subseteq 1..MaxBreaks
      /\ \A m \in DOMAIN b : b[m] \in Break
  BY BreaksAre
<1>2. With(b, n, bp) \in [DOMAIN b \cup {n} -> Break] /\ DOMAIN b \cup {n} \in SUBSET (1..MaxBreaks)
  BY <1>1 DEF With
<1>3. With(b, n, bp) \in Breaks
  BY <1>2, BreaksAre
<1> QED
  BY <1>3 DEF With

LEMMA WithoutIs ==
  ASSUME bps \in Breaks, NEW n
  PROVE  /\ Without(n) \in Breaks /\ DOMAIN Without(n) = DOMAIN bps \ {n}
         /\ \A m \in DOMAIN bps \ {n} : Without(n)[m] = bps[m]
<1>1. Without(n) \in [DOMAIN bps \ {n} -> Break] /\ DOMAIN bps \ {n} \in SUBSET (1..MaxBreaks)
  BY BreaksAre DEF Without
<1>2. Without(n) \in Breaks
  BY <1>1, BreaksAre
<1> QED
  BY <1>2 DEF Without

LEMMA SwitchedIs ==
  ASSUME bps \in Breaks, NEW n \in DOMAIN bps, NEW on \in BOOLEAN
  PROVE  LET b == [bps EXCEPT ![n].on = on] IN
         /\ b \in Breaks /\ DOMAIN b = DOMAIN bps
         /\ \A m \in DOMAIN bps : b[m].line = bps[m].line
<1> DEFINE bp == [bps[n] EXCEPT !.on = on]
           b == [bps EXCEPT ![n] = bp]
<1>1. /\ DOMAIN bps \subseteq 1..MaxBreaks /\ bps \in [DOMAIN bps -> Break]
      /\ bps[n] \in Break
  BY BreaksAre
<1>2. bp = [at |-> bps[n].at, line |-> bps[n].line, on |-> on, temp |-> bps[n].temp, watch |-> bps[n].watch]
  BY <1>1 DEF Break
<1>3. bp \in Break /\ bp.line = bps[n].line
  BY <1>1, <1>2 DEF Break
<1> HIDE DEF bp
<1>4. b \in [DOMAIN bps -> Break] /\ \A m \in DOMAIN bps : b[m].line = bps[m].line
  BY <1>1, <1>3
<1>5. b \in Breaks
  BY <1>1, <1>4, BreaksAre
<1> QED
  BY <1>4, <1>5 DEF bp

LEMMA ToldIs ==
  ASSUME NEW kind \in {"loaded", "error", "features", "inserted", "enabled", "disabled", "removed",
                       "edited", "info", "list", "running", "done", "created", "deleted", "hit", "exited"},
         NEW token \in Int, NEW breaks \in Breaks
  PROVE  LET r == Record(kind, token, breaks) IN
         r \in Records /\ r.kind = kind /\ r.token = token /\ r.breaks = breaks
BY KindIs, RecordIs

LEMMA GdbIs ==
  ASSUME BreaksIInv
  PROVE  /\ bps \in Breaks /\ given \in 0..MaxBreaks /\ MaxBreaks \in Nat
         /\ target \in {"none", "running", "stopped"}
         /\ \A n \in DOMAIN bps : n \in 1..given /\ n \in 1..MaxBreaks /\ bps[n] \in Break
         /\ commands # <<>> => Head(commands) \in Commands
<1>1. /\ bps \in Breaks /\ given \in 0..MaxBreaks /\ MaxBreaks \in Nat
      /\ target \in {"none", "running", "stopped"} /\ commands \in Seq(Commands)
  BY BreaksAssumption DEF BreaksIInv, SessionOK
<1>2. \A n \in DOMAIN bps : n \in 1..given /\ n \in 1..MaxBreaks
  BY <1>1 DEF BreaksIInv, NumbersGiven
<1>3. \A n \in DOMAIN bps : bps[n] \in Break
  BY <1>1, BreaksAre
<1>4. commands # <<>> => Head(commands) \in Commands
  BY <1>1
<1> QED
  BY <1>1, <1>2, <1>3, <1>4

LEMMA SameKept ==
  ASSUME BreaksIInv, UNCHANGED given, bps' \in Breaks, DOMAIN bps' \subseteq DOMAIN bps,
         \A n \in DOMAIN bps' : bps'[n].line = bps[n].line
  PROVE  Keeps
BY GdbIs DEF Keeps

(* A record of no breakpoint, that nothing goes by.                           *)
LEMMA PlainTold ==
  ASSUME BreaksIInv, NEW r, DOMAIN r.breaks = {}, DOMAIN bps' \subseteq DOMAIN bps,
         \/ r.kind \in {"loaded", "error", "features", "enabled", "disabled", "running", "done", "exited"}
         \/ r.kind = "hit" /\ r.token = 0
  PROVE  ToldOf(r)
BY GdbIs DEF ToldOf, Removes

(* A record of one breakpoint.                                                *)
LEMMA OneTold ==
  ASSUME NEW n \in DOMAIN bps, NEW r, DOMAIN r.breaks = {n}, r.breaks[n].line = bps[n].line,
         r.kind \in {"info", "created"}
  PROVE  ToldOf(r)
BY DEF ToldOf, Removes

(* A record of one that is gone.                                              *)
LEMMA GoneTold ==
  ASSUME NEW n \in DOMAIN bps, n \notin DOMAIN bps', NEW r, DOMAIN r.breaks = {},
         r.kind \in {"removed", "deleted", "hit"}, r.token = n
  PROVE  ToldOf(r)
BY DEF ToldOf, Removes

LEMMA AnswerOne ==
  ASSUME BreaksIInv, session = "ACTIVE", commands # <<>>, commands' = Tail(commands), Keeps,
         target' \in {"none", "running", "stopped"},
         NEW r \in Records, Answers(<<r>>), ToldOf(r), Executed(Head(commands), r),
         Head(commands).cmd \in {"load", "features"} => target' = target,
         Head(commands).cmd = "features" => r.kind \in {"features", "error"}
  PROVE  BreaksIInv'
<1>1. <<r>> \in Seq(Records) /\ Len(<<r>>) = 1 /\ \A i \in 1..Len(<<r>>) : <<r>>[i] = r
  OBVIOUS
<1>2. \A i \in 1..Len(<<r>>) : ToldOf(<<r>>[i])
  BY <1>1
<1>3. Answered(Head(commands), <<r>>)
  BY <1>1 DEF Answered
<1> QED
  BY <1>1, <1>2, <1>3, AnswerStep

LEMMA AnswerTwo ==
  ASSUME BreaksIInv, session = "ACTIVE", commands # <<>>, commands' = Tail(commands), Keeps,
         UNCHANGED target,
         NEW q \in Records, NEW r \in Records, Answers(<<q, r>>), ToldOf(q), ToldOf(r),
         q.kind \in {"created", "deleted"}, r.kind = "done", Head(commands).cmd # "features"
  PROVE  BreaksIInv'
<1>1. /\ <<q, r>> \in Seq(Records) /\ Len(<<q, r>>) = 2
      /\ \A i \in 1..Len(<<q, r>>) : <<q, r>>[i] = q \/ <<q, r>>[i] = r
  OBVIOUS
<1>2. \A i \in 1..Len(<<q, r>>) : ToldOf(<<q, r>>[i])
  BY <1>1
<1>3. Answered(Head(commands), <<q, r>>)
  BY <1>1 DEF Answered, Executed
<1> QED
  BY <1>1, <1>2, <1>3, AnswerStep, GdbIs

LEMMA RefusesStep ==
  ASSUME BreaksIInv, session = "ACTIVE", commands # <<>>, commands' = Tail(commands),
         Refuses(Head(commands))
  PROVE  BreaksIInv'
<1> DEFINE r == Record("error", 0, NoBreaks)
<1>1. r \in Records /\ r.kind = "error" /\ DOMAIN r.breaks = {}
  BY ToldIs, NoBreaksIs
<1> HIDE DEF r
<1>2. Answers(<<r>>) /\ bps' = bps /\ given' = given /\ target' = target
  BY DEF Refuses, r, gdbVars
<1>3. Keeps /\ ToldOf(r) /\ target \in {"none", "running", "stopped"}
  BY <1>1, <1>2, GdbIs, SameKept, PlainTold
<1>4. Executed(Head(commands), r)
  BY <1>1 DEF Executed
<1> QED
  BY <1>1, <1>2, <1>3, <1>4, AnswerOne

LEMMA CreatesStep ==
  ASSUME BreaksIInv, PlacedWhereAsked, session = "ACTIVE", commands # <<>>, commands' = Tail(commands),
         Creates(Head(commands))
  PROVE  BreaksIInv'
<1> DEFINE c == Head(commands)
           bp == Inserted(c.arg)
           new == Only(given', bp)
<1>1. /\ c.cmd \in {"insert", "break"} /\ given' = given + 1 /\ given' \in 1..MaxBreaks
      /\ bps' = With(bps, given', bp) /\ target' = target
      /\ \/ c.cmd = "insert" /\ Answers(<<Record("inserted", c.token, new)>>)
         \/ c.cmd = "break" /\ Answers(<<Record("created", 0, new), Record("done", 0, NoBreaks)>>)
  BY GdbIs DEF Creates
<1>2. c \in Commands /\ c = commands[1] /\ 1 \in 1..Len(commands)
  BY Taken DEF BreaksIInv, SessionOK
<1>3. c.arg \in Arg
  BY <1>1, <1>2 DEF BreaksIInv, InsertsRow, InsertAsked
<1>4. bp \in Break /\ bp.line = c.arg.at
  <2> DEFINE arg == c.arg
             line == IF arg.watch THEN 0 ELSE Placed[arg.at]
  <2>1. arg \in Arg
    BY <1>3
  <2> HIDE DEF arg
  <2>2. line = arg.at
    BY <2>1, BreaksAssumption DEF Arg, Where, Line, PlacedWhereAsked
  <2>3. Inserted(arg) = [at |-> arg.at, line |-> line, on |-> arg.on, temp |-> arg.temp, watch |-> arg.watch]
    BY DEF Inserted
  <2> HIDE DEF line
  <2>4. Inserted(arg) \in Break /\ Inserted(arg).line = arg.at
    BY <2>1, <2>2, <2>3 DEF Arg, Break
  <2> QED
    BY <2>4 DEF arg
<1> HIDE DEF bp
<1>5. new \in Breaks /\ DOMAIN new = {given'} /\ new[given'] = bp
  BY <1>1, <1>4, OnlyIs
<1>6. /\ bps' \in Breaks /\ DOMAIN bps' = DOMAIN bps \cup {given'} /\ bps'[given'] = bp
      /\ \A n \in DOMAIN bps : n # given' => bps'[n] = bps[n]
  <2>1. bps \in Breaks
    BY GdbIs
  <2> DEFINE b == With(bps, given', bp)
  <2>2. /\ b \in Breaks /\ DOMAIN b = DOMAIN bps \cup {given'}
        /\ \A m \in DOMAIN bps \cup {given'} : b[m] = IF m = given' THEN bp ELSE bps[m]
    <3>1. b \in Breaks
      BY <1>1, <1>4, <2>1, WithIs
    <3> QED
      BY <3>1 DEF With
  <2> HIDE DEF b
  <2>3. bps' = b
    BY <1>1 DEF b
  <2> QED
    BY <2>2, <2>3
<1>7. given' \notin DOMAIN bps /\ given \in Nat
  BY <1>1, GdbIs
<1>8. Keeps
  BY <1>1, <1>6, <1>7, GdbIs DEF Keeps
<1> HIDE DEF new, c
<1>9. \A r : DOMAIN r.breaks = {given'} /\ r.breaks[given'] = bp /\ r.kind \in {"inserted", "created"}
             => ToldOf(r)
  BY <1>6 DEF ToldOf, Removes
<1>10. CASE c.cmd = "insert" /\ Answers(<<Record("inserted", c.token, new)>>)
  <2> DEFINE r == Record("inserted", c.token, new)
  <2>1. c.token \in Int
    BY <1>2 DEF Commands
  <2>2. r \in Records /\ r.kind = "inserted" /\ r.token = c.token /\ r.breaks = new
    BY <1>5, <2>1, ToldIs
  <2> HIDE DEF r
  <2>3. ToldOf(r) /\ Executed(c, r)
    BY <1>1, <1>4, <1>5, <1>9, <1>10, <2>2 DEF Executed
  <2>4. Answers(<<r>>) /\ target' \in {"none", "running", "stopped"}
    BY <1>1, <1>10, GdbIs DEF r
  <2> QED
    BY <1>8, <1>10, <2>2, <2>3, <2>4, AnswerOne DEF c
<1>11. CASE c.cmd = "break" /\ Answers(<<Record("created", 0, new), Record("done", 0, NoBreaks)>>)
  <2> DEFINE q == Record("created", 0, new)
             r == Record("done", 0, NoBreaks)
  <2>1. q \in Records /\ q.kind = "created" /\ q.breaks = new
    BY <1>5, ToldIs
  <2>2. r \in Records /\ r.kind = "done" /\ r.breaks = NoBreaks
    BY NoBreaksIs, ToldIs
  <2> HIDE DEF q, r
  <2>3. ToldOf(q) /\ ToldOf(r)
    BY <1>5, <1>9, <2>1, <2>2, NoBreaksIs DEF ToldOf, Removes
  <2>4. Answers(<<q, r>>)
    BY <1>11 DEF q, r
  <2> QED
    BY <1>1, <1>8, <1>11, <2>1, <2>2, <2>3, <2>4, AnswerTwo DEF c
<1> QED
  BY <1>1, <1>10, <1>11

LEMMA ChangesStep ==
  ASSUME BreaksIInv, session = "ACTIVE", commands # <<>>, commands' = Tail(commands),
         Changes(Head(commands))
  PROVE  BreaksIInv'
<1> DEFINE c == Head(commands)
           n == c.num
<1>1. /\ c \in Commands /\ n \in DOMAIN bps /\ given' = given /\ target' = target
      /\ \/ /\ c.cmd \in {"enable", "disable"}
            /\ bps' = [bps EXCEPT ![n].on = (c.cmd = "enable")]
            /\ Answers(<<Record(IF c.token = 0 THEN "done" ELSE IF c.cmd = "enable" THEN "enabled" ELSE "disabled",
                                c.token, NoBreaks)>>)
         \/ c.cmd = "edit" /\ Answers(<<Record("edited", n, NoBreaks)>>) /\ bps' = bps
         \/ c.cmd = "delete" /\ Answers(<<Record("removed", n, NoBreaks)>>) /\ bps' = Without(n)
         \/ /\ c.cmd = "cli delete" /\ bps' = Without(n)
            /\ Answers(<<Record("deleted", n, NoBreaks), Record("done", 0, NoBreaks)>>)
         \/ /\ c.cmd = "cli toggle"
            /\ bps' = [bps EXCEPT ![n].on = ~@]
            /\ Answers(<<Record("created", 0, Only(n, bps'[n])), Record("done", 0, NoBreaks)>>)
  BY GdbIs DEF Changes
<1>2. /\ c.token \in Int /\ n \in Int /\ n \in 1..MaxBreaks /\ bps \in Breaks /\ bps[n] \in Break
      /\ target' \in {"none", "running", "stopped"}
  <2>1. c \in Commands /\ n \in DOMAIN bps /\ target' = target
    BY <1>1
  <2>2. c.token \in Int
    BY <2>1 DEF Commands
  <2>3. n \in 1..MaxBreaks /\ bps \in Breaks /\ bps[n] \in Break /\ MaxBreaks \in Nat
        /\ target \in {"none", "running", "stopped"}
    BY <2>1, GdbIs
  <2> HIDE DEF n
  <2> QED
    BY <2>1, <2>2, <2>3
<1> HIDE DEF c, n
<1>3. ASSUME NEW r, r.kind = "done", r.breaks = NoBreaks, DOMAIN bps' \subseteq DOMAIN bps
      PROVE  ToldOf(r)
  BY <1>3, PlainTold, NoBreaksIs
<1>4. CASE /\ c.cmd \in {"enable", "disable"}
           /\ bps' = [bps EXCEPT ![n].on = (c.cmd = "enable")]
           /\ Answers(<<Record(IF c.token = 0 THEN "done" ELSE IF c.cmd = "enable" THEN "enabled" ELSE "disabled",
                               c.token, NoBreaks)>>)
  <2> DEFINE kind == IF c.token = 0 THEN "done" ELSE IF c.cmd = "enable" THEN "enabled" ELSE "disabled"
             r == Record(kind, c.token, NoBreaks)
  <2>1. kind \in {"done", "enabled", "disabled"} /\ (kind \in {"enabled", "disabled"} => c.token # 0)
    OBVIOUS
  <2>2. Answers(<<r>>)
    BY <1>4
  <2> HIDE DEF kind
  <2>3. r \in Records /\ r.kind = kind /\ r.token = c.token /\ r.breaks = NoBreaks
    BY <1>2, <2>1, ToldIs, NoBreaksIs
  <2> HIDE DEF r
  <2>4. Keeps /\ DOMAIN bps' \subseteq DOMAIN bps
    <3>1. (c.cmd = "enable") \in BOOLEAN
      OBVIOUS
    <3>2. /\ bps' \in Breaks /\ DOMAIN bps' = DOMAIN bps
          /\ \A m \in DOMAIN bps : bps'[m].line = bps[m].line
      BY <1>1, <1>2, <1>4, <3>1, SwitchedIs
    <3> QED
      BY <1>1, <3>2, SameKept
  <2>5. ToldOf(r)
    BY <2>1, <2>3, <2>4, PlainTold, NoBreaksIs
  <2>6. Executed(c, r)
    BY <1>1, <1>4, <2>1, <2>3 DEF Executed, n
  <2> QED
    BY <1>1, <1>2, <1>4, <2>2, <2>3, <2>4, <2>5, <2>6, AnswerOne DEF c
<1>5. CASE c.cmd = "edit" /\ Answers(<<Record("edited", n, NoBreaks)>>) /\ bps' = bps
  <2> DEFINE r == Record("edited", n, NoBreaks)
  <2>1. r \in Records /\ r.kind = "edited" /\ r.token = n /\ r.breaks = NoBreaks
    BY <1>2, ToldIs, NoBreaksIs
  <2> HIDE DEF r
  <2>2. Answers(<<r>>) /\ Keeps
    BY <1>1, <1>2, <1>5, SameKept DEF r
  <2>3. ToldOf(r) /\ Executed(c, r)
    BY <1>1, <2>1, NoBreaksIs DEF ToldOf, Removes, Executed
  <2> QED
    BY <1>1, <1>2, <1>5, <2>1, <2>2, <2>3, AnswerOne DEF c
<1>6. ASSUME bps' = Without(n)
      PROVE  Keeps /\ DOMAIN bps' \subseteq DOMAIN bps /\ n \notin DOMAIN bps'
  <2>1. /\ bps' \in Breaks /\ DOMAIN bps' = DOMAIN bps \ {n}
        /\ \A m \in DOMAIN bps \ {n} : bps'[m] = bps[m]
    BY <1>2, <1>6, WithoutIs
  <2> QED
    BY <1>1, <2>1, SameKept
<1>7. CASE c.cmd = "delete" /\ Answers(<<Record("removed", n, NoBreaks)>>) /\ bps' = Without(n)
  <2> DEFINE r == Record("removed", n, NoBreaks)
  <2>1. r \in Records /\ r.kind = "removed" /\ r.token = n /\ r.breaks = NoBreaks
    BY <1>2, ToldIs, NoBreaksIs
  <2> HIDE DEF r
  <2>2. Answers(<<r>>)
    BY <1>7 DEF r
  <2>3. ToldOf(r) /\ Executed(c, r)
    BY <1>1, <1>6, <1>7, <2>1, NoBreaksIs, GoneTold DEF Executed
  <2> QED
    BY <1>1, <1>2, <1>6, <1>7, <2>1, <2>2, <2>3, AnswerOne DEF c
<1>8. CASE /\ c.cmd = "cli delete" /\ bps' = Without(n)
           /\ Answers(<<Record("deleted", n, NoBreaks), Record("done", 0, NoBreaks)>>)
  <2> DEFINE q == Record("deleted", n, NoBreaks)
             r == Record("done", 0, NoBreaks)
  <2>1. q \in Records /\ q.kind = "deleted" /\ q.token = n /\ q.breaks = NoBreaks
    BY <1>2, ToldIs, NoBreaksIs
  <2>2. r \in Records /\ r.kind = "done" /\ r.breaks = NoBreaks
    BY NoBreaksIs, ToldIs
  <2> HIDE DEF q, r
  <2>3. Answers(<<q, r>>)
    BY <1>8 DEF q, r
  <2>4. ToldOf(q) /\ ToldOf(r)
    BY <1>1, <1>3, <1>6, <1>8, <2>1, <2>2, NoBreaksIs, GoneTold
  <2> QED
    BY <1>1, <1>6, <1>8, <2>1, <2>2, <2>3, <2>4, AnswerTwo DEF c
<1>9. CASE /\ c.cmd = "cli toggle"
           /\ bps' = [bps EXCEPT ![n].on = ~@]
           /\ Answers(<<Record("created", 0, Only(n, bps'[n])), Record("done", 0, NoBreaks)>>)
  <2>1. /\ bps' \in Breaks /\ DOMAIN bps' = DOMAIN bps
        /\ \A m \in DOMAIN bps : bps'[m].line = bps[m].line
    <3> DEFINE on == ~bps[n].on
    <3>1. on \in BOOLEAN
      OBVIOUS
    <3>2. bps' = [bps EXCEPT ![n].on = on]
      BY <1>9
    <3> HIDE DEF on
    <3> QED
      BY <1>1, <1>2, <3>1, <3>2, SwitchedIs
  <2>2. Keeps
    BY <1>1, <2>1, SameKept
  <2> DEFINE bp == bps'[n]
             new == Only(n, bp)
             q == Record("created", 0, new)
             r == Record("done", 0, NoBreaks)
  <2>3. bp \in Break /\ bp.line = bps[n].line
    BY <1>1, <2>1, BreaksAre
  <2> HIDE DEF bp
  <2>4. new \in Breaks /\ DOMAIN new = {n} /\ new[n] = bp
    BY <1>2, <2>3, OnlyIs
  <2> HIDE DEF new
  <2>5. q \in Records /\ q.kind = "created" /\ q.breaks = new
    BY <2>4, ToldIs
  <2>6. r \in Records /\ r.kind = "done" /\ r.breaks = NoBreaks
    BY NoBreaksIs, ToldIs
  <2> HIDE DEF q, r
  <2>7. Answers(<<q, r>>)
    BY <1>9 DEF q, r, new, bp
  <2>8. ToldOf(q) /\ ToldOf(r)
    <3>1. n \in DOMAIN bps
      BY <1>1
    <3>2. ToldOf(q)
      BY <2>3, <2>4, <2>5, <3>1, OneTold
    <3> QED
      BY <1>3, <2>1, <2>6, <3>2
  <2> QED
    BY <1>1, <1>9, <2>2, <2>5, <2>6, <2>7, <2>8, AnswerTwo DEF c
<1> QED
  BY <1>1, <1>4, <1>5, <1>7, <1>8, <1>9

LEMMA TellsStep ==
  ASSUME BreaksIInv, session = "ACTIVE", commands # <<>>, commands' = Tail(commands),
         Tells(Head(commands))
  PROVE  BreaksIInv'
<1> DEFINE c == Head(commands)
<1>1. /\ given' = given /\ bps' = bps
      /\ \/ c.cmd = "load" /\ Answers(<<Record("loaded", c.token, NoBreaks)>>) /\ target' = target
         \/ c.cmd = "features" /\ Answers(<<Record("features", 0, NoBreaks)>>) /\ target' = target
         \/ /\ c.cmd = "info" /\ c.num \in DOMAIN bps
            /\ Answers(<<Record("info", 0, Only(c.num, bps[c.num]))>>) /\ target' = target
         \/ c.cmd = "list" /\ Answers(<<Record("list", 0, bps)>>) /\ target' = target
         \/ /\ c.cmd \in {"run", "continue"}
            /\ target' = "running" /\ Answers(<<Record("running", 0, NoBreaks)>>)
  BY DEF Tells
<1>2. c \in Commands /\ c.token \in Int
  BY GdbIs DEF Commands
<1> HIDE DEF c
<1>3. Keeps /\ target \in {"none", "running", "stopped"}
  BY <1>1, GdbIs, SameKept
<1>4. ASSUME NEW kind \in {"loaded", "features", "running"}, NEW token \in Int,
             Answers(<<Record(kind, token, NoBreaks)>>),
             c.cmd = IF kind = "loaded" THEN "load" ELSE IF kind = "features" THEN kind ELSE c.cmd,
             kind # "running" => target' = target,
             kind = "running" => target' = "running" /\ c.cmd \notin {"load", "features"}
      PROVE  BreaksIInv'
  <2> DEFINE r == Record(kind, token, NoBreaks)
  <2>1. r \in Records /\ r.kind = kind /\ r.breaks = NoBreaks
    BY NoBreaksIs, ToldIs
  <2> HIDE DEF r
  <2>2. Answers(<<r>>) /\ target' \in {"none", "running", "stopped"}
    BY <1>3, <1>4 DEF r
  <2>3. ToldOf(r) /\ Executed(c, r)
    BY <1>1, <1>4, <2>1, NoBreaksIs, PlainTold DEF Executed
  <2>4. /\ c.cmd \in {"load", "features"} => target' = target
        /\ c.cmd = "features" => r.kind \in {"features", "error"}
    BY <1>4, <2>1
  <2> QED
    BY <1>3, <2>1, <2>2, <2>3, <2>4, AnswerOne DEF c
<1>5. CASE /\ c.cmd = "info" /\ c.num \in DOMAIN bps
           /\ Answers(<<Record("info", 0, Only(c.num, bps[c.num]))>>) /\ target' = target
  <2> DEFINE n == c.num
             new == Only(n, bps[n])
             r == Record("info", 0, new)
  <2>1. n \in 1..MaxBreaks /\ bps[n] \in Break /\ n \in DOMAIN bps
    BY <1>5, GdbIs
  <2> HIDE DEF n
  <2>2. new \in Breaks /\ DOMAIN new = {n} /\ new[n] = bps[n]
    BY <2>1, OnlyIs
  <2> HIDE DEF new
  <2>3. r \in Records /\ r.kind = "info" /\ r.breaks = new
    BY <2>2, ToldIs
  <2> HIDE DEF r
  <2>4. Answers(<<r>>)
    BY <1>5 DEF r, new, n
  <2>5. ToldOf(r) /\ Executed(c, r)
    BY <2>1, <2>2, <2>3, OneTold DEF Executed
  <2> QED
    BY <1>3, <1>5, <2>3, <2>4, <2>5, AnswerOne DEF c
<1>6. CASE c.cmd = "list" /\ Answers(<<Record("list", 0, bps)>>) /\ target' = target
  <2> DEFINE r == Record("list", 0, bps)
  <2>1. r \in Records /\ r.kind = "list" /\ r.breaks = bps
    BY GdbIs, ToldIs
  <2> HIDE DEF r
  <2>2. Answers(<<r>>)
    BY <1>6 DEF r
  <2>3. ToldOf(r) /\ Executed(c, r)
    BY <1>1, <2>1 DEF ToldOf, Removes, Executed
  <2> QED
    BY <1>3, <1>6, <2>1, <2>2, <2>3, AnswerOne DEF c
<1> QED
  BY <1>1, <1>2, <1>4, <1>5, <1>6

(* A breakpoint is hit, or a watchpoint triggers or goes.                     *)
LEMMA TargetStopsStep ==
  ASSUME BreaksIInv, NEW n \in DOMAIN bps, TargetStops(n)
  PROVE  BreaksIInv'
<1> DEFINE bp == bps[n]
           created == Record("created", 0, Only(n, bp))
           deleted == Record("deleted", n, NoBreaks)
           hit == Record("hit", 0, NoBreaks)
           gone == Record("hit", n, NoBreaks)
           told == IF notifies THEN <<created>> ELSE <<>>
           left == IF notifies THEN <<deleted>> ELSE <<>>
<1>1. /\ session = "ACTIVE" /\ target = "running" /\ target' = "stopped"
      /\ given' = given /\ commands' = commands
      /\ \/ bps' = bps /\ Answers(told \o <<hit>>)
         \/ bps' = Without(n) /\ Answers(told \o <<gone>> \o left)
         \/ bps' = Without(n) /\ Answers(<<hit>> \o left)
  BY DEF TargetStops
<1>2. n \in 1..MaxBreaks /\ n \in Int /\ bp \in Break
  BY GdbIs
<1>3. /\ created \in Records /\ created.kind = "created" /\ created.breaks = Only(n, bp)
      /\ DOMAIN Only(n, bp) = {n} /\ Only(n, bp)[n] = bps[n]
  <2> DEFINE new == Only(n, bp)
  <2>1. new \in Breaks /\ DOMAIN new = {n} /\ new[n] = bps[n]
    BY <1>2, OnlyIs
  <2> HIDE DEF new
  <2>2. LET r == Record("created", 0, new) IN r \in Records /\ r.kind = "created" /\ r.breaks = new
    BY <2>1, ToldIs
  <2> QED
    BY <2>1, <2>2 DEF new
<1>4. deleted \in Records /\ deleted.kind = "deleted" /\ deleted.token = n /\ deleted.breaks = NoBreaks
  BY <1>2, NoBreaksIs, ToldIs
<1>5. hit \in Records /\ hit.kind = "hit" /\ hit.token = 0 /\ hit.breaks = NoBreaks
  BY NoBreaksIs, ToldIs
<1>6. gone \in Records /\ gone.kind = "hit" /\ gone.token = n /\ gone.breaks = NoBreaks
  BY <1>2, NoBreaksIs, ToldIs
<1> HIDE DEF created, deleted, hit, gone
<1>7. /\ ToldOf(created) /\ created.kind \in {"created", "deleted", "hit"}
      /\ hit.kind \in {"created", "deleted", "hit"}
      /\ deleted.kind \in {"created", "deleted", "hit"} /\ gone.kind \in {"created", "deleted", "hit"}
  BY <1>3, <1>4, <1>5, <1>6, OneTold
<1>8. bps' = Without(n) \/ bps' = bps => Keeps /\ ToldOf(hit)
  <2>1. Without(n) \in Breaks /\ DOMAIN Without(n) = DOMAIN bps \ {n}
        /\ \A m \in DOMAIN bps \ {n} : Without(n)[m] = bps[m]
    BY GdbIs, WithoutIs
  <2>2. bps' = Without(n) \/ bps' = bps =>
          /\ bps' \in Breaks /\ DOMAIN bps' \subseteq DOMAIN bps
          /\ \A m \in DOMAIN bps' : bps'[m].line = bps[m].line
    BY <2>1, GdbIs
  <2> QED
    BY <1>1, <1>5, <2>2, NoBreaksIs, SameKept, PlainTold
<1>9. bps' = Without(n) => ToldOf(deleted) /\ ToldOf(gone)
  <2>1. bps' = Without(n) => n \notin DOMAIN bps'
    BY GdbIs, WithoutIs
  <2> QED
    BY <1>4, <1>6, <2>1, NoBreaksIs, GoneTold
<1>10. ASSUME NEW rs \in Seq(Records), Answers(rs), Keeps,
              \A i \in 1..Len(rs) : ToldOf(rs[i]) /\ rs[i].kind \in {"created", "deleted", "hit"}
       PROVE  BreaksIInv'
  <2>1. Unasked(rs)
    BY <1>10 DEF Unasked
  <2>2. target' \in {"none", "running", "stopped"} /\ target # "none"
    BY <1>1
  <2> QED
    BY <1>1, <1>10, <2>1, <2>2, AnswerStep
<1>11. CASE bps' = bps /\ Answers(told \o <<hit>>)
  <2> DEFINE rs == told \o <<hit>>
  <2>1. /\ rs \in Seq(Records)
        /\ \A i \in 1..Len(rs) : rs[i] = created \/ rs[i] = hit
    BY <1>3, <1>5
  <2> HIDE DEF rs
  <2>2. \A i \in 1..Len(rs) : ToldOf(rs[i]) /\ rs[i].kind \in {"created", "deleted", "hit"}
    BY <1>7, <1>8, <1>11, <2>1
  <2> QED
    BY <1>8, <1>10, <1>11, <2>1, <2>2 DEF rs
<1>12. CASE bps' = Without(n) /\ Answers(told \o <<gone>> \o left)
  <2> DEFINE rs == told \o <<gone>> \o left
  <2>1. /\ rs \in Seq(Records)
        /\ \A i \in 1..Len(rs) : rs[i] = created \/ rs[i] = gone \/ rs[i] = deleted
    BY <1>3, <1>4, <1>6
  <2> HIDE DEF rs
  <2>2. \A i \in 1..Len(rs) : ToldOf(rs[i]) /\ rs[i].kind \in {"created", "deleted", "hit"}
    BY <1>7, <1>9, <1>12, <2>1
  <2> QED
    BY <1>8, <1>10, <1>12, <2>1, <2>2 DEF rs
<1>13. CASE bps' = Without(n) /\ Answers(<<hit>> \o left)
  <2> DEFINE rs == <<hit>> \o left
  <2>1. /\ rs \in Seq(Records)
        /\ \A i \in 1..Len(rs) : rs[i] = hit \/ rs[i] = deleted
    BY <1>4, <1>5
  <2> HIDE DEF rs
  <2>2. \A i \in 1..Len(rs) : ToldOf(rs[i]) /\ rs[i].kind \in {"created", "deleted", "hit"}
    BY <1>7, <1>8, <1>9, <1>13, <2>1
  <2> QED
    BY <1>8, <1>10, <1>13, <2>1, <2>2 DEF rs
<1> HIDE DEF told, left
<1> QED
  BY <1>1, <1>11, <1>12, <1>13

LEMMA TargetExitsStep ==
  ASSUME BreaksIInv, TargetExits
  PROVE  BreaksIInv'
<1> DEFINE r == Record("exited", 0, NoBreaks)
<1>1. /\ session = "ACTIVE" /\ target # "none" /\ target' = "none" /\ Answers(<<r>>)
      /\ bps' = bps /\ given' = given /\ commands' = commands
  BY DEF TargetExits
<1>2. r \in Records /\ r.kind = "exited" /\ r.breaks = NoBreaks
  BY NoBreaksIs, ToldIs
<1> HIDE DEF r
<1>3. Keeps /\ ToldOf(r)
  BY <1>1, <1>2, GdbIs, NoBreaksIs, SameKept, PlainTold
<1>4. <<r>> \in Seq(Records) /\ \A i \in 1..Len(<<r>>) : <<r>>[i] = r
  BY <1>2
<1>5. Unasked(<<r>>) /\ \A i \in 1..Len(<<r>>) : ToldOf(<<r>>[i])
  BY <1>2, <1>3, <1>4 DEF Unasked
<1> QED
  BY <1>1, <1>3, <1>4, <1>5, AnswerStep

--------------------------------------------------------------------------------
(* The steps of scope when it reads what GDB wrote                            *)

(* The rows follow a record, and commands are added.                          *)
LEMMA FollowStep ==
  ASSUME BreaksIInv, records # <<>>, session # "INACTIVE",
         NEW place, Places(place), NEW P, Well(P, place), RowsFollow(P, Head(records)),
         rows' = P.rows, marked' = P.marked, records' = Tail(records),
         NEW cs \in Seq(Commands), commands' = commands \o cs, Once(cs),
         \A i \in 1..Len(cs) : cs[i].cmd # "load",
         \A k : (\E i \in 1..Len(cs) : k = cs[i]) => InsertAsked(k)' /\ EnableAsked(k)',
         NoRow(cs) \/ (NoRow(commands) /\ \A i \in 1..Len(records') : records'[i].kind # "inserted"),
         prog' \in {"none", "running", "stopped"}, dirty' \in BOOLEAN,
         UNCHANGED <<session, gdbVars>>
  PROVE  BreaksIInv'
<1> DEFINE r == Head(records)
<1>1. /\ bps' = bps /\ given' = given /\ target' = target /\ session' = session
  BY DEF gdbVars
<1>2. /\ commands \in Seq(Commands) /\ records \in Seq(Records) /\ given \in Nat
      /\ session \in {"INACTIVE", "ACTIVE", "KILLING"}
  BY GdbIs DEF BreaksIInv, SessionOK
<1>3. /\ r \in Records /\ r = records[1] /\ 1 \in 1..Len(records) /\ records' \in Seq(Records)
      /\ Len(records) \in Nat \ {0} /\ Len(records') = Len(records) - 1
      /\ \A i \in 1..Len(records') : records'[i] = records[i + 1] /\ i + 1 \in 1..Len(records)
  BY <1>2, Taken
<1>4. /\ commands' \in Seq(Commands) /\ Len(commands') = Len(commands) + Len(cs)
      /\ Len(commands) \in Nat /\ Len(cs) \in Nat
      /\ \A i \in 1..Len(commands') :
           \/ i \in 1..Len(commands) /\ commands'[i] = commands[i]
           \/ i - Len(commands) \in 1..Len(cs) /\ commands'[i] = cs[i - Len(commands)]
  BY <1>2, Joined
<1> HIDE DEF r
<1>5. /\ \A s \in DOMAIN rows : rows[s].id = 0 =>
           /\ s \in DOMAIN rows' /\ rows'[s].line = rows[s].line
           /\ rows'[s].id = 0 \/ HasInserted(r, s)
      /\ \A s \in DOMAIN rows : rows[s].id # 0 /\ ~Removes(r, rows[s].id) =>
           s \in DOMAIN rows' /\ rows'[s].line = rows[s].line /\ rows'[s].id = rows[s].id
      /\ \A s \in DOMAIN rows' : \/ rows'[s].id = 0
                                 \/ s \in DOMAIN rows /\ rows[s].id = rows'[s].id
                                 \/ rows'[s].id \in DOMAIN r.breaks
  BY DEF RowsFollow, Known, r
<1>6. SessionOK'
  BY <1>1, <1>2, <1>3, <1>4 DEF BreaksIInv, SessionOK
<1>7. NumbersGiven'
  <2>1. DOMAIN r.breaks \subseteq 1..given
    BY <1>3 DEF BreaksIInv, NumbersGiven
  <2>2. \A s \in DOMAIN rows' : rows'[s].id \in 0..given
    <3>1. \A s \in DOMAIN rows : rows[s].id \in 0..given
      BY DEF BreaksIInv, NumbersGiven
    <3>2. \A n \in DOMAIN r.breaks : n \in 0..given
      BY <1>2, <2>1
    <3>3. 0 \in 0..given
      BY <1>2
    <3> QED
      BY <1>5, <3>1, <3>2, <3>3, Zenon
  <2>3. \A i \in 1..Len(records') : DOMAIN records'[i].breaks \subseteq 1..given
    BY <1>3 DEF BreaksIInv, NumbersGiven
  <2> QED
    BY <1>1, <2>2, <2>3 DEF BreaksIInv, NumbersGiven
<1>8. ASSUME NEW s \in DOMAIN rows, rows[s].id = 0, ~HasInserted(r, s)
      PROVE  s \in DOMAIN rows' /\ rows'[s].line = rows[s].line /\ rows'[s].id = 0
  BY <1>5, <1>8
<1>9. DOMAIN rows \subseteq Scid
  <2>1. PICK to : Well(List, to)
    BY DEF BreaksIInv
  <2> QED
    BY <2>1, ListIs DEF Well
<1>10. InsertsRow'
  <2>1. ASSUME NEW k, InsertAsked(k), \A s \in Scid : Inserts(k, s) => ~HasInserted(r, s)
        PROVE  InsertAsked(k)'
    BY <1>8, <1>9, <2>1 DEF InsertAsked, Inserts
  <2>2. ASSUME NEW q, InsertTold(q), \A s \in Scid : HasInserted(q, s) => ~HasInserted(r, s)
        PROVE  InsertTold(q)'
    BY <1>1, <1>8, <1>9, <2>2 DEF InsertTold, HasInserted
  <2>3. ASSUME NEW i \in 1..Len(commands), NEW s \in Scid, Inserts(commands[i], s)
        PROVE  ~HasInserted(r, s)
    BY <1>3, <2>3 DEF BreaksIInv, InsertsOnce
  <2>4. ASSUME NEW i \in 1..Len(records), i # 1, NEW s \in Scid, HasInserted(records[i], s)
        PROVE  ~HasInserted(r, s)
    BY <1>3, <2>4 DEF BreaksIInv, InsertsOnce
  <2>5. \A i \in 1..Len(commands) : InsertAsked(commands[i])
    BY DEF BreaksIInv, InsertsRow
  <2>6. \A i \in 1..Len(records) : InsertTold(records[i])
    BY DEF BreaksIInv, InsertsRow
  <2>7. \A i \in 1..Len(records') : i + 1 # 1
    BY <1>3
  <2> QED
    BY <1>3, <1>4, <2>1, <2>2, <2>3, <2>4, <2>5, <2>6, <2>7 DEF InsertsRow
<1>11. InsertsOnce'
  <2>1. Once(commands')
    <3>1. Once(commands)
      BY DEF BreaksIInv, InsertsOnce
    <3> QED
      BY <1>2, <3>1, OnceJoined
  <2>2. ASSUME NEW s \in Scid, NEW i \in 1..Len(records'), NEW j \in 1..Len(records'),
               HasInserted(records'[i], s), HasInserted(records'[j], s)
        PROVE  i = j
    <3>1. i + 1 = j + 1
      BY <1>3, <2>2 DEF BreaksIInv, InsertsOnce
    <3> QED
      BY <3>1
  <2>3. ASSUME NEW s \in Scid, NEW i \in 1..Len(commands'), NEW j \in 1..Len(records'),
               Inserts(commands'[i], s), HasInserted(records'[j], s)
        PROVE  FALSE
    <3>1. CASE i \in 1..Len(commands) /\ commands'[i] = commands[i]
      BY <1>3, <2>3, <3>1 DEF BreaksIInv, InsertsOnce
    <3>2. CASE i - Len(commands) \in 1..Len(cs) /\ commands'[i] = cs[i - Len(commands)]
      <4>1. ~NoRow(cs)
        BY <2>3, <3>2 DEF NoRow, Inserts
      <4> QED
        BY <2>3, <4>1 DEF HasInserted
    <3> QED
      BY <1>4, <3>1, <3>2
  <2> QED
    BY <2>1, <2>2, <2>3 DEF InsertsOnce, Once, Inserts, HasInserted
<1>12. LoadFirst'
  <2>1. \A i \in 1..Len(commands') : commands'[i].cmd # "load"
    <3>1. \A i \in 1..Len(commands) : commands[i].cmd # "load"
      BY DEF BreaksIInv, LoadFirst
    <3> QED
      BY <1>4, <3>1
  <2>2. \A i \in 1..Len(records') : records'[i].kind # "loaded"
    <3>1. \A i \in 1..Len(records) : records[i].kind = "loaded" => i = 1
      BY DEF BreaksIInv, LoadFirst
    <3>2. \A i \in 1..Len(records') : i + 1 # 1
      BY <1>3
    <3> QED
      BY <1>3, <3>1, <3>2
  <2> QED
    BY <2>1, <2>2 DEF LoadFirst
<1>13. RemovesGone'
  <2>1. ASSUME NEW i \in 1..Len(records'), NEW n \in DOMAIN bps, Removes(records'[i], n)
        PROVE  /\ \A s \in DOMAIN rows' : rows'[s].id # n
               /\ \A j \in 1..(i - 1) : n \notin DOMAIN records'[j].breaks
    <3>1. /\ i + 1 \in 1..Len(records) /\ records'[i] = records[i + 1] /\ (i + 1) - 1 = i /\ 1 \in 1..i
          /\ \A j \in 1..(i - 1) : j + 1 \in 1..i /\ records'[j] = records[j + 1]
      BY <1>3
    <3>2. /\ \A s \in DOMAIN rows : rows[s].id # n
          /\ \A j \in 1..i : n \notin DOMAIN records[j].breaks
      BY <2>1, <3>1 DEF BreaksIInv, RemovesGone
    <3>3. n \notin DOMAIN r.breaks /\ n # 0
      BY <1>3, <3>1, <3>2, GdbIs
    <3>4. \A s \in DOMAIN rows' : rows'[s].id # n
      BY <1>5, <3>2, <3>3
    <3> QED
      BY <3>1, <3>2, <3>4
  <2>2. \A i \in 1..Len(records') :
          /\ records'[i].kind \in {"removed", "deleted", "edited"} => records'[i].token \in 1..given
          /\ records'[i].kind = "hit" => records'[i].token \in 0..given
    <3>1. ASSUME NEW i \in 1..Len(records)
          PROVE  /\ records[i].kind \in {"removed", "deleted", "edited"} => records[i].token \in 1..given
                 /\ records[i].kind = "hit" => records[i].token \in 0..given
      BY DEF BreaksIInv, RemovesGone
    <3> QED
      BY <1>3, <3>1
  <2> QED
    BY <1>1, <2>1, <2>2 DEF RemovesGone, Removes
<1>14. EnablesRow'
  <2>1. ASSUME NEW n \in DOMAIN bps, NEW s \in DOMAIN rows, rows[s].id = n
        PROVE  s \in DOMAIN rows' /\ rows'[s].id = n
    <3>1. ~Removes(r, n)
      BY <1>3, <2>1 DEF BreaksIInv, RemovesGone
    <3>2. n # 0
      BY GdbIs
    <3> QED
      BY <1>5, <2>1, <3>1, <3>2
  <2>2. \A k : EnableAsked(k) => EnableAsked(k)'
    BY <1>1, <2>1 DEF EnableAsked
  <2>3. \A i \in 1..Len(commands) : EnableAsked(commands[i])
    BY DEF BreaksIInv, EnablesRow
  <2>4. ASSUME NEW i \in 1..Len(records'), records'[i].kind \in {"enabled", "disabled"}
        PROVE  /\ records'[i].token \in DOMAIN rows'
               /\ rows'[records'[i].token].id # 0
               /\ \A j \in 1..(i - 1) : ~Removes(records'[j], rows'[records'[i].token].id)
    <3> DEFINE s == records[i + 1].token
    <3>1. /\ i + 1 \in 1..Len(records) /\ records'[i] = records[i + 1] /\ (i + 1) - 1 = i /\ 1 \in 1..i
          /\ \A j \in 1..(i - 1) : j + 1 \in 1..i /\ records'[j] = records[j + 1]
      BY <1>3
    <3>2. /\ s \in DOMAIN rows /\ rows[s].id # 0
          /\ \A j \in 1..i : ~Removes(records[j], rows[s].id)
      BY <2>4, <3>1 DEF BreaksIInv, EnablesRow
    <3>3. s \in DOMAIN rows' /\ rows'[s].id = rows[s].id
      BY <1>3, <1>5, <3>1, <3>2
    <3> QED
      BY <3>1, <3>2, <3>3
  <2> QED
    BY <1>4, <2>2, <2>3, <2>4 DEF EnablesRow, Removes
<1>15. Places(place)' /\ Well(List, place)'
  <2>1. Places(place)'
    BY <1>1, <1>3 DEF Places
  <2> QED
    BY <2>1, WellDone
<1> QED
  BY <1>6, <1>7, <1>10, <1>11, <1>12, <1>13, <1>14, <1>15 DEF BreaksIInv

LEMMA PlainQuiet == Quiet(Plain("list"))
BY QuietOne DEF Plain

LEMMA ReceiveStep ==
  ASSUME BreaksIInv, Receive
  PROVE  BreaksIInv'
<1> DEFINE r == Head(records)
           P == Handled(List, r)
           sent == IF session = "ACTIVE" THEN P.send ELSE <<>>
<1>1. PICK place : Places(place) /\ Well(List, place)
  BY DEF BreaksIInv
<1>2. /\ records # <<>> /\ session # "INACTIVE" /\ records' = Tail(records)
      /\ rows' = P.rows /\ marked' = P.marked /\ prog' = ProgAfter(r)
      /\ UNCHANGED <<session, gdbVars>> /\ dirty' \in BOOLEAN
      /\ \/ commands' = IF session = "ACTIVE" THEN commands \o P.send ELSE commands
         \/ commands' = (IF session = "ACTIVE" THEN commands \o P.send ELSE commands) \o Plain("list")
  BY DEF Receive, List
<1>3. prog' \in {"none", "running", "stopped"}
  BY <1>2 DEF ProgAfter, BreaksIInv, SessionOK
<1>4. /\ r \in Records /\ r = records[1] /\ 1 \in 1..Len(records) /\ commands \in Seq(Commands)
      /\ records \in Seq(Records) /\ given \in 0..MaxBreaks
  BY <1>2, Taken DEF BreaksIInv, SessionOK
<1>5. Quiet(Plain("list")) /\ Quiet(<<>>)
  BY PlainQuiet, QuietNone
<1> HIDE DEF r, P
<1>6. ASSUME P.send \in Seq(Commands)
      PROVE  \E cs \in {sent, sent \o Plain("list")} : commands' = commands \o cs
  <2>1. Plain("list") \in Seq(Commands)
    BY <1>5 DEF Quiet
  <2> DEFINE l == Plain("list")
  <2> HIDE DEF l
  <2>2. /\ commands \o <<>> = commands
        /\ commands \o (<<>> \o l) = commands \o l
        /\ commands \o (P.send \o l) = (commands \o P.send) \o l
    <3>1. l \in Seq(Commands)
      BY <2>1 DEF l
    <3>2. commands \o <<>> = commands /\ <<>> \o l = l
      BY <1>4, <3>1, ConcatEmptySeq
    <3>3. commands \o (P.send \o l) = (commands \o P.send) \o l
      <4> DEFINE a == commands
                 b == P.send
      <4>1. a \in Seq(Commands) /\ b \in Seq(Commands)
        BY <1>4, <1>6
      <4> HIDE DEF a, b
      <4>2. (a \o b) \o l = a \o (b \o l)
        BY <3>1, <4>1, ConcatAssociative
      <4> QED
        BY <4>2 DEF a, b
    <3> QED
      BY <3>2, <3>3
  <2> QED
    BY <1>2, <2>2 DEF l
<1>7. CASE r.kind # "loaded"
  <2>1. Well(P, place) /\ RowsFollow(P, r) /\ Quiet(P.send)
    <3>1. InsertTold(r)
      BY <1>4 DEF BreaksIInv, InsertsRow
    <3>2. \A n \in DOMAIN r.breaks : r.breaks[n].line = place[n]
      BY <1>1, <1>4 DEF Places
    <3>3. DOMAIN r.breaks \subseteq 1..given
      BY <1>4 DEF BreaksIInv, NumbersGiven
    <3>4. r.kind \in {"removed", "deleted", "edited"} => r.token \in 1..given
      BY <1>4 DEF BreaksIInv, RemovesGone
    <3>5. r.kind \in {"enabled", "disabled"} => r.token \in DOMAIN rows
      BY <1>4 DEF BreaksIInv, EnablesRow
    <3> QED
      BY <1>1, <1>4, <1>7, <3>1, <3>2, <3>3, <3>4, <3>5, HandledFollows DEF P
  <2>2. Quiet(sent) /\ Quiet(sent \o Plain("list"))
    BY <1>5, <2>1, QuietTwo
  <2> HIDE DEF sent
  <2>3. PICK cs : Quiet(cs) /\ commands' = commands \o cs
    BY <1>6, <2>1, <2>2 DEF Quiet
  <2>4. /\ cs \in Seq(Commands) /\ Once(cs) /\ NoRow(cs)
        /\ \A i \in 1..Len(cs) : cs[i].cmd # "load"
    BY <2>3, QuietProper DEF Proper
  <2>5. ASSUME NEW k, NEW i \in 1..Len(cs), k = cs[i]
        PROVE  InsertAsked(k)' /\ EnableAsked(k)'
    BY <2>3, <2>5 DEF Quiet, InsertAsked, EnableAsked
  <2> QED
    BY <1>1, <1>2, <1>3, <2>1, <2>3, <2>4, <2>5, FollowStep DEF r
<1>8. CASE r.kind = "loaded"
  <2>1. /\ \A j \in 1..Len(commands) : commands[j].cmd = "features"
        /\ \A j \in 1..Len(records) : j > 1 => records[j].kind \in {"features", "error"}
    BY <1>4, <1>8 DEF BreaksIInv, LoadFirst
  <2> DEFINE onload == IF r.token = OnLoad THEN <<Command("insert", OnLoad, 0, Breakpoint(1, TRUE))>> ELSE <<>>
             add == BreaksApply \o onload
  <2>2. Proper(onload) /\ NoRow(onload)
    <3>1. 1 \in Line
      BY BreaksAssumption DEF Line
    <3>2. Breakpoint(1, TRUE) \in Arg
      BY <3>1, BreakpointIs
    <3>3. /\ Proper(<<Command("insert", OnLoad, 0, Breakpoint(1, TRUE))>>)
          /\ NoRow(<<Command("insert", OnLoad, 0, Breakpoint(1, TRUE))>>)
      BY <3>2, InsertIs
    <3> QED
      BY <1>5, <3>3, QuietProper
  <2>3. P = Send(List, add)
    BY <1>8 DEF P, Handled
  <2>4. Proper(add)
    BY <1>1, <2>2, AppliesAre, ProperJoined
  <2> HIDE DEF add
  <2>5. /\ Well(P, place) /\ P.rows = rows /\ P.send = <<>> \o add /\ P.marked = marked
    <3>1. P.marked = marked
      BY <2>3 DEF Send, List
    <3> QED
      BY <1>1, <2>3, <2>4, <3>1, ListIs, SendIs DEF Proper
  <2>6. P.send = add
    BY <2>4, <2>5 DEF Proper
  <2>7. RowsFollow(P, r)
    BY <2>5, SameFollows DEF Known
  <2>8. Proper(sent) /\ Proper(sent \o Plain("list"))
    <3>1. Proper(sent)
      BY <1>5, <2>4, <2>6, QuietProper
    <3> HIDE DEF sent
    <3> QED
      BY <1>5, <3>1, QuietProper, ProperJoined
  <2>9. P.send \in Seq(Commands)
    BY <2>4, <2>6 DEF Proper
  <2> HIDE DEF sent
  <2>10. PICK cs : Proper(cs) /\ commands' = commands \o cs
    BY <1>6, <2>8, <2>9
  <2>11. rows' = rows /\ bps' = bps /\ given' = given
    BY <1>2, <2>5 DEF gdbVars
  <2>12. ASSUME NEW k, NEW i \in 1..Len(cs), k = cs[i]
         PROVE  InsertAsked(k)' /\ EnableAsked(k)'
    <3>1. InsertAsked(k) /\ EnableAsked(k)
      BY <2>10, <2>12 DEF Proper
    <3> QED
      BY <2>11, <3>1 DEF InsertAsked, EnableAsked
  <2>13. NoRow(commands) /\ \A i \in 1..Len(records') : records'[i].kind # "inserted"
    <3>1. \A i \in 1..Len(records') : records'[i] = records[i + 1] /\ i + 1 \in 1..Len(records) /\ i + 1 > 1
      BY <1>2, <1>4, Taken
    <3> QED
      BY <2>1, <3>1 DEF NoRow
  <2> QED
    BY <1>1, <1>2, <1>3, <2>5, <2>7, <2>10, <2>12, <2>13, FollowStep DEF r, Proper
<1> QED
  BY <1>7, <1>8

--------------------------------------------------------------------------------
(* The steps of the session, and the theorem                                  *)

LEMMA InitOK == BreaksInit => BreaksIInv
<1> SUFFICES ASSUME BreaksInit
             PROVE  BreaksIInv
  OBVIOUS
<1>1. /\ session = "INACTIVE" /\ rows = NoBreaks
      /\ marked = [l \in Line |-> [on \in BOOLEAN |-> 0]]
      /\ prog = "none" /\ dirty = FALSE /\ commands = <<>> /\ records = <<>>
      /\ bps = NoBreaks /\ given = 0 /\ target = "none" /\ DOMAIN rows = {} /\ DOMAIN bps = {}
  BY NoBreaksIs DEF BreaksInit
<1>2. SessionOK
  <2>1. <<>> \in Seq(Commands) /\ <<>> \in Seq(Records) /\ FALSE \in BOOLEAN /\ 0 \in 0..MaxBreaks
    BY BreaksAssumption
  <2> QED
    BY <1>1, <2>1, NoBreaksIs DEF SessionOK
<1>3. NumbersGiven /\ InsertsRow /\ InsertsOnce /\ LoadFirst /\ RemovesGone /\ EnablesRow
  BY <1>1 DEF NumbersGiven, InsertsRow, InsertsOnce, Once, LoadFirst, RemovesGone, EnablesRow
<1> DEFINE place == [n \in 1..MaxBreaks |-> 0]
<1>4. Places(place)
  BY <1>1, BreaksAssumption DEF Places, Where
<1> HIDE DEF place
<1>5. Well(List, place)
  <2>1. /\ List = [rows |-> List.rows, marked |-> List.marked, send |-> List.send]
        /\ List.rows = rows /\ List.marked = marked /\ List.send = <<>> /\ Known(List) = {}
    BY <1>1, ListIs DEF List
  <2>2. IsFiniteSet(Known(List)) /\ rows \in [Known(List) -> Row]
    BY <1>1, <2>1, FS_EmptySet DEF NoBreaks
  <2>3. ASSUME NEW l \in Line, NEW o \in BOOLEAN
        PROVE  marked[l][o] = Cardinality(AtLine(List, l, o))
    <3>1. AtLine(List, l, o) = {}
      BY <2>1 DEF AtLine
    <3>2. marked[l] = [on \in BOOLEAN |-> 0]
      BY <1>1
    <3> QED
      BY <3>1, <3>2, FS_EmptySet
  <2>4. marked \in [Line -> [BOOLEAN -> Nat]]
    BY <1>1
  <2>5. <<>> \in Seq(Commands)
    OBVIOUS
  <2> QED
    BY <2>1, <2>2, <2>3, <2>4, <2>5 DEF Well
<1> QED
  BY <1>2, <1>3, <1>4, <1>5 DEF BreaksIInv

(* Before a session and after it, GDB and scope know of nothing.              *)
LEMMA SessionStep ==
  ASSUME BreaksIInv, session' \in {"INACTIVE", "ACTIVE"}, prog' = "none", dirty' \in BOOLEAN,
         NEW cs \in Seq(Commands), commands' = cs, session' = "INACTIVE" => cs = <<>>,
         \A i \in 1..Len(cs) : /\ cs[i].cmd = "load" => i = 1
                               /\ i > 1 => cs[i].cmd = "features"
                               /\ cs[i].cmd \in {"load", "features"},
         records' = <<>>, bps' = NoBreaks, given' = 0, target' = "none",
         NEW place, NEW P, Well(P, place), rows' = P.rows, marked' = P.marked,
         \A s \in Known(P) : P.rows[s].id = 0
  PROVE  BreaksIInv'
<1>1. DOMAIN bps' = {} /\ bps' \in Breaks
  BY NoBreaksIs
<1>2. SessionOK'
  BY <1>1, BreaksAssumption DEF SessionOK
<1>3. \A s \in DOMAIN rows' : rows'[s].id = 0
  BY DEF Known
<1>4. NumbersGiven'
  BY <1>1, <1>3 DEF NumbersGiven
<1>5. \A i \in 1..Len(commands') : commands'[i].cmd \in {"load", "features"}
  OBVIOUS
<1>6. InsertsRow' /\ InsertsOnce' /\ RemovesGone' /\ EnablesRow'
  BY <1>1, <1>5 DEF InsertsRow, InsertAsked, InsertsOnce, Once, Inserts, RemovesGone, EnablesRow, EnableAsked
<1>7. LoadFirst'
  BY DEF LoadFirst
<1> DEFINE to == [n \in 1..MaxBreaks |-> 0]
<1>8. Places(to)'
  BY <1>1, BreaksAssumption DEF Places, Where
<1> HIDE DEF to
<1>9. Well(P, to)
  BY DEF Well
<1>10. Well(List, to)'
  BY <1>9, WellDone
<1> QED
  BY <1>2, <1>4, <1>6, <1>7, <1>8, <1>10 DEF BreaksIInv

LEMMA LoadProgramStep ==
  ASSUME BreaksIInv, LoadProgram
  PROVE  BreaksIInv'
<1>1. PICK onload \in BOOLEAN :
        commands' = <<Command("load", IF onload THEN OnLoad ELSE 0, 0, 0)>> \o
                    IF breakAsync = "unasked" THEN Plain("features") ELSE <<>>
  BY DEF LoadProgram
<1>2. PICK place : Well(List, place)
  BY DEF BreaksIInv
<1> DEFINE c == Command("load", IF onload THEN OnLoad ELSE 0, 0, 0)
           f == Command("features", 0, 0, 0)
<1>3. c \in Commands /\ c.cmd = "load" /\ f \in Commands /\ f.cmd = "features"
  <2>1. "load" \in Asked /\ "features" \in Asked
    BY Zenon DEF Asked
  <2>2. (IF onload THEN OnLoad ELSE 0) \in Int /\ 0 \in Arg \cup {0}
    BY DEF OnLoad
  <2> QED
    BY <2>1, <2>2, CommandIs
<1> HIDE DEF c, f
<1>4. commands' = <<c>> \o <<f>> \/ commands' = <<c>> \o <<>>
  BY <1>1 DEF c, f, Plain
<1>5. /\ <<c>> \in Seq(Commands) /\ <<f>> \in Seq(Commands) /\ <<>> \in Seq(Commands)
      /\ Len(<<c>>) = 1 /\ Len(<<f>>) = 1 /\ Len(<<>>) = 0 /\ <<c>>[1] = c /\ <<f>>[1] = f
  BY <1>3
<1>6. ASSUME NEW b \in {<<f>>, <<>>}
      PROVE  /\ <<c>> \o b \in Seq(Commands)
             /\ \A i \in 1..Len(<<c>> \o b) :
                  /\ (<<c>> \o b)[i].cmd = "load" => i = 1
                  /\ i > 1 => (<<c>> \o b)[i].cmd = "features"
                  /\ (<<c>> \o b)[i].cmd \in {"load", "features"}
  <2> DEFINE a == <<c>>
  <2>1. /\ a \in Seq(Commands) /\ b \in Seq(Commands) /\ Len(a) = 1 /\ Len(b) \in {0, 1} /\ a[1] = c
        /\ Len(b) = 1 => b[1] = f
    <3>1. CASE b = <<f>>
      BY <1>5, <3>1
    <3>2. CASE b = <<>>
      BY <1>5, <3>2
    <3> QED
      BY <3>1, <3>2
  <2> HIDE DEF a
  <2>2. /\ a \o b \in Seq(Commands)
        /\ \A i \in 1..Len(a \o b) :
             \/ i \in 1..Len(a) /\ (a \o b)[i] = a[i]
             \/ i - Len(a) \in 1..Len(b) /\ (a \o b)[i] = b[i - Len(a)]
        /\ Len(a \o b) \in Nat
    BY <2>1, Joined
  <2>3. ASSUME NEW i \in 1..Len(a \o b)
        PROVE  /\ (a \o b)[i].cmd = "load" => i = 1
               /\ i > 1 => (a \o b)[i].cmd = "features"
               /\ (a \o b)[i].cmd \in {"load", "features"}
    <3>1. CASE i \in 1..Len(a) /\ (a \o b)[i] = a[i]
      BY <1>3, <2>1, <3>1
    <3>2. CASE i - Len(a) \in 1..Len(b) /\ (a \o b)[i] = b[i - Len(a)]
      BY <1>3, <2>1, <2>2, <3>2
    <3> QED
      BY <2>2, <3>1, <3>2
  <2> QED
    BY <2>2, <2>3 DEF a
<1>7. /\ session = "INACTIVE" /\ session' = "ACTIVE" /\ prog' = "none" /\ dirty' \in BOOLEAN
      /\ records' = <<>> /\ bps' = NoBreaks /\ given' = 0 /\ target' = "none"
      /\ rows' = rows /\ marked' = marked
  BY DEF LoadProgram, BreaksIInv, SessionOK
<1>8. \A s \in Known(List) : List.rows[s].id = 0
  BY <1>7, ListIs, RowIs
<1> QED
  <2>1. PICK b \in {<<f>>, <<>>} : commands' = <<c>> \o b
    BY <1>4
  <2> DEFINE cs == <<c>> \o b
  <2>2. /\ cs \in Seq(Commands) /\ commands' = cs
        /\ \A i \in 1..Len(cs) : /\ cs[i].cmd = "load" => i = 1
                                 /\ i > 1 => cs[i].cmd = "features"
                                 /\ cs[i].cmd \in {"load", "features"}
    BY <1>6, <2>1
  <2> HIDE DEF cs
  <2>3. rows' = List.rows /\ marked' = List.marked /\ session' \in {"INACTIVE", "ACTIVE"}
        /\ session' # "INACTIVE"
    BY <1>7, ListIs
  <2> QED
    BY <1>2, <1>7, <1>8, <2>2, <2>3, SessionStep

LEMMA GdbExitsStep ==
  ASSUME BreaksIInv, GdbExits
  PROVE  BreaksIInv'
<1>1. PICK place : Well(List, place)
  BY DEF BreaksIInv
<1> DEFINE P == BreaksClear(List)
<1>2. Well(P, place) /\ \A s \in Known(P) : P.rows[s].id = 0
  BY <1>1, RowsAfterSession
<1>3. /\ session' = "INACTIVE" /\ prog' = "none" /\ dirty' \in BOOLEAN /\ commands' = <<>>
      /\ records' = <<>> /\ bps' = NoBreaks /\ given' = 0 /\ target' = "none"
      /\ rows' = P.rows /\ marked' = P.marked
  BY DEF GdbExits
<1>4. <<>> \in Seq(Commands) /\ \A i \in 1..Len(<<>>) : FALSE
  OBVIOUS
<1> HIDE DEF P
<1> QED
  BY <1>2, <1>3, <1>4, SessionStep

LEMMA TerminateStep ==
  ASSUME BreaksIInv, Terminate
  PROVE  BreaksIInv'
<1>1. /\ session' = "KILLING" /\ commands' = <<>> /\ records' = records /\ rows' = rows
      /\ marked' = marked /\ prog' = prog /\ dirty' = dirty /\ bps' = bps /\ given' = given
      /\ target' = target
  BY DEF Terminate, gdbVars
<1>2. SessionOK'
  BY <1>1 DEF BreaksIInv, SessionOK
<1>3. NumbersGiven' /\ RemovesGone'
  BY <1>1 DEF BreaksIInv, NumbersGiven, RemovesGone, Removes
<1>4. \A r : InsertTold(r) => InsertTold(r)'
  BY <1>1 DEF InsertTold
<1>5. InsertsRow'
  BY <1>1, <1>4 DEF BreaksIInv, InsertsRow
<1>6. InsertsOnce' /\ LoadFirst'
  BY <1>1 DEF BreaksIInv, InsertsOnce, Once, LoadFirst
<1>7. EnablesRow'
  BY <1>1 DEF BreaksIInv, EnablesRow, Removes
<1>8. \E place : Places(place)' /\ Well(List, place)'
  <2>1. PICK place : Places(place) /\ Well(List, place)
    BY DEF BreaksIInv
  <2>2. Places(place)'
    BY <1>1, <2>1 DEF Places
  <2>3. rows' = List.rows /\ marked' = List.marked
    BY <1>1, ListIs
  <2> QED
    BY <2>1, <2>2, <2>3, WellDone
<1> QED
  BY <1>2, <1>3, <1>5, <1>6, <1>7, <1>8 DEF BreaksIInv

LEMMA GdbExecutesStep ==
  ASSUME BreaksIInv, PlacedWhereAsked, GdbExecutes
  PROVE  BreaksIInv'
<1>1. /\ session = "ACTIVE" /\ commands # <<>> /\ commands' = Tail(commands)
      /\ LET c == Head(commands) IN Refuses(c) \/ Creates(c) \/ Changes(c) \/ Tells(c)
  BY DEF GdbExecutes
<1> QED
  BY <1>1, RefusesStep, CreatesStep, ChangesStep, TellsStep

LEMMA StutterStep ==
  ASSUME BreaksIInv, UNCHANGED breaksVars
  PROVE  BreaksIInv'
<1>1. \A place : Well(List, place) => Well(List, place)'
  <2>1. List' = List
    BY DEF breaksVars, List
  <2> QED
    BY <2>1 DEF Well, Known, AtLine
<1> QED
  BY <1>1, DoStep DEF breaksVars, gdbVars

LEMMA NextOK ==
  ASSUME BreaksIInv, PlacedWhereAsked, [BreaksNext]_breaksVars
  PROVE  BreaksIInv'
<1>1. ASSUME NEW s \in DOMAIN rows, OnBreakDelete(s)
      PROVE  BreaksIInv'
  BY <1>1, DeleteStep DEF OnBreakDelete
<1> QED
  BY <1>1, AskSteps, LoadProgramStep, TerminateStep, EditTextStep, ToggleStep, EnabledToggledStep,
     ReceiveStep, GdbExecutesStep, TargetStopsStep, TargetExitsStep, GdbExitsStep, StutterStep
     DEF BreaksNext

LEMMA WellMarked == BreaksIInv => MarkersAtRows
<1> SUFFICES ASSUME BreaksIInv
             PROVE  MarkersAtRows
  OBVIOUS
<1>1. PICK place : Well(List, place)
  BY DEF BreaksIInv
<1>2. \A s \in DOMAIN rows : rows[s] \in Row
  BY RowIs
<1>3. BreaksTypeOK
  BY <1>1, <1>2, ListIs DEF BreaksTypeOK, BreaksIInv, SessionOK, Well, Row, Where
<1>4. ASSUME NEW l \in Line, NEW on \in BOOLEAN
      PROVE  marked[l][on] = Cardinality({s \in DOMAIN rows : rows[s].line = l /\ rows[s].on = on})
  <2>1. AtLine(List, l, on) = {s \in DOMAIN rows : rows[s].line = l /\ rows[s].on = on}
    BY ListIs DEF AtLine
  <2> QED
    BY <1>1, <2>1, ListIs DEF Well
<1> QED
  BY <1>3, <1>4 DEF MarkersAtRows

(* docs/scope.html: "The breakpoint line markers [...] use the last known     *)
(* file name and line": each line has the markers of its rows, whatever the   *)
(* user does, GDB answers and notifies of, and wherever the session ends,     *)
(* while breakpoints are where they were asked for and no line with one is    *)
(* split.                                                                     *)
THEOREM MarkersCorrect == PlacedWhereAsked /\ BreaksSpec => []MarkersAtRows
<1> SUFFICES ASSUME PlacedWhereAsked
             PROVE  BreaksSpec => []MarkersAtRows
  OBVIOUS
<1>1. BreaksIInv /\ [BreaksNext]_breaksVars => BreaksIInv'
  BY NextOK
<1> QED
  BY <1>1, InitOK, WellMarked, PTL DEF BreaksSpec
================================================================================
