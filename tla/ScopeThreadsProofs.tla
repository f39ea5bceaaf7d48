--------------------------- MODULE ScopeThreadsProofs --------------------------
(***************************************************************************)
(* Theorems about ScopeThreads, for any number of threads, frames, stops   *)
(* and records on the way: that what scope says of the selected thread is  *)
(* the state of its row, and the number of stopped threads is theirs; that *)
(* it leaves Busy only when it knows the threads as they are; and that the *)
(* stack and the locals on the screen are then of the last stop.  The      *)
(* first is of the plugin alone.  The second follows every command from    *)
(* the buffer to its answer, and every thread from GDB through the records *)
(* on the way to its row.  The third follows what is shown from the stop   *)
(* that makes it old to the answer that replaces it, or the stop that      *)
(* clears it.                                                              *)
(***************************************************************************)
EXTENDS ScopeThreads, FiniteSetTheorems, SequenceTheorems, WellFoundedInduction, TLAPS

(* The plugin's state is a record of these fields.                           *)
Fields == {"gdb", "commands", "waitResult", "waitPrompt", "autoRun", "autoExit", "rows", "id",
           "state", "count", "prompt", "gdbThread", "frame", "selected", "stack", "locals",
           "dirty", "view"}

Shape(P) == P = [x \in Fields |-> P[x]]

IsSeq(s) == s \in Seq(Range(s))

(* Where in s the field f is one of K.                                       *)
At(s, f, K) == {i \in 1..Len(s) : s[i][f] \in K}

(* The commands that bring the program up, or start it                       *)
Launching == {"load", "start", "run"}
Launches(s) == At(s, "name", Launching)

(* Nothing is answered or launched from P to Q.                              *)
Asks(P, Q) ==
  /\ Q.waitResult = P.waitResult /\ Q.waitPrompt = P.waitPrompt
  /\ Launches(Q.commands) \subseteq Launches(P.commands)

(* thread_prompt is the number of stopped threads; an address is known of    *)
(* stopped threads only.                                                     *)
Typed(P) ==
  /\ Shape(P)
  /\ P.gdb \in {"INACTIVE", "ACTIVE", "KILLING"}
  /\ IsSeq(P.commands) /\ P.waitResult \in Nat /\ P.waitPrompt \in BOOLEAN
  /\ Known(P) \subseteq Thread /\ P.rows \in [Known(P) -> Row]
  /\ \A t \in Known(P) : P.rows[t].addr => P.rows[t].state = "Stopped"
  /\ P.frame \in Frame \cup {NULL}
  /\ P.state \in AtStop \cup {"BLANK", "RUNNING"}
  /\ P.prompt = Cardinality(Stopped(P))

(* thread_state is that of the row selected.                                 *)
Selected(P) ==
  /\ P.id \in Known(P) \cup {NULL}
  /\ P.state = "BLANK" <=> P.id = NULL \/ P.rows[P.id].state = ""
  /\ P.state \in AtStop <=> P.id # NULL /\ P.rows[P.id].state = "Stopped"

Counted(P) == P.count = Cardinality(Known(P))

Sound(P) == Typed(P) /\ Selected(P) /\ Counted(P)

(* The threads whose creation, or whose end, is still to be read.            *)
Created(s) == {s[i].thread : i \in {j \in 1..Len(s) : s[j].kind = "created"}}
Exited(s) == {s[i].thread : i \in {j \in 1..Len(s) : s[j].kind = "exited"}}

(* Each is created and exits once, and exits after it was created.           *)
PipeSound(s, known) ==
  /\ \A i, j \in 1..Len(s) :
       /\ s[i].kind = s[j].kind /\ s[i].kind \in {"created", "exited"}
       /\ s[i].thread = s[j].thread
       => i = j
  /\ \A i \in 1..Len(s) : s[i].kind = "created" => s[i].thread \notin known
  /\ \A i \in 1..Len(s) : s[i].kind = "exited" =>
       \/ s[i].thread \in known
       \/ \E j \in 1..(i - 1) : s[j].kind = "created" /\ s[j].thread = s[i].thread

(* The threads there are, by what the plugin knows and is going to read.     *)
Alive(s, known) == (known \cup Created(s)) \ Exited(s)

Told ==
  /\ Live = Alive(out, Known(scope))
  /\ PipeSound(out, Known(scope))
  /\ Known(scope) \cup Created(out) \subseteq 1..created

ThreadsIInv ==
  /\ Sound(scope) /\ IsSeq(out) /\ created \in 0..Threads
  /\ gdbUp => scope.gdb # "INACTIVE"
  /\ IF scope.gdb = "INACTIVE" THEN Known(scope) = {} /\ out = <<>> ELSE Told

-------------------------------------------------------------------------------
(* Sequences                                                                 *)

LEMMA SeqOver ==
  ASSUME NEW s
  PROVE  /\ IsSeq(s) <=> Len(s) \in Nat /\ s = [i \in 1..Len(s) |-> s[i]]
         /\ IsSeq(s) => \A S : Range(s) \subseteq S => s \in Seq(S)
<1>1. ASSUME IsSeq(s)
      PROVE  Len(s) \in Nat /\ s = [i \in 1..Len(s) |-> s[i]]
  BY <1>1 DEF IsSeq
<1>2. ASSUME Len(s) \in Nat, s = [i \in 1..Len(s) |-> s[i]], NEW S, Range(s) \subseteq S
      PROVE  s \in Seq(S)
  <2>1. \A i \in 1..Len(s) : s[i] \in S
    BY <1>2 DEF Range
  <2> DEFINE n == Len(s)
  <2>2. n \in Nat /\ s = [i \in 1..n |-> s[i]] /\ \A i \in 1..n : s[i] \in S
    BY <1>2, <2>1
  <2> HIDE DEF n
  <2>3. s \in [1..n -> S]
    BY <2>2
  <2> QED
    BY <2>2, <2>3
<1> QED
  BY <1>1, <1>2 DEF IsSeq

LEMMA Joined ==
  ASSUME NEW s, NEW t, IsSeq(s), IsSeq(t)
  PROVE  /\ IsSeq(s \o t) /\ Len(s \o t) = Len(s) + Len(t)
         /\ \A i \in 1..(Len(s) + Len(t)) :
              (s \o t)[i] = IF i <= Len(s) THEN s[i] ELSE t[i - Len(s)]
<1> DEFINE S == Range(s) \cup Range(t)
           u == s \o t
<1>1. s \in Seq(S) /\ t \in Seq(S)
  BY SeqOver
<1> HIDE DEF S
<1>2. /\ u \in Seq(S) /\ Len(u) = Len(s) + Len(t)
      /\ \A i \in 1..(Len(s) + Len(t)) : u[i] = IF i <= Len(s) THEN s[i] ELSE t[i - Len(s)]
  BY <1>1, ConcatProperties
<1>3. IsSeq(u)
  <2> HIDE DEF u
  <2>1. Len(u) \in Nat /\ u = [i \in 1..Len(u) |-> u[i]]
    BY <1>2
  <2> QED
    BY <2>1, SeqOver
<1> QED
  BY <1>2, <1>3

LEMMA Single ==
  ASSUME NEW x
  PROVE  IsSeq(<<x>>) /\ Len(<<x>>) = 1 /\ <<x>>[1] = x /\ IsSeq(<<>>) /\ Len(<<>>) = 0
<1>1. Len(<<x>>) = 1 /\ <<x>>[1] = x /\ Len(<<>>) = 0
  OBVIOUS
<1>2. <<x>> = [i \in 1..1 |-> <<x>>[i]] /\ <<>> = [i \in 1..0 |-> <<>>[i]]
  OBVIOUS
<1> DEFINE one == <<x>>
           none == <<>>
<1> HIDE DEF one, none
<1>3. Len(one) = 1 /\ Len(none) = 0 /\ one = [i \in 1..1 |-> one[i]] /\ none = [i \in 1..0 |-> none[i]]
  BY <1>1, <1>2 DEF one, none
<1>4. /\ Len(one) \in Nat /\ one = [i \in 1..Len(one) |-> one[i]]
      /\ Len(none) \in Nat /\ none = [i \in 1..Len(none) |-> none[i]]
  BY <1>3
<1>5. IsSeq(one)
  BY <1>4, SeqOver
<1>6. IsSeq(none)
  BY <1>4, SeqOver
<1> QED
  BY <1>1, <1>5, <1>6 DEF one, none

LEMMA AppendedSeq ==
  ASSUME NEW s, NEW x, IsSeq(s)
  PROVE  IsSeq(Append(s, x)) /\ Len(Append(s, x)) = Len(s) + 1
<1>1. s \in Seq(Range(s) \cup {x})
  BY SeqOver
<1>2. Append(s, x) = s \o <<x>>
  BY <1>1, AppendIsConcat
<1> QED
  BY <1>2, Joined, Single

LEMMA TailOf ==
  ASSUME NEW s, IsSeq(s), s # <<>>
  PROVE  /\ IsSeq(Tail(s)) /\ Len(s) \in Nat \ {0} /\ Len(Tail(s)) = Len(s) - 1
         /\ Head(s) = s[1]
         /\ \A i \in 1..(Len(s) - 1) : Tail(s)[i] = s[i + 1]
<1>1. s \in Seq(Range(s))
  BY DEF IsSeq
<1>2. /\ Tail(s) \in Seq(Range(s)) /\ Len(s) \in Nat \ {0} /\ Len(Tail(s)) = Len(s) - 1
      /\ Head(s) = s[1]
      /\ \A i \in 1..(Len(s) - 1) : Tail(s)[i] = s[i + 1]
  BY <1>1, HeadTailProperties
<1> DEFINE u == Tail(s)
<1> HIDE DEF u
<1>3. u \in Seq(Range(s)) => IsSeq(u)
  BY SeqOver
<1> QED
  BY <1>2, <1>3 DEF u

-------------------------------------------------------------------------------
(* What only asks GDB for something, or shows something else                 *)

Plain(P) == Shape(P) /\ IsSeq(P.commands) /\ P.frame \in Frame \cup {NULL}

Keeps(P, Q) ==
  /\ Plain(Q)
  /\ Q.rows = P.rows /\ Q.id = P.id /\ Q.count = P.count /\ Q.prompt = P.prompt /\ Q.gdb = P.gdb
  /\ Asks(P, Q)
  /\ Q.state = P.state \/ (P.state = "QUERY_FRAME" /\ Q.state = "STOPPED")

LEMMA KeepsTwice ==
  ASSUME NEW P, NEW Q, NEW R, Keeps(P, Q), Keeps(Q, R)
  PROVE  Keeps(P, R)
  BY DEF Keeps, Asks

LEMMA KeepsItself ==
  ASSUME NEW P, Plain(P)
  PROVE  Keeps(P, P)
  BY DEF Keeps, Asks

LEMMA KeepsSound ==
  ASSUME NEW P, NEW Q, Keeps(P, Q)
  PROVE  /\ Known(Q) = Known(P) /\ Stopped(Q) = Stopped(P)
         /\ Typed(P) => Typed(Q)
         /\ Typed(P) /\ Selected(P) => Selected(Q)
         /\ Counted(P) => Counted(Q)
<1>1. Known(Q) = Known(P) /\ Stopped(Q) = Stopped(P)
  BY DEF Keeps, Known, Stopped
<1>2. Typed(P) => Typed(Q)
  BY <1>1 DEF Typed, Keeps, Asks, Plain, AtStop
<1>3. Typed(P) /\ Selected(P) => Selected(Q)
  BY <1>1 DEF Selected, Keeps, AtStop
<1> QED
  BY <1>1, <1>2, <1>3 DEF Counted, Keeps

LEMMA AppendedLaunches ==
  ASSUME NEW s, NEW c, IsSeq(s)
  PROVE  /\ Launches(Append(s, c)) \subseteq Launches(s) \cup {Len(s) + 1}
         /\ c.name \notin Launching => Launches(Append(s, c)) \subseteq Launches(s)
<1>1. s \in Seq(Range(s) \cup {c}) /\ Len(s) \in Nat
  BY SeqOver
<1> DEFINE more == Append(s, c)
<1>2. /\ Len(more) = Len(s) + 1 /\ more[Len(s) + 1] = c
      /\ \A i \in 1..Len(s) : more[i] = s[i]
  BY <1>1, AppendProperties
<1> HIDE DEF more
<1>3. \A i \in Launches(more) : i \in Launches(s) \/ (i = Len(s) + 1 /\ c.name \in Launching)
  BY <1>1, <1>2 DEF Launches, At
<1> QED
  BY <1>3 DEF more

LEMMA SendKeeps ==
  ASSUME NEW P, Plain(P), NEW name, name \notin Launching, NEW t, NEW f
  PROVE  Keeps(P, Send(P, name, t, f))
<1> DEFINE c == [name |-> name, thread |-> t, frame |-> f]
           more == Append(P.commands, c)
<1>1. IsSeq(more) /\ Launches(more) \subseteq Launches(P.commands)
  BY AppendedSeq, AppendedLaunches DEF Plain
<1> HIDE DEF c, more
<1>2. Send(P, name, t, f) = IF P.gdb = "ACTIVE" THEN [P EXCEPT !.commands = more] ELSE P
  BY DEF Send, c, more
<1>3. Keeps(P, [P EXCEPT !.commands = more])
  BY <1>1 DEF Keeps, Asks, Plain, Shape, Fields
<1> QED
  BY <1>2, <1>3, KeepsItself

LEMMA MarksKeep ==
  ASSUME NEW P, Plain(P), NEW S
  PROVE  Keeps(P, Dirty(P, S)) /\ Keeps(P, Clean(P, S))
  BY DEF Keeps, Asks, Plain, Shape, Fields, Dirty, Clean

LEMMA StackClearKeeps ==
  ASSUME NEW P, Plain(P)
  PROVE  Keeps(P, StackClear(P))
<1> DEFINE empty == [P EXCEPT !.stack = NoStack, !.selected = NULL]
           moved == [empty EXCEPT !.frame = NULL]
<1>1. Keeps(P, empty)
  BY DEF Keeps, Asks, Plain, Shape, Fields
<1>2. Keeps(P, moved)
  BY DEF Keeps, Asks, Plain, Shape, Fields
<1> HIDE DEF empty, moved
<1>3. Keeps(P, Dirty(moved, {"locals"}))
  BY <1>2, MarksKeep, KeepsTwice DEF Keeps
<1>4. StackClear(P) = IF P.selected = NULL THEN empty ELSE Dirty(moved, {"locals"})
  BY DEF StackClear, empty, moved
<1> QED
  BY <1>1, <1>3, <1>4

LEMMA ThreadsUpdateKeeps ==
  ASSUME NEW P, Plain(P), NEW st
  PROVE  Keeps(P, ThreadsUpdate(P, st))
<1>1. Keeps(P, Clean(Send(P, "info", NULL, NULL), "threads"))
  BY SendKeeps, MarksKeep, KeepsTwice DEF Keeps, Launching
<1> QED
  BY <1>1, KeepsItself DEF ThreadsUpdate

LEMMA StackUpdateKeeps ==
  ASSUME NEW P, Plain(P), NEW st
  PROVE  Keeps(P, StackUpdate(P, st))
<1>1. Keeps(P, Clean(Send(P, "frames", P.id, NULL), "stack"))
  BY SendKeeps, MarksKeep, KeepsTwice DEF Keeps, Launching
<1>2. Keeps(P, Clean(StackClear(P), "stack"))
  BY StackClearKeeps, MarksKeep, KeepsTwice DEF Keeps
<1> QED
  BY <1>1, <1>2, KeepsItself DEF StackUpdate

LEMMA LocalsUpdateKeeps ==
  ASSUME NEW P, Plain(P), NEW st
  PROVE  Keeps(P, LocalsUpdate(P, st))
<1>1. Keeps(P, Clean(Send(P, "locals", P.id, P.frame), "locals"))
  BY SendKeeps, MarksKeep, KeepsTwice DEF Keeps, Launching
<1> DEFINE none == [P EXCEPT !.locals = NoLocals]
<1>2. Keeps(P, none)
  BY DEF Keeps, Asks, Plain, Shape, Fields
<1> HIDE DEF none
<1>3. Keeps(P, Clean(none, "locals"))
  BY <1>2, MarksKeep, KeepsTwice DEF Keeps
<1> QED
  BY <1>1, <1>3, StackUpdateKeeps, KeepsItself DEF LocalsUpdate, none

LEMMA ViewsUpdateKeeps ==
  ASSUME NEW P, Plain(P), NEW st
  PROVE  Keeps(P, ViewsUpdate(P, st))
<1> DEFINE asks == P.state = "QUERY_FRAME" /\ ~("threads" \in P.dirty /\ Shown(P, "threads"))
           asked == IF asks THEN QueryFrame(P) ELSE P
           queried == [asked EXCEPT !.state = IF @ = "QUERY_FRAME" THEN "STOPPED" ELSE @]
           threads == IF Shown(P, "threads") THEN ThreadsUpdate(queried, st) ELSE queried
           stack == IF Shown(P, "stack") THEN StackUpdate(threads, st) ELSE threads
           skip == all /\ "stack" \in threads.dirty /\ stack.state \in AtStop
<1>0. ViewsUpdate(P, st) = IF Shown(P, "locals") /\ ~skip THEN LocalsUpdate(stack, st) ELSE stack
  BY DEF ViewsUpdate
<1>1. Keeps(P, asked)
  BY SendKeeps, KeepsItself DEF QueryFrame, Launching
<1> HIDE DEF asks, asked
<1>2. Keeps(P, queried)
  BY <1>1 DEF Keeps, Asks, Plain, Shape, Fields
<1> HIDE DEF queried
<1>3. Keeps(P, threads)
  BY <1>2, ThreadsUpdateKeeps, KeepsTwice DEF Keeps
<1> HIDE DEF threads
<1>4. Keeps(P, stack)
  BY <1>3, StackUpdateKeeps, KeepsTwice DEF Keeps
<1> HIDE DEF stack, skip
<1> QED
  BY <1>0, <1>4, LocalsUpdateKeeps, KeepsTwice DEF Keeps

LEMMA ContextDirtyKeeps ==
  ASSUME NEW P, Plain(P), NEW views, NEW st
  PROVE  Keeps(P, ContextDirty(P, views, st))
<1>1. Keeps(P, Dirty(P, views))
  BY MarksKeep
<1>2. Keeps(P, ViewsUpdate(Dirty(P, views), st))
  BY <1>1, ViewsUpdateKeeps, KeepsTwice DEF Keeps
<1> QED
  BY <1>1, <1>2 DEF ContextDirty

LEMMA SelectFrameKeeps ==
  ASSUME NEW P, Plain(P), NEW f \in Frame
  PROVE  Keeps(P, SelectFrame(P, f))
<1> DEFINE Q == [P EXCEPT !.selected = f, !.frame = f]
<1>1. Keeps(P, Q)
  BY DEF Keeps, Asks, Plain, Shape, Fields
<1>2. SelectFrame(P, f) = ContextDirty(Q, {"locals"}, DebugState(Q))
  BY DEF SelectFrame
<1> HIDE DEF Q
<1> QED
  BY <1>1, <1>2, ContextDirtyKeeps, KeepsTwice DEF Keeps

LEMMA AnswersKeep ==
  ASSUME NEW P, Plain(P), NEW shown
  PROVE  Keeps(P, OnStackFrames(P, shown)) /\ Keeps(P, OnLocalVariables(P, shown))
<1> DEFINE cleared == StackClear(P)
           empty == [cleared EXCEPT !.stack = shown]
           same == IF P.frame # NULL /\ P.frame < shown.depth THEN SelectFrame(empty, P.frame) ELSE empty
<1>0. OnStackFrames(P, shown) = IF shown.of # P.id THEN P
                                ELSE IF same.frame = NULL THEN SelectFrame(same, 0) ELSE same
  BY DEF OnStackFrames
<1>1. Keeps(P, cleared)
  BY StackClearKeeps
<1> HIDE DEF cleared
<1>2. Keeps(P, empty)
  BY <1>1 DEF Keeps, Asks, Plain, Shape, Fields
<1> HIDE DEF empty
<1>3. Keeps(P, same)
  BY <1>2, SelectFrameKeeps, KeepsTwice DEF Keeps, Plain
<1> HIDE DEF same
<1>4. 0 \in Frame
  BY ScopeAssumption DEF Frame
<1>5. Keeps(P, OnStackFrames(P, shown))
  BY <1>0, <1>3, <1>4, SelectFrameKeeps, KeepsTwice, KeepsItself DEF Keeps
<1>6. Keeps(P, [P EXCEPT !.locals = shown])
  BY DEF Keeps, Asks, Plain, Shape, Fields
<1> QED
  BY <1>5, <1>6, KeepsItself DEF OnLocalVariables

-------------------------------------------------------------------------------
(* Selecting a thread                                                        *)

Moved(P, Q) ==
  /\ Typed(Q) /\ Selected(Q) /\ Q.rows = P.rows /\ Q.count = P.count /\ Q.gdb = P.gdb
  /\ Asks(P, Q)

LEMMA TypedIsPlain ==
  ASSUME NEW P, Typed(P)
  PROVE  Plain(P)
  BY DEF Typed, Plain

(* Of the fields Typed is about, all but frame and state.                    *)
SameData(P, Q) ==
  /\ Q.gdb = P.gdb /\ Q.commands = P.commands /\ Q.waitResult = P.waitResult
  /\ Q.waitPrompt = P.waitPrompt /\ Q.rows = P.rows /\ Q.prompt = P.prompt /\ Q.count = P.count

LEMMA SameDataTyped ==
  ASSUME NEW P, Typed(P), NEW Q, Shape(Q), SameData(P, Q), Q.frame \in Frame \cup {NULL},
         Q.state \in AtStop \cup {"BLANK", "RUNNING"}
  PROVE  Typed(Q) /\ Known(Q) = Known(P) /\ Stopped(Q) = Stopped(P)
<1>1. Known(Q) = Known(P) /\ Stopped(Q) = Stopped(P)
  BY DEF SameData, Known, Stopped
<1> QED
  BY <1>1 DEF Typed, SameData

LEMMA SelectionSound ==
  ASSUME NEW P, Typed(P), NEW t \in Known(P) \cup {NULL}
  PROVE  Moved(P, SelectionChanged(P, t))
<1> DEFINE at(row) == IF row.state # "Stopped"
                      THEN (IF row.state = "" THEN "BLANK" ELSE "RUNNING")
                      ELSE IF row.addr THEN "AT_SOURCE" ELSE "STOPPED"
           none == [P EXCEPT !.id = NULL, !.frame = NULL, !.state = "BLANK"]
           some == [P EXCEPT !.id = t, !.frame = 0, !.state = at(P.rows[t])]
           moved == IF t = NULL THEN none ELSE some
           queried == [moved EXCEPT !.state = "QUERY_FRAME"]
           known == IF moved.state # "STOPPED" THEN moved
                    ELSE IF DebugState(moved) = "DEBUG" THEN QueryFrame(moved)
                    ELSE queried
<1>0. SelectionChanged(P, t) = ContextDirty(known, {"stack", "locals"}, DebugState(known))
  BY DEF SelectionChanged
<1>1. NULL \notin Known(P) /\ 0 \in Frame
  BY ScopeAssumption DEF Typed, Thread, Frame
<1>2. ASSUME t = NULL PROVE Moved(P, moved)
  <2>1. moved = none
    BY <1>2
  <2>2. Shape(none) /\ none.id = NULL /\ none.frame = NULL /\ none.state = "BLANK"
        /\ SameData(P, none)
    BY DEF Typed, Shape, Fields, SameData
  <2> HIDE DEF none
  <2>3. Typed(none) /\ Selected(none)
    BY <2>2, SameDataTyped DEF Selected, AtStop
  <2> QED
    BY <2>1, <2>2, <2>3 DEF Moved, SameData, Asks
<1>3. ASSUME t # NULL PROVE Moved(P, moved)
  <2>1. moved = some /\ t \in Known(P)
    BY <1>3
  <2>2. Shape(some) /\ some.id = t /\ some.frame = 0 /\ some.state = at(P.rows[t])
        /\ SameData(P, some)
    BY DEF Typed, Shape, Fields, SameData
  <2>3. P.rows[t] \in Row
    BY <2>1 DEF Typed
  <2> HIDE DEF some
  <2>4. Typed(some)
    BY <2>2, <1>1, SameDataTyped DEF AtStop
  <2>5. Selected(some)
    BY <2>1, <2>2, <2>3, <1>3 DEF Selected, Known, SameData, AtStop, Row
  <2> QED
    BY <2>1, <2>2, <2>4, <2>5 DEF Moved, SameData, Asks
<1>4. Moved(P, moved)
  BY <1>2, <1>3
<1> HIDE DEF moved
<1>5. ASSUME moved.state = "STOPPED" PROVE Moved(P, queried)
  <2>1. Shape(queried) /\ queried.state = "QUERY_FRAME"
        /\ SameData(moved, queried) /\ queried.frame = moved.frame /\ queried.id = moved.id
    BY <1>4 DEF Moved, Typed, Shape, Fields, SameData
  <2> HIDE DEF queried
  <2>2. Typed(queried)
    BY <2>1, <1>4, SameDataTyped DEF Moved, Typed, AtStop
  <2>3. Selected(queried)
    BY <2>1, <1>4, <1>5 DEF Moved, Selected, Known, SameData, AtStop
  <2> QED
    BY <2>1, <2>2, <2>3, <1>4 DEF Moved, SameData, Asks
<1>6. Moved(P, QueryFrame(moved))
  <2>1. Keeps(moved, QueryFrame(moved))
    BY <1>4, SendKeeps, TypedIsPlain DEF Moved, QueryFrame, Launching
  <2> QED
    BY <2>1, <1>4, KeepsSound DEF Moved, Keeps, Asks
<1>7. Moved(P, known)
  BY <1>4, <1>5, <1>6
<1> HIDE DEF known
<1>8. Keeps(known, SelectionChanged(P, t))
  BY <1>0, <1>7, ContextDirtyKeeps, TypedIsPlain DEF Moved
<1> QED
  BY <1>7, <1>8, KeepsSound DEF Moved, Keeps, Asks

LEMMA CursorSound ==
  ASSUME NEW P, Typed(P), Selected(P), NEW t \in Known(P)
  PROVE  Moved(P, SetCursor(P, t))
  BY SelectionSound DEF SetCursor, Moved, Asks

LEMMA AutoSelectSound ==
  ASSUME NEW P, Typed(P), Selected(P)
  PROVE  Moved(P, AutoSelect(P))
<1> DEFINE first == CHOOSE t \in Stopped(P) : \A u \in Stopped(P) : t <= u
<1>1. ASSUME Stopped(P) # {} PROVE first \in Known(P)
  <2>1. Stopped(P) \subseteq Nat /\ Stopped(P) \subseteq Known(P)
    BY ScopeAssumption DEF Typed, Stopped, Thread
  <2> DEFINE Less == {p \in Nat \X Nat : p[1] < p[2]}
  <2>2. IsWellFoundedOn(Less, Nat)
    BY NatLessThanWellFounded DEF OpToRel
  <2>3. PICK m \in Stopped(P) : \A u \in Stopped(P) : ~(<<u, m>> \in Less)
    BY <1>1, <2>1, <2>2, WFMin
  <2>4. ASSUME NEW u \in Stopped(P) PROVE m <= u
    <3>1. u \in Nat /\ m \in Nat
      BY <2>1
    <3>2. u < m => <<u, m>> \in Less
      BY <3>1
    <3> QED
      BY <2>3, <3>1, <3>2
  <2> QED
    BY <2>1, <2>4
<1> HIDE DEF first
<1>2. AutoSelect(P) = IF Stopped(P) = {} THEN P ELSE SetCursor(P, first)
  BY DEF AutoSelect, first
<1> QED
  BY <1>1, <1>2, CursorSound DEF Moved, Asks

-------------------------------------------------------------------------------
(* Rows that change                                                          *)

LEMMA KnownFinite ==
  ASSUME NEW P, Typed(P)
  PROVE  /\ NULL \notin Known(P)
         /\ IsFiniteSet(Known(P)) /\ IsFiniteSet(Stopped(P))
         /\ \A S : S \subseteq Known(P) => IsFiniteSet(S)
         /\ Cardinality(Stopped(P)) \in Nat
<1>1. IsFiniteSet(1..Threads)
  BY ScopeAssumption, FS_Interval
<1>2. \A S : S \subseteq Known(P) => IsFiniteSet(S)
  BY <1>1, FS_Subset DEF Typed, Thread
<1>3. Stopped(P) \subseteq Known(P)
  BY DEF Stopped
<1>4. NULL \notin Known(P)
  BY ScopeAssumption DEF Typed, Thread
<1> QED
  BY <1>2, <1>3, <1>4, FS_CardinalityType

(* thread_iter_running() keeps the count of the stopped threads.             *)
LEMMA ItersRunningSound ==
  ASSUME NEW P, Typed(P), Selected(P), NEW ts
  PROVE  /\ Typed(ItersRunning(P, ts)) /\ Selected(ItersRunning(P, ts))
         /\ Known(ItersRunning(P, ts)) = Known(P)
         /\ ItersRunning(P, ts).count = P.count /\ ItersRunning(P, ts).gdb = P.gdb
         /\ Asks(P, ItersRunning(P, ts))
         /\ \A t \in Known(P) : ItersRunning(P, ts).rows[t].state =
                                  IF t \in ts THEN "Running" ELSE P.rows[t].state
<1> DEFINE set == ts \cap Known(P)
           rows == [t \in Known(P) |-> IF t \in set THEN [state |-> "Running", addr |-> FALSE]
                                       ELSE P.rows[t]]
           prompt == P.prompt - Cardinality(set \cap Stopped(P))
           state == IF P.id \in set THEN "RUNNING" ELSE P.state
           Q == ItersRunning(P, ts)
<1>1. Q = [P EXCEPT !.rows = rows, !.prompt = prompt, !.state = state]
  BY DEF ItersRunning, Typed, Shape, Fields
<1>2. /\ Shape(Q) /\ Q.rows = rows /\ Q.prompt = prompt /\ Q.state = state /\ Q.id = P.id
      /\ Q.gdb = P.gdb /\ Q.commands = P.commands /\ Q.waitResult = P.waitResult
      /\ Q.waitPrompt = P.waitPrompt /\ Q.count = P.count /\ Q.frame = P.frame
  <2> HIDE DEF rows, prompt, state, Q
  <2> QED
    BY <1>1 DEF Typed, Shape, Fields
<1>3. Known(Q) = Known(P)
  BY <1>2 DEF Known
<1>4. /\ rows \in [Known(P) -> Row]
      /\ \A t \in Known(P) : rows[t].addr => rows[t].state = "Stopped"
  BY DEF Typed, Row
<1>5. Stopped(Q) = Stopped(P) \ (set \cap Stopped(P))
  BY <1>2, <1>3 DEF Stopped
<1>6. prompt = Cardinality(Stopped(Q))
  <2>1. Stopped(P) \cap (set \cap Stopped(P)) = set \cap Stopped(P)
    OBVIOUS
  <2>2. IsFiniteSet(Stopped(P)) /\ P.prompt = Cardinality(Stopped(P))
    BY KnownFinite DEF Typed
  <2> HIDE DEF set, Q
  <2>3. Cardinality(Stopped(Q)) = Cardinality(Stopped(P)) - Cardinality(set \cap Stopped(P))
    BY <1>5, <2>1, <2>2, FS_Difference
  <2> QED
    BY <2>2, <2>3
<1>7. Typed(Q)
  <2> HIDE DEF rows, prompt, Q
  <2> QED
    BY <1>2, <1>3, <1>4, <1>6 DEF Typed, AtStop
<1>8. Selected(Q)
  <2>1. P.id \in Known(P) \cup {NULL} /\ NULL \notin set
    BY KnownFinite DEF Selected
  <2>2. P.id \in set => rows[P.id].state = "Running"
    OBVIOUS
  <2>3. P.id \in Known(P) \ set => rows[P.id] = P.rows[P.id]
    OBVIOUS
  <2> HIDE DEF rows, Q, set
  <2>4. CASE P.id \in set
    BY <1>2, <1>3, <2>1, <2>2, <2>4 DEF Selected, AtStop
  <2>5. CASE P.id \notin set
    BY <1>2, <1>3, <2>1, <2>3, <2>5 DEF Selected
  <2> QED
    BY <2>4, <2>5
<1>9. \A t \in Known(P) : rows[t].state = IF t \in ts THEN "Running" ELSE P.rows[t].state
  OBVIOUS
<1> HIDE DEF rows, prompt, state, Q
<1>10. Asks(P, Q)
  BY <1>2 DEF Asks
<1> QED
  BY <1>2, <1>3, <1>7, <1>8, <1>9, <1>10 DEF Q

LEMMA RunningSound ==
  ASSUME NEW P, Sound(P), NEW ts
  PROVE  /\ Sound(OnThreadRunning(P, ts)) /\ Known(OnThreadRunning(P, ts)) = Known(P)
         /\ OnThreadRunning(P, ts).gdb = P.gdb
         /\ Asks(P, OnThreadRunning(P, ts))
         /\ \A t \in Known(P) : OnThreadRunning(P, ts).rows[t].state =
                                  IF t \in ts THEN "Running" ELSE P.rows[t].state
<1> DEFINE Q == ItersRunning(P, ts)
<1>1. /\ Typed(Q) /\ Selected(Q) /\ Known(Q) = Known(P) /\ Q.count = P.count /\ Q.gdb = P.gdb
      /\ Asks(P, Q)
      /\ \A t \in Known(P) : Q.rows[t].state = IF t \in ts THEN "Running" ELSE P.rows[t].state
  BY ItersRunningSound DEF Sound
<1> HIDE DEF Q
<1>2. Moved(Q, AutoSelect(Q))
  BY <1>1, AutoSelectSound
<1>3. OnThreadRunning(P, ts) \in {Q, AutoSelect(Q)}
  BY DEF OnThreadRunning, Q
<1> QED
  BY <1>1, <1>2, <1>3 DEF Moved, Asks, Sound, Counted, Known

(* thread_parse_frame()                                                      *)
LEMMA ParseFrameSound ==
  ASSUME NEW P, Sound(P), NEW t \in Known(P)
  PROVE  /\ Sound(ParseFrame(P, t)) /\ Known(ParseFrame(P, t)) = Known(P)
         /\ ParseFrame(P, t).gdb = P.gdb
         /\ Asks(P, ParseFrame(P, t))
         /\ \A u \in Known(P) : ParseFrame(P, t).rows[u].state =
                                  IF u = t THEN "Stopped" ELSE P.rows[u].state
<1> DEFINE row == [state |-> "Stopped", addr |-> TRUE]
           rows == [P.rows EXCEPT ![t] = row]
           prompt == P.prompt + (IF t \in Stopped(P) THEN 0 ELSE 1)
           state == IF P.id = t THEN "AT_SOURCE" ELSE P.state
           Q == ParseFrame(P, t)
<1>1. Q = [P EXCEPT !.rows = rows, !.prompt = prompt, !.state = state]
  BY DEF ParseFrame, Sound, Typed, Shape, Fields
<1>2. /\ Shape(Q) /\ Q.rows = rows /\ Q.prompt = prompt /\ Q.state = state /\ Q.id = P.id
      /\ Q.gdb = P.gdb /\ Q.commands = P.commands /\ Q.waitResult = P.waitResult
      /\ Q.waitPrompt = P.waitPrompt /\ Q.count = P.count /\ Q.frame = P.frame
  <2> HIDE DEF rows, prompt, state, Q
  <2> QED
    BY <1>1 DEF Sound, Typed, Shape, Fields
<1>3. /\ rows \in [Known(P) -> Row] /\ rows[t] = row
      /\ \A u \in Known(P) \ {t} : rows[u] = P.rows[u]
      /\ \A u \in Known(P) : rows[u].addr => rows[u].state = "Stopped"
  BY DEF Sound, Typed, Row, Known
<1>4. Known(Q) = Known(P)
  BY <1>2, <1>3 DEF Known
<1>5. Stopped(Q) = Stopped(P) \cup {t}
  <2> HIDE DEF rows, Q
  <2> QED
    BY <1>2, <1>3, <1>4 DEF Stopped
<1>6. prompt = Cardinality(Stopped(Q))
  <2>1. IsFiniteSet(Stopped(P)) /\ P.prompt = Cardinality(Stopped(P)) /\ P.prompt \in Nat
    BY KnownFinite DEF Sound, Typed
  <2> HIDE DEF Q
  <2>2. Cardinality(Stopped(Q)) = IF t \in Stopped(P) THEN P.prompt ELSE P.prompt + 1
    BY <1>5, <2>1, FS_AddElement
  <2> QED
    BY <2>1, <2>2
<1>7. Typed(Q)
  <2> HIDE DEF rows, prompt, Q
  <2> QED
    BY <1>2, <1>3, <1>4, <1>6 DEF Sound, Typed, AtStop
<1>8. Selected(Q)
  <2>1. NULL \notin Known(P)
    BY KnownFinite DEF Sound
  <2>2. rows[t].state = "Stopped" /\ (P.id \in Known(P) \ {t} => rows[P.id] = P.rows[P.id])
    BY <1>3
  <2> HIDE DEF rows, Q
  <2>3. CASE P.id = t
    BY <1>2, <1>4, <2>1, <2>2, <2>3 DEF Selected, AtStop
  <2>4. CASE P.id # t
    BY <1>2, <1>4, <2>1, <2>2, <2>4 DEF Sound, Selected
  <2> QED
    BY <2>3, <2>4
<1>9. \A u \in Known(P) : Q.rows[u].state = IF u = t THEN "Stopped" ELSE P.rows[u].state
  <2> HIDE DEF rows, prompt, state, Q
  <2> QED
    BY <1>2, <1>3
<1> HIDE DEF rows, prompt, state, Q
<1>10. Asks(P, Q)
  BY <1>2 DEF Asks
<1> QED
  BY <1>2, <1>4, <1>7, <1>8, <1>9, <1>10 DEF Sound, Counted, Q

(* Other rows, counted again, with the state of the one selected             *)
Stops(P, rows) == {t \in Known(P) : rows[t].state = "Stopped"}

WithRows(P, rows, prompt, state) == [P EXCEPT !.rows = rows, !.prompt = prompt, !.state = state]

(* The rows are right in themselves, and state is that of the one selected.  *)
Fits(P, rows, state) ==
  /\ rows \in [Known(P) -> Row]
  /\ \A t \in Known(P) : rows[t].addr => rows[t].state = "Stopped"
  /\ state \in AtStop \cup {"BLANK", "RUNNING"}
  /\ P.id = NULL => state = P.state
  /\ P.id \in Known(P) => (state = "BLANK" <=> rows[P.id].state = "")
  /\ P.id \in Known(P) => (state \in AtStop <=> rows[P.id].state = "Stopped")

LEMMA RowsSound ==
  ASSUME NEW P, Typed(P), Selected(P), NEW rows, NEW prompt, NEW state, Fits(P, rows, state),
         prompt = Cardinality(Stops(P, rows)),
         NEW Q, Q = WithRows(P, rows, prompt, state)
  PROVE  /\ Typed(Q) /\ Selected(Q) /\ Known(Q) = Known(P) /\ Q.rows = rows /\ Q.id = P.id
         /\ Q.count = P.count /\ Q.gdb = P.gdb /\ Q.state = state /\ Asks(P, Q)
<1>1. /\ Shape(Q) /\ Q.rows = rows /\ Q.prompt = prompt /\ Q.state = state /\ Q.id = P.id
      /\ Q.gdb = P.gdb /\ Q.commands = P.commands /\ Q.waitResult = P.waitResult
      /\ Q.waitPrompt = P.waitPrompt /\ Q.count = P.count /\ Q.frame = P.frame
  BY DEF WithRows, Typed, Shape, Fields
<1>2. Known(Q) = Known(P) /\ Stopped(Q) = Stops(P, rows)
  BY <1>1 DEF Known, Stopped, Stops, Fits
<1>3. Typed(Q)
  BY ZenonT(40), <1>1, <1>2 DEF Typed, Fits
<1>4. Selected(Q)
  <2>1. P.id \in Known(P) \cup {NULL} /\ NULL \notin Known(P)
    BY KnownFinite DEF Selected
  <2>2. CASE P.id = NULL
    BY <1>1, <1>2, <2>1, <2>2 DEF Selected, Fits
  <2>3. CASE P.id \in Known(P)
    <3>1. Q.id \in Known(Q) /\ Q.id # NULL
      BY <1>1, <1>2, <2>1, <2>3
    <3>2. Q.state = "BLANK" <=> Q.rows[Q.id].state = ""
      BY <1>1, <2>3 DEF Fits
    <3>3. Q.state \in AtStop <=> Q.rows[Q.id].state = "Stopped"
      BY <1>1, <2>3 DEF Fits
    <3> QED
      BY <3>1, <3>2, <3>3 DEF Selected
  <2> QED
    BY <2>1, <2>2, <2>3
<1>5. Asks(P, Q)
  BY <1>1 DEF Asks
<1> QED
  BY <1>1, <1>2, <1>3, <1>4, <1>5

(* thread_iter_stopped()                                                     *)
LEMMA ItersStoppedSound ==
  ASSUME NEW P, Sound(P), NEW ts
  PROVE  /\ Sound(ItersStopped(P, ts)) /\ Known(ItersStopped(P, ts)) = Known(P)
         /\ ItersStopped(P, ts).gdb = P.gdb
         /\ Asks(P, ItersStopped(P, ts))
         /\ \A t \in Known(P) : ItersStopped(P, ts).rows[t].state =
                                  IF t \in ts THEN "Stopped" ELSE P.rows[t].state
<1> DEFINE set == ts \cap Known(P)
           rows == [t \in Known(P) |-> IF t \in set THEN [P.rows[t] EXCEPT !.state = "Stopped"]
                                       ELSE P.rows[t]]
           prompt == P.prompt + Cardinality(set \ Stopped(P))
           state == IF P.id \in set /\ ~P.rows[P.id].addr THEN "QUERY_FRAME" ELSE P.state
           Q == WithRows(P, rows, prompt, state)
           other == IF \E t \in set \ {P.id} : ~P.rows[t].addr THEN {"threads"} ELSE {}
<1>1. ItersStopped(P, ts) = IF P.id \in set THEN Dirty(Dirty(Q, other), {"stack", "locals"})
                            ELSE Dirty(Q, other)
  <2>1. Q = [P EXCEPT !.rows = rows, !.prompt = @ + Cardinality(set \ Stopped(P)),
                      !.state = IF P.id \in set /\ ~P.rows[P.id].addr THEN "QUERY_FRAME" ELSE @]
    BY DEF WithRows, Sound, Typed, Shape, Fields
  <2> HIDE DEF Q
  <2> QED
    BY <2>1 DEF ItersStopped, DataDirty
<1>2. /\ rows \in [Known(P) -> Row]
      /\ \A t \in set : rows[t].state = "Stopped"
      /\ \A t \in Known(P) \ set : rows[t] = P.rows[t]
      /\ \A t \in Known(P) : rows[t].addr => rows[t].state = "Stopped"
  BY DEF Sound, Typed, Row
<1>3. prompt = Cardinality(Stops(P, rows))
  <2>1. Stops(P, rows) = Stopped(P) \cup (set \ Stopped(P))
    <3> HIDE DEF rows
    <3> QED
      BY <1>2 DEF Stopped, Stops
  <2>2. /\ IsFiniteSet(Stopped(P)) /\ IsFiniteSet(set \ Stopped(P))
        /\ P.prompt = Cardinality(Stopped(P)) /\ P.prompt \in Nat
    BY KnownFinite DEF Sound, Typed
  <2>3. Stopped(P) \cap (set \ Stopped(P)) = {}
    OBVIOUS
  <2> HIDE DEF set, rows
  <2>4. Cardinality(Stopped(P) \cup (set \ Stopped(P)))
          = Cardinality(Stopped(P)) + Cardinality(set \ Stopped(P)) - Cardinality({})
    BY <2>2, <2>3, FS_Union
  <2>5. Cardinality({}) = 0 /\ Cardinality(set \ Stopped(P)) \in Nat
    BY <2>2, FS_EmptySet, FS_CardinalityType
  <2>6. Cardinality(Stops(P, rows)) = P.prompt + Cardinality(set \ Stopped(P))
    BY <2>1, <2>2, <2>4, <2>5
  <2> QED
    BY <2>6
<1>4. /\ state \in AtStop \cup {"BLANK", "RUNNING"}
      /\ P.id = NULL => state = P.state
      /\ P.id \in Known(P) => (state = "BLANK" <=> rows[P.id].state = "")
      /\ P.id \in Known(P) => (state \in AtStop <=> rows[P.id].state = "Stopped")
  <2>1. NULL \notin Known(P)
    BY KnownFinite DEF Sound
  <2>2. CASE P.id \in set /\ ~P.rows[P.id].addr
    BY <1>2, <2>1, <2>2 DEF AtStop
  <2>3. CASE P.id \in set /\ P.rows[P.id].addr
    <3>1. P.rows[P.id].state = "Stopped" /\ state = P.state /\ rows[P.id].state = "Stopped"
      BY <1>2, <2>3 DEF Sound, Typed
    <3> HIDE DEF rows, state
    <3> QED
      BY <2>1, <2>3, <3>1 DEF Sound, Typed, Selected, AtStop
  <2>4. CASE P.id \notin set
    <3>1. state = P.state /\ (P.id \in Known(P) => rows[P.id] = P.rows[P.id])
      BY <2>4
    <3> HIDE DEF rows, state
    <3> QED
      BY <2>1, <3>1 DEF Sound, Typed, Selected
  <2> QED
    BY <2>2, <2>3, <2>4
<1>q. Q = WithRows(P, rows, prompt, state) /\ Typed(P) /\ Selected(P) /\ Fits(P, rows, state)
  BY <1>2, <1>4 DEF Sound, Fits
<1> HIDE DEF rows, prompt, state, Q
<1>5. /\ Typed(Q) /\ Selected(Q) /\ Known(Q) = Known(P) /\ Q.rows = rows /\ Q.id = P.id
      /\ Q.count = P.count /\ Q.gdb = P.gdb /\ Asks(P, Q)
  BY <1>q, <1>3, RowsSound
<1>r. \A t \in Known(P) : rows[t].state = IF t \in ts THEN "Stopped" ELSE P.rows[t].state
  BY <1>2
<1> HIDE DEF set, other
<1>6. Keeps(Q, ItersStopped(P, ts))
  <2>1. Keeps(Q, Dirty(Q, other))
    BY <1>5, MarksKeep, TypedIsPlain
  <2>2. Keeps(Dirty(Q, other), Dirty(Dirty(Q, other), {"stack", "locals"}))
    BY <2>1, MarksKeep DEF Keeps
  <2> QED
    BY <1>1, <2>1, <2>2, KeepsTwice
<1> QED
  BY <1>5, <1>6, <1>r, KeepsSound DEF Sound, Counted, Keeps, Asks

LEMMA StoppedSound ==
  ASSUME NEW P, Sound(P), NEW t, NEW ts
  PROVE  /\ Sound(OnThreadStopped(P, t, ts)) /\ Known(OnThreadStopped(P, t, ts)) = Known(P)
         /\ OnThreadStopped(P, t, ts).gdb = P.gdb
         /\ Asks(P, OnThreadStopped(P, t, ts))
         /\ \A u \in Known(P) : OnThreadStopped(P, t, ts).rows[u].state =
                                  IF u = t \/ u \in ts THEN "Stopped" ELSE P.rows[u].state
<1> DEFINE framed == IF t \in Known(P) THEN ParseFrame(P, t) ELSE P
           marked == ItersStopped(framed, ts)
           found == ({t} \cup ts) \cap Known(P)
           first == IF t \in found THEN t ELSE CHOOSE u \in found : TRUE
<1>1. OnThreadStopped(P, t, ts) = IF SelectOnStopped /\ marked.state \notin AtStop /\ found # {}
                                  THEN SetCursor(marked, first) ELSE marked
  BY DEF OnThreadStopped
<1>2. /\ Sound(framed) /\ Known(framed) = Known(P) /\ framed.gdb = P.gdb /\ Asks(P, framed)
      /\ \A u \in Known(P) : framed.rows[u].state = IF u = t THEN "Stopped" ELSE P.rows[u].state
  BY ParseFrameSound DEF Asks
<1> HIDE DEF framed
<1>3. /\ Sound(marked) /\ Known(marked) = Known(P) /\ marked.gdb = P.gdb /\ Asks(P, marked)
      /\ \A u \in Known(P) : marked.rows[u].state =
                               IF u = t \/ u \in ts THEN "Stopped" ELSE P.rows[u].state
  BY <1>2, ItersStoppedSound DEF Asks
<1>4. found # {} => first \in Known(P)
  OBVIOUS
<1> HIDE DEF marked, found, first
<1>5. ASSUME found # {} PROVE Moved(marked, SetCursor(marked, first))
  BY <1>3, <1>4, <1>5, CursorSound DEF Sound
<1> QED
  BY <1>1, <1>3, <1>5 DEF Moved, Asks, Sound, Counted, Known

LEMMA GdbThreadSound ==
  ASSUME NEW P, Sound(P), NEW t, NEW select
  PROVE  /\ Sound(SetGdbThread(P, t, select)) /\ Known(SetGdbThread(P, t, select)) = Known(P)
         /\ SetGdbThread(P, t, select).gdb = P.gdb
         /\ Asks(P, SetGdbThread(P, t, select))
         /\ SetGdbThread(P, t, select).rows = P.rows
<1> DEFINE Q == [P EXCEPT !.gdbThread = t]
<1>1. Keeps(P, Q)
  BY TypedIsPlain DEF Sound, Keeps, Asks, Plain, Shape, Fields
<1>2. SetGdbThread(P, t, select) = IF select /\ t \in Known(P) THEN SetCursor(Q, t) ELSE Q
  BY DEF SetGdbThread
<1> HIDE DEF Q
<1>3. Sound(Q) /\ Known(Q) = Known(P) /\ Q.gdb = P.gdb /\ Q.rows = P.rows /\ Asks(P, Q)
  BY <1>1, KeepsSound DEF Sound, Keeps
<1>4. t \in Known(P) => Moved(Q, SetCursor(Q, t))
  BY <1>3, CursorSound DEF Sound
<1> QED
  BY <1>2, <1>3, <1>4 DEF Moved, Asks, Sound, Counted, Known

(* thread_info_parse()                                                       *)
LEMMA InfoSound ==
  ASSUME NEW P, Sound(P), NEW states, NEW current
  PROVE  /\ Sound(OnThreadInfo(P, states, current)) /\ Known(OnThreadInfo(P, states, current)) = Known(P)
         /\ OnThreadInfo(P, states, current).gdb = P.gdb
         /\ Asks(P, OnThreadInfo(P, states, current))
         /\ \A t \in Known(P) : OnThreadInfo(P, states, current).rows[t].state =
              IF t \notin DOMAIN states THEN P.rows[t].state
              ELSE IF states[t] THEN "Running" ELSE "Stopped"
<1> DEFINE stopped == {t \in DOMAIN states : ~states[t]} \cap Known(P)
           resumed == {t \in DOMAIN states \cap Known(P) : states[t] /\ P.rows[t].state # "Running"}
           R == ItersRunning(P, resumed)
           row == [state |-> "Stopped", addr |-> TRUE]
           rows == [t \in Known(P) |-> IF t \in stopped THEN row ELSE R.rows[t]]
           prompt == R.prompt + Cardinality(stopped \ Stopped(P))
           state == IF P.id \in stopped THEN "AT_SOURCE" ELSE R.state
           Q == WithRows(R, rows, prompt, state)
<1>1. /\ Typed(R) /\ Selected(R) /\ Known(R) = Known(P) /\ R.count = P.count /\ R.gdb = P.gdb
      /\ R.id = P.id /\ Asks(P, R)
      /\ R.rows = [t \in Known(P) |-> IF t \in resumed \cap Known(P)
                                       THEN [state |-> "Running", addr |-> FALSE] ELSE P.rows[t]]
  <2> HIDE DEF resumed
  <2>1. /\ Typed(R) /\ Selected(R) /\ Known(R) = Known(P) /\ R.count = P.count /\ R.gdb = P.gdb
        /\ Asks(P, R)
    BY ItersRunningSound DEF Sound
  <2> DEFINE ran == [t \in Known(P) |-> IF t \in resumed \cap Known(P)
                                        THEN [state |-> "Running", addr |-> FALSE] ELSE P.rows[t]]
             less == P.prompt - Cardinality(resumed \cap Known(P) \cap Stopped(P))
             state1 == IF P.id \in resumed \cap Known(P) THEN "RUNNING" ELSE P.state
  <2>2. R = [P EXCEPT !.rows = ran, !.prompt = less, !.state = state1]
    BY DEF ItersRunning, Sound, Typed, Shape, Fields
  <2>3. R.rows = ran /\ R.id = P.id
    <3> HIDE DEF ran, less, state1, R
    <3> QED
      BY <2>2 DEF Sound, Typed, Shape, Fields
  <2> QED
    BY <2>1, <2>3
<1>2. OnThreadInfo(P, states, current) = IF current = NULL THEN Q ELSE SetGdbThread(Q, current, SelectFollow)
  <2>1. Q = [R EXCEPT !.rows = rows, !.prompt = @ + Cardinality(stopped \ Stopped(P)),
                      !.state = IF P.id \in stopped THEN "AT_SOURCE" ELSE @]
    <3> HIDE DEF rows, stopped, R
    <3> QED
      BY <1>1 DEF WithRows, Typed, Shape, Fields
  <2> HIDE DEF Q
  <2> QED
    BY <2>1 DEF OnThreadInfo
<1>3. stopped \cap resumed = {} /\ stopped \subseteq Known(P)
  OBVIOUS
<1>s. \A t \in Known(P) : rows[t].state = IF t \notin DOMAIN states THEN P.rows[t].state
                                           ELSE IF states[t] THEN "Running" ELSE "Stopped"
  <2> SUFFICES ASSUME NEW t \in Known(P)
               PROVE  rows[t].state = IF t \notin DOMAIN states THEN P.rows[t].state
                                      ELSE IF states[t] THEN "Running" ELSE "Stopped"
    OBVIOUS
  <2>1. rows[t] = IF t \in stopped THEN row
                  ELSE IF t \in resumed THEN [state |-> "Running", addr |-> FALSE] ELSE P.rows[t]
    BY <1>1
  <2>2. CASE t \in stopped
    BY <2>1, <2>2
  <2>3. CASE t \in resumed
    BY <2>1, <2>3
  <2>4. CASE t \notin stopped /\ t \notin resumed
    BY <2>1, <2>4
  <2> QED
    BY <2>2, <2>3, <2>4
<1> HIDE DEF R, stopped
<1>4. /\ rows \in [Known(P) -> Row]
      /\ \A t \in stopped : rows[t].state = "Stopped"
      /\ \A t \in Known(P) \ stopped : rows[t] = R.rows[t]
      /\ \A t \in Known(P) : rows[t].addr => rows[t].state = "Stopped"
  <2>1. /\ R.rows \in [Known(P) -> Row]
        /\ \A t \in Known(P) : R.rows[t].addr => R.rows[t].state = "Stopped"
    BY <1>1 DEF Typed
  <2>2. row \in Row
    BY DEF Row
  <2>3. rows \in [Known(P) -> Row]
    BY <2>1, <2>2
  <2> QED
    BY <1>3, <2>1, <2>3
<1>5. stopped \ Stopped(R) = stopped \ Stopped(P)
  <2> HIDE DEF resumed
  <2>1. \A t \in stopped : R.rows[t] = P.rows[t]
    BY <1>1, <1>3
  <2> QED
    BY <1>1, <1>3, <2>1 DEF Stopped
<1>6. prompt = Cardinality(Stops(R, rows))
  <2>1. Stops(R, rows) = Stopped(R) \cup (stopped \ Stopped(P))
    <3> HIDE DEF rows
    <3> QED
      BY <1>1, <1>3, <1>4, <1>5 DEF Stopped, Stops
  <2>2. /\ IsFiniteSet(Stopped(R)) /\ IsFiniteSet(stopped \ Stopped(P))
        /\ R.prompt = Cardinality(Stopped(R)) /\ R.prompt \in Nat
    BY <1>1, <1>3, KnownFinite DEF Typed
  <2>3. Stopped(R) \cap (stopped \ Stopped(P)) = {}
    BY <1>5
  <2> HIDE DEF rows
  <2>4. Cardinality(Stopped(R) \cup (stopped \ Stopped(P)))
          = Cardinality(Stopped(R)) + Cardinality(stopped \ Stopped(P)) - Cardinality({})
    BY <2>2, <2>3, FS_Union
  <2>5. Cardinality({}) = 0 /\ Cardinality(stopped \ Stopped(P)) \in Nat
    BY <2>2, FS_EmptySet, FS_CardinalityType
  <2>6. Cardinality(Stops(R, rows)) = R.prompt + Cardinality(stopped \ Stopped(P))
    BY <2>1, <2>2, <2>4, <2>5
  <2> QED
    BY <2>6
<1>7. /\ state \in AtStop \cup {"BLANK", "RUNNING"}
      /\ R.id = NULL => state = R.state
      /\ R.id \in Known(R) => (state = "BLANK" <=> rows[R.id].state = "")
      /\ R.id \in Known(R) => (state \in AtStop <=> rows[R.id].state = "Stopped")
  <2>1. NULL \notin Known(P) /\ P.id = R.id
    BY <1>1, KnownFinite DEF Sound
  <2>2. CASE P.id \in stopped
    BY <1>3, <1>4, <2>1, <2>2 DEF AtStop
  <2>3. CASE P.id \notin stopped
    <3>1. state = R.state /\ (R.id \in Known(P) => rows[R.id] = R.rows[R.id])
      BY <1>4, <2>1, <2>3
    <3> HIDE DEF rows, state
    <3> QED
      BY <1>1, <2>1, <3>1 DEF Typed, Selected
  <2> QED
    BY <2>2, <2>3
<1>q. Q = WithRows(R, rows, prompt, state) /\ Fits(R, rows, state)
  BY <1>1, <1>4, <1>7 DEF Fits
<1> HIDE DEF rows, prompt, state, Q
<1>8. /\ Typed(Q) /\ Selected(Q) /\ Known(Q) = Known(P) /\ Q.count = P.count /\ Q.gdb = P.gdb
      /\ Q.rows = rows /\ Asks(P, Q)
  <2>1. Typed(R) /\ Selected(R) /\ Known(R) = Known(P) /\ R.count = P.count /\ R.gdb = P.gdb
    BY <1>1
  <2>2. /\ Typed(Q) /\ Selected(Q) /\ Known(Q) = Known(R) /\ Q.count = R.count /\ Q.gdb = R.gdb
        /\ Q.rows = rows /\ Asks(R, Q)
    BY <1>q, <2>1, <1>6, RowsSound
  <2> QED
    BY <1>1, <2>2 DEF Asks
<1>9. Sound(Q)
  BY <1>8 DEF Sound, Counted
<1> QED
  BY <1>2, <1>8, <1>9, <1>s, GdbThreadSound DEF Asks

(* A row more                                                                *)
LEMMA CreatedSound ==
  ASSUME NEW P, Sound(P), NEW t \in Thread \ Known(P)
  PROVE  /\ Sound(OnThreadCreated(P, t)) /\ Known(OnThreadCreated(P, t)) = Known(P) \cup {t}
         /\ OnThreadCreated(P, t).gdb = P.gdb
         /\ Asks(P, OnThreadCreated(P, t))
         /\ \A u \in Known(P) : OnThreadCreated(P, t).rows[u] = P.rows[u]
<1> DEFINE row == [state |-> "", addr |-> FALSE]
           rows == [u \in Known(P) \cup {t} |-> IF u = t THEN row ELSE P.rows[u]]
           count == P.count + 1
           R == [P EXCEPT !.count = count, !.rows = rows]
           Q == Send(R, "info", t, NULL)
<1>0. OnThreadCreated(P, t) = IF Q.count = 1 THEN SetGdbThread(Q, t, TRUE) ELSE Q
  <2>1. R = [P EXCEPT !.count = @ + 1, !.rows = rows]
    BY DEF Sound, Typed, Shape, Fields
  <2> HIDE DEF R
  <2> QED
    BY <2>1 DEF OnThreadCreated
<1>1. /\ Shape(R) /\ R.rows = rows /\ R.prompt = P.prompt /\ R.state = P.state /\ R.id = P.id
      /\ R.gdb = P.gdb /\ R.commands = P.commands /\ R.waitResult = P.waitResult
      /\ R.waitPrompt = P.waitPrompt /\ R.count = count /\ R.frame = P.frame
  <2> HIDE DEF rows, count
  <2> QED
    BY DEF Sound, Typed, Shape, Fields
<1> HIDE DEF R
<1>2. /\ rows \in [Known(P) \cup {t} -> Row] /\ rows[t] = row
      /\ \A u \in Known(P) : rows[u] = P.rows[u]
      /\ \A u \in Known(P) \cup {t} : rows[u].addr => rows[u].state = "Stopped"
  BY DEF Sound, Typed, Row
<1>3. Known(R) = Known(P) \cup {t}
  BY <1>1, <1>2 DEF Known
<1>4. Stopped(R) = Stopped(P)
  <2>1. rows[t].state # "Stopped"
    OBVIOUS
  <2> HIDE DEF rows
  <2> QED
    BY <1>1, <1>2, <1>3, <2>1 DEF Stopped
<1> HIDE DEF rows
<1>5. Typed(R)
  BY <1>1, <1>2, <1>3, <1>4 DEF Sound, Typed
<1>6. Selected(R)
  <2>1. t # NULL /\ NULL \notin Known(P)
    BY ScopeAssumption, KnownFinite DEF Sound, Thread
  <2>2. CASE P.id = NULL
    BY <1>1, <1>3, <2>1, <2>2 DEF Sound, Selected
  <2>3. CASE P.id \in Known(P)
    BY <1>1, <1>2, <1>3, <2>1, <2>3 DEF Sound, Selected
  <2> QED
    BY <2>2, <2>3 DEF Sound, Selected
<1>7. Counted(R)
  <2>1. Cardinality(Known(P) \cup {t}) = Cardinality(Known(P)) + 1
    BY KnownFinite, FS_AddElement DEF Sound
  <2> QED
    BY <1>1, <1>3, <2>1 DEF Sound, Counted
<1>8. Keeps(R, Q)
  BY <1>5, SendKeeps, TypedIsPlain DEF Launching
<1> HIDE DEF Q
<1>9. Sound(Q) /\ Known(Q) = Known(P) \cup {t} /\ Q.gdb = P.gdb
  BY <1>1, <1>3, <1>5, <1>6, <1>7, <1>8, KeepsSound DEF Sound, Keeps
<1>10. Asks(P, Q) /\ \A u \in Known(P) : Q.rows[u] = P.rows[u]
  BY <1>1, <1>2, <1>8 DEF Keeps, Asks
<1> DEFINE S == SetGdbThread(Q, t, TRUE)
<1>11. /\ Sound(S) /\ Known(S) = Known(Q) /\ S.gdb = Q.gdb /\ Asks(Q, S) /\ S.rows = Q.rows
  BY <1>9, GdbThreadSound
<1> HIDE DEF S
<1>12. OnThreadCreated(P, t) \in {Q, S}
  BY <1>0 DEF S
<1> QED
  BY <1>9, <1>10, <1>11, <1>12 DEF Asks

(* on_debug_auto_exit()                                                      *)
LEMMA GdbSound ==
  ASSUME NEW P, Sound(P), NEW gdb \in {"INACTIVE", "ACTIVE", "KILLING"}
  PROVE  /\ Sound([P EXCEPT !.gdb = gdb]) /\ Known([P EXCEPT !.gdb = gdb]) = Known(P)
         /\ [P EXCEPT !.gdb = gdb].gdb = gdb /\ [P EXCEPT !.gdb = gdb].rows = P.rows
         /\ Asks(P, [P EXCEPT !.gdb = gdb])
<1> DEFINE Q == [P EXCEPT !.gdb = gdb]
<1>1. /\ Shape(Q) /\ Q.rows = P.rows /\ Q.prompt = P.prompt /\ Q.state = P.state /\ Q.id = P.id
      /\ Q.gdb = gdb /\ Q.commands = P.commands /\ Q.waitResult = P.waitResult
      /\ Q.waitPrompt = P.waitPrompt /\ Q.count = P.count /\ Q.frame = P.frame
  BY DEF Sound, Typed, Shape, Fields
<1> HIDE DEF Q
<1>2. Known(Q) = Known(P) /\ Stopped(Q) = Stopped(P)
  BY <1>1 DEF Known, Stopped
<1>3. Typed(Q)
  BY <1>1, <1>2 DEF Sound, Typed
<1>4. Selected(Q) /\ Counted(Q)
  BY <1>1, <1>2 DEF Sound, Selected, Counted
<1>5. Asks(P, Q)
  BY <1>1 DEF Asks
<1> QED
  BY <1>1, <1>2, <1>3, <1>4, <1>5 DEF Sound, Q

LEMMA AutoExitSound ==
  ASSUME NEW P, Sound(P)
  PROVE  /\ Sound(AutoExit(P)) /\ Known(AutoExit(P)) = Known(P)
         /\ AutoExit(P).gdb \in {P.gdb, "KILLING"} /\ AutoExit(P).rows = P.rows
         /\ Asks(P, AutoExit(P))
<1> DEFINE Q == Send(P, "exit", NULL, NULL)
<1>1. Keeps(P, Q)
  BY SendKeeps, TypedIsPlain DEF Sound, Launching
<1>2. AutoExit(P) = IF P.autoExit THEN [Q EXCEPT !.gdb = "KILLING"] ELSE P
  BY DEF AutoExit
<1> HIDE DEF Q
<1>3. Sound(Q) /\ Known(Q) = Known(P) /\ Q.rows = P.rows /\ Asks(P, Q)
  BY <1>1, KeepsSound DEF Sound, Keeps
<1> DEFINE R == [Q EXCEPT !.gdb = "KILLING"]
<1>4. Sound(R) /\ Known(R) = Known(Q) /\ R.gdb = "KILLING" /\ R.rows = Q.rows /\ Asks(Q, R)
  BY <1>3, GdbSound
<1> HIDE DEF R
<1> QED
  BY <1>2, <1>3, <1>4 DEF Asks, R

(* A row less: the cursor moves to the row next, if it was on the one gone.  *)
LEMMA ExitedSound ==
  ASSUME NEW P, Sound(P), NEW t \in Known(P), NEW next \in Known(P) \cup {NULL},
         P.id = t => next # t
  PROVE  /\ Sound(OnThreadExited(P, t, next)) /\ Known(OnThreadExited(P, t, next)) = Known(P) \ {t}
         /\ OnThreadExited(P, t, next).gdb \in {P.gdb, "KILLING"}
         /\ Asks(P, OnThreadExited(P, t, next))
         /\ \A u \in Known(P) \ {t} : OnThreadExited(P, t, next).rows[u] = P.rows[u]
<1> DEFINE rows == [u \in Known(P) \ {t} |-> P.rows[u]]
           prompt == P.prompt - (IF t \in Stopped(P) THEN 1 ELSE 0)
           gdbThread == IF P.gdbThread = t THEN NULL ELSE P.gdbThread
           gone == [P EXCEPT !.rows = rows, !.prompt = prompt, !.gdbThread = gdbThread]
           moved == IF P.id = t THEN SelectionChanged(gone, next) ELSE gone
           chosen == IF P.id = t /\ SelectOnExited THEN AutoSelect(moved) ELSE moved
           counted == [chosen EXCEPT !.count = @ - 1]
<1>0. OnThreadExited(P, t, next) = IF counted.count = 0 THEN AutoExit(counted) ELSE counted
  <2>1. gone = [P EXCEPT !.rows = rows, !.prompt = @ - (IF t \in Stopped(P) THEN 1 ELSE 0),
                         !.gdbThread = IF @ = t THEN NULL ELSE @]
    BY DEF Sound, Typed, Shape, Fields
  <2> HIDE DEF gone
  <2> QED
    BY <2>1 DEF OnThreadExited
<1>1. /\ Shape(gone) /\ gone.rows = rows /\ gone.prompt = prompt /\ gone.state = P.state
      /\ gone.id = P.id /\ gone.gdb = P.gdb /\ gone.commands = P.commands
      /\ gone.waitResult = P.waitResult /\ gone.waitPrompt = P.waitPrompt
      /\ gone.count = P.count /\ gone.frame = P.frame
  <2> HIDE DEF rows, prompt, gdbThread
  <2> QED
    BY DEF Sound, Typed, Shape, Fields
<1> HIDE DEF gone
<1>2. /\ rows \in [Known(P) \ {t} -> Row] /\ \A u \in Known(P) \ {t} : rows[u] = P.rows[u]
  BY DEF Sound, Typed
<1>3. Known(gone) = Known(P) \ {t}
  BY <1>1 DEF Known
<1> HIDE DEF rows
<1>4. Stopped(gone) = Stopped(P) \ {t}
  BY <1>1, <1>2, <1>3 DEF Stopped
<1>5. prompt = Cardinality(Stopped(gone))
  <2>1. IsFiniteSet(Stopped(P)) /\ P.prompt = Cardinality(Stopped(P)) /\ P.prompt \in Nat
    BY KnownFinite DEF Sound, Typed
  <2>2. Cardinality(Stopped(P) \ {t}) = IF t \in Stopped(P) THEN P.prompt - 1 ELSE P.prompt
    BY <2>1, FS_RemoveElement
  <2> QED
    BY <1>4, <2>1, <2>2
<1> HIDE DEF prompt
<1>6. Typed(gone)
  BY <1>1, <1>2, <1>3, <1>5 DEF Sound, Typed
<1>7. P.id # t => Selected(gone)
  <2>1. NULL \notin Known(P)
    BY KnownFinite DEF Sound
  <2>2. ASSUME P.id = NULL PROVE Selected(gone)
    BY <1>1, <1>3, <2>1, <2>2 DEF Sound, Selected
  <2>3. ASSUME P.id \in Known(P), P.id # t PROVE Selected(gone)
    BY <1>1, <1>2, <1>3, <2>1, <2>3 DEF Sound, Selected
  <2> QED
    BY <2>2, <2>3 DEF Sound, Selected
<1>8. Moved(gone, moved)
  <2>1. CASE P.id = t
    BY <1>3, <1>6, <2>1, SelectionSound
  <2>2. CASE P.id # t
    BY <1>6, <1>7, <2>2 DEF Moved, Asks
  <2> QED
    BY <2>1, <2>2
<1> HIDE DEF moved
<1>9. Moved(gone, chosen)
  BY <1>8, AutoSelectSound DEF Moved, Asks
<1> HIDE DEF chosen
<1>10. Typed(chosen) /\ Selected(chosen) /\ chosen.rows = gone.rows /\ chosen.count = P.count
       /\ chosen.gdb = P.gdb /\ Asks(P, chosen)
  BY <1>1, <1>9 DEF Moved, Asks
<1>11. /\ Shape(counted) /\ counted.rows = chosen.rows /\ counted.prompt = chosen.prompt
       /\ counted.state = chosen.state /\ counted.id = chosen.id /\ counted.gdb = P.gdb
       /\ counted.commands = chosen.commands /\ counted.waitResult = chosen.waitResult
       /\ counted.waitPrompt = chosen.waitPrompt /\ counted.count = P.count - 1
       /\ counted.frame = chosen.frame
  BY <1>10 DEF Typed, Shape, Fields
<1> HIDE DEF counted
<1>12. Known(counted) = Known(P) \ {t} /\ Known(counted) = Known(chosen)
       /\ Stopped(counted) = Stopped(chosen)
  BY <1>3, <1>10, <1>11 DEF Known, Stopped
<1>13. Typed(counted)
  BY <1>10, <1>11, <1>12 DEF Typed
<1>14. Selected(counted)
  BY <1>10, <1>11, <1>12 DEF Selected
<1>15. Counted(counted)
  <2>1. Cardinality(Known(P) \ {t}) = Cardinality(Known(P)) - 1
    BY KnownFinite, FS_RemoveElement DEF Sound
  <2> QED
    BY <1>11, <1>12, <2>1 DEF Sound, Counted
<1>16. Asks(P, counted) /\ \A u \in Known(P) \ {t} : counted.rows[u] = P.rows[u]
  BY <1>1, <1>2, <1>10, <1>11 DEF Asks
<1> DEFINE S == AutoExit(counted)
<1>17. /\ Sound(counted) /\ Sound(S) /\ Known(S) = Known(counted) /\ S.gdb \in {P.gdb, "KILLING"}
       /\ S.rows = counted.rows /\ Asks(counted, S)
  BY <1>11, <1>13, <1>14, <1>15, AutoExitSound DEF Sound
<1> HIDE DEF S
<1>18. OnThreadExited(P, t, next) \in {counted, S}
  BY <1>0 DEF S
<1> QED
  BY <1>11, <1>12, <1>16, <1>17, <1>18 DEF Asks

-------------------------------------------------------------------------------
(* A record that is read                                                     *)

(* A command more, whichever it is                                           *)
LEMMA SendSound ==
  ASSUME NEW P, Sound(P), NEW name, NEW t, NEW f, NEW Q, Q = Send(P, name, t, f)
  PROVE  /\ Sound(Q) /\ Known(Q) = Known(P) /\ Q.rows = P.rows /\ Q.gdb = P.gdb
         /\ Q.waitResult = P.waitResult /\ Q.waitPrompt = P.waitPrompt
         /\ Launches(Q.commands) \subseteq Launches(P.commands) \cup {Len(P.commands) + 1}
<1> DEFINE c == [name |-> name, thread |-> t, frame |-> f]
           more == Append(P.commands, c)
<1>1. /\ IsSeq(more)
      /\ Launches(more) \subseteq Launches(P.commands) \cup {Len(P.commands) + 1}
  BY AppendedSeq, AppendedLaunches DEF Sound, Typed
<1> HIDE DEF c, more
<1>2. CASE P.gdb = "ACTIVE"
  <2>1. Q = [P EXCEPT !.commands = more]
    BY <1>2 DEF Send, c, more
  <2>2. /\ Shape(Q) /\ Q.rows = P.rows /\ Q.prompt = P.prompt /\ Q.state = P.state /\ Q.id = P.id
        /\ Q.gdb = P.gdb /\ Q.commands = more /\ Q.waitResult = P.waitResult
        /\ Q.waitPrompt = P.waitPrompt /\ Q.count = P.count /\ Q.frame = P.frame
    BY <2>1 DEF Sound, Typed, Shape, Fields
  <2>3. Known(Q) = Known(P) /\ Stopped(Q) = Stopped(P)
    BY <2>2 DEF Known, Stopped
  <2>4. Typed(Q)
    BY <1>1, <2>2, <2>3 DEF Sound, Typed
  <2>5. Selected(Q) /\ Counted(Q)
    BY <2>2, <2>3 DEF Sound, Selected, Counted
  <2> QED
    BY <1>1, <2>2, <2>3, <2>4, <2>5 DEF Sound
<1>3. CASE P.gdb # "ACTIVE"
  BY <1>3 DEF Send
<1> QED
  BY <1>2, <1>3

(* The record r tells the state of thread t, and which it tells.              *)
Tells(r, t) ==
  \/ r.kind = "running" /\ t \in r.data
  \/ r.kind = "stopped" /\ (t = r.thread \/ t \in r.data)
  \/ r.kind = "threads" /\ t \in DOMAIN r.data
  \/ r.kind = "frame" /\ t = r.thread

Says(r, t) ==
  IF r.kind = "running" \/ (r.kind = "threads" /\ r.data[t]) THEN "Running" ELSE "Stopped"

(* The answers after which the program is brought up further                 *)
Launched == {"loaded", "started"}

(* The threads known once r is read                                          *)
After(known, r) ==
  IF r.kind = "created" THEN known \cup {r.thread}
  ELSE IF r.kind = "exited" THEN known \ {r.thread} ELSE known

Read(P, Q, r) ==
  /\ Sound(Q) /\ Known(Q) = After(Known(P), r) /\ Q.gdb \in {P.gdb, "KILLING"}
  /\ Launches(Q.commands) \subseteq
       Launches(P.commands) \cup (IF r.kind \in Launched THEN {Len(P.commands) + 1} ELSE {})
  /\ \A t \in Known(P) \cap Known(Q) :
       Q.rows[t].state = IF Tells(r, t) THEN Says(r, t) ELSE P.rows[t].state

SameWait(P, Q) == Q.waitResult = P.waitResult /\ Q.waitPrompt = P.waitPrompt

LEMMA HandledSound ==
  ASSUME NEW P, Sound(P), NEW r, NEW next \in Known(P) \cup {NULL},
         r.kind = "created" => r.thread \in Thread \ Known(P),
         r.kind = "exited" => r.thread \in Known(P) /\ (P.id = r.thread => next # r.thread)
  PROVE  Read(P, Handled(P, r, next), r) /\ SameWait(P, Handled(P, r, next))
<1> DEFINE Done(Q) == Read(P, Q, r) /\ SameWait(P, Q)
<1>0. ASSUME NEW Q, Keeps(P, Q),
             r.kind \notin {"created", "exited", "running", "stopped", "threads", "frame"}
      PROVE  Done(Q)
  <2>1. \A t : ~Tells(r, t)
    BY <1>0 DEF Tells
  <2> QED
    BY <1>0, <2>1, KeepsSound DEF Sound, Read, SameWait, After, Keeps, Asks
<1>p. Plain(P) /\ Keeps(P, P)
  BY TypedIsPlain, KeepsItself DEF Sound
<1>1. CASE r.kind = "running"
  <2>1. \A t : (Tells(r, t) <=> t \in r.data) /\ Says(r, t) = "Running"
    BY <1>1 DEF Tells, Says
  <2>2. Done(OnThreadRunning(P, r.data))
    BY <1>1, <2>1, RunningSound DEF Read, SameWait, After, Asks
  <2> QED
    BY <1>1, <2>2 DEF Handled
<1>2. CASE r.kind = "stopped"
  <2>1. \A t : (Tells(r, t) <=> t = r.thread \/ t \in r.data) /\ Says(r, t) = "Stopped"
    BY <1>2 DEF Tells, Says
  <2>2. Done(OnThreadStopped(P, r.thread, r.data))
    BY <1>2, <2>1, StoppedSound DEF Read, SameWait, After, Asks
  <2> QED
    BY <1>2, <2>2 DEF Handled
<1>3. CASE r.kind = "created"
  <2>1. \A t : ~Tells(r, t)
    BY <1>3 DEF Tells
  <2>2. Done(OnThreadCreated(P, r.thread))
    BY <1>3, <2>1, CreatedSound DEF Read, SameWait, After, Asks
  <2> QED
    BY <1>3, <2>2 DEF Handled
<1>4. CASE r.kind = "exited"
  <2>0. \A t : ~Tells(r, t)
    BY <1>4 DEF Tells
  <2> DEFINE Q == OnThreadExited(P, r.thread, next)
  <2>1. /\ Sound(Q) /\ Known(Q) = Known(P) \ {r.thread} /\ Q.gdb \in {P.gdb, "KILLING"}
        /\ Asks(P, Q) /\ \A u \in Known(P) \ {r.thread} : Q.rows[u] = P.rows[u]
    BY <1>4, ExitedSound
  <2>2. Handled(P, r, next) = Q
    BY <1>4 DEF Handled
  <2> HIDE DEF Q
  <2>3. Done(Q)
    BY <1>4, <2>0, <2>1 DEF Read, SameWait, After, Asks
  <2> QED
    BY <2>2, <2>3
<1>5. ASSUME r.kind \in Launched, NEW name, NEW Q, Q = Send(P, name, NULL, NULL)
      PROVE  Done(Q)
  <2>1. \A t : ~Tells(r, t)
    BY <1>5 DEF Tells, Launched
  <2>2. Known(P) = After(Known(P), r)
    BY <1>5 DEF After, Launched
  <2> QED
    BY <1>5, <2>1, <2>2, SendSound DEF Read, SameWait
<1>6. CASE r.kind = "loaded"
  BY <1>5, <1>6 DEF Handled, Launched
<1>7. CASE r.kind = "started"
  BY <1>0, <1>5, <1>p, <1>7 DEF Handled, Launched
<1>8. CASE r.kind = "threads"
  <2>1. \A t : (Tells(r, t) <=> t \in DOMAIN r.data)
    BY <1>8 DEF Tells
  <2>2. \A t : Says(r, t) = IF r.data[t] THEN "Running" ELSE "Stopped"
    BY <1>8 DEF Says
  <2> DEFINE Q == OnThreadInfo(P, r.data, r.thread)
  <2>3. /\ Sound(Q) /\ Known(Q) = Known(P) /\ Q.gdb = P.gdb /\ Asks(P, Q)
        /\ \A t \in Known(P) : Q.rows[t].state = IF t \notin DOMAIN r.data THEN P.rows[t].state
                                                ELSE IF r.data[t] THEN "Running" ELSE "Stopped"
    BY InfoSound
  <2>4. Handled(P, r, next) = Q
    BY <1>8 DEF Handled
  <2> HIDE DEF Q
  <2>5. Done(Q)
    BY <1>8, <2>1, <2>2, <2>3 DEF Read, SameWait, After, Asks
  <2> QED
    BY <2>4, <2>5
<1>9. CASE r.kind = "frame"
  <2>1. \A t : (Tells(r, t) <=> t = r.thread) /\ Says(r, t) = "Stopped"
    BY <1>9 DEF Tells, Says
  <2>2. CASE r.thread \in Known(P)
    <3>1. Done(ParseFrame(P, r.thread))
      BY <1>9, <2>1, <2>2, ParseFrameSound DEF Read, SameWait, After, Asks
    <3> QED
      BY <1>9, <2>2, <3>1 DEF Handled, OnThreadFrame
  <2>3. CASE r.thread \notin Known(P)
    <3>1. Done(P)
      BY <1>9, <2>1, <2>3 DEF Read, SameWait, After
    <3> QED
      BY <1>9, <2>3, <3>1 DEF Handled, OnThreadFrame
  <2> QED
    BY <2>2, <2>3
<1>10. CASE r.kind = "stack"
  BY <1>0, <1>10, <1>p, AnswersKeep DEF Handled
<1>11. CASE r.kind = "locals"
  BY <1>0, <1>11, <1>p, AnswersKeep DEF Handled
<1>12. CASE r.kind = "error"
  <2>1. Keeps(P, [P EXCEPT !.autoRun = FALSE])
    BY <1>p DEF Keeps, Asks, Plain, Shape, Fields
  <2> QED
    BY <1>0, <1>12, <2>1 DEF Handled
<1>13. CASE r.kind = "exit"
  <2>1. \A t : ~Tells(r, t)
    BY <1>13 DEF Tells
  <2> DEFINE Q == [P EXCEPT !.gdb = "KILLING"]
  <2>2. Sound(Q) /\ Known(Q) = Known(P) /\ Q.gdb = "KILLING" /\ Q.rows = P.rows /\ Asks(P, Q)
    BY GdbSound
  <2>3. Handled(P, r, next) = Q
    BY <1>13 DEF Handled
  <2> HIDE DEF Q
  <2>4. Done(Q)
    BY <1>13, <2>1, <2>2 DEF Read, SameWait, After, Asks
  <2> QED
    BY <2>3, <2>4
<1>14. CASE r.kind \notin {"running", "stopped", "created", "exited", "loaded", "started", "threads",
                           "frame", "stack", "locals", "error", "exit"}
  <2>1. Handled(P, r, next) = P
    BY <1>14 DEF Handled
  <2> QED
    BY <1>0, <1>14, <1>p, <2>1
<1> QED
  BY <1>1, <1>2, <1>3, <1>4, <1>6, <1>7, <1>8, <1>9, <1>10, <1>11, <1>12, <1>13, <1>14

WithWait(P, n, b) == [P EXCEPT !.waitResult = n, !.waitPrompt = b]

LEMMA WaitSound ==
  ASSUME NEW P, Sound(P), NEW n \in Nat, NEW b \in BOOLEAN,
         NEW Q, Q = WithWait(P, n, b)
  PROVE  /\ Sound(Q) /\ Known(Q) = Known(P) /\ Q.gdb = P.gdb /\ Q.id = P.id
         /\ Q.rows = P.rows /\ Q.commands = P.commands /\ Q.waitResult = n /\ Q.waitPrompt = b
<1>1. /\ Shape(Q) /\ Q.rows = P.rows /\ Q.prompt = P.prompt /\ Q.state = P.state /\ Q.id = P.id
      /\ Q.gdb = P.gdb /\ Q.commands = P.commands /\ Q.waitResult = n /\ Q.waitPrompt = b
      /\ Q.count = P.count /\ Q.frame = P.frame
  BY DEF WithWait, Sound, Typed, Shape, Fields
<1>2. Known(Q) = Known(P) /\ Stopped(Q) = Stopped(P)
  BY <1>1 DEF Known, Stopped
<1>3. Typed(Q)
  BY <1>1, <1>2 DEF Sound, Typed
<1>4. Selected(Q) /\ Counted(Q)
  BY <1>1, <1>2 DEF Sound, Selected, Counted
<1> QED
  BY <1>1, <1>2, <1>3, <1>4 DEF Sound

(* What is waited for once r is read                                         *)
Awaits(P, Q, r) ==
  IF r.kind = "prompt" THEN Q.waitResult = P.waitResult /\ Q.waitPrompt = (P.waitResult > 0)
  ELSE /\ Q.waitPrompt = P.waitPrompt
       /\ Q.waitResult = IF r.kind \in Results /\ P.waitResult > 0 THEN P.waitResult - 1
                         ELSE P.waitResult

(* debug_parse()                                                             *)
LEMMA ParseSound ==
  ASSUME NEW P, Sound(P), NEW r, NEW next \in Known(P) \cup {NULL},
         r.kind = "created" => r.thread \in Thread \ Known(P),
         r.kind = "exited" => r.thread \in Known(P) /\ (P.id = r.thread => next # r.thread)
  PROVE  Read(P, DebugParse(P, r, next), r) /\ Awaits(P, DebugParse(P, r, next), r)
<1>1. CASE r.kind = "prompt"
  <2> DEFINE b == P.waitResult > 0
             Q == [P EXCEPT !.waitResult = P.waitResult, !.waitPrompt = b]
  <2>1. P.waitResult \in Nat /\ b \in BOOLEAN
    BY DEF Sound, Typed
  <2>2. /\ Sound(Q) /\ Known(Q) = Known(P) /\ Q.gdb = P.gdb /\ Q.rows = P.rows
        /\ Q.commands = P.commands /\ Q.waitResult = P.waitResult /\ Q.waitPrompt = b
    <3>1. Q = WithWait(P, P.waitResult, b)
      BY DEF WithWait
    <3> HIDE DEF b, Q
    <3> QED
      BY <2>1, <3>1, WaitSound
  <2>3. DebugParse(P, r, next) = Q
    BY <1>1 DEF DebugParse, Sound, Typed, Shape, Fields
  <2> HIDE DEF Q
  <2>4. \A t : ~Tells(r, t)
    BY <1>1 DEF Tells
  <2>5. Read(P, Q, r)
    BY <1>1, <2>2, <2>4 DEF Read, After
  <2> QED
    BY <1>1, <2>2, <2>3, <2>5 DEF Awaits
<1>2. CASE r.kind # "prompt"
  <2> DEFINE counts == r.kind \in Results /\ P.waitResult > 0
             n == IF counts THEN P.waitResult - 1 ELSE P.waitResult
             Q == [P EXCEPT !.waitResult = n, !.waitPrompt = P.waitPrompt]
  <2>1. n \in Nat /\ P.waitPrompt \in BOOLEAN
    BY DEF Sound, Typed
  <2>2. /\ Sound(Q) /\ Known(Q) = Known(P) /\ Q.gdb = P.gdb /\ Q.id = P.id /\ Q.rows = P.rows
        /\ Q.commands = P.commands /\ Q.waitResult = n /\ Q.waitPrompt = P.waitPrompt
    <3>1. Q = WithWait(P, n, P.waitPrompt)
      BY DEF WithWait
    <3> HIDE DEF n, Q
    <3> QED
      BY <2>1, <3>1, WaitSound
  <2>3. Q = IF counts THEN [P EXCEPT !.waitResult = @ - 1] ELSE P
    <3> HIDE DEF counts
    <3> QED
      BY DEF Sound, Typed, Shape, Fields
  <2>4. DebugParse(P, r, next) = Handled(Q, r, next)
    <3> HIDE DEF Q
    <3> QED
      BY <1>2, <2>3 DEF DebugParse
  <2> HIDE DEF Q
  <2> DEFINE R == Handled(Q, r, next)
  <2>5. Read(Q, R, r) /\ SameWait(Q, R)
    BY <2>2, HandledSound
  <2> HIDE DEF R
  <2>6. Read(P, R, r)
    BY <2>2, <2>5 DEF Read
  <2>7. Awaits(P, R, r)
    BY <1>2, <2>2, <2>5 DEF Awaits, SameWait
  <2> QED
    BY <2>4, <2>6, <2>7 DEF R
<1> QED
  BY <1>1, <1>2

-------------------------------------------------------------------------------
(* Records on the way                                                        *)

LEMMA OnTheWay ==
  ASSUME NEW s, NEW known, IsSeq(s), PipeSound(s, known)
  PROVE  Exited(s) \subseteq known \cup Created(s)
<1>1. Len(s) \in Nat
  BY SeqOver
<1>2. ASSUME NEW t \in Exited(s) PROVE t \in known \cup Created(s)
  <2>1. PICK i \in 1..Len(s) : s[i].kind = "exited" /\ s[i].thread = t
    BY <1>2 DEF Exited
  <2>2. CASE s[i].thread \in known
    BY <2>1, <2>2
  <2>3. CASE \E j \in 1..(i - 1) : s[j].kind = "created" /\ s[j].thread = s[i].thread
    <3>1. PICK j \in 1..(i - 1) : s[j].kind = "created" /\ s[j].thread = t
      BY <2>1, <2>3
    <3>2. j \in 1..Len(s)
      BY <1>1, <2>1, <3>1
    <3> QED
      BY <3>1, <3>2 DEF Created
  <2> QED
    BY <2>1, <2>2, <2>3 DEF PipeSound
<1> QED
  BY <1>2

(* The first is read.                                                        *)
LEMMA HeadRead ==
  ASSUME NEW s, NEW known, IsSeq(s), s # <<>>, PipeSound(s, known)
  PROVE  LET r == Head(s)
             later == After(known, r)
         IN  /\ r.kind = "created" => r.thread \in Created(s) \ known
             /\ r.kind = "exited" => r.thread \in known
             /\ PipeSound(Tail(s), later)
             /\ Alive(Tail(s), later) = Alive(s, known)
             /\ later \cup Created(Tail(s)) \subseteq known \cup Created(s)
<1> DEFINE r == Head(s)
           later == After(known, r)
           u == Tail(s)
           n == Len(s)
<1>1. /\ IsSeq(u) /\ n \in Nat \ {0} /\ Len(u) = n - 1 /\ r = s[1]
      /\ \A i \in 1..(n - 1) : u[i] = s[i + 1]
  BY TailOf
<1> HIDE DEF r, u, n
<1>2. /\ \A i, j \in 1..n : /\ s[i].kind = s[j].kind /\ s[i].kind \in {"created", "exited"}
                            /\ s[i].thread = s[j].thread
                            => i = j
      /\ \A i \in 1..n : s[i].kind = "created" => s[i].thread \notin known
      /\ \A i \in 1..n : s[i].kind = "exited" =>
           \/ s[i].thread \in known
           \/ \E j \in 1..(i - 1) : s[j].kind = "created" /\ s[j].thread = s[i].thread
  BY DEF PipeSound, n
<1>3. 1 \in 1..n
  BY <1>1
<1>4. /\ r.kind = "created" => r.thread \in Created(s) \ known
      /\ r.kind = "exited" => r.thread \in known
  <2>1. r.kind = "created" => r.thread \in Created(s)
    BY <1>1, <1>3 DEF Created, n
  <2>2. r.kind = "created" => r.thread \notin known
    BY <1>1, <1>2, <1>3
  <2>3. r.kind = "exited" => r.thread \in known
    <3>1. 1..(1 - 1) = {}
      OBVIOUS
    <3> QED
      BY <1>1, <1>2, <1>3, <3>1
  <2> QED
    BY <2>1, <2>2, <2>3
<1>5. \A i \in 1..(n - 1) : i + 1 \in 1..n /\ i + 1 # 1
  BY <1>1
<1>6. Created(s) = Created(u) \cup (IF r.kind = "created" THEN {r.thread} ELSE {})
  <2>1. Created(u) = {s[i + 1].thread : i \in {j \in 1..(n - 1) : s[j + 1].kind = "created"}}
    BY <1>1 DEF Created
  <2>2. Created(s) = {s[i].thread : i \in {j \in 1..n : s[j].kind = "created"}}
    BY DEF Created, n
  <2>3. \A i \in 1..n : i = 1 \/ (i - 1 \in 1..(n - 1) /\ i = (i - 1) + 1)
    BY <1>1
  <2> QED
    BY SMTT(60), <1>1, <1>3, <1>5, <2>1, <2>2, <2>3
<1>7. Exited(s) = Exited(u) \cup (IF r.kind = "exited" THEN {r.thread} ELSE {})
  <2>1. Exited(u) = {s[i + 1].thread : i \in {j \in 1..(n - 1) : s[j + 1].kind = "exited"}}
    BY <1>1 DEF Exited
  <2>2. Exited(s) = {s[i].thread : i \in {j \in 1..n : s[j].kind = "exited"}}
    BY DEF Exited, n
  <2>3. \A i \in 1..n : i = 1 \/ (i - 1 \in 1..(n - 1) /\ i = (i - 1) + 1)
    BY <1>1
  <2> QED
    BY SMTT(60), <1>1, <1>3, <1>5, <2>1, <2>2, <2>3
<1>8. \A t \in Created(u) : t \notin known /\ (r.kind = "created" => t # r.thread)
  <2> SUFFICES ASSUME NEW i \in 1..(n - 1), s[i + 1].kind = "created"
               PROVE  /\ s[i + 1].thread \notin known
                      /\ r.kind = "created" => s[i + 1].thread # r.thread
    BY <1>1 DEF Created
  <2> QED
    BY <1>1, <1>2, <1>3, <1>5
<1>9. r.kind = "exited" => r.thread \notin Exited(u)
  <2> SUFFICES ASSUME r.kind = "exited", NEW i \in 1..(n - 1), s[i + 1].kind = "exited"
               PROVE  s[i + 1].thread # r.thread
    BY ZenonT(40), <1>1 DEF Exited
  <2> QED
    BY <1>1, <1>2, <1>3, <1>5
<1>10. later \cup Created(u) \subseteq known \cup Created(s)
  BY <1>4, <1>6 DEF After
<1>11. Alive(u, later) = Alive(s, known)
  BY <1>4, <1>6, <1>7, <1>8, <1>9 DEF Alive, After
<1>12. PipeSound(u, later)
  <2>1. ASSUME NEW i \in 1..Len(u), NEW j \in 1..Len(u), u[i].kind = u[j].kind,
               u[i].kind \in {"created", "exited"}, u[i].thread = u[j].thread
        PROVE  i = j
    <3>1. /\ i \in 1..(n - 1) /\ j \in 1..(n - 1) /\ u[i] = s[i + 1] /\ u[j] = s[j + 1]
          /\ i + 1 \in 1..n /\ j + 1 \in 1..n
      BY <1>1, <1>5
    <3>2. i + 1 = j + 1
      BY <1>2, <2>1, <3>1
    <3> QED
      BY <1>1, <3>1, <3>2
  <2>2. ASSUME NEW i \in 1..Len(u), u[i].kind = "created" PROVE u[i].thread \notin later
    <3>1. u[i].thread \in Created(u)
      BY <2>2 DEF Created
    <3> QED
      BY <1>8, <3>1 DEF After
  <2>3. ASSUME NEW i \in 1..Len(u), u[i].kind = "exited"
        PROVE  \/ u[i].thread \in later
               \/ \E j \in 1..(i - 1) : u[j].kind = "created" /\ u[j].thread = u[i].thread
    <3>1. u[i] = s[i + 1] /\ i + 1 \in 1..n /\ u[i].thread \in Exited(u)
      BY <1>1, <1>5, <2>3 DEF Exited
    <3>2. CASE u[i].thread \in known
      BY <1>9, <3>1, <3>2 DEF After
    <3>3. CASE \E j \in 1..((i + 1) - 1) : s[j].kind = "created" /\ s[j].thread = s[i + 1].thread
      <4>1. PICK j \in 1..i : s[j].kind = "created" /\ s[j].thread = s[i + 1].thread
        BY <3>3, <1>1
      <4>2. CASE j = 1
        BY <1>1, <3>1, <4>1, <4>2 DEF After
      <4>3. CASE j # 1
        <5>1. j - 1 \in 1..(i - 1) /\ j - 1 \in 1..(n - 1) /\ (j - 1) + 1 = j
          BY <1>1, <4>1, <4>3
        <5>2. u[j - 1] = s[j]
          BY <1>1, <5>1
        <5> QED
          BY <3>1, <4>1, <5>1, <5>2
      <4> QED
        BY <4>2, <4>3
    <3> QED
      BY <1>2, <2>3, <3>1, <3>2, <3>3
  <2> QED
    BY <2>1, <2>2, <2>3 DEF PipeSound
<1> QED
  BY <1>4, <1>10, <1>11, <1>12 DEF r, u

(* More is written: x, which is in order after all that is on the way.       *)
LEMMA MoreWritten ==
  ASSUME NEW s, NEW x, NEW known, IsSeq(s), IsSeq(x), PipeSound(s, known),
         PipeSound(x, Alive(s, known)),
         Created(x) \cap (known \cup Created(s)) = {}
  PROVE  /\ IsSeq(s \o x) /\ PipeSound(s \o x, known)
         /\ Created(s \o x) = Created(s) \cup Created(x)
         /\ Alive(s \o x, known) = Alive(x, Alive(s, known))
<1> DEFINE u == s \o x
           m == Len(s)
           n == Len(x)
<1>1. /\ IsSeq(u) /\ Len(u) = m + n /\ m \in Nat /\ n \in Nat
      /\ \A i \in 1..(m + n) : u[i] = IF i <= m THEN s[i] ELSE x[i - m]
  BY Joined, SeqOver
<1> HIDE DEF u, m, n
<1>2. \A i \in 1..m : i \in 1..(m + n) /\ u[i] = s[i]
  BY <1>1
<1>3. \A i \in 1..n : i + m \in 1..(m + n) /\ u[i + m] = x[i]
  BY <1>1
<1>4. \A i \in 1..(m + n) : i \in 1..m \/ (i - m \in 1..n /\ i = (i - m) + m)
  BY <1>1
<1>5. Created(u) = Created(s) \cup Created(x)
  <2>1. /\ Created(u) = {u[i].thread : i \in {j \in 1..(m + n) : u[j].kind = "created"}}
        /\ Created(s) = {s[i].thread : i \in {j \in 1..m : s[j].kind = "created"}}
        /\ Created(x) = {x[i].thread : i \in {j \in 1..n : x[j].kind = "created"}}
    BY <1>1 DEF Created, m, n
  <2> QED
    BY <1>2, <1>3, <1>4, <2>1
<1>6. Exited(u) = Exited(s) \cup Exited(x)
  <2>1. /\ Exited(u) = {u[i].thread : i \in {j \in 1..(m + n) : u[j].kind = "exited"}}
        /\ Exited(s) = {s[i].thread : i \in {j \in 1..m : s[j].kind = "exited"}}
        /\ Exited(x) = {x[i].thread : i \in {j \in 1..n : x[j].kind = "exited"}}
    BY <1>1 DEF Exited, m, n
  <2> QED
    BY <1>2, <1>3, <1>4, <2>1
<1>7. Exited(s) \subseteq known \cup Created(s) /\ Exited(x) \subseteq Alive(s, known) \cup Created(x)
  BY OnTheWay
<1>8. Alive(u, known) = Alive(x, Alive(s, known))
  BY <1>5, <1>6, <1>7 DEF Alive
<1>9. Exited(s) \cap Exited(x) = {}
  BY <1>7 DEF Alive
<1>10. ASSUME NEW i \in 1..(m + n), NEW j \in 1..(m + n), u[i].kind = u[j].kind,
              u[i].kind \in {"created", "exited"}, u[i].thread = u[j].thread
       PROVE  i = j
  <2>1. \A k, l \in 1..m : /\ s[k].kind = s[l].kind /\ s[k].kind \in {"created", "exited"}
                          /\ s[k].thread = s[l].thread
                          => k = l
    BY DEF PipeSound, m
  <2>2. \A k, l \in 1..n : /\ x[k].kind = x[l].kind /\ x[k].kind \in {"created", "exited"}
                          /\ x[k].thread = x[l].thread
                          => k = l
    BY DEF PipeSound, n
  <2>3. ASSUME NEW k \in 1..m, NEW l \in 1..n, s[k].kind = x[l].kind,
               s[k].kind \in {"created", "exited"}
        PROVE  s[k].thread # x[l].thread
    <3>1. CASE s[k].kind = "created"
      <4>1. s[k].thread \in Created(s) /\ x[l].thread \in Created(x)
        BY <2>3, <3>1 DEF Created, m, n
      <4> QED
        BY <4>1
    <3>2. CASE s[k].kind = "exited"
      <4>1. s[k].thread \in Exited(s) /\ x[l].thread \in Exited(x)
        BY <2>3, <3>2 DEF Exited, m, n
      <4> QED
        BY <1>9, <4>1
    <3> QED
      BY <2>3, <3>1, <3>2
  <2>4. CASE i \in 1..m /\ j \in 1..m
    BY <1>2, <1>10, <2>1, <2>4
  <2>5. CASE i \in 1..m /\ j - m \in 1..n
    <3>1. u[i] = s[i] /\ u[j] = x[j - m]
      BY <1>1, <1>2, <1>3, <1>4, <2>5
    <3> QED
      BY <1>10, <2>3, <2>5, <3>1
  <2>6. CASE i - m \in 1..n /\ j \in 1..m
    <3>1. u[i] = x[i - m] /\ u[j] = s[j]
      BY <1>1, <1>2, <1>3, <1>4, <2>6
    <3> QED
      BY <1>10, <2>3, <2>6, <3>1
  <2>7. CASE i - m \in 1..n /\ j - m \in 1..n
    <3>1. u[i] = x[i - m] /\ u[j] = x[j - m]
      BY <1>1, <1>3, <1>4, <2>7
    <3>2. i - m = j - m
      BY <1>10, <2>2, <2>7, <3>1
    <3> QED
      BY <1>1, <3>2
  <2> QED
    BY <1>4, <2>4, <2>5, <2>6, <2>7
<1>11. ASSUME NEW i \in 1..(m + n), u[i].kind = "created" PROVE u[i].thread \notin known
  <2>1. \A k \in 1..m : s[k].kind = "created" => s[k].thread \notin known
    BY DEF PipeSound, m
  <2>2. CASE i \in 1..m
    BY <1>2, <1>11, <2>1, <2>2
  <2>3. CASE i - m \in 1..n
    <3>1. u[i] = x[i - m]
      BY <1>1, <1>3, <1>4, <2>3
    <3>2. u[i].thread \in Created(x)
      BY <1>11, <2>3, <3>1 DEF Created, n
    <3> QED
      BY <3>2
  <2> QED
    BY <1>4, <2>2, <2>3
<1>12. ASSUME NEW i \in 1..(m + n), u[i].kind = "exited"
       PROVE  \/ u[i].thread \in known
              \/ \E j \in 1..(i - 1) : u[j].kind = "created" /\ u[j].thread = u[i].thread
  <2>1. CASE i \in 1..m
    <3>1. \/ s[i].thread \in known
          \/ \E j \in 1..(i - 1) : s[j].kind = "created" /\ s[j].thread = s[i].thread
      BY <1>2, <1>12, <2>1 DEF PipeSound, m
    <3>2. \A j \in 1..(i - 1) : j \in 1..m
      BY <1>1, <2>1
    <3> QED
      BY <1>2, <2>1, <3>1, <3>2
  <2>2. CASE i - m \in 1..n
    <3>1. u[i] = x[i - m]
      BY <1>1, <1>3, <1>4, <2>2
    <3>2. CASE x[i - m].thread \in known
      BY <3>1, <3>2
    <3>3. CASE x[i - m].thread \in Created(s)
      <4>1. PICK j \in 1..m : s[j].kind = "created" /\ s[j].thread = x[i - m].thread
        BY <3>3 DEF Created, m
      <4>2. j \in 1..(i - 1)
        BY <1>1, <2>2, <4>1
      <4> QED
        BY <1>2, <3>1, <4>1, <4>2
    <3>4. CASE \E j \in 1..((i - m) - 1) : x[j].kind = "created" /\ x[j].thread = x[i - m].thread
      <4>1. PICK j \in 1..((i - m) - 1) : x[j].kind = "created" /\ x[j].thread = x[i - m].thread
        BY <3>4
      <4>2. j \in 1..n /\ j + m \in 1..(i - 1)
        BY <1>1, <2>2, <4>1
      <4>3. u[j + m] = x[j]
        BY <1>3, <4>2
      <4> QED
        BY <3>1, <4>1, <4>2, <4>3
    <3>5. \/ x[i - m].thread \in Alive(s, known)
          \/ \E j \in 1..((i - m) - 1) : x[j].kind = "created" /\ x[j].thread = x[i - m].thread
      BY <1>12, <2>2, <3>1 DEF PipeSound, n
    <3> QED
      BY <3>2, <3>3, <3>4, <3>5 DEF Alive
  <2> QED
    BY <1>4, <2>1, <2>2
<1>13. PipeSound(u, known)
  BY <1>1, <1>10, <1>11, <1>12 DEF PipeSound
<1> QED
  BY <1>1, <1>5, <1>8, <1>13 DEF u

(* Records of neither                                                        *)
Silent(x) == \A i \in 1..Len(x) : x[i].kind \notin {"created", "exited"}

LEMMA SilentWritten ==
  ASSUME NEW s, NEW x, NEW known, IsSeq(s), IsSeq(x), PipeSound(s, known), Silent(x)
  PROVE  /\ IsSeq(s \o x) /\ PipeSound(s \o x, known)
         /\ Created(s \o x) = Created(s) /\ Alive(s \o x, known) = Alive(s, known)
<1>1. Created(x) = {} /\ Exited(x) = {}
  BY DEF Created, Exited, Silent
<1>2. PipeSound(x, Alive(s, known))
  BY DEF PipeSound, Silent
<1>3. Alive(x, Alive(s, known)) = Alive(s, known)
  BY <1>1 DEF Alive
<1>4. Created(x) \cap (known \cup Created(s)) = {} /\ Created(s) \cup Created(x) = Created(s)
  BY <1>1
<1>5. /\ IsSeq(s \o x) /\ PipeSound(s \o x, known)
      /\ Created(s \o x) = Created(s) \cup Created(x)
      /\ Alive(s \o x, known) = Alive(x, Alive(s, known))
  BY <1>2, <1>4, MoreWritten
<1> QED
  BY <1>3, <1>4, <1>5

LEMMA CreatedWritten ==
  ASSUME NEW s, NEW x, NEW known, IsSeq(s), IsSeq(x), PipeSound(s, known), NEW t,
         t \notin known \cup Created(s), 1 \in 1..Len(x), x[1].kind = "created", x[1].thread = t,
         \A i \in 1..Len(x) : i # 1 => x[i].kind \notin {"created", "exited"}
  PROVE  /\ IsSeq(s \o x) /\ PipeSound(s \o x, known)
         /\ Created(s \o x) = Created(s) \cup {t} /\ Alive(s \o x, known) = Alive(s, known) \cup {t}
<1>1. Created(x) = {t}
  BY DEF Created
<1>2. Exited(x) = {}
  BY DEF Exited
<1>3. t \notin Alive(s, known)
  BY DEF Alive
<1>4. PipeSound(x, Alive(s, known))
  <2>1. \A i \in 1..Len(x) : x[i].kind \in {"created", "exited"} => i = 1 /\ x[i].kind = "created"
    OBVIOUS
  <2> QED
    BY <1>3, <2>1 DEF PipeSound
<1>5. Alive(x, Alive(s, known)) = Alive(s, known) \cup {t}
  BY <1>1, <1>2 DEF Alive
<1> QED
  BY <1>1, <1>4, <1>5, MoreWritten

LEMMA ExitsWritten ==
  ASSUME NEW s, NEW known, IsSeq(s), PipeSound(s, known),
         NEW ts, IsFiniteSet(ts), ts \subseteq Alive(s, known), NEW x \in Exits(ts)
  PROVE  /\ IsSeq(s \o x) /\ PipeSound(s \o x, known)
         /\ Created(s \o x) = Created(s) /\ Alive(s \o x, known) = Alive(s, known) \ ts
<1> DEFINE n == Cardinality(ts)
<1>1. PICK order \in SetToSeqs(ts) : x = [i \in 1..n |-> Record("exited", order[i], NULL)]
  BY DEF Exits
<1>2. order \in [1..n -> ts] /\ \A i, j \in 1..n : i # j => order[i] # order[j]
  BY <1>1 DEF SetToSeqs
<1>3. n \in Nat
  BY FS_CardinalityType
<1>4. ts = {order[i] : i \in 1..n}
  <2>1. order \in Injection(1..n, ts)
    <3> HIDE DEF n
    <3> QED
      BY <1>2 DEF Injection, IsInjective
  <2>2. Cardinality(1..n) = n
    BY <1>3, FS_Interval
  <2>3. order \in Surjection(1..n, ts)
    BY <2>1, <2>2, FS_Injection
  <2> QED
    BY <1>2, <2>3 DEF Surjection
<1> HIDE DEF n
<1>5. IsSeq(x) /\ Len(x) = n /\ \A i \in 1..n : x[i].kind = "exited" /\ x[i].thread = order[i]
  <2>1. Len(x) = n
    BY <1>1, <1>3
  <2>2. IsSeq(x)
    <3>1. x = [i \in 1..Len(x) |-> x[i]] /\ Len(x) \in Nat
      BY <1>1, <1>3, <2>1
    <3> QED
      BY <3>1, SeqOver
  <2> QED
    BY <1>1, <2>1, <2>2 DEF Record
<1>6. Created(x) = {}
  BY <1>5 DEF Created
<1>7. Exited(x) = ts
  BY <1>4, <1>5 DEF Exited
<1>8. PipeSound(x, Alive(s, known))
  <2>1. \A i \in 1..n : order[i] \in Alive(s, known)
    BY <1>2
  <2> QED
    BY <1>2, <1>5, <2>1 DEF PipeSound
<1>9. Alive(x, Alive(s, known)) = Alive(s, known) \ ts
  BY <1>6, <1>7 DEF Alive
<1> QED
  BY <1>5, <1>6, <1>8, <1>9, MoreWritten

LEMMA Pair ==
  ASSUME NEW x, NEW y
  PROVE  IsSeq(<<x, y>>) /\ Len(<<x, y>>) = 2 /\ <<x, y>>[1] = x /\ <<x, y>>[2] = y
<1> DEFINE two == <<x, y>>
<1>1. Len(two) = 2 /\ two = [i \in 1..2 |-> two[i]]
  OBVIOUS
<1>2. two[1] = x /\ two[2] = y
  OBVIOUS
<1> HIDE DEF two
<1>3. Len(two) \in Nat /\ two = [i \in 1..Len(two) |-> two[i]]
  BY <1>1
<1>4. IsSeq(two)
  BY <1>3, SeqOver
<1> QED
  BY <1>1, <1>2, <1>4 DEF two

LEMMA Triple ==
  ASSUME NEW x, NEW y, NEW z
  PROVE  /\ IsSeq(<<x, y, z>>) /\ Len(<<x, y, z>>) = 3
         /\ <<x, y, z>>[1] = x /\ <<x, y, z>>[2] = y /\ <<x, y, z>>[3] = z
<1> DEFINE three == <<x, y, z>>
<1>1. Len(three) = 3 /\ three = [i \in 1..3 |-> three[i]]
  OBVIOUS
<1>2. three[1] = x /\ three[2] = y /\ three[3] = z
  OBVIOUS
<1> HIDE DEF three
<1>3. Len(three) \in Nat /\ three = [i \in 1..Len(three) |-> three[i]]
  BY <1>1
<1>4. IsSeq(three)
  BY <1>3, SeqOver
<1> QED
  BY <1>1, <1>2, <1>4 DEF three

(* One record, a result or a prompt, and none                                *)
LEMMA SilentOne ==
  ASSUME NEW kind, kind \notin {"created", "exited"}, NEW t, NEW data
  PROVE  IsSeq(<<Record(kind, t, data)>>) /\ Silent(<<Record(kind, t, data)>>)
<1>1. \A i \in 1..1 : i = 1
  OBVIOUS
<1>2. Record(kind, t, data).kind = kind
  BY DEF Record
<1> DEFINE r == Record(kind, t, data)
<1> HIDE DEF r
<1>3. IsSeq(<<r>>) /\ Len(<<r>>) = 1 /\ <<r>>[1] = r
  BY Single
<1> QED
  BY <1>1, <1>2, <1>3 DEF Silent, r

LEMMA SilentPrompt == IsSeq(<<Prompt>>) /\ Silent(<<Prompt>>) /\ IsSeq(<<>>) /\ Silent(<<>>)
<1>1. Silent(<<>>)
  BY DEF Silent
<1> QED
  BY <1>1, SilentOne, Single DEF Prompt

-------------------------------------------------------------------------------
(* The steps                                                                 *)

(* Nothing is created, written or read.                                      *)
LEMMA PluginStep ==
  ASSUME ThreadsIInv, UNCHANGED <<target, out, created>>, gdbUp' => gdbUp,
         Sound(scope'), Known(scope') = Known(scope),
         scope'.gdb = scope.gdb \/ (scope.gdb # "INACTIVE" /\ scope'.gdb # "INACTIVE")
  PROVE  ThreadsIInv'
<1>1. Live' = Live
  BY DEF Live
<1>2. Told => Told'
  BY <1>1 DEF Told
<1> QED
  BY <1>2 DEF ThreadsIInv

LEMMA KeepsStep ==
  ASSUME ThreadsIInv, UNCHANGED <<target, out, created>>, gdbUp' => gdbUp, Keeps(scope, scope')
  PROVE  ThreadsIInv'
<1>1. Sound(scope') /\ Known(scope') = Known(scope) /\ scope'.gdb = scope.gdb
  BY KeepsSound DEF ThreadsIInv, Sound, Keeps
<1> QED
  BY <1>1, PluginStep

(* The plugin is told nothing yet.                                           *)
LEMMA GdbStep ==
  ASSUME ThreadsIInv, gdbUp, scope' = scope, created' \in created..Threads,
         IsSeq(out'), PipeSound(out', Known(scope)), Live' = Alive(out', Known(scope)),
         Created(out') \subseteq 1..created'
  PROVE  ThreadsIInv'
<1>1. scope.gdb # "INACTIVE" /\ created \in 0..Threads /\ Told
  BY DEF ThreadsIInv
<1>2. created' \in 0..Threads /\ 1..created \subseteq 1..created'
  BY <1>1, ScopeAssumption
<1>3. Told'
  BY <1>1, <1>2 DEF Told
<1> QED
  BY <1>1, <1>2, <1>3 DEF ThreadsIInv

LEMMA ToldFinite ==
  ASSUME ThreadsIInv, Told
  PROVE  IsFiniteSet(Live) /\ Live \subseteq 1..created /\ created + 1 \notin Known(scope) \cup Created(out)
<1>1. created \in Nat
  BY ScopeAssumption DEF ThreadsIInv
<1>2. Live \subseteq 1..created
  BY DEF Told, Alive
<1>3. IsFiniteSet(1..created)
  BY <1>1, FS_Interval
<1>4. IsFiniteSet(Live)
  BY <1>2, <1>3, FS_Subset
<1>5. created + 1 \notin 1..created
  BY <1>1
<1> QED
  BY <1>2, <1>4, <1>5 DEF Told

(* Records of neither are written, in two parts.                             *)
LEMMA SilentStep ==
  ASSUME ThreadsIInv, gdbUp, scope' = scope, created' \in created..Threads, Live' = Live,
         NEW x, NEW y, IsSeq(x), Silent(x), IsSeq(y), Silent(y), out' = out \o x \o y
  PROVE  ThreadsIInv'
<1>1. Told /\ IsSeq(out) /\ created \in 0..Threads
  BY DEF ThreadsIInv
<1> DEFINE u == out \o x
<1>2. /\ IsSeq(u) /\ PipeSound(u, Known(scope)) /\ Created(u) = Created(out)
      /\ Alive(u, Known(scope)) = Alive(out, Known(scope))
  BY <1>1, SilentWritten DEF Told
<1> HIDE DEF u
<1>3. /\ IsSeq(u \o y) /\ PipeSound(u \o y, Known(scope)) /\ Created(u \o y) = Created(u)
      /\ Alive(u \o y, Known(scope)) = Alive(u, Known(scope))
  BY <1>2, SilentWritten
<1>4. out' = u \o y
  BY DEF u
<1>5. Created(out) \subseteq 1..created'
  BY <1>1, ScopeAssumption DEF Told
<1> QED
  BY <1>1, <1>2, <1>3, <1>4, <1>5, GdbStep DEF Told

(* The next thread is created, and more is written.                          *)
LEMMA CreatedStep ==
  ASSUME ThreadsIInv, gdbUp, scope' = scope, created < Threads, created' = created + 1,
         Live' = Live \cup {created + 1},
         NEW x, NEW y, IsSeq(x), IsSeq(y), Silent(y), out' = out \o x \o y,
         1 \in 1..Len(x), x[1].kind = "created", x[1].thread = created + 1,
         \A i \in 1..Len(x) : i # 1 => x[i].kind \notin {"created", "exited"}
  PROVE  ThreadsIInv'
<1>1. Told /\ IsSeq(out) /\ created \in 0..Threads /\ created' \in created..Threads
  BY ScopeAssumption DEF ThreadsIInv
<1> DEFINE u == out \o x
<1>2. /\ IsSeq(u) /\ PipeSound(u, Known(scope)) /\ Created(u) = Created(out) \cup {created + 1}
      /\ Alive(u, Known(scope)) = Alive(out, Known(scope)) \cup {created + 1}
  BY <1>1, ToldFinite, CreatedWritten DEF Told
<1> HIDE DEF u
<1>3. /\ IsSeq(u \o y) /\ PipeSound(u \o y, Known(scope)) /\ Created(u \o y) = Created(u)
      /\ Alive(u \o y, Known(scope)) = Alive(u, Known(scope))
  BY <1>2, SilentWritten
<1>4. out' = u \o y
  BY DEF u
<1>5. Created(u) \subseteq 1..created'
  BY <1>1, <1>2, ScopeAssumption DEF Told
<1> QED
  BY <1>1, <1>2, <1>3, <1>4, <1>5, GdbStep DEF Told

(* The threads in ts end.                                                    *)
LEMMA ExitsStep ==
  ASSUME ThreadsIInv, gdbUp, scope' = scope, created' = created,
         NEW ts, ts \subseteq Live, Live' = Live \ ts,
         NEW x \in Exits(ts), NEW y, IsSeq(y), Silent(y), out' = out \o x \o y
  PROVE  ThreadsIInv'
<1>1. Told /\ IsSeq(out) /\ created \in 0..Threads /\ created' \in created..Threads
  BY ScopeAssumption DEF ThreadsIInv
<1>2. IsFiniteSet(ts)
  BY <1>1, ToldFinite, FS_Subset
<1> DEFINE u == out \o x
<1>3. /\ IsSeq(u) /\ PipeSound(u, Known(scope)) /\ Created(u) = Created(out)
      /\ Alive(u, Known(scope)) = Alive(out, Known(scope)) \ ts
  BY <1>1, <1>2, ExitsWritten DEF Told
<1> HIDE DEF u
<1>4. /\ IsSeq(u \o y) /\ PipeSound(u \o y, Known(scope)) /\ Created(u \o y) = Created(u)
      /\ Alive(u \o y, Known(scope)) = Alive(u, Known(scope))
  BY <1>3, SilentWritten
<1>5. out' = u \o y
  BY DEF u
<1>6. Created(u) \subseteq 1..created'
  BY <1>1, <1>3 DEF Told
<1> QED
  BY <1>1, <1>3, <1>4, <1>5, <1>6, GdbStep DEF Told

(* What is read, and what the views ask for then                             *)
LEMMA ReceiveReads ==
  ASSUME ThreadsIInv, Receive
  PROVE  \E Q : Read(scope, Q, Head(out)) /\ Awaits(scope, Q, Head(out)) /\ Keeps(Q, scope')
<1> DEFINE r == Head(out)
           parsed(next) == DebugParse(scope, r, next)
<1>1. PICK next \in {NULL} \cup Known(scope) :
        /\ IF r.kind = "exited" /\ scope.id = r.thread THEN next # r.thread ELSE next = NULL
        /\ scope' = IF parsed(next).commands = <<>>
                    THEN ViewsUpdate(parsed(next), DebugState(parsed(next))) ELSE parsed(next)
  BY DEF Receive
<1>2. Sound(scope) /\ IsSeq(out) /\ created \in 0..Threads /\ Told /\ out # <<>>
  BY DEF ThreadsIInv, Receive
<1>3. /\ r.kind = "created" => r.thread \in Created(out) \ Known(scope)
      /\ r.kind = "exited" => r.thread \in Known(scope)
  BY <1>2, HeadRead DEF Told
<1>4. r.kind = "created" => r.thread \in Thread \ Known(scope)
  BY <1>2, <1>3, ScopeAssumption DEF Told, Thread
<1>5. NULL \notin Known(scope)
  BY <1>2, KnownFinite DEF Sound
<1> DEFINE Q == parsed(next)
<1>6. Read(scope, Q, r) /\ Awaits(scope, Q, r)
  BY <1>1, <1>2, <1>3, <1>4, ParseSound
<1> HIDE DEF Q
<1>7. scope' = IF Q.commands = <<>> THEN ViewsUpdate(Q, DebugState(Q)) ELSE Q
  BY <1>1 DEF Q
<1>8. Keeps(Q, scope')
  BY <1>6, <1>7, ViewsUpdateKeeps, KeepsItself, TypedIsPlain DEF Read, Sound
<1> QED
  BY <1>6, <1>8

LEMMA ReceiveStep ==
  ASSUME ThreadsIInv, Receive
  PROVE  ThreadsIInv'
<1> DEFINE r == Head(out)
<1>1. /\ out # <<>> /\ out' = Tail(out) /\ UNCHANGED <<target, gdbUp, created>>
  BY DEF Receive
<1>2. Sound(scope) /\ IsSeq(out) /\ created \in 0..Threads /\ Told /\ scope.gdb # "INACTIVE"
  BY <1>1 DEF ThreadsIInv
<1>3. /\ PipeSound(Tail(out), After(Known(scope), r))
      /\ Alive(Tail(out), After(Known(scope), r)) = Alive(out, Known(scope))
      /\ After(Known(scope), r) \cup Created(Tail(out)) \subseteq Known(scope) \cup Created(out)
  BY <1>1, <1>2, HeadRead DEF Told
<1>4. PICK Q : Read(scope, Q, r) /\ Keeps(Q, scope')
  BY ReceiveReads
<1>5. Sound(scope') /\ Known(scope') = After(Known(scope), r) /\ scope'.gdb # "INACTIVE"
  BY <1>2, <1>4, KeepsSound DEF Read, Sound, Keeps
<1>6. IsSeq(out')
  BY <1>1, <1>2, TailOf
<1>7. Live' = Live
  BY <1>1 DEF Live
<1>8. Told'
  BY <1>1, <1>2, <1>3, <1>5, <1>7 DEF Told
<1> QED
  BY <1>1, <1>2, <1>5, <1>6, <1>8 DEF ThreadsIInv

LEMMA SendCommandsStep ==
  ASSUME ThreadsIInv, SendCommands
  PROVE  ThreadsIInv'
<1> DEFINE n == scope.waitResult + Len(scope.commands)
           none == <<>>
           Q == [scope EXCEPT !.commands = none, !.waitPrompt = TRUE, !.waitResult = n]
<1>1. UNCHANGED <<target, gdbUp, out, created>> /\ Sound(scope) /\ scope' = Q
  BY DEF SendCommands, ThreadsIInv, Sound, Typed, Shape, Fields
<1>2. n \in Nat
  BY <1>1, SeqOver DEF Sound, Typed
<1>3. IsSeq(none)
  BY Single
<1> HIDE DEF n, none
<1>4. /\ Shape(Q) /\ Q.rows = scope.rows /\ Q.prompt = scope.prompt /\ Q.state = scope.state
      /\ Q.id = scope.id /\ Q.gdb = scope.gdb /\ Q.commands = none /\ Q.waitResult = n
      /\ Q.waitPrompt = TRUE /\ Q.count = scope.count /\ Q.frame = scope.frame
  BY <1>1 DEF Sound, Typed, Shape, Fields
<1> HIDE DEF Q
<1>5. Known(Q) = Known(scope) /\ Stopped(Q) = Stopped(scope)
  BY <1>4 DEF Known, Stopped
<1>6. Typed(Q)
  BY <1>1, <1>2, <1>3, <1>4, <1>5 DEF Sound, Typed
<1>7. Selected(Q) /\ Counted(Q)
  BY <1>1, <1>4, <1>5 DEF Sound, Selected, Counted
<1> QED
  BY <1>1, <1>4, <1>5, <1>6, <1>7, PluginStep DEF Sound

LEMMA GdbExitStep ==
  ASSUME ThreadsIInv, GdbExitCb
  PROVE  ThreadsIInv'
<1> DEFINE rows == [t \in {} |-> NULL]
           prompt == scope.prompt - Cardinality(Stopped(scope))
           Q == [scope EXCEPT !.gdb = "INACTIVE", !.rows = rows, !.id = NULL, !.state = "BLANK",
                  !.count = 0, !.prompt = prompt, !.gdbThread = NULL, !.frame = NULL,
                  !.selected = NULL, !.stack = NoStack, !.locals = NoLocals, !.dirty = {}]
<1>1. ~gdbUp /\ out = <<>> /\ UNCHANGED <<target, gdbUp, out, created>> /\ Sound(scope) /\ scope' = Q
  BY DEF GdbExitCb, ThreadsIInv, Sound, Typed, Shape, Fields, gdbVars
<1>2. prompt = 0
  BY <1>1, KnownFinite DEF Sound, Typed
<1> HIDE DEF rows, prompt
<1>3. /\ Shape(Q) /\ Q.rows = rows /\ Q.prompt = 0 /\ Q.state = "BLANK" /\ Q.id = NULL
      /\ Q.gdb = "INACTIVE" /\ Q.commands = scope.commands /\ Q.waitResult = scope.waitResult
      /\ Q.waitPrompt = scope.waitPrompt /\ Q.count = 0 /\ Q.frame = NULL
  BY ZenonT(40), <1>1, <1>2 DEF Sound, Typed, Shape, Fields
<1> HIDE DEF Q
<1>4. Known(Q) = {} /\ Stopped(Q) = {}
  BY <1>3 DEF Known, Stopped, rows
<1>5. Typed(Q)
  <2>1. Q.rows \in [Known(Q) -> Row] /\ \A t \in Known(Q) : Q.rows[t].addr => Q.rows[t].state = "Stopped"
    BY <1>3, <1>4 DEF rows
  <2>2. Known(Q) \subseteq Thread /\ Q.prompt = Cardinality(Stopped(Q))
    BY <1>3, <1>4, FS_EmptySet
  <2> QED
    BY <1>1, <1>3, <2>1, <2>2 DEF Sound, Typed
<1>6. Selected(Q) /\ Counted(Q)
  BY <1>3, <1>4, FS_EmptySet DEF Selected, Counted, AtStop
<1> QED
  BY <1>1, <1>3, <1>4, <1>5, <1>6 DEF ThreadsIInv, Sound

LEMMA LoadStep ==
  ASSUME ThreadsIInv, LoadProgram
  PROVE  ThreadsIInv'
<1> DEFINE load == <<[name |-> "load", thread |-> NULL, frame |-> NULL]>>
           Q == [scope EXCEPT !.gdb = "ACTIVE", !.waitResult = 0, !.waitPrompt = TRUE,
                  !.commands = load, !.autoRun = AutoRunExit, !.autoExit = AutoRunExit]
           p == Prompt
<1>1. /\ scope.gdb = "INACTIVE" /\ Sound(scope) /\ Known(scope) = {} /\ scope' = Q
      /\ out' = <<p>> /\ created' = 0 /\ target' = [t \in {} |-> NULL]
  BY DEF LoadProgram, ThreadsIInv
<1>2. IsSeq(load)
  BY Single
<1>3. IsSeq(<<p>>) /\ Silent(<<p>>)
  BY SilentPrompt
<1> HIDE DEF load, p
<1>4. /\ Shape(Q) /\ Q.rows = scope.rows /\ Q.prompt = scope.prompt /\ Q.state = scope.state
      /\ Q.id = scope.id /\ Q.gdb = "ACTIVE" /\ Q.commands = load /\ Q.waitResult = 0
      /\ Q.waitPrompt = TRUE /\ Q.count = scope.count /\ Q.frame = scope.frame
  BY <1>1 DEF Sound, Typed, Shape, Fields
<1> HIDE DEF Q
<1>5. Known(Q) = {} /\ Known(Q) = Known(scope) /\ Stopped(Q) = Stopped(scope)
  BY <1>1, <1>4 DEF Known, Stopped
<1>6. Typed(Q)
  <2>1. Sound(scope) /\ Known(Q) = Known(scope) /\ Stopped(Q) = Stopped(scope)
    BY <1>1, <1>5
  <2>2. /\ Known(scope) \subseteq Thread /\ scope.rows \in [Known(scope) -> Row]
        /\ \A t \in Known(scope) : scope.rows[t].addr => scope.rows[t].state = "Stopped"
        /\ scope.frame \in Frame \cup {NULL} /\ scope.state \in AtStop \cup {"BLANK", "RUNNING"}
        /\ scope.prompt = Cardinality(Stopped(scope))
    BY <1>1 DEF Sound, Typed
  <2>3. /\ Q.gdb \in {"INACTIVE", "ACTIVE", "KILLING"} /\ IsSeq(Q.commands)
        /\ Q.waitResult \in Nat /\ Q.waitPrompt \in BOOLEAN
    <3>1. IsSeq(Q.commands)
      BY <1>2, <1>4
    <3>2. Q.gdb \in {"INACTIVE", "ACTIVE", "KILLING"}
      BY <1>4
    <3>3. Q.waitResult \in Nat
      BY <1>4
    <3>4. Q.waitPrompt \in BOOLEAN
      BY <1>4
    <3> QED
      BY <3>1, <3>2, <3>3, <3>4
  <2>4. /\ Known(Q) \subseteq Thread /\ Q.rows \in [Known(Q) -> Row]
        /\ \A t \in Known(Q) : Q.rows[t].addr => Q.rows[t].state = "Stopped"
        /\ Q.frame \in Frame \cup {NULL} /\ Q.state \in AtStop \cup {"BLANK", "RUNNING"}
        /\ Q.prompt = Cardinality(Stopped(Q))
    BY <1>4, <2>1, <2>2
  <2> QED
    BY <1>4, <2>3, <2>4 DEF Typed
<1>7. Selected(Q) /\ Counted(Q)
  BY <1>1, <1>4, <1>5 DEF Sound, Selected, Counted
<1>8. Live' = {}
  BY <1>1 DEF Live
<1>9. Created(out') = {} /\ Exited(out') = {} /\ PipeSound(out', {})
  BY <1>1, <1>3 DEF Created, Exited, PipeSound, Silent
<1>10. Told'
  BY <1>1, <1>5, <1>8, <1>9 DEF Told, Alive
<1>11. created' \in 0..Threads
  BY <1>1, ScopeAssumption
<1> QED
  BY <1>1, <1>3, <1>4, <1>6, <1>7, <1>10, <1>11 DEF ThreadsIInv, Sound

LEMMA UserSends ==
  ASSUME ThreadsIInv, NEW name, NEW t, NEW f, User(Send(scope, name, t, f))
  PROVE  ThreadsIInv'
<1>1. /\ Sound(scope') /\ Known(scope') = Known(scope) /\ scope'.gdb = scope.gdb
      /\ UNCHANGED <<target, gdbUp, out, created>>
  BY SendSound DEF ThreadsIInv, User, gdbVars
<1> QED
  BY <1>1, PluginStep

LEMMA TerminateStep ==
  ASSUME ThreadsIInv, Terminate
  PROVE  ThreadsIInv'
<1>1. Sound(scope) /\ Plain(scope)
  BY TypedIsPlain DEF ThreadsIInv, Sound
<1>2. CASE DebugState(scope) = "BUSY" /\ scope' = [scope EXCEPT !.gdb = "KILLING"] /\ gdbUp' = FALSE
           /\ UNCHANGED <<target, out, created>>
  <2>1. scope.gdb # "INACTIVE"
    BY <1>2 DEF DebugState
  <2>2. Sound(scope') /\ Known(scope') = Known(scope) /\ scope'.gdb = "KILLING"
    BY <1>1, <1>2, GdbSound
  <2> QED
    BY <1>2, <2>1, <2>2, PluginStep
<1>3. CASE User(Send(scope, "kill", NULL, NULL))
  BY <1>3, UserSends
<1>4. CASE /\ DebugState(scope) = "HANGING" \/ DebugState(scope) \in {"READY", "DEBUG"}
           /\ User([Send(scope, "exit", NULL, NULL) EXCEPT !.gdb = "KILLING"])
  <2> DEFINE Q == Send(scope, "exit", NULL, NULL)
  <2>1. scope.gdb # "INACTIVE"
    BY <1>4 DEF DebugState
  <2>2. Keeps(scope, Q)
    BY <1>1, SendKeeps DEF Launching
  <2>3. scope' = [Q EXCEPT !.gdb = "KILLING"] /\ UNCHANGED <<target, gdbUp, out, created>>
    BY <1>4 DEF User, gdbVars
  <2> HIDE DEF Q
  <2>4. Sound(Q) /\ Known(Q) = Known(scope)
    BY <1>1, <2>2, KeepsSound DEF Sound
  <2>5. Sound(scope') /\ Known(scope') = Known(scope) /\ scope'.gdb = "KILLING"
    BY <2>3, <2>4, GdbSound
  <2> QED
    BY <2>1, <2>3, <2>5, PluginStep
<1> QED
  BY <1>2, <1>3, <1>4 DEF Terminate

LEMMA ClickThreadStep ==
  ASSUME ThreadsIInv, NEW t \in Thread, ClickThread(t)
  PROVE  ThreadsIInv'
<1>1. /\ t \in Known(scope) /\ Sound(scope) /\ UNCHANGED <<target, gdbUp, out, created>>
      /\ scope' = SelectionChanged(scope, t)
  BY DEF ClickThread, ThreadsIInv, User, gdbVars
<1>2. Moved(scope, scope')
  BY <1>1, SelectionSound DEF Sound
<1>3. Sound(scope') /\ Known(scope') = Known(scope) /\ scope'.gdb = scope.gdb
  BY <1>1, <1>2 DEF Moved, Sound, Counted, Known
<1> QED
  BY <1>1, <1>3, PluginStep

LEMMA ClickFrameStep ==
  ASSUME ThreadsIInv, NEW f \in Frame, ClickFrame(f)
  PROVE  ThreadsIInv'
<1>1. Keeps(scope, scope') /\ UNCHANGED <<target, gdbUp, out, created>>
  BY SelectFrameKeeps, TypedIsPlain DEF ClickFrame, ThreadsIInv, Sound, User, gdbVars
<1> QED
  BY <1>1, KeepsStep

LEMMA ViewChangedStep ==
  ASSUME ThreadsIInv, NEW v \in {"threads", "stack", "locals"}, ViewChanged(v)
  PROVE  ThreadsIInv'
<1> DEFINE P == [scope EXCEPT !.view = v]
           st == DebugState(P)
<1>1. Plain(scope)
  BY TypedIsPlain DEF ThreadsIInv, Sound
<1>2. Keeps(scope, P)
  BY <1>1 DEF Keeps, Asks, Plain, Shape, Fields
<1>3. /\ \/ scope' = ThreadsUpdate(P, st)
         \/ scope' = StackUpdate(P, st)
         \/ scope' = LocalsUpdate(P, st)
      /\ UNCHANGED <<target, gdbUp, out, created>>
  BY DEF ViewChanged, User, gdbVars
<1> HIDE DEF P, st
<1>4. Keeps(P, scope')
  BY <1>2, <1>3, ThreadsUpdateKeeps, StackUpdateKeeps, LocalsUpdateKeeps DEF Keeps
<1> QED
  BY <1>2, <1>3, <1>4, KeepsTwice, KeepsStep

-------------------------------------------------------------------------------
(* GDB's steps                                                               *)

LEMMA Created1 ==
  ASSUME created < Threads, ThreadsIInv
  PROVE  created + 1 \in created..Threads
  BY ScopeAssumption DEF ThreadsIInv

LEMMA ThreadMore ==
  ASSUME NEW t, target' = WithThread(t)
  PROVE  Live' = Live \cup {t}
  BY DEF Live, WithThread

LEMMA GdbExecutesStep ==
  ASSUME ThreadsIInv, GdbExecutes
  PROVE  ThreadsIInv'
<1> DEFINE c == Head(input)
           t == c.thread
           ends == IF c.name = "exit" THEN <<>> ELSE <<Prompt>>
<1>1. /\ gdbUp /\ scope' = scope
      /\ created' = IF c.name = "run" /\ created < Threads THEN created + 1 ELSE created
  BY DEF GdbExecutes
<1>2. IsSeq(ends) /\ Silent(ends)
  BY SilentPrompt
<1>3. created' \in created..Threads
  BY <1>1, ScopeAssumption DEF ThreadsIInv
<1>4. ASSUME NEW kind \in Results, NEW thread, NEW data,
             Answer(c, target, <<Record(kind, thread, data)>>)
      PROVE  ThreadsIInv'
  <2> DEFINE x == <<Record(kind, thread, data)>>
  <2>1. IsSeq(x) /\ Silent(x)
    BY SilentOne DEF Results
  <2>2. out' = out \o x \o ends /\ target' = target
    BY <1>4 DEF Answer
  <2> HIDE DEF x, ends
  <2>3. Live' = Live
    BY <2>2 DEF Live
  <2> QED
    BY <1>1, <1>2, <1>3, <2>1, <2>2, <2>3, SilentStep
<1>5. ASSUME c.name = "run", created < Threads,
             Answer(c, WithThread(created + 1),
                    <<Record("created", created + 1, NULL), Record("done", NULL, NULL),
                      Record("running", NULL, Live \cup {created + 1})>>)
      PROVE  ThreadsIInv'
  <2> DEFINE a == Record("created", created + 1, NULL)
             b == Record("done", NULL, NULL)
             d == Record("running", NULL, Live \cup {created + 1})
             x == <<a, b, d>>
  <2>1. a.kind = "created" /\ a.thread = created + 1 /\ b.kind = "done" /\ d.kind = "running"
    BY DEF Record
  <2>2. out' = out \o x \o ends /\ target' = WithThread(created + 1) /\ created' = created + 1
    BY <1>1, <1>5 DEF Answer
  <2> HIDE DEF a, b, d, ends
  <2>3. IsSeq(x) /\ Len(x) = 3 /\ x[1] = a /\ x[2] = b /\ x[3] = d
    BY Triple
  <2> HIDE DEF x
  <2>4. /\ 1 \in 1..Len(x) /\ x[1].kind = "created" /\ x[1].thread = created + 1
        /\ \A i \in 1..Len(x) : i # 1 => x[i].kind \notin {"created", "exited"}
    <3>1. \A i \in 1..3 : i \in {1, 2, 3}
      OBVIOUS
    <3> QED
      BY <2>1, <2>3, <3>1
  <2>5. Live' = Live \cup {created + 1}
    BY <2>2, ThreadMore
  <2> QED
    BY <1>1, <1>2, <1>5, <2>2, <2>3, <2>4, <2>5, CreatedStep
<1>6. ASSUME c.name = "continue",
             Answer(c, Runs(Resumed(t)),
                    <<Record("done", NULL, NULL), Record("running", NULL, Resumed(t))>>)
      PROVE  ThreadsIInv'
  <2> DEFINE a == Record("done", NULL, NULL)
             b == Record("running", NULL, Resumed(t))
             x == <<a, b>>
  <2>1. a.kind = "done" /\ b.kind = "running"
    BY DEF Record
  <2>2. out' = out \o x \o ends /\ target' = Runs(Resumed(t))
    BY <1>6 DEF Answer
  <2> HIDE DEF a, b, ends
  <2>3. IsSeq(x) /\ Len(x) = 2 /\ x[1] = a /\ x[2] = b
    BY Pair
  <2> HIDE DEF x
  <2>4. Silent(x)
    <3>1. \A i \in 1..2 : i \in {1, 2}
      OBVIOUS
    <3> QED
      BY <2>1, <2>3, <3>1 DEF Silent
  <2>5. Live' = Live
    BY <2>2 DEF Live, Runs
  <2> QED
    BY <1>1, <1>2, <1>3, <2>2, <2>3, <2>4, <2>5, SilentStep
<1>7. ASSUME c.name = "kill", NEW exits \in Exits(Live),
             Answer(c, [u \in {} |-> NULL], exits \o <<Record("done", NULL, NULL)>>)
      PROVE  ThreadsIInv'
  <2> DEFINE x == <<Record("done", NULL, NULL)>>
             y == x \o ends
  <2>1. IsSeq(x) /\ Silent(x)
    BY SilentOne
  <2>2. out' = out \o (exits \o x) \o ends /\ target' = [u \in {} |-> NULL] /\ created' = created
    BY <1>1, <1>7 DEF Answer
  <2> HIDE DEF x, ends
  <2>3. IsSeq(y) /\ Silent(y)
    <3>1. /\ IsSeq(y) /\ Len(y) = Len(x) + Len(ends)
          /\ \A i \in 1..(Len(x) + Len(ends)) : y[i] = IF i <= Len(x) THEN x[i] ELSE ends[i - Len(x)]
      BY <1>2, <2>1, Joined
    <3>2. Len(x) \in Nat /\ Len(ends) \in Nat
      BY <1>2, <2>1, SeqOver
    <3> HIDE DEF y
    <3>3. ASSUME NEW i \in 1..(Len(x) + Len(ends)) PROVE y[i].kind \notin {"created", "exited"}
      <4>1. CASE i <= Len(x)
        <5>1. i \in 1..Len(x) /\ y[i] = x[i]
          BY <3>1, <3>2, <4>1
        <5> QED
          BY <2>1, <5>1 DEF Silent
      <4>2. CASE ~(i <= Len(x))
        <5>1. i - Len(x) \in 1..Len(ends) /\ y[i] = ends[i - Len(x)]
          BY <3>1, <3>2, <4>2
        <5> QED
          BY <1>2, <5>1 DEF Silent
      <4> QED
        BY <4>1, <4>2
    <3> QED
      BY <3>1, <3>3 DEF Silent
  <2>4. Told /\ IsSeq(out) /\ IsFiniteSet(Live)
    BY <1>1, ToldFinite DEF ThreadsIInv
  <2>5. IsSeq(exits)
    <3>1. PICK order \in SetToSeqs(Live) :
            exits = [i \in 1..Cardinality(Live) |-> Record("exited", order[i], NULL)]
      BY <1>7 DEF Exits
    <3>2. Cardinality(Live) \in Nat
      BY <2>4, FS_CardinalityType
    <3>3. Len(exits) = Cardinality(Live)
      BY <3>1, <3>2
    <3>4. Len(exits) \in Nat /\ exits = [i \in 1..Len(exits) |-> exits[i]]
      BY <3>1, <3>2, <3>3
    <3> QED
      BY <3>4, SeqOver
  <2>6. out' = out \o exits \o y
    <3> DEFINE S == Range(out) \cup Range(exits) \cup Range(x) \cup Range(ends)
    <3>1. out \in Seq(S) /\ exits \in Seq(S) /\ x \in Seq(S) /\ ends \in Seq(S)
      BY <1>2, <2>1, <2>4, <2>5, SeqOver
    <3> HIDE DEF S
    <3>2. exits \o x \in Seq(S) /\ out \o exits \in Seq(S)
      BY <3>1, ConcatProperties
    <3>3. (out \o exits) \o x = out \o (exits \o x)
      BY <3>1, ConcatAssociative
    <3>4. ((out \o exits) \o x) \o ends = (out \o exits) \o (x \o ends)
      BY SMTT(30), <3>1, <3>2, ConcatAssociative
    <3> QED
      BY <2>2, <3>3, <3>4
  <2> HIDE DEF y
  <2>7. Live' = Live \ Live
    BY <2>2 DEF Live
  <2> QED
    BY <1>1, <2>2, <2>3, <2>6, <2>7, ExitsStep
<1> QED
  <2> DEFINE done(kind, thread, data) == Answer(c, target, <<Record(kind, thread, data)>>)
  <2>1. \/ \E kind \in Results : \E thread, data : done(kind, thread, data)
        \/ /\ c.name = "run" /\ created < Threads
           /\ Answer(c, WithThread(created + 1),
                     <<Record("created", created + 1, NULL), Record("done", NULL, NULL),
                       Record("running", NULL, Live \cup {created + 1})>>)
        \/ /\ c.name = "continue"
           /\ Answer(c, Runs(Resumed(t)),
                     <<Record("done", NULL, NULL), Record("running", NULL, Resumed(t))>>)
        \/ /\ c.name = "kill"
           /\ \E exits \in Exits(Live) :
                Answer(c, [u \in {} |-> NULL], exits \o <<Record("done", NULL, NULL)>>)
    BY DEF GdbExecutes, Results
  <2> QED
    BY <1>4, <1>5, <1>6, <1>7, <2>1

LEMMA TargetStopsStep ==
  ASSUME ThreadsIInv, TargetStops
  PROVE  ThreadsIInv'
<1>1. PICK t \in Live, d \in 1..Depth :
        LET ts == IF async THEN {t} ELSE Live IN
        /\ target' = [u \in Live |->
                        IF u = t THEN [running |-> FALSE, stop |-> stops + 1, depth |-> d]
                        ELSE IF u \in ts THEN [running |-> FALSE, stop |-> stops + 1, depth |-> 1]
                        ELSE target[u]]
        /\ out' = out \o <<Record("stopped", t, ts)>> \o (IF async THEN <<>> ELSE <<Prompt>>)
  BY DEF TargetStops
<1> DEFINE ts == IF async THEN {t} ELSE Live
           x == <<Record("stopped", t, ts)>>
           y == IF async THEN <<>> ELSE <<Prompt>>
<1>2. IsSeq(x) /\ Silent(x) /\ IsSeq(y) /\ Silent(y)
  BY SilentOne, SilentPrompt
<1>3. Live' = Live
  BY <1>1 DEF Live
<1>4. out' = out \o x \o y
  BY <1>1
<1> HIDE DEF x, y
<1>5. gdbUp /\ scope' = scope /\ created' \in created..Threads
  BY ScopeAssumption DEF TargetStops, ThreadsIInv
<1> QED
  BY <1>2, <1>3, <1>4, <1>5, SilentStep

LEMMA TargetCreatesStep ==
  ASSUME ThreadsIInv, TargetCreates
  PROVE  ThreadsIInv'
<1> DEFINE a == Record("created", created + 1, NULL)
           b == Record("running", NULL, IF async THEN {created + 1} ELSE Live \cup {created + 1})
           x == <<a, b>>
           y == <<>>
<1>1. a.kind = "created" /\ a.thread = created + 1 /\ b.kind = "running"
  BY DEF Record
<1>2. /\ gdbUp /\ created < Threads /\ created' = created + 1 /\ scope' = scope
      /\ target' = WithThread(created + 1) /\ out' = out \o x
  BY DEF TargetCreates
<1> HIDE DEF a, b
<1>3. IsSeq(x) /\ Len(x) = 2 /\ x[1] = a /\ x[2] = b
  BY Pair
<1> HIDE DEF x
<1>4. /\ 1 \in 1..Len(x) /\ x[1].kind = "created" /\ x[1].thread = created + 1
      /\ \A i \in 1..Len(x) : i # 1 => x[i].kind \notin {"created", "exited"}
  <2>1. \A i \in 1..2 : i \in {1, 2}
    OBVIOUS
  <2> QED
    BY <1>1, <1>3, <2>1
<1>5. Live' = Live \cup {created + 1}
  BY <1>2, ThreadMore
<1>6. IsSeq(y) /\ Silent(y)
  BY SilentPrompt
<1>7. out' = out \o x \o y
  <2> DEFINE u == out \o x
  <2>1. IsSeq(u)
    BY <1>3, Joined DEF ThreadsIInv
  <2> HIDE DEF u
  <2>2. u \in Seq(Range(u))
    BY <2>1 DEF IsSeq
  <2>3. u \o <<>> = u
    BY <2>2, ConcatEmptySeq
  <2> QED
    BY <1>2, <2>3 DEF u
<1> HIDE DEF y
<1> QED
  BY <1>2, <1>3, <1>4, <1>5, <1>6, <1>7, CreatedStep

LEMMA TargetExitsStep ==
  ASSUME ThreadsIInv, TargetExits
  PROVE  ThreadsIInv'
<1>1. PICK ts \in {{t} : t \in Live} \cup {Live} :
        /\ target' = [t \in Live \ ts |-> target[t]]
        /\ \E exits \in Exits(ts) :
             out' = out \o exits \o (IF ~async /\ ts = Live THEN <<Prompt>> ELSE <<>>)
  BY DEF TargetExits
<1>2. PICK exits \in Exits(ts) :
        out' = out \o exits \o (IF ~async /\ ts = Live THEN <<Prompt>> ELSE <<>>)
  BY <1>1
<1> DEFINE y == IF ~async /\ ts = Live THEN <<Prompt>> ELSE <<>>
<1>3. IsSeq(y) /\ Silent(y) /\ out' = out \o exits \o y
  BY <1>2, SilentPrompt
<1> HIDE DEF y
<1>4. ts \subseteq Live /\ Live' = Live \ ts
  BY <1>1 DEF Live
<1>5. gdbUp /\ scope' = scope /\ created' = created
  BY DEF TargetExits
<1> QED
  BY <1>3, <1>4, <1>5, ExitsStep

LEMMA ThreadsStep ==
  ASSUME ThreadsIInv, [ScopeNext]_scopeVars
  PROVE  ThreadsIInv'
<1>1. CASE Receive
  BY <1>1, ReceiveStep
<1>2. CASE SendCommands
  BY <1>2, SendCommandsStep
<1>3. CASE GdbExitCb
  BY <1>3, GdbExitStep
<1>4. CASE LoadProgram
  BY <1>4, LoadStep
<1>5. CASE RunContinue
  BY <1>5, UserSends DEF RunContinue
<1>6. CASE Terminate
  BY <1>6, TerminateStep
<1>7. CASE Refresh
  BY <1>7, UserSends DEF Refresh
<1>8. CASE \E t \in Thread : ClickThread(t)
  BY <1>8, ClickThreadStep
<1>9. CASE \E f \in Frame : ClickFrame(f)
  BY <1>9, ClickFrameStep
<1>10. CASE \E v \in {"threads", "stack", "locals"} : ViewChanged(v)
  BY <1>10, ViewChangedStep
<1>11. CASE GdbExecutes
  BY <1>11, GdbExecutesStep
<1>12. CASE TargetStops
  BY <1>12, TargetStopsStep
<1>13. CASE TargetCreates
  BY <1>13, TargetCreatesStep
<1>14. CASE TargetExits
  BY <1>14, TargetExitsStep
<1>15. CASE GdbDies
  <2>1. /\ UNCHANGED <<target, out, created>> /\ gdbUp' = FALSE /\ scope' = scope
        /\ Sound(scope')
    BY <1>15 DEF GdbDies, ThreadsIInv
  <2> QED
    BY <2>1, PluginStep
<1>16. CASE UNCHANGED scopeVars
  <2>1. UNCHANGED <<target, out, created, gdbUp, scope>> /\ Sound(scope')
    BY <1>16 DEF scopeVars, gdbVars, ThreadsIInv
  <2> QED
    BY <2>1, PluginStep
<1> QED
  BY <1>1, <1>2, <1>3, <1>4, <1>5, <1>6, <1>7, <1>8, <1>9, <1>10, <1>11, <1>12, <1>13, <1>14,
     <1>15, <1>16 DEF ScopeNext, Gdb

LEMMA ThreadsStart == ScopeInit => ThreadsIInv
<1> SUFFICES ASSUME ScopeInit PROVE ThreadsIInv
  OBVIOUS
<1> DEFINE none == <<>>
           rows == [t \in {} |-> NULL]
<1>1. IsSeq(none)
  BY Single
<1>2. out = none /\ scope.commands = none /\ scope.rows = rows /\ ~gdbUp /\ created = 0
  BY DEF ScopeInit
<1>s. IsSeq(out) /\ IsSeq(scope.commands)
  BY <1>1, <1>2
<1>3. /\ scope.gdb = "INACTIVE" /\ scope.waitResult = 0 /\ scope.waitPrompt = FALSE
      /\ scope.id = NULL /\ scope.state = "BLANK" /\ scope.count = 0 /\ scope.prompt = 0
      /\ scope.frame = NULL /\ Shape(scope)
  BY DEF ScopeInit, Shape, Fields
<1> HIDE DEF none, rows
<1>4. Known(scope) = {} /\ Stopped(scope) = {}
  BY <1>2 DEF Known, Stopped, rows
<1>5. Typed(scope)
  <2>1. /\ scope.rows \in [Known(scope) -> Row]
        /\ \A t \in Known(scope) : scope.rows[t].addr => scope.rows[t].state = "Stopped"
    BY <1>2, <1>4 DEF rows
  <2>2. Known(scope) \subseteq Thread /\ scope.prompt = Cardinality(Stopped(scope))
    BY <1>3, <1>4, FS_EmptySet
  <2>3. scope.gdb \in {"INACTIVE", "ACTIVE", "KILLING"} /\ scope.state \in AtStop \cup {"BLANK", "RUNNING"}
    BY <1>3
  <2>4. scope.waitResult \in Nat /\ scope.frame \in Frame \cup {NULL}
    BY <1>3
  <2>6. scope.waitPrompt \in BOOLEAN
    BY <1>3
  <2>5. Shape(scope) /\ IsSeq(scope.commands)
    BY <1>s, <1>3
  <2> QED
    BY <2>1, <2>2, <2>3, <2>4, <2>5, <2>6 DEF Typed
<1>6. Selected(scope) /\ Counted(scope)
  BY <1>3, <1>4, FS_EmptySet DEF Selected, Counted, AtStop
<1> QED
  <2>1. out = <<>> /\ created \in 0..Threads
    BY <1>2, ScopeAssumption DEF none
  <2> QED
    BY <1>s, <1>2, <1>3, <1>4, <1>5, <1>6, <2>1 DEF ThreadsIInv, Sound

LEMMA ThreadsInvariant == ScopeSpec => []ThreadsIInv
  BY ThreadsStart, ThreadsStep, PTL DEF ScopeSpec

(* thread_state is that of the row selected and thread_prompt the number of  *)
(* stopped threads (thread.c), whatever GDB reports and the user selects in  *)
(* between: what debug_state() says of the target is right.                  *)
THEOREM SelectedTold == ScopeSpec => []StateOfSelected
<1>1. ThreadsIInv => StateOfSelected
  BY DEF ThreadsIInv, Sound, Typed, Selected, Counted, StateOfSelected, ScopeTypeOK
<1> QED
  BY <1>1, ThreadsInvariant, PTL

-------------------------------------------------------------------------------
(* What the plugin waits for, and what it will know when it has read all     *)

Answers(s) == At(s, "kind", Results)
Starts(s) == At(s, "kind", Launched)

(* At most one in all of three sets                                          *)
Lone(A, B, C) ==
  /\ \A x, y \in A : x = y
  /\ \A x, y \in B : x = y
  /\ \A x, y \in C : x = y
  /\ A = {} \/ B = {}
  /\ A = {} \/ C = {}
  /\ B = {} \/ C = {}

(* As many answers are waited for as there are commands at GDB and answers   *)
(* on the way.                                                               *)
Counts ==
  /\ IsSeq(input)
  /\ scope.waitResult >= Len(input) + Cardinality(Answers(out))
  /\ scope.waitPrompt \/ scope.waitResult = 0

(* The program is brought up by one command, or answer, at a time; until it   *)
(* runs there are no threads.                                                *)
LaunchedOnce ==
  /\ Lone(Launches(scope.commands), Launches(input), Starts(out))
  /\ Launches(scope.commands) \cup Launches(input) \cup Starts(out) # {} => Live = {}

(* When record n of s is read, some thread is known.                         *)
Another(s, known, n) ==
  \E u : /\ u \in known \/ \E j \in 1..(n - 1) : s[j].kind = "created" /\ s[j].thread = u
         /\ \A j \in 1..(n - 1) : ~(s[j].kind = "exited" /\ s[j].thread = u)

(* A thread is created by another, or by a command whose answer follows.     *)
Accompanied(s, known) ==
  \A i \in 1..Len(s) : s[i].kind = "created" =>
    \/ i < Len(s) /\ s[i + 1].kind = "done"
    \/ Another(s, known, i)

(* In the foreground all threads run or none.                                *)
Together == ~async => \A t, u \in Live : target[t].running = target[u].running

Now(t) == IF target[t].running THEN "Running" ELSE "Stopped"

(* The last that s tells of t, or what is known of it if it tells nothing    *)
ToldLast(s, rows, t, state) ==
  \/ \E i \in 1..Len(s) :
       /\ Tells(s[i], t) /\ Says(s[i], t) = state
       /\ \A j \in (i + 1)..Len(s) :
            ~Tells(s[j], t) /\ ~(s[j].kind = "created" /\ s[j].thread = t)
  \/ /\ t \in DOMAIN rows /\ rows[t].state = state
     /\ \A j \in 1..Len(s) : ~Tells(s[j], t)

(* Of every thread the plugin is going to know the state it is in.           *)
Retold == \A t \in Live : ToldLast(out, scope.rows, t, Now(t))

(* GDB's threads are records of these fields.                                *)
TargetShape ==
  \A t \in Live : target[t] = [running |-> target[t].running, stop |-> target[t].stop,
                               depth |-> target[t].depth]

InStep == TargetShape /\ Counts /\ LaunchedOnce /\ Accompanied(out, Known(scope)) /\ Together /\ Retold

(* While GDB is there, and is not being killed                               *)
Held == scope.gdb = "ACTIVE" /\ gdbUp => InStep

StepIInv == ThreadsIInv /\ Held

LEMMA AtFinite ==
  ASSUME NEW s, IsSeq(s), NEW f, NEW K
  PROVE  IsFiniteSet(At(s, f, K)) /\ Cardinality(At(s, f, K)) \in Nat
<1>1. Len(s) \in Nat
  BY SeqOver
<1>2. IsFiniteSet(1..Len(s)) /\ At(s, f, K) \subseteq 1..Len(s)
  BY <1>1, FS_Interval DEF At
<1> QED
  BY <1>2, FS_Subset, FS_CardinalityType

LEMMA AtTail ==
  ASSUME NEW s, IsSeq(s), s # <<>>, NEW f, NEW K
  PROVE  /\ \A i \in At(Tail(s), f, K) : i \in Nat \ {0} /\ i + 1 \in At(s, f, K)
         /\ 1 \in At(s, f, K) <=> Head(s)[f] \in K
         /\ Cardinality(At(Tail(s), f, K))
              <= Cardinality(At(s, f, K)) - (IF Head(s)[f] \in K THEN 1 ELSE 0)
<1>1. /\ IsSeq(Tail(s)) /\ Len(s) \in Nat \ {0} /\ Len(Tail(s)) = Len(s) - 1 /\ Head(s) = s[1]
      /\ \A i \in 1..(Len(s) - 1) : Tail(s)[i] = s[i + 1]
  BY TailOf
<1> DEFINE A == At(s, f, K)
           B == At(Tail(s), f, K)
           shift == [i \in B |-> i + 1]
<1>2. \A i \in B : i \in Nat \ {0} /\ i + 1 \in A
  <2> SUFFICES ASSUME NEW i \in B PROVE i \in Nat \ {0} /\ i + 1 \in A
    OBVIOUS
  <2>1. i \in 1..(Len(s) - 1) /\ s[i + 1][f] \in K
    BY <1>1 DEF At
  <2>2. i + 1 \in 1..Len(s)
    BY <1>1, <2>1
  <2> QED
    BY <2>1, <2>2 DEF At
<1>3. 1 \in A <=> Head(s)[f] \in K
  BY <1>1 DEF At
<1>4. IsFiniteSet(A) /\ IsFiniteSet(B) /\ Cardinality(A) \in Nat
  BY <1>1, AtFinite
<1> HIDE DEF A, B
<1>5. shift \in Injection(B, A \ {1})
  <2>1. shift \in [B -> A \ {1}]
    BY <1>2
  <2>2. \A i, j \in B : shift[i] = shift[j] => i = j
    BY <1>2
  <2> QED
    BY <2>1, <2>2 DEF Injection, IsInjective
<1>6. IsFiniteSet(A \ {1}) /\ Cardinality(A \ {1}) = IF 1 \in A THEN Cardinality(A) - 1 ELSE Cardinality(A)
  BY <1>4, FS_RemoveElement
<1>7. Cardinality(B) <= Cardinality(A \ {1})
  BY <1>5, <1>6, FS_Injection
<1> QED
  BY <1>2, <1>3, <1>4, <1>6, <1>7 DEF A, B

LEMMA AtMore ==
  ASSUME NEW s, NEW x, IsSeq(s), IsSeq(x), NEW f, NEW K
  PROVE  /\ \A i \in At(s \o x, f, K) : i \in At(s, f, K) \/ (i - Len(s) \in At(x, f, K) /\ i \in Nat)
         /\ Cardinality(At(s \o x, f, K)) <= Cardinality(At(s, f, K)) + Cardinality(At(x, f, K))
         /\ At(x, f, K) = {} => At(s \o x, f, K) = At(s, f, K)
<1>1. /\ Len(s) \in Nat /\ Len(x) \in Nat /\ Len(s \o x) = Len(s) + Len(x) /\ IsSeq(s \o x)
      /\ \A i \in 1..(Len(s) + Len(x)) :
           (s \o x)[i] = IF i <= Len(s) THEN s[i] ELSE x[i - Len(s)]
  BY Joined, SeqOver
<1> DEFINE A == At(s, f, K)
           B == At(x, f, K)
           C == At(s \o x, f, K)
           n == Len(s)
<1>2. \A i \in C : i \in A \/ (i - n \in B /\ i \in Nat)
  <2> SUFFICES ASSUME NEW i \in C PROVE i \in A \/ (i - n \in B /\ i \in Nat)
    OBVIOUS
  <2>1. i \in 1..(Len(s) + Len(x)) /\ (s \o x)[i][f] \in K
    BY <1>1 DEF At
  <2>2. CASE i <= n
    BY <1>1, <2>1, <2>2 DEF At
  <2>3. CASE ~(i <= n)
    <3>1. i - n \in 1..Len(x) /\ x[i - n][f] \in K /\ i \in Nat
      BY <1>1, <2>1, <2>3
    <3> QED
      BY <3>1 DEF At
  <2> QED
    BY <2>2, <2>3
<1>3. A \subseteq C
  <2> SUFFICES ASSUME NEW i \in A PROVE i \in C
    OBVIOUS
  <2>1. i \in 1..Len(s) /\ s[i][f] \in K
    BY DEF At
  <2>2. i \in 1..(Len(s) + Len(x)) /\ i <= n
    BY <1>1, <2>1
  <2>3. (s \o x)[i] = s[i]
    BY <1>1, <2>2
  <2> QED
    BY <1>1, <2>1, <2>2, <2>3 DEF At
<1>4. /\ IsFiniteSet(A) /\ IsFiniteSet(B) /\ IsFiniteSet(C)
      /\ Cardinality(A) \in Nat /\ Cardinality(B) \in Nat /\ Cardinality(C) \in Nat
  BY <1>1, AtFinite
<1>5. n \in Nat
  BY <1>1
<1> HIDE DEF A, B, C, n
<1> DEFINE shift == [i \in C \ A |-> i - n]
<1>6. shift \in Injection(C \ A, B)
  <2>1. shift \in [C \ A -> B]
    BY <1>2
  <2>2. \A i, j \in C \ A : shift[i] = shift[j] => i = j
    BY <1>2, <1>5
  <2> QED
    BY <2>1, <2>2 DEF Injection, IsInjective
<1> HIDE DEF shift
<1>7. Cardinality(C \ A) <= Cardinality(B)
  BY <1>4, <1>6, FS_Injection
<1>8. Cardinality(C \ A) = Cardinality(C) - Cardinality(A)
  <2>1. C \cap A = A
    BY <1>3
  <2> QED
    BY <1>4, <2>1, FS_Difference
<1>9. B = {} => C = A
  BY <1>2, <1>3
<1> QED
  BY <1>2, <1>4, <1>7, <1>8, <1>9 DEF A, B, C, n

(* One answer at the most                                                    *)
LEMMA AtOne ==
  ASSUME NEW S, NEW k, S \subseteq {k}
  PROVE  Cardinality(S) <= 1
<1>1. IsFiniteSet({k}) /\ Cardinality({k}) = 1
  BY FS_Singleton
<1> QED
  BY <1>1, FS_Subset

(* The first record is read.                                                 *)
LEMMA LastOfTail ==
  ASSUME NEW s, IsSeq(s), s # <<>>, NEW P, NEW Q, Sound(P), PipeSound(s, Known(P)),
         Read(P, Q, Head(s)), NEW t \in Alive(s, Known(P)), NEW state,
         ToldLast(s, P.rows, t, state)
  PROVE  ToldLast(Tail(s), Q.rows, t, state)
<1> DEFINE n == Len(s)
           r == Head(s)
           u == Tail(s)
<1>1. /\ n \in Nat \ {0} /\ Len(u) = n - 1 /\ r = s[1]
      /\ \A i \in 1..(n - 1) : u[i] = s[i + 1]
  BY TailOf
<1>2. /\ ~(r.kind = "exited" /\ r.thread = t)
      /\ Known(Q) = After(Known(P), r)
      /\ t \in Known(P) => t \in Known(Q)
      /\ t \in Known(P) => Q.rows[t].state = IF Tells(r, t) THEN Says(r, t) ELSE P.rows[t].state
  <2>1. ~(r.kind = "exited" /\ r.thread = t)
    BY <1>1 DEF Alive, Exited
  <2>2. Known(Q) = After(Known(P), r)
    BY DEF Read
  <2>3. t \in Known(P) => t \in Known(Q)
    BY <2>1, <2>2 DEF After
  <2> QED
    BY <2>1, <2>2, <2>3 DEF Read
<1>3. ASSUME NEW i \in 1..n, Tells(s[i], t), Says(s[i], t) = state,
             \A j \in (i + 1)..n : ~Tells(s[j], t) /\ ~(s[j].kind = "created" /\ s[j].thread = t)
      PROVE  ToldLast(u, Q.rows, t, state)
  <2>1. CASE i = 1
    <3>1. \A j \in 1..(n - 1) : ~Tells(u[j], t)
      BY <1>1, <1>3, <2>1
    <3>2. t \in Known(P)
      <4>1. \A j \in 1..n : ~(s[j].kind = "created" /\ s[j].thread = t)
        <5>1. ~(s[1].kind = "created")
          BY <1>3, <2>1 DEF Tells
        <5> QED
          BY <1>1, <1>3, <2>1, <5>1
      <4>2. t \notin Created(s)
        BY <4>1 DEF Created
      <4> QED
        BY <4>2 DEF Alive
    <3>3. t \in DOMAIN Q.rows /\ Q.rows[t].state = state
      BY <1>1, <1>2, <1>3, <2>1, <3>2 DEF Known
    <3> QED
      BY <1>1, <3>1, <3>3 DEF ToldLast
  <2>2. CASE i # 1
    <3> DEFINE k == i - 1
    <3>1. k \in 1..(n - 1) /\ u[k] = s[i]
      BY <1>1, <2>2
    <3>2. \A j \in (k + 1)..(n - 1) : j + 1 \in (i + 1)..n /\ u[j] = s[j + 1]
      BY <1>1, <2>2, <3>1
    <3> HIDE DEF k, u
    <3>3. \A j \in (k + 1)..Len(u) : ~Tells(u[j], t) /\ ~(u[j].kind = "created" /\ u[j].thread = t)
      BY <1>1, <1>3, <3>2
    <3> QED
      BY <1>1, <1>3, <3>1, <3>3 DEF ToldLast
  <2> QED
    BY <2>1, <2>2
<1>4. ASSUME t \in DOMAIN P.rows, P.rows[t].state = state, \A j \in 1..n : ~Tells(s[j], t)
      PROVE  ToldLast(u, Q.rows, t, state)
  <2>1. \A j \in 1..(n - 1) : ~Tells(u[j], t)
    BY <1>1, <1>4
  <2>2. t \in DOMAIN Q.rows /\ Q.rows[t].state = state
    BY <1>1, <1>2, <1>4 DEF Known
  <2> QED
    BY <1>1, <2>1, <2>2 DEF ToldLast
<1> QED
  BY <1>3, <1>4 DEF ToldLast

(* More is written: of thread t, or of others.                               *)
LEMMA LastOfMore ==
  ASSUME NEW s, NEW x, IsSeq(s), IsSeq(x), NEW rows, NEW t, NEW state,
         \/ /\ ToldLast(s, rows, t, state)
            /\ \A j \in 1..Len(x) : ~Tells(x[j], t) /\ ~(x[j].kind = "created" /\ x[j].thread = t)
         \/ \E i \in 1..Len(x) :
              /\ Tells(x[i], t) /\ Says(x[i], t) = state
              /\ \A j \in (i + 1)..Len(x) :
                   ~Tells(x[j], t) /\ ~(x[j].kind = "created" /\ x[j].thread = t)
  PROVE  ToldLast(s \o x, rows, t, state)
<1> DEFINE m == Len(s)
           n == Len(x)
           u == s \o x
           Other(r) == ~Tells(r, t) /\ ~(r.kind = "created" /\ r.thread = t)
<1>1. /\ m \in Nat /\ n \in Nat /\ Len(u) = m + n
      /\ \A i \in 1..m : u[i] = s[i]
      /\ \A i \in 1..n : u[m + i] = x[i]
  <2>1. /\ m \in Nat /\ n \in Nat /\ Len(u) = m + n
        /\ \A i \in 1..(m + n) : u[i] = IF i <= m THEN s[i] ELSE x[i - m]
    BY Joined, SeqOver
  <2> HIDE DEF m, n, u
  <2>2. \A i \in 1..m : u[i] = s[i]
    BY <2>1
  <2>3. ASSUME NEW i \in 1..n PROVE u[m + i] = x[i]
    <3>1. m + i \in 1..(m + n) /\ ~(m + i <= m) /\ (m + i) - m = i
      BY <2>1
    <3> QED
      BY <2>1, <3>1
  <2> QED
    BY <2>1, <2>2, <2>3
<1>2. ASSUME NEW i \in 1..n, Tells(x[i], t), Says(x[i], t) = state,
             \A j \in (i + 1)..n : Other(x[j])
      PROVE  ToldLast(u, rows, t, state)
  <2>1. m + i \in 1..(m + n) /\ u[m + i] = x[i]
    BY <1>1
  <2>2. ASSUME NEW j \in (m + i + 1)..(m + n) PROVE Other(u[j])
    <3>1. j - m \in (i + 1)..n /\ j - m \in 1..n /\ m + (j - m) = j
      BY <1>1
    <3>2. u[j] = x[j - m]
      BY <1>1, <3>1
    <3> QED
      BY <1>2, <3>1, <3>2
  <2> HIDE DEF u
  <2> QED
    BY <1>1, <1>2, <2>1, <2>2 DEF ToldLast
<1>3. ASSUME ToldLast(s, rows, t, state), \A j \in 1..n : Other(x[j])
      PROVE  ToldLast(u, rows, t, state)
  <2>1. ASSUME NEW k, k <= m, k \in Nat, \A j \in (k + 1)..m : ~Tells(s[j], t), NEW j \in (k + 1)..(m + n)
        PROVE  ~Tells(u[j], t)
    <3>1. CASE j <= m
      BY <1>1, <2>1, <3>1
    <3>2. CASE ~(j <= m)
      <4>1. j - m \in 1..n /\ m + (j - m) = j
        BY <1>1, <2>1, <3>2
      <4>2. u[j] = x[j - m]
        BY <1>1, <4>1
      <4> QED
        BY <1>3, <4>1, <4>2
    <3> QED
      BY <3>1, <3>2
  <2>2. ASSUME NEW i \in 1..m, Tells(s[i], t), Says(s[i], t) = state,
               \A j \in (i + 1)..m : Other(s[j])
        PROVE  ToldLast(u, rows, t, state)
    <3>1. i \in 1..(m + n) /\ u[i] = s[i]
      BY <1>1
    <3>2. ASSUME NEW j \in (i + 1)..(m + n) PROVE Other(u[j])
      <4>1. CASE j <= m
        BY <1>1, <2>2, <4>1
      <4>2. CASE ~(j <= m)
        <5>1. j - m \in 1..n /\ m + (j - m) = j
          BY <1>1, <4>2
        <5>2. u[j] = x[j - m]
          BY <1>1, <5>1
        <5> QED
          BY <1>3, <5>1, <5>2
      <4> QED
        BY <4>1, <4>2
    <3> HIDE DEF u
    <3> QED
      BY <1>1, <2>2, <3>1, <3>2 DEF ToldLast
  <2>3. ASSUME t \in DOMAIN rows, rows[t].state = state, \A j \in 1..m : ~Tells(s[j], t)
        PROVE  ToldLast(u, rows, t, state)
    <3>1. \A j \in 1..(m + n) : ~Tells(u[j], t)
      <4>1. 0 \in Nat /\ 0 <= m /\ 0 + 1 = 1
        BY <1>1
      <4> QED
        BY <2>1, <2>3, <4>1
    <3> HIDE DEF u
    <3> QED
      BY <1>1, <2>3, <3>1 DEF ToldLast
  <2> QED
    BY <1>3, <2>2, <2>3 DEF ToldLast
<1> QED
  BY <1>2, <1>3

LEMMA AccompaniedTail ==
  ASSUME NEW s, IsSeq(s), s # <<>>, NEW known, Accompanied(s, known)
  PROVE  Accompanied(Tail(s), After(known, Head(s)))
<1> DEFINE n == Len(s)
           r == Head(s)
           u == Tail(s)
           later == After(known, r)
<1>1. /\ n \in Nat \ {0} /\ Len(u) = n - 1 /\ r = s[1]
      /\ \A i \in 1..(n - 1) : u[i] = s[i + 1]
  BY TailOf
<1>2. SUFFICES ASSUME NEW i \in 1..(n - 1), u[i].kind = "created"
               PROVE  (i < n - 1 /\ u[i + 1].kind = "done") \/ Another(u, later, i)
  BY <1>1 DEF Accompanied
<1>3. i + 1 \in 1..n /\ s[i + 1].kind = "created"
  BY <1>1, <1>2
<1>4. CASE i + 1 < n /\ s[i + 2].kind = "done"
  <2>1. i < n - 1 /\ i + 1 \in 1..(n - 1) /\ (i + 1) + 1 = i + 2
    BY <1>1, <1>4
  <2>2. u[i + 1] = s[i + 2]
    BY <1>1, <2>1
  <2> QED
    BY <1>4, <2>1, <2>2
<1>5. CASE Another(s, known, i + 1)
  <2>1. PICK v : /\ v \in known \/ \E j \in 1..i : s[j].kind = "created" /\ s[j].thread = v
                 /\ \A j \in 1..i : ~(s[j].kind = "exited" /\ s[j].thread = v)
    <3>1. (i + 1) - 1 = i
      BY <1>1
    <3> QED
      BY <1>5, <3>1 DEF Another
  <2>2. \A j \in 1..(i - 1) : j \in 1..(n - 1) /\ j + 1 \in 1..i /\ u[j] = s[j + 1]
    BY <1>1
  <2>3. \A j \in 1..(i - 1) : ~(u[j].kind = "exited" /\ u[j].thread = v)
    BY <2>1, <2>2
  <2>4. 1 \in 1..i
    BY <1>1
  <2>5. ~(r.kind = "exited" /\ r.thread = v)
    BY <1>1, <2>1, <2>4
  <2>6. v \in later \/ \E j \in 1..(i - 1) : u[j].kind = "created" /\ u[j].thread = v
    <3>1. CASE v \in known
      BY <2>5, <3>1 DEF After
    <3>2. ASSUME NEW j \in 1..i, s[j].kind = "created", s[j].thread = v
          PROVE  v \in later \/ \E k \in 1..(i - 1) : u[k].kind = "created" /\ u[k].thread = v
      <4>1. CASE j = 1
        BY <1>1, <3>2, <4>1 DEF After
      <4>2. CASE j # 1
        <5>1. j - 1 \in 1..(i - 1) /\ (j - 1) + 1 = j
          BY <1>1, <4>2
        <5>2. u[j - 1] = s[j]
          BY <2>2, <5>1
        <5> QED
          BY <3>2, <5>1, <5>2
      <4> QED
        BY <4>1, <4>2
    <3> QED
      BY <2>1, <3>1, <3>2
  <2> QED
    BY <2>3, <2>6 DEF Another
<1>6. (i + 1 < n /\ s[(i + 1) + 1].kind = "done") \/ Another(s, known, i + 1)
  BY <1>3 DEF Accompanied
<1>7. (i + 1) + 1 = i + 2
  BY <1>1
<1> QED
  BY <1>4, <1>5, <1>6, <1>7

LEMMA AccompaniedMore ==
  ASSUME NEW s, NEW x, IsSeq(s), IsSeq(x), NEW known, Accompanied(s, known),
         \A i \in 1..Len(x) : x[i].kind = "created" =>
           \/ i < Len(x) /\ x[i + 1].kind = "done"
           \/ i = 1 /\ Alive(s, known) # {}
  PROVE  Accompanied(s \o x, known)
<1> DEFINE m == Len(s)
           n == Len(x)
           u == s \o x
<1>1. /\ m \in Nat /\ n \in Nat /\ Len(u) = m + n
      /\ \A i \in 1..(m + n) : u[i] = IF i <= m THEN s[i] ELSE x[i - m]
  BY Joined, SeqOver
<1>2. SUFFICES ASSUME NEW i \in 1..(m + n), u[i].kind = "created"
               PROVE  (i < m + n /\ u[i + 1].kind = "done") \/ Another(u, known, i)
  BY <1>1 DEF Accompanied
<1> HIDE DEF u
<1>3. CASE i <= m
  <2>1. i \in 1..m /\ u[i] = s[i] /\ \A j \in 1..(i - 1) : u[j] = s[j]
    BY <1>1, <1>3
  <2>2. CASE i < m /\ s[i + 1].kind = "done"
    <3>1. i + 1 <= m /\ i + 1 \in 1..(m + n)
      BY <1>1, <2>2
    <3> QED
      BY <1>1, <2>2, <3>1
  <2>3. CASE Another(s, known, i)
    BY <2>1, <2>3 DEF Another
  <2> QED
    BY <1>2, <2>1, <2>2, <2>3 DEF Accompanied
<1>4. CASE ~(i <= m)
  <2> DEFINE k == i - m
  <2>1. k \in 1..n /\ u[i] = x[k] /\ i = m + k
    BY <1>1, <1>4
  <2>2. CASE k < n /\ x[k + 1].kind = "done"
    <3>1. i + 1 \in 1..(m + n) /\ ~(i + 1 <= m) /\ (i + 1) - m = k + 1
      BY <1>1, <2>1, <2>2
    <3>2. u[i + 1] = x[k + 1]
      BY <1>1, <3>1
    <3> QED
      BY <1>1, <2>1, <2>2, <3>2
  <2>3. CASE k = 1 /\ Alive(s, known) # {}
    <3>1. i - 1 = m
      BY <1>1, <2>1, <2>3
    <3>2. \A j \in 1..m : u[j] = s[j]
      BY <1>1
    <3>3. PICK v \in Alive(s, known) : TRUE
      BY <2>3
    <3>4. v \in known \/ \E j \in 1..m : s[j].kind = "created" /\ s[j].thread = v
      BY <3>3 DEF Alive, Created
    <3>5. \A j \in 1..m : ~(s[j].kind = "exited" /\ s[j].thread = v)
      BY <3>3 DEF Alive, Exited
    <3> QED
      BY <3>1, <3>2, <3>4, <3>5 DEF Another
  <2> QED
    BY <1>2, <2>1, <2>2, <2>3
<1> QED
  BY <1>1, <1>3, <1>4

-------------------------------------------------------------------------------
(* The plugin's steps                                                        *)

LEMMA NowKept ==
  ASSUME target' = target
  PROVE  Live' = Live /\ (\A t : Now(t)' = Now(t)) /\ (TargetShape => TargetShape')
  BY DEF Live, Now, TargetShape

(* Nothing is sent that launches, read or written.                           *)
LEMMA PluginInStep ==
  ASSUME InStep, UNCHANGED <<target, out, input, async>>, scope'.rows = scope.rows,
         Asks(scope, scope')
  PROVE  InStep'
<1>1. Live' = Live /\ (\A t : Now(t)' = Now(t)) /\ Known(scope') = Known(scope)
  BY NowKept DEF Known
<1>2. Counts'
  BY DEF InStep, Counts, Asks
<1>3. LaunchedOnce'
  BY <1>1 DEF InStep, LaunchedOnce, Lone, Asks
<1>4. Accompanied(out, Known(scope))'
  BY <1>1 DEF InStep
<1>5. Together'
  BY <1>1 DEF InStep, Together
<1>6. Retold'
  BY <1>1 DEF InStep, Retold
<1>t. TargetShape'
  BY NowKept DEF InStep
<1> QED
  BY <1>t, <1>2, <1>3, <1>4, <1>5, <1>6 DEF InStep

(* Not busy, the plugin waits for nothing.                                   *)
LEMMA NotBusyIdle ==
  ASSUME ThreadsIInv, InStep, scope.gdb = "ACTIVE", DebugState(scope) # "BUSY"
  PROVE  /\ scope.commands = <<>> /\ input = <<>> /\ Answers(out) = {} /\ Starts(out) = {}
         /\ Launches(scope.commands) = {} /\ Launches(input) = {}
<1>1. scope.commands = <<>> /\ ~scope.waitPrompt
  BY DEF DebugState
<1>2. /\ scope.waitResult = 0 /\ IsSeq(input) /\ IsSeq(out)
      /\ scope.waitResult >= Len(input) + Cardinality(Answers(out))
  BY <1>1 DEF InStep, Counts, ThreadsIInv
<1>3. Len(input) \in Nat /\ IsFiniteSet(Answers(out)) /\ Cardinality(Answers(out)) \in Nat
  BY <1>2, AtFinite, SeqOver DEF Answers
<1>4. Len(input) = 0 /\ Cardinality(Answers(out)) = 0
  BY <1>2, <1>3
<1>5. Answers(out) = {}
  BY <1>3, <1>4, FS_EmptySet
<1>6. Starts(out) = {}
  BY <1>5 DEF Starts, Answers, At, Launched, Results
<1>7. input = <<>>
  <2>1. input \in Seq(Range(input))
    BY <1>2 DEF IsSeq
  <2> QED
    BY <1>4, <2>1, EmptySeq
<1>8. Launches(<<>>) = {}
  BY Single DEF Launches, At
<1> QED
  BY <1>1, <1>5, <1>6, <1>7, <1>8

(* With no row, and no answer on the way, there is no thread.                *)
LEMMA NoRowNoThread ==
  ASSUME ThreadsIInv, InStep, scope.gdb = "ACTIVE", Answers(out) = {}, scope.count = 0
  PROVE  Live = {}
<1>1. /\ Sound(scope) /\ IsSeq(out) /\ Live = Alive(out, Known(scope)) /\ Len(out) \in Nat
  BY SeqOver DEF ThreadsIInv, Told
<1>2. Known(scope) = {}
  BY <1>1, KnownFinite, FS_EmptySet DEF Sound, Counted
<1> DEFINE New == {i \in 1..Len(out) : out[i].kind = "created"}
<1>3. \A i \in New : \E j \in New : j < i
  <2> SUFFICES ASSUME NEW i \in New PROVE \E j \in New : j < i
    OBVIOUS
  <2>1. ~(i < Len(out) /\ out[i + 1].kind = "done")
    <3>1. ASSUME i < Len(out), out[i + 1].kind = "done" PROVE FALSE
      <4>1. i + 1 \in 1..Len(out)
        BY <1>1, <3>1
      <4> QED
        BY <3>1, <4>1 DEF Answers, At, Results
    <3> QED
      BY <3>1
  <2>2. Another(out, {}, i)
    BY <1>2, <2>1 DEF InStep, Accompanied
  <2>3. PICK j \in 1..(i - 1) : out[j].kind = "created"
    BY <2>2 DEF Another
  <2> QED
    BY <1>1, <2>3
<1>4. New = {}
  <2> SUFFICES ASSUME New # {} PROVE FALSE
    OBVIOUS
  <2> DEFINE Less == {p \in Nat \X Nat : p[1] < p[2]}
  <2>1. IsWellFoundedOn(Less, Nat)
    BY NatLessThanWellFounded DEF OpToRel
  <2>2. New \subseteq Nat
    BY <1>1
  <2>3. PICK m \in New : \A u \in New : ~(<<u, m>> \in Less)
    <3> HIDE DEF New, Less
    <3> QED
      BY <2>1, <2>2, WFMin
  <2> QED
    BY <1>3, <2>2, <2>3
<1>5. Created(out) = {}
  BY <1>4 DEF Created
<1> QED
  BY <1>1, <1>2, <1>5 DEF Alive

LEMMA RunInStep ==
  ASSUME ThreadsIInv, InStep, scope.gdb = "ACTIVE", DebugState(scope) = "HANGING",
         User(Send(scope, "run", NULL, NULL))
  PROVE  InStep'
<1>1. /\ scope'.rows = scope.rows /\ Known(scope') = Known(scope)
      /\ scope'.waitResult = scope.waitResult /\ scope'.waitPrompt = scope.waitPrompt
      /\ Launches(scope'.commands) \subseteq Launches(scope.commands) \cup {Len(scope.commands) + 1}
      /\ UNCHANGED <<target, input, out, async>>
  BY SendSound DEF ThreadsIInv, User, gdbVars, options
<1>2. /\ Answers(out) = {} /\ Starts(out) = {}
      /\ Launches(scope.commands) = {} /\ Launches(input) = {}
  BY NotBusyIdle
<1>3. Live = {}
  <2>1. scope.count = 0
    BY DEF DebugState
  <2> QED
    BY <1>2, <2>1, NoRowNoThread
<1>4. Live' = Live /\ \A t : Now(t)' = Now(t)
  BY <1>1, NowKept
<1>5. Counts'
  BY <1>1 DEF InStep, Counts
<1>6. LaunchedOnce'
  BY <1>1, <1>2, <1>3, <1>4 DEF LaunchedOnce, Lone
<1>7. Accompanied(out, Known(scope))' /\ Together' /\ Retold'
  BY <1>1, <1>3, <1>4 DEF InStep, Together, Retold
<1>t. TargetShape'
  BY <1>1, NowKept DEF InStep
<1> QED
  BY <1>t, <1>5, <1>6, <1>7 DEF InStep

LEMMA SendCommandsInStep ==
  ASSUME ThreadsIInv, InStep, SendCommands
  PROVE  InStep'
<1> DEFINE n == Len(scope.commands)
           s == input \o scope.commands
<1>1. /\ input' = s /\ UNCHANGED <<target, out, async>>
      /\ scope' = [scope EXCEPT !.commands = <<>>, !.waitPrompt = TRUE, !.waitResult = @ + n]
  BY DEF SendCommands, options
<1>2. /\ IsSeq(scope.commands) /\ IsSeq(input) /\ n \in Nat /\ Len(input) \in Nat
      /\ scope.waitResult \in Nat /\ Shape(scope)
  BY SeqOver DEF ThreadsIInv, Sound, Typed, InStep, Counts
<1>3. /\ scope'.rows = scope.rows /\ scope'.commands = <<>> /\ scope'.waitPrompt = TRUE
      /\ scope'.waitResult = scope.waitResult + n
  <2> HIDE DEF n
  <2> QED
    BY <1>1, <1>2 DEF Shape, Fields
<1>4. Live' = Live /\ (\A t : Now(t)' = Now(t)) /\ Known(scope') = Known(scope)
  BY <1>1, <1>3, NowKept DEF Known
<1>5. IsSeq(s) /\ Len(s) = Len(input) + n
  BY <1>2, Joined
<1>6. Counts'
  <2>1. Cardinality(Answers(out)) \in Nat
    BY AtFinite DEF ThreadsIInv, Answers
  <2>2. scope.waitResult >= Len(input) + Cardinality(Answers(out))
    BY DEF InStep, Counts
  <2> HIDE DEF n, s
  <2> QED
    BY <1>1, <1>2, <1>3, <1>5, <2>1, <2>2 DEF Counts
<1>7. \A i \in Launches(s) : i \in Launches(input) \/ (i - Len(input) \in Launches(scope.commands) /\ i \in Nat)
  BY <1>2, AtMore DEF Launches
<1> HIDE DEF s
<1>8. Launches(scope'.commands) = {}
  BY <1>3, Single DEF Launches, At
<1>9. Lone(Launches(scope.commands), Launches(input), Starts(out))
  BY DEF InStep, LaunchedOnce
<1>10. \A i, j \in Launches(s) : i = j
  BY <1>2, <1>7, <1>9 DEF Lone
<1>11. Launches(s) # {} => Launches(scope.commands) \cup Launches(input) # {}
  BY <1>7
<1>12. LaunchedOnce'
  BY <1>1, <1>4, <1>8, <1>9, <1>10, <1>11 DEF InStep, LaunchedOnce, Lone
<1>13. Accompanied(out, Known(scope))' /\ Together' /\ Retold'
  BY <1>1, <1>3, <1>4 DEF InStep, Together, Retold
<1>t. TargetShape'
  BY <1>1, NowKept DEF InStep
<1> QED
  BY <1>t, <1>6, <1>12, <1>13 DEF InStep

LEMMA ReceiveInStep ==
  ASSUME ThreadsIInv, InStep, Receive
  PROVE  InStep'
<1> DEFINE r == Head(out)
           u == Tail(out)
<1>1. out # <<>> /\ out' = u /\ UNCHANGED <<target, input, async>>
  BY DEF Receive, options
<1>2. PICK Q : Read(scope, Q, r) /\ Awaits(scope, Q, r) /\ Keeps(Q, scope')
  BY ReceiveReads
<1>3. /\ IsSeq(out) /\ IsSeq(input) /\ scope.waitResult \in Nat /\ Len(input) \in Nat
      /\ Sound(scope) /\ PipeSound(out, Known(scope)) /\ Live = Alive(out, Known(scope))
  BY <1>1, SeqOver DEF ThreadsIInv, Sound, Typed, InStep, Counts, Told
<1>4. /\ Known(scope') = After(Known(scope), r) /\ scope'.rows = Q.rows
      /\ Launches(scope'.commands) \subseteq
           Launches(scope.commands) \cup (IF r.kind \in Launched THEN {Len(scope.commands) + 1} ELSE {})
      /\ scope'.waitResult = Q.waitResult /\ scope'.waitPrompt = Q.waitPrompt
  BY <1>2, KeepsSound DEF Read, Keeps, Asks
<1>5. Live' = Live /\ \A t : Now(t)' = Now(t)
  BY <1>1, NowKept
<1>6. Counts'
  <2> DEFINE a == Cardinality(Answers(out))
             b == Cardinality(Answers(u))
  <2>1. a \in Nat /\ b \in Nat /\ b <= a - (IF r.kind \in Results THEN 1 ELSE 0)
    BY <1>1, <1>3, AtFinite, AtTail, TailOf DEF Answers
  <2>2. scope.waitResult >= Len(input) + a /\ (scope.waitPrompt \/ scope.waitResult = 0)
    BY DEF InStep, Counts
  <2> HIDE DEF a, b, u
  <2>3. scope'.waitResult >= Len(input) + b /\ (scope'.waitPrompt \/ scope'.waitResult = 0)
    <3>1. CASE r.kind = "prompt"
      <4>1. r.kind \notin Results
        BY <3>1 DEF Results
      <4> DEFINE more == scope.waitResult > 0
      <4>2. scope'.waitResult = scope.waitResult /\ Q.waitPrompt = more
        BY <1>2, <1>4, <3>1 DEF Awaits
      <4>3. scope'.waitPrompt \/ ~more
        <5> HIDE DEF more
        <5> QED
          BY <1>4, <4>2, Zenon
      <4>4. scope.waitResult \in Nat
        BY <1>3
      <4>5. scope.waitResult >= Len(input) + b
        BY <1>1, <1>3, <2>1, <2>2, <4>1
      <4> QED
        BY <4>2, <4>3, <4>4, <4>5
    <3>2. CASE r.kind # "prompt"
      BY <1>2, <1>3, <1>4, <2>1, <2>2, <3>2 DEF Awaits
    <3> QED
      BY <3>1, <3>2
  <2> QED
    BY <1>1, <1>3, <2>3 DEF Counts, b
<1>7. LaunchedOnce'
  <2>1. /\ \A i \in Starts(u) : i \in Nat \ {0} /\ i + 1 \in Starts(out)
        /\ 1 \in Starts(out) <=> r.kind \in Launched
    BY <1>1, <1>3, AtTail DEF Starts
  <2>2. Lone(Launches(scope.commands), Launches(input), Starts(out))
    BY DEF InStep, LaunchedOnce
  <2>3. r.kind \in Launched => Starts(u) = {} /\ Launches(scope.commands) = {} /\ Launches(input) = {}
    <3>1. ASSUME r.kind \in Launched, NEW i \in Starts(u) PROVE FALSE
      <4>1. i + 1 = 1
        BY <2>1, <2>2, <3>1 DEF Lone
      <4> QED
        BY <2>1, <4>1
    <3> QED
      BY <2>1, <2>2, <3>1 DEF Lone
  <2>4. Lone(Launches(scope'.commands), Launches(input), Starts(u))
    <3>1. CASE r.kind \in Launched
      BY <1>4, <2>3, <3>1 DEF Lone
    <3>2. CASE r.kind \notin Launched
      <4>1. Launches(scope'.commands) \subseteq Launches(scope.commands)
        BY <1>4, <3>2
      <4>2. \A i, j \in Starts(u) : i = j
        BY <2>1, <2>2 DEF Lone
      <4>3. Starts(u) # {} => Starts(out) # {}
        BY <2>1
      <4> QED
        BY <2>2, <4>1, <4>2, <4>3 DEF Lone
    <3> QED
      BY <3>1, <3>2
  <2>5. Launches(scope'.commands) \cup Launches(input) \cup Starts(u) # {}
          => Launches(scope.commands) \cup Launches(input) \cup Starts(out) # {}
    BY <1>4, <2>1
  <2> QED
    BY <1>1, <1>5, <2>4, <2>5 DEF InStep, LaunchedOnce
<1>8. Accompanied(out, Known(scope))'
  BY <1>1, <1>3, <1>4, AccompaniedTail DEF InStep
<1>9. Together'
  BY <1>1, <1>5 DEF InStep, Together
<1>10. Retold'
  <2>1. SUFFICES ASSUME NEW t \in Live PROVE ToldLast(u, Q.rows, t, Now(t))
    BY <1>1, <1>4, <1>5 DEF Retold
  <2>2. ToldLast(out, scope.rows, t, Now(t))
    BY DEF InStep, Retold
  <2> QED
    BY <1>1, <1>2, <1>3, <2>2, LastOfTail
<1>t. TargetShape'
  BY <1>1, NowKept DEF InStep
<1> QED
  BY <1>t, <1>6, <1>7, <1>8, <1>9, <1>10 DEF InStep

-------------------------------------------------------------------------------
(* GDB's steps                                                               *)

(* The records of x neither tell of t nor create it.                         *)
Spares(x, t) == \A j \in 1..Len(x) : ~Tells(x[j], t) /\ ~(x[j].kind = "created" /\ x[j].thread = t)

(* The last that x tells of t is state.                                      *)
LastTells(x, t, state) ==
  \E i \in 1..Len(x) :
    /\ Tells(x[i], t) /\ Says(x[i], t) = state
    /\ \A j \in (i + 1)..Len(x) : ~Tells(x[j], t) /\ ~(x[j].kind = "created" /\ x[j].thread = t)

LEMMA PromptOrNone ==
  ASSUME NEW y \in {<<>>, <<Prompt>>}
  PROVE  /\ IsSeq(y) /\ Answers(y) = {} /\ Starts(y) = {}
         /\ \A t : Spares(y, t)
         /\ \A i \in 1..Len(y) : y[i].kind = "prompt"
<1>1. IsSeq(y) /\ \A i \in 1..Len(y) : y[i].kind = "prompt"
  <2>1. Prompt.kind = "prompt"
    BY DEF Prompt, Record
  <2>2. CASE y = <<>>
    <3>1. IsSeq(y) /\ Len(y) = 0
      BY <2>2, Single
    <3>2. \A i \in 1..0 : FALSE
      OBVIOUS
    <3> QED
      BY <3>1, <3>2
  <2>3. CASE y = <<Prompt>>
    <3>1. IsSeq(y) /\ Len(y) = 1 /\ y[1] = Prompt
      BY <2>3, Single
    <3>2. \A i \in 1..1 : i = 1
      OBVIOUS
    <3> QED
      BY <2>1, <3>1, <3>2
  <2> QED
    BY <2>2, <2>3
<1> QED
  BY <1>1 DEF Answers, Starts, At, Results, Launched, Spares, Tells

(* A step of the program's, that answers no command                          *)
Untouched(x) == input' = input /\ Answers(x) = {} /\ Starts(x) = {} /\ (Live = {} => Live' = {})

(* One command is taken and answered at most once.                           *)
Taken(x) ==
  /\ input # <<>> /\ input' = Tail(input)
  /\ \E k : Answers(x) \subseteq {k}
  /\ Starts(x) # {} => Starts(x) = {1} /\ Head(input).name \in Launching
  /\ Live = {} => Live' = {} \/ (Head(input).name = "run" /\ Starts(x) = {})

LEMMA TakenLaunchedOnce ==
  ASSUME ThreadsIInv, InStep, scope' = scope, NEW x, IsSeq(x), Untouched(x) \/ Taken(x),
         NEW later, later \subseteq {i \in Nat : i \in Starts(out) \/ i - Len(out) \in Starts(x)}
  PROVE  /\ Lone(Launches(scope.commands), Launches(input'), later)
         /\ Launches(scope.commands) \cup Launches(input') \cup later # {} => Live' = {}
<1>1. /\ Lone(Launches(scope.commands), Launches(input), Starts(out))
      /\ Launches(scope.commands) \cup Launches(input) \cup Starts(out) # {} => Live = {}
  BY DEF InStep, LaunchedOnce
<1>2. CASE Untouched(x)
  <2>1. later \subseteq Starts(out) /\ input' = input /\ (Live = {} => Live' = {})
    BY <1>2 DEF Untouched
  <2> QED
    BY <1>1, <2>1 DEF Lone
<1>3. CASE Taken(x)
  <2>1. IsSeq(input) /\ IsSeq(out) /\ Len(out) \in Nat
    BY SeqOver DEF ThreadsIInv, InStep, Counts
  <2>2. /\ \A i \in Launches(input') : i \in Nat \ {0} /\ i + 1 \in Launches(input)
        /\ 1 \in Launches(input) <=> Head(input).name \in Launching
    BY <1>3, <2>1, AtTail DEF Taken, Launches
  <2>3. CASE Head(input).name \in Launching
    <3>1. 1 \in Launches(input)
      BY <2>2, <2>3
    <3>2. Launches(scope.commands) = {} /\ Starts(out) = {} /\ Live = {}
      BY <1>1, <3>1 DEF Lone
    <3>3. Launches(input') = {}
      <4>1. ASSUME NEW i \in Launches(input') PROVE FALSE
        <5>1. i \in Nat \ {0} /\ i + 1 \in Launches(input)
          BY <2>2
        <5>2. i + 1 = 1
          BY <1>1, <3>1, <5>1 DEF Lone
        <5> QED
          BY <5>1, <5>2
      <4> QED
        BY <4>1
    <3>4. \A i, j \in later : i = j
      BY <1>3, <2>1, <3>2 DEF Taken
    <3>5. later # {} => Live' = {}
      BY <1>3, <3>2 DEF Taken
    <3> QED
      BY <3>2, <3>3, <3>4, <3>5 DEF Lone
  <2>4. CASE Head(input).name \notin Launching
    <3>1. Starts(x) = {}
      BY <1>3, <2>4 DEF Taken
    <3>2. later \subseteq Starts(out)
      BY <3>1
    <3>3. \A i, j \in Launches(input') : i = j
      BY <1>1, <2>2 DEF Lone
    <3>4. Launches(input') # {} => Launches(input) # {}
      BY <2>2
    <3>5. Live = {} => Live' = {}
      BY <1>3, <2>4 DEF Taken, Launching
    <3> QED
      BY <1>1, <3>2, <3>3, <3>4, <3>5 DEF Lone
  <2> QED
    BY <2>3, <2>4
<1> QED
  BY <1>2, <1>3

LEMMA TakenCounts ==
  ASSUME ThreadsIInv, InStep, NEW x, IsSeq(x), Untouched(x) \/ Taken(x)
  PROVE  /\ IsSeq(input')
         /\ scope.waitResult >= Len(input') + Cardinality(Answers(out)) + Cardinality(Answers(x))
<1>1. /\ IsSeq(input) /\ Len(input) \in Nat /\ scope.waitResult \in Nat
      /\ scope.waitResult >= Len(input) + Cardinality(Answers(out))
      /\ Cardinality(Answers(out)) \in Nat /\ Cardinality(Answers(x)) \in Nat
  BY SeqOver, AtFinite DEF ThreadsIInv, Sound, Typed, InStep, Counts, Answers
<1>2. CASE Untouched(x)
  <2>1. input' = input /\ Cardinality(Answers(x)) = 0
    BY <1>2, FS_EmptySet DEF Untouched
  <2> QED
    BY <1>1, <2>1
<1>3. CASE Taken(x)
  <2>1. IsSeq(input') /\ Len(input') = Len(input) - 1
    BY <1>1, <1>3, TailOf DEF Taken
  <2>2. Cardinality(Answers(x)) <= 1
    BY <1>3, AtOne DEF Taken
  <2> QED
    BY <1>1, <2>1, <2>2
<1> QED
  BY <1>2, <1>3

(* x is written, and perhaps a prompt.                                       *)
LEMMA GdbInStep ==
  ASSUME ThreadsIInv, InStep, scope.gdb = "ACTIVE", scope' = scope,
         NEW x, IsSeq(x), NEW y \in {<<>>, <<Prompt>>}, out' = out \o x \o y,
         Untouched(x) \/ Taken(x), TargetShape', Together',
         \A i \in 1..Len(x) : x[i].kind = "created" =>
           \/ i < Len(x) /\ x[i + 1].kind = "done"
           \/ i = 1 /\ Live # {},
         \A t \in Live' : \/ t \in Live /\ Now(t)' = Now(t) /\ Spares(x, t)
                          \/ LastTells(x, t, Now(t)')
  PROVE  InStep'
<1> DEFINE u == out \o x
           known == Known(scope)
<1>1. /\ IsSeq(out) /\ Live = Alive(out, known)
      /\ IsSeq(y) /\ Answers(y) = {} /\ Starts(y) = {}
      /\ (\A t : Spares(y, t)) /\ \A i \in 1..Len(y) : y[i].kind = "prompt"
  BY PromptOrNone DEF ThreadsIInv, Told
<1>2. IsSeq(u) /\ Len(out) \in Nat /\ Len(u) \in Nat
  BY <1>1, Joined, SeqOver
<1>3. /\ \A i \in Starts(u) : i \in Starts(out) \/ (i - Len(out) \in Starts(x) /\ i \in Nat)
      /\ Cardinality(Answers(u)) <= Cardinality(Answers(out)) + Cardinality(Answers(x))
  BY <1>1, AtMore DEF Starts, Answers
<1>4. /\ Accompanied(u, known)
      /\ \A t \in Live' : ToldLast(u, scope.rows, t, Now(t)')
  <2>1. Accompanied(u, known)
    BY <1>1, AccompaniedMore DEF InStep
  <2>2. ASSUME NEW t \in Live' PROVE ToldLast(u, scope.rows, t, Now(t)')
    <3>1. CASE t \in Live /\ Now(t)' = Now(t) /\ Spares(x, t)
      <4>1. ToldLast(out, scope.rows, t, Now(t)')
        BY <3>1 DEF InStep, Retold
      <4> DEFINE state == Now(t)'
      <4> HIDE DEF state
      <4>2. ToldLast(out, scope.rows, t, state) /\ Spares(x, t)
        BY <3>1, <4>1 DEF state
      <4>3. ToldLast(u, scope.rows, t, state)
        BY <1>1, <4>2, LastOfMore DEF Spares
      <4> QED
        BY <4>3 DEF state
    <3>2. CASE LastTells(x, t, Now(t)')
      <4> DEFINE state == Now(t)'
      <4> HIDE DEF state
      <4>1. LastTells(x, t, state)
        BY <3>2 DEF state
      <4>2. ToldLast(u, scope.rows, t, state)
        BY <1>1, <4>1, LastOfMore DEF LastTells
      <4> QED
        BY <4>2 DEF state
    <3> QED
      BY <3>1, <3>2
  <2> QED
    BY <2>1, <2>2
<1> HIDE DEF u
<1>5. out' = u \o y
  BY DEF u
<1>6. Starts(out') = Starts(u) /\ Answers(out') = Answers(u)
  BY <1>1, <1>2, <1>5, AtMore DEF Starts, Answers
<1>7. Counts'
  <2>1. /\ IsSeq(input') /\ Len(input') \in Nat
        /\ scope.waitResult >= Len(input') + Cardinality(Answers(out)) + Cardinality(Answers(x))
    BY TakenCounts, SeqOver
  <2>2. /\ Cardinality(Answers(out)) \in Nat /\ Cardinality(Answers(x)) \in Nat
        /\ Cardinality(Answers(u)) \in Nat /\ scope.waitResult \in Nat
    BY <1>1, <1>2, AtFinite DEF Answers, ThreadsIInv, Sound, Typed
  <2>3. scope.waitResult >= Len(input') + Cardinality(Answers(u))
    BY <1>3, <2>1, <2>2
  <2>4. scope.waitPrompt \/ scope.waitResult = 0
    BY DEF InStep, Counts
  <2> QED
    BY <1>6, <2>1, <2>3, <2>4 DEF Counts
<1>8. LaunchedOnce'
  <2>1. Starts(u) \subseteq {i \in Nat : i \in Starts(out) \/ i - Len(out) \in Starts(x)}
    BY <1>2, <1>3 DEF Starts, At
  <2> DEFINE later == Starts(u)
  <2> HIDE DEF later
  <2>2. later \subseteq {i \in Nat : i \in Starts(out) \/ i - Len(out) \in Starts(x)}
    BY <2>1 DEF later
  <2>3. /\ Lone(Launches(scope.commands), Launches(input'), later)
        /\ Launches(scope.commands) \cup Launches(input') \cup later # {} => Live' = {}
    BY <2>2, TakenLaunchedOnce
  <2> QED
    BY <1>6, <2>3 DEF LaunchedOnce, later
<1>9. Accompanied(out', known)
  <2>1. \A i \in 1..Len(y) : y[i].kind # "created"
    BY <1>1
  <2> QED
    BY <1>1, <1>2, <1>4, <1>5, <2>1, AccompaniedMore
<1>10. ASSUME NEW t \in Live' PROVE ToldLast(out', scope.rows, t, Now(t)')
  <2> DEFINE state == Now(t)'
  <2> HIDE DEF state
  <2>1. ToldLast(u, scope.rows, t, state) /\ Spares(y, t)
    BY <1>1, <1>4 DEF state
  <2>2. ToldLast(u \o y, scope.rows, t, state)
    BY <1>1, <1>2, <2>1, LastOfMore DEF Spares
  <2> QED
    BY <1>5, <2>2 DEF state
<1> QED
  BY <1>7, <1>8, <1>9, <1>10 DEF InStep, Retold

LEMMA ExitsPlain ==
  ASSUME NEW ts, IsFiniteSet(ts), NEW x \in Exits(ts)
  PROVE  IsSeq(x) /\ \A i \in 1..Len(x) : x[i].kind = "exited"
<1> DEFINE n == Cardinality(ts)
<1>1. PICK order \in SetToSeqs(ts) : x = [i \in 1..n |-> Record("exited", order[i], NULL)]
  BY DEF Exits
<1>2. n \in Nat
  BY FS_CardinalityType
<1> HIDE DEF n
<1>3. Len(x) = n
  BY <1>1, <1>2
<1>4. Len(x) \in Nat /\ x = [i \in 1..Len(x) |-> x[i]]
  BY <1>1, <1>2, <1>3
<1>5. \A i \in 1..n : x[i].kind = "exited"
  BY <1>1 DEF Record
<1> QED
  BY <1>3, <1>4, <1>5, SeqOver

(* A command that changes no thread, answered in one record                  *)
LEMMA AnsweredInStep ==
  ASSUME ThreadsIInv, InStep, scope.gdb = "ACTIVE", UNCHANGED <<scope, async, target>>,
         input # <<>>, input' = Tail(input),
         NEW kind \in Results, NEW thread, NEW data, NEW y \in {<<>>, <<Prompt>>},
         out' = out \o <<Record(kind, thread, data)>> \o y,
         kind \in Launched => Head(input).name \in Launching,
         kind = "frame" => IsStopped(thread),
         kind = "threads" => \A t \in DOMAIN data : data[t] = target[t].running
  PROVE  InStep'
<1> DEFINE r == Record(kind, thread, data)
           x == <<r>>
<1>1. r.kind = kind /\ r.thread = thread /\ r.data = data
  BY DEF Record
<1>2. out' = out \o x \o y
  OBVIOUS
<1> HIDE DEF r
<1>3. IsSeq(x) /\ Len(x) = 1 /\ x[1] = r /\ \A i \in 1..1 : i = 1
  BY Single
<1> HIDE DEF x
<1>4. Live' = Live /\ (\A t : Now(t)' = Now(t)) /\ TargetShape'
  BY NowKept DEF InStep
<1>5. Taken(x)
  <2>1. Answers(x) \subseteq {1} /\ Starts(x) \subseteq {1}
    BY <1>3 DEF Answers, Starts, At
  <2>2. Starts(x) # {} => kind \in Launched
    BY <1>1, <1>3 DEF Starts, At
  <2> QED
    BY <1>4, <2>1, <2>2 DEF Taken
<1>6. Together'
  BY <1>4 DEF InStep, Together
<1>7. \A i \in 1..Len(x) : x[i].kind # "created"
  BY <1>1, <1>3 DEF Results
<1>8. ASSUME NEW t \in Live' PROVE (t \in Live /\ Now(t)' = Now(t) /\ Spares(x, t)) \/ LastTells(x, t, Now(t)')
  <2> DEFINE state == Now(t)'
  <2>1. t \in Live /\ state = Now(t)
    BY <1>4, <1>8
  <2> HIDE DEF state
  <2>2. CASE Tells(r, t)
    <3>1. kind = "frame" \/ kind = "threads"
      BY <1>1, <2>2 DEF Tells, Results
    <3>2. ASSUME kind = "frame" PROVE Says(r, t) = state
      <4>1. t = thread /\ ~target[t].running /\ r.kind = "frame"
        BY <1>1, <2>2, <3>2 DEF Tells, IsStopped
      <4>2. Says(r, t) = "Stopped"
        BY <4>1 DEF Says
      <4>3. Now(t) = "Stopped"
        BY <4>1, Zenon DEF Now
      <4> QED
        BY <2>1, <4>2, <4>3
    <3>3. ASSUME kind = "threads" PROVE Says(r, t) = state
      <4>1. r.kind = "threads" /\ t \in DOMAIN data /\ r.data[t] = target[t].running
        BY <1>1, <2>2, <3>3 DEF Tells
      <4>2. ASSUME target[t].running PROVE Says(r, t) = state
        <5>1. r.data[t]
          BY <4>1, <4>2, Zenon
        <5> QED
          BY <2>1, <4>1, <4>2, <5>1, Zenon DEF Says, Now
      <4>3. ASSUME ~target[t].running PROVE Says(r, t) = state
        <5>1. ~r.data[t] /\ r.kind # "running"
          BY <4>1, <4>3, Zenon
        <5> QED
          BY <2>1, <4>1, <4>3, <5>1, Zenon DEF Says, Now
      <4> QED
        BY <4>2, <4>3
    <3>s. Says(r, t) = state
      BY <3>1, <3>2, <3>3
    <3>4. LastTells(x, t, state)
      BY <1>3, <2>2, <3>s DEF LastTells
    <3> QED
      BY <3>4 DEF state
  <2>3. CASE ~Tells(r, t)
    BY <1>1, <1>3, <2>1, <2>3 DEF Spares, Results, state
  <2> QED
    BY <2>2, <2>3 DEF state
<1> QED
  BY <1>2, <1>3, <1>4, <1>5, <1>6, <1>7, <1>8, GdbInStep

(* "run": the first thread                                                   *)
LEMMA RunsInStep ==
  ASSUME ThreadsIInv, InStep, scope.gdb = "ACTIVE", UNCHANGED <<scope, async>>,
         input # <<>>, input' = Tail(input), Head(input).name = "run",
         target' = WithThread(created + 1), NEW y \in {<<>>, <<Prompt>>},
         out' = out \o <<Record("created", created + 1, NULL), Record("done", NULL, NULL),
                         Record("running", NULL, Live \cup {created + 1})>> \o y
  PROVE  InStep'
<1> DEFINE a == Record("created", created + 1, NULL)
           b == Record("done", NULL, NULL)
           d == Record("running", NULL, Live \cup {created + 1})
           x == <<a, b, d>>
<1>1. /\ a.kind = "created" /\ a.thread = created + 1 /\ b.kind = "done"
      /\ d.kind = "running" /\ d.data = Live \cup {created + 1}
  BY DEF Record
<1>2. out' = out \o x \o y
  OBVIOUS
<1> HIDE DEF a, b, d
<1>3. /\ IsSeq(x) /\ Len(x) = 3 /\ x[1] = a /\ x[2] = b /\ x[3] = d
      /\ \A i \in 1..3 : i \in {1, 2, 3}
  BY Triple
<1> HIDE DEF x
<1>4. Live = {}
  <2>1. 1 \in Launches(input)
    BY AtTail DEF InStep, Counts, Launches, Launching
  <2> QED
    BY <2>1 DEF InStep, LaunchedOnce
<1>5. Live' = {created + 1} /\ TargetShape' /\ \A t \in Live' : target'[t].running
  BY <1>4 DEF Live, WithThread, TargetShape
<1>6. Answers(x) \subseteq {2} /\ Starts(x) = {}
  BY <1>1, <1>3 DEF Answers, Starts, At, Results, Launched
<1>7. Taken(x)
  BY <1>4, <1>6 DEF Taken
<1>8. Together'
  BY <1>5 DEF Together
<1>9. \A i \in 1..Len(x) : x[i].kind = "created" => i < Len(x) /\ x[i + 1].kind = "done"
  BY <1>1, <1>3
<1>10. ASSUME NEW t \in Live' PROVE LastTells(x, t, Now(t)')
  <2>1. Now(t)' = "Running"
    BY <1>5, <1>10, Zenon DEF Now
  <2>2. t = created + 1
    BY <1>5, <1>10
  <2>3. Tells(x[3], t) /\ Says(x[3], t) = "Running"
    BY <1>1, <1>3, <2>2 DEF Tells, Says
  <2>4. 3 \in 1..Len(x) /\ \A j \in (3 + 1)..Len(x) : FALSE
    BY <1>3
  <2> QED
    BY <2>1, <2>3, <2>4 DEF LastTells
<1> QED
  BY <1>2, <1>3, <1>5, <1>7, <1>8, <1>9, <1>10, GdbInStep

(* "continue": one thread runs, or all.                                      *)
LEMMA ContinuesInStep ==
  ASSUME ThreadsIInv, InStep, scope.gdb = "ACTIVE", UNCHANGED <<scope, async>>,
         input # <<>>, input' = Tail(input), NEW t, IsStopped(t),
         target' = Runs(Resumed(t)), NEW y \in {<<>>, <<Prompt>>},
         out' = out \o <<Record("done", NULL, NULL), Record("running", NULL, Resumed(t))>> \o y
  PROVE  InStep'
<1> DEFINE a == Record("done", NULL, NULL)
           b == Record("running", NULL, Resumed(t))
           x == <<a, b>>
<1>1. a.kind = "done" /\ b.kind = "running" /\ b.data = Resumed(t)
  BY DEF Record
<1>2. out' = out \o x \o y
  OBVIOUS
<1> HIDE DEF a, b
<1>3. /\ IsSeq(x) /\ Len(x) = 2 /\ x[1] = a /\ x[2] = b
      /\ \A i \in 1..2 : i \in {1, 2}
  BY Pair
<1> HIDE DEF x
<1>4. /\ Live' = Live /\ target' = [u \in Live |-> target'[u]]
      /\ \A u \in Live \cap Resumed(t) :
           target'[u] = [running |-> TRUE, stop |-> target[u].stop, depth |-> target[u].depth]
      /\ \A u \in Live \ Resumed(t) : target'[u] = target[u]
  <2>1. target' = [u \in Live |-> IF u \in Resumed(t) THEN [target[u] EXCEPT !.running = TRUE]
                                 ELSE target[u]]
    BY DEF Runs
  <2>2. Live' = Live /\ target' = [u \in Live |-> target'[u]]
    BY <2>1 DEF Live
  <2>3. ASSUME NEW u \in Live \cap Resumed(t)
        PROVE  target'[u] = [running |-> TRUE, stop |-> target[u].stop, depth |-> target[u].depth]
    <3>1. target[u] = [running |-> target[u].running, stop |-> target[u].stop,
                       depth |-> target[u].depth]
      BY DEF InStep, TargetShape
    <3>2. target'[u] = [target[u] EXCEPT !.running = TRUE]
      BY <2>1
    <3> QED
      BY <3>1, <3>2
  <2> QED
    BY <2>1, <2>2, <2>3
<1>5. \A u \in Resumed(t) \cap Live : Now(u)' = "Running"
  <2> SUFFICES ASSUME NEW u \in Resumed(t) \cap Live PROVE Now(u)' = "Running"
    OBVIOUS
  <2>1. target'[u].running
    BY <1>4
  <2> QED
    BY <2>1 DEF Now
<1>6. \A u \in Live \ Resumed(t) : Now(u)' = Now(u)
  BY <1>4 DEF Now
<1>7. Answers(x) \subseteq {1} /\ Starts(x) = {}
  BY <1>1, <1>3 DEF Answers, Starts, At, Results, Launched
<1>8. Taken(x)
  BY <1>4, <1>7 DEF Taken
<1>9. TargetShape' /\ Together'
  <2>1. ASSUME NEW u \in Live'
        PROVE  target'[u] = [running |-> target'[u].running, stop |-> target'[u].stop,
                             depth |-> target'[u].depth]
    <3>1. CASE u \in Resumed(t)
      <4> DEFINE r == target'[u]
      <4>1. r = [running |-> TRUE, stop |-> target[u].stop, depth |-> target[u].depth]
        BY <1>4, <2>1, <3>1
      <4> HIDE DEF r
      <4> QED
        BY <4>1 DEF r
    <3>2. CASE u \notin Resumed(t)
      <4>1. u \in Live /\ target'[u] = target[u]
        BY <1>4, <2>1, <3>2
      <4> QED
        BY <4>1, Zenon DEF InStep, TargetShape
    <3> QED
      BY <3>1, <3>2
  <2>2. async' = async /\ (~async => Resumed(t) = Live)
    BY DEF Resumed
  <2>3. ASSUME ~async, NEW u \in Live' PROVE target'[u].running = TRUE
    <3>1. target'[u] = [running |-> TRUE, stop |-> target[u].stop, depth |-> target[u].depth]
      BY <1>4, <2>2, <2>3
    <3> QED
      BY <3>1
  <2>4. Together'
    <3>1. SUFFICES ASSUME ~async, NEW u \in Live', NEW v \in Live'
                   PROVE  target'[u].running = target'[v].running
      BY <2>2 DEF Together
    <3>2. target'[u].running = TRUE /\ target'[v].running = TRUE
      BY <2>3, <3>1, Zenon
    <3> QED
      BY <3>2, Zenon
  <2>5. TargetShape'
    BY <2>1, Zenon DEF TargetShape
  <2> QED
    BY <2>4, <2>5
<1>10. \A i \in 1..Len(x) : x[i].kind # "created"
  BY <1>1, <1>3
<1>11. ASSUME NEW u \in Live'
       PROVE  (u \in Live /\ Now(u)' = Now(u) /\ Spares(x, u)) \/ LastTells(x, u, Now(u)')
  <2>1. CASE u \in Resumed(t)
    <3>1. Now(u)' = "Running"
      BY <1>4, <1>5, <2>1
    <3>2. Tells(x[2], u) /\ Says(x[2], u) = "Running"
      BY <1>1, <1>3, <2>1 DEF Tells, Says
    <3>3. 2 \in 1..Len(x) /\ \A j \in (2 + 1)..Len(x) : FALSE
      BY <1>3
    <3> QED
      BY <3>1, <3>2, <3>3 DEF LastTells
  <2>2. CASE u \notin Resumed(t)
    <3>1. u \in Live /\ Now(u)' = Now(u)
      BY <1>4, <1>6, <2>2
    <3>2. Spares(x, u)
      BY <1>1, <1>3, <2>2 DEF Spares, Tells
    <3> QED
      BY <3>1, <3>2
  <2> QED
    BY <2>1, <2>2
<1> QED
  BY <1>2, <1>3, <1>8, <1>9, <1>10, <1>11, GdbInStep

(* "kill": every thread goes.                                                *)
LEMMA KillsInStep ==
  ASSUME ThreadsIInv, InStep, scope.gdb = "ACTIVE", UNCHANGED <<scope, async>>,
         input # <<>>, input' = Tail(input), NEW exits \in Exits(Live), Live' = {},
         NEW y \in {<<>>, <<Prompt>>},
         out' = out \o (exits \o <<Record("done", NULL, NULL)>>) \o y
  PROVE  InStep'
<1> DEFINE a == Record("done", NULL, NULL)
           last == <<a>>
           x == exits \o last
<1>1. a.kind = "done"
  BY DEF Record
<1>2. out' = out \o x \o y
  OBVIOUS
<1>3. IsFiniteSet(Live)
  BY ToldFinite DEF ThreadsIInv
<1>4. IsSeq(exits) /\ \A i \in 1..Len(exits) : exits[i].kind = "exited"
  BY <1>3, ExitsPlain
<1> HIDE DEF a
<1>5. IsSeq(last) /\ Len(last) = 1 /\ last[1] = a
  BY Single
<1> HIDE DEF last
<1> DEFINE n == Len(exits)
<1>6. /\ IsSeq(x) /\ Len(x) = n + 1 /\ n \in Nat
      /\ \A i \in 1..n : x[i].kind = "exited"
      /\ x[n + 1].kind = "done"
  <2>1. /\ IsSeq(x) /\ Len(x) = n + Len(last) /\ n \in Nat
        /\ \A i \in 1..(n + Len(last)) : x[i] = IF i <= n THEN exits[i] ELSE last[i - n]
    BY <1>4, <1>5, Joined, SeqOver
  <2> HIDE DEF x, n
  <2>2. ASSUME NEW i \in 1..n PROVE x[i] = exits[i]
    BY <1>5, <2>1
  <2>3. x[n + 1] = last[1]
    BY <1>5, <2>1
  <2> QED
    BY <1>1, <1>4, <1>5, <2>1, <2>2, <2>3 DEF n
<1> HIDE DEF x, n
<1>7. \A i \in 1..Len(x) : i = n + 1 \/ x[i].kind = "exited"
  BY <1>6
<1>8. Answers(x) \subseteq {n + 1} /\ Starts(x) = {}
  BY <1>6, <1>7 DEF Answers, Starts, At, Results, Launched
<1>9. Taken(x)
  BY <1>8 DEF Taken
<1>10. TargetShape' /\ Together'
  BY DEF TargetShape, Together
<1>11. \A i \in 1..Len(x) : x[i].kind # "created"
  BY <1>6, <1>7
<1> QED
  BY <1>2, <1>6, <1>9, <1>10, <1>11, GdbInStep

LEMMA GdbExecutesInStep ==
  ASSUME ThreadsIInv, InStep, scope.gdb = "ACTIVE", GdbExecutes
  PROVE  InStep'
<1> DEFINE c == Head(input)
           t == c.thread
           ends == IF c.name = "exit" THEN <<>> ELSE <<Prompt>>
<1>1. input # <<>> /\ input' = Tail(input) /\ scope' = scope /\ async' = async
  BY DEF GdbExecutes, options
<1>2. ends \in {<<>>, <<Prompt>>}
  OBVIOUS
<1>3. ASSUME NEW kind \in Results, NEW thread, NEW data,
             Answer(c, target, <<Record(kind, thread, data)>>),
             kind \in Launched => c.name \in Launching,
             kind = "frame" => IsStopped(thread),
             kind = "threads" => \A u \in DOMAIN data : data[u] = target[u].running
      PROVE  InStep'
  <2>1. target' = target /\ out' = out \o <<Record(kind, thread, data)>> \o ends
    BY <1>3 DEF Answer
  <2> HIDE DEF ends
  <2> QED
    BY <1>1, <1>2, <1>3, <2>1, AnsweredInStep
<1>4. ASSUME c.name = "run",
             Answer(c, WithThread(created + 1),
                    <<Record("created", created + 1, NULL), Record("done", NULL, NULL),
                      Record("running", NULL, Live \cup {created + 1})>>)
      PROVE  InStep'
  <2>1. /\ target' = WithThread(created + 1)
        /\ out' = out \o <<Record("created", created + 1, NULL), Record("done", NULL, NULL),
                           Record("running", NULL, Live \cup {created + 1})>> \o ends
    BY <1>4 DEF Answer
  <2> HIDE DEF ends
  <2> QED
    BY <1>1, <1>2, <1>4, <2>1, RunsInStep
<1>5. ASSUME IsStopped(t),
             Answer(c, Runs(Resumed(t)),
                    <<Record("done", NULL, NULL), Record("running", NULL, Resumed(t))>>)
      PROVE  InStep'
  <2>1. /\ target' = Runs(Resumed(t))
        /\ out' = out \o <<Record("done", NULL, NULL), Record("running", NULL, Resumed(t))>> \o ends
    BY <1>5 DEF Answer
  <2> HIDE DEF ends, t
  <2> QED
    BY <1>1, <1>2, <1>5, <2>1, ContinuesInStep
<1>6. ASSUME NEW exits \in Exits(Live),
             Answer(c, [u \in {} |-> NULL], exits \o <<Record("done", NULL, NULL)>>)
      PROVE  InStep'
  <2>1. Live' = {} /\ out' = out \o (exits \o <<Record("done", NULL, NULL)>>) \o ends
    BY <1>6 DEF Answer, Live
  <2> HIDE DEF ends
  <2> QED
    BY <1>1, <1>2, <2>1, KillsInStep
<1>7. \/ \E kind \in Results \ {"frame", "threads"} : \E thread, data :
            /\ kind \in Launched => c.name \in Launching
            /\ Answer(c, target, <<Record(kind, thread, data)>>)
      \/ /\ c.name = "run"
         /\ Answer(c, WithThread(created + 1),
                   <<Record("created", created + 1, NULL), Record("done", NULL, NULL),
                     Record("running", NULL, Live \cup {created + 1})>>)
      \/ /\ IsStopped(t)
         /\ Answer(c, Runs(Resumed(t)),
                   <<Record("done", NULL, NULL), Record("running", NULL, Resumed(t))>>)
      \/ \E exits \in Exits(Live) :
           Answer(c, [u \in {} |-> NULL], exits \o <<Record("done", NULL, NULL)>>)
      \/ \E ts \in SUBSET Live : \E thread :
           Answer(c, target, <<Record("threads", thread, States(ts))>>)
      \/ IsStopped(t) /\ Answer(c, target, <<Record("frame", t, NULL)>>)
  BY DEF GdbExecutes, Results, Launched, Launching
<1>8. ASSUME NEW ts \in SUBSET Live, NEW thread,
             Answer(c, target, <<Record("threads", thread, States(ts))>>)
      PROVE  InStep'
  <2>1. \A u \in DOMAIN States(ts) : States(ts)[u] = target[u].running
    BY DEF States
  <2>2. "threads" \in Results /\ "threads" \notin Launched
    BY DEF Results, Launched
  <2> HIDE DEF c
  <2> QED
    BY <1>3, <1>8, <2>1, <2>2
<1>9. ASSUME IsStopped(t), Answer(c, target, <<Record("frame", t, NULL)>>)
      PROVE  InStep'
  <2>1. "frame" \in Results /\ "frame" \notin Launched
    BY DEF Results, Launched
  <2> HIDE DEF c
  <2> QED
    BY <1>3, <1>9, <2>1
<1> HIDE DEF c, t
<1> QED
  BY <1>3, <1>4, <1>5, <1>6, <1>7, <1>8, <1>9

LEMMA TargetStopsInStep ==
  ASSUME ThreadsIInv, InStep, scope.gdb = "ACTIVE", TargetStops
  PROVE  InStep'
<1>1. PICK t \in Live, d \in 1..Depth :
        LET ts == IF async THEN {t} ELSE Live IN
        /\ target' = [u \in Live |->
                        IF u = t THEN [running |-> FALSE, stop |-> stops + 1, depth |-> d]
                        ELSE IF u \in ts THEN [running |-> FALSE, stop |-> stops + 1, depth |-> 1]
                        ELSE target[u]]
        /\ out' = out \o <<Record("stopped", t, ts)>> \o (IF async THEN <<>> ELSE <<Prompt>>)
  BY DEF TargetStops
<1> DEFINE ts == IF async THEN {t} ELSE Live
           r == Record("stopped", t, ts)
           x == <<r>>
           y == IF async THEN <<>> ELSE <<Prompt>>
<1>2. /\ scope' = scope /\ input' = input /\ async' = async
      /\ out' = out \o x \o y /\ y \in {<<>>, <<Prompt>>}
  BY <1>1 DEF TargetStops, options
<1>3. r.kind = "stopped" /\ r.thread = t /\ r.data = ts
  BY DEF Record
<1> HIDE DEF r
<1>4. IsSeq(x) /\ Len(x) = 1 /\ x[1] = r /\ \A i \in 1..1 : i = 1
  BY Single
<1>5. /\ Live' = Live /\ t \in ts
      /\ \A u \in Live \cap ts : \E s, e : target'[u] = [running |-> FALSE, stop |-> s, depth |-> e]
      /\ \A u \in Live \ ts : target'[u] = target[u]
      /\ ~async => ts = Live
  BY <1>1 DEF Live
<1> HIDE DEF x, y, ts
<1>6. ASSUME NEW u \in Live'
      PROVE  target'[u] = [running |-> target'[u].running, stop |-> target'[u].stop,
                           depth |-> target'[u].depth]
  <2>1. CASE u \in ts
    <3>1. PICK s, e : target'[u] = [running |-> FALSE, stop |-> s, depth |-> e]
      BY <1>5, <1>6, <2>1
    <3> QED
      BY <3>1
  <2>2. CASE u \notin ts
    <3>1. u \in Live /\ target'[u] = target[u]
      BY <1>5, <1>6, <2>2
    <3> QED
      BY <3>1, Zenon DEF InStep, TargetShape
  <2> QED
    BY <2>1, <2>2
<1>7. TargetShape'
  BY <1>6, Zenon DEF TargetShape
<1>8. \A u \in Live \cap ts : target'[u].running = FALSE
  <2> SUFFICES ASSUME NEW u \in Live \cap ts PROVE target'[u].running = FALSE
    OBVIOUS
  <2>1. PICK s, e : target'[u] = [running |-> FALSE, stop |-> s, depth |-> e]
    BY <1>5
  <2> QED
    BY <2>1
<1>9. Together'
  <2>1. SUFFICES ASSUME ~async, NEW u \in Live', NEW v \in Live'
                 PROVE  target'[u].running = target'[v].running
    BY <1>2 DEF Together
  <2>2. u \in Live \cap ts /\ v \in Live \cap ts
    BY <1>5, <2>1
  <2>3. target'[u].running = FALSE /\ target'[v].running = FALSE
    BY <1>8, <2>2
  <2> QED
    BY <2>3, Zenon
<1>10. Untouched(x)
  BY <1>2, <1>3, <1>4, <1>5 DEF Untouched, Answers, Starts, At, Results, Launched
<1>11. \A i \in 1..Len(x) : x[i].kind # "created"
  BY <1>3, <1>4
<1>12. ASSUME NEW u \in Live'
       PROVE  (u \in Live /\ Now(u)' = Now(u) /\ Spares(x, u)) \/ LastTells(x, u, Now(u)')
  <2>1. CASE u \in ts
    <3>1. Now(u)' = "Stopped"
      <4>1. target'[u].running = FALSE
        BY <1>5, <1>8, <1>12, <2>1
      <4> QED
        BY <4>1, Zenon DEF Now
    <3>2. Tells(x[1], u) /\ Says(x[1], u) = "Stopped"
      BY <1>3, <1>4, <2>1 DEF Tells, Says
    <3>3. 1 \in 1..Len(x) /\ \A j \in (1 + 1)..Len(x) : FALSE
      BY <1>4
    <3> QED
      BY <3>1, <3>2, <3>3 DEF LastTells
  <2>2. CASE u \notin ts
    <3>1. u \in Live /\ target'[u] = target[u]
      BY <1>5, <1>12, <2>2
    <3>2. Now(u)' = Now(u)
      BY <3>1 DEF Now
    <3>3. Spares(x, u)
      BY <1>3, <1>4, <1>5, <2>2 DEF Spares, Tells
    <3> QED
      BY <3>1, <3>2, <3>3
  <2> QED
    BY <2>1, <2>2
<1> QED
  BY <1>2, <1>4, <1>7, <1>9, <1>10, <1>11, <1>12, GdbInStep

LEMMA TargetCreatesInStep ==
  ASSUME ThreadsIInv, InStep, scope.gdb = "ACTIVE", TargetCreates
  PROVE  InStep'
<1> DEFINE new == created + 1
           ts == IF async THEN {new} ELSE Live \cup {new}
           a == Record("created", new, NULL)
           b == Record("running", NULL, ts)
           x == <<a, b>>
           y == <<>>
<1>1. a.kind = "created" /\ a.thread = new /\ b.kind = "running" /\ b.data = ts
  BY DEF Record
<1>2. /\ scope' = scope /\ input' = input /\ async' = async /\ target' = WithThread(new)
      /\ out' = out \o x /\ \E u \in Live : target[u].running
  BY DEF TargetCreates, options
<1> HIDE DEF a, b
<1>3. /\ IsSeq(x) /\ Len(x) = 2 /\ x[1] = a /\ x[2] = b
      /\ \A i \in 1..2 : i \in {1, 2}
  BY Pair
<1> HIDE DEF x
<1>4. out' = out \o x \o y
  <2> DEFINE u == out \o x
  <2>1. IsSeq(u)
    BY <1>3, Joined DEF ThreadsIInv
  <2> HIDE DEF u
  <2>2. u \in Seq(Range(u))
    BY <2>1 DEF IsSeq
  <2>3. u \o <<>> = u
    BY <2>2, ConcatEmptySeq
  <2> QED
    BY <1>2, <2>3 DEF u
<1>5. new \notin Live
  BY ScopeAssumption, ToldFinite DEF ThreadsIInv
<1> HIDE DEF new
<1>6. /\ Live' = Live \cup {new} /\ \A u \in Live : target'[u] = target[u]
      /\ target'[new] = [running |-> TRUE, stop |-> 0, depth |-> 0]
  BY <1>2, <1>5 DEF Live, WithThread
<1>7. target'[new].running = TRUE
  BY <1>6
<1>8. TargetShape'
  BY <1>6 DEF InStep, TargetShape
<1>9. ~async => \A u \in Live' : target'[u].running = TRUE
  <2> SUFFICES ASSUME ~async, NEW u \in Live' PROVE target'[u].running = TRUE
    OBVIOUS
  <2>1. CASE u = new
    BY <1>7, <2>1
  <2>2. CASE u \in Live
    <3>1. PICK v \in Live : target[v].running
      BY <1>2
    <3>2. target[v].running = target[u].running
      BY <2>2, <3>1 DEF InStep, Together
    <3>3. target'[u] = target[u]
      BY <1>6, <2>2
    <3> QED
      BY <3>1, <3>2, <3>3
  <2> QED
    BY <1>6, <2>1, <2>2
<1>10. Together'
  <2>1. SUFFICES ASSUME ~async, NEW u \in Live', NEW v \in Live'
                 PROVE  target'[u].running = target'[v].running
    BY <1>2 DEF Together
  <2>2. target'[u].running = TRUE /\ target'[v].running = TRUE
    BY <1>9, <2>1
  <2> QED
    BY <2>2, Zenon
<1>11. Untouched(x)
  <2>1. Live # {}
    BY <1>2
  <2> QED
    BY <1>1, <1>2, <1>3, <2>1 DEF Untouched, Answers, Starts, At, Results, Launched
<1>12. \A i \in 1..Len(x) : x[i].kind = "created" => i = 1 /\ Live # {}
  BY <1>1, <1>2, <1>3
<1>13. ASSUME NEW u \in Live'
       PROVE  (u \in Live /\ Now(u)' = Now(u) /\ Spares(x, u)) \/ LastTells(x, u, Now(u)')
  <2>1. CASE u \in ts
    <3>1. target'[u].running = TRUE
      BY <1>7, <1>9, <1>13, <2>1
    <3>2. Now(u)' = "Running"
      BY <3>1, Zenon DEF Now
    <3>3. Tells(x[2], u) /\ Says(x[2], u) = "Running"
      BY <1>1, <1>3, <2>1 DEF Tells, Says
    <3>4. 2 \in 1..Len(x) /\ \A j \in (2 + 1)..Len(x) : FALSE
      BY <1>3
    <3> QED
      BY <3>2, <3>3, <3>4 DEF LastTells
  <2>2. CASE u \notin ts
    <3>1. u \in Live /\ u # new /\ target'[u] = target[u]
      BY <1>6, <1>13, <2>2
    <3>2. Now(u)' = Now(u)
      BY <3>1 DEF Now
    <3>3. Spares(x, u)
      BY <1>1, <1>3, <2>2, <3>1 DEF Spares, Tells
    <3> QED
      BY <3>1, <3>2, <3>3
  <2> QED
    BY <2>1, <2>2
<1>14. y \in {<<>>, <<Prompt>>}
  OBVIOUS
<1> HIDE DEF y
<1> QED
  BY <1>2, <1>3, <1>4, <1>8, <1>10, <1>11, <1>12, <1>13, <1>14, GdbInStep

LEMMA TargetExitsInStep ==
  ASSUME ThreadsIInv, InStep, scope.gdb = "ACTIVE", TargetExits
  PROVE  InStep'
<1>1. PICK ts \in {{t} : t \in Live} \cup {Live} :
        /\ target' = [t \in Live \ ts |-> target[t]]
        /\ \E x \in Exits(ts) :
             out' = out \o x \o (IF ~async /\ ts = Live THEN <<Prompt>> ELSE <<>>)
  BY DEF TargetExits
<1>2. PICK x \in Exits(ts) :
        out' = out \o x \o (IF ~async /\ ts = Live THEN <<Prompt>> ELSE <<>>)
  BY <1>1
<1> DEFINE y == IF ~async /\ ts = Live THEN <<Prompt>> ELSE <<>>
<1>3. /\ y \in {<<>>, <<Prompt>>} /\ out' = out \o x \o y
      /\ scope' = scope /\ input' = input /\ async' = async
  BY <1>2 DEF TargetExits, options
<1> HIDE DEF y
<1>4. ts \subseteq Live
  BY <1>1
<1>5. IsFiniteSet(ts)
  <2>1. IsFiniteSet(Live)
    BY ToldFinite DEF TargetExits, ThreadsIInv
  <2> QED
    BY <1>4, <2>1, FS_Subset
<1>6. IsSeq(x) /\ \A i \in 1..Len(x) : x[i].kind = "exited"
  BY <1>5, ExitsPlain
<1>7. Live' = Live \ ts /\ \A u \in Live \ ts : target'[u] = target[u]
  BY <1>1 DEF Live
<1>8. TargetShape'
  BY <1>7 DEF InStep, TargetShape
<1>9. Together'
  BY <1>3, <1>7 DEF InStep, Together
<1>10. Untouched(x)
  BY <1>3, <1>6, <1>7 DEF Untouched, Answers, Starts, At, Results, Launched
<1>11. \A i \in 1..Len(x) : x[i].kind # "created"
  BY <1>6
<1>12. \A u \in Live' : u \in Live /\ Now(u)' = Now(u) /\ Spares(x, u)
  BY <1>6, <1>7 DEF Now, Spares, Tells
<1> QED
  BY <1>3, <1>6, <1>8, <1>9, <1>10, <1>11, <1>12, GdbInStep

-------------------------------------------------------------------------------
(* The steps                                                                 *)

LEMMA LoadInStep ==
  ASSUME ThreadsIInv, LoadProgram
  PROVE  InStep'
<1> DEFINE c == [name |-> "load", thread |-> NULL, frame |-> NULL]
           load == <<c>>
           Q == [scope EXCEPT !.gdb = "ACTIVE", !.waitResult = 0, !.waitPrompt = TRUE,
                  !.commands = load, !.autoRun = AutoRunExit, !.autoExit = AutoRunExit]
           p == Prompt
<1>1. /\ Shape(scope) /\ Known(scope) = {} /\ scope' = Q
      /\ input' = <<>> /\ out' = <<p>> /\ target' = [t \in {} |-> NULL]
  BY DEF LoadProgram, ThreadsIInv, Sound, Typed
<1>2. /\ IsSeq(<<>>) /\ Len(<<>>) = 0 /\ Len(load) = 1
      /\ IsSeq(<<p>>) /\ Len(<<p>>) = 1 /\ <<p>>[1] = p /\ \A i \in 1..1 : i = 1
  BY Single
<1>3. p.kind = "prompt"
  BY DEF Prompt, Record
<1> HIDE DEF load, p, c
<1>4. Q.rows = scope.rows /\ Q.commands = load /\ Q.waitResult = 0 /\ Q.waitPrompt = TRUE
  BY <1>1 DEF Shape, Fields
<1> HIDE DEF Q
<1>5. Live' = {}
  BY <1>1 DEF Live
<1>6. Answers(<<p>>) = {} /\ Starts(<<p>>) = {}
  BY <1>2, <1>3 DEF Answers, Starts, At, Results, Launched
<1>7. Launches(<<>>) = {}
  <2>1. \A i \in 1..0 : FALSE
    OBVIOUS
  <2> QED
    BY <1>2, <2>1 DEF Launches, At
<1>8. \A i, j \in Launches(load) : i = j
  BY <1>2 DEF Launches, At
<1>9. Counts'
  <2>1. scope'.waitResult = 0 /\ IsSeq(input') /\ Len(input') = 0
    BY <1>1, <1>2, <1>4
  <2>2. Answers(out') = {}
    BY <1>1, <1>6
  <2>3. Cardinality(Answers(out')) = 0
    BY <2>2, FS_EmptySet
  <2>4. scope'.waitResult >= Len(input') + Cardinality(Answers(out'))
    BY <2>1, <2>3
  <2> QED
    BY <2>1, <2>4 DEF Counts
<1>10. LaunchedOnce'
  BY <1>1, <1>4, <1>5, <1>6, <1>7, <1>8 DEF LaunchedOnce, Lone
<1>11. \A known : Accompanied(<<p>>, known)
  BY <1>2, <1>3 DEF Accompanied
<1>12. TargetShape' /\ Together' /\ Retold'
  BY <1>5 DEF TargetShape, Together, Retold
<1> QED
  BY <1>1, <1>9, <1>10, <1>11, <1>12 DEF InStep

LEMMA AsksHeld ==
  ASSUME StepIInv, UNCHANGED <<target, gdbUp, out, input, async>>, scope'.gdb = scope.gdb,
         scope'.rows = scope.rows, Asks(scope, scope')
  PROVE  Held'
  BY PluginInStep DEF StepIInv, Held

LEMMA UserAsks ==
  ASSUME StepIInv, NEW name, name \notin Launching, NEW t, NEW f, User(Send(scope, name, t, f))
  PROVE  Held'
<1>1. Plain(scope)
  BY TypedIsPlain DEF StepIInv, ThreadsIInv, Sound
<1>2. Keeps(scope, scope') /\ UNCHANGED <<target, gdbUp, out, input, async>>
  BY <1>1, SendKeeps DEF User, gdbVars, options
<1> QED
  BY <1>2, AsksHeld DEF Keeps

LEMMA UserHeld ==
  ASSUME StepIInv,
         \/ RunContinue \/ Terminate \/ Refresh
         \/ \E t \in Thread : ClickThread(t)
         \/ \E f \in Frame : ClickFrame(f)
         \/ \E v \in {"threads", "stack", "locals"} : ViewChanged(v)
  PROVE  Held'
<1>1. Sound(scope) /\ Plain(scope) /\ ThreadsIInv
  BY TypedIsPlain DEF StepIInv, ThreadsIInv, Sound
<1>2. CASE RunContinue
  <2>1. CASE User(Send(scope, "continue", scope.id, NULL))
    BY <2>1, UserAsks DEF Launching
  <2>2. CASE DebugState(scope) = "HANGING" /\ User(Send(scope, "run", NULL, NULL))
    <3>1. scope'.gdb = scope.gdb /\ gdbUp' = gdbUp
      BY <1>1, <2>2, SendSound DEF User, gdbVars
    <3> QED
      BY <1>1, <2>2, <3>1, RunInStep DEF StepIInv, Held
  <2> QED
    BY <1>2, <2>1, <2>2 DEF RunContinue
<1>3. CASE Terminate
  <2>1. CASE gdbUp' = FALSE
    BY <2>1 DEF Held
  <2>2. CASE User(Send(scope, "kill", NULL, NULL))
    BY <2>2, UserAsks DEF Launching
  <2>3. CASE User([Send(scope, "exit", NULL, NULL) EXCEPT !.gdb = "KILLING"])
    <3> DEFINE Q == Send(scope, "exit", NULL, NULL)
    <3>1. Shape(Q)
      BY <1>1, SendSound DEF Sound, Typed
    <3>2. scope' = [Q EXCEPT !.gdb = "KILLING"]
      BY <2>3 DEF User
    <3> HIDE DEF Q
    <3>3. scope'.gdb = "KILLING"
      BY <3>1, <3>2 DEF Shape, Fields
    <3> QED
      BY <3>3 DEF Held
  <2> QED
    BY <1>3, <2>1, <2>2, <2>3 DEF Terminate
<1>4. CASE Refresh
  BY <1>4, UserAsks DEF Refresh, Launching
<1>5. CASE \E t \in Thread : ClickThread(t)
  <2>1. PICK t \in Thread : ClickThread(t)
    BY <1>5
  <2>2. Moved(scope, scope') /\ UNCHANGED <<target, gdbUp, out, input, async>>
    BY <1>1, <2>1, SelectionSound DEF ClickThread, Sound, User, gdbVars, options
  <2> QED
    BY <2>2, AsksHeld DEF Moved
<1>6. CASE \E f \in Frame : ClickFrame(f)
  <2>1. PICK f \in Frame : ClickFrame(f)
    BY <1>6
  <2>2. Keeps(scope, scope') /\ UNCHANGED <<target, gdbUp, out, input, async>>
    BY <1>1, <2>1, SelectFrameKeeps DEF ClickFrame, User, gdbVars, options
  <2> QED
    BY <2>2, AsksHeld DEF Keeps
<1>7. CASE \E v \in {"threads", "stack", "locals"} : ViewChanged(v)
  <2>1. PICK v \in {"threads", "stack", "locals"} : ViewChanged(v)
    BY <1>7
  <2> DEFINE P == [scope EXCEPT !.view = v]
             st == DebugState(P)
  <2>2. Keeps(scope, P)
    BY <1>1 DEF Keeps, Asks, Plain, Shape, Fields
  <2>3. /\ \/ scope' = ThreadsUpdate(P, st)
           \/ scope' = StackUpdate(P, st)
           \/ scope' = LocalsUpdate(P, st)
        /\ UNCHANGED <<target, gdbUp, out, input, async>>
    BY <2>1 DEF ViewChanged, User, gdbVars, options
  <2> HIDE DEF P, st
  <2>4. Keeps(scope, scope')
    BY <2>2, <2>3, ThreadsUpdateKeeps, StackUpdateKeeps, LocalsUpdateKeeps, KeepsTwice DEF Keeps
  <2> QED
    BY <2>3, <2>4, AsksHeld DEF Keeps
<1> QED
  BY <1>2, <1>3, <1>4, <1>5, <1>6, <1>7

LEMMA HeldStep ==
  ASSUME StepIInv, [ScopeNext]_scopeVars
  PROVE  Held'
<1>1. ThreadsIInv /\ Sound(scope) /\ Shape(scope) /\ Held
  BY DEF StepIInv, ThreadsIInv, Sound, Typed
<1>2. CASE Receive
  <2>1. PICK Q : Read(scope, Q, Head(out)) /\ Keeps(Q, scope')
    BY <1>1, <1>2, ReceiveReads
  <2>2. gdbUp' = gdbUp /\ (scope'.gdb = "ACTIVE" => scope.gdb = "ACTIVE")
    BY <1>2, <2>1 DEF Receive, Read, Keeps
  <2> QED
    BY <1>1, <1>2, <2>2, ReceiveInStep DEF Held
<1>3. CASE SendCommands
  <2>1. gdbUp' = gdbUp /\ scope'.gdb = scope.gdb
    BY <1>1, <1>3 DEF SendCommands, Shape, Fields
  <2> QED
    BY <1>1, <1>3, <2>1, SendCommandsInStep DEF Held
<1>4. CASE GdbExitCb
  BY <1>4 DEF GdbExitCb, Held, gdbVars
<1>5. CASE LoadProgram
  BY <1>1, <1>5, LoadInStep DEF Held
<1>6. CASE \/ RunContinue \/ Terminate \/ Refresh
           \/ \E t \in Thread : ClickThread(t)
           \/ \E f \in Frame : ClickFrame(f)
           \/ \E v \in {"threads", "stack", "locals"} : ViewChanged(v)
  BY <1>6, UserHeld
<1>7. CASE GdbExecutes
  <2>1. gdbUp /\ scope' = scope
    BY <1>7 DEF GdbExecutes
  <2> QED
    BY <1>1, <1>7, <2>1, GdbExecutesInStep DEF Held
<1>8. CASE TargetStops
  <2>1. gdbUp /\ scope' = scope
    BY <1>8 DEF TargetStops
  <2> QED
    BY <1>1, <1>8, <2>1, TargetStopsInStep DEF Held
<1>9. CASE TargetCreates
  <2>1. gdbUp /\ scope' = scope
    BY <1>9 DEF TargetCreates
  <2> QED
    BY <1>1, <1>9, <2>1, TargetCreatesInStep DEF Held
<1>10. CASE TargetExits
  <2>1. gdbUp /\ scope' = scope
    BY <1>10 DEF TargetExits
  <2> QED
    BY <1>1, <1>10, <2>1, TargetExitsInStep DEF Held
<1>11. CASE GdbDies
  BY <1>11 DEF GdbDies, Held
<1>12. CASE UNCHANGED scopeVars
  <2>1. UNCHANGED <<target, gdbUp, out, input, async, scope>>
    BY <1>12 DEF scopeVars, gdbVars, options
  <2>2. Asks(scope, scope')
    BY <2>1 DEF Asks
  <2> QED
    BY <2>1, <2>2, AsksHeld
<1> QED
  BY <1>2, <1>3, <1>4, <1>5, <1>6, <1>7, <1>8, <1>9, <1>10, <1>11, <1>12 DEF ScopeNext, Gdb

LEMMA StepInvariant == ScopeSpec => []StepIInv
<1>1. ScopeInit => StepIInv
  BY ThreadsStart DEF StepIInv, Held, ScopeInit
<1>2. StepIInv /\ [ScopeNext]_scopeVars => StepIInv'
  BY ThreadsStep, HeldStep DEF StepIInv
<1> QED
  BY <1>1, <1>2, PTL DEF ScopeSpec

(* What is known when nothing is on the way                                  *)
LEMMA NothingToRead ==
  ASSUME StepIInv, Quiet, DebugState(scope) # "BUSY"
  PROVE  /\ input = <<>> /\ ~InForeground /\ Known(scope) = Live
         /\ \A t \in Live : scope.rows[t].state = Now(t)
         /\ DebugState(scope) = "DEBUG" <=> scope.id # NULL /\ IsStopped(scope.id)
<1>1. /\ ThreadsIInv /\ InStep /\ Sound(scope) /\ out = <<>> /\ scope.gdb = "ACTIVE"
      /\ scope.commands = <<>> /\ ~scope.waitPrompt
  BY DEF StepIInv, Held, Quiet, ThreadsIInv, DebugState
<1>2. input = <<>>
  BY <1>1, NotBusyIdle
<1>3. \A i \in 1..Len(out) : FALSE
  <2>1. Len(out) = 0 /\ \A i \in 1..0 : FALSE
    BY <1>1
  <2> QED
    BY <2>1
<1>4. Known(scope) = Live
  <2>1. Created(out) = {} /\ Exited(out) = {}
    BY <1>3 DEF Created, Exited
  <2> QED
    BY <1>1, <2>1 DEF ThreadsIInv, Told, Alive
<1>5. \A t \in Live : scope.rows[t].state = Now(t)
  BY <1>1, <1>3 DEF InStep, Retold, ToldLast
<1>6. \A t \in Live : scope.rows[t].state = "Stopped" <=> ~target[t].running
  BY <1>5 DEF Now
<1>7. scope.id \in Live \cup {NULL} /\ NULL \notin Live
  BY <1>1, <1>4, KnownFinite DEF Sound, Selected
<1>8. scope.state \in AtStop <=> scope.id # NULL /\ IsStopped(scope.id)
  BY <1>1, <1>6, <1>7 DEF Sound, Selected, IsStopped
<1>9. scope.count = 0 <=> Live = {}
  BY <1>1, <1>4, KnownFinite, FS_EmptySet DEF Sound, Counted
<1>10. DebugState(scope) = "DEBUG" <=> scope.id # NULL /\ IsStopped(scope.id)
  <2>1. DebugState(scope) = "DEBUG" <=> scope.count # 0 /\ scope.state \in AtStop
    BY <1>1 DEF DebugState
  <2> QED
    BY <1>8, <1>9, <2>1 DEF IsStopped
<1>11. ~InForeground
  <2>1. SUFFICES ASSUME ~async, NEW t \in Live, target[t].running PROVE FALSE
    BY DEF InForeground
  <2>2. \A u \in Live : target[u].running
    BY <1>1, <2>1 DEF InStep, Together
  <2>3. Stopped(scope) = {}
    BY <1>4, <1>6, <2>2 DEF Stopped
  <2>4. scope.prompt = 0 /\ scope.count # 0 /\ scope.state \notin AtStop
    BY <1>1, <1>8, <1>9, <2>1, <2>2, <2>3, FS_EmptySet DEF Sound, Typed, IsStopped
  <2> QED
    BY <1>1, <2>1, <2>4 DEF DebugState
<1> QED
  BY <1>2, <1>4, <1>5, <1>10, <1>11

(* While GDB runs and nothing it wrote is unread, Busy is left (debug.c,     *)
(* debug_state()) only when every command was answered; the threads listed   *)
(* are those of the program, each in the state it is in, the program is not  *)
(* in the foreground, and the state is Debug just when the thread selected   *)
(* is stopped.                                                               *)
THEOREM NotBusyTold == ScopeSpec => []NotBusyInStep
<1>1. StepIInv => NotBusyInStep
  BY NothingToRead DEF NotBusyInStep, Now
<1> QED
  BY <1>1, StepInvariant, PTL

-------------------------------------------------------------------------------
(* What is on the screen in the state Debug                                  *)

(* What is asked of GDB and not answered yet                                 *)
Asked(P) == Range(P.commands) \cup Range(input)

Request(name, t, f) == [name |-> name, thread |-> t, frame |-> f]

(* What an answer says now of thread t                                       *)
StackOf(t) == [of |-> t, stop |-> target[t].stop, depth |-> target[t].depth]
LocalsOf(t, f) == [of |-> t, stop |-> target[t].stop, frame |-> f]

(* s tells from n on that thread t stops, or holds an answer about it.       *)
Stopping(s, t, n) == \E j \in n..Len(s) : s[j].kind = "stopped" /\ t \in s[j].data
StackComing(s, t) == \E i \in 1..Len(s) : s[i].kind = "stack" /\ s[i].data.of = t
LocalsComing(s, t, f) ==
  \E i \in 1..Len(s) : s[i].kind = "locals" /\ s[i].data.of = t /\ s[i].data.frame = f

StackAsked(P, s) == Request("frames", P.id, NULL) \in Asked(P) \/ StackComing(s, P.id)
LocalsAsked(P, s) ==
  \/ Request("locals", P.id, P.frame) \in Asked(P) /\ P.frame < target[P.id].depth
  \/ LocalsComing(s, P.id, P.frame)

(* What is shown is to be updated, is so now, or is going to be: an answer   *)
(* replaces it, or a stop clears it.                                         *)
StackInStep(P, s) ==
  \/ "stack" \in P.dirty \/ P.stack \in {NoStack, StackOf(P.id)}
  \/ StackAsked(P, s) \/ Stopping(s, P.id, 1)
LocalsInStep(P, s) ==
  \/ "locals" \in P.dirty \/ P.locals \in {NoLocals, LocalsOf(P.id, P.frame)}
  \/ LocalsAsked(P, s) \/ Stopping(s, P.id, 1)

(* The frame selected is one of the stack shown, or the first.               *)
Framed(P) == P.frame \in {NULL, 0} \/ (P.selected # NULL /\ P.frame < P.stack.depth)

(* A stack and its locals are asked for of stopped threads, which are not    *)
(* resumed before the answer.                                                *)
Asking(P) ==
  \A c \in Asked(P) : c.name \in {"frames", "locals"} =>
    /\ c.thread \in 1..created
    /\ c.thread \in Live => ~target[c.thread].running
    /\ \A d \in Asked(P) : d.name # "continue"

Viewed(P, s) ==
  /\ Framed(P) /\ Asking(P)
  /\ P.id \in Live => StackInStep(P, s) /\ LocalsInStep(P, s)

(* Record j of s tells that thread t runs again, and an answer is before it. *)
Resumes(s, wait, j, t) ==
  /\ s[j].kind = "running" /\ t \in s[j].data
  /\ IF j = 1 THEN wait ELSE s[j - 1].kind = "done"

(* A thread that runs is known as stopped only while its command is waited   *)
(* for.                                                                      *)
Resuming(rows, wait, s) ==
  \A t \in Live : target[t].running =>
    /\ t \in DOMAIN rows /\ rows[t].state = "Stopped" => \E j \in 1..Len(s) : Resumes(s, wait, j, t)
    /\ \A i \in 1..Len(s) : Tells(s[i], t) /\ Says(s[i], t) = "Stopped" =>
         \E j \in (i + 1)..Len(s) : Resumes(s, wait, j, t)

Idle(wait, s) == ~wait => input = <<>> /\ Answers(s) = {}

Rowed(P) ==
  /\ Plain(P) /\ P.gdb \in {"INACTIVE", "ACTIVE", "KILLING"} /\ Known(P) \subseteq Thread \cap (1..created)

Placed(P) == Rowed(P) /\ (P.state \in AtStop => P.id \in Known(P) /\ P.rows[P.id].state = "Stopped")

Base(P, s) == Placed(P) /\ Resuming(P.rows, P.waitPrompt, s) /\ Idle(P.waitPrompt, s)

Deep == \A t \in Live : ~target[t].running => target[t].depth \in Nat \ {0}

Good(P, s) == Base(P, s) /\ Viewed(P, s)

-------------------------------------------------------------------------------
(* Views that are updated                                                    *)

LEMMA RangeMore ==
  ASSUME NEW s, IsSeq(s)
  PROVE  /\ \A c : Range(Append(s, c)) = Range(s) \cup {c}
         /\ \A x : IsSeq(x) => Range(s \o x) = Range(s) \cup Range(x)
         /\ s # <<>> => Range(s) = {Head(s)} \cup Range(Tail(s))
<1>1. ASSUME NEW u, IsSeq(u) PROVE Range(u) = {u[i] : i \in 1..Len(u)}
  BY <1>1, SeqOver DEF Range
<1>2. Len(s) \in Nat
  BY SeqOver
<1>3. ASSUME NEW x, IsSeq(x) PROVE Range(s \o x) = Range(s) \cup Range(x)
  <2> DEFINE u == s \o x
             m == Len(s)
             n == Len(x)
  <2>1. /\ IsSeq(u) /\ Len(u) = m + n /\ m \in Nat /\ n \in Nat
        /\ \A i \in 1..(m + n) : u[i] = IF i <= m THEN s[i] ELSE x[i - m]
    BY <1>3, Joined, SeqOver
  <2>2. Range(u) = {u[i] : i \in 1..(m + n)} /\ Range(s) = {s[i] : i \in 1..m} /\ Range(x) = {x[i] : i \in 1..n}
    BY <1>1, <1>3, <2>1
  <2> HIDE DEF u, m, n
  <2>3. ASSUME NEW i \in 1..m PROVE s[i] \in Range(u)
    BY <2>1, <2>2
  <2>4. ASSUME NEW i \in 1..n PROVE x[i] \in Range(u)
    <3>1. m + i \in 1..(m + n) /\ ~(m + i <= m) /\ (m + i) - m = i
      BY <2>1
    <3> QED
      BY <2>1, <2>2, <3>1
  <2>5. ASSUME NEW i \in 1..(m + n) PROVE u[i] \in Range(s) \cup Range(x)
    <3>1. CASE i <= m
      BY <2>1, <2>2, <3>1
    <3>2. CASE ~(i <= m)
      <4>1. i - m \in 1..n
        BY <2>1, <3>2
      <4> QED
        BY <2>1, <2>2, <3>2, <4>1
    <3> QED
      BY <3>1, <3>2
  <2> QED
    BY <2>2, <2>3, <2>4, <2>5 DEF u
<1>4. ASSUME NEW c PROVE Range(Append(s, c)) = Range(s) \cup {c}
  <2> DEFINE one == <<c>>
  <2>1. s \in Seq(Range(s) \cup {c})
    BY SeqOver
  <2>2. Append(s, c) = s \o one
    BY <2>1, AppendIsConcat
  <2>3. IsSeq(one) /\ Len(one) = 1 /\ one[1] = c
    BY Single
  <2> HIDE DEF one
  <2>4. Range(one) = {c}
    <3>1. Range(one) = {one[i] : i \in 1..1}
      BY <1>1, <2>3
    <3>2. \A i \in 1..1 : i = 1
      OBVIOUS
    <3> QED
      BY <2>3, <3>1, <3>2
  <2> QED
    BY <1>3, <2>2, <2>3, <2>4
<1>5. ASSUME s # <<>> PROVE Range(s) = {Head(s)} \cup Range(Tail(s))
  <2> DEFINE u == Tail(s)
             n == Len(s)
  <2>1. /\ IsSeq(u) /\ n \in Nat \ {0} /\ Len(u) = n - 1 /\ Head(s) = s[1]
        /\ \A i \in 1..(n - 1) : u[i] = s[i + 1]
    BY <1>5, TailOf
  <2>2. Range(s) = {s[i] : i \in 1..n} /\ Range(u) = {u[i] : i \in 1..(n - 1)}
    BY <1>1, <2>1
  <2> HIDE DEF u, n
  <2>3. \A i \in 1..(n - 1) : u[i] \in Range(s)
    BY <2>1, <2>2
  <2>4. s[1] \in Range(s)
    BY <2>1, <2>2
  <2>5. ASSUME NEW i \in 1..n PROVE s[i] \in {s[1]} \cup Range(u)
    <3>1. CASE i = 1
      BY <3>1
    <3>2. CASE i # 1
      <4>1. i - 1 \in 1..(n - 1) /\ (i - 1) + 1 = i
        BY <2>1, <3>2
      <4>2. u[i - 1] = s[i]
        BY <2>1, <4>1
      <4> QED
        BY <2>2, <4>1, <4>2
    <3> QED
      BY <3>1, <3>2
  <2> QED
    BY <2>1, <2>2, <2>3, <2>4, <2>5 DEF u
<1> QED
  BY <1>3, <1>4, <1>5

(* The views show the same, and perhaps more of them is to be updated.       *)
Alike(P, Q) ==
  /\ Q.id = P.id /\ Q.frame = P.frame /\ Q.selected = P.selected
  /\ Q.stack = P.stack /\ Q.locals = P.locals /\ P.dirty \subseteq Q.dirty

LEMMA ViewedAlike ==
  ASSUME NEW P, NEW s, Viewed(P, s), NEW Q, Alike(P, Q), Asked(P) \subseteq Asked(Q), Asking(Q)
  PROVE  Viewed(Q, s)
<1>1. Framed(Q)
  BY DEF Viewed, Framed, Alike
<1>2. Q.id \in Live => StackInStep(Q, s)
  BY DEF Viewed, StackInStep, StackAsked, Alike
<1>3. Q.id \in Live => LocalsInStep(Q, s)
  BY DEF Viewed, LocalsInStep, LocalsAsked, Alike
<1> QED
  BY <1>1, <1>2, <1>3 DEF Viewed

(* Nothing known of the threads changes, and nothing is answered.            *)
LEMMA BaseKept ==
  ASSUME NEW P, NEW s, Base(P, s), NEW Q, Keeps(P, Q)
  PROVE  Base(Q, s)
<1>1. Known(Q) = Known(P)
  BY DEF Keeps, Known
<1>2. Q.state \in AtStop => P.state \in AtStop
  BY DEF Keeps, AtStop
<1> QED
  BY <1>1, <1>2 DEF Base, Placed, Rowed, Keeps, Asks

LEMMA SendAsks ==
  ASSUME NEW P, Plain(P), NEW name, NEW t, NEW f
  PROVE  LET Q == Send(P, name, t, f) IN
         /\ Alike(P, Q) /\ Q.dirty = P.dirty /\ Q.state = P.state /\ Q.gdb = P.gdb
         /\ Asked(Q) = Asked(P) \cup (IF P.gdb = "ACTIVE" THEN {Request(name, t, f)} ELSE {})
         /\ Range(Q.commands) =
              Range(P.commands) \cup (IF P.gdb = "ACTIVE" THEN {Request(name, t, f)} ELSE {})
         /\ P.gdb = "ACTIVE" => Q.commands # <<>>
<1> DEFINE c == Request(name, t, f)
           more == Append(P.commands, c)
           Q == Send(P, name, t, f)
<1>1. Range(more) = Range(P.commands) \cup {c}
  BY RangeMore DEF Plain
<1>2. more # <<>>
  <2>1. IsSeq(more) /\ Len(more) = Len(P.commands) + 1 /\ Len(P.commands) \in Nat
    BY AppendedSeq, SeqOver DEF Plain
  <2> HIDE DEF more
  <2>2. Len(<<>>) = 0
    BY Single
  <2> QED
    BY <2>1, <2>2
<1>3. Q = IF P.gdb = "ACTIVE" THEN [P EXCEPT !.commands = more] ELSE P
  BY DEF Send, Request
<1> HIDE DEF c, more
<1>4. CASE P.gdb = "ACTIVE"
  <2>1. /\ Q.commands = more /\ Q.dirty = P.dirty /\ Q.state = P.state /\ Q.gdb = P.gdb
        /\ Q.id = P.id /\ Q.frame = P.frame /\ Q.selected = P.selected
        /\ Q.stack = P.stack /\ Q.locals = P.locals
    BY <1>3, <1>4 DEF Plain, Shape, Fields
  <2> HIDE DEF Q
  <2>2. Alike(P, Q)
    BY <2>1 DEF Alike
  <2> QED
    BY <1>1, <1>2, <1>4, <2>1, <2>2 DEF Asked, Q, c
<1>5. CASE P.gdb # "ACTIVE"
  <2>1. Q = P
    BY <1>3, <1>5
  <2> HIDE DEF Q
  <2> QED
    BY <1>5, <2>1 DEF Alike, Q
<1> QED
  BY <1>4, <1>5

(* In the state Debug nothing is asked, but for what names holds, and no     *)
(* answer is on the way; the thread selected is stopped.                     *)
Debugs(P, s, names) ==
  /\ P.gdb = "ACTIVE" /\ P.state \in AtStop /\ input = <<>> /\ Answers(s) = {}
  /\ P.id \in 1..created /\ (P.id \in Live => ~target[P.id].running)
  /\ \A c \in Range(P.commands) : c.name \in names

LEMMA NoneAsked ==
  ASSUME input = <<>>
  PROVE  \A P : Asked(P) = Range(P.commands)
  BY DEF Asked, Range

LEMMA InDebug ==
  ASSUME NEW P, NEW s, IsSeq(s), Base(P, s), DebugState(P) = "DEBUG"
  PROVE  Debugs(P, s, {}) /\ Range(P.commands) = {}
<1>1. /\ P.gdb = "ACTIVE" /\ P.state \in AtStop /\ P.commands = <<>> /\ ~P.waitPrompt
      /\ input = <<>> /\ Answers(s) = {}
  BY DEF DebugState, Base, Placed, Rowed, Idle
<1>2. Range(P.commands) = {}
  BY <1>1 DEF Range
<1>3. P.id \in Known(P) /\ P.rows[P.id].state = "Stopped" /\ P.id \in 1..created
  BY <1>1 DEF Base, Placed, Rowed
<1>4. ASSUME P.id \in Live, target[P.id].running PROVE FALSE
  <2>1. PICK j \in 1..Len(s) : Resumes(s, P.waitPrompt, j, P.id)
    BY <1>3, <1>4 DEF Base, Placed, Rowed, Resuming, Known
  <2>2. j # 1 /\ s[j - 1].kind = "done"
    BY <1>1, <2>1 DEF Resumes
  <2>3. j - 1 \in 1..Len(s)
    BY <2>2, SeqOver
  <2> QED
    BY <1>1, <2>2, <2>3 DEF Answers, At, Results
<1> QED
  BY <1>1, <1>2, <1>3, <1>4 DEF Debugs

LEMMA DebugsMore ==
  ASSUME NEW P, NEW s, NEW names, Debugs(P, s, names), NEW Q, Keeps(P, Q), NEW more,
         \A c \in Range(Q.commands) : c.name \in more
  PROVE  Debugs(Q, s, more)
  BY DEF Debugs, Keeps, AtStop

LEMMA DirtyViewed ==
  ASSUME NEW P, NEW s, Plain(P), Viewed(P, s), NEW views
  PROVE  Viewed(Dirty(P, views), s)
<1> DEFINE Q == Dirty(P, views)
<1>1. Alike(P, Q) /\ Q.commands = P.commands
  BY DEF Dirty, Alike, Plain, Shape, Fields
<1> HIDE DEF Q
<1>2. Asked(Q) = Asked(P)
  BY <1>1 DEF Asked
<1>3. Asking(Q)
  BY <1>2 DEF Viewed, Asking
<1> QED
  BY <1>1, <1>2, <1>3, ViewedAlike DEF Q

(* A command may be asked now that is not to resume a thread.                *)
LEMMA SendViewed ==
  ASSUME NEW P, NEW s, Plain(P), Viewed(P, s), NEW name, name # "continue", NEW t, NEW f,
         name \in {"frames", "locals"} =>
           /\ t \in 1..created /\ (t \in Live => ~target[t].running)
           /\ \A d \in Asked(P) : d.name # "continue"
  PROVE  Viewed(Send(P, name, t, f), s)
<1> DEFINE Q == Send(P, name, t, f)
           c == Request(name, t, f)
<1>1. /\ Alike(P, Q)
      /\ Asked(Q) = Asked(P) \cup (IF P.gdb = "ACTIVE" THEN {c} ELSE {})
  BY SendAsks
<1>2. c.name = name /\ c.thread = t
  BY DEF Request
<1> HIDE DEF Q, c
<1>3. Asking(Q)
  BY <1>1, <1>2 DEF Viewed, Asking
<1> QED
  BY <1>1, <1>3, ViewedAlike DEF Q

LEMMA StackClearViewed ==
  ASSUME NEW P, NEW s, Plain(P), Viewed(P, s)
  PROVE  LET Q == StackClear(P) IN
         /\ Viewed(Q, s) /\ Q.stack = NoStack /\ Q.selected = NULL /\ Q.id = P.id
         /\ Q.commands = P.commands /\ Q.locals = P.locals /\ Q.frame \in {NULL, 0}
         /\ P.dirty \subseteq Q.dirty /\ Q.dirty \subseteq P.dirty \cup {"locals"}
<1> DEFINE Q == StackClear(P)
<1>1. /\ Q.stack = NoStack /\ Q.selected = NULL /\ Q.id = P.id /\ Q.commands = P.commands
      /\ Q.locals = P.locals /\ P.dirty \subseteq Q.dirty /\ Q.dirty \subseteq P.dirty \cup {"locals"}
      /\ IF P.selected = NULL THEN Q.frame = P.frame ELSE Q.frame = NULL /\ "locals" \in Q.dirty
  <2>1. CASE P.selected = NULL
    BY <2>1 DEF StackClear, Plain, Shape, Fields
  <2>2. CASE P.selected # NULL
    BY <2>2 DEF StackClear, Dirty, Plain, Shape, Fields
  <2> QED
    BY <2>1, <2>2
<1> HIDE DEF Q
<1>2. Q.frame \in {NULL, 0}
  BY <1>1 DEF Viewed, Framed
<1>3. Asking(Q) /\ Asked(Q) = Asked(P)
  BY <1>1 DEF Viewed, Asking, Asked
<1>4. Q.id \in Live => StackInStep(Q, s) /\ LocalsInStep(Q, s)
  BY <1>1, <1>3 DEF Viewed, StackInStep, LocalsInStep, LocalsAsked
<1>5. Viewed(Q, s)
  BY <1>2, <1>3, <1>4 DEF Viewed, Framed
<1> QED
  BY <1>1, <1>2, <1>5 DEF Q

LEMMA ThreadsUpdateViewed ==
  ASSUME NEW P, NEW s, Plain(P), Viewed(P, s), NEW st
  PROVE  LET Q == ThreadsUpdate(P, st) IN
         /\ Viewed(Q, s) /\ Q.dirty \ {"threads"} = P.dirty \ {"threads"}
         /\ \A c \in Range(Q.commands) : c \in Range(P.commands) \/ c.name = "info"
<1> DEFINE sent == Send(P, "info", NULL, NULL)
           Q == Clean(sent, "threads")
<1>1. /\ Viewed(sent, s) /\ sent.dirty = P.dirty
      /\ \A c \in Range(sent.commands) : c \in Range(P.commands) \/ c.name = "info"
  BY SendViewed, SendAsks DEF Request
<1>2. Plain(sent)
  BY SendKeeps DEF Keeps, Launching
<1> HIDE DEF sent
<1>3. /\ Q.id = sent.id /\ Q.frame = sent.frame /\ Q.selected = sent.selected
      /\ Q.stack = sent.stack /\ Q.locals = sent.locals /\ Q.commands = sent.commands
      /\ Q.dirty = sent.dirty \ {"threads"}
  BY <1>2 DEF Clean, Plain, Shape, Fields
<1> HIDE DEF Q
<1>4. Framed(Q) /\ Asking(Q) /\ Asked(Q) = Asked(sent)
  BY <1>1, <1>3 DEF Viewed, Framed, Asking, Asked
<1>5. Q.id \in Live => StackInStep(Q, s) /\ LocalsInStep(Q, s)
  BY <1>1, <1>3, <1>4 DEF Viewed, StackInStep, LocalsInStep, StackAsked, LocalsAsked
<1>6. Viewed(Q, s)
  BY <1>4, <1>5 DEF Viewed
<1> QED
  BY <1>1, <1>3, <1>6 DEF ThreadsUpdate, sent, Q

LEMMA StackUpdateViewed ==
  ASSUME NEW P, NEW s, Plain(P), Viewed(P, s), NEW st,
         st = "DEBUG" => Debugs(P, s, {"frame", "info", "frames", "locals"})
  PROVE  Viewed(StackUpdate(P, st), s)
<1>1. CASE "stack" \notin P.dirty
  BY <1>1 DEF StackUpdate
<1>2. CASE "stack" \in P.dirty /\ st = "DEBUG"
  <2> DEFINE sent == Send(P, "frames", P.id, NULL)
             Q == Clean(sent, "stack")
  <2>1. \A d \in Asked(P) : d.name # "continue"
    BY <1>2, NoneAsked DEF Debugs
  <2>2. Viewed(sent, s)
    BY <1>2, <2>1, SendViewed DEF Debugs
  <2>3. sent.id = P.id /\ Request("frames", P.id, NULL) \in Asked(sent)
    BY <1>2, SendAsks DEF Debugs, Alike
  <2>4. Plain(sent)
    BY SendKeeps DEF Keeps, Launching
  <2>5. StackUpdate(P, st) = Q
    BY <1>2 DEF StackUpdate
  <2> HIDE DEF sent
  <2>6. /\ Q.id = sent.id /\ Q.frame = sent.frame /\ Q.selected = sent.selected
        /\ Q.stack = sent.stack /\ Q.locals = sent.locals /\ Q.commands = sent.commands
        /\ Q.dirty = sent.dirty \ {"stack"}
    BY <2>4 DEF Clean, Plain, Shape, Fields
  <2> HIDE DEF Q
  <2>7. Framed(Q) /\ Asking(Q) /\ Asked(Q) = Asked(sent)
    BY <2>2, <2>6 DEF Viewed, Framed, Asking, Asked
  <2>8. StackInStep(Q, s)
    BY <2>3, <2>6, <2>7 DEF StackInStep, StackAsked
  <2>9. Q.id \in Live => LocalsInStep(Q, s)
    BY <2>2, <2>6, <2>7 DEF Viewed, LocalsInStep, LocalsAsked
  <2> QED
    BY <2>5, <2>7, <2>8, <2>9 DEF Viewed
<1>3. CASE "stack" \in P.dirty /\ st # "DEBUG"
  <2> DEFINE R == StackClear(P)
             Q == Clean(R, "stack")
  <2>1. Viewed(R, s) /\ R.stack = NoStack
    BY StackClearViewed
  <2>2. Plain(R)
    BY StackClearKeeps DEF Keeps
  <2>3. StackUpdate(P, st) = Q
    BY <1>3 DEF StackUpdate
  <2> HIDE DEF R
  <2>4. /\ Q.id = R.id /\ Q.frame = R.frame /\ Q.selected = R.selected
        /\ Q.stack = R.stack /\ Q.locals = R.locals /\ Q.commands = R.commands
        /\ Q.dirty = R.dirty \ {"stack"}
    BY <2>2 DEF Clean, Plain, Shape, Fields
  <2> HIDE DEF Q
  <2>5. Framed(Q) /\ Asking(Q) /\ Asked(Q) = Asked(R)
    BY <2>1, <2>4 DEF Viewed, Framed, Asking, Asked
  <2>6. StackInStep(Q, s)
    BY <2>1, <2>4 DEF StackInStep
  <2>7. Q.id \in Live => LocalsInStep(Q, s)
    BY <2>1, <2>4, <2>5 DEF Viewed, LocalsInStep, LocalsAsked
  <2> QED
    BY <2>3, <2>5, <2>6, <2>7 DEF Viewed
<1> QED
  BY <1>1, <1>2, <1>3

LEMMA LocalsUpdateViewed ==
  ASSUME NEW P, NEW s, Plain(P), Viewed(P, s), Deep, NEW st,
         st = "DEBUG" => Debugs(P, s, {"frame", "info"})
  PROVE  Viewed(LocalsUpdate(P, st), s)
<1>0. st = "DEBUG" => Debugs(P, s, {"frame", "info", "frames", "locals"})
  BY DEF Debugs
<1>1. CASE "locals" \notin P.dirty
  BY <1>1 DEF LocalsUpdate
<1>2. CASE "locals" \in P.dirty /\ st = "DEBUG" /\ "stack" \in P.dirty
  BY <1>0, <1>2, StackUpdateViewed DEF LocalsUpdate
<1>3. CASE "locals" \in P.dirty /\ st = "DEBUG" /\ "stack" \notin P.dirty /\ P.frame # NULL
  <2> DEFINE sent == Send(P, "locals", P.id, P.frame)
             Q == Clean(sent, "locals")
  <2>1. \A d \in Asked(P) : d.name # "continue"
    BY <1>3, NoneAsked DEF Debugs
  <2>2. Viewed(sent, s)
    BY <1>3, <2>1, SendViewed DEF Debugs
  <2>3. /\ sent.id = P.id /\ sent.frame = P.frame
        /\ Request("locals", P.id, P.frame) \in Asked(sent)
    BY <1>3, SendAsks DEF Debugs, Alike
  <2>4. Plain(sent)
    BY SendKeeps DEF Keeps, Launching
  <2>5. LocalsUpdate(P, st) = Q
    BY <1>3 DEF LocalsUpdate
  <2> HIDE DEF sent
  <2>6. /\ Q.id = sent.id /\ Q.frame = sent.frame /\ Q.selected = sent.selected
        /\ Q.stack = sent.stack /\ Q.locals = sent.locals /\ Q.commands = sent.commands
        /\ Q.dirty = sent.dirty \ {"locals"}
    BY <2>4 DEF Clean, Plain, Shape, Fields
  <2> HIDE DEF Q
  <2>7. Framed(Q) /\ Asking(Q) /\ Asked(Q) = Asked(sent)
    BY <2>2, <2>6 DEF Viewed, Framed, Asking, Asked
  <2>8. Q.id \in Live => StackInStep(Q, s)
    BY <2>2, <2>6, <2>7 DEF Viewed, StackInStep, StackAsked
  <2>9. ASSUME Q.id \in Live PROVE LocalsInStep(Q, s)
    <3>1. P.id \in Live /\ ~target[P.id].running /\ Q.id = P.id /\ Q.frame = P.frame
      BY <1>3, <2>3, <2>6, <2>9 DEF Debugs
    <3>2. target[P.id].depth \in Nat \ {0}
      BY <3>1 DEF Deep
    <3>3. CASE P.frame = 0
      BY <2>3, <2>7, <3>1, <3>2, <3>3 DEF LocalsInStep, LocalsAsked
    <3>4. CASE P.frame # 0
      <4>1. P.frame < P.stack.depth /\ P.frame \in Nat
        BY <1>3, <3>4 DEF Viewed, Framed, Plain, Frame
      <4>2. ~StackAsked(P, s)
        <5>1. Request("frames", P.id, NULL) \notin Asked(P)
          BY <1>3, NoneAsked DEF Debugs, Request
        <5>2. ~StackComing(s, P.id)
          BY <1>3 DEF Debugs, StackComing, Answers, At, Results
        <5> QED
          BY <5>1, <5>2 DEF StackAsked
      <4>3. P.stack \in {NoStack, StackOf(P.id)} \/ Stopping(s, P.id, 1)
        BY <1>3, <3>1, <4>2 DEF Viewed, StackInStep
      <4>4. CASE P.stack = NoStack
        BY <4>1, <4>4 DEF NoStack
      <4>5. CASE P.stack = StackOf(P.id)
        <5>1. P.frame < target[P.id].depth
          BY <4>1, <4>5 DEF StackOf
        <5> QED
          BY <2>3, <2>7, <3>1, <5>1 DEF LocalsInStep, LocalsAsked
      <4>6. CASE Stopping(s, P.id, 1)
        BY <3>1, <4>6 DEF LocalsInStep
      <4> QED
        BY <4>3, <4>4, <4>5, <4>6
    <3> QED
      BY <3>3, <3>4
  <2> QED
    BY <2>5, <2>7, <2>8, <2>9 DEF Viewed
<1>4. CASE "locals" \in P.dirty /\ ~(st = "DEBUG" /\ ("stack" \in P.dirty \/ P.frame # NULL))
  <2> DEFINE none == [P EXCEPT !.locals = NoLocals]
             Q == Clean(none, "locals")
  <2>1. LocalsUpdate(P, st) = Q
    BY <1>4 DEF LocalsUpdate
  <2>2. /\ Q.id = P.id /\ Q.frame = P.frame /\ Q.selected = P.selected
        /\ Q.stack = P.stack /\ Q.locals = NoLocals /\ Q.commands = P.commands
        /\ Q.dirty = P.dirty \ {"locals"}
    BY DEF Clean, Plain, Shape, Fields
  <2> HIDE DEF Q
  <2>3. Framed(Q) /\ Asking(Q) /\ Asked(Q) = Asked(P)
    BY <2>2 DEF Viewed, Framed, Asking, Asked
  <2>4. Q.id \in Live => StackInStep(Q, s)
    BY <2>2, <2>3 DEF Viewed, StackInStep, StackAsked
  <2>5. LocalsInStep(Q, s)
    BY <2>2 DEF LocalsInStep
  <2> QED
    BY <2>1, <2>3, <2>4, <2>5 DEF Viewed
<1> QED
  BY <1>1, <1>2, <1>3, <1>4

(* views_update(): what is asked for is asked in the state Debug, the stack  *)
(* before its locals.                                                        *)
LEMMA ViewsUpdateViewed ==
  ASSUME NEW P, NEW s, Plain(P), Viewed(P, s), Deep, NEW st,
         st = "DEBUG" => Debugs(P, s, {"frame"})
  PROVE  Viewed(ViewsUpdate(P, st), s)
<1> DEFINE asks == P.state = "QUERY_FRAME" /\ ~("threads" \in P.dirty /\ Shown(P, "threads"))
           asked == IF asks THEN QueryFrame(P) ELSE P
           queried == [asked EXCEPT !.state = IF @ = "QUERY_FRAME" THEN "STOPPED" ELSE @]
           threads == IF Shown(P, "threads") THEN ThreadsUpdate(queried, st) ELSE queried
           stack == IF Shown(P, "stack") THEN StackUpdate(threads, st) ELSE threads
           skip == all /\ "stack" \in threads.dirty /\ stack.state \in AtStop
<1>0. ViewsUpdate(P, st) = IF Shown(P, "locals") /\ ~skip THEN LocalsUpdate(stack, st) ELSE stack
  BY DEF ViewsUpdate
<1>1. Keeps(P, asked) /\ Viewed(asked, s)
      /\ \A c \in Range(asked.commands) : c \in Range(P.commands) \/ c.name = "frame"
  <2>1. Keeps(P, P) /\ Keeps(P, QueryFrame(P)) /\ Viewed(QueryFrame(P), s)
    BY SendKeeps, KeepsItself, SendViewed DEF QueryFrame, Launching
  <2>2. \A c \in Range(QueryFrame(P).commands) : c \in Range(P.commands) \/ c.name = "frame"
    BY SendAsks DEF QueryFrame, Request
  <2> QED
    BY <2>1, <2>2
<1> HIDE DEF asks, asked
<1>2. Keeps(P, queried) /\ Viewed(queried, s) /\ queried.commands = asked.commands
  <2>1. Keeps(P, queried)
    BY <1>1 DEF Keeps, Asks, Plain, Shape, Fields
  <2>2. Alike(asked, queried) /\ queried.commands = asked.commands
    BY <1>1 DEF Alike, Keeps, Plain, Shape, Fields
  <2> HIDE DEF queried
  <2>3. Asked(queried) = Asked(asked) /\ Asking(queried)
    BY <1>1, <2>2 DEF Asked, Viewed, Asking
  <2> QED
    BY <1>1, <2>1, <2>2, <2>3, ViewedAlike
<1> HIDE DEF queried
<1>3. /\ Keeps(P, threads) /\ Viewed(threads, s)
      /\ \A c \in Range(threads.commands) : c \in Range(P.commands) \/ c.name \in {"frame", "info"}
  <2>1. Keeps(P, ThreadsUpdate(queried, st)) /\ Viewed(ThreadsUpdate(queried, st), s)
    BY <1>2, ThreadsUpdateKeeps, ThreadsUpdateViewed, KeepsTwice DEF Keeps
  <2>2. \A c \in Range(ThreadsUpdate(queried, st).commands) :
          c \in Range(queried.commands) \/ c.name = "info"
    BY <1>2, ThreadsUpdateViewed DEF Keeps
  <2> QED
    BY <1>1, <1>2, <2>1, <2>2
<1> HIDE DEF threads
<1>4. st = "DEBUG" => Debugs(threads, s, {"frame", "info"})
  <2>1. ASSUME st = "DEBUG" PROVE \A c \in Range(threads.commands) : c.name \in {"frame", "info"}
    BY <1>3, <2>1 DEF Debugs
  <2> QED
    BY <1>3, <2>1, DebugsMore
<1>5. Keeps(P, stack) /\ Viewed(stack, s)
  <2>1. st = "DEBUG" => Debugs(threads, s, {"frame", "info", "frames", "locals"})
    BY <1>4 DEF Debugs
  <2>2. Viewed(StackUpdate(threads, st), s)
    BY <1>3, <2>1, StackUpdateViewed DEF Keeps
  <2>3. Keeps(P, StackUpdate(threads, st))
    BY <1>3, StackUpdateKeeps, KeepsTwice DEF Keeps
  <2> QED
    BY <1>3, <2>2, <2>3
<1>6. CASE Shown(P, "locals") /\ ~skip
  <2>1. ASSUME st = "DEBUG" PROVE stack = threads
    <3>1. CASE "stack" \notin threads.dirty
      BY <3>1 DEF StackUpdate
    <3>2. CASE "stack" \in threads.dirty
      <4>1. stack.state \in AtStop
        BY <1>5, <2>1 DEF Debugs, Keeps, AtStop
      <4>2. ~all
        BY <1>6, <3>2, <4>1
      <4>3. ~Shown(P, "stack")
        BY <1>6, <4>2 DEF Shown
      <4> QED
        BY <4>3
    <3> QED
      BY <3>1, <3>2
  <2>2. st = "DEBUG" => Debugs(stack, s, {"frame", "info"})
    BY <1>4, <2>1
  <2> HIDE DEF stack
  <2>3. Viewed(LocalsUpdate(stack, st), s)
    BY <1>5, <2>2, LocalsUpdateViewed DEF Keeps
  <2> QED
    BY <1>0, <1>6, <2>3
<1>7. CASE ~(Shown(P, "locals") /\ ~skip)
  <2> HIDE DEF stack
  <2> QED
    BY <1>0, <1>5, <1>7
<1> QED
  BY <1>6, <1>7

LEMMA ViewsUpdateGood ==
  ASSUME NEW P, NEW s, IsSeq(s), Good(P, s), Deep
  PROVE  Good(ViewsUpdate(P, DebugState(P)), s)
<1> DEFINE st == DebugState(P)
<1>1. Plain(P)
  BY DEF Good, Base, Placed, Rowed
<1>2. st = "DEBUG" => Debugs(P, s, {"frame"})
  BY InDebug DEF Good, Debugs
<1> HIDE DEF st
<1>3. Viewed(ViewsUpdate(P, st), s) /\ Keeps(P, ViewsUpdate(P, st))
  BY <1>1, <1>2, ViewsUpdateViewed, ViewsUpdateKeeps DEF Good
<1> QED
  BY <1>3, BaseKept DEF Good, st

(* views_context_dirty()                                                     *)
LEMMA ContextDirtyGood ==
  ASSUME NEW P, NEW s, IsSeq(s), Base(P, s), NEW views, Viewed(Dirty(P, views), s), Deep
  PROVE  Good(ContextDirty(P, views, DebugState(P)), s)
<1> DEFINE D == Dirty(P, views)
<1>1. Plain(P) /\ Keeps(P, D)
  BY MarksKeep DEF Base, Placed, Rowed
<1>2. Good(D, s)
  BY <1>1, BaseKept DEF Good
<1>3. DebugState(D) = DebugState(P)
  BY <1>1 DEF Dirty, DebugState, Plain, Shape, Fields
<1>4. ContextDirty(P, views, DebugState(P)) =
        IF DebugState(P) # "BUSY" /\ all THEN ViewsUpdate(D, DebugState(D)) ELSE D
  BY <1>3 DEF ContextDirty
<1> HIDE DEF D
<1> QED
  BY <1>2, <1>4, ViewsUpdateGood

(* on_stack_selection_changed()                                              *)
LEMMA SelectFrameGood ==
  ASSUME NEW P, NEW s, IsSeq(s), Good(P, s), Deep, NEW f \in Frame, f = 0 \/ f < P.stack.depth
  PROVE  Good(SelectFrame(P, f), s)
<1> DEFINE Q == [P EXCEPT !.selected = f, !.frame = f]
           D == Dirty(Q, {"locals"})
<1>1. Plain(P) /\ f # NULL
  BY ScopeAssumption DEF Good, Base, Placed, Rowed, Frame
<1>2. /\ Keeps(P, Q) /\ Q.id = P.id /\ Q.frame = f /\ Q.selected = f /\ Q.stack = P.stack
      /\ Q.commands = P.commands /\ Q.dirty = P.dirty
  BY <1>1 DEF Keeps, Asks, Plain, Shape, Fields
<1>3. SelectFrame(P, f) = ContextDirty(Q, {"locals"}, DebugState(Q))
  BY DEF SelectFrame
<1> HIDE DEF Q
<1>4. Base(Q, s)
  BY <1>2, BaseKept DEF Good
<1>5. /\ D.id = P.id /\ D.frame = f /\ D.selected = f /\ D.stack = P.stack
      /\ D.commands = P.commands /\ D.dirty = P.dirty \cup {"locals"}
  BY <1>2, <1>4 DEF Dirty, Base, Placed, Rowed, Plain, Shape, Fields
<1> HIDE DEF D
<1>6. Framed(D) /\ Asking(D) /\ Asked(D) = Asked(P)
  BY <1>1, <1>5 DEF Good, Viewed, Framed, Asking, Asked
<1>7. D.id \in Live => StackInStep(D, s) /\ LocalsInStep(D, s)
  BY <1>5, <1>6 DEF Good, Viewed, StackInStep, StackAsked, LocalsInStep
<1>8. Viewed(D, s)
  BY <1>6, <1>7 DEF Viewed
<1> QED
  BY <1>3, <1>4, <1>8, ContextDirtyGood DEF D

-------------------------------------------------------------------------------
(* A thread that is selected                                                 *)

(* What a record about t, to be selected, is worth before                    *)
Selectable(P, s) ==
  Rowed(P) /\ Asking(P) /\ Resuming(P.rows, P.waitPrompt, s) /\ Idle(P.waitPrompt, s)

LEMMA SelectionGood ==
  ASSUME NEW P, NEW s, IsSeq(s), Selectable(P, s), Deep, NEW t \in Known(P) \cup {NULL}
  PROVE  LET Q == SelectionChanged(P, t) IN
         Good(Q, s) /\ Q.rows = P.rows /\ Q.waitPrompt = P.waitPrompt /\ Q.gdb = P.gdb
<1> DEFINE at(row) == IF row.state # "Stopped"
                      THEN (IF row.state = "" THEN "BLANK" ELSE "RUNNING")
                      ELSE IF row.addr THEN "AT_SOURCE" ELSE "STOPPED"
           none == [P EXCEPT !.id = NULL, !.frame = NULL, !.state = "BLANK"]
           some == [P EXCEPT !.id = t, !.frame = 0, !.state = at(P.rows[t])]
           moved == IF t = NULL THEN none ELSE some
           queried == [moved EXCEPT !.state = "QUERY_FRAME"]
           known == IF moved.state # "STOPPED" THEN moved
                    ELSE IF DebugState(moved) = "DEBUG" THEN QueryFrame(moved)
                    ELSE queried
           both == {"stack", "locals"}
           D == Dirty(known, both)
<1>0. SelectionChanged(P, t) = ContextDirty(known, both, DebugState(known))
  BY DEF SelectionChanged
<1>1. Plain(P) /\ 0 \in Frame
  BY ScopeAssumption DEF Selectable, Rowed, Frame
<1> DEFINE Same(Q) == /\ Plain(Q) /\ Q.rows = P.rows /\ Q.gdb = P.gdb /\ Q.waitPrompt = P.waitPrompt
                      /\ Q.frame \in {NULL, 0} /\ Asking(Q)
                      /\ Q.state \in AtStop => Q.id \in Known(P) /\ P.rows[Q.id].state = "Stopped"
<1>2. Same(moved) /\ moved.commands = P.commands
  <2>1. /\ Shape(moved) /\ moved.rows = P.rows /\ moved.gdb = P.gdb
        /\ moved.waitPrompt = P.waitPrompt /\ moved.commands = P.commands
        /\ moved.frame \in {NULL, 0} /\ moved.id = t
        /\ moved.state = IF t = NULL THEN "BLANK" ELSE at(P.rows[t])
    <3>1. CASE t = NULL
      BY <1>1, <3>1 DEF Plain, Shape, Fields
    <3>2. CASE t # NULL
      BY <1>1, <3>2 DEF Plain, Shape, Fields
    <3> QED
      BY <3>1, <3>2
  <2> HIDE DEF moved
  <2>2. Plain(moved)
    BY <1>1, <2>1 DEF Plain
  <2>3. Asking(moved)
    BY <2>1 DEF Selectable, Rowed, Asking, Asked
  <2>4. moved.state \in AtStop => moved.id \in Known(P) /\ P.rows[moved.id].state = "Stopped"
    BY <2>1 DEF AtStop
  <2> QED
    BY <2>1, <2>2, <2>3, <2>4
<1> HIDE DEF moved
<1>3. ASSUME moved.state = "STOPPED" PROVE Same(queried)
  <2>1. /\ Shape(queried) /\ queried.rows = P.rows /\ queried.gdb = P.gdb
        /\ queried.waitPrompt = P.waitPrompt /\ queried.commands = moved.commands
        /\ queried.frame = moved.frame /\ queried.id = moved.id
    BY <1>2 DEF Plain, Shape, Fields
  <2> HIDE DEF queried
  <2>2. Plain(queried) /\ Asking(queried)
    BY <1>2, <2>1 DEF Plain, Asking, Asked
  <2> QED
    BY <1>2, <1>3, <2>1, <2>2 DEF AtStop
<1>4. Same(QueryFrame(moved))
  <2> DEFINE Q == QueryFrame(moved)
             c == Request("frame", moved.id, NULL)
  <2>1. /\ Keeps(moved, Q) /\ Alike(moved, Q) /\ Q.state = moved.state
        /\ Asked(Q) = Asked(moved) \cup (IF moved.gdb = "ACTIVE" THEN {c} ELSE {})
    BY <1>2, SendKeeps, SendAsks DEF QueryFrame, Launching
  <2>2. c.name = "frame"
    BY DEF Request
  <2> HIDE DEF Q, c
  <2>3. Asking(Q)
    BY <1>2, <2>1, <2>2 DEF Asking
  <2> QED
    BY <1>2, <2>1, <2>3 DEF Keeps, Asks, Alike, Q
<1>5. Same(known)
  BY <1>2, <1>3, <1>4
<1> HIDE DEF known
<1>6. Base(known, s)
  BY <1>5 DEF Base, Placed, Rowed, Selectable, Rowed, Known
<1>7. Viewed(D, s)
  <2>1. D.frame = known.frame /\ D.commands = known.commands /\ "stack" \in D.dirty /\ "locals" \in D.dirty
    BY <1>5 DEF Dirty, Plain, Shape, Fields
  <2> HIDE DEF D
  <2>2. Framed(D) /\ Asking(D)
    BY <1>5, <2>1 DEF Framed, Asking, Asked
  <2> QED
    BY <2>1, <2>2 DEF Viewed, StackInStep, LocalsInStep
<1> DEFINE Q == ContextDirty(known, both, DebugState(known))
<1>8. Good(Q, s)
  BY <1>6, <1>7, ContextDirtyGood
<1>9. Keeps(known, Q)
  BY <1>5, ContextDirtyKeeps
<1> HIDE DEF Q
<1> QED
  BY <1>0, <1>5, <1>8, <1>9 DEF Keeps, Asks, Q

LEMMA GoodSelectable ==
  ASSUME NEW P, NEW s, Good(P, s)
  PROVE  Selectable(P, s)
  BY DEF Good, Base, Placed, Rowed, Viewed, Selectable, Rowed

LEMMA CursorGood ==
  ASSUME NEW P, NEW s, IsSeq(s), Good(P, s), Deep, NEW t \in Known(P)
  PROVE  LET Q == SetCursor(P, t) IN
         Good(Q, s) /\ Q.rows = P.rows /\ Q.waitPrompt = P.waitPrompt /\ Q.gdb = P.gdb
  BY SelectionGood, GoodSelectable DEF SetCursor

LEMMA FirstStopped ==
  ASSUME NEW P, Known(P) \subseteq Thread, Stopped(P) # {}
  PROVE  (CHOOSE t \in Stopped(P) : \A u \in Stopped(P) : t <= u) \in Known(P)
<1>1. Stopped(P) \subseteq Nat /\ Stopped(P) \subseteq Known(P)
  BY ScopeAssumption DEF Stopped, Thread
<1> DEFINE Less == {p \in Nat \X Nat : p[1] < p[2]}
<1>2. IsWellFoundedOn(Less, Nat)
  BY NatLessThanWellFounded DEF OpToRel
<1>3. PICK m \in Stopped(P) : \A u \in Stopped(P) : ~(<<u, m>> \in Less)
  BY <1>1, <1>2, WFMin
<1>4. ASSUME NEW u \in Stopped(P) PROVE m <= u
  <2>1. u \in Nat /\ m \in Nat
    BY <1>1
  <2>2. u < m => <<u, m>> \in Less
    BY <2>1
  <2> QED
    BY <1>3, <2>1, <2>2
<1> QED
  BY <1>1, <1>4

LEMMA AutoSelectGood ==
  ASSUME NEW P, NEW s, IsSeq(s), Good(P, s), Deep
  PROVE  LET Q == AutoSelect(P) IN
         Good(Q, s) /\ Q.rows = P.rows /\ Q.waitPrompt = P.waitPrompt /\ Q.gdb = P.gdb
<1> DEFINE first == CHOOSE t \in Stopped(P) : \A u \in Stopped(P) : t <= u
<1>1. ASSUME Stopped(P) # {} PROVE first \in Known(P)
  BY <1>1, FirstStopped DEF Good, Base, Placed, Rowed
<1>2. AutoSelect(P) = IF Stopped(P) = {} THEN P ELSE SetCursor(P, first)
  BY DEF AutoSelect
<1> HIDE DEF first
<1> QED
  BY <1>1, <1>2, CursorGood

-------------------------------------------------------------------------------
(* A record that is read                                                     *)

(* Records tell of threads created before, and an answer on the way holds    *)
(* still unless its thread stops after it.                                   *)
Numbered(s) ==
  \A i \in 1..Len(s) :
    /\ \A t \in Thread : Tells(s[i], t) => t \in 1..created
    /\ s[i].kind = "stopped" => s[i].thread \in s[i].data

Answered(s) ==
  \A i \in 1..Len(s) : s[i].kind \in {"stack", "locals"} =>
    LET d == s[i].data IN
    /\ d.of \in 1..created
    /\ d.of \in Live =>
         \/ Stopping(s, d.of, i + 1)
         \/ d = IF s[i].kind = "stack" THEN StackOf(d.of) ELSE LocalsOf(d.of, d.frame)

(* The rows follow the record r: a thread is known as stopped that was so,   *)
(* or that r tells of.                                                       *)
Follows(before, after, r) ==
  \A t \in DOMAIN after : after[t].state = "Stopped" =>
    IF Tells(r, t) THEN Says(r, t) = "Stopped"
    ELSE t \in DOMAIN before /\ before[t].state = "Stopped"

LEMMA ResumingTail ==
  ASSUME NEW s, IsSeq(s), s # <<>>, NEW before, NEW wait \in BOOLEAN, Resuming(before, wait, s),
         Idle(wait, s), NEW after, NEW waits \in BOOLEAN, Follows(before, after, Head(s)),
         Head(s).kind # "prompt" => waits = wait
  PROVE  Resuming(after, waits, Tail(s))
<1> DEFINE u == Tail(s)
           n == Len(s)
           r == Head(s)
<1>1. /\ IsSeq(u) /\ n \in Nat \ {0} /\ Len(u) = n - 1 /\ r = s[1]
      /\ \A i \in 1..(n - 1) : u[i] = s[i + 1]
  BY TailOf
<1> HIDE DEF u, r
<1>2. ASSUME NEW t, NEW j \in 2..n, Resumes(s, wait, j, t)
      PROVE  j - 1 \in 1..(n - 1) /\ Resumes(u, waits, j - 1, t)
  <2>1. j - 1 \in 1..(n - 1) /\ (j - 1) + 1 = j /\ u[j - 1] = s[j] /\ s[j - 1].kind = "done" /\ j # 1
    BY <1>1, <1>2 DEF Resumes
  <2>2. CASE j = 2
    <3>1. r.kind = "done" /\ j - 1 = 1
      BY <1>1, <2>1, <2>2
    <3>2. 1 \in Answers(s)
      BY <1>1, <3>1 DEF Answers, At, Results
    <3>3. waits
      BY <3>1, <3>2, Zenon DEF Idle, r
    <3> QED
      BY <1>2, <2>1, <3>1, <3>3 DEF Resumes
  <2>3. CASE j # 2
    <3>1. j - 2 \in 1..(n - 1) /\ (j - 2) + 1 = j - 1 /\ (j - 1) - 1 = j - 2 /\ j - 1 # 1
      BY <2>1, <2>3
    <3>2. u[j - 2] = s[j - 1]
      BY <1>1, <3>1
    <3> QED
      BY <1>2, <2>1, <3>1, <3>2 DEF Resumes
  <2> QED
    BY <2>2, <2>3
<1>3. ASSUME NEW t \in Live, target[t].running, t \in DOMAIN after, after[t].state = "Stopped"
      PROVE  \E j \in 2..n : Resumes(s, wait, j, t)
  <2>1. CASE Tells(r, t)
    <3>1. Says(r, t) = "Stopped"
      BY <1>3, <2>1 DEF Follows, r
    <3>2. \E j \in (1 + 1)..n : Resumes(s, wait, j, t)
      BY <1>1, <1>3, <2>1, <3>1 DEF Resuming
    <3> QED
      BY <3>2
  <2>2. CASE ~Tells(r, t)
    <3>1. t \in DOMAIN before /\ before[t].state = "Stopped"
      BY <1>3, <2>2 DEF Follows, r
    <3>2. PICK j \in 1..n : Resumes(s, wait, j, t)
      BY <1>3, <3>1 DEF Resuming
    <3>3. j # 1
      BY <1>1, <2>2, <3>2 DEF Resumes, Tells
    <3> QED
      BY <1>1, <3>2, <3>3
  <2> QED
    BY <2>1, <2>2
<1>4. ASSUME NEW t \in Live, target[t].running, NEW i \in 1..(n - 1), Tells(u[i], t), Says(u[i], t) = "Stopped"
      PROVE  \E j \in (i + 1)..(n - 1) : Resumes(u, waits, j, t)
  <2>1. i + 1 \in 1..n /\ s[i + 1] = u[i]
    BY <1>1
  <2>2. PICK j \in ((i + 1) + 1)..n : Resumes(s, wait, j, t)
    BY <1>4, <2>1 DEF Resuming
  <2>3. j \in 2..n /\ j - 1 \in (i + 1)..(n - 1)
    BY <1>1, <2>2
  <2> QED
    BY <1>2, <2>2, <2>3
<1>5. ASSUME NEW t \in Live, target[t].running, t \in DOMAIN after, after[t].state = "Stopped"
      PROVE  \E j \in 1..(n - 1) : Resumes(u, waits, j, t)
  <2>1. PICK j \in 2..n : Resumes(s, wait, j, t)
    BY <1>3, <1>5
  <2> QED
    BY <1>2, <2>1
<1> QED
  BY <1>1, <1>4, <1>5 DEF Resuming, u

(* The head of s has no say in the views, or what is shown is in step.       *)
LEMMA ViewedTail ==
  ASSUME NEW P, NEW s, IsSeq(s), s # <<>>, Viewed(P, s), NEW r, r = Head(s),
         P.id \in Live /\ (\/ r.kind = "stack" /\ r.data.of = P.id
                           \/ r.kind = "stopped" /\ P.id \in r.data) => StackInStep(P, Tail(s)),
         P.id \in Live /\ (\/ r.kind = "locals" /\ r.data.of = P.id /\ r.data.frame = P.frame
                           \/ r.kind = "stopped" /\ P.id \in r.data) => LocalsInStep(P, Tail(s))
  PROVE  Viewed(P, Tail(s))
<1> DEFINE u == Tail(s)
           n == Len(s)
<1>1. /\ IsSeq(u) /\ n \in Nat \ {0} /\ Len(u) = n - 1 /\ r = s[1]
      /\ \A i \in 1..(n - 1) : u[i] = s[i + 1]
  BY TailOf
<1> HIDE DEF u
<1>2. ASSUME NEW i \in 1..n, i # 1 PROVE i - 1 \in 1..(n - 1) /\ u[i - 1] = s[i]
  <2>1. i - 1 \in 1..(n - 1) /\ (i - 1) + 1 = i
    BY <1>1, <1>2
  <2> QED
    BY <1>1, <2>1
<1>3. ASSUME NEW t, Stopping(s, t, 1), ~(r.kind = "stopped" /\ t \in r.data) PROVE Stopping(u, t, 1)
  <2>1. PICK j \in 1..n : s[j].kind = "stopped" /\ t \in s[j].data
    BY <1>3 DEF Stopping
  <2>2. j # 1
    BY <1>1, <1>3, <2>1
  <2> QED
    BY <1>1, <1>2, <2>1, <2>2 DEF Stopping
<1>4. ASSUME P.id \in Live, ~(r.kind = "stack" /\ r.data.of = P.id),
             ~(r.kind = "stopped" /\ P.id \in r.data)
      PROVE  StackInStep(P, u)
  <2>1. StackInStep(P, s)
    BY <1>4 DEF Viewed
  <2>2. ASSUME StackComing(s, P.id) PROVE StackComing(u, P.id)
    <3>1. PICK i \in 1..n : s[i].kind = "stack" /\ s[i].data.of = P.id
      BY <2>2 DEF StackComing
    <3>2. i # 1
      BY <1>1, <1>4, <3>1
    <3> QED
      BY <1>1, <1>2, <3>1, <3>2 DEF StackComing
  <2> QED
    BY <1>3, <1>4, <2>1, <2>2 DEF StackInStep, StackAsked
<1>5. ASSUME P.id \in Live, ~(r.kind = "locals" /\ r.data.of = P.id /\ r.data.frame = P.frame),
             ~(r.kind = "stopped" /\ P.id \in r.data)
      PROVE  LocalsInStep(P, u)
  <2>1. LocalsInStep(P, s)
    BY <1>5 DEF Viewed
  <2>2. ASSUME LocalsComing(s, P.id, P.frame) PROVE LocalsComing(u, P.id, P.frame)
    <3>1. PICK i \in 1..n : s[i].kind = "locals" /\ s[i].data.of = P.id /\ s[i].data.frame = P.frame
      BY <2>2 DEF LocalsComing
    <3>2. i # 1
      BY <1>1, <1>5, <3>1
    <3> QED
      BY <1>1, <1>2, <3>1, <3>2 DEF LocalsComing
  <2> QED
    BY <1>3, <1>5, <2>1, <2>2 DEF LocalsInStep, LocalsAsked
<1> QED
  BY <1>4, <1>5 DEF Viewed, u

LEMMA PipeTail ==
  ASSUME NEW s, IsSeq(s), s # <<>>
  PROVE  /\ Numbered(s) => Numbered(Tail(s))
         /\ Answered(s) => Answered(Tail(s))
         /\ Answers(s) = {} => Answers(Tail(s)) = {}
<1> DEFINE u == Tail(s)
           n == Len(s)
<1>1. /\ IsSeq(u) /\ n \in Nat \ {0} /\ Len(u) = n - 1
      /\ \A i \in 1..(n - 1) : i + 1 \in 1..n /\ u[i] = s[i + 1]
  BY TailOf
<1> HIDE DEF u
<1>2. Numbered(s) => Numbered(u)
  BY <1>1 DEF Numbered
<1>3. ASSUME NEW i \in 1..(n - 1), NEW t, Stopping(s, t, (i + 1) + 1) PROVE Stopping(u, t, i + 1)
  <2>1. PICK j \in ((i + 1) + 1)..n : s[j].kind = "stopped" /\ t \in s[j].data
    BY <1>3 DEF Stopping
  <2>2. j - 1 \in (i + 1)..(n - 1) /\ j - 1 \in 1..(n - 1) /\ (j - 1) + 1 = j
    BY <1>1, <2>1
  <2>3. u[j - 1] = s[j]
    BY <1>1, <2>2
  <2> QED
    BY <1>1, <2>1, <2>2, <2>3 DEF Stopping
<1>4. ASSUME Answered(s), NEW i \in 1..(n - 1), u[i].kind \in {"stack", "locals"}
      PROVE  /\ u[i].data.of \in 1..created
             /\ u[i].data.of \in Live =>
                  \/ Stopping(u, u[i].data.of, i + 1)
                  \/ u[i].data = IF u[i].kind = "stack" THEN StackOf(u[i].data.of)
                                 ELSE LocalsOf(u[i].data.of, u[i].data.frame)
  <2> DEFINE d == u[i].data
  <2>1. i + 1 \in 1..n /\ u[i] = s[i + 1]
    BY <1>1
  <2>2. /\ d.of \in 1..created
        /\ d.of \in Live => \/ Stopping(s, d.of, (i + 1) + 1)
                            \/ d = IF u[i].kind = "stack" THEN StackOf(d.of) ELSE LocalsOf(d.of, d.frame)
    BY <1>4, <2>1 DEF Answered
  <2> QED
    BY <1>3, <2>2
<1>5. Answered(s) => Answered(u)
  BY <1>1, <1>4 DEF Answered
<1>6. Answers(s) = {} => Answers(u) = {}
  BY <1>1 DEF Answers, At
<1> QED
  BY <1>2, <1>5, <1>6 DEF u

LEMMA SoundPlaced ==
  ASSUME NEW P, Typed(P), Selected(P), Known(P) \subseteq 1..created
  PROVE  Placed(P)
<1>1. Plain(P)
  BY TypedIsPlain
<1> QED
  BY <1>1 DEF Placed, Rowed, Typed, Selected

(* All that is known when the first of s is read                             *)
Reading(P, s) ==
  /\ IsSeq(s) /\ s # <<>> /\ Sound(P) /\ Known(P) \subseteq 1..created /\ Live \subseteq Thread /\ Deep
  /\ Resuming(P.rows, P.waitPrompt, s) /\ Idle(P.waitPrompt, s) /\ Viewed(P, s) /\ Answered(s)

LEMMA ReadResuming ==
  ASSUME NEW P, NEW s, Reading(P, s), NEW M, M.waitPrompt \in BOOLEAN,
         Follows(P.rows, M.rows, Head(s)), Head(s).kind # "prompt" => M.waitPrompt = P.waitPrompt
  PROVE  Resuming(M.rows, M.waitPrompt, Tail(s))
<1>1. P.waitPrompt \in BOOLEAN
  BY DEF Reading, Sound, Typed
<1> QED
  BY <1>1, ResumingTail DEF Reading

LEMMA IdleTail ==
  ASSUME NEW P, NEW s, Reading(P, s)
  PROVE  Idle(P.waitPrompt, Tail(s))
  BY PipeTail DEF Reading, Idle

(* Rows and states changed only, and views to be updated                     *)
LEMMA ReadGood ==
  ASSUME NEW P, NEW s, Reading(P, s), NEW M, Placed(M), M.waitPrompt = P.waitPrompt,
         NEW r, r = Head(s), Follows(P.rows, M.rows, r),
         Alike(P, M), M.commands = P.commands, r.kind \notin {"stack", "locals"},
         r.kind = "stopped" /\ P.id \in r.data /\ P.id \in Live => {"stack", "locals"} \subseteq M.dirty
  PROVE  Good(M, Tail(s))
<1>w. M.waitPrompt \in BOOLEAN
  BY DEF Reading, Sound, Typed
<1>1. Base(M, Tail(s))
  BY <1>w, IdleTail, ReadResuming DEF Base
<1>2. Asked(M) = Asked(P) /\ Asking(M)
  BY DEF Asked, Asking, Reading, Viewed
<1>3. Viewed(M, s)
  BY <1>2, ViewedAlike DEF Reading
<1>4. Viewed(M, Tail(s))
  BY <1>3, ViewedTail DEF Reading, Alike, StackInStep, LocalsInStep
<1> QED
  BY <1>1, <1>4 DEF Good

LEMMA RunningGood ==
  ASSUME NEW P, NEW s, Reading(P, s), NEW r, r = Head(s), r.kind = "running"
  PROVE  Good(OnThreadRunning(P, r.data), Tail(s))
<1> DEFINE M == ItersRunning(P, r.data)
<1>1. /\ Typed(M) /\ Selected(M) /\ Known(M) = Known(P) /\ Asks(P, M)
      /\ \A t \in Known(P) : M.rows[t].state = IF t \in r.data THEN "Running" ELSE P.rows[t].state
  BY ItersRunningSound DEF Reading, Sound
<1>2. Alike(P, M) /\ M.commands = P.commands
  BY DEF ItersRunning, Alike, Reading, Sound, Typed, Shape, Fields
<1>3. OnThreadRunning(P, r.data) \in {M, AutoSelect(M)}
  BY DEF OnThreadRunning
<1> HIDE DEF M
<1>4. Follows(P.rows, M.rows, r)
  BY <1>1 DEF Follows, Known, Tells
<1>5. Good(M, Tail(s))
  BY <1>1, <1>2, <1>4, SoundPlaced, ReadGood DEF Reading, Asks
<1>6. IsSeq(Tail(s)) /\ Deep
  BY TailOf DEF Reading
<1> QED
  BY <1>3, <1>5, <1>6, AutoSelectGood

LEMMA StoppedGood ==
  ASSUME NEW P, NEW s, Reading(P, s), NEW r, r = Head(s), r.kind = "stopped"
  PROVE  Good(OnThreadStopped(P, r.thread, r.data), Tail(s))
<1> DEFINE t == r.thread
           ts == r.data
           framed == IF t \in Known(P) THEN ParseFrame(P, t) ELSE P
           marked == ItersStopped(framed, ts)
           found == ({t} \cup ts) \cap Known(P)
           first == IF t \in found THEN t ELSE CHOOSE u \in found : TRUE
<1>1. OnThreadStopped(P, t, ts) = IF SelectOnStopped /\ marked.state \notin AtStop /\ found # {}
                                  THEN SetCursor(marked, first) ELSE marked
  BY DEF OnThreadStopped
<1>2. /\ Sound(framed) /\ Known(framed) = Known(P) /\ Asks(P, framed)
      /\ \A u \in Known(P) : framed.rows[u].state = IF u = t THEN "Stopped" ELSE P.rows[u].state
  BY ParseFrameSound DEF Asks, Reading
<1>3. Alike(P, framed) /\ framed.commands = P.commands
  BY DEF ParseFrame, Alike, Reading, Sound, Typed, Shape, Fields
<1> HIDE DEF framed
<1>4. /\ Sound(marked) /\ Known(marked) = Known(P) /\ Asks(P, marked)
      /\ \A u \in Known(P) : marked.rows[u].state =
                               IF u = t \/ u \in ts THEN "Stopped" ELSE P.rows[u].state
  BY <1>2, ItersStoppedSound DEF Asks
<1>5. /\ Alike(framed, marked) /\ marked.commands = framed.commands
      /\ framed.id \in ts \cap Known(P) => {"stack", "locals"} \subseteq marked.dirty
  <2> DEFINE set == ts \cap Known(framed)
             rows == [u \in Known(framed) |-> IF u \in set THEN [framed.rows[u] EXCEPT !.state = "Stopped"]
                                              ELSE framed.rows[u]]
             prompt == framed.prompt + Cardinality(set \ Stopped(framed))
             state == IF framed.id \in set /\ ~framed.rows[framed.id].addr THEN "QUERY_FRAME" ELSE framed.state
             Q == WithRows(framed, rows, prompt, state)
             other == IF \E u \in set \ {framed.id} : ~framed.rows[u].addr THEN {"threads"} ELSE {}
  <2>1. marked = IF framed.id \in set THEN Dirty(Dirty(Q, other), {"stack", "locals"}) ELSE Dirty(Q, other)
    <3>1. Q = [framed EXCEPT !.rows = rows, !.prompt = @ + Cardinality(set \ Stopped(framed)),
                             !.state = IF framed.id \in set /\ ~framed.rows[framed.id].addr
                                       THEN "QUERY_FRAME" ELSE @]
      BY <1>2 DEF WithRows, Sound, Typed, Shape, Fields
    <3> HIDE DEF Q
    <3> QED
      BY <3>1 DEF ItersStopped, DataDirty
  <2>2. Shape(Q) /\ Alike(framed, Q) /\ Q.commands = framed.commands
    <3> HIDE DEF rows, prompt, state
    <3> QED
      BY <1>2 DEF WithRows, Alike, Sound, Typed, Shape, Fields
  <2> HIDE DEF Q, other, marked
  <2> DEFINE D == Dirty(Q, other)
             E == Dirty(D, {"stack", "locals"})
  <2>3. Shape(D) /\ Alike(Q, D) /\ D.commands = Q.commands
    BY <2>2 DEF Dirty, Alike, Shape, Fields
  <2> HIDE DEF D
  <2>4. Alike(D, E) /\ E.commands = D.commands /\ {"stack", "locals"} \subseteq E.dirty
    BY <2>3 DEF Dirty, Alike, Shape, Fields
  <2> HIDE DEF E
  <2>5. marked = IF framed.id \in ts \cap Known(P) THEN E ELSE D
    BY <1>2, <2>1 DEF D, E
  <2>6. CASE framed.id \in ts \cap Known(P)
    BY <2>2, <2>3, <2>4, <2>5, <2>6 DEF Alike
  <2>7. CASE framed.id \notin ts \cap Known(P)
    BY <2>2, <2>3, <2>5, <2>7 DEF Alike
  <2> QED
    BY <2>6, <2>7
<1>6. found # {} => first \in Known(P)
  OBVIOUS
<1> HIDE DEF marked, found, first
<1>7. Alike(P, marked) /\ marked.commands = P.commands
  BY <1>3, <1>5 DEF Alike
<1>8. P.id \in ts /\ P.id \in Live => {"stack", "locals"} \subseteq marked.dirty
  <2>1. P.id \in Live => P.id \in Known(P)
    BY ScopeAssumption DEF Reading, Sound, Selected, Thread
  <2>2. framed.id = P.id
    BY <1>3 DEF Alike
  <2> QED
    BY <1>5, <2>1, <2>2
<1>9. Follows(P.rows, marked.rows, r)
  BY <1>4 DEF Follows, Known, Tells, Says
<1>10. Good(marked, Tail(s))
  BY <1>4, <1>7, <1>8, <1>9, SoundPlaced, ReadGood DEF Reading, Asks, Sound
<1>11. IsSeq(Tail(s)) /\ Deep
  BY TailOf DEF Reading
<1> QED
  BY <1>1, <1>4, <1>6, <1>10, <1>11, CursorGood

(* Fields changed that nothing is said of                                    *)
LEMMA OthersGood ==
  ASSUME NEW P, NEW s, Good(P, s), NEW Q, Shape(Q), Alike(P, Q), Q.commands = P.commands,
         Q.rows = P.rows, Q.gdb \in {P.gdb, "KILLING"}, Q.waitPrompt = P.waitPrompt, Q.state = P.state
  PROVE  Good(Q, s)
<1>1. Base(Q, s)
  BY DEF Good, Base, Placed, Rowed, Plain, Alike, Known
<1>2. Asked(Q) = Asked(P) /\ Asking(Q)
  BY DEF Asked, Asking, Good, Viewed
<1> QED
  BY <1>1, <1>2, ViewedAlike DEF Good

LEMMA GdbThreadGood ==
  ASSUME NEW P, NEW s, Good(P, s), NEW t
  PROVE  Good([P EXCEPT !.gdbThread = t], s)
<1> DEFINE Q == [P EXCEPT !.gdbThread = t]
<1>1. /\ Shape(Q) /\ Alike(P, Q) /\ Q.commands = P.commands /\ Q.rows = P.rows /\ Q.gdb = P.gdb
      /\ Q.waitPrompt = P.waitPrompt /\ Q.state = P.state
  BY DEF Good, Base, Placed, Rowed, Plain, Alike, Shape, Fields
<1> HIDE DEF Q
<1> QED
  BY <1>1, OthersGood DEF Q

LEMMA CreatedGood ==
  ASSUME NEW P, NEW s, Reading(P, s), NEW r, r = Head(s), r.kind = "created",
         r.thread \in Thread \ Known(P), r.thread \in 1..created
  PROVE  Good(OnThreadCreated(P, r.thread), Tail(s))
<1> DEFINE t == r.thread
           row == [state |-> "", addr |-> FALSE]
           rows == [u \in Known(P) \cup {t} |-> IF u = t THEN row ELSE P.rows[u]]
           count == P.count + 1
           R == [P EXCEPT !.count = count, !.rows = rows]
           Q == Send(R, "info", t, NULL)
           S == [Q EXCEPT !.gdbThread = t]
<1>p. Sound(P) /\ IsSeq(Tail(s)) /\ Deep
  BY TailOf DEF Reading
<1>1. /\ Shape(R) /\ R.rows = rows /\ R.state = P.state /\ R.id = P.id /\ R.gdb = P.gdb
      /\ R.commands = P.commands /\ R.waitPrompt = P.waitPrompt /\ R.frame = P.frame
      /\ Alike(P, R)
  <2> HIDE DEF rows, count
  <2> QED
    BY <1>p DEF Alike, Sound, Typed, Shape, Fields
<1>0. OnThreadCreated(P, t) = IF Q.count = 1 THEN (IF t \in Known(S) THEN SetCursor(S, t) ELSE S) ELSE Q
  <2>1. R = [P EXCEPT !.count = @ + 1, !.rows = rows]
    BY <1>p DEF Sound, Typed, Shape, Fields
  <2> HIDE DEF R
  <2>2. Plain(R)
    BY <1>p, <1>1 DEF Plain, Sound, Typed
  <2>3. Keeps(R, Q)
    BY <2>2, SendKeeps DEF Launching
  <2>4. OnThreadCreated(P, t) = IF Q.count = 1 THEN SetGdbThread(Q, t, TRUE) ELSE Q
    BY <2>1 DEF OnThreadCreated
  <2> HIDE DEF Q
  <2>5. Known(S) = Known(Q)
    BY <2>3 DEF Keeps, Plain, Shape, Fields, Known
  <2> QED
    BY <2>4, <2>5 DEF SetGdbThread
<1> HIDE DEF R
<1>2. /\ DOMAIN rows = Known(P) \cup {t} /\ rows[t].state = "" /\ \A u \in Known(P) : rows[u] = P.rows[u]
  OBVIOUS
<1> HIDE DEF rows
<1>3. Known(R) = Known(P) \cup {t}
  BY <1>1, <1>2 DEF Known
<1>4. Placed(R)
  <2>1. Plain(R) /\ R.gdb \in {"INACTIVE", "ACTIVE", "KILLING"}
    BY <1>p, <1>1 DEF Plain, Sound, Typed
  <2>2. P.state \in AtStop => P.id \in Known(P) /\ P.rows[P.id].state = "Stopped"
    BY <1>p DEF Sound, Selected
  <2> QED
    BY <1>1, <1>2, <1>3, <2>1, <2>2 DEF Placed, Rowed, Reading, Sound, Typed
<1>5. Follows(P.rows, R.rows, r)
  BY <1>1, <1>2 DEF Follows, Tells, Known
<1>6. Good(R, Tail(s))
  BY <1>1, <1>4, <1>5, ReadGood
<1>7. Good(Q, Tail(s))
  <2>1. Plain(R)
    BY <1>4 DEF Placed, Rowed
  <2>2. Keeps(R, Q) /\ Viewed(Q, Tail(s))
    BY <1>6, <2>1, SendKeeps, SendViewed DEF Launching, Good
  <2> QED
    BY <1>6, <2>2, BaseKept DEF Good
<1> HIDE DEF Q
<1>8. Good(S, Tail(s))
  BY <1>7, GdbThreadGood
<1> QED
  BY <1>p, <1>0, <1>7, <1>8, CursorGood

LEMMA AutoExitGood ==
  ASSUME NEW P, NEW s, Good(P, s)
  PROVE  Good(AutoExit(P), s)
<1> DEFINE Q == Send(P, "exit", NULL, NULL)
           R == [Q EXCEPT !.gdb = "KILLING"]
<1>1. Plain(P) /\ Base(P, s) /\ Viewed(P, s)
  BY DEF Good, Base, Placed, Rowed
<1>2. Keeps(P, Q) /\ Viewed(Q, s)
  BY <1>1, SendKeeps, SendViewed DEF Launching
<1>3. Good(Q, s)
  BY <1>1, <1>2, BaseKept DEF Good
<1>4. AutoExit(P) = IF P.autoExit THEN R ELSE P
  BY DEF AutoExit
<1> HIDE DEF Q
<1>5. /\ Shape(R) /\ Alike(Q, R) /\ R.commands = Q.commands /\ R.rows = Q.rows /\ R.gdb = "KILLING"
      /\ R.waitPrompt = Q.waitPrompt /\ R.state = Q.state
  BY <1>2 DEF Keeps, Plain, Alike, Shape, Fields
<1> HIDE DEF R
<1> QED
  BY <1>3, <1>4, <1>5, OthersGood

LEMMA ExitedGood ==
  ASSUME NEW P, NEW s, Reading(P, s), NEW r, r = Head(s), r.kind = "exited",
         NEW next \in Known(P) \cup {NULL}, r.thread \in Known(P), P.id = r.thread => next # r.thread
  PROVE  Good(OnThreadExited(P, r.thread, next), Tail(s))
<1> DEFINE t == r.thread
           rows == [u \in Known(P) \ {t} |-> P.rows[u]]
           prompt == P.prompt - (IF t \in Stopped(P) THEN 1 ELSE 0)
           gdbThread == IF P.gdbThread = t THEN NULL ELSE P.gdbThread
           gone == [P EXCEPT !.rows = rows, !.prompt = prompt, !.gdbThread = gdbThread]
           moved == IF P.id = t THEN SelectionChanged(gone, next) ELSE gone
           chosen == IF P.id = t /\ SelectOnExited THEN AutoSelect(moved) ELSE moved
           counted == [chosen EXCEPT !.count = @ - 1]
           u == Tail(s)
<1>p. Sound(P) /\ IsSeq(u) /\ Deep
  BY TailOf DEF Reading
<1>0. OnThreadExited(P, t, next) \in {counted, AutoExit(counted)}
  <2>1. gone = [P EXCEPT !.rows = rows, !.prompt = @ - (IF t \in Stopped(P) THEN 1 ELSE 0),
                         !.gdbThread = IF @ = t THEN NULL ELSE @]
    BY <1>p DEF Sound, Typed, Shape, Fields
  <2> HIDE DEF gone
  <2> QED
    BY <2>1 DEF OnThreadExited
<1>1. /\ Shape(gone) /\ gone.rows = rows /\ gone.state = P.state /\ gone.id = P.id /\ gone.gdb = P.gdb
      /\ gone.commands = P.commands /\ gone.waitPrompt = P.waitPrompt /\ gone.frame = P.frame
      /\ Alike(P, gone)
  <2> HIDE DEF rows, prompt, gdbThread
  <2> QED
    BY <1>p DEF Alike, Sound, Typed, Shape, Fields
<1> HIDE DEF gone
<1>2. DOMAIN rows = Known(P) \ {t} /\ \A v \in Known(P) \ {t} : rows[v] = P.rows[v]
  OBVIOUS
<1> HIDE DEF rows
<1>3. Known(gone) = Known(P) \ {t}
  BY <1>1, <1>2 DEF Known
<1>4. Rowed(gone)
  BY <1>p, <1>1, <1>3 DEF Rowed, Plain, Reading, Sound, Typed
<1>5. Follows(P.rows, gone.rows, r)
  BY <1>1, <1>2 DEF Follows, Tells, Known
<1>6. Good(moved, u)
  <2>1. CASE P.id = t
    <3>1. gone.waitPrompt \in BOOLEAN
      BY <1>p, <1>1 DEF Sound, Typed
    <3>2. Resuming(gone.rows, gone.waitPrompt, u) /\ Idle(gone.waitPrompt, u)
      BY <1>1, <1>5, <3>1, ReadResuming, IdleTail
    <3>3. Asking(gone)
      BY <1>1 DEF Reading, Viewed, Asking, Asked
    <3>4. Selectable(gone, u)
      BY <1>4, <3>2, <3>3 DEF Selectable
    <3>5. next \in Known(gone) \cup {NULL}
      BY <1>3, <2>1
    <3> QED
      BY <1>p, <2>1, <3>4, <3>5, SelectionGood
  <2>2. CASE P.id # t
    <3>1. P.state \in AtStop => P.id \in Known(P) /\ P.rows[P.id].state = "Stopped"
      BY <1>p DEF Sound, Selected
    <3>2. Placed(gone)
      BY <1>1, <1>2, <1>3, <1>4, <2>2, <3>1 DEF Placed
    <3> QED
      BY <1>1, <1>5, <2>2, <3>2, ReadGood
  <2> QED
    BY <2>1, <2>2
<1> HIDE DEF moved
<1>7. Good(chosen, u)
  BY <1>p, <1>6, AutoSelectGood
<1> HIDE DEF chosen
<1>8. Good(counted, u)
  <2>1. /\ Shape(counted) /\ Alike(chosen, counted) /\ counted.commands = chosen.commands
        /\ counted.rows = chosen.rows /\ counted.gdb = chosen.gdb
        /\ counted.waitPrompt = chosen.waitPrompt /\ counted.state = chosen.state
    BY <1>7 DEF Good, Base, Placed, Rowed, Plain, Alike, Shape, Fields
  <2> HIDE DEF counted
  <2> QED
    BY <1>7, <2>1, OthersGood
<1> HIDE DEF counted
<1> QED
  BY <1>0, <1>8, AutoExitGood

LEMMA InfoGood ==
  ASSUME NEW P, NEW s, Reading(P, s), NEW r, r = Head(s), r.kind = "threads"
  PROVE  Good(OnThreadInfo(P, r.data, r.thread), Tail(s))
<1> DEFINE parsed == OnThreadInfo(P, r.data, NULL)
           S == [parsed EXCEPT !.gdbThread = r.thread]
<1>p. Sound(P) /\ IsSeq(Tail(s)) /\ Deep
  BY TailOf DEF Reading
<1>1. /\ Sound(parsed) /\ Known(parsed) = Known(P) /\ Asks(P, parsed)
      /\ \A t \in Known(P) : parsed.rows[t].state =
           IF t \notin DOMAIN r.data THEN P.rows[t].state
           ELSE IF r.data[t] THEN "Running" ELSE "Stopped"
  BY <1>p, InfoSound
<1>2. Alike(P, parsed) /\ parsed.commands = P.commands
  BY <1>p DEF OnThreadInfo, ItersRunning, Alike, Sound, Typed, Shape, Fields
<1>3. OnThreadInfo(P, r.data, r.thread) =
        IF r.thread = NULL THEN parsed ELSE SetGdbThread(parsed, r.thread, SelectFollow)
  BY DEF OnThreadInfo
<1> HIDE DEF parsed
<1>4. Follows(P.rows, parsed.rows, r)
  BY <1>1 DEF Follows, Tells, Says, Known
<1>5. Good(parsed, Tail(s))
  BY <1>1, <1>2, <1>4, SoundPlaced, ReadGood DEF Reading, Asks, Sound
<1>6. Good(S, Tail(s))
  BY <1>5, GdbThreadGood
<1>7. SetGdbThread(parsed, r.thread, SelectFollow) =
        IF SelectFollow /\ r.thread \in Known(parsed) THEN SetCursor(S, r.thread) ELSE S
  BY DEF SetGdbThread
<1>8. Known(S) = Known(parsed)
  BY <1>1 DEF Sound, Typed, Shape, Fields, Known
<1> HIDE DEF S
<1> QED
  BY <1>p, <1>3, <1>5, <1>6, <1>7, <1>8, CursorGood

LEMMA FrameGood ==
  ASSUME NEW P, NEW s, Reading(P, s), NEW r, r = Head(s), r.kind = "frame"
  PROVE  Good(OnThreadFrame(P, r.thread), Tail(s))
<1> DEFINE M == OnThreadFrame(P, r.thread)
<1>1. /\ Sound(M) /\ Known(M) = Known(P) /\ Asks(P, M)
      /\ \A t \in Known(P) : M.rows[t].state = IF t = r.thread THEN "Stopped" ELSE P.rows[t].state
  BY ParseFrameSound DEF OnThreadFrame, Reading, Asks
<1>2. Alike(P, M) /\ M.commands = P.commands
  BY DEF OnThreadFrame, ParseFrame, Alike, Reading, Sound, Typed, Shape, Fields
<1> HIDE DEF M
<1>3. Follows(P.rows, M.rows, r)
  BY <1>1 DEF Follows, Tells, Says, Known
<1> QED
  BY <1>1, <1>2, <1>3, SoundPlaced, ReadGood DEF Reading, Asks, Sound, M

(* Nothing is read of the threads.                                           *)
LEMMA SameGood ==
  ASSUME NEW P, NEW s, Reading(P, s), NEW r, r = Head(s),
         r.kind \notin {"running", "stopped", "threads", "frame", "stack", "locals"},
         r.kind = "prompt" => Idle(P.waitPrompt, Tail(s))
  PROVE  Good(P, Tail(s))
<1>1. Follows(P.rows, P.rows, r)
  BY DEF Follows, Tells
<1>2. Placed(P)
  BY SoundPlaced DEF Reading, Sound
<1>3. Alike(P, P)
  BY DEF Alike
<1> QED
  BY <1>1, <1>2, <1>3, ReadGood

LEMMA LaunchGood ==
  ASSUME NEW P, NEW s, Good(P, s), Sound(P), NEW name \in {"start", "run"}
  PROVE  Good(Send(P, name, NULL, NULL), s)
<1> DEFINE Q == Send(P, name, NULL, NULL)
<1>1. /\ Sound(Q) /\ Known(Q) = Known(P) /\ Q.rows = P.rows /\ Q.waitPrompt = P.waitPrompt
  BY SendSound
<1>2. Plain(P) /\ Viewed(P, s)
  BY DEF Good, Base, Placed, Rowed
<1>3. Viewed(Q, s)
  BY <1>2, SendViewed
<1> HIDE DEF Q
<1>4. Placed(Q)
  BY <1>1, SoundPlaced DEF Sound, Good, Base, Placed, Rowed
<1> QED
  BY <1>1, <1>3, <1>4 DEF Good, Base, Q

(* on_stack_frames(): the stack that is shown is the one asked for.          *)
LEMMA StackGood ==
  ASSUME NEW P, NEW s, Reading(P, s), NEW r, r = Head(s), r.kind = "stack"
  PROVE  Good(OnStackFrames(P, r.data), Tail(s))
<1> DEFINE u == Tail(s)
           shown == r.data
           R == StackClear(P)
           empty == [R EXCEPT !.stack = shown]
           same == IF P.frame # NULL /\ P.frame < shown.depth THEN SelectFrame(empty, P.frame) ELSE empty
<1>0. OnStackFrames(P, shown) = IF shown.of # P.id THEN P
                                ELSE IF same.frame = NULL THEN SelectFrame(same, 0) ELSE same
  BY DEF OnStackFrames
<1>p. Sound(P) /\ IsSeq(u) /\ Deep /\ Plain(P) /\ Viewed(P, s) /\ Placed(P) /\ 0 \in Frame
  BY TailOf, TypedIsPlain, SoundPlaced, ScopeAssumption DEF Reading, Sound, Frame
<1>1. Base(P, u)
  <2>1. Follows(P.rows, P.rows, r)
    BY DEF Follows, Tells
  <2>2. P.waitPrompt \in BOOLEAN
    BY <1>p DEF Sound, Typed
  <2> QED
    BY <1>p, <2>1, <2>2, IdleTail, ReadResuming DEF Base
<1>2. CASE shown.of # P.id
  <2>1. Viewed(P, u)
    BY <1>p, <1>2, ViewedTail DEF Reading
  <2> QED
    BY <1>0, <1>1, <1>2, <2>1 DEF Good
<1>3. CASE shown.of = P.id
  <2>1. /\ Viewed(R, s) /\ R.selected = NULL /\ R.id = P.id /\ R.commands = P.commands
        /\ R.frame \in {NULL, 0}
    BY <1>p, StackClearViewed
  <2>2. Keeps(P, R)
    BY <1>p, StackClearKeeps
  <2> HIDE DEF R
  <2>3. /\ Keeps(R, empty) /\ empty.id = R.id /\ empty.commands = R.commands /\ empty.frame = R.frame
        /\ empty.stack = shown /\ empty.locals = R.locals /\ empty.dirty = R.dirty
    BY <2>2 DEF Keeps, Asks, Plain, Shape, Fields
  <2> HIDE DEF empty
  <2>4. Base(empty, u)
    BY <1>1, <2>2, <2>3, BaseKept, KeepsTwice
  <2>5. /\ IsSeq(s) /\ Len(s) \in Nat \ {0} /\ s[1] = r /\ Len(u) = Len(s) - 1
        /\ \A i \in 1..(Len(s) - 1) : u[i] = s[i + 1]
    BY TailOf DEF Reading
  <2>6. Viewed(empty, s)
    <3>1. Framed(empty) /\ Asking(empty) /\ Asked(empty) = Asked(R)
      BY <2>1, <2>3 DEF Viewed, Framed, Asking, Asked
    <3>2. StackInStep(empty, s)
      BY <1>3, <2>1, <2>3, <2>5 DEF StackInStep, StackAsked, StackComing
    <3>3. empty.id \in Live => LocalsInStep(empty, s)
      BY <2>1, <2>3, <3>1 DEF Viewed, LocalsInStep, LocalsAsked
    <3> QED
      BY <3>1, <3>2, <3>3 DEF Viewed
  <2>7. ASSUME empty.id \in Live PROVE StackInStep(empty, u)
    <3>1. Stopping(s, P.id, 1 + 1) \/ shown = StackOf(P.id)
      BY <1>3, <2>1, <2>3, <2>5, <2>7 DEF Reading, Answered
    <3>2. CASE shown = StackOf(P.id)
      BY <2>1, <2>3, <3>2 DEF StackInStep
    <3>3. CASE Stopping(s, P.id, 1 + 1)
      <4>1. PICK j \in (1 + 1)..Len(s) : s[j].kind = "stopped" /\ P.id \in s[j].data
        BY <3>3 DEF Stopping
      <4>2. j - 1 \in 1..(Len(s) - 1) /\ (j - 1) + 1 = j
        BY <2>5, <4>1
      <4>3. u[j - 1] = s[j]
        BY <2>5, <4>2
      <4> QED
        BY <2>1, <2>3, <2>5, <4>1, <4>2, <4>3 DEF StackInStep, Stopping
    <3> QED
      BY <3>1, <3>2, <3>3
  <2>8. Viewed(empty, u)
    BY <2>6, <2>7, ViewedTail DEF Reading
  <2>9. Good(empty, u)
    BY <2>4, <2>8 DEF Good
  <2>10. Good(same, u)
    <3>1. P.frame \in Frame \cup {NULL}
      BY <1>p DEF Plain
    <3> QED
      BY <1>p, <2>3, <2>9, <3>1, SelectFrameGood
  <2> HIDE DEF same
  <2> QED
    BY <1>0, <1>3, <1>p, <2>10, SelectFrameGood
<1> QED
  BY <1>2, <1>3

(* on_local_variables()                                                      *)
LEMMA LocalsGood ==
  ASSUME NEW P, NEW s, Reading(P, s), NEW r, r = Head(s), r.kind = "locals"
  PROVE  Good(OnLocalVariables(P, r.data), Tail(s))
<1> DEFINE u == Tail(s)
           shown == r.data
           Q == [P EXCEPT !.locals = shown]
<1>p. Sound(P) /\ Plain(P) /\ Viewed(P, s) /\ Placed(P)
  BY TypedIsPlain, SoundPlaced DEF Reading, Sound
<1>1. Base(P, u)
  <2>1. Follows(P.rows, P.rows, r)
    BY DEF Follows, Tells
  <2>2. P.waitPrompt \in BOOLEAN
    BY <1>p DEF Sound, Typed
  <2> QED
    BY <1>p, <2>1, <2>2, IdleTail, ReadResuming DEF Base
<1>2. CASE ~(shown.of = P.id /\ shown.frame = P.frame)
  <2>1. Viewed(P, u)
    BY <1>p, <1>2, ViewedTail DEF Reading
  <2>2. OnLocalVariables(P, shown) = P
    BY <1>2 DEF OnLocalVariables
  <2> QED
    BY <1>1, <2>1, <2>2 DEF Good
<1>3. CASE shown.of = P.id /\ shown.frame = P.frame
  <2>1. OnLocalVariables(P, shown) = Q
    BY <1>3 DEF OnLocalVariables
  <2>2. /\ Keeps(P, Q) /\ Q.id = P.id /\ Q.commands = P.commands /\ Q.frame = P.frame
        /\ Q.selected = P.selected /\ Q.stack = P.stack /\ Q.locals = shown /\ Q.dirty = P.dirty
    BY <1>p DEF Keeps, Asks, Plain, Shape, Fields
  <2> HIDE DEF Q
  <2>3. Base(Q, u)
    BY <1>1, <2>2, BaseKept
  <2>4. /\ IsSeq(s) /\ Len(s) \in Nat \ {0} /\ s[1] = r /\ Len(u) = Len(s) - 1
        /\ \A i \in 1..(Len(s) - 1) : u[i] = s[i + 1]
    BY TailOf DEF Reading
  <2>5. Viewed(Q, s)
    <3>1. Framed(Q) /\ Asking(Q) /\ Asked(Q) = Asked(P)
      BY <1>p, <2>2 DEF Viewed, Framed, Asking, Asked
    <3>2. Q.id \in Live => StackInStep(Q, s)
      BY <1>p, <2>2, <3>1 DEF Viewed, StackInStep, StackAsked
    <3>3. LocalsInStep(Q, s)
      BY <1>3, <2>2, <2>4 DEF LocalsInStep, LocalsAsked, LocalsComing
    <3> QED
      BY <3>1, <3>2, <3>3 DEF Viewed
  <2>6. ASSUME Q.id \in Live PROVE LocalsInStep(Q, u)
    <3>1. Stopping(s, P.id, 1 + 1) \/ shown = LocalsOf(P.id, P.frame)
      BY <1>3, <2>2, <2>4, <2>6 DEF Reading, Answered
    <3>2. CASE shown = LocalsOf(P.id, P.frame)
      BY <2>2, <3>2 DEF LocalsInStep
    <3>3. CASE Stopping(s, P.id, 1 + 1)
      <4>1. PICK j \in (1 + 1)..Len(s) : s[j].kind = "stopped" /\ P.id \in s[j].data
        BY <3>3 DEF Stopping
      <4>2. j - 1 \in 1..(Len(s) - 1) /\ (j - 1) + 1 = j
        BY <2>4, <4>1
      <4>3. u[j - 1] = s[j]
        BY <2>4, <4>2
      <4> QED
        BY <2>2, <2>4, <4>1, <4>2, <4>3 DEF LocalsInStep, Stopping
    <3> QED
      BY <3>1, <3>2, <3>3
  <2>7. Viewed(Q, u)
    BY <2>5, <2>6, ViewedTail DEF Reading
  <2> QED
    BY <2>1, <2>3, <2>7 DEF Good
<1> QED
  BY <1>2, <1>3

LEMMA HandledGood ==
  ASSUME NEW P, NEW s, Reading(P, s), NEW r, r = Head(s), r.kind # "prompt",
         NEW next \in Known(P) \cup {NULL},
         r.kind = "created" => r.thread \in Thread \ Known(P) /\ r.thread \in 1..created,
         r.kind = "exited" => r.thread \in Known(P) /\ (P.id = r.thread => next # r.thread)
  PROVE  Good(Handled(P, r, next), Tail(s))
<1>1. CASE r.kind = "running"
  BY <1>1, RunningGood DEF Handled
<1>2. CASE r.kind = "stopped"
  BY <1>2, StoppedGood DEF Handled
<1>3. CASE r.kind = "created"
  BY <1>3, CreatedGood DEF Handled
<1>4. CASE r.kind = "exited"
  BY <1>4, ExitedGood DEF Handled
<1>5. CASE r.kind \in {"loaded", "started"}
  <2>1. Good(P, Tail(s)) /\ Sound(P)
    BY <1>5, SameGood DEF Reading
  <2>2. Good(Send(P, "start", NULL, NULL), Tail(s)) /\ Good(Send(P, "run", NULL, NULL), Tail(s))
    BY <2>1, LaunchGood
  <2> QED
    BY <1>5, <2>1, <2>2 DEF Handled
<1>6. CASE r.kind = "threads"
  BY <1>6, InfoGood DEF Handled
<1>7. CASE r.kind = "frame"
  BY <1>7, FrameGood DEF Handled
<1>8. CASE r.kind = "stack"
  BY <1>8, StackGood DEF Handled
<1>9. CASE r.kind = "locals"
  BY <1>9, LocalsGood DEF Handled
<1>10. CASE r.kind \in {"error", "exit"}
  <2>1. Good(P, Tail(s))
    BY <1>10, SameGood
  <2> DEFINE E == [P EXCEPT !.autoRun = FALSE]
             K == [P EXCEPT !.gdb = "KILLING"]
  <2>2. Plain(P)
    BY <2>1 DEF Good, Base, Placed, Rowed
  <2>3. /\ Shape(E) /\ Alike(P, E) /\ E.commands = P.commands /\ E.rows = P.rows /\ E.gdb = P.gdb
        /\ E.waitPrompt = P.waitPrompt /\ E.state = P.state
    BY <2>2 DEF Plain, Alike, Shape, Fields
  <2>4. /\ Shape(K) /\ Alike(P, K) /\ K.commands = P.commands /\ K.rows = P.rows /\ K.gdb = "KILLING"
        /\ K.waitPrompt = P.waitPrompt /\ K.state = P.state
    BY <2>2 DEF Plain, Alike, Shape, Fields
  <2>5. Handled(P, r, next) \in {E, K}
    BY <1>10 DEF Handled
  <2> HIDE DEF E, K
  <2> QED
    BY <2>1, <2>3, <2>4, <2>5, OthersGood
<1>11. CASE r.kind \notin {"running", "stopped", "created", "exited", "loaded", "started", "threads",
                           "frame", "stack", "locals", "error", "exit"}
  <2>1. Handled(P, r, next) = P
    BY <1>11 DEF Handled
  <2> QED
    BY <1>11, <2>1, SameGood
<1> QED
  BY <1>1, <1>2, <1>3, <1>4, <1>5, <1>6, <1>7, <1>8, <1>9, <1>10, <1>11

LEMMA PromptGood ==
  ASSUME NEW P, NEW s, Reading(P, s), Head(s).kind = "prompt", NEW b \in BOOLEAN,
         ~b => input = <<>> /\ Answers(Tail(s)) = {},
         NEW Q, Q = WithWait(P, P.waitResult, b)
  PROVE  Good(Q, Tail(s))
<1>1. Sound(P) /\ P.waitResult \in Nat
  BY DEF Reading, Sound, Typed
<1>2. /\ Sound(Q) /\ Known(Q) = Known(P) /\ Q.rows = P.rows /\ Q.commands = P.commands
      /\ Q.waitPrompt = b
  BY <1>1, WaitSound
<1>3. Alike(P, Q)
  BY <1>1 DEF WithWait, Alike, Sound, Typed, Shape, Fields
<1>4. Follows(P.rows, Q.rows, Head(s))
  BY <1>2 DEF Follows, Tells
<1>5. Base(Q, Tail(s))
  <2>1. Placed(Q)
    BY <1>2, SoundPlaced DEF Reading, Sound
  <2>2. Q.waitPrompt \in BOOLEAN
    BY <1>2 DEF Sound, Typed
  <2>3. Resuming(Q.rows, Q.waitPrompt, Tail(s))
    BY <1>4, <2>2, ReadResuming
  <2>4. Idle(Q.waitPrompt, Tail(s))
    BY <1>2, Zenon DEF Idle
  <2> QED
    BY <2>1, <2>3, <2>4 DEF Base
<1>6. Asked(Q) = Asked(P) /\ Asking(Q)
  BY <1>2 DEF Asked, Asking, Reading, Viewed
<1>7. Viewed(Q, s)
  BY <1>3, <1>6, ViewedAlike DEF Reading
<1>8. Viewed(Q, Tail(s))
  BY <1>7, ViewedTail DEF Reading
<1> QED
  BY <1>5, <1>8 DEF Good

LEMMA ParseGood ==
  ASSUME NEW P, NEW s, Reading(P, s), NEW r, r = Head(s), NEW next \in Known(P) \cup {NULL},
         r.kind = "created" => r.thread \in Thread \ Known(P) /\ r.thread \in 1..created,
         r.kind = "exited" => r.thread \in Known(P) /\ (P.id = r.thread => next # r.thread),
         r.kind = "prompt" /\ P.waitResult = 0 => input = <<>> /\ Answers(Tail(s)) = {}
  PROVE  Good(DebugParse(P, r, next), Tail(s))
<1>p. Sound(P) /\ P.waitResult \in Nat /\ P.waitPrompt \in BOOLEAN
  BY DEF Reading, Sound, Typed
<1>1. CASE r.kind = "prompt"
  <2> DEFINE b == P.waitResult > 0
             Q == [P EXCEPT !.waitResult = P.waitResult, !.waitPrompt = b]
  <2>1. b \in BOOLEAN
    BY <1>p
  <2>2. Q = WithWait(P, P.waitResult, b)
    BY DEF WithWait
  <2>3. DebugParse(P, r, next) = Q
    BY <1>1, <1>p DEF DebugParse, Sound, Typed, Shape, Fields
  <2>4. ~b => input = <<>> /\ Answers(Tail(s)) = {}
    BY <1>1, <1>p
  <2> HIDE DEF b, Q
  <2> QED
    BY <1>1, <2>1, <2>2, <2>3, <2>4, PromptGood
<1>2. CASE r.kind # "prompt"
  <2> DEFINE counts == r.kind \in Results /\ P.waitResult > 0
             n == IF counts THEN P.waitResult - 1 ELSE P.waitResult
             Q == [P EXCEPT !.waitResult = n, !.waitPrompt = P.waitPrompt]
  <2>1. n \in Nat
    BY <1>p
  <2>2. Q = WithWait(P, n, P.waitPrompt)
    BY DEF WithWait
  <2>3. Q = IF counts THEN [P EXCEPT !.waitResult = @ - 1] ELSE P
    <3> HIDE DEF counts
    <3> QED
      BY <1>p DEF Sound, Typed, Shape, Fields
  <2> HIDE DEF n, Q
  <2>4. /\ Sound(Q) /\ Known(Q) = Known(P) /\ Q.id = P.id /\ Q.rows = P.rows
        /\ Q.commands = P.commands /\ Q.waitPrompt = P.waitPrompt
    BY <1>p, <2>1, <2>2, WaitSound
  <2>5. Alike(P, Q)
    BY <1>p, <2>2 DEF WithWait, Alike, Sound, Typed, Shape, Fields
  <2>6. Asked(Q) = Asked(P) /\ Asking(Q)
    BY <2>4 DEF Asked, Asking, Reading, Viewed
  <2>7. Viewed(Q, s)
    BY <2>5, <2>6, ViewedAlike DEF Reading
  <2>8. Reading(Q, s)
    BY <2>4, <2>7 DEF Reading
  <2>9. DebugParse(P, r, next) = Handled(Q, r, next)
    BY <1>2, <2>3 DEF DebugParse
  <2> QED
    BY <1>2, <2>4, <2>8, <2>9, HandledGood
<1> QED
  BY <1>1, <1>2

-------------------------------------------------------------------------------
(* Not busy, what is on the screen was updated                               *)

UpToDate(P) ==
  DebugState(P) = "DEBUG" => \A v \in {"stack", "locals"} : Shown(P, v) => v \notin P.dirty

LEMMA ThreadsUpdateFresh ==
  ASSUME NEW P, Plain(P), P.gdb = "ACTIVE", NEW st
  PROVE  LET Q == ThreadsUpdate(P, st) IN Q.commands # <<>> \/ Q = P
<1> DEFINE sent == Send(P, "info", NULL, NULL)
<1>1. Shape(sent) /\ sent.commands # <<>>
  BY SendAsks, SendKeeps DEF Keeps, Plain, Launching
<1> HIDE DEF sent
<1>2. Clean(sent, "threads").commands # <<>>
  BY <1>1 DEF Clean, Shape, Fields
<1> QED
  BY <1>2 DEF ThreadsUpdate, sent

LEMMA StackUpdateFresh ==
  ASSUME NEW P, Plain(P), P.gdb = "ACTIVE"
  PROVE  LET Q == StackUpdate(P, "DEBUG") IN Q.commands # <<>> \/ (Q = P /\ "stack" \notin P.dirty)
<1> DEFINE sent == Send(P, "frames", P.id, NULL)
<1>1. Shape(sent) /\ sent.commands # <<>>
  BY SendAsks, SendKeeps DEF Keeps, Plain, Launching
<1> HIDE DEF sent
<1>2. Clean(sent, "stack").commands # <<>>
  BY <1>1 DEF Clean, Shape, Fields
<1> QED
  BY <1>2 DEF StackUpdate, sent

LEMMA LocalsUpdateFresh ==
  ASSUME NEW P, Plain(P), P.gdb = "ACTIVE"
  PROVE  LET Q == LocalsUpdate(P, "DEBUG") IN
         \/ Q.commands # <<>>
         \/ Q.commands = P.commands /\ Q.view = P.view /\ "locals" \notin Q.dirty /\ Q.dirty \subseteq P.dirty
<1> DEFINE sent == Send(P, "locals", P.id, P.frame)
           none == [P EXCEPT !.locals = NoLocals]
           Q == Clean(none, "locals")
<1>1. Shape(sent) /\ sent.commands # <<>>
  BY SendAsks, SendKeeps DEF Keeps, Plain, Launching
<1> HIDE DEF sent
<1>2. Clean(sent, "locals").commands # <<>>
  BY <1>1 DEF Clean, Shape, Fields
<1>3. /\ Q.commands = P.commands /\ Q.view = P.view /\ Q.dirty = P.dirty \ {"locals"}
  BY DEF Clean, Plain, Shape, Fields
<1>4. LocalsUpdate(P, "DEBUG") = IF "locals" \notin P.dirty THEN P
                                 ELSE IF "stack" \in P.dirty THEN StackUpdate(P, "DEBUG")
                                 ELSE IF P.frame # NULL THEN Clean(sent, "locals") ELSE Q
  BY DEF LocalsUpdate, sent
<1> HIDE DEF Q
<1> QED
  BY <1>2, <1>3, <1>4, StackUpdateFresh

LEMMA ViewsUpdateFresh ==
  ASSUME NEW P, Plain(P), P.gdb = "ACTIVE"
  PROVE  LET Q == ViewsUpdate(P, "DEBUG") IN
         \/ Q.commands # <<>>
         \/ Q.view = P.view /\ \A v \in {"stack", "locals"} : Shown(P, v) => v \notin Q.dirty
<1> DEFINE st == "DEBUG"
           asks == P.state = "QUERY_FRAME" /\ ~("threads" \in P.dirty /\ Shown(P, "threads"))
           asked == IF asks THEN QueryFrame(P) ELSE P
           queried == [asked EXCEPT !.state = IF @ = "QUERY_FRAME" THEN "STOPPED" ELSE @]
           threads == IF Shown(P, "threads") THEN ThreadsUpdate(queried, st) ELSE queried
           stack == IF Shown(P, "stack") THEN StackUpdate(threads, st) ELSE threads
           skip == all /\ "stack" \in threads.dirty /\ stack.state \in AtStop
           Q == ViewsUpdate(P, st)
<1>0. Q = IF Shown(P, "locals") /\ ~skip THEN LocalsUpdate(stack, st) ELSE stack
  BY DEF ViewsUpdate
<1>1. Keeps(P, asked) /\ (asked.commands # <<>> \/ asked = P)
  BY SendAsks, SendKeeps, KeepsItself DEF QueryFrame, Launching
<1> HIDE DEF asks, asked
<1>2. /\ Keeps(P, queried) /\ queried.commands = asked.commands
      /\ queried.view = asked.view /\ queried.dirty = asked.dirty
  BY <1>1 DEF Keeps, Asks, Plain, Shape, Fields
<1> HIDE DEF queried
<1>3. Keeps(P, threads) /\ (threads.commands # <<>> \/ threads = queried)
  <2>1. Plain(queried) /\ queried.gdb = "ACTIVE"
    BY <1>2 DEF Keeps
  <2> QED
    BY <1>2, <2>1, ThreadsUpdateFresh, ThreadsUpdateKeeps, KeepsTwice
<1> HIDE DEF threads
<1>4. /\ Keeps(P, stack)
      /\ stack.commands # <<>> \/ (stack = threads /\ (Shown(P, "stack") => "stack" \notin threads.dirty))
  <2>1. Plain(threads) /\ threads.gdb = "ACTIVE"
    BY <1>3 DEF Keeps
  <2> QED
    BY <1>3, <2>1, StackUpdateFresh, StackUpdateKeeps, KeepsTwice
<1> HIDE DEF stack
<1>5. \/ LocalsUpdate(stack, st).commands # <<>>
      \/ /\ LocalsUpdate(stack, st).commands = stack.commands
         /\ LocalsUpdate(stack, st).view = stack.view
         /\ "locals" \notin LocalsUpdate(stack, st).dirty
         /\ LocalsUpdate(stack, st).dirty \subseteq stack.dirty
  BY <1>4, LocalsUpdateFresh DEF Keeps
<1>6. SUFFICES ASSUME Q.commands = <<>>
               PROVE  Q.view = P.view /\ \A v \in {"stack", "locals"} : Shown(P, v) => v \notin Q.dirty
  OBVIOUS
<1>7. stack.commands = <<>> /\ Q.view = stack.view /\ Q.dirty \subseteq stack.dirty
  BY <1>0, <1>5, <1>6
<1>8. stack = threads /\ (Shown(P, "stack") => "stack" \notin stack.dirty)
  BY <1>4, <1>7
<1>9. threads = queried /\ asked = P /\ stack.view = P.view
  BY <1>1, <1>2, <1>3, <1>7, <1>8
<1>10. ASSUME Shown(P, "locals") PROVE "locals" \notin Q.dirty
  <2>1. ~skip
    BY <1>8 DEF Shown
  <2> QED
    BY <1>0, <1>5, <1>6, <1>10, <2>1
<1> HIDE DEF Q
<1> QED
  BY <1>7, <1>8, <1>9, <1>10

LEMMA InDebugging ==
  ASSUME NEW P, P.gdb \in {"INACTIVE", "ACTIVE", "KILLING"}
  PROVE  DebugState(P) = "DEBUG" <=>
           /\ P.gdb = "ACTIVE" /\ ~P.waitPrompt /\ P.commands = <<>>
           /\ P.count # 0 /\ P.state \in AtStop
  BY DEF DebugState

LEMMA Updated ==
  ASSUME NEW P, Rowed(P), DebugState(P) # "BUSY" \/ P.commands = <<>>
  PROVE  UpToDate(ViewsUpdate(P, DebugState(P)))
<1> DEFINE Q == ViewsUpdate(P, DebugState(P))
<1>1. Plain(P) /\ Keeps(P, Q)
  BY ViewsUpdateKeeps DEF Rowed
<1>2. SUFFICES ASSUME DebugState(Q) = "DEBUG"
               PROVE  \A v \in {"stack", "locals"} : Shown(Q, v) => v \notin Q.dirty
  BY DEF UpToDate
<1>q. Q = ViewsUpdate(P, DebugState(P))
  OBVIOUS
<1> HIDE DEF Q
<1>3. Q.gdb = "ACTIVE" /\ ~Q.waitPrompt /\ Q.commands = <<>> /\ Q.count # 0 /\ Q.state \in AtStop
  BY <1>1, <1>2, InDebugging DEF Keeps, Rowed
<1>4. P.gdb = "ACTIVE" /\ Q.waitPrompt = P.waitPrompt /\ P.count # 0 /\ P.state \in AtStop
  BY <1>1, <1>3 DEF Keeps, Asks, AtStop
<1>5. P.commands = <<>>
  BY <1>4 DEF DebugState
<1>6. ~P.waitPrompt
  BY <1>3, <1>4, Zenon
<1>7. DebugState(P) = "DEBUG"
  BY <1>4, <1>5, <1>6, InDebugging
<1>8. Q.view = P.view /\ \A v \in {"stack", "locals"} : Shown(P, v) => v \notin Q.dirty
  BY <1>1, <1>3, <1>4, <1>7, <1>q, ViewsUpdateFresh
<1> QED
  BY <1>8 DEF Shown

(* views_context_dirty(): with all views they are updated at once.           *)
LEMMA ContextDirtyFresh ==
  ASSUME NEW P, Rowed(P), NEW views
  PROVE  LET Q == ContextDirty(P, views, DebugState(P)) IN
         IF all THEN UpToDate(Q) ELSE Q = Dirty(P, views)
<1> DEFINE D == Dirty(P, views)
<1>1. Rowed(D) /\ DebugState(D) = DebugState(P)
  <2>1. Plain(D) /\ D.gdb = P.gdb /\ D.rows = P.rows
    BY DEF Rowed, Dirty, Plain, Shape, Fields
  <2>2. DebugState(D) = DebugState(P)
    BY DEF Rowed, Dirty, DebugState, Plain, Shape, Fields
  <2> HIDE DEF D
  <2> QED
    BY <2>1, <2>2 DEF Rowed, Known
<1>2. ContextDirty(P, views, DebugState(P)) =
        IF DebugState(P) # "BUSY" /\ all THEN ViewsUpdate(D, DebugState(D)) ELSE D
  BY <1>1 DEF ContextDirty
<1>3. DebugState(D) # "BUSY" => UpToDate(ViewsUpdate(D, DebugState(D)))
  BY <1>1, Updated
<1>4. DebugState(D) = "BUSY" => UpToDate(D)
  BY DEF UpToDate
<1> HIDE DEF D
<1> QED
  BY <1>1, <1>2, <1>3, <1>4 DEF D

(* on_thread_selection_changed(), from the page of the threads               *)
LEMMA SelectionFresh ==
  ASSUME NEW P, Rowed(P), P.view = "threads", NEW t \in Known(P) \cup {NULL}
  PROVE  UpToDate(SelectionChanged(P, t))
<1> DEFINE at(row) == IF row.state # "Stopped"
                      THEN (IF row.state = "" THEN "BLANK" ELSE "RUNNING")
                      ELSE IF row.addr THEN "AT_SOURCE" ELSE "STOPPED"
           none == [P EXCEPT !.id = NULL, !.frame = NULL, !.state = "BLANK"]
           some == [P EXCEPT !.id = t, !.frame = 0, !.state = at(P.rows[t])]
           moved == IF t = NULL THEN none ELSE some
           queried == [moved EXCEPT !.state = "QUERY_FRAME"]
           known == IF moved.state # "STOPPED" THEN moved
                    ELSE IF DebugState(moved) = "DEBUG" THEN QueryFrame(moved)
                    ELSE queried
           both == {"stack", "locals"}
<1>0. SelectionChanged(P, t) = ContextDirty(known, both, DebugState(known))
  BY DEF SelectionChanged
<1>1. Plain(P) /\ 0 \in Frame
  BY ScopeAssumption DEF Rowed, Frame
<1> DEFINE Same(Q) == Plain(Q) /\ Q.rows = P.rows /\ Q.gdb = P.gdb /\ Q.view = "threads"
<1>2. Same(moved)
  BY <1>1 DEF Plain, Shape, Fields
<1> HIDE DEF moved
<1>3. Same(queried)
  BY <1>2 DEF Plain, Shape, Fields
<1>4. Same(QueryFrame(moved))
  <2>1. Keeps(moved, QueryFrame(moved))
    BY <1>2, SendKeeps DEF QueryFrame, Launching
  <2>2. QueryFrame(moved).view = moved.view
    BY <1>2 DEF QueryFrame, Send, Plain, Shape, Fields
  <2> QED
    BY <1>2, <2>1, <2>2 DEF Keeps
<1>5. Same(known)
  BY <1>2, <1>3, <1>4
<1> HIDE DEF known
<1>6. Rowed(known)
  BY <1>5 DEF Rowed, Known
<1> DEFINE Q == ContextDirty(known, both, DebugState(known))
<1>7. IF all THEN UpToDate(Q) ELSE Q = Dirty(known, both)
  BY <1>6, ContextDirtyFresh
<1>8. Dirty(known, both).view = "threads"
  BY <1>5 DEF Dirty, Plain, Shape, Fields
<1> HIDE DEF Q
<1> QED
  BY <1>0, <1>7, <1>8 DEF UpToDate, Shown, Q

(* on_stack_selection_changed(), from the page of the stack                  *)
LEMMA SelectFrameFresh ==
  ASSUME NEW P, Rowed(P), P.view = "stack", UpToDate(P), NEW f \in Frame
  PROVE  UpToDate(SelectFrame(P, f))
<1> DEFINE Q == [P EXCEPT !.selected = f, !.frame = f]
           D == Dirty(Q, {"locals"})
           R == ContextDirty(Q, {"locals"}, DebugState(Q))
<1>1. /\ Plain(Q) /\ Q.rows = P.rows /\ Q.gdb = P.gdb /\ Q.view = P.view /\ Q.dirty = P.dirty
      /\ DebugState(Q) = DebugState(P)
  BY DEF Rowed, Plain, Shape, Fields, DebugState
<1>2. SelectFrame(P, f) = R
  BY DEF SelectFrame
<1> HIDE DEF Q
<1>3. Rowed(Q)
  BY <1>1 DEF Rowed, Known
<1>4. IF all THEN UpToDate(R) ELSE R = D
  BY <1>3, ContextDirtyFresh
<1>5. D.view = P.view /\ D.dirty = P.dirty \cup {"locals"} /\ DebugState(D) = DebugState(P)
  BY <1>1 DEF Dirty, Plain, Shape, Fields, DebugState
<1> HIDE DEF D, R
<1>6. ~all => UpToDate(D)
  BY <1>5 DEF UpToDate, Shown
<1> QED
  BY <1>2, <1>4, <1>6

-------------------------------------------------------------------------------
(* The invariant                                                             *)

Seen ==
  /\ Resuming(scope.rows, scope.waitPrompt, out) /\ Deep /\ Numbered(out) /\ Answered(out)
  /\ Viewed(scope, out) /\ UpToDate(scope)

(* Without GDB nothing is shown.                                             *)
Blank == scope.gdb = "INACTIVE" => scope.frame = NULL /\ scope.stack = NoStack

SeenIInv == StepIInv /\ (scope.gdb = "ACTIVE" /\ gdbUp => Seen) /\ Blank

LEMMA CountsEmpty ==
  ASSUME NEW n, NEW c, NEW s, IsSeq(c), IsSeq(s), n >= Len(c) + Cardinality(Answers(s)), n = 0
  PROVE  c = <<>> /\ Answers(s) = {}
<1>1. Len(c) \in Nat /\ IsFiniteSet(Answers(s)) /\ Cardinality(Answers(s)) \in Nat
  BY AtFinite, SeqOver DEF Answers
<1>2. Len(c) = 0 /\ Cardinality(Answers(s)) = 0
  BY <1>1
<1>3. Answers(s) = {}
  BY <1>1, <1>2, FS_EmptySet
<1>4. c \in Seq(Range(c))
  BY DEF IsSeq
<1> QED
  BY <1>2, <1>3, <1>4, EmptySeq

LEMMA SeenIdle ==
  ASSUME ThreadsIInv, InStep
  PROVE  /\ Idle(scope.waitPrompt, out)
         /\ scope.waitResult = 0 => input = <<>> /\ Answers(out) = {}
<1>1. IsSeq(out) /\ IsSeq(input)
  BY DEF ThreadsIInv, InStep, Counts
<1>2. scope.waitResult = 0 => input = <<>> /\ Answers(out) = {}
  BY <1>1, CountsEmpty DEF InStep, Counts
<1>3. ~scope.waitPrompt => scope.waitResult = 0
  BY DEF InStep, Counts
<1> QED
  BY <1>2, <1>3 DEF Idle

LEMMA SeenGood ==
  ASSUME SeenIInv, scope.gdb = "ACTIVE", gdbUp
  PROVE  /\ Sound(scope) /\ Rowed(scope) /\ Good(scope, out) /\ UpToDate(scope) /\ Deep /\ IsSeq(out)
         /\ Live \subseteq Thread /\ Live \subseteq 1..created /\ Known(scope) \subseteq 1..created
         /\ out # <<>> => Reading(scope, out)
<1>1. /\ ThreadsIInv /\ InStep /\ Seen /\ Told /\ Sound(scope) /\ IsSeq(out) /\ created \in 0..Threads
      /\ Known(scope) \subseteq 1..created
  BY DEF SeenIInv, StepIInv, Held, ThreadsIInv, Told
<1>2. Placed(scope)
  BY <1>1, SoundPlaced DEF Sound
<1>3. Good(scope, out)
  BY <1>1, <1>2, SeenIdle DEF Seen, Good, Base
<1>4. Live \subseteq 1..created /\ Live \subseteq Thread
  BY <1>1, ToldFinite, ScopeAssumption DEF Thread
<1> QED
  BY <1>1, <1>2, <1>3, <1>4 DEF Placed, Seen, Good, Base, Reading

(* The plugin's steps: the target stays.                                     *)
LEMMA ViewedSame ==
  ASSUME UNCHANGED <<target, created>>, NEW P, Viewed(P, out'), Alike(P, scope'),
         Asked(scope)' = Asked(P)
  PROVE  Viewed(scope, out)'
<1>1. Framed(scope)'
  BY DEF Viewed, Framed, Alike
<1>2. Asking(scope)'
  BY DEF Viewed, Asking, Live
<1>3. (scope.id \in Live => StackInStep(scope, out))'
  BY DEF Viewed, StackInStep, StackAsked, StackOf, Live, Alike
<1>4. (scope.id \in Live => LocalsInStep(scope, out))'
  BY DEF Viewed, LocalsInStep, LocalsAsked, LocalsOf, Live, Alike
<1> QED
  BY <1>1, <1>2, <1>3, <1>4 DEF Viewed

LEMMA SeenSame ==
  ASSUME UNCHANGED <<target, created, input, async, all>>, Good(scope', out'), UpToDate(scope'),
         Deep, Numbered(out'), Answered(out')
  PROVE  Seen'
<1>1. Viewed(scope, out)'
  <2>1. Asked(scope)' = Asked(scope') /\ Alike(scope', scope')
    BY DEF Asked, Alike
  <2> QED
    BY <2>1, ViewedSame DEF Good
<1>2. Resuming(scope.rows, scope.waitPrompt, out)'
  BY DEF Good, Base, Resuming, Live
<1>3. UpToDate(scope)'
  BY DEF UpToDate, DebugState, Shown
<1>4. Deep' /\ Numbered(out)'
  BY DEF Deep, Numbered, Live
<1>5. Answered(out)'
  BY DEF Answered, StackOf, LocalsOf, Live
<1> QED
  BY <1>1, <1>2, <1>3, <1>4, <1>5 DEF Seen

LEMMA ReceiveSeen ==
  ASSUME SeenIInv, scope.gdb = "ACTIVE", gdbUp, Receive
  PROVE  Seen'
<1> DEFINE r == Head(out)
           u == Tail(out)
           parsed(next) == DebugParse(scope, r, next)
<1>1. PICK next \in {NULL} \cup Known(scope) :
        /\ IF r.kind = "exited" /\ scope.id = r.thread THEN next # r.thread ELSE next = NULL
        /\ scope' = IF parsed(next).commands = <<>>
                    THEN ViewsUpdate(parsed(next), DebugState(parsed(next))) ELSE parsed(next)
  BY DEF Receive
<1>2. /\ ThreadsIInv /\ InStep /\ Seen /\ Told /\ Sound(scope) /\ IsSeq(out) /\ created \in 0..Threads
      /\ out # <<>>
  BY DEF SeenIInv, StepIInv, Held, ThreadsIInv, Receive
<1>3. /\ r.kind = "created" => r.thread \in Created(out) \ Known(scope)
      /\ r.kind = "exited" => r.thread \in Known(scope)
  BY <1>2, HeadRead DEF Told
<1>4. r.kind = "created" => r.thread \in Thread \ Known(scope) /\ r.thread \in 1..created
  BY <1>2, <1>3, ScopeAssumption DEF Told, Thread
<1>5. NULL \notin Known(scope)
  BY <1>2, KnownFinite DEF Sound
<1>6. Reading(scope, out) /\ Deep
  BY <1>2, SeenGood
<1>7. scope.waitResult = 0 => input = <<>> /\ Answers(u) = {}
  BY <1>2, SeenIdle, PipeTail
<1> DEFINE Q == parsed(next)
<1>8. Good(Q, u)
  BY <1>1, <1>3, <1>4, <1>5, <1>6, <1>7, ParseGood
<1> HIDE DEF Q
<1>9. scope' = IF Q.commands = <<>> THEN ViewsUpdate(Q, DebugState(Q)) ELSE Q
  BY <1>1 DEF Q
<1>10. IsSeq(u) /\ Numbered(u) /\ Answered(u)
  BY <1>2, TailOf, PipeTail DEF Seen
<1>11. Good(scope', u) /\ UpToDate(scope')
  <2>1. Rowed(Q)
    BY <1>8 DEF Good, Base, Placed
  <2>2. CASE Q.commands = <<>>
    BY <1>6, <1>8, <1>9, <1>10, <2>1, <2>2, ViewsUpdateGood, Updated
  <2>3. CASE Q.commands # <<>>
    <3>1. DebugState(Q) # "DEBUG"
      BY <2>1, <2>3, InDebugging DEF Rowed
    <3> QED
      BY <1>8, <1>9, <2>3, <3>1 DEF UpToDate
  <2> QED
    BY <2>2, <2>3
<1>12. out' = u /\ UNCHANGED <<target, created, input, async, all>>
  BY DEF Receive, options
<1> QED
  BY <1>6, <1>10, <1>11, <1>12, SeenSame

LEMMA SendCommandsSeen ==
  ASSUME SeenIInv, scope.gdb = "ACTIVE", gdbUp, SendCommands
  PROVE  Seen'
<1>1. Seen /\ Sound(scope) /\ Good(scope, out) /\ IsSeq(input) /\ IsSeq(scope.commands)
  BY SeenGood DEF SeenIInv, StepIInv, Held, InStep, Counts, Sound, Typed
<1>2. /\ input' = input \o scope.commands /\ UNCHANGED <<target, created, out, async, all>>
      /\ scope' = [scope EXCEPT !.commands = <<>>, !.waitPrompt = TRUE,
                                !.waitResult = @ + Len(scope.commands)]
  BY DEF SendCommands, options
<1>3. /\ scope'.commands = <<>> /\ scope'.waitPrompt = TRUE /\ scope'.rows = scope.rows
      /\ scope'.gdb = "ACTIVE" /\ Alike(scope, scope')
  BY <1>1, <1>2 DEF Alike, Sound, Typed, Shape, Fields
<1>4. Asked(scope)' = Asked(scope)
  <2>1. Range(input') = Range(input) \cup Range(scope.commands)
    BY <1>1, <1>2, RangeMore
  <2>2. Range(<<>>) = {}
    BY DEF Range
  <2> QED
    BY <1>3, <2>1, <2>2 DEF Asked
<1>5. Viewed(scope, out)'
  BY <1>1, <1>2, <1>3, <1>4, ViewedSame DEF Seen
<1>6. Resuming(scope.rows, scope.waitPrompt, out)'
  <2>1. Resuming(scope.rows, scope.waitPrompt, out)
    BY <1>1 DEF Seen
  <2>2. \A j, t : Resumes(out, scope.waitPrompt, j, t) => Resumes(out, TRUE, j, t)
    BY DEF Resumes
  <2>3. Resuming(scope.rows, TRUE, out)
    BY <2>1, <2>2 DEF Resuming
  <2> QED
    BY <1>2, <1>3, <2>3 DEF Resuming, Live
<1>7. UpToDate(scope)'
  BY <1>3 DEF UpToDate, DebugState
<1>8. Deep' /\ Numbered(out)' /\ Answered(out)'
  BY <1>1, <1>2 DEF Seen, Deep, Numbered, Answered, StackOf, LocalsOf, Live
<1> QED
  BY <1>5, <1>6, <1>7, <1>8 DEF Seen

LEMMA LoadSeen ==
  ASSUME SeenIInv, LoadProgram
  PROVE  Seen'
<1>1. /\ scope.gdb = "INACTIVE" /\ gdbUp' = TRUE /\ input' = <<>> /\ out' = <<Prompt>> /\ created' = 0
      /\ target' = [t \in {} |-> NULL]
      /\ scope' = [scope EXCEPT !.gdb = "ACTIVE", !.waitResult = 0, !.waitPrompt = TRUE,
                 !.commands = <<[name |-> "load", thread |-> NULL, frame |-> NULL]>>,
                 !.autoRun = AutoRunExit, !.autoExit = AutoRunExit]
  BY DEF LoadProgram
<1>2. Shape(scope) /\ scope.frame = NULL
  BY <1>1 DEF SeenIInv, StepIInv, ThreadsIInv, Sound, Typed, Blank
<1> DEFINE c == [name |-> "load", thread |-> NULL, frame |-> NULL]
<1>3. /\ scope'.gdb = "ACTIVE" /\ scope'.frame = NULL /\ scope'.commands = <<c>> /\ scope'.waitPrompt = TRUE
  BY <1>1, <1>2 DEF Shape, Fields
<1>4. Live' = {}
  BY <1>1 DEF Live
<1>5. c.name = "load"
  OBVIOUS
<1> HIDE DEF c
<1>6. \A d \in Asked(scope)' : d.name = "load"
  BY <1>1, <1>3, <1>5 DEF Asked, Range
<1>7. Viewed(scope, out)'
  BY <1>3, <1>4, <1>6 DEF Viewed, Framed, Asking
<1>8. /\ IsSeq(out') /\ \A i \in 1..Len(out') : out'[i].kind = "prompt"
  BY <1>1, PromptOrNone
<1>9. Resuming(scope.rows, scope.waitPrompt, out)' /\ Deep'
  BY <1>4 DEF Resuming, Deep
<1>10. Numbered(out)' /\ Answered(out)'
  BY <1>8 DEF Numbered, Answered, Tells
<1>11. UpToDate(scope)'
  BY <1>3 DEF UpToDate, DebugState
<1> QED
  BY <1>7, <1>9, <1>10, <1>11 DEF Seen

-------------------------------------------------------------------------------
(* The user's steps                                                          *)

LEMMA UserSeen ==
  ASSUME SeenIInv, scope.gdb = "ACTIVE", gdbUp, UNCHANGED <<gdbVars, options>>,
         Good(scope', out), UpToDate(scope')
  PROVE  Seen'
<1>1. Seen
  BY DEF SeenIInv
<1>2. UNCHANGED <<target, created, input, async, all>> /\ out' = out
  BY DEF gdbVars, options
<1> QED
  BY <1>1, <1>2, SeenSame DEF Seen

(* A command asked of GDB leaves it busy.                                    *)
LEMMA SentFresh ==
  ASSUME NEW P, Rowed(P), P.gdb = "ACTIVE", NEW name, NEW t, NEW f
  PROVE  UpToDate(Send(P, name, t, f))
<1> DEFINE Q == Send(P, name, t, f)
<1>1. Q.commands # <<>> /\ Q.gdb = "ACTIVE"
  BY SendAsks DEF Rowed
<1> HIDE DEF Q
<1>2. DebugState(Q) # "DEBUG"
  BY <1>1, InDebugging
<1> QED
  BY <1>2 DEF UpToDate, Q

LEMMA SentSeen ==
  ASSUME SeenIInv, scope.gdb = "ACTIVE", gdbUp, NEW name, name \notin Launching, NEW t, NEW f,
         name \in {"frames", "locals"} => DebugState(scope) = "DEBUG" /\ t = scope.id,
         name = "continue" => DebugState(scope) = "DEBUG",
         User(Send(scope, name, t, f))
  PROVE  Seen'
<1> DEFINE Q == Send(scope, name, t, f)
           c == Request(name, t, f)
<1>1. Rowed(scope) /\ Good(scope, out) /\ IsSeq(out) /\ Plain(scope)
  BY SeenGood DEF Rowed
<1>2. UpToDate(Q)
  BY <1>1, SentFresh
<1>3. Base(Q, out)
  BY <1>1, SendKeeps, BaseKept DEF Good
<1>4. ASSUME DebugState(scope) = "DEBUG"
      PROVE  /\ Asked(scope) = {}
             /\ scope.id \in 1..created /\ (scope.id \in Live => ~target[scope.id].running)
  <2>1. Debugs(scope, out, {}) /\ Range(scope.commands) = {}
    BY <1>1, <1>4, InDebug DEF Good
  <2> QED
    BY <2>1, NoneAsked DEF Debugs
<1>5. Viewed(Q, out)
  <2>1. CASE name # "continue"
    BY <1>1, <1>4, <2>1, SendViewed DEF Good
  <2>2. CASE name = "continue"
    <3>1. Alike(scope, Q) /\ Asked(Q) = {c}
      BY <1>1, <1>4, <2>2, SendAsks
    <3>2. c.name = name
      BY DEF Request
    <3> HIDE DEF Q, c
    <3>3. Asking(Q) /\ Asked(scope) \subseteq Asked(Q)
      BY <1>4, <2>2, <3>1, <3>2 DEF Asking
    <3> QED
      BY <1>1, <3>1, <3>3, ViewedAlike DEF Good
  <2> QED
    BY <2>1, <2>2
<1>6. scope' = Q /\ UNCHANGED <<gdbVars, options>>
  BY DEF User
<1> HIDE DEF Q
<1> QED
  BY <1>2, <1>3, <1>5, <1>6, UserSeen DEF Good

LEMMA RunContinueSeen ==
  ASSUME SeenIInv, scope.gdb = "ACTIVE", gdbUp, RunContinue
  PROVE  Seen'
<1>1. CASE DebugState(scope) = "DEBUG" /\ User(Send(scope, "continue", scope.id, NULL))
  BY <1>1, SentSeen DEF Launching
<1>2. CASE User(Send(scope, "run", NULL, NULL))
  <2> DEFINE Q == Send(scope, "run", NULL, NULL)
  <2>1. Good(Q, out) /\ UpToDate(Q)
    BY SeenGood, LaunchGood, SentFresh
  <2>2. scope' = Q /\ UNCHANGED <<gdbVars, options>>
    BY <1>2 DEF User
  <2> HIDE DEF Q
  <2> QED
    BY <2>1, <2>2, UserSeen
<1> QED
  BY <1>1, <1>2 DEF RunContinue

LEMMA TerminateSeen ==
  ASSUME SeenIInv, scope.gdb = "ACTIVE", gdbUp, Terminate, scope'.gdb = "ACTIVE", gdbUp'
  PROVE  Seen'
<1>1. CASE User(Send(scope, "kill", NULL, NULL))
  BY <1>1, SentSeen DEF Launching
<1>2. CASE User([Send(scope, "exit", NULL, NULL) EXCEPT !.gdb = "KILLING"])
  <2> DEFINE Q == Send(scope, "exit", NULL, NULL)
  <2>1. Shape(Q)
    BY SeenGood, SendSound DEF Sound, Typed
  <2>2. scope' = [Q EXCEPT !.gdb = "KILLING"]
    BY <1>2 DEF User
  <2> HIDE DEF Q
  <2>3. scope'.gdb = "KILLING"
    BY <2>1, <2>2 DEF Shape, Fields
  <2> QED
    BY <2>3
<1> QED
  BY <1>1, <1>2 DEF Terminate

LEMMA RefreshSeen ==
  ASSUME SeenIInv, scope.gdb = "ACTIVE", gdbUp, Refresh
  PROVE  Seen'
<1>1. CASE User(Send(scope, "info", NULL, NULL))
  BY <1>1, SentSeen DEF Launching
<1>2. CASE DebugState(scope) = "DEBUG" /\ User(Send(scope, "frames", scope.id, NULL))
  BY <1>2, SentSeen DEF Launching
<1>3. CASE DebugState(scope) = "DEBUG" /\ User(Send(scope, "locals", scope.id, scope.frame))
  BY <1>3, SentSeen DEF Launching
<1> QED
  BY <1>1, <1>2, <1>3 DEF Refresh

LEMMA ClickThreadSeen ==
  ASSUME SeenIInv, scope.gdb = "ACTIVE", gdbUp, NEW t \in Thread, ClickThread(t)
  PROVE  Seen'
<1>1. Rowed(scope) /\ Good(scope, out) /\ IsSeq(out) /\ Deep
  BY SeenGood
<1> DEFINE Q == SelectionChanged(scope, t)
<1>2. scope.view = "threads" /\ t \in Known(scope) /\ scope' = Q /\ UNCHANGED <<gdbVars, options>>
  BY DEF ClickThread, User
<1>3. Good(Q, out) /\ UpToDate(Q)
  BY <1>1, <1>2, GoodSelectable, SelectionGood, SelectionFresh
<1> HIDE DEF Q
<1> QED
  BY <1>2, <1>3, UserSeen

LEMMA ClickFrameSeen ==
  ASSUME SeenIInv, scope.gdb = "ACTIVE", gdbUp, NEW f \in Frame, ClickFrame(f)
  PROVE  Seen'
<1>1. Rowed(scope) /\ Good(scope, out) /\ IsSeq(out) /\ Deep /\ UpToDate(scope)
  BY SeenGood
<1> DEFINE Q == SelectFrame(scope, f)
<1>2. scope.view = "stack" /\ f < scope.stack.depth /\ scope' = Q /\ UNCHANGED <<gdbVars, options>>
  BY DEF ClickFrame, User
<1>3. Good(Q, out) /\ UpToDate(Q)
  BY <1>1, <1>2, SelectFrameGood, SelectFrameFresh
<1> HIDE DEF Q
<1> QED
  BY <1>2, <1>3, UserSeen

(* Only in the state Debug is there nothing to wait for after an update.     *)
LEMMA UpdateInDebug ==
  ASSUME NEW P, Rowed(P), NEW st, st = DebugState(P), NEW Q,
         Q \in {ThreadsUpdate(P, st), StackUpdate(P, st), LocalsUpdate(P, st)}, DebugState(Q) = "DEBUG"
  PROVE  st = "DEBUG"
<1>1. Plain(P) /\ Keeps(P, Q)
  BY ThreadsUpdateKeeps, StackUpdateKeeps, LocalsUpdateKeeps DEF Rowed
<1>2. Q.gdb = "ACTIVE" /\ ~Q.waitPrompt /\ Q.commands = <<>> /\ Q.count # 0 /\ Q.state \in AtStop
  BY <1>1, InDebugging DEF Keeps, Rowed
<1>3. P.gdb = "ACTIVE" /\ Q.waitPrompt = P.waitPrompt /\ P.count # 0 /\ P.state \in AtStop
  BY <1>1, <1>2 DEF Keeps, Asks, AtStop
<1>4. ~P.waitPrompt
  BY <1>2, <1>3, Zenon
<1>5. ASSUME st # "DEBUG" PROVE P.commands = <<>>
  <2>1. CASE Q = ThreadsUpdate(P, st)
    <3>1. Q = P
      BY <1>1, <1>2, <1>3, <2>1, ThreadsUpdateFresh
    <3> QED
      BY <1>2, <3>1
  <2>2. CASE Q = StackUpdate(P, st)
    <3> DEFINE R == StackClear(P)
    <3>1. Plain(R) /\ R.commands = P.commands
      BY <1>1, StackClearKeeps DEF Keeps, StackClear, Dirty, Plain, Shape, Fields
    <3>2. Q = IF "stack" \notin P.dirty THEN P ELSE Clean(R, "stack")
      BY <1>5, <2>2 DEF StackUpdate
    <3> HIDE DEF R
    <3>3. Clean(R, "stack").commands = R.commands
      BY <3>1 DEF Clean, Plain, Shape, Fields
    <3> QED
      BY <1>2, <3>1, <3>2, <3>3
  <2>3. CASE Q = LocalsUpdate(P, st)
    <3> DEFINE none == [P EXCEPT !.locals = NoLocals]
               R == Clean(none, "locals")
    <3>1. R.commands = P.commands
      BY <1>1 DEF Clean, Plain, Shape, Fields
    <3>2. Q = IF "locals" \notin P.dirty THEN P ELSE R
      BY <1>5, <2>3 DEF LocalsUpdate
    <3> HIDE DEF R
    <3> QED
      BY <1>2, <3>1, <3>2
  <2> QED
    BY <2>1, <2>2, <2>3
<1> QED
  BY <1>3, <1>4, <1>5, InDebugging DEF Rowed

LEMMA ViewChangedSeen ==
  ASSUME SeenIInv, scope.gdb = "ACTIVE", gdbUp, NEW v \in {"threads", "stack", "locals"}, ViewChanged(v)
  PROVE  Seen'
<1> DEFINE P == [scope EXCEPT !.view = v]
           st == DebugState(P)
<1>1. Rowed(scope) /\ Good(scope, out) /\ IsSeq(out) /\ Deep /\ UpToDate(scope) /\ Plain(scope)
  BY SeenGood DEF Rowed
<1>2. /\ Keeps(scope, P) /\ Alike(scope, P) /\ P.commands = scope.commands /\ P.dirty = scope.dirty
      /\ P.view = v /\ DebugState(P) = DebugState(scope)
  BY <1>1 DEF Keeps, Asks, Alike, Plain, Shape, Fields, DebugState
<1>3. /\ scope' = CASE v = "threads" -> ThreadsUpdate(P, st)
                    [] v = "stack"   -> StackUpdate(P, st)
                    [] v = "locals"  -> LocalsUpdate(P, st)
      /\ UNCHANGED <<gdbVars, options>>
  BY DEF ViewChanged, User
<1>s. st = DebugState(P)
  OBVIOUS
<1> HIDE DEF P, st
<1>4. Base(P, out) /\ Viewed(P, out) /\ Rowed(P) /\ Plain(P) /\ P.gdb = "ACTIVE"
  <2>1. Base(P, out)
    BY <1>1, <1>2, BaseKept DEF Good
  <2>2. Asked(P) = Asked(scope)
    BY <1>2 DEF Asked
  <2>3. Asking(P)
    BY <1>1, <2>2 DEF Good, Viewed, Asking
  <2>4. Viewed(P, out)
    BY <1>1, <1>2, <2>2, <2>3, ViewedAlike DEF Good
  <2> QED
    BY <1>2, <2>1, <2>4 DEF Base, Placed, Rowed, Keeps
<1>5. scope' \in {ThreadsUpdate(P, st), StackUpdate(P, st), LocalsUpdate(P, st)}
  BY <1>3
<1>6. Base(scope', out)
  BY <1>4, <1>5, ThreadsUpdateKeeps, StackUpdateKeeps, LocalsUpdateKeeps, BaseKept
<1>7. st = "DEBUG" => Debugs(P, out, {"frame", "info"})
  BY <1>1, <1>4, <1>s, InDebug DEF Debugs
<1>8. Viewed(scope', out)
  <2>1. st = "DEBUG" => Debugs(P, out, {"frame", "info", "frames", "locals"})
    BY <1>7 DEF Debugs
  <2> QED
    BY <1>1, <1>4, <1>5, <1>7, <2>1, ThreadsUpdateViewed, StackUpdateViewed, LocalsUpdateViewed
<1>9. UpToDate(scope')
  <2>1. SUFFICES ASSUME DebugState(scope') = "DEBUG"
                 PROVE  \A w \in {"stack", "locals"} : Shown(scope', w) => w \notin scope'.dirty
    BY DEF UpToDate
  <2>2. st = "DEBUG"
    BY <1>4, <1>5, <1>s, <2>1, UpdateInDebug
  <2>3. all => "stack" \notin P.dirty /\ "locals" \notin P.dirty
    BY <1>1, <1>2, <1>s, <2>2 DEF UpToDate, Shown
  <2>4. scope'.commands = <<>>
    <3>1. scope'.gdb = "ACTIVE"
      BY <1>4, <1>5, ThreadsUpdateKeeps, StackUpdateKeeps, LocalsUpdateKeeps DEF Keeps
    <3> QED
      BY <2>1, <3>1, InDebugging
  <2>5. CASE v = "threads"
    <3>1. scope' = P
      BY <1>3, <1>4, <2>4, <2>5, ThreadsUpdateFresh
    <3> QED
      BY <1>2, <2>3, <2>5, <3>1 DEF Shown
  <2>6. CASE v = "stack"
    <3>1. scope' = P /\ "stack" \notin P.dirty
      BY <1>3, <1>4, <2>2, <2>4, <2>6, StackUpdateFresh
    <3> QED
      BY <1>2, <2>3, <2>6, <3>1 DEF Shown
  <2>7. CASE v = "locals"
    <3>1. scope'.view = "locals" /\ "locals" \notin scope'.dirty /\ scope'.dirty \subseteq P.dirty
      BY <1>2, <1>3, <1>4, <2>2, <2>4, <2>7, LocalsUpdateFresh
    <3> QED
      BY <2>3, <3>1 DEF Shown
  <2> QED
    BY <2>5, <2>6, <2>7
<1> QED
  BY <1>3, <1>6, <1>8, <1>9, UserSeen DEF Good

-------------------------------------------------------------------------------
(* GDB's steps                                                               *)

(* z is s, with x and perhaps prompts after it.                              *)
Written(z, s, x) ==
  \A i \in 1..Len(z) :
    \/ i \in 1..Len(s) /\ z[i] = s[i]
    \/ i - Len(s) \in 1..Len(x) /\ z[i] = x[i - Len(s)]
    \/ z[i].kind = "prompt"

LEMMA PipeMore ==
  ASSUME NEW s, IsSeq(s), NEW x, IsSeq(x), NEW y \in {<<>>, <<Prompt>>}, NEW z, z = s \o x \o y
  PROVE  /\ IsSeq(z) /\ Len(s) \in Nat /\ Len(x) \in Nat /\ Len(z) \in Nat /\ Len(s) + Len(x) <= Len(z)
         /\ \A i \in 1..Len(s) : z[i] = s[i]
         /\ \A i \in 1..Len(x) : z[Len(s) + i] = x[i]
         /\ Written(z, s, x)
<1> DEFINE u == s \o x
           m == Len(s)
           k == Len(x)
           l == Len(y)
<1>1. IsSeq(y) /\ l \in Nat /\ \A i \in 1..l : y[i].kind = "prompt"
  BY PromptOrNone, SeqOver
<1>2. /\ IsSeq(u) /\ Len(u) = m + k /\ m \in Nat /\ k \in Nat
      /\ \A i \in 1..(m + k) : u[i] = IF i <= m THEN s[i] ELSE x[i - m]
  BY Joined, SeqOver
<1> HIDE DEF u
<1>3. /\ IsSeq(z) /\ Len(z) = (m + k) + l
      /\ \A i \in 1..((m + k) + l) : z[i] = IF i <= m + k THEN u[i] ELSE y[i - (m + k)]
  <2>1. z = u \o y
    BY DEF u
  <2>2. /\ IsSeq(u \o y) /\ Len(u \o y) = Len(u) + Len(y)
        /\ \A i \in 1..(Len(u) + Len(y)) : (u \o y)[i] = IF i <= Len(u) THEN u[i] ELSE y[i - Len(u)]
    BY <1>1, <1>2, Joined
  <2> QED
    BY <1>2, <2>1, <2>2, Zenon
<1> HIDE DEF m, k, l
<1>4. ASSUME NEW i \in 1..m PROVE z[i] = s[i]
  <2>1. i \in 1..(m + k) /\ i \in 1..((m + k) + l) /\ i <= m /\ i <= m + k
    BY <1>1, <1>2
  <2> QED
    BY <1>2, <1>3, <2>1
<1>5. ASSUME NEW i \in 1..k PROVE z[m + i] = x[i]
  <2>1. /\ m + i \in 1..(m + k) /\ m + i \in 1..((m + k) + l) /\ ~(m + i <= m) /\ m + i <= m + k
        /\ (m + i) - m = i
    BY <1>1, <1>2
  <2> QED
    BY <1>2, <1>3, <2>1
<1>6. ASSUME NEW i \in 1..Len(z)
      PROVE  \/ i \in 1..m /\ z[i] = s[i]
             \/ i - m \in 1..k /\ z[i] = x[i - m]
             \/ z[i].kind = "prompt"
  <2>1. CASE i <= m
    BY <1>2, <1>4, <2>1
  <2>2. CASE ~(i <= m) /\ i <= m + k
    <3>1. i - m \in 1..k /\ m + (i - m) = i
      BY <1>2, <2>2
    <3> QED
      BY <1>5, <3>1
  <2>3. CASE ~(i <= m + k)
    <3>1. i \in 1..((m + k) + l) /\ i - (m + k) \in 1..l
      BY <1>1, <1>2, <1>3, <2>3
    <3> QED
      BY <1>1, <1>3, <2>3, <3>1
  <2> QED
    BY <2>1, <2>2, <2>3
<1>7. Len(z) \in Nat /\ m + k <= Len(z)
  BY <1>1, <1>2, <1>3
<1> QED
  BY <1>2, <1>3, <1>4, <1>5, <1>6, <1>7 DEF Written, m, k

LEMMA ComingMore ==
  ASSUME NEW s, IsSeq(s), NEW x, IsSeq(x), NEW y \in {<<>>, <<Prompt>>}, NEW z, z = s \o x \o y
  PROVE  /\ \A t : StackComing(s, t) \/ StackComing(x, t) => StackComing(z, t)
         /\ \A t, f : LocalsComing(s, t, f) \/ LocalsComing(x, t, f) => LocalsComing(z, t, f)
         /\ \A t : \A n \in 1..(Len(s) + 1) : Stopping(s, t, n) \/ Stopping(x, t, 1) => Stopping(z, t, n)
         /\ \A wait, t : \A j \in 1..Len(s) : Resumes(s, wait, j, t) => Resumes(z, wait, j, t)
<1> DEFINE m == Len(s)
           k == Len(x)
<1>1. /\ m \in Nat /\ k \in Nat /\ Len(z) \in Nat /\ m + k <= Len(z)
      /\ \A i \in 1..m : z[i] = s[i]
      /\ \A i \in 1..k : z[m + i] = x[i]
  BY PipeMore
<1> HIDE DEF m, k
<1>2. /\ \A i \in 1..m : i \in 1..Len(z)
      /\ \A i \in 1..k : m + i \in 1..Len(z)
      /\ \A n \in 1..(m + 1) : (\A i \in n..m : i \in 1..m /\ i \in n..Len(z)) /\ \A i \in 1..k : m + i \in n..Len(z)
  BY <1>1
<1>3. \A t : StackComing(s, t) \/ StackComing(x, t) => StackComing(z, t)
  BY <1>1, <1>2 DEF StackComing, m, k
<1>4. \A t, f : LocalsComing(s, t, f) \/ LocalsComing(x, t, f) => LocalsComing(z, t, f)
  BY <1>1, <1>2 DEF LocalsComing, m, k
<1>5. ASSUME NEW t, NEW n \in 1..(m + 1), Stopping(s, t, n) \/ Stopping(x, t, 1) PROVE Stopping(z, t, n)
  BY <1>1, <1>2, <1>5 DEF Stopping, m, k
<1>6. ASSUME NEW wait, NEW t, NEW j \in 1..m, Resumes(s, wait, j, t) PROVE Resumes(z, wait, j, t)
  <2>1. j # 1 => j - 1 \in 1..m
    BY <1>1
  <2> QED
    BY <1>1, <1>6, <2>1 DEF Resumes
<1> QED
  BY <1>3, <1>4, <1>5, <1>6 DEF m

(* The command taken is answered in x, if what it asks for is there.         *)
Serves(c, x) ==
  /\ c.name = "frames" /\ IsStopped(c.thread) => StackComing(x, c.thread)
  /\ c.name = "locals" /\ IsStopped(c.thread) /\ c.frame < target[c.thread].depth =>
       LocalsComing(x, c.thread, c.frame)

Serving(x) ==
  \/ input' = input
  \/ input # <<>> /\ input' = Tail(input) /\ Serves(Head(input), x)

(* The threads stay, but for new ones; a thread runs again only on request,  *)
(* which x tells after the answer; one that stops is told of.                *)
Lasting(x) ==
  /\ created' \in Nat /\ created <= created' /\ Live' \cap (1..created) \subseteq Live
  /\ \A t \in Live \cap Live' :
       /\ ~target[t].running /\ target'[t].running =>
            /\ \E c \in Asked(scope) : c.name = "continue"
            /\ \E j \in 2..Len(x) : x[j].kind = "running" /\ t \in x[j].data /\ x[j - 1].kind = "done"
       /\ \/ target'[t].stop = target[t].stop /\ target'[t].depth = target[t].depth
          \/ Stopping(x, t, 1)

(* What an answer says of thread t after the step                            *)
StackThen(t) == [of |-> t, stop |-> target'[t].stop, depth |-> target'[t].depth]
LocalsThen(t, f) == [of |-> t, stop |-> target'[t].stop, frame |-> f]

(* What x tells is so.                                                       *)
Truly(x) ==
  \A i \in 1..Len(x) :
    /\ \A t \in Thread : Tells(x[i], t) => t \in 1..created'
    /\ \A t \in Live' : Tells(x[i], t) /\ Says(x[i], t) = "Stopped" => ~target'[t].running
    /\ x[i].kind = "stopped" => x[i].thread \in x[i].data
    /\ x[i].kind \in {"stack", "locals"} =>
         /\ x[i].data.of \in 1..created
         /\ x[i].data.of \in Live' =>
              x[i].data = IF x[i].kind = "stack" THEN StackThen(x[i].data.of)
                          ELSE LocalsThen(x[i].data.of, x[i].data.frame)

LEMMA GdbAsked ==
  ASSUME SeenIInv, scope.gdb = "ACTIVE", gdbUp, scope' = scope, NEW x, Serving(x)
  PROVE  /\ Asked(scope)' \subseteq Asked(scope)
         /\ \A c \in Asked(scope) : c \in Asked(scope)' \/ Serves(c, x)
<1>1. IsSeq(input)
  BY DEF SeenIInv, StepIInv, Held, InStep, Counts
<1>2. CASE input' = input
  BY <1>2 DEF Asked
<1>3. CASE input # <<>> /\ input' = Tail(input) /\ Serves(Head(input), x)
  <2>1. Range(input) = {Head(input)} \cup Range(input')
    BY <1>1, <1>3, RangeMore
  <2> QED
    BY <1>3, <2>1 DEF Asked
<1> QED
  BY <1>2, <1>3 DEF Serving

(* Where the record j of those added is among all.                           *)
LEMMA Shifted ==
  ASSUME NEW m \in Nat, NEW k \in Nat, NEW n \in Nat, m + k <= n, NEW j \in 2..k
  PROVE  /\ j \in 1..k /\ j - 1 \in 1..k /\ m + (j - 1) = (m + j) - 1 /\ m + j # 1 /\ m + j \in 1..n
         /\ \A i \in 1..m : m + j \in (i + 1)..n
  OBVIOUS

LEMMA GdbResuming ==
  ASSUME SeenIInv, scope.gdb = "ACTIVE", gdbUp, scope' = scope,
         NEW x, IsSeq(x), NEW y \in {<<>>, <<Prompt>>}, out' = out \o x \o y,
         Lasting(x), Truly(x), Live' \subseteq Thread
  PROVE  Resuming(scope.rows, scope.waitPrompt, out)'
<1> DEFINE m == Len(out)
           k == Len(x)
<1>1. /\ IsSeq(out) /\ Known(scope) \subseteq 1..created /\ Numbered(out)
      /\ Resuming(scope.rows, scope.waitPrompt, out)
  BY SeenGood DEF SeenIInv, Seen
<1>2. /\ m \in Nat /\ k \in Nat /\ Len(out') \in Nat /\ m + k <= Len(out')
      /\ \A i \in 1..m : out'[i] = out[i]
      /\ \A i \in 1..k : out'[m + i] = x[i]
      /\ Written(out', out, x)
  <2>1. m \in Nat /\ k \in Nat /\ Len(out') \in Nat /\ m + k <= Len(out')
    BY <1>1, PipeMore
  <2>2. \A i \in 1..m : out'[i] = out[i]
    BY <1>1, PipeMore
  <2>3. \A i \in 1..k : out'[m + i] = x[i]
    BY <1>1, PipeMore
  <2>4. Written(out', out, x)
    BY <1>1, PipeMore
  <2> QED
    BY <2>1, <2>2, <2>3, <2>4
<1>3. \A wait, t : \A j \in 1..m : Resumes(out, wait, j, t) => Resumes(out', wait, j, t)
  BY <1>1, ComingMore
<1> HIDE DEF m, k
<1>4. SUFFICES ASSUME NEW t \in Live', target'[t].running
               PROVE  /\ t \in Known(scope) /\ scope.rows[t].state = "Stopped" =>
                           \E j \in 1..Len(out') : Resumes(out', scope.waitPrompt, j, t)
                      /\ \A i \in 1..Len(out') : Tells(out'[i], t) /\ Says(out'[i], t) = "Stopped" =>
                           \E j \in (i + 1)..Len(out') : Resumes(out', scope.waitPrompt, j, t)
  BY DEF Resuming, Known
<1>5. \A i \in 1..Len(out') : Tells(out'[i], t) /\ Says(out'[i], t) = "Stopped" => i \in 1..m
  <2> SUFFICES ASSUME NEW i \in 1..Len(out'), i \notin 1..m, Tells(out'[i], t), Says(out'[i], t) = "Stopped"
               PROVE  FALSE
    OBVIOUS
  <2>1. CASE out'[i].kind = "prompt"
    BY <2>1 DEF Tells
  <2>2. CASE i - m \in 1..k /\ out'[i] = x[i - m]
    BY <1>4, <2>2 DEF Truly, k
  <2> QED
    BY <1>2, <2>1, <2>2 DEF Written, m, k
<1>6. CASE t \in Live /\ target[t].running
  <2>1. \A i \in 1..m : out'[i] = out[i] /\ \A j \in (i + 1)..m : j \in 1..m /\ j \in (i + 1)..Len(out')
    BY <1>2
  <2>2. \A j \in 1..m : j \in 1..Len(out')
    BY <1>2
  <2>3. /\ t \in Known(scope) /\ scope.rows[t].state = "Stopped" =>
             \E j \in 1..m : Resumes(out, scope.waitPrompt, j, t)
        /\ \A i \in 1..m : Tells(out[i], t) /\ Says(out[i], t) = "Stopped" =>
             \E j \in (i + 1)..m : Resumes(out, scope.waitPrompt, j, t)
    BY <1>1, <1>6 DEF Resuming, Known, m
  <2> QED
    BY <1>3, <1>5, <2>1, <2>2, <2>3
<1>7. CASE t \in Live /\ ~target[t].running
  <2>1. PICK j \in 2..k : x[j].kind = "running" /\ t \in x[j].data /\ x[j - 1].kind = "done"
    BY <1>4, <1>7 DEF Lasting, k
  <2>2. /\ j \in 1..k /\ j - 1 \in 1..k /\ m + (j - 1) = (m + j) - 1 /\ m + j # 1 /\ m + j \in 1..Len(out')
        /\ \A i \in 1..m : m + j \in (i + 1)..Len(out')
    <3>1. m \in Nat /\ k \in Nat /\ Len(out') \in Nat /\ m + k <= Len(out')
      BY <1>2
    <3> QED
      BY <3>1, Shifted
  <2>3. Resumes(out', scope.waitPrompt, m + j, t)
    <3>1. out'[m + j] = x[j] /\ out'[(m + j) - 1] = x[j - 1]
      BY <1>2, <2>2
    <3> QED
      BY <2>1, <2>2, <3>1 DEF Resumes
  <2> QED
    BY <1>5, <2>2, <2>3
<1>8. CASE t \notin Live
  <2>1. t \notin 1..created /\ t \in Thread
    BY <1>4, <1>8 DEF Lasting
  <2>2. t \notin Known(scope)
    BY <1>1, <2>1
  <2>3. \A i \in 1..m : ~Tells(out'[i], t)
    BY <1>1, <1>2, <2>1 DEF Numbered, m
  <2> QED
    BY <1>5, <2>2, <2>3
<1> QED
  BY <1>6, <1>7, <1>8

LEMMA GdbAnswered ==
  ASSUME SeenIInv, scope.gdb = "ACTIVE", gdbUp, scope' = scope,
         NEW x, IsSeq(x), NEW y \in {<<>>, <<Prompt>>}, out' = out \o x \o y,
         Lasting(x), Truly(x)
  PROVE  Numbered(out)' /\ Answered(out)'
<1> DEFINE m == Len(out)
           k == Len(x)
<1>1. IsSeq(out) /\ Numbered(out) /\ Answered(out)
  BY SeenGood DEF SeenIInv, Seen
<1>2. /\ m \in Nat /\ k \in Nat /\ Len(out') \in Nat /\ m + k <= Len(out')
      /\ \A i \in 1..m : out'[i] = out[i]
      /\ \A i \in 1..k : out'[m + i] = x[i]
      /\ Written(out', out, x)
  <2>1. m \in Nat /\ k \in Nat /\ Len(out') \in Nat /\ m + k <= Len(out')
    BY <1>1, PipeMore
  <2>2. \A i \in 1..m : out'[i] = out[i]
    BY <1>1, PipeMore
  <2>3. \A i \in 1..k : out'[m + i] = x[i]
    BY <1>1, PipeMore
  <2>4. Written(out', out, x)
    BY <1>1, PipeMore
  <2> QED
    BY <2>1, <2>2, <2>3, <2>4
<1>3. \A t : \A n \in 1..(m + 1) : Stopping(out, t, n) \/ Stopping(x, t, 1) => Stopping(out', t, n)
  BY <1>1, ComingMore
<1> HIDE DEF m, k
<1>4. created \in Nat /\ created' \in Nat /\ \A t : t \in 1..created => t \in 1..created'
  BY ScopeAssumption DEF Lasting, SeenIInv, StepIInv, ThreadsIInv
<1>5. ASSUME NEW i \in 1..Len(out')
      PROVE  \/ i \in 1..m /\ out'[i] = out[i]
             \/ \E j \in 1..k : out'[i] = x[j]
             \/ out'[i].kind = "prompt"
  BY <1>2 DEF Written, m, k
<1>6. Numbered(out)'
  <2>1. SUFFICES ASSUME NEW i \in 1..Len(out')
                 PROVE  /\ \A t \in Thread : Tells(out'[i], t) => t \in 1..created'
                        /\ out'[i].kind = "stopped" => out'[i].thread \in out'[i].data
    BY DEF Numbered
  <2>2. CASE i \in 1..m /\ out'[i] = out[i]
    BY <1>1, <1>4, <2>2 DEF Numbered, m
  <2>3. CASE \E j \in 1..k : out'[i] = x[j]
    BY <2>3 DEF Truly, k
  <2>4. CASE out'[i].kind = "prompt"
    BY <2>4 DEF Tells
  <2> QED
    BY <1>5, <2>2, <2>3, <2>4
<1>7. Answered(out)'
  <2>1. SUFFICES ASSUME NEW i \in 1..Len(out'), out'[i].kind \in {"stack", "locals"}
                 PROVE  LET d == out'[i].data IN
                        /\ d.of \in 1..created'
                        /\ d.of \in Live' =>
                             \/ Stopping(out', d.of, i + 1)
                             \/ d = IF out'[i].kind = "stack" THEN StackThen(d.of) ELSE LocalsThen(d.of, d.frame)
    BY DEF Answered, StackOf, LocalsOf, StackThen, LocalsThen
  <2>2. CASE i \in 1..m /\ out'[i] = out[i]
    <3> DEFINE d == out[i].data
    <3>1. /\ d.of \in 1..created
          /\ d.of \in Live =>
               \/ Stopping(out, d.of, i + 1)
               \/ d = IF out[i].kind = "stack" THEN StackOf(d.of) ELSE LocalsOf(d.of, d.frame)
      BY <1>1, <2>1, <2>2 DEF Answered, m
    <3>2. i + 1 \in 1..(m + 1)
      BY <1>2, <2>2
    <3>3. ASSUME d.of \in Live', ~Stopping(out', d.of, i + 1)
          PROVE  d = IF out[i].kind = "stack" THEN StackThen(d.of) ELSE LocalsThen(d.of, d.frame)
      <4>1. d.of \in Live /\ ~Stopping(out, d.of, i + 1) /\ ~Stopping(x, d.of, 1)
        BY <1>3, <3>1, <3>2, <3>3 DEF Lasting
      <4>2. target'[d.of].stop = target[d.of].stop /\ target'[d.of].depth = target[d.of].depth
        BY <3>3, <4>1 DEF Lasting
      <4> QED
        BY <3>1, <4>1, <4>2 DEF StackOf, LocalsOf, StackThen, LocalsThen
    <3> QED
      BY <1>4, <2>2, <3>1, <3>3
  <2>3. CASE \E j \in 1..k : out'[i] = x[j]
    BY <1>4, <2>1, <2>3 DEF Truly, k
  <2> QED
    BY <1>5, <2>1, <2>2, <2>3
<1> QED
  BY <1>6, <1>7

LEMMA GdbViewed ==
  ASSUME SeenIInv, scope.gdb = "ACTIVE", gdbUp, scope' = scope,
         NEW x, IsSeq(x), NEW y \in {<<>>, <<Prompt>>}, out' = out \o x \o y,
         Lasting(x), Serving(x), Live' \subseteq Thread
  PROVE  Viewed(scope, out)'
<1>1. IsSeq(out) /\ Viewed(scope, out) /\ Known(scope) \subseteq 1..created /\ Sound(scope)
  BY SeenGood DEF SeenIInv, Seen
<1>2. /\ Asked(scope)' \subseteq Asked(scope)
      /\ \A c \in Asked(scope) : c \in Asked(scope)' \/ Serves(c, x)
  BY GdbAsked
<1>3. Framed(scope)'
  BY <1>1 DEF Viewed, Framed
<1>4. created \in Nat /\ created' \in Nat /\ \A t : t \in 1..created => t \in 1..created'
  BY ScopeAssumption DEF Lasting, SeenIInv, StepIInv, ThreadsIInv
<1>5. Asking(scope)'
  <2>1. SUFFICES ASSUME NEW c \in Asked(scope)', c.name \in {"frames", "locals"}
                 PROVE  /\ c.thread \in 1..created'
                        /\ c.thread \in Live' => ~target'[c.thread].running
                        /\ \A d \in Asked(scope)' : d.name # "continue"
    BY DEF Asking
  <2>2. /\ c.thread \in 1..created
        /\ c.thread \in Live => ~target[c.thread].running
        /\ \A d \in Asked(scope) : d.name # "continue"
    BY <1>1, <1>2, <2>1 DEF Viewed, Asking
  <2>3. ASSUME c.thread \in Live', target'[c.thread].running PROVE FALSE
    <3>1. c.thread \in Live
      BY <2>2, <2>3 DEF Lasting
    <3> QED
      BY <2>2, <2>3, <3>1 DEF Lasting
  <2> QED
    BY <1>2, <1>4, <2>2, <2>3
<1>6. ASSUME scope.id \in Live'
      PROVE  /\ scope.id \in Live
             /\ \/ /\ target'[scope.id].stop = target[scope.id].stop
                   /\ target'[scope.id].depth = target[scope.id].depth
                \/ Stopping(out', scope.id, 1)
             /\ StackComing(out, scope.id) \/ StackComing(x, scope.id) => StackComing(out', scope.id)
             /\ LocalsComing(out, scope.id, scope.frame) \/ LocalsComing(x, scope.id, scope.frame) =>
                  LocalsComing(out', scope.id, scope.frame)
             /\ Stopping(out, scope.id, 1) => Stopping(out', scope.id, 1)
  <2>1. scope.id \in Live
    <3>1. NULL \notin Thread
      BY ScopeAssumption DEF Thread
    <3>2. scope.id \in 1..created
      BY <1>1, <1>6, <3>1 DEF Sound, Selected
    <3> QED
      BY <1>6, <3>2 DEF Lasting
  <2>2. 1 \in 1..(Len(out) + 1)
    BY <1>1, SeqOver
  <2>3. Stopping(out, scope.id, 1) \/ Stopping(x, scope.id, 1) => Stopping(out', scope.id, 1)
    BY <1>1, <2>2, ComingMore
  <2>4. /\ StackComing(out, scope.id) \/ StackComing(x, scope.id) => StackComing(out', scope.id)
        /\ LocalsComing(out, scope.id, scope.frame) \/ LocalsComing(x, scope.id, scope.frame) =>
             LocalsComing(out', scope.id, scope.frame)
    BY <1>1, ComingMore
  <2> QED
    BY <1>6, <2>1, <2>3, <2>4 DEF Lasting
<1>7. ASSUME scope.id \in Live', NEW c \in Asked(scope), c.name \in {"frames", "locals"}, c.thread = scope.id
      PROVE  IsStopped(scope.id)
  BY <1>1, <1>6, <1>7 DEF Viewed, Asking, IsStopped
<1>8. (scope.id \in Live => StackInStep(scope, out))'
  <2>1. SUFFICES ASSUME scope.id \in Live', ~Stopping(out', scope.id, 1)
                 PROVE  \/ "stack" \in scope.dirty \/ scope.stack \in {NoStack, StackThen(scope.id)}
                        \/ Request("frames", scope.id, NULL) \in Asked(scope)' \/ StackComing(out', scope.id)
    BY DEF StackInStep, StackAsked, StackOf, StackThen
  <2> DEFINE c == Request("frames", scope.id, NULL)
  <2>2. StackInStep(scope, out) /\ ~Stopping(out, scope.id, 1)
    BY <1>1, <1>6, <2>1 DEF Viewed
  <2>3. CASE "stack" \in scope.dirty \/ scope.stack = NoStack
    BY <2>3
  <2>4. CASE scope.stack = StackOf(scope.id)
    <3>1. StackThen(scope.id) = StackOf(scope.id)
      BY <1>6, <2>1 DEF StackOf, StackThen
    <3> QED
      BY <2>4, <3>1
  <2>5. CASE StackComing(out, scope.id)
    BY <1>6, <2>1, <2>5
  <2>6. CASE c \in Asked(scope)
    <3>1. c.name = "frames" /\ c.thread = scope.id
      BY DEF Request
    <3> HIDE DEF c
    <3>2. IsStopped(scope.id)
      BY <1>7, <2>1, <2>6, <3>1
    <3>3. c \in Asked(scope)' \/ StackComing(x, scope.id)
      BY <1>2, <2>6, <3>1, <3>2 DEF Serves
    <3> QED
      BY <1>6, <2>1, <3>3 DEF c
  <2> QED
    BY <2>2, <2>3, <2>4, <2>5, <2>6 DEF StackInStep, StackAsked
<1>9. (scope.id \in Live => LocalsInStep(scope, out))'
  <2> DEFINE c == Request("locals", scope.id, scope.frame)
  <2>1. SUFFICES ASSUME scope.id \in Live', ~Stopping(out', scope.id, 1)
                 PROVE  \/ "locals" \in scope.dirty \/ scope.locals \in {NoLocals, LocalsThen(scope.id, scope.frame)}
                        \/ c \in Asked(scope)' /\ scope.frame < target'[scope.id].depth
                        \/ LocalsComing(out', scope.id, scope.frame)
    BY DEF LocalsInStep, LocalsAsked, LocalsOf, LocalsThen
  <2>2. LocalsInStep(scope, out) /\ ~Stopping(out, scope.id, 1)
    BY <1>1, <1>6, <2>1 DEF Viewed
  <2>3. CASE "locals" \in scope.dirty \/ scope.locals = NoLocals
    BY <2>3
  <2>4. CASE scope.locals = LocalsOf(scope.id, scope.frame)
    <3>1. LocalsThen(scope.id, scope.frame) = LocalsOf(scope.id, scope.frame)
      BY <1>6, <2>1 DEF LocalsOf, LocalsThen
    <3> QED
      BY <2>4, <3>1
  <2>5. CASE LocalsComing(out, scope.id, scope.frame)
    BY <1>6, <2>1, <2>5
  <2>6. CASE c \in Asked(scope) /\ scope.frame < target[scope.id].depth
    <3>1. c.name = "locals" /\ c.thread = scope.id /\ c.frame = scope.frame
      BY DEF Request
    <3> HIDE DEF c
    <3>2. IsStopped(scope.id)
      BY <1>7, <2>1, <2>6, <3>1
    <3>3. c \in Asked(scope)' \/ LocalsComing(x, scope.id, scope.frame)
      BY <1>2, <2>6, <3>1, <3>2 DEF Serves
    <3>4. target'[scope.id].depth = target[scope.id].depth
      BY <1>6, <2>1
    <3> QED
      BY <1>6, <2>1, <2>6, <3>3, <3>4
  <2> QED
    BY <2>2, <2>3, <2>4, <2>5, <2>6 DEF LocalsInStep, LocalsAsked
<1> QED
  BY <1>3, <1>5, <1>8, <1>9 DEF Viewed

LEMMA GdbSeen ==
  ASSUME SeenIInv, scope.gdb = "ACTIVE", gdbUp, UNCHANGED <<scope, async, all>>, ThreadsIInv',
         NEW x, IsSeq(x), NEW y \in {<<>>, <<Prompt>>}, out' = out \o x \o y,
         Lasting(x), Truly(x), Serving(x), Deep'
  PROVE  Seen'
<1>1. Live' \subseteq Thread
  <2>1. Told'
    BY DEF ThreadsIInv
  <2> QED
    BY <2>1, ScopeAssumption DEF Told, Alive, ThreadsIInv, Thread
<1>2. UpToDate(scope)'
  BY DEF SeenIInv, Seen, UpToDate, DebugState, Shown
<1> QED
  BY <1>1, <1>2, GdbResuming, GdbAnswered, GdbViewed DEF Seen

(* A command that changes no thread, answered in one record                  *)
LEMMA AnsweredSeen ==
  ASSUME SeenIInv, scope.gdb = "ACTIVE", gdbUp, ThreadsIInv',
         UNCHANGED <<scope, async, all, target, created>>,
         input # <<>>, input' = Tail(input),
         NEW kind \in Results, NEW thread, NEW data, NEW y \in {<<>>, <<Prompt>>},
         out' = out \o <<Record(kind, thread, data)>> \o y,
         kind = "frame" => IsStopped(thread),
         kind = "threads" => \A t \in DOMAIN data : t \in Live /\ data[t] = target[t].running,
         kind = "stack" => IsStopped(data.of) /\ data = StackOf(data.of),
         kind = "locals" => IsStopped(data.of) /\ data = LocalsOf(data.of, data.frame),
         LET c == Head(input) IN
         /\ c.name = "frames" /\ IsStopped(c.thread) => kind = "stack" /\ data.of = c.thread
         /\ c.name = "locals" /\ IsStopped(c.thread) /\ c.frame < target[c.thread].depth =>
              kind = "locals" /\ data.of = c.thread /\ data.frame = c.frame
  PROVE  Seen'
<1> DEFINE r == Record(kind, thread, data)
           x == <<r>>
<1>1. r.kind = kind /\ r.thread = thread /\ r.data = data
  BY DEF Record
<1>2. out' = out \o x \o y
  OBVIOUS
<1> HIDE DEF r
<1>3. IsSeq(x) /\ Len(x) = 1 /\ x[1] = r /\ \A i \in 1..1 : i = 1
  BY Single
<1> HIDE DEF x
<1>4. Live' = Live /\ Live \subseteq 1..created /\ created \in Nat /\ Deep
  BY SeenGood, ScopeAssumption DEF Live, SeenIInv, StepIInv, ThreadsIInv
<1>5. Deep'
  BY <1>4 DEF Deep
<1>6. Lasting(x)
  BY <1>4 DEF Lasting
<1>7. Serving(x)
  <2> DEFINE c == Head(input)
  <2>1. c.name = "frames" /\ IsStopped(c.thread) => StackComing(x, c.thread)
    BY <1>1, <1>3 DEF StackComing
  <2>2. c.name = "locals" /\ IsStopped(c.thread) /\ c.frame < target[c.thread].depth =>
          LocalsComing(x, c.thread, c.frame)
    BY <1>1, <1>3 DEF LocalsComing
  <2> QED
    BY <2>1, <2>2 DEF Serving, Serves
<1>8. Truly(x)
  <2>1. ASSUME NEW t, Tells(r, t)
        PROVE  t \in 1..created /\ (Says(r, t) = "Stopped" => ~target[t].running)
    <3>1. CASE kind = "frame"
      <4>1. t = thread
        BY <1>1, <2>1, <3>1 DEF Tells
      <4> QED
        BY <1>4, <3>1, <4>1 DEF IsStopped
    <3>2. CASE kind = "threads"
      <4>1. t \in DOMAIN data /\ r.data[t] = target[t].running
        BY <1>1, <2>1, <3>2 DEF Tells
      <4>2. t \in Live
        BY <3>2, <4>1
      <4>3. ASSUME target[t].running PROVE Says(r, t) # "Stopped"
        <5>1. r.data[t]
          BY <4>1, <4>3, Zenon
        <5>2. r.kind = "threads"
          BY <1>1, <3>2
        <5> QED
          BY <5>1, <5>2 DEF Says
      <4> QED
        BY <1>4, <4>2, <4>3
    <3> QED
      BY <1>1, <2>1, <3>1, <3>2 DEF Tells, Results
  <2>2. kind = "stack" => data.of \in Live /\ data = StackThen(data.of)
    BY DEF IsStopped, StackOf, StackThen
  <2>3. kind = "locals" => data.of \in Live /\ data = LocalsThen(data.of, data.frame)
    BY DEF IsStopped, LocalsOf, LocalsThen
  <2>4. kind # "stopped"
    BY DEF Results
  <2> QED
    BY <1>1, <1>3, <1>4, <2>1, <2>2, <2>3, <2>4 DEF Truly
<1> QED
  BY <1>2, <1>3, <1>5, <1>6, <1>7, <1>8, GdbSeen

(* "run": the first thread                                                   *)
LEMMA RunsSeen ==
  ASSUME SeenIInv, scope.gdb = "ACTIVE", gdbUp, ThreadsIInv', UNCHANGED <<scope, async, all>>,
         input # <<>>, input' = Tail(input), Head(input).name = "run",
         created' = created + 1, target' = WithThread(created + 1), NEW y \in {<<>>, <<Prompt>>},
         out' = out \o <<Record("created", created + 1, NULL), Record("done", NULL, NULL),
                         Record("running", NULL, Live \cup {created + 1})>> \o y
  PROVE  Seen'
<1> DEFINE a == Record("created", created + 1, NULL)
           b == Record("done", NULL, NULL)
           d == Record("running", NULL, Live \cup {created + 1})
           x == <<a, b, d>>
<1>1. /\ a.kind = "created" /\ b.kind = "done"
      /\ d.kind = "running" /\ d.data = Live \cup {created + 1}
  BY DEF Record
<1>2. out' = out \o x \o y
  OBVIOUS
<1> HIDE DEF a, b, d
<1>3. /\ IsSeq(x) /\ Len(x) = 3 /\ x[1] = a /\ x[2] = b /\ x[3] = d
      /\ \A i \in 1..3 : i \in {1, 2, 3}
  BY Triple
<1> HIDE DEF x
<1>4. Live = {}
  <2>1. 1 \in Launches(input)
    BY AtTail DEF SeenIInv, StepIInv, Held, InStep, Counts, Launches, Launching
  <2> QED
    BY <2>1 DEF SeenIInv, StepIInv, Held, InStep, LaunchedOnce
<1>5. /\ Live' = {created + 1} /\ (\A t \in Live' : target'[t].running)
      /\ created \in Nat /\ created + 1 \notin 1..created
  BY <1>4, ScopeAssumption DEF Live, WithThread, SeenIInv, StepIInv, ThreadsIInv
<1>6. Deep'
  BY <1>5 DEF Deep
<1>7. Lasting(x)
  BY <1>4, <1>5 DEF Lasting
<1>8. Serving(x)
  BY DEF Serving, Serves
<1>9. Truly(x)
  <2>1. \A t : Tells(d, t) => t = created + 1 /\ Says(d, t) = "Running"
    BY <1>1, <1>4 DEF Tells, Says
  <2>2. \A t : ~Tells(a, t) /\ ~Tells(b, t)
    BY <1>1 DEF Tells
  <2>3. created + 1 \in 1..created'
    BY <1>5
  <2> QED
    BY <1>1, <1>3, <2>1, <2>2, <2>3 DEF Truly
<1> QED
  BY <1>2, <1>3, <1>6, <1>7, <1>8, <1>9, GdbSeen

(* "continue": one thread runs, or all.                                      *)
LEMMA ContinuesSeen ==
  ASSUME SeenIInv, scope.gdb = "ACTIVE", gdbUp, ThreadsIInv',
         UNCHANGED <<scope, async, all, created>>,
         input # <<>>, input' = Tail(input), Head(input).name = "continue", NEW t, IsStopped(t),
         target' = Runs(Resumed(t)), NEW y \in {<<>>, <<Prompt>>},
         out' = out \o <<Record("done", NULL, NULL), Record("running", NULL, Resumed(t))>> \o y
  PROVE  Seen'
<1> DEFINE a == Record("done", NULL, NULL)
           b == Record("running", NULL, Resumed(t))
           x == <<a, b>>
<1>1. a.kind = "done" /\ b.kind = "running" /\ b.data = Resumed(t)
  BY DEF Record
<1>2. out' = out \o x \o y
  OBVIOUS
<1> HIDE DEF a, b
<1>3. /\ IsSeq(x) /\ Len(x) = 2 /\ x[1] = a /\ x[2] = b
      /\ \A i \in 1..2 : i \in {1, 2}
  BY Pair
<1> HIDE DEF x
<1>4. /\ Live' = Live /\ Resumed(t) \subseteq Live
      /\ \A u \in Live : target'[u].stop = target[u].stop /\ target'[u].depth = target[u].depth
      /\ \A u \in Live \ Resumed(t) : target'[u] = target[u]
      /\ \A u \in Live \cap Resumed(t) : target'[u].running
  <2>1. target' = [u \in Live |-> IF u \in Resumed(t) THEN [target[u] EXCEPT !.running = TRUE]
                                 ELSE target[u]]
    BY DEF Runs
  <2>2. Live' = Live /\ Resumed(t) \subseteq Live
    BY <2>1 DEF Live, Resumed, IsStopped
  <2>3. ASSUME NEW u \in Live \cap Resumed(t)
        PROVE  /\ target'[u].stop = target[u].stop /\ target'[u].depth = target[u].depth
               /\ target'[u].running
    <3> DEFINE was == target[u]
    <3>1. was = [running |-> was.running, stop |-> was.stop, depth |-> was.depth]
      BY DEF SeenIInv, StepIInv, Held, InStep, TargetShape
    <3>2. target'[u] = [was EXCEPT !.running = TRUE]
      BY <2>1
    <3> HIDE DEF was
    <3>3. target'[u] = [running |-> TRUE, stop |-> was.stop, depth |-> was.depth]
      BY <3>1, <3>2
    <3> QED
      BY <3>3 DEF was
  <2> QED
    BY <2>1, <2>2, <2>3
<1>5. Live \subseteq 1..created /\ created \in Nat /\ Deep /\ IsSeq(input)
  BY SeenGood, ScopeAssumption DEF SeenIInv, StepIInv, ThreadsIInv, Held, InStep, Counts
<1>6. Deep'
  BY <1>4, <1>5 DEF Deep
<1>7. Lasting(x)
  <2>1. \E c \in Asked(scope) : c.name = "continue"
    BY <1>5, RangeMore DEF Asked
  <2>2. ASSUME NEW u \in Live, ~target[u].running, target'[u].running
        PROVE  \E j \in 2..Len(x) : x[j].kind = "running" /\ u \in x[j].data /\ x[j - 1].kind = "done"
    <3>1. u \in Resumed(t)
      BY <1>4, <2>2
    <3>2. 2 \in 2..Len(x) /\ x[2] = b /\ x[2 - 1] = a
      BY <1>3
    <3> QED
      BY <1>1, <3>1, <3>2
  <2>3. created' \in Nat /\ created <= created' /\ Live' \cap (1..created) \subseteq Live
    BY <1>4, <1>5
  <2>4. \A u \in Live \cap Live' : target'[u].stop = target[u].stop /\ target'[u].depth = target[u].depth
    BY <1>4
  <2> QED
    BY <2>1, <2>2, <2>3, <2>4, Zenon DEF Lasting
<1>8. Serving(x)
  BY DEF Serving, Serves
<1>9. Truly(x)
  <2>1. \A u : Tells(b, u) => u \in 1..created /\ Says(b, u) = "Running"
    BY <1>1, <1>4, <1>5 DEF Tells, Says
  <2>2. \A u : ~Tells(a, u)
    BY <1>1 DEF Tells
  <2> QED
    BY <1>1, <1>3, <2>1, <2>2 DEF Truly
<1> QED
  BY <1>2, <1>3, <1>6, <1>7, <1>8, <1>9, GdbSeen

(* "kill": every thread goes.                                                *)
LEMMA KillsSeen ==
  ASSUME SeenIInv, scope.gdb = "ACTIVE", gdbUp, ThreadsIInv',
         UNCHANGED <<scope, async, all, created>>,
         input # <<>>, input' = Tail(input), Head(input).name = "kill", NEW exits \in Exits(Live),
         Live' = {}, NEW y \in {<<>>, <<Prompt>>},
         out' = out \o (exits \o <<Record("done", NULL, NULL)>>) \o y
  PROVE  Seen'
<1> DEFINE a == Record("done", NULL, NULL)
           last == <<a>>
           x == exits \o last
           n == Len(exits)
<1>1. a.kind = "done"
  BY DEF Record
<1>2. out' = out \o x \o y
  OBVIOUS
<1>3. IsFiniteSet(Live)
  BY ToldFinite DEF SeenIInv, StepIInv, ThreadsIInv
<1>4. IsSeq(exits) /\ \A i \in 1..Len(exits) : exits[i].kind = "exited"
  BY <1>3, ExitsPlain
<1> HIDE DEF a
<1>5. IsSeq(last) /\ Len(last) = 1 /\ last[1] = a
  BY Single
<1> HIDE DEF last
<1>6. /\ IsSeq(x) /\ Len(x) = n + 1 /\ n \in Nat
      /\ \A i \in 1..(n + 1) : x[i] = IF i <= n THEN exits[i] ELSE last[i - n]
  <2>1. /\ IsSeq(x) /\ Len(x) = n + Len(last) /\ n \in Nat
        /\ \A i \in 1..(n + Len(last)) : x[i] = IF i <= n THEN exits[i] ELSE last[i - n]
    BY <1>4, <1>5, Joined, SeqOver
  <2> HIDE DEF x, n
  <2> QED
    BY <1>5, <2>1
<1> HIDE DEF x, n
<1>7. \A i \in 1..Len(x) : x[i].kind \in {"exited", "done"}
  <2> SUFFICES ASSUME NEW i \in 1..(n + 1) PROVE x[i].kind \in {"exited", "done"}
    BY <1>6
  <2>1. CASE i <= n
    BY <1>4, <1>6, <2>1 DEF n
  <2>2. CASE ~(i <= n)
    <3>1. i - n = 1
      BY <1>6, <2>2
    <3> QED
      BY <1>1, <1>5, <1>6, <2>2, <3>1
  <2> QED
    BY <2>1, <2>2
<1>8. Lasting(x) /\ Deep'
  BY ScopeAssumption DEF Lasting, Deep, SeenIInv, StepIInv, ThreadsIInv
<1>9. Serving(x)
  BY DEF Serving, Serves
<1>10. Truly(x)
  BY <1>7 DEF Truly, Tells
<1> QED
  BY <1>2, <1>6, <1>8, <1>9, <1>10, GdbSeen

(* A breakpoint, a step or a signal                                          *)
LEMMA TargetStopsSeen ==
  ASSUME SeenIInv, scope.gdb = "ACTIVE", gdbUp, ThreadsIInv', TargetStops
  PROVE  Seen'
<1>1. PICK t \in Live, d \in 1..Depth :
        LET ts == IF async THEN {t} ELSE Live IN
        /\ target' = [u \in Live |->
                        IF u = t THEN [running |-> FALSE, stop |-> stops + 1, depth |-> d]
                        ELSE IF u \in ts THEN [running |-> FALSE, stop |-> stops + 1, depth |-> 1]
                        ELSE target[u]]
        /\ out' = out \o <<Record("stopped", t, ts)>> \o (IF async THEN <<>> ELSE <<Prompt>>)
  BY DEF TargetStops
<1> DEFINE ts == IF async THEN {t} ELSE Live
           r == Record("stopped", t, ts)
           x == <<r>>
           y == IF async THEN <<>> ELSE <<Prompt>>
<1>2. /\ UNCHANGED <<scope, input, async, all, created>>
      /\ out' = out \o x \o y /\ y \in {<<>>, <<Prompt>>}
  BY <1>1 DEF TargetStops, options
<1>3. r.kind = "stopped" /\ r.thread = t /\ r.data = ts
  BY DEF Record
<1> HIDE DEF r
<1>4. IsSeq(x) /\ Len(x) = 1 /\ x[1] = r /\ \A i \in 1..1 : i = 1
  BY Single
<1>5. /\ Live' = Live /\ t \in ts /\ ts \subseteq Live
      /\ \A u \in ts : \E s : \E e \in 1..Depth :
           target'[u] = [running |-> FALSE, stop |-> s, depth |-> e]
      /\ \A u \in Live \ ts : target'[u] = target[u]
  <2>1. 1 \in 1..Depth
    BY ScopeAssumption
  <2> QED
    BY <1>1, <2>1 DEF Live
<1> HIDE DEF x, y, ts
<1>6. \A u \in ts : ~target'[u].running /\ target'[u].depth \in Nat \ {0}
  <2> SUFFICES ASSUME NEW u \in ts PROVE ~target'[u].running /\ target'[u].depth \in Nat \ {0}
    OBVIOUS
  <2>1. PICK s, e : e \in 1..Depth /\ target'[u] = [running |-> FALSE, stop |-> s, depth |-> e]
    BY <1>5
  <2>2. target'[u].running = FALSE /\ target'[u].depth = e
    BY <2>1
  <2>3. e \in Nat \ {0}
    BY <2>1, ScopeAssumption
  <2> QED
    BY <2>2, <2>3
<1>7. Live \subseteq 1..created /\ created \in Nat /\ Deep
  BY SeenGood, ScopeAssumption DEF SeenIInv, StepIInv, ThreadsIInv
<1>8. Deep'
  <2> SUFFICES ASSUME NEW u \in Live', ~target'[u].running PROVE target'[u].depth \in Nat \ {0}
    BY DEF Deep
  <2>1. CASE u \in ts
    BY <1>6, <2>1
  <2>2. CASE u \notin ts
    BY <1>5, <1>7, <2>2 DEF Deep
  <2> QED
    BY <2>1, <2>2
<1>9. Lasting(x)
  <2>1. created' \in Nat /\ created <= created' /\ Live' \cap (1..created) \subseteq Live
    BY <1>2, <1>5, <1>7
  <2>2. ASSUME NEW u \in Live, ~target[u].running, target'[u].running PROVE FALSE
    BY <1>5, <1>6, <2>2
  <2>3. ASSUME NEW u \in Live
        PROVE  \/ target'[u].stop = target[u].stop /\ target'[u].depth = target[u].depth
               \/ Stopping(x, u, 1)
    <3>1. CASE u \in ts
      BY <1>3, <1>4, <3>1 DEF Stopping
    <3>2. CASE u \notin ts
      BY <1>5, <2>3, <3>2
    <3> QED
      BY <3>1, <3>2
  <2> QED
    BY <2>1, <2>2, <2>3 DEF Lasting
<1>10. Serving(x)
  BY <1>2 DEF Serving
<1>11. Truly(x)
  <2>1. \A u : Tells(r, u) => u \in ts /\ ~target'[u].running
    BY <1>3, <1>5, <1>6 DEF Tells
  <2>2. ts \subseteq 1..created'
    BY <1>2, <1>5, <1>7
  <2> QED
    BY <1>3, <1>4, <1>5, <2>1, <2>2 DEF Truly
<1> QED
  BY <1>2, <1>4, <1>8, <1>9, <1>10, <1>11, GdbSeen

(* The program creates a thread.                                             *)
LEMMA TargetCreatesSeen ==
  ASSUME SeenIInv, scope.gdb = "ACTIVE", gdbUp, ThreadsIInv', TargetCreates
  PROVE  Seen'
<1> DEFINE new == created + 1
           ts == IF async THEN {new} ELSE Live \cup {new}
           a == Record("created", new, NULL)
           b == Record("running", NULL, ts)
           x == <<a, b>>
           y == <<>>
<1>1. a.kind = "created" /\ b.kind = "running" /\ b.data = ts
  BY DEF Record
<1>2. /\ UNCHANGED <<scope, input, async, all>> /\ target' = WithThread(new) /\ created' = new
      /\ out' = out \o x
  BY DEF TargetCreates, options
<1>3. Live \subseteq 1..created /\ created \in Nat /\ Deep /\ IsSeq(out)
  BY SeenGood, ScopeAssumption DEF SeenIInv, StepIInv, ThreadsIInv
<1>4. /\ new \notin 1..created /\ new \in 1..new /\ new \in Nat /\ created <= new
      /\ \A u \in 1..created : u \in 1..new
  BY <1>3
<1> HIDE DEF a, b
<1>5. /\ IsSeq(x) /\ Len(x) = 2 /\ x[1] = a /\ x[2] = b
      /\ \A i \in 1..2 : i \in {1, 2}
  BY Pair
<1> HIDE DEF x
<1>6. out' = out \o x \o y
  <2> DEFINE u == out \o x
  <2>1. IsSeq(u)
    BY <1>3, <1>5, Joined
  <2> HIDE DEF u
  <2>2. u \in Seq(Range(u))
    BY <2>1 DEF IsSeq
  <2>3. u \o <<>> = u
    BY <2>2, ConcatEmptySeq
  <2> QED
    BY <1>2, <2>3 DEF u
<1>7. ts \subseteq Live \cup {new}
  OBVIOUS
<1> HIDE DEF new, ts
<1>8. /\ Live' = Live \cup {new} /\ new \notin Live /\ \A u \in Live : target'[u] = target[u]
      /\ target'[new] = [running |-> TRUE, stop |-> 0, depth |-> 0]
  BY <1>2, <1>3, <1>4 DEF Live, WithThread
<1>9. target'[new].running = TRUE
  BY <1>8
<1>10. Deep'
  BY <1>3, <1>8, <1>9 DEF Deep
<1>11. Lasting(x)
  BY <1>2, <1>3, <1>4, <1>8 DEF Lasting
<1>12. Serving(x)
  BY <1>2 DEF Serving
<1>13. Truly(x)
  <2>1. \A u : Tells(b, u) => u \in ts /\ Says(b, u) = "Running"
    BY <1>1 DEF Tells, Says
  <2>2. \A u : ~Tells(a, u)
    BY <1>1 DEF Tells
  <2>3. ts \subseteq 1..created'
    BY <1>2, <1>3, <1>4, <1>7
  <2> QED
    BY <1>1, <1>5, <2>1, <2>2, <2>3 DEF Truly
<1>14. y \in {<<>>, <<Prompt>>}
  OBVIOUS
<1> HIDE DEF y
<1> QED
  BY <1>2, <1>5, <1>6, <1>10, <1>11, <1>12, <1>13, <1>14, GdbSeen

(* One thread ends, or all.                                                  *)
LEMMA TargetExitsSeen ==
  ASSUME SeenIInv, scope.gdb = "ACTIVE", gdbUp, ThreadsIInv', TargetExits
  PROVE  Seen'
<1>1. PICK ts \in {{t} : t \in Live} \cup {Live} :
        /\ target' = [t \in Live \ ts |-> target[t]]
        /\ \E x \in Exits(ts) :
             out' = out \o x \o (IF ~async /\ ts = Live THEN <<Prompt>> ELSE <<>>)
  BY DEF TargetExits
<1>2. PICK x \in Exits(ts) :
        out' = out \o x \o (IF ~async /\ ts = Live THEN <<Prompt>> ELSE <<>>)
  BY <1>1
<1> DEFINE y == IF ~async /\ ts = Live THEN <<Prompt>> ELSE <<>>
<1>3. /\ y \in {<<>>, <<Prompt>>} /\ out' = out \o x \o y
      /\ UNCHANGED <<scope, input, async, all, created>>
  BY <1>2 DEF TargetExits, options
<1> HIDE DEF y
<1>4. ts \subseteq Live
  BY <1>1
<1>5. IsSeq(x) /\ \A i \in 1..Len(x) : x[i].kind = "exited"
  <2>1. IsFiniteSet(Live)
    BY ToldFinite DEF TargetExits, SeenIInv, StepIInv, ThreadsIInv
  <2>2. IsFiniteSet(ts)
    BY <1>4, <2>1, FS_Subset
  <2> QED
    BY <2>2, ExitsPlain
<1>6. Live' = Live \ ts /\ \A u \in Live \ ts : target'[u] = target[u]
  BY <1>1 DEF Live
<1>7. created \in Nat /\ Deep
  BY SeenGood, ScopeAssumption DEF SeenIInv, StepIInv, ThreadsIInv
<1>8. Deep'
  BY <1>6, <1>7 DEF Deep
<1>9. Lasting(x)
  BY <1>3, <1>6, <1>7 DEF Lasting
<1>10. Serving(x)
  BY <1>3 DEF Serving
<1>11. Truly(x)
  BY <1>5 DEF Truly, Tells
<1> QED
  BY <1>3, <1>5, <1>8, <1>9, <1>10, <1>11, GdbSeen

LEMMA GdbExecutesSeen ==
  ASSUME SeenIInv, scope.gdb = "ACTIVE", gdbUp, ThreadsIInv', GdbExecutes, gdbUp'
  PROVE  Seen'
<1> DEFINE c == Head(input)
           t == c.thread
           ends == IF c.name = "exit" THEN <<>> ELSE <<Prompt>>
<1>1. input # <<>> /\ input' = Tail(input) /\ UNCHANGED <<scope, async, all>>
  BY DEF GdbExecutes, options
<1>2. ends \in {<<>>, <<Prompt>>}
  OBVIOUS
<1>3. ASSUME NEW kind \in Results, NEW thread, NEW data,
             Answer(c, target, <<Record(kind, thread, data)>>), created' = created,
             kind = "frame" => IsStopped(thread),
             kind = "threads" => \A u \in DOMAIN data : u \in Live /\ data[u] = target[u].running,
             kind = "stack" => IsStopped(data.of) /\ data = StackOf(data.of),
             kind = "locals" => IsStopped(data.of) /\ data = LocalsOf(data.of, data.frame),
             c.name = "frames" /\ IsStopped(t) => kind = "stack" /\ data.of = t,
             c.name = "locals" /\ IsStopped(t) /\ c.frame < target[t].depth =>
               kind = "locals" /\ data.of = t /\ data.frame = c.frame
      PROVE  Seen'
  <2>1. target' = target /\ out' = out \o <<Record(kind, thread, data)>> \o ends
    BY <1>3 DEF Answer
  <2> HIDE DEF ends
  <2> QED
    BY <1>1, <1>2, <1>3, <2>1, AnsweredSeen
<1>4. ASSUME c.name = "run", created' = created + 1,
             Answer(c, WithThread(created + 1),
                    <<Record("created", created + 1, NULL), Record("done", NULL, NULL),
                      Record("running", NULL, Live \cup {created + 1})>>)
      PROVE  Seen'
  <2>1. /\ target' = WithThread(created + 1)
        /\ out' = out \o <<Record("created", created + 1, NULL), Record("done", NULL, NULL),
                           Record("running", NULL, Live \cup {created + 1})>> \o ends
    BY <1>4 DEF Answer
  <2> HIDE DEF ends
  <2> QED
    BY <1>1, <1>2, <1>4, <2>1, RunsSeen
<1>5. ASSUME c.name = "continue", IsStopped(t), created' = created,
             Answer(c, Runs(Resumed(t)),
                    <<Record("done", NULL, NULL), Record("running", NULL, Resumed(t))>>)
      PROVE  Seen'
  <2>1. /\ target' = Runs(Resumed(t))
        /\ out' = out \o <<Record("done", NULL, NULL), Record("running", NULL, Resumed(t))>> \o ends
    BY <1>5 DEF Answer
  <2> HIDE DEF ends, t
  <2> QED
    BY <1>1, <1>2, <1>5, <2>1, ContinuesSeen
<1>6. ASSUME c.name = "kill", created' = created, NEW exits \in Exits(Live),
             Answer(c, [u \in {} |-> NULL], exits \o <<Record("done", NULL, NULL)>>)
      PROVE  Seen'
  <2>1. Live' = {} /\ out' = out \o (exits \o <<Record("done", NULL, NULL)>>) \o ends
    BY <1>6 DEF Answer, Live
  <2> HIDE DEF ends
  <2> QED
    BY <1>1, <1>2, <1>6, <2>1, KillsSeen
<1>7. \/ /\ c.name = "run" /\ created' = created + 1
         /\ Answer(c, WithThread(created + 1),
                   <<Record("created", created + 1, NULL), Record("done", NULL, NULL),
                     Record("running", NULL, Live \cup {created + 1})>>)
      \/ /\ c.name = "continue" /\ IsStopped(t) /\ created' = created
         /\ Answer(c, Runs(Resumed(t)),
                   <<Record("done", NULL, NULL), Record("running", NULL, Resumed(t))>>)
      \/ /\ c.name = "kill" /\ created' = created
         /\ \E exits \in Exits(Live) :
              Answer(c, [u \in {} |-> NULL], exits \o <<Record("done", NULL, NULL)>>)
      \/ /\ created' = created
         /\ \/ /\ \/ c.name \notin {"frames", "locals"}
                  \/ c.name = "frames" /\ ~IsStopped(t)
                  \/ c.name = "locals" /\ ~(IsStopped(t) /\ c.frame < target[t].depth)
               /\ \E kind \in Results \ {"frame", "threads", "stack", "locals"} :
                    Answer(c, target, <<Record(kind, NULL, NULL)>>)
            \/ /\ c.name = "info"
               /\ \E ts \in SUBSET Live : \E thread :
                    Answer(c, target, <<Record("threads", thread, States(ts))>>)
            \/ c.name = "frame" /\ IsStopped(t) /\ Answer(c, target, <<Record("frame", t, NULL)>>)
            \/ /\ c.name = "frames" /\ IsStopped(t)
               /\ Answer(c, target, <<Record("stack", NULL, StackOf(t))>>)
            \/ /\ c.name = "locals" /\ IsStopped(t)
               /\ Answer(c, target, <<Record("locals", NULL, LocalsOf(t, c.frame))>>)
  BY DEF GdbExecutes, Results, StackOf, LocalsOf
<1> HIDE DEF c, t, ends
<1>8. ASSUME NEW kind \in Results \ {"frame", "threads", "stack", "locals"},
             Answer(c, target, <<Record(kind, NULL, NULL)>>), created' = created,
             \/ c.name \notin {"frames", "locals"}
             \/ c.name = "frames" /\ ~IsStopped(t)
             \/ c.name = "locals" /\ ~(IsStopped(t) /\ c.frame < target[t].depth)
      PROVE  Seen'
  BY <1>3, <1>8
<1>9. ASSUME c.name = "info", created' = created, NEW ts \in SUBSET Live, NEW thread,
             Answer(c, target, <<Record("threads", thread, States(ts))>>)
      PROVE  Seen'
  <2>1. \A u \in DOMAIN States(ts) : u \in Live /\ States(ts)[u] = target[u].running
    BY DEF States
  <2>2. "threads" \in Results
    BY DEF Results
  <2> QED
    BY <1>3, <1>9, <2>1, <2>2
<1>10. ASSUME c.name = "frame", IsStopped(t), created' = created,
              Answer(c, target, <<Record("frame", t, NULL)>>)
       PROVE  Seen'
  <2>1. "frame" \in Results
    BY DEF Results
  <2> QED
    BY <1>3, <1>10, <2>1
<1>11. ASSUME c.name = "frames", IsStopped(t), created' = created,
              Answer(c, target, <<Record("stack", NULL, StackOf(t))>>)
       PROVE  Seen'
  <2>1. "stack" \in Results /\ StackOf(t).of = t
    BY DEF Results, StackOf
  <2> QED
    BY <1>3, <1>11, <2>1
<1>12. ASSUME c.name = "locals", IsStopped(t), created' = created,
              Answer(c, target, <<Record("locals", NULL, LocalsOf(t, c.frame))>>)
       PROVE  Seen'
  <2>1. "locals" \in Results /\ LocalsOf(t, c.frame).of = t /\ LocalsOf(t, c.frame).frame = c.frame
    BY DEF Results, LocalsOf
  <2> QED
    BY <1>3, <1>12, <2>1
<1> QED
  BY <1>4, <1>5, <1>6, <1>7, <1>8, <1>9, <1>10, <1>11, <1>12

-------------------------------------------------------------------------------
(* The steps                                                                 *)

(* GDB is there before, but when it is loaded, and after, but when it exits. *)
LEMMA GdbStays ==
  ASSUME StepIInv, [ScopeNext]_scopeVars, ~LoadProgram, ~GdbExitCb
  PROVE  (gdbUp' => gdbUp) /\ scope'.gdb \in {scope.gdb, "KILLING"}
<1>1. Sound(scope) /\ Plain(scope) /\ ThreadsIInv /\ Shape(scope)
  BY TypedIsPlain DEF StepIInv, ThreadsIInv, Sound, Typed
<1>2. CASE Receive
  <2>1. PICK Q : Read(scope, Q, Head(out)) /\ Keeps(Q, scope')
    BY <1>1, <1>2, ReceiveReads
  <2> QED
    BY <1>2, <2>1 DEF Receive, Read, Keeps
<1>3. CASE SendCommands
  BY <1>1, <1>3 DEF SendCommands, Shape, Fields
<1>4. ASSUME NEW name, NEW t, NEW f, User(Send(scope, name, t, f))
      PROVE  (gdbUp' => gdbUp) /\ scope'.gdb \in {scope.gdb, "KILLING"}
  BY <1>1, <1>4, SendSound DEF User, gdbVars
<1>5. CASE RunContinue
  BY <1>4, <1>5 DEF RunContinue
<1>6. CASE Terminate
  <2>1. CASE scope' = [scope EXCEPT !.gdb = "KILLING"] /\ gdbUp' = FALSE
    BY <1>1, <2>1, GdbSound
  <2>2. CASE User(Send(scope, "kill", NULL, NULL))
    BY <1>4, <2>2
  <2>3. CASE User([Send(scope, "exit", NULL, NULL) EXCEPT !.gdb = "KILLING"])
    <3> DEFINE Q == Send(scope, "exit", NULL, NULL)
    <3>1. Shape(Q)
      BY <1>1, SendSound DEF Sound, Typed
    <3>2. scope' = [Q EXCEPT !.gdb = "KILLING"] /\ gdbUp' = gdbUp
      BY <2>3 DEF User, gdbVars
    <3> HIDE DEF Q
    <3>3. scope'.gdb = "KILLING"
      BY <3>1, <3>2 DEF Shape, Fields
    <3> QED
      BY <3>2, <3>3
  <2> QED
    BY <1>6, <2>1, <2>2, <2>3 DEF Terminate
<1>7. CASE Refresh
  BY <1>4, <1>7 DEF Refresh
<1>8. CASE \E t \in Thread : ClickThread(t)
  BY <1>1, <1>8, SelectionSound DEF ClickThread, Sound, Moved, User, gdbVars
<1>9. CASE \E f \in Frame : ClickFrame(f)
  BY <1>1, <1>9, SelectFrameKeeps DEF ClickFrame, Keeps, User, gdbVars
<1>10. CASE \E v \in {"threads", "stack", "locals"} : ViewChanged(v)
  <2>1. PICK v \in {"threads", "stack", "locals"} : ViewChanged(v)
    BY <1>10
  <2> DEFINE P == [scope EXCEPT !.view = v]
             st == DebugState(P)
  <2>2. Keeps(scope, P)
    BY <1>1 DEF Keeps, Asks, Plain, Shape, Fields
  <2>3. /\ scope' \in {ThreadsUpdate(P, st), StackUpdate(P, st), LocalsUpdate(P, st)}
        /\ gdbUp' = gdbUp
    BY <2>1 DEF ViewChanged, User, gdbVars
  <2> HIDE DEF P, st
  <2> QED
    BY <2>2, <2>3, ThreadsUpdateKeeps, StackUpdateKeeps, LocalsUpdateKeeps DEF Keeps
<1>11. CASE Gdb
  BY <1>11 DEF Gdb, GdbExecutes, TargetStops, TargetCreates, TargetExits, GdbDies
<1>12. CASE UNCHANGED scopeVars
  BY <1>12 DEF scopeVars, gdbVars
<1> QED
  BY <1>2, <1>3, <1>5, <1>6, <1>7, <1>8, <1>9, <1>10, <1>11, <1>12 DEF ScopeNext

LEMMA BlankStep ==
  ASSUME StepIInv, Blank, [ScopeNext]_scopeVars
  PROVE  Blank'
<1>1. SUFFICES ASSUME scope'.gdb = "INACTIVE"
               PROVE  scope'.frame = NULL /\ scope'.stack = NoStack
  BY DEF Blank
<1>2. Sound(scope) /\ Plain(scope) /\ ThreadsIInv /\ Shape(scope)
  BY TypedIsPlain DEF StepIInv, ThreadsIInv, Sound, Typed
<1>3. CASE GdbExitCb
  BY <1>2, <1>3 DEF GdbExitCb, Shape, Fields
<1>4. CASE LoadProgram
  BY <1>1, <1>2, <1>4 DEF LoadProgram, Shape, Fields
<1>5. CASE ~GdbExitCb /\ ~LoadProgram
  <2>1. /\ scope.gdb = "INACTIVE" /\ ~gdbUp /\ out = <<>> /\ Known(scope) = {}
        /\ DebugState(scope) = "INACTIVE"
    BY <1>1, <1>2, <1>5, GdbStays DEF ThreadsIInv, DebugState
  <2>2. scope.frame = NULL /\ scope.stack = NoStack
    BY <2>1 DEF Blank
  <2>3. scope.stack.of = NULL
    BY <2>2 DEF NoStack
  <2>4. CASE scope' = scope
    BY <2>2, <2>4
  <2>5. CASE \E v \in {"threads", "stack", "locals"} : ViewChanged(v)
    <3>1. PICK v \in {"threads", "stack", "locals"} : ViewChanged(v)
      BY <2>5
    <3> DEFINE P == [scope EXCEPT !.view = v]
               R == StackClear(P)
               none == [P EXCEPT !.locals = NoLocals]
    <3>2. Plain(P) /\ P.frame = NULL /\ P.stack = NoStack /\ DebugState(P) = "INACTIVE"
      BY <1>2, <2>1, <2>2 DEF Plain, Shape, Fields, DebugState
    <3>3. \/ scope' = P \/ scope' = Clean(R, "stack") \/ scope' = Clean(none, "locals")
      BY <3>1, <3>2 DEF ViewChanged, User, ThreadsUpdate, StackUpdate, LocalsUpdate
    <3> HIDE DEF P
    <3>4. Plain(R) /\ R.frame = NULL /\ R.stack = NoStack
      <4>1. Plain(R)
        BY <3>2, StackClearKeeps DEF Keeps
      <4> QED
        BY <3>2, <4>1 DEF StackClear, Dirty, Plain, Shape, Fields
    <3> HIDE DEF R
    <3>5. Clean(R, "stack").frame = NULL /\ Clean(R, "stack").stack = NoStack
      BY <3>4 DEF Clean, Plain, Shape, Fields
    <3>6. Clean(none, "locals").frame = NULL /\ Clean(none, "locals").stack = NoStack
      BY <3>2 DEF Clean, Plain, Shape, Fields
    <3> QED
      BY <3>2, <3>3, <3>5, <3>6
  <2>6. \/ scope' = scope
        \/ \E v \in {"threads", "stack", "locals"} : ViewChanged(v)
    BY <1>5, <2>1, <2>3 DEF ScopeNext, Gdb, Receive, SendCommands, RunContinue, Terminate, Refresh,
       ClickThread, ClickFrame, GdbExecutes, TargetStops, TargetCreates, TargetExits, GdbDies, scopeVars
  <2> QED
    BY <2>4, <2>5, <2>6
<1> QED
  BY <1>3, <1>4, <1>5

LEMMA SeenStep ==
  ASSUME SeenIInv, [ScopeNext]_scopeVars
  PROVE  SeenIInv'
<1>1. StepIInv' /\ ThreadsIInv'
  BY ThreadsStep, HeldStep DEF SeenIInv, StepIInv
<1>2. Blank'
  BY BlankStep DEF SeenIInv
<1>3. ASSUME scope'.gdb = "ACTIVE", gdbUp' PROVE Seen'
  <2>1. CASE LoadProgram
    BY <2>1, LoadSeen
  <2>2. CASE GdbExitCb
    BY <1>3, <2>2 DEF GdbExitCb, gdbVars
  <2>3. CASE ~LoadProgram /\ ~GdbExitCb
    <3>1. scope.gdb = "ACTIVE" /\ gdbUp
      BY <1>3, <2>3, GdbStays DEF SeenIInv
    <3>2. CASE UNCHANGED scopeVars
      <4>1. scope' = scope /\ UNCHANGED <<gdbVars, options>>
        BY <3>2 DEF scopeVars
      <4> QED
        BY <3>1, <4>1, SeenGood, UserSeen
    <3>3. CASE GdbDies
      BY <1>3, <3>3 DEF GdbDies
    <3> QED
      BY <1>1, <1>3, <2>3, <3>1, <3>2, <3>3, ReceiveSeen, SendCommandsSeen, RunContinueSeen,
         TerminateSeen, RefreshSeen, ClickThreadSeen, ClickFrameSeen, ViewChangedSeen,
         GdbExecutesSeen, TargetStopsSeen, TargetCreatesSeen, TargetExitsSeen
      DEF ScopeNext, Gdb
  <2> QED
    BY <2>1, <2>2, <2>3
<1> QED
  BY <1>1, <1>2, <1>3 DEF SeenIInv

LEMMA SeenInvariant == ScopeSpec => []SeenIInv
<1>1. ScopeInit => SeenIInv
  <2> SUFFICES ASSUME ScopeInit PROVE SeenIInv
    OBVIOUS
  <2>1. StepIInv
    BY ThreadsStart DEF StepIInv, Held, ScopeInit
  <2>2. Blank /\ ~gdbUp
    BY DEF ScopeInit, Blank
  <2> QED
    BY <2>1, <2>2 DEF SeenIInv
<1>2. SeenIInv /\ [ScopeNext]_scopeVars => SeenIInv'
  BY SeenStep
<1> QED
  BY <1>1, <1>2, PTL DEF ScopeSpec

(* While GDB runs and nothing it wrote is unread, in the state Debug, the    *)
(* stack on the screen is that of the thread selected at its last stop, and  *)
(* the locals are those of the frame selected, or nothing is shown           *)
(* (views.c, stack.c, local.c): no stack is left of an earlier stop, of      *)
(* another thread or frame, whatever the order in which stops, answers,      *)
(* selections and changes of the page came.                                  *)
THEOREM ShownTold == ScopeSpec => []ShownNotOutdated
<1>1. SeenIInv => ShownNotOutdated
  <2>1. SUFFICES ASSUME SeenIInv, Quiet, DebugState(scope) = "DEBUG"
                 PROVE  /\ Shown(scope, "stack") => scope.stack \in {NoStack, StackOf(scope.id)}
                        /\ Shown(scope, "locals") =>
                             scope.locals \in {NoLocals, LocalsOf(scope.id, scope.frame)}
    BY DEF ShownNotOutdated, StackOf, LocalsOf
  <2>2. scope.gdb = "ACTIVE" /\ gdbUp /\ out = <<>>
    BY <2>1 DEF Quiet
  <2>3. Good(scope, out) /\ UpToDate(scope) /\ IsSeq(out)
    BY <2>1, <2>2, SeenGood
  <2>4. input = <<>> /\ scope.id \in Live
    BY <2>1, NothingToRead DEF SeenIInv, IsStopped
  <2>5. Asked(scope) = {}
    <3>1. Range(scope.commands) = {}
      BY <2>1, <2>3, InDebug DEF Good
    <3> QED
      BY <2>4, <3>1, NoneAsked
  <2>6. \A i \in 1..Len(out) : FALSE
    <3>1. Len(out) = 0 /\ \A i \in 1..0 : FALSE
      BY <2>2
    <3> QED
      BY <3>1
  <2>7. "stack" \in scope.dirty \/ scope.stack \in {NoStack, StackOf(scope.id)}
    BY <2>3, <2>4, <2>5, <2>6 DEF Good, Viewed, StackInStep, StackAsked, StackComing, Stopping
  <2>8. "locals" \in scope.dirty \/ scope.locals \in {NoLocals, LocalsOf(scope.id, scope.frame)}
    BY <2>3, <2>4, <2>5, <2>6 DEF Good, Viewed, LocalsInStep, LocalsAsked, LocalsComing, Stopping
  <2> QED
    BY <2>1, <2>3, <2>7, <2>8 DEF UpToDate
<1> QED
  BY <1>1, SeenInvariant, PTL
===============================================================================
