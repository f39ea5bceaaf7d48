----------------------------- MODULE ScopeThreads -----------------------------
(* Scope's view of the threads GDB runs (scope/src/debug.c, thread.c,        *)
(* views.c, stack.c, local.c, parse.c): commands are collected in a buffer,  *)
(* sent when the pipe takes them and answered in order, each answer followed *)
(* by a prompt, between records that threads were created, run, stopped or   *)
(* exited.  What is shown is updated from answers, one record at a time,     *)
(* while the user selects threads and frames.                                *)
(*                                                                           *)
(* GDB is external: either it runs all threads in the foreground and takes   *)
(* no command meanwhile (async FALSE), or non-stop, each thread by itself.   *)
(* A view holds what an answer described: the thread, the number of its stop *)
(* and, for locals, the frame.  Breakpoints, inspects, watches, memory and   *)
(* registers are left out; markers, too.                                     *)
EXTENDS Integers, Sequences, SequencesExt, FiniteSets

CONSTANTS
  Threads,         \* GDB numbers threads 1..Threads, never twice
  Depth,           \* a stack has at most so many frames, 0..Depth - 1
  MaxStops,        \* bound on the stops of a session
  MaxOut,          \* GDB does not go on while so many records wait to be read
  SelectOnRunning, SelectOnStopped, SelectOnExited,    \* thread_select_on_*
  SelectFollow,    \* thread_select_follow
  AutoRunExit,     \* program_auto_run_exit, with breakpoints to stop at
  NULL

ASSUME ScopeAssumption ==
  /\ Threads \in Nat \ {0} /\ Depth \in Nat \ {0} /\ MaxStops \in Nat /\ MaxOut \in Nat \ {0}
  /\ {SelectOnRunning, SelectOnStopped, SelectOnExited, SelectFollow, AutoRunExit} \subseteq BOOLEAN
  /\ NULL \notin (1..Threads) \cup (0..Depth)

VARIABLES
  scope,    \* the plugin, a record (see ScopeInit)
  target,   \* GDB's threads: running or stopped, number and depth of the stop
  gdbUp,    \* the process runs
  input,    \* commands GDB has not executed
  out,      \* records and prompts the plugin has not read
  stops,    \* number of stops in this session
  created,  \* number of threads created in this session
  async,    \* pref_gdb_async_mode and program_non_stop_mode
  all       \* option_update_all_views

gdbVars == <<target, gdbUp, input, out, stops, created>>
options == <<async, all>>
scopeVars == <<scope, gdbVars, options>>

Thread == 1..Threads
Frame == 0..(Depth - 1)

\* rows of the thread store: the state column, and whether an address is known
Row == [state: {"", "Running", "Stopped"}, addr: BOOLEAN]

NoStack == [of |-> NULL, stop |-> 0, depth |-> 0]
NoLocals == [of |-> NULL, stop |-> 0, frame |-> NULL]
AtStop == {"STOPPED", "QUERY_FRAME", "AT_SOURCE"}     \* thread_state >= THREAD_STOPPED

ScopeInit ==
  /\ scope = [gdb |-> "INACTIVE", commands |-> <<>>, waitResult |-> 0, waitPrompt |-> FALSE,
              autoRun |-> FALSE, autoExit |-> FALSE,
              rows |-> [t \in {} |-> NULL], id |-> NULL, state |-> "BLANK",
              count |-> 0, prompt |-> 0, gdbThread |-> NULL,
              frame |-> NULL, selected |-> NULL, stack |-> NoStack, locals |-> NoLocals,
              dirty |-> {}, view |-> "threads"]
  /\ target = [t \in {} |-> NULL]
  /\ gdbUp = FALSE /\ input = <<>> /\ out = <<>> /\ stops = 0 /\ created = 0
  /\ async \in BOOLEAN /\ all \in BOOLEAN

Known(P) == DOMAIN P.rows
Stopped(P) == {t \in Known(P) : P.rows[t].state = "Stopped"}

-------------------------------------------------------------------------------
(* debug.c *)

DebugState(P) ==
  IF P.gdb = "INACTIVE" THEN "INACTIVE"
  ELSE IF P.gdb = "KILLING" \/ P.waitPrompt \/ P.commands # <<>> THEN "BUSY"
  ELSE IF P.count = 0 THEN "HANGING"
  ELSE IF P.state \in AtStop THEN "DEBUG"
  ELSE IF async \/ P.prompt > 0 THEN "READY" ELSE "BUSY"

\* debug_send_command(); the thread is that of --thread and of the token
Send(P, name, t, f) ==
  IF P.gdb = "ACTIVE"
  THEN [P EXCEPT !.commands = Append(@, [name |-> name, thread |-> t, frame |-> f])] ELSE P

QueryFrame(P) == Send(P, "frame", P.id, NULL)

-------------------------------------------------------------------------------
(* views.c, stack.c, local.c *)

Dirty(P, views) == [P EXCEPT !.dirty = @ \cup views]
Clean(P, view) == [P EXCEPT !.dirty = @ \ {view}]

\* stack_clear(): the selected row goes, which is a change of the selection.
StackClear(P) ==
  LET empty == [P EXCEPT !.stack = NoStack, !.selected = NULL]
  IN  IF P.selected = NULL THEN empty ELSE Dirty([empty EXCEPT !.frame = NULL], {"locals"})

ThreadsUpdate(P, st) ==
  IF "threads" \in P.dirty /\ st \in {"READY", "DEBUG", "HANGING"}
  THEN Clean(Send(P, "info", NULL, NULL), "threads") ELSE P

StackUpdate(P, st) ==
  IF "stack" \notin P.dirty THEN P
  ELSE Clean(IF st = "DEBUG" THEN Send(P, "frames", P.id, NULL) ELSE StackClear(P), "stack")

\* locals_update(): a stack that has to be updated comes first.
LocalsUpdate(P, st) ==
  IF "locals" \notin P.dirty THEN P
  ELSE IF st = "DEBUG" /\ "stack" \in P.dirty THEN StackUpdate(P, "DEBUG")
  ELSE Clean(IF st = "DEBUG" /\ P.frame # NULL
             THEN Send(P, "locals", P.id, P.frame) ELSE [P EXCEPT !.locals = NoLocals],
             "locals")

Shown(P, view) == all \/ P.view = view

\* views_update(): with all views, the locals wait for the stack just asked for.
ViewsUpdate(P, st) ==
  LET asks == P.state = "QUERY_FRAME" /\ ~("threads" \in P.dirty /\ Shown(P, "threads"))
      queried == [IF asks THEN QueryFrame(P) ELSE P EXCEPT
                    !.state = IF @ = "QUERY_FRAME" THEN "STOPPED" ELSE @]
      threads == IF Shown(P, "threads") THEN ThreadsUpdate(queried, st) ELSE queried
      stack == IF Shown(P, "stack") THEN StackUpdate(threads, st) ELSE threads
      skip == all /\ "stack" \in threads.dirty /\ stack.state \in AtStop
  IN  IF Shown(P, "locals") /\ ~skip THEN LocalsUpdate(stack, st) ELSE stack

\* views_context_dirty()
ContextDirty(P, views, st) ==
  IF st # "BUSY" /\ all THEN ViewsUpdate(Dirty(P, views), st) ELSE Dirty(P, views)

\* views_data_dirty(DS_BUSY)
DataDirty(P) == Dirty(P, {"stack", "locals"})

\* on_stack_selection_changed()
SelectFrame(P, f) ==
  LET Q == [P EXCEPT !.selected = f, !.frame = f] IN ContextDirty(Q, {"locals"}, DebugState(Q))

-------------------------------------------------------------------------------
(* thread.c *)

\* on_thread_selection_changed()
SelectionChanged(P, t) ==
  LET at(row) == IF row.state # "Stopped"
                 THEN (IF row.state = "" THEN "BLANK" ELSE "RUNNING")
                 ELSE IF row.addr THEN "AT_SOURCE" ELSE "STOPPED"
      moved == IF t = NULL THEN [P EXCEPT !.id = NULL, !.frame = NULL, !.state = "BLANK"]
               ELSE [P EXCEPT !.id = t, !.frame = 0, !.state = at(P.rows[t])]
      known == IF moved.state # "STOPPED" THEN moved
               ELSE IF DebugState(moved) = "DEBUG" THEN QueryFrame(moved)
               ELSE [moved EXCEPT !.state = "QUERY_FRAME"]
  IN  ContextDirty(known, {"stack", "locals"}, DebugState(known))

\* utils_tree_set_cursor(): selecting the selected row changes nothing.
SetCursor(P, t) == IF P.id = t THEN P ELSE SelectionChanged(P, t)

AutoSelect(P) ==
  IF Stopped(P) = {} THEN P ELSE SetCursor(P, CHOOSE t \in Stopped(P) : \A u \in Stopped(P) : t <= u)

SetGdbThread(P, t, select) ==
  LET Q == [P EXCEPT !.gdbThread = t] IN IF select /\ t \in Known(P) THEN SetCursor(Q, t) ELSE Q

\* thread_iter_running() for the threads in ts
ItersRunning(P, ts) ==
  LET set == ts \cap Known(P) IN
  [P EXCEPT !.rows = [t \in Known(P) |-> IF t \in set THEN [state |-> "Running", addr |-> FALSE]
                                         ELSE P.rows[t]],
            !.prompt = @ - Cardinality(set \cap Stopped(P)),
            !.state = IF P.id \in set THEN "RUNNING" ELSE @]

OnThreadRunning(P, ts) ==
  LET Q == ItersRunning(P, ts)
  IN  IF SelectOnRunning /\ P.state \in AtStop /\ Q.state = "RUNNING" THEN AutoSelect(Q) ELSE Q

\* thread_parse_frame()
ParseFrame(P, t) ==
  [P EXCEPT !.rows[t] = [state |-> "Stopped", addr |-> TRUE],
            !.prompt = @ + (IF t \in Stopped(P) THEN 0 ELSE 1),
            !.state = IF P.id = t THEN "AT_SOURCE" ELSE @]

\* thread_iter_stopped() for the threads in ts
ItersStopped(P, ts) ==
  LET set == ts \cap Known(P)
      marked == [P EXCEPT
        !.rows = [t \in Known(P) |-> IF t \in set THEN [P.rows[t] EXCEPT !.state = "Stopped"]
                                     ELSE P.rows[t]],
        !.prompt = @ + Cardinality(set \ Stopped(P)),
        !.state = IF P.id \in set /\ ~P.rows[P.id].addr THEN "QUERY_FRAME" ELSE @]
      other == IF \E t \in set \ {P.id} : ~P.rows[t].addr THEN {"threads"} ELSE {}
  IN  IF P.id \in set THEN DataDirty(Dirty(marked, other)) ELSE Dirty(marked, other)

OnThreadStopped(P, t, ts) ==
  LET framed == IF t \in Known(P) THEN ParseFrame(P, t) ELSE P
      marked == ItersStopped(framed, ts)
      found == ({t} \cup ts) \cap Known(P)
      first == IF t \in found THEN t ELSE CHOOSE u \in found : TRUE
  IN  IF SelectOnStopped /\ marked.state \notin AtStop /\ found # {}
      THEN SetCursor(marked, first) ELSE marked

OnThreadCreated(P, t) ==
  LET row == [u \in Known(P) \cup {t} |->
                IF u = t THEN [state |-> "", addr |-> FALSE] ELSE P.rows[u]]
      Q == Send([P EXCEPT !.count = @ + 1, !.rows = row], "info", t, NULL)
  IN  IF Q.count = 1 THEN SetGdbThread(Q, t, TRUE) ELSE Q

\* on_debug_auto_exit()
AutoExit(P) ==
  IF P.autoExit THEN [Send(P, "exit", NULL, NULL) EXCEPT !.gdb = "KILLING"] ELSE P

\* Mutated: a stopped thread that exits stays counted.
OnThreadExited_counted(P, t, next) ==
  LET gone == [P EXCEPT !.rows = [u \in Known(P) \ {t} |-> P.rows[u]],
                        !.gdbThread = IF @ = t THEN NULL ELSE @]
      moved == IF P.id = t THEN SelectionChanged(gone, next) ELSE gone
      chosen == IF P.id = t /\ SelectOnExited THEN AutoSelect(moved) ELSE moved
      counted == [chosen EXCEPT !.count = @ - 1]
  IN  IF counted.count = 0 THEN AutoExit(counted) ELSE counted

\* on_thread_exited(); GTK selects the row next when the selected one goes.
OnThreadExited(P, t, next) ==
  LET gone == [P EXCEPT !.rows = [u \in Known(P) \ {t} |-> P.rows[u]],
                        !.prompt = @ - (IF t \in Stopped(P) THEN 1 ELSE 0),
                        !.gdbThread = IF @ = t THEN NULL ELSE @]
      moved == IF P.id = t THEN SelectionChanged(gone, next) ELSE gone
      chosen == IF P.id = t /\ SelectOnExited THEN AutoSelect(moved) ELSE moved
      counted == [chosen EXCEPT !.count = @ - 1]
  IN  IF counted.count = 0 THEN AutoExit(counted) ELSE counted

\* thread_info_parse(), of the threads in states
OnThreadInfo(P, states, current) ==
  LET stopped == {t \in DOMAIN states : ~states[t]} \cap Known(P)
      resumed == {t \in DOMAIN states \cap Known(P) : states[t] /\ P.rows[t].state # "Running"}
      Q == ItersRunning(P, resumed)
      parsed == [Q EXCEPT
        !.rows = [t \in Known(P) |-> IF t \in stopped THEN [state |-> "Stopped", addr |-> TRUE]
                                     ELSE Q.rows[t]],
        !.prompt = @ + Cardinality(stopped \ Stopped(P)),
        !.state = IF P.id \in stopped THEN "AT_SOURCE" ELSE @]
  IN  IF current = NULL THEN parsed ELSE SetGdbThread(parsed, current, SelectFollow)

\* on_thread_frame(), on_stack_frames(), on_local_variables(): the token says
\* what was asked for.
OnThreadFrame(P, t) == IF t \in Known(P) THEN ParseFrame(P, t) ELSE P

\* Mutated: an answer for another thread is shown, too.
OnStackFrames_any(P, shown) ==
  LET empty == [StackClear(P) EXCEPT !.stack = shown]
      same == IF P.frame # NULL /\ P.frame < shown.depth THEN SelectFrame(empty, P.frame) ELSE empty
  IN  IF same.frame = NULL THEN SelectFrame(same, 0) ELSE same

OnStackFrames(P, shown) ==
  LET empty == [StackClear(P) EXCEPT !.stack = shown]
      same == IF P.frame # NULL /\ P.frame < shown.depth THEN SelectFrame(empty, P.frame) ELSE empty
  IN  IF shown.of # P.id THEN P
      ELSE IF same.frame = NULL THEN SelectFrame(same, 0) ELSE same

OnLocalVariables(P, shown) ==
  IF shown.of = P.id /\ shown.frame = P.frame THEN [P EXCEPT !.locals = shown] ELSE P

-------------------------------------------------------------------------------
(* GDB's records, read one at a time: parse_message() and its routes.        *)

Record(kind, t, data) == [kind |-> kind, thread |-> t, data |-> data]
Prompt == Record("prompt", NULL, NULL)
Results == {"done", "error", "quiet", "loaded", "loadError", "started", "threads", "frame",
            "stack", "locals", "exit"}

\* on_debug_loaded(), on_debug_auto_run(), on_debug_exit() and the others
Handled(P, r, next) ==
  CASE r.kind = "running"   -> OnThreadRunning(P, r.data)
    [] r.kind = "stopped"   -> OnThreadStopped(P, r.thread, r.data)
    [] r.kind = "created"   -> OnThreadCreated(P, r.thread)
    [] r.kind = "exited"    -> OnThreadExited(P, r.thread, next)
    [] r.kind = "loaded"    -> Send(P, "start", NULL, NULL)
    [] r.kind = "started"   -> IF P.autoRun /\ P.count = 0 THEN Send(P, "run", NULL, NULL) ELSE P
    [] r.kind = "threads"   -> OnThreadInfo(P, r.data, r.thread)
    [] r.kind = "frame"     -> OnThreadFrame(P, r.thread)
    [] r.kind = "stack"     -> OnStackFrames(P, r.data)
    [] r.kind = "locals"    -> OnLocalVariables(P, r.data)
    [] r.kind = "error"     -> [P EXCEPT !.autoRun = FALSE]
    [] r.kind = "exit"      -> [P EXCEPT !.gdb = "KILLING"]
    [] OTHER                -> P

\* Mutated: a prompt ends the wait although answers are to come.
DebugParse_prompt(P, r, next) ==
  IF r.kind = "prompt" THEN [P EXCEPT !.waitPrompt = FALSE]
  ELSE Handled(IF r.kind \in Results /\ P.waitResult > 0 THEN [P EXCEPT !.waitResult = @ - 1] ELSE P,
               r, next)

\* debug_parse(): the prompt that is waited for is the one after the last answer.
DebugParse(P, r, next) ==
  IF r.kind = "prompt" THEN [P EXCEPT !.waitPrompt = P.waitResult > 0]
  ELSE Handled(IF r.kind \in Results /\ P.waitResult > 0 THEN [P EXCEPT !.waitResult = @ - 1] ELSE P,
               r, next)

\* receive_output_cb()
Receive ==
  /\ out # <<>>
  /\ out' = Tail(out)
  /\ \E next \in {NULL} \cup Known(scope) :
       /\ LET r == Head(out) IN
            IF r.kind = "exited" /\ scope.id = r.thread THEN next # r.thread ELSE next = NULL
       /\ LET parsed == DebugParse(scope, Head(out), next)
          IN  scope' = IF parsed.commands = <<>> THEN ViewsUpdate(parsed, DebugState(parsed))
                       ELSE parsed
  /\ UNCHANGED <<target, gdbUp, input, stops, created, options>>

\* send_commands_cb()
SendCommands ==
  /\ gdbUp /\ scope.commands # <<>>
  /\ input' = input \o scope.commands
  /\ scope' = [scope EXCEPT !.commands = <<>>, !.waitPrompt = TRUE,
                            !.waitResult = @ + Len(scope.commands)]
  /\ UNCHANGED <<target, gdbUp, out, stops, created, options>>

\* gdb_exit_cb(), once all output is read: views_clear() clears every view.
GdbExitCb ==
  /\ scope.gdb # "INACTIVE" /\ ~gdbUp /\ out = <<>>
  /\ scope' = [scope EXCEPT !.gdb = "INACTIVE",
        !.rows = [t \in {} |-> NULL], !.id = NULL, !.state = "BLANK", !.count = 0,
        !.prompt = @ - Cardinality(Stopped(scope)), !.gdbThread = NULL,
        !.frame = NULL, !.selected = NULL, !.stack = NoStack, !.locals = NoLocals, !.dirty = {}]
  /\ UNCHANGED <<gdbVars, options>>

-------------------------------------------------------------------------------
(* The user: the menus are enabled by debug_state().                         *)

User(P) == scope' = P /\ UNCHANGED <<gdbVars, options>>

\* Mutated: what the last session left unanswered stays counted.
LoadProgram_keepsWait ==
  /\ scope.gdb = "INACTIVE"
  /\ scope' = [scope EXCEPT !.gdb = "ACTIVE", !.waitPrompt = TRUE,
                 !.commands = <<[name |-> "load", thread |-> NULL, frame |-> NULL]>>,
                 !.autoRun = AutoRunExit, !.autoExit = AutoRunExit]
  /\ gdbUp' = TRUE /\ input' = <<>> /\ out' = <<Prompt>> /\ stops' = 0 /\ created' = 0
  /\ target' = [t \in {} |-> NULL]
  /\ UNCHANGED options

\* on_debug_run_continue() without GDB: load_program()
LoadProgram ==
  /\ scope.gdb = "INACTIVE"
  /\ scope' = [scope EXCEPT !.gdb = "ACTIVE", !.waitResult = 0, !.waitPrompt = TRUE,
                 !.commands = <<[name |-> "load", thread |-> NULL, frame |-> NULL]>>,
                 !.autoRun = AutoRunExit, !.autoExit = AutoRunExit]
  /\ gdbUp' = TRUE /\ input' = <<>> /\ out' = <<Prompt>> /\ stops' = 0 /\ created' = 0
  /\ target' = [t \in {} |-> NULL]
  /\ UNCHANGED options

\* on_debug_run_continue() with GDB, on_debug_step_into() and its like
RunContinue ==
  /\ stops < MaxStops
  /\ \/ /\ DebugState(scope) = "DEBUG" /\ scope.count > 0
        /\ User(Send(scope, "continue", scope.id, NULL))
     \/ /\ DebugState(scope) = "HANGING" /\ created < Threads
        /\ User(Send(scope, "run", NULL, NULL))

\* on_debug_terminate() from the menu
Terminate ==
  \/ /\ DebugState(scope) = "BUSY"
     /\ scope' = [scope EXCEPT !.gdb = "KILLING"]
     /\ gdbUp' = FALSE /\ input' = <<>>
     /\ UNCHANGED <<target, out, stops, created, options>>
  \/ /\ DebugState(scope) \in {"READY", "DEBUG"} /\ ~scope.autoExit
     /\ User(Send(scope, "kill", NULL, NULL))
  \/ /\ DebugState(scope) = "HANGING" \/ (DebugState(scope) \in {"READY", "DEBUG"} /\ scope.autoExit)
     /\ User([Send(scope, "exit", NULL, NULL) EXCEPT !.gdb = "KILLING"])

\* One page is on the screen at a time, and rows are clicked on their page.
ClickThread(t) ==
  /\ scope.view = "threads" /\ t \in Known(scope) /\ t # scope.id
  /\ User(SelectionChanged(scope, t))

ClickFrame(f) ==
  /\ scope.view = "stack" /\ scope.stack.of # NULL /\ f < scope.stack.depth /\ f # scope.selected
  /\ User(SelectFrame(scope, f))

\* on_view_changed()
ViewChanged(v) ==
  /\ v # scope.view
  /\ LET P == [scope EXCEPT !.view = v]
         st == DebugState(P)
     IN  User(CASE v = "threads" -> ThreadsUpdate(P, st)
                [] v = "stack"   -> StackUpdate(P, st)
                [] v = "locals"  -> LocalsUpdate(P, st))

\* on_thread_refresh(), on_stack_refresh(), on_local_refresh()
Refresh ==
  \/ /\ DebugState(scope) \in {"READY", "DEBUG", "HANGING"} /\ scope.view = "threads"
     /\ User(Send(scope, "info", NULL, NULL))
  \/ /\ DebugState(scope) = "DEBUG" /\ scope.view = "stack"
     /\ User(Send(scope, "frames", scope.id, NULL))
  \/ /\ DebugState(scope) = "DEBUG" /\ scope.view = "locals" /\ scope.frame # NULL
     /\ User(Send(scope, "locals", scope.id, scope.frame))

-------------------------------------------------------------------------------
(* GDB (external)                                                            *)

Live == DOMAIN target
IsStopped(t) == t \in Live /\ ~target[t].running
InForeground == ~async /\ \E t \in Live : target[t].running

\* The thread that stopped last is the one GDB has selected.
CurrentThread ==
  IF Live = {} THEN NULL ELSE CHOOSE t \in Live : \A u \in Live : target[u].stop <= target[t].stop

\* =thread-exited of the threads in ts, in one order or another
Exits(ts) == {[i \in 1..Cardinality(ts) |-> Record("exited", order[i], NULL)] : order \in SetToSeqs(ts)}

\* A thread is created, and runs.
WithThread(t) == [u \in Live \cup {t} |-> IF u = t THEN [running |-> TRUE, stop |-> 0, depth |-> 0]
                                                  ELSE target[u]]
Runs(ts) == [t \in Live |-> IF t \in ts THEN [target[t] EXCEPT !.running = TRUE] ELSE target[t]]
Resumed(t) == IF async THEN {t} ELSE Live
States(ts) == [t \in ts |-> target[t].running]

\* what a command makes of the threads, and its records
Answer(c, threads, records) ==
  target' = threads /\ out' = out \o records \o (IF c.name = "exit" THEN <<>> ELSE <<Prompt>>)

GdbExecutes ==
  /\ gdbUp /\ input # <<>> /\ ~InForeground /\ Len(out) < MaxOut
  /\ input' = Tail(input)
  /\ LET c == Head(input)
         t == c.thread
         done(kind, thread, data) == Answer(c, target, <<Record(kind, thread, data)>>)
     IN  /\ gdbUp' = (c.name # "exit")
         /\ created' = IF c.name = "run" /\ created < Threads THEN created + 1 ELSE created
         /\ CASE c.name = "load" -> done("loaded", NULL, NULL) \/ done("loadError", NULL, NULL)
              [] c.name = "start" -> done("started", NULL, NULL)
              [] c.name = "run" ->
                   IF created < Threads
                   THEN Answer(c, WithThread(created + 1),
                               <<Record("created", created + 1, NULL), Record("done", NULL, NULL),
                                 Record("running", NULL, Live \cup {created + 1})>>)
                   ELSE done("error", NULL, NULL)
              [] c.name = "continue" ->
                   IF IsStopped(t)
                   THEN Answer(c, Runs(Resumed(t)),
                               <<Record("done", NULL, NULL), Record("running", NULL, Resumed(t))>>)
                   ELSE done("error", NULL, NULL)
              [] c.name = "kill" ->
                   \E exits \in Exits(Live) :
                     Answer(c, [u \in {} |-> NULL], exits \o <<Record("done", NULL, NULL)>>)
              [] c.name = "info" ->
                   IF t = NULL THEN done("threads", CurrentThread, States(Live))
                   ELSE IF t \in Live THEN done("threads", NULL, States({t}))
                   ELSE done("quiet", NULL, NULL)
              [] c.name = "frame" ->
                   IF IsStopped(t) THEN done("frame", t, NULL) ELSE done("quiet", NULL, NULL)
              [] c.name = "frames" ->
                   IF IsStopped(t)
                   THEN done("stack", NULL, [of |-> t, stop |-> target[t].stop, depth |-> target[t].depth])
                   ELSE done("quiet", NULL, NULL)
              [] c.name = "locals" ->
                   IF IsStopped(t) /\ c.frame < target[t].depth
                   THEN done("locals", NULL, [of |-> t, stop |-> target[t].stop, frame |-> c.frame])
                   ELSE done("quiet", NULL, NULL)
              [] OTHER -> done("exit", NULL, NULL)     \* "exit"
  /\ UNCHANGED <<scope, stops, options>>

\* A breakpoint, a step or a signal: one thread stops, or all in the foreground.
TargetStops ==
  /\ gdbUp /\ stops < MaxStops /\ Len(out) < MaxOut
  /\ \E t \in Live, d \in 1..Depth :
       /\ target[t].running
       /\ LET ts == IF async THEN {t} ELSE Live IN
          /\ target' = [u \in Live |->
                          IF u = t THEN [running |-> FALSE, stop |-> stops + 1, depth |-> d]
                          ELSE IF u \in ts THEN [running |-> FALSE, stop |-> stops + 1, depth |-> 1]
                          ELSE target[u]]
          /\ out' = out \o <<Record("stopped", t, ts)>> \o (IF async THEN <<>> ELSE <<Prompt>>)
  /\ stops' = stops + 1
  /\ UNCHANGED <<scope, gdbUp, input, created, options>>

TargetCreates ==
  /\ gdbUp /\ created < Threads /\ Len(out) < MaxOut
  /\ \E t \in Live : target[t].running
  /\ created' = created + 1
  /\ target' = WithThread(created + 1)
  /\ out' = out \o <<Record("created", created + 1, NULL),
                     Record("running", NULL, IF async THEN {created + 1} ELSE Live \cup {created + 1})>>
  /\ UNCHANGED <<scope, gdbUp, input, stops, options>>

\* One thread returns, or the program ends with all of them.
TargetExits ==
  /\ gdbUp /\ Len(out) < MaxOut
  /\ \E ts \in {{t} : t \in Live} \cup {Live} :
       /\ \E t \in ts : target[t].running
       /\ target' = [t \in Live \ ts |-> target[t]]
       /\ \E exits \in Exits(ts) :
            out' = out \o exits \o (IF ~async /\ ts = Live THEN <<Prompt>> ELSE <<>>)
  /\ UNCHANGED <<scope, gdbUp, input, stops, created, options>>

GdbDies ==
  /\ gdbUp
  /\ gdbUp' = FALSE /\ input' = <<>>
  /\ UNCHANGED <<scope, target, out, stops, created, options>>

Gdb == GdbExecutes \/ TargetStops \/ TargetCreates \/ TargetExits \/ GdbDies

ScopeNext ==
  \/ Receive \/ SendCommands \/ GdbExitCb
  \/ LoadProgram \/ RunContinue \/ Terminate \/ Refresh
  \/ \E t \in Thread : ClickThread(t)
  \/ \E f \in Frame : ClickFrame(f)
  \/ \E v \in {"threads", "stack", "locals"} : ViewChanged(v)
  \/ Gdb

ScopeSpec == ScopeInit /\ [][ScopeNext]_scopeVars

(* The main loop serves the pipes and the exit of GDB; GDB reads what it is  *)
(* sent, and a program in the foreground stops or ends at some time.         *)
ScopeFairness ==
  /\ WF_scopeVars(Receive) /\ WF_scopeVars(SendCommands) /\ WF_scopeVars(GdbExitCb)
  /\ WF_scopeVars(GdbExecutes) /\ WF_scopeVars(~async /\ (TargetStops \/ TargetExits))

-------------------------------------------------------------------------------
(* Properties *)

Quiet == scope.gdb = "ACTIVE" /\ gdbUp /\ out = <<>>

ScopeTypeOK ==
  /\ scope.gdb \in {"INACTIVE", "ACTIVE", "KILLING"}
  /\ scope.waitResult \in Nat /\ scope.waitPrompt \in BOOLEAN
  /\ Known(scope) \subseteq Thread /\ \A t \in Known(scope) : scope.rows[t] \in Row
  /\ scope.id \in Known(scope) \cup {NULL}
  /\ scope.state \in AtStop \cup {"BLANK", "RUNNING"}
  /\ scope.frame \in Frame \cup {NULL}

(* thread_prompt, which tells whether GDB takes commands in the foreground,  *)
(* is the number of stopped threads, and thread_state the state of the row   *)
(* selected, whatever the order in which records and selections come.        *)
StateOfSelected ==
  /\ ScopeTypeOK
  /\ scope.prompt = Cardinality(Stopped(scope))
  /\ scope.count = Cardinality(Known(scope))
  /\ scope.state = "BLANK" <=> scope.id = NULL \/ scope.rows[scope.id].state = ""
  /\ scope.state \in AtStop <=> scope.id # NULL /\ scope.rows[scope.id].state = "Stopped"

(* docs/scope.html: in the state Debug, "A stopped thread is selected, and   *)
(* gdb is ready to accept commands"; Busy is left only when every command    *)
(* was answered, and then the threads listed are those of the program.       *)
NotBusyInStep ==
  (Quiet /\ DebugState(scope) # "BUSY") =>
    /\ input = <<>> /\ ~InForeground
    /\ Known(scope) = Live
    /\ \A t \in Live : scope.rows[t].state = (IF target[t].running THEN "Running" ELSE "Stopped")
    /\ DebugState(scope) = "DEBUG" <=> scope.id # NULL /\ IsStopped(scope.id)

(* docs/scope.html: only while Busy "any debugging information may be        *)
(* outdated".  In the state Debug the views on the screen show the thread    *)
(* selected at its last stop, and the locals of the frame selected, or       *)
(* nothing: a stop that is read while a command is unanswered clears them.   *)
ShownNotOutdated ==
  (Quiet /\ DebugState(scope) = "DEBUG") =>
    LET now == target[scope.id] IN
    /\ Shown(scope, "stack") =>
         scope.stack \in {NoStack, [of |-> scope.id, stop |-> now.stop, depth |-> now.depth]}
    /\ Shown(scope, "locals") =>
         scope.locals \in {NoLocals, [of |-> scope.id, stop |-> now.stop, frame |-> scope.frame]}

(* The wait for the prompt ends: no answer is counted that does not come.    *)
PromptReturns == scope.gdb = "ACTIVE" /\ scope.waitPrompt ~> ~scope.waitPrompt \/ scope.gdb # "ACTIVE"
===============================================================================
