------------------------------ MODULE ScopeBreaks ------------------------------
(* Scope's list of breakpoints and watchpoints (scope/src/break.c) over a     *)
(* session with GDB: rows are inserted in GDB when a program is loaded or run *)
(* or on request, and follow what GDB answers, what it notifies and where its *)
(* breakpoints are hit.  Each row has a marker in the margin.                 *)
(*                                                                            *)
(* The session is that of ScopeThreads, reduced to what the list depends on.  *)
(* GDB is external: it notifies of changes that were not asked for by a       *)
(* -break command (7.4 and later), or not; it runs the target in the          *)
(* foreground and executes nothing meanwhile, or, if it notifies, takes       *)
(* commands all the time (async).  The page of breakpoints is on the screen.  *)
(* Hit counts, scripts, locations of one breakpoint, conditions and running   *)
(* by itself after loading are left out.                                      *)
EXTENDS Integers, Sequences, FiniteSets

CONSTANTS
  Lines,          \* the file has lines 1..Lines, at least one
  Placed,         \* the line at which GDB places a breakpoint asked for at a line
  MaxRows,        \* bound: rows in the list
  MaxBreaks,      \* bound: numbers GDB gives in a session
  EditsInFlight,  \* may the user edit a row that is just being inserted in GDB?
  SplitsLines     \* may the user press Enter within a line with a breakpoint?

ASSUME BreaksAssumption ==
  /\ Lines \in Nat \ {0} /\ {MaxRows, MaxBreaks} \subseteq Nat
  /\ Placed \in [1..Lines -> 1..Lines]
  /\ {EditsInFlight, SplitsLines} \subseteq BOOLEAN

VARIABLES
  session,     \* gdb_state
  rows,        \* the list, by BREAK_SCID
  marked,      \* the markers of each line: how many of MARKER_BREAKPT + enabled
  prog,        \* the program as scope knows it: none, running, stopped
  breakAsync,  \* break_async: unasked (-1), no, yes
  dirty,       \* the view has to be updated
  commands,    \* commands not yet executed by GDB
  records,     \* what GDB wrote and scope has not read
  bps,         \* GDB's breakpoints, by number
  given,       \* the last number given
  target,      \* the program
  async, notifies   \* which GDB it is

breaksVars == <<session, rows, marked, prog, breakAsync, dirty, commands, records,
                bps, given, target, async, notifies>>
gdbVars == <<bps, given, target>>
options == <<async, notifies>>

Line == 1..Lines
Scid == Nat \ {0}     \* used again: a row is never removed while an answer names it

\* BREAK_DISCARD of the rows that go when their breakpoint does
Transient == {"discard", "runto"}
Stages == {"persist", "onload"} \cup Transient

\* the tokens of an insertion other than a row's
ByUser == 0
OnLoad == -1
RunTo == -2

\* a function of one value, and one that is given another value
Only(x, y) == [z \in {x} |-> y]
With(f, x, y) == [z \in DOMAIN f \cup {x} |-> IF z = x THEN y ELSE f[z]]

NoBreaks == [n \in {} |-> 0]

BreaksInit ==
  /\ session = "INACTIVE" /\ rows = NoBreaks
  /\ marked = [l \in Line |-> [on \in BOOLEAN |-> 0]]
  /\ prog = "none" /\ breakAsync = "unasked" /\ dirty = FALSE
  /\ commands = <<>> /\ records = <<>>
  /\ bps = NoBreaks /\ given = 0 /\ target = "none"
  /\ notifies \in BOOLEAN /\ async \in {FALSE, notifies}

--------------------------------------------------------------------------------
(* The session (debug.c)                                                      *)

Command(cmd, token, num, arg) == [cmd |-> cmd, token |-> token, num |-> num, arg |-> arg]
Plain(cmd) == <<Command(cmd, 0, 0, 0)>>
At(l, on, temp, watch) == [at |-> l, on |-> on, temp |-> temp, watch |-> watch]
Breakpoint(l, temp) == At(l, TRUE, temp, FALSE)
Record(kind, token, breaks) == [kind |-> kind, token |-> token, breaks |-> breaks]

Results == {"loaded", "error", "features", "inserted", "enabled", "disabled", "removed",
            "edited", "info", "list", "running", "done"}

Unanswered(cs, rs) == cs # <<>> \/ \E i \in 1..Len(rs) : rs[i].kind \in Results

StateGiven(cs, rs, p) ==
  IF session = "INACTIVE" THEN "INACTIVE"
  ELSE IF session = "KILLING" \/ Unanswered(cs, rs) THEN "BUSY"
  ELSE CASE p = "none"    -> "HANGING"
         [] p = "stopped" -> "DEBUG"
         [] p = "running" -> IF async THEN "READY" ELSE "BUSY"

DebugState == StateGiven(commands, records, prog)
Sendable == DebugState \in {"READY", "DEBUG", "HANGING"}

--------------------------------------------------------------------------------
(* The list: operators on P, the rows, the markers and the commands to send.  *)

Known(P) == DOMAIN P.rows
Named(P, num) == {s \in Known(P) : P.rows[s].id = num}

Send(P, cs) == [P EXCEPT !.send = @ \o cs]

\* utils_mark(); Scintilla keeps one copy for each time a marker was added
Mark(P, line, on, n) ==
  IF line = 0 THEN P
  ELSE [P EXCEPT !.marked[line][on] = IF @ + n < 0 THEN 0 ELSE @ + n]

BreakMark(P, s, n) == Mark(P, P.rows[s].line, P.rows[s].on, n)

\* Mutant: the marker stays that of the former state.
BreakEnable_unmarked(P, s, on) == [P EXCEPT !.rows[s].on = on]

BreakEnable(P, s, on) == BreakMark([BreakMark(P, s, -1) EXCEPT !.rows[s].on = on], s, 1)

\* break_remove() of the rows ss: the markers go with them
BreakRemove(P, ss) ==
  LET marks(l, on) == Cardinality({s \in ss : P.rows[s].line = l /\ P.rows[s].on = on})
  IN  [P EXCEPT !.rows = [t \in Known(P) \ ss |-> P.rows[t]],
                !.marked = [l \in Line |-> [on \in BOOLEAN |->
                  IF @[l][on] < marks(l, on) THEN 0 ELSE @[l][on] - marks(l, on)]]]

\* break_clear(): a watchpoint is not temporary once it is out of scope.
BreakClear(P, ss) ==
  [P EXCEPT !.rows = [s \in Known(P) |->
     IF s \in ss THEN [P.rows[s] EXCEPT !.id = 0, !.temp = @ /\ ~P.rows[s].watch] ELSE P.rows[s]]]

\* break_remove_all() and breaks_missing(): what GDB has no more
Gone(P, ss, force) ==
  LET going == {s \in ss : force \/ P.rows[s].stage \in Transient}
  IN  BreakRemove(BreakClear(P, ss \ going), going)

\* breaks_clear(): what was not made by MI commands goes with the session.
BreaksClear(P) ==
  LET kept == {s \in Known(P) : P.rows[s].stage = "persist"}
  IN  BreakRemove(BreakClear(P, kept), Known(P) \ kept)

\* break_apply(): the command that inserts a row; a watchpoint's state is not
\* part of it.
BreakApply(s) ==
  LET row == rows[s] IN
  Command("insert", s, 0, At(row.at, row.on \/ row.watch, row.temp /\ ~row.watch, row.watch))

InOrder(ss) ==
  [i \in 1..Cardinality(ss) |-> CHOOSE s \in ss : Cardinality({t \in ss : t < s}) = i - 1]

\* breaks_apply(): watchpoints have BREAK_RUN_APPLY unset
BreaksApply ==
  LET unapplied == InOrder({s \in DOMAIN rows : rows[s].id = 0 /\ ~rows[s].watch})
  IN  [i \in DOMAIN unapplied |-> BreakApply(unapplied[i])]

\* Mutant: a watchpoint that is off is inserted, and stays on.
BreakIterApplied_enabled(P, s) == P

\* break_iter_applied()
BreakIterApplied(P, s) ==
  IF P.rows[s].watch /\ ~P.rows[s].on THEN Send(P, <<Command("disable", 0, P.rows[s].id, 0)>>) ELSE P

NewScid(P) == CHOOSE s \in 1..(Cardinality(Known(P)) + 1) : s \notin Known(P)

\* break_node_parse() of a breakpoint the list may have already; a new row
\* keeps the place that was asked for.
BreakNodeParse(P, stage, num, bp) ==
  LET known == Named(P, num) # {}
      s == IF known THEN CHOOSE t \in Named(P, num) : TRUE ELSE NewScid(P)
      at == IF known THEN P.rows[s].at ELSE bp.at
      kept == IF known THEN P.rows[s].stage ELSE stage
      watch == IF known THEN P.rows[s].watch ELSE bp.watch
      unmarked == IF known THEN BreakMark(P, s, -1) ELSE P
      row == [id |-> num, at |-> at, line |-> bp.line, on |-> bp.on, temp |-> bp.temp,
              watch |-> watch, stage |-> kept]
  IN  Mark([unmarked EXCEPT !.rows = With(@, s, row)], bp.line, bp.on, 1)

\* break_node_parse() of a row that was inserted (BG_APPLIED): it keeps its
\* state, and its marker stays where it was.
BreakNodeApplied(P, s, num, bp) ==
  BreakIterApplied([P EXCEPT !.rows[s].id = num, !.rows[s].line = bp.line, !.rows[s].temp = bp.temp], s)

\* on_break_inserted()
OnBreakInserted(P, token, num, bp) ==
  CASE token = ByUser -> BreakNodeParse(P, "persist", num, bp)
    [] token = OnLoad -> BreakNodeParse(P, "onload", num, bp)
    [] token = RunTo  -> Send(BreakNodeParse(P, "runto", num, bp), Plain("continue"))
    [] OTHER          -> BreakNodeApplied(P, token, num, bp)

\* break_node_parse() of each breakpoint of a list up to a number, in GDB's order
Parsed(P, breaks) ==
  LET upTo[n \in 0..MaxBreaks] ==
        IF n = 0 THEN P
        ELSE IF n \in DOMAIN breaks THEN BreakNodeParse(upTo[n - 1], "discard", n, breaks[n])
        ELSE upTo[n - 1]
  IN  upTo

\* on_break_list(), of which a refresh names every breakpoint
OnBreakList(P, breaks, refresh) ==
  LET parsed == Parsed(P, breaks)[MaxBreaks]
      missing == {s \in Known(parsed) : parsed.rows[s].id \notin DOMAIN breaks \cup {0}}
  IN  IF refresh THEN Gone(parsed, missing, FALSE) ELSE parsed

\* One record: parse_message(), on_break_done(), on_break_created(),
\* on_break_deleted(), on_break_stopped() and on_debug_loaded()
Handled(P, r) ==
  LET num == IF DOMAIN r.breaks = {} THEN 0 ELSE CHOOSE n \in DOMAIN r.breaks : TRUE IN
  CASE r.kind = "loaded"   -> Send(P, BreaksApply \o
                                IF r.token = OnLoad THEN <<Command("insert", OnLoad, 0, Breakpoint(1, TRUE))>>
                                ELSE <<>>)
    [] r.kind = "inserted" -> OnBreakInserted(P, r.token, num, r.breaks[num])
    [] r.kind = "enabled"  -> BreakEnable(P, r.token, TRUE)
    [] r.kind = "disabled" -> BreakEnable(P, r.token, FALSE)
    [] r.kind = "removed"  -> Gone(P, Named(P, r.token), TRUE)
    [] r.kind = "edited"   -> Send(P, <<Command("info", 0, r.token, 0)>>)
    [] r.kind = "info"     -> OnBreakList(P, r.breaks, FALSE)
    [] r.kind = "list"     -> OnBreakList(P, r.breaks, TRUE)
    [] r.kind = "created"  -> OnBreakList(P, r.breaks, FALSE)
    [] r.kind = "deleted"  -> Gone(P, Named(P, r.token), FALSE)
    [] r.kind = "hit"      -> IF breakAsync # "yes" /\ r.token # 0
                              THEN Gone(P, Named(P, r.token), FALSE) ELSE P
    [] OTHER               -> P

ProgAfter(r) ==
  CASE r.kind = "running" -> "running"
    [] r.kind = "hit"     -> "stopped"
    [] r.kind = "exited"  -> "none"
    [] OTHER              -> prog

\* receive_output_cb(): without notifications each stop is a reason to ask for
\* the list, as soon as GDB is ready.
Receive ==
  /\ records # <<>> /\ session # "INACTIVE"
  /\ records' = Tail(records)
  /\ LET r == Head(records)
         P == Handled([rows |-> rows, marked |-> marked, send |-> <<>>], r)
         sent == IF session = "ACTIVE" THEN commands \o P.send ELSE commands
         stale == dirty \/ (r.kind = "hit" /\ breakAsync # "yes")
         update == stale /\ StateGiven(sent, records', ProgAfter(r)) \in {"READY", "DEBUG", "HANGING"}
     IN  /\ rows' = P.rows /\ marked' = P.marked
         /\ prog' = ProgAfter(r)
         /\ breakAsync' = IF r.kind \in {"features", "created", "deleted"} /\ notifies THEN "yes"
                          ELSE breakAsync
         /\ commands' = IF update THEN sent \o Plain("list") ELSE sent
         /\ dirty' = (stale /\ ~update)
  /\ UNCHANGED <<session, gdbVars, options>>

--------------------------------------------------------------------------------
(* The user                                                                   *)

Asks(cs) == commands' = commands \o cs /\ UNCHANGED <<rows, marked>>
Does(P) == rows' = P.rows /\ marked' = P.marked /\ UNCHANGED commands
List == [rows |-> rows, marked |-> marked, send |-> <<>>]

Rest == UNCHANGED <<session, prog, breakAsync, dirty, records, gdbVars, options>>

\* Whether an insertion of this row is not yet answered
InFlight(s) ==
  \/ \E i \in 1..Len(commands) : commands[i].cmd = "insert" /\ commands[i].token = s
  \/ \E i \in 1..Len(records) : records[i].kind = "inserted" /\ records[i].token = s
Editable(s) == EditsInFlight \/ ~InFlight(s)

Room == Cardinality(DOMAIN rows) < MaxRows

\* load_program(); the temporary breakpoint on load is an option.
LoadProgram ==
  /\ session = "INACTIVE"
  /\ session' = "ACTIVE" /\ prog' = "none"
  /\ \E onload \in BOOLEAN :
       /\ onload => Room
       /\ commands' = <<Command("load", IF onload THEN OnLoad ELSE 0, 0, 0)>> \o
                      IF breakAsync = "unasked" THEN Plain("features") ELSE <<>>
  /\ breakAsync' = IF breakAsync = "unasked" THEN "no" ELSE breakAsync
  /\ records' = <<>> /\ bps' = NoBreaks /\ given' = 0 /\ target' = "none"
  /\ UNCHANGED <<rows, marked, dirty, options>>

\* on_debug_run_continue()
RunContinue ==
  /\ \/ DebugState = "HANGING" /\ Asks(BreaksApply \o Plain("run"))
     \/ DebugState = "DEBUG" /\ Asks(Plain("continue"))
  /\ Rest

\* on_debug_goto_cursor()
RunToCursor(l) ==
  /\ DebugState = "DEBUG" /\ Room
  /\ Asks(<<Command("insert", RunTo, 0, Breakpoint(l, TRUE))>>)
  /\ Rest

\* break_delete()
BreakDelete(s) ==
  IF session = "INACTIVE" \/ rows[s].id = 0 THEN Does(BreakRemove(List, {s}))
  ELSE Asks(<<Command("delete", 0, rows[s].id, 0)>>)

OnBreakDelete(s) == (session = "INACTIVE" \/ Sendable) /\ BreakDelete(s) /\ Rest

\* on_break_toggle(): two rows of a line have to be told apart in the list.
OnBreakToggle(l) ==
  LET here == {s \in DOMAIN rows : rows[s].line = l} IN
  /\ session = "INACTIVE" \/ Sendable
  /\ \/ Cardinality(here) = 1 /\ \E s \in here : BreakDelete(s)
     \/ /\ here = {} /\ Room
        /\ IF session # "INACTIVE"
           THEN Asks(<<Command("insert", ByUser, 0, Breakpoint(l, FALSE))>>)
           ELSE Does(Mark([List EXCEPT !.rows = With(@, NewScid(List),
                  [id |-> 0, at |-> l, line |-> l, on |-> TRUE, temp |-> FALSE, watch |-> FALSE,
                   stage |-> "persist"])], l, TRUE, 1))
  /\ Rest

\* on_break_insert(), on_break_watch(): commands of the user's
OnBreakInsert(l, temp) ==
  Sendable /\ Room /\ Asks(<<Command("insert", ByUser, 0, Breakpoint(l, temp))>>) /\ Rest
OnBreakWatch ==
  Sendable /\ Room /\ Asks(<<Command("insert", ByUser, 0, At(0, TRUE, FALSE, TRUE))>>) /\ Rest

\* on_break_apply()
OnBreakApply(s) == Sendable /\ rows[s].id = 0 /\ Asks(<<BreakApply(s)>>) /\ Rest

\* on_break_enabled_toggled()
OnBreakEnabledToggled(s) ==
  /\ \/ /\ rows[s].id = 0 /\ Editable(s)
        /\ Does(BreakEnable(List, s, ~rows[s].on))
     \/ /\ rows[s].id # 0 /\ Sendable
        /\ Asks(<<Command(IF rows[s].on THEN "disable" ELSE "enable", s, rows[s].id, 0)>>)
  /\ Rest

\* on_break_column_edited(): what is edited is not modelled, but that the row
\* is asked for again.
OnBreakColumnEdited(s) ==
  rows[s].id # 0 /\ Sendable /\ Asks(<<Command("edit", 0, rows[s].id, 0)>>) /\ Rest

\* on_break_refresh()
OnBreakRefresh == Sendable /\ Asks(Plain("list")) /\ Rest

\* Commands of the GDB command line, where GDB notifies of what they do
CliCommand ==
  /\ Sendable /\ notifies
  /\ \/ Room /\ \E l \in Line, temp \in BOOLEAN :
          Asks(<<Command("break", 0, 0, Breakpoint(l, temp))>>)
     \/ \E n \in DOMAIN bps, what \in {"cli delete", "cli toggle"} : Asks(<<Command(what, 0, n, 0)>>)
  /\ Rest

\* on_debug_terminate()
Terminate ==
  /\ session = "ACTIVE" /\ session' = "KILLING" /\ commands' = <<>>
  /\ UNCHANGED <<rows, marked, prog, breakAsync, dirty, records, gdbVars, options>>

Moved(row, line) == [row EXCEPT !.line = line, !.at = line]

\* breaks_delta(): rows follow the text, which is locked in a session, and so
\* do the markers by themselves: those of a line stay with it, unless the
\* new line begins before it, and those of a line that is joined with the one
\* above go there.
EditText ==
  LET shifted(to) == [s \in DOMAIN rows |-> Moved(rows[s], to[rows[s].line])] IN
  /\ session = "INACTIVE" /\ UNCHANGED commands
  /\ \E start \in Line :
       \/ /\ \A s \in DOMAIN rows : rows[s].line < Lines     \* the text does not grow
          /\ rows' = shifted([line \in 0..Lines |-> IF line >= start THEN line + 1 ELSE line])
          /\ \E within \in {FALSE, SplitsLines} :
               LET new == IF within THEN start + 1 ELSE start IN
               marked' = [l \in Line |-> IF l < new THEN marked[l]
                                         ELSE IF l = new THEN [on \in BOOLEAN |-> 0]
                                         ELSE marked[l - 1]]
       \/ /\ start < Lines
          /\ LET joined == {s \in DOMAIN rows : rows[s].line = start}
                 merged == [l \in Line |-> [on \in BOOLEAN |->
                             IF l < start THEN marked[l][on]
                             ELSE IF l = start THEN marked[l][on] + marked[l + 1][on]
                             ELSE IF l < Lines THEN marked[l + 1][on] ELSE 0]]
                 P == BreakRemove([List EXCEPT !.marked = merged], joined)
             IN  /\ marked' = P.marked
                 /\ rows' = [s \in Known(P) |->
                      shifted([line \in 0..Lines |-> IF line > start THEN line - 1 ELSE line])[s]]
  /\ Rest

--------------------------------------------------------------------------------
(* GDB (external)                                                             *)

Inserted(arg) ==
  [at |-> arg.at, line |-> IF arg.watch THEN 0 ELSE Placed[arg.at], on |-> arg.on,
   temp |-> arg.temp, watch |-> arg.watch]

Answers(rs) == records' = records \o rs /\ UNCHANGED <<session, rows, marked, prog, breakAsync, dirty, options>>
Without(n) == [m \in DOMAIN bps \ {n} |-> bps[m]]

Refuses(c) ==
  /\ \/ c.cmd \in {"load", "insert", "break", "edit"}
     \/ c.num # 0 /\ c.num \notin DOMAIN bps
     \/ c.cmd = "run" /\ target # "none"
     \/ c.cmd = "continue" /\ target # "stopped"
  /\ Answers(<<Record("error", 0, NoBreaks)>>) /\ UNCHANGED gdbVars

Creates(c) ==
  /\ c.cmd \in {"insert", "break"} /\ given < MaxBreaks
  /\ given' = given + 1 /\ bps' = With(bps, given', Inserted(c.arg)) /\ UNCHANGED target
  /\ LET new == Only(given', Inserted(c.arg)) IN
     Answers(IF c.cmd = "insert" THEN <<Record("inserted", c.token, new)>>
             ELSE <<Record("created", 0, new), Record("done", 0, NoBreaks)>>)

Changes(c) ==
  /\ c.num \in DOMAIN bps /\ UNCHANGED <<given, target>>
  /\ \/ /\ c.cmd \in {"enable", "disable"}
        /\ bps' = [bps EXCEPT ![c.num].on = (c.cmd = "enable")]
        /\ Answers(<<Record(IF c.token = 0 THEN "done" ELSE IF c.cmd = "enable" THEN "enabled" ELSE "disabled",
                            c.token, NoBreaks)>>)
     \/ c.cmd = "edit" /\ Answers(<<Record("edited", c.num, NoBreaks)>>) /\ UNCHANGED bps
     \/ c.cmd = "delete" /\ Answers(<<Record("removed", c.num, NoBreaks)>>) /\ bps' = Without(c.num)
     \/ /\ c.cmd = "cli delete"
        /\ bps' = Without(c.num)
        /\ Answers(<<Record("deleted", c.num, NoBreaks), Record("done", 0, NoBreaks)>>)
     \/ /\ c.cmd = "cli toggle"
        /\ bps' = [bps EXCEPT ![c.num].on = ~@]
        /\ Answers(<<Record("created", 0, Only(c.num, bps'[c.num])), Record("done", 0, NoBreaks)>>)

Tells(c) ==
  /\ UNCHANGED <<given, bps>>
  /\ \/ c.cmd = "load" /\ Answers(<<Record("loaded", c.token, NoBreaks)>>) /\ UNCHANGED target
     \/ c.cmd = "features" /\ Answers(<<Record("features", 0, NoBreaks)>>) /\ UNCHANGED target
     \/ /\ c.cmd = "info" /\ c.num \in DOMAIN bps
        /\ Answers(<<Record("info", 0, Only(c.num, bps[c.num]))>>) /\ UNCHANGED target
     \/ c.cmd = "list" /\ Answers(<<Record("list", 0, bps)>>) /\ UNCHANGED target
     \/ /\ \/ c.cmd = "run" /\ target = "none"
           \/ c.cmd = "continue" /\ target = "stopped"
        /\ target' = "running" /\ Answers(<<Record("running", 0, NoBreaks)>>)

GdbExecutes ==
  /\ session = "ACTIVE" /\ commands # <<>> /\ (async \/ target # "running")
  /\ commands' = Tail(commands)
  /\ LET c == Head(commands) IN Refuses(c) \/ Creates(c) \/ Changes(c) \/ Tells(c)

\* A breakpoint is hit, and goes if it is temporary; a watchpoint triggers, or
\* goes with the scope of its expression, of which the record does not tell.
TargetStops(n) ==
  /\ session = "ACTIVE" /\ target = "running" /\ target' = "stopped"
  /\ LET bp == bps[n]
         told == IF notifies THEN <<Record("created", 0, Only(n, bp))>> ELSE <<>>
         gone == IF notifies THEN <<Record("deleted", n, NoBreaks)>> ELSE <<>>
     IN  \/ /\ bp.on /\ ~bp.temp /\ UNCHANGED bps
            /\ Answers(told \o <<Record("hit", 0, NoBreaks)>>)
         \/ /\ bp.on /\ bp.temp /\ bps' = Without(n)
            /\ Answers(told \o <<Record("hit", n, NoBreaks)>> \o gone)
         \/ /\ bp.watch /\ bps' = Without(n)
            /\ Answers(<<Record("hit", 0, NoBreaks)>> \o gone)
  /\ UNCHANGED <<given, commands>>

TargetExits ==
  /\ session = "ACTIVE" /\ target # "none" /\ target' = "none"
  /\ Answers(<<Record("exited", 0, NoBreaks)>>)
  /\ UNCHANGED <<bps, given, commands>>

\* GDB ends, killed or not: gdb_exit_cb() with views_clear()
GdbExits ==
  /\ session # "INACTIVE" /\ session' = "INACTIVE"
  /\ LET P == BreaksClear(List) IN rows' = P.rows /\ marked' = P.marked
  /\ prog' = "none" /\ dirty' = FALSE /\ commands' = <<>> /\ records' = <<>>
  /\ bps' = NoBreaks /\ given' = 0 /\ target' = "none"
  /\ UNCHANGED <<breakAsync, options>>

BreaksNext ==
  \/ LoadProgram \/ RunContinue \/ OnBreakRefresh \/ CliCommand \/ Terminate \/ EditText
  \/ \E l \in Line : RunToCursor(l) \/ OnBreakToggle(l)
  \/ (\E l \in Line, temp \in BOOLEAN : OnBreakInsert(l, temp)) \/ OnBreakWatch
  \/ \E s \in DOMAIN rows : OnBreakDelete(s) \/ OnBreakApply(s) \/ OnBreakEnabledToggled(s)
                            \/ OnBreakColumnEdited(s)
  \/ Receive \/ GdbExecutes \/ (\E n \in DOMAIN bps : TargetStops(n)) \/ TargetExits \/ GdbExits

BreaksSpec == BreaksInit /\ [][BreaksNext]_breaksVars

--------------------------------------------------------------------------------
(* Properties                                                                 *)

BreaksTypeOK ==
  /\ session \in {"INACTIVE", "ACTIVE", "KILLING"}
  /\ DOMAIN rows \subseteq Scid
  /\ \A s \in DOMAIN rows : rows[s].id \in 0..MaxBreaks /\ rows[s].line \in 0..Lines
                            /\ rows[s].stage \in Stages
  /\ marked \in [Line -> [BOOLEAN -> Nat]]

(* docs/scope.html: "the breakpoint list is updated by asynchronous gdb       *)
(* messages", and before 7.4 after each stop.  When GDB is ready and all it   *)
(* wrote is read, the rows with an Id are GDB's breakpoints, each once, at    *)
(* the line and in the state GDB has them.  A watchpoint that is off is       *)
(* disabled once it is inserted, by a command whose answer is not followed:   *)
(* what GDB notifies of in between may leave its state wrong.                 *)
BreaksInStep ==
  Sendable /\ records = <<>> /\ ~dirty =>
    /\ \A s \in DOMAIN rows : rows[s].id # 0 =>
         /\ rows[s].id \in DOMAIN bps
         /\ LET bp == bps[rows[s].id] IN
            /\ rows[s].line = bp.line
            /\ rows[s].on = bp.on \/ (bp.watch /\ notifies)
    /\ \A n \in DOMAIN bps : \E s \in DOMAIN rows : rows[s].id = n
    /\ \A s, t \in DOMAIN rows : rows[s].id = rows[t].id /\ rows[s].id # 0 => s = t

(* docs/scope.html: "The breakpoint line markers [...] use the last known     *)
(* file name and line": each line has the markers of its rows, whatever GDB,  *)
(* the list and the text have gone through.                                   *)
MarkersAtRows ==
  /\ BreaksTypeOK
  /\ \A l \in Line, on \in BOOLEAN :
       marked[l][on] = Cardinality({s \in DOMAIN rows : rows[s].line = l /\ rows[s].on = on})
================================================================================
