-------------------------------- MODULE Debugger --------------------------------
(***************************************************************************)
(* Run control and breakpoints of the debugger plugin: debug.c and         *)
(* breakpoints.c over the GDB/MI module dbm_gdb.c.                         *)
(*                                                                         *)
(* The plugin runs on the main loop.  GDB and the program it debugs are    *)
(* processes of their own: their records wait in a pipe until the loop     *)
(* reads them, one per dispatch.  Breakpoints can only be changed while    *)
(* the target is stopped, so a change made while it runs interrupts it by  *)
(* SIGINT, is carried out at the stop, and the target is resumed.          *)
(*                                                                         *)
(* GDB and the target are external: modelled from how dbm_gdb.c uses them. *)
(***************************************************************************)
EXTENDS Naturals, Sequences

CONSTANTS
  Line,          \* places a breakpoint can be set at
  NULL,          \* no pending change
  Admitted       \* which circumstances Init chooses from, see Circumstance

(* Circumstances that the plugin does not cope with:                         *)
(*   hasty    the user changes breakpoints again before a change is done     *)
(*   early    the user interrupts before the target's pid is known           *)
(*   restart  the user restarts the target                                   *)
(*   refused  GDB refuses a command about a breakpoint                       *)
(*   outlived the session ends with a change still to be done                *)
Circumstance == {"hasty", "early", "restart", "refused", "outlived"}

ASSUME DebuggerAssumption ==
  /\ Admitted \subseteq SUBSET Circumstance
  /\ NULL \notin [op: {"add", "remove", "switch", "enable", "disable"}, on: SUBSET Line]

VARIABLES
  admits,        \* the circumstances of this behaviour
  debugState,    \* debug_state
  gdb,           \* GDB: none, loading the target, loaded, running or having
                 \* stopped it, or exiting
  out,           \* the records GDB has written and the plugin has not read
  targetPid,     \* target_pid: 0, that of the target, or of an earlier one
  sigint,        \* SIGINT has been sent to the target and not stopped it yet
  interrupt,     \* interrupt_cb and interrupt_data
  exitPending,   \* exit_pending
  stored,        \* the breakpoints of "files", enabled or not
  shown,         \* the breakpoints of the tree and the margins
  inGdb          \* GDB's breakpoints at every place, in the order of their numbers

vars == <<admits, debugState, gdb, out, targetPid, sigint, interrupt, exitPending,
          stored, shown, inGdb>>

Mark == {"none", "on", "off"}
Change == [op: {"add", "remove", "switch", "enable", "disable"}, on: SUBSET Line]

TypeOK ==
  /\ admits \in Admitted
  /\ debugState \in {"idle", "run requested", "running", "stopped", "stop requested"}
  /\ gdb \in {"none", "loading", "loaded", "running", "stopped", "exiting"}
  /\ out \in Seq({"started", "running", "stopped", "exited", "error"})
  /\ targetPid \in {"none", "current", "stale"}
  /\ sigint \in BOOLEAN
  /\ interrupt \in Change \cup {NULL}
  /\ exitPending \in BOOLEAN
  /\ stored \in [Line -> Mark]
  /\ shown \in [Line -> Mark]
  /\ inGdb \in [Line -> Seq(Mark)]

Init ==
  /\ admits \in Admitted
  /\ debugState = "idle"
  /\ gdb = "none"
  /\ out = <<>>
  /\ targetPid = "none"
  /\ sigint = FALSE
  /\ interrupt = NULL
  /\ exitPending = FALSE
  /\ stored \in [Line -> {"none", "off"}]
  /\ shown = stored
  /\ inGdb = [l \in Line |-> <<>>]

-------------------------------------------------------------------------------
(* The commands of dbm_gdb.c.                                                *)

(* stop(): -gdb-exit, whose answer is not waited for. *)
StopGdb == gdb' = "exiting" /\ UNCHANGED out

(* resume(), step_over(), step_into(), step_out(), execute_until(). *)
Resume ==
  IF gdb = "loaded" THEN out' = Append(out, "error") /\ UNCHANGED gdb
                    ELSE out' = Append(out, "running") /\ gdb' = "running"

(* -exec-run: GDB announces the new process before that it runs, or fails. *)
ExecRun ==
  \/ gdb' = "running" /\ out' = out \o <<"started", "running">>
  \/ gdb' = "loaded" /\ out' = Append(out, "error")

(* Mutated: a target that is not known to run yet is not interrupted. *)
RequestInterrupt_onlyRunning == sigint' = (sigint \/ debugState = "running")

(* request_interrupt(): kill(target_pid, SIGINT). *)
RequestInterrupt == sigint' = (sigint \/ targetPid = "current")

(* set_break() and remove_break(): get_break_number() finds the first of     *)
(* GDB's breakpoints at the place; what is not there cannot be modified.     *)
Modifiable(l) == inGdb[l] # <<>>

-------------------------------------------------------------------------------
(* breakpoints.c: what a change asks of GDB, and what then is shown.         *)

Flip(m) == IF m = "on" THEN "off" ELSE "on"

(* The breakpoints that GDB is to have at a place. *)
Backed(m) == IF m = "none" THEN <<>> ELSE <<m>>

(* What the place is to become. *)
Target(ch, st, l) ==
  CASE ch.op = "enable"  -> "on"
    [] ch.op = "disable" -> "off"
    [] ch.op = "remove"  -> "none"
    [] OTHER             -> st[l]

(* The places that differ from what they are to become. *)
Asked(ch, st) ==
  IF ch.op \in {"enable", "disable"} THEN {l \in ch.on : st[l] # Target(ch, st, l)}
                                     ELSE ch.on

(* Mutated: a switch that GDB refuses is not taken back. *)
ApplyChange_unreverted(ch, st, refused) ==
  LET done == {l \in Asked(ch, st) \ refused : ch.op = "add" \/ Modifiable(l)} IN
  /\ inGdb' = [l \in Line |->
       IF l \notin done THEN inGdb[l]
       ELSE IF ch.op = "add" THEN Append(inGdb[l], st[l])
       ELSE IF ch.op = "remove" THEN Tail(inGdb[l])
       ELSE [inGdb[l] EXCEPT ![1] = Target(ch, st, l)]]
  /\ stored' = [l \in Line |-> IF l \in done THEN Target(ch, st, l) ELSE st[l]]
  /\ shown' = [l \in Line |-> IF l \in done THEN Target(ch, st, l) ELSE shown[l]]

(* breaks_add_debug(), breaks_remove_debug(), breaks_switch_debug() and the  *)
(* list functions, st being stored: what GDB has done is stored and shown; a *)
(* switch that GDB refused is taken back, everything else stays as it is.    *)
ApplyChange(ch, st, refused) ==
  LET done == {l \in Asked(ch, st) \ refused : ch.op = "add" \/ Modifiable(l)} IN
  /\ inGdb' = [l \in Line |->
       IF l \notin done THEN inGdb[l]
       ELSE IF ch.op = "add" THEN Append(inGdb[l], st[l])
       ELSE IF ch.op = "remove" THEN Tail(inGdb[l])
       ELSE [inGdb[l] EXCEPT ![1] = Target(ch, st, l)]]
  /\ stored' = [l \in Line |->
       IF l \in done THEN Target(ch, st, l)
       ELSE IF ch.op = "switch" /\ l \in ch.on THEN Flip(st[l])
       ELSE st[l]]
  /\ shown' = [l \in Line |-> IF l \in done THEN Target(ch, st, l) ELSE shown[l]]

(* The commands of the change that GDB may refuse. *)
Refusals(ch) == IF "refused" \in admits THEN SUBSET ch.on ELSE {{}}

(* Mutated: breaks_add() leaves it to the callback to insert. *)
Prepared_uninserted(ch) ==
  [l \in Line |-> IF ch.op = "switch" /\ l \in ch.on THEN Flip(stored[l]) ELSE stored[l]]

(* breaks_add() inserts, breaks_switch() toggles before anything else. *)
Prepared(ch) ==
  [l \in Line |-> IF l \notin ch.on THEN stored[l]
                  ELSE IF ch.op = "add" THEN "on"
                  ELSE IF ch.op = "switch" THEN Flip(stored[l])
                  ELSE stored[l]]

(* What the margin, the keys and the tree offer: a breakpoint where there is *)
(* none, and everything else where there are some.                           *)
Offered(ch) ==
  /\ ch.on # {}
  /\ \A l \in ch.on : (stored[l] = "none") <=> (ch.op = "add")
  /\ ch.op \in {"add", "switch"} => \E l \in Line : ch.on = {l}
  /\ ch.op \in {"enable", "disable"} => ch.on = {l \in Line : stored[l] # "none"}

(* The session is going to end whatever the user does. *)
Ending ==
  \/ exitPending
  \/ gdb = "exiting"
  \/ debugState = "stop requested"
  \/ \E i \in 1..Len(out) : out[i] = "exited"

(* The user's commands come when what GDB wrote about the last one has been  *)
(* read: bound.                                                              *)
Settled == gdb \in {"loaded", "stopped"} /\ out = <<>>

(* breaks_add(), breaks_remove(), breaks_remove_list(), breaks_switch() and  *)
(* breaks_set_enabled_for_file().                                            *)
ChangeBreaks(ch) ==
  /\ Offered(ch)
  /\ interrupt # NULL \/ debugState = "stop requested" => "hasty" \in admits
  /\ \/ /\ debugState = "idle"
        /\ stored' = [l \in Line |->
             IF l \in ch.on THEN Target(ch, Prepared(ch), l) ELSE stored[l]]
        /\ shown' = stored'
        /\ UNCHANGED <<sigint, interrupt, inGdb>>
     \/ /\ debugState = "stopped"
        /\ Settled
        /\ \E refused \in Refusals(ch) : ApplyChange(ch, Prepared(ch), refused)
        /\ UNCHANGED <<sigint, interrupt>>
     \/ /\ debugState = "stop requested"
        /\ stored' = Prepared(ch)
        /\ UNCHANGED <<shown, sigint, interrupt, inGdb>>
     \/ /\ debugState \in {"run requested", "running"}
        /\ targetPid = "none" => "early" \in admits
        /\ Ending => "outlived" \in admits
        /\ stored' = Prepared(ch)
        /\ interrupt' = ch
        /\ RequestInterrupt
        /\ UNCHANGED <<shown, inGdb>>
  /\ UNCHANGED <<admits, debugState, gdb, out, targetPid, exitPending>>

-------------------------------------------------------------------------------
(* debug.c: the commands of the user.                                        *)

(* debug_run() without a session: GDB is started and given the breakpoints   *)
(* stored, or cannot be.                                                     *)
Run ==
  /\ debugState = "idle"
  /\ debugState' = "run requested"
  /\ gdb' = "loading"
  /\ inGdb' = [l \in Line |-> Backed(stored[l])]
  /\ UNCHANGED <<admits, out, targetPid, sigint, interrupt, exitPending, stored, shown>>

(* debug_run() in a session. *)
Continue ==
  /\ debugState = "stopped"
  /\ Settled
  /\ Resume
  /\ debugState' = "run requested"
  /\ UNCHANGED <<admits, targetPid, sigint, interrupt, exitPending, stored, shown, inGdb>>

(* debug_step_over(), ..._into(), ..._out() and debug_execute_until(): the   *)
(* state changes when GDB reports that the target runs.                      *)
Step ==
  /\ debugState = "stopped"
  /\ Settled
  /\ Resume
  /\ UNCHANGED <<admits, debugState, targetPid, sigint, interrupt, exitPending,
                 stored, shown, inGdb>>

(* debug_restart(): the old process is killed; its pid stays in target_pid.  *)
Restart ==
  /\ "restart" \in admits
  /\ debugState = "stopped"
  /\ Settled
  /\ ExecRun
  /\ targetPid' = IF targetPid = "none" THEN "none" ELSE "stale"
  /\ sigint' = FALSE
  /\ debugState' = "run requested"
  /\ UNCHANGED <<admits, interrupt, exitPending, stored, shown, inGdb>>

(* Mutated: the target is not interrupted. *)
Stop_quietly ==
  /\ debugState # "idle"
  /\ Ending \/ interrupt # NULL => "outlived" \in admits
  /\ \/ /\ debugState = "stopped"
        /\ StopGdb
        /\ debugState' = "stop requested"
        /\ UNCHANGED <<exitPending, sigint>>
     \/ /\ debugState # "stopped"
        /\ targetPid = "none" => "early" \in admits
        /\ exitPending' = TRUE
        /\ UNCHANGED <<gdb, out, debugState, sigint>>
  /\ UNCHANGED <<admits, targetPid, interrupt, stored, shown, inGdb>>

(* debug_stop() *)
Stop ==
  /\ debugState # "idle"
  /\ Ending \/ interrupt # NULL => "outlived" \in admits
  /\ \/ /\ debugState = "stopped"
        /\ StopGdb
        /\ debugState' = "stop requested"
        /\ UNCHANGED <<exitPending, sigint>>
     \/ /\ debugState # "stopped"
        /\ targetPid = "none" => "early" \in admits
        /\ exitPending' = TRUE
        /\ RequestInterrupt
        /\ UNCHANGED <<gdb, out, debugState>>
  /\ UNCHANGED <<admits, targetPid, interrupt, stored, shown, inGdb>>

-------------------------------------------------------------------------------
(* GDB and the target.                                                       *)

(* on_read_async_output(): the commands that set the session up are done,    *)
(* and the target is started; or one has failed, and GDB is stopped.         *)
Loaded ==
  /\ gdb = "loading"
  /\ \/ ExecRun
     \/ (interrupt # NULL \/ exitPending => "outlived" \in admits) /\ StopGdb
  /\ UNCHANGED <<admits, debugState, targetPid, sigint, interrupt, exitPending,
                 stored, shown, inGdb>>

(* The target stops at a breakpoint, after a step or by a signal of its own. *)
TargetStops ==
  /\ gdb = "running"
  /\ gdb' = "stopped"
  /\ out' = Append(out, "stopped")
  /\ UNCHANGED <<admits, debugState, targetPid, sigint, interrupt, exitPending,
                 stored, shown, inGdb>>

(* The target stops by the SIGINT of request_interrupt(). *)
SigintStops ==
  /\ gdb = "running" /\ sigint
  /\ gdb' = "stopped"
  /\ out' = Append(out, "stopped")
  /\ sigint' = FALSE
  /\ UNCHANGED <<admits, debugState, targetPid, interrupt, exitPending, stored,
                 shown, inGdb>>

TargetExits ==
  /\ gdb = "running"
  /\ interrupt # NULL \/ exitPending => "outlived" \in admits
  /\ gdb' = "loaded"
  /\ out' = Append(out, "exited")
  /\ UNCHANGED <<admits, debugState, targetPid, sigint, interrupt, exitPending,
                 stored, shown, inGdb>>

(* GDB itself crashes or is killed. *)
GdbDies ==
  /\ gdb \in {"loading", "loaded", "running", "stopped"}
  /\ interrupt # NULL \/ exitPending => "outlived" \in admits
  /\ gdb' = "exiting"
  /\ UNCHANGED <<admits, debugState, out, targetPid, sigint, interrupt, exitPending,
                 stored, shown, inGdb>>

-------------------------------------------------------------------------------
(* What the main loop reads from GDB.                                        *)

(* Mutated: the pending change is dropped. *)
OnDebuggerStopped_forgets ==
  /\ debugState' = "stopped"
  /\ \/ /\ exitPending
        /\ exitPending' = FALSE
        /\ gdb' = "exiting" /\ out' = Tail(out)
        /\ UNCHANGED interrupt
     \/ /\ ~exitPending /\ interrupt # NULL
        /\ interrupt' = NULL
        /\ IF gdb = "loaded" THEN out' = Append(Tail(out), "error") /\ UNCHANGED gdb
           ELSE out' = Append(Tail(out), "running") /\ gdb' = "running"
        /\ UNCHANGED exitPending
     \/ /\ ~exitPending /\ interrupt = NULL
        /\ out' = Tail(out)
        /\ UNCHANGED <<gdb, exitPending, interrupt>>
  /\ UNCHANGED <<stored, shown, inGdb>>

(* on_debugger_stopped(): the session is to end, or there is a change to     *)
(* make and the target resumes, or the user takes over.                      *)
OnDebuggerStopped ==
  /\ debugState' = "stopped"
  /\ \/ /\ exitPending
        /\ exitPending' = FALSE
        /\ gdb' = "exiting" /\ out' = Tail(out)
        /\ UNCHANGED <<interrupt, stored, shown, inGdb>>
     \/ /\ ~exitPending /\ interrupt # NULL
        /\ \E refused \in Refusals(interrupt) : ApplyChange(interrupt, stored, refused)
        /\ interrupt' = NULL
        /\ IF gdb = "loaded" THEN out' = Append(Tail(out), "error") /\ UNCHANGED gdb
           ELSE out' = Append(Tail(out), "running") /\ gdb' = "running"
        /\ UNCHANGED exitPending
     \/ /\ ~exitPending /\ interrupt = NULL
        /\ out' = Tail(out)
        /\ UNCHANGED <<gdb, exitPending, interrupt, stored, shown, inGdb>>

(* on_read_from_gdb(): one record. *)
ReadStarted ==
  /\ out # <<>> /\ Head(out) = "started"
  /\ targetPid' = IF targetPid = "none" THEN "current" ELSE targetPid
  /\ out' = Tail(out)
  /\ UNCHANGED <<admits, debugState, gdb, sigint, interrupt, exitPending, stored,
                 shown, inGdb>>

ReadRunning ==
  /\ out # <<>> /\ Head(out) = "running"
  /\ debugState' = "running"
  /\ out' = Tail(out)
  /\ UNCHANGED <<admits, gdb, targetPid, sigint, interrupt, exitPending, stored,
                 shown, inGdb>>

ReadStopped ==
  /\ out # <<>> /\ Head(out) = "stopped"
  /\ OnDebuggerStopped
  /\ UNCHANGED <<admits, targetPid, sigint>>

ReadExited ==
  /\ out # <<>> /\ Head(out) = "exited"
  /\ gdb' = "exiting"
  /\ out' = Tail(out)
  /\ UNCHANGED <<admits, debugState, targetPid, sigint, interrupt, exitPending,
                 stored, shown, inGdb>>

(* An exec command failed: the debugger counts as stopped. *)
ReadError ==
  /\ out # <<>> /\ Head(out) = "error"
  /\ IF debugState # "stopped" THEN OnDebuggerStopped
     ELSE out' = Tail(out) /\ UNCHANGED <<debugState, gdb, interrupt, exitPending,
                                          stored, shown, inGdb>>
  /\ UNCHANGED <<admits, targetPid, sigint>>

ReadRecord == gdb # "exiting" /\ (ReadStarted \/ ReadRunning \/ ReadStopped
                                    \/ ReadExited \/ ReadError)

(* on_gdb_exit() and on_debugger_exited(): neither exit_pending nor the      *)
(* pending change is reset.                                                  *)
GdbExited ==
  /\ gdb = "exiting"
  /\ gdb' = "none"
  /\ debugState' = "idle"
  /\ targetPid' = "none"
  /\ sigint' = FALSE
  /\ out' = <<>>
  /\ inGdb' = [l \in Line |-> <<>>]
  /\ UNCHANGED <<admits, interrupt, exitPending, stored, shown>>

-------------------------------------------------------------------------------
Next ==
  \/ \E ch \in Change : ChangeBreaks(ch)
  \/ Run \/ Continue \/ Step \/ Restart \/ Stop
  \/ Loaded \/ TargetStops \/ SigintStops \/ TargetExits \/ GdbDies
  \/ ReadRecord \/ GdbExited

Spec == Init /\ [][Next]_vars

(* The signal arrives, the loop reads what GDB writes and reaps it.  Nothing *)
(* makes the user act, or the target stop or exit of its own.                *)
Fairness == WF_vars(SigintStops) /\ WF_vars(ReadRecord) /\ WF_vars(GdbExited)

FairSpec == Spec /\ Fairness

-------------------------------------------------------------------------------
Pending == IF interrupt = NULL THEN {} ELSE interrupt.on

(* The pending change is about breakpoints that are in the storage: what the *)
(* callback gets at the stop has not been freed (breakpoints.c, debug.c).    *)
PendingInStore ==
  "outlived" \notin admits => \A l \in Pending : stored[l] # "none"

(* In a session GDB has every breakpoint of the storage, once and as enabled *)
(* as it is there, and no other, except where a change is pending: changes   *)
(* made while the target runs and while it is stopped are not lost and not   *)
(* made twice.                                                               *)
GdbInStep ==
  /\ admits \cap {"hasty", "refused", "outlived"} = {}
  /\ gdb \in {"loading", "loaded", "running", "stopped"}
  => \A l \in Line \ Pending : inGdb[l] = Backed(stored[l])

(* The tree and the margins show the breakpoints of the storage, except      *)
(* where a change is pending or GDB has refused to set one: a switch that    *)
(* GDB refuses is taken back on both sides.                                  *)
ShownIsStored ==
  admits \cap {"hasty", "outlived"} = {} =>
    \A l \in Line \ Pending :
      \/ shown[l] = stored[l]
      \/ "refused" \in admits /\ shown[l] = "none"

(* A session that the user stops ends: what debug_stop() does while the      *)
(* target runs (exit_pending and SIGINT), or at once while it is stopped.    *)
StopEnds ==
  (exitPending \/ debugState = "stop requested") /\ admits \cap {"early", "restart"} = {}
    ~> debugState = "idle"

(* A change of breakpoints that has to wait for the target to stop is made,  *)
(* however the stop races with the signal that asks for it.                  *)
ChangeMade ==
  interrupt # NULL /\ admits \cap {"early", "restart", "outlived"} = {}
    ~> interrupt = NULL

(* What debug_stop() says: it "stops debug process".                         *)
StopsDebugProcess == exitPending ~> debugState = "idle"
===============================================================================
