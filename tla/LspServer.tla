------------------------------- MODULE LspServer -------------------------------
(***************************************************************************)
(* Life cycle of the language servers of the lsp plugin (lsp-server.c)     *)
(* over the callbacks of its JSON-RPC client (lsp-rpc.c).                  *)
(*                                                                         *)
(* The plugin runs on one GLib main loop: every action is one callback of  *)
(* that loop, run to completion.  What interleaves is the order in which   *)
(* the loop dispatches child-watch, stream, idle and timeout sources, and  *)
(* what the server processes do meanwhile.                                 *)
(*                                                                         *)
(* An LspServer struct is its address.  Freed addresses are handed out     *)
(* again by the allocator, as malloc does, so a stale pointer reads either *)
(* what was left behind or another server.                                 *)
(***************************************************************************)
EXTENDS Naturals, FiniteSets

CONSTANTS
  Filetype,      \* the filetypes that index lsp_servers
  Addr,          \* addresses an LspServer struct can have (bound: live structs)
  Launch,        \* launches of a server process (bound: processes and clients)
  NULL,          \* the null pointer, and "no entry"
  RefLang,       \* config.ref_lang (the "use" option) of every filetype
  HasCmd,        \* the filetypes with a "cmd" option
  DeadAfter,     \* restarts at which is_dead() holds (10 in the code)
  MaxStops       \* bound: how often all servers are stopped and reinitialised

GaveUp == 10 * DeadAfter    \* restarts of a server whose executable is missing
Call == {"initialize", "shutdown", "feature"}

ASSUME LspServerAssumption ==
  /\ NULL \notin Filetype \cup Addr \cup Launch
  /\ RefLang \in [Filetype -> Filetype \cup {NULL}]
  /\ HasCmd \subseteq Filetype
  /\ DeadAfter \in Nat \ {0}
  /\ MaxStops \in Nat

VARIABLES
  slot,        \* lsp_servers->pdata; NULL everywhere when lsp_servers is NULL
  inShutdown,  \* servers_in_shutdown
  alive,       \* addresses of allocated LspServer structs
  srv,         \* the content of every address
  launch,      \* process, pipe and JSON-RPC client of every launch
  killTimer,   \* pending kill_cb timeouts per server pointer
  freeTimer,   \* pending free_server_after_delay timeouts per server pointer
  terminated,  \* launches sent SIGTERM
  quitting,    \* terminate_all() runs or has run
  stops        \* number of stop_and_init_all_servers() so far

vars == <<slot, inShutdown, alive, srv, launch, killTimer, freeTimer,
          terminated, quitting, stops>>

Server ==
  [pid: Launch \cup {NULL}, rpc: Launch \cup {NULL}, startupShutdown: BOOLEAN,
   notUsed: BOOLEAN, restarts: Nat, referenced: Addr \cup {NULL},
   filetype: Filetype]

(* One start_lsp_server(): the child process, its exit status included; the *)
(* client with the calls it waits for; the calls whose error is queued on   *)
(* the main loop; whether client_table has the client; whether the server   *)
(* got "initialized"; the LspServer that client_table, the child watch and  *)
(* the calls point to.                                                      *)
LaunchState ==
  [proc: {"none", "running", "exited"}, client: {"none", "open", "closed"},
   pending: SUBSET Call, failed: SUBSET Call, inTable: BOOLEAN,
   ready: BOOLEAN, owner: Addr \cup {NULL}]

TypeOK ==
  /\ slot \in [Filetype -> Addr \cup {NULL}]
  /\ inShutdown \subseteq Addr
  /\ alive \subseteq Addr
  /\ srv \in [Addr -> Server]
  /\ launch \in [Launch -> LaunchState]
  /\ killTimer \in [Addr -> Nat]
  /\ freeTimer \in [Addr -> Nat]
  /\ terminated \subseteq Launch
  /\ quitting \in BOOLEAN
  /\ stops \in Nat

-------------------------------------------------------------------------------
(* Pieces of state the handlers share.                                       *)

(* Mutated: the count of restarts is not carried over to the new struct. *)
NewServer_forgetful(ft, n) ==
  [pid |-> NULL, rpc |-> NULL, startupShutdown |-> FALSE, notUsed |-> FALSE,
   restarts |-> 0, referenced |-> NULL, filetype |-> ft]

NewServer(ft, n) ==
  [pid |-> NULL, rpc |-> NULL, startupShutdown |-> FALSE, notUsed |-> FALSE,
   restarts |-> n, referenced |-> NULL, filetype |-> ft]

NoLaunch ==
  [proc |-> "none", client |-> "none", pending |-> {}, failed |-> {},
   inTable |-> FALSE, ready |-> FALSE, owner |-> NULL]

Initialised == \E f \in Filetype : slot[f] # NULL

IsDead(s) == srv[s].restarts >= DeadAfter

(* call_full(): the call waits for its reply, or fails at once, from the    *)
(* main loop, when the client is not connected.                             *)
CallFull(l, c) ==
  IF l.client = "open" THEN [l EXCEPT !.pending = @ \cup {c}]
                       ELSE [l EXCEPT !.failed = @ \cup {c}]

(* jsonrpc_client_panic() and jsonrpc_client_close(): what is in flight is  *)
(* completed with an error from a low-priority idle source.                 *)
Disconnect(l) ==
  [l EXCEPT !.client = "closed", !.failed = @ \cup l.pending, !.pending = {}]

(* Mutated: the client stays in client_table. *)
RpcDestroy_staysInTable(l) == Disconnect(l)

(* lsp_rpc_destroy() *)
RpcDestroy(l) == [Disconnect(l) EXCEPT !.inTable = FALSE]

(* The clients after free_server() of every server in S. *)
LaunchAfterFree(S) ==
  [p \in Launch |-> IF \E a \in S : srv[a].rpc = p THEN RpcDestroy(launch[p])
                                                   ELSE launch[p]]

(* A launch identifier nobody refers to any more can be used again. *)
FreeLaunch(l) ==
  l.proc = "none" /\ l.client # "open" /\ l.failed = {} /\ ~l.inTable

(* spawn succeeded: perform_initialize() has sent the first request. *)
Started(s) ==
  [proc |-> "running", client |-> "open", pending |-> {"initialize"},
   failed |-> {}, inTable |-> TRUE, ready |-> FALSE, owner |-> s]

(* Mutated: the server is usable before its handshake has ended. *)
SpawnOk_usableAtOnce(s, c, p, sv, ls) ==
  /\ FreeLaunch(ls[p])
  /\ srv' = [sv EXCEPT ![s] = [c EXCEPT !.pid = p, !.rpc = p]]
  /\ launch' = [ls EXCEPT ![p] = Started(s)]
  /\ terminated' = terminated \ {p}

(* start_lsp_server(s), s having content c and everything else being as in  *)
(* sv and ls: either the process runs as launch p, or the spawn failed and  *)
(* the server is given up.                                                  *)
SpawnOk(s, c, p, sv, ls) ==
  /\ FreeLaunch(ls[p])
  /\ srv' = [sv EXCEPT ![s] =
               [c EXCEPT !.pid = p, !.rpc = p, !.startupShutdown = TRUE]]
  /\ launch' = [ls EXCEPT ![p] = Started(s)]
  /\ terminated' = terminated \ {p}

(* Mutated: a server that could not be spawned is not given up. *)
SpawnFails_retried(s, c, sv, ls) ==
  /\ srv' = [sv EXCEPT ![s] = c]
  /\ launch' = ls
  /\ UNCHANGED terminated

SpawnFails(s, c, sv, ls) ==
  /\ srv' = [sv EXCEPT ![s] = [c EXCEPT !.restarts = GaveUp]]
  /\ launch' = ls
  /\ UNCHANGED terminated

(* kill_server(): SIGTERM to the process, if there is one. *)
KillServer(s) ==
  terminated' = terminated \cup (IF srv[s].pid # NULL THEN {srv[s].pid} ELSE {})

-------------------------------------------------------------------------------
(* plugin_init(): one idle server per filetype, nothing running.             *)
Init ==
  /\ slot \in [Filetype -> Addr]
  /\ \A f, g \in Filetype : slot[f] = slot[g] => f = g
  /\ alive = {slot[f] : f \in Filetype}
  /\ srv \in [Addr -> {NewServer(f, 0) : f \in Filetype}]
  /\ \A f \in Filetype : srv[slot[f]].filetype = f
  /\ \A a \in Addr \ alive : srv[a] = NewServer(CHOOSE f \in Filetype : TRUE, 0)
  /\ launch = [p \in Launch |-> NoLaunch]
  /\ killTimer = [a \in Addr |-> 0]
  /\ freeTimer = [a \in Addr |-> 0]
  /\ inShutdown = {}
  /\ terminated = {}
  /\ quitting = FALSE
  /\ stops = 0

(* lsp_server_stop_all(): stop_and_free_server() of every slot.  A server    *)
(* with a process gets the "shutdown" request and a 4 s kill_cb, one without *)
(* is freed.  Only ever entered with no slot's server in shutdown already.   *)
SlotServers == {slot[f] : f \in Filetype} \ {NULL}
ToStop == {s \in SlotServers : srv[s].pid # NULL /\ s \notin inShutdown}

(* Mutated: every server is freed, whether its process runs or not. *)
ToFree_all == SlotServers

ToFree == {s \in SlotServers : srv[s].pid = NULL}

(* Mutated: no kill_cb backs the shutdown request up. *)
StopAll_noTimer ==
  /\ inShutdown' = inShutdown \cup ToStop
  /\ launch' = [p \in Launch |->
                  IF \E s \in ToStop : srv[s].rpc = p
                  THEN CallFull(LaunchAfterFree(ToFree)[p], "shutdown")
                  ELSE LaunchAfterFree(ToFree)[p]]
  /\ UNCHANGED killTimer

StopAll ==
  /\ inShutdown' = inShutdown \cup ToStop
  /\ launch' = [p \in Launch |->
                  IF \E s \in ToStop : srv[s].rpc = p
                  THEN CallFull(LaunchAfterFree(ToFree)[p], "shutdown")
                  ELSE LaunchAfterFree(ToFree)[p]]
  /\ killTimer' = [a \in Addr |-> killTimer[a] + IF a \in ToStop THEN 1 ELSE 0]

(* Mutated: startup_shutdown is not set by the shutdown. *)
Stopped_silent == srv

Stopped == [a \in Addr |->
              IF a \in ToStop THEN [srv[a] EXCEPT !.startupShutdown = TRUE]
                              ELSE srv[a]]

(* stop_and_init_all_servers(): project or configuration changed.  The new   *)
(* structs may get the addresses the idle ones have just been freed from.    *)
StopAndInitAll ==
  /\ ~quitting
  /\ stops < MaxStops
  /\ StopAll
  /\ slot' \in [Filetype -> Addr \ (alive \ ToFree)]
  /\ \A f, g \in Filetype : slot'[f] = slot'[g] => f = g
  /\ alive' = (alive \ ToFree) \cup {slot'[f] : f \in Filetype}
  /\ srv' = [a \in Addr |->
               IF \E f \in Filetype : slot'[f] = a
               THEN NewServer(CHOOSE f \in Filetype : slot'[f] = a, 0)
               ELSE Stopped[a]]
  /\ stops' = stops + 1
  /\ UNCHANGED <<freeTimer, terminated, quitting>>

(* Mutated: lsp_servers goes on naming the servers being stopped. *)
TerminateAll_keepsSlots ==
  /\ ~quitting
  /\ StopAll
  /\ alive' = alive \ ToFree
  /\ srv' = Stopped
  /\ quitting' = TRUE
  /\ UNCHANGED <<slot, freeTimer, terminated, stops>>

(* terminate_all(): lsp_servers stays NULL, and lsp_server_stop_all(TRUE)    *)
(* runs the main loop until servers_in_shutdown is empty.                    *)
TerminateAll ==
  /\ ~quitting
  /\ StopAll
  /\ slot' = [f \in Filetype |-> NULL]
  /\ alive' = alive \ ToFree
  /\ srv' = Stopped
  /\ quitting' = TRUE
  /\ UNCHANGED <<freeTimer, terminated, stops>>

-------------------------------------------------------------------------------
(* server_get_or_start_for_ft(ft, TRUE), called by every feature.            *)

(* The server asked about: the slot's, or the one it has been redirected to. *)
Resolve(ft) ==
  IF srv[slot[ft]].referenced # NULL THEN srv[slot[ft]].referenced ELSE slot[ft]

(* The early returns: only an idle server that may be started gets past.     *)
Startable(s) ==
  /\ ~srv[s].startupShutdown
  /\ srv[s].pid = NULL
  /\ ~srv[s].notUsed
  /\ ~IsDead(s)

(* The server of the filetype the "use" option of s names. *)
RefServer(s) ==
  IF RefLang[srv[s].filetype] = NULL THEN NULL ELSE slot[RefLang[srv[s].filetype]]

(* What the call returns. *)
Returned(ft) ==
  IF ~Initialised THEN NULL
  ELSE LET s == Resolve(ft) IN
       IF ~srv[s].startupShutdown /\ srv[s].pid # NULL THEN s
       ELSE IF /\ Startable(s)
               /\ RefServer(s) # NULL
               /\ srv[RefServer(s)].pid # NULL THEN RefServer(s)
       ELSE NULL

(* What the call changes: the redirection, and the server it starts. *)
GetServer(ft) ==
  /\ Initialised
  /\ LET s    == Resolve(ft)
         s2   == RefServer(s)
         srv1 == IF s2 = NULL THEN srv ELSE [srv EXCEPT ![s].referenced = s2]
         t    == IF s2 = NULL THEN s ELSE s2
     IN /\ Startable(s)
        /\ \/ /\ s2 # NULL /\ srv[t].pid # NULL
              /\ srv' = srv1
              /\ UNCHANGED <<launch, terminated>>
           \/ /\ s2 = NULL \/ srv[t].pid = NULL
              /\ srv[t].filetype \notin HasCmd
              /\ srv' = [srv1 EXCEPT ![t].notUsed = TRUE]
              /\ UNCHANGED <<launch, terminated>>
           \/ /\ s2 = NULL \/ srv[t].pid = NULL
              /\ srv[t].filetype \in HasCmd
              /\ \/ \E p \in Launch : SpawnOk(t, srv1[t], p, srv1, launch)
                 \/ SpawnFails(t, srv1[t], srv1, launch)
  /\ UNCHANGED <<slot, inShutdown, alive, killTimer, freeTimer, quitting, stops>>

(* A feature (completion, hover, ...) sends its request to the server it was *)
(* given.  One such request per launch is in flight: bound.                  *)
UseServer(ft) ==
  /\ Returned(ft) # NULL
  /\ LET p == srv[Returned(ft)].rpc IN
     /\ "feature" \notin launch[p].pending \cup launch[p].failed
     /\ launch' = [launch EXCEPT ![p] = CallFull(@, "feature")]
  /\ UNCHANGED <<slot, inShutdown, alive, srv, killTimer, freeTimer, terminated,
                 quitting, stops>>

-------------------------------------------------------------------------------
(* The server process and the JSON-RPC connection to it.                     *)

(* The process ends: by "exit", by SIGTERM or by crashing. *)
ProcessExits(p) ==
  /\ launch[p].proc = "running"
  /\ launch' = [launch EXCEPT ![p].proc = "exited"]
  /\ UNCHANGED <<slot, inShutdown, alive, srv, killTimer, freeTimer, terminated,
                 quitting, stops>>

(* process_stopped(): the child watch of the launch. *)
ProcessStopped(p) ==
  /\ launch[p].proc = "exited"
  /\ LET s       == launch[p].owner
         reaped  == [launch EXCEPT ![p].proc = "none"]
         stopped == [srv EXCEPT ![s].pid = NULL]
         ft      == srv[s].filetype
         fresh   == NewServer(ft, srv[s].restarts + 1)
     IN
     \/ /\ s \in inShutdown                     \* normal shutdown
        /\ inShutdown' = inShutdown \ {s}
        /\ alive' = alive \ {s}
        /\ srv' = stopped
        /\ launch' = [reaped EXCEPT ![srv[s].rpc] = RpcDestroy(@)]
        /\ UNCHANGED <<slot, freeTimer, terminated>>
     \/ /\ s \notin inShutdown                  \* crash
        /\ freeTimer' = [freeTimer EXCEPT ![s] = @ + 1]
        /\ \/ /\ ~Initialised
              /\ srv' = stopped
              /\ launch' = reaped
              /\ UNCHANGED <<slot, alive, terminated>>
           \/ /\ Initialised
              /\ \E a \in Addr \ alive :
                   /\ alive' = alive \cup {a}
                   /\ slot' = [slot EXCEPT ![ft] = a]
                   /\ IF fresh.restarts >= DeadAfter
                      THEN /\ srv' = [stopped EXCEPT ![a] = fresh]
                           /\ launch' = reaped
                           /\ UNCHANGED terminated
                      ELSE \/ \E q \in Launch : SpawnOk(a, fresh, q, stopped, reaped)
                           \/ SpawnFails(a, fresh, stopped, reaped)
        /\ UNCHANGED inShutdown
  /\ UNCHANGED <<killTimer, quitting, stops>>

(* free_server_after_delay(): 300 ms after the crash.  Nothing is assumed    *)
(* about what the main loop has dispatched by then.                          *)
FreeAfterDelay(s) ==
  /\ freeTimer[s] > 0
  /\ freeTimer' = [freeTimer EXCEPT ![s] = @ - 1]
  /\ alive' = alive \ {s}
  /\ launch' = LaunchAfterFree({s})
  /\ UNCHANGED <<slot, inShutdown, srv, killTimer, terminated, quitting, stops>>

(* kill_cb(): the 4 s and the 2 s timeout.  The pointer is only compared.    *)
KillCb(s) ==
  /\ killTimer[s] > 0
  /\ killTimer' = [killTimer EXCEPT ![s] = @ - 1]
  /\ IF s \in inShutdown THEN KillServer(s) ELSE UNCHANGED terminated
  /\ UNCHANGED <<slot, inShutdown, alive, srv, launch, freeTimer, quitting, stops>>

(* jsonrpc_client_panic(): end of file once the process is gone, or a reply  *)
(* the client cannot parse before that.                                      *)
ClientPanic(p) ==
  /\ launch[p].client = "open"
  /\ launch' = [launch EXCEPT ![p] = Disconnect(@)]
  /\ UNCHANGED <<slot, inShutdown, alive, srv, killTimer, freeTimer, terminated,
                 quitting, stops>>

(* initialize_cb(): the handshake ends, or the server is terminated. *)
InitializeCb(s, p, ok, ls) ==
  /\ IF ok THEN /\ srv' = [srv EXCEPT ![s].startupShutdown = FALSE]
                /\ launch' = [ls EXCEPT ![p].ready = TRUE]
                /\ UNCHANGED terminated
           ELSE /\ KillServer(s)
                /\ launch' = ls
                /\ UNCHANGED srv
  /\ UNCHANGED killTimer

(* shutdown_cb(): "exit" is notified, or the server terminated; in both     *)
(* cases another kill_cb follows in 2 s.                                     *)
ShutdownCb(s, ok, ls) ==
  /\ IF s \in inShutdown
     THEN /\ killTimer' = [killTimer EXCEPT ![s] = @ + 1]
          /\ IF ok THEN UNCHANGED terminated ELSE KillServer(s)
     ELSE UNCHANGED <<killTimer, terminated>>
  /\ launch' = ls
  /\ UNCHANGED srv

(* call_cb(): the two calls of the handshake and the shutdown are always     *)
(* handed to their callback, a feature's only outside of both.               *)
CallCb(p, c, ok, ls) ==
  \/ c = "initialize" /\ InitializeCb(launch[p].owner, p, ok, ls)
  \/ c = "shutdown" /\ ShutdownCb(launch[p].owner, ok, ls)
  \/ c = "feature" /\ launch' = ls /\ UNCHANGED <<srv, killTimer, terminated>>

(* The process answers a call, with a result or with an error. *)
DeliverReply(p, c, ok) ==
  /\ launch[p].client = "open"
  /\ c \in launch[p].pending
  /\ CallCb(p, c, ok, [launch EXCEPT ![p].pending = @ \ {c}])
  /\ UNCHANGED <<slot, inShutdown, alive, freeTimer, quitting, stops>>

(* error_invocations_from_idle(): a call of a dead client fails. *)
DeliverFailure(p, c) ==
  /\ c \in launch[p].failed
  /\ CallCb(p, c, FALSE, [launch EXCEPT ![p].failed = @ \ {c}])
  /\ UNCHANGED <<slot, inShutdown, alive, freeTimer, quitting, stops>>

-------------------------------------------------------------------------------
Next ==
  \/ StopAndInitAll
  \/ TerminateAll
  \/ \E ft \in Filetype : GetServer(ft) \/ UseServer(ft)
  \/ \E p \in Launch : ProcessExits(p) \/ ProcessStopped(p) \/ ClientPanic(p)
  \/ \E s \in Addr : FreeAfterDelay(s) \/ KillCb(s)
  \/ \E p \in Launch, c \in Call, ok \in BOOLEAN : DeliverReply(p, c, ok)
  \/ \E p \in Launch, c \in Call : DeliverFailure(p, c)

Spec == Init /\ [][Next]_vars

(* The main loop dispatches what is due, and a process that gets SIGTERM     *)
(* ends.  A server need not answer, need not obey "exit" and need not crash. *)
Fairness ==
  /\ \A s \in Addr : WF_vars(KillCb(s))
  /\ \A p \in Launch : /\ WF_vars(p \in terminated /\ ProcessExits(p))
                       /\ WF_vars(ProcessStopped(p))

FairSpec == Spec /\ Fairness

-------------------------------------------------------------------------------
(* Properties.                                                               *)

(* No language server is started twice, lost or leaked: a process that runs, *)
(* or has ended unreaped, belongs to an allocated server that holds its pid  *)
(* and is either the one its filetype's slot names or waits in               *)
(* servers_in_shutdown.  A struct freed or replaced too early would leave a  *)
(* process nobody ever stops, and a child watch with a dangling pointer.     *)
NoOrphanProcess ==
  \A p \in Launch : launch[p].proc # "none" =>
    LET s == launch[p].owner IN
    /\ s \in alive
    /\ srv[s].pid = p
    /\ s \in inShutdown \/ slot[srv[s].filetype] = s

(* A slot always names an allocated server of its own filetype which is not  *)
(* shutting down and not about to be freed: free_server_after_delay() and    *)
(* process_stopped() only ever free what has left lsp_servers.               *)
SlotsUsable ==
  \A f \in Filetype : slot[f] # NULL =>
    /\ slot[f] \in alive \ inShutdown
    /\ srv[slot[f]].filetype = f
    /\ freeTimer[slot[f]] = 0

(* client_table never leads a notification or a reply to a freed server, and *)
(* a connection that can still deliver one is in the table.                  *)
TableLeadsToLiveServer ==
  \A p \in Launch :
    /\ launch[p].inTable => /\ launch[p].owner \in alive
                            /\ srv[launch[p].owner].rpc = p
    /\ launch[p].client = "open" => launch[p].inTable

(* What a feature gets from lsp_server_get() has finished the handshake, is  *)
(* running or unreaped, and is not being shut down.                          *)
ReturnedIsReady ==
  \A ft \in Filetype : Returned(ft) # NULL =>
    LET s == Returned(ft) IN
    /\ s \in alive \ inShutdown
    /\ srv[s].pid # NULL
    /\ launch[srv[s].pid].ready

(* A feature's callback is silenced once its server is shutting down: with   *)
(* such a call outstanding, startup_shutdown stays set until the server is   *)
(* gone, whatever replies to "initialize" and "shutdown" still arrive.       *)
ShutdownSilencesFeatures ==
  \A p \in Launch :
    /\ "feature" \in launch[p].pending \cup launch[p].failed
    /\ launch[p].owner \in inShutdown
    /\ launch[p].inTable
    => srv[launch[p].owner].startupShutdown

(* A server that keeps crashing is given up for good.  While the servers     *)
(* stay configured as they are, a slot is refilled only with a higher count  *)
(* of restarts, the count never falls, and once it has reached the limit no  *)
(* process is started for the filetype again.                                *)
GivesUpStep ==
  \A f \in Filetype : stops' = stops /\ slot[f] # NULL /\ slot'[f] # NULL =>
    LET old == srv[slot[f]]
        new == srv'[slot'[f]] IN
    /\ IF slot'[f] = slot[f] THEN new.restarts >= old.restarts
                             ELSE new.restarts > old.restarts
    /\ IsDead(slot[f]) => slot'[f] = slot[f] /\ new.pid = NULL

GivesUp == [][GivesUpStep]_vars

(* A server that process_stopped() frees at once has no "initialize" call    *)
(* outstanding, whose callback would use the freed struct.  Only the delayed *)
(* free after a crash is left to the clock.                                  *)
FreedAfterHandshakeEnds ==
  [][\A p \in Launch :
       /\ launch[p].owner \in alive \ alive'
       /\ freeTimer' = freeTimer
       => "initialize" \notin launch'[p].pending \cup launch'[p].failed]_vars

(* The stopping of a server goes through: quitting, which runs the main loop *)
(* until servers_in_shutdown is empty, ends even when the servers answer no  *)
(* request and ignore "exit".                                                *)
QuitTerminates == quitting ~> (inShutdown = {})

-------------------------------------------------------------------------------
(* Refinement of LspService.                                                 *)

(* The service of a filetype, read off its slot. *)
ServiceOf(f) ==
  IF slot[f] = NULL
  THEN [state |-> "absent", proc |-> NULL, crashes |-> 0]
  ELSE LET s == srv[slot[f]] IN
       IF s.pid # NULL
       THEN [state |-> IF s.startupShutdown THEN "starting" ELSE "ready",
             proc |-> s.pid, crashes |-> s.restarts]
       ELSE IF s.notUsed \/ s.restarts >= DeadAfter
       THEN [state |-> "off", proc |-> NULL, crashes |-> 0]
       ELSE [state |-> "idle", proc |-> NULL, crashes |-> s.restarts]

Service == INSTANCE LspService
             WITH service <- [f \in Filetype |-> ServiceOf(f)],
                  closing <- {srv[s].pid : s \in inShutdown}

(* The structs, slots and lists of lsp-server.c implement one service per    *)
(* filetype: whatever the callbacks interleave, a filetype's service only    *)
(* goes from idle to starting to ready, never has two processes, restarts    *)
(* with one crash more or not at all, and every process of a dropped service *)
(* is accounted for until it is reaped.                                      *)
ImplementsService == Service!ServiceSpec
===============================================================================
