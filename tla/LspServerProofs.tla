---------------------------- MODULE LspServerProofs ----------------------------
(***************************************************************************)
(* Theorems about LspServer, for every set of filetypes, addresses and     *)
(* launches, when no filetype shares the server of another (NoSharing):    *)
(* its safety, and that it implements one LspService per filetype.         *)
(***************************************************************************)
EXTENDS LspServer, TLAPS

NoSharing == \A f \in Filetype : RefLang[f] = NULL

(* The inductive invariant, by what each part relates.                       *)

(* lsp_servers exists as a whole or not at all, and nothing is redirected. *)
SlotsWhole ==
  /\ (\E f \in Filetype : slot[f] = NULL) => \A f \in Filetype : slot[f] = NULL
  /\ \A a \in Addr : srv[a].referenced = NULL

(* A server with a pid owns the launch of that pid, over its own connection. *)
PidsOwned ==
  /\ \A a \in Addr : srv[a].pid # NULL =>
       /\ a \in alive
       /\ launch[srv[a].pid].proc # "none"
       /\ launch[srv[a].pid].owner = a
       /\ srv[a].rpc = srv[a].pid
  /\ \A a \in inShutdown : srv[a].pid # NULL

(* Only a crashed server, unlinked and without process, waits to be freed. *)
TimersSound ==
  \A a \in Addr : freeTimer[a] # 0 =>
    /\ freeTimer[a] = 1
    /\ a \in alive
    /\ srv[a].pid = NULL

(* A connection is in client_table as long as its server is allocated, and a *)
(* server keeps it from its start until it is freed.                         *)
RpcsOwned ==
  \A a \in alive : srv[a].rpc # NULL =>
    /\ launch[srv[a].rpc].inTable
    /\ launch[srv[a].rpc].owner = a
    /\ srv[a].pid # NULL \/ freeTimer[a] # 0

(* Only a server that got "initialized" is sent the calls of features, and   *)
(* it owes no reply to "initialize".                                         *)
Handshake ==
  /\ \A p \in Launch :
       /\ launch[p].ready => "initialize" \notin launch[p].pending
       /\ "feature" \in launch[p].pending \cup launch[p].failed => launch[p].ready
       /\ launch[p].pending \cup launch[p].failed # {} => launch[p].owner \in Addr
  /\ \A a \in Addr :
       srv[a].pid # NULL /\ ~srv[a].startupShutdown => launch[srv[a].pid].ready

IInv ==
  /\ TypeOK
  /\ SlotsWhole
  /\ SlotsUsable
  /\ NoOrphanProcess
  /\ PidsOwned
  /\ TimersSound
  /\ TableLeadsToLiveServer
  /\ RpcsOwned
  /\ Handshake
  /\ ShutdownSilencesFeatures

-------------------------------------------------------------------------------
(* What the shared pieces of the handlers do to one launch.                  *)

LEMMA DisconnectFields ==
  ASSUME NEW l \in LaunchState
  PROVE  /\ Disconnect(l) \in LaunchState
         /\ Disconnect(l).proc = l.proc
         /\ Disconnect(l).owner = l.owner
         /\ Disconnect(l).inTable = l.inTable
         /\ Disconnect(l).ready = l.ready
         /\ Disconnect(l).client = "closed"
         /\ Disconnect(l).pending = {}
         /\ Disconnect(l).failed = l.failed \cup l.pending
  BY DEF Disconnect, LaunchState

LEMMA RpcDestroyFields ==
  ASSUME NEW l \in LaunchState
  PROVE  /\ RpcDestroy(l) \in LaunchState
         /\ RpcDestroy(l).proc = l.proc
         /\ RpcDestroy(l).owner = l.owner
         /\ RpcDestroy(l).inTable = FALSE
         /\ RpcDestroy(l).ready = l.ready
         /\ RpcDestroy(l).client = "closed"
         /\ RpcDestroy(l).pending = {}
         /\ RpcDestroy(l).failed = l.failed \cup l.pending
<1> DEFINE d == Disconnect(l)
<1>1. /\ d \in LaunchState
      /\ d.proc = l.proc /\ d.owner = l.owner /\ d.ready = l.ready
      /\ d.client = "closed" /\ d.pending = {}
      /\ d.failed = l.failed \cup l.pending
  BY DisconnectFields
<1>2. RpcDestroy(l) = [d EXCEPT !.inTable = FALSE]
  BY DEF RpcDestroy
<1> HIDE DEF d
<1>3. /\ RpcDestroy(l) \in LaunchState
      /\ RpcDestroy(l).proc = d.proc /\ RpcDestroy(l).owner = d.owner
      /\ RpcDestroy(l).inTable = FALSE /\ RpcDestroy(l).ready = d.ready
      /\ RpcDestroy(l).client = d.client /\ RpcDestroy(l).pending = d.pending
      /\ RpcDestroy(l).failed = d.failed
  BY <1>1, <1>2 DEF LaunchState
<1> QED
  BY <1>1, <1>3

LEMMA CallFullFields ==
  ASSUME NEW l \in LaunchState, NEW call \in Call
  PROVE  /\ CallFull(l, call) \in LaunchState
         /\ CallFull(l, call).proc = l.proc
         /\ CallFull(l, call).owner = l.owner
         /\ CallFull(l, call).inTable = l.inTable
         /\ CallFull(l, call).ready = l.ready
         /\ CallFull(l, call).client = l.client
         /\ CallFull(l, call).pending \subseteq l.pending \cup {call}
         /\ CallFull(l, call).pending \cup CallFull(l, call).failed =
              l.pending \cup l.failed \cup {call}
  BY DEF CallFull, LaunchState, Call

LEMMA NewServerType ==
  ASSUME NEW ft \in Filetype, NEW n \in Nat
  PROVE  /\ NewServer(ft, n) \in Server
         /\ NewServer(ft, n).pid = NULL
         /\ NewServer(ft, n).rpc = NULL
         /\ NewServer(ft, n).referenced = NULL
         /\ NewServer(ft, n).filetype = ft
         /\ NewServer(ft, n).restarts = n
  BY DEF NewServer, Server

LEMMA StartupShutdownField ==
  ASSUME NEW r \in Server, NEW b \in BOOLEAN
  PROVE  LET n == [r EXCEPT !.startupShutdown = b] IN
         /\ n \in Server
         /\ n.pid = r.pid
         /\ n.rpc = r.rpc
         /\ n.notUsed = r.notUsed
         /\ n.restarts = r.restarts
         /\ n.referenced = r.referenced
         /\ n.filetype = r.filetype
         /\ n.startupShutdown = b
  BY DEF Server

LEMMA ReadyField ==
  ASSUME NEW l \in LaunchState
  PROVE  LET n == [l EXCEPT !.ready = TRUE] IN
         /\ n \in LaunchState
         /\ n.proc = l.proc
         /\ n.client = l.client
         /\ n.pending = l.pending
         /\ n.failed = l.failed
         /\ n.inTable = l.inTable
         /\ n.owner = l.owner
         /\ n.ready
  BY DEF LaunchState

LEMMA PidField ==
  ASSUME NEW r \in Server
  PROVE  LET m == [r EXCEPT !.pid = NULL] IN
         /\ m \in Server
         /\ m.pid = NULL
         /\ m.rpc = r.rpc
         /\ m.startupShutdown = r.startupShutdown
         /\ m.referenced = r.referenced
         /\ m.filetype = r.filetype
         /\ m.restarts = r.restarts
  BY DEF Server

LEMMA ProcField ==
  ASSUME NEW l \in LaunchState
  PROVE  LET m == [l EXCEPT !.proc = "none"] IN
         /\ m \in LaunchState
         /\ m.proc = "none"
         /\ m.client = l.client
         /\ m.pending = l.pending
         /\ m.failed = l.failed
         /\ m.inTable = l.inTable
         /\ m.ready = l.ready
         /\ m.owner = l.owner
  BY DEF LaunchState

(* SpawnOk() and SpawnFails() on the server s with content c. *)
LEMMA SpawnedFields ==
  ASSUME NEW r \in Server, NEW p \in Launch
  PROVE  LET n == [r EXCEPT !.pid = p, !.rpc = p, !.startupShutdown = TRUE] IN
         /\ n \in Server
         /\ n.pid = p
         /\ n.rpc = p
         /\ n.startupShutdown
         /\ n.referenced = r.referenced
         /\ n.filetype = r.filetype
  BY DEF Server

LEMMA StartedFields ==
  ASSUME NEW s \in Addr
  PROVE  /\ Started(s) \in LaunchState
         /\ Started(s).proc = "running"
         /\ Started(s).client = "open"
         /\ Started(s).pending = {"initialize"}
         /\ Started(s).failed = {}
         /\ Started(s).inTable
         /\ ~Started(s).ready
         /\ Started(s).owner = s
  BY DEF Started, LaunchState, Call

LEMMA RestartsField ==
  ASSUME NEW r \in Server, NEW n \in Nat
  PROVE  LET m == [r EXCEPT !.restarts = n] IN
         /\ m \in Server
         /\ m.pid = r.pid
         /\ m.rpc = r.rpc
         /\ m.startupShutdown = r.startupShutdown
         /\ m.referenced = r.referenced
         /\ m.filetype = r.filetype
         /\ m.restarts = n
  BY DEF Server

LEMMA NotUsedField ==
  ASSUME NEW r \in Server
  PROVE  LET m == [r EXCEPT !.notUsed = TRUE] IN
         /\ m \in Server
         /\ m.pid = r.pid
         /\ m.rpc = r.rpc
         /\ m.startupShutdown = r.startupShutdown
         /\ m.referenced = r.referenced
         /\ m.filetype = r.filetype
         /\ m.restarts = r.restarts
  BY DEF Server

LEMMA GaveUpNat == GaveUp \in Nat
  BY LspServerAssumption DEF GaveUp

-------------------------------------------------------------------------------
LEMMA InitIInv == Init => IInv
<1> SUFFICES ASSUME Init PROVE IInv
  OBVIOUS
<1> USE LspServerAssumption
<1>1. \A a \in Addr : \E f \in Filetype : srv[a] = NewServer(f, 0)
  BY DEF Init
<1>2. \A p \in Launch : launch[p] = NoLaunch
  BY DEF Init
<1>3. TypeOK
  <2>1. \A a \in Addr : srv[a] \in Server
    BY <1>1, NewServerType
  <2>2. NoLaunch \in LaunchState
    BY DEF NoLaunch, LaunchState
  <2>3. srv \in [Addr -> Server]
    BY <2>1 DEF Init
  <2>4. launch \in [Launch -> LaunchState]
    BY <2>2 DEF Init
  <2>5. slot \in [Filetype -> Addr \cup {NULL}]
    BY DEF Init
  <2>6. alive \subseteq Addr
    BY DEF Init
  <2>7. killTimer \in [Addr -> Nat] /\ freeTimer \in [Addr -> Nat]
    BY DEF Init
  <2> QED
    BY <2>3, <2>4, <2>5, <2>6, <2>7 DEF Init, TypeOK
<1>4. \A a \in Addr : srv[a].pid = NULL /\ srv[a].rpc = NULL /\ srv[a].referenced = NULL
  BY <1>1, NewServerType
<1>5. SlotsWhole /\ SlotsUsable /\ NoOrphanProcess /\ PidsOwned /\ TimersSound
  BY <1>2, <1>4 DEF Init, SlotsWhole, SlotsUsable, NoOrphanProcess, PidsOwned,
                    TimersSound, NoLaunch
<1>6. TableLeadsToLiveServer /\ RpcsOwned /\ Handshake /\ ShutdownSilencesFeatures
  BY <1>2, <1>4 DEF Init, TableLeadsToLiveServer, RpcsOwned, Handshake,
                    ShutdownSilencesFeatures, NoLaunch
<1> QED
  BY <1>3, <1>5, <1>6 DEF IInv

-------------------------------------------------------------------------------
(* The handlers that touch one launch or one timer.                          *)

LEMMA ProcessExitsIInv ==
  ASSUME IInv, NEW p \in Launch, ProcessExits(p)
  PROVE  IInv'
<1> USE LspServerAssumption
<1>1. TypeOK'
  BY DEF IInv, TypeOK, ProcessExits, LaunchState
<1>2. SlotsWhole' /\ SlotsUsable' /\ TimersSound'
  BY DEF IInv, ProcessExits, SlotsWhole, SlotsUsable, TimersSound
<1>3. \A q \in Launch : launch'[q] = [launch[q] EXCEPT !.proc = IF q = p THEN "exited" ELSE @]
  BY DEF IInv, TypeOK, ProcessExits, LaunchState
<1>4. NoOrphanProcess' /\ PidsOwned'
  BY <1>3 DEF IInv, TypeOK, Server, LaunchState, ProcessExits, NoOrphanProcess, PidsOwned
<1>5. TableLeadsToLiveServer' /\ RpcsOwned'
  BY <1>3 DEF IInv, TypeOK, Server, LaunchState, ProcessExits, TableLeadsToLiveServer, RpcsOwned
<1>6. Handshake' /\ ShutdownSilencesFeatures'
  BY <1>3 DEF IInv, TypeOK, Server, LaunchState, ProcessExits, Handshake, ShutdownSilencesFeatures
<1> QED
  BY <1>1, <1>2, <1>4, <1>5, <1>6 DEF IInv

LEMMA ClientPanicIInv ==
  ASSUME IInv, NEW p \in Launch, ClientPanic(p)
  PROVE  IInv'
<1> USE LspServerAssumption
<1>1. launch' \in [Launch -> LaunchState]
  BY DisconnectFields DEF IInv, TypeOK, ClientPanic
<1>2. TypeOK'
  BY <1>1 DEF IInv, TypeOK, ClientPanic
<1>3. SlotsWhole' /\ SlotsUsable' /\ TimersSound'
  BY DEF IInv, ClientPanic, SlotsWhole, SlotsUsable, TimersSound
<1>4. \A q \in Launch :
        /\ launch'[q].proc = launch[q].proc
        /\ launch'[q].owner = launch[q].owner
        /\ launch'[q].inTable = launch[q].inTable
        /\ launch'[q].ready = launch[q].ready
        /\ launch'[q].client = "open" => launch[q].client = "open"
        /\ launch'[q].pending \subseteq launch[q].pending
        /\ launch'[q].pending \cup launch'[q].failed = launch[q].pending \cup launch[q].failed
  BY DisconnectFields DEF IInv, TypeOK, ClientPanic
<1>5. NoOrphanProcess' /\ PidsOwned'
  BY <1>4 DEF IInv, TypeOK, Server, ClientPanic, NoOrphanProcess, PidsOwned
<1>6. TableLeadsToLiveServer' /\ RpcsOwned'
  BY <1>4 DEF IInv, TypeOK, Server, ClientPanic, TableLeadsToLiveServer, RpcsOwned
<1>7. Handshake' /\ ShutdownSilencesFeatures'
  BY <1>4 DEF IInv, TypeOK, Server, ClientPanic, Handshake, ShutdownSilencesFeatures
<1> QED
  BY <1>2, <1>3, <1>5, <1>6, <1>7 DEF IInv

LEMMA KillCbIInv ==
  ASSUME IInv, NEW s \in Addr, KillCb(s)
  PROVE  IInv'
<1> USE LspServerAssumption
<1>1. terminated' \subseteq Launch
  BY DEF IInv, TypeOK, KillCb, KillServer, Server
<1>2. TypeOK'
  BY <1>1 DEF IInv, TypeOK, KillCb
<1> QED
  BY <1>2 DEF IInv, KillCb, SlotsWhole, SlotsUsable, NoOrphanProcess, PidsOwned,
     TimersSound, TableLeadsToLiveServer, RpcsOwned, Handshake,
     ShutdownSilencesFeatures

LEMMA FreeAfterDelayIInv ==
  ASSUME IInv, NEW s \in Addr, FreeAfterDelay(s)
  PROVE  IInv'
<1> USE LspServerAssumption
<1>1. launch' = [p \in Launch |->
                   IF srv[s].rpc = p THEN RpcDestroy(launch[p]) ELSE launch[p]]
  BY DEF FreeAfterDelay, LaunchAfterFree
<1>2. /\ freeTimer[s] > 0
      /\ freeTimer' = [freeTimer EXCEPT ![s] = @ - 1]
      /\ alive' = alive \ {s}
      /\ UNCHANGED <<slot, inShutdown, srv, killTimer, terminated, quitting, stops>>
  BY DEF FreeAfterDelay
<1>3. launch' \in [Launch -> LaunchState]
  BY <1>1, RpcDestroyFields DEF IInv, TypeOK
<1>4. \A p \in Launch :
        /\ launch'[p].proc = launch[p].proc
        /\ launch'[p].owner = launch[p].owner
        /\ launch'[p].ready = launch[p].ready
        /\ launch'[p].pending \subseteq launch[p].pending
        /\ launch'[p].pending \cup launch'[p].failed = launch[p].pending \cup launch[p].failed
        /\ launch'[p].client = "open" => launch[p].client = "open" /\ srv[s].rpc # p
        /\ launch'[p].inTable => launch[p].inTable /\ srv[s].rpc # p
        /\ launch[p].inTable /\ srv[s].rpc # p => launch'[p].inTable
  <2> TAKE p \in Launch
  <2>1. launch[p] \in LaunchState
    BY DEF IInv, TypeOK
  <2>2. CASE srv[s].rpc = p
    BY <1>1, <2>1, <2>2, RpcDestroyFields
  <2>3. CASE srv[s].rpc # p
    BY <1>1, <2>1, <2>3 DEF LaunchState
  <2> QED
    BY <2>2, <2>3
<1>5. TypeOK'
  <2>1. freeTimer' \in [Addr -> Nat]
    BY <1>2 DEF IInv, TypeOK
  <2> QED
    BY <1>2, <1>3, <2>1 DEF IInv, TypeOK
<1>6. /\ freeTimer[s] = 1
      /\ s \in alive
      /\ srv[s].pid = NULL
      /\ \A f \in Filetype : slot[f] # s
      /\ s \notin inShutdown
  BY <1>2 DEF IInv, TypeOK, TimersSound, SlotsUsable, PidsOwned
<1>7. SlotsWhole' /\ SlotsUsable' /\ TimersSound'
  BY <1>2, <1>6 DEF IInv, TypeOK, SlotsWhole, SlotsUsable, TimersSound
<1>8. NoOrphanProcess' /\ PidsOwned'
  BY <1>2, <1>4, <1>6 DEF IInv, TypeOK, Server, NoOrphanProcess, PidsOwned
<1>9. TableLeadsToLiveServer'
  BY <1>2, <1>4, <1>6 DEF IInv, TypeOK, TableLeadsToLiveServer
<1>10. RpcsOwned'
  BY <1>2, <1>4, <1>6 DEF IInv, TypeOK, Server, RpcsOwned
<1>11. Handshake' /\ ShutdownSilencesFeatures'
  BY <1>2, <1>4 DEF IInv, TypeOK, Server, Handshake, ShutdownSilencesFeatures
<1> QED
  BY <1>5, <1>7, <1>8, <1>9, <1>10, <1>11 DEF IInv

LEMMA UseServerIInv ==
  ASSUME IInv, NoSharing, NEW ft \in Filetype, UseServer(ft)
  PROVE  IInv'
<1> USE LspServerAssumption
<1> DEFINE s == slot[ft]
           p == srv[s].rpc
<1>1. /\ Returned(ft) = s
      /\ s \in alive \ inShutdown
      /\ p \in Launch
      /\ p = srv[s].pid
      /\ launch[p].ready
      /\ launch[p].owner = s
  <2>1. s \in Addr /\ Resolve(ft) = s /\ RefServer(s) = NULL
    BY DEF IInv, TypeOK, UseServer, Returned, Initialised, SlotsWhole, Resolve,
           RefServer, NoSharing, Server
  <2>2. Returned(ft) = s /\ ~srv[s].startupShutdown /\ srv[s].pid # NULL
    BY <2>1 DEF UseServer, Returned
  <2> QED
    BY <2>1, <2>2 DEF IInv, TypeOK, Server, SlotsUsable, PidsOwned, Handshake
<1>2. launch' = [launch EXCEPT ![p] = CallFull(launch[p], "feature")]
  BY <1>1 DEF UseServer
<1>3. launch' \in [Launch -> LaunchState]
  BY <1>1, <1>2, CallFullFields DEF IInv, TypeOK, Call
<1>4. TypeOK'
  BY <1>3 DEF IInv, TypeOK, UseServer
<1>5. \A q \in Launch :
        /\ launch'[q].proc = launch[q].proc
        /\ launch'[q].owner = launch[q].owner
        /\ launch'[q].client = launch[q].client
        /\ launch'[q].inTable = launch[q].inTable
        /\ launch'[q].ready = launch[q].ready
        /\ launch'[q].pending \subseteq launch[q].pending \cup {"feature"}
        /\ launch'[q].pending \cup launch'[q].failed =
             launch[q].pending \cup launch[q].failed \cup (IF q = p THEN {"feature"} ELSE {})
  BY <1>1, <1>2, CallFullFields DEF IInv, TypeOK, Call
<1>6. SlotsWhole' /\ SlotsUsable' /\ TimersSound'
  BY DEF IInv, UseServer, SlotsWhole, SlotsUsable, TimersSound
<1>7. /\ UNCHANGED <<slot, inShutdown, alive, srv, freeTimer>>
      /\ \A a \in Addr : /\ srv[a].pid \in Launch \cup {NULL}
                         /\ srv[a].rpc \in Launch \cup {NULL}
      /\ alive \subseteq Addr
  BY DEF IInv, TypeOK, Server, UseServer
<1>8. NoOrphanProcess'
  BY <1>5, <1>7 DEF IInv, NoOrphanProcess
<1>9. PidsOwned'
  BY <1>5, <1>7 DEF IInv, PidsOwned
<1>10. TableLeadsToLiveServer'
  BY <1>5, <1>7 DEF IInv, TableLeadsToLiveServer
<1>11. RpcsOwned'
  BY <1>5, <1>7 DEF IInv, RpcsOwned
<1>12. Handshake'
  <2>1. ASSUME NEW q \in Launch
        PROVE  /\ launch'[q].ready => "initialize" \notin launch'[q].pending
               /\ "feature" \in launch'[q].pending \cup launch'[q].failed => launch'[q].ready
               /\ launch'[q].pending \cup launch'[q].failed # {} => launch'[q].owner \in Addr
    <3>1. CASE q = p
      BY <1>1, <1>5, <1>7, <3>1 DEF IInv, Handshake
    <3>2. CASE q # p
      BY <1>5, <3>2 DEF IInv, Handshake
    <3> QED
      BY <3>1, <3>2
  <2>2. \A a \in Addr :
          srv'[a].pid # NULL /\ ~srv'[a].startupShutdown => launch'[srv'[a].pid].ready
    BY <1>5, <1>7 DEF IInv, Handshake
  <2> QED
    BY <2>1, <2>2 DEF Handshake
<1>13. ShutdownSilencesFeatures'
  <2>1. ASSUME NEW q \in Launch,
               "feature" \in launch'[q].pending \cup launch'[q].failed,
               launch'[q].owner \in inShutdown', launch'[q].inTable
        PROVE  srv'[launch'[q].owner].startupShutdown
    <3>1. q # p
      BY <1>1, <1>5, <1>7, <2>1 DEF IInv, SlotsUsable
    <3> QED
      BY <1>5, <1>7, <2>1, <3>1 DEF IInv, ShutdownSilencesFeatures
  <2> QED
    BY <2>1 DEF ShutdownSilencesFeatures
<1> QED
  BY <1>4, <1>6, <1>8, <1>9, <1>10, <1>11, <1>12, <1>13 DEF IInv

-------------------------------------------------------------------------------
(* Replies and failures of calls.                                            *)

LEMMA DeliverFailureIInv ==
  ASSUME IInv, NEW p \in Launch, NEW call \in Call, DeliverFailure(p, call)
  PROVE  IInv'
<1> USE LspServerAssumption
<1> DEFINE s == launch[p].owner
<1>1. /\ launch' = [launch EXCEPT ![p].failed = @ \ {call}]
      /\ UNCHANGED <<slot, inShutdown, alive, srv, freeTimer, quitting, stops>>
  BY DEF DeliverFailure, CallCb, InitializeCb, ShutdownCb
<1>2. s \in Addr
  BY DEF IInv, DeliverFailure, Handshake
<1>3. terminated' \subseteq Launch
  BY <1>2 DEF IInv, TypeOK, Server, DeliverFailure, CallCb, InitializeCb, ShutdownCb, KillServer
<1>4. killTimer' \in [Addr -> Nat]
  BY <1>2 DEF IInv, TypeOK, DeliverFailure, CallCb, InitializeCb, ShutdownCb
<1>5. launch' \in [Launch -> LaunchState]
  BY <1>1 DEF IInv, TypeOK, LaunchState
<1>6. TypeOK'
  BY <1>1, <1>3, <1>4, <1>5 DEF IInv, TypeOK
<1>7. \A q \in Launch :
        /\ launch'[q].proc = launch[q].proc
        /\ launch'[q].owner = launch[q].owner
        /\ launch'[q].client = launch[q].client
        /\ launch'[q].inTable = launch[q].inTable
        /\ launch'[q].ready = launch[q].ready
        /\ launch'[q].pending = launch[q].pending
        /\ launch'[q].failed \subseteq launch[q].failed
  BY <1>1 DEF IInv, TypeOK, LaunchState
<1>8. SlotsWhole' /\ SlotsUsable' /\ TimersSound'
  BY <1>1 DEF IInv, SlotsWhole, SlotsUsable, TimersSound
<1>9. NoOrphanProcess' /\ PidsOwned'
  BY <1>1, <1>7 DEF IInv, TypeOK, Server, NoOrphanProcess, PidsOwned
<1>10. TableLeadsToLiveServer' /\ RpcsOwned'
  BY <1>1, <1>7 DEF IInv, TypeOK, Server, TableLeadsToLiveServer, RpcsOwned
<1>11. Handshake' /\ ShutdownSilencesFeatures'
  BY <1>1, <1>7 DEF IInv, TypeOK, Server, Handshake, ShutdownSilencesFeatures
<1> QED
  BY <1>6, <1>8, <1>9, <1>10, <1>11 DEF IInv

LEMMA DeliverReplyIInv ==
  ASSUME IInv, NEW p \in Launch, NEW call \in Call, NEW ok \in BOOLEAN,
         DeliverReply(p, call, ok)
  PROVE  IInv'
<1> USE LspServerAssumption
<1> PICK s : s = launch[p].owner
  OBVIOUS
<1> DEFINE init == call = "initialize" /\ ok
<1>1. UNCHANGED <<slot, inShutdown, alive, freeTimer, quitting, stops>>
  BY DEF DeliverReply
<1>2. /\ call \in launch[p].pending
      /\ launch[p].client = "open"
      /\ launch[p].inTable
      /\ s \in alive
      /\ s \in Addr
      /\ srv[s].rpc = p
  BY DEF IInv, TypeOK, DeliverReply, TableLeadsToLiveServer
<1>3. terminated' \subseteq Launch
  BY <1>2 DEF IInv, TypeOK, Server, DeliverReply, CallCb, InitializeCb, ShutdownCb, KillServer
<1>4. killTimer' \in [Addr -> Nat]
  BY <1>2 DEF IInv, TypeOK, DeliverReply, CallCb, InitializeCb, ShutdownCb
<1>5. PICK answered : answered = [launch EXCEPT ![p].pending = @ \ {call}]
  OBVIOUS
<1>6. /\ answered \in [Launch -> LaunchState]
      /\ answered[p].pending = launch[p].pending \ {call}
  BY <1>5 DEF IInv, TypeOK, LaunchState
<1>7. \A q \in Launch :
        /\ answered[q].proc = launch[q].proc
        /\ answered[q].owner = launch[q].owner
        /\ answered[q].client = launch[q].client
        /\ answered[q].inTable = launch[q].inTable
        /\ answered[q].ready = launch[q].ready
        /\ answered[q].failed = launch[q].failed
        /\ answered[q].pending \subseteq launch[q].pending
  BY <1>5 DEF IInv, TypeOK, LaunchState
<1>8. CASE ~init
  <2>1. launch' = answered /\ UNCHANGED srv
    BY <1>5, <1>8 DEF DeliverReply, CallCb, InitializeCb, ShutdownCb
  <2>2. TypeOK'
    BY <1>1, <1>3, <1>4, <1>6, <2>1 DEF IInv, TypeOK
  <2>3. SlotsWhole' /\ SlotsUsable' /\ TimersSound'
    BY <1>1, <2>1 DEF IInv, SlotsWhole, SlotsUsable, TimersSound
  <2>4. NoOrphanProcess' /\ PidsOwned'
    BY <1>1, <1>7, <2>1 DEF IInv, TypeOK, Server, NoOrphanProcess, PidsOwned
  <2>5. TableLeadsToLiveServer' /\ RpcsOwned'
    BY <1>1, <1>7, <2>1 DEF IInv, TypeOK, Server, TableLeadsToLiveServer, RpcsOwned
  <2>6. Handshake' /\ ShutdownSilencesFeatures'
    BY <1>1, <1>7, <2>1 DEF IInv, TypeOK, Server, Handshake, ShutdownSilencesFeatures
  <2> QED
    BY <2>2, <2>3, <2>4, <2>5, <2>6 DEF IInv
<1>9. CASE init
  <2>1. /\ launch' = [answered EXCEPT ![p].ready = TRUE]
        /\ srv' = [srv EXCEPT ![s].startupShutdown = FALSE]
    BY <1>5, <1>9 DEF DeliverReply, CallCb, InitializeCb, Call
  <2>14. launch' = [answered EXCEPT ![p] = [answered[p] EXCEPT !.ready = TRUE]]
    BY <2>1
  <2>15. srv' = [srv EXCEPT ![s] = [srv[s] EXCEPT !.startupShutdown = FALSE]]
    BY <2>1
  <2>12. launch' \in [Launch -> LaunchState]
    BY <1>6, <2>14, ReadyField
  <2>2. \A q \in Launch :
          /\ launch'[q].proc = launch[q].proc
          /\ launch'[q].owner = launch[q].owner
          /\ launch'[q].client = launch[q].client
          /\ launch'[q].inTable = launch[q].inTable
          /\ launch'[q].failed = launch[q].failed
          /\ launch'[q].pending \subseteq launch[q].pending
    BY <1>6, <1>7, <2>1 DEF LaunchState
  <2>3. /\ launch'[p].ready
        /\ "initialize" \notin launch'[p].pending
        /\ \A q \in Launch : q # p => launch'[q].ready = launch[q].ready
    BY <1>6, <1>7, <1>9, <2>1 DEF LaunchState
  <2>13. srv' \in [Addr -> Server]
    BY <1>2, <2>15, StartupShutdownField DEF IInv, TypeOK
  <2>4. \A a \in Addr :
          /\ srv'[a].pid = srv[a].pid
          /\ srv'[a].rpc = srv[a].rpc
          /\ srv'[a].referenced = srv[a].referenced
          /\ srv'[a].filetype = srv[a].filetype
          /\ a # s => srv'[a].startupShutdown = srv[a].startupShutdown
    <3> TAKE a \in Addr
    <3>1. srv[a] \in Server
      BY DEF IInv, TypeOK
    <3>2. CASE a = s
      BY <1>2, <2>15, <3>1, <3>2, StartupShutdownField DEF IInv, TypeOK
    <3>3. CASE a # s
      BY <2>15, <3>1, <3>3 DEF IInv, TypeOK
    <3> QED
      BY <3>2, <3>3
  <2>5. TypeOK'
    BY <1>1, <1>3, <1>4, <2>12, <2>13 DEF IInv, TypeOK
  <2>6. SlotsWhole' /\ SlotsUsable' /\ TimersSound'
    BY <1>1, <2>4 DEF IInv, TypeOK, SlotsWhole, SlotsUsable, TimersSound
  <2>7. NoOrphanProcess' /\ PidsOwned'
    BY <1>1, <2>2, <2>4 DEF IInv, TypeOK, Server, NoOrphanProcess, PidsOwned
  <2>8. TableLeadsToLiveServer' /\ RpcsOwned'
    BY <1>1, <2>2, <2>4 DEF IInv, TypeOK, Server, TableLeadsToLiveServer, RpcsOwned
  <2>9. "feature" \notin launch[p].pending \cup launch[p].failed
    BY <1>2, <1>9 DEF IInv, Handshake
  <2>10. Handshake'
    <3>1. \A q \in Launch :
            /\ launch'[q].ready => "initialize" \notin launch'[q].pending
            /\ "feature" \in launch'[q].pending \cup launch'[q].failed => launch'[q].ready
            /\ launch'[q].pending \cup launch'[q].failed # {} => launch'[q].owner \in Addr
      BY <2>2, <2>3, <2>9 DEF IInv, Handshake
    <3>2. ASSUME NEW a \in Addr, srv'[a].pid # NULL, ~srv'[a].startupShutdown
          PROVE  launch'[srv'[a].pid].ready
      BY <1>2, <2>3, <2>4, <3>2 DEF IInv, TypeOK, Server, Handshake, PidsOwned
    <3> QED
      BY <3>1, <3>2 DEF Handshake
  <2>11. ShutdownSilencesFeatures'
    <3>1. ASSUME NEW q \in Launch,
                 "feature" \in launch'[q].pending \cup launch'[q].failed,
                 launch'[q].owner \in inShutdown', launch'[q].inTable
          PROVE  srv'[launch'[q].owner].startupShutdown
      <4>1. q # p /\ launch[q].inTable /\ launch[q].owner = launch'[q].owner
        BY <2>2, <2>9, <3>1
      <4>2. launch[q].owner # s /\ launch[q].owner \in Addr
        BY <1>2, <4>1 DEF IInv, TypeOK, TableLeadsToLiveServer
      <4> QED
        BY <1>1, <2>2, <2>4, <3>1, <4>1, <4>2 DEF IInv, ShutdownSilencesFeatures
    <3> QED
      BY <3>1 DEF ShutdownSilencesFeatures
  <2> QED
    BY <2>5, <2>6, <2>7, <2>8, <2>10, <2>11 DEF IInv
<1> QED
  BY <1>8, <1>9

-------------------------------------------------------------------------------
(* server_get_or_start_for_ft().                                             *)

LEMMA GetServerIInv ==
  ASSUME IInv, NoSharing, NEW ft \in Filetype, GetServer(ft)
  PROVE  IInv'
<1> USE LspServerAssumption
<1> PICK s : s = slot[ft]
  OBVIOUS
<1>1. /\ s \in Addr
      /\ Resolve(ft) = s
      /\ RefServer(s) = NULL
  BY DEF IInv, TypeOK, GetServer, Initialised, SlotsWhole, Resolve,
         RefServer, NoSharing, Server
<1>2. UNCHANGED <<slot, inShutdown, alive, killTimer, freeTimer, quitting, stops>>
  BY DEF GetServer
<1>3. /\ Startable(s)
      /\ \/ /\ srv' = [srv EXCEPT ![s] = [srv[s] EXCEPT !.notUsed = TRUE]]
            /\ UNCHANGED <<launch, terminated>>
         \/ \E p \in Launch : SpawnOk(s, srv[s], p, srv, launch)
         \/ SpawnFails(s, srv[s], srv, launch)
  BY <1>1 DEF GetServer, Startable
<1>4. /\ s \in alive \ inShutdown
      /\ srv[s] \in Server
      /\ srv[s].filetype = ft
      /\ slot[srv[s].filetype] = s
      /\ freeTimer[s] = 0
      /\ srv[s].pid = NULL
      /\ srv[s].rpc = NULL
  BY <1>1, <1>3 DEF IInv, TypeOK, SlotsUsable, RpcsOwned, Startable
<1>5. \A p \in Launch : launch[p].proc # "none" => launch[p].owner # s
  BY <1>4 DEF IInv, NoOrphanProcess
<1>6. \A p \in Launch : launch[p].inTable => launch[p].owner # s
  BY <1>4 DEF IInv, TableLeadsToLiveServer
<1>7. ASSUME NEW r \in Server,
             r.pid = NULL, r.rpc = NULL,
             r.referenced = srv[s].referenced,
             r.filetype = srv[s].filetype,
             r.startupShutdown = srv[s].startupShutdown,
             srv' = [srv EXCEPT ![s] = r],
             UNCHANGED <<launch, terminated>>
      PROVE  IInv'
  <2>1. srv' \in [Addr -> Server]
    BY <1>1, <1>7 DEF IInv, TypeOK
  <2>2. \A a \in Addr :
          /\ srv'[a].pid = srv[a].pid
          /\ srv'[a].rpc = srv[a].rpc
          /\ srv'[a].referenced = srv[a].referenced
          /\ srv'[a].filetype = srv[a].filetype
          /\ srv'[a].startupShutdown = srv[a].startupShutdown
    BY <1>1, <1>4, <1>7 DEF IInv, TypeOK
  <2>3. TypeOK'
    BY <1>2, <1>7, <2>1 DEF IInv, TypeOK
  <2>4. SlotsWhole' /\ SlotsUsable' /\ TimersSound'
    BY <1>2, <2>2 DEF IInv, TypeOK, SlotsWhole, SlotsUsable, TimersSound
  <2>5. NoOrphanProcess' /\ PidsOwned'
    BY <1>2, <1>7, <2>2 DEF IInv, TypeOK, NoOrphanProcess, PidsOwned
  <2>6. TableLeadsToLiveServer' /\ RpcsOwned'
    BY <1>2, <1>7, <2>2 DEF IInv, TypeOK, TableLeadsToLiveServer, RpcsOwned
  <2>7. Handshake' /\ ShutdownSilencesFeatures'
    BY <1>2, <1>7, <2>2 DEF IInv, TypeOK, Handshake, ShutdownSilencesFeatures
  <2> QED
    BY <2>3, <2>4, <2>5, <2>6, <2>7 DEF IInv
<1>8. ASSUME NEW p \in Launch, SpawnOk(s, srv[s], p, srv, launch)
      PROVE  IInv'
  <2>1. /\ launch[p].proc = "none"
        /\ ~launch[p].inTable
        /\ \A a \in Addr : srv[a].pid # p
        /\ \A a \in alive : srv[a].rpc # p
    BY <1>8 DEF SpawnOk, FreeLaunch, IInv, PidsOwned, RpcsOwned
  <2>2. /\ srv' \in [Addr -> Server]
        /\ srv'[s].pid = p
        /\ srv'[s].rpc = p
        /\ srv'[s].startupShutdown
        /\ srv'[s].referenced = NULL
        /\ srv'[s].filetype = ft
    <3> DEFINE r == [srv[s] EXCEPT !.pid = p, !.rpc = p, !.startupShutdown = TRUE]
    <3>1. /\ r \in Server
          /\ r.pid = p /\ r.rpc = p
          /\ r.startupShutdown
          /\ r.referenced = srv[s].referenced
          /\ r.filetype = srv[s].filetype
      BY <1>4, SpawnedFields, ZenonT(60)
    <3>2. srv' = [srv EXCEPT ![s] = r]
      BY <1>8 DEF SpawnOk
    <3>3. srv \in [Addr -> Server] /\ srv[s].referenced = NULL
      BY <1>1 DEF IInv, TypeOK, SlotsWhole
    <3> HIDE DEF r
    <3>4. srv' \in [Addr -> Server] /\ srv'[s] = r
      BY <1>1, <3>1, <3>2, <3>3
    <3> QED
      BY <1>4, <3>1, <3>3, <3>4
  <2>3. \A a \in Addr \ {s} : srv'[a] = srv[a]
    BY <1>8 DEF IInv, TypeOK, SpawnOk
  <2>4. launch' \in [Launch -> LaunchState] /\ launch'[p] = Started(s)
    BY <1>1, <1>8, StartedFields DEF IInv, TypeOK, SpawnOk
  <2>5. \A q \in Launch \ {p} : launch'[q] = launch[q]
    BY <1>8 DEF IInv, TypeOK, SpawnOk
  <2>6. TypeOK'
    BY <1>2, <1>8, <2>2, <2>4 DEF IInv, TypeOK, SpawnOk
  <2>7. SlotsWhole' /\ SlotsUsable' /\ TimersSound'
    BY <1>1, <1>2, <1>4, <2>2, <2>3 DEF IInv, TypeOK, SlotsWhole, SlotsUsable, TimersSound
  <2>8. NoOrphanProcess'
    BY <1>1, <1>2, <1>4, <1>5, <2>2, <2>3, <2>4, <2>5, StartedFields
       DEF IInv, TypeOK, NoOrphanProcess
  <2>9. PidsOwned'
    BY <1>1, <1>2, <1>4, <2>1, <2>2, <2>3, <2>4, <2>5, StartedFields, SMTT(30)
       DEF IInv, TypeOK, Server, PidsOwned
  <2>10. TableLeadsToLiveServer'
    BY <1>1, <1>2, <1>4, <1>6, <2>2, <2>3, <2>4, <2>5, StartedFields
       DEF IInv, TypeOK, TableLeadsToLiveServer
  <2>11. RpcsOwned'
    BY <1>1, <1>2, <1>4, <2>1, <2>2, <2>3, <2>4, <2>5, StartedFields
       DEF IInv, TypeOK, Server, RpcsOwned
  <2>12. Handshake'
    <3>1. \A q \in Launch :
            /\ launch'[q].ready => "initialize" \notin launch'[q].pending
            /\ "feature" \in launch'[q].pending \cup launch'[q].failed => launch'[q].ready
            /\ launch'[q].pending \cup launch'[q].failed # {} => launch'[q].owner \in Addr
      BY <1>1, <2>4, <2>5, StartedFields DEF IInv, Handshake
    <3>2. ASSUME NEW a \in Addr, srv'[a].pid # NULL, ~srv'[a].startupShutdown
          PROVE  launch'[srv'[a].pid].ready
      <4>1. a # s /\ srv'[a] = srv[a] /\ srv[a].pid # p
        BY <2>1, <2>2, <2>3, <3>2
      <4>2. srv[a].pid \in Launch \ {p}
        BY <3>2, <4>1 DEF IInv, TypeOK, Server
      <4> QED
        BY <2>5, <3>2, <4>1, <4>2 DEF IInv, Handshake
    <3> QED
      BY <3>1, <3>2 DEF Handshake
  <2>13. ShutdownSilencesFeatures'
    BY <1>1, <1>2, <1>4, <2>2, <2>3, <2>4, <2>5, StartedFields
       DEF IInv, TypeOK, ShutdownSilencesFeatures
  <2> QED
    BY <2>6, <2>7, <2>8, <2>9, <2>10, <2>11, <2>12, <2>13 DEF IInv
<1>9. ASSUME SpawnFails(s, srv[s], srv, launch)
      PROVE  IInv'
  <2> DEFINE r == [srv[s] EXCEPT !.restarts = GaveUp]
  <2>1. /\ r \in Server
        /\ r.pid = NULL /\ r.rpc = NULL
        /\ r.referenced = srv[s].referenced
        /\ r.filetype = srv[s].filetype
        /\ r.startupShutdown = srv[s].startupShutdown
    BY <1>4, RestartsField, GaveUpNat
  <2>2. srv' = [srv EXCEPT ![s] = r] /\ UNCHANGED <<launch, terminated>>
    BY <1>9 DEF SpawnFails
  <2> HIDE DEF r
  <2> QED
    BY <1>7, <2>1, <2>2
<1>10. ASSUME srv' = [srv EXCEPT ![s] = [srv[s] EXCEPT !.notUsed = TRUE]],
              UNCHANGED <<launch, terminated>>
       PROVE  IInv'
  <2> DEFINE r == [srv[s] EXCEPT !.notUsed = TRUE]
  <2>1. /\ r \in Server
        /\ r.pid = NULL /\ r.rpc = NULL
        /\ r.referenced = srv[s].referenced
        /\ r.filetype = srv[s].filetype
        /\ r.startupShutdown = srv[s].startupShutdown
    BY <1>4, NotUsedField
  <2>2. srv' = [srv EXCEPT ![s] = r]
    BY <1>10
  <2> HIDE DEF r
  <2> QED
    BY <1>7, <1>10, <2>1, <2>2
<1> QED
  BY <1>3, <1>8, <1>9, <1>10

-------------------------------------------------------------------------------
(* process_stopped().                                                        *)

(* The parts of process_stopped() that concern the struct and the launch     *)
(* that ended, whichever way it goes on.                                     *)
StoppedSrv(p) == [srv EXCEPT ![launch[p].owner].pid = NULL]
ReapedLaunch(p) == [launch EXCEPT ![p].proc = "none"]

LEMMA ReapedFields ==
  ASSUME IInv, NEW p \in Launch, launch[p].proc = "exited"
  PROVE  LET s == launch[p].owner
             stopped == StoppedSrv(p)
             reaped == ReapedLaunch(p) IN
         /\ s \in alive
         /\ s \in Addr
         /\ srv[s].pid = p
         /\ srv[s].rpc = p
         /\ launch[p].inTable
         /\ freeTimer[s] = 0
         /\ stopped \in [Addr -> Server]
         /\ stopped[s].pid = NULL
         /\ stopped[s].rpc = p
         /\ stopped[s].filetype = srv[s].filetype
         /\ stopped[s].referenced = NULL
         /\ stopped[s].startupShutdown = srv[s].startupShutdown
         /\ \A a \in Addr \ {s} : stopped[a] = srv[a]
         /\ reaped \in [Launch -> LaunchState]
         /\ reaped[p] = [launch[p] EXCEPT !.proc = "none"]
         /\ \A q \in Launch \ {p} : reaped[q] = launch[q]
<1> PICK s : s = launch[p].owner
  OBVIOUS
<1> PICK stopped : stopped = StoppedSrv(p)
  OBVIOUS
<1> PICK reaped : reaped = ReapedLaunch(p)
  OBVIOUS
<1>1. s \in alive /\ srv[s].pid = p
  BY DEF IInv, NoOrphanProcess
<1>2. s \in Addr
  BY <1>1 DEF IInv, TypeOK
<1>3. srv[s].rpc = p /\ launch[p].inTable
  BY <1>1, <1>2, LspServerAssumption DEF IInv, PidsOwned, RpcsOwned
<1>4. freeTimer[s] = 0
  BY <1>1, <1>2, LspServerAssumption DEF IInv, TypeOK, TimersSound
<1>5. srv \in [Addr -> Server] /\ srv[s] \in Server /\ srv[s].referenced = NULL
  BY <1>2 DEF IInv, TypeOK, SlotsWhole
<1>6. stopped = [srv EXCEPT ![s] = [srv[s] EXCEPT !.pid = NULL]]
  BY DEF StoppedSrv
<1>7. stopped \in [Addr -> Server] /\ stopped[s] = [srv[s] EXCEPT !.pid = NULL]
  BY <1>2, <1>5, <1>6, PidField
<1>8. \A a \in Addr \ {s} : stopped[a] = srv[a]
  BY <1>5, <1>6
<1>9. launch \in [Launch -> LaunchState] /\ launch[p] \in LaunchState
  BY DEF IInv, TypeOK
<1>10. reaped = [launch EXCEPT ![p] = [launch[p] EXCEPT !.proc = "none"]]
  BY DEF ReapedLaunch
<1>11. /\ reaped \in [Launch -> LaunchState]
       /\ reaped[p] = [launch[p] EXCEPT !.proc = "none"]
       /\ \A q \in Launch \ {p} : reaped[q] = launch[q]
  BY <1>9, <1>10, ProcField
<1> QED
  BY <1>1, <1>2, <1>3, <1>4, <1>5, <1>7, <1>8, <1>11, PidField

LEMMA NormalStopIInv ==
  ASSUME IInv, NEW p \in Launch, ProcessStopped(p), launch[p].owner \in inShutdown
  PROVE  IInv'
<1> USE LspServerAssumption
<1> PICK s : s = launch[p].owner
  OBVIOUS
<1> PICK reaped : reaped = ReapedLaunch(p)
  OBVIOUS
<1> PICK stopped : stopped = StoppedSrv(p)
  OBVIOUS
<1>1. launch[p].proc = "exited"
  BY DEF ProcessStopped
<1>2. /\ inShutdown' = inShutdown \ {s}
      /\ alive' = alive \ {s}
      /\ srv' = stopped
      /\ launch' = [reaped EXCEPT ![srv[s].rpc] = RpcDestroy(@)]
      /\ UNCHANGED <<slot, freeTimer, terminated, killTimer, quitting, stops>>
  BY DEF ProcessStopped, StoppedSrv, ReapedLaunch
<1>3. /\ s \in alive
      /\ s \in Addr
      /\ srv[s].pid = p
      /\ srv[s].rpc = p
      /\ freeTimer[s] = 0
      /\ stopped \in [Addr -> Server]
      /\ stopped[s].pid = NULL
      /\ stopped[s].referenced = NULL
      /\ \A a \in Addr \ {s} : stopped[a] = srv[a]
      /\ reaped \in [Launch -> LaunchState]
      /\ reaped[p] = [launch[p] EXCEPT !.proc = "none"]
      /\ \A q \in Launch \ {p} : reaped[q] = launch[q]
  BY <1>1, ReapedFields
<1>4. /\ reaped[p] \in LaunchState
      /\ reaped[p].proc = "none"
      /\ reaped[p].owner = s
      /\ reaped[p].ready = launch[p].ready
      /\ reaped[p].pending = launch[p].pending
      /\ reaped[p].failed = launch[p].failed
  <2>1. launch[p] \in LaunchState
    BY DEF IInv, TypeOK
  <2> QED
    BY <1>3, <2>1, ProcField
<1>5. launch' = [reaped EXCEPT ![p] = RpcDestroy(reaped[p])]
  BY <1>2, <1>3
<1>6. /\ launch' \in [Launch -> LaunchState]
      /\ launch'[p].proc = "none"
      /\ launch'[p].owner = s
      /\ ~launch'[p].inTable
      /\ launch'[p].client = "closed"
      /\ launch'[p].ready = launch[p].ready
      /\ launch'[p].pending = {}
      /\ launch'[p].failed = launch[p].failed \cup launch[p].pending
  <2>1. launch'[p] = RpcDestroy(reaped[p])
    BY <1>3, <1>5
  <2>2. launch' \in [Launch -> LaunchState]
    BY <1>3, <1>4, <1>5, RpcDestroyFields
  <2> DEFINE d == RpcDestroy(reaped[p])
  <2>3. /\ d.proc = "none" /\ d.owner = s /\ d.inTable = FALSE
        /\ d.client = "closed" /\ d.ready = launch[p].ready
        /\ d.pending = {} /\ d.failed = launch[p].failed \cup launch[p].pending
    BY <1>4, RpcDestroyFields
  <2> HIDE DEF d
  <2> QED
    BY <2>1, <2>2, <2>3 DEF d
<1>7. \A q \in Launch \ {p} : launch'[q] = launch[q]
  BY <1>3, <1>5
<1>8. TypeOK'
  BY <1>2, <1>3, <1>6 DEF IInv, TypeOK
<1>9. SlotsWhole' /\ SlotsUsable' /\ TimersSound'
  BY <1>2, <1>3 DEF IInv, TypeOK, SlotsWhole, SlotsUsable, TimersSound
<1>10. NoOrphanProcess'
  BY <1>2, <1>3, <1>6, <1>7 DEF IInv, TypeOK, NoOrphanProcess
<1>11. PidsOwned'
  <2>1. ASSUME NEW a \in Addr, stopped[a].pid # NULL
        PROVE  /\ a # s
               /\ stopped[a] = srv[a]
               /\ srv[a].pid \in Launch \ {p}
               /\ a \in alive
               /\ launch[srv[a].pid].proc # "none"
               /\ launch[srv[a].pid].owner = a
               /\ srv[a].rpc = srv[a].pid
    BY <1>3, <2>1 DEF IInv, TypeOK, Server, PidsOwned
  <2>2. \A a \in inShutdown' : stopped[a].pid # NULL
    BY <1>2, <1>3 DEF IInv, TypeOK, PidsOwned
  <2> QED
    BY <1>2, <1>7, <2>1, <2>2 DEF PidsOwned
<1>12. TableLeadsToLiveServer'
  BY <1>2, <1>3, <1>6, <1>7 DEF IInv, TypeOK, TableLeadsToLiveServer
<1>13. RpcsOwned'
  <2>1. ASSUME NEW a \in alive', stopped[a].rpc # NULL
        PROVE  /\ a # s
               /\ a \in alive
               /\ stopped[a] = srv[a]
               /\ srv[a].rpc \in Launch \ {p}
               /\ launch[srv[a].rpc].inTable
               /\ launch[srv[a].rpc].owner = a
               /\ srv[a].pid # NULL \/ freeTimer[a] # 0
    BY <1>2, <1>3, <2>1 DEF IInv, TypeOK, Server, RpcsOwned
  <2> QED
    BY <1>2, <1>7, <2>1 DEF RpcsOwned
<1>14. Handshake'
  <2>1. \A q \in Launch :
          /\ launch'[q].ready => "initialize" \notin launch'[q].pending
          /\ "feature" \in launch'[q].pending \cup launch'[q].failed => launch'[q].ready
          /\ launch'[q].pending \cup launch'[q].failed # {} => launch'[q].owner \in Addr
    BY <1>3, <1>6, <1>7 DEF IInv, Handshake
  <2>2. ASSUME NEW a \in Addr, stopped[a].pid # NULL, ~stopped[a].startupShutdown
        PROVE  launch'[stopped[a].pid].ready
    <3>1. a # s /\ stopped[a] = srv[a] /\ srv[a].pid \in Launch \ {p}
      BY <1>3, <2>2 DEF IInv, TypeOK, Server, PidsOwned
    <3> QED
      BY <1>7, <2>2, <3>1 DEF IInv, Handshake
  <2> QED
    BY <1>2, <2>1, <2>2 DEF Handshake
<1>15. ShutdownSilencesFeatures'
  BY <1>2, <1>3, <1>6, <1>7 DEF IInv, TypeOK, ShutdownSilencesFeatures
<1> QED
  BY <1>8, <1>9, <1>10, <1>11, <1>12, <1>13, <1>14, <1>15 DEF IInv

LEMMA CrashIInv ==
  ASSUME IInv, NEW p \in Launch, ProcessStopped(p), launch[p].owner \notin inShutdown
  PROVE  IInv'
<1> USE LspServerAssumption
<1> PICK s : s = launch[p].owner
  OBVIOUS
<1> PICK stopped : stopped = StoppedSrv(p)
  OBVIOUS
<1> PICK reaped : reaped = ReapedLaunch(p)
  OBVIOUS
<1> PICK ft : ft = srv[s].filetype
  OBVIOUS
<1> PICK fresh : fresh = NewServer(ft, srv[s].restarts + 1)
  OBVIOUS
<1>1. launch[p].proc = "exited"
  BY DEF ProcessStopped
<1>2. /\ s \in alive
      /\ s \in Addr
      /\ srv[s].pid = p
      /\ srv[s].rpc = p
      /\ launch[p].inTable
      /\ freeTimer[s] = 0
      /\ stopped \in [Addr -> Server]
      /\ stopped[s].pid = NULL
      /\ stopped[s].rpc = p
      /\ stopped[s].referenced = NULL
      /\ stopped[s].startupShutdown = srv[s].startupShutdown
      /\ \A a \in Addr \ {s} : stopped[a] = srv[a]
      /\ reaped \in [Launch -> LaunchState]
      /\ reaped[p] = [launch[p] EXCEPT !.proc = "none"]
      /\ \A q \in Launch \ {p} : reaped[q] = launch[q]
  BY <1>1, ReapedFields
<1>3. /\ srv[s] \in Server
      /\ ft \in Filetype
      /\ s \notin inShutdown
      /\ slot[ft] = s
      /\ Initialised
  BY <1>1, <1>2 DEF IInv, TypeOK, Server, NoOrphanProcess, Initialised
<1>4. /\ fresh \in Server
      /\ fresh.pid = NULL
      /\ fresh.rpc = NULL
      /\ fresh.referenced = NULL
      /\ fresh.filetype = ft
  <2>1. srv[s].restarts + 1 \in Nat
    BY <1>3 DEF Server
  <2> QED
    BY <1>3, <2>1, NewServerType
<1>5. /\ reaped[p].proc = "none"
      /\ \A q \in Launch :
           /\ reaped[q].client = launch[q].client
           /\ reaped[q].pending = launch[q].pending
           /\ reaped[q].failed = launch[q].failed
           /\ reaped[q].inTable = launch[q].inTable
           /\ reaped[q].ready = launch[q].ready
           /\ reaped[q].owner = launch[q].owner
  <2>1. launch[p] \in LaunchState
    BY DEF IInv, TypeOK
  <2>2. /\ reaped[p].proc = "none"
        /\ reaped[p].client = launch[p].client
        /\ reaped[p].pending = launch[p].pending
        /\ reaped[p].failed = launch[p].failed
        /\ reaped[p].inTable = launch[p].inTable
        /\ reaped[p].ready = launch[p].ready
        /\ reaped[p].owner = launch[p].owner
    <3>1. reaped[p] = [launch[p] EXCEPT !.proc = "none"]
      BY <1>2
    <3> QED
      BY <2>1, <3>1, ProcField
  <2>3. \A q \in Launch \ {p} : reaped[q] = launch[q]
    BY <1>2
  <2> QED
    BY <2>2, <2>3
<1>6. /\ freeTimer' = [freeTimer EXCEPT ![s] = @ + 1]
      /\ UNCHANGED <<inShutdown, killTimer, quitting, stops>>
      /\ \E a \in Addr \ alive :
           /\ alive' = alive \cup {a}
           /\ slot' = [slot EXCEPT ![ft] = a]
           /\ \/ /\ srv' = [stopped EXCEPT ![a] = fresh]
                 /\ launch' = reaped
                 /\ UNCHANGED terminated
              \/ \E q \in Launch : SpawnOk(a, fresh, q, stopped, reaped)
              \/ SpawnFails(a, fresh, stopped, reaped)
  BY <1>3 DEF ProcessStopped, StoppedSrv, ReapedLaunch
<1>7. PICK a \in Addr \ alive :
           /\ alive' = alive \cup {a}
           /\ slot' = [slot EXCEPT ![ft] = a]
           /\ \/ /\ srv' = [stopped EXCEPT ![a] = fresh]
                 /\ launch' = reaped
                 /\ UNCHANGED terminated
              \/ \E q \in Launch : SpawnOk(a, fresh, q, stopped, reaped)
              \/ SpawnFails(a, fresh, stopped, reaped)
  BY <1>6
<1>8. /\ a # s
      /\ a \notin inShutdown
      /\ freeTimer[a] = 0
      /\ srv[a].pid = NULL
      /\ \A q \in Launch : launch[q].proc # "none" => launch[q].owner # a
      /\ \A q \in Launch : launch[q].inTable => launch[q].owner # a
      /\ \A f \in Filetype : slot[f] # NULL => slot[f] # a
  BY <1>2, <1>7 DEF IInv, TypeOK, PidsOwned, TimersSound, NoOrphanProcess,
     TableLeadsToLiveServer, SlotsUsable
<1>9. \A f \in Filetype : f # ft => slot'[f] = slot[f] /\ slot[f] # s
  BY <1>2, <1>3, <1>7 DEF IInv, TypeOK, SlotsUsable
<1>10. slot'[ft] = a /\ slot' \in [Filetype -> Addr \cup {NULL}]
  BY <1>3, <1>7 DEF IInv, TypeOK
<1>11. /\ freeTimer' \in [Addr -> Nat]
       /\ freeTimer'[s] = 1
       /\ \A b \in Addr \ {s} : freeTimer'[b] = freeTimer[b]
  BY <1>2, <1>6 DEF IInv, TypeOK
(* What follows from the server put into the slot, whatever has become of it. *)
<1>12. ASSUME NEW r \in Server, srv' = [stopped EXCEPT ![a] = r],
              r.referenced = NULL, r.filetype = ft
       PROVE  /\ srv' \in [Addr -> Server]
              /\ srv'[a] = r
              /\ srv'[s] = stopped[s]
              /\ \A b \in Addr \ {a, s} : srv'[b] = srv[b]
              /\ SlotsWhole' /\ SlotsUsable' /\ TimersSound'
  <2>1. srv' \in [Addr -> Server] /\ srv'[a] = r
    BY <1>2, <1>7, <1>12
  <2>2. srv'[s] = stopped[s] /\ \A b \in Addr \ {a, s} : srv'[b] = srv[b]
    BY <1>2, <1>8, <1>12
  <2>3. SlotsWhole'
    <3>1. \A f \in Filetype : slot'[f] # NULL
      BY <1>3, <1>7, <1>9, <1>10 DEF IInv, SlotsWhole
    <3>2. \A b \in Addr : srv'[b].referenced = NULL
      BY <1>2, <1>12, <2>1, <2>2 DEF IInv, SlotsWhole
    <3> QED
      BY <3>1, <3>2 DEF SlotsWhole
  <2>4. SlotsUsable'
    <3>1. ASSUME NEW f \in Filetype, slot'[f] # NULL
          PROVE  /\ slot'[f] \in alive' \ inShutdown'
                 /\ srv'[slot'[f]].filetype = f
                 /\ freeTimer'[slot'[f]] = 0
      <4>1. CASE f = ft
        BY <1>6, <1>7, <1>8, <1>10, <1>11, <1>12, <2>1, <4>1
      <4>2. CASE f # ft
        BY <1>6, <1>7, <1>8, <1>9, <1>11, <2>2, <3>1, <4>2 DEF IInv, TypeOK, SlotsUsable
      <4> QED
        BY <4>1, <4>2
    <3> QED
      BY <3>1 DEF SlotsUsable
  <2>5. TimersSound'
    BY <1>2, <1>7, <1>8, <1>11, <2>2 DEF IInv, TypeOK, TimersSound
  <2> QED
    BY <2>1, <2>2, <2>3, <2>4, <2>5
<1>13. ASSUME NEW r \in Server, srv' = [stopped EXCEPT ![a] = r],
              r.referenced = NULL, r.filetype = ft,
              r.pid = NULL, r.rpc = NULL,
              launch' = reaped, UNCHANGED terminated
       PROVE  IInv'
  <2>1. /\ srv' \in [Addr -> Server]
        /\ srv'[a] = r
        /\ srv'[s] = stopped[s]
        /\ \A b \in Addr \ {a, s} : srv'[b] = srv[b]
        /\ SlotsWhole' /\ SlotsUsable' /\ TimersSound'
    BY <1>12, <1>13
  <2>2. TypeOK'
    BY <1>2, <1>6, <1>7, <1>10, <1>11, <1>13, <2>1, SMTT(30) DEF IInv, TypeOK
  <2>3. NoOrphanProcess'
    <3>1. ASSUME NEW q \in Launch, launch'[q].proc # "none"
          PROVE  LET o == launch'[q].owner IN
                 /\ o \in alive'
                 /\ srv'[o].pid = q
                 /\ o \in inShutdown' \/ slot'[srv'[o].filetype] = o
      <4>1. q # p /\ launch[q].proc # "none" /\ launch'[q].owner = launch[q].owner
        <5>1. q # p
          BY <1>5, <1>13, <3>1
        <5> QED
          BY <1>2, <1>5, <1>13, <3>1, <5>1
      <4> PICK o : o = launch[q].owner
        OBVIOUS
      <4>2. /\ o \in alive /\ srv[o].pid = q
            /\ o \in inShutdown \/ slot[srv[o].filetype] = o
        BY <4>1 DEF IInv, NoOrphanProcess
      <4>3. o \in Addr \ {a, s} /\ srv[o].filetype \in Filetype
        BY <1>2, <1>8, <4>1, <4>2 DEF IInv, TypeOK, Server
      <4> QED
        BY <1>3, <1>6, <1>7, <1>9, <2>1, <4>1, <4>2, <4>3, SMTT(30)
    <3> QED
      BY <3>1 DEF NoOrphanProcess
  <2>4. PidsOwned'
    <3>1. ASSUME NEW b \in Addr, srv'[b].pid # NULL
          PROVE  /\ b \in alive'
                 /\ launch'[srv'[b].pid].proc # "none"
                 /\ launch'[srv'[b].pid].owner = b
                 /\ srv'[b].rpc = srv'[b].pid
      <4>1. b \notin {a, s} /\ srv'[b] = srv[b]
        BY <1>2, <1>13, <2>1, <3>1
      <4>2. srv[b].pid \in Launch \ {p}
        BY <1>2, <3>1, <4>1 DEF IInv, TypeOK, Server, PidsOwned
      <4> QED
        BY <1>2, <1>7, <1>13, <3>1, <4>1, <4>2, SMTT(30) DEF IInv, PidsOwned
    <3>2. \A b \in inShutdown' : srv'[b].pid # NULL
      BY <1>3, <1>6, <1>8, <2>1 DEF IInv, TypeOK, PidsOwned
    <3> QED
      BY <3>1, <3>2 DEF PidsOwned
  <2>5. TableLeadsToLiveServer'
    BY <1>2, <1>5, <1>7, <1>8, <1>13, <2>1 DEF IInv, TypeOK, TableLeadsToLiveServer
  <2>6. RpcsOwned'
    <3>1. ASSUME NEW b \in alive', srv'[b].rpc # NULL
          PROVE  /\ launch'[srv'[b].rpc].inTable
                 /\ launch'[srv'[b].rpc].owner = b
                 /\ srv'[b].pid # NULL \/ freeTimer'[b] # 0
      <4>1. CASE b = s
        BY <1>2, <1>5, <1>11, <1>13, <2>1, <4>1
      <4>2. CASE b # s
        <5>1. b \in alive /\ b # a /\ b \in Addr /\ srv'[b] = srv[b]
          BY <1>7, <1>13, <2>1, <3>1, <4>2 DEF IInv, TypeOK
        <5>2. srv[b].rpc \in Launch
          BY <3>1, <5>1 DEF IInv, TypeOK, Server
        <5> QED
          BY <1>5, <1>11, <1>13, <3>1, <4>2, <5>1, <5>2 DEF IInv, RpcsOwned
      <4> QED
        BY <4>1, <4>2
    <3> QED
      BY <3>1 DEF RpcsOwned
  <2>7. Handshake'
    <3>1. \A q \in Launch :
            /\ launch'[q].ready => "initialize" \notin launch'[q].pending
            /\ "feature" \in launch'[q].pending \cup launch'[q].failed => launch'[q].ready
            /\ launch'[q].pending \cup launch'[q].failed # {} => launch'[q].owner \in Addr
      BY <1>5, <1>13 DEF IInv, Handshake
    <3>2. ASSUME NEW b \in Addr, srv'[b].pid # NULL, ~srv'[b].startupShutdown
          PROVE  launch'[srv'[b].pid].ready
      <4>1. b \notin {a, s} /\ srv'[b] = srv[b]
        BY <1>2, <1>13, <2>1, <3>2
      <4>2. srv[b].pid \in Launch
        BY <3>2, <4>1 DEF IInv, TypeOK, Server
      <4> QED
        BY <1>5, <1>13, <3>2, <4>1, <4>2 DEF IInv, Handshake
    <3> QED
      BY <3>1, <3>2 DEF Handshake
  <2>8. ShutdownSilencesFeatures'
    BY <1>3, <1>5, <1>6, <1>8, <1>13, <2>1 DEF IInv, TypeOK, ShutdownSilencesFeatures
  <2> QED
    BY <2>1, <2>2, <2>3, <2>4, <2>5, <2>6, <2>7, <2>8 DEF IInv
<1>14. ASSUME SpawnFails(a, fresh, stopped, reaped)
       PROVE  IInv'
  <2> DEFINE r == [fresh EXCEPT !.restarts = GaveUp]
  <2>1. /\ r \in Server
        /\ r.pid = NULL /\ r.rpc = NULL
        /\ r.referenced = NULL /\ r.filetype = ft
    BY <1>4, RestartsField, GaveUpNat
  <2>2. srv' = [stopped EXCEPT ![a] = r] /\ launch' = reaped /\ UNCHANGED terminated
    BY <1>14 DEF SpawnFails
  <2> HIDE DEF r
  <2> QED
    BY <1>13, <2>1, <2>2
<1>15. ASSUME NEW q \in Launch, SpawnOk(a, fresh, q, stopped, reaped)
       PROVE  IInv'
  <2> DEFINE r == [fresh EXCEPT !.pid = q, !.rpc = q, !.startupShutdown = TRUE]
  <2>1. /\ r \in Server
        /\ r.pid = q /\ r.rpc = q
        /\ r.startupShutdown
        /\ r.referenced = fresh.referenced /\ r.filetype = fresh.filetype
    <3>1. fresh \in Server
      BY <1>4
    <3> QED
      BY <3>1 DEF Server
  <2>2. /\ srv' = [stopped EXCEPT ![a] = r]
        /\ launch' = [reaped EXCEPT ![q] = Started(a)]
        /\ terminated' = terminated \ {q}
        /\ reaped[q].proc = "none"
        /\ ~reaped[q].inTable
    BY <1>15 DEF SpawnOk, FreeLaunch
  <2> HIDE DEF r
  <2>3. /\ q # p
        /\ launch[q].proc = "none"
        /\ ~launch[q].inTable
    BY <1>2, <1>5, <2>2
  <2>4. /\ \A b \in Addr : srv[b].pid # q
        /\ \A b \in alive : srv[b].rpc # q
    BY <2>3 DEF IInv, PidsOwned, RpcsOwned
  <2>5. /\ srv' \in [Addr -> Server]
        /\ srv'[a] = r
        /\ srv'[s] = stopped[s]
        /\ \A b \in Addr \ {a, s} : srv'[b] = srv[b]
        /\ SlotsWhole' /\ SlotsUsable' /\ TimersSound'
    BY <1>4, <1>12, <2>1, <2>2
  <2>6. /\ launch' \in [Launch -> LaunchState]
        /\ launch'[q] = Started(a)
        /\ \A l \in Launch \ {q} : launch'[l] = reaped[l]
    BY <1>2, <1>7, <2>2, StartedFields
  <2>7. TypeOK'
    BY <1>2, <1>6, <1>7, <1>10, <1>11, <2>2, <2>5, <2>6 DEF IInv, TypeOK
  <2>8. NoOrphanProcess'
    <3>1. ASSUME NEW l \in Launch, launch'[l].proc # "none"
          PROVE  LET o == launch'[l].owner IN
                 /\ o \in alive'
                 /\ srv'[o].pid = l
                 /\ o \in inShutdown' \/ slot'[srv'[o].filetype] = o
      <4>1. CASE l = q
        BY <1>4, <1>7, <1>10, <2>1, <2>5, <2>6, <4>1, StartedFields, SMTT(30)
      <4>2. CASE l # q
        <5>1. l # p /\ launch[l].proc # "none" /\ launch'[l].owner = launch[l].owner
          <6>1. launch'[l] = reaped[l]
            BY <2>6, <4>2
          <6>2. l # p
            BY <1>5, <3>1, <6>1
          <6> QED
            BY <1>2, <3>1, <6>1, <6>2
        <5> PICK o : o = launch[l].owner
          OBVIOUS
        <5>2. /\ o \in alive /\ srv[o].pid = l
              /\ o \in inShutdown \/ slot[srv[o].filetype] = o
          BY <5>1 DEF IInv, NoOrphanProcess
        <5>3. o \in Addr \ {a, s} /\ srv[o].filetype \in Filetype
          BY <1>2, <1>8, <5>1, <5>2 DEF IInv, TypeOK, Server
        <5> QED
          BY <1>3, <1>6, <1>7, <1>9, <2>5, <5>1, <5>2, <5>3, SMTT(30)
      <4> QED
        BY <4>1, <4>2
    <3> QED
      BY <3>1 DEF NoOrphanProcess
  <2>9. PidsOwned'
    <3>1. ASSUME NEW b \in Addr, srv'[b].pid # NULL
          PROVE  /\ b \in alive'
                 /\ launch'[srv'[b].pid].proc # "none"
                 /\ launch'[srv'[b].pid].owner = b
                 /\ srv'[b].rpc = srv'[b].pid
      <4>1. CASE b = a
        BY <1>7, <2>1, <2>5, <2>6, <4>1, StartedFields, SMTT(30)
      <4>2. CASE b # a
        <5>1. b # s /\ srv'[b] = srv[b]
          BY <1>2, <2>5, <3>1, <4>2
        <5>2. srv[b].pid \in Launch \ {p, q}
          BY <1>2, <2>4, <3>1, <5>1 DEF IInv, TypeOK, Server, PidsOwned
        <5> QED
          BY <1>2, <1>7, <2>6, <3>1, <5>1, <5>2 DEF IInv, PidsOwned
      <4> QED
        BY <4>1, <4>2
    <3>2. \A b \in inShutdown' : srv'[b].pid # NULL
      BY <1>3, <1>6, <1>8, <2>5 DEF IInv, TypeOK, PidsOwned
    <3> QED
      BY <3>1, <3>2 DEF PidsOwned
  <2>10. TableLeadsToLiveServer'
    <3>1. ASSUME NEW l \in Launch
          PROVE  /\ launch'[l].inTable => /\ launch'[l].owner \in alive'
                                          /\ srv'[launch'[l].owner].rpc = l
                 /\ launch'[l].client = "open" => launch'[l].inTable
      <4>1. CASE l = q
        BY <1>7, <2>1, <2>5, <2>6, <4>1, StartedFields, SMTT(30)
      <4>2. CASE l # q
        BY <1>2, <1>5, <1>7, <1>8, <2>5, <2>6, <4>2
           DEF IInv, TypeOK, TableLeadsToLiveServer
      <4> QED
        BY <4>1, <4>2
    <3> QED
      BY <3>1 DEF TableLeadsToLiveServer
  <2>11. RpcsOwned'
    <3>1. ASSUME NEW b \in alive', srv'[b].rpc # NULL
          PROVE  /\ launch'[srv'[b].rpc].inTable
                 /\ launch'[srv'[b].rpc].owner = b
                 /\ srv'[b].pid # NULL \/ freeTimer'[b] # 0
      <4>1. CASE b = s
        BY <1>2, <1>5, <1>11, <2>3, <2>5, <2>6, <4>1
      <4>2. CASE b = a
        BY <2>1, <2>5, <2>6, <4>2, StartedFields
      <4>3. CASE b # s /\ b # a
        <5>1. b \in alive /\ b \in Addr /\ srv'[b] = srv[b]
          BY <1>7, <2>5, <4>3 DEF IInv, TypeOK
        <5>2. srv[b].rpc \in Launch \ {q}
          BY <2>4, <3>1, <5>1 DEF IInv, TypeOK, Server
        <5> QED
          BY <1>5, <1>11, <2>6, <3>1, <4>3, <5>1, <5>2 DEF IInv, RpcsOwned
      <4> QED
        BY <4>1, <4>2, <4>3
    <3> QED
      BY <3>1 DEF RpcsOwned
  <2>12. Handshake'
    <3>1. ASSUME NEW l \in Launch
          PROVE  /\ launch'[l].ready => "initialize" \notin launch'[l].pending
                 /\ "feature" \in launch'[l].pending \cup launch'[l].failed => launch'[l].ready
                 /\ launch'[l].pending \cup launch'[l].failed # {} => launch'[l].owner \in Addr
      <4>1. CASE l = q
        BY <1>7, <2>6, <4>1, StartedFields
      <4>2. CASE l # q
        BY <1>5, <2>6, <4>2 DEF IInv, Handshake
      <4> QED
        BY <4>1, <4>2
    <3>2. ASSUME NEW b \in Addr, srv'[b].pid # NULL, ~srv'[b].startupShutdown
          PROVE  launch'[srv'[b].pid].ready
      <4>1. b \notin {a, s} /\ srv'[b] = srv[b]
        BY <1>2, <2>1, <2>5, <3>2
      <4>2. srv[b].pid \in Launch \ {q}
        BY <2>4, <3>2, <4>1 DEF IInv, TypeOK, Server
      <4> QED
        BY <1>5, <2>6, <3>2, <4>1, <4>2 DEF IInv, Handshake
    <3> QED
      BY <3>1, <3>2 DEF Handshake
  <2>13. ShutdownSilencesFeatures'
    <3>1. ASSUME NEW l \in Launch,
                 "feature" \in launch'[l].pending \cup launch'[l].failed,
                 launch'[l].owner \in inShutdown', launch'[l].inTable
          PROVE  srv'[launch'[l].owner].startupShutdown
      <4>1. l # q
        BY <2>6, <3>1, StartedFields
      <4>2. launch[l].owner \in Addr \ {a, s}
        BY <1>3, <1>5, <1>6, <1>8, <2>6, <3>1, <4>1 DEF IInv, TypeOK
      <4> QED
        BY <1>5, <1>6, <2>5, <2>6, <3>1, <4>1, <4>2 DEF IInv, ShutdownSilencesFeatures
    <3> QED
      BY <3>1 DEF ShutdownSilencesFeatures
  <2> QED
    BY <2>5, <2>7, <2>8, <2>9, <2>10, <2>11, <2>12, <2>13 DEF IInv
<1> QED
  BY <1>4, <1>7, <1>13, <1>14, <1>15

-------------------------------------------------------------------------------
(* lsp_server_stop_all().                                                    *)

LEMMA ToFreeFacts ==
  ASSUME IInv, NEW a \in ToFree
  PROVE  /\ a \in alive \ inShutdown
         /\ a \in Addr
         /\ srv[a].pid = NULL
         /\ srv[a].rpc = NULL
         /\ freeTimer[a] = 0
  BY DEF IInv, TypeOK, ToFree, SlotServers, SlotsUsable, RpcsOwned

LEMMA ToStopFacts ==
  ASSUME IInv, NEW a \in ToStop
  PROVE  /\ a \in alive \ inShutdown
         /\ a \in Addr
         /\ srv[a].pid \in Launch
         /\ srv[a].rpc = srv[a].pid
         /\ launch[srv[a].pid].owner = a
  BY DEF IInv, TypeOK, Server, ToStop, SlotServers, SlotsUsable, PidsOwned

LEMMA StoppedFields ==
  ASSUME IInv, NEW a \in Addr
  PROVE  /\ Stopped[a] \in Server
         /\ Stopped[a].pid = srv[a].pid
         /\ Stopped[a].rpc = srv[a].rpc
         /\ Stopped[a].referenced = srv[a].referenced
         /\ Stopped[a].filetype = srv[a].filetype
         /\ Stopped[a].restarts = srv[a].restarts
         /\ a \in ToStop => Stopped[a].startupShutdown
         /\ a \notin ToStop => Stopped[a] = srv[a]
<1>1. srv[a] \in Server
  BY DEF IInv, TypeOK
<1>2. CASE a \in ToStop
  BY <1>1, <1>2, StartupShutdownField DEF Stopped
<1>3. CASE a \notin ToStop
  BY <1>1, <1>3 DEF Stopped
<1> QED
  BY <1>2, <1>3

(* The launches after StopAll: those of the servers told to stop have one    *)
(* more call to answer.                                                      *)
LEMMA StopAllLaunches ==
  ASSUME IInv, StopAll
  PROVE  /\ launch' \in [Launch -> LaunchState]
         /\ \A p \in Launch :
              /\ launch'[p].proc = launch[p].proc
              /\ launch'[p].owner = launch[p].owner
              /\ launch'[p].inTable = launch[p].inTable
              /\ launch'[p].ready = launch[p].ready
              /\ launch'[p].client = launch[p].client
              /\ launch'[p].pending \subseteq launch[p].pending \cup {"shutdown"}
              /\ launch'[p].pending \cup launch'[p].failed
                   \subseteq launch[p].pending \cup launch[p].failed \cup {"shutdown"}
              /\ launch'[p].pending \cup launch'[p].failed # {} =>
                   launch[p].pending \cup launch[p].failed # {} \/ launch[p].owner \in Addr
<1> USE LspServerAssumption
<1>1. ASSUME NEW p \in Launch
      PROVE  LaunchAfterFree(ToFree)[p] = launch[p]
  BY ToFreeFacts DEF LaunchAfterFree
<1>2. "shutdown" \in Call
  BY DEF Call
<1>3. launch' = [p \in Launch |-> IF \E s \in ToStop : srv[s].rpc = p
                                  THEN CallFull(launch[p], "shutdown")
                                  ELSE launch[p]]
  BY <1>1 DEF StopAll
<1>4. \A p \in Launch : launch[p] \in LaunchState
  BY DEF IInv, TypeOK
<1>5. launch' \in [Launch -> LaunchState]
  BY <1>2, <1>3, <1>4, CallFullFields
<1>6. ASSUME NEW p \in Launch, \E s \in ToStop : srv[s].rpc = p
      PROVE  launch[p].owner \in Addr
  BY <1>6, ToStopFacts
<1>7. ASSUME NEW p \in Launch
      PROVE  /\ launch'[p].proc = launch[p].proc
             /\ launch'[p].owner = launch[p].owner
             /\ launch'[p].inTable = launch[p].inTable
             /\ launch'[p].ready = launch[p].ready
             /\ launch'[p].client = launch[p].client
             /\ launch'[p].pending \subseteq launch[p].pending \cup {"shutdown"}
             /\ launch'[p].pending \cup launch'[p].failed
                  \subseteq launch[p].pending \cup launch[p].failed \cup {"shutdown"}
             /\ launch'[p].pending \cup launch'[p].failed # {} =>
                  launch[p].pending \cup launch[p].failed # {} \/ launch[p].owner \in Addr
  <2>1. CASE \E s \in ToStop : srv[s].rpc = p
    BY <1>2, <1>3, <1>4, <1>6, <2>1, CallFullFields
  <2>2. CASE ~\E s \in ToStop : srv[s].rpc = p
    BY <1>3, <2>2
  <2> QED
    BY <2>1, <2>2
<1> QED
  BY <1>5, <1>7

(* Stopping every server, and putting the new structs N in their place. *)
LEMMA StopAllIInv ==
  ASSUME IInv, StopAll,
         NEW N \in SUBSET (Addr \ (alive \ ToFree)),
         alive' = (alive \ ToFree) \cup N,
         srv' \in [Addr -> Server],
         \A a \in Addr \ N : srv'[a] = Stopped[a],
         \A a \in N : srv'[a].pid = NULL /\ srv'[a].rpc = NULL /\ srv'[a].referenced = NULL,
         slot' \in [Filetype -> Addr \cup {NULL}],
         (\E f \in Filetype : slot'[f] = NULL) => \A f \in Filetype : slot'[f] = NULL,
         \A f \in Filetype : slot'[f] # NULL => slot'[f] \in N /\ srv'[slot'[f]].filetype = f,
         UNCHANGED <<freeTimer, terminated>>,
         quitting' \in BOOLEAN, stops' \in Nat
  PROVE  IInv'
<1> USE LspServerAssumption
<1>1. /\ inShutdown' = inShutdown \cup ToStop
      /\ killTimer' = [a \in Addr |-> killTimer[a] + IF a \in ToStop THEN 1 ELSE 0]
  BY DEF StopAll
<1>2. \A a \in ToStop : a \in Addr /\ a \in alive /\ srv[a].pid # NULL
  BY ToStopFacts
<1>3. TypeOK'
  <2>1. killTimer' \in [Addr -> Nat]
    BY <1>1 DEF IInv, TypeOK
  <2>2. inShutdown' \subseteq Addr /\ alive' \subseteq Addr
    BY <1>1, <1>2 DEF IInv, TypeOK
  <2>3. launch' \in [Launch -> LaunchState]
    BY StopAllLaunches
  <2> QED
    BY <2>1, <2>2, <2>3 DEF IInv, TypeOK
<1>4. \A a \in N : a \in Addr /\ a \notin inShutdown' /\ freeTimer[a] = 0 /\ srv[a].pid = NULL
  <2>1. ASSUME NEW a \in N
        PROVE  a \in Addr /\ a \notin inShutdown' /\ freeTimer[a] = 0 /\ srv[a].pid = NULL
    <3>1. CASE a \in ToFree
      BY <1>1, <1>2, <3>1, ToFreeFacts
    <3>2. CASE a \notin ToFree
      BY <1>1, <1>2, <3>2 DEF IInv, TypeOK, PidsOwned, TimersSound
    <3> QED
      BY <3>1, <3>2
  <2> QED
    BY <2>1
<1>5. \A a \in Addr \ N : /\ srv'[a].pid = srv[a].pid
                          /\ srv'[a].rpc = srv[a].rpc
                          /\ srv'[a].referenced = srv[a].referenced
                          /\ srv'[a].filetype = srv[a].filetype
                          /\ a \in ToStop => srv'[a].startupShutdown
                          /\ a \notin ToStop => srv'[a] = srv[a]
  BY StoppedFields
<1>6. SlotsWhole' /\ SlotsUsable'
  BY <1>4, <1>5 DEF IInv, SlotsWhole, SlotsUsable
<1>7. \A a \in alive : srv[a].pid # NULL => a \in alive' /\ a \notin N /\ a \in Addr
  BY <1>4 DEF IInv, TypeOK, ToFree
<1>8. NoOrphanProcess'
  <2>1. ASSUME NEW p \in Launch, launch'[p].proc # "none"
        PROVE  LET o == launch'[p].owner IN
               /\ o \in alive'
               /\ srv'[o].pid = p
               /\ o \in inShutdown'
    <3> PICK o : o = launch[p].owner
      OBVIOUS
    <3>1. o = launch'[p].owner /\ launch[p].proc # "none"
      BY <2>1, StopAllLaunches
    <3>2. /\ o \in alive
          /\ srv[o].pid = p
          /\ o \in inShutdown \/ slot[srv[o].filetype] = o
      BY <3>1, ZenonT(60) DEF IInv, NoOrphanProcess
    <3>3. o \in Addr /\ srv[o].filetype \in Filetype
      BY <3>2 DEF IInv, TypeOK, Server
    <3>4. o \in inShutdown'
      BY <1>1, <3>2, <3>3 DEF ToStop, SlotServers
    <3> QED
      BY <1>5, <1>7, <3>1, <3>2, <3>3, <3>4
  <2> QED
    BY <2>1 DEF NoOrphanProcess
<1>9. PidsOwned'
  <2>1. ASSUME NEW a \in Addr, srv'[a].pid # NULL
        PROVE  /\ a \in alive'
               /\ launch'[srv'[a].pid].proc # "none"
               /\ launch'[srv'[a].pid].owner = a
               /\ srv'[a].rpc = srv'[a].pid
    <3>1. a \notin N
      BY <2>1
    <3>2. srv'[a].pid = srv[a].pid /\ srv'[a].rpc = srv[a].rpc /\ srv[a].pid \in Launch
      BY <1>5, <2>1, <3>1 DEF IInv, TypeOK, Server
    <3>3. /\ a \in alive
          /\ launch[srv[a].pid].proc # "none"
          /\ launch[srv[a].pid].owner = a
          /\ srv[a].rpc = srv[a].pid
      BY <2>1, <3>2 DEF IInv, PidsOwned
    <3> QED
      BY <1>7, <2>1, <3>2, <3>3, StopAllLaunches
  <2>2. \A a \in inShutdown' : srv'[a].pid # NULL
    <3>1. ASSUME NEW a \in inShutdown'
          PROVE  srv'[a].pid # NULL
      <4>1. a \in Addr /\ srv[a].pid # NULL
        BY <1>1, <1>2 DEF IInv, TypeOK, PidsOwned
      <4> QED
        BY <1>4, <1>5, <4>1
    <3> QED
      BY <3>1
  <2> QED
    BY <2>1, <2>2 DEF PidsOwned
<1>10. TimersSound'
  <2>1. ASSUME NEW a \in Addr, freeTimer'[a] # 0
        PROVE  /\ freeTimer'[a] = 1
               /\ a \in alive'
               /\ srv'[a].pid = NULL
    <3>1. freeTimer[a] = 1 /\ a \in alive /\ srv[a].pid = NULL
      BY <2>1 DEF IInv, TimersSound
    <3>2. a \notin N /\ a \notin ToFree
      BY <1>4, <3>1, ToFreeFacts
    <3> QED
      BY <1>5, <3>1, <3>2
  <2> QED
    BY <2>1 DEF TimersSound
<1>11. TableLeadsToLiveServer'
  <2>1. ASSUME NEW p \in Launch
        PROVE  /\ launch'[p].inTable => /\ launch'[p].owner \in alive'
                                        /\ srv'[launch'[p].owner].rpc = p
               /\ launch'[p].client = "open" => launch'[p].inTable
    <3> PICK o : o = launch[p].owner
      OBVIOUS
    <3>1. /\ launch'[p].inTable = launch[p].inTable
          /\ launch'[p].client = launch[p].client
          /\ launch'[p].owner = o
      BY StopAllLaunches
    <3>2. launch[p].client = "open" => launch[p].inTable
      BY DEF IInv, TableLeadsToLiveServer
    <3>3. ASSUME launch[p].inTable
          PROVE  o \in alive' /\ srv'[o].rpc = p
      <4>1. o \in alive /\ srv[o].rpc = p /\ o \in Addr
        BY <3>3 DEF IInv, TypeOK, TableLeadsToLiveServer
      <4>2. o \notin ToFree
        BY <4>1, ToFreeFacts
      <4> QED
        BY <1>5, <4>1, <4>2
    <3> QED
      BY <3>1, <3>2, <3>3
  <2> QED
    BY <2>1 DEF TableLeadsToLiveServer
<1>12. RpcsOwned'
  <2>1. ASSUME NEW a \in alive', srv'[a].rpc # NULL
        PROVE  /\ launch'[srv'[a].rpc].inTable
               /\ launch'[srv'[a].rpc].owner = a
               /\ srv'[a].pid # NULL \/ freeTimer'[a] # 0
    <3>1. a \in alive /\ a \notin N /\ a \in Addr
      BY <2>1 DEF IInv, TypeOK
    <3>2. srv'[a].pid = srv[a].pid /\ srv'[a].rpc = srv[a].rpc /\ srv[a].rpc \in Launch
      BY <1>5, <2>1, <3>1 DEF IInv, TypeOK, Server
    <3>3. /\ launch[srv[a].rpc].inTable
          /\ launch[srv[a].rpc].owner = a
          /\ srv[a].pid # NULL \/ freeTimer[a] # 0
      BY <2>1, <3>1, <3>2 DEF IInv, RpcsOwned
    <3> QED
      BY <3>2, <3>3, StopAllLaunches
  <2> QED
    BY <2>1 DEF RpcsOwned
<1>13. Handshake'
  <2>1. \A p \in Launch :
          /\ launch'[p].ready => "initialize" \notin launch'[p].pending
          /\ "feature" \in launch'[p].pending \cup launch'[p].failed => launch'[p].ready
          /\ launch'[p].pending \cup launch'[p].failed # {} => launch'[p].owner \in Addr
    BY StopAllLaunches DEF IInv, Handshake
  <2>2. ASSUME NEW a \in Addr, srv'[a].pid # NULL, ~srv'[a].startupShutdown
        PROVE  launch'[srv'[a].pid].ready
    <3>1. a \notin N /\ a \notin ToStop
      BY <1>5, <2>2
    <3>2. srv'[a] = srv[a] /\ srv[a].pid \in Launch
      BY <1>5, <2>2, <3>1 DEF IInv, TypeOK, Server
    <3> QED
      BY <2>2, <3>2, StopAllLaunches DEF IInv, Handshake
  <2> QED
    BY <2>1, <2>2 DEF Handshake
<1>14. ShutdownSilencesFeatures'
  <2>1. ASSUME NEW p \in Launch,
               "feature" \in launch'[p].pending \cup launch'[p].failed,
               launch'[p].owner \in inShutdown', launch'[p].inTable
        PROVE  srv'[launch'[p].owner].startupShutdown
    <3> PICK o : o = launch[p].owner
      OBVIOUS
    <3>1. /\ launch'[p].owner = o
          /\ launch[p].inTable
          /\ "feature" \in launch[p].pending \cup launch[p].failed
      BY <2>1, StopAllLaunches
    <3>2. o \in Addr /\ o \notin N
      BY <1>4, <2>1, <3>1 DEF IInv, TypeOK, TableLeadsToLiveServer
    <3>3. CASE o \in ToStop
      BY <1>5, <3>1, <3>2, <3>3
    <3>4. CASE o \notin ToStop
      BY <1>1, <1>5, <2>1, <3>1, <3>2, <3>4 DEF IInv, ShutdownSilencesFeatures
    <3> QED
      BY <3>3, <3>4
  <2> QED
    BY <2>1 DEF ShutdownSilencesFeatures
<1> QED
  BY <1>3, <1>6, <1>8, <1>9, <1>10, <1>11, <1>12, <1>13, <1>14 DEF IInv

LEMMA TerminateAllIInv ==
  ASSUME IInv, TerminateAll
  PROVE  IInv'
<1> USE LspServerAssumption
<1> PICK N \in SUBSET (Addr \ (alive \ ToFree)) : N = {}
  OBVIOUS
<1>1. srv' = Stopped
  BY DEF TerminateAll
<1>2. srv' \in [Addr -> Server]
  <2>1. Stopped = [a \in Addr |-> Stopped[a]]
    BY DEF Stopped
  <2>2. \A a \in Addr : Stopped[a] \in Server
    BY StoppedFields
  <2> QED
    BY <1>1, <2>1, <2>2
<1>3. slot' = [f \in Filetype |-> NULL]
  BY DEF TerminateAll
<1>4. /\ slot' \in [Filetype -> Addr \cup {NULL}]
      /\ \A f \in Filetype : slot'[f] = NULL
  BY <1>3
<1>5. /\ (\E f \in Filetype : slot'[f] = NULL) => \A f \in Filetype : slot'[f] = NULL
      /\ \A f \in Filetype : slot'[f] # NULL => slot'[f] \in N /\ srv'[slot'[f]].filetype = f
  BY <1>4
<1>6. StopAll /\ UNCHANGED <<freeTimer, terminated>>
  BY DEF TerminateAll
<1>7. alive' = (alive \ ToFree) \cup N
  BY DEF TerminateAll
<1>8. quitting' \in BOOLEAN /\ stops' \in Nat
  BY DEF TerminateAll, IInv, TypeOK
<1>9. /\ \A a \in Addr \ N : srv'[a] = Stopped[a]
      /\ \A a \in N : srv'[a].pid = NULL /\ srv'[a].rpc = NULL /\ srv'[a].referenced = NULL
  BY <1>1
<1> HIDE DEF IInv
<1> QED
  BY <1>2, <1>4, <1>5, <1>6, <1>7, <1>8, <1>9, StopAllIInv

LEMMA StopAndInitAllIInv ==
  ASSUME IInv, StopAndInitAll
  PROVE  IInv'
<1> USE LspServerAssumption
<1> PICK N : N = {slot'[f] : f \in Filetype}
  OBVIOUS
<1>1. /\ StopAll
      /\ slot' \in [Filetype -> Addr \ (alive \ ToFree)]
      /\ \A f, g \in Filetype : slot'[f] = slot'[g] => f = g
      /\ alive' = (alive \ ToFree) \cup N
      /\ UNCHANGED <<freeTimer, terminated, quitting>>
      /\ stops' = stops + 1
  BY DEF StopAndInitAll
<1>2. srv' = [a \in Addr |->
                IF \E f \in Filetype : slot'[f] = a
                THEN NewServer(CHOOSE f \in Filetype : slot'[f] = a, 0)
                ELSE Stopped[a]]
  BY DEF StopAndInitAll
<1>3. \A f \in Filetype : slot'[f] \in Addr \ (alive \ ToFree)
  BY <1>1
<1>4. ASSUME NEW f \in Filetype
      PROVE  srv'[slot'[f]] = NewServer(f, 0)
  <2> PICK g : g = CHOOSE h \in Filetype : slot'[h] = slot'[f]
    OBVIOUS
  <2>1. g \in Filetype /\ slot'[g] = slot'[f]
    OBVIOUS
  <2>2. g = f
    BY <1>1, <2>1
  <2> QED
    BY <1>2, <1>3, <2>2
<1>5. \A a \in Addr \ N : srv'[a] = Stopped[a]
  BY <1>2
<1>6. \A a \in N : \E f \in Filetype : a = slot'[f] /\ srv'[a] = NewServer(f, 0)
  BY <1>4
<1>7. \A a \in N : /\ srv'[a] \in Server
                   /\ srv'[a].pid = NULL
                   /\ srv'[a].rpc = NULL
                   /\ srv'[a].referenced = NULL
  BY <1>6, NewServerType
<1>8. srv' \in [Addr -> Server]
  <2>1. \A a \in Addr : srv'[a] \in Server
    BY <1>5, <1>7, StoppedFields
  <2> QED
    BY <1>2, <2>1
<1>9. \A f \in Filetype : slot'[f] \in N /\ srv'[slot'[f]].filetype = f
  BY <1>4, NewServerType
<1>10. N \in SUBSET (Addr \ (alive \ ToFree))
  BY <1>3
<1>11. slot' \in [Filetype -> Addr \cup {NULL}]
  BY <1>1
<1>12. \A f \in Filetype : slot'[f] # NULL
  BY <1>3
<1>13. quitting' \in BOOLEAN /\ stops' \in Nat
  BY <1>1 DEF IInv, TypeOK
<1> QED
  BY <1>1, <1>5, <1>7, <1>8, <1>9, <1>10, <1>11, <1>12, <1>13, StopAllIInv, ZenonT(60)

-------------------------------------------------------------------------------
LEMMA NextIInv ==
  ASSUME IInv, NoSharing, [Next]_vars
  PROVE  IInv'
<1>1. CASE UNCHANGED vars
  BY <1>1 DEF vars, IInv, TypeOK, SlotsWhole, SlotsUsable, NoOrphanProcess, PidsOwned,
     TimersSound, TableLeadsToLiveServer, RpcsOwned, Handshake,
     ShutdownSilencesFeatures
<1>2. CASE StopAndInitAll
  BY <1>2, StopAndInitAllIInv
<1>3. CASE TerminateAll
  BY <1>3, TerminateAllIInv
<1>4. ASSUME NEW ft \in Filetype, GetServer(ft) \/ UseServer(ft)
      PROVE  IInv'
  BY <1>4, GetServerIInv, UseServerIInv
<1>5. ASSUME NEW p \in Launch, ProcessExits(p) \/ ProcessStopped(p) \/ ClientPanic(p)
      PROVE  IInv'
  BY <1>5, ProcessExitsIInv, NormalStopIInv, CrashIInv, ClientPanicIInv
<1>6. ASSUME NEW s \in Addr, FreeAfterDelay(s) \/ KillCb(s)
      PROVE  IInv'
  BY <1>6, FreeAfterDelayIInv, KillCbIInv
<1>7. ASSUME NEW p \in Launch, NEW call \in Call, NEW ok \in BOOLEAN,
             DeliverReply(p, call, ok)
      PROVE  IInv'
  BY <1>7, DeliverReplyIInv
<1>8. ASSUME NEW p \in Launch, NEW call \in Call, DeliverFailure(p, call)
      PROVE  IInv'
  BY <1>8, DeliverFailureIInv
<1> QED
  BY <1>1, <1>2, <1>3, <1>4, <1>5, <1>6, <1>7, <1>8 DEF Next

-------------------------------------------------------------------------------
(* The inductive invariant holds throughout: what the handlers keep true     *)
(* between any two callbacks of the main loop.                               *)
THEOREM IInvInvariant == NoSharing => (Spec => []IInv)
<1>1. ASSUME NoSharing PROVE IInv /\ [Next]_vars => IInv'
  BY <1>1, NextIInv
<1>2. ASSUME NoSharing PROVE Spec => []IInv
  BY <1>1, <1>2, InitIInv, PTL DEF Spec
<1> QED
  BY <1>2

(* Every variable keeps its type, the fields of the structs included.        *)
THEOREM TypeCorrect == NoSharing => (Spec => []TypeOK)
<1>1. IInv => TypeOK
  BY DEF IInv
<1> QED
  BY <1>1, IInvInvariant, PTL

(* No server process is lost: however crashes, restarts, timeouts and        *)
(* shutdowns of lsp-server.c interleave, a running process is held by an     *)
(* allocated server that lsp_servers or servers_in_shutdown names.           *)
THEOREM NoOrphan == NoSharing => (Spec => []NoOrphanProcess)
<1>1. IInv => NoOrphanProcess
  BY DEF IInv
<1> QED
  BY <1>1, IInvInvariant, PTL

(* lsp_servers never names a freed server, one in shutdown or one that       *)
(* free_server_after_delay() is about to free.                               *)
THEOREM SlotsStayUsable == NoSharing => (Spec => []SlotsUsable)
<1>1. IInv => SlotsUsable
  BY DEF IInv
<1> QED
  BY <1>1, IInvInvariant, PTL

(* The table of lsp-rpc.c leads every reply and notification to an allocated *)
(* server that still uses the connection.                                    *)
THEOREM TableSound == NoSharing => (Spec => []TableLeadsToLiveServer)
<1>1. IInv => TableLeadsToLiveServer
  BY DEF IInv
<1> QED
  BY <1>1, IInvInvariant, PTL

(* server_get_or_start_for_ft() only returns servers that have finished      *)
(* their handshake and are not shutting down.                                *)
THEOREM ReturnedServersReady == NoSharing => (Spec => []ReturnedIsReady)
<1>1. ASSUME NoSharing, IInv
      PROVE  ReturnedIsReady
  <2> SUFFICES ASSUME NEW ft \in Filetype, Returned(ft) # NULL
               PROVE  LET s == Returned(ft) IN
                      /\ s \in alive \ inShutdown
                      /\ srv[s].pid # NULL
                      /\ launch[srv[s].pid].ready
    BY DEF ReturnedIsReady
  <2>1. slot[ft] \in Addr
    BY <1>1 DEF Returned, Initialised, IInv, TypeOK, SlotsWhole
  <2>2. Resolve(ft) = slot[ft]
    BY <1>1, <2>1 DEF Resolve, IInv, SlotsWhole
  <2>3. srv[slot[ft]].filetype \in Filetype
    BY <1>1, <2>1 DEF IInv, TypeOK, Server
  <2>4. RefServer(slot[ft]) = NULL
    BY <1>1, <2>3 DEF RefServer, NoSharing
  <2>5. /\ Returned(ft) = slot[ft]
        /\ ~srv[slot[ft]].startupShutdown
        /\ srv[slot[ft]].pid # NULL
    BY <2>2, <2>4 DEF Returned
  <2>6. slot[ft] \in alive \ inShutdown
    BY <1>1, <2>1, LspServerAssumption DEF IInv, SlotsUsable
  <2>7. launch[srv[slot[ft]].pid].ready
    BY <1>1, <2>1, <2>5 DEF IInv, Handshake
  <2> QED
    BY <2>5, <2>6, <2>7
<1>2. ASSUME NoSharing PROVE Spec => []ReturnedIsReady
  <2>1. IInv => ReturnedIsReady
    BY <1>1, <1>2
  <2>2. Spec => []IInv
    BY <1>2, IInvInvariant
  <2> QED
    BY <2>1, <2>2, PTL
<1> QED
  BY <1>2

(* call_cb() hands no reply to a feature once the server is being stopped.   *)
THEOREM FeaturesSilenced == NoSharing => (Spec => []ShutdownSilencesFeatures)
<1>1. IInv => ShutdownSilencesFeatures
  BY DEF IInv
<1> QED
  BY <1>1, IInvInvariant, PTL

-------------------------------------------------------------------------------
(* A server that has been given up has no process.                           *)
DeadIdle == \A a \in Addr : IsDead(a) => srv[a].pid = NULL

(* A callback that starts no server: it changes neither lsp_servers nor a    *)
(* count of restarts, and a pid only ever to none.                           *)
StartsNothing ==
  /\ slot' = slot
  /\ \A a \in Addr : /\ srv'[a].restarts = srv[a].restarts
                      /\ srv'[a].pid \in {srv[a].pid, NULL}

LEMMA StartsNothingDead ==
  ASSUME IInv, DeadIdle, StartsNothing
  PROVE  DeadIdle' /\ GivesUpStep
<1>1. DeadIdle'
  BY DEF DeadIdle, StartsNothing, IsDead
<1>2. ASSUME NEW f \in Filetype, slot[f] # NULL
      PROVE  /\ slot'[f] = slot[f]
             /\ srv'[slot[f]].restarts >= srv[slot[f]].restarts
             /\ IsDead(slot[f]) => srv'[slot[f]].pid = NULL
  <2>1. slot[f] \in Addr /\ srv[slot[f]].restarts \in Nat
    BY <1>2 DEF IInv, TypeOK, Server
  <2> QED
    BY <2>1 DEF StartsNothing, DeadIdle
<1> QED
  BY <1>1, <1>2 DEF GivesUpStep

LEMMA QuietStarts ==
  ASSUME IInv, UNCHANGED <<slot, srv>>
  PROVE  StartsNothing
  BY DEF StartsNothing

LEMMA DeliveryStarts ==
  ASSUME IInv, NEW p \in Launch, NEW call \in Call, NEW ok \in BOOLEAN,
         DeliverReply(p, call, ok) \/ DeliverFailure(p, call)
  PROVE  StartsNothing
<1> PICK s : s = launch[p].owner
  OBVIOUS
<1>1. CASE UNCHANGED <<slot, srv>>
  BY <1>1, QuietStarts
<1>2. CASE slot' = slot /\ srv' = [srv EXCEPT ![s].startupShutdown = FALSE]
  <2>1. \A a \in Addr : /\ srv'[a].restarts = srv[a].restarts
                        /\ srv'[a].pid = srv[a].pid
    BY <1>2 DEF IInv, TypeOK, Server
  <2> QED
    BY <1>2, <2>1 DEF StartsNothing
<1> QED
  BY <1>1, <1>2 DEF DeliverReply, DeliverFailure, CallCb, InitializeCb, ShutdownCb

LEMMA NormalStopStarts ==
  ASSUME IInv, NEW p \in Launch, ProcessStopped(p), launch[p].owner \in inShutdown
  PROVE  StartsNothing
<1> PICK s : s = launch[p].owner
  OBVIOUS
<1>1. slot' = slot /\ srv' = [srv EXCEPT ![s].pid = NULL]
  BY DEF ProcessStopped
<1>2. \A a \in Addr : /\ srv'[a].restarts = srv[a].restarts
                      /\ srv'[a].pid \in {srv[a].pid, NULL}
  BY <1>1 DEF IInv, TypeOK, Server
<1> QED
  BY <1>1, <1>2 DEF StartsNothing

(* server_get_or_start_for_ft() starts no dead server, and gives a server    *)
(* up for good when its executable is missing.                               *)
LEMMA GetServerGivesUp ==
  ASSUME IInv, NoSharing, DeadIdle, NEW ft \in Filetype, GetServer(ft)
  PROVE  DeadIdle' /\ GivesUpStep
<1> USE LspServerAssumption
<1> PICK s : s = slot[ft]
  OBVIOUS
<1>1. /\ s \in Addr
      /\ Resolve(ft) = s
      /\ RefServer(s) = NULL
  BY DEF IInv, TypeOK, GetServer, Initialised, SlotsWhole, Resolve,
         RefServer, NoSharing, Server
<1>2. slot' = slot
  BY DEF GetServer
<1>3. /\ Startable(s)
      /\ \/ srv' = [srv EXCEPT ![s] = [srv[s] EXCEPT !.notUsed = TRUE]]
         \/ \E p \in Launch : srv' = [srv EXCEPT ![s] =
                 [srv[s] EXCEPT !.pid = p, !.rpc = p, !.startupShutdown = TRUE]]
         \/ srv' = [srv EXCEPT ![s] = [srv[s] EXCEPT !.restarts = GaveUp]]
  BY <1>1 DEF GetServer, Startable, SpawnOk, SpawnFails
<1>4. /\ srv[s] \in Server
      /\ srv[s].restarts \in Nat
      /\ srv[s].restarts < DeadAfter
      /\ srv[s].pid = NULL
  <2>1. srv[s] \in Server /\ srv[s].restarts \in Nat
    BY <1>1 DEF IInv, TypeOK, Server
  <2>2. ~(srv[s].restarts >= DeadAfter) /\ srv[s].pid = NULL
    BY <1>3 DEF Startable, IsDead
  <2> QED
    BY <2>1, <2>2
<1>5. GaveUp \in Nat /\ GaveUp >= DeadAfter
  BY DEF GaveUp
<1>6. \A a \in Addr \ {s} : srv'[a] = srv[a]
  BY <1>1, <1>3 DEF IInv, TypeOK
<1>7. \/ srv'[s].restarts = srv[s].restarts
      \/ srv'[s].restarts = GaveUp /\ srv'[s].pid = NULL
  <2> DEFINE new == srv'[s]
  <2>1. srv \in [Addr -> Server]
    BY DEF IInv, TypeOK
  <2>2. CASE srv' = [srv EXCEPT ![s] = [srv[s] EXCEPT !.notUsed = TRUE]]
    BY <1>1, <1>4, <2>1, <2>2, NotUsedField
  <2>3. ASSUME NEW p \in Launch,
               srv' = [srv EXCEPT ![s] =
                 [srv[s] EXCEPT !.pid = p, !.rpc = p, !.startupShutdown = TRUE]]
        PROVE  new.restarts = srv[s].restarts
    BY <1>1, <1>4, <2>1, <2>3 DEF Server
  <2>4. CASE srv' = [srv EXCEPT ![s] = [srv[s] EXCEPT !.restarts = GaveUp]]
    BY <1>1, <1>4, <1>5, <2>1, <2>4, RestartsField
  <2> QED
    BY <1>3, <2>2, <2>3, <2>4
<1>8. DeadIdle'
  <2>1. ASSUME IsDead(s)'
        PROVE  srv'[s].pid = NULL
    BY <1>4, <1>7, <2>1 DEF IsDead
  <2> QED
    BY <1>6, <2>1 DEF DeadIdle, IsDead
<1>9. ASSUME NEW f \in Filetype, slot[f] # NULL
      PROVE  /\ srv'[slot[f]].restarts >= srv[slot[f]].restarts
             /\ IsDead(slot[f]) => srv'[slot[f]].pid = NULL
  <2>1. slot[f] \in Addr /\ srv[slot[f]].restarts \in Nat
    BY <1>9 DEF IInv, TypeOK, Server
  <2>2. CASE slot[f] = s
    BY <1>4, <1>5, <1>7, <2>2 DEF IsDead
  <2>3. CASE slot[f] # s
    BY <1>6, <2>1, <2>3 DEF DeadIdle
  <2> QED
    BY <2>2, <2>3
<1> QED
  BY <1>2, <1>8, <1>9 DEF GivesUpStep

(* process_stopped() replaces a crashed server by one with a higher count    *)
(* of restarts, and starts it only below the limit.                          *)
LEMMA CrashGivesUp ==
  ASSUME IInv, DeadIdle, NEW p \in Launch, ProcessStopped(p),
         launch[p].owner \notin inShutdown
  PROVE  DeadIdle' /\ GivesUpStep
<1> USE LspServerAssumption
<1> PICK s : s = launch[p].owner
  OBVIOUS
<1> PICK stopped : stopped = StoppedSrv(p)
  OBVIOUS
<1> PICK reaped : reaped = ReapedLaunch(p)
  OBVIOUS
<1> PICK ft : ft = srv[s].filetype
  OBVIOUS
<1> PICK fresh : fresh = NewServer(ft, srv[s].restarts + 1)
  OBVIOUS
<1>1. launch[p].proc = "exited"
  BY DEF ProcessStopped
<1>2. /\ s \in alive
      /\ s \in Addr
      /\ srv[s].pid = p
      /\ stopped \in [Addr -> Server]
      /\ stopped[s].pid = NULL
      /\ \A a \in Addr \ {s} : stopped[a] = srv[a]
  <2>1. s \in alive /\ s \in Addr /\ srv[s].pid = p
    BY <1>1, ReapedFields
  <2>2. stopped \in [Addr -> Server] /\ stopped[s].pid = NULL
    BY <1>1, ReapedFields
  <2>3. \A a \in Addr \ {s} : stopped[a] = srv[a]
    BY <2>1 DEF IInv, TypeOK, StoppedSrv
  <2> QED
    BY <2>1, <2>2, <2>3
<1>3. /\ srv[s] \in Server
      /\ srv[s].restarts \in Nat
      /\ ft \in Filetype
      /\ slot[ft] = s
      /\ Initialised
  BY <1>1, <1>2 DEF IInv, TypeOK, Server, NoOrphanProcess, Initialised
<1>4. /\ fresh \in Server
      /\ fresh.pid = NULL
      /\ fresh.restarts = srv[s].restarts + 1
  <2>1. srv[s].restarts + 1 \in Nat
    BY <1>3
  <2> QED
    BY <1>3, <2>1, NewServerType
<1>5. \E a \in Addr \ alive :
        /\ slot' = [slot EXCEPT ![ft] = a]
        /\ \/ srv' = [stopped EXCEPT ![a] = fresh]
           \/ /\ fresh.restarts < DeadAfter
              /\ \E q \in Launch : srv' = [stopped EXCEPT ![a] =
                   [fresh EXCEPT !.pid = q, !.rpc = q, !.startupShutdown = TRUE]]
           \/ srv' = [stopped EXCEPT ![a] = [fresh EXCEPT !.restarts = GaveUp]]
              /\ fresh.restarts < DeadAfter
  <2>1. ~(fresh.restarts >= DeadAfter) => fresh.restarts < DeadAfter
    BY <1>3, <1>4
  <2>2. \E a \in Addr \ alive :
          /\ slot' = [slot EXCEPT ![ft] = a]
          /\ IF fresh.restarts >= DeadAfter
             THEN srv' = [stopped EXCEPT ![a] = fresh]
             ELSE \/ \E q \in Launch : SpawnOk(a, fresh, q, stopped, reaped)
                  \/ SpawnFails(a, fresh, stopped, reaped)
    BY <1>3 DEF ProcessStopped, StoppedSrv, ReapedLaunch
  <2>3. PICK a \in Addr \ alive :
          /\ slot' = [slot EXCEPT ![ft] = a]
          /\ IF fresh.restarts >= DeadAfter
             THEN srv' = [stopped EXCEPT ![a] = fresh]
             ELSE \/ \E q \in Launch : SpawnOk(a, fresh, q, stopped, reaped)
                  \/ SpawnFails(a, fresh, stopped, reaped)
    BY <2>2
  <2>4. CASE fresh.restarts >= DeadAfter
    BY <2>3, <2>4
  <2>5. CASE ~(fresh.restarts >= DeadAfter)
    <3>1. fresh.restarts < DeadAfter
      BY <2>1, <2>5
    <3>2. CASE SpawnFails(a, fresh, stopped, reaped)
      BY <2>3, <3>1, <3>2 DEF SpawnFails
    <3>3. CASE \E q \in Launch : SpawnOk(a, fresh, q, stopped, reaped)
      <4> PICK q \in Launch : SpawnOk(a, fresh, q, stopped, reaped)
        BY <3>3
      <4>1. srv' = [stopped EXCEPT ![a] =
              [fresh EXCEPT !.pid = q, !.rpc = q, !.startupShutdown = TRUE]]
        BY DEF SpawnOk
      <4> QED
        BY <2>3, <3>1, <4>1
    <3> QED
      BY <2>3, <2>5, <3>1, <3>2, <3>3
  <2> QED
    BY <2>4, <2>5
<1>6. PICK a \in Addr \ alive :
        /\ slot' = [slot EXCEPT ![ft] = a]
        /\ \/ srv' = [stopped EXCEPT ![a] = fresh]
           \/ /\ fresh.restarts < DeadAfter
              /\ \E q \in Launch : srv' = [stopped EXCEPT ![a] =
                   [fresh EXCEPT !.pid = q, !.rpc = q, !.startupShutdown = TRUE]]
           \/ srv' = [stopped EXCEPT ![a] = [fresh EXCEPT !.restarts = GaveUp]]
              /\ fresh.restarts < DeadAfter
  BY <1>5
<1>7. GaveUp \in Nat /\ GaveUp >= DeadAfter
  BY DEF GaveUp
<1>8. /\ srv'[a].restarts > srv[s].restarts
      /\ srv'[a].restarts >= DeadAfter => srv'[a].pid = NULL
      /\ \A b \in Addr \ {a} : srv'[b] = stopped[b]
  <2>1. CASE srv' = [stopped EXCEPT ![a] = fresh]
    BY <1>2, <1>3, <1>4, <2>1, SMTT(30)
  <2>2. ASSUME fresh.restarts < DeadAfter, NEW q \in Launch,
               srv' = [stopped EXCEPT ![a] =
                   [fresh EXCEPT !.pid = q, !.rpc = q, !.startupShutdown = TRUE]]
        PROVE  /\ srv'[a].restarts > srv[s].restarts
               /\ srv'[a].restarts >= DeadAfter => srv'[a].pid = NULL
               /\ \A b \in Addr \ {a} : srv'[b] = stopped[b]
    <3>1. srv'[a].restarts = fresh.restarts
      BY <1>2, <1>4, <2>2 DEF Server
    <3> QED
      BY <1>2, <1>3, <1>4, <2>2, <3>1, SMTT(30)
  <2>3. CASE srv' = [stopped EXCEPT ![a] = [fresh EXCEPT !.restarts = GaveUp]]
             /\ fresh.restarts < DeadAfter
    <3>1. srv'[a].restarts = GaveUp /\ srv'[a].pid = NULL
      BY <1>2, <1>4, <2>3 DEF Server
    <3> QED
      BY <1>2, <1>3, <1>4, <1>7, <2>3, <3>1, SMTT(30)
  <2> QED
    BY <1>6, <2>1, <2>2, <2>3
<1>9. DeadIdle'
  BY <1>2, <1>8 DEF DeadIdle, IsDead
<1>10. ASSUME NEW f \in Filetype, slot[f] # NULL
       PROVE  LET old == srv[slot[f]]
                  new == srv'[slot'[f]] IN
              /\ IF slot'[f] = slot[f] THEN new.restarts >= old.restarts
                                       ELSE new.restarts > old.restarts
              /\ IsDead(slot[f]) => slot'[f] = slot[f] /\ new.pid = NULL
  <2>1. slot[f] \in alive /\ slot[f] \in Addr /\ srv[slot[f]].filetype = f
    BY <1>10 DEF IInv, TypeOK, SlotsUsable
  <2>2. CASE f = ft
    <3>1. slot'[f] = a /\ slot[f] = s /\ a # s
      <4>1. slot' = [slot EXCEPT ![ft] = a] /\ a \notin alive
        <5>1. slot' = [slot EXCEPT ![ft] = a]
          BY <1>6, Zenon
        <5> QED
          BY <5>1
      <4>2. slot'[f] = a
        BY <2>2, <4>1 DEF IInv, TypeOK
      <4>3. slot[f] = s
        BY <1>2, <1>3, <2>2
      <4> QED
        BY <2>1, <4>1, <4>2, <4>3
    <3>2. ~IsDead(s)
      BY <1>2 DEF DeadIdle
    <3> QED
      BY <1>8, <3>1, <3>2
  <2>3. CASE f # ft
    <3>1. slot'[f] = slot[f]
      BY <1>6, <2>3 DEF IInv, TypeOK
    <3>2. slot[f] # s /\ slot[f] # a
      BY <2>1, <2>3
    <3>3. srv'[slot[f]] = srv[slot[f]] /\ srv[slot[f]].restarts \in Nat
      BY <1>2, <1>8, <2>1, <3>2 DEF IInv, TypeOK, Server
    <3> QED
      BY <2>1, <3>1, <3>3 DEF DeadIdle
  <2> QED
    BY <2>2, <2>3
<1> QED
  BY <1>9, <1>10 DEF GivesUpStep

LEMMA StopGivesUp ==
  ASSUME IInv, DeadIdle, StopAndInitAll \/ TerminateAll
  PROVE  DeadIdle' /\ GivesUpStep
<1> USE LspServerAssumption
<1>1. \A b \in Addr : /\ Stopped[b].restarts = srv[b].restarts
                      /\ Stopped[b].pid = srv[b].pid
  BY StoppedFields
<1>2. CASE TerminateAll
  <2>1. srv' = Stopped /\ \A f \in Filetype : slot'[f] = NULL
    BY <1>2 DEF TerminateAll
  <2> QED
    BY <1>1, <2>1 DEF DeadIdle, IsDead, GivesUpStep
<1>3. CASE StopAndInitAll
  <2>1. stops' # stops
    BY <1>3 DEF StopAndInitAll, IInv, TypeOK
  <2>2. \A b \in Addr : \/ srv'[b] = Stopped[b]
                       \/ \E f : srv'[b] = NewServer(f, 0)
    BY <1>3 DEF StopAndInitAll
  <2>3. \A f : NewServer(f, 0).pid = NULL
    BY DEF NewServer
  <2> QED
    BY <1>1, <2>1, <2>2, <2>3 DEF DeadIdle, IsDead, GivesUpStep
<1> QED
  BY <1>2, <1>3

(* A server that keeps crashing, or whose executable is missing, is given up *)
(* for good: its count of restarts never falls and past the limit no process *)
(* is started for its filetype before the next reconfiguration.              *)
THEOREM ServersGivenUp == NoSharing => (Spec => GivesUp)
<1>1. Init => DeadIdle
  <2>1. \A f : NewServer(f, 0).pid = NULL
    BY DEF NewServer
  <2> QED
    BY <2>1 DEF Init, DeadIdle
<1>2. ASSUME NoSharing, IInv, DeadIdle, [Next]_vars
      PROVE  DeadIdle' /\ [GivesUpStep]_vars
  <2>1. CASE UNCHANGED vars
    BY <1>2, <2>1 DEF vars, DeadIdle, IsDead
  <2>2. CASE StopAndInitAll \/ TerminateAll
    BY <1>2, <2>2, StopGivesUp
  <2>3. ASSUME NEW ft \in Filetype, GetServer(ft)
        PROVE  DeadIdle' /\ GivesUpStep
    BY <1>2, <2>3, GetServerGivesUp
  <2>4. ASSUME NEW ft \in Filetype, UseServer(ft)
        PROVE  DeadIdle' /\ GivesUpStep
    BY <1>2, <2>4, QuietStarts, StartsNothingDead DEF UseServer
  <2>5. ASSUME NEW p \in Launch, ProcessStopped(p)
        PROVE  DeadIdle' /\ GivesUpStep
    BY <1>2, <2>5, NormalStopStarts, StartsNothingDead, CrashGivesUp
  <2>6. ASSUME NEW p \in Launch, ProcessExits(p) \/ ClientPanic(p)
        PROVE  DeadIdle' /\ GivesUpStep
    BY <1>2, <2>6, QuietStarts, StartsNothingDead DEF ProcessExits, ClientPanic
  <2>7. ASSUME NEW s \in Addr, FreeAfterDelay(s) \/ KillCb(s)
        PROVE  DeadIdle' /\ GivesUpStep
    BY <1>2, <2>7, QuietStarts, StartsNothingDead DEF FreeAfterDelay, KillCb
  <2>8. ASSUME NEW p \in Launch, NEW call \in Call, NEW ok \in BOOLEAN,
               DeliverReply(p, call, ok) \/ DeliverFailure(p, call)
        PROVE  DeadIdle' /\ GivesUpStep
    BY <1>2, <2>8, DeliveryStarts, StartsNothingDead
  <2> QED
    BY <1>2, <2>1, <2>2, <2>3, <2>4, <2>5, <2>6, <2>7, <2>8 DEF Next
<1>3. ASSUME NoSharing PROVE Spec => GivesUp
  <2>1. Spec => []IInv
    BY <1>3, IInvInvariant
  <2>2. IInv /\ DeadIdle /\ [Next]_vars => DeadIdle' /\ [GivesUpStep]_vars
    BY <1>2, <1>3
  <2> QED
    BY <1>1, <2>1, <2>2, PTL DEF Spec, GivesUp
<1> QED
  BY <1>3

-------------------------------------------------------------------------------
(* The refinement: the structs, slots and callbacks implement one LspService *)
(* per filetype.                                                             *)

(* The two variables of LspService, as the refinement mapping gives them. *)
Svc == [f \in Filetype |-> ServiceOf(f)]
Closing == {srv[s].pid : s \in inShutdown}

AbstractStep == Service!ServiceNext \/ UNCHANGED Service!serviceVars

(* What the mapping makes of a struct. *)
View(s) ==
  IF s.pid # NULL
  THEN [state |-> IF s.startupShutdown THEN "starting" ELSE "ready",
        proc |-> s.pid, crashes |-> s.restarts]
  ELSE IF s.notUsed \/ s.restarts >= DeadAfter
  THEN [state |-> "off", proc |-> NULL, crashes |-> 0]
  ELSE [state |-> "idle", proc |-> NULL, crashes |-> s.restarts]

LEMMA SvcOfSlot ==
  ASSUME NEW f \in Filetype, slot[f] # NULL
  PROVE  Svc[f] = View(srv[slot[f]])
  BY DEF Svc, ServiceOf, View

LEMMA SvcOfSlotNext ==
  ASSUME NEW f \in Filetype, slot'[f] # NULL
  PROVE  Svc'[f] = View(srv'[slot'[f]])
  BY DEF Svc, ServiceOf, View

LEMMA ViewFields ==
  ASSUME NEW s
  PROVE  /\ View(s).proc = s.pid
         /\ s.pid = NULL /\ ~s.notUsed /\ ~(s.restarts >= DeadAfter) =>
              View(s).state = "idle" /\ View(s).crashes = s.restarts
         /\ s.pid # NULL =>
              /\ View(s).state = IF s.startupShutdown THEN "starting" ELSE "ready"
              /\ View(s).crashes = s.restarts
<1>1. CASE s.pid # NULL
  BY <1>1 DEF View
<1>2. CASE s.pid = NULL /\ (s.notUsed \/ s.restarts >= DeadAfter)
  BY <1>2 DEF View
<1>3. CASE s.pid = NULL /\ ~s.notUsed /\ ~(s.restarts >= DeadAfter)
  BY <1>3 DEF View
<1> QED
  BY <1>1, <1>2, <1>3

(* A filetype whose slot and struct stay as they are keeps its service. *)
LEMMA SameService ==
  ASSUME NEW f \in Filetype, slot'[f] = slot[f],
         slot[f] # NULL => srv'[slot[f]] = srv[slot[f]]
  PROVE  Svc'[f] = Svc[f]
  BY DEF Svc, ServiceOf

(* One step of LspService is a change of one filetype's service... *)
LEMMA OneService ==
  ASSUME NEW f \in Filetype, NEW x,
         Svc'[f] = x,
         \A g \in Filetype \ {f} : Svc'[g] = Svc[g]
  PROVE  Svc' = [Svc EXCEPT ![f] = x]
<1>1. Svc' = [g \in Filetype |-> Svc'[g]]
  BY DEF Svc
<1>2. \A g \in Filetype : Svc'[g] = IF g = f THEN x ELSE Svc[g]
  OBVIOUS
<1>3. Svc = [g \in Filetype |-> Svc[g]]
  BY DEF Svc
<1> QED
  BY <1>1, <1>2, <1>3, Zenon

(* ... or none at all. *)
LEMMA Stutter ==
  ASSUME \A f \in Filetype : Svc'[f] = Svc[f], Closing' = Closing
  PROVE  AbstractStep
<1>1. Svc' = Svc
  <2>1. Svc' = [g \in Filetype |-> Svc'[g]] /\ Svc = [g \in Filetype |-> Svc[g]]
    BY DEF Svc
  <2> QED
    BY <2>1, Zenon
<1> QED
  BY <1>1 DEF AbstractStep, Service!serviceVars, Svc, Closing

LEMMA StartStep ==
  ASSUME NEW f \in Filetype, NEW p \in Launch,
         Svc[f].state = "idle",
         p \notin {Svc[g].proc : g \in Filetype} \cup Closing,
         Svc' = [Svc EXCEPT ![f] =
                   [state |-> "starting", proc |-> p, crashes |-> Svc[f].crashes]],
         Closing' = Closing
  PROVE  AbstractStep
<1>1. Service!Start(f, p)
  BY DEF Service!Start, Service!Starting, Service!Backing, Svc, Closing
<1> QED
  BY <1>1 DEF AbstractStep, Service!ServiceNext

LEMMA SwitchOffStep ==
  ASSUME NEW f \in Filetype, Svc[f].state = "idle",
         Svc' = [Svc EXCEPT ![f] = [state |-> "off", proc |-> NULL, crashes |-> 0]],
         Closing' = Closing
  PROVE  AbstractStep
<1>1. Service!SwitchOff(f)
  BY DEF Service!SwitchOff, Service!Off, Svc, Closing
<1> QED
  BY <1>1 DEF AbstractStep, Service!ServiceNext

LEMMA ReadyStep ==
  ASSUME NEW f \in Filetype, Svc[f].state = "starting",
         Svc' = [Svc EXCEPT ![f].state = "ready"],
         Closing' = Closing
  PROVE  AbstractStep
<1>1. Service!BecomeReady(f)
  BY DEF Service!BecomeReady, Svc, Closing
<1> QED
  BY <1>1 DEF AbstractStep, Service!ServiceNext

LEMMA CrashStep ==
  ASSUME NEW f \in Filetype,
         Svc[f].state \in {"starting", "ready"},
         Closing' = Closing,
         NEW n, n = Svc[f].crashes + 1,
         \/ Svc' = [Svc EXCEPT ![f] = [state |-> "off", proc |-> NULL, crashes |-> 0]]
         \/ \E p \in Launch :
              /\ n < DeadAfter
              /\ p \notin {Svc[g].proc : g \in Filetype} \ {Svc[f].proc}
              /\ p \notin Closing
              /\ Svc' = [Svc EXCEPT ![f] =
                           [state |-> "starting", proc |-> p, crashes |-> n]]
  PROVE  AbstractStep
<1>1. Service!Crash(f)
  BY DEF Service!Crash, Service!Off, Service!Starting, Service!Backing, Svc, Closing
<1> QED
  BY <1>1 DEF AbstractStep, Service!ServiceNext

LEMMA ReapStep ==
  ASSUME NEW p \in Closing, p \in Launch, Closing' = Closing \ {p}, Svc' = Svc
  PROVE  AbstractStep
<1>1. Service!Reap(p)
  BY DEF Service!Reap, Svc, Closing
<1> QED
  BY <1>1 DEF AbstractStep, Service!ServiceNext

LEMMA DropStep ==
  ASSUME NEW anew \in BOOLEAN,
         \A f \in Filetype : Svc[f].state # "absent",
         Svc' = [f \in Filetype |->
                   IF anew THEN [state |-> "idle", proc |-> NULL, crashes |-> 0]
                           ELSE [state |-> "absent", proc |-> NULL, crashes |-> 0]],
         Closing' = Closing \cup ({Svc[f].proc : f \in Filetype} \ {NULL})
  PROVE  AbstractStep
<1>1. Service!Drop(anew)
  BY DEF Service!Drop, Service!Idle, Service!Absent, Service!Backing, Svc, Closing
<1> QED
  BY <1>1 DEF AbstractStep, Service!ServiceNext

-------------------------------------------------------------------------------
(* What backs the services and what is being stopped.                        *)

(* The processes of services and of servers being stopped have not been      *)
(* reaped, so that their identities are not free.                            *)
LEMMA BusyLaunches ==
  ASSUME IInv, NEW p \in Launch,
         p \in {Svc[g].proc : g \in Filetype} \cup Closing
  PROVE  launch[p].proc # "none"
<1> USE LspServerAssumption
<1>1. PICK a \in Addr : srv[a].pid = p
  <2>1. CASE p \in Closing
    BY <2>1 DEF Closing, IInv, TypeOK
  <2>2. CASE p \in {Svc[g].proc : g \in Filetype}
    <3>1. PICK g \in Filetype : Svc[g].proc = p
      BY <2>2
    <3>2. p # NULL
      OBVIOUS
    <3>3. slot[g] # NULL
      <4>1. slot[g] = NULL => ServiceOf(g).proc = NULL
        BY DEF ServiceOf
      <4>2. Svc[g] = ServiceOf(g)
        BY DEF Svc
      <4> QED
        BY <3>1, <3>2, <4>1, <4>2
    <3>4. srv[slot[g]].pid = p
      BY <3>1, <3>3, SvcOfSlot, ViewFields
    <3> QED
      BY <3>3, <3>4 DEF IInv, TypeOK
  <2> QED
    BY <2>1, <2>2
<1>2. srv[a].pid # NULL
  BY <1>1
<1> QED
  BY <1>1, <1>2 DEF IInv, PidsOwned

(* Slots name different structs, none of which is being stopped. *)
LEMMA SlotFacts ==
  ASSUME IInv, NEW f \in Filetype, slot[f] # NULL
  PROVE  /\ slot[f] \in Addr
         /\ slot[f] \in alive
         /\ slot[f] \notin inShutdown
         /\ srv[slot[f]] \in Server
         /\ \A g \in Filetype : slot[g] = slot[f] => g = f
  BY LspServerAssumption DEF IInv, TypeOK, SlotsUsable

LEMMA ClosingKept ==
  ASSUME inShutdown' = inShutdown,
         \A a \in inShutdown : srv'[a].pid = srv[a].pid
  PROVE  Closing' = Closing
  BY DEF Closing

-------------------------------------------------------------------------------
(* Actions that leave the services alone.                                    *)

LEMMA QuietRefines ==
  ASSUME UNCHANGED <<slot, inShutdown, srv>>
  PROVE  AbstractStep
<1>1. \A f \in Filetype : Svc'[f] = Svc[f]
  BY DEF Svc, ServiceOf
<1>2. Closing' = Closing
  BY DEF Closing
<1> QED
  BY <1>1, <1>2, Stutter

(* The handshake of one server ends, or nothing changes. *)
LEMMA HandshakeRefines ==
  ASSUME IInv, NEW s \in Addr, UNCHANGED <<slot, inShutdown>>,
         srv' = [srv EXCEPT ![s].startupShutdown = FALSE]
  PROVE  AbstractStep
<1> USE LspServerAssumption
<1>1. /\ srv'[s] = [srv[s] EXCEPT !.startupShutdown = FALSE]
      /\ \A a \in Addr \ {s} : srv'[a] = srv[a]
      /\ srv[s] \in Server
  BY DEF IInv, TypeOK
<1>2. /\ srv'[s].pid = srv[s].pid
      /\ srv'[s].notUsed = srv[s].notUsed
      /\ srv'[s].restarts = srv[s].restarts
      /\ srv'[s].startupShutdown = FALSE
  BY <1>1 DEF Server
<1>3. Closing' = Closing
  BY <1>1, <1>2, ClosingKept DEF IInv, TypeOK
<1>4. ASSUME NEW g \in Filetype, slot[g] # s
      PROVE  Svc'[g] = Svc[g]
  BY <1>1, <1>4, SameService, SlotFacts
<1>5. CASE \A f \in Filetype : slot[f] # s
  BY <1>3, <1>4, <1>5, Stutter
<1>6. ASSUME NEW f \in Filetype, slot[f] = s
      PROVE  AbstractStep
  <2>1. /\ Svc[f] = View(srv[s])
        /\ Svc'[f] = View(srv'[s])
        /\ \A g \in Filetype \ {f} : slot[g] # s
    BY <1>6, SvcOfSlot, SvcOfSlotNext, SlotFacts
  <2>2. CASE srv[s].pid = NULL \/ ~srv[s].startupShutdown
    <3>1. Svc'[f] = Svc[f]
      BY <1>1, <1>2, <2>1, <2>2 DEF View, Server
    <3> QED
      BY <1>3, <1>4, <2>1, <3>1, Stutter
  <2>3. CASE srv[s].pid # NULL /\ srv[s].startupShutdown
    <3>1. Svc[f].state = "starting" /\ Svc'[f] = [Svc[f] EXCEPT !.state = "ready"]
      BY <1>2, <2>1, <2>3 DEF View
    <3>2. Svc' = [Svc EXCEPT ![f] = [Svc[f] EXCEPT !.state = "ready"]]
      BY <1>4, <2>1, <3>1, OneService
    <3>3. Svc' = [Svc EXCEPT ![f].state = "ready"]
      BY <3>2
    <3> QED
      BY <1>3, <3>1, <3>3, ReadyStep
  <2> QED
    BY <2>2, <2>3
<1> QED
  BY <1>5, <1>6

LEMMA DeliveryRefines ==
  ASSUME IInv, NEW p \in Launch, NEW call \in Call, NEW ok \in BOOLEAN,
         DeliverReply(p, call, ok) \/ DeliverFailure(p, call)
  PROVE  AbstractStep
<1>1. UNCHANGED <<slot, inShutdown>>
  BY DEF DeliverReply, DeliverFailure
<1>2. \/ srv' = srv
      \/ /\ srv' = [srv EXCEPT ![launch[p].owner].startupShutdown = FALSE]
         /\ call \in launch[p].pending
  BY DEF DeliverReply, DeliverFailure, CallCb, InitializeCb, ShutdownCb
<1>3. CASE srv' = srv
  BY <1>1, <1>3, QuietRefines
<1>4. CASE /\ srv' = [srv EXCEPT ![launch[p].owner].startupShutdown = FALSE]
           /\ call \in launch[p].pending
  <2>1. launch[p].owner \in Addr
    BY <1>4 DEF IInv, Handshake
  <2> QED
    BY <1>1, <1>4, <2>1, HandshakeRefines
<1> QED
  BY <1>2, <1>3, <1>4

-------------------------------------------------------------------------------
(* Starting a server, or giving it up.                                       *)

LEMMA GetServerRefines ==
  ASSUME IInv, NoSharing, NEW ft \in Filetype, GetServer(ft)
  PROVE  AbstractStep
<1> USE LspServerAssumption
<1> PICK s : s = slot[ft]
  OBVIOUS
<1>1. /\ s \in Addr
      /\ s # NULL
      /\ Resolve(ft) = s
      /\ RefServer(s) = NULL
  BY DEF IInv, TypeOK, GetServer, Initialised, SlotsWhole, Resolve,
         RefServer, NoSharing, Server
<1>2. /\ Startable(s)
      /\ UNCHANGED <<slot, inShutdown>>
      /\ \/ srv' = [srv EXCEPT ![s].notUsed = TRUE]
         \/ \E p \in Launch : SpawnOk(s, srv[s], p, srv, launch)
         \/ SpawnFails(s, srv[s], srv, launch)
  BY <1>1 DEF GetServer
<1>3. /\ srv[s] \in Server
      /\ srv[s].pid = NULL /\ ~srv[s].notUsed /\ ~(srv[s].restarts >= DeadAfter)
      /\ \A g \in Filetype \ {ft} : slot[g] # s
      /\ s \notin inShutdown
      /\ inShutdown \subseteq Addr
  BY <1>1, <1>2, SlotFacts DEF Startable, IsDead, IInv, TypeOK
<1>4. /\ Svc[ft].state = "idle"
      /\ Svc[ft].crashes = srv[s].restarts
  BY <1>1, <1>3, SvcOfSlot, ViewFields
<1>5. ASSUME \A a \in Addr \ {s} : srv'[a] = srv[a]
      PROVE  /\ Closing' = Closing
             /\ \A g \in Filetype \ {ft} : Svc'[g] = Svc[g]
             /\ Svc'[ft] = View(srv'[s])
  <2>1. Closing' = Closing
    BY <1>2, <1>3, <1>5, ClosingKept
  <2>2. \A g \in Filetype \ {ft} : Svc'[g] = Svc[g]
    BY <1>2, <1>3, <1>5, SameService, SlotFacts
  <2>3. Svc'[ft] = View(srv'[s])
    BY <1>1, <1>2, SvcOfSlotNext
  <2> QED
    BY <2>1, <2>2, <2>3
<1>6. CASE srv' = [srv EXCEPT ![s].notUsed = TRUE]
  <2>1. /\ \A a \in Addr \ {s} : srv'[a] = srv[a]
        /\ srv'[s].pid = NULL /\ srv'[s].notUsed
    BY <1>1, <1>3, <1>6 DEF IInv, TypeOK, Server
  <2>2. Svc'[ft] = [state |-> "off", proc |-> NULL, crashes |-> 0]
    BY <1>5, <2>1 DEF View
  <2> QED
    BY <1>4, <1>5, <2>1, <2>2, OneService, SwitchOffStep
<1>7. CASE SpawnFails(s, srv[s], srv, launch)
  <2>1. srv' = [srv EXCEPT ![s] = [srv[s] EXCEPT !.restarts = GaveUp]]
    BY <1>7 DEF SpawnFails
  <2>2. /\ \A a \in Addr \ {s} : srv'[a] = srv[a]
        /\ srv'[s].pid = NULL /\ srv'[s].restarts = GaveUp
    BY <1>1, <1>3, <2>1 DEF IInv, TypeOK, Server
  <2>3. GaveUp >= DeadAfter
    BY DEF GaveUp
  <2>4. Svc'[ft] = [state |-> "off", proc |-> NULL, crashes |-> 0]
    BY <1>5, <2>2, <2>3 DEF View
  <2> QED
    BY <1>4, <1>5, <2>2, <2>4, OneService, SwitchOffStep
<1>8. ASSUME NEW p \in Launch, SpawnOk(s, srv[s], p, srv, launch)
      PROVE  AbstractStep
  <2>1. /\ srv' = [srv EXCEPT ![s] =
                     [srv[s] EXCEPT !.pid = p, !.rpc = p, !.startupShutdown = TRUE]]
        /\ FreeLaunch(launch[p])
    BY <1>8 DEF SpawnOk
  <2>2. /\ \A a \in Addr \ {s} : srv'[a] = srv[a]
        /\ srv'[s].pid = p /\ srv'[s].restarts = srv[s].restarts
        /\ srv'[s].startupShutdown
    BY <1>1, <1>3, <2>1 DEF IInv, TypeOK, Server
  <2>3. p # NULL
    OBVIOUS
  <2>4. Svc'[ft] = [state |-> "starting", proc |-> p, crashes |-> Svc[ft].crashes]
    BY <1>4, <1>5, <2>2, <2>3 DEF View
  <2>5. p \notin {Svc[g].proc : g \in Filetype} \cup Closing
    BY <2>1, BusyLaunches DEF FreeLaunch
  <2>6. Svc' = [Svc EXCEPT ![ft] =
                  [state |-> "starting", proc |-> p, crashes |-> Svc[ft].crashes]]
    BY <1>5, <2>2, <2>4, OneService
  <2> QED
    BY <1>4, <1>5, <2>2, <2>5, <2>6, StartStep
<1> QED
  BY <1>2, <1>6, <1>7, <1>8

-------------------------------------------------------------------------------
(* The end of a process.                                                     *)

(* A server being stopped leaves servers_in_shutdown, and with it the only   *)
(* process it had.                                                           *)
LEMMA NormalStopRefines ==
  ASSUME IInv, NEW p \in Launch, ProcessStopped(p), launch[p].owner \in inShutdown
  PROVE  AbstractStep
<1> USE LspServerAssumption
<1> PICK s : s = launch[p].owner
  OBVIOUS
<1>1. launch[p].proc = "exited"
  BY DEF ProcessStopped
<1>2. /\ s \in Addr /\ s \in inShutdown /\ srv[s].pid = p
      /\ inShutdown' = inShutdown \ {s}
      /\ srv' = [srv EXCEPT ![s].pid = NULL]
      /\ slot' = slot
  BY <1>1, ReapedFields DEF ProcessStopped
<1>3. \A a \in Addr \ {s} : srv'[a] = srv[a] /\ srv[a].pid # p
  <2>1. \A a \in Addr \ {s} : srv'[a] = srv[a]
    BY <1>2 DEF IInv, TypeOK
  <2>2. \A a \in Addr : srv[a].pid = p => launch[p].owner = a
    BY DEF IInv, PidsOwned
  <2> QED
    BY <1>2, <2>1, <2>2
<1>4. Closing' = Closing \ {p} /\ p \in Closing
  BY <1>2, <1>3 DEF Closing, IInv, TypeOK
<1>5. \A f \in Filetype : Svc'[f] = Svc[f]
  BY <1>2, <1>3, SameService, SlotFacts
<1>6. Svc' = Svc
  <2>1. Svc' = [g \in Filetype |-> Svc'[g]] /\ Svc = [g \in Filetype |-> Svc[g]]
    BY DEF Svc
  <2> QED
    BY <1>5, <2>1, Zenon
<1> QED
  BY <1>4, <1>6, ReapStep

(* A crashed server's slot gets a new struct, started or given up. *)
LEMMA CrashRefines ==
  ASSUME IInv, NEW p \in Launch, ProcessStopped(p), launch[p].owner \notin inShutdown
  PROVE  AbstractStep
<1> USE LspServerAssumption
<1> PICK s : s = launch[p].owner
  OBVIOUS
<1> PICK stopped : stopped = StoppedSrv(p)
  OBVIOUS
<1> PICK reaped : reaped = ReapedLaunch(p)
  OBVIOUS
<1> PICK ft : ft = srv[s].filetype
  OBVIOUS
<1> PICK n : n = srv[s].restarts + 1
  OBVIOUS
<1> PICK fresh : fresh = NewServer(ft, n)
  OBVIOUS
<1>1. launch[p].proc = "exited"
  BY DEF ProcessStopped
<1>2. /\ s \in Addr /\ s \in alive /\ srv[s].pid = p
      /\ stopped \in [Addr -> Server]
      /\ stopped[s].pid = NULL
      /\ \A a \in Addr \ {s} : stopped[a] = srv[a]
      /\ \A q \in Launch \ {p} : reaped[q] = launch[q]
  <2>1. s \in Addr /\ s \in alive /\ srv[s].pid = p
    BY <1>1, ReapedFields
  <2>2. stopped \in [Addr -> Server] /\ stopped[s].pid = NULL
    BY <1>1, ReapedFields
  <2>3. \A a \in Addr \ {s} : stopped[a] = srv[a]
    BY <2>1 DEF IInv, TypeOK, StoppedSrv
  <2>4. \A q \in Launch \ {p} : reaped[q] = launch[q]
    BY DEF IInv, TypeOK, ReapedLaunch
  <2> QED
    BY <2>1, <2>2, <2>3, <2>4
<1>3. /\ srv[s] \in Server
      /\ srv[s].restarts \in Nat /\ n \in Nat
      /\ ft \in Filetype
      /\ slot[ft] = s
      /\ Initialised
      /\ s # NULL /\ p # NULL
  BY <1>1, <1>2 DEF IInv, TypeOK, Server, NoOrphanProcess, Initialised
<1>4. /\ fresh \in Server
      /\ fresh.pid = NULL
      /\ fresh.restarts = n
  BY <1>3, NewServerType
<1>5. PICK a \in Addr \ alive :
        /\ slot' = [slot EXCEPT ![ft] = a]
        /\ inShutdown' = inShutdown
        /\ IF fresh.restarts >= DeadAfter
           THEN srv' = [stopped EXCEPT ![a] = fresh]
           ELSE \/ \E q \in Launch : SpawnOk(a, fresh, q, stopped, reaped)
                \/ SpawnFails(a, fresh, stopped, reaped)
  BY <1>3 DEF ProcessStopped, StoppedSrv, ReapedLaunch
<1>6. a # s /\ a \in Addr /\ a # NULL /\ a \notin inShutdown
  BY <1>2, <1>5 DEF IInv, TypeOK, PidsOwned
<1>7. /\ slot'[ft] = a
      /\ \A g \in Filetype \ {ft} : slot'[g] = slot[g] /\ slot[g] # s /\ slot[g] # a
  BY <1>3, <1>5, SlotFacts DEF IInv, TypeOK, SlotsUsable
<1>8. ASSUME \A b \in Addr \ {a} : srv'[b] = stopped[b]
      PROVE  /\ Closing' = Closing
             /\ \A g \in Filetype \ {ft} : Svc'[g] = Svc[g]
  <2>1. \A b \in inShutdown : srv'[b].pid = srv[b].pid
    BY <1>2, <1>6, <1>8 DEF IInv, TypeOK
  <2>2. Closing' = Closing
    BY <1>5, <2>1, ClosingKept
  <2>3. ASSUME NEW g \in Filetype \ {ft}
        PROVE  Svc'[g] = Svc[g]
    <3>1. slot[g] # NULL => srv'[slot[g]] = srv[slot[g]]
      BY <1>2, <1>7, <1>8, SlotFacts
    <3> QED
      BY <1>7, <3>1, SameService
  <2> QED
    BY <2>2, <2>3
<1>9. /\ Svc'[ft] = View(srv'[a])
      /\ Svc[ft].state \in {"starting", "ready"}
      /\ n = Svc[ft].crashes + 1
      /\ Svc[ft].proc = p
  <2>1. Svc'[ft] = View(srv'[a])
    BY <1>3, <1>6, <1>7, SvcOfSlotNext
  <2>2. Svc[ft] = View(srv[s])
    BY <1>3, SvcOfSlot
  <2> QED
    BY <1>2, <1>3, <2>1, <2>2, ViewFields
<1>10. CASE srv' = [stopped EXCEPT ![a] = fresh] /\ fresh.restarts >= DeadAfter
  <2>1. srv'[a] = fresh /\ \A b \in Addr \ {a} : srv'[b] = stopped[b]
    BY <1>2, <1>6, <1>10
  <2>2. Svc'[ft] = [state |-> "off", proc |-> NULL, crashes |-> 0]
    BY <1>4, <1>9, <1>10, <2>1 DEF View
  <2> QED
    BY <1>3, <1>8, <1>9, <2>1, <2>2, OneService, CrashStep
<1>11. CASE SpawnFails(a, fresh, stopped, reaped)
  <2>1. srv' = [stopped EXCEPT ![a] = [fresh EXCEPT !.restarts = GaveUp]]
    BY <1>11 DEF SpawnFails
  <2>2. /\ \A b \in Addr \ {a} : srv'[b] = stopped[b]
        /\ srv'[a].pid = NULL /\ srv'[a].restarts = GaveUp
    BY <1>2, <1>4, <1>6, <2>1 DEF Server
  <2>3. GaveUp >= DeadAfter
    BY DEF GaveUp
  <2>4. Svc'[ft] = [state |-> "off", proc |-> NULL, crashes |-> 0]
    BY <1>9, <2>2, <2>3 DEF View
  <2> QED
    BY <1>3, <1>8, <1>9, <2>2, <2>4, OneService, CrashStep
<1>12. ASSUME NEW q \in Launch, SpawnOk(a, fresh, q, stopped, reaped),
              ~(fresh.restarts >= DeadAfter)
       PROVE  AbstractStep
  <2>1. /\ srv' = [stopped EXCEPT ![a] =
                     [fresh EXCEPT !.pid = q, !.rpc = q, !.startupShutdown = TRUE]]
        /\ FreeLaunch(reaped[q])
    BY <1>12 DEF SpawnOk
  <2>2. /\ \A b \in Addr \ {a} : srv'[b] = stopped[b]
        /\ srv'[a].pid = q /\ srv'[a].restarts = n /\ srv'[a].startupShutdown
    BY <1>2, <1>4, <1>6, <2>1 DEF Server
  <2>3. Svc'[ft] = [state |-> "starting", proc |-> q, crashes |-> n]
    BY <1>9, <2>2 DEF View
  <2>4. n < DeadAfter
    BY <1>3, <1>4, <1>12
  <2>5. /\ q \notin {Svc[g].proc : g \in Filetype} \ {Svc[ft].proc}
        /\ q \notin Closing
    <3>1. CASE q # p
      BY <1>2, <2>1, <3>1, BusyLaunches DEF FreeLaunch
    <3>2. CASE q = p
      <4>1. \A b \in Addr : srv[b].pid = p => b = s
        BY DEF IInv, PidsOwned
      <4> QED
        BY <1>9, <3>2, <4>1 DEF Closing, IInv, TypeOK
    <3> QED
      BY <3>1, <3>2
  <2>6. Svc' = [Svc EXCEPT ![ft] = [state |-> "starting", proc |-> q, crashes |-> n]]
    BY <1>3, <1>8, <2>2, <2>3, OneService
  <2>7. \E r \in Launch :
          /\ n < DeadAfter
          /\ r \notin {Svc[g].proc : g \in Filetype} \ {Svc[ft].proc}
          /\ r \notin Closing
          /\ Svc' = [Svc EXCEPT ![ft] = [state |-> "starting", proc |-> r, crashes |-> n]]
    BY <2>4, <2>5, <2>6
  <2>8. Closing' = Closing
    BY <1>8, <2>2
  <2>9. Svc[ft].state \in {"starting", "ready"} /\ n = Svc[ft].crashes + 1
    BY <1>9
  <2> QED
    BY <1>3, <2>7, <2>8, <2>9, CrashStep, ZenonT(60)
<1> QED
  BY <1>5, <1>10, <1>11, <1>12

-------------------------------------------------------------------------------
(* Stopping all servers.                                                     *)

(* lsp_servers exists until Geany quits. *)
SlotsUntilQuit == ~quitting => \A f \in Filetype : slot[f] # NULL

LEMMA SlotsUntilQuitKept ==
  ASSUME IInv, SlotsUntilQuit, [Next]_vars
  PROVE  SlotsUntilQuit'
<1> USE LspServerAssumption
<1>1. CASE slot' = slot /\ quitting' = quitting
  BY <1>1 DEF SlotsUntilQuit
<1>2. CASE StopAndInitAll
  <2>1. slot' \in [Filetype -> Addr \ (alive \ ToFree)]
    BY <1>2 DEF StopAndInitAll
  <2> QED
    BY <2>1 DEF SlotsUntilQuit
<1>3. CASE TerminateAll
  BY <1>3 DEF TerminateAll, SlotsUntilQuit
<1>4. ASSUME NEW p \in Launch, ProcessStopped(p)
      PROVE  SlotsUntilQuit'
  <2>1. quitting' = quitting
    BY <1>4 DEF ProcessStopped
  <2>2. \/ slot' = slot
        \/ \E a \in Addr : slot' = [slot EXCEPT ![srv[launch[p].owner].filetype] = a]
    BY <1>4 DEF ProcessStopped
  <2>3. \A f \in Filetype : slot[f] # NULL => slot'[f] # NULL
    BY <2>2 DEF IInv, TypeOK
  <2> QED
    BY <2>1, <2>3 DEF SlotsUntilQuit
<1>5. ASSUME NEW ft \in Filetype, GetServer(ft) \/ UseServer(ft)
      PROVE  SlotsUntilQuit'
  BY <1>1, <1>5 DEF GetServer, UseServer
<1>6. ASSUME NEW p \in Launch, ProcessExits(p) \/ ClientPanic(p)
      PROVE  SlotsUntilQuit'
  BY <1>1, <1>6 DEF ProcessExits, ClientPanic
<1>7. ASSUME NEW s \in Addr, FreeAfterDelay(s) \/ KillCb(s)
      PROVE  SlotsUntilQuit'
  BY <1>1, <1>7 DEF FreeAfterDelay, KillCb
<1>8. ASSUME NEW p \in Launch, NEW call \in Call, NEW ok \in BOOLEAN,
             DeliverReply(p, call, ok) \/ DeliverFailure(p, call)
      PROVE  SlotsUntilQuit'
  BY <1>1, <1>8 DEF DeliverReply, DeliverFailure
<1>9. CASE UNCHANGED vars
  BY <1>1, <1>9 DEF vars
<1> QED
  BY <1>2, <1>3, <1>4, <1>5, <1>6, <1>7, <1>8, <1>9 DEF Next

(* Both stop_and_init_all_servers() and terminate_all() move the processes   *)
(* of all services to servers_in_shutdown.                                   *)
LEMMA BackingStops ==
  ASSUME IInv, \A f \in Filetype : slot[f] # NULL,
         inShutdown' = inShutdown \cup ToStop,
         \A a \in inShutdown \cup ToStop : srv'[a].pid = srv[a].pid
  PROVE  Closing' = Closing \cup ({Svc[f].proc : f \in Filetype} \ {NULL})
<1> USE LspServerAssumption
<1>1. \A f \in Filetype : Svc[f].proc = srv[slot[f]].pid
  BY SvcOfSlot, ViewFields
<1>2. \A f \in Filetype : srv[slot[f]].pid # NULL => slot[f] \in ToStop
  BY SlotFacts DEF ToStop, SlotServers
<1>3. \A a \in ToStop : srv[a].pid # NULL /\ \E f \in Filetype : slot[f] = a
  BY DEF ToStop, SlotServers
<1>4. Closing' = {srv[a].pid : a \in inShutdown \cup ToStop}
  BY DEF Closing
<1>5. Closing' \subseteq Closing \cup ({Svc[f].proc : f \in Filetype} \ {NULL})
  BY <1>1, <1>3, <1>4 DEF Closing
<1>6. Closing \cup ({Svc[f].proc : f \in Filetype} \ {NULL}) \subseteq Closing'
  BY <1>1, <1>2, <1>4 DEF Closing
<1> QED
  BY <1>5, <1>6

LEMMA DropRefines ==
  ASSUME IInv, SlotsUntilQuit, StopAndInitAll \/ TerminateAll
  PROVE  AbstractStep
<1> USE LspServerAssumption
<1>1. /\ \A f \in Filetype : slot[f] # NULL
      /\ inShutdown' = inShutdown \cup ToStop
      /\ inShutdown \cup ToStop \subseteq alive \cap Addr
  <2>1. \A f \in Filetype : slot[f] # NULL
    BY DEF SlotsUntilQuit, StopAndInitAll, TerminateAll
  <2>2. inShutdown' = inShutdown \cup ToStop
    BY DEF StopAndInitAll, TerminateAll, StopAll
  <2>3. inShutdown \subseteq alive \cap Addr
    BY DEF IInv, TypeOK, PidsOwned
  <2> QED
    BY <2>1, <2>2, <2>3, ToStopFacts
<1>2. \A f \in Filetype : Svc[f].state # "absent"
  <2>1. \A f \in Filetype : View(srv[slot[f]]).state # "absent"
    BY DEF View
  <2> QED
    BY <1>1, <2>1, SvcOfSlot
<1>3. \A a \in Addr : Stopped[a].pid = srv[a].pid
  BY StoppedFields
<1>4. CASE TerminateAll
  <2>1. /\ srv' = Stopped
        /\ slot' = [f \in Filetype |-> NULL]
    BY <1>4 DEF TerminateAll
  <2>2. Closing' = Closing \cup ({Svc[f].proc : f \in Filetype} \ {NULL})
    BY <1>1, <1>3, <2>1, BackingStops
  <2>3. Svc' = [f \in Filetype |-> [state |-> "absent", proc |-> NULL, crashes |-> 0]]
    BY <2>1 DEF Svc, ServiceOf
  <2>4. Svc' = [f \in Filetype |->
                  IF FALSE THEN [state |-> "idle", proc |-> NULL, crashes |-> 0]
                           ELSE [state |-> "absent", proc |-> NULL, crashes |-> 0]]
    BY <2>3
  <2> QED
    BY <1>2, <2>2, <2>4, DropStep
<1>5. CASE StopAndInitAll
  <2>1. /\ slot' \in [Filetype -> Addr \ (alive \ ToFree)]
        /\ \A f, g \in Filetype : slot'[f] = slot'[g] => f = g
        /\ srv' = [a \in Addr |->
                     IF \E f \in Filetype : slot'[f] = a
                     THEN NewServer(CHOOSE f \in Filetype : slot'[f] = a, 0)
                     ELSE Stopped[a]]
    BY <1>5 DEF StopAndInitAll
  <2>2. ASSUME NEW a \in inShutdown \cup ToStop
        PROVE  srv'[a].pid = srv[a].pid
    <3>1. a \in alive /\ a \in Addr /\ srv[a].pid # NULL
      BY <1>1, ToStopFacts DEF IInv, PidsOwned, ToStop
    <3>2. a \notin ToFree
      BY <3>1 DEF ToFree
    <3>3. ~ \E f \in Filetype : slot'[f] = a
      BY <2>1, <3>1, <3>2
    <3> QED
      BY <1>3, <2>1, <3>1, <3>3
  <2>3. Closing' = Closing \cup ({Svc[f].proc : f \in Filetype} \ {NULL})
    BY <1>1, <2>2, BackingStops
  <2>4. ASSUME NEW f \in Filetype
        PROVE  Svc'[f] = [state |-> "idle", proc |-> NULL, crashes |-> 0]
    <3>1. slot'[f] \in Addr /\ slot'[f] # NULL
      BY <2>1
    <3>2. \E g \in Filetype : srv'[slot'[f]] = NewServer(g, 0)
      <4>1. \E h \in Filetype : slot'[h] = slot'[f]
        OBVIOUS
      <4> QED
        BY <2>1, <3>1, <4>1
    <3>3. PICK g \in Filetype : srv'[slot'[f]] = NewServer(g, 0)
      BY <3>2
    <3>4. View(NewServer(g, 0)) = [state |-> "idle", proc |-> NULL, crashes |-> 0]
      <4>1. NewServer(g, 0).pid = NULL /\ ~NewServer(g, 0).notUsed
              /\ NewServer(g, 0).restarts = 0 /\ ~(0 >= DeadAfter)
        BY DEF NewServer
      <4> QED
        BY <4>1 DEF View
    <3> QED
      BY <3>1, <3>3, <3>4, SvcOfSlotNext
  <2>5. Svc' = [f \in Filetype |->
                  IF TRUE THEN [state |-> "idle", proc |-> NULL, crashes |-> 0]
                          ELSE [state |-> "absent", proc |-> NULL, crashes |-> 0]]
    <3>1. Svc' = [f \in Filetype |-> Svc'[f]]
      BY DEF Svc
    <3> QED
      BY <2>4, <3>1, Zenon
  <2> QED
    BY <1>2, <2>3, <2>5, DropStep
<1> QED
  BY <1>4, <1>5

-------------------------------------------------------------------------------
LEMMA InitRefines ==
  ASSUME Init
  PROVE  Service!ServiceInit
<1> USE LspServerAssumption
<1>1. ASSUME NEW f \in Filetype
      PROVE  ServiceOf(f) = [state |-> "idle", proc |-> NULL, crashes |-> 0]
  <2>1. slot[f] \in Addr /\ slot[f] # NULL
    BY DEF Init
  <2>2. PICK g \in Filetype : srv[slot[f]] = NewServer(g, 0)
    BY <2>1 DEF Init
  <2>3. srv[slot[f]].pid = NULL /\ ~srv[slot[f]].notUsed /\ srv[slot[f]].restarts = 0
    BY <2>2 DEF NewServer
  <2>4. ~(0 >= DeadAfter)
    OBVIOUS
  <2> QED
    BY <2>1, <2>3, <2>4 DEF ServiceOf
<1>2. inShutdown = {}
  BY DEF Init
<1> QED
  BY <1>1, <1>2 DEF Service!ServiceInit, Service!Idle

LEMMA StepRefines ==
  ASSUME NoSharing, IInv, SlotsUntilQuit, [Next]_vars
  PROVE  AbstractStep
<1>1. CASE UNCHANGED vars
  BY <1>1, QuietRefines DEF vars
<1>2. CASE StopAndInitAll \/ TerminateAll
  BY <1>2, DropRefines
<1>3. ASSUME NEW ft \in Filetype, GetServer(ft)
      PROVE  AbstractStep
  BY <1>3, GetServerRefines
<1>4. ASSUME NEW ft \in Filetype, UseServer(ft)
      PROVE  AbstractStep
  BY <1>4, QuietRefines DEF UseServer
<1>5. ASSUME NEW p \in Launch, ProcessStopped(p)
      PROVE  AbstractStep
  BY <1>5, NormalStopRefines, CrashRefines
<1>6. ASSUME NEW p \in Launch, ProcessExits(p) \/ ClientPanic(p)
      PROVE  AbstractStep
  BY <1>6, QuietRefines DEF ProcessExits, ClientPanic
<1>7. ASSUME NEW s \in Addr, FreeAfterDelay(s) \/ KillCb(s)
      PROVE  AbstractStep
  BY <1>7, QuietRefines DEF FreeAfterDelay, KillCb
<1>8. ASSUME NEW p \in Launch, NEW call \in Call, NEW ok \in BOOLEAN,
             DeliverReply(p, call, ok) \/ DeliverFailure(p, call)
      PROVE  AbstractStep
  BY <1>8, DeliveryRefines
<1> QED
  BY <1>1, <1>2, <1>3, <1>4, <1>5, <1>6, <1>7, <1>8 DEF Next

(* The life cycle of the servers, with its structs, pointers, timeouts and   *)
(* callbacks in any order, implements one service per filetype.              *)
THEOREM LifeCycleImplementsService == NoSharing => (Spec => ImplementsService)
<1>1. Init => SlotsUntilQuit
  BY LspServerAssumption DEF Init, SlotsUntilQuit
<1>2. IInv /\ SlotsUntilQuit /\ [Next]_vars => SlotsUntilQuit'
  BY SlotsUntilQuitKept
<1>3. Init => Service!ServiceInit
  BY InitRefines
<1>4. NoSharing /\ IInv /\ SlotsUntilQuit /\ [Next]_vars
        => [Service!ServiceNext]_Service!serviceVars
  BY StepRefines DEF AbstractStep
<1>5. ASSUME NoSharing PROVE Spec => ImplementsService
  <2>1. Spec => []IInv
    BY <1>5, IInvInvariant
  <2>2. IInv /\ SlotsUntilQuit /\ [Next]_vars
          => [Service!ServiceNext]_Service!serviceVars
    BY <1>4, <1>5
  <2> QED
    BY <1>1, <1>2, <1>3, <2>1, <2>2, PTL
       DEF Spec, ImplementsService, Service!ServiceSpec
<1> QED
  BY <1>5
===============================================================================
