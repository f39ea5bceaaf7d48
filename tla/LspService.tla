------------------------------- MODULE LspService ------------------------------
(***************************************************************************)
(* What lsp-server.c promises the rest of the lsp plugin, without structs, *)
(* pointers, clients or timeouts: every filetype has a service that is     *)
(* idle, starting, ready or off; it is backed by at most one process; a    *)
(* service that crashes is started again, up to a limit; and a process     *)
(* whose service is dropped stays on the books until it has ended.         *)
(***************************************************************************)
EXTENDS Naturals

CONSTANTS
  Filetype,      \* the filetypes that have a service
  Launch,        \* identities of server processes
  NULL,          \* no process
  DeadAfter      \* crashes at which a service is switched off

VARIABLES
  service,       \* the service of every filetype
  closing        \* the processes being stopped

serviceVars == <<service, closing>>

Absent         == [state |-> "absent", proc |-> NULL, crashes |-> 0]
Off            == [state |-> "off", proc |-> NULL, crashes |-> 0]
Idle(n)        == [state |-> "idle", proc |-> NULL, crashes |-> n]
Starting(p, n) == [state |-> "starting", proc |-> p, crashes |-> n]

Backing == {service[f].proc : f \in Filetype} \ {NULL}

-------------------------------------------------------------------------------
ServiceInit ==
  /\ service = [f \in Filetype |-> Idle(0)]
  /\ closing = {}

(* The first feature that asks for an idle service starts its process. *)
Start(f, p) ==
  /\ service[f].state = "idle"
  /\ p \notin Backing \cup closing
  /\ service' = [service EXCEPT ![f] = Starting(p, service[f].crashes)]
  /\ UNCHANGED closing

(* It is switched off if there is nothing to start. *)
SwitchOff(f) ==
  /\ service[f].state = "idle"
  /\ service' = [service EXCEPT ![f] = Off]
  /\ UNCHANGED closing

(* The handshake ends. *)
BecomeReady(f) ==
  /\ service[f].state = "starting"
  /\ service' = [service EXCEPT ![f].state = "ready"]
  /\ UNCHANGED closing

(* The process ends unasked: another one takes over with one crash more on   *)
(* its account, or the service is switched off.                              *)
Crash(f) ==
  /\ service[f].state \in {"starting", "ready"}
  /\ LET n == service[f].crashes + 1 IN
     \/ service' = [service EXCEPT ![f] = Off]
     \/ \E p \in Launch :
          /\ n < DeadAfter
          /\ p \notin (Backing \ {service[f].proc}) \cup closing
          /\ service' = [service EXCEPT ![f] = Starting(p, n)]
  /\ UNCHANGED closing

(* All services are dropped, and set up anew unless the editor quits. *)
Drop(anew) ==
  /\ \A f \in Filetype : service[f].state # "absent"
  /\ service' = [f \in Filetype |-> IF anew THEN Idle(0) ELSE Absent]
  /\ closing' = closing \cup Backing

(* A process being stopped has ended. *)
Reap(p) ==
  /\ p \in closing
  /\ closing' = closing \ {p}
  /\ UNCHANGED service

ServiceNext ==
  \/ \E f \in Filetype, p \in Launch : Start(f, p)
  \/ \E f \in Filetype : SwitchOff(f) \/ BecomeReady(f) \/ Crash(f)
  \/ \E anew \in BOOLEAN : Drop(anew)
  \/ \E p \in Launch : Reap(p)

ServiceSpec == ServiceInit /\ [][ServiceNext]_serviceVars
===============================================================================
