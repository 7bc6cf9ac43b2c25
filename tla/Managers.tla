------------------------------- MODULE Managers -------------------------------
(***************************************************************************)
(* Several processes of the operator on one cluster (cmd/main.go), seen    *)
(* through the PgpilotMonitor controller each of them runs.                *)
(*                                                                         *)
(* With --leader-elect, which the chart and config/manager give and which  *)
(* is off by default, a process starts its controllers when it gets the    *)
(* lease.  A process that loses the lease exits, but a request it has sent *)
(* may still arrive.  The next leader lists every object from an API       *)
(* server that may lag behind the one its predecessor used.  Without the   *)
(* flag all processes work at the same time.                               *)
(*                                                                         *)
(* Reconcile is the one of MonitorReconciler with its data reduced: a      *)
(* monitor with inline credentials and without libraries, so that nothing  *)
(* stops a reconcile early; its spec is identified with its generation;    *)
(* one child stands for all the controller applies; a key that is          *)
(* scheduled counts as queued, for a queued key may wait as long.          *)
(***************************************************************************)
EXTENDS Naturals

CONSTANTS
    Procs,   \* the processes
    MaxUid,  \* bound: incarnations of the monitor
    Scopes   \* scope: --leader-elect, and how many changes by users, and failed
             \* calls or exits of processes, are looked at with it

ASSUME ManagersAssumption ==
    /\ MaxUid \in Nat
    /\ Scopes \subseteq [elect : BOOLEAN, edits : Nat, faults : Nat]

VARIABLES
    mon,      \* the PgpilotMonitor in the API server
    lastUid,  \* the last uid the API server assigned
    child,    \* the object made for it: its owner and the generation built from
    elect,    \* --leader-elect
    state,    \* of each process: "standby", "running", or "exiting" with the
              \* last request of its worker still under way
    cMon,     \* the monitor in each process's cache; of a standby, the monitor
              \* in the API server it will list from
    evt,      \* whether a change of the child has yet to reach the process
    dirty,    \* whether the monitor's key is queued
    pc, copy, \* the step of Reconcile, and its in-memory copy of the monitor
    edits, faults  \* changes and faults still to come

clusterVars == <<mon, lastUid, child, elect>>
workerVars == <<pc, copy>>
vars == <<clusterVars, state, cMon, evt, dirty, workerVars, edits, faults>>

Absent == [uid |-> 0, gen |-> 0, fin |-> FALSE, deleting |-> FALSE, observed |-> 0]
NoChild == [owner |-> 0, gen |-> 0]

Init ==
    /\ mon = Absent /\ lastUid = 0 /\ child = NoChild
    /\ state = [p \in Procs |-> "standby"]
    /\ cMon = [p \in Procs |-> Absent]
    /\ evt = [p \in Procs |-> FALSE] /\ dirty = [p \in Procs |-> FALSE]
    /\ pc = [p \in Procs |-> "idle"] /\ copy = [p \in Procs |-> Absent]
    /\ \E scope \in Scopes :
          elect = scope.elect /\ edits = scope.edits /\ faults = scope.faults

-----------------------------------------------------------------------------
\* The worker of a process.

Return(p, requeue) ==
    /\ pc' = [pc EXCEPT ![p] = "idle"] /\ copy' = [copy EXCEPT ![p] = Absent]
    /\ dirty' = [dirty EXCEPT ![p] = @ \/ requeue]

\* Where Reconcile goes after reading m from the cache.
Entry(m) ==
    IF m.uid = 0 \/ (m.deleting /\ ~m.fin) THEN "idle"
    ELSE IF m.deleting THEN "removeFinalizer"
    ELSE IF m.fin THEN "apply" ELSE "addFinalizer"

Begin(p) ==
    /\ state[p] = "running" /\ pc[p] = "idle" /\ dirty[p]
    /\ dirty' = [dirty EXCEPT ![p] = FALSE]
    /\ pc' = [pc EXCEPT ![p] = Entry(cMon[p])]
    /\ copy' = [copy EXCEPT ![p] = IF pc'[p] = "idle" THEN Absent ELSE cMon[p]]
    /\ UNCHANGED <<clusterVars, state, cMon, evt, edits, faults>>

\* Every process, working or not, has yet to see the child change.
Emitted == evt' = [p \in Procs |-> TRUE]

\* An Update is refused unless the object is the one that was read, a
\* server-side apply never.  A patchStatus updates the object in the cache.
Accepted(p) ==
    CASE pc[p] \in {"addFinalizer", "removeFinalizer"} -> mon = copy[p]
      [] pc[p] = "report" -> mon = cMon[p] /\ mon.uid # 0
      [] OTHER -> TRUE

\* The write of the step a worker is at, as the API server executes it.  Of the
\* status only observedGeneration is kept.  In the code lastReconciled changes as
\* well, so processes that reconcile side by side conflict more often than here
\* and need not come to rest; nothing below speaks of rest.
Write(p) ==
    \/ /\ pc[p] = "addFinalizer"
       /\ mon' = [mon EXCEPT !.fin = TRUE] /\ UNCHANGED <<child, evt>>
    \/ /\ pc[p] = "removeFinalizer"
       /\ mon' = Absent /\ UNCHANGED <<child, evt>>
    \/ /\ pc[p] = "apply"
       /\ child' = [owner |-> copy[p].uid, gen |-> copy[p].gen]
       /\ IF child' = child THEN UNCHANGED evt ELSE Emitted
       /\ UNCHANGED mon
    \/ /\ pc[p] = "report"
       /\ mon' = [mon EXCEPT !.observed = copy[p].gen] /\ UNCHANGED <<child, evt>>

\* A write succeeds and Reconcile goes on, or returns: a monitor whose pod is
\* not ready comes back.
WriteSucceeds(p) ==
    /\ state[p] = "running" /\ pc[p] # "idle" /\ Accepted(p)
    /\ Write(p)
    /\ \/ /\ pc[p] = "addFinalizer"
          /\ pc' = [pc EXCEPT ![p] = "apply"]
          /\ copy' = [copy EXCEPT ![p] = mon'] /\ UNCHANGED dirty
       \/ /\ pc[p] = "apply"
          /\ pc' = [pc EXCEPT ![p] = "report"] /\ UNCHANGED <<copy, dirty>>
       \/ pc[p] = "removeFinalizer" /\ Return(p, FALSE)
       \/ pc[p] = "report" /\ \E ready \in BOOLEAN : Return(p, ~ready)
    /\ UNCHANGED <<lastUid, elect, state, cMon, edits, faults>>

\* Mutant: a conflict on the finalizer is ignored.
WriteRefusedUnseen(p) ==
    /\ state[p] = "running" /\ pc[p] # "idle" /\ ~Accepted(p)
    /\ IF pc[p] = "addFinalizer"
       THEN pc' = [pc EXCEPT ![p] = "apply"] /\ UNCHANGED <<copy, dirty>>
       ELSE Return(p, TRUE)
    /\ UNCHANGED <<clusterVars, state, cMon, evt, edits, faults>>

WriteRefused(p) ==
    /\ state[p] = "running" /\ pc[p] # "idle" /\ ~Accepted(p)
    /\ Return(p, TRUE)
    /\ UNCHANGED <<clusterVars, state, cMon, evt, edits, faults>>

CallFails(p) ==
    /\ state[p] = "running" /\ pc[p] # "idle" /\ faults > 0
    /\ faults' = faults - 1
    /\ Return(p, TRUE)
    /\ UNCHANGED <<clusterVars, state, cMon, evt, edits>>

Reconcile(p) == Begin(p) \/ WriteSucceeds(p) \/ WriteRefused(p)

-----------------------------------------------------------------------------
\* Watches.

DeliverMonitor(p) ==
    /\ state[p] = "running" /\ cMon[p] # mon
    /\ cMon' = [cMon EXCEPT ![p] = mon] /\ dirty' = [dirty EXCEPT ![p] = TRUE]
    /\ UNCHANGED <<clusterVars, state, evt, workerVars, edits, faults>>

\* Mutant: the child is not watched.
DeliverChildUnwatched(p) ==
    /\ state[p] = "running" /\ evt[p]
    /\ evt' = [evt EXCEPT ![p] = FALSE]
    /\ UNCHANGED <<clusterVars, state, cMon, dirty, workerVars, edits, faults>>

DeliverChild(p) ==
    /\ state[p] = "running" /\ evt[p]
    /\ evt' = [evt EXCEPT ![p] = FALSE] /\ dirty' = [dirty EXCEPT ![p] = TRUE]
    /\ UNCHANGED <<clusterVars, state, cMon, workerVars, edits, faults>>

-----------------------------------------------------------------------------
\* Processes come and go.

\* What a standby would list catches up with what is stored.
Replicate(p) ==
    /\ state[p] = "standby" /\ (cMon[p] # mon \/ evt[p])
    /\ cMon' = [cMon EXCEPT ![p] = mon] /\ evt' = [evt EXCEPT ![p] = FALSE]
    /\ UNCHANGED <<clusterVars, state, dirty, workerVars, edits, faults>>

\* Mutant: what is listed is not queued.
ListedIgnored(p) == FALSE

\* The list shows a monitor.  (A child listed without it starts a reconcile
\* that ends at Get.)
Listed(p) == cMon[p].uid # 0

\* A process starts its controllers, if so configured with the lease: every
\* object listed is an add event, and the watches go on from the lists.
Lead(p) ==
    /\ state[p] = "standby"
    /\ elect => \A q \in Procs : state[q] # "running"
    /\ state' = [state EXCEPT ![p] = "running"]
    /\ dirty' = [dirty EXCEPT ![p] = Listed(p)]
    /\ UNCHANGED <<clusterVars, cMon, evt, workerVars, edits, faults>>

\* The lease is lost, or the process dies: mgr.Start returns and main exits.
Exit(p) ==
    /\ state[p] = "running" /\ faults > 0
    /\ faults' = faults - 1
    /\ state' = [state EXCEPT ![p] = "exiting"]
    /\ dirty' = [dirty EXCEPT ![p] = FALSE]
    /\ UNCHANGED <<clusterVars, cMon, evt, workerVars, edits>>

\* The last request of a process that has exited arrives, or is lost; the
\* process is started again.
Land(p) ==
    /\ state[p] = "exiting"
    /\ state' = [state EXCEPT ![p] = "standby"]
    /\ \/ pc[p] # "idle" /\ Accepted(p) /\ Write(p)
       \/ UNCHANGED <<mon, child, evt>>
    /\ pc' = [pc EXCEPT ![p] = "idle"] /\ copy' = [copy EXCEPT ![p] = Absent]
    /\ UNCHANGED <<lastUid, elect, cMon, dirty, edits, faults>>

-----------------------------------------------------------------------------
\* The garbage collector and users.

Collect ==
    /\ child.owner \notin {0, mon.uid}
    /\ child' = NoChild
    /\ Emitted
    /\ UNCHANGED <<mon, lastUid, elect, state, cMon, dirty, workerVars, edits, faults>>

CreateMonitor ==
    /\ mon.uid = 0 /\ lastUid < MaxUid
    /\ lastUid' = lastUid + 1
    /\ mon' = [Absent EXCEPT !.uid = lastUid', !.gen = 1]

UpdateMonitor == mon.uid # 0 /\ mon' = [mon EXCEPT !.gen = @ + 1] /\ UNCHANGED lastUid

DeleteMonitor ==
    /\ mon.uid # 0 /\ ~mon.deleting
    /\ mon' = IF mon.fin THEN [mon EXCEPT !.deleting = TRUE, !.gen = @ + 1] ELSE Absent
    /\ UNCHANGED lastUid

UserActs ==
    /\ edits > 0 /\ edits' = edits - 1
    /\ CreateMonitor \/ UpdateMonitor \/ DeleteMonitor
    /\ UNCHANGED <<child, elect, state, cMon, evt, dirty, workerVars, faults>>

Next ==
    \/ \E p \in Procs :
          \/ Reconcile(p) \/ CallFails(p) \/ DeliverMonitor(p) \/ DeliverChild(p)
          \/ Replicate(p) \/ Lead(p) \/ Exit(p) \/ Land(p)
    \/ Collect \/ UserActs

Spec == Init /\ [][Next]_vars

\* Each running process works as in MonitorReconciler, some process gets a free
\* lease, and a request arrives or is lost in the end.
FairSpec ==
    /\ Spec
    /\ \A p \in Procs :
          /\ WF_vars(Reconcile(p)) /\ WF_vars(Land(p))
          /\ WF_vars(DeliverMonitor(p)) /\ WF_vars(DeliverChild(p))
    /\ WF_vars(\E p \in Procs : Lead(p)) /\ WF_vars(Collect)

-----------------------------------------------------------------------------
\* What several processes keep of what one process promises.

\* A monitor that owns a child carries the finalizer, whatever rivals, stale
\* lists and late requests do: it cannot go away without the controller.
OwnersHold == child.owner = mon.uid /\ mon.uid # 0 => mon.fin

\* However work changes hands, a monitor is settled for good once users leave it
\* alone: no late request, stale list or rival leaves a child of another version,
\* or a status that reports one.
ConvergesAcrossProcesses ==
    <>[](mon.uid # 0 /\ ~mon.deleting =>
            /\ child = [owner |-> mon.uid, gen |-> mon.gen]
            /\ mon.observed = mon.gen)

\* A monitor marked for deletion goes, and no child of a monitor that is gone
\* stays, even if another process still works on it or a late request makes the
\* child again.
NothingLeftBehind == <>[](~mon.deleting /\ child.owner \in {0, mon.uid})
=============================================================================
