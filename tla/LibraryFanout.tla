---------------------------- MODULE LibraryFanout ----------------------------
(***************************************************************************)
(* The library controller together with the monitor controller, for one    *)
(* library and the monitors that may list it in                            *)
(* spec.metrics.fromLibraries.  Both controllers use one cache of the      *)
(* library, whose events, the library controller's own status writes       *)
(* included, also queue the monitors that list it: libraryToMonitors,      *)
(* which searches the cached monitors.                                     *)
(*                                                                         *)
(* Of a monitor only what depends on the library is kept: whether it lists *)
(* it, which version its ConfigMap holds, and whether the stored object is *)
(* newer than the cached one.  Its pod is ready, so that nothing but       *)
(* events and errors brings it back (a monitor that is not ready polls).   *)
(* One worker serves all monitors.                                         *)
(***************************************************************************)
EXTENDS LibraryReconciler

CONSTANTS
    Monitors,   \* the monitors of the library's namespace
    Listing,    \* scope: those that list the library to begin with
    NoMonitor

ASSUME FanoutAssumption == Listing \subseteq Monitors /\ NoMonitor \notin Monitors

VARIABLES
    wants,   \* the monitors whose spec lists the library
    cWants,  \* the same in the operator's cache
    pending, \* the monitors whose stored object is newer than the cached one
    built,   \* the version of the library in each monitor's ConfigMap
    queue,   \* the monitors in the work queue
    later,   \* the monitors scheduled for a retry
    job      \* the reconcile in progress: its monitor and what it resolved

monitorVars == <<wants, cWants, pending, built, queue, later, job>>
fanoutVars == <<vars, monitorVars>>

Version(l) == [uid |-> l.uid, gen |-> l.generation]
None == Version(Absent)
Idle == [monitor |-> NoMonitor, version |-> None]

FanoutInit ==
    /\ Init
    /\ wants = Listing /\ cWants = wants /\ pending = {}
    /\ built = [m \in Monitors |-> None]
    /\ queue = Monitors /\ later = {} /\ job = Idle

-----------------------------------------------------------------------------
\* The monitor controller.

\* Mutant: a library that is missing is not waited for.
RetryNever(m) == {}

\* A missing library brings the monitor back after 30 s.
Retry(m) == {m}

(***************************************************************************)
(* patchStatus.  The write is refused while the cache is behind the stored *)
(* object.  Otherwise it may change the object (a condition, the hash, the *)
(* second in lastReconciled), which then is newer than the cache: the      *)
(* status itself is not kept, so either may be the case.                   *)
(***************************************************************************)
PatchStatus(m) ==
    pending' \in {pending, pending \cup {m}}

\* Steps 1 and 2 for monitor m: its libraries are resolved from the cache.  When
\* that fails the status is written, and a refusal only logged.
BeginMonitor(m) ==
    /\ job = Idle /\ m \in queue
    /\ queue' = queue \ {m}
    /\ IF m \in cWants /\ ~Found(cLib)
       THEN later' = later \cup Retry(m) /\ PatchStatus(m) /\ UNCHANGED job
       ELSE /\ job' = [monitor |-> m,
                       version |-> IF m \in cWants THEN Version(cLib) ELSE None]
            /\ UNCHANGED <<later, pending>>
    /\ UNCHANGED <<vars, wants, cWants, built>>

\* Steps 3 to 7: the ConfigMap is applied, and what follows from it; then the
\* status is written, and a refusal is an error.
ApplyMonitor ==
    /\ job # Idle
    /\ built' = [built EXCEPT ![job.monitor] = job.version]
    /\ later' = IF job.monitor \in pending THEN later \cup {job.monitor} ELSE later
    /\ PatchStatus(job.monitor)
    /\ job' = Idle
    /\ UNCHANGED <<vars, wants, cWants, queue>>

\* A call fails, before or after the ConfigMap is applied.
MonitorFails ==
    /\ job # Idle /\ faults < MaxFaults
    /\ faults' = faults + 1
    /\ built' \in {built, [built EXCEPT ![job.monitor] = job.version]}
    /\ later' = later \cup {job.monitor} /\ job' = Idle
    /\ UNCHANGED <<lib, lastUid, cLib, dirty, timer, pc, copy, read, edits, wants,
                   cWants, pending, queue>>

RetryFires(m) ==
    /\ m \in later
    /\ later' = later \ {m} /\ queue' = queue \cup {m}
    /\ UNCHANGED <<vars, wants, cWants, pending, built, job>>

\* For(&PgpilotMonitor{}), without predicates: a change of the status counts too.
DeliverMonitor(m) ==
    /\ m \in pending
    /\ pending' = pending \ {m}
    /\ cWants' = IF m \in wants THEN cWants \cup {m} ELSE cWants \ {m}
    /\ queue' = queue \cup {m}
    /\ UNCHANGED <<vars, wants, built, later, job>>

-----------------------------------------------------------------------------
\* What touches both controllers.

\* Mutant: monitors that have a version of the library already are not queued.
ToNewMonitors == {m \in cWants : built[m] = None}

LibraryToMonitors == cWants

DeliverLibrary ==
    /\ Deliver
    /\ queue' = queue \cup LibraryToMonitors
    /\ UNCHANGED <<wants, cWants, pending, built, later, job>>

\* A new process lists and queues all monitors as well.
RestartBoth ==
    /\ Restart
    /\ cWants' = wants /\ pending' = {} /\ queue' = Monitors /\ later' = {} /\ job' = Idle
    /\ UNCHANGED <<wants, built>>

\* A user adds the library to a monitor's list, or takes it off.
EditMonitor(m) ==
    /\ edits < MaxEdits
    /\ edits' = edits + 1
    /\ wants' = IF m \in wants THEN wants \ {m} ELSE wants \cup {m}
    /\ pending' = pending \cup {m}
    /\ UNCHANGED <<lib, lastUid, cLib, dirty, timer, pc, copy, read, faults, cWants,
                   built, queue, later, job>>

LibraryActs ==
    /\ \/ Reconcile \/ CallFails \/ TimerFires \/ DeleteLibrary
       \/ \E filled \in BOOLEAN : CreateLibrary(filled) \/ UpdateLibrary(filled)
    /\ UNCHANGED monitorVars

FanoutNext ==
    \/ LibraryActs \/ DeliverLibrary \/ RestartBoth
    \/ ApplyMonitor \/ MonitorFails
    \/ \E m \in Monitors : \/ BeginMonitor(m) \/ RetryFires(m)
                           \/ DeliverMonitor(m) \/ EditMonitor(m)

\* The workers, watches and delay queues of both controllers keep going; the
\* work queue is first in, first out, so every queued monitor is served.
FanoutSpec ==
    /\ FanoutInit /\ [][FanoutNext]_fanoutVars
    /\ WF_vars(Reconcile) /\ WF_vars(TimerFires) /\ WF_fanoutVars(DeliverLibrary)
    /\ WF_fanoutVars(ApplyMonitor)
    /\ \A m \in Monitors : /\ SF_fanoutVars(BeginMonitor(m))
                           /\ WF_fanoutVars(RetryFires(m))
                           /\ WF_fanoutVars(DeliverMonitor(m))

-----------------------------------------------------------------------------
\* No wake-up is lost between the two controllers: a monitor whose ConfigMap does
\* not hold what its list and the library say (or that lists a missing library) is
\* queued, waiting for a retry, being reconciled, or will be queued by an event
\* still on its way to a cache.
NoLostWakeup ==
    \A m \in Monitors :
        \/ m \in queue \cup later \/ job.monitor = m
        \/ m \in pending /\ (m \in cWants) # (m \in wants)
        \/ m \in wants /\ cLib # lib
        \/ IF m \in wants THEN lib.uid # 0 /\ built[m] = Version(lib)
                          ELSE built[m] = None

\* Every change of the library reaches the ConfigMap of every monitor that lists
\* it, however the edits of the monitors' lists and of the library cross, and no
\* monitor keeps a library it no longer lists.
ReachesEveryMonitor ==
    <>[](\A m \in Monitors :
            IF m \in wants THEN lib.uid # 0 => built[m] = Version(lib)
                           ELSE built[m] = None)
=============================================================================
