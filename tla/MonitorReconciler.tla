-------------------------- MODULE MonitorReconciler --------------------------
(***************************************************************************)
(* The PgpilotMonitor controller                                           *)
(* (internal/controller/pgpilotmonitor_controller.go), run against the     *)
(* Kubernetes API it sees through controller-runtime: informer caches that *)
(* lag behind the API server, a work queue that holds a key at most once,  *)
(* optimistic concurrency on the monitor object, unconditional server-side *)
(* apply on the children, and garbage collection by owner uid.             *)
(*                                                                         *)
(* One namespace and one PgpilotMonitor name are modelled.  The object may *)
(* be deleted and created again under that name: each incarnation has a    *)
(* fresh uid.  A resourceVersion stands for a state of the object, so      *)
(* "same resourceVersion" is equality of snapshots and a write that        *)
(* changes nothing produces no watch event.  A cache may skip intermediate *)
(* states of an object but never goes back: delivery copies the present    *)
(* state.                                                                  *)
(***************************************************************************)
EXTENDS Naturals, Sequences, FiniteSets

CONSTANTS
    Libraries,        \* names of the PgpilotMetricLibrary objects
    Contents,         \* what a library's spec can hold
    Specs,            \* the specs users give the monitor
    NoContent,        \* "no such library"
    NoSpec,           \* spec of an absent monitor
    NoConfig,         \* "no configuration": an empty status.configHash,
                      \* or a child that carries none
    Edited,           \* a child's field after someone else changed it
    StatusKeepsHash,  \* FALSE: the installed CRD prunes status.configHash
    UserOps,          \* scope: what users touch in this instance
    Starts,           \* scope: what the cluster has when the operator starts
    MaxUid,           \* bound: incarnations of the monitor
    MaxEdits,         \* bound: changes made by users
    MaxFaults,        \* bound: failed API calls and operator restarts
    MaxFlips,         \* bound: spontaneous pod or readiness changes
    MaxPods,          \* bound: pods ever started
    MaxTime           \* bound: seconds that are told apart at a time

Kinds == {"ConfigMap", "Deployment", "Service", "ServiceMonitor"}
Always == Kinds \ {"ServiceMonitor"}
CredentialSources == {"inline", "secret", "none"}
ConditionTypes == {"Ready", "DatabaseReachable", "ConfigGenerated"}
Reasons == {"unset", "InlineCredentials", "CredentialsFound", "SecretNotFound",
            "NoCredentials", "LibraryResolveFailed", "ConfigMapUpdated",
            "PodRunning", "PodNotReady"}
EventReasons == {"SecretNotFound", "LibraryResolveFailed", "ConfigMapUpdated",
                 "PodRunning", "PodNotReady"}

(***************************************************************************)
(* What of a PgpilotMonitorSpec steers the controller: where credentials   *)
(* come from, the libraries listed, whether the preset is one pgwatch      *)
(* ships ("none" when unset), whether inline custom metrics are given, and *)
(* the rest (image, sinks, resources, labels), which reaches the workload  *)
(* only.                                                                   *)
(***************************************************************************)
MonitorSpecs ==
    [cred : CredentialSources, libs : Seq(Libraries),
     preset : {"none", "known", "unknown"}, custom : BOOLEAN,
     workload : Nat]

ASSUME SpecsAssumption ==
    /\ Specs \subseteq MonitorSpecs
    /\ NoSpec \notin Specs
    /\ NoContent \notin Contents

ASSUME BoundsAssumption ==
    /\ {MaxUid, MaxEdits, MaxFaults, MaxFlips, MaxPods, MaxTime} \subseteq Nat
    /\ StatusKeepsHash \in BOOLEAN
    /\ UserOps \subseteq {"monitor", "library", "secret", "crd", "child"}
    /\ Starts \subseteq [secret : BOOLEAN, smCRD : BOOLEAN,
                         lib : [Libraries -> Contents \cup {NoContent}]]

VARIABLES
    mon,        \* the PgpilotMonitor in the API server
    lastUid,    \* the last uid the API server assigned
    lib,        \* the metric libraries in the API server
    secret,     \* whether the credentials Secret exists
    smCRD,      \* whether the ServiceMonitor CRD is installed
    kids,       \* the children named after the monitor
    depReady,   \* Deployment.status.readyReplicas > 0
    pods,       \* the pods that carry the monitor's labels
    lastPod,    \* the last pod name handed out
    cMon, cLib, cSecret, cDep, cPods,  \* the operator's informer caches
    evt,        \* children with a watch event not yet delivered
    dirty,      \* the monitor's key is in the work queue
    timer,      \* the key is scheduled: RequeueAfter or rate-limited retry
    smEnabled,  \* r.ServiceMonitorEnabled, fixed when the process starts
    pc,         \* the step of Reconcile the worker is about to execute
    monitor,    \* Reconcile's in-memory copy of the monitor
    libs,       \* contents of the libraries resolved so far
    events,     \* Kubernetes Events recorded by the reconcile in progress
    now,        \* the present second
    edits, faults, flips  \* how much of each bound is used

objectVars  == <<mon, lastUid, lib, secret, smCRD>>
clusterVars == <<kids, depReady, pods, lastPod>>
cacheVars   == <<cMon, cLib, cSecret, cDep, cPods, evt>>
queueVars   == <<dirty, timer>>
workerVars  == <<pc, monitor, libs, events>>
boundVars   == <<now, edits, faults, flips>>
vars == <<objectVars, clusterVars, cacheVars, queueVars, smEnabled,
          workerVars, boundVars>>

-----------------------------------------------------------------------------
\* What the API server stores.

EmptyStatus ==
    [ready |-> FALSE, podName |-> 0, observedGeneration |-> 0,
     configHash |-> NoConfig, lastReconciled |-> 0,
     conditions |-> [t \in ConditionTypes |-> [reason |-> "unset", gen |-> 0]]]

\* An absent monitor has uid 0.
Absent == [uid |-> 0, generation |-> 0, spec |-> NoSpec, fin |-> FALSE,
           deleting |-> FALSE, status |-> EmptyStatus]

NoChild == [owner |-> 0, gen |-> 0, config |-> NoConfig, workload |-> 0]

\* What the controller derives from a spec and the resolved libraries.  The
\* sha256 of the generated files is identified with what they are generated from.
Configs == [preset : {"none", "known", "unknown"}, custom : BOOLEAN,
            libs : Seq(Contents)]

\* A hash is never the empty string.
ASSUME ConfigAssumption == NoConfig \notin Configs

ConfigOf(spec, contents) ==
    [preset |-> spec.preset, custom |-> spec.custom, libs |-> contents]

\* BuildConfigMap fails: expandPresetIntoIntervals knows no such preset.
BuildFails(spec, contents) ==
    spec.preset = "unknown" /\ (spec.custom \/ contents # <<>>)

\* BuildConfigMap, BuildDeployment (with the config hash as pod annotation),
\* BuildService and BuildServiceMonitor, with SetControllerReference.  The
\* field gen is a history variable: the generation the object was built from.
Build(k, m, contents) ==
    [owner |-> m.uid, gen |-> m.generation,
     config |-> IF k \in {"ConfigMap", "Deployment"}
                THEN ConfigOf(m.spec, contents) ELSE NoConfig,
     workload |-> IF k = "ConfigMap" THEN 0 ELSE m.spec.workload]

\* The stored object without history.
Stored(kid) == [owner |-> kid.owner, config |-> kid.config,
                workload |-> kid.workload]

\* Mutant: no Owns(Service).
WatchedWithoutService == {"ConfigMap", "Deployment"}

\* SetupWithManager: Owns(ServiceMonitor) only when the CRD was found.
Watched == IF smEnabled THEN Kinds ELSE Kinds \ {"ServiceMonitor"}

\* setCondition
WithCondition(m, type, why) ==
    [m EXCEPT !.status.conditions[type] =
        [reason |-> why, gen |-> m.generation]]

Emitted(k) == evt' = evt \cup ({k} \cap Watched)

CachedDeployment == [present |-> kids["Deployment"].owner # 0,
                     ready |-> depReady]

Init ==
    /\ mon = Absent /\ lastUid = 0
    /\ \E start \in Starts :
          secret = start.secret /\ smCRD = start.smCRD /\ lib = start.lib
    /\ kids = [k \in Kinds |-> NoChild]
    /\ depReady = FALSE /\ pods = {} /\ lastPod = 0
    /\ cMon = mon /\ cLib = lib /\ cSecret = secret
    /\ cDep = [present |-> FALSE, ready |-> FALSE] /\ cPods = {}
    /\ evt = {} /\ dirty = FALSE /\ timer = FALSE
    /\ smEnabled = smCRD
    /\ pc = "idle" /\ monitor = Absent /\ libs = <<>> /\ events = {}
    /\ now = 1 /\ edits = 0 /\ faults = 0 /\ flips = 0

-----------------------------------------------------------------------------
\* The worker: the steps of Reconcile, each up to and including one API write.

\* Mutant: RequeueAfter and errors are dropped.
ReturnForgetting(requeue) ==
    /\ pc' = "idle" /\ monitor' = Absent /\ libs' = <<>> /\ events' = {}
    /\ timer' = timer

\* Reconcile returns; requeue stands for an error or a RequeueAfter.
Return(requeue) ==
    /\ pc' = "idle" /\ monitor' = Absent /\ libs' = <<>> /\ events' = {}
    /\ timer' = (timer \/ requeue)

\* Mutants: no IsNotFound test; no deletion branch; no finalizer.
EntryWithoutNotFound(m) ==
    IF m.deleting THEN IF m.fin THEN "removeFinalizer" ELSE "idle"
    ELSE IF m.fin THEN "credentials" ELSE "addFinalizer"
EntryWithoutDeletion(m) ==
    IF m.uid = 0 THEN "idle"
    ELSE IF m.fin THEN "credentials" ELSE "addFinalizer"

EntryWithoutFinalizer(m) ==
    IF m.uid = 0 THEN "idle"
    ELSE IF m.deleting THEN IF m.fin THEN "removeFinalizer" ELSE "idle"
    ELSE "credentials"

\* Where Reconcile goes after reading m from the cache.
Entry(m) ==
    IF m.uid = 0 THEN "idle"
    ELSE IF m.deleting THEN IF m.fin THEN "removeFinalizer" ELSE "idle"
    ELSE IF m.fin THEN "credentials" ELSE "addFinalizer"

\* The queue hands out the key and Reconcile reads the monitor.
Begin ==
    /\ pc = "idle" /\ dirty
    /\ dirty' = FALSE
    /\ pc' = Entry(cMon)
    /\ monitor' = IF pc' = "idle" THEN Absent ELSE cMon
    /\ UNCHANGED <<objectVars, clusterVars, cacheVars, timer, smEnabled, libs,
                   events, boundVars>>

\* Update without the finalizer.  It was the last one, so the object is gone.
RemoveFinalizer ==
    /\ pc = "removeFinalizer"
    /\ IF mon = monitor
       THEN mon' = Absent /\ Return(FALSE)
       ELSE UNCHANGED mon /\ Return(TRUE)
    /\ UNCHANGED <<lastUid, lib, secret, smCRD, clusterVars, cacheVars, dirty,
                   smEnabled, boundVars>>

\* Mutant: a conflict on the finalizer is logged and ignored.
AddFinalizerBestEffort ==
    /\ pc = "addFinalizer"
    /\ mon' = IF mon = monitor THEN [mon EXCEPT !.fin = TRUE] ELSE mon
    /\ monitor' = IF mon = monitor THEN mon' ELSE monitor
    /\ pc' = "credentials"
    /\ UNCHANGED <<lastUid, lib, secret, smCRD, clusterVars, cacheVars, queueVars,
                   smEnabled, libs, events, boundVars>>

\* Update with the finalizer; the object read back replaces the copy.
AddFinalizer ==
    /\ pc = "addFinalizer"
    /\ IF mon = monitor
       THEN /\ mon' = [mon EXCEPT !.fin = TRUE]
            /\ monitor' = mon'
            /\ pc' = "credentials"
            /\ UNCHANGED <<timer, libs, events>>
       ELSE UNCHANGED mon /\ Return(TRUE)
    /\ UNCHANGED <<lastUid, lib, secret, smCRD, clusterVars, cacheVars, dirty,
                   smEnabled, boundVars>>

\* validateCredentials; the Secret is read from the cache.
ValidateCredentials ==
    /\ pc = "credentials"
    /\ \/ /\ monitor.spec.cred = "inline"
          /\ monitor' = WithCondition(monitor, "DatabaseReachable",
                                      "InlineCredentials")
          /\ pc' = "libraries" /\ UNCHANGED events
       \/ /\ monitor.spec.cred = "secret" /\ cSecret
          /\ monitor' = WithCondition(monitor, "DatabaseReachable",
                                      "CredentialsFound")
          /\ pc' = "libraries" /\ UNCHANGED events
       \/ /\ monitor.spec.cred # "inline"
          /\ ~(monitor.spec.cred = "secret" /\ cSecret)
          /\ IF monitor.spec.cred = "secret"
             THEN /\ monitor' = WithCondition(
                         WithCondition(monitor, "Ready", "SecretNotFound"),
                         "DatabaseReachable", "SecretNotFound")
                  /\ events' = events \cup {"SecretNotFound"}
             ELSE /\ monitor' = WithCondition(monitor, "Ready", "NoCredentials")
                  /\ UNCHANGED events
          /\ pc' = "patchEarly"
    /\ UNCHANGED <<objectVars, clusterVars, cacheVars, queueVars, smEnabled,
                   libs, boundVars>>

\* One turn of resolveLibraries' loop, or its end.
ResolveLibrary ==
    /\ pc = "libraries"
    /\ IF Len(libs) < Len(monitor.spec.libs)
       THEN LET found == cLib[monitor.spec.libs[Len(libs) + 1]]
            IN  IF found # NoContent
                THEN libs' = Append(libs, found)
                     /\ UNCHANGED <<pc, monitor, events>>
                ELSE /\ monitor' = WithCondition(monitor, "Ready",
                                                 "LibraryResolveFailed")
                     /\ events' = events \cup {"LibraryResolveFailed"}
                     /\ pc' = "patchEarly" /\ UNCHANGED libs
       ELSE pc' = "ConfigMap" /\ UNCHANGED <<monitor, libs, events>>
    /\ UNCHANGED <<objectVars, clusterVars, cacheVars, queueVars, smEnabled,
                   boundVars>>

\* Mutant: the ConfigMap is not applied when the status has its hash already.
ApplyUnlessRecorded(k) ==
    LET desired == Build(k, monitor, libs)
    IN  /\ IF k = "ConfigMap" /\ monitor.status.configHash = desired.config
           THEN UNCHANGED <<kids, evt>>
           ELSE kids' = [kids EXCEPT ![k] = desired] /\ Emitted(k)
        /\ UNCHANGED <<objectVars, depReady, pods, lastPod, cMon, cLib, cSecret,
                       cDep, cPods, dirty, smEnabled, boundVars>>

\* serverSideApply(Build(k)): no resourceVersion, ForceOwnership.
Apply(k) ==
    LET desired == Build(k, monitor, libs)
    IN  /\ kids' = [kids EXCEPT ![k] = desired]
        /\ IF Stored(kids[k]) = Stored(desired) THEN UNCHANGED evt ELSE Emitted(k)
        /\ UNCHANGED <<objectVars, depReady, pods, lastPod, cMon, cLib, cSecret,
                       cDep, cPods, dirty, smEnabled, boundVars>>

\* Steps 3 and 4.  A build error is returned before anything is recorded.
ApplyConfigMap ==
    /\ pc = "ConfigMap"
    /\ IF BuildFails(monitor.spec, libs)
       THEN /\ Return(TRUE)
            /\ UNCHANGED <<objectVars, clusterVars, cacheVars, dirty, smEnabled,
                           boundVars>>
       ELSE /\ Apply("ConfigMap")
            /\ LET hash == ConfigOf(monitor.spec, libs)
               IN  /\ monitor' = [WithCondition(monitor, "ConfigGenerated",
                                                "ConfigMapUpdated")
                                  EXCEPT !.status.configHash = hash]
                   /\ events' = IF monitor.status.configHash # hash
                                THEN events \cup {"ConfigMapUpdated"} ELSE events
            /\ pc' = "Deployment"
            /\ UNCHANGED <<timer, libs>>

\* Step 5.
ApplyDeployment ==
    /\ pc = "Deployment"
    /\ Apply("Deployment")
    /\ pc' = "Service"
    /\ UNCHANGED <<timer, monitor, libs, events>>

\* Step 6, and the test that opens step 6b.
ApplyService ==
    /\ pc = "Service"
    /\ Apply("Service")
    /\ pc' = IF smEnabled THEN "ServiceMonitor" ELSE "observe"
    /\ UNCHANGED <<timer, monitor, libs, events>>

\* Step 6b.  The API server rejects the kind once its CRD is gone.
ApplyServiceMonitor ==
    /\ pc = "ServiceMonitor"
    /\ IF smCRD
       THEN /\ Apply("ServiceMonitor")
            /\ pc' = "observe"
            /\ UNCHANGED <<timer, monitor, libs, events>>
       ELSE /\ Return(TRUE)
            /\ UNCHANGED <<objectVars, clusterVars, cacheVars, dirty, smEnabled,
                           boundVars>>

\* Mutant: the time written differs from the one written before (no rounding).
StampAlwaysNew(m) ==
    IF m.status.lastReconciled = now THEN (now % MaxTime) + 1 ELSE now

\* time.Now() as a metav1.Time: stored, and so compared, in whole seconds.
LastReconciled(m) == now

\* Step 7 up to the status update.  The Deployment just applied is read from
\* the cache, which may not have it yet.  An empty pod list keeps podName.
Observe ==
    /\ pc = "observe"
    /\ IF ~cDep.present
       THEN Return(TRUE)
       ELSE /\ \E pod \in IF cPods = {} THEN {monitor.status.podName} ELSE cPods :
                 monitor' = [WithCondition(monitor, "Ready",
                                 IF cDep.ready THEN "PodRunning" ELSE "PodNotReady")
                             EXCEPT !.status.ready = cDep.ready,
                                    !.status.observedGeneration = monitor.generation,
                                    !.status.lastReconciled = LastReconciled(monitor),
                                    !.status.podName = pod]
            /\ events' = events \cup
                   IF cDep.ready = monitor.status.ready THEN {}
                   ELSE IF cDep.ready THEN {"PodRunning"} ELSE {"PodNotReady"}
            /\ pc' = "patchFinal"
            /\ UNCHANGED <<timer, libs>>
    /\ UNCHANGED <<objectVars, clusterVars, cacheVars, dirty, smEnabled, boundVars>>

\* Mutants: the generation reported is the one found when the status is sent;
\* the hash is not reported.
PersistedAtLatest(status) == [status EXCEPT !.observedGeneration = cMon.generation]
PersistedWithoutHash(status) == [status EXCEPT !.configHash = NoConfig]

\* The status the API server keeps of the one it is sent.
Persisted(status) ==
    IF StatusKeepsHash THEN status ELSE [status EXCEPT !.configHash = NoConfig]

(***************************************************************************)
(* patchStatus.  Each try reads the cache again and sends the in-memory    *)
(* status under the resourceVersion found there; it is accepted when the   *)
(* cached object is the stored one.  While the cache lags the tries are    *)
(* conflicts, and RetryOnConflict may run out of them.  On the early exits *)
(* the outcome is only logged and the key comes back after 30s; at the end *)
(* an error is returned, and a monitor that is not ready comes back too.   *)
(***************************************************************************)
PatchStatus ==
    /\ pc \in {"patchEarly", "patchFinal"}
    /\ IF cMon = mon /\ cMon.uid # 0
       THEN /\ mon' = [mon EXCEPT !.status = Persisted(monitor.status)]
            /\ Return(pc = "patchEarly" \/ ~monitor.status.ready)
       ELSE UNCHANGED mon /\ Return(TRUE)
    /\ UNCHANGED <<lastUid, lib, secret, smCRD, clusterVars, cacheVars, dirty,
                   smEnabled, boundVars>>

Reconcile ==
    \/ Begin \/ RemoveFinalizer \/ AddFinalizer \/ ValidateCredentials
    \/ ResolveLibrary \/ ApplyConfigMap \/ ApplyDeployment \/ ApplyService
    \/ ApplyServiceMonitor \/ Observe \/ PatchStatus

(***************************************************************************)
(* An API call fails, or its answer is lost after it took effect (the call *)
(* being the one of the step before).  Every such error ends the reconcile *)
(* and brings the key back.                                                *)
(***************************************************************************)
CallFails ==
    /\ pc # "idle" /\ faults < MaxFaults
    /\ faults' = faults + 1
    /\ Return(TRUE)
    /\ UNCHANGED <<objectVars, clusterVars, cacheVars, dirty, smEnabled, now,
                   edits, flips>>

(***************************************************************************)
(* The operator process dies and starts again: caches are listed afresh,   *)
(* every object listed is an add event, and discovery decides once more    *)
(* about ServiceMonitors (any discovery error counts as "no CRD").  The    *)
(* lists are up to date here; Managers starts processes from stale ones.   *)
(***************************************************************************)
Restart ==
    /\ faults < MaxFaults
    /\ faults' = faults + 1
    /\ smEnabled' \in {smCRD, FALSE}
    /\ cMon' = mon /\ cLib' = lib /\ cSecret' = secret
    /\ cDep' = CachedDeployment /\ cPods' = pods /\ evt' = {}
    /\ dirty' = (mon.uid # 0 \/ \E k \in Watched' : kids[k].owner # 0)
    /\ timer' = FALSE
    /\ pc' = "idle" /\ monitor' = Absent /\ libs' = <<>> /\ events' = {}
    /\ UNCHANGED <<objectVars, clusterVars, now, edits, flips>>

-----------------------------------------------------------------------------
\* Watch events reach the caches and the event handlers.

DeliverMonitor ==
    /\ cMon # mon
    /\ cMon' = mon /\ dirty' = TRUE
    /\ UNCHANGED <<objectVars, clusterVars, cLib, cSecret, cDep, cPods, evt,
                   timer, smEnabled, workerVars, boundVars>>

\* Mutant: monitors that have a configuration already are not queued.
LibraryToNewMonitors(l) ==
    /\ cMon.uid # 0 /\ cMon.status.configHash = NoConfig
    /\ \E i \in DOMAIN cMon.spec.libs : cMon.spec.libs[i] = l

\* libraryToMonitors: whether the cached monitor lists l.
LibraryToMonitors(l) ==
    cMon.uid # 0 /\ \E i \in DOMAIN cMon.spec.libs : cMon.spec.libs[i] = l

DeliverLibrary(l) ==
    /\ cLib[l] # lib[l]
    /\ cLib' = [cLib EXCEPT ![l] = lib[l]]
    /\ dirty' = (dirty \/ LibraryToMonitors(l))
    /\ UNCHANGED <<objectVars, clusterVars, cMon, cSecret, cDep, cPods, evt,
                   timer, smEnabled, workerVars, boundVars>>

\* Secrets and pods are cached because they are read; nothing is queued.
DeliverSecret ==
    /\ cSecret # secret
    /\ cSecret' = secret
    /\ UNCHANGED <<objectVars, clusterVars, cMon, cLib, cDep, cPods, evt,
                   queueVars, smEnabled, workerVars, boundVars>>

DeliverPods ==
    /\ cPods # pods
    /\ cPods' = pods
    /\ UNCHANGED <<objectVars, clusterVars, cMon, cLib, cSecret, cDep, evt,
                   queueVars, smEnabled, workerVars, boundVars>>

\* Mutant: a predicate drops status-only events of the Deployment.
DeliverChildFiltered(k) ==
    /\ k \in evt
    /\ evt' = evt \ {k}
    /\ dirty' = (dirty \/ ~(k = "Deployment" /\ cDep.present))
    /\ cDep' = IF k = "Deployment" THEN CachedDeployment ELSE cDep
    /\ UNCHANGED <<objectVars, clusterVars, cMon, cLib, cSecret, cPods, timer,
                   smEnabled, workerVars, boundVars>>

\* Owns(k): the owner is queued by name, whatever its uid.
DeliverChild(k) ==
    /\ k \in evt
    /\ evt' = evt \ {k}
    /\ dirty' = TRUE
    /\ cDep' = IF k = "Deployment" THEN CachedDeployment ELSE cDep
    /\ UNCHANGED <<objectVars, clusterVars, cMon, cLib, cSecret, cPods, timer,
                   smEnabled, workerVars, boundVars>>

\* RequeueAfter or the rate limiter's delay elapses.
TimerFires ==
    /\ timer
    /\ timer' = FALSE /\ dirty' = TRUE
    /\ UNCHANGED <<objectVars, clusterVars, cacheVars, smEnabled, workerVars,
                   boundVars>>

-----------------------------------------------------------------------------
\* The rest of the cluster.

\* A child disappears, and its status with it.
Vanish(k) ==
    /\ kids' = [kids EXCEPT ![k] = NoChild]
    /\ depReady' = (depReady /\ k # "Deployment")
    /\ Emitted(k)

\* The garbage collector deletes a child whose owner uid no longer exists.
CollectChild(k) ==
    /\ kids[k].owner \notin {0, mon.uid}
    /\ Vanish(k)
    /\ UNCHANGED <<objectVars, pods, lastPod, cMon, cLib, cSecret, cDep, cPods,
                   queueVars, smEnabled, workerVars, boundVars>>

\* The deployment controller starts a pod,
StartPod ==
    /\ kids["Deployment"].owner # 0 /\ lastPod < MaxPods
    /\ lastPod' = lastPod + 1
    /\ pods' = pods \cup {lastPod'}
    /\ UNCHANGED <<objectVars, kids, depReady, cacheVars, queueVars, smEnabled,
                   workerVars, boundVars>>

\* a pod of a live Deployment dies or is replaced,
StopPod(p) ==
    /\ p \in pods /\ kids["Deployment"].owner # 0 /\ flips < MaxFlips
    /\ flips' = flips + 1
    /\ pods' = pods \ {p}
    /\ UNCHANGED <<objectVars, kids, depReady, lastPod, cacheVars, queueVars,
                   smEnabled, workerVars, now, edits, faults>>

\* and the pods of a deleted Deployment are collected.
CollectPods ==
    /\ pods # {} /\ kids["Deployment"].owner = 0
    /\ pods' = {}
    /\ UNCHANGED <<objectVars, kids, depReady, lastPod, cacheVars, queueVars,
                   smEnabled, workerVars, boundVars>>

SetReady(ready) ==
    /\ kids["Deployment"].owner # 0 /\ depReady # ready
    /\ depReady' = ready
    /\ Emitted("Deployment")
    /\ UNCHANGED <<objectVars, kids, pods, lastPod, cMon, cLib, cSecret, cDep,
                   cPods, queueVars, smEnabled, workerVars, now, edits, faults>>

\* A probe of a running pod changes its mind,
ProbePod ==
    /\ pods # {} /\ flips < MaxFlips
    /\ flips' = flips + 1
    /\ SetReady(~depReady)

\* and without a pod no replica is ready.
LoseReadiness ==
    /\ pods = {}
    /\ SetReady(FALSE)
    /\ UNCHANGED flips

(***************************************************************************)
(* Seconds pass without end.  The controller only compares them for being  *)
(* the same, so a new second is any number that no copy of the monitor     *)
(* carries, the least one for definiteness; and a second that no copy      *)
(* carries need not be told apart from the next.  The clock is read in     *)
(* Observe alone: time that passes earlier in a reconcile is counted just  *)
(* before it.  With MaxTime = 1 all happens in one second; with 3 there is *)
(* always a number left.                                                   *)
(***************************************************************************)
Tick ==
    /\ pc \in {"idle", "observe"}
    /\ LET carried == {m.status.lastReconciled : m \in {mon, cMon, monitor}}
           unused  == (1..MaxTime) \ carried
       IN  /\ now \in carried
           /\ \E second \in unused :
                 (\A other \in unused : second <= other) /\ now' = second
    /\ UNCHANGED <<objectVars, clusterVars, cacheVars, queueVars, smEnabled,
                   workerVars, edits, faults, flips>>

-----------------------------------------------------------------------------
\* Users.

CreateMonitor(spec) ==
    /\ mon.uid = 0 /\ lastUid < MaxUid /\ edits < MaxEdits
    /\ "monitor" \in UserOps
    /\ edits' = edits + 1
    /\ lastUid' = lastUid + 1
    /\ mon' = [Absent EXCEPT !.uid = lastUid', !.generation = 1, !.spec = spec]
    /\ UNCHANGED <<lib, secret, smCRD, clusterVars, cacheVars, queueVars,
                   smEnabled, workerVars, now, faults, flips>>

UpdateMonitor(spec) ==
    /\ mon.uid # 0 /\ spec # mon.spec /\ edits < MaxEdits
    /\ "monitor" \in UserOps
    /\ edits' = edits + 1
    /\ mon' = [mon EXCEPT !.spec = spec, !.generation = mon.generation + 1]
    /\ UNCHANGED <<lastUid, lib, secret, smCRD, clusterVars, cacheVars,
                   queueVars, smEnabled, workerVars, now, faults, flips>>

\* With a finalizer the object is only marked, which bumps its generation.
DeleteMonitor ==
    /\ mon.uid # 0 /\ ~mon.deleting /\ edits < MaxEdits
    /\ "monitor" \in UserOps
    /\ edits' = edits + 1
    /\ mon' = IF mon.fin
              THEN [mon EXCEPT !.deleting = TRUE, !.generation = mon.generation + 1]
              ELSE Absent
    /\ UNCHANGED <<lastUid, lib, secret, smCRD, clusterVars, cacheVars,
                   queueVars, smEnabled, workerVars, now, faults, flips>>

SetLibrary(l, content) ==
    /\ lib[l] # content /\ edits < MaxEdits
    /\ "library" \in UserOps
    /\ edits' = edits + 1
    /\ lib' = [lib EXCEPT ![l] = content]
    /\ UNCHANGED <<mon, lastUid, secret, smCRD, clusterVars, cacheVars,
                   queueVars, smEnabled, workerVars, now, faults, flips>>

SetSecret ==
    /\ edits < MaxEdits
    /\ "secret" \in UserOps
    /\ edits' = edits + 1
    /\ secret' = ~secret
    /\ UNCHANGED <<mon, lastUid, lib, smCRD, clusterVars, cacheVars, queueVars,
                   smEnabled, workerVars, now, faults, flips>>

\* Installing or removing prometheus-operator.  Removing a CRD removes its objects.
SetServiceMonitorCRD ==
    /\ edits < MaxEdits
    /\ "crd" \in UserOps
    /\ edits' = edits + 1
    /\ smCRD' = ~smCRD
    /\ IF smCRD /\ kids["ServiceMonitor"].owner # 0
       THEN Vanish("ServiceMonitor") ELSE UNCHANGED <<kids, depReady, evt>>
    /\ UNCHANGED <<mon, lastUid, lib, secret, pods, lastPod, cMon, cLib, cSecret,
                   cDep, cPods, queueVars, smEnabled, workerVars, now, faults,
                   flips>>

DeleteChild(k) ==
    /\ kids[k].owner # 0 /\ edits < MaxEdits
    /\ "child" \in UserOps
    /\ edits' = edits + 1
    /\ Vanish(k)
    /\ UNCHANGED <<objectVars, pods, lastPod, cMon, cLib, cSecret, cDep, cPods,
                   queueVars, smEnabled, workerVars, now, faults, flips>>

\* Someone edits the fields the operator applies.
EditChild(k) ==
    /\ kids[k].owner # 0 /\ kids[k].config # Edited /\ edits < MaxEdits
    /\ "child" \in UserOps
    /\ edits' = edits + 1
    /\ kids' = [kids EXCEPT ![k].config = Edited]
    /\ Emitted(k)
    /\ UNCHANGED <<objectVars, depReady, pods, lastPod, cMon, cLib, cSecret,
                   cDep, cPods, queueVars, smEnabled, workerVars, now, faults,
                   flips>>

UserActs ==
    \/ \E spec \in Specs : CreateMonitor(spec) \/ UpdateMonitor(spec)
    \/ DeleteMonitor
    \/ \E l \in Libraries, content \in Contents \cup {NoContent} :
          SetLibrary(l, content)
    \/ SetSecret
    \/ SetServiceMonitorCRD
    \/ \E k \in Kinds : DeleteChild(k) \/ EditChild(k)

Deliver ==
    \/ DeliverMonitor \/ DeliverSecret \/ DeliverPods
    \/ \E l \in Libraries : DeliverLibrary(l)
    \/ \E k \in Kinds : DeliverChild(k)

ClusterActs ==
    \/ \E k \in Kinds : CollectChild(k)
    \/ \E p \in pods : StopPod(p)
    \/ StartPod \/ CollectPods \/ ProbePod \/ LoseReadiness \/ Tick

Next ==
    \/ Reconcile \/ CallFails \/ Restart \/ TimerFires
    \/ Deliver \/ ClusterActs \/ UserActs

Spec == Init /\ [][Next]_vars

(***************************************************************************)
(* The worker goroutine keeps running, watches and timers deliver, and the *)
(* cluster's own controllers act.  Nothing is assumed of users, of faults, *)
(* or of pods becoming ready.                                              *)
(***************************************************************************)
Fairness ==
    /\ WF_vars(Reconcile) /\ WF_vars(TimerFires)
    /\ WF_vars(DeliverMonitor) /\ WF_vars(DeliverSecret) /\ WF_vars(DeliverPods)
    /\ \A l \in Libraries : WF_vars(DeliverLibrary(l))
    /\ \A k \in Kinds : WF_vars(DeliverChild(k)) /\ WF_vars(CollectChild(k))
    /\ WF_vars(CollectPods) /\ WF_vars(LoseReadiness)

FairSpec == Spec /\ Fairness

-----------------------------------------------------------------------------
\* What the controller is for.

Statuses ==
    [ready : BOOLEAN, podName : Nat, observedGeneration : Nat,
     configHash : Configs \cup {NoConfig}, lastReconciled : Nat,
     conditions : [ConditionTypes -> [reason : Reasons, gen : Nat]]]

Monitors ==
    [uid : Nat, generation : Nat, spec : Specs \cup {NoSpec}, fin : BOOLEAN,
     deleting : BOOLEAN, status : Statuses]

WellFormed(m) == m \in Monitors /\ (m.uid = 0 <=> m.spec = NoSpec)

Children ==
    [owner : Nat, gen : Nat, config : Configs \cup {NoConfig, Edited},
     workload : Nat]

\* The steps of Reconcile that follow the finalizer, in the order of the code.
Applying == {"credentials", "libraries", "ConfigMap", "Deployment", "Service",
             "ServiceMonitor", "observe", "patchEarly", "patchFinal"}

\* Every variable ranges over what the API types and the controller allow, and
\* the worker holds a monitor exactly while Reconcile runs.
TypeOK ==
    /\ WellFormed(mon) /\ WellFormed(cMon) /\ WellFormed(monitor)
    /\ lastUid \in Nat
    /\ lib \in [Libraries -> Contents \cup {NoContent}]
    /\ cLib \in [Libraries -> Contents \cup {NoContent}]
    /\ secret \in BOOLEAN /\ cSecret \in BOOLEAN
    /\ smCRD \in BOOLEAN /\ smEnabled \in BOOLEAN
    /\ kids \in [Kinds -> Children]
    /\ depReady \in BOOLEAN
    /\ cDep \in [present : BOOLEAN, ready : BOOLEAN]
    /\ pods \subseteq Nat /\ cPods \subseteq Nat /\ lastPod \in Nat
    /\ evt \subseteq Kinds
    /\ dirty \in BOOLEAN /\ timer \in BOOLEAN
    /\ pc \in {"idle", "removeFinalizer", "addFinalizer"} \cup Applying
    /\ pc = "idle" <=> monitor.uid = 0
    /\ libs \in Seq(Contents)
    /\ events \subseteq EventReasons
    /\ now \in Nat /\ edits \in Nat /\ faults \in Nat /\ flips \in Nat

\* While Reconcile validates, applies and reports, the incarnation of the monitor
\* it read still exists and still carries the finalizer, however stale the copy:
\* nothing is ever applied for, or reported to, another incarnation.
OwnerAlive ==
    pc \in Applying => mon.uid = monitor.uid /\ mon.fin

\* status.observedGeneration = g means that every child the controller always
\* makes, as long as it exists and is the monitor's own (somebody may delete it),
\* was applied from generation g or a later one and has not gone back since.
ObservedMeansApplied ==
    \A k \in Always :
        mon.uid # 0 /\ kids[k].owner = mon.uid
            => kids[k].gen >= mon.status.observedGeneration

RolloutStep ==
    LET c == kids'["Deployment"].config IN
    c # kids["Deployment"].config /\ c \notin {NoConfig, Edited}
        => \/ kids["ConfigMap"].config \in {c, Edited}
           \/ kids["ConfigMap"].owner = 0

\* The hash annotation on the pod template, which restarts pgwatch, moves to a
\* configuration only when the ConfigMap already holds that configuration
\* (unless somebody else deleted or edited the ConfigMap in between).
RolloutAfterConfig == [][RolloutStep]_vars

\* The contents the libraries of a spec have now.
CurrentContents(spec) == [i \in DOMAIN spec.libs |-> lib[spec.libs[i]]]

\* Nothing the controller waits for is missing.
Reconcilable ==
    /\ mon.uid # 0 /\ ~mon.deleting
    /\ mon.spec.cred = "inline" \/ (mon.spec.cred = "secret" /\ secret)
    /\ \A i \in DOMAIN mon.spec.libs : lib[mon.spec.libs[i]] # NoContent
    /\ ~BuildFails(mon.spec, CurrentContents(mon.spec))
    /\ smEnabled => smCRD

\* The children are the ones the spec and the libraries ask for, and the status
\* tells the truth about them.
Settled ==
    /\ \A k \in Kinds : (k = "ServiceMonitor" => smEnabled) =>
           Stored(kids[k]) = Stored(Build(k, mon, CurrentContents(mon.spec)))
    /\ mon.status.observedGeneration = mon.generation
    /\ mon.status.configHash \in {NoConfig, ConfigOf(mon.spec, CurrentContents(mon.spec))}
    /\ mon.status.configHash = NoConfig => ~StatusKeepsHash
    /\ mon.status.ready = depReady
    /\ mon.status.conditions["Ready"].reason =
           IF depReady THEN "PodRunning" ELSE "PodNotReady"

\* Nothing will bring the key back: no reconcile runs or is queued or scheduled,
\* and no event is on its way.
AtRest ==
    /\ pc = "idle" /\ ~dirty /\ ~timer
    /\ evt = {} /\ cMon = mon /\ cLib = lib

\* The controller rests only when it has nothing left to do: no stale read, lost
\* event or failed call leaves it at rest with a deletion to finish, a child that
\* is not the one asked for, or a status that is wrong.
RestsOnlyWhenDone ==
    AtRest /\ mon.uid # 0 => ~mon.deleting /\ Settled /\ depReady

\* Once users, pods and faults leave the monitor alone it is settled for good,
\* whatever changed (spec, libraries, Secret, children, restarts) and in
\* whatever order the watches told the controller.
Converges == <>[](Reconcilable => Settled)

\* From some moment on every second a report was made in ends with the controller
\* still busy: the reaction to one second's reports lasts until the next second.
AlwaysBehind ==
    []<><<Tick>>_vars /\ <>[][Tick => ~AtRest]_vars

(***************************************************************************)
(* A status update with a new lastReconciled is an event of the monitor,   *)
(* whose watch has no predicate, and brings the next reconcile.  This      *)
(* ends, although the clock goes on: a monitor whose pod is ready leaves   *)
(* the controller at rest, unless the controller is so slow that every     *)
(* second finds it busy with the reports of the one before.  That one      *)
(* exception is real: nothing in the code stops such a sequence.           *)
(***************************************************************************)
GoesQuiet ==
    \/ <>[](Reconcilable /\ depReady => pc = "idle" /\ ~dirty /\ ~timer)
    \/ AlwaysBehind

\* ConfigMapUpdated is not recorded over and over for one configuration.  (It can
\* be recorded twice: the second reconcile may still read the old status.)
ConfigEventsStop == <>[]("ConfigMapUpdated" \notin events)

\* A monitor marked for deletion disappears with everything it owned.
DeletionCompletes ==
    \A u \in 1..MaxUid :
        mon.uid = u /\ mon.deleting
            ~> mon.uid # u /\ \A k \in Kinds : kids[k].owner # u

\* The refinement mapping: what can be seen of all this in the API server.
Made == [k \in Kinds |-> [owner |-> kids[k].owner, gen |-> kids[k].gen,
                          config |-> kids[k].config]]

Promise == INSTANCE Rollout WITH
    live <- mon.uid, wanted <- mon.generation, marked <- mon.deleting,
    reported <- mon.status.observedGeneration, made <- Made

\* Reconcile, with its stale caches, retries and restarts, keeps every promise of
\* Rollout: objects are made for the monitor that exists and never from an older
\* generation than reported, the status reports what was applied, the Deployment
\* follows the ConfigMap, and a monitor that owns objects goes only when marked.
ImplementsRollout == Promise!Spec

-----------------------------------------------------------------------------
\* What the documentation says and the code does not do.

\* "observedGeneration is the .metadata.generation the controller last
\* reconciled" (PgpilotMonitorStatus): it never goes back for one incarnation.
ObservedGenerationNeverRegresses ==
    [][mon'.uid = mon.uid => mon'.status.observedGeneration
                                >= mon.status.observedGeneration]_vars

\* "`ready` ... True when the pgwatch pod is running and ready": whatever else
\* is wrong, the column ends up telling whether a replica is ready.
ReadyColumnTruthful ==
    <>[](mon.uid # 0 /\ ~mon.deleting => (mon.status.ready => depReady))
=============================================================================
