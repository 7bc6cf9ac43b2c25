----------------------- MODULE MonitorReconcilerProofs -----------------------
(***************************************************************************)
(* Theorems about MonitorReconciler, for every set of specs, libraries and *)
(* contents and every value of the bounds.                                 *)
(***************************************************************************)
EXTENDS MonitorReconciler, TLAPS

(***************************************************************************)
(* The strengthening of OwnerAlive.  A cached monitor that carries the     *)
(* finalizer and is not marked can only be stale in its spec and status:   *)
(* the object it shows still exists, because the finalizer is taken off    *)
(* only by this controller, and only after its cache, which never goes     *)
(* back, has shown the mark.                                               *)
(***************************************************************************)
UidsAssigned == mon.uid <= lastUid /\ cMon.uid <= lastUid /\ monitor.uid <= lastUid

CachePinned ==
    cMon.uid # 0 /\ cMon.fin /\ ~cMon.deleting => mon.uid = cMon.uid /\ mon.fin

MarkIsFinal == cMon.uid # 0 /\ cMon.uid = mon.uid /\ cMon.deleting => mon.deleting

RemovesOnlyMarked ==
    pc = "removeFinalizer" =>
        /\ monitor.deleting
        /\ cMon.uid = monitor.uid => cMon.deleting
        /\ mon.uid = monitor.uid => mon.deleting

AddsOnlyUnmarked == pc = "addFinalizer" => ~monitor.deleting

PinInv == /\ UidsAssigned /\ CachePinned /\ MarkIsFinal
          /\ RemovesOnlyMarked /\ AddsOnlyUnmarked /\ OwnerAlive

(***************************************************************************)
(* The strengthening of ObservedMeansApplied.  The copies of the monitor   *)
(* are ordered by generation, and no status of the present incarnation, in *)
(* the API server, in the cache or in the worker's hands, claims more than *)
(* what was applied.                                                       *)
(***************************************************************************)
\* The children the reconcile in progress has applied already.
AppliedAt(step) ==
    CASE step = "Deployment" -> {"ConfigMap"}
      [] step = "Service" -> {"ConfigMap", "Deployment"}
      [] step \in {"ServiceMonitor", "observe", "patchFinal"} -> Always
      [] OTHER -> {}

Claim(m) == m.status.observedGeneration

ClaimsBounded ==
    /\ Claim(mon) <= mon.generation
    /\ Claim(cMon) <= cMon.generation
    /\ mon.uid # 0 /\ cMon.uid = mon.uid =>
          cMon.generation <= mon.generation /\ Claim(mon) <= cMon.generation
    /\ pc \in Applying =>
          /\ monitor.generation <= mon.generation
          /\ Claim(mon) <= monitor.generation
          /\ Claim(monitor) <= monitor.generation
          /\ cMon.uid = mon.uid => Claim(cMon) <= monitor.generation

ChildrenBacked ==
    \A k \in Always : mon.uid # 0 /\ kids[k].owner = mon.uid =>
        /\ kids[k].gen >= Claim(mon)
        /\ cMon.uid = mon.uid => kids[k].gen >= Claim(cMon)
        /\ pc \in Applying => kids[k].gen >= Claim(monitor)
        /\ k \in AppliedAt(pc) => kids[k].gen >= monitor.generation

ClaimInv == ClaimsBounded /\ ChildrenBacked

-----------------------------------------------------------------------------
\* The values the controller builds are of the types the API stores.

\* The object Get leaves when there is no monitor is well formed.
LEMMA AbsentType ==
    /\ WellFormed(Absent)
    /\ Absent.uid = 0 /\ Absent.generation = 0 /\ Absent.spec = NoSpec
    /\ ~Absent.fin /\ ~Absent.deleting /\ Claim(Absent) = 0
  BY DEF WellFormed, Absent, EmptyStatus, Monitors, Statuses, Reasons, Claim

\* setCondition touches the conditions only.
LEMMA WithConditionType ==
    ASSUME NEW m \in Monitors, NEW type \in ConditionTypes, NEW why \in Reasons
    PROVE  LET w == WithCondition(m, type, why) IN
           /\ w \in Monitors
           /\ w.uid = m.uid /\ w.generation = m.generation /\ w.spec = m.spec
           /\ w.fin = m.fin /\ w.deleting = m.deleting
           /\ w.status.observedGeneration = m.status.observedGeneration
  BY DEF WithCondition, Monitors, Statuses

\* The four builders produce children owned by the monitor they are given.
LEMMA BuildType ==
    ASSUME NEW k \in Kinds, NEW m \in Monitors, m.spec \in Specs,
           NEW contents \in Seq(Contents)
    PROVE  /\ Build(k, m, contents) \in Children
           /\ ConfigOf(m.spec, contents) \in Configs
           /\ Build(k, m, contents).owner = m.uid
           /\ Build(k, m, contents).gen = m.generation
  <1>1. m.spec \in MonitorSpecs
    BY SpecsAssumption
  <1>2. ConfigOf(m.spec, contents) \in Configs
    BY <1>1 DEF MonitorSpecs, ConfigOf, Configs
  <1>3. m.spec.workload \in Nat /\ m.uid \in Nat /\ m.generation \in Nat
    BY <1>1 DEF MonitorSpecs, Monitors
  <1> QED
    BY <1>2, <1>3 DEF Build, Children

\* What the API server keeps of a status claims what the status claims.
LEMMA PersistedType ==
    ASSUME NEW status \in Statuses
    PROVE  /\ Persisted(status) \in Statuses
           /\ Persisted(status).observedGeneration = status.observedGeneration
  BY DEF Persisted, Statuses

-----------------------------------------------------------------------------
\* Type correctness.

\* What a reconcile leaves behind in the worker.
LEMMA ReturnType ==
    ASSUME TypeOK, NEW requeue \in BOOLEAN, Return(requeue)
    PROVE  /\ pc' = "idle" /\ monitor' = Absent
           /\ libs' \in Seq(Contents) /\ events' \subseteq EventReasons
           /\ timer' \in BOOLEAN
  BY DEF Return, TypeOK

LEMMA TypeInit == Init => TypeOK
  <1> SUFFICES ASSUME Init PROVE TypeOK
    OBVIOUS
  <1>1. PICK start \in Starts :
            secret = start.secret /\ smCRD = start.smCRD /\ lib = start.lib
    BY DEF Init
  <1>2. start \in [secret : BOOLEAN, smCRD : BOOLEAN,
                   lib : [Libraries -> Contents \cup {NoContent}]]
    BY BoundsAssumption
  <1>3. NoChild \in Children
    BY DEF NoChild, Children
  <1>4. /\ WellFormed(mon) /\ WellFormed(cMon) /\ WellFormed(monitor)
        /\ pc = "idle" /\ monitor.uid = 0
    BY AbsentType DEF Init
  <1>5. libs \in Seq(Contents) /\ kids \in [Kinds -> Children]
    BY <1>3 DEF Init
  <1>6. /\ secret \in BOOLEAN /\ cSecret \in BOOLEAN
        /\ smCRD \in BOOLEAN /\ smEnabled \in BOOLEAN
        /\ lib \in [Libraries -> Contents \cup {NoContent}]
        /\ cLib \in [Libraries -> Contents \cup {NoContent}]
    BY <1>1, <1>2 DEF Init
  <1>7. /\ cDep \in [present : BOOLEAN, ready : BOOLEAN]
        /\ lastUid \in Nat /\ depReady \in BOOLEAN /\ lastPod \in Nat
        /\ dirty \in BOOLEAN /\ timer \in BOOLEAN
        /\ now \in Nat /\ edits \in Nat /\ faults \in Nat /\ flips \in Nat
    BY DEF Init
  <1>8. /\ pods \subseteq Nat /\ cPods \subseteq Nat /\ evt \subseteq Kinds
        /\ events \subseteq EventReasons
    BY DEF Init
  <1> QED
    BY <1>4, <1>5, <1>6, <1>7, <1>8 DEF TypeOK

\* Each step of the worker keeps every variable in its type.
LEMMA TypeReconcile == TypeOK /\ Reconcile => TypeOK'
  <1> SUFFICES ASSUME TypeOK, Reconcile PROVE TypeOK'
    OBVIOUS
  <1> USE DEF objectVars, clusterVars, cacheVars, queueVars, boundVars
  <1>0. /\ mon \in Monitors /\ cMon \in Monitors /\ monitor \in Monitors
        /\ monitor.status \in Statuses /\ libs \in Seq(Contents)
        /\ pc # "idle" => monitor.spec \in Specs
    BY DEF TypeOK, WellFormed, Monitors
  <1>1. CASE Begin
    BY <1>1, AbsentType DEF Begin, Entry, TypeOK, Applying
  <1>2. CASE RemoveFinalizer
    <2>1. /\ pc' = "idle" /\ monitor' = Absent
          /\ libs' \in Seq(Contents) /\ events' \subseteq EventReasons
          /\ timer' \in BOOLEAN
      BY <1>2, ReturnType DEF RemoveFinalizer
    <2>2. mon' \in {mon, Absent}
      BY <1>2 DEF RemoveFinalizer
    <2> QED
      BY <1>2, <2>1, <2>2, AbsentType DEF RemoveFinalizer, TypeOK
  <1>3. CASE AddFinalizer
    <2>1. CASE mon = monitor
      <3>1. /\ WellFormed([mon EXCEPT !.fin = TRUE])
            /\ [mon EXCEPT !.fin = TRUE].uid = mon.uid
        BY DEF TypeOK, WellFormed, Monitors
      <3> QED
        BY <1>3, <2>1, <3>1 DEF AddFinalizer, TypeOK, Applying
    <2>2. CASE mon # monitor
      <3>1. /\ pc' = "idle" /\ monitor' = Absent
            /\ libs' \in Seq(Contents) /\ events' \subseteq EventReasons
            /\ timer' \in BOOLEAN
        BY <1>3, <2>2, ReturnType DEF AddFinalizer
      <3> QED
        BY <1>3, <2>2, <3>1, AbsentType DEF AddFinalizer, TypeOK
    <2> QED
      BY <2>1, <2>2
  <1>4. CASE ValidateCredentials
    <2>1. /\ monitor' \in Monitors /\ monitor'.uid = monitor.uid
          /\ monitor'.spec = monitor.spec
      <3> DEFINE once == WithCondition(monitor, "Ready", "SecretNotFound")
      <3>1. /\ once \in Monitors /\ once.uid = monitor.uid
            /\ once.spec = monitor.spec
        BY <1>0, WithConditionType DEF ConditionTypes, Reasons
      <3> HIDE DEF once
      <3> QED
        BY <1>0, <1>4, <3>1, WithConditionType
        DEF ValidateCredentials, ConditionTypes, Reasons, once
    <2>2. events' \subseteq EventReasons
      BY <1>4 DEF ValidateCredentials, TypeOK, EventReasons
    <2>3. pc' \in Applying /\ pc' # "idle" /\ pc # "idle"
      BY <1>4 DEF ValidateCredentials, Applying
    <2> QED
      BY <1>4, <2>1, <2>2, <2>3 DEF ValidateCredentials, TypeOK, WellFormed
  <1>5. CASE ResolveLibrary
    <2> DEFINE found == cLib[monitor.spec.libs[Len(libs) + 1]]
               failed == WithCondition(monitor, "Ready", "LibraryResolveFailed")
    <2>1. CASE ~(Len(libs) < Len(monitor.spec.libs))
      BY <1>5, <2>1 DEF ResolveLibrary, TypeOK, Applying
    <2>2. CASE Len(libs) < Len(monitor.spec.libs) /\ found # NoContent
      <3>1. monitor.spec.libs \in Seq(Libraries)
        BY <1>0, <1>5, SpecsAssumption DEF ResolveLibrary, MonitorSpecs
      <3>2. monitor.spec.libs[Len(libs) + 1] \in Libraries
        BY <1>0, <2>2, <3>1
      <3>3. found \in Contents
        BY <2>2, <3>2 DEF TypeOK
      <3>4. libs' \in Seq(Contents)
        BY <1>0, <1>5, <2>2, <3>3 DEF ResolveLibrary
      <3> QED
        BY <1>5, <2>2, <3>4 DEF ResolveLibrary, TypeOK
    <2>3. CASE Len(libs) < Len(monitor.spec.libs) /\ found = NoContent
      <3>1. /\ failed \in Monitors /\ failed.uid = monitor.uid
            /\ failed.spec = monitor.spec
        BY <1>0, WithConditionType DEF ConditionTypes, Reasons
      <3>2. events' \subseteq EventReasons
        BY <1>5, <2>3 DEF ResolveLibrary, TypeOK, EventReasons
      <3> QED
        BY <1>5, <2>3, <3>1, <3>2 DEF ResolveLibrary, TypeOK, WellFormed, Applying
    <2> QED
      BY <2>1, <2>2, <2>3
  <1>6. CASE ApplyConfigMap
    <2>1. CASE BuildFails(monitor.spec, libs)
      BY <1>6, <2>1, ReturnType, AbsentType DEF ApplyConfigMap, TypeOK
    <2>2. CASE ~BuildFails(monitor.spec, libs)
      <3> DEFINE hash == ConfigOf(monitor.spec, libs)
                 generated == WithCondition(monitor, "ConfigGenerated",
                                            "ConfigMapUpdated")
      <3>1. Build("ConfigMap", monitor, libs) \in Children /\ hash \in Configs
        BY <1>0, <1>6, BuildType DEF ApplyConfigMap, Kinds
      <3>2. /\ generated \in Monitors /\ generated.uid = monitor.uid
            /\ generated.spec = monitor.spec
        BY <1>0, WithConditionType DEF ConditionTypes, Reasons
      <3>3. monitor' = [generated EXCEPT !.status.configHash = hash]
        BY <1>6, <2>2 DEF ApplyConfigMap
      <3>4. /\ monitor' \in Monitors /\ monitor'.uid = monitor.uid
            /\ monitor'.spec = monitor.spec
        <4> HIDE DEF hash, generated
        <4> QED
          BY <3>1, <3>2, <3>3 DEF Monitors, Statuses
      <3>5. events' \subseteq EventReasons
        BY <1>6, <2>2 DEF ApplyConfigMap, TypeOK, EventReasons
      <3> QED
        BY <1>6, <2>2, <3>1, <3>4, <3>5
        DEF ApplyConfigMap, Apply, Emitted, TypeOK, WellFormed, Applying, Kinds
    <2> QED
      BY <2>1, <2>2
  <1>7. CASE ApplyDeployment
    <2>1. Build("Deployment", monitor, libs) \in Children
      BY <1>0, <1>7, BuildType DEF ApplyDeployment, Kinds
    <2> QED
      BY <1>7, <2>1 DEF ApplyDeployment, Apply, Emitted, TypeOK, Applying, Kinds
  <1>8. CASE ApplyService
    <2>1. Build("Service", monitor, libs) \in Children
      BY <1>0, <1>8, BuildType DEF ApplyService, Kinds
    <2> QED
      BY <1>8, <2>1 DEF ApplyService, Apply, Emitted, TypeOK, Applying, Kinds
  <1>9. CASE ApplyServiceMonitor
    <2>1. Build("ServiceMonitor", monitor, libs) \in Children
      BY <1>0, <1>9, BuildType DEF ApplyServiceMonitor, Kinds
    <2>2. CASE smCRD
      BY <1>9, <2>1, <2>2
      DEF ApplyServiceMonitor, Apply, Emitted, TypeOK, Applying, Kinds
    <2>3. CASE ~smCRD
      BY <1>9, <2>3, ReturnType, AbsentType DEF ApplyServiceMonitor, TypeOK
    <2> QED
      BY <2>2, <2>3
  <1>10. CASE Observe
    <2>1. CASE ~cDep.present
      BY <1>10, <2>1, ReturnType, AbsentType DEF Observe, TypeOK
    <2>2. CASE cDep.present
      <3> DEFINE reason == IF cDep.ready THEN "PodRunning" ELSE "PodNotReady"
                 told == WithCondition(monitor, "Ready", reason)
      <3>1. PICK pod \in IF cPods = {} THEN {monitor.status.podName} ELSE cPods :
                monitor' = [told EXCEPT
                               !.status.ready = cDep.ready,
                               !.status.observedGeneration = monitor.generation,
                               !.status.lastReconciled = now,
                               !.status.podName = pod]
        BY <1>10, <2>2 DEF Observe, LastReconciled
      <3>2. pod \in Nat
        BY <1>0, <3>1 DEF TypeOK, Statuses
      <3>3. /\ told \in Monitors /\ told.uid = monitor.uid
            /\ told.spec = monitor.spec
        BY <1>0, WithConditionType DEF ConditionTypes, Reasons
      <3>4. cDep.ready \in BOOLEAN /\ now \in Nat /\ monitor.generation \in Nat
        BY <1>0 DEF TypeOK, Monitors
      <3>5. /\ monitor' \in Monitors /\ monitor'.uid = monitor.uid
            /\ monitor'.spec = monitor.spec
        <4> HIDE DEF told
        <4> QED
          BY <3>1, <3>2, <3>3, <3>4 DEF Monitors, Statuses
      <3>6. events' \subseteq EventReasons
        BY <1>10, <2>2 DEF Observe, TypeOK, EventReasons
      <3>7. pc # "idle" /\ pc' = "patchFinal"
        BY <1>10, <2>2 DEF Observe
      <3>8. WellFormed(monitor')
        BY <3>5 DEF TypeOK, WellFormed
      <3> QED
        BY <1>10, <2>2, <3>5, <3>6, <3>7, <3>8 DEF Observe, TypeOK, Applying
    <2> QED
      BY <2>1, <2>2
  <1>11. CASE PatchStatus
    <2> DEFINE patched == [mon EXCEPT !.status = Persisted(monitor.status)]
    <2>1. WellFormed(patched)
      <3>1. Persisted(monitor.status) \in Statuses
        BY <1>0, PersistedType
      <3> QED
        BY <1>0, <3>1 DEF TypeOK, WellFormed, Monitors
    <2>2. mon' \in {mon, patched}
      BY <1>11 DEF PatchStatus
    <2>3. PICK requeue \in BOOLEAN : Return(requeue)
      BY <1>11 DEF PatchStatus
    <2>4. /\ pc' = "idle" /\ monitor' = Absent
          /\ libs' \in Seq(Contents) /\ events' \subseteq EventReasons
          /\ timer' \in BOOLEAN
      BY <2>3, ReturnType
    <2> QED
      BY <1>11, <2>1, <2>2, <2>4, AbsentType DEF PatchStatus, TypeOK
  <1> QED
    BY <1>1, <1>2, <1>3, <1>4, <1>5, <1>6, <1>7, <1>8, <1>9, <1>10, <1>11
    DEF Reconcile

\* So does everything that happens around the worker.
LEMMA TypeEnvironment ==
    TypeOK /\ (CallFails \/ Restart \/ TimerFires \/ Deliver \/ ClusterActs \/ UserActs)
        => TypeOK'
  <1> SUFFICES ASSUME TypeOK,
                      \/ CallFails \/ Restart \/ TimerFires
                      \/ Deliver \/ ClusterActs \/ UserActs
               PROVE  TypeOK'
    OBVIOUS
  <1> USE DEF objectVars, clusterVars, cacheVars, queueVars, workerVars, boundVars
  <1>0. NoChild \in Children
    BY DEF NoChild, Children
  <1>1. CASE CallFails
    <2>1. /\ pc' = "idle" /\ monitor' = Absent
          /\ libs' \in Seq(Contents) /\ events' \subseteq EventReasons
          /\ timer' \in BOOLEAN
      BY <1>1, ReturnType DEF CallFails
    <2> QED
      BY <1>1, <2>1, AbsentType DEF CallFails, TypeOK
  <1>2. CASE Restart
    <2>1. libs' \in Seq(Contents) /\ events' \subseteq EventReasons /\ evt' \subseteq Kinds
      BY <1>2 DEF Restart
    <2>2. cDep' \in [present : BOOLEAN, ready : BOOLEAN]
      BY <1>2 DEF Restart, CachedDeployment, TypeOK
    <2>3. smEnabled' \in BOOLEAN /\ dirty' \in BOOLEAN /\ timer' \in BOOLEAN
      BY <1>2 DEF Restart, TypeOK
    <2> QED
      BY <1>2, <2>1, <2>2, <2>3, AbsentType DEF Restart, TypeOK
  <1>3. CASE TimerFires
    BY <1>3 DEF TimerFires, TypeOK
  <1>4. CASE Deliver
    <2>1. CASE DeliverMonitor
      BY <2>1 DEF DeliverMonitor, TypeOK
    <2>2. CASE DeliverSecret
      BY <2>2 DEF DeliverSecret, TypeOK
    <2>3. CASE DeliverPods
      BY <2>3 DEF DeliverPods, TypeOK
    <2>4. ASSUME NEW l \in Libraries, DeliverLibrary(l) PROVE TypeOK'
      <3>1. dirty' \in BOOLEAN
        BY <2>4 DEF DeliverLibrary, TypeOK
      <3>2. cLib' \in [Libraries -> Contents \cup {NoContent}]
        BY <2>4 DEF DeliverLibrary, TypeOK
      <3> QED
        BY <2>4, <3>1, <3>2 DEF DeliverLibrary, TypeOK
    <2>5. ASSUME NEW k \in Kinds, DeliverChild(k) PROVE TypeOK'
      <3>1. cDep' \in [present : BOOLEAN, ready : BOOLEAN]
        BY <2>5 DEF DeliverChild, CachedDeployment, TypeOK
      <3> QED
        BY <2>5, <3>1 DEF DeliverChild, TypeOK
    <2> QED
      BY <1>4, <2>1, <2>2, <2>3, <2>4, <2>5 DEF Deliver
  <1>5. CASE ClusterActs
    <2>1. ASSUME NEW k \in Kinds, CollectChild(k) PROVE TypeOK'
      BY <1>0, <2>1 DEF CollectChild, Vanish, Emitted, TypeOK
    <2>2. ASSUME NEW p \in pods, StopPod(p) PROVE TypeOK'
      BY <2>2 DEF StopPod, TypeOK
    <2>3. CASE StartPod
      BY <2>3 DEF StartPod, TypeOK
    <2>4. CASE CollectPods
      BY <2>4 DEF CollectPods, TypeOK
    <2>5. CASE ProbePod
      <3>1. depReady' \in BOOLEAN /\ evt' \subseteq Kinds
        BY <2>5 DEF ProbePod, SetReady, Emitted, TypeOK, Kinds
      <3> QED
        BY <2>5, <3>1 DEF ProbePod, SetReady, TypeOK
    <2>6. CASE LoseReadiness
      BY <2>6 DEF LoseReadiness, SetReady, Emitted, TypeOK, Kinds
    <2>7. CASE Tick
      <3>1. now' \in Nat
        BY <2>7, BoundsAssumption DEF Tick
      <3> QED
        BY <2>7, <3>1 DEF Tick, TypeOK
    <2> QED
      BY <1>5, <2>1, <2>2, <2>3, <2>4, <2>5, <2>6, <2>7 DEF ClusterActs
  <1>6. CASE UserActs
    <2>1. ASSUME NEW spec \in Specs, CreateMonitor(spec) PROVE TypeOK'
      <3>1. /\ Absent \in Monitors /\ NoSpec \notin Specs
            /\ lastUid + 1 \in Nat /\ lastUid + 1 # 0
        BY AbsentType, SpecsAssumption DEF TypeOK, WellFormed
      <3>2. mon' = [Absent EXCEPT !.uid = lastUid + 1, !.generation = 1, !.spec = spec]
        BY <2>1 DEF CreateMonitor
      <3>3. WellFormed(mon')
        <4>1. mon' \in Monitors /\ mon'.uid = lastUid + 1 /\ mon'.spec = spec
          BY <3>1, <3>2 DEF Monitors
        <4> QED
          BY <3>1, <4>1 DEF WellFormed
      <3> QED
        BY <2>1, <3>3 DEF CreateMonitor, TypeOK
    <2>2. ASSUME NEW spec \in Specs, UpdateMonitor(spec) PROVE TypeOK'
      <3>1. /\ mon \in Monitors /\ mon.uid # 0 /\ NoSpec \notin Specs
            /\ mon.generation + 1 \in Nat
        BY <2>2, SpecsAssumption DEF UpdateMonitor, TypeOK, WellFormed, Monitors
      <3>2. mon' = [mon EXCEPT !.spec = spec, !.generation = mon.generation + 1]
        BY <2>2 DEF UpdateMonitor
      <3>3. WellFormed(mon')
        <4>1. mon' \in Monitors /\ mon'.uid = mon.uid /\ mon'.spec = spec
          BY <3>1, <3>2 DEF Monitors
        <4> QED
          BY <3>1, <4>1 DEF WellFormed
      <3> QED
        BY <2>2, <3>3 DEF UpdateMonitor, TypeOK
    <2>3. CASE DeleteMonitor
      <3> DEFINE marked ==
              [mon EXCEPT !.deleting = TRUE, !.generation = mon.generation + 1]
      <3>1. mon' \in {marked, Absent}
        BY <2>3 DEF DeleteMonitor
      <3>2. WellFormed(marked)
        <4>1. mon \in Monitors /\ mon.generation + 1 \in Nat
          BY DEF TypeOK, WellFormed, Monitors
        <4>2. marked \in Monitors /\ marked.uid = mon.uid /\ marked.spec = mon.spec
          BY <4>1 DEF Monitors
        <4> QED
          BY <4>2 DEF TypeOK, WellFormed
      <3>3. WellFormed(mon')
        BY <3>1, <3>2, AbsentType
      <3> QED
        BY <2>3, <3>3 DEF DeleteMonitor, TypeOK
    <2>4. ASSUME NEW l \in Libraries, NEW content \in Contents \cup {NoContent},
                 SetLibrary(l, content)
          PROVE  TypeOK'
      BY <2>4 DEF SetLibrary, TypeOK
    <2>5. CASE SetSecret
      BY <2>5 DEF SetSecret, TypeOK
    <2>6. CASE SetServiceMonitorCRD
      <3>1. kids' \in [Kinds -> Children]
        BY <1>0, <2>6 DEF SetServiceMonitorCRD, Vanish, TypeOK
      <3>3. depReady' \in BOOLEAN
        BY <2>6 DEF SetServiceMonitorCRD, Vanish, TypeOK
      <3>4. evt' \subseteq Kinds
        BY <2>6 DEF SetServiceMonitorCRD, Vanish, Emitted, TypeOK, Kinds
      <3>2. smCRD' \in BOOLEAN /\ edits' \in Nat
        BY <2>6 DEF SetServiceMonitorCRD, TypeOK
      <3> QED
        BY <2>6, <3>1, <3>2, <3>3, <3>4 DEF SetServiceMonitorCRD, TypeOK
    <2>7. ASSUME NEW k \in Kinds, DeleteChild(k) PROVE TypeOK'
      BY <1>0, <2>7 DEF DeleteChild, Vanish, Emitted, TypeOK
    <2>8. ASSUME NEW k \in Kinds, EditChild(k) PROVE TypeOK'
      <3>1. [kids[k] EXCEPT !.config = Edited] \in Children
        BY <2>8 DEF TypeOK, Children
      <3>2. kids' = [kids EXCEPT ![k] = [kids[k] EXCEPT !.config = Edited]]
        BY <2>8 DEF EditChild
      <3> QED
        BY <2>8, <3>1, <3>2 DEF EditChild, Emitted, TypeOK
    <2> QED
      BY <1>6, <2>1, <2>2, <2>3, <2>4, <2>5, <2>6, <2>7, <2>8 DEF UserActs
  <1> QED
    BY <1>1, <1>2, <1>3, <1>4, <1>5, <1>6

\* In every reachable state the controller, its caches and the objects it writes
\* are well formed.
THEOREM TypeCorrect == Spec => []TypeOK
  <1>1. TypeOK /\ [Next]_vars => TypeOK'
    <2> SUFFICES ASSUME TypeOK, [Next]_vars PROVE TypeOK'
      OBVIOUS
    <2>1. CASE Next
      BY <2>1, TypeReconcile, TypeEnvironment DEF Next
    <2>2. CASE UNCHANGED vars
      BY <2>2 DEF TypeOK, vars, objectVars, clusterVars, cacheVars, queueVars,
                  workerVars, boundVars
    <2> QED
      BY <2>1, <2>2
  <1> QED
    BY <1>1, TypeInit, PTL DEF Spec

-----------------------------------------------------------------------------
\* What a step can do to the copies of the monitor.

\* The steps of Reconcile between the finalizer and the status update.
Middle == \/ ValidateCredentials \/ ResolveLibrary \/ ApplyConfigMap
          \/ ApplyDeployment \/ ApplyService \/ ApplyServiceMonitor \/ Observe

\* They keep the copy's identity, generation, spec and mark, and only Observe
\* changes what it claims: to its own generation.
LEMMA MiddleKeepsCopy ==
    ASSUME TypeOK, Middle
    PROVE  /\ UNCHANGED <<mon, lastUid, cMon>> /\ pc \in Applying
           /\ \/ pc' = "idle" /\ monitor' = Absent
              \/ /\ pc' \in Applying
                 /\ monitor'.uid = monitor.uid
                 /\ monitor'.generation = monitor.generation
                 /\ monitor'.spec = monitor.spec /\ monitor'.deleting = monitor.deleting
                 /\ \/ Claim(monitor') = Claim(monitor)
                    \/ pc = "observe" /\ Claim(monitor') = monitor.generation
  <1> USE DEF objectVars, cacheVars
  <1>0. monitor \in Monitors
    BY DEF TypeOK, WellFormed
  <1>1. CASE ValidateCredentials
    <2> DEFINE once == WithCondition(monitor, "Ready", "SecretNotFound")
    <2>1. /\ once \in Monitors /\ once.uid = monitor.uid
          /\ once.generation = monitor.generation
          /\ once.spec = monitor.spec /\ once.deleting = monitor.deleting
          /\ once.status.observedGeneration = monitor.status.observedGeneration
      BY <1>0, WithConditionType DEF ConditionTypes, Reasons
    <2>2. \E m \in {monitor, once}, type \in ConditionTypes, why \in Reasons :
              monitor' = WithCondition(m, type, why)
      BY <1>1 DEF ValidateCredentials, ConditionTypes, Reasons
    <2>3. /\ monitor'.uid = monitor.uid /\ monitor'.generation = monitor.generation
          /\ monitor'.spec = monitor.spec /\ monitor'.deleting = monitor.deleting
          /\ monitor'.status.observedGeneration = monitor.status.observedGeneration
      <3> HIDE DEF once
      <3> QED
        BY <1>0, <2>1, <2>2, WithConditionType
    <2> QED
      BY <1>1, <2>3 DEF ValidateCredentials, Applying, Claim
  <1>2. CASE ResolveLibrary
    <2> DEFINE failed == WithCondition(monitor, "Ready", "LibraryResolveFailed")
    <2>1. /\ failed.uid = monitor.uid /\ failed.generation = monitor.generation
          /\ failed.spec = monitor.spec /\ failed.deleting = monitor.deleting
          /\ failed.status.observedGeneration = monitor.status.observedGeneration
      BY <1>0, WithConditionType DEF ConditionTypes, Reasons
    <2>2. monitor' \in {monitor, failed}
      BY <1>2 DEF ResolveLibrary
    <2>3. pc = "libraries" /\ pc' \in {"libraries", "ConfigMap", "patchEarly"}
      BY <1>2 DEF ResolveLibrary
    <2> QED
      BY <1>2, <2>1, <2>2, <2>3 DEF ResolveLibrary, Applying, Claim
  <1>3. CASE ApplyConfigMap
    <2>1. CASE BuildFails(monitor.spec, libs)
      BY <1>3, <2>1 DEF ApplyConfigMap, Return, Applying
    <2>2. CASE ~BuildFails(monitor.spec, libs)
      <3> DEFINE generated == WithCondition(monitor, "ConfigGenerated",
                                            "ConfigMapUpdated")
      <3>1. /\ generated \in Monitors /\ generated.uid = monitor.uid
            /\ generated.generation = monitor.generation
            /\ generated.spec = monitor.spec /\ generated.deleting = monitor.deleting
            /\ generated.status.observedGeneration = monitor.status.observedGeneration
        BY <1>0, WithConditionType DEF ConditionTypes, Reasons
      <3>2. monitor' = [generated EXCEPT !.status.configHash =
                                             ConfigOf(monitor.spec, libs)]
        BY <1>3, <2>2 DEF ApplyConfigMap
      <3>3. /\ monitor'.uid = monitor.uid
            /\ monitor'.generation = monitor.generation
            /\ monitor'.spec = monitor.spec /\ monitor'.deleting = monitor.deleting
            /\ monitor'.status.observedGeneration = monitor.status.observedGeneration
        <4> HIDE DEF generated
        <4> QED
          BY <3>1, <3>2 DEF Monitors, Statuses
      <3>4. pc = "ConfigMap" /\ pc' = "Deployment" /\ UNCHANGED <<mon, lastUid, cMon>>
        BY <1>3, <2>2 DEF ApplyConfigMap, Apply
      <3> QED
        BY <3>3, <3>4 DEF Applying, Claim
    <2> QED
      BY <2>1, <2>2
  <1>4. CASE ApplyDeployment
    BY <1>4 DEF ApplyDeployment, Apply, Applying
  <1>5. CASE ApplyService
    BY <1>5 DEF ApplyService, Apply, Applying
  <1>6. CASE ApplyServiceMonitor
    BY <1>6 DEF ApplyServiceMonitor, Apply, Return, Applying
  <1>7. CASE Observe
    <2>1. CASE ~cDep.present
      BY <1>7, <2>1 DEF Observe, Return, Applying
    <2>2. CASE cDep.present
      <3> DEFINE told == WithCondition(monitor, "Ready",
                             IF cDep.ready THEN "PodRunning" ELSE "PodNotReady")
      <3>1. PICK pod : monitor' = [told EXCEPT
                               !.status.ready = cDep.ready,
                               !.status.observedGeneration = monitor.generation,
                               !.status.lastReconciled = now,
                               !.status.podName = pod]
        BY <1>7, <2>2 DEF Observe, LastReconciled
      <3>2. /\ told \in Monitors /\ told.uid = monitor.uid
            /\ told.generation = monitor.generation
            /\ told.spec = monitor.spec /\ told.deleting = monitor.deleting
        BY <1>0, WithConditionType DEF ConditionTypes, Reasons
      <3>3. /\ monitor'.uid = monitor.uid
            /\ monitor'.generation = monitor.generation
            /\ monitor'.spec = monitor.spec /\ monitor'.deleting = monitor.deleting
            /\ monitor'.status.observedGeneration = monitor.generation
        <4> HIDE DEF told
        <4> QED
          BY <3>1, <3>2 DEF Monitors, Statuses
      <3> QED
        BY <1>7, <2>2, <3>3 DEF Observe, Applying, Claim
    <2> QED
      BY <2>1, <2>2
  <1> QED
    BY <1>1, <1>2, <1>3, <1>4, <1>5, <1>6, <1>7 DEF Middle

\* Steps that touch neither the monitor nor the worker's copy of it.
Aside == \/ TimerFires \/ DeliverSecret \/ DeliverPods \/ ClusterActs
         \/ \E l \in Libraries : DeliverLibrary(l)
         \/ \E k \in Kinds : DeliverChild(k) \/ DeleteChild(k) \/ EditChild(k)
         \/ \E l \in Libraries, content \in Contents \cup {NoContent} :
                SetLibrary(l, content)
         \/ SetSecret \/ SetServiceMonitorCRD

LEMMA AsideLeavesMonitor ==
    Aside => UNCHANGED <<mon, lastUid, cMon, pc, monitor>>
  BY DEF Aside, TimerFires, DeliverSecret, DeliverPods, ClusterActs, CollectChild,
         StopPod, StartPod, CollectPods, ProbePod, LoseReadiness, SetReady, Tick,
         DeliverLibrary, DeliverChild, DeleteChild, EditChild, SetLibrary,
         SetSecret, SetServiceMonitorCRD, objectVars, cacheVars, workerVars

\* Nor do they do more to the children than remove or edit one.
LEMMA AsideOnChildren ==
    Aside => /\ UNCHANGED <<libs, monitor, pc>>
             /\ \/ UNCHANGED kids
                \/ \E j \in Kinds : Vanish(j) \/ EditChild(j)
  BY DEF Aside, TimerFires, DeliverSecret, DeliverPods, ClusterActs, CollectChild,
         StopPod, StartPod, CollectPods, ProbePod, LoseReadiness, SetReady, Tick,
         DeliverLibrary, DeliverChild, DeleteChild, EditChild, SetLibrary,
         SetSecret, SetServiceMonitorCRD, clusterVars, workerVars, Kinds

\* The ways a step can go, by what it does to the monitor.
LEMMA StepCases ==
    Next => \/ Begin \/ RemoveFinalizer \/ AddFinalizer \/ Middle \/ PatchStatus
            \/ CallFails \/ Restart \/ DeliverMonitor \/ Aside
            \/ \E spec \in Specs : CreateMonitor(spec) \/ UpdateMonitor(spec)
            \/ DeleteMonitor
  BY DEF Next, Reconcile, Deliver, UserActs, Middle, Aside

-----------------------------------------------------------------------------
\* The finalizer pins the incarnation the worker acts for.

\* What writes to the monitor do to its identity and its marks.
LEMMA WriteFacts ==
    ASSUME TypeOK
    PROVE  /\ AddFinalizer /\ mon = monitor =>
                /\ mon'.uid = mon.uid /\ mon'.fin /\ mon'.deleting = mon.deleting
                /\ mon'.generation = mon.generation /\ Claim(mon') = Claim(mon)
           /\ \A spec \in Specs : UpdateMonitor(spec) =>
                /\ mon'.uid = mon.uid /\ mon'.fin = mon.fin
                /\ mon'.deleting = mon.deleting
                /\ mon'.generation = mon.generation + 1 /\ Claim(mon') = Claim(mon)
           /\ DeleteMonitor /\ mon.fin =>
                /\ mon'.uid = mon.uid /\ mon'.fin /\ mon'.deleting
                /\ mon'.generation = mon.generation + 1 /\ Claim(mon') = Claim(mon)
           /\ \A spec \in Specs : CreateMonitor(spec) =>
                /\ mon'.uid = lastUid + 1 /\ ~mon'.fin /\ ~mon'.deleting
                /\ mon'.generation = 1 /\ Claim(mon') = 0
           /\ PatchStatus /\ mon' # mon =>
                /\ mon = cMon /\ mon.uid # 0
                /\ mon'.uid = mon.uid /\ mon'.fin = mon.fin
                /\ mon'.deleting = mon.deleting /\ mon'.generation = mon.generation
                /\ Claim(mon') = Claim(monitor)
  <1>0. mon \in Monitors /\ monitor.status \in Statuses /\ Absent \in Monitors
    BY AbsentType DEF TypeOK, WellFormed, Monitors
  <1>1. AddFinalizer /\ mon = monitor =>
            /\ mon'.uid = mon.uid /\ mon'.fin /\ mon'.deleting = mon.deleting
            /\ mon'.generation = mon.generation /\ Claim(mon') = Claim(mon)
    BY <1>0 DEF AddFinalizer, Monitors, Claim
  <1>2. ASSUME NEW spec \in Specs, UpdateMonitor(spec)
        PROVE  /\ mon'.uid = mon.uid /\ mon'.fin = mon.fin
               /\ mon'.deleting = mon.deleting
               /\ mon'.generation = mon.generation + 1 /\ Claim(mon') = Claim(mon)
    BY <1>0, <1>2 DEF UpdateMonitor, Monitors, Claim
  <1>3. DeleteMonitor /\ mon.fin =>
            /\ mon'.uid = mon.uid /\ mon'.fin /\ mon'.deleting
            /\ mon'.generation = mon.generation + 1 /\ Claim(mon') = Claim(mon)
    BY <1>0 DEF DeleteMonitor, Monitors, Claim
  <1>4. ASSUME NEW spec \in Specs, CreateMonitor(spec)
        PROVE  /\ mon'.uid = lastUid + 1 /\ ~mon'.fin /\ ~mon'.deleting
               /\ mon'.generation = 1 /\ Claim(mon') = 0
    BY <1>0, <1>4, AbsentType DEF CreateMonitor, Monitors, Claim
  <1>5. ASSUME PatchStatus, mon' # mon
        PROVE  /\ mon = cMon /\ mon.uid # 0
               /\ mon'.uid = mon.uid /\ mon'.fin = mon.fin
               /\ mon'.deleting = mon.deleting /\ mon'.generation = mon.generation
               /\ Claim(mon') = Claim(monitor)
    <2>1. /\ mon = cMon /\ mon.uid # 0
          /\ mon' = [mon EXCEPT !.status = Persisted(monitor.status)]
      BY <1>5 DEF PatchStatus
    <2>2. Persisted(monitor.status).observedGeneration
              = monitor.status.observedGeneration
      BY <1>0, PersistedType
    <2> QED
      BY <1>0, <2>1, <2>2 DEF Monitors, Claim
  <1> QED
    BY <1>1, <1>2, <1>3, <1>4, <1>5

LEMMA PinInit == Init => PinInv
  BY AbsentType DEF Init, PinInv, UidsAssigned, CachePinned, MarkIsFinal,
     RemovesOnlyMarked, AddsOnlyUnmarked, OwnerAlive, Applying

\* Every step preserves the strengthened invariant.
LEMMA PinStep == TypeOK /\ PinInv /\ [Next]_vars => PinInv'
  <1> SUFFICES ASSUME TypeOK, PinInv, [Next]_vars PROVE PinInv'
    OBVIOUS
  <1> USE DEF PinInv, UidsAssigned, CachePinned, MarkIsFinal, RemovesOnlyMarked,
              AddsOnlyUnmarked, OwnerAlive
  <1>0. /\ mon.uid \in Nat /\ cMon.uid \in Nat /\ monitor.uid \in Nat
        /\ lastUid \in Nat
        /\ pc = "idle" <=> monitor.uid = 0
        /\ "idle" \notin Applying /\ "removeFinalizer" \notin Applying
        /\ "addFinalizer" \notin Applying /\ "credentials" \in Applying
    BY DEF TypeOK, WellFormed, Monitors, Applying
  <1>1. CASE Begin
    <2>1. /\ UNCHANGED <<mon, lastUid, cMon>>
          /\ pc' = Entry(cMon) /\ (pc' = "idle" => monitor' = Absent)
          /\ (pc' # "idle" => monitor' = cMon)
      BY <1>1 DEF Begin, objectVars, cacheVars
    <2> QED
      BY <1>0, <2>1, AbsentType DEF Entry
  <1>2. CASE RemoveFinalizer
    <2>1. /\ UNCHANGED <<lastUid, cMon>> /\ pc' = "idle" /\ monitor' = Absent
          /\ mon' = mon \/ (mon = monitor /\ mon' = Absent)
      BY <1>2 DEF RemoveFinalizer, Return, cacheVars
    <2> QED
      BY <1>0, <1>2, <2>1, AbsentType DEF RemoveFinalizer
  <1>3. CASE AddFinalizer
    <2>1. CASE mon = monitor
      BY <1>0, <1>3, <2>1, WriteFacts DEF AddFinalizer, cacheVars
    <2>2. CASE mon # monitor
      BY <1>0, <1>3, <2>2, AbsentType DEF AddFinalizer, Return, cacheVars
    <2> QED
      BY <2>1, <2>2
  <1>4. CASE Middle
    <2>1. UNCHANGED <<mon, lastUid, cMon>> /\ pc \in Applying
      BY <1>4, MiddleKeepsCopy
    <2>2. \/ pc' = "idle" /\ monitor' = Absent
          \/ pc' \in Applying /\ monitor'.uid = monitor.uid
      BY <1>4, MiddleKeepsCopy
    <2> QED
      BY <1>0, <2>1, <2>2, AbsentType
  <1>5. CASE PatchStatus
    <2>1. UNCHANGED <<lastUid, cMon>> /\ pc' = "idle" /\ monitor' = Absent
      BY <1>5 DEF PatchStatus, Return, cacheVars
    <2> QED
      BY <1>0, <1>5, <2>1, WriteFacts, AbsentType
  <1>6. CASE CallFails
    <2>1. /\ UNCHANGED <<mon, lastUid, cMon>> /\ pc' = "idle" /\ monitor' = Absent
      BY <1>6 DEF CallFails, Return, objectVars, cacheVars
    <2> QED
      BY <1>0, <2>1, AbsentType
  <1>7. CASE Restart
    <2>1. /\ UNCHANGED <<mon, lastUid>> /\ cMon' = mon
          /\ pc' = "idle" /\ monitor' = Absent
      BY <1>7 DEF Restart, objectVars
    <2> QED
      BY <1>0, <2>1, AbsentType
  <1>8. CASE DeliverMonitor
    BY <1>0, <1>8 DEF DeliverMonitor, objectVars, workerVars
  <1>9. CASE Aside
    BY <1>9, AsideLeavesMonitor
  <1>10. ASSUME NEW spec \in Specs, CreateMonitor(spec) PROVE PinInv'
    <2>1. /\ mon.uid = 0 /\ lastUid' = lastUid + 1
          /\ UNCHANGED <<cMon, pc, monitor>>
      BY <1>10 DEF CreateMonitor, cacheVars, workerVars
    <2> QED
      BY <1>0, <1>10, <2>1, WriteFacts
  <1>11. ASSUME NEW spec \in Specs, UpdateMonitor(spec) PROVE PinInv'
    <2>1. UNCHANGED <<lastUid, cMon, pc, monitor>>
      BY <1>11 DEF UpdateMonitor, cacheVars, workerVars
    <2> QED
      BY <1>0, <1>11, <2>1, WriteFacts
  <1>12. CASE DeleteMonitor
    <2>1. /\ UNCHANGED <<lastUid, cMon, pc, monitor>>
          /\ ~mon.fin => mon' = Absent
      BY <1>12 DEF DeleteMonitor, cacheVars, workerVars
    <2> QED
      BY <1>0, <1>12, <2>1, WriteFacts, AbsentType
  <1>13. CASE UNCHANGED vars
    BY <1>13 DEF vars, objectVars, cacheVars, workerVars
  <1> QED
    BY <1>1, <1>2, <1>3, <1>4, <1>5, <1>6, <1>7, <1>8, <1>9, <1>10, <1>11, <1>12,
       <1>13, StepCases

\* Reconcile never applies children for, or reports to, an incarnation of the
\* monitor other than the one it read, and that one cannot go away meanwhile.
THEOREM OwnerAliveTheorem == Spec => []OwnerAlive
  <1>1. PinInv => OwnerAlive
    BY DEF PinInv
  <1> QED
    BY <1>1, TypeCorrect, PinInit, PinStep, PTL DEF Spec

-----------------------------------------------------------------------------
\* A generation is reported only when it was applied.

\* Whatever is not the worker removes children or leaves their history alone.
LEMMA AsideKeepsHistory ==
    ASSUME TypeOK, Aside, NEW k \in Kinds
    PROVE  \/ kids'[k].owner = 0
           \/ kids'[k].owner = kids[k].owner /\ kids'[k].gen = kids[k].gen
  <1>0. kids \in [Kinds -> Children] /\ kids[k] \in Children /\ NoChild.owner = 0
    BY DEF TypeOK, NoChild
  <1>1. ASSUME NEW j \in Kinds, Vanish(j)
        PROVE  kids'[k].owner = 0 \/ kids'[k] = kids[k]
    BY <1>0, <1>1 DEF Vanish
  <1>2. ASSUME NEW j \in Kinds, EditChild(j)
        PROVE  kids'[k].owner = kids[k].owner /\ kids'[k].gen = kids[k].gen
    BY <1>0, <1>2 DEF EditChild, Children
  <1> QED
    BY <1>1, <1>2, AsideOnChildren

\* A step of Reconcile applies the child its name says, from the worker's copy.
LEMMA MiddleApplies ==
    ASSUME TypeOK, Middle, NEW k \in Kinds
    PROVE  /\ \/ kids'[k] = kids[k]
              \/ kids'[k].owner = monitor.uid /\ kids'[k].gen = monitor.generation
           /\ k \in AppliedAt(pc') =>
                 \/ k \in AppliedAt(pc) /\ kids'[k] = kids[k]
                 \/ kids'[k].gen = monitor.generation
  <1> USE DEF clusterVars
  <1>0. kids \in [Kinds -> Children]
    BY DEF TypeOK
  <1>1. ASSUME NEW j \in Kinds, Apply(j)
        PROVE  /\ k # j => kids'[k] = kids[k]
               /\ k = j => /\ kids'[k].owner = monitor.uid
                           /\ kids'[k].gen = monitor.generation
    BY <1>0, <1>1 DEF Apply, Build
  <1>2. CASE ValidateCredentials
    BY <1>2 DEF ValidateCredentials, AppliedAt
  <1>3. CASE ResolveLibrary
    BY <1>3 DEF ResolveLibrary, AppliedAt
  <1>4. CASE ApplyConfigMap
    <2>1. \/ pc' = "idle" /\ UNCHANGED kids
          \/ Apply("ConfigMap") /\ pc' = "Deployment"
      BY <1>4 DEF ApplyConfigMap, Return
    <2> QED
      BY <1>1, <1>4, <2>1 DEF AppliedAt, Kinds
  <1>5. CASE ApplyDeployment
    BY <1>1, <1>5 DEF ApplyDeployment, AppliedAt, Kinds
  <1>6. CASE ApplyService
    <2>1. Apply("Service") /\ pc = "Service" /\ pc' \in {"ServiceMonitor", "observe"}
      BY <1>6 DEF ApplyService
    <2> QED
      BY <1>1, <2>1 DEF AppliedAt, Always, Kinds
  <1>7. CASE ApplyServiceMonitor
    <2>1. /\ pc = "ServiceMonitor"
          /\ \/ pc' = "idle" /\ UNCHANGED kids
             \/ Apply("ServiceMonitor") /\ pc' = "observe"
      BY <1>7 DEF ApplyServiceMonitor, Return
    <2> QED
      BY <1>1, <2>1 DEF AppliedAt, Always, Kinds
  <1>8. CASE Observe
    <2>1. pc = "observe" /\ pc' \in {"idle", "patchFinal"} /\ UNCHANGED kids
      BY <1>8 DEF Observe, Return
    <2> QED
      BY <2>1 DEF AppliedAt
  <1> QED
    BY <1>2, <1>3, <1>4, <1>5, <1>6, <1>7, <1>8 DEF Middle

LEMMA ClaimInit == Init => ClaimInv
  <1> SUFFICES ASSUME Init PROVE ClaimInv
    OBVIOUS
  <1>1. /\ mon = Absent /\ cMon = Absent /\ pc = "idle"
    BY DEF Init
  <1> QED
    BY <1>1, AbsentType DEF ClaimInv, ClaimsBounded, ChildrenBacked, Applying

\* Every step preserves the strengthened invariant.
LEMMA ClaimStep == TypeOK /\ PinInv /\ ClaimInv /\ [Next]_vars => ClaimInv'
  <1> SUFFICES ASSUME TypeOK, PinInv, ClaimInv, [Next]_vars PROVE ClaimInv'
    OBVIOUS
  <1> USE DEF ClaimInv, ClaimsBounded, ChildrenBacked
  <1>0. /\ mon.uid \in Nat /\ cMon.uid \in Nat /\ monitor.uid \in Nat
        /\ mon.generation \in Nat /\ cMon.generation \in Nat
        /\ monitor.generation \in Nat
        /\ Claim(mon) \in Nat /\ Claim(cMon) \in Nat /\ Claim(monitor) \in Nat
        /\ lastUid \in Nat
        /\ pc = "idle" <=> monitor.uid = 0
        /\ "idle" \notin Applying /\ "removeFinalizer" \notin Applying
        /\ "addFinalizer" \notin Applying /\ "credentials" \in Applying
    BY DEF TypeOK, WellFormed, Monitors, Statuses, Applying, Claim
  <1>a. \A k \in Always : k \in Kinds /\ kids[k].gen \in Nat
    BY DEF TypeOK, Children, Always, Kinds
  <1>b. /\ AppliedAt("idle") = {} /\ AppliedAt("credentials") = {}
        /\ AppliedAt("addFinalizer") = {} /\ AppliedAt("removeFinalizer") = {}
    BY DEF AppliedAt
  <1>1. CASE Begin
    <2>1. /\ UNCHANGED <<mon, cMon, kids>>
          /\ pc' = Entry(cMon) /\ (pc' # "idle" => monitor' = cMon)
      BY <1>1 DEF Begin, objectVars, cacheVars, clusterVars
    <2>2. pc' \in Applying => /\ pc' = "credentials" /\ monitor' = cMon
                              /\ cMon.uid = mon.uid /\ mon.uid # 0
      BY <1>0, <2>1 DEF Entry, PinInv, CachePinned
    <2>3. AppliedAt(pc') = {}
      BY <1>b, <2>1 DEF Entry
    <2>4. ClaimsBounded'
      BY <1>0, <2>1, <2>2
    <2>5. ChildrenBacked'
      BY <2>1, <2>2, <2>3
    <2> QED
      BY <2>4, <2>5
  <1>2. CASE RemoveFinalizer
    <2>1. /\ UNCHANGED <<cMon, kids>> /\ pc' = "idle"
          /\ mon' = mon \/ mon' = Absent
      BY <1>2 DEF RemoveFinalizer, Return, cacheVars, clusterVars
    <2> QED
      BY <1>0, <1>b, <2>1, AbsentType
  <1>3. CASE AddFinalizer
    <2>1. CASE mon = monitor
      <3>1. /\ UNCHANGED <<cMon, kids>> /\ pc' = "credentials" /\ monitor' = mon'
        BY <1>3, <2>1 DEF AddFinalizer, cacheVars, clusterVars
      <3>2. /\ mon'.uid = mon.uid /\ mon'.generation = mon.generation
            /\ Claim(mon') = Claim(mon) /\ Claim(monitor') = Claim(mon)
            /\ monitor'.generation = mon.generation
        BY <1>3, <2>1, <3>1, WriteFacts
      <3>3. mon.uid # 0
        BY <1>0, <1>3, <2>1 DEF AddFinalizer
      <3>4. ClaimsBounded'
        BY <1>0, <3>1, <3>2, <3>3
      <3>5. ChildrenBacked'
        BY <1>b, <3>1, <3>2
      <3> QED
        BY <3>4, <3>5
    <2>2. CASE mon # monitor
      <3>1. UNCHANGED <<mon, cMon, kids>> /\ pc' = "idle"
        BY <1>3, <2>2 DEF AddFinalizer, Return, cacheVars, clusterVars
      <3> QED
        BY <1>0, <1>b, <3>1
    <2> QED
      BY <2>1, <2>2
  <1>4. CASE Middle
    <2>1. /\ UNCHANGED <<mon, cMon>> /\ pc \in Applying
          /\ mon.uid = monitor.uid
      BY <1>4, MiddleKeepsCopy DEF PinInv, OwnerAlive
    <2>2. \/ pc' = "idle"
          \/ /\ pc' \in Applying /\ monitor'.generation = monitor.generation
             /\ \/ Claim(monitor') = Claim(monitor)
                \/ pc = "observe" /\ Claim(monitor') = monitor.generation
      BY <1>4, MiddleKeepsCopy
    <2>3. ClaimsBounded'
      BY <1>0, <2>1, <2>2
    <2>4. ASSUME NEW k \in Always, mon'.uid # 0, kids'[k].owner = mon'.uid
          PROVE  /\ kids'[k].gen >= Claim(mon')
                 /\ cMon'.uid = mon'.uid => kids'[k].gen >= Claim(cMon')
                 /\ pc' \in Applying => kids'[k].gen >= Claim(monitor')
                 /\ k \in AppliedAt(pc') => kids'[k].gen >= monitor'.generation
      <3>1. \/ kids'[k] = kids[k]
            \/ kids'[k].owner = monitor.uid /\ kids'[k].gen = monitor.generation
        BY <1>4, <1>a, MiddleApplies
      <3>2. k \in AppliedAt(pc') => \/ k \in AppliedAt(pc) /\ kids'[k] = kids[k]
                                    \/ kids'[k].gen = monitor.generation
        BY <1>4, <1>a, MiddleApplies
      <3>3. pc = "observe" => k \in AppliedAt(pc)
        BY DEF AppliedAt
      <3>4. pc' = "idle" => AppliedAt(pc') = {}
        BY <1>b
      <3> QED
        BY <1>0, <1>a, <2>1, <2>2, <2>4, <3>1, <3>2, <3>3, <3>4
    <2> QED
      BY <2>3, <2>4
  <1>5. CASE PatchStatus
    <2>1. UNCHANGED <<cMon, kids>> /\ pc' = "idle" /\ pc \in Applying
      BY <1>5 DEF PatchStatus, Return, cacheVars, clusterVars, Applying
    <2>2. \/ mon' = mon
          \/ /\ mon = cMon /\ mon'.uid = mon.uid
             /\ mon'.generation = mon.generation /\ Claim(mon') = Claim(monitor)
      BY <1>5, WriteFacts
    <2>3. ClaimsBounded'
      BY <1>0, <2>1, <2>2
    <2>4. ChildrenBacked'
      BY <1>0, <1>b, <2>1, <2>2
    <2> QED
      BY <2>3, <2>4
  <1>6. CASE CallFails
    <2>1. UNCHANGED <<mon, cMon, kids>> /\ pc' = "idle"
      BY <1>6 DEF CallFails, Return, objectVars, cacheVars, clusterVars
    <2> QED
      BY <1>0, <1>b, <2>1
  <1>7. CASE Restart
    <2>1. UNCHANGED <<mon, kids>> /\ cMon' = mon /\ pc' = "idle"
      BY <1>7 DEF Restart, objectVars, clusterVars
    <2> QED
      BY <1>0, <1>b, <2>1
  <1>8. CASE DeliverMonitor
    <2>1. UNCHANGED <<mon, kids, pc, monitor>> /\ cMon' = mon
      BY <1>8 DEF DeliverMonitor, objectVars, clusterVars, workerVars
    <2> QED
      BY <1>0, <2>1
  <1>9. CASE Aside
    <2>1. UNCHANGED <<mon, cMon, pc, monitor>>
      BY <1>9, AsideLeavesMonitor
    <2>2. \A k \in Always : \/ kids'[k].owner = 0
                            \/ /\ kids'[k].owner = kids[k].owner
                               /\ kids'[k].gen = kids[k].gen
      BY <1>9, <1>a, AsideKeepsHistory
    <2> QED
      BY <2>1, <2>2
  <1>10. ASSUME NEW spec \in Specs, CreateMonitor(spec) PROVE ClaimInv'
    <2>1. mon.uid = 0 /\ UNCHANGED <<cMon, pc, monitor, kids>>
      BY <1>10 DEF CreateMonitor, cacheVars, workerVars, clusterVars
    <2>2. mon'.uid = lastUid + 1 /\ mon'.generation = 1 /\ Claim(mon') = 0
      BY <1>10, WriteFacts
    <2>3. pc \notin Applying /\ AppliedAt(pc) = {}
      BY <1>0, <2>1 DEF PinInv, OwnerAlive, AppliedAt, Applying
    <2>4. cMon.uid # mon'.uid
      BY <1>0, <2>2 DEF PinInv, UidsAssigned
    <2> QED
      BY <1>0, <1>a, <2>1, <2>2, <2>3, <2>4
  <1>11. ASSUME NEW spec \in Specs, UpdateMonitor(spec) PROVE ClaimInv'
    <2>1. UNCHANGED <<cMon, pc, monitor, kids>>
      BY <1>11 DEF UpdateMonitor, cacheVars, workerVars, clusterVars
    <2>2. /\ mon'.uid = mon.uid /\ mon'.generation = mon.generation + 1
          /\ Claim(mon') = Claim(mon)
      BY <1>11, WriteFacts
    <2> QED
      BY <1>0, <2>1, <2>2
  <1>12. CASE DeleteMonitor
    <2>1. /\ UNCHANGED <<cMon, pc, monitor, kids>>
          /\ ~mon.fin => mon' = Absent
      BY <1>12 DEF DeleteMonitor, cacheVars, workerVars, clusterVars
    <2>2. mon.fin => /\ mon'.uid = mon.uid /\ mon'.generation = mon.generation + 1
                     /\ Claim(mon') = Claim(mon)
      BY <1>12, WriteFacts
    <2>3. ~mon.fin => pc \notin Applying
      BY DEF PinInv, OwnerAlive
    <2> QED
      BY <1>0, <2>1, <2>2, <2>3, AbsentType
  <1>13. CASE UNCHANGED vars
    BY <1>13 DEF vars, objectVars, cacheVars, workerVars, clusterVars
  <1> QED
    BY <1>1, <1>2, <1>3, <1>4, <1>5, <1>6, <1>7, <1>8, <1>9, <1>10, <1>11, <1>12,
       <1>13, StepCases

\* A status never claims a generation that some child was not built from.
THEOREM ObservedMeansAppliedTheorem == Spec => []ObservedMeansApplied
  <1>1. ClaimInv => ObservedMeansApplied
    BY DEF ClaimInv, ChildrenBacked, ObservedMeansApplied, Always, Claim
  <1> QED
    BY <1>1, TypeCorrect, PinInit, PinStep, ClaimInit, ClaimStep, PTL DEF Spec

-----------------------------------------------------------------------------
\* The pod is rolled to a configuration after the ConfigMap has it.

\* Between the two applies only somebody else can change the ConfigMap.
ConfigInPlace ==
    pc = "Deployment" =>
        \/ kids["ConfigMap"].config \in {ConfigOf(monitor.spec, libs), Edited}
        \/ kids["ConfigMap"].owner = 0

LEMMA AsideKeepsConfig ==
    ASSUME TypeOK, Aside, NEW k \in Kinds
    PROVE  /\ \/ kids'[k] = NoChild \/ kids'[k].config = kids[k].config
              \/ kids'[k].config = Edited
           /\ kids[k].owner = 0 => kids'[k].owner = 0
           /\ UNCHANGED <<libs, monitor, pc>>
  <1>0. kids \in [Kinds -> Children] /\ kids[k] \in Children /\ NoChild.owner = 0
    BY DEF TypeOK, NoChild
  <1>1. ASSUME NEW j \in Kinds, Vanish(j) PROVE kids'[k] \in {NoChild, kids[k]}
    BY <1>0, <1>1 DEF Vanish
  <1>2. ASSUME NEW j \in Kinds, EditChild(j)
        PROVE  /\ kids'[k].config \in {kids[k].config, Edited}
               /\ kids'[k].owner = kids[k].owner
    BY <1>0, <1>2 DEF EditChild, Children
  <1> QED
    BY <1>0, <1>1, <1>2, AsideOnChildren

\* What every other step does to the two children and to pc.
LEMMA RolloutStepLemma ==
    TypeOK /\ ConfigInPlace /\ [Next]_vars => ConfigInPlace' /\ RolloutStep
  <1> SUFFICES ASSUME TypeOK, ConfigInPlace, [Next]_vars
               PROVE  ConfigInPlace' /\ RolloutStep
    OBVIOUS
  <1> USE DEF clusterVars
  <1>0. /\ kids \in [Kinds -> Children] /\ monitor \in Monitors
        /\ "ConfigMap" \in Kinds /\ "Deployment" \in Kinds
        /\ NoChild.owner = 0 /\ NoChild.config = NoConfig
    BY DEF TypeOK, WellFormed, Kinds, NoChild
  <1>1. CASE UNCHANGED kids /\ pc' # "Deployment"
    BY <1>1 DEF ConfigInPlace, RolloutStep
  <1>2. CASE ApplyConfigMap
    <2>1. CASE BuildFails(monitor.spec, libs)
      <3>1. UNCHANGED kids /\ pc' # "Deployment"
        BY <1>2, <2>1 DEF ApplyConfigMap, Return
      <3> QED
        BY <1>1, <3>1
    <2>2. CASE ~BuildFails(monitor.spec, libs)
      <3> DEFINE hash == ConfigOf(monitor.spec, libs)
                 generated == WithCondition(monitor, "ConfigGenerated",
                                            "ConfigMapUpdated")
      <3>1. /\ monitor' = [generated EXCEPT !.status.configHash = hash]
            /\ kids' = [kids EXCEPT !["ConfigMap"] = Build("ConfigMap", monitor, libs)]
            /\ UNCHANGED libs
        BY <1>2, <2>2 DEF ApplyConfigMap, Apply
      <3>2. generated \in Monitors /\ generated.spec = monitor.spec
        BY <1>0, WithConditionType DEF ConditionTypes, Reasons
      <3>3. monitor'.spec = monitor.spec
        <4> HIDE DEF generated, hash
        <4> QED
          BY <3>1, <3>2 DEF Monitors
      <3>4. /\ kids'["ConfigMap"].config = hash
            /\ kids'["Deployment"] = kids["Deployment"]
        BY <1>0, <3>1 DEF Build
      <3> QED
        BY <3>1, <3>3, <3>4 DEF ConfigInPlace, RolloutStep
    <2> QED
      BY <2>1, <2>2
  <1>3. CASE ApplyDeployment
    <2>1. /\ pc = "Deployment" /\ pc' = "Service"
          /\ kids' = [kids EXCEPT !["Deployment"] = Build("Deployment", monitor, libs)]
      BY <1>3 DEF ApplyDeployment, Apply
    <2>2. kids'["Deployment"].config = ConfigOf(monitor.spec, libs)
      BY <1>0, <2>1 DEF Build
    <2> QED
      BY <2>1, <2>2 DEF ConfigInPlace, RolloutStep
  <1>4. ASSUME NEW k \in {"Service", "ServiceMonitor"}, Apply(k), pc' # "Deployment"
        PROVE  ConfigInPlace' /\ RolloutStep
    <2>1. kids'["Deployment"] = kids["Deployment"]
      BY <1>0, <1>4 DEF Apply
    <2> QED
      BY <1>4, <2>1 DEF ConfigInPlace, RolloutStep
  <1>5. CASE Aside
    <2>1. /\ \/ kids'["ConfigMap"] = NoChild
             \/ kids'["ConfigMap"].config = kids["ConfigMap"].config
             \/ kids'["ConfigMap"].config = Edited
          /\ kids["ConfigMap"].owner = 0 => kids'["ConfigMap"].owner = 0
          /\ UNCHANGED <<libs, monitor, pc>>
      BY <1>0, <1>5, AsideKeepsConfig
    <2>2. \/ kids'["Deployment"] = NoChild
          \/ kids'["Deployment"].config = kids["Deployment"].config
          \/ kids'["Deployment"].config = Edited
      BY <1>0, <1>5, AsideKeepsConfig
    <2>3. ConfigInPlace'
      BY <1>0, <2>1 DEF ConfigInPlace
    <2>4. RolloutStep
      BY <1>0, <2>2 DEF RolloutStep
    <2> QED
      BY <2>3, <2>4
  <1>6. CASE UNCHANGED <<kids, pc, monitor, libs>>
    BY <1>6 DEF ConfigInPlace, RolloutStep
  <1>7. CASE Begin
    <2>1. UNCHANGED kids /\ pc' # "Deployment"
      BY <1>7 DEF Begin, Entry
    <2> QED
      BY <1>1, <2>1
  <1>8. CASE RemoveFinalizer \/ AddFinalizer \/ ValidateCredentials \/ ResolveLibrary
    <2>1. UNCHANGED kids /\ pc' # "Deployment"
      BY <1>8 DEF RemoveFinalizer, AddFinalizer, ValidateCredentials,
                  ResolveLibrary, Return
    <2> QED
      BY <1>1, <2>1
  <1>9. CASE ApplyService \/ ApplyServiceMonitor
    <2>1. \/ UNCHANGED kids /\ pc' # "Deployment"
          \/ \E k \in {"Service", "ServiceMonitor"} : Apply(k) /\ pc' # "Deployment"
      BY <1>9 DEF ApplyService, ApplyServiceMonitor, Return
    <2> QED
      BY <1>1, <1>4, <2>1
  <1>10. CASE Observe \/ PatchStatus \/ CallFails \/ Restart
    <2>1. UNCHANGED kids /\ pc' # "Deployment"
      BY <1>10 DEF Observe, PatchStatus, CallFails, Restart, Return
    <2> QED
      BY <1>1, <2>1
  <1>11. CASE DeliverMonitor \/ DeleteMonitor
              \/ \E spec \in Specs : CreateMonitor(spec) \/ UpdateMonitor(spec)
    BY <1>6, <1>11 DEF DeliverMonitor, DeleteMonitor, CreateMonitor, UpdateMonitor,
                       workerVars
  <1>12. CASE UNCHANGED vars
    BY <1>6, <1>12 DEF vars, workerVars
  <1> QED
    BY <1>2, <1>3, <1>5, <1>7, <1>8, <1>9, <1>10, <1>11, <1>12, StepCases DEF Middle

\* pgwatch is never restarted onto a configuration the ConfigMap does not hold
\* yet, unless somebody else changed the ConfigMap.
THEOREM RolloutAfterConfigTheorem == Spec => RolloutAfterConfig
  <1>1. Init => ConfigInPlace
    BY DEF Init, ConfigInPlace
  <1>2. TypeOK /\ ConfigInPlace /\ [Next]_vars => ConfigInPlace'
    BY RolloutStepLemma
  <1>3. TypeOK /\ ConfigInPlace /\ [Next]_vars => [RolloutStep]_vars
    BY RolloutStepLemma
  <1> QED
    BY <1>1, <1>2, <1>3, TypeCorrect, PTL DEF Spec, RolloutAfterConfig
=============================================================================
