--------------------------- MODULE QuiescenceProofs ---------------------------
(***************************************************************************)
(* The monitor controller comes to rest only when it is done, for every    *)
(* set of specs, libraries and contents and every value of the bounds.     *)
(***************************************************************************)
EXTENDS MonitorReconcilerProofs

\* The key will be handed out again.
Due == dirty \/ timer

\* Steps that follow the resolution of the libraries, and the ConfigMap.
Resolved == {"ConfigMap", "Deployment", "Service", "ServiceMonitor", "observe",
             "patchFinal"}
Generated == Resolved \ {"ConfigMap"}

(***************************************************************************)
(* What the worker holds, due or not: the libraries resolved so far, a     *)
(* copy that is not marked, and a status that matches it.                  *)
(***************************************************************************)
LibsShape ==
    /\ pc \in {"idle", "addFinalizer", "removeFinalizer", "credentials"} => libs = <<>>
    /\ pc = "libraries" => Len(libs) <= Len(monitor.spec.libs)
    /\ pc \in Resolved => Len(libs) = Len(monitor.spec.libs)

StatusShape ==
    /\ pc \in Generated => monitor.status.configHash = ConfigOf(monitor.spec, libs)
    /\ pc = "patchFinal" =>
          /\ monitor.status.observedGeneration = monitor.generation
          /\ monitor.status.ready =>
                monitor.status.conditions["Ready"].reason = "PodRunning"

\* A monitor marked for deletion has the finalizer (else it would be gone), and
\* Reconcile applies nothing for a copy that is marked.
MarkedPinned ==
    /\ mon.uid # 0 /\ mon.deleting => mon.fin
    /\ pc \in Applying => ~monitor.deleting

WorkerInv == LibsShape /\ StatusShape /\ MarkedPinned

\* The cached Deployment is the real one, or its event is pending.
DeploymentCached == cDep.ready = depReady \/ "Deployment" \in evt

(***************************************************************************)
(* While the key is not due, everything the worker has read and written is *)
(* what a reconcile that started now would read and write: whatever makes  *)
(* it otherwise also makes the key due, at once or through an event in evt *)
(* that will.                                                              *)
(***************************************************************************)
\* The children the reconcile in progress has applied, the optional one included.
AppliedBy(step) ==
    AppliedAt(step) \cup
        (IF smEnabled /\ step \in {"observe", "patchFinal"} THEN {"ServiceMonitor"} ELSE {})

\* What is stored when the child of kind k is built for the monitor with that uid
\* and spec.
Wanted(k, uid, spec, contents) ==
    Stored(Build(k, [uid |-> uid, generation |-> 0, spec |-> spec], contents))

\* The child of kind k is as it would be built, or an event about it is pending.
Current(k, m, contents) ==
    Stored(kids[k]) = Wanted(k, m.uid, m.spec, contents) \/ k \in evt

\* Two copies of the monitor that differ in nothing the children are built from.
Alike(m, n) == /\ m.uid = n.uid /\ m.generation = n.generation
               /\ m.spec = n.spec /\ m.deleting = n.deleting

\* The worker's copy is the cached monitor, up to its finalizer and status.
CopyFresh == pc # "idle" => Alike(monitor, cMon)

\* The libraries resolved so far are the cached ones.
LibsFresh ==
    pc = "libraries" \/ pc \in Resolved =>
        \A x \in 1..Len(libs) : libs[x] = cLib[monitor.spec.libs[x]]

\* The children applied so far are as a new reconcile would build them.
KidsFresh == \A k \in AppliedBy(pc) : Current(k, monitor, libs)

\* The status about to be written says what was observed.
ReadyFresh == pc = "patchFinal" => monitor.status.ready = cDep.ready

CachedContents(spec) == [x \in DOMAIN spec.libs |-> cLib[spec.libs[x]]]

\* What a finished reconcile leaves.
Finished ==
    LET contents == CachedContents(mon.spec) IN
    /\ contents \in Seq(Contents)
    /\ \A k \in Watched : Current(k, mon, contents)
    /\ mon.status.observedGeneration = mon.generation
    /\ mon.status.configHash =
          IF StatusKeepsHash THEN ConfigOf(mon.spec, contents) ELSE NoConfig
    /\ mon.status.ready /\ cDep.ready
    /\ mon.status.conditions["Ready"].reason = "PodRunning"

IdleDone == pc = "idle" /\ cMon = mon /\ mon.uid # 0 => ~mon.deleting /\ Finished

Fresh == CopyFresh /\ LibsFresh /\ KidsFresh /\ ReadyFresh /\ IdleDone

QuietInv == WorkerInv /\ DeploymentCached /\ (~Due => Fresh)

-----------------------------------------------------------------------------
\* What the worker holds.

\* A spec of a monitor that exists lists libraries.
LEMMA SpecLibs ==
    ASSUME NEW m, WellFormed(m), m.uid # 0
    PROVE  m.spec \in Specs /\ m.spec.libs \in Seq(Libraries)
  <1>1. m.spec \in Specs
    BY DEF WellFormed, Monitors
  <1> QED
    BY <1>1, SpecsAssumption DEF MonitorSpecs

\* Observe copies what the cached Deployment says into the status.
LEMMA ObserveFacts ==
    ASSUME TypeOK, Observe, pc' # "idle"
    PROVE  /\ pc = "observe" /\ pc' = "patchFinal"
           /\ monitor'.status.ready = cDep.ready
           /\ monitor'.status.observedGeneration = monitor.generation
           /\ monitor'.status.configHash = monitor.status.configHash
           /\ cDep.ready => monitor'.status.conditions["Ready"].reason = "PodRunning"
           /\ UNCHANGED <<libs, kids, evt, cLib, cDep, smEnabled, dirty, timer>>
  <1>0. monitor \in Monitors
    BY DEF TypeOK, WellFormed
  <1>1. cDep.present
    BY DEF Observe, Return
  <1> DEFINE why == IF cDep.ready THEN "PodRunning" ELSE "PodNotReady"
             told == WithCondition(monitor, "Ready", why)
  <1>2. PICK pod : monitor' = [told EXCEPT
                           !.status.ready = cDep.ready,
                           !.status.observedGeneration = monitor.generation,
                           !.status.lastReconciled = now,
                           !.status.podName = pod]
    BY <1>1 DEF Observe, LastReconciled
  <1>3. told \in Monitors
    BY <1>0, WithConditionType DEF ConditionTypes, Reasons
  <1>4. /\ told.status.configHash = monitor.status.configHash
        /\ told.status.conditions["Ready"].reason = why
    BY <1>0 DEF WithCondition, Monitors, Statuses, ConditionTypes
  <1>5. /\ monitor'.status.ready = cDep.ready
        /\ monitor'.status.observedGeneration = monitor.generation
        /\ monitor'.status.configHash = told.status.configHash
        /\ monitor'.status.conditions = told.status.conditions
    <2> HIDE DEF told
    <2> QED
      BY <1>2, <1>3 DEF Monitors, Statuses
  <1>6. cDep.ready => monitor'.status.conditions["Ready"].reason = "PodRunning"
    BY <1>4, <1>5
  <1>7. /\ pc = "observe" /\ pc' = "patchFinal"
        /\ UNCHANGED <<libs, kids, evt, cLib, cDep, smEnabled, dirty, timer>>
    BY <1>1 DEF Observe, clusterVars, cacheVars
  <1> QED
    BY <1>4, <1>5, <1>6, <1>7

\* ApplyConfigMap, when it does not fail, records the hash of what it applied.
LEMMA ConfigMapFacts ==
    ASSUME TypeOK, ApplyConfigMap, pc' # "idle"
    PROVE  /\ pc = "ConfigMap" /\ pc' = "Deployment" /\ Apply("ConfigMap")
           /\ monitor'.status.configHash = ConfigOf(monitor.spec, libs)
           /\ UNCHANGED <<libs, timer>>
  <1>0. monitor \in Monitors
    BY DEF TypeOK, WellFormed
  <1>1. ~BuildFails(monitor.spec, libs)
    BY DEF ApplyConfigMap, Return
  <1> DEFINE generated == WithCondition(monitor, "ConfigGenerated", "ConfigMapUpdated")
             hash == ConfigOf(monitor.spec, libs)
  <1>2. monitor' = [generated EXCEPT !.status.configHash = hash]
    BY <1>1 DEF ApplyConfigMap
  <1>3. generated \in Monitors
    BY <1>0, WithConditionType DEF ConditionTypes, Reasons
  <1>4. monitor'.status.configHash = hash
    <2> HIDE DEF generated, hash
    <2> QED
      BY <1>2, <1>3 DEF Monitors, Statuses
  <1> QED
    BY <1>1, <1>4 DEF ApplyConfigMap

\* Every early return of a step of Reconcile schedules the key again.
LEMMA MiddleReturns ==
    ASSUME Middle, pc' = "idle"
    PROVE  /\ timer' /\ libs' = <<>>
           /\ UNCHANGED <<mon, evt, cDep, depReady>>
  BY DEF Middle, ValidateCredentials, ResolveLibrary, ApplyConfigMap, ApplyDeployment,
         ApplyService, ApplyServiceMonitor, Observe, Return, objectVars, clusterVars,
         cacheVars

\* What serverSideApply leaves alone.
LEMMA ApplyFacts ==
    ASSUME TypeOK, NEW j \in Kinds, Apply(j)
    PROVE  /\ kids' = [kids EXCEPT ![j] = Build(j, monitor, libs)]
           /\ evt \subseteq evt'
           /\ UNCHANGED <<mon, cMon, cLib, cDep, depReady, smEnabled, dirty>>
  BY DEF Apply, Emitted, objectVars

\* What the other steps of Reconcile do, one by one, when they do not return.
LEMMA MiddleProceeds ==
    ASSUME TypeOK, Middle, pc' # "idle"
    PROVE  /\ UNCHANGED <<mon, cMon, cLib, cDep, depReady, smEnabled, dirty, timer>>
           /\ \/ /\ pc = "credentials" /\ pc' \in {"libraries", "patchEarly"}
                 /\ UNCHANGED <<libs, kids, evt>>
              \/ /\ pc = "libraries" /\ pc' = "libraries"
                 /\ Len(libs) < Len(monitor.spec.libs)
                 /\ cLib[monitor.spec.libs[Len(libs) + 1]] # NoContent
                 /\ libs' = Append(libs, cLib[monitor.spec.libs[Len(libs) + 1]])
                 /\ UNCHANGED <<monitor, kids, evt>>
              \/ /\ pc = "libraries" /\ pc' \in {"ConfigMap", "patchEarly"}
                 /\ pc' = "ConfigMap" => ~(Len(libs) < Len(monitor.spec.libs))
                 /\ UNCHANGED <<libs, kids, evt>>
              \/ /\ pc = "ConfigMap" /\ pc' = "Deployment" /\ Apply("ConfigMap")
                 /\ monitor'.status.configHash = ConfigOf(monitor.spec, libs)
                 /\ UNCHANGED libs
              \/ /\ pc = "Deployment" /\ pc' = "Service" /\ Apply("Deployment")
                 /\ UNCHANGED <<libs, monitor>>
              \/ /\ pc = "Service" /\ Apply("Service")
                 /\ pc' = IF smEnabled THEN "ServiceMonitor" ELSE "observe"
                 /\ UNCHANGED <<libs, monitor>>
              \/ /\ pc = "ServiceMonitor" /\ pc' = "observe" /\ Apply("ServiceMonitor")
                 /\ UNCHANGED <<libs, monitor>>
              \/ Observe /\ pc = "observe" /\ pc' = "patchFinal"
  <1> USE DEF objectVars, clusterVars, cacheVars, queueVars
  <1>0. /\ "ConfigMap" \in Kinds /\ "Deployment" \in Kinds
        /\ "Service" \in Kinds /\ "ServiceMonitor" \in Kinds
    BY DEF Kinds
  <1>1. CASE ValidateCredentials
    BY <1>1 DEF ValidateCredentials
  <1>2. CASE ResolveLibrary
    BY <1>2 DEF ResolveLibrary
  <1>3. CASE ApplyConfigMap
    <2>1. /\ pc = "ConfigMap" /\ pc' = "Deployment" /\ Apply("ConfigMap")
          /\ monitor'.status.configHash = ConfigOf(monitor.spec, libs)
          /\ UNCHANGED <<libs, timer>>
      BY <1>3, ConfigMapFacts
    <2> QED
      BY <1>0, <2>1, ApplyFacts
  <1>4. CASE ApplyDeployment
    <2>1. /\ pc = "Deployment" /\ pc' = "Service" /\ Apply("Deployment")
          /\ UNCHANGED <<libs, monitor, timer>>
      BY <1>4 DEF ApplyDeployment
    <2> QED
      BY <1>0, <2>1, ApplyFacts
  <1>5. CASE ApplyService
    <2>1. /\ pc = "Service" /\ Apply("Service")
          /\ pc' = IF smEnabled THEN "ServiceMonitor" ELSE "observe"
          /\ UNCHANGED <<libs, monitor, timer>>
      BY <1>5 DEF ApplyService
    <2> QED
      BY <1>0, <2>1, ApplyFacts
  <1>6. CASE ApplyServiceMonitor
    <2>1. /\ pc = "ServiceMonitor" /\ pc' = "observe" /\ Apply("ServiceMonitor")
          /\ UNCHANGED <<libs, monitor, timer>>
      BY <1>6 DEF ApplyServiceMonitor, Return
    <2> QED
      BY <1>0, <2>1, ApplyFacts
  <1>7. CASE Observe
    <2>1. UNCHANGED <<mon, cMon, depReady>>
      BY <1>7 DEF Observe
    <2> QED
      BY <1>7, <2>1, ObserveFacts
  <1> QED
    BY <1>1, <1>2, <1>3, <1>4, <1>5, <1>6, <1>7 DEF Middle

\* Every step keeps what the worker holds in shape.
LEMMA WorkerStep == TypeOK /\ PinInv /\ WorkerInv /\ [Next]_vars => WorkerInv'
  <1> SUFFICES ASSUME TypeOK, PinInv, WorkerInv, [Next]_vars PROVE WorkerInv'
    OBVIOUS
  <1> USE DEF WorkerInv
  <1>0. /\ "idle" \notin Applying /\ "removeFinalizer" \notin Applying
        /\ "addFinalizer" \notin Applying /\ "credentials" \in Applying
        /\ Resolved \subseteq Applying /\ Generated \subseteq Resolved
        /\ "credentials" \notin Resolved /\ "libraries" \notin Resolved
        /\ "patchEarly" \notin Resolved /\ "ConfigMap" \notin Generated
        /\ "patchFinal" \in Generated
    BY DEF Applying, Resolved, Generated
  <1>1. CASE Begin
    <2>1. /\ pc = "idle" /\ UNCHANGED <<mon, libs>>
          /\ pc' = Entry(cMon) /\ (pc' # "idle" => monitor' = cMon)
      BY <1>1 DEF Begin, objectVars
    <2>2. /\ pc' \in {"idle", "addFinalizer", "removeFinalizer", "credentials"}
          /\ pc' = "credentials" => ~cMon.deleting
      BY <2>1 DEF Entry
    <2>3. LibsShape'
      BY <2>1, <2>2 DEF LibsShape, Resolved
    <2>4. StatusShape'
      BY <2>2 DEF StatusShape, Generated, Resolved
    <2>5. MarkedPinned'
      BY <1>0, <2>1, <2>2 DEF MarkedPinned
    <2> QED
      BY <2>3, <2>4, <2>5
  <1>2. ASSUME pc' = "idle", libs' = <<>>, mon'.uid # 0 /\ mon'.deleting => mon'.fin
        PROVE  WorkerInv'
    BY <1>0, <1>2 DEF LibsShape, StatusShape, MarkedPinned
  <1>3. CASE RemoveFinalizer
    <2>1. pc' = "idle" /\ libs' = <<>> /\ mon' \in {mon, Absent}
      BY <1>3 DEF RemoveFinalizer, Return
    <2> QED
      BY <1>2, <2>1, AbsentType DEF MarkedPinned
  <1>4. CASE AddFinalizer
    <2>1. CASE mon = monitor
      <3>1. /\ pc = "addFinalizer" /\ pc' = "credentials" /\ monitor' = mon'
            /\ UNCHANGED libs /\ mon'.fin /\ mon'.deleting = mon.deleting
        BY <1>4, <2>1, WriteFacts DEF AddFinalizer
      <3>2. ~monitor'.deleting
        BY <2>1, <3>1 DEF PinInv, AddsOnlyUnmarked
      <3> QED
        BY <1>0, <3>1, <3>2 DEF LibsShape, StatusShape, MarkedPinned
    <2>2. CASE mon # monitor
      BY <1>2, <1>4, <2>2 DEF AddFinalizer, Return, MarkedPinned
    <2> QED
      BY <2>1, <2>2
  <1>5. CASE Middle
    <2>1. CASE pc' = "idle"
      BY <1>2, <1>5, <2>1, MiddleReturns DEF MarkedPinned
    <2>2. CASE pc' # "idle"
      <3>1. /\ UNCHANGED mon /\ pc \in Applying /\ pc' \in Applying
            /\ monitor'.generation = monitor.generation
            /\ monitor'.spec = monitor.spec /\ monitor'.deleting = monitor.deleting
        BY <1>5, <2>2, MiddleKeepsCopy
      <3>2. MarkedPinned'
        BY <3>1 DEF MarkedPinned
      <3>3. monitor.spec.libs \in Seq(Libraries) /\ libs \in Seq(Contents)
        BY <3>1, <1>0, SpecLibs DEF TypeOK
      <3>4. LibsShape'
        BY <1>5, <2>2, <3>1, <3>3, MiddleProceeds, ObserveFacts DEF LibsShape, Resolved
      <3>5. pc' \in Generated =>
                monitor'.status.configHash = ConfigOf(monitor'.spec, libs')
        BY <1>5, <2>2, <3>1, MiddleProceeds, ObserveFacts
        DEF StatusShape, Generated, Resolved
      <3>6. pc' = "patchFinal" =>
                /\ monitor'.status.observedGeneration = monitor'.generation
                /\ monitor'.status.ready =>
                      monitor'.status.conditions["Ready"].reason = "PodRunning"
        BY <1>5, <2>2, <3>1, MiddleProceeds, ObserveFacts
      <3> QED
        BY <3>2, <3>4, <3>5, <3>6 DEF StatusShape
    <2> QED
      BY <2>1, <2>2
  <1>6. CASE PatchStatus
    <2>1. pc' = "idle" /\ libs' = <<>>
      BY <1>6 DEF PatchStatus, Return
    <2> QED
      BY <1>2, <1>6, <2>1, WriteFacts DEF MarkedPinned
  <1>7. CASE CallFails \/ Restart
    <2>1. pc' = "idle" /\ libs' = <<>> /\ UNCHANGED mon
      BY <1>7 DEF CallFails, Restart, Return, objectVars
    <2> QED
      BY <1>2, <2>1 DEF MarkedPinned
  <1>8. ASSUME UNCHANGED <<pc, monitor, libs>>, mon'.uid # 0 /\ mon'.deleting => mon'.fin
        PROVE  WorkerInv'
    BY <1>8 DEF LibsShape, StatusShape, MarkedPinned
  <1>9. CASE DeliverMonitor \/ Aside \/ UNCHANGED vars
    <2>1. UNCHANGED <<pc, monitor, libs, mon>>
      BY <1>9, AsideLeavesMonitor, AsideOnChildren
      DEF DeliverMonitor, vars, objectVars, workerVars
    <2> QED
      BY <1>8, <2>1 DEF MarkedPinned
  <1>10. ASSUME NEW spec \in Specs, CreateMonitor(spec) \/ UpdateMonitor(spec)
         PROVE  WorkerInv'
    <2>1. UNCHANGED <<pc, monitor, libs>>
      BY <1>10 DEF CreateMonitor, UpdateMonitor, workerVars
    <2>2. mon'.uid # 0 /\ mon'.deleting => mon'.fin
      BY <1>10, WriteFacts DEF MarkedPinned, UpdateMonitor
    <2> QED
      BY <1>8, <2>1, <2>2
  <1>11. CASE DeleteMonitor
    <2>1. UNCHANGED <<pc, monitor, libs>> /\ (~mon.fin => mon' = Absent)
      BY <1>11 DEF DeleteMonitor, workerVars
    <2> QED
      BY <1>8, <1>11, <2>1, WriteFacts, AbsentType
  <1> QED
    BY <1>1, <1>3, <1>4, <1>5, <1>6, <1>7, <1>9, <1>10, <1>11, StepCases

-----------------------------------------------------------------------------
\* What the rest of the cluster does behind the worker's back.

\* A timer or the event of a child makes the key due.  Anything else changes a
\* watched child, its status or a library that the monitor lists only together
\* with an event that brings the key back.
LEMMA AsideTells ==
    ASSUME TypeOK, Aside
    PROVE  \/ TimerFires \/ \E k \in Kinds : DeliverChild(k)
           \/ /\ UNCHANGED <<cDep, smEnabled>> /\ evt \subseteq evt' /\ (Due => Due')
              /\ \A k \in Watched : kids'[k] = kids[k] \/ k \in evt'
              /\ depReady' = depReady \/ "Deployment" \in evt'
              /\ Due' \/ \A l \in Libraries : LibraryToMonitors(l) => cLib'[l] = cLib[l]
  <1> USE DEF objectVars, clusterVars, cacheVars, queueVars, Due
  <1> DEFINE Told ==
          /\ UNCHANGED <<cDep, smEnabled>> /\ evt \subseteq evt' /\ (Due => Due')
          /\ \A k \in Watched : kids'[k] = kids[k] \/ k \in evt'
          /\ depReady' = depReady \/ "Deployment" \in evt'
          /\ Due' \/ \A l \in Libraries : LibraryToMonitors(l) => cLib'[l] = cLib[l]
  <1>0. /\ kids \in [Kinds -> Children] /\ Watched \subseteq Kinds
        /\ "Deployment" \in Watched /\ cLib \in [Libraries -> Contents \cup {NoContent}]
    BY DEF TypeOK, Watched, Kinds
  <1>1. ASSUME UNCHANGED <<kids, depReady, evt, cLib, cDep, smEnabled, dirty, timer>>
        PROVE  Told
    BY <1>1
  <1>2. ASSUME NEW j \in Kinds, Vanish(j) \/ EditChild(j),
               UNCHANGED <<cLib, cDep, smEnabled, dirty, timer>>
        PROVE  Told
    <2>1. evt' = evt \cup ({j} \cap Watched)
      BY <1>2 DEF Vanish, EditChild, Emitted
    <2>2. \A k \in Kinds : k # j => kids'[k] = kids[k]
      BY <1>0, <1>2 DEF Vanish, EditChild
    <2>3. depReady' = depReady \/ j = "Deployment"
      BY <1>2 DEF Vanish, EditChild, TypeOK
    <2> QED
      BY <1>0, <1>2, <2>1, <2>2, <2>3
  <1>3. CASE DeliverSecret \/ DeliverPods \/ SetSecret \/ StartPod \/ CollectPods \/ Tick
    BY <1>1, <1>3 DEF DeliverSecret, DeliverPods, SetSecret, StartPod, CollectPods, Tick
  <1>4. CASE \E p \in pods : StopPod(p)
    BY <1>1, <1>4 DEF StopPod
  <1>5. CASE \E l \in Libraries, content \in Contents \cup {NoContent} :
                 SetLibrary(l, content)
    BY <1>1, <1>5 DEF SetLibrary
  <1>6. ASSUME NEW j \in Kinds, CollectChild(j) \/ DeleteChild(j) \/ EditChild(j)
        PROVE  Told
    BY <1>2, <1>6 DEF CollectChild, DeleteChild, EditChild
  <1>7. CASE SetServiceMonitorCRD
    BY <1>1, <1>2, <1>7 DEF SetServiceMonitorCRD, Kinds
  <1>8. CASE ProbePod \/ LoseReadiness
    <2>1. evt' = evt \cup {"Deployment"}
      BY <1>0, <1>8 DEF ProbePod, LoseReadiness, SetReady, Emitted
    <2>2. UNCHANGED <<kids, cLib, cDep, smEnabled, dirty, timer>>
      BY <1>8 DEF ProbePod, LoseReadiness, SetReady
    <2> QED
      BY <2>1, <2>2
  <1>9. ASSUME NEW l \in Libraries, DeliverLibrary(l) PROVE Told
    <2>1. /\ cLib' = [cLib EXCEPT ![l] = lib[l]]
          /\ dirty' = (dirty \/ LibraryToMonitors(l))
          /\ UNCHANGED <<kids, depReady, evt, cDep, smEnabled, timer>>
      BY <1>9 DEF DeliverLibrary
    <2>2. ~LibraryToMonitors(l) =>
              \A n \in Libraries : LibraryToMonitors(n) => cLib'[n] = cLib[n]
      BY <1>0, <2>1
    <2> QED
      BY <2>1, <2>2
  <1>10. Told \/ TimerFires \/ \E k \in Kinds : DeliverChild(k)
    BY <1>3, <1>4, <1>5, <1>6, <1>7, <1>8, <1>9 DEF Aside, ClusterActs
  <1> QED
    BY <1>10

\* Every step keeps the cached Deployment in touch with the real one.
LEMMA DeploymentStep ==
    TypeOK /\ DeploymentCached /\ [Next]_vars => DeploymentCached'
  <1> SUFFICES ASSUME TypeOK, DeploymentCached, [Next]_vars PROVE DeploymentCached'
    OBVIOUS
  <1> USE DEF objectVars, clusterVars, cacheVars, queueVars
  <1>1. ASSUME UNCHANGED <<depReady, cDep>>, evt \subseteq evt' PROVE DeploymentCached'
    BY <1>1 DEF DeploymentCached
  <1>2. CASE Begin \/ RemoveFinalizer \/ AddFinalizer \/ PatchStatus \/ CallFails
    BY <1>1, <1>2 DEF Begin, RemoveFinalizer, AddFinalizer, PatchStatus, CallFails
  <1>3. CASE Middle
    <2>1. CASE pc' = "idle"
      BY <1>1, <1>3, <2>1, MiddleReturns
    <2>2. CASE pc' # "idle"
      <3>1. UNCHANGED <<depReady, cDep>>
        BY <1>3, <2>2, MiddleProceeds
      <3>2. evt \subseteq evt'
        BY <1>3, <2>2, MiddleProceeds, ObserveFacts, ApplyFacts DEF Kinds
      <3> QED
        BY <1>1, <3>1, <3>2
    <2> QED
      BY <2>1, <2>2
  <1>4. CASE Restart
    <2>1. cDep'.ready = depReady'
      BY <1>4 DEF Restart, CachedDeployment
    <2> QED
      BY <2>1 DEF DeploymentCached
  <1>5. CASE DeliverMonitor \/ DeleteMonitor \/ UNCHANGED vars
             \/ \E spec \in Specs : CreateMonitor(spec) \/ UpdateMonitor(spec)
    BY <1>1, <1>5 DEF DeliverMonitor, DeleteMonitor, CreateMonitor, UpdateMonitor, vars
  <1>6. ASSUME NEW k \in Kinds, DeliverChild(k) PROVE DeploymentCached'
    <2>1. CASE k = "Deployment"
      <3>1. cDep'.ready = depReady'
        BY <1>6, <2>1 DEF DeliverChild, CachedDeployment
      <3> QED
        BY <3>1 DEF DeploymentCached
    <2>2. CASE k # "Deployment"
      BY <1>6, <2>2 DEF DeliverChild, DeploymentCached
    <2> QED
      BY <2>1, <2>2
  <1>7. CASE Aside
    <2>1. CASE TimerFires
      BY <1>1, <2>1 DEF TimerFires
    <2>2. CASE /\ UNCHANGED cDep /\ evt \subseteq evt'
               /\ depReady' = depReady \/ "Deployment" \in evt'
      BY <2>2 DEF DeploymentCached
    <2> QED
      BY <1>6, <1>7, <2>1, <2>2, AsideTells
  <1> QED
    BY <1>2, <1>3, <1>4, <1>5, <1>7, StepCases

-----------------------------------------------------------------------------
\* While the key is not due, nothing the worker knows is out of date.

\* What is stored depends on the uid and the spec only.
LEMMA StoredIsWanted ==
    ASSUME NEW k, NEW m, NEW contents
    PROVE  Stored(Build(k, m, contents)) = Wanted(k, m.uid, m.spec, contents)
  BY DEF Stored, Build, Wanted

\* The children applied at each step are watched, and each apply adds one.
LEMMA AppliedFacts ==
    /\ AppliedBy("idle") = {} /\ AppliedBy("addFinalizer") = {}
    /\ AppliedBy("removeFinalizer") = {} /\ AppliedBy("credentials") = {}
    /\ AppliedBy("libraries") = {} /\ AppliedBy("ConfigMap") = {}
    /\ AppliedBy("patchEarly") = {}
    /\ AppliedBy("Deployment") = AppliedBy("ConfigMap") \cup {"ConfigMap"}
    /\ AppliedBy("Service") = AppliedBy("Deployment") \cup {"Deployment"}
    /\ AppliedBy("ServiceMonitor") = AppliedBy("Service") \cup {"Service"}
    /\ smEnabled =>
          AppliedBy("observe") = AppliedBy("ServiceMonitor") \cup {"ServiceMonitor"}
    /\ ~smEnabled => AppliedBy("observe") = AppliedBy("Service") \cup {"Service"}
    /\ AppliedBy("patchFinal") = AppliedBy("observe")
    /\ AppliedBy("patchFinal") = Watched
    /\ \A step : AppliedBy(step) \subseteq Watched
  <1>1. /\ AppliedAt("idle") = {} /\ AppliedAt("addFinalizer") = {}
        /\ AppliedAt("removeFinalizer") = {} /\ AppliedAt("credentials") = {}
        /\ AppliedAt("libraries") = {} /\ AppliedAt("ConfigMap") = {}
        /\ AppliedAt("patchEarly") = {}
        /\ AppliedAt("Deployment") = {"ConfigMap"}
        /\ AppliedAt("Service") = {"ConfigMap", "Deployment"}
        /\ AppliedAt("ServiceMonitor") = Always
        /\ AppliedAt("observe") = Always /\ AppliedAt("patchFinal") = Always
    BY DEF AppliedAt
  <1>2. Always = {"ConfigMap", "Deployment", "Service"}
    BY DEF Always, Kinds
  <1>3. Watched = IF smEnabled THEN Always \cup {"ServiceMonitor"} ELSE Always
    BY DEF Watched, Always, Kinds
  <1>4. \A step : AppliedAt(step) \subseteq Always
    BY <1>2 DEF AppliedAt
  <1>5. \A step : AppliedBy(step) \subseteq Watched
    BY <1>3, <1>4 DEF AppliedBy
  <1> QED
    BY <1>1, <1>2, <1>3, <1>5 DEF AppliedBy

\* An apply makes its child current and leaves the others as they were.
LEMMA ApplyMakesCurrent ==
    ASSUME TypeOK, NEW j \in Kinds, Apply(j), NEW k \in Kinds,
           k = j \/ Current(k, monitor, libs),
           libs' = libs, monitor'.uid = monitor.uid, monitor'.spec = monitor.spec
    PROVE  Current(k, monitor, libs)'
  <1>1. /\ kids' = [kids EXCEPT ![j] = Build(j, monitor, libs)] /\ evt \subseteq evt'
        /\ kids \in [Kinds -> Children]
    BY ApplyFacts DEF TypeOK
  <1>2. CASE k = j
    <2>1. kids'[k] = Build(k, monitor, libs)
      BY <1>1, <1>2
    <2>2. Stored(kids'[k]) = Wanted(k, monitor'.uid, monitor'.spec, libs')
      BY <2>1, StoredIsWanted
    <2> QED
      BY <2>2 DEF Current
  <1>3. CASE k # j
    <2>1. kids'[k] = kids[k]
      BY <1>1, <1>3
    <2> QED
      BY <1>1, <1>3, <2>1 DEF Current
  <1> QED
    BY <1>2, <1>3

\* A step of Reconcile that goes on keeps what was read and applied up to date.
LEMMA MiddleFresh ==
    ASSUME TypeOK, WorkerInv, Fresh, Middle, pc' # "idle"
    PROVE  Fresh'
  <1>1. /\ pc \in Applying /\ pc' \in Applying /\ UNCHANGED cMon
        /\ monitor'.uid = monitor.uid /\ monitor'.generation = monitor.generation
        /\ monitor'.spec = monitor.spec /\ monitor'.deleting = monitor.deleting
    BY MiddleKeepsCopy
  <1>2. UNCHANGED <<cLib, cDep, smEnabled>>
    BY MiddleProceeds
  <1>3. pc # "idle" /\ monitor.spec.libs \in Seq(Libraries) /\ libs \in Seq(Contents)
    BY <1>1, SpecLibs DEF TypeOK, Applying
  <1>4. CopyFresh'
    BY <1>1, <1>3 DEF Fresh, CopyFresh, Alike
  <1>5. LibsFresh'
    <2>1. ASSUME pc = "libraries", pc' = "libraries", UNCHANGED monitor,
                 Len(libs) < Len(monitor.spec.libs),
                 libs' = Append(libs, cLib[monitor.spec.libs[Len(libs) + 1]]),
                 cLib[monitor.spec.libs[Len(libs) + 1]] # NoContent
          PROVE  LibsFresh'
      <3> DEFINE found == cLib[monitor.spec.libs[Len(libs) + 1]]
      <3>1. found \in Contents
        BY <1>3, <2>1 DEF TypeOK
      <3>2. /\ Len(libs') = Len(libs) + 1 /\ libs'[Len(libs) + 1] = found
            /\ \A x \in 1..Len(libs) : libs'[x] = libs[x]
        BY <1>3, <2>1, <3>1
      <3>3. \A x \in 1..Len(libs) : libs[x] = cLib[monitor.spec.libs[x]]
        BY <2>1 DEF Fresh, LibsFresh
      <3>4. ASSUME NEW x \in 1..Len(libs') PROVE libs'[x] = cLib'[monitor'.spec.libs[x]]
        <4>1. x \in 1..Len(libs) \/ x = Len(libs) + 1
          BY <1>3, <3>2
        <4> QED
          BY <1>1, <1>2, <3>2, <3>3, <4>1
      <3> QED
        BY <3>4 DEF LibsFresh
    <2>2. CASE /\ pc = "credentials" /\ pc' \in {"libraries", "patchEarly"}
               /\ UNCHANGED libs
      <3>1. Len(libs') = 0
        BY <2>2 DEF WorkerInv, LibsShape
      <3> QED
        BY <3>1 DEF LibsFresh
    <2>3. CASE /\ pc = "libraries" \/ pc \in Resolved
               /\ UNCHANGED libs
      BY <1>1, <1>2, <2>3 DEF Fresh, LibsFresh
    <2> QED
      BY <2>1, <2>2, <2>3, MiddleProceeds, ObserveFacts DEF Resolved
  <1>6. KidsFresh'
    <2>1. AppliedBy(pc)' = AppliedBy(pc')
      BY <1>2 DEF AppliedBy
    <2>2. Watched \subseteq Kinds
      BY DEF Watched
    <2>3. ASSUME NEW j \in Kinds, Apply(j), UNCHANGED libs,
                 AppliedBy(pc') \subseteq AppliedBy(pc) \cup {j}
          PROVE  KidsFresh'
      <3>1. \A k \in AppliedBy(pc') : Current(k, monitor, libs)'
        <4> TAKE k \in AppliedBy(pc')
        <4>1. k \in Kinds /\ (k = j \/ Current(k, monitor, libs))
          BY <2>2, <2>3, AppliedFacts DEF Fresh, KidsFresh
        <4> QED
          BY <1>1, <2>3, <4>1, ApplyMakesCurrent
      <3> QED
        BY <2>1, <3>1 DEF KidsFresh
    <2>4. CASE AppliedBy(pc') = {}
      BY <2>1, <2>4 DEF KidsFresh
    <2>5. CASE Observe
      <3>1. pc = "observe" /\ pc' = "patchFinal" /\ UNCHANGED <<kids, evt, libs>>
        BY <2>5, ObserveFacts
      <3>2. AppliedBy(pc') = AppliedBy(pc)
        BY <3>1, AppliedFacts
      <3> QED
        BY <1>1, <2>1, <3>1, <3>2 DEF Fresh, KidsFresh, Current
    <2>6. CASE AppliedBy(pc') # {} /\ ~Observe
      <3>1. \E j \in Kinds : /\ Apply(j) /\ UNCHANGED libs
                             /\ AppliedBy(pc') \subseteq AppliedBy(pc) \cup {j}
        BY <2>6, MiddleProceeds, AppliedFacts DEF Kinds
      <3> QED
        BY <2>3, <3>1
    <2> QED
      BY <2>4, <2>5, <2>6
  <1>7. ReadyFresh'
    BY <1>2, MiddleProceeds, ObserveFacts DEF ReadyFresh
  <1>8. IdleDone'
    BY DEF IdleDone
  <1> QED
    BY <1>4, <1>5, <1>6, <1>7, <1>8 DEF Fresh

\* A status update that leaves the cache equal to the object changed nothing, and
\* the reconcile it ends has applied everything there is to apply.
LEMMA PatchFinishes ==
    ASSUME TypeOK, WorkerInv, Fresh, PatchStatus, ~Due'
    PROVE  Fresh'
  <1>1. /\ pc = "patchFinal" /\ cMon = mon /\ cMon.uid # 0
        /\ mon' = [mon EXCEPT !.status = Persisted(monitor.status)]
        /\ monitor.status.ready = TRUE
    <2>1. monitor.status.ready \in BOOLEAN
      BY DEF TypeOK, WellFormed, Monitors, Statuses
    <2> QED
      BY <2>1 DEF PatchStatus, Return, Due
  <1>2. /\ pc' = "idle"
        /\ UNCHANGED <<kids, evt, cMon, cLib, cDep, smEnabled>>
    BY DEF PatchStatus, Return, clusterVars, cacheVars
  <1>3. CopyFresh' /\ LibsFresh' /\ ReadyFresh'
    BY <1>2 DEF CopyFresh, LibsFresh, ReadyFresh, Resolved
  <1>4. KidsFresh'
    <2>1. AppliedBy(pc)' = AppliedBy(pc')
      BY <1>2 DEF AppliedBy
    <2> QED
      BY <1>2, <2>1, AppliedFacts DEF KidsFresh
  <1>5. ASSUME cMon' = mon' PROVE ~mon'.deleting /\ Finished'
    <2>1. /\ mon' = mon /\ mon.status = Persisted(monitor.status)
          /\ mon \in Monitors /\ monitor.status \in Statuses
      BY <1>1, <1>2, <1>5 DEF TypeOK, WellFormed, Monitors
    <2>2. Alike(monitor, mon) /\ ~monitor.deleting
      BY <1>1 DEF Fresh, CopyFresh, WorkerInv, MarkedPinned, Applying
    <2>3. libs = CachedContents(mon.spec)
      <3>1. mon.spec.libs \in Seq(Libraries) /\ libs \in Seq(Contents)
        BY <1>1, SpecLibs DEF TypeOK
      <3>2. /\ Len(libs) = Len(mon.spec.libs)
            /\ \A x \in 1..Len(libs) : libs[x] = cLib[mon.spec.libs[x]]
        BY <1>1, <2>2 DEF WorkerInv, LibsShape, Fresh, LibsFresh, Resolved, Alike
      <3> QED
        BY <3>1, <3>2 DEF CachedContents
    <2>4. CachedContents(mon.spec)' = libs /\ libs \in Seq(Contents)
      BY <1>2, <2>1, <2>3 DEF CachedContents, TypeOK
    <2>5. ASSUME NEW k \in Watched'
          PROVE  Current(k, mon, CachedContents(mon.spec))'
      <3>1. k \in AppliedBy(pc)
        BY <1>1, <1>2, AppliedFacts DEF Watched
      <3>2. Current(k, monitor, libs)
        BY <3>1 DEF Fresh, KidsFresh
      <3> QED
        BY <1>2, <2>1, <2>2, <2>4, <3>2 DEF Current, Alike
    <2>6. mon'.status.observedGeneration = mon'.generation
      BY <1>1, <2>1, <2>2, PersistedType DEF WorkerInv, StatusShape, Alike
    <2>7. /\ monitor.status.configHash = ConfigOf(mon.spec, libs)
          /\ monitor.status.conditions["Ready"].reason = "PodRunning"
          /\ monitor.status.ready = cDep.ready
      BY <1>1, <2>2 DEF WorkerInv, StatusShape, Generated, Resolved, Fresh, ReadyFresh,
                        Alike
    <2>8. /\ mon.status.ready = monitor.status.ready
          /\ mon.status.conditions = monitor.status.conditions
          /\ mon.status.configHash =
                IF StatusKeepsHash THEN monitor.status.configHash ELSE NoConfig
      BY <2>1 DEF Persisted, Statuses
    <2>9. mon'.status.configHash =
              IF StatusKeepsHash THEN ConfigOf(mon'.spec, CachedContents(mon.spec)')
              ELSE NoConfig
      BY <2>1, <2>4, <2>7, <2>8
    <2>10. /\ mon'.status.ready /\ cDep'.ready
           /\ mon'.status.conditions["Ready"].reason = "PodRunning"
      BY <1>1, <1>2, <2>1, <2>7, <2>8
    <2>11. Finished'
      BY <2>4, <2>5, <2>6, <2>9, <2>10 DEF Finished
    <2> QED
      BY <2>1, <2>2, <2>11 DEF Alike
  <1>6. IdleDone'
    BY <1>5 DEF IdleDone
  <1> QED
    BY <1>3, <1>4, <1>6 DEF Fresh

\* Behind the worker's back nothing goes out of date without the key coming due.
LEMMA AsideFresh ==
    ASSUME TypeOK, WorkerInv, Fresh, Aside, ~Due'
    PROVE  Fresh'
  <1>1. UNCHANGED <<mon, cMon, pc, monitor, libs>>
    BY AsideLeavesMonitor, AsideOnChildren
  <1>2. ~TimerFires /\ ~(\E k \in Kinds : DeliverChild(k))
    BY DEF TimerFires, DeliverChild, Due
  <1>3. /\ UNCHANGED <<cDep, smEnabled>> /\ evt \subseteq evt'
        /\ \A k \in Watched : kids'[k] = kids[k] \/ k \in evt'
        /\ \A l \in Libraries : LibraryToMonitors(l) => cLib'[l] = cLib[l]
    BY <1>2, AsideTells
  <1>4. CopyFresh' /\ ReadyFresh'
    BY <1>1, <1>3 DEF Fresh, CopyFresh, ReadyFresh
  <1>5. ASSUME cMon.uid # 0, NEW x \in DOMAIN cMon.spec.libs
        PROVE  cLib'[cMon.spec.libs[x]] = cLib[cMon.spec.libs[x]]
    <2>1. cMon.spec.libs \in Seq(Libraries)
      BY <1>5, SpecLibs DEF TypeOK
    <2> QED
      BY <1>3, <1>5, <2>1 DEF LibraryToMonitors
  <1>6. LibsFresh'
    <2> SUFFICES ASSUME pc = "libraries" \/ pc \in Resolved, NEW x \in 1..Len(libs)
                 PROVE  libs[x] = cLib'[monitor.spec.libs[x]]
      BY <1>1 DEF LibsFresh
    <2>1. libs[x] = cLib[monitor.spec.libs[x]]
      BY DEF Fresh, LibsFresh
    <2>2. pc # "idle" /\ cMon.uid # 0 /\ cMon.spec = monitor.spec
      BY DEF Resolved, Fresh, CopyFresh, Alike, TypeOK
    <2>3. x \in DOMAIN cMon.spec.libs
      <3>1. cMon.spec.libs \in Seq(Libraries) /\ libs \in Seq(Contents)
        BY <2>2, SpecLibs DEF TypeOK
      <3>2. Len(libs) <= Len(cMon.spec.libs)
        BY <2>2, <3>1 DEF WorkerInv, LibsShape
      <3> QED
        BY <3>1, <3>2
    <2> QED
      BY <1>5, <2>1, <2>2, <2>3
  <1>7. ASSUME NEW k \in Watched, NEW m, NEW contents,
               Stored(kids[k]) = Wanted(k, m.uid, m.spec, contents) \/ k \in evt
        PROVE  Stored(kids'[k]) = Wanted(k, m.uid, m.spec, contents) \/ k \in evt'
    BY <1>3, <1>7
  <1>8. KidsFresh'
    <2>1. AppliedBy(pc)' = AppliedBy(pc) /\ AppliedBy(pc) \subseteq Watched
      BY <1>1, <1>3, AppliedFacts DEF AppliedBy
    <2> QED
      BY <1>1, <1>7, <2>1 DEF Fresh, KidsFresh, Current
  <1>9. ASSUME pc = "idle", cMon = mon, mon.uid # 0 PROVE ~mon'.deleting /\ Finished'
    <2>1. ~mon.deleting /\ Finished
      BY <1>9 DEF Fresh, IdleDone
    <2>2. CachedContents(mon.spec)' = CachedContents(mon.spec)
      BY <1>1, <1>5, <1>9 DEF CachedContents
    <2>3. Watched' = Watched
      BY <1>3 DEF Watched
    <2>4. \A k \in Watched : Current(k, mon, CachedContents(mon.spec))
      BY <2>1 DEF Finished
    <2>5. ASSUME NEW k \in Watched
          PROVE  Current(k, mon, CachedContents(mon.spec))'
      BY <1>1, <1>7, <2>2, <2>4 DEF Current
    <2> QED
      BY <1>1, <1>3, <2>1, <2>2, <2>3, <2>5 DEF Finished
  <1>10. IdleDone'
    BY <1>1, <1>9 DEF IdleDone
  <1> QED
    BY <1>4, <1>6, <1>8, <1>10 DEF Fresh

\* Every step keeps the worker up to date, or brings the key back.
LEMMA FreshStep ==
    ASSUME TypeOK, PinInv, ClaimInv, WorkerInv, ~Due => Fresh, [Next]_vars, ~Due'
    PROVE  Fresh'
  <1>0. /\ mon.uid \in Nat /\ cMon.uid \in Nat /\ lastUid \in Nat
        /\ mon.generation \in Nat /\ cMon.generation \in Nat
    BY DEF TypeOK, WellFormed, Monitors
  <1>1. ASSUME pc' = "idle", mon'.uid = 0 \/ cMon' # mon' PROVE Fresh'
    <2>1. CopyFresh' /\ LibsFresh' /\ ReadyFresh' /\ IdleDone'
      BY <1>1 DEF CopyFresh, LibsFresh, ReadyFresh, IdleDone, Resolved
    <2>2. AppliedBy(pc)' = {}
      BY <1>1 DEF AppliedBy, AppliedAt
    <2> QED
      BY <2>1, <2>2 DEF Fresh, KidsFresh
  <1>2. ASSUME pc' \in {"addFinalizer", "removeFinalizer", "credentials"},
               Alike(monitor, cMon)'
        PROVE  Fresh'
    <2>1. CopyFresh' /\ LibsFresh' /\ ReadyFresh' /\ IdleDone'
      BY <1>2 DEF CopyFresh, LibsFresh, ReadyFresh, IdleDone, Resolved
    <2>2. AppliedBy(pc)' = {}
      BY <1>2 DEF AppliedBy, AppliedAt
    <2> QED
      BY <2>1, <2>2 DEF Fresh, KidsFresh
  <1>3. CASE Begin
    <2>1. /\ pc' = Entry(cMon) /\ UNCHANGED <<mon, cMon>>
          /\ pc' # "idle" => monitor' = cMon'
      BY <1>3 DEF Begin, objectVars, cacheVars
    <2>2. pc' = "idle" => cMon.uid = 0 \/ (cMon.deleting /\ ~cMon.fin)
      BY <2>1 DEF Entry
    <2>3. CASE pc' = "idle"
      BY <1>1, <2>1, <2>2, <2>3 DEF WorkerInv, MarkedPinned
    <2>4. CASE pc' # "idle"
      BY <1>2, <2>1, <2>4 DEF Entry, Alike
    <2> QED
      BY <2>3, <2>4
  <1>4. CASE RemoveFinalizer
    <2>1. pc' = "idle" /\ mon' = Absent
      BY <1>4 DEF RemoveFinalizer, Return, Due
    <2> QED
      BY <1>1, <2>1, AbsentType
  <1>5. CASE AddFinalizer
    <2>1. /\ mon = monitor /\ mon' = [mon EXCEPT !.fin = TRUE] /\ monitor' = mon'
          /\ pc = "addFinalizer" /\ pc' = "credentials"
          /\ UNCHANGED <<cMon, dirty, timer>>
      BY <1>5 DEF AddFinalizer, Return, Due, cacheVars
    <2>2. Alike(monitor, cMon)
      BY <2>1 DEF Due, Fresh, CopyFresh
    <2>3. Alike(monitor, cMon)'
      BY <2>1, <2>2 DEF Alike, TypeOK, WellFormed, Monitors
    <2> QED
      BY <1>2, <2>1, <2>3
  <1>6. CASE Middle
    <2>1. pc' # "idle"
      BY <1>6, MiddleReturns DEF Due
    <2>2. ~Due
      BY <1>6, <2>1, MiddleProceeds DEF Due
    <2> QED
      BY <1>6, <2>1, <2>2, MiddleFresh
  <1>7. CASE PatchStatus
    <2>1. ~Due
      BY <1>7 DEF PatchStatus, Return, Due
    <2> QED
      BY <1>7, <2>1, PatchFinishes
  <1>8. CASE CallFails \/ DeliverMonitor
    BY <1>8 DEF CallFails, Return, DeliverMonitor, Due
  <1>9. CASE Restart
    <2>1. pc' = "idle" /\ mon'.uid = 0
      BY <1>9 DEF Restart, Due, objectVars
    <2> QED
      BY <1>1, <2>1
  <1>10. CASE Aside
    <2>1. ~Due
      BY <1>10, AsideTells DEF TimerFires, DeliverChild, Due
    <2> QED
      BY <1>10, <2>1, AsideFresh
  <1>11. ASSUME UNCHANGED <<clusterVars, cacheVars, queueVars, smEnabled, workerVars>>,
                mon'.uid = 0 \/ cMon # mon'
         PROVE  Fresh'
    <2> USE DEF clusterVars, cacheVars, queueVars, workerVars
    <2>1. Fresh
      BY <1>11 DEF Due
    <2>2. CopyFresh' /\ LibsFresh' /\ ReadyFresh'
      BY <1>11, <2>1 DEF Fresh, CopyFresh, LibsFresh, ReadyFresh
    <2>3. AppliedBy(pc)' = AppliedBy(pc)
      BY <1>11 DEF AppliedBy
    <2>4. KidsFresh'
      BY <1>11, <2>1, <2>3 DEF Fresh, KidsFresh, Current
    <2>5. IdleDone'
      BY <1>11 DEF IdleDone
    <2> QED
      BY <2>2, <2>4, <2>5 DEF Fresh
  <1>12. ASSUME NEW spec \in Specs, CreateMonitor(spec) PROVE Fresh'
    <2>1. cMon.uid # mon'.uid
      BY <1>0, <1>12, WriteFacts DEF PinInv, UidsAssigned
    <2> QED
      BY <1>11, <1>12, <2>1 DEF CreateMonitor
  <1>13. ASSUME NEW spec \in Specs, UpdateMonitor(spec) PROVE Fresh'
    <2>1. /\ mon'.uid = mon.uid /\ mon'.generation = mon.generation + 1
          /\ mon.uid # 0
      BY <1>13, WriteFacts DEF UpdateMonitor
    <2>2. cMon.uid # mon'.uid \/ cMon.generation # mon'.generation
      BY <1>0, <2>1 DEF ClaimInv, ClaimsBounded
    <2> QED
      BY <1>11, <1>13, <2>2 DEF UpdateMonitor
  <1>14. CASE DeleteMonitor
    <2>1. CASE mon.fin
      <3>1. cMon.uid # mon'.uid \/ cMon.generation # mon'.generation
        BY <1>0, <1>14, <2>1, WriteFacts DEF ClaimInv, ClaimsBounded, DeleteMonitor
      <3> QED
        BY <1>11, <1>14, <3>1 DEF DeleteMonitor
    <2>2. CASE ~mon.fin
      BY <1>11, <1>14, <2>2, AbsentType DEF DeleteMonitor
    <2> QED
      BY <2>1, <2>2
  <1>15. CASE UNCHANGED vars
    <2> USE DEF vars, objectVars, clusterVars, cacheVars, queueVars, workerVars
    <2>1. Fresh
      BY <1>15 DEF Due
    <2>2. UNCHANGED <<mon, cMon, cLib, cDep, kids, evt, smEnabled, pc, monitor, libs>>
      BY <1>15
    <2> QED
      BY <2>1, <2>2 DEF Fresh, CopyFresh, LibsFresh, KidsFresh, ReadyFresh, IdleDone,
                        AppliedBy, Current, Finished, CachedContents, Watched
  <1> QED
    BY <1>3, <1>4, <1>5, <1>6, <1>7, <1>8, <1>9, <1>10, <1>12, <1>13, <1>14, <1>15,
       StepCases

-----------------------------------------------------------------------------
\* The controller rests only when it is done.

LEMMA QuietInit == Init => QuietInv
  <1> SUFFICES ASSUME Init PROVE QuietInv
    OBVIOUS
  <1>1. /\ pc = "idle" /\ libs = <<>> /\ mon = Absent /\ depReady = FALSE
        /\ cDep = [present |-> FALSE, ready |-> FALSE]
    BY DEF Init
  <1>2. WorkerInv
    BY <1>1, AbsentType
    DEF WorkerInv, LibsShape, StatusShape, MarkedPinned, Resolved, Generated, Applying
  <1>3. DeploymentCached
    BY <1>1 DEF DeploymentCached
  <1>4. CopyFresh /\ LibsFresh /\ ReadyFresh /\ IdleDone
    BY <1>1, AbsentType DEF CopyFresh, LibsFresh, ReadyFresh, IdleDone, Resolved
  <1>5. KidsFresh
    BY <1>1, AppliedFacts DEF KidsFresh
  <1> QED
    BY <1>2, <1>3, <1>4, <1>5 DEF QuietInv, Fresh

\* Every step preserves the strengthened invariant.
LEMMA QuietStep == TypeOK /\ PinInv /\ ClaimInv /\ QuietInv /\ [Next]_vars => QuietInv'
  BY WorkerStep, DeploymentStep, FreshStep DEF QuietInv

\* At rest the caches agree with the API server, so what the worker last read and
\* wrote is what there is.
LEMMA QuietMeansDone == TypeOK /\ QuietInv => RestsOnlyWhenDone
  <1> SUFFICES ASSUME TypeOK, QuietInv, AtRest, mon.uid # 0
               PROVE  ~mon.deleting /\ Settled /\ depReady
    BY DEF RestsOnlyWhenDone
  <1>1. ~mon.deleting /\ Finished
    BY DEF QuietInv, AtRest, Due, Fresh, IdleDone
  <1>2. depReady = TRUE /\ mon.status.ready = TRUE
    BY <1>1 DEF QuietInv, DeploymentCached, AtRest, Finished, TypeOK, WellFormed,
                Monitors, Statuses
  <1>3. CachedContents(mon.spec) = CurrentContents(mon.spec)
    BY DEF AtRest, CachedContents, CurrentContents
  <1> DEFINE contents == CurrentContents(mon.spec)
  <1>4. ASSUME NEW k \in Kinds, k = "ServiceMonitor" => smEnabled
        PROVE  Stored(kids[k]) = Stored(Build(k, mon, contents))
    <2>1. k \in Watched /\ k \notin evt
      BY <1>4 DEF Watched, AtRest
    <2>2. Stored(kids[k]) = Wanted(k, mon.uid, mon.spec, contents)
      BY <1>1, <1>3, <2>1 DEF Finished, Current
    <2> QED
      BY <2>2, StoredIsWanted
  <1>5. /\ mon.status.configHash \in {NoConfig, ConfigOf(mon.spec, contents)}
        /\ mon.status.configHash = NoConfig => ~StatusKeepsHash
    <2>1. ConfigOf(mon.spec, contents) \in Configs
      <3>1. contents \in Seq(Contents)
        BY <1>1, <1>3 DEF Finished
      <3>2. mon \in Monitors /\ mon.spec \in Specs /\ "ConfigMap" \in Kinds
        BY SpecLibs DEF TypeOK, WellFormed, Kinds
      <3> QED
        BY <3>1, <3>2, BuildType
    <2>2. mon.status.configHash =
              IF StatusKeepsHash THEN ConfigOf(mon.spec, contents) ELSE NoConfig
      BY <1>1, <1>3 DEF Finished
    <2> QED
      BY <2>1, <2>2, ConfigAssumption, BoundsAssumption
  <1>6. /\ mon.status.observedGeneration = mon.generation
        /\ mon.status.conditions["Ready"].reason = "PodRunning"
    BY <1>1 DEF Finished
  <1> QED
    BY <1>1, <1>2, <1>4, <1>5, <1>6 DEF Settled

\* No stale read, lost event, failed call or restart leaves the controller at rest
\* with a deletion to finish, a child that is not the one asked for, or a status
\* that is wrong.
THEOREM RestsOnlyWhenDoneTheorem == Spec => []RestsOnlyWhenDone
  BY TypeCorrect, PinInit, PinStep, ClaimInit, ClaimStep, QuietInit, QuietStep,
     QuietMeansDone, PTL DEF Spec
=============================================================================
