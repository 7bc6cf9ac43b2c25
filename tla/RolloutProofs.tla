----------------------------- MODULE RolloutProofs -----------------------------
(***************************************************************************)
(* MonitorReconciler implements Rollout, for every set of specs, libraries *)
(* and contents and every value of the bounds: what the API server shows   *)
(* of the controller is a behaviour of the abstract specification.         *)
(***************************************************************************)
EXTENDS MonitorReconcilerProofs

(***************************************************************************)
(* What the refinement needs beyond the invariants of the three safety     *)
(* theorems: uids are never reused, and a monitor that owns a child has    *)
(* the finalizer.  Without it DeleteMonitor could take away a monitor with *)
(* its children still there, which Rollout's Remove does not allow.        *)
(***************************************************************************)
ChildrenPinned ==
    \A k \in Kinds :
        /\ kids[k].owner <= lastUid
        /\ mon.uid # 0 /\ kids[k].owner = mon.uid => mon.fin

RolloutInv == TypeOK /\ PinInv /\ ClaimInv /\ ConfigInPlace /\ ChildrenPinned

-----------------------------------------------------------------------------
\* The invariant.

LEMMA ChildrenPinnedInit == Init => ChildrenPinned
  <1> SUFFICES ASSUME Init, NEW k \in Kinds
               PROVE  kids[k].owner <= lastUid /\ mon.uid = 0
    BY DEF ChildrenPinned
  <1>1. kids[k].owner = 0 /\ lastUid = 0
    BY DEF Init, NoChild
  <1> QED
    BY <1>1, AbsentType DEF Init

\* A child is applied only under the finalizer, and the finalizer goes only with
\* the monitor.
LEMMA ChildrenPinnedStep ==
    TypeOK /\ PinInv /\ ChildrenPinned /\ [Next]_vars => ChildrenPinned'
  <1> SUFFICES ASSUME TypeOK, PinInv, ChildrenPinned, [Next]_vars, NEW k \in Kinds
               PROVE  /\ kids'[k].owner <= lastUid'
                      /\ mon'.uid # 0 /\ kids'[k].owner = mon'.uid => mon'.fin
    BY DEF ChildrenPinned
  <1> DEFINE Goal == /\ kids'[k].owner <= lastUid'
                     /\ mon'.uid # 0 /\ kids'[k].owner = mon'.uid => mon'.fin
  <1>0. /\ kids[k].owner \in Nat /\ lastUid \in Nat /\ mon.uid \in Nat
        /\ monitor.uid \in Nat
        /\ kids[k].owner <= lastUid
        /\ mon.uid # 0 /\ kids[k].owner = mon.uid => mon.fin
    BY DEF TypeOK, WellFormed, Monitors, Children, ChildrenPinned
  <1>1. CASE UNCHANGED <<kids, lastUid, mon>>
    BY <1>0, <1>1
  <1>2. CASE Begin \/ CallFails \/ Restart \/ DeliverMonitor
    BY <1>1, <1>2 DEF Begin, CallFails, Restart, DeliverMonitor, objectVars,
                      clusterVars
  <1>3. CASE RemoveFinalizer
    BY <1>0, <1>3, AbsentType DEF RemoveFinalizer, clusterVars
  <1>4. CASE AddFinalizer
    <2>1. CASE mon = monitor
      BY <1>0, <1>4, <2>1, WriteFacts DEF AddFinalizer, clusterVars
    <2>2. CASE mon # monitor
      BY <1>1, <1>4, <2>2 DEF AddFinalizer, clusterVars
    <2> QED
      BY <2>1, <2>2
  <1>5. CASE Middle
    <2>1. UNCHANGED <<mon, lastUid>> /\ pc \in Applying
      BY <1>5, MiddleKeepsCopy
    <2>2. kids'[k] = kids[k] \/ kids'[k].owner = monitor.uid
      BY <1>5, MiddleApplies
    <2>3. mon.uid = monitor.uid /\ mon.fin /\ monitor.uid <= lastUid
      BY <2>1 DEF PinInv, OwnerAlive, UidsAssigned
    <2> QED
      BY <1>0, <2>1, <2>2, <2>3
  <1>6. CASE PatchStatus
    <2>1. UNCHANGED <<kids, lastUid>>
      BY <1>6 DEF PatchStatus, clusterVars
    <2>2. mon' = mon \/ (mon'.uid = mon.uid /\ mon'.fin = mon.fin)
      BY <1>6, WriteFacts
    <2> QED
      BY <1>0, <2>1, <2>2
  <1>7. CASE Aside
    <2>1. UNCHANGED <<mon, lastUid>>
      BY <1>7, AsideLeavesMonitor
    <2>2. kids'[k].owner = 0 \/ kids'[k].owner = kids[k].owner
      BY <1>7, AsideKeepsHistory
    <2> QED
      BY <1>0, <2>1, <2>2
  <1>8. ASSUME NEW spec \in Specs, CreateMonitor(spec) PROVE Goal
    <2>1. UNCHANGED kids /\ lastUid' = lastUid + 1
      BY <1>8 DEF CreateMonitor, clusterVars
    <2>2. mon'.uid = lastUid + 1
      BY <1>8, WriteFacts
    <2> QED
      BY <1>0, <2>1, <2>2
  <1>9. ASSUME NEW spec \in Specs, UpdateMonitor(spec) PROVE Goal
    <2>1. UNCHANGED <<kids, lastUid>>
      BY <1>9 DEF UpdateMonitor, clusterVars
    <2>2. mon'.uid = mon.uid /\ mon'.fin = mon.fin
      BY <1>9, WriteFacts
    <2> QED
      BY <1>0, <2>1, <2>2
  <1>10. CASE DeleteMonitor
    <2>1. UNCHANGED <<kids, lastUid>> /\ (~mon.fin => mon' = Absent)
      BY <1>10 DEF DeleteMonitor, clusterVars
    <2>2. mon.fin => mon'.uid = mon.uid /\ mon'.fin
      BY <1>10, WriteFacts
    <2> QED
      BY <1>0, <2>1, <2>2, AbsentType
  <1>11. CASE UNCHANGED vars
    BY <1>1, <1>11 DEF vars, objectVars, clusterVars
  <1> QED
    BY <1>2, <1>3, <1>4, <1>5, <1>6, <1>7, <1>8, <1>9, <1>10, <1>11, StepCases

\* A monitor that owns an object carries the finalizer, so a user's delete only
\* marks it: it goes when this controller, having seen the mark, lets it go.
THEOREM ChildrenPinnedTheorem == Spec => []ChildrenPinned
  BY TypeCorrect, PinInit, PinStep, ChildrenPinnedInit, ChildrenPinnedStep, PTL
  DEF Spec

-----------------------------------------------------------------------------
\* The steps of the controller, seen through the refinement mapping.

\* What the mapping shows of a child.
LEMMA MadeFacts ==
    ASSUME NEW k \in Kinds
    PROVE  /\ Made[k].owner = kids[k].owner /\ Made[k].gen = kids[k].gen
           /\ Made[k].config = kids[k].config
           /\ Made'[k].owner = kids'[k].owner /\ Made'[k].gen = kids'[k].gen
           /\ Made'[k].config = kids'[k].config
           /\ kids'[k] = kids[k] => Made'[k] = Made[k]
           /\ kids'[k] = NoChild => Made'[k] = Promise!Nothing
  BY DEF Made, NoChild, Promise!Nothing

\* What Rollout keeps of the monitor.
Seen(m) == <<m.uid, m.generation, m.deleting, m.status.observedGeneration>>

\* A step that shows neither in the monitor nor in the children is a stutter.
LEMMA Unseen ==
    ASSUME UNCHANGED kids, UNCHANGED Seen(mon) PROVE UNCHANGED Promise!vars
  <1>1. UNCHANGED Made
    BY DEF Made
  <1> QED
    BY <1>1 DEF Promise!vars, Seen

\* A successful apply makes one object for the monitor that exists, from a
\* generation the status has not passed.
LEMMA ApplyMakes ==
    ASSUME RolloutInv, NEW k \in Kinds, Apply(k), pc \in Applying,
           k = "Deployment" => pc = "Deployment"
    PROVE  Promise!Make(k)
  <1>0. /\ mon.uid \in Nat /\ mon.generation \in Nat
        /\ monitor.generation \in Nat /\ Claim(mon) \in Nat
        /\ kids \in [Kinds -> Children]
        /\ "ConfigMap" \in Kinds
    BY DEF RolloutInv, TypeOK, WellFormed, Monitors, Statuses, Claim, Kinds
  <1>1. /\ kids' = [kids EXCEPT ![k] = Build(k, monitor, libs)]
        /\ UNCHANGED mon
    BY DEF Apply, objectVars
  <1>2. /\ kids'[k] = Build(k, monitor, libs)
        /\ \A l \in Kinds \ {k} : kids'[l] = kids[l]
    BY <1>0, <1>1
  <1>3. /\ Made'[k].owner = monitor.uid
        /\ Made'[k].gen = monitor.generation
    BY <1>2, MadeFacts DEF Build
  <1>4. /\ mon.uid = monitor.uid /\ mon.uid # 0
        /\ Claim(mon) <= monitor.generation
        /\ monitor.generation <= mon.generation
    BY DEF RolloutInv, TypeOK, PinInv, OwnerAlive, ClaimInv, ClaimsBounded, Applying
  <1>5. Promise!Only(k)
    BY <1>1, <1>2, MadeFacts DEF Promise!Only
  <1>6. k = "Deployment" =>
            \/ Made["ConfigMap"].config \in {Made'[k].config, Edited}
            \/ Made["ConfigMap"].owner = 0
    <2> SUFFICES ASSUME k = "Deployment"
                 PROVE  \/ Made["ConfigMap"].config \in {Made'[k].config, Edited}
                        \/ Made["ConfigMap"].owner = 0
      OBVIOUS
    <2>1. Made'[k].config = ConfigOf(monitor.spec, libs)
      BY <1>2, MadeFacts DEF Build
    <2>2. \/ kids["ConfigMap"].config \in {ConfigOf(monitor.spec, libs), Edited}
          \/ kids["ConfigMap"].owner = 0
      BY DEF RolloutInv, ConfigInPlace
    <2> QED
      BY <1>0, <2>1, <2>2, MadeFacts
  <1>7. Made'[k].gen >= Claim(mon) /\ Made'[k].gen <= mon.generation
    BY <1>0, <1>3, <1>4
  <1> QED
    BY <1>3, <1>4, <1>5, <1>6, <1>7 DEF Promise!Make, Claim

\* Between the finalizer and the status update Reconcile makes objects or is not
\* seen at all.
LEMMA MiddleRefines ==
    ASSUME RolloutInv, Middle
    PROVE  UNCHANGED Promise!vars \/ \E k \in Kinds : Promise!Make(k)
  <1> USE DEF clusterVars
  <1>1. UNCHANGED mon /\ pc \in Applying
    BY MiddleKeepsCopy DEF RolloutInv
  <1>2. \/ UNCHANGED kids
        \/ \E k \in Kinds : Apply(k) /\ (k = "Deployment" => pc = "Deployment")
    BY DEF Middle, ValidateCredentials, ResolveLibrary, ApplyConfigMap,
           ApplyDeployment, ApplyService, ApplyServiceMonitor, Observe, Kinds
  <1>3. CASE UNCHANGED kids
    BY <1>1, <1>3, Unseen DEF Seen
  <1> QED
    BY <1>1, <1>2, <1>3, ApplyMakes

\* The status update reports what every object that always exists has reached.
LEMMA PatchStatusReports ==
    ASSUME RolloutInv, PatchStatus
    PROVE  UNCHANGED Promise!vars \/ Promise!Report
  <1>1. UNCHANGED kids /\ pc \in Applying
    BY DEF PatchStatus, clusterVars, Applying
  <1>2. CASE mon' = mon
    BY <1>1, <1>2, Unseen DEF Seen
  <1>3. CASE mon' # mon
    <2>1. /\ mon.uid # 0 /\ mon'.uid = mon.uid /\ mon'.deleting = mon.deleting
          /\ mon'.generation = mon.generation /\ Claim(mon') = Claim(monitor)
      BY <1>3, WriteFacts DEF RolloutInv
    <2>2. /\ Claim(monitor) \in Nat /\ monitor.generation \in Nat
          /\ mon.generation \in Nat
      BY DEF RolloutInv, TypeOK, WellFormed, Monitors, Statuses, Claim
    <2>3. Claim(mon') <= mon.generation
      BY <1>1, <2>1, <2>2 DEF RolloutInv, ClaimInv, ClaimsBounded
    <2>4. ASSUME NEW k \in Always, Made[k].owner = mon.uid
          PROVE  Made[k].gen >= Claim(mon')
      <3>1. k \in Kinds /\ kids[k].owner = mon.uid
        BY <2>4, MadeFacts DEF Always
      <3> QED
        BY <1>1, <2>1, <3>1, MadeFacts DEF RolloutInv, ClaimInv, ChildrenBacked
    <2>5. UNCHANGED Made
      BY <1>1 DEF Made
    <2> QED
      BY <2>1, <2>3, <2>4, <2>5 DEF Promise!Report, Claim
  <1> QED
    BY <1>2, <1>3

\* Users and the cluster remove an object or edit it.
LEMMA AsideRefines ==
    ASSUME RolloutInv, Aside
    PROVE  \/ UNCHANGED Promise!vars
           \/ \E k \in Kinds : Promise!Lose(k) \/ Promise!Tamper(k)
  <1>0. kids \in [Kinds -> Children]
    BY DEF RolloutInv, TypeOK
  <1>1. UNCHANGED mon
    BY AsideLeavesMonitor
  <1>2. CASE UNCHANGED kids
    BY <1>1, <1>2, Unseen DEF Seen
  <1>3. ASSUME NEW k \in Kinds, Vanish(k) PROVE Promise!Lose(k)
    <2>1. kids'[k] = NoChild /\ \A l \in Kinds \ {k} : kids'[l] = kids[l]
      BY <1>0, <1>3 DEF Vanish
    <2>2. Promise!Only(k)
      BY <1>1, <2>1, MadeFacts DEF Promise!Only
    <2> QED
      BY <2>1, <2>2, MadeFacts DEF Promise!Lose
  <1>4. ASSUME NEW k \in Kinds, EditChild(k) PROVE Promise!Tamper(k)
    <2>1. /\ kids'[k].owner = kids[k].owner /\ kids'[k].gen = kids[k].gen
          /\ kids'[k].config = Edited
          /\ \A l \in Kinds \ {k} : kids'[l] = kids[l]
      BY <1>0, <1>4 DEF EditChild, Children
    <2>2. Promise!Only(k)
      BY <1>1, <2>1, MadeFacts DEF Promise!Only
    <2>3. Made'[k] = [Made[k] EXCEPT !.config = Edited]
      BY <2>1 DEF Made
    <2> QED
      BY <2>2, <2>3 DEF Promise!Tamper
  <1> QED
    BY <1>2, <1>3, <1>4, AsideOnChildren

\* A monitor appears, changes, is marked or goes.
LEMMA MonitorRefines ==
    ASSUME RolloutInv,
           \/ RemoveFinalizer \/ AddFinalizer \/ DeleteMonitor
           \/ \E spec \in Specs : CreateMonitor(spec) \/ UpdateMonitor(spec)
    PROVE  \/ UNCHANGED Promise!vars
           \/ Promise!Create \/ Promise!Ask \/ Promise!Remove
  <1>0. /\ mon.uid \in Nat /\ lastUid \in Nat /\ TypeOK
        /\ \A k \in Kinds : kids[k].owner \in Nat
    BY DEF RolloutInv, TypeOK, WellFormed, Monitors, Children
  <1>a. UNCHANGED kids
    BY DEF RemoveFinalizer, AddFinalizer, DeleteMonitor, CreateMonitor,
           UpdateMonitor, clusterVars
  <1>b. UNCHANGED Made
    BY <1>a DEF Made
  <1>c. /\ mon' = Absent => /\ mon'.uid = 0 /\ mon'.generation = 0
                            /\ mon'.deleting = FALSE
                            /\ mon'.status.observedGeneration = 0
    BY DEF Absent, EmptyStatus
  <1>1. CASE RemoveFinalizer
    <2>1. CASE mon = monitor
      <3>1. mon' = Absent /\ mon.uid # 0 /\ mon.deleting
        BY <1>1, <2>1 DEF RemoveFinalizer, RolloutInv, TypeOK, PinInv,
                          RemovesOnlyMarked
      <3> QED
        BY <1>b, <1>c, <3>1 DEF Promise!Remove
    <2>2. CASE mon # monitor
      BY <1>1, <1>a, <2>2, Unseen DEF RemoveFinalizer, Seen
    <2> QED
      BY <2>1, <2>2
  <1>2. CASE AddFinalizer
    <2>1. UNCHANGED Seen(mon)
      BY <1>0, <1>2, WriteFacts DEF AddFinalizer, Seen, Claim
    <2> QED
      BY <1>a, <2>1, Unseen
  <1>3. CASE DeleteMonitor
    <2>1. CASE mon.fin
      <3>1. /\ mon'.uid = mon.uid /\ mon'.deleting /\ mon.uid # 0 /\ ~mon.deleting
            /\ mon'.generation = mon.generation + 1
            /\ mon'.status.observedGeneration = mon.status.observedGeneration
        BY <1>0, <1>3, <2>1, WriteFacts DEF DeleteMonitor, Claim
      <3> QED
        BY <1>b, <3>1 DEF Promise!Ask
    <2>2. CASE ~mon.fin
      <3>1. mon' = Absent /\ mon.uid # 0
        BY <1>3, <2>2 DEF DeleteMonitor
      <3>2. \A k \in Kinds : Made[k].owner # mon.uid
        BY <2>2, <3>1, MadeFacts DEF RolloutInv, ChildrenPinned
      <3> QED
        BY <1>b, <1>c, <3>1, <3>2 DEF Promise!Remove
    <2> QED
      BY <2>1, <2>2
  <1>4. ASSUME NEW spec \in Specs, CreateMonitor(spec) PROVE Promise!Create
    <2>1. mon.uid = 0
      BY <1>4 DEF CreateMonitor
    <2>2. /\ mon'.uid = lastUid + 1 /\ ~mon'.deleting /\ mon'.generation = 1
          /\ mon'.status.observedGeneration = 0
      BY <1>0, <1>4, WriteFacts DEF Claim
    <2>3. mon'.deleting = FALSE
      BY <1>4 DEF CreateMonitor, Absent
    <2>4. mon'.uid # 0 /\ \A k \in Kinds : Made[k].owner # mon'.uid
      BY <1>0, <2>2, MadeFacts DEF RolloutInv, ChildrenPinned
    <2> QED
      BY <1>b, <2>1, <2>2, <2>3, <2>4 DEF Promise!Create
  <1>5. ASSUME NEW spec \in Specs, UpdateMonitor(spec) PROVE Promise!Ask
    <2>1. /\ mon.uid # 0 /\ mon'.uid = mon.uid /\ mon'.deleting = mon.deleting
          /\ mon'.generation = mon.generation + 1
          /\ mon'.status.observedGeneration = mon.status.observedGeneration
      BY <1>0, <1>5, WriteFacts DEF UpdateMonitor, Claim
    <2> QED
      BY <1>b, <2>1 DEF Promise!Ask
  <1> QED
    BY <1>1, <1>2, <1>3, <1>4, <1>5

\* Every step of the controller and its surroundings is a step of Rollout or is
\* not seen there.
LEMMA StepRefines == RolloutInv /\ [Next]_vars => [Promise!Next]_(Promise!vars)
  <1> SUFFICES ASSUME RolloutInv, [Next]_vars
               PROVE  Promise!Next \/ UNCHANGED Promise!vars
    OBVIOUS
  <1>1. CASE UNCHANGED <<kids, mon>>
    BY <1>1, Unseen DEF Seen
  <1>2. CASE Begin \/ CallFails \/ Restart \/ DeliverMonitor
    BY <1>1, <1>2 DEF Begin, CallFails, Restart, DeliverMonitor, objectVars,
                      clusterVars
  <1>3. CASE Middle
    BY <1>3, MiddleRefines DEF Promise!Next
  <1>4. CASE PatchStatus
    BY <1>4, PatchStatusReports DEF Promise!Next
  <1>5. CASE Aside
    BY <1>5, AsideRefines DEF Promise!Next
  <1>6. CASE \/ RemoveFinalizer \/ AddFinalizer \/ DeleteMonitor
             \/ \E spec \in Specs : CreateMonitor(spec) \/ UpdateMonitor(spec)
    BY <1>6, MonitorRefines DEF Promise!Next
  <1>7. CASE UNCHANGED vars
    BY <1>1, <1>7 DEF vars, objectVars, clusterVars
  <1> QED
    BY <1>2, <1>3, <1>4, <1>5, <1>6, <1>7, StepCases

\* Someone who sees only the API server sees the controller keep every promise of
\* Rollout, whatever its caches lag behind, whichever calls fail and whenever it
\* is restarted.
THEOREM ImplementsRolloutTheorem == Spec => ImplementsRollout
  <1>1. Init => Promise!Init
    <2> SUFFICES ASSUME Init PROVE Promise!Init
      OBVIOUS
    <2>1. /\ mon.uid = 0 /\ mon.generation = 0 /\ mon.deleting = FALSE
          /\ mon.status.observedGeneration = 0
      BY DEF Init, Absent, EmptyStatus
    <2>2. Made = [k \in Kinds |-> Promise!Nothing]
      BY DEF Init, Made, NoChild, Promise!Nothing
    <2> QED
      BY <2>1, <2>2 DEF Promise!Init
  <1>2. Init => RolloutInv
    BY TypeInit, PinInit, ClaimInit, ChildrenPinnedInit
    DEF RolloutInv, ConfigInPlace, Init
  <1>3. TypeOK' /\ RolloutInv /\ [Next]_vars => RolloutInv'
    BY PinStep, ClaimStep, RolloutStepLemma, ChildrenPinnedStep DEF RolloutInv
  <1> QED
    BY <1>1, <1>2, <1>3, TypeCorrect, StepRefines, PTL
    DEF Spec, ImplementsRollout, Promise!Spec
=============================================================================
