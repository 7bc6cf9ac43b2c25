----------------------- MODULE LibraryReconcilerProofs -----------------------
(***************************************************************************)
(* Theorems about the library controller, alone and next to the monitor    *)
(* controller, for any set of monitors and any number of incarnations,     *)
(* edits and faults.                                                       *)
(***************************************************************************)
EXTENDS LibraryFanout, TLAPS

\* The status does not run ahead of the library, and the copy about to be
\* written is the one computed for the version that was read.
JudgedInv ==
    /\ TypeOK
    /\ lib.status.observed <= lib.generation
    /\ ObservedMeansJudged
    /\ pc = "update" => copy = Computed(read)

LEMMA AbsentFacts ==
    /\ Absent \in LibraryType /\ Absent.uid = 0 /\ Absent.generation = 0
    /\ Absent.status.observed = 0
  BY DEF Absent, LibraryType, StatusType

\* What Computed makes of a library.
LEMMA ComputedType ==
    ASSUME NEW l \in LibraryType
    PROVE  /\ Computed(l) \in LibraryType
           /\ Computed(l).status = StatusOf(l)
  BY DEF Computed, StatusOf, LibraryType, StatusType

LEMMA JudgedInit == Init => JudgedInv
  <1> SUFFICES ASSUME Init PROVE JudgedInv
    OBVIOUS
  <1>1. lib = Absent /\ cLib = Absent /\ copy = Absent /\ read = Absent
    BY DEF Init
  <1>2. TypeOK
    BY <1>1, AbsentFacts DEF Init, TypeOK
  <1>3. lib.status.observed <= lib.generation /\ ObservedMeansJudged
    BY <1>1, AbsentFacts DEF ObservedMeansJudged
  <1> QED
    BY <1>2, <1>3 DEF Init, JudgedInv

\* Every step keeps the invariant; the write does so because it reaches exactly
\* the version it was computed for.
LEMMA JudgedStep == JudgedInv /\ [Next]_vars => JudgedInv'
  <1> SUFFICES ASSUME JudgedInv, [Next]_vars PROVE JudgedInv'
    OBVIOUS
  <1> USE AbsentFacts DEF JudgedInv
  <1>1. CASE Begin
    <2>1. CASE Found(cLib)
      BY <1>1, <2>1, ComputedType DEF Begin, Found, TypeOK, ObservedMeansJudged
    <2>2. CASE ~Found(cLib)
      BY <1>1, <2>2 DEF Begin, TypeOK, ObservedMeansJudged
    <2> QED
      BY <2>1, <2>2
  <1>2. CASE UpdateStatus
    <2>1. CASE Accepts
      <3>1. copy.status = StatusOf(lib) /\ StatusOf(lib) \in StatusType
        BY <1>2, <2>1, ComputedType DEF UpdateStatus, Accepts, TypeOK, LibraryType, StatusOf, StatusType
      <3>2. lib' = [lib EXCEPT !.status = StatusOf(lib)]
        BY <1>2, <2>1, <3>1 DEF UpdateStatus
      <3>3. /\ lib' \in LibraryType /\ lib'.generation = lib.generation
            /\ lib'.filled = lib.filled /\ lib'.status = StatusOf(lib)
        BY <3>1, <3>2 DEF TypeOK, LibraryType
      <3>4. TypeOK'
        BY <1>2, <2>1, <3>3 DEF UpdateStatus, Return, TypeOK
      <3>5. lib'.status.observed <= lib'.generation /\ ObservedMeansJudged'
        BY <3>3 DEF StatusOf, ObservedMeansJudged, TypeOK, LibraryType
      <3> QED
        BY <1>2, <3>4, <3>5 DEF UpdateStatus, Return
    <2>2. CASE ~Accepts
      BY <1>2, <2>2 DEF UpdateStatus, Return, TypeOK, ObservedMeansJudged
    <2> QED
      BY <2>1, <2>2
  <1>3. CASE CallFails
    BY <1>3 DEF CallFails, Return, TypeOK, ObservedMeansJudged
  <1>4. CASE Restart
    <2>1. /\ lib' = lib /\ lastUid' = lastUid /\ edits' = edits /\ faults' = faults + 1
          /\ cLib' = lib /\ copy' = Absent /\ read' = Absent /\ pc' = "idle"
      BY <1>4 DEF Restart
    <2>2. dirty' \in BOOLEAN /\ timer' \in BOOLEAN
      BY <1>4 DEF Restart
    <2> QED
      BY <2>1, <2>2 DEF TypeOK, ObservedMeansJudged
  <1>5. CASE TimerFires
    BY <1>5 DEF TimerFires, TypeOK, ObservedMeansJudged
  <1>6. CASE Deliver
    BY <1>6 DEF Deliver, TypeOK, ObservedMeansJudged
  <1>7. ASSUME NEW filled \in BOOLEAN, CreateLibrary(filled) PROVE JudgedInv'
    <2>1. /\ lib' \in LibraryType /\ lib'.generation = 1 /\ lib'.status.observed = 0
      <3>1. lib' = [uid |-> lastUid + 1, generation |-> 1, filled |-> filled,
                    status |-> Absent.status]
        BY <1>7 DEF CreateLibrary, Absent
      <3>2. lastUid + 1 \in Nat /\ Absent.status \in StatusType
        BY DEF TypeOK, LibraryType
      <3> QED
        BY <3>1, <3>2 DEF LibraryType
    <2> QED
      BY <1>7, <2>1 DEF CreateLibrary, TypeOK, ObservedMeansJudged
  <1>8. ASSUME NEW filled \in BOOLEAN, UpdateLibrary(filled) PROVE JudgedInv'
    <2>1. /\ lib' \in LibraryType /\ lib'.generation = lib.generation + 1
          /\ lib'.status = lib.status /\ lib.generation \in Nat
          /\ lib.status.observed \in Nat
      <3>1. lib' = [uid |-> lib.uid, generation |-> lib.generation + 1,
                    filled |-> filled, status |-> lib.status]
        BY <1>8 DEF UpdateLibrary, TypeOK, LibraryType
      <3>2. lib.uid \in Nat /\ lib.generation \in Nat /\ lib.status \in StatusType
        BY DEF TypeOK, LibraryType
      <3> QED
        BY <3>1, <3>2 DEF LibraryType, StatusType
    <2> QED
      BY <1>8, <2>1 DEF UpdateLibrary, TypeOK, ObservedMeansJudged
  <1>9. CASE DeleteLibrary
    <2>1. lib' = Absent /\ Absent.uid = 0 /\ Absent.status.observed <= Absent.generation
      BY <1>9 DEF DeleteLibrary
    <2> QED
      BY <1>9, <2>1 DEF DeleteLibrary, TypeOK, ObservedMeansJudged
  <1>10. CASE UNCHANGED vars
    BY <1>10 DEF vars, TypeOK, ObservedMeansJudged
  <1> QED
    BY <1>1, <1>2, <1>3, <1>4, <1>5, <1>6, <1>7, <1>8, <1>9, <1>10 DEF Next, Reconcile

\* The inductive invariant holds.
THEOREM JudgedInvariant == Spec => []JudgedInv
  BY JudgedInit, JudgedStep, PTL DEF Spec

\* Every variable of the library controller keeps its type, and the worker
\* writes only for a library it found.
THEOREM LibraryTypeCorrect == Spec => []TypeOK
  <1>1. JudgedInv => TypeOK
    BY DEF JudgedInv
  <1> QED
    BY <1>1, JudgedInvariant, PTL

\* An up-to-date observedGeneration vouches for the Valid condition, in every
\* order of edits, deletions, stale reads and conflicting writes.
THEOREM ObservedMeansJudgedTheorem == Spec => []ObservedMeansJudged
  <1>1. JudgedInv => ObservedMeansJudged
    BY DEF JudgedInv
  <1> QED
    BY <1>1, JudgedInvariant, PTL

\* A write is accepted only for the version it was computed from, and that
\* version's status is not ahead of its generation.
LEMMA ObservedStep ==
    JudgedInv /\ [Next]_vars =>
        [lib'.uid = lib.uid => lib'.status.observed >= lib.status.observed]_vars
  <1> SUFFICES ASSUME JudgedInv, Next, lib'.uid = lib.uid
               PROVE  lib'.status.observed >= lib.status.observed
    BY DEF JudgedInv, TypeOK, LibraryType, StatusType
  <1>1. CASE UpdateStatus
    <2>1. CASE Accepts
      <3>1. copy.status.observed = lib.generation
        <4>1. copy = Computed(lib) /\ lib \in LibraryType
          BY <1>1, <2>1 DEF UpdateStatus, Accepts, JudgedInv, TypeOK
        <4>2. copy.status = StatusOf(lib)
          BY <4>1, ComputedType
        <4> QED
          BY <4>2 DEF StatusOf
      <3>2. lib'.status = copy.status
        BY <1>1, <2>1 DEF UpdateStatus, JudgedInv, TypeOK, LibraryType
      <3> QED
        BY <3>1, <3>2 DEF JudgedInv, TypeOK, LibraryType, StatusType
    <2>2. CASE ~Accepts
      BY <1>1, <2>2 DEF UpdateStatus, JudgedInv, TypeOK, LibraryType, StatusType
    <2> QED
      BY <2>1, <2>2
  <1>2. ASSUME NEW filled \in BOOLEAN, CreateLibrary(filled) PROVE lib'.uid # lib.uid
    BY <1>2 DEF CreateLibrary, Absent, JudgedInv, TypeOK
  <1>3. ASSUME NEW filled \in BOOLEAN, UpdateLibrary(filled)
        PROVE  lib'.status.observed >= lib.status.observed
    BY <1>3 DEF UpdateLibrary, JudgedInv, TypeOK, LibraryType, StatusType
  <1>4. CASE DeleteLibrary
    BY <1>4 DEF DeleteLibrary, Absent
  <1>5. CASE Begin \/ CallFails \/ Restart \/ TimerFires \/ Deliver
    <2>1. lib' = lib
      BY <1>5 DEF Begin, CallFails, Restart, TimerFires, Deliver
    <2>2. lib.status.observed \in Nat
      BY DEF JudgedInv, TypeOK, LibraryType, StatusType
    <2> QED
      BY <2>1, <2>2
  <1> QED
    BY <1>1, <1>2, <1>3, <1>4, <1>5 DEF Next, Reconcile

\* observedGeneration never goes back within an incarnation, whichever version of
\* the library the reconcile read.
THEOREM ObservedNeverRegressesTheorem == Spec => ObservedNeverRegresses
  BY ObservedStep, JudgedInvariant, PTL DEF Spec, ObservedNeverRegresses

-----------------------------------------------------------------------------
\* The library controller keeps its promises next to the monitor controller.

\* A step of the two is one of the library controller's, or touches no more of
\* its state than the bounds.
LEMMA FanoutSteps ==
    ASSUME [FanoutNext]_fanoutVars
    PROVE  \/ [Next]_vars
           \/ /\ UNCHANGED <<lib, lastUid, cLib, dirty, timer, pc, copy, read>>
              /\ \/ edits' = edits + 1 /\ UNCHANGED faults
                 \/ faults' = faults + 1 /\ UNCHANGED edits
  BY DEF FanoutNext, fanoutVars, LibraryActs, DeliverLibrary, RestartBoth,
         ApplyMonitor, MonitorFails, BeginMonitor, RetryFires, DeliverMonitor,
         EditMonitor, Next

LEMMA JudgedFanoutStep ==
    JudgedInv /\ [FanoutNext]_fanoutVars =>
        /\ JudgedInv'
        /\ [lib'.uid = lib.uid => lib'.status.observed >= lib.status.observed]_vars
  <1> SUFFICES ASSUME JudgedInv, [FanoutNext]_fanoutVars
               PROVE  /\ JudgedInv'
                      /\ [lib'.uid = lib.uid =>
                              lib'.status.observed >= lib.status.observed]_vars
    OBVIOUS
  <1>1. CASE [Next]_vars
    BY <1>1, JudgedStep, ObservedStep
  <1>2. CASE /\ UNCHANGED <<lib, lastUid, cLib, dirty, timer, pc, copy, read>>
             /\ \/ edits' = edits + 1 /\ UNCHANGED faults
                \/ faults' = faults + 1 /\ UNCHANGED edits
    <2>1. lib.status.observed \in Nat
      BY DEF JudgedInv, TypeOK, LibraryType, StatusType
    <2>2. TypeOK'
      BY <1>2 DEF JudgedInv, TypeOK
    <2>3. ObservedMeansJudged'
      BY <1>2 DEF JudgedInv, ObservedMeansJudged
    <2> QED
      BY <1>2, <2>1, <2>2, <2>3 DEF JudgedInv
  <1> QED
    BY <1>1, <1>2, FanoutSteps

\* The type invariant, the meaning of observedGeneration and its order hold of the
\* library whatever the monitors do beside it.
THEOREM FanoutKeepsLibrary ==
    FanoutSpec => []TypeOK /\ []ObservedMeansJudged /\ ObservedNeverRegresses
  <1>1. FanoutInit => JudgedInv
    BY JudgedInit DEF FanoutInit
  <1>2. JudgedInv => TypeOK /\ ObservedMeansJudged
    BY DEF JudgedInv
  <1> QED
    BY <1>1, <1>2, JudgedFanoutStep, PTL DEF FanoutSpec, ObservedNeverRegresses

-----------------------------------------------------------------------------
(***************************************************************************)
(* No wake-up is lost.  The invariant is about what the controller can see *)
(* itself: a monitor that is not due has in its ConfigMap, or is about to  *)
(* get, what the caches say.  An event then closes the gap between a cache *)
(* and the API server, and queues the monitors it concerns.                *)
(***************************************************************************)
\* What a reconcile of m would resolve now.
Resolves(m) == IF m \in cWants THEN Version(cLib) ELSE None

Served(m) ==
    /\ m \in cWants => Found(cLib)
    /\ IF job.monitor = m THEN job.version = Resolves(m) ELSE built[m] = Resolves(m)

WakeupInv ==
    /\ DOMAIN built = Monitors
    /\ job = Idle \/ job.monitor \in Monitors
    /\ \A m \in Monitors : m \in queue \cup later \/ Served(m)

\* A cached list is out of date only while the monitor's event is on its way.
ListsInv == \A m \in Monitors : m \in pending \/ (m \in cWants <=> m \in wants)

LEMMA ListsStep == ListsInv /\ [FanoutNext]_fanoutVars => ListsInv'
  <1> SUFFICES ASSUME ListsInv, [FanoutNext]_fanoutVars PROVE ListsInv'
    OBVIOUS
  <1>1. CASE LibraryActs \/ DeliverLibrary \/ MonitorFails \/ UNCHANGED fanoutVars
    BY <1>1 DEF LibraryActs, DeliverLibrary, MonitorFails, fanoutVars, monitorVars,
                ListsInv
  <1>2. CASE RestartBoth
    BY <1>2 DEF RestartBoth, ListsInv
  <1>3. CASE ApplyMonitor
    BY <1>3 DEF ApplyMonitor, PatchStatus, ListsInv
  <1>4. ASSUME NEW m \in Monitors,
               BeginMonitor(m) \/ RetryFires(m) \/ DeliverMonitor(m) \/ EditMonitor(m)
        PROVE  ListsInv'
    BY <1>4 DEF BeginMonitor, RetryFires, DeliverMonitor, EditMonitor, PatchStatus,
                ListsInv
  <1> QED
    BY <1>1, <1>2, <1>3, <1>4 DEF FanoutNext

LEMMA IdleFacts ==
    Idle.monitor = NoMonitor /\ \A m \in Monitors : m # NoMonitor
  BY FanoutAssumption DEF Idle

LEMMA WakeupInit == FanoutInit => WakeupInv
  BY DEF FanoutInit, WakeupInv

\* Whether a monitor is served depends on its own job, its ConfigMap and the caches.
LEMMA ServedKept ==
    ASSUME NEW m, Served(m), cLib' = cLib, m \in cWants' <=> m \in cWants,
           \/ job' = job /\ built'[m] = built[m]
           \/ job.monitor # m /\ job'.monitor # m /\ built'[m] = built[m]
    PROVE  Served(m)'
  BY DEF Served, Resolves, Found, Version, None, Absent

\* Every step that makes what a monitor has out of date queues the monitor.
LEMMA WakeupStep == WakeupInv /\ [FanoutNext]_fanoutVars => WakeupInv'
  <1> SUFFICES ASSUME WakeupInv, [FanoutNext]_fanoutVars PROVE WakeupInv'
    OBVIOUS
  <1> USE IdleFacts
  <1>1. CASE UNCHANGED <<cLib, cWants, built, queue, later, job>>
    BY <1>1, ServedKept DEF WakeupInv
  <1>2. CASE LibraryActs
    BY <1>1, <1>2 DEF LibraryActs, monitorVars, Reconcile, Begin, UpdateStatus,
                      CallFails, TimerFires, DeleteLibrary, CreateLibrary, UpdateLibrary
  <1>3. CASE DeliverLibrary
    <2>1. /\ queue' = queue \cup cWants /\ UNCHANGED <<cWants, built, later, job>>
      BY <1>3 DEF DeliverLibrary, LibraryToMonitors
    <2>2. ASSUME NEW m \in Monitors, m \notin queue \cup later, m \notin cWants
          PROVE  Served(m)'
      BY <2>1, <2>2 DEF WakeupInv, Served, Resolves, None, Version, Absent
    <2> QED
      BY <2>1, <2>2 DEF WakeupInv
  <1>4. CASE RestartBoth
    BY <1>4 DEF RestartBoth, WakeupInv
  <1>5. CASE ApplyMonitor
    <2>1. /\ job.monitor \in Monitors /\ job' = Idle
          /\ built' = [built EXCEPT ![job.monitor] = job.version]
          /\ later \subseteq later' /\ UNCHANGED <<cLib, cWants, queue>>
      BY <1>5 DEF ApplyMonitor, WakeupInv, vars
    <2>2. ASSUME NEW m \in Monitors, Served(m) PROVE Served(m)'
      <3>1. CASE m = job.monitor
        <4>1. built'[m] = job.version /\ job'.monitor # m
          BY <2>1, <3>1 DEF WakeupInv
        <4> QED
          BY <2>1, <2>2, <3>1, <4>1
          DEF Served, Resolves, Found, None, Version, Absent
      <3>2. CASE m # job.monitor
        BY <2>1, <2>2, <3>2, ServedKept DEF WakeupInv
      <3> QED
        BY <3>1, <3>2
    <2> QED
      BY <2>1, <2>2 DEF WakeupInv
  <1>6. CASE MonitorFails
    <2>1. /\ later' = later \cup {job.monitor} /\ job' = Idle
          /\ built' \in {built, [built EXCEPT ![job.monitor] = job.version]}
          /\ UNCHANGED <<cLib, cWants, queue>>
      BY <1>6 DEF MonitorFails
    <2>2. DOMAIN built' = Monitors
      BY <2>1 DEF WakeupInv
    <2>3. ASSUME NEW m \in Monitors, m # job.monitor, Served(m) PROVE Served(m)'
      <3>1. built'[m] = built[m]
        BY <2>1, <2>3 DEF WakeupInv
      <3> QED
        BY <2>1, <2>3, <3>1, ServedKept
    <2> QED
      BY <2>1, <2>2, <2>3 DEF WakeupInv
  <1>7. ASSUME NEW m \in Monitors, BeginMonitor(m) PROVE WakeupInv'
    <2>1. /\ job = Idle /\ queue' = queue \ {m}
          /\ UNCHANGED <<cLib, cWants, built>>
      BY <1>7 DEF BeginMonitor, vars
    <2>2. CASE m \in cWants /\ ~Found(cLib)
      <3>1. later' = later \cup {m} /\ UNCHANGED job
        BY <1>7, <2>2 DEF BeginMonitor, Retry
      <3> QED
        BY <2>1, <3>1, ServedKept DEF WakeupInv
    <2>3. CASE ~(m \in cWants /\ ~Found(cLib))
      <3>1. /\ job'.monitor = m /\ job'.version = Resolves(m) /\ UNCHANGED later
        BY <1>7, <2>3 DEF BeginMonitor, Resolves
      <3>2. Served(m)'
        BY <2>1, <2>3, <3>1 DEF Served, Resolves, Found, None, Version, Absent
      <3>3. ASSUME NEW l \in Monitors \ {m}, Served(l) PROVE Served(l)'
        BY <2>1, <3>1, <3>3, ServedKept
      <3> QED
        BY <2>1, <3>1, <3>2, <3>3 DEF WakeupInv
    <2> QED
      BY <2>2, <2>3
  <1>8. ASSUME NEW m \in Monitors, RetryFires(m) PROVE WakeupInv'
    <2>1. /\ later' = later \ {m} /\ queue' = queue \cup {m}
          /\ UNCHANGED <<cLib, cWants, built, job>>
      BY <1>8 DEF RetryFires, vars
    <2> QED
      BY <2>1, ServedKept DEF WakeupInv
  <1>9. ASSUME NEW m \in Monitors, DeliverMonitor(m) PROVE WakeupInv'
    <2>1. /\ queue' = queue \cup {m} /\ UNCHANGED <<cLib, built, later, job>>
          /\ \A l \in Monitors \ {m} : l \in cWants' <=> l \in cWants
      BY <1>9 DEF DeliverMonitor, vars
    <2>2. ASSUME NEW l \in Monitors \ {m}, Served(l) PROVE Served(l)'
      BY <2>1, <2>2, ServedKept
    <2> QED
      BY <2>1, <2>2 DEF WakeupInv
  <1>10. ASSUME NEW m \in Monitors, EditMonitor(m) PROVE WakeupInv'
    BY <1>1, <1>10 DEF EditMonitor
  <1>11. CASE UNCHANGED fanoutVars
    BY <1>1, <1>11 DEF fanoutVars, vars, monitorVars
  <1> QED
    BY <1>2, <1>3, <1>4, <1>5, <1>6, <1>7, <1>8, <1>9, <1>10, <1>11 DEF FanoutNext

\* However the edits of the library and of the monitors' lists cross with stale
\* reads, failing calls and restarts, a monitor that is out of date is going to be
\* reconciled again.
THEOREM NoLostWakeupTheorem == FanoutSpec => []NoLostWakeup
  <1>1. WakeupInv /\ ListsInv => NoLostWakeup
    <2> SUFFICES ASSUME WakeupInv, NEW m \in Monitors,
                        m \notin queue \cup later, job.monitor # m,
                        m \in cWants <=> m \in wants, m \in wants => cLib = lib
                 PROVE  IF m \in wants THEN lib.uid # 0 /\ built[m] = Version(lib)
                                       ELSE built[m] = None
      BY DEF NoLostWakeup, ListsInv
    <2>1. Served(m)
      BY DEF WakeupInv
    <2> QED
      BY <2>1 DEF Served, Resolves, Found
  <1>2. FanoutInit => ListsInv
    BY DEF FanoutInit, ListsInv
  <1> QED
    BY <1>1, <1>2, WakeupInit, WakeupStep, ListsStep, PTL DEF FanoutSpec
=============================================================================
