---------------------------- MODULE ManagersProofs ----------------------------
(***************************************************************************)
(* The finalizer protects a monitor from any number of operator processes. *)
(***************************************************************************)
EXTENDS Managers, TLAPS

MonitorType ==
    [uid : Nat, gen : Nat, fin : BOOLEAN, deleting : BOOLEAN, observed : Nat]

\* Every uid in use was assigned.
UidsAssigned ==
    /\ lastUid \in Nat /\ mon \in MonitorType /\ mon.uid <= lastUid
    /\ child \in [owner : Nat, gen : Nat] /\ child.owner <= lastUid
    /\ cMon \in [Procs -> MonitorType] /\ \A p \in Procs : cMon[p].uid <= lastUid
    /\ copy \in [Procs -> MonitorType] /\ \A p \in Procs : copy[p].uid <= lastUid

\* The finalizer stays with an incarnation: whoever has seen it there, in a cache
\* or in a worker's copy, however old, can rely on it.
FinalizerSeen(m) == m.fin /\ m.uid = mon.uid /\ mon.uid # 0 => mon.fin

\* A worker that applies or reports does so for a monitor it saw with the finalizer.
WorkersHold ==
    /\ pc = [p \in Procs |-> pc[p]]
    /\ \A p \in Procs : pc[p] \in {"apply", "report"} => copy[p].fin

HoldInv ==
    /\ UidsAssigned /\ WorkersHold /\ OwnersHold
    /\ \A p \in Procs : FinalizerSeen(cMon[p]) /\ FinalizerSeen(copy[p])

LEMMA AbsentType == Absent \in MonitorType /\ Absent.uid = 0 /\ Absent.fin = FALSE
  BY DEF Absent, MonitorType

LEMMA MonitorOfFields ==
    ASSUME NEW u \in Nat, NEW g \in Nat, NEW f \in BOOLEAN, NEW d \in BOOLEAN, NEW o \in Nat
    PROVE  [uid |-> u, gen |-> g, fin |-> f, deleting |-> d, observed |-> o] \in MonitorType
  BY DEF MonitorType

LEMMA HoldInit == Init => HoldInv
  <1> SUFFICES ASSUME Init PROVE HoldInv
    OBVIOUS
  <1>1. UidsAssigned
    BY AbsentType DEF Init, UidsAssigned, NoChild
  <1> QED
    BY <1>1, AbsentType DEF Init, HoldInv, WorkersHold, OwnersHold, FinalizerSeen, NoChild

\* What a write makes of the monitor and its child: the incarnation keeps its uid
\* and its finalizer or goes, and a child is made only for one with a finalizer.
LEMMA WriteKeeps ==
    ASSUME HoldInv, NEW p \in Procs, Accepted(p), Write(p), lastUid' = lastUid
    PROVE  /\ mon' \in MonitorType /\ mon'.uid <= lastUid
           /\ child' \in [owner : Nat, gen : Nat] /\ child'.owner <= lastUid
           /\ mon' = Absent \/ (mon'.uid = mon.uid /\ (mon.fin => mon'.fin))
           /\ OwnersHold'
           /\ pc[p] = "addFinalizer" => mon'.fin
  <1> USE DEF HoldInv, UidsAssigned
  <1>1. CASE pc[p] = "addFinalizer"
    <2>1. mon' = [mon EXCEPT !.fin = TRUE] /\ child' = child
      BY <1>1 DEF Write
    <2> QED
      BY <2>1, <1>1 DEF MonitorType, OwnersHold
  <1>2. CASE pc[p] = "removeFinalizer"
    <2>1. mon' = Absent /\ child' = child
      BY <1>2 DEF Write
    <2> QED
      BY <2>1, <1>2, AbsentType DEF OwnersHold
  <1>3. CASE pc[p] = "apply"
    <2>1. mon' = mon /\ child' = [owner |-> copy[p].uid, gen |-> copy[p].gen]
      BY <1>3 DEF Write
    <2>2. copy[p] \in MonitorType /\ copy[p].uid <= lastUid /\ copy[p].fin
          /\ FinalizerSeen(copy[p])
      BY <1>3 DEF WorkersHold
    <2> QED
      BY <2>1, <2>2, <1>3 DEF MonitorType, OwnersHold, FinalizerSeen
  <1>4. CASE pc[p] = "report"
    <2>1. mon' = [mon EXCEPT !.observed = copy[p].gen] /\ child' = child
      BY <1>4 DEF Write
    <2> QED
      BY <2>1, <1>4 DEF MonitorType, OwnersHold
  <1> QED
    BY <1>1, <1>2, <1>3, <1>4 DEF Write

\* A change of the monitor that keeps its uid and its finalizer, or removes it,
\* keeps what was seen of it.
LEMMA SeenKept ==
    ASSUME NEW m, FinalizerSeen(m),
           mon' = Absent \/ (mon'.uid = mon.uid /\ (mon.fin => mon'.fin))
    PROVE  m.fin /\ m.uid = mon'.uid /\ mon'.uid # 0 => mon'.fin
  BY AbsentType DEF FinalizerSeen

LEMMA HoldStep == HoldInv /\ [Next]_vars => HoldInv'
  <1> SUFFICES ASSUME HoldInv, [Next]_vars PROVE HoldInv'
    OBVIOUS
  <1> USE DEF HoldInv
  <1>1. ASSUME NEW p \in Procs, Begin(p) PROVE HoldInv'
    <2>1. /\ pc' = [pc EXCEPT ![p] = Entry(cMon[p])]
          /\ copy' = [copy EXCEPT ![p] = IF pc'[p] = "idle" THEN Absent ELSE cMon[p]]
          /\ UNCHANGED <<mon, lastUid, child, cMon>>
      BY <1>1 DEF Begin, clusterVars
    <2>2. copy'[p] = cMon[p] \/ copy'[p] = Absent
      BY <2>1 DEF UidsAssigned
    <2>3. Entry(cMon[p]) \in {"apply", "report"} => cMon[p].fin
      BY DEF Entry
    <2>4. pc'[p] \in {"apply", "report"} => copy'[p] = cMon[p] /\ cMon[p].fin
      BY <2>1, <2>3 DEF UidsAssigned, WorkersHold
    <2>5. \A q \in Procs \ {p} : copy'[q] = copy[q] /\ pc'[q] = pc[q]
      BY <2>1 DEF UidsAssigned, WorkersHold
    <2>6. UidsAssigned'
      BY <2>1, <2>2, <2>5, AbsentType DEF UidsAssigned
    <2>7. WorkersHold'
      BY <2>1, <2>4, <2>5 DEF WorkersHold
    <2> QED
      BY <2>1, <2>2, <2>5, <2>6, <2>7, AbsentType DEF OwnersHold, FinalizerSeen
  <1>2. ASSUME NEW p \in Procs, WriteSucceeds(p) PROVE HoldInv'
    <2>1. Accepted(p) /\ Write(p) /\ UNCHANGED <<lastUid, cMon>>
      BY <1>2 DEF WriteSucceeds
    <2>2. \/ /\ pc[p] = "addFinalizer" /\ pc' = [pc EXCEPT ![p] = "apply"]
             /\ copy' = [copy EXCEPT ![p] = mon']
          \/ pc[p] = "apply" /\ pc' = [pc EXCEPT ![p] = "report"] /\ copy' = copy
          \/ pc' = [pc EXCEPT ![p] = "idle"] /\ copy' = [copy EXCEPT ![p] = Absent]
      BY <1>2 DEF WriteSucceeds, Return
    <2>3. /\ mon' \in MonitorType /\ mon'.uid <= lastUid
          /\ child' \in [owner : Nat, gen : Nat] /\ child'.owner <= lastUid
          /\ mon' = Absent \/ (mon'.uid = mon.uid /\ (mon.fin => mon'.fin))
          /\ OwnersHold'
          /\ pc[p] = "addFinalizer" => mon'.fin
      BY <2>1, WriteKeeps
    <2>4. UidsAssigned'
      BY <2>1, <2>2, <2>3, AbsentType DEF UidsAssigned
    <2>5. WorkersHold'
      BY <2>2, <2>3 DEF WorkersHold, UidsAssigned
    <2>6. \A q \in Procs : /\ FinalizerSeen(cMon[q])'
                           /\ copy'[q] \in {copy[q], mon', Absent}
      BY <2>1, <2>2, <2>3, SeenKept DEF UidsAssigned, FinalizerSeen
    <2>7. \A q \in Procs : FinalizerSeen(copy[q])'
      BY <2>3, <2>6, SeenKept, AbsentType DEF FinalizerSeen
    <2> QED
      BY <2>3, <2>4, <2>5, <2>6, <2>7
  <1>3. ASSUME NEW p \in Procs, Land(p) PROVE HoldInv'
    <2>1. /\ pc' = [pc EXCEPT ![p] = "idle"] /\ copy' = [copy EXCEPT ![p] = Absent]
          /\ UNCHANGED <<lastUid, cMon>>
          /\ (Accepted(p) /\ Write(p)) \/ UNCHANGED <<mon, child>>
      BY <1>3 DEF Land
    <2>2. /\ mon' \in MonitorType /\ mon'.uid <= lastUid
          /\ child' \in [owner : Nat, gen : Nat] /\ child'.owner <= lastUid
          /\ mon' = Absent \/ (mon'.uid = mon.uid /\ (mon.fin => mon'.fin))
          /\ OwnersHold'
      BY <2>1, WriteKeeps DEF UidsAssigned, OwnersHold
    <2>3. UidsAssigned'
      BY <2>1, <2>2, AbsentType DEF UidsAssigned
    <2>4. WorkersHold'
      BY <2>1 DEF WorkersHold, UidsAssigned
    <2>5. \A q \in Procs : FinalizerSeen(cMon[q])' /\ copy'[q] \in {copy[q], Absent}
      BY <2>1, <2>2, SeenKept DEF UidsAssigned, FinalizerSeen
    <2>6. \A q \in Procs : FinalizerSeen(copy[q])'
      BY <2>2, <2>5, SeenKept, AbsentType DEF FinalizerSeen
    <2> QED
      BY <2>2, <2>3, <2>4, <2>5, <2>6
  <1>4. ASSUME NEW p \in Procs, WriteRefused(p) \/ CallFails(p) PROVE HoldInv'
    <2>1. /\ pc' = [pc EXCEPT ![p] = "idle"] /\ copy' = [copy EXCEPT ![p] = Absent]
          /\ UNCHANGED <<mon, lastUid, child, cMon>>
      BY <1>4 DEF WriteRefused, CallFails, Return, clusterVars
    <2>2. UidsAssigned'
      BY <2>1, AbsentType DEF UidsAssigned
    <2>3. WorkersHold'
      BY <2>1 DEF WorkersHold, UidsAssigned
    <2>4. \A q \in Procs : copy'[q] \in {copy[q], Absent}
      BY <2>1 DEF UidsAssigned
    <2> QED
      BY <2>1, <2>2, <2>3, <2>4, AbsentType DEF OwnersHold, FinalizerSeen
  <1>5. ASSUME NEW p \in Procs, DeliverMonitor(p) \/ Replicate(p) PROVE HoldInv'
    <2>1. cMon' = [cMon EXCEPT ![p] = mon] /\ UNCHANGED <<mon, lastUid, child, pc, copy>>
      BY <1>5 DEF DeliverMonitor, Replicate, clusterVars, workerVars
    <2>2. UidsAssigned'
      BY <2>1 DEF UidsAssigned
    <2>3. \A q \in Procs : cMon'[q] \in {cMon[q], mon}
      BY <2>1 DEF UidsAssigned
    <2> QED
      BY <2>1, <2>2, <2>3 DEF WorkersHold, OwnersHold, FinalizerSeen
  <1>6. ASSUME NEW p \in Procs, DeliverChild(p) \/ Lead(p) \/ Exit(p) PROVE HoldInv'
    <2>1. UNCHANGED <<mon, lastUid, child, cMon, pc, copy>>
      BY <1>6 DEF DeliverChild, Lead, Exit, clusterVars, workerVars
    <2> QED
      BY <2>1 DEF UidsAssigned, WorkersHold, OwnersHold, FinalizerSeen
  <1>7. CASE Collect
    <2>1. child' = NoChild /\ UNCHANGED <<mon, lastUid, cMon, pc, copy>>
      BY <1>7 DEF Collect, workerVars
    <2>2. UidsAssigned'
      BY <2>1 DEF UidsAssigned, NoChild
    <2> QED
      BY <2>1, <2>2 DEF WorkersHold, OwnersHold, FinalizerSeen, NoChild
  <1>8. CASE UserActs
    <2>1. UNCHANGED <<child, cMon, pc, copy>>
      BY <1>8 DEF UserActs, workerVars
    <2>2. CASE CreateMonitor
      <3>1. /\ lastUid' = lastUid + 1 /\ mon'.uid = lastUid + 1
            /\ mon' \in MonitorType
        <4>1. lastUid' = lastUid + 1 /\ lastUid + 1 \in Nat
              /\ mon' = [Absent EXCEPT !.uid = lastUid + 1, !.gen = 1]
          BY <2>2 DEF CreateMonitor, UidsAssigned
        <4>2. mon' = [uid |-> lastUid + 1, gen |-> 1, fin |-> FALSE, deleting |-> FALSE,
                      observed |-> 0]
          BY <4>1 DEF Absent
        <4>3. mon' \in MonitorType
          <5> DEFINE u == lastUid + 1
          <5>1. u \in Nat /\ 1 \in Nat /\ 0 \in Nat
            BY <4>1
          <5>2. mon' = [uid |-> u, gen |-> 1, fin |-> FALSE, deleting |-> FALSE,
                        observed |-> 0]
            BY <4>2
          <5> HIDE DEF u
          <5> QED
            BY <5>1, <5>2 DEF MonitorType
        <4> QED
          BY <4>1, <4>2, <4>3
      <3>2. UidsAssigned'
        BY <2>1, <3>1 DEF UidsAssigned, MonitorType
      <3>3. \A q \in Procs : cMon'[q].uid # mon'.uid /\ copy'[q].uid # mon'.uid
        BY <2>1, <3>1 DEF UidsAssigned, MonitorType
      <3>4. child'.owner # mon'.uid
        BY <2>1, <3>1 DEF UidsAssigned
      <3> QED
        BY <2>1, <3>2, <3>3, <3>4 DEF WorkersHold, OwnersHold, FinalizerSeen
    <2>3. CASE UpdateMonitor \/ DeleteMonitor
      <3>1. /\ lastUid' = lastUid /\ mon' \in MonitorType /\ mon'.uid <= lastUid
            /\ mon' = Absent \/ (mon'.uid = mon.uid /\ (mon.fin => mon'.fin))
        <4>1. lastUid' = lastUid /\ mon \in MonitorType /\ mon.uid <= lastUid
              /\ 0 <= lastUid
          BY <2>3 DEF UpdateMonitor, DeleteMonitor, UidsAssigned
        <4>2. CASE mon' = Absent
          BY <4>1, <4>2, AbsentType
        <4>3. CASE mon' = [mon EXCEPT !.gen = @ + 1]
          BY <4>1, <4>3 DEF MonitorType
        <4>4. CASE mon' = [mon EXCEPT !.deleting = TRUE, !.gen = @ + 1]
          <5>1. mon' = [uid |-> mon.uid, gen |-> mon.gen + 1, fin |-> mon.fin,
                        deleting |-> TRUE, observed |-> mon.observed]
            BY <4>1, <4>4 DEF MonitorType
          <5>2. /\ mon.uid \in Nat /\ mon.gen + 1 \in Nat /\ mon.fin \in BOOLEAN
                /\ mon.observed \in Nat
            BY <4>1 DEF MonitorType
          <5>3. mon' \in MonitorType
            BY <5>1, <5>2, MonitorOfFields
          <5> QED
            BY <4>1, <5>1, <5>3
        <4> QED
          BY <2>3, <4>2, <4>3, <4>4 DEF UpdateMonitor, DeleteMonitor
      <3>2. UidsAssigned'
        BY <2>1, <3>1 DEF UidsAssigned
      <3>3. \A q \in Procs : FinalizerSeen(cMon[q])' /\ FinalizerSeen(copy[q])'
        BY <2>1, <3>1, SeenKept DEF FinalizerSeen
      <3>4. OwnersHold'
        BY <2>1, <3>1, AbsentType DEF OwnersHold
      <3> QED
        BY <2>1, <3>2, <3>3, <3>4 DEF WorkersHold
    <2> QED
      BY <1>8, <2>2, <2>3 DEF UserActs
  <1>9. CASE UNCHANGED vars
    BY <1>9 DEF vars, clusterVars, workerVars, UidsAssigned, WorkersHold, OwnersHold,
                FinalizerSeen
  <1> QED
    BY <1>1, <1>2, <1>3, <1>4, <1>5, <1>6, <1>7, <1>8, <1>9 DEF Next, Reconcile

\* However many processes work on a monitor, with or without an elected leader,
\* whatever they have cached and whichever requests arrive late: a monitor that
\* owns a child carries the finalizer.
THEOREM OwnersHoldTheorem == Spec => []OwnersHold
  <1>1. HoldInv => OwnersHold
    BY DEF HoldInv
  <1> QED
    BY <1>1, HoldInit, HoldStep, PTL DEF Spec
=============================================================================
