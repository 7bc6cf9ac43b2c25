-------------------------- MODULE LibraryReconciler --------------------------
(***************************************************************************)
(* The PgpilotMetricLibrary controller                                     *)
(* (internal/controller/pgpilotmetriclibrary_controller.go): it keeps the  *)
(* Valid condition and observedGeneration of one library up to date.  The  *)
(* library is read from a cache that lags and written with                 *)
(* Status().Update, which the API server refuses unless the object is      *)
(* still the one that was read.  A resourceVersion stands for a state of   *)
(* the object, and writing what is already there changes nothing.          *)
(***************************************************************************)
EXTENDS Naturals

CONSTANTS
    MaxUid,     \* bound: incarnations of the library
    MaxEdits,   \* bound: changes made by users
    MaxFaults   \* bound: failed API calls and operator restarts

ASSUME LibraryAssumption == {MaxUid, MaxEdits, MaxFaults} \subseteq Nat

VARIABLES
    lib,      \* the library in the API server
    lastUid,  \* the last uid the API server assigned
    cLib,     \* the operator's cache
    dirty,    \* the key is in the work queue
    timer,    \* the key waits for a rate-limited retry
    pc,       \* "idle" or "update"
    copy,     \* Reconcile's in-memory copy, its status filled in
    read,     \* the library as Reconcile read it (its resourceVersion)
    edits, faults

vars == <<lib, lastUid, cLib, dirty, timer, pc, copy, read, edits, faults>>

\* An absent library has uid 0.  valid is the Valid condition.
\* The CRD as shipped admits no empty library; the code judges one all the same.
Absent == [uid |-> 0, generation |-> 0, filled |-> FALSE,
           status |-> [observed |-> 0, valid |-> "unset", validGen |-> 0]]

Init ==
    /\ lib = Absent /\ lastUid = 0 /\ cLib = Absent
    /\ dirty = FALSE /\ timer = FALSE
    /\ pc = "idle" /\ copy = Absent /\ read = Absent
    /\ edits = 0 /\ faults = 0

-----------------------------------------------------------------------------
\* The worker.

\* Mutant: the status of an empty library is written without its generation.
StatusForgetting(l) ==
    [observed |-> IF l.filled THEN l.generation ELSE 0,
     valid |-> IF l.filled THEN "True" ELSE "False", validGen |-> l.generation]

\* The status Reconcile computes for a library; filled is len(Spec.Metrics) > 0.
StatusOf(l) ==
    [observed |-> l.generation,
     valid |-> IF l.filled THEN "True" ELSE "False", validGen |-> l.generation]

Computed(l) == [l EXCEPT !.status = StatusOf(l)]

\* Mutant: an error is not retried.
ReturnForgetting(failed) ==
    /\ pc' = "idle" /\ copy' = Absent /\ read' = Absent
    /\ timer' = timer

Return(failed) ==
    /\ pc' = "idle" /\ copy' = Absent /\ read' = Absent
    /\ timer' = (timer \/ failed)

\* Mutant: the error of Get is not looked at.
FoundAlways(l) == TRUE

Found(l) == l.uid # 0

\* Get; a library that is not found is ignored.
Begin ==
    /\ pc = "idle" /\ dirty
    /\ dirty' = FALSE
    /\ IF Found(cLib)
       THEN pc' = "update" /\ copy' = Computed(cLib) /\ read' = cLib
       ELSE UNCHANGED <<pc, copy, read>>
    /\ UNCHANGED <<lib, lastUid, cLib, timer, edits, faults>>

\* Mutant: the write does not carry the resourceVersion it read.
AcceptsAnyVersion == lib.uid # 0

\* The API server accepts the write: it is made to the version that was read.
Accepts == lib = read

\* Status().Update writes the status only.
UpdateStatus ==
    /\ pc = "update"
    /\ lib' = IF Accepts THEN [lib EXCEPT !.status = copy.status] ELSE lib
    /\ Return(~Accepts)
    /\ UNCHANGED <<lastUid, cLib, dirty, edits, faults>>

CallFails ==
    /\ pc = "update" /\ faults < MaxFaults
    /\ faults' = faults + 1
    /\ Return(TRUE)
    /\ UNCHANGED <<lib, lastUid, cLib, dirty, edits>>

\* A new process lists the libraries and queues each one.
Restart ==
    /\ faults < MaxFaults
    /\ faults' = faults + 1
    /\ cLib' = lib /\ dirty' = (lib.uid # 0) /\ timer' = FALSE
    /\ pc' = "idle" /\ copy' = Absent /\ read' = Absent
    /\ UNCHANGED <<lib, lastUid, edits>>

TimerFires ==
    /\ timer
    /\ timer' = FALSE /\ dirty' = TRUE
    /\ UNCHANGED <<lib, lastUid, cLib, pc, copy, read, edits, faults>>

\* For(&PgpilotMetricLibrary{}), without predicates.
Deliver ==
    /\ cLib # lib
    /\ cLib' = lib /\ dirty' = TRUE
    /\ UNCHANGED <<lib, lastUid, timer, pc, copy, read, edits, faults>>

-----------------------------------------------------------------------------
\* Users.

CreateLibrary(filled) ==
    /\ lib.uid = 0 /\ lastUid < MaxUid /\ edits < MaxEdits
    /\ edits' = edits + 1 /\ lastUid' = lastUid + 1
    /\ lib' = [Absent EXCEPT !.uid = lastUid', !.generation = 1, !.filled = filled]
    /\ UNCHANGED <<cLib, dirty, timer, pc, copy, read, faults>>

UpdateLibrary(filled) ==
    /\ lib.uid # 0 /\ edits < MaxEdits
    /\ edits' = edits + 1
    /\ lib' = [lib EXCEPT !.generation = lib.generation + 1, !.filled = filled]
    /\ UNCHANGED <<lastUid, cLib, dirty, timer, pc, copy, read, faults>>

DeleteLibrary ==
    /\ lib.uid # 0 /\ edits < MaxEdits
    /\ edits' = edits + 1
    /\ lib' = Absent
    /\ UNCHANGED <<lastUid, cLib, dirty, timer, pc, copy, read, faults>>

Reconcile == Begin \/ UpdateStatus

Next ==
    \/ Reconcile \/ CallFails \/ Restart \/ TimerFires \/ Deliver
    \/ \E filled \in BOOLEAN : CreateLibrary(filled) \/ UpdateLibrary(filled)
    \/ DeleteLibrary

Spec == Init /\ [][Next]_vars

\* The worker, the watch and the retry timer keep going.
FairSpec == Spec /\ WF_vars(Reconcile) /\ WF_vars(TimerFires) /\ WF_vars(Deliver)

-----------------------------------------------------------------------------
\* What the status promises.

StatusType == [observed : Nat, valid : {"unset", "True", "False"}, validGen : Nat]
LibraryType == [uid : Nat, generation : Nat, filled : BOOLEAN, status : StatusType]

\* Every variable ranges over what the API types allow, and the worker holds a
\* library exactly while it is about to write its status.
TypeOK ==
    /\ lib \in LibraryType /\ cLib \in LibraryType
    /\ copy \in LibraryType /\ read \in LibraryType
    /\ lastUid \in Nat /\ edits \in Nat /\ faults \in Nat
    /\ dirty \in BOOLEAN /\ timer \in BOOLEAN
    /\ pc \in {"idle", "update"} /\ (pc = "update" <=> read.uid # 0)

\* Neither a stale read nor a library created again under the same name takes
\* the status of an incarnation back to an older generation, in contrast to the
\* monitor's patchStatus.
ObservedNeverRegresses ==
    [][lib'.uid = lib.uid => lib'.status.observed >= lib.status.observed]_vars

\* An observedGeneration that is up to date vouches for the Valid condition: it
\* tells whether the library that is there now has metrics.
ObservedMeansJudged ==
    lib.uid # 0 /\ lib.status.observed = lib.generation =>
        lib.status.valid = (IF lib.filled THEN "True" ELSE "False")

\* Once users leave it alone, the status of a library is up to date for good and
\* the controller is at rest: its own status writes do not keep it going.
SettlesDown ==
    <>[](/\ lib.uid # 0 => lib.status = StatusOf(lib)
         /\ pc = "idle" /\ ~dirty /\ ~timer)
=============================================================================
