# Formal models of pgpilot-operator

TLA+ modules, TLC configurations and TLAPS proofs for the operator in this
repository. `MonitorReconciler` is the core; the other modules model the parts it
calls or stands beside. `PROJECT.json` maps every definition to source lines and
lists runs, mutants, hazards, findings and theorems.

    tlc -workers 2 -config MCLifecycle.cfg MCMonitor     # one run
    tlapm MonitorReconcilerProofs.tla                    # one proof module

## 1. Inventory

### The system

A user writes a `PgpilotMonitor` (a PostgreSQL database to watch) and, optionally,
`PgpilotMetricLibrary` objects (reusable metric definitions). The operator turns each
monitor into a ConfigMap, a Deployment of one pgwatch pod, a Service and, when
prometheus-operator is installed, a ServiceMonitor.

| Component | State it keeps | Operations |
|---|---|---|
| Monitor controller (`internal/controller/pgpilotmonitor_controller.go`) | work queue, informer caches, the reconcile in progress, `ServiceMonitorEnabled`; in the API server: finalizer, children, status | `Reconcile`, `validateCredentials`, `resolveLibraries`, `serverSideApply`, `patchStatus`, `setCondition`, `libraryToMonitors`, `SetupWithManager` |
| Library controller (`internal/controller/pgpilotmetriclibrary_controller.go`) | work queue, cache; in the API server: `Valid`, `observedGeneration` | `Reconcile`, `SetupWithManager` |
| Metric merge and rendering (`internal/builder/metrics_merge.go`, `configmap.go`) | the two maps `MergeMetrics` fills, the rendered files, their hash | `MergeMetrics`, `addMetric`, `BuildConfigMap`, `renderSources`, `renderMetrics`, `contentHash` |
| Workload builders (`internal/builder/deployment.go`, `service.go`, `servicemonitor.go`, `labels.go`) | none; what they build lives in the API server and in pods | `BuildDeployment`, `BuildService`, `BuildServiceMonitor`, label and annotation merges |
| Process start (`cmd/main.go`, `internal/builder/discovery.go`) | the one decision about ServiceMonitors, the lease | `HasServiceMonitorCRD`, manager set-up, leader election, exit |
| API types and CRD rules (`api/v1`) | - | defaulting and validation in the API server, JSON encoding in the client |
| pgwatch registry (`internal/builder`, embedded YAML) | data | lookup by preset and metric name |
| Helm chart, kustomize, generated code, tests | - | - |

### How the parts interact

* The two controllers never call each other. They share the API server: a library's
  event reaches the monitors that list it through `libraryToMonitors`, which searches
  the *cached* monitors.
* The monitor controller reads everything through caches (monitor, libraries, Secret,
  Deployment, pods) and writes to the API server. The monitor itself is written under
  optimistic concurrency; children by server-side apply with `ForceOwnership`, which
  never conflicts and carries no resourceVersion.
* `For`, `Owns` and `Watches` put a key into a queue that holds each key once; an error
  or `RequeueAfter` brings it back later. Secrets and pods are cached but not watched
  for.
* The operator writes the user's spec back once, in the `Update` that adds the
  finalizer: the document goes through the Go struct, its JSON tags, and the API
  server's defaulting and validation again.
* With `--leader-elect` one process works and others stand by; without it (the flag's
  default) every process works.
* The status is the only memory between reconciles (`configHash`, `ready`), and writing
  it is itself an event of the watched monitor.
* Kubernetes collects children whose owner uid is gone, runs pods from the Deployment,
  and reports readiness in the Deployment's status.

### What is hard

Stale reads (an object deleted and recreated under its name; the operator's own last
status write not yet in its cache), half-finished reconciles (crash or failed call
between two applies), lost or merged events, status written by overwriting, a decision
made once at start-up, a deposed leader's last request and its successor's first,
possibly old, lists, two controllers that wake each other, defaults kept both in the CRD
and in the builders, the order ConfigMap before rollout annotation, Go map iteration
on the way into a hash, truncation of durations, user labels that collide with the
operator's, and port changes that reach four objects one after the other. Each is listed
with its line under `hazards` in `PROJECT.json`.

### What makes each part correct

* Monitor controller: it works only for the incarnation that exists; the status claims
  no more than was applied; pgwatch restarts only once its new configuration is in
  place; it converges after any disturbance, goes quiet, and deletion completes. With
  several processes the finalizer still protects a monitor that owns objects, and the
  monitor still settles.
* Library controller: the `Valid` condition belongs to the generation the status names;
  the status never goes back; a library's content reaches every monitor that lists it;
  both controllers go quiet.
* Metric merge: pgwatch ends up collecting exactly the union the spec asks for, the last
  declaration winning; the hash is a function of the configuration.
* Workload: selectors never leave their monitor; a scrape reaches the listening port in
  every intermediate state; no edit makes a Deployment unacceptable to the API server;
  a new configuration changes the pod template; pgwatch is run as the user's document
  says, whoever fills in what it leaves out.

## 2. Modules

| Module | What it is |
|---|---|
| `Rollout` | abstract: what the monitor controller promises to someone who sees only the API server |
| `MonitorReconciler` | the monitor controller against the Kubernetes API, one monitor name over several incarnations; implements `Rollout` |
| `Managers` | several processes of the operator, elected or not, with the monitor controller's data reduced |
| `MetricsMerge` | `MergeMetrics` and `BuildConfigMap`, with pgwatch's reading of the files as far as the comments in `configmap.go` describe it |
| `Admission` | a monitor's spec between the user's YAML and the Go struct: defaults, JSON tags, validation (operators only) |
| `Workload` | the builders of Deployment, Service and ServiceMonitor for several monitors, applied object by object; extends `Admission` |
| `LibraryReconciler` | the library controller |
| `LibraryFanout` | the library controller composed with the monitor controller's view of one library; extends `LibraryReconciler` |
| `MCMonitor`, `MCManagers`, `MCMetrics`, `MCWorkload`, `MCLibrary` | the small instances: specs, clusters at start, documents, registry tables |
| `MonitorReconcilerProofs`, `RolloutProofs`, `QuiescenceProofs` | the theorems about `MonitorReconciler`: its safety, that it implements `Rollout`, and that it rests only when it is done |
| `LibraryReconcilerProofs` | the theorems about `LibraryReconciler` and `LibraryFanout` |
| the other `*Proofs` | the theorems about the module each extends |

### MonitorReconciler

State. `mon`, `lib`, `secret`, `smCRD`, `kids` are in the API server; `cMon`, `cLib`,
`cSecret`, `cDep`, `cPods` are the informer caches; `evt` holds children whose event has
not been delivered; `dirty` and `timer` are the queue and its delayed part;
`pc`, `monitor`, `libs`, `events` are the reconcile in progress.

| Action | Code |
|---|---|
| `Begin` | the queue hands out the key; `r.Get`, not-found and deletion branches |
| `RemoveFinalizer`, `AddFinalizer` | `controllerutil` plus `r.Update`, refused unless the object is the one read |
| `ValidateCredentials`, `ResolveLibrary` | steps 1 and 2; on failure conditions and event, then the early `patchStatus` |
| `ApplyConfigMap`, `ApplyDeployment`, `ApplyService`, `ApplyServiceMonitor` | steps 3 to 6b, each with its build and its `serverSideApply` |
| `Observe` | step 7: Deployment and pods read from the cache, the status filled in |
| `PatchStatus` | `patchStatus` with `RetryOnConflict`, and the `Result` of the reconcile |
| `CallFails`, `Restart` | any API call fails; the process dies and starts over, deciding about ServiceMonitors again |
| `Deliver*`, `TimerFires` | watches with their event handlers; `RequeueAfter` and rate-limited retries |
| `CollectChild`, `StartPod`, `StopPod`, `CollectPods`, `ProbePod`, `LoseReadiness`, `Tick` | the cluster (external) |
| `CreateMonitor` ... `EditChild` | users |

Abstractions. A resourceVersion is identified with the state of the object. Delivery
copies the present state of an object, so a cache may skip states and lag without limit
but never goes back. `Restart` lists the objects as they are; first lists that lag behind
what an earlier process knew are the subject of `Managers`, and `OwnerAlive` is claimed
only without them. The sha256 of the generated files is identified with what they are
made from (when the rendering itself is deterministic is `MetricsMerge`'s subject). A
child stores its owner, its configuration and its share of the spec; `gen`, the
generation it was built from, is a history variable. Event messages are reduced to their
reasons and conditions to reason and generation (status and reason determine each other
in the code). Condition `DatabaseReachable` is what the code makes of it: credentials
exist; nothing connects to the database.

### Rollout

The state of `Rollout` is the monitor's uid, generation and deletion mark, the objects
made for it and the reported generation: no caches, queues, retries or reconciles. Its
steps are what users do (`Create`, `Ask`), what the controller may do (`Make`, `Report`),
the end of a monitor (`Remove`) and what happens to objects behind its back (`Lose`,
`Tamper`). The guards are the promises: objects are made for the monitor that exists,
from no older generation than reported; the Deployment follows the ConfigMap; the status
reports what every object has reached; a monitor that owns something goes only after its
deletion was requested. `MonitorReconciler!Promise` is the refinement mapping: the
abstract state is a projection of the API server's part of the detailed one (`Made`
drops from the children what `Rollout` does not speak of), and a step of
`MonitorReconciler` that touches only caches, queues or the reconcile in progress is a
stutter. `AddFinalizer` is one too: the finalizer is how the last promise is kept.

### Managers

A process is a standby, running, or exiting with the last request of its worker under
way. `Lead` starts its controllers (with `--leader-elect` only while no other process
runs), `Exit` is the lost lease or the end of the process, and `Land` delivers or loses
that last request afterwards, possibly after another process has led and written. What a
standby will list follows the store with a delay (`Replicate`), so the first lists of a
new leader may be old. The reconcile has the writes of `MonitorReconciler` with their
conditions: finalizer added and removed under optimistic concurrency, an apply that never
conflicts, a status update that conflicts with the process's own cache. A monitor with
inline credentials and no libraries is assumed, so that nothing ends a reconcile early,
and one child stands for all. Of the status only `observedGeneration` is kept: the
changing `lastReconciled` makes processes that work side by side conflict more often than
here and wake each other, and no property of `Managers` says that they rest.

Not everything that holds for one process holds here, and that is inherent in
server-side apply, which carries no resourceVersion. `OwnerAlive` fails (a rival removes
the finalizer while a worker is past its check, and a late apply makes a child for a
monitor that is gone), and so does `ObservedMeansApplied` (a delayed apply takes a child
back behind a newer status); by the same argument, with a ConfigMap and a Deployment
instead of the one child here, `RolloutAfterConfig`. What takes their place is
`OwnersHold`, which is proved, and the two liveness properties, which say that such
traces are repaired.

### MetricsMerge

The loops of `MergeMetrics` are steps (`AddMetric`, `NextList`), `BuildConfigMap` is one
step, and `ReconcileAgain` runs the same input a second time, so that a nondeterministic
choice (a Go map's iteration order) can show up as two different hashes. `Atoi`, the
registry's metrics and its presets are constants. Intervals are milliseconds, truncated
to seconds as in the code. `Collected` says what pgwatch does with the files.

### Admission and Workload

A document is a function from the fields present to their values, nested structs
flattened. `Default` and `Admits` are what the API server does on every write (the
`kubebuilder:default` and validation markers); `Decode` and `Encode` are the client's
unmarshalling and marshalling, where a field with `omitempty` disappears when it has the
zero value, a nil pointer disappears, and a struct or a field without `omitempty` is
always sent. `RoundTrip` is what the operator's own `Update` makes of a stored spec.

In `Workload` a worker reads a monitor's spec, writes it back first if the finalizer is
missing, and applies Deployment, Service and ServiceMonitor from the decoded copy, while
users replace documents, pods start from the Deployment's current template and stop, and
the reconcile may be cut short. Labels, selectors, ports, probes, sinks, credentials,
image, connection string and annotations are modelled; resources are an opaque value.
A document without credentials, which the rules no longer admit, may be there from the
start with its finalizer: that is what the defensive branch of `validateCredentials` is
for. Users replace whole documents, as `kubectl replace` does.

The first write-back can add `image: {}` and with it defaulted image fields to the
stored spec, which raises `metadata.generation` once. `MonitorReconciler` leaves that
step out (its `AddFinalizer` keeps the generation); `BuiltAsWritten` shows that nothing
the builders make changes with it.

### LibraryReconciler and LibraryFanout

`Begin` reads the cached library and computes the status; `UpdateStatus` is
`Status().Update`, refused unless the stored object is the one read.

`LibraryFanout` adds the monitors of the library's namespace: whether they list it, in
the API server and in the cache, which version their ConfigMap holds, and whether the
stored monitor is newer than the cached one (`pending`). That is so after an edit and after
a status write of the controller itself: `PatchStatus` is refused while the cache is behind,
and otherwise may change the object, which queues the monitor once more. The status itself
is not kept, so whether a write changes it is a choice, and no property here is about the
controllers coming to rest (that is `GoesQuiet`, for one monitor). One cache of
the library serves both controllers, so `DeliverLibrary` queues the library's key and,
through `LibraryToMonitors`, the monitors whose *cached* spec lists it. Monitors are
taken to be ready, since a monitor that is not ready polls and would hide a missed event.

## 3. Runs

Passing runs:

| Run | Question | Instance and why it is enough |
|---|---|---|
| `lifecycle` | safety of create, edit, delete, create again; convergence; deletion | two incarnations, three user changes, one fault, no Secret or library: two incarnations are what it takes for a reconcile to meet the wrong one, three changes allow create-delete-create and create-edit-delete. `ImplementsRollout` checks every step against the abstract specification |
| `pods` | does the status follow readiness, and does the controller stop | one pod, two readiness changes, a clock that never stops: every reconcile may find a new second, which is when `lastReconciled` makes a status write an event and the controller wakes itself |
| `disturbed` | is every event handler needed for convergence there; can the controller rest too early | a monitor with a library and a Secret, one further change of any object, a ready pod: a monitor that is *not* ready polls every 15 s and would hide a missing watch. `RestsOnlyWhenDone` is the safety side of `Converges`: with nothing queued, scheduled or on its way, everything is as asked for |
| `edits` | are errors retried until they clear | three changes among spec (an unknown preset with custom metrics), Secret and the ServiceMonitor CRD, one fault |
| `metrics` | union, last declaration wins, positive intervals, when the hash can move | up to three lists of up to two declarations (two libraries and the inline list), four definitions of which one spells a version twice, presets absent, known, incomplete and unknown |
| `workload` | selectors, ports, credentials, rollout; is pgwatch run as the document says | two monitors whose users write each other's labels, six documents (everything optional left out, fields set, credentials from a Secret with empty strings, a sink switched off, no credentials), two edits, two pods, one fault |
| `library` | status of a library, does it reach its monitors, is a wake-up ever lost | two incarnations, three changes of the library or of the monitors' lists, one fault, two monitors of which one lists the library at first |
| `managers` | what survives a second process | two processes, two incarnations; with election three changes and one exit or failed call, without it three changes, or two and one exit: a handover needs one exit, and create-delete-create with a late request needs the three changes |

Bounds are constants of the modules (`MaxUid`, `MaxEdits`, `MaxFaults`, `MaxFlips`,
`MaxPods`, `MaxLists`, `MaxLength`) and occur only in guards; in `Managers`
the `edits` and `faults` of a scope are counters that run down. `MaxTime` does not stop
the clock: seconds are only ever compared for being the same, so `Tick` takes a number
that no copy of the monitor carries, and three numbers always leave one. With
`MaxTime = 1`, in the runs that do not ask about time, everything happens in one second. Deadlock is not
checked, because the system may stop: once the bounds are used up and the controllers
are at rest nothing is left to do, and `GoesQuiet` and `SettlesDown` ask for that.

Runs that find a violation, each a disagreement between the code and what the
repository says of it (quoted under `findings`):

| Run | What it shows |
|---|---|
| `observed_generation` | `patchStatus` sends the whole status of the copy that was read. When that copy is older than the controller's own last status write and the Secret is missing, `status.observedGeneration` goes back. |
| `ready_column` | While the Secret is missing reconciles end before they look at the Deployment; `status.ready` stays true after the pod is gone. |
| `star_key` | `addMetric` drops the documented fallback key `"*"`; a metric with only that key has no statement. |
| `probe_port` | With only the gRPC sink, both probes use the Prometheus port, where nothing listens. |

The pair `ObservedMeansApplied` (holds, proved) and `ObservedGenerationNeverRegresses`
(violated) says what `observedGeneration` is worth: it never claims too much, but it may
forget.

Other disagreements met while modelling, without a run of their own:

* `ResourceName` only puts `pgpilot-` before the monitor's name. A custom resource's name
  may hold dots and up to 253 characters, a Service's may not: such a monitor gets its
  ConfigMap and Deployment, the Service is refused at every retry, and the error returns
  before any status is written. `PgpilotMonitorSpec` says that a monitor "produces exactly
  one pgwatch Deployment (1 replica) plus its ConfigMap and Service".
* `statementTimeoutSeconds` ("pgwatch enforces this per-query") is never rendered, and
  `image.pullPolicy` and `grpc.tls.caSecretRef` are never used by the builders.
* The CRD admits no library without metrics (`MinItems=1`), so the branch of the library
  controller that reports one as invalid is defensive; it is modelled all the same.
* `docs/troubleshooting.md:112` says events are "emitted only on condition transitions";
  `SecretNotFound` and `LibraryResolveFailed` are recorded by every reconcile that meets
  the condition.
* The chart's copy of the CRD lacks `status.configHash`. Installed from there, the API
  server prunes the field and `ConfigMapUpdated` is recorded by every reconcile: with
  `StatusKeepsHash = FALSE` the property `ConfigEventsStop` fails.
* An empty pod list leaves `status.podName` as it was, so it may name a dead pod.
* `SinksSpec` says the operator rejects a spec without any sink; nothing does.
* An omitted interval becomes 60 s, not "the pgwatch default".
* Two spellings of a version in one `sqls` map (`"13"` and `"013"`) collide, and the
  map's iteration order decides which statement is kept. One of the definitions of the
  `metrics` run is of that kind: two reconciles of one unchanged monitor then compute
  different hashes, and each change rolls the pod. The test
  `TestBuildConfigMap_HashStability` ("hash not stable", `configmap_test.go:166`) does not
  meet this, because it starts from metrics already merged. `HashMovesOnlyByMapOrder` says
  that nothing else moves the hash.
* Nothing in the controller keeps its own status write from waking it (`For` has no
  predicate, and `lastReconciled` differs whenever a second has passed). What that costs
  is said under "Time" below.
* The preset `aiven` lists `index_col_stats`, which the registry does not define;
  `CollectsTheUnion` counts a preset's metrics only where they are defined.

### Fairness

`MonitorReconciler!Fairness` is weak fairness of the worker goroutine, of each watch, of
the delay queue, and of the cluster's garbage collection and readiness bookkeeping.
controller-runtime's worker loop, informers and rate limiter run for as long as the
process does, which is what weak fairness says. Nothing is assumed of users, of faults,
of restarts, or of pods starting or becoming ready; the convergence properties are of the
form `<>[]`, which is meaningful because the bounds let those actions happen finitely
often.

`LibraryFanout!FanoutSpec` is the same for both controllers, with strong fairness of
`BeginMonitor(m)`: one worker serves several monitors and the queue is first in first
out, so a queued monitor is taken up although `BeginMonitor` is disabled while another
is being served. `Managers!FairSpec` adds that some process gets a free lease (the
candidates keep trying), and that a request under way arrives or is lost in the end;
which process leads, and when a standby's lists catch up, is left open.

### Time

`GoesQuiet` is the one property about the wall clock. A final `patchStatus` in a new second
changes the monitor and brings one more reconcile; in the same second it writes what is
there already, which is no event. So the controller comes to rest as soon as one second is
long enough for the reconciles it takes: watch events and reconciles are a matter of
milliseconds, and one such second is enough, because a controller at rest is not woken by
the clock. If every second in which it reports ends before it is done (`AlwaysBehind`; API
calls that take a second or more), it reconciles for ever. `GoesQuiet` says that this is
the only alternative to rest, and TLC finds such a behaviour when the alternative is left
out. The mutant of `GoesQuiet` stores a time that never repeats, as a finer timestamp would.

### Mutants

Every property of a passing run is paired with a plausible bug in a mapped definition
(a dropped guard, a missing watch, a forgotten retry, a swapped precedence) that breaks
it under the same configuration. The mutated operators stand next to the originals,
marked "Mutant".

## 4. Proofs

TLAPS proves the following for every value of the constants that satisfies the named
assumptions of the modules (`SpecsAssumption`, `BoundsAssumption`, `InputsAssumption`,
`WorkloadAssumption`, `LibraryAssumption`, `FanoutAssumption`, `ManagersAssumption`, and
`ConfigAssumption`: a hash is never the empty string): any number of incarnations, edits,
faults, processes, libraries, monitors, labels, documents and declarations. The
inductive invariants below also hold on the instances of section 3 when TLC checks them
(all but `BuiltInv`, which quantifies over every spec there could be).

**MonitorReconcilerProofs**

* `TypeCorrect`: `TypeOK`.
* `OwnerAliveTheorem`. `OwnerAlive` alone is not inductive: the worker's copy comes from
  a cache and nothing in `OwnerAlive` says what a cache can hold. `PinInv` adds that
  every uid was assigned; that a cached monitor with the finalizer and without a deletion
  mark is the incarnation that exists, finalizer included; that the mark is final; that
  the finalizer is about to be removed only from a marked object; and that `AddFinalizer`
  holds an unmarked copy. The one writer that removes the finalizer is the
  worker itself, so an incarnation cannot disappear while the worker is past it.
* `ObservedMeansAppliedTheorem`. `ClaimInv` orders the copies of the monitor by
  generation and says of every status of the present incarnation (stored, cached, in the
  worker's hands) that no child is older than it claims, and of the reconcile in progress
  which children it has already applied. Children are never taken back because the
  worker's copy is at least as new as any claim: claims are made only by earlier
  reconciles, whose copies came from the same cache.
* `RolloutAfterConfigTheorem`, an action property, from `ConfigInPlace`: between the two
  applies the ConfigMap holds the reconcile's configuration, or somebody else has
  changed or deleted it.

**RolloutProofs**: `ImplementsRolloutTheorem`, `Spec => ImplementsRollout`. The initial
states map to initial states, and each step of `MonitorReconciler` maps to one step of
`Rollout` or to a stutter (`StepRefines`, by the cases of `StepCases`): the four applies
are `Make`, `PatchStatus` is `Report` or a stutter, the writes of users are `Create`,
`Ask` and `Remove`, and the rest of the cluster does `Lose` and `Tamper`. The guards of
`Rollout` come from the invariants above: the owner of what is made from `PinInv`, "from
no older generation" and "what is reported was reached" from `ClaimInv`, the order of
ConfigMap and Deployment from `ConfigInPlace`. One fact is missing from those three. When
a user deletes a monitor without a finalizer it is gone at once, which `Remove` allows
only if it owns nothing. `ChildrenPinned` (`ChildrenPinnedTheorem`) supplies it: a monitor
that owns a child carries the finalizer, because a uid is never assigned twice and
children are made only past `AddFinalizer`.

**QuiescenceProofs**: `RestsOnlyWhenDoneTheorem`. A state at rest says nothing of how it
was reached, so the invariant has to carry what the last reconcile knew. `QuietInv` says
that *while the key is not due*, that is neither queued nor scheduled, everything the
worker has read and written is what a reconcile starting now would read and write: its
copy is the cached monitor up to finalizer and status (`CopyFresh`), the libraries
resolved so far are the cached ones (`LibsFresh`), each child applied so far is as it
would be built or has an event pending (`KidsFresh`), the readiness in the status is the
cached one (`ReadyFresh`), and when no reconcile runs and the cached monitor is the stored
one, a complete reconcile has been recorded in it (`IdleDone`). Each step either keeps
this or makes the key due. Early returns and failed calls schedule it (`MiddleReturns`);
watch events queue it; what happens behind the worker's back leaves an event of a watched
child (`AsideTells`); a library whose event queues nothing is not one the cached monitor
lists; an edit or deletion of the monitor makes the stored object differ from the cached
one, since generations and uids only grow (`PinInv`, `ClaimInv`); and a status write that
leaves the cache equal to the object changed nothing. Beside it `DeploymentCached` says
that the cached readiness is the real one unless the Deployment's event is pending.
Take a watch or a requeue away and the proof fails at that step.

**MetricsMergeProofs**

* `LaterWinsTheorem` (with `MergeInv`, which adds that the loop indices stay within the
  lists) and `NeverZeroIntervalTheorem`.
* `CollectsTheUnionTheorem`. `LaterWins` speaks of the declarations in the order they
  were added; the user thinks of them by their places in the lists. `PositionInv` ties
  the two together: the maps hold exactly the names the loops have passed, each as its
  last position so far says. At the end of the loops every position has been passed.
  `RenderInv` says that the files are the rendering of the merged maps, and
  `RenderedUnion` that pgwatch's reading of such files is the union, in each of the
  combinations of preset, custom definitions and registry.
* `HashMovesOnlyByMapOrderTheorem`, for every input, ambiguous declarations included: two
  merges give one hash unless the declaration that decides some metric spells one version
  twice with different statements. `FirstInv` says that without such a declaration the
  hash kept from the first reconcile is that of `MergeOfInput`, a function of the input
  alone; declarations that are overridden drop out of it.

**ManagersProofs**: `OwnersHoldTheorem`. Alone, `OwnersHold` says nothing of the workers
that are about to apply. `HoldInv` adds that every uid in use was assigned, that whoever
has *seen* the finalizer on an incarnation (in a cache, a standby's list or a worker's
copy, however old) finds it there for as long as the incarnation exists, and that a
worker applies only for a monitor it saw with the finalizer. Election plays no part in
the argument, which is why it covers both settings of the flag.

**AdmissionProofs**: `RoundTripAdmitted`: an admitted document, through the Go struct and
back, is admitted. The lemmas say field by field which values `Decode`, `Encode` and
`Default` leave.

**WorkloadProofs**: `ScrapesItsOwnTheorem`, `ScrapeReachesSinkTheorem`,
`DeploymentAcceptableTheorem`, `RollsOnConfigChangeTheorem`, `NeverPanicsTheorem`, all
from the provenance invariant `BuiltInv`: every object and pod is what its builder makes
for its monitor of *some* decoded spec. With that, the mixture of versions no longer
matters, and each property follows from lemmas about `Merge`, `Selector` and the ports.
`OwnUpdateAdmittedTheorem` follows from `RoundTripAdmitted`. `BuiltAsWrittenTheorem`
rests on `DocumentsOK` (stored documents are well formed) and two facts about the
builders: what they make of a freshly defaulted document is what the document means
(`FirstBuild`), and a round trip changes nothing they read (`BuiltStable`).

**LibraryReconcilerProofs**: `LibraryTypeCorrect`, `ObservedMeansJudgedTheorem` and
`ObservedNeverRegressesTheorem`, from `JudgedInv`: the copy about to be written is the
status computed from what was read, and the observed generation does not exceed the
stored one. `FanoutKeepsLibrary` carries all three over to `FanoutSpec`, whose steps are
the library controller's or leave its variables alone. `NoLostWakeupTheorem` is about the
composition: a monitor whose ConfigMap does not hold what its library is now is queued,
scheduled, being reconciled, or an event for it is still to come. `NoLostWakeup` compares
with the API server, which the controller does not see; `WakeupInv` is about what it does
see: a monitor that is not due has, or is about to get, what the *caches* say. An event
then closes the gap between a cache and the API server and queues whom it concerns;
`ListsInv` says that the event is there whenever a cached list is out of date.

Only model-checked: the liveness properties (`Converges`, `GoesQuiet`,
`ConfigEventsStop`, `DeletionCompletes`, `SettlesDown`, `ReachesEveryMonitor`,
`ConvergesAcrossProcesses`, `NothingLeftBehind`), which need fairness and
`ENABLED`, out of the prover's reach. `RestsOnlyWhenDone` and `NoLostWakeup` are the parts
of `Converges` and `ReachesEveryMonitor` that are safety, and are proved: whatever is
left to do, something is on its way that will do it. Every other invariant and action
property of the passing runs, and the refinement, is proved.

## 5. Not modelled

Flags other than `--leader-elect`, TLS, and the metrics, webhook and probe servers of the
manager; the leases themselves (timing is a choice: a process may be deposed at any
moment); custom tags; volumes and security contexts, which are constants of the code;
patterns and lengths of names; generated deep copies; charts and manifests, except that a
CRD may prune `configHash`; the namespace dimension (a Secret and libraries are looked up
in the monitor's own namespace).
Users who strip the finalizer by hand are not modelled; `OwnerAlive` and `OwnersHold` rest
on that. `libraryToMonitors` answering a `List` error with no requests is not modelled
either: the list is served by a cache that has synced before any event is handled.

## 6. Plan

Done: the modules of section 2 with their runs; proofs of every invariant, action property
and refinement that a passing run checks.

Left:

1. For `Managers`, the counterparts of `RestsOnlyWhenDone` and `ChildrenPinned` for several
   processes: what a store at rest holds once every late request has landed.
2. That `LibraryFanout`'s monitors are what `MonitorReconciler` shows of its one monitor,
   as a refinement mapping, so that `NoLostWakeup` speaks of the same controller.
3. For `Workload`, that the three objects of a monitor at rest come from one document.
