------------------------------- MODULE Workload -------------------------------
(***************************************************************************)
(* The objects that run and expose pgwatch: BuildDeployment, BuildService, *)
(* BuildServiceMonitor and the label helpers of internal/builder, applied  *)
(* one by one by the single worker of the monitor controller for several   *)
(* monitors of a namespace, while users edit specs and pods come and go.   *)
(*                                                                         *)
(* A reconcile works on the copy of the spec it read, so a pod, a Service  *)
(* and a ServiceMonitor built from different specs exist side by side.     *)
(***************************************************************************)
EXTENDS Admission, FiniteSets

CONSTANTS
    Names,          \* names of the monitors
    ServiceNames,   \* those for which pgpilot-<name> is a valid Service name:
                    \* a DNS label, so no dots and at most 63 characters
    Specs,          \* the documents users write
    NoObject,       \* no such object
    ServiceMonitorEnabled,
    MaxEdits, MaxPods, MaxFaults  \* bounds

ASSUME WorkloadAssumption ==
    /\ ServiceNames \subseteq Names /\ ServiceMonitorEnabled \in BOOLEAN
    /\ {MaxEdits, MaxPods, MaxFaults} \subseteq Nat
    /\ \A s \in Specs : WellFormed(s)

VARIABLES
    wrote,   \* per monitor, the document its user wrote last
    spec,    \* per monitor, its spec in the API server
    fin,     \* per monitor, whether it has the operator's finalizer
    dep, svc, sm,  \* per monitor, the objects named after it
    pods,    \* the running pods
    job,     \* the reconcile in progress: monitor, decoded spec, next step
    panics,  \* whether Reconcile has dereferenced a nil pointer
    edits, faults

stored == <<wrote, spec, fin>>
vars == <<stored, dep, svc, sm, pods, job, panics, edits, faults>>

-----------------------------------------------------------------------------
\* Labels.

AppName == "pgpilot-monitor"
SystemLabels(m) ==
    [name |-> AppName, instance |-> m, managedBy |-> "pgpilot-operator",
     component |-> "pgwatch", monitor |-> m]

\* The MatchLabels of the Deployment, the Service, the ServiceMonitor and of
\* the pod list in Reconcile.
Selector(m) == [instance |-> m, name |-> AppName]

\* Mutant: the user's keys win.
MergeUserWins(system, user) ==
    [k \in DOMAIN system \cup DOMAIN user |->
        IF k \in DOMAIN user THEN user[k] ELSE system[k]]

\* MergeLabels and MergeAnnotations: system keys win.
Merge(system, user) ==
    [k \in DOMAIN system \cup DOMAIN user |->
        IF k \in DOMAIN system THEN system[k] ELSE user[k]]

\* How Kubernetes matches labels.
Matches(selector, labels) ==
    \A k \in DOMAIN selector : k \in DOMAIN labels /\ labels[k] = selector[k]

-----------------------------------------------------------------------------
\* The builders.

\* Inline credentials need both; what counts is the struct, not the document.
Inline(go) == go.username # "" /\ go.password # ""

\* Mutant: the defensive branch is taken for the Secret branch.
UsableUnlessPartial(go) == TRUE

\* validateCredentials lets the reconcile go on (the Secret exists).
UsableCredentials(go) == Inline(go) \/ go.secret # ""

\* The second defaults: a builder that finds the zero value uses its own.
OrElse(value, zero, fallback) == IF value = zero THEN fallback ELSE value

\* buildEnvVars dereferences a nil credentialsSecret.
EnvPanics(go) == ~Inline(go) /\ go.secret = ""
BuildEnvVars(go) ==
    IF Inline(go) THEN <<go.username, go.password>>
    ELSE <<go.secret, OrElse(go.usernameKey, "", "username"),
                      OrElse(go.passwordKey, "", "password")>>

ContainerImage(go) ==
    <<OrElse(go.repository, "", "cybertecpostgresql/pgwatch"), OrElse(go.tag, "", "5.1.0")>>

BuildConnStr(go) ==
    <<go.database, OrElse(go.port, 0, 5432), OrElse(go.sslmode, "", "disable")>>

\* The hash of sources.yaml and metrics.yaml.
ConfigHash(go) == <<BuildConnStr(go), go.metrics>>

PrometheusPort(go) == IF go.prometheus /\ go.promPort > 0 THEN go.promPort ELSE 9187

\* The --sink arguments.
PrometheusSinks(go) ==
    IF go.prometheus /\ go.enabled THEN {OrElse(go.promPort, 0, 9187)} ELSE {}
GRPCSinks(go) ==
    IF go.grpc /\ go.grpcEnabled /\ go.endpoint # "" THEN {go.endpoint} ELSE {}

\* The pod template.
Template(m, go) ==
    [labels |-> Merge(SystemLabels(m), go.podLabels),
     annotations |-> Merge([configHash |-> ConfigHash(go)], go.podAnnotations),
     image |-> ContainerImage(go), env |-> BuildEnvVars(go),
     prometheus |-> PrometheusSinks(go), grpc |-> GRPCSinks(go),
     metricsPort |-> PrometheusPort(go), probePort |-> PrometheusPort(go),
     resources |-> go.resources]

\* Mutant: the selector is made of all pod labels.
DeploymentSelectingAll(m, go) ==
    [selector |-> Merge(SystemLabels(m), go.podLabels),
     template |-> Template(m, go), config |-> ConfigHash(go)]

\* BuildDeployment; config is history, the hash it was called with.
BuildDeployment(m, go) ==
    [selector |-> Selector(m), template |-> Template(m, go), config |-> ConfigHash(go)]

\* Mutant: targetPort is the port's number.
ServiceByNumber(m, go) ==
    [labels |-> Merge(SystemLabels(m), go.serviceLabels), selector |-> Selector(m),
     portName |-> "metrics", port |-> PrometheusPort(go),
     targetPort |-> <<"number", PrometheusPort(go)>>]

BuildService(m, go) ==
    [labels |-> Merge(SystemLabels(m), go.serviceLabels), selector |-> Selector(m),
     portName |-> "metrics", port |-> PrometheusPort(go),
     targetPort |-> <<"name", "metrics">>]

BuildServiceMonitor(m, go) ==
    [labels |-> Merge(SystemLabels(m), go.serviceLabels), selector |-> Selector(m),
     endpoint |-> "metrics"]

-----------------------------------------------------------------------------
\* The worker.

\* Monitors have just been created, except that one without usable credentials
\* is from before the validation rules and has its finalizer.
Init ==
    /\ wrote \in [Names -> Specs] /\ spec = [m \in Names |-> Default(wrote[m])]
    /\ fin = [m \in Names |-> ~Admits(spec[m])]
    /\ dep = [m \in Names |-> NoObject] /\ svc = dep /\ sm = dep
    /\ pods = {} /\ job = NoObject /\ panics = FALSE
    /\ edits = 0 /\ faults = 0

\* Up to the ConfigMap. Without the finalizer the spec is sent back first, and
\* defaulted and judged again; a refused Update ends the reconcile.
Begin(m) ==
    LET doc == IF fin[m] THEN spec[m] ELSE RoundTrip(spec[m])
    IN  /\ job = NoObject
        /\ fin[m] \/ Admits(doc)
        /\ spec' = [spec EXCEPT ![m] = doc]
        /\ fin' = [fin EXCEPT ![m] = TRUE]
        /\ job' = IF UsableCredentials(Decode(doc))
                  THEN [name |-> m, spec |-> Decode(doc), step |-> "Deployment"]
                  ELSE NoObject
        /\ UNCHANGED <<wrote, dep, svc, sm, pods, panics, edits, faults>>

ApplyDeployment ==
    /\ job # NoObject /\ job.step = "Deployment"
    /\ IF EnvPanics(job.spec)
       THEN panics' = TRUE /\ job' = NoObject /\ UNCHANGED dep
       ELSE /\ dep' = [dep EXCEPT ![job.name] = BuildDeployment(job.name, job.spec)]
            /\ job' = [job EXCEPT !.step = "Service"] /\ UNCHANGED panics
    /\ UNCHANGED <<stored, svc, sm, pods, edits, faults>>

\* The API server refuses a Service with an invalid name; Reconcile returns the error.
ApplyService ==
    /\ job # NoObject /\ job.step = "Service"
    /\ IF job.name \in ServiceNames
       THEN /\ svc' = [svc EXCEPT ![job.name] = BuildService(job.name, job.spec)]
            /\ job' = IF ServiceMonitorEnabled
                      THEN [job EXCEPT !.step = "ServiceMonitor"] ELSE NoObject
       ELSE job' = NoObject /\ UNCHANGED svc
    /\ UNCHANGED <<stored, dep, sm, pods, panics, edits, faults>>

ApplyServiceMonitor ==
    /\ job # NoObject /\ job.step = "ServiceMonitor"
    /\ sm' = [sm EXCEPT ![job.name] = BuildServiceMonitor(job.name, job.spec)]
    /\ job' = NoObject
    /\ UNCHANGED <<stored, dep, svc, pods, panics, edits, faults>>

\* A call fails, or the operator restarts.
Abort ==
    /\ job # NoObject /\ faults < MaxFaults
    /\ faults' = faults + 1
    /\ job' = NoObject
    /\ UNCHANGED <<stored, dep, svc, sm, pods, panics, edits>>

-----------------------------------------------------------------------------
\* Users and the deployment controller.

\* A user replaces the document; the API server defaults and judges it.
UpdateSpec(m, s) ==
    /\ edits < MaxEdits /\ s # wrote[m] /\ Admits(Default(s))
    /\ edits' = edits + 1
    /\ wrote' = [wrote EXCEPT ![m] = s]
    /\ spec' = [spec EXCEPT ![m] = Default(s)]
    /\ UNCHANGED <<fin, dep, svc, sm, pods, job, panics, faults>>

StartPod(m) ==
    /\ dep[m] # NoObject
    /\ pods' = pods \cup {[owner |-> m, template |-> dep[m].template]}
    /\ Cardinality(pods') <= MaxPods
    /\ UNCHANGED <<stored, dep, svc, sm, job, panics, edits, faults>>

StopPod(p) ==
    /\ pods' = pods \ {p}
    /\ UNCHANGED <<stored, dep, svc, sm, job, panics, edits, faults>>

Reconcile ==
    \/ \E m \in Names : Begin(m)
    \/ ApplyDeployment \/ ApplyService \/ ApplyServiceMonitor

Next ==
    \/ Reconcile \/ Abort
    \/ \E m \in Names, s \in Specs : UpdateSpec(m, s)
    \/ \E m \in Names : StartPod(m)
    \/ \E p \in pods : StopPod(p)

Spec == Init /\ [][Next]_vars

-----------------------------------------------------------------------------
\* What the objects are for.

\* The pod port a Service sends traffic to.
Resolved(service, pod) ==
    IF service.targetPort[1] = "name" THEN pod.template.metricsPort
    ELSE service.targetPort[2]

\* Whatever labels users put on pods and Services, a Service selects the pods of
\* its own monitor and no others, and a ServiceMonitor selects the Service of
\* its own monitor and no other (SystemLabels, MergeLabels and the selectors).
ScrapesItsOwn ==
    /\ \A m \in Names : svc[m] # NoObject =>
          \A p \in pods : Matches(svc[m].selector, p.template.labels) <=> p.owner = m
    /\ \A m, n \in Names : sm[m] # NoObject /\ svc[n] # NoObject =>
          (Matches(sm[m].selector, svc[n].labels) <=> m = n)

\* A pod with a Prometheus sink is scraped and probed on the port the sink
\* listens on, also while a port change has reached only some of the pods, the
\* Service and the ServiceMonitor: the Service names its target port.
ScrapeReachesSink ==
    \A m \in Names, p \in pods :
        p.owner = m /\ p.template.prometheus # {} =>
            /\ p.template.prometheus = {p.template.probePort}
            /\ svc[m] # NoObject =>
                  p.template.prometheus = {Resolved(svc[m], p)}
            /\ svc[m] # NoObject /\ sm[m] # NoObject =>
                  sm[m].endpoint = svc[m].portName

\* The selector of a Deployment is immutable and has to match its template:
\* no edit of the pod labels makes the API server refuse the next apply.
DeploymentAcceptable ==
    [][\A m \in Names : dep'[m] # NoObject =>
          /\ dep[m] # NoObject => dep'[m].selector = dep[m].selector
          /\ Matches(dep'[m].selector, dep'[m].template.labels)]_vars

\* An apply with a new config hash changes the pod template, so pgwatch is
\* restarted with it, whatever annotations users set.
RollsOnConfigChange ==
    [][\A m \in Names :
          dep[m] # NoObject /\ dep'[m] # NoObject /\ dep'[m].config # dep[m].config
              => dep'[m].template # dep[m].template]_vars

\* What validateCredentials lets through never reaches the nil pointer in
\* buildEnvVars.
NeverPanics == ~panics

\* The operator's own Update is never refused: what the API server admitted once
\* it admits again after the struct has been through the client, whose omitempty
\* tags decide which credentials are sent.
OwnUpdateAdmitted == \A m \in Names : Admits(spec[m]) => Admits(RoundTrip(spec[m]))

\* What the user wrote, and the documented default wherever nothing, or the empty
\* string, was written.
Written(doc, f, empty) ==
    IF f \in DOMAIN doc /\ doc[f] # empty THEN doc[f] ELSE Defaults[f]
SwitchedOn(doc, f) == IF f \in DOMAIN doc THEN doc[f] ELSE Defaults[f]
Meant(doc) ==
    [image |-> <<Written(doc, "repository", ""), Written(doc, "tag", "")>>,
     conn |-> <<doc["database"], Written(doc, "port", 0), Written(doc, "sslmode", "")>>,
     env |-> IF "secret" \in DOMAIN doc
             THEN <<doc["secret"], Written(doc, "usernameKey", ""),
                                   Written(doc, "passwordKey", "")>>
             ELSE <<doc["username"], doc["password"]>>,
     prometheus |-> IF "prometheus" \in DOMAIN doc /\ SwitchedOn(doc, "enabled")
                    THEN {Written(doc, "promPort", 0)} ELSE {},
     grpc |-> IF "endpoint" \in DOMAIN doc /\ SwitchedOn(doc, "grpcEnabled")
              THEN {doc["endpoint"]} \ {""} ELSE {}]

\* What the builders make of it.
Built(go) ==
    [image |-> ContainerImage(go), conn |-> BuildConnStr(go), env |-> BuildEnvVars(go),
     prometheus |-> PrometheusSinks(go), grpc |-> GRPCSinks(go)]

\* The image, the connection string, the environment and the sinks of pgwatch are
\* what the user's document says, whether the API server, the builders or both
\* fill in what it leaves out, and whether or not the operator has written the
\* spec back: a sink that was switched off stays off.  (The builders use neither
\* image.pullPolicy nor grpc.tls.caSecretRef, which are not among the fields.)
BuiltAsWritten ==
    \A m \in Names : Admits(spec[m]) => Meant(wrote[m]) = Built(Decode(spec[m]))

-----------------------------------------------------------------------------
\* What the documentation says and the code does not do.

\* "A TCP probe just verifies the port is open, which is sufficient: the process
\* is alive and accepting connections" (tcpProbe): something listens there.
ProbePortOpen == \A p \in pods : p.template.probePort \in p.template.prometheus
=============================================================================
