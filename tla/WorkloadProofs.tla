---------------------------- MODULE WorkloadProofs ----------------------------
(***************************************************************************)
(* Theorems about the generated objects, for every set of monitors and     *)
(* every label, annotation and port users write.                           *)
(***************************************************************************)
EXTENDS Workload, AdmissionProofs

\* The documents in the API server: as written and defaulted, or sent back once.
DocumentsOK ==
    /\ wrote \in [Names -> Specs]
    /\ spec = [m \in Names |-> spec[m]] /\ fin = [m \in Names |-> fin[m]]
    /\ \A m \in Names :
          \/ spec[m] = Default(wrote[m]) /\ (fin[m] \/ Admits(Default(wrote[m])))
          \/ /\ spec[m] = RoundTrip(Default(wrote[m])) /\ fin[m]
             /\ Admits(Default(wrote[m]))

\* What the builders rely on in the struct.
Readable(go) == go.promPort \in Nat

\* Every object was built for its own monitor from some spec, and the reconcile
\* in progress works on a spec whose credentials it has checked.
JobOK ==
    job # NoObject =>
        /\ job.name \in Names /\ Readable(job.spec) /\ UsableCredentials(job.spec)
        /\ job = [name |-> job.name, spec |-> job.spec, step |-> job.step]
DeploymentsBuilt ==
    /\ dep = [m \in Names |-> dep[m]]
    /\ \A m \in Names : dep[m] # NoObject =>
          \E go : Readable(go) /\ dep[m] = BuildDeployment(m, go)
ServicesBuilt ==
    /\ svc = [m \in Names |-> svc[m]]
    /\ \A m \in Names : svc[m] # NoObject => \E go : svc[m] = BuildService(m, go)
ServiceMonitorsBuilt ==
    /\ sm = [m \in Names |-> sm[m]]
    /\ \A m \in Names : sm[m] # NoObject => \E go : sm[m] = BuildServiceMonitor(m, go)
PodsBuilt ==
    \A p \in pods :
        p.owner \in Names /\ \E go : Readable(go) /\ p.template = Template(p.owner, go)

BuiltInv ==
    /\ DocumentsOK
    /\ JobOK /\ DeploymentsBuilt /\ ServicesBuilt /\ ServiceMonitorsBuilt /\ PodsBuilt
    /\ panics = FALSE

\* A document with a numeric port decodes to a struct with one, also after a trip
\* through the API server.
LEMMA DecodesReadable ==
    ASSUME NEW doc, "promPort" \in DOMAIN doc => doc["promPort"] \in Nat
    PROVE  Readable(Decode(doc)) /\ Readable(Decode(Default(doc)))
           /\ Readable(Decode(RoundTrip(doc)))
  <1>1. "promPort" \in Fields /\ Zero["promPort"] \in Nat /\ Defaults["promPort"] \in Nat
    BY PortNumbers DEF Fields
  <1>2. Decode(doc)["promPort"] \in Nat
    BY <1>1, DecodedField
  <1>3. Decode(Default(doc))["promPort"] \in Nat
    BY <1>1, DecodedField, DefaultedField
  <1>4. Decode(RoundTrip(doc))["promPort"] \in Nat
    BY <1>1, <1>2, DecodedField, RoundTripField
  <1> QED
    BY <1>2, <1>3, <1>4 DEF Readable

LEMMA StoredReadable ==
    ASSUME DocumentsOK, NEW m \in Names
    PROVE  Readable(Decode(spec[m])) /\ Readable(Decode(RoundTrip(spec[m])))
  <1>1. "promPort" \in DOMAIN wrote[m] => wrote[m]["promPort"] \in Nat
    BY WorkloadAssumption DEF DocumentsOK, WellFormed
  <1>2. "promPort" \in Fields /\ Zero["promPort"] \in Nat /\ Defaults["promPort"] \in Nat
    BY PortNumbers DEF Fields
  <1>3. "promPort" \in DOMAIN Default(wrote[m]) => Default(wrote[m])["promPort"] \in Nat
    BY <1>1, <1>2, DefaultedField
  <1>4. "promPort" \in DOMAIN RoundTrip(Default(wrote[m])) =>
           RoundTrip(Default(wrote[m]))["promPort"] \in Nat
    BY <1>2, <1>3, DecodedField, RoundTripField
  <1>5. "promPort" \in DOMAIN spec[m] => spec[m]["promPort"] \in Nat
    BY <1>3, <1>4 DEF DocumentsOK
  <1> QED
    BY <1>5, DecodesReadable

\* Credentials that validateCredentials accepts do not make buildEnvVars panic.
LEMMA UsableDoesNotPanic ==
    ASSUME NEW go, UsableCredentials(go) PROVE ~EnvPanics(go)
  BY DEF UsableCredentials, EnvPanics

\* A selector of monitor m matches labels that MergeLabels made for monitor n
\* exactly when m = n: what users add cannot replace a system label.
LEMMA SelectorMatchesOwn ==
    ASSUME NEW m, NEW n, NEW user
    PROVE  Matches(Selector(m), Merge(SystemLabels(n), user)) <=> m = n
  <1> DEFINE labels == Merge(SystemLabels(n), user)
  <1>1. DOMAIN Selector(m) = {"instance", "name"} /\ Selector(m).instance = m
        /\ Selector(m).name = AppName
    BY DEF Selector
  <1>2. /\ "instance" \in DOMAIN SystemLabels(n) /\ SystemLabels(n)["instance"] = n
        /\ "name" \in DOMAIN SystemLabels(n) /\ SystemLabels(n)["name"] = AppName
    BY DEF SystemLabels
  <1>3. /\ "instance" \in DOMAIN labels /\ labels["instance"] = n
        /\ "name" \in DOMAIN labels /\ labels["name"] = AppName
    BY <1>2 DEF Merge
  <1> HIDE DEF labels
  <1>4. Matches(Selector(m), labels) <=> m = n
    BY <1>1, <1>3 DEF Matches
  <1> QED
    BY <1>4 DEF labels

\* An enabled Prometheus sink listens where the container port, the probes and
\* the Service port say.
LEMMA SinkOnMetricsPort ==
    ASSUME NEW go, Readable(go), PrometheusSinks(go) # {}
    PROVE  PrometheusSinks(go) = {PrometheusPort(go)}
  BY DEF PrometheusSinks, PrometheusPort, OrElse, Readable

LEMMA BuiltInit == Init => BuiltInv
  BY DEF Init, BuiltInv, JobOK, DocumentsOK, DeploymentsBuilt, ServicesBuilt,
         ServiceMonitorsBuilt, PodsBuilt

\* Every step keeps the objects built for their monitors.
LEMMA BuiltStep == BuiltInv /\ [Next]_vars => BuiltInv'
  <1> SUFFICES ASSUME BuiltInv, [Next]_vars PROVE BuiltInv'
    OBVIOUS
  <1> USE DEF BuiltInv
  <1>1. ASSUME NEW m \in Names, Begin(m) PROVE BuiltInv'
    <2> DEFINE doc == IF fin[m] THEN spec[m] ELSE RoundTrip(spec[m])
    <2>1. /\ spec' = [spec EXCEPT ![m] = doc] /\ fin' = [fin EXCEPT ![m] = TRUE]
          /\ job' = IF UsableCredentials(Decode(doc))
                    THEN [name |-> m, spec |-> Decode(doc), step |-> "Deployment"]
                    ELSE NoObject
          /\ UNCHANGED <<wrote, dep, svc, sm, pods, panics>>
      BY <1>1 DEF Begin
    <2>2. DocumentsOK'
      BY <2>1 DEF DocumentsOK
    <2>3. Readable(Decode(doc))
      BY StoredReadable
    <2> HIDE DEF doc
    <2>4. JobOK'
      BY <2>1, <2>3 DEF JobOK
    <2> QED
      BY <2>1, <2>2, <2>4 DEF DeploymentsBuilt, ServicesBuilt, ServiceMonitorsBuilt,
                              PodsBuilt
  <1>2. CASE ApplyDeployment
    <2>1. /\ job # NoObject /\ job.name \in Names /\ Readable(job.spec)
          /\ dep' = [dep EXCEPT ![job.name] = BuildDeployment(job.name, job.spec)]
          /\ job' = [job EXCEPT !.step = "Service"]
          /\ UNCHANGED <<stored, svc, sm, pods, panics>>
      BY <1>2, UsableDoesNotPanic DEF ApplyDeployment, JobOK
    <2>2. JobOK'
      BY <2>1 DEF JobOK
    <2>3. DeploymentsBuilt'
      BY <2>1 DEF DeploymentsBuilt
    <2> QED
      BY <2>1, <2>2, <2>3 DEF stored, DocumentsOK, ServicesBuilt, ServiceMonitorsBuilt, PodsBuilt
  <1>3. CASE ApplyService
    <2>1. /\ job # NoObject /\ job.name \in Names /\ Readable(job.spec)
          /\ UNCHANGED <<stored, dep, sm, pods, panics>>
          /\ \/ svc' = [svc EXCEPT ![job.name] = BuildService(job.name, job.spec)]
             \/ svc' = svc
          /\ job' = [job EXCEPT !.step = "ServiceMonitor"] \/ job' = NoObject
      BY <1>3 DEF ApplyService, JobOK
    <2>2. JobOK'
      BY <2>1 DEF JobOK
    <2>3. ServicesBuilt'
      BY <2>1 DEF ServicesBuilt
    <2> QED
      BY <2>1, <2>2, <2>3 DEF stored, DocumentsOK, DeploymentsBuilt, ServiceMonitorsBuilt,
                              PodsBuilt
  <1>4. CASE ApplyServiceMonitor
    <2>1. /\ job.name \in Names /\ Readable(job.spec) /\ job' = NoObject
          /\ sm' = [sm EXCEPT ![job.name] = BuildServiceMonitor(job.name, job.spec)]
          /\ UNCHANGED <<stored, dep, svc, pods, panics>>
      BY <1>4 DEF ApplyServiceMonitor, JobOK
    <2>2. ServiceMonitorsBuilt'
      BY <2>1 DEF ServiceMonitorsBuilt
    <2> QED
      BY <2>1, <2>2 DEF stored, DocumentsOK, JobOK, DeploymentsBuilt, ServicesBuilt, PodsBuilt
  <1>5. CASE Abort
    BY <1>5 DEF stored, DocumentsOK, Abort, JobOK, DeploymentsBuilt, ServicesBuilt, ServiceMonitorsBuilt,
                PodsBuilt
  <1>6. ASSUME NEW m \in Names, NEW s \in Specs, UpdateSpec(m, s) PROVE BuiltInv'
    <2>1. /\ wrote' = [wrote EXCEPT ![m] = s]
          /\ spec' = [spec EXCEPT ![m] = Default(s)] /\ Admits(Default(s))
          /\ UNCHANGED <<fin, dep, svc, sm, pods, job, panics>>
      BY <1>6 DEF UpdateSpec
    <2>2. DocumentsOK'
      BY <1>6, <2>1 DEF DocumentsOK
    <2> QED
      BY <2>1, <2>2 DEF JobOK, DeploymentsBuilt, ServicesBuilt, ServiceMonitorsBuilt,
                        PodsBuilt
  <1>7. ASSUME NEW m \in Names, StartPod(m) PROVE BuiltInv'
    <2>1. PICK go : Readable(go) /\ dep[m] = BuildDeployment(m, go)
      BY <1>7 DEF StartPod, DeploymentsBuilt
    <2>2. dep[m].template = Template(m, go)
      BY <2>1 DEF BuildDeployment
    <2>3. /\ pods' = pods \cup {[owner |-> m, template |-> dep[m].template]}
          /\ UNCHANGED <<stored, dep, svc, sm, job, panics>>
      BY <1>7 DEF StartPod
    <2>4. PodsBuilt'
      BY <2>1, <2>2, <2>3 DEF PodsBuilt
    <2> QED
      BY <2>3, <2>4 DEF stored, DocumentsOK, JobOK, DeploymentsBuilt, ServicesBuilt, ServiceMonitorsBuilt
  <1>8. ASSUME NEW p \in pods, StopPod(p) PROVE BuiltInv'
    BY <1>8 DEF stored, DocumentsOK, StopPod, JobOK, DeploymentsBuilt, ServicesBuilt, ServiceMonitorsBuilt,
                PodsBuilt
  <1>9. CASE UNCHANGED vars
    BY <1>9 DEF vars, stored, DocumentsOK, JobOK, DeploymentsBuilt, ServicesBuilt, ServiceMonitorsBuilt,
                PodsBuilt
  <1> QED
    BY <1>1, <1>2, <1>3, <1>4, <1>5, <1>6, <1>7, <1>8, <1>9 DEF Next, Reconcile

\* The inductive invariant holds.
THEOREM BuiltInvariant == Spec => []BuiltInv
  BY BuiltInit, BuiltStep, PTL DEF Spec

\* No labels that users write make a Service select another monitor's pods, or
\* a ServiceMonitor another monitor's Service.
THEOREM ScrapesItsOwnTheorem == Spec => []ScrapesItsOwn
  <1>1. BuiltInv => ScrapesItsOwn
    <2> SUFFICES ASSUME BuiltInv PROVE ScrapesItsOwn
      OBVIOUS
    <2>1. ASSUME NEW m \in Names, svc[m] # NoObject, NEW p \in pods
          PROVE  Matches(svc[m].selector, p.template.labels) <=> p.owner = m
      <3>1. svc[m].selector = Selector(m)
        BY <2>1 DEF BuiltInv, ServicesBuilt, BuildService
      <3>2. PICK go : p.template = Template(p.owner, go)
        BY <2>1 DEF BuiltInv, PodsBuilt
      <3>3. p.template.labels = Merge(SystemLabels(p.owner), go.podLabels)
        BY <3>2 DEF Template
      <3> QED
        BY <3>1, <3>3, SelectorMatchesOwn
    <2>2. ASSUME NEW m \in Names, NEW n \in Names, sm[m] # NoObject, svc[n] # NoObject
          PROVE  Matches(sm[m].selector, svc[n].labels) <=> m = n
      <3>1. sm[m].selector = Selector(m)
        BY <2>2 DEF BuiltInv, ServiceMonitorsBuilt, BuildServiceMonitor
      <3>2. PICK go : svc[n] = BuildService(n, go)
        BY <2>2 DEF BuiltInv, ServicesBuilt
      <3>3. svc[n].labels = Merge(SystemLabels(n), go.serviceLabels)
        BY <3>2 DEF BuildService
      <3> QED
        BY <3>1, <3>3, SelectorMatchesOwn
    <2> QED
      BY <2>1, <2>2 DEF ScrapesItsOwn
  <1> QED
    BY <1>1, BuiltInvariant, PTL

\* In every mixture of old and new objects, a scrape and a probe reach the port
\* the pod's own Prometheus sink listens on.
THEOREM ScrapeReachesSinkTheorem == Spec => []ScrapeReachesSink
  <1>1. BuiltInv => ScrapeReachesSink
    <2> SUFFICES ASSUME BuiltInv, NEW m \in Names, NEW p \in pods,
                        p.owner = m, p.template.prometheus # {}
                 PROVE  /\ p.template.prometheus = {p.template.probePort}
                        /\ svc[m] # NoObject =>
                              p.template.prometheus = {Resolved(svc[m], p)}
                        /\ svc[m] # NoObject /\ sm[m] # NoObject =>
                              sm[m].endpoint = svc[m].portName
      BY DEF ScrapeReachesSink
    <2>1. PICK go : Readable(go) /\ p.template = Template(m, go)
      BY DEF BuiltInv, PodsBuilt
    <2>2. /\ p.template.prometheus = PrometheusSinks(go)
          /\ p.template.probePort = PrometheusPort(go)
          /\ p.template.metricsPort = PrometheusPort(go)
      BY <2>1 DEF Template
    <2>3. p.template.prometheus = {PrometheusPort(go)}
      BY <2>1, <2>2, SinkOnMetricsPort
    <2>4. svc[m] # NoObject =>
             svc[m].targetPort = <<"name", "metrics">> /\ svc[m].portName = "metrics"
      BY DEF BuiltInv, ServicesBuilt, BuildService
    <2>5. sm[m] # NoObject => sm[m].endpoint = "metrics"
      BY DEF BuiltInv, ServiceMonitorsBuilt, BuildServiceMonitor
    <2> QED
      BY <2>2, <2>3, <2>4, <2>5 DEF Resolved
  <1> QED
    BY <1>1, BuiltInvariant, PTL

\* No edit of a monitor leads to a Deployment the API server would refuse for
\* its selector.
THEOREM DeploymentAcceptableTheorem == Spec => DeploymentAcceptable
  <1>1. ASSUME BuiltInv, BuiltInv', NEW m \in Names, dep'[m] # NoObject
        PROVE  /\ dep[m] # NoObject => dep'[m].selector = dep[m].selector
               /\ Matches(dep'[m].selector, dep'[m].template.labels)
    <2>1. PICK go : dep'[m] = BuildDeployment(m, go)
      BY <1>1 DEF BuiltInv, DeploymentsBuilt
    <2>2. /\ dep'[m].selector = Selector(m)
          /\ dep'[m].template.labels = Merge(SystemLabels(m), go.podLabels)
      BY <2>1 DEF BuildDeployment, Template
    <2>3. dep[m] # NoObject => dep[m].selector = Selector(m)
      BY <1>1 DEF BuiltInv, DeploymentsBuilt, BuildDeployment
    <2> QED
      BY <2>2, <2>3, SelectorMatchesOwn
  <1>2. BuiltInv /\ BuiltInv' =>
          [\A m \in Names : dep'[m] # NoObject =>
             /\ dep[m] # NoObject => dep'[m].selector = dep[m].selector
             /\ Matches(dep'[m].selector, dep'[m].template.labels)]_vars
    BY <1>1
  <1> QED
    BY <1>2, BuiltInvariant, PTL DEF DeploymentAcceptable

\* No annotation that users write keeps a changed configuration from restarting
\* pgwatch.
THEOREM RollsOnConfigChangeTheorem == Spec => RollsOnConfigChange
  <1>1. ASSUME NEW m, NEW go
        PROVE  BuildDeployment(m, go).template.annotations["configHash"]
                  = BuildDeployment(m, go).config
    <2>1. Merge([configHash |-> ConfigHash(go)], go.podAnnotations)["configHash"] = ConfigHash(go)
      BY DEF Merge
    <2> QED
      BY <2>1 DEF BuildDeployment, Template
  <1>2. ASSUME BuiltInv, BuiltInv', NEW m \in Names, dep[m] # NoObject,
               dep'[m] # NoObject, dep'[m].config # dep[m].config
        PROVE  dep'[m].template # dep[m].template
    <2>1. dep[m].template.annotations["configHash"] = dep[m].config
      BY <1>1, <1>2 DEF BuiltInv, DeploymentsBuilt
    <2>2. dep'[m].template.annotations["configHash"] = dep'[m].config
      BY <1>1, <1>2 DEF BuiltInv, DeploymentsBuilt
    <2> QED
      BY <1>2, <2>1, <2>2
  <1>3. BuiltInv /\ BuiltInv' =>
          [\A m \in Names :
             dep[m] # NoObject /\ dep'[m] # NoObject /\ dep'[m].config # dep[m].config
                => dep'[m].template # dep[m].template]_vars
    BY <1>2
  <1> QED
    BY <1>3, BuiltInvariant, PTL DEF RollsOnConfigChange

\* Whatever spec is stored, and however stale the copy, Reconcile does not
\* dereference a nil credentialsSecret.
THEOREM NeverPanicsTheorem == Spec => []NeverPanics
  <1>1. BuiltInv => NeverPanics
    BY DEF BuiltInv, NeverPanics
  <1> QED
    BY <1>1, BuiltInvariant, PTL

\* The operator's own Update of an admitted spec is admitted.
THEOREM OwnUpdateAdmittedTheorem == Spec => []OwnUpdateAdmitted
  <1>1. OwnUpdateAdmitted
    BY RoundTripAdmitted DEF OwnUpdateAdmitted
  <1> QED
    BY <1>1, PTL

\* A trip through the struct keeps a field or replaces its zero value by the
\* default.
LEMMA StableField ==
    ASSUME NEW doc, NEW f \in Fields
    PROVE  LET old == Decode(doc)  new == Decode(RoundTrip(doc)) IN
           \/ new[f] = old[f]
           \/ /\ f \in DOMAIN Defaults /\ f \notin AlwaysSent(old)
              /\ old[f] = Zero[f] /\ new[f] = Defaults[f]
  <1> DEFINE old == Decode(doc)  new == Decode(RoundTrip(doc))
  <1>1. f \notin Sent(old) => old[f] = Zero[f] /\ f \notin AlwaysSent(old)
    BY ZeroFields DEF Sent
  <1>2. /\ f \in Sent(old) => new[f] = old[f]
        /\ f \notin Sent(old) /\ f \in DOMAIN RoundTrip(doc) =>
              new[f] = Defaults[f] /\ f \in DOMAIN Defaults
        /\ f \notin DOMAIN RoundTrip(doc) => new[f] = Zero[f]
    BY RoundTripField, DecodedField
  <1> HIDE DEF old, new
  <1>3. \/ new[f] = old[f]
        \/ /\ f \in DOMAIN Defaults /\ f \notin AlwaysSent(old)
           /\ old[f] = Zero[f] /\ new[f] = Defaults[f]
    BY <1>1, <1>2
  <1> QED
    BY <1>3 DEF old, new

\* Hence what is built does not change when the operator writes a spec back: the
\* fallbacks of the builders are the defaults of the API server.
LEMMA BuiltStable ==
    ASSUME NEW doc PROVE Built(Decode(RoundTrip(doc))) = Built(Decode(doc))
  <1> DEFINE old == Decode(doc)  new == Decode(RoundTrip(doc))
  <1>1. \A f \in {"database", "username", "password", "secret", "prometheus", "grpc",
                  "endpoint"} : new[f] = old[f]
    BY StableField, DefaultedFields DEF Fields
  <1>2. /\ old["prometheus"] => new["enabled"] = old["enabled"]
        /\ old["grpc"] => new["grpcEnabled"] = old["grpcEnabled"]
    BY StableField DEF Fields, AlwaysSent
  <1>3. ASSUME NEW f \in {"sslmode", "usernameKey", "passwordKey", "repository", "tag"}
        PROVE  new[f] = old[f] \/ (old[f] = "" /\ new[f] = Defaults[f])
    <2>1. f \in Fields /\ Zero[f] = ""
      BY ZeroStrings DEF Fields
    <2> QED
      BY <2>1, StableField
  <1>4. ASSUME NEW f \in {"port", "promPort"}
        PROVE  new[f] = old[f] \/ (old[f] = 0 /\ new[f] = Defaults[f])
    BY StableField, ZeroNumbers DEF Fields
  <1> HIDE DEF old, new
  <1>5. ContainerImage(new) = ContainerImage(old)
    BY <1>3, DefaultStrings DEF ContainerImage, OrElse
  <1>6. BuildConnStr(new) = BuildConnStr(old)
    <2> DEFINE port(go) == OrElse(go.port, 0, 5432)
               mode(go) == OrElse(go.sslmode, "", "disable")
    <2>1. mode(new) = mode(old)
      BY <1>3, DefaultStrings DEF OrElse
    <2>2. port(new) = port(old)
      BY <1>4, DefaultNumbers DEF OrElse
    <2>3. \A go : BuildConnStr(go) = <<go.database, port(go), mode(go)>>
      BY DEF BuildConnStr
    <2>4. new.database = old.database
      BY <1>1
    <2> HIDE DEF port, mode
    <2> QED
      BY <2>1, <2>2, <2>3, <2>4
  <1>7. BuildEnvVars(new) = BuildEnvVars(old)
    BY <1>1, <1>3, DefaultStrings DEF BuildEnvVars, Inline, OrElse
  <1>8. PrometheusSinks(new) = PrometheusSinks(old)
    <2>1. OrElse(new["promPort"], 0, 9187) = OrElse(old["promPort"], 0, 9187)
      BY <1>4, DefaultNumbers DEF OrElse
    <2>2. new["prometheus"] = old["prometheus"]
      BY <1>1
    <2> QED
      BY <1>2, <2>1, <2>2 DEF PrometheusSinks
  <1>9. GRPCSinks(new) = GRPCSinks(old)
    BY <1>1, <1>2 DEF GRPCSinks
  <1> QED
    BY <1>5, <1>6, <1>7, <1>8, <1>9 DEF Built, old, new

\* A field of the struct decoded from a freshly written document.
LEMMA FirstField ==
    ASSUME NEW w, NEW f \in Fields
    PROVE  /\ f \in DOMAIN w => Decode(Default(w))[f] = w[f]
           /\ f \notin DOMAIN w /\ f \notin DOMAIN Defaults => Decode(Default(w))[f] = Zero[f]
           /\ f \notin DOMAIN w /\ f \in DOMAIN Defaults /\ Parent[f] \in DOMAIN w =>
                 Decode(Default(w))[f] = Defaults[f]
           /\ f \notin DOMAIN w => Decode(Default(w))[f] \in {Zero[f], Defaults[f]}
  BY DecodedField, DefaultedField

\* The builders read an admitted, freshly written document as it is meant.
LEMMA FirstBuild ==
    ASSUME NEW w, WellFormed(w), Admits(Default(w))
    PROVE  Built(Decode(Default(w))) = Meant(w)
  <1> DEFINE go == Decode(Default(w))
  <1>1. ASSUME NEW f \in {"username", "password", "secret"}
        PROVE  /\ f \in DOMAIN w <=> f \in DOMAIN Default(w)
               /\ f \in DOMAIN w => go[f] = w[f] /\ go[f] # ""
               /\ f \notin DOMAIN w => go[f] = ""
    <2>1. f \in Fields /\ f \notin DOMAIN Defaults /\ Zero[f] = ""
      BY DefaultedFields, ZeroStrings DEF Fields
    <2>2. f \in DOMAIN w <=> f \in DOMAIN Default(w)
      BY <2>1, DefaultedField
    <2>3. f \in DOMAIN w => go[f] = w[f]
      BY <2>1, FirstField
    <2>4. f \in DOMAIN w => Default(w)[f] = w[f]
      BY DefaultedField
    <2> QED
      BY <2>1, <2>2, <2>3, <2>4, FirstField, AdmittedCredentials
  <1>2. "secret" \in DOMAIN w <=> ~({"username", "password"} \subseteq DOMAIN w)
    <2>1. {"username", "password"} \subseteq DOMAIN Default(w)
             <=> "secret" \notin DOMAIN Default(w)
      BY Zenon DEF Admits
    <2> HIDE DEF go
    <2> QED
      BY <1>1, <2>1
  <1>3. ASSUME NEW f \in {"sslmode", "usernameKey", "passwordKey", "repository", "tag"}
        PROVE  OrElse(go[f], "", Defaults[f]) = Written(w, f, "")
    <2>1. f \in Fields /\ Zero[f] = ""
      BY ZeroStrings DEF Fields
    <2>2. /\ f \in DOMAIN w => go[f] = w[f]
          /\ f \notin DOMAIN w => go[f] \in {"", Defaults[f]}
      BY <2>1, FirstField
    <2> HIDE DEF go
    <2> QED
      BY <2>2 DEF OrElse, Written
  <1>4. ASSUME NEW f \in {"port", "promPort"}
        PROVE  OrElse(go[f], 0, Defaults[f]) = Written(w, f, 0)
    <2>1. f \in Fields /\ Zero[f] = 0
      BY ZeroNumbers DEF Fields
    <2>2. /\ f \in DOMAIN w => go[f] = w[f]
          /\ f \notin DOMAIN w => go[f] \in {0, Defaults[f]}
      BY <2>1, FirstField
    <2> HIDE DEF go
    <2> QED
      BY <2>2 DEF OrElse, Written
  <1>5. go.database = w["database"]
    BY FirstField DEF Fields, WellFormed
  <1>6. ContainerImage(go) = <<Written(w, "repository", ""), Written(w, "tag", "")>>
    <2> HIDE DEF go
    <2>1. /\ OrElse(go.repository, "", "cybertecpostgresql/pgwatch") = Written(w, "repository", "")
          /\ OrElse(go.tag, "", "5.1.0") = Written(w, "tag", "")
      BY <1>3, DefaultStrings
    <2> QED
      BY <2>1 DEF ContainerImage
  <1>7. BuildConnStr(go)
          = <<w["database"], Written(w, "port", 0), Written(w, "sslmode", "")>>
    <2> HIDE DEF go
    <2> DEFINE port(g) == OrElse(g.port, 0, 5432)
               mode(g) == OrElse(g.sslmode, "", "disable")
               meantPort == Written(w, "port", 0)
    <2>1. mode(go) = Written(w, "sslmode", "")
      BY <1>3, DefaultStrings
    <2>2. port(go) = meantPort
      BY <1>4, DefaultNumbers
    <2>3. BuildConnStr(go) = <<go.database, port(go), mode(go)>>
      BY DEF BuildConnStr
    <2> HIDE DEF port, mode, meantPort
    <2>4. BuildConnStr(go) = <<w["database"], meantPort, Written(w, "sslmode", "")>>
      BY <1>5, <2>1, <2>2, <2>3
    <2> QED
      BY <2>4 DEF meantPort
  <1>8. BuildEnvVars(go) = Meant(w).env
    <2> HIDE DEF go
    <2>1. /\ OrElse(go.usernameKey, "", "username") = Written(w, "usernameKey", "")
          /\ OrElse(go.passwordKey, "", "password") = Written(w, "passwordKey", "")
      BY <1>3, DefaultStrings
    <2>2. Inline(go) <=> "secret" \notin DOMAIN w
      BY <1>1, <1>2 DEF Inline
    <2>3. /\ "secret" \in DOMAIN w => go.secret = w["secret"]
          /\ "secret" \notin DOMAIN w =>
                go.username = w["username"] /\ go.password = w["password"]
      BY <1>1, <1>2
    <2>4. Meant(w).env = IF "secret" \in DOMAIN w
             THEN <<w["secret"], Written(w, "usernameKey", ""),
                                 Written(w, "passwordKey", "")>>
             ELSE <<w["username"], w["password"]>>
      BY DEF Meant
    <2> QED
      BY <2>1, <2>2, <2>3, <2>4 DEF BuildEnvVars
  <1>9. PrometheusSinks(go)
          = IF "prometheus" \in DOMAIN w /\ SwitchedOn(w, "enabled")
            THEN {Written(w, "promPort", 0)} ELSE {}
    <2>1. /\ "prometheus" \in DOMAIN w => go["prometheus"] = TRUE
          /\ "prometheus" \notin DOMAIN w => go["prometheus"] = FALSE
      <3>1. "prometheus" \in DOMAIN w => w["prometheus"] = TRUE
        BY Zenon DEF WellFormed
      <3> QED
        BY <3>1, FirstField, DefaultedFields, ZeroFlags DEF Fields
    <2>2. "prometheus" \in DOMAIN w => go["enabled"] = SwitchedOn(w, "enabled")
      <3>1. Parent["enabled"] = "prometheus"
        BY DEF Parent
      <3> QED
        BY <3>1, FirstField, DefaultedFields DEF Fields, SwitchedOn
    <2> HIDE DEF go
    <2> DEFINE meantPort == Written(w, "promPort", 0)
    <2>3. OrElse(go.promPort, 0, 9187) = meantPort
      BY <1>4, DefaultNumbers
    <2> HIDE DEF meantPort
    <2>4. PrometheusSinks(go) = IF go.prometheus /\ go.enabled THEN {meantPort} ELSE {}
      BY <2>3 DEF PrometheusSinks
    <2>5. PrometheusSinks(go) = IF "prometheus" \in DOMAIN w /\ SwitchedOn(w, "enabled")
                                THEN {meantPort} ELSE {}
      BY <2>1, <2>2, <2>4
    <2> QED
      BY <2>5 DEF meantPort
  <1>10. GRPCSinks(go)
          = IF "endpoint" \in DOMAIN w /\ SwitchedOn(w, "grpcEnabled")
            THEN {w["endpoint"]} \ {""} ELSE {}
    <2>1. "endpoint" \in DOMAIN w => "grpc" \in DOMAIN w
      <3>1. "endpoint" \in DOMAIN Parent /\ Parent["endpoint"] = "grpc"
        BY DEF Parent
      <3> QED
        BY <3>1, Zenon DEF WellFormed
    <2>2. "grpc" \in DOMAIN w => go["grpc"] = TRUE
      <3>1. "grpc" \in DOMAIN w => w["grpc"] = TRUE
        BY Zenon DEF WellFormed
      <3> QED
        BY <3>1, FirstField DEF Fields
    <2>3. "grpc" \in DOMAIN w => go["grpcEnabled"] = SwitchedOn(w, "grpcEnabled")
      <3>1. Parent["grpcEnabled"] = "grpc"
        BY DEF Parent
      <3> QED
        BY <3>1, FirstField, DefaultedFields DEF Fields, SwitchedOn
    <2>4. /\ "endpoint" \in DOMAIN w => go["endpoint"] = w["endpoint"]
          /\ "endpoint" \notin DOMAIN w => go["endpoint"] = ""
      BY FirstField, DefaultedFields, ZeroStrings DEF Fields
    <2> HIDE DEF go
    <2> QED
      BY <2>1, <2>2, <2>3, <2>4 DEF GRPCSinks
  <1> HIDE DEF go
  <1>11. Built(go) = Meant(w)
    BY <1>6, <1>7, <1>8, <1>9, <1>10 DEF Built, Meant
  <1> QED
    BY <1>11 DEF go

\* Users get what they wrote, with the documented defaults.
THEOREM BuiltAsWrittenTheorem == Spec => []BuiltAsWritten
  <1>1. BuiltInv => BuiltAsWritten
    <2> SUFFICES ASSUME BuiltInv, NEW m \in Names, Admits(spec[m])
                 PROVE  Meant(wrote[m]) = Built(Decode(spec[m]))
      BY DEF BuiltAsWritten
    <2>1. WellFormed(wrote[m])
      BY WorkloadAssumption DEF BuiltInv, DocumentsOK
    <2>2. CASE spec[m] = Default(wrote[m])
      BY <2>1, <2>2, FirstBuild
    <2>3. CASE spec[m] = RoundTrip(Default(wrote[m])) /\ Admits(Default(wrote[m]))
      BY <2>1, <2>3, FirstBuild, BuiltStable
    <2> QED
      BY <2>2, <2>3 DEF BuiltInv, DocumentsOK
  <1> QED
    BY <1>1, BuiltInvariant, PTL
=============================================================================
