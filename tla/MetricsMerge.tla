----------------------------- MODULE MetricsMerge -----------------------------
(***************************************************************************)
(* From a spec's metrics to what pgwatch collects: MergeMetrics and        *)
(* addMetric (internal/builder/metrics_merge.go), renderSources,           *)
(* renderMetrics and contentHash (configmap.go), the built-in registry     *)
(* (pgwatch_builtin.go) and the --metrics flag (deployment.go).            *)
(*                                                                         *)
(* The declarations are merged one per step, in the order of the loops;    *)
(* then the two files are rendered.  The whole is done twice on the same   *)
(* input, as two reconciles do.  The iteration order of a Go map is a      *)
(* choice.  A rendered file is identified with what it holds: both YAML    *)
(* libraries write map keys in sorted order.                               *)
(***************************************************************************)
EXTENDS Integers, Sequences

CONSTANTS
    Definitions,  \* the MetricDefinitions users write
    Presets,      \* preset names users write, NoPreset among them
    NoPreset,     \* spec.metrics.preset is empty
    Nil,          \* interval not given
    Atoi,         \* strconv.Atoi on the keys of sqls; NaN when it fails
    NaN,
    BuiltinMetrics,  \* metrics of the embedded pgwatch metrics.yaml
    BuiltinPresets,  \* its presets: metric name -> seconds
    NoHash,
    MaxLists, MaxLength  \* bounds: lists of declarations, and their length

Names == {d.name : d \in Definitions}

ASSUME InputsAssumption ==
    /\ NoPreset \in Presets /\ NoPreset \notin DOMAIN BuiltinPresets
    /\ MaxLists \in Nat /\ MaxLength \in Nat
    /\ \A d \in Definitions :
          (d.interval = Nil \/ d.interval \in Int) /\ DOMAIN d.sqls \subseteq DOMAIN Atoi

VARIABLES
    preset,    \* spec.metrics.preset
    lists,     \* the metrics of each referenced library, then spec.metrics.custom
    i, j,      \* positions of the two loops
    done,      \* history: the declarations added so far
    merged,    \* MergedMetrics
    pc,        \* "merge", "render", "done" or "error"
    data,      \* ConfigMap data
    hash,      \* configHash
    first      \* history: the hash the first reconcile computed

vars == <<preset, lists, i, j, done, merged, pc, data, hash, first>>

Empty == [x \in {} |-> x]
Lists == UNION {[1..n -> UNION {[1..m -> Definitions] : m \in 0..MaxLength}] :
                  n \in 1..MaxLists}

Fresh == [preset |-> preset, intervals |-> Empty, definitions |-> Empty]

Init ==
    /\ preset \in Presets /\ lists \in Lists
    /\ \A n \in 1..(Len(lists) - 1) : lists[n] # <<>>  \* libraries: MinItems=1
    /\ i = 1 /\ j = 1 /\ done = <<>>
    /\ merged = Fresh
    /\ pc = "merge" /\ data = Empty /\ hash = NoHash /\ first = NoHash

-----------------------------------------------------------------------------
\* addMetric

\* Mutant: the first declaration of a name stays.
PutOnce(m, key, value) ==
    [x \in DOMAIN m \cup {key} |-> IF x \in DOMAIN m THEN m[x] ELSE value]

\* m[key] = value on a Go map; maps.Copy(dst, src).
Put(m, key, value) ==
    [x \in DOMAIN m \cup {key} |-> IF x = key THEN value ELSE m[x]]
Copy(dst, src) ==
    [x \in DOMAIN dst \cup DOMAIN src |-> IF x \in DOMAIN src THEN src[x] ELSE dst[x]]

\* Mutant: the value is tested before it is truncated to seconds.
SecondsTestedEarly(d) ==
    IF d.interval = Nil \/ d.interval <= 0 THEN 60 ELSE d.interval \div 1000

\* The interval in seconds.  d.interval is in milliseconds; int(Seconds())
\* truncates, and what is not positive then becomes defaultInterval.
Seconds(d) ==
    LET s == IF d.interval = Nil THEN 60 ELSE d.interval \div 1000
    IN  IF s <= 0 THEN 60 ELSE s

\* What the loop over md.SQLs can leave: keys that are no numbers are skipped,
\* and of two keys for one version the last one visited stays.
ParsedSQLs(d) ==
    LET keys == {k \in DOMAIN d.sqls : Atoi[k] # NaN}
        versions == {Atoi[k] : k \in keys}
    IN  {f \in [versions -> {d.sqls[k] : k \in keys}] :
            \A v \in versions : \E k \in keys : Atoi[k] = v /\ f[v] = d.sqls[k]}

\* The MetricDef; rest stands for the fields copied as they are.
Definition(d, sqls) ==
    [sqls |-> sqls, rest |-> d.rest,
     node |-> IF d.masterOnly THEN "primary"
              ELSE IF d.standbyOnly THEN "standby" ELSE "any"]

\* The body of the loops.
AddMetric ==
    /\ pc = "merge" /\ i <= Len(lists) /\ j <= Len(lists[i])
    /\ LET d == lists[i][j] IN
       /\ \E sqls \in ParsedSQLs(d) :
             merged' = [merged EXCEPT
                 !.intervals = Put(merged.intervals, d.name, Seconds(d)),
                 !.definitions = Put(merged.definitions, d.name, Definition(d, sqls))]
       /\ done' = Append(done, d)
    /\ j' = j + 1
    /\ UNCHANGED <<preset, lists, i, pc, data, hash, first>>

\* The inner loop ends; after the last list the merge is complete.
NextList ==
    /\ pc = "merge" /\ i <= Len(lists) /\ j > Len(lists[i])
    /\ i' = i + 1 /\ j' = 1
    /\ pc' = IF i = Len(lists) THEN "render" ELSE "merge"
    /\ UNCHANGED <<preset, lists, done, merged, data, hash, first>>

-----------------------------------------------------------------------------
\* BuildConfigMap

HasCustom(m) == DOMAIN m.intervals # {}
UnknownPreset(m) == m.preset \notin DOMAIN BuiltinPresets

\* Mutant: preset and custom metrics are put into the source side by side.
RenderSourcesBoth(m) ==
    [preset_metrics |-> m.preset, custom_metrics |-> m.intervals]

\* renderSources, where it does not fail.
RenderSources(m) ==
    IF m.preset # NoPreset /\ HasCustom(m)
    THEN [preset_metrics |-> NoPreset,
          custom_metrics |-> Copy(BuiltinPresets[m.preset], m.intervals)]
    ELSE IF m.preset # NoPreset
    THEN [preset_metrics |-> m.preset, custom_metrics |-> Empty]
    ELSE [preset_metrics |-> NoPreset, custom_metrics |-> m.intervals]

\* renderMetrics
RenderMetrics(m) ==
    IF m.preset # NoPreset
    THEN [metrics |-> Copy(BuiltinMetrics, m.definitions), presets |-> BuiltinPresets]
    ELSE [metrics |-> m.definitions, presets |-> Empty]

\* Whether metrics.yaml is written, and, in buildArgs, whether --metrics is passed.
EmitsMetrics(m) == m.preset # NoPreset \/ DOMAIN m.definitions # {}
PassesMetrics(m) == m.preset # NoPreset \/ DOMAIN m.definitions # {}

\* The ConfigMap's data.
Rendered(m) ==
    IF EmitsMetrics(m)
    THEN [k \in {"sources.yaml", "metrics.yaml"} |->
            IF k = "sources.yaml" THEN RenderSources(m) ELSE RenderMetrics(m)]
    ELSE [k \in {"sources.yaml"} |-> RenderSources(m)]

\* Mutant: the keys are hashed in the order the map yields them.
UnsortedHashes(d) ==
    LET n == IF "metrics.yaml" \in DOMAIN d THEN 2 ELSE 1
        orders == {o \in [1..n -> DOMAIN d] : \A k \in DOMAIN d : \E x \in 1..n : o[x] = k}
    IN  {[x \in 1..n |-> <<o[x], d[o[x]]>>] : o \in orders}

\* contentHash over the sorted keys; sha256 is identified with its input.
ContentHashes(d) ==
    {IF "metrics.yaml" \in DOMAIN d
     THEN <<<<"metrics.yaml", d["metrics.yaml"]>>, <<"sources.yaml", d["sources.yaml"]>>>>
     ELSE <<<<"sources.yaml", d["sources.yaml"]>>>>}

BuildConfigMap ==
    /\ pc = "render"
    /\ IF merged.preset # NoPreset /\ HasCustom(merged) /\ UnknownPreset(merged)
       THEN pc' = "error" /\ UNCHANGED <<data, hash>>
       ELSE /\ data' = Rendered(merged)
            /\ hash' \in ContentHashes(data')
            /\ pc' = "done"
    /\ UNCHANGED <<preset, lists, i, j, done, merged, first>>

\* The next reconcile of the same monitor starts over.
ReconcileAgain ==
    /\ pc = "done" /\ first = NoHash
    /\ first' = hash
    /\ i' = 1 /\ j' = 1 /\ done' = <<>>
    /\ merged' = Fresh
    /\ pc' = "merge" /\ data' = Empty /\ hash' = NoHash
    /\ UNCHANGED <<preset, lists>>

Next == AddMetric \/ NextList \/ BuildConfigMap \/ ReconcileAgain

Spec == Init /\ [][Next]_vars

-----------------------------------------------------------------------------
\* pgwatch, as the comments on renderSources and renderMetrics describe it:
\* preset_metrics, when set, replaces custom_metrics, and --metrics replaces the
\* embedded registry.  A metric without a definition is not collected.

Registry == IF PassesMetrics(merged) THEN data["metrics.yaml"]
            ELSE [metrics |-> BuiltinMetrics, presets |-> BuiltinPresets]

Active ==
    LET source == data["sources.yaml"] IN
    IF source.preset_metrics = NoPreset THEN source.custom_metrics
    ELSE IF source.preset_metrics \in DOMAIN Registry.presets
         THEN Registry.presets[source.preset_metrics] ELSE Empty

Collected ==
    [n \in DOMAIN Active \cap DOMAIN Registry.metrics |->
        [seconds |-> Active[n], def |-> Registry.metrics[n]]]

-----------------------------------------------------------------------------
\* What the spec asks for.

\* The position of the last declaration of a name, in reading order.
Positions(n) == {p \in (1..Len(lists)) \X (1..MaxLength) :
                    p[2] <= Len(lists[p[1]]) /\ lists[p[1]][p[2]].name = n}
LastDeclared(n) ==
    LET last == CHOOSE p \in Positions(n) : \A q \in Positions(n) :
                    q[1] < p[1] \/ (q[1] = p[1] /\ q[2] <= p[2])
    IN  lists[last[1]][last[2]]
Declared == {n \in Names : Positions(n) # {}}
FromPreset == IF preset \in DOMAIN BuiltinPresets THEN BuiltinPresets[preset] ELSE Empty

\* pgwatch collects the union of the preset's metrics and the declared ones; of
\* several declarations of a name, and over the preset, the last one decides
\* both the interval and the definition (MetricsSpec, MergeMetrics).
CollectsTheUnion ==
    pc = "done" =>
        /\ DOMAIN Collected = Declared \cup (DOMAIN FromPreset \cap DOMAIN BuiltinMetrics)
        /\ \A n \in DOMAIN Collected :
              IF n \in Declared
              THEN LET d == LastDeclared(n) IN
                   /\ Collected[n].seconds = Seconds(d)
                   /\ \E sqls \in ParsedSQLs(d) : Collected[n].def = Definition(d, sqls)
              ELSE Collected[n] = [seconds |-> FromPreset[n], def |-> BuiltinMetrics[n]]

\* Every metric declared in a library or in the monitor has a period of at least
\* a second, whatever duration the user wrote: a zero period would disable it.
\* (The periods of a preset's own metrics are pgwatch's.)
NeverZeroInterval ==
    \A n \in DOMAIN merged.intervals : merged.intervals[n] >= 1

\* One version is spelt by two keys ("13" and "013") that hold different
\* statements.  Neither the CRD nor the code rules this out.
Ambiguous(d) ==
    \E k, l \in DOMAIN d.sqls :
        Atoi[k] # NaN /\ Atoi[k] = Atoi[l] /\ d.sqls[k] # d.sqls[l]

\* Two reconciles of an unchanged monitor compute one hash, so the pod is not
\* rolled without a change of configuration, with one exception: the declaration
\* that decides a metric is ambiguous.  Then the order in which Go walks the map
\* picks the statement, and the hash may move from reconcile to reconcile.  An
\* ambiguous declaration that a later one overrides does no harm.
HashMovesOnlyByMapOrder ==
    pc = "done" /\ first # NoHash /\ hash # first
        => \E n \in Declared : Ambiguous(LastDeclared(n))

\* At every turn of the loops each name seen so far has the interval and the
\* definition of its last declaration, and no name was lost or made up.
LaterWins ==
    /\ DOMAIN merged.intervals = {done[p].name : p \in 1..Len(done)}
    /\ DOMAIN merged.definitions = DOMAIN merged.intervals
    /\ \A n \in DOMAIN merged.intervals : \E p \in 1..Len(done) :
          /\ done[p].name = n
          /\ merged.intervals[n] = Seconds(done[p])
          /\ \E sqls \in ParsedSQLs(done[p]) :
                merged.definitions[n] = Definition(done[p], sqls)
          /\ \A q \in (p + 1)..Len(done) : done[q].name # n

-----------------------------------------------------------------------------
\* What the API documentation says and the code does not do.

\* "The key "*" (or the lowest-version entry) acts as a fallback": a metric
\* declared with some statement is left with one.
SomeStatementLeft ==
    pc = "done" => \A n \in Declared : Collected[n].def.sqls # Empty
=============================================================================
