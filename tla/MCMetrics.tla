------------------------------ MODULE MCMetrics ------------------------------
(***************************************************************************)
(* Small instances of MetricsMerge: two metric names, of which pgwatch     *)
(* ships one, and the embedded registry with one preset.                   *)
(***************************************************************************)
EXTENDS MetricsMerge

CONSTANTS nil, nan, noHash, noPreset

Metric(name, interval, sqls, master, standby) ==
    [name |-> name, interval |-> interval, sqls |-> sqls, masterOnly |-> master,
     standbyOnly |-> standby, rest |-> "rest"]

AtoiTable == [k \in {"13", "013", "14", "*"} |->
                 IF k = "*" THEN nan ELSE IF k = "14" THEN 14 ELSE 13]

BuiltinMetricsTable ==
    [n \in {"db_stats", "wal"} |->
        [sqls |-> [v \in {11} |-> "builtin"], rest |-> "builtin", node |-> "any"]]
\* The preset "aiven" lists a metric the registry does not define.
BuiltinPresetsTable ==
    [p \in {"basic", "aiven"} |->
        IF p = "basic" THEN [n \in {"db_stats", "wal"} |-> 120]
        ELSE [n \in {"wal", "index_col_stats"} |-> 300]]

AllPresets == {noPreset, "basic", "aiven", "typo"}

\* A built-in metric redefined, a metric of the user's, durations around
\* a second and below zero, and statements for one version or two, one of which
\* is spelt twice in one declaration.
UsualDefinitions ==
    {Metric("db_stats", nil, [k \in {"13"} |-> "a"], FALSE, FALSE),
     Metric("db_stats", 500, [k \in {"14"} |-> "b"], TRUE, FALSE),
     Metric("orders", 1999, [k \in {"13", "013", "14"} |-> k], TRUE, TRUE),
     Metric("orders", -1000, [k \in {"013"} |-> "c"], FALSE, TRUE)}

\* The documented fallback key.
StarKey == {Metric("orders", nil, [k \in {"*"} |-> "a"], FALSE, FALSE)}
=============================================================================
