-------------------------- MODULE MetricsMergeProofs --------------------------
(***************************************************************************)
(* Theorems about the merge of metric declarations, for every registry and *)
(* every set of declarations.                                              *)
(***************************************************************************)
EXTENDS MetricsMerge, TLAPS

\* The loops stay inside the lists, and merged keeps its three fields.
LoopOK ==
    /\ lists \in Lists /\ i \in Nat \ {0} /\ j \in Nat \ {0}
    /\ done \in Seq(Definitions)
    /\ {"intervals", "definitions"} \subseteq DOMAIN merged

MergeInv == LoopOK /\ LaterWins

\* A declaration's interval is at least a second once it is in seconds.
LEMMA SecondsPositive ==
    ASSUME NEW d \in Definitions
    PROVE  Seconds(d) \in Nat /\ Seconds(d) >= 1
  <1>1. d.interval = Nil \/ d.interval \in Int
    BY InputsAssumption
  <1> QED
    BY <1>1 DEF Seconds

\* The loop body reads a declaration the user wrote.
LEMMA DeclarationRead ==
    ASSUME lists \in Lists, i \in Nat \ {0}, j \in Nat \ {0},
           i <= Len(lists), j <= Len(lists[i])
    PROVE  lists[i][j] \in Definitions
  <1>1. PICK n \in 1..MaxLists :
            lists \in [1..n -> UNION {[1..m -> Definitions] : m \in 0..MaxLength}]
    BY DEF Lists
  <1>2. n \in Nat
    BY InputsAssumption
  <1>3. i \in 1..n
    BY <1>1, <1>2
  <1> DEFINE Inner == UNION {[1..m -> Definitions] : m \in 0..MaxLength}
  <1>a. lists[i] \in Inner
    <2> HIDE DEF Inner
    <2>1. lists \in [1..n -> Inner]
      BY <1>1 DEF Inner
    <2> QED
      BY <1>3, <2>1
  <1>4. PICK m \in 0..MaxLength : lists[i] \in [1..m -> Definitions]
    BY <1>a
  <1>5. m \in Nat
    BY InputsAssumption
  <1> QED
    BY <1>4, <1>5

LEMMA MergeInit == Init => MergeInv
  BY DEF Init, MergeInv, LoopOK, LaterWins, Fresh, Empty

\* LaterWins speaks of nothing but the merge and the declarations it has seen.
LEMMA LaterWinsKept ==
    ASSUME LaterWins, UNCHANGED <<done, merged>> PROVE LaterWins'
  <1>1. done' = done /\ merged' = merged
    OBVIOUS
  <1>2. {done'[p].name : p \in 1..Len(done')} = {done[p].name : p \in 1..Len(done)}
    BY <1>1
  <1>3. ASSUME NEW n \in DOMAIN merged'.intervals
        PROVE  \E p \in 1..Len(done') :
                  /\ done'[p].name = n
                  /\ merged'.intervals[n] = Seconds(done'[p])
                  /\ \E sqls \in ParsedSQLs(done'[p]) :
                        merged'.definitions[n] = Definition(done'[p], sqls)
                  /\ \A q \in (p + 1)..Len(done') : done'[q].name # n
    <2>1. n \in DOMAIN merged.intervals
      BY <1>1
    <2>2. \E p \in 1..Len(done) :
              /\ done[p].name = n
              /\ merged.intervals[n] = Seconds(done[p])
              /\ \E sqls \in ParsedSQLs(done[p]) :
                    merged.definitions[n] = Definition(done[p], sqls)
              /\ \A q \in (p + 1)..Len(done) : done[q].name # n
      BY <2>1 DEF LaterWins
    <2> QED
      BY <1>1, <2>2, Zenon
  <1> QED
    BY <1>1, <1>2, <1>3 DEF LaterWins

\* Adding a declaration makes it the last one of its name and of no other.
LEMMA MergeStep == MergeInv /\ [Next]_vars => MergeInv'
  <1> SUFFICES ASSUME MergeInv, [Next]_vars PROVE MergeInv'
    OBVIOUS
  <1> USE DEF MergeInv, LoopOK
  <1>1. CASE AddMetric
    <2> DEFINE d == lists[i][j]
    <2>1. d \in Definitions
      BY <1>1, DeclarationRead DEF AddMetric
    <2>2. PICK sqls \in ParsedSQLs(d) :
              merged' = [merged EXCEPT
                 !.intervals = Put(merged.intervals, d.name, Seconds(d)),
                 !.definitions = Put(merged.definitions, d.name, Definition(d, sqls))]
      BY <1>1 DEF AddMetric
    <2>3. done' = Append(done, d) /\ done' \in Seq(Definitions)
      BY <1>1, <2>1 DEF AddMetric
    <2>4. LoopOK'
      BY <1>1, <2>2, <2>3 DEF AddMetric
    <2>5. /\ merged'.intervals = Put(merged.intervals, d.name, Seconds(d))
          /\ merged'.definitions = Put(merged.definitions, d.name, Definition(d, sqls))
      BY <2>2
    <2>6. /\ Len(done') = Len(done) + 1 /\ Len(done) \in Nat
          /\ done'[Len(done) + 1] = d
          /\ \A p \in 1..Len(done) : done'[p] = done[p]
      BY <2>1, <2>3
    <2> HIDE DEF d
    <2>7. /\ DOMAIN merged'.intervals = DOMAIN merged.intervals \cup {d.name}
          /\ DOMAIN merged'.definitions = DOMAIN merged.definitions \cup {d.name}
      BY <2>5 DEF Put
    <2>8. {done'[p].name : p \in 1..Len(done')} =
              {done[p].name : p \in 1..Len(done)} \cup {d.name}
      BY <2>6
    <2>9. ASSUME NEW n \in DOMAIN merged'.intervals
          PROVE  \E p \in 1..Len(done') :
                    /\ done'[p].name = n
                    /\ merged'.intervals[n] = Seconds(done'[p])
                    /\ \E s \in ParsedSQLs(done'[p]) :
                          merged'.definitions[n] = Definition(done'[p], s)
                    /\ \A q \in (p + 1)..Len(done') : done'[q].name # n
      <3>1. CASE n = d.name
        <4>1. /\ merged'.intervals[n] = Seconds(d)
              /\ merged'.definitions[n] = Definition(d, sqls)
          BY <2>5, <3>1 DEF Put
        <4>2. /\ Len(done') \in 1..Len(done') /\ done'[Len(done')] = d
              /\ \A q \in (Len(done') + 1)..Len(done') : done'[q].name # n
          BY <2>6
        <4>3. \E s \in ParsedSQLs(d) : merged'.definitions[n] = Definition(d, s)
          BY <2>2, <4>1
        <4> QED
          BY <3>1, <4>1, <4>2, <4>3
      <3>2. CASE n # d.name
        <4>1. /\ n \in DOMAIN merged.intervals /\ n \in DOMAIN merged.definitions
              /\ merged'.intervals[n] = merged.intervals[n]
              /\ merged'.definitions[n] = merged.definitions[n]
          BY <2>5, <2>7, <3>2 DEF Put, LaterWins
        <4>2. PICK p \in 1..Len(done) :
                 /\ done[p].name = n
                 /\ merged.intervals[n] = Seconds(done[p])
                 /\ \E s \in ParsedSQLs(done[p]) :
                       merged.definitions[n] = Definition(done[p], s)
                 /\ \A q \in (p + 1)..Len(done) : done[q].name # n
          BY <4>1 DEF LaterWins
        <4>3. p \in 1..Len(done') /\ done'[p] = done[p]
          BY <2>6
        <4>4. \A q \in (p + 1)..Len(done') : done'[q].name # n
          BY <2>6, <3>2, <4>2
        <4> QED
          BY <4>1, <4>2, <4>3, <4>4
      <3> QED
        BY <3>1, <3>2
    <2>10. LaterWins'
      BY <2>7, <2>8, <2>9 DEF LaterWins
    <2> QED
      BY <2>4, <2>10
  <1>2. CASE NextList
    <2>1. UNCHANGED <<lists, done, merged>> /\ LoopOK'
      BY <1>2 DEF NextList
    <2> QED
      BY <2>1, LaterWinsKept
  <1>3. CASE BuildConfigMap
    <2>1. UNCHANGED <<lists, done, merged>> /\ LoopOK'
      BY <1>3 DEF BuildConfigMap
    <2> QED
      BY <2>1, LaterWinsKept
  <1>4. CASE ReconcileAgain
    BY <1>4 DEF ReconcileAgain, LaterWins, Fresh, Empty
  <1>5. CASE UNCHANGED vars
    <2>1. UNCHANGED <<lists, done, merged>> /\ LoopOK'
      BY <1>5 DEF vars
    <2> QED
      BY <2>1, LaterWinsKept
  <1> QED
    BY <1>1, <1>2, <1>3, <1>4, <1>5 DEF Next

\* However many libraries list a name, and whether or not the monitor lists it
\* again, the merge gives it what its last declaration says.
THEOREM LaterWinsTheorem == Spec => []LaterWins
  <1>1. MergeInv => LaterWins
    BY DEF MergeInv
  <1> QED
    BY <1>1, MergeInit, MergeStep, PTL DEF Spec

\* No duration a user can write makes pgwatch stop collecting a metric.
THEOREM NeverZeroIntervalTheorem == Spec => []NeverZeroInterval
  <1>1. MergeInv => NeverZeroInterval
    <2> SUFFICES ASSUME MergeInv, NEW n \in DOMAIN merged.intervals
                 PROVE  merged.intervals[n] >= 1
      BY DEF NeverZeroInterval
    <2>1. PICK p \in 1..Len(done) : merged.intervals[n] = Seconds(done[p])
      BY DEF MergeInv, LaterWins
    <2>2. done[p] \in Definitions
      BY DEF MergeInv, LoopOK
    <2> QED
      BY <2>1, <2>2, SecondsPositive
  <1> QED
    BY <1>1, MergeInit, MergeStep, PTL DEF Spec
-----------------------------------------------------------------------------
(***************************************************************************)
(* Where the loops are.  LaterWins speaks of the declarations in the order *)
(* they were added; what follows ties them to their places in the spec, so *)
(* that the end of the loops can be compared with what the user wrote.     *)
(***************************************************************************)
Passed(p) == p[1] < i \/ (p[1] = i /\ p[2] < j)
NotAfter(q, p) == q[1] < p[1] \/ (q[1] = p[1] /\ q[2] <= p[2])
At(p) == lists[p[1]][p[2]]

PassedPositions(n) == {p \in Positions(n) : Passed(p)}
PassedNames == {n \in Names : PassedPositions(n) # {}}

\* m says of the name n what the declaration at p says.
TakenFrom(m, n, p) ==
    /\ m.intervals[n] = Seconds(At(p))
    /\ \E sqls \in ParsedSQLs(At(p)) : m.definitions[n] = Definition(At(p), sqls)

Shape(m, names) ==
    m = [preset |-> preset,
         intervals |-> [n \in names |-> m.intervals[n]],
         definitions |-> [n \in names |-> m.definitions[n]]]

PositionInv ==
    /\ pc \in {"merge", "render", "done", "error"}
    /\ IF pc = "merge" THEN i <= Len(lists) ELSE i = Len(lists) + 1
    /\ Shape(merged, PassedNames)
    /\ \A n \in PassedNames : \E p \in PassedPositions(n) :
          /\ \A q \in PassedPositions(n) : NotAfter(q, p)
          /\ TakenFrom(merged, n, p)

\* The input is a sequence of at least one bounded sequence of declarations.
LEMMA ListsShape ==
    ASSUME lists \in Lists
    PROVE  /\ Len(lists) \in Nat \ {0}
           /\ \A a \in 1..Len(lists) :
                 /\ Len(lists[a]) \in Nat /\ Len(lists[a]) <= MaxLength
                 /\ \A b \in 1..Len(lists[a]) : lists[a][b] \in Definitions
  <1> DEFINE Inner == UNION {[1..m -> Definitions] : m \in 0..MaxLength}
  <1>1. PICK n \in 1..MaxLists : lists \in [1..n -> Inner]
    BY DEF Lists
  <1>2. n \in Nat \ {0} /\ MaxLength \in Nat
    BY InputsAssumption
  <1>3. Len(lists) = n
    <2> HIDE DEF Inner
    <2> QED
      BY <1>1, <1>2
  <1>4. ASSUME NEW a \in 1..Len(lists)
        PROVE  /\ Len(lists[a]) \in Nat /\ Len(lists[a]) <= MaxLength
               /\ \A b \in 1..Len(lists[a]) : lists[a][b] \in Definitions
    <2>1. lists[a] \in Inner
      <3> HIDE DEF Inner
      <3> QED
        BY <1>1, <1>3
    <2>2. PICK m \in 0..MaxLength : lists[a] \in [1..m -> Definitions]
      BY <2>1
    <2>3. m \in Nat /\ m <= MaxLength
      BY <1>2
    <2>4. Len(lists[a]) = m
      BY <2>2, <2>3
    <2> QED
      BY <2>2, <2>3, <2>4
  <1> QED
    BY <1>2, <1>3, <1>4
\* A position of a name is one in the lists, and holds a declaration of it.
LEMMA PositionFacts ==
    ASSUME lists \in Lists, NEW n, NEW p \in Positions(n)
    PROVE  /\ p[1] \in 1..Len(lists) /\ p[2] \in 1..Len(lists[p[1]])
           /\ p[1] \in Nat /\ p[2] \in Nat /\ p = <<p[1], p[2]>>
           /\ At(p) \in Definitions /\ At(p).name = n
  <1>1. /\ p \in (1..Len(lists)) \X (1..MaxLength)
        /\ p[2] <= Len(lists[p[1]]) /\ lists[p[1]][p[2]].name = n
    BY DEF Positions
  <1>2. /\ p[1] \in 1..Len(lists) /\ p[2] \in 1..MaxLength /\ p = <<p[1], p[2]>>
    BY <1>1
  <1>3. Len(lists) \in Nat /\ MaxLength \in Nat /\ Len(lists[p[1]]) \in Nat
    BY <1>2, ListsShape, InputsAssumption
  <1>4. p[1] \in Nat /\ p[2] \in Nat /\ p[2] \in 1..Len(lists[p[1]])
    BY <1>1, <1>2, <1>3
  <1>5. lists[p[1]][p[2]] \in Definitions
    BY <1>2, <1>4, ListsShape
  <1> QED
    BY <1>1, <1>2, <1>4, <1>5 DEF At

\* The loop body stands at a position of the name it adds.
LEMMA PositionHere ==
    ASSUME LoopOK, i <= Len(lists), j <= Len(lists[i])
    PROVE  <<i, j>> \in Positions(lists[i][j].name)
  <1>1. i \in 1..Len(lists) /\ Len(lists[i]) \in Nat /\ Len(lists[i]) <= MaxLength
    BY ListsShape DEF LoopOK
  <1>2. j \in 1..MaxLength
    BY <1>1, InputsAssumption DEF LoopOK
  <1> QED
    BY <1>1, <1>2 DEF Positions

\* What the steps of the loops pass.
LEMMA PassedByAdd ==
    ASSUME LoopOK, AddMetric, NEW n
    PROVE  /\ n # lists[i][j].name => PassedPositions(n)' = PassedPositions(n)
           /\ n = lists[i][j].name =>
                 PassedPositions(n)' = PassedPositions(n) \cup {<<i, j>>}
  <1>1. /\ UNCHANGED lists /\ i' = i /\ j' = j + 1
        /\ i <= Len(lists) /\ j <= Len(lists[i]) /\ i \in Nat /\ j \in Nat
    BY DEF AddMetric, LoopOK
  <1>2. Positions(n)' = Positions(n)
    BY <1>1 DEF Positions
  <1>3. ASSUME NEW p \in Positions(n)
        PROVE  Passed(p)' <=> Passed(p) \/ p = <<i, j>>
    BY <1>1, PositionFacts DEF Passed, LoopOK
  <1>4. <<i, j>> \in Positions(lists[i][j].name)
    BY <1>1, PositionHere
  <1>5. <<i, j>> \in Positions(n) => n = lists[i][j].name
    BY <1>1, PositionFacts DEF At, LoopOK
  <1> QED
    BY <1>2, <1>3, <1>4, <1>5 DEF PassedPositions

LEMMA PassedByNextList ==
    ASSUME LoopOK, NextList, NEW n
    PROVE  PassedPositions(n)' = PassedPositions(n)
  <1>1. /\ UNCHANGED lists /\ i' = i + 1 /\ j' = 1
        /\ j > Len(lists[i]) /\ i \in Nat /\ j \in Nat
    BY DEF NextList, LoopOK
  <1>2. Positions(n)' = Positions(n)
    BY <1>1 DEF Positions
  <1>3. ASSUME NEW p \in Positions(n) PROVE Passed(p)' <=> Passed(p)
    <2>1. /\ p[1] \in Nat /\ p[2] \in Nat /\ p[2] >= 1
          /\ p[1] = i => p[2] <= Len(lists[i]) /\ Len(lists[i]) \in Nat
      BY PositionFacts, ListsShape DEF LoopOK
    <2> QED
      BY <1>1, <2>1 DEF Passed
  <1> QED
    BY <1>2, <1>3 DEF PassedPositions

\* Before the first turn nothing is passed; after the last one everything is.
LEMMA PassedAtStart ==
    ASSUME lists \in Lists, i = 1, j = 1 PROVE PassedNames = {}
  <1>1. ASSUME NEW n, NEW p \in PassedPositions(n) PROVE FALSE
    <2>1. p \in Positions(n) /\ (p[1] < 1 \/ (p[1] = 1 /\ p[2] < 1))
      BY DEF PassedPositions, Passed
    <2>2. p[1] \in Nat /\ p[2] \in Nat /\ p[1] >= 1 /\ p[2] >= 1
      BY <2>1, PositionFacts, ListsShape
    <2> QED
      BY <2>1, <2>2
  <1> QED
    BY <1>1 DEF PassedNames

LEMMA PassedAtEnd ==
    ASSUME lists \in Lists, i = Len(lists) + 1, NEW n
    PROVE  PassedPositions(n) = Positions(n)
  <1>1. ASSUME NEW p \in Positions(n) PROVE p[1] < i
    BY PositionFacts, ListsShape
  <1> QED
    BY <1>1 DEF PassedPositions, Passed
LEMMA FreshShape ==
    ASSUME merged = Fresh, PassedNames = {}
    PROVE  Shape(merged, PassedNames)
  BY DEF Shape, Fresh, Empty

LEMMA PositionInit == Init => PositionInv
  <1> SUFFICES ASSUME Init PROVE PositionInv
    OBVIOUS
  <1>1. lists \in Lists /\ i = 1 /\ j = 1 /\ merged = Fresh /\ pc = "merge"
    BY DEF Init
  <1>2. PassedNames = {} /\ i <= Len(lists)
    BY <1>1, PassedAtStart, ListsShape
  <1> QED
    BY <1>1, <1>2, FreshShape DEF PositionInv

\* The invariant depends on the merge and on what the loops have passed only.
LEMMA PositionKept ==
    ASSUME PositionInv, UNCHANGED <<preset, lists, merged>>,
           \A n : PassedPositions(n)' = PassedPositions(n),
           pc' \in {"merge", "render", "done", "error"},
           IF pc' = "merge" THEN i' <= Len(lists) ELSE i' = Len(lists) + 1
    PROVE  PositionInv'
  <1>1. PassedNames' = PassedNames
    BY DEF PassedNames
  <1>2. Shape(merged, PassedNames)'
    BY <1>1 DEF PositionInv, Shape
  <1>3. ASSUME NEW n \in PassedNames'
        PROVE  \E p \in PassedPositions(n)' :
                  /\ \A q \in PassedPositions(n)' : NotAfter(q, p)
                  /\ TakenFrom(merged, n, p)'
    <2>1. PICK p \in PassedPositions(n) :
              /\ \A q \in PassedPositions(n) : NotAfter(q, p)
              /\ TakenFrom(merged, n, p)
      BY <1>1, <1>3 DEF PositionInv
    <2>2. TakenFrom(merged, n, p)'
      BY <2>1 DEF TakenFrom, At
    <2> QED
      BY <2>1, <2>2
  <1> QED
    BY <1>2, <1>3 DEF PositionInv

\* A declaration just added is the last one of its name among those passed.
LEMMA PositionStep == LoopOK /\ PositionInv /\ [Next]_vars => PositionInv'
  <1> SUFFICES ASSUME LoopOK, PositionInv, [Next]_vars PROVE PositionInv'
    OBVIOUS
  <1>1. CASE AddMetric
    <2> DEFINE d == lists[i][j]
    <2>1. d \in Definitions /\ d.name \in Names
      BY <1>1, DeclarationRead DEF AddMetric, LoopOK, Names
    <2>2. PICK sqls \in ParsedSQLs(d) :
              merged' = [merged EXCEPT
                 !.intervals = Put(merged.intervals, d.name, Seconds(d)),
                 !.definitions = Put(merged.definitions, d.name, Definition(d, sqls))]
      BY <1>1 DEF AddMetric
    <2>3. /\ pc = "merge" /\ pc' = "merge" /\ i' = i /\ i <= Len(lists)
          /\ UNCHANGED <<lists, preset>>
      BY <1>1 DEF AddMetric
    <2>a. PICK here : here = <<i, j>>
      OBVIOUS
    <2>4. \A n : /\ n # d.name => PassedPositions(n)' = PassedPositions(n)
                 /\ n = d.name => PassedPositions(n)' = PassedPositions(n) \cup {here}
      BY <1>1, <2>a, PassedByAdd
    <2>5. At(here) = d /\ \A p : At(p)' = At(p)
      BY <2>3, <2>a DEF At
    <2> HIDE DEF d
    <2>6. PassedNames' = PassedNames \cup {d.name}
      BY <2>1, <2>4 DEF PassedNames
    <2>7. /\ DOMAIN merged.intervals = PassedNames
          /\ DOMAIN merged.definitions = PassedNames
      BY DEF PositionInv, Shape
    <2>8. /\ merged'.intervals = Put(merged.intervals, d.name, Seconds(d))
          /\ merged'.definitions = Put(merged.definitions, d.name, Definition(d, sqls))
          /\ merged' = [preset |-> preset, intervals |-> merged'.intervals,
                        definitions |-> merged'.definitions]
      <3>1. PICK f, g : merged = [preset |-> preset, intervals |-> f, definitions |-> g]
        BY DEF PositionInv, Shape
      <3> QED
        BY <2>2, <3>1
    <2>9. Shape(merged, PassedNames)'
      <3>1. /\ merged'.intervals = [n \in PassedNames' |-> merged'.intervals[n]]
            /\ merged'.definitions = [n \in PassedNames' |-> merged'.definitions[n]]
        BY <2>6, <2>7, <2>8 DEF Put
      <3> QED
        BY <2>3, <2>8, <3>1 DEF Shape
    <2>10. ASSUME NEW n \in PassedNames'
           PROVE  \E p \in PassedPositions(n)' :
                     /\ \A q \in PassedPositions(n)' : NotAfter(q, p)
                     /\ TakenFrom(merged, n, p)'
      <3>1. CASE n = d.name
        <4>1. /\ merged'.intervals[n] = Seconds(d)
              /\ merged'.definitions[n] = Definition(d, sqls)
          BY <2>8, <3>1 DEF Put
        <4>2. TakenFrom(merged, n, here)'
          BY <2>2, <2>5, <4>1 DEF TakenFrom
        <4>3. ASSUME NEW q \in PassedPositions(n)' PROVE NotAfter(q, here)
          <5>1. q = here \/ (Passed(q) /\ q \in Positions(n))
            BY <2>4, <3>1 DEF PassedPositions
          <5>2. i \in Nat /\ j \in Nat /\ here[1] = i /\ here[2] = j
            BY <2>a DEF LoopOK
          <5>3. CASE q = here
            BY <5>2, <5>3 DEF NotAfter
          <5>4. CASE Passed(q) /\ q \in Positions(n)
            <6>1. q[1] \in Nat /\ q[2] \in Nat
              BY <5>4, PositionFacts DEF LoopOK
            <6> QED
              BY <5>2, <5>4, <6>1 DEF Passed, NotAfter
          <5> QED
            BY <5>1, <5>3, <5>4
        <4>4. here \in PassedPositions(n)'
          BY <2>4, <3>1
        <4> QED
          BY <4>2, <4>3, <4>4
      <3>2. CASE n # d.name
        <4>1. n \in PassedNames /\ PassedPositions(n)' = PassedPositions(n)
          BY <2>4, <2>6, <3>2
        <4>2. PICK p \in PassedPositions(n) :
                  /\ \A q \in PassedPositions(n) : NotAfter(q, p)
                  /\ TakenFrom(merged, n, p)
          BY <4>1 DEF PositionInv
        <4>3. /\ merged'.intervals[n] = merged.intervals[n]
              /\ merged'.definitions[n] = merged.definitions[n]
          BY <2>7, <2>8, <3>2, <4>1 DEF Put
        <4>4. TakenFrom(merged, n, p)'
          BY <2>5, <4>2, <4>3 DEF TakenFrom
        <4> QED
          BY <4>1, <4>2, <4>4
      <3> QED
        BY <3>1, <3>2
    <2> QED
      BY <2>3, <2>9, <2>10 DEF PositionInv
  <1>2. CASE NextList
    <2>1. /\ UNCHANGED <<preset, lists, merged>> /\ i' = i + 1 /\ i <= Len(lists)
          /\ pc' = IF i = Len(lists) THEN "render" ELSE "merge"
      BY <1>2 DEF NextList
    <2>2. i \in Nat /\ Len(lists) \in Nat
      BY ListsShape DEF LoopOK
    <2>3. \A n : PassedPositions(n)' = PassedPositions(n)
      BY <1>2, PassedByNextList
    <2>4. /\ pc' \in {"merge", "render", "done", "error"}
          /\ IF pc' = "merge" THEN i' <= Len(lists) ELSE i' = Len(lists) + 1
      BY <2>1, <2>2
    <2> QED
      BY <2>1, <2>3, <2>4, PositionKept
  <1>3. CASE BuildConfigMap
    <2>1. /\ UNCHANGED <<preset, lists, merged, i, j>> /\ pc = "render"
          /\ pc' \in {"done", "error"}
      BY <1>3 DEF BuildConfigMap
    <2>2. \A n : PassedPositions(n)' = PassedPositions(n)
      BY <2>1 DEF PassedPositions, Positions, Passed
    <2>3. i' = Len(lists) + 1
      BY <2>1 DEF PositionInv
    <2> QED
      BY <2>1, <2>2, <2>3, PositionKept
  <1>4. CASE ReconcileAgain
    <2>1. /\ UNCHANGED <<preset, lists>> /\ i' = 1 /\ j' = 1 /\ merged' = Fresh
          /\ pc' = "merge"
      BY <1>4 DEF ReconcileAgain
    <2>2. Fresh' = Fresh
      BY <2>1 DEF Fresh
    <2>3. PassedNames' = {} /\ Len(lists) \in Nat \ {0}
      <3>1. ASSUME NEW n, NEW p \in Positions(n) PROVE ~Passed(p)'
        <4>1. p[1] \in Nat /\ p[2] \in Nat /\ p[1] >= 1 /\ p[2] >= 1
          BY PositionFacts, ListsShape DEF LoopOK
        <4> QED
          BY <2>1, <4>1 DEF Passed
      <3>2. ASSUME NEW n PROVE PassedPositions(n)' = {}
        BY <2>1, <3>1 DEF PassedPositions, Positions
      <3> QED
        BY <3>2, ListsShape DEF LoopOK, PassedNames
    <2>4. Shape(merged, PassedNames)'
      BY <2>1, <2>2, <2>3 DEF Shape, Fresh, Empty
    <2> QED
      BY <2>1, <2>3, <2>4 DEF PositionInv
  <1>5. CASE UNCHANGED vars
    <2>1. UNCHANGED <<preset, lists, merged, i, j, pc>>
      BY <1>5 DEF vars
    <2>2. \A n : PassedPositions(n)' = PassedPositions(n)
      BY <2>1 DEF PassedPositions, Positions, Passed
    <2> QED
      BY <2>1, <2>2, PositionKept DEF PositionInv
  <1> QED
    BY <1>1, <1>2, <1>3, <1>4, <1>5 DEF Next
-----------------------------------------------------------------------------
\* What the loops leave when they end.

\* A name has one last position, so LastDeclared is the declaration there.
LEMMA LastIsLast ==
    ASSUME lists \in Lists, NEW n, NEW p \in Positions(n),
           \A q \in Positions(n) : NotAfter(q, p)
    PROVE  LastDeclared(n) = At(p)
  <1> DEFINE last == CHOOSE r \in Positions(n) : \A q \in Positions(n) :
                         q[1] < r[1] \/ (q[1] = r[1] /\ q[2] <= r[2])
  <1>1. /\ last \in Positions(n)
        /\ \A q \in Positions(n) :
              q[1] < last[1] \/ (q[1] = last[1] /\ q[2] <= last[2])
    BY DEF NotAfter
  <1>2. LastDeclared(n) = lists[last[1]][last[2]]
    BY DEF LastDeclared
  <1> HIDE DEF last
  <1>3. last[1] \in Nat /\ last[2] \in Nat /\ p[1] \in Nat /\ p[2] \in Nat
    BY <1>1, PositionFacts
  <1>4. last[1] = p[1] /\ last[2] = p[2]
    BY <1>1, <1>3 DEF NotAfter
  <1> QED
    BY <1>2, <1>4 DEF At

LEMMA MergedAtEnd ==
    ASSUME LoopOK, PositionInv, pc # "merge"
    PROVE  /\ Shape(merged, Declared)
           /\ \A n \in Declared :
                 /\ LastDeclared(n) \in Definitions
                 /\ merged.intervals[n] = Seconds(LastDeclared(n))
                 /\ \E sqls \in ParsedSQLs(LastDeclared(n)) :
                       merged.definitions[n] = Definition(LastDeclared(n), sqls)
  <1>1. \A n : PassedPositions(n) = Positions(n)
    BY PassedAtEnd DEF LoopOK, PositionInv
  <1>2. PassedNames = Declared
    BY <1>1 DEF PassedNames, Declared
  <1>3. ASSUME NEW n \in Declared
        PROVE  /\ LastDeclared(n) \in Definitions
               /\ merged.intervals[n] = Seconds(LastDeclared(n))
               /\ \E sqls \in ParsedSQLs(LastDeclared(n)) :
                     merged.definitions[n] = Definition(LastDeclared(n), sqls)
    <2>1. PICK p \in Positions(n) :
              /\ \A q \in Positions(n) : NotAfter(q, p)
              /\ TakenFrom(merged, n, p)
      BY <1>1, <1>2 DEF PositionInv
    <2>2. LastDeclared(n) = At(p) /\ At(p) \in Definitions
      BY <2>1, LastIsLast, PositionFacts DEF LoopOK
    <2> QED
      BY <2>1, <2>2 DEF TakenFrom
  <1> QED
    BY <1>2, <1>3 DEF PositionInv

\* The files are the rendering of the merge, and the hash is theirs.
RenderInv ==
    pc = "done" =>
        /\ data = Rendered(merged) /\ hash \in ContentHashes(data)
        /\ merged.preset # NoPreset /\ HasCustom(merged) => ~UnknownPreset(merged)

LEMMA RenderStep == RenderInv /\ [Next]_vars => RenderInv'
  <1> SUFFICES ASSUME RenderInv, [Next]_vars, pc' = "done" PROVE RenderInv'
    BY DEF RenderInv
  <1>1. CASE BuildConfigMap
    BY <1>1 DEF BuildConfigMap, RenderInv, HasCustom, UnknownPreset, Rendered,
                EmitsMetrics, RenderSources, RenderMetrics, ContentHashes
  <1>2. CASE UNCHANGED vars
    BY <1>2 DEF vars, RenderInv, HasCustom, UnknownPreset, Rendered,
                EmitsMetrics, RenderSources, RenderMetrics, ContentHashes
  <1>3. ~AddMetric /\ ~NextList /\ ~ReconcileAgain
    BY DEF AddMetric, NextList, ReconcileAgain
  <1> QED
    BY <1>1, <1>2, <1>3 DEF Next

\* pgwatch reads back from the two files what was merged.
LEMMA RenderedUnion ==
    ASSUME LoopOK, PositionInv, RenderInv, pc = "done"
    PROVE  CollectsTheUnion
  <1>1. /\ merged.preset = preset
        /\ DOMAIN merged.intervals = Declared /\ DOMAIN merged.definitions = Declared
    BY MergedAtEnd DEF Shape
  <1>2. /\ data = Rendered(merged)
        /\ preset # NoPreset /\ Declared # {} => preset \in DOMAIN BuiltinPresets
    BY <1>1 DEF RenderInv, HasCustom, UnknownPreset
  <1>3. DOMAIN Empty = {}
    BY DEF Empty
  <1>4. SUFFICES
          /\ DOMAIN Active \cap DOMAIN Registry.metrics
                = Declared \cup (DOMAIN FromPreset \cap DOMAIN BuiltinMetrics)
          /\ \A n \in Declared : /\ Active[n] = merged.intervals[n]
                                 /\ Registry.metrics[n] = merged.definitions[n]
          /\ \A n \in (DOMAIN FromPreset \cap DOMAIN BuiltinMetrics) \ Declared :
                /\ Active[n] = FromPreset[n]
                /\ Registry.metrics[n] = BuiltinMetrics[n]
    BY MergedAtEnd DEF CollectsTheUnion, Collected
  <1> HIDE DEF Empty, Declared, LoopOK, PositionInv, RenderInv
  <1>5. CASE preset = NoPreset
    <2>1. FromPreset = Empty
      BY <1>5, InputsAssumption DEF FromPreset
    <2>2. data["sources.yaml"] = [preset_metrics |-> NoPreset,
                                  custom_metrics |-> merged.intervals]
      BY <1>1, <1>2, <1>5 DEF Rendered, RenderSources
    <2>3. Active = merged.intervals
      BY <2>2 DEF Active
    <2>4. Declared # {} => Registry.metrics = merged.definitions
      BY <1>1, <1>2, <1>5 DEF Registry, PassesMetrics, Rendered, EmitsMetrics,
                              RenderMetrics
    <2> QED
      BY <1>1, <1>3, <2>1, <2>3, <2>4
  <1>6. CASE preset # NoPreset
    <2>1. /\ data["metrics.yaml"] = RenderMetrics(merged)
          /\ data["sources.yaml"] = RenderSources(merged)
      BY <1>1, <1>2, <1>6 DEF Rendered, EmitsMetrics
    <2>2. /\ Registry.metrics = Copy(BuiltinMetrics, merged.definitions)
          /\ Registry.presets = BuiltinPresets
      BY <1>1, <1>6, <2>1 DEF Registry, PassesMetrics, RenderMetrics
    <2>3. CASE Declared # {}
      <3>1. /\ FromPreset = BuiltinPresets[preset]
            /\ Active = Copy(BuiltinPresets[preset], merged.intervals)
        BY <1>1, <1>2, <1>6, <2>1, <2>3
        DEF FromPreset, Active, RenderSources, HasCustom
      <3> QED
        BY <1>1, <2>2, <3>1 DEF Copy
    <2>4. CASE Declared = {}
      <3>1. Active = FromPreset
        BY <1>1, <1>6, <2>1, <2>2, <2>4
        DEF FromPreset, Active, RenderSources, HasCustom
      <3> QED
        BY <1>1, <2>2, <2>4, <3>1 DEF Copy
    <2> QED
      BY <2>3, <2>4
  <1> QED
    BY <1>5, <1>6

\* For any registry and any lists: pgwatch collects the preset's metrics and the
\* declared ones, and each declared one as its last declaration says, although
\* pgwatch's preset_metrics replaces custom_metrics and --metrics replaces the
\* embedded registry.
THEOREM CollectsTheUnionTheorem == Spec => []CollectsTheUnion
  <1>1. MergeInv => LoopOK
    BY DEF MergeInv
  <1>2. LoopOK /\ PositionInv /\ RenderInv => CollectsTheUnion
    BY RenderedUnion DEF CollectsTheUnion
  <1>3. Init => RenderInv
    BY DEF Init, RenderInv
  <1> QED
    BY <1>1, <1>2, <1>3, MergeInit, MergeStep, PositionInit, PositionStep,
       RenderStep, PTL DEF Spec
-----------------------------------------------------------------------------
(***************************************************************************)
(* Two reconciles agree.  The one freedom of the merge is the order in     *)
(* which Go walks a declaration's SQLs map, and it matters only when two   *)
(* keys spell one version ("13" and "013") and their statements differ, in *)
(* a declaration that no later one overrides.                              *)
(***************************************************************************)
Unambiguous == \A n \in Declared : ~Ambiguous(LastDeclared(n))

\* Otherwise the map that addMetric builds does not depend on the order.
LEMMA ParsedOnce ==
    ASSUME NEW d, ~Ambiguous(d),
           NEW f \in ParsedSQLs(d), NEW g \in ParsedSQLs(d)
    PROVE  f = g
  <1> DEFINE keys == {k \in DOMAIN d.sqls : Atoi[k] # NaN}
             versions == {Atoi[k] : k \in keys}
             statements == {d.sqls[k] : k \in keys}
  <1>1. /\ f \in [versions -> statements] /\ g \in [versions -> statements]
        /\ \A v \in versions : \E k \in keys : Atoi[k] = v /\ f[v] = d.sqls[k]
        /\ \A v \in versions : \E k \in keys : Atoi[k] = v /\ g[v] = d.sqls[k]
    BY DEF ParsedSQLs
  <1>2. ASSUME NEW v \in versions PROVE f[v] = g[v]
    <2>1. PICK k \in keys : Atoi[k] = v /\ f[v] = d.sqls[k]
      BY <1>1
    <2>2. PICK l \in keys : Atoi[l] = v /\ g[v] = d.sqls[l]
      BY <1>1
    <2> QED
      BY <2>1, <2>2 DEF Ambiguous
  <1> HIDE DEF versions, statements
  <1> QED
    BY <1>1, <1>2

\* What every merge of this preset and these lists then arrives at.
SQLsOf(d) == CHOOSE f \in ParsedSQLs(d) : TRUE
MergeOfInput ==
    [preset |-> preset,
     intervals |-> [n \in Declared |-> Seconds(LastDeclared(n))],
     definitions |-> [n \in Declared |->
                         Definition(LastDeclared(n), SQLsOf(LastDeclared(n)))]]

FirstInv ==
    Unambiguous /\ first # NoHash => first \in ContentHashes(Rendered(MergeOfInput))

LEMMA MergeDetermined ==
    ASSUME LoopOK, PositionInv, Unambiguous, pc # "merge"
    PROVE  merged = MergeOfInput
  <1>1. ASSUME NEW n \in Declared
        PROVE  /\ merged.intervals[n] = Seconds(LastDeclared(n))
               /\ merged.definitions[n] =
                      Definition(LastDeclared(n), SQLsOf(LastDeclared(n)))
    <2>1. PICK sqls \in ParsedSQLs(LastDeclared(n)) :
              merged.definitions[n] = Definition(LastDeclared(n), sqls)
      BY MergedAtEnd
    <2>2. sqls = SQLsOf(LastDeclared(n))
      BY <2>1, ParsedOnce DEF SQLsOf, Unambiguous
    <2> QED
      BY <2>1, <2>2, MergedAtEnd
  <1>2. Shape(merged, Declared)
    BY MergedAtEnd
  <1> QED
    BY <1>1, <1>2 DEF Shape, MergeOfInput

\* The input, and so what it merges to, is never written.
LEMMA InputKept ==
    ASSUME [Next]_vars
    PROVE  MergeOfInput' = MergeOfInput /\ Unambiguous' = Unambiguous
  <1>1. UNCHANGED <<preset, lists>>
    BY DEF Next, AddMetric, NextList, BuildConfigMap, ReconcileAgain, vars
  <1>2. \A n : Positions(n)' = Positions(n)
    BY <1>1 DEF Positions
  <1>3. Declared' = Declared
    BY <1>2 DEF Declared
  <1>4. \A n : LastDeclared(n)' = LastDeclared(n)
    BY <1>1, <1>2 DEF LastDeclared
  <1>5. MergeOfInput' = MergeOfInput
    BY <1>1, <1>3, <1>4 DEF MergeOfInput
  <1>6. Unambiguous' = Unambiguous
    BY <1>3, <1>4 DEF Unambiguous
  <1> QED
    BY <1>5, <1>6

LEMMA FirstStep ==
    LoopOK /\ PositionInv /\ RenderInv /\ FirstInv /\ [Next]_vars => FirstInv'
  <1> SUFFICES ASSUME LoopOK, PositionInv, RenderInv, FirstInv, [Next]_vars,
                      Unambiguous', first' # NoHash
               PROVE  first' \in ContentHashes(Rendered(MergeOfInput))'
    BY DEF FirstInv
  <1>0. Unambiguous
    BY InputKept
  <1>1. ContentHashes(Rendered(MergeOfInput))' = ContentHashes(Rendered(MergeOfInput))
    BY InputKept DEF ContentHashes, Rendered, EmitsMetrics, RenderSources,
                     RenderMetrics, HasCustom
  <1>2. CASE ReconcileAgain
    <2>1. first' = hash /\ pc = "done"
      BY <1>2 DEF ReconcileAgain
    <2> QED
      BY <1>0, <1>1, <2>1, MergeDetermined DEF RenderInv
  <1>3. CASE UNCHANGED first
    BY <1>0, <1>1, <1>3 DEF FirstInv
  <1> QED
    BY <1>2, <1>3 DEF Next, AddMetric, NextList, BuildConfigMap, vars

\* For any registry and any lists, ambiguous declarations included: a hash moves
\* without a change of the spec only if a declaration that decides a metric is
\* ambiguous, in whatever order the maps are walked.
THEOREM HashMovesOnlyByMapOrderTheorem == Spec => []HashMovesOnlyByMapOrder
  <1>1. MergeInv => LoopOK
    BY DEF MergeInv
  <1>2. LoopOK /\ PositionInv /\ RenderInv /\ FirstInv => HashMovesOnlyByMapOrder
    <2> SUFFICES ASSUME LoopOK, PositionInv, RenderInv, FirstInv,
                        pc = "done", first # NoHash, Unambiguous
                 PROVE  hash = first
      BY DEF HashMovesOnlyByMapOrder, Unambiguous
    <2>1. merged = MergeOfInput
      BY MergeDetermined
    <2>2. /\ hash \in ContentHashes(Rendered(merged))
          /\ first \in ContentHashes(Rendered(merged))
      BY <2>1 DEF RenderInv, FirstInv
    <2> QED
      BY <2>2 DEF ContentHashes
  <1>3. Init => RenderInv
    BY DEF Init, RenderInv
  <1>4. Init => FirstInv
    BY DEF Init, FirstInv
  <1> QED
    BY <1>1, <1>2, <1>3, <1>4, MergeInit, MergeStep, PositionInit, PositionStep,
       RenderStep, FirstStep, PTL DEF Spec
=============================================================================
