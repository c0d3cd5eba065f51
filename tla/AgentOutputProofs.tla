--------------------------- MODULE AgentOutputProofs ---------------------------
(***************************************************************************)
(* The columns that are delivered, for every plan a model may write: they  *)
(* were read or computed by the executor, and none was created that is not *)
(* approved.  The argument goes through the plan twice, once as the        *)
(* planning steps validate it (Availability) and once as the executor      *)
(* carries it out (Execution), and compares the two operation by           *)
(* operation.  The sort of the derivations is a third account of the same  *)
(* columns (Passes); what it does to the operations is proved beside it.   *)
(***************************************************************************)
EXTENDS AgentWorkProofs, NaturalsInduction, WellFoundedInduction

(***************************************************************************)
(* Numbers                                                                 *)
(***************************************************************************)

\* A set of numbers that is not empty has a least one.
LEMMA LeastNumber ==
    ASSUME NEW C, C \subseteq Nat, C # {}
    PROVE  \E n \in C : \A k \in C : n <= k
<1> DEFINE R == OpToRel(<, Nat)
<1>1. PICK n \in C : \A k \in C : <<k, n>> \notin R
  <2>1. IsWellFoundedOn(R, Nat)
    BY NatLessThanWellFounded
  <2> HIDE DEF R
  <2> QED
    BY <2>1, WFMin
<1>2. \A k \in C : ~ (k < n)
  BY <1>1 DEF OpToRel
<1> QED
  BY <1>2

\* What holds of 0 and is handed on holds of every number up to the last.
LEMMA CountingUp ==
    ASSUME NEW N \in Nat, NEW S, 0 \in S, \A n \in 0 .. N : n \in S /\ n < N => n + 1 \in S
    PROVE  0 .. N \subseteq S
<1> DEFINE C == {n \in 0 .. N : n \notin S}
<1> SUFFICES ASSUME C # {}
             PROVE  FALSE
  OBVIOUS
<1>1. PICK m \in C : \A k \in C : m <= k
  <2>1. C \subseteq Nat
    OBVIOUS
  <2> HIDE DEF C
  <2> QED
    BY <2>1, LeastNumber
<1>2. m \in 0 .. N /\ m \notin S
  OBVIOUS
<1>3. m # 0 /\ m - 1 \in 0 .. N /\ m - 1 < N /\ (m - 1) + 1 = m
  BY <1>2
<1>4. m - 1 \in S
  BY <1>1, <1>3
<1> QED
  BY <1>2, <1>3, <1>4

\* The columns after each operation are what the definition says.
LEMMA AvailabilityUnfolds ==
    ASSUME NEW ops, Len(ops) \in Nat, NEW sources
    PROVE  /\ Availability(ops, sources)[0] = sources
           /\ \A n \in 1 .. Len(ops) :
                Availability(ops, sources)[n] = ColumnsAfter(ops[n], Availability(ops, sources)[n - 1])
<1> DEFINE N == Len(ops)
           Unfolds(f, m) == f = [n \in 0 .. m |-> IF n = 0 THEN sources
                                                  ELSE ColumnsAfter(ops[n], f[n - 1])]
           S == {m \in 0 .. N : \E f : Unfolds(f, m)}
<1>1. 0 \in S
  <2>1. Unfolds([n \in 0 .. 0 |-> sources], 0)
    OBVIOUS
  <2> HIDE DEF Unfolds
  <2> QED
    BY <2>1
<1>2. ASSUME NEW m \in 0 .. N, m \in S, m < N
      PROVE  m + 1 \in S
  <2>1. PICK f : Unfolds(f, m)
    BY <1>2
  <2> DEFINE g == [n \in 0 .. (m + 1) |-> IF n = m + 1 THEN ColumnsAfter(ops[m + 1], f[m]) ELSE f[n]]
  <2>2. ASSUME NEW n \in 0 .. (m + 1)
        PROVE  g[n] = IF n = 0 THEN sources ELSE ColumnsAfter(ops[n], g[n - 1])
    <3>1. CASE n = 0
      BY <2>1, <3>1
    <3>2. CASE n = m + 1
      BY <2>1, <3>2
    <3>3. CASE n # 0 /\ n # m + 1
      <4>1. n \in 0 .. m /\ n - 1 \in 0 .. (m + 1) /\ n - 1 # m + 1
        BY <3>3
      <4>2. f[n] = ColumnsAfter(ops[n], f[n - 1])
        BY <2>1, <3>3, <4>1
      <4>3. g[n] = f[n] /\ g[n - 1] = f[n - 1]
        BY <3>3, <4>1
      <4> QED
        BY <3>3, <4>2, <4>3
    <3> QED
      BY <3>1, <3>2, <3>3
  <2>3. Unfolds(g, m + 1)
    BY <2>2
  <2> HIDE DEF Unfolds, g
  <2> QED
    BY <1>2, <2>3
<1>3. N \in S
  <2>1. N \in Nat
    OBVIOUS
  <2> HIDE DEF S, N
  <2>2. 0 .. N \subseteq S
    BY <1>1, <1>2, <2>1, CountingUp
  <2> QED
    BY <2>1, <2>2
<1>4. Availability(ops, sources) = CHOOSE f : Unfolds(f, N)
  BY DEF Availability
<1>5. Unfolds(Availability(ops, sources), N)
  BY <1>3, <1>4
<1> QED
  BY <1>5

\* So are the states of the executor.
LEMMA ExecutionUnfolds ==
    ASSUME NEW ops, Len(ops) \in Nat, NEW read
    PROVE  /\ Execution(ops, read)[0] = Started(read)
           /\ \A n \in 1 .. Len(ops) :
                Execution(ops, read)[n] = Apply(Execution(ops, read)[n - 1], ops[n])
<1> DEFINE N == Len(ops)
           Unfolds(f, m) == f = [n \in 0 .. m |-> IF n = 0 THEN Started(read)
                                                  ELSE Apply(f[n - 1], ops[n])]
           S == {m \in 0 .. N : \E f : Unfolds(f, m)}
<1>1. 0 \in S
  <2>1. Unfolds([n \in 0 .. 0 |-> Started(read)], 0)
    OBVIOUS
  <2> HIDE DEF Unfolds
  <2> QED
    BY <2>1
<1>2. ASSUME NEW m \in 0 .. N, m \in S, m < N
      PROVE  m + 1 \in S
  <2>1. PICK f : Unfolds(f, m)
    BY <1>2
  <2> DEFINE g == [n \in 0 .. (m + 1) |-> IF n = m + 1 THEN Apply(f[m], ops[m + 1]) ELSE f[n]]
  <2>2. ASSUME NEW n \in 0 .. (m + 1)
        PROVE  g[n] = IF n = 0 THEN Started(read) ELSE Apply(g[n - 1], ops[n])
    <3>1. CASE n = 0
      BY <2>1, <3>1
    <3>2. CASE n = m + 1
      BY <2>1, <3>2
    <3>3. CASE n # 0 /\ n # m + 1
      <4>1. n \in 0 .. m /\ n - 1 \in 0 .. (m + 1) /\ n - 1 # m + 1
        BY <3>3
      <4>2. f[n] = Apply(f[n - 1], ops[n])
        BY <2>1, <3>3, <4>1
      <4>3. g[n] = f[n] /\ g[n - 1] = f[n - 1]
        BY <3>3, <4>1
      <4> QED
        BY <3>3, <4>2, <4>3
    <3> QED
      BY <3>1, <3>2, <3>3
  <2>3. Unfolds(g, m + 1)
    BY <2>2
  <2> HIDE DEF Unfolds, g
  <2> QED
    BY <1>2, <2>3
<1>3. N \in S
  <2>1. N \in Nat
    OBVIOUS
  <2> HIDE DEF S, N
  <2>2. 0 .. N \subseteq S
    BY <1>1, <1>2, <2>1, CountingUp
  <2> QED
    BY <2>1, <2>2
<1>4. Execution(ops, read) = CHOOSE f : Unfolds(f, N)
  BY DEF Execution
<1>5. Unfolds(Execution(ops, read), N)
  BY <1>3, <1>4
<1> QED
  BY <1>5

(***************************************************************************)
(* What is counted as there is there                                       *)
(***************************************************************************)

\* The parts of the executor's state that the lemmas change.
IsState(s) == {"columns", "present", "real"} \subseteq DOMAIN s

\* Writing adds columns, replacing keeps those that are named.
LEMMA RealWritten ==
    ASSUME NEW s, IsState(s), NEW c, NEW written
    PROVE  /\ IsState(Writes(s, c)) /\ Writes(s, c).real = s.real \cup c
           /\ IsState(Replaced(s, c, written))
           /\ Replaced(s, c, written).real = (s.real \cap c) \cup written
<1>1. IsState(Writes(s, c)) /\ Writes(s, c).real = s.real \cup c
  BY DEF Writes, IsState
<1>2. /\ IsState(Replaced(s, c, written))
      /\ Replaced(s, c, written).real = (s.real \cap c) \cup written
  BY DEF Replaced, IsState
<1> QED
  BY <1>1, <1>2

\* What an operation leaves of the columns that were read or computed, and adds
\* to them.
LEMMA RealAfter ==
    ASSUME NEW s, IsState(s), NEW op
    PROVE  /\ IsState(Apply(s, op))
           /\ op.type = "window_aggregate" => Apply(s, op).real = s.real \cup Targets(op)
           /\ op.type = "aggregate" =>
                Apply(s, op).real = (s.real \cap (op.groupBy \cup Targets(op))) \cup Targets(op)
           /\ op.type = "select_columns" => Apply(s, op).real = (s.real \cap op.columns) \cup {}
           /\ op.type \in {"cast", "fill_missing", "deduplicate", "sort"} =>
                Apply(s, op).real = s.real
           /\ op.type \notin {"cast", "fill_missing", "deduplicate", "window_aggregate",
                              "aggregate", "select_columns", "sort"} =>
                Apply(s, op).real = s.real \cup {op.target}
<1>1. CASE op.type = "cast"
  BY <1>1 DEF Apply, IsState
<1>2. CASE op.type = "fill_missing"
  <2>1. Apply(s, op) = FillMissing(s, op)
    BY <1>2 DEF Apply
  <2>2. IsState(FillMissing(s, op)) /\ FillMissing(s, op).real = s.real
    BY DEF FillMissing, Reads, IsState
  <2> QED
    BY <1>2, <2>1, <2>2
<1>3. CASE op.type = "deduplicate"
  <2>1. Apply(s, op) = Reads(s, IF op.sources = {} THEN s.columns ELSE op.sources)
    BY <1>3 DEF Apply
  <2>2. \A columns : IsState(Reads(s, columns)) /\ Reads(s, columns).real = s.real
    BY DEF Reads, IsState
  <2> QED
    BY <1>3, <2>1, <2>2
<1>4. CASE op.type = "window_aggregate"
  <2>1. Apply(s, op) = Writes(s, Targets(op))
    BY <1>4 DEF Apply
  <2>2. /\ IsState(Writes(s, Targets(op)))
        /\ Writes(s, Targets(op)).real = s.real \cup Targets(op)
    BY RealWritten
  <2> QED
    BY <1>4, <2>1, <2>2
<1>5. CASE op.type = "aggregate"
  <2>1. Apply(s, op) = Replaced(s, op.groupBy \cup Targets(op), Targets(op))
    BY <1>5 DEF Apply
  <2>2. /\ IsState(Replaced(s, op.groupBy \cup Targets(op), Targets(op)))
        /\ Replaced(s, op.groupBy \cup Targets(op), Targets(op)).real =
             (s.real \cap (op.groupBy \cup Targets(op))) \cup Targets(op)
    BY RealWritten
  <2> QED
    BY <1>5, <2>1, <2>2
<1>6. CASE op.type = "select_columns"
  <2>1. Apply(s, op) = Replaced(s, op.columns, {})
    BY <1>6 DEF Apply
  <2>2. /\ IsState(Replaced(s, op.columns, {}))
        /\ Replaced(s, op.columns, {}).real = (s.real \cap op.columns) \cup {}
    BY RealWritten
  <2> QED
    BY <1>6, <2>1, <2>2
<1>7. CASE op.type = "sort"
  BY <1>7 DEF Apply
<1>8. CASE op.type \notin {"cast", "fill_missing", "deduplicate", "window_aggregate",
                           "aggregate", "select_columns", "sort"}
  <2>1. Apply(s, op) = Writes(s, {op.target})
    BY <1>8 DEF Apply
  <2>2. IsState(Writes(s, {op.target})) /\ Writes(s, {op.target}).real = s.real \cup {op.target}
    BY RealWritten
  <2> QED
    BY <1>8, <2>1, <2>2
<1> QED
  BY <1>1, <1>2, <1>3, <1>4, <1>5, <1>6, <1>7, <1>8

\* Across one operation that the lineage accepts, every column that counts as
\* there is one that was read or computed, or a target that nothing writes.
LEMMA OneOperation ==
    ASSUME NEW s, IsState(s), NEW op, NEW available, OperationHolds(op, available),
           NEW P, available \subseteq s.real \cup P,
           ~ Derives(op) /\ op.type # "aggregate" /\ op.target # NoColumn => op.target \in P
    PROVE  ColumnsAfter(op, available) \subseteq Apply(s, op).real \cup P
<1>1. CASE op.type = "window_aggregate"
  <2>1. ColumnsAfter(op, available) = available \cup Targets(op)
    BY <1>1 DEF ColumnsAfter
  <2>2. Apply(s, op).real = s.real \cup Targets(op)
    BY <1>1, RealAfter
  <2> QED
    BY <2>1, <2>2
<1>2. CASE op.type = "aggregate"
  <2>1. ColumnsAfter(op, available) = op.groupBy \cup Targets(op)
    BY <1>2 DEF ColumnsAfter
  <2>2. Apply(s, op).real = (s.real \cap (op.groupBy \cup Targets(op))) \cup Targets(op)
    BY <1>2, RealAfter
  <2>3. op.groupBy \subseteq available
    BY <1>2 DEF OperationHolds, Aggregates
  <2> QED
    BY <2>1, <2>2, <2>3
<1>3. CASE op.type = "select_columns"
  <2>1. ColumnsAfter(op, available) = op.columns
    BY <1>3 DEF ColumnsAfter
  <2>2. Apply(s, op).real = (s.real \cap op.columns) \cup {}
    BY <1>3, RealAfter
  <2>3. op.columns \subseteq available
    BY <1>3 DEF OperationHolds
  <2> QED
    BY <2>1, <2>2, <2>3
<1>4. CASE op.type \notin {"window_aggregate", "aggregate", "select_columns"}
  <2>1. ColumnsAfter(op, available) = available \cup ({op.target} \ {NoColumn})
    BY <1>4 DEF ColumnsAfter
  <2>2. CASE op.type \in {"cast", "fill_missing", "deduplicate", "sort"}
    <3>1. Apply(s, op).real = s.real
      BY <1>4, <2>2, RealAfter
    <3>2. op.target # NoColumn => op.target \in P
      BY <2>2 DEF Derives, DerivedTypes, Expressions
    <3> QED
      BY <2>1, <3>1, <3>2
  <2>3. CASE op.type \notin {"cast", "fill_missing", "deduplicate", "sort"}
    <3>1. Apply(s, op).real = s.real \cup {op.target}
      BY <1>4, <2>3, RealAfter
    <3> QED
      BY <2>1, <3>1
  <2> QED
    BY <2>2, <2>3
<1> QED
  BY <1>1, <1>2, <1>3, <1>4

\* Whatever operations a model writes: when the lineage accepts them, every
\* column it counts as there was read or computed by the executor, or is the
\* target of an operation that writes none (validate_processing_operations of
\* plan.py against _execute_plan of processor.py).
THEOREM LineageIsReal ==
    ASSUME NEW plan, Len(plan.operations) \in Nat,
           DOMAIN plan.operations = 1 .. Len(plan.operations),
           NEW read, Lineage(plan.operations, read).ok
    PROVE  Lineage(plan.operations, read).available
              \subseteq Execute(plan, read).real \cup Phantoms(plan)
<1> DEFINE ops == plan.operations
           N == Len(ops)
           P == Phantoms(plan)
           columns == Availability(ops, read)
           state == Execution(ops, read)
           S == {n \in 0 .. N : IsState(state[n]) /\ columns[n] \subseteq state[n].real \cup P}
<1>1. 0 \in S
  <2>1. columns[0] = read /\ state[0] = Started(read)
    BY AvailabilityUnfolds, ExecutionUnfolds
  <2>2. IsState(Started(read)) /\ Started(read).real = read
    BY DEF IsState, Started
  <2> HIDE DEF columns, state, P
  <2> QED
    BY <2>1, <2>2
<1>2. ASSUME NEW n \in 0 .. N, n \in S, n < N
      PROVE  n + 1 \in S
  <2> DEFINE op == ops[n + 1]
  <2>1. n + 1 \in 1 .. N /\ (n + 1) - 1 = n /\ n + 1 \in 0 .. N
    BY <1>2
  <2>2. columns[n + 1] = ColumnsAfter(op, columns[n]) /\ state[n + 1] = Apply(state[n], op)
    BY <2>1, AvailabilityUnfolds, ExecutionUnfolds
  <2>3. OperationHolds(op, columns[n])
    BY <2>1 DEF Lineage
  <2>4. ~ Derives(op) /\ op.type # "aggregate" /\ op.target # NoColumn => op.target \in P
    BY <2>1 DEF Phantoms, Range
  <2>5. IsState(state[n]) /\ columns[n] \subseteq state[n].real \cup P
    BY <1>2
  <2> HIDE DEF columns, state, P, op
  <2>6. ColumnsAfter(op, columns[n]) \subseteq Apply(state[n], op).real \cup P
    BY <2>3, <2>4, <2>5, OneOperation
  <2>7. IsState(Apply(state[n], op))
    BY <2>5, RealAfter
  <2> QED
    BY <2>1, <2>2, <2>6, <2>7
<1>3. N \in S
  <2>1. N \in Nat /\ N \in 0 .. N
    OBVIOUS
  <2> HIDE DEF S, N
  <2> QED
    BY <1>1, <1>2, <2>1, CountingUp
<1>4. Lineage(ops, read).available = columns[N] /\ Execute(plan, read) = state[N]
  BY DEF Lineage, Execute
<1> HIDE DEF columns, state, P, N
<1> QED
  BY <1>3, <1>4 DEF P

\* What an operation adds is the target of a derivation or of an aggregation,
\* or a target that nothing writes.
LEMMA OneAddition ==
    ASSUME NEW op, NEW available, OperationHolds(op, available), NEW P, available \subseteq P,
           op.type \in Aggregates => Targets(op) \subseteq P,
           op.type # "aggregate" /\ op.target # NoColumn => op.target \in P
    PROVE  ColumnsAfter(op, available) \subseteq P
<1>1. CASE op.type \in Aggregates
  <2>1. op.groupBy \subseteq available
    BY <1>1 DEF OperationHolds
  <2> QED
    BY <1>1, <2>1 DEF ColumnsAfter, Aggregates
<1>2. CASE op.type = "select_columns"
  <2>1. op.columns \subseteq available
    BY <1>2 DEF OperationHolds
  <2> QED
    BY <1>2, <2>1 DEF ColumnsAfter
<1>3. CASE op.type \notin Aggregates /\ op.type # "select_columns"
  BY <1>3 DEF ColumnsAfter, Aggregates
<1> QED
  BY <1>1, <1>2, <1>3

\* A column that counts as there was read, is created by a derivation or an
\* aggregation of the plan, or is a target that nothing writes: there is no
\* other way into the lineage (validate_processing_operations of plan.py).
THEOREM LineageAddsNothingElse ==
    ASSUME NEW plan, Len(plan.operations) \in Nat,
           DOMAIN plan.operations = 1 .. Len(plan.operations),
           NEW read, Lineage(plan.operations, read).ok
    PROVE  Lineage(plan.operations, read).available
              \subseteq read \cup Created(plan.operations) \cup Phantoms(plan)
<1> DEFINE ops == plan.operations
           N == Len(ops)
           P == read \cup Created(plan.operations) \cup Phantoms(plan)
           columns == Availability(ops, read)
           S == {n \in 0 .. N : columns[n] \subseteq P}
<1>1. 0 \in S
  <2>1. columns[0] = read
    BY AvailabilityUnfolds
  <2> HIDE DEF columns
  <2> QED
    BY <2>1
<1>2. ASSUME NEW n \in 0 .. N, n \in S, n < N
      PROVE  n + 1 \in S
  <2> DEFINE op == ops[n + 1]
  <2>1. n + 1 \in 1 .. N /\ (n + 1) - 1 = n /\ n + 1 \in 0 .. N
    BY <1>2
  <2>2. columns[n + 1] = ColumnsAfter(op, columns[n])
    BY <2>1, AvailabilityUnfolds
  <2>3. OperationHolds(op, columns[n])
    BY <2>1 DEF Lineage
  <2>4. op \in Range(ops)
    BY <2>1 DEF Range
  <2> HIDE DEF op
  <2>5. op.type \in Aggregates => Targets(op) \subseteq P
    BY <2>4 DEF Created
  <2>6. op.type # "aggregate" /\ op.target # NoColumn => op.target \in P
    <3>1. CASE Derives(op)
      BY <2>4, <3>1 DEF Created
    <3>2. CASE ~ Derives(op)
      BY <2>4, <3>2 DEF Phantoms
    <3> QED
      BY <3>1, <3>2
  <2>7. columns[n] \subseteq P
    BY <1>2
  <2> HIDE DEF columns, P
  <2>8. ColumnsAfter(op, columns[n]) \subseteq P
    BY <2>3, <2>5, <2>6, <2>7, OneAddition
  <2> QED
    BY <2>1, <2>2, <2>8
<1>3. N \in S
  <2>1. N \in Nat /\ N \in 0 .. N
    OBVIOUS
  <2> HIDE DEF S, N
  <2> QED
    BY <1>1, <1>2, <2>1, CountingUp
<1>4. Lineage(ops, read).available = columns[N]
  BY DEF Lineage
<1> HIDE DEF columns, P, N
<1> QED
  BY <1>3, <1>4 DEF P

(***************************************************************************)
(* The order of the derivations                                            *)
(***************************************************************************)

\* The passes of the sort are what the definition says.
LEMMA PassesUnfolds ==
    ASSUME NEW ops, Len(ops) \in Nat, NEW sources
    PROVE  /\ DOMAIN Passes(ops, sources) = 0 .. Len(ops)
           /\ Passes(ops, sources)[0] = {}
           /\ \A n \in 1 .. Len(ops) :
                Passes(ops, sources)[n] =
                  {i \in Derivations(ops) : ops[i].sources \subseteq
                     sources \cup {ops[j].target : j \in Passes(ops, sources)[n - 1]}}
<1> DEFINE N == Len(ops)
           Pass(taken) == {i \in Derivations(ops) : ops[i].sources \subseteq
                             sources \cup {ops[j].target : j \in taken}}
           Unfolds(f, m) == f = [n \in 0 .. m |-> IF n = 0 THEN {} ELSE Pass(f[n - 1])]
           S == {m \in 0 .. N : \E f : Unfolds(f, m)}
<1>1. 0 \in S
  <2>1. Unfolds([n \in 0 .. 0 |-> {}], 0)
    OBVIOUS
  <2> HIDE DEF Unfolds
  <2> QED
    BY <2>1
<1>2. ASSUME NEW m \in 0 .. N, m \in S, m < N
      PROVE  m + 1 \in S
  <2>1. PICK f : Unfolds(f, m)
    BY <1>2
  <2> DEFINE g == [n \in 0 .. (m + 1) |-> IF n = m + 1 THEN Pass(f[m]) ELSE f[n]]
  <2> HIDE DEF Pass
  <2>2. ASSUME NEW n \in 0 .. (m + 1)
        PROVE  g[n] = IF n = 0 THEN {} ELSE Pass(g[n - 1])
    <3>1. CASE n = 0
      BY <2>1, <3>1
    <3>2. CASE n = m + 1
      BY <2>1, <3>2
    <3>3. CASE n # 0 /\ n # m + 1
      <4>1. n \in 0 .. m /\ n - 1 \in 0 .. (m + 1) /\ n - 1 # m + 1
        BY <3>3
      <4>2. f[n] = Pass(f[n - 1])
        BY <2>1, <3>3, <4>1
      <4>3. g[n] = f[n] /\ g[n - 1] = f[n - 1]
        BY <3>3, <4>1
      <4> QED
        BY <3>3, <4>2, <4>3
    <3> QED
      BY <3>1, <3>2, <3>3
  <2>3. Unfolds(g, m + 1)
    BY <2>2
  <2> HIDE DEF Unfolds, g
  <2> QED
    BY <1>2, <2>3
<1>3. N \in S
  <2>1. N \in Nat
    OBVIOUS
  <2> HIDE DEF S, N
  <2>2. 0 .. N \subseteq S
    BY <1>1, <1>2, <2>1, CountingUp
  <2> QED
    BY <2>1, <2>2
<1>4. Passes(ops, sources) = CHOOSE f : Unfolds(f, N)
  BY DEF Passes
<1>5. Unfolds(Passes(ops, sources), N)
  BY <1>3, <1>4
<1> DEFINE taken == Passes(ops, sources)
<1>6. DOMAIN taken = 0 .. N /\ taken[0] = {} /\ \A n \in 1 .. N : taken[n] = Pass(taken[n - 1])
  <2> HIDE DEF Pass, taken
  <2>1. taken = [n \in 0 .. N |-> IF n = 0 THEN {} ELSE Pass(taken[n - 1])]
    BY <1>5 DEF taken
  <2>2. 0 \in 0 .. N /\ \A n \in 1 .. N : n \in 0 .. N /\ n # 0
    OBVIOUS
  <2> HIDE DEF N
  <2>3. DOMAIN taken = 0 .. N /\ taken[0] = {}
    BY <2>1, <2>2
  <2>4. ASSUME NEW n \in 1 .. N
        PROVE  taken[n] = Pass(taken[n - 1])
    BY <2>1, <2>2
  <2> QED
    BY <2>3, <2>4
<1> QED
  BY <1>6

\* A later pass takes what an earlier one takes.
LEMMA PassesGrow ==
    ASSUME NEW ops, Len(ops) \in Nat, NEW sources, NEW n \in 0 .. Len(ops), NEW m \in 0 .. Len(ops)
    PROVE  \/ Passes(ops, sources)[n] \subseteq Passes(ops, sources)[m]
           \/ Passes(ops, sources)[m] \subseteq Passes(ops, sources)[n]
<1> DEFINE N == Len(ops)
           taken == Passes(ops, sources)
           Pass(t) == {i \in Derivations(ops) : ops[i].sources \subseteq
                         sources \cup {ops[j].target : j \in t}}
           S == {k \in 0 .. N : k < N => taken[k] \subseteq taken[k + 1]}
<1>1. taken[0] = {} /\ \A k \in 1 .. N : taken[k] = Pass(taken[k - 1])
  BY PassesUnfolds
<1>2. \A t, u : t \subseteq u => Pass(t) \subseteq Pass(u)
  OBVIOUS
<1> HIDE DEF taken, Pass
<1>3. N \in Nat
  OBVIOUS
<1>4. 0 .. N \subseteq S
  <2>1. 0 \in S
    BY <1>1
  <2>2. ASSUME NEW k \in 0 .. N, k \in S, k < N
        PROVE  k + 1 \in S
    <3>1. taken[k] \subseteq taken[k + 1]
      BY <2>2
    <3>2. taken[k + 1] = Pass(taken[k])
      BY <1>1, <2>2
    <3>3. ASSUME k + 1 < N
          PROVE  taken[k + 1] \subseteq taken[(k + 1) + 1]
      <4>1. (k + 1) + 1 \in 1 .. N /\ ((k + 1) + 1) - 1 = k + 1
        BY <1>3, <3>3
      <4>2. taken[(k + 1) + 1] = Pass(taken[k + 1])
        BY <1>1, <4>1
      <4>3. Pass(taken[k]) \subseteq Pass(taken[k + 1])
        BY <1>2, <3>1
      <4> QED
        BY <3>2, <4>2, <4>3
    <3>4. k + 1 \in 0 .. N
      BY <1>3, <2>2
    <3> QED
      BY <3>3, <3>4
  <2> HIDE DEF S, N
  <2> QED
    BY <1>3, <2>1, <2>2, CountingUp
<1> DEFINE Later(k) == {l \in 0 .. N : k <= l => taken[k] \subseteq taken[l]}
<1>5. ASSUME NEW k \in 0 .. N
      PROVE  0 .. N \subseteq Later(k)
  <2>1. 0 \in Later(k)
    OBVIOUS
  <2>2. ASSUME NEW l \in 0 .. N, l \in Later(k), l < N
        PROVE  l + 1 \in Later(k)
    <3>1. taken[l] \subseteq taken[l + 1]
      BY <1>4, <2>2
    <3>2. CASE k = l + 1
      BY <3>2
    <3>3. CASE k # l + 1
      BY <2>2, <3>1, <3>3
    <3> QED
      BY <3>2, <3>3
  <2> HIDE DEF Later, N
  <2> QED
    BY <1>3, <2>1, <2>2, CountingUp
<1>6. n <= m => taken[n] \subseteq taken[m]
  BY <1>5
<1>7. m <= n => taken[m] \subseteq taken[n]
  BY <1>5
<1> QED
  BY <1>6, <1>7 DEF taken

\* The order of OrderDerived: whoever is taken by an earlier pass comes first, and
\* among the others the one that was written first.
TakenEarlier(taken, j, i) == \E n \in DOMAIN taken : j \in taken[n] /\ i \notin taken[n]

ComesBefore(taken, j, i) ==
    TakenEarlier(taken, j, i) \/ (j < i /\ ~ TakenEarlier(taken, i, j))

PlaceIn(D, taken, i) == Cardinality({j \in D : ComesBefore(taken, j, i)}) + 1

IsChain(taken) ==
    \A n, m \in DOMAIN taken : taken[n] \subseteq taken[m] \/ taken[m] \subseteq taken[n]

\* When the passes take more and more, this is a strict total order.
LEMMA PassesOrder ==
    ASSUME NEW taken, IsChain(taken)
    PROVE  /\ \A i \in Nat : ~ ComesBefore(taken, i, i)
           /\ \A i, j \in Nat : i # j => ComesBefore(taken, i, j) \/ ComesBefore(taken, j, i)
           /\ \A i, j, k \in Nat : ComesBefore(taken, i, j) /\ ComesBefore(taken, j, k)
                                     => ComesBefore(taken, i, k)
<1>1. \A i, j : TakenEarlier(taken, i, j) => ~ TakenEarlier(taken, j, i)
  BY DEF TakenEarlier, IsChain
<1>2. \A i, j, k : TakenEarlier(taken, i, k) =>
                     TakenEarlier(taken, i, j) \/ TakenEarlier(taken, j, k)
  BY DEF TakenEarlier
<1>3. \A i \in Nat : ~ ComesBefore(taken, i, i)
  BY <1>1 DEF ComesBefore
<1>4. ASSUME NEW i \in Nat, NEW j \in Nat, i # j
      PROVE  ComesBefore(taken, i, j) \/ ComesBefore(taken, j, i)
  <2>1. i < j \/ j < i
    BY <1>4
  <2> QED
    BY <2>1 DEF ComesBefore
<1>5. ASSUME NEW i \in Nat, NEW j \in Nat, NEW k \in Nat,
             ComesBefore(taken, i, j), ComesBefore(taken, j, k)
      PROVE  ComesBefore(taken, i, k)
  <2>1. ~ TakenEarlier(taken, j, i) /\ ~ TakenEarlier(taken, k, j)
    BY <1>1, <1>5 DEF ComesBefore
  <2>2. ~ TakenEarlier(taken, k, i)
    BY <1>2, <2>1
  <2>3. CASE TakenEarlier(taken, i, k)
    BY <2>3 DEF ComesBefore
  <2>4. CASE ~ TakenEarlier(taken, i, k)
    <3>1. ~ TakenEarlier(taken, i, j)
      BY <1>2, <2>1, <2>4
    <3>2. ~ TakenEarlier(taken, j, k)
      BY <1>2, <2>1, <2>4
    <3>3. i < j /\ j < k
      BY <1>5, <3>1, <3>2 DEF ComesBefore
    <3>4. i < k
      BY <3>3
    <3> QED
      BY <2>2, <3>4 DEF ComesBefore
  <2> QED
    BY <2>3, <2>4
<1> QED
  BY <1>3, <1>4, <1>5

\* Along the order the place of an operation grows.
LEMMA PlacesGrow ==
    ASSUME NEW N \in Nat, NEW taken, IsChain(taken), NEW i \in 1 .. N
    PROVE  /\ PlaceIn(1 .. N, taken, i) \in 1 .. N
           /\ \A k \in 1 .. N : ComesBefore(taken, i, k) =>
                PlaceIn(1 .. N, taken, i) < PlaceIn(1 .. N, taken, k)
<1> DEFINE D == 1 .. N
           Ahead(a) == {j \in D : ComesBefore(taken, j, a)}
<1>1. IsFiniteSet(D) /\ Cardinality(D) = N /\ D \subseteq Nat
  BY FS_Interval
<1>2. ASSUME NEW a \in D
      PROVE  /\ IsFiniteSet(Ahead(a)) /\ Cardinality(Ahead(a)) \in Nat
             /\ Cardinality(Ahead(a)) < N
  <2>1. Ahead(a) \in SUBSET (D \ {a})
    BY <1>1, PassesOrder
  <2>2. IsFiniteSet(D \ {a}) /\ Cardinality(D \ {a}) = N - 1
    BY <1>1, FS_RemoveElement
  <2> HIDE DEF Ahead, D
  <2>3. IsFiniteSet(Ahead(a)) /\ Cardinality(Ahead(a)) <= N - 1
    BY <2>1, <2>2, FS_Subset
  <2>4. Cardinality(Ahead(a)) \in Nat
    BY <2>3, FS_CardinalityType
  <2> QED
    BY <2>3, <2>4
<1>3. ASSUME NEW k \in D, ComesBefore(taken, i, k)
      PROVE  Cardinality(Ahead(i)) < Cardinality(Ahead(k))
  <2>1. Ahead(i) \in SUBSET Ahead(k) /\ i \in Ahead(k) /\ i \notin Ahead(i)
    BY <1>1, <1>3, PassesOrder
  <2>2. /\ IsFiniteSet(Ahead(k)) /\ Cardinality(Ahead(k)) \in Nat
        /\ Cardinality(Ahead(i)) \in Nat
    BY <1>2
  <2> HIDE DEF Ahead
  <2>3. Cardinality(Ahead(i)) <= Cardinality(Ahead(k))
    BY <2>1, <2>2, FS_Subset
  <2>4. Cardinality(Ahead(i)) # Cardinality(Ahead(k))
    BY <2>1, <2>2, FS_Subset
  <2> QED
    BY <2>2, <2>3, <2>4
<1>4. \A a : PlaceIn(1 .. N, taken, a) = Cardinality(Ahead(a)) + 1
  BY DEF PlaceIn
<1> HIDE DEF Ahead
<1>5. PlaceIn(1 .. N, taken, i) \in 1 .. N
  BY <1>2, <1>4
<1>6. ASSUME NEW k \in 1 .. N, ComesBefore(taken, i, k)
      PROVE  PlaceIn(1 .. N, taken, i) < PlaceIn(1 .. N, taken, k)
  <2>1. Cardinality(Ahead(i)) < Cardinality(Ahead(k))
    BY <1>3, <1>6
  <2>2. Cardinality(Ahead(i)) \in Nat /\ Cardinality(Ahead(k)) \in Nat
    BY <1>2
  <2> QED
    BY <1>4, <2>1, <2>2
<1> QED
  BY <1>5, <1>6

\* All places are taken, each once.
LEMMA PlacesAreDistinct ==
    ASSUME NEW N \in Nat, NEW taken, IsChain(taken)
    PROVE  [i \in 1 .. N |-> PlaceIn(1 .. N, taken, i)] \in Bijection(1 .. N, 1 .. N)
<1> DEFINE D == 1 .. N
           Place == [i \in D |-> PlaceIn(D, taken, i)]
<1>1. IsFiniteSet(D) /\ Cardinality(D) = N /\ D \subseteq Nat
  BY FS_Interval
<1>2. Place \in [D -> D] /\ \A i \in D : Place[i] \in Nat
  BY PlacesGrow
<1>3. \A i, j \in D : ComesBefore(taken, i, j) => Place[i] < Place[j]
  BY PlacesGrow
<1> HIDE DEF Place, D
<1>4. Place \in Injection(D, D)
  <2>1. ASSUME NEW i \in D, NEW j \in D, Place[i] = Place[j]
        PROVE  i = j
    <3>1. ~ ComesBefore(taken, i, j) /\ ~ ComesBefore(taken, j, i)
      BY <1>2, <1>3, <2>1
    <3> QED
      BY <1>1, <3>1, PassesOrder
  <2> QED
    BY <1>2, <2>1 DEF Injection, IsInjective
<1>5. Place \in Surjection(D, D)
  BY <1>1, <1>4, FS_Injection
<1>6. Place \in Bijection(D, D)
  BY <1>4, <1>5 DEF Bijection
<1> QED
  BY <1>6 DEF Place, D

\* A permutation can be read backwards.
LEMMA ReadBackwards ==
    ASSUME NEW D, NEW f \in Bijection(D, D), NEW p \in [D -> D], \A k \in D : f[p[k]] = k
    PROVE  /\ p \in Bijection(D, D)
           /\ \A i \in D : p[f[i]] = i
<1>1. /\ f \in [D -> D]
      /\ \A i, j \in D : f[i] = f[j] => i = j
  BY DEF Bijection, Injection, IsInjective
<1>2. ASSUME NEW i \in D
      PROVE  p[f[i]] = i
  BY <1>1
<1>3. p \in Injection(D, D)
  BY DEF Injection, IsInjective
<1>4. p \in Surjection(D, D)
  BY <1>1, <1>2 DEF Surjection
<1> QED
  BY <1>2, <1>3, <1>4 DEF Bijection

\* The sort of the derivations (order_derived_operations of plan.py) loses and
\* repeats no operation; every derivation comes behind those whose targets it
\* reads, before all other operations, and these keep the order they were in.
THEOREM DerivationsInOrder ==
    ASSUME NEW ops, Len(ops) \in Nat, DOMAIN ops = 1 .. Len(ops),
           NEW sources, Orderable(ops, sources)
    PROVE  \E p \in Bijection(DOMAIN ops, DOMAIN ops) :
             LET ordered == OrderDerived(ops, sources)
             IN /\ ordered = [k \in DOMAIN ops |-> ops[p[k]]]
                /\ \A k \in DOMAIN ops : Derives(ordered[k]) =>
                     ordered[k].sources \subseteq sources \cup
                       {ordered[l].target : l \in {l \in 1 .. (k - 1) : Derives(ordered[l])}}
                /\ \A k, l \in DOMAIN ops :
                     Derives(ordered[k]) /\ ~ Derives(ordered[l]) => k < l
                /\ \A k, l \in DOMAIN ops :
                     k < l /\ ~ Derives(ordered[k]) /\ ~ Derives(ordered[l]) => p[k] < p[l]
<1> DEFINE N == Len(ops)
           D == 1 .. N
           taken == Passes(ops, sources)
           Place == [i \in D |-> PlaceIn(D, taken, i)]
           p == [k \in D |-> CHOOSE i \in DOMAIN ops : PlaceIn(DOMAIN ops, taken, i) = k]
           ordered == OrderDerived(ops, sources)
<1>1. N \in Nat /\ DOMAIN ops = D /\ DOMAIN taken = 0 .. N
  BY PassesUnfolds
<1>2. IsChain(taken)
  BY <1>1, PassesGrow DEF IsChain
<1>3. /\ taken[0] = {} /\ taken[N] = {i \in D : Derives(ops[i])}
      /\ \A n \in 0 .. N : taken[n] \subseteq taken[N]
      /\ \A n \in 1 .. N : \A i \in taken[n] :
           ops[i].sources \subseteq sources \cup {ops[j].target : j \in taken[n - 1]}
  <2>1. /\ taken[0] = {}
        /\ \A n \in 1 .. N : taken[n] =
             {i \in Derivations(ops) : ops[i].sources \subseteq
                sources \cup {ops[j].target : j \in taken[n - 1]}}
    BY PassesUnfolds
  <2>2. taken[N] = Derivations(ops)
    BY DEF Orderable
  <2>3. Derivations(ops) = {i \in D : Derives(ops[i])}
    BY <1>1 DEF Derivations
  <2> HIDE DEF taken, N, D
  <2>4. \A n \in 0 .. N : taken[n] \subseteq Derivations(ops)
    <3>1. \A n \in 0 .. N : n = 0 \/ n \in 1 .. N
      BY <1>1
    <3> QED
      BY <2>1, <3>1
  <2> QED
    BY <2>1, <2>2, <2>3, <2>4
<1> HIDE DEF taken
<1>4. Place \in Bijection(D, D)
  BY <1>1, <1>2, PlacesAreDistinct
<1>5. \A i, j \in D : ComesBefore(taken, i, j) => Place[i] < Place[j]
  BY <1>1, <1>2, PlacesGrow
<1>6. p \in [D -> D] /\ \A k \in D : Place[p[k]] = k
  <2>1. ASSUME NEW k \in D
        PROVE  \E i \in DOMAIN ops : PlaceIn(DOMAIN ops, taken, i) = k
    <3>1. \E i \in D : Place[i] = k
      <4> HIDE DEF Place
      <4> QED
        BY <1>4 DEF Bijection, Surjection
    <3> QED
      BY <1>1, <3>1
  <2>2. ASSUME NEW k \in D
        PROVE  p[k] \in D /\ PlaceIn(DOMAIN ops, taken, p[k]) = k
    <3>1. p[k] = CHOOSE i \in DOMAIN ops : PlaceIn(DOMAIN ops, taken, i) = k
      OBVIOUS
    <3> HIDE DEF p
    <3> QED
      BY <1>1, <2>1, <3>1
  <2>3. p \in [D -> D]
    BY <2>2
  <2> HIDE DEF p
  <2> QED
    BY <2>2, <2>3
<1>7. ordered = [k \in D |-> ops[p[k]]]
  <2>1. ordered = [k \in 1 .. Len(ops) |-> ops[CHOOSE i \in DOMAIN ops : PlaceIn(DOMAIN ops, taken, i) = k]]
    BY DEF OrderDerived, PlaceIn, ComesBefore, TakenEarlier, taken
  <2> QED
    BY <2>1
<1> HIDE DEF p, Place, ordered
<1>8. p \in Bijection(D, D) /\ \A i \in D : p[Place[i]] = i
  BY <1>4, <1>6, ReadBackwards
<1>9. \A k \in D : Derives(ordered[k]) <=> p[k] \in taken[N]
  BY <1>3, <1>6, <1>7
<1>10. ASSUME NEW k \in D, Derives(ordered[k])
       PROVE  ordered[k].sources \subseteq sources \cup
                {ordered[l].target : l \in {l \in 1 .. (k - 1) : Derives(ordered[l])}}
  <2> DEFINE C == {n \in 0 .. N : p[k] \in taken[n]}
  <2>1. PICK n \in C : \A m \in C : n <= m
    <3>1. C # {} /\ C \subseteq Nat
      BY <1>1, <1>9, <1>10
    <3> HIDE DEF C
    <3> QED
      BY <3>1, LeastNumber
  <2>2. n \in 1 .. N /\ p[k] \in taken[n] /\ n - 1 \in 0 .. N /\ p[k] \notin taken[n - 1]
    <3>1. n \in 0 .. N /\ p[k] \in taken[n] /\ n # 0
      BY <1>3
    <3>2. n - 1 \in 0 .. N /\ ~ n <= n - 1
      BY <3>1
    <3> QED
      BY <2>1, <3>1, <3>2
  <2>3. ops[p[k]].sources \subseteq sources \cup {ops[j].target : j \in taken[n - 1]}
    BY <1>3, <2>2
  <2>4. ASSUME NEW j \in taken[n - 1]
        PROVE  /\ Place[j] \in 1 .. (k - 1) /\ Derives(ordered[Place[j]])
               /\ ordered[Place[j]].target = ops[j].target
    <3>1. j \in taken[N] /\ j \in D
      BY <1>3, <2>2
    <3>2. ComesBefore(taken, j, p[k])
      BY <1>1, <2>2 DEF ComesBefore, TakenEarlier
    <3>3. Place[j] \in D /\ Place[j] < k
      <4>1. Place[j] \in D
        BY <1>4, <3>1 DEF Bijection, Surjection
      <4> QED
        BY <1>5, <1>6, <3>1, <3>2, <4>1
    <3>4. Place[j] \in 1 .. (k - 1)
      BY <1>1, <3>3
    <3>5. p[Place[j]] = j
      BY <1>8, <3>1
    <3> QED
      BY <1>7, <1>9, <3>1, <3>3, <3>4, <3>5
  <2>5. ordered[k].sources = ops[p[k]].sources
    BY <1>7
  <2> HIDE DEF C
  <2> QED
    BY <2>3, <2>4, <2>5
<1>11. ASSUME NEW k \in D, NEW l \in D, Derives(ordered[k]), ~ Derives(ordered[l])
       PROVE  k < l
  <2>1. ComesBefore(taken, p[k], p[l])
    BY <1>1, <1>9, <1>11 DEF ComesBefore, TakenEarlier
  <2> QED
    BY <1>5, <1>6, <2>1
<1>12. ASSUME NEW k \in D, NEW l \in D, k < l, ~ Derives(ordered[k]), ~ Derives(ordered[l])
       PROVE  p[k] < p[l]
  <2>1. ~ TakenEarlier(taken, p[k], p[l]) /\ ~ TakenEarlier(taken, p[l], p[k])
    BY <1>1, <1>3, <1>9, <1>12 DEF TakenEarlier
  <2>2. p[k] # p[l] /\ p[k] \in D /\ p[l] \in D
    BY <1>6, <1>12
  <2>3. ~ p[l] < p[k]
    <3>1. SUFFICES ASSUME p[l] < p[k]
                   PROVE  FALSE
      OBVIOUS
    <3>2. ComesBefore(taken, p[l], p[k])
      BY <2>1, <3>1 DEF ComesBefore
    <3>3. l < k
      BY <1>5, <1>6, <2>2, <3>2
    <3> QED
      BY <1>12, <3>3
  <2> QED
    BY <2>2, <2>3
<1> HIDE DEF D
<1> QED
  BY <1>1, <1>7, <1>8, <1>10, <1>11, <1>12 DEF ordered

(***************************************************************************)
(* Lists of operations                                                     *)
(***************************************************************************)

\* A function on 1 .. n is a sequence.
LEMMA ListIsSequence ==
    ASSUME NEW n \in Nat, NEW f, DOMAIN f = 1 .. n, f = [i \in 1 .. n |-> f[i]]
    PROVE  IsSequence(f) /\ Len(f) = n
<1> DEFINE S == {f[i] : i \in 1 .. n}
<1>1. f \in [1 .. n -> S]
  OBVIOUS
<1>2. f \in Seq(S) /\ Len(f) = n
  <2> HIDE DEF S
  <2> QED
    BY <1>1
<1> QED
  BY <1>2 DEF IsSequence

\* One sequence behind another.
LEMMA Behind ==
    ASSUME NEW a, NEW b, IsSequence(a), IsSequence(b)
    PROVE  /\ IsSequence(a \o b)
           /\ Len(a \o b) \in Nat /\ DOMAIN (a \o b) = 1 .. Len(a \o b)
           /\ Range(a \o b) \subseteq Range(a) \cup Range(b)
<1>1. PICK S : a \in Seq(S) /\ b \in Seq(S)
  <2>1. PICK S : a \in Seq(S)
    BY DEF IsSequence
  <2>2. PICK T : b \in Seq(T)
    BY DEF IsSequence
  <2>3. a \in Seq(S \cup T) /\ b \in Seq(S \cup T)
    BY <2>1, <2>2
  <2> QED
    BY <2>3
<1>2. /\ a \o b \in Seq(S) /\ Len(a \o b) = Len(a) + Len(b)
      /\ \A i \in 1 .. Len(a) + Len(b) : (a \o b)[i] = IF i <= Len(a) THEN a[i] ELSE b[i - Len(a)]
  BY <1>1, ConcatProperties
<1>3. /\ Len(a) \in Nat /\ Len(b) \in Nat /\ DOMAIN a = 1 .. Len(a) /\ DOMAIN b = 1 .. Len(b)
      /\ DOMAIN (a \o b) = 1 .. Len(a \o b) /\ Len(a \o b) \in Nat
  BY <1>1, <1>2, LenProperties
<1>4. ASSUME NEW i \in 1 .. Len(a \o b)
      PROVE  (a \o b)[i] \in Range(a) \cup Range(b)
  <2>1. CASE i <= Len(a)
    <3>1. i \in DOMAIN a /\ (a \o b)[i] = a[i]
      BY <1>2, <1>3, <2>1
    <3> QED
      BY <3>1 DEF Range
  <2>2. CASE ~ (i <= Len(a))
    <3>1. i - Len(a) \in DOMAIN b /\ (a \o b)[i] = b[i - Len(a)]
      BY <1>2, <1>3, <2>2
    <3> QED
      BY <3>1 DEF Range
  <2> QED
    BY <2>1, <2>2
<1>5. Range(a \o b) \subseteq Range(a) \cup Range(b)
  BY <1>3, <1>4 DEF Range
<1> QED
  BY <1>2, <1>3, <1>5 DEF IsSequence

\* Operations that only select create nothing.
LEMMA SelectingCreatesNothing ==
    ASSUME NEW a, NEW b, IsSequence(a), IsSequence(b),
           \A i \in DOMAIN b : b[i].type = "select_columns"
    PROVE  Created(a \o b) \subseteq Created(a)
<1>1. Range(a \o b) \subseteq Range(a) \cup Range(b)
  BY Behind
<1>2. \A op \in Range(b) : ~ Derives(op) /\ op.type \notin Aggregates
  BY DEF Range, Derives, DerivedTypes, Expressions, Aggregates
<1>3. \A op \in Range(a \o b) : Derives(op) \/ op.type \in Aggregates => op \in Range(a)
  BY <1>1, <1>2
<1> QED
  BY <1>3 DEF Created

\* The operations of two steps, one behind the other.
LEMMA FlattenTwo ==
    ASSUME NEW w, Len(w) = 2
    PROVE  FlattenSeq(w) = w[1] \o w[2]
<1> DEFINE Unfolds(f) == f = [i \in 1 .. Len(w) |-> IF i = 1 THEN w[i] ELSE f[i - 1] \o w[i]]
           g == [i \in 1 .. 2 |-> IF i = 1 THEN w[1] ELSE w[1] \o w[2]]
           f == CHOOSE f : Unfolds(f)
<1>1. Unfolds(g)
  OBVIOUS
<1>2. Unfolds(f)
  <2> HIDE DEF Unfolds, g
  <2> QED
    BY <1>1
<1>3. FlattenSeq(w) = f[2]
  BY DEF FlattenSeq
<1>4. f[1] = w[1] /\ f[2] = f[1] \o w[2]
  <2> HIDE DEF f
  <2> QED
    BY <1>2
<1> QED
  BY <1>3, <1>4

\* And of three.
LEMMA FlattenThree ==
    ASSUME NEW w, Len(w) = 3
    PROVE  FlattenSeq(w) = (w[1] \o w[2]) \o w[3]
<1> DEFINE Unfolds(f) == f = [i \in 1 .. Len(w) |-> IF i = 1 THEN w[i] ELSE f[i - 1] \o w[i]]
           g == [i \in 1 .. 3 |-> IF i = 1 THEN w[1] ELSE IF i = 2 THEN w[1] \o w[2]
                                  ELSE (w[1] \o w[2]) \o w[3]]
           f == CHOOSE f : Unfolds(f)
<1>1. Unfolds(g)
  OBVIOUS
<1>2. Unfolds(f)
  <2> HIDE DEF Unfolds, g
  <2> QED
    BY <1>1
<1>3. FlattenSeq(w) = f[3]
  BY DEF FlattenSeq
<1>4. \A i \in 1 .. 3 : f[i] = IF i = 1 THEN w[i] ELSE f[i - 1] \o w[i]
  <2> HIDE DEF f, g
  <2> QED
    BY <1>2
<1> HIDE DEF f, g
<1>5. f[1] = w[1]
  BY <1>4
<1>6. f[2] = f[1] \o w[2]
  BY <1>4
<1>7. f[3] = f[2] \o w[3]
  BY <1>4
<1> QED
  BY <1>3, <1>5, <1>6, <1>7 DEF f

\* What a planning step keeps of an answer is a sequence.
LEMMA OperationsAreSequences ==
    ASSUME NEW step \in DOMAIN Allows, NEW answer \in Answers[step], NEW sources
    PROVE  IsSequence(Normal(answer.operations)) /\ IsSequence(StepOperations(step, answer, sources))
<1> DEFINE ops == answer.operations
           n == Len(ops)
<1>1. n \in Nat /\ DOMAIN ops = 1 .. n
  BY AnswersAssumption
<1>2. IsSequence(Normal(ops)) /\ Len(Normal(ops)) = n
  <2> DEFINE f == Normal(ops)
  <2>1. DOMAIN f = 1 .. n /\ f = [i \in 1 .. n |-> f[i]]
    BY <1>1 DEF Normal
  <2> HIDE DEF f, n
  <2>2. IsSequence(f) /\ Len(f) = n
    BY <1>1, <2>1, ListIsSequence
  <2> QED
    BY <2>2 DEF f
<1>3. IsSequence(OrderDerived(Normal(ops), sources))
  <2> DEFINE f == OrderDerived(Normal(ops), sources)
  <2>1. DOMAIN f = 1 .. n /\ f = [i \in 1 .. n |-> f[i]]
    BY <1>2 DEF OrderDerived
  <2> HIDE DEF f, n
  <2>2. IsSequence(f)
    BY <1>1, <2>1, ListIsSequence
  <2> QED
    BY <2>2 DEF f
<1> QED
  BY <1>2, <1>3 DEF StepOperations

(***************************************************************************)
(* The plan, step by step                                                  *)
(***************************************************************************)

Read == Names(approved.columns)

\* The operations of the first three steps.
Derivation(w) == (w[1] \o w[2]) \o w[3]

\* What the accepted results of the planning steps are: sequences of operations,
\* that create exactly the approved columns, and a plan that only selects from
\* them and whose output is in its lineage.
Planned(w) ==
    /\ \A i \in 1 .. 3 : i <= Len(w) => IsSequence(w[i])
    /\ Len(w) >= 3 => Covers(Derivation(w), DerivedNames(approved))
    /\ Len(w) >= 4 =>
         \E ops :
            /\ IsSequence(ops) /\ \A i \in DOMAIN ops : ops[i].type = "select_columns"
            /\ w[4].operations = Derivation(w) \o ops
            /\ Lineage(w[4].operations, Read).ok
            /\ w[4].output \subseteq Lineage(w[4].operations, Read).available

\* Whoever holds results holds accepted ones, and a job that has left its
\* prompts behind, or a stage that has passed, holds all four.
PlanInv ==
    agent = "processing" =>
      /\ approved \in Approvable
      /\ Planned(job.work) /\ Planned(client.merged)
      /\ job.phase # "probe"
      /\ job.phase \in {"retrieve", "process", "store"} => Len(job.work) = 4
      /\ job.phase = "reply" /\ job.output.kind = "result" => Len(job.work) = 4
      /\ outcome.kind = "passed" => Len(client.merged) = 4

\* The contracts of the planning steps, by name.
LEMMA PlanningContracts ==
    ASSUME NEW step, NEW answer, NEW w
    PROVE  /\ step \in {"DEDUPLICATION_PLAN", "MISSING_VALUE_PLAN", "DERIVED_COLUMN_ORDER"} =>
                /\ Accepts(step, answer, w) =>
                     StepAccepted(step, answer, FlattenSeq(w), Read, DerivedNames(approved))
                /\ ResultOf(step, answer, w) = StepOperations(step, answer, Read)
           /\ step = "FINAL_COLUMN_VALIDATION" =>
                /\ Accepts(step, answer, w) =>
                     FinalAccepted(answer, FlattenSeq(w), Read, DerivedNames(approved))
                /\ ResultOf(step, answer, w) = Plan(answer, FlattenSeq(w))
<1>1. Range(Prompts.requirements) = {"REQUEST_ANALYSIS", "REQUEST_STRUCTURING", "DATA_CATEGORIZATION"}
  <2> DEFINE r == <<"REQUEST_ANALYSIS", "REQUEST_STRUCTURING", "DATA_CATEGORIZATION">>
  <2>1. Prompts.requirements = r
    BY DEF Prompts
  <2>2. DOMAIN r = 1 .. 3 /\ r[1] = "REQUEST_ANALYSIS" /\ r[2] = "REQUEST_STRUCTURING"
        /\ r[3] = "DATA_CATEGORIZATION"
    OBVIOUS
  <2>3. Range(r) = {r[i] : i \in DOMAIN r}
    BY DEF Range
  <2> HIDE DEF r
  <2>4. Range(r) = {r[1], r[2], r[3]}
    BY <2>2, <2>3
  <2> QED
    BY <2>1, <2>2, <2>4
<1>2. DOMAIN Allows = {"DEDUPLICATION_PLAN", "MISSING_VALUE_PLAN", "DERIVED_COLUMN_ORDER",
                       "FINAL_COLUMN_VALIDATION"}
  BY DEF Allows
<1>3. ASSUME step \in {"DEDUPLICATION_PLAN", "MISSING_VALUE_PLAN", "DERIVED_COLUMN_ORDER"}
      PROVE  /\ Accepts(step, answer, w) =>
                  StepAccepted(step, answer, FlattenSeq(w), Read, DerivedNames(approved))
             /\ ResultOf(step, answer, w) = StepOperations(step, answer, Read)
  <2>1. /\ step # "SOURCE_COLUMN_SELECTION" /\ step # "DERIVED_COLUMN_DESIGN"
        /\ step # "SYNTHETIC_SAMPLE_GENERATION" /\ step \notin Range(Prompts.requirements)
        /\ step # "FINAL_COLUMN_VALIDATION" /\ step \in DOMAIN Allows \ {"FINAL_COLUMN_VALIDATION"}
    BY <1>1, <1>2, <1>3
  <2> QED
    BY <2>1 DEF Accepts, ResultOf, Read
<1>4. ASSUME step = "FINAL_COLUMN_VALIDATION"
      PROVE  /\ Accepts(step, answer, w) =>
                  FinalAccepted(answer, FlattenSeq(w), Read, DerivedNames(approved))
             /\ ResultOf(step, answer, w) = Plan(answer, FlattenSeq(w))
  <2>1. /\ step # "SOURCE_COLUMN_SELECTION" /\ step # "DERIVED_COLUMN_DESIGN"
        /\ step # "SYNTHETIC_SAMPLE_GENERATION" /\ step \notin Range(Prompts.requirements)
    BY <1>1, <1>4
  <2> QED
    BY <1>4, <2>1 DEF Accepts, ResultOf, Read
<1> QED
  BY <1>3, <1>4

\* One accepted result more is a longer plan.
LEMMA PlanGrows ==
    ASSUME agent = "processing", NEW w, IsSequence(w), NEW k \in DOMAIN Steps, Len(w) = k - 1,
           Planned(w), NEW answer \in Answers[Steps[k]], Accepts(Steps[k], answer, w)
    PROVE  Planned(Append(w, ResultOf(Steps[k], answer, w))) /\ k \in 1 .. 4
<1> DEFINE x == ResultOf(Steps[k], answer, w)
           v == Append(w, x)
           step == Steps[k]
<1>1. /\ k \in 1 .. 4 /\ Len(w) \in Nat /\ Len(v) = k
      /\ \A i \in 1 .. Len(w) : v[i] = w[i]
      /\ v[k] = x
  <2>1. DOMAIN Steps = 1 .. 4
    BY DEF Steps, Prompts
  <2>2. PICK S : w \in Seq(S)
    BY DEF IsSequence
  <2> HIDE DEF x
  <2>3. w \in Seq(S \cup {x}) /\ x \in S \cup {x}
    BY <2>2
  <2>4. /\ Len(w) \in Nat /\ Len(v) = Len(w) + 1 /\ v[Len(w) + 1] = x
        /\ \A i \in 1 .. Len(w) : v[i] = w[i]
    BY <2>3
  <2> QED
    BY <2>1, <2>4
<1>2. /\ Steps[1] = "DEDUPLICATION_PLAN" /\ Steps[2] = "MISSING_VALUE_PLAN"
      /\ Steps[3] = "DERIVED_COLUMN_ORDER" /\ Steps[4] = "FINAL_COLUMN_VALIDATION"
  BY DEF Steps, Prompts
<1>3. step \in DOMAIN Allows /\ answer \in Answers[step]
  BY <1>1, <1>2 DEF Allows
<1> HIDE DEF v, x
<1>4. \A i \in 1 .. 3 : i < k => v[i] = w[i] /\ IsSequence(w[i])
  BY <1>1 DEF Planned
<1>5. ASSUME k < 4
      PROVE  Planned(v)
  <2>1. step \in {"DEDUPLICATION_PLAN", "MISSING_VALUE_PLAN", "DERIVED_COLUMN_ORDER"}
    BY <1>1, <1>2, <1>5
  <2>2. x = StepOperations(step, answer, Read)
    BY <2>1, PlanningContracts DEF x
  <2>3. IsSequence(x)
    BY <1>3, <2>2, OperationsAreSequences
  <2>4. ASSUME NEW i \in 1 .. 3, i <= k
        PROVE  IsSequence(v[i])
    <3>1. CASE i = k
      BY <1>1, <2>3, <3>1
    <3>2. CASE i < k
      BY <1>4, <3>2
    <3> QED
      BY <1>1, <2>4, <3>1, <3>2
  <2>5. ASSUME k = 3
        PROVE  Covers(Derivation(v), DerivedNames(approved))
    <3>1. step = "DERIVED_COLUMN_ORDER"
      BY <1>2, <2>5
    <3>2. Covers(FlattenSeq(w) \o StepOperations(step, answer, Read), DerivedNames(approved))
      BY <3>1, PlanningContracts DEF StepAccepted
    <3>3. FlattenSeq(w) = w[1] \o w[2]
      <4>1. Len(w) = 2
        BY <1>1, <2>5
      <4> QED
        BY <4>1, FlattenTwo
    <3>4. v[1] = w[1] /\ v[2] = w[2] /\ v[3] = x
      BY <1>1, <2>5
    <3> QED
      BY <2>2, <3>2, <3>3, <3>4 DEF Derivation
  <2> QED
    BY <1>1, <1>5, <2>4, <2>5 DEF Planned
<1>6. ASSUME k = 4
      PROVE  Planned(v)
  <2> DEFINE ops == Normal(answer.operations)
  <2>1. step = "FINAL_COLUMN_VALIDATION"
    BY <1>2, <1>6
  <2>2. FlattenSeq(w) = Derivation(w)
    <3>1. Len(w) = 3
      BY <1>1, <1>6
    <3> QED
      BY <3>1, FlattenThree DEF Derivation
  <2>3. FinalAccepted(answer, Derivation(w), Read, DerivedNames(approved))
    BY <2>1, <2>2, PlanningContracts
  <2>4. x = Plan(answer, Derivation(w))
    BY <2>1, <2>2, PlanningContracts DEF x
  <2>5. /\ Derivation(v) = Derivation(w)
        /\ v[4] = x
    <3>1. v[1] = w[1] /\ v[2] = w[2] /\ v[3] = w[3] /\ v[4] = x
      BY <1>1, <1>6
    <3> QED
      BY <3>1 DEF Derivation
  <2>6. x.operations = Derivation(w) \o ops
    BY <2>4 DEF Plan
  <2>7. IsSequence(ops)
    BY <1>3, OperationsAreSequences
  <2>8. \A i \in DOMAIN ops : ops[i].type = "select_columns"
    <3>1. \A i \in DOMAIN ops : ops[i].type \in Allows["FINAL_COLUMN_VALIDATION"]
      BY <2>3 DEF FinalAccepted, StepAccepted
    <3> HIDE DEF ops
    <3> QED
      BY <3>1 DEF Allows
  <2>9. /\ Lineage(x.operations, Read).ok
        /\ x.output \subseteq Lineage(x.operations, Read).available
    BY <2>3, <2>4 DEF FinalAccepted, PlanHolds
  <2>10. Covers(Derivation(v), DerivedNames(approved))
    BY <1>1, <1>6, <2>5 DEF Planned
  <2>11. \A i \in 1 .. 3 : IsSequence(v[i])
    BY <1>4, <1>6
  <2> HIDE DEF ops
  <2> QED
    BY <1>1, <1>6, <2>5, <2>6, <2>7, <2>8, <2>9, <2>10, <2>11 DEF Planned
<1>7. Planned(v)
  BY <1>1, <1>5, <1>6
<1> QED
  BY <1>1, <1>7 DEF v, x

\* A step that touches neither the stage nor what was approved reads the same
\* results the same way.
LEMMA PlansStand ==
    ASSUME UNCHANGED approved
    PROVE  \A w : Planned(w)' = Planned(w)
BY DEF Planned, Read

\* Nothing is planned at the start.
LEMMA PlanInitially == Init => PlanInv
<1> SUFFICES ASSUME Init, agent = "processing"
             PROVE  PlanInv
  BY DEF PlanInv
<1>1. /\ approved \in Approvable /\ client = Request(1, 1, NoFeedback, <<>>) /\ job = Idle
      /\ outcome = Undecided
  BY DEF Init
<1>2. client.merged = <<>> /\ job.work = <<>> /\ job.phase = "idle" /\ outcome.kind = "undecided"
  BY <1>1 DEF Request, Idle, Undecided
<1>3. Planned(<<>>)
  BY DEF Planned
<1> QED
  BY <1>1, <1>2, <1>3 DEF PlanInv

\* A step of the job, by the results it leaves.
LEMMA PlanBesideClient ==
    ASSUME PlanInv, agent = "processing" => Planned(job'.work),
           UNCHANGED <<client, outcome, mode, agent, approved>>,
           agent = "processing" =>
             /\ job'.phase # "probe"
             /\ job'.phase \in {"retrieve", "process", "store"} => Len(job'.work) = 4
             /\ job'.phase = "reply" /\ job'.output.kind = "result" => Len(job'.work) = 4
    PROVE  PlanInv'
<1>1. PICK w : w = job'.work
  OBVIOUS
<1>2. Planned(w)' = Planned(w)
  BY PlansStand
<1>3. agent = "processing" => Planned(job.work)'
  BY <1>1, <1>2 DEF Planned
<1>4. Planned(client.merged)' = Planned(client.merged)
  BY DEF Planned, Read
<1> QED
  BY <1>3, <1>4 DEF PlanInv

\* Steps of the job that add no result.
LEMMA PlanIsKept ==
    ASSUME PlanInv, JobFresh, NEW b,
           StartJob \/ SchemaUnavailable \/ Retrieve(b) \/ Process(b) \/ StoreArtifact(b)
    PROVE  PlanInv'
<1> SUFFICES ASSUME agent = "processing"
             PROVE  PlanInv'
  <2>1. UNCHANGED agent
    BY ReadingIsApproved DEF StartJob, SchemaUnavailable, Retrieve, Process, StoreArtifact
  <2> QED
    BY <2>1 DEF PlanInv
<1>1. UNCHANGED <<client, outcome, mode, agent, approved>> /\ IsJob(job)
  BY DEF StartJob, SchemaUnavailable, Retrieve, Process, StoreArtifact, JobFresh
<1>2. CASE StartJob
  <2>1. Ask(job.step, job.attempt, job.feedback, job.work)
    BY <1>2 DEF StartJob
  <2>2. job'.work = job.work /\ job'.phase = "ask"
    BY <1>1, <2>1 DEF IsJob, Ask
  <2> QED
    BY <1>1, <2>2, PlanBesideClient DEF PlanInv
<1>3. CASE SchemaUnavailable
  BY <1>3 DEF SchemaUnavailable
<1>4. CASE Retrieve(b) \/ Process(b) \/ StoreArtifact(b)
  <2>1. job.phase \in {"retrieve", "process", "store"}
    BY <1>4 DEF Retrieve, Process, StoreArtifact
  <2>2. \/ \E o : Finish(job.work, o)
        \/ job' = [job EXCEPT !.phase = "process"]
        \/ job' = [job EXCEPT !.phase = "store"]
    <3>1. CASE Retrieve(b)
      BY <3>1 DEF Retrieve
    <3>2. CASE Process(b)
      BY <3>2 DEF Process
    <3>3. CASE StoreArtifact(b)
      BY <3>3 DEF StoreArtifact
    <3> QED
      BY <1>4, <3>1, <3>2, <3>3
  <2>3. job'.work = job.work /\ job'.phase # "probe"
    <3>1. CASE \E o : Finish(job.work, o)
      BY <1>1, <3>1, FinishJob
    <3>2. CASE job' = [job EXCEPT !.phase = "process"] \/ job' = [job EXCEPT !.phase = "store"]
      BY <1>1, <3>2 DEF IsJob
    <3> QED
      BY <2>2, <3>1, <3>2
  <2>4. Planned(job.work) /\ Len(job.work) = 4
    BY <2>1 DEF PlanInv
  <2> QED
    BY <1>1, <2>3, <2>4, PlanBesideClient
<1> QED
  BY <1>2, <1>3, <1>4

\* An accepted answer adds its result, a refused one adds nothing.
LEMMA PlanAtPrompts ==
    ASSUME PlanInv, JobFresh, JobShows, job.phase = "ask", NEW answer \in Answers[Steps[job.step]],
           NextPrompt(answer) \/ LastPrompt(answer) \/ Refuse(answer)
    PROVE  PlanInv'
<1> DEFINE x == ResultOf(Steps[job.step], answer, job.work)
           w == Append(job.work, x)
<1> SUFFICES ASSUME agent = "processing"
             PROVE  PlanInv'
  <2>1. UNCHANGED agent
    BY DEF NextPrompt, LastPrompt, Refuse
  <2> QED
    BY <2>1 DEF PlanInv
<1>1. /\ UNCHANGED <<client, outcome, mode, agent, approved>> /\ IsJob(job) /\ ~ Stepwise
      /\ IsSequence(job.work) /\ Len(job.work) = job.step - 1
      /\ job.step \in Nat /\ job.attempt \in Nat \ {0}
      /\ job.step \in DOMAIN Steps /\ Planned(job.work)
  BY DEF NextPrompt, LastPrompt, Refuse, JobFresh, JobShows, PlanInv, Stepwise, IsJob
<1>2. ASSUME Accepts(Steps[job.step], answer, job.work)
      PROVE  Planned(w) /\ job.step \in 1 .. 4
  BY <1>1, <1>2, PlanGrows
<1>3. CASE NextPrompt(answer)
  <2>1. Ask(job.step + 1, 1, NoFeedback, w) /\ Accepts(Steps[job.step], answer, job.work)
    BY <1>3 DEF NextPrompt
  <2>2. Planned(w)
    BY <1>2, <2>1
  <2> HIDE DEF w, x
  <2>3. job'.work = w /\ job'.phase = "ask"
    BY <1>1, <2>1 DEF IsJob, Ask
  <2> QED
    BY <1>1, <2>2, <2>3, PlanBesideClient
<1>4. CASE LastPrompt(answer)
  <2>1. /\ job' = [job EXCEPT !.phase = "retrieve", !.work = w]
        /\ Accepts(Steps[job.step], answer, job.work) /\ job.step = Len(Steps)
    BY <1>1, <1>4 DEF LastPrompt
  <2>2. Planned(w)
    BY <1>2, <2>1
  <2>3. Len(w) = 4
    <3>1. job.step = 4
      BY <2>1 DEF Steps, Prompts
    <3> HIDE DEF x
    <3>2. Len(w) = Len(job.work) + 1
      BY <1>1, AppendOne
    <3> QED
      BY <1>1, <3>1, <3>2
  <2> HIDE DEF w, x
  <2>4. job'.work = w /\ job'.phase = "retrieve"
    BY <1>1, <2>1 DEF IsJob
  <2> QED
    BY <1>1, <2>2, <2>3, <2>4, PlanBesideClient
<1>5. CASE Refuse(answer)
  <2>1. \/ Finish(job.work, Error(ContractCode, "contract"))
        \/ \E f : Ask(job.step, job.attempt + 1, f, job.work)
    BY <1>1, <1>5 DEF Refuse
  <2>2. /\ job'.work = job.work /\ job'.phase \in {"ask", "reply"}
        /\ job'.phase = "reply" => job'.output.kind = "error"
    <3>1. CASE Finish(job.work, Error(ContractCode, "contract"))
      <4>1. Error(ContractCode, "contract").kind = "error"
        BY DEF Error
      <4> QED
        BY <1>1, <3>1, <4>1, FinishJob
    <3>2. CASE \E f : Ask(job.step, job.attempt + 1, f, job.work)
      <4>1. job.attempt + 1 \in Nat \ {0}
        BY <1>1
      <4> QED
        BY <1>1, <3>2, <4>1, AskJob
    <3> QED
      BY <2>1, <3>1, <3>2
  <2> QED
    BY <1>1, <2>2, PlanBesideClient
<1> QED
  BY <1>3, <1>4, <1>5

\* A job that is over holds nothing.
LEMMA NoPlan == Planned(<<>>) /\ Idle.work = <<>> /\ Idle.phase = "idle"
BY DEF Planned, Idle

\* Only selections are probed, and a reply to nobody is lost.
LEMMA PlanPasses ==
    ASSUME PlanInv, NEW b, ProbeSelection(b) \/ ReplyLost
    PROVE  PlanInv'
<1>1. UNCHANGED <<client, outcome, mode, agent, approved>>
  BY DEF ProbeSelection, ReplyLost
<1>2. CASE ProbeSelection(b)
  <2>1. agent # "processing"
    BY <1>2 DEF ProbeSelection, PlanInv
  <2> QED
    BY <1>1, <2>1 DEF PlanInv
<1>3. CASE ReplyLost
  <2>1. job' = Idle
    BY <1>3 DEF ReplyLost
  <2>2. job'.work = <<>> /\ job'.phase = "idle" /\ Planned(<<>>)
    BY <2>1, NoPlan
  <2> QED
    BY <1>1, <2>2, PlanBesideClient
<1> QED
  BY <1>2, <1>3

\* A step of the client, by what it and the job hold after it.
LEMMA PlanWithClient ==
    ASSUME PlanInv, UNCHANGED <<agent, approved>>,
           agent = "processing" =>
             /\ Planned(job'.work) /\ Planned(client'.merged)
             /\ job'.phase \in {"idle", "begin"} \/ UNCHANGED job
             /\ outcome'.kind = "passed" => Len(client'.merged) = 4
    PROVE  PlanInv'
<1>1. PICK v, w : v = job'.work /\ w = client'.merged
  OBVIOUS
<1>2. Planned(v)' = Planned(v) /\ Planned(w)' = Planned(w)
  BY PlansStand
<1>3. agent = "processing" => Planned(job.work)' /\ Planned(client.merged)'
  BY <1>1, <1>2 DEF Planned
<1> QED
  BY <1>3 DEF PlanInv

\* A data-processing job is sent nothing but what the client holds, and its
\* client takes over what a stage that passed was left with.
LEMMA PlanAtClient ==
    ASSUME PlanInv, ClientFresh, ClientShows, ClientStep
    PROVE  PlanInv'
<1>1. UNCHANGED <<mode, agent, approved>>
  BY DEF ClientStep, Deliver, NextRequest, RetryRequest, StageResult, StageError
<1> SUFFICES ASSUME agent = "processing"
             PROVE  PlanInv'
  BY <1>1 DEF PlanInv
<1>2. /\ ~ Stepwise /\ IsRequest(client)
      /\ Planned(job.work) /\ Planned(client.merged) /\ Planned(<<>>)
  BY NoPlan DEF Stepwise, ClientFresh, PlanInv
<1>3. CASE Deliver
  <2>1. /\ job' = [Idle EXCEPT !.phase = "begin", !.step = client.step, !.attempt = client.attempt,
                               !.feedback = client.feedback, !.work = client.merged]
        /\ client' = [client EXCEPT !.phase = "waiting"] /\ UNCHANGED outcome
        /\ client.phase = "sending"
    BY <1>3 DEF Deliver
  <2>2. job'.work = client.merged /\ job'.phase = "begin"
    BY <2>1 DEF Idle
  <2>3. client'.merged = client.merged
    BY <1>2, <2>1 DEF IsRequest
  <2>4. outcome'.kind # "passed"
    BY <2>1 DEF ClientShows, Undecided
  <2> QED
    BY <1>1, <1>2, <2>2, <2>3, <2>4, PlanWithClient
<1>4. CASE NextRequest \/ RetryRequest
  BY <1>2, <1>4 DEF NextRequest, RetryRequest
<1>5. CASE StageResult
  <2>1. /\ client' = [client EXCEPT !.phase = "done", !.merged = job.work] /\ job' = Idle
        /\ Len(job.work) = 4
    BY <1>5 DEF StageResult, Replied, PlanInv
  <2>2. client'.merged = job.work
    BY <1>2, <2>1 DEF IsRequest
  <2>3. job'.work = <<>> /\ job'.phase = "idle"
    BY <2>1, NoPlan
  <2> QED
    BY <1>1, <1>2, <2>1, <2>2, <2>3, PlanWithClient
<1>6. CASE StageError
  <2>1. client' = [client EXCEPT !.phase = "done"] /\ job' = Idle /\ outcome'.kind # "passed"
    BY <1>6 DEF StageError, Decide
  <2>2. client'.merged = client.merged
    BY <1>2, <2>1 DEF IsRequest
  <2>3. job'.work = <<>> /\ job'.phase = "idle"
    BY <2>1, NoPlan
  <2> QED
    BY <1>1, <1>2, <2>1, <2>2, <2>3, PlanWithClient
<1> QED
  BY <1>3, <1>4, <1>5, <1>6 DEF ClientStep

\* Nor does a failed invocation.
LEMMA PlanAtFailure ==
    ASSUME PlanInv, ClientFresh, ClientShows,
           NEW f \in {"conflict", "refused", "cut", "garbled"}, InvokeFails(f)
    PROVE  PlanInv'
<1>1. /\ UNCHANGED <<mode, agent, approved>> /\ job' \in {Idle, job}
      /\ client.phase \in {"sending", "waiting"}
  BY DEF InvokeFails
<1>2. \/ client' = [client EXCEPT !.phase = "sending", !.tries = @ + 1] /\ UNCHANGED outcome
      \/ /\ client' = [client EXCEPT !.phase = "done"]
         /\ Decide("error", "AGENT_RUNTIME_UNAVAILABLE", "invocation", client.step)
  <2>1. CASE f = "conflict"
    BY <2>1 DEF InvokeFails, Retryable
  <2>2. CASE f # "conflict"
    BY <2>2 DEF InvokeFails, Retryable
  <2> QED
    BY <2>1, <2>2
<1>3. client'.merged = client.merged
  BY <1>2 DEF ClientFresh, IsRequest
<1>4. outcome'.kind # "passed"
  BY <1>1, <1>2 DEF ClientShows, Undecided, Decide
<1>5. /\ job'.work \in {<<>>, job.work}
      /\ job'.phase = "idle" \/ UNCHANGED job
  BY <1>1, NoPlan
<1>6. agent = "processing" => Planned(job.work) /\ Planned(client.merged) /\ Planned(<<>>)
  BY NoPlan DEF PlanInv
<1> QED
  BY <1>1, <1>3, <1>4, <1>5, <1>6, PlanWithClient

\* The invariant survives every step.
LEMMA PlanStep == PlanInv /\ ListInv /\ ClientFresh /\ JobFresh /\ [Next]_vars => PlanInv'
<1> SUFFICES ASSUME PlanInv, ListInv, ClientFresh, JobFresh, [Next]_vars
             PROVE  PlanInv'
  OBVIOUS
<1>1. ClientShows /\ JobShows
  BY DEF ListInv
<1>2. CASE ClientStep
  BY <1>1, <1>2, PlanAtClient
<1>3. CASE Prompted
  BY <1>1, <1>3, PlanAtPrompts DEF Prompted
<1>4. CASE StartJob \/ SchemaUnavailable
  BY <1>4, PlanIsKept
<1>5. CASE ReplyLost
  BY <1>5, PlanPasses
<1>6. ASSUME NEW b \in BOOLEAN, ProbeSelection(b) \/ Retrieve(b) \/ Process(b) \/ StoreArtifact(b)
      PROVE  PlanInv'
  BY <1>6, PlanIsKept, PlanPasses
<1>7. ASSUME NEW f \in {"conflict", "refused", "cut", "garbled"}, InvokeFails(f) PROVE PlanInv'
  BY <1>1, <1>7, PlanAtFailure
<1>8. CASE UNCHANGED vars
  <2>1. UNCHANGED <<client, job, outcome, agent, approved>>
    BY <1>8 DEF vars
  <2>2. agent = "processing" => /\ Planned(job.work) /\ Planned(client.merged)
                                /\ outcome.kind = "passed" => Len(client.merged) = 4
    BY DEF PlanInv
  <2> QED
    BY <2>1, <2>2, PlanWithClient
<1> QED
  BY <1>2, <1>3, <1>4, <1>5, <1>6, <1>7, <1>8 DEF Next, Work, JobStep

(***************************************************************************)
(* The delivered columns                                                   *)
(***************************************************************************)

\* An approvable selection has derived columns.
LEMMA SomethingIsDerived == ASSUME NEW s \in Approvable PROVE DerivedNames(s) # {}
<1>1. PICK a \in Answers["SOURCE_COLUMN_SELECTION"], d \in Answers["DERIVED_COLUMN_DESIGN"] :
         /\ DerivedAccepted(d, Prepared(a, Schema))
         /\ s = Merge(Prepared(a, Schema), DerivedResult(d, Prepared(a, Schema)))
  BY DEF Approvable
<1>2. s.derived = DerivedResult(d, Prepared(a, Schema))
  BY <1>1 DEF Merge
<1>3. PICK i \in WithSoundBins(d.columns) : TRUE
  BY <1>1 DEF DerivedAccepted
<1>4. s.derived # {}
  BY <1>2, <1>3 DEF DerivedResult
<1> QED
  BY <1>4 DEF DerivedNames

\* Of a stage that passed the plan is known.
LEMMA PlanIsReal == PlanInv => OutputIsReal
<1> SUFFICES ASSUME PlanInv, agent = "processing", outcome.kind = "passed"
             PROVE  LET plan == client.merged[4]
                        end == Execute(plan, Names(approved.columns))
                    IN /\ plan.output \subseteq end.real \cup Phantoms(plan)
                       /\ plan.output \subseteq
                            Names(approved.columns) \cup DerivedNames(approved) \cup Phantoms(plan)
  BY DEF OutputIsReal
<1> DEFINE plan == client.merged[4]
           derivation == Derivation(client.merged)
<1>1. Planned(client.merged) /\ Len(client.merged) = 4 /\ approved \in Approvable
  BY DEF PlanInv
<1>2. PICK ops : /\ IsSequence(ops) /\ \A i \in DOMAIN ops : ops[i].type = "select_columns"
                 /\ plan.operations = derivation \o ops
                 /\ Lineage(plan.operations, Read).ok
                 /\ plan.output \subseteq Lineage(plan.operations, Read).available
  BY <1>1 DEF Planned
<1>3. IsSequence(derivation)
  <2>1. \A i \in 1 .. 3 : IsSequence(client.merged[i])
    BY <1>1 DEF Planned
  <2>2. IsSequence(client.merged[1] \o client.merged[2])
    BY <2>1, Behind
  <2> QED
    BY <2>1, <2>2, Behind DEF Derivation
<1>4. Created(derivation) = DerivedNames(approved)
  BY <1>1, SomethingIsDerived DEF Planned, Covers
<1> HIDE DEF derivation, plan
<1>5. Created(plan.operations) \subseteq DerivedNames(approved)
  BY <1>2, <1>3, <1>4, SelectingCreatesNothing
<1>6. Len(plan.operations) \in Nat /\ DOMAIN plan.operations = 1 .. Len(plan.operations)
  BY <1>2, <1>3, Behind
<1>7. plan.output \subseteq Execute(plan, Read).real \cup Phantoms(plan)
  BY <1>2, <1>6, LineageIsReal
<1>8. plan.output \subseteq Read \cup DerivedNames(approved) \cup Phantoms(plan)
  BY <1>2, <1>5, <1>6, LineageAddsNothingElse
<1> QED
  BY <1>7, <1>8 DEF plan, Read

\* The columns of the delivered file hold what was read or computed, and are the
\* approved ones: the lineage that the four planning steps were checked against
\* agrees with what the executor does, whatever the model answers. Targets that
\* no operation writes are the exception (plan.py and processor.py).
THEOREM DeliveredColumnsAreReal == Spec => []OutputIsReal
<1> DEFINE Inv == PlanInv /\ ListInv /\ ClientFresh /\ JobFresh
<1>1. Init => Inv
  BY PlanInitially, ListInitially, FreshInitially
<1>2. Inv /\ [Next]_vars => Inv'
  BY PlanStep, ListStep, FreshStep
<1>3. Inv => OutputIsReal
  BY PlanIsReal
<1> QED
  BY <1>1, <1>2, <1>3, PTL DEF Spec
==============================================================================
