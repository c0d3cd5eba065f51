-------------------------- MODULE ProcessingPlans --------------------------
(***************************************************************************)
(* The processing plan a model writes and the executor runs: what          *)
(* agent_runtime/data_processing/planning_agent.py normalises and accepts  *)
(* step by step, the column lineage plan.py validates, and what            *)
(* processor.py does with the columns when it executes the plan.           *)
(*                                                                         *)
(* An operation is a record                                                *)
(*   [id, type, form, sources, refs, target, strategy, groupBy, metrics,   *)
(*    columns]                                                             *)
(* where sources are its source_columns, refs the columns its expression   *)
(* reads, metrics a set of [column, target], and form says whether its     *)
(* parameters are the contract's own, an alias of them, or neither.        *)
(* The values in the cells are left out: a fault that depends on them is   *)
(* a choice of the module that executes the plan.                          *)
(***************************************************************************)
EXTENDS Naturals, FiniteSets, SequencesExt

CONSTANTS
    NoColumn,            \* an operation without a target_column
    DirectIdentifiers    \* column names whose values are replaced by tokens

Expressions == {"compare", "logical", "conditional", "arithmetic", "map_values"}
Aggregates == {"aggregate", "window_aggregate"}

\* DERIVED_OPERATION_TYPES
DerivedTypes == Expressions \cup {"derive_date_part", "bucketize", "window_aggregate"}

Allows ==
    [DEDUPLICATION_PLAN |-> {"deduplicate"},
     MISSING_VALUE_PLAN |-> {"cast", "fill_missing"},
     DERIVED_COLUMN_ORDER |-> DerivedTypes \cup {"aggregate", "sort"},
     FINAL_COLUMN_VALIDATION |-> {"select_columns"}]

\* A legacy aggregate with a target column is a window; an alias that stands
\* alone is rewritten to the contract's own key.
NormalOperation(op) ==
    [op EXCEPT !.type = IF @ = "aggregate" /\ op.target # NoColumn
                        THEN "window_aggregate" ELSE @,
               !.form = IF @ = "alias" THEN "exact" ELSE @]

Normal(ops) == [i \in DOMAIN ops |-> NormalOperation(ops[i])]

Targets(op) == {m.target : m \in op.metrics}

---------------------------------------------------------------------------
(* Lineage                                                                 *)

\* What one operation must be: _validate_operation and the checks on the
\* columns that exist before it.
OperationHolds(op, available) ==
    /\ op.form = "exact"
    /\ op.sources \subseteq available
    /\ op.type \in {"derive_date_part", "bucketize"} =>
         Cardinality(op.sources) = 1 /\ op.target # NoColumn
    /\ op.type \in Expressions =>
         op.sources # {} /\ op.target # NoColumn /\ op.refs = op.sources
    /\ op.type \in {"cast", "fill_missing"} => op.sources # {}
    /\ op.type = "select_columns" => op.columns # {} /\ op.columns \subseteq available
    /\ op.type \in Aggregates =>
         /\ op.groupBy # {} /\ op.groupBy \subseteq available
         /\ op.metrics # {} /\ \A m \in op.metrics : m.column \in available
         /\ op.type = "window_aggregate" => op.target \in Targets(op)

\* Faulty: the columns that an aggregation does not keep stay available.
ColumnsAccumulated(op, available) ==
    CASE op.type \in Aggregates     -> available \cup Targets(op)
      [] op.type = "select_columns" -> op.columns
      [] OTHER -> available \cup ({op.target} \ {NoColumn})

\* The columns that count as existing after it. Any operation may name a
\* target column, also one that writes none.
ColumnsAfter(op, available) ==
    CASE op.type = "window_aggregate" -> available \cup Targets(op)
      [] op.type = "aggregate"        -> op.groupBy \cup Targets(op)
      [] op.type = "select_columns"   -> op.columns
      [] OTHER -> available \cup ({op.target} \ {NoColumn})

\* The columns that exist after the first n operations.
Availability(ops, sources) ==
    LET after[n \in 0 .. Len(ops)] ==
          IF n = 0 THEN sources ELSE ColumnsAfter(ops[n], after[n - 1])
    IN after

\* validate_processing_operations
Lineage(ops, sources) ==
    LET after == Availability(ops, sources)
    IN [ok |-> /\ sources # {}
               /\ \A n \in 1 .. Len(ops) : OperationHolds(ops[n], after[n - 1]),
        available |-> after[Len(ops)]]

---------------------------------------------------------------------------
(* The order of the derived columns                                        *)

Derives(op) == op.type \in DerivedTypes

Derivations(ops) == {i \in DOMAIN ops : Derives(ops[i])}

\* The derivations that the first n passes take: a pass takes every one whose
\* sources exist.
Passes(ops, sources) ==
    LET taken[n \in 0 .. Len(ops)] ==
          IF n = 0 THEN {}
          ELSE {i \in Derivations(ops) :
                  ops[i].sources \subseteq sources \cup {ops[j].target : j \in taken[n - 1]}}
    IN taken

\* Derived columns have distinct targets of their own, and no cycle.
Orderable(ops, sources) ==
    LET targets == {ops[i].target : i \in Derivations(ops)}
    IN /\ NoColumn \notin targets
       /\ Cardinality(targets) = Cardinality(Derivations(ops))
       /\ targets \cap sources = {}
       /\ Passes(ops, sources)[Len(ops)] = Derivations(ops)

\* The derivations pass by pass, then the others, each in their order.
OrderDerived(ops, sources) ==
    LET taken == Passes(ops, sources)
        Earlier(j, i) == \E n \in DOMAIN taken : j \in taken[n] /\ i \notin taken[n]
        Precedes(j, i) == Earlier(j, i) \/ (j < i /\ ~ Earlier(i, j))
        Place(i) == Cardinality({j \in DOMAIN ops : Precedes(j, i)}) + 1
    IN [k \in 1 .. Len(ops) |-> ops[CHOOSE i \in DOMAIN ops : Place(i) = k]]

\* Exactly the approved derived columns are created.
Created(ops) ==
    {op.target : op \in {op \in Range(ops) : Derives(op)}} \cup
    UNION {Targets(op) : op \in {op \in Range(ops) : op.type \in Aggregates}}

Covers(ops, approved) == approved # {} => Created(ops) = approved

---------------------------------------------------------------------------
(* The four prompt steps. A selection is given by its source columns and   *)
(* the names of its derived columns; previous holds the operations that    *)
(* earlier steps accepted.                                                 *)

StepOperations(step, answer, sources) ==
    IF step = "DERIVED_COLUMN_ORDER"
    THEN OrderDerived(Normal(answer.operations), sources)
    ELSE Normal(answer.operations)

StepAccepted(step, answer, previous, sources, approved) ==
    LET ops == Normal(answer.operations)
        all == previous \o StepOperations(step, answer, sources)
    IN /\ answer.form = "ok"
       /\ \A i \in DOMAIN ops : ops[i].type \in Allows[step]
       /\ step = "DERIVED_COLUMN_ORDER" => Orderable(ops, sources)
       /\ Cardinality({all[i].id : i \in DOMAIN all}) = Len(all)
       /\ Lineage(all, sources).ok
       /\ step = "DERIVED_COLUMN_ORDER" => Covers(all, approved)

\* The axes of the last aggregation.
Axes(ops) ==
    LET last == SelectLastInSeq(ops, LAMBDA op : op.type \in Aggregates)
    IN IF last = 0 THEN {} ELSE ops[last].groupBy

\* With several axes none of them is unique by itself: the check is dropped.
Applicable(checks, ops) ==
    {c \in checks : ~ (c.type = "unique" /\ c.column \in Axes(ops)
                         /\ Cardinality(Axes(ops)) > 1)}

Plan(answer, previous) ==
    LET ops == previous \o Normal(answer.operations)
    IN [operations |-> ops, output |-> answer.output, checks |-> Applicable(answer.checks, ops)]

\* ProcessingPlan and validate_processing_plan
PlanHolds(plan, sources) ==
    LET lineage == Lineage(plan.operations, sources)
    IN /\ lineage.ok
       /\ plan.operations # <<>> /\ plan.output # {}
       /\ plan.output \subseteq lineage.available
       /\ \A c \in plan.checks : c.column \in lineage.available

FinalAccepted(answer, previous, sources, approved) ==
    /\ StepAccepted("FINAL_COLUMN_VALIDATION", answer, previous, sources, approved)
    /\ PlanHolds(Plan(answer, previous), sources)

---------------------------------------------------------------------------
(* Execution. columns is the executor's column list; present the keys the  *)
(* rows have; real those of them that were read or computed, the others    *)
(* being filled with None; rows says whether any row is left; broken that  *)
(* a key was read that the rows do not have.                               *)

\* Reading a missing key fails only when there is a row. That the cells make
\* drop_row remove every row is left out: nothing fails then.
Reads(state, columns) ==
    [state EXCEPT !.broken = @ \/ (state.rows /\ ~ columns \subseteq state.present)]

Writes(state, columns) ==
    [state EXCEPT !.columns = @ \cup columns, !.present = @ \cup columns, !.real = @ \cup columns]

FillMissing(state, op) ==
    CASE op.strategy = "keep_null" -> state
      [] op.strategy = "drop_row"  ->
           [state EXCEPT !.rows = @ /\ op.sources \subseteq state.real]
      [] OTHER -> Reads(state, op.sources)

Replaced(state, columns, written) ==
    [state EXCEPT !.columns = columns, !.present = columns,
                  !.real = (@ \cap columns) \cup written]

Apply(state, op) ==
    CASE op.type = "cast"             -> [state EXCEPT !.present = @ \cup op.sources]
      [] op.type = "fill_missing"     -> FillMissing(state, op)
      [] op.type = "deduplicate"      ->
           Reads(state, IF op.sources = {} THEN state.columns ELSE op.sources)
      [] op.type = "window_aggregate" -> Writes(state, Targets(op))
      [] op.type = "aggregate"        ->
           Replaced(state, op.groupBy \cup Targets(op), Targets(op))
      [] op.type = "select_columns"   -> Replaced(state, op.columns, {})
      [] op.type = "sort"             -> state
      [] OTHER                        -> Writes(state, {op.target})

Started(read) ==
    [columns |-> read, present |-> read, real |-> read, rows |-> TRUE, broken |-> FALSE]

\* The states after the first n operations.
Execution(ops, read) ==
    LET after[n \in 0 .. Len(ops)] ==
          IF n = 0 THEN Started(read) ELSE Apply(after[n - 1], ops[n])
    IN after

Execute(plan, read) == Execution(plan.operations, read)[Len(plan.operations)]

\* Targets that no operation writes: the lineage counts them, the executor
\* does not know them.
Phantoms(plan) ==
    {op.target : op \in {op \in Range(plan.operations) :
                           ~ Derives(op) /\ op.type # "aggregate"}} \ {NoColumn}
=============================================================================
