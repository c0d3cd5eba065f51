-------------------------- MODULE SelectionPolicy --------------------------
(***************************************************************************)
(* What the code does to the answers of the data-selection model and to    *)
(* the query they lead to: the normalisations and contracts of             *)
(* agent_runtime/data_selection/agent.py, the policy of                    *)
(* agent_runtime/query/plan.py and registry.py, and the statements         *)
(* agent_runtime/query/executors.py builds from a selection.               *)
(*                                                                         *)
(* An answer is a record of what the contracts tell apart; its "form"      *)
(* stands for every purely structural defect (no JSON, missing or extra    *)
(* keys, a catalog entry that does not exist, a limit in the query, ...).  *)
(* A row is a function from column names to values; Null is SQL NULL.      *)
(***************************************************************************)
EXTENDS Naturals, FiniteSets, SequencesExt, TLC

CONSTANTS
    Registered,        \* dataset -> columns of its table in the registry
    Blocked,           \* dataset -> registered columns that are never offered
    DbColumns,         \* dataset -> columns its table has in the database
    DatasetAliases,    \* older dataset names -> the names in use
    PersonAttributes, RowIdentifiers, ContextDimensions, TextColumns,
    K,                 \* K_ANONYMITY
    MinCustomers,      \* DATA_PRIVACY_MIN_DISTINCT_CUSTOMERS
    CustomerRows, MerchantRows, TransactionRows,
    CardHolder,        \* cards: card_number_masked -> customer_id
    Null

ASSUME PersonAttributesAssumption == IsFiniteSet(PersonAttributes)

Datasets == DOMAIN Registered

\* The columns a selection may name, once its datasets are chosen.
Allowed(tables) == UNION {Registered[d] \ Blocked[d] : d \in tables \cap Datasets}

Canonical(name) == IF name \in DOMAIN DatasetAliases THEN DatasetAliases[name] ELSE name

\* The schema the model is shown: the requested datasets that exist (all of
\* them when nothing is requested), without their blocked columns.
Metadata(requested) ==
    LET named == IF requested = {} THEN Datasets ELSE {Canonical(n) : n \in requested}
    IN [d \in named \cap DOMAIN DbColumns |-> DbColumns[d] \ Blocked[d]]

Names(columns) == {c[2] : c \in columns}

Persons(columns) == Names(columns) \cap PersonAttributes
Identifiers(columns) == Names(columns) \cap RowIdentifiers

---------------------------------------------------------------------------
(* The first step: source columns and filters                              *)

WithCanonicalNames(s) ==
    [s EXCEPT !.tables = {Canonical(t) : t \in @},
              !.columns = {<<Canonical(c[1]), c[2]>> : c \in @}]

\* Where a filter column may come from.
Offers(meta, tables, name) ==
    {<<d, name>> : d \in {d \in DOMAIN meta :
                            name \in meta[d] /\ (tables = {} \/ d \in tables)}}

\* A filter column that is missing from the source columns is added when
\* exactly one column of the schema can be meant.
WithFilterColumns(s, meta) ==
    LET missing == DOMAIN s.filters \ Names(s.columns)
    IN [s EXCEPT !.columns = @ \cup
          UNION {o \in {Offers(meta, s.tables, f) : f \in missing} : Cardinality(o) = 1}]

\* Identifying columns next to two or more attributes of a person are taken
\* out with the filters on them, and the customer is told.
WithoutIdentifiers(s) ==
    LET out == Identifiers(s.columns)
    IN IF Cardinality(Persons(s.columns)) < 2 \/ out = {} THEN s
       ELSE [s EXCEPT !.columns = {c \in @ : c[2] \notin out},
                      !.filters = [f \in DOMAIN @ \ out |-> @[f]],
                      !.interpretations = @ \cup out]

Prepared(answer, meta) ==
    WithoutIdentifiers(WithFilterColumns(WithCanonicalNames(answer), meta))

\* A single value of an "in" filter is read as a list of one.
FilterHolds(f, column) ==
    /\ f.explained
    /\ f.shape # "empty"
    /\ f.operator = "between" => f.shape = "pair"
    /\ f.operator = "starts_with" => f.shape = "single"
    /\ f.operator \in {"gte", "lte", "between"} => column \notin TextColumns

SourceContract(s, meta) ==
    /\ s.form = "ok"
    /\ s.tables # {} /\ s.columns # {}
    /\ \A c \in s.columns : c[1] \in DOMAIN meta /\ c[2] \in meta[c[1]]
    /\ DOMAIN s.filters \subseteq Names(s.columns)
    /\ \A f \in DOMAIN s.filters : FilterHolds(s.filters[f], f)

\* SelectionPlan: the allowlist of the chosen datasets, and rule A.
PlanAllows(s) ==
    /\ s.tables # {} /\ s.tables \subseteq Datasets
    /\ s.columns # {}
    /\ Names(s.columns) \cup DOMAIN s.filters \subseteq Allowed(s.tables)
    /\ Cardinality(Persons(s.columns)) < 2 \/ Identifiers(s.columns) = {}

SourceAccepted(answer, meta) ==
    LET s == Prepared(answer, meta) IN SourceContract(s, meta) /\ PlanAllows(s)

---------------------------------------------------------------------------
(* The second step: derived columns, a sequence of                         *)
(* [name, operation, form, refs, bare, declared, type, bins].              *)

\* Columns whose intervals cannot be repaired are dropped: where the others are.
WithSoundBins(columns) ==
    {i \in DOMAIN columns : columns[i].operation = "bucketize" => columns[i].bins # "broken"}

\* A bare string is a column when it is declared or already available, and a
\* literal otherwise.
Referenced(c, available) == c.refs \cup (c.bare \cap (c.declared \cup available))

\* The result type is corrected where the operation leaves one choice.
ResultType(c) ==
    IF c.operation \in {"compare", "logical", "arithmetic", "aggregate",
                        "bucketize", "date_part"}
    THEN "right" ELSE c.type

\* An alias alone is rewritten; with the exact key beside it, or an unknown key,
\* the specification is refused.
ParametersHold(c) == c.form \in {"exact", "alias"}

SpecHolds(c, available) ==
    /\ ParametersHold(c)
    /\ Referenced(c, available) # {}
    /\ Referenced(c, available) \subseteq available
    /\ ResultType(c) = "right"

\* Columns are checked in order: each may use the ones before it.
AvailableTo(i, columns, sources) ==
    sources \cup {columns[j].name : j \in {j \in WithSoundBins(columns) : j < i}}

DerivedCheck(columns, sources) ==
    \A i \in WithSoundBins(columns) : SpecHolds(columns[i], AvailableTo(i, columns, sources))

DerivedAccepted(answer, source) ==
    LET names == {answer.columns[i].name : i \in DOMAIN answer.columns}
    IN /\ answer.form = "ok"
       /\ Cardinality(names) = Len(answer.columns)
       /\ names \cap Names(source.columns) = {}
       /\ WithSoundBins(answer.columns) # {}
       /\ DerivedCheck(answer.columns, Names(source.columns))

\* The columns that are left, with the sources they really refer to.
DerivedResult(answer, source) ==
    LET Available(i) == AvailableTo(i, answer.columns, Names(source.columns))
    IN {[name |-> answer.columns[i].name,
         sources |-> Referenced(answer.columns[i], Available(i))]
          : i \in WithSoundBins(answer.columns)}

\* The third step: five synthetic rows over the declared columns.
SampleAccepted(answer) ==
    /\ answer.form = "ok"
    /\ answer.rows = 5 /\ answer.aligned /\ answer.synthetic

---------------------------------------------------------------------------
(* What the database is asked                                              *)

RowOf(rows, column, value) == CHOOSE r \in rows : r[column] = value

\* An outer join: a transaction abroad has no merchant.
MerchantOf(t) ==
    IF t["merchant_id"] \in {m["merchant_id"] : m \in MerchantRows}
    THEN RowOf(MerchantRows, "merchant_id", t["merchant_id"])
    ELSE [c \in Registered["merchants"] |-> Null]

HolderOf(t) == RowOf(CustomerRows, "customer_id", CardHolder[t["card_number_masked"]])

\* The statement that counts customers always reaches them when there are
\* transactions. Where two tables have a column, the later one is filtered.
PrivacySource(tables) ==
    IF "transactions" \in tables
    THEN {(IF "merchants" \in tables THEN MerchantOf(t) ELSE <<>>) @@ HolderOf(t) @@ t
             : t \in TransactionRows}
    ELSE CustomerRows

\* The statement that reads: only the chosen tables, the earlier one first.
Joined(tables) ==
    IF "transactions" \in tables
    THEN {t @@ (IF "merchants" \in tables THEN MerchantOf(t) ELSE <<>>)
            @@ (IF "customers" \in tables THEN HolderOf(t) ELSE <<>>)
             : t \in TransactionRows}
    ELSE IF "customers" \in tables THEN CustomerRows ELSE MerchantRows

Joinable(tables) == "transactions" \in tables \/ ~ {"customers", "merchants"} \subseteq tables

\* NULL is in no list of values, so a filter never lets it pass.
Matching(s, rows) ==
    {r \in rows : \A f \in DOMAIN s.filters : r[f] \in s.filters[f].accepts \ {Null}}

\* What probe() reports: "passed" without a customer axis or with enough
\* customers, "skipped" when the statement cannot be built.
Probe(s) ==
    LET people == {r["customer_id"] : r \in Matching(s, PrivacySource(s.tables))}
    IN CASE {"transactions", "customers"} \cap s.tables = {} -> "passed"
         [] ~ Joinable(s.tables) /\ ~ DOMAIN s.filters \subseteq Registered["customers"]
              -> "skipped"
         [] OTHER -> CASE people = {} -> "no_data"
                       [] people # {} /\ Cardinality(people) < MinCustomers -> "too_few"
                       [] OTHER -> "passed"

\* A selection passes the contract without a statement that could run it.
Executable(s) ==
    /\ Joinable(s.tables)
    /\ Cardinality(Persons(s.columns)) >= 2 => "customers" \in s.tables

Dimensions(s) == Names(s.columns) \cap (PersonAttributes \cup ContextDimensions)

Agree(r, q, columns) == \A c \in columns : r[c] = q[c]

\* Faulty: rows are counted, not the customers behind them.
SafeCombinationOfRows(r, rows, dimensions) ==
    /\ \A c \in dimensions : r[c] # Null
    /\ Cardinality({q \in rows : Agree(r, q, dimensions)}) >= K

\* Rule B: a combination of the dimensions in the output needs K customers.
SafeCombination(r, rows, dimensions) ==
    /\ \A c \in dimensions : r[c] # Null
    /\ Cardinality({q["customer_id"] : q \in {q \in rows : Agree(r, q, dimensions)}}) >= K

Retrieved(s) ==
    LET rows == Matching(s, Joined(s.tables))
    IN IF Cardinality(Persons(s.columns)) < 2 THEN rows
       ELSE {r \in rows : SafeCombination(r, rows, Dimensions(s))}
=============================================================================
