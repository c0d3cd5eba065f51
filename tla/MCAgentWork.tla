---------------------------- MODULE MCAgentWork ----------------------------
(***************************************************************************)
(* A small database and a model that answers badly as often as well, for   *)
(* checking AgentWork with TLC. K is 2 instead of 5, so three customers and *)
(* five transactions hold safe groups and unsafe ones; every answer below  *)
(* is there for one decision of the contracts or of the query.             *)
(***************************************************************************)
EXTENDS AgentWork

CONSTANTS NULL, NONE     \* model values

MCRegistered ==
    [customers    |-> {"customer_id", "gender", "age_band"},
     merchants    |-> {"merchant_id", "merchant_name", "mcc_code", "merchant_region"},
     transactions |-> {"transaction_id", "merchant_id", "mcc_code", "transaction_hour_band",
                       "transaction_amount", "card_number_masked"}]
MCBlocked ==
    [customers |-> {}, merchants |-> {"merchant_name"}, transactions |-> {"card_number_masked"}]
\* The table got a column that the registry does not know yet.
MCDbColumns == [MCRegistered EXCEPT !.transactions = @ \cup {"terminal_id"}]
MCDatasetAliases == [merchant |-> "merchants"]

MCPersonAttributes == {"gender", "age_band"}
MCRowIdentifiers ==
    {"customer_id", "card_number_masked", "transaction_id", "merchant_id", "merchant_name"}
MCContextDimensions == {"mcc_code", "merchant_region", "transaction_hour_band"}
MCTextColumns == MCPersonAttributes \cup MCRowIdentifiers \cup {"merchant_region"}

Customer(id, gender, age) == [customer_id |-> id, gender |-> gender, age_band |-> age]
MCCustomerRows ==
    {Customer("c1", "F", 20), Customer("c2", "F", 20), Customer("c3", "M", 30)}
MCCardHolder == [k1 |-> "c1", k2 |-> "c2", k3 |-> "c3"]

MCMerchantRows ==
    {[merchant_id |-> "m1", merchant_name |-> "x", mcc_code |-> 5, merchant_region |-> "S"],
     [merchant_id |-> "m2", merchant_name |-> "y", mcc_code |-> 7, merchant_region |-> "S"]}

Transaction(id, card, merchant, mcc, hour) ==
    [transaction_id |-> id, card_number_masked |-> card, merchant_id |-> merchant,
     mcc_code |-> mcc, transaction_hour_band |-> hour, transaction_amount |-> 1]
\* c1 has two transactions of one hour; t5 was made abroad; t4 lies in m2
\* although it was booked under the code of m1.
MCTransactionRows ==
    {Transaction("t1", "k1", "m1", 5, 9), Transaction("t2", "k1", "m1", 5, 9),
     Transaction("t3", "k2", "m1", 5, 12), Transaction("t4", "k2", "m2", 5, 12),
     Transaction("t5", "k3", NULL, 5, 9)}

---------------------------------------------------------------------------
(* Answers of the requirements and selection prompts                       *)

Requirement(form, object) == [form |-> form, object |-> object]

Filter(operator, shape, accepts) ==
    [operator |-> operator, shape |-> shape, accepts |-> accepts, explained |-> TRUE]
Only(v) == Filter("eq", "single", {v})

Source(tables, columns, filters) ==
    [form |-> "ok", tables |-> tables, columns |-> columns, filters |-> filters,
     interpretations |-> {}]

Of(table, names) == {<<table, n>> : n \in names}
Both == {"customers", "transactions"}
People == Of("customers", {"gender", "age_band"})
Spending == Of("transactions", {"transaction_amount"})

SourceAnswers ==
    { \* two attributes of a person
      Source(Both, People \cup Spending, <<>>),
      \* and a dimension that leaves a group with one customer
      Source(Both, People \cup Of("transactions", {"transaction_hour_band"}), <<>>),
      \* and identifiers, with a filter on one of them
      Source(Both, People \cup Of("customers", {"customer_id"}), [customer_id |-> Only("c1")]),
      \* one attribute with the customer beside it
      Source({"customers"}, Of("customers", {"customer_id", "gender"}), <<>>),
      \* filters: too few customers, none, and a missing column that is added
      Source({"customers"}, People, [gender |-> Only("M")]),
      Source(Both, Spending, [transaction_hour_band |-> Only(3)]),
      Source(Both, People, [transaction_hour_band |-> Only(12)]),
      \* a missing filter column of two tables, and a comparison of text
      Source({"merchants", "transactions"}, Spending, [mcc_code |-> Only(5)]),
      Source({"customers"}, People, [age_band |-> Filter("gte", "single", {30})]),
      \* the older name of a table; what the probe and the read filter differs
      Source({"merchant", "transactions"},
             Spending \cup Of("merchant", {"mcc_code"}), [mcc_code |-> Only(7)]),
      \* no statement joins these, a table that is not chosen, an unknown column
      Source({"customers", "merchants"},
             Of("customers", {"age_band"}) \cup Of("merchants", {"mcc_code"}), <<>>),
      Source({"customers", "merchants"},
             Of("customers", {"age_band"}) \cup Of("merchants", {"mcc_code"}),
             [mcc_code |-> Only(5)]),
      Source({"customers"}, People \cup Spending, <<>>),
      Source(Both, Spending \cup Of("transactions", {"terminal_id"}), <<>>),
      Source(Both, Of("transactions", {"card_number_masked"}), <<>>),
      [Source(Both, Spending, <<>>) EXCEPT !.form = "malformed"] }

Derived(name, operation, refs, bare) ==
    [name |-> name, operation |-> operation, form |-> "exact", refs |-> refs, bare |-> bare,
     declared |-> {}, type |-> "right", bins |-> "ok"]
Columns(seq) == [form |-> "ok", columns |-> seq]

Band == Derived("band", "bucketize", {"transaction_amount"}, {})
Share == Derived("share", "arithmetic", {"band"}, {})
Old == Derived("old", "conditional", {"age_band"}, {"F"})

DerivedAnswers ==
    {Columns(<<Band>>),
     Columns(<<Band, Share>>),
     Columns(<<Share, Band>>),                            \* used before it exists
     Columns(<<Old>>),
     Columns(<<[Old EXCEPT !.bare = {"band"}], Band>>),   \* a later column, bare: a literal
     Columns(<<[Band EXCEPT !.bins = "broken"]>>),        \* nothing is left
     Columns(<<[Band EXCEPT !.bins = "broken"], Old>>),
     Columns(<<[Old EXCEPT !.form = "alias", !.type = "wrong"]>>),
     Columns(<<Derived("gender", "conditional", {"age_band"}, {})>>)}

Sample(rows) == [form |-> "ok", rows |-> rows, aligned |-> TRUE, synthetic |-> TRUE]

---------------------------------------------------------------------------
(* Answers of the planning prompts                                         *)

Op(id, type) ==
    [id |-> id, type |-> type, form |-> "exact", sources |-> {}, refs |-> {}, target |-> NONE,
     strategy |-> "none", groupBy |-> {}, metrics |-> {}, columns |-> {}]
On(op, sources) == [op EXCEPT !.sources = sources]
Into(op, target) == [op EXCEPT !.target = target]
Computes(op, sources) == [op EXCEPT !.sources = sources, !.refs = sources]
By(op, groupBy, metrics) == [op EXCEPT !.groupBy = groupBy, !.metrics = metrics]
Metric(column, target) == [column |-> column, target |-> target]

Operations(ops) == [form |-> "ok", operations |-> ops]

Dedupe == Op("d", "deduplicate")
DedupeAnswers ==
    {Operations(<<On(Dedupe, {"age_band"})>>),
     Operations(<<Into(Dedupe, "ghost")>>)}                \* a target nothing writes

MissingAnswers ==
    {Operations(<<>>),
     Operations(<<[On(Op("f", "fill_missing"), {"age_band"}) EXCEPT !.strategy = "drop_row"]>>),
     Operations(<<[On(Op("f", "fill_missing"), {"ghost"}) EXCEPT !.strategy = "drop_row"]>>),
     Operations(<<[On(Op("f", "fill_missing"), {"ghost"}) EXCEPT !.strategy = "median"]>>),
     Operations(<<On(Op("d", "cast"), {"transaction_amount"})>>),
     Operations(<<Op("f", "sort")>>)}

Bucket == Into(On(Op("b", "bucketize"), {"transaction_amount"}), "band")
Ratio == Into(Computes(Op("s", "arithmetic"), {"band"}), "share")
Elder == Into(Computes(Op("o", "conditional"), {"age_band"}), "old")
Total == By(Op("a", "aggregate"), {"age_band", "gender"}, {Metric("old", "total")})
Summed == By(Op("a", "aggregate"), {"age_band"}, {Metric("transaction_amount", "band")})

OrderAnswers ==
    {Operations(<<Bucket>>), Operations(<<Ratio, Bucket>>), Operations(<<Elder>>),
     Operations(<<Computes(Into(Bucket, "band"), {"share"}), Ratio>>),           \* a cycle
     Operations(<<Summed>>),
     Operations(<<Into(By(Op("a", "aggregate"), {"gender"}, {Metric("age_band", "old")}), "old")>>),
     Operations(<<Elder, Total>>)}                                     \* one column too many

Output(ops, output, checks) ==
    [form |-> "ok", operations |-> ops, output |-> output, checks |-> checks]
Unique(column) == [type |-> "unique", column |-> column]

FinalAnswers ==
    {Output(<<>>, {"age_band", "band"}, {}),
     Output(<<>>, {"gender", "age_band", "old"}, {Unique("gender")}),
     Output(<<[Op("k", "select_columns") EXCEPT !.columns = {"band", "share"}]>>,
            {"band", "share"}, {}),
     Output(<<>>, {"transaction_amount", "band"}, {}),     \* gone after an aggregation
     Output(<<>>, {"age_band", "ghost"}, {}),
     Output(<<>>, {"customer_id", "gender", "old"}, {Unique("customer_id")})}

MCAnswers ==
    [REQUEST_ANALYSIS           |-> {Requirement("ok", TRUE), Requirement("malformed", TRUE)},
     REQUEST_STRUCTURING        |-> {Requirement("ok", TRUE), Requirement("malformed", TRUE)},
     DATA_CATEGORIZATION        |-> {Requirement("ok", TRUE), Requirement("ok", FALSE)},
     SOURCE_COLUMN_SELECTION    |-> SourceAnswers,
     DERIVED_COLUMN_DESIGN      |-> DerivedAnswers,
     SYNTHETIC_SAMPLE_GENERATION |-> {Sample(5), Sample(4)},
     DEDUPLICATION_PLAN         |-> DedupeAnswers,
     MISSING_VALUE_PLAN         |-> MissingAnswers,
     DERIVED_COLUMN_ORDER       |-> OrderAnswers,
     FINAL_COLUMN_VALIDATION    |-> FinalAnswers]

MCRequested == {}
MCDirectIdentifiers == {"customer_id"}
=============================================================================
