------------------------------ MODULE Pricing ------------------------------
(***************************************************************************)
(* What a day's usage rows cost.  Rows are classified and summed by the    *)
(* query usage_groups, one group per model and price snapshot, and every   *)
(* group is classified once more and priced in Rust by line_for.  The      *)
(* state is the rows of the day, which arrive one at a time; the statement *)
(* is a function of them.                                                  *)
(*                                                                         *)
(* Amounts are micro-dollars, prices micro-dollars per Unit tokens.  The   *)
(* 128 bit intermediates are exact: where they could overflow, the result  *)
(* exceeds MaxMicros and is refused for the same reason.  Token sums stay  *)
(* within SQLite's 64 bit integers.                                        *)
(***************************************************************************)
EXTENDS Integers, Sequences, FiniteSets, FiniteSetsExt

CONSTANTS
    Models,
    Counts,      \* token counts a provider can report
    Prices,      \* prices an operator can set
    Null,        \* a column without a value
    Unit,        \* TOKENS_PER_PRICE_UNIT
    MaxMicros,   \* i64::MAX
    MaxRows      \* bound: rows of the day

ASSUME PricingNat == /\ Counts \subseteq Nat /\ Prices \subseteq Nat /\ Null \notin Int
                     /\ Unit \in Nat \ {0} /\ MaxMicros \in Nat /\ MaxRows \in Nat

\* The price columns of a row: all three, or none at all.
Snapshot == [input : Prices, cached : Prices, output : Prices] \cup {Null}
Row == [model : Models, prices : Snapshot,
        input : Counts \cup {Null}, cached : Counts \cup {Null}, output : Counts \cup {Null}]

ASSUME NullFresh == Null \notin [input : Prices, cached : Prices, output : Prices]

VARIABLE rows   \* the usage rows of a partner in one billing day

PricingInit == rows = <<>>
Arrive(row) == Len(rows) < MaxRows /\ rows' = Append(rows, row)
PricingNext == \E row \in Row : Arrive(row)
PricingSpec == PricingInit /\ [][PricingNext]_rows

-----------------------------------------------------------------------------
(* usage_groups. *)

Known(count) == IF count = Null THEN 0 ELSE count

\* The classified CTE's billable column.
Billable(row) ==
    /\ row.input # Null /\ row.output # Null /\ row.prices # Null
    /\ row.prices.cached = row.prices.input \/ row.cached # Null
    /\ Known(row.cached) <= row.input

Groups == {<<rows[i].model, rows[i].prices>> : i \in DOMAIN rows}
Members(g) == {i \in DOMAIN rows : <<rows[i].model, rows[i].prices>> = g}

\* SUM over the billable rows of a group; no value to add gives Null.
SumOf(S, col) ==
    LET valued == {i \in S : rows[i][col] # Null}
    IN IF valued = {} THEN Null ELSE MapThenSumSet(LAMBDA i : rows[i][col], valued)

\* Mutant: a row with a missing value is in neither count.
UsageGroupNulls(g) ==
    LET sum == {i \in Members(g) : Billable(rows[i])}
    IN [prices |-> g[2], count |-> Cardinality(sum), input |-> SumOf(sum, "input"),
        cached |-> SumOf(sum, "cached"), output |-> SumOf(sum, "output"),
        incomplete |-> Cardinality({i \in Members(g) : /\ ~Billable(rows[i])
                                                       /\ rows[i].input # Null})]

UsageGroup(g) ==
    LET sum == {i \in Members(g) : Billable(rows[i])}
    IN [prices |-> g[2], count |-> Cardinality(sum), input |-> SumOf(sum, "input"),
        cached |-> SumOf(sum, "cached"), output |-> SumOf(sum, "output"),
        incomplete |-> Cardinality(Members(g) \ sum)]

-----------------------------------------------------------------------------
(* line_for and what it calls; Null is a refusal. *)

\* Half away from zero, of a product of two counts.
Rounded(product) == (2 * product + Unit) \div (2 * Unit)

ComponentCost(tokens, price) ==
    LET cost == Rounded(tokens * price)
    IN IF cost > MaxMicros THEN Null ELSE cost

CheckedAdd(a, b) == IF a = Null \/ b = Null \/ a + b > MaxMicros THEN Null ELSE a + b

\* Mutant: the whole prompt is charged at the input price.
ComponentsTwice(input, cached, output, prices) ==
    IF cached > input THEN <<Null, Null, Null>>
    ELSE <<ComponentCost(input, prices.input), ComponentCost(cached, prices.cached),
           ComponentCost(output, prices.output)>>

Components(input, cached, output, prices) ==
    IF cached > input THEN <<Null, Null, Null>>
    ELSE <<ComponentCost(input - cached, prices.input), ComponentCost(cached, prices.cached),
           ComponentCost(output, prices.output)>>

\* price_line: the sum of the rounded components.
PriceLine(input, cached, output, prices) ==
    LET cost == Components(input, cached, output, prices)
    IN CheckedAdd(CheckedAdd(cost[1], cost[2]), cost[3])

NeedsCachedCount(prices) == prices.cached # prices.input

LineFor(group) ==
    IF \/ group.prices = Null
       \/ NeedsCachedCount(group.prices) /\ group.cached = Null
       \/ group.input = Null \/ group.output = Null
    THEN Null
    ELSE PriceLine(group.input, Known(group.cached), group.output, group.prices)

-----------------------------------------------------------------------------
(* statement_for_day. *)

Charged == {g \in Groups : UsageGroup(g).count > 0 /\ LineFor(UsageGroup(g)) # Null}

\* StatementDraft::total; a total out of range refuses the whole statement.
Total ==
    LET sum == MapThenSumSet(LAMBDA g : LineFor(UsageGroup(g)), Charged)
    IN IF sum > MaxMicros THEN Null ELSE sum

Incomplete ==
    MapThenSumSet(LAMBDA g : LET group == UsageGroup(g)
                             IN group.incomplete + IF g \in Charged THEN 0 ELSE group.count,
                  Groups)

-----------------------------------------------------------------------------
\* What row i costs exactly, in Unit-ths of a micro-dollar.
Exact(i) ==
    LET r == rows[i]
    IN (r.input - Known(r.cached)) * r.prices.input + Known(r.cached) * r.prices.cached
           + r.output * r.prices.output

\* Every request of the day is on a charged line or in the incomplete count, and in
\* one of them only, whatever its columns lack; and the query's classification and
\* line_for's agree: a group of billable rows is refused only when its amount is out of
\* range, also when some of its rows lack a cached count.
EveryRowStated ==
    /\ MapThenSumSet(LAMBDA g : UsageGroup(g).count, Charged) + Incomplete = Len(rows)
    /\ \A g \in Groups : UsageGroup(g).count > 0 /\ g \notin Charged =>
          MapThenSumSet(Exact, {i \in Members(g) : Billable(rows[i])}) + 2 * Unit
              > Unit * MaxMicros

\* The total is refused only when it is out of range, and otherwise it is the
\* exact price of the charged requests up to half a micro-dollar
\* for each of a line's three components: summing tokens before rounding, and
\* charging cached tokens apart from the rest of the prompt, adds no other error.
TotalFair ==
    LET exact == MapThenSumSet(LAMBDA g : MapThenSumSet(Exact,
                     {i \in Members(g) : Billable(rows[i])}), Charged)
        slack == 3 * Unit * Cardinality(Charged)
    IN IF Total = Null THEN 2 * exact + slack > 2 * Unit * MaxMicros
       ELSE /\ 2 * (Unit * Total - exact) <= slack
            /\ 2 * (exact - Unit * Total) <= slack
=============================================================================
