--------------------------- MODULE LicenseCount ----------------------------
(***************************************************************************)
(* The figures of a capability list: buckets of redundant tools, spend and *)
(* savings (src/apps/api/app/tech_debt/overlap.py, savings.py), when a     *)
(* bundled license is split into its parts (tech_debt/components.py).      *)
(*                                                                         *)
(* The rows are a function from item ids.  A row's license is the row that *)
(* it is paid under: itself, or for a part its bundle.  Its cost is a set: *)
(* empty where none is known.                                              *)
(***************************************************************************)
EXTENDS Naturals, FiniteSetsExt

IsPart(items, i) == items[i].license # i

\* Mutation of Licenses: a part is a license of its own.
RowsAsLicenses(items, S) == S

\* license_count.
Licenses(items, S) == {items[i].license : i \in S}

\* What is known of a row's cost.
CostOf(items, i) ==
  IF items[i].cost = {} THEN 0 ELSE CHOOSE c \in items[i].cost : TRUE

\* The known costs of the rows in S that are not parts.
Spend(items, S) ==
  SumFunctionOnSet([i \in DOMAIN items |-> CostOf(items, i)],
                   {i \in S : ~IsPart(items, i)})

\* no_cost_items.
NoCost(items, S) == {i \in S : items[i].cost = {} /\ ~IsPart(items, i)}

\* _bucketize, by category or by vendor, of the rows that have one: where they
\* are of more than one license.
Bucket(items, S) == [count |-> Cardinality(Licenses(items, S)),
                     total |-> Spend(items, S), known |-> NoCost(items, S) = {}]

Members(items, field, key) == {i \in DOMAIN items : items[i][field] = key}

Buckets(items, field) ==
  {[key |-> k, bucket |-> Bucket(items, Members(items, field, k))] :
     k \in {k \in {items[i][field] : i \in DOMAIN items} \ {"none"} :
              Cardinality(Licenses(items, Members(items, field, k))) > 1}}

\* estimated_savings over savings_cost: full cost of what is cut; a part's is
\* unknown, whatever is stored on it.
Savings(items) ==
  LET cut == {i \in DOMAIN items : items[i].cut}
  IN [amount |-> Spend(items, cut),
      known  |-> \A i \in cut : ~IsPart(items, i) /\ items[i].cost # {}]

\* What every surface states: totals, buckets by vendor, savings.
Stated(items) ==
  [spend |-> Spend(items, DOMAIN items), no_cost |-> NoCost(items, DOMAIN items),
   by_vendor |-> Buckets(items, "vendor"), savings |-> Savings(items)]

=============================================================================
