----------------------------- MODULE PagedQuery -----------------------------
(***************************************************************************)
(* A client that reads a listing page by page while others write           *)
(* (src/jararaca/persistence/utilities.py, sort_filter.py):                *)
(* QueryOperations.query with its injectors, the filter and sort rules and *)
(* the three ways to count, and the writes of CRUDOperations.  Every       *)
(* statement sees what is committed when it runs.  A row has a creation    *)
(* time and one more column, of the type the query says.                   *)
(***************************************************************************)
EXTENDS Integers, Sequences, FiniteSetsExt

CONSTANTS
  Id,          \* the rows there may be
  Value,       \* the values of the column; of a text 0 is the empty one, of a Boolean 1 is true
  Like,        \* which texts contain which, a set of pairs
  IContains,   \* the same when the case does not matter
  StartsWith,  \* which start with which
  EndsWith,    \* which end with which
  Queries,     \* the queries a client may make
  Tables,      \* the tables there may be at first
  Written,     \* bound: the values that are written during one walk
  MaxWrites    \* bound: the writes during one walk

Null == -1   \* SQL's null
Junk == -2   \* a value in a filter that is none of the column's type
Blank == -3  \* the empty string as a member of a list

ASSUME PageAssumption ==
  /\ IsFiniteSet(Id)
  /\ Value \subseteq Nat /\ 0 \in Value
  /\ Written \subseteq Value \cup {Null} /\ MaxWrites \in Nat

\* Filter and sort models as Pydantic lets them through, on a column of some type.
ASSUME QueryAssumption ==
  \A q \in Queries :
    /\ q.size \in Nat \ {0} /\ q.count \in {"total_over", "count_subquery", "none"}
    /\ q.kind \in {"str", "date", "int", "uuid", "bool", "other"}
    /\ q.filters \in Seq([field : STRING, op : STRING, list : BOOLEAN, raw : Seq(Int)])
    /\ q.sorts \in Seq([field : STRING, direction : {"asc", "desc"}])
    /\ q.dated \in {"no", "asc", "desc"}

\* No two rows of a table were created at the same time.
ASSUME TableAssumption ==
  \A t \in Tables :
    /\ DOMAIN t \subseteq Id
    /\ t \in [DOMAIN t -> [created : Nat, cell : Value \cup {Null}]]
    /\ \A i, j \in DOMAIN t : i # j => t[i].created # t[j].created

VARIABLES
  wanted,    \* what the client asks for
  rows,      \* the table: a function from the rows there are
  walk,      \* "asked", "counting", "answered", "done", "refused", "failed"
  page, items, total,  \* the page asked for, and what has come back of it
  seen,      \* how often the client has got each row
  stable,    \* the rows it should get, which nobody has written since it started
  removed,   \* how often a row has left its place among those that match
  inserted,  \* how often one has come to a place
  writes, between  \* the writes; those after the page and before its count

pageVars == <<wanted, rows, walk, page, items, total, seen, stable, removed, inserted,
              writes, between>>

-----------------------------------------------------------------------------
EmptyTests == {"isEmpty", "isNotEmpty"}
StringOps == EmptyTests \cup {"contains", "doesNotContain", "equals", "doesNotEqual",
                              "startsWith", "endsWith", "isAnyOf"}
DateOps == {"is", "not", "after", "onOrAfter", "before", "onOrBefore"}
NumberOps == EmptyTests \cup {"=", "!=", ">", "<", ">=", "<="}
UuidOps == {"equals", "is", "doesNotEqual", "not"}

\* Mutation of Compare: onOrBefore leaves the day itself out.
CompareStrictly(op, c, v) ==
  CASE op \in {"=", "is", "equals", "eq"} -> c = v
    [] op \in {"!=", "not", "doesNotEqual"} -> c # v
    [] op \in {">", "after", "gt"} -> c > v
    [] op \in {"<", "before", "lt", "onOrBefore"} -> c < v
    [] op \in {">=", "onOrAfter", "gte"} -> c >= v
    [] op \in {"<=", "lte"} -> c <= v

\* A comparison in SQL, on a column that is not null.
Compare(op, c, v) ==
  CASE op \in {"=", "is", "equals", "eq"} -> c = v
    [] op \in {"!=", "not", "doesNotEqual"} -> c # v
    [] op \in {">", "after", "gt"} -> c > v
    [] op \in {"<", "before", "lt"} -> c < v
    [] op \in {">=", "onOrAfter", "gte"} -> c >= v
    [] op \in {"<=", "onOrBefore", "lte"} -> c <= v

\* _create_query_for_uuid_filter.
UuidVerdict(f) ==
  CASE f.op \in EmptyTests -> "apply"
    [] f.op \notin EmptyTests /\ f.raw = <<>> -> "pass"
    [] f.op = "isAnyOf" /\ f.raw # <<>> -> IF Range(f.raw) \subseteq Value THEN "apply" ELSE "reject"
    [] f.op \in UuidOps /\ f.raw # <<>> -> IF f.raw[1] \in Value THEN "apply" ELSE "reject"
    [] OTHER -> "reject"

\* The dates: blank means no filter, but only after the tests for null.
DateVerdict(f) ==
  CASE f.op \in EmptyTests -> "apply"
    [] f.op \notin EmptyTests /\ f.raw[1] = Blank -> "pass"
    [] OTHER -> IF f.raw[1] \in Value /\ f.op \in DateOps THEN "apply" ELSE "reject"

\* The integers: a list is for isAnyOf, which drops what is no number.
IntVerdict(f) ==
  IF f.list THEN IF f.op = "isAnyOf" THEN "apply" ELSE "reject"
            ELSE IF f.raw[1] \in Value /\ f.op \in NumberOps THEN "apply" ELSE "reject"

\* The texts: SQLAlchemy or the driver raises when a list meets a single value's operator,
\* or the other way round, and that is no InvalidFilterError.
TextVerdict(f) ==
  CASE f.op \notin StringOps -> "reject"
    [] f.op \in EmptyTests \/ (f.op \in StringOps /\ f.list = (f.op = "isAnyOf")) -> "apply"
    [] OTHER -> "fault"

\* create_query_for_filter: whether the filter is applied, passed over, answered with 422
\* or fails with 500.
Verdict(kind, f) ==
  CASE f.field # "cell" -> "reject"
    [] f.field = "cell" /\ kind = "uuid" -> UuidVerdict(f)
    [] f.field = "cell" /\ kind # "uuid" /\ f.raw = <<>> -> "pass"
    [] OTHER -> CASE kind = "str" -> TextVerdict(f)
                  [] kind = "date" -> DateVerdict(f)
                  [] kind = "int" -> IntVerdict(f)
                  [] kind = "bool" -> IF f.op = "is" THEN "apply" ELSE "reject"
                  [] OTHER -> "fault"

\* The rows an applied filter keeps.  A null keeps no row but in the tests for it.
Keeps(kind, f, c) ==
  CASE f.op = "isEmpty" -> IF kind = "str" THEN c = 0 ELSE c = Null
    [] f.op = "isNotEmpty" -> c # Null /\ (kind = "str" => c # 0)
    [] f.op \notin EmptyTests /\ c = Null -> FALSE
    [] kind = "bool" /\ c # Null -> f.raw[1] = Blank \/ (c = 1) = (f.raw[1] = 1)
    [] f.op = "isAnyOf" /\ c # Null -> c \in Range(f.raw)
    [] f.op = "contains" /\ c # Null -> <<c, f.raw[1]>> \in IContains
    [] f.op = "doesNotContain" /\ c # Null -> <<c, f.raw[1]>> \notin IContains
    [] f.op = "startsWith" /\ c # Null -> <<c, f.raw[1]>> \in StartsWith
    [] f.op = "endsWith" /\ c # Null -> <<c, f.raw[1]>> \in EndsWith
    [] OTHER -> Compare(f.op, c, f.raw[1])

\* CriteriaBasedAttributeQueryInjector; whether the case matters is not looked at.
CriterionKeeps(k, c) ==
  /\ c # Null
  /\ CASE k.type = "date" -> Compare(k.op, c, k.value)
       [] k.type = "str" -> IF k.exact THEN c = k.value ELSE <<c, k.value>> \in Like

-----------------------------------------------------------------------------
\* create_query_for_sorting.
SortVerdict(s) == IF s.field \in {"created", "cell"} THEN "apply" ELSE "reject"

\* DateOrderedQueryInjector comes before the sort models.
OrderBy(q) ==
  (IF q.dated = "no" THEN <<>> ELSE <<[field |-> "created", direction |-> q.dated]>>) \o q.sorts

\* The first of the sort and then of the filter models that is not applied.
Refusal(q) ==
  LET verdicts == [n \in 1..Len(q.sorts) |-> SortVerdict(q.sorts[n])]
                  \o [n \in 1..Len(q.filters) |-> Verdict(q.kind, q.filters[n])]
      bad == {n \in DOMAIN verdicts : verdicts[n] \in {"reject", "fault"}}
  IN  IF bad = {} THEN "none" ELSE verdicts[Min(bad)]

Matching(q, t) ==
  {i \in DOMAIN t :
     /\ \A n \in DOMAIN q.criteria : CriterionKeeps(q.criteria[n], t[i].cell)
     /\ \A n \in DOMAIN q.filters :
          Verdict(q.kind, q.filters[n]) = "apply" => Keeps(q.kind, q.filters[n], t[i].cell)}

\* Row a comes before row b.
Precedes(o, a, b) ==
  \E n \in DOMAIN o :
    /\ \A m \in 1..(n - 1) : a[o[m].field] = b[o[m].field]
    /\ IF o[n].direction = "asc" THEN a[o[n].field] < b[o[n].field]
                                 ELSE a[o[n].field] > b[o[n].field]

\* The orders in which the database may list rows; any, where the query leaves it open.
Listings(q, t) ==
  {s \in Injection(1..Cardinality(Matching(q, t)), Matching(q, t)) :
     \A m, n \in DOMAIN s : m < n => ~Precedes(OrderBy(q), t[s[n]], t[s[m]])}

\* math.ceil(unpaginated_total / page_size).
TotalPages == (total + wanted.size - 1) \div wanted.size

-----------------------------------------------------------------------------
PageInit ==
  /\ wanted \in Queries
  /\ rows \in Tables
  /\ walk = "asked" /\ page = 0 /\ items = <<>> /\ total = 0
  /\ seen = [i \in Id |-> 0]
  /\ stable = Matching(wanted, rows)
  /\ removed = 0 /\ inserted = 0 /\ writes = 0 /\ between = 0

PageTypeOK ==
  /\ wanted \in Queries
  /\ DOMAIN rows \subseteq Id
  /\ \A i \in DOMAIN rows : rows[i].created \in Nat /\ rows[i].cell \in Value \cup {Null}
  /\ walk \in {"asked", "counting", "answered", "done", "refused", "failed"}
  /\ page \in 0..Cardinality(Id)
  /\ items \in Seq(Id) /\ Len(items) <= wanted.size
  /\ total \in -1..Cardinality(Id)
  /\ seen \in [Id -> Nat]
  /\ stable \subseteq DOMAIN rows
  /\ removed \in 0..MaxWrites /\ inserted \in 0..MaxWrites
  /\ writes \in 0..MaxWrites /\ between \in 0..MaxWrites

worldOf == <<wanted, rows, page, seen, stable, removed, inserted, writes>>

\* A sort or a filter that can not be applied.
Refuse ==
  /\ walk = "asked"
  /\ Refusal(wanted) # "none"
  /\ walk' = IF Refusal(wanted) = "reject" THEN "refused" ELSE "failed"
  /\ UNCHANGED <<worldOf, items, total, between>>

\* Mutation of Slice: every page begins with the last row of the one before.
SliceOverlaps(s) ==
  SubSeq(s, Max({1, page * wanted.size}), Min({Len(s), (page + 1) * wanted.size}))

\* LIMIT and OFFSET.
Slice(s) == SubSeq(s, page * wanted.size + 1, Min({Len(s), (page + 1) * wanted.size}))

\* count() OVER (), which comes with the rows, if any.
CountOver(s) == IF Slice(s) = <<>> THEN 0 ELSE Len(s)

\* The statement for the page, which also counts under total_over.
FetchPage ==
  /\ walk = "asked"
  /\ Refusal(wanted) = "none"
  /\ \E s \in Listings(wanted, rows) :
       /\ items' = Slice(s)
       /\ total' = CASE wanted.count = "total_over" -> CountOver(s)
                     [] wanted.count = "none" -> -1
                     [] OTHER -> total
  /\ walk' = IF wanted.count = "count_subquery" THEN "counting" ELSE "answered"
  /\ between' = 0
  /\ UNCHANGED worldOf

\* The statement that counts.
FetchTotal ==
  /\ walk = "counting"
  /\ total' = Cardinality(Matching(wanted, rows))
  /\ walk' = "answered"
  /\ UNCHANGED <<worldOf, items, between>>

Times(i) == Cardinality({n \in DOMAIN items : items[n] = i})

\* The client takes the items, and asks for the next page while the answer says that
\* there is one; without a total, until a page is not full.
TurnPage ==
  /\ walk = "answered"
  /\ seen' = [i \in Id |-> seen[i] + Times(i)]
  /\ IF IF wanted.count = "none" THEN Len(items) = wanted.size ELSE page + 1 < TotalPages
       THEN walk' = "asked" /\ page' = page + 1
       ELSE walk' = "done" /\ UNCHANGED page
  /\ UNCHANGED <<wanted, rows, items, total, stable, removed, inserted, writes, between>>

-----------------------------------------------------------------------------
\* The table becomes t, by a write of row i.
Write(i, t) ==
  /\ walk \in {"asked", "counting", "answered"} /\ Refusal(wanted) = "none"
  /\ writes < MaxWrites
  /\ writes' = writes + 1
  /\ rows' = t
  /\ stable' = stable \ {i}
  /\ removed' = removed + (IF i \in Matching(wanted, rows) THEN 1 ELSE 0)
  /\ inserted' = inserted + (IF i \in Matching(wanted, t) THEN 1 ELSE 0)
  /\ between' = IF walk = "counting" THEN between + 1 ELSE between
  /\ UNCHANGED <<wanted, walk, page, items, total, seen>>

nowutc == 1 + Max({0} \cup {rows[i].created : i \in DOMAIN rows})

Put(i, row) == [j \in DOMAIN rows \cup {i} |-> IF j = i THEN row ELSE rows[j]]

create(i, c) == i \notin DOMAIN rows /\ Write(i, Put(i, [created |-> nowutc, cell |-> c]))

\* update: session.merge, which inserts a row that has been deleted since.
update(i, c) ==
  LET when == IF i \in DOMAIN rows THEN rows[i].created ELSE nowutc
  IN  Write(i, Put(i, [created |-> when, cell |-> c]))

delete_by_id(i) == i \in DOMAIN rows /\ Write(i, [j \in DOMAIN rows \ {i} |-> rows[j]])

Crud ==
  \E i \in Id : \/ delete_by_id(i)
                \/ \E c \in Written : create(i, c) \/ update(i, c)

PageNext == Refuse \/ FetchPage \/ FetchTotal \/ TurnPage \/ Crud

PageSpec == PageInit /\ [][PageNext]_pageVars

-----------------------------------------------------------------------------
\* The order of the listing leaves nothing open.
Ordered == \E n \in DOMAIN OrderBy(wanted) : OrderBy(wanted)[n].field = "created"

\* A client that walks an ordered listing to its end misses no more of the rows that
\* nobody touched than rows were taken out of the listing meanwhile: a page is lost only
\* at the boundary that a removal moves, whichever way the total was counted.
MissedAtMostRemoved ==
  walk = "done" /\ Ordered => Cardinality({i \in stable : seen[i] = 0}) <= removed

\* And it gets no more of them twice than rows were put in.
RepeatedAtMostInserted ==
  walk = "done" /\ Ordered => Cardinality({i \in stable : seen[i] > 1}) <= inserted

\* A page that has rows lies within the total that comes with it, unless somebody wrote
\* between the page and its count; with a window there is no between.
PageWithinTotal ==
  walk = "answered" /\ items # <<>> /\ wanted.count # "none" /\ between = 0 =>
    page * wanted.size + Len(items) <= total /\ page < TotalPages

\* The pages of a listing, and the totals that come with them, add up to the listing.
PagesAddUp ==
  PageTypeOK /\ MissedAtMostRemoved /\ RepeatedAtMostInserted /\ PageWithinTotal

Opposite(op) ==
  CASE op = "contains" -> "doesNotContain"
    [] op = "equals" -> "doesNotEqual"
    [] op = "isEmpty" -> "isNotEmpty"
    [] op = "=" -> "!="
    [] op = ">" -> "<="
    [] op = "<" -> ">="
    [] op = "is" -> "not"
    [] op = "after" -> "onOrBefore"
    [] op = "before" -> "onOrAfter"
    [] OTHER -> op

\* A filter and the one with the opposite operator split the rows: both are applied to a
\* column other than a Boolean or neither is, no row passes both, and every row passes
\* one, unless its column is null and the filter is no test for that.
OppositesSplit ==
  \A n \in DOMAIN wanted.filters :
    LET f == wanted.filters[n]
        g == [f EXCEPT !.op = Opposite(f.op)]
    IN  Opposite(f.op) # f.op /\ wanted.kind # "bool" =>
          /\ Verdict(wanted.kind, f) = Verdict(wanted.kind, g)
          /\ Verdict(wanted.kind, f) = "apply" =>
               \A i \in DOMAIN rows :
                 LET c == rows[i].cell
                     test == f.op = "isEmpty" /\ wanted.kind # "str"
                 IN  /\ ~(Keeps(wanted.kind, f, c) /\ Keeps(wanted.kind, g, c))
                     /\ (Keeps(wanted.kind, f, c) \/ Keeps(wanted.kind, g, c)) = (test \/ c # Null)
=============================================================================
