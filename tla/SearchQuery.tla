---------------------------- MODULE SearchQuery ----------------------------
(***************************************************************************)
(* The search cloud function: validateFilters, constructQuery, and what    *)
(* Algolia makes of the query.  A filter is [field, op, value]; a query is *)
(* a sequence of groups joined with AND, a group a sequence of filters     *)
(* joined with OR.  reduce starts from the first group, so that one is not *)
(* put in parentheses.  The loop of constructQuery takes a step for each   *)
(* filter; nothing else happens meanwhile.                                 *)
(***************************************************************************)
EXTENDS Integers, Sequences, SequencesExt

CONSTANTS
  Fields,      \* field names a request may use
  Operators,   \* operators it may use
  Values,      \* values it may use
  MaxFilters,  \* bound: filters in one request
  NaN,         \* a value JavaScript's Number makes NaN of
  Blank        \* a value of blanks, or of nothing: a number for Number only

numericOperators == {"<", ">", ">=", "<=", "=", "!="}
stringOperators == {"=", "!="}
numericFields == {"birthday", "creationDate"}
stringFields == {"location", "name", "university"}

ASSUME SearchAssumption ==
  /\ {NaN, Blank} \subseteq Values /\ NaN \notin {Blank, 0}
  /\ Values \subseteq Int
  /\ MaxFilters \in Nat

Filter == [field : Fields, op : Operators, value : Values]
Post == [Fields -> Values \ {NaN, Blank}]

(* Whether the three parallel lists of a request are there, and are of one *)
(* length.                                                                 *)
Lists == {"even", "missing", "uneven"}

VARIABLES
  request,    \* the filters of the request being handled
  lists,      \* what its lists are like
  status,     \* "waiting", "constructing", 200 or 400
  passed,     \* constructQuery: the filters the loop has passed
  numericQueries, \* the numeric filters it has met
  stringQueryMap, \* the others, by field: a Map keeps the order of its keys
  query,      \* the query handed to Algolia
  tight       \* the operator Algolia applies first where nothing is in
              \* parentheses: its grammar is not in this repository

loopVars == <<passed, numericQueries, stringQueryMap>>
queryVars == <<request, lists, status, loopVars, query, tight>>

-----------------------------------------------------------------------------
(* What Number makes of a text: blanks, and nothing, are 0.                *)
Number(value) == IF value = Blank THEN 0 ELSE value

validateSingleFilter(f) ==
  \/ /\ f.field \in numericFields /\ f.op \in numericOperators
     /\ Number(f.value) # NaN
  \/ f.field \in stringFields /\ f.op \in stringOperators

(* Mutant of validateFilters: the loop ends one filter early.              *)
skipsLast(filters) ==
  \/ lists = "missing"
  \/ lists = "even" /\ \A n \in 1 .. Len(filters) - 1 : validateSingleFilter(filters[n])

(* A request that lacks a list is valid: it has no filters.                *)
validateFilters(filters) ==
  \/ lists = "missing"
  \/ lists = "even" /\ \A n \in DOMAIN filters : validateSingleFilter(filters[n])

IsNumeric(f) == f.field \in numericFields
IsString(f) == f.field \in stringFields

(* Mutant of PushNumeric: a second numeric filter replaces the first.      *)
lastNumericOnly(f) == <<f>>

PushNumeric(f) == Append(numericQueries, f)

(* Mutant of SetString: one group for all the string filters.              *)
oneGroup(f) ==
  IF stringQueryMap = <<>> THEN << <<f>> >>
  ELSE [stringQueryMap EXCEPT ![1] = Append(@, f)]

(* stringQueryMap.set: the group of the field, or a new one after the rest.*)
SetString(f) ==
  LET Has(k) == stringQueryMap[k][1].field = f.field IN
  IF \E k \in DOMAIN stringQueryMap : Has(k)
  THEN [k \in DOMAIN stringQueryMap |->
          IF Has(k) THEN Append(stringQueryMap[k], f) ELSE stringQueryMap[k]]
  ELSE Append(stringQueryMap, <<f>>)

(* What reduce joins.                                                      *)
Groups == [k \in DOMAIN numericQueries |-> <<numericQueries[k]>>] \o stringQueryMap

-----------------------------------------------------------------------------
(* What a filter, and the query, say of a post.                            *)
Holds(f, post) ==
  CASE f.op = "<"  -> post[f.field] < f.value
    [] f.op = ">"  -> post[f.field] > f.value
    [] f.op = "<=" -> post[f.field] <= f.value
    [] f.op = ">=" -> post[f.field] >= f.value
    [] f.op = "="  -> post[f.field] = f.value
    [] f.op = "!=" -> post[f.field] # f.value

AnyHolds(group, post) == \E n \in DOMAIN group : Holds(group[n], post)

(* a OR b AND (c) is a OR (b AND c) where AND is applied first.            *)
Selects(q, post) ==
  IF q = <<>> \/ tight = "OR" THEN \A k \in DOMAIN q : AnyHolds(q[k], post)
  ELSE \/ AnyHolds(Front(q[1]), post)
       \/ Holds(Last(q[1]), post) /\ \A k \in 2 .. Len(q) : AnyHolds(q[k], post)

-----------------------------------------------------------------------------
QueryInit ==
  /\ request = <<>>
  /\ lists \in Lists
  /\ status = "waiting"
  /\ passed = 0 /\ numericQueries = <<>> /\ stringQueryMap = <<>>
  /\ query = <<>>
  /\ tight \in {"AND", "OR"}

(* The parameters of a request, one filter after the other, as far as they *)
(* are there.                                                              *)
AddFilter(f) ==
  /\ status = "waiting"
  /\ Len(request) < MaxFilters
  /\ request' = Append(request, f)
  /\ UNCHANGED <<lists, status, loopVars, query, tight>>

Handle ==
  /\ status = "waiting"
  /\ status' = IF validateFilters(request) THEN "constructing" ELSE "400"
  /\ UNCHANGED <<request, lists, loopVars, query, tight>>

Iterate ==
  LET f == request[passed + 1] IN
  /\ status = "constructing"
  /\ lists # "missing"
  /\ passed < Len(request)
  /\ passed' = passed + 1
  /\ numericQueries' = IF IsNumeric(f) THEN PushNumeric(f) ELSE numericQueries
  /\ stringQueryMap' = IF IsString(f) THEN SetString(f) ELSE stringQueryMap
  /\ UNCHANGED <<request, lists, status, query, tight>>

Search ==
  /\ status = "constructing"
  /\ passed = Len(request) \/ lists = "missing"
  /\ query' = Groups
  /\ status' = "200"
  /\ UNCHANGED <<request, lists, loopVars, tight>>

NextRequest ==
  /\ status \in {"200", "400"}
  /\ request' = <<>>
  /\ lists' \in Lists
  /\ status' = "waiting"
  /\ passed' = 0 /\ numericQueries' = <<>> /\ stringQueryMap' = <<>>
  /\ query' = <<>>
  /\ UNCHANGED tight

QueryNext == (\E f \in Filter : AddFilter(f)) \/ Handle \/ Iterate \/ Search \/ NextRequest

QuerySpec == QueryInit /\ [][QueryNext]_queryVars

-----------------------------------------------------------------------------
(* The filters Algolia has a syntax for: string fields know no order, and  *)
(* numeric ones only numbers.  A numeric field with a blank value makes    *)
(* "birthdayTimestamp = ", and there the filter ends.                      *)
Expressible == {f \in Filter :
  \/ f.field \in stringFields /\ f.op \in {"=", "!="}
  \/ f.field \in numericFields /\ f.op \in numericOperators /\ f.value \notin {NaN, Blank}}

Unfinished == {f \in Filter : f.field \in numericFields /\ f.value = Blank}

Accepted == Expressible \union Unfinished

QueryTypeOK ==
  /\ request \in Seq(Filter) /\ Len(request) <= MaxFilters
  /\ lists \in Lists
  /\ status \in {"waiting", "constructing", "200", "400"}
  /\ passed \in 0 .. Len(request)
  /\ numericQueries \in Seq(Accepted)
  /\ stringQueryMap \in Seq(Seq(Accepted))
  /\ query \in Seq(Seq(Accepted))
  /\ tight \in {"AND", "OR"}

(* The filters that count: those of a request that lacks a list do not.    *)
Filters == IF lists = "missing" THEN <<>> ELSE request

Readable == \A k \in DOMAIN query : \A m \in DOMAIN query[k] : query[k][m] \in Expressible

(* No field, operator or value the search service has no syntax for passes *)
(* validation, save one: a numeric field whose value is blank, because     *)
(* Number("") is a number, reaches the query and leaves it unreadable.     *)
ReadableUnlessBlank ==
  status = "200" => (Readable <=> \A n \in DOMAIN Filters : Filters[n] \notin Unfinished)

Repeated(name) == \E m, n \in DOMAIN Filters :
  m # n /\ Filters[m].field = name /\ Filters[n].field = name

(* Filters on different fields, and ranges on a numeric field, select the  *)
(* posts for which all of them hold, however Algolia groups the query; a   *)
(* request that lacks a list selects all posts.                            *)
FiltersAreJoinedWithAnd ==
  (/\ status = "200" /\ Readable
   /\ \A name \in Fields \intersect stringFields : ~Repeated(name))
  => \A post \in Post :
       Selects(query, post) <=> \A n \in DOMAIN Filters : Holds(Filters[n], post)

(* constructQuery's comment: a post must satisfy every field, and a field  *)
(* given several times is satisfied by any of its filters.                 *)
Documented(post) ==
  \A name \in {Filters[n].field : n \in DOMAIN Filters} :
    \E n \in DOMAIN Filters : Filters[n].field = name /\ Holds(Filters[n], post)

(* That is what the query selects when no numeric field is repeated and a  *)
(* numeric filter, or a string field given once, opens it: then every      *)
(* group of alternatives is in parentheses.                                *)
AlternativesStayTogether ==
  (/\ status = "200" /\ Readable
   /\ \A name \in Fields \intersect numericFields : ~Repeated(name)
   /\ query # <<>> => Len(query[1]) = 1)
  => \A post \in Post : Selects(query, post) <=> Documented(post)

(* "if the same fields appear multiple times, they are joined with OR",    *)
(* said of all fields.                                                     *)
SameFieldsJoinedWithOr ==
  status = "200" /\ Readable =>
    \A post \in Post : Selects(query, post) <=> Documented(post)

(* The invariant they rest on: the loop has each filter it has passed in   *)
(* one place and nothing else, a group is about one field and a field has  *)
(* one group, of more than one filter only if the request repeats it.      *)
Passed == 1 .. passed

NumericOK ==
  /\ \A k \in DOMAIN numericQueries : \E n \in Passed :
       IsNumeric(request[n]) /\ numericQueries[k] = request[n]
  /\ \A n \in Passed : IsNumeric(request[n]) =>
       \E k \in DOMAIN numericQueries : numericQueries[k] = request[n]

GroupOK(group) ==
  /\ group # <<>>
  /\ \A m \in DOMAIN group : \E n \in Passed :
       /\ IsString(request[n]) /\ group[m] = request[n]
       /\ request[n].field = group[1].field
  /\ Len(group) > 1 => \E m, n \in Passed :
       m # n /\ request[m].field = group[1].field /\ request[n].field = group[1].field

StringsOK ==
  /\ \A k \in DOMAIN stringQueryMap : GroupOK(stringQueryMap[k])
  /\ \A k, l \in DOMAIN stringQueryMap :
       stringQueryMap[k][1].field = stringQueryMap[l][1].field => k = l
  /\ \A n \in Passed : IsString(request[n]) =>
       \E k \in DOMAIN stringQueryMap : \E m \in DOMAIN stringQueryMap[k] :
         stringQueryMap[k][m] = request[n]

StageOK ==
  /\ status \in {"waiting", "400"} => passed = 0
  /\ status \in {"constructing", "200"} => validateFilters(request)
  /\ lists = "missing" => passed = 0
  /\ status = "200" => (passed = Len(request) \/ lists = "missing") /\ query = Groups
  /\ status # "200" => query = <<>>

QueryInv == QueryTypeOK /\ NumericOK /\ StringsOK /\ StageOK
=============================================================================
