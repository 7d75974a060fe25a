--------------------------- MODULE ListingProofs ----------------------------
(***************************************************************************)
(* A theorem about module Listing, for any width of the integers, any      *)
(* issues, filters and page sizes: ListIssues with IssueFilter.Matches     *)
(* answers with the page that was asked for.                               *)
(***************************************************************************)
EXTENDS Listing, StatementProofs

-----------------------------------------------------------------------------
(* A set of positions has no more members than there are positions. *)
LEMMA Fewer ==
  ASSUME NEW n \in Nat, NEW S \in SUBSET (1..n)
  PROVE  Cardinality(S) <= n
<1> DEFINE N == 1..n
<1>1. 1 \in Int /\ n \in Int /\ n - 1 + 1 = n
  OBVIOUS
<1>2. IsFiniteSet(N) /\ Cardinality(N) = IF 1 > n THEN 0 ELSE n - 1 + 1
  BY <1>1, FS_Interval
<1>3. Cardinality(N) = n
  BY <1>1, <1>2
<1>4. S \in SUBSET N
  OBVIOUS
<1> HIDE DEF N
<1>5. Cardinality(S) <= Cardinality(N)
  BY <1>2, <1>4, FS_Subset
<1> QED
  BY <1>3, <1>5

(* Some members of a list are a list. *)
LEMMA PickType ==
  ASSUME NEW T, NEW s \in Seq(T), NEW S \in SUBSET (1..Len(s))
  PROVE  /\ Pick(s, S) \in Seq(T)
         /\ Len(Pick(s, S)) = Cardinality(S) /\ Len(Pick(s, S)) <= Len(s)
<1> DEFINE n == Len(s)
           c == Cardinality(S)
<1>1. n \in Nat /\ \A i \in 1..n : s[i] \in T
  OBVIOUS
<1>2. c \in Nat /\ \A k \in 1..c : Nth(S, k) \in 1..n
  BY <1>1, Positions
<1>3. Pick(s, S) = [k \in 1..c |-> s[Nth(S, k)]]
  BY DEF Pick
<1>4. S \in SUBSET (1..n)
  OBVIOUS
<1> HIDE DEF n
<1>5. c <= n
  BY <1>1, <1>4, Fewer
<1> HIDE DEF c
<1>6. Pick(s, S) \in [1..c -> T]
  BY <1>1, <1>2, <1>3
<1>7. Pick(s, S) \in Seq(T) /\ Len(Pick(s, S)) = c
  BY <1>2, <1>6
<1> QED
  BY <1>5, <1>7 DEF n, c

(* The k-th member of an interval. *)
LEMMA NthOfInterval ==
  ASSUME NEW a \in Nat, NEW b \in Nat, a < b, NEW k \in 1..(b - a)
  PROVE  Nth((a + 1)..b, k) = a + k
<1> DEFINE S == (a + 1)..b
           Upto(i) == {j \in S : j <= i}
<1>1. ASSUME NEW i \in S
      PROVE  Cardinality(Upto(i)) = i - a
  <2>1. Upto(i) = (a + 1)..i
    OBVIOUS
  <2>2. i \in Int /\ a + 1 \in Int /\ i >= a + 1
    OBVIOUS
  <2>3. Cardinality((a + 1)..i) = i - (a + 1) + 1
    BY <2>2, FS_Interval
  <2>4. i - (a + 1) + 1 = i - a
    BY <2>2
  <2> HIDE DEF Upto
  <2> QED
    BY <2>1, <2>3, <2>4
<1>2. a + k \in S /\ S \subseteq Int
  OBVIOUS
<1>3. Cardinality(Upto(a + k)) = k
  BY <1>1, <1>2
<1>4. \A i \in S : Cardinality(Upto(i)) = k => i = a + k
  BY <1>1, <1>2
<1> QED
  BY <1>2, <1>3, <1>4 DEF Nth

(* The members of a list after the a-th up to the b-th. *)
LEMMA PickRange ==
  ASSUME NEW T, NEW s \in Seq(T), NEW a \in Nat, NEW b \in Nat
  PROVE  Pick(s, {k \in DOMAIN s : a < k /\ k <= b})
           = SubSeq(s, a + 1, IF b < Len(s) THEN b ELSE Len(s))
<1> DEFINE n == Len(s)
           h == IF b < n THEN b ELSE n
           S == {k \in DOMAIN s : a < k /\ k <= b}
<1>1. n \in Nat /\ h \in Nat /\ h <= n /\ DOMAIN s = 1..n
  OBVIOUS
<1>2. S = (a + 1)..h
  BY <1>1
<1>3. CASE h <= a
  <2>1. S = {}
    BY <1>1, <1>2, <1>3
  <2>2. SubSeq(s, a + 1, h) = <<>>
    BY <1>1, <1>3
  <2> QED
    BY <2>1, <2>2, PickNone
<1>4. CASE a < h
  <2>1. Cardinality(S) = h - a
    <3>1. a + 1 \in Int /\ h \in Int /\ ~(a + 1 > h)
      BY <1>1, <1>4
    <3>2. Cardinality((a + 1)..h) = h - (a + 1) + 1
      BY <3>1, FS_Interval
    <3>3. h - (a + 1) + 1 = h - a
      BY <1>1
    <3> HIDE DEF S, h, n
    <3> QED
      BY <1>2, <3>2, <3>3
  <2>2. \A k \in 1..(h - a) : Nth(S, k) = a + k
    BY <1>1, <1>2, <1>4, NthOfInterval
  <2>3. Pick(s, S) = [k \in 1..Cardinality(S) |-> s[Nth(S, k)]]
    BY DEF Pick
  <2> HIDE DEF S, h, n
  <2>4. Pick(s, S) = [k \in 1..(h - a) |-> s[a + k]]
    BY <2>1, <2>2, <2>3
  <2>5. SubSeq(s, a + 1, h) = [k \in 1..(h - a) |-> s[a + k]]
    <3>1. SubSeq(s, a + 1, h) \in Seq(T) /\ Len(SubSeq(s, a + 1, h)) = h - a
      BY <1>1, <1>4 DEF n
    <3>2. \A k \in 1..(h - a) : SubSeq(s, a + 1, h)[k] = s[a + k]
      BY <1>1, <1>4 DEF n
    <3> DEFINE t == SubSeq(s, a + 1, h)
    <3> HIDE DEF t
    <3>3. h - a \in Nat /\ t = [k \in 1..(h - a) |-> t[k]]
      BY <1>1, <1>4, <3>1 DEF t
    <3>4. t = [k \in 1..(h - a) |-> s[a + k]]
      BY <3>2, <3>3 DEF t
    <3> QED
      BY <3>4 DEF t
  <2> QED
    BY <2>4, <2>5 DEF S, h, n
<1> QED
  BY <1>1, <1>3, <1>4

-----------------------------------------------------------------------------
(* What parseIssueFilter makes of the words it accepts. *)
LEMMA ValidFilter ==
  ASSUME NEW statusRaw, NEW typeRaw, ParseIssueFilter(statusRaw, typeRaw).ok
  PROVE  LET filter == ParseIssueFilter(statusRaw, typeRaw)
         IN filter.statuses # {} /\ filter.types \subseteq TxTypes
BY DEF ParseIssueFilter, Invalid, FilterStatuses

(* What parsePagination makes of the values it accepts. *)
LEMMA ValidPaging ==
  ASSUME NEW pageRaw, NEW sizeRaw, ParsePagination(pageRaw, sizeRaw).ok
  PROVE  LET paging == ParsePagination(pageRaw, sizeRaw)
         IN /\ paging.page \in Nat \ {0} /\ paging.pageSize \in Nat \ {0}
            /\ paging.pageSize <= MaxPageSize \/ paging.pageSize = DefaultPageSize
BY MaxPageSizeAssumption, MaxIntAssumption
   DEF ParsePagination, Positive, Invalid, IntRange, MinInt, DefaultPageSize

(* Transactions have one of the two types. *)
Typed(issues) == \A i \in DOMAIN issues : issues[i].type \in TxTypes

(* Matches picks what the filter asks for. *)
LEMMA MatchesAsked ==
  ASSUME NEW issues, Typed(issues), NEW filter, filter.statuses # {}
  PROVE  Pick(issues, {i \in DOMAIN issues : Matches(filter, issues[i])}) = Asked(issues, filter)
BY DEF Asked, Matches, Typed

(* The issues of a file, of which there are no more than lines. *)
LEMMA IssuesType ==
  ASSUME NEW V, NEW b \in Seq(V), NEW e
  PROVE  /\ Evaluate(b, e).issues \in Seq({Tx(v) : v \in V}) /\ Typed(Evaluate(b, e).issues)
         /\ Len(Evaluate(b, e).issues) <= Len(b)
<1> DEFINE s == Pick(Transactions(b), Unsettled(b))
           n == Len(b)
           S == Unsettled(b)
           c == Cardinality(S)
           W == {Tx(v) : v \in V}
<1>1. Evaluate(b, e).issues = s
  BY DEF Evaluate
<1>2. n \in Nat /\ \A i \in 1..n : b[i] \in V
  OBVIOUS
<1>3. S \in SUBSET (1..n)
  BY DEF Unsettled, Parsed, Records
<1>4. \A i \in S : Transactions(b)[i] = Tx(b[i]) /\ Parses(b[i])
  BY DEF Unsettled, Parsed, Transactions
<1>5. \A i \in S : Transactions(b)[i] \in W /\ Transactions(b)[i].type \in TxTypes
  <2>1. \A i \in S : Tx(b[i]) \in W
    BY <1>2, <1>3
  <2>2. \A i \in S : Tx(b[i]).type \in TxTypes
    BY <1>4 DEF Tx, Parses
  <2> QED
    BY <1>4, <2>1, <2>2
<1> HIDE DEF n, S, W
<1>6. c \in Nat /\ \A k \in 1..c : Nth(S, k) \in S
  BY <1>2, <1>3, NthIn
<1>7. s = [k \in 1..c |-> Transactions(b)[Nth(S, k)]]
  BY DEF Pick, S
<1>8. c <= n
  BY <1>2, <1>3, Fewer
<1> HIDE DEF s, c
<1>9. s \in [1..c -> W] /\ \A k \in 1..c : s[k].type \in TxTypes
  BY <1>5, <1>6, <1>7
<1>10. s \in Seq(W) /\ Len(s) = c /\ DOMAIN s = 1..c
  BY <1>6, <1>9
<1> QED
  BY <1>1, <1>8, <1>9, <1>10 DEF Typed, n, W

LEMMA AskedType ==
  ASSUME NEW T, NEW issues \in Seq(T), NEW filter
  PROVE  Asked(issues, filter) \in Seq(T) /\ Len(Asked(issues, filter)) <= Len(issues)
<1> DEFINE types == IF filter.types = {} THEN TxTypes ELSE filter.types
           S == {i \in DOMAIN issues : issues[i].status \in filter.statuses /\ issues[i].type \in types}
<1>1. S \in SUBSET (1..Len(issues))
  OBVIOUS
<1>2. Asked(issues, filter) = Pick(issues, S)
  BY DEF Asked
<1> HIDE DEF S
<1> QED
  BY <1>1, <1>2, PickType

(* The endpoint of GET /transactions/issues, for a page whose bounds are   *)
(* ints: the items are those the filter asks for, from the page's first to *)
(* its last, and the total is the number of all of them.                   *)
THEOREM PageIsSlice ==
  ASSUME NEW T, NEW issues \in Seq(T), Typed(issues), NEW filter, filter.statuses # {},
         NEW page \in Nat \ {0}, NEW pageSize \in Nat \ {0}, page * pageSize <= MaxInt
  PROVE  /\ ListIssues(issues, filter, page, pageSize).items
              = PageOf(Asked(issues, filter), page, pageSize)
         /\ ListIssues(issues, filter, page, pageSize).total = Len(Asked(issues, filter))
<1> DEFINE wanted == Asked(issues, filter)
           start == FirstOfPage(page, pageSize)
           end == Wrap(start + pageSize)
           a == (page - 1) * pageSize
           b == page * pageSize
<1>1. wanted \in Seq(T)
  BY AskedType
<1>2. a \in Nat /\ b \in Nat /\ a + pageSize = b /\ a <= b
  OBVIOUS
<1>3. Pick(issues, {i \in DOMAIN issues : Matches(filter, issues[i])}) = wanted
  BY MatchesAsked
<1> HIDE DEF wanted, a
<1>4. start = a
  <2>1. a \in IntRange
    BY <1>2, MaxIntAssumption DEF IntRange, MinInt
  <2> QED
    BY <2>1, WrapSmall DEF FirstOfPage, a
<1> HIDE DEF b, start
<1>5. end = b
  <2>1. b \in IntRange
    BY <1>2, MaxIntAssumption DEF IntRange, MinInt, b
  <2> QED
    BY <1>2, <1>4, <2>1, WrapSmall
<1> HIDE DEF end
<1>6. /\ ListIssues(issues, filter, page, pageSize).items
           = Pick(wanted, {k \in DOMAIN wanted : start < k /\ k <= end})
      /\ ListIssues(issues, filter, page, pageSize).total = Len(wanted)
  BY <1>3 DEF ListIssues, start, end
<1>7. Pick(wanted, {k \in DOMAIN wanted : a < k /\ k <= b})
        = SubSeq(wanted, a + 1, IF b < Len(wanted) THEN b ELSE Len(wanted))
  BY <1>1, <1>2, PickRange
<1>8. PageOf(wanted, page, pageSize)
        = SubSeq(wanted, a + 1, IF b < Len(wanted) THEN b ELSE Len(wanted))
  BY DEF PageOf, a, b
<1> QED
  BY <1>4, <1>5, <1>6, <1>7, <1>8 DEF wanted
=============================================================================
