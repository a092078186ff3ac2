--------------------------- MODULE ListingProofs ---------------------------
(***************************************************************************)
(* Theorems about Listing, for every value of its constants: the pages of  *)
(* a list partition it, what is listed without its owner is deleted, and a *)
(* walk over the pages repeats a row only for one that arrived and misses  *)
(* a row only for one that arrived or left.                                *)
(***************************************************************************)
EXTENDS Listing, FiniteSetTheorems, TLAPS

-----------------------------------------------------------------------------
(***************************************************************************)
(* The arithmetic of offset, limit and total_pages.                        *)
(***************************************************************************)

\* What the rounded-down quotient is.
LEMMA Quotient ==
    ASSUME NEW a \in Nat, NEW b \in Nat \ {0}
    PROVE  /\ a \div b \in Nat
           /\ b * (a \div b) =< a /\ a < b * (a \div b) + b
  OBVIOUS

\* Products grow by the factor at least.
LEMMA Monotone ==
    ASSUME NEW p \in Nat, NEW q \in Nat, NEW size \in Nat, p + 1 =< q
    PROVE  p * size + size =< q * size
  OBVIOUS

\* The page with rank k is (k - 1) \div size + 1, and it is among the pages
\* that total_pages counts, for every total and every page size.
LEMMA RankOnOnePage ==
    ASSUME NEW n \in Nat, NEW size \in Nat \ {0}, NEW k \in 1..n
    PROVE  \E p \in 1..TotalPages(n, size) : \A p1 \in Nat \ {0} :
               (Offset(p1, size) < k /\ k =< Offset(p1, size) + size) <=> p1 = p
  <1> DEFINE d == (k - 1) \div size
             N == (n + size - 1) \div size
             On(p) == Offset(p, size) < k /\ k =< Offset(p, size) + size
  <1>1. d \in Nat /\ size * d =< k - 1 /\ k - 1 < size * d + size
    BY Quotient
  <1>2. N \in Nat /\ n + size - 1 < size * N + size
    BY Quotient
  <1>3. TotalPages(n, size) = N
    BY DEF TotalPages
  <1> HIDE DEF d, N
  <1>4. d + 1 =< N
    <2> SUFFICES ASSUME N =< d PROVE FALSE
      BY <1>1, <1>2
    <2>1. size * N =< size * d
      <3>1. CASE N = d
        BY <3>1, <1>1
      <3>2. CASE N + 1 =< d
        BY <3>2, <1>1, <1>2, Monotone
      <3>3. QED
        BY <3>1, <3>2, <1>1, <1>2
    <2> DEFINE X == size * N
               Y == size * d
    <2>2. X \in Nat /\ Y \in Nat /\ X =< Y
      BY <1>1, <1>2, <2>1
    <2>3. Y =< k - 1 /\ n + size - 1 < X + size
      BY <1>1, <1>2
    <2> HIDE DEF X, Y
    <2>4. QED
      BY <2>2, <2>3
  <1>5. On(d + 1)
    BY <1>1 DEF Offset
  <1>6. ASSUME NEW p \in Nat \ {0}, On(p) PROVE p = d + 1
    <2> DEFINE e == p - 1
    <2>1. e \in Nat /\ e * size < k /\ k =< e * size + size
      BY <1>6 DEF Offset
    <2>2. d * size < k /\ k =< d * size + size
      BY <1>1
    <2> HIDE DEF e
    <2>3. ~ (e + 1 =< d)
      <3> SUFFICES ASSUME e + 1 =< d PROVE FALSE
        OBVIOUS
      <3>1. e * size + size =< d * size
        BY <2>1, <1>1, Monotone
      <3>2. e * size \in Nat /\ d * size \in Nat
        BY <2>1, <1>1
      <3>3. QED
        BY <3>1, <3>2, <2>1, <2>2
    <2>4. ~ (d + 1 =< e)
      <3> SUFFICES ASSUME d + 1 =< e PROVE FALSE
        OBVIOUS
      <3>1. d * size + size =< e * size
        BY <2>1, <1>1, Monotone
      <3>2. e * size \in Nat /\ d * size \in Nat
        BY <2>1, <1>1
      <3>3. QED
        BY <3>1, <3>2, <2>1, <2>2
    <2>5. QED
      BY <2>1, <2>3, <2>4, <1>1 DEF e
  <1>7. d + 1 \in 1..N
    BY <1>1, <1>2, <1>4
  <1>8. QED
    BY <1>3, <1>5, <1>6, <1>7

\* In a finite set the places are those from 1 to the number of rows.
LEMMA RankInRange ==
    ASSUME NEW S \in SUBSET Ids, NEW x \in S
    PROVE  Rank(x, S) \in 1..Cardinality(S)
  <1> DEFINE above == {y \in S : Created[y] >= Created[x]}
  <1>1. IsFiniteSet(S) /\ IsFiniteSet(above)
    BY FS_Subset, ListingSentinelAssumption
  <1>2. x \in above
    BY CreatedAssumption
  <1>3. Cardinality(above) \in Nat /\ Cardinality(S) \in Nat
    BY <1>1, FS_CardinalityType
  <1>4. Cardinality(above) =< Cardinality(S)
    BY <1>1, FS_Subset
  <1>5. Cardinality(above) # 0
    BY <1>1, <1>2, FS_EmptySet
  <1>6. QED
    BY <1>3, <1>4, <1>5 DEF Rank

\* A list only has rows.
LEMMA MatchingIds ==
    ASSUME NEW q
    PROVE  Matching(q) \in SUBSET Ids
  BY DEF Matching, Ids

\* Every row of a list is on exactly one of its pages, and that page is among
\* the total_pages that the response announces, whatever the page size
\* (task_service.py:65-66, tasks.py:57): nothing is lost between two pages or
\* behind the last one.
THEOREM PagesPartition ==
    ASSUME NEW q \in AllQueries, NEW x \in Matching(q)
    PROVE  \E p \in 1..TotalPages(Cardinality(Matching(q)), q.page_size) :
               \A p1 \in Nat \ {0} : x \in Page(q, p1) <=> p1 = p
  <1> DEFINE S == Matching(q)
  <1>1. Rank(x, S) \in 1..Cardinality(S)
    BY MatchingIds, RankInRange
  <1>2. Cardinality(S) \in Nat
    BY MatchingIds, FS_Subset, FS_CardinalityType, ListingSentinelAssumption
  <1>3. q.page_size \in Nat \ {0}
    BY DEF AllQueries
  <1>4. PICK p \in 1..TotalPages(Cardinality(S), q.page_size) : \A p1 \in Nat \ {0} :
            (/\ Offset(p1, q.page_size) < Rank(x, S)
             /\ Rank(x, S) =< Offset(p1, q.page_size) + q.page_size) <=> p1 = p
    BY <1>1, <1>2, <1>3, RankOnOnePage
  <1>5. \A p1 \in Nat \ {0} : x \in Page(q, p1) <=> p1 = p
    BY <1>4 DEF Page
  <1>6. QED
    BY <1>5

-----------------------------------------------------------------------------
(***************************************************************************)
(* Owners.                                                                 *)
(***************************************************************************)

\* The types that the invariant needs.
TableType ==
    /\ users \in [UserIds -> UserRows \cup {NoRow}]
    /\ tasks \in [TaskIds -> TaskRows \cup {NoRow}]
    /\ found \in SUBSET Ids /\ ownerless \in SUBSET TaskIds
    /\ query \in Queries \cup {NoQuery}

\* The foreign key, and that no id is given twice.
LiveOwners ==
    /\ \A t \in TaskIds : tasks[t] # NoRow => t \in born /\ users[OwnerId[t]] # NoRow
    /\ \A u \in UserIds : users[u] # NoRow => u \in born

\* What a page has shown has been a row, and a page that has owners is of tasks.
FoundRows ==
    /\ found \subseteq born
    /\ pc = "owners" => found \subseteq TaskIds

OwnerInv ==
    /\ TableType /\ LiveOwners /\ FoundRows
    /\ ownerless \subseteq born
    /\ OwnerlessGone

\* At the start nothing is listed and every task has its owner.
LEMMA OwnerInit == Init => OwnerInv
  BY RowsAssumption
  DEF Init, OwnerInv, TableType, LiveOwners, FoundRows, OwnerlessGone

\* The client's steps and the statements of a response change no row; the
\* statement that loads the owners finds each whose task is still there.
LEMMA OwnerList ==
    ASSUME OwnerInv, List
    PROVE  OwnerInv'
  <1> USE DEF OwnerInv, TableType, LiveOwners, FoundRows, OwnerlessGone, table, walk,
              history
  <1>1. CASE \E q \in Queries : Begin(q)
    BY <1>1 DEF Begin
  <1>2. CASE NextPage
    BY <1>2 DEF NextPage
  <1>3. CASE GetCurrentUser
    BY <1>3 DEF GetCurrentUser
  <1>4. CASE CountRows
    BY <1>4 DEF CountRows
  <1>5. CASE SelectPage
    <2>1. Page(query, page) \subseteq Matching(query)
      BY DEF Page
    <2>2. Matching(query) \subseteq {x \in Ids : x \in born}
      BY DEF Matching, Ids
    <2>3. pc' = "owners" => query.list # "users" /\ found' # {}
      BY <1>5 DEF SelectPage
    <2>4. found' \subseteq Matching(query)
      BY <1>5, <2>1 DEF SelectPage
    <2>5. pc' = "owners" => Matching(query) \subseteq TaskIds
      BY <2>3 DEF Matching
    <2>6. /\ users' = users /\ tasks' = tasks /\ born' = born
          /\ query' = query /\ ownerless' = ownerless
      BY <1>5 DEF SelectPage
    <2>7. found' \subseteq Ids /\ found' \subseteq born
          /\ (pc' = "owners" => found' \subseteq TaskIds)
      BY <2>2, <2>4, <2>5
    <2>8. QED
      BY <2>6, <2>7
  <1>6. CASE LoadOwners
    <2>1. ownerless' = {t \in found : users[OwnerId[t]] = NoRow} /\ found \subseteq TaskIds
      BY <1>6 DEF LoadOwners
    <2>2. /\ users' = users /\ tasks' = tasks /\ born' = born
          /\ query' = query /\ found' = found /\ pc' = "answer"
      BY <1>6 DEF LoadOwners
    <2>3. QED
      BY <2>1, <2>2
  <1>7. CASE Answer
    BY <1>7 DEF Answer
  <1>8. QED
    BY <1>1, <1>2, <1>3, <1>4, <1>5, <1>6, <1>7
    DEF List, ListMyTasks, ListPublicTasks, AdminListAllTasks, AdminListUsers

\* What other requests commit deletes a user's tasks with him and brings no
\* deleted row back.
LEMMA OwnerChange ==
    ASSUME OwnerInv, Change
    PROVE  OwnerInv'
  <1> USE DEF OwnerInv, TableType, LiveOwners, FoundRows, OwnerlessGone, Meanwhile, request
  <1>o. OwnerId \in [TaskIds -> UserIds] /\ UserIds \cap TaskIds = {}
        /\ UserChoices \subseteq UserRows /\ NoRow \notin UserRows
        /\ TaskChoices \subseteq TaskRows /\ NoRow \notin TaskRows
    BY RowsAssumption, ListingSentinelAssumption
  <1>1. ASSUME NEW u \in UserIds, CreateUser(u) PROVE OwnerInv'
    BY <1>1, <1>o DEF CreateUser
  <1>2. ASSUME NEW u \in UserIds, AdminUpdateUser(u) PROVE OwnerInv'
    BY <1>2, <1>o DEF AdminUpdateUser
  <1>3. ASSUME NEW u \in UserIds, DeleteUser(u) PROVE OwnerInv'
    BY <1>3, <1>o DEF DeleteUser, Cascade
  <1>4. ASSUME NEW t \in TaskIds, CreateTask(t) PROVE OwnerInv'
    BY <1>4, <1>o DEF CreateTask
  <1>5. ASSUME NEW t \in TaskIds, UpdateTask(t) PROVE OwnerInv'
    BY <1>5, <1>o DEF UpdateTask
  <1>6. ASSUME NEW t \in TaskIds, DeleteTask(t) PROVE OwnerInv'
    BY <1>6, <1>o DEF DeleteTask
  <1>7. QED
    BY <1>1, <1>2, <1>3, <1>4, <1>5, <1>6 DEF Change

\* A task is ever listed without its owner only if it has been deleted with him
\* since its page was read.
THEOREM OwnerlessAreGone == Spec => []OwnerlessGone
  <1>1. Init => OwnerInv
    BY OwnerInit
  <1>2. OwnerInv /\ [Next]_vars => OwnerInv'
    <2>1. OwnerInv /\ UNCHANGED vars => OwnerInv'
      BY DEF OwnerInv, TableType, LiveOwners, FoundRows, OwnerlessGone, vars, table, request
    <2>2. QED
      BY <2>1, OwnerList, OwnerChange DEF Next
  <1>3. OwnerInv => OwnerlessGone
    BY DEF OwnerInv
  <1>4. QED
    BY <1>1, <1>2, <1>3, PTL DEF Spec
-----------------------------------------------------------------------------
(***************************************************************************)
(* Ranks in a list that changes.                                           *)
(***************************************************************************)

\* The rows of S behind the first n.
Behind(n, S) == {x \in S : Rank(x, S) > n}

\* All the sets here are finite.
LEMMA Finite ==
    ASSUME NEW S \in SUBSET Ids
    PROVE  IsFiniteSet(S) /\ Cardinality(S) \in Nat
  BY FS_Subset, FS_CardinalityType, ListingSentinelAssumption

\* Two sets have no more rows together than one by one.
LEMMA AtMostSum ==
    ASSUME NEW S \in SUBSET Ids, NEW T \in SUBSET Ids, NEW U \in SUBSET Ids,
           U \subseteq S \cup T
    PROVE  Cardinality(U) =< Cardinality(S) + Cardinality(T)
  <1>1. S \cup T \in SUBSET Ids /\ S \cap T \in SUBSET Ids
    OBVIOUS
  <1>2. Cardinality(S \cup T) = Cardinality(S) + Cardinality(T) - Cardinality(S \cap T)
    BY FS_Union, Finite
  <1>3. Cardinality(U) =< Cardinality(S \cup T)
    BY <1>1, FS_Subset, Finite
  <1>4. /\ Cardinality(S) \in Nat /\ Cardinality(T) \in Nat /\ Cardinality(U) \in Nat
        /\ Cardinality(S \cup T) \in Nat /\ Cardinality(S \cap T) \in Nat
    BY <1>1, Finite
  <1>5. QED
    BY <1>2, <1>3, <1>4

\* Two rows never have the same place.
LEMMA RankInjective ==
    ASSUME NEW S \in SUBSET Ids, NEW x \in S, NEW y \in S, Rank(x, S) = Rank(y, S)
    PROVE  x = y
  <1> DEFINE Above(z) == {w \in S : Created[w] >= Created[z]}
  <1>1. ASSUME NEW a \in S, NEW b \in S, Created[a] > Created[b], Rank(a, S) = Rank(b, S)
        PROVE  FALSE
    <2>1. Above(a) \subseteq Above(b) /\ b \in Above(b) /\ b \notin Above(a)
      BY <1>1, CreatedAssumption
    <2>2. Above(b) \in SUBSET Ids /\ Cardinality(Above(a)) = Cardinality(Above(b))
      BY <1>1 DEF Rank
    <2> HIDE DEF Above
    <2>3. Above(a) = Above(b)
      BY <2>1, <2>2, Finite, FS_Subset
    <2>4. QED
      BY <2>1, <2>3
  <1>2. Created[x] \in Nat /\ Created[y] \in Nat
    BY CreatedAssumption
  <1>3. ~ (Created[x] > Created[y]) /\ ~ (Created[y] > Created[x])
    BY <1>1
  <1>4. QED
    BY <1>2, <1>3, CreatedAssumption

\* Rows with places from a to b are no more than there are places.
LEMMA RowsInPlaces ==
    ASSUME NEW S \in SUBSET Ids, NEW U \in SUBSET S, NEW a \in Nat, NEW b \in Nat,
           \A x \in U : Rank(x, S) \in a..b
    PROVE  Cardinality(U) =< IF a > b THEN 0 ELSE b - a + 1
  <1> DEFINE f == [x \in U |-> Rank(x, S)]
  <1>1. f \in Injection(U, a..b)
    BY RankInjective DEF Injection, IsInjective
  <1>2. IsFiniteSet(a..b) /\ Cardinality(a..b) = IF a > b THEN 0 ELSE b - a + 1
    BY FS_Interval
  <1> HIDE DEF f
  <1>3. QED
    BY <1>1, <1>2, FS_Injection

\* Behind the first n there are as many rows as the list has more than n.
LEMMA RowsBehind ==
    ASSUME NEW S \in SUBSET Ids, NEW n \in Nat
    PROVE  Cardinality(Behind(n, S)) =
               IF Cardinality(S) > n THEN Cardinality(S) - n ELSE 0
  <1> DEFINE before == S \ Behind(n, S)
             c == Cardinality(S)
  <1>1. /\ Behind(n, S) \in SUBSET S /\ Behind(n, S) \in SUBSET Ids
        /\ before \in SUBSET S /\ before \in SUBSET Ids
    BY DEF Behind
  <1>2. c \in Nat /\ Cardinality(Behind(n, S)) \in Nat /\ Cardinality(before) \in Nat
    BY <1>1, Finite
  <1>3. \A x \in S : Rank(x, S) \in 1..c
    BY RankInRange
  <1>4. Cardinality(Behind(n, S)) =< IF n + 1 > c THEN 0 ELSE c - (n + 1) + 1
    <2>1. \A x \in Behind(n, S) : Rank(x, S) \in (n + 1)..c
      BY <1>2, <1>3 DEF Behind
    <2> HIDE DEF c
    <2>2. QED
      BY <1>1, <1>2, <2>1, RowsInPlaces
  <1>5. Cardinality(before) =< n
    <2>1. \A x \in before : Rank(x, S) \in 1..n
      BY <1>2, <1>3 DEF Behind
    <2> HIDE DEF before
    <2>2. Cardinality(before) =< IF 1 > n THEN 0 ELSE n - 1 + 1
      BY <1>1, <2>1, RowsInPlaces
    <2>3. QED
      BY <1>2, <2>2
  <1>6. c =< Cardinality(Behind(n, S)) + Cardinality(before)
    <2>1. S \subseteq Behind(n, S) \cup before
      OBVIOUS
    <2> HIDE DEF before
    <2>2. QED
      BY <1>1, <2>1, AtMostSum
  <1> HIDE DEF c, before
  <1>7. QED
    BY <1>2, <1>4, <1>5, <1>6 DEF c

\* In a larger list no row stands further in front, and as many rows at most fall
\* behind the first n as were added.
LEMMA BehindGrows ==
    ASSUME NEW S \in SUBSET Ids, NEW T \in SUBSET Ids, S \subseteq T, NEW n \in Nat
    PROVE  /\ Behind(n, S) \subseteq Behind(n, T)
           /\ Cardinality(Behind(n, T) \ Behind(n, S)) =< Cardinality(T \ S)
  <1> DEFINE A == Behind(n, S)
             B == Behind(n, T)
  <1>1. A \in SUBSET S /\ B \in SUBSET T
    BY DEF Behind
  <1>2. A \subseteq B
    <2> SUFFICES ASSUME NEW x \in A PROVE x \in B
      OBVIOUS
    <2> DEFINE Above(U) == {y \in U : Created[y] >= Created[x]}
    <2>1. Above(S) \subseteq Above(T) /\ Above(T) \in SUBSET Ids
      OBVIOUS
    <2>2. Cardinality(Above(S)) =< Cardinality(Above(T))
          /\ Cardinality(Above(S)) \in Nat /\ Cardinality(Above(T)) \in Nat
      BY <2>1, Finite, FS_Subset
    <2>3. x \in S /\ Cardinality(Above(S)) > n
      BY DEF Behind, Rank
    <2>4. x \in T /\ Cardinality(Above(T)) > n
      BY <2>2, <2>3
    <2>5. QED
      BY <2>4 DEF Behind, Rank
  <1>3. Cardinality(A) = IF Cardinality(S) > n THEN Cardinality(S) - n ELSE 0
    BY RowsBehind
  <1>4. Cardinality(B) = IF Cardinality(T) > n THEN Cardinality(T) - n ELSE 0
    BY RowsBehind
  <1> HIDE DEF A, B
  <1>5. Cardinality(B \ A) = Cardinality(B) - Cardinality(A)
    <2>1. IsFiniteSet(B) /\ IsFiniteSet(A) /\ B \cap A = A
      BY <1>1, <1>2, Finite
    <2>2. Cardinality(B \ A) = Cardinality(B) - Cardinality(B \cap A)
      BY <2>1, FS_Difference
    <2>3. QED
      BY <2>1, <2>2
  <1>6. Cardinality(T \ S) = Cardinality(T) - Cardinality(S)
    <2>1. T \cap S = S /\ IsFiniteSet(T) /\ IsFiniteSet(S)
      BY Finite
    <2>2. Cardinality(T \ S) = Cardinality(T) - Cardinality(T \cap S)
      BY <2>1, FS_Difference
    <2>3. QED
      BY <2>1, <2>2
  <1>7. Cardinality(S) =< Cardinality(T) /\ Cardinality(S) \in Nat /\ Cardinality(T) \in Nat
    BY Finite, FS_Subset
  <1>8. QED
    BY <1>2, <1>3, <1>4, <1>5, <1>6, <1>7 DEF A, B

\* When a list S has become T, of any set of rows as many at most are newly behind as
\* arrived, and as many at most newly in front as departed.
LEMMA BehindMoves ==
    ASSUME NEW S \in SUBSET Ids, NEW T \in SUBSET Ids, NEW n \in Nat, NEW V
    PROVE  /\ Cardinality(V \cap Behind(n, T))
                  =< Cardinality(V \cap Behind(n, S)) + Cardinality(T \ S)
           /\ Cardinality(((V \cap S) \cap T) \ Behind(n, T))
                  =< Cardinality((V \cap S) \ Behind(n, S)) + Cardinality(S \ T)
  <1> DEFINE M == S \cap T
             bS == Behind(n, S)
             bM == Behind(n, M)
             bT == Behind(n, T)
  <1>1. M \in SUBSET Ids /\ M \subseteq S /\ M \subseteq T /\ T \ M = T \ S /\ S \ M = S \ T
    OBVIOUS
  <1>2. bS \subseteq S /\ bM \subseteq M /\ bT \subseteq T
    BY DEF Behind
  <1>3. /\ bM \subseteq bS /\ Cardinality(bS \ bM) =< Cardinality(S \ T)
        /\ bM \subseteq bT /\ Cardinality(bT \ bM) =< Cardinality(T \ S)
    <2> HIDE DEF M
    <2>1. QED
      BY <1>1, BehindGrows
  <1> HIDE DEF bS, bM, bT, M
  <1>4. Cardinality(V \cap bT) =< Cardinality(V \cap bS) + Cardinality(T \ S)
    <2>1. Cardinality(V \cap bT) =< Cardinality(V \cap bS) + Cardinality(bT \ bM)
      <3>1. V \cap bT \subseteq (V \cap bS) \cup (bT \ bM)
        BY <1>3
      <3>2. V \cap bT \in SUBSET Ids /\ V \cap bS \in SUBSET Ids /\ bT \ bM \in SUBSET Ids
        BY <1>2
      <3>3. QED
        BY <3>1, <3>2, AtMostSum
    <2>2. /\ Cardinality(V \cap bT) \in Nat /\ Cardinality(V \cap bS) \in Nat
          /\ Cardinality(bT \ bM) \in Nat /\ Cardinality(T \ S) \in Nat
      BY <1>2, Finite
    <2>3. QED
      BY <1>3, <2>1, <2>2
  <1>5. Cardinality(((V \cap S) \cap T) \ bT)
            =< Cardinality((V \cap S) \ bS) + Cardinality(S \ T)
    <2> DEFINE old == (V \cap S) \ bS
               new == ((V \cap S) \cap T) \ bT
    <2>1. Cardinality(new) =< Cardinality(old) + Cardinality(bS \ bM)
      <3>1. new \subseteq old \cup (bS \ bM)
        BY <1>3
      <3>2. new \in SUBSET Ids /\ old \in SUBSET Ids /\ bS \ bM \in SUBSET Ids
        BY <1>2
      <3> HIDE DEF old, new
      <3>3. QED
        BY <3>1, <3>2, AtMostSum
    <2>2. /\ Cardinality(new) \in Nat /\ Cardinality(old) \in Nat
          /\ Cardinality(bS \ bM) \in Nat /\ Cardinality(S \ T) \in Nat
      BY <1>2, Finite
    <2> HIDE DEF old, new
    <2>3. QED
      BY <1>3, <2>1, <2>2 DEF old, new
  <1>6. QED
    BY <1>4, <1>5 DEF bS, bT

-----------------------------------------------------------------------------
(***************************************************************************)
(* What a walk misses and repeats.                                         *)
(***************************************************************************)

\* How many rows of the list the pages read so far have covered.
Covered == IF pc \in {"owners", "answer", "idle"} THEN Offset(page + 1, query.page_size)
                                                  ELSE Offset(page, query.page_size)

Rest == Behind(Covered, Matching(query))

Seen == listed \cup found

\* The rows of the page at hand that are listed already.
Again == IF pc = "idle" THEN {} ELSE listed \cap found

\* A seen row that is still to come has cost an arrival, and an unseen one that has
\* moved in front of the pages to come a departure.
Bounds ==
    /\ steady \subseteq Matching(query)
    /\ repeats + Cardinality(Again) + Cardinality(Seen \cap Rest) =< arrived
    /\ Cardinality((steady \ Seen) \ Rest) =< departed

\* What has been counted and read, by the stage of the request.
Stage ==
    /\ query # NoQuery /\ pc \notin {"start", "count"} =>
           Cardinality(Matching(query)) =< total + arrived
    /\ query # NoQuery /\ pc = "idle" => pages = TotalPages(total, query.page_size)
    /\ pc = "idle" => found \subseteq listed
    /\ pc \in {"start", "count", "page"} => found = {}
    /\ pc # "idle" => query # NoQuery /\ page >= 1

WalkInv == TypeOK /\ Bounds /\ Stage

\* A query has a page size.
LEMMA QueryFields ==
    ASSUME query \in Queries \cup {NoQuery}, query # NoQuery
    PROVE  query \in AllQueries /\ query.page_size \in Nat \ {0}
  BY QueriesAssumption DEF AllQueries

\* What has been covered is a number.
LEMMA CoveredType ==
    ASSUME TypeOK, Stage, query # NoQuery
    PROVE  /\ Covered \in Nat
           /\ Offset(page + 1, query.page_size) \in Nat
           /\ pc # "idle" => /\ Offset(page, query.page_size) \in Nat
                             /\ Offset(page + 1, query.page_size)
                                    = Offset(page, query.page_size) + query.page_size
  <1>1. query.page_size \in Nat \ {0} /\ page \in Nat
    BY QueryFields DEF TypeOK
  <1>2. \A n \in Nat : n * query.page_size \in Nat
    BY <1>1
  <1>3. Offset(page + 1, query.page_size) = page * query.page_size
    BY <1>1 DEF Offset
  <1>4. ASSUME page >= 1
        PROVE  /\ Offset(page, query.page_size) \in Nat
               /\ page * query.page_size = Offset(page, query.page_size) + query.page_size
    BY <1>1, <1>2, <1>4 DEF Offset
  <1>5. pc # "idle" => page >= 1
    BY DEF Stage
  <1>6. QED
    BY <1>1, <1>2, <1>3, <1>4, <1>5 DEF Covered

\* No page has more rows than its size.
LEMMA PageSize ==
    ASSUME NEW q \in AllQueries, NEW p \in Nat \ {0}
    PROVE  /\ Page(q, p) \in SUBSET Matching(q)
           /\ Cardinality(Page(q, p)) =< q.page_size
  <1> DEFINE S == Matching(q)
             n == Offset(p, q.page_size)
  <1>1. q.page_size \in Nat \ {0} /\ S \in SUBSET Ids
    BY MatchingIds DEF AllQueries
  <1>2. n \in Nat
    <2>1. p - 1 \in Nat
      OBVIOUS
    <2>2. QED
      BY <1>1, <2>1 DEF Offset
  <1>3. \A x \in S : Rank(x, S) \in Nat
    BY <1>1, RankInRange, Finite
  <1>4. Page(q, p) = {x \in S : n < Rank(x, S) /\ Rank(x, S) =< n + q.page_size}
    BY DEF Page
  <1> HIDE DEF S, n
  <1>5. \A x \in Page(q, p) : Rank(x, S) \in (n + 1)..(n + q.page_size)
    BY <1>1, <1>2, <1>3, <1>4
  <1>6. Cardinality(Page(q, p)) =< IF n + 1 > n + q.page_size THEN 0
                                   ELSE (n + q.page_size) - (n + 1) + 1
    <2>1. Page(q, p) \in SUBSET S /\ n + 1 \in Nat /\ n + q.page_size \in Nat
      BY <1>1, <1>2, <1>4
    <2>2. QED
      BY <1>1, <1>5, <2>1, RowsInPlaces
  <1>7. Page(q, p) \in SUBSET S
    BY <1>4
  <1>8. QED
    BY <1>1, <1>2, <1>6, <1>7 DEF S

\* The number of pages is a number, and they have room for all rows.
LEMMA PagesHoldAll ==
    ASSUME NEW n \in Nat, NEW size \in Nat \ {0}
    PROVE  TotalPages(n, size) \in Nat /\ TotalPages(n, size) * size >= n
  <1> DEFINE N == (n + size - 1) \div size
  <1>1. n + size - 1 \in Nat
    OBVIOUS
  <1>2. N \in Nat /\ n + size - 1 < size * N + size
    BY <1>1, Quotient
  <1> HIDE DEF N
  <1>3. N * size >= n
    BY <1>2
  <1>4. TotalPages(n, size) = IF n = 0 THEN 0 ELSE N
    BY DEF TotalPages, N
  <1>5. QED
    BY <1>2, <1>3, <1>4

\* The client's steps.
LEMMA BeginWalk ==
    ASSUME WalkInv, NEW q \in Queries, Begin(q)
    PROVE  WalkInv'
  <1> USE DEF WalkInv
  <1>1. /\ pc' = "start" /\ query' = q /\ page' = 1 /\ total' = 0 /\ pages' = 0
        /\ found' = {} /\ ownerless' = {} /\ listed' = {} /\ repeats' = 0
        /\ steady' = Matching(q) /\ arrived' = 0 /\ departed' = 0
        /\ users' = users /\ tasks' = tasks /\ born' = born
    BY DEF Begin, table
  <1>2. q \in AllQueries /\ q # NoQuery /\ q.page_size \in Nat \ {0}
    BY QueriesAssumption, ListingSentinelAssumption DEF AllQueries
  <1>3. Matching(q)' = Matching(q)
    BY <1>1 DEF Matching, InTasks, InAllTasks, InUsers
  <1>4. Cardinality(Ids) \in Nat
    BY Finite
  <1>5. TypeOK'
    BY <1>1, <1>2, <1>4, MatchingIds, FS_EmptySet DEF TypeOK
  <1>6. Stage'
    BY <1>1, <1>2 DEF Stage
  <1>7. Bounds'
    <2>1. Matching(query)' = Matching(q)
      BY <1>1, <1>3
    <2>2. Again' = {} /\ Seen' = {}
      BY <1>1 DEF Again, Seen
    <2>3. Covered' = 0
      BY <1>1, <1>2 DEF Covered, Offset
    <2>4. (steady \ Seen)' \ Rest' = {}
      <3>1. Rest' = Behind(0, Matching(q))
        BY <2>1, <2>3 DEF Rest, Behind, Rank
      <3>2. \A x \in Matching(q) : Rank(x, Matching(q)) > 0
        BY MatchingIds, RankInRange, Finite
      <3>3. QED
        BY <1>1, <3>1, <3>2 DEF Behind
    <2>5. Cardinality({}) = 0
      BY FS_EmptySet
    <2>6. Seen' \cap Rest' = {}
      BY <2>2
    <2>7. QED
      BY <1>1, <2>1, <2>2, <2>4, <2>5, <2>6 DEF Bounds
  <1>8. QED
    BY <1>5, <1>6, <1>7

\* A list whose rows stay is the same list.
LEMMA SameList ==
    ASSUME users' = users, tasks' = tasks, query' = query
    PROVE  /\ Matching(query)' = Matching(query)
           /\ Rest' = Behind(Covered', Matching(query))
  <1>1. Matching(query)' = Matching(query)
    BY DEF Matching, InTasks, InAllTasks, InUsers
  <1>2. QED
    BY <1>1 DEF Rest, Behind, Rank

\* A step that reads no page and answers nothing keeps what the walk has cost.
LEMMA QuietStep ==
    ASSUME WalkInv, users' = users, tasks' = tasks, UNCHANGED <<query, walk, history>>,
           Seen' = Seen, Again' = Again, Covered' = Covered
    PROVE  Bounds'
  <1>1. Matching(query)' = Matching(query) /\ Rest' = Rest
    BY SameList DEF Rest
  <1>2. QED
    BY <1>1 DEF WalkInv, Bounds, walk, history

LEMMA NextWalk == WalkInv /\ NextPage => WalkInv'
  <1> SUFFICES ASSUME WalkInv, NextPage PROVE WalkInv'
    OBVIOUS
  <1> USE DEF WalkInv, NextPage
  <1>1. /\ pc = "idle" /\ query # NoQuery /\ pc' = "start" /\ page' = page + 1
        /\ total' = 0 /\ found' = {} /\ ownerless' = {} /\ found \subseteq listed
        /\ users' = users /\ tasks' = tasks /\ born' = born
        /\ UNCHANGED <<query, walk, history>>
    BY DEF table, Stage
  <1>2. Seen' = Seen /\ Again' = Again /\ Covered' = Covered
    BY <1>1 DEF Seen, Again, Covered, walk
  <1>3. Bounds'
    BY <1>1, <1>2, QuietStep
  <1>4. query.page_size \in Nat
    BY <1>1, QueryFields DEF TypeOK
  <1>5. TypeOK'
    BY <1>1, <1>4, FS_EmptySet, Finite DEF TypeOK, walk, history
  <1>6. Stage'
    BY <1>1 DEF Stage, TypeOK
  <1>7. QED
    BY <1>3, <1>5, <1>6

\* A caller who is turned away ends the walk.
LEMMA AdmitWalk == WalkInv /\ GetCurrentUser => WalkInv'
  <1> SUFFICES ASSUME WalkInv, GetCurrentUser PROVE WalkInv'
    OBVIOUS
  <1> USE DEF WalkInv
  <1>1. /\ pc = "start" /\ found = {} /\ query # NoQuery
        /\ users' = users /\ tasks' = tasks /\ born' = born
        /\ UNCHANGED <<page, total, found, ownerless>>
    BY DEF GetCurrentUser, Stage, table
  <1>2. CASE pc' = "count" /\ UNCHANGED <<query, walk, history>>
    <2>1. Seen' = Seen /\ Again' = Again /\ Covered' = Covered
      BY <1>1, <1>2 DEF Seen, Again, Covered, walk
    <2>2. Bounds'
      BY <1>1, <1>2, <2>1, QuietStep
    <2>3. TypeOK' /\ Stage'
      BY <1>1, <1>2 DEF TypeOK, Stage, walk, history
    <2>4. QED
      BY <2>2, <2>3
  <1>3. CASE /\ pc' = "idle" /\ query' = NoQuery
             /\ pages' = 0 /\ listed' = {} /\ repeats' = 0
             /\ steady' = {} /\ arrived' = 0 /\ departed' = 0
    <2>1. TypeOK' /\ Stage'
      BY <1>1, <1>3 DEF TypeOK, Stage
    <2>2. Bounds'
      <3>1. Again' = {} /\ Seen' = {}
        BY <1>1, <1>3 DEF Again, Seen
      <3>2. Seen' \cap Rest' = {} /\ (steady' \ Seen') \ Rest' = {}
        BY <1>3, <3>1
      <3>3. QED
        BY <1>3, <3>1, <3>2, FS_EmptySet DEF Bounds
    <2>3. QED
      BY <2>1, <2>2
  <1>4. QED
    BY <1>2, <1>3 DEF GetCurrentUser

\* The count is of the list as it is at that moment.
LEMMA CountWalk == WalkInv /\ CountRows => WalkInv'
  <1> SUFFICES ASSUME WalkInv, CountRows PROVE WalkInv'
    OBVIOUS
  <1> USE DEF WalkInv
  <1>1. /\ pc = "count" /\ pc' = "page" /\ found = {} /\ found' = found
        /\ query # NoQuery /\ page >= 1 /\ page' = page
        /\ ownerless' = ownerless /\ total' = Cardinality(Matching(query))
        /\ users' = users /\ tasks' = tasks /\ born' = born
        /\ UNCHANGED <<query, walk, history>>
    BY DEF CountRows, Stage, table
  <1>2. Seen' = Seen /\ Again' = Again /\ Covered' = Covered
    BY <1>1 DEF Seen, Again, Covered, walk
  <1>3. Bounds'
    BY <1>1, <1>2, QuietStep
  <1>4. total' \in 0..Cardinality(Ids)
    <2>1. Matching(query) \in SUBSET Ids /\ Ids \in SUBSET Ids
      BY MatchingIds
    <2>2. Cardinality(Matching(query)) =< Cardinality(Ids)
      BY <2>1, Finite, FS_Subset
    <2>3. QED
      BY <1>1, <2>1, <2>2, Finite
  <1>5. TypeOK'
    BY <1>1, <1>4 DEF TypeOK, walk, history
  <1>6. Stage'
    <2>1. Matching(query)' = Matching(query)
      BY <1>1, SameList
    <2>2. Cardinality(Matching(query)) \in Nat /\ arrived' \in Nat
      BY <1>1, MatchingIds, Finite DEF TypeOK, history
    <2>3. QED
      BY <1>1, <2>1, <2>2 DEF Stage
  <1>7. QED
    BY <1>3, <1>5, <1>6

\* A page shows the rows that were to come next: what was seen before is repeated now,
\* and the others are seen.
LEMMA SelectWalk == WalkInv /\ SelectPage => WalkInv'
  <1> SUFFICES ASSUME WalkInv, SelectPage PROVE WalkInv'
    OBVIOUS
  <1> USE DEF WalkInv
  <1> DEFINE S == Matching(query)
             n == Offset(page, query.page_size)
             m == Offset(page + 1, query.page_size)
  <1>1. /\ pc = "page" /\ pc' \in {"owners", "answer"} /\ found = {}
        /\ found' = Page(query, page) /\ query # NoQuery /\ page >= 1 /\ page' = page
        /\ ownerless' = ownerless /\ total' = total
        /\ users' = users /\ tasks' = tasks /\ born' = born
        /\ UNCHANGED <<query, walk, history>>
    BY DEF SelectPage, Stage, table
  <1>2. S \in SUBSET Ids /\ query \in AllQueries /\ page \in Nat \ {0}
    BY <1>1, MatchingIds, QueryFields DEF TypeOK
  <1>3. found' \in SUBSET S /\ Cardinality(found') =< query.page_size
    BY <1>1, <1>2, PageSize
  <1>4. TypeOK'
    <2>1. found' \in SUBSET Ids /\ ownerless' = {}
      BY <1>1, <1>2, <1>3 DEF TypeOK
    <2>2. QED
      BY <1>1, <1>3, <2>1 DEF TypeOK, walk, history
  <1>5. Stage'
    <2>1. Matching(query)' = S
      BY <1>1, SameList
    <2>2. QED
      BY <1>1, <2>1 DEF Stage, history
  <1>6. n \in Nat /\ m \in Nat /\ m = n + query.page_size /\ query.page_size \in Nat
    BY <1>1, <1>2, CoveredType, QueryFields DEF TypeOK
  <1>7. Rest = Behind(n, S) /\ Rest' = Behind(m, S)
    <2>1. Covered = n /\ Covered' = m
      BY <1>1 DEF Covered
    <2>2. QED
      BY <1>1, <2>1, SameList DEF Rest
  <1>8. found' = {x \in S : n < Rank(x, S) /\ Rank(x, S) =< m}
    BY <1>1, <1>6 DEF Page
  <1>9. \A x \in S : Rank(x, S) \in Nat
    BY <1>2, RankInRange, Finite
  <1>10. Matching(query)' = S
    BY <1>1, SameList
  <1> HIDE DEF S, n, m
  <1>11. /\ Rest = {x \in S : Rank(x, S) > n}
         /\ Rest' = {x \in S : Rank(x, S) > m}
    BY <1>7 DEF Behind
  <1>12. /\ Seen = listed /\ Seen' = listed \cup found' /\ listed' = listed
         /\ Again' = listed \cap found' /\ Again = {}
    BY <1>1 DEF Seen, Again, walk
  <1>13. /\ found' \subseteq Rest /\ Rest' \subseteq Rest
         /\ found' \cap Rest' = {} /\ Rest \subseteq found' \cup Rest'
    BY <1>6, <1>8, <1>9, <1>11
  <1>14. Cardinality(Again') + Cardinality(Seen' \cap Rest') = Cardinality(Seen \cap Rest)
    <2> DEFINE A == listed \cap found'
               B == (listed \cup found') \cap Rest'
               C == listed \cap Rest
    <2>1. A \cup B = C /\ A \cap B = {}
      BY <1>13
    <2>2. A \in SUBSET Ids /\ B \in SUBSET Ids
      BY <1>2, <1>3, <1>11
    <2> HIDE DEF A, B, C
    <2>3. Cardinality(A \cup B) = Cardinality(A) + Cardinality(B) - Cardinality(A \cap B)
      BY <2>2, Finite, FS_Union
    <2>4. Cardinality(C) = Cardinality(A) + Cardinality(B)
      <3>1. Cardinality(A \cap B) = 0
        BY <2>1, FS_EmptySet
      <3>2. Cardinality(C) = Cardinality(A \cup B)
        BY <2>1
      <3>3. Cardinality(A) \in Nat /\ Cardinality(B) \in Nat
        BY <2>2, Finite
      <3>4. QED
        BY <2>3, <3>1, <3>2, <3>3
    <2>5. QED
      BY <2>4, <1>12 DEF A, B, C
  <1>15. (steady' \ Seen') \ Rest' \subseteq (steady \ Seen) \ Rest
    <2>1. steady' = steady
      BY <1>1 DEF history
    <2>2. QED
      BY <1>12, <1>13, <2>1
  <1>16. Bounds'
    <2>1. /\ steady \subseteq S /\ Cardinality((steady \ Seen) \ Rest) =< departed
          /\ repeats + Cardinality(Again) + Cardinality(Seen \cap Rest) =< arrived
      BY DEF Bounds, S
    <2>2. /\ steady' = steady /\ repeats' = repeats
          /\ arrived' = arrived /\ departed' = departed
      BY <1>1 DEF walk, history
    <2>3. /\ (steady \ Seen) \ Rest \in SUBSET Ids
          /\ (steady' \ Seen') \ Rest' \in SUBSET Ids
          /\ Seen \cap Rest \in SUBSET Ids /\ Seen' \cap Rest' \in SUBSET Ids
          /\ Again' \in SUBSET Ids
      BY <1>2, <1>3, <1>11, <1>12, <2>1, <2>2
    <2>4. Cardinality((steady' \ Seen') \ Rest') =< Cardinality((steady \ Seen) \ Rest)
      BY <1>15, <2>3, Finite, FS_Subset
    <2>5. /\ Cardinality(Again) = 0 /\ repeats \in Nat /\ departed \in Nat
          /\ Cardinality(Again') \in Nat /\ Cardinality(Seen' \cap Rest') \in Nat
          /\ Cardinality((steady' \ Seen') \ Rest') \in Nat
          /\ Cardinality((steady \ Seen) \ Rest) \in Nat
      BY <1>12, <2>3, Finite, FS_EmptySet DEF TypeOK
    <2>6. repeats' + Cardinality(Again') + Cardinality(Seen' \cap Rest') =< arrived'
      BY <1>14, <2>1, <2>2, <2>3, <2>5, Finite
    <2>7. Cardinality((steady' \ Seen') \ Rest') =< departed'
      BY <2>1, <2>2, <2>4, <2>5
    <2>8. QED
      BY <1>10, <2>1, <2>2, <2>6, <2>7 DEF Bounds
  <1>17. QED
    BY <1>4, <1>5, <1>16

LEMMA OwnersWalk == WalkInv /\ LoadOwners => WalkInv'
  <1> SUFFICES ASSUME WalkInv, LoadOwners PROVE WalkInv'
    OBVIOUS
  <1> USE DEF WalkInv
  <1>1. /\ pc = "owners" /\ pc' = "answer" /\ query # NoQuery /\ page >= 1
        /\ ownerless' \in SUBSET found /\ UNCHANGED <<page, total, found>>
        /\ users' = users /\ tasks' = tasks /\ born' = born
        /\ UNCHANGED <<query, walk, history>>
    BY DEF LoadOwners, Stage, table
  <1>2. Seen' = Seen /\ Again' = Again /\ Covered' = Covered
    BY <1>1 DEF Seen, Again, Covered, walk
  <1>3. Bounds'
    BY <1>1, <1>2, QuietStep
  <1>4. TypeOK'
    BY <1>1 DEF TypeOK, walk, history
  <1>5. Stage'
    <2>1. Matching(query)' = Matching(query)
      BY <1>1, SameList
    <2>2. QED
      BY <1>1, <2>1 DEF Stage, history
  <1>6. QED
    BY <1>3, <1>4, <1>5

\* The answer lists the page and counts its repeats.
LEMMA AnswerWalk == WalkInv /\ Answer => WalkInv'
  <1> SUFFICES ASSUME WalkInv, Answer PROVE WalkInv'
    OBVIOUS
  <1> USE DEF WalkInv
  <1>1. /\ pc = "answer" /\ pc' = "idle" /\ query # NoQuery /\ page >= 1
        /\ UNCHANGED <<page, total, found, ownerless>> /\ listed' = listed \cup found
        /\ pages' = TotalPages(total, query.page_size)
        /\ repeats' = repeats + Cardinality(listed \cap found)
        /\ users' = users /\ tasks' = tasks /\ born' = born
        /\ UNCHANGED <<query, history>>
    BY DEF Answer, Stage, table
  <1>2. /\ query.page_size \in Nat \ {0} /\ total \in Nat
        /\ listed \cap found \in SUBSET Ids
    BY <1>1, QueryFields, Finite DEF TypeOK
  <1>3. TypeOK'
    <2>1. pages' \in Nat
      BY <1>1, <1>2, PagesHoldAll
    <2>2. repeats' \in Nat
      BY <1>1, <1>2, Finite DEF TypeOK
    <2>3. QED
      BY <1>1, <2>1, <2>2 DEF TypeOK, history
  <1>4. Matching(query)' = Matching(query) /\ Rest' = Rest
    <2>1. Covered' = Covered
      BY <1>1 DEF Covered
    <2>2. QED
      BY <1>1, <2>1, SameList DEF Rest
  <1>5. Stage'
    BY <1>1, <1>4 DEF Stage, history
  <1>6. Seen' = Seen /\ Again' = {} /\ Again = listed \cap found
    BY <1>1 DEF Seen, Again
  <1>7. Bounds'
    <2>1. repeats \in Nat /\ Cardinality(listed \cap found) \in Nat
      BY <1>2, Finite DEF TypeOK
    <2>2. Cardinality(Again') = 0
      BY <1>6, FS_EmptySet
    <2>3. Cardinality(Seen \cap Rest) \in Nat
      <3>1. Seen \cap Rest \in SUBSET Ids
        BY DEF Seen, TypeOK
      <3>2. QED
        BY <3>1, Finite
    <2>4. repeats' + Cardinality(Again') + Cardinality(Seen \cap Rest) =< arrived
      BY <1>1, <1>6, <2>1, <2>2, <2>3 DEF Bounds
    <2>5. QED
      BY <1>1, <1>4, <1>6, <2>4 DEF Bounds, history
  <1>8. QED
    BY <1>3, <1>5, <1>7

\* What another request commits enters the list or leaves it, and is counted.
LEMMA MeanwhileWalk ==
    ASSUME WalkInv, Meanwhile,
           users' \in [UserIds -> UserRows \cup {NoRow}],
           tasks' \in [TaskIds -> TaskRows \cup {NoRow}], born' \in SUBSET Ids
    PROVE  WalkInv'
  <1> USE DEF WalkInv
  <1> DEFINE S == Matching(query)
             T == Matching(query)'
             n == Covered
  <1>1. /\ UNCHANGED <<pc, query, page, total, found, ownerless, pages, listed, repeats>>
        /\ steady' = steady \cap T
        /\ arrived' = arrived + Cardinality(T \ S)
        /\ departed' = departed + Cardinality(S \ T)
    BY DEF Meanwhile, request, walk
  <1>2. S \in SUBSET Ids /\ T \in SUBSET Ids
    <2>1. \A q : Matching(q) \in SUBSET Ids
      BY MatchingIds
    <2>2. T \in SUBSET Ids
      BY DEF Matching, Ids
    <2>3. QED
      BY <2>1, <2>2
  <1>3. Seen' = Seen /\ Again' = Again /\ Covered' = n
    BY <1>1 DEF Seen, Again, Covered
  <1>4. Rest = Behind(n, S) /\ Rest' = Behind(n, T)
    BY <1>3 DEF Rest, Behind, Rank
  <1>s. query = NoQuery => S = {} /\ T = {}
    BY <1>1 DEF Matching
  <1>5. query # NoQuery => n \in Nat
    BY CoveredType
  <1> HIDE DEF S, T, n
  <1>6. /\ Cardinality(T \ S) \in Nat /\ Cardinality(S \ T) \in Nat
        /\ Cardinality(S) \in Nat /\ Cardinality(T) \in Nat
    <2>1. T \ S \in SUBSET Ids /\ S \ T \in SUBSET Ids
      BY <1>2
    <2>2. QED
      BY <1>2, <2>1, Finite
  <1>7. TypeOK'
    BY <1>1, <1>6 DEF TypeOK
  <1>8. steady \subseteq S /\ steady' \subseteq T
    BY <1>1 DEF Bounds, S
  <1>9. Cardinality(Seen \cap Rest') =< Cardinality(Seen \cap Rest) + Cardinality(T \ S)
    <2>1. CASE query = NoQuery
      <3>1. Rest' = {}
        BY <1>4, <1>s, <2>1 DEF Behind
      <3>0. Seen \cap Rest' = {}
        BY <3>1
      <3>e. Cardinality({}) = 0
        BY FS_EmptySet
      <3>2. Cardinality(Seen \cap Rest') = 0
        BY <3>0, <3>e
      <3>3. Seen \cap Rest \in SUBSET Ids
        BY DEF Seen, TypeOK
      <3>4. Cardinality(Seen \cap Rest) \in Nat
        BY <3>3, Finite
      <3>5. QED
        BY <3>2, <3>4, <1>6
    <2>2. CASE query # NoQuery
      BY <1>2, <1>4, <1>5, <2>2, BehindMoves
    <2>3. QED
      BY <2>1, <2>2
  <1>10. Cardinality((steady' \ Seen) \ Rest')
             =< Cardinality((steady \ Seen) \ Rest) + Cardinality(S \ T)
    <2>1. CASE query = NoQuery
      <3>1. steady' = {}
        BY <1>8, <1>s, <2>1
      <3>2. (steady' \ Seen) \ Rest' = {} /\ Cardinality({}) = 0
        BY <3>1, FS_EmptySet
      <3>3. (steady \ Seen) \ Rest \in SUBSET Ids
        BY DEF TypeOK
      <3>4. Cardinality((steady \ Seen) \ Rest) \in Nat
        BY <3>3, Finite
      <3>5. QED
        BY <3>2, <3>4, <1>6
    <2>2. CASE query # NoQuery
      <3> DEFINE V == steady \ Seen
      <3>1. Cardinality(((V \cap S) \cap T) \ Behind(n, T))
                =< Cardinality((V \cap S) \ Behind(n, S)) + Cardinality(S \ T)
        BY <1>2, <1>5, <2>2, BehindMoves
      <3>2. V \cap S = V /\ V \cap T = steady' \ Seen
        BY <1>1, <1>8
      <3>3. /\ ((V \cap S) \cap T) \ Behind(n, T) = (steady' \ Seen) \ Rest'
            /\ (V \cap S) \ Behind(n, S) = (steady \ Seen) \ Rest
        BY <1>4, <3>2
      <3>4. QED
        BY <3>1, <3>3
    <2>3. QED
      BY <2>1, <2>2
  <1>11. /\ Cardinality(Again) \in Nat /\ Cardinality(Seen \cap Rest) \in Nat
         /\ Cardinality(Seen \cap Rest') \in Nat
         /\ Cardinality((steady \ Seen) \ Rest) \in Nat
         /\ Cardinality((steady' \ Seen) \ Rest') \in Nat
    <2>1. /\ Again \in SUBSET Ids /\ Seen \cap Rest \in SUBSET Ids
          /\ Seen \cap Rest' \in SUBSET Ids
          /\ (steady \ Seen) \ Rest \in SUBSET Ids
          /\ (steady' \ Seen) \ Rest' \in SUBSET Ids
      BY <1>2, <1>8 DEF Seen, Again, TypeOK
    <2>2. QED
      BY <2>1, Finite
  <1>12. Bounds'
    <2>1. /\ repeats + Cardinality(Again) + Cardinality(Seen \cap Rest) =< arrived
          /\ Cardinality((steady \ Seen) \ Rest) =< departed
          /\ repeats \in Nat /\ arrived \in Nat /\ departed \in Nat
      BY DEF Bounds, TypeOK
    <2>2. repeats' + Cardinality(Again') + Cardinality(Seen' \cap Rest') =< arrived'
      <3>1. repeats + Cardinality(Again) + Cardinality(Seen \cap Rest')
                =< arrived + Cardinality(T \ S)
        BY <1>6, <1>9, <1>11, <2>1
      <3>2. QED
        BY <1>1, <1>3, <3>1
    <2>3. Cardinality((steady' \ Seen') \ Rest') =< departed'
      <3>1. Cardinality((steady' \ Seen) \ Rest') =< departed + Cardinality(S \ T)
        BY <1>6, <1>10, <1>11, <2>1
      <3>2. QED
        BY <1>1, <1>3, <3>1
    <2>4. steady' \subseteq Matching(query)'
      BY <1>8 DEF T
    <2>5. QED
      BY <2>2, <2>3, <2>4 DEF Bounds
  <1>13. Stage'
    <2>1. query # NoQuery /\ pc \notin {"start", "count"}
          => Cardinality(T) =< total' + arrived'
      <3>1. Cardinality(T) =< Cardinality(S) + Cardinality(T \ S)
        <4>1. T \subseteq S \cup (T \ S) /\ T \ S \in SUBSET Ids
          BY <1>2
        <4>2. QED
          BY <1>2, <4>1, AtMostSum
      <3>2. total \in Nat /\ arrived \in Nat
        BY Finite DEF TypeOK
      <3>3. query # NoQuery /\ pc \notin {"start", "count"}
            => Cardinality(S) =< total + arrived
        BY DEF Stage, S
      <3>4. QED
        BY <1>1, <1>6, <3>1, <3>2, <3>3
    <2>2. query' # NoQuery /\ pc' \notin {"start", "count"} =>
              Cardinality(Matching(query)') =< total' + arrived'
      BY <1>1, <2>1 DEF T
    <2>3. QED
      BY <1>1, <2>2 DEF Stage
  <1>14. QED
    BY <1>7, <1>12, <1>13

\* Every commit of another request is one that is counted.
LEMMA ChangeWalk == WalkInv /\ Change => WalkInv'
  <1> SUFFICES ASSUME WalkInv, Change PROVE WalkInv'
    OBVIOUS
  <1>1. /\ users \in [UserIds -> UserRows \cup {NoRow}]
        /\ tasks \in [TaskIds -> TaskRows \cup {NoRow}] /\ born \in SUBSET Ids
    BY DEF WalkInv, TypeOK
  <1>2. /\ UserChoices \subseteq UserRows /\ TaskChoices \subseteq TaskRows
        /\ OwnerId \in [TaskIds -> UserIds]
    BY RowsAssumption
  <1>3. \/ \E u \in UserIds : CreateUser(u) \/ AdminUpdateUser(u)
        \/ \E u \in UserIds : DeleteUser(u)
        \/ \E t \in TaskIds : CreateTask(t) \/ UpdateTask(t)
        \/ \E t \in TaskIds : DeleteTask(t)
    BY DEF Change
  <1>4. Meanwhile
    BY <1>3 DEF CreateUser, AdminUpdateUser, DeleteUser, CreateTask, UpdateTask, DeleteTask
  <1>5. /\ users' \in [UserIds -> UserRows \cup {NoRow}]
        /\ tasks' \in [TaskIds -> TaskRows \cup {NoRow}] /\ born' \in SUBSET Ids
    <2>1. CASE \E u \in UserIds : CreateUser(u) \/ AdminUpdateUser(u)
      BY <1>1, <1>2, <2>1 DEF CreateUser, AdminUpdateUser, Ids
    <2>2. CASE \E u \in UserIds : DeleteUser(u)
      BY <1>1, <2>2 DEF DeleteUser, Cascade
    <2>3. CASE \E t \in TaskIds : CreateTask(t) \/ UpdateTask(t)
      BY <1>1, <1>2, <2>3 DEF CreateTask, UpdateTask, Ids
    <2>4. CASE \E t \in TaskIds : DeleteTask(t)
      BY <1>1, <2>4 DEF DeleteTask
    <2>5. QED
      BY <1>3, <2>1, <2>2, <2>3, <2>4
  <1>6. QED
    BY <1>4, <1>5, MeanwhileWalk

\* The invariant holds whatever is listed and whatever others commit meanwhile.
THEOREM WalkInvariance == Spec => []WalkInv
  <1>1. Init => WalkInv
    <2> SUFFICES ASSUME Init PROVE WalkInv
      OBVIOUS
    <2>1. /\ pc = "idle" /\ query = NoQuery /\ page = 0 /\ total = 0 /\ pages = 0
          /\ found = {} /\ ownerless = {} /\ listed = {} /\ repeats = 0
          /\ steady = {} /\ arrived = 0 /\ departed = 0
      BY DEF Init
    <2>2. TypeOK
      <3>1. Cardinality(Ids) \in Nat
        BY Finite
      <3>2. QED
        BY <2>1, <3>1, RowsAssumption DEF Init, TypeOK, Ids
    <2>3. Bounds
      <3>1. Again = {} /\ Seen \cap Rest = {} /\ (steady \ Seen) \ Rest = {}
        BY <2>1 DEF Again, Seen
      <3>2. QED
        BY <2>1, <3>1, FS_EmptySet DEF Bounds
    <2>4. Stage
      BY <2>1 DEF Stage
    <2>5. QED
      BY <2>2, <2>3, <2>4 DEF WalkInv
  <1>2. WalkInv /\ [Next]_vars => WalkInv'
    <2>1. WalkInv /\ List => WalkInv'
      BY BeginWalk, NextWalk, AdmitWalk, CountWalk, SelectWalk, OwnersWalk, AnswerWalk
      DEF List, ListMyTasks, ListPublicTasks, AdminListAllTasks, AdminListUsers
    <2>2. WalkInv /\ UNCHANGED vars => WalkInv'
      <3> SUFFICES ASSUME WalkInv, UNCHANGED vars PROVE WalkInv'
        OBVIOUS
      <3>1. /\ users' = users /\ tasks' = tasks /\ born' = born
            /\ UNCHANGED <<pc, query, page, total, found, ownerless, walk, history>>
        BY DEF vars, table, request
      <3>2. Seen' = Seen /\ Again' = Again /\ Covered' = Covered
        BY <3>1 DEF Seen, Again, Covered, walk
      <3>3. Bounds'
        BY <3>1, <3>2, QuietStep
      <3>4. Matching(query)' = Matching(query)
        BY <3>1, SameList
      <3>5. TypeOK' /\ Stage'
        BY <3>1, <3>4 DEF WalkInv, TypeOK, Stage, walk, history
      <3>6. QED
        BY <3>3, <3>5 DEF WalkInv
    <2>3. QED
      BY <2>1, <2>2, ChangeWalk DEF Next
  <1>3. QED
    BY <1>1, <1>2, PTL DEF Spec

\* Every variable keeps its type; in particular no page has more rows than its size.
THEOREM TypeCorrect == Spec => []TypeOK
  BY WalkInvariance, PTL DEF WalkInv

\* No walk repeats more rows than have entered its list since it began
\* (task_service.py:62-68): departures and changes show no row twice.
THEOREM RepeatsAreArrivals == Spec => []NothingRepeated
  <1>1. WalkInv => NothingRepeated
    <2> SUFFICES ASSUME WalkInv PROVE repeats =< arrived
      BY DEF NothingRepeated
    <2>1. repeats + Cardinality(Again) + Cardinality(Seen \cap Rest) =< arrived
      BY DEF WalkInv, Bounds
    <2>2. Again \in SUBSET Ids /\ Seen \cap Rest \in SUBSET Ids
      BY DEF WalkInv, TypeOK, Again, Seen
    <2>3. /\ Cardinality(Again) \in Nat /\ Cardinality(Seen \cap Rest) \in Nat
          /\ repeats \in Nat /\ arrived \in Nat
      BY <2>2, Finite DEF WalkInv, TypeOK
    <2>4. QED
      BY <2>1, <2>3
  <1>2. QED
    BY <1>1, WalkInvariance, PTL

\* A walk to the last page misses no more rows than have entered or left its list
\* meanwhile, although the total is counted before the page is read
\* (task_service.py:62-68, tasks.py:57).
THEOREM LossesAreMoves == Spec => []NothingLost
  <1>1. WalkInv => NothingLost
    <2> SUFFICES ASSUME WalkInv, Walked
                 PROVE  Cardinality(steady \ listed) =< arrived + departed
      BY DEF NothingLost
    <2> DEFINE S == Matching(query)
    <2>1. /\ pc = "idle" /\ query # NoQuery /\ page >= pages /\ Stage /\ Bounds /\ TypeOK
      BY DEF Walked, WalkInv
    <2>2. /\ query.page_size \in Nat \ {0} /\ page \in Nat /\ pages \in Nat
          /\ total \in Nat /\ arrived \in Nat /\ departed \in Nat
      BY <2>1, QueryFields, Finite DEF TypeOK
    <2>3. Seen = listed
      BY <2>1 DEF Stage, Seen
    <2>4. Covered \in Nat /\ Covered >= total
      <3>1. pages = TotalPages(total, query.page_size)
        BY <2>1 DEF Stage
      <3>2. pages * query.page_size >= total
        BY <2>2, <3>1, PagesHoldAll
      <3>3. page * query.page_size >= pages * query.page_size
        <4>1. CASE page = pages
          BY <4>1, <2>2
        <4>2. CASE pages + 1 =< page
          <5>1. pages * query.page_size + query.page_size =< page * query.page_size
            BY <2>2, <4>2, Monotone
          <5>2. pages * query.page_size \in Nat /\ page * query.page_size \in Nat
            BY <2>2
          <5>3. QED
            BY <2>2, <5>1, <5>2
        <4>3. QED
          BY <4>1, <4>2, <2>1, <2>2
      <3>4. Covered = page * query.page_size
        BY <2>1, <2>2 DEF Covered, Offset
      <3>5. page * query.page_size \in Nat /\ pages * query.page_size \in Nat
        BY <2>2
      <3>6. QED
        BY <2>2, <3>2, <3>3, <3>4, <3>5
    <2>5. S \in SUBSET Ids /\ Cardinality(S) \in Nat /\ Cardinality(S) =< total + arrived
      BY <2>1, MatchingIds, Finite DEF Stage
    <2>6. Cardinality(Rest) =< arrived
      <3>1. Cardinality(Rest) = IF Cardinality(S) > Covered
                                THEN Cardinality(S) - Covered ELSE 0
        BY <2>4, <2>5, RowsBehind DEF Rest
      <3> HIDE DEF S
      <3>2. QED
        BY <2>2, <2>4, <2>5, <3>1
    <2>7. Cardinality((steady \ listed) \ Rest) =< departed
      BY <2>1, <2>3 DEF Bounds
    <2> DEFINE gone == (steady \ listed) \ Rest
    <2>8. /\ steady \ listed \subseteq gone \cup Rest
          /\ steady \ listed \in SUBSET Ids /\ gone \in SUBSET Ids
      BY <2>1 DEF TypeOK
    <2>9. Rest \in SUBSET Ids
      BY <2>5 DEF Rest, Behind
    <2>10. Cardinality(steady \ listed) =< Cardinality(gone) + Cardinality(Rest)
      <3> HIDE DEF gone
      <3>1. QED
        BY <2>8, <2>9, AtMostSum
    <2>11. /\ Cardinality(gone) \in Nat /\ Cardinality(Rest) \in Nat
           /\ Cardinality(steady \ listed) \in Nat
      BY <2>8, <2>9, Finite
    <2>12. QED
      BY <2>2, <2>6, <2>7, <2>10, <2>11
  <1>2. QED
    BY <1>1, WalkInvariance, PTL

=============================================================================
