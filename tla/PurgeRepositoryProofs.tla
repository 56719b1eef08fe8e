----------------------- MODULE PurgeRepositoryProofs -----------------------
(***************************************************************************)
(* The safety properties of a purge of one repository, for every set of    *)
(* tags and manifests, every size of a page, every --keep, whatever other  *)
(* clients do and whatever fails.                                          *)
(***************************************************************************)
EXTENDS PurgeRepository, FiniteSetTheorems, SequenceTheorems, TLAPS

-----------------------------------------------------------------------------
(***************************************************************************)
(* The first n members of a finite set in a strict total order R.          *)
(***************************************************************************)

StrictOrder(R, S) ==
    /\ \A x \in S : <<x, x>> \notin R
    /\ \A x, y, z \in S : <<x, y>> \in R /\ <<y, z>> \in R => <<x, z>> \in R
    /\ \A x, y \in S : x # y => <<x, y>> \in R \/ <<y, x>> \in R

Before(R, S, x) == {y \in S : <<y, x>> \in R}

FirstOf(R, S, n) == {x \in S : Cardinality(Before(R, S, x)) < n}

\* A member has fewer members before it than there are, and fewer than one
\* behind it has.
LEMMA BeforeGrows ==
    ASSUME NEW S, NEW R, IsFiniteSet(S), StrictOrder(R, S), NEW x \in S
    PROVE  /\ Cardinality(S) \in Nat /\ Cardinality(Before(R, S, x)) \in Nat
           /\ Cardinality(Before(R, S, x)) < Cardinality(S)
           /\ \A y \in S : <<x, y>> \in R =>
                 Cardinality(Before(R, S, x)) < Cardinality(Before(R, S, y))
<1>1. \A y \in S : IsFiniteSet(Before(R, S, y)) /\ Cardinality(Before(R, S, y)) \in Nat
  BY FS_Subset, FS_CardinalityType DEF Before
<1>2. Cardinality(S) \in Nat
  BY FS_CardinalityType
<1>3. Cardinality(Before(R, S, x)) < Cardinality(S)
  <2>1. Before(R, S, x) \in SUBSET S /\ x \notin Before(R, S, x)
    BY DEF Before, StrictOrder
  <2>2. QED  BY <1>1, <1>2, <2>1, FS_Subset
<1>4. ASSUME NEW y \in S, <<x, y>> \in R
      PROVE  Cardinality(Before(R, S, x)) < Cardinality(Before(R, S, y))
  <2>1. Before(R, S, x) \in SUBSET Before(R, S, y)
    BY <1>4 DEF Before, StrictOrder
  <2>2. x \in Before(R, S, y) /\ x \notin Before(R, S, x)
    BY <1>4 DEF Before, StrictOrder
  <2>3. QED  BY <1>1, <2>1, <2>2, FS_Subset
<1>5. QED  BY <1>1, <1>2, <1>3, <1>4

\* Each number below the size of the set is that of the members before one.
LEMMA EachRankIsTaken ==
    ASSUME NEW S, NEW R, IsFiniteSet(S), StrictOrder(R, S), NEW n \in Nat, n < Cardinality(S)
    PROVE  \E x \in S : Cardinality(Before(R, S, x)) = n
<1> DEFINE N == Cardinality(S)
           rank == [x \in S |-> Cardinality(Before(R, S, x)) + 1]
<1>1. N \in Nat
  BY FS_CardinalityType
<1>2. rank \in [S -> 1..N]
  BY <1>1, BeforeGrows
<1>3. \A x, y \in S : rank[x] = rank[y] => x = y
  <2>1. SUFFICES ASSUME NEW x \in S, NEW y \in S, x # y  PROVE rank[x] # rank[y]
    OBVIOUS
  <2>2. CASE <<x, y>> \in R
    BY <2>2, BeforeGrows
  <2>3. CASE <<y, x>> \in R
    BY <2>3, BeforeGrows
  <2>4. QED  BY <2>1, <2>2, <2>3 DEF StrictOrder
<1>4. rank \in Injection(S, 1..N)
  BY <1>2, <1>3 DEF Injection, IsInjective
<1>5. IsFiniteSet(1..N) /\ Cardinality(1..N) = N
  BY <1>1, FS_Interval
<1>6. rank \in Surjection(S, 1..N)
  BY <1>4, <1>5, FS_Injection
<1>7. PICK x \in S : rank[x] = n + 1
  <2>1. \A k \in 1..N : \E x \in S : rank[x] = k
    BY <1>6 DEF Surjection
  <2>2. n + 1 \in 1..N
    BY <1>1
  <2>3. QED  BY <2>1, <2>2
<1>8. Cardinality(Before(R, S, x)) + 1 = n + 1 /\ Cardinality(Before(R, S, x)) \in Nat
  BY <1>7, BeforeGrows
<1>9. QED  BY <1>8

\* The first n are before the others; they are n, or all there are.
LEMMA FirstAreFirst ==
    ASSUME NEW S, NEW R, IsFiniteSet(S), StrictOrder(R, S), NEW n \in Int
    PROVE  LET F == FirstOf(R, S, n)
           IN  /\ F \subseteq S /\ IsFiniteSet(F) /\ Cardinality(F) \in Nat
               /\ \A x \in F, y \in S \ F : <<x, y>> \in R
               /\ n <= 0 => F = {}
               /\ n >= Cardinality(S) => F = S
               /\ n >= 0 => Cardinality(F) <= n
               /\ 0 <= n /\ n <= Cardinality(S) => Cardinality(F) = n
<1> DEFINE F == FirstOf(R, S, n)
<1>1. F \subseteq S /\ IsFiniteSet(F) /\ Cardinality(F) \in Nat /\ Cardinality(S) \in Nat
  BY FS_Subset, FS_CardinalityType DEF FirstOf
<1>2. ASSUME NEW x \in F, NEW y \in S \ F  PROVE <<x, y>> \in R
  <2>1. x \in S /\ y \in S /\ x # y
    BY <1>1
  <2>2. Cardinality(Before(R, S, x)) < n /\ ~(Cardinality(Before(R, S, y)) < n)
    BY <1>1 DEF FirstOf
  <2>3. ~(<<y, x>> \in R)
    BY <2>1, <2>2, BeforeGrows
  <2>4. QED  BY <2>1, <2>3 DEF StrictOrder
<1>3. n <= 0 => F = {}
  BY BeforeGrows DEF FirstOf
<1>4. n >= Cardinality(S) => F = S
  BY BeforeGrows DEF FirstOf
<1>5. ASSUME 0 <= n, n < Cardinality(S)  PROVE Cardinality(F) = n
  <2>1. PICK m \in S : Cardinality(Before(R, S, m)) = n
    BY <1>5, EachRankIsTaken
  <2>2. ASSUME NEW x \in S
        PROVE  Cardinality(Before(R, S, x)) < n <=> <<x, m>> \in R
    <3>1. CASE <<x, m>> \in R
      BY <2>1, <3>1, BeforeGrows
    <3>2. CASE x = m
      BY <2>1, <3>2 DEF StrictOrder
    <3>3. CASE <<m, x>> \in R
      <4>1. n < Cardinality(Before(R, S, x)) /\ Cardinality(Before(R, S, x)) \in Nat
        BY <2>1, <3>3, BeforeGrows
      <4>2. ~(<<x, m>> \in R)
        BY <3>3 DEF StrictOrder
      <4>3. QED  BY <4>1, <4>2
    <3>4. QED  BY <3>1, <3>2, <3>3 DEF StrictOrder
  <2>3. F = Before(R, S, m)
    BY <2>2 DEF FirstOf, Before
  <2>4. QED  BY <2>1, <2>3
<1>6. n = Cardinality(S) => Cardinality(F) = n
  BY <1>1, <1>4
<1>7. n >= 0 => Cardinality(F) <= n
  <2>1. CASE n > Cardinality(S)
    BY <1>1, <1>4, <2>1
  <2>2. CASE n <= Cardinality(S)
    BY <1>1, <1>5, <1>6, <2>2
  <2>3. QED  BY <1>1, <2>1, <2>2
<1>8. QED  BY <1>1, <1>2, <1>3, <1>4, <1>5, <1>6, <1>7

\* No other n members are before the others.
LEMMA FirstAreUnique ==
    ASSUME NEW S, NEW R, IsFiniteSet(S), StrictOrder(R, S),
           NEW n \in Nat, n <= Cardinality(S),
           NEW K \in SUBSET S, Cardinality(K) = n, \A x \in K, y \in S \ K : <<x, y>> \in R
    PROVE  K = FirstOf(R, S, n)
<1> DEFINE F == FirstOf(R, S, n)
<1>1. /\ F \subseteq S /\ IsFiniteSet(F) /\ Cardinality(F) = n
      /\ \A x \in F, y \in S \ F : <<x, y>> \in R
  BY FirstAreFirst
<1>2. IsFiniteSet(K)
  BY FS_Subset
<1> HIDE DEF F
<1>3. K \subseteq F \/ F \subseteq K
  <2>1. SUFFICES ASSUME NEW x \in K \ F, NEW y \in F \ K  PROVE FALSE
    OBVIOUS
  <2>2. <<x, y>> \in R /\ <<y, x>> \in R
    BY <1>1
  <2>3. QED  BY <1>1, <2>2 DEF StrictOrder
<1>4. QED  BY <1>1, <1>2, <1>3, FS_Subset DEF F

-----------------------------------------------------------------------------
(***************************************************************************)
(* The invariants of purgeTags: what has been listed is behind the cursor, *)
(* what is kept is before what is chosen, and what is settled and counted  *)
(* is gone.                                                                *)
(***************************************************************************)

Positions == 1..Len(repo.order)
AllTagsListed == TagsAt(Positions)

TagInv ==
    /\ repo \in Repos
    /\ present \subseteq AllTagsListed
    /\ pc \in {"list", "purge", "returned"}
    /\ cursor \in Nat /\ cursor <= Len(repo.order)
    /\ kept \subseteq TagsAt(1..cursor) /\ chosen \subseteq TagsAt(1..cursor)
    /\ kept \cap chosen = {}
    /\ batch \subseteq chosen /\ (pc # "purge" => batch = {})
    /\ hit \in Nat /\ count \in Nat
    /\ repo.dryRun => pc # "purge"

KeepInv ==
    /\ repo.keep <= 0 => kept = {}
    /\ repo.keep > 0 => Cardinality(kept) <= repo.keep
    /\ repo.keep > 0 /\ chosen # {} => Cardinality(kept) = repo.keep
    /\ repo.keep > 0 => \A u \in kept, t \in chosen : Newer(u, t)

HitInv ==
    ~repo.dryRun =>
        count + (IF pc = "purge" THEN hit ELSE 0) <= Cardinality((chosen \ batch) \ present)

TagsInv == TagInv /\ KeepInv /\ HitInv

(***************************************************************************)
(* The invariants of the manifests: what is deleted is in queue no more,   *)
(* was selected when no tag referred to it, and no tag does since.         *)
(***************************************************************************)

StoreInv ==
    /\ store \in Stores
    /\ stage \in {"tags", "manifests", "deleting", "returned"}
    /\ stage \in {"tags", "manifests"} => selected = {}
    /\ selected \in {{}, M!Selected(Scanned)}
    /\ queue \subseteq doomed /\ doomed \subseteq selected
    /\ M!Listed(store) \ doomed \subseteq manifests /\ manifests \subseteq M!Listed(store)
    /\ queue \subseteq manifests
    /\ repo.dryRun => stage # "deleting" /\ manifests = M!Listed(store)

DeletedInv ==
    /\ deleted \in Nat /\ manifestCount \in Nat
    /\ stage \in {"tags", "manifests"} => deleted = 0 /\ manifestCount = 0
    /\ stage = "deleting" => manifestCount = 0
    /\ ~repo.dryRun => /\ deleted <= Cardinality((doomed \ queue) \ manifests)
                       /\ manifestCount <= Cardinality(doomed \ manifests)

RepositoryInv == TagsInv /\ StoreInv /\ DeletedInv

(***************************************************************************)
(* A run that nobody disturbs.                                             *)
(***************************************************************************)

Alone == ~repo.interference /\ ~repo.faults

\* The positions of what may be deleted, and how many of them are before i.
Candidates ==
    {i \in Positions : /\ repo.order[i] \in repo.matching \cap repo.old
                       /\ repo.includeLocked \/ repo.order[i] \notin repo.locked}
Rank(i) == Cardinality({j \in Candidates : j < i})

\* Those up to position c, the first keep of all of them, and the others.
CandidatesTo(c) == {i \in Candidates : i <= c}
KeptTo(c) == {i \in Candidates : i <= c /\ Rank(i) < repo.keep}
ChosenTo(c) == {i \in Candidates : i <= c /\ Rank(i) >= repo.keep}

AloneTags ==
    /\ fresh = {} /\ ~erred /\ ~failed
    /\ locked = repo.locked \cap present
    /\ kept = TagsAt(KeptTo(cursor)) /\ chosen = TagsAt(ChosenTo(cursor))
    /\ AllTagsListed \ present = IF repo.dryRun THEN {} ELSE chosen \ batch
    /\ count + (IF pc = "purge" THEN hit ELSE 0) = Cardinality(chosen \ batch)
    /\ pc = "purge" => batch \cap locked \subseteq unlock
    /\ ~more \/ pc = "returned" => cursor = Len(repo.order)

AloneStore ==
    /\ stage = "tags" => manifestCount = 0
    /\ stage = "tags" /\ store.untaggedOnly => chosen = {} /\ count = 0
    /\ stage # "tags" =>
        /\ chosen = TagsToGo /\ count = Cardinality(TagsToGo) /\ batch = {}
        /\ AllTagsListed \ present = IF repo.dryRun THEN {} ELSE TagsToGo
    /\ ~batchErred /\ ~manifestsFailed
    /\ stage = "manifests" => store.removeUntagged
    /\ stage = "deleting" => store.removeUntagged /\ doomed = ManifestsToGo /\ ~repo.dryRun
    /\ stage \in {"tags", "manifests", "deleting"} =>
        M!Listed(store) \ manifests = doomed \ queue /\ deleted = Cardinality(doomed \ queue)
    /\ stage = "returned" =>
        /\ manifestCount = Cardinality(ManifestsToGo)
        /\ M!Listed(store) \ manifests = IF repo.dryRun THEN {} ELSE ManifestsToGo

AloneInv == Alone => AloneTags /\ AloneStore

-----------------------------------------------------------------------------
(***************************************************************************)
(* Positions of a listing.                                                 *)
(***************************************************************************)

LEMMA OrderIsInjective ==
    ASSUME repo \in Repos
    PROVE  /\ Len(repo.order) \in Nat /\ repo.keep \in Int
           /\ repo.order \in [Positions -> Tag]
           /\ Positions \subseteq Int /\ IsFiniteSet(Positions)
           /\ \A i, j \in Positions : repo.order[i] = repo.order[j] => i = j
           /\ repo.dryRun \in BOOLEAN
<1>1. repo \in Repository
  BY PurgeTagsAssumption
<1>2. repo.order \in Seq(Tag) /\ repo.keep \in Int /\ repo.dryRun \in BOOLEAN
  BY <1>1 DEF Repository
<1>3. Len(repo.order) \in Nat /\ repo.order \in [Positions -> Tag]
  BY <1>2, LenProperties DEF Positions
<1>4. Positions \subseteq Int /\ IsFiniteSet(Positions)
  BY <1>3, FS_Interval DEF Positions
<1>5. \A i, j \in Positions : repo.order[i] = repo.order[j] => i = j
  BY PurgeTagsAssumption DEF Positions
<1>6. QED  BY <1>2, <1>3, <1>4, <1>5

\* As many tags as positions.
LEMMA TagsAtCount ==
    ASSUME repo \in Repos, NEW S \in SUBSET Positions
    PROVE  /\ IsFiniteSet(S) /\ IsFiniteSet(TagsAt(S))
           /\ Cardinality(TagsAt(S)) = Cardinality(S) /\ Cardinality(S) \in Nat
<1>1. IsFiniteSet(S) /\ Cardinality(S) \in Nat
  BY OrderIsInjective, FS_Subset, FS_CardinalityType
<1> DEFINE f == [i \in S |-> repo.order[i]]
<1>2. f \in [S -> TagsAt(S)]
  BY DEF TagsAt
<1>3. \A i, j \in S : f[i] = f[j] => i = j
  BY OrderIsInjective
<1>4. \A t \in TagsAt(S) : \E i \in S : f[i] = t
  BY DEF TagsAt
<1>5. f \in Bijection(S, TagsAt(S))
  BY <1>2, <1>3, <1>4 DEF Bijection, Injection, Surjection, IsInjective
<1>6. QED  BY <1>1, <1>5, FS_Bijection DEF ExistsBijection

Less(S) == {p \in S \X S : p[1] < p[2]}

LEMMA LessIsAnOrder ==
    ASSUME NEW S \in SUBSET Int
    PROVE  /\ StrictOrder(Less(S), S)
           /\ \A x, y \in S : <<x, y>> \in Less(S) <=> x < y
           /\ \A x \in S : Before(Less(S), S, x) = {y \in S : y < x}
<1>1. \A x, y \in S : <<x, y>> \in Less(S) <=> x < y
  BY DEF Less
<1>2. \A x \in S : ~(x < x)
  OBVIOUS
<1>3. ASSUME NEW x \in S, NEW y \in S, NEW z \in S, x < y, y < z  PROVE x < z
  BY <1>3
<1>4. ASSUME NEW x \in S, NEW y \in S, x # y  PROVE x < y \/ y < x
  BY <1>4
<1>5. StrictOrder(Less(S), S)
  BY <1>1, <1>2, <1>3, <1>4 DEF StrictOrder
<1>6. \A x \in S : Before(Less(S), S, x) = {y \in S : y < x}
  BY <1>1 DEF Before
<1>7. QED  BY <1>1, <1>5, <1>6

\* The foremost n are the first n of the order.
LEMMA ForemostAreFirst ==
    ASSUME NEW S \in SUBSET Int, IsFiniteSet(S), NEW n \in Int
    PROVE  LET F == Foremost(S, n)
           IN  /\ F \subseteq S /\ IsFiniteSet(F) /\ Cardinality(F) \in Nat
               /\ \A i \in F, j \in S \ F : i < j
               /\ \A i \in S : i \in F <=> Cardinality({j \in S : j < i}) < n
               /\ n <= 0 => F = {}
               /\ n >= Cardinality(S) => F = S
               /\ n >= 0 => Cardinality(F) <= n
               /\ 0 <= n /\ n <= Cardinality(S) => Cardinality(F) = n
<1> DEFINE R == Less(S)
<1>1. /\ StrictOrder(R, S) /\ \A x, y \in S : <<x, y>> \in R <=> x < y
      /\ \A x \in S : Before(R, S, x) = {y \in S : y < x}
  BY LessIsAnOrder
<1>2. ASSUME NEW i \in S
      PROVE  Cardinality({j \in S : j <= i}) <= n <=> Cardinality({j \in S : j < i}) < n
  <2>1. {j \in S : j <= i} = {j \in S : j < i} \cup {i}
    <3>1. \A j \in S : j <= i <=> j < i \/ j = i
      OBVIOUS
    <3>2. QED  BY <3>1
  <2>2. IsFiniteSet({j \in S : j < i}) /\ i \notin {j \in S : j < i}
    BY FS_Subset
  <2>3. Cardinality({j \in S : j <= i}) = Cardinality({j \in S : j < i}) + 1
    BY <2>1, <2>2, FS_AddElement
  <2>4. Cardinality({j \in S : j < i}) \in Nat
    BY <2>2, FS_CardinalityType
  <2>5. QED  BY <2>3, <2>4
<1>3. Foremost(S, n) = FirstOf(R, S, n)
  BY <1>1, <1>2 DEF Foremost, FirstOf
<1>4. \A i \in S : i \in Foremost(S, n) <=> Cardinality({j \in S : j < i}) < n
  BY <1>2 DEF Foremost
<1> HIDE DEF R
<1>5. LET F == FirstOf(R, S, n)
      IN  /\ F \subseteq S /\ IsFiniteSet(F) /\ Cardinality(F) \in Nat
          /\ \A x \in F, y \in S \ F : <<x, y>> \in R
          /\ n <= 0 => F = {}
          /\ n >= Cardinality(S) => F = S
          /\ n >= 0 => Cardinality(F) <= n
          /\ 0 <= n /\ n <= Cardinality(S) => Cardinality(F) = n
  BY <1>1, FirstAreFirst
<1>6. QED  BY <1>1, <1>3, <1>4, <1>5

LEMMA MaxIsLast ==
    ASSUME NEW S \in SUBSET Int, IsFiniteSet(S), S # {}
    PROVE  Max(S) \in S /\ \A i \in S : i <= Max(S)
<1>1. Cardinality(S) \in Nat /\ Cardinality(S) # 0
  BY FS_CardinalityType, FS_EmptySet
<1>2. StrictOrder(Less(S), S) /\ \A x, y \in S : <<x, y>> \in Less(S) <=> x < y
  BY LessIsAnOrder
<1>3. PICK m \in S : Cardinality(Before(Less(S), S, m)) = Cardinality(S) - 1
  BY <1>1, <1>2, EachRankIsTaken
<1>4. ASSUME NEW i \in S  PROVE i <= m
  <2>1. SUFFICES ASSUME m < i  PROVE FALSE
    OBVIOUS
  <2>2. <<m, i>> \in Less(S)
    BY <1>2, <2>1
  <2>3. /\ Cardinality(Before(Less(S), S, m)) < Cardinality(Before(Less(S), S, i))
        /\ Cardinality(Before(Less(S), S, i)) < Cardinality(S)
        /\ Cardinality(Before(Less(S), S, i)) \in Nat
    BY <1>2, <2>2, BeforeGrows
  <2>4. QED  BY <1>1, <1>3, <2>3
<1>5. \E x \in S : \A y \in S : x >= y
  BY <1>4
<1>6. Max(S) \in S /\ \A y \in S : Max(S) >= y
  BY <1>5 DEF Max
<1>7. QED  BY <1>6

\* A page has what is listed up to its last position, which is the cursor.
LEMMA PageIsPrefix ==
    ASSUME TagInv
    PROVE  /\ Page \subseteq Behind /\ Behind \subseteq cursor + 1 .. Len(repo.order)
           /\ Behind \subseteq Positions /\ IsFiniteSet(Page)
           /\ Page = {} => Behind = {}
           /\ Page # {} =>
                /\ Max(Page) \in Page /\ Max(Page) \in Positions /\ cursor < Max(Page)
                /\ \A i \in Page : i <= Max(Page)
                /\ \A i \in Behind : i <= Max(Page) => i \in Page
<1>1. Len(repo.order) \in Nat /\ cursor \in Nat /\ PageSize \in Nat \ {0}
  BY OrderIsInjective, PurgeTagsAssumption DEF TagInv
<1>2. Behind \subseteq cursor + 1 .. Len(repo.order) /\ Behind \subseteq Positions
  BY <1>1 DEF Behind, Positions
<1>3. Behind \in SUBSET Int /\ IsFiniteSet(Behind)
  BY <1>2, OrderIsInjective, FS_Subset DEF TagInv
<1>4. /\ Page \subseteq Behind /\ IsFiniteSet(Page)
      /\ \A i \in Page, j \in Behind \ Page : i < j
      /\ PageSize >= Cardinality(Behind) => Page = Behind
      /\ PageSize <= Cardinality(Behind) => Cardinality(Page) = PageSize
  <2> DEFINE B == Behind
  <2>1. PageSize \in Int /\ 0 <= PageSize
    BY <1>1
  <2>2. B \in SUBSET Int /\ IsFiniteSet(B)
    BY <1>3
  <2> HIDE DEF B
  <2>3. LET F == Foremost(B, PageSize)
        IN  /\ F \subseteq B /\ IsFiniteSet(F)
            /\ \A i \in F, j \in B \ F : i < j
            /\ PageSize >= Cardinality(B) => F = B
            /\ PageSize <= Cardinality(B) => Cardinality(F) = PageSize
    BY <2>1, <2>2, ForemostAreFirst
  <2>4. QED  BY <2>3 DEF B, Page
<1>5. ASSUME Page = {}  PROVE Behind = {}
  <2>1. Cardinality(Page) = 0 /\ Cardinality(Behind) \in Nat
    BY <1>3, <1>5, FS_EmptySet, FS_CardinalityType
  <2>2. QED  BY <1>1, <1>4, <1>5, <2>1
<1>6. ASSUME Page # {}
      PROVE  /\ Max(Page) \in Page /\ Max(Page) \in Positions /\ cursor < Max(Page)
             /\ \A i \in Page : i <= Max(Page)
             /\ \A i \in Behind : i <= Max(Page) => i \in Page
  <2>1. Max(Page) \in Page /\ \A i \in Page : i <= Max(Page)
    BY <1>3, <1>4, <1>6, MaxIsLast
  <2>2. Max(Page) \in cursor + 1 .. Len(repo.order) /\ Max(Page) \in Positions
    BY <1>2, <1>4, <2>1
  <2>3. ASSUME NEW i \in Behind, i <= Max(Page)  PROVE i \in Page
    <3>1. SUFFICES ASSUME i \notin Page  PROVE FALSE
      OBVIOUS
    <3>2. Max(Page) < i /\ i \in Int /\ Max(Page) \in Int
      BY <1>3, <1>4, <2>1, <3>1
    <3>3. QED  BY <2>3, <3>2
  <2>4. QED  BY <1>1, <2>1, <2>2, <2>3
<1>7. QED  BY <1>2, <1>4, <1>5, <1>6

-----------------------------------------------------------------------------
(***************************************************************************)
(* The steps of purgeTags and of the other clients.                        *)
(***************************************************************************)

LEMMA KeptAndChosenFinite ==
    ASSUME TagInv
    PROVE  /\ IsFiniteSet(kept) /\ IsFiniteSet(chosen)
           /\ IsFiniteSet(present) /\ IsFiniteSet(AllTagsListed)
           /\ kept \subseteq AllTagsListed /\ chosen \subseteq AllTagsListed
           /\ Cardinality(kept) \in Nat /\ Cardinality(chosen) \in Nat
<1>1. IsFiniteSet(AllTagsListed)
  BY TagsAtCount DEF AllTagsListed, TagInv
<1>2. 1..cursor \subseteq Positions
  BY OrderIsInjective DEF TagInv, Positions
<1>3. kept \subseteq AllTagsListed /\ chosen \subseteq AllTagsListed /\ present \subseteq AllTagsListed
  BY <1>2 DEF TagInv, TagsAt, AllTagsListed
<1>4. QED  BY <1>1, <1>3, FS_Subset, FS_CardinalityType

\* What a page adds: the positions skipped and those to be deleted.
ToDelete == EligibleOnPage \ SkippedOnPage

\* The page is skipped as far as the tags kept before leave room.
LEMMA SkippedAreForemost ==
    ASSUME TagInv
    PROVE  LET n == repo.keep - Cardinality(kept)
           IN  /\ n \in Int
               /\ EligibleOnPage \subseteq Positions /\ IsFiniteSet(EligibleOnPage)
               /\ Cardinality(EligibleOnPage) \in Nat
               /\ SkippedOnPage \subseteq EligibleOnPage
               /\ \A i \in SkippedOnPage, j \in ToDelete : i < j
               /\ \A i \in EligibleOnPage :
                     i \in SkippedOnPage <=> Cardinality({j \in EligibleOnPage : j < i}) < n
               /\ n <= 0 => SkippedOnPage = {}
               /\ n >= Cardinality(EligibleOnPage) => SkippedOnPage = EligibleOnPage
               /\ n >= 0 => Cardinality(SkippedOnPage) <= n
               /\ 0 <= n /\ n <= Cardinality(EligibleOnPage) => Cardinality(SkippedOnPage) = n
<1> DEFINE n == repo.keep - Cardinality(kept)
           B == EligibleOnPage
<1>1. n \in Int
  BY KeptAndChosenFinite, OrderIsInjective DEF TagInv
<1>2. B \in SUBSET Positions
  BY PageIsPrefix DEF EligibleOnPage
<1> HIDE DEF B, n
<1>3. B \in SUBSET Int /\ IsFiniteSet(B) /\ Cardinality(B) \in Nat
  BY <1>2, TagsAtCount, OrderIsInjective DEF TagInv
<1>4. LET F == Foremost(B, n)
      IN  /\ F \subseteq B
          /\ \A i \in F, j \in B \ F : i < j
          /\ \A i \in B : i \in F <=> Cardinality({j \in B : j < i}) < n
          /\ n <= 0 => F = {}
          /\ n >= Cardinality(B) => F = B
          /\ n >= 0 => Cardinality(F) <= n
          /\ 0 <= n /\ n <= Cardinality(B) => Cardinality(F) = n
  BY <1>1, <1>3, ForemostAreFirst
<1>5. QED  BY <1>1, <1>2, <1>3, <1>4 DEF B, n, SkippedOnPage, ToDelete

LEMMA ListPageAdds ==
    ASSUME TagsInv, ListPage
    PROVE  /\ cursor' \in Nat /\ cursor < cursor' /\ cursor' <= Len(repo.order)
           /\ repo' = repo /\ present' = present
           /\ kept' = kept \cup TagsAt(SkippedOnPage)
           /\ chosen' = chosen \cup TagsAt(ToDelete)
           /\ SkippedOnPage \subseteq cursor + 1 .. cursor' /\ SkippedOnPage \subseteq Positions
           /\ ToDelete \subseteq cursor + 1 .. cursor' /\ ToDelete \subseteq Positions
           /\ (kept \cup chosen) \cap (TagsAt(SkippedOnPage) \cup TagsAt(ToDelete)) = {}
           /\ TagsAt(SkippedOnPage) \cap TagsAt(ToDelete) = {}
           /\ \A i \in SkippedOnPage, j \in ToDelete : i < j
<1>1. TagInv /\ Page # {} /\ cursor' = Max(Page)
  BY DEF TagsInv, ListPage
<1>2. /\ cursor \in Nat /\ Len(repo.order) \in Nat /\ repo.keep \in Int
      /\ \A i, j \in Positions : repo.order[i] = repo.order[j] => i = j
      /\ repo' = repo /\ present' = present
  BY <1>1, OrderIsInjective DEF TagInv, ListPage, registryVars
<1>3. /\ cursor' \in Positions /\ cursor < cursor' /\ \A i \in Page : i <= cursor'
      /\ Page \subseteq cursor + 1 .. Len(repo.order) /\ Page \subseteq Positions
      /\ IsFiniteSet(Page)
  BY <1>1, PageIsPrefix
<1>4. EligibleOnPage \subseteq cursor + 1 .. cursor' /\ EligibleOnPage \subseteq Positions
  <2>1. EligibleOnPage \subseteq Page
    BY DEF EligibleOnPage
  <2>2. cursor' \in Int
    BY <1>2, <1>3 DEF Positions
  <2>3. \A i \in Page : i \in cursor + 1 .. cursor'
    BY <1>2, <1>3, <2>2
  <2>4. QED  BY <1>3, <2>1, <2>3
<1>5. /\ SkippedOnPage \subseteq EligibleOnPage
      /\ \A i \in SkippedOnPage, j \in ToDelete : i < j
  BY <1>1, SkippedAreForemost
<1>6. /\ kept' = kept \cup TagsAt(SkippedOnPage) /\ chosen' = chosen \cup TagsAt(ToDelete)
  BY DEF ListPage, ToDelete
<1>7. ToDelete \subseteq EligibleOnPage
  BY DEF ToDelete
<1>8. \A i \in EligibleOnPage : repo.order[i] \notin TagsAt(1..cursor)
  <2>1. SUFFICES ASSUME NEW i \in EligibleOnPage, NEW j \in 1..cursor,
                        repo.order[j] = repo.order[i]
                 PROVE  FALSE
    BY DEF TagsAt
  <2>2. i \in Positions /\ i > cursor /\ i \in Int
    BY <1>2, <1>4 DEF Positions
  <2>3. j \in Positions /\ j < i
    BY <1>2, <2>2, <2>1, <1>1 DEF Positions, TagInv
  <2>4. QED  BY <1>2, <2>1, <2>2, <2>3
<1>9. (kept \cup chosen) \cap (TagsAt(SkippedOnPage) \cup TagsAt(ToDelete)) = {}
  <2>1. (kept \cup chosen) \subseteq TagsAt(1..cursor)
    BY <1>1 DEF TagInv
  <2>2. \A t \in TagsAt(SkippedOnPage) \cup TagsAt(ToDelete) : t \notin TagsAt(1..cursor)
    BY <1>5, <1>7, <1>8 DEF TagsAt
  <2>3. QED  BY <2>1, <2>2
<1>10. TagsAt(SkippedOnPage) \cap TagsAt(ToDelete) = {}
  BY <1>2, <1>4, <1>5 DEF TagsAt, ToDelete
<1>11. cursor' \in Nat /\ cursor' <= Len(repo.order)
  BY <1>2, <1>3 DEF Positions
<1>12. QED  BY <1>2, <1>3, <1>4, <1>5, <1>6, <1>7, <1>9, <1>10, <1>11

LEMMA ListPageTagInv == TagsInv /\ ListPage => TagInv'
<1> SUFFICES ASSUME TagsInv, ListPage  PROVE TagInv'
  OBVIOUS
<1>1. TagInv /\ pc = "list"
  BY DEF TagsInv, ListPage
<1> DEFINE T == TagsAt(ToDelete)
           K == TagsAt(SkippedOnPage)
<1>2. /\ cursor' \in Nat /\ cursor < cursor' /\ cursor' <= Len(repo.order)
      /\ repo' = repo /\ present' = present
      /\ kept' = kept \cup K /\ chosen' = chosen \cup T
      /\ SkippedOnPage \subseteq cursor + 1 .. cursor' /\ ToDelete \subseteq cursor + 1 .. cursor'
      /\ (kept \cup chosen) \cap (K \cup T) = {} /\ K \cap T = {}
      /\ ToDelete \subseteq Positions
  BY ListPageAdds
<1>3. kept' \subseteq TagsAt(1..cursor')
      /\ chosen' \subseteq TagsAt(1..cursor')
  <2>1. cursor \in Nat
    BY <1>1 DEF TagInv
  <2>2. \A i \in cursor + 1 .. cursor' : i \in 1..cursor'
    BY <1>2, <2>1
  <2>3. \A i \in 1..cursor : i \in 1..cursor'
    BY <1>2, <2>1
  <2>4. QED  BY <1>1, <1>2, <2>2, <2>3 DEF TagInv, TagsAt
<1>4. TagsAt(1..cursor)' = TagsAt(1..cursor') /\ AllTagsListed' = AllTagsListed
  BY <1>2 DEF TagsAt, AllTagsListed, Positions
<1>5. kept' \cap chosen' = {}
  BY <1>1, <1>2 DEF TagInv
<1>6. \/ /\ batch' = {} /\ hit' = hit /\ pc' \in {"list", "returned"}
         /\ count' = count + Cardinality(T)
      \/ /\ batch' = T /\ hit' = 0 /\ pc' = "purge" /\ count' = count /\ ~repo.dryRun
  BY <1>1 DEF ListPage, batchVars, ToDelete, TagInv
<1>7. Cardinality(T) \in Nat
  BY <1>1, <1>2, TagsAtCount DEF TagInv
<1>8. count' \in Nat /\ hit' \in Nat
  BY <1>1, <1>6, <1>7 DEF TagInv
<1>9. batch' \subseteq chosen' /\ (pc' # "purge" => batch' = {})
      /\ (repo'.dryRun => pc' # "purge") /\ pc' \in {"list", "purge", "returned"}
  BY <1>2, <1>6
<1>10. QED  BY <1>1, <1>2, <1>3, <1>4, <1>5, <1>8, <1>9 DEF TagInv

LEMMA ListPageKeepInv == TagsInv /\ ListPage => KeepInv'
<1> SUFFICES ASSUME TagsInv, ListPage  PROVE KeepInv'
  OBVIOUS
<1>1. TagInv /\ KeepInv /\ IsFiniteSet(kept) /\ Cardinality(kept) \in Nat /\ repo.keep \in Int
  BY KeptAndChosenFinite, OrderIsInjective DEF TagsInv, TagInv
<1> DEFINE T == TagsAt(ToDelete)
           K == TagsAt(SkippedOnPage)
           n == repo.keep - Cardinality(kept)
<1>2. /\ repo' = repo /\ kept' = kept \cup K /\ chosen' = chosen \cup T
      /\ SkippedOnPage \subseteq cursor + 1 .. cursor' /\ ToDelete \subseteq cursor + 1 .. cursor'
      /\ SkippedOnPage \subseteq Positions /\ ToDelete \subseteq Positions
      /\ (kept \cup chosen) \cap (K \cup T) = {}
      /\ \A i \in SkippedOnPage, j \in ToDelete : i < j
  BY ListPageAdds
<1>3. Cardinality(EligibleOnPage) \in Nat
  BY <1>1, SkippedAreForemost
<1>4. /\ n \in Int
      /\ n <= 0 => SkippedOnPage = {}
      /\ n >= Cardinality(EligibleOnPage) => SkippedOnPage = EligibleOnPage
      /\ n >= 0 => Cardinality(SkippedOnPage) <= n
      /\ 0 <= n /\ n <= Cardinality(EligibleOnPage) => Cardinality(SkippedOnPage) = n
  BY <1>1, SkippedAreForemost
<1>5. Cardinality(kept') = Cardinality(kept) + Cardinality(SkippedOnPage)
      /\ Cardinality(SkippedOnPage) \in Nat
  <2>1. /\ IsFiniteSet(K) /\ Cardinality(K) = Cardinality(SkippedOnPage)
        /\ Cardinality(SkippedOnPage) \in Nat
    BY <1>1, <1>2, TagsAtCount DEF TagInv
  <2>2. kept \cap K = {}
    BY <1>2
  <2> HIDE DEF K
  <2>3. Cardinality(kept \cup K) = Cardinality(kept) + Cardinality(K) - Cardinality({})
    BY <1>1, <2>1, <2>2, FS_Union
  <2>4. QED  BY <1>1, <1>2, <2>1, <2>3, FS_EmptySet
<1>6. repo.keep <= 0 => kept' = {}
  <2>1. ASSUME repo.keep <= 0  PROVE kept' = {}
    <3>1. kept = {}
      BY <1>1, <2>1 DEF KeepInv
    <3>2. n <= 0
      BY <1>1, <2>1
    <3>3. K = {}
      BY <1>4, <3>2 DEF TagsAt
    <3>4. QED  BY <1>2, <3>1, <3>3
  <2>2. QED  BY <2>1
<1>7. ASSUME repo.keep > 0
      PROVE  /\ Cardinality(kept') <= repo.keep
             /\ chosen' # {} => Cardinality(kept') = repo.keep
             /\ \A u \in kept', t \in chosen' : Newer(u, t)
  <2>1. Cardinality(kept) <= repo.keep /\ n >= 0
    BY <1>1, <1>7 DEF KeepInv
  <2>2. Cardinality(kept') <= repo.keep
    BY <1>1, <1>4, <1>5, <2>1
  <2>3. chosen # {} => SkippedOnPage = {} /\ Cardinality(SkippedOnPage) = 0
    <3>1. chosen # {} => Cardinality(kept) = repo.keep
      BY <1>1, <1>7 DEF KeepInv
    <3>2. chosen # {} => n <= 0
      BY <1>1, <3>1
    <3>3. QED  BY <1>4, <3>2, FS_EmptySet
  <2>4. T # {} => Cardinality(SkippedOnPage) = n
    <3>1. T # {} => SkippedOnPage # EligibleOnPage
      BY DEF TagsAt, ToDelete
    <3>2. QED  BY <1>3, <1>4, <2>1, <3>1
  <2>5. chosen' # {} => Cardinality(kept') = repo.keep
    <3>1. CASE T # {}
      BY <1>1, <1>5, <2>4, <3>1
    <3>2. CASE T = {} /\ chosen # {}
      BY <1>1, <1>5, <1>7, <2>3, <3>2 DEF KeepInv
    <3>3. QED  BY <1>2, <3>1, <3>2
  <2>6. ASSUME NEW u \in kept', NEW t \in chosen'  PROVE Newer(u, t)
    <3>1. CASE t \in chosen
      <4>1. K = {}
        BY <2>3, <3>1 DEF TagsAt
      <4>2. u \in kept
        BY <1>2, <4>1
      <4>3. QED  BY <1>1, <1>7, <3>1, <4>2 DEF KeepInv
    <3>2. CASE t \in T
      <4>1. PICK j \in ToDelete : t = repo.order[j]
        BY <3>2 DEF TagsAt
      <4>2. \E i \in Positions : u = repo.order[i] /\ i < j
        <5>1. CASE u \in kept
          <6>1. PICK i \in 1..cursor : u = repo.order[i]
            BY <1>1, <5>1 DEF TagInv, TagsAt
          <6>2. j \in cursor + 1 .. cursor' /\ j \in Positions /\ cursor \in Nat
            BY <1>1, <1>2, <4>1 DEF TagInv
          <6>3. i < j
            BY <6>1, <6>2
          <6>4. i \in Positions
            BY <6>2, <6>3 DEF Positions
          <6>5. QED  BY <6>1, <6>3, <6>4
        <5>2. CASE u \in K
          BY <1>2, <4>1, <5>2 DEF TagsAt
        <5>3. QED  BY <1>2, <5>1, <5>2
      <4>3. QED  BY <1>2, <4>1, <4>2 DEF Newer, Positions
    <3>3. QED  BY <1>2, <3>1, <3>2
  <2>7. QED  BY <2>2, <2>5, <2>6
<1>8. \A u, t : Newer(u, t)' <=> Newer(u, t)
  BY <1>2 DEF Newer
<1>9. QED  BY <1>2, <1>6, <1>7, <1>8 DEF KeepInv

\* What has been settled and is gone.
Gone == (chosen \ batch) \ present

LEMMA GoneIsFinite ==
    ASSUME TagInv
    PROVE  IsFiniteSet(Gone) /\ Cardinality(Gone) \in Nat
<1>1. IsFiniteSet(chosen) /\ Gone \subseteq chosen
  BY KeptAndChosenFinite DEF Gone
<1>2. QED  BY <1>1, FS_Subset, FS_CardinalityType

LEMMA ListPageHitInv == TagsInv /\ ListPage => HitInv'
<1> SUFFICES ASSUME TagsInv, ListPage, ~repo.dryRun
             PROVE  count' + (IF pc' = "purge" THEN hit' ELSE 0) <= Cardinality(Gone')
  BY DEF HitInv, Gone, ListPage, registryVars
<1>1. TagInv /\ HitInv /\ pc = "list" /\ batch = {} /\ count \in Nat
  BY DEF TagsInv, ListPage, TagInv
<1> DEFINE T == TagsAt(ToDelete)
<1>2. /\ present' = present /\ chosen' = chosen \cup T /\ chosen \cap T = {}
  <2>1. /\ present' = present /\ chosen' = chosen \cup TagsAt(ToDelete)
        /\ (kept \cup chosen) \cap (TagsAt(SkippedOnPage) \cup TagsAt(ToDelete)) = {}
    BY ListPageAdds
  <2>2. QED  BY <2>1
<1>3. \/ /\ batch' = {} /\ T = {} /\ pc' # "purge" /\ count' = count
      \/ /\ batch' = T /\ hit' = 0 /\ count' = count
  <2>1. /\ T = {} => batch' = batch /\ count' = count + Cardinality({}) /\ pc' # "purge"
        /\ T # {} => batch' = T /\ hit' = 0 /\ count' = count
    BY DEF ListPage, batchVars, ToDelete
  <2>2. QED  BY <1>1, <2>1, FS_EmptySet
<1> HIDE DEF T
<1>4. Gone' = Gone
  BY <1>1, <1>2, <1>3 DEF Gone
<1>5. count <= Cardinality(Gone)
  BY <1>1 DEF HitInv, Gone
<1>6. count' = count /\ (IF pc' = "purge" THEN hit' ELSE 0) = 0
  BY <1>1, <1>3
<1>7. QED  BY <1>1, <1>4, <1>5, <1>6

\* A step that lists nothing.
LEMMA NoPageTagInv ==
    ASSUME TagInv, KeepInv,
           UNCHANGED <<repo, cursor, kept, chosen>>,
           present' \subseteq present, batch' \subseteq batch,
           hit' \in Nat, count' \in Nat,
           pc' \in {pc, "list", "returned"}, pc' # "purge" => batch' = {}
    PROVE  TagInv' /\ KeepInv'
<1>1. TagsAt(1..cursor)' = TagsAt(1..cursor) /\ AllTagsListed' = AllTagsListed
  BY DEF TagsAt, AllTagsListed, Positions
<1>2. \A u, t : Newer(u, t)' <=> Newer(u, t)
  BY DEF Newer
<1>3. TagInv'
  BY <1>1 DEF TagInv
<1>4. KeepInv'
  BY <1>2 DEF KeepInv
<1>5. QED  BY <1>3, <1>4

\* A step that counts nothing and may settle, or find gone, some tags.
LEMMA UncountedHitInv ==
    ASSUME TagInv, HitInv, UNCHANGED <<repo, chosen, hit, count, pc>>,
           present' \subseteq present, batch' \subseteq batch
    PROVE  HitInv'
<1>1. IsFiniteSet(Gone) /\ Cardinality(Gone) \in Nat /\ count \in Nat /\ hit \in Nat
  BY GoneIsFinite DEF TagInv
<1>2. IsFiniteSet(Gone') /\ Gone \subseteq Gone'
  <2>1. IsFiniteSet(chosen) /\ Gone' \subseteq chosen /\ Gone \subseteq Gone'
    BY KeptAndChosenFinite DEF Gone
  <2>2. QED  BY <2>1, FS_Subset
<1>3. Cardinality(Gone) <= Cardinality(Gone') /\ Cardinality(Gone') \in Nat
  BY <1>2, FS_Subset, FS_CardinalityType
<1>4. QED  BY <1>1, <1>3 DEF HitInv, Gone

LEMMA TagGoneInv ==
    ASSUME TagsInv, NEW t \in Tag, TagGone(t)
    PROVE  TagsInv'
<1>1. /\ TagInv /\ KeepInv /\ HitInv /\ pc = "purge" /\ t \in batch
      /\ UNCHANGED <<repo, pc, cursor, kept, chosen, count>>
      /\ batch' = batch \ {t} /\ present' = present \ {t} /\ hit' = hit + 1
      /\ hit \in Nat /\ count \in Nat
  BY DEF TagsInv, TagGone, Settle, TagInv
<1>2. TagInv' /\ KeepInv'
  BY <1>1, NoPageTagInv
<1>3. IsFiniteSet(Gone) /\ Cardinality(Gone) \in Nat
  BY <1>1, GoneIsFinite
<1>4. Gone' = Gone \cup {t} /\ t \notin Gone
  BY <1>1 DEF Gone, TagInv
<1>5. Cardinality(Gone') = Cardinality(Gone) + 1
  BY <1>3, <1>4, FS_AddElement
<1>6. ~repo.dryRun => count + hit <= Cardinality(Gone)
  BY <1>1 DEF HitInv, Gone
<1>7. HitInv'
  BY <1>1, <1>3, <1>5, <1>6 DEF HitInv, Gone
<1>8. QED  BY <1>2, <1>7 DEF TagsInv

LEMMA TagSettledInv ==
    ASSUME TagsInv, NEW t \in Tag, TagRefused(t) \/ TagCancelled(t) \/ TagFails(t)
    PROVE  TagsInv'
<1>1. /\ TagInv /\ KeepInv /\ HitInv /\ pc = "purge" /\ hit \in Nat /\ count \in Nat
      /\ UNCHANGED <<repo, pc, cursor, kept, chosen, hit, count>>
      /\ batch' \subseteq batch /\ present' \subseteq present
  BY DEF TagsInv, TagRefused, TagCancelled, TagFails, Settle, TagInv
<1>2. TagInv' /\ KeepInv'
  BY <1>1, NoPageTagInv
<1>3. QED  BY <1>1, <1>2, UncountedHitInv DEF TagsInv

LEMMA OtherClientInv ==
    ASSUME TagsInv, NEW t \in Tag, OtherClient(t)
    PROVE  TagsInv'
<1>1. /\ TagInv /\ KeepInv /\ HitInv /\ hit \in Nat /\ count \in Nat
      /\ UNCHANGED <<repo, pc, cursor, kept, chosen, batch, hit, count>>
      /\ present' \subseteq present /\ (pc # "purge" => batch = {})
  BY DEF TagsInv, OtherClient, TagInv, batchVars
<1>2. TagInv' /\ KeepInv'
  BY <1>1, NoPageTagInv
<1>3. QED  BY <1>1, <1>2, UncountedHitInv DEF TagsInv

\* The batch returns, or a page is empty or fails.
LEMMA PagesEndInv ==
    ASSUME TagsInv, BatchReturns \/ ListNothing \/ ListFails
    PROVE  TagsInv'
<1>1. /\ TagInv /\ KeepInv /\ HitInv /\ hit \in Nat /\ count \in Nat
      /\ UNCHANGED <<repo, present, cursor, kept, chosen, batch, hit>>
      /\ batch = {} /\ pc' \in {"list", "returned"}
      /\ count' \in {count, count + (IF pc = "purge" THEN hit ELSE 0)}
  BY DEF TagsInv, BatchReturns, ListNothing, ListFails, TagInv, batchVars, registryVars
<1>2. count' \in Nat /\ count' <= count + (IF pc = "purge" THEN hit ELSE 0)
  BY <1>1
<1>3. TagInv' /\ KeepInv'
  BY <1>1, <1>2, NoPageTagInv
<1>4. IsFiniteSet(Gone) /\ Cardinality(Gone) \in Nat /\ Gone' = Gone
  BY <1>1, GoneIsFinite DEF Gone
<1>5. HitInv'
  BY <1>1, <1>2, <1>4 DEF HitInv, Gone
<1>6. QED  BY <1>3, <1>5 DEF TagsInv

LEMMA TagsStepInv ==
    TagsInv /\ (Answered \/ Failed \/ \E t \in Tag : OtherClient(t)) => TagsInv'
<1>1. ASSUME TagsInv, ListPage  PROVE TagsInv'
  BY <1>1, ListPageTagInv, ListPageKeepInv, ListPageHitInv DEF TagsInv
<1>2. QED
  BY <1>1, TagGoneInv, TagSettledInv, OtherClientInv, PagesEndInv DEF Answered, Failed

LEMMA TagsStutter == TagsInv /\ UNCHANGED tagVars => TagsInv'
<1> SUFFICES ASSUME TagsInv, UNCHANGED tagVars  PROVE TagsInv'
  OBVIOUS
<1>1. /\ TagInv /\ KeepInv /\ HitInv /\ hit \in Nat /\ count \in Nat
      /\ UNCHANGED <<repo, pc, cursor, kept, chosen, batch, hit, count, present>>
      /\ (pc # "purge" => batch = {})
  BY DEF TagsInv, TagInv, tagVars, vars, registryVars, batchVars
<1>2. TagInv' /\ KeepInv'
  BY <1>1, NoPageTagInv
<1>3. QED  BY <1>1, <1>2, UncountedHitInv DEF TagsInv

-----------------------------------------------------------------------------
(***************************************************************************)
(* The steps of purgeDanglingManifests.                                    *)
(***************************************************************************)

LEMMA ListedIsFinite ==
    ASSUME store \in Stores
    PROVE  IsFiniteSet(M!Listed(store)) /\ M!Listed(store) \subseteq Digest
           /\ M!Listed(Scanned) = M!Listed(store)
<1>1. store.listing \in Seq(Digest)
  BY PurgeRepositoryAssumption DEF Store
<1> DEFINE l == store.listing
           I == 1..Len(l)
<1>2. l \in [I -> Digest] /\ Len(l) \in Nat
  BY <1>1, LenProperties
<1>3. IsFiniteSet(I)
  BY <1>2, FS_Interval
<1> DEFINE f == [i \in I |-> l[i]]
<1>4. M!Listed(store) = {l[i] : i \in I}
  BY DEF M!Listed
<1>5. M!Listed(store) \subseteq Digest
  BY <1>2, <1>4
<1>6. f \in Surjection(I, M!Listed(store))
  BY <1>4 DEF Surjection
<1> HIDE DEF f
<1>7. IsFiniteSet(M!Listed(store))
  BY <1>3, <1>6, FS_Surjection
<1>8. M!Listed(Scanned) = M!Listed(store)
  BY DEF M!Listed, Scanned
<1>9. QED  BY <1>5, <1>7, <1>8

LEMMA SelectedAreListed ==
    ASSUME store \in Stores
    PROVE  M!Selected(Scanned) \subseteq M!Listed(store)
BY ListedIsFinite DEF M!Selected, M!Eligible

LEMMA DoomedIsFinite ==
    ASSUME StoreInv
    PROVE  \A S \in SUBSET doomed : IsFiniteSet(S) /\ Cardinality(S) \in Nat
<1>1. doomed \subseteq M!Listed(store)
  BY SelectedAreListed DEF StoreInv
<1>2. IsFiniteSet(M!Listed(store))
  BY ListedIsFinite DEF StoreInv
<1>3. QED  BY <1>1, <1>2, FS_Subset, FS_CardinalityType

\* The scan's input depends on nothing the purge of the manifests changes.
LEMMA ScannedStays ==
    ASSUME UNCHANGED <<tagVars, store>>
    PROVE  Scanned' = Scanned /\ M!Selected(Scanned)' = M!Selected(Scanned)
           /\ M!Listed(store)' = M!Listed(store) /\ repo' = repo
           /\ \A d : TagsOf(d)' = TagsOf(d)
<1>1. UNCHANGED <<repo, present, fresh, chosen, store>>
  BY DEF tagVars, vars, registryVars
<1>2. \A d : TagsOf(d)' = TagsOf(d) /\ Planned(d)' = Planned(d)
  BY <1>1 DEF TagsOf, Planned
<1>3. Scanned' = Scanned
  BY <1>1, <1>2 DEF Scanned
<1>4. M!Selected(Scanned)' = M!Selected(Scanned)
  BY <1>3 DEF M!Selected, M!Eligible, M!Shielded, M!Listed, M!LockedOut, M!Protected,
              M!ProtectedByTags, M!ProtectedByAge, M!KeptItself, M!Kids, M!Shields, M!MaybeList,
              M!IsList, M!ReferrerIndex, M!ClosedUnderKids
<1>5. QED  BY <1>1, <1>2, <1>3, <1>4 DEF M!Listed

\* A step that changes nothing of the manifests.
LEMMA ManifestsStay ==
    ASSUME StoreInv, DeletedInv, UNCHANGED manifestVars, repo' = repo,
           stage = "tags" \/ UNCHANGED tagVars
    PROVE  StoreInv' /\ DeletedInv'
<1>1. UNCHANGED <<store, stage, manifests, selected, doomed, queue, deleted, manifestCount>>
  BY DEF manifestVars
<1>2. selected \in {{}, M!Selected(Scanned)'}
  <2>1. CASE stage = "tags"
    BY <2>1 DEF StoreInv
  <2>2. CASE UNCHANGED tagVars
    BY <1>1, <2>2, ScannedStays DEF StoreInv
  <2>3. QED  BY <2>1, <2>2
<1>3. M!Listed(store)' = M!Listed(store)
  BY <1>1 DEF M!Listed
<1>4. StoreInv'
  BY <1>1, <1>2, <1>3 DEF StoreInv
<1>5. DeletedInv'
  BY <1>1 DEF DeletedInv
<1>6. QED  BY <1>4, <1>5

LEMMA AfterTagsInv ==
    ASSUME StoreInv, DeletedInv, AfterTags \/ ScanFails
    PROVE  StoreInv' /\ DeletedInv'
<1>1. /\ UNCHANGED <<tagVars, store, manifests, selected, doomed, queue, deleted, manifestCount>>
      /\ stage \in {"tags", "manifests"} /\ stage' \in {"manifests", "returned"}
  BY DEF AfterTags, ScanFails
<1>2. StoreInv'
  BY <1>1, ScannedStays DEF StoreInv
<1>3. DeletedInv'
  BY <1>1, ScannedStays DEF DeletedInv
<1>4. QED  BY <1>2, <1>3

LEMMA ScanInv ==
    ASSUME TagInv, StoreInv, DeletedInv, Scan
    PROVE  StoreInv' /\ DeletedInv'
<1>1. /\ UNCHANGED <<tagVars, store, manifests, deleted>>
      /\ stage = "manifests" /\ selected = {} /\ doomed = {} /\ queue = {}
      /\ selected' = M!Selected(Scanned) /\ doomed' \subseteq selected'
      /\ deleted = 0 /\ store \in Stores
  BY DEF Scan, StoreInv, DeletedInv, BehindKeep
<1>2. manifests = M!Listed(store) /\ doomed' \subseteq manifests
  <2>1. manifests = M!Listed(store)
    BY <1>1 DEF StoreInv
  <2>2. QED  BY <1>1, <2>1, SelectedAreListed
<1>3. \/ repo.dryRun /\ queue' = {} /\ stage' = "returned" /\ manifestCount' = Cardinality(doomed')
      \/ ~repo.dryRun /\ queue' = doomed' /\ stage' = "deleting" /\ manifestCount' = 0
  BY <1>1 DEF Scan, DeletedInv
<1>4. StoreInv'
  BY <1>1, <1>2, <1>3, ScannedStays DEF StoreInv
<1>5. IsFiniteSet(doomed') /\ Cardinality(doomed') \in Nat
  BY <1>1, <1>2, ListedIsFinite, FS_Subset, FS_CardinalityType
<1>6. DeletedInv'
  <2>1. CASE repo.dryRun
    BY <1>1, <1>3, <1>5, <2>1, ScannedStays DEF DeletedInv
  <2>2. CASE ~repo.dryRun
    <3>1. (doomed' \ queue') \ manifests' = {} /\ doomed' \ manifests' = {}
      BY <1>1, <1>2, <1>3, <2>2
    <3>2. QED  BY <1>1, <1>3, <2>2, <3>1, ScannedStays, FS_EmptySet DEF DeletedInv
  <2>3. QED  BY <2>1, <2>2
<1>7. QED  BY <1>4, <1>6

LEMMA ManifestSettledInv ==
    ASSUME StoreInv, DeletedInv, NEW d \in Digest,
           ManifestGone(d) \/ ManifestRefused(d) \/ ManifestFails(d) \/ ManifestCancelled(d)
    PROVE  StoreInv' /\ DeletedInv'
<1>1. /\ UNCHANGED <<tagVars, store, stage, selected, doomed, manifestCount>>
      /\ stage = "deleting" /\ d \in queue /\ queue' = queue \ {d}
      /\ manifests' \in {manifests, manifests \ {d}}
      /\ \/ deleted' = deleted + 1 /\ manifests' = manifests \ {d}
         \/ deleted' = deleted
  BY DEF ManifestGone, ManifestRefused, ManifestFails, ManifestCancelled, SettleManifest
<1>2. /\ ~repo.dryRun /\ manifestCount = 0 /\ deleted \in Nat
      /\ queue \subseteq doomed /\ queue \subseteq manifests
      /\ UNCHANGED repo
  BY <1>1, ScannedStays DEF StoreInv, DeletedInv
<1>3. StoreInv'
  BY <1>1, <1>2, ScannedStays DEF StoreInv
<1> DEFINE G == (doomed \ queue) \ manifests
<1>4. /\ IsFiniteSet(G) /\ IsFiniteSet(G') /\ Cardinality(G) \in Nat /\ Cardinality(G') \in Nat
      /\ IsFiniteSet(doomed \ manifests') /\ Cardinality(doomed \ manifests') \in Nat
  <2>1. G \subseteq doomed /\ G' \subseteq doomed /\ doomed \ manifests' \subseteq doomed
    BY <1>1
  <2>2. QED  BY <2>1, DoomedIsFinite
<1>5. /\ G \subseteq G'
      /\ manifests' = manifests \ {d} => G' = G \cup {d} /\ d \notin G
  BY <1>1, <1>2
<1> HIDE DEF G
<1>6. /\ Cardinality(G) <= Cardinality(G')
      /\ manifests' = manifests \ {d} => Cardinality(G') = Cardinality(G) + 1
  BY <1>4, <1>5, FS_Subset, FS_AddElement
<1>7. deleted <= Cardinality(G)
  BY <1>2 DEF DeletedInv, G
<1>8. deleted' <= Cardinality(G') /\ deleted' \in Nat
  BY <1>1, <1>2, <1>4, <1>6, <1>7
<1>9. DeletedInv'
  BY <1>1, <1>2, <1>4, <1>8 DEF DeletedInv, G
<1>10. QED  BY <1>3, <1>9

LEMMA ManifestsDoneInv ==
    ASSUME StoreInv, DeletedInv, ManifestsDone
    PROVE  StoreInv' /\ DeletedInv'
<1>1. /\ UNCHANGED <<tagVars, store, manifests, selected, doomed, queue, deleted>>
      /\ stage = "deleting" /\ queue = {} /\ stage' = "returned"
      /\ manifestCount' \in {manifestCount, deleted} /\ manifestCount = 0 /\ deleted \in Nat
  BY DEF ManifestsDone, DeletedInv
<1>2. StoreInv'
  BY <1>1, ScannedStays DEF StoreInv
<1>3. (doomed \ queue) \ manifests = doomed \ manifests /\ doomed \ manifests \subseteq doomed
  BY <1>1
<1>4. Cardinality(doomed \ manifests) \in Nat
  BY <1>3, DoomedIsFinite
<1>5. DeletedInv'
  BY <1>1, <1>3, <1>4, ScannedStays DEF DeletedInv
<1>6. QED  BY <1>2, <1>5

-----------------------------------------------------------------------------
(***************************************************************************)
(* The invariants hold, and the properties of the runs follow.             *)
(***************************************************************************)

LEMMA InitInv == PurgeRepositoryInit => RepositoryInv
<1> SUFFICES ASSUME PurgeRepositoryInit  PROVE RepositoryInv
  OBVIOUS
<1> USE DEF PurgeRepositoryInit, PurgeTagsInit
<1>1. repo \in Repos /\ Len(repo.order) \in Nat /\ repo.keep \in Int
  BY OrderIsInjective
<1>2. TagInv
  BY <1>1 DEF TagInv, AllTagsListed, TagsAt, Positions
<1>3. Cardinality(kept) = 0 /\ Cardinality({}) = 0
  BY FS_EmptySet
<1>4. KeepInv
  BY <1>1, <1>3 DEF KeepInv
<1>5. HitInv
  <2>1. (chosen \ batch) \ present = {}
    OBVIOUS
  <2>2. QED  BY <1>3, <2>1 DEF HitInv
<1>6. StoreInv
  BY DEF StoreInv, M!Listed
<1>7. DeletedInv
  <2>1. (doomed \ queue) \ manifests = {} /\ doomed \ manifests = {}
    OBVIOUS
  <2>2. QED  BY <1>3, <2>1 DEF DeletedInv
<1>8. QED  BY <1>2, <1>4, <1>5, <1>6, <1>7 DEF RepositoryInv, TagsInv

RepositoryNext == TagsStep \/ TagsFault \/ ManifestStep \/ ManifestFault \/ OtherClientsStep

\* Every manifest step leaves the tags as they are.
LEMMA ManifestStepsKeepTags ==
    ManifestStep \/ ManifestFault => UNCHANGED tagVars /\ UNCHANGED store
BY DEF ManifestStep, ManifestFault, AfterTags, Scan, ScanFails, ManifestsDone, ManifestGone,
       ManifestRefused, ManifestFails, ManifestCancelled, SettleManifest

LEMMA NextInv == RepositoryInv /\ [RepositoryNext]_allVars => RepositoryInv'
<1> SUFFICES ASSUME RepositoryInv, [RepositoryNext]_allVars  PROVE RepositoryInv'
  OBVIOUS
<1> USE DEF RepositoryInv
<1>1. CASE TagsStep \/ TagsFault \/ OtherClientsStep
  <2>1. /\ stage = "tags" /\ UNCHANGED manifestVars
        /\ Answered \/ Failed \/ \E t \in Tag : OtherClient(t)
    BY <1>1 DEF TagsStep, TagsFault, OtherClientsStep
  <2>2. TagsInv'
    BY <2>1, TagsStepInv
  <2>3. repo' = repo
    BY <2>1 DEF Answered, Failed, OtherClient, ListPage, ListNothing, ListFails, BatchReturns,
                TagGone, TagRefused, TagFails, TagCancelled, Settle, registryVars
  <2>4. QED  BY <2>1, <2>2, <2>3, ManifestsStay
<1>2. CASE ManifestStep \/ ManifestFault
  <2>1. TagsInv'
    BY <1>2, ManifestStepsKeepTags, TagsStutter
  <2>2. StoreInv' /\ DeletedInv'
    BY <1>2, AfterTagsInv, ScanInv, ManifestSettledInv, ManifestsDoneInv
       DEF ManifestStep, ManifestFault, TagsInv
  <2>3. QED  BY <2>1, <2>2
<1>3. CASE UNCHANGED allVars
  <2>1. UNCHANGED tagVars /\ UNCHANGED manifestVars /\ repo' = repo
    BY <1>3 DEF allVars, tagVars, vars, registryVars
  <2>2. QED  BY <2>1, TagsStutter, ManifestsStay
<1>4. QED  BY <1>1, <1>2, <1>3 DEF RepositoryNext

\* The invariants of the tags, of what is counted and of the manifests hold
\* in every state of a purge (purgeTags, purgeDanglingManifests).
THEOREM RepositoryCorrect == PurgeRepositorySpec => []RepositoryInv
<1>1. QED  BY InitInv, NextInv, PTL DEF PurgeRepositorySpec, RepositoryNext

\* Of the tags that may go the keep newest stay, on whichever pages they are
\* and whatever other clients do meanwhile: each chosen tag has keep newer ones
\* that getTagsToDelete skipped, and no skipped tag is chosen later.
THEOREM PurgeKeepsNewest == PurgeRepositorySpec => []NewestAreKept
<1>1. RepositoryInv => NewestAreKept
  <2> SUFFICES ASSUME RepositoryInv  PROVE NewestAreKept
    OBVIOUS
  <2>1. TagInv /\ KeepInv
    BY DEF RepositoryInv, TagsInv
  <2>2. ASSUME NEW t \in chosen, repo.keep > 0
        PROVE  Cardinality({u \in kept : Newer(u, t)}) = repo.keep
    <3>1. {u \in kept : Newer(u, t)} = kept /\ Cardinality(kept) = repo.keep
      BY <2>1, <2>2 DEF KeepInv
    <3>2. QED  BY <3>1
  <2>3. QED  BY <2>1, <2>2 DEF NewestAreKept, TagInv
<1>2. QED  BY <1>1, RepositoryCorrect, PTL

\* What purge reports to have deleted is gone: tags and manifests that were
\* refused, failed or cancelled are not counted (deletedTagsCount, the result
\* of purgeDanglingManifests).
THEOREM PurgeCountsAreHonest == PurgeRepositorySpec => []CountsAreHonest
<1>1. RepositoryInv => CountsAreHonest
  <2> SUFFICES ASSUME RepositoryInv, ~repo.dryRun  PROVE CountsAreHonest
    BY DEF CountsAreHonest
  <2>1. TagInv /\ HitInv /\ DeletedInv /\ StoreInv
    BY DEF RepositoryInv, TagsInv
  <2>2. manifestCount <= Cardinality(doomed \ manifests)
    BY <2>1 DEF DeletedInv
  <2>3. IsFiniteSet(chosen \ present) /\ Gone \subseteq chosen \ present
    BY <2>1, KeptAndChosenFinite, FS_Subset DEF Gone
  <2>4. Cardinality(Gone) <= Cardinality(chosen \ present)
        /\ Cardinality(Gone) \in Nat /\ Cardinality(chosen \ present) \in Nat
    BY <2>1, <2>3, GoneIsFinite, FS_Subset, FS_CardinalityType
  <2>5. count + (IF pc = "purge" THEN hit ELSE 0) <= Cardinality(Gone)
        /\ count \in Nat /\ hit \in Nat
    BY <2>1 DEF HitInv, Gone, TagInv
  <2>6. count <= Cardinality(chosen \ present)
    BY <2>4, <2>5
  <2>7. QED  BY <2>2, <2>6 DEF CountsAreHonest
<1>2. QED  BY <1>1, RepositoryCorrect, PTL

\* What a real run has selected has no tags, then and ever after.
LEMMA SelectedAreUntagged ==
    ASSUME TagInv, StoreInv, ~repo.dryRun, NEW d \in selected
    PROVE  TagsOf(d) = {}
<1>1. d \in M!Selected(Scanned) /\ d \in Digest
  BY SelectedAreListed, ListedIsFinite DEF StoreInv
<1>2. ~(Scanned.tags[d] > 0)
  BY <1>1 DEF M!Selected, M!Eligible, M!Protected, M!ProtectedByTags, Scanned
<1>3. Scanned.tags[d] = Cardinality(TagsOf(d))
  BY <1>1 DEF Scanned
<1>4. IsFiniteSet(TagsOf(d)) /\ Cardinality(TagsOf(d)) \in Nat
  <2>1. IsFiniteSet(present) /\ TagsOf(d) \subseteq present
    BY KeptAndChosenFinite DEF TagsOf
  <2>2. QED  BY <2>1, FS_Subset, FS_CardinalityType
<1>5. QED  BY <1>2, <1>3, <1>4, FS_EmptySet

\* purge deletes a manifest only when none of the tags the repository had
\* refers to it, also when deleting a tag failed or was refused, or another
\* client deleted some (GetUntaggedManifests lists after purgeTags is done).
THEOREM PurgeDeletesOnlyUntagged == PurgeRepositorySpec => OnlyUntaggedAreDeleted
<1>1. RepositoryInv /\ [RepositoryNext]_allVars
      => [\A d \in manifests \ manifests' : TagsOf(d) = {}]_allVars
  <2> SUFFICES ASSUME RepositoryInv, [RepositoryNext]_allVars,
                      NEW d \in manifests, d \notin manifests'
               PROVE  TagsOf(d) = {}
    OBVIOUS
  <2>1. d \in queue /\ stage = "deleting"
    <3>1. manifests' # manifests
      OBVIOUS
    <3>2. CASE TagsStep \/ TagsFault \/ OtherClientsStep \/ UNCHANGED allVars
      BY <3>1, <3>2 DEF TagsStep, TagsFault, OtherClientsStep, manifestVars, allVars
    <3>3. CASE ManifestStep \/ ManifestFault
      BY <3>3 DEF ManifestStep, ManifestFault, AfterTags, Scan, ScanFails, ManifestsDone,
                  ManifestGone, ManifestRefused, ManifestFails, ManifestCancelled, SettleManifest
    <3>4. QED  BY <3>2, <3>3 DEF RepositoryNext
  <2>2. ~repo.dryRun /\ d \in selected
    BY <2>1 DEF RepositoryInv, StoreInv
  <2>3. QED  BY <2>2, SelectedAreUntagged DEF RepositoryInv, TagsInv
<1>2. QED
  BY <1>1, RepositoryCorrect, PTL DEF PurgeRepositorySpec, RepositoryNext, OnlyUntaggedAreDeleted

\* The selection spares what is tagged and not locked and all it refers to.
LEMMA SelectionIsClosed ==
    ASSUME TagInv, store \in Stores, ~repo.dryRun
    PROVE  LET tagged == {d \in M!Listed(store) \ store.lockedManifests : TagsOf(d) # {}}
               S      == tagged \cup (M!Shielded(Scanned) \cap M!Listed(store))
           IN  /\ S \cap M!Selected(Scanned) = {}
               /\ \A d \in S : store.children[d] \cap M!Listed(store) \subseteq S
<1> DEFINE tagged == {d \in M!Listed(store) \ store.lockedManifests : TagsOf(d) # {}}
           Shielded == M!Shielded(Scanned)
           S == tagged \cup (Shielded \cap M!Listed(store))
<1>1. /\ store.children \in [Digest -> SUBSET Digest] /\ M!Listed(store) \subseteq Digest
      /\ M!Listed(Scanned) = M!Listed(store)
      /\ \A d \in Digest : store.children[d] # {} => M!IsList(store, d)
  BY PurgeRepositoryAssumption, ListedIsFinite DEF Store
<1>2. \A d \in Digest : M!Kids(Scanned, d) = store.children[d]
  BY DEF M!Kids, Scanned
<1>3. ASSUME NEW d \in tagged
      PROVE  M!Protected(Scanned, d) /\ ~M!LockedOut(Scanned, d)
  <2>1. IsFiniteSet(TagsOf(d)) /\ Cardinality(TagsOf(d)) \in Nat
    <3>1. IsFiniteSet(present) /\ TagsOf(d) \subseteq present
      BY KeptAndChosenFinite DEF TagsOf
    <3>2. QED  BY <3>1, FS_Subset, FS_CardinalityType
  <2>2. Cardinality(TagsOf(d)) > 0
    BY <2>1, <1>3, FS_EmptySet
  <2>3. Scanned.tags[d] = Cardinality(TagsOf(d)) /\ ~Scanned.dryRun
        /\ Scanned.locked = store.lockedManifests
    BY <1>1 DEF Scanned
  <2>4. M!ProtectedByTags(Scanned, d)
    BY <2>2, <2>3 DEF M!ProtectedByTags
  <2>5. QED  BY <2>3, <2>4 DEF M!Protected, M!LockedOut
<1>4. ASSUME NEW d \in tagged  PROVE store.children[d] \subseteq Shielded
  <2>1. SUFFICES ASSUME NEW c \in store.children[d]  PROVE c \in Shielded
    OBVIOUS
  <2>2. d \in M!Shields(Scanned)
    <3>1. d \in Digest /\ M!IsList(Scanned, d) /\ d \in M!Listed(Scanned)
      BY <1>1, <2>1 DEF M!IsList, Scanned
    <3>2. QED  BY <1>3, <3>1 DEF M!Shields, M!MaybeList
  <2>3. c \in M!Kids(Scanned, d) /\ c \in Digest
    BY <1>1, <1>2, <2>1
  <2>4. QED  BY <2>2, <2>3 DEF M!Shielded
<1>5. ASSUME NEW d \in Shielded  PROVE store.children[d] \subseteq Shielded
  <2>1. SUFFICES ASSUME NEW c \in store.children[d]  PROVE c \in Shielded
    OBVIOUS
  <2>2. d \in Digest
    BY DEF M!Shielded
  <2>3. c \in M!Kids(Scanned, d) /\ c \in Digest
    BY <1>1, <1>2, <2>1, <2>2
  <2>4. QED  BY <2>2, <2>3 DEF M!Shielded, M!ClosedUnderKids
<1>6. S \cap M!Selected(Scanned) = {}
  BY <1>3 DEF M!Selected, M!Eligible
<1>7. \A d \in S : store.children[d] \cap M!Listed(store) \subseteq S
  BY <1>4, <1>5
<1>8. QED  BY <1>6, <1>7

\* purge never deletes a manifest that has a tag and is not locked, nor one
\* that such a manifest refers to, through nested lists also: what is left of
\* the repository is closed under references from what is tagged.
THEOREM PurgeKeepsReferenced == PurgeRepositorySpec => []ReferencedAreKept
<1>1. RepositoryInv => ReferencedAreKept
  <2> SUFFICES ASSUME RepositoryInv  PROVE ReferencedAreKept
    OBVIOUS
  <2> DEFINE Listed == M!Listed(store)
  <2>1. TagInv /\ StoreInv /\ store \in Stores
    BY DEF RepositoryInv, TagsInv, StoreInv
  <2>2. CASE repo.dryRun \/ selected = {}
    <3>1. Listed \in SUBSET manifests
      BY <2>1, <2>2 DEF StoreInv
    <3>2. /\ \A d \in Listed \ store.lockedManifests : TagsOf(d) # {} => d \in Listed
          /\ \A d \in Listed : store.children[d] \cap Listed \subseteq Listed
      OBVIOUS
    <3>3. QED  BY <3>1, <3>2 DEF ReferencedAreKept
  <2>3. CASE ~repo.dryRun /\ selected # {}
    <3> DEFINE S == {d \in Listed \ store.lockedManifests : TagsOf(d) # {}}
                      \cup (M!Shielded(Scanned) \cap Listed)
    <3>1. /\ S \cap M!Selected(Scanned) = {}
          /\ \A d \in S : store.children[d] \cap Listed \subseteq S
      BY <2>1, <2>3, SelectionIsClosed
    <3>2. doomed \subseteq M!Selected(Scanned) /\ Listed \ doomed \subseteq manifests
      BY <2>1, <2>3 DEF StoreInv
    <3>3. S \subseteq Listed
      OBVIOUS
    <3>4. S \in SUBSET manifests
      BY <3>1, <3>2, <3>3
    <3>5. \A d \in Listed \ store.lockedManifests : TagsOf(d) # {} => d \in S
      OBVIOUS
    <3> HIDE DEF S
    <3>6. QED  BY <3>1, <3>4, <3>5 DEF ReferencedAreKept
  <2>4. QED  BY <2>2, <2>3
<1>2. QED  BY <1>1, RepositoryCorrect, PTL

-----------------------------------------------------------------------------
(***************************************************************************)
(* A run that nobody disturbs: what its pages hold and skip.               *)
(***************************************************************************)

LEMMA CandidatesAreFinite ==
    ASSUME repo \in Repos
    PROVE  /\ Candidates \subseteq Positions /\ Candidates \subseteq Int
           /\ \A S \in SUBSET Candidates : IsFiniteSet(S) /\ Cardinality(S) \in Nat
           /\ \A i : Rank(i) \in Nat
<1>1. Candidates \subseteq Positions /\ Candidates \subseteq Int
  BY OrderIsInjective DEF Candidates
<1>2. \A S \in SUBSET Candidates : IsFiniteSet(S) /\ Cardinality(S) \in Nat
  BY <1>1, TagsAtCount
<1>3. \A i : {j \in Candidates : j < i} \in SUBSET Candidates
  OBVIOUS
<1>4. QED  BY <1>1, <1>2, <1>3 DEF Rank

\* As many are kept as keep allows and as there are.
LEMMA KeptToCount ==
    ASSUME repo \in Repos, NEW c \in Nat
    PROVE  LET N == Cardinality(CandidatesTo(c))
           IN  /\ N \in Nat /\ repo.keep \in Int
               /\ repo.keep >= N => Cardinality(KeptTo(c)) = N
               /\ 0 <= repo.keep /\ repo.keep <= N => Cardinality(KeptTo(c)) = repo.keep
               /\ repo.keep <= 0 => Cardinality(KeptTo(c)) = 0
<1> DEFINE S == CandidatesTo(c)
           k == repo.keep
<1>1. S \in SUBSET Int /\ IsFiniteSet(S) /\ Cardinality(S) \in Nat /\ k \in Int
  BY CandidatesAreFinite, OrderIsInjective DEF CandidatesTo
<1>2. ASSUME NEW i \in S  PROVE Cardinality({j \in S : j < i}) = Rank(i)
  <2>1. {j \in S : j < i} = {j \in Candidates : j < i}
    <3>1. \A j \in Candidates : j < i => j <= c
      BY <1>1, CandidatesAreFinite DEF CandidatesTo
    <3>2. QED  BY <3>1 DEF CandidatesTo
  <2>2. QED  BY <2>1 DEF Rank
<1>3. KeptTo(c) = {i \in S : Rank(i) < k}
  BY DEF KeptTo, CandidatesTo
<1> HIDE DEF S, k
<1>4. LET F == Foremost(S, k)
      IN  /\ F \subseteq S
          /\ \A i \in S : i \in F <=> Cardinality({j \in S : j < i}) < k
          /\ k <= 0 => F = {}
          /\ k >= Cardinality(S) => F = S
          /\ 0 <= k /\ k <= Cardinality(S) => Cardinality(F) = k
  BY <1>1, ForemostAreFirst
<1>5. Foremost(S, k) = KeptTo(c)
  BY <1>2, <1>3, <1>4
<1>6. QED  BY <1>1, <1>4, <1>5, FS_EmptySet DEF S, k

\* The pages of such a run are intervals of the listing.
LEMMA AlonePage ==
    ASSUME TagInv, AloneTags
    PROVE  /\ Behind = cursor + 1 .. Len(repo.order)
           /\ Page # {} => Page = cursor + 1 .. Max(Page)
<1>1. /\ cursor \in Nat /\ Len(repo.order) \in Nat /\ present \subseteq AllTagsListed
      /\ \A i, j \in Positions : repo.order[i] = repo.order[j] => i = j
  BY OrderIsInjective DEF TagInv
<1>2. ASSUME NEW i \in cursor + 1 .. Len(repo.order)  PROVE repo.order[i] \in present \ fresh
  <2>1. SUFFICES ASSUME repo.order[i] \notin present  PROVE FALSE
    BY DEF AloneTags
  <2>2. i \in Positions /\ repo.order[i] \in AllTagsListed
    BY <1>1 DEF Positions, AllTagsListed, TagsAt
  <2>3. repo.order[i] \in chosen
    BY <2>1, <2>2 DEF AloneTags
  <2>4. PICK j \in 1..cursor : repo.order[i] = repo.order[j]
    BY <2>3 DEF TagInv, TagsAt
  <2>5. j \in Positions /\ j # i
    BY <1>1, <2>2, <2>4 DEF Positions
  <2>6. QED  BY <1>1, <2>2, <2>4, <2>5
<1>3. Behind = cursor + 1 .. Len(repo.order)
  BY <1>2 DEF Behind
<1>4. ASSUME Page # {}  PROVE Page = cursor + 1 .. Max(Page)
  <2>1. /\ Max(Page) \in Page /\ Page \subseteq Behind
        /\ \A i \in Page : i <= Max(Page)
        /\ \A i \in Behind : i <= Max(Page) => i \in Page
    BY <1>4, PageIsPrefix
  <2> DEFINE m == Max(Page)
  <2> HIDE DEF m
  <2>2. m \in cursor + 1 .. Len(repo.order)
    BY <1>3, <2>1 DEF m
  <2>3. \A i \in Page : i \in cursor + 1 .. m
    BY <1>1, <1>3, <2>1, <2>2 DEF m
  <2>4. \A i \in cursor + 1 .. m : i \in Page
    BY <1>1, <1>3, <2>1, <2>2 DEF m
  <2>5. QED  BY <2>3, <2>4 DEF m
<1>5. QED  BY <1>3, <1>4

\* What the page skips and chooses continues what was kept and chosen.
LEMMA AloneListPage ==
    ASSUME TagInv, AloneTags, ListPage
    PROVE  /\ cursor' \in Nat /\ cursor < cursor' /\ cursor' <= Len(repo.order)
           /\ KeptTo(cursor') = KeptTo(cursor) \cup SkippedOnPage
           /\ ChosenTo(cursor') = ChosenTo(cursor) \cup ToDelete
<1> DEFINE E == {i \in Candidates : cursor < i /\ i <= cursor'}
           k == repo.keep
           N == Cardinality(CandidatesTo(cursor))
<1>1. /\ Page # {} /\ cursor' = Max(Page) /\ cursor \in Nat /\ Len(repo.order) \in Nat
      /\ repo \in Repos /\ Candidates \subseteq Int /\ k \in Int
      /\ \A i : Rank(i) \in Nat
  BY CandidatesAreFinite, OrderIsInjective DEF TagInv, ListPage
<1>2. /\ cursor' \in cursor + 1 .. Len(repo.order) /\ cursor < cursor'
      /\ Page = cursor + 1 .. cursor' /\ Page \subseteq Positions
  <2>1. Max(Page) \in Page /\ Page \subseteq Behind /\ Behind \subseteq Positions
    BY <1>1, PageIsPrefix
  <2>2. Page = cursor + 1 .. cursor' /\ Behind = cursor + 1 .. Len(repo.order)
    BY <1>1, AlonePage
  <2>3. cursor' \in cursor + 1 .. Len(repo.order)
    BY <1>1, <2>1, <2>2
  <2>4. QED  BY <1>1, <2>1, <2>2, <2>3
<1>3. EligibleOnPage = E
  <2>1. \A i \in Page : repo.order[i] \in present
    BY PageIsPrefix DEF Behind
  <2>2. \A i \in Page : Eligible(repo.order[i]) <=> i \in Candidates
    BY <1>2, <2>1 DEF Eligible, Candidates, AloneTags
  <2>3. ASSUME NEW i \in Candidates  PROVE i \in Page <=> cursor < i /\ i <= cursor'
    <3>1. i \in Int /\ cursor \in Int /\ cursor' \in Int
      BY <1>1, <1>2
    <3>2. i \in cursor + 1 .. cursor' <=> cursor < i /\ i <= cursor'
      BY <3>1
    <3>3. QED  BY <1>2, <3>2
  <2>4. QED  BY <2>2, <2>3 DEF EligibleOnPage
<1>4. Cardinality(kept) = Cardinality(KeptTo(cursor))
  <2>1. kept = TagsAt(KeptTo(cursor)) /\ KeptTo(cursor) \in SUBSET Positions
    BY CandidatesAreFinite, <1>1 DEF AloneTags, KeptTo
  <2>2. QED  BY <1>1, <2>1, TagsAtCount
<1>5. ASSUME NEW i \in E
      PROVE  Rank(i) = N + Cardinality({j \in E : j < i})
             /\ Cardinality({j \in E : j < i}) \in Nat
  <2> DEFINE A == CandidatesTo(cursor)
             B == {j \in E : j < i}
  <2>1. /\ IsFiniteSet(A) /\ IsFiniteSet(B) /\ Cardinality(A) \in Nat /\ Cardinality(B) \in Nat
    <3>1. A \in SUBSET Candidates /\ B \in SUBSET Candidates
      BY DEF CandidatesTo
    <3>2. QED  BY <1>1, <3>1, CandidatesAreFinite
  <2>2. {j \in Candidates : j < i} = A \cup B /\ A \cap B = {}
    <3>1. i \in Int /\ cursor < i /\ i <= cursor' /\ cursor' \in Int
      BY <1>1, <1>2, <1>5
    <3>2. ASSUME NEW j \in Candidates
          PROVE  /\ j < i <=> j <= cursor \/ (cursor < j /\ j <= cursor' /\ j < i)
                 /\ ~(j <= cursor /\ cursor < j)
      BY <1>1, <3>1
    <3>3. QED  BY <3>2 DEF CandidatesTo
  <2>3. Rank(i) = Cardinality(A \cup B)
    BY <2>2 DEF Rank
  <2> HIDE DEF A, B
  <2>4. Cardinality(A \cup B) = Cardinality(A) + Cardinality(B) - Cardinality({})
    BY <2>1, <2>2, FS_Union
  <2>5. Rank(i) = Cardinality(A) + Cardinality(B)
    BY <2>1, <2>3, <2>4, FS_EmptySet
  <2>6. QED  BY <2>1, <2>5 DEF A, B
<1>6. ASSUME NEW i \in E
      PROVE  i \in SkippedOnPage <=> Rank(i) < k
  <2> DEFINE b == Cardinality({j \in E : j < i})
  <2>1. i \in SkippedOnPage <=> b < k - Cardinality(KeptTo(cursor))
    BY <1>3, <1>4, SkippedAreForemost
  <2>2. /\ N \in Nat
        /\ k >= N => Cardinality(KeptTo(cursor)) = N
        /\ 0 <= k /\ k <= N => Cardinality(KeptTo(cursor)) = k
        /\ k <= 0 => Cardinality(KeptTo(cursor)) = 0
    BY <1>1, KeptToCount
  <2>3. Rank(i) = N + b /\ b \in Nat
    BY <1>5
  <2> HIDE DEF b, N, k
  <2>4. QED  BY <1>1, <2>1, <2>2, <2>3
<1>7. SkippedOnPage \subseteq E
  BY <1>3, SkippedAreForemost
<1>8. \A i \in Candidates : i <= cursor' <=> i <= cursor \/ i \in E
  BY <1>1, <1>2
<1>9. KeptTo(cursor') = KeptTo(cursor) \cup SkippedOnPage
  BY <1>6, <1>7, <1>8 DEF KeptTo
<1>10. ChosenTo(cursor') = ChosenTo(cursor) \cup ToDelete
  <2>1. \A i \in E : i \in ToDelete <=> Rank(i) >= k
    BY <1>1, <1>3, <1>6 DEF ToDelete
  <2>2. ToDelete \subseteq E
    BY <1>3 DEF ToDelete
  <2>3. QED  BY <1>8, <2>1, <2>2 DEF ChosenTo
<1>11. QED  BY <1>1, <1>2, <1>9, <1>10

\* The candidates and their ranks depend on the call alone.
LEMMA CandidatesStay ==
    ASSUME repo' = repo
    PROVE  /\ AllTagsListed' = AllTagsListed
           /\ TagsAt(KeptTo(cursor))' = TagsAt(KeptTo(cursor'))
           /\ TagsAt(ChosenTo(cursor))' = TagsAt(ChosenTo(cursor'))
<1>1. Candidates' = Candidates /\ AllTagsListed' = AllTagsListed
  BY DEF Candidates, Positions, AllTagsListed, TagsAt
<1>2. \A i : Rank(i)' = Rank(i)
  BY <1>1 DEF Rank
<1>3. KeptTo(cursor)' = KeptTo(cursor') /\ ChosenTo(cursor)' = ChosenTo(cursor')
  BY <1>1, <1>2 DEF KeptTo, ChosenTo
<1>4. QED  BY <1>1, <1>3 DEF TagsAt

LEMMA AloneListPageInv ==
    ASSUME TagInv, KeepInv, HitInv, AloneTags, ListPage
    PROVE  AloneTags'
<1> DEFINE T == TagsAt(ToDelete)
<1>1. /\ pc = "list" /\ batch = {} /\ count \in Nat /\ Len(repo.order) \in Nat
      /\ UNCHANGED <<repo, present, locked, fresh, failed>>
      /\ kept' = kept \cup TagsAt(SkippedOnPage) /\ chosen' = chosen \cup T
      /\ cursor' = Max(Page) /\ Page # {} /\ more' = (Page # Behind)
      /\ fresh = {} /\ ~erred /\ ~failed /\ locked = repo.locked \cap present
  BY OrderIsInjective DEF ListPage, TagInv, ToDelete, registryVars, AloneTags
<1>2. /\ cursor' \in Nat /\ cursor < cursor' /\ cursor' <= Len(repo.order)
      /\ KeptTo(cursor') = KeptTo(cursor) \cup SkippedOnPage
      /\ ChosenTo(cursor') = ChosenTo(cursor) \cup ToDelete
  BY AloneListPage
<1>3. kept' = TagsAt(KeptTo(cursor')) /\ chosen' = TagsAt(ChosenTo(cursor'))
  <2>1. kept = TagsAt(KeptTo(cursor)) /\ chosen = TagsAt(ChosenTo(cursor))
    BY DEF AloneTags
  <2>2. QED  BY <1>1, <1>2, <2>1 DEF TagsAt
<1>4. kept' = TagsAt(KeptTo(cursor))' /\ chosen' = TagsAt(ChosenTo(cursor))'
  BY <1>1, <1>3, CandidatesStay
<1>5. /\ chosen \cap T = {} /\ IsFiniteSet(chosen) /\ Cardinality(chosen) \in Nat
      /\ IsFiniteSet(T) /\ Cardinality(T) \in Nat
  <2>1. (kept \cup chosen) \cap (TagsAt(SkippedOnPage) \cup T) = {} /\ ToDelete \subseteq Positions
    BY ListPageAdds DEF TagsInv
  <2>2. QED  BY <2>1, KeptAndChosenFinite, TagsAtCount DEF TagInv
<1>6. Cardinality(chosen \cup T) = Cardinality(chosen) + Cardinality(T)
  <2> HIDE DEF T
  <2>1. Cardinality(chosen \cup T) = Cardinality(chosen) + Cardinality(T) - Cardinality({})
    BY <1>5, FS_Union
  <2>2. QED  BY <1>5, <2>1, FS_EmptySet
<1>7. \/ /\ T = {} \/ repo.dryRun
         /\ batch' = {} /\ hit' = hit /\ erred' = erred /\ count' = count + Cardinality(T)
         /\ pc' = (IF more' THEN "list" ELSE "returned") /\ pc' # "purge"
      \/ /\ T # {} /\ ~repo.dryRun
         /\ batch' = T /\ hit' = 0 /\ erred' = FALSE /\ count' = count /\ unlock' = T \cap locked
         /\ pc' = "purge"
  BY <1>1 DEF ListPage, batchVars, ToDelete
<1>8. count = Cardinality(chosen) /\ AllTagsListed \ present = IF repo.dryRun THEN {} ELSE chosen
  BY <1>1 DEF AloneTags
<1> HIDE DEF T
<1>9. (AllTagsListed \ present)' = IF repo.dryRun THEN {} ELSE chosen' \ batch'
  <2>1. (AllTagsListed \ present)' = AllTagsListed \ present
    BY <1>1, CandidatesStay
  <2>2. ~repo.dryRun => chosen' \ batch' = chosen
    BY <1>1, <1>5, <1>7
  <2>3. QED  BY <1>8, <2>1, <2>2
<1>10. count' + (IF pc' = "purge" THEN hit' ELSE 0) = Cardinality(chosen' \ batch')
  <2>1. CASE batch' = {} /\ pc' # "purge" /\ count' = count + Cardinality(T)
    <3>1. chosen' \ batch' = chosen \cup T
      BY <1>1, <2>1
    <3>2. QED  BY <1>1, <1>5, <1>6, <1>8, <2>1, <3>1
  <2>2. CASE batch' = T /\ hit' = 0 /\ count' = count
    <3>1. chosen' \ batch' = chosen
      BY <1>1, <1>5, <2>2
    <3>2. count' + (IF pc' = "purge" THEN hit' ELSE 0) = count
      BY <1>1, <2>2
    <3>3. QED  BY <1>8, <3>1, <3>2
  <2>3. \/ batch' = {} /\ pc' # "purge" /\ count' = count + Cardinality(T)
        \/ batch' = T /\ hit' = 0 /\ count' = count
    BY <1>7
  <2>4. QED  BY <2>1, <2>2, <2>3
<1>11. pc' = "purge" => batch' \cap locked' \subseteq unlock'
  BY <1>1, <1>7
<1>12. ~more' \/ pc' = "returned" => cursor' = Len(repo'.order)
  <2>1. SUFFICES ASSUME Page = Behind  PROVE cursor' = Len(repo.order)
    BY <1>1, <1>7
  <2>2. cursor \in Nat /\ Behind = cursor + 1 .. Len(repo.order) /\ Page = cursor + 1 .. cursor'
    BY <1>1, AlonePage DEF TagInv
  <2>3. Len(repo.order) \in cursor + 1 .. Len(repo.order)
    BY <1>1, <1>2, <2>2
  <2>4. Len(repo.order) \in cursor + 1 .. cursor'
    BY <2>1, <2>2, <2>3
  <2>5. QED  BY <1>1, <1>2, <2>2, <2>4
<1>13. ~erred' /\ ~failed' /\ fresh' = {} /\ locked' = repo'.locked \cap present'
  BY <1>1, <1>7
<1>14. QED  BY <1>1, <1>4, <1>9, <1>10, <1>11, <1>12, <1>13 DEF AloneTags

LEMMA AloneSettleInv ==
    ASSUME TagInv, AloneTags, Alone, NEW t \in Tag,
           TagGone(t) \/ TagRefused(t) \/ TagCancelled(t) \/ TagFails(t)
    PROVE  AloneTags'
<1>1. /\ pc = "purge" /\ t \in batch /\ batch' = batch \ {t}
      /\ UNCHANGED <<repo, fresh, pc, cursor, more, kept, chosen, unlock, count, failed>>
      /\ t \in locked => t \in unlock
      /\ ~erred /\ ~repo.faults /\ ~repo.interference
  BY DEF TagGone, TagRefused, TagCancelled, TagFails, Settle, Alone, AloneTags
<1>2. TagGone(t)
  BY <1>1 DEF TagRefused, TagCancelled, TagFails
<1>3. /\ present' = present \ {t} /\ locked' = locked \ {t} /\ hit' = hit + 1 /\ erred' = erred
      /\ hit \in Nat /\ count \in Nat /\ t \in chosen /\ t \in AllTagsListed /\ ~repo.dryRun
  BY <1>1, <1>2, KeptAndChosenFinite DEF TagGone, TagInv
<1>4. /\ kept' = TagsAt(KeptTo(cursor))' /\ chosen' = TagsAt(ChosenTo(cursor))'
  BY <1>1, CandidatesStay DEF AloneTags
<1>5. chosen' \ batch' = (chosen \ batch) \cup {t} /\ t \notin chosen \ batch
  BY <1>1, <1>3
<1>6. IsFiniteSet(chosen \ batch) /\ Cardinality(chosen \ batch) \in Nat
  BY KeptAndChosenFinite, FS_Subset, FS_CardinalityType
<1>7. Cardinality(chosen' \ batch') = Cardinality(chosen \ batch) + 1
  BY <1>5, <1>6, FS_AddElement
<1>8. (AllTagsListed \ present)' = chosen' \ batch'
  BY <1>1, <1>3, <1>5, CandidatesStay DEF AloneTags
<1>9. count' + hit' = Cardinality(chosen' \ batch')
  BY <1>1, <1>3, <1>6, <1>7 DEF AloneTags
<1>10. locked' = repo'.locked \cap present'
  BY <1>1, <1>3 DEF AloneTags
<1>11. fresh' = {} /\ ~erred' /\ ~failed' /\ (~more' \/ pc' = "returned" => cursor' = Len(repo'.order))
       /\ (pc' = "purge" => batch' \cap locked' \subseteq unlock')
  BY <1>1, <1>3 DEF AloneTags
<1>12. QED  BY <1>1, <1>3, <1>4, <1>8, <1>9, <1>10, <1>11 DEF AloneTags

\* The batch returns without an error, or the listing has ended.
LEMMA AlonePagesEndInv ==
    ASSUME TagInv, AloneTags, Alone, BatchReturns \/ ListNothing \/ ListFails
    PROVE  AloneTags'
<1>1. /\ UNCHANGED <<repo, present, locked, fresh, cursor, kept, chosen, batch, hit, erred, unlock, failed>>
      /\ batch = {} /\ pc' \in {"list", "returned"}
      /\ count' = count + (IF pc = "purge" THEN hit ELSE 0) /\ count \in Nat
      /\ \/ BatchReturns /\ more' = more /\ (pc' = "returned" => ~more)
         \/ ListNothing
  BY DEF BatchReturns, ListNothing, ListFails, TagInv, batchVars, registryVars, AloneTags, Alone
<1>2. ~more' \/ pc' = "returned" => cursor' = Len(repo'.order)
  <2>1. CASE BatchReturns
    BY <1>1, <2>1 DEF AloneTags, BatchReturns, ListNothing
  <2>2. CASE ListNothing
    <3>1. /\ Behind = {} /\ Behind = cursor + 1 .. Len(repo.order)
          /\ cursor \in Nat /\ Len(repo.order) \in Nat /\ cursor <= Len(repo.order)
      BY <2>2, PageIsPrefix, AlonePage, OrderIsInjective DEF ListNothing, TagInv
    <3>2. ~(cursor < Len(repo.order))
      <4>1. SUFFICES ASSUME cursor < Len(repo.order)  PROVE FALSE
        OBVIOUS
      <4>2. Len(repo.order) \in cursor + 1 .. Len(repo.order)
        BY <3>1, <4>1
      <4>3. QED  BY <3>1, <4>2
    <3>3. QED  BY <1>1, <3>1, <3>2
  <2>3. QED  BY <1>1, <2>1, <2>2
<1>3. /\ kept' = TagsAt(KeptTo(cursor))' /\ chosen' = TagsAt(ChosenTo(cursor))'
      /\ AllTagsListed' = AllTagsListed
  BY <1>1, CandidatesStay DEF AloneTags
<1>4. QED  BY <1>1, <1>2, <1>3 DEF AloneTags

LEMMA AloneTagsStutter ==
    ASSUME AloneTags, UNCHANGED tagVars
    PROVE  AloneTags'
<1>1. /\ UNCHANGED <<repo, present, locked, fresh, pc, cursor, more, kept, chosen, batch, unlock>>
      /\ UNCHANGED <<hit, erred, count, failed>>
  BY DEF tagVars, vars, registryVars, batchVars
<1>2. /\ kept' = TagsAt(KeptTo(cursor))' /\ chosen' = TagsAt(ChosenTo(cursor))'
      /\ AllTagsListed' = AllTagsListed
  BY <1>1, CandidatesStay DEF AloneTags
<1>3. QED  BY <1>1, <1>2 DEF AloneTags

LEMMA AloneTagsInv ==
    ASSUME RepositoryInv, AloneTags, Alone, [RepositoryNext]_allVars
    PROVE  AloneTags'
<1>1. TagInv /\ KeepInv /\ HitInv
  BY DEF RepositoryInv, TagsInv
<1>2. CASE TagsStep \/ TagsFault
  BY <1>1, <1>2, AloneListPageInv, AloneSettleInv, AlonePagesEndInv
     DEF TagsStep, TagsFault, Answered, Failed
<1>3. CASE OtherClientsStep
  BY <1>3 DEF OtherClientsStep, OtherClient, Alone
<1>4. CASE ManifestStep \/ ManifestFault \/ UNCHANGED allVars
  BY <1>4, ManifestStepsKeepTags, AloneTagsStutter DEF allVars, tagVars
<1>5. QED  BY <1>2, <1>3, <1>4 DEF RepositoryNext

-----------------------------------------------------------------------------
(***************************************************************************)
(* A run that nobody disturbs: what it deletes is what the dry run says.   *)
(***************************************************************************)

\* At the end of the listing the purgeable tags have been chosen.
LEMMA AloneChoosesPurgeable ==
    ASSUME TagInv, AloneTags, cursor = Len(repo.order)
    PROVE  chosen = Purgeable
<1>1. /\ repo \in Repos /\ Len(repo.order) \in Nat /\ Candidates \subseteq Positions
      /\ Positions \subseteq Int
      /\ \A i, j \in Positions : repo.order[i] = repo.order[j] => i = j
  BY OrderIsInjective, CandidatesAreFinite DEF TagInv
<1>2. chosen = TagsAt({i \in Candidates : Rank(i) >= repo.keep})
  <2>1. \A i \in Candidates : i <= cursor
    BY <1>1 DEF Positions
  <2>2. ChosenTo(cursor) = {i \in Candidates : Rank(i) >= repo.keep}
    BY <2>1 DEF ChosenTo
  <2>3. QED  BY <2>2 DEF AloneTags
<1> DEFINE Rivals(t) ==
             {u \in repo.matching \cap repo.old :
                Newer(u, t) /\ (repo.includeLocked \/ u \notin repo.locked)}
<1>3. ASSUME NEW i \in Positions  PROVE Cardinality(Rivals(repo.order[i])) = Rank(i)
  <2> DEFINE S == {j \in Candidates : j < i}
  <2>1. Rivals(repo.order[i]) \subseteq TagsAt(S)
    <3>1. SUFFICES ASSUME NEW u \in Rivals(repo.order[i])  PROVE u \in TagsAt(S)
      OBVIOUS
    <3>2. PICK j \in Positions, k \in Positions :
             j < k /\ repo.order[j] = u /\ repo.order[k] = repo.order[i]
      BY DEF Newer, Positions
    <3>3. k = i
      BY <1>1, <3>2
    <3>4. j \in S
      BY <3>2, <3>3 DEF Candidates
    <3>5. QED  BY <3>2, <3>4 DEF TagsAt
  <2>2. TagsAt(S) \subseteq Rivals(repo.order[i])
    <3>1. SUFFICES ASSUME NEW j \in S  PROVE repo.order[j] \in Rivals(repo.order[i])
      BY DEF TagsAt
    <3>2. j \in Positions /\ j < i
      BY <1>1
    <3>3. Newer(repo.order[j], repo.order[i])
      BY <3>2 DEF Newer, Positions
    <3>4. QED  BY <3>3 DEF Candidates
  <2>3. S \in SUBSET Positions
    BY <1>1
  <2>4. Rivals(repo.order[i]) = TagsAt(S)
    BY <2>1, <2>2
  <2> HIDE DEF Rivals, S
  <2>5. Cardinality(TagsAt(S)) = Cardinality(S)
    BY <1>1, <2>3, TagsAtCount
  <2>6. QED  BY <2>4, <2>5 DEF Rank, S
<1>4. Purgeable = {t \in AllTagsListed : /\ t \in repo.matching \cap repo.old
                                         /\ repo.includeLocked \/ t \notin repo.locked
                                         /\ Cardinality(Rivals(t)) >= repo.keep}
  BY DEF Purgeable, AllTagsListed, Positions
<1> HIDE DEF Rivals
<1>5. ASSUME NEW i \in Positions
      PROVE  repo.order[i] \in Purgeable <=> i \in Candidates /\ Rank(i) >= repo.keep
  <2>1. repo.order[i] \in AllTagsListed
    BY DEF AllTagsListed, TagsAt
  <2>2. QED  BY <1>3, <1>4, <2>1 DEF Candidates
<1>6. Purgeable \subseteq AllTagsListed
  BY <1>4
<1>7. Purgeable \subseteq TagsAt({i \in Candidates : Rank(i) >= repo.keep})
  BY <1>5, <1>6 DEF AllTagsListed, TagsAt
<1>8. TagsAt({i \in Candidates : Rank(i) >= repo.keep}) \subseteq Purgeable
  BY <1>1, <1>5 DEF TagsAt
<1>9. QED  BY <1>2, <1>7, <1>8

\* The selection depends on the tags only in what it protects.
LEMMA SelectionFollowsProtection ==
    ASSUME NEW r, NEW s,
           r.listing = s.listing, r.locked = s.locked, r.includeLocked = s.includeLocked,
           r.unlabelled = s.unlabelled, r.kind = s.kind, r.subject = s.subject,
           r.children = s.children, r.gone = s.gone, r.preserveAll = s.preserveAll,
           \A d \in M!Listed(r) : M!Protected(r, d) <=> M!Protected(s, d)
    PROVE  M!Selected(r) = M!Selected(s)
<1>1. M!Listed(r) = M!Listed(s)
  BY DEF M!Listed
<1>2. \A d : /\ M!LockedOut(r, d) <=> M!LockedOut(s, d)
             /\ M!MaybeList(r, d) <=> M!MaybeList(s, d)
             /\ M!KeptItself(r, d) <=> M!KeptItself(s, d)
             /\ M!ReferrerIndex(r, d) <=> M!ReferrerIndex(s, d)
             /\ M!Kids(r, d) = M!Kids(s, d)
  BY DEF M!LockedOut, M!MaybeList, M!IsList, M!KeptItself, M!ReferrerIndex, M!Kids
<1>3. M!Shields(r) = M!Shields(s)
  BY <1>1, <1>2 DEF M!Shields
<1>4. \A S : M!ClosedUnderKids(r, S) <=> M!ClosedUnderKids(s, S)
  BY <1>2 DEF M!ClosedUnderKids
<1>5. UNION {M!Kids(r, d) : d \in M!Shields(r)} = UNION {M!Kids(s, d) : d \in M!Shields(s)}
  BY <1>2, <1>3
<1>6. M!Shielded(r) = M!Shielded(s)
  BY <1>4, <1>5 DEF M!Shielded
<1>7. M!Eligible(r) = M!Eligible(s)
  BY <1>1, <1>2 DEF M!Eligible
<1>8. QED  BY <1>6, <1>7 DEF M!Selected

\* What the scan would be called with in a real run once TagsToGo are gone.
Left ==
    [Scanned EXCEPT
       !.tags = [d \in Digest |-> Cardinality({t \in AllTagsListed \ TagsToGo : store.of[t] = d})],
       !.dryRun = FALSE]

LEMMA AloneSelection ==
    ASSUME TagInv, store \in Stores, repo.dryRun \in BOOLEAN, fresh = {}, chosen = TagsToGo,
           AllTagsListed \ present = IF repo.dryRun THEN {} ELSE TagsToGo
    PROVE  M!Selected(Scanned) = M!Selected(Left)
<1>1. \A d \in Digest : Left.tags[d] = Cardinality({t \in AllTagsListed \ TagsToGo : store.of[t] = d})
  BY DEF Left, Scanned
<1>2. /\ ~Left.dryRun /\ Left.planned = Scanned.planned /\ Left.cutoff = Scanned.cutoff
      /\ Left.undated = Scanned.undated /\ Left.updated = Scanned.updated
  BY DEF Left, Scanned
<1>3. ASSUME NEW d \in M!Listed(Scanned)
      PROVE  M!ProtectedByTags(Scanned, d) <=> M!ProtectedByTags(Left, d)
  <2> DEFINE A == TagsOf(d)
             P == {t \in chosen : store.of[t] = d}
             L == {t \in AllTagsListed \ TagsToGo : store.of[t] = d}
  <2>1. d \in Digest
    BY ListedIsFinite
  <2>2. /\ Scanned.tags[d] = Cardinality(A) /\ Scanned.planned[d] = Cardinality(P)
        /\ Scanned.dryRun = repo.dryRun
    BY <2>1 DEF Scanned, Planned
  <2>3. Left.tags[d] = Cardinality(L)
    BY <1>1, <2>1
  <2>4. chosen \subseteq AllTagsListed /\ present \subseteq AllTagsListed
        /\ IsFiniteSet(AllTagsListed)
    BY KeptAndChosenFinite DEF TagInv
  <2>5. /\ IsFiniteSet(A) /\ IsFiniteSet(P) /\ IsFiniteSet(L)
        /\ Cardinality(A) \in Nat /\ Cardinality(P) \in Nat /\ Cardinality(L) \in Nat
    <3>1. A \subseteq AllTagsListed /\ P \subseteq AllTagsListed /\ L \subseteq AllTagsListed
      BY <2>4 DEF TagsOf
    <3>2. QED  BY <2>4, <3>1, FS_Subset, FS_CardinalityType
  <2>6. CASE ~repo.dryRun
    <3>1. present = AllTagsListed \ TagsToGo
      BY <2>4, <2>6
    <3>2. A = L
      BY <3>1 DEF TagsOf
    <3>3. QED  BY <1>2, <2>2, <2>3, <2>6, <3>2 DEF M!ProtectedByTags
  <2>7. CASE repo.dryRun
    <3>1. present = AllTagsListed
      BY <2>4, <2>7
    <3>2. A = P \cup L /\ P \cap L = {}
      BY <2>4, <3>1 DEF TagsOf
    <3> HIDE DEF A, P, L
    <3>3. Cardinality(A) = Cardinality(P) + Cardinality(L)
      <4>1. Cardinality(P \cup L) = Cardinality(P) + Cardinality(L) - Cardinality({})
        BY <2>5, <3>2, FS_Union
      <4>2. QED  BY <2>5, <3>2, <4>1, FS_EmptySet
    <3>4. QED  BY <1>2, <2>2, <2>3, <2>5, <2>7, <3>3 DEF M!ProtectedByTags
  <2>8. QED  BY <2>6, <2>7
<1>4. \A d \in M!Listed(Scanned) : M!Protected(Scanned, d) <=> M!Protected(Left, d)
  BY <1>2, <1>3 DEF M!Protected, M!ProtectedByAge
<1>5. /\ Left.listing = Scanned.listing /\ Left.locked = Scanned.locked
      /\ Left.includeLocked = Scanned.includeLocked
      /\ Left.unlabelled = Scanned.unlabelled /\ Left.kind = Scanned.kind
      /\ Left.subject = Scanned.subject /\ Left.children = Scanned.children
      /\ Left.gone = Scanned.gone /\ Left.preserveAll = Scanned.preserveAll
  BY DEF Left, Scanned
<1> HIDE DEF Left
<1>6. QED  BY <1>4, <1>5, SelectionFollowsProtection

\* The order of the manifests.
Sooner == {p \in Digest \X Digest : SortedBefore(p[1], p[2])}

LEMMA SoonerIsAnOrder ==
    ASSUME store \in Stores, NEW S \in SUBSET Digest
    PROVE  /\ StrictOrder(Sooner, S)
           /\ \A d, e \in Digest : <<d, e>> \in Sooner <=> SortedBefore(d, e)
           /\ \A d \in S : Before(Sooner, S, d) = {e \in S : SortedBefore(e, d)}
<1>1. /\ store.updated \in [Digest -> Nat] /\ store.rank \in [Digest -> Nat]
      /\ \A d, e \in Digest : store.rank[d] = store.rank[e] => d = e
  BY PurgeRepositoryAssumption DEF Store
<1>2. \A d, e \in Digest : <<d, e>> \in Sooner <=> SortedBefore(d, e)
  BY DEF Sooner
<1>3. \A d \in Digest : store.updated[d] \in Nat /\ store.rank[d] \in Nat
  BY <1>1
<1>4. ASSUME NEW d \in S  PROVE ~SortedBefore(d, d)
  BY <1>3 DEF SortedBefore
<1>5. ASSUME NEW d \in S, NEW e \in S, NEW f \in S, SortedBefore(d, e), SortedBefore(e, f)
      PROVE  SortedBefore(d, f)
  BY <1>3, <1>5 DEF SortedBefore
<1>6. ASSUME NEW d \in S, NEW e \in S, d # e  PROVE SortedBefore(d, e) \/ SortedBefore(e, d)
  BY <1>1, <1>3, <1>6 DEF SortedBefore
<1>7. StrictOrder(Sooner, S)
  BY <1>2, <1>4, <1>5, <1>6 DEF StrictOrder
<1>8. \A d \in S : Before(Sooner, S, d) = {e \in S : SortedBefore(e, d)}
  BY <1>2 DEF Before
<1>9. QED  BY <1>2, <1>7, <1>8

\* How many are kept of N: as many as keep says, if there are.
LEMMA KeepOf ==
    ASSUME NEW k \in Int, NEW N \in Nat
    PROVE  LET n == Min({Max({k, 0}), N})
           IN  /\ n \in Nat /\ n <= N
               /\ k <= 0 => n = 0
               /\ 0 <= k /\ k <= N => n = k
               /\ k >= N => n = N
<1> DEFINE a == Max({k, 0})
<1>1. a = IF k >= 0 THEN k ELSE 0
  <2>1. \E x \in {k, 0} : \A y \in {k, 0} : x >= y
    OBVIOUS
  <2>2. a \in {k, 0} /\ \A y \in {k, 0} : a >= y
    BY <2>1 DEF Max
  <2>3. QED  BY <2>2
<1>2. a \in Nat
  BY <1>1
<1> HIDE DEF a
<1>3. Min({a, N}) = IF a <= N THEN a ELSE N
  <2>1. \E x \in {a, N} : \A y \in {a, N} : x <= y
    BY <1>2
  <2>2. Min({a, N}) \in {a, N} /\ \A y \in {a, N} : Min({a, N}) <= y
    BY <2>1 DEF Min
  <2>3. QED  BY <1>2, <2>2
<1>4. QED  BY <1>1, <1>2, <1>3 DEF a

\* sortManifestsByTime and the slice behind keep: BehindKeep is the only choice.
LEMMA BehindKeepIsChosen ==
    ASSUME store \in Stores, repo \in Repos, NEW S \in SUBSET Digest, IsFiniteSet(S)
    PROVE  BehindKeep(S) =
             CHOOSE D \in SUBSET S :
                /\ Cardinality(S \ D) = Min({Max({repo.keep, 0}), Cardinality(S)})
                /\ \A d \in D, e \in S \ D : SortedBefore(e, d)
<1> DEFINE k == repo.keep
           n == Min({Max({k, 0}), Cardinality(S)})
           F == FirstOf(Sooner, S, k)
           IsChosen(D) == /\ Cardinality(S \ D) = n
                          /\ \A d \in D, e \in S \ D : SortedBefore(e, d)
<1>1. k \in Int /\ Cardinality(S) \in Nat
  BY OrderIsInjective, FS_CardinalityType
<1>2. /\ StrictOrder(Sooner, S)
      /\ \A d, e \in Digest : <<d, e>> \in Sooner <=> SortedBefore(d, e)
      /\ \A d \in S : Before(Sooner, S, d) = {e \in S : SortedBefore(e, d)}
  BY SoonerIsAnOrder
<1>3. /\ n \in Nat /\ n <= Cardinality(S)
      /\ k <= 0 => n = 0
      /\ 0 <= k /\ k <= Cardinality(S) => n = k
      /\ k >= Cardinality(S) => n = Cardinality(S)
  BY <1>1, KeepOf
<1>4. BehindKeep(S) = S \ F
  <2>1. \A d \in S : Cardinality(Before(Sooner, S, d)) \in Nat
    BY <1>2, BeforeGrows
  <2>2. QED  BY <1>1, <1>2, <2>1 DEF BehindKeep, FirstOf
<1> HIDE DEF k, n
<1>5. /\ F \subseteq S
      /\ \A x \in F, y \in S \ F : <<x, y>> \in Sooner
      /\ k <= 0 => F = {}
      /\ k >= Cardinality(S) => F = S
      /\ 0 <= k /\ k <= Cardinality(S) => Cardinality(F) = k
  BY <1>1, <1>2, FirstAreFirst
<1> HIDE DEF F
<1>6. Cardinality(F) = n
  BY <1>1, <1>3, <1>5, FS_EmptySet
<1>7. IsChosen(S \ F)
  <2>1. S \ (S \ F) = F
    BY <1>5
  <2>2. QED  BY <1>2, <1>5, <1>6, <2>1
<1>8. F = FirstOf(Sooner, S, n)
  BY <1>2, <1>3, <1>5, <1>6, FirstAreUnique
<1>9. ASSUME NEW D \in SUBSET S, IsChosen(D)  PROVE D = S \ F
  <2> DEFINE K == S \ D
  <2>1. K \in SUBSET S /\ Cardinality(K) = n
    BY <1>9
  <2>2. \A x \in K, y \in S \ K : <<x, y>> \in Sooner
    BY <1>2, <1>9
  <2> HIDE DEF K
  <2>3. K = FirstOf(Sooner, S, n)
    BY <1>2, <1>3, <2>1, <2>2, FirstAreUnique
  <2>4. K = F
    BY <1>8, <2>3
  <2>5. QED  BY <2>4 DEF K
<1>10. (CHOOSE D \in SUBSET S : IsChosen(D)) = S \ F
  <2> HIDE DEF IsChosen
  <2>1. S \ F \in SUBSET S
    OBVIOUS
  <2>2. QED  BY <1>7, <1>9, <2>1
<1>11. QED  BY <1>4, <1>10 DEF n, k

\* What the manifests that should go are, once the tags are gone.
LEMMA ManifestsToGoIs ==
    ASSUME TagInv, store \in Stores, fresh = {}, chosen = TagsToGo,
           AllTagsListed \ present = IF repo.dryRun THEN {} ELSE TagsToGo
    PROVE  /\ store.removeUntagged => ManifestsToGo = BehindKeep(M!Selected(Scanned))
           /\ ~store.removeUntagged => ManifestsToGo = {}
<1>1. M!Selected(Left) = M!Selected(Scanned)
  BY AloneSelection, OrderIsInjective DEF TagInv
<1> DEFINE S == M!Selected(Scanned)
           ToGo(A) == CHOOSE D \in SUBSET A :
                        /\ Cardinality(A \ D) = Min({Max({repo.keep, 0}), Cardinality(A)})
                        /\ \A d \in D, e \in A \ D : SortedBefore(e, d)
<1>2. ManifestsToGo = IF ~store.removeUntagged THEN {} ELSE ToGo(M!Selected(Left))
  BY DEF ManifestsToGo, Left, AllTagsListed, Positions
<1>3. S \in SUBSET Digest /\ IsFiniteSet(S) /\ repo \in Repos
  BY SelectedAreListed, ListedIsFinite, FS_Subset DEF TagInv
<1> HIDE DEF S
<1>4. BehindKeep(S) = ToGo(S)
  BY <1>3, BehindKeepIsChosen
<1> HIDE DEF ToGo
<1>5. QED  BY <1>1, <1>2, <1>4 DEF S

\* It depends on nothing the purge of the manifests changes.
LEMMA ToGoStays ==
    ASSUME UNCHANGED <<tagVars, store>>
    PROVE  ManifestsToGo' = ManifestsToGo /\ TagsToGo' = TagsToGo
           /\ AllTagsListed' = AllTagsListed /\ M!Listed(store)' = M!Listed(store)
<1>1. UNCHANGED <<repo, store>>
  BY DEF tagVars, vars, registryVars
<1>2. /\ TagsToGo' = TagsToGo /\ AllTagsListed' = AllTagsListed
      /\ TagsAt(1..Len(repo.order))' = TagsAt(1..Len(repo.order))
  BY <1>1 DEF TagsToGo, Purgeable, Newer, TagsAt, AllTagsListed, Positions
<1>3. Scanned' = Scanned /\ M!Listed(store)' = M!Listed(store)
  BY ScannedStays
<1>4. Left' = Left
  BY <1>1, <1>2, <1>3 DEF Left
<1>5. M!Selected(Left)' = M!Selected(Left)
  BY <1>4 DEF M!Selected, M!Eligible, M!Shielded, M!Listed, M!LockedOut, M!Protected,
              M!ProtectedByTags, M!ProtectedByAge, M!KeptItself, M!Kids, M!Shields, M!MaybeList,
              M!IsList, M!ReferrerIndex, M!ClosedUnderKids
<1> DEFINE S == M!Selected(Left)
           Sound(D) == /\ Cardinality(S \ D) = Min({Max({repo.keep, 0}), Cardinality(S)})
                       /\ \A d \in D, e \in S \ D : SortedBefore(e, d)
           foremost == CHOOSE D : D \in SUBSET S /\ Sound(D)
<1>6. ManifestsToGo = IF ~store.removeUntagged THEN {} ELSE foremost
  BY DEF ManifestsToGo, Left, AllTagsListed, Positions
<1>7. ManifestsToGo' = IF ~store'.removeUntagged THEN {} ELSE foremost'
  BY DEF ManifestsToGo, Left, AllTagsListed, Positions
<1>8. \A D : Sound(D)' <=> Sound(D)
  <2>1. \A d, e : SortedBefore(e, d)' <=> SortedBefore(e, d)
    BY <1>1 DEF SortedBefore
  <2>2. S' = S /\ repo' = repo
    BY <1>1, <1>5
  <2> HIDE DEF S
  <2>3. QED  BY <2>1, <2>2
<1>9. S' = S
  BY <1>5
<1> HIDE DEF S, Sound
<1>10. ManifestsToGo' = ManifestsToGo
  <2>1. foremost' = foremost
    BY <1>8, <1>9
  <2> HIDE DEF foremost
  <2>2. QED  BY <1>1, <1>6, <1>7, <2>1
<1>11. QED  BY <1>2, <1>3, <1>10

LEMMA AloneAfterTagsInv ==
    ASSUME TagInv, StoreInv, AloneTags, AloneStore, AfterTags
    PROVE  AloneStore'
<1>1. /\ UNCHANGED <<tagVars, store, manifests, selected, doomed, queue, deleted, batchErred>>
      /\ UNCHANGED <<manifestCount, manifestsFailed>>
      /\ stage = "tags" /\ (store.untaggedOnly \/ pc = "returned")
      /\ stage' = IF store.removeUntagged THEN "manifests" ELSE "returned"
      /\ UNCHANGED <<repo, chosen, count, batch, present>>
  BY DEF AfterTags, AloneTags, tagVars, vars, registryVars, batchVars
<1>2. doomed = {} /\ queue = {} /\ manifests = M!Listed(store)
  BY <1>1 DEF StoreInv
<1>3. chosen = TagsToGo /\ count = Cardinality(chosen) /\ batch = {}
  <2>1. CASE store.untaggedOnly
    BY <1>1, <2>1, FS_EmptySet DEF AloneStore, TagsToGo, TagInv
  <2>2. CASE ~store.untaggedOnly
    <3>1. pc = "returned" /\ batch = {} /\ cursor = Len(repo.order)
      BY <1>1, <2>2 DEF TagInv, AloneTags
    <3>2. chosen = TagsToGo
      BY <2>2, <3>1, AloneChoosesPurgeable DEF TagsToGo
    <3>3. chosen \ batch = chosen /\ count \in Nat /\ count + 0 = Cardinality(chosen \ batch)
      BY <3>1 DEF TagInv, AloneTags
    <3>4. QED  BY <3>1, <3>2, <3>3
  <2>3. QED  BY <2>1, <2>2
<1>4. AllTagsListed \ present = IF repo.dryRun THEN {} ELSE TagsToGo
  BY <1>3 DEF AloneTags
<1>5. /\ stage' # "tags" =>
           /\ chosen' = TagsToGo' /\ count' = Cardinality(TagsToGo') /\ batch' = {}
           /\ AllTagsListed' \ present' = IF repo'.dryRun THEN {} ELSE TagsToGo'
      /\ stage' # "tags"
  BY <1>1, <1>3, <1>4, ToGoStays
<1>6. /\ M!Listed(store)' \ manifests' = doomed' \ queue' /\ doomed' \ queue' = {}
      /\ deleted' = Cardinality(doomed' \ queue')
  BY <1>1, <1>2, ToGoStays DEF AloneStore
<1>7. stage' = "returned" => ManifestsToGo' = {} /\ manifestCount' = Cardinality({})
  <2>1. ~store.removeUntagged => ManifestsToGo = {}
    BY DEF ManifestsToGo
  <2>2. manifestCount = 0
    BY <1>1 DEF AloneStore
  <2>3. QED  BY <1>1, <2>1, <2>2, ToGoStays, FS_EmptySet
<1>8. QED  BY <1>1, <1>5, <1>6, <1>7 DEF AloneStore

\* The tags are purged, and the manifests are as they are.
LEMMA AlonePurgesTags ==
    ASSUME AloneStore, stage = "tags", ~store.untaggedOnly, UNCHANGED manifestVars
    PROVE  AloneStore'
<1>1. UNCHANGED <<store, stage, manifests, doomed, queue, deleted, batchErred, manifestCount,
                  manifestsFailed>>
  BY DEF manifestVars
<1>2. M!Listed(store)' = M!Listed(store)
  BY <1>1 DEF M!Listed
<1>3. QED  BY <1>1, <1>2 DEF AloneStore

LEMMA AloneScanInv ==
    ASSUME TagInv, StoreInv, AloneTags, AloneStore, Scan
    PROVE  AloneStore'
<1>1. /\ UNCHANGED <<tagVars, store, manifests, deleted, batchErred, manifestsFailed>>
      /\ UNCHANGED <<repo, chosen, count, batch, present>>
      /\ stage = "manifests" /\ store.removeUntagged /\ store \in Stores
      /\ doomed' = BehindKeep(M!Selected(Scanned)) /\ doomed = {} /\ queue = {}
      /\ manifests = M!Listed(store) /\ deleted = Cardinality(doomed \ queue)
      /\ repo.dryRun \in BOOLEAN
  BY OrderIsInjective
     DEF Scan, StoreInv, AloneStore, tagVars, vars, registryVars, batchVars, TagInv
<1>2. doomed' = ManifestsToGo
  BY <1>1, ManifestsToGoIs DEF AloneTags, AloneStore
<1>3. doomed' = ManifestsToGo' /\ M!Listed(store)' = M!Listed(store)
  BY <1>1, <1>2, ToGoStays
<1>4. \/ /\ repo.dryRun /\ queue' = {} /\ stage' = "returned"
         /\ manifestCount' = Cardinality(doomed')
      \/ ~repo.dryRun /\ queue' = doomed' /\ stage' = "deleting"
  BY <1>1 DEF Scan
<1>5. stage' # "tags" =>
        /\ chosen' = TagsToGo' /\ count' = Cardinality(TagsToGo') /\ batch' = {}
        /\ AllTagsListed' \ present' = IF repo'.dryRun THEN {} ELSE TagsToGo'
  BY <1>1, ToGoStays DEF AloneStore
<1>6. /\ ~batchErred' /\ ~manifestsFailed' /\ stage' \notin {"tags", "manifests"}
  BY <1>1, <1>4 DEF AloneStore
<1>7. stage' = "deleting" =>
        /\ store'.removeUntagged /\ doomed' = ManifestsToGo' /\ ~repo'.dryRun
        /\ M!Listed(store)' \ manifests' = doomed' \ queue'
        /\ deleted' = Cardinality(doomed' \ queue')
  <2>1. ASSUME ~repo.dryRun, queue' = doomed'
        PROVE  M!Listed(store)' \ manifests' = doomed' \ queue' /\ doomed' \ queue' = doomed \ queue
    BY <1>1, <1>3, <2>1
  <2>2. QED  BY <1>1, <1>3, <1>4, <2>1
<1>8. stage' = "returned" =>
        /\ manifestCount' = Cardinality(ManifestsToGo')
        /\ M!Listed(store)' \ manifests' = IF repo'.dryRun THEN {} ELSE ManifestsToGo'
  BY <1>1, <1>3, <1>4
<1>9. QED  BY <1>5, <1>6, <1>7, <1>8 DEF AloneStore

LEMMA AloneManifestInv ==
    ASSUME StoreInv, DeletedInv, AloneStore, Alone, NEW d \in Digest,
           ManifestGone(d) \/ ManifestRefused(d) \/ ManifestFails(d) \/ ManifestCancelled(d)
    PROVE  AloneStore'
<1>1. ManifestGone(d)
  BY DEF ManifestRefused, ManifestFails, ManifestCancelled, Alone, AloneStore
<1>2. /\ UNCHANGED <<tagVars, store, stage, selected, doomed, manifestCount, manifestsFailed,
                     batchErred>>
      /\ UNCHANGED <<repo, chosen, count, batch, present>>
      /\ stage = "deleting" /\ d \in queue /\ queue' = queue \ {d}
      /\ manifests' = manifests \ {d} /\ deleted' = deleted + 1
  BY <1>1 DEF ManifestGone, SettleManifest, tagVars, vars, registryVars, batchVars
<1>3. /\ queue \subseteq doomed /\ d \in M!Listed(store)
      /\ M!Listed(store) \ manifests = doomed \ queue /\ deleted = Cardinality(doomed \ queue)
  BY <1>2 DEF StoreInv, AloneStore
<1>4. IsFiniteSet(doomed \ queue)
  BY DoomedIsFinite
<1>5. doomed' \ queue' = (doomed \ queue) \cup {d} /\ d \notin doomed \ queue
  BY <1>2, <1>3
<1>6. deleted' = Cardinality(doomed' \ queue')
  BY <1>2, <1>3, <1>4, <1>5, FS_AddElement
<1>7. M!Listed(store)' \ manifests' = doomed' \ queue'
  BY <1>2, <1>3, <1>5, ToGoStays
<1>8. QED  BY <1>2, <1>6, <1>7, ToGoStays DEF AloneStore

LEMMA AloneManifestsDoneInv ==
    ASSUME AloneStore, ManifestsDone
    PROVE  AloneStore'
<1>1. /\ UNCHANGED <<tagVars, store, manifests, selected, doomed, queue, deleted, batchErred>>
      /\ UNCHANGED <<repo, chosen, count, batch, present, manifestsFailed>>
      /\ stage = "deleting" /\ queue = {} /\ stage' = "returned" /\ manifestCount' = deleted
  BY DEF ManifestsDone, AloneStore, tagVars, vars, registryVars, batchVars
<1>2. /\ doomed = ManifestsToGo /\ ~repo.dryRun
      /\ M!Listed(store) \ manifests = doomed \ queue /\ deleted = Cardinality(doomed \ queue)
  BY <1>1 DEF AloneStore
<1>3. doomed \ queue = ManifestsToGo
  BY <1>1, <1>2
<1>4. /\ manifestCount' = Cardinality(ManifestsToGo')
      /\ M!Listed(store)' \ manifests' = IF repo'.dryRun THEN {} ELSE ManifestsToGo'
  BY <1>1, <1>2, <1>3, ToGoStays
<1>5. QED  BY <1>1, <1>4, ToGoStays DEF AloneStore

LEMMA AloneStoreStutter ==
    ASSUME AloneStore, UNCHANGED allVars
    PROVE  AloneStore'
<1>1. /\ UNCHANGED <<tagVars, store, stage, manifests, doomed, queue, deleted, batchErred>>
      /\ UNCHANGED <<repo, chosen, count, batch, present, manifestCount, manifestsFailed>>
  BY DEF allVars, manifestVars, tagVars, vars, registryVars, batchVars
<1>2. QED  BY <1>1, ToGoStays DEF AloneStore

LEMMA AloneNextInv == RepositoryInv /\ AloneInv /\ [RepositoryNext]_allVars => AloneInv'
<1> SUFFICES ASSUME RepositoryInv, AloneInv, [RepositoryNext]_allVars, Alone'
             PROVE  AloneTags' /\ AloneStore'
  BY DEF AloneInv
<1>1. repo' = repo
  <2>1. CASE TagsStep \/ TagsFault \/ OtherClientsStep
    BY <2>1 DEF TagsStep, TagsFault, OtherClientsStep, Answered, Failed, OtherClient, ListPage,
                ListNothing, ListFails, BatchReturns, TagGone, TagRefused, TagFails,
                TagCancelled, Settle, registryVars
  <2>2. CASE ManifestStep \/ ManifestFault \/ UNCHANGED allVars
    BY <2>2, ManifestStepsKeepTags DEF allVars, tagVars, vars, registryVars
  <2>3. QED  BY <2>1, <2>2 DEF RepositoryNext
<1>2. Alone /\ AloneTags /\ AloneStore /\ TagInv /\ StoreInv /\ DeletedInv
  BY <1>1 DEF Alone, AloneInv, RepositoryInv, TagsInv
<1>3. AloneTags'
  BY <1>2, AloneTagsInv
<1>4. AloneStore'
  <2>1. CASE TagsStep \/ TagsFault \/ OtherClientsStep
    BY <1>2, <2>1, AlonePurgesTags DEF TagsStep, TagsFault, OtherClientsStep
  <2>2. CASE ManifestStep \/ ManifestFault
    BY <1>2, <2>2, AloneAfterTagsInv, AloneScanInv, AloneManifestInv, AloneManifestsDoneInv
       DEF ManifestStep, ManifestFault, ScanFails, Alone
  <2>3. CASE UNCHANGED allVars
    BY <1>2, <2>3, AloneStoreStutter
  <2>4. QED  BY <2>1, <2>2, <2>3 DEF RepositoryNext
<1>5. QED  BY <1>3, <1>4

LEMMA AloneInitInv == PurgeRepositoryInit => AloneInv
<1> SUFFICES ASSUME PurgeRepositoryInit  PROVE AloneTags /\ AloneStore
  BY DEF AloneInv
<1> USE DEF PurgeRepositoryInit, PurgeTagsInit
<1>1. /\ repo \in Repos /\ Len(repo.order) \in Nat
      /\ Candidates \subseteq Positions
  BY OrderIsInjective, CandidatesAreFinite
<1>2. KeptTo(cursor) = {} /\ ChosenTo(cursor) = {}
  <2>1. \A i \in Candidates : ~(i <= 0)
    BY <1>1 DEF Positions
  <2>2. QED  BY <2>1 DEF KeptTo, ChosenTo
<1>3. kept = TagsAt(KeptTo(cursor)) /\ chosen = TagsAt(ChosenTo(cursor))
  BY <1>2 DEF TagsAt
<1>4. AllTagsListed \ present = {} /\ chosen \ batch = {} /\ Cardinality({}) = 0
  BY FS_EmptySet DEF AllTagsListed, TagsAt, Positions
<1>5. AloneTags
  BY <1>3, <1>4 DEF AloneTags
<1>6. M!Listed(store) \ manifests = {} /\ doomed \ queue = {}
  BY DEF M!Listed
<1>7. AloneStore
  BY <1>4, <1>6 DEF AloneStore
<1>8. QED  BY <1>5, <1>7

\* purge --dry-run foretells what purge does: left alone and without errors,
\* the dry run and the real run report the same numbers of tags and manifests,
\* those of the tags behind the keep newest and of the manifests that have no
\* tags once these are gone; the real run deletes just them, on however many
\* pages they are, and the dry run deletes nothing.
THEOREM PurgeDryRunPredicts == PurgeRepositorySpec => []DryRunPredicts
<1>1. AloneInv => DryRunPredicts
  <2>1. TagsAt(1..Len(repo.order)) = AllTagsListed
    BY DEF AllTagsListed, Positions
  <2>2. QED  BY <2>1 DEF AloneInv, Alone, AloneStore, DryRunPredicts
<1>2. PurgeRepositorySpec => []AloneInv
  BY AloneInitInv, AloneNextInv, RepositoryCorrect, PTL DEF PurgeRepositorySpec, RepositoryNext
<1>3. QED  BY <1>1, <1>2, PTL
=============================================================================
