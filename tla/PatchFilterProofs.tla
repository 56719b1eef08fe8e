------------------------- MODULE PatchFilterProofs -------------------------
(***************************************************************************)
(* The safety properties of acr cssc patch --dry-run, for every filter,    *)
(* every set of tags, what others do to them while they are listed and     *)
(* every size of a page.                                                   *)
(***************************************************************************)
EXTENDS PatchFilter, FiniteSetTheorems, SequenceTheorems, TLAPS

-----------------------------------------------------------------------------
(***************************************************************************)
(* The invariants.                                                         *)
(***************************************************************************)

TypeInv ==
    /\ call \in Calls
    /\ phase \in {"start", "entry", "pages", "listed", "failed"}
    /\ entry \in 1..Len(call.entries) + 1
    /\ cursor \in Nat /\ tagList \subseteq Name
    /\ tags \in [DOMAIN call.tags -> SUBSET Name]
    /\ stayed \in [Entries -> SUBSET Name] /\ ever \in [Entries -> SUBSET Name]
    /\ phase \in {"entry", "pages"} => ValidateFilter
    /\ phase \in {"start", "entry"} => cursor = 0 /\ tagList = {}
    /\ phase = "pages" => entry \in Enabled
    /\ phase = "listed" => entry \notin Entries

\* What has stayed is there, what is there or is listed has been there, and
\* what has stayed is listed up to the cursor.
ListingInv ==
    phase = "pages" =>
        /\ stayed[entry] \subseteq tags[Current.repo] /\ tags[Current.repo] \subseteq ever[entry]
        /\ tagList \subseteq ever[entry]
        /\ \A t \in stayed[entry] : Position(t) <= cursor => t \in tagList

\* The entries before the current one are accounted for.
Finished == {i \in Enabled : i < entry}

AnswerInv ==
    /\ \A i \in Finished \ erred : EntryIsAccounted(i)
    /\ \A m \in artifactsNotFound : \E i \in Finished : IsMissing(m, i)

HighestInv ==
    MatchesAllPatches => \A r \in filteredRepos : \E i \in Finished : IsLatest(r, i)

PatchInv == TypeInv /\ ListingInv /\ AnswerInv /\ HighestInv

-----------------------------------------------------------------------------
(***************************************************************************)
(* Pages: the first of the positions behind the cursor.                    *)
(***************************************************************************)

Below(S, i) == {j \in S : j < i}

\* A position has fewer positions below it than a later one has.
LEMMA BelowGrows ==
    ASSUME NEW S \in SUBSET Int, IsFiniteSet(S), NEW i \in S
    PROVE  /\ Cardinality(S) \in Nat /\ Cardinality(Below(S, i)) \in Nat
           /\ Cardinality(Below(S, i)) < Cardinality(S)
           /\ \A j \in S : i < j => Cardinality(Below(S, i)) < Cardinality(Below(S, j))
<1>1. \A j \in S : IsFiniteSet(Below(S, j)) /\ Cardinality(Below(S, j)) \in Nat
  BY FS_Subset, FS_CardinalityType DEF Below
<1>2. Cardinality(S) \in Nat
  BY FS_CardinalityType
<1>3. Cardinality(Below(S, i)) < Cardinality(S)
  <2>1. Below(S, i) \in SUBSET S /\ Below(S, i) # S
    BY DEF Below
  <2>2. QED  BY <1>1, <1>2, <2>1, FS_Subset
<1>4. ASSUME NEW j \in S, i < j
      PROVE  Cardinality(Below(S, i)) < Cardinality(Below(S, j))
  <2>1. Below(S, i) \in SUBSET Below(S, j)
    <3>1. ASSUME NEW x \in S, x < i  PROVE x < j
      BY <3>1, <1>4
    <3>2. QED  BY <3>1 DEF Below
  <2>2. i \in Below(S, j) /\ i \notin Below(S, i)
    BY <1>4 DEF Below
  <2>3. QED  BY <1>1, <2>1, <2>2, FS_Subset
<1>5. QED  BY <1>1, <1>2, <1>3, <1>4

\* A finite set of positions has a first and a last.
LEMMA FirstAndLast ==
    ASSUME NEW S \in SUBSET Int, IsFiniteSet(S), S # {}
    PROVE  /\ \E i \in S : Cardinality(Below(S, i)) = 0
           /\ \E m \in S : \A i \in S : i <= m
<1> DEFINE N == Cardinality(S)
           rank == [x \in S |-> Cardinality(Below(S, x)) + 1]
<1>1. N \in Nat /\ N # 0
  BY FS_CardinalityType, FS_EmptySet
<1>2. rank \in [S -> 1..N]
  BY <1>1, BelowGrows
<1>3. \A i, j \in S : rank[i] = rank[j] => i = j
  <2>1. SUFFICES ASSUME NEW i \in S, NEW j \in S, i # j  PROVE rank[i] # rank[j]
    OBVIOUS
  <2>2. CASE i < j
    BY <2>2, BelowGrows
  <2>3. CASE j < i
    BY <2>3, BelowGrows
  <2>4. QED  BY <2>1, <2>2, <2>3
<1>4. rank \in Injection(S, 1..N)
  BY <1>2, <1>3 DEF Injection, IsInjective
<1>5. IsFiniteSet(1..N) /\ Cardinality(1..N) = N
  BY <1>1, FS_Interval
<1>6. \A k \in 1..N : \E x \in S : rank[x] = k
  <2>1. rank \in Surjection(S, 1..N)
    BY <1>4, <1>5, FS_Injection
  <2>2. QED  BY <2>1 DEF Surjection
<1>7. \E i \in S : Cardinality(Below(S, i)) = 0
  <2>1. PICK i \in S : rank[i] = 1
    BY <1>1, <1>6
  <2>2. Cardinality(Below(S, i)) + 1 = 1 /\ Cardinality(Below(S, i)) \in Nat
    BY <2>1, BelowGrows
  <2>3. QED  BY <2>2
<1>8. \E m \in S : \A i \in S : i <= m
  <2>1. PICK m \in S : rank[m] = N
    BY <1>1, <1>6
  <2>2. Cardinality(Below(S, m)) + 1 = N /\ Cardinality(Below(S, m)) \in Nat
    BY <2>1, BelowGrows
  <2>3. ASSUME NEW i \in S  PROVE i <= m
    <3>1. SUFFICES ASSUME m < i  PROVE FALSE
      OBVIOUS
    <3>2. /\ Cardinality(Below(S, m)) < Cardinality(Below(S, i))
          /\ Cardinality(Below(S, i)) < N /\ Cardinality(Below(S, i)) \in Nat
      BY <3>1, BelowGrows
    <3>3. QED  BY <1>1, <2>2, <3>2
  <2>4. QED  BY <2>3
<1>9. QED  BY <1>7, <1>8

LEMMA OrderIsASequence ==
    /\ Len(Order) \in Nat /\ DOMAIN Order = 1..Len(Order) /\ Order \in [DOMAIN Order -> Text]
    /\ IsFiniteSet(DOMAIN Order) /\ Name \subseteq Text
<1>1. Order \in Seq(Text)
  BY PatchFilterAssumption
<1>2. Len(Order) \in Nat /\ DOMAIN Order = 1..Len(Order) /\ Order \in [DOMAIN Order -> Text]
  BY <1>1, LenProperties
<1>3. IsFiniteSet(DOMAIN Order)
  <2>1. \A n \in Nat : IsFiniteSet(1..n)
    BY FS_Interval
  <2>2. QED  BY <1>2, <2>1
<1>4. QED  BY <1>2, <1>3 DEF Name, Range

LEMMA PositionIs ==
    /\ \A t \in Name : Position(t) \in DOMAIN Order /\ Position(t) \in Nat /\ Order[Position(t)] = t
    /\ \A i \in DOMAIN Order : Order[i] \in Name /\ Position(Order[i]) = i
<1>1. ASSUME NEW t \in Name
      PROVE  Position(t) \in DOMAIN Order /\ Position(t) \in Nat /\ Order[Position(t)] = t
  <2>1. \E i \in DOMAIN Order : Order[i] = t
    BY DEF Name, Range
  <2>2. Position(t) \in DOMAIN Order /\ Order[Position(t)] = t
    BY <2>1 DEF Position
  <2>3. QED  BY <2>2, OrderIsASequence
<1>2. ASSUME NEW i \in DOMAIN Order  PROVE Order[i] \in Name /\ Position(Order[i]) = i
  <2>1. Order[i] \in Name
    BY DEF Name, Range
  <2>2. QED  BY <1>1, <2>1, PatchFilterAssumption
<1>3. QED  BY <1>1, <1>2

\* A page has, of what is there behind the cursor, all that is not behind its
\* last position; it is empty only when nothing is there.
LEMMA PageIsComplete ==
    /\ Page \subseteq Later(cursor) /\ Later(cursor) \subseteq DOMAIN Order
    /\ Page = {} => Later(cursor) = {}
    /\ Page # {} => \E last \in Page :
          /\ last = CHOOSE i \in Page : \A j \in Page : j <= i
          /\ \A i \in Later(cursor) : i <= last => i \in Page
<1> DEFINE A == Later(cursor)
           P == Page
<1>1. A \in SUBSET Int /\ IsFiniteSet(A) /\ A \subseteq DOMAIN Order
  BY OrderIsASequence, FS_Subset DEF Later
<1>2. P = {i \in A : Cardinality(Below(A, i)) < PageSize}
  BY DEF Page, FirstOf, Below
<1>3. PageSize \in Nat \ {0}
  BY PatchFilterAssumption
<1> HIDE DEF A, P
<1>4. ASSUME A # {}  PROVE P # {}
  <2>1. PICK i \in A : Cardinality(Below(A, i)) = 0
    BY <1>1, <1>4, FirstAndLast
  <2>2. QED  BY <1>2, <1>3, <2>1
<1>5. ASSUME P # {}
      PROVE  \E last \in P : last = CHOOSE i \in P : \A j \in P : j <= i
  <2>1. P \in SUBSET Int /\ IsFiniteSet(P)
    BY <1>1, <1>2, FS_Subset
  <2>2. \E i \in P : \A j \in P : j <= i
    BY <1>5, <2>1, FirstAndLast
  <2>3. QED  BY <2>2
<1>6. ASSUME NEW last \in P, NEW i \in A, i <= last  PROVE i \in P
  <2>1. last \in A /\ Cardinality(Below(A, last)) < PageSize
    BY <1>2
  <2>2. CASE i = last
    BY <2>2
  <2>3. CASE i < last
    <3>1. /\ Cardinality(Below(A, i)) < Cardinality(Below(A, last))
          /\ Cardinality(Below(A, i)) \in Nat /\ Cardinality(Below(A, last)) \in Nat
      BY <1>1, <2>1, <2>3, BelowGrows
    <3>2. QED  BY <1>2, <1>3, <2>1, <3>1
  <2>4. QED  BY <1>1, <1>6, <2>1, <2>2, <2>3
<1>7. QED  BY <1>1, <1>2, <1>4, <1>5, <1>6 DEF A, P

-----------------------------------------------------------------------------
(***************************************************************************)
(* The names of patch tags, and the latest of a group.                     *)
(***************************************************************************)

LEMMA CallTypes ==
    ASSUME call \in Calls
    PROVE  /\ Len(call.entries) \in Nat /\ Entries = 1..Len(call.entries)
           /\ \A i \in Entries : /\ call.entries[i].repo \in DOMAIN call.tags
                                 /\ call.entries[i].tags \in Seq(Text)
                                 /\ call.entries[i].enabled \in BOOLEAN
           /\ call.tags \in [DOMAIN call.tags -> SUBSET Name]
           /\ Enabled \subseteq Entries
<1> DEFINE E == [repo : DOMAIN call.tags, tags : Seq(Text), enabled : BOOLEAN]
<1>1. call.entries \in Seq(E) /\ call.tags \in [DOMAIN call.tags -> SUBSET Name]
  BY PatchFilterAssumption
<1> HIDE DEF E
<1>2. /\ Len(call.entries) \in Nat /\ Entries = 1..Len(call.entries)
      /\ \A i \in Entries : call.entries[i] \in E
  BY <1>1, LenProperties DEF Entries
<1>3. QED  BY <1>1, <1>2 DEF E, Enabled

\* The suffix of the convention is one that is reserved.
LEMMA PatchIsReserved ==
    ASSUME NEW t, IsPatch(t)
    PROVE  Reserved(t)
BY DEF IsPatch, Reserved, Suffix

\* What the code takes for a tag of its own or a patch.
Counts(t) == IsPatch(t) \/ ~Reserved(t)

LEMMA VersionsOf ==
    ASSUME NEW t, NEW b, BaseOf(t) = b, Counts(t)
    PROVE  \/ PatchOf(t, b)
           \/ t = b /\ ~IsPatch(t) /\ ~Reserved(t)
BY DEF BaseOf, PatchOf, Counts

\* Two patches of a tag with the same suffix are the same.
LEMMA SamePatch ==
    ASSUME NEW t \in Text, NEW u \in Text, NEW b, PatchOf(t, b), PatchOf(u, b), Last(t) = Last(u)
    PROVE  t = u
<1>1. /\ Len(t) \in Nat /\ Len(u) \in Nat /\ Len(t) > 1 /\ Len(u) > 1
      /\ SubSeq(t, 1, Len(t) - 1) = b /\ SubSeq(u, 1, Len(u) - 1) = b
      /\ t[Len(t)] = u[Len(u)]
  BY LenProperties DEF PatchOf, IsPatch, Front, Last, Text
<1>2. Len(b) = Len(t) - 1 /\ Len(b) = Len(u) - 1
  BY <1>1 DEF Text
<1>3. Len(t) = Len(u)
  BY <1>1, <1>2
<1>4. ASSUME NEW k \in 1..Len(t)  PROVE t[k] = u[k]
  <2>1. CASE k = Len(t)
    BY <1>1, <1>3, <2>1
  <2>2. CASE k \in 1..Len(t) - 1
    <3>1. SubSeq(t, 1, Len(t) - 1)[k] = t[k] /\ SubSeq(u, 1, Len(t) - 1)[k] = u[k]
      BY <1>1, <1>3, <2>2 DEF Text
    <3>2. QED  BY <1>1, <1>3, <3>1
  <2>3. QED  BY <1>1, <2>1, <2>2
<1>5. QED  BY <1>3, <1>4, SeqEqual DEF Text

\* A patch is behind the tag it is a patch of.
LEMMA PatchIsBehind ==
    ASSUME NEW t \in Name, NEW b \in Name, PatchOf(t, b)
    PROVE  Position(b) < Position(t)
<1>1. Len(t) > 1 /\ Front(t) = b
  BY DEF PatchOf, IsPatch
<1>2. QED  BY <1>1, PositionIs, PatchFilterAssumption

\* How the versions of a tag compare: first itself, then by their numbers; by
\* the floating convention it has no more than one patch.
Rank(t) == IF ~IsPatch(t) THEN 0 ELSE IF Last(t) \in Number THEN Last(t) ELSE 1

LEMMA RanksCompare ==
    ASSUME NEW t \in Name, NEW u \in Name, NEW b, BaseOf(t) = b, BaseOf(u) = b,
           Counts(t), Counts(u), Rank(u) <= Rank(t)
    PROVE  ~compareTags(t, u)
<1>1. t \in Text /\ u \in Text /\ Position(t) \in Nat /\ Position(u) \in Nat
  BY OrderIsASequence, PositionIs
<1>2. CASE PatchOf(t, b) /\ PatchOf(u, b)
  <2>1. Reserved(t) /\ Reserved(u)
    BY <1>2, PatchIsReserved DEF PatchOf
  <2>2. CASE call.convention = "floating"
    <3>1. Last(t) = Last(u)
      BY <1>2, <2>2 DEF PatchOf, IsPatch, Suffix
    <3>2. t = u
      BY <1>1, <1>2, <3>1, SamePatch
    <3>3. Last(t) \notin Number
      BY <1>2, <2>2, PatchFilterAssumption DEF PatchOf, IsPatch, Suffix
    <3>4. QED  BY <1>1, <3>2, <3>3 DEF compareTags
  <2>3. CASE call.convention # "floating"
    <3>1. Last(t) \in Number /\ Last(u) \in Number /\ IsPatch(t) /\ IsPatch(u)
      BY <1>2, <2>3 DEF PatchOf, IsPatch, Suffix
    <3>2. Last(u) <= Last(t)
      BY <3>1 DEF Rank
    <3>3. Last(t) \in Int /\ Last(u) \in Int
      BY <3>1, SMTT(30) DEF Number
    <3>4. ~(Last(t) < Last(u))
      BY <3>2, <3>3
    <3>5. QED  BY <2>1, <3>1, <3>4 DEF compareTags
  <2>4. QED  BY <2>2, <2>3
<1>3. CASE PatchOf(t, b) /\ u = b /\ ~Reserved(u)
  <2>1. Position(u) < Position(t)
    BY <1>3, PatchIsBehind
  <2>2. QED  BY <1>1, <1>3, <2>1 DEF compareTags
<1>4. CASE t = b /\ ~Reserved(t) /\ u = b
  BY <1>1, <1>4 DEF compareTags
<1>5. CASE t = b /\ ~IsPatch(t) /\ PatchOf(u, b)
  <2>1. Rank(t) = 0
    BY <1>5 DEF Rank
  <2>2. Rank(u) \in Nat /\ Rank(u) > 0
    BY <1>5 DEF Rank, PatchOf, Number
  <2>3. QED  BY <2>1, <2>2
<1>6. QED  BY <1>2, <1>3, <1>4, <1>5, VersionsOf

\* The versions of a tag that are there have a latest.
LEMMA LatestIs ==
    ASSUME NEW S \in SUBSET Name, S # {}, NEW b, \A t \in S : BaseOf(t) = b /\ Counts(t)
    PROVE  Latest(S) \in S /\ \A u \in S : ~compareTags(Latest(S), u)
<1> DEFINE R == {Rank(t) : t \in S}
<1>1. \A t \in S : Rank(t) \in 0..999
  BY DEF Rank, Number
<1>2. R \in SUBSET Int /\ R # {} /\ R \in SUBSET Nat /\ \A s \in R : s <= 999
  <2>1. R # {} /\ \A s \in R : s \in 0..999
    BY <1>1
  <2> HIDE DEF R
  <2>2. \A s \in R : s \in Int /\ s \in Nat /\ s <= 999
    BY <2>1, SMTT(30)
  <2>3. QED  BY <2>1, <2>2
<1> HIDE DEF R
<1>3. IsFiniteSet(R)
  BY <1>2, 999 \in Nat, FS_BoundedSetOfNaturals
<1>4. PICK m \in R : \A i \in R : i <= m
  BY <1>2, <1>3, FirstAndLast
<1>5. PICK t \in S : Rank(t) = m
  BY DEF R
<1>6. \A u \in S : Rank(u) <= Rank(t)
  BY <1>4, <1>5 DEF R
<1>7. \A u \in S : ~compareTags(t, u)
  BY <1>6, RanksCompare
<1>8. QED  BY <1>7 DEF Latest

\* When there is a patch it is a patch, with the highest number there is.
LEMMA LatestIsAPatch ==
    ASSUME NEW S \in SUBSET Name, NEW b, \A t \in S : BaseOf(t) = b /\ Counts(t),
           NEW u \in S, PatchOf(u, b)
    PROVE  /\ PatchOf(Latest(S), b) /\ Latest(S) # b
           /\ Last(u) \in Number => Last(u) <= Last(Latest(S))
<1> DEFINE l == Latest(S)
<1>1. l \in S /\ ~compareTags(l, u) /\ l \in Name /\ u \in Name
  BY LatestIs
<1> HIDE DEF l
<1>2. BaseOf(l) = b /\ Counts(l)
  BY <1>1
<1>3. Position(l) \in Nat /\ Position(u) \in Nat
  BY <1>1, PositionIs
<1>4. PatchOf(l, b)
  <2>1. SUFFICES ASSUME l = b, ~Reserved(l)  PROVE FALSE
    BY <1>2, VersionsOf
  <2>2. Position(l) < Position(u)
    BY <1>1, <2>1, PatchIsBehind
  <2>3. QED  BY <1>1, <2>1, <2>2 DEF compareTags
<1>5. l # b
  <2>1. SUFFICES ASSUME l = b  PROVE FALSE
    OBVIOUS
  <2>2. l \in Text
    BY <1>1, OrderIsASequence
  <2>3. Len(l) \in Nat /\ Len(l) > 1 /\ SubSeq(l, 1, Len(l) - 1) = l
    BY <1>4, <2>1, <2>2, LenProperties DEF PatchOf, IsPatch, Front, Text
  <2>4. Len(SubSeq(l, 1, Len(l) - 1)) = Len(l) - 1
    BY <2>2, <2>3 DEF Text
  <2>5. QED  BY <2>3, <2>4
<1>6. ASSUME Last(u) \in Number  PROVE Last(u) <= Last(l)
  <2>1. Reserved(l) /\ Reserved(u)
    BY <1>4, PatchIsReserved DEF PatchOf
  <2>2. Last(l) \in Number
    <3>1. call.convention # "floating"
      BY <1>6, PatchFilterAssumption DEF PatchOf, IsPatch, Suffix
    <3>2. QED  BY <1>4, <3>1 DEF PatchOf, IsPatch, Suffix
  <2>3. ~(Last(l) < Last(u))
    BY <1>1, <1>6, <2>1, <2>2 DEF compareTags
  <2>4. Last(l) \in Int /\ Last(u) \in Int
    BY <1>6, <2>2, SMTT(30) DEF Number
  <2>5. QED  BY <2>3, <2>4
<1>7. QED  BY <1>4, <1>5, <1>6 DEF l

-----------------------------------------------------------------------------
(***************************************************************************)
(* What a list of tags comes to.                                           *)
(***************************************************************************)

LEMMA GroupIs ==
    ASSUME tagList \subseteq Name, NEW b
    PROVE  LET G == {t \in Considered : BaseOf(t) = b}
           IN  G \in SUBSET Name /\ G \subseteq tagList /\ \A t \in G : BaseOf(t) = b /\ Counts(t)
BY DEF Considered, Counts

\* Each tag considered is listed under the tag it is a version of.
LEMMA FilteredHas ==
    ASSUME tagList \subseteq Name, NEW t \in Considered
    PROVE  \E p \in tagList \cup {<<NA>>} :
              [repo |-> Current.repo, tag |-> BaseOf(t), patch |-> p] \in Filtered
<1> DEFINE b == BaseOf(t)
           G == {u \in Considered : BaseOf(u) = b}
           p == IF Latest(G) = b THEN <<NA>> ELSE Latest(G)
<1>1. G \in SUBSET Name /\ G \subseteq tagList /\ \A u \in G : BaseOf(u) = b /\ Counts(u)
  BY GroupIs
<1>2. t \in G
  OBVIOUS
<1>3. [repo |-> Current.repo, tag |-> b, patch |-> p] \in Filtered
  BY DEF Filtered
<1> HIDE DEF b, G
<1>4. Latest(G) \in tagList
  BY <1>1, <1>2, LatestIs
<1>5. p \in tagList \cup {<<NA>>}
  BY <1>4
<1>6. QED  BY <1>3, <1>5 DEF b

\* What is listed is on the list, and a patch with the highest number of those
\* considered.
LEMMA FilteredIs ==
    ASSUME tagList \subseteq Name, NEW r \in Filtered
    PROVE  /\ r.repo = Current.repo
           /\ IF r.patch = <<NA>> THEN r.tag \in tagList
                                  ELSE r.patch \in tagList /\ PatchOf(r.patch, r.tag)
           /\ \E t \in Considered : BaseOf(t) = r.tag
           /\ \A u \in Considered : PatchOf(u, r.tag) =>
                 /\ r.patch # <<NA>>
                 /\ Last(u) \in Number => Last(u) <= Last(r.patch)
<1>1. PICK b \in {BaseOf(t) : t \in Considered} :
        r = LET latest == Latest({t \in Considered : BaseOf(t) = b})
            IN  [repo |-> Current.repo, tag |-> b,
                 patch |-> IF latest = b THEN <<NA>> ELSE latest]
  BY DEF Filtered
<1> DEFINE G == {t \in Considered : BaseOf(t) = b}
           l == Latest(G)
<1>2. r.repo = Current.repo /\ r.tag = b /\ r.patch = IF l = b THEN <<NA>> ELSE l
  BY <1>1
<1>3. G \in SUBSET Name /\ G \subseteq tagList /\ \A t \in G : BaseOf(t) = b /\ Counts(t)
  BY GroupIs
<1>4. G # {} /\ \E t \in Considered : BaseOf(t) = b
  BY <1>1
<1>5. ASSUME NEW u \in Considered, PatchOf(u, b)  PROVE u \in G
  BY <1>5 DEF PatchOf, BaseOf
<1> HIDE DEF G
<1>6. l \in G /\ l \in Name /\ l # <<NA>> /\ l \in tagList
  BY <1>3, <1>4, LatestIs, PatchFilterAssumption
<1>7. ASSUME NEW u \in Considered, PatchOf(u, b)
      PROVE  l # b /\ (Last(u) \in Number => Last(u) <= Last(l))
  BY <1>3, <1>5, <1>7, LatestIsAPatch
<1>8. l # b => PatchOf(l, b)
  BY <1>3, <1>6, VersionsOf
<1> HIDE DEF l
<1>9. r.patch = <<NA>> <=> l = b
  BY <1>2, <1>6
<1>10. QED  BY <1>2, <1>4, <1>6, <1>7, <1>8, <1>9

-----------------------------------------------------------------------------
(***************************************************************************)
(* What was said of an entry stays said.                                   *)
(***************************************************************************)

\* The step leaves the ghosts of an entry alone, and takes nothing back.
SaysNoLess(i) ==
    /\ call' = call /\ stayed'[i] = stayed[i] /\ ever'[i] = ever[i]
    /\ uniqueFilteredRepos \subseteq uniqueFilteredRepos'
    /\ artifactsNotFound \subseteq artifactsNotFound' /\ erred \subseteq erred'

LEMMA AccountedStays ==
    ASSUME NEW i, SaysNoLess(i), EntryIsAccounted(i)
    PROVE  EntryIsAccounted(i)'
<1>1. \A t : IsPatch(t)' = IsPatch(t) /\ Reserved(t)' = Reserved(t) /\ BaseOf(t)' = BaseOf(t)
  BY DEF SaysNoLess, IsPatch, Suffix, Reserved, BaseOf
<1>2. \A r : Accounted(r) => Accounted(r)'
  BY DEF SaysNoLess, Accounted, Key
<1> DEFINE e == call.entries[i]
<1>3. CASE e.tags = Wildcard
  BY <1>1, <1>2, <1>3 DEF SaysNoLess, EntryIsAccounted
<1>4. CASE e.tags # Wildcard
  BY <1>2, <1>4 DEF SaysNoLess, EntryIsAccounted
<1>5. QED  BY <1>3, <1>4

LEMMA MissingStays ==
    ASSUME NEW i, NEW m, SaysNoLess(i), IsMissing(m, i)
    PROVE  IsMissing(m, i)'
BY DEF SaysNoLess, IsMissing

LEMMA LatestStays ==
    ASSUME NEW i, NEW r, SaysNoLess(i), IsLatest(r, i)
    PROVE  IsLatest(r, i)'
<1>1. \A t, b : PatchOf(t, b)' = PatchOf(t, b)
  BY DEF SaysNoLess, PatchOf, IsPatch, Suffix
<1>2. QED  BY <1>1 DEF SaysNoLess, IsLatest

LEMMA MatchesStays ==
    ASSUME call' = call
    PROVE  MatchesAllPatches' = MatchesAllPatches /\ Enabled' = Enabled
BY DEF MatchesAllPatches, Enabled, Entries, MatchesTag, Ending, Reads, PatchOf, BaseOf, IsPatch,
       Suffix

\* A step that adds nothing to the answer.
LEMMA AnswerStays ==
    ASSUME AnswerInv, HighestInv, Finished' = Finished,
           UNCHANGED <<call, answer, erred>>,
           \A i \in Finished : stayed'[i] = stayed[i] /\ ever'[i] = ever[i]
    PROVE  AnswerInv' /\ HighestInv'
<1>1. \A i \in Finished : SaysNoLess(i)
  BY DEF SaysNoLess, answer
<1>2. AnswerInv'
  BY <1>1, AccountedStays, MissingStays DEF AnswerInv, answer
<1>3. HighestInv'
  BY <1>1, LatestStays, MatchesStays DEF HighestInv, answer
<1>4. QED  BY <1>2, <1>3

-----------------------------------------------------------------------------
(***************************************************************************)
(* Types.                                                                  *)
(***************************************************************************)

LEMMA CallStays ==
    ASSUME call' = call
    PROVE  Entries' = Entries /\ Enabled' = Enabled /\ ValidateFilter' = ValidateFilter
BY DEF Entries, Enabled, ValidateFilter, ValidTag, Reserved

\* The entry a listing is for.
LEMMA CurrentIs ==
    ASSUME TypeInv, phase = "pages"
    PROVE  /\ entry \in Enabled /\ entry \in Entries /\ entry \in Nat
           /\ Current.repo \in DOMAIN call.tags
           /\ tags[Current.repo] \subseteq Name
           /\ stayed[entry] \subseteq Name /\ ever[entry] \subseteq Name
           /\ Finished \cup {entry} = {i \in Enabled : i < entry + 1} /\ entry \notin Finished
<1>1. /\ Entries = 1..Len(call.entries) /\ Len(call.entries) \in Nat /\ Enabled \subseteq Entries
      /\ \A i \in Entries : call.entries[i].repo \in DOMAIN call.tags
  BY CallTypes DEF TypeInv
<1>2. entry \in Enabled /\ entry \in Entries /\ entry \in Nat
  BY <1>1 DEF TypeInv
<1>3. /\ Current.repo \in DOMAIN call.tags /\ tags[Current.repo] \subseteq Name
      /\ stayed[entry] \subseteq Name /\ ever[entry] \subseteq Name
  BY <1>1, <1>2 DEF TypeInv, Current
<1>4. \A i \in Enabled : i \in Int /\ (i < entry + 1 <=> i < entry \/ i = entry)
  BY <1>1, <1>2
<1>5. Finished \cup {entry} = {i \in Enabled : i < entry + 1}
  BY <1>2, <1>4 DEF Finished
<1>6. entry \notin Finished
  BY <1>2 DEF Finished
<1>7. QED  BY <1>2, <1>3, <1>5, <1>6

LEMMA InitInv == PatchInit => PatchInv
<1> SUFFICES ASSUME PatchInit  PROVE PatchInv
  OBVIOUS
<1> USE DEF PatchInit
<1>1. /\ call \in Calls /\ Len(call.entries) \in Nat /\ Entries = 1..Len(call.entries)
      /\ call.tags \in [DOMAIN call.tags -> SUBSET Name]
  BY CallTypes
<1>2. TypeInv
  BY <1>1 DEF TypeInv
<1>3. Finished = {}
  BY <1>1, CallTypes DEF Finished
<1>4. QED  BY <1>2, <1>3 DEF PatchInv, ListingInv, AnswerInv, HighestInv

\* The list of an entry grows by pages.
LEMMA PageAdds ==
    ASSUME TypeInv, ListPage
    PROVE  /\ tagList' = tagList \cup {Order[i] : i \in Page} /\ tagList' \subseteq Name
           /\ {Order[i] : i \in Page} \subseteq tags[Current.repo]
           /\ cursor' \in Nat
           /\ \A t \in tags[Current.repo] :
                 Position(t) <= cursor' => Position(t) <= cursor \/ t \in tagList'
<1>1. PICK last \in Page : /\ last = CHOOSE i \in Page : \A j \in Page : j <= i
                           /\ \A i \in Later(cursor) : i <= last => i \in Page
  BY PageIsComplete DEF ListPage
<1>2. cursor' = last /\ tagList' = tagList \cup {Order[i] : i \in Page} /\ phase = "pages"
  BY <1>1 DEF ListPage
<1>3. Page \subseteq Later(cursor) /\ Later(cursor) \subseteq DOMAIN Order
  BY PageIsComplete
<1>4. \A i \in Page : i \in Nat /\ Order[i] \in tags[Current.repo] /\ Order[i] \in Name
  BY <1>3, OrderIsASequence, PositionIs DEF Later
<1>5. tagList' \subseteq Name /\ cursor' \in Nat
  BY <1>1, <1>2, <1>4 DEF TypeInv
<1>6. ASSUME NEW t \in tags[Current.repo], Position(t) <= cursor'
      PROVE  Position(t) <= cursor \/ t \in tagList'
  <2>1. t \in Name
    BY <1>2, CurrentIs
  <2>2. Position(t) \in DOMAIN Order /\ Position(t) \in Nat /\ Order[Position(t)] = t
    BY <2>1, PositionIs
  <2>3. SUFFICES ASSUME ~(Position(t) <= cursor)  PROVE t \in tagList'
    OBVIOUS
  <2>4. Position(t) > cursor
    BY <2>2, <2>3 DEF TypeInv
  <2>5. Position(t) \in Later(cursor)
    BY <2>2, <2>4 DEF Later
  <2>6. Position(t) \in Page
    BY <1>1, <1>2, <1>6, <2>5
  <2>7. QED  BY <1>2, <2>2, <2>6
<1>7. QED  BY <1>2, <1>4, <1>5, <1>6

LEMMA NextEntryTypes ==
    ASSUME TypeInv, phase \in {"entry", "pages"}, entry \in Entries, NextEntry,
           UNCHANGED <<call, tags, stayed, ever>>
    PROVE  TypeInv'
<1>1. Entries' = Entries /\ ValidateFilter' = ValidateFilter
  BY CallStays
<1>2. Entries = 1..Len(call.entries) /\ Len(call.entries) \in Nat
  BY CallTypes DEF TypeInv
<1>3. entry' \in 1..Len(call.entries') + 1
  BY <1>2 DEF NextEntry
<1>4. QED  BY <1>1, <1>3 DEF TypeInv, NextEntry

LEMMA TypeStep == TypeInv /\ [PatchNext]_vars => TypeInv'
<1> SUFFICES ASSUME TypeInv, [PatchNext]_vars  PROVE TypeInv'
  OBVIOUS
<1>1. call' = call
  BY DEF PatchNext, Command, Start, ReadFails, Skip, Begin, Finish, ListPage, LastPage,
         FirstFails, LaterFails, PushTag, DropTag, vars
<1>2. Entries' = Entries /\ Enabled' = Enabled /\ ValidateFilter' = ValidateFilter
  BY <1>1, CallStays
<1> USE DEF listing, ghosts, answer
<1>3. CASE Start \/ ReadFails \/ Finish \/ LaterFails
  BY <1>1, <1>2, <1>3 DEF TypeInv, Start, ReadFails, Finish, LaterFails
<1>4. CASE Skip
  BY <1>4, NextEntryTypes DEF Skip
<1>5. CASE Begin
  <2>1. entry \in Entries /\ Current.repo \in DOMAIN call.tags /\ tags[Current.repo] \subseteq Name
    BY <1>5, CallTypes DEF TypeInv, Begin, Current
  <2>2. QED  BY <1>1, <1>2, <1>5, <2>1 DEF TypeInv, Begin
<1>6. CASE ListPage
  <2>1. tagList' \subseteq Name /\ cursor' \in Nat
    BY <1>6, PageAdds
  <2>2. phase = "pages"
    BY <1>6 DEF ListPage
  <2>3. UNCHANGED <<call, phase, entry, tags, stayed, ever>>
    BY <1>6 DEF ListPage
  <2>4. QED  BY <1>2, <2>1, <2>2, <2>3 DEF TypeInv
<1>7. CASE LastPage
  <2>1. phase = "pages" /\ NextEntry /\ UNCHANGED <<call, tags, stayed, ever>>
    BY <1>7 DEF LastPage, Apply
  <2>2. entry \in Entries
    BY <2>1, CurrentIs
  <2>3. QED  BY <2>1, <2>2, NextEntryTypes
<1>8. CASE FirstFails
  <2>1. phase = "pages" /\ NextEntry /\ UNCHANGED <<call, tags, stayed, ever>>
    BY <1>8 DEF FirstFails
  <2>2. entry \in Entries
    BY <2>1, CurrentIs
  <2>3. QED  BY <2>1, <2>2, NextEntryTypes
<1>9. ASSUME NEW r \in DOMAIN tags, NEW t \in Name, PushTag(r, t) \/ DropTag(r, t)
      PROVE  TypeInv'
  <2>1. UNCHANGED <<call, phase, entry, cursor, tagList>>
    BY <1>9 DEF PushTag, DropTag
  <2>2. tags' \in [DOMAIN call.tags -> SUBSET Name]
    BY <1>9 DEF PushTag, DropTag, TypeInv
  <2>3. stayed' \in [Entries -> SUBSET Name] /\ ever' \in [Entries -> SUBSET Name]
    BY <1>9 DEF PushTag, DropTag, TypeInv
  <2>4. QED  BY <1>2, <2>1, <2>2, <2>3 DEF TypeInv
<1>10. CASE UNCHANGED vars
  BY <1>1, <1>2, <1>10 DEF TypeInv, vars
<1>11. QED  BY <1>3, <1>4, <1>5, <1>6, <1>7, <1>8, <1>9, <1>10 DEF PatchNext, Command

-----------------------------------------------------------------------------
(***************************************************************************)
(* The list, and what others do meanwhile.                                 *)
(***************************************************************************)

LEMMA ListingStep == TypeInv /\ ListingInv /\ [PatchNext]_vars => ListingInv'
<1> SUFFICES ASSUME TypeInv, ListingInv, [PatchNext]_vars, phase' = "pages"  PROVE ListingInv'
  BY DEF ListingInv
<1> USE DEF listing, ghosts, answer
<1>1. CASE Start \/ ReadFails \/ Finish \/ LaterFails \/ Skip \/ LastPage \/ FirstFails
  BY <1>1 DEF Start, ReadFails, Finish, LaterFails, Skip, LastPage, FirstFails, Apply, NextEntry
<1>2. CASE Begin
  <2>1. entry \in Entries /\ Current.repo \in DOMAIN call.tags /\ tags[Current.repo] \subseteq Name
    BY <1>2, CallTypes DEF TypeInv, Begin, Current
  <2>2. /\ entry' = entry /\ Current' = Current /\ tags' = tags
        /\ stayed'[entry] = tags[Current.repo] /\ ever'[entry] = tags[Current.repo]
        /\ cursor' = 0 /\ tagList' = {}
    BY <1>2, <2>1 DEF Begin, TypeInv, Current
  <2>3. ASSUME NEW t \in tags[Current.repo], Position(t) <= 0  PROVE FALSE
    BY <2>1, <2>3, PositionIs, OrderIsASequence
  <2>4. QED  BY <2>2, <2>3 DEF ListingInv
<1>3. CASE ListPage
  <2>1. /\ phase = "pages" /\ entry' = entry /\ Current' = Current /\ tags' = tags
        /\ stayed' = stayed /\ ever' = ever
    BY <1>3 DEF ListPage, Current
  <2>2. QED  BY <1>3, <2>1, PageAdds DEF ListingInv
<1>4. ASSUME NEW r \in DOMAIN tags, NEW t \in Name, PushTag(r, t) \/ DropTag(r, t)
      PROVE  ListingInv'
  <2>1. /\ phase = "pages" /\ entry' = entry /\ Current' = Current /\ cursor' = cursor
        /\ tagList' = tagList
    BY <1>4 DEF PushTag, DropTag, Current
  <2>2. /\ entry \in DOMAIN stayed /\ entry \in DOMAIN ever /\ Current.repo \in DOMAIN tags
        /\ stayed[entry] \subseteq tags[Current.repo] /\ tags[Current.repo] \subseteq ever[entry]
        /\ tagList \subseteq ever[entry]
        /\ \A u \in stayed[entry] : Position(u) <= cursor => u \in tagList
    BY <2>1, CurrentIs DEF TypeInv, ListingInv
  <2>3. CASE Current.repo # r
    <3>1. /\ tags'[Current.repo] = tags[Current.repo]
          /\ stayed' = stayed /\ ever' = ever
      BY <1>4, <2>2, <2>3 DEF PushTag, DropTag, Listing
    <3>2. QED  BY <2>1, <2>2, <3>1 DEF ListingInv
  <2>4. CASE Current.repo = r /\ PushTag(r, t)
    <3>1. /\ tags'[Current.repo] = tags[Current.repo] \cup {t}
          /\ stayed' = stayed /\ ever'[entry] = ever[entry] \cup {t}
      BY <2>1, <2>2, <2>4 DEF PushTag, Listing
    <3>2. QED  BY <2>1, <2>2, <3>1 DEF ListingInv
  <2>5. CASE Current.repo = r /\ DropTag(r, t)
    <3>1. /\ tags'[Current.repo] = tags[Current.repo] \ {t}
          /\ stayed'[entry] = stayed[entry] \ {t} /\ ever' = ever
      BY <2>1, <2>2, <2>5 DEF DropTag, Listing
    <3>2. QED  BY <2>1, <2>2, <3>1 DEF ListingInv
  <2>6. QED  BY <1>4, <2>3, <2>4, <2>5
<1>5. CASE UNCHANGED vars
  BY <1>5 DEF ListingInv, vars, Current
<1>6. QED  BY <1>1, <1>2, <1>3, <1>4, <1>5 DEF PatchNext, Command

-----------------------------------------------------------------------------
(***************************************************************************)
(* The answer.                                                             *)
(***************************************************************************)

\* When no page is left, what has stayed is listed.
LEMMA ListIsComplete ==
    ASSUME TypeInv, ListingInv, phase = "pages", Page = {}
    PROVE  stayed[entry] \subseteq tagList /\ tagList \subseteq ever[entry]
<1>1. stayed[entry] \subseteq tags[Current.repo] /\ tagList \subseteq ever[entry]
  BY DEF ListingInv
<1>2. ASSUME NEW t \in stayed[entry]  PROVE t \in tagList
  <2>1. t \in Name /\ t \in tags[Current.repo]
    BY <1>1, CurrentIs
  <2>2. Position(t) \in DOMAIN Order /\ Position(t) \in Nat /\ Order[Position(t)] = t
    BY <2>1, PositionIs
  <2>3. Position(t) \notin Later(cursor)
    BY PageIsComplete
  <2>4. ~(Position(t) > cursor)
    BY <2>1, <2>2, <2>3 DEF Later
  <2>5. Position(t) <= cursor
    BY <2>2, <2>4 DEF TypeInv
  <2>6. QED  BY <2>5 DEF ListingInv
<1>3. QED  BY <1>1, <1>2

\* What is filtered is in the answer, or its key is.
LEMMA FilteredIsAccounted ==
    ASSUME LastPage, NEW r \in Filtered
    PROVE  Key(r) \in uniqueFilteredRepos'
BY DEF LastPage, Apply

\* A tag of a valid filter is a version of itself, which its expression matches.
LEMMA NamedIsItself ==
    ASSUME ValidateFilter, NEW i \in Entries, NEW f \in Range(call.entries[i].tags)
    PROVE  ~Reserved(f) /\ ~IsPatch(f) /\ BaseOf(f) = f /\ MatchesTag(f, f)
<1>1. ~Reserved(f)
  BY DEF ValidateFilter, ValidTag
<1>2. ~IsPatch(f)
  BY <1>1, PatchIsReserved
<1>3. QED  BY <1>1, <1>2 DEF BaseOf, MatchesTag, Reads

\* Applying the filter accounts for the entry.
LEMMA ApplyAccounts ==
    ASSUME TypeInv, ListingInv, LastPage, NEW i, i = entry
    PROVE  EntryIsAccounted(i)'
<1>1. /\ phase = "pages" /\ Page = {} /\ call' = call /\ stayed' = stayed /\ ever' = ever
      /\ artifactsNotFound' = artifactsNotFound
                                \cup NotFound(IF All THEN {} ELSE Range(Current.tags) \ Found)
  BY DEF LastPage, Apply, ghosts
<1>2. /\ stayed[i] \subseteq tagList /\ tagList \subseteq ever[i] /\ tagList \subseteq Name
      /\ i \in Entries /\ ValidateFilter
  BY <1>1, ListIsComplete, CurrentIs DEF TypeInv
<1> DEFINE e == call.entries[i]
<1>3. e = Current /\ e' = e
  BY <1>1 DEF Current
<1>4. \A t : IsPatch(t)' = IsPatch(t) /\ Reserved(t)' = Reserved(t) /\ BaseOf(t)' = BaseOf(t)
  BY <1>1 DEF IsPatch, Suffix, Reserved, BaseOf
<1>5. ASSUME NEW t \in Considered
      PROVE  \E p \in ever[i] \cup {<<NA>>} :
                Key([repo |-> e.repo, tag |-> BaseOf(t), patch |-> p]) \in uniqueFilteredRepos'
  <2>1. PICK p \in tagList \cup {<<NA>>} :
          [repo |-> Current.repo, tag |-> BaseOf(t), patch |-> p] \in Filtered
    BY <1>2, FilteredHas
  <2>2. Key([repo |-> Current.repo, tag |-> BaseOf(t), patch |-> p]) \in uniqueFilteredRepos'
    BY <2>1, FilteredIsAccounted
  <2>3. QED  BY <1>2, <1>3, <2>1, <2>2
<1>6. CASE All
  <2>1. ASSUME NEW t \in stayed[i], Counts(t)  PROVE t \in Considered
    BY <1>2, <1>6, <2>1 DEF Considered, Counts
  <2>2. e.tags = Wildcard
    BY <1>3, <1>6 DEF All
  <2>3. ASSUME NEW t \in stayed[i], Counts(t)
        PROVE  \E p \in ever[i] \cup {<<NA>>} :
                  Key([repo |-> e.repo, tag |-> BaseOf(t), patch |-> p]) \in uniqueFilteredRepos'
    BY <1>5, <2>1, <2>3
  <2>4. QED
    BY <1>1, <1>3, <1>4, <2>2, <2>3 DEF EntryIsAccounted, Counts, Accounted, Key
<1>7. CASE ~All
  <2>1. ASSUME NEW f \in Range(e.tags), f \in stayed[i]
        PROVE  f \in Considered /\ BaseOf(f) = f
    <3>1. ~Reserved(f) /\ BaseOf(f) = f /\ MatchesTag(f, f)
      BY <1>2, NamedIsItself
    <3>2. f \in Found
      BY <1>2, <1>3, <2>1 DEF Found
    <3>3. QED  BY <1>2, <2>1, <3>1, <3>2 DEF Considered
  <2>2. ASSUME NEW f \in Range(e.tags), f \notin ever[i]
        PROVE  [repo |-> e.repo, tag |-> f] \in artifactsNotFound'
    <3>1. f \in Range(Current.tags) \ Found
      BY <1>2, <1>3, <2>2 DEF Found
    <3>2. QED  BY <1>1, <1>3, <1>7, <3>1 DEF NotFound
  <2>3. e.tags # Wildcard
    BY <1>3, <1>7 DEF All
  <2>4. ASSUME NEW f \in Range(e.tags), f \in stayed[i]
        PROVE  \E p \in ever[i] \cup {<<NA>>} :
                  Key([repo |-> e.repo, tag |-> f, patch |-> p]) \in uniqueFilteredRepos'
    <3>1. f \in Considered /\ BaseOf(f) = f
      BY <2>1, <2>4
    <3>2. \E p \in ever[i] \cup {<<NA>>} :
            Key([repo |-> e.repo, tag |-> BaseOf(f), patch |-> p]) \in uniqueFilteredRepos'
      BY <1>5, <3>1
    <3>3. QED  BY <3>1, <3>2
  <2>5. QED
    BY <1>1, <1>3, <2>2, <2>3, <2>4, ZenonT(60) DEF EntryIsAccounted, Accounted, Key
<1>8. QED  BY <1>6, <1>7

\* It says of no tag that stayed that it is not found.
LEMMA ApplyMisses ==
    ASSUME TypeInv, ListingInv, LastPage, NEW i, i = entry,
           NEW m \in artifactsNotFound' \ artifactsNotFound
    PROVE  IsMissing(m, i)'
<1>1. /\ phase = "pages" /\ Page = {} /\ call' = call /\ stayed' = stayed
      /\ artifactsNotFound' = artifactsNotFound
                                \cup NotFound(IF All THEN {} ELSE Range(Current.tags) \ Found)
  BY DEF LastPage, Apply, ghosts
<1>2. PICK f \in Range(Current.tags) \ Found : m = [repo |-> Current.repo, tag |-> f]
  BY <1>1 DEF NotFound
<1>3. f \notin tagList
  BY <1>2 DEF Found
<1>4. f \notin stayed[i]
  BY <1>1, <1>3, ListIsComplete
<1>5. QED  BY <1>1, <1>2, <1>4 DEF IsMissing, Current

\* It lists the latest patches.
LEMMA ApplyListsLatest ==
    ASSUME TypeInv, ListingInv, LastPage, MatchesAllPatches, NEW i, i = entry,
           NEW r \in filteredRepos' \ filteredRepos
    PROVE  IsLatest(r, i)'
<1>1. /\ phase = "pages" /\ Page = {} /\ call' = call /\ stayed' = stayed /\ ever' = ever
      /\ r \in Filtered
  BY DEF LastPage, Apply, ghosts
<1>2. /\ stayed[i] \subseteq tagList /\ tagList \subseteq ever[i] /\ tagList \subseteq Name
      /\ i \in Enabled
  BY <1>1, ListIsComplete, CurrentIs DEF TypeInv
<1>3. /\ r.repo = Current.repo
      /\ IF r.patch = <<NA>> THEN r.tag \in tagList
                             ELSE r.patch \in tagList /\ PatchOf(r.patch, r.tag)
      /\ \A u \in Considered : PatchOf(u, r.tag) =>
            /\ r.patch # <<NA>>
            /\ Last(u) \in Number => Last(u) <= Last(r.patch)
  BY <1>1, <1>2, FilteredIs
<1>4. PICK t \in Considered : BaseOf(t) = r.tag
  BY <1>1, <1>2, FilteredIs
<1>5. ASSUME NEW u \in stayed[i], PatchOf(u, r.tag)  PROVE u \in Considered
  <2>1. u \in tagList /\ u \in Name /\ t \in Name /\ IsPatch(u)
    BY <1>2, <1>5 DEF Considered, PatchOf
  <2>2. CASE All
    BY <2>1, <2>2 DEF Considered
  <2>3. CASE ~All
    <3>1. PICK f \in Found : MatchesTag(f, t)
      BY <2>3 DEF Considered
    <3>2. f \in Range(call.entries[i].tags)
      BY DEF Found, Current
    <3>3. MatchesTag(f, u)
      BY <1>2, <1>4, <1>5, <2>1, <3>1, <3>2 DEF MatchesAllPatches
    <3>4. QED  BY <2>1, <3>3 DEF Considered
  <2>4. QED  BY <2>2, <2>3
<1>6. IsLatest(r, i)
  BY <1>2, <1>3, <1>5 DEF IsLatest, Current
<1>7. \A u, b : PatchOf(u, b)' = PatchOf(u, b)
  BY <1>1 DEF PatchOf, IsPatch, Suffix
<1>8. QED  BY <1>1, <1>6, <1>7 DEF IsLatest

LEMMA LastPageStep ==
    ASSUME TypeInv, ListingInv, AnswerInv, HighestInv, LastPage
    PROVE  AnswerInv' /\ HighestInv'
<1>1. PICK i : i = entry
  OBVIOUS
<1>2. /\ phase = "pages" /\ call' = call /\ stayed' = stayed /\ ever' = ever /\ erred' = erred
      /\ entry' = entry + 1
      /\ filteredRepos \subseteq filteredRepos'
      /\ uniqueFilteredRepos \subseteq uniqueFilteredRepos'
      /\ artifactsNotFound \subseteq artifactsNotFound'
  BY DEF LastPage, Apply, NextEntry, ghosts
<1>3. Finished' = Finished \cup {i}
  BY <1>1, <1>2, CurrentIs, CallStays DEF Finished
<1>4. \A j \in Finished : SaysNoLess(j)
  BY <1>2 DEF SaysNoLess
<1>5. ASSUME NEW j \in Finished' \ erred'  PROVE EntryIsAccounted(j)'
  <2>1. CASE j = i
    BY <1>1, <2>1, ApplyAccounts
  <2>2. CASE j \in Finished \ erred
    BY <1>4, <2>2, AccountedStays DEF AnswerInv
  <2>3. QED  BY <1>2, <1>3, <1>5, <2>1, <2>2
<1>6. ASSUME NEW m \in artifactsNotFound'  PROVE \E j \in Finished' : IsMissing(m, j)'
  <2>1. CASE m \in artifactsNotFound
    BY <1>3, <1>4, <2>1, MissingStays DEF AnswerInv
  <2>2. CASE m \notin artifactsNotFound
    BY <1>1, <1>3, <2>2, ApplyMisses
  <2>3. QED  BY <2>1, <2>2
<1>7. ASSUME MatchesAllPatches, NEW r \in filteredRepos'
      PROVE  \E j \in Finished' : IsLatest(r, j)'
  <2>1. CASE r \in filteredRepos
    BY <1>3, <1>4, <1>7, <2>1, LatestStays DEF HighestInv
  <2>2. CASE r \notin filteredRepos
    BY <1>1, <1>3, <1>7, <2>2, ApplyListsLatest
  <2>3. QED  BY <2>1, <2>2
<1>8. AnswerInv'
  BY <1>5, <1>6 DEF AnswerInv
<1>9. HighestInv'
  BY <1>2, <1>7, MatchesStays DEF HighestInv
<1>10. QED  BY <1>8, <1>9

LEMMA FirstFailsStep ==
    ASSUME TypeInv, AnswerInv, HighestInv, FirstFails
    PROVE  AnswerInv' /\ HighestInv'
<1>1. PICK i : i = entry
  OBVIOUS
<1>2. /\ phase = "pages" /\ call' = call /\ stayed' = stayed /\ ever' = ever
      /\ erred' = erred \cup {i} /\ entry' = entry + 1
      /\ filteredRepos' = filteredRepos /\ uniqueFilteredRepos' = uniqueFilteredRepos
      /\ artifactsNotFound' = artifactsNotFound \cup NotFound(Range(Current.tags))
  BY <1>1 DEF FirstFails, NextEntry
<1>3. Finished' = Finished \cup {i}
  BY <1>1, <1>2, CurrentIs, CallStays DEF Finished
<1>4. \A j \in Finished : SaysNoLess(j)
  BY <1>2 DEF SaysNoLess
<1>5. ASSUME NEW j \in Finished' \ erred'  PROVE EntryIsAccounted(j)'
  <2>1. j \in Finished \ erred
    BY <1>2, <1>3, <1>5
  <2>2. QED  BY <1>4, <2>1, AccountedStays DEF AnswerInv
<1>6. ASSUME NEW m \in artifactsNotFound'  PROVE \E j \in Finished' : IsMissing(m, j)'
  <2>1. CASE m \in artifactsNotFound
    BY <1>3, <1>4, <2>1, MissingStays DEF AnswerInv
  <2>2. CASE m \in NotFound(Range(Current.tags))
    <3>1. m.repo = call.entries[i].repo
      BY <1>1, <2>2 DEF NotFound, Current
    <3>2. IsMissing(m, i)'
      BY <1>2, <3>1 DEF IsMissing
    <3>3. QED  BY <1>3, <3>2
  <2>3. QED  BY <1>2, <1>6, <2>1, <2>2
<1>7. AnswerInv'
  BY <1>5, <1>6 DEF AnswerInv
<1>8. HighestInv'
  <2>1. ASSUME MatchesAllPatches, NEW r \in filteredRepos
        PROVE  \E j \in Finished' : IsLatest(r, j)'
    BY <1>3, <1>4, <2>1, LatestStays DEF HighestInv
  <2>2. QED  BY <1>2, <2>1, MatchesStays DEF HighestInv
<1>9. QED  BY <1>7, <1>8

\* An entry that is passed over is not enabled.
LEMMA SkipStep ==
    ASSUME TypeInv, AnswerInv, HighestInv, Skip
    PROVE  AnswerInv' /\ HighestInv'
<1>1. /\ call' = call /\ entry' = entry + 1 /\ entry \notin Enabled
      /\ UNCHANGED <<answer, tags, changes, stayed, ever, erred>>
  BY DEF Skip, NextEntry, ghosts
<1>2. entry \in Int /\ \A i \in Enabled : i \in Int
  BY CallTypes DEF TypeInv, Skip
<1>3. \A i \in Enabled : i < entry + 1 <=> i < entry
  BY <1>1, <1>2
<1>4. Finished' = Finished
  BY <1>1, <1>3, CallStays DEF Finished
<1>5. QED  BY <1>1, <1>4, AnswerStays

LEMMA AnswerStep ==
    ASSUME TypeInv, ListingInv, AnswerInv, HighestInv, [PatchNext]_vars
    PROVE  AnswerInv' /\ HighestInv'
<1> USE DEF ghosts
<1>1. ASSUME UNCHANGED <<call, entry, answer, erred>>,
             \A i \in Finished : stayed'[i] = stayed[i] /\ ever'[i] = ever[i]
      PROVE  AnswerInv' /\ HighestInv'
  <2>1. Finished' = Finished
    BY <1>1, CallStays DEF Finished
  <2>2. QED  BY <1>1, <2>1, AnswerStays
<1>2. CASE Start \/ ReadFails \/ Finish \/ LaterFails \/ ListPage
  BY <1>1, <1>2 DEF Start, ReadFails, Finish, LaterFails, ListPage
<1>3. CASE Skip
  BY <1>3, SkipStep
<1>4. CASE Begin
  <2>1. \A i \in Finished : i # entry
    BY CallTypes DEF Finished, TypeInv
  <2>2. \A i \in Finished : stayed'[i] = stayed[i] /\ ever'[i] = ever[i]
    BY <1>4, <2>1 DEF Begin, TypeInv, Finished, Enabled
  <2>3. QED  BY <1>1, <1>4, <2>2 DEF Begin
<1>5. CASE LastPage
  BY <1>5, LastPageStep
<1>6. CASE FirstFails
  BY <1>6, FirstFailsStep
<1>7. ASSUME NEW r \in DOMAIN tags, NEW t \in Name, PushTag(r, t) \/ DropTag(r, t)
      PROVE  AnswerInv' /\ HighestInv'
  <2>1. \A i \in Finished : i # entry
    BY CallTypes DEF Finished, TypeInv
  <2>2. \A i \in Finished : stayed'[i] = stayed[i] /\ ever'[i] = ever[i]
    BY <1>7, <2>1 DEF PushTag, DropTag, TypeInv, Finished, Enabled
  <2>3. QED  BY <1>1, <1>7, <2>2 DEF PushTag, DropTag
<1>8. CASE UNCHANGED vars
  BY <1>1, <1>8 DEF vars
<1>9. QED  BY <1>2, <1>3, <1>4, <1>5, <1>6, <1>7, <1>8 DEF PatchNext, Command

-----------------------------------------------------------------------------
(***************************************************************************)
(* The theorems.                                                           *)
(***************************************************************************)

\* The invariants hold for every filter, whatever is pushed and deleted.
THEOREM PatchCorrect == PatchSpec => []PatchInv
<1>1. PatchInv /\ [PatchNext]_vars => PatchInv'
  BY TypeStep, ListingStep, AnswerStep DEF PatchInv
<1>2. QED  BY InitInv, <1>1, PTL DEF PatchSpec

\* What is listed as the latest patch of a tag was there, and none with a
\* higher number was there all the time, if the expressions of the filter
\* match all patches of the tags whose versions they match.
THEOREM PatchLatestIsHighest == PatchSpec => []LatestIsHighest
<1>1. PatchInv => LatestIsHighest
  BY DEF PatchInv, HighestInv, LatestIsHighest, Finished
<1>2. QED  BY PatchCorrect, <1>1, PTL

\* Every tag the filter asks for is listed or said not to be found, and of
\* those that stayed none is said not to be found.
THEOREM PatchAccountsForEveryTag == PatchSpec => []EveryTagIsAccounted
<1>1. ASSUME PatchInv, phase = "listed"  PROVE Finished = Enabled
  <2>1. /\ entry \in 1..Len(call.entries) + 1 /\ entry \notin Entries
        /\ Len(call.entries) \in Nat /\ Entries = 1..Len(call.entries) /\ Enabled \subseteq Entries
    BY <1>1, CallTypes DEF PatchInv, TypeInv
  <2>2. \A i \in Entries : i < entry
    BY <2>1
  <2>3. QED  BY <2>1, <2>2 DEF Finished
<1>2. PatchInv => EveryTagIsAccounted
  BY <1>1 DEF PatchInv, AnswerInv, EveryTagIsAccounted
<1>3. QED  BY PatchCorrect, <1>2, PTL
=============================================================================
