------------------------- MODULE PurgeCommandProofs -------------------------
(***************************************************************************)
(* The safety properties of acr purge, for every command line, every list  *)
(* of names that others change while it is read, every size of a page and  *)
(* of a batch, every number of deletions and every fault.                  *)
(***************************************************************************)
EXTENDS PurgeCommand, FiniteSetTheorems, SequenceTheorems, TLAPS

-----------------------------------------------------------------------------
(***************************************************************************)
(* Positions in increasing order.                                          *)
(***************************************************************************)

Below(S, i) == {j \in S : j < i}

\* A position has fewer positions below it than there are, and fewer than a
\* later one has.
LEMMA BelowGrows ==
    ASSUME NEW S \in SUBSET Int, IsFiniteSet(S), NEW i \in S
    PROVE  /\ Cardinality(Below(S, i)) \in Nat
           /\ Cardinality(Below(S, i)) < Cardinality(S)
           /\ \A j \in S : i < j => Cardinality(Below(S, i)) < Cardinality(Below(S, j))
<1>1. \A j \in S : IsFiniteSet(Below(S, j)) /\ Cardinality(Below(S, j)) \in Nat
  BY FS_Subset, FS_CardinalityType DEF Below
<1>2. Cardinality(S) \in Nat
  BY FS_CardinalityType
<1>3. Cardinality(Below(S, i)) < Cardinality(S)
  <2>1. Below(S, i) \in SUBSET S /\ Below(S, i) # S
    BY DEF Below
  <2>2. QED  BY <1>1, <1>2, <2>1, FS_Subset
<1>4. ASSUME NEW j \in S, i < j
      PROVE  Cardinality(Below(S, i)) < Cardinality(Below(S, j))
  <2>1. Below(S, i) \in SUBSET Below(S, j)
    <3>1. ASSUME NEW x \in S, x < i  PROVE x < j
      BY <3>1, <1>4
    <3>2. QED  BY <3>1 DEF Below
  <2>2. i \in Below(S, j) /\ i \notin Below(S, i)
    BY <1>4 DEF Below
  <2>3. QED  BY <1>1, <2>1, <2>2, FS_Subset
<1>5. QED  BY <1>1, <1>3, <1>4

\* Each position of a finite set has its place in the order, and each place
\* its position.
LEMMA InOrderEnumerates ==
    ASSUME NEW S \in SUBSET Int, IsFiniteSet(S)
    PROVE  /\ Cardinality(S) \in Nat
           /\ InOrder(S) \in [1..Cardinality(S) -> S]
           /\ \A i \in S : \E k \in 1..Cardinality(S) : InOrder(S)[k] = i
           /\ \A k \in 1..Cardinality(S) : Cardinality(Below(S, InOrder(S)[k])) = k - 1
<1> DEFINE N == Cardinality(S)
           rank == [i \in S |-> Cardinality(Below(S, i)) + 1]
<1>1. N \in Nat
  BY FS_CardinalityType
<1>2. rank \in [S -> 1..N]
  BY <1>1, BelowGrows
<1>3. \A i, j \in S : rank[i] = rank[j] => i = j
  <2>1. SUFFICES ASSUME NEW i \in S, NEW j \in S, i # j  PROVE rank[i] # rank[j]
    OBVIOUS
  <2>2. CASE i < j
    BY <2>2, BelowGrows
  <2>3. CASE j < i
    BY <2>3, BelowGrows
  <2>4. QED  BY <2>1, <2>2, <2>3
<1>4. rank \in Injection(S, 1..N)
  BY <1>2, <1>3 DEF Injection, IsInjective
<1>5. IsFiniteSet(1..N) /\ Cardinality(1..N) = N
  BY <1>1, FS_Interval
<1>6. rank \in Surjection(S, 1..N)
  BY <1>4, <1>5, FS_Injection
<1>7. \A k \in 1..N : \E i \in S : rank[i] = k
  BY <1>6 DEF Surjection
<1>8. ASSUME NEW k \in 1..N
      PROVE  /\ InOrder(S)[k] \in S /\ rank[InOrder(S)[k]] = k
             /\ Cardinality(Below(S, InOrder(S)[k])) = k - 1
  <2>1. PICK i \in S : Cardinality(Below(S, i)) + 1 = k
    BY <1>7
  <2>2. Cardinality(Below(S, i)) = k - 1
    BY <2>1, BelowGrows
  <2>3. InOrder(S)[k] = CHOOSE x \in S : Cardinality({j \in S : j < x}) = k - 1
    BY DEF InOrder
  <2>4. InOrder(S)[k] \in S /\ Cardinality(Below(S, InOrder(S)[k])) = k - 1
    BY <2>2, <2>3 DEF Below
  <2>5. QED  BY <2>4
<1>9. InOrder(S) \in [1..N -> S]
  BY <1>8 DEF InOrder
<1>10. ASSUME NEW i \in S  PROVE \E k \in 1..N : InOrder(S)[k] = i
  <2>1. rank[i] \in 1..N
    BY <1>2
  <2>2. InOrder(S)[rank[i]] \in S /\ rank[InOrder(S)[rank[i]]] = rank[i]
    BY <2>1, <1>8
  <2>3. QED  BY <1>3, <2>1, <2>2
<1>11. QED  BY <1>1, <1>8, <1>9, <1>10

-----------------------------------------------------------------------------
(***************************************************************************)
(* --ago: what is in the range of a duration is not changed by wrapping.   *)
(***************************************************************************)

LEMMA InRangeIsUnwrapped ==
    ASSUME NEW x \in Int, -(MaxInt + 1) <= x, x <= MaxInt
    PROVE  Wrap(x) = x
<1> DEFINE H == MaxInt + 1
<1>1. H \in Nat \ {0}
  BY ParseDurationAssumption DEF ParseDurationAssumption
<1>2. ASSUME NEW h \in Nat \ {0}, NEW y \in Int, -h <= y, y < h
      PROVE  ((y + h) % (2 * h)) - h = y
  BY <1>2
<1>3. -H <= x /\ x < H
  BY ParseDurationAssumption DEF ParseDurationAssumption
<1>4. ((x + H) % (2 * H)) - H = x
  BY <1>1, <1>2, <1>3
<1>5. QED  BY <1>4 DEF Wrap

LEMMA DaysAreMonotone ==
    ASSUME NEW m \in Int, NEW n \in Int, m <= n
    PROVE  m * Day \in Int /\ m * Day <= n * Day
<1>1. ASSUME NEW a \in Int, NEW b \in Int, NEW d \in Nat, a <= b
      PROVE  a * d \in Int /\ a * d <= b * d
  BY <1>1
<1>2. Day \in Nat
  BY ParseDurationAssumption DEF ParseDurationAssumption
<1>3. QED  BY <1>1, <1>2

LEMMA MaxDurationInRange ==
    /\ MaxInt \in Nat /\ MaxDuration \in Nat /\ MaxDuration <= MaxInt
    /\ MaxDays \in Nat /\ MaxDuration = MaxDays * Day /\ 0 * Day = 0
<1>1. ASSUME NEW a \in Nat, NEW d \in Nat  PROVE a * d \in Nat /\ 0 * d = 0
  BY <1>1
<1>2. QED  BY <1>1, ParseDurationAssumption DEF ParseDurationAssumption, MaxDuration

\* The days alone: capped, and within the range.
LEMMA DaysAreCapped ==
    ASSUME NEW ago \in AgoValue, Number(ago.days), ago.days >= 0
    PROVE  /\ ~Unread(ago) /\ ago.days \in Nat /\ ago.days * Day \in Nat
           /\ DayPart(ago) = AtMost(ago.days, MaxDays) * Day
           /\ DayPart(ago) = AtMost(ago.days * Day, MaxDuration)
           /\ DayPart(ago) \in Nat /\ DayPart(ago) <= MaxDuration
<1>1. ~Unread(ago) /\ ago.days \in Nat
  BY DEF AgoValue, Number, Unread
<1> DEFINE D == AtMost(ago.days, MaxDays)
<1>2. D \in Nat /\ D <= MaxDays
  BY <1>1, MaxDurationInRange DEF AtMost
<1>3. D * Day \in Int /\ 0 <= D * Day /\ D * Day <= MaxDuration
  BY <1>2, DaysAreMonotone, MaxDurationInRange
<1>4. Wrap(D * Day) = D * Day
  BY <1>3, InRangeIsUnwrapped, MaxDurationInRange
<1>5. DayPart(ago) = D * Day
  BY <1>1, <1>4 DEF DayPart, Capped, ScannedDays, AtMost
<1>6. ago.days * Day \in Nat
  BY <1>1, DaysAreMonotone, MaxDurationInRange
<1>7. D * Day = AtMost(ago.days * Day, MaxDuration)
  <2>1. CASE ago.days > MaxDays
    <3>1. MaxDuration <= ago.days * Day
      BY <2>1, <1>1, DaysAreMonotone, MaxDurationInRange
    <3>2. QED  BY <3>1, <2>1, <1>6, MaxDurationInRange DEF AtMost
  <2>2. CASE ago.days <= MaxDays
    <3>1. ago.days * Day <= MaxDuration
      BY <2>2, <1>1, DaysAreMonotone, MaxDurationInRange
    <3>2. QED  BY <3>1, <2>2, <1>1, <1>6, MaxDurationInRange DEF AtMost
  <2>3. QED  BY <2>1, <2>2, <1>1, MaxDurationInRange
<1>8. QED  BY <1>1, <1>3, <1>5, <1>6, <1>7

LEMMA CapsOfParts ==
    ASSUME NEW a \in Nat, NEW b \in Nat, NEW m \in Nat
    PROVE  AtMost(AtMost(a, m) + AtMost(b, m), m) = AtMost(a + b, m)
<1>1. CASE a > m \/ b > m
  BY <1>1 DEF AtMost
<1>2. CASE a <= m /\ b <= m
  BY <1>2 DEF AtMost
<1>3. QED  BY <1>1, <1>2

\* parseDuration answers what is asked for, capped, for the values of --ago
\* that fit its format, are not negative and whose days and rest, each at
\* most the maximum, add up to what a duration holds.
THEOREM ParseDurationIsIntended ==
    ASSUME NEW ago \in AgoValue, InRange(ago), ~ParseFails(ago)
    PROVE  ParseDuration(ago) = -Intended(ago)
<1>1. Number(ago.days) /\ ago.days >= 0
  BY DEF InRange
<1> DEFINE days == ago.days * Day
           part == DayPart(ago)
<1>2. /\ ~Unread(ago) /\ ago.days \in Nat /\ days \in Nat
      /\ part = AtMost(ago.days, MaxDays) * Day
      /\ part = AtMost(days, MaxDuration)
      /\ part \in Nat /\ part <= MaxDuration
  BY <1>1, DaysAreCapped
<1>3. HasRest(ago) <=> ago.hasRest
  BY <1>2 DEF HasRest, InRange
<1>4. /\ MaxInt \in Nat /\ MaxDuration \in Nat /\ MaxDuration <= MaxInt
      /\ MaxDays \in Nat /\ MaxDuration = MaxDays * Day /\ 0 * Day = 0
  BY MaxDurationInRange
<1>5. ASSUME NEW n \in Nat, n <= MaxDuration  PROVE Wrap(-n) = -n /\ Wrap(n) = n
  BY <1>4, <1>5, InRangeIsUnwrapped
<1>6. CASE ~ago.hasRest
  <2>1. ParseDuration(ago) = Wrap(-part)
    BY <1>3, <1>6 DEF ParseDuration
  <2>2. Intended(ago) = part
    BY <1>2, <1>6 DEF Intended
  <2>3. QED  BY <2>1, <2>2, <1>2, <1>5
<1>7. CASE ago.hasRest /\ ago.rest = Invalid /\ Capped(ago)
  <2>1. ParseDuration(ago) = Wrap(-part)
    BY <1>3, <1>7 DEF ParseDuration
  <2>2. ago.days > MaxDays
    BY <1>2, <1>7 DEF Capped, ScannedDays
  <2>3. part = MaxDuration
    BY <1>2, <1>4, <2>2 DEF AtMost
  <2>4. Intended(ago) = MaxDuration
    BY <1>2, <1>4, <1>7, <2>3 DEF Intended, AtMost
  <2>5. QED  BY <2>1, <2>3, <2>4, <1>2, <1>5
<1>8. CASE ago.hasRest /\ ago.rest = Invalid /\ ~Capped(ago)
  <2>1. ago.days = 0
    BY <1>8 DEF InRange
  <2>2. part = 0 /\ days = 0
    BY <2>1, <1>2, <1>4 DEF AtMost
  <2>3. Combined(ago) = MaxDuration
    BY <2>2, <1>4, <1>5, <1>8 DEF Combined, RestPart
  <2>4. ParseDuration(ago) = Wrap(-MaxDuration)
    BY <1>3, <1>8, <2>3 DEF ParseDuration
  <2>5. Intended(ago) = MaxDuration
    BY <2>2, <1>4, <1>8 DEF Intended, AtMost
  <2>6. QED  BY <2>4, <2>5, <1>4, <1>5
<1>9. CASE ago.hasRest /\ ago.rest # Invalid
  <2> DEFINE rest == AtMost(ago.rest, MaxDuration)
  <2>1. ago.rest \in Nat
    BY <1>3, <1>9 DEF InRange, ParseFails, AgoValue
  <2>2. rest \in Nat /\ RestPart(ago) = rest
    BY <2>1, <1>4, <1>9 DEF AtMost, RestPart
  <2>3. part + rest <= MaxInt
    BY <1>2, <1>9 DEF InRange
  <2>4. Wrap(part + rest) = part + rest
    BY <2>2, <2>3, <1>2, <1>4, InRangeIsUnwrapped
  <2>5. Combined(ago) = AtMost(part + rest, MaxDuration)
    BY <2>2, <2>4 DEF Combined, AtMost
  <2>6. AtMost(part + rest, MaxDuration) = AtMost(days + ago.rest, MaxDuration)
    <3>1. days \in Nat /\ part = AtMost(days, MaxDuration)
      BY <1>2
    <3> HIDE DEF days, part
    <3>2. QED  BY <1>4, <2>1, <3>1, CapsOfParts, ZenonT(60)
  <2>7. Intended(ago) = Combined(ago)
    BY <2>5, <2>6, <1>9 DEF Intended
  <2>8. Combined(ago) \in Nat /\ Combined(ago) <= MaxDuration
    BY <2>5, <2>2, <1>2, <1>4 DEF AtMost
  <2>9. ParseDuration(ago) = Wrap(-Combined(ago))
    BY <1>3, <1>9 DEF ParseDuration
  <2>10. QED  BY <2>7, <2>8, <2>9, <1>5
<1>10. ago.hasRest \in BOOLEAN
  BY DEF AgoValue
<1>11. QED  BY <1>6, <1>7, <1>8, <1>9

-----------------------------------------------------------------------------
(***************************************************************************)
(* The invariants.  The command, the list of names and the selection, by   *)
(* how far the command is; and the place of the loop over repositories,    *)
(* with what has been done until there.                                    *)
(***************************************************************************)

Running == pc \in {"batch", "tags", "manifests"}
Started == Running \/ (pc = "returned" /\ error \in {"none", "refresh", "permission", "other"})
Chosen == pc = "purge" \/ Started
Listed == pc = "filters" \/ Chosen \/ (pc = "returned" /\ error = "filters")

FlagsInv ==
    /\ command \in Commands
    /\ pc \in {"flags", "catalog", "filters", "purge", "batch", "tags", "manifests", "returned"}
    /\ error \in {"none", "flags", "catalog", "filters", "refresh", "permission", "other"}
    /\ pc # "returned" => error = "none"
    /\ pc \notin {"flags", "returned"} => FlagsOK /\ ~AgoFails /\ agoDuration = Ago

\* What was there all the time is listed as far as the listing is.
ListInv ==
    /\ lastName \in Nat
    /\ repositories \subseteq Range(Names) /\ allRepoNames \subseteq Range(Names)
    /\ pc = "flags" => stayed = {} /\ lastName = 0
    /\ pc = "catalog" =>
        /\ stayed \subseteq repositories
        /\ \A i \in DOMAIN Names :
              i <= lastName /\ Names[i] \in stayed => Names[i] \in allRepoNames
    /\ Listed => stayed \subseteq allRepoNames

ChosenInv == Chosen => tagFilters = [n \in Selected |-> FiltersOf(n)]

CallInv ==
    /\ call \in [repos : Nat, catalog : SUBSET Nat, abac : BOOLEAN, untaggedOnly : BOOLEAN,
                 removeUntagged : BOOLEAN]
    /\ Started => call.repos = Len(repos)
    /\ ~Started => call.repos = 0

Done == Len(completed)

\* The repositories before the one at hand are completed; a batch begins
\* behind the completed ones; and how the purge ended tells where it stands.
PlaceInv ==
    /\ start \in Nat /\ at \in Nat
    /\ Running /\ ~call.abac => scope = Repo
    /\ completed = [k \in 1..Done |-> k] /\ Done \in Nat /\ Done <= call.repos
    /\ ~Started => Done = 0
    /\ pc = "batch" => Done = IF start < call.repos THEN start ELSE call.repos
    /\ pc \in {"tags", "manifests"} =>
        /\ start < call.repos /\ at \in start + 1 .. BatchEnd /\ Done = at - 1
        /\ call.abac => scope = ScopeOf(start + 1 .. BatchEnd)
    /\ error \in {"permission", "other"} => at \in Repo /\ Done = at - 1
    /\ pc = "returned" /\ error = "none" => Done = call.repos
    /\ remaining = IF error = "permission" THEN [k \in 1..(call.repos - at) |-> at + k] ELSE << >>

\* Behind the completed repositories nothing is gone, but for the tags and
\* manifests of the one at hand.
GoneInv ==
    /\ tagsGone \in [Repo -> 0..MaxItems] /\ manifestsGone \in [Repo -> 0..MaxItems]
    /\ single \in Nat
    /\ \A r \in Repo :
        /\ r > Done + 1 => tagsGone[r] = 0 /\ manifestsGone[r] = 0
        /\ r = Done + 1 /\ pc \in {"batch", "tags"} => tagsGone[r] = 0 /\ manifestsGone[r] = 0
        /\ r = at /\ pc = "manifests" => tagsGone[r] = single /\ manifestsGone[r] = 0

CountInv ==
    /\ tagsCount = Cardinality(Items(tagsGone))
    /\ manifestsCount = Cardinality(Items(manifestsGone))

RunInv == CallInv /\ PlaceInv /\ GoneInv /\ CountInv

PurgeInv == FlagsInv /\ ListInv /\ ChosenInv /\ RunInv

-----------------------------------------------------------------------------
(***************************************************************************)
(* Lengths, and the sequences the command forms.                           *)
(***************************************************************************)

LEMMA FunctionIsSequence ==
    ASSUME NEW S, NEW n \in Nat, NEW f \in [1..n -> S]
    PROVE  f \in Seq(S) /\ Len(f) = n
<1>1. f \in Seq(S)
  BY SeqDef
<1>2. Len(f) \in Nat /\ DOMAIN f = 1..Len(f)
  BY <1>1, LenProperties
<1>3. 1..Len(f) = 1..n
  BY <1>2
<1>4. ASSUME NEW m \in Nat, 1..m = 1..n  PROVE m = n
  <2>1. \A k \in Int : k \in 1..m <=> k \in 1..n
    BY <1>4
  <2>2. (m \in 1..m <=> m \in 1..n) /\ (n \in 1..m <=> n \in 1..n)
    BY <2>1
  <2>3. QED  BY <2>2
<1>5. QED  BY <1>1, <1>2, <1>3, <1>4

LEMMA NamesIsASequence ==
    /\ Names \in Seq(Range(Names)) /\ Len(Names) \in Nat
    /\ DOMAIN Names = 1..Len(Names) /\ DOMAIN Names \subseteq Int /\ IsFiniteSet(DOMAIN Names)
    /\ \A i \in DOMAIN Names : Names[i] \in Range(Names)
    /\ \A n \in Range(Names) : \E i \in DOMAIN Names : Names[i] = n
<1>1. Names \in Seq(Range(Names))
  BY PurgeCommandAssumption
<1>2. Len(Names) \in Nat /\ DOMAIN Names = 1..Len(Names)
  BY <1>1, LenProperties
<1>3. DOMAIN Names \subseteq Int /\ IsFiniteSet(DOMAIN Names)
  BY <1>2, FS_Interval
<1>4. QED  BY <1>1, <1>2, <1>3 DEF Range

\* The repositories of the purge are those selected.
LEMMA ReposAreSelected ==
    /\ Len(repos) \in Nat /\ DOMAIN repos = 1..Len(repos)
    /\ \A r \in 1..Len(repos) : repos[r] \in Range(Names) /\ repos[r] \in DOMAIN tagFilters
    /\ \A n \in Range(Names) : n \in DOMAIN tagFilters => \E r \in 1..Len(repos) : repos[r] = n
<1> DEFINE S == {i \in DOMAIN Names : Names[i] \in DOMAIN tagFilters}
           N == Cardinality(S)
<1>1. S \in SUBSET Int /\ IsFiniteSet(S)
  BY NamesIsASequence, FS_Subset
<1>2. /\ N \in Nat /\ InOrder(S) \in [1..N -> S]
      /\ \A i \in S : \E k \in 1..N : InOrder(S)[k] = i
  BY <1>1, InOrderEnumerates
<1>3. repos = [k \in 1..N |-> Names[InOrder(S)[k]]]
  BY <1>2 DEF repos
<1>4. repos \in [1..N -> Range(Names)]
  BY <1>2, <1>3, NamesIsASequence
<1>5. Len(repos) = N
  BY <1>2, <1>4, FunctionIsSequence
<1>6. \A r \in 1..N : repos[r] \in Range(Names) /\ repos[r] \in DOMAIN tagFilters
  BY <1>2, <1>3, <1>4
<1>7. ASSUME NEW n \in Range(Names), n \in DOMAIN tagFilters
      PROVE  \E r \in 1..N : repos[r] = n
  <2>1. PICK i \in S : Names[i] = n
    BY <1>7, NamesIsASequence
  <2>2. PICK k \in 1..N : InOrder(S)[k] = i
    BY <1>2
  <2>3. QED  BY <2>1, <2>2, <1>3
<1>8. QED  BY <1>2, <1>4, <1>5, <1>6, <1>7

LEMMA FiltersIsASequence ==
    ASSUME FlagsInv
    PROVE  /\ Filters \in Seq(Range(Filters)) /\ Len(Filters) \in Nat
           /\ DOMAIN Filters = 1..Len(Filters)
           /\ DOMAIN Filters \subseteq Int /\ IsFiniteSet(DOMAIN Filters)
<1>1. Filters \in Seq(Range(Filters))
  BY PurgeCommandAssumption DEF FlagsInv, Filters
<1>2. Len(Filters) \in Nat /\ DOMAIN Filters = 1..Len(Filters)
  BY <1>1, LenProperties
<1>3. QED  BY <1>1, <1>2, FS_Interval

Matching(n) == {k \in DOMAIN Filters : MatchesFilter(Filters[k], n)}

\* FiltersOf(n) has the tag expression of each filter that matches n at its
\* place among these, and no other.
LEMMA FiltersOfMatch ==
    ASSUME FlagsInv, ~AllSelected, NEW n
    PROVE  /\ Len(FiltersOf(n)) = Cardinality(Matching(n))
           /\ \A k \in Matching(n) :
                 FiltersOf(n)[Cardinality({l \in Matching(n) : l <= k})] = Filters[k].tag
<1> DEFINE S == Matching(n)
           N == Cardinality(S)
<1>1. S \in SUBSET Int /\ IsFiniteSet(S)
  BY FiltersIsASequence, FS_Subset DEF Matching
<1>2. /\ N \in Nat
      /\ InOrder(S) \in [1..N -> S]
      /\ \A i \in S : \E j \in 1..N : InOrder(S)[j] = i
      /\ \A j \in 1..N : Cardinality(Below(S, InOrder(S)[j])) = j - 1
  BY <1>1, InOrderEnumerates
<1>3. FiltersOf(n) = [j \in 1..N |-> Filters[InOrder(S)[j]].tag]
  BY <1>2 DEF FiltersOf, Hits, Matching
<1>4. Len(FiltersOf(n)) = N
  BY <1>2, <1>3, FunctionIsSequence
<1>5. ASSUME NEW k \in S
      PROVE  FiltersOf(n)[Cardinality({l \in S : l <= k})] = Filters[k].tag
  <2>1. PICK j \in 1..N : InOrder(S)[j] = k
    BY <1>2
  <2>2. Cardinality(Below(S, k)) = j - 1
    BY <1>2, <2>1
  <2>3. {l \in S : l <= k} = Below(S, k) \cup {k}
    BY <1>1 DEF Below
  <2>4. IsFiniteSet(Below(S, k)) /\ k \notin Below(S, k)
    BY <1>1, FS_Subset DEF Below
  <2>5. Cardinality({l \in S : l <= k}) = (j - 1) + 1
    BY <2>2, <2>3, <2>4, FS_AddElement
  <2>6. QED  BY <1>2, <1>3, <2>1, <2>5
<1>6. QED  BY <1>4, <1>5

-----------------------------------------------------------------------------
(***************************************************************************)
(* What the invariants say of the properties.                              *)
(***************************************************************************)

LEMMA InvReadAsIntended == FlagsInv => ReadAsIntended
<1> SUFFICES ASSUME FlagsInv, pc \notin {"flags", "returned"}
             PROVE  /\ command.hasAgo /\ InRange(command.ago) =>
                          agoDuration = -Intended(command.ago)
                    /\ ~command.hasAgo => agoDuration = 0 /\ command.untaggedOnly
  BY DEF ReadAsIntended
<1>1. FlagsOK /\ ~AgoFails /\ agoDuration = Ago /\ command.ago \in AgoValue
  BY PurgeCommandAssumption DEF FlagsInv
<1>2. ASSUME command.hasAgo, InRange(command.ago)
      PROVE  agoDuration = -Intended(command.ago)
  <2>1. ~ParseFails(command.ago) /\ agoDuration = ParseDuration(command.ago)
    BY <1>1, <1>2 DEF AgoFails, Ago
  <2>2. QED  BY <1>1, <1>2, <2>1, ParseDurationIsIntended
<1>3. ASSUME ~command.hasAgo  PROVE agoDuration = 0 /\ command.untaggedOnly
  BY <1>1, <1>3 DEF FlagsOK, Ago
<1>4. QED  BY <1>2, <1>3

LEMMA InvSuccessIsComplete == PurgeInv => SuccessIsComplete
<1> SUFFICES ASSUME PurgeInv, Succeeded, NEW n \in stayed,
                    AllSelected \/ (\E k \in DOMAIN Filters : MatchesFilter(Filters[k], n))
             PROVE  /\ \E k \in DOMAIN completed : repos[completed[k]] = n
                    /\ Len(tagFilters[n]) = Cardinality(Matching(n))
                    /\ \A k \in Matching(n) :
                          tagFilters[n][Cardinality({l \in Matching(n) : l <= k})] = Filters[k].tag
  BY DEF SuccessIsComplete, Matching
<1>1. pc = "returned" /\ error = "none" /\ Started /\ Chosen /\ Listed
  BY DEF Succeeded, Started, Chosen, Listed
<1>2. n \in allRepoNames /\ n \in Range(Names)
  BY <1>1 DEF PurgeInv, ListInv
<1>3. n \in Selected /\ tagFilters = [m \in Selected |-> FiltersOf(m)]
  BY <1>1, <1>2 DEF Selected, PurgeInv, ChosenInv
<1>4. Done = call.repos /\ call.repos = Len(repos) /\ completed = [k \in 1..Done |-> k]
  BY <1>1 DEF PurgeInv, RunInv, CallInv, PlaceInv
<1>5. PICK r \in 1..Len(repos) : repos[r] = n
  BY <1>2, <1>3, ReposAreSelected
<1>6. r \in DOMAIN completed /\ completed[r] = r
  BY <1>4, <1>5
<1>7. /\ Len(tagFilters[n]) = Cardinality(Matching(n))
      /\ \A k \in Matching(n) :
            tagFilters[n][Cardinality({l \in Matching(n) : l <= k})] = Filters[k].tag
  <2>1. tagFilters[n] = FiltersOf(n)
    BY <1>3
  <2>2. CASE ~AllSelected
    BY <2>1, <2>2, FiltersOfMatch DEF PurgeInv
  <2>3. CASE AllSelected
    <3>1. Filters = << >> /\ FiltersOf(n) = << >>
      BY <2>3 DEF AllSelected, FiltersOf
    <3>2. Matching(n) = {} /\ Len(<< >>) = 0
      BY <3>1 DEF Matching
    <3>3. QED  BY <2>1, <3>1, <3>2, FS_EmptySet
  <2>4. QED  BY <2>2, <2>3
<1>8. QED  BY <1>5, <1>6, <1>7

LEMMA InvOnlySelectedAreTouched == PurgeInv => OnlySelectedAreTouched
<1> SUFFICES ASSUME PurgeInv, NEW r \in DOMAIN tagsGone, tagsGone[r] + manifestsGone[r] > 0,
                    ~AllSelected
             PROVE  \E k \in DOMAIN Filters :
                      \/ \E a \in DOMAIN Filters[k].repos :
                            Filters[k].repos[a] \in {Anything, repos[r]}
                      \/ Len(Filters[k].repos) > 1 /\ MatchesFilter(Filters[k], repos[r])
  BY DEF OnlySelectedAreTouched
<1>1. r \in Repo /\ call.repos \in Nat
  BY DEF PurgeInv, RunInv, GoneInv, CallInv
<1>2. call.repos # 0
  BY <1>1 DEF Repo
<1>3. Chosen /\ r \in 1..Len(repos)
  BY <1>1, <1>2 DEF PurgeInv, RunInv, CallInv, Repo, Chosen
<1>4. repos[r] \in DOMAIN tagFilters
  BY <1>3, ReposAreSelected
<1>5. repos[r] \in Selected
  BY <1>3, <1>4 DEF PurgeInv, ChosenInv
<1>6. PICK k \in DOMAIN Filters : MatchesFilter(Filters[k], repos[r])
  BY <1>5 DEF Selected
<1> DEFINE f == Filters[k]
           n == repos[r]
<1>7. ASSUME ~(Len(f.repos) > 1)
      PROVE  \E a \in DOMAIN f.repos : f.repos[a] \in {Anything, n}
  <2>1. f.repos \in Seq(Range(f.repos))
    BY PurgeCommandAssumption, ZenonT(60) DEF PurgeInv, FlagsInv, Filters, Range
  <2>2. Len(f.repos) \in Nat /\ DOMAIN f.repos = 1..Len(f.repos)
    BY <2>1, LenProperties
  <2>3. PICK i \in 1..Len(f.repos) : f.repos[i] = Anything \/ f.repos[i] = n
    BY <1>6, <1>7, <2>2 DEF MatchesFilter
  <2>4. QED  BY <2>2, <2>3
<1>8. QED  BY <1>6, <1>7

LEMMA InvTokenCoversRepo == RunInv => TokenCoversRepo
<1> SUFFICES ASSUME RunInv, pc \in {"tags", "manifests"}
             PROVE  at \in scope \/ (call.abac /\ at \in call.catalog)
  BY DEF TokenCoversRepo
<1>1. /\ at \in start + 1 .. BatchEnd /\ call.repos \in Nat /\ start \in Nat
      /\ scope = IF call.abac THEN ScopeOf(start + 1 .. BatchEnd) ELSE Repo
  BY DEF RunInv, PlaceInv, CallInv, Running
<1>2. at \in Repo
  BY <1>1, PurgeAssumption DEF BatchEnd, Repo
<1>3. QED  BY <1>1, <1>2 DEF ScopeOf

LEMMA InvCountsCoverCompleted == RunInv => CountsCoverCompleted
<1> SUFFICES ASSUME RunInv
             PROVE  \A j, k \in 1..Len(completed) : completed[j] = completed[k] => j = k
  BY DEF CountsCoverCompleted, RunInv, CountInv
<1>1. completed = [k \in 1..Len(completed) |-> k]
  BY DEF RunInv, PlaceInv, Done
<1>2. QED  BY <1>1

LEMMA InvReportIsComplete == RunInv => ReportIsComplete
<1> SUFFICES ASSUME RunInv, error = "permission"
             PROVE  /\ completed \o <<at>> \o remaining = [k \in Repo |-> k]
                    /\ \A k \in 1..Len(remaining) :
                        tagsGone[remaining[k]] = 0 /\ manifestsGone[remaining[k]] = 0
  BY DEF ReportIsComplete
<1> DEFINE n == call.repos
<1>1. /\ n \in Nat /\ at \in 1..n /\ Done = at - 1
      /\ completed = [k \in 1..Done |-> k]
      /\ remaining = [k \in 1..(n - at) |-> at + k]
  BY DEF RunInv, CallInv, PlaceInv, Repo
<1>2. completed \in Seq(Nat) /\ Len(completed) = at - 1
  <2>1. at - 1 \in Nat /\ completed \in [1..(at - 1) -> Nat]
    BY <1>1
  <2>2. QED  BY <2>1, FunctionIsSequence
<1>3. remaining \in Seq(Nat) /\ Len(remaining) = n - at
  <2>1. n - at \in Nat /\ remaining \in [1..(n - at) -> Nat]
    BY <1>1
  <2>2. QED  BY <2>1, FunctionIsSequence
<1>4. <<at>> \in Seq(Nat) /\ Len(<<at>>) = 1 /\ <<at>>[1] = at
  BY <1>1
<1> DEFINE front == completed \o <<at>>
<1>5. /\ front \in Seq(Nat) /\ Len(front) = at
      /\ \A i \in 1..at : front[i] = i
  <2>1. /\ front \in Seq(Nat) /\ Len(front) = (at - 1) + 1
        /\ \A i \in 1..((at - 1) + 1) :
              front[i] = IF i <= at - 1 THEN completed[i] ELSE <<at>>[i - (at - 1)]
    BY <1>2, <1>4, ConcatProperties
  <2>2. (at - 1) + 1 = at
    BY <1>1
  <2>3. ASSUME NEW i \in 1..at  PROVE front[i] = i
    <3>1. CASE i = at
      BY <1>1, <1>4, <2>1, <2>2, <3>1
    <3>2. CASE i # at
      BY <1>1, <2>1, <2>2, <3>2
    <3>3. QED  BY <3>1, <3>2
  <2>4. QED  BY <2>1, <2>2, <2>3
<1> DEFINE whole == front \o remaining
<1>6. /\ whole \in Seq(Nat) /\ Len(whole) = n
      /\ \A i \in 1..n : whole[i] = i
  <2> HIDE DEF front
  <2>1. /\ whole \in Seq(Nat) /\ Len(whole) = at + (n - at)
        /\ \A i \in 1..(at + (n - at)) :
              whole[i] = IF i <= at THEN front[i] ELSE remaining[i - at]
    BY <1>3, <1>5, ConcatProperties, ZenonT(60)
  <2>2. at + (n - at) = n
    BY <1>1
  <2>3. ASSUME NEW i \in 1..n  PROVE whole[i] = i
    <3>1. CASE i <= at
      BY <1>1, <1>5, <2>1, <2>2, <3>1
    <3>2. CASE i > at
      <4>1. i - at \in 1..(n - at) /\ at + (i - at) = i /\ ~(i <= at)
        BY <1>1, <3>2
      <4>2. remaining[i - at] = i
        BY <1>1, <4>1
      <4> HIDE DEF whole
      <4>3. QED  BY <2>1, <2>2, <4>1, <4>2
    <3>3. i <= at \/ i > at
      BY <1>1
    <3>4. QED  BY <3>1, <3>2, <3>3
  <2>4. QED  BY <2>1, <2>2, <2>3
<1>7. whole = [k \in Repo |-> k]
  <2> HIDE DEF whole
  <2>1. whole \in [1..n -> Nat]
    BY <1>6, LenProperties
  <2>2. QED  BY <1>6, <2>1 DEF Repo
<1>8. ASSUME NEW k \in 1..Len(remaining)
      PROVE  tagsGone[remaining[k]] = 0 /\ manifestsGone[remaining[k]] = 0
  <2>1. remaining[k] = at + k /\ at + k \in Repo /\ at + k > Done + 1
    BY <1>1, <1>3 DEF Repo
  <2>2. QED  BY <2>1 DEF RunInv, GoneInv
<1>9. QED  BY <1>7, <1>8

-----------------------------------------------------------------------------
(***************************************************************************)
(* The command before the purge.                                           *)
(***************************************************************************)

\* How a step of purge moves the command.
PurgeMove ==
    /\ Running /\ pc' \in {"batch", "tags", "manifests", "returned"}
    /\ call' = call
    /\ error' \in {error, "refresh", "permission", "other"}
    /\ pc' # "returned" => error' = error

LEMMA PurgeMoves == PurgeNext => PurgeMove
<1> SUFFICES ASSUME PurgeNext  PROVE PurgeMove
  OBVIOUS
<1>1. CASE NextBatch \/ RefreshFails \/ AllPurged
  BY <1>1 DEF NextBatch, RefreshFails, AllPurged, PurgeMove, Running
<1>2. CASE SkipTags \/ SkipManifests
  BY <1>2 DEF SkipTags, SkipManifests, RepoPurged, PurgeMove, Running
<1>3. ASSUME NEW n \in 0..MaxItems, PurgeTags(n) \/ PurgeManifests(n)
      PROVE  PurgeMove
  BY <1>3 DEF PurgeTags, PurgeManifests, RepoPurged, PurgeMove, Running
<1>4. Failure \subseteq {"permission", "other"}
  BY DEF Failure
<1>5. ASSUME NEW n \in 0..MaxItems, PurgeTagsFails(n) \/ PurgeManifestsFails(n)
      PROVE  PurgeMove
  <2>1. PICK err \in Failure : CallFails(err)
    BY <1>5 DEF PurgeTagsFails, PurgeManifestsFails
  <2>2. Running
    BY <1>5 DEF PurgeTagsFails, PurgeManifestsFails, Running
  <2>3. QED  BY <1>4, <2>1, <2>2 DEF CallFails, PurgeMove
<1>6. QED  BY <1>1, <1>2, <1>3, <1>5 DEF PurgeNext

LEMMA FlagsStep == FlagsInv /\ [PurgeCommandNext]_vars => FlagsInv'
<1> SUFFICES ASSUME FlagsInv, [PurgeCommandNext]_vars  PROVE FlagsInv'
  OBVIOUS
<1>1. ASSUME command' = command
      PROVE  (FlagsOK' <=> FlagsOK) /\ (AgoFails' <=> AgoFails) /\ Ago' = Ago
  BY <1>1 DEF FlagsOK, AgoFails, Ago, Filters
<1>2. CASE CheckFlags
  <2>1. command' = command /\ pc' = "catalog" /\ error' = error /\ agoDuration' = Ago
    BY <1>2 DEF CheckFlags, Goes
  <2>2. FlagsOK /\ ~AgoFails /\ error = "none"
    BY <1>2 DEF CheckFlags, FlagsInv
  <2>3. QED  BY <1>1, <2>1, <2>2 DEF FlagsInv
<1>3. CASE RefuseFlags \/ ListFails \/ BadFilter
  <2>1. command' = command /\ pc' = "returned" /\ error' \in {"flags", "catalog", "filters"}
    BY <1>3 DEF RefuseFlags, ListFails, BadFilter, Fails, commandVars
  <2>2. QED  BY <2>1 DEF FlagsInv
<1>4. CASE ListPage \/ ListEnds \/ CollectTagFilters \/ StartPurge
  <2>1. /\ command' = command /\ agoDuration' = agoDuration
        /\ pc \in {"catalog", "filters", "purge"}
        /\ pc' \in {"catalog", "filters", "purge", "batch"} /\ error' \in {error, "none"}
    BY <1>4 DEF ListPage, ListEnds, CollectTagFilters, StartPurge, Goes, Begins, purgeVars,
                commandVars
  <2>2. QED  BY <1>1, <2>1 DEF FlagsInv
<1>5. CASE PurgeNext /\ UNCHANGED commandVars
  <2>1. PurgeMove /\ command' = command /\ agoDuration' = agoDuration
    BY <1>5, PurgeMoves DEF commandVars
  <2>2. QED  BY <1>1, <2>1 DEF FlagsInv, PurgeMove, Running
<1>6. ASSUME NEW n \in Range(Names), Create(n) \/ Delete(n)
      PROVE  FlagsInv'
  <2>1. command' = command /\ agoDuration' = agoDuration /\ pc' = pc /\ error' = error
    BY <1>6 DEF Create, Delete, purgeVars
  <2>2. QED  BY <1>1, <2>1 DEF FlagsInv
<1>7. CASE UNCHANGED vars
  <2>1. command' = command /\ agoDuration' = agoDuration /\ pc' = pc /\ error' = error
    BY <1>7 DEF vars, purgeVars, commandVars
  <2>2. QED  BY <1>1, <2>1 DEF FlagsInv
<1>8. QED  BY <1>2, <1>3, <1>4, <1>5, <1>6, <1>7 DEF PurgeCommandNext, Command

\* A page has, of what is there behind lastName, all that is not behind its
\* last name; it is empty only when nothing is there.
LEMMA PageIsComplete ==
    ASSUME NEW from \in Nat
    PROVE  LET P == FirstOf(After(from))
           IN  /\ P \subseteq After(from) /\ After(from) \subseteq DOMAIN Names
               /\ P = {} => After(from) = {}
               /\ P # {} => \E last \in P :
                    /\ last = CHOOSE i \in P : \A j \in P : j <= i
                    /\ \A i \in After(from) : i <= last => i \in P
<1> DEFINE A == After(from)
           P == FirstOf(A)
<1>1. A \in SUBSET Int /\ IsFiniteSet(A) /\ A \subseteq DOMAIN Names
  BY NamesIsASequence, FS_Subset DEF After
<1>2. P = {i \in A : Cardinality(Below(A, i)) < PageSize}
  BY DEF FirstOf, Below
<1>3. PageSize \in Nat \ {0}
  BY PurgeCommandAssumption
<1> HIDE DEF A
<1>4. ASSUME P = {}  PROVE A = {}
  <2>1. SUFFICES ASSUME A # {}  PROVE FALSE
    OBVIOUS
  <2>2. Cardinality(A) \in Nat /\ Cardinality(A) # 0
    BY <1>1, <2>1, FS_CardinalityType, FS_EmptySet
  <2>3. 1 \in 1..Cardinality(A)
    BY <2>2
  <2>4. InOrder(A)[1] \in A /\ Cardinality(Below(A, InOrder(A)[1])) = 1 - 1
    BY <1>1, <2>3, InOrderEnumerates
  <2>5. InOrder(A)[1] \in P
    BY <1>2, <1>3, <2>4
  <2>6. QED  BY <1>4, <2>5
<1>5. ASSUME P # {}
      PROVE  \E last \in P : last = CHOOSE i \in P : \A j \in P : j <= i
  <2>1. P \in SUBSET Int /\ IsFiniteSet(P)
    BY <1>1, <1>2, FS_Subset
  <2> HIDE DEF P
  <2>2. /\ Cardinality(P) \in Nat /\ InOrder(P) \in [1..Cardinality(P) -> P]
        /\ \A i \in P : \E k \in 1..Cardinality(P) : InOrder(P)[k] = i
        /\ \A k \in 1..Cardinality(P) : Cardinality(Below(P, InOrder(P)[k])) = k - 1
    BY <2>1, InOrderEnumerates
  <2>3. Cardinality(P) # 0
    BY <1>5, <2>1, FS_EmptySet
  <2> DEFINE m == InOrder(P)[Cardinality(P)]
  <2>4. m \in P /\ Cardinality(Below(P, m)) = Cardinality(P) - 1
    BY <2>2, <2>3
  <2>5. ASSUME NEW j \in P  PROVE j <= m
    <3>0. j \in Int /\ m \in Int
      BY <2>1, <2>4
    <3>1. SUFFICES ASSUME m < j  PROVE FALSE
      BY <3>0
    <3>2. Cardinality(Below(P, m)) < Cardinality(Below(P, j))
      BY <2>1, <2>4, <3>1, BelowGrows
    <3>3. Cardinality(Below(P, j)) < Cardinality(P) /\ Cardinality(Below(P, j)) \in Nat
      BY <2>1, BelowGrows
    <3>4. QED  BY <2>2, <2>4, <3>2, <3>3
  <2>6. \E i \in P : \A j \in P : j <= i
    BY <2>4, <2>5
  <2>7. QED  BY <2>6
<1>6. ASSUME NEW last \in P, NEW i \in A, i <= last  PROVE i \in P
  <2>1. last \in A /\ Cardinality(Below(A, last)) < PageSize
    BY <1>2
  <2>2. CASE i = last
    BY <2>2
  <2>3. CASE i < last
    <3>1. /\ Cardinality(Below(A, i)) < Cardinality(Below(A, last))
          /\ Cardinality(Below(A, i)) \in Nat /\ Cardinality(Below(A, last)) \in Nat
      BY <1>1, <2>1, <2>3, BelowGrows
    <3>2. QED  BY <1>2, <1>3, <2>1, <3>1
  <2>4. QED  BY <1>1, <1>6, <2>1, <2>2, <2>3
<1>7. QED  BY <1>1, <1>2, <1>4, <1>5, <1>6 DEF A

LEMMA ListStep == ListInv /\ FlagsInv /\ [PurgeCommandNext]_vars => ListInv'
<1> SUFFICES ASSUME ListInv, FlagsInv, [PurgeCommandNext]_vars  PROVE ListInv'
  OBVIOUS
<1>1. CASE CheckFlags
  <2>1. /\ pc = "flags" /\ pc' = "catalog" /\ stayed' = repositories
        /\ UNCHANGED <<repositories, lastName, allRepoNames>>
    BY <1>1 DEF CheckFlags, Goes
  <2>2. lastName = 0
    BY <2>1 DEF ListInv
  <2>3. \A i \in DOMAIN Names : ~(i <= 0)
    BY NamesIsASequence
  <2>4. ~Listed'
    BY <2>1 DEF Listed, Chosen, Started, Running
  <2>5. QED  BY <2>1, <2>2, <2>3, <2>4 DEF ListInv
<1>2. CASE RefuseFlags
  <2>1. /\ pc = "flags" /\ pc' = "returned" /\ error' = "flags"
        /\ UNCHANGED <<repositories, lastName, allRepoNames, stayed>>
    BY <1>2 DEF RefuseFlags, Fails, commandVars
  <2>2. ~Listed'
    BY <2>1 DEF Listed, Chosen, Started, Running
  <2>3. QED  BY <2>1, <2>2 DEF ListInv
<1>3. CASE ListPage
  <2>1. /\ pc = "catalog" /\ pc' = "catalog" /\ Page # {}
        /\ allRepoNames' = allRepoNames \cup {Names[i] : i \in Page}
        /\ lastName' = CHOOSE i \in Page : \A j \in Page : j <= i
        /\ UNCHANGED <<repositories, stayed>>
    BY <1>3 DEF ListPage, purgeVars
  <2>2. lastName \in Nat
    BY DEF ListInv
  <2>3. /\ Page \subseteq After(lastName) /\ After(lastName) \subseteq DOMAIN Names
        /\ lastName' \in Page
        /\ \A i \in After(lastName) : i <= lastName' => i \in Page
    BY <2>1, <2>2, PageIsComplete DEF Page
  <2>4. lastName' \in Nat
    BY <2>3, NamesIsASequence
  <2>5. allRepoNames' \subseteq Range(Names)
    BY <2>1, <2>3, NamesIsASequence DEF ListInv
  <2>6. ASSUME NEW i \in DOMAIN Names, i <= lastName', Names[i] \in stayed
        PROVE  Names[i] \in allRepoNames'
    <3>1. CASE i <= lastName
      BY <2>1, <2>6, <3>1 DEF ListInv
    <3>2. CASE i > lastName
      <4>1. Names[i] \in repositories
        BY <2>1, <2>6 DEF ListInv
      <4>2. i \in Page
        BY <2>3, <2>6, <3>2, <4>1 DEF After
      <4>3. QED  BY <2>1, <4>2
    <3>3. i \in Nat
      BY NamesIsASequence
    <3>4. QED  BY <2>2, <3>1, <3>2, <3>3
  <2>7. ~Listed'
    BY <2>1 DEF Listed, Chosen, Started, Running
  <2>8. QED  BY <2>1, <2>4, <2>5, <2>6, <2>7 DEF ListInv
<1>4. CASE ListEnds
  <2>1. /\ pc = "catalog" /\ Page = {} /\ pc' = "filters"
        /\ UNCHANGED <<repositories, lastName, allRepoNames, stayed>>
    BY <1>4 DEF ListEnds, Goes, commandVars
  <2>2. After(lastName) = {}
    BY <2>1, PageIsComplete DEF Page, ListInv
  <2>3. ASSUME NEW n \in stayed  PROVE n \in allRepoNames
    <3>1. n \in repositories
      BY <2>1 DEF ListInv
    <3>2. PICK i \in DOMAIN Names : Names[i] = n
      BY <3>1, NamesIsASequence DEF ListInv
    <3>3. i \in Nat /\ lastName \in Nat /\ ~(i > lastName)
      BY <2>2, <3>1, <3>2, NamesIsASequence DEF After, ListInv
    <3>4. i <= lastName
      BY <3>3
    <3>5. QED  BY <2>1, <3>2, <3>4 DEF ListInv
  <2>4. QED  BY <2>1, <2>3 DEF ListInv
<1>5. CASE ListFails \/ BadFilter
  <2>1. /\ pc' = "returned" /\ UNCHANGED <<repositories, lastName, allRepoNames, stayed>>
        /\ \/ error' = "catalog"
           \/ pc = "filters" /\ error' = "filters"
    BY <1>5 DEF ListFails, BadFilter, Fails, commandVars
  <2>2. Listed' => Listed
    BY <2>1 DEF Listed, Chosen, Started, Running
  <2>3. QED  BY <2>1, <2>2 DEF ListInv
<1>6. CASE CollectTagFilters \/ StartPurge
  <2>1. /\ pc \in {"filters", "purge"} /\ pc' \in {"purge", "batch"}
        /\ UNCHANGED <<repositories, lastName, allRepoNames, stayed>>
    BY <1>6 DEF CollectTagFilters, StartPurge, Goes, Begins, commandVars
  <2>2. Listed
    BY <2>1 DEF Listed, Chosen
  <2>3. QED  BY <2>1, <2>2 DEF ListInv
<1>7. CASE PurgeNext /\ UNCHANGED commandVars
  <2>1. PurgeMove /\ UNCHANGED <<repositories, lastName, allRepoNames, stayed>>
    BY <1>7, PurgeMoves DEF commandVars
  <2>2. Listed
    BY <2>1 DEF PurgeMove, Listed, Chosen, Started
  <2>3. pc' \notin {"flags", "catalog"}
    BY <2>1 DEF PurgeMove
  <2>4. QED  BY <2>1, <2>2, <2>3 DEF ListInv
<1>8. ASSUME NEW n \in Range(Names), Create(n)
      PROVE  ListInv'
  <2>1. /\ repositories' = repositories \cup {n} /\ UNCHANGED <<pc, error>>
        /\ UNCHANGED <<lastName, allRepoNames, stayed>>
    BY <1>8 DEF Create, purgeVars
  <2>2. Listed' <=> Listed
    BY <2>1 DEF Listed, Chosen, Started, Running
  <2>3. QED  BY <2>1, <2>2 DEF ListInv
<1>9. ASSUME NEW n \in Range(Names), Delete(n)
      PROVE  ListInv'
  <2>1. /\ repositories' = repositories \ {n} /\ stayed' = stayed \ {n} /\ UNCHANGED <<pc, error>>
        /\ UNCHANGED <<lastName, allRepoNames>> /\ pc = "catalog"
    BY <1>9 DEF Delete, purgeVars
  <2>2. ~Listed'
    BY <2>1 DEF Listed, Chosen, Started, Running
  <2>3. QED  BY <2>1, <2>2 DEF ListInv
<1>10. CASE UNCHANGED vars
  <2>1. UNCHANGED <<pc, error, repositories, lastName, allRepoNames, stayed>>
    BY <1>10 DEF vars, purgeVars, commandVars
  <2>2. Listed' <=> Listed
    BY <2>1 DEF Listed, Chosen, Started, Running
  <2>3. QED  BY <2>1, <2>2 DEF ListInv
<1>11. QED
  BY <1>1, <1>2, <1>3, <1>4, <1>5, <1>6, <1>7, <1>8, <1>9, <1>10 DEF PurgeCommandNext, Command

LEMMA ChosenStep == ChosenInv /\ [PurgeCommandNext]_vars => ChosenInv'
<1> SUFFICES ASSUME ChosenInv, [PurgeCommandNext]_vars  PROVE ChosenInv'
  OBVIOUS
<1>1. ASSUME command' = command, allRepoNames' = allRepoNames
      PROVE  [n \in Selected |-> FiltersOf(n)]' = [n \in Selected |-> FiltersOf(n)]
  <2>1. (AllSelected' <=> AllSelected) /\ Filters' = Filters
    BY <1>1 DEF AllSelected, Filters
  <2>2. Selected' = Selected
    BY <1>1, <2>1 DEF Selected
  <2>3. \A n : Hits(n)' = Hits(n)
    BY <2>1 DEF Hits
  <2>4. \A n : FiltersOf(n)' = FiltersOf(n)
    BY <2>1, <2>3 DEF FiltersOf
  <2>5. QED  BY <2>2, <2>4
<1>2. CASE CheckFlags \/ RefuseFlags \/ ListPage \/ ListEnds \/ ListFails \/ BadFilter
  <2>1. \/ pc' \in {"catalog", "filters"}
        \/ pc' = "returned" /\ error' \in {"flags", "catalog", "filters"}
    BY <1>2 DEF CheckFlags, RefuseFlags, ListPage, ListEnds, ListFails, BadFilter, Fails, Goes,
                purgeVars
  <2>2. ~Chosen'
    BY <2>1 DEF Chosen, Started, Running
  <2>3. QED  BY <2>2 DEF ChosenInv
<1>3. CASE CollectTagFilters
  <2>1. command' = command /\ allRepoNames' = allRepoNames
        /\ tagFilters' = [n \in Selected |-> FiltersOf(n)]
    BY <1>3 DEF CollectTagFilters
  <2>2. QED  BY <1>1, <2>1 DEF ChosenInv
<1>4. CASE StartPurge \/ (PurgeNext /\ UNCHANGED commandVars)
  <2>1. Chosen
    BY <1>4, PurgeMoves DEF StartPurge, PurgeMove, Chosen, Started
  <2>2. UNCHANGED <<command, allRepoNames, tagFilters>>
    BY <1>4 DEF StartPurge, commandVars
  <2>3. QED  BY <1>1, <2>1, <2>2 DEF ChosenInv
<1>5. CASE (\E n \in Range(Names) : Create(n) \/ Delete(n)) \/ UNCHANGED vars
  <2>1. UNCHANGED <<pc, error, command, allRepoNames, tagFilters>>
    BY <1>5 DEF Create, Delete, vars, purgeVars, commandVars
  <2>2. Chosen' <=> Chosen
    BY <2>1 DEF Chosen, Started, Running
  <2>3. QED  BY <1>1, <2>1, <2>2 DEF ChosenInv
<1>6. QED  BY <1>2, <1>3, <1>4, <1>5 DEF PurgeCommandNext, Command

-----------------------------------------------------------------------------
(***************************************************************************)
(* The loop over the repositories.                                         *)
(***************************************************************************)

\* The items gone from the first d repositories.
ItemsUpTo(d, gone) == {i \in (1..d) \X (1..MaxItems) : i[2] <= gone[i[1]]}

LEMMA ItemsOfCompleted ==
    ASSUME completed = [k \in 1..Done |-> k], NEW gone
    PROVE  Items(gone) = ItemsUpTo(Done, gone)
<1>1. Completed = 1..Done
  BY DEF Completed, Done
<1>2. QED  BY <1>1 DEF Items, ItemsUpTo

\* One more repository adds the items gone from it.
LEMMA ItemsOfOneMore ==
    ASSUME NEW d \in Nat, NEW f, NEW g, NEW n \in 0..MaxItems,
           \A r \in 1..d : f[r] = g[r], g[d + 1] = n
    PROVE  Cardinality(ItemsUpTo(d + 1, g)) = Cardinality(ItemsUpTo(d, f)) + n
<1> DEFINE I == ItemsUpTo(d, f)
           A == {d + 1} \X (1..n)
<1>1. MaxItems \in Nat
  BY PurgeAssumption
<1>2. IsFiniteSet(I) /\ Cardinality(I) \in Nat
  <2>1. IsFiniteSet(1..d) /\ IsFiniteSet(1..MaxItems)
    BY <1>1, FS_Interval
  <2>2. IsFiniteSet((1..d) \X (1..MaxItems))
    BY <2>1, FS_Product
  <2>3. I \subseteq (1..d) \X (1..MaxItems)
    BY DEF ItemsUpTo
  <2>4. QED  BY <2>2, <2>3, FS_Subset, FS_CardinalityType
<1>3. IsFiniteSet(A) /\ Cardinality(A) = n
  <2>1. IsFiniteSet(1..n) /\ Cardinality(1..n) = n
    BY <1>1, FS_Interval
  <2>2. IsFiniteSet({d + 1}) /\ Cardinality({d + 1}) = 1
    BY FS_Singleton
  <2>3. /\ IsFiniteSet(A)
        /\ Cardinality(A) = Cardinality({d + 1}) * Cardinality(1..n)
    BY <2>1, <2>2, FS_Product, Zenon
  <2>4. Cardinality({d + 1}) * Cardinality(1..n) = 1 * n
    BY <2>1, <2>2, Zenon
  <2>5. 1 * n = n
    BY <1>1
  <2>6. QED  BY <2>3, <2>4, <2>5, Zenon
<1>4. ItemsUpTo(d + 1, g) = I \cup A
  <2>1. ASSUME NEW i \in ItemsUpTo(d + 1, g)  PROVE i \in I \cup A
    <3>1. i \in (1..(d + 1)) \X (1..MaxItems) /\ i[2] <= g[i[1]]
      BY <2>1 DEF ItemsUpTo
    <3>2. CASE i[1] = d + 1
      <4>1. i[2] \in 1..n /\ i = <<d + 1, i[2]>>
        BY <1>1, <3>1, <3>2
      <4>2. QED  BY <4>1
    <3>3. CASE i[1] # d + 1
      <4>1. i \in (1..d) \X (1..MaxItems)
        BY <3>1, <3>3
      <4>2. i[2] <= f[i[1]]
        BY <3>1, <4>1
      <4>3. QED  BY <4>1, <4>2 DEF ItemsUpTo
    <3>4. QED  BY <3>2, <3>3
  <2>2. ASSUME NEW i \in I  PROVE i \in ItemsUpTo(d + 1, g)
    <3>1. i \in (1..d) \X (1..MaxItems) /\ i[2] <= f[i[1]]
      BY <2>2 DEF ItemsUpTo
    <3>2. i \in (1..(d + 1)) \X (1..MaxItems) /\ i[2] <= g[i[1]]
      BY <3>1
    <3>3. QED  BY <3>2 DEF ItemsUpTo
  <2>3. ASSUME NEW i \in A  PROVE i \in ItemsUpTo(d + 1, g)
    <3>1. i[1] = d + 1 /\ i[2] \in 1..n /\ i = <<i[1], i[2]>>
      BY <2>3
    <3>2. i \in (1..(d + 1)) \X (1..MaxItems) /\ i[2] <= g[i[1]]
      BY <1>1, <3>1
    <3>3. QED  BY <3>2 DEF ItemsUpTo
  <2>4. QED  BY <2>1, <2>2, <2>3
<1>5. I \cap A = {}
  BY DEF ItemsUpTo
<1>6. QED
  <2> HIDE DEF I, A
  <2>1. Cardinality(I \cup A) = Cardinality(I) + Cardinality(A) - Cardinality({})
    BY <1>2, <1>3, <1>5, FS_Union
  <2>2. Cardinality(I \cup A) = Cardinality(I) + n
    <3>1. n \in Nat
      BY <1>1
    <3>2. QED  BY <1>2, <1>3, <2>1, <3>1, FS_EmptySet
  <2>3. Cardinality(ItemsUpTo(d + 1, g)) = Cardinality(I \cup A)
    BY <1>4
  <2>4. QED  BY <2>2, <2>3 DEF I

LEMMA CallStep == CallInv /\ FlagsInv /\ [PurgeCommandNext]_vars => CallInv'
<1> SUFFICES ASSUME CallInv, FlagsInv, [PurgeCommandNext]_vars  PROVE CallInv'
  OBVIOUS
<1>1. ASSUME tagFilters' = tagFilters  PROVE repos' = repos
  BY <1>1 DEF repos
<1>2. CASE CheckFlags \/ RefuseFlags \/ ListPage \/ ListEnds \/ ListFails \/ CollectTagFilters
           \/ BadFilter
  <2>1. call' = call /\ ~Running /\ pc # "returned"
    BY <1>2 DEF CheckFlags, RefuseFlags, ListPage, ListEnds, ListFails, CollectTagFilters,
                BadFilter, Fails, Goes, purgeVars, Running
  <2>2. \/ pc' \in {"catalog", "filters", "purge"}
        \/ pc' = "returned" /\ error' \in {"flags", "catalog", "filters"}
    BY <1>2 DEF CheckFlags, RefuseFlags, ListPage, ListEnds, ListFails, CollectTagFilters,
                BadFilter, Fails, Goes, purgeVars
  <2>3. ~Started /\ ~Started'
    BY <2>1, <2>2 DEF Started, Running
  <2>4. QED  BY <2>1, <2>3 DEF CallInv
<1>3. CASE StartPurge
  <2>1. /\ call' = [repos |-> Len(repos), catalog |-> {i \in DOMAIN repos : repos[i] = Sentinel},
                    abac |-> command.abac, untaggedOnly |-> command.untaggedOnly,
                    removeUntagged |-> command.untagged \/ command.untaggedOnly]
        /\ tagFilters' = tagFilters /\ pc' = "batch"
    BY <1>3 DEF StartPurge, Begins, commandVars
  <2>2. Len(repos) \in Nat /\ DOMAIN repos = 1..Len(repos)
    BY ReposAreSelected
  <2>3. /\ command.abac \in BOOLEAN /\ command.untaggedOnly \in BOOLEAN
        /\ (command.untagged \/ command.untaggedOnly) \in BOOLEAN
    BY PurgeCommandAssumption DEF FlagsInv
  <2>4. {i \in DOMAIN repos : repos[i] = Sentinel} \in SUBSET Nat
    BY <2>2
  <2>5. Started' /\ repos' = repos
    BY <2>1, <1>1 DEF Started, Running
  <2>6. QED  BY <2>1, <2>2, <2>3, <2>4, <2>5 DEF CallInv
<1>4. CASE PurgeNext /\ UNCHANGED commandVars
  <2>1. PurgeMove /\ tagFilters' = tagFilters
    BY <1>4, PurgeMoves DEF commandVars
  <2>2. Started /\ Started' /\ call' = call
    BY <2>1 DEF PurgeMove, Started, Running, FlagsInv
  <2>3. QED  BY <1>1, <2>1, <2>2 DEF CallInv
<1>5. CASE (\E n \in Range(Names) : Create(n) \/ Delete(n)) \/ UNCHANGED vars
  <2>1. UNCHANGED <<pc, error, call, tagFilters>>
    BY <1>5 DEF Create, Delete, vars, purgeVars, commandVars
  <2>2. Started' <=> Started
    BY <2>1 DEF Started, Running
  <2>3. QED  BY <1>1, <2>1, <2>2 DEF CallInv
<1>6. QED  BY <1>2, <1>3, <1>4, <1>5 DEF PurgeCommandNext, Command

\* Before the purge, and when it is over, its variables do not change.
LEMMA RunKept ==
    ASSUME RunInv, CallInv', UNCHANGED <<call, start, at, scope, goneVars, countVars, remaining>>,
           \/ pc' = pc /\ error' = error
           \/ ~Started /\ ~Started' /\ error' \in {"none", "flags", "catalog", "filters"}
              /\ error \notin {"permission", "other"}
              /\ ~(pc' = "returned" /\ error' = "none")
    PROVE  RunInv'
<1>1. /\ Done' = Done /\ BatchEnd' = BatchEnd /\ Repo' = Repo
      /\ UNCHANGED <<completed, start, at, scope, remaining, tagsGone, manifestsGone, single,
                     tagsCount, manifestsCount>>
      /\ \A g : Items(g)' = Items(g)
  BY DEF Done, BatchEnd, Repo, countVars, goneVars, Items, Completed
<1>2. PlaceInv'
  <2>1. CASE pc' = pc /\ error' = error
    <3>1. (Started' <=> Started) /\ (Running' <=> Running) /\ \A S : ScopeOf(S)' = ScopeOf(S)
      BY <2>1 DEF Started, Running, ScopeOf
    <3>2. QED  BY <1>1, <2>1, <3>1 DEF RunInv, PlaceInv
  <2>2. CASE ~(pc' = pc /\ error' = error)
    <3>1. /\ ~Started /\ ~Started' /\ ~Running'
          /\ error' \notin {"permission", "other"} /\ error \notin {"permission", "other"}
          /\ ~(pc' = "returned" /\ error' = "none")
      BY <2>2 DEF Started
    <3>2. pc' \notin {"batch", "tags", "manifests"}
      BY <3>1 DEF Running
    <3>3. QED  BY <1>1, <3>1, <3>2 DEF RunInv, PlaceInv
  <2>3. QED  BY <2>1, <2>2
<1>3. GoneInv'
  <2>1. CASE pc' = pc /\ error' = error
    BY <1>1, <2>1 DEF RunInv, GoneInv
  <2>2. CASE ~(pc' = pc /\ error' = error)
    <3>1. ~Started /\ ~Started'
      BY <2>2
    <3>2. pc' \notin {"batch", "tags", "manifests"}
      BY <3>1 DEF Started, Running
    <3>3. QED  BY <1>1, <3>2 DEF RunInv, GoneInv
  <2>3. QED  BY <2>1, <2>2
<1>4. CountInv'
  BY <1>1 DEF RunInv, CountInv
<1>5. QED  BY <1>2, <1>3, <1>4 DEF RunInv

\* A call that returns, with RepoPurged(n).
LEMMA RepoPurgedStep ==
    ASSUME RunInv, CallInv', pc = "manifests", error = "none", NEW n \in 0..MaxItems,
           RepoPurged(n), manifestsGone' = [manifestsGone EXCEPT ![at] = n]
    PROVE  RunInv'
<1>1. /\ call.repos \in Nat /\ start \in Nat /\ start < call.repos
      /\ at \in start + 1 .. BatchEnd /\ Done = at - 1 /\ Done \in Nat
      /\ completed = [k \in 1..Done |-> k] /\ remaining = << >>
      /\ tagsGone \in [Repo -> 0..MaxItems] /\ manifestsGone \in [Repo -> 0..MaxItems]
      /\ BatchSize \in Nat \ {0} /\ MaxItems \in Nat
  BY PurgeAssumption DEF RunInv, CallInv, PlaceInv, GoneInv
<1>2. at \in Nat /\ at \in Repo
  BY <1>1 DEF BatchEnd, Repo
<1>3. tagsGone[at] = single /\ manifestsGone[at] = 0 /\ single \in 0..MaxItems
  BY <1>1, <1>2 DEF RunInv, GoneInv
<1>4. /\ UNCHANGED <<call, scope, tagsGone, single, remaining, error>>
      /\ completed' = Append(completed, at)
      /\ tagsCount' = tagsCount + single /\ manifestsCount' = manifestsCount + n
  BY DEF RepoPurged
<1>5. Repo' = Repo
  BY <1>4 DEF Repo
<1>6. completed' = [k \in 1..at |-> k] /\ Done' = at
  <2>1. completed \in Seq(Nat) /\ Len(completed) = Done
    <3>1. completed \in [1..Done -> Nat]
      BY <1>1
    <3>2. QED  BY <1>1, <3>1, FunctionIsSequence
  <2>2. /\ completed' \in Seq(Nat) /\ Len(completed') = at
        /\ \A k \in 1..at : completed'[k] = k
    BY <1>1, <1>2, <1>4, <2>1, AppendProperties
  <2>3. completed' \in [1..at -> Nat]
    BY <2>2, LenProperties
  <2>4. QED  BY <2>2, <2>3 DEF Done
<1>7. pc' \in {"batch", "tags"}
  BY DEF RepoPurged
<1>8. Running /\ Running' /\ Started'
  BY <1>7 DEF Running, Started
<1>9. Done' \in Nat /\ Done' <= call.repos /\ (~call.abac => scope = Repo)
  BY <1>2, <1>6, <1>8 DEF Repo, RunInv, PlaceInv
<1>10. PlaceInv'
  <2>1. CASE at < BatchEnd
    <3>1. at' = at + 1 /\ pc' = "tags" /\ start' = start
      BY <2>1 DEF RepoPurged
    <3>2. BatchEnd' = BatchEnd /\ \A S : ScopeOf(S)' = ScopeOf(S)
      BY <1>4, <3>1 DEF BatchEnd, ScopeOf
    <3>3. at' \in start + 1 .. BatchEnd /\ at' \in Nat /\ Done' = at' - 1
      BY <1>1, <1>2, <1>6, <2>1, <3>1 DEF BatchEnd
    <3>4. call.abac => scope = ScopeOf(start + 1 .. BatchEnd)
      BY DEF RunInv, PlaceInv
    <3>5. PlaceInv'
      BY <1>1, <1>4, <1>5, <1>6, <1>8, <1>9, <3>1, <3>2, <3>3, <3>4 DEF PlaceInv
    <3>6. QED  BY <3>5
  <2>2. CASE ~(at < BatchEnd)
    <3>1. at' = at /\ pc' = "batch" /\ start' = start + BatchSize
      BY <2>2 DEF RepoPurged
    <3>2. at = BatchEnd
      BY <1>1, <1>2, <2>2 DEF BatchEnd
    <3>3. start' \in Nat /\ Done' = IF start' < call.repos THEN start' ELSE call.repos
      BY <1>1, <1>6, <3>1, <3>2 DEF BatchEnd
    <3>4. PlaceInv'
      BY <1>1, <1>2, <1>4, <1>5, <1>6, <1>8, <1>9, <3>1, <3>3 DEF PlaceInv
    <3>5. QED  BY <3>4
  <2>3. QED  BY <2>1, <2>2
<1>11. GoneInv'
  <2>1. \A r \in Repo : r > Done' => tagsGone[r] = 0 /\ manifestsGone'[r] = 0
    BY <1>1, <1>2, <1>6 DEF RunInv, GoneInv, Repo
  <2>2. manifestsGone' \in [Repo -> 0..MaxItems]
    BY <1>1, <1>2
  <2>3. \A r \in Repo : (r > Done' + 1 \/ r = Done' + 1) => r > Done'
    BY <1>2, <1>6 DEF Repo
  <2>4. QED  BY <1>1, <1>3, <1>4, <1>5, <1>7, <2>1, <2>2, <2>3 DEF GoneInv
<1>12. CountInv'
  <2>1. Done + 1 = at /\ Done' = Done + 1
    BY <1>1, <1>2, <1>6
  <2>2. \A r \in 1..Done : tagsGone'[r] = tagsGone[r] /\ manifestsGone'[r] = manifestsGone[r]
    BY <1>1, <1>2, <1>4 DEF Repo
  <2>3. tagsGone'[Done + 1] = single /\ manifestsGone'[Done + 1] = n
    BY <1>1, <1>2, <1>3, <1>4, <2>1
  <2>4. Cardinality(ItemsUpTo(Done + 1, tagsGone'))
          = Cardinality(ItemsUpTo(Done, tagsGone)) + single
    BY <1>1, <1>3, <2>2, <2>3, ItemsOfOneMore
  <2>5. Cardinality(ItemsUpTo(Done + 1, manifestsGone'))
          = Cardinality(ItemsUpTo(Done, manifestsGone)) + n
    <3> DEFINE f == manifestsGone
               g == manifestsGone'
               d == Done
    <3>1. d \in Nat /\ g[d + 1] = n /\ \A r \in 1..d : f[r] = g[r]
      BY <1>1, <2>2, <2>3
    <3>2. Cardinality(ItemsUpTo(d + 1, g)) = Cardinality(ItemsUpTo(d, f)) + n
      <4> HIDE DEF f, g, d
      <4>1. QED  BY <3>1, ItemsOfOneMore
    <3>3. QED  BY <3>2
  <2>6. Items(tagsGone) = ItemsUpTo(Done, tagsGone)
        /\ Items(manifestsGone) = ItemsUpTo(Done, manifestsGone)
    BY <1>1, ItemsOfCompleted
  <2>7. Completed' = 1..Done'
    BY <1>1, <1>2, <1>6 DEF Completed, Done
  <2>8. Items(tagsGone)' = ItemsUpTo(Done + 1, tagsGone')
        /\ Items(manifestsGone)' = ItemsUpTo(Done + 1, manifestsGone')
    BY <2>1, <2>7 DEF Items, ItemsUpTo
  <2>9. QED  BY <1>4, <2>4, <2>5, <2>6, <2>8 DEF RunInv, CountInv
<1>13. QED  BY <1>10, <1>11, <1>12 DEF RunInv

\* The other calls that return: PurgeTags(n), and SkipTags, with n = 0.
LEMMA TagsPurgedStep ==
    ASSUME RunInv, CallInv', pc = "tags", pc' = "manifests", error = "none",
           NEW n \in 0..MaxItems, tagsGone' = [tagsGone EXCEPT ![at] = n], single' = n,
           UNCHANGED <<call, start, at, scope, manifestsGone, tagsCount, manifestsCount,
                       completed, remaining, error>>
    PROVE  RunInv'
<1>1. /\ call.repos \in Nat /\ start \in Nat /\ start < call.repos
      /\ at \in start + 1 .. BatchEnd /\ Done = at - 1 /\ Done \in Nat
      /\ completed = [k \in 1..Done |-> k] /\ remaining = << >>
      /\ tagsGone \in [Repo -> 0..MaxItems] /\ manifestsGone \in [Repo -> 0..MaxItems]
      /\ BatchSize \in Nat \ {0} /\ MaxItems \in Nat
  BY PurgeAssumption DEF RunInv, CallInv, PlaceInv, GoneInv
<1>2. at \in Nat /\ at \in Repo
  BY <1>1 DEF BatchEnd, Repo
<1>3. Done' = Done /\ Repo' = Repo /\ BatchEnd' = BatchEnd /\ \A S : ScopeOf(S)' = ScopeOf(S)
  BY DEF Done, Repo, BatchEnd, ScopeOf
<1>4. Running /\ Running' /\ Started'
  BY DEF Running, Started
<1>5. PlaceInv'
  BY <1>1, <1>3, <1>4 DEF RunInv, PlaceInv
<1>6. GoneInv'
  <2>1. tagsGone' \in [Repo -> 0..MaxItems] /\ n \in Nat
    BY <1>1, <1>2
  <2>2. \A r \in Repo : r > Done + 1 => tagsGone'[r] = 0 /\ manifestsGone[r] = 0
    BY <1>1, <1>2 DEF RunInv, GoneInv
  <2>3. tagsGone'[at] = n /\ manifestsGone[at] = 0
    BY <1>1, <1>2 DEF RunInv, GoneInv
  <2>4. QED  BY <1>1, <1>3, <2>1, <2>2, <2>3 DEF GoneInv
<1>7. CountInv'
  <2>1. Items(tagsGone)' = Items(tagsGone)
    <3>1. Items(tagsGone) = ItemsUpTo(Done, tagsGone)
      BY <1>1, ItemsOfCompleted
    <3>2. Completed' = 1..Done
      BY <1>1 DEF Completed, Done
    <3>3. Items(tagsGone)' = ItemsUpTo(Done, tagsGone')
      BY <3>2 DEF Items, ItemsUpTo
    <3>4. \A r \in 1..Done : tagsGone'[r] = tagsGone[r]
      BY <1>1, <1>2 DEF Repo
    <3>5. ItemsUpTo(Done, tagsGone') = ItemsUpTo(Done, tagsGone)
      BY <3>4 DEF ItemsUpTo
    <3>6. QED  BY <3>1, <3>3, <3>5
  <2>2. Items(manifestsGone)' = Items(manifestsGone)
    BY DEF Items, Completed
  <2>3. QED  BY <2>1, <2>2 DEF RunInv, CountInv
<1>8. QED  BY <1>5, <1>6, <1>7 DEF RunInv

\* A call that fails, having deleted n.
LEMMA CallFailsStep ==
    ASSUME RunInv, CallInv', pc \in {"tags", "manifests"}, error = "none",
           NEW err \in {"permission", "other"}, CallFails(err), NEW n \in 0..MaxItems,
           \/ tagsGone' = [tagsGone EXCEPT ![at] = n] /\ UNCHANGED manifestsGone
           \/ manifestsGone' = [manifestsGone EXCEPT ![at] = n] /\ UNCHANGED tagsGone
    PROVE  RunInv'
<1>1. /\ call.repos \in Nat /\ start \in Nat /\ start < call.repos
      /\ at \in start + 1 .. BatchEnd /\ Done = at - 1 /\ Done \in Nat
      /\ completed = [k \in 1..Done |-> k] /\ Done <= call.repos
      /\ tagsGone \in [Repo -> 0..MaxItems] /\ manifestsGone \in [Repo -> 0..MaxItems]
      /\ BatchSize \in Nat \ {0} /\ MaxItems \in Nat
  BY PurgeAssumption DEF RunInv, CallInv, PlaceInv, GoneInv
<1>2. at \in Nat /\ at \in Repo
  BY <1>1 DEF BatchEnd, Repo
<1>3. /\ pc' = "returned" /\ error' = err
      /\ remaining' = IF err = "permission" THEN [k \in 1..(call.repos - at) |-> at + k]
                      ELSE << >>
      /\ UNCHANGED <<call, start, at, scope, single, tagsCount, manifestsCount, completed>>
  BY DEF CallFails, countVars
<1>4. Done' = Done /\ Repo' = Repo /\ BatchEnd' = BatchEnd /\ \A S : ScopeOf(S)' = ScopeOf(S)
  BY <1>3 DEF Done, Repo, BatchEnd, ScopeOf
<1>5. ~Running' /\ Started'
  BY <1>3 DEF Running, Started
<1>6. PlaceInv'
  <2>1. start' \in Nat /\ at' \in Nat
    BY <1>1, <1>2, <1>3
  <2>2. QED  BY <1>1, <1>2, <1>3, <1>4, <1>5, <2>1 DEF PlaceInv
<1>7. GoneInv'
  <2>1. tagsGone' \in [Repo -> 0..MaxItems] /\ manifestsGone' \in [Repo -> 0..MaxItems]
    BY <1>1, <1>2
  <2>2. \A r \in Repo : r > Done + 1 => tagsGone'[r] = 0 /\ manifestsGone'[r] = 0
    BY <1>1, <1>2 DEF RunInv, GoneInv
  <2>3. single \in Nat
    BY DEF RunInv, GoneInv
  <2>4. QED  BY <1>3, <1>4, <2>1, <2>2, <2>3 DEF GoneInv
<1>8. CountInv'
  <2>1. Completed' = 1..Done
    BY <1>1, <1>3 DEF Completed, Done
  <2>2. \A r \in 1..Done : tagsGone'[r] = tagsGone[r] /\ manifestsGone'[r] = manifestsGone[r]
    BY <1>1, <1>2 DEF Repo
  <2>3. /\ Items(tagsGone)' = ItemsUpTo(Done, tagsGone')
        /\ Items(manifestsGone)' = ItemsUpTo(Done, manifestsGone')
    BY <2>1 DEF Items, ItemsUpTo
  <2>4. /\ ItemsUpTo(Done, tagsGone') = ItemsUpTo(Done, tagsGone)
        /\ ItemsUpTo(Done, manifestsGone') = ItemsUpTo(Done, manifestsGone)
    BY <2>2 DEF ItemsUpTo
  <2>5. /\ Items(tagsGone) = ItemsUpTo(Done, tagsGone)
        /\ Items(manifestsGone) = ItemsUpTo(Done, manifestsGone)
    BY <1>1, ItemsOfCompleted
  <2>6. QED  BY <1>3, <2>3, <2>4, <2>5 DEF RunInv, CountInv
<1>9. QED  BY <1>6, <1>7, <1>8 DEF RunInv

LEMMA EmptySequence == << >> = [k \in 1..0 |-> k] /\ Len(<< >>) = 0 /\ 1..0 = {}
  OBVIOUS

LEMMA RunStep == RunInv /\ FlagsInv /\ [PurgeCommandNext]_vars => RunInv'
<1> SUFFICES ASSUME RunInv, FlagsInv, [PurgeCommandNext]_vars  PROVE RunInv'
  OBVIOUS
<1>1. CallInv'
  BY CallStep DEF RunInv
<1>2. 0 \in 0..MaxItems /\ MaxItems \in Nat
  BY PurgeAssumption
<1>3. CASE CheckFlags \/ RefuseFlags \/ ListPage \/ ListEnds \/ ListFails \/ CollectTagFilters
           \/ BadFilter
  <2>1. /\ UNCHANGED <<call, start, at, scope, goneVars, countVars, remaining>>
        /\ ~Running /\ pc # "returned"
    BY <1>3 DEF CheckFlags, RefuseFlags, ListPage, ListEnds, ListFails, CollectTagFilters,
                BadFilter, Fails, Goes, purgeVars, Running
  <2>2. \/ pc' \in {"catalog", "filters", "purge"} /\ error' = error
        \/ pc' = "returned" /\ error' \in {"flags", "catalog", "filters"}
    BY <1>3 DEF CheckFlags, RefuseFlags, ListPage, ListEnds, ListFails, CollectTagFilters,
                BadFilter, Fails, Goes, purgeVars
  <2>3. error = "none"
    BY <2>1 DEF FlagsInv
  <2>4. ~Started /\ ~Started'
    BY <2>1, <2>2 DEF Started, Running
  <2>5. QED  BY <1>1, <2>1, <2>2, <2>3, <2>4, RunKept
<1>4. CASE StartPurge
  <2> DEFINE n == Len(repos)
  <2>1. /\ call'.repos = n /\ call'.abac = command.abac
        /\ pc' = "batch" /\ start' = 0 /\ at' = 0
        /\ scope' = IF command.abac THEN {} ELSE 1..n
        /\ tagsGone' = [r \in 1..n |-> 0] /\ manifestsGone' = [r \in 1..n |-> 0]
        /\ single' = 0 /\ tagsCount' = 0 /\ manifestsCount' = 0
        /\ completed' = << >> /\ remaining' = << >> /\ error' = "none"
    BY <1>4 DEF StartPurge, Begins
  <2>2. n \in Nat
    BY ReposAreSelected
  <2>3. Repo' = 1..n
    BY <2>1 DEF Repo
  <2>4. Done' = 0 /\ Completed' = {} /\ completed' = [k \in 1..0 |-> k]
    BY <2>1, EmptySequence DEF Done, Completed
  <2>5. Running' /\ Started'
    BY <2>1 DEF Running, Started
  <2>6. PlaceInv'
    BY <2>1, <2>2, <2>3, <2>4, <2>5 DEF PlaceInv
  <2>7. GoneInv'
    BY <1>2, <2>1, <2>2, <2>3, <2>4 DEF GoneInv
  <2>8. CountInv'
    <3>1. Items(tagsGone)' = {} /\ Items(manifestsGone)' = {}
      BY <2>4 DEF Items
    <3>2. QED  BY <2>1, <3>1, FS_EmptySet DEF CountInv
  <2>9. QED  BY <1>1, <2>6, <2>7, <2>8 DEF RunInv
<1>5. CASE PurgeNext
  <2>1. Running /\ Started /\ error = "none"
    BY <1>5, PurgeMoves DEF PurgeMove, Running, Started, FlagsInv
  <2>2. /\ call.repos \in Nat /\ start \in Nat /\ at \in Nat /\ remaining = << >>
        /\ completed = [k \in 1..Done |-> k] /\ Done \in Nat /\ Done <= call.repos
        /\ pc = "batch" => Done = IF start < call.repos THEN start ELSE call.repos
        /\ ~call.abac => scope = Repo
        /\ BatchSize \in Nat \ {0}
    BY <2>1, PurgeAssumption DEF RunInv, CallInv, PlaceInv
  <2>3. CASE NextBatch
    <3>1. /\ pc = "batch" /\ start < call.repos /\ at' = start + 1 /\ pc' = "tags"
          /\ scope' = IF call.abac THEN ScopeOf(start + 1 .. BatchEnd) ELSE scope
          /\ UNCHANGED <<call, start, tagsGone, manifestsGone, single, tagsCount,
                         manifestsCount, completed, remaining, error>>
      BY <2>3 DEF NextBatch, goneVars, countVars
    <3>2. Done' = Done /\ Repo' = Repo /\ BatchEnd' = BatchEnd /\ \A S : ScopeOf(S)' = ScopeOf(S)
      BY <3>1 DEF Done, Repo, BatchEnd, ScopeOf
    <3>3. at' \in start + 1 .. BatchEnd /\ at' \in Nat /\ Done = at' - 1
      BY <2>2, <3>1 DEF BatchEnd
    <3>4. Running' /\ Started'
      BY <3>1 DEF Running, Started
    <3>5. PlaceInv'
      BY <2>1, <2>2, <3>1, <3>2, <3>3, <3>4 DEF PlaceInv
    <3>6. GoneInv'
      BY <3>1, <3>2 DEF RunInv, GoneInv
    <3>7. CountInv'
      BY <3>1 DEF RunInv, CountInv, Items, Completed
    <3>8. QED  BY <1>1, <3>5, <3>6, <3>7 DEF RunInv
  <2>4. CASE RefreshFails \/ AllPurged
    <3>1. /\ pc = "batch" /\ pc' = "returned"
          /\ \/ error' = "refresh"
             \/ error' = "none" /\ start >= call.repos
          /\ UNCHANGED <<call, start, at, scope, tagsGone, manifestsGone, single, tagsCount,
                         manifestsCount, completed, remaining>>
      BY <2>1, <2>4 DEF RefreshFails, AllPurged, goneVars, countVars
    <3>2. Done' = Done /\ Repo' = Repo
      BY <3>1 DEF Done, Repo
    <3>3. error' = "none" => Done = call.repos
      BY <2>2, <3>1
    <3>4. ~Running' /\ Started'
      BY <3>1 DEF Running, Started
    <3>5. PlaceInv'
      BY <2>1, <2>2, <3>1, <3>2, <3>3, <3>4 DEF PlaceInv
    <3>6. GoneInv'
      BY <3>1, <3>2 DEF RunInv, GoneInv
    <3>7. CountInv'
      BY <3>1 DEF RunInv, CountInv, Items, Completed
    <3>8. QED  BY <1>1, <3>5, <3>6, <3>7 DEF RunInv
  <2>5. CASE SkipTags
    <3>1. pc = "tags" /\ pc' = "manifests" /\ single' = 0
          /\ UNCHANGED <<call, start, at, scope, tagsGone, manifestsGone, tagsCount,
                         manifestsCount, completed, remaining, error>>
      BY <2>5 DEF SkipTags, goneVars
    <3>2. at \in Repo /\ tagsGone[at] = 0 /\ tagsGone \in [Repo -> 0..MaxItems]
      <4>1. at \in start + 1 .. BatchEnd /\ Done = at - 1
        BY <3>1 DEF RunInv, PlaceInv
      <4>2. at \in Repo /\ at = Done + 1
        BY <2>2, <4>1 DEF BatchEnd, Repo
      <4>3. QED  BY <3>1, <4>2 DEF RunInv, GoneInv
    <3>3. tagsGone' = [tagsGone EXCEPT ![at] = 0]
      BY <3>1, <3>2
    <3>4. QED  BY <1>1, <1>2, <2>1, <3>1, <3>3, TagsPurgedStep
  <2>6. CASE SkipManifests
    <3>1. pc = "manifests" /\ RepoPurged(0) /\ manifestsGone' = manifestsGone
      BY <2>6 DEF SkipManifests
    <3>2. manifestsGone' = [manifestsGone EXCEPT ![at] = 0]
      <4>1. at \in start + 1 .. BatchEnd
        BY <3>1 DEF RunInv, PlaceInv
      <4>2. at \in Repo
        BY <2>2, <4>1 DEF BatchEnd, Repo
      <4>3. manifestsGone[at] = 0 /\ manifestsGone \in [Repo -> 0..MaxItems]
        BY <3>1, <4>2 DEF RunInv, GoneInv
      <4>4. QED  BY <3>1, <4>2, <4>3
    <3>3. QED  BY <1>1, <1>2, <2>1, <3>1, <3>2, RepoPurgedStep
  <2>7. ASSUME NEW n \in 0..MaxItems, PurgeTags(n)
        PROVE  RunInv'
    BY <1>1, <2>1, <2>7, TagsPurgedStep DEF PurgeTags
  <2>8. ASSUME NEW n \in 0..MaxItems, PurgeManifests(n)
        PROVE  RunInv'
    BY <1>1, <2>1, <2>8, RepoPurgedStep DEF PurgeManifests
  <2>9. Failure \subseteq {"permission", "other"}
    BY DEF Failure
  <2>10. ASSUME NEW n \in 0..MaxItems, PurgeTagsFails(n) \/ PurgeManifestsFails(n)
         PROVE  RunInv'
    <3>1. PICK err \in Failure : CallFails(err)
      BY <2>10 DEF PurgeTagsFails, PurgeManifestsFails
    <3>2. err \in {"permission", "other"}
      BY <2>9
    <3>3. /\ pc \in {"tags", "manifests"}
          /\ \/ tagsGone' = [tagsGone EXCEPT ![at] = n] /\ UNCHANGED manifestsGone
             \/ manifestsGone' = [manifestsGone EXCEPT ![at] = n] /\ UNCHANGED tagsGone
      BY <2>10 DEF PurgeTagsFails, PurgeManifestsFails
    <3>4. QED  BY <1>1, <2>1, <3>1, <3>2, <3>3, CallFailsStep
  <2>11. QED
    BY <1>5, <2>3, <2>4, <2>5, <2>6, <2>7, <2>8, <2>10 DEF PurgeNext
<1>6. CASE (\E n \in Range(Names) : Create(n) \/ Delete(n)) \/ UNCHANGED vars
  <2>1. UNCHANGED <<call, start, at, scope, goneVars, countVars, remaining>>
        /\ pc' = pc /\ error' = error
    BY <1>6 DEF Create, Delete, vars, purgeVars
  <2>2. QED  BY <1>1, <2>1, RunKept
<1>7. QED  BY <1>3, <1>4, <1>5, <1>6 DEF PurgeCommandNext, Command

-----------------------------------------------------------------------------
(***************************************************************************)
(* The theorems.                                                           *)
(***************************************************************************)

LEMMA PurgeInit == PurgeCommandInit => PurgeInv
<1> SUFFICES ASSUME PurgeCommandInit  PROVE PurgeInv
  OBVIOUS
<1>1. /\ command \in Commands /\ repositories = command.repositories
      /\ lastName = 0 /\ allRepoNames = {} /\ stayed = {}
      /\ call = [repos |-> 0, catalog |-> {}, abac |-> command.abac, untaggedOnly |-> FALSE,
                 removeUntagged |-> FALSE]
      /\ pc = "flags" /\ start = 0 /\ at = 0 /\ tagsGone = << >> /\ manifestsGone = << >>
      /\ single = 0 /\ tagsCount = 0 /\ manifestsCount = 0
      /\ completed = << >> /\ remaining = << >> /\ error = "none"
  BY DEF PurgeCommandInit
<1>2. ~Started /\ ~Chosen /\ ~Listed /\ ~Running
  BY <1>1 DEF Started, Chosen, Listed, Running
<1>3. command.abac \in BOOLEAN /\ command.repositories \subseteq Range(Names)
  BY <1>1, PurgeCommandAssumption
<1>4. FlagsInv
  BY <1>1 DEF FlagsInv
<1>5. ListInv
  BY <1>1, <1>2, <1>3 DEF ListInv
<1>6. ChosenInv
  BY <1>2 DEF ChosenInv
<1>7. CallInv
  BY <1>1, <1>2, <1>3 DEF CallInv
<1>8. Repo = 1..0 /\ Done = 0 /\ Completed = {} /\ completed = [k \in 1..0 |-> k]
  BY <1>1, EmptySequence DEF Repo, Done, Completed
<1>9. PlaceInv
  BY <1>1, <1>2, <1>8 DEF PlaceInv
<1>10. GoneInv
  <2>1. << >> \in [1..0 -> 0..MaxItems]
    BY EmptySequence
  <2>2. QED  BY <1>1, <1>8, <2>1, EmptySequence DEF GoneInv
<1>11. CountInv
  <2>1. Items(tagsGone) = {} /\ Items(manifestsGone) = {}
    BY <1>8 DEF Items
  <2>2. QED  BY <1>1, <2>1, FS_EmptySet DEF CountInv
<1>12. QED  BY <1>4, <1>5, <1>6, <1>7, <1>9, <1>10, <1>11 DEF PurgeInv, RunInv

\* The command is always where its invariants say: what is listed, selected,
\* completed, gone and counted so far, whatever others do and whatever fails.
THEOREM PurgeCommandCorrect == PurgeCommandSpec => []PurgeInv
<1>1. PurgeCommandInit => PurgeInv
  BY PurgeInit
<1>2. PurgeInv /\ [PurgeCommandNext]_vars => PurgeInv'
  BY FlagsStep, ListStep, ChosenStep, RunStep DEF PurgeInv
<1>3. QED  BY <1>1, <1>2, PTL DEF PurgeCommandSpec

\* --ago becomes the duration it asks for, with its caps, for the values in
\* InRange: not for one that is negative, does not fit the format or whose
\* sum overflows (parseDuration).  An absent one is the duration 0.
THEOREM PurgeReadsAsIntended == PurgeCommandSpec => []ReadAsIntended
<1>1. PurgeInv => ReadAsIntended
  BY InvReadAsIntended DEF PurgeInv
<1>2. QED  BY <1>1, PurgeCommandCorrect, PTL

\* A command that reports no error has purged all that its filters select of
\* what was there throughout, with the expressions of these filters in their
\* order, in any number of pages and batches (GetAllRepositoryNames,
\* CollectTagFilters, purge).
THEOREM PurgeSuccessIsComplete == PurgeCommandSpec => []SuccessIsComplete
<1>1. QED  BY InvSuccessIsComplete, PurgeCommandCorrect, PTL

\* Nothing is deleted in a repository no filter names (GetMatchingRepos).
THEOREM PurgeTouchesOnlySelected == PurgeCommandSpec => []OnlySelectedAreTouched
<1>1. QED  BY InvOnlySelectedAreTouched, PurgeCommandCorrect, PTL

\* The token of a batch is good for each repository of the batch, for every
\* size of a batch, but for one named "catalog" (buildAbacScope).
THEOREM PurgeTokenCoversRepo == PurgeCommandSpec => []TokenCoversRepo
<1>1. PurgeInv => TokenCoversRepo
  BY InvTokenCoversRepo DEF PurgeInv
<1>2. QED  BY <1>1, PurgeCommandCorrect, PTL

\* A permission error accounts for each repository once (formatPermissionError).
THEOREM PurgeReportIsComplete == PurgeCommandSpec => []ReportIsComplete
<1>1. PurgeInv => ReportIsComplete
  BY InvReportIsComplete DEF PurgeInv
<1>2. QED  BY <1>1, PurgeCommandCorrect, PTL

\* The counts are the items gone from the completed repositories.
THEOREM PurgeCountsCoverCompleted == PurgeCommandSpec => []CountsCoverCompleted
<1>1. PurgeInv => CountsCoverCompleted
  BY InvCountsCoverCompleted DEF PurgeInv
<1>2. QED  BY <1>1, PurgeCommandCorrect, PTL
=============================================================================
