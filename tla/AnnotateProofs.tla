--------------------------- MODULE AnnotateProofs ---------------------------
(***************************************************************************)
(* The safety properties of an annotate run, for every set of tags and     *)
(* manifests, every size of a page, every filter and every order in which  *)
(* the tasks of worker.Annotator are done.                                 *)
(***************************************************************************)
EXTENDS Annotate, FiniteSetTheorems, SequenceTheorems, TLAPS

-----------------------------------------------------------------------------
(***************************************************************************)
(* The invariants.                                                         *)
(***************************************************************************)

Positions == 1..Len(call.order)

\* All that was given to the annotator, and not yet cancelled.
Given == attached \cup batch

\* The run is past its tags.
ForManifests == pc = "returned" \/ (pc = "batch" /\ next = "returned")

\* A task for a tag has a position the run has passed, and the digest of the
\* tag, which may be annotated; a task for a manifest is given after the tags,
\* and not for one that has a tag or is an annotation.
SoundTask(a) ==
    /\ a \in [position : Nat, digest : Digest]
    /\ a.position <= cursor
    /\ a.position > 0 => /\ a.digest = call.of[call.order[a.position]]
                         /\ a.position \in Names(a.digest)
    /\ a.position = 0 => /\ ForManifests
                         /\ HasTag(Positions, a.digest) = {}
                         /\ a.digest # Attachment

TaskInv ==
    /\ call \in Calls
    /\ pc \in {"tags", "untagged", "batch", "returned"}
    /\ next \in {"tags", "untagged", "returned"}
    /\ cursor \in Nat /\ cursor <= Len(call.order)
    /\ pc # "batch" => batch = {}
    /\ call.dryRun => pc # "batch"
    /\ pc = "batch" /\ next = "returned" => \A a \in batch : a.position = 0
    /\ attached \cap batch = {} /\ IsFiniteSet(attached) /\ IsFiniteSet(batch)
    /\ \A a \in Given : SoundTask(a)

\* The next page starts where one of the pages does.
PageInv == cursor < Len(call.order) => \E k \in 0..cursor : cursor = k * PageSize

\* A manifest is given for the tags of one page, and not when it was annotated
\* by an earlier run.
OncePerPage(d) ==
    /\ d \in call.before => \A a \in Given : a.position > 0 => a.digest # d
    /\ \E P \in Pages : \A a \in Given :
          a.position > 0 /\ a.digest = d => a.position \in P \cap Names(d)

OnceInv == call.lifecycle => \A d \in Digest : OncePerPage(d)

\* What has been counted, with what the batch has.
TagsCounted == tagsCount + (IF pc = "batch" /\ next # "returned" THEN hit ELSE 0)
ManifestsCounted == manifestsCount + (IF pc = "batch" /\ next = "returned" THEN hit ELSE 0)

TaskFor(i) == [position |-> i, digest |-> call.of[call.order[i]]]

\* The tags that are annotated and have no task left.
DoneTags == {i \in AnnotatedTags : i <= cursor /\ TaskFor(i) \notin batch}

\* A counted tag is done; no two annotations are counted as one.
CountInv ==
    /\ tagsCount \in Int /\ manifestsCount \in Int /\ hit \in Nat /\ size \in Nat
    /\ erred \in BOOLEAN /\ failed \in BOOLEAN /\ (failed => pc = "returned")
    /\ pc = "batch" /\ ~erred => size = hit + Cardinality(batch)
    /\ ~call.dryRun =>
        /\ TagsCounted <= Cardinality(DoneTags)
        /\ ManifestsCounted <= Cardinality(AnnotatedManifests)
        /\ ~failed /\ (pc = "batch" => ~erred) =>
              Cardinality(attached) <= TagsCounted + ManifestsCounted

AnnotateInv == TaskInv /\ PageInv /\ OnceInv /\ CountInv

-----------------------------------------------------------------------------
(***************************************************************************)
(* Calls, pages and tasks.                                                 *)
(***************************************************************************)

LEMMA CallTypes ==
    ASSUME call \in Calls
    PROVE  /\ Len(call.order) \in Nat /\ call.order \in [Positions -> Tag]
           /\ call.of \in [Tag -> Digest] /\ call.listing \in Seq(Digest)
           /\ call.dryRun \in BOOLEAN /\ call.lifecycle \in BOOLEAN
           /\ call.kind[Attachment] = "image" /\ \A t \in Tag : call.of[t] # Attachment
           /\ PageSize \in Nat \ {0}
           /\ Positions \subseteq Nat /\ IsFiniteSet(Positions)
           /\ \A i \in Positions : call.of[call.order[i]] \in Digest
<1>1. /\ call.order \in Seq(Tag) /\ call.of \in [Tag -> Digest] /\ call.listing \in Seq(Digest)
      /\ call.dryRun \in BOOLEAN /\ call.lifecycle \in BOOLEAN
      /\ call.kind[Attachment] = "image" /\ \A t \in Tag : call.of[t] # Attachment
      /\ PageSize \in Nat \ {0}
  BY AnnotateAssumption DEF Call
<1>2. Len(call.order) \in Nat /\ call.order \in [Positions -> Tag]
  BY <1>1, LenProperties DEF Positions
<1>3. Positions \subseteq Nat /\ IsFiniteSet(Positions)
  BY <1>2, FS_Interval, SMTT(30) DEF Positions
<1>4. QED  BY <1>1, <1>2, <1>3

\* A page ends PageSize behind the cursor, or with the listing.
LEMMA PageIs ==
    ASSUME TaskInv, Page # {}
    PROVE  /\ Max(Page) \in Page /\ Page \subseteq cursor + 1 .. Max(Page)
           /\ Page \subseteq Positions /\ cursor < Max(Page) /\ Max(Page) <= Len(call.order)
           /\ Max(Page) < Len(call.order) => Max(Page) = cursor + PageSize
<1> DEFINE L == Len(call.order)
           m == IF cursor + PageSize <= L THEN cursor + PageSize ELSE L
<1>1. L \in Nat /\ cursor \in Nat /\ PageSize \in Nat \ {0} /\ cursor < L
  BY CallTypes DEF TaskInv, Page
<1> HIDE DEF L
<1>2. Page = {i \in cursor + 1 .. L : i <= cursor + PageSize}
  BY DEF Page, L
<1>3. m \in Page /\ \A i \in Page : i \in Int /\ i <= m
  BY <1>1, <1>2
<1> HIDE DEF m
<1>4. \E x \in Page : \A y \in Page : x >= y
  BY <1>3
<1>5. Max(Page) \in Page /\ \A y \in Page : Max(Page) >= y
  BY <1>4 DEF Max
<1>6. Max(Page) = m
  BY <1>3, <1>5
<1>7. Page \subseteq cursor + 1 .. m /\ cursor < m /\ m <= L
  BY <1>1, <1>2, <1>3
<1>8. Page \subseteq 1 .. L
  BY <1>1, <1>2
<1>9. m < L => m = cursor + PageSize
  BY <1>1 DEF m
<1>10. QED  BY <1>3, <1>6, <1>7, <1>8, <1>9 DEF L, Positions

\* It is one of Pages, and so is the next.
LEMMA PageIsAPage ==
    ASSUME TaskInv, PageInv, Page # {}
    PROVE  /\ Page \in Pages
           /\ Max(Page) < Len(call.order) => \E k \in 0..Max(Page) : Max(Page) = k * PageSize
<1>1. /\ Len(call.order) \in Nat /\ cursor \in Nat /\ PageSize \in Nat \ {0}
      /\ cursor < Len(call.order)
  BY CallTypes DEF TaskInv, Page
<1>2. PICK k \in 0..cursor : cursor = k * PageSize
  BY <1>1 DEF PageInv
<1>3. k \in 0..Len(call.order)
  BY <1>1
<1>4. Page = {i \in 1..Len(call.order) : cursor < i /\ i <= cursor + PageSize}
  <2>1. \A i : i \in cursor + 1 .. Len(call.order) <=> i \in 1..Len(call.order) /\ cursor < i
    BY <1>1
  <2>2. QED  BY <2>1 DEF Page
<1>5. Page \in Pages
  <2>1. cursor \in {j * PageSize : j \in 0..Len(call.order)}
    BY <1>2, <1>3
  <2>2. QED  BY <1>4, <2>1 DEF Pages
<1>6. ASSUME Max(Page) < Len(call.order)
      PROVE  \E j \in 0..Max(Page) : Max(Page) = j * PageSize
  <2>1. Max(Page) = cursor + PageSize
    BY <1>6, PageIs
  <2>2. k + 1 \in 0..Max(Page)
    BY <1>1, <2>1
  <2>3. (k + 1) * PageSize = k * PageSize + PageSize
    BY <1>1, k \in Nat
  <2>4. QED  BY <1>2, <2>1, <2>2, <2>3
<1>7. QED  BY <1>5, <1>6

\* As many tasks as positions.
LEMMA TasksAtCount ==
    ASSUME call \in Calls, NEW S \in SUBSET Positions
    PROVE  /\ IsFiniteSet(S) /\ IsFiniteSet(TasksAt(S))
           /\ Cardinality(TasksAt(S)) = Cardinality(S) /\ Cardinality(S) \in Nat
<1>1. IsFiniteSet(S) /\ Cardinality(S) \in Nat
  BY CallTypes, FS_Subset, FS_CardinalityType
<1> DEFINE f == [i \in S |-> [position |-> i, digest |-> call.of[call.order[i]]]]
<1>2. f \in [S -> TasksAt(S)]
  BY DEF TasksAt
<1>3. ASSUME NEW i \in S, NEW j \in S, f[i] = f[j]  PROVE i = j
  <2>1. f[i].position = i /\ f[j].position = j
    OBVIOUS
  <2>2. QED  BY <1>3, <2>1
<1>4. \A a \in TasksAt(S) : \E i \in S : f[i] = a
  BY DEF TasksAt
<1> HIDE DEF f
<1>5. f \in Bijection(S, TasksAt(S))
  BY <1>2, <1>3, <1>4 DEF Bijection, Injection, Surjection, IsInjective
<1>6. QED  BY <1>1, <1>5, FS_Bijection DEF ExistsBijection

\* What the scan selects are listed manifests without tags, and none of them
\* is an annotation.
LEMMA SelectedAreNew ==
    ASSUME TaskInv, NEW digests, digests = M!Selected(Scanned)
    PROVE  /\ digests \subseteq Digest /\ IsFiniteSet(digests)
           /\ Attachment \notin digests
           /\ \A d \in digests : HasTag(Positions, d) = {}
<1>1. /\ call.listing \in Seq(Digest) /\ Attachment \in Digest /\ call.kind[Attachment] = "image"
  BY CallTypes, AnnotateAssumption DEF TaskInv
<1>2. Scanned.listing \in Seq(Digest)
  BY <1>1, AppendProperties DEF Scanned
<1> DEFINE l == Scanned.listing
           I == 1..Len(l)
           f == [i \in I |-> l[i]]
<1> HIDE DEF l
<1>3. l \in [I -> Digest] /\ Len(l) \in Nat
  BY <1>2, LenProperties DEF l
<1>4. IsFiniteSet(I)
  BY <1>3, FS_Interval
<1>5. M!Listed(Scanned) = {l[i] : i \in I}
  BY DEF M!Listed, l
<1>6. f \in Surjection(I, M!Listed(Scanned))
  BY <1>5 DEF Surjection
<1> HIDE DEF f, I
<1>7. IsFiniteSet(M!Listed(Scanned))
  BY <1>4, <1>6, FS_Surjection
<1>8. M!Listed(Scanned) \subseteq Digest
  BY <1>3, <1>5
<1>9. digests \subseteq M!Eligible(Scanned) /\ M!Eligible(Scanned) \subseteq M!Listed(Scanned)
  BY DEF M!Selected, M!Eligible
<1>10. ASSUME NEW d \in digests  PROVE HasTag(Positions, d) = {} /\ d # Attachment
  <2>1. d \in M!Eligible(Scanned) /\ d \in Digest
    BY <1>8, <1>9
  <2>2. Scanned.kind = call.kind /\ Scanned.preserveAll /\ Scanned.planned[d] = 0
        /\ Scanned.tags[d] = Cardinality(HasTag(Positions, d))
    BY <2>1 DEF Scanned, Positions
  <2>3. call.kind[d] # "image"
    BY <2>1, <2>2 DEF M!Eligible
  <2>4. ~(Cardinality(HasTag(Positions, d)) > 0)
    BY <2>1, <2>2 DEF M!Eligible, M!Protected, M!ProtectedByTags
  <2>5. IsFiniteSet(HasTag(Positions, d)) /\ Cardinality(HasTag(Positions, d)) \in Nat
    BY CallTypes, FS_Subset, FS_CardinalityType DEF TaskInv, HasTag
  <2>6. QED  BY <1>1, <2>3, <2>4, <2>5, FS_EmptySet
<1>11. QED  BY <1>7, <1>8, <1>9, <1>10, FS_Subset

\* The annotator is given a task for each of them.
LEMMA TasksForFinite ==
    ASSUME NEW D, IsFiniteSet(D)
    PROVE  IsFiniteSet({[position |-> 0, digest |-> d] : d \in D})
<1> DEFINE T == {[position |-> 0, digest |-> d] : d \in D}
           f == [d \in D |-> [position |-> 0, digest |-> d]]
<1>1. f \in Surjection(D, T)
  BY DEF Surjection
<1> HIDE DEF f
<1>2. QED  BY <1>1, FS_Surjection

-----------------------------------------------------------------------------
(***************************************************************************)
(* The invariants hold at first, and what steps have in common.            *)
(***************************************************************************)

\* What is done are tags of the listing and manifests that annotations are of.
LEMMA DoneFinite ==
    ASSUME TaskInv
    PROVE  /\ IsFiniteSet(DoneTags) /\ Cardinality(DoneTags) \in Nat
           /\ IsFiniteSet(AnnotatedTags) /\ Cardinality(DoneTags) <= Cardinality(AnnotatedTags)
           /\ IsFiniteSet(AnnotatedManifests) /\ Cardinality(AnnotatedManifests) \in Nat
<1>1. DoneTags \subseteq AnnotatedTags /\ AnnotatedTags \subseteq Positions
  BY DEF DoneTags, AnnotatedTags, Positions
<1>2. IsFiniteSet(AnnotatedTags) /\ IsFiniteSet(DoneTags)
      /\ Cardinality(DoneTags) <= Cardinality(AnnotatedTags)
  BY <1>1, CallTypes, FS_Subset DEF TaskInv
<1> DEFINE D == {a.digest : a \in attached}
           f == [a \in attached |-> a.digest]
<1>3. f \in Surjection(attached, D)
  BY DEF Surjection
<1>4. AnnotatedManifests \subseteq D
  BY DEF AnnotatedManifests, AttachedTo
<1> HIDE DEF D, f
<1>5. IsFiniteSet(AnnotatedManifests)
  BY <1>3, <1>4, FS_Surjection, FS_Subset DEF TaskInv
<1>6. QED  BY <1>2, <1>5, FS_CardinalityType

LEMMA OneMore ==
    ASSUME NEW S, NEW S1, NEW x, IsFiniteSet(S), IsFiniteSet(S1), x \notin S,
           S \cup {x} \subseteq S1
    PROVE  Cardinality(S) + 1 <= Cardinality(S1)
<1>1. IsFiniteSet(S \cup {x}) /\ Cardinality(S \cup {x}) = Cardinality(S) + 1
  BY FS_AddElement
<1>2. Cardinality(S \cup {x}) <= Cardinality(S1)
  BY FS_Subset
<1>3. QED  BY <1>1, <1>2

LEMMA SameDone ==
    ASSUME UNCHANGED <<call, cursor, attached, batch>>
    PROVE  DoneTags' = DoneTags /\ AnnotatedManifests' = AnnotatedManifests
<1>1. \A d : /\ AttachedTo(d)' = AttachedTo(d) /\ Names(d)' = Names(d)
             /\ HasTag(1..Len(call.order), d)' = HasTag(1..Len(call.order), d)
  BY DEF AttachedTo, Names, HasTag, LockedOut
<1>2. AnnotatedTags' = AnnotatedTags
  BY <1>1 DEF AnnotatedTags
<1>3. QED  BY <1>1, <1>2 DEF DoneTags, AnnotatedManifests, TaskFor

LEMMA InitInv == AnnotateInit => AnnotateInv
<1> SUFFICES ASSUME AnnotateInit  PROVE AnnotateInv
  OBVIOUS
<1> USE DEF AnnotateInit
<1>1. Given = {} /\ call \in Calls
  BY DEF Given
<1>2. TaskInv
  BY <1>1, CallTypes, FS_EmptySet DEF TaskInv
<1>3. PageInv
  <2>1. 0 = 0 * PageSize /\ 0 \in 0..0
    BY AnnotateAssumption
  <2>2. QED  BY <2>1 DEF PageInv
<1>4. OnceInv
  <2>1. \E P \in Pages : TRUE
    <3>1. 0 * PageSize \in {k * PageSize : k \in 0..Len(call.order)}
      BY CallTypes, <1>1
    <3>2. QED  BY <3>1 DEF Pages
  <2>2. QED  BY <1>1, <2>1 DEF OnceInv, OncePerPage
<1>5. CountInv
  <2>1. TagsCounted = 0 /\ ManifestsCounted = 0
    BY DEF TagsCounted, ManifestsCounted
  <2>2. Cardinality(attached) = 0 /\ Cardinality(batch) = 0 /\ pc # "batch"
    BY FS_EmptySet
  <2>3. /\ tagsCount \in Int /\ manifestsCount \in Int /\ hit \in Nat /\ size \in Nat
    OBVIOUS
  <2>4. erred \in BOOLEAN /\ failed \in BOOLEAN /\ ~failed
    OBVIOUS
  <2> HIDE DEF AnnotateInit
  <2>5. /\ Cardinality(DoneTags) \in Nat /\ Cardinality(AnnotatedManifests) \in Nat
    BY <1>2, DoneFinite
  <2>6. QED  BY <2>1, <2>2, <2>3, <2>4, <2>5 DEF CountInv
<1>6. QED  BY <1>2, <1>3, <1>4, <1>5 DEF AnnotateInv

\* What is done grows with the annotations, the cursor and the settled tasks.
LEMMA DoneStays ==
    ASSUME TaskInv, call' = call, attached \subseteq attached', cursor \in Nat,
           cursor' \in Nat, cursor <= cursor',
           \A a \in batch' \ batch : a.position > cursor
    PROVE  /\ DoneTags \subseteq DoneTags' /\ DoneTags' \subseteq Positions
           /\ IsFiniteSet(DoneTags') /\ Cardinality(DoneTags') \in Nat
           /\ Cardinality(DoneTags) <= Cardinality(DoneTags')
<1>1. \A d : AttachedTo(d) \subseteq AttachedTo(d)' /\ Names(d)' = Names(d)
  BY DEF AttachedTo, Names, HasTag, LockedOut
<1>2. AnnotatedTags \subseteq AnnotatedTags' /\ AnnotatedTags' \subseteq Positions
  BY <1>1 DEF AnnotatedTags, Positions
<1>3. DoneTags \subseteq DoneTags'
  <2>1. ASSUME NEW i \in DoneTags  PROVE i \in DoneTags'
    <3>1. i \in AnnotatedTags' /\ i \in Nat /\ i <= cursor /\ TaskFor(i) \notin batch
      BY <1>2, CallTypes DEF DoneTags, AnnotatedTags, TaskInv, Positions
    <3>2. TaskFor(i)' = TaskFor(i) /\ TaskFor(i).position = i
      BY DEF TaskFor
    <3>3. TaskFor(i) \notin batch'
      BY <3>1, <3>2
    <3>4. QED  BY <3>1, <3>2, <3>3 DEF DoneTags
  <2>2. QED  BY <2>1
<1>4. DoneTags' \subseteq Positions
  BY <1>2 DEF DoneTags
<1>5. IsFiniteSet(DoneTags') /\ Cardinality(DoneTags') \in Nat
  BY <1>4, CallTypes, FS_Subset, FS_CardinalityType DEF TaskInv
<1>6. QED  BY <1>3, <1>4, <1>5, FS_Subset

\* A task stays what it is while the run goes on.
LEMMA SoundStays ==
    ASSUME NEW a, SoundTask(a), call' = call, cursor \in Nat, cursor' \in Nat, cursor <= cursor',
           a.position = 0 => ForManifests'
    PROVE  SoundTask(a)'
<1>1. /\ HasTag(Positions, a.digest)' = HasTag(Positions, a.digest)
      /\ Names(a.digest)' = Names(a.digest)
  BY DEF HasTag, Positions, Names, LockedOut
<1>2. a.position \in Nat /\ a.position <= cursor'
  BY DEF SoundTask
<1>3. QED  BY <1>1, <1>2 DEF SoundTask

\* No tag is given to the annotator.
LEMMA OnceStays ==
    ASSUME OnceInv, call' = call, \A a \in Given' : a.position > 0 => a \in Given
    PROVE  OnceInv'
<1> SUFFICES ASSUME call.lifecycle, NEW d \in Digest  PROVE OncePerPage(d)'
  BY DEF OnceInv
<1>1. Pages' = Pages /\ Names(d)' = Names(d)
  BY DEF Pages, Names, HasTag, LockedOut
<1>2. OncePerPage(d)
  BY DEF OnceInv
<1>3. QED  BY <1>1, <1>2 DEF OncePerPage

\* The run goes on with no batch, and nothing is counted.
LEMMA NothingDone ==
    ASSUME AnnotateInv, pc \in {"tags", "untagged"}, pc' \in {"untagged", "returned"},
           UNCHANGED <<call, cursor, attached, batchVars>>,
           \/ failed' = failed /\ UNCHANGED countVars
           \/ /\ failed' = TRUE /\ pc' = "returned"
              /\ tagsCount' \in {tagsCount, -1} /\ manifestsCount' \in {manifestsCount, -1}
    PROVE  AnnotateInv'
<1> USE DEF batchVars, countVars
<1>1. Given' = Given /\ batch = {} /\ cursor \in Nat
  BY DEF Given, AnnotateInv, TaskInv
<1>2. ASSUME NEW a \in Given  PROVE SoundTask(a)'
  <2>1. SoundTask(a) /\ cursor <= cursor' /\ cursor' \in Nat
    BY <1>1 DEF AnnotateInv, TaskInv
  <2>2. a.position = 0 => ForManifests'
    BY <2>1 DEF SoundTask, ForManifests
  <2>3. QED  BY <1>1, <2>1, <2>2, SoundStays
<1>3. TaskInv'
  BY <1>1, <1>2 DEF AnnotateInv, TaskInv
<1>4. PageInv' /\ OnceInv'
  BY <1>1, OnceStays DEF AnnotateInv, PageInv
<1>5. /\ DoneTags' = DoneTags /\ AnnotatedManifests' = AnnotatedManifests
      /\ Cardinality(DoneTags) \in Nat /\ Cardinality(AnnotatedManifests) \in Nat
  BY SameDone, DoneFinite DEF AnnotateInv
<1>6. CountInv'
  <2>1. ~failed /\ pc # "batch" /\ pc' # "batch" /\ failed' \in BOOLEAN
    BY DEF AnnotateInv, CountInv
  <2>2. failed' => pc' = "returned"
    BY <2>1
  <2>3. /\ tagsCount \in Int /\ manifestsCount \in Int
        /\ TagsCounted = tagsCount /\ ManifestsCounted = manifestsCount
        /\ TagsCounted' = tagsCount' /\ ManifestsCounted' = manifestsCount'
    BY <2>1 DEF TagsCounted, ManifestsCounted, AnnotateInv, CountInv
  <2>4. /\ tagsCount' \in Int /\ manifestsCount' \in Int
        /\ tagsCount' = tagsCount \/ tagsCount' = -1
        /\ manifestsCount' = manifestsCount \/ manifestsCount' = -1
    BY <2>3
  <2>5. ~failed' => tagsCount' = tagsCount /\ manifestsCount' = manifestsCount
    OBVIOUS
  <2>6. ASSUME ~call.dryRun
        PROVE  /\ tagsCount' <= Cardinality(DoneTags)
               /\ manifestsCount' <= Cardinality(AnnotatedManifests)
               /\ ~failed' => Cardinality(attached) <= tagsCount' + manifestsCount'
    <3>1. /\ tagsCount <= Cardinality(DoneTags)
          /\ manifestsCount <= Cardinality(AnnotatedManifests)
          /\ Cardinality(attached) <= tagsCount + manifestsCount
      BY <2>1, <2>3, <2>6 DEF AnnotateInv, CountInv
    <3>2. tagsCount' <= Cardinality(DoneTags)
      BY <1>5, <2>3, <2>4, <3>1
    <3>3. manifestsCount' <= Cardinality(AnnotatedManifests)
      BY <1>5, <2>3, <2>4, <3>1
    <3>4. QED  BY <2>5, <3>1, <3>2, <3>3
  <2>7. hit' \in Nat /\ size' \in Nat /\ erred' \in BOOLEAN
    BY DEF AnnotateInv, CountInv
  <2>8. QED  BY <1>5, <2>1, <2>2, <2>3, <2>4, <2>6, <2>7 DEF CountInv
<1>7. QED  BY <1>3, <1>4, <1>6 DEF AnnotateInv

LEMMA UnchangedInv == AnnotateInv /\ UNCHANGED vars => AnnotateInv'
<1> SUFFICES ASSUME AnnotateInv, UNCHANGED vars  PROVE AnnotateInv'
  OBVIOUS
<1> USE DEF vars, batchVars, countVars
<1>1. Given' = Given /\ cursor \in Nat
  BY DEF Given, AnnotateInv, TaskInv
<1>2. ASSUME NEW a \in Given  PROVE SoundTask(a)'
  <2>1. SoundTask(a) /\ cursor <= cursor' /\ cursor' \in Nat
    BY <1>1 DEF AnnotateInv, TaskInv
  <2>2. a.position = 0 => ForManifests'
    BY <2>1 DEF SoundTask, ForManifests
  <2>3. QED  BY <1>1, <2>1, <2>2, SoundStays
<1>3. TaskInv'
  BY <1>1, <1>2 DEF AnnotateInv, TaskInv
<1>4. PageInv' /\ OnceInv'
  BY <1>1, OnceStays DEF AnnotateInv, PageInv
<1>5. CountInv'
  <2>1. DoneTags' = DoneTags /\ AnnotatedManifests' = AnnotatedManifests
    BY SameDone
  <2>2. TagsCounted' = TagsCounted /\ ManifestsCounted' = ManifestsCounted
    BY DEF TagsCounted, ManifestsCounted
  <2>3. QED  BY <2>1, <2>2 DEF AnnotateInv, CountInv
<1>6. QED  BY <1>3, <1>4, <1>5 DEF AnnotateInv

-----------------------------------------------------------------------------
(***************************************************************************)
(* A page of tags.                                                         *)
(***************************************************************************)

\* What a page gives the annotator: a task for each tag, behind the pages
\* before, for a digest that has no annotation.
LEMMA NewTasks ==
    ASSUME TaskInv, Page # {}, NEW a \in TasksAt(ToAnnotate)
    PROVE  /\ a \in [position : Nat, digest : Digest]
           /\ a.position \in Page /\ a.position > cursor /\ a.position <= Max(Page)
           /\ a.digest = call.of[call.order[a.position]]
           /\ a.position \in Names(a.digest) /\ ~Discovered(a.digest)
<1>1. PICK i \in ToAnnotate : a = [position |-> i, digest |-> call.of[call.order[i]]]
  BY DEF TasksAt
<1>2. i \in Page /\ i \in Positions /\ i \in Nat /\ i > cursor /\ i <= Max(Page)
  <2>1. i \in Page /\ i \in Positions /\ i \in cursor + 1 .. Max(Page)
    BY PageIs DEF ToAnnotate
  <2>2. cursor \in Nat /\ i \in Nat /\ Max(Page) \in Nat
    BY <2>1, PageIs, CallTypes DEF TaskInv
  <2>3. QED  BY <2>1, <2>2
<1>3. call.of[call.order[i]] \in Digest
  BY <1>2, CallTypes DEF TaskInv
<1>4. /\ call.order[i] \in call.matching /\ ~LockedOut(call.order[i])
      /\ ~Discovered(call.of[call.order[i]])
  BY <1>1 DEF ToAnnotate
<1>5. i \in Names(call.of[call.order[i]])
  BY <1>2, <1>4 DEF Names, HasTag, Positions
<1>6. QED  BY <1>1, <1>2, <1>3, <1>4, <1>5

\* The cursor moves behind a page: what was given stays sound.
LEMMA PageKeepsTasks ==
    ASSUME AnnotateInv, ListPage, NEW a \in attached
    PROVE  SoundTask(a)'
<1>1. call' = call /\ cursor' = Max(Page) /\ Page # {} /\ pc = "tags"
  BY DEF ListPage
<1>2. SoundTask(a) /\ cursor \in Nat
  BY DEF AnnotateInv, TaskInv, Given
<1>3. cursor < Max(Page) /\ Max(Page) \in Nat
  BY <1>1, PageIs, CallTypes DEF AnnotateInv, TaskInv
<1>4. a.position # 0
  BY <1>1, <1>2 DEF SoundTask, ForManifests
<1>5. QED  BY <1>1, <1>2, <1>3, <1>4, SoundStays

\* An iteration of annotateTags that gives its page to the annotator.
LEMMA SubmitsPage ==
    ASSUME AnnotateInv, ListPage, ~call.dryRun, ToAnnotate # {}
    PROVE  AnnotateInv'
<1> DEFINE T == TasksAt(ToAnnotate)
<1>1. /\ call' = call /\ attached' = attached /\ manifestsCount' = manifestsCount
      /\ tagsCount' = tagsCount /\ failed' = failed
      /\ cursor' = Max(Page) /\ Page # {} /\ pc = "tags" /\ pc' = "batch"
      /\ batch' = T /\ size' = Cardinality(T) /\ hit' = 0 /\ erred' = FALSE
      /\ next' = AfterPage
  BY DEF ListPage, Submit
<1>2. TaskInv /\ PageInv /\ OnceInv /\ CountInv
  BY DEF AnnotateInv
<1>3. ToAnnotate \in SUBSET Positions
  BY <1>1, <1>2, PageIs DEF ToAnnotate
<1>4. IsFiniteSet(T) /\ Cardinality(T) \in Nat
  BY <1>2, <1>3, TasksAtCount DEF TaskInv
<1>5. /\ Max(Page) \in Nat /\ cursor < Max(Page) /\ Max(Page) <= Len(call.order)
      /\ cursor \in Nat
  BY <1>1, <1>2, PageIs, CallTypes DEF TaskInv
<1>6. batch = {} /\ Given = attached /\ Given' = attached \cup T
  BY <1>1, <1>2 DEF TaskInv, Given
<1> HIDE DEF T
<1>7. \A a \in attached : SoundTask(a) /\ a.position <= cursor
  BY <1>2, <1>6 DEF TaskInv, SoundTask
<1>8. \A a \in T : a.position > cursor /\ a.position \in Nat
  BY <1>1, <1>2, NewTasks DEF T
<1>9. attached \cap T = {}
  <2>1. ASSUME NEW a \in attached, a \in T  PROVE FALSE
    BY <1>5, <1>7, <1>8, <2>1
  <2>2. QED  BY <2>1
<1>10. ASSUME NEW a \in T  PROVE SoundTask(a)'
  <2>1. /\ a \in [position : Nat, digest : Digest] /\ a.position <= Max(Page)
        /\ a.digest = call.of[call.order[a.position]]
    BY <1>1, <1>2, NewTasks DEF T
  <2>2. a.position # 0
    BY <1>5, <1>8
  <2>3. a.position \in Names(a.digest) /\ Names(a.digest)' = Names(a.digest)
    BY <1>1, <1>2, NewTasks DEF T, Names, HasTag, LockedOut
  <2>4. QED  BY <1>1, <2>1, <2>2, <2>3 DEF SoundTask
<1>11. TaskInv'
  <2>1. \A a \in Given' : SoundTask(a)'
    BY <1>6, <1>10, PageKeepsTasks
  <2>2. AfterPage \in {"tags", "untagged"} /\ AfterPage # "returned"
    BY DEF AfterPage
  <2>3. QED  BY <1>1, <1>2, <1>4, <1>5, <1>9, <2>1, <2>2 DEF TaskInv
<1>12. PageInv'
  BY <1>1, <1>2, PageIsAPage DEF PageInv
<1>13. OnceInv'
  <2> SUFFICES ASSUME call.lifecycle, NEW d \in Digest  PROVE OncePerPage(d)'
    BY <1>1 DEF OnceInv
  <2>1. Pages' = Pages /\ Names(d)' = Names(d)
    BY <1>1 DEF Pages, Names, HasTag, LockedOut
  <2>2. OncePerPage(d)
    BY <1>2 DEF OnceInv
  <2>3. ASSUME NEW a \in T, a.digest = d
        PROVE  a.position \in Page \cap Names(d) /\ d \notin call.before /\ AttachedTo(d) = {}
    BY <1>1, <1>2, <2>3, NewTasks DEF T, Discovered
  <2>4. CASE \E a \in T : a.digest = d
    <3>1. d \notin call.before /\ \A a \in attached : a.digest # d
      BY <2>3, <2>4 DEF AttachedTo
    <3>2. \A a \in Given' : a.position > 0 /\ a.digest = d => a.position \in Page \cap Names(d)
      BY <1>6, <2>3, <3>1
    <3>3. Page \in Pages
      BY <1>1, <1>2, PageIsAPage
    <3>4. QED  BY <1>1, <2>1, <3>1, <3>2, <3>3 DEF OncePerPage
  <2>5. CASE \A a \in T : a.digest # d
    <3>1. \A a \in Given' : a.digest = d => a \in Given
      BY <1>6, <2>5
    <3>2. QED  BY <1>1, <2>1, <2>2, <3>1 DEF OncePerPage
  <2>6. QED  BY <2>4, <2>5
<1>14. CountInv'
  <2>1. /\ TagsCounted = tagsCount /\ TagsCounted' = tagsCount
        /\ ManifestsCounted = manifestsCount /\ ManifestsCounted' = manifestsCount
    <3>1. tagsCount \in Int /\ manifestsCount \in Int
      BY <1>2 DEF CountInv
    <3>2. QED  BY <1>1, <3>1 DEF TagsCounted, ManifestsCounted
  <2>2. /\ Cardinality(DoneTags) <= Cardinality(DoneTags') /\ Cardinality(DoneTags') \in Nat
        /\ Cardinality(DoneTags) \in Nat /\ AnnotatedManifests' = AnnotatedManifests
    <3>1. AnnotatedManifests' = AnnotatedManifests
      BY <1>1 DEF AnnotatedManifests, HasTag, AttachedTo
    <3>2. QED  BY <1>1, <1>2, <1>5, <1>8, <3>1, DoneStays, DoneFinite
  <2>3. size' = hit' + Cardinality(batch')
    BY <1>1, <1>4
  <2>4. ~failed
    BY <1>1, <1>2 DEF CountInv
  <2>5. /\ tagsCount <= Cardinality(DoneTags)
        /\ manifestsCount <= Cardinality(AnnotatedManifests)
        /\ Cardinality(attached) <= tagsCount + manifestsCount
    BY <1>1, <1>2, <2>1, <2>4 DEF CountInv
  <2>6. tagsCount <= Cardinality(DoneTags') /\ tagsCount \in Int /\ manifestsCount \in Int
    BY <1>2, <2>2, <2>5 DEF CountInv
  <2>7. /\ tagsCount' \in Int /\ manifestsCount' \in Int /\ hit' \in Nat /\ size' \in Nat
    BY <1>1, <1>4, <2>6
  <2>8. /\ erred' \in BOOLEAN /\ failed' \in BOOLEAN /\ ~failed'
    BY <1>1, <1>2, <2>4 DEF CountInv
  <2>9. /\ TagsCounted' <= Cardinality(DoneTags')
        /\ ManifestsCounted' <= Cardinality(AnnotatedManifests')
        /\ Cardinality(attached') <= TagsCounted' + ManifestsCounted'
    BY <1>1, <2>1, <2>2, <2>5, <2>6
  <2>10. QED  BY <2>3, <2>7, <2>8, <2>9 DEF CountInv
<1>15. QED  BY <1>11, <1>12, <1>13, <1>14 DEF AnnotateInv

\* One that has none to give, or is in a dry run.
LEMMA CountsPage ==
    ASSUME AnnotateInv, ListPage, call.dryRun \/ ToAnnotate = {}
    PROVE  AnnotateInv'
<1>1. /\ call' = call /\ attached' = attached /\ manifestsCount' = manifestsCount
      /\ tagsCount' = tagsCount + Cardinality(ToAnnotate) /\ failed' = failed
      /\ cursor' = Max(Page) /\ Page # {} /\ pc = "tags" /\ pc' = AfterPage
      /\ batch' = batch /\ size' = size /\ hit' = hit /\ erred' = erred /\ next' = next
  BY DEF ListPage, batchVars
<1>2. TaskInv /\ PageInv /\ OnceInv /\ CountInv
  BY DEF AnnotateInv
<1>3. AfterPage \in {"tags", "untagged"}
  BY DEF AfterPage
<1>4. Max(Page) \in Nat /\ Max(Page) <= Len(call.order)
  BY <1>1, <1>2, PageIs, CallTypes DEF TaskInv
<1>5. batch = {} /\ Given = attached /\ Given' = attached
  BY <1>1, <1>2 DEF TaskInv, Given
<1>6. TaskInv'
  <2>1. \A a \in Given' : SoundTask(a)'
    BY <1>5, PageKeepsTasks
  <2>2. QED  BY <1>1, <1>2, <1>3, <1>4, <1>5, <2>1 DEF TaskInv
<1>7. PageInv'
  BY <1>1, <1>2, PageIsAPage DEF PageInv
<1>8. OnceInv'
  BY <1>1, <1>2, <1>5, OnceStays
<1>9. CountInv'
  <2>1. ToAnnotate \in SUBSET Positions
    BY <1>1, <1>2, PageIs DEF ToAnnotate
  <2>2. Cardinality(ToAnnotate) \in Nat
    BY <1>2, <2>1, TasksAtCount DEF TaskInv
  <2>3. ~call.dryRun => tagsCount' = tagsCount
    BY <1>1, <1>2, FS_EmptySet DEF CountInv
  <2>4. pc # "batch" /\ pc' # "batch" /\ ~failed
    BY <1>1, <1>2, <1>3 DEF CountInv
  <2>5. ~call.dryRun => TagsCounted' = TagsCounted /\ ManifestsCounted' = ManifestsCounted
    BY <1>1, <2>3, <2>4 DEF TagsCounted, ManifestsCounted
  <2>6. /\ Cardinality(DoneTags) <= Cardinality(DoneTags') /\ Cardinality(DoneTags') \in Nat
        /\ Cardinality(DoneTags) \in Nat /\ AnnotatedManifests' = AnnotatedManifests
    <3>1. AnnotatedManifests' = AnnotatedManifests
      BY <1>1 DEF AnnotatedManifests, HasTag, AttachedTo
    <3>2. cursor \in Nat /\ cursor < Max(Page)
      BY <1>1, <1>2, PageIs DEF TaskInv
    <3>3. QED  BY <1>1, <1>2, <1>4, <3>1, <3>2, DoneStays, DoneFinite
  <2>7. TagsCounted \in Int /\ ManifestsCounted \in Int
    BY <1>2 DEF CountInv, TagsCounted, ManifestsCounted
  <2>8. QED  BY <1>1, <1>2, <2>2, <2>4, <2>5, <2>6, <2>7 DEF CountInv
<1>10. QED  BY <1>6, <1>7, <1>8, <1>9 DEF AnnotateInv

LEMMA ListPageInv == AnnotateInv /\ ListPage => AnnotateInv'
BY SubmitsPage, CountsPage

LEMMA ListNothingInv == AnnotateInv /\ ListNothing => AnnotateInv'
<1> SUFFICES ASSUME AnnotateInv, ListNothing  PROVE AnnotateInv'
  OBVIOUS
<1>1. /\ pc \in {"tags", "untagged"} /\ pc' \in {"untagged", "returned"}
      /\ UNCHANGED <<call, cursor, attached, batchVars, countVars>> /\ failed' = failed
  BY DEF ListNothing
<1>2. QED  BY <1>1, NothingDone

LEMMA TaggedOnlyInv == AnnotateInv /\ TaggedOnly => AnnotateInv'
<1> SUFFICES ASSUME AnnotateInv, TaggedOnly  PROVE AnnotateInv'
  OBVIOUS
<1>1. /\ pc \in {"tags", "untagged"} /\ pc' \in {"untagged", "returned"}
      /\ UNCHANGED <<call, cursor, attached, batchVars, countVars>> /\ failed' = failed
  BY DEF TaggedOnly
<1>2. QED  BY <1>1, NothingDone

LEMMA FailInv == AnnotateInv /\ (RefuseAnnotations \/ RequestFails) => AnnotateInv'
<1> SUFFICES ASSUME AnnotateInv, RefuseAnnotations \/ RequestFails  PROVE AnnotateInv'
  OBVIOUS
<1>1. /\ pc \in {"tags", "untagged"} /\ pc' \in {"untagged", "returned"}
      /\ UNCHANGED <<call, cursor, attached, batchVars>>
      /\ failed' = TRUE /\ pc' = "returned"
      /\ tagsCount' \in {tagsCount, -1} /\ manifestsCount' \in {manifestsCount, -1}
  BY DEF RefuseAnnotations, RequestFails, Fail
<1>2. QED  BY <1>1, NothingDone

-----------------------------------------------------------------------------
(***************************************************************************)
(* The untagged manifests.                                                 *)
(***************************************************************************)

\* All that was given before was for tags.
LEMMA OnlyTagsBefore ==
    ASSUME TaskInv, pc = "untagged", NEW a \in attached
    PROVE  a.position \in Nat /\ a.position # 0
BY DEF TaskInv, Given, SoundTask, ForManifests

LEMMA UntaggedInv == AnnotateInv /\ Untagged => AnnotateInv'
<1> SUFFICES ASSUME AnnotateInv, Untagged  PROVE AnnotateInv'
  OBVIOUS
<1> DEFINE digests == M!Selected(Scanned)
           T == {[position |-> 0, digest |-> d] : d \in digests}
<1>1. TaskInv /\ PageInv /\ OnceInv /\ CountInv
  BY DEF AnnotateInv
<1>2. /\ digests \subseteq Digest /\ IsFiniteSet(digests) /\ Attachment \notin digests
      /\ \A d \in digests : HasTag(Positions, d) = {}
  BY <1>1, SelectedAreNew
<1>3. /\ pc = "untagged" /\ call' = call /\ cursor' = cursor /\ attached' = attached
      /\ tagsCount' = tagsCount /\ failed' = failed
      /\ \/ /\ call.dryRun /\ manifestsCount' = Cardinality(digests) /\ pc' = "returned"
            /\ UNCHANGED batchVars
         \/ /\ ~call.dryRun /\ manifestsCount' = manifestsCount
            /\ batch' = T /\ size' = Cardinality(T) /\ hit' = 0 /\ erred' = FALSE
            /\ next' = "returned" /\ pc' = "batch"
  BY DEF Untagged, Submit
<1> HIDE DEF digests
<1>4. IsFiniteSet(T) /\ Cardinality(T) \in Nat /\ Cardinality(digests) \in Nat
  BY <1>2, TasksForFinite, FS_CardinalityType
<1>5. batch = {} /\ Given = attached /\ (pc' = "batch" => Given' = attached \cup T)
      /\ (pc' # "batch" => Given' = attached)
  BY <1>1, <1>3 DEF TaskInv, Given, batchVars
<1>6. \A a \in T : a \in [position : Nat, digest : Digest] /\ a.position = 0 /\ a.digest \in digests
  BY <1>2
<1> HIDE DEF T
<1>7. cursor \in Nat /\ cursor' \in Nat /\ cursor <= cursor'
  BY <1>1, <1>3 DEF TaskInv
<1>8. ASSUME NEW a \in Given'  PROVE SoundTask(a)'
  <2>1. ForManifests'
    BY <1>3 DEF ForManifests
  <2>2. CASE a \in attached
    <3>1. SoundTask(a)
      BY <1>1, <1>5, <2>2 DEF TaskInv
    <3>2. QED  BY <1>3, <1>7, <2>1, <3>1, SoundStays
  <2>3. CASE a \in T /\ a \notin attached
    <3>1. HasTag(Positions, a.digest)' = HasTag(Positions, a.digest)
      BY <1>3 DEF HasTag, Positions
    <3>2. HasTag(Positions, a.digest) = {} /\ a.digest # Attachment
      BY <1>2, <1>6, <2>3
    <3>3. a \in [position : Nat, digest : Digest] /\ a.position = 0 /\ a.position <= cursor'
      BY <1>6, <1>7, <2>3
    <3>4. QED  BY <2>1, <3>1, <3>2, <3>3 DEF SoundTask
  <2>4. QED  BY <1>5, <2>2, <2>3
<1>9. TaskInv'
  <2>1. attached \cap T = {}
    BY <1>1, <1>3, <1>6, OnlyTagsBefore
  <2>2. CASE call.dryRun
    BY <1>1, <1>3, <1>5, <1>8, <2>2 DEF TaskInv, batchVars
  <2>3. CASE ~call.dryRun
    <3>1. \A a \in batch' : a.position = 0
      BY <1>3, <1>6, <2>3
    <3>2. QED  BY <1>1, <1>3, <1>4, <1>8, <2>1, <2>3, <3>1 DEF TaskInv
  <2>4. QED  BY <2>2, <2>3
<1>10. PageInv'
  BY <1>1, <1>3 DEF PageInv
<1>11. OnceInv'
  <2>1. \A a \in Given' : a.position > 0 => a \in Given
    BY <1>3, <1>5, <1>6
  <2>2. QED  BY <1>1, <1>3, <2>1, OnceStays
<1>12. CountInv'
  <2>1. ~failed
    BY <1>1, <1>3 DEF CountInv
  <2>2. CASE call.dryRun
    <3>1. /\ manifestsCount' \in Nat /\ pc' = "returned"
          /\ hit' = hit /\ size' = size /\ erred' = erred
      BY <1>3, <1>4, <2>2 DEF batchVars
    <3>2. QED  BY <1>1, <1>3, <2>1, <2>2, <3>1 DEF CountInv
  <2>3. CASE ~call.dryRun
    <3>1. /\ manifestsCount' = manifestsCount /\ batch' = T /\ size' = Cardinality(T)
          /\ hit' = 0 /\ erred' = FALSE /\ pc' = "batch"
      BY <1>3, <2>3
    <3>2. /\ TagsCounted = tagsCount /\ TagsCounted' = tagsCount
          /\ ManifestsCounted = manifestsCount /\ ManifestsCounted' = manifestsCount
      <4>1. tagsCount \in Int /\ manifestsCount \in Int
        BY <1>1 DEF CountInv
      <4>2. QED  BY <1>3, <3>1, <4>1 DEF TagsCounted, ManifestsCounted
    <3>3. size' = hit' + Cardinality(batch')
      BY <1>4, <3>1
    <3>4. DoneTags' = DoneTags /\ AnnotatedManifests' = AnnotatedManifests
      <4>1. \A d : /\ AttachedTo(d)' = AttachedTo(d) /\ Names(d)' = Names(d)
                   /\ HasTag(1..Len(call.order), d)' = HasTag(1..Len(call.order), d)
        BY <1>3 DEF AttachedTo, Names, HasTag, LockedOut
      <4>2. AnnotatedTags' = AnnotatedTags /\ cursor' = cursor
        BY <1>3, <4>1 DEF AnnotatedTags
      <4>3. \A i \in AnnotatedTags : TaskFor(i) \notin batch /\ (TaskFor(i) \notin batch)'
        BY <1>3, <1>5, <1>6, <3>1 DEF TaskFor, AnnotatedTags
      <4>4. QED  BY <4>1, <4>2, <4>3 DEF DoneTags, AnnotatedManifests
    <3>5. QED  BY <1>1, <1>3, <1>4, <2>1, <3>1, <3>2, <3>3, <3>4 DEF CountInv
  <2>4. QED  BY <2>2, <2>3
<1>13. QED  BY <1>9, <1>10, <1>11, <1>12 DEF AnnotateInv

-----------------------------------------------------------------------------
(***************************************************************************)
(* The tasks of a batch, and its end.                                      *)
(***************************************************************************)

\* A task is settled: it leaves the batch, and its annotation is there or not.
LEMMA SettleKeeps ==
    ASSUME AnnotateInv, NEW task, Settle(task), Attach(task) \/ UNCHANGED attached
    PROVE  /\ TaskInv' /\ PageInv' /\ OnceInv'
           /\ Cardinality(batch) = Cardinality(batch') + 1 /\ Cardinality(batch') \in Nat
           /\ Cardinality(attached) \in Nat /\ Cardinality(attached') \in Nat
           /\ Cardinality(attached') <= Cardinality(attached) + 1
           /\ attached \subseteq attached'
<1>1. /\ TaskInv /\ PageInv /\ OnceInv
      /\ pc = "batch" /\ task \in batch /\ batch' = batch \ {task}
      /\ pc' = pc /\ call' = call /\ cursor' = cursor /\ next' = next
  BY DEF AnnotateInv, Settle
<1>2. attached' = attached \cup {task} \/ attached' = attached
  BY DEF Attach
<1>3. Given' \subseteq Given /\ cursor \in Nat /\ task \notin attached
  BY <1>1, <1>2 DEF Given, TaskInv
<1>4. ASSUME NEW a \in Given'  PROVE SoundTask(a)'
  <2>1. SoundTask(a) /\ cursor <= cursor' /\ cursor' \in Nat
    BY <1>1, <1>3 DEF TaskInv
  <2>2. a.position = 0 => ForManifests'
    BY <1>1, <2>1 DEF SoundTask, ForManifests
  <2>3. QED  BY <1>1, <1>3, <2>1, <2>2, SoundStays
<1>5. /\ IsFiniteSet(attached) /\ IsFiniteSet(batch)
      /\ IsFiniteSet(attached') /\ IsFiniteSet(batch') /\ attached' \cap batch' = {}
  <2>1. IsFiniteSet(attached) /\ IsFiniteSet(batch) /\ attached \cap batch = {}
    BY <1>1 DEF TaskInv
  <2>2. IsFiniteSet(batch') /\ IsFiniteSet(attached \cup {task})
    BY <1>1, <2>1, FS_RemoveElement, FS_AddElement
  <2>3. attached' \cap batch' = {}
    BY <1>1, <1>2, <2>1
  <2>4. QED  BY <1>2, <2>1, <2>2, <2>3
<1>6. TaskInv'
  <2>1. pc' = "batch" /\ next' = "returned" => \A a \in batch' : a.position = 0
    BY <1>1 DEF TaskInv
  <2>2. QED  BY <1>1, <1>4, <1>5, <2>1 DEF TaskInv
<1>7. PageInv' /\ OnceInv'
  BY <1>1, <1>3, OnceStays DEF PageInv
<1>8. /\ Cardinality(batch) \in Nat /\ Cardinality(batch') \in Nat
      /\ Cardinality(attached) \in Nat /\ Cardinality(attached') \in Nat
  BY <1>5, FS_CardinalityType
<1>9. Cardinality(batch') = Cardinality(batch) - 1
  BY <1>1, <1>5, FS_RemoveElement
<1>10. attached \subseteq attached' /\ Cardinality(attached') <= Cardinality(attached) + 1
  <2>1. CASE attached' = attached
    BY <1>8, <2>1
  <2>2. CASE attached' = attached \cup {task}
    BY <1>3, <1>5, <1>8, <2>2, FS_AddElement
  <2>3. QED  BY <1>2, <2>1, <2>2
<1>11. QED  BY <1>6, <1>7, <1>8, <1>9, <1>10

\* What is annotated stays so: nothing that is counted is undone.
LEMMA SettleGrows ==
    ASSUME AnnotateInv, NEW task, Settle(task), Attach(task) \/ UNCHANGED attached
    PROVE  /\ DoneTags \subseteq DoneTags' /\ IsFiniteSet(DoneTags')
           /\ Cardinality(DoneTags) <= Cardinality(DoneTags')
           /\ Cardinality(DoneTags) \in Nat /\ Cardinality(DoneTags') \in Nat
           /\ AnnotatedManifests \subseteq AnnotatedManifests' /\ IsFiniteSet(AnnotatedManifests')
           /\ Cardinality(AnnotatedManifests) <= Cardinality(AnnotatedManifests')
           /\ Cardinality(AnnotatedManifests) \in Nat /\ Cardinality(AnnotatedManifests') \in Nat
<1>1. /\ TaskInv /\ task \in batch /\ batch' = batch \ {task} /\ call' = call
      /\ cursor' = cursor /\ cursor \in Nat
  BY DEF AnnotateInv, TaskInv, Settle
<1>2. attached \subseteq attached' /\ attached' \subseteq attached \cup {task}
  BY DEF Attach
<1>3. /\ DoneTags \subseteq DoneTags' /\ IsFiniteSet(DoneTags')
      /\ Cardinality(DoneTags) <= Cardinality(DoneTags')
      /\ Cardinality(DoneTags) \in Nat /\ Cardinality(DoneTags') \in Nat
  BY <1>1, <1>2, DoneStays, DoneFinite
<1>4. \A d : HasTag(1..Len(call.order), d)' = HasTag(1..Len(call.order), d)
  BY <1>1 DEF HasTag
<1>5. AnnotatedManifests \subseteq AnnotatedManifests'
  BY <1>2, <1>4 DEF AnnotatedManifests, AttachedTo
<1>6. AnnotatedManifests' \subseteq AnnotatedManifests \cup {task.digest}
  BY <1>2, <1>4 DEF AnnotatedManifests, AttachedTo
<1>7. IsFiniteSet(AnnotatedManifests')
  BY <1>1, <1>6, DoneFinite, FS_AddElement, FS_Subset
<1>8. QED  BY <1>1, <1>3, <1>5, <1>7, DoneFinite, FS_Subset, FS_CardinalityType

\* A task that is counted has annotated one more tag, or one more manifest: no
\* two tasks are for one tag, and a manifest without one has a single task.
LEMMA AttachCounts ==
    ASSUME AnnotateInv, NEW task, Settle(task), Attach(task)
    PROVE  /\ next # "returned" => Cardinality(DoneTags) + 1 <= Cardinality(DoneTags')
           /\ next = "returned" =>
                 Cardinality(AnnotatedManifests) + 1 <= Cardinality(AnnotatedManifests')
<1>1. /\ TaskInv /\ task \in batch /\ batch' = batch \ {task} /\ call' = call
      /\ cursor' = cursor /\ cursor \in Nat /\ pc = "batch"
  BY DEF AnnotateInv, TaskInv, Settle
<1>2. SoundTask(task) /\ task \in [position : Nat, digest : Digest] /\ task \notin attached
  BY <1>1 DEF TaskInv, Given, SoundTask
<1>3. \E a \in attached' : a.digest = task.digest
  BY DEF Attach, AttachedTo
<1>4. CASE next # "returned"
  <2> DEFINE p == task.position
  <2>1. p > 0 /\ p \in Nat /\ p <= cursor
    BY <1>1, <1>2, <1>4 DEF SoundTask, ForManifests
  <2>2. task = TaskFor(p) /\ p \in Names(call.of[call.order[p]]) /\ p \in Positions
    BY <1>2, <2>1 DEF SoundTask, TaskFor, Names, HasTag, Positions
  <2>3. task.digest = call.of[call.order[p]]
    BY <1>2, <2>1 DEF SoundTask
  <2> HIDE DEF p
  <2>4. p \notin DoneTags
    BY <1>1, <2>2 DEF DoneTags
  <2>5. AttachedTo(call.of[call.order[p]])' # {}
    BY <1>1, <1>3, <2>3 DEF AttachedTo
  <2>6. Names(call.of[call.order[p]])' = Names(call.of[call.order[p]]) /\ TaskFor(p)' = TaskFor(p)
    BY <1>1 DEF Names, HasTag, LockedOut, TaskFor
  <2>7. p \in DoneTags'
    BY <1>1, <2>1, <2>2, <2>5, <2>6 DEF DoneTags, AnnotatedTags, Positions
  <2>8. DoneTags \cup {p} \subseteq DoneTags' /\ IsFiniteSet(DoneTags')
    BY <2>7, SettleGrows
  <2>9. QED  BY <1>1, <1>4, <2>4, <2>8, OneMore, DoneFinite
<1>5. CASE next = "returned"
  <2> DEFINE d == task.digest
  <2>1. d \in Digest /\ HasTag(Positions, d) = {} /\ task.position = 0
    BY <1>1, <1>2, <1>5 DEF TaskInv, SoundTask
  <2>2. ASSUME NEW a \in attached, a.digest = d  PROVE FALSE
    <3>1. SoundTask(a) /\ a \in [position : Nat, digest : Digest] /\ a # task
      BY <1>1, <1>2 DEF TaskInv, Given, SoundTask
    <3>2. a.position # 0
      BY <1>2, <2>1, <2>2, <3>1
    <3>3. a.position \in Names(d) /\ Names(d) \subseteq HasTag(Positions, d)
      BY <2>2, <3>1, <3>2 DEF SoundTask, Names, Positions
    <3>4. QED  BY <2>1, <3>3
  <2> HIDE DEF d
  <2>3. d \notin AnnotatedManifests
    BY <2>2 DEF AnnotatedManifests, AttachedTo
  <2>4. d \in AnnotatedManifests'
    BY <1>1, <1>3, <2>1 DEF AnnotatedManifests, AttachedTo, HasTag, Positions, d
  <2>5. AnnotatedManifests \cup {d} \subseteq AnnotatedManifests' /\ IsFiniteSet(AnnotatedManifests')
    BY <2>4, SettleGrows
  <2>6. QED  BY <1>1, <1>5, <2>3, <2>5, OneMore, DoneFinite
<1>6. QED  BY <1>4, <1>5

LEMMA AnnotateOneInv ==
    ASSUME AnnotateInv, NEW task, AnnotateOne(task)  PROVE AnnotateInv'
<1>1. /\ Settle(task) /\ Attach(task) /\ hit' = hit + 1 /\ erred' = erred
      /\ pc = "batch" /\ pc' = pc /\ call' = call /\ size' = size /\ failed' = failed
      /\ tagsCount' = tagsCount /\ manifestsCount' = manifestsCount /\ next' = next
  BY DEF AnnotateOne, Settle, countVars
<1>2. /\ TaskInv' /\ PageInv' /\ OnceInv'
      /\ Cardinality(batch) = Cardinality(batch') + 1 /\ Cardinality(batch') \in Nat
      /\ Cardinality(attached') <= Cardinality(attached) + 1
      /\ Cardinality(attached) \in Nat /\ Cardinality(attached') \in Nat
  BY <1>1, SettleKeeps
<1>3. /\ tagsCount \in Int /\ manifestsCount \in Int /\ hit \in Nat
  BY DEF AnnotateInv, CountInv
<1>4. /\ Cardinality(DoneTags) <= Cardinality(DoneTags')
      /\ Cardinality(DoneTags) \in Nat /\ Cardinality(DoneTags') \in Nat
      /\ Cardinality(AnnotatedManifests) <= Cardinality(AnnotatedManifests')
      /\ Cardinality(AnnotatedManifests) \in Nat /\ Cardinality(AnnotatedManifests') \in Nat
  BY <1>1, SettleGrows
<1>5. \/ /\ TagsCounted' = TagsCounted + 1 /\ ManifestsCounted' = ManifestsCounted
         /\ Cardinality(DoneTags) + 1 <= Cardinality(DoneTags')
      \/ /\ TagsCounted' = TagsCounted /\ ManifestsCounted' = ManifestsCounted + 1
         /\ Cardinality(AnnotatedManifests) + 1 <= Cardinality(AnnotatedManifests')
  BY <1>1, <1>3, AttachCounts DEF TagsCounted, ManifestsCounted
<1>6. TagsCounted \in Int /\ ManifestsCounted \in Int
  BY <1>1, <1>3 DEF TagsCounted, ManifestsCounted
<1>7. CountInv'
  BY <1>1, <1>2, <1>3, <1>4, <1>5, <1>6 DEF AnnotateInv, CountInv
<1>8. QED  BY <1>2, <1>7 DEF AnnotateInv

LEMMA AnnotateFailsInv ==
    ASSUME AnnotateInv, NEW task, AnnotateFails(task) \/ AnnotateCancelled(task)
    PROVE  AnnotateInv'
<1>1. /\ Settle(task) /\ (Attach(task) \/ UNCHANGED attached) /\ hit' = hit /\ erred'
      /\ erred' \in BOOLEAN
      /\ pc = "batch" /\ pc' = pc /\ call' = call /\ size' = size /\ failed' = failed
      /\ tagsCount' = tagsCount /\ manifestsCount' = manifestsCount /\ next' = next
  BY DEF AnnotateFails, AnnotateCancelled, Settle, countVars, AnnotateInv, CountInv
<1>2. TaskInv' /\ PageInv' /\ OnceInv'
  BY <1>1, SettleKeeps
<1>3. /\ Cardinality(DoneTags) <= Cardinality(DoneTags')
      /\ Cardinality(DoneTags) \in Nat /\ Cardinality(DoneTags') \in Nat
      /\ Cardinality(AnnotatedManifests) <= Cardinality(AnnotatedManifests')
      /\ Cardinality(AnnotatedManifests) \in Nat /\ Cardinality(AnnotatedManifests') \in Nat
  BY <1>1, SettleGrows
<1>4. /\ TagsCounted' = TagsCounted /\ ManifestsCounted' = ManifestsCounted
      /\ TagsCounted \in Int /\ ManifestsCounted \in Int
  BY <1>1 DEF TagsCounted, ManifestsCounted, AnnotateInv, CountInv
<1>5. CountInv'
  BY <1>1, <1>3, <1>4 DEF AnnotateInv, CountInv
<1>6. QED  BY <1>2, <1>5 DEF AnnotateInv

LEMMA BatchReturnsInv == AnnotateInv /\ BatchReturns => AnnotateInv'
<1> SUFFICES ASSUME AnnotateInv, BatchReturns  PROVE AnnotateInv'
  OBVIOUS
<1>1. /\ TaskInv /\ PageInv /\ OnceInv /\ CountInv
  BY DEF AnnotateInv
<1>2. /\ pc = "batch" /\ batch = {} /\ call' = call /\ cursor' = cursor /\ attached' = attached
      /\ batch' = batch /\ size' = size /\ next' = next /\ hit' = hit /\ erred' = erred
      /\ failed' = erred /\ pc' = IF erred THEN "returned" ELSE next
  BY DEF BatchReturns, batchVars
<1>3. pc' \in {"tags", "untagged", "returned"} /\ pc' # "batch" /\ (erred => pc' = "returned")
  BY <1>1, <1>2 DEF TaskInv
<1>4. Given' = Given /\ cursor \in Nat
  BY <1>1, <1>2 DEF Given, TaskInv
<1>5. ASSUME NEW a \in Given  PROVE SoundTask(a)'
  <2>1. SoundTask(a) /\ cursor <= cursor' /\ cursor' \in Nat
    BY <1>1, <1>2 DEF TaskInv
  <2>2. a.position = 0 => ForManifests'
    BY <1>2, <2>1 DEF SoundTask, ForManifests
  <2>3. QED  BY <1>2, <1>4, <2>1, <2>2, SoundStays
<1>6. TaskInv'
  BY <1>1, <1>2, <1>3, <1>4, <1>5 DEF TaskInv
<1>7. PageInv' /\ OnceInv'
  BY <1>1, <1>2, <1>4, OnceStays DEF PageInv
<1>8. CountInv'
  <2>1. hit \in Nat /\ size \in Nat /\ tagsCount \in Int /\ manifestsCount \in Int
        /\ erred \in BOOLEAN
    BY <1>1 DEF CountInv
  <2>2. ~erred => size = hit
    BY <1>1, <1>2, FS_EmptySet DEF CountInv
  <2>3. \/ /\ manifestsCount' = manifestsCount + hit /\ tagsCount' = tagsCount
           /\ next = "returned"
        \/ /\ manifestsCount' = manifestsCount /\ tagsCount' = tagsCount + hit
           /\ next # "returned"
    BY <2>1, <2>2 DEF BatchReturns
  <2>4. TagsCounted' = tagsCount' /\ ManifestsCounted' = manifestsCount'
    BY <1>2, <1>3, <2>1, <2>3 DEF TagsCounted, ManifestsCounted
  <2>5. /\ TagsCounted' = TagsCounted /\ ManifestsCounted' = ManifestsCounted
        /\ tagsCount' \in Int /\ manifestsCount' \in Int
    BY <1>2, <2>1, <2>3, <2>4 DEF TagsCounted, ManifestsCounted
  <2>6. DoneTags' = DoneTags /\ AnnotatedManifests' = AnnotatedManifests
    BY <1>2, SameDone
  <2>7. ~call.dryRun =>
            /\ TagsCounted <= Cardinality(DoneTags)
            /\ ManifestsCounted <= Cardinality(AnnotatedManifests)
            /\ ~erred => Cardinality(attached) <= TagsCounted + ManifestsCounted
    BY <1>1, <1>2 DEF CountInv
  <2>8. QED  BY <1>2, <1>3, <2>1, <2>5, <2>6, <2>7 DEF CountInv
<1>9. QED  BY <1>6, <1>7, <1>8 DEF AnnotateInv

-----------------------------------------------------------------------------
(***************************************************************************)
(* The theorems.                                                           *)
(***************************************************************************)

\* The invariants hold in every run, whatever its requests answer.
THEOREM AnnotateCorrect == AnnotateSpec => []AnnotateInv
<1>1. ASSUME AnnotateInv, [Answered \/ Failed]_vars  PROVE AnnotateInv'
  <2>1. CASE ListPage
    BY <1>1, <2>1, ListPageInv
  <2>2. CASE ListNothing
    BY <1>1, <2>2, ListNothingInv
  <2>3. CASE RefuseAnnotations \/ RequestFails
    BY <1>1, <2>3, FailInv
  <2>4. CASE Untagged
    BY <1>1, <2>4, UntaggedInv
  <2>5. CASE TaggedOnly
    BY <1>1, <2>5, TaggedOnlyInv
  <2>6. ASSUME NEW task \in batch, AnnotateOne(task)  PROVE AnnotateInv'
    BY <1>1, <2>6, AnnotateOneInv
  <2>7. ASSUME NEW task \in batch, AnnotateFails(task) \/ AnnotateCancelled(task)
        PROVE  AnnotateInv'
    BY <1>1, <2>7, AnnotateFailsInv
  <2>8. CASE BatchReturns
    BY <1>1, <2>8, BatchReturnsInv
  <2>9. CASE UNCHANGED vars
    BY <1>1, <2>9, UnchangedInv
  <2>10. QED
    BY <1>1, <2>1, <2>2, <2>3, <2>4, <2>5, <2>6, <2>7, <2>8, <2>9 DEF Answered, Failed
<1>2. QED  BY InitInv, <1>1, PTL DEF AnnotateSpec

\* With lifecycle annotations a manifest that has one gets no other for a tag,
\* and the tags a manifest is annotated for are on one page of the listing:
\* no task repeats what an earlier page did.
THEOREM AnnotateOnOnePage == AnnotateSpec => []AnnotatedOnOnePage
<1>1. AnnotateInv => AnnotatedOnOnePage
  <2> SUFFICES ASSUME AnnotateInv, call.lifecycle, NEW j \in Positions,
                      NEW d, d = call.of[call.order[j]]
               PROVE  /\ d \in call.before => AttachedTo(d) = {}
                      /\ \E P \in Pages :
                            Cardinality(AttachedTo(d)) <= Cardinality(P \cap Names(d))
    BY DEF AnnotatedOnOnePage, Positions
  <2>1. TaskInv /\ d \in Digest /\ OncePerPage(d)
    BY CallTypes DEF AnnotateInv, TaskInv, OnceInv
  <2>2. ASSUME NEW a \in AttachedTo(d)
        PROVE  a \in Given /\ a.digest = d /\ a.position > 0
               /\ a \in [position : Nat, digest : Digest]
    <3>1. a \in Given /\ a.digest = d
      BY DEF AttachedTo, Given
    <3>2. SoundTask(a)
      BY <2>1, <3>1 DEF TaskInv
    <3>3. j \in HasTag(Positions, d)
      BY DEF HasTag
    <3>4. a.position \in Nat /\ a.position # 0
      BY <3>1, <3>2, <3>3 DEF SoundTask
    <3>5. QED  BY <3>1, <3>2, <3>4 DEF SoundTask
  <2>3. d \in call.before => AttachedTo(d) = {}
    BY <2>1, <2>2 DEF OncePerPage
  <2>4. PICK P \in Pages : \A a \in Given :
              a.position > 0 /\ a.digest = d => a.position \in P \cap Names(d)
    BY <2>1 DEF OncePerPage
  <2> DEFINE A == AttachedTo(d)
             S == P \cap Names(d)
             f == [a \in A |-> a.position]
  <2>5. IsFiniteSet(S)
    <3>1. S \subseteq Positions
      BY DEF Names, HasTag, Positions
    <3>2. QED  BY <2>1, <3>1, CallTypes, FS_Subset DEF TaskInv
  <2>6. f \in [A -> S]
    BY <2>2, <2>4
  <2>7. ASSUME NEW a \in A, NEW b \in A, f[a] = f[b]  PROVE a = b
    <3>1. a \in [position : Nat, digest : Digest] /\ b \in [position : Nat, digest : Digest]
      BY <2>2
    <3>2. a.digest = b.digest /\ a.position = b.position
      BY <2>2, <2>7
    <3>3. QED  BY <3>1, <3>2
  <2> HIDE DEF A, S, f
  <2>8. f \in Injection(A, S)
    BY <2>6, <2>7 DEF Injection, IsInjective
  <2>9. Cardinality(A) <= Cardinality(S)
    BY <2>5, <2>8, FS_Injection
  <2>10. QED  BY <2>3, <2>9 DEF A, S
<1>2. QED  BY AnnotateCorrect, <1>1, PTL

\* What the run attaches is never annotated itself, for no tag and not as an
\* untagged manifest, though the scan lists it.
THEOREM AnnotateSkipsAnnotations == AnnotateSpec => []AnnotationsAreNotAnnotated
<1>1. AnnotateInv => AnnotationsAreNotAnnotated
  <2> SUFFICES ASSUME AnnotateInv, NEW a \in attached, a.digest = Attachment  PROVE FALSE
    BY DEF AnnotationsAreNotAnnotated, AttachedTo
  <2>1. call \in Calls /\ SoundTask(a) /\ cursor \in Nat /\ cursor <= Len(call.order)
    BY DEF AnnotateInv, TaskInv, Given
  <2>2. a.position \in Nat /\ a.position # 0
    BY DEF SoundTask, AnnotateInv, TaskInv, Given
  <2>3. a.position \in Positions
    BY <2>1, <2>2, CallTypes DEF SoundTask, Positions
  <2>4. call.order[a.position] \in Tag
    BY <2>1, <2>3, CallTypes
  <2>5. a.digest = call.of[call.order[a.position]]
    BY <2>1, <2>2 DEF SoundTask
  <2>6. QED  BY <2>1, <2>4, <2>5, CallTypes
<1>2. QED  BY AnnotateCorrect, <1>1, PTL

\* However its tasks are interleaved, a run counts no tag that it may not have
\* annotated, and no manifest that has got no annotation, also when it fails;
\* and one that succeeds has made no annotation that it does not count.
THEOREM AnnotateCountsAnnotations == AnnotateSpec => []AnnotationsAreCounted
<1>1. AnnotateInv => AnnotationsAreCounted
  <2> SUFFICES ASSUME AnnotateInv, pc = "returned", ~call.dryRun
               PROVE  /\ tagsCount <= Cardinality(AnnotatedTags)
                      /\ manifestsCount <= Cardinality(AnnotatedManifests)
                      /\ ~failed => Cardinality(attached) <= tagsCount + manifestsCount
    BY DEF AnnotationsAreCounted
  <2>1. /\ tagsCount \in Int /\ manifestsCount \in Int
        /\ TagsCounted = tagsCount /\ ManifestsCounted = manifestsCount
    BY DEF AnnotateInv, CountInv, TagsCounted, ManifestsCounted
  <2>2. /\ Cardinality(DoneTags) \in Nat /\ Cardinality(AnnotatedTags) \in Nat
        /\ Cardinality(DoneTags) <= Cardinality(AnnotatedTags)
    BY DoneFinite, FS_CardinalityType DEF AnnotateInv
  <2>3. QED  BY <2>1, <2>2 DEF AnnotateInv, CountInv
<1>2. QED  BY AnnotateCorrect, <1>1, PTL
=============================================================================
