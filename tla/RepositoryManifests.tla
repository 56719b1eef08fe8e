------------------------- MODULE RepositoryManifests -------------------------
(***************************************************************************)
(* The manifests of a repository as acr-cli sees them, and the set that    *)
(* repository.GetUntaggedManifests (cmd/repository/image_functions.go)     *)
(* selects for deletion or annotation, written as a set and not as the     *)
(* traversal that computes it.                                             *)
(***************************************************************************)
EXTENDS Naturals, Sequences

CONSTANTS
    Digest,         \* the digests of manifests
    Repos,          \* the calls of the scan to consider
    NoCutoff        \* deleteCutoff = nil

Kind == {"image", "index", "artifact", "dockerImage", "dockerList"}
OCIKind == {"image", "index", "artifact"}
ListKind == {"index", "dockerList"}

(***************************************************************************)
(* A call of the scan.  The repository: acr.ManifestAttributesBase as the  *)
(* listing reports it, and what GetManifest answers.  A child's descriptor *)
(* carries the child's media type, so that isList is kind[c] \in ListKind. *)
(* And the call's parameters.                                              *)
(***************************************************************************)
Repository ==
    [ listing    : Seq(Digest),              \* GetAcrManifests, all pages
      tags       : [Digest -> Nat],          \* len(*manifest.Tags)
      planned    : [Digest -> Nat],          \* manifestToDeletedTagsCountMap
      updated    : [Digest -> Nat],          \* LastUpdateTime
      undated    : SUBSET Digest,            \* no readable LastUpdateTime
      locked     : SUBSET Digest,            \* DeleteEnabled or WriteEnabled is false
      unlabelled : SUBSET Digest,            \* the listing has no MediaType
      kind       : [Digest -> Kind],         \* the media type of the content
      subject    : SUBSET Digest,            \* the content has a subject
      children   : [Digest -> SUBSET Digest],\* the content's manifests field
      gone       : SUBSET Digest,            \* GetManifest answers 404
      dryRun        : BOOLEAN,  \* planned[d] tags of d count as deleted
      includeLocked : BOOLEAN,  \* --include-locked: locks do not protect
      preserveAll   : BOOLEAN,  \* preserveAllOCIManifests, set by annotate
      cutoff        : Nat \cup {NoCutoff} ]  \* *deleteCutoff

ASSUME SelectionAssumption ==
    /\ Repos \subseteq Repository
    /\ \A r \in Repos : \A d \in Digest : r.children[d] # {} => r.kind[d] \in ListKind
    /\ \A r \in Repos : \A i, j \in 1..Len(r.listing) : r.listing[i] = r.listing[j] => i = j

-----------------------------------------------------------------------------
Listed(r) == {r.listing[i] : i \in 1..Len(r.listing)}

IsList(r, d) == r.kind[d] \in ListKind

LockedOut(r, d) == ~r.includeLocked /\ d \in r.locked

ProtectedByTags(r, d) == r.tags[d] > (IF r.dryRun THEN r.planned[d] ELSE 0)

ProtectedByAge(r, d) ==
    r.cutoff # NoCutoff /\ (d \in r.undated \/ r.updated[d] > r.cutoff)

Protected(r, d) == ProtectedByTags(r, d) \/ ProtectedByAge(r, d)

\* A protected manifest may have children when it is a list or unlabelled.
MaybeList(r, d) == d \in r.unlabelled \/ IsList(r, d)

\* The children GetManifest reveals.
Kids(r, d) == IF d \in r.gone THEN {} ELSE r.children[d]

\* checkManifestDeletabilityAndGetDependencies answers false without children:
\* the manifest itself goes to the ignore list.
KeptItself(r, d) ==
    \/ d \in r.unlabelled
    \/ /\ r.kind[d] \in OCIKind
       /\ \/ d \in r.gone
          \/ d \in r.subject /\ (r.kind[d] # "index" \/ r.children[d] = {})

\* It answers false with children: an OCI index that has a subject.
ReferrerIndex(r, d) ==
    /\ d \notin r.unlabelled
    /\ r.kind[d] = "index" /\ d \in r.subject /\ d \notin r.gone
    /\ r.children[d] # {}

\* The manifests whose children the scan shields from deletion.
Shields(r) ==
    {d \in Listed(r) :
        /\ ~LockedOut(r, d)
        /\ IF Protected(r, d) THEN MaybeList(r, d)
           ELSE ~r.preserveAll /\ ReferrerIndex(r, d)}

\* S is closed: it holds the children of each of its members.
ClosedUnderKids(r, S) == \A d \in S : Kids(r, d) \subseteq S

\* The smallest closed set that holds the children of every shield: all that
\* the shields refer to, directly or through nested lists.
Shielded(r) ==
    LET children == UNION {Kids(r, d) : d \in Shields(r)}
        closed   == {S \in SUBSET Digest : children \subseteq S /\ ClosedUnderKids(r, S)}
    IN  {d \in Digest : \A S \in closed : d \in S}

\* Mutant: annotate looks at the OCI images, too.
EligibleAnyKind(r) ==
    {d \in Listed(r) :
        /\ ~LockedOut(r, d)
        /\ ~Protected(r, d)
        /\ r.preserveAll \/ ~KeptItself(r, d)}

\* The manifests that are candidates and are not kept for their own sake.
Eligible(r) ==
    {d \in Listed(r) :
        /\ ~LockedOut(r, d)
        /\ ~Protected(r, d)
        /\ IF r.preserveAll THEN r.kind[d] # "image" ELSE ~KeptItself(r, d)}

Selected(r) == Eligible(r) \ Shielded(r)
=============================================================================
