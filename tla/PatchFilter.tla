---------------------------- MODULE PatchFilter ----------------------------
(***************************************************************************)
(* acr cssc patch --dry-run (cmd/acr/cssc.go, internal/cssc/cssc.go) and   *)
(* tag.ListTags (internal/tag/tag.go): the filter is read and validated;   *)
(* for each of its entries the tags of the repository are listed page by   *)
(* page, while others push and delete tags, and then grouped by the tag    *)
(* they are a patch of; what is listed of a group is its latest tag.       *)
(*                                                                         *)
(* A tag, and the name of a repository, is the sequence of words between   *)
(* its hyphens.  A word is a number, for the texts 1 to 999, or a model    *)
(* value.  The texts compare as they stand in Order.                       *)
(***************************************************************************)
EXTENDS Integers, SequencesExt

CONSTANTS
    Order,           \* the tags there may be, in the order of their texts, in
                     \* which a tag is before those it is the beginning of
    Patched,         \* the word "patched"
    PatchedNumbered, \* the words "patched<digits>"
    AlsoReads,       \* <<f, t>>: f, read as a regular expression, matches t too
    Star, NA,        \* the texts "*" and "N/A", which no tag has
    PageSize,        \* tags per page of GetAcrTags
    Calls,           \* the calls to consider
    MaxChanges       \* bound on the tags pushed and deleted meanwhile

Name == Range(Order)
Number == 1 .. 999
Text == Seq({Star, NA} \cup UNION {Range(t) : t \in Name})
Wildcard == << <<Star>> >>

ASSUME PatchFilterAssumption ==
    /\ PageSize \in Nat \ {0} /\ MaxChanges \in Nat
    /\ Patched \notin Number \cup PatchedNumbered
    /\ Order \in Seq(Text) /\ <<Star>> \notin Name /\ <<NA>> \notin Name
    /\ \A i, j \in DOMAIN Order :
          /\ i # j => Order[i] # Order[j]
          /\ Len(Order[j]) > 1 /\ Front(Order[j]) = Order[i] => i < j
    /\ \A c \in Calls :
          /\ {c.dryRun, c.policy, c.file, c.faults} \subseteq BOOLEAN
          /\ c.entries \in Seq([repo : DOMAIN c.tags, tags : Seq(Text), enabled : BOOLEAN])
          /\ c.tags \in [DOMAIN c.tags -> SUBSET Name]

VARIABLES
    call,    \* the flags, the filter and what the registry holds at first
    phase,   \* "start", "entry", "pages", "listed", "failed"
    entry,   \* the position in filter.Repositories
    cursor,  \* the position of lastTag in Order, 0 at first
    tagList, \* the tags of the entry listed so far
    filteredRepos, uniqueFilteredRepos, artifactsNotFound,
    tags,    \* the tags of each repository now
    changes,
    stayed,  \* ghost: for each entry, the tags there from its first request on,
    ever,    \*        those there at some time since,
    erred    \*        and the entries whose first request failed

listing == <<cursor, tagList>>
answer == <<filteredRepos, uniqueFilteredRepos, artifactsNotFound>>
ghosts == <<stayed, ever, erred>>
vars == <<call, phase, entry, listing, answer, tags, changes, ghosts>>

Entries == DOMAIN call.entries
Current == call.entries[entry]
Enabled == {i \in Entries : call.entries[i].enabled}

PatchInit ==
    /\ call \in Calls
    /\ phase = "start" /\ entry = 1
    /\ cursor = 0 /\ tagList = {}
    /\ filteredRepos = {} /\ uniqueFilteredRepos = {} /\ artifactsNotFound = {}
    /\ tags = call.tags /\ changes = 0
    /\ stayed = [i \in Entries |-> {}] /\ ever = [i \in Entries |-> {}]
    /\ erred = {}

-----------------------------------------------------------------------------
(* The names of patch tags. *)

\* reservedSuffixRegex, which the text must end with and which has a hyphen.
Reserved(t) == Len(t) > 1 /\ (Last(t) \in Number \/ Last(t) = Patched)

\* patchTagRegex: the suffix of the convention.
Suffix == IF call.convention = "floating" THEN {Patched} ELSE Number
IsPatch(t) == Len(t) > 1 /\ Last(t) \in Suffix
PatchOf(t, b) == IsPatch(t) /\ Front(t) = b

\* The tag t counts as a version of.
BaseOf(t) == IF IsPatch(t) THEN Front(t) ELSE t

\* The optional end of the expression made of a tag of the filter; not quite
\* the suffix of the convention.
Ending == IF call.convention = "floating" THEN {Patched} \cup PatchedNumbered ELSE Number

\* The expression is made of the tag as it is, with its dots.
Reads(f, t) == f = t \/ <<f, t>> \in AlsoReads
MatchesTag(f, t) == Reads(f, t) \/ (Len(t) > 1 /\ Last(t) \in Ending /\ Reads(f, Front(t)))

Position(t) == CHOOSE i \in DOMAIN Order : Order[i] = t

\* Mutant: suffixes compare as texts.
compareTexts(t, u) == Position(t) < Position(u)

compareTags(t, u) ==
    IF Reserved(t) /\ Reserved(u) /\ Last(t) \in Number /\ Last(u) \in Number
    THEN Last(t) < Last(u)
    ELSE Position(t) < Position(u)

\* The last of the tags once they are sorted.
Latest(S) == CHOOSE t \in S : \A u \in S : ~compareTags(t, u)

-----------------------------------------------------------------------------
(* The flags and the filter. *)

ValidTag(f) == f # << >> /\ ~Reserved(f)

ValidateFilter ==
    /\ call.version = "v1"
    /\ call.entries # << >>
    /\ call.convention \in {"", "incremental", "floating"}
    /\ \A i \in Entries :
          /\ call.entries[i].repo # << >> /\ call.entries[i].tags # << >>
          /\ \A f \in Range(call.entries[i].tags) : ValidTag(f)

\* Of the flags only --dry-run with one of the two sources leads to a filter;
\* with none of them the filter is empty, and not valid.
Accepted == call.dryRun /\ call.policy # call.file

\* newPatchFilterCmd.RunE.
Start ==
    /\ phase = "start"
    /\ \/ phase' = "failed" /\ ~(Accepted /\ ValidateFilter)
       \/ phase' = "entry" /\ Accepted /\ ValidateFilter
    /\ UNCHANGED <<call, entry, listing, answer, tags, changes, ghosts>>

\* The filter cannot be read, from the registry or from the file.
ReadFails ==
    /\ phase = "start" /\ call.faults /\ Accepted
    /\ phase' = "failed"
    /\ UNCHANGED <<call, entry, listing, answer, tags, changes, ghosts>>

-----------------------------------------------------------------------------
(* ApplyFilterAndGetFilteredList. *)

All == Current.tags = Wildcard

NotFound(F) == {[repo |-> Current.repo, tag |-> f] : f \in F}

\* The tags of the filter that are on the list.
Found == {f \in Range(Current.tags) : f \in tagList}

\* The tags of the list that go into tagMap.
Considered ==
    {t \in tagList :
        /\ All \/ \E f \in Found : MatchesTag(f, t)
        /\ IsPatch(t) \/ ~Reserved(t)}

\* One element per tag of tagMap.
Filtered ==
    {LET latest == Latest({t \in Considered : BaseOf(t) = b})
     IN  [repo |-> Current.repo, tag |-> b,
          patch |-> IF latest = b THEN <<NA>> ELSE latest] :
        b \in {BaseOf(t) : t \in Considered}}

\* The text of the three parts with hyphens between them.
Key(r) == r.repo \o r.tag \o r.patch

NextEntry ==
    /\ entry' = entry + 1 /\ phase' = "entry"
    /\ cursor' = 0 /\ tagList' = {}

\* The entry's tags are all listed.
Apply ==
    LET new == {r \in Filtered : Key(r) \notin uniqueFilteredRepos}
    IN  /\ filteredRepos' = filteredRepos \cup new
        /\ uniqueFilteredRepos' = uniqueFilteredRepos \cup {Key(r) : r \in new}
        /\ artifactsNotFound' = artifactsNotFound
                                  \cup NotFound(IF All THEN {} ELSE Range(Current.tags) \ Found)
        /\ NextEntry

\* An entry that is not enabled is passed over.
Skip ==
    /\ phase = "entry" /\ entry \in Entries \ Enabled
    /\ NextEntry
    /\ UNCHANGED <<call, answer, tags, changes, ghosts>>

Begin ==
    /\ phase = "entry" /\ entry \in Enabled
    /\ phase' = "pages"
    /\ stayed' = [stayed EXCEPT ![entry] = tags[Current.repo]]
    /\ ever' = [ever EXCEPT ![entry] = tags[Current.repo]]
    /\ UNCHANGED <<call, entry, listing, answer, tags, changes, erred>>

Finish ==
    /\ phase = "entry" /\ entry \notin Entries
    /\ phase' = "listed"
    /\ UNCHANGED <<call, entry, listing, answer, tags, changes, ghosts>>

-----------------------------------------------------------------------------
(* tag.ListTags: requests until one answers no tags. *)

Later(from) == {i \in DOMAIN Order : i > from /\ Order[i] \in tags[Current.repo]}
FirstOf(S) == {i \in S : Cardinality({j \in S : j < i}) < PageSize}

\* Mutant: lastTag is not passed on.
SamePage == FirstOf(Later(0))

\* Mutant: the first page alone is read.
OnlyPage == IF cursor = 0 THEN FirstOf(Later(0)) ELSE {}

Page == FirstOf(Later(cursor))

ListPage ==
    /\ phase = "pages" /\ Page # {}
    /\ tagList' = tagList \cup {Order[i] : i \in Page}
    /\ cursor' = CHOOSE i \in Page : \A j \in Page : j <= i
    /\ UNCHANGED <<call, phase, entry, answer, tags, changes, ghosts>>

LastPage ==
    /\ phase = "pages" /\ Page = {}
    /\ Apply
    /\ UNCHANGED <<call, tags, changes, ghosts>>

\* The first request of an entry fails: none of its tags is found.  A
\* repository without tags may not exist at all.
FirstFails ==
    /\ phase = "pages" /\ cursor = 0
    /\ call.faults \/ tags[Current.repo] = {}
    /\ artifactsNotFound' = artifactsNotFound \cup NotFound(Range(Current.tags))
    /\ erred' = erred \cup {entry}
    /\ NextEntry
    /\ UNCHANGED <<call, filteredRepos, uniqueFilteredRepos, tags, changes, stayed, ever>>

\* A later one ends the command.
LaterFails ==
    /\ phase = "pages" /\ cursor > 0 /\ call.faults
    /\ phase' = "failed"
    /\ UNCHANGED <<call, entry, listing, answer, tags, changes, ghosts>>

-----------------------------------------------------------------------------
(* External: others push and delete tags. *)

Listing(r) == phase = "pages" /\ Current.repo = r

PushTag(r, t) ==
    /\ phase \in {"entry", "pages"} /\ changes < MaxChanges /\ t \notin tags[r]
    /\ tags' = [tags EXCEPT ![r] = @ \cup {t}]
    /\ ever' = IF Listing(r) THEN [ever EXCEPT ![entry] = @ \cup {t}] ELSE ever
    /\ changes' = changes + 1
    /\ UNCHANGED <<call, phase, entry, listing, answer, stayed, erred>>

DropTag(r, t) ==
    /\ phase \in {"entry", "pages"} /\ changes < MaxChanges /\ t \in tags[r]
    /\ tags' = [tags EXCEPT ![r] = @ \ {t}]
    /\ stayed' = IF Listing(r) THEN [stayed EXCEPT ![entry] = @ \ {t}] ELSE stayed
    /\ changes' = changes + 1
    /\ UNCHANGED <<call, phase, entry, listing, answer, ever, erred>>

-----------------------------------------------------------------------------
Command ==
    \/ Start \/ ReadFails \/ Skip \/ Begin \/ Finish
    \/ ListPage \/ LastPage \/ FirstFails \/ LaterFails

PatchNext ==
    \/ Command
    \/ \E r \in DOMAIN tags, t \in Name : PushTag(r, t) \/ DropTag(r, t)

PatchSpec == PatchInit /\ [][PatchNext]_vars /\ WF_vars(Command)

-----------------------------------------------------------------------------
(* Properties. *)

\* What an entry lists of r.tag, when all that may have been missed is what
\* came or went meanwhile.
IsLatest(r, i) ==
    /\ call.entries[i].repo = r.repo
    /\ IF r.patch = <<NA>> THEN r.tag \in ever[i] ELSE r.patch \in ever[i] /\ PatchOf(r.patch, r.tag)
    /\ \A t \in stayed[i] :
          PatchOf(t, r.tag) => /\ r.patch # <<NA>>
                               /\ Last(t) \in Number => Last(t) <= Last(r.patch)

\* An expression that matches a version of a tag matches all its patches.  It
\* need not, when a dot stands for a hyphen or -patched2 for a suffix.
MatchesAllPatches ==
    \A i \in Enabled : \A f \in Range(call.entries[i].tags) : \A t, u \in Name :
        MatchesTag(f, t) /\ PatchOf(u, BaseOf(t)) => MatchesTag(f, u)

\* The tag listed as the latest patch of a tag was there, and no patch with a
\* higher number was there all the time the repository was listed: paging,
\* the grouping and the order of numbers (not of texts) taken together.
LatestIsHighest ==
    MatchesAllPatches => \A r \in filteredRepos : \E i \in Enabled : IsLatest(r, i)

Accounted(r) == Key(r) \in uniqueFilteredRepos

\* Every tag the entry names is in the answer under its own name if it was
\* there throughout (or its key is taken), and among those not found if it
\* never was; with "*" the same holds of the tag each tag is a version of.
EntryIsAccounted(i) ==
    LET e == call.entries[i]
    IN  IF e.tags = Wildcard
        THEN \A t \in stayed[i] : (IsPatch(t) \/ ~Reserved(t)) =>
                \E p \in ever[i] \cup {<<NA>>} :
                    Accounted([repo |-> e.repo, tag |-> BaseOf(t), patch |-> p])
        ELSE \A f \in Range(e.tags) :
                /\ f \in stayed[i] => \E p \in ever[i] \cup {<<NA>>} :
                      Accounted([repo |-> e.repo, tag |-> f, patch |-> p])
                /\ f \notin ever[i] => [repo |-> e.repo, tag |-> f] \in artifactsNotFound

\* It was missing for a time, or could not be asked for.
IsMissing(m, i) ==
    call.entries[i].repo = m.repo /\ (i \in erred \/ m.tag \notin stayed[i])

\* When the command has listed its answer every entry is accounted for, but
\* those whose listing failed; and only what is missing for one of them is
\* said not to be found.
EveryTagIsAccounted ==
    phase = "listed" =>
        /\ \A i \in Enabled \ erred : EntryIsAccounted(i)
        /\ \A m \in artifactsNotFound : \E i \in Enabled : IsMissing(m, i)

\* The command ends, with an answer or an error, if no more than MaxChanges
\* tags come and go meanwhile.
PatchEnds == <>(phase \in {"listed", "failed"})
=============================================================================
