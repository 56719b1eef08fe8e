---------------------------- MODULE PurgeCommand ----------------------------
(***************************************************************************)
(* acr purge (newPurgeCmd, cmd/acr/purge.go): the flags are checked, --ago *)
(* is parsed, the names of the repositories are listed page by page while  *)
(* others create and delete repositories, the filters select some of them  *)
(* (CollectTagFilters, cmd/repository/image_functions.go), and purge, of   *)
(* module Purge, runs over these.                                          *)
(*                                                                         *)
(* A name is a sequence of parts.  The repository expression of a filter   *)
(* is the sequence of its alternatives, each the text of parts or          *)
(* Anything, for ".*"; it is malformed when the filter has not one colon.  *)
(***************************************************************************)
EXTENDS Purge, ParseDuration, SequencesExt

CONSTANTS
    Commands,        \* the commands to consider
    Names,           \* the names of repositories there may be, sorted
    Sentinel,        \* the name "catalog"
    Anything,
    PageSize,        \* --repository-page-size
    MaxChanges       \* bound on the repositories created and deleted meanwhile

ASSUME PurgeCommandAssumption ==
    /\ PageSize \in Nat \ {0} /\ MaxChanges \in Nat
    /\ Names \in Seq(Range(Names))
    /\ \A c \in Commands :
          /\ {c.hasAgo, c.untagged, c.untaggedOnly, c.abac} \subseteq BOOLEAN
          /\ c.repositories \subseteq Range(Names)
          /\ c.filters \in Seq(Range(c.filters))
          /\ \A f \in Range(c.filters) : f.repos \in Seq(Range(f.repos))
          /\ c.ago \in AgoValue

VARIABLES
    command,      \* the flags and what the registry holds at first
    agoDuration,
    repositories, \* the repositories of the registry now
    lastName,     \* the position of lastName in Names, 0 at first
    allRepoNames,
    tagFilters,   \* for each repository selected, the filters that did, in order
    changes,
    stayed,       \* ghost: the repositories there from the first request on,
    ever          \*        and those there at some time since

commandVars == <<command, agoDuration, repositories, lastName, allRepoNames, tagFilters,
                 changes, stayed, ever>>
vars == <<purgeVars, commandVars>>

Filters == command.filters

PurgeCommandInit ==
    /\ command \in Commands
    /\ agoDuration = 0
    /\ repositories = command.repositories
    /\ lastName = 0 /\ allRepoNames = {} /\ tagFilters = << >>
    /\ changes = 0 /\ stayed = {} /\ ever = {}
    /\ call = [repos |-> 0, catalog |-> {}, abac |-> command.abac, untaggedOnly |-> FALSE,
               removeUntagged |-> FALSE]
    /\ pc = "flags" /\ start = 0 /\ at = 0 /\ scope = {}
    /\ tagsGone = << >> /\ manifestsGone = << >>
    /\ single = 0 /\ tagsCount = 0 /\ manifestsCount = 0
    /\ completed = << >> /\ remaining = << >> /\ error = "none"

Fails(err) ==
    /\ pc' = "returned" /\ error' = err
    /\ UNCHANGED <<call, start, at, scope, goneVars, countVars, remaining>>

Goes(to) ==
    /\ pc' = to
    /\ UNCHANGED <<call, start, at, scope, goneVars, countVars, remaining, error>>

-----------------------------------------------------------------------------
(* RunE until the repositories are listed. *)

\* cobra: one of --filter and --untagged-only, and not both of --untagged and
\* --untagged-only; RunE: without --untagged-only both --filter and --ago.
FlagsOK ==
    /\ Filters # << >> \/ command.untaggedOnly
    /\ ~(command.untagged /\ command.untaggedOnly)
    /\ ~command.untaggedOnly => Filters # << >> /\ command.hasAgo

AgoFails == command.hasAgo /\ ParseFails(command.ago)

\* An absent --ago is the duration 0.
Ago == IF command.hasAgo THEN ParseDuration(command.ago) ELSE 0

CheckFlags ==
    /\ pc = "flags" /\ FlagsOK /\ ~AgoFails
    /\ agoDuration' = Ago
    /\ stayed' = repositories /\ ever' = repositories
    /\ Goes("catalog")
    /\ UNCHANGED <<command, repositories, lastName, allRepoNames, tagFilters, changes>>

\* The flags are refused, or no client can be made.
RefuseFlags ==
    /\ pc = "flags"
    /\ ~FlagsOK \/ AgoFails \/ Faults
    /\ Fails("flags")
    /\ UNCHANGED commandVars

-----------------------------------------------------------------------------
(* GetAllRepositoryNames: requests until one answers no names. *)

After(from) == {i \in DOMAIN Names : i > from /\ Names[i] \in repositories}
FirstOf(S) == {i \in S : Cardinality({j \in S : j < i}) < PageSize}

Page == FirstOf(After(lastName))

ListPage ==
    /\ pc = "catalog" /\ Page # {}
    /\ allRepoNames' = allRepoNames \cup {Names[i] : i \in Page}
    /\ lastName' = CHOOSE i \in Page : \A j \in Page : j <= i
    /\ UNCHANGED <<purgeVars, command, agoDuration, repositories, tagFilters, changes, stayed, ever>>

ListEnds ==
    /\ pc = "catalog" /\ Page = {}
    /\ Goes("filters")
    /\ UNCHANGED commandVars

ListFails ==
    /\ pc = "catalog" /\ Faults
    /\ Fails("catalog")
    /\ UNCHANGED commandVars

-----------------------------------------------------------------------------
(* CollectTagFilters. *)

\* Mutant: the expression is not anchored.
MatchesWithin(f, n) ==
    \E k \in DOMAIN f.repos :
        f.repos[k] = Anything \/ \E i, j \in DOMAIN n : SubSeq(n, i, j) = f.repos[k]

\* GetMatchingRepos with "^" + expression + "$": of several alternatives the
\* first is anchored in front only, the last behind only.
MatchesFilter(f, n) ==
    LET m == Len(f.repos)
    IN  \E k \in 1 .. m :
            \/ f.repos[k] = Anything
            \/ f.repos[k] = n
            \/ k = 1 /\ m > 1 /\ IsPrefix(f.repos[k], n)
            \/ k = m /\ m > 1 /\ IsSuffix(f.repos[k], n)
            \/ k > 1 /\ k < m /\ \E i, j \in DOMAIN n : SubSeq(n, i, j) = f.repos[k]

\* GetRepositoryAndTagRegex
WellFormed(f) == f.colons = 1 /\ f.repos # << >> /\ f.tag # ""

\* With --untagged-only and no filter every repository has an empty filter.
AllSelected == command.untaggedOnly /\ Filters = << >>

\* The positions of S in increasing order.
InOrder(S) ==
    [k \in 1..Cardinality(S) |-> CHOOSE i \in S : Cardinality({j \in S : j < i}) = k - 1]

Hits(n) == InOrder({k \in DOMAIN Filters : MatchesFilter(Filters[k], n)})

\* Mutant: of several filters of a repository the last one counts.
FiltersOfLast(n) == IF AllSelected \/ Hits(n) = << >> THEN << >> ELSE <<Filters[Last(Hits(n))].tag>>

\* The tag expressions of the filters that match, with "|" between them.
FiltersOf(n) == IF AllSelected THEN << >> ELSE [k \in DOMAIN Hits(n) |-> Filters[Hits(n)[k]].tag]

Selected ==
    IF AllSelected THEN allRepoNames
    ELSE {n \in allRepoNames : \E k \in DOMAIN Filters : MatchesFilter(Filters[k], n)}

\* The names in tagFilters, sorted.
repos ==
    LET positions == InOrder({i \in DOMAIN Names : Names[i] \in DOMAIN tagFilters})
    IN  [k \in DOMAIN positions |-> Names[positions[k]]]

\* The filters select the repositories.
CollectTagFilters ==
    /\ pc = "filters"
    /\ \A k \in DOMAIN Filters : WellFormed(Filters[k])
    /\ tagFilters' = [n \in Selected |-> FiltersOf(n)]
    /\ Goes("purge")
    /\ UNCHANGED <<command, agoDuration, repositories, lastName, allRepoNames, changes, stayed, ever>>

\* A filter cannot be read, or takes too long to match a name: Filters has it
\* as one that is not well-formed.
BadFilter ==
    /\ pc = "filters"
    /\ \E k \in DOMAIN Filters : ~WellFormed(Filters[k])
    /\ Fails("filters")
    /\ UNCHANGED commandVars

StartPurge ==
    /\ pc = "purge"
    /\ Begins([repos |-> Len(repos), catalog |-> {i \in DOMAIN repos : repos[i] = Sentinel},
               abac |-> command.abac, untaggedOnly |-> command.untaggedOnly,
               removeUntagged |-> command.untagged \/ command.untaggedOnly])
    /\ UNCHANGED commandVars

-----------------------------------------------------------------------------
(* External: others create and delete repositories. *)

Create(n) ==
    /\ pc = "catalog" /\ changes < MaxChanges /\ n \notin repositories
    /\ repositories' = repositories \cup {n} /\ ever' = ever \cup {n}
    /\ changes' = changes + 1
    /\ UNCHANGED <<purgeVars, command, agoDuration, lastName, allRepoNames, tagFilters, stayed>>

Delete(n) ==
    /\ pc = "catalog" /\ changes < MaxChanges /\ n \in repositories
    /\ repositories' = repositories \ {n} /\ stayed' = stayed \ {n}
    /\ changes' = changes + 1
    /\ UNCHANGED <<purgeVars, command, agoDuration, lastName, allRepoNames, tagFilters, ever>>

-----------------------------------------------------------------------------
Command ==
    \/ CheckFlags \/ RefuseFlags \/ ListPage \/ ListEnds \/ ListFails
    \/ CollectTagFilters \/ BadFilter \/ StartPurge
    \/ PurgeNext /\ UNCHANGED commandVars

PurgeCommandNext == Command \/ \E n \in Range(Names) : Create(n) \/ Delete(n)

\* Each call returns.
PurgeCommandSpec == PurgeCommandInit /\ [][PurgeCommandNext]_vars /\ WF_vars(Command)

-----------------------------------------------------------------------------
(* Properties. *)

\* --ago is read as it is meant, with its caps, when it is "[days]d[rest]" or
\* a duration, not negative, and its sum does not overflow (parseDuration);
\* it may be absent only with --untagged-only, and is then no time at all.
ReadAsIntended ==
    pc \notin {"flags", "returned"} =>
        /\ command.hasAgo /\ InRange(command.ago) => agoDuration = -Intended(command.ago)
        /\ ~command.hasAgo => agoDuration = 0 /\ command.untaggedOnly

Succeeded == pc = "returned" /\ error = "none"

\* A command that reports no error has purged every repository that matches
\* one of its filters and was there all the time the names were listed, each
\* with the tag expressions of these filters and no other: the expression of
\* each is at the place the filter has among those that match.
SuccessIsComplete ==
    Succeeded =>
        \A n \in stayed :
            LET M == {k \in DOMAIN Filters : MatchesFilter(Filters[k], n)}
            IN  AllSelected \/ M # {} =>
                /\ \E k \in DOMAIN completed : repos[completed[k]] = n
                /\ Len(tagFilters[n]) = Cardinality(M)
                /\ \A k \in M :
                      tagFilters[n][Cardinality({l \in M : l <= k})] = Filters[k].tag

\* Nothing is deleted in a repository that no filter names: by a filter with
\* one alternative, the repository of that name; by one with more, those that
\* begin or end with an alternative; and without --untagged-only no filter at
\* all selects nothing.
OnlySelectedAreTouched ==
    \A r \in DOMAIN tagsGone : tagsGone[r] + manifestsGone[r] > 0 =>
        \/ AllSelected
        \/ \E k \in DOMAIN Filters : LET f == Filters[k] IN
              \/ \E a \in DOMAIN f.repos : f.repos[a] \in {Anything, repos[r]}
              \/ Len(f.repos) > 1 /\ MatchesFilter(f, repos[r])
=============================================================================
