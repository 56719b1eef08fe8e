--------------------------- MODULE MCPurgeCommand ---------------------------
(* Commands that purge in batches of two, of up to five repositories, one  *)
(* of which may be named "catalog"; and one command for each value of      *)
(* --ago, in a registry without repositories.  Durations have eight bits,  *)
(* with a day of five units and at most 13 days: in proportion to 64 bits  *)
(* and 150 years, where one maximum is 0.513 of the range and the sum of   *)
(* two is out of it.                                                       *)
EXTENDS PurgeCommand

CONSTANTS app, cache, catalog, tool, any

App == <<app>>
AppCache == <<app, cache>>
Catalog == <<catalog>>
Tool == <<tool>>
ToolCache == <<tool, cache>>

SortedNames == <<App, AppCache, Catalog, Tool, ToolCache>>
CatalogName == Catalog
AnyName == <<any>>

F(rs, t) == [repos |-> rs, tag |-> t, colons |-> 1]

Days == (0 .. MaxDays + 3) \cup {-26, -25, -1, 127}
Rests == (-6 .. 6) \cup (55 .. 70) \cup {-128, 127}

ReadableAgos ==
    [days : Days, fits : {TRUE}, rest : Rests, hasRest : BOOLEAN]
    \cup [days : {0, 5, MaxDays, MaxDays + 1}, fits : {TRUE}, rest : {Invalid}, hasRest : {TRUE}]
    \cup [days : {0, 5}, fits : {TRUE}, rest : {BadUnit}, hasRest : {TRUE}]

\* "1.5d", "2h1d", and numbers that cannot be read.
PartlyReadAgos ==
    [days : {1, 2}, fits : {FALSE}, rest : {0, 5, Invalid, BadUnit}, hasRest : BOOLEAN]
    \cup [days : {TooLarge, NoNumber}, fits : BOOLEAN, rest : {0, 5}, hasRest : BOOLEAN]

AllAgos == ReadableAgos \cup PartlyReadAgos

Week == [days |-> 7, fits |-> TRUE, rest |-> 0, hasRest |-> FALSE]

Base ==
    [ filters |-> <<F(<<AnyName>>, "old")>>, hasAgo |-> TRUE, ago |-> Week,
      untagged |-> TRUE, untaggedOnly |-> FALSE, abac |-> TRUE,
      repositories |-> {App, Catalog, Tool} ]

Refused ==
    {[Base EXCEPT !.filters = << >>], [Base EXCEPT !.hasAgo = FALSE],
     [Base EXCEPT !.untaggedOnly = TRUE],
     [Base EXCEPT !.filters[1].colons = 2], [Base EXCEPT !.filters[1].repos = << >>],
     [Base EXCEPT !.filters = <<F(<<App>>, "old"), F(<<Tool>>, "")>>]}

Selections ==
    { <<F(<<AnyName>>, "old"), F(<<App>>, "dev")>>,
      <<F(<<App>>, "dev"), F(<<Tool>>, "old"), F(<<App>>, "old")>>,
      <<F(<<App, Tool>>, "old")>> }

Purges ==
    {[Base EXCEPT !.filters = fs, !.abac = b, !.untagged = b] :
        fs \in Selections, b \in BOOLEAN}
    \cup {[Base EXCEPT !.filters = fs, !.untagged = FALSE, !.untaggedOnly = TRUE, !.hasAgo = h,
                       !.repositories = {App, AppCache, Tool, ToolCache}] :
            fs \in {<< >>, <<F(<<App, Tool>>, "old")>>}, h \in BOOLEAN}
    \cup {[Base EXCEPT !.repositories = Range(Names), !.untagged = FALSE]}

AllCommands ==
    Refused \cup Purges \cup {[Base EXCEPT !.repositories = {}, !.ago = x] : x \in AllAgos}
=============================================================================
