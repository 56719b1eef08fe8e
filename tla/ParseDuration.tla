---------------------------- MODULE ParseDuration ----------------------------
(***************************************************************************)
(* parseDuration (cmd/acr/purge.go): the value of --ago, "[number]d[rest]" *)
(* or a Go duration, becomes the negative duration that is added to the    *)
(* present to get the cutoff.  Durations are two's complement integers of  *)
(* Width bits: 64 in Go, with a day of 24 hours in nanoseconds.  A value   *)
(* is [days, fits, rest, hasRest]: the number it begins with, 0 without    *)
(* any "d"; whether a "d" follows this number or there is none at all; and *)
(* what is behind.  "1.5d" and "2h1d" do not fit.                          *)
(***************************************************************************)
EXTENDS Integers

CONSTANTS
    Width,   \* the bits of time.Duration
    Day,     \* 24 * time.Hour
    MaxDays, \* maxAgoDurationYears * 365
    TooLarge,\* days: the number does not fit into 64 bits
    NoNumber,\* days: there is a "d", and the value begins with no number
    Invalid, \* rest: ParseDuration's error "invalid duration", also when too long
    BadUnit  \* rest: its errors about a missing or an unknown unit

MaxInt == 2 ^ (Width - 1) - 1
MaxDuration == MaxDays * Day

ParseDurationAssumption ==
    /\ Width \in Nat /\ Width > 1
    /\ Day \in Nat \ {0} /\ MaxDays \in Nat
    /\ MaxInt \in Nat /\ MaxDuration <= MaxInt
    /\ {TooLarge, NoNumber, Invalid, BadUnit} \cap Int = {}
    /\ Invalid # BadUnit
ASSUME ParseDurationAssumption

-----------------------------------------------------------------------------
AgoValue ==
    [days : Int \cup {TooLarge, NoNumber}, fits : BOOLEAN,
     rest : Int \cup {Invalid, BadUnit}, hasRest : BOOLEAN]

\* A sum or a product, in two's complement.
Wrap(x) == ((x + (MaxInt + 1)) % (2 * (MaxInt + 1))) - (MaxInt + 1)

\* Sscanf's errors are dropped: days is 0 when it reads no number, and keeps
\* the number when the "d" does not follow.
Unread(ago) == ago.days \in {TooLarge, NoNumber}
ScannedDays(ago) == IF Unread(ago) THEN 0 ELSE ago.days

Capped(ago) == ScannedDays(ago) > MaxDays

\* Mutant: the days are not capped.
DayPartUncapped(ago) == Wrap(ScannedDays(ago) * Day)

DayPart(ago) == Wrap((IF Capped(ago) THEN MaxDays ELSE ScannedDays(ago)) * Day)

\* The rest is scanned only if the days were, and the "d" behind them.
HasRest(ago) == ago.hasRest /\ ago.fits /\ ~Unread(ago)

\* The rest, when ParseDuration fails and when it does not.
RestPart(ago) == IF ago.rest = Invalid \/ ago.rest > MaxDuration THEN MaxDuration ELSE ago.rest

Combined(ago) ==
    LET sum == Wrap(DayPart(ago) + RestPart(ago))
    IN  IF sum > MaxDuration THEN MaxDuration ELSE sum

ParseFails(ago) == HasRest(ago) /\ ago.rest = BadUnit

\* Of days that were capped a rest that cannot be parsed is ignored.
ParseDuration(ago) ==
    Wrap(-(IF ~HasRest(ago) \/ (ago.rest = Invalid /\ Capped(ago))
           THEN DayPart(ago) ELSE Combined(ago)))

-----------------------------------------------------------------------------
(* What the value of --ago asks for. *)

Number(x) == x \notin {TooLarge, NoNumber, Invalid, BadUnit}

AtMost(x, max) == IF x > max THEN max ELSE x

\* In unbounded integers: days and rest, at most 150 years; a rest that is no
\* duration asks for the maximum.
Intended(ago) ==
    LET days == ago.days * Day
        rest == IF ~ago.hasRest THEN 0 ELSE IF ago.rest = Invalid THEN MaxDuration ELSE ago.rest
    IN  AtMost(days + rest, MaxDuration)

\* Days and rest, each at most the maximum, do not exceed a duration's range.
\* They may: "Make sure the combined duration doesn't exceed max" looks at the
\* sum once it has wrapped, and 150 years and 150 years are out of range.
\* Of a value that does not fit a part is lost.
InRange(ago) ==
    /\ ago.fits /\ Number(ago.days) /\ ago.days >= 0
    /\ ago.hasRest =>
        IF ago.rest = Invalid THEN ago.days = 0 \/ Capped(ago)
        ELSE /\ ago.rest >= 0
             /\ AtMost(ago.days, MaxDays) * Day + AtMost(ago.rest, MaxDuration) <= MaxInt
=============================================================================
