------------------------------ MODULE AcrClient ------------------------------
(***************************************************************************)
(* AcrCLIClient (internal/api/acrsdk.go): the client the commands share,   *)
(* its access token and the token's renewal, which every method starts by  *)
(* itself when the token is close to expiring, also while other tasks of   *)
(* the pool are at the same point; and the requests of the generated       *)
(* client (acr/client.go) with their retries.                              *)
(*                                                                         *)
(* A command creates the client and then runs batches of tasks.  A task is *)
(* a loop of calls, ended by the first that fails: deleteManifests and     *)
(* DeleteTags over their arguments, the loops over pages, a task of the    *)
(* purger.  On an ABAC registry the commands purge, tag and manifest renew *)
(* the token for the repositories of a batch; annotate and cssc do not.    *)
(*                                                                         *)
(* Time counts in ticks.  The token the client holds is always the one in  *)
(* its Authorizer but for the moment between the two writes, and only its  *)
(* refresh token, which never changes, is read, so it has no variable.     *)
(***************************************************************************)
EXTENDS Integers, Sequences, FiniteSets, RegistryOperations

CONSTANTS
    Repo, Item,
    Sessions,      \* the runs of commands to consider
    Life,          \* how long an access token is good
    Margin,        \* the 5 minutes isExpired subtracts
    TryTime,       \* bound: from isExpired, or the renewal, to the answer of the
                   \* first try, and from a token's issue to the writes of it
    RetryAttempts, \* 3
    MaxTime        \* bound: ticks of the clock

Call == [op : Requests, repo : Repo, item : Item]

\* A batch: the repositories the token is renewed for first ({}: it is not),
\* and the tasks that run.
Session ==
    [ bearer  : BOOLEAN,     \* a refresh token was given, not a password
      abac    : BOOLEAN,     \* hasAadIdentityClaim(refreshToken)
      locked  : SUBSET Item, \* items the registry will not delete
      faults  : BOOLEAN,     \* requests may fail, tokens may be unreadable
      batches : Seq([repos : SUBSET Repo, tasks : Seq(Seq(Call))]) ]

ASSUME SessionsAssumption ==
    /\ Sessions \subseteq Session
    /\ \A s \in Sessions : s.abac => s.bearer

\* A try takes at most half of the margin.  Nothing bounds what the pauses
\* before a request is repeated add to it: 30, 60 and 120 seconds, or what a
\* Retry-After asks for.  A token that has just been renewed is not close to
\* expiring, nor is that of another task, which may be older by a try.
ASSUME TimingAssumption ==
    /\ {Life, Margin, TryTime, RetryAttempts, MaxTime} \subseteq Nat
    /\ 2 * TryTime <= Margin /\ TryTime + Margin <= Life

VARIABLES
    session,             \* the command, fixed in the initial state
    now,                 \* the time
    phase,               \* "create", "batch", "run", "ended"
    batch,               \* the batch at hand
    authorizer,          \* AutorestClient.Authorizer: the token sent
    accessTokenExp,      \* when the client takes it to expire
    currentRepositories, \* what automatic renewals ask for on ABAC
    step, pc, held, since, tries, \* of each task, below
    failed,              \* the command returns an error
    present              \* the items of the registry

\* step[t] is the call the task t is at, pc[t] where in it:
\*   "ready", "refresh", "authorizer", "expiry"  isExpired and the renewal,
\*   "prepare", "send"  the request, "done"  the task has ended,
\* held[t] the token it has received or sends, since[t] when it last took the
\* token to be good, tries[t] the tries that failed.
clientVars == <<authorizer, accessTokenExp, currentRepositories>>
taskVars == <<step, pc, held, since, tries>>
commandVars == <<session, phase, batch>>
vars == <<session, now, phase, batch, clientVars, taskVars, failed, present>>

\* An access token: what it gives access to and when it expires.
Token == [repos : SUBSET Repo, catalog : BOOLEAN, exp : 0..(MaxTime + Life)]

Tasks == IF phase = "run" THEN session.batches[batch].tasks ELSE << >>
Task == DOMAIN Tasks
CallOf(t) == Tasks[t][step[t]]

AcrClientTypeOK ==
    /\ session \in Sessions
    /\ now \in 0..MaxTime
    /\ phase \in {"create", "batch", "run", "ended"}
    /\ batch \in 1..(Len(session.batches) + 1)
    /\ authorizer \in Token /\ accessTokenExp \in 0..(MaxTime + Life)
    /\ currentRepositories \subseteq Repo
    /\ \A t \in Task :
        /\ step[t] \in 1..(Len(Tasks[t]) + 1)
        /\ pc[t] \in {"ready", "refresh", "authorizer", "expiry", "prepare", "send", "done"}
        /\ held[t] \in Token /\ since[t] \in 0..now /\ tries[t] \in 0..RetryAttempts
    /\ failed \in BOOLEAN /\ present \subseteq Item

\* A password: nothing expires.
Password == [repos |-> Repo, catalog |-> TRUE, exp |-> MaxTime + Life]

AcrClientInit ==
    /\ session \in Sessions
    /\ now = 0 /\ phase = "create" /\ batch = 1
    /\ authorizer = Password /\ accessTokenExp = 0 /\ currentRepositories = {}
    /\ step = << >> /\ pc = << >> /\ held = << >> /\ since = << >> /\ tries = << >>
    /\ failed = FALSE /\ present = Item

-----------------------------------------------------------------------------
(***************************************************************************)
(* The command: one actor, no request is under way.                        *)
(***************************************************************************)
\* On an ABAC registry the server ignores wildcards.
Wildcard(catalog) ==
    [repos |-> IF session.abac THEN {} ELSE Repo, catalog |-> catalog, exp |-> now + Life]

Scoped(repos) == [repos |-> repos, catalog |-> FALSE, exp |-> now + Life]

\* newAcrCLIClientWithBearerAuth or newAcrCLIClientWithBasicAuth.
Create ==
    /\ phase = "create" /\ phase' = "batch"
    /\ IF session.bearer
       THEN authorizer' = Wildcard(TRUE) /\ accessTokenExp' = now + Life
       ELSE UNCHANGED <<authorizer, accessTokenExp>>
    /\ UNCHANGED <<session, now, batch, currentRepositories, taskVars, failed, present>>

\* The token cannot be had or read: there is no client.
CreateFails ==
    /\ phase = "create" /\ session.bearer /\ session.faults
    /\ phase' = "ended" /\ failed' = TRUE
    /\ UNCHANGED <<session, now, batch, clientVars, taskVars, present>>

StartTasks(tasks) ==
    /\ step' = [t \in DOMAIN tasks |-> 1]
    /\ pc' = [t \in DOMAIN tasks |-> "ready"]
    /\ held' = [t \in DOMAIN tasks |-> authorizer']
    /\ since' = [t \in DOMAIN tasks |-> now]
    /\ tries' = [t \in DOMAIN tasks |-> 0]

RenewsScope == session.abac /\ session.batches[batch].repos # {}

\* RefreshTokenForAbac, where the command calls it, and the tasks of the batch.
StartBatch ==
    LET b == session.batches[batch]
    IN  /\ phase = "batch" /\ batch <= Len(session.batches)
        /\ IF RenewsScope
           THEN /\ authorizer' = Scoped(b.repos)
                /\ accessTokenExp' = now + Life
                /\ currentRepositories' = b.repos
           ELSE UNCHANGED clientVars
        /\ StartTasks(b.tasks)
        /\ phase' = "run"
        /\ UNCHANGED <<session, now, batch, failed, present>>

\* The request fails, or the new token, in use by then, cannot be read.
ScopeFails ==
    /\ phase = "batch" /\ batch <= Len(session.batches) /\ session.faults
    /\ RenewsScope
    /\ currentRepositories' = session.batches[batch].repos
    /\ authorizer' \in {authorizer, Scoped(session.batches[batch].repos)}
    /\ phase' = "ended" /\ failed' = TRUE
    /\ UNCHANGED <<session, now, batch, accessTokenExp, taskVars, present>>

\* The tasks of the batch have all ended.
EndBatch ==
    /\ phase = "run" /\ \A t \in Task : pc[t] = "done"
    /\ IF failed THEN phase' = "ended" ELSE phase' = "batch"
    /\ batch' = batch + 1
    /\ step' = << >> /\ pc' = << >> /\ held' = << >> /\ since' = << >> /\ tries' = << >>
    /\ UNCHANGED <<session, now, clientVars, failed, present>>

EndCommand ==
    /\ phase = "batch" /\ batch > Len(session.batches)
    /\ phase' = "ended"
    /\ UNCHANGED <<session, now, batch, clientVars, taskVars, failed, present>>

-----------------------------------------------------------------------------
(***************************************************************************)
(* A call of a task: the token.                                            *)
(***************************************************************************)
\* Mutant: the token is used up to the end.
IsExpiredLate == session.bearer /\ now > accessTokenExp

IsExpired == session.bearer /\ now + Margin > accessTokenExp

\* The catalog is read through AutorestClient, without a look at the token.
StartCall(t) ==
    /\ pc[t] = "ready" /\ step[t] <= Len(Tasks[t])
    /\ pc' = [pc EXCEPT ![t] =
                IF IsExpired /\ CallOf(t).op # GetRepositories THEN "refresh" ELSE "prepare"]
    /\ since' = [since EXCEPT ![t] = now]
    /\ UNCHANGED <<commandVars, now, clientVars, step, held, tries, failed, present>>

\* Mutant: the renewed token is good for the repository at hand only.
RefreshedForOne(repoName) == IF session.abac THEN Scoped({repoName}) ELSE Wildcard(FALSE)

Refreshed(repoName) ==
    IF session.abac THEN Scoped(currentRepositories \cup {repoName}) ELSE Wildcard(FALSE)

\* refreshAcrCLIClientToken: the answer of GetAcrAccessToken, ...
ReceiveToken(t) ==
    /\ pc[t] = "refresh"
    /\ held' = [held EXCEPT ![t] = Refreshed(CallOf(t).repo)]
    /\ pc' = [pc EXCEPT ![t] = "authorizer"]
    /\ UNCHANGED <<commandVars, now, clientVars, step, since, tries, failed, present>>

\* Mutant: the expiry is written before the token.
ExpiryBeforeAuthorizer(t) ==
    /\ \/ /\ pc[t] = "authorizer"
          /\ accessTokenExp' = held[t].exp
          /\ pc' = [pc EXCEPT ![t] = "expiry"]
          /\ UNCHANGED <<authorizer, since>>
       \/ /\ pc[t] = "expiry"
          /\ authorizer' = held[t]
          /\ pc' = [pc EXCEPT ![t] = "prepare"] /\ since' = [since EXCEPT ![t] = now]
          /\ UNCHANGED accessTokenExp
    /\ UNCHANGED <<commandVars, now, currentRepositories, step, held, tries, failed, present>>

\* ... its two writes; tasks that renew the token at once interleave here.
WriteToken(t) ==
    /\ \/ /\ pc[t] = "authorizer"
          /\ authorizer' = held[t]
          /\ pc' = [pc EXCEPT ![t] = "expiry"]
          /\ UNCHANGED <<accessTokenExp, since>>
       \/ /\ pc[t] = "expiry"
          /\ accessTokenExp' = held[t].exp
          /\ pc' = [pc EXCEPT ![t] = "prepare"] /\ since' = [since EXCEPT ![t] = now]
          /\ UNCHANGED authorizer
    /\ UNCHANGED <<commandVars, now, currentRepositories, step, held, tries, failed, present>>

Stop(t) ==
    /\ pc' = [pc EXCEPT ![t] = "done"] /\ failed' = TRUE
    /\ UNCHANGED <<step, held, since, tries>>

\* The token is not granted, or, in use already, cannot be read.
RefreshFails(t) ==
    /\ session.faults /\ pc[t] \in {"refresh", "expiry"}
    /\ Stop(t)
    /\ UNCHANGED <<commandVars, now, clientVars, present>>

-----------------------------------------------------------------------------
(***************************************************************************)
(* A call of a task: the request.                                          *)
(***************************************************************************)
\* The method of AutorestClient gets a copy of it, with the token of now.
Prepare(t) ==
    /\ pc[t] = "prepare"
    /\ held' = [held EXCEPT ![t] = authorizer]
    /\ tries' = [tries EXCEPT ![t] = 0]
    /\ pc' = [pc EXCEPT ![t] = "send"]
    /\ UNCHANGED <<commandVars, now, clientVars, step, since, failed, present>>

Covers(token, c) ==
    now <= token.exp /\ (IF c.op = GetRepositories THEN token.catalog ELSE c.repo \in token.repos)

\* What the registry answers to call c.
StatusOf(c, token) ==
    IF ~Covers(token, c) THEN 401
    ELSE IF c.op.names \in {"catalog", "tags", "manifests"} THEN 200
    ELSE IF c.item \notin present THEN 404
    ELSE IF c.op.verb # "DELETE" THEN 200
    ELSE IF c.item \in session.locked THEN 405
    ELSE 202

After(c, token) ==
    IF c.op.verb = "DELETE" /\ StatusOf(c, token) = 202 THEN present \ {c.item} ELSE present

\* Mutant: the loop goes on when a call fails.
AnswerIgnored(t) ==
    LET c == CallOf(t)
    IN  /\ pc[t] = "send"
        /\ present' = After(c, held[t])
        /\ failed' = (failed \/ StatusOf(c, held[t]) \notin c.op.accepted)
        /\ step' = [step EXCEPT ![t] = @ + 1] /\ pc' = [pc EXCEPT ![t] = "ready"]
        /\ UNCHANGED <<commandVars, now, clientVars, held, since, tries>>

\* The registry's answer: the next call of the task is next, or the task stops.
Answer(t) ==
    LET c == CallOf(t)
    IN  /\ pc[t] = "send"
        /\ present' = After(c, held[t])
        /\ IF StatusOf(c, held[t]) \in c.op.accepted
           THEN /\ step' = [step EXCEPT ![t] = @ + 1] /\ pc' = [pc EXCEPT ![t] = "ready"]
                /\ UNCHANGED <<held, since, tries, failed>>
           ELSE Stop(t)
        /\ UNCHANGED <<commandVars, now, clientVars>>

\* Mutant: the call starts over when a try fails.
TryFailsStartsOver(t) ==
    /\ session.faults /\ pc[t] = "send"
    /\ present' \in {present, After(CallOf(t), held[t])}
    /\ pc' = [pc EXCEPT ![t] = "ready"]
    /\ UNCHANGED <<commandVars, now, clientVars, step, held, since, tries, failed>>

\* The connection fails or the answer is 408, 429, 500, 502, 503 or 504,
\* whether or not the request took effect: it is sent again as it is.
TryFails(t) ==
    /\ session.faults /\ pc[t] = "send"
    /\ present' \in {present, After(CallOf(t), held[t])}
    /\ IF tries[t] < RetryAttempts
       THEN /\ tries' = [tries EXCEPT ![t] = @ + 1]
            /\ UNCHANGED <<step, pc, held, since, failed>>
       ELSE Stop(t)
    /\ UNCHANGED <<commandVars, now, clientVars>>

EndTask(t) ==
    /\ pc[t] = "ready" /\ step[t] > Len(Tasks[t])
    /\ pc' = [pc EXCEPT ![t] = "done"]
    /\ UNCHANGED <<commandVars, now, clientVars, step, held, since, tries, failed, present>>

-----------------------------------------------------------------------------
\* The first try of the request is under way, or about to be.
FirstTry(t) == pc[t] = "prepare" \/ (pc[t] = "send" /\ tries[t] = 0)

\* Time passes, but no try takes longer than its bound.
Tick ==
    /\ now < MaxTime /\ phase # "ended"
    /\ \A t \in Task :
        /\ pc[t] \in {"authorizer", "expiry"} => now + Life < held[t].exp + TryTime
        /\ FirstTry(t) => now < since[t] + TryTime
    /\ now' = now + 1
    /\ UNCHANGED <<commandVars, clientVars, taskVars, failed, present>>

CommandStep == Create \/ StartBatch \/ EndBatch \/ EndCommand

CallStep(t) ==
    StartCall(t) \/ ReceiveToken(t) \/ WriteToken(t) \/ Prepare(t) \/ Answer(t) \/ EndTask(t)

Fault == CreateFails \/ ScopeFails \/ \E t \in Task : RefreshFails(t) \/ TryFails(t)

AcrClientNext == CommandStep \/ Fault \/ Tick \/ \E t \in Task : CallStep(t)

\* The command and its tasks go on; requests that do not fail are answered.
AcrClientSpec ==
    /\ AcrClientInit /\ [][AcrClientNext]_vars
    /\ WF_vars(CommandStep \/ Fault \/ \E t \in Task : CallStep(t))

-----------------------------------------------------------------------------
(***************************************************************************)
(* Properties.                                                             *)
(***************************************************************************)
Sends(t) == pc[t] = "send"

\* A request begins with a token that is good for isExpired's margin less the
\* time of a try, whatever the other tasks do to the token between the look
\* at its expiry and the copy that is sent.  (The catalog is read without that
\* look.)
MarginIsKept ==
    \A t \in Task : Sends(t) /\ CallOf(t).op # GetRepositories =>
        since[t] + Margin <= held[t].exp + TryTime

\* No request is sent with a token that has expired (isExpired: "5 minutes are
\* subtracted to make sure that there won't be a case were a client with an
\* expired token tries doing a request").
NoExpiredToken ==
    \A t \in Task : Sends(t) /\ CallOf(t).op # GetRepositories => now <= held[t].exp

\* Tasks that renew the token at the same time may leave the token of one
\* with the expiry of another, but only one that is at most the time of a
\* try too late, however long their renewals take.
ExpiryIsHonest ==
    session.bearer => accessTokenExp <= authorizer.exp + TryTime

\* On an ABAC registry a request to a repository the command has asked for
\* carries a token that is good for it, also after automatic renewals.
TokenCoversRequest ==
    \A t \in Task :
        Sends(t) /\ CallOf(t).repo \in currentRepositories => CallOf(t).repo \in held[t].repos

\* Every command has asked for the repositories it accesses, as the comment
\* on newAcrCLIClientWithBearerAuth demands of the callers.
CallersRenewScope ==
    \A t \in Task : Sends(t) /\ CallOf(t).op # GetRepositories => CallOf(t).repo \in held[t].repos

\* The items a loop of deletes has passed are gone and those behind the call
\* that failed are untouched.
DeletesInOrder ==
    \A t \in Task : \A i \in 1..Len(Tasks[t]) :
        Tasks[t][i].op.verb = "DELETE" =>
            /\ i < step[t] => Tasks[t][i].item \notin present
            /\ i > step[t] => Tasks[t][i].item \in present

\* Where no request is repeated, one for an item that is not locked, to a
\* repository the command has asked for, is accepted whenever it arrives,
\* however long the command takes and whatever its other tasks do: not refused
\* for its token, and not taken for an error when the registry has done what
\* it asks.
RequestsAreAccepted ==
    ~session.faults /\ session.locked = {} =>
        \A t \in Task :
            LET c == CallOf(t)
            IN  Sends(t) /\ c.op # GetRepositories => StatusOf(c, held[t]) \in c.op.accepted

\* A command ends: a request is tried a bounded number of times.
CommandEnds == <>(phase = "ended")
=============================================================================
