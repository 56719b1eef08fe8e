--------------------------- MODULE AcrClientProofs ---------------------------
(***************************************************************************)
(* The safety properties of the client, for every session, any number of   *)
(* tasks, any bounds of the clock that satisfy TimingAssumption and every  *)
(* interleaving of renewals, requests and faults.                          *)
(***************************************************************************)
EXTENDS AcrClient, TLAPS

USE SessionsAssumption, TimingAssumption

-----------------------------------------------------------------------------
(***************************************************************************)
(* Facts about the requests and the sessions.                              *)
(***************************************************************************)
LEMMA RequestsAreOperations == Requests \subseteq Operation
  BY DEF Requests, Operation, Status, GetRepositories, GetAcrTags, GetAcrManifests,
         GetManifest, GetAcrManifestAttributes, UpdateAcrTagAttributes,
         UpdateAcrManifestAttributes, DeleteAcrTag, DeleteManifest

\* A delete accepts no other answer of the registry than 202, every other
\* request accepts 200, and only the catalog's is read without a token check.
LEMMA RequestFacts ==
  ASSUME NEW op \in Requests
  PROVE  /\ op.verb = "DELETE" => op.names \in {"tag", "manifest"}
         /\ op.verb = "DELETE" => op.accepted = {200, 202}
         /\ 200 \in op.accepted
         /\ 404 \notin op.accepted /\ 405 \notin op.accepted /\ 401 \notin op.accepted
         /\ op # GetRepositories => op.names # "catalog"
  BY DEF Requests, GetRepositories, GetAcrTags, GetAcrManifests,
         GetManifest, GetAcrManifestAttributes, UpdateAcrTagAttributes,
         UpdateAcrManifestAttributes, DeleteAcrTag, DeleteManifest

\* What a sequence over a set is, for sequences of sequences.
LEMMA SequenceFacts ==
  ASSUME NEW S, NEW q \in Seq(S)
  PROVE  /\ Len(q) \in Nat
         /\ DOMAIN q = 1..Len(q)
         /\ \A i \in 1..Len(q) : q[i] \in S
  OBVIOUS

\* The batches of a session, their tasks and the calls of those.
LEMMA SessionFacts ==
  ASSUME NEW s \in Sessions
  PROVE  /\ s.bearer \in BOOLEAN /\ s.abac \in BOOLEAN /\ s.faults \in BOOLEAN
         /\ s.abac => s.bearer
         /\ Len(s.batches) \in Nat
         /\ \A b \in 1..Len(s.batches) :
             /\ s.batches[b].repos \subseteq Repo
             /\ DOMAIN s.batches[b].tasks \subseteq Nat
             /\ \A t \in DOMAIN s.batches[b].tasks :
                 /\ Len(s.batches[b].tasks[t]) \in Nat
                 /\ \A i \in 1..Len(s.batches[b].tasks[t]) : s.batches[b].tasks[t][i] \in Call
<1> DEFINE Batches == [repos : SUBSET Repo, tasks : Seq(Seq(Call))]
<1>1. /\ s \in Session
      /\ s.abac => s.bearer
    OBVIOUS
<1>2. /\ s.bearer \in BOOLEAN /\ s.abac \in BOOLEAN /\ s.faults \in BOOLEAN
      /\ s.batches \in Seq(Batches)
    BY <1>1 DEF Session
<1>3. /\ Len(s.batches) \in Nat
      /\ \A b \in 1..Len(s.batches) : s.batches[b] \in Batches
  <2> HIDE DEF Batches
  <2> QED
      BY <1>2, SequenceFacts
<1>4. ASSUME NEW b \in 1..Len(s.batches)
      PROVE  /\ s.batches[b].repos \subseteq Repo
             /\ s.batches[b].tasks \in Seq(Seq(Call))
    BY <1>3
<1>5. ASSUME NEW b \in 1..Len(s.batches), NEW t \in DOMAIN s.batches[b].tasks
      PROVE  /\ Len(s.batches[b].tasks[t]) \in Nat
             /\ \A i \in 1..Len(s.batches[b].tasks[t]) : s.batches[b].tasks[t][i] \in Call
  <2>1. s.batches[b].tasks[t] \in Seq(Call)
      BY <1>4, SequenceFacts
  <2> QED
      BY <2>1, SequenceFacts
<1>6. ASSUME NEW b \in 1..Len(s.batches)
      PROVE  DOMAIN s.batches[b].tasks \subseteq Nat
  <2>1. DOMAIN s.batches[b].tasks = 1..Len(s.batches[b].tasks) /\ Len(s.batches[b].tasks) \in Nat
      BY <1>4, SequenceFacts
  <2> QED
      BY <2>1
<1> QED
    BY <1>1, <1>2, <1>3, <1>4, <1>5, <1>6, Zenon

-----------------------------------------------------------------------------
(***************************************************************************)
(* The inductive invariant.                                                *)
(***************************************************************************)
Renewing == {"refresh", "authorizer", "expiry"}
Requesting == {"prepare", "send"}

\* A task that is in a call is at a call of its batch.
TypeInv ==
    /\ AcrClientTypeOK
    /\ phase = "run" => batch \in 1..Len(session.batches)
    /\ step \in [Task -> Nat]
    /\ pc \in [Task -> Renewing \cup Requesting \cup {"ready", "done"}]
    /\ held \in [Task -> Token]
    /\ since \in [Task -> Nat]
    /\ tries \in [Task -> Nat]
    /\ \A t \in Task : pc[t] \notin {"ready", "done"} => step[t] \in 1..Len(Tasks[t])

\* With a password nothing expires and nothing is renewed.
PasswordInv ==
    ~session.bearer =>
        /\ authorizer = Password
        /\ \A t \in Task : /\ pc[t] \notin Renewing
                           /\ pc[t] = "send" => held[t] = Password

Writing == {"authorizer", "expiry"}

\* The bounds of a try: a token is issued and written, a request is answered.
\* Without faults there is no other try.
ClockInv ==
    \A t \in Task :
        /\ pc[t] \in Writing => now + Life <= held[t].exp + TryTime
        /\ FirstTry(t) => now <= since[t] + TryTime
        /\ ~session.faults => tries[t] = 0

\* A token that a task is about to write is as fresh as its try, so two that
\* are written at once differ by the time of a try.
RenewalInv ==
    /\ accessTokenExp <= now + Life
    /\ session.bearer => accessTokenExp <= authorizer.exp + TryTime
    /\ \A t \in Task :
        /\ pc[t] \in Writing => held[t].exp <= now + Life
        /\ pc[t] = "expiry" => held[t].exp <= authorizer.exp + TryTime

\* What is sent, and what will be, was good for the margin less a try when
\* the request began.
RequestInv ==
    \A t \in Task :
        /\ pc[t] = "prepare" /\ CallOf(t).op # GetRepositories =>
                since[t] + Margin <= authorizer.exp + TryTime
        /\ pc[t] = "send" /\ CallOf(t).op # GetRepositories =>
                since[t] + Margin <= held[t].exp + TryTime

TimeInv == PasswordInv /\ ClockInv /\ RenewalInv /\ (session.bearer => RequestInv)

\* No renewal loses a repository the command has asked for.
ScopeInv ==
    /\ ~session.abac \/ phase = "create" => currentRepositories = {}
    /\ phase # "ended" => currentRepositories \subseteq authorizer.repos
    /\ \A t \in Task : pc[t] \in {"authorizer", "expiry", "send"} =>
                            currentRepositories \subseteq held[t].repos

\* The calls of a session by their positions: batch, task, place in the task.
Positions(s) ==
    {p \in Nat \X Nat \X Nat : /\ p[1] \in 1..Len(s.batches)
                              /\ p[2] \in DOMAIN s.batches[p[1]].tasks
                              /\ p[3] \in 1..Len(s.batches[p[1]].tasks[p[2]])}

CallAt(s, p) == s.batches[p[1]].tasks[p[2]][p[3]]

Deletes(s, p) == CallAt(s, p).op.verb = "DELETE"

\* Sessions in which no two calls delete the same item.
DistinctDeletes ==
    \A s \in Sessions : \A p, q \in Positions(s) :
        Deletes(s, p) /\ Deletes(s, q) /\ CallAt(s, p).item = CallAt(s, q).item => p = q

\* The call at p is still to be made.
Ahead(p) ==
    \/ p[1] > batch
    \/ p[1] = batch /\ (phase = "run" => p[3] > step[p[2]])

\* The items to delete are there, those deleted by the tasks at hand are gone.
OrderInv ==
    /\ phase # "ended" => \A p \in Positions(session) :
            Deletes(session, p) /\ Ahead(p) => CallAt(session, p).item \in present
    /\ \A t \in Task : \A i \in 1..Len(Tasks[t]) :
            Tasks[t][i].op.verb = "DELETE" /\ i < step[t] => Tasks[t][i].item \notin present

\* The call at p accesses an item.
NamesItem(s, p) == CallAt(s, p).op.names \in {"tag", "manifest"}

\* Sessions in which the delete of an item is the last access to it: the others
\* are in earlier batches or before it in its task.
DeletedLast ==
    \A s \in Sessions : \A p, q \in Positions(s) :
        Deletes(s, p) /\ NamesItem(s, q) /\ CallAt(s, p).item = CallAt(s, q).item =>
            \/ q = p
            \/ q[1] < p[1]
            \/ q[1] = p[1] /\ q[2] = p[2] /\ q[3] < p[3]

\* The repositories the last renewal for a batch up to b has asked for.
AskedFor(s, b, repoName) ==
    \E k \in 1..b : /\ repoName \in s.batches[k].repos
                    /\ \A j \in (k + 1)..b : s.batches[j].repos = {}

\* Sessions that, on an ABAC registry, ask for the repositories they access.
ScopedCalls ==
    \A s \in Sessions : s.abac =>
        \A p \in Positions(s) : CallAt(s, p).op # GetRepositories =>
            AskedFor(s, p[1], CallAt(s, p).repo)

\* The call at p is still to be made or under way.
Unanswered(p) ==
    \/ p[1] > batch
    \/ /\ p[1] = batch
       /\ phase = "run" => /\ p[3] >= step[p[2]]
                           /\ p[3] = step[p[2]] => pc[p[2]] # "done"

\* Nothing a call still needs has been deleted.
ItemsInv ==
    ~session.faults /\ phase # "ended" =>
        \A p \in Positions(session) :
            NamesItem(session, p) /\ Unanswered(p) => CallAt(session, p).item \in present

\* The tokens give access to what the command has asked for.
AskedInv ==
    /\ phase = "create" => batch = 1
    /\ ~session.abac => /\ authorizer.repos = Repo
                        /\ \A t \in Task : held[t].repos = Repo
    /\ session.abac => /\ phase = "run" => \A r \in Repo :
                            AskedFor(session, batch, r) => r \in currentRepositories
                       /\ phase = "batch" => \A r \in Repo :
                            AskedFor(session, batch - 1, r) => r \in currentRepositories

-----------------------------------------------------------------------------
(***************************************************************************)
(* Type correctness.                                                       *)
(***************************************************************************)
LEMMA TimingFacts ==
  /\ Life \in Nat /\ Margin \in Nat /\ TryTime \in Nat
  /\ RetryAttempts \in Nat /\ MaxTime \in Nat
  /\ TryTime + TryTime <= Margin /\ TryTime + Margin <= Life
  OBVIOUS

\* The tasks of a batch that runs, and their calls.
LEMMA TaskFacts ==
  ASSUME TypeInv, NEW t \in Task
  PROVE  /\ phase = "run" /\ batch \in 1..Len(session.batches)
         /\ t \in DOMAIN session.batches[batch].tasks
         /\ Len(Tasks[t]) \in Nat
         /\ \A i \in 1..Len(Tasks[t]) : Tasks[t][i] \in Call
<1>1. phase = "run"
    BY DEF Task, Tasks
<1>2. /\ batch \in 1..Len(session.batches)
      /\ session \in Sessions
    BY <1>1 DEF TypeInv, AcrClientTypeOK
<1>3. Tasks = session.batches[batch].tasks
    BY <1>1 DEF Tasks
<1> QED
    BY <1>1, <1>2, <1>3, SessionFacts DEF Task

\* The call a task is in.
LEMMA CallFacts ==
  ASSUME TypeInv, NEW t \in Task, pc[t] \notin {"ready", "done"}
  PROVE  /\ step[t] \in 1..Len(Tasks[t])
         /\ CallOf(t) \in Call
         /\ CallOf(t).op \in Requests /\ CallOf(t).repo \in Repo /\ CallOf(t).item \in Item
<1>1. step[t] \in 1..Len(Tasks[t])
    BY DEF TypeInv
<1>2. CallOf(t) \in Call
    BY <1>1, TaskFacts DEF CallOf
<1> QED
    BY <1>1, <1>2 DEF Call

\* A step that leaves the command alone leaves its tasks alone.
LEMMA SameTasks ==
  ASSUME UNCHANGED commandVars
  PROVE  Tasks' = Tasks /\ Task' = Task
  BY DEF commandVars, Tasks, Task

\* The tokens the client has and asks for.
LEMMA TokenFacts ==
  ASSUME TypeInv
  PROVE  /\ \A catalog \in BOOLEAN : Wildcard(catalog) \in Token
         /\ \A repos \in SUBSET Repo : Scoped(repos) \in Token
         /\ \A repoName \in Repo : Refreshed(repoName) \in Token
         /\ Password \in Token
<1>1. now + Life \in 0..(MaxTime + Life) /\ currentRepositories \subseteq Repo
    BY TimingFacts DEF TypeInv, AcrClientTypeOK
<1>2. MaxTime + Life \in 0..(MaxTime + Life)
    BY TimingFacts
<1> QED
    BY <1>1, <1>2 DEF Wildcard, Scoped, Refreshed, Password, Token

LEMMA EmptyFunction == \A S : << >> \in [{} -> S]
  OBVIOUS

LEMMA TypeInit == AcrClientInit => TypeInv
<1> SUFFICES ASSUME AcrClientInit PROVE TypeInv
    OBVIOUS
<1>1. Task = {} /\ Tasks = << >>
    BY DEF AcrClientInit, Tasks, Task
<1>2. session \in Sessions /\ Len(session.batches) \in Nat
    BY SessionFacts DEF AcrClientInit
<1>3. AcrClientTypeOK
  <2>1. MaxTime + Life \in 0..(MaxTime + Life) /\ 0 \in 0..(MaxTime + Life) /\ 0 \in 0..MaxTime
      BY TimingFacts
  <2>2. Password \in Token
      BY <2>1 DEF Password, Token
  <2>3. batch \in 1..(Len(session.batches) + 1)
      BY <1>2 DEF AcrClientInit
  <2> QED
      BY <1>1, <1>2, <2>1, <2>2, <2>3 DEF AcrClientInit, AcrClientTypeOK
<1>4. /\ step \in [{} -> Nat] /\ held \in [{} -> Token]
      /\ pc \in [{} -> Renewing \cup Requesting \cup {"ready", "done"}]
      /\ since \in [{} -> Nat] /\ tries \in [{} -> Nat]
    BY EmptyFunction DEF AcrClientInit
<1>5. phase = "create"
    BY DEF AcrClientInit
<1> QED
    BY <1>1, <1>3, <1>4, <1>5 DEF TypeInv

\* What a step that leaves the command alone must leave in place.
LEMMA TypeKept ==
  ASSUME TypeInv, UNCHANGED commandVars,
         now' \in 0..MaxTime,
         authorizer' \in Token, accessTokenExp' \in 0..(MaxTime + Life),
         currentRepositories' \subseteq Repo,
         step' \in [Task -> Nat],
         pc' \in [Task -> Renewing \cup Requesting \cup {"ready", "done"}],
         held' \in [Task -> Token], since' \in [Task -> Nat], tries' \in [Task -> Nat],
         \A t \in Task : /\ step'[t] \in 1..(Len(Tasks[t]) + 1)
                         /\ since'[t] \in 0..now' /\ tries'[t] \in 0..RetryAttempts
                         /\ pc'[t] \notin {"ready", "done"} => step'[t] \in 1..Len(Tasks[t]),
         failed' \in BOOLEAN, present' \subseteq Item
  PROVE  TypeInv'
<1>1. Tasks' = Tasks /\ Task' = Task
    BY SameTasks
<1>2. session' = session /\ phase' = phase /\ batch' = batch
    BY DEF commandVars
<1>3. \A t \in Task : /\ pc'[t] \in {"ready", "refresh", "authorizer", "expiry", "prepare", "send", "done"}
                      /\ held'[t] \in Token
    BY DEF Renewing, Requesting
<1>4. AcrClientTypeOK'
    BY <1>1, <1>2, <1>3 DEF TypeInv, AcrClientTypeOK
<1> QED
    BY <1>1, <1>2, <1>4 DEF TypeInv

\* The call step of a task keeps the types.
LEMMA TypeCall ==
  ASSUME TypeInv, NEW t \in Task, CallStep(t) \/ RefreshFails(t) \/ TryFails(t)
  PROVE  TypeInv'
<1> USE TimingFacts
<1>1. /\ now \in 0..MaxTime /\ session \in Sessions
      /\ authorizer \in Token /\ accessTokenExp \in 0..(MaxTime + Life)
      /\ currentRepositories \subseteq Repo
      /\ failed \in BOOLEAN /\ present \subseteq Item
      /\ \A u \in Task : /\ step[u] \in 1..(Len(Tasks[u]) + 1)
                         /\ since[u] \in 0..now /\ tries[u] \in 0..RetryAttempts
                         /\ pc[u] \notin {"ready", "done"} => step[u] \in 1..Len(Tasks[u])
    BY DEF TypeInv, AcrClientTypeOK
<1>2. /\ step \in [Task -> Nat]
      /\ pc \in [Task -> Renewing \cup Requesting \cup {"ready", "done"}]
      /\ held \in [Task -> Token] /\ since \in [Task -> Nat] /\ tries \in [Task -> Nat]
    BY DEF TypeInv
<1>3. Len(Tasks[t]) \in Nat
    BY TaskFacts
<1>4. CASE StartCall(t)
    BY <1>1, <1>2, <1>3, <1>4, TypeKept DEF StartCall, clientVars, commandVars, Renewing, Requesting
<1>5. CASE ReceiveToken(t)
  <2>1. Refreshed(CallOf(t).repo) \in Token
      BY <1>5, CallFacts, TokenFacts DEF ReceiveToken
  <2> QED
      BY <1>1, <1>2, <1>5, <2>1, TypeKept
      DEF ReceiveToken, clientVars, commandVars, Renewing, Requesting
<1>6. CASE WriteToken(t)
  <2>1. held[t] \in Token /\ held[t].exp \in 0..(MaxTime + Life)
      BY <1>2 DEF Token
  <2>2. CASE pc[t] = "authorizer"
      BY <1>1, <1>2, <1>6, <2>1, <2>2, TypeKept DEF WriteToken, commandVars, Renewing, Requesting
  <2>3. CASE pc[t] = "expiry"
    <3>1. /\ accessTokenExp' = held[t].exp /\ pc' = [pc EXCEPT ![t] = "prepare"]
          /\ since' = [since EXCEPT ![t] = now]
          /\ UNCHANGED <<commandVars, now, authorizer, currentRepositories>>
          /\ UNCHANGED <<step, held, tries, failed, present>>
        BY <1>6, <2>3 DEF WriteToken
    <3>2. \A u \in Task : since'[u] \in 0..now' /\ since' \in [Task -> Nat]
        BY <1>1, <1>2, <3>1
    <3> QED
        BY <1>1, <1>2, <2>1, <2>3, <3>1, <3>2, TypeKept DEF commandVars, Renewing, Requesting
  <2> QED
      BY <1>6, <2>2, <2>3 DEF WriteToken
<1>7. CASE Prepare(t)
    BY <1>1, <1>2, <1>7, TypeKept DEF Prepare, clientVars, commandVars, Renewing, Requesting
<1>8. After(CallOf(t), held[t]) \subseteq Item
    BY <1>1 DEF After
<1>9. CASE Answer(t)
  <2>1. /\ step[t] \in 1..Len(Tasks[t]) /\ pc[t] = "send"
        /\ UNCHANGED <<commandVars, now, clientVars, held, since, tries>>
        /\ present' = After(CallOf(t), held[t])
      BY <1>9, CallFacts DEF Answer, Stop
  <2>2. CASE StatusOf(CallOf(t), held[t]) \in CallOf(t).op.accepted
    <3>1. /\ step' = [step EXCEPT ![t] = step[t] + 1] /\ pc' = [pc EXCEPT ![t] = "ready"]
          /\ failed' = failed
        BY <1>9, <2>2 DEF Answer
    <3> QED
        BY <1>1, <1>2, <1>3, <1>8, <2>1, <3>1, TypeKept, SMTT(30)
        DEF clientVars, commandVars, Renewing, Requesting
  <2>3. CASE StatusOf(CallOf(t), held[t]) \notin CallOf(t).op.accepted
    <3>1. pc' = [pc EXCEPT ![t] = "done"] /\ failed' = TRUE /\ step' = step
        BY <1>9, <2>3 DEF Answer, Stop
    <3> QED
        BY <1>1, <1>2, <1>3, <1>8, <2>1, <3>1, TypeKept
        DEF clientVars, commandVars, Renewing, Requesting
  <2> QED
      BY <2>2, <2>3
<1>10. CASE EndTask(t)
    BY <1>1, <1>2, <1>10, TypeKept DEF EndTask, clientVars, commandVars, Renewing, Requesting
<1>11. CASE RefreshFails(t)
    BY <1>1, <1>2, <1>11, TypeKept DEF RefreshFails, Stop, clientVars, commandVars, Renewing, Requesting
<1>12. CASE TryFails(t)
  <2>1. /\ UNCHANGED <<commandVars, now, clientVars, step, held, since>>
        /\ present' \subseteq Item /\ pc[t] = "send"
      BY <1>1, <1>8, <1>12 DEF TryFails, Stop
  <2>2. CASE tries[t] < RetryAttempts
    <3>1. tries' = [tries EXCEPT ![t] = tries[t] + 1] /\ UNCHANGED <<pc, failed>>
        BY <1>12, <2>2 DEF TryFails
    <3>2. tries' \in [Task -> Nat] /\ \A u \in Task : tries'[u] \in 0..RetryAttempts
        BY <1>1, <1>2, <2>2, <3>1
    <3> QED
        BY <1>1, <1>2, <2>1, <3>1, <3>2, TypeKept DEF clientVars, commandVars
  <2>3. CASE ~(tries[t] < RetryAttempts)
      BY <1>1, <1>2, <1>12, <2>1, <2>3, TypeKept
      DEF TryFails, Stop, clientVars, commandVars, Renewing, Requesting
  <2> QED
      BY <2>2, <2>3
<1> QED
    BY <1>4, <1>5, <1>6, <1>7, <1>9, <1>10, <1>11, <1>12 DEF CallStep

\* What a command step leaves in place: the next state has a phase with no
\* tasks, or a batch has just begun.
LEMMA TypeCommand ==
  ASSUME TypeInv, CommandStep \/ CreateFails \/ ScopeFails
  PROVE  TypeInv'
<1> USE TimingFacts
<1>1. /\ session \in Sessions /\ Len(session.batches) \in Nat
      /\ now \in 0..MaxTime /\ batch \in 1..(Len(session.batches) + 1)
      /\ authorizer \in Token /\ accessTokenExp \in 0..(MaxTime + Life)
      /\ currentRepositories \subseteq Repo
      /\ failed \in BOOLEAN /\ present \subseteq Item
    BY SessionFacts DEF TypeInv, AcrClientTypeOK
<1>2. now + Life \in 0..(MaxTime + Life)
    BY <1>1
<1>3. session' = session /\ now' = now /\ present' = present
    BY DEF CommandStep, Create, StartBatch, EndBatch, EndCommand, CreateFails, ScopeFails
<1>4. phase # "run" => /\ step = << >> /\ pc = << >> /\ held = << >>
                       /\ since = << >> /\ tries = << >>
  <2>1. phase # "run" => Task = {}
      BY DEF Task, Tasks
  <2>2. ASSUME NEW S, NEW f \in [{} -> S] PROVE f = << >>
      OBVIOUS
  <2> QED
      BY <2>1, <2>2 DEF TypeInv
<1>5. ASSUME phase' \in {"create", "batch", "ended"}, batch' \in 1..(Len(session.batches) + 1),
             authorizer' \in Token, accessTokenExp' \in 0..(MaxTime + Life),
             currentRepositories' \subseteq Repo, failed' \in BOOLEAN,
             step' = << >>, pc' = << >>, held' = << >>, since' = << >>, tries' = << >>
      PROVE  TypeInv'
  <2>1. Task' = {} /\ phase' # "run"
      BY <1>5 DEF Task, Tasks
  <2>2. AcrClientTypeOK'
      BY <1>1, <1>3, <1>5, <2>1 DEF AcrClientTypeOK
  <2>3. /\ step' \in [{} -> Nat] /\ held' \in [{} -> Token]
        /\ pc' \in [{} -> Renewing \cup Requesting \cup {"ready", "done"}]
        /\ since' \in [{} -> Nat] /\ tries' \in [{} -> Nat]
      BY <1>5, EmptyFunction
  <2> QED
      BY <2>1, <2>2, <2>3 DEF TypeInv
<1>6. CASE Create
    BY <1>1, <1>2, <1>4, <1>5, <1>6, TokenFacts DEF Create, taskVars, Wildcard
<1>7. CASE StartBatch
  <2> DEFINE b == session.batches[batch]
  <2>1. /\ batch \in 1..Len(session.batches) /\ batch' = batch /\ phase' = "run"
        /\ failed' = failed /\ StartTasks(b.tasks)
      BY <1>1, <1>7 DEF StartBatch
  <2>2. b.repos \subseteq Repo
      BY <1>1, <2>1, SessionFacts
  <2>3. authorizer' \in Token /\ accessTokenExp' \in 0..(MaxTime + Life)
        /\ currentRepositories' \subseteq Repo
      BY <1>1, <1>2, <1>7, <2>2, TokenFacts DEF StartBatch, clientVars
  <2>4. Tasks' = b.tasks /\ Task' = DOMAIN b.tasks
      BY <1>3, <2>1 DEF Task, Tasks
  <2>5. \A t \in Task' : Len(Tasks'[t]) \in Nat
      BY <1>1, <2>1, <2>4, SessionFacts, Zenon
  <2>6. /\ step' = [t \in Task' |-> 1] /\ pc' = [t \in Task' |-> "ready"]
        /\ held' = [t \in Task' |-> authorizer'] /\ since' = [t \in Task' |-> now]
        /\ tries' = [t \in Task' |-> 0]
      BY <2>1, <2>4 DEF StartTasks
  <2>7. AcrClientTypeOK'
      BY <1>1, <1>3, <2>1, <2>3, <2>5, <2>6, SMTT(30) DEF AcrClientTypeOK
  <2> QED
      BY <1>1, <1>3, <2>1, <2>3, <2>6, <2>7 DEF TypeInv
<1>8. CASE EndBatch
  <2>1. batch \in 1..Len(session.batches)
      BY <1>8 DEF TypeInv, EndBatch
  <2> QED
      BY <1>1, <1>5, <1>8, <2>1 DEF EndBatch, clientVars
<1>9. CASE EndCommand
    BY <1>1, <1>4, <1>5, <1>9 DEF EndCommand, clientVars, taskVars
<1>10. CASE CreateFails
    BY <1>1, <1>4, <1>5, <1>10 DEF CreateFails, clientVars, taskVars
<1>11. CASE ScopeFails
  <2>1. session.batches[batch].repos \subseteq Repo
      BY <1>1, <1>11, SessionFacts DEF ScopeFails
  <2> QED
      BY <1>1, <1>4, <1>5, <1>11, <2>1, TokenFacts DEF ScopeFails, taskVars
<1> QED
    BY <1>6, <1>7, <1>8, <1>9, <1>10, <1>11 DEF CommandStep

LEMMA TypeStep ==
  ASSUME TypeInv, [AcrClientNext]_vars
  PROVE  TypeInv'
<1>1. CASE CommandStep \/ CreateFails \/ ScopeFails
    BY <1>1, TypeCommand
<1>2. CASE \E t \in Task : CallStep(t) \/ RefreshFails(t) \/ TryFails(t)
    BY <1>2, TypeCall
<1>3. CASE Tick \/ UNCHANGED vars
  <2>1. now' \in 0..MaxTime /\ now <= now'
      BY <1>3, TimingFacts DEF Tick, vars, TypeInv, AcrClientTypeOK
  <2>2. UNCHANGED <<commandVars, clientVars, taskVars, failed, present>>
      BY <1>3 DEF Tick, vars, commandVars
  <2>3. \A t \in Task : since[t] \in 0..now'
      BY <2>1, TimingFacts DEF TypeInv, AcrClientTypeOK
  <2>4. UNCHANGED <<authorizer, accessTokenExp, currentRepositories, step, pc, held>>
        /\ UNCHANGED <<since, tries, failed, present>>
      BY <2>2 DEF clientVars, taskVars
  <2> QED
      BY <2>1, <2>2, <2>3, <2>4, TypeKept DEF TypeInv, AcrClientTypeOK
<1> QED
    BY <1>1, <1>2, <1>3 DEF AcrClientNext, Fault

-----------------------------------------------------------------------------
(***************************************************************************)
(* The ages of the tokens.                                                 *)
(***************************************************************************)
\* The numbers and the functions that the steps compare and update.
LEMMA StateFacts ==
  ASSUME TypeInv
  PROVE  /\ now \in Nat /\ now <= MaxTime
         /\ accessTokenExp \in Nat /\ authorizer.exp \in Nat
         /\ \A t \in Task : since[t] \in Nat /\ since[t] <= now /\ held[t].exp \in Nat
         /\ session.bearer \in BOOLEAN
         /\ session.abac => session.bearer
         /\ DOMAIN pc = Task /\ DOMAIN step = Task /\ DOMAIN held = Task
         /\ DOMAIN since = Task /\ DOMAIN tries = Task
  BY SessionFacts, TimingFacts DEF TypeInv, AcrClientTypeOK, Token

\* A step of task t leaves the position and the token of every other alone.
LEMMA OtherTasks ==
  ASSUME TypeInv, NEW t \in Task, CallStep(t) \/ RefreshFails(t) \/ TryFails(t)
  PROVE  /\ Tasks' = Tasks /\ Task' = Task /\ session' = session /\ phase' = phase
         /\ batch' = batch /\ now' = now /\ currentRepositories' = currentRepositories
         /\ \A u \in Task \ {t} : /\ step'[u] = step[u] /\ pc'[u] = pc[u] /\ held'[u] = held[u]
                                  /\ since'[u] = since[u] /\ tries'[u] = tries[u]
                                  /\ CallOf(u)' = CallOf(u)
<1>1. /\ UNCHANGED commandVars /\ now' = now /\ currentRepositories' = currentRepositories
    BY DEF CallStep, StartCall, ReceiveToken, WriteToken, Prepare, Answer, EndTask,
           RefreshFails, TryFails, clientVars
<1>2. /\ Tasks' = Tasks /\ Task' = Task
      /\ session' = session /\ phase' = phase /\ batch' = batch
    BY <1>1, SameTasks DEF commandVars
<1>3. \A u \in Task \ {t} : /\ step'[u] = step[u] /\ pc'[u] = pc[u] /\ held'[u] = held[u]
                            /\ since'[u] = since[u] /\ tries'[u] = tries[u]
    BY StateFacts
    DEF CallStep, StartCall, ReceiveToken, WriteToken, Prepare, Answer, EndTask,
        RefreshFails, TryFails, Stop, clientVars
<1> QED
    BY <1>1, <1>2, <1>3 DEF CallOf

LEMMA TimeInit == AcrClientInit => TimeInv
<1> SUFFICES ASSUME AcrClientInit PROVE TimeInv
    OBVIOUS
<1>1. Task = {}
    BY DEF AcrClientInit, Tasks, Task
<1>2. authorizer = Password /\ accessTokenExp = 0 /\ now = 0
    BY DEF AcrClientInit
<1>3. Password.exp = MaxTime + Life
    BY DEF Password
<1> QED
    BY <1>1, <1>2, <1>3, TimingFacts
    DEF TimeInv, PasswordInv, ClockInv, RenewalInv, RequestInv

\* Without faults no try fails.
LEMMA TriesCall ==
  ASSUME TypeInv, TimeInv, NEW t \in Task, CallStep(t) \/ RefreshFails(t) \/ TryFails(t),
         ~session.faults
  PROVE  \A u \in Task : tries'[u] = 0
<1>1. \A u \in Task : tries[u] = 0
    BY DEF TimeInv, ClockInv
<1>2. tries'[t] \in {0, tries[t]}
    BY StateFacts
    DEF CallStep, StartCall, ReceiveToken, WriteToken, Prepare, Answer, EndTask,
        RefreshFails, TryFails, Stop
<1> QED
    BY <1>1, <1>2, OtherTasks

\* A task whose token is not about to expire, or who has just renewed it, has
\* one that is good for the margin less a try.
LEMMA TimeCall ==
  ASSUME TypeInv, TimeInv, NEW t \in Task, CallStep(t) \/ RefreshFails(t) \/ TryFails(t)
  PROVE  TimeInv'
<1> USE TimingFacts
<1>1. /\ Tasks' = Tasks /\ Task' = Task /\ session' = session
      /\ now' = now
      /\ \A u \in Task \ {t} : /\ pc'[u] = pc[u] /\ held'[u] = held[u] /\ since'[u] = since[u]
                               /\ tries'[u] = tries[u] /\ CallOf(u)' = CallOf(u)
    BY OtherTasks
<1>2. CASE StartCall(t)
  <2>1. /\ pc'[t] = IF IsExpired /\ CallOf(t).op # GetRepositories THEN "refresh" ELSE "prepare"
        /\ since'[t] = now /\ CallOf(t)' = CallOf(t)
        /\ UNCHANGED <<authorizer, accessTokenExp>>
      BY <1>1, <1>2, StateFacts DEF StartCall, clientVars, CallOf
  <2>2. PasswordInv'
      BY <1>1, <2>1 DEF TimeInv, PasswordInv, IsExpired, Renewing, Password
  <2>3. ClockInv'
      BY <1>1, <2>1, StateFacts, TriesCall DEF TimeInv, ClockInv, FirstTry, Writing
  <2>4. RenewalInv'
      BY <1>1, <2>1, StateFacts DEF TimeInv, RenewalInv, Writing
  <2>5. session.bearer => RequestInv'
      BY <1>1, <2>1, StateFacts DEF TimeInv, RenewalInv, RequestInv, IsExpired
  <2> QED
      BY <1>1, <2>2, <2>3, <2>4, <2>5 DEF TimeInv
<1>3. CASE ReceiveToken(t)
  <2>1. /\ pc[t] = "refresh" /\ pc'[t] = "authorizer" /\ since'[t] = since[t]
        /\ held'[t].exp = now + Life
        /\ UNCHANGED <<authorizer, accessTokenExp>>
      BY <1>3, StateFacts DEF ReceiveToken, clientVars, Refreshed, Scoped, Wildcard
  <2>2. PasswordInv'
      BY <1>1, <2>1 DEF TimeInv, PasswordInv, Renewing, Password
  <2>3. ClockInv'
      BY <1>1, <2>1, StateFacts, TriesCall DEF TimeInv, ClockInv, FirstTry, Writing
  <2>4. RenewalInv'
      BY <1>1, <2>1, StateFacts DEF TimeInv, RenewalInv, Writing
  <2>5. session.bearer => RequestInv'
      BY <1>1, <2>1, StateFacts DEF TimeInv, RequestInv
  <2> QED
      BY <1>1, <2>2, <2>3, <2>4, <2>5 DEF TimeInv
<1>4. CASE WriteToken(t) /\ pc[t] = "authorizer"
  <2>1. /\ pc'[t] = "expiry" /\ since'[t] = since[t] /\ held'[t] = held[t]
        /\ authorizer' = held[t] /\ accessTokenExp' = accessTokenExp
      BY <1>4, StateFacts DEF WriteToken
  <2>2. /\ held[t].exp <= now + Life /\ now + Life <= held[t].exp + TryTime
        /\ session.bearer
      BY <1>4 DEF TimeInv, PasswordInv, RenewalInv, ClockInv, Renewing, Writing
  <2>3. PasswordInv'
      BY <1>1, <2>2 DEF PasswordInv
  <2>4. ClockInv'
      BY <1>1, <1>4, <2>1, StateFacts, TriesCall DEF TimeInv, ClockInv, FirstTry, Writing
  <2>5. RenewalInv'
      BY <1>1, <1>4, <2>1, <2>2, StateFacts DEF TimeInv, RenewalInv, Writing
  <2>6. RequestInv'
      BY <1>1, <2>1, <2>2, StateFacts DEF TimeInv, RequestInv
  <2> QED
      BY <1>1, <2>3, <2>4, <2>5, <2>6 DEF TimeInv
<1>5. CASE WriteToken(t) /\ pc[t] = "expiry"
  <2>1. /\ pc'[t] = "prepare" /\ since'[t] = now /\ held'[t] = held[t]
        /\ authorizer' = authorizer /\ accessTokenExp' = held[t].exp
      BY <1>5, StateFacts DEF WriteToken
  <2>2. /\ held[t].exp <= now + Life /\ now + Life <= held[t].exp + TryTime
        /\ held[t].exp <= authorizer.exp + TryTime
        /\ session.bearer
      BY <1>5 DEF TimeInv, PasswordInv, RenewalInv, ClockInv, Renewing, Writing
  <2>3. PasswordInv'
      BY <1>1, <2>2 DEF PasswordInv
  <2>4. ClockInv'
      BY <1>1, <1>5, <2>1, StateFacts, TriesCall DEF TimeInv, ClockInv, FirstTry, Writing
  <2>5. RenewalInv'
      BY <1>1, <1>5, <2>1, <2>2, StateFacts DEF TimeInv, RenewalInv, Writing
  <2>6. RequestInv'
      BY <1>1, <2>1, <2>2, StateFacts DEF TimeInv, RequestInv
  <2> QED
      BY <1>1, <2>3, <2>4, <2>5, <2>6 DEF TimeInv
<1>6. CASE Prepare(t)
  <2>1. /\ pc[t] = "prepare" /\ pc'[t] = "send" /\ since'[t] = since[t]
        /\ held'[t] = authorizer /\ CallOf(t)' = CallOf(t)
        /\ UNCHANGED <<authorizer, accessTokenExp>>
      BY <1>1, <1>6, StateFacts DEF Prepare, clientVars, CallOf
  <2>2. PasswordInv'
      BY <1>1, <2>1 DEF TimeInv, PasswordInv, Renewing, Password
  <2>3. ClockInv'
      BY <1>1, <2>1, StateFacts, TriesCall DEF TimeInv, ClockInv, FirstTry, Writing
  <2>4. RenewalInv'
      BY <1>1, <2>1, StateFacts DEF TimeInv, RenewalInv, Writing
  <2>5. session.bearer => RequestInv'
      BY <1>1, <2>1, StateFacts DEF TimeInv, RequestInv
  <2> QED
      BY <1>1, <2>2, <2>3, <2>4, <2>5 DEF TimeInv
<1>7. CASE Answer(t) \/ EndTask(t) \/ RefreshFails(t) \/ TryFails(t)
  <2>1. \/ pc'[t] \in {"ready", "done"}
        \/ pc'[t] = "send" /\ pc[t] = "send" /\ since'[t] = since[t] /\ held'[t] = held[t]
           /\ step'[t] = step[t] /\ tries'[t] = tries[t] + 1 /\ tries[t] \in Nat
      BY <1>7, StateFacts DEF Answer, EndTask, RefreshFails, TryFails, Stop, TypeInv
  <2>2. UNCHANGED <<authorizer, accessTokenExp>>
      BY <1>7 DEF Answer, EndTask, RefreshFails, TryFails, clientVars
  <2>3. PasswordInv'
      BY <1>1, <2>1, <2>2 DEF TimeInv, PasswordInv, Renewing, Password
  <2>4. ClockInv'
      BY <1>1, <2>1, StateFacts, TriesCall DEF TimeInv, ClockInv, FirstTry, Writing
  <2>5. RenewalInv'
      BY <1>1, <2>1, <2>2, StateFacts DEF TimeInv, RenewalInv, Writing
  <2>6. session.bearer => RequestInv'
      BY <1>1, <2>1, <2>2, StateFacts DEF TimeInv, RequestInv, CallOf
  <2> QED
      BY <1>1, <2>3, <2>4, <2>5, <2>6 DEF TimeInv
<1> QED
    BY <1>2, <1>3, <1>4, <1>5, <1>6, <1>7 DEF CallStep, WriteToken

\* After a command step no task is in a call.
LEMMA CommandTasks ==
  ASSUME TypeInv, CommandStep \/ CreateFails \/ ScopeFails
  PROVE  /\ session' = session /\ now' = now
         /\ \A t \in Task' : pc'[t] = "ready" /\ tries'[t] = 0
<1>1. session' = session /\ now' = now
    BY DEF CommandStep, Create, StartBatch, EndBatch, EndCommand, CreateFails, ScopeFails
<1>2. CASE StartBatch
    BY <1>1, <1>2 DEF StartBatch, StartTasks, Task, Tasks
<1>3. CASE ~StartBatch
  <2>1. phase' # "run"
      BY <1>3 DEF CommandStep, Create, EndBatch, EndCommand, CreateFails, ScopeFails
  <2> QED
      BY <1>1, <2>1 DEF Task, Tasks
<1> QED
    BY <1>2, <1>3

LEMMA TimeCommand ==
  ASSUME TypeInv, TimeInv, CommandStep \/ CreateFails \/ ScopeFails
  PROVE  TimeInv'
<1> USE TimingFacts
<1>1. /\ session' = session /\ now' = now
      /\ \A t \in Task' : pc'[t] = "ready" /\ tries'[t] = 0
    BY CommandTasks
<1>2. \/ UNCHANGED <<authorizer, accessTokenExp>>
      \/ session.bearer /\ authorizer'.exp = now + Life /\ accessTokenExp' = now + Life
      \/ session.bearer /\ authorizer'.exp = now + Life /\ accessTokenExp' = accessTokenExp
    BY StateFacts
    DEF CommandStep, Create, StartBatch, EndBatch, EndCommand, CreateFails, ScopeFails,
        clientVars, RenewsScope, Wildcard, Scoped
<1>3. PasswordInv'
    BY <1>1, <1>2 DEF TimeInv, PasswordInv, Renewing
<1>4. ClockInv'
    BY <1>1 DEF ClockInv, FirstTry, Writing
<1>5. RenewalInv'
    BY <1>1, <1>2, StateFacts DEF TimeInv, RenewalInv, Writing
<1>6. RequestInv'
    BY <1>1 DEF RequestInv
<1> QED
    BY <1>3, <1>4, <1>5, <1>6 DEF TimeInv

\* Time passes only while every try is within its bound.
LEMMA TimeTick ==
  ASSUME TypeInv, TimeInv, Tick \/ UNCHANGED vars
  PROVE  TimeInv'
<1> USE TimingFacts
<1>1. /\ UNCHANGED <<session, authorizer, accessTokenExp, step, pc, held, since, tries>>
      /\ UNCHANGED commandVars
    BY DEF Tick, vars, commandVars, clientVars, taskVars
<1>2. /\ Tasks' = Tasks /\ Task' = Task
      /\ \A t \in Task : CallOf(t)' = CallOf(t)
    BY <1>1, SameTasks DEF CallOf
<1>3. \/ now' = now
      \/ /\ now' = now + 1
         /\ \A t \in Task : /\ pc[t] \in Writing => now + Life < held[t].exp + TryTime
                            /\ FirstTry(t) => now < since[t] + TryTime
    BY DEF Tick, vars, Writing
<1>4. PasswordInv'
    BY <1>1, <1>2 DEF TimeInv, PasswordInv
<1>5. ClockInv'
    BY <1>1, <1>2, <1>3, StateFacts DEF TimeInv, ClockInv, FirstTry, Writing
<1>6. RenewalInv'
  <2>1. now' \in {now, now + 1}
      BY <1>3
  <2> QED
      BY <1>1, <1>2, <2>1, StateFacts DEF TimeInv, RenewalInv, Writing
<1>7. session.bearer => RequestInv'
    BY <1>1, <1>2 DEF TimeInv, RequestInv
<1> QED
    BY <1>1, <1>4, <1>5, <1>6, <1>7 DEF TimeInv

-----------------------------------------------------------------------------
(***************************************************************************)
(* What the tokens are good for.                                           *)
(***************************************************************************)
LEMMA ScopeInit == AcrClientInit => ScopeInv
  BY DEF AcrClientInit, ScopeInv, Task, Tasks

LEMMA ScopeStep ==
  ASSUME TypeInv, ScopeInv, [AcrClientNext]_vars
  PROVE  ScopeInv'
<1>1. CASE CommandStep \/ CreateFails \/ ScopeFails
  <2>1. session' = session /\ \A t \in Task' : pc'[t] = "ready"
      BY <1>1, CommandTasks
  <2>2. CASE Create
      BY <2>1, <2>2 DEF Create, ScopeInv
  <2>3. CASE StartBatch
    <3>1. phase = "batch" /\ phase' = "run"
        BY <2>3 DEF StartBatch
    <3> QED
        BY <2>1, <2>3, <3>1 DEF StartBatch, ScopeInv, RenewsScope, Scoped, clientVars
  <2>4. CASE EndBatch \/ EndCommand \/ CreateFails
      BY <2>1, <2>4 DEF EndBatch, EndCommand, CreateFails, ScopeInv, clientVars
  <2>5. CASE ScopeFails
      BY <2>1, <2>5 DEF ScopeFails, ScopeInv, RenewsScope
  <2> QED
      BY <1>1, <2>2, <2>3, <2>4, <2>5 DEF CommandStep
<1>2. ASSUME NEW t \in Task, CallStep(t) \/ RefreshFails(t) \/ TryFails(t)
      PROVE  ScopeInv'
  <2>1. /\ Task' = Task /\ session' = session /\ phase' = phase
        /\ currentRepositories' = currentRepositories
        /\ \A u \in Task \ {t} : pc'[u] = pc[u] /\ held'[u] = held[u]
      BY <1>2, OtherTasks
  <2>2. phase # "ended"
      BY <1>2 DEF Task, Tasks
  <2>3. CASE ReceiveToken(t)
    <3>1. pc'[t] = "authorizer" /\ held'[t] = Refreshed(CallOf(t).repo) /\ authorizer' = authorizer
        BY <2>3, StateFacts DEF ReceiveToken, clientVars
    <3>2. currentRepositories \subseteq Refreshed(CallOf(t).repo).repos
        BY DEF ScopeInv, Refreshed, Scoped, Wildcard
    <3> QED
        BY <2>1, <3>1, <3>2 DEF ScopeInv
  <2>4. CASE ~ReceiveToken(t)
    <3>1. /\ authorizer' \in {authorizer, held[t]}
          /\ authorizer' = held[t] => authorizer' = authorizer \/ pc[t] = "authorizer"
        BY <1>2, <2>4
        DEF CallStep, StartCall, WriteToken, Prepare, Answer, EndTask, RefreshFails, TryFails, clientVars
    <3>2. pc'[t] \in {"authorizer", "expiry", "send"} =>
                \/ held'[t] = held[t] /\ pc[t] \in {"authorizer", "expiry", "send"}
                \/ held'[t] = authorizer
        BY <1>2, <2>4, StateFacts
        DEF CallStep, StartCall, WriteToken, Prepare, Answer, EndTask, RefreshFails, TryFails, Stop
    <3> QED
        BY <2>1, <2>2, <3>1, <3>2 DEF ScopeInv
  <2> QED
      BY <2>3, <2>4
<1>3. CASE Tick \/ UNCHANGED vars
  <2>1. UNCHANGED <<session, phase, authorizer, currentRepositories, pc, held>> /\ Task' = Task
      BY <1>3, SameTasks DEF Tick, vars, commandVars, clientVars, taskVars
  <2> QED
      BY <2>1 DEF ScopeInv
<1> QED
    BY <1>1, <1>2, <1>3 DEF AcrClientNext, Fault

-----------------------------------------------------------------------------
(***************************************************************************)
(* The order of the deletes.                                               *)
(***************************************************************************)
\* The call a task is in has a position.
LEMMA PositionFacts ==
  ASSUME TypeInv, NEW t \in Task
  PROVE  /\ \A i \in 1..Len(Tasks[t]) : /\ <<batch, t, i>> \in Positions(session)
                                        /\ CallAt(session, <<batch, t, i>>) = Tasks[t][i]
         /\ t \in Nat
<1>1. /\ phase = "run" /\ batch \in 1..Len(session.batches)
      /\ t \in DOMAIN session.batches[batch].tasks
      /\ Tasks = session.batches[batch].tasks
      /\ Len(Tasks[t]) \in Nat /\ session \in Sessions
    BY TaskFacts DEF Tasks, TypeInv, AcrClientTypeOK
<1>2. t \in Nat
    BY <1>1, SessionFacts
<1>3. ASSUME NEW i \in 1..Len(Tasks[t])
      PROVE  /\ <<batch, t, i>> \in Positions(session)
             /\ CallAt(session, <<batch, t, i>>) = Tasks[t][i]
  <2>1. batch \in Nat /\ i \in Nat
      BY <1>1, SessionFacts
  <2> DEFINE p == <<batch, t, i>>
  <2>2. p[1] = batch /\ p[2] = t /\ p[3] = i /\ p \in Nat \X Nat \X Nat
      BY <1>2, <2>1
  <2> HIDE DEF p
  <2>3. p \in Positions(session) /\ CallAt(session, p) = Tasks[t][i]
      BY <1>1, <2>2 DEF Positions, CallAt
  <2> QED
      BY <2>3 DEF p
<1> QED
    BY <1>2, <1>3

\* A request removes at most the item of a delete.
LEMMA AfterFacts ==
  ASSUME NEW c \in Call, NEW token
  PROVE  /\ After(c, token) \in {present, present \ {c.item}}
         /\ c.op.verb # "DELETE" => After(c, token) = present
         /\ c.op.verb = "DELETE" /\ StatusOf(c, token) \in c.op.accepted =>
                After(c, token) = present \ {c.item}
<1>1. c.op \in Requests
    BY DEF Call
<1>2. c.op.verb = "DELETE" => /\ c.op.names \in {"tag", "manifest"}
                              /\ c.op.accepted = {200, 202}
    BY <1>1, RequestFacts
<1> QED
    BY <1>2 DEF After, StatusOf

LEMMA OrderInit == AcrClientInit => OrderInv
<1> SUFFICES ASSUME AcrClientInit PROVE OrderInv
    OBVIOUS
<1>1. Task = {} /\ present = Item /\ session \in Sessions
    BY DEF AcrClientInit, Tasks, Task
<1>2. ASSUME NEW p \in Positions(session) PROVE CallAt(session, p).item \in Item
  <2>1. CallAt(session, p) \in Call
      BY <1>1, SessionFacts DEF Positions, CallAt
  <2> QED
      BY <2>1 DEF Call
<1> QED
    BY <1>1, <1>2 DEF OrderInv

\* The loop removes the item of the call it is at, which is the item of no
\* other delete.
LEMMA OrderStep ==
  ASSUME DistinctDeletes, TypeInv, OrderInv, [AcrClientNext]_vars
  PROVE  OrderInv'
<1>1. CASE CommandStep \/ CreateFails \/ ScopeFails
  <2>1. session' = session /\ present' = present /\ batch \in Nat
    <3>1. session \in Sessions /\ batch \in 1..(Len(session.batches) + 1)
        BY DEF TypeInv, AcrClientTypeOK
    <3>2. batch \in Nat
        BY <3>1, SessionFacts
    <3> QED
        BY <1>1, <3>2
        DEF CommandStep, Create, StartBatch, EndBatch, EndCommand, CreateFails, ScopeFails
  <2>2. ASSUME phase' # "ended", NEW p \in Positions(session), Ahead(p)'
        PROVE  phase # "ended" /\ Ahead(p)
    <3>1. p[1] \in Nat /\ p[3] \in Nat
        BY DEF Positions
    <3>2. phase # "ended" /\ (phase = "run" => batch' = batch + 1)
        BY <1>1, <2>2 DEF CommandStep, Create, StartBatch, EndBatch, EndCommand, CreateFails, ScopeFails
    <3>3. phase # "run" => batch' = batch
        BY <1>1, <2>2 DEF CommandStep, Create, StartBatch, EndBatch, EndCommand, CreateFails, ScopeFails
    <3> QED
        BY <2>1, <2>2, <3>1, <3>2, <3>3 DEF Ahead
  <2>3. \A t \in Task' : step'[t] = 1
    <3>1. CASE StartBatch
        BY <3>1 DEF StartBatch, StartTasks, Task, Tasks
    <3>2. CASE ~StartBatch
      <4>1. phase' # "run"
          BY <1>1, <3>2 DEF CommandStep, Create, EndBatch, EndCommand, CreateFails, ScopeFails
      <4> QED
          BY <4>1 DEF Task, Tasks
    <3> QED
        BY <3>1, <3>2
  <2> QED
      BY <2>1, <2>2, <2>3, SMTT(30) DEF OrderInv
<1>2. ASSUME NEW t \in Task, CallStep(t) \/ RefreshFails(t) \/ TryFails(t)
      PROVE  OrderInv'
  <2>1. /\ Tasks' = Tasks /\ Task' = Task /\ session' = session /\ phase' = phase /\ batch' = batch
        /\ \A u \in Task \ {t} : step'[u] = step[u]
      BY <1>2, OtherTasks
  <2>2. phase = "run" /\ session \in Sessions
      BY SMTT(30) DEF Task, Tasks, TypeInv, AcrClientTypeOK
  <2>3. CASE Answer(t) \/ TryFails(t)
    <3> DEFINE q == <<batch, t, step[t]>>
    <3>1. step[t] \in 1..Len(Tasks[t]) /\ CallOf(t) \in Call
        BY <2>3, CallFacts DEF Answer, TryFails
    <3>2. q \in Positions(session) /\ CallAt(session, q) = CallOf(t)
        BY <3>1, PositionFacts DEF CallOf
    <3>3. q[1] = batch /\ q[2] = t /\ q[3] = step[t]
        OBVIOUS
    <3> HIDE DEF q
    <3>4. /\ present' \in {present, present \ {CallOf(t).item}}
          /\ CallOf(t).op.verb # "DELETE" => present' = present
        BY <2>3, <3>1, AfterFacts DEF Answer, TryFails
    <3>5. /\ step'[t] \in {step[t], step[t] + 1}
          /\ step'[t] = step[t] + 1 /\ CallOf(t).op.verb = "DELETE" =>
                present' = present \ {CallOf(t).item}
      <4>1. CASE Answer(t)
          BY <3>1, <4>1, AfterFacts, StateFacts, SMTT(30) DEF Answer, Stop
      <4>2. CASE TryFails(t)
          BY <3>1, <4>2 DEF TryFails, Stop
      <4> QED
          BY <2>3, <4>1, <4>2
    <3>6. ASSUME NEW p \in Positions(session), Deletes(session, p), Ahead(p)'
          PROVE  CallAt(session, p).item \in present'
      <4>1. p[3] \in Nat /\ batch \in Nat /\ step[t] \in Nat
        <5>1. batch \in 1..Len(session.batches) /\ Len(session.batches) \in Nat /\ Len(Tasks[t]) \in Nat
            BY <2>2, TaskFacts, SessionFacts
        <5>2. batch \in Nat /\ step[t] \in Nat
            BY <3>1, <5>1
        <5>3. p \in Nat \X Nat \X Nat
            BY Zenon DEF Positions
        <5> QED
            BY <5>2, <5>3
      <4>2. Ahead(p) /\ p # q
        <5>1. p[1] = batch => p[2] \in Task
            BY <2>2 DEF Positions, Task, Tasks
        <5>2. p[1] = batch => p[3] > step'[p[2]]
            BY <2>1, <2>2, <3>6, <4>1 DEF Ahead
        <5> QED
            BY <2>1, <2>2, <3>3, <3>5, <3>6, <4>1, <5>1, <5>2 DEF Ahead
      <4>3. CallAt(session, p).item \in present
          BY <2>2, <3>6, <4>2 DEF OrderInv
      <4>4. CallOf(t).op.verb = "DELETE" => CallAt(session, p).item # CallOf(t).item
          BY <2>2, <3>2, <3>6, <4>2 DEF DistinctDeletes, Deletes
      <4> QED
          BY <3>4, <4>3, <4>4
    <3>7. ASSUME NEW u \in Task, NEW i \in 1..Len(Tasks[u]),
                 Tasks[u][i].op.verb = "DELETE", i < step'[u]
          PROVE  Tasks[u][i].item \notin present'
      <4>1. CASE i < step[u]
          BY <3>4, <3>7, <4>1 DEF OrderInv
      <4>2. CASE ~(i < step[u])
        <5>1. u = t /\ i = step[t] /\ step'[t] = step[t] + 1
            BY <2>1, <3>1, <3>5, <3>7, <4>2, SMTT(30)
        <5> QED
            BY <3>5, <3>7, <5>1 DEF CallOf
      <4> QED
          BY <4>1, <4>2
    <3> QED
        BY <2>1, <3>6, <3>7 DEF OrderInv, Deletes
  <2>4. CASE ~(Answer(t) \/ TryFails(t))
    <3>1. step' = step /\ present' = present
        BY <1>2, <2>4
        DEF CallStep, StartCall, ReceiveToken, WriteToken, Prepare, EndTask, RefreshFails, Stop
    <3> QED
        BY <2>1, <3>1 DEF OrderInv, Ahead
  <2> QED
      BY <2>3, <2>4
<1>3. CASE Tick \/ UNCHANGED vars
  <2>1. UNCHANGED <<session, phase, batch, step, present>> /\ Task' = Task /\ Tasks' = Tasks
      BY <1>3, SameTasks DEF Tick, vars, commandVars, clientVars, taskVars
  <2> QED
      BY <2>1 DEF OrderInv, Ahead
<1> QED
    BY <1>1, <1>2, <1>3 DEF AcrClientNext, Fault

-----------------------------------------------------------------------------
(***************************************************************************)
(* What the registry needs to accept a request.                            *)
(***************************************************************************)
LEMMA ItemsInit == AcrClientInit => ItemsInv
<1> SUFFICES ASSUME AcrClientInit PROVE ItemsInv
    OBVIOUS
<1>1. present = Item /\ session \in Sessions
    BY DEF AcrClientInit
<1>2. ASSUME NEW p \in Positions(session) PROVE CallAt(session, p).item \in Item
  <2>1. CallAt(session, p) \in Call
      BY <1>1, SessionFacts DEF Positions, CallAt
  <2> QED
      BY <2>1 DEF Call
<1> QED
    BY <1>1, <1>2 DEF ItemsInv

\* A delete that is under way is the last call of all that need its item.
LEMMA ItemsStep ==
  ASSUME DeletedLast, TypeInv, ItemsInv, [AcrClientNext]_vars
  PROVE  ItemsInv'
<1>1. CASE CommandStep \/ CreateFails \/ ScopeFails
  <2>1. session' = session /\ present' = present /\ batch \in Nat
    <3>1. session \in Sessions /\ batch \in 1..(Len(session.batches) + 1)
        BY DEF TypeInv, AcrClientTypeOK
    <3>2. batch \in Nat
        BY <3>1, SessionFacts
    <3> QED
        BY <1>1, <3>2
        DEF CommandStep, Create, StartBatch, EndBatch, EndCommand, CreateFails, ScopeFails
  <2>2. ASSUME phase' # "ended", NEW p \in Positions(session), Unanswered(p)'
        PROVE  phase # "ended" /\ Unanswered(p)
    <3>1. p[1] \in Nat /\ p[3] \in Nat
        BY DEF Positions
    <3>2. phase # "ended" /\ (phase = "run" => batch' = batch + 1)
        BY <1>1, <2>2 DEF CommandStep, Create, StartBatch, EndBatch, EndCommand, CreateFails, ScopeFails
    <3>3. phase # "run" => batch' = batch
        BY <1>1, <2>2 DEF CommandStep, Create, StartBatch, EndBatch, EndCommand, CreateFails, ScopeFails
    <3> QED
        BY <2>1, <2>2, <3>1, <3>2, <3>3 DEF Unanswered
  <2> QED
      BY <2>1, <2>2 DEF ItemsInv
<1>2. ASSUME NEW t \in Task, CallStep(t) \/ RefreshFails(t) \/ TryFails(t)
      PROVE  ItemsInv'
  <2> SUFFICES ASSUME ~session.faults, NEW p \in Positions(session),
                      NamesItem(session, p), Unanswered(p)'
               PROVE  CallAt(session, p).item \in present'
    <3>1. session' = session
        BY <1>2, OtherTasks
    <3> QED
        BY <3>1 DEF ItemsInv
  <2>1. /\ Tasks' = Tasks /\ Task' = Task /\ session' = session /\ phase' = phase /\ batch' = batch
        /\ \A u \in Task \ {t} : step'[u] = step[u] /\ pc'[u] = pc[u]
      BY <1>2, OtherTasks
  <2>2. phase = "run" /\ session \in Sessions
      BY DEF Task, Tasks, TypeInv, AcrClientTypeOK
  <2>3. /\ p[1] \in Nat /\ p[3] \in Nat /\ batch \in Nat /\ step[t] \in Nat
        /\ p[1] = batch => p[2] \in Task
    <3>1. batch \in 1..Len(session.batches) /\ Len(session.batches) \in Nat
        BY <2>2, TaskFacts, SessionFacts
    <3>2. step[t] \in Nat
        BY DEF TypeInv
    <3>3. p[1] = batch => p[2] \in Task
        BY <2>2 DEF Positions, Task, Tasks
    <3> QED
        BY <3>1, <3>2, <3>3 DEF Positions
  <2>4. /\ step'[t] \in {step[t], step[t] + 1}
        /\ step'[t] = step[t] => (pc[t] = "done" => pc'[t] = "done")
      BY <1>2, <2>3, StateFacts
      DEF CallStep, StartCall, ReceiveToken, WriteToken, Prepare, Answer, EndTask,
          RefreshFails, TryFails, Stop
  <2>5. Unanswered(p)
    <3>1. CASE p[1] = batch
        BY <2>1, <2>2, <2>3, <2>4, <3>1 DEF Unanswered
    <3>2. CASE p[1] # batch
        BY <2>1, <3>2 DEF Unanswered
    <3> QED
        BY <3>1, <3>2
  <2>6. CallAt(session, p).item \in present
      BY <2>2, <2>5 DEF ItemsInv
  <2>7. CASE Answer(t)
    <3> DEFINE q == <<batch, t, step[t]>>
    <3>1. step[t] \in 1..Len(Tasks[t]) /\ CallOf(t) \in Call
        BY <2>7, CallFacts DEF Answer
    <3>2. q \in Positions(session) /\ CallAt(session, q) = CallOf(t)
        BY <3>1, PositionFacts DEF CallOf
    <3>3. q[1] = batch /\ q[2] = t /\ q[3] = step[t]
        OBVIOUS
    <3> HIDE DEF q
    <3>4. step'[t] = step[t] + 1 \/ pc'[t] = "done"
        BY <2>7, StateFacts DEF Answer, Stop
    <3>5. p # q /\ ~(p[1] < q[1]) /\ ~(p[1] = q[1] /\ p[2] = q[2] /\ p[3] < q[3])
        BY <2>1, <2>2, <2>3, <2>4, <3>3, <3>4 DEF Unanswered
    <3>6. CallOf(t).op.verb = "DELETE" => CallAt(session, p).item # CallOf(t).item
        BY <2>2, <3>2, <3>5 DEF DeletedLast, Deletes
    <3> QED
        BY <2>6, <2>7, <3>1, <3>6, AfterFacts DEF Answer
  <2>8. CASE ~Answer(t)
    <3>1. present' = present
        BY <1>2, <2>8
        DEF CallStep, StartCall, ReceiveToken, WriteToken, Prepare, EndTask, RefreshFails, TryFails
    <3> QED
        BY <2>6, <3>1
  <2> QED
      BY <2>7, <2>8
<1>3. CASE Tick \/ UNCHANGED vars
  <2>1. UNCHANGED <<session, phase, batch, step, pc, present>>
      BY <1>3 DEF Tick, vars, commandVars, clientVars, taskVars
  <2> QED
      BY <2>1 DEF ItemsInv, Unanswered
<1> QED
    BY <1>1, <1>2, <1>3 DEF AcrClientNext, Fault

LEMMA AskedInit == AcrClientInit => AskedInv
  BY DEF AcrClientInit, AskedInv, Password, Task, Tasks

LEMMA AskedStep ==
  ASSUME TypeInv, AskedInv, [AcrClientNext]_vars
  PROVE  AskedInv'
<1>1. CASE CommandStep \/ CreateFails \/ ScopeFails
  <2>1. /\ session' = session
        /\ session \in Sessions /\ Len(session.batches) \in Nat /\ batch \in Nat
    <3>1. session \in Sessions /\ batch \in 1..(Len(session.batches) + 1)
        BY DEF TypeInv, AcrClientTypeOK
    <3>2. Len(session.batches) \in Nat
        BY <3>1, SessionFacts
    <3>3. batch \in Nat
        BY <3>1, <3>2
    <3> QED
        BY <1>1, <3>1, <3>2, <3>3
        DEF CommandStep, Create, StartBatch, EndBatch, EndCommand, CreateFails, ScopeFails
  <2>2. /\ phase' # "create"
        /\ phase = "create" => batch = 1
      BY <1>1
      DEF CommandStep, Create, StartBatch, EndBatch, EndCommand, CreateFails, ScopeFails, AskedInv
  <2>3. CASE ~session.abac
    <3>1. authorizer'.repos = Repo
        BY <1>1, <2>3
        DEF CommandStep, Create, StartBatch, EndBatch, EndCommand, CreateFails, ScopeFails,
            AskedInv, Wildcard, RenewsScope, clientVars
    <3>2. \A t \in Task' : held'[t] = authorizer'
      <4>1. CASE StartBatch
          BY <4>1 DEF StartBatch, StartTasks, Task, Tasks
      <4>2. CASE ~StartBatch
        <5>1. phase' # "run"
            BY <1>1, <4>2 DEF CommandStep, Create, EndBatch, EndCommand, CreateFails, ScopeFails
        <5> QED
            BY <5>1 DEF Task, Tasks
      <4> QED
          BY <4>1, <4>2
    <3> QED
        BY <2>1, <2>2, <2>3, <3>1, <3>2 DEF AskedInv
  <2>4. CASE session.abac
    <3>1. CASE Create
      <4>1. phase' = "batch" /\ batch' = 1
          BY <2>2, <3>1 DEF Create
      <4>2. \A r \in Repo : ~AskedFor(session, 1 - 1, r)
          BY DEF AskedFor
      <4> QED
          BY <2>1, <2>4, <4>1, <4>2 DEF AskedInv
    <3>2. CASE StartBatch
      <4>1. /\ phase = "batch" /\ phase' = "run" /\ batch' = batch /\ batch \in 1..Len(session.batches)
            /\ LET repos == session.batches[batch].repos
               IN  IF repos # {} THEN currentRepositories' = repos
                                 ELSE currentRepositories' = currentRepositories
        <5>1. batch >= 1
            BY DEF TypeInv, AcrClientTypeOK
        <5> QED
            BY <2>1, <2>4, <3>2, <5>1 DEF StartBatch, RenewsScope, clientVars
      <4>2. ASSUME NEW r \in Repo, AskedFor(session, batch, r)
            PROVE  r \in currentRepositories'
        <5>1. PICK k \in 1..batch : /\ r \in session.batches[k].repos
                                    /\ \A j \in (k + 1)..batch : session.batches[j].repos = {}
            BY <4>2 DEF AskedFor
        <5>2. CASE k = batch
            BY <4>1, <5>1, <5>2
        <5>3. CASE k # batch
          <6>1. k \in 1..(batch - 1) /\ batch \in (k + 1)..batch
              BY <2>1, <5>3
          <6>2. session.batches[batch].repos = {}
              BY <5>1, <6>1
          <6>3. AskedFor(session, batch - 1, r)
            <7>1. \A j \in (k + 1)..(batch - 1) : j \in (k + 1)..batch
                BY <2>1
            <7> QED
                BY <5>1, <6>1, <7>1 DEF AskedFor
          <6> QED
              BY <2>4, <4>1, <6>2, <6>3 DEF AskedInv
        <5> QED
            BY <5>2, <5>3
      <4> QED
          BY <2>1, <2>4, <4>1, <4>2 DEF AskedInv
    <3>3. CASE EndBatch
      <4>1. /\ phase = "run" /\ phase' # "run" /\ batch' = batch + 1
            /\ currentRepositories' = currentRepositories
          BY <3>3 DEF EndBatch, clientVars
      <4>2. batch' - 1 = batch
          BY <2>1, <4>1
      <4> QED
          BY <2>1, <2>2, <2>4, <4>1, <4>2 DEF AskedInv
    <3>4. CASE EndCommand \/ CreateFails \/ ScopeFails
        BY <2>1, <2>4, <3>4 DEF EndCommand, CreateFails, ScopeFails, AskedInv
    <3> QED
        BY <1>1, <3>1, <3>2, <3>3, <3>4 DEF CommandStep
  <2> QED
      BY <2>1, <2>3, <2>4
<1>2. ASSUME NEW t \in Task, CallStep(t) \/ RefreshFails(t) \/ TryFails(t)
      PROVE  AskedInv'
  <2>1. /\ Task' = Task /\ session' = session /\ phase' = phase /\ batch' = batch
        /\ currentRepositories' = currentRepositories
        /\ \A u \in Task \ {t} : held'[u] = held[u]
      BY <1>2, OtherTasks
  <2>2. authorizer' \in {authorizer, held[t]}
      BY <1>2
      DEF CallStep, StartCall, ReceiveToken, WriteToken, Prepare, Answer, EndTask,
          RefreshFails, TryFails, clientVars
  <2>3. held'[t] \in {held[t], authorizer, Refreshed(CallOf(t).repo)}
      BY <1>2, StateFacts
      DEF CallStep, StartCall, ReceiveToken, WriteToken, Prepare, Answer, EndTask,
          RefreshFails, TryFails, Stop
  <2>4. ~session.abac => Refreshed(CallOf(t).repo).repos = Repo
      BY DEF Refreshed, Wildcard
  <2> QED
      BY <2>1, <2>2, <2>3, <2>4 DEF AskedInv
<1>3. CASE Tick \/ UNCHANGED vars
  <2>1. UNCHANGED <<session, phase, batch, authorizer, held, currentRepositories>> /\ Task' = Task
      BY <1>3, SameTasks DEF Tick, vars, commandVars, clientVars, taskVars
  <2> QED
      BY <2>1 DEF AskedInv
<1> QED
    BY <1>1, <1>2, <1>3 DEF AcrClientNext, Fault

-----------------------------------------------------------------------------
(***************************************************************************)
(* Theorems.                                                               *)
(***************************************************************************)
ClientInv == TypeInv /\ TimeInv /\ ScopeInv

LEMMA ClientInit == AcrClientInit => ClientInv
  BY TypeInit, TimeInit, ScopeInit DEF ClientInv

LEMMA ClientStep == ClientInv /\ [AcrClientNext]_vars => ClientInv'
<1> SUFFICES ASSUME ClientInv, [AcrClientNext]_vars PROVE ClientInv'
    OBVIOUS
<1>1. TypeInv' /\ ScopeInv'
    BY TypeStep, ScopeStep DEF ClientInv
<1>2. TimeInv'
    BY TimeCommand, TimeCall, TimeTick DEF ClientInv, AcrClientNext, Fault
<1> QED
    BY <1>1, <1>2 DEF ClientInv

\* The client's types, the ages of its tokens and their repositories: the
\* inductive invariant of isExpired and the renewals (acrsdk.go:191, 311).
THEOREM ClientCorrect == AcrClientSpec => []ClientInv
<1>1. AcrClientInit => ClientInv
    BY ClientInit
<1>2. ClientInv /\ [AcrClientNext]_vars => ClientInv'
    BY ClientStep
<1> QED
    BY <1>1, <1>2, PTL DEF AcrClientSpec

LEMMA MarginIsKeptHolds == ClientInv => MarginIsKept
<1> SUFFICES ASSUME ClientInv, NEW t \in Task, Sends(t), CallOf(t).op # GetRepositories
             PROVE  since[t] + Margin <= held[t].exp + TryTime
    BY DEF MarginIsKept
<1>1. TypeInv /\ TimeInv /\ pc[t] = "send"
    BY DEF ClientInv, Sends
<1>2. CASE session.bearer
    BY <1>1, <1>2 DEF TimeInv, RequestInv
<1>3. CASE ~session.bearer
  <2>1. held[t].exp = MaxTime + Life
      BY <1>1, <1>3 DEF TimeInv, PasswordInv, Password
  <2> QED
      BY <1>1, <2>1, StateFacts, TimingFacts
<1> QED
    BY <1>2, <1>3

\* A request begins with a token that is good for isExpired's margin less the
\* time of a try, however the tasks interleave and whatever is repeated
\* (acrsdk.go:311).
THEOREM ClientMarginIsKept == AcrClientSpec => []MarginIsKept
  BY ClientCorrect, MarginIsKeptHolds, PTL

\* The margin is enough for the first try of a request.
LEMMA FirstTryIsInTime ==
  ASSUME ClientInv, NEW t \in Task, Sends(t), tries[t] = 0, CallOf(t).op # GetRepositories
  PROVE  now <= held[t].exp
<1>1. TypeInv /\ since[t] + Margin <= held[t].exp + TryTime
    BY MarginIsKeptHolds DEF ClientInv, MarginIsKept
<1>2. now <= since[t] + TryTime
    BY DEF ClientInv, TimeInv, ClockInv, FirstTry, Sends
<1> QED
    BY <1>1, <1>2, StateFacts, TimingFacts

\* Concurrent renewals leave the client with an expiry that is at most the time
\* of a try later than that of its token, however long they take (acrsdk.go:219).
THEOREM ClientExpiryIsHonest == AcrClientSpec => []ExpiryIsHonest
<1>1. ClientInv => ExpiryIsHonest
    BY DEF ClientInv, TimeInv, RenewalInv, ExpiryIsHonest
<1> QED
    BY <1>1, ClientCorrect, PTL

\* An automatic renewal on an ABAC registry keeps the access to every
\* repository the command has asked for (acrsdk.go:191).
THEOREM ClientTokenCoversRequest == AcrClientSpec => []TokenCoversRequest
<1>1. ClientInv => TokenCoversRequest
    BY DEF ClientInv, ScopeInv, TokenCoversRequest, Sends
<1> QED
    BY <1>1, ClientCorrect, PTL

\* When no item is deleted twice, a loop of deletes (DeleteTags, tag.go:60, and
\* deleteManifests, manifest.go:154) stops at the call that fails: what it has
\* passed is gone and what is behind it is untouched.
THEOREM ClientDeletesInOrder ==
  ASSUME DistinctDeletes
  PROVE  AcrClientSpec => []DeletesInOrder
<1>1. AcrClientInit => TypeInv /\ OrderInv
    BY TypeInit, OrderInit
<1>2. TypeInv /\ OrderInv /\ [AcrClientNext]_vars => (TypeInv /\ OrderInv)'
    BY TypeStep, OrderStep
<1>3. TypeInv /\ OrderInv => DeletesInOrder
  <2> SUFFICES ASSUME TypeInv, OrderInv, NEW t \in Task, NEW i \in 1..Len(Tasks[t]),
                      Tasks[t][i].op.verb = "DELETE"
               PROVE  /\ i < step[t] => Tasks[t][i].item \notin present
                      /\ i > step[t] => Tasks[t][i].item \in present
      BY DEF DeletesInOrder
  <2>1. /\ <<batch, t, i>> \in Positions(session)
        /\ CallAt(session, <<batch, t, i>>) = Tasks[t][i]
      BY PositionFacts
  <2>2. phase = "run"
      BY DEF Task, Tasks
  <2>3. i > step[t] => Ahead(<<batch, t, i>>)
      BY DEF Ahead
  <2> QED
      BY <2>1, <2>2, <2>3 DEF OrderInv, Deletes
<1> QED
    BY <1>1, <1>2, <1>3, PTL DEF AcrClientSpec

\* The registry accepts every request that does not fail: the token is good for
\* the repository and has not expired, and the item is there.
LEMMA RequestsAreAcceptedHolds ==
  ASSUME ScopedCalls, ClientInv, ItemsInv, AskedInv
  PROVE  RequestsAreAccepted
<1> SUFFICES ASSUME ~session.faults, session.locked = {}, NEW t \in Task, Sends(t),
                    CallOf(t).op # GetRepositories
             PROVE  StatusOf(CallOf(t), held[t]) \in CallOf(t).op.accepted
    BY DEF RequestsAreAccepted
<1> DEFINE p == <<batch, t, step[t]>>
<1>1. /\ TypeInv /\ ScopeInv /\ now <= held[t].exp /\ pc[t] = "send" /\ phase = "run"
      /\ session \in Sessions
  <2>1. TypeInv /\ ScopeInv /\ tries[t] = 0
      BY DEF ClientInv, TimeInv, ClockInv
  <2>2. phase = "run" /\ session \in Sessions
      BY <2>1, TaskFacts DEF TypeInv, AcrClientTypeOK
  <2>3. now <= held[t].exp
      BY <2>1, FirstTryIsInTime
  <2> QED
      BY <2>1, <2>2, <2>3 DEF Sends
<1>2. /\ step[t] \in 1..Len(Tasks[t])
      /\ CallOf(t).op \in Requests /\ CallOf(t).repo \in Repo
    BY <1>1, CallFacts
<1>3. p \in Positions(session) /\ CallAt(session, p) = CallOf(t)
    BY <1>1, <1>2, PositionFacts DEF CallOf
<1>4. p[1] = batch /\ p[2] = t /\ p[3] = step[t]
    OBVIOUS
<1> HIDE DEF p
<1>5. CallOf(t).repo \in held[t].repos
  <2>1. CASE session.abac
    <3>1. AskedFor(session, batch, CallOf(t).repo)
        BY <1>1, <1>3, <1>4, <2>1 DEF ScopedCalls
    <3>2. CallOf(t).repo \in currentRepositories
        BY <1>1, <1>2, <2>1, <3>1 DEF AskedInv
    <3> QED
        BY <1>1, <3>2 DEF ScopeInv
  <2>2. CASE ~session.abac
      BY <1>2, <2>2 DEF AskedInv
  <2> QED
      BY <2>1, <2>2
<1>6. Covers(held[t], CallOf(t))
    BY <1>1, <1>5 DEF Covers
<1>7. CallOf(t).op.names \in {"tag", "manifest"} => CallOf(t).item \in present
  <2>1. Unanswered(p)
      BY <1>1, <1>4 DEF Unanswered, TypeInv
  <2> QED
      BY <1>1, <1>3, <2>1 DEF ItemsInv, NamesItem
<1>8. /\ CallOf(t).op.names \in {"catalog", "tags", "manifests", "tag", "manifest"}
      /\ CallOf(t).op.verb = "DELETE" => CallOf(t).op.accepted = {200, 202}
      /\ 200 \in CallOf(t).op.accepted
    BY <1>2, RequestFacts, RequestsAreOperations, SMTT(30) DEF Operation
<1> QED
    BY <1>6, <1>7, <1>8 DEF StatusOf

\* When a command asks for the repositories it accesses and the delete of an
\* item is the last access to it, the registry accepts every request that does
\* not fail, however long the command takes (acrsdk.go:259, client.go:552).
THEOREM ClientRequestsAreAccepted ==
  ASSUME ScopedCalls, DeletedLast
  PROVE  AcrClientSpec => []RequestsAreAccepted
<1> DEFINE Inv == ClientInv /\ ItemsInv /\ AskedInv
<1>1. AcrClientInit => Inv
    BY ClientInit, ItemsInit, AskedInit
<1>2. Inv /\ [AcrClientNext]_vars => Inv'
    BY ClientStep, ItemsStep, AskedStep DEF ClientInv
<1>3. Inv => RequestsAreAccepted
    BY RequestsAreAcceptedHolds
<1> QED
    BY <1>1, <1>2, <1>3, PTL DEF AcrClientSpec
=============================================================================
