------------------------------ MODULE Lifecycle ------------------------------
(***************************************************************************)
(* The life of a managed repository: discovery adds and removes it         *)
(* (src/internal/discovery), the registry owns its poller, its engine and  *)
(* its webhook monitor (src/internal/registry), and webhook requests reach *)
(* it through the registry (src/internal/webhook, wired by                 *)
(* src/cmd/gitea-mq/main.go).  The queue itself is reduced to one pull     *)
(* request per repository and to the state of the batch that owns it;      *)
(* BatchEngine has the rest.                                               *)
(*                                                                         *)
(* An instance <<r, n>> is what the n-th Add of r created: a poller, an    *)
(* engine with a mutex of its own, and a monitor.  Discovery is one        *)
(* goroutine, and what main does before it serves is its first cycle.      *)
(***************************************************************************)
EXTENDS Integers, Sequences, FiniteSets

CONSTANTS
    Repos,
    Kind,           \* Repos -> the forge a repository lives on
    Explicit,       \* GITEA_MQ_REPOS
    Sources,        \* the kinds of the discovery sources, in their order
    Polled,         \* bound: repositories that change and whose pollers step
    MaxEpochs,      \* bound: successful Adds per repository
    MaxBatches,     \* bound: batch rows in use at a time
    MaxRetries,     \* fast-forward races before the batch gives up
    MaxEvents       \* bound: webhooks, changes on the forges, failing calls

NoRepo == "none"

ASSUME LifecycleAssumption ==
    /\ Explicit \subseteq Repos /\ Polled \subseteq Repos
    /\ NoRepo \notin Repos
    /\ Sources \in Seq(STRING) \ {<<>>}
    /\ {MaxEpochs, MaxBatches} \subseteq Nat \ {0}
    /\ {MaxRetries, MaxEvents} \subseteq Nat

Instances == Repos \X (1 .. MaxEpochs)
BatchIds  == 1 .. MaxBatches
Absent    == -1     \* the pull request has no queue_entries row
NoBatch   == 0      \* it has one, in no batch

VARIABLES
    listed,     \* repositories their forge lists: topic set, App installed
    open,       \* repositories whose pull request waits for automerge
    disc,       \* the goroutine of DiscoverOnce
    serving,    \* the HTTP server is up
    dtrig,      \* a token in discTrigger
    managed,    \* RepoRegistry.repos: the instance of a repository, or 0
    gen,        \* Adds so far, per repository
    cancelled,  \* instances whose pollerCtx is cancelled
    poll,       \* the pollers
    nudge,      \* instances with a token in their trigger channel
    entry,      \* queue_entries: Absent, NoBatch or active_batch_id
    rows,       \* batches
    op,         \* what runs under an engine's mutex
    call,       \* the webhook request being served
    events,     \* how many there were
    (* History, read by properties only: repositories the answer in hand   *)
    (* leaves out; instances told to poll since they last listed; the same *)
    (* for discovery and its sources; repositories whose entries are       *)
    (* deleted.                                                            *)
    absent, told, unheard, purged

world == <<listed, open>>
store == <<entry, rows>>
chan  == <<nudge, told>>
vars  == <<listed, open, disc, serving, dtrig, managed, gen, cancelled, poll,
           nudge, entry, rows, op, call, events,
           absent, told, unheard, purged>>

Idle == [at |-> "idle", k |-> NoBatch, by |-> "nobody"]

NoCall == [at |-> "idle", i |-> <<NoRepo, 0>>, k |-> NoBatch]

Row == [repo : Repos \cup {NoRepo},
        state : {"closed", "forming", "testing"},   \* done, cancelled or unused
        ff : Nat]

Disc == [at : {"idle", "add", "reconcile", "spawn", "register", "list",
               "prune", "cancel", "rows", "purge"},
         src  : Nat,                       \* 0 while it adds Explicit
         todo : SUBSET Repos,
         want : SUBSET Repos,
         repo : Repos \cup {NoRepo}]

LifecycleTypeOK ==
    /\ listed \subseteq Repos /\ open \subseteq Repos
    /\ disc \in Disc
    /\ serving \in BOOLEAN /\ dtrig \in BOOLEAN
    /\ managed \in [Repos -> 0 .. MaxEpochs]
    /\ gen \in [Repos -> 0 .. MaxEpochs]
    /\ cancelled \subseteq Instances /\ nudge \subseteq Instances
    /\ \A i \in Instances :
          /\ poll[i].at \in {"off", "idle", "list", "enqueue", "drop",
                             "removed", "start", "checks"}
          /\ poll[i].k \in 0 .. MaxBatches /\ poll[i].snap \in BOOLEAN
          /\ op[i].at \in {"idle", "form", "build", "save", "land",
                           "eject", "rebuild", "finish"}
          /\ op[i].k \in 0 .. MaxBatches
    /\ entry \in [Repos -> Absent .. MaxBatches]
    /\ rows \in [BatchIds -> Row]
    /\ events \in 0 .. MaxEvents
    /\ absent \subseteq Repos /\ told \subseteq Instances
    /\ unheard \subseteq 1 .. Len(Sources) /\ purged \subseteq Repos

Cycle == [at |-> "add", src |-> 0, todo |-> Explicit, want |-> {},
          repo |-> NoRepo]

(* run() wires the sources, the registry and the trigger, and starts the   *)
(* first cycle before anything is served.                                  *)
Init ==
    /\ listed = Repos \ Explicit /\ open = Polled
    /\ disc = Cycle /\ serving = FALSE /\ dtrig = FALSE
    /\ managed = [r \in Repos |-> 0] /\ gen = [r \in Repos |-> 0]
    /\ cancelled = {} /\ nudge = {}
    /\ poll = [i \in Instances |-> [at |-> "off", k |-> NoBatch, snap |-> FALSE]]
    /\ entry = [r \in Repos |-> Absent]
    /\ rows = [k \in BatchIds |-> [repo |-> NoRepo, state |-> "closed", ff |-> 0]]
    /\ op = [i \in Instances |-> Idle]
    /\ call = NoCall
    /\ events = 0
    /\ absent = {} /\ told = {} /\ unheard = {} /\ purged = {}

Arrives == events < MaxEvents /\ events' = events + 1

(* --- The database ------------------------------------------------------ *)

LiveRows(r) ==
    {k \in BatchIds : rows[k].repo = r /\ rows[k].state \in {"forming", "testing"}}

(* CancelLiveBatchesByRepo.                                                *)
CancelLiveBatches(r) ==
    rows' = [k \in BatchIds |-> IF k \in LiveRows(r)
                                THEN [rows[k] EXCEPT !.state = "closed", !.ff = 0]
                                ELSE rows[k]]

(* DequeueAllByRepo.                                                       *)
DequeueAll(r) == entry' = [entry EXCEPT ![r] = Absent]

(* SaveBatch goes by id and does not look at the state it overwrites; only *)
(* the index ux_batches_live can refuse it.                                *)
Refused(k) == LiveRows(rows[k].repo) \ {k} # {}

(* Row ids are unbounded in the program: a finished row nobody refers to   *)
(* any more stands for a new one.                                          *)
Free == {k \in BatchIds :
            /\ rows[k].state = "closed"
            /\ \A r \in Repos : entry[r] # k
            /\ \A i \in Instances : op[i].k # k /\ poll[i].k # k
            /\ call.k # k}

(* --- The engine of an instance: operations under its mutex ------------- *)

Now(i, at) == op' = [op EXCEPT ![i].at = at]
Unlock(i)  == op' = [op EXCEPT ![i] = Idle]

(* A poller's context is cancelled by Remove; a request's is not.          *)
Alive(i) == ~ (op[i].by = "poller" /\ i \in cancelled)

Step(i, at) == op[i].at = at /\ Alive(i)

(* Negative control: without the buffer only a poller at its select hears. *)
TriggerUnbuffered(i) ==
    /\ nudge' = IF poll[i].at = "idle" THEN nudge \cup {i} ELSE nudge
    /\ told' = told \cup ({i} \ cancelled)

(* A non-blocking send on a channel with room for one token.               *)
Trigger(i) == nudge' = nudge \cup {i} /\ told' = told \cup ({i} \ cancelled)

Form(i) ==
    /\ Step(i, "form")
    /\ \/ /\ LiveRows(i[1]) # {}
          /\ \E k \in LiveRows(i[1]) :
                IF rows[k].state = "forming"
                THEN op' = [op EXCEPT ![i].at = "build", ![i].k = k]
                ELSE Unlock(i)
          /\ UNCHANGED store
       \/ /\ LiveRows(i[1]) = {} /\ entry[i[1]] = NoBatch
          /\ \E k \in Free :
                /\ k = CHOOSE f \in Free : TRUE
                /\ rows' = [rows EXCEPT ![k] =
                              [repo |-> i[1], state |-> "forming", ff |-> 0]]
                /\ entry' = [entry EXCEPT ![i[1]] = k]
                /\ op' = [op EXCEPT ![i].at = "build", ![i].k = k]
       \/ /\ LiveRows(i[1]) = {} /\ entry[i[1]] # NoBatch
          /\ Unlock(i)
          /\ UNCHANGED store
    /\ UNCHANGED <<world, chan, events>>

(* Build reads the members and stacks them; one that conflicts is ejected, *)
(* and a batch that lost them all finishes.                                *)
Build(i) ==
    /\ Step(i, "build")
    /\ IF entry[i[1]] = op[i].k THEN Now(i, "save") \/ Now(i, "eject")
       ELSE Now(i, "finish")
    /\ UNCHANGED <<world, store, chan, events>>

SaveTesting(i) ==
    /\ Step(i, "save")
    /\ ~ Refused(op[i].k) /\ rows' = [rows EXCEPT ![op[i].k].state = "testing"]
    /\ Unlock(i)
    /\ UNCHANGED <<world, entry, chan, events>>

(* What HandlePass and HandleFail of a batch in test come to: the PR lands *)
(* or is ejected, or the target has moved and the batch is built again.    *)
Outcomes(k) ==
    {"land", "eject"} \cup (IF rows[k].ff < MaxRetries THEN {"rebuild"} ELSE {})

(* The PR merges with the fast-forward, or leaves with its automerge.  A   *)
(* failing Dequeue or CancelAutoMerge is only logged.                      *)
Settle(i) ==
    LET r    == i[1]
        mine == entry[r] = op[i].k
        gone == IF mine THEN [entry EXCEPT ![r] = Absent] ELSE entry
        left == IF mine \/ op[i].at = "land" THEN open \ {r} ELSE open
    IN  /\ Step(i, "land") \/ Step(i, "eject")
        /\ \/ entry' = gone /\ open' = left /\ UNCHANGED events
           \/ entry' = entry /\ open' = left /\ Arrives
           \/ op[i].at = "eject" /\ entry' = gone /\ open' = open /\ Arrives
        /\ Now(i, "finish")
        /\ UNCHANGED <<listed, rows, chan>>

Rebuild(i) ==
    /\ Step(i, "rebuild")
    /\ ~ Refused(op[i].k)
    /\ rows' = [rows EXCEPT ![op[i].k].state = "forming",
                            ![op[i].k].ff = IF @ < MaxRetries THEN @ + 1 ELSE @]
    /\ Now(i, "build")
    /\ UNCHANGED <<world, entry, chan, events>>

(* The row is done; Advance asks for the next poll.                        *)
Finish(i) ==
    /\ Step(i, "finish")
    /\ rows' = [rows EXCEPT ![op[i].k].state = "closed", ![op[i].k].ff = 0]
    /\ Unlock(i)
    /\ Trigger(i)
    /\ UNCHANGED <<world, entry, events>>

(* A call to the database or the forge fails, the context of the poller or *)
(* of the request ends, or the index refuses a save: the operation returns *)
(* and leaves the rows as they are.  A build that ends so leaves its row   *)
(* forming and its members in test.                                        *)
Abort(i) ==
    /\ op[i].at # "idle"
    /\ \/ ~ Alive(i) /\ UNCHANGED events
       \/ op[i].at \in {"save", "rebuild"} /\ Refused(op[i].k) /\ UNCHANGED events
       \/ Arrives
    /\ Unlock(i)
    /\ UNCHANGED <<world, store, chan>>

Engine(i) ==
    /\ \/ Form(i) \/ Build(i) \/ SaveTesting(i) \/ Settle(i)
       \/ Rebuild(i) \/ Finish(i) \/ Abort(i)
    /\ UNCHANGED <<disc, serving, dtrig, managed, gen, cancelled, poll, call,
                   absent, unheard, purged>>

(* --- The poller of an instance ----------------------------------------- *)

Goto(i, at) == poll' = [poll EXCEPT ![i].at = at]

(* The poller waits while it runs an operation of the engine itself.       *)
At(i, at) == poll[i].at = at /\ op[i].by # "poller"

Lock(i, at, k, by) ==
    op[i] = Idle /\ op' = [op EXCEPT ![i] = [at |-> at, k |-> k, by |-> by]]

(* Run's select.  When several cases are ready it takes any of them, but a *)
(* poll after the cancellation fails on its first call and is left out.    *)
Stop(i) ==
    /\ At(i, "idle") /\ i \in cancelled
    /\ Goto(i, "off")
    /\ UNCHANGED <<store, op, chan, events>>

Triggered(i) ==
    /\ At(i, "idle") /\ i \in nudge \ cancelled
    /\ Goto(i, "list")
    /\ nudge' = nudge \ {i}
    /\ UNCHANGED <<store, op, told, events>>

(* Negative control: a repository seen idle is polled on webhooks only.    *)
TickBusy(i) ==
    /\ At(i, "idle") /\ i \notin cancelled
    /\ entry[i[1]] # Absent \/ LiveRows(i[1]) # {}
    /\ Goto(i, "list")
    /\ UNCHANGED <<store, op, chan, events>>

(* A tick polls unless the repository is idle and its idle interval is not *)
(* over yet, which a later tick finds over.  Polls that would find nothing *)
(* to do are left out.                                                     *)
Tick(i) ==
    /\ At(i, "idle") /\ i \notin cancelled
    /\ i[1] \in open \/ entry[i[1]] # Absent \/ LiveRows(i[1]) # {}
    /\ Goto(i, "list")
    /\ UNCHANGED <<store, op, chan, events>>

ListOpenPRs(i) ==
    /\ At(i, "list") /\ i \notin cancelled
    /\ poll' = [poll EXCEPT ![i] = [at |-> "enqueue", k |-> NoBatch,
                                     snap |-> i[1] \in open]]
    /\ told' = told \ {i}
    /\ UNCHANGED <<store, op, nudge, events>>

(* The forge does not answer: this poll is over, and its token is spent.   *)
Paused(i) ==
    /\ At(i, "list")
    /\ \/ i \in cancelled /\ UNCHANGED events
       \/ Arrives
    /\ Goto(i, "idle")
    /\ told' = told \ {i}
    /\ UNCHANGED <<store, op, nudge>>

Enqueue(i) ==
    /\ At(i, "enqueue")
    /\ entry' = IF poll[i].snap /\ entry[i[1]] = Absent /\ i \notin cancelled
                THEN [entry EXCEPT ![i[1]] = NoBatch] ELSE entry
    /\ poll' = [poll EXCEPT ![i].at = IF poll[i].snap THEN "start" ELSE "drop",
                            ![i].snap = FALSE]
    /\ UNCHANGED <<rows, op, chan, events>>

(* Negative control: the poller reports whatever it listed as gone.        *)
DropUnlisted(i) ==
    /\ At(i, "drop")
    /\ entry' = [entry EXCEPT ![i[1]] = Absent]
    /\ poll' = [poll EXCEPT ![i].at = "removed", ![i].k = entry[i[1]]]
    /\ UNCHANGED <<rows, op, chan, events>>

(* reconcileEntries: the pull request left, so its row goes, and then the  *)
(* engine is told which batch lost a member.                               *)
DropEntry(i) ==
    /\ At(i, "drop")
    /\ IF entry[i[1]] # Absent /\ i \notin cancelled
       THEN /\ entry' = [entry EXCEPT ![i[1]] = Absent]
            /\ IF entry[i[1]] = NoBatch THEN Goto(i, "start")
               ELSE poll' = [poll EXCEPT ![i].at = "removed", ![i].k = entry[i[1]]]
       ELSE UNCHANGED entry /\ Goto(i, "start")
    /\ UNCHANGED <<rows, op, chan, events>>

OnMemberRemoved(i) ==
    /\ At(i, "removed")
    /\ IF poll[i].k \in LiveRows(i[1]) /\ i \notin cancelled
       THEN Lock(i, "rebuild", poll[i].k, "poller")
       ELSE op[i] = Idle /\ UNCHANGED op
    /\ poll' = [poll EXCEPT ![i].at = "start", ![i].k = NoBatch]
    /\ UNCHANGED <<store, chan, events>>

(* startQueuedHeads: only a head still queued calls FormAndBuild.          *)
StartQueuedHeads(i) ==
    /\ At(i, "start")
    /\ IF entry[i[1]] = NoBatch /\ i \notin cancelled
       THEN Lock(i, "form", NoBatch, "poller")
       ELSE UNCHANGED op
    /\ Goto(i, "checks")
    /\ UNCHANGED <<store, chan, events>>

(* pollMergeBranchChecks: results, or the timeout of a batch in test.      *)
Testing(r) == {k \in LiveRows(r) : rows[k].state = "testing"}

PollChecks(i) ==
    /\ At(i, "checks") /\ i \notin cancelled
    /\ \E k \in Testing(i[1]) : \E at \in Outcomes(k) : Lock(i, at, k, "poller")
    /\ Goto(i, "idle")
    /\ UNCHANGED <<store, chan, events>>

(* No result yet and no timeout either, or nothing in test.                *)
NoResult(i) ==
    /\ At(i, "checks")
    /\ Goto(i, "idle")
    /\ UNCHANGED <<store, op, chan, events>>

Poller(i) ==
    /\ i[1] \in Polled
    /\ \/ Stop(i) \/ Triggered(i) \/ Tick(i) \/ ListOpenPRs(i) \/ Paused(i)
       \/ Enqueue(i) \/ DropEntry(i) \/ OnMemberRemoved(i)
       \/ StartQueuedHeads(i) \/ PollChecks(i) \/ NoResult(i)
    /\ UNCHANGED <<world, disc, serving, dtrig, managed, gen, cancelled, call,
                   absent, unheard, purged>>

(* --- Webhook requests --------------------------------------------------- *)

(* A status or check-run event finds the monitor of its repository; events *)
(* of repositories that are not managed are dropped.                       *)
StatusEvent(r) ==
    /\ serving /\ call.at = "idle" /\ managed[r] # 0
    /\ Arrives
    /\ call' = [at |-> "route", i |-> <<r, managed[r]>>, k |-> NoBatch]
    /\ UNCHANGED <<op, chan>>

(* maybeTriggerPoll: a green check polls, another one does not.            *)
Respond ==
    /\ call' = NoCall
    /\ Trigger(call.i) \/ UNCHANGED chan

RouteCheck ==
    /\ call.at = "route" /\ UNCHANGED <<op, events>>
    /\ LET k == entry[call.i[1]]
       IN  IF k \in BatchIds
           THEN call' = [call EXCEPT !.at = "check", !.k = k] /\ UNCHANGED chan
           ELSE Respond

(* HandleCheck decides the batch, or drops what comes too late or too      *)
(* early to decide it.                                                     *)
HandleCheck ==
    /\ call.at = "check" /\ rows[call.k].state = "testing"
    /\ \E at \in Outcomes(call.k) : Lock(call.i, at, call.k, "call")
    /\ call' = [call EXCEPT !.at = "wait", !.k = NoBatch]
    /\ UNCHANGED <<chan, events>>

DropCheck ==
    /\ call.at = "check" /\ op[call.i] = Idle
    /\ Respond
    /\ UNCHANGED <<op, events>>

Handled ==
    /\ call.at = "wait" /\ op[call.i].by # "call"
    /\ Respond
    /\ UNCHANGED <<op, events>>

Webhook ==
    /\ \/ \E r \in Polled : StatusEvent(r)
       \/ RouteCheck \/ HandleCheck \/ DropCheck \/ Handled
    /\ UNCHANGED <<world, disc, serving, dtrig, managed, gen, cancelled, poll,
                   store, absent, unheard, purged>>

(* A pull_request event only asks for a poll, an installation event only   *)
(* for a discovery cycle.                                                  *)
PullRequestEvent(r) ==
    /\ serving /\ managed[r] # 0
    /\ Trigger(<<r, managed[r]>>)
    /\ UNCHANGED <<dtrig, unheard>>

InstallationEvent ==
    /\ serving
    /\ dtrig' = TRUE
    /\ unheard' = 1 .. Len(Sources)
    /\ UNCHANGED chan

Event ==
    /\ Arrives
    /\ InstallationEvent \/ \E r \in Polled : PullRequestEvent(r)
    /\ UNCHANGED <<world, disc, serving, managed, gen, cancelled, poll, store,
                   op, call, absent, purged>>

(* --- Discovery and the registry ----------------------------------------- *)

Of(kind) == {r \in Repos : Kind[r] = kind}

Move(at) == disc' = [disc EXCEPT !.at = at]

(* The instance Add is making, or Remove is taking down.                   *)
New == <<disc.repo, gen[disc.repo]>>

(* The end of the first cycle lets main serve and start discovery.Run.     *)
Serve ==
    /\ disc.at = "idle" /\ ~ serving
    /\ serving' = TRUE
    /\ UNCHANGED <<disc, dtrig>>

(* Run: a token, or a tick.  Cycles that would find nothing to do are left *)
(* out of the latter.                                                      *)
StartCycle ==
    /\ disc.at = "idle" /\ serving
    /\ \/ dtrig /\ dtrig' = FALSE
       \/ /\ {r \in Repos : managed[r] # 0} # listed \cup Explicit
          /\ UNCHANGED dtrig
    /\ disc' = Cycle
    /\ UNCHANGED serving

(* addNew passes over what is managed; Add may fail on the database.       *)
Skip(r) ==
    /\ disc.at = "add" /\ r \in disc.todo
    /\ \/ managed[r] # 0 /\ UNCHANGED events
       \/ managed[r] = 0 /\ Arrives
    /\ disc' = [disc EXCEPT !.todo = @ \ {r}]
    /\ UNCHANGED <<absent, unheard>>

(* What the registry holds of the source's forge and nobody wants.         *)
Victims ==
    {r \in Of(Sources[disc.src]) : managed[r] # 0} \ (disc.want \cup Explicit)

AddedAll ==
    /\ disc.at = "add" /\ disc.todo = {}
    /\ disc' = IF disc.src = 0 THEN [disc EXCEPT !.at = "list", !.src = 1]
               ELSE [disc EXCEPT !.at = "prune", !.todo = Victims]
    /\ UNCHANGED <<events, absent, unheard>>

Listing == disc.at = "list" /\ disc.src <= Len(Sources)

ListSource ==
    /\ Listing
    /\ LET own == Of(Sources[disc.src])
       IN  /\ disc' = [disc EXCEPT !.at = "add", !.want = listed \cap own,
                                   !.todo = listed \cap own]
           /\ absent' = own \ listed
    /\ unheard' = unheard \ {disc.src}
    /\ UNCHANGED events

(* Negative control: an error is taken for an empty answer.                *)
SourceFailedEmpty ==
    /\ Listing /\ Arrives
    /\ disc' = [disc EXCEPT !.at = "add", !.want = {}, !.todo = {}]
    /\ absent' = {} /\ unheard' = unheard \ {disc.src}

(* A source that fails keeps the repositories of its forge.                *)
SourceFailed ==
    /\ Listing /\ Arrives
    /\ disc' = [disc EXCEPT !.src = @ + 1]
    /\ absent' = {} /\ unheard' = unheard \ {disc.src}

Pruned ==
    /\ disc.at = "prune" /\ disc.todo = {}
    /\ disc' = [disc EXCEPT !.at = "list", !.src = @ + 1, !.want = {}]
    /\ UNCHANGED <<events, absent, unheard>>

EndCycle ==
    /\ disc.at = "list" /\ disc.src > Len(Sources)
    /\ disc' = [Cycle EXCEPT !.at = "idle", !.todo = {}]
    /\ absent' = {} /\ UNCHANGED <<events, unheard>>

DiscoverOnce ==
    /\ \/ \E r \in Repos : Skip(r)
       \/ AddedAll \/ ListSource \/ SourceFailed \/ Pruned \/ EndCycle
    /\ UNCHANGED <<managed, gen, cancelled, poll, store, op, purged>>

(* Add: the database knows the repository ...                              *)
Add(r) ==
    /\ disc.at = "add" /\ r \in disc.todo
    /\ managed[r] = 0 /\ gen[r] < MaxEpochs
    /\ gen' = [gen EXCEPT ![r] = @ + 1]
    /\ disc' = [disc EXCEPT !.todo = @ \ {r}, !.repo = r, !.at = "reconcile"]
    /\ UNCHANGED <<managed, cancelled, poll, op, purged>>

(* ... ReconcileLive builds what is forming, and re-stamps what is in test *)
ReconcileLive ==
    /\ disc.at = "reconcile"
    /\ LET forming == {k \in LiveRows(disc.repo) : rows[k].state = "forming"}
       IN  IF forming = {} THEN UNCHANGED op
           ELSE \E k \in forming : Lock(New, "build", k, "boot")
    /\ Move("spawn")
    /\ UNCHANGED <<managed, gen, cancelled, poll, purged>>

(* ... the poller starts, with its first poll, before the repository is    *)
(* in the registry: webhooks that come in between are dropped ...          *)
SpawnPoller ==
    /\ disc.at = "spawn" /\ op[New] = Idle
    /\ poll' = [poll EXCEPT ![New].at = "list"]
    /\ purged' = purged \ {disc.repo}
    /\ Move("register")
    /\ UNCHANGED <<managed, gen, cancelled, op>>

(* ... and whoever registers it second drops its own poller.               *)
Register ==
    /\ disc.at = "register"
    /\ IF managed[disc.repo] = 0
       THEN managed' = [managed EXCEPT ![disc.repo] = gen[disc.repo]]
            /\ UNCHANGED cancelled
       ELSE cancelled' = cancelled \cup {New} /\ UNCHANGED managed
    /\ disc' = [disc EXCEPT !.at = "add", !.repo = NoRepo]
    /\ UNCHANGED <<gen, poll, op, purged>>

(* Remove: the repository leaves the registry ...                          *)
Unregister(r) ==
    /\ disc.at = "prune" /\ r \in disc.todo
    /\ managed' = [managed EXCEPT ![r] = 0]
    /\ disc' = [disc EXCEPT !.at = "cancel", !.todo = @ \ {r}, !.repo = r]
    /\ UNCHANGED <<gen, cancelled, poll, op, purged>>

(* Negative control: the poller is not stopped.                            *)
LeavePoller ==
    /\ disc.at = "cancel"
    /\ Move("rows")
    /\ UNCHANGED <<managed, gen, cancelled, poll, op, purged>>

(* ... its poller is stopped ...                                           *)
CancelPoller ==
    /\ disc.at = "cancel"
    /\ cancelled' = cancelled \cup {New}
    /\ Move("rows")
    /\ UNCHANGED <<managed, gen, poll, op, purged>>

Managing ==
    /\ \/ \E r \in Repos : Add(r) \/ Unregister(r)
       \/ ReconcileLive \/ SpawnPoller \/ Register \/ CancelPoller
    /\ UNCHANGED <<store, events, absent, unheard>>

(* ... its live batches are cancelled ...                                  *)
CancelRows ==
    /\ disc.at = "rows"
    /\ \/ CancelLiveBatches(disc.repo) /\ UNCHANGED events
       \/ Arrives /\ UNCHANGED rows
    /\ Move("purge")
    /\ UNCHANGED <<entry, purged>>

(* ... and its entries deleted; a failure of either is only logged.        *)
PurgeEntries ==
    /\ disc.at = "purge"
    /\ \/ DequeueAll(disc.repo) /\ purged' = purged \cup {disc.repo}
          /\ UNCHANGED events
       \/ Arrives /\ UNCHANGED <<entry, purged>>
    /\ disc' = [disc EXCEPT !.at = "prune", !.repo = NoRepo]
    /\ UNCHANGED rows

Cleanup ==
    /\ CancelRows \/ PurgeEntries
    /\ UNCHANGED <<managed, gen, cancelled, poll, op, absent, unheard>>

Discovery ==
    /\ \/ /\ Serve \/ StartCycle
          /\ UNCHANGED <<managed, gen, cancelled, poll, store, op, events, absent,
                         unheard, purged>>
       \/ /\ DiscoverOnce \/ Managing \/ Cleanup
          /\ UNCHANGED <<serving, dtrig>>
    /\ UNCHANGED <<world, chan, call>>

(* --- The world ----------------------------------------------------------- *)

Change ==
    /\ Arrives
    /\ \E r \in Polled :
          \/ listed' = (listed \ {r}) \cup ({r} \ listed) /\ UNCHANGED open
          \/ open' = (open \ {r}) \cup ({r} \ open) /\ UNCHANGED listed
    /\ UNCHANGED <<disc, serving, dtrig, managed, gen, cancelled, poll, store,
                   op, call, chan, absent, unheard, purged>>

Next ==
    \/ \E i \in Instances : Engine(i) \/ Poller(i)
    \/ Webhook \/ Event \/ Discovery \/ Change

(* Every goroutine runs on, discovery and the pollers tick, and CI answers *)
(* or the batch's timeout passes.                                          *)
Fairness ==
    /\ WF_vars(\E i \in Instances : Engine(i))
    /\ WF_vars(\E i \in Instances : Poller(i))
    /\ SF_vars(\E i \in Instances : Poller(i) /\ PollChecks(i))
    /\ WF_vars(Discovery)

Spec == Init /\ [][Next]_vars /\ Fairness

(* --- Properties ---------------------------------------------------------- *)

(* A running poller that is not cancelled belongs to the instance the      *)
(* registry holds, or to one that Add or Remove is working on: Remove and  *)
(* a later Add never leave two pollers on one queue (registry.go:174-186,  *)
(* registry.go:207).                                                       *)
NoOrphanPoller ==
    \A i \in Instances :
        poll[i].at # "off" /\ i \notin cancelled =>
            managed[i[1]] = i[2] \/ (disc.repo = i[1] /\ New = i)

(* After Remove has deleted a repository's entries nothing enters its      *)
(* queue until it is added again, whatever its poller and webhook requests *)
(* were doing (registry.go:193-232).                                       *)
PurgedStaysEmpty == \A r \in purged : entry[r] = Absent

(* No wake-up is lost: when an instance was told to poll after it last     *)
(* listed the pull requests, a poll is asked for or about to list; when an *)
(* installation event came after a source was last asked, a cycle is asked *)
(* for or will still ask that source (registry.go:98-107, main.go:130,     *)
(* main.go:165-170).                                                       *)
NothingUnheard ==
    /\ \A i \in told : i \in cancelled \/ i \in nudge \/ poll[i].at = "list"
    /\ \A s \in unheard :
          \/ dtrig
          \/ disc.at # "idle" /\ disc.src < s
          \/ disc.at = "list" /\ disc.src = s

(* A repository leaves the registry only when the forge it lives on has    *)
(* answered in this cycle, without it, and it is not explicit: an outage   *)
(* of one forge evicts nothing (discovery.go:1-3, discovery.go:47-50).     *)
RemovesOnlyUnlisted ==
    [][\A r \in Repos : managed[r] # 0 /\ managed'[r] = 0
                            => r \in absent \ Explicit]_vars

(* The entry is in a batch that is over.  When Remove cancels the batches  *)
(* and then fails to delete the entries (registry.go:223-228), the next    *)
(* instance finds it so, and so it is when an ejected PR is not dequeued   *)
(* (batch.go:496) and is scheduled again: it is not queued, so nothing     *)
(* starts it, and its batch is not live, so nothing ends it.               *)
Stranded(r) == entry[r] \in BatchIds /\ rows[entry[r]].state = "closed"

(* The entry is in a batch that a failed build left forming: it is in      *)
(* test, so the poller does not form a batch, and nothing is reported for  *)
(* a batch that has no commit (poller.go:495).                             *)
HalfBuilt(r) ==
    /\ entry[r] \in BatchIds /\ rows[entry[r]].state = "forming"
    /\ \A i \in Instances : op[i].k # entry[r]

(* A pull request that waits for automerge for ever, in a repository its   *)
(* forge lists, has at last been stranded or left half-built by a call     *)
(* that failed, for good; any other is served.  Discovery gets to the      *)
(* repository and the poller to the queue whatever failed before, and a    *)
(* row that a request of a removed instance revived (SaveBatch goes by id) *)
(* does not block the queue of the next one for ever (poller.go:204-211).  *)
QueuedIsServed ==
    \A r \in Polled :
        <>[](r \in open \cap listed) => <>[](Stranded(r) \/ HalfBuilt(r))

(* "A forming batch means a previous Build errored mid-run; retry it so a  *)
(* transient forge failure does not stall the queue until restart."        *)
(* (batch.go:128-129)                                                      *)
FormingIsRetried == \A r \in Polled : HalfBuilt(r) ~> ~ HalfBuilt(r)

=============================================================================
