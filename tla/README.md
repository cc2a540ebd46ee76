# gitea-mq: models, checks and proofs

This directory holds TLA+ models of gitea-mq, a merge queue for Gitea and GitHub
repositories, the TLC configurations that check them, and proofs checked by TLAPS.
Paths such as `batch.go:203` are under `src/internal/<package>/`.

## 1. The system

| Component | State | Operations | Talks to |
|---|---|---|---|
| Queue service and store (`queue`, `store/pg`) | tables `queue_entries`, `check_statuses`, `batches` | Enqueue, Dequeue, Advance, UpdateState, SetMergeBranch, SaveCheckStatus, FormBatch, SaveBatch, ClearMergeBranch, ClearCheckStatuses, DequeueAll | called by all others; one SQL statement or transaction per call |
| Batch engine (`batch`) | one mutex per target branch; the batch row in memory while an operation runs | FormAndBuild, HandleCheck, HandlePass, HandleFail, HandleTimeout, OnMemberRemoved, ReconcileLive | store, forge |
| Check evaluation and monitor (`monitor`) | none | ResolveRequiredChecks, EvaluateChecks, ApplyCheck, ProcessCheckStatus, HandleSuccess, HandleFailure, HandleTimeout | store, forge, batch engine |
| Merge (`merge`) | none | StartTesting, CleanupMergeBranch, CleanupStaleBranches | store, forge |
| Poller (`poller`) | one goroutine per repository; snapshots of PRs and entries within a tick | PollOnce: enqueue, reconcile, start heads, poll checks | store, forge, monitor, batch engine |
| Webhook handlers (`webhook`) | one goroutine per request; a snapshot of an entry | routeCheck, triggers of a poll | monitor, poller, registry |
| Registry and discovery (`registry`, `discovery`) | map of managed repositories and their poller goroutines | Add, Remove, DiscoverOnce | store, batch engine, poller |
| GitHub client (`github`) | the ETag cache, the identifiers of check runs, which installation covers a repository | CreateMergeBranch, MergeInto, FastForward, ClosePR, upsertCheckRun, Refresh, ... | GitHub |
| Gitea client (`gitea`) | one bare clone per repository and its lock | StackMerges, MergeBranches, FastForwardRef, cleanupStale, ... | Gitea |
| Web dashboard (`web`) | none | renders the tables | store |
| Configuration and wiring (`config`, `cmd`) | none | start-up order: ReconcileLive, then poller, then HTTP | all |

**How a batch lives.** The poller enqueues PRs whose automerge is on and whose own checks are
green. When the head of a branch's queue is `queued` it calls `FormAndBuild`, which moves up to
`GITEA_MQ_BATCH_MAX` entries to `testing` and builds a branch that merges them all onto the
target's tip (`Build`). Results of CI on that commit arrive by webhook or by polling and are
recorded on the first member (`HandleCheck`). When all required checks pass, the target is
fast-forwarded to the commit (`HandlePass`); when one fails or CI takes too long, the batch is
split and the first half rebuilt, the second pushed on a stack (`HandleFail`). Members that
conflict or fail alone are ejected. A member that its author closes, retargets, pushes to or
takes off automerge is deleted by the poller, which then tells the engine (`OnMemberRemoved`).

**How a PR lives without batches** (`GITEA_MQ_BATCH_MAX=1`). The poller merges the head of the
queue onto the tip of the target (`StartTesting`), its checks run there, and when they pass the
gitea-mq status of the PR's own head commit becomes success, upon which the forge merges the PR
itself. When they fail the status becomes failure, the PR's automerge is cancelled, and the PR
leaves the queue (`ProcessCheckStatus`, `removeFromQueue`, `Advance`). No mutex protects any of
this: every webhook handler and the poller run it, each on its own snapshot of an entry.

**What is hard here.**

* *Interleaving.* The mutex serialises the engine's operations only. While one runs, the poller
  deletes and enqueues entries, webhooks take snapshots of entries, CI posts results and people
  push to the target. Several statements go by PR number, which survives the entry.
* *Stale results.* An event is routed with a snapshot and waits for the mutex; deliveries come
  late, twice and out of order; the poller fetches a commit's results before it waits.
* *Atomicity.* An operation is a sequence of statements and forge calls: it can be cancelled
  between any two (a webhook's context ends when the client hangs up), fail in any of them with
  the error only logged, or die with the process.
* *Two lives of one repository.* Discovery removes a repository and may add it again while the
  poller, the engine and webhook requests of its first life still run.
* *The forge.* A merge or a landing is several requests; an answer may be lost although the
  request had its effect; the same branch, pull request or check run is changed by people and by
  other goroutines meanwhile; caches stand between the client and the server.
* *Progress.* CI may never answer; the retry of a half-built batch, the timeout and the stack of
  pending halves must together bring every batch to an end.

**What makes each component correct.**

* Engine: only a commit CI passed lands; only a red or overdue build is split; PRs land in FIFO
  order; no member is stranded; what left the queue does not land; every batch ends; the number
  of builds is capped.
* Store: one row per PR, one live batch per branch, an entry is routed to a commit only if that
  commit merges it.
* Poller and webhooks: results of one build meet on one ledger; a snapshot never decides about a
  later build.
* Monitor without batching: a PR leaves the queue only for its own result; a failed one does
  leave.
* Registry: what is removed leaves no work behind; a repository has one poller; an outage evicts
  nothing; a repository that is listed is served.
* GitHub client: a build holds exactly its members; nothing is merged twice, a landed PR does not
  stay open; what is read is current; a check run is not duplicated without need.
* Gitea client: a build starts from a current target; nobody's objects go while they are used; a
  broken clone is replaced.

## 2. Modules

| Module | Models | Extends |
|---|---|---|
| `CheckEval` | check states, `ResolveRequiredChecks`, `EvaluateChecks` | |
| `Forge` | target branch, commits and what they merge, `StackMerges`, the fast-forward rule, results of CI | `CheckEval` |
| `QueueStore` | the tables and the statements of the batched path, each an operator giving the table's new value | `Forge` |
| `BatchEngine` | the engine step by step, its callers, the clock, the faults; the properties | `QueueStore` |
| `BatchInvariant` | the inductive invariant `IInv` | `BatchEngine` |
| `BatchTypeProofs` | proof of `TypeOK` | `BatchEngine` |
| `BatchSafetyProofs` | proof of `IInv` and of three properties | `BatchInvariant`, `BatchTypeProofs` |
| `MCBatch` | values of the constants | `BatchInvariant` |
| `MergeQueue` | what a merge queue promises, in four sets | |
| `BatchRefinement` | the refinement mapping from `BatchEngine` to `MergeQueue`, and the invariants behind it and behind bisection | `BatchInvariant` |
| `BatchQueueProofs` | proofs about the entries: order, routing, landing, the refinement | `BatchSafetyProofs`, `BatchRefinement` |
| `SingleQueue` | the queue without batches: poller, webhook handlers, forge and users; the properties | `Forge` |
| `SingleInvariant` | the inductive invariant `SingleInv` | `SingleQueue` |
| `SingleProofs` | proof of `SingleInv` and of four properties | `SingleInvariant` |
| `Lifecycle` | discovery, registry, the start and stop of pollers, webhook requests that outlive a repository | |
| `LifecycleProofs` | its inductive invariant and the proof of its five safety properties | `Lifecycle` |
| `GitHub` | GitHub's refs, commits and pull requests, handler by handler (`ghfake`) | |
| `GithubForge` | the GitHub adapter under the engine, request by request | `GitHub` |
| `GithubForgeProofs` | its inductive invariant and the proof of its five safety properties | `GithubForge` |
| `GithubCache` | GETs through the shared ETag cache; check runs and installations on the server | |
| `GithubChecks` | `upsertCheckRun`, `GetCheckStates`, the App's `Refresh` | `GithubCache` |
| `GithubChecksProofs` | its inductive invariant and the proof of its five safety properties | `GithubChecks` |
| `GitCache` | the clone on Gitea, `StackMerges`, `FastForwardRef` | |
| `GitCacheProofs` | its inductive invariant and the proof of its four safety properties | `GitCache` |

`MCBatch`, `MCSingle`, `MCLifecycle`, `MCGithub`, `MCChecks` and `MCGitCache` give the constants
their values.

The modules meet at three seams. `BatchEngine` sees the forge as one call with an answer
(`Forge`); `GithubForge` and `GitCache` take that call apart for the two forges, with the engine
reduced to the row of its batch. `Lifecycle` reduces the engine further, to the state of the one
batch of a repository, and multiplies it by the lives a repository may have. `MergeQueue` is what
all of it is for.

### State and actions of `BatchEngine`

`pc` is the step the operation holding the mutex is at, `by` its caller, `bid` the batch, `b`
its copy of the row, `todo`/`keep`/`out` the loop over the members and `built` the commit
`stack()` made. One action is one statement or one forge call, with the control flow up to the
next:

| Code | Actions |
|---|---|
| `FormAndBuild` (batch.go:118) | `FormBatch`, `RetryForming` |
| `Build` (batch.go:143) | `Build` (load members, `stack()`), `EjectOne`/`KeepOne` (loop), `Sorted`, `SaveTesting`, `StampOne`, `AllStamped`, `ClearLedger` |
| `HandleCheck` (monitor.go:10) | `DropCheck`, `SaveCheck`, `EvaluatePass`, `EvaluateWait`, `EvaluateFail` |
| `HandlePass` (batch.go:226) | `FastForward`, `FastForwardRaced`, `FastForwardDenied`, `LandOne`, `Settle` |
| `HandleFail`, `HandleTimeout` (batch.go:281, 329) | `HandleFail`, `EvaluateFail`, `HandleTimeout`, `EjectOne` |
| `rebuild`, `next` (batch.go:447, 458) | `Rebuild`, `NextSlice`, `Finish` |
| `OnMemberRemoved` (batch.go:341) | `RemovedTooLate`, `RemovedPending`, `RemovedCurrent` |
| `ReconcileLive` (batch.go:390) | `ReconcileForming`, `ReconcileTesting`, `ReconcileDone` |
| poller | `Enqueue`, `PromoteHead`, `RemoveEntry`, `PollChecks`, and the calls of the engine |
| webhook | `Webhook` |
| faults | `Abort`, `AbortRemoval`, `Crash`, and a disjunct for each statement whose error is only logged (`EjectOne`, `LandOne`, `RemoveEntry`, `StampOne`, `ClearLedger`, `HandleFail`) |

The poller is one goroutine. `PollerFree` says it is neither inside the engine, nor holding
results it fetched and has not delivered (`calls` of the poller), nor between deleting a member
and reporting it (`removing`).

### State and actions of `SingleQueue`

`threads[t]` is a run of `ProcessCheckStatus` by webhook handler `t` or by the poller: its
statement, its snapshot of an entry (id and merge commit), the event and the verdict. The poller
has a tick besides: `ppc` is its phase, `seen` the PRs it listed at the start, `snap` the entries'
states it listed, `visit` what its loop has left, `head` and `built` the entry and the commit of
`StartTesting`, `fetched` the results it has not applied yet. `mq` is the gitea-mq status of each
PR's head commit.

| Code | Actions |
|---|---|
| `PollOnce`, `enqueueAutoMergePRs` (poller.go:145, 267) | `StartTick`, `Enqueue`, `SkipPR` |
| `reconcileEntries`, the timeouts (poller.go:317, 402) | `ListEntries`, `RemovePR`, `RemoveTimedOut`, `KeepEntry`, `EndReconcile` |
| `startQueuedHeads`, `tryFastForwardSuccess` (poller.go:474, 525) | `NothingToStart`, `PromoteHead` |
| `StartTesting` (merge.go:38) | `MergeHead`, `MergeFails`, `Stamp`, `MarkTesting` |
| `pollMergeBranchChecks` (poller.go:187) | `ListTesting`, `FetchChecks`, `ApplyCheck`, `EndTick` |
| `routeCheck` (webhook) | `Webhook` |
| `ProcessCheckStatus`, `HandleSuccess`, `HandleFailure`, `HandleTimeout`, `removeFromQueue` (monitor.go) | `SaveCheck`, `Evaluate`, `Report`, `Update`, `Advance` |
| forge, users, faults | `AutoMerge`, `Edit`, `World`, `Abort`, `Crash` |

### The abstract queue

`MergeQueue` knows the entries that wait, those that are leaving, those that have landed and the
groups CI has passed on top of the present target. A group lands as a whole, while its entries are
queued, onto exactly the target it was tested on, and no entry lands twice; a push to the target
makes everything CI said before worthless. `BatchRefinement` reads these sets off the tables and
the forge: an entry waits while it has a row, is leaving between the poller's delete and
`OnMemberRemoved`, and has landed once the target's history holds a commit that merges it.
The history of a target is the least set of commits that contains the tip and with each commit the
one it was built on; it is defined as what is in all such sets, which needs no recursion and so can
be proved about. `ImplementsMergeQueue` says that every step of `BatchEngine` is a step of
`MergeQueue` or leaves these sets alone.

### State and actions of `Lifecycle`

An instance `<<r, n>>` is what the n-th `Add` of repository `r` made: a poller (`poll`), an engine
with a mutex of its own (`op`), a trigger channel (`nudge`) and a context (`cancelled`).
`managed[r]` is the instance the registry holds, `disc` the one goroutine of discovery, `call` a
webhook request that keeps the instance it found. Each repository has one pull request (`open`),
one row in the queue (`entry`) and at most one live batch (`rows`).

| Code | Actions |
|---|---|
| `run`, `discovery.Run`, `DiscoverOnce`, `addNew` (main.go:143, discovery.go) | `Serve`, `StartCycle`, `Skip`, `AddedAll`, `ListSource`, `SourceFailed`, `Pruned`, `EndCycle` |
| `RepoRegistry.Add` (registry.go:66) | `Add`, `ReconcileLive`, `SpawnPoller`, `Register` |
| `RepoRegistry.Remove` (registry.go:193) | `Unregister`, `CancelPoller`, `CancelRows`, `PurgeEntries` |
| `poller.Run`, `PollOnce` | `Stop`, `Triggered`, `Tick`, `ListOpenPRs`, `Paused`, `Enqueue`, `DropEntry`, `OnMemberRemoved`, `StartQueuedHeads`, `PollChecks`, `NoResult` |
| engine | `Form`, `Build`, `SaveTesting`, `Settle`, `Rebuild`, `Finish`, `Abort` |
| webhook handlers | `StatusEvent`, `RouteCheck`, `HandleCheck`, `DropCheck`, `Handled`, `PullRequestEvent`, `InstallationEvent` |

Any call the engine makes may fail, and the context of a poll or a request may end: `Abort` leaves
the row where it is, so a build that ends so leaves its row `forming` and its member in test
(`HalfBuilt`); the calls whose error is only logged fail in `Settle`.

A row that nobody refers to any more stands for a new one, so the ids of batches are bounded
without bounding how many batches there are. `absent`, `told`, `unheard` and `purged` are history
variables: no action reads them.

### State and actions of `GitHub` and `GithubForge`

`GitHub` has the handlers of `ghfake` that merging uses, each an action with its answer as the last
argument, and what happens on GitHub by itself (`NoticeMerged`, `Push`, `MergeByHand`, `Meddle`).
Where the fake is simpler than what `forge.go` says of GitHub (a 204 for a head the branch already
contains), the model follows the latter. `Request` is the network: a handler's answer is heard, or
the handler ran and the answer is lost, or the request is.

| Code | Actions |
|---|---|
| `Build` (batch.go:147) | `ClearBranch`, then per head the ones below, `Eject`, `Built` |
| `CreateMergeBranch` (forge.go:165) | `ResolveBase`, `CreateRef`, `ResetRef`, `MergeHead` |
| `MergeInto` (forge.go:225) | `MergeHead`, `ReadTip` |
| `HandlePass`, `FastForward` (batch.go:228, forge.go:245) | `Pass`, `FastForward`, `LandOne`, `Landed` |
| `HandleFail`, `next` | `Fail`, `Eject`, `DeleteBranch` |
| `ensureMergedOrClose` (batch.go:511) | `ClosePR`, `SeenClosed` |
| poller, restart | `Enqueue`, `RemoveEntry`, `Crash`, `Boot` |

`ghost` is a history variable: heads that a build holds although they were ejected.

### State and actions of `GithubCache` and `GithubChecks`

`entries` is the ETag cache. `cacheKey` drops the installation, as the code's key does: all
installations list their repositories under one URL with different tokens. A GET is `Send` (look
up the entry, send its tag), `Answer` (the server compares), `Receive` (replay, or store). A tag
stands for its body. On top, `Begin`, `LookedUp`, `Create`, `Patch` and `Remember` are the
statements of `upsertCheckRun` for one name on one commit, and `Refresh...` are the requests of
`App.Refresh`. `owed`, `covered` and `steady` are history variables.

### State and actions of `GitCache`

`clone` is the directory: not there, `bare` (after `git init`) or `ready`, with its copy of main,
the commits it has and the parts of it that are damaged (`bad`); `holder` the repository's lock;
`call[u]` the operation of user `u`. `Lock`, `InitClone`, `AddRemote`, `Fetch`, `FetchFails`,
`Healthy` and `Remove` are `withRepo`, `ensure` and `fetch`; `MergeHead`, `SkipHead`, `Stacked` and
`PushBranch` are `StackMerges`; `PushMain` is `FastForwardRef`; `Collect` is `gc --auto`, which may
drop what main does not reach. A damaged part makes a fetch fail, whichever it is, and `Healthy`
looks at one of them only: the branch that comes first and its commit (`"first"`). All else, the
other branches, older commits, trees, lock files, is `"rest"`; a process that dies in a fetch may
leave its lock files (`Locked`). Damage that occurs after the fetch may or may not be in what the
merges and pushes need. A context that ends while `ensure` runs makes `healthy` fail as well and so
removes a sound clone (`Cancel`), which the next call makes again. A user is one engine or the
unbatched queue of one branch; what they land goes to one main, so that they get in each other's
way.

### Abstractions of the batch modules

* A FIFO slice of entry ids is the set of its ids: ids grow in the order of enqueueing. The stack
  of pending slices is a sequence of sets.
* A commit is a number with its parent on the target and the set of entries it merges. Every
  build makes a new commit. (Two identical merges within a second would share one in git; CI's
  results on it would then be equally valid for both.)
* A fast-forward succeeds when the target is at the commit's base or at the commit itself; it may
  also be denied at any time. GitHub's answer for a head that the target already contains is in
  `GithubForge` only.
* Results of CI are one state per context. `GreenRed` gives TLC the final states only; pending
  results matter to nobody but the dashboard.
* `testing_started_at` is the flag `late`, which the clock sets at any time.
* Comments, commit statuses mirrored to the PR, branch names and the dashboard are left out.
  `ensureMergedOrClose` changes no state of the queue; it is a step of `GithubForge`, where pull
  requests have a state.
* Several target branches are independent (mutex, batch and queue are per branch), so one is
  modelled.
* An aborted loop stops at the step it has reached. The code's loops log the error of each
  remaining statement and return at `SaveBatch`; the rows are the same.
* Reading the head and taking the mutex are one step, and the poller removes what is in the table
  now, not what it listed earlier in the tick. The guard of `HandleTimeout` is the row as it reads it
  again under the mutex; `HandleTimeoutUnread`, a negative control, acts on the poller's earlier look
  and violates `RejectsOnlyRed`. A removal of an entry landed meanwhile would only
  add its id to `ejected_ids`.
* `dirty` is a history variable: a fault has hit `Build` between `SaveBatch` and the end of
  `ClearCheckStatuses`. No action reads it.

### Abstractions of `SingleQueue`

* One target branch; a PR that is retargeted leaves exactly as one that is pushed to, so `Edit`
  does not retarget.
* Statuses go to commits. Only the current head commit of a PR can bless it, so a status of an
  older head is dropped and a push starts with none.
* A row keeps its PR and head when it is deleted (`Gone`), because threads hold copies of both.
* Time is left out: a timeout may strike whenever the state it looks at is there.
* The calls of `removePR`, of the two timeouts and of a failing `StartTesting` are one step each.
  The calls of `HandleSuccess` and `removeFromQueue`, where the races are, are separate.
* The poller forgets its lists when it is done with them (`EndReconcile`, `ListTesting`), and the
  results of an entry that is gone are not fetched: `SaveCheckStatus` would refuse them all.
* `mq.base` is a history variable: the tip on which the status was earned. No action reads it.
* Branch clean-up, comments and mirrored statuses are left out.

## 3. Runs

| Run | Instance | Shows |
|---|---|---|
| `bisection` | 3 PRs, 1 check, 1 event in flight, a limit of 2 builds, 3 builds or 2 and a push to the target | Splits, the limit, conflicts, timeouts, removals, late and repeated results: `LandsOnlyTested`, `RejectsOnlyRed`, `ResultsMeetOnHead`, `RoutedToOwnBuild`, `PendingUnrouted`, `BisectionKeepsOrder`, `MembersTracked`, `LandsOnlyQueued` |
| `faulty` | 2 PRs, 2 required checks, 1 event in flight, 1 fault of any kind at any step | `TypeOK`, the inductive invariant `IInv`, `LandsOnlyTestedOrDirty` (no commit lands on the results of two builds) |
| `finishes` | 2 PRs, 1 check, fairness, a push to the target | `BatchFinishes`; `ImplementsMergeQueue` |
| `webhooks` | 2 PRs, 2 entries, 1 handler, 1 edit, 1 abort or crash | `SingleTypeOK`; `SuccessIsEarned`: only a head whose own build passed is blessed; `TestsHeadOnly` |
| `polling` | 2 PRs, 2 checks, no handler, 1 edit, a push to the target, fairness | `AdvanceRemovesOwn` and `EntriesLeave` on a forge that is only polled |
| `lifecycle` | 2 repositories on 2 forges, one removed and added again, 3 events (changes, webhooks, failing calls) | `LifecycleTypeOK`, `NoOrphanPoller`, `PurgedStaysEmpty`, `NothingUnheard`, `RemovesOnlyUnlisted`, `QueuedIsServed` |
| `github_refs` | 2 PRs, 2 batches, 1 deed of people, 1 lost request or answer or crash | `ForgeTypeOK`, `BuildHoldsMembers`, `ClosesOnlyLanded`, `MergedOnce`, `TargetOnlyGrows`, `LandedIsClosed` |
| `github_checks` | 2 writers, 2 repositories, 3 installations, a cache of 2 entries, 3 calls, 2 refreshes, 1 fault | `ChecksTypeOK`, `NoStaleRead`, `FewRuns`, `ShowsLastWrite`, `RefreshKeepsCovered` |
| `git_cache` | 2 users, 2 heads, 2 builds, 1 push or vanished head, 1 fault | `CacheTypeOK`, `BuildsOnMain`, `ObjectsStay`, `SoundIsKept`, `CorruptIsReplaced` |
| `innocent` (violation) | 2 PRs, 1 handler | `AdvanceRemovesOwn` fails: finding 1 |
| `half_clone` (violation) | 1 user, 1 fault, fairness | `CloneRecovers` fails: finding 2 |
| `retry` (violation) | 2 repositories, 1 life, 1 batch, 1 event, fairness | `FormingIsRetried` fails: finding 3 |

**Bounds.** `MaxEntries` entries are ever enqueued, `MaxBatches` batches formed, `MaxCommits`
commits made (the first is the target's), `MaxPushes` pushes to the target, `MaxRuns` results
per context and commit, `MaxCalls` webhook events in flight, `MaxFaults` faults. Two PRs are
enough for a split, a pending half and a removal of either; three give slices of different
length and a slice of several members on the stack. Three commits after the first are enough for
a build, the build after the split and the one after the pop; with two, the results of the first
are stale for the second. Two required checks (`faulty`) are enough for a ledger that is green only
together with a stale result. In `bisection` the limit of two builds strikes when the popped pair
fails, or when a rebuilt batch does; `finishes` has no limit and a push, so that every slice is
split to the end. `BatchMax` is 0 in all runs: batches of limited size, and a stack of more than one
slice at the limit, are covered by the proofs alone, as are a second batch after the first and a
second fault. One event in flight besides the poller's is enough, because events do not interact
except through the state the mutex protects. The proofs of section 4 do without any of these
bounds.

In `SingleQueue`, `MaxEdits` counts what users do and `MaxHeads` the head commits of a PR. Two
entries are two PRs in the queue, or one that leaves and comes back while a handler still holds
its old entry; a second head commit tells a stale verdict from a fresh one. One handler and the poller are two
threads, and every race of a run of `ProcessCheckStatus` with another is one of two. The PRs are
interchangeable (nothing compares them), so `webhooks` checks them up to symmetry; the runs of
liveness properties do not.

In `Lifecycle` the repository with the topic lives on Gitea and the explicit one on GitHub; the
pollers of the second never step, it is there to be listed or not and to be kept when the first
forge is down. Two epochs are one life and the next; the third event is what it takes to remove a
repository, list it again and have one more thing go wrong or arrive in between. One fast-forward
race per batch is enough for a rebuild.

In `GithubForge` two batches let a PR that landed, or was given up, be built once more; seven
commits are the first one, two heads, and four merges or pushes. In `GithubChecks` three calls are
two writers at once and one more after a restart; with two keys in a cache of two entries and a
third to come, the cache overflows; three installations are one per repository and one that
replaces another. In `GitCache` two merges (heads are commits too) let each user build once or one
user stack both heads, and the second to land loses the race.

**Deadlock** is not checked: with the bounds used up the system may stop, and an idle queue with
no PR is a proper end.

**Fairness** (`FairSpec`). The operation that holds the mutex goes on (weak fairness of
`Operation`): every call it makes has a timeout. The clock runs. The waiting callers get the
mutex (strong fairness of `DropCheck`/`SaveCheck`, of the `Removed*` actions, of
`FormBatch`/`RetryForming` and of `HandleTimeout`): the poller comes back every interval, and
Go's mutex hands over to a waiter after a millisecond. Nothing is assumed of CI, of webhooks, of
pushes or of what users do, so `BatchFinishes` rests on the timeout.

In `SingleQueue` the poller and every handler go on (weak fairness of `Tick` and of each
`Monitor(t)`), and an entry that is in test or waits for its merge again and again is found to
be overdue by some tick (strong fairness of `RemoveTimedOut`): the timestamps are in the table and
nothing but a new test resets them. Nothing is assumed of CI, webhooks, users or the forge's
automerge, so `EntriesLeave` rests on the poller alone.

In `Lifecycle` discovery, the pollers and the engines go on (weak fairness), and a batch in test is
at last decided or timed out by the poller (strong fairness of `PollChecks`). Events are bounded, so
failing calls end. Nobody is assumed to come back to a build that failed, since nobody does (finding
3): a PR whose batch was left half-built for good is an exception of `QueuedIsServed`. In
`GithubForge` the engine and `ensureMergedOrClose` go on, because each request is answered or times
out; CI, people and GitHub's noticing of a merge are not relied upon. In `GitCache` commands end or
are killed and the lock goes to everybody who waits (strong fairness of `Lock`: Go's mutex is
starvation-free). Nobody has to call: that the repository goes on being used (`InUse`) is a
hypothesis of the properties that speak of repair.

**Mutants.** Every property is known to fail under a plausible slip in the code: the operators
marked "Negative control" are those slips (the ledger kept on a rebuild, the guard on the commit
dropped, halves swapped, a whole slice dropped with one member, the verdict put on the PR's head
of now, an error of a source taken for an empty answer, a leftover branch built upon, and so on).

## 4. Proofs

The proofs are for every number of PRs, entries, commits, batches, checks, repositories, users,
writers, events and faults. Each rests on an inductive invariant (TLC checks `IInv`, that of
the batch queue, and what follows from the others); the invariant has one named
conjunct per idea, and one lemma per conjunct says that every step keeps it. What the constants have
to satisfy is in the named assumptions of the modules (`ChecksAssumption`, `BoundsAssumption`,
`StoreAssumption`, `EngineAssumption`, `SingleAssumption`, `LifecycleAssumption`,
`GitHubAssumption`, `ForgeAssumption`, `CacheAssumption`, `GitCacheAssumption`): bounds are natural
numbers, pull requests or heads are the first commits by number, there is a batch and a source at
least, the goroutines and repositories are finitely many, and the values that stand for nothing are
not values of something.

### The batch engine

| Theorem | Statement | Without the faults |
|---|---|---|
| `TypeCorrect` | `Spec => []TypeOK` | |
| `Invariant` | `Spec => []IInv` | |
| `LandsTested` | `Spec => []LandsOnlyTestedOrDirty` | |
| `RoutedCorrectly` | `Spec => []RoutedToOwnBuild` | |
| `RejectsRed` | `Spec => RejectsOnlyRed` | |
| `OrderCorrect` | `Spec => []OrderInv` | |
| `OrderKept` | `Spec => []BisectionKeepsOrder` | |
| `UnroutedCorrect` | `Spec => []PendingUnrouted` | unroute |
| `TrackedCorrect` | `Spec => []MembersTracked` | dequeue |
| `ResultsMeet` | `Spec => ResultsMeetOnHead` | stamp |
| `LandsPassed` | `Spec => []LandsOnlyTested` | abort, crash, clear |
| `LandingCorrect` | `Spec => [](TrackedInv /\ ForgeInv /\ LandingInv)` | abort, crash, clear, dequeue |
| `LandsQueued` | `Spec => LandsOnlyQueued` | abort, crash, clear, dequeue |
| `Implements` | `Spec => ImplementsMergeQueue` | abort, crash, clear, dequeue |

The last column is what the theorem excludes (a hypothesis about the constant `Faults`); every
other fault may happen, at any step and any number of times. Each exclusion is what the property
needs, not what the proof needs: a failing `ClearMergeBranch` leaves a pending member routed, a
failing `DequeuePR` leaves an entry whose batch is over, a failing `SetMergeBranch` makes results
look for another head, a cut-off operation leaves the window of section 5 open, and one that is cut
off in the middle of a landing is taken up again on a target that may have been pushed to, so that
its members land a second time.

The argument for `LandsTested`: `HandlePass` is reached only from an evaluation of a ledger whose
every result was reported on the commit under test (`PassEarned` from `LedgerPinned`). A result
enters the ledger only if the row names its commit under the mutex (`Current`, `CallsPinned`),
and `Build` empties the ledgers of exactly the members the commit merges before anyone else gets
the mutex (`BuildTracked`). That these are the right entries is where the rest of the invariant
is needed: entries of live rows are owned by their batch (`RowsOwned`) and at most one batch is
live (`OneLive`); a member that goes while the loop of `Build` runs was deleted by the poller,
which then waits for the mutex and cannot enqueue the PR again (`LoopHeld`), so that
`SetMergeBranch`, which goes by PR number, never hits another entry (`OneEntryPerPR`). None of
this survives a fault between `SaveBatch` and `ClearCheckStatuses`, hence `dirty` (the first of the
known limits in section 5). `RejectsRed` follows from `LedgerPinned` as well, and for timeouts from the
row that `HandleTimeout` reads again under the mutex.

`OrderInv` says that slices are sorted and that the row, the engine's copy and the commit in test
name the same members; `Halves` is the lemma about bisection behind it. For `MembersTracked` it is
`Wanted`, the entries the operation under way will still see to, that has to contain every entry of
its batch. `HeadInv` is needed for `ResultsMeet`: commits are written from the head on, so the first
member has one as soon as any has, and a call that is on its way was addressed to that member.
`LandingInv` says that what a batch still has to process is queued and new to the target. The
refinement uses all of them: `Implements` maps every action to a step of `MergeQueue` or a stutter,
with `HistoryGrows` about what a push adds to the history.

### The queue without batches

| Theorem | Statement |
|---|---|
| `SingleTypeCorrect` | `Spec => []SingleTypeOK` |
| `SingleInvHolds` | `Spec => []SingleInv` |
| `OnlyHeadTested` | `Spec => []TestsHeadOnly` |
| `BlessingsEarned` | `Spec => []SuccessIsEarned`, if `SkipUpToDate` is false |
| `PollingAdvancesOwn` | `Spec => AdvanceRemovesOwn`, if there are no handlers |

`OnlyHeadTested` needs that UpdateState, which goes by PR number, marks the entry that was the head
when its merge was made: the poller, which alone enqueues, is busy, so what has that PR's number
is that entry or nothing (`HeadHeld`, from `OneEntryPerPR`), and later entries have larger ids
(`IdsInOrder`). For `BlessingsEarned`, each hand-over of a result keeps it with a build of its
entry: from the row (`RoutedToBuild`) to the list of the poller (`FetchedPinned`) or the snapshot of
a thread (`ThreadsPinned`), to the ledger (`LedgerEarned`) and the verdict (`VerdictEarned`); the
status then goes to the entry's own head. `PollingAdvancesOwn` rests on `PollerAlone`: what the one
goroutine evaluates is the head, because nothing else is in test, and stays it, because nothing
else removes. A handler breaks exactly that (`innocent`).

### The registry

| Theorem | Statement |
|---|---|
| `LifecycleCorrect` | `Spec => []LifecycleInv` |
| `LifecycleTypesCorrect` | `Spec => []LifecycleTypeOK` |
| `OneLivePoller` | `Spec => []NoOrphanPoller` |
| `PurgesLast` | `Spec => []PurgedStaysEmpty` |
| `WakeUpsKept` | `Spec => []NothingUnheard` |
| `RemovalsJustified` | `Spec => RemovesOnlyUnlisted` |

`PurgesLast` is the subtle one: `PurgeEntries` comes after `Unregister` and `CancelPoller`, yet the
old poller may be in the middle of a tick and a webhook request may hold the old instance. The
proof rests on this: only a poller that is not cancelled puts an entry back, such a poller belongs
to the instance the registry holds or that is being added (`NoOrphanPoller`), and a purged
repository has neither until its next poller is started (`PurgedOut`, `Numbered`).
`RemovalsJustified` needs `Doomed`: what discovery is about to remove was left out by a source that
has answered in this cycle, until the cycle ends.

### GitHub

| Theorem | Statement |
|---|---|
| `ForgeCorrect` | `Spec => []ForgeInv` |
| `ForgeTypesCorrect` | `Spec => []ForgeTypeOK` |
| `BuildsHold` | `Spec => []BuildHoldsMembers` |
| `ClosedHasLanded` | `Spec => []ClosesOnlyLanded` |
| `MergesOnce` | `Spec => []MergedOnce` |
| `TargetKept` | `Spec => TargetOnlyGrows` |
| `ChecksCorrect` | `Spec => []ChecksInv` |
| `ChecksTypesCorrect` | `Spec => []ChecksTypeOK` |
| `ReadsAreFresh` | `Spec => []NoStaleRead` |
| `RunsAreFew` | `Spec => []FewRuns` |
| `LastWriteShown` | `Spec => []ShowsLastWrite` |
| `CoveredStays` | `Spec => []RefreshKeepsCovered` |

For merging, `Graph` says what a commit reaches and `Once` that no commit, on the target or not,
reaches two merges of one pull request: a merge is made only where the head is not reachable, and
a commit that merges a pull request reaches its head. `StackHolds` follows a build request by
request: the branch and the tip the engine believes in hold the members stacked so far, although
the branch may be ahead of the tip (a merge that was not answered) or gone (somebody deleted it).
`Tested` is what `BuildHoldsMembers` says in every state of the engine, `Landing` that what is
being dequeued has landed; `Program` says which step of the engine goes with which row. `ForgeStep`
needs no case about lost answers beyond those of `MergeMeans`, `CreateMeans` and their like, the
lemmas that say what a request did when its answer is unknown.

For reads, `Honest` says that a body in the cache, and one under way, goes with a tag the server had
while the request ran. `Few` counts the runs there are and the writers that found none and are about
to create one; `Latest` follows the write that the status owes to; `Tracked` says that a refresh
under way has found a covered repository already, or will still ask the installation that has it.

### The git cache

| Theorem | Statement |
|---|---|
| `CacheCorrect` | `Spec => []CacheInv` |
| `CacheTypesCorrect` | `Spec => []CacheTypeOK` |
| `StackCorrect` | `Spec => []BuildsOnMain` |
| `WorkStays` | `Spec => []ObjectsStay` |
| `CloneKept` | `Spec => SoundIsKept` |

`CacheInv` says who holds the lock and where in its program the call of a user is (`Held`,
`Program`), what is stacked (`Stack`), that the tips main had while a call ran are seen by it
(`Watched`), and that a working call finds its objects in the clone (`Stays`). `CloneKept` adds
`Condemned`: the clone a call is about to remove is gone or its first branch cannot be read, and
nobody but that call, which holds the lock, would mend it.

### Not proved

The liveness properties (`BatchFinishes`, `EntriesLeave`, `QueuedIsServed`, `LandedIsClosed`,
`CorruptIsReplaced`) stay with TLC: liveness under fairness and `ENABLED` are out of the prover's
reach. Every other property of a passing run is stated by a theorem, under the hypotheses given
above. Where a hypothesis fails the property is not claimed: `AdvanceRemovesOwn` is false with
handlers (finding 1), and `SuccessIsEarned` speaks of queues that test every head, while
`SkipUpToDate` blesses a head that contains the target's tip without a build.

## 5. Findings and known limits

Three runs show that the code does not do what it says:

1. **The innocent PR** (`monitor.go:213`, run `innocent`). `removeFromQueue` cancels the failed PR's
   automerge and ends with `Advance`, which deletes the head of the queue, whichever entry that is
   by then. When the poller saw the cancelled automerge and removed the failed PR first, `Advance`
   deletes the next PR, which nothing failed. Without handlers it cannot happen (`polling`).
2. **The half-made clone** (`gitcache.go:127`, run `half_clone`). A process that dies between `git
   init` and `git remote add` leaves a directory with a `HEAD` and no remote. `fetch` takes it for a
   clone and fails at `remote set-url`; `healthy` finds nothing wrong; the clone is never rebuilt,
   although "the cache is disposable: corrupted clones are deleted and rebuilt". A failing `git remote
   add` has the same effect. Only `cleanupStale` removes the directory, at a restart after it has
   not been used for long.
3. **The retry that does not happen** (`poller.go:495`, run `retry`). A batch left `forming` by a failed
   build is said to be retried on the next tick ("retry it so a transient forge failure does not stall
   the queue until restart", batch.go:128), but its members are `testing`, and the poller calls
   `FormAndBuild` only when the head is `queued`. The queue stands still until a restart or until a
   member leaves. `BatchFinishes` is checked without faults, and `QueuedIsServed` excepts the state
   (`HalfBuilt`).

Limits the models reach and the properties make room for:

* **The window** (`batch.go:219`). `SaveBatch` makes the batch live with the new commit before
  `ClearCheckStatuses` drops the old build's results. An operation cancelled in between, a crash
  or a failing clear lets old green results count for the new commit. `LandsOnlyTestedOrDirty`
  excepts exactly this; `LandsOnlyTested` fails under `Faulty.cfg`.
* **The cap** (`batch.go:287`). The limit on builds is looked at only where a build of several
  members fails; passing builds and failing singletons pop and build further slices.
* **The lost member** (`batch.go:350`). A member removed while its batch is being finished is
  recorded neither as landed nor as ejected.
* **The failed head that stays** (`monitor.go:209`). An entry is marked failed and then removed in
  two statements. A handler that stops in between leaves a failed row that the poller does not
  list, that still is the head, and that keeps its PR from being enqueued. `EntriesLeave` is checked
  without handlers and faults.
* **The stranded entry** (`registry.go:229`). When `Remove` has cancelled the batches and fails to
  delete the entries, the repository's next life finds entries that nothing starts and nothing
  ends (`Stranded`, an exception of `QueuedIsServed`). The same happens when the dequeueing of an
  ejected PR fails (`batch.go:496`) and the PR is scheduled again.
* **The merge that was not answered** (`forge.go:230`). A head whose merge request was executed but
  not answered is ejected and yet in the branch that is tested and lands (`ghost`, the exception of
  `BuildHoldsMembers`).
* **The second run** (`checkrun.go:81`). Two goroutines that look a check run up at the same time
  each create one; after a restart the first is written and the last read (`FewRuns` bounds them by
  the number of writers; `ShowsLastWrite` speaks of a single run).
* **The damage nobody looks at** (`gitcache.go:161`). `healthy` reads the commit of the first branch
  and nothing else. Damage elsewhere, or a lock file of a killed git, makes every fetch fail and is
  taken for transient every time, although "corrupted clones are deleted and rebuilt"
  (gitcache.go:11). `CorruptIsReplaced` speaks of the first branch only.
* **The sound clone removed** (`gitcache.go:115`). A context that ends during a fetch makes `healthy`
  fail too, and the clone is removed and made again (`Cancel`; `SoundIsKept` excepts the moment of a
  fault).
* **The network and the vanished head** (`http.go:495`). `StackMerges` cannot tell them apart, so a
  network failure after the base was fetched ejects a PR (`SkipHead`).

## 6. Not modelled, and the plan

Not modelled:

* the dashboard, which only reads;
* configuration, payload parsing and webhook signatures: pure conversions without state;
* repository set-up (`EnsureRepoSetup`, branch protection, rulesets, webhooks): idempotent requests
  at the start of `Add`;
* request plumbing of the clients: paging, error texts, tokens, rate limits;
* comments, descriptions of statuses, mirrored checks on PR heads;
* shutdown: `Crash` covers what it may leave behind;
* clean-up of merge branches of the unbatched queue: a handler's `CleanupMergeBranch` deletes
  `gitea-mq/<number>` by name and may hit the branch of the PR's next entry, whose CI run then
  ends without a result and times out;
* mocks, test fixtures and generated plumbing.

The batched poller's lists of a tick, stale by the time it acts on them, are not modelled; the
unbatched one's are.

`SuccessIsEarned` says that a head was tested on the tip it was blessed for, not that the tip is
still there when the forge merges: a PR whose automerge is cancelled keeps its gitea-mq success,
and scheduling it again merges it beside the PR in test. That is listed as a hazard.

Plan: what is left is proof.

1. `LandsOnlyQueued` and the refinement with operations that are cut off: `MergeQueue` would have to
   admit that a group lands again after a push, and say when.
2. `SuccessIsEarned` with `SkipUpToDate`: a head blessed without a build contains the tip it is
   blessed for.
3. Lemmas about `ResolveRequiredChecks` and `EvaluateChecks` on their own, to say what a verdict
   means for any set of contexts.
