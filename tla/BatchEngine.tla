----------------------------- MODULE BatchEngine -----------------------------
(***************************************************************************)
(* batch.Engine (src/internal/batch): the life of a batch of one target    *)
(* branch, from FormAndBuild to done, and the callers that reach it.       *)
(*                                                                         *)
(* Every public entry point runs under the per-branch mutex, so at most    *)
(* one operation is under way: pc says where it is, by who called it and b *)
(* is its in-memory copy of batch row bid.  The operation advances one     *)
(* database or forge call at a time; between two of its steps the callers  *)
(* that do not need the mutex act: the poller deletes entries and enqueues *)
(* PRs, webhook handlers take snapshots of entries, CI posts results,      *)
(* somebody pushes to the target, the operation's context is cancelled or  *)
(* the process dies.                                                       *)
(*                                                                         *)
(* The poller is one goroutine: it is busy while an operation it called    *)
(* runs, while results it fetched wait for the mutex and between deleting  *)
(* a batch member and telling the engine (removing).                       *)
(***************************************************************************)
EXTENDS QueueStore

CONSTANTS
    BisectMaxSteps,     \* GITEA_MQ_BISECT_MAX_STEPS; 0 is no cap
    MaxFFRetries,       \* const MaxFFRetries, 3 in the code
    MaxCalls,           \* bound: check events in flight at once
    Faults,             \* the kinds of fault that may happen
    MaxFaults           \* bound: faults per behaviour

FaultKind == {"abort", "crash", "dequeue", "stamp", "unroute", "clear"}

ASSUME EngineAssumption ==
    /\ BisectMaxSteps \in Nat
    /\ MaxFFRetries \in Nat \ {0}
    /\ MaxCalls \in Nat
    /\ Faults \subseteq FaultKind
    /\ MaxFaults \in Nat

VARIABLES
    pc,        \* next step of the operation that holds the mutex
    by,        \* its caller
    bid,       \* the batch it works on
    b,         \* its in-memory batch row
    todo,      \* entries its current loop still has to visit
    keep,      \* entries the loop has kept on the branch
    out,       \* entries the loop ejects
    built,     \* the commit stack() made, NoSha if none
    calls,     \* check events on their way to HandleCheck
    removing,  \* a batch member the poller deleted but has not reported yet
    faults,    \* faults so far
    dirty      \* history: a fault hit Build between SaveBatch and ClearCheckStatuses

opVars == <<pc, by, bid, b, todo, keep, out, built>>
vars == <<forgeVars, storeVars, opVars, calls, removing, faults, dirty>>

Step == {"idle", "boot", "eval", "pass", "land", "rebuild", "build",
         "sort", "save", "stamp", "clear", "restamp", "next"}

Caller == {"none", "webhook", "poller", "boot"}

Call == [by : {"webhook", "poller"}, id : Ids, batch : BatchIds, sha : Shas,
         ctx : Contexts, state : ReportStates]

Removal == [id : Ids, batch : BatchIds]

NoRemoval == [id |-> 0, batch |-> NoBatch]

OpTypeOK ==
    /\ pc \in Step
    /\ by \in Caller
    /\ bid \in 0 .. MaxBatches
    /\ b \in Row
    /\ todo \subseteq Ids
    /\ keep \subseteq Ids
    /\ out \subseteq Ids
    /\ built \in 0 .. MaxCommits

EngineTypeOK ==
    /\ OpTypeOK
    /\ calls \subseteq Call
    /\ removing \in Removal \cup {NoRemoval}
    /\ faults \in Nat
    /\ dirty \in BOOLEAN

(* Every variable holds a value the program's types allow.                 *)
TypeOK == ForgeTypeOK /\ StoreTypeOK /\ EngineTypeOK

Init ==
    /\ ForgeInit
    /\ StoreInit
    /\ pc = "idle" /\ by = "none" /\ bid = NoBatch /\ b = NoRow
    /\ todo = {} /\ keep = {} /\ out = {} /\ built = NoSha
    /\ calls = {}
    /\ removing = NoRemoval
    /\ faults = 0
    /\ dirty = FALSE

(***************************************************************************)
(* Taking and releasing the mutex.                                         *)
(***************************************************************************)

Release ==
    /\ pc' = "idle" /\ by' = "none" /\ bid' = NoBatch /\ b' = NoRow
    /\ todo' = {} /\ keep' = {} /\ out' = {} /\ built' = NoSha

(* Caller w enters at step s with its copy r of row k, visiting ids.       *)
Enter(w, k, r, s, ids) ==
    /\ pc' = s /\ by' = w /\ bid' = k /\ b' = r
    /\ todo' = ids /\ keep' = {} /\ out' = {} /\ built' = NoSha

(* The operation goes on at step s with row copy r, visiting ids.          *)
Goto(s, r, ids) ==
    /\ pc' = s /\ b' = r
    /\ todo' = ids /\ keep' = {} /\ out' = {} /\ built' = NoSha
    /\ UNCHANGED <<by, bid>>

(* ejectCurrent: eject every existing entry of ids, current becomes empty. *)
EjectAll(r, ids) ==
    /\ pc' = "sort" /\ b' = r
    /\ todo' = ids \cap Existing /\ out' = ids \cap Existing
    /\ keep' = {} /\ built' = NoSha
    /\ UNCHANGED <<by, bid>>

(* The poller is between two of its steps and neither in the engine nor    *)
(* waiting for it.                                                         *)
PollerFree ==
    /\ by \notin {"poller", "boot"}
    /\ removing = NoRemoval
    /\ \A c \in calls : c.by # "poller"

(* Head: the entry at the head of the branch's queue is still queued, the  *)
(* condition on which startQueuedHeads starts anything.                    *)
HeadQueued == Existing # {} /\ entries[Least(Existing)].state = "queued"

(***************************************************************************)
(* FormAndBuild, which the poller calls when the head is queued: form a    *)
(* root batch from the queued head, or retry a live batch still forming.   *)
(***************************************************************************)

FormBatch(k) ==
    /\ pc = "idle" /\ PollerFree /\ HeadQueued
    /\ \A j \in BatchIds : ~ Live(j)
    /\ \A j \in BatchIds : rows[j].state = "none" => k <= j
    /\ rows[k].state = "none"
    /\ rows' = [rows EXCEPT ![k] = NewRow(TakeQueuedHead)]
    /\ entries' = Batched(TakeQueuedHead, k)
    /\ Enter("poller", k, NewRow(TakeQueuedHead), "build", {})
    /\ UNCHANGED <<forgeVars, ledger, calls, removing, faults, dirty>>

RetryForming(k) ==
    /\ pc = "idle" /\ PollerFree /\ HeadQueued
    /\ rows[k].state = "forming"
    /\ Enter("poller", k, rows[k], "build", {})
    /\ UNCHANGED <<forgeVars, storeVars, calls, removing, faults, dirty>>

(***************************************************************************)
(* Build.                                                                  *)
(***************************************************************************)

(* Load the current members and stack those that merge cleanly onto the    *)
(* tip; bad are the heads that conflict or cannot be fetched.              *)
Build ==
    /\ pc = "build"
    /\ LET present == b.current \cap Existing
       IN  \E bad \in SUBSET present :
             /\ IF bad = present
                THEN built' = NoSha /\ UNCHANGED <<commits, last>>
                ELSE StackOnTip(present \ bad) /\ built' = last + 1
             /\ todo' = present /\ out' = bad /\ keep' = {}
    /\ pc' = "sort"
    /\ UNCHANGED <<by, bid, b, tip, reports, storeVars, calls, removing, faults,
                   dirty>>

(* One turn of the loop over the loaded members: eject one, which cancels  *)
(* its automerge and deletes its queue entry (a failing delete is only     *)
(* logged) ...                                                             *)
EjectOne ==
    /\ pc = "sort" /\ todo # {}
    /\ LET e == Least(todo)
       IN  /\ e \in out
           /\ b' = [b EXCEPT !.ejected = @ \cup {e}]
           /\ todo' = todo \ {e}
           /\ \/ /\ entries' = Dequeued(entries[e].pr)
                 /\ ledger' = LedgerDequeued(entries[e].pr)
                 /\ UNCHANGED faults
              \/ /\ "dequeue" \in Faults /\ faults < MaxFaults
                 /\ faults' = faults + 1
                 /\ UNCHANGED <<entries, ledger>>
    /\ UNCHANGED <<forgeVars, rows, pc, by, bid, keep, out, built, calls,
                   removing, dirty>>

(* ... or keep it as a survivor.                                           *)
KeepOne ==
    /\ pc = "sort" /\ todo # {}
    /\ Least(todo) \notin out
    /\ keep' = keep \cup {Least(todo)}
    /\ todo' = todo \ {Least(todo)}
    /\ UNCHANGED <<forgeVars, storeVars, pc, by, bid, b, out, built, calls,
                   removing, faults, dirty>>

(* The loop is over: current is what survived.                             *)
Sorted ==
    /\ pc = "sort" /\ todo = {}
    /\ b' = [b EXCEPT !.current = keep]
    /\ pc' = IF keep = {} THEN "next" ELSE "save"
    /\ UNCHANGED <<forgeVars, storeVars, by, bid, todo, keep, out, built, calls,
                   removing, faults, dirty>>

(* Negative control: all members are routed, not only those on the branch. *)
SaveTestingForAll ==
    /\ pc = "save"
    /\ LET r == [b EXCEPT !.sha = built, !.state = "testing", !.late = FALSE,
                          !.builds = b.builds + 1]
       IN  /\ rows' = [rows EXCEPT ![bid] = r]
           /\ Goto("stamp", r, b.members \cap Existing)
    /\ UNCHANGED <<forgeVars, entries, ledger, calls, removing, faults, dirty>>

(* Persist the batch as testing the new commit.                            *)
SaveTesting ==
    /\ pc = "save"
    /\ LET r == [b EXCEPT !.sha = built, !.state = "testing", !.late = FALSE,
                          !.builds = b.builds + 1]
       IN  /\ rows' = [rows EXCEPT ![bid] = r]
           /\ Goto("stamp", r, b.current)
    /\ UNCHANGED <<forgeVars, entries, ledger, calls, removing, faults, dirty>>

(* Route check events of the new commit to one more survivor.              *)
StampOne ==
    /\ pc \in {"stamp", "restamp"} /\ todo # {}
    /\ \/ /\ entries' = Stamped(entries[Least(todo)].pr, b.sha)
          /\ UNCHANGED faults
       \/ /\ "stamp" \in Faults /\ faults < MaxFaults
          /\ faults' = faults + 1
          /\ UNCHANGED entries
    /\ todo' = todo \ {Least(todo)}
    /\ UNCHANGED <<forgeVars, ledger, rows, pc, by, bid, b, keep, out, built,
                   calls, removing, dirty>>

AllStamped ==
    /\ pc = "stamp" /\ todo = {}
    /\ pc' = "clear"
    /\ UNCHANGED <<forgeVars, storeVars, by, bid, b, todo, keep, out, built,
                   calls, removing, faults, dirty>>

(* ClearCheckStatuses comes last; a failure is only logged.                *)
ClearLedger ==
    /\ pc = "clear"
    /\ \/ /\ ledger' = LedgerCleared(b.current)
          /\ UNCHANGED <<faults, dirty>>
       \/ /\ "clear" \in Faults /\ faults < MaxFaults
          /\ faults' = faults + 1
          /\ dirty' = TRUE
          /\ UNCHANGED ledger
    /\ Release
    /\ UNCHANGED <<forgeVars, entries, rows, calls, removing>>

(***************************************************************************)
(* HandleCheck: drop an event for a superseded build, else record it and   *)
(* evaluate the entry's ledger.                                            *)
(***************************************************************************)

(* Negative control: results of any build of the batch are accepted.       *)
CurrentAnyBuild(c) ==
    /\ rows[c.batch].state = "testing"
    /\ c.id \in Existing

(* The guard: the batch is testing the very commit the result is about.    *)
Current(c) ==
    /\ rows[c.batch].state = "testing"
    /\ rows[c.batch].sha = c.sha
    /\ c.id \in Existing            \* SaveCheckStatus has a foreign key

DropCheck(c) ==
    /\ pc = "idle" /\ c \in calls /\ ~ Current(c)
    /\ calls' = calls \ {c}
    /\ UNCHANGED <<forgeVars, storeVars, opVars, removing, faults, dirty>>

SaveCheck(c) ==
    /\ pc = "idle" /\ c \in calls /\ Current(c)
    /\ calls' = calls \ {c}
    /\ ledger' = [ledger EXCEPT ![c.id][c.ctx] = c.state]
    /\ Enter(c.by, c.batch, rows[c.batch], "eval", {c.id})
    /\ UNCHANGED <<forgeVars, entries, rows, removing, faults, dirty>>

EvaluatePass ==
    /\ pc = "eval"
    /\ \E e \in todo : EvaluateChecks(ledger[e], Required) = "success"
    /\ Goto("pass", b, {})
    /\ UNCHANGED <<forgeVars, storeVars, calls, removing, faults, dirty>>

EvaluateWait ==
    /\ pc = "eval" /\ ~ b.late
    /\ \E e \in todo : EvaluateChecks(ledger[e], Required) = "waiting"
    /\ Release
    /\ UNCHANGED <<forgeVars, storeVars, calls, removing, faults, dirty>>

(***************************************************************************)
(* HandlePass: land the tested commit by fast-forwarding the target.       *)
(***************************************************************************)

FastForward ==
    /\ pc = "pass" /\ CanFastForward(b.sha)
    /\ tip' = b.sha
    /\ Goto("land", [b EXCEPT !.ff = 0], b.current \cap Existing)
    /\ UNCHANGED <<commits, last, reports, storeVars, calls, removing, faults,
                   dirty>>

(* The target moved: rebuild on the new tip, or give up on these members.  *)
FastForwardRaced ==
    /\ pc = "pass" /\ ~ CanFastForward(b.sha)
    /\ LET r == [b EXCEPT !.ff = @ + 1]
       IN  IF r.ff < MaxFFRetries THEN Goto("rebuild", r, {})
                                  ELSE EjectAll(r, r.current)
    /\ UNCHANGED <<forgeVars, storeVars, calls, removing, faults, dirty>>

(* Branch protection denies the push.                                      *)
FastForwardDenied ==
    /\ pc = "pass"
    /\ EjectAll(b, b.current)
    /\ UNCHANGED <<forgeVars, storeVars, calls, removing, faults, dirty>>

(* Dequeue one landed member; a failure is only logged.                    *)
LandOne ==
    /\ pc = "land" /\ todo # {}
    /\ LET p == entries[Least(todo)].pr
       IN  \/ /\ entries' = Dequeued(p)
              /\ ledger' = LedgerDequeued(p)
              /\ UNCHANGED faults
           \/ /\ "dequeue" \in Faults /\ faults < MaxFaults
              /\ faults' = faults + 1
              /\ UNCHANGED <<entries, ledger>>
    /\ todo' = todo \ {Least(todo)}
    /\ UNCHANGED <<forgeVars, rows, pc, by, bid, b, keep, out, built, calls,
                   removing, dirty>>

(* ensureMergedOrClose has returned for every landed member.               *)
Settle ==
    /\ pc = "land" /\ todo = {}
    /\ Goto("next", [b EXCEPT !.landed = b.landed \cup b.current, !.current = {}], {})
    /\ UNCHANGED <<forgeVars, storeVars, calls, removing, faults, dirty>>

(***************************************************************************)
(* HandleFail: bisect, or eject what cannot be split further.              *)
(***************************************************************************)

(* Negative control: the halves are swapped.                               *)
LastHalf(ids) ==
    {e \in ids : Cardinality({f \in ids : f < e}) >= Cardinality(ids) \div 2}

(* The first half of a FIFO slice.                                         *)
FirstHalf(ids) ==
    {e \in ids : Cardinality({f \in ids : f < e}) < Cardinality(ids) \div 2}

AtCap(r) == BisectMaxSteps > 0 /\ r.builds >= BisectMaxSteps

(* HandleFail called by w, who read r from row k under the mutex.          *)
HandleFail(w, k, r) ==
    /\ by' = w /\ bid' = k
    /\ LET single == Cardinality(r.current) = 1
           doomed == IF single THEN r.current
                     ELSE r.current \cup Flatten(r.pending)
           right  == r.current \ FirstHalf(r.current)
       IN  \/ /\ single \/ AtCap(r)
              /\ pc' = "sort"
              /\ b' = IF single THEN r ELSE [r EXCEPT !.pending = <<>>]
              /\ todo' = doomed \cap Existing
              /\ out' = doomed \cap Existing
              /\ UNCHANGED <<entries, faults>>
           \/ /\ ~ single /\ ~ AtCap(r)
              /\ pc' = "rebuild"
              /\ b' = [r EXCEPT !.pending = Append(r.pending, right),
                                !.current = FirstHalf(r.current)]
              /\ todo' = {} /\ out' = {}
              /\ \/ entries' = Unrouted(right) /\ UNCHANGED faults
                 \/ /\ "unroute" \in Faults /\ faults < MaxFaults
                    /\ faults' = faults + 1
                    /\ UNCHANGED entries
    /\ keep' = {} /\ built' = NoSha

EvaluateFail ==
    /\ pc = "eval"
    /\ \E e \in todo :
         LET v == EvaluateChecks(ledger[e], Required)
         IN  v = "failure" \/ (v = "waiting" /\ b.late)
    /\ HandleFail(by, bid, b)
    /\ UNCHANGED <<forgeVars, ledger, rows, calls, removing, dirty>>

(* Negative control: only the first build of a batch can time out.         *)
HandleFirstTimeout(k) ==
    /\ pc = "idle" /\ PollerFree
    /\ rows[k].state = "testing" /\ rows[k].late /\ rows[k].builds = 1
    /\ HandleFail("poller", k, rows[k])
    /\ UNCHANGED <<forgeVars, ledger, rows, calls, removing, dirty>>

(* Negative control: the poller's look before it waited for the mutex, at  *)
(* an earlier build perhaps, decides.                                      *)
HandleTimeoutUnread(k) ==
    /\ pc = "idle" /\ PollerFree
    /\ rows[k].state = "testing" /\ (rows[k].late \/ rows[k].builds > 1)
    /\ HandleFail("poller", k, rows[k])
    /\ UNCHANGED <<forgeVars, ledger, rows, calls, removing, dirty>>

(* HandleTimeout: the row is read again under the mutex, so a batch that   *)
(* was rebuilt since the poller looked is left alone.                      *)
HandleTimeout(k) ==
    /\ pc = "idle" /\ PollerFree
    /\ rows[k].state = "testing" /\ rows[k].late
    /\ HandleFail("poller", k, rows[k])
    /\ UNCHANGED <<forgeVars, ledger, rows, calls, removing, dirty>>

(***************************************************************************)
(* rebuild and next.                                                       *)
(***************************************************************************)

Rebuild ==
    /\ pc = "rebuild"
    /\ LET r == [b EXCEPT !.state = "forming"]
       IN  rows' = [rows EXCEPT ![bid] = r] /\ Goto("build", r, {})
    /\ UNCHANGED <<forgeVars, entries, ledger, calls, removing, faults, dirty>>

(* Pop the pending stack and rebuild ...                                   *)
NextSlice ==
    /\ pc = "next" /\ b.pending # <<>>
    /\ LET n == Len(b.pending)
           r == [b EXCEPT !.current = b.pending[n],
                          !.pending = SubSeq(b.pending, 1, n - 1),
                          !.state = "forming"]
       IN  rows' = [rows EXCEPT ![bid] = r] /\ Goto("build", r, {})
    /\ UNCHANGED <<forgeVars, entries, ledger, calls, removing, faults, dirty>>

(* ... or finish the batch.                                                *)
Finish ==
    /\ pc = "next" /\ b.pending = <<>>
    /\ rows' = [rows EXCEPT ![bid] =
                    [b EXCEPT !.state = "done", !.current = {}]]
    /\ Release
    /\ UNCHANGED <<forgeVars, entries, ledger, calls, removing, faults, dirty>>

(***************************************************************************)
(* OnMemberRemoved, for the member the poller deleted.                     *)
(***************************************************************************)

WithoutMember(r, e) ==
    [r EXCEPT !.current = r.current \ {e}, !.pending = Drop(r.pending, e),
              !.ejected = r.ejected \cup {e}]

(* The batch is over already.                                              *)
RemovedTooLate ==
    /\ pc = "idle" /\ removing # NoRemoval /\ ~ Live(removing.batch)
    /\ removing' = NoRemoval
    /\ UNCHANGED <<forgeVars, storeVars, opVars, calls, faults, dirty>>

(* Negative control: bookkeeping is all that is ever done.                 *)
RemovedAnywhere ==
    /\ pc = "idle" /\ removing # NoRemoval /\ Live(removing.batch)
    /\ rows' = [rows EXCEPT ![removing.batch] = WithoutMember(@, removing.id)]
    /\ removing' = NoRemoval
    /\ UNCHANGED <<forgeVars, entries, ledger, opVars, calls, faults, dirty>>

(* The member is not on the branch under test: only bookkeeping.           *)
RemovedPending ==
    /\ pc = "idle" /\ removing # NoRemoval /\ Live(removing.batch)
    /\ LET r == rows[removing.batch]
       IN  /\ removing.id \notin r.current
           /\ rows' = [rows EXCEPT ![removing.batch] =
                            WithoutMember(r, removing.id)]
    /\ removing' = NoRemoval
    /\ UNCHANGED <<forgeVars, entries, ledger, opVars, calls, faults, dirty>>

(* The branch under test is stale: rebuild, or go on if nobody is left.    *)
RemovedCurrent ==
    /\ pc = "idle" /\ removing # NoRemoval /\ Live(removing.batch)
    /\ LET r == WithoutMember(rows[removing.batch], removing.id)
       IN  /\ removing.id \in rows[removing.batch].current
           /\ Enter("poller", removing.batch, r,
                    IF r.current = {} THEN "next" ELSE "rebuild", {})
    /\ removing' = NoRemoval
    /\ UNCHANGED <<forgeVars, storeVars, calls, faults, dirty>>

(***************************************************************************)
(* Callers, none of which needs the mutex for these steps.                 *)
(***************************************************************************)

(* The poller enqueues a PR that has no row.                               *)
Enqueue(p, e) ==
    /\ PollerFree /\ ~ InQueue(p)
    /\ entries[e] = NoEntry /\ \A f \in Ids : entries[f] = NoEntry => e <= f
    /\ entries' = Enqueued(p, e)
    /\ UNCHANGED <<forgeVars, ledger, rows, opVars, calls, removing, faults,
                   dirty>>

(* tryFastForwardSuccess: a queued head that already contains the target's *)
(* tip skips testing.                                                      *)
PromoteHead ==
    /\ PollerFree /\ HeadQueued
    /\ entries' = [entries EXCEPT ![Least(Existing)].state = "success"]
    /\ UNCHANGED <<forgeVars, ledger, rows, opVars, calls, removing, faults,
                   dirty>>

(* reconcileEntries and removePR: the PR was merged, closed, retargeted,   *)
(* pushed to, or its automerge cancelled.  The engine is told even when    *)
(* the entry could not be deleted.                                         *)
RemoveEntry(e) ==
    /\ PollerFree /\ e \in Existing
    /\ \/ /\ entries' = Dequeued(entries[e].pr)
          /\ ledger' = LedgerDequeued(entries[e].pr)
          /\ UNCHANGED faults
       \/ /\ "dequeue" \in Faults /\ faults < MaxFaults
          /\ faults' = faults + 1
          /\ UNCHANGED <<entries, ledger>>
    /\ removing' = IF entries[e].batch = NoBatch THEN NoRemoval
                   ELSE [id |-> e, batch |-> entries[e].batch]
    /\ UNCHANGED <<forgeVars, rows, opVars, calls, dirty>>

(* Negative control: the last entry routed to a commit is found.           *)
FindLastEntryForCommit(s) ==
    {e \in Existing : /\ entries[e].sha = s
                      /\ \A f \in Existing : entries[f].sha = s => f <= e}

(* findEntryForCommit: the first entry routed to a commit, if any.         *)
FindEntryForCommit(s) ==
    {e \in Existing : /\ entries[e].sha = s
                      /\ \A f \in Existing : entries[f].sha = s => e <= f}

(* A webhook delivers a result CI posted at some time; deliveries are      *)
(* late, repeated and out of order as they please.                         *)
Webhook(s, c, st) ==
    /\ by # "boot"
    /\ Cardinality(calls) < MaxCalls
    /\ Reported(s, c, st)
    /\ \E e \in FindEntryForCommit(s) :
         /\ entries[e].batch # NoBatch
         /\ calls' = calls \cup
              {[by |-> "webhook", id |-> e, batch |-> entries[e].batch,
                sha |-> s, ctx |-> c, state |-> st]}
    /\ UNCHANGED <<forgeVars, storeVars, opVars, removing, faults, dirty>>

(* pollMergeBranchChecks: the latest result of every context of the row's  *)
(* commit, for the first current member, pinned to that commit.            *)
PollChecks(k) ==
    /\ PollerFree
    /\ rows[k].state = "testing" /\ ~ rows[k].late /\ rows[k].current # {}
    /\ Least(rows[k].current) \in Existing
    /\ rows[k].sha # NoSha
    /\ LET s == rows[k].sha
           known == {c \in Contexts : reports[s][c] # <<>>}
       IN  /\ known # {}
           /\ calls' = calls \cup
                {[by |-> "poller", id |-> Least(rows[k].current), batch |-> k,
                  sha |-> s, ctx |-> c,
                  state |-> reports[s][c][Len(reports[s][c])]] : c \in known}
    /\ UNCHANGED <<forgeVars, storeVars, opVars, removing, faults, dirty>>

(* CheckTimeout passes since the batch went to testing.                    *)
ClockPasses(k) ==
    /\ rows[k].state = "testing" /\ ~ rows[k].late
    /\ rows' = [rows EXCEPT ![k].late = TRUE]
    /\ UNCHANGED <<forgeVars, entries, ledger, opVars, calls, removing, faults,
                   dirty>>

(***************************************************************************)
(* Faults.                                                                 *)
(***************************************************************************)

InWindow == pc \in {"stamp", "clear"}

(* The operation stops where it is and the process lives on: its context   *)
(* was cancelled (a webhook client hung up), or a call failed whose error  *)
(* the code returns.                                                       *)
Abort ==
    /\ "abort" \in Faults /\ faults < MaxFaults
    /\ pc \notin {"idle", "boot"}
    /\ faults' = faults + 1
    /\ dirty' = (dirty \/ InWindow)
    /\ Release
    /\ UNCHANGED <<forgeVars, storeVars, calls, removing>>

(* OnMemberRemoved fails before it changes anything; nobody calls it again. *)
AbortRemoval ==
    /\ "abort" \in Faults /\ faults < MaxFaults
    /\ pc = "idle" /\ removing # NoRemoval
    /\ faults' = faults + 1
    /\ removing' = NoRemoval
    /\ UNCHANGED <<forgeVars, storeVars, opVars, calls, dirty>>

(* The process dies and is started again.                                  *)
Crash ==
    /\ "crash" \in Faults /\ faults < MaxFaults
    /\ faults' = faults + 1
    /\ dirty' = (dirty \/ InWindow)
    /\ pc' = "boot" /\ by' = "boot" /\ bid' = NoBatch /\ b' = NoRow
    /\ todo' = {} /\ keep' = {} /\ out' = {} /\ built' = NoSha
    /\ calls' = {}
    /\ removing' = NoRemoval
    /\ UNCHANGED <<forgeVars, storeVars>>

(* ReconcileLive, before the poller and the webhook handlers start: build  *)
(* a forming batch, route a testing one's commit to its members again.     *)
ReconcileForming(k) ==
    /\ pc = "boot" /\ rows[k].state = "forming"
    /\ Enter("boot", k, rows[k], "build", {})
    /\ UNCHANGED <<forgeVars, storeVars, calls, removing, faults, dirty>>

ReconcileTesting(k) ==
    /\ pc = "boot" /\ rows[k].state = "testing"
    /\ Enter("boot", k, rows[k], "restamp", rows[k].current \cap Existing)
    /\ UNCHANGED <<forgeVars, storeVars, calls, removing, faults, dirty>>

ReconcileDone ==
    /\ \/ pc = "boot" /\ \A k \in BatchIds : ~ Live(k)
       \/ pc = "restamp" /\ todo = {}
    /\ Release
    /\ UNCHANGED <<forgeVars, storeVars, calls, removing, faults, dirty>>

(***************************************************************************)

(* Steps of the operation that holds the mutex.                            *)
Operation ==
    \/ Build \/ EjectOne \/ KeepOne \/ Sorted \/ SaveTesting \/ StampOne
    \/ AllStamped \/ ClearLedger
    \/ EvaluatePass \/ EvaluateWait \/ EvaluateFail
    \/ FastForward \/ FastForwardRaced \/ FastForwardDenied \/ LandOne \/ Settle
    \/ Rebuild \/ NextSlice \/ Finish
    \/ ReconcileDone
    \/ \E k \in BatchIds : ReconcileForming(k) \/ ReconcileTesting(k)

(* Entry points, which wait for the mutex.                                 *)
EntryPoint ==
    \/ \E k \in BatchIds : FormBatch(k) \/ RetryForming(k) \/ HandleTimeout(k)
    \/ \E c \in calls : DropCheck(c) \/ SaveCheck(c)
    \/ RemovedTooLate \/ RemovedPending \/ RemovedCurrent

(* The forge and CI.                                                       *)
World ==
    /\ \/ TargetPush
       \/ \E s \in Shas, c \in Contexts, st \in ReportStates : CIReport(s, c, st)
    /\ UNCHANGED <<storeVars, opVars, calls, removing, faults, dirty>>

(* Callers and the clock.                                                  *)
Environment ==
    \/ \E p \in PRs, e \in Ids : Enqueue(p, e)
    \/ \E e \in Ids : RemoveEntry(e)
    \/ PromoteHead
    \/ \E s \in Shas, c \in Contexts, st \in ReportStates : Webhook(s, c, st)
    \/ \E k \in BatchIds : PollChecks(k) \/ ClockPasses(k)

Fault == Abort \/ AbortRemoval \/ Crash

Next == Operation \/ EntryPoint \/ World \/ Environment \/ Fault

Spec == Init /\ [][Next]_vars

(* The scheduling the code relies on: the operation that holds the mutex   *)
(* goes on, the clock runs, and a poll comes every interval, so a caller   *)
(* that waits for the mutex again and again gets it (a Go mutex does not   *)
(* starve a waiter).  Nothing is assumed of CI, of the webhooks or of what *)
(* users do to their PRs.                                                  *)
Fairness ==
    /\ WF_vars(Operation)
    /\ WF_vars(\E k \in BatchIds : ClockPasses(k))
    /\ SF_vars(\E c \in calls : DropCheck(c) \/ SaveCheck(c))
    /\ SF_vars(RemovedTooLate \/ RemovedPending \/ RemovedCurrent)
    /\ SF_vars(\E k \in BatchIds : FormBatch(k) \/ RetryForming(k))
    /\ SF_vars(\E k \in BatchIds : HandleTimeout(k))

FairSpec == Spec /\ Fairness

(***************************************************************************)
(* Properties.                                                             *)
(***************************************************************************)

(* CI reported what the verdict "success" needs about commit s itself.     *)
Tested(s) ==
    IF Required = {} THEN \E c \in Contexts : Reported(s, c, "success")
    ELSE \A c \in Required : Reported(s, c, "success")

(* CI reported something about commit s that can make its verdict red.     *)
WentRed(s) == \E c \in Contexts, st \in Red : Reported(s, c, st)

(* A batch commit reaches the target branch only if CI passed on that very *)
(* commit: no result of an earlier build, however late or repeated, counts *)
(* for a later one (HandleCheck, ClearCheckStatuses, HandlePass).          *)
LandsOnlyTested == commits[tip].ids # {} => Tested(tip)

(* The same in every behaviour in which no fault hits the window in Build  *)
(* between SaveBatch and ClearCheckStatuses; all other faults are allowed. *)
LandsOnlyTestedOrDirty == ~ dirty => LandsOnlyTested

(* A build is bisected or its last member ejected only if CI reported a    *)
(* failure on that very commit or it has timed out itself (HandleCheck,    *)
(* HandleTimeout, HandleFail): neither a late red result nor the timeout   *)
(* of an earlier build is ever held against a later one.  A removal, which *)
(* rebuilds too, is not a failure.                                         *)
RejectsOnlyRed ==
    [][ (/\ pc \in {"idle", "eval"} /\ pc' \in {"sort", "rebuild"}
         /\ removing' = removing /\ ~ dirty)
            => b'.late \/ WentRed(b'.sha) ]_vars

(* Results are recorded on the first member of the build that still is in  *)
(* the queue, whether a webhook routed them or the poller fetched them, so *)
(* that one ledger gets to see all of them (StampOne, Webhook, PollChecks; *)
(* decision D7 of the design).                                             *)
ResultsMeetOnHead ==
    [][ (pc = "idle" /\ pc' = "eval")
            => todo' = {Least(b'.current \cap Existing)} ]_vars

(* When a batch lands, all it merges is still queued: nothing that was     *)
(* ejected, dequeued or landed before lands with it.  The one exception is *)
(* a member the poller deletes while the operation that lands it runs      *)
(* ahead of the poller's OnMemberRemoved.                                  *)
LandsOnlyQueued ==
    [][ tip' # tip => commits'[tip'].ids \subseteq Existing \cup {removing.id} ]_vars

(* Bisection keeps FIFO order: what landed was queued before what is being *)
(* tested, and that before every pending slice, top of the stack first.    *)
BisectionKeepsOrder ==
    \A k \in BatchIds :
      LET r == rows[k]
      IN  /\ \A e \in r.landed, f \in r.current \cup Flatten(r.pending) : e < f
          /\ \A i \in 1 .. Len(r.pending) :
               /\ r.pending[i] # {}
               /\ \A e \in r.pending[i] :
                    /\ \A f \in r.current : f < e
                    /\ \A j \in i + 1 .. Len(r.pending) :
                         \A f \in r.pending[j] : f < e

(* No member is stranded: an entry a batch owns is still to be processed   *)
(* by that batch, and the batch is live (active_batch_id, eject,           *)
(* HandlePass, OnMemberRemoved).                                           *)
MembersTracked ==
    \A e \in Existing : entries[e].batch # NoBatch =>
        LET r == rows[entries[e].batch]
        IN  Live(entries[e].batch) /\ e \in r.current \cup Flatten(r.pending)

(* An entry carries the commit of a build that merged it, and a batch owns *)
(* it, although SetMergeBranch goes by PR number and the PR may have been  *)
(* dequeued and enqueued again meanwhile.                                  *)
RoutedToOwnBuild ==
    \A e \in Existing : entries[e].sha # NoSha =>
        entries[e].batch # NoBatch /\ e \in commits[entries[e].sha].ids

(* Whatever CI reports or fails to report, and whichever members leave,    *)
(* every batch is finished at last (HandleTimeout, OnMemberRemoved, next). *)
BatchFinishes ==
    \A k \in BatchIds : Live(k) ~> rows[k].state = "done"

(* Entries that wait in the pending stack carry no commit, so no event     *)
(* can be routed to them (ClearMergeBranch on the split).                  *)
PendingUnrouted ==
    \A k \in BatchIds : Live(k) =>
        \A e \in Flatten(rows[k].pending) \cap Existing : entries[e].sha = NoSha

=============================================================================
