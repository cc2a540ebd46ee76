----------------------------- MODULE SingleQueue -----------------------------
(***************************************************************************)
(* The queue without batches (GITEA_MQ_BATCH_MAX=1): one target branch,    *)
(* whose head is tested alone on a merge branch and then merged by the     *)
(* forge itself, once the gitea-mq status of its head commit is success    *)
(* and its automerge is on.                                                *)
(*                                                                         *)
(* No mutex protects this path.  The poller goroutine (src/internal/poller)*)
(* works tick by tick on snapshots; webhook handlers (src/internal/webhook)*)
(* run beside it, each with its own snapshot of an entry, and both hand    *)
(* check results to the monitor (src/internal/monitor), whose statements   *)
(* are the steps of a thread here.                                         *)
(***************************************************************************)
EXTENDS Forge

CONSTANTS
    PRs,            \* pull request numbers
    Handlers,       \* webhook handlers running at once
    MaxHeads,       \* bound: head commits of a PR
    MaxEdits,       \* bound: things users do to their PRs
    SkipUpToDate,   \* GITEA_MQ_SKIP_QUEUE_IF_UP_TO_DATE
    Faults,         \* the kinds of fault that may happen
    MaxFaults       \* bound: faults per behaviour

Poller == "poller"
NoPR   == 0
NoHead == 0
NoId   == 0

Threads == Handlers \cup {Poller}

ASSUME SingleAssumption ==
    /\ NoPR \notin PRs
    /\ Poller \notin Handlers
    /\ MaxHeads \in Nat \ {0}
    /\ MaxEdits \in Nat
    /\ SkipUpToDate \in BOOLEAN
    /\ Faults \subseteq {"abort", "crash"}
    /\ MaxFaults \in Nat

VARIABLES
    prs,       \* PRs on the forge
    mq,        \* gitea-mq status of each PR's head, and the base it was earned on
    entries,   \* queue_entries by id
    ledger,    \* check_statuses by entry id and context
    threads,   \* the monitor, as run by each handler and the poller
    ppc,       \* where the poller is in its tick
    seen,      \* the open PRs it listed at the start of the tick
    snap,      \* the state of each entry when it was listed
    visit,     \* what its current loop still has to visit
    head,      \* the entry it is about to test
    built,     \* the merge commit it made for it
    fetched,   \* results it fetched and has not applied yet
    edits,     \* things users have done
    faults     \* faults so far

tables     == <<entries, ledger>>
pollerVars == <<ppc, seen, snap, visit, head, built, fetched>>
vars == <<forgeVars, prs, mq, tables, threads, pollerVars, edits, faults>>

PR == [state : {"open", "closed", "merged"}, auto : BOOLEAN, head : 1 .. MaxHeads]

Status == [state : {"none", "pending", "success", "failure"},
           base  : 0 .. MaxCommits]

EntryState == {"absent", "queued", "testing", "success", "failed"}

Entry == [state : EntryState, pr : PRs \cup {NoPR}, head : 0 .. MaxHeads,
          sha : 0 .. MaxCommits]

NoEntry == [state |-> "absent", pr |-> NoPR, head |-> NoHead, sha |-> NoSha]

NoChecks == [c \in Contexts |-> NoCheck]

(* ProcessCheckStatus with its snapshot of an entry (id, sha), the event   *)
(* it was called for and the verdict it came to.                           *)
Thread == [pc : {"idle", "save", "eval", "status", "update", "advance"},
           id : 0 .. MaxEntries, sha : 0 .. MaxCommits,
           ctx : Contexts \cup {NoCheck}, state : ReportStates \cup {NoCheck},
           verdict : Verdict]

Idle == [pc |-> "idle", id |-> NoId, sha |-> NoSha, ctx |-> NoCheck,
         state |-> NoCheck, verdict |-> "waiting"]

Fetched == [id : Ids, sha : Shas, ctx : Contexts, state : ReportStates]

(* Every variable holds a value the program's types allow.                 *)
SingleTypeOK ==
    /\ ForgeTypeOK
    /\ prs \in [PRs -> PR]
    /\ mq \in [PRs -> Status]
    /\ entries \in [Ids -> Entry]
    /\ ledger \in [Ids -> [Contexts -> ReportStates \cup {NoCheck}]]
    /\ threads \in [Threads -> Thread]
    /\ ppc \in {"idle", "enqueue", "reconcile", "start", "stamp", "mark",
                "list", "check"}
    /\ seen \in [PRs -> PR]
    /\ snap \in [Ids -> EntryState]
    /\ visit \subseteq PRs \cup Ids
    /\ head \in 0 .. MaxEntries
    /\ built \in 0 .. MaxCommits
    /\ fetched \subseteq Fetched
    /\ edits \in 0 .. MaxEdits
    /\ faults \in 0 .. MaxFaults

(* A PR enters with automerge scheduled.                                   *)
NewPR == [state |-> "open", auto |-> TRUE, head |-> 1]

Unset == [state |-> "none", base |-> NoSha]

PollerInit ==
    /\ ppc = "idle"
    /\ seen = [p \in PRs |-> NewPR]
    /\ snap = [e \in Ids |-> "absent"]
    /\ visit = {} /\ head = NoId /\ built = NoSha /\ fetched = {}

Init ==
    /\ ForgeInit
    /\ prs = [p \in PRs |-> NewPR]
    /\ mq = [p \in PRs |-> Unset]
    /\ entries = [e \in Ids |-> NoEntry]
    /\ ledger = [e \in Ids |-> NoChecks]
    /\ threads = [t \in Threads |-> Idle]
    /\ PollerInit
    /\ edits = 0 /\ faults = 0

(***************************************************************************)
(* The tables and the statements this path runs on them.                   *)
(***************************************************************************)

Existing == {e \in Ids : entries[e].state # "absent"}

(* ListActiveEntriesByRepo leaves failed entries out.                      *)
Active == {e \in Existing : entries[e].state # "failed"}

Least(S) == CHOOSE x \in S : \A y \in S : x <= y

(* Negative control: the first entry that still waits is taken for the     *)
(* head, as TakeQueuedHead does for batches.                               *)
FirstQueued ==
    LET queued == {e \in Existing : entries[e].state = "queued"}
    IN  Least(IF queued = {} THEN Existing ELSE queued)

(* GetHeadOfQueue does not.                                                *)
QueueHead == Least(Existing)

InQueue(p) == \E e \in Existing : entries[e].pr = p

(* The head of the queue still waits to be tested.                         *)
HeadQueued == Existing # {} /\ entries[QueueHead].state = "queued"

(* EnqueuePR.                                                              *)
Enqueued(p, h, e) ==
    [entries EXCEPT ![e] = [state |-> "queued", pr |-> p, head |-> h, sha |-> NoSha]]

(* Negative control: a row is kept and marked instead of deleted.          *)
Marked(e) == [entries[e] EXCEPT !.state = "cancelled", !.sha = NoSha]

(* A deleted row; what a snapshot may still know of it is kept.            *)
Gone(e) == [entries[e] EXCEPT !.state = "absent", !.sha = NoSha]

(* DequeuePR, and its cascade.                                             *)
Dequeue(p) ==
    LET rows == {e \in Existing : entries[e].pr = p}
    IN  /\ entries' = [e \in Ids |-> IF e \in rows THEN Gone(e) ELSE entries[e]]
        /\ ledger' = [e \in Ids |-> IF e \in rows THEN NoChecks ELSE ledger[e]]

(* UpdateEntryState and UpdateEntryMergeBranch, keyed by PR number.        *)
UpdateState(p, s) ==
    entries' = [e \in Ids |-> IF e \in Existing /\ entries[e].pr = p
                              THEN [entries[e] EXCEPT !.state = s]
                              ELSE entries[e]]

SetMergeBranch(p, s) ==
    entries' = [e \in Ids |-> IF e \in Existing /\ entries[e].pr = p
                              THEN [entries[e] EXCEPT !.sha = s]
                              ELSE entries[e]]

(* SetMQStatus on the head commit h of PR p; a status of an older head     *)
(* does not matter any more.                                               *)
SetMQStatus(p, h, st, base) ==
    mq' = IF prs[p].head = h
          THEN [mq EXCEPT ![p] = [state |-> st, base |-> base]]
          ELSE mq

(* Cancelling a PR's automerge on the forge.                               *)
CancelAutoMerge(p) == prs' = [prs EXCEPT ![p].auto = FALSE]

(***************************************************************************)
(* ProcessCheckStatus, as run by thread t.                                 *)
(***************************************************************************)

At(t, step) == threads[t].pc = step

Goto(t, step) == threads' = [threads EXCEPT ![t].pc = step]

Return(t) == threads' = [threads EXCEPT ![t] = Idle]

(* A webhook delivers a result CI posted at some time; the handler finds   *)
(* the first active entry with that merge commit.                          *)
Webhook(t, s, c, st) ==
    /\ At(t, "idle") /\ Reported(s, c, st)
    /\ LET found == {e \in Active : entries[e].sha = s}
       IN  /\ found # {}
           /\ threads' = [threads EXCEPT ![t] =
                [pc |-> "save", id |-> Least(found), sha |-> s, ctx |-> c,
                 state |-> st, verdict |-> "waiting"]]
    /\ UNCHANGED <<forgeVars, prs, mq, tables, pollerVars, edits, faults>>

(* Negative control: a result for a deleted entry is evaluated all the     *)
(* same, on the results that were there.                                   *)
SaveAnyCheck(t) ==
    /\ At(t, "save")
    /\ ledger' = [ledger EXCEPT ![threads[t].id][threads[t].ctx] = threads[t].state]
    /\ threads' = [threads EXCEPT ![t].pc = "eval", ![t].ctx = NoCheck,
                                  ![t].state = NoCheck]
    /\ UNCHANGED <<forgeVars, prs, mq, entries, pollerVars, edits, faults>>

(* SaveCheckStatus; the foreign key fails it when the entry is gone.       *)
SaveCheck(t) ==
    /\ At(t, "save")
    /\ IF threads[t].id \in Existing
       THEN /\ ledger' = [ledger EXCEPT
                    ![threads[t].id][threads[t].ctx] = threads[t].state]
            /\ threads' = [threads EXCEPT ![t].pc = "eval", ![t].ctx = NoCheck,
                                          ![t].state = NoCheck]
       ELSE Return(t) /\ UNCHANGED ledger
    /\ UNCHANGED <<forgeVars, prs, mq, entries, pollerVars, edits, faults>>

(* Evaluate the entry's results; while some are missing, the entry may     *)
(* have been in test for too long.                                         *)
Evaluate(t) ==
    /\ At(t, "eval")
    /\ LET v == EvaluateChecks(ledger[threads[t].id], Required)
       IN  \/ /\ v = "waiting"
              /\ Return(t)
           \/ /\ v \in {"success", "failure"}
              /\ threads' = [threads EXCEPT ![t].pc = "status", ![t].verdict = v]
           \/ /\ v = "waiting"                              \* CheckTimeout
              /\ threads' = [threads EXCEPT ![t].pc = "status",
                                            ![t].verdict = "failure"]
    /\ UNCHANGED <<forgeVars, prs, mq, tables, pollerVars, edits, faults>>

(* Negative control: the status goes to the PR's head of now.              *)
ReportOnCurrentHead(t) ==
    /\ At(t, "status")
    /\ LET e == threads[t].id
           p == entries[e].pr
       IN  \/ /\ threads[t].verdict = "success"
              /\ SetMQStatus(p, prs[p].head, "success", commits[threads[t].sha].base)
              /\ UNCHANGED prs
           \/ /\ threads[t].verdict = "failure"
              /\ SetMQStatus(p, prs[p].head, "failure", NoSha)
              /\ CancelAutoMerge(p)
    /\ Goto(t, "update")
    /\ UNCHANGED <<forgeVars, tables, pollerVars, edits, faults>>

(* The verdict becomes the gitea-mq status of the commit that was tested;  *)
(* a failed PR's automerge is cancelled.                                   *)
Report(t) ==
    /\ At(t, "status")
    /\ LET e == threads[t].id
           p == entries[e].pr
       IN  \/ /\ threads[t].verdict = "success"
              /\ SetMQStatus(p, entries[e].head, "success",
                             commits[threads[t].sha].base)
              /\ UNCHANGED prs
           \/ /\ threads[t].verdict = "failure"
              /\ SetMQStatus(p, entries[e].head, "failure", NoSha)
              /\ CancelAutoMerge(p)
    /\ Goto(t, "update")
    /\ UNCHANGED <<forgeVars, tables, pollerVars, edits, faults>>

(* The entry's row, whichever row the PR has now, gets the new state.      *)
Update(t) ==
    /\ At(t, "update")
    /\ LET p == entries[threads[t].id].pr
       IN  \/ threads[t].verdict = "success" /\ UpdateState(p, "success") /\ Return(t)
           \/ threads[t].verdict = "failure" /\ UpdateState(p, "failed")
                                             /\ Goto(t, "advance")
    /\ UNCHANGED <<forgeVars, prs, mq, ledger, pollerVars, edits, faults>>

(* Advance: the head of the queue, whichever entry that is now, leaves.    *)
Advance(t) ==
    /\ At(t, "advance")
    /\ IF Existing = {} THEN UNCHANGED tables
                        ELSE Dequeue(entries[QueueHead].pr)
    /\ Return(t)
    /\ UNCHANGED <<forgeVars, prs, mq, pollerVars, edits, faults>>

(***************************************************************************)
(* PollOnce.                                                               *)
(***************************************************************************)

(* ListOpenPRs.                                                            *)
StartTick ==
    /\ ppc = "idle"
    /\ seen' = prs
    /\ visit' = {p \in PRs : prs[p].state = "open" /\ prs[p].auto}
    /\ ppc' = "enqueue"
    /\ UNCHANGED <<forgeVars, prs, mq, tables, threads, snap, head, built, fetched,
                   edits, faults>>

(* enqueueAutoMergePRs: a PR that has no row and whose own checks are      *)
(* green is enqueued.                                                      *)
Enqueue(p, e) ==
    /\ ppc = "enqueue" /\ p \in visit /\ ~ InQueue(p)
    /\ entries[e] = NoEntry /\ \A f \in Ids : entries[f] = NoEntry => e <= f
    /\ entries' = Enqueued(p, seen[p].head, e)
    /\ SetMQStatus(p, seen[p].head, "pending", NoSha)
    /\ visit' = visit \ {p}
    /\ UNCHANGED <<forgeVars, prs, ledger, threads, ppc, seen, snap, head, built,
                   fetched, edits, faults>>

SkipPR(p) ==
    /\ ppc = "enqueue" /\ p \in visit
    /\ visit' = visit \ {p}
    /\ UNCHANGED <<forgeVars, prs, mq, tables, threads, ppc, seen, snap, head, built,
                   fetched, edits, faults>>

(* reconcileEntries lists the active entries.                              *)
ListEntries ==
    /\ ppc = "enqueue" /\ visit = {}
    /\ snap' = [e \in Ids |-> IF e \in Active THEN entries[e].state ELSE "absent"]
    /\ visit' = Active
    /\ ppc' = "reconcile"
    /\ UNCHANGED <<forgeVars, prs, mq, tables, threads, seen, head, built, fetched,
                   edits, faults>>

(* What the poller listed at the start of the tick says that entry e has   *)
(* to leave: merged or closed, pushed to, or automerge cancelled.          *)
Left(e) == seen[entries[e].pr].state # "open"

Pushed(e) == ~ Left(e) /\ seen[entries[e].pr].head # entries[e].head

Cancelled(e) == ~ Left(e) /\ ~ seen[entries[e].pr].auto

Reconciling(e) == ppc = "reconcile" /\ visit # {} /\ e = Least(visit)

(* removePR.                                                               *)
RemovePR(e) ==
    /\ Reconciling(e) /\ (Left(e) \/ Pushed(e) \/ Cancelled(e))
    /\ Dequeue(entries[e].pr)
    /\ IF Pushed(e) THEN CancelAutoMerge(entries[e].pr) ELSE UNCHANGED prs
    /\ visit' = visit \ {e}
    /\ UNCHANGED <<forgeVars, mq, threads, ppc, seen, snap, head, built, fetched,
                   edits, faults>>

(* Negative control: it is left to the monitor to find that a test takes   *)
(* too long.                                                               *)
RemoveUnmerged(e) ==
    /\ Reconciling(e) /\ ~ (Left(e) \/ Pushed(e) \/ Cancelled(e))
    /\ snap[e] = "success"
    /\ SetMQStatus(entries[e].pr, entries[e].head, "failure", NoSha)
    /\ Dequeue(entries[e].pr)
    /\ CancelAutoMerge(entries[e].pr)
    /\ visit' = visit \ {e}
    /\ UNCHANGED <<forgeVars, threads, ppc, seen, snap, head, built, fetched,
                   edits, faults>>

(* handleSuccessTimeout and handleTestingTimeout, on the listed state.     *)
RemoveTimedOut(e) ==
    /\ Reconciling(e) /\ ~ (Left(e) \/ Pushed(e) \/ Cancelled(e))
    /\ snap[e] \in {"testing", "success"}
    /\ SetMQStatus(entries[e].pr, entries[e].head, "failure", NoSha)
    /\ Dequeue(entries[e].pr)
    /\ CancelAutoMerge(entries[e].pr)
    /\ visit' = visit \ {e}
    /\ UNCHANGED <<forgeVars, threads, ppc, seen, snap, head, built, fetched,
                   edits, faults>>

KeepEntry(e) ==
    /\ Reconciling(e) /\ ~ (Left(e) \/ Pushed(e) \/ Cancelled(e))
    /\ visit' = visit \ {e}
    /\ UNCHANGED <<forgeVars, prs, mq, tables, threads, ppc, seen, snap, head, built,
                   fetched, edits, faults>>

EndReconcile ==
    /\ ppc = "reconcile" /\ visit = {}
    /\ snap' = [e \in Ids |-> "absent"]
    /\ ppc' = "start"
    /\ UNCHANGED <<forgeVars, prs, mq, tables, threads, seen, visit, head, built,
                   fetched, edits, faults>>

(* startQueuedHeads: nothing to start ...                                  *)
NothingToStart ==
    /\ ppc = "start" /\ ~ (Active # {} /\ HeadQueued)
    /\ ppc' = "list"
    /\ UNCHANGED <<forgeVars, prs, mq, tables, threads, seen, snap, visit, head,
                   built, fetched, edits, faults>>

(* ... tryFastForwardSuccess, for a head that contains the target's tip ...*)
PromoteHead ==
    /\ ppc = "start" /\ SkipUpToDate /\ HeadQueued
    /\ LET e == QueueHead
       IN  /\ SetMQStatus(entries[e].pr, entries[e].head, "success", tip)
           /\ UpdateState(entries[e].pr, "success")
    /\ ppc' = "list"
    /\ UNCHANGED <<forgeVars, prs, ledger, threads, seen, snap, visit, head, built,
                   fetched, edits, faults>>

(* ... StartTesting: merge the head onto the tip ...                       *)
MergeHead ==
    /\ ppc = "start" /\ HeadQueued
    /\ StackOnTip({QueueHead}) /\ UNCHANGED <<tip, reports>>
    /\ head' = QueueHead /\ built' = last + 1
    /\ ppc' = "stamp"
    /\ UNCHANGED <<prs, mq, tables, threads, seen, snap, visit, fetched, edits, faults>>

(* ... which fails, and the PR is removed ...                              *)
MergeFails ==
    /\ ppc = "start" /\ HeadQueued
    /\ LET e == QueueHead
       IN  /\ CancelAutoMerge(entries[e].pr)
           /\ SetMQStatus(entries[e].pr, entries[e].head, "failure", NoSha)
           /\ Dequeue(entries[e].pr)
    /\ ppc' = "list"
    /\ UNCHANGED <<forgeVars, threads, seen, snap, visit, head, built, fetched,
                   edits, faults>>

(* ... record the merge commit ...                                         *)
Stamp ==
    /\ ppc = "stamp"
    /\ SetMergeBranch(entries[head].pr, built)
    /\ ppc' = "mark"
    /\ UNCHANGED <<forgeVars, prs, mq, ledger, threads, seen, snap, visit, head,
                   built, fetched, edits, faults>>

(* ... and mark the entry as testing.                                      *)
MarkTesting ==
    /\ ppc = "mark"
    /\ UpdateState(entries[head].pr, "testing")
    /\ SetMQStatus(entries[head].pr, entries[head].head, "pending", NoSha)
    /\ head' = NoId /\ built' = NoSha
    /\ ppc' = "list"
    /\ UNCHANGED <<forgeVars, prs, ledger, threads, seen, snap, visit, fetched,
                   edits, faults>>

(* pollMergeBranchChecks: list the entries in test, fetch the results of   *)
(* their commits and apply them one by one.                                *)
ListTesting ==
    /\ ppc = "list"
    /\ visit' = {e \in Active : entries[e].state = "testing" /\ entries[e].sha # NoSha}
    /\ seen' = [p \in PRs |-> NewPR]
    /\ ppc' = "check"
    /\ UNCHANGED <<forgeVars, prs, mq, tables, threads, snap, head, built, fetched,
                   edits, faults>>

PollerAtLoop == ppc = "check" /\ fetched = {} /\ At(Poller, "idle")

(* The results of an entry that is gone would all be refused by SaveCheck. *)
FetchChecks(e) ==
    /\ PollerAtLoop /\ visit # {} /\ e = Least(visit)
    /\ LET s == entries[e].sha
       IN  fetched' = IF e \notin Existing THEN {}
                      ELSE {[id |-> e, sha |-> s, ctx |-> c,
                             state |-> reports[s][c][Len(reports[s][c])]]
                              : c \in {x \in Contexts : reports[s][x] # <<>>}}
    /\ visit' = visit \ {e}
    /\ UNCHANGED <<forgeVars, prs, mq, tables, threads, ppc, seen, snap, head, built,
                   edits, faults>>

ApplyCheck(f) ==
    /\ ppc = "check" /\ At(Poller, "idle") /\ f \in fetched
    /\ fetched' = fetched \ {f}
    /\ threads' = [threads EXCEPT ![Poller] =
            [pc |-> "save", id |-> f.id, sha |-> f.sha, ctx |-> f.ctx,
             state |-> f.state, verdict |-> "waiting"]]
    /\ UNCHANGED <<forgeVars, prs, mq, tables, ppc, seen, snap, visit, head, built,
                   edits, faults>>

EndTick ==
    /\ PollerAtLoop /\ visit = {}
    /\ ppc' = "idle"
    /\ UNCHANGED <<forgeVars, prs, mq, tables, threads, seen, snap, visit, head,
                   built, fetched, edits, faults>>

(***************************************************************************)
(* The forge, its users, and faults.                                       *)
(***************************************************************************)

(* The forge merges a PR by itself.                                        *)
AutoMerge(p) ==
    /\ prs[p].state = "open" /\ prs[p].auto /\ mq[p].state = "success"
    /\ last < MaxCommits
    /\ prs' = [prs EXCEPT ![p].state = "merged"]
    /\ last' = last + 1 /\ tip' = last + 1
    /\ commits' = [commits EXCEPT ![last + 1] = [base |-> tip, ids |-> {}]]
    /\ UNCHANGED <<reports, mq, tables, threads, pollerVars, edits, faults>>

(* A user closes or reopens a PR, schedules or cancels its automerge, or   *)
(* pushes a new head.                                                      *)
Edit(p) ==
    /\ prs[p].state # "merged" /\ edits < MaxEdits
    /\ edits' = edits + 1
    /\ \/ /\ prs' = [prs EXCEPT ![p].state = IF @ = "open" THEN "closed" ELSE "open"]
          /\ UNCHANGED mq
       \/ /\ prs' = [prs EXCEPT ![p].auto = ~ @]
          /\ UNCHANGED mq
       \/ /\ prs[p].head < MaxHeads
          /\ prs' = [prs EXCEPT ![p].head = @ + 1]
          /\ mq' = [mq EXCEPT ![p] = Unset]
    /\ UNCHANGED <<forgeVars, tables, threads, pollerVars, faults>>

World ==
    /\ \/ TargetPush
       \/ \E s \in Shas, c \in Contexts, st \in ReportStates : CIReport(s, c, st)
    /\ UNCHANGED <<prs, mq, tables, threads, pollerVars, edits, faults>>

(* A webhook's client hangs up, and its handler's next call fails.         *)
Abort(t) ==
    /\ "abort" \in Faults /\ faults < MaxFaults
    /\ ~ At(t, "idle")
    /\ faults' = faults + 1
    /\ Return(t)
    /\ UNCHANGED <<forgeVars, prs, mq, tables, pollerVars, edits>>

(* The process dies and is started again; it keeps nothing but the tables. *)
Crash ==
    /\ "crash" \in Faults /\ faults < MaxFaults
    /\ faults' = faults + 1
    /\ threads' = [t \in Threads |-> Idle]
    /\ ppc' = "idle"
    /\ seen' = [p \in PRs |-> NewPR]
    /\ snap' = [e \in Ids |-> "absent"]
    /\ visit' = {} /\ head' = NoId /\ built' = NoSha /\ fetched' = {}
    /\ UNCHANGED <<forgeVars, prs, mq, tables, edits>>

(***************************************************************************)

Monitor(t) == SaveCheck(t) \/ Evaluate(t) \/ Report(t) \/ Update(t) \/ Advance(t)

Tick ==
    \/ StartTick \/ ListEntries \/ EndReconcile \/ NothingToStart
    \/ PromoteHead \/ MergeHead \/ MergeFails \/ Stamp \/ MarkTesting
    \/ ListTesting \/ EndTick
    \/ \E p \in PRs : SkipPR(p) \/ \E e \in Ids : Enqueue(p, e)
    \/ \E e \in Ids : RemovePR(e) \/ RemoveTimedOut(e) \/ KeepEntry(e) \/ FetchChecks(e)
    \/ \E f \in fetched : ApplyCheck(f)

Next ==
    \/ Tick
    \/ \E t \in Threads : Monitor(t)
    \/ \E t \in Handlers, s \in Shas, c \in Contexts, st \in ReportStates :
          Webhook(t, s, c, st)
    \/ \E p \in PRs : AutoMerge(p) \/ Edit(p)
    \/ World
    \/ \E t \in Handlers : Abort(t)
    \/ Crash

Spec == Init /\ [][Next]_vars

(* The poller's goroutine and every handler go on, and what is in test for *)
(* longer than the timeout is found so by some tick.  Nothing is assumed   *)
(* of CI, of the webhooks, of users or of the forge's automerge.           *)
Fairness ==
    /\ WF_vars(Tick)
    /\ \A t \in Threads : WF_vars(Monitor(t))
    /\ \A e \in Ids : SF_vars(RemoveTimedOut(e))

FairSpec == Spec /\ Fairness

(***************************************************************************)
(* Properties.                                                             *)
(***************************************************************************)

(* CI reported what the verdict "success" needs about commit s itself.     *)
Tested(s) ==
    IF Required = {} THEN \E c \in Contexts : Reported(s, c, "success")
    ELSE \A c \in Required : Reported(s, c, "success")

(* StartTesting began twice for entry e: the process died in between.      *)
BuiltAgain(e) == Cardinality({s \in Builds : e \in commits[s].ids}) > 1

(* A head commit whose gitea-mq status is success, so that the forge may   *)
(* merge it, was tested: CI passed on a build of that very head on the     *)
(* recorded base.  Pushes, removals and re-enqueueing while results are    *)
(* being processed do not bless another head (HandleSuccess, SetMQStatus   *)
(* on the entry's PrHeadSha).  An entry that StartTesting began with twice *)
(* is left out: nothing clears the results of its first build.             *)
SuccessIsEarned ==
    \A p \in PRs : mq[p].state = "success" =>
        \E s \in Builds : \E e \in commits[s].ids :
            /\ entries[e].pr = p /\ entries[e].head = prs[p].head
            /\ commits[s].base = mq[p].base
            /\ Tested(s) \/ BuiltAgain(e)

(* At most the head of the queue is in test: what is in test was enqueued  *)
(* before everything else that is in the queue (startQueuedHeads).         *)
TestsHeadOnly ==
    \A e \in Existing : entries[e].state = "testing" => e = Least(Existing)

(* Advance removes the entry whose check failed and no other.              *)
AdvanceRemovesOwn ==
    [][ \A t \in Threads :
          At(t, "advance") /\ threads'[t].pc = "idle" =>
            \A e \in Existing : entries'[e].state = "absent" => e = threads[t].id ]_vars

(* Whatever CI, users and the forge do, every entry leaves the queue.      *)
EntriesLeave ==
    \A e \in Ids : entries[e].state # "absent" ~> entries[e].state = "absent"

=============================================================================
