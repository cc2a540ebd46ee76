---------------------------- MODULE SingleProofs ----------------------------
(***************************************************************************)
(* Proofs about SingleQueue: its inductive invariant, and from it that     *)
(* only tested heads are blessed, that only the head of the queue is in    *)
(* test, and that without webhook handlers Advance removes the entry that  *)
(* failed.                                                                 *)
(***************************************************************************)
EXTENDS SingleInvariant, TLAPS, WellFoundedInduction, FiniteSetTheorems

USE BoundsAssumption, ChecksAssumption, SingleAssumption

(***************************************************************************)
(* The operators of the model.                                             *)
(***************************************************************************)

(* A nonempty set of ids has a least element, and Least finds it.          *)
LEMMA LeastOfIds ==
    ASSUME NEW S \in SUBSET Ids, S # {}
    PROVE  /\ Least(S) \in S
           /\ \A y \in S : Least(S) <= y
<1>1. S \in SUBSET Nat
  BY DEF Ids
<1>2. PICK x \in S : \A y \in S : ~ (<<y, x>> \in OpToRel(<, Nat))
  BY <1>1, NatLessThanWellFounded, WFMin, Zenon
<1>3. \A y \in S : ~ (y < x)
  BY <1>1, <1>2 DEF OpToRel
<1>4. \E z \in S : \A y \in S : z <= y
  BY <1>1, <1>3
<1>5. QED
  BY <1>4, Zenon DEF Least

(* Rows that exist are rows of ids.                                        *)
LEMMA ExistingIds == Existing \subseteq Ids /\ Active \subseteq Existing
BY DEF Existing, Active

(* The head of the queue is in it, before everything else.                 *)
LEMMA QueueHeadLeads ==
    ASSUME Existing # {}
    PROVE  QueueHead \in Existing /\ \A y \in Existing : QueueHead <= y
<1>1. Existing \in SUBSET Ids
  BY ExistingIds, Zenon
<1>2. QED
  BY <1>1, LeastOfIds, Zenon DEF QueueHead

(* The row of an id not given out, a PR that enters, a thread that waits   *)
(* and a head without a status are well typed.                             *)
LEMMA InitialValues ==
    /\ NoEntry \in Entry
    /\ NewPR \in PR
    /\ Idle \in Thread
    /\ Unset \in Status
    /\ NoChecks \in [Contexts -> ReportStates \cup {NoCheck}]
<1>1. NoEntry \in Entry
  BY DEF NoEntry, Entry, EntryState, NoSha, NoHead
<1>2. NewPR \in PR
  BY DEF NewPR, PR
<1>3. Idle \in Thread
  BY DEF Idle, Thread, NoSha, NoId, Verdict
<1>4. Unset \in Status
  BY DEF Unset, Status, NoSha
<1>5. QED
  BY <1>1, <1>2, <1>3, <1>4 DEF NoChecks

(* The row of an id not given out.                                         *)
LEMMA NoEntryFields ==
    NoEntry.state = "absent" /\ NoEntry.pr = NoPR /\ NoEntry.sha = NoSha
BY DEF NoEntry

(* What one statement of the database makes of well-typed tables is well   *)
(* typed.                                                                  *)
LEMMA TablesTyped ==
    ASSUME SingleTypeOK
    PROVE  /\ \A p : Dequeue(p) =>
                /\ entries' \in [Ids -> Entry]
                /\ ledger' \in [Ids -> [Contexts -> ReportStates \cup {NoCheck}]]
           /\ \A p, s : UpdateState(p, s) /\ s \in EntryState =>
                entries' \in [Ids -> Entry]
           /\ \A p, s : SetMergeBranch(p, s) /\ s \in 0 .. MaxCommits =>
                entries' \in [Ids -> Entry]
           /\ \A p, h, st, x : SetMQStatus(p, h, st, x) /\ x \in 0 .. MaxCommits
                               /\ st \in {"none", "pending", "success", "failure"} =>
                mq' \in [PRs -> Status]
           /\ \A p : CancelAutoMerge(p) => prs' \in [PRs -> PR]
<1>0. \A e \in Ids : entries[e] \in Entry
  BY DEF SingleTypeOK
<1>1. \A e \in Ids : Gone(e) \in Entry
  <2>1. \A x \in Entry, s \in EntryState, c \in 0 .. MaxCommits :
            [x EXCEPT !.state = s, !.sha = c] \in Entry
    BY DEF Entry
  <2>2. "absent" \in EntryState /\ NoSha \in 0 .. MaxCommits
    BY DEF EntryState, NoSha
  <2>3. QED
    BY <1>0, <2>1, <2>2 DEF Gone
<1>2. \A e \in Ids, s \in EntryState : [entries[e] EXCEPT !.state = s] \in Entry
  BY <1>0 DEF Entry
<1>3. \A e \in Ids, s \in 0 .. MaxCommits : [entries[e] EXCEPT !.sha = s] \in Entry
  BY <1>0 DEF Entry
<1>4. ASSUME NEW p, Dequeue(p)
      PROVE  /\ entries' \in [Ids -> Entry]
             /\ ledger' \in [Ids -> [Contexts -> ReportStates \cup {NoCheck}]]
  BY <1>1, <1>4, InitialValues DEF Dequeue, SingleTypeOK
<1>5. ASSUME NEW p, NEW s \in EntryState, UpdateState(p, s)
      PROVE  entries' \in [Ids -> Entry]
  BY <1>2, <1>5 DEF UpdateState, SingleTypeOK
<1>6. ASSUME NEW p, NEW s \in 0 .. MaxCommits, SetMergeBranch(p, s)
      PROVE  entries' \in [Ids -> Entry]
  BY <1>3, <1>6 DEF SetMergeBranch, SingleTypeOK
<1>7. ASSUME NEW p, NEW h, NEW x \in 0 .. MaxCommits,
             NEW st \in {"none", "pending", "success", "failure"},
             SetMQStatus(p, h, st, x)
      PROVE  mq' \in [PRs -> Status]
  <2>1. [state |-> st, base |-> x] \in Status
    BY DEF Status
  <2>2. QED
    BY <1>7, <2>1 DEF SetMQStatus, SingleTypeOK
<1>8. ASSUME NEW p, CancelAutoMerge(p)
      PROVE  prs' \in [PRs -> PR]
  <2>1. prs \in [PRs -> PR] /\ prs' = [prs EXCEPT ![p].auto = FALSE]
    BY <1>8 DEF CancelAutoMerge, SingleTypeOK
  <2>2. \A r \in PR : [r EXCEPT !.auto = FALSE] \in PR
    BY DEF PR
  <2>3. \A q \in PRs : prs'[q] \in PR
    BY <2>1, <2>2
  <2>4. QED
    BY <2>1, <2>3
<1>9. QED
  BY <1>4, <1>5, <1>6, <1>7, <1>8

(***************************************************************************)
(* Frames: which steps change which variable.                              *)
(***************************************************************************)

(* The commits and CI's results are the forge's, except for the merge of   *)
(* the head.                                                               *)
LEMMA ForgeSteps ==
    ASSUME Next
    PROVE  \/ forgeVars' = forgeVars
           \/ MergeHead \/ World \/ \E p \in PRs : AutoMerge(p)
<1>1. CASE Tick
  BY <1>1 DEF Tick, StartTick, ListEntries, EndReconcile, NothingToStart, PromoteHead,
     MergeFails, Stamp, MarkTesting, ListTesting, EndTick, SkipPR, Enqueue, RemovePR,
     RemoveTimedOut, KeepEntry, FetchChecks, ApplyCheck
<1>2. CASE \E t \in Threads : Monitor(t)
  BY <1>2 DEF Monitor, SaveCheck, Evaluate, Report, Update, Advance
<1>3. CASE \E t \in Handlers, s \in Shas, c \in Contexts, st \in ReportStates :
             Webhook(t, s, c, st)
  BY <1>3 DEF Webhook
<1>4. CASE (\E p \in PRs : Edit(p)) \/ (\E t \in Handlers : Abort(t)) \/ Crash
  BY <1>4 DEF Edit, Abort, Crash
<1>5. QED
  BY <1>1, <1>2, <1>3, <1>4 DEF Next

(* The statements that change the entries.                                 *)
LEMMA EntrySteps ==
    ASSUME Next
    PROVE  \/ entries' = entries
           \/ \E p \in PRs, e \in Ids : Enqueue(p, e)
           \/ \E p : Dequeue(p)
           \/ \E p, s : UpdateState(p, s) /\ s \in {"success", "failed"}
           \/ Stamp \/ MarkTesting
<1>1. CASE Tick
  BY <1>1 DEF Tick, tables, StartTick, ListEntries, EndReconcile, NothingToStart,
     PromoteHead, MergeHead, MergeFails, ListTesting, EndTick, SkipPR, RemovePR,
     RemoveTimedOut, KeepEntry, FetchChecks, ApplyCheck
<1>2. CASE \E t \in Threads : Monitor(t)
  BY <1>2 DEF Monitor, tables, SaveCheck, Evaluate, Report, Update, Advance
<1>3. CASE \E t \in Handlers, s \in Shas, c \in Contexts, st \in ReportStates :
             Webhook(t, s, c, st)
  BY <1>3 DEF Webhook, tables
<1>4. CASE \/ \E p \in PRs : AutoMerge(p) \/ Edit(p)
           \/ \E t \in Handlers : Abort(t)
           \/ World \/ Crash
  BY <1>4 DEF AutoMerge, Edit, World, Abort, Crash, tables
<1>5. QED
  BY <1>1, <1>2, <1>3, <1>4 DEF Next

(* The statements that change the ledger.                                  *)
LEMMA LedgerSteps ==
    ASSUME Next
    PROVE  \/ ledger' = ledger
           \/ \E t \in Threads : SaveCheck(t)
           \/ \E p : Dequeue(p)
<1>1. CASE Tick
  BY <1>1 DEF Tick, tables, StartTick, ListEntries, EndReconcile, NothingToStart,
     PromoteHead, MergeHead, MergeFails, Stamp, MarkTesting, ListTesting, EndTick,
     SkipPR, Enqueue, RemovePR, RemoveTimedOut, KeepEntry, FetchChecks, ApplyCheck
<1>2. CASE \E t \in Threads : Monitor(t)
  BY <1>2 DEF Monitor, tables, Evaluate, Report, Update, Advance
<1>3. CASE \E t \in Handlers, s \in Shas, c \in Contexts, st \in ReportStates :
             Webhook(t, s, c, st)
  BY <1>3 DEF Webhook, tables
<1>4. CASE \/ \E p \in PRs : AutoMerge(p) \/ Edit(p)
           \/ \E t \in Handlers : Abort(t)
           \/ World \/ Crash
  BY <1>4 DEF AutoMerge, Edit, World, Abort, Crash, tables
<1>5. QED
  BY <1>1, <1>2, <1>3, <1>4 DEF Next

(* The steps that change a thread.                                         *)
LEMMA ThreadSteps ==
    ASSUME Next
    PROVE  \/ threads' = threads
           \/ \E t \in Threads : Monitor(t)
           \/ \E t \in Handlers, s \in Shas, c \in Contexts, st \in ReportStates :
                Webhook(t, s, c, st)
           \/ \E f \in fetched : ApplyCheck(f)
           \/ \E t \in Handlers : Abort(t)
           \/ Crash
<1>1. CASE Tick
  BY <1>1 DEF Tick, StartTick, ListEntries, EndReconcile, NothingToStart, PromoteHead,
     MergeHead, MergeFails, Stamp, MarkTesting, ListTesting, EndTick, SkipPR, Enqueue,
     RemovePR, RemoveTimedOut, KeepEntry, FetchChecks
<1>2. CASE (\E p \in PRs : AutoMerge(p) \/ Edit(p)) \/ World
  BY <1>2 DEF AutoMerge, Edit, World
<1>3. QED
  BY <1>1, <1>2 DEF Next

(* The tick and a crash change the poller's variables, and nothing else.   *)
LEMMA PollerSteps ==
    ASSUME Next
    PROVE  UNCHANGED pollerVars \/ Tick \/ Crash
<1>1. CASE \E t \in Threads : Monitor(t)
  BY <1>1 DEF Monitor, SaveCheck, Evaluate, Report, Update, Advance
<1>2. CASE \E t \in Handlers, s \in Shas, c \in Contexts, st \in ReportStates :
             Webhook(t, s, c, st)
  BY <1>2 DEF Webhook
<1>3. CASE \/ \E p \in PRs : AutoMerge(p) \/ Edit(p)
           \/ \E t \in Handlers : Abort(t)
           \/ World
  BY <1>3 DEF AutoMerge, Edit, World, Abort
<1>4. QED
  BY <1>1, <1>2, <1>3 DEF Next

(***************************************************************************)
(* What never changes back.                                                *)
(***************************************************************************)

(* Commits are never rewritten and results never taken back.               *)
LEMMA ForgeGrows ==
    ASSUME SingleTypeOK, Next
    PROVE  /\ ForgeTypeOK'
           /\ last \in Nat /\ last' \in Nat /\ last <= last'
           /\ \A s \in 1 .. last : commits'[s] = commits[s]
           /\ \A s \in Shas, c \in Contexts : \A st :
                Reported(s, c, st) => Reported(s, c, st)'
<1> USE DEF SingleTypeOK, ForgeTypeOK
<1>0. CASE UNCHANGED forgeVars
  BY <1>0 DEF Reported, Shas, forgeVars
<1>1. CASE UNCHANGED reports /\ \E ids \in SUBSET Ids : StackOnTip(ids) /\ tip' \in {tip, last + 1}
  <2>1. PICK ids \in SUBSET Ids : StackOnTip(ids) /\ tip' \in {tip, last + 1}
    BY <1>1
  <2>2. [base |-> tip, ids |-> ids] \in Commit
    BY DEF Commit, Shas
  <2>3. QED
    BY <1>1, <2>1, <2>2 DEF StackOnTip, Reported, Shas
<1>2. CASE MergeHead
  <2>1. {QueueHead} \subseteq Ids
    <3>1. Existing # {}
      BY <1>2 DEF MergeHead, HeadQueued
    <3>2. QED
      BY <3>1, QueueHeadLeads, ExistingIds
  <2>2. QED
    BY <1>1, <1>2, <2>1 DEF MergeHead
<1>3. CASE \E s \in Shas, c \in Contexts, st \in ReportStates : CIReport(s, c, st)
  <2>1. PICK s \in Shas, c \in Contexts, st \in ReportStates : CIReport(s, c, st)
    BY <1>3
  <2>2. UNCHANGED <<tip, commits, last>>
    BY <2>1 DEF CIReport
  <2>3. ASSUME NEW t \in Shas, NEW d \in Contexts
        PROVE  /\ reports[t][d] \in Seq(ReportStates)
               /\ reports'[t][d] \in {reports[t][d], Append(reports[t][d], st)}
    BY <2>1 DEF CIReport
  <2>4. reports' \in [Shas -> [Contexts -> Seq(ReportStates)]]
    <3>1. Append(reports[s][c], st) \in Seq(ReportStates)
      BY <2>3
    <3>2. QED
      BY <2>1, <3>1 DEF CIReport
  <2>5. ASSUME NEW t \in Shas, NEW d \in Contexts, NEW u, Reported(t, d, u)
        PROVE  Reported(t, d, u)'
    <3>1. PICK i \in 1 .. Len(reports[t][d]) : reports[t][d][i] = u
      BY <2>5 DEF Reported
    <3>2. \A r \in Seq(ReportStates) : \A j \in 1 .. Len(r) :
            j \in 1 .. Len(Append(r, st)) /\ Append(r, st)[j] = r[j]
      OBVIOUS
    <3>3. i \in 1 .. Len(reports'[t][d]) /\ reports'[t][d][i] = u
      <4>1. CASE reports'[t][d] = reports[t][d]
        BY <3>1, <4>1
      <4>2. CASE reports'[t][d] = Append(reports[t][d], st)
        BY <2>3, <3>1, <3>2, <4>2
      <4>3. QED
        BY <2>3, <4>1, <4>2
    <3>4. QED
      BY <3>3 DEF Reported
  <2>6. QED
    BY <2>2, <2>4, <2>5 DEF Shas
<1>4. CASE World
  <2>1. CASE TargetPush
    <3>1. UNCHANGED reports /\ StackOnTip({}) /\ tip' = last + 1
      BY <2>1 DEF TargetPush, StackOnTip
    <3>2. QED
      BY <1>1, <3>1
  <2>2. QED
    BY <1>3, <1>4, <2>1 DEF World
<1>5. CASE \E p \in PRs : AutoMerge(p)
  <2>1. UNCHANGED reports /\ StackOnTip({}) /\ tip' = last + 1
    BY <1>5 DEF AutoMerge, StackOnTip
  <2>2. QED
    BY <1>1, <2>1
<1>6. QED
  BY <1>0, <1>2, <1>4, <1>5, ForgeSteps

(* A build stays one, and keeps its content.                               *)
LEMMA BuildsGrow ==
    ASSUME SingleTypeOK, Next
    PROVE  /\ Builds \subseteq Shas
           /\ Builds \subseteq Builds'
           /\ \A s \in Builds : commits'[s] = commits[s]
<1>1. last \in Shas /\ last \in Nat /\ last' \in Nat /\ last <= last'
  BY ForgeGrows DEF SingleTypeOK, ForgeTypeOK
<1>2. \A s \in 1 .. last : commits'[s] = commits[s]
  BY ForgeGrows
<1>3. 1 .. last \subseteq Shas /\ 1 .. last \subseteq 1 .. last'
  BY <1>1 DEF Shas
<1>4. QED
  BY <1>2, <1>3, Zenon DEF Builds

(* A row either was just inserted, as its id's first, or keeps its PR and  *)
(* head; it never comes back, and only StartTesting routes it and puts it  *)
(* in test, if it is the head.                                             *)
LEMMA EntriesMove ==
    ASSUME SingleTypeOK, HeadHeld, Next, NEW x \in Ids
    PROVE  \/ /\ entries[x] = NoEntry
              /\ ppc = "enqueue"
              /\ \E p \in PRs : /\ Enqueue(p, x)
                                /\ entries'[x].state = "queued" /\ entries'[x].pr = p
                                /\ entries'[x].sha = NoSha
           \/ /\ entries'[x].pr = entries[x].pr /\ entries'[x].head = entries[x].head
              /\ x \in Existing' => x \in Existing
              /\ entries[x] = NoEntry => entries'[x] = NoEntry
              /\ \/ x \notin Existing' /\ entries'[x].sha = NoSha
                 \/ entries'[x].sha = entries[x].sha
                 \/ Stamp /\ x = head /\ entries'[x].sha = built
              /\ entries'[x].state = "testing" =>
                    entries[x].state = "testing" \/ (MarkTesting /\ x = head)
<1>0. entries[x] \in Entry /\ DOMAIN entries = Ids
  BY DEF SingleTypeOK
<1>1. CASE entries' = entries
  BY <1>1 DEF Existing
<1>2. CASE \E p \in PRs, e \in Ids : Enqueue(p, e)
  <2>1. PICK p \in PRs, e \in Ids : Enqueue(p, e)
    BY <1>2
  <2>2. CASE x = e
    BY <2>1, <2>2, <1>0 DEF Enqueue, Enqueued
  <2>3. CASE x # e
    <3>1. entries'[x] = entries[x]
      BY <2>1, <2>3, <1>0 DEF Enqueue, Enqueued
    <3>2. QED
      BY <3>1 DEF Existing
  <2>4. QED
    BY <2>2, <2>3
<1>3. CASE \E p : Dequeue(p)
  <2>1. entries'[x] \in {entries[x], Gone(x)}
        /\ (x \notin Existing => entries'[x] = entries[x])
    BY <1>3 DEF Dequeue
  <2>2. /\ Gone(x).pr = entries[x].pr /\ Gone(x).head = entries[x].head
        /\ Gone(x).state = "absent" /\ Gone(x).sha = NoSha
    BY <1>0 DEF Gone, Entry
  <2>3. QED
    <3>1. entries[x] = NoEntry => x \notin Existing
      BY NoEntryFields, Zenon DEF Existing
    <3>2. entries'[x] = Gone(x) => x \notin Existing'
      BY <2>2, Zenon DEF Existing
    <3>3. QED
      BY <2>1, <2>2, <3>1, <3>2 DEF Existing
<1>4. CASE \E p, s : UpdateState(p, s) /\ s \in {"success", "failed"}
  <2>1. PICK p, s : UpdateState(p, s) /\ s \in {"success", "failed"}
    BY <1>4
  <2>2. CASE x \in Existing /\ entries[x].pr = p
    <3>1. entries'[x] = [entries[x] EXCEPT !.state = s]
      BY <2>1, <2>2 DEF UpdateState
    <3>2. /\ entries'[x].pr = entries[x].pr /\ entries'[x].head = entries[x].head
          /\ entries'[x].state = s /\ entries'[x].sha = entries[x].sha
      BY <1>0, <3>1 DEF Entry
    <3>3. QED
      BY <2>1, <2>2, <3>2 DEF Existing, NoEntry
  <2>3. CASE ~ (x \in Existing /\ entries[x].pr = p)
    <3>1. entries'[x] = entries[x]
      BY <2>1, <2>3 DEF UpdateState
    <3>2. QED
      BY <3>1 DEF Existing
  <2>4. QED
    BY <2>2, <2>3
<1>5. CASE Stamp
  <2>1. CASE x \in Existing /\ entries[x].pr = entries[head].pr
    <3>1. x = head
      BY <1>5, <2>1 DEF Stamp, HeadHeld
    <3>2. entries'[x] = [entries[x] EXCEPT !.sha = built]
      BY <1>5, <2>1 DEF Stamp, SetMergeBranch
    <3>3. /\ entries'[x].pr = entries[x].pr /\ entries'[x].head = entries[x].head
          /\ entries'[x].state = entries[x].state /\ entries'[x].sha = built
      BY <1>0, <3>2 DEF Entry
    <3>4. QED
      BY <1>5, <2>1, <3>1, <3>3 DEF Existing, NoEntry
  <2>2. CASE ~ (x \in Existing /\ entries[x].pr = entries[head].pr)
    <3>1. entries'[x] = entries[x]
      BY <1>5, <2>2 DEF Stamp, SetMergeBranch
    <3>2. QED
      BY <3>1 DEF Existing
  <2>3. QED
    BY <2>1, <2>2
<1>6. CASE MarkTesting
  <2>1. CASE x \in Existing /\ entries[x].pr = entries[head].pr
    <3>1. x = head
      BY <1>6, <2>1 DEF MarkTesting, HeadHeld
    <3>2. entries'[x] = [entries[x] EXCEPT !.state = "testing"]
      BY <1>6, <2>1 DEF MarkTesting, UpdateState
    <3>3. /\ entries'[x].pr = entries[x].pr /\ entries'[x].head = entries[x].head
          /\ entries'[x].state = "testing" /\ entries'[x].sha = entries[x].sha
      BY <1>0, <3>2 DEF Entry
    <3>4. QED
      BY <1>6, <2>1, <3>1, <3>3 DEF Existing, NoEntry
  <2>2. CASE ~ (x \in Existing /\ entries[x].pr = entries[head].pr)
    <3>1. entries'[x] = entries[x]
      BY <1>6, <2>2 DEF MarkTesting, UpdateState
    <3>2. QED
      BY <3>1 DEF Existing
  <2>3. QED
    BY <2>1, <2>2
<1>7. QED
  BY <1>1, <1>2, <1>3, <1>4, <1>5, <1>6, EntrySteps, Zenon

(* What is in the queue was there before, or has been enqueued as the      *)
(* last.                                                                   *)
LEMMA ExistingMoves ==
    ASSUME SingleTypeOK, HeadHeld, IdsInOrder, Next
    PROVE  \/ /\ Existing' \subseteq Existing
              /\ \A e \in Ids : entries'[e].pr = entries[e].pr
           \/ \E p \in PRs, e \in Ids :
                /\ Enqueue(p, e) /\ ppc = "enqueue"
                /\ Existing' = Existing \cup {e}
                /\ entries'[e].state = "queued" /\ entries'[e].pr = p
                /\ \A f \in Ids : f # e => entries'[f] = entries[f]
                /\ \A f \in Existing : f < e /\ entries[f].pr # p
<1>1. CASE \E p \in PRs, e \in Ids : Enqueue(p, e)
  <2>1. PICK p \in PRs, e \in Ids : Enqueue(p, e)
    BY <1>1
  <2>2. /\ DOMAIN entries = Ids
        /\ entries' = Enqueued(p, seen[p].head, e)
        /\ entries[e] = NoEntry /\ ppc = "enqueue" /\ ~ InQueue(p)
    BY <2>1 DEF Enqueue, SingleTypeOK
  <2>3. /\ entries'[e].state = "queued" /\ entries'[e].pr = p
        /\ \A f \in Ids : f # e => entries'[f] = entries[f]
    BY <2>2 DEF Enqueued
  <2>4. ASSUME NEW f \in Existing
        PROVE  f < e /\ entries[f].pr # p
    <3>1. f \in Ids /\ e \in Ids /\ entries[f].state # "absent"
      BY DEF Existing
    <3>2. entries[f].pr # NoPR
      BY <3>1, NoEntryFields, Zenon DEF IdsInOrder
    <3>3. ~ (e <= f)
      BY <2>2, <3>1, <3>2, NoEntryFields, Zenon DEF IdsInOrder
    <3>4. QED
      BY <2>2, <3>1, <3>3 DEF Ids, InQueue
  <2>5. Existing' = Existing \cup {e}
    BY <2>3, Zenon DEF Existing
  <2>6. QED
    BY <2>1, <2>2, <2>3, <2>4, <2>5, Zenon
<1>2. CASE ~ \E p \in PRs, e \in Ids : Enqueue(p, e)
  <2>1. ASSUME NEW x \in Ids
        PROVE  /\ entries'[x].pr = entries[x].pr
               /\ x \in Existing' => x \in Existing
    BY <1>2, EntriesMove, Zenon
  <2>2. QED
    BY <2>1, Zenon DEF Existing
<1>3. QED
  BY <1>1, <1>2, Zenon

(***************************************************************************)
(* Type correctness.                                                       *)
(***************************************************************************)

(* A build is a commit.                                                    *)
LEMMA BuildsAreShas ==
    ASSUME SingleTypeOK
    PROVE  Builds \subseteq Shas
<1>1. last \in Shas /\ last \in Nat
  BY DEF SingleTypeOK, ForgeTypeOK, Shas
<1>2. QED
  BY <1>1 DEF Builds, Shas

(* A thread works on an entry and a commit.                                *)
LEMMA ThreadsTyped ==
    ASSUME SingleTypeOK, ThreadsPinned, FetchedPinned, Next
    PROVE  threads' \in [Threads -> Thread]
<1> USE InitialValues
<1>0. threads \in [Threads -> Thread] /\ Poller \in Threads /\ Handlers \subseteq Threads
  BY DEF SingleTypeOK, Threads
<1>1. CASE threads' = threads
  BY <1>0, <1>1
<1>2. ASSUME NEW t \in Threads, Return(t)
      PROVE  threads' \in [Threads -> Thread]
  BY <1>0, <1>2 DEF Return
<1>3. ASSUME NEW t \in Threads, NEW x \in {"idle", "save", "eval", "status", "update",
             "advance"}, Goto(t, x)
      PROVE  threads' \in [Threads -> Thread]
  <2>1. [threads[t] EXCEPT !.pc = x] \in Thread
    BY <1>0 DEF Thread
  <2>2. QED
    BY <1>0, <1>3, <2>1 DEF Goto
<1>4. ASSUME NEW t \in Threads, Monitor(t)
      PROVE  threads' \in [Threads -> Thread]
  <2>1. CASE SaveCheck(t)
    <3>1. [threads[t] EXCEPT !.pc = "eval", !.ctx = NoCheck, !.state = NoCheck] \in Thread
      BY <1>0 DEF Thread
    <3>2. CASE threads' = [threads EXCEPT ![t].pc = "eval", ![t].ctx = NoCheck,
                                          ![t].state = NoCheck]
      <4>1. threads' = [threads EXCEPT ![t] = [threads[t] EXCEPT !.pc = "eval",
                            !.ctx = NoCheck, !.state = NoCheck]]
        BY <1>0, <3>2
      <4>2. QED
        BY <1>0, <3>1, <4>1
    <3>3. QED
      BY <1>2, <2>1, <3>2 DEF SaveCheck
  <2>2. CASE Evaluate(t)
    <3>1. ASSUME NEW v \in Verdict,
                 threads' = [threads EXCEPT ![t].pc = "status", ![t].verdict = v]
          PROVE  threads' \in [Threads -> Thread]
      <4>1. [threads[t] EXCEPT !.pc = "status", !.verdict = v] \in Thread
        BY <1>0 DEF Thread
      <4>2. threads' = [threads EXCEPT ![t] =
                          [threads[t] EXCEPT !.pc = "status", !.verdict = v]]
        BY <1>0, <3>1
      <4>3. QED
        BY <1>0, <4>1, <4>2
    <3>2. QED
      BY <1>2, <2>2, <3>1 DEF Evaluate, Verdict
  <2>3. CASE Report(t)
    BY <1>3, <2>3 DEF Report
  <2>4. CASE Update(t)
    BY <1>2, <1>3, <2>4 DEF Update
  <2>5. CASE Advance(t)
    BY <1>2, <2>5 DEF Advance
  <2>6. QED
    BY <1>4, <2>1, <2>2, <2>3, <2>4, <2>5 DEF Monitor
<1>5. ASSUME NEW t \in Handlers, NEW s \in Shas, NEW c \in Contexts,
             NEW st \in ReportStates, Webhook(t, s, c, st)
      PROVE  threads' \in [Threads -> Thread]
  <2> DEFINE found == {e \in Active : entries[e].sha = s}
  <2>1. found # {} /\ found \in SUBSET Ids
    BY <1>5, ExistingIds DEF Webhook
  <2>2. Least(found) \in Ids
    BY <2>1, LeastOfIds, Zenon
  <2>3. threads' = [threads EXCEPT ![t] =
                [pc |-> "save", id |-> Least(found), sha |-> s, ctx |-> c,
                 state |-> st, verdict |-> "waiting"]]
    BY <1>5 DEF Webhook
  <2> HIDE DEF found
  <2>4. [pc |-> "save", id |-> Least(found), sha |-> s, ctx |-> c,
                 state |-> st, verdict |-> "waiting"] \in Thread
    BY <2>2 DEF Thread, Verdict, Ids, Shas
  <2>5. QED
    BY <1>0, <2>3, <2>4
<1>6. ASSUME NEW f \in fetched, ApplyCheck(f)
      PROVE  threads' \in [Threads -> Thread]
  <2>1. f \in Fetched
    BY DEF SingleTypeOK
  <2>2. [pc |-> "save", id |-> f.id, sha |-> f.sha, ctx |-> f.ctx,
         state |-> f.state, verdict |-> "waiting"] \in Thread
    BY <2>1 DEF Fetched, Thread, Verdict, Ids, Shas
  <2>3. QED
    BY <1>0, <1>6, <2>2 DEF ApplyCheck
<1>7. CASE \E t \in Handlers : Abort(t)
  BY <1>0, <1>2, <1>7 DEF Abort
<1>8. CASE Crash
  BY <1>8 DEF Crash
<1>9. QED
  BY <1>1, <1>4, <1>5, <1>6, <1>7, <1>8, ThreadSteps

(* The PRs and their statuses, which users, the forge and the queue change. *)
LEMMA StatusSteps ==
    ASSUME Next
    PROVE  \/ mq' = mq /\ prs' = prs
           \/ mq' = mq /\ \E p : CancelAutoMerge(p)
           \/ \E p \in PRs : AutoMerge(p) \/ Edit(p) \/ \E e \in Ids : Enqueue(p, e)
           \/ \E e \in Ids : RemoveTimedOut(e)
           \/ \E t \in Threads : Report(t)
           \/ PromoteHead \/ MergeFails \/ MarkTesting
<1>1. CASE Tick
  BY <1>1 DEF Tick, StartTick, ListEntries, EndReconcile, NothingToStart, MergeHead,
     Stamp, ListTesting, EndTick, SkipPR, RemovePR, KeepEntry, FetchChecks, ApplyCheck
<1>2. CASE \E t \in Threads : Monitor(t)
  BY <1>2 DEF Monitor, SaveCheck, Evaluate, Update, Advance
<1>3. CASE \E t \in Handlers, s \in Shas, c \in Contexts, st \in ReportStates :
             Webhook(t, s, c, st)
  BY <1>3 DEF Webhook
<1>4. CASE World \/ Crash \/ \E t \in Handlers : Abort(t)
  BY <1>4 DEF World, Crash, Abort
<1>5. QED
  BY <1>1, <1>2, <1>3, <1>4 DEF Next

(* PRs and their statuses stay well typed.                                 *)
LEMMA StatusesTyped ==
    ASSUME SingleTypeOK, ThreadsPinned, Next
    PROVE  prs' \in [PRs -> PR] /\ mq' \in [PRs -> Status]
<1>0. /\ prs \in [PRs -> PR] /\ mq \in [PRs -> Status]
      /\ tip \in 0 .. MaxCommits /\ NoSha \in 0 .. MaxCommits
  BY DEF SingleTypeOK, ForgeTypeOK, Shas, NoSha
<1>1. CASE mq' = mq /\ prs' = prs
  BY <1>0, <1>1
<1>2. CASE mq' = mq /\ \E p : CancelAutoMerge(p)
  BY <1>0, <1>2, TablesTyped
<1>3. CASE \E p \in PRs : AutoMerge(p)
  BY <1>0, <1>3 DEF AutoMerge, PR
<1>4. CASE \E p \in PRs : Edit(p)
  <2>1. PICK p \in PRs : Edit(p)
    BY <1>4
  <2>2. prs[p] \in PR /\ Unset \in Status
    BY <1>0, InitialValues
  <2>3. \/ prs' = [prs EXCEPT ![p].state = IF @ = "open" THEN "closed" ELSE "open"]
        \/ prs' = [prs EXCEPT ![p].auto = ~ @]
        \/ prs[p].head < MaxHeads /\ prs' = [prs EXCEPT ![p].head = @ + 1]
    BY <2>1 DEF Edit
  <2>4. prs' \in [PRs -> PR]
    <3>1. /\ [prs[p] EXCEPT !.state = IF @ = "open" THEN "closed" ELSE "open"] \in PR
          /\ [prs[p] EXCEPT !.auto = ~ @] \in PR
          /\ prs[p].head < MaxHeads => [prs[p] EXCEPT !.head = @ + 1] \in PR
      <4>1. [prs[p] EXCEPT !.state = IF @ = "open" THEN "closed" ELSE "open"] \in PR
        BY <2>2 DEF PR
      <4>2. [prs[p] EXCEPT !.auto = ~ @] \in PR
        BY <2>2 DEF PR
      <4>3. prs[p].head < MaxHeads => [prs[p] EXCEPT !.head = @ + 1] \in PR
        BY <2>2 DEF PR
      <4>4. QED
        BY <4>1, <4>2, <4>3
    <3>2. \/ prs' = [prs EXCEPT ![p] =
                  [prs[p] EXCEPT !.state = IF @ = "open" THEN "closed" ELSE "open"]]
          \/ prs' = [prs EXCEPT ![p] = [prs[p] EXCEPT !.auto = ~ @]]
          \/ prs[p].head < MaxHeads
             /\ prs' = [prs EXCEPT ![p] = [prs[p] EXCEPT !.head = @ + 1]]
      BY <1>0, <2>2, <2>3
    <3>3. QED
      BY <1>0, <3>1, <3>2
  <2>5. mq' \in [PRs -> Status]
    BY <1>0, <2>1, <2>2 DEF Edit
  <2>6. QED
    BY <2>4, <2>5
<1>5. CASE \E p \in PRs, e \in Ids : Enqueue(p, e)
  BY <1>0, <1>5, TablesTyped DEF Enqueue
<1>6. CASE \E e \in Ids : RemoveTimedOut(e)
  BY <1>0, <1>6, TablesTyped DEF RemoveTimedOut
<1>7. ASSUME NEW t \in Threads, Report(t)
      PROVE  prs' \in [PRs -> PR] /\ mq' \in [PRs -> Status]
  <2>1. threads[t].sha \in Shas
    BY <1>7, BuildsAreShas DEF Report, ThreadsPinned, At
  <2>2. commits[threads[t].sha].base \in 0 .. MaxCommits
    BY <2>1 DEF SingleTypeOK, ForgeTypeOK, Commit
  <2>3. QED
    BY <1>0, <1>7, <2>2, TablesTyped DEF Report
<1>8. CASE PromoteHead
  BY <1>0, <1>8, TablesTyped DEF PromoteHead
<1>9. CASE MergeFails \/ MarkTesting
  BY <1>0, <1>9, TablesTyped DEF MergeFails, MarkTesting
<1>10. QED
  BY <1>1, <1>2, <1>3, <1>4, <1>5, <1>6, <1>7, <1>8, <1>9, StatusSteps

(* So do the tables,                                                       *)
LEMMA TablesStayTyped ==
    ASSUME SingleTypeOK, Next
    PROVE  /\ entries' \in [Ids -> Entry]
           /\ ledger' \in [Ids -> [Contexts -> ReportStates \cup {NoCheck}]]
<1>0. /\ entries \in [Ids -> Entry]
      /\ ledger \in [Ids -> [Contexts -> ReportStates \cup {NoCheck}]]
  BY DEF SingleTypeOK
<1>1. ASSUME \E p \in PRs, e \in Ids : Enqueue(p, e)
      PROVE  entries' \in [Ids -> Entry]
  <2>1. PICK p \in PRs, e \in Ids : Enqueue(p, e)
    BY <1>1
  <2>2. seen[p].head \in 1 .. MaxHeads
    BY DEF SingleTypeOK, PR
  <2>3. [state |-> "queued", pr |-> p, head |-> seen[p].head, sha |-> NoSha] \in Entry
    BY <2>2 DEF Entry, EntryState, NoSha
  <2>4. QED
    BY <1>0, <2>1, <2>3 DEF Enqueue, Enqueued
<1>2. CASE \E p : Dequeue(p)
  BY <1>2, TablesTyped
<1>3. ASSUME \E p, s : UpdateState(p, s) /\ s \in {"success", "failed"}
      PROVE  entries' \in [Ids -> Entry]
  <2>1. PICK p, s : UpdateState(p, s) /\ s \in {"success", "failed"}
    BY <1>3
  <2>2. s \in EntryState
    BY <2>1 DEF EntryState
  <2>3. QED
    BY <2>1, <2>2, TablesTyped
<1>4. ASSUME Stamp
      PROVE  entries' \in [Ids -> Entry]
  BY <1>4, TablesTyped DEF Stamp, SingleTypeOK
<1>5. ASSUME MarkTesting
      PROVE  entries' \in [Ids -> Entry]
  <2>1. UpdateState(entries[head].pr, "testing") /\ "testing" \in EntryState
    BY <1>5 DEF MarkTesting, EntryState
  <2>2. QED
    BY <2>1, TablesTyped
<1>6. entries' \in [Ids -> Entry]
  BY <1>0, <1>1, <1>2, <1>3, <1>4, <1>5, EntrySteps
<1>7. ASSUME NEW t \in Threads, SaveCheck(t)
      PROVE  ledger' \in [Ids -> [Contexts -> ReportStates \cup {NoCheck}]]
  <2>1. threads[t].state \in ReportStates \cup {NoCheck}
    BY DEF SingleTypeOK, Thread
  <2>2. QED
    BY <1>0, <1>7, <2>1 DEF SaveCheck
<1>8. QED
  BY <1>0, <1>2, <1>6, <1>7, LedgerSteps

(* the poller's variables,                                                 *)
LEMMA PollerTyped ==
    ASSUME SingleTypeOK, VisitsEntries, RoutedToBuild, Next
    PROVE  /\ ppc' \in {"idle", "enqueue", "reconcile", "start", "stamp", "mark",
                        "list", "check"}
           /\ seen' \in [PRs -> PR]
           /\ snap' \in [Ids -> EntryState]
           /\ visit' \subseteq PRs \cup Ids
           /\ head' \in 0 .. MaxEntries
           /\ built' \in 0 .. MaxCommits
           /\ fetched' \subseteq Fetched
<1> DEFINE Typed == /\ ppc \in {"idle", "enqueue", "reconcile", "start", "stamp", "mark",
                                "list", "check"}
                    /\ seen \in [PRs -> PR]
                    /\ snap \in [Ids -> EntryState]
                    /\ visit \subseteq PRs \cup Ids
                    /\ head \in 0 .. MaxEntries
                    /\ built \in 0 .. MaxCommits
                    /\ fetched \subseteq Fetched
<1>0. /\ Typed /\ prs \in [PRs -> PR] /\ entries \in [Ids -> Entry]
      /\ Active \subseteq Ids /\ "absent" \in EntryState
      /\ NewPR \in PR /\ NoId \in 0 .. MaxEntries /\ NoSha \in 0 .. MaxCommits
  BY ExistingIds, InitialValues DEF SingleTypeOK, EntryState, NoId, NoSha
<1> SUFFICES Typed'
  OBVIOUS
<1>1. CASE UNCHANGED pollerVars
  BY <1>0, <1>1 DEF pollerVars
<1>2. CASE Crash
  BY <1>0, <1>2 DEF Crash
<1>3. CASE StartTick \/ \E p \in PRs : SkipPR(p) \/ \E e \in Ids : Enqueue(p, e)
  BY <1>0, <1>3 DEF StartTick, SkipPR, Enqueue
<1>4. CASE ListEntries
  BY <1>0, <1>4 DEF ListEntries, Entry
<1>5. CASE \E e \in Ids : RemovePR(e) \/ RemoveTimedOut(e) \/ KeepEntry(e)
  BY <1>0, <1>5 DEF RemovePR, RemoveTimedOut, KeepEntry
<1>6. CASE EndReconcile \/ NothingToStart \/ PromoteHead \/ MergeFails
  BY <1>0, <1>6 DEF EndReconcile, NothingToStart, PromoteHead, MergeFails
<1>7. CASE MergeHead
  <2>1. QueueHead \in 0 .. MaxEntries
    <3>1. Existing # {}
      BY <1>7 DEF MergeHead, HeadQueued
    <3>2. QueueHead \in Ids
      BY <3>1, QueueHeadLeads, ExistingIds
    <3>3. QED
      BY <3>2 DEF Ids
  <2>2. last + 1 \in 0 .. MaxCommits
    BY <1>7 DEF MergeHead, StackOnTip, SingleTypeOK, ForgeTypeOK, Shas
  <2>3. QED
    BY <1>0, <1>7, <2>1, <2>2 DEF MergeHead
<1>8. CASE Stamp \/ MarkTesting
  BY <1>0, <1>8 DEF Stamp, MarkTesting
<1>9. CASE ListTesting
  BY <1>0, <1>9 DEF ListTesting
<1>10. ASSUME NEW e \in Ids, FetchChecks(e)
       PROVE  Typed'
  <2>1. fetched' \subseteq Fetched
    <3>1. CASE e \notin Existing
      BY <1>10, <3>1 DEF FetchChecks
    <3>2. CASE e \in Existing
      <4>1. visit \subseteq Ids /\ visit # {} /\ e = Least(visit)
            /\ \A x \in visit \cap Existing : entries[x].sha # NoSha
        BY <1>10 DEF FetchChecks, PollerAtLoop, VisitsEntries
      <4>2. e \in visit
        BY <4>1, LeastOfIds, Zenon
      <4>3. entries[e].sha \in Shas
        BY <3>2, <4>1, <4>2, BuildsAreShas DEF RoutedToBuild
      <4>4. \A c \in Contexts : reports[entries[e].sha][c] \in Seq(ReportStates)
        BY <4>3 DEF SingleTypeOK, ForgeTypeOK
      <4>5. \A r \in Seq(ReportStates) : r # <<>> => r[Len(r)] \in ReportStates
        OBVIOUS
      <4>6. ASSUME NEW c \in {x \in Contexts : reports[entries[e].sha][x] # <<>>}
            PROVE  [id |-> e, sha |-> entries[e].sha, ctx |-> c,
                    state |-> reports[entries[e].sha][c][Len(reports[entries[e].sha][c])]]
                   \in Fetched
        <5>1. reports[entries[e].sha][c][Len(reports[entries[e].sha][c])] \in ReportStates
          BY <4>4, <4>5
        <5>2. QED
          BY <4>3, <5>1 DEF Fetched
      <4>7. QED
        BY <1>10, <3>2, <4>6 DEF FetchChecks
    <3>3. QED
      BY <3>1, <3>2
  <2>2. QED
    BY <1>0, <1>10, <2>1 DEF FetchChecks
<1>11. CASE \E f \in fetched : ApplyCheck(f)
  BY <1>0, <1>11 DEF ApplyCheck
<1>12. CASE EndTick
  BY <1>0, <1>12 DEF EndTick
<1>13. QED
  BY <1>1, <1>2, <1>3, <1>4, <1>5, <1>6, <1>7, <1>8, <1>9, <1>10, <1>11, <1>12,
     PollerSteps DEF Tick

(* and the counters that bound the model.                                  *)
LEMMA CountersTyped ==
    ASSUME SingleTypeOK, Next
    PROVE  edits' \in 0 .. MaxEdits /\ faults' \in 0 .. MaxFaults
<1>0. edits \in 0 .. MaxEdits /\ faults \in 0 .. MaxFaults
  BY DEF SingleTypeOK
<1>1. CASE Tick
  BY <1>0, <1>1 DEF Tick, StartTick, ListEntries, EndReconcile, NothingToStart,
     PromoteHead, MergeHead, MergeFails, Stamp, MarkTesting, ListTesting, EndTick,
     SkipPR, Enqueue, RemovePR, RemoveTimedOut, KeepEntry, FetchChecks, ApplyCheck
<1>2. CASE \E t \in Threads : Monitor(t)
  BY <1>0, <1>2 DEF Monitor, SaveCheck, Evaluate, Report, Update, Advance
<1>3. CASE \E t \in Handlers, s \in Shas, c \in Contexts, st \in ReportStates :
             Webhook(t, s, c, st)
  BY <1>0, <1>3 DEF Webhook
<1>4. CASE World \/ \E p \in PRs : AutoMerge(p)
  BY <1>0, <1>4 DEF World, AutoMerge
<1>5. CASE \E p \in PRs : Edit(p)
  BY <1>0, <1>5 DEF Edit
<1>6. CASE Crash \/ \E t \in Handlers : Abort(t)
  BY <1>0, <1>6 DEF Crash, Abort
<1>7. QED
  BY <1>1, <1>2, <1>3, <1>4, <1>5, <1>6 DEF Next

(* Every step keeps the types.                                             *)
LEMMA TypeStep ==
    ASSUME SingleInv, Next
    PROVE  SingleTypeOK'
BY ForgeGrows, StatusesTyped, TablesStayTyped, ThreadsTyped, PollerTyped, CountersTyped
   DEF SingleInv, SingleTypeOK

(***************************************************************************)
(* The queue.                                                              *)
(***************************************************************************)

(* EnqueuePR inserts the next id.                                          *)
LEMMA IdsInOrderStep ==
    ASSUME SingleInv, Next
    PROVE  IdsInOrder'
<1> SUFFICES ASSUME NEW e \in Ids, entries'[e].pr = NoPR
             PROVE  /\ entries'[e] = NoEntry
                    /\ \A f \in Ids : e <= f => entries'[f].pr = NoPR
  BY DEF IdsInOrder, NoEntry
<1>1. \A p \in PRs : p # NoPR
  OBVIOUS
<1>2. entries'[e].pr = entries[e].pr /\ (entries[e] = NoEntry => entries'[e] = NoEntry)
  BY <1>1, EntriesMove, Zenon DEF SingleInv
<1>3. entries[e] = NoEntry /\ \A f \in Ids : e <= f => entries[f].pr = NoPR
  BY <1>2, Zenon DEF SingleInv, IdsInOrder
<1>4. ASSUME NEW f \in Ids, e <= f
      PROVE  entries'[f].pr = NoPR
  <2>1. CASE entries'[f].pr = entries[f].pr
    BY <1>3, <1>4, <2>1
  <2>2. CASE \E p \in PRs : Enqueue(p, f)
    <3>1. f <= e
      BY <1>3, <2>2 DEF Enqueue
    <3>2. QED
      BY <1>4, <3>1 DEF Ids
  <2>3. QED
    BY <2>1, <2>2, EntriesMove, Zenon DEF SingleInv
<1>5. QED
  BY <1>2, <1>3, <1>4

(* Enqueue looks for an entry of the PR first.                             *)
LEMMA OneEntryPerPRStep ==
    ASSUME SingleInv, Next
    PROVE  OneEntryPerPR'
<1>1. Existing \subseteq Ids /\ Existing' \subseteq Ids
  BY DEF Existing
<1>2. CASE Existing' \subseteq Existing /\ \A e \in Ids : entries'[e].pr = entries[e].pr
  BY <1>1, <1>2 DEF SingleInv, OneEntryPerPR
<1>3. ASSUME NEW p \in PRs, NEW e \in Ids,
             /\ Existing' = Existing \cup {e} /\ entries'[e].pr = p
             /\ \A f \in Ids : f # e => entries'[f] = entries[f]
             /\ \A f \in Existing : f < e /\ entries[f].pr # p
      PROVE  OneEntryPerPR'
  BY <1>1, <1>3 DEF SingleInv, OneEntryPerPR, Ids
<1>4. QED
  BY <1>2, <1>3, ExistingMoves DEF SingleInv

(* StartTesting takes the head, and nothing is enqueued before it.         *)
LEMMA TestingLeadsStep ==
    ASSUME SingleInv, Next
    PROVE  TestingLeads'
<1>1. Existing \subseteq Ids /\ Existing' \subseteq Ids
  BY DEF Existing
<1>2. CASE Existing' \subseteq Existing
  <2>1. ASSUME NEW e \in Existing', entries'[e].state = "testing"
        PROVE  \A f \in Existing : e <= f
    <3>1. e \in Ids /\ e \in Existing
      BY <1>1, <1>2
    <3>2. entries[e].state = "testing" \/ (MarkTesting /\ e = head)
      BY <2>1, <3>1, EntriesMove DEF SingleInv
    <3>3. CASE entries[e].state = "testing"
      BY <3>1, <3>3 DEF SingleInv, TestingLeads
    <3>4. CASE MarkTesting /\ e = head
      BY <3>4 DEF MarkTesting, SingleInv, HeadHeld
    <3>5. QED
      BY <3>2, <3>3, <3>4
  <2>2. QED
    BY <1>2, <2>1 DEF TestingLeads
<1>3. ASSUME NEW e \in Ids,
             /\ Existing' = Existing \cup {e} /\ entries'[e].state = "queued"
             /\ \A f \in Ids : f # e => entries'[f] = entries[f]
             /\ \A f \in Existing : f < e
      PROVE  TestingLeads'
  BY <1>1, <1>3 DEF SingleInv, TestingLeads, Ids
<1>4. QED
  BY <1>2, <1>3, ExistingMoves DEF SingleInv

(* The poller gets into StartTesting by merging the head.                  *)
LEMMA StartTestingSteps ==
    ASSUME Next, ppc' \in {"stamp", "mark"}
    PROVE  \/ MergeHead
           \/ /\ ppc \in {"stamp", "mark"}
              /\ head' = head /\ built' = built
<1>1. CASE UNCHANGED pollerVars
  BY <1>1 DEF pollerVars
<1>2. CASE Crash
  BY <1>2 DEF Crash
<1>3. CASE Tick
  BY <1>3 DEF Tick, StartTick, ListEntries, EndReconcile, NothingToStart, PromoteHead,
     MergeFails, Stamp, MarkTesting, ListTesting, EndTick, SkipPR, Enqueue, RemovePR,
     RemoveTimedOut, KeepEntry, FetchChecks, ApplyCheck, Reconciling, PollerAtLoop
<1>4. QED
  BY <1>1, <1>2, <1>3, PollerSteps

(* While StartTesting runs, entries only leave.                            *)
LEMMA HeadHeldStep ==
    ASSUME SingleInv, Next
    PROVE  HeadHeld'
<1> SUFFICES ASSUME ppc' \in {"stamp", "mark"}
             PROVE  HeadHeld'
  BY DEF HeadHeld
<1>0. SingleTypeOK /\ Existing \subseteq Ids /\ Existing' \subseteq Ids
  BY DEF SingleInv, Existing
<1>1. CASE MergeHead
  <2>1. Existing # {}
    BY <1>1 DEF MergeHead, HeadQueued
  <2>2. /\ QueueHead \in Existing /\ QueueHead \in Ids
        /\ \A y \in Existing : QueueHead <= y
    BY <1>0, <2>1, QueueHeadLeads
  <2>3. /\ entries' = entries /\ head' = QueueHead /\ built' = last + 1
        /\ last' = last + 1 /\ last < MaxCommits
        /\ commits' = [commits EXCEPT ![last + 1] = [base |-> tip, ids |-> {QueueHead}]]
    BY <1>1 DEF MergeHead, tables, StackOnTip
  <2>4. entries[QueueHead].pr # NoPR
    BY <2>2, NoEntryFields, Zenon DEF SingleInv, IdsInOrder, Existing
  <2>5. last + 1 \in Shas /\ DOMAIN commits = Shas /\ last \in Nat
    BY <1>0, <2>3 DEF SingleTypeOK, ForgeTypeOK, Shas
  <2>6. commits'[last + 1].ids = {QueueHead}
    BY <2>3, <2>5
  <2>7. built' \in Builds' /\ head' \in commits'[built'].ids
    BY <2>3, <2>5, <2>6 DEF Builds
  <2>8. Existing' = Existing
    BY <2>3 DEF Existing
  <2> HIDE DEF QueueHead
  <2>9. QED
    BY <2>2, <2>3, <2>4, <2>7, <2>8 DEF HeadHeld, SingleInv, OneEntryPerPR
<1>2. CASE ppc \in {"stamp", "mark"} /\ head' = head /\ built' = built
  <2>1. /\ head \in Ids /\ entries[head].pr # NoPR
        /\ built \in Builds /\ head \in commits[built].ids
        /\ \A e \in Existing : head <= e /\ (entries[e].pr = entries[head].pr => e = head)
    BY <1>2 DEF SingleInv, HeadHeld
  <2>2. Existing' \subseteq Existing /\ \A e \in Ids : entries'[e].pr = entries[e].pr
    BY <1>2, ExistingMoves DEF SingleInv
  <2>3. built \in Builds' /\ commits'[built] = commits[built]
    BY <1>0, <2>1, BuildsGrow
  <2>4. QED
    BY <1>0, <1>2, <2>1, <2>2, <2>3 DEF HeadHeld
<1>3. QED
  BY <1>1, <1>2, StartTestingSteps

(* SetMergeBranch, though it goes by PR number, hits the entry merged.     *)
LEMMA RoutedToBuildStep ==
    ASSUME SingleInv, Next
    PROVE  RoutedToBuild'
<1> SUFFICES ASSUME NEW e \in Ids, entries'[e].sha # NoSha
             PROVE  entries'[e].sha \in Builds' /\ e \in commits'[entries'[e].sha].ids
  BY DEF RoutedToBuild, NoSha
<1>1. entries'[e].sha = entries[e].sha \/ (Stamp /\ e = head /\ entries'[e].sha = built)
  BY EntriesMove, Zenon DEF SingleInv
<1>2. entries'[e].sha \in Builds /\ e \in commits[entries'[e].sha].ids
  <2>1. CASE entries'[e].sha = entries[e].sha
    BY <2>1 DEF SingleInv, RoutedToBuild
  <2>2. CASE Stamp /\ e = head /\ entries'[e].sha = built
    BY <2>2 DEF Stamp, SingleInv, HeadHeld
  <2>3. QED
    BY <1>1, <2>1, <2>2
<1>3. QED
  BY <1>2, BuildsGrow DEF SingleInv

(***************************************************************************)
(* The poller's lists and the threads.                                     *)
(***************************************************************************)

(* The loops visit what was listed.                                        *)
LEMMA VisitsEntriesStep ==
    ASSUME SingleInv, Next
    PROVE  VisitsEntries'
<1>0. /\ VisitsEntries /\ Active \subseteq Ids /\ Active \subseteq Existing
      /\ Existing \subseteq Ids /\ Existing' \subseteq Ids
  BY ExistingIds DEF SingleInv, Existing
<1>1. ASSUME ppc = "check", ppc' = "check", visit' \subseteq visit
      PROVE  VisitsEntries'
  <2>1. ASSUME NEW e \in visit' \cap Existing'
        PROVE  entries'[e].sha # NoSha
    <3>1. e \in Ids /\ e \in Existing' /\ e \in visit
      BY <1>0, <1>1
    <3>2. e \in Existing /\ entries'[e].sha = entries[e].sha
      BY <1>1, <3>1, EntriesMove DEF SingleInv, Stamp
    <3>3. QED
      BY <1>0, <1>1, <3>1, <3>2 DEF VisitsEntries, NoSha
  <2>2. QED
    BY <1>0, <1>1, <2>1 DEF VisitsEntries, NoSha
<1>2. CASE UNCHANGED pollerVars
  BY <1>0, <1>1, <1>2 DEF VisitsEntries, pollerVars
<1>3. CASE Crash
  BY <1>3 DEF Crash, VisitsEntries
<1>4. CASE ListTesting
  <2>1. entries' = entries /\ fetched = {} /\ fetched' = fetched /\ ppc' = "check"
        /\ visit' = {e \in Active : entries[e].state = "testing" /\ entries[e].sha # NoSha}
    BY <1>0, <1>4 DEF ListTesting, tables, VisitsEntries
  <2>2. QED
    BY <1>0, <2>1 DEF VisitsEntries, NoSha
<1>5. CASE \E e \in Ids : FetchChecks(e)
  BY <1>0, <1>1, <1>5 DEF FetchChecks, PollerAtLoop, VisitsEntries
<1>6. CASE \E f \in fetched : ApplyCheck(f)
  BY <1>0, <1>1, <1>6 DEF ApplyCheck, VisitsEntries
<1>7. CASE EndTick
  BY <1>7 DEF EndTick, PollerAtLoop, VisitsEntries
<1>8. CASE ListEntries
  BY <1>0, <1>8 DEF ListEntries, VisitsEntries
<1>9. CASE \E e \in Ids : RemovePR(e) \/ RemoveTimedOut(e) \/ KeepEntry(e)
  BY <1>0, <1>9 DEF RemovePR, RemoveTimedOut, KeepEntry, Reconciling, VisitsEntries
<1>10. CASE StartTick \/ \E p \in PRs : SkipPR(p) \/ \E e \in Ids : Enqueue(p, e)
  BY <1>0, <1>10 DEF StartTick, SkipPR, Enqueue, VisitsEntries
<1>11. CASE EndReconcile \/ NothingToStart \/ PromoteHead \/ MergeHead \/ MergeFails
            \/ Stamp \/ MarkTesting
  BY <1>0, <1>11 DEF EndReconcile, NothingToStart, PromoteHead, MergeHead, MergeFails,
     Stamp, MarkTesting, VisitsEntries
<1>12. QED
  BY <1>2, <1>3, <1>4, <1>5, <1>6, <1>7, <1>8, <1>9, <1>10, <1>11, PollerSteps DEF Tick

(* Results are fetched in one place.                                       *)
LEMMA FetchedSteps ==
    ASSUME Next
    PROVE  fetched' \subseteq fetched \/ \E e \in Ids : FetchChecks(e)
<1>1. CASE UNCHANGED pollerVars
  BY <1>1 DEF pollerVars
<1>2. CASE Crash
  BY <1>2 DEF Crash
<1>3. CASE Tick
  BY <1>3 DEF Tick, StartTick, ListEntries, EndReconcile, NothingToStart, PromoteHead,
     MergeHead, MergeFails, Stamp, MarkTesting, ListTesting, EndTick, SkipPR, Enqueue,
     RemovePR, RemoveTimedOut, KeepEntry, ApplyCheck
<1>4. QED
  BY <1>1, <1>2, <1>3, PollerSteps

(* What is fetched for an entry is the newest result of its commit.        *)
LEMMA FetchedFacts ==
    ASSUME SingleInv, NEW e \in Ids, FetchChecks(e), NEW f \in fetched'
    PROVE  /\ f.id = e /\ e \in visit /\ e \in Existing
           /\ f.sha = entries[e].sha /\ f.sha # NoSha
           /\ f.ctx \in Contexts /\ f.state \in ReportStates
           /\ Reported(f.sha, f.ctx, f.state)
<1> DEFINE s == entries[e].sha
<1>0. SingleTypeOK /\ VisitsEntries /\ RoutedToBuild
  BY DEF SingleInv
<1>1. e \in Existing
  BY DEF FetchChecks
<1>2. visit \subseteq Ids /\ visit # {} /\ e = Least(visit)
      /\ \A x \in visit \cap Existing : entries[x].sha # NoSha
  BY <1>0 DEF FetchChecks, PollerAtLoop, VisitsEntries
<1>3. e \in visit
  BY <1>2, LeastOfIds, Zenon
<1>4. s # NoSha /\ s \in Shas
  BY <1>0, <1>1, <1>2, <1>3, BuildsAreShas DEF RoutedToBuild
<1>5. PICK c \in {x \in Contexts : reports[s][x] # <<>>} :
        f = [id |-> e, sha |-> s, ctx |-> c, state |-> reports[s][c][Len(reports[s][c])]]
  BY <1>1 DEF FetchChecks
<1>6. reports[s][c] \in Seq(ReportStates) /\ reports[s][c] # <<>>
  BY <1>0, <1>4, <1>5 DEF SingleTypeOK, ForgeTypeOK
<1> HIDE DEF s
<1>7. Len(reports[s][c]) \in 1 .. Len(reports[s][c])
      /\ reports[s][c][Len(reports[s][c])] \in ReportStates
  BY <1>6
<1>8. Reported(s, c, reports[s][c][Len(reports[s][c])])
  BY <1>7 DEF Reported
<1>9. /\ f.id = e /\ f.sha = s /\ f.ctx = c
      /\ f.state = reports[s][c][Len(reports[s][c])]
  BY <1>5
<1>10. QED
  BY <1>1, <1>3, <1>4, <1>5, <1>7, <1>8, <1>9 DEF s

(* What was reported stays so, and a build stays one.                      *)
LEMMA PinStable ==
    ASSUME SingleTypeOK, Next, NEW s \in Builds, NEW e \in commits[s].ids
    PROVE  /\ s \in Builds' /\ e \in commits'[s].ids
           /\ \A c \in Contexts : \A st : Reported(s, c, st) => Reported(s, c, st)'
BY BuildsGrow, ForgeGrows

(* Results are fetched by the commit of the entry.                         *)
LEMMA FetchedPinnedStep ==
    ASSUME SingleInv, Next
    PROVE  FetchedPinned'
<1> SUFFICES ASSUME NEW f \in fetched'
             PROVE  /\ f.sha \in Builds' /\ f.id \in commits'[f.sha].ids
                    /\ Reported(f.sha, f.ctx, f.state)'
  BY DEF FetchedPinned, Reported
<1>1. /\ f.sha \in Builds /\ f.id \in commits[f.sha].ids /\ f.ctx \in Contexts
      /\ Reported(f.sha, f.ctx, f.state)
  <2>1. CASE f \in fetched
    BY <2>1 DEF SingleInv, FetchedPinned, SingleTypeOK, Fetched
  <2>2. CASE \E e \in Ids : FetchChecks(e)
    BY <2>2, FetchedFacts DEF SingleInv, RoutedToBuild
  <2>3. QED
    BY <2>1, <2>2, FetchedSteps
<1>2. QED
  BY <1>1, PinStable DEF SingleInv

(* A pin of a thread that holds before a step holds after it.              *)
LEMMA ThreadsPinnedStep ==
    ASSUME SingleInv, Next
    PROVE  ThreadsPinned'
<1> DEFINE Pinned(u) == /\ u.sha \in Builds /\ u.id \in commits[u.sha].ids
                        /\ u.pc = "save" => /\ u.ctx \in Contexts
                                            /\ u.state \in ReportStates
                                            /\ Reported(u.sha, u.ctx, u.state)
<1>0. SingleTypeOK /\ threads \in [Threads -> Thread] /\ threads' \in [Threads -> Thread]
      /\ \A t \in Threads : threads[t].pc # "idle" => Pinned(threads[t])
  BY TypeStep DEF SingleInv, SingleTypeOK, ThreadsPinned, At
<1>a. ASSUME NEW u, Pinned(u)
      PROVE  /\ u.sha \in Builds' /\ u.id \in commits'[u.sha].ids
             /\ u.pc = "save" => /\ u.ctx \in Contexts
                                 /\ u.state \in ReportStates
                                 /\ \E i \in 1 .. Len(reports'[u.sha][u.ctx]) :
                                      reports'[u.sha][u.ctx][i] = u.state
  <2>1. u.sha \in Builds' /\ u.id \in commits'[u.sha].ids
    BY <1>0, <1>a, PinStable
  <2>2. ASSUME u.pc = "save"
        PROVE  Reported(u.sha, u.ctx, u.state)'
    BY <1>0, <1>a, <2>2, PinStable
  <2>3. QED
    BY <1>a, <2>1, <2>2 DEF Reported
<1> SUFFICES ASSUME NEW t \in Threads, threads'[t].pc # "idle"
             PROVE  Pinned(threads'[t])
  BY <1>a DEF ThreadsPinned, At, Reported
<1>1. CASE threads'[t] = threads[t]
  BY <1>0, <1>1
<1>2. ASSUME NEW u \in Threads, Monitor(u)
      PROVE  Pinned(threads'[t])
  <2>1. /\ threads[u].pc # "idle"
        /\ \A x \in Threads : x # u => threads'[x] = threads[x]
        /\ threads'[u].pc # "idle" => /\ threads'[u].sha = threads[u].sha
                                      /\ threads'[u].id = threads[u].id
                                      /\ threads'[u].pc # "save"
    BY <1>0, <1>2 DEF Monitor, SaveCheck, Evaluate, Report, Update, Advance, At, Goto,
       Return, Idle, Thread
  <2>2. QED
    BY <1>0, <1>1, <2>1
<1>3. ASSUME NEW u \in Handlers, NEW s \in Shas, NEW c \in Contexts,
             NEW st \in ReportStates, Webhook(u, s, c, st)
      PROVE  Pinned(threads'[t])
  <2> DEFINE found == {e \in Active : entries[e].sha = s}
  <2>1. found # {} /\ found \in SUBSET Ids /\ Reported(s, c, st)
    BY <1>3, ExistingIds DEF Webhook
  <2>2. Least(found) \in found
    BY <2>1, LeastOfIds, Zenon
  <2>3. Least(found) \in Ids /\ entries[Least(found)].sha = s
    BY <2>1, <2>2
  <2>4. s \in Builds /\ Least(found) \in commits[s].ids
    BY <2>3 DEF SingleInv, RoutedToBuild, Shas, NoSha
  <2>5. threads' = [threads EXCEPT ![u] =
                [pc |-> "save", id |-> Least(found), sha |-> s, ctx |-> c,
                 state |-> st, verdict |-> "waiting"]]
    BY <1>3 DEF Webhook
  <2> HIDE DEF found
  <2>6. QED
    BY <1>0, <1>1, <2>1, <2>4, <2>5
<1>4. ASSUME NEW f \in fetched, ApplyCheck(f)
      PROVE  Pinned(threads'[t])
  <2>1. /\ f.sha \in Builds /\ f.id \in commits[f.sha].ids
        /\ f.ctx \in Contexts /\ f.state \in ReportStates
        /\ Reported(f.sha, f.ctx, f.state)
    BY DEF SingleInv, FetchedPinned, SingleTypeOK, Fetched
  <2>2. threads' = [threads EXCEPT ![Poller] =
            [pc |-> "save", id |-> f.id, sha |-> f.sha, ctx |-> f.ctx,
             state |-> f.state, verdict |-> "waiting"]]
    BY <1>4 DEF ApplyCheck
  <2>3. QED
    BY <1>0, <1>1, <2>1, <2>2
<1>5. CASE \E u \in Handlers : Abort(u)
  BY <1>0, <1>1, <1>5 DEF Abort, Return, Idle
<1>6. CASE Crash
  BY <1>6 DEF Crash, Idle
<1>7. QED
  BY <1>1, <1>2, <1>3, <1>4, <1>5, <1>6, ThreadSteps

(***************************************************************************)
(* Results and verdicts.                                                   *)
(***************************************************************************)

BuildsOf(e) == {s \in Builds : e \in commits[s].ids}

(* Two builds of one entry are two.                                        *)
LEMMA TwoBuilds ==
    ASSUME SingleTypeOK, NEW e, NEW s \in BuildsOf(e), NEW u \in BuildsOf(e), s # u
    PROVE  BuiltAgain(e)
<1>1. IsFiniteSet(BuildsOf(e))
  <2>1. last \in Int
    BY DEF SingleTypeOK, ForgeTypeOK, Shas
  <2>2. IsFiniteSet(1 .. last)
    BY <2>1, FS_Interval
  <2>3. BuildsOf(e) \subseteq 1 .. last
    BY DEF BuildsOf, Builds
  <2>4. QED
    BY <2>2, <2>3, FS_Subset
<1>2. Cardinality({s, u}) = 2
  <2>1. Cardinality({s}) = 1 /\ IsFiniteSet({s})
    BY FS_Singleton
  <2>2. {s} \cup {u} = {s, u} /\ u \notin {s}
    OBVIOUS
  <2>3. Cardinality({s} \cup {u}) = Cardinality({s}) + 1
    BY <2>1, <2>2, FS_AddElement, Zenon
  <2>4. QED
    BY <2>1, <2>2, <2>3
<1>3. {s, u} \subseteq BuildsOf(e)
  OBVIOUS
<1>4. Cardinality({s, u}) <= Cardinality(BuildsOf(e)) /\ Cardinality(BuildsOf(e)) \in Nat
  BY <1>1, <1>3, FS_Subset, FS_CardinalityType
<1>5. QED
  BY <1>2, <1>4 DEF BuiltAgain, BuildsOf

(* What was built twice was built twice.                                   *)
LEMMA BuiltAgainStable ==
    ASSUME SingleTypeOK, Next, NEW e, BuiltAgain(e)
    PROVE  BuiltAgain(e)'
<1>1. IsFiniteSet(BuildsOf(e)')
  <2>1. last' \in Int
    BY ForgeGrows
  <2>2. IsFiniteSet(1 .. last')
    BY <2>1, FS_Interval
  <2>3. BuildsOf(e)' \subseteq 1 .. last'
    BY DEF BuildsOf, Builds
  <2>4. QED
    BY <2>2, <2>3, FS_Subset
<1>2. BuildsOf(e) \subseteq BuildsOf(e)'
  BY BuildsGrow DEF BuildsOf
<1>3. /\ IsFiniteSet(BuildsOf(e)) /\ Cardinality(BuildsOf(e)) <= Cardinality(BuildsOf(e)')
      /\ Cardinality(BuildsOf(e)) \in Nat /\ Cardinality(BuildsOf(e)') \in Nat
  BY <1>1, <1>2, FS_Subset, FS_CardinalityType
<1>4. QED
  BY <1>3 DEF BuiltAgain, BuildsOf

(* A commit that passed has passed.                                        *)
LEMMA TestedStable ==
    ASSUME SingleTypeOK, Next, NEW s \in Builds, Tested(s)
    PROVE  Tested(s)'
<1>1. s \in Shas
  BY BuildsAreShas
<1>2. \A c \in Contexts : Reported(s, c, "success") => Reported(s, c, "success")'
  BY <1>1, ForgeGrows
<1>3. QED
  BY <1>2 DEF Tested

(* SaveCheckStatus records what a pinned thread holds.                     *)
LEMMA LedgerEarnedStep ==
    ASSUME SingleInv, Next
    PROVE  LedgerEarned'
<1> SUFFICES ASSUME NEW e \in Ids, NEW c \in Contexts, ledger'[e][c] # NoCheck
             PROVE  \E s \in Builds : e \in commits[s].ids /\ Reported(s, c, ledger'[e][c])
  <2>1. ASSUME NEW e \in Ids, NEW c \in Contexts,
               NEW s \in Builds, e \in commits[s].ids, NEW st, Reported(s, c, st)
        PROVE  s \in Builds' /\ e \in commits'[s].ids /\ Reported(s, c, st)'
    BY <2>1, PinStable DEF SingleInv
  <2>2. ASSUME NEW e \in Ids, NEW c \in Contexts, NEW st,
               \E s \in Builds : e \in commits[s].ids /\ Reported(s, c, st)
        PROVE  \E s \in Builds' : /\ e \in commits'[s].ids
                                  /\ \E i \in 1 .. Len(reports'[s][c]) :
                                       reports'[s][c][i] = st
    <3>1. PICK s \in Builds : e \in commits[s].ids /\ Reported(s, c, st)
      BY <2>2
    <3>2. s \in Builds' /\ e \in commits'[s].ids /\ Reported(s, c, st)'
      BY <2>1, <3>1
    <3>3. QED
      BY <3>2 DEF Reported
  <2>3. ASSUME NEW e \in Ids, NEW c \in Contexts, ledger'[e][c] # NoCheck
        PROVE  \E s \in Builds' : /\ e \in commits'[s].ids
                                  /\ \E i \in 1 .. Len(reports'[s][c]) :
                                       reports'[s][c][i] = ledger'[e][c]
    BY <2>2, <2>3
  <2>4. QED
    BY <2>3 DEF LedgerEarned, Reported, NoCheck
<1>0. /\ ledger \in [Ids -> [Contexts -> ReportStates \cup {NoCheck}]]
      /\ threads \in [Threads -> Thread]
      /\ (ledger'[e][c] = ledger[e][c] => ledger[e][c] # NoCheck)
  BY DEF SingleInv, SingleTypeOK
<1>1. CASE ledger'[e][c] = ledger[e][c]
  BY <1>0, <1>1 DEF SingleInv, LedgerEarned
<1>2. CASE \E p : Dequeue(p)
  <2>1. ledger'[e] \in {NoChecks, ledger[e]}
    BY <1>2 DEF Dequeue
  <2>2. NoChecks[c] = NoCheck
    BY DEF NoChecks
  <2>3. QED
    BY <1>1, <2>1, <2>2
<1>3. ASSUME NEW t \in Threads, SaveCheck(t)
      PROVE  \E s \in Builds : e \in commits[s].ids /\ Reported(s, c, ledger'[e][c])
  <2>1. CASE e = threads[t].id /\ c = threads[t].ctx
             /\ ledger' = [ledger EXCEPT ![threads[t].id][threads[t].ctx] = threads[t].state]
    <3>1. ledger'[e][c] = threads[t].state
      BY <1>0, <2>1
    <3>2. At(t, "save") /\ ~ At(t, "idle")
      BY <1>3 DEF SaveCheck, At
    <3>3. /\ threads[t].sha \in Builds /\ threads[t].id \in commits[threads[t].sha].ids
          /\ Reported(threads[t].sha, threads[t].ctx, threads[t].state)
      BY <3>2 DEF SingleInv, ThreadsPinned
    <3>4. QED
      BY <2>1, <3>1, <3>3
  <2>2. CASE ~ (e = threads[t].id /\ c = threads[t].ctx) \/ ledger' = ledger
    <3>1. ledger' = ledger
          \/ ledger' = [ledger EXCEPT ![threads[t].id][threads[t].ctx] = threads[t].state]
      BY <1>3 DEF SaveCheck
    <3>2. ledger'[e][c] = ledger[e][c]
      BY <1>0, <2>2, <3>1
    <3>3. QED
      BY <1>1, <3>2
  <2>3. QED
    BY <1>3, <2>1, <2>2 DEF SaveCheck
<1>4. QED
  BY <1>1, <1>2, <1>3, LedgerSteps

(* A green ledger was earned by the build in the snapshot, or the entry    *)
(* was built twice.                                                        *)
LEMMA GreenEarned ==
    ASSUME SingleInv, NEW t \in Threads, ~ At(t, "idle"),
           EvaluateChecks(ledger[threads[t].id], Required) = "success"
    PROVE  Tested(threads[t].sha) \/ BuiltAgain(threads[t].id)
<1> DEFINE e == threads[t].id
           s == threads[t].sha
           green == {c \in Contexts : ledger[e][c] = "success"}
<1>1. s \in Builds /\ e \in commits[s].ids
  BY DEF SingleInv, ThreadsPinned
<1>2. e \in Ids
  BY <1>1, BuildsAreShas DEF SingleInv, SingleTypeOK, ForgeTypeOK, Commit
<1>3. ledger[e] \in [Contexts -> ReportStates \cup {NoCheck}]
  BY <1>2 DEF SingleInv, SingleTypeOK
<1> HIDE DEF e, s
<1>4. IF Required = {} THEN green # {} ELSE Required \subseteq green
  <2>1. DOMAIN ledger[e] = Contexts
    BY <1>3
  <2>2. EvaluateChecks(ledger[e], Required) = "success"
    BY DEF e
  <2>3. QED
    BY <2>1, <2>2 DEF EvaluateChecks
<1>5. ASSUME NEW c \in green
      PROVE  Reported(s, c, "success") \/ BuiltAgain(e)
  <2>1. ledger[e][c] = "success" /\ c \in Contexts /\ "success" # NoCheck
    BY DEF NoCheck
  <2>2. PICK u \in Builds : e \in commits[u].ids /\ Reported(u, c, "success")
    BY <1>2, <2>1 DEF SingleInv, LedgerEarned
  <2>3. CASE u = s
    BY <2>2, <2>3
  <2>4. CASE u # s
    BY <1>1, <2>2, <2>4, TwoBuilds DEF BuildsOf, SingleInv
  <2>5. QED
    BY <2>3, <2>4
<1>6. CASE BuiltAgain(e)
  BY <1>6 DEF e
<1>7. CASE ~ BuiltAgain(e)
  <2>1. \A c \in green : c \in Contexts /\ Reported(s, c, "success")
    BY <1>5, <1>7
  <2>2. Tested(s)
    BY <1>4, <2>1 DEF Tested
  <2>3. QED
    BY <2>2 DEF s
<1>8. QED
  BY <1>6, <1>7

(* A verdict comes from the ledger, and is handed on with the snapshot.    *)
LEMMA VerdictEarnedStep ==
    ASSUME SingleInv, Next
    PROVE  VerdictEarned'
<1> DEFINE Late == {"status", "update", "advance"}
<1>0. /\ SingleTypeOK /\ threads \in [Threads -> Thread]
  BY DEF SingleInv, SingleTypeOK
<1>1. ASSUME NEW t \in Threads, threads'[t].pc \in Late, threads'[t].verdict = "success"
      PROVE  /\ ~ At(t, "idle")
             /\ threads'[t].sha = threads[t].sha /\ threads'[t].id = threads[t].id
             /\ Tested(threads[t].sha) \/ BuiltAgain(threads[t].id)
  <2>1. CASE threads'[t] = threads[t]
    BY <1>1, <2>1 DEF SingleInv, VerdictEarned, At
  <2>2. ASSUME NEW u \in Threads, Monitor(u)
        PROVE  /\ ~ At(t, "idle")
               /\ threads'[t].sha = threads[t].sha /\ threads'[t].id = threads[t].id
               /\ Tested(threads[t].sha) \/ BuiltAgain(threads[t].id)
    <3>1. CASE u # t
      <4>1. threads'[t] = threads[t]
        BY <1>0, <2>2, <3>1 DEF Monitor, SaveCheck, Evaluate, Report, Update, Advance,
           Goto, Return
      <4>2. QED
        BY <2>1, <4>1
    <3>2. CASE u = t /\ Evaluate(t)
      <4>1. /\ ~ At(t, "idle")
            /\ threads'[t].sha = threads[t].sha /\ threads'[t].id = threads[t].id
            /\ EvaluateChecks(ledger[threads[t].id], Required) = "success"
        BY <1>0, <1>1, <3>2 DEF Evaluate, At, Return, Idle, Thread
      <4>2. QED
        BY <4>1, GreenEarned
    <3>3. CASE u = t /\ ~ Evaluate(t)
      <4>1. /\ threads[t].pc \in Late /\ threads[t].verdict = "success"
            /\ threads'[t].sha = threads[t].sha /\ threads'[t].id = threads[t].id
        BY <1>0, <1>1, <2>2, <3>3 DEF Monitor, SaveCheck, Report, Update, Advance, At,
           Goto, Return, Idle, Thread
      <4>2. QED
        BY <4>1 DEF SingleInv, VerdictEarned, At
    <3>4. QED
      BY <3>1, <3>2, <3>3
  <2>3. CASE \/ \E u \in Handlers, s \in Shas, c \in Contexts, st \in ReportStates :
                  Webhook(u, s, c, st)
             \/ \E f \in fetched : ApplyCheck(f)
    <3>1. PICK x, r : r.pc = "save" /\ threads' = [threads EXCEPT ![x] = r]
      BY <2>3 DEF Webhook, ApplyCheck
    <3>2. threads'[t] = threads[t] \/ threads'[t].pc = "save"
      BY <1>0, <3>1
    <3>3. QED
      BY <1>1, <2>1, <3>2
  <2>4. CASE Crash \/ \E u \in Handlers : Abort(u)
    <3>1. threads'[t] = threads[t] \/ threads'[t].pc = "idle"
      BY <1>0, <2>4 DEF Crash, Abort, Return, Idle
    <3>2. QED
      BY <1>1, <2>1, <3>1
  <2>5. QED
    BY <2>1, <2>2, <2>3, <2>4, ThreadSteps
<1>2. ASSUME NEW t \in Threads, threads'[t].pc \in Late, threads'[t].verdict = "success"
      PROVE  Tested(threads[t].sha)' \/ BuiltAgain(threads[t].id)'
  <2>1. PICK s, e : s = threads[t].sha /\ e = threads[t].id
    OBVIOUS
  <2>2. /\ s \in Builds /\ threads'[t].sha = s /\ threads'[t].id = e
        /\ Tested(s) \/ BuiltAgain(e)
    BY <1>1, <1>2, <2>1 DEF SingleInv, ThreadsPinned
  <2>3. Tested(s)' \/ BuiltAgain(e)'
    BY <1>0, <2>2, TestedStable, BuiltAgainStable
  <2>4. QED
    BY <2>2, <2>3 DEF Tested, BuiltAgain, Reported
<1>3. QED
  BY <1>2 DEF VerdictEarned

(***************************************************************************)
(* The poller on its own.                                                  *)
(***************************************************************************)

(* While the poller evaluates a result its loop waits, and without         *)
(* handlers no other step of the program is possible.                      *)
LEMMA PollerSequential ==
    ASSUME SingleInv, Handlers = {}, Next
    PROVE  \/ At(Poller, "idle") /\ Tick
           \/ ~ At(Poller, "idle") /\ Monitor(Poller)
           \/ UNCHANGED <<tables, threads, pollerVars>>
           \/ Crash
<1>0. Threads = {Poller} /\ SingleTypeOK
  BY DEF Threads, SingleInv
<1>1. CASE Tick
  <2>1. ~ At(Poller, "idle") => ppc = "check"
    BY DEF SingleInv, PollerAlone
  <2>2. At(Poller, "idle")
    BY <1>1, <2>1 DEF Tick, StartTick, ListEntries, EndReconcile, NothingToStart,
       PromoteHead, MergeHead, MergeFails, Stamp, MarkTesting, ListTesting, EndTick,
       SkipPR, Enqueue, RemovePR, RemoveTimedOut, KeepEntry, FetchChecks, ApplyCheck,
       Reconciling, PollerAtLoop
  <2>3. QED
    BY <1>1, <2>2
<1>2. CASE \E t \in Threads : Monitor(t)
  BY <1>0, <1>2 DEF Monitor, SaveCheck, Evaluate, Report, Update, Advance, At
<1>3. CASE World \/ \E p \in PRs : AutoMerge(p) \/ Edit(p)
  BY <1>3 DEF World, AutoMerge, Edit
<1>4. QED
  BY <1>1, <1>2, <1>3 DEF Next

(* The head stays the head while entries only leave.                       *)
LEMMA HeadOrGoneStable ==
    ASSUME NEW e, HeadOrGone(e), Existing' \subseteq Existing
    PROVE  HeadOrGone(e)'
BY DEF HeadOrGone

(* The poller lists the head alone, and evaluates one result at a time.    *)
LEMMA PollerAloneStep ==
    ASSUME SingleInv, Next
    PROVE  PollerAlone'
<1> SUFFICES ASSUME Handlers = {}
             PROVE  PollerAlone'
  BY DEF PollerAlone
<1> DEFINE Held(e) == e \in Existing => \A f \in Existing : e <= f
           x == threads[Poller].id
<1>0. /\ SingleTypeOK /\ Poller \in Threads /\ threads \in [Threads -> Thread]
      /\ Existing \subseteq Ids /\ Existing' \subseteq Ids
  BY DEF SingleInv, SingleTypeOK, Threads, Existing
<1>1. /\ ~ At(Poller, "idle") => ppc = "check" /\ HeadOrGone(x)
      /\ threads[Poller].pc \in {"eval", "status", "update", "advance"} => x \in Existing
      /\ ppc = "check" => /\ \A e \in visit : HeadOrGone(e)
                          /\ \A f \in fetched : HeadOrGone(f.id)
  BY DEF SingleInv, PollerAlone
<1>2. ppc = "check" => Existing' \subseteq Existing
  BY ExistingMoves DEF SingleInv
<1>3. CASE UNCHANGED <<tables, threads, pollerVars>>
  BY <1>1, <1>3 DEF PollerAlone, HeadOrGone, Existing, tables, pollerVars, At
<1>4. CASE Crash
  BY <1>0, <1>4 DEF Crash, PollerAlone, At, Idle
<1>5. CASE ~ At(Poller, "idle") /\ Monitor(Poller)
  <2>1. ppc = "check" /\ UNCHANGED pollerVars /\ Existing' \subseteq Existing
    BY <1>1, <1>2, <1>5 DEF Monitor, SaveCheck, Evaluate, Report, Update, Advance
  <2>2. /\ threads'[Poller].pc # "idle" => threads'[Poller].id = x
        /\ threads'[Poller].pc \in {"eval", "status", "update", "advance"} =>
              x \in Existing /\ ~ Advance(Poller)
    BY <1>0, <1>1, <1>5 DEF Monitor, SaveCheck, Evaluate, Report, Update, Advance, At,
       Goto, Return, Idle, Thread
  <2>3. x \in Existing /\ ~ Advance(Poller) => x \in Existing'
    <3>1. CASE Update(Poller)
      <4>1. PICK s \in {"success", "failed"} : UpdateState(entries[x].pr, s)
        BY <1>5, <3>1 DEF Update
      <4>2. ASSUME x \in Existing
            PROVE  x \in Existing'
        <5>1. entries[x] \in Entry /\ entries'[x] = [entries[x] EXCEPT !.state = s]
          BY <1>0, <4>1, <4>2 DEF UpdateState, SingleTypeOK
        <5>2. entries'[x].state = s
          BY <5>1 DEF Entry
        <5>3. QED
          BY <1>0, <4>2, <5>2 DEF Existing
      <4>3. QED
        BY <4>2
    <3>2. CASE ~ Update(Poller) /\ ~ Advance(Poller)
      BY <1>5, <3>2 DEF Monitor, SaveCheck, Evaluate, Report, tables, Existing
    <3>3. QED
      BY <3>1, <3>2
  <2>4. /\ \A e \in visit : e \in Existing' => \A f \in Existing' : e <= f
        /\ \A f \in fetched : f.id \in Existing' => \A g \in Existing' : f.id <= g
    BY <1>1, <1>5, <2>1 DEF HeadOrGone
  <2>5. x \in Existing' => \A f \in Existing' : x <= f
    BY <1>1, <1>5, <2>1 DEF HeadOrGone
  <2>6. QED
    BY <2>1, <2>2, <2>3, <2>4, <2>5 DEF PollerAlone, HeadOrGone, pollerVars, At
<1>6. CASE At(Poller, "idle") /\ \E f \in fetched : ApplyCheck(f)
  <2>1. PICK f \in fetched : ApplyCheck(f)
    BY <1>6
  <2>2. /\ ppc = "check" /\ ppc' = ppc /\ visit' = visit /\ fetched' \subseteq fetched
        /\ entries' = entries
        /\ threads'[Poller].pc = "save" /\ threads'[Poller].id = f.id
    BY <1>0, <2>1 DEF ApplyCheck, tables
  <2>3. QED
    BY <1>1, <2>2 DEF PollerAlone, HeadOrGone, Existing, At
<1>7. ASSUME At(Poller, "idle"), Tick, ~ \E f \in fetched : ApplyCheck(f)
      PROVE  PollerAlone'
  <2>1. threads' = threads
    BY <1>7 DEF Tick, StartTick, ListEntries, EndReconcile, NothingToStart, PromoteHead,
       MergeHead, MergeFails, Stamp, MarkTesting, ListTesting, EndTick, SkipPR, Enqueue,
       RemovePR, RemoveTimedOut, KeepEntry, FetchChecks
  <2>2. ASSUME ppc' = "check"
        PROVE  ListTesting \/ \E e \in Ids : FetchChecks(e)
    BY <1>7, <2>2 DEF Tick, StartTick, ListEntries, EndReconcile, NothingToStart,
       PromoteHead, MergeHead, MergeFails, Stamp, MarkTesting, EndTick, SkipPR, Enqueue,
       RemovePR, RemoveTimedOut, KeepEntry, Reconciling
  <2>3. CASE ListTesting
    <3>1. /\ fetched' = {} /\ entries' = entries
          /\ \A e \in visit' : e \in Active /\ entries[e].state = "testing"
      BY <2>3 DEF ListTesting, tables, SingleInv, VisitsEntries
    <3>2. \A e \in visit' : \A f \in Existing : e <= f
      BY <3>1, ExistingIds DEF SingleInv, TestingLeads
    <3>3. QED
      BY <1>7, <2>1, <3>1, <3>2 DEF PollerAlone, HeadOrGone, Existing, At
  <2>4. ASSUME NEW e \in Ids, FetchChecks(e)
        PROVE  PollerAlone'
    <3>1. ppc = "check" /\ visit' \subseteq visit /\ entries' = entries
      BY <2>4 DEF FetchChecks, PollerAtLoop, tables
    <3>2. \A f \in fetched' : f.id \in visit
      BY <2>4, FetchedFacts
    <3>3. QED
      BY <1>1, <1>7, <2>1, <3>1, <3>2 DEF PollerAlone, HeadOrGone, Existing, At
  <2>5. QED
    BY <1>7, <2>1, <2>2, <2>3, <2>4 DEF PollerAlone, At
<1>8. QED
  BY <1>3, <1>4, <1>5, <1>6, <1>7, PollerSequential

(***************************************************************************)
(* The invariant.                                                          *)
(***************************************************************************)

(* The invariant holds at the start ...                                    *)
LEMMA InvInit == Init => SingleInv
<1> SUFFICES ASSUME Init
             PROVE  SingleInv
  OBVIOUS
<1> USE InitialValues
<1>1. ForgeTypeOK
  BY DEF Init, ForgeInit, ForgeTypeOK, Shas, Commit, NoSha
<1>2. SingleTypeOK
  BY <1>1 DEF Init, PollerInit, SingleTypeOK, EntryState, NoId, NoSha
<1>3. \A e \in Ids : entries[e] = NoEntry
  BY DEF Init
<1>4. Existing = {}
  BY <1>3, NoEntryFields DEF Existing
<1>5. \A t \in Threads : threads[t].pc = "idle"
  BY DEF Init, Idle
<1>6. ppc = "idle" /\ visit = {} /\ fetched = {}
  BY DEF Init, PollerInit
<1>7. \A e \in Ids, c \in Contexts : ledger[e][c] = NoCheck
  BY DEF Init, NoChecks
<1>8. IdsInOrder /\ RoutedToBuild
  BY <1>3, NoEntryFields DEF IdsInOrder, RoutedToBuild
<1>9. OneEntryPerPR /\ TestingLeads /\ VisitsEntries /\ HeadHeld
  BY <1>4, <1>6 DEF OneEntryPerPR, TestingLeads, VisitsEntries, HeadHeld
<1>10. FetchedPinned /\ ThreadsPinned /\ LedgerEarned /\ VerdictEarned
  BY <1>5, <1>6, <1>7 DEF FetchedPinned, ThreadsPinned, LedgerEarned, VerdictEarned, At
<1>11. PollerAlone
  BY <1>5, <1>6 DEF PollerAlone, At, Threads
<1>12. QED
  BY <1>2, <1>8, <1>9, <1>10, <1>11 DEF SingleInv

(* ... and every step preserves it.                                        *)
LEMMA InvStep == SingleInv /\ [Next]_vars => SingleInv'
<1> SUFFICES ASSUME SingleInv, [Next]_vars
             PROVE  SingleInv'
  OBVIOUS
<1>1. CASE Next
  BY <1>1, TypeStep, IdsInOrderStep, OneEntryPerPRStep, VisitsEntriesStep,
     RoutedToBuildStep, HeadHeldStep, FetchedPinnedStep, ThreadsPinnedStep,
     LedgerEarnedStep, VerdictEarnedStep, TestingLeadsStep, PollerAloneStep
     DEF SingleInv
<1>2. CASE UNCHANGED vars
  <2> USE <1>2 DEF vars, forgeVars, tables, pollerVars, SingleInv
  <2>1. SingleTypeOK'
    BY DEF SingleTypeOK, ForgeTypeOK
  <2>2. Existing' = Existing /\ Builds' = Builds
    BY DEF Existing, Builds
  <2>3. IdsInOrder' /\ OneEntryPerPR' /\ TestingLeads'
    BY <2>2 DEF IdsInOrder, OneEntryPerPR, TestingLeads
  <2>4. VisitsEntries' /\ RoutedToBuild' /\ HeadHeld'
    BY <2>2 DEF VisitsEntries, RoutedToBuild, HeadHeld
  <2>5. FetchedPinned' /\ LedgerEarned'
    BY <2>2 DEF FetchedPinned, LedgerEarned, Reported
  <2>6. ThreadsPinned'
    BY <2>2 DEF ThreadsPinned, Reported, At
  <2>7. VerdictEarned'
    BY <2>2 DEF VerdictEarned, Tested, BuiltAgain, Reported
  <2>8. PollerAlone'
    BY <2>2 DEF PollerAlone, HeadOrGone, At
  <2>9. QED
    BY <2>1, <2>3, <2>4, <2>5, <2>6, <2>7, <2>8
<1>3. QED
  BY <1>1, <1>2

(* Every reachable state satisfies the inductive invariant.                *)
THEOREM SingleInvHolds == Spec => []SingleInv
BY InvInit, InvStep, PTL DEF Spec

(* Every variable holds a value the program's types allow.                 *)
THEOREM SingleTypeCorrect == Spec => []SingleTypeOK
<1>1. SingleInv => SingleTypeOK
  BY DEF SingleInv
<1>2. QED
  BY <1>1, SingleInvHolds, PTL

(* Nothing is in test but the head of the queue, whatever the poller and   *)
(* the webhook handlers do to each other (startQueuedHeads).               *)
THEOREM OnlyHeadTested == Spec => []TestsHeadOnly
<1>1. ASSUME SingleInv, NEW e \in Existing, entries[e].state = "testing"
      PROVE  e = Least(Existing)
  <2>1. QueueHead \in Existing /\ QueueHead <= e
    BY QueueHeadLeads
  <2>2. e <= QueueHead
    BY <1>1, <2>1 DEF SingleInv, TestingLeads
  <2>3. e \in Nat /\ QueueHead \in Nat
    BY <2>1, ExistingIds DEF Ids
  <2>4. e = QueueHead
    BY <2>1, <2>2, <2>3
  <2>5. QED
    BY <2>4 DEF QueueHead
<1>2. SingleInv => TestsHeadOnly
  BY <1>1 DEF TestsHeadOnly
<1>3. QED
  BY <1>2, SingleInvHolds, PTL

(***************************************************************************)
(* Advance.                                                                *)
(***************************************************************************)

(* Without webhook handlers Advance removes the entry whose check failed   *)
(* and no other (removeFromQueue).                                         *)
THEOREM PollingAdvancesOwn ==
    ASSUME Handlers = {}
    PROVE  Spec => AdvanceRemovesOwn
<1>1. ASSUME SingleInv, Next, NEW t \in Threads, At(t, "advance"),
             threads'[t].pc = "idle", NEW e \in Existing, entries'[e].state = "absent"
      PROVE  e = threads[t].id
  <2>0. t = Poller
    BY DEF Threads
  <2>1. t = Poller /\ Existing \subseteq Ids /\ Existing \subseteq Nat /\ e \in Ids
    BY <2>0, ExistingIds DEF Ids
  <2>2. Advance(Poller)
    <3>1. ~ At(Poller, "idle") /\ At(Poller, "advance")
      BY <1>1, <2>1 DEF At
    <3>2. ~ UNCHANGED <<tables, threads, pollerVars>>
      BY <1>1, <2>1 DEF At
    <3>3. ~ Crash
      BY <1>1, <2>1 DEF Crash, tables, Existing
    <3>4. Monitor(Poller)
      BY <1>1, <3>1, <3>2, <3>3, PollerSequential
    <3>5. QED
      BY <3>1, <3>4 DEF Monitor, SaveCheck, Evaluate, Report, Update, At
  <2> DEFINE x == threads[t].id
  <2>3. x \in Existing /\ HeadOrGone(x)
    BY <1>1, <2>1 DEF SingleInv, PollerAlone, At
  <2>4. QueueHead \in Existing /\ QueueHead <= x
    BY <2>3, QueueHeadLeads
  <2>5. QueueHead = x
    <3>1. x <= QueueHead
      BY <2>3, <2>4 DEF HeadOrGone
    <3>2. x \in Nat /\ QueueHead \in Nat
      BY <2>1, <2>3, <2>4
    <3>3. QED
      BY <2>4, <3>1, <3>2
  <2>6. Dequeue(entries[x].pr)
    BY <2>2, <2>3, <2>5 DEF Advance
  <2>7. entries[e].pr = entries[x].pr
    <3>1. entries[e].pr # entries[x].pr => entries'[e] = entries[e]
      BY <2>1, <2>6 DEF Dequeue
    <3>2. QED
      BY <1>1, <3>1 DEF Existing
  <2>8. QED
    BY <1>1, <2>3, <2>7 DEF SingleInv, OneEntryPerPR
<1>2. SingleInv /\ [Next]_vars =>
        [ \A t \in Threads :
            At(t, "advance") /\ threads'[t].pc = "idle" =>
              \A e \in Existing : entries'[e].state = "absent" => e = threads[t].id ]_vars
  BY <1>1
<1>3. QED
  BY <1>2, SingleInvHolds, PTL DEF Spec, AdvanceRemovesOwn

(***************************************************************************)
(* What is blessed.                                                        *)
(***************************************************************************)

(* Only a verdict "success" makes a status a success, unless the poller    *)
(* promotes heads untested; and a push takes it away.                      *)
LEMMA StatusMoves ==
    ASSUME SingleInv, ~ SkipUpToDate, Next, NEW p \in PRs, mq'[p].state = "success"
    PROVE  \/ mq'[p] = mq[p] /\ prs'[p].head = prs[p].head
           \/ \E t \in Threads :
                /\ At(t, "status") /\ threads[t].verdict = "success"
                /\ entries[threads[t].id].pr = p
                /\ entries[threads[t].id].head = prs[p].head /\ prs' = prs
                /\ mq'[p].base = commits[threads[t].sha].base
<1>0. /\ prs \in [PRs -> PR] /\ mq \in [PRs -> Status]
  BY DEF SingleInv, SingleTypeOK
<1>1. \A q, h, st, x : SetMQStatus(q, h, st, x) /\ st # "success" => mq'[p] = mq[p]
  BY <1>0 DEF SetMQStatus
<1>2. \A q : CancelAutoMerge(q) => prs'[p].head = prs[p].head
  <2>1. ASSUME NEW q, CancelAutoMerge(q)
        PROVE  prs'[p].head = prs[p].head
    <3>1. CASE q = p
      <4>1. prs[p] \in PR /\ prs'[p] = [prs[p] EXCEPT !.auto = FALSE]
        BY <1>0, <2>1, <3>1 DEF CancelAutoMerge
      <4>2. QED
        BY <4>1 DEF PR
    <3>2. CASE q # p
      BY <1>0, <2>1, <3>2 DEF CancelAutoMerge
    <3>3. QED
      BY <3>1, <3>2
  <2>2. QED
    BY <2>1
<1>3. CASE mq' = mq /\ prs' = prs
  BY <1>3
<1>4. CASE mq' = mq /\ \E q : CancelAutoMerge(q)
  BY <1>2, <1>4
<1>5. ASSUME NEW q \in PRs, AutoMerge(q)
      PROVE  mq'[p] = mq[p] /\ prs'[p].head = prs[p].head
  BY <1>0, <1>5 DEF AutoMerge, PR
<1>6. ASSUME NEW q \in PRs, Edit(q)
      PROVE  mq'[p] = mq[p] /\ prs'[p].head = prs[p].head
  <2>1. prs[p] \in PR /\ Unset.state # "success"
    BY <1>0 DEF Unset
  <2>2. CASE mq' = [mq EXCEPT ![q] = Unset] /\ prs' = [prs EXCEPT ![q].head = @ + 1]
    <3>1. q # p
      BY <1>0, <2>1, <2>2
    <3>2. QED
      BY <1>0, <2>2, <3>1
  <2>3. CASE mq' = mq
             /\ \/ prs' = [prs EXCEPT ![q].state = IF @ = "open" THEN "closed" ELSE "open"]
                \/ prs' = [prs EXCEPT ![q].auto = ~ @]
    BY <1>0, <2>1, <2>3 DEF PR
  <2>4. QED
    BY <1>6, <2>2, <2>3 DEF Edit
<1>7. CASE \E q \in PRs, e \in Ids : Enqueue(q, e)
  BY <1>1, <1>7 DEF Enqueue
<1>8. CASE \E e \in Ids : RemoveTimedOut(e)
  BY <1>1, <1>2, <1>8 DEF RemoveTimedOut
<1>9. CASE MergeFails \/ MarkTesting
  BY <1>1, <1>2, <1>9 DEF MergeFails, MarkTesting
<1>10. CASE PromoteHead
  BY <1>10 DEF PromoteHead
<1>11. ASSUME NEW t \in Threads, Report(t)
       PROVE  \/ mq'[p] = mq[p] /\ prs'[p].head = prs[p].head
              \/ /\ At(t, "status") /\ threads[t].verdict = "success"
                 /\ entries[threads[t].id].pr = p
                 /\ entries[threads[t].id].head = prs[p].head /\ prs' = prs
                 /\ mq'[p].base = commits[threads[t].sha].base
  <2>1. CASE threads[t].verdict = "failure"
    BY <1>1, <1>2, <1>11, <2>1 DEF Report
  <2>2. CASE threads[t].verdict # "failure"
    <3>1. /\ At(t, "status") /\ threads[t].verdict = "success" /\ prs' = prs
          /\ SetMQStatus(entries[threads[t].id].pr, entries[threads[t].id].head, "success",
                         commits[threads[t].sha].base)
      BY <1>11, <2>2 DEF Report
    <3>2. QED
      BY <1>0, <3>1 DEF SetMQStatus
  <2>3. QED
    BY <2>1, <2>2
<1>12. QED
  BY <1>3, <1>4, <1>5, <1>6, <1>7, <1>8, <1>9, <1>10, <1>11, StatusSteps

(* An entry that a build merges keeps its PR and its head for good.        *)
LEMMA MergedEntriesKept ==
    ASSUME SingleInv, Next, NEW e \in Ids, entries[e].pr \in PRs
    PROVE  entries'[e].pr = entries[e].pr /\ entries'[e].head = entries[e].head
<1>1. entries[e] # NoEntry
  BY NoEntryFields
<1>2. QED
  BY <1>1, EntriesMove DEF SingleInv

(* A new blessing is earned, and an old one stays so.                      *)
LEMMA EarnedStep ==
    ASSUME SingleInv, ~ SkipUpToDate, SuccessIsEarned, Next
    PROVE  SuccessIsEarned'
<1> SUFFICES ASSUME NEW p \in PRs, mq'[p].state = "success"
             PROVE  \E s \in Builds' : \E e \in commits'[s].ids :
                        /\ entries'[e].pr = p /\ entries'[e].head = prs'[p].head
                        /\ commits'[s].base = mq'[p].base
                        /\ Tested(s)' \/ BuiltAgain(e)'
  BY DEF SuccessIsEarned, Tested, BuiltAgain, Reported
<1>0. SingleTypeOK
  BY DEF SingleInv
<1>1. PICK s \in Builds, e \in Ids :
          /\ e \in commits[s].ids
          /\ entries[e].pr = p /\ entries[e].head = prs'[p].head
          /\ commits[s].base = mq'[p].base
          /\ Tested(s) \/ BuiltAgain(e)
  <2>1. CASE mq'[p] = mq[p] /\ prs'[p].head = prs[p].head
    <3>1. PICK s \in Builds : \E e \in commits[s].ids :
              /\ entries[e].pr = p /\ entries[e].head = prs[p].head
              /\ commits[s].base = mq[p].base
              /\ Tested(s) \/ BuiltAgain(e)
      BY <2>1 DEF SuccessIsEarned
    <3>2. commits[s].ids \subseteq Ids
      BY <1>0, BuildsAreShas DEF SingleTypeOK, ForgeTypeOK, Commit
    <3>3. QED
      BY <2>1, <3>1, <3>2
  <2>2. ASSUME NEW t \in Threads,
               /\ At(t, "status") /\ threads[t].verdict = "success"
               /\ entries[threads[t].id].pr = p
               /\ entries[threads[t].id].head = prs[p].head /\ prs' = prs
               /\ mq'[p].base = commits[threads[t].sha].base
        PROVE  \E s \in Builds, e \in Ids :
                 /\ e \in commits[s].ids
                 /\ entries[e].pr = p /\ entries[e].head = prs'[p].head
                 /\ commits[s].base = mq'[p].base
                 /\ Tested(s) \/ BuiltAgain(e)
    <3>1. /\ threads[t].sha \in Builds /\ threads[t].id \in commits[threads[t].sha].ids
          /\ Tested(threads[t].sha) \/ BuiltAgain(threads[t].id)
      BY <2>2 DEF SingleInv, ThreadsPinned, VerdictEarned, At
    <3>2. threads[t].id \in Ids
      BY <1>0, <3>1, BuildsAreShas DEF SingleTypeOK, ForgeTypeOK, Commit
    <3>3. QED
      BY <2>2, <3>1, <3>2
  <2>3. QED
    BY <2>1, <2>2, StatusMoves
<1>2. s \in Builds' /\ commits'[s] = commits[s]
  BY <1>0, BuildsGrow
<1>3. entries'[e].pr = p /\ entries'[e].head = prs'[p].head
  BY <1>1, MergedEntriesKept
<1>4. Tested(s)' \/ BuiltAgain(e)'
  BY <1>0, <1>1, TestedStable, BuiltAgainStable
<1>5. QED
  BY <1>1, <1>2, <1>3, <1>4

(* Unless the poller promotes heads untested, a head commit that the forge *)
(* may merge passed CI on a build of that very head, however handlers, the *)
(* poller and users interleave (HandleSuccess).                            *)
THEOREM BlessingsEarned ==
    ASSUME ~ SkipUpToDate
    PROVE  Spec => []SuccessIsEarned
<1>1. Init => SuccessIsEarned
  BY DEF Init, SuccessIsEarned, Unset
<1>2. ASSUME SingleInv, SuccessIsEarned, [Next]_vars
      PROVE  SuccessIsEarned'
  <2>1. CASE UNCHANGED vars
    <3>1. /\ mq' = mq /\ prs' = prs /\ entries' = entries /\ commits' = commits
          /\ reports' = reports /\ Builds' = Builds
      BY <2>1 DEF vars, forgeVars, tables, Builds
    <3>2. \A s : Tested(s)' = Tested(s)
      BY <3>1, Zenon DEF Tested, Reported
    <3>3. \A e : BuiltAgain(e)' = BuiltAgain(e)
      BY <3>1, Zenon DEF BuiltAgain
    <3>4. ASSUME NEW p \in PRs, mq'[p].state = "success"
          PROVE  \E s \in Builds' : \E e \in commits'[s].ids :
                    /\ entries'[e].pr = p /\ entries'[e].head = prs'[p].head
                    /\ commits'[s].base = mq'[p].base
                    /\ Tested(s)' \/ BuiltAgain(e)'
      <4>1. PICK s \in Builds : \E e \in commits[s].ids :
                /\ entries[e].pr = p /\ entries[e].head = prs[p].head
                /\ commits[s].base = mq[p].base
                /\ Tested(s) \/ BuiltAgain(e)
        BY <1>2, <3>1, <3>4 DEF SuccessIsEarned
      <4> PICK e \in commits[s].ids :
                /\ entries[e].pr = p /\ entries[e].head = prs[p].head
                /\ commits[s].base = mq[p].base
                /\ Tested(s) \/ BuiltAgain(e)
        BY <4>1
      <4>2. Tested(s)' \/ BuiltAgain(e)'
        BY <3>2, <3>3, <4>1
      <4>3. QED
        BY <3>1, <4>1, <4>2
    <3>5. QED
      BY <3>4 DEF SuccessIsEarned
  <2>2. QED
    BY <1>2, <2>1, EarnedStep
<1>3. QED
  BY <1>1, <1>2, SingleInvHolds, PTL DEF Spec

=============================================================================
