-------------------------- MODULE BatchSafetyProofs --------------------------
(***************************************************************************)
(* IInv is an inductive invariant of BatchEngine, and with it the safety   *)
(* properties it was built for hold, for every value of the constants.     *)
(***************************************************************************)
EXTENDS BatchTypeProofs

USE BoundsAssumption, ChecksAssumption, StoreAssumption, EngineAssumption

(***************************************************************************)
(* The fields of an edited batch row and of an edited entry.               *)
(***************************************************************************)

LEMMA FlattenFacts ==
    ASSUME NEW p \in Seq(SUBSET Ids)
    PROVE  /\ Flatten(<<>>) = {}
           /\ \A h \in SUBSET Ids : Flatten(Append(p, h)) = Flatten(p) \cup h
           /\ p # <<>> => /\ p[Len(p)] \subseteq Flatten(p)
                          /\ Flatten(SubSeq(p, 1, Len(p) - 1)) \subseteq Flatten(p)
           /\ \A e \in Ids : Flatten(Drop(p, e)) \subseteq Flatten(p)
<1>1. Flatten(<<>>) = {}
  BY DEF Flatten
<1>2. ASSUME NEW h \in SUBSET Ids
      PROVE  Flatten(Append(p, h)) = Flatten(p) \cup h
  <2>1. Len(Append(p, h)) = Len(p) + 1 /\ Append(p, h)[Len(p) + 1] = h
    OBVIOUS
  <2>2. \A i \in 1 .. Len(p) : Append(p, h)[i] = p[i]
    OBVIOUS
  <2>3. 1 .. Len(p) + 1 = (1 .. Len(p)) \cup {Len(p) + 1}
    OBVIOUS
  <2>4. QED
    BY <2>1, <2>2, <2>3 DEF Flatten
<1>3. ASSUME p # <<>>
      PROVE  /\ p[Len(p)] \subseteq Flatten(p)
             /\ Flatten(SubSeq(p, 1, Len(p) - 1)) \subseteq Flatten(p)
  <2>1. Len(p) \in 1 .. Len(p)
    BY <1>3
  <2>2. \A i \in 1 .. Len(p) - 1 : SubSeq(p, 1, Len(p) - 1)[i] = p[i]
    OBVIOUS
  <2>3. Len(SubSeq(p, 1, Len(p) - 1)) = Len(p) - 1
    <3>1. ASSUME NEW n \in Nat, n <= Len(p)
          PROVE  Len(SubSeq(p, 1, n)) = n
      BY <3>1
    <3>2. Len(p) - 1 \in Nat /\ Len(p) - 1 <= Len(p)
      BY <2>1
    <3>3. QED
      BY <3>1, <3>2, Zenon
  <2>4. QED
    BY <2>1, <2>2, <2>3 DEF Flatten
<1>4. ASSUME NEW e \in Ids
      PROVE  Flatten(Drop(p, e)) \subseteq Flatten(p)
  <2>1. ASSUME NEW i \in 1 .. Len(p)
        PROVE  Flatten(Cut(p, i)) \subseteq Flatten(p)
    <3> DEFINE l == SubSeq(p, 1, i - 1)
               h == SubSeq(p, i + 1, Len(p))
    <3>1. /\ l \in Seq(SUBSET Ids) /\ Len(l) = i - 1
          /\ \A j \in 1 .. i - 1 : l[j] = p[j]
      OBVIOUS
    <3>2. /\ h \in Seq(SUBSET Ids) /\ Len(h) = Len(p) - i
          /\ \A j \in 1 .. Len(p) - i : h[j] = p[i + j]
      OBVIOUS
    <3> HIDE DEF l, h
    <3>3. ASSUME NEW j \in 1 .. Len(l \o h)
          PROVE  \E m \in 1 .. Len(p) : (l \o h)[j] = p[m]
      <4>1. CASE j <= Len(l)
        <5>1. (l \o h)[j] = l[j] /\ j \in 1 .. i - 1
          BY <3>1, <3>2, <4>1
        <5>2. QED
          BY <3>1, <5>1
      <4>2. CASE ~ j <= Len(l)
        <5>1. (l \o h)[j] = h[j - Len(l)] /\ j - Len(l) \in 1 .. Len(p) - i
          BY <3>1, <3>2, <4>2
        <5>2. (l \o h)[j] = p[i + (j - Len(l))] /\ i + (j - Len(l)) \in 1 .. Len(p)
          BY <3>1, <3>2, <5>1
        <5>3. QED
          BY <5>2
      <4>3. QED
        BY <4>1, <4>2
    <3>4. Cut(p, i) = l \o h
      BY DEF Cut, l, h
    <3>5. QED
      BY <3>3, <3>4 DEF Flatten
  <2>2. CASE \E i \in 1 .. Len(p) : p[i] = {e}
    <3>1. PICK i \in 1 .. Len(p) : Drop(p, e) = Cut(p, i)
      BY <2>2, Zenon DEF Drop
    <3>2. QED
      BY <3>1, <2>1
  <2>3. CASE ~ \E i \in 1 .. Len(p) : p[i] = {e}
    <3>1. Drop(p, e) = [i \in 1 .. Len(p) |-> p[i] \ {e}]
      BY <2>3 DEF Drop
    <3>2. /\ Len(Drop(p, e)) = Len(p)
          /\ \A i \in 1 .. Len(p) : Drop(p, e)[i] \subseteq p[i]
      BY <3>1
    <3>3. QED
      BY <3>2 DEF Flatten
  <2>4. QED
    BY <2>2, <2>3
<1>5. QED
  BY <1>1, <1>2, <1>3, <1>4

(* What a batch row of the right type holds.                               *)
LEMMA RowFields ==
    ASSUME NEW r \in Row
    PROVE
      /\ \A ids : LET q == [r EXCEPT !.current = ids]
                  IN  /\ q.sha = r.sha /\ q.state = r.state
                      /\ q.current = ids /\ q.pending = r.pending
      /\ \A e : LET q == [r EXCEPT !.ejected = @ \cup {e}]
                IN  /\ q.sha = r.sha /\ q.state = r.state
                    /\ q.current = r.current /\ q.pending = r.pending
      /\ \A s : LET q == [r EXCEPT !.sha = s, !.state = "testing", !.late = FALSE,
                                   !.builds = r.builds + 1]
                IN  /\ q.sha = s /\ q.state = "testing"
                    /\ q.current = r.current /\ q.pending = r.pending
      /\ LET q == [r EXCEPT !.ff = 0]
         IN  /\ q.sha = r.sha /\ q.state = r.state
             /\ q.current = r.current /\ q.pending = r.pending
      /\ LET q == [r EXCEPT !.ff = @ + 1]
         IN  /\ q.sha = r.sha /\ q.state = r.state
             /\ q.current = r.current /\ q.pending = r.pending
      /\ LET q == [r EXCEPT !.landed = r.landed \cup r.current, !.current = {}]
         IN  /\ q.sha = r.sha /\ q.state = r.state
             /\ q.current = {} /\ q.pending = r.pending
      /\ LET q == [r EXCEPT !.pending = <<>>]
         IN  /\ q.sha = r.sha /\ q.state = r.state
             /\ q.current = r.current /\ q.pending = <<>>
      /\ \A l, p : LET q == [r EXCEPT !.pending = p, !.current = l]
                   IN  /\ q.sha = r.sha /\ q.state = r.state
                       /\ q.current = l /\ q.pending = p
      /\ LET q == [r EXCEPT !.state = "forming"]
         IN  /\ q.sha = r.sha /\ q.state = "forming"
             /\ q.current = r.current /\ q.pending = r.pending
      /\ LET q == [r EXCEPT !.state = "done", !.current = {}]
         IN  /\ q.sha = r.sha /\ q.state = "done"
             /\ q.current = {} /\ q.pending = r.pending
      /\ LET q == [r EXCEPT !.late = TRUE]
         IN  /\ q.sha = r.sha /\ q.state = r.state
             /\ q.current = r.current /\ q.pending = r.pending
      /\ \A l, p : LET q == [r EXCEPT !.current = l, !.pending = p, !.state = "forming"]
                   IN  /\ q.sha = r.sha /\ q.state = "forming"
                       /\ q.current = l /\ q.pending = p
      /\ \A e : LET q == WithoutMember(r, e)
                IN  /\ q.sha = r.sha /\ q.state = r.state
                    /\ q.current = r.current \ {e}
                    /\ q.pending = Drop(r.pending, e)
BY DEF Row, WithoutMember

(* What a queue entry of the right type holds.                             *)
LEMMA EntryFields ==
    ASSUME TypeOK, NEW x \in Ids
    PROVE
      /\ \A p : /\ Dequeued(p)[x].pr = entries[x].pr
                /\ entries[x].pr = p =>
                     Dequeued(p)[x].state = "absent" /\ Dequeued(p)[x].sha = NoSha
                /\ entries[x].pr # p => Dequeued(p)[x] = entries[x]
      /\ \A p, s : /\ Stamped(p, s)[x].pr = entries[x].pr
                   /\ Stamped(p, s)[x].state = entries[x].state
                   /\ Stamped(p, s)[x].batch = entries[x].batch
                   /\ \/ Stamped(p, s)[x].sha = entries[x].sha
                      \/ /\ x \in Existing /\ entries[x].pr = p
                         /\ Stamped(p, s)[x].sha = s
      /\ \A ids : /\ Unrouted(ids)[x].pr = entries[x].pr
                  /\ Unrouted(ids)[x].state = entries[x].state
                  /\ Unrouted(ids)[x].batch = entries[x].batch
                  /\ Unrouted(ids)[x].sha \in {entries[x].sha, NoSha}
      /\ \A ids, k : /\ Batched(ids, k)[x].pr = entries[x].pr
                     /\ Batched(ids, k)[x].sha = entries[x].sha
                     /\ x \in ids => /\ Batched(ids, k)[x].state = "testing"
                                     /\ Batched(ids, k)[x].batch = k
                     /\ x \notin ids => Batched(ids, k)[x] = entries[x]
      /\ \A p, e : /\ x # e => Enqueued(p, e)[x] = entries[x]
                   /\ x = e => /\ Enqueued(p, e)[x].pr = p
                               /\ Enqueued(p, e)[x].state = "queued"
                               /\ Enqueued(p, e)[x].sha = NoSha
<1>1. /\ entries \in [Ids -> Entry] /\ entries[x] \in Entry
  BY DEF TypeOK, StoreTypeOK
<1>2. \A p : /\ Dequeued(p)[x].pr = entries[x].pr
             /\ entries[x].pr = p =>
                  Dequeued(p)[x].state = "absent" /\ Dequeued(p)[x].sha = NoSha
             /\ entries[x].pr # p => Dequeued(p)[x] = entries[x]
  BY DEF Dequeued, NoEntry
<1>3. \A p, s : /\ Stamped(p, s)[x].pr = entries[x].pr
                /\ Stamped(p, s)[x].state = entries[x].state
                /\ Stamped(p, s)[x].batch = entries[x].batch
                /\ \/ Stamped(p, s)[x].sha = entries[x].sha
                   \/ /\ x \in Existing /\ entries[x].pr = p
                      /\ Stamped(p, s)[x].sha = s
  BY <1>1 DEF Stamped, Entry
<1>4. \A ids : /\ Unrouted(ids)[x].pr = entries[x].pr
               /\ Unrouted(ids)[x].state = entries[x].state
               /\ Unrouted(ids)[x].batch = entries[x].batch
               /\ Unrouted(ids)[x].sha \in {entries[x].sha, NoSha}
  BY <1>1 DEF Unrouted, Entry
<1>5. \A ids, k : /\ Batched(ids, k)[x].pr = entries[x].pr
                  /\ Batched(ids, k)[x].sha = entries[x].sha
                  /\ x \in ids => /\ Batched(ids, k)[x].state = "testing"
                                  /\ Batched(ids, k)[x].batch = k
                  /\ x \notin ids => Batched(ids, k)[x] = entries[x]
  BY <1>1 DEF Batched, Entry
<1>6. \A p, e : /\ x # e => Enqueued(p, e)[x] = entries[x]
                /\ x = e => /\ Enqueued(p, e)[x].pr = p
                            /\ Enqueued(p, e)[x].state = "queued"
                            /\ Enqueued(p, e)[x].sha = NoSha
  BY <1>1 DEF Enqueued, NoEntry
<1>7. QED
  BY <1>2, <1>3, <1>4, <1>5, <1>6

(***************************************************************************)
(* Frames: which steps change which table.                                 *)
(***************************************************************************)

LEMMA ForgeFrame ==
    ASSUME Next
    PROVE  \/ forgeVars' = forgeVars
           \/ Build \/ FastForward \/ TargetPush
           \/ \E s \in Shas, c \in Contexts, st \in ReportStates : CIReport(s, c, st)
<1>1. CASE Operation
  BY <1>1 DEF Operation, KeepOne, Sorted, SaveTesting, AllStamped, ClearLedger,
     EvaluatePass, EvaluateWait, FastForwardRaced, FastForwardDenied, Settle,
     Rebuild, NextSlice, Finish, ReconcileDone, ReconcileForming, ReconcileTesting,
     EjectOne, StampOne, LandOne, EvaluateFail
<1>2. CASE EntryPoint
  BY <1>2 DEF EntryPoint, FormBatch, RetryForming, HandleTimeout, DropCheck,
     SaveCheck, RemovedTooLate, RemovedPending, RemovedCurrent
<1>3. CASE World \/ Environment \/ Fault
  BY <1>3 DEF World, Environment, Fault, Enqueue, RemoveEntry, PromoteHead, Webhook,
     PollChecks, ClockPasses, Abort, AbortRemoval, Crash
<1>4. QED
  BY <1>1, <1>2, <1>3 DEF Next

(* The actions that change the entries: every other leaves them alone.     *)
LEMMA EntriesFrame ==
    ASSUME Next
    PROVE  \/ entries' = entries
           \/ \E k \in BatchIds : FormBatch(k) \/ HandleTimeout(k)
           \/ EjectOne \/ StampOne \/ EvaluateFail \/ LandOne
           \/ \E e \in Ids : RemoveEntry(e)
           \/ \E p \in PRs, e \in Ids : Enqueue(p, e)
           \/ PromoteHead
<1>1. CASE Operation
  BY <1>1 DEF Operation, storeVars, Build, KeepOne, Sorted, SaveTesting, AllStamped,
     ClearLedger, EvaluatePass, EvaluateWait, FastForward, FastForwardRaced,
     FastForwardDenied, Settle, Rebuild, NextSlice, Finish, ReconcileDone,
     ReconcileForming, ReconcileTesting
<1>2. CASE EntryPoint
  BY <1>2 DEF EntryPoint, storeVars, RetryForming, DropCheck, SaveCheck,
     RemovedTooLate, RemovedPending, RemovedCurrent
<1>3. CASE World \/ Environment \/ Fault
  BY <1>3 DEF World, Environment, Fault, storeVars, Webhook, PollChecks, ClockPasses,
     Abort, AbortRemoval, Crash
<1>4. QED
  BY <1>1, <1>2, <1>3 DEF Next

(* The actions that change the ledger.                                     *)
LEMMA LedgerFrame ==
    ASSUME Next
    PROVE  \/ ledger' = ledger
           \/ EjectOne \/ LandOne \/ ClearLedger
           \/ \E c \in calls : SaveCheck(c)
           \/ \E e \in Ids : RemoveEntry(e)
<1>1. CASE Operation
  BY <1>1 DEF Operation, storeVars, Build, KeepOne, Sorted, SaveTesting, StampOne,
     AllStamped, EvaluatePass, EvaluateWait, EvaluateFail, FastForward,
     FastForwardRaced, FastForwardDenied, Settle, Rebuild, NextSlice, Finish,
     ReconcileDone, ReconcileForming, ReconcileTesting
<1>2. CASE EntryPoint
  BY <1>2 DEF EntryPoint, storeVars, FormBatch, RetryForming, HandleTimeout, DropCheck,
     RemovedTooLate, RemovedPending, RemovedCurrent
<1>3. CASE World \/ Environment \/ Fault
  BY <1>3 DEF World, Environment, Fault, storeVars, Enqueue, PromoteHead, Webhook,
     PollChecks, ClockPasses, Abort, AbortRemoval, Crash
<1>4. QED
  BY <1>1, <1>2, <1>3 DEF Next

(* The actions that change the batches table.                              *)
LEMMA RowsFrame ==
    ASSUME Next
    PROVE  \/ rows' = rows
           \/ SaveTesting \/ Rebuild \/ NextSlice \/ Finish \/ RemovedPending
           \/ \E k \in BatchIds : FormBatch(k) \/ ClockPasses(k)
<1>1. CASE Operation
  BY <1>1 DEF Operation, storeVars, Build, EjectOne, KeepOne, Sorted, StampOne,
     AllStamped, ClearLedger, EvaluatePass, EvaluateWait, EvaluateFail, FastForward,
     FastForwardRaced, FastForwardDenied, LandOne, Settle, ReconcileDone,
     ReconcileForming, ReconcileTesting
<1>2. CASE EntryPoint
  BY <1>2 DEF EntryPoint, storeVars, RetryForming, HandleTimeout, DropCheck, SaveCheck,
     RemovedTooLate, RemovedCurrent
<1>3. CASE World \/ Environment \/ Fault
  BY <1>3 DEF World, Environment, Fault, storeVars, Enqueue, RemoveEntry, PromoteHead,
     Webhook, PollChecks, Abort, AbortRemoval, Crash
<1>4. QED
  BY <1>1, <1>2, <1>3 DEF Next

(* The actions that put a check event on its way.                          *)
LEMMA CallsFrame ==
    ASSUME Next
    PROVE  \/ calls' \subseteq calls
           \/ \E s \in Shas, c \in Contexts, st \in ReportStates : Webhook(s, c, st)
           \/ \E k \in BatchIds : PollChecks(k)
<1>1. CASE Operation
  BY <1>1 DEF Operation, Build, EjectOne, KeepOne, Sorted, SaveTesting, StampOne,
     AllStamped, ClearLedger, EvaluatePass, EvaluateWait, EvaluateFail, FastForward,
     FastForwardRaced, FastForwardDenied, LandOne, Settle, Rebuild, NextSlice, Finish,
     ReconcileDone, ReconcileForming, ReconcileTesting
<1>2. CASE EntryPoint
  BY <1>2 DEF EntryPoint, FormBatch, RetryForming, HandleTimeout, DropCheck, SaveCheck,
     RemovedTooLate, RemovedPending, RemovedCurrent
<1>3. CASE World \/ Environment \/ Fault
  BY <1>3 DEF World, Environment, Fault, Enqueue, RemoveEntry, PromoteHead,
     ClockPasses, Abort, AbortRemoval, Crash
<1>4. QED
  BY <1>1, <1>2, <1>3 DEF Next

(***************************************************************************)
(* What never changes back.                                                *)
(***************************************************************************)

(* Commits are never rewritten and results never taken back.               *)
LEMMA ForgeGrows ==
    ASSUME TypeOK, Next
    PROVE  /\ last \in Nat /\ last' \in Nat /\ last <= last'
           /\ \A s \in 1 .. last : commits'[s] = commits[s]
           /\ \A s \in Shas, c \in Contexts : \A st :
                Reported(s, c, st) => Reported(s, c, st)'
<1> USE DEF TypeOK, ForgeTypeOK
<1>1. CASE UNCHANGED <<commits, last, reports>>
  BY <1>1 DEF Reported, Shas
<1>2. CASE Build
  <2>1. PICK ids \in SUBSET Ids : StackOnTip(ids) \/ UNCHANGED <<commits, last>>
    BY <1>2 DEF Build, Existing
  <2>2. reports' = reports
    BY <1>2 DEF Build
  <2>3. CASE StackOnTip(ids)
    BY <2>2, <2>3 DEF StackOnTip, Reported, Shas
  <2>4. QED
    BY <1>1, <2>1, <2>2, <2>3
<1>3. CASE TargetPush
  BY <1>3 DEF TargetPush, Reported, Shas
<1>4. CASE \E s \in Shas, c \in Contexts, st \in ReportStates : CIReport(s, c, st)
  <2>1. PICK s \in Shas, c \in Contexts, st \in ReportStates : CIReport(s, c, st)
    BY <1>4
  <2>2. UNCHANGED <<commits, last>>
    BY <2>1 DEF CIReport
  <2>3. ASSUME NEW t \in Shas, NEW d \in Contexts
        PROVE  /\ Len(reports[t][d]) <= Len(reports'[t][d])
               /\ \A i \in 1 .. Len(reports[t][d]) : reports'[t][d][i] = reports[t][d][i]
    <3>1. reports' = [reports EXCEPT ![s][c] = Append(@, st)]
      BY <2>1 DEF CIReport
    <3>2. reports[t][d] \in Seq(ReportStates)
      OBVIOUS
    <3>3. reports'[t][d] = reports[t][d] \/ reports'[t][d] = Append(reports[t][d], st)
      BY <3>1
    <3>4. QED
      BY <3>2, <3>3
  <2>4. ASSUME NEW t \in Shas, NEW d \in Contexts
        PROVE  Len(reports[t][d]) \in Nat /\ Len(reports'[t][d]) \in Nat
    <3>1. TypeOK'
      BY TypeStep
    <3>2. reports[t][d] \in Seq(ReportStates) /\ reports'[t][d] \in Seq(ReportStates)
      BY <3>1
    <3>3. QED
      BY <3>2
  <2>5. ASSUME NEW t \in Shas, NEW d \in Contexts, NEW u, Reported(t, d, u)
        PROVE  Reported(t, d, u)'
    <3>1. PICK i \in 1 .. Len(reports[t][d]) : reports[t][d][i] = u
      BY <2>5 DEF Reported
    <3>2. i \in 1 .. Len(reports'[t][d]) /\ reports'[t][d][i] = u
      BY <2>3, <2>4, <3>1
    <3>3. QED
      BY <3>2 DEF Reported
  <2>6. QED
    BY <2>2, <2>5 DEF Shas
<1>5. CASE FastForward
  BY <1>1, <1>5 DEF FastForward
<1>6. QED
  BY <1>1, <1>2, <1>3, <1>4, <1>5, ForgeFrame DEF forgeVars


(***************************************************************************)
(* What a step makes of an entry, of the row copy and of a row.            *)
(***************************************************************************)

(* A row either was just inserted or keeps its PR number; it never comes   *)
(* back, never leaves its batch, and only StampOne gives it a commit.      *)
LEMMA EntriesMove ==
    ASSUME TypeOK, Next, NEW x \in Ids
    PROVE  \/ \E p \in PRs : Enqueue(p, x)
           \/ /\ entries'[x].pr = entries[x].pr
              /\ entries'[x].state # "absent" => entries[x].state # "absent"
              /\ entries'[x].state # "absent" =>
                   \/ entries'[x].batch = entries[x].batch
                   \/ entries'[x].batch \in BatchIds
              /\ \/ entries'[x].sha \in {entries[x].sha, NoSha}
                 \/ /\ StampOne /\ entries[x].pr = entries[Least(todo)].pr
                    /\ entries'[x].sha = b.sha /\ x \in Existing
<1> DEFINE Kept == /\ entries'[x].pr = entries[x].pr
                   /\ entries'[x].state # "absent" => entries[x].state # "absent"
                   /\ entries'[x].state # "absent" =>
                        \/ entries'[x].batch = entries[x].batch
                        \/ entries'[x].batch \in BatchIds
                   /\ entries'[x].sha \in {entries[x].sha, NoSha}
<1>1. CASE entries' = entries
  BY <1>1
<1>2. ASSUME NEW p, entries' = Dequeued(p)
      PROVE  Kept
  BY <1>2, EntryFields
<1>3. ASSUME NEW ids, entries' = Unrouted(ids)
      PROVE  Kept
  BY <1>3, EntryFields
<1>4. ASSUME NEW k \in BatchIds, FormBatch(k)
      PROVE  Kept
  <2>1. entries' = Batched(TakeQueuedHead, k)
    BY <1>4 DEF FormBatch
  <2>2. x \in TakeQueuedHead => entries[x].state = "queued"
    BY DEF TakeQueuedHead
  <2>3. QED
    BY <2>1, <2>2, EntryFields
<1>5. ASSUME NEW k \in BatchIds, HandleTimeout(k)
      PROVE  Kept
  <2>1. \/ entries' = entries
        \/ entries' = Unrouted(rows[k].current \ FirstHalf(rows[k].current))
    BY <1>5 DEF HandleTimeout, HandleFail
  <2>2. QED
    BY <1>3, <2>1
<1>6. CASE EvaluateFail
  <2>1. \/ entries' = entries
        \/ entries' = Unrouted(b.current \ FirstHalf(b.current))
    BY <1>6 DEF EvaluateFail, HandleFail
  <2>2. QED
    BY <1>3, <2>1
<1>7. CASE EjectOne
  <2>1. entries' = entries \/ entries' = Dequeued(entries[Least(todo)].pr)
    BY <1>7 DEF EjectOne
  <2>2. QED
    BY <1>2, <2>1
<1>8. CASE LandOne
  <2>1. entries' = entries \/ entries' = Dequeued(entries[Least(todo)].pr)
    BY <1>8 DEF LandOne
  <2>2. QED
    BY <1>2, <2>1
<1>9. ASSUME NEW e \in Ids, RemoveEntry(e)
      PROVE  Kept
  <2>1. entries' = entries \/ entries' = Dequeued(entries[e].pr)
    BY <1>9 DEF RemoveEntry
  <2>2. QED
    BY <1>2, <2>1
<1>10. CASE PromoteHead
  <2>1. Existing # {} /\ Existing \in SUBSET Nat /\ Existing \subseteq Ids
    BY <1>10 DEF PromoteHead, HeadQueued, Existing, Ids
  <2>2. Least(Existing) \in Existing
    BY <2>1, LeastType
  <2>3. entries[Least(Existing)] \in Entry /\ entries[x] \in Entry
    BY <2>1, <2>2 DEF TypeOK, StoreTypeOK
  <2>4. entries' = [entries EXCEPT ![Least(Existing)].state = "success"]
    BY <1>10 DEF PromoteHead
  <2>5. CASE x = Least(Existing)
    <3>1. entries'[x] = [entries[x] EXCEPT !.state = "success"]
      BY <2>4, <2>5 DEF TypeOK, StoreTypeOK
    <3>2. entries[x].state # "absent"
      BY <2>2, <2>5 DEF Existing
    <3>3. QED
      BY <2>3, <3>1, <3>2 DEF Entry
  <2>6. CASE x # Least(Existing)
    <3>1. entries'[x] = entries[x]
      BY <2>4, <2>6 DEF TypeOK, StoreTypeOK
    <3>2. QED
      BY <3>1
  <2>7. QED
    BY <2>5, <2>6
<1>11. CASE StampOne
  <2>1. entries' = entries \/ entries' = Stamped(entries[Least(todo)].pr, b.sha)
    BY <1>11 DEF StampOne
  <2>2. QED
    BY <1>11, <2>1, EntryFields
<1>12. ASSUME NEW p \in PRs, NEW e \in Ids, Enqueue(p, e), x # e
       PROVE  Kept
  BY <1>12, EntryFields DEF Enqueue
<1>13. QED
  BY <1>1, <1>4, <1>5, <1>6, <1>7, <1>8, <1>9, <1>10, <1>11, <1>12, EntriesFrame

(* An entry a batch owns stays owned until its row is deleted.             *)
LEMMA OwnedStable ==
    ASSUME TypeOK, Next, NEW x \in Ids, Owned(x)
    PROVE  Owned(x)'
<1>1. entries[x].pr # NoPR
  BY DEF Owned
<1>2. ~ \E p \in PRs : Enqueue(p, x)
  BY <1>1 DEF Enqueue, NoEntry
<1>3. QED
  BY <1>1, <1>2, EntriesMove DEF Owned, BatchIds, NoBatch

(* Where the operation is and what it is about to do.                      *)
LEMMA OpFrame ==
    ASSUME Next
    PROVE  \/ opVars' = opVars
           \/ pc' \in {"idle", "boot", "build", "rebuild", "next", "land"}
           \/ /\ pc' = "sort"
              /\ \/ Build \/ EjectOne \/ KeepOne
                 \/ FastForwardRaced \/ FastForwardDenied \/ EvaluateFail
                 \/ \E k \in BatchIds : HandleTimeout(k)
           \/ Sorted \/ SaveTesting \/ StampOne \/ AllStamped \/ EvaluatePass
           \/ \E c \in calls : SaveCheck(c)
           \/ \E k \in BatchIds : ReconcileTesting(k)
<1>1. CASE Operation
  BY <1>1 DEF Operation, Enter, Goto, EjectAll, Release, HandleFail, Build, EjectOne,
     KeepOne, ClearLedger, EvaluateWait, EvaluateFail, FastForward, FastForwardRaced,
     FastForwardDenied, LandOne, Settle, Rebuild, NextSlice, Finish, ReconcileDone,
     ReconcileForming
<1>2. CASE EntryPoint
  BY <1>2 DEF EntryPoint, Enter, HandleFail, FormBatch, RetryForming, HandleTimeout,
     DropCheck, RemovedTooLate, RemovedPending, RemovedCurrent
<1>3. CASE World \/ Environment \/ Fault
  BY <1>3 DEF World, Environment, Fault, Release, Enqueue, RemoveEntry, PromoteHead,
     Webhook, PollChecks, ClockPasses, Abort, AbortRemoval, Crash
<1>4. QED
  BY <1>1, <1>2, <1>3 DEF Next

(* The history variable is never reset.                                    *)
LEMMA DirtyFrame ==
    ASSUME TypeOK, Next, ~ dirty'
    PROVE  ~ dirty /\ (Abort \/ Crash => pc \notin {"stamp", "clear"})
<1> USE DEF TypeOK, EngineTypeOK
<1>1. CASE Operation
  BY <1>1, Zenon DEF Operation, Build, EjectOne, KeepOne, Sorted, SaveTesting, StampOne,
     AllStamped, ClearLedger, EvaluatePass, EvaluateWait, EvaluateFail, FastForward,
     FastForwardRaced, FastForwardDenied, LandOne, Settle, Rebuild, NextSlice, Finish,
     ReconcileDone, ReconcileForming, ReconcileTesting, Abort, Crash, InWindow
<1>2. CASE EntryPoint
  BY <1>2, Zenon DEF EntryPoint, FormBatch, RetryForming, HandleTimeout, DropCheck, SaveCheck,
     RemovedTooLate, RemovedPending, RemovedCurrent, Abort, Crash, InWindow
<1>3. CASE World \/ Environment \/ Fault
  BY <1>3, Zenon DEF World, Environment, Fault, Enqueue, RemoveEntry, PromoteHead, Webhook,
     PollChecks, ClockPasses, Abort, AbortRemoval, Crash, InWindow
<1>4. QED
  BY <1>1, <1>2, <1>3 DEF Next


(* Where the row copy comes from.                                          *)
LEMMA CopyMoves ==
    ASSUME TypeOK, Next
    PROVE  /\ \/ b'.sha \in {b.sha, NoSha}
              \/ SaveTesting /\ b'.sha = built
              \/ \E k \in BatchIds : b'.sha = rows[k].sha
           /\ \/ Held(b') \subseteq Held(b)
              \/ Sorted /\ Held(b') \subseteq Held(b) \cup keep
              \/ \E k \in BatchIds : Held(b') \subseteq Held(rows[k])
              \/ \E k \in BatchIds : FormBatch(k) /\ Held(b') = TakeQueuedHead
<1> DEFINE FromB == b'.sha = b.sha /\ Held(b') \subseteq Held(b)
           FromRow(k) == b'.sha = rows[k].sha /\ Held(b') \subseteq Held(rows[k])
<1>1. b \in Row /\ b.pending \in Seq(SUBSET Ids) /\ b.current \in SUBSET Ids
  BY DEF TypeOK, EngineTypeOK, OpTypeOK, Row
<1>2. \A k \in BatchIds : /\ rows[k] \in Row /\ rows[k].pending \in Seq(SUBSET Ids)
                          /\ rows[k].current \in SUBSET Ids
  BY DEF TypeOK, StoreTypeOK, Row
<1>3. Flatten(<<>>) = {}
  BY <1>1, FlattenFacts
<1>4. CASE b' = b
  BY <1>4
<1>5. CASE b' = NoRow
  BY <1>3, <1>5 DEF NoRow, Held
<1>6. ASSUME NEW k \in BatchIds, FormBatch(k)
      PROVE  b'.sha = NoSha /\ Held(b') = TakeQueuedHead
  BY <1>3, <1>6 DEF FormBatch, Enter, NewRow, NoRow, Held
<1>7. ASSUME NEW k \in BatchIds, b' = rows[k]
      PROVE  FromRow(k)
  BY <1>7
<1>8. ASSUME NEW r \in Row, \E w, k : HandleFail(w, k, r)
      PROVE  b'.sha = r.sha /\ Held(b') \subseteq Held(r)
  <2>1. r.pending \in Seq(SUBSET Ids) /\ r.current \in SUBSET Ids
    BY DEF Row
  <2>2. CASE b' = r
    BY <2>2
  <2>3. CASE b' = [r EXCEPT !.pending = <<>>]
    BY <1>3, <2>3, RowFields DEF Held
  <2>4. CASE b' = [r EXCEPT !.pending = Append(r.pending, r.current \ FirstHalf(r.current)),
                            !.current = FirstHalf(r.current)]
    <3>1. /\ b'.current = FirstHalf(r.current) /\ b'.sha = r.sha
          /\ b'.pending = Append(r.pending, r.current \ FirstHalf(r.current))
      BY <2>4, RowFields
    <3>2. FirstHalf(r.current) \subseteq r.current
      BY DEF FirstHalf
    <3>3. Flatten(b'.pending) = Flatten(r.pending) \cup (r.current \ FirstHalf(r.current))
      BY <2>1, <3>1, FlattenFacts
    <3>4. QED
      BY <3>1, <3>2, <3>3 DEF Held
  <2>5. QED
    BY <1>8, <2>2, <2>3, <2>4 DEF HandleFail
<1>9. CASE EvaluateFail
  BY <1>1, <1>8, <1>9 DEF EvaluateFail
<1>10. ASSUME NEW k \in BatchIds, HandleTimeout(k)
       PROVE  FromRow(k)
  BY <1>2, <1>8, <1>10 DEF HandleTimeout
<1>11. ASSUME EjectOne
       PROVE  FromB
  <2>1. b' = [b EXCEPT !.ejected = @ \cup {Least(todo)}]
    BY <1>11 DEF EjectOne
  <2>2. QED
    BY <1>1, <2>1, RowFields DEF Held
<1>12. ASSUME Sorted
       PROVE  b'.sha = b.sha /\ Held(b') \subseteq Held(b) \cup keep
  BY <1>1, <1>12, RowFields DEF Sorted, Held
<1>13. ASSUME SaveTesting
       PROVE  b'.sha = built /\ Held(b') \subseteq Held(b)
  BY <1>1, <1>13, RowFields DEF SaveTesting, Goto, Held
<1>14. ASSUME FastForward
       PROVE  FromB
  BY <1>1, <1>14, RowFields DEF FastForward, Goto, Held
<1>15. ASSUME FastForwardRaced
       PROVE  FromB
  <2>1. b' = [b EXCEPT !.ff = @ + 1]
    BY <1>15 DEF FastForwardRaced, Goto, EjectAll
  <2>2. b'.sha = b.sha /\ b'.current = b.current /\ b'.pending = b.pending
    BY <1>1, <2>1, RowFields
  <2>3. QED
    BY <2>2 DEF Held
<1>16. ASSUME Settle
       PROVE  FromB
  BY <1>1, <1>16, RowFields DEF Settle, Goto, Held
<1>17. ASSUME Rebuild
       PROVE  FromB
  BY <1>1, <1>17, RowFields DEF Rebuild, Goto, Held
<1>18. ASSUME NextSlice
       PROVE  FromB
  <2> DEFINE n == Len(b.pending)
  <2>1. b' = [b EXCEPT !.current = b.pending[n],
                       !.pending = SubSeq(b.pending, 1, n - 1), !.state = "forming"]
    BY <1>18 DEF NextSlice, Goto
  <2>2. /\ b'.sha = b.sha /\ b'.current = b.pending[n]
        /\ b'.pending = SubSeq(b.pending, 1, n - 1)
    BY <1>1, <2>1, RowFields
  <2>3. b.pending # <<>>
    BY <1>18 DEF NextSlice
  <2>4. b.pending[n] \subseteq Flatten(b.pending)
        /\ Flatten(SubSeq(b.pending, 1, n - 1)) \subseteq Flatten(b.pending)
    BY <1>1, <2>3, FlattenFacts
  <2>5. QED
    BY <2>2, <2>4 DEF Held
<1>19. ASSUME RemovedCurrent
       PROVE  \E k \in BatchIds : FromRow(k)
  <2> DEFINE k == removing.batch
             e == removing.id
  <2>1. k \in BatchIds /\ e \in Ids
    BY <1>19 DEF RemovedCurrent, TypeOK, EngineTypeOK, Removal
  <2>2. b' = WithoutMember(rows[k], e)
    BY <1>19 DEF RemovedCurrent, Enter
  <2>3. /\ b'.sha = rows[k].sha /\ b'.current = rows[k].current \ {e}
        /\ b'.pending = Drop(rows[k].pending, e)
    BY <1>2, <2>1, <2>2, RowFields
  <2>4. Flatten(Drop(rows[k].pending, e)) \subseteq Flatten(rows[k].pending)
    BY <1>2, <2>1, FlattenFacts
  <2>5. FromRow(k)
    BY <2>3, <2>4 DEF Held
  <2>6. QED
    BY <2>1, <2>5
<1>20. \/ b' = b \/ b' = NoRow
       \/ \E k \in BatchIds : b' = rows[k] \/ FormBatch(k) \/ HandleTimeout(k)
       \/ EvaluateFail \/ EjectOne \/ Sorted \/ SaveTesting \/ FastForward
       \/ FastForwardRaced \/ Settle \/ Rebuild \/ NextSlice \/ RemovedCurrent
  <2>1. CASE Operation
    BY <2>1 DEF Operation, Enter, Goto, EjectAll, Release, Build, KeepOne, StampOne,
       AllStamped, ClearLedger, EvaluatePass, EvaluateWait, FastForwardDenied, LandOne,
       Finish, ReconcileDone, ReconcileForming, ReconcileTesting
  <2>2. CASE EntryPoint
    <3>1. \A c \in calls : c.batch \in BatchIds
      BY DEF TypeOK, EngineTypeOK, Call
    <3>2. QED
      BY <2>2, <3>1 DEF EntryPoint, Enter, RetryForming, DropCheck, SaveCheck,
         RemovedTooLate, RemovedPending, opVars
  <2>3. CASE World \/ Environment \/ Fault
    BY <2>3 DEF World, Environment, Fault, Release, Enqueue, RemoveEntry, PromoteHead,
       Webhook, PollChecks, ClockPasses, Abort, AbortRemoval, Crash, opVars
  <2>4. QED
    BY <2>1, <2>2, <2>3 DEF Next
<1>21. QED
  <2>1. b' = b => FromB
    BY <1>4
  <2>2. b' = NoRow => b'.sha = NoSha /\ Held(b') \subseteq Held(b)
    BY <1>5, <1>3 DEF NoRow, Held
  <2>3. EvaluateFail => FromB
    BY <1>1, <1>8 DEF EvaluateFail
  <2>4. FastForward \/ FastForwardRaced \/ Settle \/ Rebuild \/ NextSlice \/ EjectOne => FromB
    BY <1>11, <1>14, <1>15, <1>16, <1>17, <1>18
  <2>5. RemovedCurrent => \E k \in BatchIds : FromRow(k)
    BY <1>19
  <2>6. QED
    BY <1>6, <1>7, <1>10, <1>12, <1>13, <1>20, <2>1, <2>2, <2>3, <2>4, <2>5

(* What a step makes of a batch row.                                       *)
LEMMA RowMoves ==
    ASSUME TypeOK, Next, NEW k \in BatchIds
    PROVE  /\ rows'[k].sha \in {rows[k].sha, b.sha, built, NoSha}
           /\ \/ Held(rows'[k]) \subseteq Held(rows[k])
              \/ Held(rows'[k]) \subseteq Held(b)
              \/ FormBatch(k) /\ Held(rows'[k]) = TakeQueuedHead
           /\ Live(k)' => Live(k) \/ FormBatch(k) \/ (k = bid /\ pc \notin {"idle", "boot"})
           /\ Testing(k)' =>
                \/ SaveTesting /\ k = bid
                \/ /\ Testing(k) /\ rows'[k].sha = rows[k].sha
                   /\ rows'[k].current \subseteq rows[k].current
<1>1. b \in Row /\ b.pending \in Seq(SUBSET Ids) /\ b.current \in SUBSET Ids
  BY DEF TypeOK, EngineTypeOK, OpTypeOK, Row
<1>2. /\ rows \in [BatchIds -> Row] /\ rows[k] \in Row
      /\ rows[k].pending \in Seq(SUBSET Ids) /\ rows[k].current \in SUBSET Ids
  BY DEF TypeOK, StoreTypeOK, Row
<1>3. Flatten(<<>>) = {}
  BY <1>1, FlattenFacts
<1>4. CASE rows'[k] = rows[k]
  BY <1>4 DEF Live, Testing
<1>5. CASE SaveTesting /\ k = bid
  <2>1. /\ rows'[k].sha = built /\ rows'[k].state = "testing"
        /\ rows'[k].current = b.current /\ rows'[k].pending = b.pending
    BY <1>1, <1>2, <1>5, RowFields DEF SaveTesting
  <2>2. QED
    BY <1>5, <2>1 DEF Held, SaveTesting
<1>6. CASE (Rebuild \/ NextSlice \/ Finish) /\ k = bid
  <2>1. pc \notin {"idle", "boot"}
    BY <1>6 DEF Rebuild, NextSlice, Finish
  <2>2. CASE Rebuild
    <3>1. /\ rows'[k].sha = b.sha /\ rows'[k].state = "forming"
          /\ rows'[k].current = b.current /\ rows'[k].pending = b.pending
      BY <1>1, <1>2, <1>6, <2>2, RowFields DEF Rebuild
    <3>2. QED
      BY <1>6, <2>1, <3>1 DEF Held, Testing
  <2>3. CASE NextSlice
    <3> DEFINE n == Len(b.pending)
    <3>1. /\ rows'[k].sha = b.sha /\ rows'[k].state = "forming"
          /\ rows'[k].current = b.pending[n]
          /\ rows'[k].pending = SubSeq(b.pending, 1, n - 1)
      BY <1>1, <1>2, <1>6, <2>3, RowFields DEF NextSlice
    <3>2. b.pending[n] \subseteq Flatten(b.pending)
          /\ Flatten(SubSeq(b.pending, 1, n - 1)) \subseteq Flatten(b.pending)
      BY <1>1, <2>3, FlattenFacts DEF NextSlice
    <3>3. QED
      BY <1>6, <2>1, <3>1, <3>2 DEF Held, Testing
  <2>4. CASE Finish
    <3>1. /\ rows'[k].sha = b.sha /\ rows'[k].state = "done"
          /\ rows'[k].current = {} /\ rows'[k].pending = b.pending
      BY <1>1, <1>2, <1>6, <2>4, RowFields DEF Finish
    <3>2. QED
      BY <1>6, <2>1, <3>1 DEF Held, Testing
  <2>5. QED
    BY <1>6, <2>2, <2>3, <2>4
<1>7. CASE RemovedPending /\ rows'[k] # rows[k]
  <2> DEFINE e == removing.id
  <2>1. rows' = [rows EXCEPT ![removing.batch] = WithoutMember(rows[removing.batch], e)]
    BY <1>7 DEF RemovedPending
  <2>2. k = removing.batch /\ rows'[k] = WithoutMember(rows[k], e)
    BY <1>2, <1>7, <2>1
  <2>3. e \in Ids
    BY <1>7 DEF RemovedPending, TypeOK, EngineTypeOK, Removal
  <2>4. /\ rows'[k].sha = rows[k].sha /\ rows'[k].state = rows[k].state
        /\ rows'[k].current = rows[k].current \ {e}
        /\ rows'[k].pending = Drop(rows[k].pending, e)
    BY <1>2, <2>2, <2>3, RowFields
  <2>5. Flatten(Drop(rows[k].pending, e)) \subseteq Flatten(rows[k].pending)
    BY <1>2, <2>3, FlattenFacts
  <2>6. QED
    BY <2>4, <2>5 DEF Held, Live, Testing
<1>8. CASE FormBatch(k)
  <2>1. rows'[k] = NewRow(TakeQueuedHead)
    BY <1>2, <1>8 DEF FormBatch
  <2>2. /\ rows'[k].sha = NoSha /\ rows'[k].state = "forming"
        /\ rows'[k].current = TakeQueuedHead /\ rows'[k].pending = <<>>
    BY <2>1 DEF NewRow, NoRow
  <2>3. QED
    BY <1>3, <1>8, <2>2 DEF Held, Testing
<1>9. CASE ClockPasses(k)
  <2>1. rows'[k] = [rows[k] EXCEPT !.late = TRUE]
    BY <1>2, <1>9 DEF ClockPasses
  <2>2. /\ rows'[k].sha = rows[k].sha /\ rows'[k].state = rows[k].state
        /\ rows'[k].current = rows[k].current /\ rows'[k].pending = rows[k].pending
    BY <1>2, <2>1, RowFields
  <2>3. QED
    BY <2>2 DEF Held, Live, Testing
<1>10. \/ rows'[k] = rows[k]
       \/ (SaveTesting \/ Rebuild \/ NextSlice \/ Finish) /\ k = bid
       \/ RemovedPending \/ FormBatch(k) \/ ClockPasses(k)
  BY <1>2, RowsFrame DEF SaveTesting, Rebuild, NextSlice, Finish, FormBatch, ClockPasses
<1>11. QED
  BY <1>4, <1>5, <1>6, <1>7, <1>8, <1>9, <1>10


(***************************************************************************)
(* Each part of the invariant is preserved by every step.                  *)
(***************************************************************************)

LEMMA IdsFinitePart ==
    /\ Ids \in SUBSET Nat
    /\ Existing \subseteq Ids
BY DEF Ids, Existing

(* Only Enqueue makes a row appear.                                        *)
LEMMA ExistingMoves ==
    ASSUME TypeOK, Next
    PROVE  \/ \E p \in PRs, e \in Ids :
                 /\ Enqueue(p, e) /\ Existing' = Existing \cup {e} /\ e \notin Existing
                 /\ entries'[e].pr = p
                 /\ \A f \in Ids : f # e => entries'[f] = entries[f]
           \/ /\ ~ \E p \in PRs, e \in Ids : Enqueue(p, e)
              /\ Existing' \subseteq Existing
              /\ \A f \in Ids : entries'[f].pr = entries[f].pr
<1>1. ASSUME NEW p \in PRs, NEW e \in Ids, Enqueue(p, e)
      PROVE  /\ Existing' = Existing \cup {e} /\ e \notin Existing
             /\ entries'[e].pr = p
             /\ \A f \in Ids : f # e => entries'[f] = entries[f]
  <2>1. entries' = Enqueued(p, e) /\ entries[e] = NoEntry
    BY <1>1 DEF Enqueue
  <2>2. \A f \in Ids : f # e => entries'[f] = entries[f]
    BY <2>1, EntryFields
  <2>3. entries'[e].state = "queued" /\ entries'[e].pr = p
    BY <2>1, EntryFields
  <2>4. entries[e].state = "absent"
    BY <2>1 DEF NoEntry
  <2>5. QED
    BY <2>2, <2>3, <2>4 DEF Existing
<1>2. CASE ~ \E p \in PRs, e \in Ids : Enqueue(p, e)
  BY <1>2, EntriesMove DEF Existing
<1>3. QED
  BY <1>1, <1>2

(* No step gives a PR a second entry (UNIQUE repo_id, pr_number).          *)
LEMMA OneEntryPerPRStep ==
    ASSUME TypeOK, OneEntryPerPR, Next
    PROVE  OneEntryPerPR'
<1>1. CASE \E p \in PRs, e \in Ids : Enqueue(p, e)
  <2>1. PICK p \in PRs, e \in Ids :
             /\ Enqueue(p, e) /\ Existing' = Existing \cup {e} /\ e \notin Existing
             /\ entries'[e].pr = p
             /\ \A f \in Ids : f # e => entries'[f] = entries[f]
    BY <1>1, ExistingMoves
  <2>2. \A f \in Existing : entries[f].pr # p
    BY <2>1 DEF Enqueue, InQueue
  <2>3. p # NoPR
    BY DEF NoPR
  <2>4. Existing \subseteq Ids
    BY IdsFinitePart
  <2>5. QED
    BY <2>1, <2>2, <2>3, <2>4 DEF OneEntryPerPR
<1>2. CASE ~ \E p \in PRs, e \in Ids : Enqueue(p, e)
  BY <1>2, ExistingMoves, IdsFinitePart DEF OneEntryPerPR
<1>3. QED
  BY <1>1, <1>2

(* Rows and the copy in memory keep naming entries of their batch only.    *)
LEMMA RowsOwnedStep ==
    ASSUME TypeOK, OneEntryPerPR, RowsOwned, LoopHeld, Next
    PROVE  RowsOwned'
<1>1. ASSUME NEW k \in BatchIds, FormBatch(k), NEW x \in TakeQueuedHead
      PROVE  Owned(x)'
  <2>1. entries' = Batched(TakeQueuedHead, k)
    BY <1>1 DEF FormBatch
  <2>2. x \in Existing /\ x \in Ids
    BY DEF TakeQueuedHead, Existing
  <2>3. entries'[x].pr # NoPR /\ entries'[x].batch = k
    BY <2>1, <2>2, EntryFields DEF OneEntryPerPR
  <2>4. k # NoBatch
    BY DEF BatchIds, NoBatch
  <2>5. QED
    BY <2>3, <2>4 DEF Owned
<1>2. /\ Held(b) \subseteq Ids /\ Held(b') \subseteq Ids
      /\ \A k \in BatchIds : Held(rows[k]) \subseteq Ids /\ Held(rows'[k]) \subseteq Ids
  <2>1. \A r \in Row : Held(r) \subseteq Ids
    <3>1. ASSUME NEW r \in Row
          PROVE  Held(r) \subseteq Ids
      <4>1. r.pending \in Seq(SUBSET Ids) /\ r.current \subseteq Ids
        BY DEF Row
      <4>2. \A i \in 1 .. Len(r.pending) : r.pending[i] \subseteq Ids
        BY <4>1
      <4>3. QED
        BY <4>1, <4>2 DEF Held, Flatten
    <3>2. QED
      BY <3>1
  <2>2. TypeOK'
    BY TypeStep
  <2>3. b \in Row /\ b' \in Row
    BY <2>2 DEF TypeOK, EngineTypeOK, OpTypeOK
  <2>4. rows \in [BatchIds -> Row] /\ rows' \in [BatchIds -> Row]
    BY <2>2 DEF TypeOK, StoreTypeOK
  <2>5. QED
    BY <2>1, <2>3, <2>4
<1>3. ASSUME NEW x \in Held(b')
      PROVE  Owned(x)'
  <2>1. x \in Ids
    BY <1>2
  <2>2. \/ Owned(x)
        \/ \E k \in BatchIds : FormBatch(k) /\ x \in TakeQueuedHead
    BY <1>2, CopyMoves DEF RowsOwned, LoopHeld, Sorted
  <2>3. QED
    BY <1>1, <2>1, <2>2, OwnedStable
<1>4. ASSUME NEW k \in BatchIds, NEW x \in Held(rows'[k])
      PROVE  Owned(x)'
  <2>1. x \in Ids
    BY <1>2
  <2>2. Owned(x) \/ (FormBatch(k) /\ x \in TakeQueuedHead)
    BY RowMoves DEF RowsOwned
  <2>3. QED
    BY <1>1, <2>1, <2>2, OwnedStable
<1>5. Held(b)' = Held(b') /\ \A k \in BatchIds : Held(rows[k])' = Held(rows'[k])
  BY DEF Held, Flatten
<1>6. QED
  BY <1>3, <1>4, <1>5 DEF RowsOwned

(* No step names a commit that does not exist yet.                         *)
LEMMA ShasBornStep ==
    ASSUME TypeOK, ShasBorn, Next
    PROVE  ShasBorn'
<1> USE DEF NoSha
<1>1. last \in Nat /\ last' \in Nat /\ last <= last'
  BY ForgeGrows
<1>2. /\ tip \in Nat /\ built \in Nat /\ b.sha \in Nat
      /\ \A e \in Ids : entries[e].sha \in Nat
      /\ \A k \in BatchIds : rows[k].sha \in Nat
  BY DEF TypeOK, ForgeTypeOK, StoreTypeOK, EngineTypeOK, OpTypeOK, Entry, Row, Shas
<1>3. tip' <= last'
  <2>1. CASE tip' = tip
    BY <1>1, <1>2, <2>1 DEF ShasBorn
  <2>2. CASE FastForward
    BY <1>1, <1>2, <2>2 DEF FastForward, ShasBorn
  <2>3. CASE TargetPush
    BY <1>1, <2>3 DEF TargetPush
  <2>4. QED
    BY <2>1, <2>2, <2>3, ForgeFrame DEF forgeVars, Build, CIReport
<1>4. built' <= last'
  <2>1. built' = built \/ built' = NoSha \/ (Build /\ built' = last' /\ last' = last + 1)
    <3>1. CASE Operation
      BY <3>1 DEF Operation, Goto, EjectAll, Release, HandleFail, Enter, Build, StackOnTip,
         EjectOne, KeepOne, Sorted, SaveTesting, StampOne, AllStamped, ClearLedger,
         EvaluatePass, EvaluateWait, EvaluateFail, FastForward, FastForwardRaced,
         FastForwardDenied, LandOne, Settle, Rebuild, NextSlice, Finish, ReconcileDone,
         ReconcileForming, ReconcileTesting
    <3>2. CASE EntryPoint
      BY <3>2 DEF EntryPoint, Enter, HandleFail, FormBatch, RetryForming, HandleTimeout,
         DropCheck, SaveCheck, RemovedTooLate, RemovedPending, RemovedCurrent, opVars
    <3>3. CASE World \/ Environment \/ Fault
      BY <3>3 DEF World, Environment, Fault, Release, Enqueue, RemoveEntry, PromoteHead,
         Webhook, PollChecks, ClockPasses, Abort, AbortRemoval, Crash, opVars
    <3>4. QED
      BY <3>1, <3>2, <3>3 DEF Next
  <2>2. QED
    BY <1>1, <1>2, <2>1 DEF ShasBorn
<1>5. b'.sha <= last'
  BY <1>1, <1>2, CopyMoves DEF ShasBorn
<1>6. ASSUME NEW e \in Ids
      PROVE  entries'[e].sha <= last'
  <2>1. entries'[e].sha \in {entries[e].sha, NoSha, b.sha}
    <3>1. ASSUME NEW p \in PRs, Enqueue(p, e)
          PROVE  entries'[e].sha = NoSha
      BY <3>1, EntryFields DEF Enqueue
    <3>2. QED
      BY <3>1, EntriesMove
  <2>2. QED
    BY <1>1, <1>2, <2>1 DEF ShasBorn
<1>7. ASSUME NEW k \in BatchIds
      PROVE  rows'[k].sha <= last'
  BY <1>1, <1>2, RowMoves DEF ShasBorn
<1>8. ASSUME NEW c \in calls'
      PROVE  c.sha <= last'
  <2>0. \A d \in calls : d.sha \in Nat
    BY DEF TypeOK, EngineTypeOK, Call, Shas
  <2>1. CASE c \in calls
    BY <1>1, <2>0, <2>1 DEF ShasBorn
  <2>2. CASE \E s \in Shas, x \in Contexts, st \in ReportStates : Webhook(s, x, st)
    <3>1. c \in calls \/ \E e \in Ids : c.sha = entries[e].sha
      BY <2>2, IdsFinitePart DEF Webhook, FindEntryForCommit
    <3>2. QED
      BY <1>1, <1>2, <2>0, <3>1 DEF ShasBorn
  <2>3. CASE \E k \in BatchIds : PollChecks(k)
    <3>1. c \in calls \/ \E k \in BatchIds : c.sha = rows[k].sha
      BY <2>3 DEF PollChecks
    <3>2. QED
      BY <1>1, <1>2, <2>0, <3>1 DEF ShasBorn
  <2>4. QED
    BY <2>1, <2>2, <2>3, CallsFrame
<1>9. QED
  BY <1>3, <1>4, <1>5, <1>6, <1>7, <1>8 DEF ShasBorn

(* No step makes a second batch live (ux_batches_live).                    *)
LEMMA OneLiveStep ==
    ASSUME TypeOK, OneLive, Next
    PROVE  OneLive'
<1>1. ASSUME NEW j \in BatchIds, NEW k \in BatchIds, Live(j)', Live(k)'
      PROVE  j = k
  <2>1. CASE Live(j) /\ Live(k)
    BY <2>1 DEF OneLive
  <2>2. ASSUME NEW m \in BatchIds, FormBatch(m)
        PROVE  j = k
    <3>1. \A i \in BatchIds : ~ Live(i)
      BY <2>2 DEF FormBatch
    <3>2. bid \notin BatchIds \/ pc = "idle"
      BY <2>2 DEF FormBatch
    <3>3. FormBatch(j) /\ FormBatch(k)
      BY <1>1, <3>1, <3>2, RowMoves
    <3>4. j <= k /\ k <= j
      BY <3>3 DEF FormBatch
    <3>5. QED
      BY <3>4 DEF BatchIds
  <2>3. QED
    <3>1. Live(j) \/ FormBatch(j) \/ (j = bid /\ pc \notin {"idle", "boot"})
      BY <1>1, RowMoves
    <3>2. Live(k) \/ FormBatch(k) \/ (k = bid /\ pc \notin {"idle", "boot"})
      BY <1>1, RowMoves
    <3>3. QED
      BY <2>1, <2>2, <3>1, <3>2 DEF OneLive
<1>2. ASSUME pc' \notin {"idle", "boot"}
      PROVE  bid' \in BatchIds /\ Live(bid)'
  <2>1. \A c \in calls : c.batch \in BatchIds
    BY DEF TypeOK, EngineTypeOK, Call
  <2>2. rows \in [BatchIds -> Row]
    BY DEF TypeOK, StoreTypeOK
  <2>3. CASE \E k \in BatchIds : FormBatch(k)
    <3>1. PICK k \in BatchIds : FormBatch(k)
      BY <2>3
    <3>2. bid' = k /\ rows'[k] = NewRow(TakeQueuedHead)
      BY <2>2, <3>1 DEF FormBatch, Enter
    <3>3. QED
      BY <3>2 DEF Live, NewRow, NoRow
  <2>4. CASE \E k \in BatchIds : bid' = k /\ Live(k) /\ rows' = rows
    BY <2>4 DEF Live
  <2>5. CASE /\ bid' = bid /\ bid \in BatchIds /\ Live(bid)
             /\ rows'[bid].state \in {rows[bid].state, "testing", "forming"}
    BY <2>5 DEF Live
  <2>6. \/ \E k \in BatchIds : FormBatch(k)
        \/ \E k \in BatchIds : bid' = k /\ Live(k) /\ rows' = rows
        \/ bid' = bid /\ pc \notin {"idle", "boot"}
    <3>1. CASE Operation
      BY <1>2, <3>1 DEF Operation, storeVars, Goto, EjectAll, Release, HandleFail, Enter, Build,
         EjectOne, KeepOne, Sorted, SaveTesting, StampOne, AllStamped, ClearLedger,
         EvaluatePass, EvaluateWait, EvaluateFail, FastForward, FastForwardRaced,
         FastForwardDenied, LandOne, Settle, Rebuild, NextSlice, Finish, ReconcileDone,
         ReconcileForming, ReconcileTesting, Live
    <3>2. CASE EntryPoint
      <4>1. removing # NoRemoval => removing.batch \in BatchIds
        BY DEF TypeOK, EngineTypeOK, Removal
      <4>2. QED
        BY <1>2, <2>1, <3>2, <4>1 DEF EntryPoint, storeVars, Enter, HandleFail, RetryForming,
           HandleTimeout, DropCheck, SaveCheck, Current, RemovedTooLate, RemovedPending,
           RemovedCurrent, opVars, Live
    <3>3. CASE World \/ Environment \/ Fault
      BY <1>2, <3>3 DEF World, Environment, Fault, Release, Enqueue, RemoveEntry, PromoteHead,
         Webhook, PollChecks, ClockPasses, Abort, AbortRemoval, Crash, opVars
    <3>4. QED
      BY <3>1, <3>2, <3>3 DEF Next
  <2>7. ASSUME bid' = bid, pc \notin {"idle", "boot"}
        PROVE  rows'[bid].state \in {rows[bid].state, "testing", "forming"}
    <3>1. bid \in BatchIds /\ rows[bid] \in Row /\ b \in Row
      BY <2>2, <2>7 DEF OneLive, TypeOK, EngineTypeOK, OpTypeOK
    <3>2. CASE SaveTesting \/ Rebuild \/ NextSlice
      <4>1. CASE SaveTesting
        BY <2>2, <3>1, <4>1, RowFields DEF SaveTesting
      <4>2. CASE Rebuild
        BY <2>2, <3>1, <4>2, RowFields DEF Rebuild
      <4>3. CASE NextSlice
        BY <2>2, <3>1, <4>3, RowFields DEF NextSlice
      <4>4. QED
        BY <3>2, <4>1, <4>2, <4>3
    <3>3. CASE Finish
      BY <1>2, <3>3 DEF Finish, Release
    <3>4. CASE \E k \in BatchIds : ClockPasses(k)
      <4>1. PICK k \in BatchIds : ClockPasses(k)
        BY <3>4
      <4>2. rows' = [rows EXCEPT ![k].late = TRUE]
        BY <4>1 DEF ClockPasses
      <4>3. rows'[bid] \in {rows[bid], [rows[bid] EXCEPT !.late = TRUE]}
        BY <2>2, <3>1, <4>2
      <4>4. [rows[bid] EXCEPT !.late = TRUE].state = rows[bid].state
        BY <3>1, RowFields
      <4>5. QED
        BY <4>3, <4>4
    <3>5. CASE rows' = rows
      BY <3>5
    <3>6. QED
      BY <2>7, <3>2, <3>3, <3>4, <3>5, RowsFrame DEF RemovedPending, FormBatch
  <2>8. QED
    BY <2>3, <2>4, <2>5, <2>6, <2>7 DEF OneLive
<1>3. QED
  BY <1>1, <1>2 DEF OneLive


(* The entry a loop visits next is one it still has to visit.              *)
LEMMA TodoLeast ==
    ASSUME TypeOK, todo # {}
    PROVE  Least(todo) \in todo /\ Least(todo) \in Ids
<1>1. todo \in SUBSET Nat /\ todo \subseteq Ids
  BY DEF TypeOK, EngineTypeOK, OpTypeOK, Ids
<1>2. QED
  BY <1>1, LeastType

(* A loop member that is gone was deleted by the poller.                   *)
LEMMA LoopMemberGone ==
    ASSUME TypeOK, OneEntryPerPR, LoopHeld, pc \in {"sort", "save", "stamp"}, Next,
           pc' \in {"sort", "save", "stamp"},
           NEW x \in todo \cup keep, x \notin Existing', EjectOne => x # Least(todo)
    PROVE  /\ removing' # NoRemoval
           /\ \A f \in Existing' : entries'[f].pr # entries'[x].pr
<1>1. x \in Ids /\ Owned(x)
  BY DEF TypeOK, EngineTypeOK, OpTypeOK, LoopHeld
<1>2. ~ \E p \in PRs : Enqueue(p, x)
  BY <1>1 DEF Owned, Enqueue, NoEntry
<1>3. entries'[x].pr = entries[x].pr
  BY <1>1, <1>2, EntriesMove
<1>4. CASE x \notin Existing
  <2>1. removing # NoRemoval /\ \A f \in Existing : entries[f].pr # entries[x].pr
    BY <1>4 DEF LoopHeld
  <2>2. ~ \E p \in PRs, e \in Ids : Enqueue(p, e)
    BY <2>1 DEF Enqueue, PollerFree
  <2>3. \A f \in Existing' : f \in Existing /\ f \in Ids /\ entries'[f].pr = entries[f].pr
    BY <2>2, ExistingMoves, IdsFinitePart
  <2>4. removing' = removing
    <3>1. CASE Operation
      BY <3>1 DEF Operation, Build, EjectOne, KeepOne, Sorted, SaveTesting, StampOne,
         AllStamped, ClearLedger, EvaluatePass, EvaluateWait, EvaluateFail, FastForward,
         FastForwardRaced, FastForwardDenied, LandOne, Settle, Rebuild, NextSlice, Finish,
         ReconcileDone, ReconcileForming, ReconcileTesting
    <3>2. CASE EntryPoint
      BY <3>2 DEF EntryPoint, FormBatch, RetryForming, HandleTimeout, DropCheck, SaveCheck,
         RemovedTooLate, RemovedPending, RemovedCurrent
    <3>3. CASE World \/ Environment \/ Fault
      BY <2>1, <3>3 DEF World, Environment, Fault, Release, PollerFree, Enqueue,
         RemoveEntry, PromoteHead, Webhook, PollChecks, ClockPasses, Abort,
         AbortRemoval, Crash
    <3>4. QED
      BY <3>1, <3>2, <3>3 DEF Next
  <2>5. QED
    BY <1>3, <2>1, <2>3, <2>4
<1>5. CASE x \in Existing
  <2>1. entries' # entries
    BY <1>5 DEF Existing
  <2>2. ~ \E p \in PRs, e \in Ids : Enqueue(p, e)
    BY <1>5, ExistingMoves
  <2>3. CASE EjectOne
    <3>1. Least(todo) \in todo /\ Least(todo) \in Ids
      BY <2>3, TodoLeast DEF EjectOne
    <3>2. entries' = Dequeued(entries[Least(todo)].pr)
      BY <2>1, <2>3 DEF EjectOne
    <3>3. entries[x].pr = entries[Least(todo)].pr
      BY <1>1, <1>5, <3>2, EntryFields DEF Existing
    <3>4. Least(todo) \in Existing
      BY <1>5, <3>1, <3>3 DEF LoopHeld
    <3>5. QED
      BY <1>5, <2>3, <3>3, <3>4 DEF OneEntryPerPR
  <2>4. ASSUME NEW e \in Ids, RemoveEntry(e)
        PROVE  /\ removing' # NoRemoval
               /\ \A f \in Existing' : entries'[f].pr # entries'[x].pr
    <3>1. entries' = Dequeued(entries[e].pr) /\ e \in Existing
      BY <2>1, <2>4 DEF RemoveEntry
    <3>2. entries[x].pr = entries[e].pr
      BY <1>1, <1>5, <3>1, EntryFields DEF Existing
    <3>3. x = e
      BY <1>5, <3>1, <3>2 DEF OneEntryPerPR
    <3>4. entries[e].batch # NoBatch
      BY <1>1, <1>5, <3>3 DEF Owned, Existing
    <3>5. removing' # NoRemoval
      BY <2>4, <3>4 DEF RemoveEntry, NoRemoval, Ids
    <3>6. \A f \in Ids : entries[f].pr = entries[e].pr => entries'[f].state = "absent"
      BY <3>1, EntryFields
    <3>7. \A f \in Existing' : f \in Ids /\ entries'[f].pr = entries[f].pr
      BY <2>2, ExistingMoves, IdsFinitePart
    <3>8. QED
      BY <1>3, <3>2, <3>5, <3>6, <3>7 DEF Existing
  <2>5. CASE StampOne
    <3>1. entries' = Stamped(entries[Least(todo)].pr, b.sha)
      BY <2>1, <2>5 DEF StampOne
    <3>2. entries'[x].state = entries[x].state
      BY <1>1, <3>1, EntryFields
    <3>3. QED
      BY <1>1, <1>5, <3>2 DEF Existing
  <2>6. CASE PromoteHead
    <3>1. entries' = [entries EXCEPT ![Least(Existing)].state = "success"]
      BY <2>6 DEF PromoteHead
    <3>2. entries \in [Ids -> Entry]
      BY DEF TypeOK, StoreTypeOK
    <3>3. entries'[x] \in {entries[x], [entries[x] EXCEPT !.state = "success"]}
      BY <1>1, <3>1, <3>2
    <3>4. entries'[x].state \in {entries[x].state, "success"}
      BY <1>1, <3>2, <3>3 DEF Entry
    <3>5. QED
      BY <1>1, <1>5, <3>4 DEF Existing
  <2>7. QED
    BY <2>1, <2>2, <2>3, <2>4, <2>5, <2>6, EntriesFrame
       DEF FormBatch, Enter, HandleTimeout, EvaluateFail, LandOne
<1>6. QED
  BY <1>4, <1>5

(* While Build runs, a member that is gone was deleted by the waiting      *)
(* poller.                                                                 *)
LEMMA LoopHeldStep ==
    ASSUME TypeOK, OneEntryPerPR, RowsOwned, BuildTracked, LoopHeld, Next
    PROVE  LoopHeld'
<1> SUFFICES ASSUME pc' \in {"sort", "save", "stamp"}
             PROVE  /\ todo' \cap keep' = {}
                    /\ \A x \in todo' \cup keep' :
                         /\ Owned(x)'
                         /\ x \notin Existing' =>
                              /\ removing' # NoRemoval
                              /\ \A f \in Existing' : entries'[f].pr # entries'[x].pr
  BY DEF LoopHeld
<1> DEFINE Loop == pc \in {"sort", "save", "stamp"}
<1>0. /\ todo \subseteq Ids /\ keep \subseteq Ids /\ Existing \subseteq Ids
      /\ b \in Row /\ \A k \in BatchIds : rows[k] \in Row
  BY IdsFinitePart DEF TypeOK, StoreTypeOK, EngineTypeOK, OpTypeOK
(* The loop goes on, over no more entries than before.                     *)
<1>1. ASSUME Loop, todo' \cup keep' \subseteq todo \cup keep, todo' \cap keep' = {},
             EjectOne => Least(todo) \notin todo' \cup keep'
      PROVE  \A x \in todo' \cup keep' :
               /\ Owned(x)'
               /\ x \notin Existing' =>
                    /\ removing' # NoRemoval
                    /\ \A f \in Existing' : entries'[f].pr # entries'[x].pr
  <2>1. ASSUME NEW x \in todo' \cup keep'
        PROVE  Owned(x)'
    <3>1. Owned(x) /\ x \in Ids
      BY <1>0, <1>1 DEF LoopHeld
    <3>2. QED
      BY <3>1, OwnedStable
  <2>2. QED
    BY <1>1, <2>1, LoopMemberGone
(* A loop begins, over entries that exist.                                 *)
<1>2. ASSUME entries' = entries, keep' = {}, todo' \subseteq Existing,
             todo' \subseteq Held(b) \/ \E k \in BatchIds : todo' \subseteq Held(rows[k])
      PROVE  /\ todo' \cap keep' = {}
             /\ \A x \in todo' \cup keep' : Owned(x)' /\ x \in Existing'
  BY <1>2 DEF RowsOwned, Owned, Existing
<1>3. CASE opVars' = opVars
  <2>1. Loop /\ todo' = todo /\ keep' = keep
    BY <1>3 DEF opVars
  <2>2. EjectOne => FALSE
    <3>1. ASSUME EjectOne PROVE FALSE
      <4>1. Least(todo) \in todo /\ todo' = todo \ {Least(todo)}
        BY <3>1, TodoLeast DEF EjectOne
      <4>2. QED
        BY <2>1, <4>1
    <3>2. QED
      BY <3>1
  <2>3. QED
    BY <1>1, <2>1, <2>2 DEF LoopHeld
<1>4. CASE Build
  <2>1. /\ entries' = entries /\ keep' = {} /\ todo' \subseteq Existing
        /\ todo' \subseteq b.current
    BY <1>4 DEF Build, storeVars
  <2>2. QED
    BY <1>2, <2>1 DEF Held
<1>5. CASE EjectOne
  <2>1. /\ Least(todo) \in todo /\ Loop
        /\ todo' = todo \ {Least(todo)} /\ keep' = keep
    BY <1>5, TodoLeast DEF EjectOne
  <2>2. Least(todo) \notin keep
    BY <2>1 DEF LoopHeld
  <2>3. todo' \cap keep' = {} /\ Least(todo) \notin todo' \cup keep'
    BY <2>1, <2>2 DEF LoopHeld
  <2>4. QED
    BY <1>1, <2>1, <2>3
<1>6. CASE KeepOne
  <2>1. /\ Least(todo) \in todo /\ Loop /\ entries' = entries
        /\ todo' = todo \ {Least(todo)} /\ keep' = keep \cup {Least(todo)}
    BY <1>6, TodoLeast DEF KeepOne, storeVars
  <2>2. ~ EjectOne
    BY <1>6 DEF KeepOne, EjectOne
  <2>3. todo' \cap keep' = {}
    BY <2>1 DEF LoopHeld
  <2>4. QED
    BY <1>1, <2>1, <2>2, <2>3
<1>7. CASE FastForwardRaced
  <2>1. /\ entries' = entries /\ keep' = {} /\ todo' \subseteq Existing
        /\ todo' \subseteq [b EXCEPT !.ff = @ + 1].current
    BY <1>7 DEF FastForwardRaced, Goto, EjectAll, storeVars
  <2>2. QED
    BY <1>0, <1>2, <2>1, RowFields DEF Held
<1>8. CASE FastForwardDenied
  <2>1. /\ entries' = entries /\ keep' = {} /\ todo' \subseteq Existing
        /\ todo' \subseteq b.current
    BY <1>8 DEF FastForwardDenied, EjectAll, storeVars
  <2>2. QED
    BY <1>2, <2>1 DEF Held
<1>9. CASE EvaluateFail
  <2>1. /\ entries' = entries /\ keep' = {} /\ todo' \subseteq Existing
        /\ todo' \subseteq Held(b)
    BY <1>9 DEF EvaluateFail, HandleFail, Held
  <2>2. QED
    BY <1>2, <2>1
<1>10. ASSUME NEW k \in BatchIds, HandleTimeout(k)
       PROVE  /\ entries' = entries /\ keep' = {} /\ todo' \subseteq Existing
              /\ todo' \subseteq Held(rows[k])
  BY <1>10 DEF HandleTimeout, HandleFail, Held
<1>11. CASE Sorted
  <2>1. Loop /\ todo' = todo /\ keep' = keep /\ ~ EjectOne
    BY <1>11 DEF Sorted, EjectOne
  <2>2. QED
    BY <1>1, <2>1 DEF LoopHeld
<1>12. CASE SaveTesting
  <2>1. Loop /\ todo' = b.current /\ keep' = {} /\ keep = b.current
    BY <1>12 DEF SaveTesting, Goto, BuildTracked
  <2>2. ~ EjectOne
    BY <1>12 DEF SaveTesting, EjectOne
  <2>3. QED
    BY <1>1, <2>1, <2>2
<1>13. CASE StampOne
  <2>1. /\ Least(todo) \in todo /\ Loop
        /\ todo' = todo \ {Least(todo)} /\ keep' = keep /\ ~ EjectOne
    BY <1>13, TodoLeast DEF StampOne, EjectOne
  <2>2. todo' \cap keep' = {}
    BY <2>1 DEF LoopHeld
  <2>3. QED
    BY <1>1, <2>1, <2>2
<1>14. CASE \E k \in BatchIds : HandleTimeout(k)
  BY <1>2, <1>10, <1>14
<1>15. QED
  BY <1>3, <1>4, <1>5, <1>6, <1>7, <1>8, <1>9, <1>11, <1>12, <1>13, <1>14, OpFrame
     DEF AllStamped, EvaluatePass, Goto, SaveCheck, ReconcileTesting, Enter

(* While ReconcileLive routes entries again, none of them goes away.       *)
LEMMA RestampHeldStep ==
    ASSUME TypeOK, RowsOwned, RestampHeld, Next
    PROVE  RestampHeld'
<1> SUFFICES ASSUME pc' = "restamp"
             PROVE  by' = "boot" /\ \A x \in todo' : x \in Existing' /\ Owned(x)'
  BY DEF RestampHeld
<1>1. ASSUME NEW k \in BatchIds, ReconcileTesting(k)
      PROVE  by' = "boot" /\ \A x \in todo' : x \in Existing' /\ Owned(x)'
  BY <1>1 DEF ReconcileTesting, Enter, storeVars, RowsOwned, Held, Existing, Owned
<1>2. ASSUME pc = "restamp", by' = by, todo' \subseteq todo
      PROVE  by' = "boot" /\ \A x \in todo' : x \in Existing' /\ Owned(x)'
  <2>1. entries' = entries \/ StampOne
    BY <1>2, EntriesFrame DEF RestampHeld, FormBatch, HandleTimeout, EjectOne, EvaluateFail,
       LandOne, RemoveEntry, Enqueue, PromoteHead, PollerFree
  <2>2. todo \subseteq Ids
    BY DEF TypeOK, EngineTypeOK, OpTypeOK
  <2>3. ASSUME NEW x \in Ids, StampOne
        PROVE  entries'[x].state = entries[x].state
    <3>1. entries' = entries \/ entries' = Stamped(entries[Least(todo)].pr, b.sha)
      BY <2>3 DEF StampOne
    <3>2. QED
      BY <3>1, EntryFields
  <2>4. \A x \in todo' : x \in Existing'
    BY <1>2, <2>1, <2>2, <2>3 DEF RestampHeld, Existing
  <2>5. QED
    BY <1>2, <2>2, <2>4, OwnedStable DEF RestampHeld
<1>3. CASE opVars' = opVars
  BY <1>2, <1>3 DEF opVars
<1>4. CASE StampOne
  BY <1>2, <1>4 DEF StampOne
<1>5. QED
  BY <1>1, <1>3, <1>4, OpFrame DEF Sorted, SaveTesting, Goto, AllStamped, EvaluatePass,
     SaveCheck, Enter


(* The content of a commit named anywhere does not change.                 *)
LEMMA CommitStable ==
    ASSUME TypeOK, Next, NEW s \in Nat, s <= last, s # NoSha
    PROVE  commits'[s] = commits[s] /\ s \in Shas
BY ForgeGrows DEF NoSha, Shas, TypeOK, ForgeTypeOK

(* Commits are natural numbers.                                            *)
LEMMA ShasNat ==
    ASSUME TypeOK
    PROVE  /\ tip \in Nat /\ built \in Nat /\ b.sha \in Nat /\ tip # NoSha
           /\ \A e \in Ids : entries[e].sha \in Nat
           /\ \A k \in BatchIds : rows[k].sha \in Nat
           /\ \A c \in calls : c.sha \in Nat /\ c.sha # NoSha
BY DEF TypeOK, ForgeTypeOK, StoreTypeOK, EngineTypeOK, OpTypeOK, Entry, Row, Shas,
   NoSha, Call

(* No step routes an entry to a commit that does not merge it.             *)
LEMMA RoutedStep ==
    ASSUME TypeOK, ShasBorn, OneEntryPerPR, LoopHeld, RestampHeld, BuildTracked,
           RoutedToOwnBuild, Next
    PROVE  RoutedToOwnBuild'
<1> SUFFICES ASSUME NEW e \in Existing', entries'[e].sha # NoSha
             PROVE  entries'[e].batch # NoBatch /\ e \in commits'[entries'[e].sha].ids
  BY DEF RoutedToOwnBuild
<1>1. e \in Ids /\ entries'[e].state # "absent"
  BY DEF Existing
<1>2. CASE \E p \in PRs : Enqueue(p, e)
  BY <1>1, <1>2, EntryFields DEF Enqueue
<1>3. CASE entries'[e].sha = entries[e].sha /\ ~ \E p \in PRs : Enqueue(p, e)
  <2>1. /\ e \in Existing
        /\ entries'[e].batch = entries[e].batch \/ entries'[e].batch \in BatchIds
    BY <1>1, <1>3, EntriesMove DEF Existing
  <2>2. entries[e].batch # NoBatch /\ e \in commits[entries[e].sha].ids
    BY <1>3, <2>1 DEF RoutedToOwnBuild
  <2>3. commits'[entries[e].sha] = commits[entries[e].sha]
    BY <1>1, <1>3, ShasNat, CommitStable DEF ShasBorn
  <2>4. QED
    BY <1>3, <2>1, <2>2, <2>3 DEF BatchIds, NoBatch
<1>4. CASE /\ StampOne /\ entries[e].pr = entries[Least(todo)].pr
           /\ entries'[e].sha = b.sha /\ e \in Existing
  <2>1. Least(todo) \in todo /\ pc \in {"stamp", "restamp"}
    BY <1>4, TodoLeast DEF StampOne
  <2>2. Least(todo) \in Existing /\ Owned(Least(todo))
    BY <1>4, <2>1 DEF LoopHeld, RestampHeld
  <2>3. e = Least(todo)
    BY <1>4, <2>2 DEF OneEntryPerPR
  <2>4. e \in commits[b.sha].ids /\ b.sha # NoSha
    BY <2>1, <2>3 DEF BuildTracked
  <2>5. commits'[b.sha] = commits[b.sha]
    BY <2>4, ShasNat, CommitStable DEF ShasBorn
  <2>6. entries[e].batch # NoBatch
    BY <2>2, <2>3 DEF Owned, Existing
  <2>7. ~ \E p \in PRs : Enqueue(p, e)
    BY <1>4, ExistingMoves DEF Enqueue, NoEntry, Existing
  <2>8. entries'[e].batch # NoBatch
    BY <1>1, <2>6, <2>7, EntriesMove DEF BatchIds, NoBatch
  <2>9. QED
    BY <1>4, <2>4, <2>5, <2>8
<1>5. QED
  BY <1>1, <1>2, <1>3, <1>4, EntriesMove

(* A testing row keeps naming a commit that merges its current members.    *)
LEMMA TestingBuiltStep ==
    ASSUME TypeOK, ShasBorn, BuildTracked, TestingBuilt, Next
    PROVE  TestingBuilt'
<1> SUFFICES ASSUME NEW k \in BatchIds, Testing(k)'
             PROVE  /\ rows'[k].sha # NoSha
                    /\ rows'[k].current \subseteq commits'[rows'[k].sha].ids
  BY DEF TestingBuilt
<1>1. CASE SaveTesting /\ k = bid
  <2>1. rows'[k].sha = built /\ rows'[k].current = b.current
    BY <1>1, RowFields DEF SaveTesting, TypeOK, StoreTypeOK, EngineTypeOK, OpTypeOK
  <2>2. built # NoSha /\ b.current = commits[built].ids
    BY <1>1 DEF SaveTesting, BuildTracked
  <2>3. commits'[built] = commits[built]
    BY <2>2, ShasNat, CommitStable DEF ShasBorn
  <2>4. QED
    BY <2>1, <2>2, <2>3
<1>2. CASE /\ Testing(k) /\ rows'[k].sha = rows[k].sha
           /\ rows'[k].current \subseteq rows[k].current
  <2>1. rows[k].sha # NoSha /\ rows[k].current \subseteq commits[rows[k].sha].ids
    BY <1>2 DEF TestingBuilt
  <2>2. commits'[rows[k].sha] = commits[rows[k].sha]
    BY <2>1, ShasNat, CommitStable DEF ShasBorn
  <2>3. QED
    BY <1>2, <2>1, <2>2
<1>3. QED
  BY <1>1, <1>2, RowMoves

(* What the loop of Build keeps stays what stack() merged.                 *)
LEMMA BuildTrackedStep ==
    ASSUME TypeOK, ShasBorn, OneLive, TestingBuilt, BuildTracked, Next
    PROVE  BuildTracked'
<1>0. /\ b \in Row /\ rows \in [BatchIds -> Row]
      /\ built # NoSha => commits'[built] = commits[built]
      /\ b.sha # NoSha => commits'[b.sha] = commits[b.sha]
  BY ShasNat, CommitStable DEF ShasBorn, TypeOK, StoreTypeOK, EngineTypeOK, OpTypeOK
<1>1. CASE opVars' = opVars
  <2>1. pc \in {"stamp", "clear"} => rows'[bid].sha = rows[bid].sha
    <3>1. ASSUME NEW k \in BatchIds, ClockPasses(k), bid \in BatchIds
          PROVE  rows'[bid].sha = rows[bid].sha
      <4>1. rows' = [rows EXCEPT ![k].late = TRUE]
        BY <3>1 DEF ClockPasses
      <4>2. rows'[bid] \in {rows[bid], [rows[bid] EXCEPT !.late = TRUE]}
        BY <1>0, <3>1, <4>1
      <4>3. [rows[bid] EXCEPT !.late = TRUE].sha = rows[bid].sha
        BY <1>0, <3>1, RowFields
      <4>4. QED
        BY <4>2, <4>3
    <3>2. QED
      BY <3>1, RowsFrame DEF OneLive, SaveTesting, Rebuild, NextSlice, Finish,
         RemovedPending, FormBatch
  <2>2. QED
    BY <1>0, <1>1, <2>1 DEF BuildTracked, opVars
<1>2. CASE pc' = "sort"
  <2> SUFFICES keep' \cup (todo' \ out') =
                   IF built' = NoSha THEN {} ELSE commits'[built'].ids
    BY <1>2 DEF BuildTracked
  <2>1. CASE Build
    <3>1. PICK bad \in SUBSET (b.current \cap Existing) :
             /\ IF bad = b.current \cap Existing
                THEN built' = NoSha /\ UNCHANGED <<commits, last>>
                ELSE /\ StackOnTip((b.current \cap Existing) \ bad)
                     /\ built' = last + 1
             /\ todo' = b.current \cap Existing /\ out' = bad /\ keep' = {}
      BY <2>1 DEF Build
    <3>2. CASE bad = b.current \cap Existing
      BY <3>1, <3>2
    <3>3. CASE bad # b.current \cap Existing
      <4>1. /\ commits' = [commits EXCEPT ![last + 1] =
                             [base |-> tip, ids |-> (b.current \cap Existing) \ bad]]
            /\ last + 1 \in Shas /\ built' = last + 1
        BY <3>1, <3>3 DEF StackOnTip, TypeOK, ForgeTypeOK, Shas
      <4>2. commits'[built'].ids = (b.current \cap Existing) \ bad
        BY <4>1 DEF TypeOK, ForgeTypeOK
      <4>3. built' # NoSha
        BY <4>1 DEF Shas, NoSha
      <4>4. QED
        BY <3>1, <4>2, <4>3
    <3>4. QED
      BY <3>2, <3>3
  <2>2. CASE EjectOne
    <3>1. /\ Least(todo) \in out /\ todo' = todo \ {Least(todo)} /\ pc = "sort"
          /\ keep' = keep /\ out' = out /\ built' = built
      BY <2>2 DEF EjectOne
    <3>2. QED
      BY <1>0, <3>1 DEF BuildTracked
  <2>3. CASE KeepOne
    <3>1. /\ Least(todo) \notin out /\ todo' = todo \ {Least(todo)} /\ pc = "sort"
          /\ keep' = keep \cup {Least(todo)} /\ out' = out /\ built' = built
          /\ Least(todo) \in todo
      BY <2>3, TodoLeast DEF KeepOne
    <3>2. QED
      BY <1>0, <3>1 DEF BuildTracked
  <2>4. CASE FastForwardRaced \/ FastForwardDenied \/ EvaluateFail
    BY <1>2, <2>4 DEF FastForwardRaced, FastForwardDenied, EvaluateFail, HandleFail, Goto,
       EjectAll
  <2>5. CASE \E k \in BatchIds : HandleTimeout(k)
    BY <1>2, <2>5 DEF HandleTimeout, HandleFail
  <2>6. QED
    BY <1>1, <1>2, <2>1, <2>2, <2>3, <2>4, <2>5, OpFrame
       DEF Sorted, SaveTesting, Goto, StampOne, AllStamped, EvaluatePass, SaveCheck, Enter,
           ReconcileTesting, BuildTracked, opVars
<1>3. CASE Sorted
  <2>1. /\ todo = {} /\ pc = "sort" /\ keep' = keep /\ built' = built
        /\ b' = [b EXCEPT !.current = keep] /\ pc' = IF keep = {} THEN "next" ELSE "save"
    BY <1>3 DEF Sorted
  <2>2. b'.current = keep
    BY <1>0, <2>1, RowFields
  <2>3. keep = IF built = NoSha THEN {} ELSE commits[built].ids
    BY <2>1 DEF BuildTracked
  <2>4. QED
    BY <1>0, <2>1, <2>2, <2>3 DEF BuildTracked
<1>4. CASE SaveTesting
  <2> DEFINE r == [b EXCEPT !.sha = built, !.state = "testing", !.late = FALSE,
                            !.builds = b.builds + 1]
  <2>1. /\ pc = "save" /\ pc' = "stamp" /\ b' = r /\ todo' = b.current
        /\ rows' = [rows EXCEPT ![bid] = r] /\ bid' = bid
    BY <1>4 DEF SaveTesting, Goto
  <2>2. built # NoSha /\ b.current = commits[built].ids
    BY <2>1 DEF BuildTracked
  <2>3. r.sha = built /\ r.current = b.current
    BY <1>0, RowFields
  <2>4. rows'[bid] = r
    BY <1>0, <2>1 DEF OneLive
  <2>5. QED
    BY <1>0, <2>1, <2>2, <2>3, <2>4 DEF BuildTracked
<1>5. CASE StampOne \/ AllStamped
  <2>1. /\ pc \in {"stamp", "restamp"} /\ pc' \in {pc, "clear"} /\ b' = b /\ bid' = bid
        /\ rows' = rows /\ todo' \subseteq todo /\ (pc = "restamp" => pc' = "restamp")
    BY <1>5 DEF StampOne, AllStamped, storeVars
  <2>2. QED
    BY <1>0, <2>1 DEF BuildTracked
<1>6. ASSUME NEW k \in BatchIds, ReconcileTesting(k)
      PROVE  BuildTracked'
  <2>1. /\ pc' = "restamp" /\ b' = rows[k] /\ todo' \subseteq rows[k].current
        /\ Testing(k) /\ commits' = commits
    BY <1>6 DEF ReconcileTesting, Enter, Testing, forgeVars
  <2>2. QED
    BY <2>1 DEF BuildTracked, TestingBuilt
<1>7. CASE pc' \notin {"sort", "save", "stamp", "clear", "restamp"}
  BY <1>7 DEF BuildTracked
<1>8. QED
  BY <1>1, <1>2, <1>3, <1>4, <1>5, <1>6, <1>7, OpFrame DEF EvaluatePass, Goto, SaveCheck, Enter

(* Check events keep saying what CI said of a commit merging their entry.  *)
LEMMA CallsPinnedStep ==
    ASSUME TypeOK, ShasBorn, RoutedToOwnBuild, TestingBuilt, CallsPinned, Next
    PROVE  CallsPinned'
<1> SUFFICES ASSUME NEW c \in calls'
             PROVE  /\ c.id \in commits'[c.sha].ids
                    /\ Reported(c.sha, c.ctx, c.state)'
  BY DEF CallsPinned
<1>1. ASSUME NEW s \in Shas, s <= last, c.sha = s, c.ctx \in Contexts,
             c.id \in commits[s].ids, Reported(s, c.ctx, c.state)
      PROVE  c.id \in commits'[c.sha].ids /\ Reported(c.sha, c.ctx, c.state)'
  BY <1>1, CommitStable, ForgeGrows DEF Shas, NoSha
<1>2. CASE c \in calls
  <2>1. c.sha \in Shas /\ c.ctx \in Contexts /\ c.sha <= last
    BY <1>2 DEF TypeOK, EngineTypeOK, Call, ShasBorn
  <2>2. c.id \in commits[c.sha].ids /\ Reported(c.sha, c.ctx, c.state)
    BY <1>2 DEF CallsPinned
  <2>3. QED
    BY <1>1, <2>1, <2>2
<1>3. ASSUME NEW s \in Shas, NEW x \in Contexts, NEW st \in ReportStates, Webhook(s, x, st),
             c \notin calls
      PROVE  c.id \in commits'[c.sha].ids /\ Reported(c.sha, c.ctx, c.state)'
  <2>1. PICK e \in FindEntryForCommit(s) :
             /\ entries[e].batch # NoBatch
             /\ calls' = calls \cup
                  {[by |-> "webhook", id |-> e, batch |-> entries[e].batch,
                    sha |-> s, ctx |-> x, state |-> st]}
    BY <1>3 DEF Webhook
  <2>2. c.id = e /\ c.sha = s /\ c.ctx = x /\ c.state = st
    BY <1>3, <2>1
  <2>3. e \in Existing /\ entries[e].sha = s /\ s # NoSha /\ e \in Ids
    BY IdsFinitePart DEF FindEntryForCommit, Shas, NoSha
  <2>4. e \in commits[s].ids /\ s <= last
    BY <2>3 DEF RoutedToOwnBuild, ShasBorn
  <2>5. Reported(s, x, st)
    BY <1>3 DEF Webhook
  <2>6. QED
    BY <1>1, <2>2, <2>4, <2>5
<1>4. ASSUME NEW k \in BatchIds, PollChecks(k), c \notin calls
      PROVE  c.id \in commits'[c.sha].ids /\ Reported(c.sha, c.ctx, c.state)'
  <2> DEFINE s == rows[k].sha
  <2>1. PICK x \in {d \in Contexts : reports[s][d] # <<>>} :
             c = [by |-> "poller", id |-> Least(rows[k].current), batch |-> k,
                  sha |-> s, ctx |-> x, state |-> reports[s][x][Len(reports[s][x])]]
    BY <1>4 DEF PollChecks
  <2>2. /\ c.id = Least(rows[k].current) /\ c.sha = s /\ c.ctx = x
        /\ c.state = reports[s][x][Len(reports[s][x])]
    BY <2>1
  <2>3. Testing(k) /\ rows[k].current # {}
    BY <1>4 DEF PollChecks, Testing
  <2>4. s # NoSha /\ rows[k].current \subseteq commits[s].ids /\ s <= last
    BY <2>3 DEF TestingBuilt, ShasBorn
  <2>5. s \in Shas
    BY <2>4, ShasNat, CommitStable
  <2>6. rows[k].current \in SUBSET Nat
    BY DEF TypeOK, StoreTypeOK, Row, Ids
  <2>7. c.id \in commits[s].ids
    BY <2>2, <2>3, <2>4, <2>6, LeastType
  <2>8. reports[s][x] \in Seq(ReportStates) /\ reports[s][x] # <<>>
    BY <2>5 DEF TypeOK, ForgeTypeOK
  <2>9. Reported(s, x, c.state)
    BY <2>2, <2>8 DEF Reported
  <2>10. QED
    BY <1>1, <2>2, <2>4, <2>5, <2>7, <2>9
<1>5. QED
  BY <1>2, <1>3, <1>4, CallsFrame


(* A ledger only ever gains the result a check event carries.              *)
LEMMA LedgerMoves ==
    ASSUME TypeOK, Next, NEW e \in Ids, NEW x \in Contexts, ledger'[e][x] # NoCheck
    PROVE  \/ ledger'[e][x] = ledger[e][x]
           \/ \E c \in calls : SaveCheck(c) /\ c.ctx = x /\ ledger'[e][x] = c.state
<1>0. ledger \in [Ids -> [Contexts -> ReportStates \cup {NoCheck}]]
  BY DEF TypeOK, StoreTypeOK
<1>1. CASE ledger' = ledger
  BY <1>1
<1>2. ASSUME NEW p, ledger' = LedgerDequeued(p)
      PROVE  ledger'[e][x] = ledger[e][x]
  BY <1>2 DEF LedgerDequeued, NoChecks
<1>3. ASSUME NEW ids, ledger' = LedgerCleared(ids)
      PROVE  ledger'[e][x] = ledger[e][x]
  BY <1>3 DEF LedgerCleared, NoChecks
<1>4. ASSUME NEW c \in calls, SaveCheck(c)
      PROVE  \/ ledger'[e][x] = ledger[e][x]
             \/ c.ctx = x /\ ledger'[e][x] = c.state
  <2>1. ledger' = [ledger EXCEPT ![c.id][c.ctx] = c.state]
    BY <1>4 DEF SaveCheck
  <2>2. QED
    BY <1>0, <2>1
<1>5. \/ ledger' = ledger
      \/ \E p : ledger' = LedgerDequeued(p)
      \/ \E ids : ledger' = LedgerCleared(ids)
      \/ \E c \in calls : SaveCheck(c)
  BY LedgerFrame DEF EjectOne, LandOne, ClearLedger, RemoveEntry
<1>6. QED
  BY <1>1, <1>2, <1>3, <1>4, <1>5

(* What is recorded for e still was reported on s, unless the step records *)
(* the result of another commit.                                           *)
LEMMA LedgerOfStable ==
    ASSUME TypeOK, CallsPinned, Next, NEW e \in Ids, NEW s \in Shas, LedgerOf(e, s),
           \A c \in calls : SaveCheck(c) => c.sha = s
    PROVE  LedgerOf(e, s)'
<1>1. ASSUME NEW x \in Contexts, NEW st, st = ledger'[e][x], st # NoCheck
      PROVE  Reported(s, x, st)'
  <2>1. CASE st = ledger[e][x]
    BY <1>1, <2>1, ForgeGrows DEF LedgerOf
  <2>2. ASSUME NEW c \in calls, SaveCheck(c), c.ctx = x, st = c.state
        PROVE  Reported(s, x, st)'
    <3>1. Reported(s, x, c.state)
      BY <2>2 DEF CallsPinned
    <3>2. QED
      BY <2>2, <3>1, ForgeGrows
  <2>3. QED
    BY <1>1, <2>1, <2>2, LedgerMoves
<1>2. QED
  BY <1>1 DEF LedgerOf, Reported

(* Outside the window, ledgers hold results of the build under test only.  *)
LEMMA LedgerPinnedStep ==
    ASSUME TypeOK, ShasBorn, OneLive, TestingBuilt, BuildTracked, CallsPinned,
           LedgerPinned, Next
    PROVE  LedgerPinned'
<1> SUFFICES ASSUME ~ dirty'
             PROVE  /\ \A k \in BatchIds :
                         Testing(k)' /\ ~ (bid' = k /\ pc' \in {"stamp", "clear"}) =>
                           \A e \in commits'[rows'[k].sha].ids : LedgerOf(e, rows[k].sha)'
                    /\ pc' = "eval" =>
                         b'.sha # NoSha /\ \A e \in todo' : LedgerOf(e, b.sha)'
  BY DEF LedgerPinned
<1>1. ~ dirty
  BY DirtyFrame
<1>2. \A c \in calls : SaveCheck(c) =>
         /\ c.batch \in BatchIds /\ Testing(c.batch) /\ rows[c.batch].sha = c.sha
         /\ c.id \in commits[c.sha].ids
         /\ pc = "idle" /\ b' = rows[c.batch] /\ todo' = {c.id} /\ pc' = "eval"
  BY DEF SaveCheck, Current, Enter, Testing, CallsPinned, TypeOK, EngineTypeOK, Call
<1>3. ASSUME NEW k \in BatchIds, Testing(k)', ~ (bid' = k /\ pc' \in {"stamp", "clear"}),
             NEW e \in commits'[rows'[k].sha].ids
      PROVE  LedgerOf(e, rows[k].sha)'
  <2>0. PICK s : s = rows[k].sha
    OBVIOUS
  <2>1. ~ (SaveTesting /\ k = bid)
    BY <1>3 DEF SaveTesting, Goto
  <2>2. Testing(k) /\ rows'[k].sha = s
    BY <1>3, <2>0, <2>1, RowMoves
  <2>3. s # NoSha /\ s \in Nat /\ s <= last
    BY <2>0, <2>2, ShasNat DEF TestingBuilt, ShasBorn
  <2>4. s \in Shas /\ commits'[s] = commits[s]
    BY <2>3, CommitStable
  <2>5. e \in commits[s].ids /\ e \in Ids
    BY <2>2, <2>4 DEF TypeOK, ForgeTypeOK, Commit
  <2>6. \A c \in calls : SaveCheck(c) => c.sha = s
    BY <1>2, <2>0, <2>2 DEF OneLive, Live, Testing
  <2>7. CASE ~ (bid = k /\ pc \in {"stamp", "clear"})
    <3>1. LedgerOf(e, s)
      BY <1>1, <2>0, <2>2, <2>5, <2>7 DEF LedgerPinned
    <3>2. LedgerOf(e, s)'
      BY <2>4, <2>5, <2>6, <3>1, LedgerOfStable
    <3>3. QED
      BY <2>2, <3>2 DEF LedgerOf, Reported
  <2>8. CASE bid = k /\ pc \in {"stamp", "clear"}
    <3>1. ClearLedger
      <4>1. ~ Abort /\ ~ Crash
        BY <2>8, DirtyFrame
      <4>2. CASE Operation
        BY <1>3, <2>8, <4>2 DEF Operation, Build, EjectOne, KeepOne, Sorted, SaveTesting,
           StampOne, AllStamped, EvaluatePass, EvaluateWait, EvaluateFail, FastForward,
           FastForwardRaced, FastForwardDenied, LandOne, Settle, Rebuild, NextSlice,
           Finish, ReconcileDone, ReconcileForming, ReconcileTesting
      <4>3. CASE EntryPoint
        BY <2>8, <4>3 DEF EntryPoint, FormBatch, RetryForming, HandleTimeout, DropCheck,
           SaveCheck, RemovedTooLate, RemovedPending, RemovedCurrent
      <4>4. CASE World \/ Environment \/ Fault
        BY <1>3, <2>8, <4>1, <4>4 DEF World, Environment, Fault, Enqueue, RemoveEntry,
           PromoteHead, Webhook, PollChecks, ClockPasses, AbortRemoval, opVars
      <4>5. QED
        BY <4>2, <4>3, <4>4 DEF Next
    <3>2. ledger' = LedgerCleared(b.current)
      BY <3>1 DEF ClearLedger
    <3>3. b.current = commits[b.sha].ids /\ rows[bid].sha = b.sha
      BY <2>8 DEF BuildTracked
    <3>4. e \in b.current
      BY <2>0, <2>5, <2>8, <3>3
    <3>5. ledger'[e] = NoChecks
      BY <2>5, <3>2, <3>4 DEF LedgerCleared
    <3>6. QED
      BY <3>5 DEF LedgerOf, NoChecks
  <2>9. QED
    BY <2>7, <2>8
<1>4. ASSUME pc' = "eval"
      PROVE  b'.sha # NoSha /\ \A e \in todo' : LedgerOf(e, b.sha)'
  <2>1. CASE opVars' = opVars
    <3>1. pc = "eval" /\ b' = b /\ todo' = todo
      BY <1>4, <2>1 DEF opVars
    <3>2. b.sha # NoSha /\ \A e \in todo : LedgerOf(e, b.sha)
      BY <1>1, <3>1 DEF LedgerPinned
    <3>3. b.sha \in Shas /\ todo \subseteq Ids
      BY <3>2, ShasNat, CommitStable DEF ShasBorn, TypeOK, EngineTypeOK, OpTypeOK
    <3>4. \A c \in calls : ~ SaveCheck(c)
      BY <3>1 DEF SaveCheck
    <3>5. PICK s : s = b.sha
      OBVIOUS
    <3>6. \A e \in todo : LedgerOf(e, s)'
      BY <3>2, <3>3, <3>4, <3>5, LedgerOfStable
    <3>7. QED
      BY <3>1, <3>2, <3>5, <3>6 DEF LedgerOf, Reported
  <2>2. ASSUME NEW c \in calls, SaveCheck(c)
        PROVE  b'.sha # NoSha /\ \A e \in todo' : LedgerOf(e, b.sha)'
    <3>1. /\ c.batch \in BatchIds /\ Testing(c.batch) /\ rows[c.batch].sha = c.sha
          /\ c.id \in commits[c.sha].ids
          /\ pc = "idle" /\ b' = rows[c.batch] /\ todo' = {c.id}
      BY <1>2, <2>2
    <3>2. LedgerOf(c.id, c.sha)
      BY <1>1, <3>1 DEF LedgerPinned
    <3>3. c.sha \in Shas /\ c.id \in Ids
      BY DEF TypeOK, EngineTypeOK, Call
    <3>4. \A d \in calls : SaveCheck(d) => d.sha = c.sha
      BY <1>2, <3>1 DEF OneLive, Live, Testing
    <3>5. LedgerOf(c.id, c.sha)'
      BY <3>2, <3>3, <3>4, LedgerOfStable
    <3>6. QED
      BY <3>1, <3>3, <3>5 DEF Shas, NoSha, LedgerOf, Reported
  <2>3. QED
    BY <1>4, <2>1, <2>2, OpFrame DEF Sorted, SaveTesting, Goto, StampOne, AllStamped,
       EvaluatePass, ReconcileTesting, Enter
<1>5. QED
  BY <1>3, <1>4

(* A ledger that evaluates to success proves its commit tested.            *)
LEMMA SuccessTested ==
    ASSUME TypeOK, NEW e \in Ids, NEW s \in Shas, LedgerOf(e, s),
           EvaluateChecks(ledger[e], Required) = "success"
    PROVE  Tested(s)
<1>1. ledger[e] \in [Contexts -> ReportStates \cup {NoCheck}]
  BY DEF TypeOK, StoreTypeOK
<1>2. DOMAIN ledger[e] = Contexts
  BY <1>1
<1>3. \A x \in Contexts : ledger[e][x] = "success" => Reported(s, x, "success")
  BY DEF LedgerOf, NoCheck
<1>4. CASE Required = {}
  <2>1. \E x \in Contexts : ledger[e][x] = "success"
    BY <1>2, <1>4 DEF EvaluateChecks
  <2>2. QED
    BY <1>3, <1>4, <2>1 DEF Tested
<1>5. CASE Required # {}
  <2>1. \A x \in Required : ledger[e][x] = "success"
    BY <1>2, <1>5 DEF EvaluateChecks
  <2>2. QED
    BY <1>3, <1>5, <2>1 DEF Tested
<1>6. QED
  BY <1>4, <1>5

(* A commit CI passed stays one CI passed.                                 *)
LEMMA TestedStable ==
    ASSUME TypeOK, Next, NEW s \in Shas, Tested(s)
    PROVE  Tested(s)'
BY ForgeGrows DEF Tested

(* An operation reaches HandlePass only with a commit CI passed.           *)
LEMMA PassEarnedStep ==
    ASSUME TypeOK, ShasBorn, LedgerPinned, PassEarned, Next
    PROVE  PassEarned'
<1> SUFFICES ASSUME pc' = "pass", ~ dirty'
             PROVE  b'.sha # NoSha /\ Tested(b.sha)'
  BY DEF PassEarned
<1>0. PICK s : s = b.sha
  OBVIOUS
<1>1. ~ dirty
  BY DirtyFrame
<1>2. s # NoSha => s \in Shas
  BY <1>0, ShasNat, CommitStable DEF ShasBorn
<1>3. CASE opVars' = opVars
  <2>1. pc = "pass" /\ b' = b
    BY <1>3 DEF opVars
  <2>2. s # NoSha /\ Tested(s)
    BY <1>0, <1>1, <2>1 DEF PassEarned
  <2>3. Tested(s)'
    BY <1>2, <2>2, TestedStable
  <2>4. QED
    BY <1>0, <2>1, <2>2, <2>3 DEF Tested, Reported
<1>4. CASE EvaluatePass
  <2>1. PICK e \in todo : EvaluateChecks(ledger[e], Required) = "success"
    BY <1>4 DEF EvaluatePass
  <2>2. b' = b /\ pc = "eval" /\ e \in Ids
    BY <1>4 DEF EvaluatePass, Goto, TypeOK, EngineTypeOK, OpTypeOK
  <2>3. s # NoSha /\ LedgerOf(e, s)
    BY <1>0, <1>1, <2>2 DEF LedgerPinned
  <2>4. Tested(s)'
    BY <1>2, <2>1, <2>2, <2>3, SuccessTested, TestedStable
  <2>5. QED
    BY <1>0, <2>2, <2>3, <2>4 DEF Tested, Reported
<1>5. QED
  BY <1>3, <1>4, OpFrame DEF Sorted, SaveTesting, Goto, StampOne, AllStamped, SaveCheck,
     Enter, ReconcileTesting

(* No step lands a commit CI has not passed, outside the window.           *)
LEMMA LandsStep ==
    ASSUME TypeOK, ShasBorn, PassEarned, LandsOnlyTestedOrDirty, Next
    PROVE  LandsOnlyTestedOrDirty'
<1> SUFFICES ASSUME ~ dirty', commits'[tip'].ids # {}
             PROVE  Tested(tip)'
  BY DEF LandsOnlyTestedOrDirty, LandsOnlyTested
<1>1. ~ dirty
  BY DirtyFrame
<1>2. CASE tip' = tip
  <2>1. commits'[tip] = commits[tip] /\ tip \in Shas
    BY ShasNat, CommitStable DEF ShasBorn
  <2>2. PICK s \in Shas : s = tip
    BY <2>1
  <2>3. Tested(s)
    BY <1>1, <1>2, <2>1, <2>2 DEF LandsOnlyTestedOrDirty, LandsOnlyTested
  <2>4. Tested(s)'
    BY <2>3, TestedStable
  <2>5. QED
    BY <1>2, <2>2, <2>4 DEF Tested, Reported
<1>3. CASE FastForward
  <2>1. tip' = b.sha /\ b.sha \in Shas /\ Tested(b.sha)
    BY <1>1, <1>3 DEF FastForward, CanFastForward, PassEarned
  <2>2. PICK s \in Shas : s = b.sha
    BY <2>1
  <2>3. Tested(s)'
    BY <2>1, <2>2, TestedStable
  <2>4. QED
    BY <2>1, <2>2, <2>3 DEF Tested, Reported
<1>4. CASE TargetPush
  <2>1. /\ tip' = last + 1 /\ last + 1 \in Shas
        /\ commits' = [commits EXCEPT ![last + 1] = [base |-> tip, ids |-> {}]]
    BY <1>4 DEF TargetPush, TypeOK, ForgeTypeOK, Shas
  <2>2. commits'[tip'].ids = {}
    BY <2>1 DEF TypeOK, ForgeTypeOK
  <2>3. QED
    BY <2>2
<1>5. QED
  BY <1>2, <1>3, <1>4, ForgeFrame DEF forgeVars, Build, CIReport

(***************************************************************************)
(* The theorems.                                                           *)
(***************************************************************************)

LEMMA InvInit == Init => IInv
<1> SUFFICES ASSUME Init PROVE IInv
  OBVIOUS
<1>1. TypeOK
  BY TypeInit
<1>2. Flatten(<<>>) = {}
  BY DEF Flatten
<1>3. Held(NoRow) = {}
  BY <1>2 DEF Held, NoRow
<1>4. /\ \A e \in Ids : entries[e] = NoEntry
      /\ \A k \in BatchIds : rows[k] = NoRow
      /\ b = NoRow /\ calls = {} /\ pc = "idle" /\ tip = 1 /\ last = 1
      /\ commits[1].ids = {} /\ Existing = {} /\ built = NoSha
  BY DEF Init, StoreInit, ForgeInit, Existing, NoEntry, Shas
<1>5. ShasBorn
  BY <1>4 DEF ShasBorn, NoEntry, NoRow, NoSha
<1>6. RowsOwned
  BY <1>3, <1>4 DEF RowsOwned
<1>7. OneLive /\ TestingBuilt
  BY <1>4 DEF OneLive, TestingBuilt, Live, Testing, NoRow
<1>8. LedgerPinned
  BY <1>4 DEF LedgerPinned, Testing, NoRow
<1>9. LandsOnlyTestedOrDirty
  BY <1>4 DEF LandsOnlyTestedOrDirty, LandsOnlyTested
<1>10. QED
  BY <1>1, <1>4, <1>5, <1>6, <1>7, <1>8, <1>9 DEF IInv, OneEntryPerPR, LoopHeld,
     RestampHeld, RoutedToOwnBuild, BuildTracked, CallsPinned, PassEarned

(* The invariant is inductive.                                             *)
LEMMA InvStep == IInv /\ [Next]_vars => IInv'
<1>1. ASSUME IInv, Next
      PROVE  IInv'
  BY <1>1, TypeStep, ShasBornStep, RowsOwnedStep, OneEntryPerPRStep, LoopHeldStep,
     RestampHeldStep, RoutedStep, OneLiveStep, TestingBuiltStep, BuildTrackedStep,
     CallsPinnedStep, LedgerPinnedStep, PassEarnedStep, LandsStep DEF IInv
<1>2. ASSUME IInv, UNCHANGED vars
      PROVE  IInv'
  <2> USE <1>2 DEF vars, forgeVars, storeVars, opVars
  <2>1. TypeOK'
    BY TypeStep DEF IInv
  <2>2. ShasBorn'
    BY DEF IInv, ShasBorn
  <2>3. RowsOwned' /\ OneEntryPerPR'
    BY DEF IInv, RowsOwned, Held, Flatten, Owned, OneEntryPerPR, Existing
  <2>4. LoopHeld' /\ RestampHeld'
    BY DEF IInv, LoopHeld, RestampHeld, Owned, Existing
  <2>5. RoutedToOwnBuild' /\ OneLive'
    BY DEF IInv, RoutedToOwnBuild, Existing, OneLive, Live
  <2>6. TestingBuilt' /\ BuildTracked'
    BY DEF IInv, TestingBuilt, Testing, BuildTracked
  <2>7. CallsPinned' /\ LedgerPinned'
    BY DEF IInv, CallsPinned, Reported, LedgerPinned, LedgerOf, Testing
  <2>8. PassEarned' /\ LandsOnlyTestedOrDirty'
    BY DEF IInv, PassEarned, Tested, Reported, LandsOnlyTestedOrDirty, LandsOnlyTested
  <2>9. QED
    BY <2>1, <2>2, <2>3, <2>4, <2>5, <2>6, <2>7, <2>8 DEF IInv
<1>3. QED
  BY <1>1, <1>2

(* IInv holds in every reachable state.                                    *)
THEOREM Invariant == Spec => []IInv
BY InvInit, InvStep, PTL DEF Spec

(* Unless a fault hits the window in Build, a batch commit reaches the     *)
(* target branch only if CI passed on that very commit.                    *)
THEOREM LandsTested == Spec => []LandsOnlyTestedOrDirty
<1>1. IInv => LandsOnlyTestedOrDirty
  BY DEF IInv
<1>2. QED
  BY <1>1, Invariant, PTL

(* Whatever faults happen, an entry carries the commit of a build that     *)
(* merged it.                                                              *)
THEOREM RoutedCorrectly == Spec => []RoutedToOwnBuild
<1>1. IInv => RoutedToOwnBuild
  BY DEF IInv
<1>2. QED
  BY <1>1, Invariant, PTL

(* A red verdict on a ledger of commit s proves that CI reported red on s. *)
LEMMA FailureRed ==
    ASSUME TypeOK, NEW e \in Ids, NEW s, LedgerOf(e, s),
           EvaluateChecks(ledger[e], Required) = "failure"
    PROVE  WentRed(s)
<1>1. DOMAIN ledger[e] = Contexts
  BY DEF TypeOK, StoreTypeOK
<1>2. \E x \in Contexts : ledger[e][x] \in Red
  BY <1>1 DEF EvaluateChecks
<1>3. QED
  BY <1>2 DEF LedgerOf, WentRed, Red, NoCheck

(* A failing build stays the build it is until it is split.                *)
LEMMA SameBuildFails ==
  ASSUME NEW w, NEW k, NEW r \in Row, HandleFail(w, k, r)
  PROVE  b'.late = r.late /\ b'.sha = r.sha
<1>1. ASSUME NEW P, NEW C, b' = [r EXCEPT !.pending = P, !.current = C]
      PROVE  b'.late = r.late /\ b'.sha = r.sha
  BY <1>1 DEF Row
<1>2. ASSUME NEW P, b' = [r EXCEPT !.pending = P]
      PROVE  b'.late = r.late /\ b'.sha = r.sha
  BY <1>2 DEF Row
<1>3. \/ b' = r
      \/ \E P : b' = [r EXCEPT !.pending = P]
      \/ \E P, C : b' = [r EXCEPT !.pending = P, !.current = C]
  <2> DEFINE right == r.current \ FirstHalf(r.current)
  <2>1. \/ b' = IF Cardinality(r.current) = 1 THEN r ELSE [r EXCEPT !.pending = <<>>]
        \/ b' = [r EXCEPT !.pending = Append(r.pending, right),
                          !.current = FirstHalf(r.current)]
    BY DEF HandleFail
  <2>2. CASE b' = IF Cardinality(r.current) = 1 THEN r ELSE [r EXCEPT !.pending = <<>>]
    BY <2>2, Zenon
  <2>3. CASE b' = [r EXCEPT !.pending = Append(r.pending, right),
                            !.current = FirstHalf(r.current)]
    BY <2>3, Zenon
  <2>4. QED
    BY <2>1, <2>2, <2>3, Zenon
<1>4. QED
  BY <1>1, <1>2, <1>3, Zenon

(* A build is bisected or its last member ejected only after CI reported a *)
(* failure on that very commit, or after it timed out itself.              *)
THEOREM RejectsRed == Spec => RejectsOnlyRed
<1>1. ASSUME IInv, Next, pc = "eval", pc' \in {"sort", "rebuild"}, ~ dirty
      PROVE  b'.late \/ WentRed(b'.sha)
  <2>1. EvaluateFail
    <3>1. CASE Operation
      BY <1>1, <3>1 DEF Operation, Release, Build, EjectOne, KeepOne, Sorted, SaveTesting,
         StampOne, AllStamped, ClearLedger, EvaluatePass, Goto, EvaluateWait, FastForward,
         FastForwardRaced, FastForwardDenied, LandOne, Settle, Rebuild, NextSlice, Finish,
         ReconcileDone, ReconcileForming, ReconcileTesting
    <3>2. CASE EntryPoint
      BY <1>1, <3>2 DEF EntryPoint, FormBatch, RetryForming, HandleTimeout, DropCheck,
         SaveCheck, RemovedTooLate, RemovedPending, RemovedCurrent
    <3>3. CASE World \/ Environment \/ Fault
      BY <1>1, <3>3 DEF World, Environment, Fault, Release, Enqueue, RemoveEntry,
         PromoteHead, Webhook, PollChecks, ClockPasses, Abort, AbortRemoval, Crash, opVars
    <3>4. QED
      BY <1>1, <3>1, <3>2, <3>3 DEF Next
  <2>2. PICK e \in todo :
             LET v == EvaluateChecks(ledger[e], Required)
             IN  v = "failure" \/ (v = "waiting" /\ b.late)
    BY <2>1 DEF EvaluateFail
  <2>3. e \in Ids /\ LedgerOf(e, b.sha)
    BY <1>1 DEF IInv, LedgerPinned, TypeOK, EngineTypeOK, OpTypeOK
  <2>4. b.late \/ WentRed(b.sha)
    BY <1>1, <2>2, <2>3, FailureRed DEF IInv
  <2>5. b'.late = b.late /\ b'.sha = b.sha
    BY <1>1, <2>1, SameBuildFails DEF EvaluateFail, IInv, TypeOK, EngineTypeOK, OpTypeOK
  <2>6. QED
    BY <2>4, <2>5
<1>2. ASSUME IInv, Next, pc = "idle", pc' \in {"sort", "rebuild"}, removing' = removing
      PROVE  b'.late
  <2>1. PICK k \in BatchIds : HandleTimeout(k)
    <3>1. ~ Operation
      BY <1>2 DEF Operation, Build, EjectOne, KeepOne, Sorted, SaveTesting,
         StampOne, AllStamped, ClearLedger, EvaluatePass, EvaluateWait, EvaluateFail,
         FastForward, FastForwardRaced, FastForwardDenied, LandOne, Settle, Rebuild,
         NextSlice, Finish, ReconcileDone, ReconcileForming, ReconcileTesting
    <3>2. CASE EntryPoint
      <4>1. ~ RemovedCurrent /\ ~ RemovedTooLate /\ ~ RemovedPending
        BY <1>2 DEF RemovedCurrent, RemovedTooLate, RemovedPending
      <4>2. ASSUME NEW k \in BatchIds PROVE ~ FormBatch(k) /\ ~ RetryForming(k)
        BY <1>2 DEF FormBatch, RetryForming, Enter
      <4>3. ASSUME NEW c \in calls PROVE ~ DropCheck(c) /\ ~ SaveCheck(c)
        BY <1>2 DEF DropCheck, SaveCheck, Enter, opVars
      <4>4. QED
        BY <3>2, <4>1, <4>2, <4>3, Zenon DEF EntryPoint
    <3>3. CASE World \/ Environment \/ Fault
      BY <1>2, <3>3 DEF World, Environment, Fault, Release, Enqueue, RemoveEntry,
         PromoteHead, Webhook, PollChecks, ClockPasses, Abort, AbortRemoval, Crash, opVars
    <3>4. QED
      BY <1>2, <3>1, <3>2, <3>3 DEF Next
  <2>2. QED
    BY <2>1, <1>2, SameBuildFails DEF HandleTimeout, IInv, TypeOK, StoreTypeOK
<1>3. IInv /\ [Next]_vars =>
        [ (/\ pc \in {"idle", "eval"} /\ pc' \in {"sort", "rebuild"}
           /\ removing' = removing /\ ~ dirty)
              => b'.late \/ WentRed(b'.sha) ]_vars
  BY <1>1, <1>2, Zenon
<1>4. QED
  BY <1>3, Invariant, PTL DEF Spec, RejectsOnlyRed

=============================================================================
