----------------------------- MODULE QueueStore ------------------------------
(***************************************************************************)
(* The database: the queue_entries, check_statuses and batches tables of   *)
(* one repository and target branch, and the statements the program runs   *)
(* on them (src/internal/queue, src/internal/store/pg).  Every operator    *)
(* here is one statement or one transaction, hence one atomic step.        *)
(*                                                                         *)
(* Entry ids are handed out in enqueue order, so a FIFO slice of ids is    *)
(* determined by its set of ids and is represented by that set; the head   *)
(* of a slice is its least id.  A deleted entry keeps its PR number, which *)
(* is what a snapshot of the row taken earlier still carries.              *)
(***************************************************************************)
EXTENDS Forge

CONSTANTS
    PRs,            \* pull request numbers
    MaxBatches,     \* bound: batch rows ever created
    BatchMax        \* GITEA_MQ_BATCH_MAX; 0 takes everything queued

ASSUME StoreAssumption ==
    /\ PRs \subseteq Nat \ {0}
    /\ MaxBatches \in Nat \ {0}
    /\ BatchMax \in Nat \ {1}     \* 1 turns batching off

BatchIds == 1 .. MaxBatches
NoBatch  == 0
NoPR     == 0

VARIABLES
    entries,   \* queue_entries by id
    ledger,    \* check_statuses by entry id and context
    rows       \* batches by id

storeVars == <<entries, ledger, rows>>

Entry == [state : {"absent", "queued", "testing", "success"},
          pr    : PRs \cup {NoPR},
          batch : 0 .. MaxBatches,     \* active_batch_id
          sha   : 0 .. MaxCommits]     \* merge_branch_sha

Row == [state   : {"none", "forming", "testing", "done"},
        members : SUBSET Ids,
        current : SUBSET Ids,
        pending : Seq(SUBSET Ids),     \* the bisection stack, top last
        landed  : SUBSET Ids,
        ejected : SUBSET Ids,
        sha     : 0 .. MaxCommits,
        builds  : Nat,
        ff      : Nat,
        late    : BOOLEAN]             \* testing_started_at is too long ago

NoEntry == [state |-> "absent", pr |-> NoPR, batch |-> NoBatch, sha |-> NoSha]

NoRow == [state |-> "none", members |-> {}, current |-> {}, pending |-> <<>>,
          landed |-> {}, ejected |-> {}, sha |-> NoSha, builds |-> 0, ff |-> 0,
          late |-> FALSE]

NoChecks == [c \in Contexts |-> NoCheck]

StoreTypeOK ==
    /\ entries \in [Ids -> Entry]
    /\ ledger \in [Ids -> [Contexts -> ReportStates \cup {NoCheck}]]
    /\ rows \in [BatchIds -> Row]

StoreInit ==
    /\ entries = [e \in Ids |-> NoEntry]
    /\ ledger = [e \in Ids |-> NoChecks]
    /\ rows = [k \in BatchIds |-> NoRow]

(* --- Reads ------------------------------------------------------------- *)

Existing == {e \in Ids : entries[e].state # "absent"}

Least(S) == CHOOSE x \in S : \A y \in S : x <= y

(* GetQueueEntry: the PR has a row (UNIQUE repo_id, pr_number).            *)
InQueue(p) == \E e \in Existing : entries[e].pr = p

(* GetLiveBatch: the row ux_batches_live admits at most one of.            *)
Live(k) == rows[k].state \in {"forming", "testing"}

(* TakeQueuedHead: the first BatchMax queued entries in FIFO order.        *)
TakeQueuedHead ==
    LET queued == {e \in Ids : entries[e].state = "queued"}
    IN  IF BatchMax = 0 THEN queued
        ELSE {e \in queued :
                Cardinality({f \in queued : f < e}) < BatchMax}

(* --- Writes, as the new value of the table ------------------------------ *)

(* EnqueuePR for a PR without a row.                                       *)
Enqueued(p, e) ==
    [entries EXCEPT ![e] = [NoEntry EXCEPT !.state = "queued", !.pr = p]]

(* DequeuePR deletes whatever row the PR has now ...                       *)
Dequeued(p) ==
    [e \in Ids |-> IF entries[e].pr = p
                   THEN [NoEntry EXCEPT !.pr = p]
                   ELSE entries[e]]

(* ... and ON DELETE CASCADE its check statuses.                           *)
LedgerDequeued(p) ==
    [e \in Ids |-> IF entries[e].pr = p THEN NoChecks ELSE ledger[e]]

(* SetMergeBranch, keyed by PR number like DequeuePR.                      *)
Stamped(p, s) ==
    [e \in Ids |-> IF e \in Existing /\ entries[e].pr = p
                   THEN [entries[e] EXCEPT !.sha = s]
                   ELSE entries[e]]

(* Negative control: ClearMergeBranch is forgotten.                        *)
RoutingKept(ids) == entries

(* ClearMergeBranch, keyed by entry id.                                    *)
Unrouted(ids) ==
    [e \in Ids |-> IF e \in ids
                   THEN [entries[e] EXCEPT !.sha = NoSha]
                   ELSE entries[e]]

(* Negative controls: ClearCheckStatuses is forgotten; it resets the rows  *)
(* to a state CI never posts instead of deleting them.                     *)
LedgerKept(ids) == ledger

LedgerReset(ids) ==
    [e \in Ids |-> IF e \in ids THEN [c \in Contexts |-> "reset"] ELSE ledger[e]]

(* ClearCheckStatuses deletes the rows.                                    *)
LedgerCleared(ids) ==
    [e \in Ids |-> IF e \in ids THEN NoChecks ELSE ledger[e]]

(* SetEntryActiveBatch, in FormBatch's transaction.                        *)
Batched(ids, k) ==
    [e \in Ids |-> IF e \in ids
                   THEN [entries[e] EXCEPT !.state = "testing", !.batch = k]
                   ELSE entries[e]]

(* CreateBatch.                                                            *)
NewRow(ids) ==
    [NoRow EXCEPT !.state = "forming", !.members = ids, !.current = ids]

(* A stack without its i-th slice.                                         *)
Cut(stack, i) == SubSeq(stack, 1, i - 1) \o SubSeq(stack, i + 1, Len(stack))

(* Negative control: the whole slice goes with the member.                 *)
DropSlice(stack, e) == SelectSeq(stack, LAMBDA slice : e \notin slice)

(* pendingStack.drop: remove the id everywhere, then slices left empty.    *)
(* Slices are disjoint, so at most one becomes empty.                      *)
Drop(stack, e) ==
    IF \E i \in 1 .. Len(stack) : stack[i] = {e}
    THEN Cut(stack, CHOOSE i \in 1 .. Len(stack) : stack[i] = {e})
    ELSE [i \in 1 .. Len(stack) |-> stack[i] \ {e}]

(* All ids of a stack.                                                     *)
Flatten(stack) == UNION {stack[i] : i \in 1 .. Len(stack)}

=============================================================================
