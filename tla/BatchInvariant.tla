--------------------------- MODULE BatchInvariant ---------------------------
(***************************************************************************)
(* The inductive invariant behind LandsOnlyTestedOrDirty, RejectsOnlyRed   *)
(* and RoutedToOwnBuild, as a conjunction of named parts.  TLC checks it   *)
(* as an invariant; BatchSafetyProofs proves that it is inductive.         *)
(***************************************************************************)
EXTENDS BatchEngine

Testing(k) == rows[k].state = "testing"

(* Every commit that is named anywhere exists; what it merges is fixed.    *)
ShasBorn ==
    /\ tip <= last /\ built <= last /\ b.sha <= last
    /\ \A e \in Ids : entries[e].sha <= last
    /\ \A k \in BatchIds : rows[k].sha <= last
    /\ \A c \in calls : c.sha <= last

(* Entry x was queued once and is in a batch for as long as it exists.     *)
Owned(x) ==
    /\ entries[x].pr # NoPR
    /\ entries[x].state # "absent" => entries[x].batch # NoBatch

(* The entries that batch row r still has to process.                      *)
Held(r) == r.current \cup Flatten(r.pending)

(* They are the batch's own, in the database and in the copy of the        *)
(* operation under way.                                                    *)
RowsOwned ==
    /\ \A x \in Held(b) : Owned(x)
    /\ \A k \in BatchIds : \A x \in Held(rows[k]) : Owned(x)

(* UNIQUE (repo_id, pr_number).                                            *)
OneEntryPerPR ==
    /\ \A e \in Existing : entries[e].pr # NoPR
    /\ \A e, f \in Existing : entries[e].pr = entries[f].pr => e = f

(* While a build is under way, a member that is gone was deleted by the    *)
(* poller, which waits to report it and so cannot enqueue the PR again.    *)
LoopHeld ==
    pc \in {"sort", "save", "stamp"} =>
      /\ todo \cap keep = {}
      /\ \A x \in todo \cup keep :
           /\ Owned(x)
           /\ x \notin Existing =>
                /\ removing # NoRemoval
                /\ \A f \in Existing : entries[f].pr # entries[x].pr

(* At start-up nobody but ReconcileLive runs.                              *)
RestampHeld ==
    pc = "restamp" =>
        by = "boot" /\ \A x \in todo : x \in Existing /\ Owned(x)

(* At most one batch is live, and the operation works on a live one.       *)
OneLive ==
    /\ \A j, k \in BatchIds : Live(j) /\ Live(k) => j = k
    /\ pc \notin {"idle", "boot"} => bid \in BatchIds /\ Live(bid)

(* The row of a testing batch names a commit that merges its current       *)
(* members.                                                                *)
TestingBuilt ==
    \A k \in BatchIds : Testing(k) =>
        rows[k].sha # NoSha /\ rows[k].current \subseteq commits[rows[k].sha].ids

(* What the loop keeps and will keep is what stack() merged.               *)
BuildTracked ==
    /\ pc = "sort" =>
         keep \cup (todo \ out) =
             IF built = NoSha THEN {} ELSE commits[built].ids
    /\ pc = "save" => built # NoSha /\ b.current = commits[built].ids
                                    /\ keep = b.current
    /\ pc \in {"stamp", "clear"} =>
         /\ b.sha # NoSha /\ b.current = commits[b.sha].ids
         /\ rows[bid].sha = b.sha
    /\ pc \in {"stamp", "restamp"} =>
         b.sha # NoSha /\ todo \subseteq commits[b.sha].ids

(* A check event carries what CI said about a commit that merges its entry.*)
CallsPinned ==
    \A c \in calls :
        /\ c.id \in commits[c.sha].ids
        /\ Reported(c.sha, c.ctx, c.state)

(* All that is recorded for entry e was reported on commit s.              *)
LedgerOf(e, s) ==
    \A c \in Contexts : ledger[e][c] # NoCheck => Reported(s, c, ledger[e][c])

(* The ledgers of the members of the build under test, once it is routed,  *)
(* and the one under evaluation.                                           *)
LedgerPinned ==
    ~ dirty =>
      /\ \A k \in BatchIds :
           Testing(k) /\ ~ (bid = k /\ pc \in {"stamp", "clear"}) =>
             \A e \in commits[rows[k].sha].ids : LedgerOf(e, rows[k].sha)
      /\ pc = "eval" => b.sha # NoSha /\ \A e \in todo : LedgerOf(e, b.sha)

(* A commit about to be pushed has passed.                                 *)
PassEarned == pc = "pass" /\ ~ dirty => b.sha # NoSha /\ Tested(b.sha)

IInv ==
    /\ TypeOK
    /\ ShasBorn
    /\ RowsOwned
    /\ OneEntryPerPR
    /\ LoopHeld
    /\ RestampHeld
    /\ RoutedToOwnBuild
    /\ OneLive
    /\ TestingBuilt
    /\ BuildTracked
    /\ CallsPinned
    /\ LedgerPinned
    /\ PassEarned
    /\ LandsOnlyTestedOrDirty

=============================================================================
