--------------------------- MODULE BatchRefinement ---------------------------
(***************************************************************************)
(* BatchEngine implements MergeQueue.  The abstract state is read off the  *)
(* database and the forge: an entry waits while it has a row, is leaving   *)
(* between the poller's delete and OnMemberRemoved, and has landed once it *)
(* is in the history of the target branch.                                 *)
(***************************************************************************)
EXTENDS BatchInvariant

(* Sets of commits that hold the base of each of their members.            *)
Closed(H) == \A s \in H : commits[s].base # NoSha => commits[s].base \in H

(* The history of the target, its tip included: what is in all such sets.  *)
History ==
    {s \in Shas : \A H \in SUBSET Shas : tip \in H /\ Closed(H) => s \in H}

Landed == UNION {commits[s].ids : s \in History}

(* What CI passed on top of the present tip.                               *)
PassedOnTip == {commits[s].ids : s \in {r \in Builds : commits[r].base = tip
                                                       /\ Tested(r)}}

Leaving == {removing.id} \ {NoRemoval.id}

MQ == INSTANCE MergeQueue WITH
        Entries <- Ids,
        waiting <- Existing,
        leaving <- Leaving,
        landed  <- Landed,
        passed  <- PassedOnTip

(* The engine lands only groups that are queued, whole, new to the target  *)
(* and tested on the very target they land on, however its callers, CI and *)
(* other pushes interleave: every step of it is one of MergeQueue's or     *)
(* changes nothing MergeQueue sees (FormAndBuild, HandleCheck, HandlePass, *)
(* HandleFail, OnMemberRemoved and the poller).                            *)
ImplementsMergeQueue == MQ!Spec

(***************************************************************************)
(* The invariants behind it, and behind the properties of bisection.       *)
(* BatchQueueProofs proves them inductive; the runs check what follows     *)
(* from them.                                                              *)
(***************************************************************************)

(* --- whatever faults happen ---------------------------------------------- *)

Before(S, T) == \A e \in S, f \in T : e < f

(* The slices are in FIFO order, the top of the stack first.               *)
StackOrdered(stack) ==
    \A i \in 1 .. Len(stack) :
        /\ stack[i] # {}
        /\ \A j \in i + 1 .. Len(stack) : Before(stack[j], stack[i])

Ordered(r) ==
    /\ Before(r.landed, r.current \cup Flatten(r.pending))
    /\ Before(r.current, Flatten(r.pending))
    /\ StackOrdered(r.pending)

(* Row r and the copy c of it name the same build and members.             *)
SameBuild(r, c) ==
    r.sha = c.sha /\ r.current = c.current /\ r.pending = c.pending

(* The rows and the copy are in order, what is in test has members, and    *)
(* the row says what they are.                                             *)
OrderInv ==
    /\ Ordered(b) /\ \A k \in BatchIds : Ordered(rows[k])
    /\ pc = "sort" => /\ keep \cup (todo \ out) \subseteq b.current
                      /\ todo \subseteq b.current \/ b.pending = <<>>
    /\ pc \in {"save", "eval", "pass"} => b.current # {}
    /\ pc \in {"stamp", "restamp", "land"} => todo \subseteq b.current
    /\ pc \in {"eval", "pass", "stamp", "clear", "restamp"} =>
         Testing(bid) /\ SameBuild(rows[bid], b)
    /\ \A k \in BatchIds : Testing(k) =>
         /\ rows[k].current # {}
         /\ rows[k].current = commits[rows[k].sha].ids

(* --- when ClearMergeBranch does not fail ---------------------------------- *)

Unreached(stack) == \A e \in Flatten(stack) \cap Existing : entries[e].sha = NoSha

UnroutedInv ==
    /\ PendingUnrouted
    /\ pc \notin {"idle", "boot"} => Unreached(b.pending)

(* --- when SetMergeBranch does not fail ------------------------------------ *)

(* While a build is put together nothing names its commit yet.             *)
BuiltUnknown ==
    pc \in {"sort", "save"} /\ built # NoSha =>
        /\ \A e \in Ids : entries[e].sha # built
        /\ \A k \in BatchIds : rows[k].sha # built
        /\ \A c \in calls : c.sha # built

(* Commits are routed to the members of a build from the head on, and what *)
(* is recorded of a build is recorded on its head.                         *)
HeadInv ==
    /\ BuiltUnknown
    /\ \A k \in BatchIds : Testing(k) =>
         \A e, f \in rows[k].current \cap Existing :
            f < e /\ entries[e].sha = rows[k].sha => entries[f].sha = rows[k].sha
    /\ pc \in {"stamp", "restamp"} =>
         \A f \in (b.current \ todo) \cap Existing : entries[f].sha = b.sha
    /\ \A c \in calls :
         Testing(c.batch) /\ rows[c.batch].sha = c.sha /\ c.id \in Existing =>
             /\ c.id \in rows[c.batch].current
             /\ \A f \in rows[c.batch].current \cap Existing : c.id <= f

(* --- when DequeuePR does not fail ------------------------------------------ *)

(* The entries the operation under way will still see to.                  *)
Wanted ==
    Flatten(b.pending) \cup
        (CASE pc = "sort" -> todo \cup keep
           [] pc = "land" -> todo
           [] pc = "next" -> {}
           [] OTHER       -> b.current)

(* An entry the poller has deleted is gone, and its PR is not back yet.    *)
RemovalQuiet ==
    removing # NoRemoval =>
        /\ removing.id \notin Existing /\ entries[removing.id].pr # NoPR
        /\ \A f \in Existing : entries[f].pr # entries[removing.id].pr

TrackedInv ==
    /\ MembersTracked
    /\ RemovalQuiet
    /\ pc \notin {"idle", "boot"} =>
         \A e \in Existing : entries[e].batch = bid => e \in Wanted

(* --- when besides no operation is cut off ----------------------------------- *)

(* What a batch still has to process is queued, or the poller is about to  *)
(* report that it is not, and none of it has landed.                       *)
LandingInv ==
    /\ pc \notin {"boot", "restamp"} /\ ~ dirty
    /\ \A k \in BatchIds : Live(k) =>
         /\ removing # NoRemoval => removing.batch = k
         /\ pc = "idle" => /\ Held(rows[k]) \subseteq Existing \cup {removing.id}
                           /\ Held(rows[k]) \cap Landed = {}
    /\ pc # "idle" => /\ Wanted \subseteq Existing \cup {removing.id}
                      /\ Flatten(b.pending) \cap Landed = {}
                      /\ pc # "land" => Wanted \cap Landed = {}
    /\ Existing \cap Landed \subseteq IF pc = "land" THEN todo ELSE {}
    /\ \A e \in Landed : entries[e].pr # NoPR

(* A commit is built on something the target has had, and CI has said      *)
(* nothing about commits that do not exist.                                *)
ForgeInv ==
    /\ \A s \in Shas : commits[s].base \in History \cup {NoSha}
    /\ \A s \in Shas, c \in Contexts : s > last => reports[s][c] = <<>>
    /\ \A s \in Shas : s > last => commits[s].ids = {}
    /\ History \subseteq 1 .. last

=============================================================================
