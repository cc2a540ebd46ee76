--------------------------- MODULE SingleInvariant ---------------------------
(***************************************************************************)
(* The inductive invariant of SingleQueue, part by part.                   *)
(***************************************************************************)
EXTENDS SingleQueue

(* Ids are given out in order, and once: an id not given out yet has the   *)
(* row of no PR, and so have all later ones.                               *)
IdsInOrder ==
    \A e \in Ids : entries[e].pr = NoPR =>
        /\ entries[e] = NoEntry
        /\ \A f \in Ids : e <= f => entries[f].pr = NoPR

(* UNIQUE (repo_id, pr_number).                                            *)
OneEntryPerPR ==
    \A e, f \in Existing : entries[e].pr = entries[f].pr => e = f

(* What the poller's loops over entries visit; results are fetched only in *)
(* the last of them.                                                       *)
VisitsEntries ==
    /\ ppc # "check" => fetched = {}
    /\ ppc \in {"reconcile", "check"} => visit \subseteq Ids
    /\ ppc = "check" => \A e \in visit \cap Existing : entries[e].sha # NoSha

(* While StartTesting runs nothing is enqueued, so the entry it has merged *)
(* either is gone or still is the head and its PR's only entry.            *)
HeadHeld ==
    ppc \in {"stamp", "mark"} =>
        /\ head \in Ids /\ entries[head].pr # NoPR
        /\ built \in Builds /\ head \in commits[built].ids
        /\ \A e \in Existing :
              /\ head <= e
              /\ entries[e].pr = entries[head].pr => e = head

(* The merge commit of an entry is a build of that entry.                  *)
RoutedToBuild ==
    \A e \in Ids : entries[e].sha # NoSha =>
        entries[e].sha \in Builds /\ e \in commits[entries[e].sha].ids

(* A result on its way was reported on a build of the entry it is for.     *)
FetchedPinned ==
    \A f \in fetched :
        /\ f.sha \in Builds /\ f.id \in commits[f.sha].ids
        /\ Reported(f.sha, f.ctx, f.state)

ThreadsPinned ==
    \A t \in Threads : ~ At(t, "idle") =>
        /\ threads[t].sha \in Builds /\ threads[t].id \in commits[threads[t].sha].ids
        /\ At(t, "save") => /\ threads[t].ctx \in Contexts
                            /\ threads[t].state \in ReportStates
                            /\ Reported(threads[t].sha, threads[t].ctx, threads[t].state)

(* So was every recorded result, though not all on one build if            *)
(* StartTesting began with the entry twice.                                *)
LedgerEarned ==
    \A e \in Ids, c \in Contexts : ledger[e][c] # NoCheck =>
        \E s \in Builds : e \in commits[s].ids /\ Reported(s, c, ledger[e][c])

(* A verdict "success" was earned by the commit in the snapshot.           *)
VerdictEarned ==
    \A t \in Threads :
        (threads[t].pc \in {"status", "update", "advance"}
           /\ threads[t].verdict = "success")
        => Tested(threads[t].sha) \/ BuiltAgain(threads[t].id)

(* Without webhook handlers the poller alone removes entries: what it      *)
(* visits, fetched results for and evaluates is the head until it is gone, *)
(* and while it evaluates it, it is there.                                 *)
HeadOrGone(e) == e \in Existing => \A f \in Existing : e <= f

PollerAlone ==
    Handlers = {} =>
        /\ ~ At(Poller, "idle") => ppc = "check" /\ HeadOrGone(threads[Poller].id)
        /\ threads[Poller].pc \in {"eval", "status", "update", "advance"} =>
              threads[Poller].id \in Existing
        /\ ppc = "check" => /\ \A e \in visit : HeadOrGone(e)
                            /\ \A f \in fetched : HeadOrGone(f.id)

(* Nothing is in test but the head; TestsHeadOnly says it with Least.      *)
TestingLeads ==
    \A e \in Existing : entries[e].state = "testing" => \A f \in Existing : e <= f

SingleInv ==
    /\ SingleTypeOK
    /\ IdsInOrder
    /\ OneEntryPerPR
    /\ VisitsEntries
    /\ RoutedToBuild
    /\ HeadHeld
    /\ FetchedPinned
    /\ ThreadsPinned
    /\ LedgerEarned
    /\ VerdictEarned
    /\ TestingLeads
    /\ PollerAlone

=============================================================================
