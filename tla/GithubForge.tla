----------------------------- MODULE GithubForge ------------------------------
(***************************************************************************)
(* A batch built and landed on GitHub, request by request: the adapter     *)
(* src/internal/github/forge.go under the engine's stack(), HandlePass and *)
(* ensureMergedOrClose (src/internal/batch/batch.go), while people push,   *)
(* merge and close, the poller enqueues, requests or their answers are     *)
(* lost and the process crashes.  BatchEngine has what happens to the      *)
(* tables meanwhile; here a batch is its row and one step of bisection.    *)
(***************************************************************************)
EXTENDS GitHub, FiniteSetsExt

CONSTANTS
    MaxEvents,      \* bound: what people do
    MaxFaults       \* bound: lost requests and answers, crashes

ASSUME ForgeAssumption == MaxEvents \in Nat /\ MaxFaults \in Nat

VARIABLES
    queued,     \* pull requests with an entry in the queue
    row,        \* the live batch; in current and pending, who still has an entry
    eng,        \* the operation under the engine's mutex
    closing,    \* pull requests whose ensureMergedOrClose runs
    events, faults,
    (* History, read by properties only: pull requests a build holds that  *)
    (* were ejected all the same, because the answer of the merge was lost *)
    (* or because the build was given up.                                  *)
    ghost

ours  == <<queued, row, eng, closing, ghost>>
vars  == <<github, ours, events, faults>>

Idle  == [at |-> "idle", todo |-> {}, surv |-> {}, base |-> None, tip |-> None]
NoRow == [id |-> 0, state |-> "none", current |-> {}, pending |-> {}, sha |-> None]

ForgeTypeOK ==
    /\ GitHubTypeOK
    /\ queued \subseteq PRs /\ closing \subseteq PRs /\ ghost \subseteq PRs
    /\ row.id \in 0 .. MaxBatches
    /\ row.state \in {"none", "forming", "testing"}
    /\ row.current \subseteq PRs /\ row.pending \subseteq PRs \ row.current
    /\ row.sha \in Made \cup {None}
    /\ eng.at \in {"idle", "boot", "clear", "base", "create", "reset", "merge", "tip",
                   "eject", "ff", "land", "wait", "delete"}
    /\ eng.todo \subseteq row.current /\ eng.surv \subseteq row.current
    /\ {eng.base, eng.tip} \subseteq Made \cup {None}
    /\ events \in 0 .. MaxEvents /\ faults \in 0 .. MaxFaults

Init ==
    /\ GitHubInit
    /\ queued = {} /\ row = NoRow /\ eng = Idle /\ closing = {}
    /\ events = 0 /\ faults = 0
    /\ ghost = {}

Fault == faults < MaxFaults /\ faults' = faults + 1

(* A request: its handler's answer arrives, or the handler ran and the     *)
(* answer is lost, or the request is.                                      *)
Request(Handler(_), heard) ==
    \/ Handler(heard) /\ UNCHANGED faults
    \/ heard = "error" /\ Fault /\ \E answer \in Answers : Handler(answer)
    \/ heard = "error" /\ Fault /\ UNCHANGED github

Heard == Answers \cup {"error"}

(* --- Build: DeleteBranch, then stack(), then the ejections ------------- *)

Step(at) == eng.at = at
Head     == CHOOSE p \in eng.todo : \A q \in eng.todo : p <= q

(* The engine's next step when the heads in todo are left: the first       *)
(* merged one comes from CreateMergeBranch, the others from MergeInto.     *)
After(todo, tip) == IF todo = {} THEN "eject" ELSE IF tip = None THEN "base" ELSE "merge"

(* The head's step: it is in the branch, whose tip is sha, or it is not.   *)
Stacked(sha) ==
    eng' = [eng EXCEPT !.todo = @ \ {Head}, !.surv = @ \cup {Head}, !.tip = sha,
                       !.at = After(eng.todo \ {Head}, sha)]
NotStacked ==
    eng' = [eng EXCEPT !.todo = @ \ {Head}, !.at = After(eng.todo \ {Head}, eng.tip)]

Goto(at) == eng' = [eng EXCEPT !.at = at]

Keep == UNCHANGED <<queued, row, closing, events>>

(* FormAndBuild.                                                           *)
FormBatch ==
    /\ Step("idle") /\ row.state = "none"
    /\ queued # {} /\ row.id < MaxBatches
    /\ row' = [id |-> row.id + 1, state |-> "forming", current |-> queued,
               pending |-> {}, sha |-> None]
    /\ Goto("clear")
    /\ UNCHANGED <<github, queued, closing, events, faults, ghost>>

(* The result of DeleteBranch is not looked at.                            *)
ClearBranch ==
    /\ Step("clear")
    /\ \E heard \in Heard : Request(LAMBDA a : hDeleteRef(row.id, a), heard)
    /\ eng' = [Idle EXCEPT !.todo = row.current, !.at = After(row.current, None)]
    /\ UNCHANGED <<target, commits, rules, pulls, ghost>> /\ Keep

(* CreateMergeBranch: GetRef of the target ...                             *)
ResolveBase ==
    /\ Step("base")
    /\ \/ eng' = [eng EXCEPT !.base = target, !.at = "create"] /\ UNCHANGED faults
       \/ Fault /\ NotStacked
    /\ UNCHANGED <<github, ghost>> /\ Keep

(* ... CreateRef: only "already exists" can be recovered from ...          *)
CreateRef ==
    /\ Step("create")
    /\ \E heard \in Heard :
          /\ Request(LAMBDA a : hCreateRef(row.id, eng.base, a), heard)
          /\ CASE heard = "ok"     -> Goto("merge")
               [] heard = "exists" -> Goto("reset")
               [] OTHER            -> NotStacked
    /\ UNCHANGED <<target, commits, rules, pulls, ghost>> /\ Keep

(* Negative control: what an earlier attempt left is built upon.           *)
KeepRef ==
    /\ Step("reset")
    /\ Goto("merge")
    /\ UNCHANGED <<github, faults, ghost>> /\ Keep

(* ... by forcing the branch to the base.                                  *)
ResetRef ==
    /\ Step("reset")
    /\ \E heard \in Heard :
          /\ Request(LAMBDA a : hResetRef(row.id, eng.base, a), heard)
          /\ IF heard = "ok" THEN Goto("merge") ELSE NotStacked
    /\ UNCHANGED <<target, commits, rules, pulls, ghost>> /\ Keep

(* mergeHead.  A 204 tells CreateMergeBranch that the base is the result,  *)
(* and MergeInto to ask for the tip.  A merge that was made but not        *)
(* answered counts as failed, and MergeInto goes on on top of it.          *)
MergeHead ==
    /\ Step("merge")
    /\ \E heard \in Heard :
          /\ Request(LAMBDA a : hMerge(row.id, Head, a), heard)
          /\ CASE heard = "ok"      -> Stacked(Fresh)
               [] heard = "nothing" -> IF eng.tip = None THEN Stacked(eng.base)
                                       ELSE Goto("tip")
               [] OTHER             -> NotStacked
          /\ ghost' = IF heard = "error" /\ history' # history
                      THEN ghost \cup {Head} ELSE ghost
    /\ UNCHANGED <<target, rules, pulls>> /\ Keep

ReadTip ==
    /\ Step("tip")
    /\ \/ branch[row.id] # None /\ Stacked(branch[row.id]) /\ UNCHANGED faults
       \/ branch[row.id] = None /\ NotStacked /\ UNCHANGED faults
       \/ Fault /\ NotStacked
    /\ UNCHANGED <<github, ghost>> /\ Keep

(* eject: automerge off, which may fail or be off already, and dequeue.    *)
Eject ==
    /\ Step("eject")
    /\ \E p \in row.current \ eng.surv :
          /\ \E heard \in Heard : Request(LAMBDA a : hGraphQL(p, a), heard)
          /\ queued' = queued \ {p}
          /\ row' = [row EXCEPT !.current = @ \ {p}]
          /\ ghost' = IF row.state = "testing" THEN ghost \cup {p} ELSE ghost
    /\ UNCHANGED <<refs, commits, rules, open, eng, closing, events>>

(* next(): the pending half is built, or the batch is over.                *)
Next(r) ==
    IF r.pending # {}
    THEN /\ row' = [r EXCEPT !.state = "forming", !.current = r.pending,
                             !.pending = {}, !.sha = None]
         /\ eng' = [Idle EXCEPT !.at = "clear"]
    ELSE /\ row' = [NoRow EXCEPT !.id = r.id]
         /\ eng' = [Idle EXCEPT !.at = "delete"]

Built ==
    /\ Step("eject") /\ row.current = eng.surv
    /\ IF eng.surv = {} THEN Next(row)
       ELSE /\ row' = [row EXCEPT !.state = "testing", !.sha = eng.tip]
            /\ eng' = Idle
    /\ UNCHANGED <<github, queued, closing, events, faults, ghost>>

DeleteBranch ==
    /\ Step("delete")
    /\ \E heard \in Heard : Request(LAMBDA a : hDeleteRef(row.id, a), heard)
    /\ eng' = Idle
    /\ UNCHANGED <<target, commits, rules, pulls, ghost>> /\ Keep

(* --- What CI says, and HandlePass ---------------------------------------- *)

Testing == Step("idle") /\ row.state = "testing"

Pass ==
    /\ Testing
    /\ Goto("ff")
    /\ UNCHANGED <<github, queued, row, closing, events, faults, ghost>>

Rebuild(current, pending) ==
    /\ row' = [row EXCEPT !.state = "forming", !.current = current,
                          !.pending = pending, !.sha = None]
    /\ eng' = [Idle EXCEPT !.at = "clear"]

EjectCurrent == eng' = [Idle EXCEPT !.at = "eject"]

(* Negative control: the halves overlap.                                   *)
FailOverlapping ==
    /\ Testing
    /\ Rebuild(row.current, row.pending \cup {Max(row.current)})
    /\ UNCHANGED <<github, queued, closing, events, faults, ghost>>

(* HandleFail: a single member is ejected, more are halved.                *)
Fail ==
    /\ Testing
    /\ IF Cardinality(row.current) = 1 THEN EjectCurrent /\ UNCHANGED row
       ELSE LET left == {p \in row.current :
                            2 * Cardinality({q \in row.current : q <= p})
                                <= Cardinality(row.current)}
            IN  Rebuild(left, row.pending \cup (row.current \ left))
    /\ UNCHANGED <<github, queued, closing, events, faults, ghost>>

(* Negative control: a 422 is taken for "already there".                   *)
FastForwardTolerant ==
    /\ Step("ff")
    /\ \E heard \in Heard :
          /\ Request(LAMBDA a : hUpdateRef(row.sha, a), heard)
          /\ IF heard = "error" THEN eng' = Idle
             ELSE eng' = [eng EXCEPT !.at = "land", !.todo = row.current]
    /\ UNCHANGED <<branch, commits, rules, pulls, row, queued, closing, events, ghost>>

(* Negative control: the branch is forced.                                 *)
ForcePush ==
    /\ Step("ff")
    /\ target' = row.sha
    /\ eng' = [eng EXCEPT !.at = "land", !.todo = row.current]
    /\ UNCHANGED <<branch, commits, rules, pulls, row, queued, closing, events,
                   faults, ghost>>

(* FastForward: the target moved and the batch is built again or, after    *)
(* MaxFFRetries times, ejected; the push is denied; or the request failed  *)
(* and the batch stays in test.                                            *)
FastForward ==
    /\ Step("ff")
    /\ \E heard \in Heard :
          /\ Request(LAMBDA a : hUpdateRef(row.sha, a), heard)
          /\ \/ /\ heard = "ok"
                /\ eng' = [eng EXCEPT !.at = "land", !.todo = row.current]
                /\ UNCHANGED row
             \/ /\ heard = "not a fast forward"
                /\ \/ Rebuild(row.current, row.pending)
                   \/ EjectCurrent /\ UNCHANGED row
             \/ heard = "protected" /\ EjectCurrent /\ UNCHANGED row
             \/ heard = "error" /\ eng' = Idle /\ UNCHANGED row
    /\ UNCHANGED <<branch, commits, rules, pulls, queued, closing, events, ghost>>

(* Each member is dequeued, and a goroutine sees to its pull request.      *)
LandOne ==
    /\ Step("land") /\ eng.todo # {}
    /\ queued' = queued \ {Head}
    /\ row' = [row EXCEPT !.current = @ \ {Head}]
    /\ closing' = closing \cup {Head}
    /\ eng' = [eng EXCEPT !.todo = @ \ {Head}]
    /\ UNCHANGED <<github, events, faults, ghost>>

(* Negative control: the pull request is merged over the API.              *)
MergePull(p) ==
    /\ p \in closing /\ p \in open
    /\ Commit(target, p)
    /\ target' = Fresh /\ open' = open \ {p}
    /\ closing' = closing \ {p}
    /\ UNCHANGED <<branch, rules, auto, faults>>

(* Negative control: a pull request GitHub does not show as merged is left.*)
GiveUp(p) ==
    /\ p \in closing
    /\ closing' = closing \ {p}
    /\ UNCHANGED <<github, faults>>

(* ensureMergedOrClose: GetPR until the pull request is not open, then,    *)
(* when it stays open too long, ClosePR.                                   *)
ClosePR(p) ==
    /\ p \in closing /\ p \in open
    /\ \E heard \in Heard : Request(LAMBDA a : hEditPR(p, a), heard)
    /\ closing' = closing \ {p}
    /\ UNCHANGED <<refs, commits, rules, auto>>

SeenClosed(p) ==
    /\ p \in closing \ open
    /\ closing' = closing \ {p}
    /\ UNCHANGED <<github, faults>>

EnsureMergedOrClose ==
    /\ \E p \in PRs : ClosePR(p) \/ SeenClosed(p)
    /\ UNCHANGED <<queued, row, eng, events, ghost>>

Landed ==
    /\ Step("land") /\ eng.todo = {} /\ closing = {}
    /\ Next(row)
    /\ UNCHANGED <<github, queued, closing, events, faults, ghost>>

Engine ==
    \/ FormBatch \/ ClearBranch \/ ResolveBase \/ CreateRef \/ ResetRef
    \/ MergeHead \/ ReadTip \/ Eject \/ Built \/ DeleteBranch
    \/ FastForward \/ LandOne \/ Landed

(* --- The poller, the world, crashes -------------------------------------- *)

Enqueue ==
    /\ \E p \in (open \cap auto) \ queued : queued' = queued \cup {p}
    /\ UNCHANGED <<github, row, eng, closing, events, faults, ghost>>

(* reconcileEntries and OnMemberRemoved, once they have the mutex.         *)
RemoveEntry ==
    /\ Step("idle")
    /\ \E p \in queued \ (open \cap auto) :
          /\ queued' = queued \ {p}
          /\ IF p \in row.current
             THEN Rebuild(row.current \ {p}, row.pending)
             ELSE row' = [row EXCEPT !.pending = @ \ {p}] /\ UNCHANGED eng
    /\ UNCHANGED <<github, closing, events, faults, ghost>>

World ==
    /\ events < MaxEvents /\ events' = events + 1
    /\ Push \/ MergeByHand \/ Meddle
    /\ UNCHANGED <<ours, faults>>

(* A restart: the goroutines are gone ...                                  *)
Crash ==
    /\ Fault
    /\ eng' = [Idle EXCEPT !.at = "boot"] /\ closing' = {}
    /\ UNCHANGED <<github, queued, row, events, ghost>>

(* ... CleanupStaleBranches deletes what no live batch names, and          *)
(* ReconcileLive builds what is forming.                                   *)
Boot ==
    /\ Step("boot")
    /\ branch' = [k \in Queued |->
                     IF k = row.id /\ row.state # "none" THEN branch[k] ELSE None]
    /\ Goto(IF row.state = "forming" THEN "clear" ELSE "idle")
    /\ UNCHANGED <<target, commits, rules, pulls, queued, row, closing, events,
                   faults, ghost>>

Steps ==
    \/ Engine \/ Pass \/ Fail \/ EnsureMergedOrClose
    \/ Enqueue \/ RemoveEntry \/ World \/ Crash \/ Boot
    \/ NoticeMerged /\ UNCHANGED <<ours, events, faults>>

(* Every request is answered or times out; CI, people and GitHub's notice  *)
(* of a merge are not relied upon.                                         *)
Fairness ==
    /\ WF_vars(Engine) /\ WF_vars(Boot)
    /\ \A p \in PRs : WF_vars((ClosePR(p) \/ SeenClosed(p))
                              /\ UNCHANGED <<queued, row, eng, events, ghost>>)

Spec == Init /\ [][Steps]_vars /\ Fairness

(* --- Properties ---------------------------------------------------------- *)

In(c) == history[c] \cap PRs

(* The target keeps every commit it ever had, whoever pushes and whatever  *)
(* answer of FastForward is lost (forge.go:245-270).                       *)
Grows == target \in history'[target']

TargetOnlyGrows == [][Grows]_vars

(* A build in test holds the head of each of its members, and besides what *)
(* is on the target nothing else: no leftover of an earlier build, an      *)
(* earlier crash or a head that conflicted.  The exceptions are a merge    *)
(* whose answer was lost, and a crash amid the ejection of a whole build   *)
(* (forge.go:165-206, batch.go:422-445).                                   *)
BuildHoldsMembers ==
    row.state = "testing" /\ Step("idle") =>
        /\ row.current \subseteq In(row.sha)
        /\ In(row.sha) \subseteq row.current \cup In(target) \cup ghost

(* The queue closes a pull request as merged only if its head is on the    *)
(* target branch (batch.go:261-271, batch.go:507-527).                     *)
ClosesOnlyLanded == closing \subseteq In(target)

(* No pull request is merged into the target by two commits, although it   *)
(* may be merged by hand while a build holds it, be in the queue again     *)
(* because GitHub shows it as open after it landed, or land in a push      *)
(* whose answer was lost (batch.go:509-510).                               *)
MergedOnce ==
    \A c, d \in history[target] : merges[c] = merges[d] /\ merges[c] # 0 => c = d

(* A pull request that landed does not stay open: GitHub notices, or the   *)
(* queue closes it, unless a fault hit the queue (batch.go:507-527).       *)
LandedIsClosed ==
    \A p \in PRs : p \in closing ~> p \notin open \/ faults > 0

=============================================================================
