------------------------------- MODULE GitCache --------------------------------
(***************************************************************************)
(* The clone through which gitea-mq merges on Gitea, and the pushes made   *)
(* from it (src/internal/gitea/gitcache.go, StackMerges and FastForwardRef *)
(* in src/internal/gitea/http.go).  All operations on a repository share   *)
(* one bare clone and its lock: batches of several target branches and the *)
(* unbatched queue.  Git commands are single steps; one may fail, hang     *)
(* until its context ends, or die with the process.                        *)
(*                                                                         *)
(* A user of the clone builds the branch of its name from some heads, has  *)
(* it tested and fast-forwards main to it.                                 *)
(***************************************************************************)
EXTENDS Integers, FiniteSets

CONSTANTS
    Users,          \* engines that merge in this repository
    Heads,          \* heads of pull requests: the commits 1 .. n
    MaxCommits,     \* bound: commits that ever exist, the first one not counted
    MaxPushes,      \* bound: pushes of others
    MaxFaults       \* bound: failing or cancelled commands, damage, crashes

None    == -1

ASSUME GitCacheAssumption ==
    /\ {MaxCommits, MaxPushes, MaxFaults} \subseteq Nat
    /\ Cardinality(Heads) \in 0 .. MaxCommits /\ Heads = 1 .. Cardinality(Heads)
    /\ None \notin Users

Commits == 0 .. MaxCommits

VARIABLES
    main, branch,   \* tips on the server, or None
    vanished,       \* heads the server does not have any more
    history,        \* what is reachable from a commit, itself included
    clone,          \* the directory
    holder,         \* who has the repository's lock, or None
    call,           \* the operation of each user
    built,          \* what StackMerges returned to a user, until it lands
    pushes, faults

server == <<main, branch, vanished>>
bounds == <<pushes, faults>>
vars   == <<server, history, clone, holder, call, built, bounds>>

Made  == {c \in Commits : history[c] # {}}
Fresh == Cardinality(Made)

(* What may be damaged so that a fetch fails: the branches and the commit  *)
(* of the first of them, or anything else: the commits of other branches   *)
(* and older ones, trees, a lock file that a killed git left behind.       *)
Parts == {"first", "rest"}

(* "bare": git init has run, git remote add has not.                       *)
NoClone == [at |-> "none", bad |-> {}, main |-> None, has |-> {}]

(* base is what the build started from, seen the tips main had since the   *)
(* call began (history, for BuildsOnMain).                                 *)
NoCall == [at |-> "idle", op |-> "stack", again |-> FALSE, todo |-> {},
           surv |-> {}, base |-> None, cur |-> None, seen |-> {}]

CacheTypeOK ==
    /\ main \in Made /\ branch \in [Users -> Made \cup {None}]
    /\ vanished \subseteq Heads
    /\ history \in [Commits -> SUBSET Commits]
    /\ clone.at \in {"none", "bare", "ready"} /\ clone.bad \subseteq Parts
    /\ clone.has \subseteq Made /\ clone.main \in clone.has \cup {None}
    /\ holder \in Users \cup {None}
    /\ \A u \in Users :
          /\ call[u].at \in {"idle", "lock", "open", "remote", "fetch", "healthy",
                             "remove", "merge", "push", "gc"}
          /\ call[u].op \in {"stack", "land"} /\ call[u].again \in BOOLEAN
          /\ call[u].todo \subseteq Heads /\ call[u].surv \subseteq Heads
          /\ {call[u].base, call[u].cur, built[u]} \subseteq Made \cup {None}
          /\ call[u].at \notin {"idle", "lock"} => holder = u
    /\ pushes \in 0 .. MaxPushes /\ faults \in 0 .. MaxFaults

Init ==
    /\ main = 0 /\ branch = [u \in Users |-> None] /\ vanished = {}
    /\ history = [c \in Commits |-> IF c \in Heads THEN {0, c}
                                    ELSE IF c = 0 THEN {0} ELSE {}]
    /\ clone = NoClone /\ holder = None
    /\ call = [u \in Users |-> NoCall] /\ built = [u \in Users |-> None]
    /\ pushes = 0 /\ faults = 0

Fault == faults < MaxFaults /\ faults' = faults + 1 /\ UNCHANGED pushes

Goto(u, at) == call' = [call EXCEPT ![u].at = at]

(* The call ends and the lock is released.                                 *)
Return(u) == call' = [call EXCEPT ![u] = NoCall] /\ holder' = None

(* --- callers ----------------------------------------------------------------- *)

(* Build deletes the branch of an earlier build, or fails to.              *)
CallStack(u) ==
    /\ call[u].at = "idle" /\ built[u] = None
    /\ \E heads \in (SUBSET Heads) \ {{}} :
          call' = [call EXCEPT ![u] = [NoCall EXCEPT !.at = "lock", !.todo = heads,
                                                     !.seen = {main}]]
    /\ \/ branch' = [branch EXCEPT ![u] = None] /\ UNCHANGED bounds
       \/ Fault /\ UNCHANGED branch
    /\ UNCHANGED <<main, vanished, history, clone, holder, built>>

CallLand(u) ==
    /\ call[u].at = "idle" /\ built[u] # None
    /\ call' = [call EXCEPT ![u] = [NoCall EXCEPT !.at = "lock", !.op = "land",
                                                  !.cur = built[u], !.seen = {main}]]
    /\ UNCHANGED <<server, history, clone, holder, built, bounds>>

(* --- withRepo ---------------------------------------------------------------- *)

Lock(u) ==
    /\ call[u].at = "lock" /\ holder = None
    /\ holder' = u
    /\ Goto(u, "open")
    /\ UNCHANGED <<server, history, clone, built, bounds>>

(* HEAD tells fetch whether there is a clone.                              *)
InitClone(u) ==
    /\ call[u].at = "open"
    /\ IF clone.at = "none"
       THEN clone' = [NoClone EXCEPT !.at = "bare"] /\ Goto(u, "remote")
       ELSE Goto(u, "fetch") /\ UNCHANGED clone
    /\ UNCHANGED <<server, history, holder, built, bounds>>

AddRemote(u) ==
    /\ call[u].at = "remote"
    /\ clone' = [clone EXCEPT !.at = "ready"]
    /\ Goto(u, "fetch")
    /\ UNCHANGED <<server, history, holder, built, bounds>>

(* set-url needs the remote, and fetch a clone it can read and write.      *)
Broken == clone.at = "bare" \/ clone.bad # {}

(* What the clone has and call u goes on with after fetching main as m.    *)
Fetched(u, m) ==
    /\ clone' = [clone EXCEPT !.main = m,
                    !.has = @ \cup history[m]
                              \cup (IF call[u].op = "land" THEN history[call[u].cur]
                                    ELSE {})]
    /\ call' = [call EXCEPT ![u].base = m,
                            ![u].at = IF call[u].op = "stack" THEN "merge" ELSE "push"]

(* Negative control: the clone's own branch is not updated.                *)
FetchOnce(u) ==
    /\ call[u].at = "fetch" /\ ~ Broken
    /\ Fetched(u, IF clone.main = None THEN main ELSE clone.main)
    /\ UNCHANGED <<server, history, holder, built, bounds>>

(* Negative control: the lock is for fetching only.                        *)
FetchUnlocks(u) ==
    /\ call[u].at = "fetch" /\ ~ Broken
    /\ Fetched(u, main)
    /\ holder' = None
    /\ UNCHANGED <<server, history, built, bounds>>

Fetch(u) ==
    /\ call[u].at = "fetch" /\ ~ Broken
    /\ Fetched(u, main)
    /\ UNCHANGED <<server, history, holder, built, bounds>>

(* A command failed.  The second time, that is the answer.                 *)
FetchFails(u) ==
    /\ \/ call[u].at = "fetch" /\ Broken /\ UNCHANGED bounds
       \/ call[u].at \in {"open", "remote", "fetch"} /\ Fault
    /\ IF call[u].again THEN Return(u) ELSE Goto(u, "healthy") /\ UNCHANGED holder
    /\ UNCHANGED <<server, history, clone, built>>

(* Negative control: a clone with a HEAD is taken for healthy.             *)
HealthyByHead(u) ==
    /\ call[u].at = "healthy"
    /\ Return(u)
    /\ UNCHANGED <<server, history, clone, built, bounds>>

(* Negative control: every clone that cannot be fetched into is replaced.  *)
HealthyNever(u) ==
    /\ call[u].at = "healthy"
    /\ Goto(u, "remove")
    /\ UNCHANGED <<server, history, clone, holder, built, bounds>>

(* It looks for HEAD and reads the commit of the first branch, nothing     *)
(* else; an error of a clone that passes is given to the caller.           *)
Healthy(u) ==
    /\ call[u].at = "healthy"
    /\ IF clone.at = "none" \/ "first" \in clone.bad
       THEN Goto(u, "remove") /\ UNCHANGED holder
       ELSE Return(u)
    /\ UNCHANGED <<server, history, clone, built, bounds>>

(* Negative control: the branches stay.                                    *)
RemoveObjects(u) ==
    /\ call[u].at = "remove"
    /\ clone' = [clone EXCEPT !.has = {}, !.bad = {}]
    /\ call' = [call EXCEPT ![u].at = "open", ![u].again = TRUE]
    /\ UNCHANGED <<server, history, holder, built, bounds>>

Remove(u) ==
    /\ call[u].at = "remove"
    /\ clone' = NoClone
    /\ call' = [call EXCEPT ![u].at = "open", ![u].again = TRUE]
    /\ UNCHANGED <<server, history, holder, built, bounds>>

(* --- StackMerges -------------------------------------------------------------- *)

Tip(u)  == IF call[u].cur = None THEN call[u].base ELSE call[u].cur
Head(u) == CHOOSE p \in call[u].todo : \A q \in call[u].todo : p <= q

(* merge-tree and commit-tree, after fetching the head.  Damage since the  *)
(* fetch may be in what they need, here and in the pushes, or elsewhere.   *)
MergeHead(u) ==
    /\ call[u].at = "merge" /\ call[u].todo # {}
    /\ Head(u) \notin vanished /\ Fresh <= MaxCommits
    /\ history' = [history EXCEPT ![Fresh] = {Fresh} \cup history[Tip(u)]
                                                     \cup history[Head(u)]]
    /\ clone' = [clone EXCEPT !.has = @ \cup history[Head(u)] \cup {Fresh}]
    /\ call' = [call EXCEPT ![u].todo = @ \ {Head(u)}, ![u].cur = Fresh,
                            ![u].surv = @ \cup {Head(u)}]
    /\ UNCHANGED <<server, holder, built, bounds>>

(* The head is gone, conflicts, or cannot be fetched or read.              *)
SkipHead(u) ==
    /\ call[u].at = "merge" /\ call[u].todo # {}
    /\ call' = [call EXCEPT ![u].todo = @ \ {Head(u)}]
    /\ UNCHANGED <<server, history, clone, holder, built, bounds>>

Stacked(u) ==
    /\ call[u].at = "merge" /\ call[u].todo = {}
    /\ IF call[u].cur = None THEN Return(u)
       ELSE Goto(u, "push") /\ UNCHANGED holder
    /\ UNCHANGED <<server, history, clone, built, bounds>>

IsAncestor(a, c) == a = None \/ a \in history[c]

(* The push of the branch is refused when an older build is still there;   *)
(* its answer may be lost.                                                 *)
PushBranch(u) ==
    /\ call[u].at = "push" /\ call[u].op = "stack"
    /\ \/ /\ IsAncestor(branch[u], call[u].cur)
          /\ branch' = [branch EXCEPT ![u] = call[u].cur]
          /\ \/ Goto(u, "gc") /\ UNCHANGED <<holder, bounds>>
             \/ Return(u) /\ Fault
       \/ /\ clone.bad # {} \/ ~ IsAncestor(branch[u], call[u].cur)
          /\ Return(u) /\ UNCHANGED <<branch, bounds>>
    /\ UNCHANGED <<main, vanished, history, clone, built>>

(* --- FastForwardRef ------------------------------------------------------------- *)

(* The calls, now that main is m.                                          *)
Saw(m) == [v \in Users |-> IF call[v].at = "idle" THEN NoCall
                           ELSE [call[v] EXCEPT !.seen = @ \cup {m}]]

(* The engine builds again when main went elsewhere; it keeps its build    *)
(* when the push failed otherwise, or its answer was lost.                 *)
PushMain(u) ==
    /\ call[u].at = "push" /\ call[u].op = "land"
    /\ \/ /\ IsAncestor(main, call[u].cur)
          /\ main' = call[u].cur
          /\ \/ built' = [built EXCEPT ![u] = None] /\ UNCHANGED bounds
             \/ Fault /\ UNCHANGED built
       \/ /\ ~ IsAncestor(main, call[u].cur)
          /\ built' = [built EXCEPT ![u] = None]
          /\ UNCHANGED <<main, bounds>>
       \/ clone.bad # {} /\ UNCHANGED <<main, built, bounds>>
    /\ call' = [Saw(main') EXCEPT ![u] = NoCall]
    /\ holder' = None
    /\ UNCHANGED <<branch, vanished, history, clone>>

(* gc --auto may drop what no branch of the clone reaches; then the result *)
(* is returned.                                                            *)
Collect(u) ==
    /\ call[u].at = "gc"
    /\ clone' \in {clone} \cup
          {[clone EXCEPT !.has = history[m]] : m \in {clone.main} \ {None}}
    /\ built' = [built EXCEPT ![u] = call[u].cur]
    /\ Return(u)
    /\ UNCHANGED <<server, history, bounds>>

(* --- the world ----------------------------------------------------------------- *)

(* The context ends: git is killed, no other command of the call starts    *)
(* and it returns an error.  Under ensure this makes the clone look        *)
(* unhealthy, unless it has just been replaced.                            *)
Cancel(u) ==
    /\ call[u].at \notin {"idle", "lock"} /\ Fault
    /\ Return(u)
    /\ clone' = IF call[u].at \in {"open", "remote", "fetch", "healthy", "remove"}
                   /\ ~ call[u].again
                THEN NoClone ELSE clone
    /\ UNCHANGED <<server, history, built>>

(* A restart, whatever git was doing: killed in a fetch it leaves its lock *)
(* files.  cleanupStale removes a clone that was not used for long.        *)
Locked(u) ==
    IF call[u].at = "fetch" /\ clone.at = "ready"
    THEN [clone EXCEPT !.bad = @ \cup {"rest"}] ELSE clone

Crash ==
    /\ Fault
    /\ call' = [u \in Users |-> NoCall] /\ holder' = None
    /\ clone' \in {clone, NoClone} \cup {Locked(u) : u \in Users}
    /\ UNCHANGED <<server, history, built>>

Corrupt ==
    /\ clone.at = "ready" /\ Fault
    /\ \E p \in Parts \ clone.bad : clone' = [clone EXCEPT !.bad = @ \cup {p}]
    /\ UNCHANGED <<server, history, holder, call, built>>

World ==
    /\ pushes < MaxPushes /\ pushes' = pushes + 1
    /\ \/ /\ Fresh <= MaxCommits
          /\ history' = [history EXCEPT ![Fresh] = {Fresh} \cup history[main]]
          /\ main' = Fresh /\ call' = Saw(Fresh)
          /\ UNCHANGED vanished
       \/ /\ \E p \in Heads \ vanished : vanished' = vanished \cup {p}
          /\ UNCHANGED <<main, history, call>>
    /\ UNCHANGED <<branch, clone, holder, built, faults>>

Work(u) ==
    \/ Lock(u) \/ InitClone(u) \/ AddRemote(u) \/ Fetch(u) \/ FetchFails(u)
    \/ Healthy(u) \/ Remove(u)
    \/ MergeHead(u) \/ SkipHead(u) \/ Stacked(u) \/ PushBranch(u)
    \/ PushMain(u) \/ Collect(u)

Next ==
    \/ \E u \in Users : CallStack(u) \/ CallLand(u) \/ Work(u) \/ Cancel(u)
    \/ Crash \/ Corrupt \/ World

(* Commands end, and the lock goes to everybody who waits.  Nobody has to  *)
(* call.                                                                   *)
Fairness == \A u \in Users : WF_vars(Work(u)) /\ SF_vars(Lock(u))

Spec == Init /\ [][Next]_vars /\ Fairness

(* --- Properties ------------------------------------------------------------------ *)

(* What StackMerges returns is on the server under the branch's name, was  *)
(* built from what main was at some time during the call, and holds the    *)
(* heads it reports as merged and no other, whatever the clone kept from   *)
(* earlier builds or was rebuilt from (http.go:486-526).                   *)
BuildsOnMain ==
    \A u \in Users :
        call[u].at = "gc" =>
            /\ branch[u] = call[u].cur
            /\ call[u].base \in call[u].seen
            /\ history[call[u].cur] \cap Heads
                   = call[u].surv \cup (history[call[u].base] \cap Heads)

(* No commit an operation works on is removed from the clone under it by   *)
(* another one that finds the clone broken (gitcache.go:86-108).           *)
ObjectsStay ==
    \A u \in Users :
        call[u].at \in {"merge", "push"} =>
            {call[u].base, Tip(u)} \subseteq clone.has

(* No clone is removed for an error that came from elsewhere, a network    *)
(* failure or a killed command of the set-up: only one whose first branch  *)
(* cannot be read is, if nothing else happens at that moment               *)
(* (gitcache.go:111-119).                                                  *)
SoundIsKept ==
    [][clone.at # "none" /\ clone'.at = "none" /\ faults' = faults
           => "first" \in clone.bad]_vars

(* Operations on the repository are called again and again.                *)
InUse == []<>(\E u \in Users : call[u].at = "lock")

(* A clone whose first branch cannot be read is replaced while it is used, *)
(* whichever operation finds it and however many wait (gitcache.go:111-123)*)
CorruptIsReplaced ==
    InUse => ("first" \in clone.bad ~> "first" \notin clone.bad)

(* "The cache is disposable: corrupted clones are deleted and rebuilt": so *)
(* is one whose creation was interrupted (gitcache.go:11-12).              *)
CloneRecovers == InUse => (clone.at = "bare" ~> clone.at = "ready")

=============================================================================
