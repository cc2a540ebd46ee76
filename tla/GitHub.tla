------------------------------- MODULE GitHub --------------------------------
(***************************************************************************)
(* The part of GitHub that merging uses: refs, commits and pull requests,  *)
(* behind the requests that src/internal/github/ghfake answers.  A handler *)
(* is an action with its answer as the last argument; it runs under the    *)
(* server's lock.                                                          *)
(*                                                                         *)
(* Commit 0 is the first tip of the target, commit p in PRs the head of    *)
(* pull request p, and the others are made in order.  Of a commit we keep  *)
(* everything reachable from it and the pull request it merges.            *)
(***************************************************************************)
EXTENDS Integers, FiniteSets

CONSTANTS
    PRs,            \* pull requests, in the order of their numbers: 1 .. n
    MaxCommits,     \* bound: commits that ever exist, the first one not counted
    MaxBatches      \* bound: branches of the queue

ASSUME GitHubAssumption ==
    /\ MaxCommits \in Nat /\ MaxBatches \in Nat \ {0}
    /\ Cardinality(PRs) \in 1 .. MaxCommits /\ PRs = 1 .. Cardinality(PRs)

None    == -1
Commits == 0 .. MaxCommits

Target   == "main"
Squatter == "gitea-mq"          \* its name is a directory of the queue's branches
Queued   == 1 .. MaxBatches     \* gitea-mq/batch/<id>

VARIABLES
    target,     \* the tip of the target branch
    branch,     \* tips of the queue's branches, or None
    squatted,   \* somebody made a branch called gitea-mq
    history,    \* what is reachable from a commit, itself included
    merges,     \* the pull request a commit merges, or 0
    protected,  \* the target refuses the App's pushes
    open,       \* pull requests that are open
    auto        \* pull requests with automerge enabled

github == <<target, branch, squatted, history, merges, protected, open, auto>>
commits == <<history, merges>>
refs    == <<target, branch>>
pulls   == <<open, auto>>
rules   == <<squatted, protected>>

Made == {c \in Commits : history[c] # {}}
Fresh == Cardinality(Made)

GitHubTypeOK ==
    /\ target \in Made
    /\ branch \in [Queued -> Made \cup {None}]
    /\ squatted \in BOOLEAN /\ protected \in BOOLEAN
    /\ history \in [Commits -> SUBSET Commits]
    /\ merges \in [Commits -> PRs \cup {0}]
    /\ open \subseteq PRs /\ auto \subseteq PRs

GitHubInit ==
    /\ target = 0
    /\ branch = [k \in Queued |-> None]
    /\ squatted = FALSE /\ protected = FALSE
    /\ history = [c \in Commits |-> IF c \in PRs THEN {0, c}
                                    ELSE IF c = 0 THEN {0} ELSE {}]
    /\ merges = [c \in Commits |-> 0]
    /\ open = PRs /\ auto = PRs

isAncestor(a, c) == a \in history[c]

(* A commit on top of tip that merges pull request p, or none.             *)
Commit(tip, p) ==
    /\ Fresh <= MaxCommits
    /\ history' = [history EXCEPT ![Fresh] =
                      {Fresh} \cup history[tip]
                              \cup (IF p = 0 THEN {} ELSE history[p])]
    /\ merges' = [merges EXCEPT ![Fresh] = p]

Answers == {"ok", "missing", "exists", "rejected", "protected",
            "not a fast forward", "conflict", "nothing", "not enabled"}

(* --- refs ---------------------------------------------------------------- *)

hCreateRef(k, sha, answer) ==
    \/ /\ branch[k] # None
       /\ answer = "exists" /\ UNCHANGED branch
    \/ /\ branch[k] = None /\ squatted
       /\ answer = "rejected" /\ UNCHANGED branch
    \/ /\ branch[k] = None /\ ~ squatted
       /\ answer = "ok" /\ branch' = [branch EXCEPT ![k] = sha]

(* With force, of a branch of the queue.                                   *)
hResetRef(k, sha, answer) ==
    \/ /\ branch[k] = None
       /\ answer = "missing" /\ UNCHANGED branch
    \/ /\ branch[k] # None
       /\ answer = "ok" /\ branch' = [branch EXCEPT ![k] = sha]

(* Without force, of the target.                                           *)
hUpdateRef(sha, answer) ==
    \/ /\ protected
       /\ answer = "protected" /\ UNCHANGED target
    \/ /\ ~ protected /\ ~ isAncestor(target, sha)
       /\ answer = "not a fast forward" /\ UNCHANGED target
    \/ /\ ~ protected /\ isAncestor(target, sha)
       /\ answer = "ok" /\ target' = sha

hDeleteRef(k, answer) ==
    /\ answer = IF branch[k] = None THEN "missing" ELSE "ok"
    /\ branch' = [branch EXCEPT ![k] = None]

(* A 204 when the branch contains the head, by what forge.go:208-210 says  *)
(* of GitHub; whether another head conflicts is the world's choice.        *)
hMerge(k, p, answer) ==
    \/ /\ branch[k] = None
       /\ answer = "missing" /\ UNCHANGED <<branch, commits>>
    \/ /\ branch[k] # None /\ isAncestor(p, branch[k])
       /\ answer = "nothing" /\ UNCHANGED <<branch, commits>>
    \/ /\ branch[k] # None /\ ~ isAncestor(p, branch[k])
       /\ answer = "conflict" /\ UNCHANGED <<branch, commits>>
    \/ /\ branch[k] # None /\ ~ isAncestor(p, branch[k])
       /\ Commit(branch[k], p)
       /\ answer = "ok" /\ branch' = [branch EXCEPT ![k] = Fresh]

(* --- pull requests -------------------------------------------------------- *)

hEditPR(p, answer) == open' = open \ {p} /\ answer = "ok"

hGraphQL(p, answer) ==
    /\ answer = IF p \in auto THEN "ok" ELSE "not enabled"
    /\ auto' = auto \ {p}

(* --- what happens on GitHub by itself ------------------------------------- *)

(* A pull request whose head the target contains is shown as merged.       *)
NoticeMerged ==
    /\ \E p \in open : isAncestor(p, target) /\ open' = open \ {p}
    /\ UNCHANGED <<refs, commits, rules, auto>>

Push ==
    /\ Commit(target, 0)
    /\ target' = Fresh
    /\ UNCHANGED <<branch, rules, pulls>>

MergeByHand ==
    /\ \E p \in open : /\ ~ isAncestor(p, target)
                       /\ Commit(target, p)
                       /\ open' = open \ {p}
    /\ target' = Fresh
    /\ UNCHANGED <<branch, rules, auto>>

Meddle ==
    \/ /\ \E p \in open : open' = open \ {p}
       /\ UNCHANGED <<refs, commits, rules, auto>>
    \/ /\ \E p \in open \cap auto : auto' = auto \ {p}
       /\ UNCHANGED <<refs, commits, rules, open>>
    \/ /\ protected' = ~ protected
       /\ UNCHANGED <<refs, commits, squatted, pulls>>
    \/ /\ squatted' = ~ squatted /\ \A k \in Queued : branch[k] = None
       /\ UNCHANGED <<refs, commits, protected, pulls>>
    \/ /\ \E k \in Queued : branch[k] # None
                            /\ branch' = [branch EXCEPT ![k] = None]
       /\ UNCHANGED <<target, commits, rules, pulls>>

=============================================================================
