-------------------------------- MODULE Forge --------------------------------
(***************************************************************************)
(* The forge as the merge queue sees it: one target branch, the commits on *)
(* it and on the queue's temporary branches, and the check results CI has  *)
(* posted on those commits.  Everything here lives outside the program;    *)
(* its behaviour is what src/internal/gitea and src/internal/github rely   *)
(* on.                                                                     *)
(*                                                                         *)
(* A commit is an identity and its content: the commit it was built on and *)
(* the queue entries whose heads it merges.  Identities are never reused,  *)
(* as two merge commits of the same parents still differ (commit-tree      *)
(* stamps them).                                                           *)
(***************************************************************************)
EXTENDS Integers, Sequences, FiniteSets, CheckEval

CONSTANTS
    MaxEntries,     \* bound: queue entries ever inserted
    MaxCommits,     \* bound: commits ever created, the initial tip included
    MaxPushes,      \* bound: pushes to the target by somebody else
    MaxRuns,        \* bound: results CI posts per commit and context
    Contexts,       \* check contexts CI reports on
    Required,       \* the resolved required contexts of the target branch
    ReportStates    \* the states CI posts

ASSUME BoundsAssumption ==
    /\ MaxEntries \in Nat \ {0}
    /\ MaxCommits \in Nat \ {0}
    /\ MaxPushes \in Nat
    /\ MaxRuns \in Nat

ASSUME ChecksAssumption ==
    /\ Required \subseteq Contexts
    /\ ReportStates \subseteq CheckState

Ids    == 1 .. MaxEntries    \* queue_entries.id
Shas   == 1 .. MaxCommits
NoSha  == 0                  \* a NULL merge_branch_sha or branch_sha

VARIABLES
    tip,       \* the commit the target branch points to
    commits,   \* Shas -> what each commit contains
    last,      \* the newest commit
    reports    \* Shas -> Contexts -> the results posted so far, oldest first

forgeVars == <<tip, commits, last, reports>>

Commit == [base : 0 .. MaxCommits, ids : SUBSET Ids]

ForgeTypeOK ==
    /\ tip \in Shas
    /\ last \in Shas
    /\ commits \in [Shas -> Commit]
    /\ reports \in [Shas -> [Contexts -> Seq(ReportStates)]]

ForgeInit ==
    /\ tip = 1
    /\ last = 1
    /\ commits = [s \in Shas |-> [base |-> NoSha, ids |-> {}]]
    /\ reports = [s \in Shas |-> [c \in Contexts |-> <<>>]]

(* The commits made by builds of the queue; the others are foreign.        *)
Builds == {s \in 1 .. last : commits[s].ids # {}}

(* CI said st about context c of commit s at some time.                    *)
Reported(s, c, st) ==
    \E i \in 1 .. Len(reports[s][c]) : reports[s][c][i] = st

(* Negative control: the push is forced.                                   *)
CanForce(s) == s \in Shas

(* git's fast-forward rule: the old tip must be an ancestor of the new     *)
(* commit.  Pushing what is already there is a no-op success.              *)
CanFastForward(s) == s \in Shas /\ tip \in {s, commits[s].base}

(* StackMerges, or CreateMergeBranch followed by MergeInto: one new commit *)
(* merging `ids' on top of the current tip of the target.                  *)
StackOnTip(ids) ==
    /\ last < MaxCommits
    /\ last' = last + 1
    /\ commits' = [commits EXCEPT ![last + 1] = [base |-> tip, ids |-> ids]]

(* Somebody pushes to the target branch directly.                          *)
TargetPush ==
    /\ last < MaxCommits
    /\ Cardinality({s \in 2 .. last : commits[s].ids = {}}) < MaxPushes
    /\ last' = last + 1
    /\ commits' = [commits EXCEPT ![last + 1] = [base |-> tip, ids |-> {}]]
    /\ tip' = last + 1
    /\ UNCHANGED reports

(* CI posts a result on a build; a re-run posts again.                     *)
CIReport(s, c, st) ==
    /\ s \in Builds
    /\ Len(reports[s][c]) < MaxRuns
    /\ reports' = [reports EXCEPT ![s][c] = Append(@, st)]
    /\ UNCHANGED <<tip, commits, last>>

=============================================================================
