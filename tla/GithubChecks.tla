------------------------------ MODULE GithubChecks ------------------------------
(***************************************************************************)
(* The GitHub App's client: which installation's token a repository is     *)
(* reached with (src/internal/github/app.go), and the check run that shows *)
(* one status on one commit (src/internal/github/checkrun.go), written by  *)
(* several goroutines over a cache of identifiers that a restart loses.    *)
(***************************************************************************)
EXTENDS GithubCache

CONSTANTS
    Repo,           \* the repository of the commit
    Written,        \* the states that are written
    MaxCalls,       \* bound: calls of upsertCheckRun and GetCheckStates
    MaxRefreshes,   \* bound: calls of Refresh
    MaxChanges,     \* bound: changes of what the App is installed on
    MaxFaults       \* bound: requests lost, with or without effect; restarts

ASSUME ChecksAssumption ==
    /\ Repo \in Repos /\ Written \subseteq States
    /\ {MaxCalls, MaxRefreshes, MaxChanges, MaxFaults} \subseteq Nat

VARIABLES
    ids,        \* checkRunCache: the identifier of the run, or 0
    up,         \* upsertCheckRun of each writer
    routed,     \* repoInstall: the installation of a repository, or 0
    fresh,      \* Refresh
    calls, refreshes, changes, faults,
    (* History, read by properties only: the state the last upsert wrote,  *)
    (* if it ran alone and succeeded; repositories covered since Refresh   *)
    (* began; since the last Refresh that succeeded began.                 *)
    owed, covered, steady

app    == <<routed, fresh, refreshes, covered, steady>>
status == <<ids, up, calls, owed>>
bounds == <<changes, faults>>
vars   == <<server, entries, req, app, status, bounds>>

NoUp      == [at |-> "idle", state |-> "pending", id |-> 0]
NoRefresh == [at |-> "idle", todo |-> {}, found |-> [r \in Repos |-> 0]]

ChecksTypeOK ==
    /\ CacheTypeOK
    /\ ids \in 0 .. Len(runs)
    /\ \A w \in Writers :
          /\ up[w].at \in {"idle", "lookup", "create", "patch", "reply"}
          /\ up[w].state \in States
          /\ up[w].id \in 0 .. Len(runs)
          /\ up[w].at \in {"patch", "reply"} => up[w].id # 0
    /\ routed \in [Repos -> 0 .. MaxInstalls]
    /\ fresh.at \in {"idle", "installs", "repos"} /\ fresh.todo \subseteq Installs
    /\ fresh.found \in [Repos -> 0 .. MaxInstalls]
    /\ owed \in States \cup {"unknown"}
    /\ covered \subseteq Repos /\ steady \subseteq Repos
    /\ calls \in 0 .. MaxCalls /\ refreshes \in 0 .. MaxRefreshes
    /\ changes \in 0 .. MaxChanges /\ faults \in 0 .. MaxFaults

Init ==
    /\ CacheInit
    /\ ids = 0 /\ up = [w \in Writers |-> NoUp]
    /\ routed = [r \in Repos |-> 0] /\ fresh = NoRefresh
    /\ calls = 0 /\ refreshes = 0 /\ changes = 0 /\ faults = 0
    /\ owed = "unknown" /\ covered = {} /\ steady = {}

Fault == faults < MaxFaults /\ faults' = faults + 1

Call == calls < MaxCalls /\ calls' = calls + 1

(* --- Refresh ----------------------------------------------------------------- *)

RefreshStart ==
    /\ fresh.at = "idle"
    /\ refreshes < MaxRefreshes /\ refreshes' = refreshes + 1
    /\ Send(Refresher, <<"installs", 0>>)
    /\ fresh' = [NoRefresh EXCEPT !.at = "installs"]
    /\ covered' = {r \in Repos : inst[r] # 0}
    /\ UNCHANGED <<server, entries, routed, steady, status, bounds>>

(* The next installation's repositories, or the new map.                   *)
RefreshNext(todo, found) ==
    \/ /\ \E i \in todo : /\ Send(Refresher, <<"repos", i>>)
                          /\ fresh' = [at |-> "repos", todo |-> todo \ {i},
                                       found |-> found]
       /\ UNCHANGED <<routed, steady>>
    \/ /\ todo = {}
       /\ routed' = found /\ steady' = covered
       /\ fresh' = NoRefresh
       /\ req' = [req EXCEPT ![Refresher] = NoReq]

RefreshInstalls ==
    /\ fresh.at = "installs" /\ Done(Refresher, <<"installs", 0>>)
    /\ RefreshNext(Result(Refresher), fresh.found)
    /\ UNCHANGED <<server, entries, refreshes, covered, status, bounds>>

RefreshRepos ==
    /\ fresh.at = "repos"
    /\ \E i \in Installs :
          /\ Done(Refresher, <<"repos", i>>)
          /\ RefreshNext(fresh.todo,
                         [r \in Repos |-> IF r \in Result(Refresher) THEN i
                                          ELSE fresh.found[r]])
    /\ UNCHANGED <<server, entries, refreshes, covered, status, bounds>>

(* Negative control: what was found so far is taken for everything.        *)
RefreshKeepsPart ==
    /\ fresh.at # "idle" /\ Fault /\ UNCHANGED changes
    /\ routed' = fresh.found
    /\ fresh' = NoRefresh
    /\ req' = [req EXCEPT ![Refresher] = NoReq]
    /\ UNCHANGED <<server, entries, refreshes, covered, steady, status>>

(* A request fails; an installation that is gone may fail its own.         *)
RefreshFails ==
    /\ fresh.at # "idle"
    /\ \/ Fault /\ UNCHANGED changes
       \/ /\ req[Refresher].res \in {<<"repos", i>> : i \in Installs}
          /\ Body(req[Refresher].res) = {}
          /\ UNCHANGED bounds
    /\ fresh' = NoRefresh
    /\ req' = [req EXCEPT ![Refresher] = NoReq]
    /\ UNCHANGED <<server, entries, routed, refreshes, covered, steady, status>>

Refresh == RefreshStart \/ RefreshInstalls \/ RefreshRepos \/ RefreshFails

(* --- upsertCheckRun ---------------------------------------------------------- *)

checkRunFields(state) ==
    CASE state = "pending" -> [status |-> "in_progress", conclusion |-> ""]
      [] state = "error"   -> [status |-> "completed", conclusion |-> "cancelled"]
      [] OTHER             -> [status |-> "completed", conclusion |-> state]

(* Negative control: the conclusion a PATCH left is believed.              *)
ConclusionFirst(run) ==
    CASE run.conclusion = "" -> "pending"
      [] run.conclusion \in {"success", "skipped"} -> "success"
      [] run.conclusion = "failure" -> "failure"
      [] OTHER -> "error"

CheckRunToState(run) ==
    CASE run.status # "completed" -> "pending"
      [] run.status = "completed" /\ run.conclusion \in {"success", "skipped"} -> "success"
      [] run.status = "completed" /\ run.conclusion = "failure" -> "failure"
      [] OTHER -> "error"

Alone(w) == \A v \in Writers \ {w} : up[v].at = "idle"

Begins(w, state) ==
    /\ up[w].at = "idle" /\ req[w].at = "idle" /\ Call
    /\ routed[Repo] # 0                         \* ClientForRepo
    /\ owed' = IF Alone(w) THEN state ELSE "unknown"

(* Negative control: no look at the commit after a restart.                *)
BeginCold(w) ==
    /\ \E state \in Written :
          /\ Begins(w, state)
          /\ up' = [up EXCEPT ![w] = [at |-> IF ids # 0 THEN "patch" ELSE "create",
                                      state |-> state, id |-> ids]]
    /\ UNCHANGED <<server, entries, req, ids, app, bounds>>

Begin(w) ==
    /\ \E state \in Written :
          /\ Begins(w, state)
          /\ \/ /\ ids # 0
                /\ up' = [up EXCEPT ![w] = [at |-> "patch", state |-> state, id |-> ids]]
                /\ UNCHANGED req
             \/ /\ ids = 0
                /\ up' = [up EXCEPT ![w] = [at |-> "lookup", state |-> state, id |-> 0]]
                /\ Send(w, <<"lookup", 0>>)
    /\ UNCHANGED <<server, entries, ids, app, bounds>>

LookedUp(w) ==
    /\ up[w].at = "lookup" /\ Done(w, <<"lookup", 0>>)
    /\ up' = [up EXCEPT ![w] = IF Len(Result(w)) > 0
                               THEN [@ EXCEPT !.at = "patch", !.id = 1]
                               ELSE [@ EXCEPT !.at = "create"]]
    /\ req' = [req EXCEPT ![w] = NoReq]
    /\ UNCHANGED <<server, entries, ids, calls, owed, app, bounds>>

Create(w) ==
    /\ up[w].at = "create"
    /\ LET run == checkRunFields(up[w].state)
       IN  hCreateCheckRun(run.status, run.conclusion)
    /\ up' = [up EXCEPT ![w].at = "reply", ![w].id = Len(runs) + 1]
    /\ UNCHANGED <<entries, ids, calls, owed, app, bounds>>

Patch(w) ==
    /\ up[w].at = "patch"
    /\ LET run == checkRunFields(up[w].state)
       IN  hUpdateCheckRun(up[w].id, run.status, run.conclusion)
    /\ up' = [up EXCEPT ![w].at = "reply"]
    /\ UNCHANGED <<entries, ids, calls, owed, app, bounds>>

Remember(w) ==
    /\ up[w].at = "reply"
    /\ ids' = up[w].id
    /\ up' = [up EXCEPT ![w] = NoUp]
    /\ UNCHANGED <<server, entries, req, calls, owed, app, bounds>>

(* A request or its answer is lost.                                        *)
UpsertFails(w) ==
    /\ up[w].at # "idle" /\ Fault
    /\ up' = [up EXCEPT ![w] = NoUp] /\ req' = [req EXCEPT ![w] = NoReq]
    /\ owed' = "unknown"
    /\ UNCHANGED <<server, entries, ids, calls, app, changes>>

upsertCheckRun(w) ==
    \/ Begin(w) \/ LookedUp(w) \/ Create(w) \/ Patch(w) \/ Remember(w)
    \/ UpsertFails(w)

(* --- GetCheckStates ---------------------------------------------------------- *)

ReadStates(w) ==
    /\ up[w].at = "idle"
    /\ \/ /\ req[w].at = "idle" /\ routed[Repo] # 0 /\ Call
          /\ Send(w, <<"states", 0>>)
       \/ /\ req[w].at = "done" /\ req' = [req EXCEPT ![w] = NoReq]
          /\ UNCHANGED calls
    /\ UNCHANGED <<server, entries, app, ids, up, owed, bounds>>

(* Of several runs of one name the last wins.                              *)
GetCheckStates == CheckRunToState(runs[Len(runs)])

(* --- the rest ---------------------------------------------------------------- *)

InstallationChanges ==
    /\ changes < MaxChanges /\ changes' = changes + 1
    /\ \E r \in Repos :
          \/ /\ Uninstall(r)
             /\ covered' = covered \ {r} /\ steady' = steady \ {r}
          \/ Install(r) /\ UNCHANGED <<covered, steady>>
    /\ UNCHANGED <<entries, routed, fresh, refreshes, status, faults>>

Restart ==
    /\ Fault
    /\ ids' = 0 /\ up' = [w \in Writers |-> NoUp] /\ owed' = "unknown"
    /\ routed' = [r \in Repos |-> 0] /\ fresh' = NoRefresh
    /\ covered' = {} /\ steady' = {}
    /\ entries' = [k \in Keys |-> {}] /\ req' = [c \in Clients |-> NoReq]
    /\ UNCHANGED <<server, calls, refreshes, changes>>

Next ==
    \/ Refresh \/ InstallationChanges \/ Restart
    \/ \E w \in Writers : upsertCheckRun(w) \/ ReadStates(w)
    \/ \E c \in Clients : Get(c) /\ UNCHANGED <<app, status, bounds>>

Spec == Init /\ [][Next]_vars

(* --- Properties ---------------------------------------------------------------- *)

(* However often it is written, with answers lost and restarts that forget *)
(* the identifier, a commit carries one run per goroutine that may look it *)
(* up at a time, and so one when a single goroutine writes                *)
(* (checkrun.go:13-15, checkrun.go:81-94).                                 *)
FewRuns == Len(runs) <= Cardinality(Writers)

(* What is read back is what the last upsert wrote when it ran alone and   *)
(* succeeded, although a PATCH to pending leaves the old conclusion in     *)
(* place; with several runs the one read need not be the one written       *)
(* (checkrun.go:37-72, forge.go:128-140).                                  *)
ShowsLastWrite ==
    (\A w \in Writers : up[w].at = "idle") /\ owed # "unknown" /\ Len(runs) = 1
        => GetCheckStates = CheckRunToState(checkRunFields(owed))

(* A repository covered ever since the last Refresh that succeeded began   *)
(* is reached through its installation: no Refresh under way, and none     *)
(* that fails half-way, hides it (app.go:108-134).                         *)
RefreshKeepsCovered == \A r \in steady : routed[r] = inst[r]

=============================================================================
