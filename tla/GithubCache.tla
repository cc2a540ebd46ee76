------------------------------ MODULE GithubCache ------------------------------
(***************************************************************************)
(* What the GitHub client reads, through the ETag cache that all clients   *)
(* of the App share (src/internal/github/etagcache.go): the check runs of  *)
(* one name on one commit, and which installation covers a repository, as  *)
(* src/internal/github/ghfake keeps them.  A GET is sent with the tag of   *)
(* the entry found under its key, answered, and received, in three steps.  *)
(* A tag stands for the body: two bodies with one tag are equal.           *)
(***************************************************************************)
EXTENDS Integers, Sequences, FiniteSets

CONSTANTS
    Repos,
    Writers,        \* goroutines that call SetMQStatus, MirrorCheck, GetCheckStates
    Refresher,      \* discovery's goroutine
    Installed,      \* Repos -> the installation that covers it at first
    MaxInstalls,    \* bound: installations there ever are
    MaxSize         \* entries of the cache

ASSUME CacheAssumption ==
    /\ IsFiniteSet(Repos) /\ IsFiniteSet(Writers)
    /\ MaxInstalls \in Nat /\ Installed \in [Repos -> 1 .. Cardinality(Repos)]
    /\ Cardinality(Repos) <= MaxInstalls
    /\ MaxSize \in Nat \ {0}
    /\ Refresher \notin Writers

Installs == 1 .. MaxInstalls
Clients  == Writers \cup {Refresher}

(* A GET, and what it is cached under: a listing of the repositories is    *)
(* the same URL for every installation, whose tokens are no part of it.    *)
Resources == {<<"lookup", 0>>, <<"states", 0>>, <<"installs", 0>>}
                 \cup {<<"repos", i>> : i \in Installs}
cacheKey(res) == res[1]
Keys == {cacheKey(res) : res \in Resources}

States      == {"pending", "success", "failure", "error", "skipped"}
Statuses    == {"queued", "in_progress", "completed"}
Conclusions == {"", "success", "failure", "cancelled", "skipped"}

VARIABLES
    runs,       \* the check runs, the identifier of one being its position
    inst,       \* the installation that covers a repository, or 0
    installs,   \* installations so far
    entries,    \* the cache: the body under a key, or {} without an entry
    req         \* the GET of each client

server == <<runs, inst, installs>>

Run == [status : Statuses, conclusion : Conclusions]

BodyOf(res, checks, covering) ==
    CASE res[1] \in {"lookup", "states"} -> checks
      [] res[1] = "installs"             -> {covering[r] : r \in Repos} \ {0}
      [] res[1] = "repos"                -> {r \in Repos : covering[r] = res[2]}
Body(res) == BodyOf(res, runs, inst)

(* entry: what RoundTrip found, got: the body of the answer; "none" is no  *)
(* entry and "304" no body.  seen is history for NoStaleRead: the bodies   *)
(* the server had since the request was sent.                              *)
NoReq == [at |-> "idle", res |-> <<"states", 0>>, entry |-> {}, got |-> {},
          notModified |-> FALSE, seen |-> {}]

CacheTypeOK ==
    /\ runs \in Seq(Run)
    /\ inst \in [Repos -> 0 .. MaxInstalls] /\ installs \in 0 .. MaxInstalls
    /\ \A k \in Keys : Cardinality(entries[k]) <= 1
    /\ Cardinality({k \in Keys : entries[k] # {}}) <= MaxSize
    /\ \A c \in Clients : req[c].at \in {"idle", "sent", "answered", "done"}
                          /\ req[c].res \in Resources

CacheInit ==
    /\ runs = <<>>
    /\ inst = Installed /\ installs = Cardinality(Repos)
    /\ entries = [k \in Keys |-> {}]
    /\ req = [c \in Clients |-> NoReq]

(* --- the server's own steps ------------------------------------------------ *)

(* What every request under way may be answered from now on.               *)
Observed ==
    req' = [c \in Clients |->
               IF req[c].at = "sent"
               THEN [req[c] EXCEPT !.seen = @ \cup {BodyOf(req[c].res, runs', inst')}]
               ELSE req[c]]

hCreateCheckRun(status, conclusion) ==
    /\ runs' = Append(runs, [status |-> status, conclusion |-> conclusion])
    /\ UNCHANGED <<inst, installs>>
    /\ Observed

(* A PATCH without a conclusion leaves the old one.                        *)
hUpdateCheckRun(id, status, conclusion) ==
    /\ runs' = [runs EXCEPT ![id] =
                   [status |-> status,
                    conclusion |-> IF conclusion = "" THEN @.conclusion
                                   ELSE conclusion]]
    /\ UNCHANGED <<inst, installs>>
    /\ Observed

Uninstall(r) ==
    /\ inst[r] # 0
    /\ inst' = [inst EXCEPT ![r] = 0]
    /\ UNCHANGED <<runs, installs>>
    /\ Observed

Install(r) ==
    /\ inst[r] = 0 /\ installs < MaxInstalls
    /\ inst' = [inst EXCEPT ![r] = installs + 1] /\ installs' = installs + 1
    /\ UNCHANGED runs
    /\ Observed

(* --- RoundTrip ------------------------------------------------------------- *)

Send(c, res) ==
    req' = [req EXCEPT ![c] = [at |-> "sent", res |-> res,
                               entry |-> entries[cacheKey(res)], got |-> {},
                               notModified |-> FALSE, seen |-> {Body(res)}]]

(* A 304 when the tag is that of the body.                                 *)
Answer(c) ==
    /\ req[c].at = "sent"
    /\ LET body == Body(req[c].res)
       IN  req' = [req EXCEPT ![c].at = "answered",
                              ![c].notModified = body \in req[c].entry,
                              ![c].got = IF body \in req[c].entry THEN {} ELSE {body}]
    /\ UNCHANGED <<server, entries>>

(* Negative control: the cache grows.                                      *)
putAlways(key, body) == entries' = [entries EXCEPT ![key] = {body}]

(* A full cache is emptied first.                                          *)
put(key, body) ==
    entries' = [k \in Keys |->
                   IF k = key THEN {body}
                   ELSE IF Cardinality({j \in Keys : entries[j] # {}}) >= MaxSize
                        THEN {} ELSE entries[k]]

(* Negative control: a 304 replays what is under the key by now.           *)
ReceiveCurrent(c) ==
    /\ req[c].at = "answered"
    /\ LET key == cacheKey(req[c].res)
       IN  IF req[c].notModified
           THEN /\ req' = [req EXCEPT ![c].at = "done", ![c].got = entries[key]]
                /\ UNCHANGED entries
           ELSE /\ req' = [req EXCEPT ![c].at = "done"]
                /\ \E body \in req[c].got : put(key, body)
    /\ UNCHANGED server

(* A 304 replays the entry whose tag was sent.                             *)
Receive(c) ==
    /\ req[c].at = "answered"
    /\ IF req[c].notModified
       THEN /\ req' = [req EXCEPT ![c].at = "done", ![c].got = req[c].entry]
            /\ UNCHANGED entries
       ELSE /\ req' = [req EXCEPT ![c].at = "done"]
            /\ \E body \in req[c].got : put(cacheKey(req[c].res), body)
    /\ UNCHANGED server

Get(c) == Answer(c) \/ Receive(c)

(* The client has its answer.                                              *)
Done(c, res) == req[c].at = "done" /\ req[c].res = res
Result(c)    == CHOOSE body \in req[c].got : TRUE

(* Every GET returns what the server had at some time between the request  *)
(* and the answer, whatever other requests do to the shared cache and      *)
(* although all installations list their repositories under one key        *)
(* (etagcache.go:36-97).                                                   *)
NoStaleRead ==
    \A c \in Clients :
        req[c].at = "done" => req[c].got # {} /\ req[c].got \subseteq req[c].seen

=============================================================================
