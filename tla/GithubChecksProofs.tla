-------------------------- MODULE GithubChecksProofs --------------------------
(***************************************************************************)
(* What holds of the App's client for any number of repositories, writers, *)
(* installations, calls and faults: what is read was on the server while   *)
(* it was asked for, a refresh hides no repository, and check runs show    *)
(* the last write.                                                         *)
(***************************************************************************)
EXTENDS GithubChecks, FiniteSetTheorems, TLAPS

(***************************************************************************)
(* The inductive invariant.                                                *)
(***************************************************************************)

Bodies == Seq(Run) \cup (SUBSET Installs) \cup (SUBSET Repos)

Request == [at          : {"idle", "sent", "answered", "done"},
            res         : Resources,
            entry       : SUBSET Bodies,
            got         : SUBSET Bodies,
            notModified : BOOLEAN,
            seen        : SUBSET Bodies]

Upsert == [at    : {"idle", "lookup", "create", "patch", "reply"},
           state : States,
           id    : Nat]

Refreshed == [at    : {"idle", "installs", "repos"},
              todo  : SUBSET Installs,
              found : [Repos -> 0 .. MaxInstalls]]

ServerTypes ==
    /\ runs \in Seq(Run)
    /\ inst \in [Repos -> 0 .. MaxInstalls] /\ installs \in 0 .. MaxInstalls

CacheTypes == entries \in [Keys -> SUBSET Bodies] /\ req \in [Clients -> Request]

AppTypes ==
    /\ routed \in [Repos -> 0 .. MaxInstalls]
    /\ fresh \in Refreshed
    /\ covered \subseteq Repos /\ steady \subseteq Repos

StatusTypes ==
    /\ up \in [Writers -> Upsert]
    /\ owed \in States \cup {"unknown"}

Counters ==
    /\ calls \in 0 .. MaxCalls /\ refreshes \in 0 .. MaxRefreshes
    /\ changes \in 0 .. MaxChanges /\ faults \in 0 .. MaxFaults

(* An entry of the cache is one body, and there are not too many.          *)
Bounded ==
    /\ \A k \in Keys : \A a, b \in entries[k] : a = b
    /\ Cardinality({k \in Keys : entries[k] # {}}) <= MaxSize

(* What a request may be answered with, and is.                            *)
Honest(c) ==
    /\ \A a, b \in req[c].entry : a = b
    /\ req[c].at = "sent" => Body(req[c].res) \in req[c].seen
    /\ req[c].at = "answered" =>
          LET told == IF req[c].notModified THEN req[c].entry ELSE req[c].got
          IN  told # {} /\ told \subseteq req[c].seen /\ \A a, b \in told : a = b
    /\ req[c].at = "done" => req[c].got # {} /\ req[c].got \subseteq req[c].seen

(* The bodies are of the resource that was asked for.                      *)
Shaped(c) ==
    \A b \in req[c].seen :
        /\ cacheKey(req[c].res) \in {"lookup", "states"} =>
               b \in Seq(Run) /\ Len(b) <= Len(runs)
        /\ cacheKey(req[c].res) = "installs" => b \subseteq Installs
        /\ cacheKey(req[c].res) = "repos" => b \subseteq Repos

CacheInv ==
    /\ ServerTypes /\ CacheTypes /\ Bounded
    /\ \A c \in Clients : Honest(c) /\ Shaped(c)

(***************************************************************************)
(* Constants.                                                              *)
(***************************************************************************)

LEMMA Sizes ==
  /\ MaxInstalls \in Nat /\ MaxSize \in Nat \ {0}
  /\ Cardinality(Repos) \in Nat /\ Cardinality(Repos) <= MaxInstalls
  /\ MaxCalls \in Nat /\ MaxRefreshes \in Nat /\ MaxChanges \in Nat
  /\ MaxFaults \in Nat
  <1>1. Cardinality(Repos) \in Nat BY CacheAssumption, FS_CardinalityType
  <1>2. {MaxCalls, MaxRefreshes, MaxChanges, MaxFaults} \subseteq Nat
    BY ChecksAssumption
  <1>3. MaxCalls \in Nat /\ MaxRefreshes \in Nat /\ MaxChanges \in Nat
        /\ MaxFaults \in Nat
    BY <1>2, Zenon
  <1> QED BY <1>1, <1>3, CacheAssumption

LEMMA KeysAre ==
  /\ Keys \subseteq {"lookup", "states", "installs", "repos"}
  /\ IsFiniteSet(Keys)
  /\ \A res \in Resources : cacheKey(res) \in Keys
  <1>1. \A res \in Resources :
          cacheKey(res) \in {"lookup", "states", "installs", "repos"}
    BY DEF Resources, cacheKey
  <1>2. Keys \subseteq {"lookup", "states", "installs", "repos"}
    BY <1>1 DEF Keys
  <1>3. IsFiniteSet({"lookup", "states", "installs", "repos"})
    <2>1. IsFiniteSet({"lookup"}) BY FS_Singleton
    <2>2. IsFiniteSet({"lookup"} \cup {"states"}) BY <2>1, FS_AddElement
    <2>3. IsFiniteSet(({"lookup"} \cup {"states"}) \cup {"installs"})
      BY <2>2, FS_AddElement
    <2>4. IsFiniteSet((({"lookup"} \cup {"states"}) \cup {"installs"}) \cup {"repos"})
      BY <2>3, FS_AddElement
    <2>5. (({"lookup"} \cup {"states"}) \cup {"installs"}) \cup {"repos"}
            = {"lookup", "states", "installs", "repos"}
      OBVIOUS
    <2> QED BY <2>4, <2>5, Zenon
  <1> QED BY <1>2, <1>3, FS_Subset DEF Keys

LEMMA ClientsAre ==
  /\ Refresher \in Clients /\ Writers \subseteq Clients
  /\ Refresher \notin Writers
  BY CacheAssumption DEF Clients

(* What the server answers is of the resource's kind.                      *)
LEMMA BodyTypes ==
  ASSUME NEW checks \in Seq(Run), NEW covering \in [Repos -> 0 .. MaxInstalls],
         NEW res \in Resources
  PROVE  /\ BodyOf(res, checks, covering) \in Bodies
         /\ cacheKey(res) \in {"lookup", "states"} =>
                BodyOf(res, checks, covering) = checks
         /\ cacheKey(res) = "installs" =>
                /\ BodyOf(res, checks, covering) = {covering[r] : r \in Repos} \ {0}
                /\ BodyOf(res, checks, covering) \subseteq Installs
         /\ cacheKey(res) = "repos" =>
                /\ BodyOf(res, checks, covering) = {r \in Repos : covering[r] = res[2]}
                /\ BodyOf(res, checks, covering) \subseteq Repos
  <1>1. CASE res[1] \in {"lookup", "states"}
    BY <1>1 DEF BodyOf, cacheKey, Bodies
  <1>2. CASE res[1] = "installs"
    <2>1. BodyOf(res, checks, covering) = {covering[r] : r \in Repos} \ {0}
      BY <1>2 DEF BodyOf
    <2>2. {covering[r] : r \in Repos} \ {0} \subseteq Installs
      BY Sizes DEF Installs
    <2> QED BY <1>2, <2>1, <2>2 DEF cacheKey, Bodies
  <1>3. CASE res[1] = "repos"
    <2>1. BodyOf(res, checks, covering) = {r \in Repos : covering[r] = res[2]}
      BY <1>3 DEF BodyOf
    <2>2. BodyOf(res, checks, covering) \subseteq Repos BY <2>1
    <2>3. BodyOf(res, checks, covering) \in Bodies
      <3>1. ASSUME NEW S, S \subseteq Repos PROVE S \in Bodies
        <4>1. S \in SUBSET Repos BY <3>1
        <4> QED BY ONLY <4>1 DEF Bodies
      <3> QED BY <2>2, <3>1, Zenon
    <2> QED BY <1>3, <2>1, <2>2, <2>3 DEF cacheKey
  <1> QED BY <1>1, <1>2, <1>3 DEF Resources

(***************************************************************************)
(* The cache under the steps of its clients.  A step of the App sends a    *)
(* request, takes an answer, forgets one, changes the server, or restarts. *)
(***************************************************************************)

Asks(c, res) == Send(c, res) /\ UNCHANGED <<server, entries>>

Takes(c) == req' = [req EXCEPT ![c] = NoReq] /\ UNCHANGED <<server, entries>>

Changes ==
    /\ Observed /\ UNCHANGED entries
    /\ ServerTypes' /\ Len(runs) <= Len(runs')

Forgets ==
    /\ entries' = [k \in Keys |-> {}] /\ req' = [c \in Clients |-> NoReq]
    /\ UNCHANGED server

LEMMA NoReqIs ==
  /\ NoReq \in Request
  /\ NoReq.at = "idle" /\ NoReq.entry = {} /\ NoReq.got = {} /\ NoReq.seen = {}
  /\ NoReq.res = <<"states", 0>>
  <1>1. <<"states", 0>> \in Resources BY DEF Resources
  <1> QED BY <1>1 DEF NoReq, Request

LEMMA Asked ==
  ASSUME CacheInv, NEW c \in Clients, NEW res \in Resources, Asks(c, res)
  PROVE  CacheInv'
  <1>0. /\ ServerTypes /\ entries \in [Keys -> SUBSET Bodies]
        /\ req \in [Clients -> Request] /\ Bounded
        /\ cacheKey(res) \in Keys
    BY KeysAre DEF CacheInv, CacheTypes
  <1>1. UNCHANGED <<runs, inst, installs, entries>> BY DEF Asks, server
  <1>2. Body(res) \in Bodies BY <1>0, BodyTypes DEF ServerTypes, Body
  <1> DEFINE q == [at |-> "sent", res |-> res, entry |-> entries[cacheKey(res)],
                   got |-> {}, notModified |-> FALSE, seen |-> {Body(res)}]
  <1>3. req' = [req EXCEPT ![c] = q] BY DEF Asks, Send
  <1>4. q \in Request BY <1>0, <1>2 DEF Request
  <1>5. /\ q.at = "sent" /\ q.res = res /\ q.entry = entries[cacheKey(res)]
        /\ q.seen = {Body(res)}
    OBVIOUS
  <1> HIDE DEF q
  <1>6. req' \in [Clients -> Request] /\ req'[c] = q
        /\ \A d \in Clients : d # c => req'[d] = req[d]
    BY <1>0, <1>3, <1>4
  <1>7. ServerTypes' BY <1>0, <1>1 DEF ServerTypes
  <1>8. CacheTypes' /\ Bounded' BY <1>0, <1>1, <1>6 DEF CacheTypes, Bounded
  <1>9. ASSUME NEW d \in Clients PROVE Honest(d)' /\ Shaped(d)'
    <2>1. CASE d = c
      <3>1. Honest(c)'
        BY <1>0, <1>1, <1>5, <1>6 DEF Honest, Bounded, Body
      <3>2. Shaped(c)'
        BY <1>0, <1>1, <1>5, <1>6, BodyTypes DEF Shaped, Body, ServerTypes
      <3> QED BY <2>1, <3>1, <3>2
    <2>2. CASE d # c
      <3>1. Honest(d) /\ Shaped(d) /\ req'[d] = req[d] BY <1>6, <2>2 DEF CacheInv
      <3>2. Honest(d)' BY <1>1, <3>1 DEF Honest, Body
      <3>3. Shaped(d)' BY <1>1, <3>1 DEF Shaped
      <3> QED BY <3>2, <3>3
    <2> QED BY <2>1, <2>2
  <1> QED BY <1>7, <1>8, <1>9 DEF CacheInv

LEMMA Taken ==
  ASSUME CacheInv, NEW c \in Clients, Takes(c)
  PROVE  CacheInv'
  <1>0. /\ ServerTypes /\ entries \in [Keys -> SUBSET Bodies]
        /\ req \in [Clients -> Request] /\ Bounded
    BY DEF CacheInv, CacheTypes
  <1>1. UNCHANGED <<runs, inst, installs, entries>> BY DEF Takes, server
  <1>2. req' \in [Clients -> Request] /\ req'[c] = NoReq
        /\ \A d \in Clients : d # c => req'[d] = req[d]
    BY <1>0, NoReqIs DEF Takes
  <1>3. ServerTypes' BY <1>0, <1>1 DEF ServerTypes
  <1>4. CacheTypes' /\ Bounded' BY <1>0, <1>1, <1>2 DEF CacheTypes, Bounded
  <1>5. ASSUME NEW d \in Clients PROVE Honest(d)' /\ Shaped(d)'
    <2>1. CASE d = c BY <1>2, <2>1, NoReqIs DEF Honest, Shaped
    <2>2. CASE d # c
      <3>1. Honest(d) /\ Shaped(d) /\ req'[d] = req[d] BY <1>2, <2>2 DEF CacheInv
      <3>2. Honest(d)' BY <1>1, <3>1 DEF Honest, Body
      <3>3. Shaped(d)' BY <1>1, <3>1 DEF Shaped
      <3> QED BY <3>2, <3>3
    <2> QED BY <2>1, <2>2
  <1> QED BY <1>3, <1>4, <1>5 DEF CacheInv

LEMMA Changed ==
  ASSUME CacheInv, Changes
  PROVE  CacheInv'
  <1>0. /\ ServerTypes /\ ServerTypes' /\ entries \in [Keys -> SUBSET Bodies]
        /\ req \in [Clients -> Request] /\ Bounded /\ entries' = entries
        /\ Len(runs) <= Len(runs')
    BY DEF CacheInv, CacheTypes, Changes
  <1>1. ASSUME NEW c \in Clients
        PROVE  /\ req'[c] \in Request /\ Honest(c)' /\ Shaped(c)'
    <2> DEFINE b == BodyOf(req[c].res, runs', inst')
    <2>1. req[c] \in Request /\ Honest(c) /\ Shaped(c) /\ req[c].res \in Resources
      BY <1>0 DEF CacheInv, Request
    <2>2. req'[c] = IF req[c].at = "sent" THEN [req[c] EXCEPT !.seen = @ \cup {b}]
                    ELSE req[c]
      BY DEF Changes, Observed
    <2>3. b \in Bodies BY <1>0, <2>1, BodyTypes DEF ServerTypes
    <2>4. /\ cacheKey(req[c].res) \in {"lookup", "states"} => b = runs'
          /\ cacheKey(req[c].res) = "installs" => b \subseteq Installs
          /\ cacheKey(req[c].res) = "repos" => b \subseteq Repos
      BY <1>0, <2>1, BodyTypes DEF ServerTypes
    <2>5. Body(req[c].res)' = BodyOf(req'[c].res, runs', inst') BY DEF Body
    <2>6. CASE req[c].at = "sent"
      <3>1. req'[c] = [req[c] EXCEPT !.seen = @ \cup {b}] BY <2>2, <2>6
      <3>5. req[c].seen \cup {b} \in SUBSET Bodies BY <2>1, <2>3 DEF Request
      <3> HIDE DEF b
      <3>2. /\ req'[c].at = "sent" /\ req'[c].res = req[c].res
            /\ req'[c].entry = req[c].entry /\ req'[c].seen = req[c].seen \cup {b}
        BY <2>1, <2>6, <3>1 DEF Request
      <3>3. req'[c] \in Request BY <2>1, <3>1, <3>5 DEF Request
      <3>4. Honest(c)'
        <4>1. Body(req[c].res)' \in req'[c].seen
          BY <2>5, <3>2 DEF b
        <4> QED BY <2>1, <3>2, <4>1 DEF Honest
      <3>6. Shaped(c)'
        <4> SUFFICES ASSUME NEW a \in req'[c].seen
            PROVE /\ cacheKey(req[c].res) \in {"lookup", "states"} =>
                       a \in Seq(Run) /\ Len(a) <= Len(runs')
                  /\ cacheKey(req[c].res) = "installs" => a \subseteq Installs
                  /\ cacheKey(req[c].res) = "repos" => a \subseteq Repos
          BY <3>2 DEF Shaped
        <4>1. CASE a = b BY <1>0, <2>4, <4>1 DEF ServerTypes
        <4>2. CASE a \in req[c].seen
          BY <1>0, <2>1, <4>2 DEF Shaped, ServerTypes
        <4> QED BY <3>2, <4>1, <4>2
      <3> QED BY <3>3, <3>4, <3>6
    <2>7. CASE req[c].at # "sent"
      <3>1. req'[c] = req[c] BY <2>2, <2>7
      <3>2. Honest(c)' BY <2>1, <2>7, <3>1 DEF Honest
      <3>3. Shaped(c)' BY <1>0, <2>1, <3>1 DEF Shaped, ServerTypes
      <3> QED BY <2>1, <3>1, <3>2, <3>3
    <2> QED BY <2>6, <2>7
  <1>2. req' \in [Clients -> Request] BY <1>1 DEF Changes, Observed
  <1>3. CacheTypes' /\ Bounded' BY <1>0, <1>2 DEF CacheTypes, Bounded
  <1> QED BY <1>0, <1>1, <1>3 DEF CacheInv

LEMMA Answered ==
  ASSUME CacheInv, NEW c \in Clients, Answer(c)
  PROVE  CacheInv'
  <1> DEFINE b == Body(req[c].res)
  <1>0. /\ ServerTypes /\ entries \in [Keys -> SUBSET Bodies]
        /\ req \in [Clients -> Request] /\ Bounded /\ req[c] \in Request
        /\ Honest(c) /\ Shaped(c) /\ req[c].at = "sent" /\ b \in req[c].seen
    BY DEF CacheInv, CacheTypes, Honest, Answer
  <1>1. UNCHANGED <<runs, inst, installs, entries>> BY DEF Answer, server
  <1> DEFINE q == [req[c] EXCEPT !.at = "answered",
                      !.notModified = (b \in req[c].entry),
                      !.got = IF b \in req[c].entry THEN {} ELSE {b}]
  <1>2. req' = [req EXCEPT ![c].at = "answered",
                           ![c].notModified = (b \in req[c].entry),
                           ![c].got = IF b \in req[c].entry THEN {} ELSE {b}]
    BY DEF Answer
  <1>3. req' = [req EXCEPT ![c] = q] BY <1>2
  <1>4. b \in Bodies BY <1>0 DEF Request
  <1> HIDE DEF b
  <1>5. /\ q.at = "answered" /\ q.res = req[c].res /\ q.entry = req[c].entry
        /\ q.seen = req[c].seen
        /\ q.got = IF b \in req[c].entry THEN {} ELSE {b}
    BY <1>0 DEF Request
  <1>6. q.notModified = (b \in req[c].entry) BY <1>0 DEF Request
  <1>7. q \in Request
    <2>1. (b \in req[c].entry) \in BOOLEAN OBVIOUS
    <2>2. (IF b \in req[c].entry THEN {} ELSE {b}) \in SUBSET Bodies BY <1>4
    <2> QED BY <1>0, <2>1, <2>2 DEF Request
  <1> HIDE DEF q
  <1>8. req' \in [Clients -> Request] /\ req'[c] = q
        /\ \A d \in Clients : d # c => req'[d] = req[d]
    BY <1>0, <1>3, <1>7
  <1>9. ServerTypes' BY <1>0, <1>1 DEF ServerTypes
  <1>10. CacheTypes' /\ Bounded' BY <1>0, <1>1, <1>8 DEF CacheTypes, Bounded
  <1>11. ASSUME NEW d \in Clients PROVE Honest(d)' /\ Shaped(d)'
    <2>1. CASE d = c
      <3>1. Shaped(c)' BY <1>0, <1>1, <1>5, <1>8 DEF Shaped
      <3>2. Honest(c)'
        <4> DEFINE told == IF q.notModified THEN q.entry ELSE q.got
        <4>1. \A a, e \in q.entry : a = e BY <1>0, <1>5 DEF Honest
        <4>2. CASE b \in req[c].entry
          <5>1. q.notModified = TRUE BY <1>6, <4>2
          <5>2. told = req[c].entry BY <1>5, <5>1
          <5>3. told # {} /\ told \subseteq q.seen
            BY <1>0, <1>5, <4>1, <4>2, <5>2
          <5> QED BY <1>5, <1>8, <4>1, <5>1, <5>2, <5>3 DEF Honest
        <4>3. CASE b \notin req[c].entry
          <5>1. ~ q.notModified BY <1>6, <4>3, Zenon
          <5>2. q.got = {b} BY <1>5, <4>3
          <5> QED BY <1>0, <1>5, <1>8, <4>1, <5>1, <5>2 DEF Honest
        <4> QED BY <4>2, <4>3
      <3> QED BY <2>1, <3>1, <3>2
    <2>2. CASE d # c
      <3>1. Honest(d) /\ Shaped(d) /\ req'[d] = req[d] BY <1>8, <2>2 DEF CacheInv
      <3>2. Honest(d)' BY <1>1, <3>1 DEF Honest, Body
      <3>3. Shaped(d)' BY <1>1, <3>1 DEF Shaped
      <3> QED BY <3>2, <3>3
    <2> QED BY <2>1, <2>2
  <1> QED BY <1>9, <1>10, <1>11 DEF CacheInv

(* A full cache is emptied for the next entry.                             *)
LEMMA PutBounded ==
  ASSUME entries \in [Keys -> SUBSET Bodies], Bounded,
         NEW key \in Keys, NEW body \in Bodies, put(key, body)
  PROVE  entries' \in [Keys -> SUBSET Bodies] /\ Bounded'
  <1> DEFINE used == {k \in Keys : entries[k] # {}}
             used2 == {k \in Keys : entries'[k] # {}}
  <1>0. IsFiniteSet(Keys) /\ MaxSize \in Nat \ {0} BY KeysAre, Sizes
  <1>1. entries' = [k \in Keys |-> IF k = key THEN {body}
                                   ELSE IF Cardinality(used) >= MaxSize THEN {}
                                        ELSE entries[k]]
    BY DEF put
  <1>2. IsFiniteSet(used) /\ Cardinality(used) \in Nat
    BY <1>0, FS_Subset, FS_CardinalityType
  <1>3. Cardinality(used2) <= MaxSize
    <2>1. CASE Cardinality(used) >= MaxSize
      <3>1. used2 = {key} BY <1>1, <2>1
      <3>2. Cardinality(used2) = 1 BY <3>1, FS_Singleton
      <3> QED BY <1>0, <3>2
    <2>2. CASE ~ (Cardinality(used) >= MaxSize)
      <3>1. used2 = used \cup {key} BY <1>1, <2>2
      <3>2. Cardinality(used2) = Cardinality(used)
            \/ Cardinality(used2) = Cardinality(used) + 1
        BY <1>2, <3>1, FS_AddElement
      <3> QED BY <1>0, <1>2, <2>2, <3>2
    <2> QED BY <2>1, <2>2
  <1>4. \A k \in Keys : \A a, b \in entries'[k] : a = b
    BY <1>1 DEF Bounded
  <1>5. entries' \in [Keys -> SUBSET Bodies] BY <1>1
  <1> QED BY <1>3, <1>4, <1>5 DEF Bounded

LEMMA Received ==
  ASSUME CacheInv, NEW c \in Clients, Receive(c)
  PROVE  CacheInv'
  <1>0. /\ ServerTypes /\ entries \in [Keys -> SUBSET Bodies]
        /\ req \in [Clients -> Request] /\ Bounded /\ req[c] \in Request
        /\ Honest(c) /\ Shaped(c) /\ req[c].at = "answered"
    BY DEF CacheInv, CacheTypes, Receive
  <1>1. UNCHANGED <<runs, inst, installs>> BY DEF Receive, server
  <1>2. PICK got \in SUBSET Bodies :
          /\ got = (IF req[c].notModified THEN req[c].entry ELSE req[c].got)
          /\ req' = [req EXCEPT ![c].at = "done", ![c].got = got]
    <2>1. CASE req[c].notModified
      BY <1>0, <2>1 DEF Receive, Request
    <2>2. CASE ~ req[c].notModified
      <3>1. req' = [req EXCEPT ![c].at = "done"] BY <2>2 DEF Receive
      <3>2. [req EXCEPT ![c].at = "done"]
              = [req EXCEPT ![c].at = "done", ![c].got = req[c].got]
        BY <1>0 DEF Request
      <3> QED BY <1>0, <2>2, <3>1, <3>2 DEF Request
    <2> QED BY <2>1, <2>2
  <1>3. got # {} /\ got \subseteq req[c].seen BY <1>0, <1>2 DEF Honest
  <1> DEFINE q == [req[c] EXCEPT !.at = "done", !.got = got]
  <1>4. req' = [req EXCEPT ![c] = q] BY <1>2
  <1>5. /\ q.at = "done" /\ q.res = req[c].res /\ q.entry = req[c].entry
        /\ q.seen = req[c].seen /\ q.got = got /\ q \in Request
    BY <1>0, <1>2 DEF Request
  <1> HIDE DEF q
  <1>6. req' \in [Clients -> Request] /\ req'[c] = q
        /\ \A d \in Clients : d # c => req'[d] = req[d]
    BY <1>0, <1>4, <1>5
  <1>7. entries' \in [Keys -> SUBSET Bodies] /\ Bounded'
    <2>1. CASE UNCHANGED entries BY <1>0, <2>1 DEF Bounded
    <2>2. CASE \E body \in req[c].got : put(cacheKey(req[c].res), body)
      <3>1. PICK body \in req[c].got : put(cacheKey(req[c].res), body) BY <2>2
      <3>2. body \in Bodies /\ cacheKey(req[c].res) \in Keys
        BY <1>0, KeysAre DEF Request
      <3> QED BY <1>0, <3>1, <3>2, PutBounded
    <2> QED BY <2>1, <2>2 DEF Receive
  <1>8. ServerTypes' BY <1>0, <1>1 DEF ServerTypes
  <1>9. CacheTypes' BY <1>6, <1>7 DEF CacheTypes
  <1>10. ASSUME NEW d \in Clients PROVE Honest(d)' /\ Shaped(d)'
    <2>1. CASE d = c
      <3>1. Shaped(c)' BY <1>0, <1>1, <1>5, <1>6 DEF Shaped
      <3>2. Honest(c)' BY <1>0, <1>3, <1>5, <1>6 DEF Honest
      <3> QED BY <2>1, <3>1, <3>2
    <2>2. CASE d # c
      <3>1. Honest(d) /\ Shaped(d) /\ req'[d] = req[d] BY <1>6, <2>2 DEF CacheInv
      <3>2. Honest(d)' BY <1>1, <3>1 DEF Honest, Body
      <3>3. Shaped(d)' BY <1>1, <3>1 DEF Shaped
      <3> QED BY <3>2, <3>3
    <2> QED BY <2>1, <2>2
  <1> QED BY <1>7, <1>8, <1>9, <1>10 DEF CacheInv

LEMMA Forgotten ==
  ASSUME CacheInv, Forgets
  PROVE  CacheInv'
  <1>0. ServerTypes /\ MaxSize \in Nat BY Sizes DEF CacheInv
  <1>1. /\ UNCHANGED <<runs, inst, installs>>
        /\ entries' = [k \in Keys |-> {}] /\ req' = [c \in Clients |-> NoReq]
    BY DEF Forgets, server
  <1>2. ServerTypes' BY <1>0, <1>1 DEF ServerTypes
  <1>3. CacheTypes' BY <1>1, NoReqIs DEF CacheTypes
  <1>4. Bounded'
    <2>1. {k \in Keys : entries'[k] # {}} = {} BY <1>1
    <2>2. Cardinality({}) = 0 BY FS_EmptySet
    <2>3. Cardinality({k \in Keys : entries'[k] # {}}) <= MaxSize
      BY <1>0, <2>1, <2>2
    <2> QED BY <1>1, <2>3 DEF Bounded
  <1>5. \A d \in Clients : Honest(d)' /\ Shaped(d)'
    BY <1>1, NoReqIs DEF Honest, Shaped
  <1> QED BY <1>2, <1>3, <1>4, <1>5 DEF CacheInv

(***************************************************************************)
(* The whole invariant.                                                    *)
(***************************************************************************)

Types == AppTypes /\ StatusTypes /\ Counters

(* Identifiers are those of runs there are.                                *)
Numbered ==
    /\ ids \in 0 .. Len(runs)
    /\ \A w \in Writers :
          /\ up[w].id \in 0 .. Len(runs)
          /\ up[w].at \in {"patch", "reply"} => up[w].id # 0

(* What the requests of those who wait are about.                          *)
Asking ==
    /\ \A w \in Writers :
          up[w].at = "lookup" => req[w].at # "idle" /\ req[w].res = <<"lookup", 0>>
    /\ fresh.at = "installs" => req[Refresher].res = <<"installs", 0>>
    /\ fresh.at = "repos" => cacheKey(req[Refresher].res) = "repos"

(* Who may yet create a run: only those who may have found none.           *)
Blank(w) == \/ up[w].at = "create"
            \/ up[w].at = "lookup" /\ \E b \in req[w].seen : Len(b) = 0
Creating == {w \in Writers : Blank(w)}

Few == Len(runs) + Cardinality(Creating) <= Cardinality(Writers)

(* Whose write is shown.                                                   *)
Latest ==
    owed # "unknown" =>
        /\ \A w \in Writers : up[w].at # "idle" => up[w].state = owed /\ Alone(w)
        /\ Len(runs) = 1 /\ (\A w \in Writers : up[w].at \in {"idle", "reply"})
             => GetCheckStates = CheckRunToState(checkRunFields(owed))

(* A covered repository is found already, or will be.                      *)
Tracked ==
    /\ \A r \in covered \cup steady : inst[r] # 0
    /\ fresh.at = "installs" =>
          \A r \in covered : \A b \in req[Refresher].seen : inst[r] \in b
    /\ fresh.at = "repos" =>
          \A r \in covered :
             /\ \/ fresh.found[r] = inst[r]
                \/ inst[r] \in fresh.todo
                \/ req[Refresher].res[2] = inst[r]
             /\ \A b \in req[Refresher].seen :
                   r \in b <=> req[Refresher].res[2] = inst[r]

ChecksInv ==
    /\ CacheInv /\ Types /\ Numbered /\ Asking
    /\ Few /\ Latest /\ Tracked /\ RefreshKeepsCovered

(***************************************************************************)
(* The steps, as the cache sees them.                                      *)
(***************************************************************************)

LEMMA FieldTypes ==
  ASSUME NEW state \in States
  PROVE  /\ checkRunFields(state) \in Run
         /\ checkRunFields(state).conclusion = ""
              => checkRunFields(state).status = "in_progress"
         /\ checkRunFields(state).conclusion # ""
              => checkRunFields(state).status = "completed"
  <1>1. CASE state = "pending"
    BY <1>1 DEF checkRunFields, Run, Statuses, Conclusions
  <1>2. CASE state = "error"
    BY <1>2 DEF checkRunFields, Run, Statuses, Conclusions
  <1>3. CASE state \in {"success", "failure", "skipped"}
    BY <1>3 DEF checkRunFields, Run, Statuses, Conclusions
  <1> QED BY <1>1, <1>2, <1>3 DEF States

(* The answer a client has is one of the bodies it may have seen.          *)
LEMMA ResultSeen ==
  ASSUME CacheInv, NEW c \in Clients, NEW res, Done(c, res)
  PROVE  Result(c) \in req[c].seen /\ req[c].res = res
  <1>1. req[c].got # {} /\ req[c].got \subseteq req[c].seen /\ req[c].res = res
    BY DEF CacheInv, Honest, Done
  <1>2. Result(c) \in req[c].got BY <1>1 DEF Result
  <1> QED BY <1>1, <1>2

LEMMA ListedTypes ==
  ASSUME CacheInv
  PROVE  /\ Done(Refresher, <<"installs", 0>>) => Result(Refresher) \subseteq Installs
         /\ \A w \in Writers :
              Done(w, <<"lookup", 0>>) =>
                 Result(w) \in Seq(Run) /\ Len(Result(w)) <= Len(runs)
  <1>1. ASSUME Done(Refresher, <<"installs", 0>>)
        PROVE  Result(Refresher) \subseteq Installs
    <2>1. Result(Refresher) \in req[Refresher].seen
          /\ req[Refresher].res = <<"installs", 0>>
      BY <1>1, ResultSeen, ClientsAre
    <2>2. cacheKey(req[Refresher].res) = "installs" BY <2>1 DEF cacheKey
    <2> QED BY <2>1, <2>2, ClientsAre DEF CacheInv, Shaped
  <1>2. ASSUME NEW w \in Writers, Done(w, <<"lookup", 0>>)
        PROVE  Result(w) \in Seq(Run) /\ Len(Result(w)) <= Len(runs)
    <2>1. w \in Clients BY ClientsAre
    <2>2. Result(w) \in req[w].seen /\ req[w].res = <<"lookup", 0>>
      BY <1>2, <2>1, ResultSeen
    <2>3. cacheKey(req[w].res) = "lookup" BY <2>2 DEF cacheKey
    <2> QED BY <2>1, <2>2, <2>3 DEF CacheInv, Shaped
  <1> QED BY <1>1, <1>2

(* Runs are added and changed, never removed.                              *)
LEMMA RunsGrow ==
  ASSUME CacheInv, StatusTypes, Numbered, NEW w \in Writers, Create(w) \/ Patch(w)
  PROVE  /\ Changes
         /\ Create(w) => runs' = Append(runs, checkRunFields(up[w].state))
                         /\ Len(runs') = Len(runs) + 1
         /\ Patch(w) => Len(runs') = Len(runs)
  <1> DEFINE f == checkRunFields(up[w].state)
  <1>0. /\ f \in Run /\ runs \in Seq(Run)
        /\ inst \in [Repos -> 0 .. MaxInstalls] /\ installs \in 0 .. MaxInstalls
        /\ f = [status |-> f.status, conclusion |-> f.conclusion]
    BY FieldTypes DEF StatusTypes, Upsert, CacheInv, ServerTypes, Run
  <1>1. ASSUME Create(w)
        PROVE  Changes /\ runs' = Append(runs, f) /\ Len(runs') = Len(runs) + 1
    <2>1. hCreateCheckRun(f.status, f.conclusion) /\ UNCHANGED entries
      BY <1>1 DEF Create
    <2> HIDE DEF f
    <2>2. runs' = Append(runs, f) /\ UNCHANGED <<inst, installs>> /\ Observed
      BY <1>0, <2>1 DEF hCreateCheckRun
    <2>3. runs' \in Seq(Run) /\ Len(runs') = Len(runs) + 1
      BY <1>0, <2>2
    <2> QED BY <1>0, <2>1, <2>2, <2>3 DEF Changes, ServerTypes
  <1>2. ASSUME Patch(w)
        PROVE  Changes /\ Len(runs') = Len(runs)
    <2> DEFINE id == up[w].id
    <2>1. hUpdateCheckRun(id, f.status, f.conclusion) /\ UNCHANGED entries
      BY <1>2 DEF Patch
    <2>2. id \in 1 .. Len(runs)
      BY <1>0, <1>2 DEF Patch, Numbered
    <2> HIDE DEF f, id
    <2>3. runs[id] \in Run BY <1>0, <2>2
    <2> DEFINE new == [status |-> f.status,
                       conclusion |-> IF f.conclusion = "" THEN runs[id].conclusion
                                      ELSE f.conclusion]
    <2>4. new \in Run BY <1>0, <2>3 DEF Run
    <2>5. runs' = [runs EXCEPT ![id] = new] /\ UNCHANGED <<inst, installs>>
          /\ Observed
      BY <2>1 DEF hUpdateCheckRun
    <2> HIDE DEF new
    <2>6. runs' \in Seq(Run) /\ Len(runs') = Len(runs)
      BY <1>0, <2>2, <2>4, <2>5
    <2> QED BY <1>0, <2>1, <2>5, <2>6 DEF Changes, ServerTypes
  <1> QED BY <1>1, <1>2

LEMMA InstallsChange ==
  ASSUME CacheInv, InstallationChanges
  PROVE  Changes /\ runs' = runs
  <1>0. /\ runs \in Seq(Run) /\ inst \in [Repos -> 0 .. MaxInstalls]
        /\ installs \in 0 .. MaxInstalls /\ MaxInstalls \in Nat
    BY Sizes DEF CacheInv, ServerTypes
  <1>1. PICK r \in Repos : Uninstall(r) \/ Install(r)
    BY DEF InstallationChanges
  <1>2. runs' = runs /\ Observed /\ UNCHANGED entries
    BY <1>1 DEF Uninstall, Install, InstallationChanges
  <1>3. inst' \in [Repos -> 0 .. MaxInstalls] /\ installs' \in 0 .. MaxInstalls
    BY <1>0, <1>1 DEF Uninstall, Install
  <1> QED BY <1>0, <1>2, <1>3 DEF Changes, ServerTypes

LEMMA RefreshMoves ==
  ASSUME CacheInv, AppTypes, Refresh
  PROVE  Takes(Refresher) \/ \E res \in Resources : Asks(Refresher, res)
  <1>0. UNCHANGED <<server, entries>>
    BY DEF Refresh, RefreshStart, RefreshInstalls, RefreshRepos, RefreshFails
  <1>1. ASSUME NEW todo \in SUBSET Installs, NEW found, RefreshNext(todo, found)
        PROVE  Takes(Refresher) \/ \E res \in Resources : Asks(Refresher, res)
    <2>1. CASE req' = [req EXCEPT ![Refresher] = NoReq]
      BY <1>0, <2>1 DEF Takes
    <2>2. CASE \E i \in todo : Send(Refresher, <<"repos", i>>)
      <3>1. PICK i \in todo : Send(Refresher, <<"repos", i>>) BY <2>2
      <3>2. <<"repos", i>> \in Resources BY <3>1 DEF Resources
      <3> QED BY <1>0, <3>1, <3>2, Zenon DEF Asks
    <2> QED BY <1>1, <2>1, <2>2 DEF RefreshNext
  <1>2. CASE RefreshStart
    <2>1. <<"installs", 0>> \in Resources BY DEF Resources
    <2> QED BY <1>0, <1>2, <2>1, Zenon DEF RefreshStart, Asks
  <1>3. CASE RefreshInstalls
    <2>1. Result(Refresher) \in SUBSET Installs
      BY <1>3, ListedTypes DEF RefreshInstalls
    <2> QED BY <1>1, <1>3, <2>1 DEF RefreshInstalls
  <1>4. CASE RefreshRepos
    <2>1. fresh.todo \in SUBSET Installs BY DEF AppTypes, Refreshed
    <2> QED BY <1>1, <1>4, <2>1 DEF RefreshRepos
  <1>5. CASE RefreshFails BY <1>0, <1>5 DEF RefreshFails, Takes
  <1> QED BY <1>2, <1>3, <1>4, <1>5 DEF Refresh

LEMMA CacheStep ==
  ASSUME ChecksInv, [Next]_vars
  PROVE  CacheInv'
  <1>0. CacheInv /\ AppTypes /\ StatusTypes /\ Numbered
    BY DEF ChecksInv, Types
  <1>1. CASE UNCHANGED <<server, entries, req>>
    <2>1. UNCHANGED <<runs, inst, installs, entries, req>> BY <1>1 DEF server
    <2> QED
      BY <1>0, <2>1
      DEF CacheInv, ServerTypes, CacheTypes, Bounded, Honest, Shaped, Body
  <1>2. CASE Refresh
    BY <1>0, <1>2, RefreshMoves, Asked, Taken, ClientsAre
  <1>3. CASE InstallationChanges
    BY <1>0, <1>3, InstallsChange, Changed
  <1>4. CASE Restart
    BY <1>0, <1>4, Forgotten DEF Restart, Forgets
  <1>5. ASSUME NEW w \in Writers, upsertCheckRun(w) \/ ReadStates(w)
        PROVE  CacheInv'
    <2>0. w \in Clients BY ClientsAre
    <2>1. CASE Takes(w) BY <1>0, <2>0, <2>1, Taken
    <2>2. CASE Begin(w)
      <3>1. CASE Send(w, <<"lookup", 0>>)
        <4>1. <<"lookup", 0>> \in Resources BY DEF Resources
        <4>2. Asks(w, <<"lookup", 0>>) BY <2>2, <3>1 DEF Begin, Asks
        <4> QED BY <1>0, <2>0, <4>1, <4>2, Asked
      <3>2. CASE UNCHANGED req BY <1>1, <2>2, <3>2 DEF Begin
      <3> QED BY <2>2, <3>1, <3>2 DEF Begin
    <2>3. CASE LookedUp(w) BY <2>1, <2>3 DEF LookedUp, Takes
    <2>4. CASE Create(w) \/ Patch(w) BY <1>0, <2>4, RunsGrow, Changed
    <2>5. CASE Remember(w) BY <1>1, <2>5 DEF Remember
    <2>6. CASE UpsertFails(w) BY <2>1, <2>6 DEF UpsertFails, Takes
    <2>7. CASE ReadStates(w)
      <3>1. CASE Send(w, <<"states", 0>>)
        <4>1. <<"states", 0>> \in Resources BY DEF Resources
        <4>2. Asks(w, <<"states", 0>>) BY <2>7, <3>1 DEF ReadStates, Asks
        <4> QED BY <1>0, <2>0, <4>1, <4>2, Asked
      <3> QED BY <2>1, <2>7, <3>1 DEF ReadStates, Takes
    <2> QED
      BY <1>5, <2>2, <2>3, <2>4, <2>5, <2>6, <2>7 DEF upsertCheckRun
  <1>6. ASSUME NEW c \in Clients, Get(c) PROVE CacheInv'
    BY <1>0, <1>6, Answered, Received DEF Get
  <1>7. CASE UNCHANGED vars BY <1>1, <1>7 DEF vars
  <1> QED BY <1>2, <1>3, <1>4, <1>5, <1>6, <1>7, Zenon DEF Next

LEMMA TypesStep ==
  ASSUME ChecksInv, [Next]_vars
  PROVE  Types' /\ Numbered'
  <1>0. /\ CacheInv /\ AppTypes /\ StatusTypes /\ Counters /\ Numbered
        /\ runs \in Seq(Run) /\ Len(runs) \in Nat
        /\ inst \in [Repos -> 0 .. MaxInstalls]
    BY DEF ChecksInv, Types, CacheInv, ServerTypes
  <1>1. ASSUME UNCHANGED <<routed, fresh, covered, steady>> PROVE AppTypes'
    BY <1>0, <1>1 DEF AppTypes
  <1>2. ASSUME UNCHANGED <<up, owed, ids>>, Len(runs) <= Len(runs'), Len(runs') \in Nat
        PROVE  StatusTypes' /\ Numbered'
    BY <1>0, <1>2 DEF StatusTypes, Numbered
  <1>3. ASSUME UNCHANGED <<calls, refreshes, changes, faults>> PROVE Counters'
    BY <1>0, <1>3 DEF Counters
  <1>4. CASE UNCHANGED vars
    BY <1>0, <1>1, <1>2, <1>3, <1>4 DEF vars, app, status, bounds, server, Types
  <1>5. NoRefresh \in Refreshed
    <2>1. [r \in Repos |-> 0] \in [Repos -> 0 .. MaxInstalls] BY Sizes
    <2> QED BY <2>1 DEF NoRefresh, Refreshed
  <1>6. CASE Refresh
    <2>1. UNCHANGED <<up, owed, ids, runs>>
      BY <1>6
      DEF Refresh, RefreshStart, RefreshInstalls, RefreshRepos, RefreshFails, status,
          server
    <2>2. StatusTypes' /\ Numbered' BY <1>0, <1>2, <2>1
    <2>3. Counters'
      BY <1>0, <1>6, Sizes
      DEF Counters, Refresh, RefreshStart, RefreshInstalls, RefreshRepos,
          RefreshFails, status, bounds, Fault
    <2>4. ASSUME NEW todo \in SUBSET Installs,
                 NEW found \in [Repos -> 0 .. MaxInstalls], RefreshNext(todo, found),
                 UNCHANGED covered
          PROVE  AppTypes'
      <3>1. CASE \E i \in todo : fresh' = [at |-> "repos", todo |-> todo \ {i},
                                           found |-> found]
                 /\ UNCHANGED <<routed, steady>>
        <4>1. PICK i \in todo : fresh' = [at |-> "repos", todo |-> todo \ {i},
                                          found |-> found]
          BY <3>1
        <4>2. fresh' \in Refreshed BY <4>1 DEF Refreshed
        <4> QED BY <1>0, <2>4, <3>1, <4>2 DEF AppTypes
      <3>2. CASE routed' = found /\ steady' = covered /\ fresh' = NoRefresh
        BY <1>0, <1>5, <2>4, <3>2 DEF AppTypes
      <3> QED BY <2>4, <3>1, <3>2 DEF RefreshNext
    <2>5. CASE RefreshStart
      <3>1. fresh' \in Refreshed
        <4>1. fresh' = [NoRefresh EXCEPT !.at = "installs"] BY <2>5 DEF RefreshStart
        <4> QED BY <1>5, <4>1 DEF Refreshed
      <3>2. covered' \subseteq Repos BY <2>5 DEF RefreshStart
      <3>3. UNCHANGED <<routed, steady>> BY <2>5 DEF RefreshStart
      <3>4. AppTypes' BY <1>0, <3>1, <3>2, <3>3 DEF AppTypes
      <3> QED BY <2>2, <2>3, <3>4 DEF Types
    <2>6. CASE RefreshInstalls
      <3>1. Result(Refresher) \in SUBSET Installs
        BY <1>0, <2>6, ListedTypes DEF RefreshInstalls
      <3>2. fresh.found \in [Repos -> 0 .. MaxInstalls]
        BY <1>0 DEF AppTypes, Refreshed
      <3>3. AppTypes' BY <2>4, <2>6, <3>1, <3>2 DEF RefreshInstalls
      <3> QED BY <2>2, <2>3, <3>3 DEF Types
    <2>7. CASE RefreshRepos
      <3>1. PICK i \in Installs :
              RefreshNext(fresh.todo, [r \in Repos |-> IF r \in Result(Refresher) THEN i
                                                       ELSE fresh.found[r]])
        BY <2>7 DEF RefreshRepos
      <3>2. fresh.found \in [Repos -> 0 .. MaxInstalls]
            /\ fresh.todo \in SUBSET Installs /\ i \in 0 .. MaxInstalls
        BY <1>0, Sizes DEF AppTypes, Refreshed, Installs
      <3>3. [r \in Repos |-> IF r \in Result(Refresher) THEN i ELSE fresh.found[r]]
              \in [Repos -> 0 .. MaxInstalls]
        BY <3>2
      <3>4. UNCHANGED covered BY <2>7 DEF RefreshRepos
      <3>5. AppTypes' BY <2>4, <3>1, <3>2, <3>3, <3>4
      <3> QED BY <2>2, <2>3, <3>5 DEF Types
    <2>8. CASE RefreshFails
      <3>1. AppTypes' BY <1>0, <1>5, <2>8 DEF RefreshFails, AppTypes
      <3> QED BY <2>2, <2>3, <3>1 DEF Types
    <2> QED BY <1>6, <2>5, <2>6, <2>7, <2>8 DEF Refresh
  <1>7. CASE InstallationChanges
    <2>1. runs' = runs BY <1>0, <1>7, InstallsChange
    <2>2. StatusTypes' /\ Numbered'
      BY <1>0, <1>2, <1>7, <2>1 DEF InstallationChanges, status
    <2>3. Counters'
      BY <1>0, <1>7, Sizes DEF Counters, InstallationChanges, status
    <2>4. AppTypes' BY <1>0, <1>7 DEF AppTypes, InstallationChanges
    <2> QED BY <2>2, <2>3, <2>4 DEF Types
  <1>8. NoUp \in Upsert BY DEF NoUp, Upsert, States
  <1>9. CASE Restart
    <2>1. AppTypes'
      <3>1. [r \in Repos |-> 0] \in [Repos -> 0 .. MaxInstalls] BY Sizes
      <3> QED BY <1>5, <1>9, <3>1 DEF Restart, AppTypes
    <2>2. up' \in [Writers -> Upsert] /\ owed' = "unknown" /\ ids' = 0 /\ runs' = runs
      BY <1>8, <1>9 DEF Restart, server
    <2>3. StatusTypes' BY <2>2 DEF StatusTypes
    <2>4. \A w \in Writers : up'[w].id = 0 /\ up'[w].at = "idle"
      BY <1>9 DEF Restart, NoUp
    <2>5. Numbered' BY <1>0, <2>2, <2>4 DEF Numbered
    <2>6. Counters' BY <1>0, <1>9, Sizes DEF Restart, Counters, Fault
    <2> QED BY <2>1, <2>3, <2>5, <2>6 DEF Types
  <1>10. ASSUME NEW w \in Writers, upsertCheckRun(w) \/ ReadStates(w)
         PROVE  Types' /\ Numbered'
    <2>0. AppTypes'
      BY <1>1, <1>10
      DEF upsertCheckRun, Begin, LookedUp, Create, Patch, Remember, UpsertFails,
          ReadStates, app
    <2>1. Counters'
      BY <1>0, <1>10, Sizes
      DEF Counters, upsertCheckRun, Begin, Begins, Call, LookedUp, Create, Patch,
          Remember, UpsertFails, ReadStates, app, bounds, Fault
    <2>2. ASSUME NEW u \in Upsert, up' = [up EXCEPT ![w] = u], runs' = runs,
                 u.id \in 0 .. Len(runs), u.at \in {"patch", "reply"} => u.id # 0,
                 ids' \in 0 .. Len(runs), owed' \in States \cup {"unknown"}
          PROVE  StatusTypes' /\ Numbered'
      BY <1>0, <2>2 DEF StatusTypes, Numbered
    <2>3. /\ up \in [Writers -> Upsert] /\ up[w] \in Upsert
          /\ ids \in 0 .. Len(runs)
          /\ up[w].id \in 0 .. Len(runs) /\ owed \in States \cup {"unknown"}
          /\ up[w].at \in {"patch", "reply"} => up[w].id # 0
      BY <1>0 DEF StatusTypes, Numbered
    <2>4. CASE Begin(w)
      <3>1. PICK state \in Written :
              /\ owed' \in {state, "unknown"}
              /\ \/ ids # 0 /\ up' = [up EXCEPT ![w] = [at |-> "patch", state |-> state,
                                                      id |-> ids]]
                 \/ up' = [up EXCEPT ![w] = [at |-> "lookup", state |-> state, id |-> 0]]
        BY <2>4 DEF Begin, Begins
      <3>2. state \in States BY ChecksAssumption
      <3>3. runs' = runs /\ ids' = ids BY <2>4 DEF Begin, server
      <3>4. [at |-> "patch", state |-> state, id |-> ids] \in Upsert
            /\ [at |-> "lookup", state |-> state, id |-> 0] \in Upsert
        BY <2>3, <3>2 DEF Upsert
      <3>5. StatusTypes' /\ Numbered' BY <1>0, <2>2, <2>3, <3>1, <3>2, <3>3, <3>4
      <3> QED BY <2>0, <2>1, <3>5 DEF Types
    <2>5. CASE LookedUp(w)
      <3>1. Len(Result(w)) \in Nat /\ Len(Result(w)) <= Len(runs)
        BY <1>0, <2>5, ListedTypes DEF LookedUp
      <3>2. runs' = runs /\ ids' = ids /\ owed' = owed BY <2>5 DEF LookedUp, server
      <3>3. CASE Len(Result(w)) > 0
        <4>1. up' = [up EXCEPT ![w] = [up[w] EXCEPT !.at = "patch", !.id = 1]]
          BY <2>5, <3>3 DEF LookedUp
        <4> DEFINE u == [up[w] EXCEPT !.at = "patch", !.id = 1]
        <4>2. u \in Upsert /\ u.id = 1 BY <2>3 DEF Upsert
        <4> HIDE DEF u
        <4>3. up' = [up EXCEPT ![w] = u] BY <4>1 DEF u
        <4>5. u.id \in 0 .. Len(runs) /\ u.id # 0
          BY <1>0, <3>1, <3>3, <4>2
        <4>4. StatusTypes' /\ Numbered'
          BY <2>2, <2>3, <3>2, <4>2, <4>3, <4>5
        <4> QED BY <2>0, <2>1, <4>4 DEF Types
      <3>4. CASE ~ (Len(Result(w)) > 0)
        <4>1. up' = [up EXCEPT ![w] = [up[w] EXCEPT !.at = "create"]]
          BY <2>5, <3>4 DEF LookedUp
        <4> DEFINE u == [up[w] EXCEPT !.at = "create"]
        <4>2. u \in Upsert /\ u.id = up[w].id /\ u.at = "create"
          BY <2>3 DEF Upsert
        <4> HIDE DEF u
        <4>3. up' = [up EXCEPT ![w] = u] BY <4>1 DEF u
        <4>4. StatusTypes' /\ Numbered'
          BY <2>2, <2>3, <3>2, <4>2, <4>3
        <4> QED BY <2>0, <2>1, <4>4 DEF Types
      <3> QED BY <3>3, <3>4
    <2>6. CASE Create(w) \/ Patch(w)
      <3>1. Len(runs') \in Nat /\ Len(runs) <= Len(runs')
            /\ (Create(w) => Len(runs') = Len(runs) + 1)
        BY <1>0, <2>6, RunsGrow DEF Changes, ServerTypes
      <3>2. ids' = ids /\ owed' = owed BY <2>6 DEF Create, Patch
      <3>3. PICK u \in Upsert : /\ up' = [up EXCEPT ![w] = u]
                                /\ u.id \in 1 .. Len(runs')
        <4>1. CASE Create(w)
          <5>1. up' = [up EXCEPT ![w] = [up[w] EXCEPT !.at = "reply",
                                                      !.id = Len(runs) + 1]]
            BY <4>1 DEF Create
          <5> DEFINE n == Len(runs) + 1
          <5>2. n \in Nat /\ n \in 1 .. Len(runs') BY <1>0, <3>1, <4>1
          <5>3. up' = [up EXCEPT ![w] = [up[w] EXCEPT !.at = "reply", !.id = n]]
            BY <5>1
          <5> HIDE DEF n
          <5>4. [up[w] EXCEPT !.at = "reply", !.id = n] \in Upsert
                /\ [up[w] EXCEPT !.at = "reply", !.id = n].id = n
            BY <2>3, <5>2 DEF Upsert
          <5> QED BY <5>2, <5>3, <5>4
        <4>2. CASE Patch(w)
          <5>1. up' = [up EXCEPT ![w] = [up[w] EXCEPT !.at = "reply"]]
                /\ up[w].at = "patch"
            BY <4>2 DEF Patch
          <5>2. [up[w] EXCEPT !.at = "reply"] \in Upsert
                /\ [up[w] EXCEPT !.at = "reply"].id = up[w].id
            BY <2>3 DEF Upsert
          <5>3. up[w].id \in 1 .. Len(runs') BY <1>0, <2>3, <3>1, <5>1
          <5> QED BY <5>1, <5>2, <5>3
        <4> QED BY <2>6, <4>1, <4>2
      <3>4. StatusTypes' BY <2>3, <3>2, <3>3 DEF StatusTypes
      <3>5. Numbered' BY <1>0, <2>3, <3>1, <3>2, <3>3 DEF Numbered
      <3> QED BY <2>0, <2>1, <3>4, <3>5 DEF Types
    <2>7. CASE Remember(w) \/ UpsertFails(w)
      <3>1. up' = [up EXCEPT ![w] = NoUp] /\ runs' = runs
            /\ ids' \in {ids, up[w].id} /\ owed' \in {owed, "unknown"}
        BY <2>7 DEF Remember, UpsertFails, server
      <3>2. NoUp.id = 0 /\ NoUp.at = "idle" BY DEF NoUp
      <3>4. ids' \in 0 .. Len(runs) /\ owed' \in States \cup {"unknown"}
            /\ NoUp.id \in 0 .. Len(runs)
        BY <1>0, <2>3, <3>1, <3>2
      <3>3. StatusTypes' /\ Numbered' BY <1>8, <2>2, <3>1, <3>2, <3>4
      <3> QED BY <2>0, <2>1, <3>3 DEF Types
    <2>8. CASE ReadStates(w)
      <3>1. StatusTypes' /\ Numbered'
        BY <1>0, <1>2, <2>8 DEF ReadStates, server
      <3> QED BY <2>0, <2>1, <3>1 DEF Types
    <2> QED
      BY <1>10, <2>4, <2>5, <2>6, <2>7, <2>8 DEF upsertCheckRun
  <1>11. ASSUME NEW c \in Clients, Get(c), UNCHANGED <<app, status, bounds>>
         PROVE  Types' /\ Numbered'
    <2>1. runs' = runs BY <1>11 DEF Get, Answer, Receive, server
    <2> QED
      BY <1>0, <1>1, <1>2, <1>3, <1>11, <2>1 DEF app, status, bounds, Types
  <1> QED
    BY <1>4, <1>6, <1>7, <1>9, <1>10, <1>11, Zenon DEF Next

(***************************************************************************)
(* A request that is not its client's turn.                                *)
(***************************************************************************)

Kept(c) ==
    /\ req'[c].res = req[c].res
    /\ req[c].at # "idle" => req'[c].at # "idle"
    /\ \A b \in req'[c].seen :
          b \in req[c].seen \/ b = BodyOf(req[c].res, runs', inst')

LEMMA Keeps ==
  ASSUME CacheInv, NEW c \in Clients
  PROVE  /\ Changes => Kept(c)
         /\ \A d \in Clients : Get(d) => Kept(c)
         /\ \A d \in Clients : d # c /\ (\E q : req' = [req EXCEPT ![d] = q]) => Kept(c)
         /\ req' = req => Kept(c)
  <1>0. req \in [Clients -> Request] /\ req[c] \in Request
    BY DEF CacheInv, CacheTypes
  <1>1. req' = req \/ req'[c] = req[c] => Kept(c) BY DEF Kept
  <1>2. ASSUME Changes PROVE Kept(c)
    <2> DEFINE b == BodyOf(req[c].res, runs', inst')
    <2>1. req'[c] = IF req[c].at = "sent" THEN [req[c] EXCEPT !.seen = @ \cup {b}]
                    ELSE req[c]
      BY <1>2 DEF Changes, Observed
    <2> HIDE DEF b
    <2>2. CASE req[c].at = "sent"
      <3>1. /\ req'[c].at = req[c].at /\ req'[c].res = req[c].res
            /\ req'[c].seen = req[c].seen \cup {b}
        BY <1>0, <2>1, <2>2 DEF Request
      <3> QED BY <3>1 DEF Kept, b
    <2>3. CASE req[c].at # "sent" BY <1>1, <2>1, <2>3
    <2> QED BY <2>2, <2>3
  <1>3. ASSUME NEW d \in Clients, Get(d) PROVE Kept(c)
    <2>1. CASE d # c BY <1>0, <1>1, <1>3, <2>1 DEF Get, Answer, Receive
    <2>2. CASE d = c
      <3>1. /\ req'[c].at \in {"answered", "done"} /\ req'[c].res = req[c].res
            /\ req'[c].seen = req[c].seen
        BY <1>0, <1>3, <2>2 DEF Get, Answer, Receive, Request
      <3> QED BY <3>1 DEF Kept
    <2> QED BY <2>1, <2>2
  <1>4. ASSUME NEW d \in Clients, NEW q, req' = [req EXCEPT ![d] = q], d # c
        PROVE  Kept(c)
    BY <1>0, <1>1, <1>4
  <1> QED BY <1>1, <1>2, <1>3, <1>4

(* What a step of one writer leaves to the others.                         *)
LEMMA OtherWriters ==
  ASSUME ChecksInv, NEW w \in Writers, upsertCheckRun(w) \/ ReadStates(w)
  PROVE  /\ UNCHANGED <<fresh, covered, steady, routed, inst>>
         /\ \A c \in Clients : c # w => Kept(c)
         /\ \A v \in Writers : v # w => up'[v] = up[v]
         /\ ReadStates(w) => up' = up /\ up[w].at = "idle"
  <1>0. CacheInv /\ StatusTypes /\ Numbered /\ w \in Clients
    BY ClientsAre DEF ChecksInv, Types
  <1>1. UNCHANGED <<fresh, covered, steady, routed>>
    BY DEF upsertCheckRun, Begin, LookedUp, Create, Patch, Remember, UpsertFails,
           ReadStates, app
  <1>2. inst' = inst
    BY DEF upsertCheckRun, Begin, LookedUp, Create, Patch, Remember, UpsertFails,
           ReadStates, server, hCreateCheckRun, hUpdateCheckRun
  <1>3. \A v \in Writers : v # w => up'[v] = up[v]
    BY <1>0
    DEF StatusTypes, upsertCheckRun, Begin, LookedUp, Create, Patch, Remember,
        UpsertFails, ReadStates
  <1>4. ASSUME NEW c \in Clients, c # w PROVE Kept(c)
    <2>1. CASE Create(w) \/ Patch(w) BY <1>0, <2>1, RunsGrow, Keeps
    <2>2. CASE ~ (Create(w) \/ Patch(w))
      <3>1. req' = req \/ \E q : req' = [req EXCEPT ![w] = q]
        BY <2>2
        DEF upsertCheckRun, Begin, LookedUp, Remember, UpsertFails, ReadStates, Send
      <3> QED BY <1>0, <1>4, <3>1, Keeps
    <2> QED BY <2>1, <2>2
  <1>5. ReadStates(w) => up' = up /\ up[w].at = "idle" BY DEF ReadStates
  <1> QED BY <1>1, <1>2, <1>3, <1>4, <1>5

(* What no step of a writer is.                                            *)
LEMMA OtherSteps ==
  ASSUME ChecksInv,
         \/ Refresh \/ InstallationChanges
         \/ \E c \in Clients : Get(c) /\ UNCHANGED <<app, status, bounds>>
         \/ UNCHANGED vars
  PROVE  /\ UNCHANGED <<runs, ids, up, owed>>
         /\ \A w \in Writers : Kept(w)
         /\ InstallationChanges \/ ~ Refresh => Kept(Refresher) /\ fresh' = fresh
         /\ ~ Refresh /\ ~ InstallationChanges =>
               UNCHANGED <<routed, covered, steady, inst>>
  <1>0. CacheInv /\ AppTypes /\ Refresher \in Clients
        /\ \A w \in Writers : w \in Clients /\ w # Refresher
    BY ClientsAre DEF ChecksInv, Types
  <1>1. CASE Refresh /\ ~ InstallationChanges
    <2>1. \E q : req' = [req EXCEPT ![Refresher] = q]
      BY <1>0, <1>1, RefreshMoves DEF Takes, Asks, Send
    <2>2. UNCHANGED <<runs, ids, up, owed>>
      BY <1>1
      DEF Refresh, RefreshStart, RefreshInstalls, RefreshRepos, RefreshFails, status,
          server
    <2> QED BY <1>0, <1>1, <2>1, <2>2, Keeps
  <1>2. CASE InstallationChanges
    <2>1. Changes /\ runs' = runs BY <1>0, <1>2, InstallsChange
    <2>2. UNCHANGED <<ids, up, owed, fresh>> BY <1>2 DEF InstallationChanges, status
    <2> QED BY <1>0, <1>2, <2>1, <2>2, Keeps
  <1>3. ASSUME NEW c \in Clients, Get(c), UNCHANGED <<app, status, bounds>>
        PROVE  /\ UNCHANGED <<runs, ids, up, owed, fresh, routed, covered, steady, inst>>
               /\ \A d \in Clients : Kept(d)
    BY <1>0, <1>3, Keeps DEF Get, Answer, Receive, server, app, status
  <1>4. CASE UNCHANGED vars
    BY <1>0, <1>4, Keeps DEF vars, server, app, status
  <1> QED BY <1>0, <1>1, <1>2, <1>3, <1>4

LEMMA AskingStep ==
  ASSUME ChecksInv, [Next]_vars
  PROVE  Asking'
  <1>0. /\ Asking /\ CacheInv /\ AppTypes /\ StatusTypes
        /\ up \in [Writers -> Upsert] /\ req \in [Clients -> Request]
        /\ Refresher \in Clients /\ Writers \subseteq Clients
    BY ClientsAre DEF ChecksInv, Types, StatusTypes, CacheInv, CacheTypes
  <1>1. ASSUME NEW w \in Writers, Kept(w), up'[w] = up[w], up'[w].at = "lookup"
        PROVE  req'[w].at # "idle" /\ req'[w].res = <<"lookup", 0>>
    BY <1>0, <1>1 DEF Asking, Kept
  <1>2. ASSUME Kept(Refresher), fresh' = fresh
        PROVE  /\ fresh'.at = "installs" => req'[Refresher].res = <<"installs", 0>>
               /\ fresh'.at = "repos" => cacheKey(req'[Refresher].res) = "repos"
    BY <1>0, <1>2 DEF Asking, Kept
  <1>3. ASSUME NEW w \in Writers, upsertCheckRun(w) \/ ReadStates(w)
        PROVE  Asking'
    <2>1. /\ UNCHANGED fresh /\ \A c \in Clients : c # w => Kept(c)
          /\ \A v \in Writers : v # w => up'[v] = up[v]
          /\ ReadStates(w) => up' = up /\ up[w].at = "idle"
      BY <1>3, OtherWriters
    <2>2. Kept(Refresher) BY <1>0, <2>1, ClientsAre
    <2>3. ASSUME up'[w].at = "lookup"
          PROVE  req'[w].at # "idle" /\ req'[w].res = <<"lookup", 0>>
      <3>1. CASE Begin(w)
        <4>1. Send(w, <<"lookup", 0>>)
          BY <1>0, <2>3, <3>1 DEF Begin
        <4> QED BY <1>0, <4>1 DEF Send
      <3>2. ~ LookedUp(w) /\ ~ Create(w) /\ ~ Patch(w) /\ ~ Remember(w)
            /\ ~ UpsertFails(w)
        <4>0. up[w] \in Upsert BY <1>0
        <4>1. LookedUp(w) => up'[w].at \in {"patch", "create"}
          BY <1>0, <4>0 DEF LookedUp, Upsert
        <4>2. Create(w) \/ Patch(w) => up'[w].at = "reply"
          BY <1>0, <4>0 DEF Create, Patch, Upsert
        <4>3. Remember(w) \/ UpsertFails(w) => up'[w].at = "idle"
          BY <1>0 DEF Remember, UpsertFails, NoUp
        <4> QED BY <2>3, <4>1, <4>2, <4>3
      <3>3. ~ ReadStates(w) BY <2>1, <2>3
      <3> QED BY <1>3, <3>1, <3>2, <3>3 DEF upsertCheckRun
    <2>4. \A v \in Writers : up'[v].at = "lookup" =>
              req'[v].at # "idle" /\ req'[v].res = <<"lookup", 0>>
      BY <1>0, <1>1, <2>1, <2>3
    <2> QED BY <1>2, <2>1, <2>2, <2>4 DEF Asking
  <1>4. CASE Restart
    <2>1. \A w \in Writers : up'[w].at = "idle" BY <1>4 DEF Restart, NoUp
    <2>2. fresh'.at = "idle" BY <1>4 DEF Restart, NoRefresh
    <2> QED BY <2>1, <2>2 DEF Asking
  <1>5. CASE \/ Refresh \/ InstallationChanges
             \/ \E c \in Clients : Get(c) /\ UNCHANGED <<app, status, bounds>>
             \/ UNCHANGED vars
    <2>1. /\ up' = up /\ \A w \in Writers : Kept(w)
          /\ ~ Refresh => Kept(Refresher) /\ fresh' = fresh
      BY <1>5, OtherSteps
    <2>2. \A v \in Writers : up'[v].at = "lookup" =>
              req'[v].at # "idle" /\ req'[v].res = <<"lookup", 0>>
      BY <1>1, <2>1
    <2>3. /\ fresh'.at = "installs" => req'[Refresher].res = <<"installs", 0>>
          /\ fresh'.at = "repos" => cacheKey(req'[Refresher].res) = "repos"
      <3>1. CASE ~ Refresh BY <1>2, <2>1, <3>1
      <3>2. CASE RefreshStart
        <4>1. fresh'.at = "installs" BY <3>2 DEF RefreshStart, NoRefresh
        <4>2. req'[Refresher].res = <<"installs", 0>>
          BY <1>0, <3>2 DEF RefreshStart, Send
        <4> QED BY <4>1, <4>2
      <3>3. ASSUME NEW todo, NEW found, RefreshNext(todo, found)
            PROVE  /\ fresh'.at # "installs"
                   /\ fresh'.at = "repos" => cacheKey(req'[Refresher].res) = "repos"
        <4>1. CASE fresh' = NoRefresh BY <4>1 DEF NoRefresh
        <4>2. ASSUME NEW i \in todo, Send(Refresher, <<"repos", i>>), fresh'.at = "repos"
              PROVE  cacheKey(req'[Refresher].res) = "repos"
          <5>1. req'[Refresher].res = <<"repos", i>> BY <1>0, <4>2 DEF Send
          <5> QED BY <5>1 DEF cacheKey
        <4>3. ASSUME NEW i \in todo, fresh' = [at |-> "repos", todo |-> todo \ {i},
                                               found |-> found]
              PROVE  fresh'.at = "repos"
          BY <4>3
        <4> QED BY <3>3, <4>1, <4>2, <4>3 DEF RefreshNext
      <3>4. CASE RefreshInstalls BY <3>3, <3>4 DEF RefreshInstalls
      <3>5. CASE RefreshRepos BY <3>3, <3>5 DEF RefreshRepos
      <3>6. CASE RefreshFails BY <3>6 DEF RefreshFails, NoRefresh
      <3> QED BY <3>1, <3>2, <3>3, <3>4, <3>5, <3>6 DEF Refresh
    <2> QED BY <2>2, <2>3 DEF Asking
  <1> QED BY <1>3, <1>4, <1>5, Zenon DEF Next

(***************************************************************************)
(* How many runs there can be.                                             *)
(***************************************************************************)

(* Who finds a run, or writes one, does not create one any more.           *)
LEMMA ActorBlank ==
  ASSUME ChecksInv, NEW w \in Writers, upsertCheckRun(w) \/ ReadStates(w),
         Blank(w)', Len(runs') # 0
  PROVE  Blank(w) /\ ~ Create(w)
  <1>0. /\ Asking /\ CacheInv /\ StatusTypes
        /\ up \in [Writers -> Upsert] /\ up[w] \in Upsert
        /\ req \in [Clients -> Request] /\ w \in Clients
        /\ runs \in Seq(Run) /\ inst \in [Repos -> 0 .. MaxInstalls]
    BY ClientsAre DEF ChecksInv, Types, StatusTypes, CacheInv, CacheTypes, ServerTypes
  <1>1. up'[w].at \in {"create", "lookup"} BY DEF Blank
  <1>2. ~ Begin(w)
    <2>1. SUFFICES ASSUME Begin(w) PROVE FALSE
      OBVIOUS
    <2>2. up'[w].at = "lookup" /\ Send(w, <<"lookup", 0>>) /\ runs' = runs
      BY <1>0, <1>1, <2>1 DEF Begin, server
    <2>3. Body(<<"lookup", 0>>) = runs
      <3>1. <<"lookup", 0>> \in Resources /\ cacheKey(<<"lookup", 0>>) = "lookup"
        BY DEF Resources, cacheKey
      <3> QED BY <1>0, <3>1, BodyTypes DEF Body
    <2>4. req'[w].seen = {runs} BY <1>0, <2>2, <2>3 DEF Send
    <2>5. up'[w].at # "create" BY <2>2
    <2> QED BY <2>2, <2>4, <2>5 DEF Blank
  <1>3. ASSUME LookedUp(w) PROVE Blank(w)
    <2>1. CASE Len(Result(w)) > 0
      BY <1>0, <1>1, <1>3, <2>1 DEF LookedUp, Upsert
    <2>2. CASE ~ (Len(Result(w)) > 0)
      <3>1. Result(w) \in Seq(Run) BY <1>0, <1>3, ListedTypes DEF LookedUp
      <3>2. Len(Result(w)) = 0 BY <2>2, <3>1
      <3>3. Result(w) \in req[w].seen BY <1>0, <1>3, ResultSeen DEF LookedUp
      <3>4. up[w].at = "lookup" BY <1>3 DEF LookedUp
      <3> QED BY <3>2, <3>3, <3>4 DEF Blank
    <2> QED BY <2>1, <2>2
  <1>4. ~ Create(w) /\ ~ Patch(w)
    BY <1>0, <1>1 DEF Create, Patch, Upsert
  <1>5. ~ Remember(w) /\ ~ UpsertFails(w)
    BY <1>0, <1>1 DEF Remember, UpsertFails, NoUp
  <1>6. ~ ReadStates(w)
    <2>1. ReadStates(w) => up'[w].at = "idle" BY <1>0 DEF ReadStates
    <2> QED BY <1>1, <2>1
  <1> QED BY <1>2, <1>3, <1>4, <1>5, <1>6 DEF upsertCheckRun

LEMMA BlankKept ==
  ASSUME ChecksInv, ServerTypes', NEW v \in Writers, Kept(v), up'[v] = up[v],
         Blank(v)', Len(runs') # 0
  PROVE  Blank(v)
  <1>1. CASE up[v].at = "create" BY <1>1 DEF Blank
  <1>2. CASE up[v].at = "lookup"
    <2>1. req[v].res = <<"lookup", 0>> BY <1>2 DEF ChecksInv, Asking
    <2>2. PICK b \in req'[v].seen : Len(b) = 0 BY <1>2 DEF Blank
    <2>3. BodyOf(req[v].res, runs', inst') = runs'
      <3>1. <<"lookup", 0>> \in Resources /\ cacheKey(<<"lookup", 0>>) = "lookup"
        BY DEF Resources, cacheKey
      <3> QED BY <2>1, <3>1, BodyTypes DEF ServerTypes
    <2>4. b \in req[v].seen BY <2>2, <2>3 DEF Kept
    <2> QED BY <1>2, <2>2, <2>4 DEF Blank
  <1> QED BY <1>1, <1>2 DEF Blank

LEMMA FewStep ==
  ASSUME ChecksInv, [Next]_vars
  PROVE  Few'
  <1>0. /\ Few /\ CacheInv /\ StatusTypes /\ Numbered /\ ServerTypes /\ ServerTypes'
        /\ IsFiniteSet(Writers)
    BY CacheStep, CacheAssumption DEF ChecksInv, Types, CacheInv
  <1>1. /\ IsFiniteSet(Creating) /\ Cardinality(Creating) \in Nat
        /\ IsFiniteSet(Creating') /\ Cardinality(Creating') \in Nat
        /\ Cardinality(Creating') <= Cardinality(Writers)
        /\ Cardinality(Writers) \in Nat
        /\ Len(runs) \in Nat /\ Len(runs') \in Nat
    <2>1. Creating \subseteq Writers /\ Creating' \subseteq Writers BY DEF Creating
    <2> QED BY <1>0, <2>1, FS_Subset, FS_CardinalityType DEF ServerTypes
  <1>2. CASE Len(runs') = 0
    <2> HIDE DEF Creating
    <2> QED BY <1>1, <1>2 DEF Few
  <1>3. ASSUME Len(runs') = Len(runs), Len(runs') # 0,
               \A v \in Writers : Blank(v)' => Blank(v)
        PROVE  Few'
    <2>1. Creating' \subseteq Creating BY <1>3 DEF Creating
    <2>2. Cardinality(Creating') <= Cardinality(Creating) BY <1>1, <2>1, FS_Subset
    <2> HIDE DEF Creating
    <2> QED BY <1>0, <1>1, <1>3, <2>2 DEF Few
  <1>4. ASSUME NEW w \in Writers, upsertCheckRun(w) \/ ReadStates(w), Len(runs') # 0
        PROVE  Few'
    <2>1. \A v \in Writers : Blank(v)' => Blank(v)
      <3>1. ASSUME NEW v \in Writers, Blank(v)' PROVE Blank(v)
        <4>1. CASE v = w BY <1>4, <3>1, <4>1, ActorBlank
        <4>2. CASE v # w
          <5>1. Kept(v) /\ up'[v] = up[v]
            BY <1>4, <4>2, OtherWriters, ClientsAre
          <5> QED BY <1>0, <1>4, <3>1, <5>1, BlankKept
        <4> QED BY <4>1, <4>2
      <3> QED BY <3>1
    <2>2. CASE Create(w)
      <3>1. w \in Creating BY <2>2 DEF Create, Creating, Blank
      <3>2. w \notin Creating' BY <1>4, <2>2, ActorBlank DEF Creating
      <3>3. Creating' \subseteq Creating \ {w} BY <2>1, <3>2 DEF Creating
      <3>4. IsFiniteSet(Creating \ {w})
            /\ Cardinality(Creating \ {w}) = Cardinality(Creating) - 1
        BY <1>1, <3>1, FS_RemoveElement
      <3>5. Cardinality(Creating') <= Cardinality(Creating) - 1
        BY <3>3, <3>4, FS_Subset
      <3>6. Len(runs') = Len(runs) + 1 BY <1>0, <2>2, RunsGrow
      <3> HIDE DEF Creating
      <3> QED BY <1>0, <1>1, <3>5, <3>6 DEF Few
    <2>3. CASE ~ Create(w)
      <3>1. CASE Patch(w)
        <4>1. Len(runs') = Len(runs) BY <1>0, <3>1, RunsGrow
        <4> QED BY <1>3, <1>4, <2>1, <4>1
      <3>2. CASE ~ Patch(w)
        <4>1. runs' = runs
          BY <1>4, <2>3, <3>2
          DEF upsertCheckRun, Begin, LookedUp, Remember, UpsertFails, ReadStates,
              server
        <4> QED BY <1>3, <1>4, <2>1, <4>1
      <3> QED BY <3>1, <3>2
    <2> QED BY <2>2, <2>3
  <1>5. CASE Restart /\ Len(runs') # 0
    <2>1. runs' = runs /\ \A v \in Writers : up'[v].at = "idle"
      BY <1>5 DEF Restart, NoUp, server
    <2>2. \A v \in Writers : Blank(v)' => Blank(v) BY <2>1 DEF Blank
    <2> QED BY <1>3, <1>5, <2>1, <2>2
  <1>6. CASE /\ \/ Refresh \/ InstallationChanges
                \/ \E c \in Clients : Get(c) /\ UNCHANGED <<app, status, bounds>>
                \/ UNCHANGED vars
             /\ Len(runs') # 0
    <2>1. UNCHANGED <<runs, up>> /\ \A v \in Writers : Kept(v)
      BY <1>6, OtherSteps
    <2>2. \A v \in Writers : Blank(v)' => Blank(v)
      BY <1>0, <1>6, <2>1, BlankKept
    <2> QED BY <1>3, <1>6, <2>1, <2>2
  <1> QED BY <1>2, <1>4, <1>5, <1>6, Zenon DEF Next

(***************************************************************************)
(* What the run shows.                                                     *)
(***************************************************************************)

(* A PATCH to pending leaves the old conclusion, which is not read then.   *)
LEMMA PatchShows ==
  ASSUME CacheInv, StatusTypes, Numbered, NEW w \in Writers, Patch(w),
         Len(runs) = 1
  PROVE  CheckRunToState(runs'[1]) = CheckRunToState(checkRunFields(up[w].state))
  <1> DEFINE f == checkRunFields(up[w].state)
             id == up[w].id
  <1>1. up[w].state \in States /\ runs \in Seq(Run)
    BY DEF StatusTypes, Upsert, CacheInv, ServerTypes
  <1>2. f \in Run /\ (f.conclusion = "" => f.status = "in_progress")
    BY <1>1, FieldTypes
  <1>3. id \in 0 .. 1 /\ id # 0 BY DEF Numbered, Patch
  <1>4. hUpdateCheckRun(id, f.status, f.conclusion) BY DEF Patch
  <1> HIDE DEF f, id
  <1>5. id = 1 BY <1>3
  <1> DEFINE new == [status |-> f.status,
                     conclusion |-> IF f.conclusion = "" THEN runs[1].conclusion
                                    ELSE f.conclusion]
  <1>6. runs' = [runs EXCEPT ![1] = new] BY <1>4, <1>5 DEF hUpdateCheckRun
  <1>7. runs'[1] = new
    <2> HIDE DEF new
    <2>1. 1 \in DOMAIN runs BY <1>1
    <2> QED BY <1>6, <2>1
  <1>8. new.status = f.status
         /\ (f.conclusion # "" => new.conclusion = f.conclusion)
    OBVIOUS
  <1>9. f = [status |-> f.status, conclusion |-> f.conclusion] BY <1>2 DEF Run
  <1>10. CASE f.conclusion = ""
    <2>1. f.status = "in_progress" BY <1>2, <1>10, Zenon
    <2>2. runs'[1].status = f.status
      <3> HIDE DEF new
      <3> QED BY <1>7, <1>8
    <2>3. runs'[1].status = "in_progress" BY <2>1, <2>2, Zenon
    <2>4. CheckRunToState(runs'[1]) = "pending" BY <2>3 DEF CheckRunToState
    <2>5. CheckRunToState(f) = "pending" BY <2>1 DEF CheckRunToState
    <2> QED BY <2>4, <2>5 DEF f
  <1>11. CASE f.conclusion # ""
    <2>1. runs'[1] = f BY <1>7, <1>11, <1>9
    <2> QED BY <2>1 DEF f
  <1> QED BY <1>10, <1>11

LEMMA LatestStep ==
  ASSUME ChecksInv, [Next]_vars
  PROVE  Latest'
  <1>0. /\ Latest /\ CacheInv /\ StatusTypes /\ Numbered
        /\ up \in [Writers -> Upsert] /\ runs \in Seq(Run)
    BY DEF ChecksInv, Types, StatusTypes, CacheInv, ServerTypes
  <1>1. CASE UNCHANGED <<runs, up, owed>>
    BY <1>0, <1>1 DEF Latest, Alone, GetCheckStates
  <1>2. CASE owed' = "unknown" BY <1>2 DEF Latest
  <1>3. ASSUME NEW w \in Writers, upsertCheckRun(w), owed' # "unknown"
        PROVE  Latest'
    <2>1. \A v \in Writers : v # w => up'[v] = up[v] BY <1>3, OtherWriters
    <2>2. CASE Begin(w)
      <3>1. Alone(w) /\ up'[w].state = owed' /\ up'[w].at \in {"patch", "lookup"}
        BY <1>0, <1>3, <2>2 DEF Begin, Begins
      <3>2. \A v \in Writers : v # w => up'[v].at = "idle"
        BY <2>1, <3>1 DEF Alone
      <3>3. Alone(w)' BY <3>2 DEF Alone
      <3> QED BY <3>1, <3>2, <3>3 DEF Latest
    <2>3. ASSUME owed' = owed, up[w].at # "idle", up'[w].state = up[w].state,
                 Len(runs') = 1 /\ up'[w].at = "reply"
                    => GetCheckStates' = CheckRunToState(checkRunFields(owed)),
                 up'[w].at # "idle"
          PROVE  Latest'
      <3>1. up[w].state = owed /\ Alone(w) BY <1>0, <1>3, <2>3 DEF Latest
      <3>2. \A v \in Writers : v # w => up'[v].at = "idle"
        BY <2>1, <3>1 DEF Alone
      <3>3. Alone(w)' BY <3>2 DEF Alone
      <3> QED BY <2>3, <3>1, <3>2, <3>3 DEF Latest
    <2>4. CASE LookedUp(w)
      <3>1. /\ owed' = owed /\ up[w].at # "idle" /\ up'[w].state = up[w].state
            /\ up'[w].at \in {"patch", "create"}
        BY <1>0, <2>4 DEF LookedUp, Upsert
      <3> QED BY <2>3, <3>1
    <2>5. CASE Create(w) \/ Patch(w)
      <3>1. /\ owed' = owed /\ up[w].at # "idle" /\ up'[w].state = up[w].state
            /\ up'[w].at = "reply"
        BY <1>0, <2>5 DEF Create, Patch, Upsert
      <3>2. up[w].state = owed BY <1>0, <1>3, <3>1 DEF Latest
      <3>3. ASSUME Len(runs') = 1
            PROVE  GetCheckStates' = CheckRunToState(checkRunFields(owed))
        <4>1. GetCheckStates' = CheckRunToState(runs'[1])
          <5>1. GetCheckStates' = CheckRunToState(runs[Len(runs)])'
            BY DEF GetCheckStates
          <5> QED BY <3>3, <5>1 DEF CheckRunToState
        <4>2. CASE Create(w)
          <5> DEFINE f == checkRunFields(up[w].state)
          <5>1. runs' = Append(runs, f) /\ Len(runs') = Len(runs) + 1
            BY <1>0, <4>2, RunsGrow
          <5>2. f \in Run BY <1>0, FieldTypes DEF Upsert
          <5> HIDE DEF f
          <5>3. runs'[1] = f BY <1>0, <3>3, <5>1, <5>2
          <5> QED BY <3>2, <4>1, <5>3 DEF f
        <4>3. CASE Patch(w)
          <5>1. Len(runs) = 1 BY <1>0, <3>3, <4>3, RunsGrow
          <5> QED BY <1>0, <3>2, <4>1, <4>3, <5>1, PatchShows
        <4> QED BY <2>5, <4>2, <4>3
      <3> QED BY <2>3, <3>1, <3>3
    <2>6. CASE Remember(w)
      <3>1. /\ owed' = owed /\ up[w].at = "reply" /\ up'[w].at = "idle"
            /\ runs' = runs
        BY <1>0, <2>6 DEF Remember, NoUp, server
      <3>2. Alone(w) BY <1>0, <1>3, <3>1 DEF Latest
      <3>3. \A v \in Writers : up'[v].at = "idle"
            /\ up[v].at \in {"idle", "reply"}
        BY <2>1, <3>1, <3>2 DEF Alone
      <3>4. GetCheckStates' = GetCheckStates BY <3>1 DEF GetCheckStates
      <3> QED BY <1>0, <1>3, <3>1, <3>3, <3>4 DEF Latest
    <2>7. ~ UpsertFails(w) BY <1>3 DEF UpsertFails
    <2> QED BY <1>3, <2>2, <2>4, <2>5, <2>6, <2>7 DEF upsertCheckRun
  <1>4. ASSUME NEW w \in Writers, ReadStates(w) PROVE Latest'
    BY <1>1, <1>4 DEF ReadStates, server
  <1>5. CASE Restart BY <1>2, <1>5 DEF Restart
  <1>6. CASE \/ Refresh \/ InstallationChanges
             \/ \E c \in Clients : Get(c) /\ UNCHANGED <<app, status, bounds>>
             \/ UNCHANGED vars
    <2>1. UNCHANGED <<runs, up, owed>> BY <1>6, OtherSteps
    <2> QED BY <1>1, <2>1
  <1> QED BY <1>2, <1>3, <1>4, <1>5, <1>6, Zenon DEF Next

(***************************************************************************)
(* What a refresh finds.                                                   *)
(***************************************************************************)

(* A listing taken while a repository stays where it is tells so.          *)
LEMMA ListedInstalls ==
  ASSUME NEW checks \in Seq(Run), NEW covering \in [Repos -> 0 .. MaxInstalls],
         NEW r \in Repos, covering[r] # 0
  PROVE  covering[r] \in BodyOf(<<"installs", 0>>, checks, covering)
  BY DEF BodyOf

LEMMA ListedRepos ==
  ASSUME NEW checks \in Seq(Run), NEW covering \in [Repos -> 0 .. MaxInstalls],
         NEW res \in Resources, cacheKey(res) = "repos", NEW r \in Repos
  PROVE  r \in BodyOf(res, checks, covering) <=> res[2] = covering[r]
  <1>1. BodyOf(res, checks, covering) = {x \in Repos : covering[x] = res[2]}
    BY BodyTypes
  <1> QED BY <1>1

LEMMA TrackedFrame ==
  ASSUME ChecksInv, ServerTypes', Kept(Refresher), UNCHANGED <<fresh, routed>>,
         covered' \subseteq covered, steady' \subseteq steady,
         \A r \in covered' \cup steady' : inst'[r] = inst[r]
  PROVE  Tracked' /\ RefreshKeepsCovered'
  <1>0. /\ Tracked /\ RefreshKeepsCovered /\ Asking
        /\ covered \subseteq Repos /\ steady \subseteq Repos
        /\ req[Refresher].res \in Resources
        /\ runs' \in Seq(Run) /\ inst' \in [Repos -> 0 .. MaxInstalls]
    BY ClientsAre
    DEF ChecksInv, Types, AppTypes, CacheInv, CacheTypes, Request, ServerTypes
  <1>1. \A r \in covered' \cup steady' : inst'[r] # 0 BY <1>0 DEF Tracked
  <1>2. ASSUME fresh.at = "installs", NEW r \in covered', NEW b \in req'[Refresher].seen
        PROVE  inst'[r] \in b
    <2>1. CASE b \in req[Refresher].seen BY <1>0, <1>2, <2>1 DEF Tracked
    <2>2. CASE b = BodyOf(req[Refresher].res, runs', inst')
      <3>1. req[Refresher].res = <<"installs", 0>> BY <1>0, <1>2 DEF Asking
      <3>2. r \in Repos /\ inst'[r] # 0 BY <1>0, <1>1, <1>2
      <3> QED BY <1>0, <2>2, <3>1, <3>2, ListedInstalls
    <2> QED BY <2>1, <2>2 DEF Kept
  <1>3. ASSUME fresh.at = "repos", NEW r \in covered', NEW b \in req'[Refresher].seen
        PROVE  r \in b <=> req'[Refresher].res[2] = inst'[r]
    <2>0. req'[Refresher].res = req[Refresher].res BY DEF Kept
    <2>1. CASE b \in req[Refresher].seen BY <1>0, <1>3, <2>0, <2>1 DEF Tracked
    <2>2. CASE b = BodyOf(req[Refresher].res, runs', inst')
      <3>1. cacheKey(req[Refresher].res) = "repos" BY <1>0, <1>3 DEF Asking
      <3>2. r \in Repos /\ inst'[r] # 0 BY <1>0, <1>1, <1>3
      <3> QED BY <1>0, <2>0, <2>2, <3>1, <3>2, ListedRepos
    <2> QED BY <2>1, <2>2 DEF Kept
  <1>4. ASSUME fresh.at = "repos", NEW r \in covered'
        PROVE  \/ fresh'.found[r] = inst'[r]
               \/ inst'[r] \in fresh'.todo
               \/ req'[Refresher].res[2] = inst'[r]
    <2>1. inst'[r] = inst[r] /\ r \in covered BY <1>4
    <2> QED BY <1>0, <1>4, <2>1 DEF Tracked, Kept
  <1>5. Tracked' BY <1>1, <1>2, <1>3, <1>4 DEF Tracked
  <1>6. RefreshKeepsCovered' BY <1>0 DEF RefreshKeepsCovered
  <1> QED BY <1>5, <1>6

(* Going on to the next installation, or ending.                           *)
LEMMA RefreshGoesOn ==
  ASSUME ChecksInv, NEW todo \in SUBSET Installs,
         NEW found \in [Repos -> 0 .. MaxInstalls], RefreshNext(todo, found),
         UNCHANGED <<runs, inst, entries, covered>>,
         \A r \in covered : found[r] = inst[r] \/ inst[r] \in todo
  PROVE  Tracked' /\ RefreshKeepsCovered'
  <1>0. /\ Tracked /\ RefreshKeepsCovered
        /\ covered \subseteq Repos /\ steady \subseteq Repos
        /\ runs \in Seq(Run) /\ inst \in [Repos -> 0 .. MaxInstalls]
        /\ req \in [Clients -> Request] /\ Refresher \in Clients
        /\ \A r \in covered \cup steady : inst[r] # 0
    BY ClientsAre
    DEF ChecksInv, Types, AppTypes, CacheInv, CacheTypes, ServerTypes, Tracked
  <1>1. CASE /\ todo = {} /\ routed' = found /\ steady' = covered
             /\ fresh' = NoRefresh
    <2>1. RefreshKeepsCovered' BY <1>0, <1>1 DEF RefreshKeepsCovered
    <2>2. fresh'.at = "idle" BY <1>1 DEF NoRefresh
    <2>3. Tracked' BY <1>0, <1>1, <2>2 DEF Tracked
    <2> QED BY <2>1, <2>3
  <1>2. ASSUME NEW i \in todo, Send(Refresher, <<"repos", i>>),
               fresh' = [at |-> "repos", todo |-> todo \ {i}, found |-> found],
               UNCHANGED <<routed, steady>>
        PROVE  Tracked' /\ RefreshKeepsCovered'
    <2> DEFINE res == <<"repos", i>>
    <2>1. res \in Resources /\ cacheKey(res) = "repos" /\ res[2] = i
      BY DEF Resources, cacheKey
    <2>2. req'[Refresher].res = res /\ req'[Refresher].seen = {Body(res)}
      BY <1>0, <1>2 DEF Send
    <2>3. \A r \in covered : r \in Body(res) <=> i = inst[r]
      <3> HIDE DEF res
      <3>1. ASSUME NEW r \in covered PROVE r \in Body(res) <=> i = inst[r]
        <4>1. r \in Repos BY <1>0
        <4>2. r \in BodyOf(res, runs, inst) <=> res[2] = inst[r]
          BY <1>0, <2>1, <4>1, ListedRepos
        <4> QED BY <2>1, <4>2 DEF Body
      <3> QED BY <3>1
    <2>4. fresh'.at = "repos" /\ fresh'.todo = todo \ {i} /\ fresh'.found = found
      BY <1>2
    <2> HIDE DEF res
    <2>5. RefreshKeepsCovered' BY <1>0, <1>2 DEF RefreshKeepsCovered
    <2>6. ASSUME NEW r \in covered
          PROVE  /\ \/ fresh'.found[r] = inst'[r]
                    \/ inst'[r] \in fresh'.todo
                    \/ req'[Refresher].res[2] = inst'[r]
                 /\ \A b \in req'[Refresher].seen :
                       r \in b <=> req'[Refresher].res[2] = inst'[r]
      BY <2>1, <2>2, <2>3, <2>4
    <2>7. Tracked' BY <1>0, <1>2, <2>4, <2>6 DEF Tracked
    <2> QED BY <2>5, <2>7
  <1> QED BY <1>1, <1>2 DEF RefreshNext

LEMMA TrackedStep ==
  ASSUME ChecksInv, [Next]_vars
  PROVE  Tracked' /\ RefreshKeepsCovered'
  <1>0. /\ Tracked /\ RefreshKeepsCovered /\ Asking /\ CacheInv
        /\ AppTypes /\ fresh \in Refreshed
        /\ covered \subseteq Repos /\ steady \subseteq Repos
        /\ runs \in Seq(Run) /\ inst \in [Repos -> 0 .. MaxInstalls]
        /\ req \in [Clients -> Request] /\ Refresher \in Clients
        /\ ServerTypes'
    BY ClientsAre, CacheStep
    DEF ChecksInv, Types, AppTypes, CacheInv, CacheTypes, ServerTypes
  <1>1. ASSUME NEW w \in Writers, upsertCheckRun(w) \/ ReadStates(w)
        PROVE  Tracked' /\ RefreshKeepsCovered'
    <2>1. UNCHANGED <<fresh, covered, steady, routed, inst>> /\ Kept(Refresher)
      BY <1>1, OtherWriters, ClientsAre
    <2> QED BY <1>0, <2>1, TrackedFrame
  <1>2. CASE Restart
    <2>1. fresh'.at = "idle" /\ covered' = {} /\ steady' = {}
      BY <1>2 DEF Restart, NoRefresh
    <2> QED BY <2>1 DEF Tracked, RefreshKeepsCovered
  <1>3. CASE InstallationChanges
    <2>1. Kept(Refresher) /\ fresh' = fresh /\ routed' = routed
      BY <1>3, OtherSteps DEF InstallationChanges
    <2>2. PICK r \in Repos :
            \/ Uninstall(r) /\ covered' = covered \ {r} /\ steady' = steady \ {r}
            \/ Install(r) /\ UNCHANGED <<covered, steady>>
      BY <1>3 DEF InstallationChanges
    <2>3. covered' \subseteq covered /\ steady' \subseteq steady BY <2>2
    <2>4. \A x \in covered' \cup steady' : inst'[x] = inst[x]
      <3>1. \A x \in Repos : x # r => inst'[x] = inst[x]
        BY <1>0, <2>2 DEF Uninstall, Install
      <3>2. Install(r) => r \notin covered \cup steady
        BY <1>0 DEF Install, Tracked
      <3> QED BY <1>0, <2>2, <3>1, <3>2
    <2> QED BY <1>0, <2>1, <2>3, <2>4, TrackedFrame
  <1>4. ASSUME ~ Refresh, ~ InstallationChanges,
               \/ \E c \in Clients : Get(c) /\ UNCHANGED <<app, status, bounds>>
               \/ UNCHANGED vars
        PROVE  Tracked' /\ RefreshKeepsCovered'
    <2>1. /\ Kept(Refresher) /\ fresh' = fresh
          /\ UNCHANGED <<routed, covered, steady, inst>>
      BY <1>4, OtherSteps
    <2> QED BY <1>0, <2>1, TrackedFrame
  <1>5. CASE Refresh
    <2>0. UNCHANGED <<runs, inst, entries>>
      BY <1>5
      DEF Refresh, RefreshStart, RefreshInstalls, RefreshRepos, RefreshFails, server
    <2>1. CASE RefreshStart
      <3>1. /\ fresh'.at = "installs" /\ routed' = routed /\ steady' = steady
            /\ covered' = {r \in Repos : inst[r] # 0}
            /\ req'[Refresher].seen = {Body(<<"installs", 0>>)}
        BY <1>0, <2>1 DEF RefreshStart, NoRefresh, Send
      <3>2. \A r \in covered' : inst[r] \in Body(<<"installs", 0>>)
        <4>1. ASSUME NEW r \in covered'
              PROVE  inst[r] \in Body(<<"installs", 0>>)
          <5>1. r \in Repos /\ inst[r] # 0 BY <3>1, <4>1
          <5> QED BY <1>0, <5>1, ListedInstalls DEF Body
        <4> QED BY <4>1
      <3>3. RefreshKeepsCovered' BY <1>0, <2>0, <3>1 DEF RefreshKeepsCovered
      <3>4. Tracked' BY <1>0, <2>0, <3>1, <3>2 DEF Tracked
      <3> QED BY <3>3, <3>4
    <2>2. CASE RefreshInstalls
      <3>1. fresh.at = "installs" /\ RefreshNext(Result(Refresher), fresh.found)
            /\ covered' = covered
        BY <2>2 DEF RefreshInstalls
      <3>2. Result(Refresher) \in SUBSET Installs
            /\ Result(Refresher) \in req[Refresher].seen
        BY <1>0, <2>2, ListedTypes, ResultSeen DEF RefreshInstalls
      <3>3. fresh.found \in [Repos -> 0 .. MaxInstalls] BY <1>0 DEF Refreshed
      <3>4. \A r \in covered : inst[r] \in Result(Refresher)
        BY <1>0, <3>1, <3>2 DEF Tracked
      <3> QED BY <2>0, <3>1, <3>2, <3>3, <3>4, RefreshGoesOn
    <2>3. CASE RefreshRepos
      <3>1. PICK i \in Installs :
              /\ Done(Refresher, <<"repos", i>>)
              /\ RefreshNext(fresh.todo,
                             [r \in Repos |-> IF r \in Result(Refresher) THEN i
                                              ELSE fresh.found[r]])
        BY <2>3 DEF RefreshRepos
      <3> DEFINE found == [r \in Repos |-> IF r \in Result(Refresher) THEN i
                                           ELSE fresh.found[r]]
      <3>2. fresh.at = "repos" /\ covered' = covered BY <2>3 DEF RefreshRepos
      <3>3. Result(Refresher) \in req[Refresher].seen
            /\ req[Refresher].res = <<"repos", i>>
        BY <1>0, <3>1, ResultSeen
      <3>4. fresh.found \in [Repos -> 0 .. MaxInstalls]
            /\ fresh.todo \in SUBSET Installs /\ i \in 0 .. MaxInstalls
        BY <1>0, Sizes DEF Refreshed, Installs
      <3>5. found \in [Repos -> 0 .. MaxInstalls] BY <3>4
      <3>6. \A r \in covered : found[r] = inst[r] \/ inst[r] \in fresh.todo
        <4>1. ASSUME NEW r \in covered
              PROVE  found[r] = inst[r] \/ inst[r] \in fresh.todo
          <5>1. r \in Result(Refresher) <=> i = inst[r]
            BY <1>0, <3>2, <3>3 DEF Tracked
          <5>2. \/ fresh.found[r] = inst[r] \/ inst[r] \in fresh.todo
                \/ i = inst[r]
            BY <1>0, <3>2, <3>3 DEF Tracked
          <5>3. found[r] = IF r \in Result(Refresher) THEN i ELSE fresh.found[r]
            BY <1>0
          <5> QED BY <5>1, <5>2, <5>3
        <4> QED BY <4>1
      <3> HIDE DEF found
      <3>7. RefreshNext(fresh.todo, found) BY <3>1 DEF found
      <3> QED BY <2>0, <3>2, <3>4, <3>5, <3>6, <3>7, RefreshGoesOn
    <2>4. CASE RefreshFails
      <3>1. fresh'.at = "idle" /\ UNCHANGED <<routed, covered, steady>>
        BY <2>4 DEF RefreshFails, NoRefresh
      <3> QED BY <1>0, <2>0, <3>1 DEF Tracked, RefreshKeepsCovered
    <2> QED BY <1>5, <2>1, <2>2, <2>3, <2>4 DEF Refresh
  <1> QED
    BY <1>1, <1>2, <1>3, <1>4, <1>5, Zenon DEF Next

(***************************************************************************)
(* The theorems.                                                           *)
(***************************************************************************)

LEMMA ChecksInit == Init => ChecksInv
  <1> SUFFICES ASSUME Init PROVE ChecksInv
    OBVIOUS
  <1>0. /\ runs = <<>> /\ inst = Installed /\ installs = Cardinality(Repos)
        /\ entries = [k \in Keys |-> {}] /\ req = [c \in Clients |-> NoReq]
        /\ up = [w \in Writers |-> NoUp] /\ fresh = NoRefresh
    BY DEF Init, CacheInit
  <1>1. ServerTypes
    <2>1. runs \in Seq(Run) BY <1>0
    <2>2. inst \in [Repos -> 0 .. MaxInstalls]
      BY <1>0, Sizes, CacheAssumption
    <2> QED BY <1>0, <2>1, <2>2, Sizes DEF ServerTypes
  <1>2. CacheTypes BY <1>0, NoReqIs DEF CacheTypes
  <1>3. Bounded
    <2>1. {k \in Keys : entries[k] # {}} = {} BY <1>0
    <2>2. Cardinality({}) = 0 BY FS_EmptySet
    <2>3. Cardinality({k \in Keys : entries[k] # {}}) <= MaxSize
      BY <2>1, <2>2, Sizes
    <2> QED BY <1>0, <2>3 DEF Bounded
  <1>4. \A c \in Clients : Honest(c) /\ Shaped(c)
    BY <1>0, NoReqIs DEF Honest, Shaped
  <1>5. CacheInv BY <1>1, <1>2, <1>3, <1>4 DEF CacheInv
  <1>6. Types
    <2>1. [r \in Repos |-> 0] \in [Repos -> 0 .. MaxInstalls] BY Sizes
    <2>2. AppTypes
      BY <2>1 DEF Init, AppTypes, NoRefresh, Refreshed
    <2>3. StatusTypes BY DEF Init, StatusTypes, NoUp, Upsert, States
    <2>4. Counters BY Sizes DEF Init, Counters
    <2> QED BY <2>2, <2>3, <2>4 DEF Types
  <1>7. Numbered BY <1>0 DEF Init, Numbered, NoUp
  <1>8. Asking BY <1>0 DEF Asking, NoUp, NoRefresh
  <1>9. Few
    <2>1. Creating = {} BY <1>0 DEF Creating, Blank, NoUp
    <2>2. Cardinality(Creating) = 0 BY <2>1, FS_EmptySet
    <2>3. Cardinality(Writers) \in Nat /\ Len(runs) = 0
      BY <1>0, CacheAssumption, FS_CardinalityType
    <2> HIDE DEF Creating
    <2> QED BY <2>2, <2>3 DEF Few
  <1>10. Latest BY DEF Init, Latest
  <1>11. Tracked /\ RefreshKeepsCovered
    BY DEF Init, Tracked, RefreshKeepsCovered, NoRefresh
  <1> QED
    BY <1>5, <1>6, <1>7, <1>8, <1>9, <1>10, <1>11 DEF ChecksInv

LEMMA ChecksStep == ChecksInv /\ [Next]_vars => ChecksInv'
  BY CacheStep, TypesStep, AskingStep, FewStep, LatestStep, TrackedStep DEF ChecksInv

(* The cache, the token map and the check runs agree as ChecksInv says,    *)
(* whatever requests are lost and whenever the process restarts            *)
(* (etagcache.go, app.go:108-134, checkrun.go).                            *)
THEOREM ChecksCorrect == Spec => []ChecksInv
  BY ChecksInit, ChecksStep, PTL DEF Spec

(* Every variable has its type; the cache never has more than MaxSize      *)
(* entries, and nobody writes to a run that is not there.                  *)
THEOREM ChecksTypesCorrect == Spec => []ChecksTypeOK
  <1>1. ChecksInv => CacheTypeOK
    <2> SUFFICES ASSUME ChecksInv PROVE CacheTypeOK
      OBVIOUS
    <2>1. CacheInv /\ ServerTypes /\ CacheTypes /\ Bounded BY DEF ChecksInv, CacheInv
    <2>2. ASSUME NEW k \in Keys PROVE Cardinality(entries[k]) <= 1
      <3>1. CASE entries[k] = {}
        <4>1. Cardinality({}) = 0 BY FS_EmptySet
        <4> QED BY <3>1, <4>1
      <3>2. CASE entries[k] # {}
        <4>1. PICK b : b \in entries[k] BY <3>2
        <4>2. entries[k] = {b} BY <2>1, <4>1 DEF Bounded
        <4>3. Cardinality({b}) = 1 BY FS_Singleton
        <4> QED BY <4>2, <4>3
      <3> QED BY <3>1, <3>2
    <2>3. \A c \in Clients : req[c].at \in {"idle", "sent", "answered", "done"}
                             /\ req[c].res \in Resources
      BY <2>1 DEF CacheTypes, Request
    <2> QED BY <2>1, <2>2, <2>3 DEF CacheTypeOK, ServerTypes, Bounded
  <1>2. ChecksInv => ChecksTypeOK
    BY <1>1
    DEF ChecksInv, Types, AppTypes, StatusTypes, Counters, Numbered, ChecksTypeOK,
        Upsert, Refreshed
  <1> QED BY <1>2, ChecksCorrect, PTL

(* A GET returns what the server had between the request and the answer    *)
(* (etagcache.go:36-97).                                                   *)
THEOREM ReadsAreFresh == Spec => []NoStaleRead
  <1>1. ChecksInv => NoStaleRead
    BY DEF ChecksInv, CacheInv, Honest, NoStaleRead
  <1> QED BY <1>1, ChecksCorrect, PTL

(* A commit carries at most one run for every goroutine that may look it   *)
(* up at a time (checkrun.go:81-94).                                       *)
THEOREM RunsAreFew == Spec => []FewRuns
  <1>1. ChecksInv => FewRuns
    <2> SUFFICES ASSUME ChecksInv PROVE Len(runs) <= Cardinality(Writers)
      BY DEF FewRuns
    <2>1. Creating \subseteq Writers BY DEF Creating
    <2>2. /\ Cardinality(Creating) \in Nat /\ Cardinality(Writers) \in Nat
          /\ Len(runs) \in Nat
      BY <2>1, CacheAssumption, FS_Subset, FS_CardinalityType
      DEF ChecksInv, CacheInv, ServerTypes
    <2>3. Few BY DEF ChecksInv
    <2> HIDE DEF Creating
    <2> QED BY <2>2, <2>3 DEF Few
  <1> QED BY <1>1, ChecksCorrect, PTL

(* The status read back is the one written last by an upsert that ran      *)
(* alone and succeeded (checkrun.go:37-72, forge.go:128-140).              *)
THEOREM LastWriteShown == Spec => []ShowsLastWrite
  <1>1. ChecksInv => ShowsLastWrite
    BY DEF ChecksInv, Latest, ShowsLastWrite
  <1> QED BY <1>1, ChecksCorrect, PTL

(* No refresh, whole or broken off, hides a repository that stayed covered *)
(* while it ran (app.go:108-134).                                          *)
THEOREM CoveredStays == Spec => []RefreshKeepsCovered
  <1>1. ChecksInv => RefreshKeepsCovered BY DEF ChecksInv
  <1> QED BY <1>1, ChecksCorrect, PTL

=============================================================================
