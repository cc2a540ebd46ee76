---------------------------- MODULE GitCacheProofs ----------------------------
(***************************************************************************)
(* What holds of the clone for any number of engines, heads, pushes and    *)
(* faults: a build that is returned holds what it says, and no operation   *)
(* loses the commits it works on.                                          *)
(***************************************************************************)
EXTENDS GitCache, FiniteSetTheorems, WellFoundedInduction, TLAPS

(***************************************************************************)
(* The inductive invariant.                                                *)
(***************************************************************************)

(* Commits are made in order, and what is reachable is made and reaches    *)
(* no further.  A head reaches no other head.                              *)
Graph ==
    /\ history \in [Commits -> SUBSET Commits]
    /\ Made = 0 .. Fresh - 1 /\ Fresh \in Nat
    /\ Heads \subseteq Made
    /\ \A c \in Made : c \in history[c] /\ history[c] \subseteq Made
    /\ \A p \in Heads : history[p] \cap Heads = {p}

Clone == [at      : {"none", "bare", "ready"},
          bad     : SUBSET Parts,
          main    : Commits \cup {None},
          has     : SUBSET Commits]

Call == [at    : {"idle", "lock", "open", "remote", "fetch", "healthy", "remove",
                  "merge", "push", "gc"},
         op    : {"stack", "land"},
         again : BOOLEAN,
         todo  : SUBSET Heads,
         surv  : SUBSET Heads,
         base  : Commits \cup {None},
         cur   : Commits \cup {None},
         seen  : SUBSET Commits]

Types ==
    /\ main \in Commits /\ branch \in [Users -> Commits \cup {None}]
    /\ vanished \subseteq Heads
    /\ clone \in Clone
    /\ holder \in Users \cup {None}
    /\ call \in [Users -> Call]
    /\ built \in [Users -> Commits \cup {None}]
    /\ pushes \in 0 .. MaxPushes /\ faults \in 0 .. MaxFaults

(* Nothing names a commit that is not made.                                *)
MadeOnly ==
    /\ main \in Made
    /\ clone.has \subseteq Made /\ clone.main \in clone.has \cup {None}
    /\ \A u \in Users :
          {branch[u], call[u].base, call[u].cur, built[u]} \subseteq Made \cup {None}

(* The lock, and who has no call.                                          *)
Held ==
    \A u \in Users :
        /\ call[u].at \notin {"idle", "lock"} => holder = u
        /\ call[u].at = "idle" => call[u] = NoCall

Opening == {"lock", "open", "remote", "fetch", "healthy", "remove"}
Working == {"merge", "push", "gc"}

(* Where the call of u is in its program.                                  *)
Program(u) ==
    /\ call[u].op = "stack" /\ call[u].at \in Opening =>
         call[u].cur = None /\ call[u].surv = {}
    /\ call[u].op = "land" /\ call[u].at # "idle" => call[u].cur # None
    /\ call[u].at \in {"merge", "gc"} => call[u].op = "stack"
    /\ call[u].at \in Working => call[u].base # None
    /\ call[u].at \in {"push", "gc"} => call[u].cur # None

(* What is stacked on the base are the heads reported as merged.           *)
Stack(u) ==
    call[u].op = "stack" /\ call[u].at \in Working =>
        /\ call[u].base \in call[u].seen
        /\ history[Tip(u)] \cap Heads
               = call[u].surv \cup (history[call[u].base] \cap Heads)

Watched(u) == call[u].at # "idle" => main \in call[u].seen
Pushed(u)  == call[u].at = "gc" => branch[u] = call[u].cur
Stays(u)   == call[u].at \in {"merge", "push"} =>
                  {call[u].base, Tip(u)} \subseteq clone.has

Sound(u) == Program(u) /\ Stack(u) /\ Watched(u) /\ Pushed(u) /\ Stays(u)

CacheInv == Graph /\ Types /\ MadeOnly /\ Held /\ \A u \in Users : Sound(u)

(***************************************************************************)
(* Commits and heads.                                                      *)
(***************************************************************************)

LEMMA Bounds ==
  /\ MaxCommits \in Nat /\ MaxPushes \in Nat /\ MaxFaults \in Nat
  /\ Cardinality(Heads) \in Nat /\ Cardinality(Heads) <= MaxCommits
  /\ None \notin Users
  <1>1. {MaxCommits, MaxPushes, MaxFaults} \subseteq Nat BY GitCacheAssumption
  <1>2. MaxCommits \in Nat /\ MaxPushes \in Nat /\ MaxFaults \in Nat
    BY <1>1, Zenon
  <1> QED BY <1>2, GitCacheAssumption

LEMMA HeadsAreCommits ==
  Heads \subseteq Commits \ {0} /\ None \notin Commits
  BY Bounds, GitCacheAssumption DEF Commits, None

(* The head that is merged next is one that is left.                       *)
LEMMA HeadIsLeft ==
  ASSUME NEW u, call[u].todo \subseteq Heads, call[u].todo # {}
  PROVE  Head(u) \in call[u].todo
  <1> DEFINE S == call[u].todo
  <1>1. S \subseteq Nat
    <2>1. Commits \subseteq Nat BY Bounds DEF Commits
    <2> QED BY <2>1, HeadsAreCommits
  <1>2. PICK x \in S : \A y \in S : ~ (<<y, x>> \in OpToRel(<, Nat))
    BY <1>1, NatLessThanWellFounded, WFMin, Zenon
  <1>3. \A y \in S : ~ (y < x) BY <1>1, <1>2 DEF OpToRel
  <1>4. \E z \in S : \A y \in S : z <= y BY <1>1, <1>3
  <1> QED BY <1>4, Zenon DEF Head

(* The next commit, and what making it changes.                            *)
LEMMA Grown ==
  ASSUME Graph, Fresh <= MaxCommits, NEW S \in SUBSET Made,
         history' = [history EXCEPT ![Fresh] = {Fresh} \cup S]
  PROVE  /\ Graph' /\ Fresh \in Commits /\ Fresh \notin Made
         /\ Made' = Made \cup {Fresh}
         /\ history'[Fresh] = {Fresh} \cup S
         /\ \A c \in Made : history'[c] = history[c]
  <1> DEFINE n == Fresh
  <1>1. /\ n \in Nat /\ Made = 0 .. n - 1 /\ n <= MaxCommits
        /\ history \in [Commits -> SUBSET Commits] /\ Made \subseteq Commits
    BY DEF Graph, Made
  <1> HIDE DEF n
  <1>2. n \in Commits /\ n \notin Made BY <1>1, Bounds DEF Commits
  <1>3. history' = [history EXCEPT ![n] = {n} \cup S] BY DEF n
  <1>4. /\ history' \in [Commits -> SUBSET Commits]
        /\ history'[n] = {n} \cup S
        /\ \A c \in Commits : c # n => history'[c] = history[c]
    <2>1. {n} \cup S \in SUBSET Commits BY <1>1, <1>2
    <2> DEFINE T == {n} \cup S
    <2>2. T \in SUBSET Commits /\ history' = [history EXCEPT ![n] = T]
      BY <1>3, <2>1
    <2> HIDE DEF T
    <2>3. history' \in [Commits -> SUBSET Commits] /\ history'[n] = T
          /\ \A c \in Commits : c # n => history'[c] = history[c]
      BY <1>1, <1>2, <2>2
    <2> QED BY <2>3 DEF T
  <1>5. Made' = Made \cup {n}
    BY <1>1, <1>2, <1>4 DEF Made
  <1>6. Made' = 0 .. n BY <1>1, <1>5
  <1>7. Fresh' = n + 1
    <2>1. Cardinality(0 .. n) = n + 1 BY <1>1, FS_Interval
    <2> QED BY <1>6, <2>1 DEF Fresh
  <1>8. \A c \in Made : history'[c] = history[c] BY <1>1, <1>2, <1>4
  <1>9. \A c \in Made' : c \in history'[c] /\ history'[c] \subseteq Made'
    BY <1>4, <1>5, <1>8 DEF Graph
  <1>10. Heads \subseteq Made' BY <1>5 DEF Graph
  <1>11. \A p \in Heads : history'[p] \cap Heads = {p}
    BY <1>8 DEF Graph
  <1>12. Graph' BY <1>1, <1>4, <1>6, <1>7, <1>9, <1>10, <1>11 DEF Graph
  <1> QED BY <1>2, <1>4, <1>5, <1>8, <1>12 DEF n

LEMMA GraphInit == Init => Graph
  <1> SUFFICES ASSUME Init PROVE Graph
    OBVIOUS
  <1> DEFINE m == Cardinality(Heads)
  <1>1. Heads = 1 .. m /\ m \in Nat /\ m <= MaxCommits /\ MaxCommits \in Nat
    BY Bounds, GitCacheAssumption
  <1> HIDE DEF m
  <1>2. history = [c \in Commits |-> IF c \in Heads THEN {0, c}
                                     ELSE IF c = 0 THEN {0} ELSE {}]
    BY DEF Init
  <1>3. history \in [Commits -> SUBSET Commits]
    BY <1>1, <1>2 DEF Commits
  <1>4. Made = 0 .. m
    <2>1. \A c \in Commits : history[c] # {} <=> c \in Heads \/ c = 0
      BY <1>2
    <2>2. \A c \in 0 .. m : c \in Commits /\ (c \in Heads \/ c = 0)
      BY <1>1 DEF Commits
    <2>3. \A c \in Commits : c \in Heads \/ c = 0 => c \in 0 .. m
      BY <1>1
    <2> QED BY <2>1, <2>2, <2>3 DEF Made
  <1>5. Fresh = m + 1
    <2>1. Cardinality(0 .. m) = m + 1 BY <1>1, FS_Interval
    <2> QED BY <1>4, <2>1 DEF Fresh
  <1>6. \A c \in Made : c \in history[c] /\ history[c] \subseteq Made
    BY <1>1, <1>2, <1>4 DEF Commits
  <1>7. \A p \in Heads : history[p] \cap Heads = {p}
    BY <1>1, <1>2 DEF Commits
  <1> QED BY <1>1, <1>3, <1>4, <1>5, <1>6, <1>7 DEF Graph

(* The tip of a call, and the histories of what it names.                  *)
LEMMA NamedAreMade ==
  ASSUME CacheInv, NEW u \in Users
  PROVE  /\ call[u].cur # None => call[u].cur \in Made
         /\ call[u].base # None => call[u].base \in Made
         /\ call[u].at \in Working => Tip(u) \in Made
  BY DEF CacheInv, MadeOnly, Sound, Program, Tip

(* Commits stay what they are.                                             *)
LEMMA HistoryStep ==
  ASSUME CacheInv, [Next]_vars
  PROVE  /\ Graph' /\ Made \subseteq Made'
         /\ \A c \in Made : history'[c] = history[c]
  <1>1. CASE UNCHANGED history
    BY <1>1 DEF CacheInv, Graph, Made, Fresh
  <1>2. ASSUME NEW u \in Users, MergeHead(u)
        PROVE  /\ Graph' /\ Made \subseteq Made'
               /\ \A c \in Made : history'[c] = history[c]
    <2> DEFINE S == history[Tip(u)] \cup history[Head(u)]
    <2>1. Tip(u) \in Made
      BY <1>2, NamedAreMade DEF MergeHead, Working
    <2>2. Head(u) \in Heads
      BY <1>2, HeadIsLeft DEF MergeHead, CacheInv, Types, Call
    <2>3. S \in SUBSET Made BY <2>1, <2>2 DEF CacheInv, Graph
    <2>4. Fresh <= MaxCommits /\ history' = [history EXCEPT ![Fresh] = {Fresh} \cup S]
      BY <1>2 DEF MergeHead
    <2> HIDE DEF S
    <2> QED BY <2>3, <2>4, Grown DEF CacheInv
  <1>3. CASE World
    <2>1. CASE UNCHANGED history BY <1>1, <2>1
    <2>2. CASE /\ Fresh <= MaxCommits
               /\ history' = [history EXCEPT ![Fresh] = {Fresh} \cup history[main]]
      <3>1. history[main] \in SUBSET Made
        BY DEF CacheInv, MadeOnly, Graph
      <3> QED BY <2>2, <3>1, Grown DEF CacheInv
    <2> QED BY <1>3, <2>1, <2>2 DEF World
  <1>4. ASSUME NEW u \in Users,
               CallStack(u) \/ CallLand(u) \/ Cancel(u) \/ (Work(u) /\ ~ MergeHead(u))
        PROVE  UNCHANGED history
    BY <1>4 DEF CallStack, CallLand, Cancel, Work, Lock, InitClone, AddRemote, Fetch,
                FetchFails, Healthy, Remove, SkipHead, Stacked, PushBranch, PushMain,
                Collect
  <1> QED
    BY <1>1, <1>2, <1>3, <1>4, Zenon DEF Next, vars, Crash, Corrupt, Work

(***************************************************************************)
(* Types.                                                                  *)
(***************************************************************************)

LEMMA FaultTypes ==
  ASSUME Types, Fault \/ UNCHANGED bounds
  PROVE  pushes' \in 0 .. MaxPushes /\ faults' \in 0 .. MaxFaults
  BY Bounds DEF Types, Fault, bounds

LEMMA CallTypes ==
  ASSUME Types, NEW u \in Users
  PROVE  /\ \A at \in {"idle", "lock", "open", "remote", "fetch", "healthy",
                       "remove", "merge", "push", "gc"} :
              Goto(u, at) => call' \in [Users -> Call]
         /\ Return(u) => call' \in [Users -> Call] /\ holder' \in Users \cup {None}
  <1> USE DEF Types
  <1>1. ASSUME NEW at \in {"idle", "lock", "open", "remote", "fetch", "healthy",
                           "remove", "merge", "push", "gc"},
               Goto(u, at)
        PROVE  call' \in [Users -> Call]
    BY <1>1 DEF Goto, Call
  <1>2. NoCall \in Call BY DEF NoCall, Call
  <1>3. ASSUME Return(u)
        PROVE  call' \in [Users -> Call] /\ holder' \in Users \cup {None}
    BY <1>2, <1>3 DEF Return
  <1> QED BY <1>1, <1>3

LEMMA CallMoves ==
  ASSUME CacheInv, NEW u \in Users,
         Fetch(u) \/ Remove(u) \/ MergeHead(u) \/ SkipHead(u)
  PROVE  call' \in [Users -> Call]
  <1>0. call \in [Users -> Call] /\ call[u] \in Call BY DEF CacheInv, Types
  <1>1. ASSUME NEW c \in Call PROVE [call EXCEPT ![u] = c] \in [Users -> Call]
    BY <1>0
  <1>2. CASE Fetch(u)
    <2>1. PICK at \in {"merge", "push"} :
            call' = [call EXCEPT ![u].base = main, ![u].at = at]
      BY <1>2 DEF Fetch, Fetched
    <2>2. main \in Commits BY DEF CacheInv, Types
    <2>3. [call[u] EXCEPT !.base = main, !.at = at] \in Call
      BY <1>0, <2>2 DEF Call
    <2>4. call' = [call EXCEPT ![u] = [call[u] EXCEPT !.base = main, !.at = at]]
      BY <2>1
    <2> QED BY <1>1, <2>3, <2>4, Zenon
  <1>3. CASE Remove(u)
    <2>1. call' = [call EXCEPT ![u].at = "open", ![u].again = TRUE]
      BY <1>3 DEF Remove
    <2>2. [call[u] EXCEPT !.at = "open", !.again = TRUE] \in Call
      BY <1>0 DEF Call
    <2>3. call' = [call EXCEPT ![u] = [call[u] EXCEPT !.at = "open", !.again = TRUE]]
      BY <2>1
    <2> QED BY <1>1, <2>2, <2>3, Zenon
  <1>4. CASE MergeHead(u)
    <2> DEFINE todo == call[u].todo \ {Head(u)}
               surv == call[u].surv \cup {Head(u)}
    <2>1. call' = [call EXCEPT ![u].todo = todo, ![u].cur = Fresh, ![u].surv = surv]
      BY <1>4 DEF MergeHead
    <2>2. Head(u) \in Heads BY <1>0, <1>4, HeadIsLeft DEF MergeHead, Call
    <2>3. todo \in SUBSET Heads /\ surv \in SUBSET Heads BY <1>0, <2>2 DEF Call
    <2>4. Fresh \in Commits
      BY <1>4, Bounds DEF MergeHead, Commits, CacheInv, Graph
    <2> HIDE DEF todo, surv
    <2>5. [call[u] EXCEPT !.todo = todo, !.cur = Fresh, !.surv = surv] \in Call
      BY <1>0, <2>3, <2>4 DEF Call
    <2>6. call' = [call EXCEPT ![u] = [call[u] EXCEPT !.todo = todo, !.cur = Fresh,
                                                      !.surv = surv]]
      BY <2>1
    <2> QED BY <1>1, <2>5, <2>6, Zenon
  <1>5. CASE SkipHead(u)
    <2> DEFINE todo == call[u].todo \ {Head(u)}
    <2>1. call' = [call EXCEPT ![u].todo = todo] BY <1>5 DEF SkipHead
    <2>2. todo \in SUBSET Heads BY <1>0 DEF Call
    <2> HIDE DEF todo
    <2>3. [call[u] EXCEPT !.todo = todo] \in Call BY <1>0, <2>2 DEF Call
    <2>4. call' = [call EXCEPT ![u] = [call[u] EXCEPT !.todo = todo]] BY <2>1
    <2> QED BY <1>1, <2>3, <2>4, Zenon
  <1> QED BY <1>2, <1>3, <1>4, <1>5

LEMMA SawTypes ==
  ASSUME Types, NEW m \in Commits
  PROVE  Saw(m) \in [Users -> Call]
  <1>1. NoCall \in Call BY DEF NoCall, Call
  <1>2. ASSUME NEW v \in Users
        PROVE  [call[v] EXCEPT !.seen = @ \cup {m}] \in Call
    <2>1. call[v] \in Call BY DEF Types
    <2>2. call[v].seen \cup {m} \in SUBSET Commits BY <2>1 DEF Call
    <2> QED BY <2>1, <2>2 DEF Call
  <1> QED BY <1>1, <1>2 DEF Saw

LEMMA TypesInit == Init => Types
  <1> SUFFICES ASSUME Init PROVE Types
    OBVIOUS
  <1>1. NoCall \in Call BY DEF NoCall, Call
  <1>2. NoClone \in Clone BY DEF NoClone, Clone
  <1>3. 0 \in Commits BY Bounds DEF Commits
  <1>4. pushes \in 0 .. MaxPushes /\ faults \in 0 .. MaxFaults
    BY Bounds DEF Init
  <1> QED BY <1>1, <1>2, <1>3, <1>4 DEF Init, Types

(* What a fetch of main adds to the clone.                                 *)
LEMMA FetchBrings ==
  ASSUME CacheInv, NEW u \in Users, call[u].at = "fetch", Fetched(u, main)
  PROVE  \E H \in SUBSET Made :
            /\ main \in H /\ (call[u].op = "land" => call[u].cur \in H)
            /\ clone' = [clone EXCEPT !.main = main, !.has = @ \cup H]
  <1> DEFINE H == history[main] \cup (IF call[u].op = "land"
                                      THEN history[call[u].cur] ELSE {})
  <1>1. main \in Made BY DEF CacheInv, MadeOnly
  <1>2. call[u].op = "land" => call[u].cur \in Made
    BY NamedAreMade DEF CacheInv, Sound, Program
  <1>3. H \in SUBSET Made /\ main \in H /\ (call[u].op = "land" => call[u].cur \in H)
    BY <1>1, <1>2 DEF CacheInv, Graph
  <1>4. clone' = [clone EXCEPT !.main = main, !.has = @ \cup H]
    BY DEF Fetched, CacheInv, Types, Clone
  <1> HIDE DEF H
  <1> QED BY <1>3, <1>4

(* What gc leaves of the clone, and what a killed fetch makes of it.       *)
LEMMA CloneShrinks ==
  ASSUME CacheInv, NEW u \in Users
  PROVE  /\ Collect(u) => /\ clone' \in Clone /\ clone'.has \subseteq Made
                          /\ clone'.main \in clone'.has \cup {None}
         /\ Locked(u) \in Clone /\ Locked(u).has = clone.has
         /\ Locked(u).main = clone.main
  <1>0. /\ clone \in Clone /\ clone.has \subseteq Made
        /\ clone.main \in clone.has \cup {None}
    BY DEF CacheInv, Types, MadeOnly
  <1>1. ASSUME Collect(u)
        PROVE  /\ clone' \in Clone /\ clone'.has \subseteq Made
               /\ clone'.main \in clone'.has \cup {None}
    <2>1. CASE clone' = clone BY <1>0, <2>1
    <2>2. ASSUME NEW m \in {clone.main} \ {None},
                 clone' = [clone EXCEPT !.has = history[m]]
          PROVE  /\ clone' \in Clone /\ clone'.has \subseteq Made
                 /\ clone'.main \in clone'.has \cup {None}
      <3>1. m \in Made /\ m = clone.main BY <1>0
      <3>2. m \in history[m] /\ history[m] \subseteq Made
        BY <3>1 DEF CacheInv, Graph
      <3>3. history[m] \in SUBSET Commits BY <3>2 DEF Made
      <3> QED BY <1>0, <2>2, <3>1, <3>2, <3>3 DEF Clone
    <2> QED BY <1>1, <2>1, <2>2 DEF Collect
  <1>2. /\ Locked(u) \in Clone /\ Locked(u).has = clone.has
        /\ Locked(u).main = clone.main
    <2>1. clone.bad \cup {"rest"} \in SUBSET Parts BY <1>0 DEF Clone, Parts
    <2> QED BY <1>0, <2>1 DEF Locked, Clone
  <1> QED BY <1>1, <1>2

LEMMA TypesStep ==
  ASSUME CacheInv, [Next]_vars
  PROVE  Types'
  <1> USE DEF Types
  <1>0. Types /\ Made \subseteq Commits /\ main \in Made
    BY DEF CacheInv, MadeOnly, Made
  <1>1. CASE UNCHANGED vars BY <1>0, <1>1 DEF vars, server, bounds
  <1>2. ASSUME NEW u \in Users
        PROVE  /\ CallStack(u) \/ CallLand(u) => Types'
               /\ Cancel(u) => Types'
               /\ Work(u) => Types'
    <2> USE <1>0, CallTypes
    <2>1. CASE CallStack(u)
      <3>1. ASSUME NEW heads \in SUBSET Heads
            PROVE  [NoCall EXCEPT !.at = "lock", !.todo = heads, !.seen = {main}]
                     \in Call
        BY DEF NoCall, Call
      <3>3. PICK heads \in SUBSET Heads :
              call' = [call EXCEPT ![u] = [NoCall EXCEPT !.at = "lock",
                                             !.todo = heads, !.seen = {main}]]
        BY <2>1 DEF CallStack
      <3>2. call' \in [Users -> Call] BY <3>1, <3>3
      <3> QED BY <2>1, <3>2, FaultTypes DEF CallStack
    <2>2. CASE CallLand(u)
      <3>1. [NoCall EXCEPT !.at = "lock", !.op = "land", !.cur = built[u],
                           !.seen = {main}] \in Call
        BY DEF NoCall, Call
      <3>2. call' \in [Users -> Call] BY <2>2, <3>1 DEF CallLand
      <3> QED BY <2>2, <3>2 DEF CallLand, server, bounds
    <2>3. CASE Cancel(u)
      <3>1. clone' \in Clone BY <2>3 DEF Cancel, NoClone, Clone
      <3> QED BY <2>3, <3>1, FaultTypes DEF Cancel, server
    <2>4. CASE Lock(u) BY <2>4 DEF Lock, server, bounds
    <2>5. CASE InitClone(u)
      <3>1. clone' \in Clone BY <2>5 DEF InitClone, NoClone, Clone
      <3> QED BY <2>5, <3>1 DEF InitClone, server, bounds
    <2>6. CASE AddRemote(u)
      <3>1. clone' \in Clone BY <2>6 DEF AddRemote, Clone
      <3> QED BY <2>6, <3>1 DEF AddRemote, server, bounds
    <2>7. CASE Fetch(u)
      <3>1. PICK H \in SUBSET Made :
              clone' = [clone EXCEPT !.main = main, !.has = @ \cup H]
        BY <2>7, FetchBrings DEF Fetch
      <3>2. clone' \in Clone BY <3>1 DEF Clone
      <3>4. call' \in [Users -> Call] BY ONLY CacheInv, u \in Users, <2>7, CallMoves
      <3> QED BY <2>7, <3>2, <3>4 DEF Fetch, server, bounds
    <2>8. CASE FetchFails(u)
      <3>1. Fault \/ UNCHANGED bounds BY <2>8 DEF FetchFails
      <3> QED BY <2>8, <3>1, FaultTypes DEF FetchFails, server
    <2>9. CASE Healthy(u) BY <2>9 DEF Healthy, server, bounds
    <2>10. CASE Remove(u)
      <3>1. clone' \in Clone BY <2>10 DEF Remove, NoClone, Clone
      <3>2. call' \in [Users -> Call] BY ONLY CacheInv, u \in Users, <2>10, CallMoves
      <3> QED BY <2>10, <3>1, <3>2 DEF Remove, server, bounds
    <2>11. CASE MergeHead(u)
      <3>1. Head(u) \in Heads BY <2>11, HeadIsLeft DEF MergeHead, Call
      <3>2. Fresh \in Commits BY <2>11, Bounds DEF MergeHead, Commits, CacheInv, Graph
      <3>3. history[Head(u)] \in SUBSET Commits BY <3>1 DEF CacheInv, Graph
      <3>4. clone' \in Clone BY <2>11, <3>2, <3>3 DEF MergeHead, Clone
      <3>5. call' \in [Users -> Call] BY ONLY CacheInv, u \in Users, <2>11, CallMoves
      <3> QED BY <2>11, <3>4, <3>5 DEF MergeHead, server, bounds
    <2>12. CASE SkipHead(u)
      <3>1. call' \in [Users -> Call] BY ONLY CacheInv, u \in Users, <2>12, CallMoves
      <3> QED BY <2>12, <3>1 DEF SkipHead, server, bounds
    <2>13. CASE Stacked(u) BY <2>13 DEF Stacked, server, bounds
    <2>14. CASE PushBranch(u)
      <3>1. call[u].cur \in Commits \cup {None} BY DEF Call
      <3>2. Fault \/ UNCHANGED bounds BY <2>14 DEF PushBranch
      <3>3. branch' \in [Users -> Commits \cup {None}]
        BY <2>14, <3>1 DEF PushBranch
      <3> QED BY <2>14, <3>2, <3>3, FaultTypes DEF PushBranch
    <2>15. CASE PushMain(u)
      <3>1. Fault \/ UNCHANGED bounds BY <2>15 DEF PushMain
      <3>2. call[u].cur \in Commits
        BY <2>15, NamedAreMade DEF PushMain, CacheInv, Sound, Program
      <3>3. main' \in Commits BY <2>15, <3>2 DEF PushMain
      <3>4. Saw(main') \in [Users -> Call] BY <3>3, SawTypes
      <3>5. NoCall \in Call BY DEF NoCall, Call
      <3>6. call' \in [Users -> Call] BY <2>15, <3>4, <3>5 DEF PushMain
      <3>7. built' \in [Users -> Commits \cup {None}] BY <2>15 DEF PushMain
      <3> QED BY <2>15, <3>1, <3>3, <3>6, <3>7, FaultTypes DEF PushMain
    <2>16. CASE Collect(u)
      <3>1. call[u].cur \in Commits \cup {None} BY DEF Call
      <3>2. clone' \in Clone BY <2>16, CloneShrinks
      <3>3. built' \in [Users -> Commits \cup {None}] BY <2>16, <3>1 DEF Collect
      <3> QED BY <2>16, <3>2, <3>3 DEF Collect, server, bounds
    <2> QED
      BY <2>1, <2>2, <2>3, <2>4, <2>5, <2>6, <2>7, <2>8, <2>9, <2>10, <2>11, <2>12,
         <2>13, <2>14, <2>15, <2>16, Zenon DEF Work
  <1>3. CASE Crash
    <2>1. NoCall \in Call /\ NoClone \in Clone BY DEF NoCall, Call, NoClone, Clone
    <2>2. clone' \in Clone BY <1>0, <1>3, <2>1, CloneShrinks DEF Crash
    <2> QED BY <1>0, <1>3, <2>1, <2>2, FaultTypes DEF Crash, server
  <1>4. CASE Corrupt
    <2>1. clone' \in Clone BY <1>0, <1>4 DEF Corrupt, Clone
    <2> QED BY <1>0, <1>4, <2>1, FaultTypes DEF Corrupt, server
  <1>5. CASE World
    <2>1. pushes' \in 0 .. MaxPushes /\ faults' \in 0 .. MaxFaults
      BY <1>0, <1>5, Bounds DEF World
    <2>2. Fresh <= MaxCommits => Fresh \in Commits
      BY Bounds DEF Commits, CacheInv, Graph
    <2>3. CASE main' = Fresh /\ call' = Saw(Fresh) /\ Fresh <= MaxCommits
               /\ UNCHANGED vanished
      BY <1>0, <1>5, <2>1, <2>2, <2>3, SawTypes DEF World
    <2>4. CASE UNCHANGED <<main, history, call>>
               /\ \E p \in Heads \ vanished : vanished' = vanished \cup {p}
      BY <1>0, <1>5, <2>1, <2>4 DEF World
    <2> QED BY <1>5, <2>3, <2>4 DEF World
  <1> QED BY <1>1, <1>2, <1>3, <1>4, <1>5, Zenon DEF Next

(***************************************************************************)
(* One user's step, and what it leaves to the others.                      *)
(***************************************************************************)

Acts(u) == CallStack(u) \/ CallLand(u) \/ Work(u) \/ Cancel(u)

(* What a call is about; only what main was is added to meanwhile.         *)
SameCall(v) ==
    /\ call'[v].at = call[v].at /\ call'[v].op = call[v].op
    /\ call'[v].base = call[v].base /\ call'[v].cur = call[v].cur
    /\ call'[v].surv = call[v].surv
    /\ call[v].seen \subseteq call'[v].seen
    /\ call[v].at = "idle" => call'[v] = NoCall

(* Whoever is past the lock has it.                                        *)
LEMMA Alone ==
  ASSUME CacheInv, NEW u \in Users, NEW v \in Users, v # u,
         call[u].at \notin {"idle", "lock"}
  PROVE  call[v].at \in {"idle", "lock"} /\ holder = u
  BY DEF CacheInv, Held

LEMMA SawSame ==
  ASSUME CacheInv, NEW m, NEW v \in Users,
         call'[v] = Saw(m)[v]
  PROVE  SameCall(v) /\ (call[v].at # "idle" => m \in call'[v].seen)
  <1>1. call[v] \in Call /\ (call[v].at = "idle" => call[v] = NoCall)
    BY DEF CacheInv, Types, Held
  <1>2. CASE call[v].at = "idle"
    BY <1>1, <1>2 DEF Saw, SameCall, NoCall
  <1>3. CASE call[v].at # "idle"
    <2>1. call'[v] = [call[v] EXCEPT !.seen = @ \cup {m}] BY <1>3 DEF Saw
    <2> QED BY <1>1, <1>3, <2>1 DEF SameCall, Call
  <1> QED BY <1>2, <1>3

(* The other calls, while u steps.                                         *)
LEMMA Elsewhere ==
  ASSUME CacheInv, NEW u \in Users, Acts(u), NEW v \in Users, v # u
  PROVE  /\ branch'[v] = branch[v] /\ built'[v] = built[v]
         /\ SameCall(v) /\ (call[v].at # "idle" => main' \in call'[v].seen)
         /\ call[v].at \in {"merge", "push"} => clone.has \subseteq clone'.has
  <1>0. /\ call \in [Users -> Call] /\ clone \in Clone
        /\ branch \in [Users -> Commits \cup {None}]
        /\ built \in [Users -> Commits \cup {None}]
        /\ (call[v].at = "idle" => call[v] = NoCall)
        /\ (call[v].at # "idle" => main \in call[v].seen)
    BY DEF CacheInv, Types, Held, Sound, Watched
  <1>1. branch'[v] = branch[v] /\ built'[v] = built[v]
    BY <1>0 DEF Acts, CallStack, CallLand, Cancel, Work, Lock, InitClone, AddRemote,
                Fetch, FetchFails, Healthy, Remove, MergeHead, SkipHead, Stacked,
                PushBranch, PushMain, Collect, server
  <1>2. ASSUME NEW c, call' = [call EXCEPT ![u] = c], main' = main
        PROVE  SameCall(v) /\ (call[v].at # "idle" => main' \in call'[v].seen)
    BY <1>0, <1>2 DEF SameCall
  <1>3. SameCall(v) /\ (call[v].at # "idle" => main' \in call'[v].seen)
    <2>1. CASE PushMain(u)
      <3>1. call'[v] = Saw(main')[v]
        BY <2>1 DEF PushMain, Saw
      <3> QED BY <3>1, SawSame
    <2>2. ASSUME Acts(u), ~ PushMain(u)
          PROVE  main' = main /\ \E c : call' = [call EXCEPT ![u] = c]
      <3>1. main' = main
        BY <2>2 DEF Acts, CallStack, CallLand, Cancel, Work, Lock, InitClone,
                    AddRemote, Fetch, FetchFails, Healthy, Remove, MergeHead,
                    SkipHead, Stacked, PushBranch, Collect, server
      <3>2. (\E at : Goto(u, at)) \/ Return(u) => \E c : call' = [call EXCEPT ![u] = c]
        BY DEF Goto, Return
      <3>3. Fetch(u) => \E c : call' = [call EXCEPT ![u] = c]
        BY <1>0 DEF Fetch, Fetched
      <3>4. Remove(u) \/ MergeHead(u) \/ SkipHead(u)
              => \E c : call' = [call EXCEPT ![u] = c]
        BY <1>0 DEF Remove, MergeHead, SkipHead
      <3>5. CallStack(u) \/ CallLand(u) => \E c : call' = [call EXCEPT ![u] = c]
        BY DEF CallStack, CallLand
      <3> QED
        BY <2>2, <3>1, <3>2, <3>3, <3>4, <3>5
        DEF Acts, Cancel, Work, Lock, InitClone, AddRemote, FetchFails, Healthy,
            Stacked, PushBranch, Collect
    <2> QED BY <1>2, <2>1, <2>2
  <1>4. ASSUME call[v].at \in {"merge", "push"}
        PROVE  clone.has \subseteq clone'.has
    <2>1. call[u].at \in {"idle", "lock"} BY <1>4, Alone
    <2>2. UNCHANGED clone
      BY <2>1 DEF Acts, CallStack, CallLand, Cancel, Work, Lock, InitClone, AddRemote,
                  Fetch, FetchFails, Healthy, Remove, MergeHead, SkipHead, Stacked,
                  PushBranch, PushMain, Collect
    <2> QED BY <2>2
  <1> QED BY <1>1, <1>3, <1>4

(* A call that does not step stays sound, as commits do not change, only   *)
(* its holder takes from the clone and main is watched.                    *)
LEMMA SoundFrame ==
  ASSUME CacheInv, NEW v \in Users, SameCall(v), branch'[v] = branch[v],
         \A c \in Made : history'[c] = history[c],
         call[v].at # "idle" => main' \in call'[v].seen,
         call[v].at \in {"merge", "push"} => clone.has \subseteq clone'.has
  PROVE  Sound(v)'
  <1> USE DEF SameCall
  <1>0. Program(v) /\ Stack(v) /\ Watched(v) /\ Pushed(v) /\ Stays(v)
    BY DEF CacheInv, Sound
  <1>1. Program(v)' BY <1>0 DEF Program
  <1>2. Tip(v)' = Tip(v) BY DEF Tip
  <1>3. Stack(v)'
    <2>1. call[v].at \in Working => call[v].base \in Made /\ Tip(v) \in Made
      BY <1>0, NamedAreMade DEF Program
    <2> QED BY <1>0, <1>2, <2>1 DEF Stack
  <1>4. Watched(v)' BY DEF Watched
  <1>5. Pushed(v)' BY <1>0 DEF Pushed
  <1>6. Stays(v)' BY <1>0, <1>2 DEF Stays
  <1> QED BY <1>1, <1>3, <1>4, <1>5, <1>6 DEF Sound

LEMMA IdleIsSound ==
  ASSUME NEW u \in Users, call'[u] = NoCall
  PROVE  Sound(u)'
  BY DEF NoCall, Sound, Program, Stack, Watched, Pushed, Stays, Opening, Working

(***************************************************************************)
(* The invariant, part by part.                                            *)
(***************************************************************************)

LEMMA ReturnEnds ==
  ASSUME CacheInv, NEW u \in Users, Return(u)
  PROVE  call'[u] = NoCall /\ holder' = None
  BY DEF CacheInv, Types, Return

LEMMA GotoMoves ==
  ASSUME CacheInv, NEW u \in Users, NEW at, Goto(u, at)
  PROVE  /\ call'[u].at = at /\ call'[u].op = call[u].op
         /\ call'[u].base = call[u].base /\ call'[u].cur = call[u].cur
         /\ call'[u].surv = call[u].surv /\ call'[u].seen = call[u].seen
         /\ call'[u] = [call[u] EXCEPT !.at = at]
  BY DEF CacheInv, Types, Call, Goto

LEMMA HeldStep ==
  ASSUME CacheInv, [Next]_vars
  PROVE  Held'
  <1>0. /\ call \in [Users -> Call] /\ holder \in Users \cup {None}
        /\ \A v \in Users : call[v].at \notin {"idle", "lock"} => holder = v
        /\ \A v \in Users : call[v].at = "idle" => call[v] = NoCall
    BY DEF CacheInv, Types, Held
  <1>1. CASE UNCHANGED <<call, holder>> BY <1>0, <1>1 DEF Held
  <1>2. ASSUME NEW u \in Users, Acts(u)
        PROVE  Held'
    <2>1. ASSUME NEW v \in Users, v # u
          PROVE  /\ call'[v].at \notin {"idle", "lock"} => holder' = v
                 /\ call'[v].at = "idle" => call'[v] = NoCall
      <3>1. SameCall(v) BY <1>2, <2>1, Elsewhere
      <3>2. ASSUME call[v].at \notin {"idle", "lock"}
            PROVE  holder' = v
        <4>1. call[u].at \in {"idle", "lock"} /\ holder = v
          BY <1>0, <2>1, <3>2
        <4>2. holder # None BY <4>1, Bounds
        <4> QED
          BY <1>2, <4>1, <4>2
          DEF Acts, CallStack, CallLand, Cancel, Work, Lock, InitClone, AddRemote,
              Fetch, FetchFails, Healthy, Remove, MergeHead, SkipHead, Stacked,
              PushBranch, PushMain, Collect
      <3> QED BY <3>1, <3>2 DEF SameCall
    <2>2. /\ call'[u].at \notin {"idle", "lock"} => holder' = u
          /\ call'[u].at = "idle" => call'[u] = NoCall
      <3>1. CASE Return(u)
        <4>1. call'[u] = NoCall BY <3>1, ReturnEnds
        <4> QED BY <4>1 DEF NoCall
      <3>2. CASE CallStack(u) \/ CallLand(u)
        <4>1. call'[u].at = "lock"
          BY <1>0, <3>2 DEF CallStack, CallLand, NoCall
        <4> QED BY <4>1
      <3>3. CASE Lock(u)
        <4>1. Goto(u, "open") /\ holder' = u BY <3>3 DEF Lock
        <4>2. call'[u].at = "open" BY <4>1, GotoMoves
        <4> QED BY <4>1, <4>2
      <3>4. CASE PushMain(u)
        <4>1. call'[u] = NoCall BY <3>4 DEF PushMain, Saw
        <4> QED BY <4>1 DEF NoCall
      <3>5. ASSUME holder' = holder,
                   \E at \in {"remote", "fetch", "healthy", "remove", "push", "gc"} :
                      Goto(u, at),
                   call[u].at \notin {"idle", "lock"}
            PROVE  /\ call'[u].at \notin {"idle", "lock"} => holder' = u
                   /\ call'[u].at = "idle" => call'[u] = NoCall
        <4>1. PICK at \in {"remote", "fetch", "healthy", "remove", "push", "gc"} :
                Goto(u, at)
          BY <3>5
        <4>2. call'[u].at = at BY <4>1, GotoMoves
        <4> QED BY <1>0, <3>5, <4>2
      <3>6. CASE InitClone(u) \/ AddRemote(u)
        BY <3>5, <3>6 DEF InitClone, AddRemote
      <3>7. CASE FetchFails(u) BY <3>1, <3>5, <3>7 DEF FetchFails
      <3>8. CASE Healthy(u) BY <3>1, <3>5, <3>8 DEF Healthy
      <3>9. CASE Stacked(u) BY <3>1, <3>5, <3>9 DEF Stacked
      <3>10. CASE PushBranch(u) BY <3>1, <3>5, <3>10 DEF PushBranch
      <3>11. CASE Fetch(u)
        <4>1. call[u].at = "fetch" /\ call'[u].at \in {"merge", "push"}
              /\ holder' = holder
          BY <1>0, <3>11 DEF Fetch, Fetched, Call
        <4> QED BY <1>0, <4>1
      <3>12. CASE Remove(u)
        <4>1. call[u].at = "remove" /\ call'[u].at = "open" /\ holder' = holder
          BY <1>0, <3>12 DEF Remove, Call
        <4> QED BY <1>0, <4>1
      <3>13. CASE MergeHead(u) \/ SkipHead(u)
        <4>1. call[u].at = "merge" /\ call'[u].at = "merge" /\ holder' = holder
          BY <1>0, <3>13 DEF MergeHead, SkipHead, Call
        <4> QED BY <1>0, <4>1
      <3>14. CASE Collect(u) \/ Cancel(u) BY <3>1, <3>14 DEF Collect, Cancel
      <3> QED
        BY <1>2, <3>2, <3>3, <3>4, <3>6, <3>7, <3>8, <3>9, <3>10, <3>11, <3>12,
           <3>13, <3>14 DEF Acts, Work
    <2> QED BY <2>1, <2>2 DEF Held
  <1>3. CASE Crash
    <2>1. \A v \in Users : call'[v] = NoCall BY <1>3 DEF Crash
    <2>2. NoCall.at = "idle" BY DEF NoCall
    <2> QED BY <2>1, <2>2 DEF Held
  <1>4. CASE World
    <2>1. CASE call' = Saw(Fresh) /\ UNCHANGED holder
      <3>1. \A v \in Users : SameCall(v)
        <4>1. ASSUME NEW v \in Users PROVE SameCall(v)
          BY <2>1, SawSame
        <4> QED BY <4>1
      <3> QED BY <1>0, <2>1, <3>1 DEF Held, SameCall
    <2> QED BY <1>1, <1>4, <2>1 DEF World
  <1>5. CASE Corrupt BY <1>1, <1>5 DEF Corrupt
  <1>6. CASE UNCHANGED vars BY <1>1, <1>6 DEF vars
  <1> QED BY <1>2, <1>3, <1>4, <1>5, <1>6, Zenon DEF Next, Acts

LEMMA MadeOnlyStep ==
  ASSUME CacheInv, [Next]_vars
  PROVE  MadeOnly'
  <1>0. /\ call \in [Users -> Call] /\ clone \in Clone /\ main \in Made
        /\ branch \in [Users -> Commits \cup {None}]
        /\ built \in [Users -> Commits \cup {None}]
        /\ clone.has \subseteq Made /\ clone.main \in clone.has \cup {None}
        /\ \A v \in Users : {branch[v], call[v].base, call[v].cur, built[v]}
                               \subseteq Made \cup {None}
    BY DEF CacheInv, Types, MadeOnly
  <1>1. Made \subseteq Made' BY HistoryStep
  <1>2. CASE UNCHANGED <<main, branch, clone, call, built>>
    BY <1>0, <1>1, <1>2 DEF MadeOnly
  <1>3. ASSUME NEW u \in Users, Acts(u)
        PROVE  MadeOnly'
    <2>1. ASSUME NEW v \in Users, v # u
          PROVE  {branch[v], call[v].base, call[v].cur, built[v]}'
                   \subseteq Made' \cup {None}
      BY <1>0, <1>1, <1>3, <2>1, Elsewhere DEF SameCall
    <2>2. MergeHead(u) => Fresh \in Made' /\ call'[u].cur = Fresh
                          /\ call'[u].base = call[u].base
      <3>1. SUFFICES ASSUME MergeHead(u)
                     PROVE  Fresh \in Made' /\ call'[u].cur = Fresh
                            /\ call'[u].base = call[u].base
        OBVIOUS
      <3>2. Fresh \in Commits
        BY <3>1, Bounds DEF MergeHead, Commits, CacheInv, Graph
      <3>3. Fresh \in history'[Fresh]
        BY <3>1, <3>2 DEF MergeHead, CacheInv, Graph
      <3> QED BY <1>0, <3>1, <3>2, <3>3 DEF MergeHead, Made, Call
    <2>3. {call'[u].base, call'[u].cur} \subseteq Made' \cup {None}
      <3>1. CASE Return(u) BY <3>1, ReturnEnds DEF NoCall
      <3>2. CASE \E at : Goto(u, at)
        <4>1. PICK at : Goto(u, at) BY <3>2
        <4>2. call'[u].base = call[u].base /\ call'[u].cur = call[u].cur
          BY <4>1, GotoMoves
        <4> QED BY <1>0, <1>1, <4>2
      <3>3. CASE CallStack(u) \/ CallLand(u)
        <4>1. CASE CallStack(u)
          BY <1>0, <4>1 DEF CallStack, NoCall
        <4>2. CASE CallLand(u)
          <5>1. call'[u].base = None /\ call'[u].cur = built[u]
            BY <1>0, <4>2 DEF CallLand, NoCall
          <5> QED BY <1>0, <1>1, <5>1
        <4> QED BY <3>3, <4>1, <4>2
      <3>4. CASE Fetch(u)
        <4>1. call'[u].base = main /\ call'[u].cur = call[u].cur
          BY <1>0, <3>4 DEF Fetch, Fetched, Call
        <4> QED BY <1>0, <1>1, <4>1
      <3>5. CASE MergeHead(u) BY <1>0, <1>1, <2>2, <3>5
      <3>6. CASE SkipHead(u) \/ Remove(u)
        <4>1. call'[u].base = call[u].base /\ call'[u].cur = call[u].cur
          BY <1>0, <3>6 DEF SkipHead, Remove, Call
        <4> QED BY <1>0, <1>1, <4>1
      <3>7. CASE PushMain(u)
        <4>1. call'[u] = NoCall BY <3>7 DEF PushMain, Saw
        <4> QED BY <4>1 DEF NoCall
      <3> QED
        BY <1>3, <3>1, <3>2, <3>3, <3>4, <3>5, <3>6, <3>7
        DEF Acts, Work, Cancel, Lock, InitClone, AddRemote, FetchFails, Healthy,
            Stacked, PushBranch, Collect
    <2>4. {branch'[u], built'[u]} \subseteq Made' \cup {None}
      <3>1. branch'[u] \in {branch[u], call[u].cur, None}
        BY <1>0, <1>3
        DEF Acts, CallStack, CallLand, Cancel, Work, Lock, InitClone, AddRemote,
            Fetch, FetchFails, Healthy, Remove, MergeHead, SkipHead, Stacked,
            PushBranch, PushMain, Collect, server
      <3>2. built'[u] \in {built[u], call[u].cur, None}
        BY <1>0, <1>3
        DEF Acts, CallStack, CallLand, Cancel, Work, Lock, InitClone, AddRemote,
            Fetch, FetchFails, Healthy, Remove, MergeHead, SkipHead, Stacked,
            PushBranch, PushMain, Collect
      <3> QED BY <1>0, <1>1, <3>1, <3>2
    <2>5. main' \in Made'
      <3>1. CASE PushMain(u)
        <4>1. call[u].cur \in Made
          BY <3>1, NamedAreMade DEF PushMain, CacheInv, Sound, Program
        <4> QED BY <1>0, <1>1, <3>1, <4>1 DEF PushMain
      <3>2. CASE ~ PushMain(u)
        <4>1. main' = main
          BY <1>3, <3>2
          DEF Acts, CallStack, CallLand, Cancel, Work, Lock, InitClone, AddRemote,
              Fetch, FetchFails, Healthy, Remove, MergeHead, SkipHead, Stacked,
              PushBranch, Collect, server
        <4> QED BY <1>0, <1>1, <4>1
      <3> QED BY <3>1, <3>2
    <2>6. clone'.has \subseteq Made' /\ clone'.main \in clone'.has \cup {None}
      <3>1. CASE clone' = NoClone \/ UNCHANGED clone
        BY <1>0, <1>1, <3>1 DEF NoClone
      <3>2. CASE InitClone(u)
        BY <1>0, <1>1, <3>2 DEF InitClone, NoClone
      <3>3. CASE AddRemote(u)
        BY <1>0, <1>1, <3>3 DEF AddRemote, Clone
      <3>4. CASE Fetch(u)
        <4>1. PICK H \in SUBSET Made :
                main \in H /\ clone' = [clone EXCEPT !.main = main, !.has = @ \cup H]
          BY <3>4, FetchBrings DEF Fetch
        <4> QED BY <1>0, <1>1, <4>1 DEF Clone
      <3>5. CASE MergeHead(u)
        <4>1. history[Head(u)] \subseteq Made
          BY <1>0, <3>5, HeadIsLeft DEF MergeHead, Call, CacheInv, Graph
        <4> QED BY <1>0, <1>1, <2>2, <3>5, <4>1 DEF MergeHead, Clone
      <3>6. CASE Collect(u) BY <1>1, <3>6, CloneShrinks
      <3> QED
        BY <1>3, <3>1, <3>2, <3>3, <3>4, <3>5, <3>6
        DEF Acts, CallStack, CallLand, Cancel, Work, Lock, FetchFails, Healthy,
            Remove, SkipHead, Stacked, PushBranch, PushMain
    <2> QED BY <2>1, <2>3, <2>4, <2>5, <2>6 DEF MadeOnly
  <1>4. CASE Crash
    <2>1. \A v \in Users : call'[v] = NoCall BY <1>4 DEF Crash
    <2>2. clone'.has \subseteq Made' /\ clone'.main \in clone'.has \cup {None}
      <3>1. CASE clone' \in {clone, NoClone} BY <1>0, <1>1, <3>1 DEF NoClone
      <3>2. ASSUME NEW u \in Users, clone' = Locked(u)
            PROVE  clone'.has = clone.has /\ clone'.main = clone.main
        BY <3>2, CloneShrinks
      <3> QED BY <1>0, <1>1, <1>4, <3>1, <3>2 DEF Crash
    <2> QED BY <1>0, <1>1, <1>4, <2>1, <2>2 DEF Crash, server, NoCall, MadeOnly
  <1>5. CASE World
    <2>1. CASE main' = Fresh /\ call' = Saw(Fresh) /\ Fresh <= MaxCommits
               /\ history' = [history EXCEPT ![Fresh] = {Fresh} \cup history[main]]
      <3>1. \A v \in Users : call'[v].base = call[v].base /\ call'[v].cur = call[v].cur
        <4>1. ASSUME NEW v \in Users PROVE SameCall(v)
          BY <2>1, SawSame
        <4> QED BY <4>1 DEF SameCall
      <3>2. Fresh \in Commits
        BY <2>1, Bounds DEF Commits, CacheInv, Graph
      <3>3. Fresh \in Made' BY <2>1, <3>2 DEF Made, CacheInv, Graph
      <3> QED BY <1>0, <1>1, <1>5, <2>1, <3>1, <3>3 DEF World, MadeOnly
    <2> QED BY <1>2, <1>5, <2>1 DEF World
  <1>6. CASE Corrupt
    BY <1>0, <1>1, <1>6 DEF Corrupt, server, Clone, MadeOnly
  <1>7. CASE UNCHANGED vars BY <1>2, <1>7 DEF vars, server
  <1> QED BY <1>3, <1>4, <1>5, <1>6, <1>7, Zenon DEF Next, Acts

(* The step of a call that moves on within its program.                    *)
LEMMA Moved ==
  ASSUME CacheInv, NEW u \in Users, NEW at, Goto(u, at), call[u].at # "idle",
         \A c \in Made : history'[c] = history[c],
         main' = main
  PROVE  /\ Tip(u)' = Tip(u) /\ Watched(u)'
         /\ call[u].at \in Working => Stack(u)'
  <1>0. /\ call'[u].at = at /\ call'[u].op = call[u].op
        /\ call'[u].base = call[u].base /\ call'[u].cur = call[u].cur
        /\ call'[u].surv = call[u].surv /\ call'[u].seen = call[u].seen
    BY GotoMoves
  <1>1. Tip(u)' = Tip(u) BY <1>0 DEF Tip
  <1>2. call[u].at # "idle" => main \in call[u].seen
    BY DEF CacheInv, Sound, Watched
  <1>3. ASSUME call[u].at \in Working PROVE Stack(u)'
    <2>1. Stack(u) /\ call[u].base \in Made /\ Tip(u) \in Made
      BY <1>3, NamedAreMade DEF CacheInv, Sound, Program
    <2> QED BY <1>0, <1>1, <1>3, <2>1 DEF Stack
  <1> QED BY <1>0, <1>1, <1>2, <1>3 DEF Watched

LEMMA StillOpening ==
  ASSUME CacheInv, NEW u \in Users, NEW at \in Opening, Goto(u, at),
         call[u].at \in Opening,
         \A c \in Made : history'[c] = history[c],
         main' = main
  PROVE  Sound(u)'
  <1>0. call'[u].at = at /\ call'[u].op = call[u].op /\ call'[u].cur = call[u].cur
        /\ call'[u].surv = call[u].surv
    BY GotoMoves
  <1>1. Program(u)' BY <1>0 DEF CacheInv, Sound, Program, Opening, Working
  <1>2. Watched(u)' BY Moved DEF Opening
  <1>3. Stack(u)' /\ Pushed(u)' /\ Stays(u)'
    BY <1>0 DEF Stack, Pushed, Stays, Opening, Working
  <1> QED BY <1>1, <1>2, <1>3 DEF Sound

(* Fetching main starts a stack on it, or a push to it.                    *)
LEMMA FetchSound ==
  ASSUME CacheInv, NEW u \in Users, Fetch(u),
         \A c \in Made : history'[c] = history[c]
  PROVE  Sound(u)'
  <1> DEFINE at == IF call[u].op = "stack" THEN "merge" ELSE "push"
  <1>1. call[u] \in Call /\ call \in [Users -> Call] /\ clone \in Clone
        /\ main \in Made /\ main \in call[u].seen /\ Program(u)
        /\ call[u].at = "fetch"
    BY DEF CacheInv, Types, MadeOnly, Sound, Watched, Fetch
  <1>2. main # None BY <1>1, HeadsAreCommits DEF Made
  <1>3. call' = [call EXCEPT ![u].base = main, ![u].at = at] /\ main' = main
    BY DEF Fetch, Fetched, server
  <1>4. /\ call'[u].at = at /\ call'[u].op = call[u].op /\ call'[u].base = main
        /\ call'[u].cur = call[u].cur /\ call'[u].surv = call[u].surv
        /\ call'[u].seen = call[u].seen
    BY <1>1, <1>3 DEF Call
  <1>5. /\ call[u].op \in {"stack", "land"}
        /\ call[u].op = "stack" => call[u].cur = None /\ call[u].surv = {}
        /\ call[u].op = "land" => call[u].cur # None
    BY <1>1 DEF Call, Program, Opening
  <1>6. PICK H \in SUBSET Made :
          /\ main \in H /\ (call[u].op = "land" => call[u].cur \in H)
          /\ clone' = [clone EXCEPT !.main = main, !.has = @ \cup H]
    BY <1>1, FetchBrings DEF Fetch
  <1>7. H \subseteq clone'.has BY <1>1, <1>6 DEF Clone
  <1>8. Tip(u)' = IF call[u].op = "stack" THEN main ELSE call[u].cur
    BY <1>4, <1>5 DEF Tip
  <1>9. Program(u)' BY <1>2, <1>4, <1>5 DEF Program, Opening, Working
  <1>10. Stack(u)' BY <1>1, <1>4, <1>5, <1>8 DEF Stack
  <1>11. Watched(u)' BY <1>1, <1>3, <1>4 DEF Watched
  <1>12. Pushed(u)' BY <1>4 DEF Pushed
  <1>13. Stays(u)' BY <1>4, <1>5, <1>6, <1>7, <1>8 DEF Stays
  <1> QED BY <1>9, <1>10, <1>11, <1>12, <1>13 DEF Sound

(* Merging a head makes a commit that reaches the stack and that head, and *)
(* no other head.                                                          *)
LEMMA MergeSound ==
  ASSUME CacheInv, NEW u \in Users, MergeHead(u)
  PROVE  Sound(u)'
  <1> DEFINE p == Head(u)
  <1>1. /\ call[u] \in Call /\ call \in [Users -> Call] /\ clone \in Clone
        /\ main \in call[u].seen /\ call[u].at = "merge"
        /\ Program(u) /\ Stack(u) /\ Stays(u)
    BY DEF CacheInv, Types, Sound, Watched, MergeHead
  <1>2. p \in Heads BY <1>1, HeadIsLeft DEF MergeHead, Call
  <1>3. Tip(u) \in Made /\ call[u].base \in Made /\ p \in Made /\ Heads \subseteq Made
    BY <1>1, <1>2, NamedAreMade DEF CacheInv, Graph, Program, Working
  <1> DEFINE S == history[Tip(u)] \cup history[p]
  <1>4. S \in SUBSET Made BY <1>3 DEF CacheInv, Graph
  <1>5. Fresh <= MaxCommits /\ history' = [history EXCEPT ![Fresh] = {Fresh} \cup S]
    BY DEF MergeHead
  <1>6. /\ Fresh \in Commits /\ Fresh \notin Made
        /\ history'[Fresh] = {Fresh} \cup S
        /\ \A c \in Made : history'[c] = history[c]
    <2> HIDE DEF S
    <2> QED BY <1>4, <1>5, Grown DEF CacheInv
  <1>7. Fresh # None BY <1>6, HeadsAreCommits
  <1>8. call' = [call EXCEPT ![u].todo = @ \ {p}, ![u].cur = Fresh,
                             ![u].surv = @ \cup {p}]
        /\ main' = main /\ branch' = branch
        /\ clone' = [clone EXCEPT !.has = @ \cup history[p] \cup {Fresh}]
    BY DEF MergeHead, server
  <1> HIDE DEF p
  <1>9. /\ call'[u].at = "merge" /\ call'[u].op = call[u].op
        /\ call'[u].base = call[u].base /\ call'[u].cur = Fresh
        /\ call'[u].surv = call[u].surv \cup {p} /\ call'[u].seen = call[u].seen
    BY <1>1, <1>8 DEF Call
  <1>10. Tip(u)' = Fresh BY <1>7, <1>9 DEF Tip
  <1>11. call[u].op = "stack" /\ call[u].base # None
    BY <1>1 DEF Program, Working
  <1>12. Program(u)' BY <1>7, <1>9, <1>11 DEF Program, Opening, Working
  <1>13. Stack(u)'
    <2>1. /\ call[u].base \in call[u].seen
          /\ history[Tip(u)] \cap Heads
                = call[u].surv \cup (history[call[u].base] \cap Heads)
      BY <1>1, <1>11 DEF Stack, Working
    <2>2. history[p] \cap Heads = {p} BY <1>2 DEF CacheInv, Graph
    <2>3. Fresh \notin Heads BY <1>3, <1>6
    <2>4. history'[Fresh] \cap Heads
            = (history[Tip(u)] \cap Heads) \cup (history[p] \cap Heads)
      BY <1>6, <2>3
    <2>5. history'[call[u].base] = history[call[u].base] BY <1>3, <1>6
    <2>6. history'[Fresh] \cap Heads
            = (call[u].surv \cup {p}) \cup (history'[call[u].base] \cap Heads)
      BY <2>1, <2>2, <2>4, <2>5, Zenon
    <2> QED BY <1>9, <1>10, <2>1, <2>6 DEF Stack
  <1>14. Watched(u)' BY <1>1, <1>8, <1>9 DEF Watched
  <1>15. Pushed(u)' BY <1>9 DEF Pushed
  <1>16. Stays(u)'
    <2>1. Fresh \in clone'.has /\ clone.has \subseteq clone'.has
      BY <1>1, <1>8 DEF Clone
    <2>2. call[u].base \in clone.has BY <1>1 DEF Stays
    <2> QED BY <1>9, <1>10, <2>1, <2>2 DEF Stays
  <1> QED BY <1>12, <1>13, <1>14, <1>15, <1>16 DEF Sound

LEMMA ActorSound ==
  ASSUME CacheInv, NEW u \in Users, Acts(u),
         \A c \in Made : history'[c] = history[c]
  PROVE  Sound(u)'
  <1>0. /\ call[u] \in Call /\ call \in [Users -> Call]
        /\ branch \in [Users -> Commits \cup {None}]
        /\ Program(u) /\ Watched(u) /\ Stays(u)
    BY DEF CacheInv, Types, Sound
  <1>1. CASE Return(u) BY <1>1, ReturnEnds, IdleIsSound
  <1>2. CASE CallStack(u)
    <2>1. /\ call'[u].at = "lock" /\ call'[u].op = "stack" /\ call'[u].cur = None
          /\ call'[u].surv = {} /\ call'[u].seen = {main} /\ main' = main
      BY <1>0, <1>2 DEF CallStack, NoCall
    <2> QED
      BY <2>1 DEF Sound, Program, Stack, Watched, Pushed, Stays, Opening, Working
  <1>3. CASE CallLand(u)
    <2>1. /\ call'[u].at = "lock" /\ call'[u].op = "land" /\ call'[u].cur # None
          /\ call'[u].seen = {main} /\ main' = main
      BY <1>0, <1>3 DEF CallLand, NoCall, server
    <2> QED
      BY <2>1 DEF Sound, Program, Stack, Watched, Pushed, Stays, Opening, Working
  <1>4. CASE Lock(u)
    <2>1. call[u].at = "lock" /\ Goto(u, "open") /\ main' = main
      BY <1>4 DEF Lock, server
    <2> QED BY <2>1, StillOpening DEF Opening
  <1>5. CASE InitClone(u) \/ AddRemote(u) \/ FetchFails(u) \/ Healthy(u)
    <2>1. call[u].at \in Opening /\ main' = main
      BY <1>5 DEF InitClone, AddRemote, FetchFails, Healthy, Opening, server
    <2>2. \/ Return(u)
          \/ \E at \in Opening : Goto(u, at)
      BY <1>5 DEF InitClone, AddRemote, FetchFails, Healthy, Opening
    <2>3. CASE \E at \in Opening : Goto(u, at)
      <3>1. PICK at \in Opening : Goto(u, at) BY <2>3
      <3> QED BY <2>1, <3>1, StillOpening
    <2> QED BY <1>1, <2>2, <2>3
  <1>6. CASE Fetch(u) BY <1>6, FetchSound
  <1>7. CASE Remove(u)
    <2>1. /\ call[u].at = "remove" /\ call'[u].at = "open"
          /\ call'[u].op = call[u].op /\ call'[u].cur = call[u].cur
          /\ call'[u].surv = call[u].surv /\ call'[u].seen = call[u].seen
          /\ main' = main
      BY <1>0, <1>7 DEF Remove, Call, server
    <2> QED
      BY <1>0, <2>1
      DEF Sound, Program, Stack, Watched, Pushed, Stays, Opening, Working
  <1>8. CASE MergeHead(u) BY <1>8, MergeSound
  <1>9. CASE SkipHead(u)
    <2>1. SameCall(u) /\ main' = main /\ branch' = branch /\ clone' = clone
      BY <1>0, <1>9 DEF SkipHead, Call, SameCall, server
    <2>2. call[u].at # "idle" => main' \in call'[u].seen
      BY <1>0, <2>1 DEF Watched, SameCall
    <2> QED BY <2>1, <2>2, SoundFrame
  <1>10. CASE Stacked(u)
    <2>1. CASE Goto(u, "push") /\ call[u].cur # None
      <3>1. call[u].at = "merge" /\ main' = main /\ branch' = branch /\ clone' = clone
        BY <1>10 DEF Stacked, server
      <3>2. call'[u].at = "push" /\ call'[u].op = call[u].op
            /\ call'[u].base = call[u].base /\ call'[u].cur = call[u].cur
        BY <2>1, GotoMoves
      <3>3. Tip(u)' = Tip(u) /\ Watched(u)' /\ Stack(u)'
        BY <2>1, <3>1, Moved DEF Working
      <3>4. Program(u)' BY <1>0, <2>1, <3>1, <3>2 DEF Program, Opening, Working
      <3>5. Pushed(u)' BY <3>2 DEF Pushed
      <3>6. Stays(u)' BY <1>0, <3>1, <3>2, <3>3 DEF Stays
      <3> QED BY <3>3, <3>4, <3>5, <3>6 DEF Sound
    <2> QED BY <1>1, <1>10, <2>1 DEF Stacked
  <1>11. CASE PushBranch(u)
    <2>1. CASE Goto(u, "gc") /\ branch' = [branch EXCEPT ![u] = call[u].cur]
      <3>1. call[u].at = "push" /\ call[u].op = "stack" /\ main' = main
            /\ clone' = clone
        BY <1>11 DEF PushBranch
      <3>2. call'[u].at = "gc" /\ call'[u].op = call[u].op
            /\ call'[u].base = call[u].base /\ call'[u].cur = call[u].cur
        BY <2>1, GotoMoves
      <3>3. Watched(u)' /\ Stack(u)'
        BY <2>1, <3>1, Moved DEF Working
      <3>4. Program(u)' BY <1>0, <3>1, <3>2 DEF Program, Opening, Working
      <3>5. Pushed(u)' BY <1>0, <2>1, <3>2 DEF Pushed
      <3>6. Stays(u)' BY <3>2 DEF Stays
      <3> QED BY <3>3, <3>4, <3>5, <3>6 DEF Sound
    <2> QED BY <1>1, <1>11, <2>1 DEF PushBranch
  <1>12. CASE PushMain(u)
    <2>1. call'[u] = NoCall BY <1>12 DEF PushMain, Saw
    <2> QED BY <2>1, IdleIsSound
  <1>13. CASE Collect(u) \/ Cancel(u) BY <1>1, <1>13 DEF Collect, Cancel
  <1> QED
    BY <1>2, <1>3, <1>4, <1>5, <1>6, <1>7, <1>8, <1>9, <1>10, <1>11, <1>12, <1>13
    DEF Acts, Work

LEMMA SoundStep ==
  ASSUME CacheInv, [Next]_vars, NEW v \in Users
  PROVE  Sound(v)'
  <1>0. /\ \A c \in Made : history'[c] = history[c]
        /\ Watched(v) /\ Stays(v) /\ call \in [Users -> Call]
        /\ clone \in Clone /\ (call[v].at = "idle" => call[v] = NoCall)
    BY HistoryStep DEF CacheInv, Sound, Types, Held
  <1>1. ASSUME NEW u \in Users, Acts(u) PROVE Sound(v)'
    <2>1. CASE u = v BY <1>0, <1>1, <2>1, ActorSound
    <2>2. CASE u # v
      <3>1. /\ branch'[v] = branch[v] /\ SameCall(v)
            /\ call[v].at # "idle" => main' \in call'[v].seen
            /\ call[v].at \in {"merge", "push"} => clone.has \subseteq clone'.has
        BY <1>1, <2>2, Elsewhere
      <3> QED BY <1>0, <3>1, SoundFrame
    <2> QED BY <2>1, <2>2
  <1>2. CASE Crash
    <2>1. call'[v] = NoCall BY <1>2 DEF Crash
    <2> QED BY <2>1, IdleIsSound
  <1>3. CASE call' = call /\ main' = main /\ branch' = branch
             /\ clone'.has = clone.has
    <2>1. SameCall(v) BY <1>0, <1>3 DEF SameCall
    <2>2. call[v].at # "idle" => main' \in call'[v].seen
      BY <1>0, <1>3 DEF Watched
    <2> QED BY <1>0, <1>3, <2>1, <2>2, SoundFrame
  <1>4. CASE World
    <2>1. branch' = branch /\ clone' = clone BY <1>4 DEF World
    <2>2. CASE main' = Fresh /\ call' = Saw(Fresh)
      <3>1. SameCall(v) /\ (call[v].at # "idle" => main' \in call'[v].seen)
        BY <2>2, SawSame
      <3> QED BY <1>0, <2>1, <3>1, SoundFrame
    <2>3. CASE UNCHANGED <<main, call>> BY <1>3, <2>1, <2>3
    <2> QED BY <1>4, <2>2, <2>3 DEF World
  <1>5. CASE Corrupt
    <2>1. call' = call /\ main' = main /\ branch' = branch /\ clone'.has = clone.has
      BY <1>0, <1>5 DEF Corrupt, Clone, server
    <2> QED BY <1>3, <2>1
  <1>6. CASE UNCHANGED vars BY <1>3, <1>6 DEF vars, server
  <1> QED BY <1>1, <1>2, <1>4, <1>5, <1>6, Zenon DEF Next, Acts

LEMMA CacheInit == Init => CacheInv
  <1> SUFFICES ASSUME Init PROVE CacheInv
    OBVIOUS
  <1>1. Graph BY GraphInit
  <1>2. Types BY TypesInit
  <1>3. 0 \in Made BY Bounds DEF Init, Made, Commits
  <1>4. MadeOnly BY <1>3 DEF Init, MadeOnly, NoClone, NoCall
  <1>5. Held BY DEF Init, Held, NoCall
  <1>6. \A u \in Users : Sound(u)
    BY DEF Init, NoCall, Sound, Program, Stack, Watched, Pushed, Stays, Opening,
           Working
  <1> QED BY <1>1, <1>2, <1>4, <1>5, <1>6 DEF CacheInv

LEMMA CacheStep == CacheInv /\ [Next]_vars => CacheInv'
  <1> SUFFICES ASSUME CacheInv, [Next]_vars PROVE CacheInv'
    OBVIOUS
  <1>1. Graph' BY HistoryStep
  <1>2. \A u \in Users : Sound(u)' BY SoundStep
  <1> QED BY <1>1, <1>2, TypesStep, MadeOnlyStep, HeldStep DEF CacheInv

(* The clone, its users and the server agree as CacheInv says, whatever    *)
(* git commands fail, hang or die (gitcache.go, http.go:451-560).          *)
THEOREM CacheCorrect == Spec => []CacheInv
  BY CacheInit, CacheStep, PTL DEF Spec

(* Every variable has its type: no operation names a commit that was never *)
(* made, and only the lock's holder works on the clone.                    *)
THEOREM CacheTypesCorrect == Spec => []CacheTypeOK
  <1>1. CacheInv => CacheTypeOK
    BY DEF CacheInv, Graph, Types, MadeOnly, Held, CacheTypeOK, Clone, Call
  <1> QED BY <1>1, CacheCorrect, PTL

(* What StackMerges returns was built on a tip main had during the call,   *)
(* and holds the heads it reports as merged and no other (http.go:486-526).*)
THEOREM StackCorrect == Spec => []BuildsOnMain
  <1>1. CacheInv => BuildsOnMain
    <2> SUFFICES ASSUME CacheInv, NEW u \in Users, call[u].at = "gc"
                 PROVE  /\ branch[u] = call[u].cur
                        /\ call[u].base \in call[u].seen
                        /\ history[call[u].cur] \cap Heads
                             = call[u].surv \cup (history[call[u].base] \cap Heads)
      BY DEF BuildsOnMain
    <2>1. Program(u) /\ Stack(u) /\ Pushed(u) BY DEF CacheInv, Sound
    <2>2. Tip(u) = call[u].cur BY <2>1 DEF Program, Working, Tip
    <2> QED BY <2>1, <2>2 DEF Program, Stack, Pushed, Working
  <1> QED BY <1>1, CacheCorrect, PTL

(* An operation that finds the clone broken and replaces it takes no       *)
(* commit from another one's hands (gitcache.go:86-108).                   *)
THEOREM WorkStays == Spec => []ObjectsStay
  <1>1. CacheInv => ObjectsStay
    BY DEF CacheInv, Sound, Stays, ObjectsStay
  <1> QED BY <1>1, CacheCorrect, PTL

(* A clone about to be removed has been found broken, and nobody mends it. *)
Condemned ==
    \A u \in Users : call[u].at = "remove" => clone.at = "none" \/ "first" \in clone.bad

LEMMA CondemnedStep ==
  ASSUME CacheInv, Condemned, [Next]_vars
  PROVE  Condemned'
  <1>0. clone \in Clone /\ call \in [Users -> Call] BY DEF CacheInv, Types
  <1>1. CASE UNCHANGED <<call, clone>> BY <1>1 DEF Condemned
  <1>2. ASSUME NEW u \in Users, Acts(u), NEW v \in Users, call'[v].at = "remove"
        PROVE  clone'.at = "none" \/ "first" \in clone'.bad
    <2>1. CASE u # v
      <3>1. call[v].at = "remove" BY <1>2, <2>1, Elsewhere DEF SameCall
      <3>2. call[u].at \in {"idle", "lock"} BY <2>1, <3>1, Alone
      <3>3. UNCHANGED clone
        BY <1>2, <3>2
        DEF Acts, CallStack, CallLand, Cancel, Work, Lock, InitClone, AddRemote,
            Fetch, FetchFails, Healthy, Remove, MergeHead, SkipHead, Stacked,
            PushBranch, PushMain, Collect
      <3> QED BY <3>1, <3>3 DEF Condemned
    <2>2. CASE u = v /\ Healthy(u)
      <3>1. ~ Return(u)
        <4>1. Return(u) => call'[u].at = "idle" BY ReturnEnds DEF NoCall
        <4> QED BY <1>2, <2>2, <4>1
      <3> QED BY <2>2, <3>1 DEF Healthy
    <2>3. CASE u = v /\ ~ Healthy(u)
      <3>1. ~ Return(u)
        <4>1. Return(u) => call'[u].at = "idle" BY ReturnEnds DEF NoCall
        <4> QED BY <1>2, <2>3, <4>1
      <3>2. ASSUME NEW at \in {"open", "remote", "fetch", "healthy", "push", "gc"}
            PROVE  ~ Goto(u, at)
        <4>1. Goto(u, at) => call'[u].at = at BY GotoMoves
        <4> QED BY <1>2, <2>3, <4>1
      <3>3. ~ CallStack(u) /\ ~ CallLand(u)
        <4>1. CallStack(u) \/ CallLand(u) => call'[u].at = "lock"
          BY <1>0 DEF CallStack, CallLand, NoCall
        <4> QED BY <1>2, <2>3, <4>1
      <3>4. ~ Fetch(u) /\ ~ Remove(u)
        <4>1. Fetch(u) \/ Remove(u) => call'[u].at \in {"merge", "push", "open"}
          BY <1>0 DEF Fetch, Fetched, Remove, Call
        <4> QED BY <1>2, <2>3, <4>1
      <3>5. ~ MergeHead(u) /\ ~ SkipHead(u)
        <4>1. MergeHead(u) \/ SkipHead(u) => call'[u].at = "merge"
          BY <1>0 DEF MergeHead, SkipHead, Call
        <4> QED BY <1>2, <2>3, <4>1
      <3>6. ~ PushMain(u)
        <4>1. PushMain(u) => call'[u].at = "idle" BY DEF PushMain, Saw, NoCall
        <4> QED BY <1>2, <2>3, <4>1
      <3> QED
        BY <1>2, <2>3, <3>1, <3>2, <3>3, <3>4, <3>5, <3>6
        DEF Acts, Cancel, Work, Lock, InitClone, AddRemote, FetchFails, Stacked,
            PushBranch, Collect
    <2> QED BY <2>1, <2>2, <2>3
  <1>3. CASE Crash
    <2>1. \A v \in Users : call'[v].at = "idle" BY <1>3 DEF Crash, NoCall
    <2> QED BY <2>1 DEF Condemned
  <1>4. CASE Corrupt
    <2>1. call' = call /\ clone.at = "ready" /\ clone.bad \subseteq clone'.bad
      BY <1>0, <1>4 DEF Corrupt, Clone
    <2> QED BY <2>1 DEF Condemned
  <1>5. CASE World
    <2>1. CASE call' = Saw(Fresh) /\ UNCHANGED clone
      <3>1. ASSUME NEW v \in Users PROVE call'[v].at = call[v].at
        BY <2>1, SawSame DEF SameCall
      <3> QED BY <2>1, <3>1 DEF Condemned
    <2> QED BY <1>1, <1>5, <2>1 DEF World
  <1>6. CASE UNCHANGED vars BY <1>1, <1>6 DEF vars
  <1>7. ASSUME NEW u \in Users, Acts(u) PROVE Condemned'
    BY <1>2, <1>7 DEF Condemned
  <1> QED BY <1>3, <1>4, <1>5, <1>6, <1>7, Zenon DEF Next, Acts

(* A clone whose first branch can be read stays, whatever fails around it: *)
(* only a fault of that very moment takes it (gitcache.go:111-119).        *)
THEOREM CloneKept == Spec => SoundIsKept
  <1>1. Init => Condemned BY DEF Init, NoCall, Condemned
  <1>2. CacheInv /\ Condemned /\ [Next]_vars
          => [clone.at # "none" /\ clone'.at = "none" /\ faults' = faults
                => "first" \in clone.bad]_vars
    <2> SUFFICES ASSUME CacheInv, Condemned, Next, clone.at # "none",
                        clone'.at = "none", faults' = faults
                 PROVE  "first" \in clone.bad
      BY Zenon DEF vars
    <2>0. faults \in Nat /\ clone \in Clone /\ call \in [Users -> Call]
      BY Bounds DEF CacheInv, Types
    <2>1. ~ Fault BY <2>0 DEF Fault
    <2>2. ~ Crash /\ ~ Corrupt /\ ~ World
      BY <2>1 DEF Crash, Corrupt, World
    <2>3. PICK u \in Users : Acts(u) BY <2>2 DEF Next, Acts
    <2>4. CASE Remove(u) BY <2>4 DEF Remove, Condemned
    <2>5. ~ InitClone(u) /\ ~ AddRemote(u)
      BY <2>0 DEF InitClone, AddRemote, NoClone, Clone
    <2>6. ~ Fetch(u) /\ ~ MergeHead(u) /\ ~ Collect(u)
      BY <2>0 DEF Fetch, Fetched, MergeHead, Collect, Clone
    <2> QED
      BY <2>1, <2>3, <2>4, <2>5, <2>6
      DEF Acts, CallStack, CallLand, Cancel, Work, Lock, FetchFails, Healthy,
          SkipHead, Stacked, PushBranch, PushMain
  <1>3. CacheInv /\ Condemned /\ [Next]_vars => Condemned'
    BY CondemnedStep
  <1>4. Spec => [](CacheInv /\ Condemned)
    BY CacheInit, CacheStep, <1>1, <1>3, PTL DEF Spec
  <1> QED BY <1>2, <1>4, PTL DEF Spec, SoundIsKept

=============================================================================
