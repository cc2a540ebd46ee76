--------------------------- MODULE LifecycleProofs ---------------------------
(***************************************************************************)
(* What holds of every managed repository, for any number of repositories, *)
(* sources, Adds and webhook requests: one poller per queue, no entry      *)
(* after a purge, no lost wake-up, and no removal on an outage.            *)
(***************************************************************************)
EXTENDS Lifecycle, TLAPS

(***************************************************************************)
(* The constants.                                                          *)
(***************************************************************************)

LEMMA Bounds ==
  /\ Explicit \subseteq Repos /\ Polled \subseteq Repos /\ NoRepo \notin Repos
  /\ MaxEpochs \in Nat /\ MaxEpochs > 0 /\ MaxBatches \in Nat /\ MaxBatches > 0
  /\ MaxRetries \in Nat /\ MaxEvents \in Nat
  <1>1. {MaxEpochs, MaxBatches} \subseteq Nat \ {0}
        /\ {MaxRetries, MaxEvents} \subseteq Nat
    BY LifecycleAssumption
  <1>2. MaxEpochs \in Nat \ {0} /\ MaxBatches \in Nat \ {0}
        /\ MaxRetries \in Nat /\ MaxEvents \in Nat
    BY <1>1, Zenon
  <1> QED BY <1>2, LifecycleAssumption

LEMMA RowIds == BatchIds \subseteq 0 .. MaxBatches
  BY Bounds DEF BatchIds

LEMMA SomeSource == Len(Sources) \in Nat /\ Len(Sources) > 0
  <1>1. Sources \in Seq(STRING) /\ Sources # <<>> BY LifecycleAssumption
  <1> QED BY <1>1

(***************************************************************************)
(* The inductive invariant.                                                *)
(***************************************************************************)

Poll == [at   : {"off", "idle", "list", "enqueue", "drop", "removed", "start",
                 "checks"},
         k    : 0 .. MaxBatches,
         snap : BOOLEAN]

Op == [at : {"idle", "form", "build", "save", "land", "eject", "rebuild", "finish"},
       k  : 0 .. MaxBatches,
       by : {"nobody", "poller", "call", "boot"}]

(* The type invariant, by the part of the state it speaks of, with the     *)
(* functions and the request spelled out.                                  *)
WorldTyped ==
    /\ listed \subseteq Repos /\ open \subseteq Repos
    /\ serving \in BOOLEAN /\ dtrig \in BOOLEAN
    /\ events \in 0 .. MaxEvents

RegistryTyped ==
    /\ disc \in Disc
    /\ managed \in [Repos -> 0 .. MaxEpochs]
    /\ gen \in [Repos -> 0 .. MaxEpochs]
    /\ cancelled \subseteq Instances
    /\ absent \subseteq Repos /\ purged \subseteq Repos
    /\ unheard \subseteq 1 .. Len(Sources)

StoreTyped ==
    /\ entry \in [Repos -> Absent .. MaxBatches]
    /\ rows \in [BatchIds -> Row]

ChanTyped == nudge \subseteq Instances /\ told \subseteq Instances

CallTyped ==
    /\ call \in [at : {"idle", "route", "check", "wait"},
                 i  : Instances \cup {<<NoRepo, 0>>},
                 k  : 0 .. MaxBatches]
    /\ call.at # "idle" => call.i \in Instances

Types ==
    /\ WorldTyped /\ RegistryTyped /\ StoreTyped /\ ChanTyped /\ CallTyped
    /\ poll \in [Instances -> Poll] /\ op \in [Instances -> Op]

Adding   == disc.at \in {"reconcile", "spawn", "register"}
Removing == disc.at \in {"cancel", "rows", "purge"}

(* The repository discovery works on is not in the registry, and its       *)
(* number is that of the latest Add.                                       *)
Underway ==
    /\ disc.repo \in Repos <=> Adding \/ Removing
    /\ Adding \/ Removing => managed[disc.repo] = 0 /\ gen[disc.repo] # 0
    /\ disc.at \in {"rows", "purge"} => New \in cancelled

(* What is about to be removed is managed, and a source that answered left *)
(* it out.                                                                 *)
Doomed ==
    /\ disc.src # 0 /\ (disc.at = "add" \/ Adding) =>
         absent = Of(Sources[disc.src]) \ disc.want
    /\ disc.at = "prune" \/ Removing =>
         \A r \in disc.todo : managed[r] # 0 /\ r \in absent \ Explicit

(* The registry holds the latest instance of a repository or none, and     *)
(* instances yet to come do not run.                                       *)
Numbered ==
    /\ \A r \in Repos : managed[r] \in {0, gen[r]}
    /\ \A i \in Instances : i[2] > gen[i[1]] => poll[i].at = "off"
    /\ disc.at \in {"reconcile", "spawn"} => poll[New].at = "off"

(* A purged repository is out of the registry until its next poller starts. *)
PurgedOut ==
    \A r \in purged :
        /\ managed[r] = 0
        /\ disc.repo = r => disc.at \in {"reconcile", "spawn"}

LifecycleInv ==
    /\ Types
    /\ Underway
    /\ Doomed
    /\ Numbered
    /\ PurgedOut
    /\ NoOrphanPoller
    /\ PurgedStaysEmpty
    /\ NothingUnheard

(***************************************************************************)
(* Types.                                                                  *)
(***************************************************************************)

LEMMA TypesInit == Init => Types
  <1>1. Init => WorldTyped
    <2>1. Init => events \in 0 .. MaxEvents BY Bounds DEF Init
    <2>2. Init => serving \in BOOLEAN /\ dtrig \in BOOLEAN BY Zenon DEF Init
    <2> QED BY <2>1, <2>2, Bounds DEF Init, WorldTyped
  <1>2. Init => RegistryTyped BY Bounds DEF Init, RegistryTyped, Disc, Cycle
  <1>3. Init => StoreTyped
    BY Bounds DEF Init, StoreTyped, Row, Absent, NoBatch, BatchIds, NoRepo
  <1>4. Init => ChanTyped BY DEF Init, ChanTyped
  <1>5. Init => CallTyped BY Bounds DEF Init, CallTyped, NoCall, NoBatch
  <1>6. Init => poll \in [Instances -> Poll] BY Bounds DEF Init, Poll, NoBatch
  <1>7. Init => op \in [Instances -> Op] BY Bounds DEF Init, Op, Idle, NoBatch
  <1> QED BY <1>1, <1>2, <1>3, <1>4, <1>5, <1>6, <1>7 DEF Types

(* A number of instance is in no pair that stands for nobody.              *)
LEMMA Instance ==
  ASSUME NEW i \in Instances
  PROVE  i[1] \in Repos /\ i[2] \in 1 .. MaxEpochs /\ i = <<i[1], i[2]>>
  BY DEF Instances

LEMMA NowTypes ==
  ASSUME op \in [Instances -> Op], NEW i \in Instances,
         NEW at \in {"idle", "form", "build", "save", "land", "eject", "rebuild",
                    "finish"},
         Now(i, at)
  PROVE  op' \in [Instances -> Op]
  BY DEF Op, Now

LEMMA TakeTypes ==
  ASSUME op \in [Instances -> Op], NEW i \in Instances, NEW k \in 0 .. MaxBatches,
         op' = [op EXCEPT ![i].at = "build", ![i].k = k]
  PROVE  op' \in [Instances -> Op]
  BY DEF Op

LEMMA UnlockTypes ==
  ASSUME op \in [Instances -> Op], NEW i \in Instances, Unlock(i)
  PROVE  op' \in [Instances -> Op]
  <1>1. Idle \in Op BY Bounds DEF Op, Idle, NoBatch
  <1> QED BY <1>1 DEF Unlock

LEMMA LockTypes ==
  ASSUME op \in [Instances -> Op], NEW i \in Instances,
         NEW at \in {"form", "build", "land", "eject", "rebuild"},
         NEW k \in 0 .. MaxBatches,
         NEW by \in {"poller", "call", "boot"}, Lock(i, at, k, by)
  PROVE  op' \in [Instances -> Op]
  BY DEF Op, Lock

LEMMA RowsMove ==
  ASSUME rows \in [BatchIds -> Row], NEW k, NEW n \in Nat,
         NEW s \in {"closed", "forming", "testing"}
  PROVE  /\ [rows EXCEPT ![k].state = s] \in [BatchIds -> Row]
         /\ [rows EXCEPT ![k].state = s, ![k].ff = n] \in [BatchIds -> Row]
  BY DEF Row

LEMMA Triggers ==
  ASSUME ChanTyped, NEW i \in Instances, Trigger(i)
  PROVE  ChanTyped'
  BY DEF ChanTyped, Trigger

LEMMA ArrivesTypes ==
  ASSUME WorldTyped, Arrives \/ UNCHANGED events
  PROVE  events' \in 0 .. MaxEvents
  BY Bounds DEF WorldTyped, Arrives

LEMMA TypesEngine ==
  ASSUME Types, NEW i \in Instances, Engine(i)
  PROVE  Types'
  <1> USE Instance DEF Types
  <1>1. RegistryTyped' /\ CallTyped' /\ poll' \in [Instances -> Poll]
    BY DEF Engine, RegistryTyped, CallTyped
  <1>2. WorldTyped'
    <2>1. Arrives \/ UNCHANGED events
      BY DEF Engine, Form, Build, SaveTesting, Settle, Rebuild, Finish, Abort
    <2>2. UNCHANGED <<listed, serving, dtrig>> /\ open' \subseteq open
      BY DEF Engine, Form, Build, SaveTesting, Settle, Rebuild, Finish, Abort, world
    <2> QED BY <2>1, <2>2, ArrivesTypes DEF WorldTyped
  <1>3. ChanTyped'
    <2>1. CASE Finish(i) BY <2>1, Triggers DEF Finish
    <2>2. CASE ~ Finish(i)
      BY <2>2 DEF Engine, ChanTyped, Form, Build, SaveTesting, Settle, Rebuild,
                  Abort, chan
    <2> QED BY <2>1, <2>2
  <1>4. op' \in [Instances -> Op]
    <2>1. CASE Form(i)
      <3>1. CASE Unlock(i) BY <3>1, UnlockTypes
      <3>2. CASE \E k \in BatchIds :
                   op' = [op EXCEPT ![i].at = "build", ![i].k = k]
        BY <3>2, RowIds, TakeTypes
      <3>3. ASSUME NEW k \in LiveRows(i[1]),
                   IF rows[k].state = "forming"
                   THEN op' = [op EXCEPT ![i].at = "build", ![i].k = k]
                   ELSE Unlock(i)
            PROVE  op' \in [Instances -> Op]
        BY <3>1, <3>2, <3>3, Zenon DEF LiveRows
      <3> QED BY <2>1, <3>1, <3>2, <3>3, Zenon DEF Form, Free
    <2>2. CASE Build(i) BY <2>2, NowTypes DEF Build
    <2>3. CASE SaveTesting(i) BY <2>3, UnlockTypes DEF SaveTesting
    <2>4. CASE Settle(i) BY <2>4, NowTypes DEF Settle
    <2>5. CASE Rebuild(i) BY <2>5, NowTypes DEF Rebuild
    <2>6. CASE Finish(i) BY <2>6, UnlockTypes DEF Finish
    <2>7. CASE Abort(i) BY <2>7, UnlockTypes DEF Abort
    <2> QED BY <2>1, <2>2, <2>3, <2>4, <2>5, <2>6, <2>7 DEF Engine
  <1>5. StoreTyped'
    <2> USE DEF StoreTyped
    <2>1. CASE Form(i)
      <3>1. CASE UNCHANGED store BY <3>1 DEF store
      <3>2. CASE \E k \in Free :
                   /\ rows' = [rows EXCEPT ![k] =
                                 [repo |-> i[1], state |-> "forming", ff |-> 0]]
                   /\ entry' = [entry EXCEPT ![i[1]] = k]
        BY <3>2 DEF Free, BatchIds, Row, Absent
      <3> QED BY <2>1, <3>1, <3>2 DEF Form
    <2>2. CASE Build(i) BY <2>2 DEF Build, store
    <2>3. CASE SaveTesting(i) BY <2>3, RowsMove DEF SaveTesting
    <2>4. CASE Settle(i)
      <3>1. Absent \in Absent .. MaxBatches BY Bounds DEF Absent
      <3>2. entry' = entry \/ entry' = [entry EXCEPT ![i[1]] = Absent]
        BY <2>4 DEF Settle
      <3>3. UNCHANGED rows BY <2>4 DEF Settle
      <3> QED BY <3>1, <3>2, <3>3
    <2>5. CASE Rebuild(i)
      <3>1. rows' = [rows EXCEPT ![op[i].k].state = "forming",
                         ![op[i].k].ff = IF @ < MaxRetries THEN @ + 1 ELSE @]
        BY <2>5 DEF Rebuild
      <3>2. CASE op[i].k \in BatchIds
        <4>1. rows[op[i].k].ff \in Nat BY <3>2 DEF Row
        <4> DEFINE n == IF rows[op[i].k].ff < MaxRetries
                        THEN rows[op[i].k].ff + 1 ELSE rows[op[i].k].ff
        <4>2. n \in Nat BY <4>1
        <4>4. UNCHANGED entry BY <2>5 DEF Rebuild
        <4>3. rows' = [rows EXCEPT ![op[i].k].state = "forming",
                                   ![op[i].k].ff = n]
          BY <3>1, <3>2
        <4> HIDE DEF n
        <4> QED BY <4>2, <4>3, <4>4, RowsMove
      <3>3. CASE op[i].k \notin BatchIds
        BY <2>5, <3>1, <3>3 DEF Rebuild
      <3> QED BY <3>2, <3>3
    <2>6. CASE Finish(i) BY <2>6, RowsMove DEF Finish
    <2>7. CASE Abort(i) BY <2>7 DEF Abort, store
    <2> QED BY <2>1, <2>2, <2>3, <2>4, <2>5, <2>6, <2>7 DEF Engine
  <1> QED BY <1>1, <1>2, <1>3, <1>4, <1>5

LEMMA GotoTypes ==
  ASSUME poll \in [Instances -> Poll], NEW i \in Instances,
         NEW at \in {"off", "idle", "list", "enqueue", "drop", "removed", "start",
                    "checks"},
         Goto(i, at)
  PROVE  poll' \in [Instances -> Poll]
  BY DEF Poll, Goto

LEMMA OutcomesAre ==
  ASSUME NEW k PROVE Outcomes(k) \subseteq {"land", "eject", "rebuild"}
  BY DEF Outcomes

LEMMA TypesPoller ==
  ASSUME Types, NEW i \in Instances, Poller(i)
  PROVE  Types'
  <1> USE Instance DEF Types
  <1>1. RegistryTyped' /\ CallTyped'
    BY DEF Poller, RegistryTyped, CallTyped
  <1>2. WorldTyped'
    <2>1. Arrives \/ UNCHANGED events
      BY DEF Poller, Stop, Triggered, Tick, ListOpenPRs, Paused, Enqueue,
             DropEntry, OnMemberRemoved, StartQueuedHeads, PollChecks, NoResult
    <2> QED BY <2>1, ArrivesTypes DEF Poller, WorldTyped, world
  <1>3. ChanTyped'
    BY DEF Poller, ChanTyped, chan, Stop, Triggered, Tick, ListOpenPRs, Paused,
           Enqueue, DropEntry, OnMemberRemoved, StartQueuedHeads, PollChecks,
           NoResult
  <1>4. StoreTyped'
    <2>1. rows' = rows
      BY DEF Poller, store, Stop, Triggered, Tick, ListOpenPRs, Paused,
             Enqueue, DropEntry, OnMemberRemoved, StartQueuedHeads, PollChecks,
             NoResult
    <2>2. \/ entry' = entry
          \/ entry' = [entry EXCEPT ![i[1]] = NoBatch]
          \/ entry' = [entry EXCEPT ![i[1]] = Absent]
      BY DEF Poller, store, Stop, Triggered, Tick, ListOpenPRs, Paused,
             Enqueue, DropEntry, OnMemberRemoved, StartQueuedHeads, PollChecks,
             NoResult
    <2>3. {NoBatch, Absent} \subseteq Absent .. MaxBatches
      BY Bounds DEF Absent, NoBatch
    <2> QED BY <2>1, <2>2, <2>3 DEF StoreTyped
  <1>5. op' \in [Instances -> Op]
    <2>1. CASE OnMemberRemoved(i)
      <3>1. CASE UNCHANGED op BY <3>1
      <3>2. CASE Lock(i, "rebuild", poll[i].k, "poller")
        <4>1. poll[i].k \in 0 .. MaxBatches BY DEF Poll
        <4> QED BY <3>2, <4>1, LockTypes
      <3> QED BY <2>1, <3>1, <3>2 DEF OnMemberRemoved
    <2>2. CASE StartQueuedHeads(i)
      <3>1. CASE UNCHANGED op BY <3>1
      <3>2. CASE Lock(i, "form", NoBatch, "poller")
        <4>1. NoBatch \in 0 .. MaxBatches BY Bounds DEF NoBatch
        <4> QED BY <3>2, <4>1, LockTypes
      <3> QED BY <2>2, <3>1, <3>2 DEF StartQueuedHeads
    <2>3. CASE PollChecks(i)
      <3>4. PICK k \in Testing(i[1]) :
              \E at \in Outcomes(k) : Lock(i, at, k, "poller")
        BY <2>3 DEF PollChecks
      <3>1. PICK at \in Outcomes(k) : Lock(i, at, k, "poller") BY <3>4
      <3>2. k \in 0 .. MaxBatches BY RowIds DEF Testing, LiveRows
      <3>3. at \in {"land", "eject", "rebuild"} BY OutcomesAre
      <3> QED BY <3>1, <3>2, <3>3, LockTypes
    <2>4. ASSUME UNCHANGED op PROVE op' \in [Instances -> Op] BY <2>4
    <2> QED
      BY <2>1, <2>2, <2>3, <2>4
      DEF Poller, Stop, Triggered, Tick, ListOpenPRs, Paused, Enqueue, DropEntry,
          NoResult
  <1>6. poll' \in [Instances -> Poll]
    <2>1. \A at \in {"off", "idle", "list", "start", "checks"} :
            Goto(i, at) => poll' \in [Instances -> Poll]
      BY GotoTypes
    <2>2. CASE ListOpenPRs(i)
      <3>1. [at |-> "enqueue", k |-> NoBatch, snap |-> i[1] \in open] \in Poll
        <4>1. NoBatch \in 0 .. MaxBatches BY Bounds DEF NoBatch
        <4>2. (i[1] \in open) \in BOOLEAN BY SMT
        <4> QED BY <4>1, <4>2 DEF Poll
      <3> QED BY <2>2, <3>1 DEF ListOpenPRs
    <2>3. CASE Enqueue(i)
      <3>1. PICK at \in {"start", "drop"} :
              poll' = [poll EXCEPT ![i].at = at, ![i].snap = FALSE]
        BY <2>3 DEF Enqueue
      <3> QED BY <3>1 DEF Poll
    <2>4. CASE DropEntry(i)
      <3>1. CASE Goto(i, "start") BY <3>1, <2>1
      <3>2. CASE entry[i[1]] # Absent /\ entry[i[1]] # NoBatch
                 /\ poll' = [poll EXCEPT ![i].at = "removed", ![i].k = entry[i[1]]]
        <4>1. entry[i[1]] \in Absent .. MaxBatches BY DEF StoreTyped
        <4>2. entry[i[1]] \in 0 .. MaxBatches
          BY <3>2, <4>1, Bounds DEF Absent
        <4> QED BY <3>2, <4>2 DEF Poll
      <3> QED BY <2>4, <3>1, <3>2 DEF DropEntry
    <2>5. CASE OnMemberRemoved(i)
      <3>1. NoBatch \in 0 .. MaxBatches BY Bounds DEF NoBatch
      <3> QED BY <2>5, <3>1 DEF OnMemberRemoved, Poll
    <2> QED
      BY <2>1, <2>2, <2>3, <2>4, <2>5
      DEF Poller, Stop, Triggered, Tick, Paused, StartQueuedHeads, PollChecks,
          NoResult
  <1> QED BY <1>1, <1>2, <1>3, <1>4, <1>5, <1>6

LEMMA TypesWebhook ==
  ASSUME Types, Webhook
  PROVE  Types'
  <1> USE DEF Types
  <1>1. RegistryTyped' /\ StoreTyped' /\ poll' \in [Instances -> Poll]
    BY DEF Webhook, RegistryTyped, StoreTyped, store
  <1>2. WorldTyped'
    <2>1. Arrives \/ UNCHANGED events
      BY DEF Webhook, StatusEvent, RouteCheck, HandleCheck, DropCheck, Handled
    <2> QED BY <2>1, ArrivesTypes DEF Webhook, WorldTyped, world
  <1>3. call.at # "idle" => call.i \in Instances BY DEF CallTyped
  <1>4. ASSUME Respond, call.at # "idle"
        PROVE  ChanTyped' /\ CallTyped'
    <2>1. ChanTyped' BY <1>3, <1>4, Triggers DEF Respond, ChanTyped, chan
    <2>2. CallTyped' BY <1>4, Bounds DEF Respond, CallTyped, NoCall, NoBatch
    <2> QED BY <2>1, <2>2
  <1>5. ASSUME NEW r \in Polled, StatusEvent(r)
        PROVE  ChanTyped' /\ CallTyped' /\ op' \in [Instances -> Op]
    <2>1. r \in Repos /\ managed[r] \in 0 .. MaxEpochs /\ managed[r] # 0
      BY <1>5, Bounds DEF StatusEvent, RegistryTyped
    <2>2. <<r, managed[r]>> \in Instances BY <2>1, Bounds DEF Instances
    <2>3. CallTyped' BY <1>5, <2>2, Bounds DEF StatusEvent, CallTyped, NoBatch
    <2> QED BY <1>5, <2>3 DEF StatusEvent, ChanTyped, chan
  <1>6. CASE RouteCheck
    <2>1. CASE Respond
      BY <1>1, <1>2, <1>4, <1>6, <2>1 DEF RouteCheck
    <2>2. CASE /\ entry[call.i[1]] \in BatchIds
               /\ call' = [call EXCEPT !.at = "check", !.k = entry[call.i[1]]]
               /\ UNCHANGED chan
      <3>1. entry[call.i[1]] \in 0 .. MaxBatches BY <2>2, RowIds
      <3>2. CallTyped' BY <1>3, <1>6, <2>2, <3>1 DEF CallTyped, RouteCheck
      <3>3. ChanTyped' BY <2>2 DEF ChanTyped, chan
      <3> QED BY <1>1, <1>2, <1>6, <3>2, <3>3 DEF RouteCheck
    <2> QED BY <1>1, <1>2, <1>6, <2>1, <2>2 DEF RouteCheck
  <1>7. CASE HandleCheck
    <2>1. PICK at \in Outcomes(call.k) : Lock(call.i, at, call.k, "call")
      BY <1>7 DEF HandleCheck
    <2>2. at \in {"land", "eject", "rebuild"} BY OutcomesAre
    <2>3. call.i \in Instances /\ call.k \in 0 .. MaxBatches
      BY <1>3, <1>7 DEF HandleCheck, CallTyped
    <2>4. op' \in [Instances -> Op] BY <2>1, <2>2, <2>3, LockTypes
    <2>6. call' = [call EXCEPT !.at = "wait", !.k = 0]
      BY <1>7 DEF HandleCheck, NoBatch
    <2>7. 0 \in 0 .. MaxBatches BY Bounds
    <2>5. CallTyped' BY <2>3, <2>6, <2>7 DEF CallTyped
    <2> QED BY <1>1, <1>2, <1>7, <2>4, <2>5 DEF HandleCheck, ChanTyped, chan
  <1>8. CASE DropCheck \/ Handled
    BY <1>1, <1>2, <1>4, <1>8 DEF DropCheck, Handled
  <1> QED BY <1>1, <1>2, <1>5, <1>6, <1>7, <1>8 DEF Webhook

LEMMA TypesEvent ==
  ASSUME Types, Event
  PROVE  Types'
  <1> USE DEF Types
  <1>1. StoreTyped' /\ CallTyped' /\ poll' \in [Instances -> Poll]
        /\ op' \in [Instances -> Op]
    BY DEF Event, StoreTyped, CallTyped, store
  <1>2. events' \in 0 .. MaxEvents BY ArrivesTypes DEF Event
  <1>3. dtrig' \in BOOLEAN
    BY Zenon DEF Event, InstallationEvent, PullRequestEvent, WorldTyped
  <1>4. WorldTyped' BY <1>2, <1>3, Zenon DEF Event, WorldTyped, world
  <1>5. ASSUME NEW r \in Polled, PullRequestEvent(r)
        PROVE  ChanTyped'
    <2>1. r \in Repos /\ managed[r] \in 0 .. MaxEpochs /\ managed[r] # 0
      BY <1>5, Bounds DEF PullRequestEvent, RegistryTyped
    <2>2. <<r, managed[r]>> \in Instances BY <2>1, Bounds DEF Instances
    <2> QED BY <1>5, <2>2, Triggers DEF PullRequestEvent
  <1>6. ChanTyped' BY <1>5 DEF Event, InstallationEvent, ChanTyped, chan
  <1>7. RegistryTyped'
    BY DEF Event, RegistryTyped, InstallationEvent, PullRequestEvent
  <1> QED BY <1>1, <1>4, <1>6, <1>7

LEMMA TypesChange ==
  ASSUME Types, Change
  PROVE  Types'
  <1> USE DEF Types
  <1>1. RegistryTyped' /\ StoreTyped' /\ CallTyped' /\ ChanTyped'
        /\ poll' \in [Instances -> Poll] /\ op' \in [Instances -> Op]
    BY DEF Change, StoreTyped, CallTyped, store, ChanTyped, chan, RegistryTyped
  <1>2. events' \in 0 .. MaxEvents BY ArrivesTypes DEF Change
  <1>3. listed' \subseteq Repos /\ open' \subseteq Repos
    BY Bounds DEF Change, WorldTyped
  <1> QED BY <1>1, <1>2, <1>3 DEF Change, WorldTyped

(* The instance discovery works on is one.                                 *)
LEMMA NewIsInstance ==
  ASSUME Types, Underway, Adding \/ Removing
  PROVE  disc.repo \in Repos /\ New \in Instances
  <1>1. disc.repo \in Repos /\ gen[disc.repo] # 0 BY DEF Underway
  <1>2. gen[disc.repo] \in 1 .. MaxEpochs
    BY <1>1, Bounds DEF Types, RegistryTyped
  <1> QED BY <1>1, <1>2 DEF New, Instances

(* What the steps of discovery leave alone.                                *)
LEMMA DiscoveryFrame ==
  ASSUME Discovery
  PROVE  /\ UNCHANGED <<listed, open, nudge, told, call>>
         /\ (\E r \in Repos : Add(r) \/ Unregister(r)) \/ ReconcileLive
              \/ SpawnPoller \/ Register \/ CancelPoller \/ CancelRows
              \/ PurgeEntries \/ Serve \/ StartCycle
              \/ (\E r \in Repos : Skip(r)) \/ AddedAll \/ ListSource
              \/ SourceFailed \/ Pruned \/ EndCycle
  BY DEF Discovery, DiscoverOnce, Managing, Cleanup, world, chan

LEMMA TypesDiscovery ==
  ASSUME Types, Underway, Discovery
  PROVE  Types'
  <1> USE DEF Types
  <1>1. ChanTyped' /\ CallTyped'
    BY DiscoveryFrame DEF ChanTyped, CallTyped
  <1>2. WorldTyped'
    <2>3. Arrives \/ UNCHANGED events
      BY DEF Discovery, DiscoverOnce, Managing, Cleanup, Skip, AddedAll,
             ListSource, SourceFailed, Pruned, EndCycle, CancelRows, PurgeEntries
    <2>1. events' \in 0 .. MaxEvents BY <2>3, ArrivesTypes
    <2>2. serving' \in BOOLEAN /\ dtrig' \in BOOLEAN
      BY Zenon DEF Discovery, Serve, StartCycle, WorldTyped
    <2> QED BY <2>1, <2>2, DiscoveryFrame DEF WorldTyped
  <1>3. op' \in [Instances -> Op]
    <2>1. CASE ReconcileLive
      <3>1. CASE UNCHANGED op BY <3>1
      <3>2. CASE \E k \in BatchIds : Lock(New, "build", k, "boot")
        <4>1. PICK k \in BatchIds : Lock(New, "build", k, "boot") BY <3>2
        <4>2. k \in 0 .. MaxBatches BY RowIds
        <4>3. New \in Instances
          BY <2>1, NewIsInstance DEF ReconcileLive, Adding
        <4> QED BY <4>1, <4>2, <4>3, LockTypes
      <3> QED BY <2>1, <3>1, <3>2 DEF ReconcileLive, LiveRows
    <2>2. CASE ~ ReconcileLive
      BY <2>2 DEF Discovery, DiscoverOnce, Managing, Cleanup, Add, Unregister,
                  SpawnPoller, Register, CancelPoller
    <2> QED BY <2>1, <2>2
  <1>4. poll' \in [Instances -> Poll]
    <2>1. CASE SpawnPoller BY <2>1 DEF SpawnPoller, Poll
    <2>2. CASE ~ SpawnPoller
      BY <2>2 DEF Discovery, DiscoverOnce, Managing, Cleanup, Add, Unregister,
                  ReconcileLive, Register, CancelPoller
    <2> QED BY <2>1, <2>2
  <1>5. StoreTyped'
    <2>1. CASE CancelRows
      <3>1. CASE UNCHANGED rows BY <2>1, <3>1 DEF CancelRows, StoreTyped
      <3>2. CASE CancelLiveBatches(disc.repo)
        BY <2>1, <3>2 DEF CancelRows, CancelLiveBatches, StoreTyped, Row
      <3> QED BY <2>1, <3>1, <3>2 DEF CancelRows
    <2>2. CASE PurgeEntries
      <3>1. Absent \in Absent .. MaxBatches BY Bounds DEF Absent
      <3> QED BY <2>2, <3>1 DEF PurgeEntries, DequeueAll, StoreTyped
    <2>3. CASE ~ CancelRows /\ ~ PurgeEntries
      BY <2>3 DEF Discovery, DiscoverOnce, Managing, Cleanup, store, StoreTyped
    <2> QED BY <2>1, <2>2, <2>3
  <1>6. /\ managed' \in [Repos -> 0 .. MaxEpochs]
        /\ gen' \in [Repos -> 0 .. MaxEpochs]
    <2>1. CASE \E r \in Repos : Add(r)
      <3>1. PICK r \in Repos : Add(r) BY <2>1
      <3>2. gen[r] + 1 \in 0 .. MaxEpochs
        BY <3>1, Bounds DEF Add, RegistryTyped
      <3> QED BY <3>1, <3>2 DEF Add, RegistryTyped
    <2>2. CASE \E r \in Repos : Unregister(r)
      BY <2>2, Bounds DEF Unregister, RegistryTyped
    <2>3. CASE Register BY <2>3 DEF Register, RegistryTyped
    <2>4. CASE ~ \/ \E r \in Repos : Add(r) \/ Unregister(r)
                 \/ Register
      BY <2>4 DEF Discovery, DiscoverOnce, Managing, Cleanup, ReconcileLive,
                  SpawnPoller, CancelPoller, RegistryTyped
    <2> QED BY <2>1, <2>2, <2>3, <2>4
  <1>7. cancelled' \subseteq Instances
    <2>1. CASE Register
      BY <2>1, NewIsInstance DEF Register, RegistryTyped, Adding
    <2>2. CASE CancelPoller
      BY <2>2, NewIsInstance DEF CancelPoller, RegistryTyped, Removing
    <2>3. CASE ~ Register /\ ~ CancelPoller
      BY <2>3 DEF Discovery, DiscoverOnce, Managing, Cleanup, ReconcileLive, Add,
                  Unregister, SpawnPoller, RegistryTyped
    <2> QED BY <2>1, <2>2, <2>3
  <1>8. absent' \subseteq Repos /\ purged' \subseteq Repos
    <2>1. absent' \subseteq Repos
      BY DEF Discovery, DiscoverOnce, Managing, Cleanup, Skip, AddedAll,
             ListSource, SourceFailed, Pruned, EndCycle, Of, RegistryTyped
    <2>2. CASE PurgeEntries
      BY <2>1, <2>2, NewIsInstance DEF PurgeEntries, Removing, RegistryTyped
    <2>3. CASE ~ PurgeEntries
      BY <2>1, <2>3
      DEF Discovery, DiscoverOnce, Managing, Cleanup, CancelRows, ReconcileLive,
          Add, Unregister, SpawnPoller, Register, CancelPoller, RegistryTyped
    <2> QED BY <2>2, <2>3
  <1>9. unheard' \subseteq 1 .. Len(Sources)
    BY DEF Discovery, DiscoverOnce, Managing, Cleanup, Skip, AddedAll,
           ListSource, SourceFailed, Pruned, EndCycle, RegistryTyped
  <1>10. disc' \in Disc
    <2>1. disc \in Disc BY DEF RegistryTyped
    <2>2. CASE Serve \/ StartCycle
      BY <2>1, <2>2, Bounds DEF Serve, StartCycle, Cycle, Disc
    <2>3. ASSUME NEW r \in Repos, Skip(r) \/ Add(r) \/ Unregister(r)
          PROVE  disc' \in Disc
      BY <2>1, <2>3 DEF Skip, Add, Unregister, Disc
    <2>4. CASE AddedAll
      BY <2>1, <2>4 DEF AddedAll, Victims, Of, Disc
    <2>5. CASE ListSource
      <3>1. listed \cap Of(Sources[disc.src]) \subseteq Repos BY DEF Of
      <3> QED BY <2>1, <2>5, <3>1 DEF ListSource, Disc
    <2>6. CASE SourceFailed \/ Pruned
      <3>1. disc.src + 1 \in Nat BY <2>1 DEF Disc
      <3>2. CASE SourceFailed BY <2>1, <3>1, <3>2 DEF SourceFailed, Disc
      <3>3. CASE Pruned BY <2>1, <3>1, <3>3 DEF Pruned, Disc
      <3> QED BY <2>6, <3>2, <3>3
    <2>7. CASE EndCycle BY <2>7 DEF EndCycle, Cycle, Disc
    <2>8. CASE ReconcileLive \/ SpawnPoller \/ CancelPoller \/ CancelRows
      BY <2>1, <2>8 DEF ReconcileLive, SpawnPoller, CancelPoller, CancelRows,
                        Move, Disc
    <2>9. CASE Register \/ PurgeEntries
      BY <2>1, <2>9 DEF Register, PurgeEntries, Disc
    <2> QED
      BY DiscoveryFrame, <2>2, <2>3, <2>4, <2>5, <2>6, <2>7, <2>8, <2>9, Zenon
  <1>11. RegistryTyped'
    BY <1>6, <1>7, <1>8, <1>9, <1>10 DEF RegistryTyped
  <1> QED BY <1>1, <1>2, <1>3, <1>4, <1>5, <1>11

LEMMA TypesStep ==
  ASSUME Types, Underway, [Next]_vars
  PROVE  Types'
  <1>1. CASE UNCHANGED vars
    BY <1>1 DEF vars, Types, WorldTyped, RegistryTyped, StoreTyped, ChanTyped,
                CallTyped
  <1>2. CASE Next
    BY <1>2, TypesEngine, TypesPoller, TypesWebhook, TypesEvent, TypesDiscovery,
       TypesChange, Zenon DEF Next
  <1> QED BY <1>1, <1>2

(* The type invariant of the model follows from its parts.                 *)
LEMMA TypesImply == Types => LifecycleTypeOK
  <1> SUFFICES ASSUME Types PROVE LifecycleTypeOK
    OBVIOUS
  <1>1. ASSUME NEW i \in Instances
        PROVE  /\ poll[i].at \in {"off", "idle", "list", "enqueue", "drop",
                                  "removed", "start", "checks"}
               /\ poll[i].k \in 0 .. MaxBatches /\ poll[i].snap \in BOOLEAN
               /\ op[i].at \in {"idle", "form", "build", "save", "land",
                                "eject", "rebuild", "finish"}
               /\ op[i].k \in 0 .. MaxBatches
    BY <1>1 DEF Types, Poll, Op
  <1> QED
    BY <1>1, Zenon
    DEF LifecycleTypeOK, Types, WorldTyped, RegistryTyped, StoreTyped, ChanTyped

(***************************************************************************)
(* Frames.                                                                 *)
(***************************************************************************)

(* Only discovery changes the registry.                                    *)
LEMMA RegistryFrame ==
  ASSUME (\E i \in Instances : Engine(i) \/ Poller(i)) \/ Webhook \/ Event \/ Change
  PROVE  UNCHANGED <<disc, managed, gen, cancelled, absent, purged>>
  BY DEF Engine, Poller, Webhook, Event, Change

LEMMA VarsFrame ==
  ASSUME UNCHANGED vars
  PROVE  /\ UNCHANGED <<disc, dtrig, managed, gen, cancelled, absent, purged>>
         /\ UNCHANGED <<poll, entry, nudge, told, unheard>>
  BY DEF vars

(* A poller steps only while it runs, and leaves the others alone.         *)
LEMMA PollerRuns ==
  ASSUME NEW i \in Instances, Poller(i)
  PROVE  poll[i].at # "off"
  BY DEF Poller, Stop, Triggered, Tick, ListOpenPRs, Paused, Enqueue, DropEntry,
         OnMemberRemoved, StartQueuedHeads, PollChecks, NoResult, At

LEMMA PollerAlone ==
  ASSUME Types, NEW i \in Instances, Poller(i), NEW j \in Instances, j # i
  PROVE  poll'[j] = poll[j]
  <1>1. \E p : poll' = [poll EXCEPT ![i] = p]
    BY DEF Poller, Stop, Triggered, Tick, ListOpenPRs, Paused, Enqueue,
           DropEntry, OnMemberRemoved, StartQueuedHeads, PollChecks, NoResult, Goto
  <1> QED BY <1>1 DEF Types

(* The steps of a cycle that list and compare, and where they leave        *)
(* discovery.                                                              *)
LEMMA CycleMoves ==
  ASSUME Types, DiscoverOnce
  PROVE  /\ UNCHANGED <<managed, gen, cancelled, poll, entry, purged>>
         /\ disc.at \in {"add", "list", "prune"}
         /\ disc'.at \in {"idle", "add", "list", "prune"}
         /\ disc'.repo \in {disc.repo, NoRepo}
  <1> USE DEF Types, RegistryTyped, Disc
  <1>1. UNCHANGED <<managed, gen, cancelled, poll, entry, purged>>
    BY DEF DiscoverOnce, store
  <1>2. ASSUME NEW r \in Repos, Skip(r)
        PROVE  disc.at = "add" /\ disc'.at = "add" /\ disc'.repo = disc.repo
    BY <1>2 DEF Skip
  <1>3. CASE AddedAll BY <1>1, <1>3 DEF AddedAll
  <1>4. CASE ListSource BY <1>1, <1>4 DEF ListSource, Listing
  <1>5. CASE SourceFailed BY <1>1, <1>5 DEF SourceFailed, Listing
  <1>6. CASE Pruned BY <1>1, <1>6 DEF Pruned
  <1>7. CASE EndCycle BY <1>1, <1>7 DEF EndCycle, Cycle
  <1> QED BY <1>1, <1>2, <1>3, <1>4, <1>5, <1>6, <1>7 DEF DiscoverOnce

(***************************************************************************)
(* The invariant, part by part.                                            *)
(***************************************************************************)

LEMMA UnderwayStep ==
  ASSUME LifecycleInv, [Next]_vars
  PROVE  Underway'
  <1> USE DEF LifecycleInv
  <1>0. /\ disc \in Disc /\ managed \in [Repos -> 0 .. MaxEpochs]
        /\ gen \in [Repos -> 0 .. MaxEpochs]
    BY DEF Types, RegistryTyped
  <1>1. CASE UNCHANGED <<disc, managed, gen, cancelled>>
    BY <1>1 DEF Underway, Adding, Removing, New
  <1>2. CASE StartCycle
    BY Bounds, <1>2 DEF StartCycle, Cycle, Underway, Adding, Removing
  <1>3. CASE DiscoverOnce
    BY Bounds, <1>3, CycleMoves DEF Underway, Adding, Removing
  <1>4. CASE Managing
    <2>1. ASSUME NEW r \in Repos, Add(r)
          PROVE  Underway'
      <3>1. disc'.at = "reconcile" /\ disc'.repo = r
        BY <1>0, <2>1 DEF Add, Disc
      <3>2. managed'[r] = 0 /\ gen'[r] # 0 BY <1>0, <2>1 DEF Add
      <3> QED BY <3>1, <3>2 DEF Underway, Adding, Removing
    <2>2. ASSUME NEW r \in Repos, Unregister(r)
          PROVE  Underway'
      <3>1. disc'.at = "cancel" /\ disc'.repo = r
        BY <1>0, <2>2 DEF Unregister, Disc
      <3>2. managed[r] # 0 BY <2>2 DEF Unregister, Doomed
      <3>3. gen[r] # 0 BY <3>2 DEF Numbered
      <3>4. managed'[r] = 0 /\ gen'[r] # 0 BY <1>0, <2>2, <3>3 DEF Unregister
      <3> QED BY <3>1, <3>4 DEF Underway, Adding, Removing
    <2>3. CASE ReconcileLive \/ SpawnPoller
      <3>1. /\ disc.at \in {"reconcile", "spawn"}
            /\ disc'.at \in {"spawn", "register"} /\ disc'.repo = disc.repo
            /\ UNCHANGED <<managed, gen>>
        BY <1>0, <2>3 DEF ReconcileLive, SpawnPoller, Move, Disc
      <3> QED BY <3>1 DEF Underway, Adding, Removing
    <2>4. CASE Register
      <3>1. disc'.at = "add" /\ disc'.repo = NoRepo
        BY <1>0, <2>4 DEF Register, Disc
      <3> QED BY Bounds, <3>1 DEF Underway, Adding, Removing
    <2>5. CASE CancelPoller
      <3>1. disc.at = "cancel" /\ disc'.at = "rows" /\ disc'.repo = disc.repo
        BY <1>0, <2>5 DEF CancelPoller, Move, Disc
      <3>2. UNCHANGED <<managed, gen>> /\ New \in cancelled'
        BY <2>5 DEF CancelPoller
      <3>3. New' = New BY <3>1, <3>2 DEF New
      <3> QED BY <3>1, <3>2, <3>3 DEF Underway, Adding, Removing
    <2> QED BY <1>4, <2>1, <2>2, <2>3, <2>4, <2>5 DEF Managing
  <1>5. CASE Cleanup
    <2>1. UNCHANGED <<managed, gen, cancelled>> BY <1>5 DEF Cleanup
    <2>2. CASE CancelRows
      <3>1. disc.at = "rows" /\ disc'.at = "purge" /\ disc'.repo = disc.repo
        BY <1>0, <2>2 DEF CancelRows, Move, Disc
      <3> QED BY <2>1, <3>1 DEF Underway, Adding, Removing, New
    <2>3. CASE PurgeEntries
      <3>1. disc'.at = "prune" /\ disc'.repo = NoRepo
        BY <1>0, <2>3 DEF PurgeEntries, Disc
      <3> QED BY Bounds, <3>1 DEF Underway, Adding, Removing
    <2> QED BY <1>5, <2>2, <2>3 DEF Cleanup
  <1> QED
    BY <1>1, <1>2, <1>3, <1>4, <1>5, RegistryFrame, VarsFrame, Zenon
    DEF Next, Discovery, Serve

LEMMA DoomedStep ==
  ASSUME LifecycleInv, [Next]_vars
  PROVE  Doomed'
  <1> USE DEF LifecycleInv
  <1>0. disc \in Disc /\ managed \in [Repos -> 0 .. MaxEpochs]
    BY DEF Types, RegistryTyped
  <1>1. CASE UNCHANGED <<disc, managed, absent>>
    BY <1>1 DEF Doomed, Adding, Removing
  <1>2. CASE StartCycle
    BY <1>2 DEF StartCycle, Cycle, Doomed, Adding, Removing
  <1>3. CASE DiscoverOnce
    <2>1. UNCHANGED managed BY <1>3, CycleMoves
    <2>2. ASSUME NEW r \in Repos, Skip(r)
          PROVE  Doomed'
      BY <1>0, <2>1, <2>2 DEF Skip, Disc, Doomed, Adding, Removing
    <2>3. CASE AddedAll
      <3>1. CASE disc.src = 0
        BY <1>0, <2>3, <3>1 DEF AddedAll, Disc, Doomed, Adding, Removing
      <3>2. CASE disc.src # 0
        <4>1. disc'.at = "prune" /\ disc'.todo = Victims
          BY <1>0, <2>3, <3>2 DEF AddedAll, Disc
        <4>2. absent' = Of(Sources[disc.src]) \ disc.want
          BY <2>3, <3>2 DEF AddedAll, Doomed
        <4>3. \A r \in Victims : managed'[r] # 0 /\ r \in absent' \ Explicit
          BY <2>1, <4>2 DEF Victims
        <4> QED BY <4>1, <4>3 DEF Doomed, Adding, Removing
      <3> QED BY <3>1, <3>2
    <2>4. CASE ListSource
      <3>1. /\ disc'.at = "add" /\ disc'.src = disc.src
            /\ disc'.want = listed \cap Of(Sources[disc.src])
            /\ absent' = Of(Sources[disc.src]) \ listed
        BY <1>0, <2>4 DEF ListSource, Disc
      <3> QED BY <3>1 DEF Doomed, Adding, Removing
    <2>5. CASE SourceFailed \/ Pruned \/ EndCycle
      <3>1. disc'.at \in {"list", "idle"}
        BY <1>0, <2>5 DEF SourceFailed, Listing, Pruned, EndCycle, Cycle, Disc
      <3> QED BY <3>1 DEF Doomed, Adding, Removing
    <2> QED BY <1>3, <2>2, <2>3, <2>4, <2>5 DEF DiscoverOnce
  <1>4. CASE Managing
    <2>0. UNCHANGED absent BY <1>4 DEF Managing
    <2>1. ASSUME NEW r \in Repos, Add(r)
          PROVE  Doomed'
      BY <1>0, <2>0, <2>1 DEF Add, Disc, Doomed, Adding, Removing
    <2>2. ASSUME NEW r \in Repos, Unregister(r)
          PROVE  Doomed'
      <3>1. /\ disc.at = "prune" /\ disc'.at = "cancel"
            /\ disc'.todo = disc.todo \ {r}
            /\ managed' = [managed EXCEPT ![r] = 0]
        BY <1>0, <2>2 DEF Unregister, Disc
      <3>2. ASSUME NEW s \in disc.todo \ {r}
            PROVE  managed'[s] # 0 /\ s \in absent' \ Explicit
        BY <1>0, <2>0, <3>1, <3>2 DEF Doomed, Disc
      <3> QED BY <3>1, <3>2 DEF Doomed, Adding, Removing
    <2>3. CASE ReconcileLive \/ SpawnPoller \/ CancelPoller
      <3>1. /\ \/ disc.at \in {"reconcile", "spawn"}
                  /\ disc'.at \in {"spawn", "register"}
               \/ disc.at = "cancel" /\ disc'.at = "rows"
            /\ disc'.todo = disc.todo /\ disc'.src = disc.src
            /\ disc'.want = disc.want /\ UNCHANGED managed
        BY <1>0, <2>3 DEF ReconcileLive, SpawnPoller, CancelPoller, Move, Disc
      <3> QED BY <2>0, <3>1 DEF Doomed, Adding, Removing
    <2>4. CASE Register
      <3>1. /\ disc.at = "register" /\ disc'.at = "add"
            /\ disc'.src = disc.src /\ disc'.want = disc.want
        BY <1>0, <2>4 DEF Register, Disc
      <3> QED BY <2>0, <3>1 DEF Doomed, Adding, Removing
    <2> QED BY <1>4, <2>1, <2>2, <2>3, <2>4 DEF Managing
  <1>5. CASE Cleanup
    <2>1. UNCHANGED <<managed, absent>> BY <1>5 DEF Cleanup
    <2>2. /\ disc.at \in {"rows", "purge"} /\ disc'.at \in {"purge", "prune"}
          /\ disc'.todo = disc.todo
      BY <1>0, <1>5 DEF Cleanup, CancelRows, PurgeEntries, Move, Disc
    <2> QED BY <2>1, <2>2 DEF Doomed, Adding, Removing
  <1> QED
    BY <1>1, <1>2, <1>3, <1>4, <1>5, RegistryFrame, VarsFrame, Zenon
    DEF Next, Discovery, Serve

LEMMA NumberedStep ==
  ASSUME LifecycleInv, [Next]_vars
  PROVE  Numbered'
  <1> USE DEF LifecycleInv
  <1>0. /\ disc \in Disc /\ managed \in [Repos -> 0 .. MaxEpochs]
        /\ gen \in [Repos -> 0 .. MaxEpochs] /\ poll \in [Instances -> Poll]
    BY DEF Types, RegistryTyped
  <1>1. CASE UNCHANGED <<disc, managed, gen, poll>>
    BY <1>1 DEF Numbered, New
  <1>2. ASSUME NEW i \in Instances, Poller(i)
        PROVE  Numbered'
    <2>1. UNCHANGED <<disc, managed, gen>> BY <1>2, RegistryFrame
    <2>2. ASSUME NEW j \in Instances, poll[j].at = "off"
          PROVE  poll'[j].at = "off"
      BY <1>2, <2>2, PollerRuns, PollerAlone
    <2>3. disc.at \in {"reconcile", "spawn"} => New \in Instances
      BY NewIsInstance DEF Adding
    <2>4. New' = New BY <2>1 DEF New
    <2> QED BY <2>1, <2>2, <2>3, <2>4 DEF Numbered
  <1>3. CASE StartCycle /\ UNCHANGED <<managed, gen, poll>>
    BY <1>3 DEF StartCycle, Cycle, Numbered
  <1>4. CASE DiscoverOnce
    BY <1>4, CycleMoves DEF Numbered
  <1>5. CASE Managing
    <2>1. ASSUME NEW r \in Repos, Add(r)
          PROVE  Numbered'
      <3>1. /\ gen' = [gen EXCEPT ![r] = gen[r] + 1] /\ UNCHANGED <<managed, poll>>
            /\ managed[r] = 0 /\ gen[r] < MaxEpochs
        BY <2>1 DEF Add
      <3>2. New' = <<r, gen[r] + 1>>
        BY <1>0, <2>1, <3>1 DEF Add, Disc, New
      <3>3. <<r, gen[r] + 1>> \in Instances
        BY <1>0, <3>1, Bounds DEF Instances
      <3>4. poll[<<r, gen[r] + 1>>].at = "off"
        BY <1>0, <3>3 DEF Numbered
      <3>5. \A s \in Repos : managed'[s] \in {0, gen'[s]}
        BY <1>0, <3>1 DEF Numbered
      <3>6. ASSUME NEW i \in Instances, i[2] > gen'[i[1]]
            PROVE  poll'[i].at = "off"
        <4>1. i[1] \in Repos /\ i[2] \in Nat BY Instance
        <4>2. i[2] > gen[i[1]] BY <1>0, <3>1, <3>6, <4>1
        <4> QED BY <3>1, <4>2 DEF Numbered
      <3> QED BY <3>1, <3>2, <3>4, <3>5, <3>6 DEF Numbered
    <2>2. ASSUME NEW r \in Repos, Unregister(r)
          PROVE  Numbered'
      <3>1. disc'.at = "cancel" BY <1>0, <2>2 DEF Unregister, Disc
      <3> QED BY <1>0, <2>2, <3>1 DEF Unregister, Numbered
    <2>3. CASE ReconcileLive
      <3>1. disc.at = "reconcile" /\ disc'.at = "spawn" /\ disc'.repo = disc.repo
            /\ UNCHANGED <<managed, gen, poll>>
        BY <1>0, <2>3 DEF ReconcileLive, Move, Disc
      <3> QED BY <3>1 DEF Numbered, New
    <2>4. CASE SpawnPoller
      <3>1. disc'.at = "register" /\ UNCHANGED <<managed, gen>>
            /\ poll' = [poll EXCEPT ![New].at = "list"]
        BY <1>0, <2>4 DEF SpawnPoller, Move, Disc
      <3>2. ASSUME NEW i \in Instances, i[2] > gen[i[1]]
            PROVE  poll'[i].at = "off"
        <4>1. gen[i[1]] \in Nat BY <1>0, Instance
        <4>2. i # New BY <3>2, <4>1 DEF New
        <4>3. poll'[i] = poll[i] BY <1>0, <3>1, <4>2
        <4> QED BY <3>2, <4>3 DEF Numbered
      <3> QED BY <3>1, <3>2 DEF Numbered
    <2>5. CASE Register \/ CancelPoller
      <3>1. disc'.at \in {"add", "rows"} /\ UNCHANGED <<gen, poll>>
        BY <1>0, <2>5 DEF Register, CancelPoller, Move, Disc
      <3>2. \A s \in Repos : managed'[s] \in {managed[s], gen[s]}
        BY <1>0, <2>5 DEF Register, CancelPoller
      <3> QED BY <3>1, <3>2 DEF Numbered
    <2> QED BY <1>5, <2>1, <2>2, <2>3, <2>4, <2>5 DEF Managing
  <1>6. CASE Cleanup
    <2>1. UNCHANGED <<managed, gen, poll>> BY <1>6 DEF Cleanup
    <2>2. disc'.at \in {"purge", "prune"}
      BY <1>0, <1>6 DEF Cleanup, CancelRows, PurgeEntries, Move, Disc
    <2> QED BY <2>1, <2>2 DEF Numbered
  <1>7. ASSUME (\E i \in Instances : Engine(i)) \/ Webhook \/ Event \/ Change
        PROVE  UNCHANGED poll
    BY <1>7 DEF Engine, Webhook, Event, Change
  <1> QED
    BY <1>1, <1>2, <1>3, <1>4, <1>5, <1>6, <1>7, RegistryFrame, VarsFrame, Zenon
    DEF Next, Discovery, Serve

LEMMA PurgedOutStep ==
  ASSUME LifecycleInv, [Next]_vars
  PROVE  PurgedOut'
  <1> USE DEF LifecycleInv
  <1>0. /\ disc \in Disc /\ managed \in [Repos -> 0 .. MaxEpochs]
        /\ purged \subseteq Repos
    BY DEF Types, RegistryTyped
  <1>1. CASE UNCHANGED <<disc, managed, purged>>
    BY <1>1 DEF PurgedOut
  <1>2. CASE StartCycle /\ UNCHANGED <<managed, purged>>
    BY <1>0, <1>2, Bounds DEF StartCycle, Cycle, PurgedOut
  <1>3. CASE DiscoverOnce
    <2>1. /\ UNCHANGED <<managed, purged>>
          /\ disc.at \in {"add", "list", "prune"}
          /\ disc'.repo \in {disc.repo, NoRepo}
      BY <1>3, CycleMoves
    <2>2. disc.repo \notin Repos BY <2>1 DEF Underway, Adding, Removing
    <2> QED BY <1>0, <2>1, <2>2, Bounds DEF PurgedOut
  <1>4. CASE Managing
    <2>1. ASSUME NEW r \in Repos, Add(r)
          PROVE  PurgedOut'
      <3>1. disc'.at = "reconcile" /\ UNCHANGED <<managed, purged>>
        BY <1>0, <2>1 DEF Add, Disc
      <3> QED BY <3>1 DEF PurgedOut
    <2>2. ASSUME NEW r \in Repos, Unregister(r)
          PROVE  PurgedOut'
      <3>1. managed[r] # 0 /\ disc'.repo = r /\ UNCHANGED purged
            /\ managed' = [managed EXCEPT ![r] = 0]
        BY <1>0, <2>2 DEF Unregister, Disc, Doomed
      <3> QED BY <1>0, <3>1 DEF PurgedOut
    <2>3. CASE ReconcileLive
      <3>1. disc.at = "reconcile" /\ disc'.at = "spawn"
            /\ UNCHANGED <<managed, purged>>
        BY <1>0, <2>3 DEF ReconcileLive, Move, Disc
      <3> QED BY <3>1 DEF PurgedOut
    <2>4. CASE SpawnPoller
      <3>1. purged' = purged \ {disc.repo} /\ disc'.repo = disc.repo
            /\ UNCHANGED managed
        BY <1>0, <2>4 DEF SpawnPoller, Move, Disc
      <3> QED BY <3>1 DEF PurgedOut
    <2>5. CASE Register
      <3>1. disc.at = "register" /\ disc'.repo = NoRepo /\ UNCHANGED purged
            /\ \A r \in Repos : r # disc.repo => managed'[r] = managed[r]
        BY <1>0, <2>5 DEF Register, Disc
      <3>2. disc.repo \notin purged BY <3>1 DEF PurgedOut
      <3> QED BY <1>0, <3>1, <3>2, Bounds DEF PurgedOut
    <2>6. CASE CancelPoller
      <3>1. disc.at = "cancel" /\ disc'.repo = disc.repo
            /\ UNCHANGED <<managed, purged>>
        BY <1>0, <2>6 DEF CancelPoller, Move, Disc
      <3> QED BY <3>1 DEF PurgedOut
    <2> QED BY <1>4, <2>1, <2>2, <2>3, <2>4, <2>5, <2>6 DEF Managing
  <1>5. CASE Cleanup
    <2>1. UNCHANGED managed BY <1>5 DEF Cleanup
    <2>2. CASE CancelRows
      <3>1. disc.at = "rows" /\ disc'.repo = disc.repo /\ UNCHANGED purged
        BY <1>0, <2>2 DEF CancelRows, Move, Disc
      <3> QED BY <2>1, <3>1 DEF PurgedOut
    <2>3. CASE PurgeEntries
      <3>1. disc.at = "purge" /\ disc'.repo = NoRepo
            /\ purged' \subseteq purged \cup {disc.repo}
        BY <1>0, <2>3 DEF PurgeEntries, Disc
      <3>2. disc.repo \in Repos /\ managed[disc.repo] = 0
        BY <3>1 DEF Underway, Removing
      <3> QED BY <1>0, <2>1, <3>1, <3>2, Bounds DEF PurgedOut
    <2> QED BY <1>5, <2>2, <2>3 DEF Cleanup
  <1> QED
    BY <1>1, <1>2, <1>3, <1>4, <1>5, RegistryFrame, VarsFrame, Zenon
    DEF Next, Discovery, Serve

LEMMA NoOrphanPollerStep ==
  ASSUME LifecycleInv, [Next]_vars
  PROVE  NoOrphanPoller'
  <1> USE DEF LifecycleInv
  <1>0. /\ disc \in Disc /\ managed \in [Repos -> 0 .. MaxEpochs]
        /\ gen \in [Repos -> 0 .. MaxEpochs] /\ poll \in [Instances -> Poll]
    BY DEF Types, RegistryTyped
  <1>1. CASE UNCHANGED <<disc, managed, gen, cancelled, poll>>
    BY <1>1 DEF NoOrphanPoller, New
  <1>2. ASSUME NEW i \in Instances, Poller(i)
        PROVE  NoOrphanPoller'
    <2>1. UNCHANGED <<disc, managed, gen, cancelled>> BY <1>2, RegistryFrame
    <2>2. ASSUME NEW j \in Instances, poll'[j].at # "off"
          PROVE  poll[j].at # "off"
      BY <1>2, <2>2, PollerRuns, PollerAlone
    <2>3. New' = New BY <2>1 DEF New
    <2> QED BY <2>1, <2>2, <2>3 DEF NoOrphanPoller
  <1>3. ASSUME NEW i \in Instances, poll[i].at # "off", i \notin cancelled,
               ~ (Adding \/ Removing)
        PROVE  managed[i[1]] = i[2]
    <2>1. disc.repo # i[1] BY <1>3, Instance DEF Underway
    <2> QED BY <1>3, <2>1 DEF NoOrphanPoller
  <1>4. ASSUME ~ (Adding \/ Removing), UNCHANGED <<managed, cancelled, poll>>
        PROVE  NoOrphanPoller'
    BY <1>3, <1>4 DEF NoOrphanPoller
  <1>5. CASE StartCycle /\ UNCHANGED <<managed, cancelled, poll>>
    <2>1. disc.at = "idle" BY <1>5 DEF StartCycle
    <2> QED BY <1>4, <1>5, <2>1 DEF Adding, Removing
  <1>6. CASE DiscoverOnce
    BY <1>4, <1>6, CycleMoves DEF Adding, Removing
  <1>7. CASE Managing
    <2>1. ASSUME NEW r \in Repos, Add(r)
          PROVE  NoOrphanPoller'
      BY <1>4, <2>1 DEF Add, Adding, Removing
    <2>2. ASSUME NEW r \in Repos, Unregister(r)
          PROVE  NoOrphanPoller'
      <3>1. /\ disc.at = "prune" /\ disc'.repo = r
            /\ managed' = [managed EXCEPT ![r] = 0]
            /\ UNCHANGED <<gen, cancelled, poll>>
        BY <1>0, <2>2 DEF Unregister, Disc
      <3>2. ASSUME NEW i \in Instances, poll'[i].at # "off", i \notin cancelled'
            PROVE  managed'[i[1]] = i[2] \/ (disc'.repo = i[1] /\ New' = i)
        <4>1. managed[i[1]] = i[2]
          BY <1>3, <3>1, <3>2 DEF Adding, Removing
        <4>2. CASE i[1] # r
          BY <1>0, <3>1, <4>1, <4>2, Instance
        <4>3. CASE i[1] = r
          <5>1. i[2] = gen[r]
            BY <4>1, <4>3, Instance DEF Numbered
          <5>2. New' = <<r, gen[r]>> BY <3>1 DEF New
          <5> QED BY <3>1, <4>3, <5>1, <5>2, Instance
        <4> QED BY <4>2, <4>3
      <3> QED BY <3>2 DEF NoOrphanPoller
    <2>3. CASE ReconcileLive
      <3>1. disc'.repo = disc.repo /\ UNCHANGED <<managed, gen, cancelled, poll>>
        BY <1>0, <2>3 DEF ReconcileLive, Move, Disc
      <3> QED BY <3>1 DEF NoOrphanPoller, New
    <2>4. CASE SpawnPoller
      <3>1. /\ disc'.repo = disc.repo /\ UNCHANGED <<managed, gen, cancelled>>
            /\ poll' = [poll EXCEPT ![New].at = "list"]
        BY <1>0, <2>4 DEF SpawnPoller, Move, Disc
      <3>2. New' = New BY <3>1 DEF New
      <3>3. ASSUME NEW i \in Instances, i # New
            PROVE  poll'[i] = poll[i]
        BY <1>0, <3>1, <3>3
      <3>4. New[1] = disc.repo BY DEF New
      <3> QED BY <3>1, <3>2, <3>3, <3>4 DEF NoOrphanPoller
    <2>5. CASE Register
      <3>1. managed[disc.repo] = 0 /\ disc.repo \in Repos
        BY <2>5 DEF Register, Underway, Adding
      <3>2. /\ managed' = [managed EXCEPT ![disc.repo] = gen[disc.repo]]
            /\ UNCHANGED <<gen, cancelled, poll>>
        BY <2>5, <3>1 DEF Register
      <3>3. ASSUME NEW i \in Instances, poll'[i].at # "off", i \notin cancelled'
            PROVE  managed'[i[1]] = i[2]
        <4>1. managed[i[1]] = i[2] \/ (disc.repo = i[1] /\ New = i)
          BY <3>2, <3>3 DEF NoOrphanPoller
        <4>2. CASE disc.repo = i[1]
          <5>1. New = i BY <3>1, <4>1, <4>2, Instance
          <5>2. gen[disc.repo] = i[2] BY <5>1 DEF New
          <5> QED BY <1>0, <3>1, <3>2, <4>2, <5>2
        <4>3. CASE disc.repo # i[1]
          BY <1>0, <3>2, <4>1, <4>3, Instance
        <4> QED BY <4>2, <4>3
      <3> QED BY <3>3 DEF NoOrphanPoller
    <2>6. CASE CancelPoller
      <3>1. /\ disc'.repo = disc.repo /\ cancelled \subseteq cancelled'
            /\ UNCHANGED <<managed, gen, poll>>
        BY <1>0, <2>6 DEF CancelPoller, Move, Disc
      <3> QED BY <3>1 DEF NoOrphanPoller, New
    <2> QED BY <1>7, <2>1, <2>2, <2>3, <2>4, <2>5, <2>6 DEF Managing
  <1>8. CASE Cleanup
    <2>1. UNCHANGED <<managed, gen, cancelled, poll>> BY <1>8 DEF Cleanup
    <2>2. CASE CancelRows
      <3>1. disc'.repo = disc.repo BY <1>0, <2>2 DEF CancelRows, Move, Disc
      <3> QED BY <2>1, <3>1 DEF NoOrphanPoller, New
    <2>3. CASE PurgeEntries
      <3>1. New \in cancelled BY <2>3 DEF PurgeEntries, Underway
      <3> QED BY <2>1, <3>1 DEF NoOrphanPoller
    <2> QED BY <1>8, <2>2, <2>3 DEF Cleanup
  <1>9. ASSUME (\E i \in Instances : Engine(i)) \/ Webhook \/ Event \/ Change
        PROVE  UNCHANGED poll
    BY <1>9 DEF Engine, Webhook, Event, Change
  <1> QED
    BY <1>1, <1>2, <1>5, <1>6, <1>7, <1>8, <1>9, RegistryFrame, VarsFrame, Zenon
    DEF Next, Discovery, Serve

(* A poller that may still enqueue belongs to no purged repository.        *)
LEMMA RunningUnpurged ==
  ASSUME LifecycleInv, NEW i \in Instances, poll[i].at # "off", i \notin cancelled
  PROVE  i[1] \notin purged
  <1> SUFFICES ASSUME i[1] \in purged PROVE FALSE
    OBVIOUS
  <1>1. managed[i[1]] = 0 BY DEF LifecycleInv, PurgedOut
  <1>2. managed[i[1]] # i[2] BY <1>1, Instance
  <1>3. disc.repo = i[1] /\ New = i
    BY <1>2 DEF LifecycleInv, NoOrphanPoller
  <1>4. disc.at \in {"reconcile", "spawn"}
    BY <1>3 DEF LifecycleInv, PurgedOut
  <1>5. poll[New].at = "off" BY <1>4 DEF LifecycleInv, Numbered
  <1> QED BY <1>3, <1>5

LEMMA PurgedStaysEmptyStep ==
  ASSUME LifecycleInv, [Next]_vars
  PROVE  PurgedStaysEmpty'
  <1>0. /\ disc \in Disc /\ purged \subseteq Repos
        /\ entry \in [Repos -> Absent .. MaxBatches]
    BY DEF LifecycleInv, Types, RegistryTyped, StoreTyped
  <1>1. \A r \in purged : entry[r] = Absent
    BY DEF LifecycleInv, PurgedStaysEmpty
  <1>2. CASE UNCHANGED <<entry, purged>>
    BY <1>2 DEF LifecycleInv, PurgedStaysEmpty
  <1>3. ASSUME NEW i \in Instances, Engine(i)
        PROVE  PurgedStaysEmpty'
    <2>1. UNCHANGED purged BY <1>3, RegistryFrame
    <2>2. CASE Form(i)
      <3>1. CASE UNCHANGED entry BY <1>2, <2>1, <3>1
      <3>2. CASE entry[i[1]] = NoBatch /\ \E k \in Free : entry' = [entry EXCEPT ![i[1]] = k]
        <4>1. i[1] \notin purged BY <1>1, <3>2 DEF Absent, NoBatch
        <4> QED BY <1>0, <1>1, <2>1, <3>2, <4>1 DEF PurgedStaysEmpty
      <3> QED BY <2>2, <3>1, <3>2 DEF Form, store
    <2>3. CASE Settle(i)
      <3>1. entry' = entry \/ entry' = [entry EXCEPT ![i[1]] = Absent]
        BY <2>3 DEF Settle
      <3> QED BY <1>0, <1>1, <2>1, <3>1 DEF PurgedStaysEmpty
    <2>4. CASE UNCHANGED entry BY <1>2, <2>1, <2>4
    <2> QED
      BY <1>3, <2>2, <2>3, <2>4
      DEF Engine, Build, SaveTesting, Rebuild, Finish, Abort, store
  <1>4. ASSUME NEW i \in Instances, Poller(i)
        PROVE  PurgedStaysEmpty'
    <2>1. UNCHANGED purged BY <1>4, RegistryFrame
    <2>2. CASE Enqueue(i)
      <3>1. CASE UNCHANGED entry BY <1>2, <2>1, <3>1
      <3>2. CASE i \notin cancelled /\ entry' = [entry EXCEPT ![i[1]] = NoBatch]
        <4>1. i[1] \notin purged BY <1>4, <3>2, PollerRuns, RunningUnpurged
        <4> QED BY <1>0, <1>1, <2>1, <3>2, <4>1 DEF PurgedStaysEmpty
      <3> QED BY <2>2, <3>1, <3>2 DEF Enqueue
    <2>3. CASE DropEntry(i)
      <3>1. entry' = entry \/ entry' = [entry EXCEPT ![i[1]] = Absent]
        BY <2>3 DEF DropEntry
      <3> QED BY <1>0, <1>1, <2>1, <3>1 DEF PurgedStaysEmpty
    <2>4. CASE UNCHANGED entry BY <1>2, <2>1, <2>4
    <2> QED
      BY <1>4, <2>2, <2>3, <2>4
      DEF Poller, Stop, Triggered, Tick, ListOpenPRs, Paused, OnMemberRemoved,
          StartQueuedHeads, PollChecks, NoResult, store
  <1>5. CASE Managing
    <2>1. UNCHANGED entry BY <1>5 DEF Managing, store
    <2>2. purged' \subseteq purged
      BY <1>5 DEF Managing, Add, Unregister, ReconcileLive, SpawnPoller, Register,
                  CancelPoller
    <2> QED BY <1>1, <2>1, <2>2 DEF PurgedStaysEmpty
  <1>6. CASE Cleanup
    <2>1. CASE CancelRows BY <1>2, <2>1 DEF CancelRows
    <2>2. CASE PurgeEntries
      <3>1. CASE UNCHANGED <<entry, purged>> BY <1>2, <3>1
      <3>2. CASE /\ entry' = [entry EXCEPT ![disc.repo] = Absent]
                 /\ purged' = purged \cup {disc.repo}
        <4>1. disc.repo \in Repos
          BY <2>2, NewIsInstance DEF PurgeEntries, Removing, LifecycleInv
        <4> QED BY <1>0, <1>1, <3>2, <4>1 DEF PurgedStaysEmpty
      <3> QED BY <2>2, <3>1, <3>2 DEF PurgeEntries, DequeueAll
    <2> QED BY <1>6, <2>1, <2>2 DEF Cleanup
  <1>7. ASSUME Webhook \/ Event \/ Change
        PROVE  UNCHANGED entry
    BY <1>7 DEF Webhook, Event, Change, store
  <1>8. ASSUME \/ (Serve \/ StartCycle) /\ UNCHANGED <<store, purged>>
               \/ DiscoverOnce
        PROVE  UNCHANGED <<entry, purged>>
    BY <1>8 DEF DiscoverOnce, store
  <1> QED
    BY <1>2, <1>3, <1>4, <1>5, <1>6, <1>7, <1>8, RegistryFrame, VarsFrame, Zenon
    DEF Next, Discovery

(* The two halves of NothingUnheard: pollers, and discovery.               *)
Heard(i) == i \in cancelled \/ i \in nudge \/ poll[i].at = "list"

WillAsk(s) ==
    \/ dtrig
    \/ disc.at # "idle" /\ disc.src < s
    \/ disc.at = "list" /\ disc.src = s

(* What a non-blocking send leaves behind, wherever it is called.          *)
LEMMA TriggerHeard ==
  ASSUME \A i \in told : Heard(i), NEW j, Trigger(j) \/ UNCHANGED chan,
         UNCHANGED <<cancelled, poll>>
  PROVE  \A i \in told' : Heard(i)'
  BY DEF Heard, Trigger, chan

LEMMA ToldStep ==
  ASSUME LifecycleInv, [Next]_vars
  PROVE  \A i \in told' : Heard(i)'
  <1>0. poll \in [Instances -> Poll] /\ told \subseteq Instances
    BY DEF LifecycleInv, Types, ChanTyped
  <1>1. \A i \in told : Heard(i)
    BY DEF LifecycleInv, NothingUnheard, Heard
  <1>2. ASSUME UNCHANGED <<cancelled, poll, nudge, told>>
        PROVE  \A i \in told' : Heard(i)'
    BY <1>1, <1>2 DEF Heard
  <1>3. ASSUME NEW i \in Instances, Engine(i)
        PROVE  \A j \in told' : Heard(j)'
    <2>1. UNCHANGED <<cancelled, poll>> BY <1>3 DEF Engine
    <2>2. Trigger(i) \/ UNCHANGED chan
      BY <1>3 DEF Engine, Form, Build, SaveTesting, Settle, Rebuild, Finish, Abort
    <2> QED BY <1>1, <2>1, <2>2, TriggerHeard
  <1>4. ASSUME NEW i \in Instances, Poller(i)
        PROVE  \A j \in told' : Heard(j)'
    <2>1. UNCHANGED cancelled BY <1>4, RegistryFrame
    <2>2. nudge \ {i} \subseteq nudge' /\ told' \subseteq told
      BY <1>4 DEF Poller, Stop, Triggered, Tick, ListOpenPRs, Paused, Enqueue,
                  DropEntry, OnMemberRemoved, StartQueuedHeads, PollChecks, NoResult,
                  chan
    <2>3. ASSUME NEW j \in told', j # i
          PROVE  Heard(j)'
      <3>1. poll'[j] = poll[j]
        BY <1>0, <1>4, <2>2, <2>3, PollerAlone DEF LifecycleInv
      <3> QED BY <1>1, <2>1, <2>2, <2>3, <3>1 DEF Heard
    <2>4. ASSUME i \in told'
          PROVE  Heard(i)'
      <3>1. CASE Stop(i) BY <2>1, <3>1 DEF Stop, Heard
      <3>2. CASE Triggered(i) \/ Tick(i)
        BY <1>0, <3>2 DEF Triggered, Tick, Goto, Heard, Poll
      <3>3. CASE ListOpenPRs(i) \/ Paused(i)
        BY <2>4, <3>3 DEF ListOpenPRs, Paused
      <3>4. CASE poll[i].at # "list" /\ UNCHANGED nudge
        BY <1>1, <2>1, <2>2, <2>4, <3>4 DEF Heard
      <3> QED
        BY <1>4, <3>1, <3>2, <3>3, <3>4
        DEF Poller, Enqueue, DropEntry, OnMemberRemoved, StartQueuedHeads,
            PollChecks, NoResult, At, chan
    <2> QED BY <2>3, <2>4
  <1>5. CASE Webhook
    <2>1. UNCHANGED <<cancelled, poll>> BY <1>5 DEF Webhook
    <2>2. Trigger(call.i) \/ UNCHANGED chan
      BY <1>5 DEF Webhook, StatusEvent, RouteCheck, HandleCheck, DropCheck, Handled,
                  Respond
    <2> QED BY <1>1, <2>1, <2>2, TriggerHeard
  <1>6. CASE Event
    <2>1. UNCHANGED <<cancelled, poll>> BY <1>6 DEF Event
    <2>2. ASSUME NEW r \in Polled, PullRequestEvent(r)
          PROVE  \A i \in told' : Heard(i)'
      BY <1>1, <2>1, <2>2, TriggerHeard DEF PullRequestEvent
    <2>3. CASE InstallationEvent
      BY <1>2, <2>1, <2>3 DEF InstallationEvent, chan
    <2> QED BY <1>6, <2>2, <2>3 DEF Event
  <1>7. CASE Discovery
    <2>1. UNCHANGED <<nudge, told>> BY <1>7, DiscoveryFrame
    <2>2. CASE SpawnPoller
      <3>1. UNCHANGED cancelled BY <2>2 DEF SpawnPoller
      <3>2. ASSUME NEW i \in Instances
            PROVE  poll'[i].at \in {poll[i].at, "list"}
        BY <1>0, <2>2 DEF SpawnPoller, Poll
      <3> QED BY <1>0, <1>1, <2>1, <3>1, <3>2 DEF Heard
    <2>3. CASE UNCHANGED poll /\ cancelled \subseteq cancelled'
      BY <1>1, <2>1, <2>3 DEF Heard
    <2> QED
      BY <1>7, <2>2, <2>3
      DEF Discovery, DiscoverOnce, Managing, Cleanup, Add, Unregister,
          ReconcileLive, Register, CancelPoller
  <1>8. CASE Change
    BY <1>2, <1>8 DEF Change, chan
  <1> QED
    BY <1>2, <1>3, <1>4, <1>5, <1>6, <1>7, <1>8, VarsFrame, Zenon DEF Next

LEMMA AskedStep ==
  ASSUME LifecycleInv, [Next]_vars
  PROVE  \A s \in unheard' : WillAsk(s)'
  <1>0. disc \in Disc /\ unheard \subseteq 1 .. Len(Sources)
    BY DEF LifecycleInv, Types, RegistryTyped
  <1>1. \A s \in unheard : WillAsk(s)
    BY DEF LifecycleInv, NothingUnheard, WillAsk
  <1>2. ASSUME UNCHANGED <<disc, dtrig, unheard>>
        PROVE  \A s \in unheard' : WillAsk(s)'
    BY <1>1, <1>2 DEF WillAsk
  <1>3. \A s \in unheard : s \in Nat /\ s > 0 /\ s <= Len(Sources)
    BY <1>0, SomeSource
  <1>4. disc.src \in Nat BY <1>0 DEF Disc
  <1>5. CASE Event
    <2>1. CASE InstallationEvent BY <2>1 DEF InstallationEvent, WillAsk
    <2>2. CASE \E r \in Polled : PullRequestEvent(r)
      BY <1>2, <1>5, <2>2 DEF Event, PullRequestEvent
    <2> QED BY <1>5, <2>1, <2>2 DEF Event
  <1>6. CASE StartCycle /\ UNCHANGED unheard
    <2>1. CASE dtrig
      <3>1. disc'.at = "add" /\ disc'.src = 0
        BY <1>6 DEF StartCycle, Cycle
      <3> QED BY <1>3, <1>6, <3>1 DEF WillAsk
    <2>2. CASE ~ dtrig
      <3>1. unheard = {} BY <1>1, <1>6, <2>2 DEF StartCycle, WillAsk
      <3> QED BY <1>6, <3>1
    <2> QED BY <2>1, <2>2
  <1>7. CASE DiscoverOnce /\ UNCHANGED dtrig
    <2>1. ASSUME NEW r \in Repos, Skip(r)
          PROVE  \A s \in unheard' : WillAsk(s)'
      <3>1. /\ disc.at = "add" /\ disc'.at = "add" /\ disc'.src = disc.src
            /\ UNCHANGED unheard
        BY <1>0, <2>1 DEF Skip, Disc
      <3> QED BY <1>1, <1>7, <3>1 DEF WillAsk
    <2>2. CASE AddedAll
      <3>1. CASE disc.src = 0
        <4>1. disc'.at = "list" /\ disc'.src = 1 /\ UNCHANGED unheard
          BY <1>0, <2>2, <3>1 DEF AddedAll, Disc
        <4> QED BY <1>3, <4>1 DEF WillAsk
      <3>2. CASE disc.src # 0
        <4>1. disc.at = "add" /\ disc'.at = "prune" /\ disc'.src = disc.src
              /\ UNCHANGED unheard
          BY <1>0, <2>2, <3>2 DEF AddedAll, Disc
        <4> QED BY <1>1, <1>7, <4>1 DEF WillAsk
      <3> QED BY <3>1, <3>2
    <2>3. CASE ListSource
      <3>1. /\ disc'.at = "add" /\ disc'.src = disc.src
            /\ unheard' = unheard \ {disc.src}
        BY <1>0, <2>3 DEF ListSource, Disc
      <3> QED BY <1>1, <1>7, <3>1 DEF WillAsk
    <2>4. CASE SourceFailed
      <3>1. /\ disc'.at = "list" /\ disc'.src = disc.src + 1
            /\ unheard' = unheard \ {disc.src}
        BY <1>0, <2>4 DEF SourceFailed, Listing, Disc
      <3>2. \A s \in unheard' : s \in Nat /\ (dtrig \/ disc.src < s)
        BY <1>1, <1>3, <3>1 DEF WillAsk
      <3> QED BY <1>4, <1>7, <3>1, <3>2 DEF WillAsk
    <2>5. CASE Pruned
      <3>1. /\ disc.at = "prune" /\ disc'.at = "list"
            /\ disc'.src = disc.src + 1 /\ UNCHANGED unheard
        BY <1>0, <2>5 DEF Pruned, Disc
      <3>2. \A s \in unheard' : s \in Nat /\ (dtrig \/ disc.src < s)
        BY <1>1, <1>3, <3>1 DEF WillAsk
      <3> QED BY <1>4, <1>7, <3>1, <3>2 DEF WillAsk
    <2>6. CASE EndCycle
      <3>1. disc.src > Len(Sources) /\ UNCHANGED unheard
        BY <2>6 DEF EndCycle
      <3>2. \A s \in unheard : dtrig
        BY <1>1, <1>3, <1>4, <3>1, SomeSource DEF WillAsk
      <3> QED BY <1>7, <3>1, <3>2 DEF WillAsk
    <2> QED BY <1>7, <2>1, <2>2, <2>3, <2>4, <2>5, <2>6 DEF DiscoverOnce
  <1>8. CASE (Managing \/ Cleanup) /\ UNCHANGED dtrig
    <2>1. UNCHANGED unheard BY <1>8 DEF Managing, Cleanup
    <2>2. disc.at \notin {"idle", "list"} /\ disc'.at # "idle"
          /\ disc'.src = disc.src
      <3>1. ASSUME NEW r \in Repos, Add(r) \/ Unregister(r)
            PROVE  disc.at \notin {"idle", "list"} /\ disc'.at # "idle"
                   /\ disc'.src = disc.src
        BY <1>0, <3>1 DEF Add, Unregister, Disc
      <3>2. CASE ReconcileLive \/ SpawnPoller \/ CancelPoller \/ CancelRows
        BY <1>0, <3>2
        DEF ReconcileLive, SpawnPoller, CancelPoller, CancelRows, Move, Disc
      <3>3. CASE Register \/ PurgeEntries
        BY <1>0, <3>3 DEF Register, PurgeEntries, Disc
      <3> QED BY <1>8, <3>1, <3>2, <3>3, Zenon DEF Managing, Cleanup
    <2> QED BY <1>1, <1>8, <2>1, <2>2 DEF WillAsk
  <1>9. ASSUME Serve, UNCHANGED unheard
        PROVE  UNCHANGED <<disc, dtrig, unheard>>
    BY <1>9 DEF Serve
  <1>10. CASE Discovery
    <2>1. \/ (Serve \/ StartCycle) /\ UNCHANGED unheard
          \/ (DiscoverOnce \/ Managing \/ Cleanup) /\ UNCHANGED dtrig
      BY <1>10 DEF Discovery
    <2> QED BY <1>2, <1>6, <1>7, <1>8, <1>9, <2>1
  <1>11. CASE UNCHANGED vars
    BY <1>2, <1>11, VarsFrame
  <1>12. CASE (\E i \in Instances : Engine(i) \/ Poller(i)) \/ Webhook \/ Change
    <2>1. UNCHANGED <<disc, dtrig, unheard>>
      BY <1>12 DEF Engine, Poller, Webhook, Change
    <2> QED BY <1>2, <2>1
  <1> QED BY <1>5, <1>10, <1>11, <1>12, Zenon DEF Next

(***************************************************************************)
(* The theorems.                                                           *)
(***************************************************************************)

LEMMA LifecycleInit == Init => LifecycleInv
  <1> SUFFICES ASSUME Init PROVE LifecycleInv
    OBVIOUS
  <1>1. Types BY TypesInit
  <1>2. Underway /\ Doomed
    BY Bounds DEF Init, Cycle, Underway, Doomed, Adding, Removing
  <1>3. Numbered BY DEF Init, Cycle, Numbered
  <1>4. PurgedOut /\ PurgedStaysEmpty
    BY DEF Init, PurgedOut, PurgedStaysEmpty
  <1>5. NoOrphanPoller BY DEF Init, NoOrphanPoller
  <1>6. NothingUnheard BY DEF Init, NothingUnheard
  <1> QED BY <1>1, <1>2, <1>3, <1>4, <1>5, <1>6 DEF LifecycleInv

LEMMA LifecycleStep == LifecycleInv /\ [Next]_vars => LifecycleInv'
  <1> SUFFICES ASSUME LifecycleInv, [Next]_vars PROVE LifecycleInv'
    OBVIOUS
  <1>1. Types' BY TypesStep DEF LifecycleInv
  <1>2. NothingUnheard'
    BY ToldStep, AskedStep DEF NothingUnheard, Heard, WillAsk
  <1> QED
    BY <1>1, <1>2, UnderwayStep, DoomedStep, NumberedStep, PurgedOutStep,
       NoOrphanPollerStep, PurgedStaysEmptyStep
    DEF LifecycleInv

(* Discovery, the registry, the pollers and the requests keep to           *)
(* LifecycleInv, however they interleave and whichever calls fail          *)
(* (registry.go, discovery.go, poller.go).                                 *)
THEOREM LifecycleCorrect == Spec => []LifecycleInv
  BY LifecycleInit, LifecycleStep, PTL DEF Spec

(* The registry, the pollers, the requests and the database keep their     *)
(* types, whatever interleaving of discovery and webhooks runs.            *)
THEOREM LifecycleTypesCorrect == Spec => []LifecycleTypeOK
  <1>1. LifecycleInv => LifecycleTypeOK BY TypesImply DEF LifecycleInv
  <1> QED BY <1>1, LifecycleCorrect, PTL

(* Remove and a later Add never leave two pollers on one queue.            *)
THEOREM OneLivePoller == Spec => []NoOrphanPoller
  <1>1. LifecycleInv => NoOrphanPoller BY DEF LifecycleInv
  <1> QED BY <1>1, LifecycleCorrect, PTL

(* Once Remove has deleted the entries of a repository, no poller and no   *)
(* request puts one back before it is added again.                         *)
THEOREM PurgesLast == Spec => []PurgedStaysEmpty
  <1>1. LifecycleInv => PurgedStaysEmpty BY DEF LifecycleInv
  <1> QED BY <1>1, LifecycleCorrect, PTL

(* No wake-up of a poller or of discovery is lost.                         *)
THEOREM WakeUpsKept == Spec => []NothingUnheard
  <1>1. LifecycleInv => NothingUnheard BY DEF LifecycleInv
  <1> QED BY <1>1, LifecycleCorrect, PTL

(* Only Remove takes a repository out of the registry.                     *)
LEMMA OnlyRemoved ==
  ASSUME LifecycleInv, [Next]_vars, NEW r \in Repos, managed[r] # 0, managed'[r] = 0
  PROVE  r \in absent \ Explicit
  <1>0. disc \in Disc /\ managed \in [Repos -> 0 .. MaxEpochs]
        /\ gen \in [Repos -> 0 .. MaxEpochs]
    BY DEF LifecycleInv, Types, RegistryTyped
  <1>1. PICK q \in Repos : Unregister(q)
    <2>1. CASE Register
      <3>1. managed[disc.repo] = 0 BY <2>1 DEF Register, LifecycleInv, Underway, Adding
      <3>2. disc.repo # r BY <3>1
      <3>3. managed' = [managed EXCEPT ![disc.repo] = gen[disc.repo]]
        BY <2>1, <3>1 DEF Register
      <3> QED BY <1>0, <3>2, <3>3
    <2>2. CASE ~ Register /\ ~ \E q \in Repos : Unregister(q)
      <3>1. UNCHANGED managed
        BY <2>2, RegistryFrame, VarsFrame, Zenon
        DEF Next, Discovery, DiscoverOnce, Managing, Cleanup, Add, ReconcileLive,
            SpawnPoller, CancelPoller
      <3> QED BY <3>1
    <2> QED BY <2>1, <2>2
  <1>2. r = q BY <1>0, <1>1 DEF Unregister
  <1> QED BY <1>1, <1>2 DEF Unregister, LifecycleInv, Doomed

(* A repository leaves the registry only after its own forge has answered  *)
(* without it, and never when it is configured explicitly.                 *)
THEOREM RemovalsJustified == Spec => RemovesOnlyUnlisted
  <1>1. LifecycleInv /\ [Next]_vars =>
          [\A r \in Repos : managed[r] # 0 /\ managed'[r] = 0
                               => r \in absent \ Explicit]_vars
    BY OnlyRemoved
  <1> QED BY <1>1, LifecycleCorrect, PTL DEF Spec, RemovesOnlyUnlisted

=============================================================================
