--------------------------- MODULE BatchTypeProofs ---------------------------
(***************************************************************************)
(* Type correctness of BatchEngine, for every value of the constants.      *)
(***************************************************************************)
EXTENDS BatchInvariant, TLAPS, WellFoundedInduction

USE BoundsAssumption, ChecksAssumption, StoreAssumption, EngineAssumption

(***************************************************************************)
(* The operators of the model.                                             *)
(***************************************************************************)

LEMMA DropType ==
    ASSUME NEW stack \in Seq(SUBSET Ids), NEW e \in Ids
    PROVE  Drop(stack, e) \in Seq(SUBSET Ids)
<1>1. CASE \E i \in 1 .. Len(stack) : stack[i] = {e}
  <2>1. \A i \in 1 .. Len(stack) : Cut(stack, i) \in Seq(SUBSET Ids)
    BY DEF Cut
  <2>2. QED
    BY <1>1, <2>1, Zenon DEF Drop
<1>2. CASE ~ \E i \in 1 .. Len(stack) : stack[i] = {e}
  <2>1. [i \in 1 .. Len(stack) |-> stack[i] \ {e}] \in Seq(SUBSET Ids)
    OBVIOUS
  <2>2. QED
    BY <1>2, <2>1 DEF Drop
<1>3. QED
  BY <1>1, <1>2

(* A nonempty set of ids has a least element, and Least finds it.          *)
LEMMA LeastType ==
    ASSUME NEW S \in SUBSET Nat, S # {}
    PROVE  /\ Least(S) \in S
           /\ \A y \in S : Least(S) <= y
<1>1. PICK x \in S : \A y \in S : ~ (<<y, x>> \in OpToRel(<, Nat))
  BY NatLessThanWellFounded, WFMin, Zenon
<1>2. \A y \in S : ~ (y < x)
  BY <1>1 DEF OpToRel
<1>3. \E z \in S : \A y \in S : z <= y
  BY <1>2
<1>4. QED
  BY <1>3, Zenon DEF Least

(* The row of a batch that does not exist yet is well typed.               *)
LEMMA RowNo == NoRow \in Row
BY DEF NoRow, Row, NoSha

(* The row of an entry that does not exist is well typed.                  *)
LEMMA EntryNo == NoEntry \in Entry
BY DEF NoEntry, Entry, NoPR, NoBatch, NoSha

(* The empty ledger of an entry is well typed.                             *)
LEMMA ChecksNo == NoChecks \in [Contexts -> ReportStates \cup {NoCheck}]
BY DEF NoChecks

(* What a single statement of the database makes of a well-typed table is  *)
(* well-typed.                                                             *)
LEMMA TablesType ==
    ASSUME StoreTypeOK
    PROVE  /\ \A p \in PRs \cup {NoPR} : Dequeued(p) \in [Ids -> Entry]
           /\ \A p \in PRs \cup {NoPR} :
                LedgerDequeued(p) \in [Ids -> [Contexts -> ReportStates \cup {NoCheck}]]
           /\ \A p \in PRs, e \in Ids : Enqueued(p, e) \in [Ids -> Entry]
           /\ \A p \in PRs \cup {NoPR}, s \in 0 .. MaxCommits :
                Stamped(p, s) \in [Ids -> Entry]
           /\ \A ids \in SUBSET Ids : Unrouted(ids) \in [Ids -> Entry]
           /\ \A ids \in SUBSET Ids :
                LedgerCleared(ids) \in [Ids -> [Contexts -> ReportStates \cup {NoCheck}]]
           /\ \A ids \in SUBSET Ids, k \in BatchIds :
                Batched(ids, k) \in [Ids -> Entry]
           /\ \A ids \in SUBSET Ids : NewRow(ids) \in Row
<1> USE DEF StoreTypeOK
<1>1. \A p \in PRs \cup {NoPR} : [NoEntry EXCEPT !.pr = p] \in Entry
  BY DEF NoEntry, Entry, NoPR, NoBatch, NoSha
<1>2. \A p \in PRs \cup {NoPR} : Dequeued(p) \in [Ids -> Entry]
  BY <1>1 DEF Dequeued
<1>3. \A p \in PRs \cup {NoPR} :
          LedgerDequeued(p) \in [Ids -> [Contexts -> ReportStates \cup {NoCheck}]]
  BY ChecksNo DEF LedgerDequeued
<1>4. ASSUME NEW p \in PRs
      PROVE  [NoEntry EXCEPT !.state = "queued", !.pr = p] \in Entry
  <2>1. \A x \in Entry : [[x EXCEPT !.state = "queued"] EXCEPT !.pr = p] \in Entry
    BY DEF Entry
  <2>2. QED
    BY <2>1, EntryNo
<1>5. \A p \in PRs, e \in Ids : Enqueued(p, e) \in [Ids -> Entry]
  BY <1>4 DEF Enqueued
<1>6. \A x \in Entry, s \in 0 .. MaxCommits : [x EXCEPT !.sha = s] \in Entry
  BY DEF Entry
<1>7. \A p \in PRs \cup {NoPR}, s \in 0 .. MaxCommits :
          Stamped(p, s) \in [Ids -> Entry]
  BY <1>6 DEF Stamped
<1>8. \A ids \in SUBSET Ids : Unrouted(ids) \in [Ids -> Entry]
  BY <1>6 DEF Unrouted, NoSha
<1>9. \A ids \in SUBSET Ids :
          LedgerCleared(ids) \in [Ids -> [Contexts -> ReportStates \cup {NoCheck}]]
  BY ChecksNo DEF LedgerCleared
<1>10. ASSUME NEW x \in Entry, NEW k \in BatchIds
       PROVE  [x EXCEPT !.state = "testing", !.batch = k] \in Entry
  <2>1. k \in 0 .. MaxBatches
    BY DEF BatchIds
  <2>2. \A j \in 0 .. MaxBatches :
          [[x EXCEPT !.state = "testing"] EXCEPT !.batch = j] \in Entry
    BY DEF Entry
  <2>3. QED
    BY <2>1, <2>2
<1>11. \A ids \in SUBSET Ids, k \in BatchIds : Batched(ids, k) \in [Ids -> Entry]
  BY <1>10 DEF Batched
<1>12. ASSUME NEW ids \in SUBSET Ids
       PROVE  NewRow(ids) \in Row
  <2>1. [[[NoRow EXCEPT !.state = "forming"] EXCEPT !.members = ids]
            EXCEPT !.current = ids] \in Row
    BY RowNo DEF Row
  <2>2. QED
    BY <2>1 DEF NewRow
<1>13. QED
  BY <1>2, <1>3, <1>5, <1>7, <1>8, <1>9, <1>11, <1>12, Zenon

(* The updates the operations make to a batch row keep its type.           *)
LEMMA RowEdits ==
    ASSUME NEW r \in Row
    PROVE  /\ \A ids \in SUBSET Ids : [r EXCEPT !.current = ids] \in Row
           /\ \A e \in Ids : [r EXCEPT !.ejected = @ \cup {e}] \in Row
           /\ \A s \in 0 .. MaxCommits :
                [r EXCEPT !.sha = s, !.state = "testing", !.late = FALSE,
                          !.builds = r.builds + 1] \in Row
           /\ [r EXCEPT !.ff = 0] \in Row
           /\ [r EXCEPT !.ff = @ + 1] \in Row
           /\ [r EXCEPT !.landed = r.landed \cup r.current, !.current = {}] \in Row
           /\ [r EXCEPT !.pending = <<>>] \in Row
           /\ \A l, h \in SUBSET Ids :
                [r EXCEPT !.pending = Append(r.pending, h), !.current = l] \in Row
           /\ [r EXCEPT !.state = "forming"] \in Row
           /\ [r EXCEPT !.state = "done", !.current = {}] \in Row
           /\ [r EXCEPT !.late = TRUE] \in Row
           /\ r.pending # <<>> =>
                [r EXCEPT !.current = r.pending[Len(r.pending)],
                          !.pending = SubSeq(r.pending, 1, Len(r.pending) - 1),
                          !.state = "forming"] \in Row
           /\ \A e \in Ids : WithoutMember(r, e) \in Row
<1>1. r.pending \in Seq(SUBSET Ids)
  BY DEF Row
<1>2. ASSUME NEW e \in Ids
      PROVE  WithoutMember(r, e) \in Row
  <2>1. /\ Drop(r.pending, e) \in Seq(SUBSET Ids)
        /\ r.current \ {e} \in SUBSET Ids
        /\ r.ejected \cup {e} \in SUBSET Ids
    BY <1>1, DropType DEF Row
  <2>2. \A c, j \in SUBSET Ids, p \in Seq(SUBSET Ids) :
           [[[r EXCEPT !.current = c] EXCEPT !.pending = p] EXCEPT !.ejected = j]
              \in Row
    BY DEF Row
  <2>3. QED
    BY <2>1, <2>2 DEF WithoutMember
<1>3. ASSUME r.pending # <<>>
      PROVE  [r EXCEPT !.current = r.pending[Len(r.pending)],
                       !.pending = SubSeq(r.pending, 1, Len(r.pending) - 1),
                       !.state = "forming"] \in Row
  <2>1. /\ r.pending[Len(r.pending)] \in SUBSET Ids
        /\ SubSeq(r.pending, 1, Len(r.pending) - 1) \in Seq(SUBSET Ids)
    BY <1>1, <1>3
  <2>2. \A c \in SUBSET Ids, p \in Seq(SUBSET Ids) :
           [[[r EXCEPT !.current = c] EXCEPT !.pending = p] EXCEPT !.state = "forming"]
              \in Row
    BY DEF Row
  <2>3. QED
    BY <2>1, <2>2
<1>4. ASSUME NEW l \in SUBSET Ids, NEW h \in SUBSET Ids
      PROVE  [r EXCEPT !.pending = Append(r.pending, h), !.current = l] \in Row
  <2>1. Append(r.pending, h) \in Seq(SUBSET Ids)
    BY <1>1
  <2>2. \A p \in Seq(SUBSET Ids) :
          [[r EXCEPT !.pending = p] EXCEPT !.current = l] \in Row
    BY DEF Row
  <2>3. QED
    BY <2>1, <2>2
<1>5. \A ids \in SUBSET Ids : [r EXCEPT !.current = ids] \in Row
  BY DEF Row
<1>6. ASSUME NEW e \in Ids
      PROVE  [r EXCEPT !.ejected = @ \cup {e}] \in Row
  <2>1. r.ejected \cup {e} \in SUBSET Ids
    BY DEF Row
  <2>2. \A j \in SUBSET Ids : [r EXCEPT !.ejected = j] \in Row
    BY DEF Row
  <2>3. QED
    BY <2>1, <2>2
<1>7. /\ [r EXCEPT !.ff = 0] \in Row
      /\ [r EXCEPT !.ff = @ + 1] \in Row
  <2>1. 0 \in Nat /\ r.ff + 1 \in Nat
    BY DEF Row
  <2>2. \A n \in Nat : [r EXCEPT !.ff = n] \in Row
    BY DEF Row
  <2>3. QED
    BY <2>1, <2>2
<1>8. [r EXCEPT !.pending = <<>>] \in Row
  <2>1. <<>> \in Seq(SUBSET Ids)
    OBVIOUS
  <2>2. QED
    BY <2>1 DEF Row
<1>9. /\ [r EXCEPT !.state = "forming"] \in Row
      /\ [r EXCEPT !.late = TRUE] \in Row
  BY DEF Row
<1>10. ASSUME NEW s \in 0 .. MaxCommits
      PROVE  [r EXCEPT !.sha = s, !.state = "testing", !.late = FALSE,
                       !.builds = r.builds + 1] \in Row
  <2>1. r.builds + 1 \in Nat
    BY DEF Row
  <2>2. \A n \in Nat :
          [[[[r EXCEPT !.sha = s] EXCEPT !.state = "testing"] EXCEPT !.late = FALSE]
              EXCEPT !.builds = n] \in Row
    BY DEF Row
  <2>3. QED
    BY <2>1, <2>2
<1>11. [r EXCEPT !.landed = r.landed \cup r.current, !.current = {}] \in Row
  <2>1. [[r EXCEPT !.landed = r.landed \cup r.current] EXCEPT !.current = {}] \in Row
    BY DEF Row
  <2>2. QED
    BY <2>1
<1>12. [r EXCEPT !.state = "done", !.current = {}] \in Row
  <2>1. [[r EXCEPT !.state = "done"] EXCEPT !.current = {}] \in Row
    BY DEF Row
  <2>2. QED
    BY <2>1
<1>13. QED
  BY <1>2, <1>3, <1>4, <1>5, <1>10, <1>11, <1>12, <1>6, <1>7, <1>8, <1>9, Zenon

(* An element of a well-typed loop set names an entry whose PR is typed.   *)
LEMMA LeastEntry ==
    ASSUME StoreTypeOK, NEW S \in SUBSET Ids, S # {}
    PROVE  /\ Least(S) \in S /\ Least(S) \in Ids
           /\ entries[Least(S)].pr \in PRs \cup {NoPR}
<1>1. S \in SUBSET Nat
  BY DEF Ids
<1>2. Least(S) \in S
  BY <1>1, LeastType
<1>3. \A x \in Entry : x.pr \in PRs \cup {NoPR}
  BY DEF Entry
<1>4. QED
  BY <1>2, <1>3 DEF StoreTypeOK

(* Taking, keeping and releasing the mutex.                                *)
LEMMA ReleaseType == Release => OpTypeOK'
BY RowNo DEF Release, OpTypeOK, Step, Caller, NoBatch, NoSha

(* Entering the mutex with well-typed arguments keeps the operation well   *)
(* typed.                                                                  *)
LEMMA EnterType ==
    ASSUME NEW w \in Caller, NEW k \in BatchIds, NEW r \in Row, NEW s \in Step,
           NEW ids \in SUBSET Ids, Enter(w, k, r, s, ids)
    PROVE  OpTypeOK'
BY DEF Enter, OpTypeOK, BatchIds, NoSha

(* Going on at another step keeps the operation well typed.                *)
LEMMA GotoType ==
    ASSUME OpTypeOK, NEW r \in Row, NEW s \in Step, NEW ids \in SUBSET Ids,
           Goto(s, r, ids)
    PROVE  OpTypeOK'
BY DEF Goto, OpTypeOK, NoSha

(* Starting to eject members keeps the operation well typed.               *)
LEMMA EjectAllType ==
    ASSUME OpTypeOK, NEW r \in Row, NEW ids \in SUBSET Ids, EjectAll(r, ids)
    PROVE  OpTypeOK'
BY DEF EjectAll, OpTypeOK, NoSha, Step

(* HandleFail keeps operation and entries well typed.                      *)
LEMMA HandleFailType ==
    ASSUME StoreTypeOK, faults \in Nat,
           NEW w \in Caller, NEW k \in 0 .. MaxBatches, NEW r \in Row,
           HandleFail(w, k, r)
    PROVE  OpTypeOK' /\ entries' \in [Ids -> Entry] /\ faults' \in Nat
<1> DEFINE right == r.current \ FirstHalf(r.current)
<1>1. r.current \in SUBSET Ids /\ Flatten(r.pending) \in SUBSET Ids
  <2>1. r.current \in SUBSET Ids /\ r.pending \in Seq(SUBSET Ids)
    BY DEF Row
  <2>2. \A i \in 1 .. Len(r.pending) : r.pending[i] \in SUBSET Ids
    BY <2>1
  <2>3. QED
    BY <2>1, <2>2 DEF Flatten
<1>2. FirstHalf(r.current) \in SUBSET Ids /\ right \in SUBSET Ids
  BY <1>1 DEF FirstHalf
<1>3. /\ [r EXCEPT !.pending = <<>>] \in Row
      /\ [r EXCEPT !.pending = Append(r.pending, right),
                   !.current = FirstHalf(r.current)] \in Row
  BY <1>2, RowEdits
<1>4. b' \in Row
  BY <1>3 DEF HandleFail
<1>5. pc' \in Step /\ by' = w /\ bid' = k /\ keep' = {} /\ built' = NoSha
  BY DEF HandleFail, Step
<1>6. todo' \in SUBSET Ids /\ out' \in SUBSET Ids
  BY <1>1 DEF HandleFail
<1>7. entries' = entries \/ entries' = Unrouted(right)
  BY DEF HandleFail
<1>8. entries' \in [Ids -> Entry]
  BY <1>7, <1>2, TablesType DEF StoreTypeOK
<1>9. faults' = faults \/ faults' = faults + 1
  BY DEF HandleFail
<1>10. QED
  BY <1>4, <1>5, <1>6, <1>8, <1>9 DEF OpTypeOK, BatchIds, NoSha

(* The steps of the operation that holds the mutex.                        *)
LEMMA OperationType ==
    ASSUME TypeOK, Operation
    PROVE  TypeOK'
<1> USE DEF TypeOK
<1>1. ASSUME Build
      PROVE  TypeOK'
  <2>1. ForgeTypeOK'
    <3>1. b.current \in SUBSET Ids
      BY DEF EngineTypeOK, OpTypeOK, Row
    <3>2. ASSUME NEW ids \in SUBSET Ids, StackOnTip(ids), UNCHANGED <<tip, reports>>
          PROVE  ForgeTypeOK'
      BY <3>2 DEF StackOnTip, ForgeTypeOK, Commit, Shas
    <3>3. PICK bad \in SUBSET (b.current \cap Existing) :
             \/ UNCHANGED <<commits, last>>
             \/ StackOnTip((b.current \cap Existing) \ bad)
      BY <1>1 DEF Build
    <3>4. UNCHANGED <<tip, reports>>
      BY <1>1 DEF Build
    <3>5. (b.current \cap Existing) \ bad \in SUBSET Ids
      BY <3>1
    <3>6. QED
      BY <3>2, <3>3, <3>4, <3>5 DEF ForgeTypeOK
  <2>2. StoreTypeOK'
    BY <1>1 DEF Build, StoreTypeOK, storeVars
  <2>3. OpTypeOK'
    <3>1. b.current \in SUBSET Ids /\ last \in Shas
      BY DEF EngineTypeOK, OpTypeOK, Row, ForgeTypeOK
    <3>2. pc' = "sort" /\ keep' = {} /\ UNCHANGED <<by, bid, b>>
      BY <1>1 DEF Build
    <3>3. todo' \in SUBSET Ids /\ out' \in SUBSET Ids
      BY <1>1, <3>1 DEF Build
    <3>4. built' = NoSha \/ (last < MaxCommits /\ built' = last + 1)
      BY <1>1 DEF Build, StackOnTip
    <3>5. built' \in 0 .. MaxCommits
      BY <3>1, <3>4 DEF Shas, NoSha
    <3>6. QED
      BY <3>2, <3>3, <3>5 DEF EngineTypeOK, OpTypeOK, Step
  <2>4. EngineTypeOK'
    BY <1>1, <2>3 DEF Build, EngineTypeOK
  <2>5. QED
    BY <2>1, <2>2, <2>4 DEF TypeOK
<1>2. ASSUME EjectOne
      PROVE  TypeOK'
  <2>1. ForgeTypeOK'
    BY <1>2 DEF EjectOne, ForgeTypeOK, forgeVars
  <2>2. StoreTypeOK'
    <3>1. entries[Least(todo)].pr \in PRs \cup {NoPR}
      BY <1>2, LeastEntry DEF EjectOne, EngineTypeOK, OpTypeOK
    <3>2. /\ entries' \in {entries, Dequeued(entries[Least(todo)].pr)}
          /\ ledger' \in {ledger, LedgerDequeued(entries[Least(todo)].pr)}
          /\ rows' = rows
      BY <1>2 DEF EjectOne
    <3>3. QED
      BY <3>1, <3>2, TablesType DEF StoreTypeOK
  <2>3. OpTypeOK'
    <3>1. Least(todo) \in Ids
      BY <1>2, LeastEntry DEF EjectOne, EngineTypeOK, OpTypeOK
    <3>2. b' = [b EXCEPT !.ejected = @ \cup {Least(todo)}]
      BY <1>2 DEF EjectOne
    <3>3. b' \in Row
      BY <3>1, <3>2, RowEdits DEF EngineTypeOK, OpTypeOK
    <3>4. todo' \subseteq todo /\ UNCHANGED <<pc, by, bid, keep, out, built>>
      BY <1>2 DEF EjectOne
    <3>5. QED
      BY <3>3, <3>4 DEF EngineTypeOK, OpTypeOK
  <2>4. EngineTypeOK'
    <3>1. faults' \in {faults, faults + 1} /\ UNCHANGED <<calls, removing, dirty>>
      BY <1>2 DEF EjectOne
    <3>2. QED
      BY <2>3, <3>1 DEF EngineTypeOK
  <2>5. QED
    BY <2>1, <2>2, <2>4 DEF TypeOK
<1>3. ASSUME KeepOne
      PROVE  TypeOK'
  <2>1. ForgeTypeOK'
    BY <1>3 DEF KeepOne, ForgeTypeOK, forgeVars
  <2>2. StoreTypeOK'
    BY <1>3 DEF KeepOne, StoreTypeOK, storeVars
  <2>3. OpTypeOK'
    <3>1. Least(todo) \in Ids
      BY <1>3, LeastEntry DEF KeepOne, EngineTypeOK, OpTypeOK
    <3>2. QED
      BY <1>3, <3>1 DEF KeepOne, EngineTypeOK, OpTypeOK
  <2>4. EngineTypeOK'
    BY <1>3, <2>3 DEF KeepOne, EngineTypeOK
  <2>5. QED
    BY <2>1, <2>2, <2>4 DEF TypeOK
<1>4. ASSUME Sorted
      PROVE  TypeOK'
  <2>1. ForgeTypeOK'
    BY <1>4 DEF Sorted, ForgeTypeOK, forgeVars
  <2>2. StoreTypeOK'
    BY <1>4 DEF Sorted, StoreTypeOK, storeVars
  <2>3. OpTypeOK'
    <3>1. b' \in Row
      BY <1>4, RowEdits DEF Sorted, EngineTypeOK, OpTypeOK
    <3>2. QED
      BY <1>4, <3>1 DEF Sorted, EngineTypeOK, OpTypeOK, Step
  <2>4. EngineTypeOK'
    BY <1>4, <2>3 DEF Sorted, EngineTypeOK
  <2>5. QED
    BY <2>1, <2>2, <2>4 DEF TypeOK
<1>5. ASSUME SaveTesting
      PROVE  TypeOK'
  <2>1. ForgeTypeOK'
    BY <1>5 DEF SaveTesting, ForgeTypeOK, forgeVars
  <2>2. StoreTypeOK'
    <3>1. [b EXCEPT !.sha = built, !.state = "testing", !.late = FALSE,
                    !.builds = b.builds + 1] \in Row
      BY RowEdits DEF EngineTypeOK, OpTypeOK
    <3>2. QED
      BY <1>5, <3>1 DEF SaveTesting, StoreTypeOK
  <2>3. OpTypeOK'
    <3>1. [b EXCEPT !.sha = built, !.state = "testing", !.late = FALSE,
                    !.builds = b.builds + 1] \in Row
      BY RowEdits DEF EngineTypeOK, OpTypeOK
    <3>2. b.current \in SUBSET Ids /\ OpTypeOK
      BY DEF EngineTypeOK, OpTypeOK, Row
    <3>3. QED
      BY <1>5, <3>1, <3>2, GotoType DEF SaveTesting, Step
  <2>4. EngineTypeOK'
    BY <1>5, <2>3 DEF SaveTesting, EngineTypeOK
  <2>5. QED
    BY <2>1, <2>2, <2>4 DEF TypeOK
<1>6. ASSUME StampOne
      PROVE  TypeOK'
  <2>1. ForgeTypeOK'
    BY <1>6 DEF StampOne, ForgeTypeOK, forgeVars
  <2>2. StoreTypeOK'
    <3>1. entries[Least(todo)].pr \in PRs \cup {NoPR}
      BY <1>6, LeastEntry DEF StampOne, EngineTypeOK, OpTypeOK
    <3>2. b.sha \in 0 .. MaxCommits
      BY DEF EngineTypeOK, OpTypeOK, Row
    <3>3. /\ entries' \in {entries, Stamped(entries[Least(todo)].pr, b.sha)}
          /\ UNCHANGED <<ledger, rows>>
      BY <1>6 DEF StampOne
    <3>4. Stamped(entries[Least(todo)].pr, b.sha) \in [Ids -> Entry]
      BY <3>1, <3>2, TablesType
    <3>5. QED
      BY <3>3, <3>4 DEF StoreTypeOK
  <2>3. OpTypeOK'
    <3>1. todo' \subseteq todo /\ UNCHANGED <<pc, by, bid, b, keep, out, built>>
      BY <1>6 DEF StampOne
    <3>2. QED
      BY <3>1 DEF EngineTypeOK, OpTypeOK
  <2>4. EngineTypeOK'
    <3>1. faults' \in {faults, faults + 1} /\ UNCHANGED <<calls, removing, dirty>>
      BY <1>6 DEF StampOne
    <3>2. QED
      BY <2>3, <3>1 DEF EngineTypeOK
  <2>5. QED
    BY <2>1, <2>2, <2>4 DEF TypeOK
<1>7. ASSUME AllStamped
      PROVE  TypeOK'
  <2>1. ForgeTypeOK'
    BY <1>7 DEF AllStamped, ForgeTypeOK, forgeVars
  <2>2. StoreTypeOK'
    BY <1>7 DEF AllStamped, StoreTypeOK, storeVars
  <2>3. OpTypeOK'
    BY <1>7 DEF AllStamped, EngineTypeOK, OpTypeOK, Step
  <2>4. EngineTypeOK'
    BY <1>7, <2>3 DEF AllStamped, EngineTypeOK
  <2>5. QED
    BY <2>1, <2>2, <2>4 DEF TypeOK
<1>8. ASSUME ClearLedger
      PROVE  TypeOK'
  <2>1. ForgeTypeOK'
    BY <1>8 DEF ClearLedger, ForgeTypeOK, forgeVars
  <2>2. StoreTypeOK'
    <3>1. b.current \in SUBSET Ids
      BY DEF EngineTypeOK, OpTypeOK, Row
    <3>2. ledger' \in {ledger, LedgerCleared(b.current)} /\ UNCHANGED <<entries, rows>>
      BY <1>8 DEF ClearLedger
    <3>3. QED
      BY <3>1, <3>2, TablesType DEF StoreTypeOK
  <2>3. OpTypeOK'
    BY <1>8, ReleaseType DEF ClearLedger
  <2>4. EngineTypeOK'
    <3>1. faults' \in {faults, faults + 1} /\ UNCHANGED <<calls, removing>>
      BY <1>8 DEF ClearLedger
    <3>2. dirty' \in BOOLEAN
      BY <1>8 DEF ClearLedger, EngineTypeOK
    <3>3. QED
      BY <2>3, <3>1, <3>2 DEF EngineTypeOK
  <2>5. QED
    BY <2>1, <2>2, <2>4 DEF TypeOK
<1>9. ASSUME EvaluatePass
      PROVE  TypeOK'
  <2>1. ForgeTypeOK'
    BY <1>9 DEF EvaluatePass, ForgeTypeOK, forgeVars
  <2>2. StoreTypeOK'
    BY <1>9 DEF EvaluatePass, StoreTypeOK, storeVars
  <2>3. OpTypeOK'
    BY <1>9, GotoType DEF EvaluatePass, EngineTypeOK, OpTypeOK, Step
  <2>4. EngineTypeOK'
    BY <1>9, <2>3 DEF EvaluatePass, EngineTypeOK
  <2>5. QED
    BY <2>1, <2>2, <2>4 DEF TypeOK
<1>10. ASSUME EvaluateWait
      PROVE  TypeOK'
  <2>1. ForgeTypeOK'
    BY <1>10 DEF EvaluateWait, ForgeTypeOK, forgeVars
  <2>2. StoreTypeOK'
    BY <1>10 DEF EvaluateWait, StoreTypeOK, storeVars
  <2>3. OpTypeOK'
    BY <1>10, ReleaseType DEF EvaluateWait
  <2>4. EngineTypeOK'
    BY <1>10, <2>3 DEF EvaluateWait, EngineTypeOK
  <2>5. QED
    BY <2>1, <2>2, <2>4 DEF TypeOK
<1>11. ASSUME EvaluateFail
      PROVE  TypeOK'
  <2>1. ForgeTypeOK'
    BY <1>11 DEF EvaluateFail, ForgeTypeOK, forgeVars
  <2>2. StoreTypeOK'
    <3>1. entries' \in [Ids -> Entry]
      BY <1>11, HandleFailType DEF EvaluateFail, EngineTypeOK, OpTypeOK
    <3>2. QED
      BY <1>11, <3>1 DEF EvaluateFail, StoreTypeOK
  <2>3. OpTypeOK'
    BY <1>11, HandleFailType DEF EvaluateFail, EngineTypeOK, OpTypeOK
  <2>4. EngineTypeOK'
    <3>1. faults' \in Nat
      BY <1>11, HandleFailType DEF EvaluateFail, EngineTypeOK, OpTypeOK
    <3>2. QED
      BY <1>11, <2>3, <3>1 DEF EvaluateFail, EngineTypeOK
  <2>5. QED
    BY <2>1, <2>2, <2>4 DEF TypeOK
<1>12. ASSUME FastForward
      PROVE  TypeOK'
  <2>1. ForgeTypeOK'
    BY <1>12 DEF FastForward, CanFastForward, ForgeTypeOK
  <2>2. StoreTypeOK'
    BY <1>12 DEF FastForward, StoreTypeOK, storeVars
  <2>3. OpTypeOK'
    <3>1. [b EXCEPT !.ff = 0] \in Row /\ b.current \cap Existing \in SUBSET Ids
      BY RowEdits DEF EngineTypeOK, OpTypeOK, Existing
    <3>2. QED
      BY <1>12, <3>1, GotoType DEF FastForward, EngineTypeOK, Step
  <2>4. EngineTypeOK'
    BY <1>12, <2>3 DEF FastForward, EngineTypeOK
  <2>5. QED
    BY <2>1, <2>2, <2>4 DEF TypeOK
<1>13. ASSUME FastForwardRaced
      PROVE  TypeOK'
  <2>1. ForgeTypeOK'
    BY <1>13 DEF FastForwardRaced, ForgeTypeOK, forgeVars
  <2>2. StoreTypeOK'
    BY <1>13 DEF FastForwardRaced, StoreTypeOK, storeVars
  <2>3. OpTypeOK'
    <3> DEFINE r == [b EXCEPT !.ff = @ + 1]
    <3>1. r \in Row
      BY RowEdits DEF EngineTypeOK, OpTypeOK
    <3>2. r.current \in SUBSET Ids
      BY <3>1 DEF Row
    <3>3. Goto("rebuild", r, {}) \/ EjectAll(r, r.current)
      BY <1>13 DEF FastForwardRaced
    <3>4. QED
      BY <3>1, <3>2, <3>3, GotoType, EjectAllType DEF EngineTypeOK, Step
  <2>4. EngineTypeOK'
    BY <1>13, <2>3 DEF FastForwardRaced, EngineTypeOK
  <2>5. QED
    BY <2>1, <2>2, <2>4 DEF TypeOK
<1>14. ASSUME FastForwardDenied
      PROVE  TypeOK'
  <2>1. ForgeTypeOK'
    BY <1>14 DEF FastForwardDenied, ForgeTypeOK, forgeVars
  <2>2. StoreTypeOK'
    BY <1>14 DEF FastForwardDenied, StoreTypeOK, storeVars
  <2>3. OpTypeOK'
    <3>1. b \in Row /\ b.current \in SUBSET Ids
      BY DEF EngineTypeOK, OpTypeOK, Row
    <3>2. QED
      BY <1>14, <3>1, EjectAllType DEF FastForwardDenied, EngineTypeOK
  <2>4. EngineTypeOK'
    BY <1>14, <2>3 DEF FastForwardDenied, EngineTypeOK
  <2>5. QED
    BY <2>1, <2>2, <2>4 DEF TypeOK
<1>15. ASSUME LandOne
      PROVE  TypeOK'
  <2>1. ForgeTypeOK'
    BY <1>15 DEF LandOne, ForgeTypeOK, forgeVars
  <2>2. StoreTypeOK'
    <3>1. entries[Least(todo)].pr \in PRs \cup {NoPR}
      BY <1>15, LeastEntry DEF LandOne, EngineTypeOK, OpTypeOK
    <3>2. /\ entries' \in {entries, Dequeued(entries[Least(todo)].pr)}
          /\ ledger' \in {ledger, LedgerDequeued(entries[Least(todo)].pr)}
          /\ rows' = rows
      BY <1>15 DEF LandOne
    <3>3. QED
      BY <3>1, <3>2, TablesType DEF StoreTypeOK
  <2>3. OpTypeOK'
    <3>1. todo' \subseteq todo /\ UNCHANGED <<pc, by, bid, b, keep, out, built>>
      BY <1>15 DEF LandOne
    <3>2. QED
      BY <3>1 DEF EngineTypeOK, OpTypeOK
  <2>4. EngineTypeOK'
    <3>1. faults' \in {faults, faults + 1} /\ UNCHANGED <<calls, removing, dirty>>
      BY <1>15 DEF LandOne
    <3>2. QED
      BY <2>3, <3>1 DEF EngineTypeOK
  <2>5. QED
    BY <2>1, <2>2, <2>4 DEF TypeOK
<1>16. ASSUME Settle
      PROVE  TypeOK'
  <2>1. ForgeTypeOK'
    BY <1>16 DEF Settle, ForgeTypeOK, forgeVars
  <2>2. StoreTypeOK'
    BY <1>16 DEF Settle, StoreTypeOK, storeVars
  <2>3. OpTypeOK'
    <3>1. [b EXCEPT !.landed = b.landed \cup b.current, !.current = {}] \in Row
      BY RowEdits DEF EngineTypeOK, OpTypeOK
    <3>2. QED
      BY <1>16, <3>1, GotoType DEF Settle, EngineTypeOK, Step
  <2>4. EngineTypeOK'
    BY <1>16, <2>3 DEF Settle, EngineTypeOK
  <2>5. QED
    BY <2>1, <2>2, <2>4 DEF TypeOK
<1>17. ASSUME Rebuild
      PROVE  TypeOK'
  <2>1. ForgeTypeOK'
    BY <1>17 DEF Rebuild, ForgeTypeOK, forgeVars
  <2>2. StoreTypeOK'
    <3>1. [b EXCEPT !.state = "forming"] \in Row
      BY RowEdits DEF EngineTypeOK, OpTypeOK
    <3>2. QED
      BY <1>17, <3>1 DEF Rebuild, StoreTypeOK
  <2>3. OpTypeOK'
    <3>1. [b EXCEPT !.state = "forming"] \in Row
      BY RowEdits DEF EngineTypeOK, OpTypeOK
    <3>2. QED
      BY <1>17, <3>1, GotoType DEF Rebuild, EngineTypeOK, Step
  <2>4. EngineTypeOK'
    BY <1>17, <2>3 DEF Rebuild, EngineTypeOK
  <2>5. QED
    BY <2>1, <2>2, <2>4 DEF TypeOK
<1>18. ASSUME NextSlice
      PROVE  TypeOK'
  <2>1. ForgeTypeOK'
    BY <1>18 DEF NextSlice, ForgeTypeOK, forgeVars
  <2>2. StoreTypeOK'
    <3>1. [b EXCEPT !.current = b.pending[Len(b.pending)],
                    !.pending = SubSeq(b.pending, 1, Len(b.pending) - 1),
                    !.state = "forming"] \in Row
      BY <1>18, RowEdits DEF NextSlice, EngineTypeOK, OpTypeOK
    <3>2. QED
      BY <1>18, <3>1 DEF NextSlice, StoreTypeOK
  <2>3. OpTypeOK'
    <3>1. [b EXCEPT !.current = b.pending[Len(b.pending)],
                    !.pending = SubSeq(b.pending, 1, Len(b.pending) - 1),
                    !.state = "forming"] \in Row
      BY <1>18, RowEdits DEF NextSlice, EngineTypeOK, OpTypeOK
    <3>2. QED
      BY <1>18, <3>1, GotoType DEF NextSlice, EngineTypeOK, Step
  <2>4. EngineTypeOK'
    BY <1>18, <2>3 DEF NextSlice, EngineTypeOK
  <2>5. QED
    BY <2>1, <2>2, <2>4 DEF TypeOK
<1>19. ASSUME Finish
      PROVE  TypeOK'
  <2>1. ForgeTypeOK'
    BY <1>19 DEF Finish, ForgeTypeOK, forgeVars
  <2>2. StoreTypeOK'
    <3>1. [b EXCEPT !.state = "done", !.current = {}] \in Row
      BY RowEdits DEF EngineTypeOK, OpTypeOK
    <3>2. QED
      BY <1>19, <3>1 DEF Finish, StoreTypeOK
  <2>3. OpTypeOK'
    BY <1>19, ReleaseType DEF Finish
  <2>4. EngineTypeOK'
    BY <1>19, <2>3 DEF Finish, EngineTypeOK
  <2>5. QED
    BY <2>1, <2>2, <2>4 DEF TypeOK
<1>20. ASSUME ReconcileDone
      PROVE  TypeOK'
  <2>1. ForgeTypeOK'
    BY <1>20 DEF ReconcileDone, ForgeTypeOK, forgeVars
  <2>2. StoreTypeOK'
    BY <1>20 DEF ReconcileDone, StoreTypeOK, storeVars
  <2>3. OpTypeOK'
    BY <1>20, ReleaseType DEF ReconcileDone
  <2>4. EngineTypeOK'
    BY <1>20, <2>3 DEF ReconcileDone, EngineTypeOK
  <2>5. QED
    BY <2>1, <2>2, <2>4 DEF TypeOK
<1>21. ASSUME NEW k \in BatchIds, ReconcileForming(k)
      PROVE  TypeOK'
  <2>1. ForgeTypeOK'
    BY <1>21 DEF ReconcileForming, ForgeTypeOK, forgeVars
  <2>2. StoreTypeOK'
    BY <1>21 DEF ReconcileForming, StoreTypeOK, storeVars
  <2>3. OpTypeOK'
    BY <1>21, EnterType DEF ReconcileForming, StoreTypeOK, Caller, Step
  <2>4. EngineTypeOK'
    BY <1>21, <2>3 DEF ReconcileForming, EngineTypeOK
  <2>5. QED
    BY <2>1, <2>2, <2>4 DEF TypeOK
<1>22. ASSUME NEW k \in BatchIds, ReconcileTesting(k)
      PROVE  TypeOK'
  <2>1. ForgeTypeOK'
    BY <1>22 DEF ReconcileTesting, ForgeTypeOK, forgeVars
  <2>2. StoreTypeOK'
    BY <1>22 DEF ReconcileTesting, StoreTypeOK, storeVars
  <2>3. OpTypeOK'
    <3>1. rows[k] \in Row /\ rows[k].current \cap Existing \in SUBSET Ids
      BY DEF StoreTypeOK, Existing
    <3>2. QED
      BY <1>22, <3>1, EnterType DEF ReconcileTesting, Caller, Step
  <2>4. EngineTypeOK'
    BY <1>22, <2>3 DEF ReconcileTesting, EngineTypeOK
  <2>5. QED
    BY <2>1, <2>2, <2>4 DEF TypeOK
<1>23. QED
  BY <1>1, <1>2, <1>3, <1>4, <1>5, <1>6, <1>7, <1>8, <1>9, <1>10, <1>11,
     <1>12, <1>13, <1>14, <1>15, <1>16, <1>17, <1>18, <1>19, <1>20, <1>21,
        <1>22 DEF Operation

(* The entry points.                                                       *)
LEMMA EntryPointType ==
    ASSUME TypeOK, EntryPoint
    PROVE  TypeOK'
<1> USE DEF TypeOK
<1>1. ASSUME NEW k \in BatchIds, FormBatch(k)
      PROVE  TypeOK'
  <2>1. ForgeTypeOK'
    BY <1>1 DEF FormBatch, ForgeTypeOK, forgeVars
  <2>2. StoreTypeOK'
    <3>1. TakeQueuedHead \in SUBSET Ids
      BY DEF TakeQueuedHead
    <3>2. QED
      BY <1>1, <3>1, TablesType DEF FormBatch, StoreTypeOK
  <2>3. OpTypeOK'
    <3>1. TakeQueuedHead \in SUBSET Ids
      BY DEF TakeQueuedHead
    <3>2. QED
      BY <1>1, <3>1, TablesType, EnterType DEF FormBatch, Caller, Step
  <2>4. EngineTypeOK'
    BY <1>1, <2>3 DEF FormBatch, EngineTypeOK
  <2>5. QED
    BY <2>1, <2>2, <2>4 DEF TypeOK
<1>2. ASSUME NEW k \in BatchIds, RetryForming(k)
      PROVE  TypeOK'
  <2>1. ForgeTypeOK'
    BY <1>2 DEF RetryForming, ForgeTypeOK, forgeVars
  <2>2. StoreTypeOK'
    BY <1>2 DEF RetryForming, StoreTypeOK, storeVars
  <2>3. OpTypeOK'
    BY <1>2, EnterType DEF RetryForming, StoreTypeOK, Caller, Step
  <2>4. EngineTypeOK'
    BY <1>2, <2>3 DEF RetryForming, EngineTypeOK
  <2>5. QED
    BY <2>1, <2>2, <2>4 DEF TypeOK
<1>3. ASSUME NEW k \in BatchIds, HandleTimeout(k)
      PROVE  TypeOK'
  <2>1. ForgeTypeOK'
    BY <1>3 DEF HandleTimeout, ForgeTypeOK, forgeVars
  <2>2. StoreTypeOK'
    <3>1. entries' \in [Ids -> Entry]
      BY <1>3, HandleFailType DEF HandleTimeout, EngineTypeOK, StoreTypeOK,
         Caller, BatchIds
    <3>2. QED
      BY <1>3, <3>1 DEF HandleTimeout, StoreTypeOK
  <2>3. OpTypeOK'
    BY <1>3, HandleFailType DEF HandleTimeout, EngineTypeOK, StoreTypeOK,
       Caller, BatchIds
  <2>4. EngineTypeOK'
    <3>1. faults' \in Nat
      BY <1>3, HandleFailType DEF HandleTimeout, EngineTypeOK, StoreTypeOK,
         Caller, BatchIds
    <3>2. QED
      BY <1>3, <2>3, <3>1 DEF HandleTimeout, EngineTypeOK
  <2>5. QED
    BY <2>1, <2>2, <2>4 DEF TypeOK
<1>4. ASSUME NEW c \in calls, DropCheck(c)
      PROVE  TypeOK'
  <2>1. ForgeTypeOK'
    BY <1>4 DEF DropCheck, ForgeTypeOK, forgeVars
  <2>2. StoreTypeOK'
    BY <1>4 DEF DropCheck, StoreTypeOK, storeVars
  <2>3. OpTypeOK'
    BY <1>4 DEF DropCheck, EngineTypeOK, OpTypeOK, opVars
  <2>4. EngineTypeOK'
    BY <1>4, <2>3 DEF DropCheck, EngineTypeOK, opVars
  <2>5. QED
    BY <2>1, <2>2, <2>4 DEF TypeOK
<1>5. ASSUME NEW c \in calls, SaveCheck(c)
      PROVE  TypeOK'
  <2>1. ForgeTypeOK'
    BY <1>5 DEF SaveCheck, ForgeTypeOK, forgeVars
  <2>2. StoreTypeOK'
    <3>1. c \in Call
      BY DEF EngineTypeOK
    <3>2. c.id \in Ids /\ c.ctx \in Contexts /\ c.state \in ReportStates
      BY <3>1 DEF Call
    <3>3. QED
      BY <1>5, <3>2 DEF SaveCheck, StoreTypeOK
  <2>3. OpTypeOK'
    <3>1. c \in Call
      BY DEF EngineTypeOK
    <3>2. c.by \in Caller /\ c.batch \in BatchIds /\ c.id \in Ids
      BY <3>1 DEF Call, Caller
    <3>3. rows[c.batch] \in Row /\ {c.id} \in SUBSET Ids /\ "eval" \in Step
      BY <3>2 DEF StoreTypeOK, Step
    <3>4. QED
      BY <1>5, <3>2, <3>3, EnterType DEF SaveCheck
  <2>4. EngineTypeOK'
    BY <1>5, <2>3 DEF SaveCheck, EngineTypeOK
  <2>5. QED
    BY <2>1, <2>2, <2>4 DEF TypeOK
<1>6. ASSUME RemovedTooLate
      PROVE  TypeOK'
  <2>1. ForgeTypeOK'
    BY <1>6 DEF RemovedTooLate, ForgeTypeOK, forgeVars
  <2>2. StoreTypeOK'
    BY <1>6 DEF RemovedTooLate, StoreTypeOK, storeVars
  <2>3. OpTypeOK'
    BY <1>6 DEF RemovedTooLate, EngineTypeOK, OpTypeOK, opVars
  <2>4. EngineTypeOK'
    BY <1>6, <2>3 DEF RemovedTooLate, EngineTypeOK, NoRemoval, Removal, NoBatch
  <2>5. QED
    BY <2>1, <2>2, <2>4 DEF TypeOK
<1>7. ASSUME RemovedPending
      PROVE  TypeOK'
  <2>1. ForgeTypeOK'
    BY <1>7 DEF RemovedPending, ForgeTypeOK, forgeVars
  <2>2. StoreTypeOK'
    <3>1. removing.id \in Ids /\ removing.batch \in BatchIds
      BY <1>7 DEF RemovedPending, EngineTypeOK, Removal
    <3>2. WithoutMember(rows[removing.batch], removing.id) \in Row
      BY <3>1, RowEdits DEF StoreTypeOK
    <3>3. QED
      BY <1>7, <3>2 DEF RemovedPending, StoreTypeOK
  <2>3. OpTypeOK'
    BY <1>7 DEF RemovedPending, EngineTypeOK, OpTypeOK, opVars
  <2>4. EngineTypeOK'
    BY <1>7, <2>3 DEF RemovedPending, EngineTypeOK, NoRemoval, Removal, NoBatch
  <2>5. QED
    BY <2>1, <2>2, <2>4 DEF TypeOK
<1>8. ASSUME RemovedCurrent
      PROVE  TypeOK'
  <2>1. ForgeTypeOK'
    BY <1>8 DEF RemovedCurrent, ForgeTypeOK, forgeVars
  <2>2. StoreTypeOK'
    BY <1>8 DEF RemovedCurrent, StoreTypeOK, storeVars
  <2>3. OpTypeOK'
    <3>1. removing.id \in Ids /\ removing.batch \in BatchIds
      BY <1>8 DEF RemovedCurrent, EngineTypeOK, Removal
    <3>2. WithoutMember(rows[removing.batch], removing.id) \in Row
      BY <3>1, RowEdits DEF StoreTypeOK
    <3>3. QED
      BY <1>8, <3>1, <3>2, EnterType DEF RemovedCurrent, Caller, Step
  <2>4. EngineTypeOK'
    BY <1>8, <2>3 DEF RemovedCurrent, EngineTypeOK, NoRemoval, Removal, NoBatch
  <2>5. QED
    BY <2>1, <2>2, <2>4 DEF TypeOK
<1>9. QED
  BY <1>1, <1>2, <1>3, <1>4, <1>5, <1>6, <1>7, <1>8 DEF EntryPoint

(* Everybody else.                                                         *)
LEMMA OthersType ==
    ASSUME TypeOK, World \/ Environment \/ Fault
    PROVE  TypeOK'
<1> USE DEF TypeOK
<1>1. ASSUME TargetPush /\ UNCHANGED <<storeVars, opVars, calls, removing, faults, dirty>>
      PROVE  TypeOK'
  <2>1. ForgeTypeOK'
    BY <1>1 DEF TargetPush, ForgeTypeOK, Commit, Shas
  <2>2. StoreTypeOK'
    BY <1>1 DEF StoreTypeOK, storeVars
  <2>3. OpTypeOK'
    BY <1>1 DEF EngineTypeOK, OpTypeOK, opVars
  <2>4. EngineTypeOK'
    BY <1>1, <2>3 DEF EngineTypeOK
  <2>5. QED
    BY <2>1, <2>2, <2>4 DEF TypeOK
<1>2. ASSUME NEW s \in Shas, NEW c \in Contexts, NEW st \in ReportStates,
              CIReport(s, c, st) /\ UNCHANGED <<storeVars, opVars, calls, removing, faults, dirty>>
      PROVE  TypeOK'
  <2>1. ForgeTypeOK'
    <3>1. Append(reports[s][c], st) \in Seq(ReportStates)
      BY DEF ForgeTypeOK
    <3>2. QED
      BY <1>2, <3>1 DEF CIReport, ForgeTypeOK
  <2>2. StoreTypeOK'
    BY <1>2 DEF StoreTypeOK, storeVars
  <2>3. OpTypeOK'
    BY <1>2 DEF EngineTypeOK, OpTypeOK, opVars
  <2>4. EngineTypeOK'
    BY <1>2, <2>3 DEF EngineTypeOK
  <2>5. QED
    BY <2>1, <2>2, <2>4 DEF TypeOK
<1>3. ASSUME NEW p \in PRs, NEW e \in Ids, Enqueue(p, e)
      PROVE  TypeOK'
  <2>1. ForgeTypeOK'
    BY <1>3 DEF Enqueue, ForgeTypeOK, forgeVars
  <2>2. StoreTypeOK'
    BY <1>3, TablesType DEF Enqueue, StoreTypeOK
  <2>3. OpTypeOK'
    BY <1>3 DEF Enqueue, EngineTypeOK, OpTypeOK, opVars
  <2>4. EngineTypeOK'
    BY <1>3, <2>3 DEF Enqueue, EngineTypeOK, opVars
  <2>5. QED
    BY <2>1, <2>2, <2>4 DEF TypeOK
<1>4. ASSUME PromoteHead
      PROVE  TypeOK'
  <2>1. ForgeTypeOK'
    BY <1>4 DEF PromoteHead, ForgeTypeOK, forgeVars
  <2>2. StoreTypeOK'
    <3>1. \A x \in Entry : [x EXCEPT !.state = "success"] \in Entry
      BY DEF Entry
    <3>2. QED
      BY <1>4, <3>1 DEF PromoteHead, StoreTypeOK
  <2>3. OpTypeOK'
    BY <1>4 DEF PromoteHead, EngineTypeOK, OpTypeOK, opVars
  <2>4. EngineTypeOK'
    BY <1>4, <2>3 DEF PromoteHead, EngineTypeOK, opVars
  <2>5. QED
    BY <2>1, <2>2, <2>4 DEF TypeOK
<1>5. ASSUME NEW e \in Ids, RemoveEntry(e)
      PROVE  TypeOK'
  <2>1. ForgeTypeOK'
    BY <1>5 DEF RemoveEntry, ForgeTypeOK, forgeVars
  <2>2. StoreTypeOK'
    <3>1. entries[e].pr \in PRs \cup {NoPR}
      BY DEF StoreTypeOK, Entry
    <3>2. QED
      BY <1>5, <3>1, TablesType DEF RemoveEntry, StoreTypeOK
  <2>3. OpTypeOK'
    BY <1>5 DEF RemoveEntry, EngineTypeOK, OpTypeOK, opVars
  <2>4. EngineTypeOK'
    <3>1. entries[e].batch # NoBatch => entries[e].batch \in BatchIds
      BY DEF StoreTypeOK, Entry, BatchIds, NoBatch
    <3>2. removing' \in Removal \cup {NoRemoval}
      BY <1>5, <3>1 DEF RemoveEntry, Removal
    <3>3. QED
      BY <1>5, <2>3, <3>2 DEF RemoveEntry, EngineTypeOK
  <2>5. QED
    BY <2>1, <2>2, <2>4 DEF TypeOK
<1>6. ASSUME NEW s \in Shas, NEW c \in Contexts, NEW st \in ReportStates, Webhook(s, c, st)
      PROVE  TypeOK'
  <2>1. ForgeTypeOK'
    BY <1>6 DEF Webhook, ForgeTypeOK, forgeVars
  <2>2. StoreTypeOK'
    BY <1>6 DEF Webhook, StoreTypeOK, storeVars
  <2>3. OpTypeOK'
    BY <1>6 DEF Webhook, EngineTypeOK, OpTypeOK, opVars
  <2>4. EngineTypeOK'
    <3>1. PICK e \in FindEntryForCommit(s) :
             /\ entries[e].batch # NoBatch
             /\ calls' = calls \cup
                  {[by |-> "webhook", id |-> e, batch |-> entries[e].batch,
                    sha |-> s, ctx |-> c, state |-> st]}
      BY <1>6 DEF Webhook
    <3>2. e \in Ids /\ entries[e].batch \in BatchIds
      BY <3>1 DEF FindEntryForCommit, Existing, StoreTypeOK, Entry, BatchIds,
         NoBatch
    <3>3. calls' \subseteq Call
      BY <3>1, <3>2 DEF EngineTypeOK, Call
    <3>4. QED
      BY <1>6, <2>3, <3>3 DEF Webhook, EngineTypeOK
  <2>5. QED
    BY <2>1, <2>2, <2>4 DEF TypeOK
<1>7. ASSUME NEW k \in BatchIds, PollChecks(k)
      PROVE  TypeOK'
  <2>1. ForgeTypeOK'
    BY <1>7 DEF PollChecks, ForgeTypeOK, forgeVars
  <2>2. StoreTypeOK'
    BY <1>7 DEF PollChecks, StoreTypeOK, storeVars
  <2>3. OpTypeOK'
    BY <1>7 DEF PollChecks, EngineTypeOK, OpTypeOK, opVars
  <2>4. EngineTypeOK'
    <3> DEFINE s == rows[k].sha
               known == {c \in Contexts : reports[s][c] # <<>>}
               e == Least(rows[k].current)
    <3>0. rows[k].current \in SUBSET Ids /\ s \in 0 .. MaxCommits
      BY DEF StoreTypeOK, Row
    <3>1. rows[k].current \in SUBSET Ids /\ s \in Shas
      BY <1>7, <3>0 DEF PollChecks, Shas, NoSha
    <3>2. e \in Ids
      BY <1>7, <3>1, LeastEntry DEF PollChecks
    <3>3. \A c \in known : reports[s][c][Len(reports[s][c])] \in ReportStates
      BY <3>1 DEF ForgeTypeOK
    <3>4. calls' = calls \cup
                     {[by |-> "poller", id |-> e, batch |-> k, sha |-> s, ctx |-> c,
                       state |-> reports[s][c][Len(reports[s][c])]] : c \in known}
      BY <1>7 DEF PollChecks
    <3>5. \A c \in known :
            [by |-> "poller", id |-> e, batch |-> k, sha |-> s, ctx |-> c,
             state |-> reports[s][c][Len(reports[s][c])]] \in Call
      BY <3>1, <3>2, <3>3 DEF Call
    <3>6. calls' \subseteq Call
      BY <3>4, <3>5 DEF EngineTypeOK
    <3>7. QED
      BY <1>7, <2>3, <3>6 DEF PollChecks, EngineTypeOK
  <2>5. QED
    BY <2>1, <2>2, <2>4 DEF TypeOK
<1>8. ASSUME NEW k \in BatchIds, ClockPasses(k)
      PROVE  TypeOK'
  <2>1. ForgeTypeOK'
    BY <1>8 DEF ClockPasses, ForgeTypeOK, forgeVars
  <2>2. StoreTypeOK'
    <3>1. [rows[k] EXCEPT !.late = TRUE] \in Row
      BY RowEdits DEF StoreTypeOK
    <3>2. QED
      BY <1>8, <3>1 DEF ClockPasses, StoreTypeOK
  <2>3. OpTypeOK'
    BY <1>8 DEF ClockPasses, EngineTypeOK, OpTypeOK, opVars
  <2>4. EngineTypeOK'
    BY <1>8, <2>3 DEF ClockPasses, EngineTypeOK, opVars
  <2>5. QED
    BY <2>1, <2>2, <2>4 DEF TypeOK
<1>9. ASSUME Abort
      PROVE  TypeOK'
  <2>1. ForgeTypeOK'
    BY <1>9 DEF Abort, ForgeTypeOK, forgeVars
  <2>2. StoreTypeOK'
    BY <1>9 DEF Abort, StoreTypeOK, storeVars
  <2>3. OpTypeOK'
    BY <1>9, ReleaseType DEF Abort
  <2>4. EngineTypeOK'
    BY <1>9, <2>3 DEF Abort, EngineTypeOK
  <2>5. QED
    BY <2>1, <2>2, <2>4 DEF TypeOK
<1>10. ASSUME AbortRemoval
      PROVE  TypeOK'
  <2>1. ForgeTypeOK'
    BY <1>10 DEF AbortRemoval, ForgeTypeOK, forgeVars
  <2>2. StoreTypeOK'
    BY <1>10 DEF AbortRemoval, StoreTypeOK, storeVars
  <2>3. OpTypeOK'
    BY <1>10 DEF AbortRemoval, EngineTypeOK, OpTypeOK, opVars
  <2>4. EngineTypeOK'
    BY <1>10, <2>3 DEF AbortRemoval, EngineTypeOK
  <2>5. QED
    BY <2>1, <2>2, <2>4 DEF TypeOK
<1>11. ASSUME Crash
      PROVE  TypeOK'
  <2>1. ForgeTypeOK'
    BY <1>11 DEF Crash, ForgeTypeOK, forgeVars
  <2>2. StoreTypeOK'
    BY <1>11 DEF Crash, StoreTypeOK, storeVars
  <2>3. OpTypeOK'
    BY <1>11, RowNo DEF Crash, OpTypeOK, Step, Caller, NoBatch, NoSha
  <2>4. EngineTypeOK'
    BY <1>11, <2>3 DEF Crash, EngineTypeOK, InWindow
  <2>5. QED
    BY <2>1, <2>2, <2>4 DEF TypeOK
<1>12. QED
  BY <1>1, <1>2, <1>3, <1>4, <1>5, <1>6, <1>7, <1>8, <1>9, <1>10, <1>11 DEF
     World, Environment, Fault

(* The initial state is well typed.                                        *)
LEMMA TypeInit == Init => TypeOK
<1> SUFFICES ASSUME Init PROVE TypeOK
  OBVIOUS
<1>1. ForgeTypeOK
  BY DEF Init, ForgeInit, ForgeTypeOK, Commit, Shas, NoSha
<1>2. StoreTypeOK
  BY EntryNo, ChecksNo, RowNo DEF Init, StoreInit, StoreTypeOK
<1>3. EngineTypeOK
  <2>1. OpTypeOK
    BY RowNo DEF Init, OpTypeOK, Step, Caller, NoBatch, NoSha
  <2>2. QED
    BY <2>1 DEF Init, EngineTypeOK
<1>4. QED
  BY <1>1, <1>2, <1>3 DEF TypeOK

(* Every step keeps the state well typed.                                  *)
LEMMA TypeStep == TypeOK /\ [Next]_vars => TypeOK'
<1>1. ASSUME TypeOK, UNCHANGED vars PROVE TypeOK'
  BY <1>1 DEF TypeOK, ForgeTypeOK, StoreTypeOK, EngineTypeOK, OpTypeOK, vars,
     forgeVars, storeVars, opVars
<1>2. QED
  BY <1>1, OperationType, EntryPointType, OthersType DEF Next

(* Every variable keeps a value the program's types allow.                 *)
THEOREM TypeCorrect == Spec => []TypeOK
BY TypeInit, TypeStep, PTL DEF Spec

=============================================================================
