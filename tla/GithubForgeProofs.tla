--------------------------- MODULE GithubForgeProofs ---------------------------
(***************************************************************************)
(* What holds of a batch on GitHub for any number of pull requests,        *)
(* commits, batches, events and faults: the target only grows, nothing is  *)
(* merged into it twice, a build holds its members and little else, and    *)
(* only what landed is closed as merged.                                   *)
(***************************************************************************)
EXTENDS GithubForge, FiniteSetTheorems, WellFoundedInduction, TLAPS

(***************************************************************************)
(* The inductive invariant.                                                *)
(***************************************************************************)

(* Commits are made in order, each reaches what its parents reach, and one *)
(* that merges a pull request reaches its head.                            *)
Graph ==
    /\ history \in [Commits -> SUBSET Commits]
    /\ merges \in [Commits -> PRs \cup {0}]
    /\ Made = 0 .. Fresh - 1 /\ Fresh \in Nat
    /\ \A p \in PRs \cup {0} :
          p \in Made /\ history[p] = {0, p} /\ merges[p] = 0
    /\ \A c \in Made : c \in history[c] /\ history[c] \subseteq Made
    /\ \A c \in Made : \A d \in history[c] : history[d] \subseteq history[c]
    /\ \A c \in Made : merges[c] # 0 => merges[c] \in history[c]

(* Nowhere is a pull request merged twice.                                 *)
Once ==
    \A x \in Made : \A c, d \in history[x] :
        merges[c] = merges[d] /\ merges[c] # 0 => c = d

Row == [id      : 0 .. MaxBatches,
        state   : {"none", "forming", "testing"},
        current : SUBSET PRs,
        pending : SUBSET PRs,
        sha     : Commits \cup {None}]

Eng == [at   : {"idle", "boot", "clear", "base", "create", "reset", "merge", "tip",
                "eject", "ff", "land", "delete"},
        todo : SUBSET PRs,
        surv : SUBSET PRs,
        base : Commits \cup {None},
        tip  : Commits \cup {None}]

Types ==
    /\ target \in Commits /\ branch \in [Queued -> Commits \cup {None}]
    /\ squatted \in BOOLEAN /\ protected \in BOOLEAN
    /\ open \subseteq PRs /\ auto \subseteq PRs
    /\ queued \subseteq PRs /\ closing \subseteq PRs /\ ghost \subseteq PRs
    /\ row \in Row /\ eng \in Eng
    /\ events \in 0 .. MaxEvents /\ faults \in 0 .. MaxFaults

MadeOnly ==
    /\ target \in Made
    /\ \A k \in Queued : branch[k] \in Made \cup {None}
    /\ {row.sha, eng.base, eng.tip} \subseteq Made \cup {None}

Resting  == {"idle", "boot", "clear", "ff", "delete"}
Stacking == {"base", "create", "reset", "merge", "tip"}

(* Where the engine is in its program.                                     *)
Program ==
    /\ row.pending \cap row.current = {}
    /\ eng.todo \subseteq row.current /\ eng.surv \subseteq row.current
    /\ row.state # "none" => row.id # 0
    /\ row.state = "none" => row.current = {} /\ row.pending = {}
    /\ eng.at \in Stacking \cup {"clear"} => row.state = "forming"
    /\ eng.at \in {"ff", "land"} => row.state = "testing"
    /\ eng.at = "eject" => row.state # "none"
    /\ eng.at \in Resting \cup {"eject"} => eng.todo = {}
    /\ eng.at \in Resting \cup {"land"} => eng.surv = {}
    /\ eng.at = "eject" /\ row.state = "testing" => eng.surv = {}
    /\ eng.at \in Stacking => eng.todo # {}
    /\ eng.at \in {"base", "create", "reset"} => eng.tip = None
    /\ eng.at \in {"create", "reset"} => eng.base # None
    /\ eng.at = "merge" => eng.tip # None \/ eng.base # None
    /\ eng.at = "tip" => eng.tip # None
    /\ eng.tip = None => eng.surv = {}

(* Commit c holds the heads of the pull requests in S, and little else.    *)
Holds(c, S) ==
    S \subseteq In(c) /\ In(c) \subseteq S \cup In(target) \cup ghost

(* The branch while it is built.                                           *)
Branch == branch[row.id]

Based ==
    eng.at \in {"create", "reset", "merge"} /\ eng.tip = None =>
        /\ In(eng.base) \subseteq In(target)
        /\ eng.at = "merge" => Branch \in {None, eng.base}

StackHolds ==
    eng.at \in {"merge", "tip", "eject"} /\ eng.tip # None =>
        /\ Holds(eng.tip, eng.surv)
        /\ eng.at # "eject" /\ Branch # None => Holds(Branch, eng.surv)
        /\ eng.at = "tip" /\ Branch # None => Head \in In(Branch)

Tested ==
    row.state = "testing" => row.sha # None /\ Holds(row.sha, row.current)

Landing == eng.at = "land" => eng.todo \subseteq In(target)

ForgeInv ==
    /\ Graph /\ Once /\ Types /\ MadeOnly /\ Program
    /\ Based /\ StackHolds /\ Tested /\ Landing /\ ClosesOnlyLanded

(***************************************************************************)
(* Commits.                                                                *)
(***************************************************************************)

LEMMA Bounds ==
  /\ MaxCommits \in Nat /\ MaxBatches \in Nat /\ MaxBatches > 0
  /\ MaxEvents \in Nat /\ MaxFaults \in Nat
  /\ Cardinality(PRs) \in Nat /\ Cardinality(PRs) <= MaxCommits
  /\ PRs = 1 .. Cardinality(PRs)
  <1>1. Cardinality(PRs) \in 1 .. MaxCommits /\ MaxCommits \in Nat
    BY GitHubAssumption
  <1>2. MaxBatches \in Nat \ {0} /\ PRs = 1 .. Cardinality(PRs)
    BY GitHubAssumption, Zenon
  <1>3. MaxBatches \in Nat /\ MaxBatches > 0 BY <1>2
  <1>4. Cardinality(PRs) \in Nat /\ Cardinality(PRs) <= MaxCommits BY <1>1
  <1> QED BY <1>1, <1>2, <1>3, <1>4, ForgeAssumption, Zenon

LEMMA Numbers ==
  /\ PRs \subseteq Commits \ {0} /\ 0 \in Commits /\ 0 \notin PRs
  /\ Commits \subseteq Nat /\ None \notin Commits
  <1> DEFINE n == Cardinality(PRs)
  <1>1. PRs = 1 .. n /\ n \in Nat /\ n <= MaxCommits /\ MaxCommits \in Nat
    BY Bounds
  <1> HIDE DEF n
  <1> QED BY <1>1 DEF Commits, None

(* The head that is merged next is one that is left.                       *)
LEMMA HeadIsLeft ==
  ASSUME eng.todo \subseteq PRs, eng.todo # {}
  PROVE  Head \in eng.todo
  <1> DEFINE S == eng.todo
  <1>1. S \subseteq Nat BY Numbers
  <1>2. PICK x \in S : \A y \in S : ~ (<<y, x>> \in OpToRel(<, Nat))
    BY <1>1, NatLessThanWellFounded, WFMin, Zenon
  <1>3. \A y \in S : ~ (y < x) BY <1>1, <1>2 DEF OpToRel
  <1>4. \E z \in S : \A y \in S : z <= y BY <1>1, <1>3
  <1> QED BY <1>4, Zenon DEF Head

LEMMA Reach ==
  ASSUME Graph, NEW c \in Made
  PROVE  /\ c \in Commits /\ c \in history[c] /\ history[c] \subseteq Made
         /\ \A d \in history[c] : history[d] \subseteq history[c]
         /\ merges[c] # 0 => merges[c] \in history[c]
         /\ In(c) \subseteq PRs
  BY DEF Graph, Made, In

LEMMA HeadsAreMade ==
  ASSUME Graph
  PROVE  0 \in Made /\ PRs \subseteq Made /\ \A p \in PRs : history[p] = {0, p}
  BY DEF Graph

LEMMA GraphInit == Init => Graph /\ Once
  <1> SUFFICES ASSUME Init PROVE Graph /\ Once
    OBVIOUS
  <1> DEFINE m == Cardinality(PRs)
  <1>1. PRs = 1 .. m /\ m \in Nat /\ m <= MaxCommits /\ MaxCommits \in Nat
    BY Bounds
  <1> HIDE DEF m
  <1>2. /\ history = [c \in Commits |-> IF c \in PRs THEN {0, c}
                                        ELSE IF c = 0 THEN {0} ELSE {}]
        /\ merges = [c \in Commits |-> 0]
    BY DEF Init, GitHubInit
  <1>3. /\ history \in [Commits -> SUBSET Commits]
        /\ merges \in [Commits -> PRs \cup {0}]
    BY <1>1, <1>2 DEF Commits
  <1>4. Made = 0 .. m
    <2>1. \A c \in Commits : history[c] # {} <=> c \in PRs \/ c = 0
      BY <1>2
    <2>2. \A c \in 0 .. m : c \in Commits /\ (c \in PRs \/ c = 0)
      BY <1>1 DEF Commits
    <2>3. \A c \in Commits : c \in PRs \/ c = 0 => c \in 0 .. m
      BY <1>1
    <2> QED BY <2>1, <2>2, <2>3 DEF Made
  <1>5. Fresh = m + 1
    <2>1. Cardinality(0 .. m) = m + 1 BY <1>1, FS_Interval
    <2> QED BY <1>4, <2>1 DEF Fresh
  <1>6. \A c \in Commits : merges[c] = 0 BY <1>2
  <1>7. \A c \in 0 .. m : c \in Commits /\ history[c] = {0, c}
    BY <1>1, <1>2 DEF Commits
  <1>8. \A p \in PRs \cup {0} : p \in Made /\ history[p] = {0, p} /\ merges[p] = 0
    BY <1>1, <1>4, <1>6, <1>7
  <1>9. \A c \in Made : /\ c \in history[c] /\ history[c] \subseteq Made
                        /\ \A d \in history[c] : history[d] \subseteq history[c]
    BY <1>1, <1>4, <1>7
  <1>10. \A c \in Made : c \in Commits /\ merges[c] = 0 BY <1>4, <1>6, <1>7
  <1>11. Graph
    <2>1. Made = 0 .. Fresh - 1 /\ Fresh \in Nat BY <1>1, <1>4, <1>5
    <2> QED BY <1>3, <1>8, <1>9, <1>10, <2>1 DEF Graph
  <1>12. Once
    BY <1>9, <1>10 DEF Once
  <1> QED BY <1>11, <1>12

(* The next commit, and what making it changes.                            *)
LEMMA Grown ==
  ASSUME Graph, Once, NEW tip \in Made, NEW p \in PRs \cup {0}, Commit(tip, p),
         p # 0 => ~ isAncestor(p, tip)
  PROVE  /\ Graph' /\ Once' /\ Fresh \in Commits /\ Fresh \notin Made
         /\ Made' = Made \cup {Fresh}
         /\ history'[Fresh] = {Fresh} \cup history[tip]
                                      \cup (IF p = 0 THEN {} ELSE {0, p})
         /\ \A c \in Made : history'[c] = history[c]
  <1> DEFINE n == Fresh
             S == history[tip] \cup (IF p = 0 THEN {} ELSE {0, p})
  <1>1. /\ n \in Nat /\ Made = 0 .. n - 1 /\ n <= MaxCommits
        /\ history \in [Commits -> SUBSET Commits] /\ Made \subseteq Commits
        /\ merges \in [Commits -> PRs \cup {0}]
    BY DEF Graph, Made, Commit
  <1>2. /\ history' = [history EXCEPT ![n] = {n} \cup S]
        /\ merges' = [merges EXCEPT ![n] = p]
    <2>1. p # 0 => history[p] = {0, p} BY DEF Graph
    <2>2. /\ history' = [history EXCEPT ![Fresh] =
                           {Fresh} \cup history[tip]
                                   \cup (IF p = 0 THEN {} ELSE history[p])]
          /\ merges' = [merges EXCEPT ![Fresh] = p]
      BY DEF Commit
    <2> QED BY <2>1, <2>2
  <1>3. S \subseteq Made BY DEF Graph
  <1>4. \A d \in S : history[d] \subseteq S
    <2>1. \A d \in history[tip] : history[d] \subseteq history[tip] BY DEF Graph
    <2>2. 0 \in Made /\ history[0] = {0} BY DEF Graph
    <2>3. p # 0 => history[p] = {0, p} BY DEF Graph
    <2> QED BY <2>1, <2>2, <2>3
  <1>5. /\ tip \in history[tip] /\ (p # 0 => p \in S /\ p \notin history[tip])
        /\ \A d \in S : merges[d] # 0 => merges[d] \in history[tip]
        /\ \A c, d \in S : merges[c] = merges[d] /\ merges[c] # 0 => c = d
    <2>1. tip \in history[tip] /\ history[tip] \subseteq Made BY DEF Graph
    <2>2. p # 0 => p \in S /\ p \notin history[tip] BY DEF isAncestor
    <2>3. \A d \in S : d \notin history[tip] => merges[d] = 0 BY DEF Graph
    <2>4. \A d \in history[tip] : merges[d] # 0 => merges[d] \in history[tip]
      BY <2>1 DEF Graph
    <2>5. \A c, d \in history[tip] : merges[c] = merges[d] /\ merges[c] # 0 => c = d
      BY DEF Once
    <2>6. \A c, d \in S : merges[c] = merges[d] /\ merges[c] # 0 => c = d
      BY <2>3, <2>5
    <2> QED BY <2>1, <2>2, <2>3, <2>4, <2>6
  <1>6. history'[n] = {n} \cup S => history'[n] = {n} \cup history[tip]
                                      \cup (IF p = 0 THEN {} ELSE {0, p})
    OBVIOUS
  <1> HIDE DEF n, S
  <1>7. n \in Commits /\ n \notin Made BY <1>1, Bounds DEF Commits
  <1>8. /\ history' \in [Commits -> SUBSET Commits]
        /\ history'[n] = {n} \cup S
        /\ \A c \in Commits : c # n => history'[c] = history[c]
    <2> DEFINE T == {n} \cup S
    <2>1. T \in SUBSET Commits /\ history' = [history EXCEPT ![n] = T]
      BY <1>1, <1>2, <1>3, <1>7
    <2> HIDE DEF T
    <2>2. history' \in [Commits -> SUBSET Commits] /\ history'[n] = T
          /\ \A c \in Commits : c # n => history'[c] = history[c]
      BY <1>1, <1>7, <2>1
    <2> QED BY <2>2 DEF T
  <1>9. /\ merges' \in [Commits -> PRs \cup {0}] /\ merges'[n] = p
        /\ \A c \in Commits : c # n => merges'[c] = merges[c]
    BY <1>1, <1>2, <1>7
  <1>10. Made' = Made \cup {n} BY <1>1, <1>7, <1>8 DEF Made
  <1>11. Made' = 0 .. Fresh' - 1 /\ Fresh' \in Nat
    <2>1. Made' = 0 .. n BY <1>1, <1>10
    <2>2. Cardinality(0 .. n) = n + 1 BY <1>1, FS_Interval
    <2> QED BY <1>1, <2>1, <2>2 DEF Fresh
  <1>12. \A c \in Made : history'[c] = history[c] /\ merges'[c] = merges[c]
    BY <1>1, <1>7, <1>8, <1>9
  <1>13. \A q \in PRs \cup {0} : /\ q \in Made' /\ history'[q] = {0, q}
                                 /\ merges'[q] = 0
    BY <1>10, <1>12 DEF Graph
  <1>14. \A c \in Made' : c \in history'[c] /\ history'[c] \subseteq Made'
    BY <1>3, <1>8, <1>10, <1>12 DEF Graph
  <1>15. \A c \in Made' : \A d \in history'[c] : history'[d] \subseteq history'[c]
    <2>1. ASSUME NEW c \in Made, NEW d \in history'[c]
          PROVE  history'[d] \subseteq history'[c]
      BY <1>12, <2>1 DEF Graph
    <2>2. ASSUME NEW d \in history'[n] PROVE history'[d] \subseteq history'[n]
      BY <1>3, <1>4, <1>8, <1>12, <2>2
    <2> QED BY <1>10, <2>1, <2>2
  <1>16. \A c \in Made' : merges'[c] # 0 => merges'[c] \in history'[c]
    <2>1. \A c \in Made : merges'[c] # 0 => merges'[c] \in history'[c]
      BY <1>12 DEF Graph
    <2>2. merges'[n] # 0 => merges'[n] \in history'[n] BY <1>5, <1>8, <1>9
    <2> QED BY <1>10, <2>1, <2>2
  <1>17. Graph' BY <1>8, <1>9, <1>11, <1>13, <1>14, <1>15, <1>16 DEF Graph
  <1>18. Once'
    <2>1. ASSUME NEW x \in Made, NEW c \in history'[x], NEW d \in history'[x],
                 merges'[c] = merges'[d], merges'[c] # 0
          PROVE  c = d
      <3>1. {c, d} \subseteq history[x] /\ {c, d} \subseteq Made
        BY <1>12 DEF Graph
      <3> QED BY <1>12, <2>1, <3>1 DEF Once
    <2>2. \A c \in S : /\ merges'[c] = merges[c]
                       /\ merges[c] = 0 \/ merges'[n] # merges[c]
      BY <1>3, <1>5, <1>9, <1>12
    <2>3. ASSUME NEW c \in history'[n], NEW d \in history'[n],
                 merges'[c] = merges'[d], merges'[c] # 0
          PROVE  c = d
      BY <1>5, <1>8, <2>2, <2>3
    <2>4. \A x \in Made' : \A c, d \in history'[x] :
            merges'[c] = merges'[d] /\ merges'[c] # 0 => c = d
      BY <1>10, <2>1, <2>3
    <2> QED BY <2>4 DEF Once
  <1>19. \A c \in Made : history'[c] = history[c] BY <1>12
  <1> QED BY <1>6, <1>7, <1>8, <1>10, <1>17, <1>18, <1>19, Zenon DEF n

(***************************************************************************)
(* What the requests do, answered or not.                                  *)
(***************************************************************************)

Faulted == UNCHANGED faults \/ Fault

(* The branch of the batch is as it was, or gone.                          *)
Dropped == branch' = branch \/ branch' = [branch EXCEPT ![row.id] = None]

LEMMA DropMeans ==
  ASSUME ClearBranch \/ DeleteBranch
  PROVE  Dropped /\ Faulted /\ UNCHANGED <<history, merges, squatted, protected, open, auto>>
  <1>1. ASSUME NEW heard \in Heard,
               Request(LAMBDA a : hDeleteRef(row.id, a), heard)
        PROVE  Dropped /\ Faulted
    BY <1>1 DEF Request, hDeleteRef, Dropped, Faulted, github
  <1>2. Dropped /\ Faulted BY <1>1, Zenon DEF ClearBranch, DeleteBranch
  <1>3. UNCHANGED <<history, merges, squatted, protected, open, auto>>
    BY DEF ClearBranch, DeleteBranch, commits, rules, pulls
  <1> QED BY <1>2, <1>3

LEMMA CreateMeans ==
  ASSUME CreateRef
  PROVE  /\ Faulted
         /\ \/ branch' = branch /\ (Goto("reset") \/ NotStacked)
            \/ /\ branch' = [branch EXCEPT ![row.id] = eng.base]
               /\ Goto("merge") \/ NotStacked
  <1>1. PICK heard \in Heard :
          /\ Request(LAMBDA a : hCreateRef(row.id, eng.base, a), heard)
          /\ CASE heard = "ok"     -> Goto("merge")
               [] heard = "exists" -> Goto("reset")
               [] OTHER            -> NotStacked
    BY Zenon DEF CreateRef
  <1>2. /\ heard = "ok" => Goto("merge")
        /\ heard = "exists" => Goto("reset")
        /\ heard \notin {"ok", "exists"} => NotStacked
    BY <1>1
  <1>3. /\ Faulted
        /\ branch' = branch \/ branch' = [branch EXCEPT ![row.id] = eng.base]
        /\ heard = "ok" => branch' = [branch EXCEPT ![row.id] = eng.base]
        /\ heard = "exists" => branch' = branch
    BY <1>1 DEF Request, hCreateRef, Faulted, github
  <1> QED BY <1>2, <1>3

LEMMA ResetMeans ==
  ASSUME ResetRef
  PROVE  /\ Faulted
         /\ \/ branch' = branch /\ NotStacked
            \/ /\ branch' = [branch EXCEPT ![row.id] = eng.base]
               /\ Goto("merge") \/ NotStacked
  <1>1. PICK heard \in Heard :
          /\ Request(LAMBDA a : hResetRef(row.id, eng.base, a), heard)
          /\ IF heard = "ok" THEN Goto("merge") ELSE NotStacked
    BY Zenon DEF ResetRef
  <1>2. /\ Faulted
        /\ branch' = branch \/ branch' = [branch EXCEPT ![row.id] = eng.base]
        /\ heard = "ok" => branch' = [branch EXCEPT ![row.id] = eng.base]
    BY <1>1 DEF Request, hResetRef, Faulted, github
  <1> QED BY <1>1, <1>2

(* No merge is made, or it is and perhaps nobody hears of it.              *)
NotMerged ==
    /\ UNCHANGED <<branch, history, merges, ghost>>
    /\ \/ NotStacked
       \/ /\ Branch # None /\ isAncestor(Head, Branch)
          /\ IF eng.tip = None THEN Stacked(eng.base) ELSE Goto("tip")

Merged ==
    /\ Branch # None /\ ~ isAncestor(Head, Branch) /\ Commit(Branch, Head)
    /\ branch' = [branch EXCEPT ![row.id] = Fresh]
    /\ \/ Stacked(Fresh) /\ ghost' = ghost
       \/ NotStacked /\ (history' # history => ghost' = ghost \cup {Head})
                     /\ (history' = history => ghost' = ghost)

LEMMA MergeMeans ==
  ASSUME MergeHead
  PROVE  Faulted /\ (NotMerged \/ Merged)
  <1>1. PICK heard \in Heard :
          /\ Request(LAMBDA a : hMerge(row.id, Head, a), heard)
          /\ CASE heard = "ok"      -> Stacked(Fresh)
               [] heard = "nothing" -> IF eng.tip = None THEN Stacked(eng.base)
                                       ELSE Goto("tip")
               [] OTHER             -> NotStacked
          /\ ghost' = IF heard = "error" /\ history' # history
                      THEN ghost \cup {Head} ELSE ghost
    BY Zenon DEF MergeHead
  <1>2. /\ heard = "ok" => Stacked(Fresh)
        /\ heard = "nothing" => IF eng.tip = None THEN Stacked(eng.base) ELSE Goto("tip")
        /\ heard \notin {"ok", "nothing"} => NotStacked
    BY <1>1
  <1>3. /\ heard = "error" /\ history' # history => ghost' = ghost \cup {Head}
        /\ heard # "error" \/ history' = history => ghost' = ghost
    BY <1>1
  <1> DEFINE Still == UNCHANGED <<branch, history, merges>>
             Grew == /\ Branch # None /\ ~ isAncestor(Head, Branch)
                     /\ Commit(Branch, Head)
                     /\ branch' = [branch EXCEPT ![row.id] = Fresh]
  <1>4. ASSUME NEW a, hMerge(row.id, Head, a)
        PROVE  /\ Still \/ Grew
               /\ a \in {"missing", "nothing", "conflict"} => Still
               /\ a = "nothing" => Branch # None /\ isAncestor(Head, Branch)
               /\ a \in {"missing", "nothing", "conflict", "ok"}
               /\ a = "ok" => Grew
    BY <1>4 DEF hMerge, commits, Branch
  <1>5. \/ hMerge(row.id, Head, heard) /\ UNCHANGED faults
        \/ heard = "error" /\ Fault /\ \E answer \in Answers : hMerge(row.id, Head, answer)
        \/ heard = "error" /\ Fault /\ UNCHANGED github
    BY <1>1 DEF Request
  <1>6. /\ Faulted /\ (Still \/ Grew)
        /\ heard = "ok" => Grew
        /\ heard = "nothing" => Branch # None /\ isAncestor(Head, Branch) /\ Still
        /\ heard \notin {"ok", "error"} => Still
    BY <1>4, <1>5 DEF Faulted, github
  <1>7. CASE heard = "ok"
    BY <1>2, <1>3, <1>6, <1>7 DEF Merged
  <1>8. CASE heard = "nothing"
    BY <1>2, <1>3, <1>6, <1>8 DEF NotMerged
  <1>9. CASE heard = "error" /\ Still
    BY <1>2, <1>3, <1>6, <1>9 DEF NotMerged
  <1>10. CASE heard = "error" /\ Grew
    BY <1>2, <1>3, <1>6, <1>10, Zenon DEF Merged
  <1>11. CASE heard \notin {"ok", "nothing", "error"}
    BY <1>2, <1>3, <1>6, <1>11 DEF NotMerged
  <1> QED BY <1>6, <1>7, <1>8, <1>9, <1>10, <1>11

(* The target stays, or becomes the batch that contains it.                *)
NotLanded ==
    /\ target' = target
    /\ \/ Rebuild(row.current, row.pending)
       \/ EjectCurrent /\ row' = row
       \/ eng' = Idle /\ row' = row

Forwarded ==
    /\ isAncestor(target, row.sha) /\ target' = row.sha /\ row' = row
    /\ eng' \in {Idle, [eng EXCEPT !.at = "land", !.todo = row.current]}

LEMMA ForwardMeans ==
  ASSUME FastForward
  PROVE  Faulted /\ (NotLanded \/ Forwarded)
  <1>1. PICK heard \in Heard :
          /\ Request(LAMBDA a : hUpdateRef(row.sha, a), heard)
          /\ \/ /\ heard = "ok"
                /\ eng' = [eng EXCEPT !.at = "land", !.todo = row.current]
                /\ UNCHANGED row
             \/ /\ heard = "not a fast forward"
                /\ \/ Rebuild(row.current, row.pending)
                   \/ EjectCurrent /\ UNCHANGED row
             \/ heard = "protected" /\ EjectCurrent /\ UNCHANGED row
             \/ heard = "error" /\ eng' = Idle /\ UNCHANGED row
    BY Zenon DEF FastForward
  <1>2. /\ Faulted
        /\ target' = target \/ (isAncestor(target, row.sha) /\ target' = row.sha)
        /\ heard = "ok" => isAncestor(target, row.sha) /\ target' = row.sha
        /\ heard \in {"not a fast forward", "protected"} => target' = target
    <2>1. ASSUME NEW a, hUpdateRef(row.sha, a)
          PROVE  /\ target' = target \/ (isAncestor(target, row.sha) /\ target' = row.sha)
                 /\ a = "ok" => isAncestor(target, row.sha) /\ target' = row.sha
                 /\ a \in {"not a fast forward", "protected"} => target' = target
                 /\ a # "error"
      BY <2>1 DEF hUpdateRef
    <2>2. \/ hUpdateRef(row.sha, heard) /\ UNCHANGED faults
          \/ /\ heard = "error" /\ Fault
             /\ (\E answer \in Answers : hUpdateRef(row.sha, answer)) \/ UNCHANGED github
      BY <1>1 DEF Request
    <2> QED BY <2>1, <2>2 DEF Faulted, github
  <1>3. CASE heard = "ok" BY <1>1, <1>2, <1>3 DEF Forwarded
  <1>4. CASE heard = "error" BY <1>1, <1>2, <1>4 DEF NotLanded, Forwarded
  <1>5. CASE heard \notin {"ok", "error"} BY <1>1, <1>2, <1>5 DEF NotLanded
  <1> QED BY <1>2, <1>3, <1>4, <1>5

LEMMA EjectMeans ==
  ASSUME Eject
  PROVE  /\ Faulted /\ auto' \subseteq auto /\ open' = open
         /\ UNCHANGED <<target, branch, squatted, history, merges, protected>>
         /\ UNCHANGED <<eng, closing, events>>
         /\ \E p \in row.current \ eng.surv :
               /\ queued' = queued \ {p}
               /\ row' = [row EXCEPT !.current = @ \ {p}]
               /\ ghost' = IF row.state = "testing" THEN ghost \cup {p} ELSE ghost
  <1>1. Faulted /\ auto' \subseteq auto
    <2>1. PICK p \in row.current \ eng.surv :
            \E heard \in Heard : Request(LAMBDA a : hGraphQL(p, a), heard)
      BY DEF Eject
    <2>2. PICK heard \in Heard : Request(LAMBDA a : hGraphQL(p, a), heard)
      BY <2>1
    <2> QED BY <2>2 DEF Request, hGraphQL, Faulted, github
  <1>2. /\ open' = open
        /\ UNCHANGED <<target, branch, squatted, history, merges, protected>>
        /\ UNCHANGED <<eng, closing, events>>
    BY DEF Eject, refs, commits, rules
  <1>3. \E p \in row.current \ eng.surv :
               /\ queued' = queued \ {p}
               /\ row' = [row EXCEPT !.current = @ \ {p}]
               /\ ghost' = IF row.state = "testing" THEN ghost \cup {p} ELSE ghost
    BY Zenon DEF Eject
  <1> QED BY <1>1, <1>2, <1>3

LEMMA CloseMeans ==
  ASSUME EnsureMergedOrClose
  PROVE  /\ Faulted /\ open' \subseteq open /\ closing' \subseteq closing
         /\ UNCHANGED <<target, branch, squatted, history, merges, protected, auto>>
         /\ UNCHANGED <<queued, row, eng, events, ghost>>
  <1>1. ASSUME NEW p \in PRs, ClosePR(p)
        PROVE  /\ Faulted /\ open' \subseteq open /\ closing' \subseteq closing
               /\ UNCHANGED <<target, branch, squatted, history, merges, protected, auto>>
    <2>1. ASSUME NEW heard \in Heard, Request(LAMBDA a : hEditPR(p, a), heard)
          PROVE  Faulted /\ open' \subseteq open
      BY <2>1 DEF Request, hEditPR, Faulted, github
    <2> QED BY <1>1, <2>1 DEF ClosePR, refs, commits, rules
  <1>2. ASSUME NEW p \in PRs, SeenClosed(p)
        PROVE  /\ Faulted /\ open' \subseteq open /\ closing' \subseteq closing
               /\ UNCHANGED <<target, branch, squatted, history, merges, protected, auto>>
    BY <1>2 DEF SeenClosed, Faulted, github
  <1> QED BY <1>1, <1>2 DEF EnsureMergedOrClose

(* What people do: a commit on the target, or none and nothing new.        *)
Pushed ==
    /\ target' = Fresh /\ branch' = branch
    /\ \E p \in PRs \cup {0} : Commit(target, p) /\ (p # 0 => ~ isAncestor(p, target))

Meddled ==
    /\ UNCHANGED <<target, history, merges>>
    /\ branch' = branch \/ \E k \in Queued : branch' = [branch EXCEPT ![k] = None]

LEMMA WorldMeans ==
  ASSUME World, Types
  PROVE  /\ Pushed \/ Meddled
         /\ open' \subseteq open /\ auto' \subseteq auto
         /\ squatted' \in BOOLEAN /\ protected' \in BOOLEAN
         /\ events < MaxEvents /\ events' = events + 1
         /\ UNCHANGED <<queued, row, eng, closing, ghost, faults>>
  <1>1. /\ events < MaxEvents /\ events' = events + 1
        /\ UNCHANGED <<queued, row, eng, closing, ghost, faults>>
    BY DEF World, ours
  <1>2. CASE Push
    <2>1. Pushed BY <1>2 DEF Push, Pushed
    <2> QED BY <1>1, <1>2, <2>1 DEF Push, rules, pulls, Types
  <1>3. CASE MergeByHand
    <2>1. PICK p \in open : /\ ~ isAncestor(p, target) /\ Commit(target, p)
                            /\ open' = open \ {p}
      BY <1>3, Zenon DEF MergeByHand
    <2>2. p \in PRs BY DEF Types
    <2>3. Pushed BY <1>3, <2>1, <2>2 DEF MergeByHand, Pushed
    <2> QED BY <1>1, <1>3, <2>1, <2>3 DEF MergeByHand, rules, Types
  <1>4. CASE Meddle
    <2>1. Meddled BY <1>4 DEF Meddle, Meddled, refs, commits
    <2>2. open' \subseteq open /\ auto' \subseteq auto
      BY <1>4 DEF Meddle, pulls
    <2>3. squatted' \in BOOLEAN /\ protected' \in BOOLEAN
      BY <1>4, Zenon DEF Meddle, rules, Types
    <2> QED BY <1>1, <2>1, <2>2, <2>3
  <1> QED BY <1>2, <1>3, <1>4 DEF World

(***************************************************************************)
(* Commits stay, and the target only grows.                                *)
(***************************************************************************)

Grew ==
    /\ Graph' /\ Once' /\ Made \subseteq Made'
    /\ \A c \in Made : history'[c] = history[c]

LEMMA NotGrown ==
  ASSUME Graph, Once, UNCHANGED <<history, merges>>
  PROVE  Grew /\ Made' = Made
  <1>1. Made' = Made BY DEF Made
  <1>2. Fresh' = Fresh BY <1>1 DEF Fresh
  <1>3. Graph'
    BY <1>1, <1>2 DEF Graph
  <1>4. Once' BY <1>1 DEF Once
  <1> QED BY <1>1, <1>3, <1>4 DEF Grew

(* The batch that is built has a branch, and its head is a pull request.   *)
LEMMA Building ==
  ASSUME Graph, Types, MadeOnly, Program, eng.at \in Stacking
  PROVE  /\ row.id \in Queued /\ Head \in eng.todo /\ Head \in PRs
         /\ Branch # None => Branch \in Made
  <1>1. row.state = "forming" /\ row.id # 0 /\ eng.todo # {}
    BY DEF Program
  <1>2. row.id \in Queued
    BY <1>1, Bounds DEF Types, Row, Queued
  <1>3. eng.todo \subseteq PRs BY DEF Types, Eng
  <1> QED BY <1>1, <1>2, <1>3, HeadIsLeft DEF MadeOnly, Branch

LEMMA MergeGrows ==
  ASSUME Graph, Once, Types, MadeOnly, Program, MergeHead, Merged
  PROVE  /\ Grew /\ Fresh \in Commits /\ Fresh \notin Made
         /\ Made' = Made \cup {Fresh}
         /\ history'[Fresh] = {Fresh} \cup history[Branch] \cup {0, Head}
         /\ \/ Stacked(Fresh) /\ ghost' = ghost
            \/ NotStacked /\ ghost' = ghost \cup {Head}
  <1>1. eng.at \in Stacking BY DEF MergeHead, Step, Stacking
  <1>2. Branch \in Made /\ Head \in PRs BY <1>1, Building DEF Merged
  <1>3. Commit(Branch, Head) /\ ~ isAncestor(Head, Branch) BY DEF Merged
  <1>4. Head # 0 /\ Head \in PRs \cup {0} BY <1>2, Numbers
  <1>5. /\ Graph' /\ Once' /\ Fresh \in Commits /\ Fresh \notin Made
        /\ Made' = Made \cup {Fresh}
        /\ history'[Fresh] = {Fresh} \cup history[Branch]
                                     \cup (IF Head = 0 THEN {} ELSE {0, Head})
        /\ \A c \in Made : history'[c] = history[c]
    BY <1>2, <1>3, <1>4, Grown
  <1>6. history[Fresh] = {} BY <1>5 DEF Made
  <1>7. history' # history
    <2>1. Fresh \in history'[Fresh] BY <1>5
    <2> QED BY <1>6, <2>1
  <1> QED BY <1>4, <1>5, <1>7 DEF Grew, Merged

LEMMA PushGrows ==
  ASSUME Graph, Once, target \in Made, Pushed
  PROVE  Grew /\ Grows /\ target' \in Made'
  <1>1. PICK p \in PRs \cup {0} :
          Commit(target, p) /\ (p # 0 => ~ isAncestor(p, target))
    BY DEF Pushed
  <1>2. target' = Fresh BY DEF Pushed
  <1>3. /\ Graph' /\ Once' /\ Made' = Made \cup {Fresh}
        /\ history'[Fresh] = {Fresh} \cup history[target]
                                     \cup (IF p = 0 THEN {} ELSE {0, p})
        /\ \A c \in Made : history'[c] = history[c]
    BY <1>1, Grown
  <1>4. target \in history[target] BY DEF Graph
  <1>5. target \in history'[target'] /\ target' \in Made'
    BY <1>2, <1>3, <1>4
  <1> QED BY <1>3, <1>5 DEF Grew, Grows

LEMMA TargetStays ==
  ASSUME Graph, Once, target \in Made, UNCHANGED <<target, history, merges>>
  PROVE  Grew /\ Grows /\ target' \in Made'
  BY NotGrown DEF Grows, Graph

Onward ==
    /\ Grew /\ Grows /\ target' \in Made'
    /\ In(target) \subseteq In(target)'
    /\ ghost \subseteq ghost'

LEMMA OnwardWhen ==
  ASSUME MadeOnly, Grew, Grows, target' \in Made', ghost \subseteq ghost'
  PROVE  Onward
  <1>1. history'[target] \subseteq history'[target']
    BY DEF Grew, Graph, Grows
  <1>2. history'[target] = history[target] BY DEF Grew, MadeOnly
  <1> QED BY <1>1, <1>2 DEF Onward, In

(* Steps that leave the commits and the target.                            *)
Elsewhere ==
    \/ FormBatch \/ ClearBranch \/ ResolveBase \/ CreateRef \/ ResetRef \/ ReadTip
    \/ Eject \/ Built \/ DeleteBranch \/ LandOne \/ Landed \/ Pass \/ Fail
    \/ EnsureMergedOrClose \/ Enqueue \/ RemoveEntry \/ Crash \/ Boot
    \/ NoticeMerged /\ UNCHANGED <<ours, events, faults>>
    \/ UNCHANGED vars

LEMMA ElsewhereMeans ==
  ASSUME Elsewhere
  PROVE  UNCHANGED <<target, history, merges>> /\ ghost \subseteq ghost'
  <1>1. CASE ClearBranch \/ ResolveBase \/ CreateRef \/ ResetRef \/ ReadTip \/ DeleteBranch
    BY <1>1 DEF ClearBranch, ResolveBase, CreateRef, ResetRef, ReadTip, DeleteBranch,
                commits, github
  <1>2. CASE FormBatch \/ Built \/ LandOne \/ Landed \/ Pass \/ Fail
    BY <1>2 DEF FormBatch, Built, LandOne, Landed, Pass, Fail, github
  <1>3. CASE Enqueue \/ RemoveEntry \/ Crash \/ Boot
    BY <1>3 DEF Enqueue, RemoveEntry, Crash, Boot, commits, github
  <1>4. CASE Eject BY <1>4, EjectMeans
  <1>5. CASE EnsureMergedOrClose BY <1>5, CloseMeans
  <1>6. CASE NoticeMerged /\ UNCHANGED <<ours, events, faults>>
    BY <1>6 DEF NoticeMerged, ours, refs, commits
  <1>7. CASE UNCHANGED vars BY <1>7 DEF vars, github, ours
  <1> QED BY <1>1, <1>2, <1>3, <1>4, <1>5, <1>6, <1>7 DEF Elsewhere

LEMMA StepKinds ==
  ASSUME [Steps]_vars
  PROVE  Elsewhere \/ MergeHead \/ FastForward \/ World
  BY Zenon DEF Steps, Engine, Elsewhere

LEMMA OnwardStep ==
  ASSUME ForgeInv, [Steps]_vars
  PROVE  Onward
  <1> USE DEF ForgeInv
  <1>0. target \in Made BY DEF MadeOnly
  <1>1. CASE Elsewhere
    BY <1>0, <1>1, ElsewhereMeans, TargetStays, OnwardWhen
  <1>2. CASE MergeHead
    <2>1. target' = target BY <1>2 DEF MergeHead
    <2>2. CASE NotMerged
      BY <1>0, <2>1, <2>2, TargetStays, OnwardWhen DEF NotMerged
    <2>3. CASE Merged
      <3>1. Grew /\ ghost \subseteq ghost' BY <1>2, <2>3, MergeGrows
      <3>2. Grows /\ target' \in Made' BY <1>0, <2>1, <3>1 DEF Grew, Grows, Graph
      <3> QED BY <3>1, <3>2, OnwardWhen
    <2> QED BY <1>2, <2>2, <2>3, MergeMeans
  <1>3. CASE FastForward
    <2>1. UNCHANGED <<history, merges, ghost>> BY <1>3 DEF FastForward, commits
    <2>2. Grew /\ Made' = Made BY <2>1, NotGrown
    <2>3. CASE NotLanded
      BY <1>0, <2>1, <2>3, TargetStays, OnwardWhen DEF NotLanded
    <2>4. CASE Forwarded
      <3>1. target \in history[row.sha] /\ target' = row.sha
        BY <2>4 DEF Forwarded, isAncestor
      <3>2. row.sha \in Made
        <4>1. row.state = "testing" BY <1>3 DEF FastForward, Step, Program
        <4> QED BY <4>1 DEF Tested, MadeOnly
      <3>3. Grows /\ target' \in Made' BY <2>1, <2>2, <3>1, <3>2 DEF Grows
      <3> QED BY <2>1, <2>2, <3>3, OnwardWhen
    <2> QED BY <1>3, <2>3, <2>4, ForwardMeans
  <1>4. CASE World
    <2>1. ghost' = ghost /\ (Pushed \/ Meddled) BY <1>4, WorldMeans
    <2>2. CASE Pushed BY <1>0, <2>1, <2>2, PushGrows, OnwardWhen
    <2>3. CASE Meddled BY <1>0, <2>1, <2>3, TargetStays, OnwardWhen DEF Meddled
    <2> QED BY <2>1, <2>2, <2>3
  <1> QED BY <1>1, <1>2, <1>3, <1>4, StepKinds

(***************************************************************************)
(* Types.                                                                  *)
(***************************************************************************)

Points == Resting \cup Stacking \cup {"eject", "land"}

LEMMA EngTypes ==
  ASSUME eng \in Eng, eng.todo \subseteq PRs
  PROVE  /\ \A at \in Points : Goto(at) => eng' \in Eng
         /\ NotStacked => eng' \in Eng
         /\ \A sha \in Commits \cup {None} : Head \in PRs /\ Stacked(sha) => eng' \in Eng
         /\ Idle \in Eng
         /\ \A at \in Points : [Idle EXCEPT !.at = at] \in Eng
  <1>1. \A at \in Points : Goto(at) => eng' \in Eng
    BY DEF Goto, Eng, Points, Resting, Stacking
  <1>2. \A todo, tip : After(todo, tip) \in Points
    BY DEF After, Points, Stacking
  <1>3. NotStacked => eng' \in Eng
    <2> DEFINE at == After(eng.todo \ {Head}, eng.tip)
    <2>1. at \in Points BY <1>2
    <2> HIDE DEF at
    <2>2. [eng EXCEPT !.todo = @ \ {Head}, !.at = at] \in Eng
      BY <2>1 DEF Eng, Points, Resting, Stacking
    <2> QED BY <2>2 DEF NotStacked, at
  <1>4. ASSUME NEW sha \in Commits \cup {None}, Head \in PRs, Stacked(sha)
        PROVE  eng' \in Eng
    <2> DEFINE at == After(eng.todo \ {Head}, sha)
    <2>1. at \in Points BY <1>2
    <2> HIDE DEF at
    <2>2. [eng EXCEPT !.todo = @ \ {Head}, !.surv = @ \cup {Head}, !.tip = sha,
                      !.at = at] \in Eng
      BY <1>4, <2>1 DEF Eng, Points, Resting, Stacking
    <2> QED BY <1>4, <2>2 DEF Stacked, at
  <1>5. Idle \in Eng BY DEF Idle, Eng, None
  <1>6. \A at \in Points : [Idle EXCEPT !.at = at] \in Eng
    BY <1>5 DEF Eng, Points, Resting, Stacking
  <1> QED BY <1>1, <1>3, <1>4, <1>5, <1>6

LEMMA RowTypes ==
  ASSUME row \in Row
  PROVE  /\ \A c, p \in SUBSET PRs :
              [row EXCEPT !.state = "forming", !.current = c, !.pending = p,
                          !.sha = None] \in Row
         /\ [NoRow EXCEPT !.id = row.id] \in Row
         /\ \A p : [row EXCEPT !.current = @ \ {p}] \in Row
         /\ \A p : [row EXCEPT !.pending = @ \ {p}] \in Row
         /\ \A sha \in Commits \cup {None} :
              [row EXCEPT !.state = "testing", !.sha = sha] \in Row
         /\ NoRow \in Row
  <1>1. NoRow \in Row
    BY Bounds DEF NoRow, Row
  <1>2. [NoRow EXCEPT !.id = row.id] \in Row
    BY <1>1 DEF Row
  <1>3. \A c, p \in SUBSET PRs :
          [row EXCEPT !.state = "forming", !.current = c, !.pending = p,
                      !.sha = None] \in Row
    BY DEF Row
  <1>4. \A p : [row EXCEPT !.current = @ \ {p}] \in Row BY DEF Row
  <1>5. \A p : [row EXCEPT !.pending = @ \ {p}] \in Row BY DEF Row
  <1>6. \A sha \in Commits \cup {None} :
          [row EXCEPT !.state = "testing", !.sha = sha] \in Row
    BY DEF Row
  <1> QED BY <1>1, <1>2, <1>3, <1>4, <1>5, <1>6

LEMMA Typed ==
  ASSUME Types
  PROVE  /\ row \in Row /\ eng \in Eng /\ eng.todo \subseteq PRs
         /\ eng.surv \subseteq PRs
         /\ row.current \subseteq PRs /\ row.pending \subseteq PRs
         /\ row.sha \in Commits \cup {None}
         /\ eng.base \in Commits \cup {None} /\ eng.tip \in Commits \cup {None}
         /\ row.id \in 0 .. MaxBatches
  BY DEF Types, Row, Eng

LEMMA RebuildTypes ==
  ASSUME Types, NEW c \in SUBSET PRs, NEW p \in SUBSET PRs, Rebuild(c, p)
  PROVE  row' \in Row /\ eng' \in Eng
  BY Typed, RowTypes, EngTypes DEF Rebuild, Points, Resting

LEMMA NextTypes ==
  ASSUME Types, Next(row)
  PROVE  row' \in Row /\ eng' \in Eng
  <1>1. CASE row.pending # {}
    <2>1. {} \in SUBSET PRs /\ row.pending \in SUBSET PRs BY Typed
    <2>2. [row EXCEPT !.state = "forming", !.current = row.pending,
                      !.pending = {}, !.sha = None] \in Row
      BY <2>1, Typed, RowTypes, Zenon
    <2>3. row' \in Row BY <1>1, <2>2 DEF Next
    <2> QED BY <1>1, <2>3, Typed, EngTypes DEF Next, Points, Resting
  <1>2. CASE row.pending = {}
    BY <1>2, Typed, RowTypes, EngTypes DEF Next, Points, Resting
  <1> QED BY <1>1, <1>2

LEMMA FaultTypes ==
  ASSUME Types, Faulted
  PROVE  faults' \in 0 .. MaxFaults
  BY Bounds DEF Types, Faulted, Fault

(* The engine's record and the batch's.                                    *)
LEMMA RecordTypes ==
  ASSUME Graph, Types, MadeOnly, Program, [Steps]_vars
  PROVE  row' \in Row /\ eng' \in Eng
  <1>0. /\ row \in Row /\ eng \in Eng /\ eng.todo \subseteq PRs
        /\ eng.surv \subseteq PRs
        /\ row.current \subseteq PRs /\ row.pending \subseteq PRs
        /\ row.sha \in Commits \cup {None}
        /\ eng.base \in Commits \cup {None} /\ eng.tip \in Commits \cup {None}
        /\ row.id \in 0 .. MaxBatches
    BY Typed
  <1>1. CASE FormBatch
    <2>1. row' \in Row
      BY <1>0, <1>1, Bounds DEF FormBatch, Row, Types
    <2> QED BY <1>0, <1>1, <2>1, EngTypes DEF FormBatch, Points, Resting
  <1>2. CASE ClearBranch
    <2>1. row' = row BY <1>2 DEF ClearBranch, Keep
    <2>2. eng' = [Idle EXCEPT !.todo = row.current, !.at = After(row.current, None)]
      BY <1>2 DEF ClearBranch
    <2>3. eng' \in Eng
      BY <1>0, <2>2 DEF Idle, Eng, After
    <2> QED BY <1>0, <2>1, <2>3
  <1>3. CASE ResolveBase
    <2>1. row' = row BY <1>3 DEF ResolveBase, Keep
    <2>2. eng' = [eng EXCEPT !.base = target, !.at = "create"] \/ NotStacked
      BY <1>3 DEF ResolveBase
    <2>3. [eng EXCEPT !.base = target, !.at = "create"] \in Eng
      BY <1>0 DEF Eng, Types
    <2> QED BY <1>0, <2>1, <2>2, <2>3, EngTypes
  <1>4. CASE CreateRef \/ ResetRef
    <2>1. row' = row BY <1>4 DEF CreateRef, ResetRef, Keep
    <2>2. Goto("reset") \/ Goto("merge") \/ NotStacked
      BY <1>4, CreateMeans, ResetMeans
    <2> QED BY <1>0, <2>1, <2>2, EngTypes DEF Points, Stacking
  <1>5. CASE MergeHead
    <2>1. row' = row BY <1>5 DEF MergeHead, Keep
    <2>2. Head \in PRs BY <1>5, Building DEF MergeHead, Step, Stacking
    <2>3. CASE NotMerged
      BY <1>0, <2>1, <2>2, <2>3, EngTypes DEF NotMerged, Points, Stacking
    <2>4. CASE Merged
      <3>1. Fresh \in Commits
        <4>1. Fresh \in Nat /\ Fresh <= MaxCommits BY <2>4 DEF Merged, Commit, Graph
        <4> QED BY <4>1, Bounds DEF Commits
      <3> QED BY <1>0, <2>1, <2>2, <2>4, <3>1, EngTypes DEF Merged
    <2> QED BY <1>5, <2>3, <2>4, MergeMeans
  <1>6. CASE ReadTip
    <2>1. row' = row BY <1>6 DEF ReadTip, Keep
    <2>2. Head \in PRs /\ row.id \in Queued
      BY <1>6, Building DEF ReadTip, Step, Stacking
    <2>3. branch[row.id] \in Commits \cup {None} BY <2>2 DEF Types
    <2>4. Stacked(branch[row.id]) \/ NotStacked BY <1>6 DEF ReadTip
    <2> QED BY <1>0, <2>1, <2>2, <2>3, <2>4, EngTypes
  <1>7. CASE Eject
    BY <1>0, <1>7, EjectMeans, RowTypes
  <1>8. CASE Built
    <2>1. CASE eng.surv = {} BY <1>8, <2>1, NextTypes DEF Built
    <2>2. CASE eng.surv # {} BY <1>0, <1>8, <2>2, RowTypes, EngTypes DEF Built
    <2> QED BY <2>1, <2>2
  <1>9. CASE DeleteBranch
    BY <1>0, <1>9, EngTypes DEF DeleteBranch, Keep
  <1>10. CASE FastForward
    <2>1. CASE NotLanded
      BY <1>0, <2>1, RebuildTypes, EngTypes DEF NotLanded, EjectCurrent, Points
    <2>2. CASE Forwarded
      <3>1. [eng EXCEPT !.at = "land", !.todo = row.current] \in Eng
        BY <1>0 DEF Eng
      <3> QED BY <1>0, <2>2, <3>1, EngTypes DEF Forwarded
    <2> QED BY <1>10, <2>1, <2>2, ForwardMeans
  <1>11. CASE LandOne
    <2>1. row' \in Row BY <1>0, <1>11, RowTypes DEF LandOne
    <2>2. [eng EXCEPT !.todo = @ \ {Head}] \in Eng BY <1>0 DEF Eng
    <2> QED BY <1>11, <2>1, <2>2 DEF LandOne
  <1>12. CASE Landed BY <1>12, NextTypes DEF Landed
  <1>13. CASE Pass BY <1>0, <1>13, EngTypes DEF Pass, Points, Resting
  <1>14. CASE Fail
    <2>1. CASE Cardinality(row.current) = 1
      BY <1>0, <1>14, <2>1, EngTypes DEF Fail, EjectCurrent, Points
    <2>2. CASE Cardinality(row.current) # 1
      <3>1. PICK left \in SUBSET row.current :
              Rebuild(left, row.pending \cup (row.current \ left))
        BY <1>14, <2>2 DEF Fail
      <3>2. left \in SUBSET PRs /\ row.pending \cup (row.current \ left) \in SUBSET PRs
        BY <1>0
      <3> QED BY <3>1, <3>2, RebuildTypes
    <2> QED BY <2>1, <2>2
  <1>15. CASE RemoveEntry
    <2>1. PICK p : \/ Rebuild(row.current \ {p}, row.pending)
                   \/ row' = [row EXCEPT !.pending = @ \ {p}] /\ UNCHANGED eng
      BY <1>15 DEF RemoveEntry
    <2>2. row.current \ {p} \in SUBSET PRs /\ row.pending \in SUBSET PRs BY <1>0
    <2>3. CASE Rebuild(row.current \ {p}, row.pending) BY <2>2, <2>3, RebuildTypes
    <2>4. CASE row' = [row EXCEPT !.pending = @ \ {p}] /\ UNCHANGED eng
      BY <1>0, <2>4, RowTypes
    <2> QED BY <2>1, <2>3, <2>4
  <1>16. CASE Crash BY <1>0, <1>16, EngTypes DEF Crash, Points, Resting
  <1>17. CASE Boot
    BY <1>0, <1>17, EngTypes DEF Boot, Points, Resting
  <1>18. CASE EnsureMergedOrClose BY <1>0, <1>18, CloseMeans
  <1>19. CASE World BY <1>0, <1>19, WorldMeans
  <1>20. CASE \/ Enqueue \/ UNCHANGED vars
              \/ NoticeMerged /\ UNCHANGED <<ours, events, faults>>
    BY <1>0, <1>20 DEF Enqueue, ours, vars
  <1> QED
    BY <1>1, <1>2, <1>3, <1>4, <1>5, <1>6, <1>7, <1>8, <1>9, <1>10, <1>11, <1>12,
       <1>13, <1>14, <1>15, <1>16, <1>17, <1>18, <1>19, <1>20, Zenon DEF Steps, Engine

(* Everything else.                                                        *)
LEMMA SetTypes ==
  ASSUME Types, [Steps]_vars
  PROVE  /\ squatted' \in BOOLEAN /\ protected' \in BOOLEAN
         /\ open' \subseteq PRs /\ auto' \subseteq PRs
         /\ events' \in 0 .. MaxEvents /\ faults' \in 0 .. MaxFaults
  <1>0. /\ squatted \in BOOLEAN /\ protected \in BOOLEAN
        /\ open \subseteq PRs /\ auto \subseteq PRs
        /\ events \in 0 .. MaxEvents /\ faults \in 0 .. MaxFaults
    BY DEF Types
  <1>1. ASSUME UNCHANGED <<squatted, protected, open, auto, events>>, Faulted
        PROVE  /\ squatted' \in BOOLEAN /\ protected' \in BOOLEAN
               /\ open' \subseteq PRs /\ auto' \subseteq PRs
               /\ events' \in 0 .. MaxEvents /\ faults' \in 0 .. MaxFaults
    BY <1>0, <1>1, FaultTypes, Zenon
  <1>2. CASE \/ FormBatch \/ ClearBranch \/ ResolveBase \/ CreateRef \/ ResetRef
             \/ MergeHead \/ ReadTip \/ Built \/ DeleteBranch \/ FastForward
             \/ LandOne \/ Landed \/ Pass \/ Fail \/ Enqueue \/ RemoveEntry
             \/ Crash \/ Boot \/ UNCHANGED vars
    <2>1. CASE ClearBranch \/ DeleteBranch
      BY <2>1, <1>1, DropMeans DEF ClearBranch, DeleteBranch, Keep
    <2>2. CASE CreateRef \/ ResetRef
      BY <2>2, <1>1, CreateMeans, ResetMeans
         DEF CreateRef, ResetRef, Keep, rules, pulls
    <2>3. CASE MergeHead
      BY <2>3, <1>1, MergeMeans DEF MergeHead, Keep, rules, pulls
    <2>4. CASE FastForward
      BY <2>4, <1>1, ForwardMeans DEF FastForward, rules, pulls
    <2>5. CASE ResolveBase \/ ReadTip
      BY <2>5, <1>1 DEF ResolveBase, ReadTip, Keep, github, Faulted
    <2>6. CASE FormBatch \/ Built \/ LandOne \/ Landed \/ Pass \/ Fail
      BY <2>6, <1>1 DEF FormBatch, Built, LandOne, Landed, Pass, Fail, github, Faulted
    <2>7. CASE Enqueue \/ RemoveEntry \/ Crash \/ Boot \/ UNCHANGED vars
      BY <2>7, <1>1 DEF Enqueue, RemoveEntry, Crash, Boot, vars, github, Faulted,
                        rules, pulls
    <2> QED BY <1>2, <2>1, <2>2, <2>3, <2>4, <2>5, <2>6, <2>7, Zenon
  <1>3. CASE Eject
    BY <1>0, <1>3, EjectMeans, FaultTypes
  <1>4. CASE EnsureMergedOrClose
    BY <1>0, <1>4, CloseMeans, FaultTypes
  <1>5. CASE World
    <2>1. events' \in 0 .. MaxEvents BY <1>0, <1>5, WorldMeans, Bounds
    <2> QED BY <1>0, <1>5, <2>1, WorldMeans
  <1>6. CASE NoticeMerged /\ UNCHANGED <<ours, events, faults>>
    BY <1>0, <1>6 DEF NoticeMerged, rules
  <1> QED BY <1>2, <1>3, <1>4, <1>5, <1>6, Zenon DEF Steps, Engine

LEMMA QueueTypes ==
  ASSUME Graph, Types, MadeOnly, Program, [Steps]_vars
  PROVE  queued' \subseteq PRs /\ closing' \subseteq PRs /\ ghost' \subseteq PRs
  <1>0. /\ queued \subseteq PRs /\ closing \subseteq PRs /\ ghost \subseteq PRs
        /\ open \subseteq PRs /\ row.current \subseteq PRs
        /\ eng.todo \subseteq PRs
    BY Typed DEF Types
  <1>1. CASE \/ FormBatch \/ ClearBranch \/ ResolveBase \/ CreateRef \/ ResetRef
             \/ ReadTip \/ Built \/ DeleteBranch \/ FastForward
             \/ Landed \/ Pass \/ Fail \/ Boot \/ UNCHANGED vars
    BY <1>0, <1>1 DEF FormBatch, ClearBranch, ResolveBase, CreateRef, ResetRef, ReadTip,
      Built, DeleteBranch, FastForward, Landed, Pass, Fail, Boot, Keep, vars, ours
  <1>2. CASE MergeHead
    <2>1. Head \in PRs BY <1>2, Building DEF MergeHead, Step, Stacking
    <2>2. queued' = queued /\ closing' = closing BY <1>2 DEF MergeHead, Keep
    <2>3. ghost' = ghost \/ ghost' = ghost \cup {Head}
      BY <1>2, MergeMeans DEF Merged, NotMerged
    <2> QED BY <1>0, <2>1, <2>2, <2>3
  <1>3. CASE Eject
    BY <1>0, <1>3, EjectMeans
  <1>4. CASE LandOne
    BY <1>0, <1>4, HeadIsLeft DEF LandOne
  <1>5. CASE EnsureMergedOrClose
    BY <1>0, <1>5, CloseMeans
  <1>6. CASE World
    BY <1>0, <1>6, WorldMeans
  <1>7. CASE NoticeMerged /\ UNCHANGED <<ours, events, faults>>
    BY <1>0, <1>7 DEF ours
  <1>8. CASE Enqueue \/ RemoveEntry \/ Crash
    BY <1>0, <1>8 DEF Enqueue, RemoveEntry, Crash
  <1> QED BY <1>1, <1>2, <1>3, <1>4, <1>5, <1>6, <1>7, <1>8, Zenon DEF Steps, Engine

(* No name of a commit that is not made.                                   *)
LEMMA BranchSet ==
  ASSUME Types, MadeOnly, Made \subseteq Made',
         \/ branch' = branch
         \/ \E k, c : c \in Made' \cup {None} /\ branch' = [branch EXCEPT ![k] = c]
  PROVE  branch' \in [Queued -> Made' \cup {None}]
  <1>1. branch \in [Queued -> Made' \cup {None}] BY DEF Types, MadeOnly
  <1>2. ASSUME NEW k, NEW c \in Made' \cup {None}, branch' = [branch EXCEPT ![k] = c]
        PROVE  branch' \in [Queued -> Made' \cup {None}]
    BY <1>1, <1>2
  <1> QED BY <1>1, <1>2

LEMMA BranchStep ==
  ASSUME ForgeInv, [Steps]_vars
  PROVE  branch' \in [Queued -> Made' \cup {None}]
  <1> USE DEF ForgeInv
  <1>0. Made \subseteq Made' BY OnwardStep DEF Onward, Grew
  <1>1. CASE ClearBranch \/ DeleteBranch
    BY <1>0, <1>1, DropMeans, BranchSet DEF Dropped
  <1>2. CASE CreateRef \/ ResetRef
    <2>1. eng.base \in Made' \cup {None} BY <1>0 DEF MadeOnly
    <2>2. branch' = branch \/ branch' = [branch EXCEPT ![row.id] = eng.base]
      BY <1>2, CreateMeans, ResetMeans
    <2> QED BY <1>0, <2>1, <2>2, BranchSet
  <1>3. CASE MergeHead
    <2>1. CASE NotMerged BY <1>0, <2>1, BranchSet DEF NotMerged
    <2>2. CASE Merged
      <3>1. Fresh \in Made' BY <1>3, <2>2, MergeGrows
      <3> QED BY <1>0, <2>2, <3>1, BranchSet DEF Merged
    <2> QED BY <1>3, <2>1, <2>2, MergeMeans
  <1>4. CASE Boot
    <2>1. branch \in [Queued -> Made' \cup {None}] BY <1>0 DEF Types, MadeOnly
    <2> QED BY <1>4, <2>1 DEF Boot
  <1>5. CASE World
    <2>1. CASE Pushed BY <1>0, <2>1, BranchSet DEF Pushed
    <2>2. CASE Meddled BY <1>0, <2>2, BranchSet DEF Meddled
    <2> QED BY <1>5, <2>1, <2>2, WorldMeans
  <1>6. CASE \/ FormBatch \/ ResolveBase \/ ReadTip \/ Built \/ FastForward \/ LandOne
             \/ Landed \/ Pass \/ Fail \/ Enqueue \/ RemoveEntry \/ Crash
             \/ UNCHANGED vars
    <2>1. branch' = branch
      BY <1>6 DEF FormBatch, ResolveBase, ReadTip, Built, FastForward, LandOne, Landed,
        Pass, Fail, Enqueue, RemoveEntry, Crash, vars, github
    <2> QED BY <1>0, <2>1, BranchSet
  <1>7. CASE NoticeMerged /\ UNCHANGED <<ours, events, faults>>
    BY <1>0, <1>7, BranchSet DEF NoticeMerged, refs
  <1>8. CASE Eject \/ EnsureMergedOrClose
    BY <1>0, <1>8, BranchSet, EjectMeans, CloseMeans
  <1> QED BY <1>1, <1>2, <1>3, <1>4, <1>5, <1>6, <1>7, <1>8, Zenon DEF Steps, Engine

(* What the engine and the batch name.                                     *)
LEMMA StackedNames ==
  ASSUME Types, NEW sha
  PROVE  /\ Stacked(sha) => eng'.base = eng.base /\ eng'.tip = sha
         /\ NotStacked => eng'.base = eng.base /\ eng'.tip = eng.tip
         /\ \A at : Goto(at) => eng'.base = eng.base /\ eng'.tip = eng.tip
         /\ \A at : [Idle EXCEPT !.at = at].base = None
                    /\ [Idle EXCEPT !.at = at].tip = None
         /\ EjectCurrent => eng'.base = None /\ eng'.tip = None
         /\ Idle.base = None /\ Idle.tip = None
  BY DEF Types, Eng, Stacked, NotStacked, Goto, EjectCurrent, Idle

LEMMA NextNames ==
  ASSUME Types, Next(row)
  PROVE  row'.sha = None /\ eng'.base = None /\ eng'.tip = None
  BY DEF Next, Types, Row, NoRow, Idle

LEMMA RebuildNames ==
  ASSUME Types, NEW c, NEW p, Rebuild(c, p)
  PROVE  row'.sha = None /\ eng'.base = None /\ eng'.tip = None
  BY DEF Rebuild, Types, Row, Idle

LEMMA NamesStep ==
  ASSUME ForgeInv, [Steps]_vars
  PROVE  {row'.sha, eng'.base, eng'.tip} \subseteq Made' \cup {None}
  <1> USE DEF ForgeInv
  <1>0. /\ {row.sha, eng.base, eng.tip} \subseteq Made' \cup {None}
        /\ target \in Made' \cup {None} /\ Made \subseteq Made'
    BY OnwardStep DEF Onward, Grew, MadeOnly
  <1>1. CASE FormBatch \/ Pass
    BY <1>0, <1>1 DEF FormBatch, Pass, Goto, Types, Eng
  <1>2. CASE ClearBranch
    BY <1>0, <1>2 DEF ClearBranch, Keep, Idle
  <1>3. CASE ResolveBase
    <2>1. row' = row BY <1>3 DEF ResolveBase, Keep
    <2>2. CASE eng' = [eng EXCEPT !.base = target, !.at = "create"]
      BY <1>0, <2>1, <2>2 DEF Types, Eng
    <2>3. CASE NotStacked BY <1>0, <2>1, <2>3, StackedNames
    <2> QED BY <1>3, <2>2, <2>3 DEF ResolveBase
  <1>4. CASE CreateRef \/ ResetRef
    <2>1. row' = row BY <1>4 DEF CreateRef, ResetRef, Keep
    <2>2. Goto("reset") \/ Goto("merge") \/ NotStacked
      BY <1>4, CreateMeans, ResetMeans
    <2> QED BY <1>0, <2>1, <2>2, StackedNames
  <1>5. CASE MergeHead
    <2>1. row' = row BY <1>5 DEF MergeHead, Keep
    <2>2. CASE NotMerged
      <3>1. NotStacked \/ Stacked(eng.base) \/ Goto("tip") BY <2>2 DEF NotMerged
      <3> QED BY <1>0, <2>1, <3>1, StackedNames
    <2>3. CASE Merged
      <3>1. Fresh \in Made' BY <1>5, <2>3, MergeGrows
      <3>2. NotStacked \/ Stacked(Fresh) BY <2>3 DEF Merged
      <3> QED BY <1>0, <2>1, <3>1, <3>2, StackedNames
    <2> QED BY <1>5, <2>2, <2>3, MergeMeans
  <1>6. CASE ReadTip
    <2>1. row' = row BY <1>6 DEF ReadTip, Keep
    <2>2. row.id \in Queued BY <1>6, Building DEF ReadTip, Step, Stacking
    <2>3. branch[row.id] \in Made' \cup {None} BY <1>0, <2>2 DEF MadeOnly
    <2>4. Stacked(branch[row.id]) \/ NotStacked BY <1>6 DEF ReadTip
    <2> QED BY <1>0, <2>1, <2>3, <2>4, StackedNames
  <1>7. CASE Eject
    BY <1>0, <1>7, EjectMeans, Typed DEF Row
  <1>8. CASE Built
    <2>1. CASE Next(row) BY <2>1, NextNames
    <2>2. CASE /\ row' = [row EXCEPT !.state = "testing", !.sha = eng.tip]
               /\ eng' = Idle
      BY <1>0, <2>2, Typed DEF Row, Idle
    <2> QED BY <1>8, <2>1, <2>2 DEF Built
  <1>9. CASE DeleteBranch
    BY <1>0, <1>9, StackedNames DEF DeleteBranch, Keep
  <1>10. CASE FastForward
    <2>1. CASE NotLanded
      <3>1. CASE Rebuild(row.current, row.pending) BY <3>1, RebuildNames
      <3>2. CASE row' = row /\ (EjectCurrent \/ eng' = Idle)
        BY <1>0, <3>2, StackedNames
      <3> QED BY <2>1, <3>1, <3>2 DEF NotLanded
    <2>2. CASE Forwarded
      <3>1. [eng EXCEPT !.at = "land", !.todo = row.current].base = eng.base
            /\ [eng EXCEPT !.at = "land", !.todo = row.current].tip = eng.tip
        BY Typed DEF Eng
      <3>2. {eng'.base, eng'.tip} \subseteq Made' \cup {None}
        BY <1>0, <2>2, <3>1, StackedNames DEF Forwarded
      <3> QED BY <1>0, <2>2, <3>2 DEF Forwarded
    <2> QED BY <1>10, <2>1, <2>2, ForwardMeans
  <1>11. CASE LandOne
    BY <1>0, <1>11, Typed DEF LandOne, Eng, Row
  <1>12. CASE Landed BY <1>12, NextNames DEF Landed
  <1>13. CASE Fail
    <2>1. (row' = row /\ EjectCurrent) \/ \E c, p : Rebuild(c, p)
      BY <1>13 DEF Fail
    <2> QED BY <1>0, <2>1, RebuildNames, StackedNames
  <1>14. CASE RemoveEntry
    <2>1. PICK p : \/ Rebuild(row.current \ {p}, row.pending)
                   \/ row' = [row EXCEPT !.pending = @ \ {p}] /\ UNCHANGED eng
      BY <1>14 DEF RemoveEntry
    <2>2. CASE Rebuild(row.current \ {p}, row.pending) BY <2>2, RebuildNames
    <2>3. CASE row' = [row EXCEPT !.pending = @ \ {p}] /\ UNCHANGED eng
      BY <1>0, <2>3, Typed DEF Row
    <2> QED BY <2>1, <2>2, <2>3
  <1>15. CASE Crash
    BY <1>0, <1>15, StackedNames DEF Crash
  <1>16. CASE Boot
    BY <1>0, <1>16, StackedNames DEF Boot
  <1>17. CASE EnsureMergedOrClose BY <1>0, <1>17, CloseMeans
  <1>18. CASE World BY <1>0, <1>18, WorldMeans
  <1>19. CASE \/ Enqueue \/ UNCHANGED vars
              \/ NoticeMerged /\ UNCHANGED <<ours, events, faults>>
    BY <1>0, <1>19 DEF Enqueue, ours, vars
  <1> QED
    BY <1>1, <1>2, <1>3, <1>4, <1>5, <1>6, <1>7, <1>8, <1>9, <1>10, <1>11, <1>12,
       <1>13, <1>14, <1>15, <1>16, <1>17, <1>18, <1>19, Zenon DEF Steps, Engine

LEMMA TypesStep ==
  ASSUME ForgeInv, [Steps]_vars
  PROVE  Types' /\ MadeOnly'
  <1>1. Made' \subseteq Commits' /\ target' \in Made'
    BY OnwardStep DEF Onward, Made
  <1>2. branch' \in [Queued -> Made' \cup {None}] BY BranchStep
  <1>3. {row'.sha, eng'.base, eng'.tip} \subseteq Made' \cup {None} BY NamesStep
  <1>4. row' \in Row /\ eng' \in Eng BY RecordTypes DEF ForgeInv
  <1>5. queued' \subseteq PRs /\ closing' \subseteq PRs /\ ghost' \subseteq PRs
    BY QueueTypes DEF ForgeInv
  <1>6. /\ squatted' \in BOOLEAN /\ protected' \in BOOLEAN
        /\ open' \subseteq PRs /\ auto' \subseteq PRs
        /\ events' \in 0 .. MaxEvents /\ faults' \in 0 .. MaxFaults
    BY SetTypes DEF ForgeInv
  <1>7. branch' \in [Queued -> Commits \cup {None}]
    <2>1. Made' \subseteq Commits BY DEF Made
    <2> QED BY <1>2, <2>1
  <1>8. target' \in Commits BY <1>1 DEF Made
  <1>9. \A k \in Queued : branch'[k] \in Made' \cup {None} BY <1>2
  <1>10. Types' BY <1>4, <1>5, <1>6, <1>7, <1>8, Zenon DEF Types
  <1> QED BY <1>1, <1>3, <1>9, <1>10 DEF MadeOnly

(***************************************************************************)
(* The engine's program.                                                   *)
(***************************************************************************)

LEMMA StackedMeans ==
  ASSUME Types
  PROVE  /\ \A sha \in Commits : Stacked(sha) =>
              /\ eng'.todo = eng.todo \ {Head} /\ eng'.surv = eng.surv \cup {Head}
              /\ eng'.base = eng.base /\ eng'.tip = sha /\ sha # None
              /\ eng'.at = IF eng'.todo = {} THEN "eject" ELSE "merge"
         /\ NotStacked =>
              /\ eng'.todo = eng.todo \ {Head} /\ eng'.surv = eng.surv
              /\ eng'.base = eng.base /\ eng'.tip = eng.tip
              /\ eng'.at = IF eng'.todo = {} THEN "eject"
                           ELSE IF eng.tip = None THEN "base" ELSE "merge"
         /\ \A at : Goto(at) =>
              /\ eng'.todo = eng.todo /\ eng'.surv = eng.surv
              /\ eng'.base = eng.base /\ eng'.tip = eng.tip /\ eng'.at = at
  <1>1. ASSUME NEW sha \in Commits, Stacked(sha)
        PROVE  /\ eng'.todo = eng.todo \ {Head} /\ eng'.surv = eng.surv \cup {Head}
               /\ eng'.base = eng.base /\ eng'.tip = sha /\ sha # None
               /\ eng'.at = IF eng'.todo = {} THEN "eject" ELSE "merge"
    BY <1>1, Numbers, Typed DEF Eng, Stacked, After
  <1>2. ASSUME NotStacked
        PROVE  /\ eng'.todo = eng.todo \ {Head} /\ eng'.surv = eng.surv
               /\ eng'.base = eng.base /\ eng'.tip = eng.tip
               /\ eng'.at = IF eng'.todo = {} THEN "eject"
                            ELSE IF eng.tip = None THEN "base" ELSE "merge"
    BY <1>2, Typed DEF Eng, NotStacked, After
  <1>3. ASSUME NEW at, Goto(at)
        PROVE  /\ eng'.todo = eng.todo /\ eng'.surv = eng.surv
               /\ eng'.base = eng.base /\ eng'.tip = eng.tip /\ eng'.at = at
    BY <1>3, Typed DEF Eng, Goto
  <1> QED BY <1>1, <1>2, <1>3

(* The engine starts over, somewhere else.                                 *)
Fresher(at) ==
    /\ eng'.at = at /\ eng'.todo = {} /\ eng'.surv = {}
    /\ eng'.base = None /\ eng'.tip = None

LEMMA RestMeans ==
  /\ eng' = Idle => Fresher("idle")
  /\ EjectCurrent => Fresher("eject")
  /\ \A at : eng' = [Idle EXCEPT !.at = at] => Fresher(at)
  BY DEF Idle, Fresher, EjectCurrent

LEMMA RebuildMeans ==
  ASSUME Types, NEW c, NEW p, Rebuild(c, p)
  PROVE  /\ row'.id = row.id /\ row'.state = "forming"
         /\ row'.current = c /\ row'.pending = p /\ row'.sha = None
         /\ Fresher("clear")
  <1>1. /\ row'.id = row.id /\ row'.state = "forming"
        /\ row'.current = c /\ row'.pending = p /\ row'.sha = None
    BY Typed DEF Rebuild, Row
  <1> QED BY <1>1, RestMeans DEF Rebuild

LEMMA NextMeans ==
  ASSUME Types, Next(row)
  PROVE  /\ row'.id = row.id /\ row'.pending = {} /\ row'.sha = None
         /\ row'.current = row.pending
         /\ \/ row'.state = "forming" /\ Fresher("clear")
            \/ row'.state = "none" /\ row.pending = {} /\ Fresher("delete")
  <1>1. CASE row.pending # {}
    <2>1. /\ row' = [row EXCEPT !.state = "forming", !.current = row.pending,
                                !.pending = {}, !.sha = None]
          /\ eng' = [Idle EXCEPT !.at = "clear"]
      BY <1>1 DEF Next
    <2> QED BY <2>1, Typed, RestMeans DEF Row
  <1>2. CASE row.pending = {}
    <2>1. /\ row' = [NoRow EXCEPT !.id = row.id]
          /\ eng' = [Idle EXCEPT !.at = "delete"]
      BY <1>2 DEF Next
    <2> QED BY <1>2, <2>1, RestMeans DEF NoRow
  <1> QED BY <1>1, <1>2

LEMMA ProgramStep ==
  ASSUME ForgeInv, [Steps]_vars
  PROVE  Program'
  <1> USE DEF ForgeInv, Resting, Stacking
  <1>0. /\ row \in Row /\ eng \in Eng /\ eng.todo \subseteq PRs
        /\ row.current \subseteq PRs /\ row.pending \subseteq PRs
        /\ row.id \in 0 .. MaxBatches
    BY Typed
  <1>1. CASE FormBatch
    <2>1. /\ row'.id = row.id + 1 /\ row'.state = "forming" /\ row'.pending = {}
          /\ row'.current = queued
      BY <1>1 DEF FormBatch
    <2>2. /\ eng'.at = "clear" /\ eng'.todo = {} /\ eng'.surv = {}
      BY <1>1, StackedMeans DEF FormBatch, Step, Program
    <2> QED BY <1>0, <2>1, <2>2, Bounds DEF Program
  <1>2. CASE ClearBranch
    <2>1. row' = row /\ row.state = "forming"
      BY <1>2 DEF ClearBranch, Keep, Program, Step
    <2>2. /\ eng'.todo = row.current /\ eng'.surv = {} /\ eng'.tip = None
          /\ eng'.at = IF row.current = {} THEN "eject" ELSE "base"
      BY <1>2 DEF ClearBranch, Idle, After
    <2> QED BY <2>1, <2>2 DEF Program
  <1>3. ASSUME NotStacked, row' = row, eng.at \in Stacking
        PROVE  Program'
    <2>1. /\ eng'.todo = eng.todo \ {Head} /\ eng'.surv = eng.surv
          /\ eng'.tip = eng.tip
          /\ eng'.at = IF eng'.todo = {} THEN "eject"
                       ELSE IF eng.tip = None THEN "base" ELSE "merge"
      BY <1>3, StackedMeans
    <2> QED BY <1>3, <2>1 DEF Program
  <1>4. ASSUME NEW sha \in Commits, Stacked(sha), row' = row, eng.at \in Stacking
        PROVE  Program'
    <2>1. /\ eng'.todo = eng.todo \ {Head} /\ eng'.surv = eng.surv \cup {Head}
          /\ eng'.tip = sha /\ sha # None
          /\ eng'.at = IF eng'.todo = {} THEN "eject" ELSE "merge"
      BY <1>4, StackedMeans
    <2>2. Head \in eng.todo BY <1>4, Building
    <2> QED BY <1>4, <2>1, <2>2 DEF Program
  <1>5. CASE ResolveBase
    <2>1. row' = row BY <1>5 DEF ResolveBase, Keep
    <2>2. CASE eng' = [eng EXCEPT !.base = target, !.at = "create"]
      <3>1. /\ eng'.todo = eng.todo /\ eng'.surv = eng.surv /\ eng'.tip = eng.tip
            /\ eng'.base = target /\ eng'.at = "create"
        BY <1>0, <2>2 DEF Eng
      <3>2. target # None BY Numbers DEF MadeOnly, Made
      <3> QED BY <1>5, <2>1, <3>1, <3>2 DEF Program, ResolveBase, Step
    <2> QED BY <1>3, <1>5, <2>1, <2>2 DEF ResolveBase, Step
  <1>6. CASE CreateRef \/ ResetRef
    <2>1. row' = row BY <1>6 DEF CreateRef, ResetRef, Keep
    <2>2. eng.at \in {"create", "reset"} BY <1>6 DEF CreateRef, ResetRef, Step
    <2>3. CASE Goto("reset") \/ Goto("merge")
      <3>1. /\ eng'.todo = eng.todo /\ eng'.surv = eng.surv /\ eng'.tip = eng.tip
            /\ eng'.base = eng.base /\ eng'.at \in {"reset", "merge"}
        BY <2>3, StackedMeans
      <3> QED BY <2>1, <2>2, <3>1 DEF Program
    <2> QED BY <1>3, <1>6, <2>1, <2>2, <2>3, CreateMeans, ResetMeans
  <1>7. CASE MergeHead
    <2>1. row' = row /\ eng.at = "merge" BY <1>7 DEF MergeHead, Keep, Step
    <2>2. CASE NotMerged
      <3>1. CASE NotStacked BY <1>3, <2>1, <3>1
      <3>2. CASE eng.tip = None /\ Stacked(eng.base)
        <4>1. eng.base # None BY <2>1, <3>2 DEF Program
        <4>2. eng.base \in Commits BY <1>0, <4>1 DEF Eng
        <4> QED BY <1>4, <2>1, <3>2, <4>2
      <3>3. CASE eng.tip # None /\ Goto("tip")
        <4>1. /\ eng'.todo = eng.todo /\ eng'.surv = eng.surv /\ eng'.tip = eng.tip
              /\ eng'.base = eng.base /\ eng'.at = "tip"
          BY <3>3, StackedMeans
        <4> QED BY <2>1, <3>3, <4>1 DEF Program
      <3> QED BY <2>2, <3>1, <3>2, <3>3 DEF NotMerged
    <2>3. CASE Merged
      <3>1. Fresh \in Commits BY <1>7, <2>3, MergeGrows
      <3>2. CASE Stacked(Fresh) BY <1>4, <2>1, <3>1, <3>2
      <3> QED BY <1>3, <2>1, <2>3, <3>2 DEF Merged
    <2> QED BY <1>7, <2>2, <2>3, MergeMeans
  <1>8. CASE ReadTip
    <2>1. row' = row /\ eng.at = "tip" BY <1>8 DEF ReadTip, Keep, Step
    <2>2. row.id \in Queued BY <2>1, Building
    <2>3. CASE branch[row.id] # None /\ Stacked(branch[row.id])
      <3>1. branch[row.id] \in Commits BY <2>2, <2>3 DEF Types
      <3> QED BY <1>4, <2>1, <2>3, <3>1
    <2> QED BY <1>3, <1>8, <2>1, <2>3 DEF ReadTip
  <1>9. CASE Eject
    <2>1. PICK p \in row.current \ eng.surv : row' = [row EXCEPT !.current = @ \ {p}]
      BY <1>9, EjectMeans
    <2>2. eng' = eng /\ eng.at = "eject" BY <1>9, EjectMeans DEF Eject, Step
    <2>3. /\ row'.id = row.id /\ row'.state = row.state
          /\ row'.current = row.current \ {p} /\ row'.pending = row.pending
      BY <1>0, <2>1 DEF Row
    <2> QED BY <2>2, <2>3 DEF Program
  <1>10. ASSUME Next(row), row.id # 0
         PROVE  Program'
    BY <1>10, NextMeans DEF Program, Fresher
  <1>11. CASE Built
    <2>1. eng.at = "eject" /\ row.state # "none" /\ row.id # 0
      BY <1>11 DEF Built, Step, Program
    <2>2. CASE /\ row' = [row EXCEPT !.state = "testing", !.sha = eng.tip]
               /\ eng' = Idle
      <3>1. /\ row'.id = row.id /\ row'.state = "testing"
            /\ row'.current = row.current /\ row'.pending = row.pending
        BY <1>0, <2>2 DEF Row
      <3> QED BY <2>1, <2>2, <3>1, RestMeans DEF Program, Fresher
    <2> QED BY <1>10, <1>11, <2>1, <2>2 DEF Built
  <1>12. CASE DeleteBranch
    BY <1>12, RestMeans DEF DeleteBranch, Keep, Program, Fresher
  <1>13. ASSUME NEW c, NEW p, Rebuild(c, p), c \cap p = {}, row.id # 0
         PROVE  Program'
    BY <1>13, RebuildMeans DEF Program, Fresher
  <1>14. CASE FastForward
    <2>1. eng.at = "ff" /\ row.state = "testing" /\ row.id # 0
      BY <1>14 DEF FastForward, Step, Program
    <2>2. CASE NotLanded
      <3>1. CASE Rebuild(row.current, row.pending)
        BY <1>13, <2>1, <3>1 DEF Program
      <3>2. CASE row' = row /\ (EjectCurrent \/ eng' = Idle)
        BY <2>1, <3>2, RestMeans DEF Program, Fresher
      <3> QED BY <2>2, <3>1, <3>2 DEF NotLanded
    <2>3. CASE Forwarded
      <3>1. CASE eng' = Idle
        BY <2>1, <2>3, <3>1, RestMeans DEF Forwarded, Program, Fresher
      <3>2. CASE eng' = [eng EXCEPT !.at = "land", !.todo = row.current]
        <4>1. /\ eng'.at = "land" /\ eng'.todo = row.current
              /\ eng'.surv = eng.surv /\ eng'.tip = eng.tip
          BY <1>0, <3>2 DEF Eng
        <4> QED BY <2>1, <2>3, <4>1 DEF Forwarded, Program
      <3> QED BY <2>3, <3>1, <3>2 DEF Forwarded
    <2> QED BY <1>14, <2>2, <2>3, ForwardMeans
  <1>15. CASE LandOne
    <2>1. /\ row'.id = row.id /\ row'.state = row.state
          /\ row'.current = row.current \ {Head} /\ row'.pending = row.pending
      BY <1>0, <1>15 DEF LandOne, Row
    <2>2. /\ eng'.at = "land" /\ eng'.todo = eng.todo \ {Head}
          /\ eng'.surv = eng.surv /\ eng'.tip = eng.tip
      BY <1>0, <1>15 DEF LandOne, Eng, Step
    <2>3. eng.at = "land" BY <1>15 DEF LandOne, Step
    <2> QED BY <2>1, <2>2, <2>3 DEF Program
  <1>16. CASE Landed
    BY <1>10, <1>16 DEF Landed, Step, Program
  <1>17. CASE Pass
    BY <1>17, StackedMeans DEF Pass, Testing, Step, Program
  <1>18. CASE Fail
    <2>1. row.state = "testing" /\ row.id # 0 /\ eng.at = "idle"
      BY <1>18 DEF Fail, Testing, Step, Program
    <2>2. CASE EjectCurrent /\ row' = row
      BY <2>1, <2>2, RestMeans DEF Program, Fresher
    <2>3. CASE \E left \in SUBSET row.current :
                 Rebuild(left, row.pending \cup (row.current \ left))
      <3>1. PICK left \in SUBSET row.current :
              Rebuild(left, row.pending \cup (row.current \ left))
        BY <2>3
      <3>2. left \cap (row.pending \cup (row.current \ left)) = {} BY DEF Program
      <3> QED BY <1>13, <2>1, <3>1, <3>2
    <2> QED BY <1>18, <2>2, <2>3 DEF Fail
  <1>19. CASE RemoveEntry
    <2>1. PICK p : \/ p \in row.current /\ Rebuild(row.current \ {p}, row.pending)
                   \/ row' = [row EXCEPT !.pending = @ \ {p}] /\ eng' = eng
      BY <1>19 DEF RemoveEntry
    <2>2. CASE p \in row.current /\ Rebuild(row.current \ {p}, row.pending)
      <3>1. row.id # 0 /\ (row.current \ {p}) \cap row.pending = {}
        BY <2>2 DEF Program
      <3> QED BY <1>13, <2>2, <3>1
    <2>3. CASE row' = [row EXCEPT !.pending = @ \ {p}] /\ eng' = eng
      <3>1. /\ row'.id = row.id /\ row'.state = row.state
            /\ row'.current = row.current /\ row'.pending = row.pending \ {p}
        BY <1>0, <2>3 DEF Row
      <3> QED BY <2>3, <3>1 DEF Program
    <2> QED BY <2>1, <2>2, <2>3
  <1>20. CASE Crash
    BY <1>20, RestMeans DEF Crash, Program, Fresher
  <1>21. CASE Boot
    BY <1>21, StackedMeans DEF Boot, Program, Step
  <1>22. ASSUME row' = row, eng' = eng PROVE Program'
    BY <1>22 DEF Program
  <1>23. CASE EnsureMergedOrClose BY <1>22, <1>23, CloseMeans
  <1>24. CASE World BY <1>22, <1>24, WorldMeans
  <1>25. CASE \/ Enqueue \/ UNCHANGED vars
              \/ NoticeMerged /\ UNCHANGED <<ours, events, faults>>
    BY <1>22, <1>25 DEF Enqueue, ours, vars
  <1> QED
    BY <1>1, <1>2, <1>5, <1>6, <1>7, <1>8, <1>9, <1>11, <1>12, <1>14, <1>15, <1>16,
       <1>17, <1>18, <1>19, <1>20, <1>21, <1>23, <1>24, <1>25, Zenon
       DEF Steps, Engine

(***************************************************************************)
(* What a build holds.                                                     *)
(***************************************************************************)

LEMMA HoldsStays ==
  ASSUME Graph, Onward, NEW c \in Made
  PROVE  /\ In(c)' = In(c)
         /\ \A S : Holds(c, S) => Holds(c, S)'
         /\ \A S : S \subseteq In(target) => S \subseteq In(target)'
  BY DEF Onward, Grew, In, Holds

(* A step that leaves the build, and at most removes its branch.           *)
Still == eng' = eng /\ row'.id = row.id /\ Branch' \in {Branch, None}

(* A step after which nothing is being built or landed.                    *)
Away == /\ eng'.at \notin {"create", "reset", "merge", "tip", "land"}
        /\ eng'.at = "eject" => eng'.tip = None

LEMMA AwayHolds ==
  ASSUME Away
  PROVE  Based' /\ StackHolds' /\ Landing'
  BY DEF Away, Based, StackHolds, Landing

(* A build that is under way has made commits.                             *)
LEMMA BuildNames ==
  ASSUME ForgeInv
  PROVE  /\ eng.tip # None => eng.tip \in Made
         /\ eng.base # None => eng.base \in Made
         /\ eng.at \in {"create", "reset"} => eng.base \in Made
         /\ eng.at = "merge" /\ eng.tip = None => eng.base \in Made
         /\ row.state = "testing" => row.sha \in Made
         /\ eng.at \in Stacking /\ Branch # None => Branch \in Made
  <1>1. eng.at \in Stacking /\ Branch # None => Branch \in Made
    BY Building DEF ForgeInv
  <1> QED BY <1>1 DEF ForgeInv, MadeOnly, Program, Tested

LEMMA StillHolds ==
  ASSUME ForgeInv, Onward, Still
  PROVE  Based' /\ StackHolds' /\ Landing'
  <1> USE DEF ForgeInv
  <1>0. Head' = Head BY DEF Still, Head
  <1>1. Based'
    <2> SUFFICES ASSUME eng.at \in {"create", "reset", "merge"}, eng.tip = None
                 PROVE  /\ In(eng.base)' \subseteq In(target)'
                        /\ eng.at = "merge" => Branch' \in {None, eng.base}
      BY DEF Still, Based, In
    <2>1. eng.base \in Made BY BuildNames
    <2>2. In(eng.base) \subseteq In(target)
          /\ (eng.at = "merge" => Branch \in {None, eng.base})
      BY DEF Based
    <2>3. In(eng.base)' = In(eng.base)
      BY <2>1, HoldsStays DEF Still, Onward, Grew, In
    <2>4. In(target) \subseteq In(target)' BY DEF Onward
    <2> QED BY <2>2, <2>3, <2>4 DEF Still
  <1>2. StackHolds'
    <2> SUFFICES ASSUME eng.at \in {"merge", "tip", "eject"}, eng.tip # None
                 PROVE  /\ Holds(eng.tip, eng.surv)'
                        /\ eng.at # "eject" /\ Branch' # None => Holds(Branch, eng.surv)'
                        /\ eng.at = "tip" /\ Branch' # None => Head \in In(Branch)'
      BY <1>0 DEF Still, StackHolds
    <2>1. Holds(eng.tip, eng.surv)'
      <3>1. eng.tip \in Made /\ Holds(eng.tip, eng.surv)
        BY BuildNames DEF StackHolds
      <3>2. /\ eng.surv \subseteq history'[eng.tip] \cap PRs
            /\ history'[eng.tip] \cap PRs
                  \subseteq eng.surv \cup In(target)' \cup ghost'
        BY <3>1 DEF Onward, Grew, In, Holds
      <3> QED BY <3>2 DEF Still, Holds, In
    <2>2. CASE eng.at # "eject" /\ Branch' # None
      <3>1. Branch' = Branch /\ Branch # None /\ Branch \in Made
        BY <2>2, BuildNames DEF Still, Stacking
      <3>2. Holds(Branch, eng.surv) BY <2>2, <3>1 DEF StackHolds
      <3>3. history'[Branch'] = history[Branch] BY <3>1 DEF Onward, Grew
      <3>4. /\ eng.surv \subseteq history'[Branch'] \cap PRs
            /\ history'[Branch'] \cap PRs \subseteq eng.surv \cup In(target)' \cup ghost'
        BY <3>2, <3>3 DEF Onward, In, Holds
      <3>5. Holds(Branch, eng.surv)' BY <3>4 DEF Still, Holds, In
      <3>6. eng.at = "tip" => Head \in In(Branch)
        BY <2>2, <3>1 DEF StackHolds
      <3>7. eng.at = "tip" => Head \in In(Branch)'
        BY <1>0, <3>3, <3>6 DEF In
      <3> QED BY <2>1, <3>5, <3>7
    <2> QED BY <2>1, <2>2
  <1>3. Landing' BY DEF Still, Landing, Onward
  <1> QED BY <1>1, <1>2, <1>3

(* A build that holds S goes on holding it.                                *)
LEMMA KeepsHolding ==
  ASSUME Onward, NEW c \in Made, NEW S, Holds(c, S)
  PROVE  /\ S \subseteq history'[c] \cap PRs
         /\ history'[c] \cap PRs \subseteq S \cup In(target)' \cup ghost'
  BY DEF Onward, Grew, In, Holds

LEMMA NotStackedHolds ==
  ASSUME ForgeInv, Onward, NotStacked, row' = row, eng.at \in Stacking,
         eng.tip # None /\ Branch' # None =>
            /\ eng.surv \subseteq In(Branch)'
            /\ In(Branch)' \subseteq eng.surv \cup In(target)' \cup ghost',
         eng.tip = None => eng.at # "tip",
         eng.tip # None => eng.at \in {"merge", "tip"}
  PROVE  Based' /\ StackHolds' /\ Landing'
  <1> USE DEF ForgeInv
  <1>1. /\ eng'.surv = eng.surv /\ eng'.tip = eng.tip
        /\ eng'.at \in {"eject", "base", "merge"}
        /\ eng'.at = "merge" => eng.tip # None
    BY StackedMeans
  <1>2. Based' /\ Landing' BY <1>1 DEF Based, Landing
  <1>3. CASE eng.tip = None BY <1>1, <1>2, <1>3 DEF StackHolds
  <1>4. CASE eng.tip # None
    <2>1. eng.tip \in Made /\ Holds(eng.tip, eng.surv)
      BY <1>4, BuildNames DEF StackHolds
    <2>2. /\ eng.surv \subseteq history'[eng.tip] \cap PRs
          /\ history'[eng.tip] \cap PRs \subseteq eng.surv \cup In(target)' \cup ghost'
      BY <2>1, KeepsHolding
    <2>3. Holds(eng.tip, eng.surv)' BY <1>1, <2>2 DEF Holds, In
    <2>4. Branch' # None => Holds(Branch, eng.surv)' BY <1>1, <1>4 DEF Holds
    <2> QED BY <1>1, <1>2, <2>3, <2>4 DEF StackHolds
  <1> QED BY <1>3, <1>4

(* A head is in the commit sha, which holds what was stacked before it.    *)
LEMMA StackedHolds ==
  ASSUME ForgeInv, Onward, NEW sha \in Commits, Stacked(sha), row' = row,
         eng.at \in Stacking,
         eng.surv \cup {Head} \subseteq In(sha)',
         In(sha)' \subseteq eng.surv \cup {Head} \cup In(target)' \cup ghost',
         Branch' \in {None, sha}
  PROVE  Based' /\ StackHolds' /\ Landing'
  <1> USE DEF ForgeInv
  <1>1. /\ eng'.surv = eng.surv \cup {Head} /\ eng'.tip = sha /\ sha # None
        /\ eng'.at \in {"eject", "merge"}
    BY StackedMeans
  <1>2. Based' /\ Landing' BY <1>1 DEF Based, Landing
  <1>3. /\ eng'.surv \subseteq history'[eng'.tip] \cap PRs
        /\ history'[eng'.tip] \cap PRs \subseteq eng'.surv \cup In(target)' \cup ghost'
    BY <1>1 DEF In
  <1>4. Holds(eng.tip, eng.surv)' BY <1>3 DEF Holds, In
  <1>5. Branch' # None => Holds(Branch, eng.surv)'
    BY <1>1, <1>3 DEF Holds, In
  <1> QED BY <1>1, <1>2, <1>4, <1>5 DEF StackHolds

LEMMA ResolveHolds ==
  ASSUME ForgeInv, Onward, ResolveBase
  PROVE  Based' /\ StackHolds' /\ Landing'
  <1> USE DEF ForgeInv
  <1>1. row' = row /\ eng.at = "base" /\ eng.tip = None
    BY DEF ResolveBase, Keep, Step, Program
  <1>2. CASE NotStacked
    BY <1>1, <1>2, NotStackedHolds DEF Stacking
  <1>3. CASE eng' = [eng EXCEPT !.base = target, !.at = "create"]
    <2>1. eng'.base = target /\ eng'.at = "create" /\ eng'.tip = None
      BY <1>1, <1>3, Typed DEF Eng
    <2>2. target' = target BY DEF ResolveBase, github
    <2> QED BY <2>1, <2>2 DEF Based, StackHolds, Landing, In
  <1> QED BY <1>2, <1>3 DEF ResolveBase

LEMMA CreateHolds ==
  ASSUME ForgeInv, Onward, CreateRef \/ ResetRef
  PROVE  Based' /\ StackHolds' /\ Landing'
  <1> USE DEF ForgeInv
  <1>1. /\ row' = row /\ eng.at \in {"create", "reset"} /\ eng.tip = None
        /\ eng.at \in Stacking /\ target' = target
    BY DEF CreateRef, ResetRef, Keep, Step, Program, Stacking
  <1>2. CASE NotStacked
    BY <1>1, <1>2, NotStackedHolds
  <1>3. eng.base \in Made /\ In(eng.base) \subseteq In(target)
    BY <1>1, BuildNames DEF Based
  <1>4. history'[eng.base] \cap PRs = In(eng.base) BY <1>3 DEF Onward, Grew, In
  <1>5. CASE \/ Goto("reset")
             \/ Goto("merge") /\ branch' = [branch EXCEPT ![row.id] = eng.base]
    <2>1. /\ eng'.base = eng.base /\ eng'.tip = None
          /\ eng'.at = "reset" \/ eng'.at = "merge"
      BY <1>1, <1>5, StackedMeans
    <2>2. eng'.at = "merge" => Branch' = eng.base
      <3>1. ASSUME eng'.at = "merge" PROVE Branch' = eng.base
        <4>1. Goto("reset") => eng'.at = "reset" BY StackedMeans
        <4>2. branch' = [branch EXCEPT ![row.id] = eng.base] BY <1>5, <3>1, <4>1
        <4>3. row.id \in Queued BY <1>1, Building
        <4> QED BY <1>1, <4>2, <4>3 DEF Branch, Types
      <3> QED BY <3>1
    <2>3. history'[eng'.base] \cap PRs \subseteq In(target)'
      BY <1>3, <1>4, <2>1 DEF Onward, In
    <2> QED BY <2>1, <2>2, <2>3 DEF Based, StackHolds, Landing, In
  <1> QED BY <1>2, <1>5, CreateMeans, ResetMeans

LEMMA MergeHolds ==
  ASSUME ForgeInv, Onward, MergeHead
  PROVE  Based' /\ StackHolds' /\ Landing'
  <1> USE DEF ForgeInv
  <1>1. /\ row' = row /\ eng.at = "merge" /\ eng.at \in Stacking /\ target' = target
    BY DEF MergeHead, Keep, Step, Stacking
  <1>2. row.id \in Queued /\ Head \in PRs /\ (Branch # None => Branch \in Made)
    BY <1>1, Building
  <1>3. ASSUME Branch # None
        PROVE  /\ eng.surv \subseteq In(Branch)
               /\ In(Branch) \subseteq eng.surv \cup In(target) \cup ghost
    <2>1. CASE eng.tip = None
      <3>1. eng.surv = {} BY <2>1 DEF Program
      <3>2. Branch = eng.base /\ In(eng.base) \subseteq In(target)
        BY <1>1, <1>3, <2>1 DEF Based
      <3> QED BY <3>1, <3>2
    <2>2. CASE eng.tip # None
      BY <1>1, <1>3, <2>2 DEF StackHolds, Holds
    <2> QED BY <2>1, <2>2
  <1>4. CASE NotMerged
    <2>1. branch' = branch /\ ghost' = ghost /\ Branch' = Branch
      BY <1>1, <1>4 DEF NotMerged, Branch
    <2>2. Branch # None => In(Branch)' = In(Branch)
      BY <1>2, <2>1 DEF Onward, Grew, In
    <2>3. CASE NotStacked
      BY <1>1, <1>3, <2>1, <2>2, <2>3, NotStackedHolds DEF Onward
    <2>4. CASE eng.tip = None /\ Stacked(eng.base) /\ Branch # None
               /\ isAncestor(Head, Branch)
      <3>1. Branch = eng.base /\ eng.base \in Commits /\ eng.surv = {}
        <4>1. Branch = eng.base /\ eng.surv = {} BY <1>1, <2>4 DEF Based, Program
        <4> QED BY <1>2, <2>4, <4>1 DEF Made
      <3>2. /\ eng.surv \cup {Head} \subseteq In(Branch)
            /\ In(Branch) \subseteq In(target)
        BY <1>1, <1>2, <2>4, <3>1 DEF Based, In, isAncestor
      <3>3. In(Branch)' = In(Branch) /\ In(target) \subseteq In(target)'
        BY <2>2, <2>4 DEF Onward
      <3>4. history'[eng.base] \cap PRs = In(Branch)
        BY <2>1, <3>1, <3>3 DEF In
      <3>5. PICK c \in Commits : c = eng.base BY <3>1
      <3>6. /\ Stacked(c) /\ eng.surv \cup {Head} \subseteq In(c)'
            /\ In(c)' \subseteq eng.surv \cup {Head} \cup In(target)' \cup ghost'
            /\ Branch' \in {None, c}
        BY <2>1, <2>4, <3>1, <3>2, <3>3, <3>4, <3>5 DEF In
      <3> QED BY <1>1, <3>6, StackedHolds
    <2>5. CASE eng.tip # None /\ Goto("tip") /\ Branch # None /\ isAncestor(Head, Branch)
      <3>1. /\ eng'.surv = eng.surv /\ eng'.tip = eng.tip /\ eng'.todo = eng.todo
            /\ eng'.at = "tip"
        BY <2>5, StackedMeans
      <3>2. Head' = Head BY <3>1 DEF Head
      <3>3. Head \in In(Branch)' BY <1>2, <2>2, <2>5 DEF In, isAncestor
      <3>4. Holds(eng.tip, eng.surv)'
        <4>1. eng.tip \in Made /\ Holds(eng.tip, eng.surv)
          BY <1>1, <2>5, BuildNames DEF StackHolds
        <4>2. /\ eng.surv \subseteq history'[eng.tip] \cap PRs
              /\ history'[eng.tip] \cap PRs
                    \subseteq eng.surv \cup In(target)' \cup ghost'
          BY <4>1, KeepsHolding
        <4> QED BY <3>1, <4>2 DEF Holds, In
      <3>5. Holds(Branch, eng.surv)'
        BY <1>3, <2>1, <2>2, <2>5, <3>1 DEF Holds, Onward
      <3> QED BY <3>1, <3>2, <3>3, <3>4, <3>5 DEF Based, StackHolds, Landing
    <2> QED BY <1>4, <2>3, <2>4, <2>5 DEF NotMerged
  <1>5. CASE Merged
    <2>1. /\ Fresh \in Commits /\ Fresh \notin Made
          /\ history'[Fresh] = {Fresh} \cup history[Branch] \cup {0, Head}
          /\ \/ Stacked(Fresh) /\ ghost' = ghost
             \/ NotStacked /\ ghost' = ghost \cup {Head}
      BY <1>5, MergeGrows
    <2>2. Branch' = Fresh
      BY <1>1, <1>2, <1>5 DEF Merged, Branch, Types
    <2>3. Fresh \notin PRs BY <2>1, HeadsAreMade
    <2>4. history'[Fresh] \cap PRs = In(Branch) \cup {Head}
      BY <1>2, <2>1, <2>3, Numbers DEF In
    <2>5. /\ eng.surv \subseteq In(Branch)
          /\ In(Branch) \subseteq eng.surv \cup In(target)' \cup ghost
      BY <1>3, <1>5 DEF Merged, Onward
    <2>6. CASE NotStacked /\ ghost' = ghost \cup {Head}
      <3>1. In(Branch)' = In(Branch) \cup {Head} BY <2>2, <2>4 DEF In
      <3>2. /\ eng.surv \subseteq In(Branch)'
            /\ In(Branch)' \subseteq eng.surv \cup In(target)' \cup ghost'
        BY <2>5, <2>6, <3>1
      <3> QED BY <1>1, <2>6, <3>2, NotStackedHolds
    <2>7. CASE Stacked(Fresh) /\ ghost' = ghost
      <3>1. PICK c \in Commits : c = Fresh BY <2>1
      <3>2. /\ Stacked(c) /\ eng.surv \cup {Head} \subseteq In(c)'
            /\ In(c)' \subseteq eng.surv \cup {Head} \cup In(target)' \cup ghost'
            /\ Branch' \in {None, c}
        BY <2>2, <2>4, <2>5, <2>7, <3>1 DEF In
      <3> QED BY <1>1, <3>2, StackedHolds
    <2> QED BY <2>1, <2>6, <2>7
  <1> QED BY <1>4, <1>5, MergeMeans

LEMMA TipHolds ==
  ASSUME ForgeInv, Onward, ReadTip
  PROVE  Based' /\ StackHolds' /\ Landing'
  <1> USE DEF ForgeInv
  <1>1. /\ row' = row /\ eng.at = "tip" /\ eng.at \in Stacking /\ eng.tip # None
        /\ branch' = branch /\ Branch' = Branch /\ ghost' = ghost
    BY DEF ReadTip, Keep, Step, Stacking, Program, github, Branch
  <1>2. ASSUME Branch # None
        PROVE  /\ Branch \in Made /\ In(Branch)' = In(Branch)
               /\ eng.surv \subseteq In(Branch) /\ Head \in In(Branch)
               /\ In(Branch) \subseteq eng.surv \cup In(target)' \cup ghost'
    <2>1. Branch \in Made BY <1>1, <1>2, BuildNames
    <2>2. In(Branch)' = In(Branch) BY <1>1, <2>1 DEF Onward, Grew, In
    <2> QED BY <1>1, <1>2, <2>1, <2>2 DEF StackHolds, Holds, Onward
  <1>3. CASE NotStacked
    BY <1>1, <1>2, <1>3, NotStackedHolds
  <1>4. CASE Branch # None /\ Stacked(Branch)
    <2>1. PICK c \in Commits : c = Branch BY <1>2, <1>4 DEF Made
    <2>2. /\ Stacked(c) /\ eng.surv \cup {Head} \subseteq In(c)'
          /\ In(c)' \subseteq eng.surv \cup {Head} \cup In(target)' \cup ghost'
          /\ Branch' \in {None, c}
      BY <1>1, <1>2, <1>4, <2>1 DEF In
    <2> QED BY <1>1, <2>2, StackedHolds
  <1> QED BY <1>3, <1>4 DEF ReadTip, Branch

LEMMA ForwardHolds ==
  ASSUME ForgeInv, Onward, FastForward
  PROVE  Based' /\ StackHolds' /\ Landing'
  <1> USE DEF ForgeInv
  <1>1. eng.at = "ff" /\ row.state = "testing"
    BY DEF FastForward, Step, Program
  <1>2. CASE NotLanded
    <2>1. Fresher("clear") \/ Fresher("eject") \/ Fresher("idle")
      BY <1>2, RebuildMeans, RestMeans DEF NotLanded
    <2> QED BY <2>1, AwayHolds DEF Away, Fresher
  <1>3. CASE Forwarded /\ eng' = Idle
    BY <1>3, RestMeans, AwayHolds DEF Away, Fresher
  <1>4. CASE Forwarded /\ eng' = [eng EXCEPT !.at = "land", !.todo = row.current]
    <2>1. eng'.at = "land" /\ eng'.todo = row.current
      BY <1>4, Typed DEF Eng
    <2>2. target' = row.sha /\ row.sha \in Made
      BY <1>1, <1>4, BuildNames DEF Forwarded
    <2>3. row.current \subseteq In(row.sha) BY <1>1 DEF Tested, Holds
    <2>4. row.current \subseteq In(target)'
      BY <2>2, <2>3 DEF Onward, Grew, In
    <2> QED BY <2>1, <2>4 DEF Based, StackHolds, Landing
  <1> QED BY <1>2, <1>3, <1>4, ForwardMeans DEF Forwarded

LEMMA LandHolds ==
  ASSUME ForgeInv, Onward, LandOne
  PROVE  Based' /\ StackHolds' /\ Landing'
  <1> USE DEF ForgeInv
  <1>1. eng'.at = "land" /\ eng'.todo = eng.todo \ {Head} /\ eng.at = "land"
    BY Typed DEF LandOne, Eng, Step
  <1> QED BY <1>1 DEF Based, StackHolds, Landing, Onward

(* The other steps end the operation, or go on with it.                    *)
Quiet ==
    \/ FormBatch \/ ClearBranch \/ Eject \/ Built \/ DeleteBranch \/ Landed
    \/ Pass \/ Fail \/ EnsureMergedOrClose \/ Enqueue \/ RemoveEntry \/ World
    \/ Crash \/ Boot
    \/ NoticeMerged /\ UNCHANGED <<ours, events, faults>>
    \/ UNCHANGED vars

LEMMA QuietMeans ==
  ASSUME ForgeInv, Quiet
  PROVE  Away \/ Still
  <1> USE DEF ForgeInv
  <1>1. CASE FormBatch \/ Pass \/ Boot
    <2>1. Goto("clear") \/ Goto("ff") \/ Goto("idle")
      BY <1>1 DEF FormBatch, Pass, Boot
    <2> QED BY <2>1, StackedMeans DEF Away
  <1>2. CASE ClearBranch
    <2>1. eng'.tip = None /\ eng'.at \in {"base", "eject"}
      BY <1>2 DEF ClearBranch, Idle, After
    <2> QED BY <2>1 DEF Away
  <1>3. CASE Eject
    <2>1. PICK p : row' = [row EXCEPT !.current = @ \ {p}] BY <1>3, EjectMeans
    <2>2. row'.id = row.id BY <2>1, Typed DEF Row
    <2> QED BY <1>3, <2>2, EjectMeans DEF Still, Branch
  <1>4. ASSUME Next(row) PROVE Away
    BY <1>4, NextMeans DEF Away, Fresher
  <1>5. CASE Built \/ DeleteBranch \/ Landed \/ Crash
    <2>1. Next(row) \/ eng' = Idle \/ eng' = [Idle EXCEPT !.at = "boot"]
      BY <1>5 DEF Built, DeleteBranch, Landed, Crash
    <2> QED BY <1>4, <2>1, RestMeans DEF Away, Fresher
  <1>6. CASE Fail
    <2>1. EjectCurrent \/ \E c, p : Rebuild(c, p) BY <1>6 DEF Fail
    <2> QED BY <2>1, RebuildMeans, RestMeans DEF Away, Fresher
  <1>7. CASE RemoveEntry
    <2>1. PICK p : \/ Rebuild(row.current \ {p}, row.pending)
                   \/ row' = [row EXCEPT !.pending = @ \ {p}] /\ eng' = eng
      BY <1>7 DEF RemoveEntry
    <2>2. CASE Rebuild(row.current \ {p}, row.pending)
      BY <2>2, RebuildMeans DEF Away, Fresher
    <2>3. CASE row' = [row EXCEPT !.pending = @ \ {p}] /\ eng' = eng
      <3>1. row'.id = row.id /\ branch' = branch
        BY <1>7, <2>3, Typed DEF Row, RemoveEntry, github
      <3> QED BY <2>3, <3>1 DEF Still, Branch
    <2> QED BY <2>1, <2>2, <2>3
  <1>8. CASE World
    <2>1. eng' = eng /\ row' = row /\ (Pushed \/ Meddled) BY <1>8, WorldMeans
    <2>2. CASE branch' = branch BY <2>1, <2>2 DEF Still, Branch
    <2>3. CASE \E k \in Queued : branch' = [branch EXCEPT ![k] = None]
      <3>1. PICK k \in Queued : branch' = [branch EXCEPT ![k] = None] BY <2>3
      <3>2. branch'[row.id] \in {branch[row.id], None}
        BY <3>1 DEF Types
      <3> QED BY <2>1, <3>2 DEF Still, Branch
    <2> QED BY <2>1, <2>2, <2>3 DEF Pushed, Meddled
  <1>9. CASE EnsureMergedOrClose BY <1>9, CloseMeans DEF Still, Branch
  <1>10. CASE Enqueue \/ UNCHANGED vars
    BY <1>10 DEF Enqueue, vars, ours, github, Still, Branch
  <1>11. CASE NoticeMerged /\ UNCHANGED <<ours, events, faults>>
    BY <1>11 DEF NoticeMerged, ours, refs, Still, Branch
  <1> QED
    BY <1>1, <1>2, <1>3, <1>5, <1>6, <1>7, <1>8, <1>9, <1>10, <1>11, Zenon DEF Quiet

LEMMA BuildStep ==
  ASSUME ForgeInv, [Steps]_vars
  PROVE  Based' /\ StackHolds' /\ Landing'
  <1>1. Onward BY OnwardStep
  <1>2. CASE Quiet BY <1>1, <1>2, QuietMeans, AwayHolds, StillHolds
  <1>3. CASE \/ ResolveBase \/ CreateRef \/ ResetRef \/ MergeHead \/ ReadTip
             \/ FastForward \/ LandOne
    BY <1>1, <1>3, ResolveHolds, CreateHolds, MergeHolds, TipHolds, ForwardHolds,
       LandHolds
  <1> QED BY <1>2, <1>3, Zenon DEF Steps, Engine, Quiet

(***************************************************************************)
(* The build that is tested, and the pull requests that landed.            *)
(***************************************************************************)

LEMMA TestedStep ==
  ASSUME ForgeInv, [Steps]_vars
  PROVE  Tested'
  <1> USE DEF ForgeInv
  <1>0. Onward BY OnwardStep
  <1>1. ASSUME row'.state # "testing" PROVE Tested'
    BY <1>1 DEF Tested
  <1>2. ASSUME row.state = "testing"
        PROVE  /\ row.sha # None /\ row.sha \in Made
               /\ row.current \subseteq history'[row.sha] \cap PRs
               /\ history'[row.sha] \cap PRs
                    \subseteq row.current \cup In(target)' \cup ghost'
    BY <1>0, <1>2, BuildNames, KeepsHolding DEF Tested
  <1>3. ASSUME row'.state = row.state, row'.current = row.current, row'.sha = row.sha
        PROVE  Tested'
    BY <1>2, <1>3 DEF Tested, Holds, In
  <1>4. CASE FormBatch BY <1>1, <1>4 DEF FormBatch
  <1>5. CASE Eject
    <2>1. PICK p \in row.current \ eng.surv :
            /\ row' = [row EXCEPT !.current = @ \ {p}]
            /\ ghost' = IF row.state = "testing" THEN ghost \cup {p} ELSE ghost
      BY <1>5, EjectMeans
    <2>2. /\ row'.state = row.state /\ row'.sha = row.sha
          /\ row'.current = row.current \ {p}
      BY <2>1, Typed DEF Row
    <2>3. CASE row.state = "testing"
      <3>1. p \in ghost' BY <2>1, <2>3
      <3> QED BY <1>2, <2>2, <2>3, <3>1 DEF Tested, Holds, In
    <2> QED BY <1>1, <2>2, <2>3
  <1>6. CASE Next(row)
    <2>1. row'.state # "testing" BY <1>6, NextMeans
    <2> QED BY <1>1, <2>1
  <1>7. CASE Built
    <2>1. CASE eng.surv = {} BY <1>6, <1>7, <2>1 DEF Built
    <2>2. CASE eng.surv # {}
      <3>1. /\ eng.at = "eject" /\ row.current = eng.surv
            /\ row'.current = row.current /\ row'.sha = eng.tip
        BY <1>7, <2>2, Typed DEF Built, Step, Row
      <3>2. eng.tip # None BY <2>2 DEF Program
      <3>3. eng.tip \in Made /\ Holds(eng.tip, eng.surv)
        BY <3>1, <3>2, BuildNames DEF StackHolds
      <3>4. /\ eng.surv \subseteq history'[eng.tip] \cap PRs
            /\ history'[eng.tip] \cap PRs
                 \subseteq eng.surv \cup In(target)' \cup ghost'
        BY <1>0, <3>3, KeepsHolding
      <3> QED BY <3>1, <3>2, <3>4 DEF Tested, Holds, In
    <2> QED BY <2>1, <2>2
  <1>8. CASE Rebuild(row.current, row.pending) \/ \E c, p : Rebuild(c, p)
    BY <1>1, <1>8, RebuildMeans
  <1>9. CASE FastForward
    <2>1. row' = row \/ Rebuild(row.current, row.pending)
      BY <1>9, ForwardMeans DEF NotLanded, Forwarded
    <2> QED BY <1>3, <1>8, <2>1
  <1>10. CASE LandOne
    <2>1. /\ row'.state = row.state /\ row'.sha = row.sha
          /\ row'.current = row.current \ {Head}
      BY <1>10, Typed DEF LandOne, Row
    <2>2. Head \in In(target)
      BY <1>10, Typed, HeadIsLeft DEF LandOne, Step, Landing
    <2>3. Head \in In(target)' BY <1>0, <2>2 DEF Onward
    <2>4. row.state = "testing" BY <1>10 DEF LandOne, Step, Program
    <2> QED BY <1>2, <2>1, <2>3, <2>4 DEF Tested, Holds, In
  <1>11. CASE Landed BY <1>6, <1>11 DEF Landed
  <1>12. CASE Fail
    <2>1. row' = row \/ \E c, p : Rebuild(c, p) BY <1>12 DEF Fail
    <2> QED BY <1>3, <1>8, <2>1
  <1>13. CASE RemoveEntry
    <2>1. PICK p : \/ Rebuild(row.current \ {p}, row.pending)
                   \/ row' = [row EXCEPT !.pending = @ \ {p}]
      BY <1>13 DEF RemoveEntry
    <2>2. CASE row' = [row EXCEPT !.pending = @ \ {p}]
      BY <1>3, <2>2, Typed DEF Row
    <2> QED BY <1>8, <2>1, <2>2
  <1>14. CASE \/ ClearBranch \/ ResolveBase \/ CreateRef \/ ResetRef \/ MergeHead
              \/ ReadTip \/ DeleteBranch \/ Pass \/ Enqueue \/ Crash \/ Boot
              \/ UNCHANGED vars
    <2>1. row' = row
      BY <1>14 DEF ClearBranch, ResolveBase, CreateRef, ResetRef, MergeHead, ReadTip,
        DeleteBranch, Keep, Pass, Enqueue, Crash, Boot, vars, ours
    <2> QED BY <1>3, <2>1
  <1>15. CASE EnsureMergedOrClose \/ World
    BY <1>3, <1>15, CloseMeans, WorldMeans
  <1>16. CASE NoticeMerged /\ UNCHANGED <<ours, events, faults>>
    BY <1>3, <1>16 DEF ours
  <1> QED
    BY <1>4, <1>5, <1>7, <1>9, <1>10, <1>11, <1>12, <1>13, <1>14, <1>15, <1>16, Zenon
       DEF Steps, Engine

LEMMA ClosingStep ==
  ASSUME ForgeInv, [Steps]_vars
  PROVE  ClosesOnlyLanded'
  <1> USE DEF ForgeInv, ClosesOnlyLanded
  <1>0. In(target) \subseteq In(target)' BY OnwardStep DEF Onward
  <1>1. ASSUME closing' \subseteq closing PROVE ClosesOnlyLanded'
    BY <1>0, <1>1
  <1>2. CASE LandOne
    <2>1. closing' = closing \cup {Head} /\ Head \in In(target)
      BY <1>2, Typed, HeadIsLeft DEF LandOne, Step, Landing
    <2> QED BY <1>0, <2>1
  <1>3. CASE \/ FormBatch \/ ClearBranch \/ ResolveBase \/ CreateRef \/ ResetRef
             \/ MergeHead \/ ReadTip \/ Built \/ DeleteBranch \/ FastForward \/ Landed
             \/ Pass \/ Fail \/ Enqueue \/ RemoveEntry \/ Crash \/ Boot
             \/ UNCHANGED vars
    <2>1. closing' \subseteq closing
      BY <1>3 DEF FormBatch, ClearBranch, ResolveBase, CreateRef, ResetRef, MergeHead,
        ReadTip, Built, DeleteBranch, FastForward, Landed, Pass, Fail, Enqueue,
        RemoveEntry, Crash, Boot, Keep, vars, ours
    <2> QED BY <1>1, <2>1
  <1>4. CASE Eject \/ EnsureMergedOrClose \/ World
    <2>1. closing' \subseteq closing BY <1>4, EjectMeans, CloseMeans, WorldMeans
    <2> QED BY <1>1, <2>1
  <1>5. CASE NoticeMerged /\ UNCHANGED <<ours, events, faults>>
    BY <1>1, <1>5 DEF ours
  <1> QED BY <1>2, <1>3, <1>4, <1>5, Zenon DEF Steps, Engine

(***************************************************************************)
(* The theorems.                                                           *)
(***************************************************************************)

LEMMA ForgeInit == Init => ForgeInv
  <1> SUFFICES ASSUME Init PROVE ForgeInv
    OBVIOUS
  <1>1. Graph /\ Once BY GraphInit
  <1>2. 0 \in Made BY <1>1 DEF Graph
  <1>3. /\ target = 0 /\ branch = [k \in Queued |-> None]
        /\ squatted = FALSE /\ protected = FALSE /\ open = PRs /\ auto = PRs
        /\ queued = {} /\ row = NoRow /\ eng = Idle /\ closing = {}
        /\ events = 0 /\ faults = 0 /\ ghost = {}
    BY DEF Init, GitHubInit
  <1>4. NoRow \in Row /\ Idle \in Eng
    BY Bounds DEF NoRow, Row, Idle, Eng
  <1>5. Types
    <2>1. target \in Commits /\ branch \in [Queued -> Commits \cup {None}]
      BY <1>3, Numbers
    <2>2. events \in 0 .. MaxEvents /\ faults \in 0 .. MaxFaults
      BY <1>3, Bounds
    <2> QED BY <1>3, <1>4, <2>1, <2>2 DEF Types
  <1>6. MadeOnly BY <1>2, <1>3 DEF MadeOnly, NoRow, Idle
  <1>7. Program BY <1>3 DEF Program, NoRow, Idle, Resting, Stacking
  <1>8. Based /\ StackHolds /\ Tested /\ Landing /\ ClosesOnlyLanded
    BY <1>3 DEF Based, StackHolds, Tested, Landing, ClosesOnlyLanded, NoRow, Idle
  <1> QED BY <1>1, <1>5, <1>6, <1>7, <1>8 DEF ForgeInv

LEMMA ForgeStep == ForgeInv /\ [Steps]_vars => ForgeInv'
  <1> SUFFICES ASSUME ForgeInv, [Steps]_vars PROVE ForgeInv'
    OBVIOUS
  <1>1. Graph' /\ Once' BY OnwardStep DEF Onward, Grew
  <1>2. Types' /\ MadeOnly' BY TypesStep
  <1>3. Based' /\ StackHolds' /\ Landing' BY BuildStep
  <1> QED BY <1>1, <1>2, <1>3, ProgramStep, TestedStep, ClosingStep DEF ForgeInv

(* The inductive invariant holds, for any number of pull requests,         *)
(* commits, batches, events and faults.                                    *)
THEOREM ForgeCorrect == Spec => []ForgeInv
  BY ForgeInit, ForgeStep, PTL DEF Spec

(* Every variable has its type, and no ref or record names a commit that   *)
(* was not made (github/forge.go, batch.go).                               *)
THEOREM ForgeTypesCorrect == Spec => []ForgeTypeOK
  <1>1. ForgeInv => ForgeTypeOK
    <2> SUFFICES ASSUME ForgeInv PROVE ForgeTypeOK
      OBVIOUS
    <2> USE DEF ForgeInv
    <2>1. branch \in [Queued -> Made \cup {None}] BY DEF Types, MadeOnly
    <2>2. GitHubTypeOK
      BY <2>1 DEF GitHubTypeOK, Types, MadeOnly, Graph
    <2>3. /\ row.id \in 0 .. MaxBatches
          /\ row.state \in {"none", "forming", "testing"}
          /\ row.current \subseteq PRs /\ row.pending \subseteq PRs \ row.current
      BY DEF Types, Row, Program
    <2>4. /\ eng.at \in {"idle", "boot", "clear", "base", "create", "reset", "merge",
                         "tip", "eject", "ff", "land", "wait", "delete"}
          /\ eng.todo \subseteq row.current /\ eng.surv \subseteq row.current
      BY DEF Types, Eng, Program
    <2> QED BY <2>2, <2>3, <2>4 DEF ForgeTypeOK, Types, MadeOnly
  <1> QED BY <1>1, ForgeCorrect, PTL

(* A build in test holds its members' heads, and besides what is on the    *)
(* target only what GitHub merged without an answer or what was ejected    *)
(* amid a crash (forge.go:165-206, batch.go:422-445).                      *)
THEOREM BuildsHold == Spec => []BuildHoldsMembers
  <1>1. ForgeInv => BuildHoldsMembers
    BY DEF ForgeInv, Tested, Holds, BuildHoldsMembers
  <1> QED BY <1>1, ForgeCorrect, PTL

(* What the queue closes as merged is on the target (batch.go:261-271,     *)
(* batch.go:507-527).                                                      *)
THEOREM ClosedHasLanded == Spec => []ClosesOnlyLanded
  <1>1. ForgeInv => ClosesOnlyLanded BY DEF ForgeInv
  <1> QED BY <1>1, ForgeCorrect, PTL

(* No two commits of the target merge the same pull request                *)
(* (batch.go:509-510).                                                     *)
THEOREM MergesOnce == Spec => []MergedOnce
  <1>1. ForgeInv => MergedOnce
    BY DEF ForgeInv, MadeOnly, Once, MergedOnce
  <1> QED BY <1>1, ForgeCorrect, PTL

(* The target keeps every commit it ever had, whoever pushes and whatever  *)
(* answer of FastForward is lost (forge.go:245-270).                       *)
THEOREM TargetKept == Spec => TargetOnlyGrows
  <1>1. ForgeInv /\ [Steps]_vars => [Grows]_vars
    BY OnwardStep DEF Onward
  <1> QED BY <1>1, ForgeCorrect, PTL DEF Spec, TargetOnlyGrows

=============================================================================
