----------------------------- MODULE MergeQueue ------------------------------
(***************************************************************************)
(* What a merge queue promises, whatever its engine does inside.           *)
(*                                                                         *)
(* The target branch starts without any queued work on it and advances in  *)
(* two ways only: somebody pushes to it, or the queue lands a group of     *)
(* entries.  A group lands as a whole, only if CI passed on exactly that   *)
(* group on top of exactly the target it lands on, only while its entries  *)
(* are queued, and no entry lands twice.  Moving the target makes          *)
(* everything CI said about groups on top of the old one worthless.        *)
(***************************************************************************)
CONSTANT Entries

VARIABLES
    waiting,    \* entries in the queue
    leaving,    \* entries taken out whose group may still be landing
    landed,     \* entries whose work is on the target branch
    passed      \* groups CI passed on top of the target as it is now

vars == <<waiting, leaving, landed, passed>>

Init ==
    /\ waiting = {}
    /\ leaving = {}
    /\ landed = {}
    /\ passed = {}

Join(e) ==
    /\ e \notin waiting \cup landed
    /\ waiting' = waiting \cup {e}
    /\ UNCHANGED <<leaving, landed, passed>>

(* An entry leaves, at once or by way of leaving.                          *)
Leave(e) ==
    /\ e \in waiting
    /\ waiting' = waiting \ {e}
    /\ leaving' \in {leaving, {e}}
    /\ UNCHANGED <<landed, passed>>

Gone ==
    /\ leaving' = {}
    /\ UNCHANGED <<waiting, landed, passed>>

Pass(group) ==
    /\ group # {}
    /\ passed' = passed \cup {group}
    /\ UNCHANGED <<waiting, leaving, landed>>

Land(group) ==
    /\ group \in passed
    /\ group \subseteq waiting \cup leaving
    /\ group \cap landed = {}
    /\ landed' = landed \cup group
    /\ passed' = {}
    /\ UNCHANGED <<waiting, leaving>>

Push ==
    /\ passed' = {}
    /\ UNCHANGED <<waiting, leaving, landed>>

Next ==
    \/ \E e \in Entries : Join(e) \/ Leave(e)
    \/ Gone
    \/ \E group \in SUBSET Entries : Pass(group) \/ Land(group)
    \/ Push

Spec == Init /\ [][Next]_vars

=============================================================================
