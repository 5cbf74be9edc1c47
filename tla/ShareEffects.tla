---------------------------- MODULE ShareEffects ----------------------------
(***************************************************************************)
(* What the transfer queue promises about the effects it has on the cloud  *)
(* drive: for every batch item a staging copy is recorded at most once and *)
(* a share is recorded at most once, on top of the staging copy, however   *)
(* the item is scheduled, retried, cancelled or recycled.  An item that    *)
(* continues an existing share may record that one instead of a new one.   *)
(***************************************************************************)
EXTENDS Naturals

CONSTANTS Items,        \* batch items
          ReuseItems    \* items that carry a share they may continue

VARIABLES stage,        \* what is recorded for an item
          copies,       \* staging copies recorded so far
          shares        \* shares created and recorded so far

vars == <<stage, copies, shares>>

Init ==
    /\ stage = [i \in Items |-> "none"]
    /\ copies = [i \in Items |-> 0]
    /\ shares = [i \in Items |-> 0]

Stage(i) ==
    /\ stage[i] = "none"
    /\ stage' = [stage EXCEPT ![i] = "staged"]
    /\ copies' = [copies EXCEPT ![i] = @ + 1]
    /\ UNCHANGED shares

Share(i) ==
    /\ stage[i] = "staged"
    /\ stage' = [stage EXCEPT ![i] = "shared"]
    /\ shares' = [shares EXCEPT ![i] = @ + 1]
    /\ UNCHANGED copies

Reuse(i) ==
    /\ i \in ReuseItems
    /\ stage[i] = "staged"
    /\ stage' = [stage EXCEPT ![i] = "shared"]
    /\ UNCHANGED <<copies, shares>>

(* The batch of the items is deleted. *)
Forget(S) ==
    /\ stage' = [i \in Items |-> IF i \in S THEN "gone" ELSE stage[i]]
    /\ UNCHANGED <<copies, shares>>

Next == \/ \E i \in Items : Stage(i) \/ Share(i) \/ Reuse(i)
        \/ \E S \in SUBSET Items : Forget(S)

Spec == Init /\ [][Next]_vars
=============================================================================
