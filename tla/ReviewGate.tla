----------------------------- MODULE ReviewGate -----------------------------
(***************************************************************************)
(* What a reviewed text promises the phases after it: its segments are     *)
(* published once, change only by one revision at a time while the review  *)
(* is open, and never after an approval; a review that was closed without  *)
(* one does not open again by itself.                                      *)
(***************************************************************************)
EXTENDS Integers

CONSTANT Segments

VARIABLES
    gate,  \* the review: "shut", "open" or "approved"
    rev    \* the current revision of each segment, 0 before publication

vars == <<gate, rev>>

Init == gate = "shut" /\ rev = [s \in Segments |-> 0]

Publish ==
    /\ gate = "shut" /\ rev = [s \in Segments |-> 0]
    /\ gate' = "open" /\ rev' = [s \in Segments |-> 1]

Edit(s) ==
    /\ gate = "open"
    /\ rev' = [rev EXCEPT ![s] = @ + 1]
    /\ UNCHANGED gate

Approve == gate = "open" /\ gate' = "approved" /\ UNCHANGED rev

Shut == gate = "open" /\ gate' = "shut" /\ UNCHANGED rev

Next == Publish \/ Approve \/ Shut \/ \E s \in Segments : Edit(s)

Spec == Init /\ [][Next]_vars

=============================================================================
