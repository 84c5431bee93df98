---------------------------- MODULE SpeechBoard ----------------------------
(***************************************************************************)
(* What the speech of a transcript promises to its rendering, whatever the *)
(* runs, retries and repairs behind it do:                                 *)
(*                                                                         *)
(*   - a synthesis attempt is opened once for its text and decided once;   *)
(*   - a segment is fit only by an attempt that was decided to fit, and in *)
(*     review only by one that was measured;                               *)
(*   - a segment goes back to pending only for the text approved by then.  *)
(*                                                                         *)
(* Texts are the approved translations in turn; an attempt is its text and *)
(* its index.                                                              *)
(***************************************************************************)
EXTENDS Integers

CONSTANTS Segments, MaxTexts, Indices

VARIABLES
    text, approved,  \* the latest translation, and whether it is approved
    seg,             \* per segment: its state, the text it is for, the attempt selected
    att              \* per segment, text and index: the attempt's outcome

board == <<text, approved, seg, att>>

None     == <<0, 0>>
Measured == {"fit", "rewrite_required", "needs_review"}
NewRow   == [state |-> "none", text |-> 0, cur |-> None]
Fresh(t) == [state |-> "pending", text |-> t, cur |-> None]

Outcome(s, a) == att[s][a[1]][a[2]]

BoardInit ==
    /\ text = 1 /\ approved = TRUE
    /\ seg = [s \in Segments |-> NewRow]
    /\ att = [s \in Segments |-> [t \in 1..MaxTexts |-> [i \in Indices |-> "none"]]]

\* The translation is done again, for another tone.
Retranslate == approved /\ approved' = FALSE /\ UNCHANGED <<text, seg, att>>
Reapprove   == /\ ~approved /\ text < MaxTexts
               /\ approved' = TRUE /\ text' = text + 1 /\ UNCHANGED <<seg, att>>

Refresh(ss) ==
    /\ approved
    /\ seg' = [s \in Segments |-> IF s \in ss THEN Fresh(text) ELSE seg[s]]
    /\ UNCHANGED <<text, approved, att>>

Start(s) ==
    /\ seg[s].state # "none"
    /\ seg' = [seg EXCEPT ![s].state = "fitting"]
    /\ UNCHANGED <<text, approved, att>>

Select(s, a, state) ==
    /\ seg[s].state # "none" /\ a[1] \in 1..text
    /\ Outcome(s, a) \in (IF state = "fit" THEN {"fit"} ELSE Measured \ {"fit"})
    /\ seg' = [seg EXCEPT ![s].state = state, ![s].cur = a]
    /\ UNCHANGED <<text, approved, att>>

Open(s, a) ==
    /\ Outcome(s, a) = "none" /\ a[1] \in 1..text
    /\ att' = [att EXCEPT ![s][a[1]][a[2]] = "open"]
    /\ UNCHANGED <<text, approved, seg>>

Decide(s, a, outcome) ==
    /\ Outcome(s, a) = "open"
    /\ att' = [att EXCEPT ![s][a[1]][a[2]] = outcome]
    /\ UNCHANGED <<text, approved, seg>>

BoardNext ==
    \/ Retranslate \/ Reapprove
    \/ \E ss \in SUBSET Segments : Refresh(ss)
    \/ \E s \in Segments :
          \/ Start(s)
          \/ \E a \in (1..MaxTexts) \X Indices :
                \/ Open(s, a)
                \/ \E state \in {"fit", "needs_review"} : Select(s, a, state)
                \/ \E outcome \in Measured \cup {"failed"} : Decide(s, a, outcome)

BoardSpec == BoardInit /\ [][BoardNext]_board

=============================================================================
