---------------------------- MODULE MCRenderJob ----------------------------
(* Finite instances of RenderJob for TLC. *)
EXTENDS RenderJob

CONSTANTS u1, good, bad

MCOneAttempt == [a \in Acts |-> 1]

\* A version is only compared: a state stands for those in which the versions of rows,
\* runs and requests are equal and different alike.
Named(j, v) ==
    <<{r \in Runs : run[r].job = j /\ run[r].version = v}, j \in Rows /\ job[j].version = v,
      {u \in Users : req[u].job = j /\ req[u].version = v}>>

\* A segment that is not fit is alike to a render in every such state.  Once no request
\* reads the speech any more, only the tracks that are frozen matter.
Heard ==
    IF Read THEN <<text, approved, att,
                   [s \in Segments |-> IF seg[s].state \in {"none", "fit"} THEN seg[s]
                                      ELSE [seg[s] EXCEPT !.state = "fitting", !.cur = None]]>>
    ELSE <<[j \in JobIds |-> [s \in Segments |->
              j \in Rows /\ LET a == job[j].input.tracks[s] IN a # None /\ Outcome(s, a) = "fit"]]>>

Shifted ==
    <<Heard, style, act, late, upc, asked,
      [j \in JobIds |-> <<Named(j, job[j].version), [job[j] EXCEPT !.version = 0]>>],
      [r \in Runs |-> [run[r] EXCEPT !.version = 0]],
      [u \in Users |-> <<Named(req[u].job, req[u].version), [req[u] EXCEPT !.version = 0]>>]>>

=============================================================================
