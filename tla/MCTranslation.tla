--------------------------- MODULE MCTranslation ---------------------------
(* Finite instances of Translation for TLC. *)
EXTENDS Translation

CONSTANTS u1, u2

\* Two segments that together last longer than a batch may.
MCStart == <<0, 3>>
MCEnd   == <<1, 5>>

MCOneAttempt == [a \in Acts |-> 1]
MCTwoBatches == [a \in Acts |-> IF a = "batch" THEN 2 ELSE 1]

\* Versions are only compared and counted up: a state stands for those in which
\* the row's version and the versions held by requests are shifted alike.
Holders == {u \in Users : req[u].version # 0}
Base ==
    LET versions == {version} \cup {req[u].version : u \in Holders}
    IN  CHOOSE v \in versions : \A w \in versions : v <= w
Shifted == <<version - Base, status, policy, ctx, bound, head, batch, cloud, runVars, pc, upc,
             [u \in Users |-> IF u \in Holders THEN [req[u] EXCEPT !.version = @ - Base + 1]
                              ELSE req[u]]>>

=============================================================================
