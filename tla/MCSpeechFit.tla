---------------------------- MODULE MCSpeechFit ----------------------------
(* Finite instances of SpeechFit for TLC. *)
EXTENDS SpeechFit

CONSTANT u1

MCOneAttempt == [job \in Jobs |-> 1]

\* Versions are only compared and counted up: a state stands for those in which
\* the row's version and the versions held by requests are shifted alike.
Holders == {u \in Users : req[u].version # 0}
Base ==
    LET versions == {version} \cup {req[u].version : u \in Holders}
    IN  CHOOSE v \in versions : \A w \in versions : v <= w
Shifted == <<version - Base, textVars, status, gen, bound, seg, att, workVars, upc,
             asked, [u \in Users |-> IF u \in Holders THEN [req[u] EXCEPT !.version = @ - Base + 1]
                              ELSE req[u]]>>

=============================================================================
