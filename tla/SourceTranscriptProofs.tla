----------------------- MODULE SourceTranscriptProofs -----------------------
(***************************************************************************)
(* Proofs about the source transcript, for any number of segments, users,  *)
(* regions, runs and attempts: type correctness, the two properties of an  *)
(* approval and that the transcript implements ReviewGate; and, from       *)
(* ConsolidationProofs, that what is published follows the frames.         *)
(*                                                                         *)
(* Status, version and revisions change in a few transactions only         *)
(* (StepIsTransaction); what is not about processes follows from those.    *)
(***************************************************************************)
EXTENDS MCSourceTranscript, ConsolidationProofs, TLAPS

\* The changes of status, version and revisions, whoever makes them.
Transaction ==
    \/ UNCHANGED <<status, version, rev>>
    \/ \E s \in Segments : EditSegment(s, rev[s])
    \/ \E r \in Regions : PrepareRow(r)
    \/ \E r \in Regions \cup {None} : PublishSegments(r)
    \/ /\ \E u \in Users : upc[u] = "approve" /\ view[u].version = version
       /\ status = "waiting_for_review" /\ SetStatus("approved") /\ UNCHANGED rev
    \/ status \notin {"approved", "cancelled"} /\ SetStatus("cancelled") /\ UNCHANGED rev
    \/ FailTranscript

-----------------------------------------------------------------------------
(* Types.                                                                  *)

\* There is a first attempt of each activity, and attempts are counted from 1.
LEMMA AttemptsFacts ==
    /\ 1 \in Attempts
    /\ Attempts \subseteq Nat \ {0}
    /\ \A s \in Stages, n \in Attempts : n < MaxAttempts[s] => n + 1 \in Attempts
  <1>1. \A s \in Stages : MaxAttempts[s] \in Nat \ {0}
    BY AttemptsArePositive
  <1>2. "ocr" \in Stages
    BY DEF Stages
  <1> QED
    BY <1>1, <1>2 DEF Attempts

\* A move of one attempt keeps the positions of all attempts in AttemptPCs.
LEMMA MoveTyped ==
    ASSUME apc \in [Runs -> [Stages -> [Attempts -> AttemptPCs]]],
           NEW r, NEW s, NEW n, NEW pc \in AttemptPCs
    PROVE  [apc EXCEPT ![r][s][n] = pc] \in [Runs -> [Stages -> [Attempts -> AttemptPCs]]]
  OBVIOUS

\* The end of an attempt keeps the types of positions, outcomes and data.
LEMMA EndTyped ==
    ASSUME TypeOK, NEW r \in Runs, NEW s \in Stages, NEW n \in Attempts,
           NEW outcome \in Outcomes, End(r, s, n, outcome)
    PROVE  /\ apc' \in [Runs -> [Stages -> [Attempts -> AttemptPCs]]]
           /\ report' \in Outcomes \cup {None}
           /\ loaded' \in [Runs -> [Attempts -> Regions \cup {None}]]
  <1>1. apc' \in [Runs -> [Stages -> [Attempts -> AttemptPCs]]]
    BY MoveTyped, "off" \in AttemptPCs DEF End, TypeOK, AttemptPCs
  <1> QED
    BY <1>1 DEF End, TypeOK

\* A row of the transcript is typed before and after its transactions.
RowTypeOK ==
    /\ status \in Statuses /\ version \in Nat /\ region \in Regions \cup {None}
    /\ obs \in Regions \cup {None} /\ rev \in [Segments -> Nat] /\ source \in Regions \cup {None}
    /\ claim \in [Stages -> [Attempts -> Regions \cup {None}]]

\* The transactions of the row keep its types.
LEMMA RowTyped ==
    ASSUME TypeOK,
           \/ UNCHANGED rowVars
           \/ \E s \in Segments, e \in Nat : EditSegment(s, e)
           \/ \E r \in Regions : PrepareRow(r)
           \/ \E r \in Regions \cup {None} : ReplaceObservations(r) \/ PublishSegments(r)
           \/ FailTranscript
    PROVE  RowTypeOK'
  <1> USE DEF TypeOK, RowTypeOK, SetStatus, Statuses
  <1>1. CASE UNCHANGED rowVars
    BY <1>1 DEF rowVars
  <1>2. CASE \E s \in Segments, e \in Nat : EditSegment(s, e)
    BY <1>2 DEF EditSegment
  <1>3. CASE \E r \in Regions : PrepareRow(r)
    BY <1>3 DEF PrepareRow
  <1>4. CASE \E r \in Regions \cup {None} : ReplaceObservations(r) \/ PublishSegments(r)
    BY <1>4 DEF ReplaceObservations, PublishSegments
  <1>5. CASE FailTranscript
    BY <1>5 DEF FailTranscript
  <1> QED
    BY <1>1, <1>2, <1>3, <1>4, <1>5

\* The types of requests.
UserTypeOK ==
    /\ upc \in [Users -> UserPCs]
    /\ uregion \in [Users -> Regions \cup {None}]
    /\ view \in [Users -> [version : Nat, rev : [Segments -> Nat]]]

\* The types of the runs and their attempts.
RunTypeOK ==
    /\ run \in 0..MaxRuns
    /\ wf \in WfStates
    /\ wn \in Attempts
    /\ report \in Outcomes \cup {None}
    /\ signalled \in BOOLEAN /\ cancelling \in BOOLEAN
    /\ payload \in [Runs -> Regions \cup {None}]
    /\ marking \subseteq Runs

WorkTypeOK ==
    /\ apc \in [Runs -> [Stages -> [Attempts -> AttemptPCs]]]
    /\ loaded \in [Runs -> [Attempts -> Regions \cup {None}]]

\* A run that is past "none" has a number.
Started == wf # "none" => run \in Runs

\* TypeOK is the types of the four groups of variables.
LEMMA TypeParts ==
    /\ TypeOK <=> RowTypeOK /\ RunTypeOK /\ WorkTypeOK /\ UserTypeOK
    /\ TypeOK' <=> RowTypeOK' /\ RunTypeOK' /\ WorkTypeOK' /\ UserTypeOK'
  BY DEF TypeOK, RowTypeOK, RunTypeOK, WorkTypeOK, UserTypeOK

\* A request keeps the types.
LEMMA RequestTyped ==
    ASSUME TypeOK, NEW u \in Users, Request(u)
    PROVE  TypeOK'
  <1> USE DEF TypeOK
  <1>pc. \A pc \in UserPCs : [upc EXCEPT ![u] = pc] \in [Users -> UserPCs]
    OBVIOUS
  <1>1. CASE LoadRow(u)
    <2>1. [version |-> version, rev |-> NoRevisions] \in [version : Nat, rev : [Segments -> Nat]]
      BY DEF NoRevisions
    <2> QED
      BY <1>1, <2>1 DEF LoadRow, Reply, UserPCs, rowVars, runVars, workVars
  <1>2. CASE LoadSegments(u)
    BY <1>2 DEF LoadSegments, Reply, UserPCs, rowVars, runVars, workVars
  <1>3. CASE Edit(u)
    <2>1. RowTypeOK'
      BY <1>3, RowTyped DEF Edit
    <2> QED
      BY <1>3, <2>1 DEF RowTypeOK, Edit, runVars, workVars, userVars
  <1>4. CASE ApproveRead(u)
    BY <1>4 DEF ApproveRead, Reply, UserPCs, rowVars, runVars, workVars
  <1>5. CASE Approve(u)
    <2>1. status' \in Statuses /\ version' \in Nat
      BY <1>5 DEF Approve, SetStatus, Statuses
    <2>2. upc' \in [Users -> UserPCs]
      BY <1>5 DEF Approve, Reply, UserPCs
    <2> QED
      BY <1>5, <2>1, <2>2 DEF Approve, runVars, workVars
  <1>6. CASE Signal(u)
    BY <1>6 DEF Signal, Reply, UserPCs, rowVars, workVars
  <1>7. CASE RestartRead(u)
    BY <1>7 DEF RestartRead, Reply, UserPCs, rowVars, runVars, workVars
  <1>8. ASSUME NEW r \in Regions, Prepare(u, r) PROVE TypeOK'
    <2>1. RowTypeOK'
      BY <1>8, RowTyped DEF Prepare
    <2>2. UserTypeOK'
      BY <1>8, <2>1 DEF Prepare, Reply, UserPCs, UserTypeOK, RowTypeOK
    <2> QED
      BY <1>8, <2>1, <2>2 DEF RowTypeOK, UserTypeOK, Prepare, runVars, workVars
  <1>9. CASE Launch(u)
    <2>1. UserTypeOK'
      BY <1>9 DEF Launch, Reply, UserPCs, UserTypeOK
    <2>2. WorkTypeOK'
      <3>1. [apc EXCEPT ![run + 1]["ocr"][1] = "read"]
                \in [Runs -> [Stages -> [Attempts -> AttemptPCs]]]
        BY MoveTyped, "read" \in AttemptPCs DEF AttemptPCs
      <3> QED
        BY <1>9, <3>1 DEF Launch, WorkTypeOK
    <2>3. RunTypeOK'
      <3>1. run' \in 0..MaxRuns
        BY <1>9, BoundsAreNat DEF Launch
      <3>2. wf' \in WfStates /\ wn' \in Attempts /\ report' \in Outcomes \cup {None}
        BY <1>9, AttemptsFacts DEF Launch, WfStates, Open, Stages
      <3>3. uregion[u] \in Regions \cup {None}
        OBVIOUS
      <3>4. payload' \in [Runs -> Regions \cup {None}]
        BY <1>9, <3>3 DEF Launch
      <3> QED
        BY <1>9, <3>1, <3>2, <3>4 DEF Launch, RunTypeOK
    <2> QED
      BY <1>9, <2>1, <2>2, <2>3 DEF UserTypeOK, WorkTypeOK, RunTypeOK, Launch, rowVars
  <1>10. CASE CancelRead(u)
    BY <1>10 DEF CancelRead, Reply, UserPCs, rowVars, runVars, workVars
  <1>11. CASE Stop(u)
    BY <1>11 DEF Stop, Reply, UserPCs, rowVars, workVars
  <1>12. CASE MarkCancelled(u)
    BY <1>12 DEF MarkCancelled, SetStatus, Statuses, Reply, UserPCs, runVars, workVars
  <1>13. CASE Abandon(u)
    <2>1. NoPage \in [version : Nat, rev : [Segments -> Nat]]
      BY DEF NoPage, NoRevisions
    <2> QED
      BY <1>13, <2>1 DEF Abandon, Reply, UserPCs, rowVars, runVars, workVars
  <1> QED
    BY <1>1, <1>2, <1>3, <1>4, <1>5, <1>6, <1>7, <1>8, <1>9, <1>10, <1>11, <1>12, <1>13
       DEF Request

\* An attempt keeps the types.
LEMMA AttemptTyped ==
    ASSUME TypeOK, NEW r \in Runs, NEW n \in Attempts, Attempt(r, n)
    PROVE  TypeOK'
  <1> USE TypeParts
  <1>pcs. AttemptPCs = {"off", "read", "load", "begin", "work", "finish"} /\ Stages = {"ocr", "consolidate"}
    BY DEF AttemptPCs, Stages
  <1>move. ASSUME NEW s \in Stages, NEW pc \in AttemptPCs, Move(r, s, n, pc)
           PROVE  WorkTypeOK' /\ report' \in Outcomes \cup {None}
    BY <1>move, MoveTyped DEF Move, WorkTypeOK, RunTypeOK
  <1>end. ASSUME NEW s \in Stages, NEW outcome \in Outcomes, End(r, s, n, outcome)
          PROVE  WorkTypeOK' /\ report' \in Outcomes \cup {None}
    BY <1>end, EndTyped DEF WorkTypeOK
  <1>outcomes. {"ok", "retry", "fatal"} \subseteq Outcomes
    BY DEF Outcomes
  <1>frame. ASSUME RowTypeOK', WorkTypeOK', report' \in Outcomes \cup {None},
                   UNCHANGED attemptVars
            PROVE  TypeOK'
    <2>1. RunTypeOK'
      BY <1>frame DEF attemptVars, RunTypeOK
    <2>2. UserTypeOK'
      BY <1>frame DEF attemptVars, userVars, UserTypeOK
    <2> QED
      BY <1>frame, <2>1, <2>2
  <1>row. UNCHANGED rowVars => RowTypeOK'
    BY RowTyped
  <1>1. ASSUME NEW s \in Stages, ReadStatus(r, s, n) PROVE TypeOK'
    BY <1>1, <1>pcs, <1>move, <1>end, <1>outcomes, <1>frame, <1>row DEF ReadStatus
  <1>2. ASSUME NEW s \in Stages, Begin(r, s, n) PROVE TypeOK'
    <2>1. Fingerprint(r, s, n) \in Regions \cup {None}
      BY DEF Fingerprint, RunTypeOK, WorkTypeOK
    <2>2. RowTypeOK'
      BY <1>2, <2>1 DEF Begin, RowTypeOK
    <2> QED
      BY <1>2, <2>2, <1>pcs, <1>move, <1>end, <1>outcomes, <1>frame DEF Begin
  <1>3. ASSUME NEW s \in Stages, Finish(r, s, n) PROVE TypeOK'
    BY <1>3, <1>end, <1>outcomes, <1>frame, <1>row DEF Finish
  <1>4. ASSUME NEW s \in Stages, Raise(r, s, n) PROVE TypeOK'
    BY <1>4, <1>end, <1>outcomes, <1>frame, <1>row DEF Raise
  <1>5. CASE LoadObservations(r, n)
    <2>1. apc' \in [Runs -> [Stages -> [Attempts -> AttemptPCs]]]
      BY <1>5, <1>pcs, MoveTyped DEF LoadObservations, WorkTypeOK
    <2>2. WorkTypeOK'
      BY <1>5, <2>1 DEF LoadObservations, WorkTypeOK, RowTypeOK
    <2>3. report' \in Outcomes \cup {None}
      BY <1>5 DEF LoadObservations, RunTypeOK
    <2> QED
      BY <1>5, <2>2, <2>3, <1>frame, <1>row DEF LoadObservations
  <1>6. CASE Recognize(r, n)
    <2>1. payload[r] \in Regions \cup {None}
      BY DEF RunTypeOK
    <2>2. RowTypeOK'
      BY <1>6, <2>1, RowTyped DEF Recognize
    <2>3. WorkTypeOK' /\ report' \in Outcomes \cup {None}
      BY <1>6, <1>pcs, <1>move, <1>end, <1>outcomes DEF Recognize
    <2> QED
      BY <1>6, <2>2, <2>3, <1>frame DEF Recognize
  <1>7. CASE Consolidate(r, n)
    <2>1. loaded[r][n] \in Regions \cup {None}
      BY DEF WorkTypeOK
    <2>2. RowTypeOK'
      BY <1>7, <2>1, RowTyped DEF Consolidate
    <2>3. WorkTypeOK' /\ report' \in Outcomes \cup {None}
      BY <1>7, <1>pcs, <1>move, <1>end, <1>outcomes DEF Consolidate
    <2> QED
      BY <1>7, <2>2, <2>3, <1>frame DEF Consolidate
  <1> QED
    BY <1>1, <1>2, <1>3, <1>4, <1>5, <1>6, <1>7 DEF Attempt

\* A step of the workflow keeps the types.
LEMMA WorkflowTyped ==
    ASSUME TypeOK, Started, Workflow
    PROVE  TypeOK'
  <1> USE TypeParts
  <1>sets. Stages = {"ocr", "consolidate"} /\ Open = {"ocr", "consolidate", "review", "mark"}
    BY DEF Stages, Open
  <1>wf. WfStates = {"ocr", "consolidate", "review", "mark", "none", "completed", "closed"}
    BY <1>sets DEF WfStates
  <1>n. wn \in Attempts /\ wf \in WfStates /\ cancelling \in BOOLEAN
    BY DEF RunTypeOK
  <1>frame. ASSUME RunTypeOK', WorkTypeOK', UNCHANGED <<rowVars, userVars>>
            PROVE  TypeOK'
    <2>1. RowTypeOK'
      BY <1>frame, RowTyped
    <2>2. UserTypeOK'
      BY <1>frame DEF userVars, UserTypeOK
    <2> QED
      BY <1>frame, <2>1, <2>2
  <1>schedule. ASSUME NEW s \in Stages, NEW n \in Attempts, Schedule(s, n),
                      UNCHANGED <<rowVars, run, payload, loaded, userVars>>
               PROVE  TypeOK'
    <2>1. apc' \in [Runs -> [Stages -> [Attempts -> AttemptPCs]]]
      BY <1>schedule, MoveTyped, "read" \in AttemptPCs DEF Schedule, WorkTypeOK, AttemptPCs
    <2>2. RunTypeOK' /\ WorkTypeOK'
      BY <1>schedule, <1>sets, <1>wf, <2>1 DEF Schedule, RunTypeOK, WorkTypeOK
    <2> QED
      BY <1>schedule, <1>frame, <2>2
  <1>leave. ASSUME NEW state \in {"review", "mark", "completed", "closed"}, NEW pending \in BOOLEAN,
                   Leave(state, pending), wf # "none",
                   UNCHANGED <<rowVars, run, payload, loaded, userVars>>
            PROVE  TypeOK'
    <2>1. marking' \subseteq Runs
      BY <1>leave DEF Leave, Started, RunTypeOK
    <2>2. signalled' \in BOOLEAN /\ cancelling' \in BOOLEAN
      BY <1>leave, <1>sets DEF Leave, RunTypeOK
    <2>3. wf' \in WfStates /\ wn' \in Attempts /\ report' \in Outcomes \cup {None}
      BY <1>leave, <1>wf, AttemptsFacts DEF Leave
    <2>4. RunTypeOK' /\ WorkTypeOK'
      BY <1>leave, <2>1, <2>2, <2>3 DEF Leave, RunTypeOK, WorkTypeOK
    <2> QED
      BY <1>leave, <1>frame, <2>4
  <1>retry. ASSUME wf \in Stages, Retry, UNCHANGED <<rowVars, run, payload, loaded, userVars>>
            PROVE  TypeOK'
    BY <1>retry, <1>schedule, <1>leave, <1>n, <1>sets, AttemptsFacts DEF Retry, GoTo
  <1>1. CASE Advance
    BY <1>1, <1>schedule, <1>leave, <1>retry, <1>n, <1>sets, AttemptsFacts DEF Advance, GoTo
  <1>2. CASE Timeout
    BY <1>2, <1>retry DEF Timeout
  <1>3. CASE Complete
    BY <1>3, <1>leave, <1>n DEF Complete, GoTo
  <1>4. CASE Cancel
    BY <1>4, <1>leave, <1>sets DEF Cancel
  <1>5. CASE EndMark
    BY <1>5, <1>leave, <1>n DEF EndMark, GoTo
  <1> QED
    BY <1>1, <1>2, <1>3, <1>4, <1>5 DEF Workflow

\* The types hold initially.
LEMMA TypeInit ==
    ASSUME Init
    PROVE  TypeOK /\ Started
  <1>1. RowTypeOK
    BY DEF Init, RowTypeOK, Statuses, NoRevisions
  <1>2. RunTypeOK
    <2>1. run \in 0..MaxRuns /\ wf \in WfStates /\ wn \in Attempts
      BY AttemptsFacts, BoundsAreNat DEF Init, WfStates
    <2>2. signalled \in BOOLEAN /\ cancelling \in BOOLEAN
      BY DEF Init
    <2>3. report \in Outcomes \cup {None} /\ payload \in [Runs -> Regions \cup {None}]
          /\ marking \subseteq Runs
      BY DEF Init
    <2> QED
      BY <2>1, <2>2, <2>3 DEF RunTypeOK
  <1>3. WorkTypeOK
    BY DEF Init, WorkTypeOK, AttemptPCs
  <1>4. UserTypeOK
    BY DEF Init, UserTypeOK, UserPCs, NoPage, NoRevisions
  <1> QED
    BY <1>1, <1>2, <1>3, <1>4, TypeParts DEF Init, Started

\* Every step keeps the types and Started.
LEMMA TypeStep ==
    ASSUME TypeOK, Started, [Next]_vars
    PROVE  TypeOK' /\ Started'
  <1>1. CASE UNCHANGED vars
    BY <1>1 DEF vars, rowVars, runVars, workVars, userVars, TypeOK, Started
  <1>2. ASSUME NEW u \in Users, Request(u) PROVE TypeOK' /\ Started'
    <2>1. TypeOK'
      BY <1>2, RequestTyped
    <2>2. UNCHANGED <<run, wf>> \/ Launch(u)
      BY <1>2 DEF Request, LoadRow, LoadSegments, Edit, ApproveRead, Approve, Signal, RestartRead,
                  Prepare, CancelRead, Stop, MarkCancelled, Abandon, runVars
    <2>3. Started'
      BY <2>1, <2>2, BoundsAreNat DEF Started, Launch, Runs, TypeOK
    <2> QED
      BY <2>1, <2>3
  <1>3. ASSUME NEW r \in Runs, NEW n \in Attempts, Attempt(r, n) PROVE TypeOK' /\ Started'
    <2>1. UNCHANGED <<run, wf>>
      BY <1>3 DEF Attempt, ReadStatus, Begin, Finish, Raise, LoadObservations, Recognize, Consolidate,
                  attemptVars
    <2> QED
      BY <1>3, <2>1, AttemptTyped DEF Started
  <1>4. CASE Workflow
    <2>1. run' = run /\ wf # "none"
      BY <1>4 DEF Workflow, Advance, Timeout, Complete, Cancel, EndMark, Stages, Open
    <2> QED
      BY <1>4, <2>1, WorkflowTyped DEF Started
  <1>5. CASE MarkFailed
    <2>1. RowTypeOK'
      BY <1>5, RowTyped DEF MarkFailed
    <2>2. UNCHANGED <<runVars, workVars, userVars>>
      BY <1>5 DEF MarkFailed
    <2> QED
      BY <2>1, <2>2 DEF RowTypeOK, TypeOK, Started, runVars, workVars, userVars
  <1> QED
    BY <1>1, <1>2, <1>3, <1>4, <1>5 DEF Next

\* TypeOK and Started are inductive.
LEMMA TypeInvariance == Spec => [](TypeOK /\ Started)
  BY TypeInit, TypeStep, PTL DEF Spec

\* Type correctness: every variable keeps its type, and no attempt beyond those
\* that the retry policies grant is ever made.
THEOREM TypeCorrect == Spec => []TypeOK
  BY TypeInvariance, PTL

-----------------------------------------------------------------------------
(* Transactions.                                                           *)

\* Whatever a request, an attempt or a mark does to status, version and
\* revisions is one of the transactions.
LEMMA StepIsTransaction ==
    ASSUME TypeOK, [Next]_vars
    PROVE  Transaction
  <1>1. CASE UNCHANGED vars
    BY <1>1 DEF vars, rowVars, Transaction
  <1>2. ASSUME NEW u \in Users, Request(u) PROVE Transaction
    <2>1. CASE Edit(u)
      <3>1. PICK s \in Segments : EditSegment(s, view[u].rev[s])
        BY <2>1 DEF Edit
      <3>2. EditSegment(s, rev[s])
        BY <3>1 DEF EditSegment
      <3> QED
        BY <3>2 DEF Transaction
    <2>2. ASSUME NEW r \in Regions, Prepare(u, r) PROVE Transaction
      BY <2>2 DEF Prepare, Transaction
    <2>3. CASE Approve(u)
      BY <2>3 DEF Approve, Transaction
    <2>4. CASE MarkCancelled(u)
      BY <2>4 DEF MarkCancelled, Transaction
    <2>5. CASE \/ LoadRow(u) \/ LoadSegments(u) \/ ApproveRead(u) \/ Signal(u) \/ RestartRead(u)
               \/ Launch(u) \/ CancelRead(u) \/ Stop(u) \/ Abandon(u)
      BY <2>5 DEF LoadRow, LoadSegments, ApproveRead, Signal, RestartRead, Launch, CancelRead, Stop,
                  Abandon, rowVars, Transaction
    <2> QED
      BY <1>2, <2>1, <2>2, <2>3, <2>4, <2>5 DEF Request
  <1>3. ASSUME NEW r \in Runs, NEW n \in Attempts, Attempt(r, n) PROVE Transaction
    <2>1. CASE Consolidate(r, n)
      <3>1. loaded[r][n] \in Regions \cup {None}
        BY DEF TypeOK
      <3> QED
        BY <2>1, <3>1 DEF Consolidate, rowVars, Transaction
    <2>2. ASSUME ~Consolidate(r, n) PROVE UNCHANGED <<status, version, rev>>
      BY <1>3, <2>2 DEF Attempt, ReadStatus, Begin, Finish, Raise, LoadObservations, Recognize,
                        ReplaceObservations, rowVars
    <2> QED
      BY <2>1, <2>2 DEF Transaction
  <1>4. CASE Workflow
    BY <1>4 DEF Workflow, Advance, Timeout, Complete, Cancel, EndMark, rowVars, Transaction
  <1>5. CASE MarkFailed
    BY <1>5 DEF MarkFailed, Transaction
  <1> QED
    BY <1>1, <1>2, <1>3, <1>4, <1>5 DEF Next

\* No transaction takes an approval back, and one that changes a revision is a
\* new version of the transcript.
LEMMA TransactionFacts ==
    ASSUME TypeOK, Transaction
    PROVE  /\ status = "approved" => status' = "approved"
           /\ version' = version + 1 \/ UNCHANGED <<status, version, rev>>
  BY DEF Transaction, EditSegment, PrepareRow, PublishSegments, FailTranscript, SetStatus, TypeOK

-----------------------------------------------------------------------------
(* The transcript implements ReviewGate.                                   *)

\* Every transaction is a step of the gate or leaves it as it is.
LEMMA GateStep ==
    ASSUME TypeOK, Transaction
    PROVE  [Gate!Next]_(Gate!vars)
  <1> USE DEF Gate!Next, Gate!vars, SetStatus
  <1>1. CASE UNCHANGED <<status, version, rev>>
    BY <1>1
  <1>2. ASSUME NEW s \in Segments, EditSegment(s, rev[s]) PROVE Gate!Edit(s)
    BY <1>2 DEF EditSegment, Gate!Edit
  <1>3. ASSUME NEW r \in Regions, PrepareRow(r) PROVE UNCHANGED Gate!vars
    BY <1>3 DEF PrepareRow
  <1>4. ASSUME NEW r \in Regions \cup {None}, PublishSegments(r)
        PROVE  Gate!Publish \/ UNCHANGED Gate!vars
    BY <1>4 DEF PublishSegments, Published, NoRevisions, Gate!Publish
  <1>5. ASSUME status = "waiting_for_review", SetStatus("approved"), UNCHANGED rev
        PROVE  Gate!Approve
    BY <1>5 DEF Gate!Approve
  <1>6. ASSUME status \notin {"approved", "cancelled"}, SetStatus("cancelled"), UNCHANGED rev
        PROVE  Gate!Shut \/ UNCHANGED Gate!vars
    BY <1>6 DEF Gate!Shut
  <1>7. ASSUME FailTranscript
        PROVE  Gate!Shut \/ UNCHANGED Gate!vars
    BY <1>7 DEF FailTranscript, Gate!Shut
  <1> QED
    BY <1>1, <1>2, <1>3, <1>4, <1>5, <1>6, <1>7 DEF Transaction

\* The transcript implements the review gate: over all runs, restarts and
\* given-up attempts its segments are published once, edited one revision at a
\* time while the review is open, and frozen by the approval.
THEOREM Refinement == Spec => ImplementsReviewGate
  <1>1. Init => Gate!Init
    BY DEF Init, NoRevisions, Gate!Init
  <1>2. TypeOK /\ [Next]_vars => [Gate!Next]_(Gate!vars)
    BY StepIsTransaction, GateStep
  <1> QED
    BY <1>1, <1>2, TypeCorrect, PTL DEF Spec, ImplementsReviewGate, Gate!Spec

-----------------------------------------------------------------------------
(* Completion and approval.                                                *)

\* A request that is to signal, a run that was signalled and a completed run
\* are all behind an approval.
Consent ==
    /\ CompletedIsApproved
    /\ signalled => status = "approved"
    /\ \A u \in Users : upc[u] = "signal" => status = "approved"

\* Where a consent comes from: requests get it from the row, the run from a
\* request, and its completion from the signal.
LEMMA ConsentSource ==
    ASSUME TypeOK, [Next]_vars
    PROVE  /\ \A u \in Users : upc'[u] = "signal" =>
                  upc[u] = "signal" \/ status = "approved" \/ status' = "approved"
           /\ signalled' => signalled \/ \E u \in Users : upc[u] = "signal"
           /\ wf' = "completed" => wf = "completed" \/ signalled
  <1> USE DEF TypeOK
  <1>1. CASE UNCHANGED vars
    BY <1>1 DEF vars, runVars, userVars
  <1>2. ASSUME NEW u \in Users, Request(u)
        PROVE  /\ \A v \in Users : upc'[v] = "signal" =>
                      upc[v] = "signal" \/ status = "approved" \/ status' = "approved"
               /\ signalled' => signalled \/ upc[u] = "signal"
               /\ wf' = "completed" => wf = "completed"
    <2>1. CASE LoadRow(u) \/ LoadSegments(u) \/ Edit(u) \/ ApproveRead(u) \/ Signal(u)
      BY <2>1 DEF LoadRow, LoadSegments, Edit, ApproveRead, Signal, Reply, runVars, userVars
    <2>2. CASE Approve(u)
      BY <2>2 DEF Approve, SetStatus, Reply, runVars
    <2>3. CASE RestartRead(u) \/ (\E r \in Regions : Prepare(u, r)) \/ CancelRead(u) \/ Stop(u)
      BY <2>3 DEF RestartRead, Prepare, CancelRead, Stop, Reply, runVars
    <2>4. CASE Launch(u)
      BY <2>4 DEF Launch, Reply
    <2>5. CASE MarkCancelled(u) \/ Abandon(u)
      BY <2>5 DEF MarkCancelled, Abandon, Reply, runVars
    <2> QED
      BY <1>2, <2>1, <2>2, <2>3, <2>4, <2>5 DEF Request
  <1>3. ASSUME NEW r \in Runs, NEW n \in Attempts, Attempt(r, n)
        PROVE  UNCHANGED <<upc, signalled, wf>>
    BY <1>3 DEF Attempt, ReadStatus, Begin, Finish, Raise, LoadObservations, Recognize, Consolidate,
                attemptVars, userVars
  <1>4. CASE Workflow
    <2>1. UNCHANGED upc
      BY <1>4 DEF Workflow, Advance, Timeout, Complete, Cancel, EndMark, userVars
    <2>2. signalled' => signalled
      BY <1>4 DEF Workflow, Advance, Timeout, Complete, Cancel, EndMark, Retry, Schedule, GoTo, Leave
    <2>3. wf' = "completed" => signalled
      BY <1>4 DEF Workflow, Advance, Timeout, Complete, Cancel, EndMark, Retry, Schedule, GoTo, Leave,
                  Stages
    <2> QED
      BY <2>1, <2>2, <2>3
  <1>5. CASE MarkFailed
    BY <1>5 DEF MarkFailed, runVars, userVars
  <1> QED
    BY <1>1, <1>2, <1>3, <1>4, <1>5 DEF Next

\* A run of the workflow completes only behind an approval, and no late failure
\* mark, cancellation or restart takes that approval back.
THEOREM CompletionApproved == Spec => []CompletedIsApproved
  <1>1. Init => Consent
    BY DEF Init, Consent, CompletedIsApproved
  <1>2. TypeOK /\ Consent /\ [Next]_vars => Consent'
    <2> SUFFICES ASSUME TypeOK, Consent, [Next]_vars PROVE Consent'
      OBVIOUS
    <2>1. status = "approved" => status' = "approved"
      BY StepIsTransaction, TransactionFacts
    <2>2. \A u \in Users : upc'[u] = "signal" => status' = "approved"
      BY <2>1, ConsentSource DEF Consent
    <2>3. signalled' => status' = "approved"
      BY <2>1, ConsentSource DEF Consent
    <2>4. wf' = "completed" => status' = "approved"
      BY <2>1, ConsentSource DEF Consent, CompletedIsApproved
    <2> QED
      BY <2>2, <2>3, <2>4 DEF Consent, CompletedIsApproved
  <1>3. Consent => CompletedIsApproved
    BY DEF Consent
  <1> QED
    BY <1>1, <1>2, <1>3, TypeCorrect, PTL DEF Spec

\* A complete page of the current version shows the current revisions; no page
\* is ahead of the transcript.
Seen ==
    /\ \A u \in Users : view[u].version <= version
    /\ \A u \in Users : view[u].version = version /\ version # 0 /\ upc[u] # "segments" =>
           view[u].rev = rev
    /\ \A u \in Users : upc[u] = "approve" => view[u].version # 0

\* What a step does to the page of a user: nothing, a load of the row or of
\* the segments, or its loss.
PageStep(u) ==
    \/ /\ view'[u] = view[u]
       /\ upc'[u] = "segments" <=> upc[u] = "segments"
       /\ upc'[u] = "approve" => upc[u] = "approve" \/ view[u].version # 0
    \/ view'[u].version = version /\ version' = version /\ upc'[u] = "segments"
    \/ /\ view'[u].version = view[u].version /\ view'[u].rev = rev
       /\ UNCHANGED <<version, rev>> /\ upc'[u] = "idle"
    \/ view'[u] = NoPage /\ upc'[u] = "idle" /\ UNCHANGED version

\* Each page changes in one of these ways.
LEMMA PagesStep ==
    ASSUME TypeOK, [Next]_vars, NEW u \in Users
    PROVE  PageStep(u)
  <1> USE DEF TypeOK, PageStep
  <1>1. CASE UNCHANGED vars
    BY <1>1 DEF vars, userVars
  <1>2. ASSUME NEW v \in Users, Request(v) PROVE PageStep(u)
    <2>1. CASE LoadRow(v)
      BY <2>1 DEF LoadRow, Reply, rowVars
    <2>2. CASE LoadSegments(v)
      BY <2>2 DEF LoadSegments, Reply, rowVars
    <2>3. CASE Edit(v)
      BY <2>3 DEF Edit, userVars
    <2>4. CASE ApproveRead(v)
      BY <2>4 DEF ApproveRead, Reply
    <2>5. CASE Approve(v) \/ MarkCancelled(v)
      BY <2>5 DEF Approve, MarkCancelled, Reply
    <2>6. CASE Signal(v) \/ Stop(v) \/ CancelRead(v) \/ RestartRead(v)
      BY <2>6 DEF Signal, Stop, CancelRead, RestartRead, Reply
    <2>7. CASE (\E r \in Regions : Prepare(v, r)) \/ Launch(v)
      BY <2>7 DEF Prepare, Launch, Reply
    <2>8. CASE Abandon(v)
      BY <2>8 DEF Abandon, Reply, rowVars
    <2> QED
      BY <1>2, <2>1, <2>2, <2>3, <2>4, <2>5, <2>6, <2>7, <2>8 DEF Request
  <1>3. ASSUME NEW r \in Runs, NEW n \in Attempts, Attempt(r, n)
        PROVE  UNCHANGED <<upc, view>>
    BY <1>3 DEF Attempt, ReadStatus, Begin, Finish, Raise, LoadObservations, Recognize, Consolidate,
                attemptVars, userVars
  <1>4. CASE Workflow
    BY <1>4 DEF Workflow, Advance, Timeout, Complete, Cancel, EndMark, userVars
  <1>5. CASE MarkFailed
    BY <1>5 DEF MarkFailed, userVars
  <1> QED
    BY <1>1, <1>2, <1>3, <1>4, <1>5 DEF Next

\* Seen is inductive: a change of revisions is a new version, which no page has.
LEMMA SeenStep ==
    ASSUME TypeOK, TypeOK', Seen, [Next]_vars
    PROVE  Seen'
  <1>1. version' = version + 1 \/ UNCHANGED <<version, rev>>
    BY StepIsTransaction, TransactionFacts
  <1>2. version \in Nat /\ version' \in Nat
    BY DEF TypeOK
  <1>3. ASSUME NEW u \in Users
        PROVE  /\ view'[u].version <= version'
               /\ view'[u].version = version' /\ version' # 0 /\ upc'[u] # "segments" =>
                      view'[u].rev = rev'
               /\ upc'[u] = "approve" => view'[u].version # 0
    <2>1. PageStep(u)
      BY PagesStep
    <2>2. view[u].version \in Nat
      BY DEF TypeOK
    <2>3. NoPage.version = 0
      BY DEF NoPage
    <2> QED
      BY <1>1, <1>2, <2>1, <2>2, <2>3 DEF Seen, PageStep
  <1> QED
    BY <1>3 DEF Seen

\* An approval covers exactly what the approving page showed: no edit by another
\* page and no publication by another run is between its load and its approval.
THEOREM ApprovalSeen == Spec => ApprovedAsSeen
  <1>1. Init => Seen
    BY DEF Init, Seen, NoPage
  <1>2. TypeOK /\ TypeOK' /\ Seen /\ [Next]_vars => Seen'
    BY SeenStep
  <1>3. ASSUME TypeOK, Seen, [Next]_vars, status # "approved", status' = "approved"
        PROVE  \E u \in Users : upc[u] = "approve" /\ view[u].rev = rev
    <2>1. PICK u \in Users : upc[u] = "approve" /\ view[u].version = version
      BY <1>3, StepIsTransaction
         DEF Transaction, EditSegment, PrepareRow, PublishSegments, FailTranscript, SetStatus
    <2> QED
      BY <1>3, <2>1 DEF Seen
  <1>4. TypeOK /\ Seen /\ [Next]_vars =>
            [status # "approved" /\ status' = "approved" =>
                 \E u \in Users : upc[u] = "approve" /\ view[u].rev = rev]_vars
    BY <1>3
  <1> QED
    BY <1>1, <1>2, <1>4, TypeCorrect, PTL DEF Spec, ApprovedAsSeen

-----------------------------------------------------------------------------
(* The content of the segments.                                            *)

\* The segments that publish_ocr_segments takes show what OCR read.
THEOREM SubtitlesFollow == Spec => []SubtitlesFollowFrames
  <1>1. SubtitlesFollowFrames
    BY FramesFollowed DEF SubtitlesFollowFrames
  <1> QED
    BY <1>1, PTL

=============================================================================
