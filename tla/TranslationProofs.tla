------------------------- MODULE TranslationProofs -------------------------
(***************************************************************************)
(* Proofs about the translation, for any transcript, limits, policies,     *)
(* requests, runs and attempts: batches need an approved context and are   *)
(* published once, heads never regress, an approved translation is         *)
(* complete in its tone, and a transcript is cut into the fewest batches.  *)
(*                                                                         *)
(* Only a few variables matter to each, so each inductive invariant types  *)
(* no more than it needs.  The row changes in a few transactions only      *)
(* (StepIsTransaction); what is not about runs follows from those.         *)
(***************************************************************************)
EXTENDS Translation, SequenceTheorems, FiniteSetTheorems, LeastNumber, TLAPS

\* The changes of the row that are not a transaction of a batch or an edit.
RowStep ==
    \/ \E same \in BOOLEAN : PrepareRenews(same) /\ Renew
    \/ \E v \in Nat : ApproveContext(v) \/ ApproveTranslation(v)
    \/ CancelRow \/ PublishContext \/ FinalizeRow \/ FailRow
    \/ /\ UNCHANGED <<status, version, policy, ctx, head, batch, cloud>>
       /\ bound' = bound \/ \E u \in Users : bound' = req[u].policy

\* What a step may do to the row.
Transaction ==
    \/ RowStep
    \/ CreateBatches
    \/ \E u \in Users : upc[u] = "edit" /\ EditSegment(req[u])
    \/ \E p \in Policies, i \in Ordinals, n \in Attempts :
          /\ pc[p][<<"batch", i>>][n] = "call"
          /\ \E segs \in Accepted[i] : PublishBatch(lot[p], i, segs)

-----------------------------------------------------------------------------
(* Types: of requests and of the row's policy, context and heads.          *)

PolicyTypeOK ==
    /\ policy \in 0..MaxPolicies
    /\ status \in Statuses /\ version \in Nat
    /\ ctx \in {"none", "draft", "approved"}
    /\ head \in [Segments -> [policy : 0..MaxPolicies, version : Nat]]

RequestTypeOK ==
    /\ upc \in [Users -> UserPCs]
    /\ req \in [Users -> [policy : 0..MaxPolicies, version : Nat, seg : Segments, head : Nat]]

Types == PolicyTypeOK /\ RequestTypeOK

\* What a request holds when it is done or only knows its policy is typed.
LEMMA RequestFacts ==
    /\ NoReq \in [policy : 0..MaxPolicies, version : Nat, seg : Segments, head : Nat]
    /\ \A p \in 0..MaxPolicies :
          Holding(p) \in [policy : 0..MaxPolicies, version : Nat, seg : Segments, head : Nat]
    /\ \A p \in 0..MaxPolicies, v \in Nat :
          [Holding(p) EXCEPT !.version = v]
              \in [policy : 0..MaxPolicies, version : Nat, seg : Segments, head : Nat]
    /\ \A v \in Nat :
          [NoReq EXCEPT !.version = v]
              \in [policy : 0..MaxPolicies, version : Nat, seg : Segments, head : Nat]
  <1>1. 1 \in Segments /\ MaxPolicies \in Nat
    BY SegmentsAreOrdered, BoundsAreNat DEF Segments
  <1>2. NoReq \in [policy : 0..MaxPolicies, version : Nat, seg : Segments, head : Nat]
    BY <1>1 DEF NoReq
  <1>3. ASSUME NEW p \in 0..MaxPolicies
        PROVE  Holding(p) \in [policy : 0..MaxPolicies, version : Nat, seg : Segments, head : Nat]
    BY <1>1, <1>3 DEF Holding, NoReq
  <1>4. ASSUME NEW p \in 0..MaxPolicies, NEW v \in Nat
        PROVE  [Holding(p) EXCEPT !.version = v]
                   \in [policy : 0..MaxPolicies, version : Nat, seg : Segments, head : Nat]
    BY <1>1, <1>4 DEF Holding, NoReq
  <1>5. ASSUME NEW v \in Nat
        PROVE  [NoReq EXCEPT !.version = v]
                   \in [policy : 0..MaxPolicies, version : Nat, seg : Segments, head : Nat]
    BY <1>1, <1>5 DEF NoReq
  <1> QED
    BY <1>2, <1>3, <1>4, <1>5

\* A request that goes on keeps the types of requests.
LEMMA GotoTyped ==
    ASSUME RequestTypeOK, NEW u \in Users, NEW state \in UserPCs,
           NEW r \in [policy : 0..MaxPolicies, version : Nat, seg : Segments, head : Nat],
           Goto(u, state, r)
    PROVE  RequestTypeOK'
  BY DEF Goto, RequestTypeOK

-----------------------------------------------------------------------------
(* Transactions.                                                           *)

\* Whatever a request, an attempt or a run does to the row is a transaction.
LEMMA StepIsTransaction ==
    ASSUME Types, [Next]_vars
    PROVE  Transaction
  <1> USE DEF Types
  <1>row. ASSUME UNCHANGED rowVars PROVE Transaction
    BY <1>row DEF rowVars, Transaction, RowStep
  <1>1. CASE UNCHANGED vars
    BY <1>1, <1>row DEF vars
  <1>2. ASSUME NEW u \in Users, Request(u) PROVE Transaction
    <2>1. CASE EditCommit(u)
      BY <2>1, <1>row DEF EditCommit, Transaction
    <2>2. ASSUME NEW same \in BOOLEAN, Prepare(u, same) PROVE Transaction
      BY <2>2, <1>row DEF Prepare, Transaction, RowStep
    <2>3. CASE Bind(u)
      BY <2>3 DEF Bind, Transaction, RowStep
    <2>4. CASE ApproveContextCommit(u)
      BY <2>4, <1>row DEF ApproveContextCommit, RequestTypeOK, Transaction, RowStep
    <2>5. CASE ApproveCommit(u)
      BY <2>5, <1>row DEF ApproveCommit, RequestTypeOK, Transaction, RowStep
    <2>6. CASE MarkCancelled(u)
      BY <2>6 DEF MarkCancelled, Transaction, RowStep
    <2>7. CASE \/ EditRead(u) \/ Launch(u) \/ ApproveContextRead(u) \/ ApproveRead(u) \/ Signal(u)
               \/ Stop(u) \/ Abandon(u)
      BY <2>7, <1>row DEF EditRead, Launch, ApproveContextRead, ApproveRead, Signal, Stop, Abandon
    <2> QED
      BY <1>2, <2>1, <2>2, <2>3, <2>4, <2>5, <2>6, <2>7 DEF Request
  <1>3. ASSUME NEW p \in Policies, Workflow(p) PROVE Transaction
    BY <1>3, <1>row DEF Workflow, Timeout, Proceed
  <1>4. ASSUME NEW p \in Policies, NEW n \in Attempts, Attempt(p, n) PROVE Transaction
    <2>1. CASE ExtractContext(p, n)
      BY <2>1, <1>row DEF ExtractContext, Transaction, RowStep
    <2>2. CASE PlanTranslation(p, n)
      BY <2>2, <1>row DEF PlanTranslation, Transaction
    <2>3. ASSUME NEW i \in Ordinals, TranslateBatch(p, i, n) PROVE Transaction
      BY <2>3, <1>row DEF TranslateBatch, At, Transaction
    <2>4. CASE Finalize(p, n) \/ MarkFailed(p, n)
      BY <2>4 DEF Finalize, MarkFailed, Transaction, RowStep
    <2>5. CASE \/ ReadContext(p, n) \/ ReadPlan(p, n) \/ (\E i \in Ordinals : ReadBatch(p, i, n))
               \/ (\E job \in Jobs : Raise(p, job, n))
      BY <2>5, <1>row DEF ReadContext, ReadPlan, ReadBatch, Raise
    <2> QED
      BY <1>4, <2>1, <2>2, <2>3, <2>4, <2>5 DEF Attempt
  <1> QED
    BY <1>1, <1>2, <1>3, <1>4 DEF Next

-----------------------------------------------------------------------------
(* Types of the row and of requests.                                       *)

\* The transactions keep the row's types.
LEMMA PolicyTyped ==
    ASSUME Types, Transaction
    PROVE  PolicyTypeOK'
  <1> USE DEF PolicyTypeOK, RequestTypeOK, Types
  <1>statuses. Statuses = {"none", "context_processing", "waiting_for_context_review", "translating",
                           "waiting_for_review", "approved", "failed", "cancelled"}
    BY DEF Statuses
  <1>1. ASSUME NEW same \in BOOLEAN, PrepareRenews(same), Renew PROVE PolicyTypeOK'
    BY <1>1, <1>statuses, BoundsAreNat DEF PrepareRenews, Renew, SetStatus
  <1>2. ASSUME NEW v \in Nat, ApproveContext(v) \/ ApproveTranslation(v) PROVE PolicyTypeOK'
    BY <1>2, <1>statuses DEF ApproveContext, ApproveTranslation, SetStatus
  <1>3. CASE CancelRow \/ PublishContext \/ FinalizeRow \/ FailRow
    BY <1>3, <1>statuses DEF CancelRow, PublishContext, FinalizeRow, FailRow, SetStatus
  <1>4. CASE CreateBatches
    BY <1>4 DEF CreateBatches
  <1>5. ASSUME NEW u \in Users, EditSegment(req[u]) PROVE PolicyTypeOK'
    BY <1>5 DEF EditSegment
  <1>6. ASSUME NEW p, NEW i, NEW segs, PublishBatch(p, i, segs) PROVE PolicyTypeOK'
    BY <1>6 DEF PublishBatch, Translate
  <1>7. CASE UNCHANGED <<status, version, policy, ctx, head>>
    BY <1>7
  <1>8. CASE RowStep
    BY <1>1, <1>2, <1>3, <1>7, <1>8 DEF RowStep
  <1> QED
    BY <1>4, <1>5, <1>6, <1>8 DEF Transaction

\* A request keeps the types of requests.
LEMMA RequestTyped ==
    ASSUME Types, PolicyTypeOK', NEW u \in Users, Request(u)
    PROVE  RequestTypeOK'
  <1> USE DEF Types
  <1>pcs. UserPCs = {"idle", "launch", "bind", "context", "signal_context", "edit",
                     "approve", "signal", "cancel"}
    BY DEF UserPCs
  <1>req. req[u] \in [policy : 0..MaxPolicies, version : Nat, seg : Segments, head : Nat]
    BY DEF RequestTypeOK
  <1>done. Done(u) => RequestTypeOK'
    BY <1>pcs, RequestFacts, GotoTyped DEF Done
  <1>1. CASE EditRead(u)
    <2>1. PICK s \in Segments :
              Goto(u, "edit", [policy |-> policy, version |-> version,
                               seg |-> s, head |-> head[s].version])
      BY <1>1 DEF EditRead
    <2>2. head[s].version \in Nat /\ policy \in 0..MaxPolicies /\ version \in Nat
      BY DEF PolicyTypeOK
    <2> QED
      BY <2>1, <2>2, <1>pcs, GotoTyped
  <1>2. CASE EditCommit(u) \/ Bind(u) \/ MarkCancelled(u) \/ Abandon(u)
    BY <1>2, <1>done DEF EditCommit, Bind, MarkCancelled, Abandon
  <1>3. ASSUME NEW same \in BOOLEAN, Prepare(u, same) PROVE RequestTypeOK'
    BY <1>3, <1>done, <1>pcs, RequestFacts, GotoTyped DEF Prepare, PolicyTypeOK
  <1>4. CASE Launch(u)
    BY <1>4, <1>done, <1>pcs, <1>req, GotoTyped DEF Launch
  <1>5. CASE ApproveContextRead(u)
    BY <1>5, <1>pcs, RequestFacts, GotoTyped DEF ApproveContextRead, PolicyTypeOK
  <1>6. CASE ApproveContextCommit(u)
    <2>1. Holding(req[u].policy) \in [policy : 0..MaxPolicies, version : Nat, seg : Segments, head : Nat]
      BY <1>req, RequestFacts
    <2> QED
      BY <1>6, <1>done, <1>pcs, <2>1, GotoTyped DEF ApproveContextCommit
  <1>7. CASE ApproveRead(u)
    BY <1>7, <1>pcs, RequestFacts, GotoTyped DEF ApproveRead, PolicyTypeOK
  <1>8. CASE ApproveCommit(u)
    BY <1>8, <1>done, <1>pcs, RequestFacts, GotoTyped DEF ApproveCommit, PolicyTypeOK
  <1>9. CASE Signal(u)
    BY <1>9, <1>done DEF Signal
  <1>10. CASE Stop(u)
    BY <1>10, <1>pcs, RequestFacts, GotoTyped DEF Stop
  <1> QED
    BY <1>1, <1>2, <1>3, <1>4, <1>5, <1>6, <1>7, <1>8, <1>9, <1>10 DEF Request

\* The types of the row and of requests are inductive.
LEMMA TypesInvariance == Spec => []Types
  <1>1. Init => Types
    <2>1. Init => PolicyTypeOK
      BY BoundsAreNat DEF Init, PolicyTypeOK, Statuses
    <2>2. Init => RequestTypeOK
      BY RequestFacts DEF Init, RequestTypeOK, UserPCs
    <2> QED
      BY <2>1, <2>2 DEF Types
  <1>2. ASSUME Types, [Next]_vars PROVE Types'
    <2>1. PolicyTypeOK'
      BY <1>2, StepIsTransaction, PolicyTyped
    <2>2. CASE UNCHANGED <<upc, req>>
      BY <1>2, <2>1, <2>2 DEF Types, RequestTypeOK
    <2>3. ASSUME NEW u \in Users, Request(u) PROVE Types'
      BY <1>2, <2>1, <2>3, RequestTyped DEF Types
    <2>4. ASSUME NEW p \in Policies, Workflow(p) PROVE UNCHANGED <<upc, req>>
      BY <2>4 DEF Workflow, Timeout, Proceed
    <2>5. ASSUME NEW p \in Policies, NEW n \in Attempts, Attempt(p, n) PROVE UNCHANGED <<upc, req>>
      BY <2>5 DEF Attempt, ReadContext, ExtractContext, ReadPlan, PlanTranslation, ReadBatch,
                  TranslateBatch, Finalize, MarkFailed, Raise
    <2> QED
      BY <1>2, <2>2, <2>3, <2>4, <2>5 DEF Next, vars
  <1> QED
    BY <1>1, <1>2, PTL DEF Spec

-----------------------------------------------------------------------------
(* Heads.                                                                  *)

\* A step leaves a head alone or replaces it by one of the policy at work: that
\* of the state, or that of the edit, which then has seen this very head.
HeadStep(s) ==
    \/ head'[s] = head[s]
    \/ /\ head'[s].version = head[s].version + 1
       /\ \/ head'[s].policy = policy
          \/ \E u \in Users : /\ upc[u] = "edit" /\ req[u].seg = s
                              /\ req[u].head = head[s].version /\ head'[s].policy = req[u].policy

\* Each head changes in one of these ways.
LEMMA HeadsStep ==
    ASSUME Types, Transaction, NEW s \in Segments
    PROVE  HeadStep(s)
  <1> USE DEF Types, PolicyTypeOK, RequestTypeOK, HeadStep
  <1>1. CASE RowStep \/ CreateBatches
    BY <1>1 DEF RowStep, CreateBatches, Renew, ApproveContext, ApproveTranslation, CancelRow,
                PublishContext, FinalizeRow, FailRow
  <1>2. ASSUME NEW u \in Users, upc[u] = "edit", EditSegment(req[u]) PROVE HeadStep(s)
    BY <1>2 DEF EditSegment
  <1>3. ASSUME NEW p, NEW i, NEW segs, PublishBatch(p, i, segs) PROVE HeadStep(s)
    BY <1>3 DEF PublishBatch, Translate
  <1> QED
    BY <1>1, <1>2, <1>3 DEF Transaction

\* No head and no request is ahead of the policy; an edit never holds a version
\* that the head has yet to reach, and while the head is the one it has read, the
\* head's tone is not newer than its own.
HeadInv ==
    /\ \A s \in Segments : head[s].policy <= policy
    /\ \A u \in Users : req[u].policy <= policy
    /\ \A u \in Users : upc[u] = "edit" =>
          LET h == head[req[u].seg]
          IN  req[u].head <= h.version /\ (req[u].head = h.version => h.policy <= req[u].policy)
    /\ ApprovedIsComplete

\* What a step does to a request: nothing, or it is another one that holds no
\* policy beyond the state's, and that edits only if it has just read its head.
RequestStep(u) ==
    \/ upc'[u] = upc[u] /\ req'[u] = req[u]
    \/ /\ req'[u].policy <= policy' \/ req'[u].policy = req[u].policy
       /\ upc'[u] = "edit" => /\ UNCHANGED <<head, policy>>
                              /\ req'[u].head = head[req'[u].seg].version
                              /\ req'[u].policy = policy

\* Each request changes in one of these ways.
LEMMA RequestsStep ==
    ASSUME Types, Types', [Next]_vars, NEW u \in Users
    PROVE  RequestStep(u)
  <1>nat. policy \in Nat /\ policy' \in Nat /\ version \in Nat
    BY BoundsAreNat DEF Types, PolicyTypeOK
  <1>req. \A v \in Users : req[v].policy \in Nat
    BY BoundsAreNat DEF Types, RequestTypeOK
  <1>noreq. NoReq.policy = 0 /\ \A v \in Nat : [NoReq EXCEPT !.version = v].policy = 0
    BY DEF NoReq
  <1>holding. \A p \in Nat : Holding(p).policy = p
                 /\ \A v \in Nat : [Holding(p) EXCEPT !.version = v].policy = p
    BY DEF Holding, NoReq
  <1>goto. ASSUME NEW v \in Users, NEW state, state # "edit", NEW r, Goto(v, state, r),
                  r.policy <= policy' \/ r.policy = req[v].policy
           PROVE  RequestStep(u)
    BY <1>goto DEF Goto, Types, RequestTypeOK, RequestStep
  <1>done. ASSUME NEW v \in Users, Done(v) PROVE RequestStep(u)
    BY <1>done, <1>goto, <1>noreq, <1>nat DEF Done
  <1>1. CASE UNCHANGED <<upc, req>>
    BY <1>1 DEF RequestStep
  <1>2. ASSUME NEW v \in Users, Request(v) PROVE RequestStep(u)
    <2>1. CASE EditRead(v)
      BY <2>1 DEF EditRead, Goto, rowVars, Types, RequestTypeOK, RequestStep
    <2>2. CASE EditCommit(v) \/ Bind(v) \/ MarkCancelled(v) \/ Abandon(v) \/ Signal(v)
      BY <2>2, <1>done DEF EditCommit, Bind, MarkCancelled, Abandon, Signal
    <2>3. ASSUME NEW same \in BOOLEAN, Prepare(v, same) PROVE RequestStep(u)
      BY <2>3, <1>done, <1>goto, <1>holding, <1>nat DEF Prepare
    <2>4. CASE Launch(v)
      BY <2>4, <1>done, <1>goto DEF Launch
    <2>5. CASE ApproveContextRead(v)
      BY <2>5, <1>nat DEF ApproveContextRead, Goto, Holding, NoReq, rowVars, Types, RequestTypeOK,
                          RequestStep
    <2>6. CASE ApproveContextCommit(v)
      <3>1. Holding(req[v].policy).policy = req[v].policy
        BY <1>req, <1>holding
      <3> QED
        BY <2>6, <3>1, <1>done, <1>goto DEF ApproveContextCommit
    <2>7. CASE ApproveRead(v)
      BY <2>7, <1>nat DEF ApproveRead, Goto, NoReq, Types, RequestTypeOK, RequestStep
    <2>8. CASE ApproveCommit(v)
      BY <2>8, <1>done, <1>goto, <1>holding, <1>nat DEF ApproveCommit, ApproveTranslation
    <2>9. CASE Stop(v)
      BY <2>9, <1>goto, <1>noreq, <1>nat DEF Stop
    <2> QED
      BY <1>2, <2>1, <2>2, <2>3, <2>4, <2>5, <2>6, <2>7, <2>8, <2>9 DEF Request
  <1>3. ASSUME NEW p \in Policies, Workflow(p) PROVE UNCHANGED <<upc, req>>
    BY <1>3 DEF Workflow, Timeout, Proceed
  <1>4. ASSUME NEW p \in Policies, NEW n \in Attempts, Attempt(p, n) PROVE UNCHANGED <<upc, req>>
    BY <1>4 DEF Attempt, ReadContext, ExtractContext, ReadPlan, PlanTranslation, ReadBatch,
                TranslateBatch, Finalize, MarkFailed, Raise
  <1> QED
    BY <1>1, <1>2, <1>3, <1>4 DEF Next, vars

\* The policy only grows, and a step that leaves the translation approved either
\* finds it complete or finds it approved and leaves the policy alone.
LEMMA PolicyStep ==
    ASSUME Types, Transaction
    PROVE  /\ policy' = policy \/ (policy' = policy + 1 /\ status' # "approved")
           /\ status' = "approved" /\ status # "approved" =>
                  head' = head /\ \A s \in Segments : head[s].policy = policy
  <1> USE DEF Types, PolicyTypeOK
  <1>1. CASE CreateBatches
    BY <1>1 DEF CreateBatches
  <1>2. ASSUME NEW u \in Users, EditSegment(req[u])
        PROVE  UNCHANGED <<policy, status>>
    BY <1>2 DEF EditSegment
  <1>3. ASSUME NEW p, NEW i, NEW segs, PublishBatch(p, i, segs)
        PROVE  UNCHANGED <<policy, status>>
    BY <1>3 DEF PublishBatch
  <1>4. CASE RowStep
    BY <1>4 DEF RowStep, Renew, ApproveContext, ApproveTranslation, CancelRow, PublishContext,
                FinalizeRow, FailRow, SetStatus
  <1> QED
    BY <1>1, <1>2, <1>3, <1>4 DEF Transaction

\* Heads do not regress where the invariant holds.
LEMMA HeadsAdvanceStep ==
    ASSUME Types, HeadInv, Transaction
    PROVE  \A s \in Segments : head'[s].policy >= head[s].policy /\ head'[s].policy <= policy
  <1> SUFFICES ASSUME NEW s \in Segments
               PROVE  head'[s].policy >= head[s].policy /\ head'[s].policy <= policy
    OBVIOUS
  <1>1. HeadStep(s)
    BY HeadsStep
  <1>2. head[s].policy \in Nat /\ policy \in Nat
    BY BoundsAreNat DEF Types, PolicyTypeOK
  <1>3. head[s].policy <= policy
    BY DEF HeadInv
  <1>4. ASSUME NEW u \in Users, upc[u] = "edit", req[u].seg = s, req[u].head = head[s].version
        PROVE  head[s].policy <= req[u].policy /\ req[u].policy <= policy
    BY <1>4 DEF HeadInv
  <1> QED
    BY <1>1, <1>2, <1>3, <1>4 DEF HeadStep

\* HeadInv is inductive.
LEMMA HeadInvStep ==
    ASSUME Types, Types', HeadInv, [Next]_vars
    PROVE  HeadInv'
  <1>t. Transaction
    BY StepIsTransaction
  <1>nat. policy \in Nat /\ policy' \in Nat /\ policy <= policy'
    BY <1>t, PolicyStep, BoundsAreNat DEF Types, PolicyTypeOK
  <1>heads. \A s \in Segments : /\ head[s].policy \in Nat /\ head'[s].policy \in Nat
                               /\ head[s].version \in Nat /\ head'[s].version \in Nat
    BY BoundsAreNat DEF Types, PolicyTypeOK
  <1>reqs. \A u \in Users : /\ req[u].policy \in Nat /\ req'[u].policy \in Nat
                            /\ req[u].head \in Nat /\ req'[u].head \in Nat
                            /\ req[u].seg \in Segments /\ req'[u].seg \in Segments
    BY BoundsAreNat DEF Types, RequestTypeOK
  <1>1. \A s \in Segments : head'[s].policy <= policy'
    BY <1>t, <1>nat, <1>heads, HeadsAdvanceStep
  <1>2. \A u \in Users : req'[u].policy <= policy'
    <2> SUFFICES ASSUME NEW u \in Users PROVE req'[u].policy <= policy'
      OBVIOUS
    <2>1. RequestStep(u) /\ req[u].policy <= policy
      BY RequestsStep DEF HeadInv
    <2> QED
      BY <2>1, <1>nat, <1>reqs DEF RequestStep
  <1>3. ASSUME NEW u \in Users, upc'[u] = "edit"
        PROVE  LET h == head'[req'[u].seg]
               IN  /\ req'[u].head <= h.version
                   /\ req'[u].head = h.version => h.policy <= req'[u].policy
    <2>1. RequestStep(u)
      BY RequestsStep
    <2>2. CASE upc'[u] = upc[u] /\ req'[u] = req[u]
      <3>1. HeadStep(req[u].seg)
        BY <1>t, <1>reqs, HeadsStep
      <3>2. req[u].head <= head[req[u].seg].version
            /\ (req[u].head = head[req[u].seg].version => head[req[u].seg].policy <= req[u].policy)
        BY <1>3, <2>2 DEF HeadInv
      <3> QED
        BY <2>2, <3>1, <3>2, <1>reqs, <1>heads DEF HeadStep
    <2>3. CASE /\ UNCHANGED <<head, policy>>
               /\ req'[u].head = head[req'[u].seg].version /\ req'[u].policy = policy
      BY <2>3, <1>reqs, <1>heads DEF HeadInv
    <2> QED
      BY <1>3, <2>1, <2>2, <2>3 DEF RequestStep
  <1>4. ApprovedIsComplete'
    <2> SUFFICES ASSUME status' = "approved", NEW s \in Segments PROVE head'[s].policy = policy'
      BY DEF ApprovedIsComplete
    <2>1. policy' = policy
      BY <1>t, PolicyStep
    <2>2. CASE status = "approved"
      <3>1. head[s].policy = policy
        BY <2>2 DEF HeadInv, ApprovedIsComplete
      <3>2. head'[s].policy >= head[s].policy /\ head'[s].policy <= policy
        BY <1>t, HeadsAdvanceStep
      <3> QED
        BY <2>1, <3>1, <3>2, <1>heads, <1>nat
    <2>3. CASE status # "approved"
      BY <2>1, <2>3, <1>t, PolicyStep
    <2> QED
      BY <2>2, <2>3
  <1> QED
    BY <1>1, <1>2, <1>3, <1>4 DEF HeadInv

\* HeadInv holds in every state.
LEMMA HeadInvariance == Spec => []HeadInv
  <1>1. Init => HeadInv
    BY DEF Init, HeadInv, ApprovedIsComplete, NoReq
  <1>2. Types /\ Types' /\ HeadInv /\ [Next]_vars => HeadInv'
    BY HeadInvStep
  <1> QED
    BY <1>1, <1>2, TypesInvariance, PTL DEF Spec

\* An approved translation is complete in the tone of its policy, whatever edits and
\* attempts that began under an earlier policy still do.
THEOREM ApprovalComplete == Spec => []ApprovedIsComplete
  BY HeadInvariance, PTL DEF HeadInv

\* No late edit or attempt puts a segment back to the tone of an older policy.
THEOREM HeadsAdvance == Spec => HeadNeverRegresses
  <1>1. Types /\ HeadInv /\ [Next]_vars =>
            [\A s \in Segments : head'[s].policy >= head[s].policy]_vars
    BY StepIsTransaction, HeadsAdvanceStep
  <1> QED
    BY <1>1, TypesInvariance, HeadInvariance, PTL DEF Spec, HeadNeverRegresses

-----------------------------------------------------------------------------
(* Batches.                                                                *)

PCs == [Policies -> [Jobs -> [Attempts -> {"off", "read", "call"}]]]

\* The types of the runs and the batches, as far as these proofs need them.
RunTypeOK ==
    /\ wf = [p \in Policies |-> wf[p]]
    /\ pc \in PCs
    /\ lot \in [Policies -> 0..MaxPolicies]

BatchTypeOK == batch \in [Policies -> [Ordinals -> {"none", "pending", "succeeded"}]]

\* The run of the policy is at its batches, or an attempt of one goes on.
InBatch(p) ==
    \/ wf[p][1] = "batch"
    \/ \E i \in Ordinals, n \in Attempts : pc[p][<<"batch", i>>][n] # "off"

\* Where no attempt is but where one was.
Fewer(places) ==
    /\ places \in PCs
    /\ \A p \in Policies, job \in Jobs, n \in Attempts : places[p][job][n] # "off" => pc[p][job][n] # "off"

\* A move of an attempt keeps the positions of all.
LEMMA PCsMove ==
    ASSUME pc \in PCs, NEW p, NEW job, NEW n, NEW at \in {"off", "read", "call"}
    PROVE  [pc EXCEPT ![p][job][n] = at] \in PCs
  BY DEF PCs

\* A run that goes on is at its batches if that is where it goes.
LEMMA RunToBatch ==
    ASSUME RunTypeOK, NEW p \in Policies, NEW to, NEW n, NEW places, Fewer(places),
           RunTo(p, to, n, places)
    PROVE  /\ wf' = [q \in Policies |-> wf'[q]]
           /\ pc' \in PCs
           /\ \A q \in Policies : InBatch(q)' => InBatch(q) \/ (q = p /\ to[1] = "batch")
  <1>1. wf' = [wf EXCEPT ![p] = to]
    BY DEF RunTo
  <1>2. wf' = [q \in Policies |-> wf'[q]]
    BY <1>1 DEF RunTypeOK
  <1>3. pc' \in PCs
    BY DEF RunTo, Fewer, PCs
  <1>4. ASSUME NEW q \in Policies, InBatch(q)', ~(q = p /\ to[1] = "batch")
        PROVE  InBatch(q)
    <2>1. CASE wf'[q][1] = "batch"
      BY <1>1, <1>4, <2>1 DEF InBatch, RunTypeOK
    <2>2. ASSUME NEW i \in Ordinals, NEW k \in Attempts, pc'[q][<<"batch", i>>][k] # "off"
          PROVE  InBatch(q)
      <3>1. <<"batch", i>> \in Jobs
        BY DEF Jobs
      <3>2. places[q][<<"batch", i>>][k] # "off"
        <4>1. q = p => to # <<"batch", i>>
          BY <1>4
        <4> QED
          BY <2>2, <3>1, <4>1 DEF RunTo, Fewer, PCs
      <3> QED
        BY <3>1, <3>2 DEF Fewer, InBatch
    <2> QED
      BY <1>4, <2>1, <2>2 DEF InBatch
  <1> QED
    BY <1>2, <1>3, <1>4

\* An attempt that ends, or is given up, leaves no more than there were.
LEMMA FewerFacts ==
    ASSUME RunTypeOK
    PROVE  /\ Fewer(pc)
           /\ \A n : \A p \in Policies, job \in Jobs : Fewer([pc EXCEPT ![p][job][n] = "off"])
           /\ \A p \in Policies : wf[p] \in Jobs => \A places \in GivenUp(p) : Fewer(places)
  <1>1. Fewer(pc)
    BY DEF RunTypeOK, Fewer
  <1>2. ASSUME NEW p \in Policies, NEW job \in Jobs, NEW n
        PROVE  Fewer([pc EXCEPT ![p][job][n] = "off"])
    <2> DEFINE places == [pc EXCEPT ![p][job][n] = "off"]
    <2>1. places \in PCs
      BY DEF RunTypeOK, PCs
    <2>2. ASSUME NEW q \in Policies, NEW j \in Jobs, NEW k \in Attempts, places[q][j][k] # "off"
          PROVE  pc[q][j][k] # "off"
      BY <2>2 DEF RunTypeOK, PCs
    <2> QED
      BY <2>1, <2>2 DEF Fewer
  <1>3. ASSUME NEW p \in Policies, wf[p] \in Jobs, NEW places \in GivenUp(p) PROVE Fewer(places)
    <2>1. CASE places = pc
      BY <1>1, <2>1
    <2>2. CASE places = [pc EXCEPT ![p][wf[p]][wn[p]] = "off"]
      BY <1>2, <1>3, <2>2
    <2> QED
      BY <1>3, <2>1, <2>2 DEF GivenUp
  <1> QED
    BY <1>1, <1>2, <1>3

\* What a step of the runs may do: no run gets to its batches but from them.
RunsKept ==
    /\ wf' = [q \in Policies |-> wf'[q]]
    /\ pc' \in PCs
    /\ \A q \in Policies : InBatch(q)' => InBatch(q)

\* A retry or an error does that.
LEMMA RetryKept ==
    ASSUME RunTypeOK, NEW p \in Policies, NEW places, Fewer(places),
           Retry(p, places) \/ RunTo(p, AfterError(wf[p]), 1, places)
                            \/ RunTo(p, Step("closed"), 1, places)
    PROVE  RunsKept
  <1>1. AfterError(wf[p])[1] # "batch" /\ Step("closed")[1] # "batch"
    BY DEF AfterError, Step
  <1>2. CASE RunTo(p, wf[p], wn[p] + 1, places)
    BY <1>2, RunToBatch DEF RunsKept, InBatch
  <1>3. CASE RunTo(p, AfterError(wf[p]), 1, places)
    BY <1>1, <1>3, RunToBatch DEF RunsKept
  <1>4. CASE RunTo(p, Step("closed"), 1, places)
    BY <1>1, <1>4, RunToBatch DEF RunsKept
  <1> QED
    BY <1>2, <1>3, <1>4 DEF Retry

\* The report of an attempt that is at work does, unless it is a plan.
LEMMA ReportKept ==
    ASSUME RunTypeOK, NEW p \in Policies, NEW job \in Jobs, NEW n \in Attempts, NEW outcome,
           pc[p][job][n] # "off", Report(p, job, n, outcome), job # Step("plan") \/ outcome # "ok"
    PROVE  RunsKept
  <1> DEFINE places == [pc EXCEPT ![p][job][n] = "off"]
  <1>1. Fewer(places)
    BY FewerFacts
  <1>2. CASE pc' = places /\ UNCHANGED wf
    <2>1. \A i \in Ordinals : <<"batch", i>> \in Jobs
      BY DEF Jobs
    <2>2. wf' = [q \in Policies |-> wf'[q]] /\ pc' \in PCs
      BY <1>1, <1>2 DEF RunTypeOK, Fewer
    <2>3. \A q \in Policies, i \in Ordinals, k \in Attempts :
              pc'[q][<<"batch", i>>][k] # "off" => pc[q][<<"batch", i>>][k] # "off"
      BY <1>1, <1>2, <2>1 DEF Fewer
    <2> QED
      BY <1>2, <2>2, <2>3 DEF RunsKept, InBatch
  <1>3. CASE wf[p] = job /\ outcome = "ok" /\ RunTo(p, NextStep(job), 1, places)
    <2>1. NextStep(job)[1] = "batch" => job[1] = "batch"
      BY <1>3 DEF NextStep, Step, Jobs
    <2>2. NextStep(job)[1] = "batch" => InBatch(p)
      BY <1>3, <2>1 DEF InBatch
    <2> QED
      BY <1>1, <1>3, <2>2, RunToBatch DEF RunsKept
  <1>4. CASE wf[p] = job /\ (Retry(p, places) \/ RunTo(p, AfterError(wf[p]), 1, places))
    BY <1>1, <1>4, RetryKept
  <1> QED
    BY <1>2, <1>3, <1>4 DEF Report

\* A run whose plan is reported is told to translate the batches of the state's
\* policy, which are there.
PlanReported(p) ==
    /\ CreateBatches
    /\ lot' = [lot EXCEPT ![p] = policy]
    /\ wf' = [q \in Policies |-> wf'[q]]
    /\ pc' \in PCs
    /\ \A q \in Policies : InBatch(q)' => InBatch(q) \/ q = p

\* Every step either keeps the runs from their batches or is such a report.
LEMMA RunsStep ==
    ASSUME Types, RunTypeOK, [Next]_vars
    PROVE  (RunsKept /\ lot' = lot) \/ \E p \in Policies : PlanReported(p)
  <1>same. ASSUME UNCHANGED <<wf, pc>> PROVE RunsKept
    BY <1>same DEF RunsKept, InBatch, RunTypeOK
  <1>call. ASSUME NEW p \in Policies, NEW job \in Jobs, NEW n \in Attempts,
                  pc[p][job][n] = "read", Call(p, job, n)
           PROVE  RunsKept /\ lot' = lot
    <2>1. \A q \in Policies, j \in Jobs, k \in Attempts :
              pc'[q][j][k] # "off" => pc[q][j][k] # "off"
      BY <1>call DEF Call, RunTypeOK, PCs
    <2>2. pc' \in PCs /\ UNCHANGED <<wf, lot>>
      BY <1>call DEF Call, runVars, RunTypeOK, PCs
    <2>3. \A i \in Ordinals : <<"batch", i>> \in Jobs
      BY DEF Jobs
    <2> QED
      BY <2>1, <2>2, <2>3 DEF RunsKept, InBatch, RunTypeOK
  <1>jobs. /\ \A name \in {"context", "plan", "finalize", "mark"} : Step(name) \in Jobs
           /\ \A i \in Ordinals : <<"batch", i>> \in Jobs /\ <<"batch", i>> # Step("plan")
           /\ Step("context") # Step("plan") /\ Step("finalize") # Step("plan")
           /\ Step("mark") # Step("plan")
    BY DEF Jobs, Step
  <1>1. CASE UNCHANGED vars
    BY <1>1, <1>same DEF vars, runVars
  <1>2. ASSUME NEW u \in Users, Request(u) PROVE RunsKept /\ lot' = lot
    <2>1. CASE Launch(u)
      <3>1. lot' = lot
        BY <2>1 DEF Launch
      <3>2. CASE UNCHANGED <<wf, pc>>
        BY <3>1, <3>2, <1>same
      <3>3. CASE /\ wf' = [wf EXCEPT ![req[u].policy] = Step("context")]
                 /\ pc' = [pc EXCEPT ![req[u].policy][Step("context")][1] = "read"]
        <4>1. pc' \in PCs /\ wf' = [q \in Policies |-> wf'[q]]
          <5>1. pc' \in PCs
            BY <3>3, PCsMove DEF RunTypeOK
          <5>2. wf' = [q \in Policies |-> wf'[q]]
            BY <3>3 DEF RunTypeOK
          <5> QED
            BY <5>1, <5>2
        <4>2. \A q \in Policies, i \in Ordinals, k \in Attempts :
                  pc'[q][<<"batch", i>>][k] = pc[q][<<"batch", i>>][k]
          <5>1. \A i \in Ordinals : <<"batch", i>> # Step("context")
            BY DEF Step
          <5> QED
            BY <3>3, <5>1, <1>jobs DEF RunTypeOK, PCs
        <4>3. \A q \in Policies : wf'[q][1] = "batch" => wf[q][1] = "batch"
          BY <3>3 DEF RunTypeOK, Step
        <4> QED
          BY <3>1, <4>1, <4>2, <4>3 DEF RunsKept, InBatch
      <3> QED
        BY <2>1, <3>2, <3>3 DEF Launch
    <2>2. CASE Stop(u)
      <3>1. lot' = lot
        BY <2>2 DEF Stop
      <3>2. CASE UNCHANGED <<wf, pc>>
        BY <3>1, <3>2, <1>same
      <3>3. CASE wf[policy] \in Open /\ Cancel(policy)
        <4>1. policy \in Policies
          BY <2>2 DEF Stop, Types, PolicyTypeOK, Policies
        <4>2. ASSUME wf[policy] \in Jobs, NEW places \in GivenUp(policy),
                     RunTo(policy, AfterError(wf[policy]), 1, places)
              PROVE  RunsKept
          BY <4>1, <4>2, FewerFacts, RetryKept
        <4>3. ASSUME RunTo(policy, Step("closed"), 1, pc) PROVE RunsKept
          BY <4>1, <4>3, FewerFacts, RetryKept
        <4> QED
          BY <3>1, <3>3, <4>2, <4>3 DEF Cancel
      <3> QED
        BY <2>2, <3>2, <3>3 DEF Stop
    <2>3. CASE \/ EditRead(u) \/ EditCommit(u) \/ (\E same \in BOOLEAN : Prepare(u, same)) \/ Bind(u)
               \/ ApproveContextRead(u) \/ ApproveContextCommit(u) \/ ApproveRead(u)
               \/ ApproveCommit(u) \/ Signal(u) \/ MarkCancelled(u) \/ Abandon(u)
      BY <2>3, <1>same DEF EditRead, EditCommit, Prepare, Bind, ApproveContextRead, ApproveContextCommit,
                           ApproveRead, ApproveCommit, Signal, MarkCancelled, Abandon, runVars
    <2> QED
      BY <1>2, <2>1, <2>2, <2>3 DEF Request
  <1>3. ASSUME NEW p \in Policies, Workflow(p) PROVE RunsKept /\ lot' = lot
    <2>1. CASE Timeout(p)
      BY <2>1, FewerFacts, RetryKept DEF Timeout
    <2>2. CASE Proceed(p)
      <3>1. PICK to \in {Step("plan"), Step("completed")} : RunTo(p, to, 1, pc)
        BY <2>2 DEF Proceed
      <3>2. to[1] # "batch"
        BY DEF Step
      <3> QED
        BY <2>2, <3>1, <3>2, FewerFacts, RunToBatch DEF Proceed, RunsKept
    <2> QED
      BY <1>3, <2>1, <2>2 DEF Workflow
  <1>4. ASSUME NEW p \in Policies, NEW n \in Attempts, Attempt(p, n)
        PROVE  (RunsKept /\ lot' = lot) \/ PlanReported(p)
    <2>1. CASE PlanTranslation(p, n)
      <3>1. CASE Report(p, Step("plan"), n, "retry") /\ UNCHANGED lot
        BY <2>1, <3>1, <1>jobs, ReportKept DEF PlanTranslation, At
      <3>2. CASE CreateBatches /\ wf[p] = Step("plan") /\ wn[p] = n /\ Report(p, Step("plan"), n, "ok")
        <4>1. Fewer([pc EXCEPT ![p][Step("plan")][n] = "off"])
          BY FewerFacts, <1>jobs
        <4>2. RunTo(p, NextStep(Step("plan")), 1, [pc EXCEPT ![p][Step("plan")][n] = "off"])
          BY <3>2 DEF Report
        <4>3. lot' = [lot EXCEPT ![p] = policy]
          BY <2>1, <3>2 DEF PlanTranslation, CreateBatches
        <4> QED
          BY <3>2, <4>1, <4>2, <4>3, RunToBatch DEF PlanReported
      <3>3. CASE Report(p, Step("plan"), n, "ok") /\ ~(wf[p] = Step("plan") /\ wn[p] = n) /\ UNCHANGED lot
        <4>1. pc' = [pc EXCEPT ![p][Step("plan")][n] = "off"] /\ UNCHANGED wf
          BY <3>3 DEF Report
        <4>2. Fewer([pc EXCEPT ![p][Step("plan")][n] = "off"])
          BY FewerFacts, <1>jobs
        <4>3. \A q \in Policies, i \in Ordinals, k \in Attempts :
                  pc'[q][<<"batch", i>>][k] # "off" => pc[q][<<"batch", i>>][k] # "off"
          BY <4>1, <4>2, <1>jobs DEF Fewer
        <4> QED
          BY <3>3, <4>1, <4>2, <4>3 DEF RunsKept, InBatch, RunTypeOK, Fewer
      <3> QED
        BY <2>1, <3>1, <3>2, <3>3 DEF PlanTranslation
    <2>2. CASE ReadContext(p, n)
      BY <2>2, <1>jobs, <1>call, ReportKept DEF ReadContext, At
    <2>3. CASE ExtractContext(p, n)
      BY <2>3, <1>jobs, ReportKept DEF ExtractContext, ReportPaid, At
    <2>4. CASE ReadPlan(p, n)
      BY <2>4, <1>jobs, <1>call, ReportKept DEF ReadPlan, At
    <2>5. ASSUME NEW i \in Ordinals, ReadBatch(p, i, n) PROVE RunsKept /\ lot' = lot
      BY <2>5, <1>jobs, <1>call, ReportKept DEF ReadBatch, At
    <2>6. ASSUME NEW i \in Ordinals, TranslateBatch(p, i, n) PROVE RunsKept /\ lot' = lot
      BY <2>6, <1>jobs, ReportKept DEF TranslateBatch, ReportPaid, At
    <2>7. CASE Finalize(p, n) \/ MarkFailed(p, n)
      BY <2>7, <1>jobs, ReportKept DEF Finalize, MarkFailed, ReportLocal, At
    <2>8. ASSUME NEW job \in Jobs, Raise(p, job, n) PROVE RunsKept /\ lot' = lot
      <3>1. PICK outcome \in {"retry", "fatal"} : Report(p, job, n, outcome)
        BY <2>8 DEF Raise, ProviderErrors
      <3> QED
        BY <2>8, <3>1, ReportKept DEF Raise, At
    <2> QED
      BY <1>4, <2>1, <2>2, <2>3, <2>4, <2>5, <2>6, <2>7, <2>8 DEF Attempt
  <1> QED
    BY <1>1, <1>2, <1>3, <1>4 DEF Next

\* The policies to come have no batches, a policy has all of its batches or none, a
\* run that is at its batches was told those of a policy that has them, and while
\* the context of a row is being made there is none yet.
BatchInv ==
    /\ RunTypeOK /\ BatchTypeOK
    /\ \A p \in Policies, i \in Ordinals : p > policy => batch[p][i] = "none"
    /\ \A p \in Policies, i, k \in Ordinals : batch[p][i] # "none" => batch[p][k] # "none"
    /\ \A p \in Policies, i \in Ordinals : lot[p] # 0 => batch[lot[p]][i] # "none"
    /\ \A p \in Policies : InBatch(p) => lot[p] # 0
    /\ status = "context_processing" => ctx = "none"
    /\ status \in {"context_processing", "waiting_for_context_review"} \/ ctx # "none" => policy # 0
    /\ BatchesNeedApproval

\* A row whose batches are left alone keeps what the invariant says of it.
LEMMA RowBatchStep ==
    ASSUME Types, BatchInv, RowStep
    PROVE  /\ batch' = batch
           /\ \A p \in Policies, i \in Ordinals : p > policy' => batch[p][i] = "none"
           /\ status' = "context_processing" => ctx' = "none"
           /\ status' \in {"context_processing", "waiting_for_context_review"} \/ ctx' # "none" =>
                  policy' # 0
           /\ BatchesNeedApproval'
  <1>nat. policy \in 0..MaxPolicies /\ MaxPolicies \in Nat
    BY BoundsAreNat DEF Types, PolicyTypeOK
  <1>1. ASSUME NEW same \in BOOLEAN, PrepareRenews(same), Renew
        PROVE  /\ batch' = batch /\ policy' = policy + 1 /\ ctx' = "none"
               /\ policy' \in Policies
    BY <1>1, <1>nat DEF PrepareRenews, Renew, Policies
  <1>2. CASE \E same \in BOOLEAN : PrepareRenews(same) /\ Renew
    <2>1. \A i \in Ordinals : batch[policy'][i] = "none"
      BY <1>1, <1>2, <1>nat DEF BatchInv
    <2>2. BatchesNeedApproval'
      BY <1>1, <1>2, <2>1 DEF BatchesNeedApproval
    <2> QED
      BY <1>1, <1>2, <2>2, <1>nat DEF BatchInv, Policies
  <1>3. CASE \E v \in Nat : ApproveContext(v) \/ ApproveTranslation(v)
    BY <1>3 DEF ApproveContext, ApproveTranslation, SetStatus, BatchInv, BatchesNeedApproval
  <1>4. CASE PublishContext
    BY <1>4 DEF PublishContext, SetStatus, Later, BatchInv, BatchesNeedApproval
  <1>5. CASE CancelRow \/ FinalizeRow \/ FailRow \/ UNCHANGED <<status, version, policy, ctx, head, batch>>
    BY <1>5 DEF CancelRow, FinalizeRow, FailRow, SetStatus, BatchInv, BatchesNeedApproval
  <1> QED
    BY <1>2, <1>3, <1>4, <1>5 DEF RowStep

\* A batch of a run is published under the context that was approved for it.
LEMMA PublishStep ==
    ASSUME Types, BatchInv, NEW p \in Policies, NEW i \in Ordinals, NEW segs,
           InBatch(p), PublishBatch(lot[p], i, segs)
    PROVE  /\ batch' = batch \/ (batch' = [batch EXCEPT ![lot[p]][i] = "succeeded"] /\ lot[p] = policy
                                   /\ lot[p] \in Policies /\ batch[lot[p]][i] # "none" /\ ctx = "approved")
           /\ UNCHANGED <<status, policy, ctx>>
  <1>1. lot[p] # 0 /\ batch[lot[p]][i] # "none"
    BY DEF BatchInv
  <1>2. lot[p] \in Policies
    BY <1>1, BoundsAreNat DEF BatchInv, RunTypeOK, Policies
  <1>3. lot[p] = policy => ctx = "approved"
    BY <1>1 DEF BatchInv, BatchesNeedApproval
  <1> QED
    BY <1>1, <1>2, <1>3 DEF PublishBatch

\* BatchInv is inductive.
LEMMA BatchInvStep ==
    ASSUME Types, BatchInv, [Next]_vars
    PROVE  BatchInv'
  <1>t. Transaction
    BY StepIsTransaction
  <1>nat. policy \in 0..MaxPolicies /\ MaxPolicies \in Nat
    BY BoundsAreNat DEF Types, PolicyTypeOK
  <1> USE DEF BatchInv
  <1>runs. (RunsKept /\ lot' = lot) \/ \E p \in Policies : PlanReported(p)
    BY RunsStep
  <1>kept. ASSUME RunsKept, lot' = lot, BatchTypeOK',
                  \A p \in Policies, i \in Ordinals : batch'[p][i] # "none" <=> batch[p][i] # "none"
           PROVE  /\ RunTypeOK'
                  /\ \A p \in Policies, i, k \in Ordinals : batch'[p][i] # "none" => batch'[p][k] # "none"
                  /\ \A p \in Policies, i \in Ordinals : lot'[p] # 0 => batch'[lot'[p]][i] # "none"
                  /\ \A p \in Policies : InBatch(p)' => lot'[p] # 0
    <2>1. RunTypeOK'
      BY <1>kept DEF RunsKept, RunTypeOK
    <2>2. \A p \in Policies : lot[p] # 0 => lot[p] \in Policies
      BY <1>nat DEF RunTypeOK, Policies
    <2> QED
      BY <1>kept, <2>1, <2>2 DEF RunsKept
  <1>1. ASSUME RunsKept, lot' = lot, RowStep PROVE BatchInv'
    BY <1>1, <1>kept, RowBatchStep DEF BatchTypeOK
  <1>2. ASSUME RunsKept, lot' = lot, NEW u \in Users, EditSegment(req[u]) PROVE BatchInv'
    BY <1>2, <1>kept DEF EditSegment, BatchTypeOK, BatchesNeedApproval
  <1>3. ASSUME RunsKept, lot' = lot, NEW p \in Policies, NEW i \in Ordinals, NEW n \in Attempts,
               pc[p][<<"batch", i>>][n] = "call", NEW segs, PublishBatch(lot[p], i, segs)
        PROVE  BatchInv'
    <2>1. InBatch(p)
      BY <1>3 DEF InBatch
    <2>2. /\ batch' = batch \/ (batch' = [batch EXCEPT ![lot[p]][i] = "succeeded"] /\ lot[p] = policy
                                   /\ lot[p] \in Policies /\ batch[lot[p]][i] # "none" /\ ctx = "approved")
          /\ UNCHANGED <<status, policy, ctx>>
      BY <1>3, <2>1, PublishStep
    <2>3. BatchTypeOK' /\ \A q \in Policies, k \in Ordinals : batch'[q][k] # "none" <=> batch[q][k] # "none"
      BY <2>2 DEF BatchTypeOK
    <2>4. BatchesNeedApproval'
      BY <2>2 DEF BatchesNeedApproval
    <2>5. \A q \in Policies, k \in Ordinals : q > policy' => batch'[q][k] = "none"
      BY <2>2, <2>3
    <2> QED
      BY <1>3, <1>kept, <2>2, <2>3, <2>4, <2>5
  <1>4. ASSUME CreateBatches
        PROVE  /\ BatchTypeOK' /\ UNCHANGED <<status, policy, ctx>> /\ ctx = "approved" /\ policy \in Policies
               /\ \A i \in Ordinals : batch'[policy][i] # "none"
               /\ \A q \in Policies, k \in Ordinals :
                      (batch[q][k] # "none" => batch'[q][k] # "none")
                      /\ (q # policy => batch'[q][k] = batch[q][k])
    <2>1. policy \in Policies
      BY <1>4, <1>nat DEF CreateBatches, Policies
    <2> QED
      BY <1>4, <2>1 DEF CreateBatches, BatchTypeOK
  <1>5. ASSUME CreateBatches
        PROVE  /\ \A p \in Policies, i \in Ordinals : p > policy' => batch'[p][i] = "none"
               /\ \A p \in Policies, i, k \in Ordinals : batch'[p][i] # "none" => batch'[p][k] # "none"
               /\ BatchesNeedApproval'
    BY <1>4, <1>5, <1>nat DEF BatchesNeedApproval, Policies
  <1>6. \A p \in Policies : lot[p] # 0 => lot[p] \in Policies
    BY <1>nat DEF RunTypeOK, Policies
  <1>7. ASSUME RunsKept, lot' = lot, CreateBatches PROVE BatchInv'
    <2>1. RunTypeOK'
      BY <1>7 DEF RunsKept, RunTypeOK
    <2>2. \A p \in Policies, i \in Ordinals : lot'[p] # 0 => batch'[lot'[p]][i] # "none"
      BY <1>4, <1>6, <1>7
    <2>3. \A p \in Policies : InBatch(p)' => lot'[p] # 0
      BY <1>7 DEF RunsKept
    <2> QED
      BY <1>4, <1>5, <1>7, <2>1, <2>2, <2>3
  <1>8. ASSUME NEW q \in Policies, PlanReported(q) PROVE BatchInv'
    <2>c. CreateBatches /\ policy \in Policies /\ policy # 0
      BY <1>4, <1>8, <1>nat DEF PlanReported, Policies
    <2>1. RunTypeOK'
      BY <1>8, <1>nat DEF PlanReported, RunTypeOK
    <2>2. \A p \in Policies : lot'[p] = IF p = q THEN policy ELSE lot[p]
      BY <1>8 DEF PlanReported, RunTypeOK
    <2>3. \A p \in Policies, i \in Ordinals : lot'[p] # 0 => batch'[lot'[p]][i] # "none"
      BY <1>4, <1>6, <2>c, <2>2
    <2>4. \A p \in Policies : InBatch(p)' => lot'[p] # 0
      BY <1>8, <2>c, <2>2 DEF PlanReported
    <2> QED
      BY <1>4, <1>5, <2>c, <2>1, <2>3, <2>4
  <1> QED
    BY <1>t, <1>runs, <1>1, <1>2, <1>3, <1>7, <1>8 DEF Transaction

\* BatchInv holds in every state.
LEMMA BatchInvariance == Spec => []BatchInv
  <1>1. Init => BatchInv
    <2> SUFFICES ASSUME Init PROVE BatchInv
      OBVIOUS
    <2>1. pc \in PCs
      BY DEF Init, PCs
    <2>2. wf = [p \in Policies |-> wf[p]]
      BY DEF Init
    <2>3. lot \in [Policies -> 0..MaxPolicies]
      BY BoundsAreNat DEF Init
    <2>4. RunTypeOK
      BY <2>1, <2>2, <2>3 DEF RunTypeOK
    <2>5. \A p \in Policies : ~InBatch(p)
      BY DEF Init, InBatch, Step, Jobs
    <2>6. BatchTypeOK /\ \A p \in Policies, i \in Ordinals : batch[p][i] = "none"
      BY DEF Init, BatchTypeOK
    <2>7. \A p \in Policies : lot[p] = 0
      BY DEF Init
    <2> QED
      BY <2>4, <2>5, <2>6, <2>7 DEF Init, BatchInv, BatchesNeedApproval
  <1>2. Types /\ BatchInv /\ [Next]_vars => BatchInv'
    BY BatchInvStep
  <1> QED
    BY <1>1, <1>2, TypesInvariance, PTL DEF Spec

\* Nothing is sent for translation before its context was approved: there are batches
\* of the current policy only under an approved context of that policy.
THEOREM BatchesApproved == Spec => []BatchesNeedApproval
  BY BatchInvariance, PTL DEF BatchInv

-----------------------------------------------------------------------------
(* The plan: PlanBatches, for any times and limits.  Its recursion goes up *)
(* to the last segment, so what it says of the batches from a segment on   *)
(* is proved from the last segment down.                                   *)

\* A transcript's times.
Timed(start, end) == start \in Seq(Nat) /\ end \in Seq(Nat) /\ DOMAIN end = DOMAIN start

Batches == [first : Nat, last : Nat]

\* A batch ends at a segment from its first on.
LEMMA CutFacts ==
    ASSUME NEW start, NEW end, Timed(start, end), NEW b \in 1..Len(start)
    PROVE  /\ Len(start) \in Nat
           /\ Cut(start, end, b) \in b..Len(start)
           /\ \A e \in b..Cut(start, end, b) : b = e \/ ~Beyond(start, end, b, e)
           /\ \A e \in b..Len(start) : e > Cut(start, end, b) =>
                 \E f \in b..e : f <= Cut(start, end, b) + 1 /\ Beyond(start, end, b, f)
  <1> DEFINE over  == {e \in b..Len(start) : Beyond(start, end, b, e)}
             first == CHOOSE e \in over : \A f \in over : e <= f
  <1>n. Len(start) \in Nat
    BY DEF Timed
  <1>1. CASE over = {}
    <2>1. Cut(start, end, b) = Len(start)
      BY <1>1 DEF Cut
    <2> QED
      BY <1>n, <1>1, <2>1
  <1>2. CASE over # {}
    <2>1. first \in over /\ \A f \in over : first <= f
      <3>1. over \in SUBSET Nat
        BY <1>n
      <3>2. \E e \in over : \A f \in over : e <= f
        BY <1>2, <3>1, Least
      <3> QED
        BY <3>2
    <2>2. Cut(start, end, b) = IF first = b THEN b ELSE first - 1
      BY <1>2 DEF Cut
    <2> HIDE DEF first
    <2>3. first \in b..Len(start) /\ Beyond(start, end, b, first)
      BY <2>1
    <2>4. \A e \in b..Len(start) : e < first => ~Beyond(start, end, b, e)
      BY <2>1, <2>3
    <2> HIDE DEF over
    <2> QED
      BY <1>n, <2>2, <2>3, <2>4
  <1> QED
    BY <1>1, <1>2

\* Where a batch ends, in short.
LEMMA CutRange ==
    ASSUME NEW start, NEW end, Timed(start, end), NEW b \in 1..Len(start)
    PROVE  /\ Len(start) \in Nat
           /\ Cut(start, end, b) \in b..Len(start)
  BY CutFacts

\* The batches from each segment on.
From(start, end, f, b) ==
    IF b > Len(start) THEN <<>>
    ELSE <<[first |-> b, last |-> Cut(start, end, b)]>> \o f[Cut(start, end, b) + 1]

\* There are such batches: they are known from the last segment down.
LEMMA FromExists ==
    ASSUME NEW start, NEW end, Timed(start, end)
    PROVE  \E f : f = [b \in 1..Len(start) + 1 |-> From(start, end, f, b)]
  <1> DEFINE N == Len(start)
             D == 1..N + 1
             Upto(k) == \E f \in [D -> Seq(Batches)] : \A b \in k..N + 1 : f[b] = From(start, end, f, b)
             T == {k \in D : Upto(k)}
  <1>n. N \in Nat
    BY DEF Timed
  <1>cut. \A b \in 1..N : Cut(start, end, b) \in b..N
    BY CutRange
  <1>top. N + 1 \in T
    <2> DEFINE f == [b \in D |-> <<>>]
    <2>1. f \in [D -> Seq(Batches)]
      OBVIOUS
    <2>2. \A b \in (N + 1)..(N + 1) : f[b] = From(start, end, f, b)
      BY <1>n DEF From
    <2> HIDE DEF f
    <2>3. Upto(N + 1)
      BY <2>1, <2>2
    <2> QED
      BY <1>n, <2>3
  <1>down. ASSUME NEW k \in T, k > 1 PROVE k - 1 \in T
    <2>0. k \in 2..N + 1 /\ k - 1 \in 1..N
      BY <1>n, <1>down
    <2>1. PICK f \in [D -> Seq(Batches)] : \A b \in k..N + 1 : f[b] = From(start, end, f, b)
      OBVIOUS
    <2> DEFINE c == Cut(start, end, k - 1)
               g == [f EXCEPT ![k - 1] = <<[first |-> k - 1, last |-> c]>> \o f[c + 1]]
    <2>2. c \in (k - 1)..N
      BY <2>0, <1>cut
    <2>3. f[c + 1] \in Seq(Batches) /\ <<[first |-> k - 1, last |-> c]>> \in Seq(Batches)
      BY <2>0, <2>2, <1>n DEF Batches
    <2>4. <<[first |-> k - 1, last |-> c]>> \o f[c + 1] \in Seq(Batches)
      BY <2>3, ConcatProperties
    <2>5. g \in [D -> Seq(Batches)]
      BY <2>4
    <2>6. \A b \in k..N + 1 : g[b] = f[b]
      BY <2>0, <1>n
    <2>7. g[k - 1] = <<[first |-> k - 1, last |-> c]>> \o g[c + 1]
      BY <2>0, <2>2, <2>6, <1>n
    <2>8. g[k - 1] = From(start, end, g, k - 1)
      BY <2>0, <2>7, <1>n DEF From
    <2> HIDE DEF g
    <2>9. ASSUME NEW b \in k..N + 1 PROVE g[b] = From(start, end, g, b)
      <3>1. CASE b > N
        BY <2>1, <2>6, <3>1 DEF From
      <3>2. CASE b <= N
        <4>1. Cut(start, end, b) \in b..N /\ b \in 1..N
          BY <2>0, <3>2, <1>n, <1>cut
        <4>2. g[Cut(start, end, b) + 1] = f[Cut(start, end, b) + 1]
          BY <4>1, <2>0, <2>6, <1>n
        <4>3. g[b] = f[b] /\ f[b] = From(start, end, f, b)
          BY <2>1, <2>6
        <4> QED
          BY <4>1, <4>2, <4>3 DEF From
      <3> QED
        BY <2>0, <1>n, <3>1, <3>2
    <2>10. \A b \in (k - 1)..N + 1 : g[b] = From(start, end, g, b)
      <3>1. \A b \in (k - 1)..N + 1 : b = k - 1 \/ b \in k..N + 1
        BY <2>0, <1>n
      <3> QED
        BY <3>1, <2>8, <2>9
    <2> QED
      BY <2>0, <2>5, <2>10, <1>n
  <1>all. 1 \in T
    <2>1. T # {} /\ T \in SUBSET Nat
      BY <1>top, <1>n
    <2> HIDE DEF T
    <2>2. PICK k \in T : \A j \in T : k <= j
      BY <2>1, Least
    <2>3. k \in Nat /\ k >= 1
      BY <1>n DEF T
    <2>4. k > 1 => FALSE
      BY <2>2, <2>3, <1>down
    <2> QED
      BY <2>2, <2>3, <2>4
  <1>1. PICK f \in [D -> Seq(Batches)] : \A b \in 1..N + 1 : f[b] = From(start, end, f, b)
    BY <1>all
  <1> QED
    BY <1>1

\* PlanBatches is the one its recursion describes.
LEMMA PlanEquation ==
    ASSUME NEW start, NEW end, Timed(start, end)
    PROVE  \E f : /\ f = [b \in 1..Len(start) + 1 |-> From(start, end, f, b)]
                  /\ PlanBatches(start, end) = f[1]
  <1> DEFINE IsFrom(f) == f = [b \in 1..Len(start) + 1 |-> From(start, end, f, b)]
             f == CHOOSE f : IsFrom(f)
  <1>1. \E g : IsFrom(g)
    BY FromExists
  <1>2. IsFrom(f)
    BY <1>1
  <1>3. PlanBatches(start, end) = f[1]
    BY DEF PlanBatches, From
  <1> QED
    BY <1>2, <1>3

\* What batches that cover the segments from b on look like.
Tiles(start, end, b, plan) ==
    /\ plan \in Seq(Batches) /\ Len(plan) >= 1
    /\ plan[1].first = b /\ plan[Len(plan)].last = Len(start)
    /\ \A k \in 1..Len(plan) : /\ plan[k].first \in b..Len(start)
                               /\ plan[k].last = Cut(start, end, plan[k].first)
                               /\ k > 1 => plan[k].first = plan[k - 1].last + 1

\* One more batch in front of those that cover the rest.
LEMMA TilesOnTop ==
    ASSUME NEW start, NEW end, Timed(start, end), NEW b \in 1..Len(start), NEW rest,
           \/ Cut(start, end, b) = Len(start) /\ rest = <<>>
           \/ Tiles(start, end, Cut(start, end, b) + 1, rest)
    PROVE  Tiles(start, end, b, <<[first |-> b, last |-> Cut(start, end, b)]>> \o rest)
  <1> DEFINE N == Len(start)
             c == Cut(start, end, b)
             top == [first |-> b, last |-> c]
             all == <<top>> \o rest
  <1>n. N \in Nat /\ c \in b..N /\ b \in Nat /\ c \in Nat
    <2>1. N \in Nat /\ c \in b..N
      BY CutRange
    <2> HIDE DEF c
    <2> QED
      BY <2>1
  <1>t. top \in Batches /\ top.first = b /\ top.last = c
    BY <1>n DEF Batches
  <1>s. (c = N /\ rest = <<>>) \/ Tiles(start, end, c + 1, rest)
    OBVIOUS
  <1> HIDE DEF N, c, top
  <1>1. rest \in Seq(Batches) /\ Len(rest) \in Nat
    <2>1. Tiles(start, end, c + 1, rest) => rest \in Seq(Batches)
      BY DEF Tiles
    <2>2. rest = <<>> => rest \in Seq(Batches)
      OBVIOUS
    <2>3. rest \in Seq(Batches)
      BY <1>s, <2>1, <2>2
    <2> QED
      BY <2>3
  <1>2. <<top>> \in Seq(Batches) /\ Len(<<top>>) = 1 /\ <<top>>[1] = top
    BY <1>t
  <1>3. /\ all \in Seq(Batches)
        /\ Len(all) = Len(rest) + 1
        /\ \A k \in 1..Len(rest) + 1 : all[k] = IF k <= 1 THEN <<top>>[k] ELSE rest[k - 1]
    BY <1>1, <1>2, ConcatProperties
  <1>4. all[1] = top /\ \A k \in 2..Len(rest) + 1 : all[k] = rest[k - 1]
    BY <1>1, <1>2, <1>3
  <1> HIDE DEF all
  <1>5. ASSUME rest = <<>>, c = N PROVE Tiles(start, end, b, all)
    <2>1. Len(all) = 1 /\ all[1] = top /\ all \in Seq(Batches)
      BY <1>3, <1>4, <1>5
    <2>2. \A k \in 1..Len(all) : k = 1
      BY <2>1
    <2>3. b \in b..N /\ all[Len(all)].last = N
      BY <1>5, <1>n, <1>t, <2>1
    <2>4. \A k \in 1..Len(all) : /\ all[k].first \in b..N
                                 /\ all[k].last = Cut(start, end, all[k].first)
                                 /\ k > 1 => all[k].first = all[k - 1].last + 1
      <3>1. all[1].first = b /\ all[1].last = Cut(start, end, b)
        BY <1>t, <2>1 DEF c
      <3> QED
        BY <2>2, <2>3, <3>1
    <2> QED
      BY <1>t, <2>1, <2>3, <2>4 DEF Tiles, N
  <1>6. ASSUME Tiles(start, end, c + 1, rest) PROVE Tiles(start, end, b, all)
    <2> USE <1>6, <1>1, <1>3, <1>4, <1>n
    <2>1. Len(rest) >= 1 /\ rest[1].first = c + 1 /\ rest[Len(rest)].last = N
      BY DEF Tiles, N
    <2>2. all[Len(all)] = rest[Len(rest)]
      BY <2>1
    <2>3. ASSUME NEW k \in 1..Len(all)
          PROVE  /\ all[k].first \in b..N
                 /\ all[k].last = Cut(start, end, all[k].first)
                 /\ k > 1 => all[k].first = all[k - 1].last + 1
      <3>1. CASE k = 1
        BY <1>t, <3>1 DEF c
      <3>2. CASE k > 1
        <4>1. k - 1 \in 1..Len(rest) /\ all[k] = rest[k - 1]
          BY <3>2
        <4>2. /\ rest[k - 1].first \in c + 1..N
              /\ rest[k - 1].last = Cut(start, end, rest[k - 1].first)
              /\ k - 1 > 1 => rest[k - 1].first = rest[k - 2].last + 1
          BY <4>1 DEF Tiles, N
        <4>3. k - 1 > 1 => all[k - 1] = rest[k - 2]
          BY <3>2
        <4>4. k = 2 => all[k - 1] = top
          OBVIOUS
        <4> QED
          BY <3>2, <4>1, <4>2, <4>3, <4>4, <1>t, <2>1
      <3> QED
        BY <3>1, <3>2
    <2>4. Len(all) >= 1 /\ all[1].first = b /\ all[Len(all)].last = N
      BY <2>1, <2>2, <1>t
    <2> QED
      BY <2>3, <2>4, <1>3 DEF Tiles, N
  <1> QED
    BY <1>s, <1>5, <1>6 DEF c, N, all, top

\* The batches of a plan cover the transcript, each one as its first segment has it.
LEMMA PlanTiles ==
    ASSUME NEW start, NEW end, Timed(start, end), start # <<>>
    PROVE  Tiles(start, end, 1, PlanBatches(start, end))
  <1> DEFINE N == Len(start)
  <1>n. N \in Nat /\ N >= 1
    BY DEF Timed
  <1>cut. \A b \in 1..N : Cut(start, end, b) \in b..N
    BY CutRange
  <1>1. PICK f : /\ f = [b \in 1..N + 1 |-> From(start, end, f, b)]
                 /\ PlanBatches(start, end) = f[1]
    BY PlanEquation
  <1>2. /\ f[N + 1] = <<>>
        /\ \A b \in 1..N : f[b] = <<[first |-> b, last |-> Cut(start, end, b)]>> \o f[Cut(start, end, b) + 1]
    <2>1. \A b \in 1..N + 1 : f[b] = From(start, end, f, b)
      BY <1>1
    <2>2. N + 1 \in 1..N + 1 /\ N + 1 > N /\ \A b \in 1..N : b \in 1..N + 1 /\ ~(b > N)
      BY <1>n
    <2>3. f[N + 1] = <<>>
      BY <2>1, <2>2 DEF From
    <2>4. ASSUME NEW b \in 1..N
          PROVE  f[b] = <<[first |-> b, last |-> Cut(start, end, b)]>> \o f[Cut(start, end, b) + 1]
      BY <2>1, <2>2 DEF From
    <2> QED
      BY <2>3, <2>4
  <1> DEFINE T == {k \in 1..N : \A b \in k..N : Tiles(start, end, b, f[b])}
  <1>3. ASSUME NEW k \in 1..N, \A b \in k + 1..N : Tiles(start, end, b, f[b])
        PROVE  k \in T
    <2>1. Cut(start, end, k) \in k..N
      BY <1>cut
    <2>2. Tiles(start, end, k, f[k])
      <3>1. CASE Cut(start, end, k) = N
        BY <3>1, <1>2, TilesOnTop
      <3>2. CASE Cut(start, end, k) # N
        <4>1. Cut(start, end, k) + 1 \in k + 1..N
          BY <2>1, <3>2, <1>n
        <4> QED
          BY <4>1, <1>2, <1>3, TilesOnTop
      <3> QED
        BY <3>1, <3>2
    <2>3. \A b \in k..N : b = k \/ b \in k + 1..N
      BY <1>n
    <2> QED
      BY <2>2, <2>3, <1>3
  <1>4. N \in T
    BY <1>3, <1>n
  <1>5. ASSUME NEW k \in T, k > 1 PROVE k - 1 \in T
    BY <1>3, <1>5, <1>n
  <1>6. T \in SUBSET Nat /\ \A k \in T : k >= 1 /\ Tiles(start, end, k, f[k])
    BY <1>n
  <1> HIDE DEF T
  <1>7. PICK k \in T : \A j \in T : k <= j
    BY <1>4, <1>6, Least
  <1>8. k = 1
    BY <1>5, <1>6, <1>7
  <1> QED
    BY <1>1, <1>6, <1>7, <1>8

\* What ranges of segments the batches own: they come in order, and between them
\* they own every segment.
LEMMA TilesInOrder ==
    ASSUME NEW start, NEW end, Timed(start, end), NEW b \in 1..Len(start), NEW plan,
           Tiles(start, end, b, plan)
    PROVE  /\ Len(plan) \in Nat
           /\ \A k \in 1..Len(plan) : plan[k].first \in b..Len(start)
                                      /\ plan[k].last \in plan[k].first..Len(start)
           /\ \A j, k \in 1..Len(plan) : j < k => plan[j].last < plan[k].first
           /\ \A s \in b..Len(start) : \E k \in 1..Len(plan) : s \in plan[k].first..plan[k].last
  <1> DEFINE N == Len(start)
             M == Len(plan)
             F(k) == plan[k].first
             L(k) == plan[k].last
  <1>1. M \in Nat /\ N \in Nat /\ b \in Nat /\ b >= 1
    BY DEF Tiles, Timed
  <1>2. ASSUME NEW k \in 1..M
        PROVE  F(k) \in b..N /\ L(k) \in F(k)..N
    <2>1. F(k) \in b..N /\ L(k) = Cut(start, end, F(k))
      BY DEF Tiles
    <2>2. F(k) \in 1..N
      BY <1>1, <2>1
    <2> QED
      BY <2>1, <2>2, CutRange
  <1>3. \A k \in 1..M : k > 1 => F(k) = L(k - 1) + 1
    BY DEF Tiles
  <1>4. M >= 1 /\ F(1) = b /\ L(M) = N
    BY DEF Tiles
  <1> HIDE DEF M, N, F, L
  <1>5. ASSUME NEW j \in 1..M, NEW k \in 1..M, j < k PROVE L(j) < F(k)
    <2> DEFINE bad == {m \in j + 1..M : ~(L(j) < F(m))}
    <2>1. SUFFICES ASSUME bad # {} PROVE FALSE
      BY <1>1, <1>5
    <2>2. bad \in SUBSET Nat
      BY <1>1
    <2>3. PICK m \in bad : \A i \in bad : m <= i
      BY <2>1, <2>2, Least
    <2>4. m \in j + 1..M /\ ~(L(j) < F(m))
      BY <2>3
    <2>5. \A i \in j + 1..M : i < m => L(j) < F(i)
      BY <2>3, <2>4, <1>1
    <2> HIDE DEF bad
    <2>6. m \in 1..M /\ m > 1 /\ m - 1 \in 1..M /\ F(m) = L(m - 1) + 1
      BY <1>1, <1>3, <2>4
    <2>7. F(m - 1) \in b..N /\ L(m - 1) \in F(m - 1)..N /\ L(j) \in F(j)..N /\ F(j) \in b..N
      BY <1>2, <2>6
    <2>8. m = j + 1 \/ m - 1 \in j + 1..M
      BY <1>1, <2>4
    <2>9. m - 1 \in j + 1..M => L(j) < F(m - 1)
      BY <1>1, <2>4, <2>5
    <2> QED
      BY <1>1, <2>4, <2>6, <2>7, <2>8, <2>9
  <1>6. ASSUME NEW s \in b..N PROVE \E k \in 1..M : s \in F(k)..L(k)
    <2> DEFINE reach == {m \in 1..M : L(m) >= s}
    <2>1. M \in reach /\ reach \in SUBSET Nat
      BY <1>1, <1>4
    <2> HIDE DEF reach
    <2>2. PICK k \in reach : \A i \in reach : k <= i
      BY <2>1, Least
    <2>3. k \in 1..M /\ L(k) >= s
      BY <2>2 DEF reach
    <2>4. k > 1 => ~(L(k - 1) >= s)
      BY <2>2, <2>3, <1>1 DEF reach
    <2>5. k > 1 => k - 1 \in 1..M /\ L(k - 1) \in Nat
      BY <1>1, <1>2, <2>3
    <2>6. F(k) \in b..N /\ L(k) \in F(k)..N
      BY <1>2, <2>3
    <2>7. F(k) <= s
      BY <1>1, <1>3, <1>4, <2>3, <2>4, <2>5, <2>6
    <2>8. s \in F(k)..L(k)
      BY <1>1, <2>3, <2>6, <2>7
    <2> QED
      BY <2>3, <2>8
  <1> QED
    BY <1>1, <1>2, <1>5, <1>6 DEF M, N, F, L

\* Neither starts nor ends go back in time.
Sorted(start, end) ==
    /\ Timed(start, end) /\ start # <<>>
    /\ \A i, j \in 1..Len(start) : i <= j => start[i] <= start[j] /\ end[i] <= end[j]

\* A later start and an earlier end keep a batch within the limits.
LEMMA WithinShrinks ==
    ASSUME NEW start, NEW end, Sorted(start, end),
           NEW a \in 1..Len(start), NEW b \in a..Len(start),
           NEW e \in b..Len(start), NEW f \in e..Len(start), ~Beyond(start, end, a, f)
    PROVE  ~Beyond(start, end, b, e)
  <1> DEFINE N == Len(start)
  <1>1. N \in Nat /\ a \in 1..N /\ b \in 1..N /\ e \in 1..N /\ f \in 1..N
        /\ a <= b /\ b <= e /\ e <= f
    BY DEF Sorted, Timed
  <1>2. /\ start[a] \in Nat /\ start[b] \in Nat /\ end[e] \in Nat /\ end[f] \in Nat
    <2>1. /\ start \in Seq(Nat) /\ end \in Seq(Nat) /\ DOMAIN end = DOMAIN start
      BY DEF Sorted, Timed
    <2>2. DOMAIN start = 1..N
      BY <2>1
    <2>3. \A i \in DOMAIN start : start[i] \in Nat
      BY <2>1
    <2>4. \A i \in DOMAIN end : end[i] \in Nat
      BY <2>1
    <2> QED
      BY <1>1, <2>1, <2>2, <2>3, <2>4
  <1>3. start[a] <= start[b] /\ end[e] <= end[f]
    BY <1>1 DEF Sorted
  <1>4. ~(f - a + 1 > MaxOwned) /\ ~(end[f] - start[a] > MaxSpan)
    BY DEF Beyond
  <1> DEFINE sa == start[a]
             sb == start[b]
             ee == end[e]
             ef == end[f]
  <1>5. /\ sa \in Nat /\ sb \in Nat /\ ee \in Nat /\ ef \in Nat /\ MaxSpan \in Nat /\ MaxOwned \in Nat
        /\ sa <= sb /\ ee <= ef /\ ~(ef - sa > MaxSpan)
    BY <1>2, <1>3, <1>4, LimitsArePositive
  <1> HIDE DEF sa, sb, ee, ef
  <1>6. ~(ee - sb > MaxSpan)
    BY <1>5
  <1>7. ~(e - b + 1 > MaxOwned)
    BY <1>1, <1>4, <1>5
  <1> QED
    BY <1>6, <1>7 DEF Beyond, ee, sb

\* A batch reaches at least as far as any segment it may reach.
LEMMA CutReaches ==
    ASSUME NEW start, NEW end, Sorted(start, end), NEW b \in 1..Len(start), NEW e \in b..Len(start),
           Allowed(start, end, b, e)
    PROVE  e <= Cut(start, end, b)
  <1> DEFINE N == Len(start)
             c == Cut(start, end, b)
  <1>t. Timed(start, end)
    BY DEF Sorted
  <1>n. N \in Nat /\ c \in b..N
    BY <1>t, CutRange
  <1>0. b \in Nat /\ e \in Nat /\ c \in Nat /\ b <= e /\ b <= c /\ e <= N
    <2> HIDE DEF c
    <2> QED
      BY <1>n
  <1>1. SUFFICES ASSUME e > c PROVE FALSE
    BY <1>0
  <1>2. PICK f \in b..e : Beyond(start, end, b, f) /\ f <= c + 1
    BY <1>0, <1>1, <1>t, CutFacts
  <1>3. b # e /\ ~Beyond(start, end, b, e)
    BY <1>0, <1>1 DEF Allowed
  <1>4. b \in Nat /\ f \in Nat /\ f >= b /\ f <= e
    BY <1>0, <1>2
  <1>5. ~Beyond(start, end, b, f)
    BY <1>0, <1>n, <1>3, <1>4, WithinShrinks
  <1> QED
    BY <1>2, <1>5

\* The k-th batch ends behind k cuts at least, whatever the cuts: so there are as
\* many as there are batches, the end of the transcript counted.
LEMMA Fewest ==
    ASSUME NEW start, NEW end, Sorted(start, end), NEW plan, Tiles(start, end, 1, plan),
           NEW cuts \in SUBSET (1..Len(start) - 1),
           \A b \in {1} \cup {c + 1 : c \in cuts}, e \in cuts \cup {Len(start)} :
              e >= b /\ (\A f \in cuts : f >= b => f >= e) => Allowed(start, end, b, e)
    PROVE  Len(plan) <= Cardinality(cuts) + 1
  <1> DEFINE N == Len(start)
             M == Len(plan)
             ends == cuts \cup {N}
             Behind(k) == {c \in ends : c <= plan[k].last}
             Ahead(k) == k <= Cardinality(Behind(k))
  <1>t. Timed(start, end) /\ N \in Nat /\ N >= 1
    BY DEF Sorted, Timed
  <1>p. /\ M \in Nat /\ M >= 1
        /\ \A k \in 1..M : plan[k].first \in 1..N /\ plan[k].last \in plan[k].first..N
        /\ plan[1].first = 1
        /\ \A k \in 1..M : /\ plan[k].last = Cut(start, end, plan[k].first)
                           /\ k > 1 => plan[k].first = plan[k - 1].last + 1
    <2>1. 1 \in 1..N
      BY <1>t
    <2>2. M \in Nat /\ \A k \in 1..M : plan[k].first \in 1..N /\ plan[k].last \in plan[k].first..N
      BY <1>t, <2>1, TilesInOrder
    <2>3. M >= 1 /\ plan[1].first = 1
          /\ \A k \in 1..M : /\ plan[k].last = Cut(start, end, plan[k].first)
                             /\ k > 1 => plan[k].first = plan[k - 1].last + 1
      BY DEF Tiles
    <2> QED
      BY <2>2, <2>3
  <1>f. /\ ends \in SUBSET Nat /\ ends \subseteq 1..N
        /\ IsFiniteSet(ends) /\ IsFiniteSet(cuts)
        /\ Cardinality(ends) = Cardinality(cuts) + 1 /\ Cardinality(cuts) \in Nat
    <2>1. IsFiniteSet(1..N - 1)
      BY <1>t, FS_Interval
    <2>2. IsFiniteSet(cuts) /\ Cardinality(cuts) \in Nat
      BY <2>1, FS_Subset, FS_CardinalityType
    <2>3. N \notin cuts /\ cuts \subseteq 1..N
      BY <1>t
    <2>4. IsFiniteSet(ends) /\ Cardinality(ends) = Cardinality(cuts) + 1
      BY <2>2, <2>3, FS_AddElement
    <2>5. ends \subseteq 1..N
      <3>1. N \in 1..N
        BY <1>t
      <3> QED
        BY <2>3, <3>1
    <2>6. ends \in SUBSET Nat
      <3> HIDE DEF ends
      <3> QED
        BY <1>t, <2>5
    <2> QED
      BY <2>2, <2>4, <2>5, <2>6
  \* The first cut from a segment on is no further than the greedy one.
  <1>reach. ASSUME NEW k \in 1..M
            PROVE  \E e \in ends : e >= plan[k].first /\ e <= plan[k].last
    <2> DEFINE b == plan[k].first
               next == {e \in ends : e >= b}
    <2>b. b \in 1..N
      BY <1>p
    <2>1. N \in next /\ next \in SUBSET Nat
      BY <1>f, <1>t, <2>b
    <2> HIDE DEF next
    <2>2. PICK e \in next : \A f \in next : e <= f
      BY <2>1, Least
    <2>3. e \in ends /\ e >= b /\ \A f \in ends : f >= b => e <= f
      BY <2>2 DEF next
    <2> DEFINE prev == {0} \cup {c \in cuts : c < b}
    <2>4. prev \in SUBSET Nat /\ prev # {} /\ \A c \in prev : c <= N
      BY <1>f, <1>t
    <2>5. PICK c \in prev : \A f \in prev : f <= c
      <3> HIDE DEF prev
      <3> QED
        BY <2>4, <1>t, Greatest
    <2>6. c + 1 \in {1} \cup {d + 1 : d \in cuts} /\ c + 1 <= b /\ c \in Nat
      BY <2>4, <2>b
    <2>7. e \in 1..N /\ e \in Nat /\ b \in Nat /\ \A f \in cuts : f \in Nat
      BY <1>f, <1>t, <2>b, <2>3
    <2>8. ASSUME NEW f \in cuts, f >= c + 1 PROVE f >= e
      <3>1. f \notin prev
        BY <2>5, <2>6, <2>7, <2>8
      <3>2. f >= b
        BY <3>1, <2>7
      <3> QED
        BY <3>2, <2>3, <2>7
    <2>9. Allowed(start, end, c + 1, e)
      BY <2>3, <2>6, <2>7, <2>8
    <2>10. Allowed(start, end, b, e)
      <3>1. CASE c + 1 = e
        BY <3>1, <2>3, <2>6, <2>7 DEF Allowed
      <3>2. CASE ~Beyond(start, end, c + 1, e)
        <4>1. c + 1 \in 1..N /\ b \in c + 1..N /\ e \in b..N /\ e \in e..N
          BY <2>3, <2>6, <2>7, <2>b, <1>t
        <4> QED
          BY <3>2, <4>1, WithinShrinks DEF Allowed
      <3> QED
        BY <2>9, <3>1, <3>2 DEF Allowed
    <2>11. e <= Cut(start, end, b)
      BY <2>b, <2>3, <2>7, <2>10, <1>t, CutReaches
    <2> QED
      BY <1>p, <2>3, <2>11
  <1>b. \A k \in 1..M : IsFiniteSet(Behind(k)) /\ Cardinality(Behind(k)) \in Nat
    <2>1. \A k \in 1..M : Behind(k) \subseteq ends
      OBVIOUS
    <2> HIDE DEF Behind, ends
    <2> QED
      BY <2>1, <1>f, FS_Subset, FS_CardinalityType
  <1>1. ASSUME NEW k \in 1..M, k > 1 => Ahead(k - 1) PROVE Ahead(k)
    <2>1. PICK e \in ends : e >= plan[k].first /\ e <= plan[k].last
      BY <1>reach
    <2>n. e \in Nat /\ plan[k].first \in Nat /\ plan[k].last \in Nat
      BY <1>f, <1>p, <1>t
    <2>2. CASE k = 1
      <3>1. e \in Behind(k)
        BY <2>1
      <3>2. Cardinality(Behind(k)) # 0
        BY <3>1, <1>b, FS_EmptySet
      <3> HIDE DEF Behind
      <3>3. Cardinality(Behind(k)) \in Nat
        BY <1>b
      <3> QED
        BY <2>2, <3>2, <3>3
    <2>3. CASE k > 1
      <3>0. k - 1 \in 1..M
        BY <1>p, <2>3
      <3>1. plan[k].first = plan[k - 1].last + 1 /\ plan[k - 1].last \in Nat
        <4>1. plan[k - 1].first \in 1..N /\ plan[k - 1].last \in plan[k - 1].first..N
          BY <1>p, <3>0
        <4> QED
          BY <1>p, <2>3, <4>1
      <3>2. Behind(k - 1) \cup {e} \subseteq Behind(k)
        <4>1. plan[k - 1].last <= plan[k].last
          BY <1>p, <2>n, <3>1
        <4>2. \A c \in Nat : c <= plan[k - 1].last => c <= plan[k].last
          BY <2>n, <3>1, <4>1
        <4> HIDE DEF ends
        <4> QED
          BY <1>f, <2>1, <4>2
      <3>3. e \notin Behind(k - 1)
        BY <2>1, <2>n, <3>1
      <3>4. Cardinality(Behind(k - 1) \cup {e}) = Cardinality(Behind(k - 1)) + 1
        <4> HIDE DEF Behind
        <4> QED
          BY <3>0, <3>3, <1>b, FS_AddElement
      <3>5. Cardinality(Behind(k - 1) \cup {e}) <= Cardinality(Behind(k))
        <4> HIDE DEF Behind
        <4> QED
          BY <3>2, <1>b, FS_Subset
      <3>6. k - 1 <= Cardinality(Behind(k - 1))
        BY <1>1, <2>3
      <3> HIDE DEF Behind
      <3> QED
        BY <3>0, <3>4, <3>5, <3>6, <1>b
    <2> QED
      BY <2>2, <2>3
  <1>2. Ahead(M)
    <2> DEFINE bad == {k \in 1..M : ~Ahead(k)}
    <2>1. SUFFICES ASSUME bad # {} PROVE FALSE
      <3>1. M \in 1..M
        BY <1>p
      <3> HIDE DEF Ahead, M
      <3> QED
        BY <3>1
    <2>2. bad \in SUBSET Nat
      OBVIOUS
    <2> HIDE DEF Ahead
    <2>3. PICK k \in bad : \A j \in bad : k <= j
      <3> HIDE DEF bad
      <3> QED
        BY <2>1, <2>2, Least
    <2>4. k > 1 => k - 1 \in 1..M /\ k - 1 \notin bad
      BY <2>3
    <2> QED
      BY <2>3, <2>4, <1>1
  <1>3. Cardinality(Behind(M)) <= Cardinality(ends)
    <2>1. Behind(M) \subseteq ends
      OBVIOUS
    <2> HIDE DEF Behind, ends
    <2> QED
      BY <2>1, <1>f, FS_Subset
  <1>4. M \in 1..M
    BY <1>p
  <1>5. M <= Cardinality(Behind(M)) /\ Cardinality(Behind(M)) \in Nat
    BY <1>2, <1>4, <1>b
  <1> HIDE DEF Behind, ends
  <1> QED
    BY <1>3, <1>5, <1>f, <1>p

\* The times that Laid adds up: each end after the one before.
LEMMA LaidAt ==
    ASSUME NEW n \in Nat, NEW gap \in [1..n -> Nat], NEW dur \in [1..n -> Nat]
    PROVE  \E at \in [0..n -> Nat] :
              /\ \A i \in 1..n : at[i] = at[i - 1] + gap[i] + dur[i]
              /\ Laid(gap, dur) = [start |-> [i \in 1..n |-> at[i] - dur[i]],
                                   end   |-> [i \in 1..n |-> at[i]]]
  <1> DEFINE Sum(f, i) == IF i = 0 THEN 0 ELSE f[i - 1] + gap[i] + dur[i]
             Upto(k) == \E f \in [0..n -> Nat] : \A i \in 0..k : f[i] = Sum(f, i)
             missed == {k \in 0..n : ~Upto(k)}
  <1>1. Upto(0)
    <2> DEFINE f == [i \in 0..n |-> 0]
    <2>1. f \in [0..n -> Nat] /\ f[0] = 0
      OBVIOUS
    <2>2. \A i \in 0..0 : f[i] = Sum(f, i)
      BY <2>1
    <2> HIDE DEF f
    <2> QED
      BY <2>1, <2>2
  <1>2. ASSUME NEW k \in 1..n, Upto(k - 1) PROVE Upto(k)
    <2>1. PICK f \in [0..n -> Nat] : \A i \in 0..k - 1 : f[i] = Sum(f, i)
      BY <1>2
    <2> DEFINE g == [f EXCEPT ![k] = f[k - 1] + gap[k] + dur[k]]
    <2>2. f[k - 1] + gap[k] + dur[k] \in Nat
      <3>1. f[k - 1] \in Nat /\ gap[k] \in Nat /\ dur[k] \in Nat
        OBVIOUS
      <3> QED
        BY <3>1
    <2>3. g \in [0..n -> Nat]
      BY <2>2
    <2>4. /\ \A i \in 0..k - 1 : g[i] = f[i]
          /\ g[k] = f[k - 1] + gap[k] + dur[k]
      OBVIOUS
    <2> HIDE DEF g
    <2>5. \A i \in 0..k : g[i] = Sum(g, i)
      <3> SUFFICES ASSUME NEW i \in 0..k PROVE g[i] = Sum(g, i)
        OBVIOUS
      <3>1. CASE i = k
        <4>1. g[k - 1] = f[k - 1]
          BY <2>4
        <4> QED
          BY <2>4, <3>1, <4>1
      <3>2. CASE i < k
        <4>1. i \in 0..k - 1 /\ (i # 0 => i - 1 \in 0..k - 1)
          BY <3>2
        <4> QED
          BY <2>1, <2>4, <4>1
      <3> QED
        BY <3>1, <3>2
    <2> QED
      BY <2>3, <2>5
  <1>3. Upto(n)
    <2>1. SUFFICES ASSUME missed # {} PROVE FALSE
      <3>1. n \in 0..n
        OBVIOUS
      <3> HIDE DEF Upto
      <3> QED
        BY <3>1
    <2>2. missed \in SUBSET Nat
      OBVIOUS
    <2> HIDE DEF Upto
    <2>3. PICK k \in missed : \A j \in missed : k <= j
      <3> HIDE DEF missed
      <3> QED
        BY <2>1, <2>2, Least
    <2>4. k # 0
      BY <1>1
    <2>5. k \in 1..n /\ k - 1 \in 0..n /\ k - 1 \notin missed
      BY <2>3, <2>4
    <2> QED
      BY <1>2, <2>5
  <1>4. PICK at \in [0..n -> Nat] : \A i \in 0..n : at[i] = Sum(at, i)
    BY <1>3
  <1> DEFINE IsAt(f) == f = [i \in 0..Len(dur) |-> Sum(f, i)]
             chosen == CHOOSE f : IsAt(f)
  <1>5. Len(dur) = n
    OBVIOUS
  <1>6. IsAt(at)
    BY <1>4, <1>5
  <1>7. IsAt(chosen)
    BY <1>6
  <1>8. Laid(gap, dur) = [start |-> [i \in 1..n |-> chosen[i] - dur[i]], end |-> [i \in 1..n |-> chosen[i]]]
    BY <1>5 DEF Laid
  <1>9. \A i \in 0..n : chosen[i] = Sum(chosen, i)
    BY <1>5, <1>7
  <1> HIDE DEF chosen
  <1>10. chosen = at
    <2> DEFINE apart == {k \in 0..n : chosen[k] # at[k]}
    <2>1. apart = {}
      <3>1. SUFFICES ASSUME apart # {} PROVE FALSE
        OBVIOUS
      <3>2. apart \in SUBSET Nat
        OBVIOUS
      <3>3. PICK k \in apart : \A j \in apart : k <= j
        <4> HIDE DEF apart
        <4> QED
          BY <3>1, <3>2, Least
      <3>4. k # 0
        BY <1>4, <1>9
      <3>5. k - 1 \in 0..n /\ k - 1 \notin apart
        BY <3>3, <3>4
      <3>6. chosen[k - 1] = at[k - 1]
        BY <3>5
      <3> QED
        BY <1>4, <1>9, <3>4, <3>6
    <2>2. chosen = [i \in 0..n |-> chosen[i]]
      BY <1>5, <1>7
    <2> QED
      BY <2>1, <2>2
  <1>11. \A i \in 1..n : at[i] = at[i - 1] + gap[i] + dur[i]
    <2> SUFFICES ASSUME NEW i \in 1..n PROVE at[i] = at[i - 1] + gap[i] + dur[i]
      OBVIOUS
    <2>1. i \in 0..n /\ i # 0
      OBVIOUS
    <2> QED
      BY <2>1, <1>4
  <1>12. Laid(gap, dur) = [start |-> [i \in 1..n |-> at[i] - dur[i]], end |-> [i \in 1..n |-> at[i]]]
    BY <1>8, <1>10
  <1> QED
    BY <1>11, <1>12

\* The transcripts that are laid out that way are in order.
LEMMA LaidSorted ==
    ASSUME NEW n \in Nat \ {0}, NEW gap \in [1..n -> Nat], NEW dur \in [1..n -> Nat]
    PROVE  Sorted(Laid(gap, dur).start, Laid(gap, dur).end)
  <1>1. PICK at \in [0..n -> Nat] :
            /\ \A i \in 1..n : at[i] = at[i - 1] + gap[i] + dur[i]
            /\ Laid(gap, dur) = [start |-> [i \in 1..n |-> at[i] - dur[i]],
                                 end   |-> [i \in 1..n |-> at[i]]]
    BY LaidAt
  <1> DEFINE start == [i \in 1..n |-> at[i] - dur[i]]
             end == [i \in 1..n |-> at[i]]
  <1>2. ASSUME NEW i \in 1..n
        PROVE  /\ at[i - 1] \in Nat /\ at[i] \in Nat
               /\ at[i - 1] <= at[i] - dur[i] /\ at[i] - dur[i] <= at[i] /\ at[i] - dur[i] \in Nat
    <2>1. at[i - 1] \in Nat /\ at[i] \in Nat /\ gap[i] \in Nat /\ dur[i] \in Nat
      OBVIOUS
    <2>2. at[i] = at[i - 1] + gap[i] + dur[i]
      BY <1>1
    <2> QED
      BY <2>1, <2>2
  <1>3. start \in Seq(Nat) /\ end \in Seq(Nat) /\ Len(start) = n /\ DOMAIN start = 1..n /\ DOMAIN end = 1..n
    BY <1>2
  <1>4. ASSUME NEW i \in 0..n, NEW j \in i..n PROVE at[i] <= at[j]
    <2> DEFINE down == {k \in i..n : ~(at[i] <= at[k])}
    <2>1. SUFFICES ASSUME down # {} PROVE FALSE
      OBVIOUS
    <2>2. down \in SUBSET Nat
      OBVIOUS
    <2>3. PICK k \in down : \A l \in down : k <= l
      <3> HIDE DEF down
      <3> QED
        BY <2>1, <2>2, Least
    <2>4. k \in i..n /\ ~(at[i] <= at[k]) /\ at[i] \in Nat /\ at[k] \in Nat
      BY <2>3
    <2>5. k # i
      BY <2>4
    <2>6. k - 1 \in i..n /\ k \in 1..n /\ k - 1 \notin down
      BY <2>3, <2>4, <2>5
    <2>7. at[i] <= at[k - 1] /\ at[k - 1] \in Nat
      BY <2>6
    <2> DEFINE early == at[i]
               was   == at[k - 1]
               mid   == at[k] - dur[k]
               now   == at[k]
    <2>8. /\ early <= was /\ was <= mid /\ mid <= now /\ ~(early <= now)
          /\ early \in Nat /\ was \in Nat /\ mid \in Nat /\ now \in Nat
      BY <1>2, <2>4, <2>6, <2>7
    <2> HIDE DEF early, was, mid, now
    <2> QED
      BY <2>8
  <1>5. ASSUME NEW i \in 1..n, NEW j \in 1..n, i <= j
        PROVE  start[i] <= start[j] /\ end[i] <= end[j]
    <2>1. end[i] <= end[j]
      <3>1. i \in 0..n /\ j \in i..n
        BY <1>5
      <3> QED
        BY <1>4, <3>1
    <2>2. CASE i = j
      <3>1. start[i] = start[j] /\ start[i] \in Nat
        BY <1>3, <2>2
      <3> HIDE DEF start
      <3> QED
        BY <2>1, <3>1
    <2>3. CASE i < j
      <3>1. i \in 0..n /\ j - 1 \in i..n
        BY <2>3
      <3>2. at[i] <= at[j - 1]
        BY <1>4, <3>1
      <3>3. /\ at[i] - dur[i] <= at[i] /\ at[j - 1] <= at[j] - dur[j]
            /\ at[i] - dur[i] \in Nat /\ at[i] \in Nat /\ at[j - 1] \in Nat /\ at[j] - dur[j] \in Nat
        BY <1>2
      <3>4. start[i] = at[i] - dur[i] /\ start[j] = at[j] - dur[j]
        OBVIOUS
      <3> DEFINE si == start[i]
                 sj == start[j]
                 ai == at[i]
                 aj == at[j - 1]
      <3>5. si <= ai /\ ai <= aj /\ aj <= sj /\ si \in Nat /\ ai \in Nat /\ aj \in Nat /\ sj \in Nat
        BY <3>2, <3>3, <3>4
      <3> HIDE DEF si, sj, ai, aj
      <3>6. si <= sj
        BY <3>5
      <3> QED
        BY <2>1, <3>6 DEF si, sj
    <2> QED
      BY <1>5, <2>2, <2>3
  <1>6. Laid(gap, dur).start = start /\ Laid(gap, dur).end = end
    BY <1>1
  <1> HIDE DEF start, end
  <1>7. start # <<>>
    BY <1>3
  <1> QED
    BY <1>3, <1>5, <1>6, <1>7 DEF Sorted, Timed

\* plan_translation_batches cuts every transcript whose times are in order into the
\* fewest batches that its limits allow, whatever these are.
THEOREM GreedyIsFewest ==
    ASSUME NEW start, NEW end, Sorted(start, end)
    PROVE  IsFewest(start, end, PlanBatches(start, end))
  <1> DEFINE plan == PlanBatches(start, end)
             n    == Len(start)
             Ends(cuts, b) == CHOOSE e \in cuts \cup {n} : e >= b /\ \A f \in cuts : f >= b => f >= e
  <1>t. Timed(start, end) /\ start # <<>> /\ n \in Nat /\ n >= 1
    BY DEF Sorted, Timed
  <1>1. Tiles(start, end, 1, plan)
    BY <1>t, PlanTiles
  <1>2. ASSUME NEW k \in 1..Len(plan)
        PROVE  /\ Allowed(start, end, plan[k].first, plan[k].last)
               /\ k > 1 => plan[k].first = plan[k - 1].last + 1
    <2> DEFINE b == plan[k].first
    <2>1. b \in 1..n /\ plan[k].last = Cut(start, end, b) /\ (k > 1 => b = plan[k - 1].last + 1)
      BY <1>1 DEF Tiles
    <2> HIDE DEF b
    <2>2. Cut(start, end, b) \in b..Cut(start, end, b)
      BY <1>t, <2>1, CutRange
    <2>3. Allowed(start, end, b, Cut(start, end, b))
      BY <1>t, <2>1, <2>2, CutFacts DEF Allowed
    <2> QED
      BY <2>1, <2>3 DEF b
  <1>3. ASSUME NEW cuts \in SUBSET (1..n - 1),
               \A b \in {1} \cup {c + 1 : c \in cuts} : Allowed(start, end, b, Ends(cuts, b))
        PROVE  Len(plan) <= Cardinality(cuts) + 1
    <2>1. ASSUME NEW b \in {1} \cup {c + 1 : c \in cuts}, NEW e \in cuts \cup {n},
                 e >= b, \A f \in cuts : f >= b => f >= e
          PROVE  Allowed(start, end, b, e)
      <3>0. b \in Nat /\ e \in 1..n
        BY <1>t
      <3>1. ASSUME NEW d \in cuts \cup {n}, d >= b, \A f \in cuts : f >= b => f >= d PROVE d = e
        BY <1>t, <2>1, <3>0, <3>1
      <3>2. Ends(cuts, b) = e
        BY <2>1, <3>1
      <3> QED
        BY <1>3, <3>2
    <2> HIDE DEF plan, Ends
    <2> QED
      BY <1>1, <2>1, Fewest
  <1>4. plan[1].first = 1 /\ plan[Len(plan)].last = n
    BY <1>1 DEF Tiles
  <1> HIDE DEF plan
  <1> QED
    BY <1>2, <1>3, <1>4 DEF plan, IsFewest

\* The transcripts of PlanIsFewest are such transcripts.
THEOREM PlanFewest == Spec => []PlanIsFewest
  <1>1. ASSUME NEW t \in Transcripts PROVE Sorted(t.start, t.end)
    <2>1. PICK m \in 1..4 : \E gap \in [1..m -> 0..1], dur \in [1..m -> 1..MaxSpan + 1] : t = Laid(gap, dur)
      BY DEF Transcripts
    <2>2. PICK gap \in [1..m -> 0..1], dur \in [1..m -> 1..MaxSpan + 1] : t = Laid(gap, dur)
      BY <2>1
    <2>3. gap \in [1..m -> Nat] /\ dur \in [1..m -> Nat] /\ m \in Nat \ {0}
      BY LimitsArePositive
    <2> QED
      BY <2>2, <2>3, LaidSorted
  <1>2. PlanIsFewest
    BY <1>1, GreedyIsFewest DEF PlanIsFewest
  <1> QED
    BY <1>2, PTL

-----------------------------------------------------------------------------
(* The batches of the transcript, and what is published of them.           *)

\* The transcript is cut into batches that own each of its segments once.
LEMMA PlanFacts ==
    /\ Len(Plan) \in Nat /\ 1 \in Ordinals
    /\ \A i \in Ordinals : Owned(i) \subseteq Segments
    /\ \A i, k \in Ordinals : i # k => Owned(i) \cap Owned(k) = {}
  <1>1. Timed(Start, End) /\ Start # <<>> /\ 1 \in 1..Len(Start) /\ Segments = 1..Len(Start)
    BY SegmentsAreOrdered DEF Timed, Segments
  <1>2. Tiles(Start, End, 1, Plan)
    BY <1>1, PlanTiles DEF Plan
  <1>3. /\ Len(Plan) \in Nat
        /\ \A k \in Ordinals : /\ Plan[k].first \in 1..Len(Start)
                               /\ Plan[k].last \in Plan[k].first..Len(Start)
        /\ \A j, k \in Ordinals : j < k => Plan[j].last < Plan[k].first
    BY <1>1, <1>2, TilesInOrder DEF Ordinals
  <1>4. 1 \in Ordinals /\ Len(Start) \in Nat
    BY <1>1, <1>2, <1>3 DEF Tiles, Ordinals, Timed
  <1>5. ASSUME NEW i \in Ordinals PROVE Owned(i) \subseteq Segments
    <2>1. Plan[i].first \in 1..Len(Start) /\ Plan[i].last \in Plan[i].first..Len(Start)
      BY <1>3
    <2> QED
      BY <1>1, <1>4, <2>1 DEF Owned
  <1>6. ASSUME NEW i \in Ordinals, NEW k \in Ordinals, i < k PROVE Owned(i) \cap Owned(k) = {}
    <2>1. /\ Plan[i].last < Plan[k].first
          /\ Plan[i].first \in Nat /\ Plan[i].last \in Nat
          /\ Plan[k].first \in Nat /\ Plan[k].last \in Nat
      BY <1>3, <1>4, <1>6
    <2> QED
      BY <2>1 DEF Owned
  <1>7. ASSUME NEW i \in Ordinals, NEW k \in Ordinals, i # k PROVE Owned(i) \cap Owned(k) = {}
    <2>1. i < k \/ k < i
      BY <1>3, <1>7 DEF Ordinals
    <2> QED
      BY <1>6, <2>1
  <1> QED
    BY <1>3, <1>4, <1>5, <1>7

\* An answer that is accepted translates the segments of its batch, all of them.
LEMMA AcceptedOwned ==
    ASSUME NEW i \in Ordinals, NEW segs \in Accepted[i]
    PROVE  segs = Owned(i)
  <1>1. PICK items \in Replies : ValidItems(Owned(i), items) /\ segs = {items[j] : j \in DOMAIN items}
    BY DEF Accepted
  <1> QED
    BY <1>1 DEF ValidItems

\* How often the provider's translation of a segment was published, per policy.
CloudTypeOK == cloud \in [Policies -> [Segments -> Nat]]

\* A run that publishes a batch publishes it for the batches it was told, and each
\* revision of the provider comes from such a batch.
LEMMA CloudStep ==
    ASSUME Types, BatchInv, CloudTypeOK, Transaction
    PROVE  \/ /\ UNCHANGED cloud
              /\ \A p \in Policies, i \in Ordinals :
                    batch'[p][i] = "succeeded" <=> batch[p][i] = "succeeded"
           \/ \E p \in Policies, i \in Ordinals :
                 /\ batch[p][i] # "succeeded"
                 /\ batch' = [batch EXCEPT ![p][i] = "succeeded"]
                 /\ Translate(p, Owned(i))
  <1>1. CASE RowStep
    <2>1. batch' = batch
      BY <1>1, RowBatchStep
    <2>2. cloud' = cloud
      BY <1>1 DEF RowStep, Renew, ApproveContext, ApproveTranslation, CancelRow, PublishContext,
                  FinalizeRow, FailRow
    <2> QED
      BY <2>1, <2>2
  <1>2. CASE CreateBatches
    <2>1. CASE batch' = batch
      BY <1>2, <2>1 DEF CreateBatches
    <2>2. CASE /\ \A i \in Ordinals : batch[policy][i] = "none"
               /\ batch' = [batch EXCEPT ![policy] = [i \in Ordinals |-> "pending"]]
      BY <1>2, <2>2 DEF CreateBatches, BatchInv, BatchTypeOK
    <2> QED
      BY <1>2, <2>1, <2>2 DEF CreateBatches
  <1>3. ASSUME NEW u \in Users, EditSegment(req[u]) PROVE UNCHANGED <<batch, cloud>>
    BY <1>3 DEF EditSegment
  <1>4. ASSUME NEW p \in Policies, NEW i \in Ordinals, NEW n \in Attempts,
               pc[p][<<"batch", i>>][n] = "call", NEW segs \in Accepted[i],
               PublishBatch(lot[p], i, segs)
        PROVE  \/ UNCHANGED <<batch, cloud>>
               \/ /\ lot[p] \in Policies /\ batch[lot[p]][i] # "succeeded"
                  /\ batch' = [batch EXCEPT ![lot[p]][i] = "succeeded"]
                  /\ Translate(lot[p], Owned(i))
    <2>1. InBatch(p)
      BY <1>4 DEF InBatch
    <2>2. lot[p] \in Policies
      BY <2>1, BoundsAreNat DEF BatchInv, RunTypeOK, Policies
    <2>3. segs = Owned(i)
      BY AcceptedOwned
    <2> QED
      BY <1>4, <2>2, <2>3 DEF PublishBatch
  <1> QED
    BY <1>1, <1>2, <1>3, <1>4 DEF Transaction

\* The types of the revisions are inductive, and so is PublishedOnce: batches own no
\* segment together, and a batch that has succeeded is not published again.
LEMMA PublishedOnceStep ==
    ASSUME Types, BatchInv, CloudTypeOK, Transaction
    PROVE  CloudTypeOK' /\ (PublishedOnce => PublishedOnce')
  <1>1. CASE /\ UNCHANGED cloud
             /\ \A p \in Policies, i \in Ordinals :
                   batch'[p][i] = "succeeded" <=> batch[p][i] = "succeeded"
    BY <1>1 DEF CloudTypeOK, PublishedOnce
  <1>2. ASSUME NEW p \in Policies, NEW i \in Ordinals, batch[p][i] # "succeeded",
               batch' = [batch EXCEPT ![p][i] = "succeeded"], Translate(p, Owned(i))
        PROVE  CloudTypeOK' /\ (PublishedOnce => PublishedOnce')
    <2>1. cloud' = [cloud EXCEPT ![p] = [s \in Segments |->
                        IF s \in Owned(i) THEN cloud[p][s] + 1 ELSE cloud[p][s]]]
      BY <1>2 DEF Translate, CloudTypeOK
    <2>2. CloudTypeOK'
      BY <2>1 DEF CloudTypeOK
    <2>3. ASSUME PublishedOnce, NEW q \in Policies, NEW k \in Ordinals, NEW s \in Owned(k)
          PROVE  cloud'[q][s] = IF batch'[q][k] = "succeeded" THEN 1 ELSE 0
      <3>s. s \in Segments
        BY PlanFacts
      <3>0. cloud[q][s] = IF batch[q][k] = "succeeded" THEN 1 ELSE 0
        BY <2>3 DEF PublishedOnce
      <3>1. CASE q = p /\ k = i
        <4>1. cloud'[q][s] = cloud[p][s] + 1
          BY <3>s, <3>1, <2>1 DEF CloudTypeOK
        <4>2. batch'[q][k] = "succeeded"
          BY <1>2, <3>1 DEF BatchInv, BatchTypeOK
        <4> QED
          BY <1>2, <3>0, <3>1, <4>1, <4>2
      <3>2. CASE ~(q = p /\ k = i)
        <4>1. batch'[q][k] = batch[q][k]
          BY <1>2, <3>2 DEF BatchInv, BatchTypeOK
        <4>2. q = p => s \notin Owned(i)
          BY <3>2, PlanFacts
        <4>3. cloud'[q][s] = cloud[q][s]
          BY <2>1, <3>s, <4>2 DEF CloudTypeOK
        <4> QED
          BY <3>0, <4>1, <4>3
      <3> QED
        BY <3>1, <3>2
    <2> QED
      BY <2>2, <2>3 DEF PublishedOnce
  <1> QED
    BY <1>1, <1>2, CloudStep

\* The number of the provider's revisions is typed.
LEMMA CloudInvariance == Spec => []CloudTypeOK
  <1>1. Init => CloudTypeOK
    BY DEF Init, CloudTypeOK
  <1>2. Types /\ BatchInv /\ CloudTypeOK /\ [Next]_vars => CloudTypeOK'
    BY StepIsTransaction, PublishedOnceStep
  <1> QED
    BY <1>1, <1>2, TypesInvariance, BatchInvariance, PTL DEF Spec

\* Over all retries, given-up attempts and runs that were handed the same batches,
\* the provider's text of a segment is published once if its batch has succeeded,
\* and never before.
THEOREM BatchesPublishedOnce == Spec => []PublishedOnce
  <1>1. Init => PublishedOnce
    <2>1. ASSUME NEW i \in Ordinals PROVE Owned(i) \subseteq Segments
      BY PlanFacts
    <2> QED
      BY <2>1 DEF Init, PublishedOnce
  <1>2. Types /\ BatchInv /\ CloudTypeOK /\ PublishedOnce /\ [Next]_vars => PublishedOnce'
    BY StepIsTransaction, PublishedOnceStep
  <1> QED
    BY <1>1, <1>2, TypesInvariance, BatchInvariance, CloudInvariance, PTL DEF Spec

-----------------------------------------------------------------------------
(* The types of the runs, and with them those of all variables.            *)

Places == Open \cup Closed \cup {Step("none")}

\* A run counts the attempts that its activity is granted, from the first one.
FlowTypeOK ==
    /\ wf \in [Policies -> Places]
    /\ wn \in [Policies -> Attempts]
    /\ \A p \in Policies : wf[p] \in Jobs => wn[p] <= MaxAttempts[wf[p][1]]
    /\ \A p \in Policies : wf[p] = Step("none") => wn[p] = 1
    /\ told \in [Policies -> SUBSET {"context", "approval"}]

\* Every activity is granted one attempt, and where a run may go is a place.
LEMMA FlowFacts ==
    /\ 1 \in Attempts
    /\ Attempts \subseteq Nat
    /\ \A job \in Jobs : /\ MaxAttempts[job[1]] \in Nat /\ 1 <= MaxAttempts[job[1]]
                         /\ 1..MaxAttempts[job[1]] \subseteq Attempts
                         /\ job \in Places \ {Step("none")}
                         /\ NextStep(job) \in Places \ {Step("none")}
                         /\ AfterError(job) \in Places \ {Step("none")}
    /\ \A name \in {"context", "plan", "finalize", "mark"} : Step(name) \in Jobs
    /\ \A name \in {"plan", "closed", "completed"} : Step(name) \in Places \ {Step("none")}
  <1>1. \A a \in Acts : MaxAttempts[a] \in Nat /\ 1 <= MaxAttempts[a] /\ 1..MaxAttempts[a] \subseteq Attempts
    BY AttemptsArePositive DEF Attempts
  <1>2. "context" \in Acts
    BY DEF Acts
  <1>3. 1 \in Attempts
    BY <1>1, <1>2
  <1>4. Attempts \subseteq Nat
    BY AttemptsArePositive DEF Attempts
  <1>5. /\ \A name \in {"context", "plan", "finalize", "mark"} : Step(name) \in Jobs
        /\ \A name \in {"plan", "closed", "completed"} : Step(name) \in Places \ {Step("none")}
    BY DEF Jobs, Places, Open, Waiting, Closed, Step
  <1>6. ASSUME NEW job \in Jobs PROVE job[1] \in Acts /\ job \in Places \ {Step("none")}
    BY DEF Jobs, Acts, Step, Places, Open
  <1>7. ASSUME NEW job \in Jobs PROVE AfterError(job) \in Places \ {Step("none")}
    BY <1>5, <1>6 DEF AfterError
  <1>8. ASSUME NEW job \in Jobs PROVE NextStep(job) \in Places \ {Step("none")}
    <2>1. CASE job = Step("context")
      BY <2>1 DEF NextStep, Step, Places, Open, Waiting
    <2>2. CASE job = Step("plan")
      BY <2>2, PlanFacts DEF NextStep, Step, Places, Open, Jobs
    <2>3. CASE job = Step("finalize")
      BY <2>3 DEF NextStep, Step, Places, Open, Waiting
    <2>4. CASE job = Step("mark")
      BY <2>4 DEF NextStep, Step, Places, Closed
    <2>5. ASSUME NEW i \in Ordinals, job = <<"batch", i>>
          PROVE  NextStep(job) \in Places \ {Step("none")}
      <3>1. NextStep(job) = IF i < Len(Plan) THEN <<"batch", i + 1>> ELSE Step("finalize")
        BY <2>5 DEF NextStep, Step
      <3>2. i < Len(Plan) => i + 1 \in Ordinals
        BY PlanFacts DEF Ordinals
      <3>3. i < Len(Plan) => <<"batch", i + 1>> \in Jobs
        BY <3>2 DEF Jobs
      <3> QED
        BY <3>1, <3>3, <1>5, <1>6
    <2> QED
      BY <2>1, <2>2, <2>3, <2>4, <2>5 DEF Jobs
  <1> QED
    BY <1>1, <1>3, <1>4, <1>5, <1>6, <1>7, <1>8

\* A run that goes on to a place, with an attempt that is granted, stays typed.
LEMMA RunToTyped ==
    ASSUME FlowTypeOK, NEW p \in Policies, NEW to \in Places \ {Step("none")}, NEW n \in Attempts,
           to \in Jobs => n <= MaxAttempts[to[1]], NEW places, RunTo(p, to, n, places)
    PROVE  FlowTypeOK'
  <1>1. /\ wf' = [wf EXCEPT ![p] = to]
        /\ wn' = [wn EXCEPT ![p] = n]
        /\ told' = told \/ told' = [told EXCEPT ![p] = {}]
    BY DEF RunTo
  <1>2. /\ wf' \in [Policies -> Places]
        /\ wn' \in [Policies -> Attempts]
        /\ told' \in [Policies -> SUBSET {"context", "approval"}]
    BY <1>1 DEF FlowTypeOK
  <1>3. ASSUME NEW q \in Policies
        PROVE  /\ wf'[q] \in Jobs => wn'[q] <= MaxAttempts[wf'[q][1]]
               /\ wf'[q] = Step("none") => wn'[q] = 1
    BY <1>1 DEF FlowTypeOK
  <1> QED
    BY <1>2, <1>3 DEF FlowTypeOK

\* So does one that retries, fails or ends.
LEMMA RetryTyped ==
    ASSUME FlowTypeOK, NEW p \in Policies, NEW places, wf[p] \in Jobs,
           Retry(p, places) \/ RunTo(p, AfterError(wf[p]), 1, places)
    PROVE  FlowTypeOK'
  <1>1. CASE RunTo(p, AfterError(wf[p]), 1, places)
    BY <1>1, FlowFacts, RunToTyped
  <1>2. CASE wn[p] < MaxAttempts[wf[p][1]] /\ RunTo(p, wf[p], wn[p] + 1, places)
    <2>1. wn[p] \in Nat /\ wn[p] >= 1 /\ MaxAttempts[wf[p][1]] \in Nat
          /\ 1..MaxAttempts[wf[p][1]] \subseteq Attempts
      <3>1. wn[p] \in Attempts
        BY DEF FlowTypeOK
      <3>2. \A n \in Attempts : n \in Nat /\ n >= 1
        BY AttemptsArePositive DEF Attempts
      <3> QED
        BY <3>1, <3>2, FlowFacts
    <2>2. wn[p] + 1 \in Attempts /\ wn[p] + 1 <= MaxAttempts[wf[p][1]]
      BY <1>2, <2>1
    <2> QED
      BY <1>2, <2>2, FlowFacts, RunToTyped
  <1> QED
    BY <1>1, <1>2 DEF Retry

\* The report of an attempt keeps the runs typed.
LEMMA ReportTyped ==
    ASSUME FlowTypeOK, NEW p \in Policies, NEW job \in Jobs, NEW n, NEW outcome,
           Report(p, job, n, outcome)
    PROVE  FlowTypeOK'
  <1> DEFINE places == [pc EXCEPT ![p][job][n] = "off"]
  <1>1. CASE UNCHANGED <<wf, wn, told>>
    BY <1>1 DEF FlowTypeOK
  <1>2. CASE wf[p] = job /\ RunTo(p, NextStep(job), 1, places)
    BY <1>2, FlowFacts, RunToTyped
  <1>3. CASE wf[p] = job /\ (Retry(p, places) \/ RunTo(p, AfterError(job), 1, places))
    BY <1>3, RetryTyped
  <1> QED
    BY <1>1, <1>2, <1>3 DEF Report

\* Every step keeps the runs typed.
LEMMA FlowTyped ==
    ASSUME Types, FlowTypeOK, [Next]_vars
    PROVE  FlowTypeOK'
  <1>same. ASSUME UNCHANGED <<wf, wn, told>> PROVE FlowTypeOK'
    BY <1>same DEF FlowTypeOK
  <1>1. CASE UNCHANGED vars
    BY <1>1, <1>same DEF vars, runVars
  <1>2. ASSUME NEW u \in Users, Request(u) PROVE FlowTypeOK'
    <2>1. CASE Launch(u)
      <3> DEFINE p == req[u].policy
      <3>1. CASE wf[p] # Step("none") \/ p \notin Policies
        BY <2>1, <3>1, <1>same DEF Launch, FlowTypeOK
      <3>2. CASE wf[p] = Step("none") /\ p \in Policies
        <4>1. wf' = [wf EXCEPT ![p] = Step("context")] /\ UNCHANGED <<wn, told>>
          BY <2>1, <3>2 DEF Launch
        <4>2. Step("context") \in Jobs /\ Step("context") \in Places \ {Step("none")}
          BY FlowFacts
        <4>3. wf' \in [Policies -> Places]
          BY <4>1, <4>2 DEF FlowTypeOK
        <4>4. wn[p] = 1 /\ 1 <= MaxAttempts[Step("context")[1]]
          BY <3>2, <4>2, FlowFacts DEF FlowTypeOK
        <4> HIDE DEF p
        <4>5. ASSUME NEW q \in Policies
              PROVE  /\ wf'[q] \in Jobs => wn'[q] <= MaxAttempts[wf'[q][1]]
                     /\ wf'[q] = Step("none") => wn'[q] = 1
          BY <3>2, <4>1, <4>2, <4>4 DEF FlowTypeOK
        <4> QED
          BY <4>1, <4>3, <4>5 DEF FlowTypeOK
      <3> QED
        BY <3>1, <3>2
    <2>2. CASE Stop(u)
      <3>1. CASE UNCHANGED <<wf, wn, told, pc>>
        BY <3>1, <1>same
      <3>2. CASE Cancel(policy)
        <4>1. policy \in Policies
          BY <2>2 DEF Stop, Types, PolicyTypeOK, Policies
        <4>2. CASE RunTo(policy, Step("closed"), 1, pc)
          BY <4>1, <4>2, FlowFacts, RunToTyped DEF Jobs, Step
        <4>3. ASSUME wf[policy] \in Jobs, NEW places, RunTo(policy, AfterError(wf[policy]), 1, places)
              PROVE  FlowTypeOK'
          BY <4>1, <4>3, RetryTyped
        <4> QED
          BY <3>2, <4>2, <4>3 DEF Cancel
      <3> QED
        BY <2>2, <3>1, <3>2 DEF Stop
    <2>3. CASE Signal(u)
      <3>1. UNCHANGED <<wf, wn>>
        BY <2>3 DEF Signal
      <3>2. told' \in [Policies -> SUBSET {"context", "approval"}]
        BY <2>3 DEF Signal, FlowTypeOK
      <3> QED
        BY <3>1, <3>2 DEF FlowTypeOK
    <2>4. CASE \/ EditRead(u) \/ EditCommit(u) \/ (\E same \in BOOLEAN : Prepare(u, same)) \/ Bind(u)
               \/ ApproveContextRead(u) \/ ApproveContextCommit(u) \/ ApproveRead(u)
               \/ ApproveCommit(u) \/ MarkCancelled(u) \/ Abandon(u)
      BY <2>4, <1>same DEF EditRead, EditCommit, Prepare, Bind, ApproveContextRead, ApproveContextCommit,
                           ApproveRead, ApproveCommit, MarkCancelled, Abandon, runVars
    <2> QED
      BY <1>2, <2>1, <2>2, <2>3, <2>4 DEF Request
  <1>3. ASSUME NEW p \in Policies, Workflow(p) PROVE FlowTypeOK'
    <2>1. CASE Timeout(p)
      BY <2>1, RetryTyped DEF Timeout
    <2>2. CASE Proceed(p)
      <3>1. PICK to \in {Step("plan"), Step("completed")} : RunTo(p, to, 1, pc)
        BY <2>2 DEF Proceed
      <3>2. to \in Places \ {Step("none")} /\ 1 \in Attempts
        BY FlowFacts
      <3>3. to \in Jobs => 1 <= MaxAttempts[to[1]]
        BY FlowFacts
      <3> QED
        BY <3>1, <3>2, <3>3, RunToTyped
    <2> QED
      BY <1>3, <2>1, <2>2 DEF Workflow
  <1>4. ASSUME NEW p \in Policies, NEW n \in Attempts, Attempt(p, n) PROVE FlowTypeOK'
    <2>0. /\ \A name \in {"context", "plan", "finalize", "mark"} : Step(name) \in Jobs
          /\ \A i \in Ordinals : <<"batch", i>> \in Jobs
      BY FlowFacts DEF Jobs
    <2>call. ASSUME NEW job, Call(p, job, n) PROVE FlowTypeOK'
      BY <2>call, <1>same DEF Call, runVars
    <2>1. CASE ReadContext(p, n) \/ ReadPlan(p, n)
      BY <2>1, <2>0, <2>call, ReportTyped DEF ReadContext, ReadPlan
    <2>2. CASE ExtractContext(p, n)
      BY <2>2, <2>0, ReportTyped DEF ExtractContext, ReportPaid
    <2>3. CASE PlanTranslation(p, n)
      BY <2>3, <2>0, ReportTyped DEF PlanTranslation
    <2>4. ASSUME NEW i \in Ordinals, ReadBatch(p, i, n) PROVE FlowTypeOK'
      BY <2>4, <2>0, <2>call, ReportTyped DEF ReadBatch
    <2>5. ASSUME NEW i \in Ordinals, TranslateBatch(p, i, n) PROVE FlowTypeOK'
      BY <2>5, <2>0, ReportTyped DEF TranslateBatch, ReportPaid
    <2>6. CASE Finalize(p, n) \/ MarkFailed(p, n)
      BY <2>6, <2>0, ReportTyped DEF Finalize, MarkFailed, ReportLocal
    <2>7. ASSUME NEW job \in Jobs, Raise(p, job, n) PROVE FlowTypeOK'
      BY <2>7, ReportTyped DEF Raise
    <2> QED
      BY <1>4, <2>1, <2>2, <2>3, <2>4, <2>5, <2>6, <2>7 DEF Attempt
  <1> QED
    BY <1>1, <1>2, <1>3, <1>4 DEF Next

\* The runs are typed in every state.
LEMMA FlowInvariance == Spec => []FlowTypeOK
  <1>1. Init => FlowTypeOK
    <2>1. 1 \in Attempts /\ Step("none") \notin Jobs /\ Step("none") \in Places
      BY FlowFacts DEF Places, Jobs, Step
    <2> QED
      BY <2>1 DEF Init, FlowTypeOK
  <1>2. Types /\ FlowTypeOK /\ [Next]_vars => FlowTypeOK'
    BY FlowTyped
  <1> QED
    BY <1>1, <1>2, TypesInvariance, PTL DEF Spec

\* The policy whose run the row names, 0 for none.
BoundTypeOK == bound \in 0..MaxPolicies

\* A context is bound to the run of a policy that some request held.
LEMMA BoundInvariance == Spec => []BoundTypeOK
  <1>1. Init => BoundTypeOK
    BY BoundsAreNat DEF Init, BoundTypeOK
  <1>2. ASSUME Types, BoundTypeOK, [Next]_vars PROVE BoundTypeOK'
    <2>1. Transaction
      BY <1>2, StepIsTransaction
    <2>2. 0 \in 0..MaxPolicies /\ \A u \in Users : req[u].policy \in 0..MaxPolicies
      BY <1>2, BoundsAreNat DEF Types, RequestTypeOK
    <2>3. bound' = bound \/ bound' = 0 \/ \E u \in Users : bound' = req[u].policy
      BY <2>1 DEF Transaction, RowStep, Renew, ApproveContext, ApproveTranslation, CancelRow,
                  PublishContext, FinalizeRow, FailRow, CreateBatches, EditSegment, PublishBatch
    <2> QED
      BY <1>2, <2>2, <2>3 DEF BoundTypeOK
  <1> QED
    BY <1>1, <1>2, TypesInvariance, PTL DEF Spec

\* Every variable of the translation keeps its type.
THEOREM TypeCorrect == Spec => []TypeOK
  <1>1. /\ Types /\ BatchInv /\ CloudTypeOK /\ FlowTypeOK /\ BoundTypeOK => TypeOK
    BY DEF Types, PolicyTypeOK, RequestTypeOK, BatchInv, RunTypeOK, BatchTypeOK, PCs, CloudTypeOK,
           FlowTypeOK, Places, BoundTypeOK, TypeOK
  <1> QED
    BY <1>1, TypesInvariance, BatchInvariance, CloudInvariance, FlowInvariance, BoundInvariance, PTL

=============================================================================
