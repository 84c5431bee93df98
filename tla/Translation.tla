---------------------------- MODULE Translation ----------------------------
(***************************************************************************)
(* The translation of one approved transcript:                             *)
(*                                                                         *)
(*   - its row of translation_states with the context it points at, the    *)
(*     batches of every tone policy and the revisions of every segment;    *)
(*   - the requests of TranslationService;                                 *)
(*   - the runs of the Temporal workflow translation-v1, one per policy,   *)
(*     with attempts that go on after they were given up.                  *)
(*                                                                         *)
(* A policy (preset, provider, model, prompt) is the number of its version *)
(* row, so the latest policy is the state's; a batch is its policy and its *)
(* ordinal.  Texts, glossaries, findings, tokens and costs (the repository *)
(* in use reserves nothing and refuses nothing) are left out.              *)
(***************************************************************************)
EXTENDS Integers, Sequences, FiniteSets

CONSTANTS
    Start, End,      \* the segments' times, in order
    MaxOwned,        \* limits of a batch: segments ...
    MaxSpan,         \* ... and time from its first start to its last end
    Editors, Owners, \* pages and scripts, one request at a time each: those that
                     \* edit segments and those that make the other requests
    MaxPolicies,     \* bound on the policies
    MaxAttempts,     \* attempts the workflow grants each activity
    MaxLate,         \* bound on the attempts at work that were given up
    MaxRevisions     \* bound: no edit of a segment at this head version

Segments == DOMAIN Start
Users    == Editors \cup Owners
Policies == 1..MaxPolicies

ASSUME SegmentsAreOrdered ==
    /\ Start \in Seq(Nat) /\ End \in Seq(Nat)
    /\ Start # <<>> /\ DOMAIN End = DOMAIN Start
ASSUME LimitsArePositive == MaxOwned \in Nat \ {0} /\ MaxSpan \in Nat \ {0}
ASSUME BoundsAreNat == MaxPolicies \in Nat /\ MaxRevisions \in Nat /\ MaxLate \in Nat

-----------------------------------------------------------------------------
(* plan_translation_batches: greedy, a batch is the range of its segments. *)

Beyond(start, end, b, e) == e - b + 1 > MaxOwned \/ end[e] - start[b] > MaxSpan

\* Mutant: a batch that keeps the segment that broke the limit.
CutLate(start, end, b) ==
    LET over == {e \in b..Len(start) : Beyond(start, end, b, e)}
    IN  IF over = {} THEN Len(start)
        ELSE CHOOSE e \in over : \A f \in over : e <= f

\* The last segment of the batch that starts at b: up to the first one that is
\* beyond a limit, but never an empty batch.
Cut(start, end, b) ==
    LET over  == {e \in b..Len(start) : Beyond(start, end, b, e)}
        first == CHOOSE e \in over : \A f \in over : e <= f
    IN  IF over = {} THEN Len(start) ELSE IF first = b THEN b ELSE first - 1

PlanBatches(start, end) ==
    LET from[b \in 1..Len(start) + 1] ==
            IF b > Len(start) THEN <<>>
            ELSE <<[first |-> b, last |-> Cut(start, end, b)]>> \o from[Cut(start, end, b) + 1]
    IN  from[1]

Plan     == PlanBatches(Start, End)
Owned(i) == Plan[i].first..Plan[i].last
Ordinals == 1..Len(Plan)

\* Mutant: omitted segments are not noticed.
ValidIfKnown(owned, items) ==
    \A j, k \in DOMAIN items : items[j] \in owned /\ (items[j] = items[k] => j = k)

\* validate_translation_items: every owned segment exactly once; 0 stands for an
\* item that is unusable: an unknown segment, or text that is empty or too long.
ValidItems(owned, items) ==
    /\ \A j, k \in DOMAIN items : items[j] \in owned /\ (items[j] = items[k] => j = k)
    /\ owned \subseteq {items[j] : j \in DOMAIN items}

\* What the provider may answer, whatever the schema asks of it, and the segments
\* of the answers that are accepted for a batch.
Replies  == UNION {[1..n -> Segments \cup {0}] : n \in 0..Len(Start)}
Accepted == [i \in Ordinals |->
                {{items[j] : j \in DOMAIN items} : items \in {r \in Replies : ValidItems(Owned(i), r)}}]

\* Whether the evidence of an extracted context is segments that were sent.
ContextReplies == {evidence \subseteq Segments : evidence \in SUBSET (Segments \cup {0})}

\* 408, 409, 429 and 5xx and a network that is down are worth another attempt,
\* any other answer is final.
ProviderErrors == {"retry", "fatal"}

-----------------------------------------------------------------------------

VARIABLES
    status, version, policy,  \* the translation_states row, policy 0 = no row
    ctx, bound,               \* its context and the policy whose run it names
    head,                     \* per segment: the policy of the current revision,
                              \* the head's version, 0 = no translation
    batch, cloud,             \* batch status, and the number of revisions from the
                              \* provider, per policy and ordinal or segment
    wf, wn,                   \* each policy's run: its activity or wait, attempt
    lot,                      \* the policy of the batches it was told to translate
    told,                     \* signals it was sent
    pc,                       \* where an attempt is
    upc, req                  \* where a request is, and what it holds

rowVars == <<status, version, policy, ctx, bound, head, batch, cloud>>
runVars == <<wf, wn, lot, told>>
vars    == <<rowVars, runVars, pc, upc, req>>

Statuses == {"none", "context_processing", "waiting_for_context_review", "translating",
             "waiting_for_review", "approved", "failed", "cancelled"}
Later    == {"waiting_for_context_review", "translating", "waiting_for_review", "approved"}

\* An activity or a wait of the workflow; batches have their ordinal.
Step(name) == <<name, 0>>
Jobs     == {Step("context"), Step("plan"), Step("finalize"), Step("mark")}
              \cup ({"batch"} \X Ordinals)
Waiting  == {Step("await_context"), Step("await_approval")}
Open     == Jobs \cup Waiting
Closed   == {Step("completed"), Step("closed")}

Acts     == {"context", "plan", "batch", "finalize", "mark"}
ASSUME AttemptsArePositive == MaxAttempts \in [Acts -> Nat \ {0}]
Attempts == UNION {1..MaxAttempts[a] : a \in Acts}

UserPCs  == {"idle", "launch", "bind", "context", "signal_context", "edit",
             "approve", "signal", "cancel"}
NoReq    == [policy |-> 0, version |-> 0, seg |-> 1, head |-> 0]

TypeOK ==
    /\ status \in Statuses /\ version \in Nat
    /\ policy \in 0..MaxPolicies /\ bound \in 0..MaxPolicies
    /\ ctx \in {"none", "draft", "approved"}
    /\ head \in [Segments -> [policy : 0..MaxPolicies, version : Nat]]
    /\ batch \in [Policies -> [Ordinals -> {"none", "pending", "succeeded"}]]
    /\ cloud \in [Policies -> [Segments -> Nat]]
    /\ wf \in [Policies -> Open \cup Closed \cup {Step("none")}]
    /\ wn \in [Policies -> Attempts]
    /\ \A p \in Policies : wf[p] \in Jobs => wn[p] <= MaxAttempts[wf[p][1]]
    /\ lot \in [Policies -> 0..MaxPolicies]
    /\ told \in [Policies -> SUBSET {"context", "approval"}]
    /\ pc \in [Policies -> [Jobs -> [Attempts -> {"off", "read", "call"}]]]
    /\ upc \in [Users -> UserPCs]
    /\ req \in [Users -> [policy : 0..MaxPolicies, version : Nat, seg : Segments, head : Nat]]

Init ==
    /\ status = "none" /\ version = 0 /\ policy = 0 /\ ctx = "none" /\ bound = 0
    /\ head = [s \in Segments |-> [policy |-> 0, version |-> 0]]
    /\ batch = [p \in Policies |-> [i \in Ordinals |-> "none"]]
    /\ cloud = [p \in Policies |-> [s \in Segments |-> 0]]
    /\ wf = [p \in Policies |-> Step("none")]
    /\ wn = [p \in Policies |-> 1]
    /\ lot = [p \in Policies |-> 0]
    /\ told = [p \in Policies |-> {}]
    /\ pc = [p \in Policies |-> [j \in Jobs |-> [n \in Attempts |-> "off"]]]
    /\ upc = [u \in Users |-> "idle"]
    /\ req = [u \in Users |-> NoReq]

-----------------------------------------------------------------------------
(* The row's transactions.                                                 *)

SetStatus(new) == status' = new /\ version' = version + 1

\* prepare: the same request joins a translation that is neither failed nor
\* cancelled; otherwise a new policy starts over, unless work is in progress.
PrepareJoins(same)  == policy # 0 /\ same /\ status \notin {"failed", "cancelled"}
PrepareRenews(same) == /\ policy < MaxPolicies
                       /\ ~PrepareJoins(same)
                       /\ status \in {"none", "approved", "failed", "cancelled"}

Renew ==
    /\ SetStatus("context_processing")
    /\ policy' = policy + 1 /\ ctx' = "none" /\ bound' = 0
    /\ UNCHANGED <<head, batch, cloud>>

\* approve_context, the selection of summary and entities left out.
ApproveContext(expected) ==
    /\ status = "waiting_for_context_review" /\ version = expected
    /\ SetStatus("translating") /\ ctx' = "approved"
    /\ UNCHANGED <<policy, bound, head, batch, cloud>>

\* Mutant: the head's version is not compared.
EditAnyHead(r) ==
    /\ head[r.seg].version # 0
    /\ head' = [head EXCEPT ![r.seg] = [policy |-> r.policy, version |-> @.version + 1]]
    /\ version' = r.version + 1
    /\ UNCHANGED <<status, policy, ctx, bound, batch, cloud>>

\* edit_segment after its unlocked read of the state: the head is locked and
\* compared, the state's version is written as one more than what was read.
EditSegment(r) ==
    /\ head[r.seg].version = r.head /\ r.head # 0
    /\ head' = [head EXCEPT ![r.seg] = [policy |-> r.policy, version |-> @.version + 1]]
    /\ version' = r.version + 1
    /\ UNCHANGED <<status, policy, ctx, bound, batch, cloud>>

\* Mutant: heads of another tone are good enough.
ApproveAnyTone(expected) ==
    /\ status = "waiting_for_review" /\ version = expected
    /\ \A s \in Segments : head[s].version # 0
    /\ SetStatus("approved")
    /\ UNCHANGED <<policy, ctx, bound, head, batch, cloud>>

\* approve_translation.
ApproveTranslation(expected) ==
    /\ status = "waiting_for_review" /\ version = expected
    /\ \A s \in Segments : head[s].version # 0 /\ head[s].policy = policy
    /\ SetStatus("approved")
    /\ UNCHANGED <<policy, ctx, bound, head, batch, cloud>>

CancelRow ==
    /\ IF status \in {"approved", "cancelled"} THEN UNCHANGED <<status, version>>
       ELSE SetStatus("cancelled")
    /\ UNCHANGED <<policy, ctx, bound, head, batch, cloud>>

\* publish_context asks for the status, not for the policy.
PublishContext ==
    /\ \/ status \in Later /\ ctx # "none" /\ UNCHANGED <<status, version, ctx>>
       \/ status = "context_processing" /\ SetStatus("waiting_for_context_review") /\ ctx' = "draft"
    /\ UNCHANGED <<policy, bound, head, batch, cloud>>

\* Mutant: a drafted context is as good as an approved one.
CreateFromDraft ==
    /\ ctx # "none"
    /\ batch' = IF \E i \in Ordinals : batch[policy][i] # "none" THEN batch
                ELSE [batch EXCEPT ![policy] = [i \in Ordinals |-> "pending"]]
    /\ UNCHANGED <<status, version, policy, ctx, bound, head, cloud>>

\* create_batches works for the policy of the state, whoever calls it.
CreateBatches ==
    /\ ctx = "approved"
    /\ batch' = IF \E i \in Ordinals : batch[policy][i] # "none" THEN batch
                ELSE [batch EXCEPT ![policy] = [i \in Ordinals |-> "pending"]]
    /\ UNCHANGED <<status, version, policy, ctx, bound, head, cloud>>

Translate(p, segs) ==
    /\ head' = [s \in Segments |-> IF s \in segs
                    THEN [policy |-> p, version |-> head[s].version + 1] ELSE head[s]]
    /\ cloud' = [cloud EXCEPT ![p] = [s \in Segments |-> IF s \in segs THEN @[s] + 1 ELSE @[s]]]

\* Mutant: a batch that has succeeded is published again.
PublishBatchAgain(p, i, segs) ==
    /\ policy = p
    /\ Translate(p, segs)
    /\ batch' = [batch EXCEPT ![p][i] = "succeeded"]
    /\ UNCHANGED <<status, version, policy, ctx, bound>>

\* publish_batch_result: nothing for a batch that has succeeded, a conflict for
\* one of a superseded policy, whatever the status.
PublishBatch(p, i, segs) ==
    /\ \/ batch[p][i] = "succeeded" /\ UNCHANGED <<head, batch, cloud>>
       \/ /\ batch[p][i] # "succeeded" /\ policy = p
          /\ Translate(p, segs)
          /\ batch' = [batch EXCEPT ![p][i] = "succeeded"]
    /\ UNCHANGED <<status, version, policy, ctx, bound>>

\* finalize_translation and set_translation_status look at nothing.
FinalizeRow == SetStatus("waiting_for_review") /\ UNCHANGED <<policy, ctx, bound, head, batch, cloud>>
FailRow     == SetStatus("failed") /\ UNCHANGED <<policy, ctx, bound, head, batch, cloud>>

-----------------------------------------------------------------------------
(* The workflow translation-v1.                                            *)

NextStep(job) ==
    CASE job = Step("context")  -> Step("await_context")
      [] job = Step("plan")     -> <<"batch", 1>>
      [] job = Step("finalize") -> Step("await_approval")
      [] job = Step("mark")     -> Step("closed")
      [] OTHER -> IF job[2] < Len(Plan) THEN <<"batch", job[2] + 1>> ELSE Step("finalize")

\* The run goes on to a step; "places" is where the attempts are before the
\* first or next attempt of that step starts.  What it was sent is lost when it
\* closes.
RunTo(p, to, n, places) ==
    /\ wf' = [wf EXCEPT ![p] = to]
    /\ wn' = [wn EXCEPT ![p] = n]
    /\ pc' = IF to \in Jobs THEN [places EXCEPT ![p][to][n] = "read"] ELSE places
    /\ told' = IF to \in Closed THEN [told EXCEPT ![p] = {}] ELSE told

\* An ActivityError is caught and marked, that of the mark itself ends the run.
AfterError(job) == IF job = Step("mark") THEN Step("closed") ELSE Step("mark")

\* Mutant: the retry policy has no maximum_attempts.
RetryForever(p, places) ==
    IF wn[p] < MaxAttempts[wf[p][1]] THEN RunTo(p, wf[p], wn[p] + 1, places)
    ELSE RunTo(p, wf[p], wn[p], places)

\* Mutant: one attempt more than maximum_attempts.
RetryOnceMore(p, places) ==
    IF wn[p] <= MaxAttempts[wf[p][1]] THEN RunTo(p, wf[p], wn[p] + 1, places)
    ELSE RunTo(p, AfterError(wf[p]), 1, places)

Retry(p, places) ==
    IF wn[p] < MaxAttempts[wf[p][1]] THEN RunTo(p, wf[p], wn[p] + 1, places)
    ELSE RunTo(p, AfterError(wf[p]), 1, places)

\* An attempt that is given up goes on, or has died with its worker.
Late == {a \in Policies \X Jobs \X Attempts :
            pc[a[1]][a[2]][a[3]] # "off" /\ ~(wf[a[1]] = a[2] /\ wn[a[1]] = a[3])}
GivenUp(p) ==
    {[pc EXCEPT ![p][wf[p]][wn[p]] = "off"]} \cup
    (IF Cardinality(Late) < MaxLate THEN {pc} ELSE {})

\* A cancellation ends an activity as an ActivityError, which is caught like any
\* other; in a wait and in the failure mark it ends the run.
Cancel(p) ==
    \/ wf[p] \in Jobs /\ \E places \in GivenUp(p) : RunTo(p, AfterError(wf[p]), 1, places)
    \/ wf[p] \in Waiting /\ RunTo(p, Step("closed"), 1, pc)

\* The activity missed its heartbeat or its deadline.
Timeout(p) ==
    /\ wf[p] \in Jobs
    /\ UNCHANGED <<rowVars, lot, upc, req>>
    /\ \E places \in GivenUp(p) : Retry(p, places)

\* wait_condition on a signal.
Proceed(p) ==
    /\ \/ wf[p] = Step("await_context") /\ "context" \in told[p] /\ RunTo(p, Step("plan"), 1, pc)
       \/ wf[p] = Step("await_approval") /\ "approval" \in told[p] /\ RunTo(p, Step("completed"), 1, pc)
    /\ UNCHANGED <<rowVars, lot, upc, req>>

Workflow(p) == Timeout(p) \/ Proceed(p)

-----------------------------------------------------------------------------
(* The requests of TranslationService.                                     *)

Goto(u, state, r) == upc' = [upc EXCEPT ![u] = state] /\ req' = [req EXCEPT ![u] = r]
Done(u)           == Goto(u, "idle", NoReq)
Holding(p)        == [NoReq EXCEPT !.policy = p]

\* start, up to prepare: "same" is whether provider, model and tone are those of
\* the current policy.
Prepare(u, same) ==
    /\ upc[u] = "idle"
    /\ \/ PrepareRenews(same) /\ Renew
       \/ PrepareJoins(same) /\ UNCHANGED rowVars
    /\ IF status' \in {"context_processing", "translating"} /\ bound' = 0
       THEN Goto(u, "launch", Holding(policy')) ELSE Done(u)
    /\ UNCHANGED <<runVars, pc>>

\* start_translation: REJECT_DUPLICATE, and only an open or a completed run
\* counts as started.
Launch(u) ==
    LET p == req[u].policy IN
    /\ upc[u] = "launch"
    /\ IF wf[p] = Step("none")
       THEN /\ wf' = [wf EXCEPT ![p] = Step("context")]
            /\ pc' = [pc EXCEPT ![p][Step("context")][1] = "read"]
       ELSE UNCHANGED <<wf, pc>>
    /\ IF wf[p] = Step("closed") THEN Done(u) ELSE Goto(u, "bind", req[u])
    /\ UNCHANGED <<rowVars, wn, lot, told>>

\* bind_workflow, which does not compare the policy.
Bind(u) ==
    /\ upc[u] = "bind" /\ Done(u)
    /\ bound' = IF bound = 0 THEN req[u].policy ELSE bound
    /\ UNCHANGED <<status, version, policy, ctx, head, batch, cloud, runVars, pc>>

\* The page shows a context for review: its version comes back with the approval,
\* and the policy read here is the one that is signalled.
ApproveContextRead(u) ==
    /\ upc[u] = "idle" /\ status = "waiting_for_context_review"
    /\ Goto(u, "context", [Holding(policy) EXCEPT !.version = version])
    /\ UNCHANGED <<rowVars, runVars, pc>>

ApproveContextCommit(u) ==
    /\ upc[u] = "context"
    /\ \/ ApproveContext(req[u].version) /\ Goto(u, "signal_context", Holding(req[u].policy))
       \/ ~(status = "waiting_for_context_review" /\ version = req[u].version)
          /\ Done(u) /\ UNCHANGED rowVars
    /\ UNCHANGED <<runVars, pc>>

\* The state is read without a lock and not read again; an expected version that
\* is not the head's by now never is again.
EditRead(u) ==
    /\ upc[u] = "idle" /\ status = "waiting_for_review" /\ ctx # "none"
    /\ \E s \in Segments :
          /\ head[s].version \in 1..MaxRevisions - 1
          /\ Goto(u, "edit", [policy |-> policy, version |-> version,
                              seg |-> s, head |-> head[s].version])
    /\ UNCHANGED <<rowVars, runVars, pc>>

EditCommit(u) ==
    /\ upc[u] = "edit" /\ Done(u)
    /\ \/ EditSegment(req[u])
       \/ head[req[u].seg].version # req[u].head /\ UNCHANGED rowVars
    /\ UNCHANGED <<runVars, pc>>

\* approve: the page shows a translation for review; an approval of one that is
\* approved by now changes and signals nothing, whoever finds out.
ApproveRead(u) ==
    /\ upc[u] = "idle" /\ status = "waiting_for_review"
    /\ Goto(u, "approve", [NoReq EXCEPT !.version = version])
    /\ UNCHANGED <<rowVars, runVars, pc>>

ApproveCommit(u) ==
    /\ upc[u] = "approve"
    /\ \/ ApproveTranslation(req[u].version) /\ Goto(u, "signal", Holding(policy))
       \/ /\ ~(/\ status = "waiting_for_review" /\ version = req[u].version
               /\ \A s \in Segments : head[s].version # 0 /\ head[s].policy = policy)
          /\ Done(u) /\ UNCHANGED rowVars
    /\ UNCHANGED <<runVars, pc>>

\* A signal reaches an open run; on a closed one the call raises.
Signal(u) ==
    /\ upc[u] \in {"signal_context", "signal"} /\ Done(u)
    /\ told' = IF wf[req[u].policy] \in Open
               THEN [told EXCEPT ![req[u].policy] =
                        @ \cup {IF upc[u] = "signal" THEN "approval" ELSE "context"}]
               ELSE told
    /\ UNCHANGED <<rowVars, wf, wn, lot, pc>>

\* cancel_translation of the run of the policy just read; describing a run that was
\* never started raises.
Stop(u) ==
    /\ upc[u] = "idle" /\ policy # 0 /\ status \notin {"cancelled", "approved"}
    /\ wf[policy] # Step("none")
    /\ Goto(u, "cancel", NoReq)
    /\ IF wf[policy] \in Open THEN Cancel(policy) ELSE UNCHANGED <<wf, wn, told, pc>>
    /\ UNCHANGED <<rowVars, lot>>

\* mark_cancelled: of the translation there is by now.
MarkCancelled(u) ==
    /\ upc[u] = "cancel" /\ Done(u)
    /\ CancelRow
    /\ UNCHANGED <<runVars, pc>>

\* A request dies between two of its calls; before the first that changes anything
\* that is as if it was never made.
Abandon(u) ==
    /\ upc[u] \in {"launch", "bind", "signal_context", "signal", "cancel"} /\ Done(u)
    /\ UNCHANGED <<rowVars, runVars, pc>>

Request(u) ==
    \/ u \in Editors /\ (EditRead(u) \/ EditCommit(u))
    \/ u \in Owners /\ (\/ \E same \in BOOLEAN : Prepare(u, same)
                        \/ Launch(u) \/ Bind(u)
                        \/ ApproveContextRead(u) \/ ApproveContextCommit(u)
                        \/ ApproveRead(u) \/ ApproveCommit(u) \/ Signal(u)
                        \/ Stop(u) \/ MarkCancelled(u))
    \/ Abandon(u)

-----------------------------------------------------------------------------
(* The activity attempts.                                                  *)

At(p, job, n, place) == pc[p][job][n] = place

\* The attempt goes on to its provider call or transaction.
Call(p, job, n) == pc' = [pc EXCEPT ![p][job][n] = "call"] /\ UNCHANGED runVars

\* The attempt ends, and the run that still waits for it goes on.
Report(p, job, n, outcome) ==
    LET places == [pc EXCEPT ![p][job][n] = "off"] IN
    /\ IF wf[p] # job \/ wn[p] # n
       THEN pc' = places /\ UNCHANGED <<wf, wn, told>>
       ELSE \/ outcome = "ok" /\ RunTo(p, NextStep(job), 1, places)
            \/ outcome = "retry" /\ Retry(p, places)
            \/ outcome = "fatal" /\ RunTo(p, AfterError(job), 1, places)

\* The report of a transaction that has committed; recording the usage may still
\* fail, for good.
ReportPaid(p, job, n) == \E outcome \in {"ok", "fatal"} : Report(p, job, n, outcome)

\* Likewise for finalize and mark_failed, which reconcile the budget after it.
ReportLocal(p, job, n) == \E outcome \in {"ok", "retry"} : Report(p, job, n, outcome)

ReadContext(p, n) ==
    /\ At(p, Step("context"), n, "read")
    /\ IF policy = p /\ status = "context_processing" THEN Call(p, Step("context"), n)
       ELSE /\ Report(p, Step("context"), n,
                      IF policy = p /\ status \in Later /\ ctx # "none" THEN "ok" ELSE "fatal")
            /\ UNCHANGED lot
    /\ UNCHANGED <<rowVars, upc, req>>

ExtractContext(p, n) ==
    /\ At(p, Step("context"), n, "call")
    /\ \E known \in ContextReplies :
          \/ known /\ PublishContext /\ ReportPaid(p, Step("context"), n)
          \/ /\ known => status \notin Later \cup {"context_processing"}
                         \/ (status \in Later /\ ctx = "none")
             /\ Report(p, Step("context"), n, "fatal") /\ UNCHANGED rowVars
    /\ UNCHANGED <<lot, upc, req>>

ReadPlan(p, n) ==
    /\ At(p, Step("plan"), n, "read")
    /\ IF policy = p /\ status \in {"translating", "waiting_for_review", "approved"}
       THEN Call(p, Step("plan"), n)
       ELSE Report(p, Step("plan"), n, "fatal") /\ UNCHANGED lot
    /\ UNCHANGED <<rowVars, upc, req>>

\* The batches it returns are those of the policy the state has by now.
PlanTranslation(p, n) ==
    /\ At(p, Step("plan"), n, "call")
    /\ \/ /\ CreateBatches /\ Report(p, Step("plan"), n, "ok")
          /\ lot' = IF wf[p] = Step("plan") /\ wn[p] = n THEN [lot EXCEPT ![p] = policy] ELSE lot
       \/ /\ ctx # "approved" /\ Report(p, Step("plan"), n, "retry")
          /\ UNCHANGED <<rowVars, lot>>
    /\ UNCHANGED <<upc, req>>

ReadBatch(p, i, n) ==
    /\ At(p, <<"batch", i>>, n, "read")
    /\ IF batch[lot[p]][i] # "succeeded" /\ policy = lot[p] /\ ctx = "approved"
       THEN Call(p, <<"batch", i>>, n)
       ELSE /\ Report(p, <<"batch", i>>, n,
                      IF batch[lot[p]][i] = "succeeded" THEN "ok" ELSE "fatal")
            /\ UNCHANGED lot
    /\ UNCHANGED <<rowVars, upc, req>>

TranslateBatch(p, i, n) ==
    /\ At(p, <<"batch", i>>, n, "call")
    /\ \/ \E segs \in Accepted[i] :
             PublishBatch(lot[p], i, segs) /\ ReportPaid(p, <<"batch", i>>, n)
       \/ /\ batch[lot[p]][i] # "succeeded"  \* superseded, or a reply that is not valid
          /\ Report(p, <<"batch", i>>, n, "fatal") /\ UNCHANGED rowVars
    /\ UNCHANGED <<lot, upc, req>>

Finalize(p, n) ==
    /\ At(p, Step("finalize"), n, "read")
    /\ FinalizeRow /\ ReportLocal(p, Step("finalize"), n)
    /\ UNCHANGED <<lot, upc, req>>

MarkFailed(p, n) ==
    /\ At(p, Step("mark"), n, "read")
    /\ FailRow /\ ReportLocal(p, Step("mark"), n)
    /\ UNCHANGED <<lot, upc, req>>

\* Any call may raise; the provider's errors may be final.
Raise(p, job, n) ==
    /\ ~At(p, job, n, "off")
    /\ \E outcome \in IF job[1] \in {"context", "batch"} THEN ProviderErrors ELSE {"retry"} :
          Report(p, job, n, outcome)
    /\ UNCHANGED <<rowVars, lot, upc, req>>

Attempt(p, n) ==
    \/ ReadContext(p, n) \/ ExtractContext(p, n) \/ ReadPlan(p, n) \/ PlanTranslation(p, n)
    \/ \E i \in Ordinals : ReadBatch(p, i, n) \/ TranslateBatch(p, i, n)
    \/ Finalize(p, n) \/ MarkFailed(p, n)
    \/ \E job \in Jobs : Raise(p, job, n)

-----------------------------------------------------------------------------

Next ==
    \/ \E u \in Users : Request(u)
    \/ \E p \in Policies : Workflow(p) \/ (\E n \in Attempts : Attempt(p, n))

Spec == Init /\ [][Next]_vars

\* Temporal fires timeouts and delivers what a run was sent; the attempts and the
\* users may stop for good.
FairSpec == Spec /\ \A p \in Policies : WF_vars(Workflow(p))

-----------------------------------------------------------------------------
(* Properties.                                                             *)

\* Transcripts of at most four segments: gaps of 0 or 1 before segments that last
\* up to one more than a batch may.
Laid(gap, dur) ==
    LET at[i \in 0..Len(dur)] == IF i = 0 THEN 0 ELSE at[i - 1] + gap[i] + dur[i]
    IN  [start |-> [i \in 1..Len(dur) |-> at[i] - dur[i]], end |-> [i \in 1..Len(dur) |-> at[i]]]
Transcripts ==
    UNION {{Laid(gap, dur) : gap \in [1..n -> 0..1], dur \in [1..n -> 1..MaxSpan + 1]} : n \in 1..4}

\* A batch of the segments b..e is paid for as one request.
Allowed(start, end, b, e) == b = e \/ ~Beyond(start, end, b, e)

\* Batches that own every segment, in order and within the limits, such that no
\* other way to cut the transcript takes fewer of them.
IsFewest(start, end, plan) ==
    LET n == Len(start)
        Ends(cuts, b) == CHOOSE e \in cuts \cup {n} : e >= b /\ \A f \in cuts : f >= b => f >= e
    IN  /\ plan[1].first = 1 /\ plan[Len(plan)].last = n
        /\ \A k \in 1..Len(plan) : /\ Allowed(start, end, plan[k].first, plan[k].last)
                                   /\ k > 1 => plan[k].first = plan[k - 1].last + 1
        /\ \A cuts \in SUBSET (1..n - 1) :
              (\A b \in {1} \cup {c + 1 : c \in cuts} : Allowed(start, end, b, Ends(cuts, b)))
                 => Len(plan) <= Cardinality(cuts) + 1

\* plan_translation_batches owns every segment once and wastes no request.  It is
\* evaluated where a request is about to launch the first run.
PlanIsFewest ==
    policy = 1 /\ version = 1 /\ (\E u \in Users : upc[u] = "launch") =>
        \A t \in Transcripts : IsFewest(t.start, t.end, PlanBatches(t.start, t.end))

\* approve and the speech that follows rest on it: an approved translation is
\* complete in the tone of its policy, although attempts and edits that began
\* under an earlier policy may land at any time.
ApprovedIsComplete ==
    status = "approved" => \A s \in Segments : head[s].policy = policy

\* Over all retries, given-up attempts and runs that were handed the same batches,
\* a batch has either published the provider's text of each of its segments once,
\* or of none.
PublishedOnce ==
    \A p \in Policies, i \in Ordinals : \A s \in Owned(i) :
        cloud[p][s] = IF batch[p][i] = "succeeded" THEN 1 ELSE 0

\* Nothing is sent for translation before a user approved this context: the
\* batches of the current policy exist only under its approved context.
BatchesNeedApproval ==
    policy # 0 /\ (\E i \in Ordinals : batch[policy][i] # "none") => ctx = "approved"

\* No late edit or attempt puts a segment back to the tone of an older policy.
HeadNeverRegresses ==
    [][\A s \in Segments : head'[s].policy >= head[s].policy]_vars

\* Whatever becomes of its attempts, a run gets to one of its waits or closes.
RunSettles ==
    \A p \in Policies : wf[p] \in Jobs ~> wf[p] \in Waiting \cup Closed

=============================================================================
