------------------------ MODULE MediaPipelineProofs ------------------------
(***************************************************************************)
(* Proofs about the ingest pipeline: type correctness, the invariants its  *)
(* runs check, and that it implements ArtifactCatalog, for any number of   *)
(* uploads, requests, attempts and sizes.                                  *)
(*                                                                         *)
(* The ledger's part is inherited: every step is a transaction of          *)
(* LedgerSpec or leaves the rows alone (StepIsTransaction).                *)
(***************************************************************************)
EXTENDS MediaPipeline, UploadLedgerProofs

\* What an attempt carries from one store call to the next is real: a content
\* it downloaded, a size a HEAD reported.
Handoff ==
    \A k \in Keys, s \in Stages, n \in Attempts :
        /\ s = "validate" /\ apc[k][s][n] \in {"measure", "register"} =>
               seen[k][s][n] \in Contents
        /\ apc[k][s][n] = "register" => length[k][s][n] \in Sizes

\* An attempt that is about to report success has a published row behind it,
\* whether it published the row itself or found it, and so has the workflow.
Published ==
    /\ \A k \in Keys, n \in Attempts :
           /\ apc[k]["validate"][n] \in {"ok", "finish"} => original[k] # 0
           /\ apc[k]["proxy"][n] \in {"ok", "finish"} => proxy[k] # 0
    /\ \A k \in Keys : wf[k] = "completed" => proxy[k] # 0
    /\ SucceededStagePublished

\* Only attempts remove a sealed object, and before the workflow starts there
\* are none; until then a request that got past the copy has one in place.
Sealing ==
    /\ \A k \in Keys, s \in Stages, n \in Attempts : wf[k] = "none" => apc[k][s][n] = "off"
    /\ \A c \in Requests : rpc[c] \in {"verify", "drop", "mark"} /\ wf[rkey[c]] = "none" =>
           sealed[rkey[c]] # None
    /\ ReceivedIsSealed

Inv ==
    /\ LedgerInv
    /\ ProcessTypeOK
    /\ Handoff
    /\ Published
    /\ Sealing

-----------------------------------------------------------------------------
(* Every step is a transaction of the ledger.                              *)

\* Attempts are positive numbers, the first one among them.
LEMMA AttemptsFacts ==
    /\ Attempts \subseteq Nat \ {0}
    /\ 1 \in Attempts
    /\ \A s \in Stages, n \in Nat \ {0} : n <= MaxAttempts[s] => n \in Attempts
  <1>1. \A s \in Stages : MaxAttempts[s] \in Nat \ {0}
    BY AttemptsAreBounded
  <1>2. "validate" \in Stages
    BY DEF Stages
  <1> QED
    BY <1>1, <1>2 DEF Attempts

\* Every step of the pipeline is one transaction of the ledger, or changes no
\* row: the ledger's theorems hold of the pipeline.
LEMMA StepIsTransaction ==
    ASSUME ProcessTypeOK, Handoff, [Next]_vars
    PROVE  [LedgerNext]_ledgerVars
  <1> USE DEF ProcessTypeOK
  <1>1. CASE UNCHANGED vars
    BY <1>1 DEF vars
  <1>2. ASSUME NEW k \in Keys, Create(k) \/ Replay(k) \/ Tick(k) \/ MarkFailed(k)
        PROVE  LedgerNext
    BY <1>2, Zenon DEF Create, Replay, Tick, MarkFailed, LedgerNext
  <1>3. ASSUME NEW k \in Keys, Put(k) \/ Workflow(k)
        PROVE  UNCHANGED ledgerVars
    BY <1>3, Zenon DEF Put, Workflow, Advance, Timeout, EndMark
  <1>4. ASSUME NEW c \in Requests, Complete(c)
        PROVE  LedgerNext \/ UNCHANGED ledgerVars
    <2>1. rpc[c] \in {"mark", "reject"} => rkey[c] \in Keys
      OBVIOUS
    <2>2. ASSUME MarkReceived(c) \/ RejectIntent(c) PROVE LedgerNext
      BY <2>1, <2>2 DEF MarkReceived, RejectIntent, LedgerNext
    <2> QED
      BY <1>4, <2>2, Zenon DEF Complete, ReadIntent, SealHead, SealCopy, SealVerify, SealDrop,
         StartIngest, Abandon
  <1>5. ASSUME NEW k \in Keys, NEW n \in Attempts, Attempt(k, n)
        PROVE  LedgerNext \/ UNCHANGED ledgerVars
    <2>1. "validating" \in MediaStates \ {"ready"} /\ "failed" \in MediaStates \ {"ready"}
          /\ "proxy_generating" \in MediaStates \ {"ready"}
          /\ "succeeded" \in StageStates /\ "failed" \in StageStates
          /\ "validate" \in Stages /\ "proxy" \in Stages
      BY DEF MediaStates, StageStates, Stages
    <2>2. ASSUME NEW s \in Stages, Begin(k, s, n) \/ Announce(k, s, n) \/ Finish(k, s, n)
                                   \/ Transient(k, s, n) \/ Fail(k, s, n)
          PROVE  LedgerNext
      BY <2>1, <2>2, Zenon DEF Begin, Announce, Finish, Transient, Fail, Commit, LedgerNext
    <2>3. ASSUME NEW s \in Stages, Measure(k, s, n) \/ Raise(k, s, n)
          PROVE  UNCHANGED ledgerVars
      BY <2>3, Zenon DEF Measure, Raise, Continue
    <2>4. ASSUME PublishOriginal(k, n) PROVE LedgerNext \/ UNCHANGED ledgerVars
      <3>1. apc[k]["validate"][n] = "register"
        BY <2>4 DEF PublishOriginal, At
      <3>2. length[k]["validate"][n] \in Sizes /\ seen[k]["validate"][n] \in Contents
        BY <2>1, <3>1 DEF Handoff
      <3> QED
        BY <2>4, <3>2, Zenon DEF PublishOriginal, Commit, Continue, LedgerNext
    <2>5. ASSUME PublishProxy(k, n) PROVE LedgerNext \/ UNCHANGED ledgerVars
      <3>1. apc[k]["proxy"][n] = "register"
        BY <2>5 DEF PublishProxy, At
      <3>2. length[k]["proxy"][n] \in Sizes
        BY <2>1, <3>1 DEF Handoff
      <3> QED
        BY <2>5, <3>2, Zenon DEF PublishProxy, Commit, Continue, LedgerNext
    <2>6. ASSUME RejectMedia(k, n) \/ EnsureProxyId(k, n) \/ FailMedia(k, n)
          PROVE  LedgerNext
      BY <2>1, <2>6, Zenon DEF RejectMedia, EnsureProxyId, FailMedia, Commit, LedgerNext
    <2>7. ASSUME ValidateRead(k, n) \/ Download(k, n) \/ DeleteSealed(k, n) \/ ProxyRead(k, n)
                 \/ Encode(k, n) \/ UploadProxy(k, n) \/ DeleteProxy(k, n)
          PROVE  UNCHANGED ledgerVars
      BY <2>7, Zenon DEF ValidateRead, Download, DeleteSealed, ProxyRead, Encode, UploadProxy,
         DeleteProxy, Continue
    <2> QED
      BY <1>5, <2>2, <2>3, <2>4, <2>5, <2>6, <2>7, Zenon DEF Attempt
  <1> QED
    BY <1>1, <1>2, <1>3, <1>4, <1>5, Zenon DEF Next

-----------------------------------------------------------------------------
(* What a step does to the rows, as far as the processes' part of Inv can    *)
(* tell: published rows stay and no upload turns OBJECT_RECEIVED.            *)

Rows ==
    /\ LedgerInv' /\ [LedgerNext]_ledgerVars
    /\ \A k \in Keys : istate'[k] = "object_received" => istate[k] = "object_received"
    /\ \A k \in Keys, s \in Stages, n \in Attempts :
           stage'[k][s][n] = "succeeded" =>
               \/ stage[k][s][n] = "succeeded"
               \/ s = "validate" /\ original'[k] # 0
               \/ s = "proxy" /\ proxy'[k] # 0

\* The two stages of the ingest.
LEMMA StageNames == Stages = {"validate", "proxy"} /\ "validate" \in Stages /\ "proxy" \in Stages
  BY DEF Stages

\* A published row stays, so what stands for it keeps standing for it.
LEMMA SucceededStays ==
    ASSUME Inv, Rows
    PROVE  SucceededStagePublished'
  <1>1. ASSUME NEW k \in Keys
        PROVE  (original[k] # 0 => original'[k] # 0) /\ (proxy[k] # 0 => proxy'[k] # 0)
    BY <1>1, RowsStay DEF Inv, Rows
  <1> QED
    BY <1>1, StageNames DEF Inv, Rows, Published, SucceededStagePublished

\* An attempt moves on to pc with nothing in its hands.
LEMMA MoveStep ==
    ASSUME Inv, Rows,
           NEW k \in Keys, NEW s \in Stages, NEW n \in Attempts,
           NEW pc \in AttemptPCs \ {"register"},
           ~(s = "validate" /\ pc = "measure"),
           apc[k][s][n] # "off", Move(k, s, n, pc),
           UNCHANGED <<staging, requestVars, runVars>>,
           proxyObj' \in [Keys -> Attempts \cup {0}],
           sealed' \in [Keys -> Contents \cup {None}],
           \A j \in Keys \ {k} : sealed'[j] = sealed[j],
           s = "validate" /\ pc \in {"ok", "finish"} => original'[k] # 0,
           s = "proxy" /\ pc \in {"ok", "finish"} => proxy'[k] # 0
    PROVE  Inv'
  <1> USE DEF Inv, ProcessTypeOK, Move, requestVars, runVars
  <1>1. ProcessTypeOK'
    OBVIOUS
  <1>2. Handoff'
    BY DEF Handoff
  <1>3. Published'
    <2>1. ASSUME NEW j \in Keys
          PROVE  (original[j] # 0 => original'[j] # 0) /\ (proxy[j] # 0 => proxy'[j] # 0)
      BY <2>1, RowsStay DEF Rows
    <2> QED
      BY <2>1, SucceededStays, StageNames DEF Published
  <1>4. Sealing'
    <2>1. wf[k] # "none"
      BY DEF Sealing
    <2>2. ASSUME NEW c \in Requests, rpc[c] \in {"verify", "drop", "mark"}, wf[rkey[c]] = "none"
          PROVE  sealed'[rkey[c]] # None
      BY <2>1, <2>2 DEF Sealing
    <2> QED
      BY <2>1, <2>2 DEF Sealing, ReceivedIsSealed, Rows
  <1> QED
    BY <1>1, <1>2, <1>3, <1>4 DEF Rows

-----------------------------------------------------------------------------
(* The steps of the attempts.                                              *)

\* A transaction that finishes no stage and receives no upload.
LEMMA QuietRows ==
    ASSUME Inv, [LedgerNext]_ledgerVars,
           \A k \in Keys : istate'[k] = "object_received" => istate[k] = "object_received",
           \A k \in Keys, s \in Stages, n \in Attempts :
               stage'[k][s][n] = "succeeded" => stage[k][s][n] = "succeeded"
    PROVE  Rows
  BY StepInv DEF Inv, Rows

\* The steps that both activities share and that touch a stage row or a status.
LEMMA StageSteps ==
    ASSUME Inv, [LedgerNext]_ledgerVars,
           NEW k \in Keys, NEW s \in Stages, NEW n \in Attempts,
           \/ Begin(k, s, n) \/ Announce(k, s, n) \/ Finish(k, s, n)
           \/ Transient(k, s, n) \/ Fail(k, s, n)
    PROVE  Inv'
  <1> USE DEF At, Commit, Continue, storeVars
  <1>1. /\ UNCHANGED <<staging, sealed, proxyObj, requestVars, runVars>>
        /\ proxyObj \in [Keys -> Attempts \cup {0}]
        /\ sealed \in [Keys -> Contents \cup {None}]
    BY DEF Inv, ProcessTypeOK, Begin, Announce, Finish, Transient, Fail
  <1>2. CASE Begin(k, s, n)
    <2>1. Rows
      BY <1>2, QuietRows DEF Begin, BeginStage, intentVars, Inv, LedgerInv, LedgerTypeOK
    <2>2. apc[k][s][n] # "off" /\ Move(k, s, n, "status")
      BY <1>2 DEF Begin
    <2> QED
      BY <1>1, <2>1, <2>2, MoveStep DEF AttemptPCs
  <1>3. CASE Announce(k, s, n)
    <2>1. Rows
      BY <1>3, QuietRows DEF Announce, SetMediaStatus, intentVars
    <2>2. /\ apc[k][s][n] # "off"
          /\ Move(k, s, n, "download") \/ Move(k, s, n, "encode")
      BY <1>3 DEF Announce
    <2> QED
      BY <1>1, <2>1, <2>2, MoveStep DEF AttemptPCs
  <1>4. CASE Finish(k, s, n)
    <2>1. /\ s = "validate" => original[k] # 0 /\ original'[k] # 0
          /\ s = "proxy" => proxy[k] # 0 /\ proxy'[k] # 0
      BY <1>4 DEF Finish, FinishStage, Inv, Published, rowVars
    <2>2. Rows
      <3>1. \A j \in Keys, t \in Stages, m \in Attempts :
                stage'[j][t][m] = "succeeded" =>
                    stage[j][t][m] = "succeeded" \/ (j = k /\ t = s)
        BY <1>4 DEF Finish, FinishStage, Inv, LedgerInv, LedgerTypeOK
      <3>2. UNCHANGED istate
        BY <1>4 DEF Finish, FinishStage, intentVars
      <3> QED
        BY <2>1, <3>1, <3>2, StepInv, StageNames DEF Inv, Rows
    <2>3. apc[k][s][n] # "off" /\ Move(k, s, n, "ok")
      BY <1>4 DEF Finish
    <2> QED
      BY <1>1, <2>1, <2>2, <2>3, MoveStep DEF AttemptPCs, Outcomes
  <1>5. CASE Transient(k, s, n)
    <2>1. Rows
      BY <1>5, QuietRows DEF Transient, FinishStage, intentVars, Inv, LedgerInv, LedgerTypeOK
    <2>2. apc[k][s][n] # "off" /\ Move(k, s, n, "retry")
      BY <1>5 DEF Transient
    <2> QED
      BY <1>1, <2>1, <2>2, MoveStep DEF AttemptPCs, Outcomes
  <1>6. CASE Fail(k, s, n)
    <2>1. Rows
      BY <1>6, QuietRows DEF Fail, FinishStage, intentVars, Inv, LedgerInv, LedgerTypeOK
    <2>2. /\ apc[k][s][n] # "off"
          /\ Move(k, s, n, "fatal") \/ Move(k, s, n, "failStatus")
      BY <1>6 DEF Fail
    <2> QED
      BY <1>1, <2>1, <2>2, MoveStep DEF AttemptPCs, Outcomes
  <1> QED
    BY <1>2, <1>3, <1>4, <1>5, <1>6

\* A step that holds nothing and changes no row.
LEMMA ContinueStep ==
    ASSUME Inv, NEW k \in Keys, NEW s \in Stages, NEW n \in Attempts,
           NEW pc \in AttemptPCs \ {"register"}, ~(s = "validate" /\ pc = "measure"),
           apc[k][s][n] # "off", Continue(k, s, n, pc),
           s = "validate" /\ pc \in {"ok", "finish"} => original[k] # 0,
           s = "proxy" /\ pc \in {"ok", "finish"} => proxy[k] # 0
    PROVE  Inv'
  <1>1. UNCHANGED ledgerVars /\ UNCHANGED <<istate, stage, original, proxy>>
    BY DEF Continue, ledgerVars, intentVars, rowVars
  <1>2. Rows
    BY <1>1, QuietRows
  <1> QED
    BY <1>1, <1>2, MoveStep DEF Continue, storeVars, Inv, ProcessTypeOK

\* An attempt whose call raises keeps the invariant.
LEMMA RaiseStep ==
    ASSUME Inv, NEW k \in Keys, NEW s \in Stages, NEW n \in Attempts, Raise(k, s, n)
    PROVE  Inv'
  <1>1. PICK pc \in Handler(s, apc[k][s][n]) : Continue(k, s, n, pc)
    BY DEF Raise
  <1>2. pc \in {"transient", "cleanup", "retry"} /\ apc[k][s][n] # "off"
    <2>1. Handler(s, apc[k][s][n]) \in {{"transient"}, {"cleanup"}, {"retry"}, {}}
      BY DEF Handler
    <2>2. Handler(s, "off") = {}
      BY DEF Handler
    <2> QED
      BY <1>1, <2>1, <2>2
  <1> QED
    BY <1>1, <1>2, ContinueStep DEF AttemptPCs, Outcomes

\* The steps that put something in an attempt's hands.
LEMMA DownloadStep ==
    ASSUME Inv, NEW k \in Keys, NEW n \in Attempts, Download(k, n)
    PROVE  Inv'
  <1> USE StageNames DEF Download, At
  <1>1. CASE Continue(k, "validate", n, "transient") \/ Continue(k, "validate", n, "delete")
    BY <1>1, ContinueStep DEF AttemptPCs, Outcomes
  <1>2. CASE /\ sealed[k] # None
             /\ apc' = [apc EXCEPT ![k]["validate"][n] = "measure"]
             /\ seen' = [seen EXCEPT ![k]["validate"][n] = sealed[k]]
             /\ UNCHANGED <<ledgerVars, storeVars, requestVars, runVars, length>>
    <2> USE <1>2 DEF Inv, storeVars, requestVars, runVars
    <2>1. LedgerInv'
      BY StepInv
    <2>2. ProcessTypeOK'
      BY DEF ProcessTypeOK, AttemptPCs
    <2>3. Handoff'
      BY DEF Handoff, ProcessTypeOK
    <2>4. Published'
      BY DEF Published, SucceededStagePublished, ProcessTypeOK, ledgerVars, rowVars
    <2>5. Sealing'
      BY DEF Sealing, ReceivedIsSealed, ProcessTypeOK, ledgerVars, intentVars
    <2> QED
      BY <2>1, <2>2, <2>3, <2>4, <2>5
  <1> QED
    BY <1>1, <1>2

\* A HEAD puts a size of the catalog in an attempt's hands.
LEMMA MeasureStep ==
    ASSUME Inv, NEW k \in Keys, NEW s \in Stages, NEW n \in Attempts, Measure(k, s, n)
    PROVE  Inv'
  <1> USE StageNames DEF Measure, At
  <1>1. CASE Continue(k, s, n, IF s = "validate" THEN "delete" ELSE "fail")
    BY <1>1, ContinueStep DEF AttemptPCs, Outcomes
  <1>2. CASE /\ \E bytes \in HeadSizes(k, s) : length' = [length EXCEPT ![k][s][n] = bytes]
             /\ apc' = [apc EXCEPT ![k][s][n] = "register"]
             /\ UNCHANGED <<ledgerVars, storeVars, requestVars, runVars, seen>>
    <2> USE <1>2 DEF Inv, storeVars, requestVars, runVars
    <2>1. HeadSizes(k, s) \subseteq Sizes /\ Sizes \subseteq Nat
      BY ContentsHaveSizes, SizesAreBytes DEF HeadSizes, ProcessTypeOK
    <2>2. PICK bytes \in Sizes : length' = [length EXCEPT ![k][s][n] = bytes]
      BY <2>1
    <2>3. LedgerInv'
      BY StepInv
    <2>4. ProcessTypeOK'
      BY <2>1, <2>2 DEF ProcessTypeOK, AttemptPCs
    <2>5. Handoff'
      BY <2>2 DEF Handoff, ProcessTypeOK
    <2>6. Published'
      BY DEF Published, SucceededStagePublished, ProcessTypeOK, ledgerVars, rowVars
    <2>7. Sealing'
      BY DEF Sealing, ReceivedIsSealed, ProcessTypeOK, ledgerVars, intentVars
    <2> QED
      BY <2>3, <2>4, <2>5, <2>6, <2>7
  <1> QED
    BY <1>1, <1>2

\* The steps of validate-original-media-v1 keep the invariant.
LEMMA ValidateSteps ==
    ASSUME Inv, [LedgerNext]_ledgerVars, NEW k \in Keys, NEW n \in Attempts,
           \/ ValidateRead(k, n) \/ Download(k, n) \/ PublishOriginal(k, n)
           \/ DeleteSealed(k, n) \/ RejectMedia(k, n)
    PROVE  Inv'
  <1> USE StageNames DEF At, Commit
  <1>1. CASE ValidateRead(k, n)
    BY <1>1, ContinueStep DEF ValidateRead, AttemptPCs, Outcomes
  <1>2. CASE Download(k, n)
    BY <1>2, DownloadStep
  <1>3. CASE PublishOriginal(k, n)
    <2> DEFINE bytes == length[k]["validate"][n]
    <2>1. CASE Continue(k, "validate", n, "delete")
      BY <1>3, <2>1, ContinueStep DEF PublishOriginal, AttemptPCs
    <2>2. CASE Commit(k, "validate", n, "finish",
                      RegisterOriginal(k, bytes, seen[k]["validate"][n]))
      <3>1. bytes \in Nat \ {0}
        BY <1>3, SizesAreBytes DEF PublishOriginal, Inv, Handoff
      <3>2. original'[k] # 0
        BY <2>2, <3>1 DEF RegisterOriginal, ledgerVars, rowVars, Inv, LedgerInv, LedgerTypeOK
      <3>3. Rows
        BY <2>2, QuietRows DEF RegisterOriginal, ledgerVars, intentVars, Inv, LedgerInv, LedgerTypeOK
      <3> QED
        BY <1>3, <2>2, <3>2, <3>3, MoveStep
        DEF PublishOriginal, AttemptPCs, Inv, ProcessTypeOK, storeVars
    <2> QED
      BY <1>3, <2>1, <2>2 DEF PublishOriginal
  <1>4. CASE DeleteSealed(k, n)
    <2>1. Rows
      BY <1>4, QuietRows DEF DeleteSealed, ledgerVars, intentVars
    <2>2. /\ apc[k]["validate"][n] # "off" /\ Move(k, "validate", n, "reject")
          /\ UNCHANGED <<staging, proxyObj, requestVars, runVars>>
      BY <1>4 DEF DeleteSealed
    <2>3. /\ sealed' \in [Keys -> Contents \cup {None}]
          /\ \A j \in Keys \ {k} : sealed'[j] = sealed[j]
          /\ proxyObj' \in [Keys -> Attempts \cup {0}]
      BY <1>4 DEF DeleteSealed, Inv, ProcessTypeOK
    <2> QED
      BY <2>1, <2>2, <2>3, MoveStep DEF AttemptPCs
  <1>5. CASE RejectMedia(k, n)
    <2>1. Rows
      BY <1>5, QuietRows DEF RejectMedia, RejectUpload, Inv, LedgerInv, LedgerTypeOK
    <2> QED
      BY <1>5, <2>1, MoveStep DEF RejectMedia, AttemptPCs, Inv, ProcessTypeOK, storeVars
  <1> QED
    BY <1>1, <1>2, <1>3, <1>4, <1>5

\* The steps of generate-proxy-media-v1 keep the invariant.
LEMMA ProxySteps ==
    ASSUME Inv, [LedgerNext]_ledgerVars, NEW k \in Keys, NEW n \in Attempts,
           \/ ProxyRead(k, n) \/ EnsureProxyId(k, n) \/ Encode(k, n) \/ UploadProxy(k, n)
           \/ PublishProxy(k, n) \/ DeleteProxy(k, n) \/ FailMedia(k, n)
    PROVE  Inv'
  <1> USE StageNames DEF At, Commit
  <1>1. CASE ProxyRead(k, n)
    <2>1. mstatus[k] = "ready" => proxy[k] # 0
      BY DEF Inv, LedgerInv, ReadyHasLineage
    <2> QED
      BY <1>1, <2>1, ContinueStep DEF ProxyRead, AttemptPCs, Outcomes
  <1>2. CASE EnsureProxyId(k, n)
    <2>1. Rows
      BY <1>2, QuietRows DEF EnsureProxyId, EnsureProxyArtifactId, intentVars
    <2> QED
      BY <1>2, <2>1, MoveStep DEF EnsureProxyId, AttemptPCs, Inv, ProcessTypeOK, storeVars
  <1>3. CASE Encode(k, n)
    BY <1>3, ContinueStep DEF Encode, AttemptPCs
  <1>4. CASE UploadProxy(k, n)
    <2>1. Rows
      BY <1>4, QuietRows DEF UploadProxy, ledgerVars, intentVars
    <2> QED
      BY <1>4, <2>1, MoveStep DEF UploadProxy, AttemptPCs, Inv, ProcessTypeOK
  <1>5. CASE PublishProxy(k, n)
    <2> DEFINE bytes == length[k]["proxy"][n]
    <2>1. CASE Continue(k, "proxy", n, "discard")
      BY <1>5, <2>1, ContinueStep DEF PublishProxy, AttemptPCs
    <2>2. ASSUME NEW pc \in {"finish", "cleanup"},
                 Commit(k, "proxy", n, pc, RegisterProxy(k, bytes))
          PROVE  Inv'
      <3>1. bytes \in Nat \ {0}
        BY <1>5, SizesAreBytes DEF PublishProxy, Inv, Handoff
      <3>2. proxy'[k] # 0
        BY <2>2, <3>1 DEF RegisterProxy, ledgerVars, rowVars, Inv, LedgerInv, LedgerTypeOK
      <3>3. Rows
        BY <2>2, QuietRows DEF RegisterProxy, ledgerVars, intentVars
      <3> QED
        BY <1>5, <2>2, <3>2, <3>3, MoveStep
        DEF PublishProxy, AttemptPCs, Inv, ProcessTypeOK, storeVars
    <2> QED
      BY <1>5, <2>1, <2>2 DEF PublishProxy
  <1>6. CASE DeleteProxy(k, n)
    <2>1. Rows
      BY <1>6, QuietRows DEF DeleteProxy, ledgerVars, intentVars
    <2> QED
      BY <1>6, <2>1, MoveStep DEF DeleteProxy, AttemptPCs, Inv, ProcessTypeOK
  <1>7. CASE FailMedia(k, n)
    <2>1. Rows
      BY <1>7, QuietRows DEF FailMedia, SetMediaStatus, intentVars
    <2> QED
      BY <1>7, <2>1, MoveStep DEF FailMedia, AttemptPCs, Outcomes, Inv, ProcessTypeOK, storeVars
  <1> QED
    BY <1>1, <1>2, <1>3, <1>4, <1>5, <1>6, <1>7

-----------------------------------------------------------------------------
(* The steps of the workflow, the requests, the browser.                   *)

\* Scheduling, giving up and ending keep the invariant: a workflow completes
\* only behind a proxy attempt that reported success.
LEMMA WorkflowSteps ==
    ASSUME Inv, NEW k \in Keys, Workflow(k)
    PROVE  Inv'
  <1> USE DEF Inv
  <1>1. UNCHANGED <<ledgerVars, storeVars, requestVars, seen, length>>
    BY DEF Workflow, Advance, Timeout, EndMark
  <1>2. LedgerInv'
    BY <1>1, StepInv
  <1>3. wf[k] # "none" /\ wf[k] # "completed"
    BY DEF Workflow, Advance, Timeout, EndMark, Stages
  <1>4. ASSUME NEW s \in Stages, NEW n \in Attempts, Schedule(k, s, n)
        PROVE  Inv'
    <2>1. ProcessTypeOK'
      BY <1>1, <1>4, StageNames
      DEF ProcessTypeOK, Schedule, storeVars, requestVars, AttemptPCs, WfStates
    <2>2. Handoff'
      BY <1>1, <1>4 DEF Handoff, Schedule, ProcessTypeOK
    <2>3. Published'
      BY <1>1, <1>4, StageNames
      DEF Published, SucceededStagePublished, Schedule, ProcessTypeOK, ledgerVars, rowVars
    <2>4. Sealing'
      BY <1>1, <1>3, <1>4, StageNames
      DEF Sealing, ReceivedIsSealed, Schedule, ProcessTypeOK, ledgerVars, intentVars,
          storeVars, requestVars
    <2> QED
      BY <1>2, <2>1, <2>2, <2>3, <2>4
  <1>5. ASSUME NEW state \in {"mark", "completed", "failed"}, EndWith(k, state),
               state = "completed" => proxy[k] # 0
        PROVE  Inv'
    <2>1. ProcessTypeOK'
      BY <1>1, <1>5 DEF ProcessTypeOK, EndWith, storeVars, requestVars, WfStates
    <2>2. Handoff'
      BY <1>1, <1>5 DEF Handoff, EndWith
    <2>3. Published'
      BY <1>1, <1>5
      DEF Published, SucceededStagePublished, EndWith, ProcessTypeOK, ledgerVars, rowVars
    <2>4. Sealing'
      BY <1>1, <1>3, <1>5
      DEF Sealing, ReceivedIsSealed, EndWith, ProcessTypeOK, ledgerVars, intentVars,
          storeVars, requestVars
    <2> QED
      BY <1>2, <2>1, <2>2, <2>3, <2>4
  <1>6. ASSUME wf[k] \in Stages, Retry(k) PROVE Inv'
    <2>1. CASE wn[k] < MaxAttempts[wf[k]]
      <3>1. wn[k] + 1 \in Attempts
        <4>1. wn[k] \in Attempts
          BY DEF ProcessTypeOK
        <4>2. wn[k] \in Nat \ {0} /\ MaxAttempts[wf[k]] \in Nat \ {0}
          BY <1>6, <4>1, AttemptsFacts, AttemptsAreBounded
        <4>3. wn[k] + 1 \in Nat \ {0} /\ wn[k] + 1 <= MaxAttempts[wf[k]]
          BY <2>1, <4>2
        <4> QED
          BY <1>6, <4>3, AttemptsFacts
      <3> QED
        BY <1>4, <1>6, <2>1, <3>1 DEF Retry
    <2>2. CASE ~(wn[k] < MaxAttempts[wf[k]])
      BY <1>5, <1>6, <2>2 DEF Retry
    <2> QED
      BY <2>1, <2>2
  <1>7. CASE Advance(k)
    <2>1. CASE Outcome(k) = "ok" /\ wf[k] = "validate" /\ Schedule(k, "proxy", 1)
      BY <1>4, <2>1, StageNames, AttemptsFacts
    <2>2. CASE Outcome(k) = "ok" /\ wf[k] = "proxy" /\ EndWith(k, "completed")
      <3>1. proxy[k] # 0
        BY <2>2 DEF Outcome, Published, ProcessTypeOK
      <3> QED
        BY <1>5, <2>2, <3>1
    <2>3. CASE Outcome(k) = "retry" /\ Retry(k)
      BY <1>6, <1>7, <2>3 DEF Advance
    <2>4. CASE Outcome(k) = "fatal" /\ EndWith(k, "mark")
      BY <1>5, <2>4
    <2> QED
      BY <1>7, <2>1, <2>2, <2>3, <2>4 DEF Advance
  <1>8. CASE Timeout(k)
    BY <1>6, <1>8 DEF Timeout
  <1>9. CASE EndMark(k)
    BY <1>5, <1>9 DEF EndMark
  <1> QED
    BY <1>7, <1>8, <1>9 DEF Workflow

\* A step of a request, which leaves the attempts and the workflows alone.
LEMMA RequestSteps ==
    ASSUME Inv, [LedgerNext]_ledgerVars, NEW c \in Requests, Complete(c)
    PROVE  Inv'
  <1> DEFINE k == rkey[c]
  <1> USE DEF Inv
  <1>1. LedgerInv'
    BY StepInv
  <1>2. rpc[c] \notin {"idle", "done"} => k \in Keys
    BY DEF ProcessTypeOK
  \* Where a request goes, and which object it leaves behind.
  <1>3. ASSUME NEW j \in Keys, NEW pc \in RequestPCs,
               rpc' = [rpc EXCEPT ![c] = pc],
               rkey' = [rkey EXCEPT ![c] = j] \/ (pc = "done" /\ rkey' = [rkey EXCEPT ![c] = None]),
               staging' \in [Keys -> Contents \cup {None}],
               sealed' \in [Keys -> Contents \cup {None}],
               \A i \in Keys : sealed[i] # None => sealed'[i] # None,
               pc \in {"verify", "drop", "mark"} /\ wf[j] = "none" => sealed'[j] # None,
               UNCHANGED <<proxyObj, runVars, workVars>>,
               UNCHANGED <<istate, stage, original, proxy>>
        PROVE  Inv'
    <2> USE <1>3 DEF runVars, workVars
    <2>1. ProcessTypeOK'
      BY DEF ProcessTypeOK
    <2>2. Handoff' /\ Published'
      BY DEF Handoff, Published, SucceededStagePublished
    <2>3. ASSUME NEW d \in Requests, rpc'[d] \in {"verify", "drop", "mark"},
                 wf'[rkey'[d]] = "none"
          PROVE  sealed'[rkey'[d]] # None
      <3>1. CASE d = c
        BY <2>3, <3>1 DEF ProcessTypeOK
      <3>2. CASE d # c
        <4>1. rpc'[d] = rpc[d] /\ rkey'[d] = rkey[d] /\ rkey[d] \in Keys
          BY <2>3, <3>2 DEF ProcessTypeOK
        <4> QED
          BY <2>3, <4>1 DEF Sealing
      <3> QED
        BY <3>1, <3>2
    <2>4. ReceivedIsSealed'
      BY DEF Sealing, ReceivedIsSealed
    <2>5. Sealing'
      BY <2>3, <2>4 DEF Sealing
    <2> QED
      BY <1>1, <2>1, <2>2, <2>5
  <1> USE DEF GoTo, storeVars, ledgerVars, intentVars, rowVars
  <1>4. ASSUME NEW j \in Keys, ReadIntent(c, j) PROVE Inv'
    BY <1>3, <1>4 DEF ReadIntent, RequestPCs, ProcessTypeOK
  <1>5. CASE SealHead(c)
    BY <1>2, <1>3, <1>5 DEF SealHead, Matches, RequestPCs, ProcessTypeOK
  <1>6. CASE SealCopy(c)
    BY <1>2, <1>3, <1>6 DEF SealCopy, RequestPCs, ProcessTypeOK
  <1>7. CASE SealVerify(c)
    BY <1>2, <1>3, <1>7 DEF SealVerify, Matches, RequestPCs, ProcessTypeOK
  <1>8. CASE SealDrop(c)
    BY <1>2, <1>3, <1>8 DEF SealDrop, RequestPCs, ProcessTypeOK, Sealing
  <1>9. CASE Abandon(c)
    BY <1>2, <1>3, <1>9 DEF Abandon, RequestPCs, ProcessTypeOK
  <1>10. CASE MarkReceived(c)
    <2> USE <1>2, <1>10 DEF MarkReceived, MarkUploadReceived, storeVars, runVars, workVars
    <2>1. ProcessTypeOK'
      BY DEF ProcessTypeOK, RequestPCs
    <2>2. Handoff' /\ Published'
      BY DEF Handoff, Published, SucceededStagePublished
    <2>3. wf[k] = "none" => sealed[k] # None
      BY DEF Sealing
    <2>4. Sealing'
      BY <2>3 DEF Sealing, ReceivedIsSealed, ProcessTypeOK, LedgerInv, LedgerTypeOK
    <2> QED
      BY <1>1, <2>1, <2>2, <2>4
  <1>11. CASE StartIngest(c)
    <2>1. /\ k \in Keys
          /\ rpc' = [rpc EXCEPT ![c] = "done"] /\ rkey' = [rkey EXCEPT ![c] = None]
          /\ UNCHANGED <<ledgerVars, staging, sealed, proxyObj, wn, seen, length>>
      BY <1>2, <1>11 DEF StartIngest
    <2>2. CASE wf[k] # "none"
      <3>1. UNCHANGED <<wf, apc>>
        BY <1>11, <2>2 DEF StartIngest
      <3> QED
        BY <1>3, <2>1, <3>1 DEF RequestPCs, ProcessTypeOK, runVars, workVars
    <2>3. CASE wf[k] = "none"
      <3>1. /\ wf' = [wf EXCEPT ![k] = "validate"]
            /\ apc' = [apc EXCEPT ![k]["validate"][1] = "read"]
        BY <1>11, <2>3 DEF StartIngest
      <3> USE <2>1, <2>3, <3>1, StageNames, AttemptsFacts
      <3>2. wf' \in [Keys -> WfStates] /\ apc' \in [Keys -> [Stages -> [Attempts -> AttemptPCs]]]
        BY DEF ProcessTypeOK, AttemptPCs, WfStates
      <3>3. ProcessTypeOK'
        BY <3>2 DEF ProcessTypeOK, RequestPCs
      <3>4. \A i \in Keys, s \in Stages, n \in Attempts :
                apc'[i][s][n] = apc[i][s][n] \/ (i = k /\ apc'[i][s][n] = "read")
        BY DEF ProcessTypeOK
      <3>5. Handoff'
        BY <3>4 DEF Handoff
      <3>6. Published'
        BY <3>4 DEF Published, SucceededStagePublished, ProcessTypeOK
      <3>7. Sealing'
        <4>1. \A i \in Keys : wf'[i] = "none" => wf[i] = "none" /\ i # k
          BY DEF ProcessTypeOK
        <4>2. \A d \in Requests : rpc'[d] \in {"verify", "drop", "mark"} =>
                  rpc'[d] = rpc[d] /\ rkey'[d] = rkey[d] /\ rkey[d] \in Keys
          BY DEF ProcessTypeOK
        <4> QED
          BY <3>4, <4>1, <4>2 DEF Sealing, ReceivedIsSealed
      <3> QED
        BY <1>1, <3>3, <3>5, <3>6, <3>7
    <2> QED
      BY <2>2, <2>3
  <1>12. CASE RejectIntent(c)
    <2>1. UNCHANGED <<stage, original, proxy>>
          /\ \A j \in Keys : istate'[j] = "object_received" => istate[j] = "object_received"
      BY <1>2, <1>12 DEF RejectIntent, RejectUpload, LedgerInv, LedgerTypeOK
    <2> USE <1>2, <1>12, <2>1 DEF RejectIntent, storeVars, runVars, workVars
    <2>2. ProcessTypeOK'
      BY DEF ProcessTypeOK, RequestPCs
    <2>3. Handoff' /\ Published'
      BY DEF Handoff, Published, SucceededStagePublished
    <2>4. Sealing'
      BY DEF Sealing, ReceivedIsSealed, ProcessTypeOK
    <2> QED
      BY <1>1, <2>2, <2>3, <2>4
  <1> QED
    BY <1>4, <1>5, <1>6, <1>7, <1>8, <1>9, <1>10, <1>11, <1>12 DEF Complete

\* The browser, the owner's other requests, the clock and late marks.
LEMMA OutsideSteps ==
    ASSUME Inv, [LedgerNext]_ledgerVars, NEW k \in Keys,
           Create(k) \/ Replay(k) \/ Tick(k) \/ MarkFailed(k) \/ Put(k)
    PROVE  Inv'
  <1> USE DEF Inv
  <1>1. LedgerInv'
    BY StepInv
  <1>2. /\ UNCHANGED <<sealed, proxyObj, requestVars, runVars, workVars>>
        /\ staging' \in [Keys -> Contents \cup {None}]
    BY DEF Create, Replay, Tick, MarkFailed, Put, processVars, storeVars, ProcessTypeOK
  <1>3. /\ UNCHANGED <<stage, original, proxy>>
        /\ \A j \in Keys : istate'[j] = "object_received" => istate[j] = "object_received"
    BY DEF Create, Replay, Tick, MarkFailed, Put, CreateIntent, ReplayIntent, PassExpiry,
       MarkMediaFailed, ledgerVars, intentVars, rowVars, LedgerInv, LedgerTypeOK
  <1> USE <1>2, <1>3 DEF requestVars, runVars, workVars
  <1>4. ProcessTypeOK'
    BY DEF ProcessTypeOK
  <1>5. Handoff' /\ Published' /\ Sealing'
    BY DEF Handoff, Published, SucceededStagePublished, Sealing, ReceivedIsSealed
  <1> QED
    BY <1>1, <1>4, <1>5

-----------------------------------------------------------------------------
(* The theorems.                                                           *)

\* The initial state satisfies the invariant.
LEMMA PipelineInit == Init => Inv
  <1> SUFFICES ASSUME Init PROVE Inv
    OBVIOUS
  <1> USE DEF Init
  <1>1. LedgerInv
    BY InitInv
  <1>2. ProcessTypeOK
    BY AttemptsFacts DEF ProcessTypeOK, RequestPCs, AttemptPCs, WfStates
  <1>3. Handoff /\ Published /\ Sealing
    BY StageNames DEF Handoff, Published, SucceededStagePublished, Sealing, ReceivedIsSealed,
       LedgerInit
  <1> QED
    BY <1>1, <1>2, <1>3 DEF Inv

\* Every step of the pipeline keeps the invariant.
LEMMA PipelineStep == ASSUME Inv, [Next]_vars PROVE Inv'
  <1>1. [LedgerNext]_ledgerVars
    BY StepIsTransaction DEF Inv
  <1>2. CASE UNCHANGED vars
    <2>1. UNCHANGED ledgerVars /\ LedgerInv'
      BY <1>1, <1>2, StepInv DEF vars, Inv
    <2> QED
      BY <1>2, <2>1 DEF vars, Inv, ProcessTypeOK, Handoff, Published, SucceededStagePublished,
         Sealing, ReceivedIsSealed, ledgerVars, intentVars, rowVars, storeVars, requestVars,
         runVars, workVars
  <1>3. ASSUME NEW k \in Keys, NEW n \in Attempts, Attempt(k, n) PROVE Inv'
    BY <1>1, <1>3, StageSteps, MeasureStep, RaiseStep, ValidateSteps, ProxySteps, Zenon
    DEF Attempt
  <1> QED
    BY <1>1, <1>2, <1>3, OutsideSteps, WorkflowSteps, RequestSteps, Zenon DEF Next

\* Every variable stays in its type, for any number of uploads and attempts.
THEOREM TypeCorrect == Spec => []TypeOK
  <1>1. Inv => TypeOK
    BY DEF Inv, LedgerInv, TypeOK
  <1> QED
    BY <1>1, PipelineInit, PipelineStep, PTL DEF Spec

\* The quota row is exact: used_storage_bytes is what the published artifacts
\* take, each charged once, within the limit (register_original and
\* register_proxy under retries and zombie attempts).
THEOREM QuotaExact == Spec => []QuotaIsExact
  <1>1. Inv => QuotaIsExact
    BY DEF Inv, LedgerInv, ChargesOK
  <1> QED
    BY <1>1, PipelineInit, PipelineStep, PTL DEF Spec

\* No reservation outlives its upload, whoever released the others.
THEOREM ReservationsBounded == Spec => []NoReservationLeak
  <1>1. Inv => NoReservationLeak
    BY DEF Inv, LedgerInv, HoldsOK
  <1> QED
    BY <1>1, PipelineInit, PipelineStep, PTL DEF Spec

\* An upload is ACCEPTED exactly when its original is published.
THEOREM AcceptanceIsFinal == Spec => []AcceptedIffOriginal
  <1>1. Inv => AcceptedIffOriginal
    BY DEF Inv, LedgerInv
  <1> QED
    BY <1>1, PipelineInit, PipelineStep, PTL DEF Spec

\* A READY asset has its proxy, its original and an accepted upload behind it.
THEOREM ReadyLineage == Spec => []ReadyHasLineage
  <1>1. Inv => ReadyHasLineage
    BY DEF Inv, LedgerInv
  <1> QED
    BY <1>1, PipelineInit, PipelineStep, PTL DEF Spec

\* A completed workflow has published both artifacts.
THEOREM CompletionIsPublished == Spec => []CompletedHasArtifacts
  <1>1. Inv => CompletedHasArtifacts
    BY DEF Inv, LedgerInv, Published, CompletedHasArtifacts, ProxyHasOriginal
  <1> QED
    BY <1>1, PipelineInit, PipelineStep, PTL DEF Spec

\* A stage execution recorded as succeeded has its artifact published, although the
\* record and the artifact are two transactions and either may be retried.
THEOREM StagesArePublished == Spec => []SucceededStagePublished
  <1>1. Inv => SucceededStagePublished
    BY DEF Inv, Published
  <1> QED
    BY <1>1, PipelineInit, PipelineStep, PTL DEF Spec

\* Until its workflow starts, an OBJECT_RECEIVED upload has a sealed object.
THEOREM ReceivedSealed == Spec => []ReceivedIsSealed
  <1>1. Inv => ReceivedIsSealed
    BY DEF Inv, Sealing
  <1> QED
    BY <1>1, PipelineInit, PipelineStep, PTL DEF Spec

-----------------------------------------------------------------------------
(* Refinement.                                                             *)

\* Every step of the pipeline is a publication of the catalog or a stutter.
LEMMA CatalogStep ==
    ASSUME LedgerInv, [LedgerNext]_ledgerVars
    PROVE  [Catalog!Next]_(Catalog!vars)
  <1> USE DEF Catalog!vars, Catalog!Next
  <1>1. ASSUME NEW k \in Keys, NEW size \in Sizes, NEW sum \in Contents,
               RegisterOriginal(k, size, sum)
        PROVE  Catalog!PublishOriginal(k) \/ UNCHANGED Catalog!vars
    BY <1>1 DEF RegisterOriginal, Catalog!PublishOriginal, Catalog!Charge,
       ledgerVars, quotaVars, rowVars
  <1>2. ASSUME NEW k \in Keys, NEW size \in Sizes, RegisterProxy(k, size)
        PROVE  Catalog!PublishProxy(k) \/ UNCHANGED Catalog!vars
    BY <1>2 DEF RegisterProxy, Catalog!PublishProxy, Catalog!Charge,
       ledgerVars, quotaVars, rowVars
  <1> QED
    BY <1>1, <1>2 DEF LedgerNext, ReplayIntent, PassExpiry, CreateIntent, MarkUploadReceived,
       RejectUpload, BeginStage, FinishStage, SetMediaStatus, MarkMediaFailed,
       EnsureProxyArtifactId, ledgerVars, quotaVars, rowVars

\* The pipeline implements the catalog: artifacts are published once, in order,
\* never changed, and charged once.
THEOREM Refinement == Spec => ImplementsCatalog
  <1>1. Init => Catalog!Init
    BY DEF Init, LedgerInit, Catalog!Init
  <1>2. Inv /\ [Next]_vars => [Catalog!Next]_(Catalog!vars)
    BY StepIsTransaction, CatalogStep DEF Inv
  <1> QED
    BY <1>1, <1>2, PipelineInit, PipelineStep, PTL DEF Spec, ImplementsCatalog, Catalog!Spec

=============================================================================
