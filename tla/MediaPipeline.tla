---------------------------- MODULE MediaPipeline ---------------------------
(***************************************************************************)
(* The processes that share the upload ledger and the object store:        *)
(*                                                                         *)
(*   - API requests running UploadService.complete, one store call or      *)
(*     transaction a step, any number of them on the same intent;          *)
(*   - the browser, which PUTs to the signed staging URL until it expires; *)
(*   - one Temporal workflow media-ingest-v1 a media asset, which runs the *)
(*     activities validate-original-media-v1 and generate-proxy-media-v1   *)
(*     with bounded attempts, then mark-media-ingest-failed-v1 on failure; *)
(*   - the activity attempts.  Temporal gives up an attempt that stops     *)
(*     heartbeating, but nothing stops its process: it may go on, next to  *)
(*     the attempt that replaced it, or never move again (a crash).        *)
(***************************************************************************)
EXTENDS UploadLedger

CONSTANT Requests  \* the complete requests clients send, one call each

VARIABLES
    staging, sealed,  \* the objects at staging_object_key, sealed_object_key
    proxyObj,         \* the attempt whose encode is at the proxy key, 0 = none
    rpc, rkey,        \* complete: where each request is, and for which intent
    wf, wn,           \* the workflow's activity, and its current attempt
    apc,              \* where each activity attempt is
    seen, length      \* what it downloaded, and the size its HEAD reported

storeVars  == <<staging, sealed, proxyObj>>
requestVars == <<rpc, rkey>>
runVars    == <<wf, wn>>
workVars   == <<apc, seen, length>>
vars == <<ledgerVars, storeVars, requestVars, runVars, workVars>>

RequestPCs == {"idle", "done", "head", "copy", "verify", "drop", "mark", "start", "reject"}
WfStates  == {"none", "validate", "proxy", "mark", "completed", "failed"}
Outcomes  == {"ok", "retry", "fatal"}
AttemptPCs == Outcomes \cup
    {"off", "read", "ensure", "begin", "status", "download", "encode", "upload", "measure", "register",
     "finish", "delete", "reject", "discard", "cleanup", "fail", "failStatus",
     "transient"}

ProcessTypeOK ==
    /\ staging \in [Keys -> Contents \cup {None}]
    /\ sealed \in [Keys -> Contents \cup {None}]
    /\ proxyObj \in [Keys -> Attempts \cup {0}]
    /\ rpc \in [Requests -> RequestPCs]
    /\ rkey \in [Requests -> Keys \cup {None}]
    /\ \A c \in Requests : rpc[c] \notin {"idle", "done"} => rkey[c] \in Keys
    /\ wf \in [Keys -> WfStates]
    /\ wn \in [Keys -> Attempts]
    /\ apc \in [Keys -> [Stages -> [Attempts -> AttemptPCs]]]
    /\ seen \in [Keys -> [Stages -> [Attempts -> Contents \cup {None}]]]
    /\ length \in [Keys -> [Stages -> [Attempts -> Nat]]]

TypeOK == LedgerTypeOK /\ ProcessTypeOK

Init ==
    /\ LedgerInit
    /\ staging = [k \in Keys |-> None]
    /\ sealed = [k \in Keys |-> None]
    /\ proxyObj = [k \in Keys |-> 0]
    /\ rpc = [c \in Requests |-> "idle"]
    /\ rkey = [c \in Requests |-> None]
    /\ wf = [k \in Keys |-> "none"]
    /\ wn = [k \in Keys |-> 1]
    /\ apc = [k \in Keys |-> [s \in Stages |-> [n \in Attempts |-> "off"]]]
    /\ seen = [k \in Keys |-> [s \in Stages |-> [n \in Attempts |-> None]]]
    /\ length = [k \in Keys |-> [s \in Stages |-> [n \in Attempts |-> 0]]]

-----------------------------------------------------------------------------
(* The browser and the owner's other requests.                             *)

processVars == <<storeVars, requestVars, runVars, workVars>>

Create(k) == (\E size \in Sizes : CreateIntent(k, size)) /\ UNCHANGED processVars
Replay(k) == ReplayIntent(k) /\ UNCHANGED processVars
Tick(k)   == PassExpiry(k) /\ UNCHANGED processVars

\* Requests that may still look at the staging object, which only they read:
\* the bound on the PUTs worth exploring.
StagingReaders == {c \in Requests : rpc[c] \in {"idle", "head", "copy"}}

\* The signed URL accepts any number of PUTs until it expires; one begun in
\* time may land at any moment later.
Put(k) ==
    /\ istate[k] # "none"
    /\ StagingReaders # {}
    /\ \E c \in Contents : staging' = [staging EXCEPT ![k] = c]
    /\ UNCHANGED <<ledgerVars, sealed, proxyObj, requestVars, runVars, workVars>>

-----------------------------------------------------------------------------
(* UploadService.complete.                                                 *)

GoTo(c, pc) ==
    /\ rpc' = [rpc EXCEPT ![c] = pc]
    /\ rkey' = IF pc = "done" THEN [rkey EXCEPT ![c] = None] ELSE rkey

Matches(content, k) == content # None /\ SizeOf[content] = declared[k]

\* The state read here, with no lock, decides everything the request does.
ReadIntent(c, k) ==
    /\ rpc[c] = "idle"
    /\ istate[k] # "none"
    /\ rkey' = [rkey EXCEPT ![c] = k]
    /\ \/ /\ istate[k] = "pending"
          /\ rpc' = [rpc EXCEPT ![c] = IF k \in expired THEN "reject" ELSE "head"]
       \/ /\ istate[k] \in {"object_received", "accepted"}
          /\ rpc' = [rpc EXCEPT ![c] = "start"]
    /\ UNCHANGED <<ledgerVars, storeVars, runVars, workVars>>

\* Mutant: an upload without a staging object counts as sealed already.
SealHeadUnchecked(c) ==
    LET k == rkey[c] IN
    /\ rpc[c] = "head"
    /\ GoTo(c, IF staging[k] = None THEN "mark"
               ELSE IF Matches(staging[k], k) THEN "copy" ELSE "reject")
    /\ UNCHANGED <<ledgerVars, storeVars, runVars, workVars>>

\* seal_upload, HEAD of the staging object, or of the sealed one without it.
SealHead(c) ==
    LET k == rkey[c] IN
    /\ rpc[c] = "head"
    /\ GoTo(c, IF staging[k] # None
               THEN IF Matches(staging[k], k) THEN "copy" ELSE "reject"
               ELSE IF Matches(sealed[k], k) THEN "mark" ELSE "reject")
    /\ UNCHANGED <<ledgerVars, storeVars, runVars, workVars>>

\* Copies whatever is at the staging key now; without an object the store
\* raises and the request ends.
SealCopy(c) ==
    LET k == rkey[c] IN
    /\ rpc[c] = "copy"
    /\ GoTo(c, IF staging[k] = None THEN "done" ELSE "verify")
    /\ sealed' = IF staging[k] = None THEN sealed ELSE [sealed EXCEPT ![k] = staging[k]]
    /\ UNCHANGED <<ledgerVars, staging, proxyObj, runVars, workVars>>

SealVerify(c) ==
    LET k == rkey[c] IN
    /\ rpc[c] = "verify"
    /\ GoTo(c, IF sealed[k] = None THEN "done"
               ELSE IF Matches(sealed[k], k) THEN "drop" ELSE "reject")
    /\ UNCHANGED <<ledgerVars, storeVars, runVars, workVars>>

SealDrop(c) ==
    /\ rpc[c] = "drop"
    /\ GoTo(c, "mark")
    /\ staging' = [staging EXCEPT ![rkey[c]] = None]
    /\ UNCHANGED <<ledgerVars, sealed, proxyObj, runVars, workVars>>

MarkReceived(c) ==
    /\ rpc[c] = "mark"
    /\ GoTo(c, "start")
    /\ MarkUploadReceived(rkey[c])
    /\ UNCHANGED <<storeVars, runVars, workVars>>

\* start_media_ingest: REJECT_DUPLICATE starts one workflow a media asset, ever.
StartIngest(c) ==
    LET k == rkey[c] IN
    /\ rpc[c] = "start"
    /\ GoTo(c, "done")
    /\ IF wf[k] = "none"
       THEN /\ wf' = [wf EXCEPT ![k] = "validate"]
            /\ apc' = [apc EXCEPT ![k]["validate"][1] = "read"]
       ELSE UNCHANGED <<wf, apc>>
    /\ UNCHANGED <<ledgerVars, storeVars, wn, seen, length>>

RejectIntent(c) ==
    /\ rpc[c] = "reject"
    /\ GoTo(c, "done")
    /\ RejectUpload(rkey[c])
    /\ UNCHANGED <<storeVars, runVars, workVars>>

\* The request dies anywhere: the client disconnects, a call raises, a restart.
Abandon(c) ==
    /\ rpc[c] \notin {"idle", "done"}
    /\ GoTo(c, "done")
    /\ UNCHANGED <<ledgerVars, storeVars, runVars, workVars>>

Complete(c) ==
    \/ \E k \in Keys : ReadIntent(c, k)
    \/ SealHead(c) \/ SealCopy(c) \/ SealVerify(c) \/ SealDrop(c)
    \/ MarkReceived(c) \/ StartIngest(c) \/ RejectIntent(c) \/ Abandon(c)

-----------------------------------------------------------------------------
(* The activity attempts.                                                  *)

At(k, s, n, pc) == apc[k][s][n] = pc

Move(k, s, n, pc) ==
    /\ apc' = [apc EXCEPT ![k][s][n] = pc]
    /\ seen' = [seen EXCEPT ![k][s][n] = None]
    /\ length' = [length EXCEPT ![k][s][n] = 0]

\* An attempt's transaction, after which it goes on at pc.
Commit(k, s, n, pc, A) ==
    A /\ Move(k, s, n, pc) /\ UNCHANGED <<storeVars, requestVars, runVars>>

\* A step of an attempt that changes no row and no object.
Continue(k, s, n, pc) ==
    Move(k, s, n, pc) /\ UNCHANGED <<ledgerVars, storeVars, requestVars, runVars>>

Begin(k, s, n) ==
    At(k, s, n, "begin") /\ Commit(k, s, n, "status", BeginStage(k, s, n))

\* Both activities announce the media status with no look at the current one.
Announce(k, s, n) ==
    /\ At(k, s, n, "status")
    /\ IF s = "validate"
       THEN Commit(k, s, n, "download", SetMediaStatus(k, "validating"))
       ELSE Commit(k, s, n, "encode", SetMediaStatus(k, "proxy_generating"))

\* object_metadata: the sizes a HEAD of the stage's object may report now (an
\* encode has any size), and the ValidationError of an object that is missing.
HeadSizes(k, s) ==
    IF s = "validate" THEN {SizeOf[c] : c \in {sealed[k]} \ {None}}
    ELSE IF proxyObj[k] = 0 THEN {} ELSE Sizes

Measure(k, s, n) ==
    /\ At(k, s, n, "measure")
    /\ \/ /\ HeadSizes(k, s) = {}
          /\ Continue(k, s, n, IF s = "validate" THEN "delete" ELSE "fail")
       \/ /\ \E bytes \in HeadSizes(k, s) : length' = [length EXCEPT ![k][s][n] = bytes]
          /\ apc' = [apc EXCEPT ![k][s][n] = "register"]
          /\ UNCHANGED <<ledgerVars, storeVars, requestVars, runVars, seen>>

Finish(k, s, n) ==
    At(k, s, n, "finish") /\ Commit(k, s, n, "ok", FinishStage(k, s, n, "succeeded"))

\* Mutant: a transient failure is recorded as a success.
TransientSucceeds(k, s, n) ==
    At(k, s, n, "transient") /\ Commit(k, s, n, "retry", FinishStage(k, s, n, "succeeded"))

Transient(k, s, n) ==
    At(k, s, n, "transient") /\ Commit(k, s, n, "retry", FinishStage(k, s, n, "failed"))

Fail(k, s, n) ==
    /\ At(k, s, n, "fail")
    /\ Commit(k, s, n, IF s = "validate" THEN "fatal" ELSE "failStatus",
              FinishStage(k, s, n, "failed"))

\* A call of the attempt raises: where the activity has a try block its
\* handler runs, elsewhere (in a handler too) the attempt ends and is retried.
Handler(s, pc) ==
    CASE pc \in {"download", "encode", "upload", "measure", "finish"} -> {"transient"}
      [] pc = "register" -> IF s = "validate" THEN {"transient"} ELSE {"cleanup"}
      [] pc \in Outcomes \cup {"off", "delete", "discard", "cleanup"} -> {}
      [] OTHER -> {"retry"}

Raise(k, s, n) == \E pc \in Handler(s, apc[k][s][n]) : Continue(k, s, n, pc)

-----------------------------------------------------------------------------
(* validate-original-media-v1.                                             *)

ValidateRead(k, n) ==
    /\ At(k, "validate", n, "read")
    /\ Continue(k, "validate", n, IF original[k] # 0 THEN "ok" ELSE "begin")

\* download_file, magic bytes, probe, limits: a bad file is rejected, a crash
\* of the media tools is retried.
Download(k, n) ==
    /\ At(k, "validate", n, "download")
    /\ \/ sealed[k] = None /\ Continue(k, "validate", n, "transient")
       \/ sealed[k] # None /\ Continue(k, "validate", n, "delete")
       \/ /\ sealed[k] # None
          /\ apc' = [apc EXCEPT ![k]["validate"][n] = "measure"]
          /\ seen' = [seen EXCEPT ![k]["validate"][n] = sealed[k]]
          /\ UNCHANGED <<ledgerVars, storeVars, requestVars, runVars, length>>

\* register_original with the size of the HEAD next to the checksum of the file
\* downloaded before; over quota is an error like a bad file.
PublishOriginal(k, n) ==
    LET bytes == length[k]["validate"][n] IN
    /\ At(k, "validate", n, "register")
    /\ \/ ~OriginalFits(k, bytes) /\ Continue(k, "validate", n, "delete")
       \/ Commit(k, "validate", n, "finish",
                 RegisterOriginal(k, bytes, seen[k]["validate"][n]))

\* _delete_best_effort of the sealed object.
DeleteSealed(k, n) ==
    /\ At(k, "validate", n, "delete")
    /\ Move(k, "validate", n, "reject")
    /\ sealed' \in {sealed, [sealed EXCEPT ![k] = None]}
    /\ UNCHANGED <<ledgerVars, staging, proxyObj, requestVars, runVars>>

RejectMedia(k, n) ==
    /\ At(k, "validate", n, "reject")
    /\ Commit(k, "validate", n, "fail", RejectUpload(k))

-----------------------------------------------------------------------------
(* generate-proxy-media-v1.                                                *)

\* Mutant: an allocated proxy id counts as a published proxy.
ProxyReadById(k, n) ==
    /\ At(k, "proxy", n, "read")
    /\ Continue(k, "proxy", n,
                IF proxyId[k] THEN "ok" ELSE IF original[k] = 0 THEN "fatal" ELSE "ensure")

ProxyRead(k, n) ==
    /\ At(k, "proxy", n, "read")
    /\ Continue(k, "proxy", n,
                IF mstatus[k] = "ready" /\ proxyId[k] THEN "ok"
                ELSE IF original[k] = 0 THEN "fatal" ELSE "ensure")

EnsureProxyId(k, n) ==
    At(k, "proxy", n, "ensure") /\ Commit(k, "proxy", n, "begin", EnsureProxyArtifactId(k))

\* Download of the original and encode: no object or a crash of the encoder is
\* retried, a file it cannot encode is not.
Encode(k, n) ==
    /\ At(k, "proxy", n, "encode")
    /\ \/ Continue(k, "proxy", n, "transient")
       \/ sealed[k] # None /\ \E pc \in {"upload", "fail"} : Continue(k, "proxy", n, pc)

\* Mutant: the asset turns READY with the upload, ahead of its row.
UploadProxyReady(k, n) ==
    /\ At(k, "proxy", n, "upload")
    /\ Move(k, "proxy", n, "measure")
    /\ proxyObj' = [proxyObj EXCEPT ![k] = n]
    /\ SetMediaStatus(k, "ready")
    /\ UNCHANGED <<staging, sealed, requestVars, runVars>>

\* Every attempt writes the same key.
UploadProxy(k, n) ==
    /\ At(k, "proxy", n, "upload")
    /\ Move(k, "proxy", n, "measure")
    /\ proxyObj' = [proxyObj EXCEPT ![k] = n]
    /\ UNCHANGED <<ledgerVars, staging, sealed, requestVars, runVars>>

\* register_proxy.  Any exception, also one raised after the transaction has
\* committed, discards the object.
PublishProxy(k, n) ==
    LET bytes == length[k]["proxy"][n] IN
    /\ At(k, "proxy", n, "register")
    /\ \/ ~ProxyFits(k, bytes) /\ Continue(k, "proxy", n, "discard")
       \/ \E pc \in {"finish", "cleanup"} : Commit(k, "proxy", n, pc, RegisterProxy(k, bytes))

\* _delete_best_effort of the proxy object, then the handler of the exception.
DeleteProxy(k, n) ==
    /\ \/ At(k, "proxy", n, "discard") /\ Move(k, "proxy", n, "fail")
       \/ At(k, "proxy", n, "cleanup") /\ Move(k, "proxy", n, "transient")
    /\ proxyObj' \in {proxyObj, [proxyObj EXCEPT ![k] = 0]}
    /\ UNCHANGED <<ledgerVars, staging, sealed, requestVars, runVars>>

FailMedia(k, n) ==
    /\ At(k, "proxy", n, "failStatus")
    /\ Commit(k, "proxy", n, "fatal", SetMediaStatus(k, "failed"))

Attempt(k, n) ==
    \/ \E s \in Stages : \/ Begin(k, s, n) \/ Announce(k, s, n)
                         \/ Measure(k, s, n) \/ Finish(k, s, n)
                         \/ Transient(k, s, n) \/ Fail(k, s, n) \/ Raise(k, s, n)
    \/ ValidateRead(k, n) \/ Download(k, n) \/ PublishOriginal(k, n)
    \/ DeleteSealed(k, n) \/ RejectMedia(k, n)
    \/ ProxyRead(k, n) \/ EnsureProxyId(k, n) \/ Encode(k, n) \/ UploadProxy(k, n)
    \/ PublishProxy(k, n) \/ DeleteProxy(k, n) \/ FailMedia(k, n)

-----------------------------------------------------------------------------
(* The workflow media-ingest-v1.                                           *)

Outcome(k) == apc[k][wf[k]][wn[k]]

Schedule(k, s, n) ==
    /\ wf' = [wf EXCEPT ![k] = s]
    /\ wn' = [wn EXCEPT ![k] = n]
    /\ apc' = [apc EXCEPT ![k][s][n] = "read"]

EndWith(k, state) == wf' = [wf EXCEPT ![k] = state] /\ UNCHANGED <<wn, apc>>

\* Mutant: the retry policy has no maximum_attempts.
RetryForever(k) ==
    Schedule(k, wf[k], IF wn[k] < MaxAttempts[wf[k]] THEN wn[k] + 1 ELSE wn[k])

Retry(k) ==
    IF wn[k] < MaxAttempts[wf[k]] THEN Schedule(k, wf[k], wn[k] + 1) ELSE EndWith(k, "mark")

\* The current attempt reported its outcome.
Advance(k) ==
    /\ wf[k] \in Stages
    /\ \/ Outcome(k) = "ok" /\ wf[k] = "validate" /\ Schedule(k, "proxy", 1)
       \/ Outcome(k) = "ok" /\ wf[k] = "proxy" /\ EndWith(k, "completed")
       \/ Outcome(k) = "retry" /\ Retry(k)
       \/ Outcome(k) = "fatal" /\ EndWith(k, "mark")
    /\ UNCHANGED <<ledgerVars, storeVars, requestVars, seen, length>>

\* The current attempt missed its heartbeat or its deadline.
Timeout(k) ==
    /\ wf[k] \in Stages
    /\ Outcome(k) \notin Outcomes
    /\ Retry(k)
    /\ UNCHANGED <<ledgerVars, storeVars, requestVars, seen, length>>

\* An attempt of mark-media-ingest-failed-v1, maybe one already given up.
MarkFailed(k) ==
    /\ wf[k] \in {"mark", "failed"}
    /\ MarkMediaFailed(k)
    /\ UNCHANGED processVars

\* The mark has been reported, or its attempts are exhausted.
EndMark(k) ==
    /\ wf[k] = "mark"
    /\ EndWith(k, "failed")
    /\ UNCHANGED <<ledgerVars, storeVars, requestVars, seen, length>>

Workflow(k) == Advance(k) \/ Timeout(k) \/ EndMark(k)

-----------------------------------------------------------------------------

Next ==
    \/ \E k \in Keys : \/ Create(k) \/ Replay(k) \/ Tick(k) \/ Put(k)
                       \/ Workflow(k) \/ MarkFailed(k) \/ \E n \in Attempts : Attempt(k, n)
    \/ \E c \in Requests : Complete(c)

Spec == Init /\ [][Next]_vars

\* Temporal delivers every outcome and fires every timeout; an attempt itself
\* may stop for good.
FairSpec == Spec /\ \A k \in Keys : WF_vars(Workflow(k))

-----------------------------------------------------------------------------
(* Safety.                                                                 *)

\* A request marks an upload received only with a sealed object in place; only
\* the ingest may remove it later.
ReceivedIsSealed ==
    \A k \in Keys : istate[k] = "object_received" /\ wf[k] = "none" => sealed[k] # None

\* A completed media-ingest-v1 has published both artifacts, also when an
\* earlier attempt had committed before it was given up.
CompletedHasArtifacts ==
    \A k \in Keys : wf[k] = "completed" => original[k] # 0 /\ proxy[k] # 0

\* A stage execution recorded as succeeded stands for a published artifact.
SucceededStagePublished ==
    \A k \in Keys, n \in Attempts :
        /\ stage[k]["validate"][n] = "succeeded" => original[k] # 0
        /\ stage[k]["proxy"][n] = "succeeded" => proxy[k] # 0

-----------------------------------------------------------------------------
(* Action and liveness properties.                                         *)

\* Artifacts are published once, in order, unchanged afterwards and charged
\* once, whatever attempts, retries and requests overlap.
Catalog == INSTANCE ArtifactCatalog

ImplementsCatalog == Catalog!Spec

\* Attempts are bounded and timeouts fire, so a started ingest always ends,
\* whatever becomes of its attempts.
IngestEnds ==
    \A k \in Keys : wf[k] = "validate" ~> wf[k] \in {"completed", "failed"}

-----------------------------------------------------------------------------
(* What the documentation says and the code does not keep.                 *)

\* docs/api-phase2.md: creating an upload "reserves quota": the account holds
\* at least what the live uploads declared.
ReservationCoversLive ==
    /\ Cardinality(DeclaredBytes(Live)) <= reserved
    /\ Cardinality(Live) <= active

\* docs/domain-model.md: an available artifact is never updated in place: its
\* object stays at its key with the content that was registered.
AvailableArtifactsStored ==
    \A k \in Keys : /\ original[k] # 0 => sealed[k] = checksum[k]
                    /\ proxy[k] # 0 => proxyObj[k] # 0

\* docs/workflow-state-machine.md: proxy generation moves the media asset to
\* ready: once the workflow has completed, get_media hands out the proxy.
CompletedIsReady == \A k \in Keys : wf[k] = "completed" => mstatus[k] = "ready"

=============================================================================
