---------------------------- MODULE UploadLedger ----------------------------
(***************************************************************************)
(* The PostgreSQL rows behind one owner's uploads, and the transactions of *)
(* SqlAlchemyProductRepository that change them.  Every transaction locks  *)
(* the rows it reads with FOR UPDATE, so each is one atomic action here;   *)
(* the processes that call them are in MediaPipeline.                      *)
(*                                                                         *)
(* An upload intent is created at most once for an idempotency key and     *)
(* owns one media asset, so intents and media are indexed by that key.     *)
(* A byte count of 0 stands for "no row": the schema's check constraints   *)
(* forbid an intent or an artifact of 0 bytes.                             *)
(***************************************************************************)
EXTENDS Integers, FiniteSets

CONSTANTS
    Keys,        \* idempotency keys of the owner's upload requests
    Sizes,       \* byte sizes a file or a proxy can have
    Contents,    \* what an object of the store can hold
    SizeOf,      \* the byte size of each content
    MaxStorage,  \* quota_accounts.max_storage_bytes
    MaxUploads,  \* quota_accounts.max_concurrent_uploads
    MaxAttempts, \* attempts the workflow grants each ingest stage
    None         \* "no object", "no checksum"

ASSUME SizesAreBytes == Sizes \subseteq Nat \ {0}
ASSUME ContentsHaveSizes == \A c \in Contents : SizeOf[c] \in Sizes
ASSUME LimitsAreNat == MaxStorage \in Nat /\ MaxUploads \in Nat

Stages == {"validate", "proxy"}

ASSUME AttemptsAreBounded == MaxAttempts \in [Stages -> Nat \ {0}]

Attempts == UNION {1..MaxAttempts[s] : s \in Stages}

\* "none" stands for a row that does not exist yet.
IntentStates == {"none", "pending", "object_received", "accepted", "rejected", "expired"}
MediaStates  == {"none", "upload_pending", "object_received", "validating",
                 "proxy_generating", "ready", "rejected", "failed"}
StageStates  == {"none", "running", "succeeded", "failed"}

VARIABLES
    reserved, active, used,  \* the owner's quota_accounts row
    expired,                 \* intents whose expires_at has passed
    istate, declared,        \* upload_intents: state, declared_size_bytes
    mstatus, proxyId,        \* media_assets: status, is proxy_artifact_id set
    original, checksum,      \* the original's artifact row: byte_size, sha256
    proxy,                   \* the proxy's artifact row: byte_size
    stage                    \* stage_executions: status per stage and attempt

quotaVars  == <<reserved, active, used>>
intentVars == <<expired, istate, declared>>
mediaVars  == <<mstatus, proxyId>>
rowVars    == <<original, checksum, proxy>>
ledgerVars == <<quotaVars, intentVars, mediaVars, rowVars, stage>>

LedgerTypeOK ==
    /\ reserved \in Nat /\ active \in Nat /\ used \in Nat
    /\ expired \subseteq Keys
    /\ istate \in [Keys -> IntentStates]
    /\ declared \in [Keys -> Nat]
    /\ mstatus \in [Keys -> MediaStates]
    /\ proxyId \in [Keys -> BOOLEAN]
    /\ original \in [Keys -> Nat]
    /\ checksum \in [Keys -> Contents \cup {None}]
    /\ proxy \in [Keys -> Nat]
    /\ stage \in [Keys -> [Stages -> [Attempts -> StageStates]]]

LedgerInit ==
    /\ reserved = 0 /\ active = 0 /\ used = 0
    /\ expired = {}
    /\ istate = [k \in Keys |-> "none"]
    /\ declared = [k \in Keys |-> 0]
    /\ mstatus = [k \in Keys |-> "none"]
    /\ proxyId = [k \in Keys |-> FALSE]
    /\ original = [k \in Keys |-> 0]
    /\ checksum = [k \in Keys |-> None]
    /\ proxy = [k \in Keys |-> 0]
    /\ stage = [k \in Keys |-> [s \in Stages |-> [n \in Attempts |-> "none"]]]

-----------------------------------------------------------------------------
(* Quota arithmetic. *)

\* The bytes a size column stands for, so that a sum of sizes is a cardinality.
Bytes(sizes) == UNION {{k} \X (1..sizes[k]) : k \in Keys}

\* Mutant: the release without its clamp.
UnclampedMinus(x, y) == x - y

\* max(0, x - y) of the release code.
Minus(x, y) == IF y <= x THEN x - y ELSE 0

\* Uploads that hold a reservation.
Live == {k \in Keys : istate[k] \in {"pending", "object_received"}}

DeclaredBytes(S) == Bytes([k \in Keys |-> IF k \in S THEN declared[k] ELSE 0])

Release(k) ==
    /\ reserved' = Minus(reserved, declared[k])
    /\ active' = Minus(active, 1)

-----------------------------------------------------------------------------
(* create_upload_intent.  The transaction first expires the owner's stale  *)
(* PENDING intents and releases what they hold.  An error rolls the whole  *)
(* transaction back, the sweep with it, so only the outcomes that commit   *)
(* are actions.                                                            *)

Stale == {k \in Keys : istate[k] = "pending" /\ k \in expired}

ReservedAfterSweep == Minus(reserved, Cardinality(DeclaredBytes(Stale)))
ActiveAfterSweep   == Minus(active, Cardinality(Stale))

\* The key is known: the existing intent is returned and the sweep commits.
\* (A reuse with another payload is a ConflictError, which rolls back.)
ReplayIntent(k) ==
    /\ istate[k] # "none"
    /\ reserved' = ReservedAfterSweep
    /\ active' = ActiveAfterSweep
    /\ istate' = [j \in Keys |-> IF j \in Stale THEN "expired" ELSE istate[j]]
    /\ mstatus' = [j \in Keys |-> IF j \in Stale THEN "rejected" ELSE mstatus[j]]
    /\ UNCHANGED <<used, expired, declared, proxyId, rowVars, stage>>

\* A new intent is admitted within both limits, next to its media asset.
CreateIntent(k, size) ==
    /\ istate[k] = "none"
    /\ ActiveAfterSweep < MaxUploads
    /\ used + ReservedAfterSweep + size <= MaxStorage
    /\ reserved' = ReservedAfterSweep + size
    /\ active' = ActiveAfterSweep + 1
    /\ istate' = [j \in Keys |-> IF j = k THEN "pending"
                                 ELSE IF j \in Stale THEN "expired" ELSE istate[j]]
    /\ mstatus' = [j \in Keys |-> IF j = k THEN "upload_pending"
                                  ELSE IF j \in Stale THEN "rejected" ELSE mstatus[j]]
    /\ declared' = [declared EXCEPT ![k] = size]
    /\ UNCHANGED <<used, expired, proxyId, rowVars, stage>>

\* The clock passes the expires_at of an intent; only that of a PENDING one is
\* ever looked at.
PassExpiry(k) ==
    /\ istate[k] = "pending" /\ k \notin expired
    /\ expired' = expired \cup {k}
    /\ UNCHANGED <<quotaVars, istate, declared, mediaVars, rowVars, stage>>

-----------------------------------------------------------------------------
(* The transactions of UploadService.complete.                             *)

\* mark_upload_received: an intent no longer PENDING is left as it is, and
\* the caller is not told.
MarkUploadReceived(k) ==
    /\ IF istate[k] = "pending"
       THEN /\ istate' = [istate EXCEPT ![k] = "object_received"]
            /\ mstatus' = [mstatus EXCEPT ![k] = "object_received"]
       ELSE UNCHANGED <<istate, mstatus>>
    /\ UNCHANGED <<quotaVars, expired, declared, proxyId, rowVars, stage>>

\* Mutant: a rejection that keeps the reservation.
RejectUploadKeepingHold(k) ==
    /\ IF istate[k] \in {"rejected", "accepted"}
       THEN UNCHANGED <<istate, mstatus>>
       ELSE /\ istate' = [istate EXCEPT ![k] = "rejected"]
            /\ mstatus' = [mstatus EXCEPT ![k] = "rejected"]
    /\ UNCHANGED <<quotaVars, expired, declared, proxyId, rowVars, stage>>

\* Mutant: a rejection that overrules an acceptance.
RejectUploadAnyState(k) ==
    /\ IF istate[k] = "rejected"
       THEN UNCHANGED <<reserved, active, istate, mstatus>>
       ELSE /\ Release(k)
            /\ istate' = [istate EXCEPT ![k] = "rejected"]
            /\ mstatus' = [mstatus EXCEPT ![k] = "rejected"]
    /\ UNCHANGED <<used, expired, declared, proxyId, rowVars, stage>>

\* reject_upload: a no-op on a REJECTED or ACCEPTED intent, and only on those.
RejectUpload(k) ==
    /\ IF istate[k] \in {"rejected", "accepted"}
       THEN UNCHANGED <<reserved, active, istate, mstatus>>
       ELSE /\ Release(k)
            /\ istate' = [istate EXCEPT ![k] = "rejected"]
            /\ mstatus' = [mstatus EXCEPT ![k] = "rejected"]
    /\ UNCHANGED <<used, expired, declared, proxyId, rowVars, stage>>

-----------------------------------------------------------------------------
(* The transactions of the ingest activities.                              *)

\* begin_stage: claims the attempt's row, or returns the row it finds.
BeginStage(k, s, n) ==
    /\ stage' = [stage EXCEPT ![k][s][n] = IF @ = "none" THEN "running" ELSE @]
    /\ UNCHANGED <<quotaVars, intentVars, mediaVars, rowVars>>

\* finish_stage: unconditional.
FinishStage(k, s, n, status) ==
    /\ stage' = [stage EXCEPT ![k][s][n] = status]
    /\ UNCHANGED <<quotaVars, intentVars, mediaVars, rowVars>>

\* set_media_status: unconditional.
SetMediaStatus(k, status) ==
    /\ mstatus' = [mstatus EXCEPT ![k] = status]
    /\ UNCHANGED <<quotaVars, intentVars, proxyId, rowVars, stage>>

\* mark_media_failed: keeps only REJECTED.
MarkMediaFailed(k) ==
    /\ mstatus' = [mstatus EXCEPT ![k] = IF @ = "rejected" THEN @ ELSE "failed"]
    /\ UNCHANGED <<quotaVars, intentVars, proxyId, rowVars, stage>>

EnsureProxyArtifactId(k) ==
    /\ proxyId' = [proxyId EXCEPT ![k] = TRUE]
    /\ UNCHANGED <<quotaVars, intentVars, mstatus, rowVars, stage>>

\* register_original: the first call publishes the row, moves the upload's
\* bytes from reserved to used and accepts the intent, whatever its state was;
\* a later call finds the row and changes nothing.
OriginalFits(k, size) == original[k] # 0 \/ used + size <= MaxStorage

\* Mutant: registers without looking for the row of an earlier attempt.
RegisterOriginalAgain(k, size, sum) ==
    /\ used + size <= MaxStorage
    /\ original' = [original EXCEPT ![k] = size]
    /\ checksum' = [checksum EXCEPT ![k] = sum]
    /\ used' = used + size
    /\ Release(k)
    /\ istate' = [istate EXCEPT ![k] = "accepted"]
    /\ mstatus' = [mstatus EXCEPT ![k] = "proxy_generating"]
    /\ UNCHANGED <<expired, declared, proxyId, proxy, stage>>

RegisterOriginal(k, size, sum) ==
    \/ original[k] # 0 /\ UNCHANGED ledgerVars
    \/ /\ original[k] = 0
       /\ used + size <= MaxStorage
       /\ original' = [original EXCEPT ![k] = size]
       /\ checksum' = [checksum EXCEPT ![k] = sum]
       /\ used' = used + size
       /\ Release(k)
       /\ istate' = [istate EXCEPT ![k] = "accepted"]
       /\ mstatus' = [mstatus EXCEPT ![k] = "proxy_generating"]
       /\ UNCHANGED <<expired, declared, proxyId, proxy, stage>>

\* Mutant: the proxy's bytes are never charged.
RegisterProxyFree(k, size) ==
    \/ proxy[k] # 0 /\ UNCHANGED ledgerVars
    \/ /\ proxy[k] = 0 /\ original[k] # 0
       /\ proxy' = [proxy EXCEPT ![k] = size]
       /\ mstatus' = [mstatus EXCEPT ![k] = "ready"]
       /\ proxyId' = [proxyId EXCEPT ![k] = TRUE]
       /\ UNCHANGED <<quotaVars, intentVars, original, checksum, stage>>

\* register_proxy: as above; the caller has seen the original's row.
ProxyFits(k, size) == proxy[k] # 0 \/ used + size <= MaxStorage

RegisterProxy(k, size) ==
    \/ proxy[k] # 0 /\ UNCHANGED ledgerVars
    \/ /\ proxy[k] = 0
       /\ original[k] # 0
       /\ used + size <= MaxStorage
       /\ proxy' = [proxy EXCEPT ![k] = size]
       /\ used' = used + size
       /\ mstatus' = [mstatus EXCEPT ![k] = "ready"]
       /\ proxyId' = [proxyId EXCEPT ![k] = TRUE]
       /\ UNCHANGED <<reserved, active, intentVars, original, checksum, stage>>

-----------------------------------------------------------------------------
(* Safety of the rows, whoever calls the transactions and in whatever order. *)

\* used_storage_bytes is the sum of the published artifacts, each counted
\* once however many attempts registered it, and never above the limit
\* (register_original, register_proxy).
QuotaIsExact ==
    /\ used = Cardinality(Bytes(original)) + Cardinality(Bytes(proxy))
    /\ used <= MaxStorage

\* No reservation outlives its upload: what the quota account holds is never
\* more than what the PENDING and OBJECT_RECEIVED intents declared, whichever
\* of sweep, rejection and acceptance released each of the others.
NoReservationLeak ==
    /\ reserved <= Cardinality(DeclaredBytes(Live))
    /\ active <= Cardinality(Live)

\* An intent is ACCEPTED exactly when its original has an artifact row: no
\* late rejection or sweep takes the acceptance back.
AcceptedIffOriginal == \A k \in Keys : istate[k] = "accepted" <=> original[k] # 0

\* A READY asset, whose proxy get_media hands out, has both artifact rows and
\* an accepted upload behind it.
ReadyHasLineage ==
    \A k \in Keys : mstatus[k] = "ready" =>
        proxyId[k] /\ proxy[k] # 0 /\ original[k] # 0 /\ istate[k] = "accepted"

=============================================================================
