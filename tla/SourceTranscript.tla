-------------------------- MODULE SourceTranscript --------------------------
(***************************************************************************)
(* The source transcript of one READY media asset:                         *)
(*                                                                         *)
(*   - its row of transcript_states, its observations and its segments,    *)
(*     changed by transactions that lock the row;                          *)
(*   - the requests of TranscriptService, from pages that may be stale;    *)
(*   - the runs of the Temporal workflow source-transcript-v1, one after   *)
(*     the other under one workflow id, each with bounded attempts of      *)
(*     extract-and-ocr and consolidate, whose given-up attempts go on.     *)
(*                                                                         *)
(* The text of a revision, error codes and the outcome columns of          *)
(* stage_executions are left out; a stage row is the input fingerprint it  *)
(* was claimed with.  workflow_id, which nothing decides on, is too.       *)
(***************************************************************************)
EXTENDS Integers

CONSTANTS
    Segments,     \* the segments an OCR pass yields
    Regions,      \* subtitle regions, of one sample interval
    Users,        \* pages and scripts that send requests, one at a time each
    MaxAttempts,  \* attempts the workflow grants each activity
    MaxRuns,      \* bound on the runs of the workflow
    MaxVersion,   \* bound: no edit, start or repeated failure at this version
    None          \* "no region", "no observations"

ASSUME BoundsAreNat == MaxRuns \in Nat /\ MaxVersion \in Nat
ASSUME NoneIsNoRegion == None \notin Regions
ASSUME SomeSegment == Segments # {}

Stages   == {"ocr", "consolidate"}

ASSUME AttemptsArePositive == MaxAttempts \in [Stages -> Nat \ {0}]

Attempts == UNION {1..MaxAttempts[s] : s \in Stages}
Runs     == 1..MaxRuns

VARIABLES
    status, version, region,  \* the transcript_states row
    obs,                      \* the region the stored observations come from
    rev, source,              \* each segment's revision, 0 = not published, and
                              \* the region of the observations they came from
    claim,                    \* stage_executions: fingerprint per stage, attempt
    run, wf, wn, report,      \* the latest run, its activity, the attempt it
                              \* waits for and the outcome reported to it
    signalled, cancelling,    \* what that run was sent: approval, cancellation
    payload,                  \* the region each run was started with
    marking,                  \* runs that have scheduled their failure mark
    apc, loaded,              \* where an attempt is, the observations it holds
    upc, uregion, view        \* where a request is, its region, the user's page

rowVars  == <<status, version, region, obs, rev, source, claim>>
runVars  == <<run, wf, wn, report, signalled, cancelling, payload, marking>>
workVars == <<apc, loaded>>
userVars == <<upc, uregion, view>>
vars     == <<rowVars, runVars, workVars, userVars>>

Statuses == {"none", "processing", "waiting_for_review", "approved", "failed", "cancelled"}
Open     == Stages \cup {"review", "mark"}
WfStates == Open \cup {"none", "completed", "closed"}
Outcomes == {"ok", "retry", "fatal"}
AttemptPCs == {"off", "read", "load", "begin", "work", "finish"}
UserPCs  == {"idle", "segments", "prepare", "launch", "approve", "signal", "stop", "cancel"}

TypeOK ==
    /\ status \in Statuses
    /\ version \in Nat
    /\ region \in Regions \cup {None}
    /\ obs \in Regions \cup {None}
    /\ rev \in [Segments -> Nat]
    /\ source \in Regions \cup {None}
    /\ claim \in [Stages -> [Attempts -> Regions \cup {None}]]
    /\ run \in 0..MaxRuns
    /\ wf \in WfStates
    /\ wn \in Attempts
    /\ report \in Outcomes \cup {None}
    /\ signalled \in BOOLEAN /\ cancelling \in BOOLEAN
    /\ payload \in [Runs -> Regions \cup {None}]
    /\ marking \subseteq Runs
    /\ apc \in [Runs -> [Stages -> [Attempts -> AttemptPCs]]]
    /\ loaded \in [Runs -> [Attempts -> Regions \cup {None}]]
    /\ upc \in [Users -> UserPCs]
    /\ uregion \in [Users -> Regions \cup {None}]
    /\ view \in [Users -> [version : Nat, rev : [Segments -> Nat]]]

NoRevisions == [s \in Segments |-> 0]

\* A user without a loaded page: no request accepts a version below 1.
NoPage == [version |-> 0, rev |-> NoRevisions]

Init ==
    /\ status = "none" /\ version = 0 /\ region = None
    /\ obs = None
    /\ rev = NoRevisions /\ source = None
    /\ claim = [s \in Stages |-> [n \in Attempts |-> None]]
    /\ run = 0 /\ wf = "none" /\ wn = 1 /\ report = None
    /\ signalled = FALSE /\ cancelling = FALSE
    /\ payload = [r \in Runs |-> None]
    /\ marking = {}
    /\ apc = [r \in Runs |-> [s \in Stages |-> [n \in Attempts |-> "off"]]]
    /\ loaded = [r \in Runs |-> [n \in Attempts |-> None]]
    /\ upc = [u \in Users |-> "idle"]
    /\ uregion = [u \in Users |-> None]
    /\ view = [u \in Users |-> NoPage]

-----------------------------------------------------------------------------
(* The row's transactions: each bumps the version with what it changes.    *)

Published == rev # NoRevisions

SetStatus(new) == status' = new /\ version' = version + 1

\* Mutant: an edit that forgets state.version.
EditUnversioned(s, expected) ==
    /\ status = "waiting_for_review"
    /\ rev[s] = expected /\ expected # 0
    /\ rev' = [rev EXCEPT ![s] = @ + 1]
    /\ UNCHANGED <<status, version, region, obs, source, claim>>

\* edit_segment: appends a revision to the one the page shows.
EditSegment(s, expected) ==
    /\ status = "waiting_for_review"
    /\ rev[s] = expected /\ expected # 0
    /\ rev' = [rev EXCEPT ![s] = @ + 1]
    /\ version' = version + 1
    /\ UNCHANGED <<status, region, obs, source, claim>>

\* prepare: creates the row, or puts a failed or cancelled one to work again.
PrepareRow(r) ==
    /\ IF status \in {"none", "failed", "cancelled"}
       THEN SetStatus("processing") /\ region' = r
       ELSE UNCHANGED <<status, version, region>>
    /\ UNCHANGED <<obs, rev, source, claim>>

\* replace_ocr_observations, for the statuses it does not refuse.
ReplaceObservations(r) ==
    /\ obs' = IF status = "processing" THEN r ELSE obs
    /\ UNCHANGED <<status, version, region, rev, source, claim>>

\* Mutant: publishes over the segments of an earlier run.
PublishAgain(r) ==
    /\ status \in {"processing", "waiting_for_review", "approved"}
    /\ IF status = "processing"
       THEN SetStatus("waiting_for_review") /\ rev' = [s \in Segments |-> 1] /\ source' = r
       ELSE UNCHANGED <<status, version, rev, source>>
    /\ UNCHANGED <<region, obs, claim>>

\* publish_ocr_segments, when it does not refuse: it raises on a transcript no
\* longer processing, and on one that has segments already.
PublishSegments(r) ==
    /\ \/ /\ status \in {"waiting_for_review", "approved"}
          /\ UNCHANGED <<status, version, rev, source>>
       \/ /\ status = "processing" /\ ~Published
          /\ SetStatus("waiting_for_review")
          /\ rev' = [s \in Segments |-> 1] /\ source' = r
    /\ UNCHANGED <<region, obs, claim>>

\* Mutant: a late failure mark also overrules an approval.
FailAnything ==
    /\ IF status \in {"cancelled", "failed"} THEN UNCHANGED <<status, version>> ELSE SetStatus("failed")
    /\ UNCHANGED <<region, obs, rev, source, claim>>

\* set_transcript_status(FAILED): keeps APPROVED and CANCELLED; a second failure
\* is a new version if its error code differs.
FailTranscript ==
    /\ \/ status \in {"approved", "cancelled", "failed"} /\ UNCHANGED <<status, version>>
       \/ status = "failed" /\ version < MaxVersion /\ SetStatus("failed")
       \/ status \notin {"approved", "cancelled", "failed"} /\ SetStatus("failed")
    /\ UNCHANGED <<region, obs, rev, source, claim>>

-----------------------------------------------------------------------------
(* The requests.                                                           *)

Reply(u, pc) == upc' = [upc EXCEPT ![u] = pc]

\* snapshot: the row, then the segments, which another transaction may have
\* changed in between.
LoadRow(u) ==
    /\ upc[u] = "idle" /\ status # "none"
    /\ Reply(u, "segments")
    /\ view' = [view EXCEPT ![u] = [version |-> version, rev |-> NoRevisions]]
    /\ UNCHANGED <<rowVars, runVars, workVars, uregion>>

LoadSegments(u) ==
    /\ upc[u] = "segments"
    /\ Reply(u, "idle")
    /\ view' = [view EXCEPT ![u].rev = rev]
    /\ UNCHANGED <<rowVars, runVars, workVars, uregion>>

Edit(u) ==
    /\ upc[u] = "idle" /\ version < MaxVersion
    /\ \E s \in Segments : EditSegment(s, view[u].rev[s])
    /\ UNCHANGED <<runVars, workVars, userVars>>

\* approve: on APPROVED it only signals again.
ApproveRead(u) ==
    /\ upc[u] = "idle" /\ view[u].version # 0
    /\ Reply(u, IF status = "approved" THEN "signal" ELSE "approve")
    /\ UNCHANGED <<rowVars, runVars, workVars, uregion, view>>

Approve(u) ==
    /\ upc[u] = "approve"
    /\ IF status = "waiting_for_review" /\ version = view[u].version
       THEN SetStatus("approved") /\ Reply(u, "signal")
       ELSE UNCHANGED <<status, version>> /\ Reply(u, "idle")
    /\ UNCHANGED <<region, obs, rev, source, claim, runVars, workVars, uregion, view>>

\* The signal reaches an open run; on a closed one the call raises.
Signal(u) ==
    /\ upc[u] = "signal"
    /\ Reply(u, "idle")
    /\ signalled' = (signalled \/ wf \in Open)
    /\ UNCHANGED <<rowVars, run, wf, wn, report, cancelling, payload, marking, workVars, uregion, view>>

\* restart: decides on the status it reads and keeps the stored region.
RestartRead(u) ==
    /\ upc[u] = "idle" /\ status \in {"failed", "cancelled"}
    /\ Reply(u, "prepare")
    /\ uregion' = [uregion EXCEPT ![u] = region]
    /\ UNCHANGED <<rowVars, runVars, workVars, view>>

\* start, and the rest of restart: a transcript in processing, also one that
\* another request put there, gets its run started with the stored region.
Prepare(u, r) ==
    /\ \/ upc[u] = "idle"
       \/ upc[u] = "prepare" /\ r = uregion[u]
    /\ version < MaxVersion
    /\ PrepareRow(r)
    /\ Reply(u, IF status' = "processing" THEN "launch" ELSE "idle")
    /\ uregion' = [uregion EXCEPT ![u] = IF status' = "processing" THEN region' ELSE None]
    /\ UNCHANGED <<runVars, workVars, view>>

\* start_source_transcript: ALLOW_DUPLICATE_FAILED_ONLY starts a run unless one
\* is open or has completed, and an open one counts as started.
Launch(u) ==
    /\ upc[u] = "launch"
    /\ Reply(u, "idle")
    /\ uregion' = [uregion EXCEPT ![u] = None]
    /\ IF wf \in {"none", "closed"}
       THEN /\ run < MaxRuns
            /\ run' = run + 1
            /\ wf' = "ocr" /\ wn' = 1 /\ report' = None
            /\ signalled' = FALSE /\ cancelling' = FALSE
            /\ payload' = [payload EXCEPT ![run + 1] = uregion[u]]
            /\ apc' = [apc EXCEPT ![run + 1]["ocr"][1] = "read"]
       ELSE UNCHANGED <<run, wf, wn, report, signalled, cancelling, payload, apc>>
    /\ UNCHANGED <<rowVars, marking, loaded, view>>

CancelRead(u) ==
    /\ upc[u] = "idle" /\ status \notin {"none", "cancelled", "approved"}
    /\ Reply(u, "stop")
    /\ UNCHANGED <<rowVars, runVars, workVars, uregion, view>>

\* cancel_source_transcript: a workflow that was never started is an error, a
\* closed one is not.
Stop(u) ==
    /\ upc[u] = "stop"
    /\ Reply(u, IF wf = "none" THEN "idle" ELSE "cancel")
    /\ cancelling' = (cancelling \/ wf \in Open)
    /\ UNCHANGED <<rowVars, run, wf, wn, report, signalled, payload, marking, workVars, uregion, view>>

\* mark_cancelled.
MarkCancelled(u) ==
    /\ upc[u] = "cancel"
    /\ Reply(u, "idle")
    /\ IF status \in {"approved", "cancelled"} THEN UNCHANGED <<status, version>>
       ELSE SetStatus("cancelled")
    /\ UNCHANGED <<region, obs, rev, source, claim, runVars, workVars, uregion, view>>

\* A request dies between two of its calls; a page that was loading is void.
Abandon(u) ==
    /\ upc[u] # "idle"
    /\ Reply(u, "idle")
    /\ uregion' = [uregion EXCEPT ![u] = None]
    /\ view' = IF upc[u] = "segments" THEN [view EXCEPT ![u] = NoPage] ELSE view
    /\ UNCHANGED <<rowVars, runVars, workVars>>

Request(u) ==
    \/ LoadRow(u) \/ LoadSegments(u) \/ Edit(u)
    \/ ApproveRead(u) \/ Approve(u) \/ Signal(u)
    \/ RestartRead(u) \/ (\E r \in Regions : Prepare(u, r)) \/ Launch(u)
    \/ CancelRead(u) \/ Stop(u) \/ MarkCancelled(u) \/ Abandon(u)

-----------------------------------------------------------------------------
(* The activity attempts.                                                  *)

At(r, s, n, pc) == apc[r][s][n] = pc
Move(r, s, n, pc) == apc' = [apc EXCEPT ![r][s][n] = pc] /\ UNCHANGED <<report, loaded>>

\* The attempt ends; its outcome counts if the run still waits for it.  (An
\* attempt that goes on keeps what it has loaded.)
End(r, s, n, outcome) ==
    /\ apc' = [apc EXCEPT ![r][s][n] = "off"]
    /\ report' = IF r = run /\ s = wf /\ n = wn THEN outcome ELSE report
    /\ loaded' = IF s = "consolidate" THEN [loaded EXCEPT ![r][n] = None] ELSE loaded

attemptVars == <<run, wf, wn, signalled, cancelling, payload, marking, userVars>>

\* Both activities return at once after publication and refuse a transcript
\* that is not processing.
ReadStatus(r, s, n) ==
    /\ At(r, s, n, "read")
    /\ \/ status \in {"waiting_for_review", "approved"} /\ End(r, s, n, "ok")
       \/ status = "processing" /\ Move(r, s, n, IF s = "ocr" THEN "begin" ELSE "load")
       \/ status \in {"failed", "cancelled"} /\ End(r, s, n, "fatal")
    /\ UNCHANGED <<rowVars, attemptVars>>

\* load_ocr_observations of a consolidation.
LoadObservations(r, n) ==
    /\ At(r, "consolidate", n, "load")
    /\ apc' = [apc EXCEPT ![r]["consolidate"][n] = "begin"]
    /\ loaded' = [loaded EXCEPT ![r][n] = obs]
    /\ UNCHANGED <<rowVars, report, attemptVars>>

Fingerprint(r, s, n) == IF s = "ocr" THEN payload[r] ELSE loaded[r][n]

\* begin_stage: the rows of all runs share the workflow id, so an attempt may
\* find the row of an earlier run; with other inputs that is a conflict, raised
\* outside the activity's try block.
Begin(r, s, n) ==
    /\ At(r, s, n, "begin")
    /\ \/ /\ claim[s][n] \in {None, Fingerprint(r, s, n)}
          /\ claim' = [claim EXCEPT ![s][n] = Fingerprint(r, s, n)]
          /\ Move(r, s, n, "work")
       \/ /\ claim[s][n] \notin {None, Fingerprint(r, s, n)}
          /\ End(r, s, n, "retry") /\ UNCHANGED claim
    /\ UNCHANGED <<status, version, region, obs, rev, source, attemptVars>>

\* Download, frames and OCR, then the observations replace those stored.
Recognize(r, n) ==
    /\ At(r, "ocr", n, "work")
    /\ \/ /\ status \in {"failed", "cancelled"}
          /\ End(r, "ocr", n, "fatal") /\ UNCHANGED rowVars
       \/ /\ status \notin {"failed", "cancelled"}
          /\ Move(r, "ocr", n, "finish") /\ ReplaceObservations(payload[r])
    /\ UNCHANGED attemptVars

Consolidate(r, n) ==
    /\ At(r, "consolidate", n, "work")
    /\ \/ /\ status \in {"failed", "cancelled"}
          /\ End(r, "consolidate", n, "fatal") /\ UNCHANGED rowVars
       \/ /\ status = "processing" /\ Published
          /\ End(r, "consolidate", n, "retry") /\ UNCHANGED rowVars
       \/ Move(r, "consolidate", n, "finish") /\ PublishSegments(loaded[r][n])
    /\ UNCHANGED attemptVars

\* The result is reported.
Finish(r, s, n) ==
    /\ At(r, s, n, "finish")
    /\ End(r, s, n, "ok")
    /\ UNCHANGED <<rowVars, attemptVars>>

\* Any call may raise; the media tools and the OCR engine also give up for good.
Raise(r, s, n) ==
    /\ apc[r][s][n] # "off"
    /\ \/ End(r, s, n, "retry")
       \/ At(r, s, n, "work") /\ s = "ocr" /\ End(r, s, n, "fatal")
    /\ UNCHANGED <<rowVars, attemptVars>>

Attempt(r, n) ==
    \/ \E s \in Stages : \/ ReadStatus(r, s, n) \/ Begin(r, s, n)
                         \/ Finish(r, s, n) \/ Raise(r, s, n)
    \/ LoadObservations(r, n) \/ Recognize(r, n) \/ Consolidate(r, n)

-----------------------------------------------------------------------------
(* The workflow source-transcript-v1.                                      *)

Schedule(s, n) ==
    /\ wf' = s /\ wn' = n /\ report' = None
    /\ apc' = [apc EXCEPT ![run][s][n] = "read"]
    /\ UNCHANGED <<signalled, cancelling, marking>>

\* The run leaves its activity, with or without a cancellation still to come;
\* what it was sent is lost when it closes.
Leave(state, pending) ==
    /\ wf' = state /\ wn' = 1 /\ report' = None
    /\ signalled' = (signalled /\ state \in Open)
    /\ cancelling' = (pending /\ state \in Open)
    /\ marking' = IF state = "mark" THEN marking \cup {run} ELSE marking
    /\ UNCHANGED apc

GoTo(state) == Leave(state, cancelling)

\* Mutant: one attempt more than maximum_attempts.
RetryOnceMore == IF wn <= MaxAttempts[wf] THEN Schedule(wf, wn + 1) ELSE GoTo("mark")

\* Mutant: the retry policy has no maximum_attempts.
RetryForever == Schedule(wf, IF wn < MaxAttempts[wf] THEN wn + 1 ELSE wn)

Retry == IF wn < MaxAttempts[wf] THEN Schedule(wf, wn + 1) ELSE GoTo("mark")

\* The current attempt reported its outcome.
Advance ==
    /\ wf \in Stages
    /\ \/ report = "ok" /\ wf = "ocr" /\ Schedule("consolidate", 1)
       \/ report = "ok" /\ wf = "consolidate" /\ GoTo("review")
       \/ report = "retry" /\ Retry
       \/ report = "fatal" /\ GoTo("mark")
    /\ UNCHANGED <<rowVars, run, payload, loaded, userVars>>

\* The current attempt missed its heartbeat or its deadline.
Timeout ==
    /\ wf \in Stages
    /\ report = None
    /\ Retry
    /\ UNCHANGED <<rowVars, run, payload, loaded, userVars>>

\* wait_condition on the approval.
Complete ==
    /\ wf = "review" /\ signalled
    /\ GoTo("completed")
    /\ UNCHANGED <<rowVars, run, payload, loaded, userVars>>

\* A cancellation ends the activity that the run waits for as an ActivityError,
\* which is caught like any other; in review it ends the run.
Cancel ==
    /\ cancelling /\ wf \in Open
    /\ Leave(IF wf \in Stages THEN "mark" ELSE "closed", FALSE)
    /\ UNCHANGED <<rowVars, run, payload, loaded, userVars>>

\* The mark has been reported, or its attempts are exhausted.
EndMark ==
    /\ wf = "mark"
    /\ GoTo("closed")
    /\ UNCHANGED <<rowVars, run, payload, loaded, userVars>>

\* An attempt of mark-source-transcript-failed-v1, maybe one given up long ago.
MarkFailed ==
    /\ marking # {}
    /\ FailTranscript
    /\ UNCHANGED <<runVars, workVars, userVars>>

Workflow == Advance \/ Timeout \/ Complete \/ Cancel \/ EndMark

-----------------------------------------------------------------------------

Next ==
    \/ \E u \in Users : Request(u)
    \/ \E r \in Runs, n \in Attempts : Attempt(r, n)
    \/ Workflow \/ MarkFailed

Spec == Init /\ [][Next]_vars

\* Temporal delivers outcomes, signals and cancellations and fires timeouts; the
\* attempts and the users may stop for good.
FairSpec == Spec /\ WF_vars(Workflow)

-----------------------------------------------------------------------------
(* Properties.                                                             *)

\* A run completes only behind an approval, and no late mark, cancellation or
\* restart takes the approval back.
CompletedIsApproved == wf = "completed" => status = "approved"

\* approve accepts exactly what the approving page shows: no edit of another
\* page and no publication of another run is between the load and the approval.
ApprovedAsSeen ==
    [][status # "approved" /\ status' = "approved" =>
           \E u \in Users : upc[u] = "approve" /\ view[u].rev = rev]_vars

\* Whatever becomes of its attempts, a run gets to the review or closes.
RunSettles == wf = "ocr" ~> wf \in {"review", "completed", "closed"}

\* Segments are published once over all runs, edited one revision at a time and
\* only in review, and frozen by the approval.
Gate == INSTANCE ReviewGate WITH
    gate <- IF status = "waiting_for_review" THEN "open"
            ELSE IF status = "approved" THEN "approved" ELSE "shut"

ImplementsReviewGate == Gate!Spec

\* docs/api-phase3.md: "Cancelled work may restart": a transcript put back to
\* work can still be published.
ProcessingCanPublish == status = "processing" => ~Published

\* docs/api-phase3.md: a transcript is started and restarted with the region its
\* row stores: what is up for review was read from that region.
ReviewIsOfRegion == status = "waiting_for_review" => source = region

=============================================================================
