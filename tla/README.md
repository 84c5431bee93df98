# Formal models of auto-video-sub

auto-video-sub turns an uploaded video into a translated, dubbed and subtitled
one. This directory holds TLA+ models of the parts of it that are hard to test:
transactions of concurrent requests, activities that are retried while the
attempt they replace is still running, and review states that users and
workflows change at the same time. TLC checks the models on small instances;
TLAPS proves what matters most for every value of the constants.

`PROJECT.json` lists components, runs, mutants, findings, hazards and theorems,
and maps every definition to the source lines it stands for.

## The system

A FastAPI application and a Temporal worker share a PostgreSQL database and an
S3 store. Users act through the API. Each phase of a video's processing is a
Temporal workflow whose activities run in the worker: an activity is attempted
a bounded number of times, an attempt that stops heartbeating is given up, and
nothing stops the process behind an attempt that was given up.

| Component | State it keeps | Operations | What is hard | What makes it correct |
| --- | --- | --- | --- | --- |
| Upload ledger (`infrastructure/repository.py`, `models.py`) | quota account, upload intents, media assets, artifacts, stage executions | create / replay with its expiry sweep, receive, reject, register original and proxy, stage begin and finish, status changes | one upload can be released by the sweep, a rejection and an acceptance; registration is repeated by retries | quota row equals what is published and covers what is live; publication once; acceptance is final |
| Upload service, object storage (`application/services.py`, `infrastructure/storage.py`) | staging and sealed objects | create intent, complete (HEAD, copy, HEAD, delete, mark, start) | decides on a state read without a lock; four store calls are not atomic; the client can PUT until expiry | a received upload is sealed; a sealed object does not change once registered |
| Media ingest (`worker/media_ingest_workflow.py`, `media_workflow.py`) | workflow run, attempts, proxy object | validate, generate proxy, mark failed | given-up attempts run on next to their successors; a commit whose caller fails | artifacts published once, in order, charged once; the ingest ends; a completed one is ready |
| Source transcript (`transcript_repository.py`, `application/transcript.py`, `source_transcript_*`, `domain/transcript.py`) | transcript state and version, observations, segments and revisions | start, restart, OCR, consolidate, publish, edit, approve, cancel | edits and approvals against versions; restarts over what an earlier run left; lost signals | edits survive; what is approved is what was seen; approval is final; segments say what the frames said |
| Translation (`translation_repository.py`, `provider_cost_translation_repository.py`, `application/translation.py`, `translation_*`) | state row, tone policies, contexts, batches, revisions of every segment | configure and start, publish and approve context, plan, translate batches, edit, finalize, approve, cancel | attempts and edits of a superseded policy; paid batches published by retries; statuses set unconditionally | an approved translation is complete in its tone; a batch is published once; nothing is sent before its context is approved; every run settles |
| Speech fitting (`speech_repository.py`, `application/speech.py`, `speech_*`, `domain/speech.py`) | state row, per-segment states, synthesis attempts | prepare, list, fit (read, mark, open, synthesize, rewrite, select), repair, finalize, approve, cancel, fail | bounded rewrites; attempts found by a key that leaves the run out; late fittings of an older text; repairs racing an approval | an attempt is decided once; a segment is fit only by an attempt that fits; a completed run has spoken every segment; every run settles |
| Rendering (`render_repository.py`, `application/rendering.py`, `render_*`) | render jobs, artifacts and their lineage | prepare, launch, bind, freeze, subtitles, encode, validate, mark failed, cancel | a manifest read row by row while the speech changes; registrations that look at no status; two runs on one job | what is frozen is spoken; a render succeeds only behind an output that passed validation |
| Subtitle styles (`subtitle_style_repository.py`) | versions of a style | default, new version | check then insert; a lock that is waited for | versions follow each other, a render pins one |
| Provider settings (`provider_settings.py`) | one file | read, change, replace | two processes | not modelled, see below |
| Identity and projects, provider adapters, HTTP API, web, schema, bootstrap and telemetry | none that the pipeline depends on | | | not modelled, see below |

The phases hand over through approvals: an approved transcript is what a
translation is of, an approved translation what speech is of, and a render
freezes the style with the attempts selected for every segment. Each phase can go
back while a later one is working: that is where most of the hazards are.

## Modules

| Module | What it is |
| --- | --- |
| `UploadLedger` | the rows and one action for each transaction |
| `MediaPipeline` | requests, browser, ingest workflow and activity attempts over the ledger and the store |
| `ArtifactCatalog` | the abstract specification the pipeline implements |
| `MCMediaPipeline` | finite instances of `MediaPipeline` |
| `SourceTranscript` | the transcript row and its segments, requests with stale pages, the runs of the transcript workflow and their attempts |
| `ReviewGate` | the abstract specification the transcript implements |
| `MCSourceTranscript` | finite instances of `SourceTranscript` |
| `Consolidation` | `consolidate_observations`, from the texts of frames to segments |
| `Translation` | the translation row, batches and revisions, requests, one run of the workflow for each tone policy and its attempts |
| `MCTranslation` | the finite instance of `Translation` |
| `SpeechBoard` | what speech promises to rendering: the texts, the segments' states and the outcomes of attempts |
| `SpeechFit` | the speech row, segments and attempts, requests, the runs with their queue of repairs; implements `SpeechBoard` |
| `MCSpeechFit` | the finite instance of `SpeechFit` |
| `RenderJob` | render jobs and their lineage, requests and runs, with `SpeechBoard` as the speech they read |
| `MCRenderJob` | the finite instance of `RenderJob` |
| `UploadLedgerProofs`, `MediaPipelineProofs`, `SourceTranscriptProofs`, `ConsolidationProofs`, `TranslationProofs`, `SpeechFitProofs`, `RenderJobProofs` | theorems and proofs |
| `LeastNumber` | two lemmas on natural numbers, in place of induction |

### UploadLedger

`reserved`, `active` and `used` are the owner's `quota_accounts` row; `istate`
and `declared` the upload intents; `mstatus` and `proxyId` the media assets;
`original`, `checksum` and `proxy` the two artifact rows (a size of 0 is "no
row"); `stage` the stage executions. An intent is unique for its idempotency
key and owns one media asset, so one key indexes them all. Each transaction
locks what it changes with `FOR UPDATE`, so it is one action; a transaction
that raises rolls back and is no action. The clock is `expired`, the set of
intents whose `expires_at` has passed.

### MediaPipeline

A request of `UploadService.complete` walks `rpc` from one store call or
transaction to the next: `head`, `copy`, `verify`, `drop`, `mark`, `start`, or
`reject`. It may be abandoned before any of them. `Put` is the browser, also
one whose PUT lands after the URL has expired. `wf` and `wn` are the Temporal
workflow: the activity it waits for and the current attempt. `apc` is where each
attempt is. `Timeout` makes the workflow go on to the next attempt without
touching the old one, which is how a missed heartbeat looks from the worker.
`Raise` lets any call of an attempt fail and sends it to the `except` clause
that catches it. `seen` and `length` are what an attempt carries from one call
to the next: the file it downloaded and the size that a later HEAD reported.

### ArtifactCatalog

What readers rely on: for each upload an original, then a proxy, each published
at most once, never changed, each charged once within the limit. The refinement
mapping is the identity on `original`, `checksum`, `proxy` and `used`.

### SourceTranscript

One READY media asset. `status`, `version` and `region` are its
`transcript_states` row; `obs` the region its stored observations were read
from; `rev` each segment's version (the segment's optimistic version and that of
its current revision move together, 0 is "no segment") and `source` the region
the segments come from. `claim` is what `begin_stage` compares: the input
fingerprint of each stage and attempt number, shared by all runs because they
share one workflow id. Each transaction locks the row, so it is one action.

A request walks `upc` through the service's calls: a load is two reads (row,
then segments), an approval reads, commits and signals, a restart reads,
prepares and launches, a cancellation reads, cancels the run and marks the row.
It may die between any two. `view` is the page a user has loaded, however long
ago; edits and approvals carry its versions. `Launch` is
`start_source_transcript` with `ALLOW_DUPLICATE_FAILED_ONLY`: a new run after a
failed or cancelled one, nothing while one is open or after a completed one.

`run`, `wf`, `wn` and `report` are the latest run, the activity and attempt it
waits for and what that attempt reported; `apc` and `loaded` are the attempts of
all runs, so attempts of a closed run go on beside those of the next.
`Timeout` gives an attempt up without stopping it. `marking` are the runs whose
failure mark was scheduled: the mark's attempts may commit at any later time, any
number of times.

Left out: texts, error codes (a second failure may or may not have another
code, and so may or may not be a new version), `workflow_id` and
`bind_workflow` (nothing decides on it), the outcome columns of stage
executions, and OCR passes without any text.

### ReviewGate

What translation relies on: segments are published once, while the gate is shut
and there are none; edits happen one revision at a time while it is open; an
approved gate and its segments never change. The refinement maps
`waiting_for_review` to open, `approved` to approved, the rest to shut.

### Consolidation

`Consolidated` is the function of `domain/transcript.py`: observations within the
media in the order of their times, grouped by text and gap, one segment for each
group. `Follow` is its reference definition, frame by frame and without groups:
what is on screen at every instant is what OCR read, with one missed frame bridged
and two not. `FramesAreFollowed` asks it of every reading of five frames, and
`SubtitlesFollowFrames` evaluates that with `SourceTranscript`, whose `Segments`
stand for the result. `Cleaned` sorts by rank (an observation stands behind those
that are earlier), which needs no sorting operator: TLC overrides the library's, and
its definition is out of the provers' sight.

### Translation

One approved transcript. `status`, `version`, `policy` are the
`translation_states` row; `ctx` is the status of the context it points at and
`bound` the policy whose run it names. A tone policy is the number of its version
row: configuring another one supersedes the translation, and the workflow id
carries the policy, so each policy has one run (`wf[p]`, with `wn` its attempt).
`head[s]` is the policy and version of a segment's current revision, `batch[p][i]`
a batch's status, `cloud` counts the provider's revisions. `Plan` is
`plan_translation_batches` on the transcript's times; `Accepted` are the answers
that `validate_translation_items` lets through.

A request walks `upc` with what it holds in `req`: starting prepares, launches and
binds; approving the context commits and signals; an edit reads, without a lock,
and writes; a cancellation reads and cancels the run in one step (nothing else
looks at the run between) and marks the row in another. Attempts of each activity
are `pc[p][job][n]`: a read, the paid call (publication included, since nothing
is shared in between) and the report; `Timeout` gives one up, which then goes on or
has died with its worker. `lot` is the policy of the batches a run was handed,
which need not be its own.

### SpeechBoard and SpeechFit

`text` and `approved` are the approvals of the translation, each with a new text
for every segment. `status`, `version`, `gen` (preparations) and `bound` are the
`speech_states` row, `seg[s]` a `speech_segment_states` row (state, text, selected
attempt), `att[s][t][i]` the outcome of the attempt with index `i`: the
idempotency key of `begin_attempt` is segment, text and index, and `i` is computed
from cycle and rewrites as the code does. A run holds its segments to fit, its
queue of repairs and each segment's cycle; `act[r]` is the attempt its workflow
waits for and `late` those that were given up. An attempt walks through the calls
of `fit_segment`: read the inputs, mark the segment, find or open the attempt,
synthesize and measure, then select, rewrite or ask for review, all on what it
holds, however old that is by now. `DecideFit` is `decide_duration_fit` in
integer arithmetic, with its rounding up.

`SpeechBoard` says what of all this rendering may rely on; `SpeechFit` implements
it under the identity on `text`, `approved`, `seg` and `att`.

### RenderJob

`RenderJob` EXTENDS `SpeechBoard` and takes any behaviour of it as the speech:
since `SpeechFit` implements it (proved), what holds of renders there holds with
the real speech. A `job` is a `render_jobs` row with its artifacts and the
`edges` of their lineage; a job is found by its input (style and tracks).
`start` reads the translation and the style (`PrepareRead`), one segment after
the other (`PrepareTrack`), then inserts, finds or renews the job (`Prepare`),
launches (`Launch`: the id is of the row's version, duplicates are rejected) and
binds (`Bind`). A run goes through freeze, render (subtitles, then the encoding),
validate, and the failure mark; registrations look at no status, as in the code.
`Speech` leaves out outcomes that do not fit, which are alike to a render, and
stops when no request can read the speech any more.

## Runs

| Run | Instance | States | Shows |
| --- | --- | --- | --- |
| `pipeline_uploads` | 2 uploads, 2 requests, 1 attempt an activity, storage for 3 of the 4 files | 739 370 (with symmetry) | the accounting and the upload states under overlapping requests, sweeps and ingests |
| `pipeline_attempts` | 1 upload, 1 request, 2 attempts an activity | 320 600 | zombie attempts, retries, timeouts, refinement of the catalog, termination |
| `pipeline_reservation` | as `pipeline_uploads` | violation | the double release (finding 1) |
| `pipeline_stored` | 1 upload, 2 requests, 2 contents of one size | violation | the overwritten original (finding 2) |
| `pipeline_ready` | as `pipeline_attempts` | violation | the regressed status (finding 3) |
| `transcript_runs` | 2 runs, 2 regions, 1 user, 1 attempt an activity, versions edited up to 4 | 1 063 575 | publication, completion and settling over restarts and attempts of closed runs; approval from stale pages; the consolidation of all readings of five frames |
| `translation_runs` | 2 policies, 2 segments in 2 batches, 2 attempts a batch, an editor and an owner, 1 late attempt, heads edited up to 2 | 260 000 | completeness of what is approved, publication once, context approval before any batch, settling |
| `speech_runs` | 1 segment, 2 texts, 2 preparations, 2 cycles, 1 rewrite, 3 requests, 2 syntheses, 1 late attempt | 398 000 | refinement of the board, completion, the fitting decision, settling |
| `render_runs` | 1 segment, 2 texts, 2 jobs, 2 runs, 3 requests, 1 late attempt, good and bad outputs | 683 598 | torn reads of the speech; success only behind an output that passed, under two runs and late registrations |
| `render_validated` | as `render_runs` | violation | the offered output that no validation has passed (finding 6) |
| `transcript_restart` | 2 runs, 1 region, 1 user | violation | the restart that cannot publish (finding 4) |
| `transcript_region` | 2 runs, 2 regions, 1 user | violation | the text of another region (finding 5) |

Two uploads are what it takes for one to lose its reservation to the other and
for the limit to refuse a registration after admission; two requests on one
intent give every overlap of two completions; two attempts an activity give a
given-up attempt next to its successor, and a third attempt only repeats the
second one's role. Storage for three of four files makes the last registration
fail. `Sizes` is `{1}` because the properties only compare sums with limits.
`Put` is bounded by `StagingReaders`: PUTs are explored while a request can
still look at the staging object.

Two runs of two regions give an attempt of a closed run beside the next run, the
clash of their stage rows, and observations of the wrong region. One user is
enough for stale pages: a load is two reads, with the run's publications between
them, and the page of a user goes stale by that user's own later edits and
restarts; the theorems on approvals hold for any number of users and of attempts.
`MaxVersion` 4 lets a transcript be published,
failed or cancelled in review, started again and failed again; the guard is on
edits, starts and repeated failures only, so every other transaction is explored
from each of those versions.

Two policies give attempts and edits that began under the older one; two batches
give one that is published beside one that is not; the editor and the owner are
one request each at a time, and an edit between another request's steps is what
matters. `MaxRevisions` bounds edits only. In the speech, a second preparation
gives a run that meets the attempts of the run before, two cycles a repair, and
two syntheses an old and a new outcome; the durations 5, 6 and 9 against a slot of
4 and a tolerance of 1 are one that fits, one that speed fits and one that only
another wording can. `MaxAsks` counts requests: three are a start and two others
(two starts and a cancellation, a start, a repair and an approval). In the render
two jobs are an old and a renewed manifest, and two runs of one job arise from a
start between registrations and binding. Retried attempts are explored in the
pipeline and translation runs; in those of the transcript, the speech and the
render an activity has one attempt, which goes on after it was given up, beside the
failure mark and the next run: that is the same overlap. `DecisionIsSound` and `PlanIsFewest` are
evaluated on slots up to 8 and speech up to 24, and on every transcript of up to
four segments around the limits. These and `SubtitlesFollowFrames` are about
functions of their arguments only; they are evaluated in the states where the
first run is about to begin, and the theorem `DecisionFits` has no such guard.

`VIEW Shifted` identifies states that differ by a shift of row versions and of the
versions that requests and runs hold: versions are compared and counted up, never
bounded or printed. In `MCRenderJob` it also forgets speech that no request can
read any more but whether the frozen tracks still fit. `CHECK_DEADLOCK FALSE` is
set where bounded requests, runs and texts let the system come to its end.

Fairness: `WF(Workflow(k))` for each upload, `WF(Workflow)` for the transcript,
`WF(Workflow(p))` for the run of each policy, `WF(Workflow(r))` for each run of
the speech; renders are checked for safety only. Temporal delivers outcomes and
fires timeouts; nothing is assumed of attempts, which may stop for good, nor of
requests and browsers. No run is promised to leave a wait: people may never come.

## Findings

1. `ReservationCoversLive`: `reject_upload` releases an intent that the sweep of
   another `create_upload_intent` has already set to EXPIRED and released. With
   another upload live, the account then holds less than is reserved, and
   admission can promise more storage than there is. `NoReservationLeak` (proved)
   is the direction that does hold.
2. `AvailableArtifactsStored`: a `complete` request whose state read is stale
   copies the staging object over the sealed original after registration; and
   the two `_delete_best_effort` calls may delete an object whose row exists.
3. `CompletedIsReady`: the unconditional `set_media_status` of a given-up
   attempt takes a completed asset out of READY for good.
4. `ProcessingCanPublish`: a transcript that was published and then cancelled or
   failed can be restarted, but `publish_ocr_segments` refuses a transcript that
   has segments: OCR runs again and the run always fails.
5. `ReviewIsOfRegion`: neither `replace_ocr_observations` nor
   `publish_ocr_segments` asks which run it works for; an attempt of the closed
   run fills and publishes the transcript that was started with a new region.
6. `SucceededIsValid`: `register_artifact` links a report to whatever output the
   row has by then, and a passed report makes the job succeeded. A start before
   the bind launches a second run; its output, registered after the first run's
   validation, is linked to the first run's report and offered, though no
   validation has passed it. `docs/roadmap.md:301` says "No final output is
   published before validation passes", and `docs/final-mvp-acceptance.md:47` that
   "no output becomes downloadable before backend render validation succeeds".
   `SucceededWasValidated` (proved) is what does hold: some output of this job's
   manifest and subtitles has passed.

## Behaviours the code allows and promises nothing about

These showed while modelling. Where a document speaks of one it is quoted; no run is
kept for them. The models take the code as it is, and the properties say what holds
nevertheless.

- Translation, edits: a publication (`Translate`) makes the provider's revision the
  head of each segment of its batch, whatever the origin of the head it replaces, so
  what a user has edited under one tone is translated again under the next.
  `docs/translation-context.md:20` says "User-edited translations keep their explicit
  user provenance and are not automatically rewritten merely to match a tone". A late
  `finalize_translation` of the older tone opens the review while the next tone is
  still being translated, and then an edit under the new tone can be lost as well.
  `HeadNeverRegresses` and `PublishedOnce` are what does hold: the head moves on, and
  a batch is published over it at most once for each tone.

- Translation: `edit_segment` reads the state without a lock and writes one more
  than the version it read, so a version can come back; `bind_workflow` does not
  compare the policy, so the run of a newer policy may never be launched;
  `approve_context` commits and then signals, and after a lost signal only a
  cancellation ends the run; usage is recorded after publication.
- Speech: `finalize`, `mark_failed` and `mark_cancelled` look at no status, so a
  repair that races an approval takes approved speech back to review with its run
  completed; the key of an attempt leaves out its wording and its run, so a run
  that is prepared again fits every segment from cycle 0 and meets the attempts of
  the run before; a run that was launched and not bound leaves a review that can
  neither be repaired nor approved; speech cannot be cancelled while the
  translation is not approved.
- Rendering: a start before the bind launches a second run, as registrations change
  the version in the workflow id, where `docs/subtitle-styling.md:52` says
  "Re-selecting identical canonical inputs resolves to the same render fingerprint
  and avoids duplicate work" (the fingerprint is the same, the work is done twice);
  finding 6 is one consequence. A late output takes a succeeded job back to
  validating; a cancelled job can succeed.
- Subtitle styles: `create_version` takes the lock of the latest row and, after
  waiting for it, gets that row although a newer one exists: the other save is
  overwritten unseen. `docs/subtitle-styling.md:56` asks to "Validate ownership,
  optimistic version, ...", and `docs/domain-model.md:98` to "Use optimistic version
  numbers on user-editable aggregates". Two first reads of a default conflict on the unique version.
- Provider settings: `configure` reads, changes and replaces the file under a lock
  of its own process: of two processes, one loses its update.

## Proofs

`UploadLedgerProofs` proves `LedgerInv` inductive for `LedgerSpec`, in which the
transactions are called by anyone in any order. Its parts: `LedgerTypeOK`;
`HoldsOK`, which is `NoReservationLeak` and the finiteness of the sets it
counts; `ChargesOK`, the same for `QuotaIsExact`; `AcceptedIffOriginal`;
`ReadyHasLineage`; `ProxyHasOriginal`. Sums of sizes are cardinalities of sets of
`<<key, byte>>` pairs (`Bytes`), so that adding a row adds a disjoint interval
(`BytesAdd`) and a release removes at most what the upload held (`ReleaseOne`);
no recursive sum is needed. The clamp of the release code is what keeps the
counters natural numbers when an upload is released twice.

`MediaPipelineProofs` shows that every step of the pipeline is a step of
`LedgerSpec` or leaves the rows alone (`StepIsTransaction`), which gives it the
ledger's theorems, and strengthens the process state with `Handoff` (what an
attempt carries to its registration is a real content and a real size),
`Published` (an attempt that is about to report success has a published row
behind it, whether it wrote or found it) and `Sealing` (before the workflow
starts no attempt exists, and a request past its copy has a sealed object).
`Refinement` follows: the only ledger steps that move the catalog's variables
are the first registrations.

`StagesArePublished` (a stage recorded as succeeded has its artifact) follows from
`Published`: an attempt reports success only behind a published row, and rows stay.

`SourceTranscriptProofs` first shows that all steps change status, version and
revisions in seven transactions (`StepIsTransaction`). `Refinement` needs no more:
each transaction is a step of the gate or a stutter. `CompletionApproved` follows
from `Consent`: the row's approval is ahead of every request that is about to
signal, of the signal and of the completion, and no transaction takes it back.
`ApprovalSeen` follows from `Seen`: no page is ahead of the transcript, and a
complete page of the current version shows the current revisions, because every
transaction that changes a revision is a new version (`TransactionFacts`); the
window between the two reads of a load is covered, since the row is read first.
`TypeCorrect` needs `Started` (a run past "none" has a number). `SubtitlesFollow`
is an instance of the next theorem.

`ConsolidationProofs`: `ConsolidationFollows` is about every reading of any number of
frames, any interval and any length of the media. `CleanedInOrder` counts: ranks are
an injection of a finite set into as many numbers, so each place has its observation.
`GroupedSteps` takes the fold apart into one step for each observation, and
`CoverGrows` carries `Cover` along them (a group is an interval of observations, each
repeating the one before, and the next group starts with one that does not).
`CoverSpans` translates this into frames, where a gap of two intervals is a single
blank frame (`FrameTimes`), and `SpansFollow` compares the result with the frames,
instant by instant.

`TranslationProofs`: `GreedyIsFewest` proves of the batch planner that no division
into consecutive batches within the limits has fewer, for all transcripts and limits:
from the last segment down, the rest of a division that starts later never needs more
batches. `BatchesPublishedOnce` needs that revisions of the provider come only with a
batch that was not published before (`CloudStep`), whatever attempts, edits and
policies do, and that the batches of a plan share no segment and leave none out
(`PlanFacts`). `TypeCorrect` includes that no attempt beyond
those granted is scheduled.
`ApprovalComplete` needs that no step takes a completed
segment back, so it comes with `HeadsAdvance`: an edit writes only over the very
revision it has seen, and publications are for the current policy. `BatchesApproved`
needs that an approved context is never replaced, and that a new policy has no
batches, whatever attempts of older policies do then.

`SpeechFitProofs`: `DecisionCases` is about the rounding-up alone
(`CeilingIsLeast`), and gives `DecisionFits` for every slot, duration and limit,
`DecisionsAreSound` and that only measured outcomes are decided. The invariant has
one part for the board (`BoardInv`), one for the runs (`WorkInv`), one for the row
and one for the requests. The heart is `AtWork`: an attempt is at a call only when
the outcome it read is what the call takes it for, and `Lasting` keeps that true
for attempts of any run, since decided outcomes stay. `RunOK` counts the queue of
repairs, so that every granted repair finds a cycle, and carries "spoken" from the
fittings to the completion. `StepIsBoardStep` then is the refinement.

`RenderJobProofs`: `StepIsTransaction` reduces every step to the few transactions on
one row; `RowInv` says that the edges of a row are those its registered artifacts
imply, `Ready` that an attempt is at a call only when its job has what the call
links to, `FrozenInv` that the tracks of requests and rows are of attempts that fit,
which `SpeechBoard` keeps (`FitKept`). `Ready` also carries, with an attempt that is
about to validate, that its output was made from the job's manifest and subtitles
(`Sourced`), so a report that passed has a valid output behind it (`Reportable`).
`SuccessValidated` and `CompletionsRendered` follow although two runs register on one
row, as registrations only add edges.

Assumptions: sizes are positive naturals, each content's size is one of them, the
limits are naturals, each activity is granted at least one attempt; a transcript
has at least one segment, and a batch's limits are positive; slots, units and
durations are positive and the fastest speed is not below 1; the names of outputs
and of the other artifacts differ; bounds are naturals. Nothing is assumed about
how many uploads, requests, users, runs or attempts there are.

The library's induction theorems take an operator as a parameter, which the provers
cannot instantiate. Where a proof needs induction (on observations, on batches) it
takes the least counterexample (`Least` of `LeastNumber`, from the well-foundedness
of `<`) and refutes it. Recursion is in recursive functions and folds, whose
definitions the provers do expand.

Model-checked only: `IngestEnds` and the `RunSettles` (liveness under fairness,
which TLAPS does not prove here), and the violations. Every invariant and every
action property of a passing run is stated by a theorem.

## Not modelled

- User bootstrap and project creation: one guarded insert each.
- Object checksums, probe results and MIME types: folded into the nondeterministic
  verdict of `Download`; two contents of one size stand for what a size check
  cannot tell apart.
- Row-lock acquisition order: a transaction is atomic here. The code takes locks
  in different orders (see the `deadlock` hazard), which can abort a transaction
  but not interleave it.
- Texts, glossary entries, quality findings, tokens and costs: the repository in
  use reserves nothing and refuses nothing on cost.
- Audio files and their lineage; changes of voice and fitting policy; the layout of
  subtitles, audio policies and encoder arguments; the values of a style.
- The version check of a style's save and the settings file: described above; each
  is a race of one statement, not of the pipeline's steps.
- Provider adapters (external programs and services; their callers take any
  outcome), HTTP parsing and authentication, the web client, migrations, worker
  start-up, telemetry.

## Plan

Done: `UploadLedger`, `MediaPipeline`, `ArtifactCatalog`; `SourceTranscript`,
`ReviewGate`, `Consolidation`; `Translation`; `SpeechBoard`, `SpeechFit`;
`RenderJob`; and their proofs. Left: liveness of renders (the instance that gives
two runs on one job is too large for it); the acquisition orders of the upload
transactions; of the hazards without a property, the two a model reaches best: a late
repair against an approval of speech, and the row of a newer policy that an older
request binds.
