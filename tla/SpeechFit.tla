----------------------------- MODULE SpeechFit -----------------------------
(***************************************************************************)
(* The speech of one approved translation: its row of speech_states, the   *)
(* state of every segment, the synthesis attempts, the requests of         *)
(* SpeechService and the runs of the Temporal workflow speech-fit-v1, one  *)
(* per preparation, with attempts of activities that go on after they were *)
(* given up.                                                               *)
(*                                                                         *)
(* The translation is seen through its approvals: each brings a new text   *)
(* for every segment.  The provider, voice and fitting policy are those of *)
(* the deployment and do not change; a synthesis attempt is then found by  *)
(* its segment, text and index alone.  Audio is its duration against the   *)
(* segment's slot; the wording of a repair is left out.                    *)
(***************************************************************************)
EXTENDS Integers, Sequences, FiniteSets

CONSTANTS
    Last,            \* the segments are 1..Last
    Slot, Tolerance, \* duration of a segment, and what speech may exceed it by
    Unit, MaxSpeed,  \* speed 1 and the fastest speed (a million parts per million ...)
    MaxRewrites,     \* rewrites before a person is asked
    Durations,       \* durations of trimmed speech
    Users,           \* pages and scripts, one request at a time each
    MaxAttempts,     \* attempts the workflow grants each activity
    MaxTexts,        \* bounds on the approvals of the translation,
    MaxRuns,         \* on the preparations of the speech,
    MaxCycles,       \* on the fittings of a segment in a run,
    MaxAsks,         \* on the requests,
    MaxSyntheses,    \* on the synthesis attempts,
    MaxLate          \* and on the attempts at work that were given up

Segments == 1..Last
Runs     == 1..MaxRuns
Width    == MaxRewrites + 1
Indices  == 0..MaxCycles * Width - 1
Jobs     == {"list", "fit", "finalize", "mark"}

ASSUME FittingIsNat ==
    /\ Last \in Nat \ {0} /\ Slot \in Nat \ {0} /\ Tolerance \in Nat
    /\ Unit \in Nat \ {0} /\ MaxSpeed \in Nat /\ MaxSpeed >= Unit /\ MaxRewrites \in Nat
    /\ Durations \subseteq Nat \ {0}
ASSUME BoundsAreNat ==
    /\ MaxTexts \in Nat \ {0} /\ MaxRuns \in Nat /\ MaxCycles \in Nat \ {0}
    /\ MaxAsks \in Nat /\ MaxSyntheses \in Nat /\ MaxLate \in Nat
    /\ MaxAttempts \in [Jobs -> Nat \ {0}]

-----------------------------------------------------------------------------
(* decide_duration_fit.                                                    *)

Target(slot)         == slot + Tolerance
Ceiling(a, b)        == (a + b - 1) \div b
Decision(action, sp) == [action |-> action, speed |-> sp]

\* Mutant: the speed is rounded down.
DecideFloor(slot, trimmed, used) ==
    LET required == (trimmed * Unit) \div Target(slot)
    IN  CASE trimmed <= Target(slot) -> Decision("accept", Unit)
          [] trimmed > Target(slot) /\ required <= MaxSpeed -> Decision("speed_up", required)
          [] trimmed > Target(slot) /\ required > MaxSpeed ->
                Decision(IF used < MaxRewrites THEN "rewrite" ELSE "review", Unit)

DecideFit(slot, trimmed, used) ==
    LET required == Ceiling(trimmed * Unit, Target(slot))
    IN  CASE trimmed <= Target(slot) -> Decision("accept", Unit)
          [] trimmed > Target(slot) /\ required <= MaxSpeed -> Decision("speed_up", required)
          [] trimmed > Target(slot) /\ required > MaxSpeed ->
                Decision(IF used < MaxRewrites THEN "rewrite" ELSE "review", Unit)

\* What comes of a synthesis: speeding up may still come out too long.
Outcomes(used) ==
    UNION {CASE DecideFit(Slot, d, used).action = "accept"   -> {"fit"}
             [] DecideFit(Slot, d, used).action = "speed_up" -> {"fit", "needs_review"}
             [] DecideFit(Slot, d, used).action = "rewrite"  -> {"rewrite_required"}
             [] DecideFit(Slot, d, used).action = "review"   -> {"needs_review"} : d \in Durations}

-----------------------------------------------------------------------------

VARIABLES
    text, approved,          \* the latest translation, and whether it is approved
    status, version,         \* the speech_states row,
    gen, bound,              \* its preparations and the run it names, 0 = none
    seg, att,                \* speech_segment_states; outcomes of speech_attempts
    run,                     \* per run of the workflow: where it is
    act, late,               \* the attempt at work for a run, and those given up
    upc, req, asked          \* where a request is, and what it holds; requests made

textVars == <<text, approved>>
rowVars  == <<status, version, gen, bound>>
workVars == <<run, act, late>>
userVars == <<upc, req, asked>>
vars     == <<textVars, rowVars, seg, att, workVars, userVars>>

Statuses  == {"none", "processing", "waiting_for_review", "approved", "failed", "cancelled"}
SegStates == {"none", "pending", "fitting", "fit", "needs_review"}
None      == <<0, 0>>
NewRow    == [state |-> "none", text |-> 0, cur |-> None]
Fresh     == [state |-> "pending", text |-> text, cur |-> None]

\* A run: its activity or wait, the segment and cycle being fitted, the attempt's
\* number, the repairs asked for, the next cycle of each segment, its approval.
NoRun == [at |-> "none", seg |-> 1, cycle |-> 0, n |-> 1, queue |-> <<>>,
          cycles |-> [s \in Segments |-> 1], yes |-> FALSE]
Open   == Jobs \cup {"wait"}
Closed == {"completed", "closed"}

\* An attempt of an activity: its run, its next call, and for a fitting what it
\* was asked for, the text it has read and the rewrites it has made.
Places == {"idle", "list", "read", "fitting", "begin", "synthesize", "select", "review",
           "rewrite", "finalize", "mark"}
Idle   == [run |-> 1, at |-> "idle", seg |-> 1, cycle |-> 0, text |-> 0, used |-> 0]
Work   == [run : Runs, at : Places, seg : Segments, cycle : 0..MaxCycles - 1,
           text : 0..MaxTexts, used : 0..MaxRewrites]

NoReq == [run |-> 0, version |-> 0, seg |-> 1]

TypeOK ==
    /\ text \in 1..MaxTexts /\ approved \in BOOLEAN
    /\ status \in Statuses /\ version \in Nat /\ gen \in 0..MaxRuns /\ bound \in 0..MaxRuns
    /\ seg \in [Segments -> [state : SegStates, text : 0..MaxTexts,
                             cur : {None} \cup ((1..MaxTexts) \X Indices)]]
    /\ att \in [Segments -> [1..MaxTexts -> [Indices ->
                  {"none", "open", "fit", "rewrite_required", "needs_review", "failed"}]]]
    /\ \A r \in Runs :
          /\ run[r].at \in Open \cup Closed \cup {"none"}
          /\ run[r].seg \in Segments /\ run[r].cycle \in 0..MaxCycles - 1
          /\ run[r].at \in Jobs => run[r].n \in 1..MaxAttempts[run[r].at]
          /\ run[r].queue \in Seq(Segments) /\ run[r].yes \in BOOLEAN
          /\ run[r].cycles \in [Segments -> 1..MaxCycles]
    /\ act \in [Runs -> Work] /\ late \subseteq Work
    /\ upc \in [Users -> {"idle", "launch", "bind", "repair", "approve", "signal", "cancel"}]
    /\ req \in [Users -> [run : 0..MaxRuns, version : Nat, seg : Segments]]
    /\ asked \in 0..MaxAsks

Init ==
    /\ text = 1 /\ approved = TRUE
    /\ status = "none" /\ version = 0 /\ gen = 0 /\ bound = 0
    /\ seg = [s \in Segments |-> NewRow]
    /\ att = [s \in Segments |-> [t \in 1..MaxTexts |-> [i \in Indices |-> "none"]]]
    /\ run = [r \in Runs |-> NoRun]
    /\ act = [r \in Runs |-> Idle]
    /\ late = {}
    /\ upc = [u \in Users |-> "idle"]
    /\ req = [u \in Users |-> NoReq]
    /\ asked = 0

-----------------------------------------------------------------------------
(* The rows' transactions.                                                 *)

SetStatus(new) == status' = new /\ version' = version + 1 /\ UNCHANGED <<gen, bound>>
AllFit         == \A s \in Segments : seg[s].state = "fit"

\* prepare: the same speech is joined while it is wanted; otherwise it starts
\* over, with the segments that fit the text, unless work is in progress.
PrepareJoins ==
    /\ status \in {"processing", "waiting_for_review", "approved"}
    /\ \A s \in Segments : seg[s].state # "none" /\ seg[s].text = text
Kept(s) == seg[s].text = text /\ seg[s].state = "fit" /\ seg[s].cur # None
PrepareRenews ==
    /\ ~PrepareJoins /\ status # "processing" /\ gen < MaxRuns
    /\ status' = "processing" /\ version' = version + 1
    /\ gen' = gen + 1 /\ bound' = 0
    /\ seg' = [s \in Segments |-> IF Kept(s) THEN seg[s] ELSE Fresh]

\* begin_attempt: the row with this key, or a new one.
BeginAttempt(s, t, i) ==
    att' = IF att[s][t][i] # "none" THEN att ELSE [att EXCEPT ![s][t][i] = "open"]

\* Mutant: the last to finish decides.
FinishLast(s, t, i, outcome) == att' = [att EXCEPT ![s][t][i] = outcome]

\* finish_attempt, mark_attempt_failed: the first to finish decides.
Finish(s, t, i, outcome) ==
    att' = IF att[s][t][i] # "open" THEN att ELSE [att EXCEPT ![s][t][i] = outcome]

\* _set_segment looks neither at the state of the segment nor at its text.
SetSegment(s, state, cur) ==
    seg' = [seg EXCEPT ![s].state = state, ![s].cur = cur]

\* approve: of the version that was shown.
ApproveRow(expected) ==
    /\ version = expected /\ status = "waiting_for_review"
    /\ AllFit
    /\ SetStatus("approved")

\* Mutant: a segment in review is good enough for an automatic approval.
ReviewedStatus ==
    IF \A s \in Segments : seg[s].cur # None THEN "approved" ELSE "waiting_for_review"

\* finalize_speech, set_speech_status and mark_cancelled look at no status; no
\* code puts a segment in state FAILED.
FinalStatus == IF AllFit THEN "approved" ELSE "waiting_for_review"

FinalizeRow == SetStatus(FinalStatus)
FailRow     == SetStatus("failed")
CancelRow   == SetStatus("cancelled")

-----------------------------------------------------------------------------
(* The workflow speech-fit-v1.                                             *)

Begin(r, next) ==
    [Idle EXCEPT !.run = r, !.at = IF next.at = "fit" THEN "read" ELSE next.at,
                 !.seg  = IF next.at = "fit" THEN next.seg ELSE 1,
                 !.cycle = IF next.at = "fit" THEN next.cycle ELSE 0]

\* The run goes on to its next activity or wait; a closed run forgets the rest.
RunTo(r, next) ==
    /\ run' = [run EXCEPT ![r] = IF next.at \in Closed THEN [NoRun EXCEPT !.at = next.at] ELSE next]
    /\ act' = [act EXCEPT ![r] = IF next.at \in Jobs THEN Begin(r, next) ELSE Idle]

Go(r, at)  == [run[r] EXCEPT !.at = at, !.n = 1]
Fit(r, s)  == [Go(r, "fit") EXCEPT !.seg = s, !.cycle = 0]

\* The loop of repairs, until the speech is approved.
Resume(r) ==
    IF run[r].yes THEN Go(r, "completed")
    ELSE IF run[r].queue = <<>> THEN Go(r, "wait")
    ELSE LET s == Head(run[r].queue)
         IN  [Fit(r, s) EXCEPT !.cycle = run[r].cycles[s], !.queue = Tail(@),
                               !.cycles[s] = IF @ < MaxCycles THEN @ + 1 ELSE @]

AfterFit(r) ==
    IF run[r].cycle = 0 /\ run[r].seg < Last THEN Fit(r, run[r].seg + 1) ELSE Go(r, "finalize")

AfterError(r) == [NoRun EXCEPT !.at = IF run[r].at = "mark" THEN "closed" ELSE "mark"]

\* Mutant: the retry policy has no maximum_attempts.
RetryForever(r) ==
    IF run[r].n < MaxAttempts[run[r].at] THEN [run[r] EXCEPT !.n = @ + 1] ELSE run[r]

\* Mutant: one attempt more than maximum_attempts.
RetryOnceMore(r) ==
    IF run[r].n <= MaxAttempts[run[r].at] THEN [run[r] EXCEPT !.n = @ + 1] ELSE AfterError(r)

AfterRetry(r) ==
    IF run[r].n < MaxAttempts[run[r].at] THEN [run[r] EXCEPT !.n = @ + 1] ELSE AfterError(r)

\* An attempt that is given up goes on, or has died with its worker; one that only
\* reads may as well have died.
GiveUp(r) ==
    \/ late' = late
    \/ /\ Cardinality(late) < MaxLate /\ act[r].at # "list"
       /\ late' = late \cup {act[r]}

\* The activity missed its heartbeat or its deadline.
Timeout(r) ==
    /\ run[r].at \in Jobs
    /\ GiveUp(r) /\ RunTo(r, AfterRetry(r))
    /\ UNCHANGED <<textVars, rowVars, seg, att, userVars>>

\* wait_condition on an approval or a repair.
Proceed(r) ==
    /\ run[r].at = "wait" /\ (run[r].yes \/ run[r].queue # <<>>)
    /\ RunTo(r, Resume(r))
    /\ UNCHANGED <<textVars, rowVars, seg, att, late, userVars>>

\* An activity that is cancelled ends as an ActivityError, which is caught like any
\* other; in the wait and in the failure mark a cancellation ends the run.
Cancel(r) ==
    \/ run[r].at \in Jobs /\ GiveUp(r) /\ RunTo(r, AfterError(r))
    \/ run[r].at = "wait" /\ RunTo(r, Go(r, "closed")) /\ UNCHANGED late

Workflow(r) == Timeout(r) \/ Proceed(r)

-----------------------------------------------------------------------------
(* The requests of SpeechService; each reads a snapshot first, which takes  *)
(* an approved translation.                                                 *)

Goto(u, state, r) ==
    /\ upc' = [upc EXCEPT ![u] = state] /\ req' = [req EXCEPT ![u] = r]
    /\ asked' = IF upc[u] = "idle" THEN asked + 1 ELSE asked
    /\ asked' <= MaxAsks
Done(u)           == Goto(u, "idle", NoReq)
Holding(r)        == [NoReq EXCEPT !.run = r]

\* start, up to prepare.
Prepare(u) ==
    /\ upc[u] = "idle" /\ approved
    /\ PrepareRenews \/ (PrepareJoins /\ UNCHANGED <<rowVars, seg>>)
    /\ IF status' = "processing" /\ bound' = 0 THEN Goto(u, "launch", Holding(gen')) ELSE Done(u)
    /\ UNCHANGED <<textVars, att, workVars>>

\* start_speech: REJECT_DUPLICATE, and only an open or a completed run counts as
\* started.
Launch(u) ==
    LET r == req[u].run IN
    /\ upc[u] = "launch"
    /\ IF run[r].at = "none" THEN RunTo(r, Go(r, "list")) ELSE UNCHANGED <<run, act>>
    /\ IF run[r].at = "closed" THEN Done(u) ELSE Goto(u, "bind", req[u])
    /\ UNCHANGED <<textVars, rowVars, seg, att, late>>

\* bind_workflow.
Bind(u) ==
    /\ upc[u] = "bind" /\ Done(u)
    /\ bound' = IF bound = 0 THEN req[u].run ELSE bound
    /\ UNCHANGED <<textVars, status, version, gen, seg, att, workVars>>

InReview == approved /\ status = "waiting_for_review" /\ bound # 0

\* retry_segment: a repair of a segment, by signal to the run.
RepairRead(u) ==
    /\ upc[u] = "idle" /\ InReview
    /\ \E s \in Segments : Goto(u, "repair", [Holding(bound) EXCEPT !.seg = s])
    /\ UNCHANGED <<textVars, rowVars, seg, att, workVars>>

Repair(u) ==
    LET r == req[u].run  s == req[u].seg IN
    /\ upc[u] = "repair" /\ Done(u)
    /\ IF run[r].at \in Open
       THEN /\ run[r].cycles[s] + Len(run[r].queue) < MaxCycles
            /\ run' = [run EXCEPT ![r].queue = Append(@, s)]
       ELSE UNCHANGED run
    /\ UNCHANGED <<textVars, rowVars, seg, att, act, late>>

\* approve: of what the snapshot or an earlier page shows.
ApproveRead(u) ==
    /\ upc[u] = "idle" /\ InReview /\ AllFit
    /\ Goto(u, "approve", [Holding(bound) EXCEPT !.version = version])
    /\ UNCHANGED <<textVars, rowVars, seg, att, workVars>>

\* The row answers that it is approved already, or the rest is tried.
ApproveCommit(u) ==
    /\ upc[u] = "approve"
    /\ \/ ApproveRow(req[u].version) /\ Goto(u, "signal", Holding(req[u].run))
       \/ /\ version # req[u].version \/ status # "waiting_for_review" \/ ~AllFit
          /\ IF version = req[u].version /\ status = "approved"
             THEN Goto(u, "signal", Holding(req[u].run)) ELSE Done(u)
          /\ UNCHANGED rowVars
    /\ UNCHANGED <<textVars, seg, att, workVars>>

Signal(u) ==
    /\ upc[u] = "signal" /\ Done(u)
    /\ run' = IF run[req[u].run].at \in Open THEN [run EXCEPT ![req[u].run].yes = TRUE] ELSE run
    /\ UNCHANGED <<textVars, rowVars, seg, att, act, late>>

\* cancel, of the run the row names: the run is cancelled first and the row then.
Stop(u) ==
    /\ upc[u] = "idle" /\ approved /\ status \notin {"none", "cancelled", "approved"}
    /\ Goto(u, "cancel", NoReq)
    /\ IF bound # 0 /\ run[bound].at \in Open THEN Cancel(bound) ELSE UNCHANGED workVars
    /\ UNCHANGED <<textVars, rowVars, seg, att>>

MarkCancelled(u) ==
    /\ upc[u] = "cancel" /\ Done(u)
    /\ CancelRow
    /\ UNCHANGED <<textVars, seg, att, workVars>>

\* A request dies between two of its calls, or is never made.
Abandon(u) ==
    /\ upc[u] # "idle" /\ Done(u)
    /\ UNCHANGED <<textVars, rowVars, seg, att, workVars>>

Request(u) ==
    \/ Prepare(u) \/ Launch(u) \/ Bind(u)
    \/ RepairRead(u) \/ Repair(u)
    \/ ApproveRead(u) \/ ApproveCommit(u) \/ Signal(u)
    \/ Stop(u) \/ MarkCancelled(u) \/ Abandon(u)

-----------------------------------------------------------------------------
(* The activity attempts: "a" is at work, "live" if its run still waits for *)
(* it.                                                                      *)

Index(a) == a.cycle * Width + a.used

\* The attempt goes on to its next call.
Continue(a, live, b) ==
    /\ IF live THEN act' = [act EXCEPT ![a.run] = b] /\ UNCHANGED late
       ELSE late' = (late \ {a}) \cup {b} /\ UNCHANGED act
    /\ UNCHANGED run

\* The attempt ends, and its run, if it still waits for it, goes on to "next".
End(a, live, next) ==
    IF live THEN RunTo(a.run, next) /\ UNCHANGED late
    ELSE late' = late \ {a} /\ UNCHANGED <<run, act>>

\* list_segments: inputs that are not approved are an error to be retried.
ListSegments(a, live) ==
    /\ a.at = "list" /\ approved
    /\ End(a, live, Fit(a.run, 1))
    /\ UNCHANGED <<textVars, rowVars, seg, att, userVars>>

\* fit_segment, call by call.
ReadInputs(a, live) ==
    /\ a.at = "read" /\ approved
    /\ Continue(a, live, [a EXCEPT !.at = "fitting", !.text = text])
    /\ UNCHANGED <<textVars, rowVars, seg, att, userVars>>

MarkFitting(a, live) ==
    /\ a.at = "fitting"
    /\ SetSegment(a.seg, "fitting", seg[a.seg].cur)
    /\ Continue(a, live, [a EXCEPT !.at = "begin"])
    /\ UNCHANGED <<textVars, rowVars, att, userVars>>

\* What the outcome of its synthesis attempt means for the fitting.
React(a, live, outcome) ==
    IF outcome = "failed" THEN End(a, live, AfterError(a.run))
    ELSE Continue(a, live, [a EXCEPT !.at =
            CASE outcome = "open" -> "synthesize"   [] outcome = "fit" -> "select"
              [] outcome = "needs_review" -> "review" [] outcome = "rewrite_required" -> "rewrite"])

\* begin_attempt, and the audio it stores.
Syntheses == {x \in Segments \X (1..MaxTexts) \X Indices : att[x[1]][x[2]][x[3]] # "none"}

OpenAttempt(a, live) ==
    /\ a.at = "begin" /\ Cardinality(Syntheses) < MaxSyntheses
    /\ BeginAttempt(a.seg, a.text, Index(a))
    /\ React(a, live, att'[a.seg][a.text][Index(a)])
    /\ UNCHANGED <<textVars, rowVars, seg, userVars>>

Synthesize(a, live) ==
    /\ a.at = "synthesize"
    /\ \E outcome \in Outcomes(a.used) : Finish(a.seg, a.text, Index(a), outcome)
    /\ React(a, live, att'[a.seg][a.text][Index(a)])
    /\ UNCHANGED <<textVars, rowVars, seg, userVars>>

\* The provider refuses the text for good.
RefuseText(a, live) ==
    /\ a.at = "synthesize"
    /\ Finish(a.seg, a.text, Index(a), "failed")
    /\ End(a, live, AfterError(a.run))
    /\ UNCHANGED <<textVars, rowVars, seg, userVars>>

Select(a, live, state) ==
    /\ SetSegment(a.seg, state, <<a.text, Index(a)>>)
    /\ End(a, live, AfterFit(a.run))
    /\ UNCHANGED <<textVars, rowVars, att, userVars>>

\* A shorter wording is tried, unless the rewriter has none or it is one too many.
Rewrite(a, live) ==
    /\ a.at = "rewrite"
    /\ \/ Select(a, live, "needs_review")
       \/ /\ a.used < MaxRewrites
          /\ Continue(a, live, [a EXCEPT !.at = "begin", !.used = @ + 1])
          /\ UNCHANGED <<textVars, rowVars, seg, att, userVars>>

SelectAttempt(a, live) ==
    \/ a.at = "select" /\ Select(a, live, "fit")
    \/ a.at = "review" /\ Select(a, live, "needs_review")

Finalize(a, live) ==
    /\ a.at = "finalize"
    /\ FinalizeRow
    /\ \/ End(a, live, IF status' = "approved" THEN Go(a.run, "completed") ELSE Resume(a.run))
       \/ live /\ End(a, live, AfterRetry(a.run))
    /\ UNCHANGED <<textVars, seg, att, userVars>>

MarkFailed(a, live) ==
    /\ a.at = "mark"
    /\ FailRow
    /\ \/ End(a, live, Go(a.run, "closed"))
       \/ live /\ End(a, live, AfterRetry(a.run))
    /\ UNCHANGED <<textVars, seg, att, userVars>>

\* Any call may raise, an unapproved translation among the reasons.
Raise(a, live) ==
    /\ a.at # "idle"
    /\ End(a, live, IF live THEN AfterRetry(a.run) ELSE run[a.run])
    /\ UNCHANGED <<textVars, rowVars, seg, att, userVars>>

Attempt(a, live) ==
    \/ ListSegments(a, live) \/ ReadInputs(a, live) \/ MarkFitting(a, live)
    \/ OpenAttempt(a, live) \/ Synthesize(a, live) \/ RefuseText(a, live)
    \/ SelectAttempt(a, live) \/ Rewrite(a, live)
    \/ Finalize(a, live) \/ MarkFailed(a, live) \/ Raise(a, live)

-----------------------------------------------------------------------------

\* The translation is done again, for another tone, and approved.
Translation ==
    /\ text < MaxTexts
    /\ \/ approved /\ approved' = FALSE /\ UNCHANGED text
       \/ ~approved /\ approved' = TRUE /\ text' = text + 1
    /\ UNCHANGED <<rowVars, seg, att, workVars, userVars>>

Next ==
    \/ Translation
    \/ \E u \in Users : Request(u)
    \/ \E r \in Runs : Workflow(r) \/ Attempt(act[r], TRUE)
    \/ \E a \in late : Attempt(a, FALSE)

Spec == Init /\ [][Next]_vars

\* Temporal fires timeouts and delivers what a run was sent; the attempts, the users
\* and the translation may stop for good.
FairSpec == Spec /\ \A r \in Runs : WF_vars(Workflow(r))

-----------------------------------------------------------------------------
(* Properties.                                                             *)

\* The rendering takes the audio of the selected attempt: over retries, repairs and
\* late attempts of other runs, attempts are decided once, a segment is fit only by
\* an attempt that fits, and goes back only for an approved text.
Board == INSTANCE SpeechBoard
ImplementsSpeechBoard == Board!BoardSpec

\* finalize and approve, with runs, repairs and re-translations between them: a run
\* ends as approved only when every segment has had speech that fits.
CompletedIsSpoken ==
    \A r \in Runs : run[r].at = "completed" =>
        \A s \in Segments : \E t \in 1..text, i \in Indices : att[s][t][i] = "fit"

\* The speed that is asked of the audio tool is admissible, fits and is the least
\* that does; only speech that no admissible speed can fit is rewritten, as long as
\* the budget lasts, and then reviewed.  It is evaluated where a preparation is done
\* and no run has begun.
DecisionIsSound ==
    gen # 0 /\ (\A r \in Runs : run[r].at = "none") =>
    \A slot \in 1..8, trimmed \in 1..24, used \in 0..MaxRewrites + 1 :
        LET d == DecideFit(slot, trimmed, used)
            Fits(speed) == trimmed * Unit <= Target(slot) * speed
        IN  /\ d.action = "accept" <=> trimmed <= Target(slot)
            /\ d.action = "speed_up" => /\ d.speed \in Unit + 1..MaxSpeed
                                        /\ Fits(d.speed) /\ ~Fits(d.speed - 1)
            /\ d.action \in {"rewrite", "review"} =>
                  ~Fits(MaxSpeed) /\ (d.action = "rewrite" <=> used < MaxRewrites)

\* Whatever becomes of its attempts and its repairs, a run gets to its wait or closes.
RunSettles ==
    \A r \in Runs : run[r].at \in Jobs ~> run[r].at \in {"wait"} \cup Closed

=============================================================================
