----------------------------- MODULE RenderJob -----------------------------
(***************************************************************************)
(* The renders of one media asset: its rows of render_jobs, the lineage of *)
(* their artifacts, the requests of RenderService and the runs of the      *)
(* Temporal workflow render-output-v1, with attempts of activities that go *)
(* on after they were given up, while the translation and its speech go on *)
(* as SpeechBoard lets them and the subtitle style is changed.             *)
(*                                                                         *)
(* The manifest of a job is the style and, for every segment, the text and *)
(* the attempt that is heard; an artifact is found by its content: the     *)
(* manifest and the subtitles of a job are always the same, its output may *)
(* differ from one encoding to the next, a report says passed or failed.   *)
(***************************************************************************)
EXTENDS SpeechBoard, FiniteSets

CONSTANTS
    Outputs, Valid,  \* what an encoding may produce, and what passes the validation
    Users,           \* pages and scripts, one request at a time each
    MaxAttempts,     \* attempts the workflow grants each activity
    MaxStyles,       \* bounds on the versions of the style,
    MaxJobs,         \* on the jobs,
    MaxRuns,         \* on the runs,
    MaxAsks,         \* on the requests,
    MaxLate          \* and on the attempts at work that were given up

JobIds == 1..MaxJobs
Runs   == 1..MaxRuns
Acts   == {"freeze", "render", "validate", "mark"}

ASSUME OutputsAreNamed ==
    /\ Valid \subseteq Outputs /\ Outputs \cap {"none", "manifest", "subtitle", "passed", "failed"} = {}
ASSUME RenderBounds ==
    /\ MaxStyles \in Nat /\ MaxJobs \in Nat /\ MaxRuns \in Nat /\ MaxAsks \in Nat /\ MaxLate \in Nat
    /\ MaxAttempts \in [Acts -> Nat \ {0}]

VARIABLES
    style,           \* the latest version of the subtitle style, 0 = none
    job,             \* the rows of render_jobs, in the order of their creation
    run,             \* the runs, in the order of their start
    act, late,       \* the attempt at work for a run, and those given up
    upc, req, asked  \* where a request is, and what it holds; requests made

workVars == <<run, act, late>>
userVars == <<upc, req, asked>>
vars     == <<board, style, job, workVars, userVars>>

Statuses  == {"none", "processing", "validating", "succeeded", "failed", "cancelled"}
Tracks    == [Segments -> {None} \cup ((1..MaxTexts) \X Indices)]
NoInput   == [style |-> 0, tracks |-> [s \in Segments |-> None]]
Artifacts == Outputs \cup {"manifest", "subtitle", "passed", "failed"}

\* A job: what it was frozen from, its status, version and run, its artifacts.
NoJob == [input |-> NoInput, status |-> "none", version |-> 0, run |-> 0,
          frozen |-> FALSE, titled |-> FALSE, output |-> "none", report |-> "none", edges |-> {}]

\* A run: its id, where it is, the number of the attempt, the output to validate.
NoRun  == [job |-> 0, version |-> 0, at |-> "none", n |-> 1, output |-> "none"]
Closed == {"completed", "closed"}

\* An attempt: its run, its next call and the output it validates.
Idle  == [run |-> 1, at |-> "idle", output |-> "none"]
Work  == [run : Runs, at : {"idle", "encode"} \cup Acts, output : Outputs \cup {"none"}]
NoReq == [job |-> 0, version |-> 0, run |-> 0, input |-> NoInput]

TypeOK ==
    /\ style \in 0..MaxStyles
    /\ job \in [JobIds -> [input : [style : 0..MaxStyles, tracks : Tracks], status : Statuses,
                           version : Nat, run : 0..MaxRuns, frozen : BOOLEAN, titled : BOOLEAN,
                           output : Outputs \cup {"none"}, report : {"none", "passed", "failed"},
                           edges : SUBSET (Artifacts \X Artifacts)]]
    /\ \A r \in Runs :
          /\ run[r] \in [job : 0..MaxJobs, version : Nat, at : {"none"} \cup Acts \cup Closed,
                         n : Nat, output : Outputs \cup {"none"}]
          /\ run[r].at \in Acts => run[r].n \in 1..MaxAttempts[run[r].at]
    /\ act \in [Runs -> Work] /\ late \subseteq Work
    /\ upc \in [Users -> {"idle", "tracks", "commit", "launch", "bind", "cancel"}]
    /\ req \in [Users -> [job : 0..MaxJobs, version : Nat, run : 0..MaxRuns,
                          input : [style : 0..MaxStyles, tracks : Tracks]]]
    /\ asked \in 0..MaxAsks

Init ==
    /\ BoardInit
    /\ style = 0
    /\ job = [j \in JobIds |-> NoJob]
    /\ run = [r \in Runs |-> NoRun]
    /\ act = [r \in Runs |-> Idle]
    /\ late = {}
    /\ upc = [u \in Users |-> "idle"]
    /\ req = [u \in Users |-> NoReq]
    /\ asked = 0

-----------------------------------------------------------------------------
(* The transactions on a row; each counts its version up.                  *)

Rows == {j \in JobIds : job[j].status # "none"}

Update(j, row) == job' = [job EXCEPT ![j] = [row EXCEPT !.version = @ + 1]]

\* prepare, its last statements: fingerprints are unique, so the job of an input is
\* found or inserted; one that failed or was cancelled starts over.
Found(input) == {j \in Rows : job[j].input = input}
Reopened(row) ==
    IF row.status \in {"failed", "cancelled"}
    THEN [row EXCEPT !.status = "processing", !.run = 0, !.report = "none", !.version = @ + 1]
    ELSE row

\* register_artifact, of each role; it looks neither at the status nor at what is
\* registered.
RegisterManifest(j) == Update(j, [job[j] EXCEPT !.frozen = TRUE])

RegisterSubtitle(j) ==
    Update(j, [job[j] EXCEPT !.titled = TRUE,
                 !.edges = IF job[j].frozen THEN @ \cup {<<"manifest", "subtitle">>} ELSE @])

\* What an output is made from, as far as it is registered.
Sources(j) == (IF job[j].frozen THEN {"manifest"} ELSE {})
              \cup (IF job[j].titled THEN {"subtitle"} ELSE {})

RegisterOutput(j, o) ==
    Update(j, [job[j] EXCEPT !.output = o, !.status = "validating",
                             !.edges = @ \cup (Sources(j) \X {o})])

\* Mutant: a report is a success, whatever it says.
RegisterAnyReport(j, report) ==
    Update(j, IF job[j].output = "none" THEN [job[j] EXCEPT !.report = report]
              ELSE [job[j] EXCEPT !.report = report, !.edges = @ \cup {<<job[j].output, report>>},
                          !.status = "succeeded"])

\* The report is taken for one of the output the row has by now.
RegisterReport(j, report) ==
    Update(j, IF job[j].output = "none" THEN [job[j] EXCEPT !.report = report]
              ELSE [job[j] EXCEPT !.report = report, !.edges = @ \cup {<<job[j].output, report>>},
                          !.status = IF report = "passed" THEN "succeeded" ELSE "failed"])

\* set_status looks at nothing.
MarkRow(j) == Update(j, [job[j] EXCEPT !.status = "failed"])

CancelRow(j) ==
    IF job[j].status = "succeeded" THEN UNCHANGED job
    ELSE Update(j, [job[j] EXCEPT !.status = "cancelled"])

-----------------------------------------------------------------------------
(* The workflow render-output-v1.                                          *)

Go(r, at) == [run[r] EXCEPT !.at = at, !.n = 1]

RunTo(r, next) ==
    /\ run' = [run EXCEPT ![r] = IF next.at \in Closed THEN [next EXCEPT !.n = 1, !.output = "none"]
                                 ELSE next]
    /\ act' = [act EXCEPT ![r] = IF next.at \in Acts
                                 THEN [run |-> r, at |-> next.at, output |-> next.output] ELSE Idle]

AfterError(r) == [Go(r, IF run[r].at = "mark" THEN "closed" ELSE "mark") EXCEPT !.output = "none"]

\* Mutant: one attempt more than maximum_attempts.
RetryOnceMore(r) ==
    IF run[r].n <= MaxAttempts[run[r].at] THEN [run[r] EXCEPT !.n = @ + 1] ELSE AfterError(r)

AfterRetry(r) ==
    IF run[r].n < MaxAttempts[run[r].at] THEN [run[r] EXCEPT !.n = @ + 1] ELSE AfterError(r)

\* An attempt that is given up goes on, or has died with its worker.
GiveUp(r) ==
    \/ late' = late
    \/ Cardinality(late) < MaxLate /\ late' = late \cup {act[r]}

\* The activity missed its heartbeat or its deadline.
Timeout(r) ==
    /\ run[r].at \in Acts
    /\ GiveUp(r) /\ RunTo(r, AfterRetry(r))
    /\ UNCHANGED <<board, style, job, userVars>>

\* An activity that is cancelled ends as an ActivityError, which is caught like any
\* other; the failure mark is then an activity of its own.
Cancel(r) == GiveUp(r) /\ RunTo(r, AfterError(r))

-----------------------------------------------------------------------------
(* The requests of RenderService.                                          *)

Goto(u, state, r) ==
    /\ upc' = [upc EXCEPT ![u] = state] /\ req' = [req EXCEPT ![u] = r]
    /\ asked' = IF upc[u] = "idle" THEN asked + 1 ELSE asked
    /\ asked' <= MaxAsks
Done(u) == Goto(u, "idle", NoReq)

\* start: prepare reads row after row, each as it is by then.  The speech is in
\* review or approved, which the board does not say.
PrepareRead(u) ==
    /\ upc[u] = "idle" /\ approved /\ style # 0
    /\ Goto(u, "tracks", [NoReq EXCEPT !.input.style = style])
    /\ UNCHANGED <<board, style, job, workVars>>

Untracked(u) == {s \in Segments : req[u].input.tracks[s] = None}

\* Mutant: the revision of the attempt is not compared.
RenderableAnyText(s) ==
    /\ seg[s].state = "fit" /\ seg[s].cur # None
    /\ Outcome(s, seg[s].cur) = "fit"
    /\ seg[s].text = text

\* The segment's speech is for the head of its translation, and so is its attempt.
Renderable(s) ==
    /\ seg[s].state = "fit" /\ seg[s].cur # None
    /\ Outcome(s, seg[s].cur) = "fit"
    /\ seg[s].text = text /\ seg[s].cur[1] = text

PrepareTrack(u) ==
    /\ upc[u] = "tracks"
    /\ \E s \in Untracked(u) :
          /\ \A t \in Untracked(u) : s <= t
          /\ Renderable(s)
          /\ Goto(u, IF Untracked(u) = {s} THEN "commit" ELSE "tracks",
                  [req[u] EXCEPT !.input.tracks[s] = <<text, seg[s].cur[2]>>])
    /\ UNCHANGED <<board, style, job, workVars>>

Prepare(u) ==
    LET input == req[u].input IN
    /\ upc[u] = "commit"
    /\ \E j \in JobIds :
          /\ IF Found(input) = {} THEN j = Cardinality(Rows) + 1 ELSE j \in Found(input)
          /\ job' = [job EXCEPT ![j] =
                        IF j \in Rows THEN Reopened(@)
                        ELSE [NoJob EXCEPT !.input = input, !.status = "processing", !.version = 1]]
          /\ IF job'[j].status # "succeeded" /\ job'[j].run = 0
             THEN Goto(u, "launch", [NoReq EXCEPT !.job = j, !.version = job'[j].version])
             ELSE Done(u)
    /\ UNCHANGED <<board, style, workVars>>

\* start_render: the id is of the row's version, REJECT_DUPLICATE; only an open or a
\* completed run counts as started.
Started(u) == {r \in Runs : run[r].job = req[u].job /\ run[r].version = req[u].version}

Launch(u) ==
    /\ upc[u] = "launch"
    /\ \E r \in Runs :
          IF Started(u) = {}
          THEN /\ \A q \in Runs : q < r <=> run[q].at # "none"
               /\ RunTo(r, [NoRun EXCEPT !.job = req[u].job, !.version = req[u].version, !.at = "freeze"])
               /\ Goto(u, "bind", [req[u] EXCEPT !.run = r])
          ELSE /\ r \in Started(u)
               /\ IF run[r].at = "closed" THEN Done(u) ELSE Goto(u, "bind", [req[u] EXCEPT !.run = r])
               /\ UNCHANGED <<run, act>>
    /\ UNCHANGED <<board, style, job, late>>

\* bind_workflow: refused when another run is bound.
Bind(u) ==
    LET j == req[u].job IN
    /\ upc[u] = "bind" /\ Done(u)
    /\ job' = IF job[j].run = 0 THEN [job EXCEPT ![j].run = req[u].run] ELSE job
    /\ UNCHANGED <<board, style, workVars>>

\* cancel: of the latest job; its run is cancelled first and the row then.
Stop(u) ==
    LET j == Cardinality(Rows)  r == job[j].run IN
    /\ upc[u] = "idle" /\ Rows # {}
    /\ Goto(u, "cancel", [NoReq EXCEPT !.job = j])
    /\ IF r # 0 /\ job[j].status \in {"processing", "validating"} /\ run[r].at \in Acts
       THEN Cancel(r) ELSE UNCHANGED workVars
    /\ UNCHANGED <<board, style, job>>

MarkCancelled(u) ==
    /\ upc[u] = "cancel" /\ Done(u)
    /\ CancelRow(req[u].job)
    /\ UNCHANGED <<board, style, workVars>>

\* A request is refused, or dies between two of its calls.
Abandon(u) ==
    /\ upc[u] # "idle" /\ Done(u)
    /\ UNCHANGED <<board, style, job, workVars>>

Request(u) ==
    \/ PrepareRead(u) \/ PrepareTrack(u) \/ Prepare(u) \/ Launch(u) \/ Bind(u)
    \/ Stop(u) \/ MarkCancelled(u) \/ Abandon(u)

-----------------------------------------------------------------------------
(* The activity attempts: "a" is at work, "live" if its run still waits for *)
(* it.                                                                      *)

JobOf(a) == run[a.run].job

\* The attempt ends, and its run, if it still waits for it, goes on to "next".
End(a, live, next) ==
    IF live THEN RunTo(a.run, next) /\ UNCHANGED late
    ELSE late' = late \ {a} /\ UNCHANGED <<run, act>>

FreezeManifest(a, live) ==
    /\ a.at = "freeze"
    /\ RegisterManifest(JobOf(a))
    /\ End(a, live, Go(a.run, "render"))
    /\ UNCHANGED <<board, style, userVars>>

\* render_video, up to the subtitles and then to the output.
WriteSubtitle(a, live) ==
    LET b == [a EXCEPT !.at = "encode"] IN
    /\ a.at = "render"
    /\ RegisterSubtitle(JobOf(a))
    /\ IF live THEN act' = [act EXCEPT ![a.run] = b] /\ UNCHANGED late
       ELSE late' = (late \ {a}) \cup {b} /\ UNCHANGED act
    /\ UNCHANGED <<board, style, run, userVars>>

Encode(a, live) ==
    /\ a.at = "encode"
    /\ \E o \in Outputs :
          /\ RegisterOutput(JobOf(a), o)
          /\ End(a, live, [Go(a.run, "validate") EXCEPT !.output = o])
    /\ UNCHANGED <<board, style, userVars>>

\* Mutant: an invalid output is reported, and no error raised.
AfterAnyReport(a, report) == Go(a.run, "completed")

AfterReport(a, report) == IF report = "passed" THEN Go(a.run, "completed") ELSE AfterError(a.run)

Validate(a, live) ==
    LET report == IF a.output \in Valid THEN "passed" ELSE "failed" IN
    /\ a.at = "validate"
    /\ RegisterReport(JobOf(a), report)
    /\ End(a, live, AfterReport(a, report))
    /\ UNCHANGED <<board, style, userVars>>

MarkFailed(a, live) ==
    /\ a.at = "mark"
    /\ MarkRow(JobOf(a))
    /\ End(a, live, Go(a.run, "closed"))
    /\ UNCHANGED <<board, style, userVars>>

\* Any call may raise; a checksum that differs from the manifest's is fatal, and so
\* are most errors of the encoder.
Raise(a, live) ==
    /\ a.at # "idle"
    /\ \/ End(a, live, IF live THEN AfterRetry(a.run) ELSE run[a.run])
       \/ live /\ a.at \in {"render", "encode", "validate"} /\ End(a, live, AfterError(a.run))
    /\ UNCHANGED <<board, style, job, userVars>>

Attempt(a, live) ==
    \/ FreezeManifest(a, live) \/ WriteSubtitle(a, live) \/ Encode(a, live)
    \/ Validate(a, live) \/ MarkFailed(a, live) \/ Raise(a, live)

-----------------------------------------------------------------------------

\* get_or_create_default and create_version.
Restyle ==
    /\ style < MaxStyles /\ style' = style + 1
    /\ UNCHANGED <<board, job, workVars, userVars>>

\* The speech goes on while a request may still read it; the outcomes that do not fit
\* are alike to a render.
Read   == asked < MaxAsks \/ \E u \in Users : upc[u] = "tracks"
Speech ==
    /\ Read /\ BoardNext
    /\ \A s \in Segments, t \in 1..MaxTexts, i \in Indices :
          att'[s][t][i] \notin {"rewrite_required", "failed"}
    /\ UNCHANGED <<style, job, workVars, userVars>>

Next ==
    \/ Speech \/ Restyle
    \/ \E u \in Users : Request(u)
    \/ \E r \in Runs : Timeout(r) \/ Attempt(act[r], TRUE)
    \/ \E a \in late : Attempt(a, FALSE)

Spec == Init /\ [][Next]_vars

-----------------------------------------------------------------------------
(* Properties.                                                             *)

\* prepare reads the translation, the style and one segment after the other while
\* fittings, repairs, late attempts and new translations go on: every track it
\* freezes is an attempt that was decided to fit, of the text that was frozen with it.
ManifestIsSpoken ==
    \A j \in Rows : \A s \in Segments :
        LET a == job[j].input.tracks[s]
        IN  a # None /\ Outcome(s, a) = "fit" /\ job[j].input.style \in 1..style

\* An output is made from the manifest and the subtitles of its job.
Sourced(row, o) == {<<"manifest", o>>, <<"subtitle", o>>} \subseteq row.edges

\* register_artifact and the requests, with two runs or late attempts on one row, that
\* is cancelled, renewed and rendered again: a render is offered only after an output
\* that was made from its manifest and subtitles has passed the validation.
SucceededWasValidated ==
    \A j \in Rows : job[j].status = "succeeded" => \E o \in Valid : Sourced(job[j], o)

\* RenderWorkflow.run: it reports success only when an output of its job was made from
\* its manifest and subtitles and passed, and one of them is linked to that report.
CompletedIsRendered ==
    \A r \in Runs : run[r].at = "completed" =>
        /\ \E o \in Valid : Sourced(job[run[r].job], o)
        /\ \E o \in Outputs : Sourced(job[run[r].job], o) /\ <<o, "passed">> \in job[run[r].job].edges

\* docs/roadmap.md: "No final output is published before validation passes": get
\* signs a download of the output that a succeeded row has.
SucceededIsValid == \A j \in Rows : job[j].status = "succeeded" => job[j].output \in Valid

=============================================================================
