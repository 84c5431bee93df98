-------------------------- MODULE RenderJobProofs --------------------------
(***************************************************************************)
(* Proofs about renders, for any number of segments, texts, jobs, runs,    *)
(* requests and attempts: a manifest freezes only speech that was decided  *)
(* to fit; a render succeeds and a run completes only behind an output     *)
(* that was made from the manifest and the subtitles and is valid.         *)
(*                                                                         *)
(* A row changes in a few transactions (StepIsTransaction); an attempt is  *)
(* at a call only when its job is ready for it (WorkInv), and no           *)
(* transaction takes that back (Kept).                                     *)
(***************************************************************************)
EXTENDS RenderJob, FiniteSetTheorems, TLAPS

Inputs  == [style : 0..MaxStyles, tracks : Tracks]
Links   == SUBSET (Artifacts \X Artifacts)
JobType == [input : Inputs, status : Statuses, version : Nat, run : 0..MaxRuns, frozen : BOOLEAN,
            titled : BOOLEAN, output : Outputs \cup {"none"}, report : {"none", "passed", "failed"},
            edges : Links]

RowTypeOK == job \in [JobIds -> JobType]

-----------------------------------------------------------------------------
(* Transactions.                                                           *)

\* A job is ready for an activity, or is what a completed run says it is.
HasValid(row) == \E o \in Valid : Sourced(row, o)
Rendered(row) == HasValid(row) /\ \E o \in Outputs : Sourced(row, o) /\ <<o, "passed">> \in row.edges

Ready(rows, at, j, o) ==
    /\ j \in JobIds /\ rows[j].status # "none"
    /\ at \in {"render", "encode", "validate"} => rows[j].frozen
    /\ at \in {"encode", "validate"} => rows[j].titled
    /\ at = "validate" => rows[j].output # "none" /\ Sourced(rows[j], o)
    /\ at = "completed" => Rendered(rows[j])

\* Runs and attempts are where their jobs are ready for them, and so are requests.
RunInv ==
    /\ \A r \in Runs : run[r].at # "none" => Ready(job, run[r].at, run[r].job, run[r].output)
    /\ \A r \in Runs : act[r].at # "idle" <=> run[r].at \in Acts
    /\ \A r \in Runs : act[r].at # "idle" => act[r].run = r /\ Ready(job, act[r].at, run[r].job, act[r].output)
    /\ \A a \in late : a.run \in Runs /\ run[a.run].at # "none" /\ Ready(job, a.at, run[a.run].job, a.output)

WorkInv ==
    /\ RunInv
    /\ \A u \in Users : upc[u] \in {"launch", "bind", "cancel"} => req[u].job \in Rows

\* The job of an input is found and joined or opened again, or inserted.
PrepareRow(input) ==
    \E j \in JobIds :
        /\ IF Found(input) = {} THEN j = Cardinality(Rows) + 1 ELSE j \in Found(input)
        /\ job' = [job EXCEPT ![j] =
                      IF j \in Rows THEN Reopened(@)
                      ELSE [NoJob EXCEPT !.input = input, !.status = "processing", !.version = 1]]

\* There is an output to report on, and one that is valid if it is said to have passed.
Reportable(row, report) == row.output # "none" /\ (report = "passed" => HasValid(row))

\* What a step may do to the rows.
Transaction ==
    \/ UNCHANGED job
    \/ \E u \in Users : upc[u] = "commit" /\ PrepareRow(req[u].input)
    \/ \E j \in Rows :
          \/ \E r \in 0..MaxRuns : job' = [job EXCEPT ![j].run = r]
          \/ CancelRow(j) \/ MarkRow(j) \/ RegisterManifest(j)
          \/ job[j].frozen /\ RegisterSubtitle(j)
          \/ \E o \in Outputs : job[j].frozen /\ job[j].titled /\ RegisterOutput(j, o)
          \/ \E report \in {"passed", "failed"} : Reportable(job[j], report) /\ RegisterReport(j, report)

\* What a request or an attempt does to the rows is a transaction.
LEMMA StepIsTransaction ==
    ASSUME WorkInv, \A u \in Users : req[u].run \in 0..MaxRuns, [Next]_vars
    PROVE  Transaction
  <1>1. CASE UNCHANGED vars
    BY <1>1 DEF vars, Transaction
  <1>2. CASE Speech \/ Restyle
    BY <1>2 DEF Speech, Restyle, Transaction
  <1>3. ASSUME NEW u \in Users, Request(u) PROVE Transaction
    <2>1. CASE Prepare(u)
      BY <2>1 DEF Prepare, PrepareRow, Transaction
    <2>2. CASE Bind(u)
      BY <2>2 DEF Bind, WorkInv, Transaction
    <2>3. CASE MarkCancelled(u)
      BY <2>3 DEF MarkCancelled, WorkInv, Transaction
    <2>4. CASE PrepareRead(u) \/ PrepareTrack(u) \/ Launch(u) \/ Stop(u) \/ Abandon(u)
      BY <2>4 DEF PrepareRead, PrepareTrack, Launch, Stop, Abandon, Transaction
    <2> QED
      BY <1>3, <2>1, <2>2, <2>3, <2>4 DEF Request
  <1>4. ASSUME NEW r \in Runs, Timeout(r) PROVE Transaction
    BY <1>4 DEF Timeout, Transaction
  <1>5. ASSUME NEW a, NEW live \in BOOLEAN, Attempt(a, live), 
               a.at # "idle" => Ready(job, a.at, JobOf(a), a.output)
        PROVE  Transaction
    <2>1. CASE FreezeManifest(a, live)
      BY <1>5, <2>1 DEF FreezeManifest, Ready, Rows, Transaction
    <2>2. CASE WriteSubtitle(a, live)
      BY <1>5, <2>2 DEF WriteSubtitle, Ready, Rows, Transaction
    <2>3. CASE Encode(a, live)
      BY <1>5, <2>3 DEF Encode, Ready, Rows, Transaction
    <2>4. CASE Validate(a, live)
      <3> DEFINE report == IF a.output \in Valid THEN "passed" ELSE "failed"
      <3>1. JobOf(a) \in Rows /\ RegisterReport(JobOf(a), report)
        BY <1>5, <2>4 DEF Validate, Ready, Rows
      <3>2. Reportable(job[JobOf(a)], report)
        BY <1>5, <2>4 DEF Validate, Ready, Reportable, HasValid
      <3> QED
        BY <3>1, <3>2 DEF Transaction
    <2>5. CASE MarkFailed(a, live)
      BY <1>5, <2>5 DEF MarkFailed, Ready, Rows, Transaction
    <2>6. CASE Raise(a, live)
      BY <2>6 DEF Raise, Transaction
    <2> QED
      BY <1>5, <2>1, <2>2, <2>3, <2>4, <2>5, <2>6 DEF Attempt
  <1>6. ASSUME NEW r \in Runs, Attempt(act[r], TRUE) PROVE Transaction
    BY <1>5, <1>6 DEF WorkInv, RunInv, JobOf
  <1>7. ASSUME NEW a \in late, Attempt(a, FALSE) PROVE Transaction
    BY <1>5, <1>7 DEF WorkInv, RunInv, JobOf
  <1> QED
    BY <1>1, <1>2, <1>3, <1>4, <1>6, <1>7 DEF Next

-----------------------------------------------------------------------------
(* Rows: their types and lineage.                                          *)

\* The names of artifacts differ, and the reports and roles are artifacts.
LEMMA ArtifactFacts ==
    /\ {"manifest", "subtitle", "passed", "failed"} \cup Outputs = Artifacts
    /\ "none" \notin Outputs
  BY OutputsAreNamed DEF Artifacts

\* An update keeps the type of the rows.
LEMMA UpdateTyped ==
    ASSUME RowTypeOK, NEW j \in Rows, NEW row \in JobType, Update(j, row)
    PROVE  job' \in [JobIds -> JobType] /\ job'[j] = [row EXCEPT !.version = @ + 1]
           /\ \A k \in JobIds : k # j => job'[k] = job[k]
  <1>1. [row EXCEPT !.version = @ + 1] \in JobType
    BY DEF JobType
  <1> QED
    BY <1>1 DEF Update, RowTypeOK, Rows

\* The row after an update.
LEMMA UpdateRow ==
    ASSUME job \in [JobIds -> JobType], NEW j \in JobIds, NEW row, Update(j, row)
    PROVE  job'[j] = [row EXCEPT !.version = @ + 1]
  BY DEF Update

\* What a transaction does to a row: it keeps what is registered and linked, or makes
\* it from an input.
Grows(old, new) ==
    /\ new.input = old.input
    /\ old.frozen => new.frozen
    /\ old.titled => new.titled
    /\ old.output # "none" => new.output # "none"
    /\ old.edges \subseteq new.edges
    /\ new.status # "none"

\* The lineage of a row, as far as it is registered.
Linked(row) ==
    /\ row.titled => <<"manifest", "subtitle">> \in row.edges
    /\ row.output # "none" =>
          {<<"manifest", "subtitle">>, <<"manifest", row.output>>, <<"subtitle", row.output>>}
              \subseteq row.edges
    /\ row.status = "succeeded" =>
          /\ row.report = "passed" /\ row.output # "none"
          /\ <<row.output, "passed">> \in row.edges
          /\ HasValid(row)

\* A transaction on the row keeps its type, lets it grow and keeps its lineage.
RowKept(j) ==
    /\ job' \in [JobIds -> JobType]
    /\ \A k \in JobIds : k # j => job'[k] = job[k]
    /\ Grows(job[j], job'[j])
    /\ Linked(job'[j])

\* So does an update that lets it grow.
LEMMA UpdateKept ==
    ASSUME RowTypeOK, NEW j \in Rows, NEW row \in JobType, Update(j, row), Grows(job[j], row), Linked(row)
    PROVE  /\ RowKept(j)
           /\ job'[j].titled = row.titled /\ job'[j].output = row.output /\ job'[j].edges = row.edges
  <1>1. /\ job' \in [JobIds -> JobType] /\ job'[j] = [row EXCEPT !.version = @ + 1]
        /\ \A k \in JobIds : k # j => job'[k] = job[k]
    BY UpdateTyped
  <1>2. Grows(job[j], job'[j]) /\ Linked(job'[j])
    BY <1>1 DEF Grows, Linked, HasValid, Sourced, JobType
  <1>3. job'[j].titled = row.titled /\ job'[j].output = row.output /\ job'[j].edges = row.edges
    BY <1>1 DEF JobType
  <1> QED
    BY <1>1, <1>2, <1>3 DEF RowKept

\* So do the subtitles, which are linked to the manifest.
LEMMA SubtitleKept ==
    ASSUME RowTypeOK, NEW j \in Rows, Linked(job[j]), job[j].frozen, RegisterSubtitle(j)
    PROVE  RowKept(j) /\ job'[j].titled
  <1>j. job[j] \in JobType /\ job[j].status # "none" /\ j \in JobIds
    BY DEF RowTypeOK, Rows
  <1> DEFINE row == [job[j] EXCEPT !.titled = TRUE, !.edges = @ \cup {<<"manifest", "subtitle">>}]
  <1>1. Update(j, row)
    BY DEF RegisterSubtitle
  <1>2. row \in JobType
    <2>1. job[j].edges \in Links
      BY <1>j DEF JobType
    <2>2. job[j].edges \cup {<<"manifest", "subtitle">>} \in Links
      BY <2>1, ArtifactFacts DEF Links
    <2> QED
      BY <1>j, <2>2 DEF JobType
  <1>3. Grows(job[j], row) /\ Linked(row)
    BY <1>j DEF Grows, Linked, HasValid, Sourced, JobType
  <1> QED
    BY <1>1, <1>2, <1>3, UpdateKept DEF JobType

\* So does an output, which is linked to both.
LEMMA OutputKept ==
    ASSUME RowTypeOK, NEW j \in Rows, Linked(job[j]), NEW o \in Outputs,
           job[j].frozen, job[j].titled, RegisterOutput(j, o)
    PROVE  RowKept(j) /\ job'[j].output = o
  <1>j. job[j] \in JobType /\ job[j].status # "none" /\ j \in JobIds
    BY DEF RowTypeOK, Rows
  <1> DEFINE row == [job[j] EXCEPT !.output = o, !.status = "validating",
                                   !.edges = @ \cup (Sources(j) \X {o})]
  <1>1. Update(j, row)
    BY DEF RegisterOutput
  <1>2. Sources(j) = {"manifest", "subtitle"}
    BY DEF Sources
  <1>3. row \in JobType
    BY <1>j, <1>2, ArtifactFacts DEF JobType, Links, Statuses
  <1>4. Grows(job[j], row) /\ Linked(row)
    BY <1>j, <1>2, ArtifactFacts DEF Grows, Linked, JobType
  <1> QED
    BY <1>1, <1>3, <1>4, UpdateKept DEF JobType

\* So does a report, which is linked to the output.
LEMMA ReportKept ==
    ASSUME RowTypeOK, NEW j \in Rows, Linked(job[j]), NEW report \in {"passed", "failed"},
           Reportable(job[j], report), RegisterReport(j, report)
    PROVE  /\ RowKept(j)
           /\ job'[j].output = job[j].output /\ <<job[j].output, report>> \in job'[j].edges
  <1>j. job[j] \in JobType /\ job[j].status # "none" /\ j \in JobIds
    BY DEF RowTypeOK, Rows
  <1>r. job[j].output # "none" /\ (report = "passed" => HasValid(job[j]))
    BY DEF Reportable
  <1> DEFINE row == [job[j] EXCEPT !.report = report, !.edges = @ \cup {<<job[j].output, report>>},
                          !.status = IF report = "passed" THEN "succeeded" ELSE "failed"]
  <1>1. Update(j, row)
    BY <1>r DEF RegisterReport
  <1>2. job[j].output \in Artifacts /\ report \in Artifacts
    BY <1>j, <1>r, ArtifactFacts DEF JobType
  <1>3. row \in JobType
    <2>1. job[j].edges \in Links
      BY <1>j DEF JobType
    <2>2. job[j].edges \cup {<<job[j].output, report>>} \in Links
      BY <1>2, <2>1 DEF Links
    <2> QED
      BY <1>j, <2>2 DEF JobType, Statuses
  <1>4. Grows(job[j], row) /\ Linked(row)
    BY <1>j, <1>r DEF Grows, Linked, HasValid, Sourced, JobType
  <1>5. row.output = job[j].output /\ row.edges = job[j].edges \cup {<<job[j].output, report>>}
    BY <1>j DEF JobType
  <1> QED
    BY <1>1, <1>3, <1>4, <1>5, UpdateKept

\* A registration keeps the row.
LEMMA RegisterKept ==
    ASSUME RowTypeOK, NEW j \in Rows, Linked(job[j]),
           \/ CancelRow(j) \/ MarkRow(j) \/ RegisterManifest(j)
           \/ job[j].frozen /\ RegisterSubtitle(j)
           \/ \E o \in Outputs : job[j].frozen /\ job[j].titled /\ RegisterOutput(j, o)
           \/ \E report \in {"passed", "failed"} : Reportable(job[j], report) /\ RegisterReport(j, report)
    PROVE  RowKept(j)
  <1>j. job[j] \in JobType /\ job[j].status # "none" /\ j \in JobIds
    BY DEF RowTypeOK, Rows
  <1>1. CASE CancelRow(j)
    <2>1. CASE UNCHANGED job
      BY <1>j, <2>1 DEF RowKept, RowTypeOK, Grows, JobType
    <2>2. CASE Update(j, [job[j] EXCEPT !.status = "cancelled"])
      <3>1. [job[j] EXCEPT !.status = "cancelled"] \in JobType
        BY <1>j DEF JobType, Statuses
      <3>2. Grows(job[j], [job[j] EXCEPT !.status = "cancelled"])
            /\ Linked([job[j] EXCEPT !.status = "cancelled"])
        BY <1>j DEF Grows, Linked, JobType
      <3> QED
        BY <2>2, <3>1, <3>2, UpdateKept
    <2> QED
      BY <1>1, <2>1, <2>2 DEF CancelRow
  <1>2. CASE MarkRow(j)
    <2>1. [job[j] EXCEPT !.status = "failed"] \in JobType
      BY <1>j DEF JobType, Statuses
    <2>2. Grows(job[j], [job[j] EXCEPT !.status = "failed"])
          /\ Linked([job[j] EXCEPT !.status = "failed"])
      BY <1>j DEF Grows, Linked, JobType
    <2> QED
      BY <1>2, <2>1, <2>2, UpdateKept DEF MarkRow
  <1>3. CASE RegisterManifest(j)
    <2>1. [job[j] EXCEPT !.frozen = TRUE] \in JobType
      BY <1>j DEF JobType
    <2>2. Grows(job[j], [job[j] EXCEPT !.frozen = TRUE]) /\ Linked([job[j] EXCEPT !.frozen = TRUE])
      BY <1>j DEF Grows, Linked, HasValid, Sourced, JobType
    <2> QED
      BY <1>3, <2>1, <2>2, UpdateKept DEF RegisterManifest
  <1>4. CASE job[j].frozen /\ RegisterSubtitle(j)
    BY <1>4, SubtitleKept
  <1>5. ASSUME NEW o \in Outputs, job[j].frozen, job[j].titled, RegisterOutput(j, o) PROVE RowKept(j)
    BY <1>5, OutputKept
  <1>6. ASSUME NEW report \in {"passed", "failed"}, Reportable(job[j], report), RegisterReport(j, report)
        PROVE  RowKept(j)
    BY <1>6, ReportKept
  <1> QED
    BY <1>1, <1>2, <1>3, <1>4, <1>5, <1>6

\* The rows are numbered in turn, and each has its lineage.
RowInv ==
    /\ job \in [JobIds -> JobType]
    /\ \E k \in 0..MaxJobs : Rows = 1..k
    /\ \A j \in Rows : Linked(job[j])

\* Nothing that is registered or linked is lost.
Kept == \A j \in Rows : Grows(job[j], job'[j])

\* A row that is there is a row as before, or made for a request.
Made == \A j \in JobIds : job'[j].status # "none" =>
            \/ j \in Rows /\ job'[j].input = job[j].input
            \/ \E u \in Users : upc[u] = "commit" /\ job'[j].input = req[u].input

\* The latest row has the number of rows.
LEMMA RowsFacts ==
    ASSUME RowInv
    PROVE  /\ Rows = 1..Cardinality(Rows) /\ Cardinality(Rows) \in 0..MaxJobs
           /\ Rows # {} => Cardinality(Rows) \in Rows
  <1>1. PICK k \in 0..MaxJobs : Rows = 1..k
    BY DEF RowInv
  <1>2. k \in Nat /\ 1 \in Int
    BY <1>1, RenderBounds
  <1>3. Cardinality(1..k) = k
    BY <1>2, FS_Interval
  <1> QED
    BY <1>1, <1>2, <1>3, RenderBounds

\* A row that is kept is one for Kept and Made, and keeps RowInv.
LEMMA RowKeptFacts ==
    ASSUME RowInv, NEW j \in Rows, RowKept(j)
    PROVE  RowInv' /\ Kept /\ Made
  <1>1. \A k \in JobIds : job'[k].status # "none" <=> job[k].status # "none"
    BY DEF RowKept, Grows, Rows
  <1>2. Rows' = Rows
    BY <1>1 DEF Rows
  <1>3. Kept
    BY DEF RowKept, Kept, Grows, Rows
  <1>4. \A k \in Rows' : Linked(job[k])'
    BY <1>2 DEF RowKept, RowInv, Linked, Rows
  <1>5. job' \in [JobIds -> JobType]
    BY DEF RowKept
  <1>6. Made
    BY <1>1, <1>3 DEF Made, Kept, Grows, Rows
  <1> QED
    BY <1>2, <1>3, <1>4, <1>5, <1>6 DEF RowInv

\* Preparing inserts a row that has no lineage yet, or opens one again.
LEMMA PrepareKept ==
    ASSUME RowInv, NEW u \in Users, upc[u] = "commit", req[u].input \in Inputs, PrepareRow(req[u].input)
    PROVE  RowInv' /\ Kept /\ Made
  <1> DEFINE new   == req[u].input
             fresh == [NoJob EXCEPT !.input = new, !.status = "processing", !.version = 1]
  <1>1. PICK j \in JobIds :
            /\ IF Found(new) = {} THEN j = Cardinality(Rows) + 1 ELSE j \in Found(new)
            /\ job' = [job EXCEPT ![j] = IF j \in Rows THEN Reopened(@) ELSE fresh]
    BY DEF PrepareRow
  <1>t. job \in [JobIds -> JobType] /\ job[j] \in JobType
    BY DEF RowInv
  <1>2. CASE j \in Rows
    <2>1. job' = [job EXCEPT ![j] = Reopened(job[j])] /\ Linked(job[j]) /\ job[j].status # "none"
      BY <1>1, <1>2 DEF RowInv, Rows
    <2>2. Reopened(job[j]) \in JobType
      <3>1. 0 \in 0..MaxRuns
        BY RenderBounds
      <3>2. job[j].version + 1 \in Nat
        BY <1>t DEF JobType
      <3>3. \A r \in 0..MaxRuns, v \in Nat :
                [job[j] EXCEPT !.status = "processing", !.run = r, !.report = "none", !.version = v]
                    \in JobType
        BY <1>t DEF JobType, Statuses
      <3>4. [job[j] EXCEPT !.status = "processing", !.run = 0, !.report = "none",
                           !.version = job[j].version + 1] \in JobType
        BY <3>1, <3>2, <3>3
      <3> QED
        BY <1>t, <3>4 DEF Reopened
    <2>3. Grows(job[j], Reopened(job[j])) /\ Linked(Reopened(job[j]))
      BY <1>t, <2>1 DEF Reopened, JobType, Grows, Linked
    <2>4. RowKept(j)
      BY <1>t, <2>1, <2>2, <2>3 DEF RowKept
    <2> QED
      BY <1>2, <2>4, RowKeptFacts
  <1>3. CASE j \notin Rows
    <2>1. job' = [job EXCEPT ![j] = fresh] /\ job[j].status = "none"
      BY <1>1, <1>3 DEF Rows
    <2>2. j = Cardinality(Rows) + 1
      BY <1>1, <1>3 DEF Found
    <2>3. fresh \in JobType
      <3>1. {} \in Links
        BY DEF Links
      <3>2. NoInput \in Inputs /\ 0 \in 0..MaxRuns /\ 1 \in Nat
        BY RenderBounds DEF NoInput, Inputs, Tracks
      <3>3. NoJob \in JobType
        BY <3>1, <3>2 DEF NoJob, JobType, Statuses
      <3>4. \A v \in Nat : [NoJob EXCEPT !.input = new, !.status = "processing", !.version = v] \in JobType
        BY <3>3 DEF JobType, Statuses
      <3> QED
        BY <3>2, <3>4
    <2>4. job' \in [JobIds -> JobType] /\ job'[j] = fresh
      BY <1>t, <2>1, <2>3
    <2>5. \A k \in JobIds : k # j => job'[k] = job[k]
      BY <1>t, <2>1
    <2>6. fresh.status = "processing" /\ fresh.input = new /\ Linked(fresh)
      BY DEF NoJob, Linked
    <2>7. Rows' = Rows \cup {j}
      BY <2>4, <2>5, <2>6 DEF Rows
    <2>8. \E k \in 0..MaxJobs : Rows' = 1..k
      <3>1. Rows = 1..Cardinality(Rows) /\ Cardinality(Rows) \in 0..MaxJobs /\ j \in 1..MaxJobs
        BY RowsFacts DEF JobIds
      <3>2. Rows' = 1..j
        BY <2>2, <2>7, <3>1, RenderBounds
      <3> QED
        BY <3>1, <3>2, RenderBounds
    <2>9. \A k \in Rows' : Linked(job[k])'
      <3>1. \A k \in Rows : Linked(job'[k])
        BY <1>3, <2>5 DEF RowInv, Rows
      <3>2. Linked(job'[j])
        BY <2>4, <2>6
      <3> QED
        BY <2>7, <3>1, <3>2 DEF Linked
    <2>10. Kept
      <3>1. \A k \in Rows : job'[k] = job[k] /\ job[k].status # "none"
        BY <1>3, <2>5 DEF Rows
      <3> QED
        BY <3>1 DEF Kept, Grows
    <2>11. Made
      BY <2>4, <2>5, <2>6 DEF Made, Rows
    <2> QED
      BY <2>4, <2>8, <2>9, <2>10, <2>11 DEF RowInv
  <1> QED
    BY <1>2, <1>3

\* RowInv is inductive, and transactions keep what is registered.
LEMMA RowsStep ==
    ASSUME RowInv, \A u \in Users : req[u].input \in Inputs, Transaction
    PROVE  RowInv' /\ Kept /\ Made
  <1>t. RowTypeOK
    BY DEF RowTypeOK, RowInv
  <1>1. CASE UNCHANGED job
    BY <1>1 DEF RowInv, Rows, Kept, Grows, Made, Linked
  <1>2. ASSUME NEW u \in Users, upc[u] = "commit", PrepareRow(req[u].input)
        PROVE  RowInv' /\ Kept /\ Made
    BY <1>2, PrepareKept
  <1>3. ASSUME NEW j \in Rows, NEW r \in 0..MaxRuns, job' = [job EXCEPT ![j].run = r]
        PROVE  RowInv' /\ Kept /\ Made
    <2>1. job[j] \in JobType /\ job[j].status # "none" /\ j \in JobIds /\ Linked(job[j])
      BY DEF RowInv, Rows
    <2>2. [job[j] EXCEPT !.run = r] \in JobType
      BY <2>1 DEF JobType
    <2>3. Grows(job[j], [job[j] EXCEPT !.run = r]) /\ Linked([job[j] EXCEPT !.run = r])
      BY <2>1 DEF Grows, Linked, HasValid, Sourced, JobType
    <2>4. RowKept(j)
      BY <1>3, <2>1, <2>2, <2>3 DEF RowKept, RowInv
    <2> QED
      BY <2>4, RowKeptFacts
  <1>4. ASSUME NEW j \in Rows,
               \/ CancelRow(j) \/ MarkRow(j) \/ RegisterManifest(j)
               \/ job[j].frozen /\ RegisterSubtitle(j)
               \/ \E o \in Outputs : job[j].frozen /\ job[j].titled /\ RegisterOutput(j, o)
               \/ \E report \in {"passed", "failed"} : Reportable(job[j], report) /\ RegisterReport(j, report)
        PROVE  RowInv' /\ Kept /\ Made
    <2>1. Linked(job[j])
      BY DEF RowInv
    <2> QED
      BY <1>4, <1>t, <2>1, RegisterKept, RowKeptFacts
  <1> QED
    BY <1>1, <1>2, <1>3, <1>4 DEF Transaction

-----------------------------------------------------------------------------
(* Runs and attempts.                                                      *)

RunType == [job : 0..MaxJobs, version : Nat, at : {"none"} \cup Acts \cup Closed,
            n : Nat, output : Outputs \cup {"none"}]

\* The number of the attempt is one the workflow grants.
Granted(r) == r.at \in Acts => r.n \in 1..MaxAttempts[r.at]

WorkTypeOK ==
    /\ run \in [Runs -> RunType] /\ \A r \in Runs : Granted(run[r])
    /\ act \in [Runs -> Work] /\ late \subseteq Work

\* Names of activities are neither "none", "idle", "encode" nor those of closed runs.
LEMMA ActFacts ==
    /\ Acts = {"freeze", "render", "validate", "mark"} /\ Closed = {"completed", "closed"}
    /\ Acts \cap (Closed \cup {"none", "idle", "encode"}) = {}
    /\ \A at \in Acts : MaxAttempts[at] \in Nat /\ 1 \in 1..MaxAttempts[at]
  BY RenderBounds DEF Acts, Closed

\* What a job is ready for, it stays ready for.
LEMMA ReadyKept ==
    ASSUME Kept, NEW at, NEW j, NEW o, Ready(job, at, j, o)
    PROVE  Ready(job', at, j, o)
  <1>1. j \in Rows /\ Grows(job[j], job'[j])
    BY DEF Ready, Kept, Rows
  <1>2. \A p : Sourced(job[j], p) => Sourced(job'[j], p)
    BY <1>1 DEF Sourced, Grows
  <1>3. Rendered(job[j]) => Rendered(job'[j])
    BY <1>1, <1>2 DEF Rendered, HasValid, Grows
  <1> QED
    BY <1>1, <1>2, <1>3 DEF Ready, Grows

\* Where a run may go.
MayGo(r, next) ==
    /\ next \in RunType /\ Granted(next) /\ next.at \in Acts \cup Closed
    /\ run[r].at = "none" \/ next.job = run[r].job
    /\ Ready(job', next.at, next.job, next.output)

\* A run that goes on is typed and where its job is ready for it.
LEMMA RunToKept ==
    ASSUME WorkTypeOK, RunInv, Kept, NEW r \in Runs, NEW next, MayGo(r, next), RunTo(r, next),
           late' \subseteq late \cup {act[r]}, act[r] \in late' => act[r] \in late \/ act[r].at # "idle"
    PROVE  WorkTypeOK' /\ RunInv'
  <1> DEFINE to == IF next.at \in Closed THEN [next EXCEPT !.n = 1, !.output = "none"] ELSE next
             do == IF next.at \in Acts THEN [run |-> r, at |-> next.at, output |-> next.output] ELSE Idle
  <1>1. to \in RunType /\ Granted(to) /\ to.at = next.at /\ to.job = next.job
    BY ActFacts DEF MayGo, RunType, Granted
  <1>2. do \in Work
    <2>1. 1 \in Runs
      BY RenderBounds DEF Runs
    <2> QED
      BY <2>1, ActFacts DEF MayGo, RunType, Work, Idle
  <1>3. /\ do.at # "idle" <=> next.at \in Acts
        /\ do.at # "idle" => do.run = r /\ do.at = next.at /\ do.output = next.output
    BY ActFacts DEF Idle
  <1>r. Ready(job', next.at, next.job, next.output) /\ Ready(job', to.at, to.job, to.output)
    <2>1. CASE next.at \in Closed
      BY <1>1, <2>1, ActFacts DEF MayGo, Ready
    <2>2. CASE next.at \notin Closed
      BY <2>2 DEF MayGo
    <2> QED
      BY <2>1, <2>2
  <1>4. run' = [run EXCEPT ![r] = to] /\ act' = [act EXCEPT ![r] = do]
    BY DEF RunTo
  <1>5. WorkTypeOK'
    BY <1>1, <1>2, <1>4 DEF WorkTypeOK
  <1>6. \A q \in Runs : q # r => run'[q] = run[q] /\ act'[q] = act[q]
    BY <1>4 DEF WorkTypeOK
  <1>7. run'[r] = to /\ act'[r] = do
    BY <1>4 DEF WorkTypeOK
  <1>8. \A q \in Runs : run[q].at # "none" => run'[q].at # "none" /\ run'[q].job = run[q].job
    BY <1>1, <1>6, <1>7, ActFacts DEF MayGo
  <1>9. ASSUME NEW q \in Runs
        PROVE  /\ run'[q].at # "none" => Ready(job', run'[q].at, run'[q].job, run'[q].output)
               /\ act'[q].at # "idle" <=> run'[q].at \in Acts
               /\ act'[q].at # "idle" => act'[q].run = q /\ Ready(job', act'[q].at, run'[q].job, act'[q].output)
    <2>1. CASE q = r
      BY <1>1, <1>3, <1>7, <1>r, <2>1 DEF MayGo
    <2>2. CASE q # r
      BY <1>6, <2>2, ReadyKept DEF RunInv
    <2> QED
      BY <2>1, <2>2
  <1>10. ASSUME NEW a \in late'
         PROVE  a.run \in Runs /\ run'[a.run].at # "none" /\ Ready(job', a.at, run'[a.run].job, a.output)
    <2>1. a.run \in Runs /\ run[a.run].at # "none" /\ Ready(job, a.at, run[a.run].job, a.output)
      <3>1. CASE a \in late
        BY <3>1 DEF RunInv
      <3>2. CASE a = act[r] /\ act[r].at # "idle"
        BY <3>2, ActFacts DEF RunInv
      <3> QED
        BY <3>1, <3>2
    <2> QED
      BY <1>8, <2>1, ReadyKept
  <1> QED
    BY <1>5, <1>9, <1>10 DEF RunInv

\* A step that only gives up attempts keeps the runs.
LEMMA RunsLeft ==
    ASSUME WorkTypeOK, RunInv, Kept, UNCHANGED <<run, act>>, late' \subseteq late
    PROVE  WorkTypeOK' /\ RunInv'
  BY ReadyKept DEF WorkTypeOK, RunInv

\* An error, or one attempt more, is where a run at work may go.
LEMMA ErrorMayGo ==
    ASSUME WorkTypeOK, RunInv, Kept, NEW r \in Runs, run[r].at \in Acts
    PROVE  MayGo(r, AfterError(r)) /\ MayGo(r, AfterRetry(r))
  <1>1. run[r] \in RunType /\ Granted(run[r]) /\ Ready(job', run[r].at, run[r].job, run[r].output)
    BY ActFacts, ReadyKept DEF WorkTypeOK, RunInv
  <1>2. \A o : Ready(job', "mark", run[r].job, o) /\ Ready(job', "closed", run[r].job, o)
    BY <1>1 DEF Ready
  <1>3. MayGo(r, AfterError(r))
    BY <1>1, <1>2, ActFacts DEF MayGo, AfterError, Go, RunType, Granted
  <1>4. ASSUME run[r].n < MaxAttempts[run[r].at] PROVE MayGo(r, [run[r] EXCEPT !.n = @ + 1])
    <2>1. run[r].n \in Nat /\ MaxAttempts[run[r].at] \in Nat
      BY <1>1, ActFacts DEF RunType
    <2>2. run[r].n + 1 \in Nat /\ run[r].n + 1 \in 1..MaxAttempts[run[r].at]
      BY <1>4, <2>1
    <2>3. \A n \in Nat : [run[r] EXCEPT !.n = n] \in RunType
      BY <1>1 DEF RunType
    <2> QED
      BY <1>1, <2>2, <2>3 DEF MayGo, Granted, RunType
  <1> QED
    BY <1>3, <1>4 DEF AfterRetry

\* An attempt at work, for a run that waits for it or late.
AtWork(a, live) ==
    /\ a \in Work /\ a.at # "idle"
    /\ IF live THEN a.run \in Runs /\ a = act[a.run] ELSE a \in late

\* What is known of it.
LEMMA AtWorkFacts ==
    ASSUME WorkTypeOK, RunInv, NEW a, NEW live \in BOOLEAN, AtWork(a, live)
    PROVE  /\ a.run \in Runs /\ Ready(job, a.at, JobOf(a), a.output) /\ run[a.run] \in RunType
           /\ live => run[a.run].at \in Acts
  BY DEF AtWork, RunInv, WorkTypeOK, JobOf

\* The end of an attempt.
LEMMA EndKept ==
    ASSUME WorkTypeOK, RunInv, Kept, NEW a, NEW live \in BOOLEAN, AtWork(a, live),
           NEW next, live => MayGo(a.run, next), End(a, live, next)
    PROVE  WorkTypeOK' /\ RunInv'
  <1>1. CASE live
    BY <1>1, AtWorkFacts, RunToKept DEF End
  <1>2. CASE ~live
    BY <1>2, RunsLeft DEF End
  <1> QED
    BY <1>1, <1>2

\* The run of an attempt goes on to another activity, or completes.
LEMMA GoMayGo ==
    ASSUME WorkTypeOK, NEW r \in Runs, run[r].at \in Acts, NEW at \in Acts \cup Closed
    PROVE  /\ (\A o : Ready(job', at, run[r].job, o)) => MayGo(r, Go(r, at))
           /\ \A o \in Outputs : Ready(job', at, run[r].job, o) => MayGo(r, [Go(r, at) EXCEPT !.output = o])
  <1>1. run[r] \in RunType
    BY DEF WorkTypeOK
  <1> QED
    BY <1>1, ActFacts DEF MayGo, Go, RunType, Granted

\* An attempt keeps the runs: each call makes its job ready for the next.
LEMMA AttemptKept ==
    ASSUME WorkTypeOK, RunInv, RowInv, RowInv', Kept, NEW a, NEW live \in BOOLEAN,
           AtWork(a, live), Attempt(a, live)
    PROVE  WorkTypeOK' /\ RunInv'
  <1> DEFINE j == JobOf(a)
  <1>w. /\ a.run \in Runs /\ Ready(job, a.at, j, a.output) /\ run[a.run] \in RunType
        /\ live => run[a.run].at \in Acts
    BY AtWorkFacts
  <1>j. /\ j \in JobIds /\ j \in Rows /\ job[j] \in JobType /\ j = run[a.run].job
        /\ job \in [JobIds -> JobType] /\ job' \in [JobIds -> JobType]
    BY <1>w DEF Ready, Rows, RowInv, JobOf
  <1>k. Grows(job[j], job'[j]) /\ job'[j].status # "none" /\ (\A at, o : Ready(job, at, j, o) => Ready(job', at, j, o))
    BY <1>j, ReadyKept DEF Kept, Grows
  <1>l. Linked(job[j]) /\ RowTypeOK
    BY <1>j DEF RowInv, RowTypeOK
  <1>e. live => MayGo(a.run, AfterError(a.run)) /\ MayGo(a.run, AfterRetry(a.run))
    BY <1>w, ErrorMayGo
  <1>1. CASE FreezeManifest(a, live)
    <2>1. job'[j].frozen
      BY <1>1, <1>j, UpdateRow DEF FreezeManifest, RegisterManifest, JobType
    <2>2. \A o : Ready(job', "render", j, o)
      BY <1>j, <1>k, <2>1 DEF Ready
    <2>3. live => MayGo(a.run, Go(a.run, "render"))
      BY <1>w, <1>j, <2>2, GoMayGo, ActFacts
    <2> QED
      BY <1>1, <2>3, EndKept DEF FreezeManifest
  <1>2. CASE WriteSubtitle(a, live)
    <2> DEFINE b == [a EXCEPT !.at = "encode"]
    <2>a. a \in Work /\ a.at = "render"
      BY <1>2 DEF AtWork, WriteSubtitle
    <2>b. b \in Work /\ b.at = "encode" /\ b.run = a.run
      BY <2>a DEF Work
    <2>1. job'[j].titled
      BY <1>2, <1>w, <1>j, <1>l, <2>a, SubtitleKept DEF WriteSubtitle, Ready
    <2>2. \A o : Ready(job', "encode", j, o)
      <3>1. job'[j].frozen
        BY <1>w, <1>k, <2>a DEF Ready, Grows
      <3> QED
        BY <1>j, <1>k, <2>1, <3>1 DEF Ready
    <2>3. UNCHANGED run
      BY <1>2 DEF WriteSubtitle
    <2>4. CASE live
      <3>1. act' = [act EXCEPT ![a.run] = b] /\ late' = late
        BY <1>2, <2>4 DEF WriteSubtitle
      <3>2. WorkTypeOK'
        BY <2>b, <2>3, <3>1 DEF WorkTypeOK
      <3>3. act'[a.run] = b /\ \A r \in Runs : r # a.run => act'[r] = act[r]
        BY <1>w, <3>1 DEF WorkTypeOK
      <3>4. \A r \in Runs : run[r].at # "none" => Ready(job', run[r].at, run[r].job, run[r].output)
        BY ReadyKept DEF RunInv
      <3>5. \A r \in Runs : act'[r].at # "idle" <=> run[r].at \in Acts
        BY <1>w, <2>4, <2>b, <3>3 DEF RunInv
      <3>6. ASSUME NEW r \in Runs, act'[r].at # "idle"
            PROVE  act'[r].run = r /\ Ready(job', act'[r].at, run[r].job, act'[r].output)
        <4>1. CASE r = a.run
          <5>1. a = act[a.run] /\ a.at # "idle"
            BY <2>4 DEF AtWork
          <5>2. a.run = r
            BY <4>1
          <5>3. Ready(job', "encode", j, b.output)
            BY <2>2
          <5> QED
            BY <1>j, <2>b, <3>3, <4>1, <5>2, <5>3
        <4>2. CASE r # a.run
          <5>1. act'[r] = act[r]
            BY <3>3, <4>2
          <5>2. act[r].run = r /\ Ready(job, act[r].at, run[r].job, act[r].output)
            BY <3>6, <5>1 DEF RunInv
          <5> QED
            BY <5>1, <5>2, ReadyKept
        <4> QED
          BY <4>1, <4>2
      <3>7. \A c \in late : c.run \in Runs /\ run[c.run].at # "none" /\ Ready(job', c.at, run[c.run].job, c.output)
        BY ReadyKept DEF RunInv
      <3> QED
        BY <2>3, <3>1, <3>2, <3>4, <3>5, <3>6, <3>7 DEF RunInv
    <2>5. CASE ~live
      <3>1. late' = (late \ {a}) \cup {b} /\ UNCHANGED act
        BY <1>2, <2>5 DEF WriteSubtitle
      <3>2. WorkTypeOK'
        BY <2>b, <2>3, <3>1 DEF WorkTypeOK
      <3>3. \A c \in late : c.run \in Runs /\ run[c.run].at # "none" /\ Ready(job', c.at, run[c.run].job, c.output)
        BY ReadyKept DEF RunInv
      <3>4. b.run \in Runs /\ run[b.run].at # "none" /\ Ready(job', b.at, run[b.run].job, b.output)
        <4>1. a \in late
          BY <2>5 DEF AtWork
        <4> QED
          BY <1>w, <1>j, <2>2, <2>b, <4>1 DEF RunInv
      <3>5. \A r \in Runs : run[r].at # "none" => Ready(job', run[r].at, run[r].job, run[r].output)
        BY ReadyKept DEF RunInv
      <3>6. \A r \in Runs : act[r].at # "idle" => act[r].run = r /\ Ready(job', act[r].at, run[r].job, act[r].output)
        BY ReadyKept DEF RunInv
      <3>7. \A c \in late' : c.run \in Runs /\ run[c.run].at # "none" /\ Ready(job', c.at, run[c.run].job, c.output)
        BY <3>1, <3>3, <3>4
      <3> QED
        BY <2>3, <3>1, <3>2, <3>5, <3>6, <3>7 DEF RunInv
    <2> QED
      BY <2>4, <2>5
  <1>3. CASE Encode(a, live)
    <2>1. PICK o \in Outputs : RegisterOutput(j, o) /\ End(a, live, [Go(a.run, "validate") EXCEPT !.output = o])
      BY <1>3 DEF Encode
    <2>2. job'[j].output = o
      BY <1>3, <1>w, <1>j, <1>l, <2>1, OutputKept DEF Encode, Ready
    <2>3. Ready(job', "validate", j, o)
      <3>1. job'[j].frozen /\ job'[j].titled
        BY <1>3, <1>w, <1>k DEF Encode, Ready, Grows
      <3>2. Sourced(job'[j], o)
        BY <1>j, <1>k, <2>2, ArtifactFacts DEF RowInv, Rows, Linked, Sourced
      <3> QED
        BY <1>j, <1>k, <2>2, <3>1, <3>2, ArtifactFacts DEF Ready
    <2>4. live => MayGo(a.run, [Go(a.run, "validate") EXCEPT !.output = o])
      BY <1>w, <1>j, <2>3, GoMayGo, ActFacts
    <2> QED
      BY <2>1, <2>4, EndKept
  <1>4. CASE Validate(a, live)
    <2> DEFINE report == IF a.output \in Valid THEN "passed" ELSE "failed"
    <2>1. RegisterReport(j, report) /\ End(a, live, AfterReport(a, report)) /\ a.at = "validate"
      BY <1>4 DEF Validate
    <2>2. job[j].output # "none" /\ Reportable(job[j], report)
      BY <1>w, <2>1 DEF Ready, Reportable, HasValid
    <2>3. ASSUME report = "passed" PROVE \A o : Ready(job', "completed", j, o)
      <3>1. job'[j].output = job[j].output /\ <<job[j].output, "passed">> \in job'[j].edges
        BY <1>j, <1>l, <2>1, <2>2, <2>3, ReportKept
      <3>2. Linked(job'[j])
        BY <1>j, <1>k DEF RowInv, Rows
      <3>3. job[j].output \in Outputs
        BY <1>j, <2>2 DEF JobType
      <3>4. HasValid(job'[j])
        BY <1>k, <2>2, <2>3 DEF Reportable, HasValid, Sourced, Grows
      <3>5. Rendered(job'[j])
        BY <2>2, <3>1, <3>2, <3>3, <3>4 DEF Rendered, Linked, Sourced
      <3> QED
        BY <1>j, <1>k, <3>5 DEF Ready
    <2>4. live => MayGo(a.run, AfterReport(a, report))
      <3>1. CASE report = "passed"
        BY <1>w, <1>j, <2>3, <3>1, GoMayGo, ActFacts DEF AfterReport
      <3>2. CASE report # "passed"
        BY <1>e, <3>2 DEF AfterReport
      <3> QED
        BY <3>1, <3>2
    <2> QED
      BY <2>1, <2>4, EndKept
  <1>5. CASE MarkFailed(a, live)
    <2>1. \A o : Ready(job', "closed", j, o)
      BY <1>j, <1>k DEF Ready
    <2>2. live => MayGo(a.run, Go(a.run, "closed"))
      BY <1>w, <1>j, <2>1, GoMayGo, ActFacts
    <2> QED
      BY <1>5, <2>2, EndKept DEF MarkFailed
  <1>6. CASE Raise(a, live)
    BY <1>6, <1>e, EndKept DEF Raise
  <1> QED
    BY <1>1, <1>2, <1>3, <1>4, <1>5, <1>6 DEF Attempt

-----------------------------------------------------------------------------
(* Requests, and the speech they read.                                     *)

Takes == (1..MaxTexts) \X Indices

BoardTyped ==
    /\ text \in Int
    /\ seg \in [Segments -> [state : {"none", "pending", "fitting", "fit", "needs_review"},
                             text : Int, cur : {None} \cup Takes]]
    /\ att \in [Segments -> [1..MaxTexts -> [Indices -> {"none", "open", "failed"} \cup Measured]]]

ReqType == [job : 0..MaxJobs, version : Nat, run : 0..MaxRuns, input : Inputs]

UserTypeOK ==
    /\ style \in 0..MaxStyles
    /\ upc \in [Users -> {"idle", "tracks", "commit", "launch", "bind", "cancel"}]
    /\ req \in [Users -> ReqType]
    /\ asked \in 0..MaxAsks

\* An outcome that was decided is not decided again.
FitKept == \A s \in Segments : \A a \in Takes : att[s][a[1]][a[2]] = "fit" => att'[s][a[1]][a[2]] = "fit"

\* The speech keeps its types and the outcomes that fit.
LEMMA BoardKept ==
    ASSUME BoardTyped, BoardNext
    PROVE  BoardTyped' /\ FitKept
  <1>1. CASE Retranslate \/ Reapprove
    BY <1>1 DEF Retranslate, Reapprove, BoardTyped, FitKept
  <1>2. ASSUME NEW ss \in SUBSET Segments, Refresh(ss) PROVE BoardTyped' /\ FitKept
    BY <1>2 DEF Refresh, Fresh, BoardTyped, FitKept
  <1>3. ASSUME NEW s \in Segments, Start(s) PROVE BoardTyped' /\ FitKept
    BY <1>3 DEF Start, BoardTyped, FitKept
  <1>4. ASSUME NEW s \in Segments, NEW a \in Takes, NEW outcome \in {"open", "failed"} \cup Measured,
               Outcome(s, a) # "fit", att' = [att EXCEPT ![s][a[1]][a[2]] = outcome],
               UNCHANGED <<text, approved, seg>>
        PROVE  BoardTyped' /\ FitKept
    <2>1. a[1] \in 1..MaxTexts /\ a[2] \in Indices
      BY DEF Takes
    <2>2. att' \in [Segments -> [1..MaxTexts -> [Indices -> {"none", "open", "failed"} \cup Measured]]]
      BY <1>4, <2>1 DEF BoardTyped
    <2>3. ASSUME NEW t \in Segments, NEW b \in Takes, att[t][b[1]][b[2]] = "fit"
          PROVE  att'[t][b[1]][b[2]] = "fit"
      <3>1. b[1] \in 1..MaxTexts /\ b[2] \in Indices
        BY DEF Takes
      <3>2. ~(t = s /\ b[1] = a[1] /\ b[2] = a[2])
        BY <1>4, <2>3 DEF Outcome
      <3> QED
        BY <1>4, <2>1, <2>3, <3>1, <3>2 DEF BoardTyped
    <2> QED
      BY <1>4, <2>2, <2>3 DEF BoardTyped, FitKept
  <1>5. ASSUME NEW s \in Segments, NEW a \in Takes,
               \/ Open(s, a)
               \/ \E outcome \in Measured \cup {"failed"} : Decide(s, a, outcome)
        PROVE  BoardTyped' /\ FitKept
    BY <1>4, <1>5 DEF Open, Decide
  <1>6. ASSUME NEW s \in Segments, NEW a \in Takes, NEW state \in {"fit", "needs_review"}, Select(s, a, state)
        PROVE  BoardTyped' /\ FitKept
    BY <1>6 DEF Select, BoardTyped, FitKept
  <1> QED
    BY <1>1, <1>2, <1>3, <1>5, <1>6 DEF BoardNext, Takes

\* An input is frozen from a style that was there and attempts that fit.
Fits(outcomes, input, s) ==
    LET a == input.tracks[s] IN a # None /\ outcomes[s][a[1]][a[2]] = "fit"

FrozenInv ==
    /\ \A j \in Rows : job[j].input.style \in 1..style
                       /\ \A s \in Segments : Fits(att, job[j].input, s)
    /\ \A u \in Users : upc[u] \in {"tracks", "commit"} =>
          /\ req[u].input.style \in 1..style
          /\ \A s \in Segments : \/ Fits(att, req[u].input, s)
                                 \/ upc[u] = "tracks" /\ req[u].input.tracks[s] = None

Inv ==
    /\ RowInv /\ WorkTypeOK /\ WorkInv
    /\ BoardTyped /\ UserTypeOK /\ FrozenInv

\* The empty input, request and run are typed.
LEMMA EmptyTyped == NoInput \in Inputs /\ NoReq \in ReqType /\ NoRun \in RunType
  <1>1. NoInput \in Inputs /\ 0 \in 0..MaxRuns /\ 0 \in 0..MaxJobs
    BY RenderBounds DEF NoInput, Inputs, Tracks
  <1> QED
    BY <1>1 DEF NoReq, ReqType, NoRun, RunType

\* What fits keeps fitting.
LEMMA FitsKept ==
    ASSUME FitKept, UserTypeOK, NEW input \in Inputs, NEW s \in Segments, Fits(att, input, s)
    PROVE  Fits(att', input, s)
  <1>1. input.tracks[s] \in Takes
    BY DEF Inputs, Tracks, Takes, Fits
  <1> QED
    BY <1>1 DEF Fits, FitKept

\* A segment that is renderable gives a track that fits.
LEMMA RenderableFits ==
    ASSUME BoardTyped, NEW s \in Segments, Renderable(s)
    PROVE  LET a == <<text, seg[s].cur[2]>> IN a \in Takes /\ a # None /\ att[s][a[1]][a[2]] = "fit"
  <1>1. seg[s].cur \in Takes /\ seg[s].cur[1] = text
    BY DEF BoardTyped, Renderable
  <1>2. seg[s].cur = <<text, seg[s].cur[2]>>
    BY <1>1 DEF Takes
  <1> QED
    BY <1>1, <1>2 DEF Renderable, Outcome

\* The frozen inputs keep fitting: a row that is made has the input of its request.
LEMMA RowsFrozen ==
    ASSUME Inv, Made, FitKept, RowInv', style' \in style..MaxStyles
    PROVE  \A j \in Rows' : /\ job'[j].input.style \in 1..style'
                            /\ \A s \in Segments : Fits(att', job'[j].input, s)
  <1> SUFFICES ASSUME NEW j \in Rows'
               PROVE  /\ job'[j].input.style \in 1..style'
                      /\ \A s \in Segments : Fits(att', job'[j].input, s)
    OBVIOUS
  <1>1. j \in JobIds /\ job'[j].status # "none" /\ job'[j].input \in Inputs
    BY DEF Rows, RowInv, JobType
  <1>2. job'[j].input.style \in 1..style /\ \A s \in Segments : Fits(att, job'[j].input, s)
    <2>1. CASE j \in Rows /\ job'[j].input = job[j].input
      BY <2>1 DEF Inv, FrozenInv
    <2>2. ASSUME NEW u \in Users, upc[u] = "commit", job'[j].input = req[u].input
          PROVE  job'[j].input.style \in 1..style /\ \A s \in Segments : Fits(att, job'[j].input, s)
      BY <2>2 DEF Inv, FrozenInv
    <2> QED
      BY <1>1, <2>1, <2>2 DEF Made
  <1>3. \A s \in Segments : Fits(att', job'[j].input, s)
    BY <1>1, <1>2, FitsKept DEF Inv
  <1> QED
    BY <1>2, <1>3 DEF Inv, UserTypeOK

\* What holds of a request, at its state.
ReqInv(rows, outcomes, styles, state, r) ==
    /\ state \in {"launch", "bind", "cancel"} => r.job \in JobIds /\ rows[r.job].status # "none"
    /\ state \in {"tracks", "commit"} =>
          /\ r.input.style \in 1..styles
          /\ \A s \in Segments : \/ Fits(outcomes, r.input, s)
                                 \/ state = "tracks" /\ r.input.tracks[s] = None

UserStates == {"idle", "tracks", "commit", "launch", "bind", "cancel"}

\* The requests that do not move keep what holds of them, and the one that moves has it.
LEMMA GotoKept ==
    ASSUME Inv, Kept, FitKept, RowInv', style' \in style..MaxStyles, NEW u \in Users,
           NEW state \in UserStates, NEW r \in ReqType, Goto(u, state, r),
           ReqInv(job', att', style', state, r)
    PROVE  /\ UserTypeOK'
           /\ \A v \in Users : ReqInv(job', att', style', upc'[v], req'[v])
  <1>1. UserTypeOK'
    BY RenderBounds DEF Goto, Inv, UserTypeOK, UserStates
  <1>2. ASSUME NEW v \in Users PROVE ReqInv(job', att', style', upc'[v], req'[v])
    <2>1. CASE v = u
      <3>1. upc'[v] = state /\ req'[v] = r
        BY <2>1 DEF Goto, Inv, UserTypeOK
      <3> QED
        BY <3>1
    <2>2. CASE v # u
      <3>1. upc'[v] = upc[v] /\ req'[v] = req[v] /\ req[v] \in ReqType
        BY <2>2 DEF Goto, Inv, UserTypeOK
      <3>2. upc[v] \in {"launch", "bind", "cancel"} => req[v].job \in JobIds /\ job'[req[v].job].status # "none"
        BY DEF Inv, WorkInv, Kept, Grows, Rows
      <3>3. req[v].input \in Inputs
        BY <3>1 DEF ReqType
      <3>4. upc[v] \in {"tracks", "commit"} =>
                /\ req[v].input.style \in 1..style'
                /\ \A s \in Segments : \/ Fits(att', req[v].input, s)
                                       \/ upc[v] = "tracks" /\ req[v].input.tracks[s] = None
        BY <3>3, FitsKept DEF Inv, FrozenInv, UserTypeOK
      <3> QED
        BY <3>1, <3>2, <3>4 DEF ReqInv
    <2> QED
      BY <2>1, <2>2
  <1> QED
    BY <1>1, <1>2

\* So do all of them when none moves.
LEMMA UsersKept ==
    ASSUME Inv, Kept, FitKept, RowInv', style' \in style..MaxStyles, UNCHANGED userVars
    PROVE  /\ UserTypeOK'
           /\ \A v \in Users : ReqInv(job', att', style', upc'[v], req'[v])
  <1>1. upc' = upc /\ req' = req /\ asked' = asked
    BY DEF userVars
  <1>2. UserTypeOK'
    BY <1>1 DEF Inv, UserTypeOK
  <1>3. ASSUME NEW v \in Users PROVE ReqInv(job', att', style', upc[v], req[v])
    <2>1. upc[v] \in {"launch", "bind", "cancel"} => req[v].job \in JobIds /\ job'[req[v].job].status # "none"
      BY DEF Inv, WorkInv, Kept, Grows, Rows
    <2>2. req[v].input \in Inputs
      BY DEF Inv, UserTypeOK, ReqType
    <2>3. upc[v] \in {"tracks", "commit"} =>
              /\ req[v].input.style \in 1..style'
              /\ \A s \in Segments : \/ Fits(att', req[v].input, s)
                                     \/ upc[v] = "tracks" /\ req[v].input.tracks[s] = None
      BY <2>2, FitsKept DEF Inv, FrozenInv, UserTypeOK
    <2> QED
      BY <2>1, <2>3 DEF ReqInv
  <1> QED
    BY <1>1, <1>2, <1>3

\* What a request leaves: its own state and that of the runs.
UserKept ==
    /\ WorkTypeOK' /\ RunInv' /\ UserTypeOK'
    /\ \A v \in Users : ReqInv(job', att', style', upc'[v], req'[v])

\* Starting a render reads the style and one track after the other.
LEMMA ReadKept ==
    ASSUME Inv, Kept, RowInv', UNCHANGED <<board, style>>, NEW u \in Users,
           PrepareRead(u) \/ PrepareTrack(u)
    PROVE  UserKept
  <1>1. FitKept /\ style' \in style..MaxStyles /\ att' = att /\ style' = style /\ style \in 0..MaxStyles
    BY DEF FitKept, board, Inv, UserTypeOK
  <1>2. WorkTypeOK' /\ RunInv'
    BY RunsLeft DEF PrepareRead, PrepareTrack, workVars, Inv, WorkInv
  <1>3. CASE PrepareRead(u)
    <2> DEFINE r == [NoReq EXCEPT !.input.style = style]
    <2>1. r \in ReqType /\ r.input.style = style /\ r.input.tracks = NoInput.tracks
      <3>1. [NoInput EXCEPT !.style = style] \in Inputs
        BY <1>1, EmptyTyped DEF Inputs
      <3>2. r.input = [NoInput EXCEPT !.style = style]
        BY DEF NoReq
      <3> QED
        BY <3>1, <3>2, EmptyTyped DEF ReqType, NoReq, NoInput, Inputs
    <2>2. style \in 1..style
      BY <1>1, <1>3 DEF PrepareRead
    <2>3. ReqInv(job', att', style', "tracks", r)
      BY <1>1, <2>1, <2>2 DEF ReqInv, NoInput
    <2>4. Goto(u, "tracks", r)
      BY <1>3 DEF PrepareRead
    <2> QED
      BY <1>1, <1>2, <2>1, <2>3, <2>4, GotoKept DEF UserKept, UserStates
  <1>4. CASE PrepareTrack(u)
    <2>1. PICK s \in Untracked(u) :
              /\ Renderable(s)
              /\ Goto(u, IF Untracked(u) = {s} THEN "commit" ELSE "tracks",
                      [req[u] EXCEPT !.input.tracks[s] = <<text, seg[s].cur[2]>>])
      BY <1>4 DEF PrepareTrack
    <2> DEFINE a     == <<text, seg[s].cur[2]>>
               r     == [req[u] EXCEPT !.input.tracks[s] = a]
               state == IF Untracked(u) = {s} THEN "commit" ELSE "tracks"
    <2>2. s \in Segments /\ a \in Takes /\ a # None /\ att[s][a[1]][a[2]] = "fit"
      BY <2>1, RenderableFits DEF Untracked, Inv
    <2>3. req[u] \in ReqType /\ req[u].input \in Inputs /\ req[u].input.tracks \in Tracks
      BY DEF Inv, UserTypeOK, ReqType, Inputs
    <2>4. [req[u].input.tracks EXCEPT ![s] = a] \in Tracks
      BY <2>2, <2>3 DEF Tracks, Takes
    <2>5. /\ r \in ReqType /\ r.input.style = req[u].input.style
          /\ r.input.tracks = [req[u].input.tracks EXCEPT ![s] = a]
      BY <2>3, <2>4 DEF ReqType, Inputs
    <2>6. upc[u] = "tracks" /\ req[u].input.style \in 1..style
          /\ \A t \in Segments : Fits(att, req[u].input, t) \/ req[u].input.tracks[t] = None
      BY <1>4 DEF PrepareTrack, Inv, FrozenInv
    <2>7. ASSUME NEW t \in Segments
          PROVE  Fits(att', r.input, t) \/ (state = "tracks" /\ r.input.tracks[t] = None)
      <3>1. CASE t = s
        <4>1. r.input.tracks[t] = a
          BY <2>2, <2>3, <2>5, <3>1 DEF Tracks
        <4> QED
          BY <1>1, <2>2, <3>1, <4>1 DEF Fits
      <3>2. CASE t # s
        <4>1. r.input.tracks[t] = req[u].input.tracks[t]
          BY <2>2, <2>3, <2>5, <3>2 DEF Tracks
        <4>2. state = "commit" => req[u].input.tracks[t] # None
          BY <3>2 DEF Untracked
        <4> QED
          BY <1>1, <2>6, <4>1, <4>2 DEF Fits
      <3> QED
        BY <3>1, <3>2
    <2>8. ReqInv(job', att', style', state, r)
      BY <1>1, <2>5, <2>6, <2>7 DEF ReqInv
    <2>9. Goto(u, state, r) /\ state \in UserStates
      BY <2>1 DEF UserStates
    <2> QED
      BY <1>1, <1>2, <2>5, <2>8, <2>9, GotoKept DEF UserKept
  <1> QED
    BY <1>3, <1>4

\* A request that ends leaves the rest.
LEMMA DoneKept ==
    ASSUME Inv, Kept, RowInv', UNCHANGED <<board, style>>, NEW u \in Users, Done(u), UNCHANGED workVars
    PROVE  UserKept
  <1>1. FitKept /\ style' \in style..MaxStyles
    BY DEF FitKept, board, Inv, UserTypeOK
  <1>2. ReqInv(job', att', style', "idle", NoReq)
    BY DEF ReqInv
  <1>3. WorkTypeOK' /\ RunInv'
    BY RunsLeft DEF workVars, Inv, WorkInv
  <1> QED
    BY <1>1, <1>2, <1>3, EmptyTyped, GotoKept DEF Done, UserKept, UserStates

\* The transaction of a start ends with its row.
LEMMA CommitKept ==
    ASSUME Inv, Kept, RowInv', NEW u \in Users, Prepare(u)
    PROVE  UserKept
  <1>1. PICK j \in JobIds :
            /\ job' = [job EXCEPT ![j] =
                          IF j \in Rows THEN Reopened(@)
                          ELSE [NoJob EXCEPT !.input = req[u].input, !.status = "processing", !.version = 1]]
            /\ IF job'[j].status # "succeeded" /\ job'[j].run = 0
               THEN Goto(u, "launch", [NoReq EXCEPT !.job = j, !.version = job'[j].version])
               ELSE Done(u)
    BY DEF Prepare
  <1>2. UNCHANGED <<board, style>> /\ UNCHANGED workVars
    BY DEF Prepare
  <1>3. CASE Done(u)
    BY <1>2, <1>3, DoneKept
  <1>4. CASE Goto(u, "launch", [NoReq EXCEPT !.job = j, !.version = job'[j].version])
    <2> DEFINE r == [NoReq EXCEPT !.job = j, !.version = job'[j].version]
    <2>1. job'[j] \in JobType /\ job'[j].version \in Nat /\ j \in 0..MaxJobs
      BY RenderBounds DEF RowInv, JobType, JobIds
    <2>2. r \in ReqType /\ r.job = j
      <3>1. \A v \in Nat : [NoReq EXCEPT !.job = j, !.version = v] \in ReqType
        BY <2>1, EmptyTyped DEF ReqType
      <3> QED
        BY <2>1, <3>1, EmptyTyped DEF ReqType
    <2>3. job'[j].status # "none"
      <3>1. CASE j \in Rows
        BY <3>1 DEF Kept, Grows
      <3>2. CASE j \notin Rows
        BY <1>1, <3>2 DEF RowInv, Inv, NoJob
      <3> QED
        BY <3>1, <3>2
    <2>4. ReqInv(job', att', style', "launch", r)
      BY <2>2, <2>3 DEF ReqInv
    <2>5. FitKept /\ style' \in style..MaxStyles
      BY <1>2 DEF FitKept, board, Inv, UserTypeOK
    <2>6. WorkTypeOK' /\ RunInv'
      BY <1>2, RunsLeft DEF workVars, Inv, WorkInv
    <2> QED
      BY <1>4, <2>2, <2>4, <2>5, <2>6, GotoKept DEF UserKept, UserStates
  <1> QED
    BY <1>1, <1>3, <1>4

\* A run starts once, at its first activity; a request that joins one leaves it.
LEMMA LaunchKept ==
    ASSUME Inv, Kept, RowInv', NEW u \in Users, Launch(u)
    PROVE  UserKept
  <1>u. UNCHANGED <<board, style, job, late>> /\ upc[u] = "launch"
    BY DEF Launch
  <1>1. FitKept /\ style' \in style..MaxStyles
    BY <1>u DEF FitKept, board, Inv, UserTypeOK
  <1>2. req[u] \in ReqType /\ req[u].job \in JobIds /\ job'[req[u].job].status # "none"
    BY <1>u DEF Inv, UserTypeOK, WorkInv, Rows
  <1>3. ASSUME NEW r \in Runs PROVE [req[u] EXCEPT !.run = r] \in ReqType /\ [req[u] EXCEPT !.run = r].job = req[u].job
    BY <1>2, RenderBounds DEF ReqType, Runs
  <1>4. ASSUME NEW r \in Runs, Goto(u, "bind", [req[u] EXCEPT !.run = r])
        PROVE  UserTypeOK' /\ \A v \in Users : ReqInv(job', att', style', upc'[v], req'[v])
    <2>1. ReqInv(job', att', style', "bind", [req[u] EXCEPT !.run = r])
      BY <1>2, <1>3 DEF ReqInv
    <2> QED
      BY <1>1, <1>3, <1>4, <2>1, GotoKept DEF UserStates
  <1>5. PICK r \in Runs :
          IF Started(u) = {}
          THEN /\ \A q \in Runs : q < r <=> run[q].at # "none"
               /\ RunTo(r, [NoRun EXCEPT !.job = req[u].job, !.version = req[u].version, !.at = "freeze"])
               /\ Goto(u, "bind", [req[u] EXCEPT !.run = r])
          ELSE /\ r \in Started(u)
               /\ IF run[r].at = "closed" THEN Done(u) ELSE Goto(u, "bind", [req[u] EXCEPT !.run = r])
               /\ UNCHANGED <<run, act>>
    BY DEF Launch
  <1>6. CASE Started(u) = {}
    <2> DEFINE next == [NoRun EXCEPT !.job = req[u].job, !.version = req[u].version, !.at = "freeze"]
    <2>1. run[r].at = "none"
      BY <1>5, <1>6 DEF Runs
    <2>2. next \in RunType /\ next.at = "freeze" /\ next.n = 1 /\ next.job = req[u].job
      <3>1. req[u].job \in 0..MaxJobs /\ req[u].version \in Nat
        BY <1>2 DEF ReqType
      <3> QED
        BY <3>1, EmptyTyped DEF RunType, NoRun, Acts
    <2>3. \A o : Ready(job', "freeze", req[u].job, o)
      BY <1>2 DEF Ready
    <2>4. MayGo(r, next)
      BY <2>1, <2>2, <2>3, ActFacts DEF MayGo, Granted
    <2>5. WorkTypeOK' /\ RunInv'
      BY <1>5, <1>6, <1>u, <2>4, RunToKept DEF Inv, WorkInv
    <2> QED
      BY <1>4, <1>5, <1>6, <2>5 DEF UserKept
  <1>7. CASE Started(u) # {} /\ Done(u)
    BY <1>5, <1>7, <1>u, DoneKept DEF workVars
  <1>8. CASE Started(u) # {} /\ Goto(u, "bind", [req[u] EXCEPT !.run = r])
    <2>1. WorkTypeOK' /\ RunInv'
      BY <1>5, <1>8, <1>u, RunsLeft DEF Inv, WorkInv
    <2> QED
      BY <1>4, <1>8, <2>1 DEF UserKept
  <1> QED
    BY <1>5, <1>6, <1>7, <1>8

\* An attempt that is given up, and the error its run goes on with.
LEMMA GiveUpKept ==
    ASSUME WorkTypeOK, RunInv, Kept, NEW r \in Runs, run[r].at \in Acts, GiveUp(r),
           NEW next, next \in {AfterError(r), AfterRetry(r)}, RunTo(r, next)
    PROVE  WorkTypeOK' /\ RunInv'
  <1>1. MayGo(r, next)
    BY ErrorMayGo
  <1>2. act[r].at # "idle" /\ late' \subseteq late \cup {act[r]}
    BY DEF RunInv, GiveUp
  <1> QED
    BY <1>1, <1>2, RunToKept

\* A cancellation cancels the run of the latest row, which is there.
LEMMA StopKept ==
    ASSUME Inv, Kept, RowInv', NEW u \in Users, Stop(u)
    PROVE  UserKept
  <1> DEFINE j == Cardinality(Rows)
             r == [NoReq EXCEPT !.job = j]
  <1>1. FitKept /\ style' \in style..MaxStyles /\ job' = job
    BY DEF Stop, FitKept, board, Inv, UserTypeOK
  <1>2. j \in Rows /\ j \in JobIds /\ j \in 0..MaxJobs /\ job[j].status # "none"
    BY RowsFacts DEF Stop, Inv, Rows
  <1>3. r \in ReqType /\ r.job = j
    BY <1>2, EmptyTyped DEF ReqType
  <1>4. ReqInv(job', att', style', "cancel", r)
    BY <1>1, <1>2, <1>3 DEF ReqInv
  <1>5. UserTypeOK' /\ \A v \in Users : ReqInv(job', att', style', upc'[v], req'[v])
    BY <1>1, <1>3, <1>4, GotoKept DEF Stop, UserStates
  <1>6. WorkTypeOK' /\ RunInv'
    <2>1. CASE UNCHANGED workVars
      BY <2>1, RunsLeft DEF workVars, Inv, WorkInv
    <2>2. CASE job[j].run # 0 /\ run[job[j].run].at \in Acts /\ Cancel(job[j].run)
      <3>1. job[j].run \in Runs
        <4>1. job[j] \in JobType
          BY <1>2 DEF Inv, RowInv
        <4>2. job[j].run \in 0..MaxRuns
          BY <4>1 DEF JobType
        <4> QED
          BY <2>2, <4>2, RenderBounds DEF Runs
      <3> QED
        BY <2>2, <3>1, GiveUpKept DEF Cancel, Inv, WorkInv
    <2> QED
      BY <2>1, <2>2 DEF Stop
  <1> QED
    BY <1>5, <1>6 DEF UserKept

\* A request keeps the runs and the requests.
LEMMA RequestKept ==
    ASSUME Inv, Kept, RowInv', NEW u \in Users, Request(u)
    PROVE  UserKept
  <1>1. CASE PrepareRead(u) \/ PrepareTrack(u)
    BY <1>1, ReadKept DEF PrepareRead, PrepareTrack
  <1>2. CASE Prepare(u)
    BY <1>2, CommitKept
  <1>3. CASE Launch(u)
    BY <1>3, LaunchKept
  <1>4. CASE Stop(u)
    BY <1>4, StopKept
  <1>5. CASE Bind(u) \/ MarkCancelled(u) \/ Abandon(u)
    BY <1>5, DoneKept DEF Bind, MarkCancelled, Abandon
  <1> QED
    BY <1>1, <1>2, <1>3, <1>4, <1>5 DEF Request

-----------------------------------------------------------------------------
(* The invariant.                                                          *)

\* The initial state has no rows, runs and requests, and no attempt at a synthesis.
LEMMA InvInit == Init => Inv
  <1> SUFFICES ASSUME Init PROVE Inv
    OBVIOUS
  <1>1. NoJob \in JobType /\ NoJob.status = "none"
    <2>1. {} \in Links /\ 0 \in Nat /\ 0 \in 0..MaxRuns
      BY RenderBounds DEF Links
    <2> QED
      BY <2>1, EmptyTyped DEF NoJob, JobType, Statuses
  <1>2. Rows = {} /\ Rows = 1..0 /\ 0 \in 0..MaxJobs
    <2>1. \A j \in JobIds : job[j].status = "none"
      BY <1>1 DEF Init
    <2> QED
      BY <2>1, RenderBounds DEF Rows
  <1>3. RowInv
    BY <1>1, <1>2 DEF RowInv, Init
  <1>4. WorkTypeOK
    <2>1. ASSUME NEW r \in Runs PROVE Idle \in Work
      <3>1. 1 \in Runs
        BY <2>1, RenderBounds DEF Runs
      <3> QED
        BY <3>1 DEF Idle, Work
    <2>2. Granted(NoRun)
      BY DEF Granted, NoRun, Acts
    <2> QED
      BY <2>1, <2>2, EmptyTyped DEF Init, WorkTypeOK
  <1>5. WorkInv
    BY DEF Init, WorkInv, RunInv, NoRun, Idle, Acts
  <1>6. BoardTyped
    BY DEF Init, BoardInit, BoardTyped, NewRow
  <1>7. UserTypeOK
    BY EmptyTyped, RenderBounds DEF Init, UserTypeOK
  <1>8. FrozenInv
    BY <1>2 DEF Init, FrozenInv
  <1> QED
    BY <1>3, <1>4, <1>5, <1>6, <1>7, <1>8 DEF Inv

\* Every step keeps the invariant.
LEMMA InvStep == Inv /\ [Next]_vars => Inv'
  <1> SUFFICES ASSUME Inv, [Next]_vars PROVE Inv'
    OBVIOUS
  <1>t. \A u \in Users : req[u].run \in 0..MaxRuns /\ req[u].input \in Inputs
    BY DEF Inv, UserTypeOK, ReqType
  <1>1. RowInv' /\ Kept /\ Made
    BY <1>t, StepIsTransaction, RowsStep DEF Inv
  <1>2. BoardTyped' /\ FitKept /\ style' \in style..MaxStyles
    <2>1. CASE Speech
      BY <2>1, BoardKept DEF Speech, Inv, UserTypeOK
    <2>2. CASE Restyle
      BY <2>2, RenderBounds DEF Restyle, board, Inv, BoardTyped, FitKept, UserTypeOK
    <2>3. CASE UNCHANGED <<board, style>>
      BY <2>3 DEF board, Inv, BoardTyped, FitKept, UserTypeOK
    <2>4. ASSUME NEW a, NEW live, Attempt(a, live) PROVE UNCHANGED <<board, style>>
      BY <2>4 DEF Attempt, FreezeManifest, WriteSubtitle, Encode, Validate, MarkFailed, Raise
    <2>5. ASSUME NEW u \in Users, Request(u) PROVE UNCHANGED <<board, style>>
      BY <2>5 DEF Request, PrepareRead, PrepareTrack, Prepare, Launch, Bind, Stop, MarkCancelled, Abandon
    <2>6. ASSUME NEW r \in Runs, Timeout(r) PROVE UNCHANGED <<board, style>>
      BY <2>6 DEF Timeout
    <2> QED
      BY <2>1, <2>2, <2>3, <2>4, <2>5, <2>6 DEF Next, vars
  <1>3. UserKept
    <2>1. CASE UNCHANGED <<userVars, workVars>>
      BY <1>1, <1>2, <2>1, UsersKept, RunsLeft DEF workVars, Inv, WorkInv, UserKept
    <2>2. ASSUME NEW u \in Users, Request(u) PROVE UserKept
      BY <1>1, <2>2, RequestKept
    <2>3. ASSUME NEW r \in Runs, Timeout(r) PROVE UserKept
      <3>1. WorkTypeOK' /\ RunInv'
        BY <1>1, <2>3, GiveUpKept DEF Timeout, Inv, WorkInv
      <3> QED
        BY <1>1, <1>2, <2>3, <3>1, UsersKept DEF Timeout, UserKept
    <2>4. ASSUME NEW a, NEW live \in BOOLEAN, AtWork(a, live), Attempt(a, live) PROVE UserKept
      <3>1. WorkTypeOK' /\ RunInv'
        BY <1>1, <2>4, AttemptKept DEF Inv, WorkInv
      <3>2. UNCHANGED userVars
        BY <2>4 DEF Attempt, FreezeManifest, WriteSubtitle, Encode, Validate, MarkFailed, Raise
      <3> QED
        BY <1>1, <1>2, <3>1, <3>2, UsersKept DEF UserKept
    <2>5. ASSUME NEW a, NEW live, Attempt(a, live) PROVE a.at # "idle"
      BY <2>5 DEF Attempt, FreezeManifest, WriteSubtitle, Encode, Validate, MarkFailed, Raise
    <2>6. ASSUME NEW r \in Runs, Attempt(act[r], TRUE) PROVE UserKept
      <3>1. act[r].at # "idle"
        BY <2>5, <2>6
      <3>2. act[r] \in Work /\ act[r].run = r
        BY <3>1 DEF Inv, WorkInv, RunInv, WorkTypeOK
      <3> QED
        BY <2>4, <2>6, <3>1, <3>2 DEF AtWork
    <2>7. ASSUME NEW a \in late, Attempt(a, FALSE) PROVE UserKept
      <3>1. a.at # "idle"
        BY <2>5, <2>7
      <3> QED
        BY <2>4, <2>7, <3>1 DEF AtWork, Inv, WorkTypeOK
    <2> QED
      BY <2>1, <2>2, <2>3, <2>6, <2>7 DEF Next, Speech, Restyle, vars
  <1>4. WorkInv'
    BY <1>3 DEF UserKept, ReqInv, WorkInv, Rows
  <1>5. FrozenInv'
    <2>1. \A u \in Users : upc'[u] \in {"tracks", "commit"} =>
              /\ req'[u].input.style \in 1..style'
              /\ \A s \in Segments : \/ Fits(att', req'[u].input, s)
                                     \/ upc'[u] = "tracks" /\ req'[u].input.tracks[s] = None
      BY <1>3 DEF UserKept, ReqInv
    <2> QED
      BY <1>1, <1>2, <2>1, RowsFrozen DEF FrozenInv, Fits
  <1> QED
    BY <1>1, <1>2, <1>3, <1>4, <1>5 DEF Inv, UserKept

-----------------------------------------------------------------------------
(* The theorems.                                                           *)

\* The invariant holds.
THEOREM Invariance == Spec => []Inv
  BY InvInit, InvStep, PTL DEF Spec

\* Every variable of the renders keeps its type, and an activity is granted its attempt.
THEOREM TypeCorrect == Spec => []TypeOK
  <1>1. Inv => TypeOK
    <2> SUFFICES ASSUME Inv PROVE TypeOK
      OBVIOUS
    <2>1. RowInv /\ WorkTypeOK /\ UserTypeOK
      BY DEF Inv
    <2> QED
      BY <2>1 DEF TypeOK, RowInv, JobType, Links, Inputs, WorkTypeOK, RunType, Granted, UserTypeOK, ReqType
  <1> QED
    BY <1>1, Invariance, PTL

\* Whatever the speech, the style and other requests do between the reads of a start,
\* the manifest it freezes is made of attempts that were decided to fit.
THEOREM ManifestsFit == Spec => []ManifestIsSpoken
  <1>1. Inv => ManifestIsSpoken
    BY DEF Inv, FrozenInv, ManifestIsSpoken, Fits, Outcome
  <1> QED
    BY <1>1, Invariance, PTL

\* Whatever runs and late attempts register on its row, and however often it is cancelled
\* and renewed, a render succeeds only behind an output of it that passed.
THEOREM SuccessValidated == Spec => []SucceededWasValidated
  <1>1. Inv => SucceededWasValidated
    BY DEF Inv, RowInv, SucceededWasValidated, Linked, HasValid
  <1> QED
    BY <1>1, Invariance, PTL

\* A run that completed has rendered its job: an output of it passed.
THEOREM CompletionsRendered == Spec => []CompletedIsRendered
  <1>1. Inv => CompletedIsRendered
    BY DEF Inv, WorkInv, RunInv, Ready, Rendered, HasValid, CompletedIsRendered
  <1> QED
    BY <1>1, Invariance, PTL

=============================================================================
