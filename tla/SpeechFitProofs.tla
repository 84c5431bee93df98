-------------------------- MODULE SpeechFitProofs --------------------------
(***************************************************************************)
(* Proofs about the speech, for any segments, durations, texts, runs,      *)
(* requests and attempts: the decision on a synthesis is sound, the speech *)
(* keeps the promise its rendering is built on (SpeechBoard), and a run    *)
(* completes only after every segment had speech that fits.                *)
(*                                                                         *)
(* Every step is one of the board or leaves it (StepIsBoardStep), because  *)
(* an attempt is at a call only when the outcome it has read is what the   *)
(* call takes it for (AtWork); on the board outcomes are decided once      *)
(* (BoardKept), so what a late attempt has read stays true.                *)
(***************************************************************************)
EXTENDS SpeechFit, TLAPS

-----------------------------------------------------------------------------
(* The decision.                                                           *)

\* The quotient that is rounded up is the least that is enough.
LEMMA CeilingIsLeast ==
    ASSUME NEW x \in Nat, NEW b \in Nat \ {0}
    PROVE  LET q == Ceiling(x, b) IN q \in Nat /\ x <= b * q /\ b * (q - 1) < x
  <1> DEFINE y == x + b - 1
             q == y \div b
  <1>1. y \in Nat /\ q \in Nat
    OBVIOUS
  <1>2. b * q <= y /\ y < b * q + b
    BY <1>1
  <1>3. b * (q - 1) = b * q - b
    BY <1>1
  <1> QED
    BY <1>1, <1>2, <1>3 DEF Ceiling

\* The cases of the decision, one by one.
LEMMA DecisionCases ==
    ASSUME NEW slot \in Nat \ {0}, NEW trimmed \in Nat, NEW used \in Nat
    PROVE  LET d == DecideFit(slot, trimmed, used)
               q == Ceiling(trimmed * Unit, Target(slot))
           IN  /\ Target(slot) \in Nat \ {0} /\ trimmed * Unit \in Nat /\ q \in Nat
               /\ trimmed <= Target(slot) => d = Decision("accept", Unit)
               /\ trimmed > Target(slot) /\ q <= MaxSpeed => d = Decision("speed_up", q)
               /\ trimmed > Target(slot) /\ q > MaxSpeed =>
                     d = Decision(IF used < MaxRewrites THEN "rewrite" ELSE "review", Unit)
  <1> DEFINE q == Ceiling(trimmed * Unit, Target(slot))
  <1>1. Target(slot) \in Nat \ {0} /\ trimmed * Unit \in Nat
    BY FittingIsNat DEF Target
  <1>2. q \in Nat
    BY <1>1, CeilingIsLeast
  <1>3. CASE trimmed <= Target(slot)
    <2>1. ~(trimmed > Target(slot))
      BY <1>1, <1>3
    <2> QED
      BY <1>1, <1>2, <1>3, <2>1 DEF DecideFit
  <1>4. CASE trimmed > Target(slot) /\ q <= MaxSpeed
    <2>1. ~(trimmed <= Target(slot)) /\ ~(q > MaxSpeed)
      BY <1>1, <1>2, <1>4, FittingIsNat
    <2> QED
      BY <1>1, <1>2, <1>4, <2>1 DEF DecideFit
  <1>5. CASE trimmed > Target(slot) /\ q > MaxSpeed
    <2>1. ~(trimmed <= Target(slot)) /\ ~(q <= MaxSpeed)
      BY <1>1, <1>2, <1>5, FittingIsNat
    <2> QED
      BY <1>1, <1>2, <1>5, <2>1 DEF DecideFit
  <1> QED
    BY <1>1, <1>2, <1>3, <1>4, <1>5, FittingIsNat

\* decide_duration_fit is sound for every slot, duration, speed limit and number of
\* rewrites: the speed it asks for is admissible, fits and is the least that does, and
\* only what no admissible speed can fit is rewritten or reviewed.
THEOREM DecisionFits ==
    ASSUME NEW slot \in Nat \ {0}, NEW trimmed \in Nat, NEW used \in Nat
    PROVE  LET d == DecideFit(slot, trimmed, used)
               Fits(speed) == trimmed * Unit <= Target(slot) * speed
           IN  /\ d.action = "accept" <=> trimmed <= Target(slot)
               /\ d.action = "speed_up" => /\ d.speed \in Unit + 1..MaxSpeed
                                           /\ Fits(d.speed) /\ ~Fits(d.speed - 1)
               /\ d.action \in {"rewrite", "review"} =>
                     ~Fits(MaxSpeed) /\ (d.action = "rewrite" <=> used < MaxRewrites)
  <1> DEFINE b == Target(slot)
             x == trimmed * Unit
             q == Ceiling(x, b)
             d == DecideFit(slot, trimmed, used)
  <1>1. /\ b \in Nat \ {0} /\ x \in Nat /\ q \in Nat /\ x <= b * q /\ b * (q - 1) < x
        /\ Unit \in Nat \ {0} /\ MaxSpeed \in Nat /\ MaxRewrites \in Nat
    BY DecisionCases, CeilingIsLeast, FittingIsNat
  <1>2. CASE trimmed <= b
    <2>1. d = Decision("accept", Unit)
      BY <1>2, DecisionCases
    <2> QED
      BY <1>2, <2>1 DEF Decision
  <1>3. CASE trimmed > b /\ q <= MaxSpeed
    <2>1. d = Decision("speed_up", q)
      BY <1>3, DecisionCases
    <2>2. q > Unit
      <3>1. b * Unit < trimmed * Unit
        BY <1>1, <1>3
      <3>2. b * Unit < b * q
        BY <1>1, <3>1
      <3>3. q <= Unit => b * q <= b * Unit
        BY <1>1
      <3> QED
        BY <1>1, <3>2, <3>3
    <2>3. q \in Unit + 1..MaxSpeed /\ x <= b * q /\ ~(x <= b * (q - 1))
      BY <1>1, <1>3, <2>2
    <2>4. ~(trimmed <= b)
      BY <1>1, <1>3
    <2> QED
      BY <2>1, <2>3, <2>4 DEF Decision
  <1>4. CASE trimmed > b /\ q > MaxSpeed
    <2>1. d = Decision(IF used < MaxRewrites THEN "rewrite" ELSE "review", Unit)
      BY <1>4, DecisionCases
    <2>2. b * MaxSpeed <= b * (q - 1)
      BY <1>1, <1>4
    <2>3. b * (q - 1) \in Int /\ b * MaxSpeed \in Int
      BY <1>1
    <2>4. ~(x <= b * MaxSpeed) /\ ~(trimmed <= b)
      BY <1>1, <1>4, <2>2, <2>3
    <2> QED
      BY <2>1, <2>4 DEF Decision
  <1> QED
    BY <1>1, <1>2, <1>3, <1>4, FittingIsNat

\* So is it for the slots and durations that the runs evaluate.
THEOREM DecisionsAreSound == Spec => []DecisionIsSound
  <1>1. DecisionIsSound
    <2>1. 1..8 \subseteq Nat \ {0} /\ 1..24 \subseteq Nat /\ 0..MaxRewrites + 1 \subseteq Nat
      BY FittingIsNat
    <2> QED
      BY <2>1, DecisionFits DEF DecisionIsSound
  <1> QED
    BY <1>1, PTL

\* Of a synthesis comes a measured outcome.
LEMMA OutcomesAreMeasured ==
    ASSUME NEW used \in 0..MaxRewrites
    PROVE  Outcomes(used) \subseteq {"fit", "needs_review", "rewrite_required"}
  <1> SUFFICES ASSUME NEW d \in Durations,
                      NEW o \in CASE DecideFit(Slot, d, used).action = "accept"   -> {"fit"}
                                  [] DecideFit(Slot, d, used).action = "speed_up" -> {"fit", "needs_review"}
                                  [] DecideFit(Slot, d, used).action = "rewrite"  -> {"rewrite_required"}
                                  [] DecideFit(Slot, d, used).action = "review"   -> {"needs_review"}
               PROVE  o \in {"fit", "needs_review", "rewrite_required"}
    BY DEF Outcomes
  <1>1. d \in Nat /\ Slot \in Nat \ {0} /\ used \in Nat /\ Target(Slot) \in Nat
        /\ Ceiling(d * Unit, Target(Slot)) \in Nat
    BY FittingIsNat, DecisionCases
  <1>2. DecideFit(Slot, d, used) \in {Decision(action, speed) :
            action \in {"accept", "speed_up", "rewrite", "review"},
            speed \in {Unit, Ceiling(d * Unit, Target(Slot))}}
    BY <1>1, DecisionCases, FittingIsNat
  <1>3. DecideFit(Slot, d, used).action \in {"accept", "speed_up", "rewrite", "review"}
    BY <1>2 DEF Decision
  <1> QED
    BY <1>3

-----------------------------------------------------------------------------
(* The board.                                                              *)

Takes    == (1..MaxTexts) \X Indices
Measured == {"fit", "rewrite_required", "needs_review"}
Marks    == {"none", "open", "failed"} \cup Measured

BoardTyped ==
    /\ text \in 1..MaxTexts /\ approved \in BOOLEAN
    /\ seg \in [Segments -> [state : SegStates, text : 0..MaxTexts, cur : {None} \cup Takes]]
    /\ att \in [Segments -> [1..MaxTexts -> [Indices -> Marks]]]

\* A segment is fit by an attempt that fits.
FitSound == \A s \in Segments : seg[s].state = "fit" =>
                /\ seg[s].cur \in Takes /\ seg[s].cur[1] \in 1..text
                /\ att[s][seg[s].cur[1]][seg[s].cur[2]] = "fit"

BoardInv == BoardTyped /\ FitSound

BoardStep == Board!BoardNext \/ UNCHANGED <<text, approved, seg, att>>

\* What was opened stays so, what was decided stays what it is.
Lasting ==
    /\ text' \in text..MaxTexts
    /\ \A s \in Segments, t \in 1..MaxTexts, i \in Indices :
          /\ att[s][t][i] # "none" => att'[s][t][i] # "none"
          /\ att[s][t][i] \notin {"none", "open"} => att'[s][t][i] = att[s][t][i]
    /\ \A s \in Segments : seg[s].state # "none" => seg'[s].state # "none"

\* A step of the board keeps what holds on it.
LEMMA BoardKept ==
    ASSUME BoardInv, BoardStep
    PROVE  BoardInv' /\ Lasting
  <1>0. BoardTyped /\ FitSound
    BY DEF BoardInv
  <1>1. CASE UNCHANGED <<text, approved, seg, att>>
    BY <1>0, <1>1 DEF BoardInv, BoardTyped, FitSound, Lasting
  <1>2. CASE Board!Retranslate \/ Board!Reapprove
    <2>0. text \in 1..MaxTexts /\ MaxTexts \in Nat
      BY <1>0, BoundsAreNat DEF BoardTyped
    <2>1. text' \in text..MaxTexts /\ text' \in 1..MaxTexts /\ approved' \in BOOLEAN /\ UNCHANGED <<seg, att>>
      <3>1. CASE Board!Retranslate
        <4>1. text' = text /\ UNCHANGED <<seg, att>> /\ approved' \in BOOLEAN
          BY <3>1, Zenon DEF Board!Retranslate
        <4> QED
          BY <2>0, <4>1
      <3>2. CASE Board!Reapprove
        BY <2>0, <3>2 DEF Board!Reapprove
      <3> QED
        BY <1>2, <3>1, <3>2
    <2>2. 1..text \subseteq 1..text'
      BY <1>0, <2>1, BoundsAreNat DEF BoardTyped
    <2> QED
      BY <1>0, <2>1, <2>2 DEF BoardInv, BoardTyped, FitSound, Lasting
  <1>3. ASSUME NEW ss \in SUBSET Segments, Board!Refresh(ss) PROVE BoardInv' /\ Lasting
    <2>1. text \in 0..MaxTexts /\ text \in text..MaxTexts
      BY <1>0, BoundsAreNat DEF BoardTyped
    <2>2. BoardTyped'
      BY <1>0, <1>3, <2>1 DEF Board!Refresh, Board!Fresh, Board!None, None, BoardTyped, SegStates
    <2>3. FitSound' /\ Lasting
      BY <1>0, <1>3, <2>1 DEF Board!Refresh, Board!Fresh, BoardTyped, FitSound, Lasting
    <2> QED
      BY <2>2, <2>3 DEF BoardInv
  <1>4. ASSUME NEW s \in Segments, Board!Start(s) PROVE BoardInv' /\ Lasting
    <2>1. text \in text..MaxTexts
      BY <1>0, BoundsAreNat DEF BoardTyped
    <2>2. UNCHANGED <<text, approved, att>> /\ seg' = [seg EXCEPT ![s].state = "fitting"]
      BY <1>4 DEF Board!Start
    <2>3. BoardTyped'
      BY <1>0, <2>2 DEF BoardTyped, SegStates
    <2>4. \A q \in Segments : seg'[q] = IF q = s THEN [seg[q] EXCEPT !.state = "fitting"] ELSE seg[q]
      BY <1>0, <2>2 DEF BoardTyped
    <2>5. \A q \in Segments : /\ seg'[q].state # "none" \/ seg[q].state = "none"
                              /\ seg'[q].state = "fit" => seg'[q] = seg[q]
      BY <1>0, <2>4 DEF BoardTyped
    <2>6. FitSound' /\ Lasting
      BY <1>0, <2>1, <2>2, <2>5 DEF FitSound, Lasting
    <2> QED
      BY <2>3, <2>6 DEF BoardInv
  <1>5. ASSUME NEW s \in Segments, NEW a \in Takes, NEW o \in Marks \ {"none"},
               \/ att[s][a[1]][a[2]] = "none"
               \/ att[s][a[1]][a[2]] = "open",
               att' = [att EXCEPT ![s][a[1]][a[2]] = o],
               UNCHANGED <<text, approved, seg>>
        PROVE  BoardInv' /\ Lasting
    <2>1. a[1] \in 1..MaxTexts /\ a[2] \in Indices /\ text \in text..MaxTexts
      BY <1>0, BoundsAreNat DEF Takes, BoardTyped
    <2>2. BoardTyped'
      BY <1>0, <1>5, <2>1 DEF BoardTyped
    <2>3. ASSUME NEW q \in Segments, NEW t \in 1..MaxTexts, NEW i \in Indices
          PROVE  att'[q][t][i] = IF q = s /\ t = a[1] /\ i = a[2] THEN o ELSE att[q][t][i]
      <3>1. att[q] \in [1..MaxTexts -> [Indices -> Marks]] /\ att[q][t] \in [Indices -> Marks]
        BY <1>0 DEF BoardTyped
      <3>2. att'[q] = IF q = s THEN [att[q] EXCEPT ![a[1]][a[2]] = o] ELSE att[q]
        BY <1>0, <1>5 DEF BoardTyped
      <3>3. att'[q][t] = IF q = s /\ t = a[1] THEN [att[q][t] EXCEPT ![a[2]] = o] ELSE att[q][t]
        BY <3>1, <3>2
      <3> QED
        BY <3>1, <3>3
    <2>4. Lasting
      BY <1>5, <2>1, <2>3 DEF Lasting
    <2>5. FitSound'
      <3> SUFFICES ASSUME NEW q \in Segments, seg[q].state = "fit"
                   PROVE  /\ seg[q].cur \in Takes /\ seg[q].cur[1] \in 1..text
                          /\ att'[q][seg[q].cur[1]][seg[q].cur[2]] = "fit"
        BY <1>5 DEF FitSound
      <3>1. /\ seg[q].cur \in Takes /\ seg[q].cur[1] \in 1..text
            /\ att[q][seg[q].cur[1]][seg[q].cur[2]] = "fit"
        BY <1>0 DEF FitSound
      <3>2. seg[q].cur[1] \in 1..MaxTexts /\ seg[q].cur[2] \in Indices
        BY <3>1 DEF Takes
      <3> QED
        BY <2>4, <3>1, <3>2 DEF Lasting
    <2> QED
      BY <2>2, <2>4, <2>5 DEF BoardInv
  <1>6. ASSUME NEW s \in Segments, NEW a \in Takes,
               \/ Board!Open(s, a)
               \/ \E o \in Measured \cup {"failed"} : Board!Decide(s, a, o)
        PROVE  BoardInv' /\ Lasting
    <2>1. CASE Board!Open(s, a)
      <3>1. "open" \in Marks \ {"none"}
        BY DEF Marks
      <3> QED
        BY <1>5, <2>1, <3>1 DEF Board!Open, Board!Outcome
    <2>2. ASSUME NEW o \in Measured \cup {"failed"}, Board!Decide(s, a, o) PROVE BoardInv' /\ Lasting
      <3>1. o \in Marks \ {"none"}
        BY DEF Marks, Measured
      <3> QED
        BY <1>5, <2>2, <3>1 DEF Board!Decide, Board!Outcome
    <2> QED
      BY <1>6, <2>1, <2>2
  <1>7. ASSUME NEW s \in Segments, NEW a \in Takes, NEW state \in {"fit", "needs_review"},
               Board!Select(s, a, state)
        PROVE  BoardInv' /\ Lasting
    <2>1. text \in text..MaxTexts
      BY <1>0, BoundsAreNat DEF BoardTyped
    <2>2. BoardTyped'
      BY <1>0, <1>7 DEF Board!Select, BoardTyped, SegStates
    <2>3. FitSound' /\ Lasting
      BY <1>0, <1>7, <2>1 DEF Board!Select, Board!Outcome, BoardTyped, FitSound, Lasting
    <2> QED
      BY <2>2, <2>3 DEF BoardInv
  <1> QED
    BY <1>1, <1>2, <1>3, <1>4, <1>6, <1>7 DEF BoardStep, Board!BoardNext, Board!Measured, Takes, Measured

-----------------------------------------------------------------------------
(* Runs and attempts.                                                      *)

\* Every segment has had speech that fits, for one of the texts up to the latest.
Spoken(outcomes, latest) ==
    \A s \in Segments : \E t \in 1..latest, i \in Indices : outcomes[s][t][i] = "fit"

\* The calls of a fitting, and what its attempt has read when it makes them.
Calls == {"fitting", "begin", "synthesize", "select", "review", "rewrite"}

AtWork(a, outcomes, latest) ==
    LET o == outcomes[a.seg][a.text][Index(a)] IN
    /\ a.at \in Calls         => a.text \in 1..latest
    /\ a.at = "synthesize" => o # "none"
    /\ a.at = "select"        => o = "fit"
    /\ a.at = "review"        => o = "needs_review"
    /\ a.at = "rewrite"       => o = "rewrite_required"

RunType == [at : {"none"} \cup Open \cup Closed, seg : Segments, cycle : 0..MaxCycles - 1, n : Nat,
            queue : Seq(Segments), cycles : [Segments -> 1..MaxCycles], yes : BOOLEAN]

\* The number of the attempt is one the workflow grants; the repairs that wait find a
\* cycle of their own; an approval or a success follows speech that fits.
RunOK(r, outcomes, latest) ==
    /\ r.at \in Jobs => r.n \in 1..MaxAttempts[r.at]
    /\ \A k \in 1..Len(r.queue) : r.cycles[r.queue[k]] + k <= MaxCycles
    /\ r.yes \/ r.at = "completed" => Spoken(outcomes, latest)

WorkTypeOK == run \in [Runs -> RunType] /\ act \in [Runs -> Work] /\ late \subseteq Work

\* Nothing is at work before the first preparation.
WorkInv ==
    /\ \A r \in Runs : RunOK(run[r], att, text)
    /\ \A r \in Runs : run[r].at # "none" => gen > 0
    /\ \A r \in Runs : act[r].at # "idle" =>
          act[r].run = r /\ run[r].at \in Jobs /\ AtWork(act[r], att, text)
    /\ \A a \in late : gen > 0 /\ AtWork(a, att, text)

\* Activities are not waits, nor ends.
LEMMA JobFacts ==
    /\ Jobs = {"list", "fit", "finalize", "mark"} /\ Open = Jobs \cup {"wait"}
    /\ Closed = {"completed", "closed"}
    /\ \A at \in Jobs : MaxAttempts[at] \in Nat /\ 1 \in 1..MaxAttempts[at]
    /\ 1 \in Segments /\ 0 \in 0..MaxCycles - 1 /\ 1 \in 1..MaxCycles
  BY FittingIsNat, BoundsAreNat DEF Jobs, Open, Closed, Segments

\* The index of an attempt is one of its segment and text.
LEMMA IndexTyped ==
    ASSUME NEW a \in Work
    PROVE  Index(a) \in Indices
  <1>1. /\ a.cycle \in 0..MaxCycles - 1 /\ a.used \in 0..MaxRewrites
        /\ MaxRewrites \in Nat /\ MaxCycles \in Nat \ {0} /\ Width \in Nat \ {0} /\ Width = MaxRewrites + 1
    BY FittingIsNat, BoundsAreNat DEF Work, Width
  <1>2. a.cycle * Width <= (MaxCycles - 1) * Width
    BY <1>1
  <1>3. (MaxCycles - 1) * Width = MaxCycles * Width - Width
    BY <1>1
  <1>4. a.cycle * Width \in Nat /\ MaxCycles * Width \in Nat
    BY <1>1
  <1> QED
    BY <1>1, <1>2, <1>3, <1>4 DEF Index, Indices

\* Speech that was there is there.
LEMMA SpokenKept ==
    ASSUME Lasting, BoardTyped, Spoken(att, text)
    PROVE  Spoken(att', text')
  <1>1. 1..text \subseteq 1..text' /\ 1..text \subseteq 1..MaxTexts
    BY BoundsAreNat DEF Lasting, BoardTyped
  <1>2. ASSUME NEW s \in Segments PROVE \E t \in 1..text', i \in Indices : att'[s][t][i] = "fit"
    <2>1. PICK t \in 1..text, i \in Indices : att[s][t][i] = "fit"
      BY DEF Spoken
    <2> QED
      BY <1>1, <2>1 DEF Lasting
  <1> QED
    BY <1>2 DEF Spoken

\* What a run has been told, and what an attempt has read, stays true.
LEMMA StaysTrue ==
    ASSUME Lasting, BoardTyped
    PROVE  /\ \A r : RunOK(r, att, text) => RunOK(r, att', text')
           /\ \A a \in Work : AtWork(a, att, text) => AtWork(a, att', text')
  <1>1. \A r : RunOK(r, att, text) => RunOK(r, att', text')
    BY SpokenKept DEF RunOK
  <1>2. ASSUME NEW a \in Work, AtWork(a, att, text) PROVE AtWork(a, att', text')
    <2>1. 1..text \subseteq 1..text' /\ 1..text \subseteq 1..MaxTexts
      BY BoundsAreNat DEF Lasting, BoardTyped
    <2>2. Index(a) \in Indices /\ a.seg \in Segments
      BY IndexTyped DEF Work
    <2>3. a.at \in Calls => a.text \in 1..text' /\ a.text \in 1..MaxTexts
      BY <1>2, <2>1 DEF AtWork
    <2> DEFINE o == att[a.seg][a.text][Index(a)]
               p == att'[a.seg][a.text][Index(a)]
    <2>4. a.at \in Calls => (o # "none" => p # "none") /\ (o \notin {"none", "open"} => p = o)
      BY <2>2, <2>3 DEF Lasting
    <2> QED
      BY <1>2, <2>3, <2>4 DEF AtWork, Calls
  <1> QED
    BY <1>1, <1>2

\* Where a run may go.
MayGo(next) ==
    /\ next \in RunType /\ next.at \in Open \cup Closed
    /\ RunOK(next, att', text')

\* A run that goes on is typed, and its activity begins.
LEMMA RunToKept ==
    ASSUME WorkTypeOK, WorkInv, BoardTyped, BoardTyped', Lasting, gen' > 0,
           NEW r \in Runs, NEW next, MayGo(next), RunTo(r, next),
           late' \subseteq late \cup {act[r]}
    PROVE  WorkTypeOK' /\ WorkInv'
  <1> DEFINE to == IF next.at \in Closed THEN [NoRun EXCEPT !.at = next.at] ELSE next
             do == IF next.at \in Jobs THEN Begin(r, next) ELSE Idle
  <1>1. to \in RunType /\ to.at = next.at /\ RunOK(to, att', text')
    <2>1. CASE next.at \in Closed
      <3>1. NoRun \in RunType
        BY JobFacts DEF NoRun, RunType
      <3>2. to = [NoRun EXCEPT !.at = next.at]
        BY <2>1
      <3>3. to \in RunType /\ to.at = next.at /\ to.queue = <<>> /\ to.yes = FALSE
        BY <2>1, <3>1, <3>2 DEF RunType, NoRun
      <3>4. next.at \notin Jobs
        BY <2>1, JobFacts
      <3>5. to.at = "completed" => Spoken(att', text')
        BY <3>3 DEF MayGo, RunOK
      <3> QED
        BY <3>3, <3>4, <3>5 DEF RunOK
    <2> QED
      BY <2>1 DEF MayGo
  <1>2. do \in Work /\ do.run \in Runs /\ do.at \notin Calls /\ (do.at # "idle" => do.run = r /\ next.at \in Jobs)
    <2>1. Idle \in Work
      <3>1. 1 \in Runs
        BY BoundsAreNat DEF Runs
      <3> QED
        BY <3>1, JobFacts, FittingIsNat, BoundsAreNat DEF Idle, Work, Places
    <2>2. CASE next.at \in Jobs
      <3>1. next.seg \in Segments /\ next.cycle \in 0..MaxCycles - 1
        BY DEF MayGo, RunType
      <3> QED
        BY <2>1, <2>2, <3>1, JobFacts DEF Begin, Idle, Work, Places, Calls
    <2>3. CASE next.at \notin Jobs
      BY <2>1, <2>3 DEF Idle, Work, Calls
    <2> QED
      BY <2>2, <2>3
  <1>3. AtWork(do, att', text')
    BY <1>2 DEF AtWork, Calls
  <1>4. run' = [run EXCEPT ![r] = to] /\ act' = [act EXCEPT ![r] = do]
    BY DEF RunTo
  <1>5. WorkTypeOK'
    BY <1>1, <1>2, <1>4 DEF WorkTypeOK
  <1>6. /\ run'[r] = to /\ act'[r] = do
        /\ \A q \in Runs : q # r => run'[q] = run[q] /\ act'[q] = act[q]
    BY <1>4 DEF WorkTypeOK
  <1>7. ASSUME NEW q \in Runs
        PROVE  /\ RunOK(run'[q], att', text')
               /\ act'[q].at # "idle" =>
                     act'[q].run = q /\ run'[q].at \in Jobs /\ AtWork(act'[q], att', text')
    <2>1. CASE q = r
      BY <1>1, <1>2, <1>3, <1>6, <2>1
    <2>2. CASE q # r
      <3>1. act[q] \in Work
        BY DEF WorkTypeOK
      <3> QED
        BY <1>6, <2>2, <3>1, StaysTrue DEF WorkInv
    <2> QED
      BY <2>1, <2>2
  <1>8. ASSUME NEW a \in late' PROVE AtWork(a, att', text')
    <2>1. a \in Work /\ AtWork(a, att, text)
      <3>1. CASE a \in late
        BY <3>1 DEF WorkInv, WorkTypeOK
      <3>2. CASE a = act[r]
        <4>1. act[r] \in Work
          BY DEF WorkTypeOK
        <4>2. act[r].at = "idle" => AtWork(act[r], att, text)
          BY DEF AtWork, Calls
        <4> QED
          BY <3>2, <4>1, <4>2 DEF WorkInv
      <3> QED
        BY <3>1, <3>2
    <2> QED
      BY <2>1, StaysTrue
  <1> QED
    BY <1>5, <1>7, <1>8 DEF WorkInv

\* The runs are left alone, and attempts may be given up.
LEMMA WorkLeft ==
    ASSUME WorkTypeOK, WorkInv, BoardTyped, Lasting, gen' >= gen, gen \in Nat, gen' \in Nat,
           UNCHANGED <<run, act>>, late' \subseteq late
    PROVE  WorkTypeOK' /\ WorkInv'
  <1>1. WorkTypeOK'
    BY DEF WorkTypeOK
  <1>2. \A r \in Runs : act[r] \in Work
    BY DEF WorkTypeOK
  <1>3. \A a \in late' : a \in Work /\ a \in late
    BY DEF WorkTypeOK
  <1>4. gen > 0 => gen' > 0
    OBVIOUS
  <1> QED
    BY <1>1, <1>2, <1>3, <1>4, StaysTrue DEF WorkInv

\* A run at work may try again or fail.
LEMMA ErrorMayGo ==
    ASSUME WorkTypeOK, WorkInv, BoardTyped, Lasting, NEW r \in Runs, run[r].at \in Jobs
    PROVE  MayGo(AfterError(r)) /\ MayGo(AfterRetry(r))
  <1>1. run[r] \in RunType /\ RunOK(run[r], att', text')
    BY StaysTrue DEF WorkTypeOK, WorkInv
  <1>2. MayGo(AfterError(r))
    <2>1. NoRun \in RunType /\ NoRun.queue = <<>> /\ NoRun.yes = FALSE /\ NoRun.n = 1
      BY JobFacts DEF NoRun, RunType
    <2>2. \A at \in {"mark", "closed"} : MayGo([NoRun EXCEPT !.at = at])
      <3> SUFFICES ASSUME NEW at \in {"mark", "closed"} PROVE MayGo([NoRun EXCEPT !.at = at])
        OBVIOUS
      <3>1. /\ [NoRun EXCEPT !.at = at] \in RunType /\ [NoRun EXCEPT !.at = at].at = at
            /\ [NoRun EXCEPT !.at = at].queue = <<>> /\ [NoRun EXCEPT !.at = at].yes = FALSE
            /\ [NoRun EXCEPT !.at = at].n = 1
        BY <2>1, JobFacts DEF RunType
      <3> QED
        BY <3>1, JobFacts DEF MayGo, RunOK
    <2> QED
      BY <2>2 DEF AfterError
  <1>3. ASSUME run[r].n < MaxAttempts[run[r].at] PROVE MayGo([run[r] EXCEPT !.n = @ + 1])
    <2>1. run[r].n \in Nat /\ MaxAttempts[run[r].at] \in Nat
      BY <1>1, JobFacts DEF RunType
    <2>2. run[r].n + 1 \in Nat /\ run[r].n + 1 \in 1..MaxAttempts[run[r].at]
      BY <1>3, <2>1
    <2>3. ASSUME NEW n \in Nat, n \in 1..MaxAttempts[run[r].at] PROVE MayGo([run[r] EXCEPT !.n = n])
      <3>1. [run[r] EXCEPT !.n = n] \in RunType
        BY <1>1 DEF RunType
      <3>2. RunOK([run[r] EXCEPT !.n = n], att', text')
        BY <1>1, <2>3 DEF RunOK, RunType
      <3> QED
        BY <1>1, <3>1, <3>2, JobFacts DEF MayGo, RunType
    <2> QED
      BY <2>2, <2>3
  <1> QED
    BY <1>2, <1>3 DEF AfterRetry

\* A run may go on to its next activity, its wait or its end.
LEMMA GoMayGo ==
    ASSUME WorkTypeOK, WorkInv, BoardTyped, Lasting, NEW r \in Runs, NEW at \in Open \cup Closed,
           at = "completed" => Spoken(att', text')
    PROVE  /\ MayGo(Go(r, at))
           /\ at # "completed" => \A s \in Segments : MayGo([Go(r, at) EXCEPT !.seg = s, !.cycle = 0])
  <1>1. run[r] \in RunType /\ RunOK(run[r], att', text')
    BY StaysTrue DEF WorkTypeOK, WorkInv
  <1>2. Go(r, at) \in RunType /\ Go(r, at).at = at /\ Go(r, at).n = 1
        /\ Go(r, at).queue = run[r].queue /\ Go(r, at).cycles = run[r].cycles /\ Go(r, at).yes = run[r].yes
    BY <1>1, JobFacts DEF Go, RunType
  <1>3. MayGo(Go(r, at))
    BY <1>1, <1>2, JobFacts DEF MayGo, RunOK
  <1>4. ASSUME NEW s \in Segments, at # "completed" PROVE MayGo([Go(r, at) EXCEPT !.seg = s, !.cycle = 0])
    <2> DEFINE x == [Go(r, at) EXCEPT !.seg = s, !.cycle = 0]
    <2>1. /\ x \in RunType /\ x.at = at /\ x.n = 1
          /\ x.queue = run[r].queue /\ x.cycles = run[r].cycles /\ x.yes = run[r].yes
      BY <1>2, JobFacts DEF RunType
    <2> QED
      BY <1>1, <1>4, <2>1, JobFacts DEF MayGo, RunOK
  <1> QED
    BY <1>3, <1>4

\* So it may after a fitting.
LEMMA FitMayGo ==
    ASSUME WorkTypeOK, WorkInv, BoardTyped, Lasting, NEW r \in Runs
    PROVE  MayGo(Fit(r, 1)) /\ MayGo(AfterFit(r))
  <1>1. "fit" \in Open \cup Closed /\ "finalize" \in Open \cup Closed
    BY JobFacts
  <1>2. \A s \in Segments : MayGo(Fit(r, s))
    BY <1>1, GoMayGo DEF Fit
  <1>3. run[r].seg < Last => run[r].seg + 1 \in Segments
    <2>1. run[r].seg \in Segments
      BY DEF WorkTypeOK, RunType
    <2> QED
      BY <2>1, FittingIsNat DEF Segments
  <1>4. MayGo(Go(r, "finalize"))
    BY <1>1, GoMayGo
  <1> QED
    BY <1>2, <1>3, <1>4, JobFacts DEF AfterFit

\* When the first of the repairs that wait takes a cycle, the others keep theirs.
LEMMA QueueMoves ==
    ASSUME NEW q \in Seq(Segments), q # <<>>, NEW c \in [Segments -> 1..MaxCycles],
           \A k \in 1..Len(q) : c[q[k]] + k <= MaxCycles
    PROVE  LET d == [c EXCEPT ![Head(q)] = c[Head(q)] + 1]
           IN  /\ c[Head(q)] \in 0..MaxCycles - 1 /\ c[Head(q)] < MaxCycles
               /\ d \in [Segments -> 1..MaxCycles]
               /\ \A k \in 1..Len(Tail(q)) : d[Tail(q)[k]] + k <= MaxCycles
  <1> DEFINE s == Head(q)
             d == [c EXCEPT ![s] = c[s] + 1]
  <1>1. Len(q) \in Nat /\ Len(q) >= 1 /\ s = q[1] /\ s \in Segments /\ MaxCycles \in Nat
    BY BoundsAreNat
  <1>2. c[s] \in 1..MaxCycles /\ c[s] + 1 <= MaxCycles
    <2>1. c[q[1]] + 1 <= MaxCycles
      BY <1>1
    <2> QED
      BY <1>1, <2>1
  <1>3. c[s] \in 0..MaxCycles - 1 /\ c[s] < MaxCycles /\ c[s] + 1 \in 1..MaxCycles
    <2> HIDE DEF s
    <2> QED
      BY <1>1, <1>2
  <1>4. d \in [Segments -> 1..MaxCycles]
    BY <1>1, <1>3
  <1>5. ASSUME NEW k \in 1..Len(Tail(q)) PROVE d[Tail(q)[k]] + k <= MaxCycles
    <2> DEFINE e == q[k + 1]
    <2>1. k \in Nat /\ Len(Tail(q)) = Len(q) - 1 /\ Tail(q)[k] = e
      BY <1>1
    <2>2. k + 1 \in 1..Len(q)
      BY <1>1, <2>1
    <2>3. e \in Segments /\ c[e] + (k + 1) <= MaxCycles
      BY <2>2
    <2>4. d[e] = (IF e = s THEN c[s] + 1 ELSE c[e]) /\ c[e] \in 1..MaxCycles
      BY <2>3
    <2> HIDE DEF d, e, s
    <2> QED
      BY <1>1, <2>1, <2>3, <2>4
  <1> QED
    BY <1>3, <1>4, <1>5

\* A repair that is asked for while a cycle is left for it will find one.
LEMMA QueueGrows ==
    ASSUME NEW q \in Seq(Segments), NEW c \in [Segments -> 1..MaxCycles], NEW s \in Segments,
           \A k \in 1..Len(q) : c[q[k]] + k <= MaxCycles, c[s] + Len(q) < MaxCycles
    PROVE  \A k \in 1..Len(Append(q, s)) : c[Append(q, s)[k]] + k <= MaxCycles
  <1>1. Len(q) \in Nat /\ Len(Append(q, s)) = Len(q) + 1 /\ Append(q, s)[Len(q) + 1] = s
        /\ \A k \in 1..Len(q) : Append(q, s)[k] = q[k]
    OBVIOUS
  <1>2. c[s] \in Nat /\ MaxCycles \in Nat
    BY BoundsAreNat
  <1>3. ASSUME NEW k \in 1..Len(Append(q, s)) PROVE c[Append(q, s)[k]] + k <= MaxCycles
    <2>1. CASE k \in 1..Len(q)
      BY <1>1, <2>1
    <2>2. CASE k = Len(q) + 1
      <3>1. Append(q, s)[k] = s
        BY <1>1, <2>2
      <3> QED
        BY <1>1, <1>2, <2>2, <3>1
    <2> QED
      BY <1>1, <2>1, <2>2
  <1> QED
    BY <1>3

\* A repair takes the next cycle of its segment and leaves the other repairs theirs.
LEMMA ResumeMayGo ==
    ASSUME WorkTypeOK, WorkInv, BoardTyped, Lasting, NEW r \in Runs
    PROVE  MayGo(Resume(r))
  <1>1. run[r] \in RunType /\ RunOK(run[r], att', text')
    BY StaysTrue DEF WorkTypeOK, WorkInv
  <1>2. CASE run[r].yes
    <2>1. Spoken(att', text')
      BY <1>1, <1>2 DEF RunOK
    <2> QED
      BY <1>2, <2>1, GoMayGo, JobFacts DEF Resume
  <1>3. CASE ~run[r].yes /\ run[r].queue = <<>>
    BY <1>3, GoMayGo, JobFacts DEF Resume
  <1>4. CASE ~run[r].yes /\ run[r].queue # <<>>
    <2> DEFINE q == run[r].queue
               c == run[r].cycles
               s == Head(q)
               d == [c EXCEPT ![s] = c[s] + 1]
               x == [run[r] EXCEPT !.at = "fit", !.n = 1, !.seg = s, !.cycle = c[s], !.queue = Tail(q),
                                   !.cycles = d]
    <2>1. q \in Seq(Segments) /\ c \in [Segments -> 1..MaxCycles] /\ \A k \in 1..Len(q) : c[q[k]] + k <= MaxCycles
      BY <1>1 DEF RunType, RunOK
    <2>2. Len(q) \in Nat /\ Len(q) >= 1 /\ s = q[1] /\ s \in Segments /\ c[s] \in 1..MaxCycles
          /\ Tail(q) \in Seq(Segments) /\ Len(Tail(q)) = Len(q) - 1
          /\ \A k \in 1..Len(Tail(q)) : Tail(q)[k] = q[k + 1]
      BY <1>4, <2>1
    <2>3. /\ c[s] \in 0..MaxCycles - 1 /\ c[s] < MaxCycles
          /\ d \in [Segments -> 1..MaxCycles]
      BY <1>4, <2>1, QueueMoves
    <2>5. ASSUME NEW k \in 1..Len(Tail(q)) PROVE d[Tail(q)[k]] + k <= MaxCycles
      BY <1>4, <2>1, QueueMoves
    <2>6. /\ x \in RunType /\ x.at = "fit" /\ x.n = 1 /\ x.queue = Tail(q) /\ x.cycles = d
          /\ x.yes = run[r].yes
      BY <1>1, <2>2, <2>3, JobFacts DEF RunType
    <2>7. Resume(r) = x
      BY <1>1, <1>4, <2>3 DEF Resume, Fit, Go, RunType
    <2>8. RunOK(x, att', text')
      BY <1>4, <2>5, <2>6, JobFacts DEF RunOK
    <2> QED
      BY <2>6, <2>7, <2>8, JobFacts DEF MayGo
  <1> QED
    BY <1>2, <1>3, <1>4

-----------------------------------------------------------------------------
(* The row, and the requests.                                              *)

RowInv ==
    /\ status \in Statuses /\ version \in Nat /\ gen \in 0..MaxRuns /\ bound \in 0..MaxRuns
    /\ status = "none" <=> gen = 0
    /\ status = "approved" => Spoken(att, text)
    /\ gen > 0 => \A s \in Segments : seg[s].state # "none"

ReqType == [run : 0..MaxRuns, version : Nat, seg : Segments]

UserStates == {"idle", "launch", "bind", "repair", "approve", "signal", "cancel"}

\* What holds of a request, at its state.
ReqInv(state, r, outcomes, latest, renewals) ==
    /\ r \in ReqType
    /\ state # "idle" => renewals > 0
    /\ state \in {"launch", "bind", "repair", "approve", "signal"} => r.run \in Runs
    /\ state = "signal" => Spoken(outcomes, latest)

UserInv ==
    /\ upc \in [Users -> UserStates] /\ req \in [Users -> ReqType] /\ asked \in 0..MaxAsks
    /\ \A u \in Users : ReqInv(upc[u], req[u], att, text, gen)

Inv == BoardInv /\ WorkTypeOK /\ WorkInv /\ RowInv /\ UserInv

\* When every segment is fit, every segment has had speech that fits.
LEMMA FitIsSpoken ==
    ASSUME BoardInv, AllFit
    PROVE  Spoken(att, text)
  <1>1. \A s \in Segments : /\ seg[s].cur \in Takes /\ seg[s].cur[1] \in 1..text
                            /\ att[s][seg[s].cur[1]][seg[s].cur[2]] = "fit"
    BY DEF BoardInv, FitSound, AllFit
  <1>2. \A a \in Takes : a[2] \in Indices
    BY DEF Takes
  <1> QED
    BY <1>1, <1>2 DEF Spoken

\* The row that is left alone is what it was, and may name another run.
LEMMA RowLeft ==
    ASSUME RowInv, BoardTyped, Lasting, UNCHANGED <<status, version, gen>>, bound' \in 0..MaxRuns
    PROVE  RowInv'
  <1>1. status = "approved" => Spoken(att', text')
    BY SpokenKept DEF RowInv
  <1> QED
    BY <1>1 DEF RowInv, Lasting

\* A status is set after the first preparation, and approved only of speech that fits.
LEMMA StatusKept ==
    ASSUME RowInv, BoardTyped, Lasting, gen > 0, NEW new \in Statuses \ {"none"}, SetStatus(new),
           new = "approved" => Spoken(att, text)
    PROVE  RowInv'
  <1>1. status' = "approved" => Spoken(att', text')
    BY SpokenKept DEF SetStatus
  <1> QED
    BY <1>1 DEF RowInv, SetStatus, Lasting

\* The requests that do not move keep what holds of them, and the one that moves has it.
LEMMA GotoKept ==
    ASSUME UserInv, BoardTyped, Lasting, gen \in Nat, gen' \in Nat, gen' >= gen,
           NEW u \in Users, NEW state \in UserStates, NEW r, Goto(u, state, r),
           ReqInv(state, r, att', text', gen')
    PROVE  UserInv'
  <1>1. r \in ReqType
    BY DEF ReqInv
  <1>2. /\ upc' \in [Users -> UserStates] /\ req' \in [Users -> ReqType] /\ asked' \in 0..MaxAsks
        /\ upc'[u] = state /\ req'[u] = r
        /\ \A v \in Users : v # u => upc'[v] = upc[v] /\ req'[v] = req[v]
    BY <1>1, BoundsAreNat DEF Goto, UserInv
  <1>3. \A v \in Users : ReqInv(upc[v], req[v], att', text', gen')
    BY SpokenKept DEF UserInv, ReqInv
  <1>4. \A v \in Users : ReqInv(upc'[v], req'[v], att', text', gen')
    BY <1>2, <1>3
  <1> QED
    BY <1>2, <1>4 DEF UserInv

\* So do all of them when none moves.
LEMMA UsersLeft ==
    ASSUME UserInv, BoardTyped, Lasting, gen \in Nat, gen' \in Nat, gen' >= gen, UNCHANGED userVars
    PROVE  UserInv'
  <1>1. upc' = upc /\ req' = req /\ asked' = asked
    BY DEF userVars
  <1>2. \A v \in Users : ReqInv(upc[v], req[v], att', text', gen')
    BY SpokenKept DEF UserInv, ReqInv
  <1> QED
    BY <1>1, <1>2 DEF UserInv

-----------------------------------------------------------------------------
(* The steps of attempts.                                                  *)

\* An attempt at work, for a run that waits for it or late.
Working(a, live) ==
    /\ a \in Work /\ a.at # "idle" /\ a.run \in Runs /\ gen > 0 /\ AtWork(a, att, text)
    /\ live => a = act[a.run] /\ run[a.run].at \in Jobs

\* An attempt that finishes a synthesis decides it or finds it decided.
LEMMA FinishIsBoardStep ==
    ASSUME BoardInv, NEW a \in Work, AtWork(a, att, text), a.at = "synthesize",
           NEW o \in Measured \cup {"failed"}, Finish(a.seg, a.text, Index(a), o), UNCHANGED <<textVars, seg>>
    PROVE  BoardStep /\ att'[a.seg][a.text][Index(a)] \in Measured \cup {"failed"}
  <1> DEFINE take == <<a.text, Index(a)>>
  <1>1. /\ a.seg \in Segments /\ a.text \in 1..text /\ a.text \in 1..MaxTexts /\ Index(a) \in Indices
        /\ take \in (1..MaxTexts) \X Indices /\ take[1] = a.text /\ take[2] = Index(a)
    <2>1. a.text \in 1..text
      BY DEF AtWork, Calls
    <2>2. text \in 1..MaxTexts /\ MaxTexts \in Nat
      BY BoundsAreNat DEF BoardInv, BoardTyped
    <2> QED
      BY <2>1, <2>2, IndexTyped DEF Work
  <1>2. att[a.seg][a.text][Index(a)] \in Marks \ {"none"}
    <2>1. att \in [Segments -> [1..MaxTexts -> [Indices -> Marks]]]
      BY DEF BoardInv, BoardTyped
    <2>2. att[a.seg] \in [1..MaxTexts -> [Indices -> Marks]]
      BY <1>1, <2>1
    <2>3. att[a.seg][a.text] \in [Indices -> Marks]
      BY <1>1, <2>2
    <2>4. att[a.seg][a.text][Index(a)] # "none"
      BY DEF AtWork
    <2> QED
      BY <1>1, <2>3, <2>4
  <1>3. CASE att[a.seg][a.text][Index(a)] # "open"
    <2>1. att' = att
      BY <1>3 DEF Finish
    <2> QED
      BY <1>2, <1>3, <2>1 DEF BoardStep, textVars, Marks
  <1>4. CASE att[a.seg][a.text][Index(a)] = "open"
    <2>1. att' = [att EXCEPT ![a.seg][a.text][Index(a)] = o]
      BY <1>4 DEF Finish
    <2>2. Board!Decide(a.seg, take, o)
      BY <1>1, <1>4, <2>1 DEF Board!Decide, Board!Outcome, textVars
    <2>3. Board!BoardNext
      BY <1>1, <2>2 DEF Board!BoardNext, Board!Measured, Measured
    <2>4. att'[a.seg][a.text][Index(a)] = o
      <3>1. att[a.seg] \in [1..MaxTexts -> [Indices -> Marks]] /\ att[a.seg][a.text] \in [Indices -> Marks]
        BY <1>1 DEF BoardInv, BoardTyped
      <3>2. att'[a.seg] = [att[a.seg] EXCEPT ![a.text][Index(a)] = o]
        BY <1>1, <2>1 DEF BoardInv, BoardTyped
      <3> QED
        BY <1>1, <3>1, <3>2
    <2> QED
      BY <2>3, <2>4 DEF BoardStep
  <1> QED
    BY <1>3, <1>4

\* An attempt that opens a synthesis finds it or opens it for its text.
LEMMA BeginIsBoardStep ==
    ASSUME BoardInv, NEW a \in Work, AtWork(a, att, text), a.at = "begin",
           BeginAttempt(a.seg, a.text, Index(a)), UNCHANGED <<textVars, seg>>
    PROVE  BoardStep /\ att'[a.seg][a.text][Index(a)] \in Marks \ {"none"}
  <1> DEFINE take == <<a.text, Index(a)>>
  <1>1. /\ a.seg \in Segments /\ a.text \in 1..text /\ a.text \in 1..MaxTexts /\ Index(a) \in Indices
        /\ take \in (1..MaxTexts) \X Indices /\ take[1] = a.text /\ take[2] = Index(a)
    <2>1. a.text \in 1..text
      BY DEF AtWork, Calls
    <2>2. text \in 1..MaxTexts /\ MaxTexts \in Nat
      BY BoundsAreNat DEF BoardInv, BoardTyped
    <2> QED
      BY <2>1, <2>2, IndexTyped DEF Work
  <1>2. att[a.seg][a.text][Index(a)] \in Marks
    <2>1. att \in [Segments -> [1..MaxTexts -> [Indices -> Marks]]]
      BY DEF BoardInv, BoardTyped
    <2>2. att[a.seg] \in [1..MaxTexts -> [Indices -> Marks]]
      BY <1>1, <2>1
    <2>3. att[a.seg][a.text] \in [Indices -> Marks]
      BY <1>1, <2>2
    <2> QED
      BY <1>1, <2>3
  <1>3. CASE att[a.seg][a.text][Index(a)] # "none"
    <2>1. att' = att
      BY <1>3 DEF BeginAttempt
    <2> QED
      BY <1>2, <1>3, <2>1 DEF BoardStep, textVars
  <1>4. CASE att[a.seg][a.text][Index(a)] = "none"
    <2>1. att' = [att EXCEPT ![a.seg][a.text][Index(a)] = "open"]
      BY <1>4 DEF BeginAttempt
    <2>2. Board!Open(a.seg, take)
      BY <1>1, <1>4, <2>1 DEF Board!Open, Board!Outcome, textVars
    <2>3. Board!BoardNext
      BY <1>1, <2>2 DEF Board!BoardNext
    <2>4. att'[a.seg][a.text][Index(a)] = "open"
      <3>1. att[a.seg] \in [1..MaxTexts -> [Indices -> Marks]] /\ att[a.seg][a.text] \in [Indices -> Marks]
        BY <1>1 DEF BoardInv, BoardTyped
      <3>2. att'[a.seg] = [att[a.seg] EXCEPT ![a.text][Index(a)] = "open"]
        BY <1>1, <2>1 DEF BoardInv, BoardTyped
      <3> QED
        BY <1>1, <3>1, <3>2
    <2> QED
      BY <2>3, <2>4 DEF BoardStep, Marks
  <1> QED
    BY <1>3, <1>4

\* An attempt that selects its synthesis has read what it selects it for.
LEMMA SelectIsBoardStep ==
    ASSUME BoardInv, RowInv, NEW a \in Work, gen > 0, AtWork(a, att, text), NEW live,
           \/ a.at = "select" /\ Select(a, live, "fit")
           \/ a.at \in {"review", "rewrite"} /\ Select(a, live, "needs_review")
    PROVE  BoardStep
  <1> DEFINE take == <<a.text, Index(a)>>
  <1>1. /\ a.seg \in Segments /\ a.text \in 1..text
        /\ take \in (1..MaxTexts) \X Indices /\ take[1] = a.text /\ take[2] = Index(a)
        /\ seg[a.seg].state # "none"
    BY IndexTyped, BoundsAreNat DEF AtWork, Calls, Work, BoardInv, BoardTyped, RowInv
  <1>2. \/ att[a.seg][take[1]][take[2]] = "fit" /\ Board!Select(a.seg, take, "fit")
        \/ Board!Select(a.seg, take, "needs_review")
    BY <1>1 DEF Select, SetSegment, AtWork, Board!Select, Board!Outcome, Board!Measured, textVars
  <1> QED
    BY <1>1, <1>2 DEF BoardStep, Board!BoardNext

\* The steps of an attempt are steps of the board, or leave it.
LEMMA AttemptIsBoardStep ==
    ASSUME Inv, NEW a, NEW live \in BOOLEAN, Working(a, live), Attempt(a, live)
    PROVE  BoardStep
  <1>0. BoardInv /\ RowInv /\ a \in Work /\ gen > 0 /\ AtWork(a, att, text)
    BY DEF Inv, Working
  <1>1. CASE ListSegments(a, live) \/ ReadInputs(a, live) \/ Finalize(a, live) \/ MarkFailed(a, live)
             \/ Raise(a, live)
    BY <1>1 DEF ListSegments, ReadInputs, Finalize, MarkFailed, Raise, textVars, BoardStep
  <1>2. CASE MarkFitting(a, live)
    <2>1. a.seg \in Segments /\ seg[a.seg].state # "none"
      BY <1>0 DEF Work, RowInv
    <2>2. seg' = [seg EXCEPT ![a.seg].state = "fitting", ![a.seg].cur = seg[a.seg].cur]
          /\ UNCHANGED <<text, approved, att>>
      BY <1>2 DEF MarkFitting, SetSegment, textVars
    <2>3. seg' = [seg EXCEPT ![a.seg].state = "fitting"]
      BY <1>0, <2>1, <2>2 DEF BoardInv, BoardTyped
    <2> QED
      BY <2>1, <2>2, <2>3 DEF BoardStep, Board!BoardNext, Board!Start
  <1>3. CASE OpenAttempt(a, live)
    BY <1>0, <1>3, BeginIsBoardStep DEF OpenAttempt
  <1>4. CASE Synthesize(a, live)
    <2>1. PICK o \in Outcomes(a.used) : Finish(a.seg, a.text, Index(a), o)
      BY <1>4 DEF Synthesize
    <2>2. a.used \in 0..MaxRewrites
      BY <1>0 DEF Work
    <2>3. o \in Measured
      BY <2>2, OutcomesAreMeasured DEF Measured
    <2> QED
      BY <1>0, <1>4, <2>1, <2>3, FinishIsBoardStep DEF Synthesize
  <1>5. CASE RefuseText(a, live)
    BY <1>0, <1>5, FinishIsBoardStep DEF RefuseText
  <1>6. CASE SelectAttempt(a, live)
    BY <1>0, <1>6, SelectIsBoardStep DEF SelectAttempt
  <1>7. CASE Rewrite(a, live)
    <2>1. CASE Select(a, live, "needs_review")
      BY <1>0, <1>7, <2>1, SelectIsBoardStep DEF Rewrite
    <2>2. CASE UNCHANGED <<textVars, rowVars, seg, att, userVars>>
      BY <2>2 DEF textVars, BoardStep
    <2> QED
      BY <1>7, <2>1, <2>2 DEF Rewrite
  <1> QED
    BY <1>1, <1>2, <1>3, <1>4, <1>5, <1>6, <1>7 DEF Attempt

\* What an attempt does to the row: nothing, or it finalizes or fails it.
LEMMA AttemptRow ==
    ASSUME Inv, Lasting, NEW a, NEW live \in BOOLEAN, Working(a, live), Attempt(a, live)
    PROVE  RowInv' /\ gen' = gen /\ UNCHANGED userVars
  <1>0. BoardInv /\ BoardTyped /\ RowInv /\ gen > 0 /\ bound \in 0..MaxRuns
    BY DEF Inv, Working, BoardInv, RowInv
  <1>u. UNCHANGED userVars
    BY DEF Attempt, ListSegments, ReadInputs, MarkFitting, OpenAttempt, Synthesize, RefuseText,
           SelectAttempt, Select, Rewrite, Finalize, MarkFailed, Raise
  <1>1. CASE UNCHANGED rowVars
    BY <1>0, <1>1, <1>u, RowLeft DEF rowVars
  <1>2. CASE Finalize(a, live)
    <2>1. FinalStatus \in Statuses \ {"none"} /\ (FinalStatus = "approved" => AllFit)
      BY DEF FinalStatus, Statuses
    <2>2. SetStatus(FinalStatus)
      BY <1>2 DEF Finalize, FinalizeRow
    <2>3. FinalStatus = "approved" => Spoken(att, text)
      BY <1>0, <2>1, FitIsSpoken
    <2>4. RowInv' /\ gen' = gen
      BY <1>0, <2>1, <2>2, <2>3, StatusKept DEF SetStatus
    <2> QED
      BY <1>u, <2>4
  <1>3. CASE MarkFailed(a, live)
    <2>1. SetStatus("failed")
      BY <1>3 DEF MarkFailed, FailRow
    <2>2. RowInv' /\ gen' = gen
      BY <1>0, <2>1, StatusKept DEF SetStatus, Statuses
    <2> QED
      BY <1>u, <2>2
  <1> QED
    BY <1>1, <1>2, <1>3 DEF Attempt, ListSegments, ReadInputs, MarkFitting, OpenAttempt, Synthesize,
           RefuseText, SelectAttempt, Select, Rewrite, Raise

\* An attempt that goes on is at work for its next call.
LEMMA ContinueKept ==
    ASSUME WorkTypeOK, WorkInv, BoardTyped, Lasting, gen \in Nat, gen' = gen, NEW a, NEW live \in BOOLEAN,
           Working(a, live), NEW b \in Work, b.run = a.run, AtWork(b, att', text'), Continue(a, live, b)
    PROVE  WorkTypeOK' /\ WorkInv'
  <1>1. \A r \in Runs : RunOK(run[r], att', text')
    BY StaysTrue DEF WorkInv
  <1>2. \A r \in Runs : act[r].at # "idle" =>
            act[r].run = r /\ run[r].at \in Jobs /\ AtWork(act[r], att', text')
    BY StaysTrue DEF WorkInv, WorkTypeOK
  <1>3. \A c \in late : gen > 0 /\ AtWork(c, att', text')
    BY StaysTrue DEF WorkInv, WorkTypeOK
  <1>4. CASE live
    <2>1. act' = [act EXCEPT ![a.run] = b] /\ UNCHANGED <<run, late>> /\ a.run \in Runs /\ run[a.run].at \in Jobs
      BY <1>4 DEF Continue, Working
    <2>2. WorkTypeOK'
      BY <2>1 DEF WorkTypeOK
    <2>3. \A r \in Runs : act'[r] = IF r = a.run THEN b ELSE act[r]
      BY <2>1 DEF WorkTypeOK
    <2>4. \A r \in Runs : act'[r].at # "idle" =>
            act'[r].run = r /\ run[r].at \in Jobs /\ AtWork(act'[r], att', text')
      BY <1>2, <2>1, <2>3
    <2> QED
      BY <1>1, <1>3, <2>1, <2>2, <2>4 DEF WorkInv
  <1>5. CASE ~live
    <2>1. late' = (late \ {a}) \cup {b} /\ UNCHANGED <<run, act>> /\ gen > 0
      BY <1>5 DEF Continue, Working
    <2>2. WorkTypeOK'
      BY <2>1 DEF WorkTypeOK
    <2> QED
      BY <1>1, <1>2, <1>3, <2>1, <2>2 DEF WorkInv
  <1> QED
    BY <1>4, <1>5

\* The end of an attempt.
LEMMA EndKept ==
    ASSUME WorkTypeOK, WorkInv, BoardTyped, BoardTyped', Lasting, gen \in Nat, gen' = gen,
           NEW a, NEW live \in BOOLEAN, Working(a, live), NEW next, live => MayGo(next), End(a, live, next)
    PROVE  WorkTypeOK' /\ WorkInv'
  <1>1. CASE live
    <2>1. RunTo(a.run, next) /\ UNCHANGED late /\ a.run \in Runs /\ gen' > 0 /\ MayGo(next)
      BY <1>1 DEF End, Working
    <2> QED
      BY <2>1, RunToKept
  <1>2. CASE ~live
    BY <1>2, WorkLeft DEF End
  <1> QED
    BY <1>1, <1>2

\* An attempt that knows the outcome of its synthesis acts on it.
LEMMA ReactKept ==
    ASSUME WorkTypeOK, WorkInv, BoardTyped, BoardTyped', Lasting, gen \in Nat, gen' = gen,
           NEW a, NEW live \in BOOLEAN, Working(a, live), a.at \in Calls,
           att'[a.seg][a.text][Index(a)] \in Marks \ {"none"},
           React(a, live, att'[a.seg][a.text][Index(a)])
    PROVE  WorkTypeOK' /\ WorkInv'
  <1> DEFINE o == att'[a.seg][a.text][Index(a)]
  <1>1. CASE o = "failed"
    <2>1. live => MayGo(AfterError(a.run))
      BY ErrorMayGo DEF Working
    <2>2. End(a, live, AfterError(a.run))
      BY <1>1 DEF React
    <2> QED
      BY <2>1, <2>2, EndKept
  <1>2. CASE o # "failed"
    <2> DEFINE at == CASE o = "open" -> "synthesize"   [] o = "fit" -> "select"
                       [] o = "needs_review" -> "review" [] o = "rewrite_required" -> "rewrite"
               b  == [a EXCEPT !.at = at]
    <2>1. Continue(a, live, b)
      BY <1>2 DEF React
    <2>2. \/ o = "open" /\ at = "synthesize"
          \/ o = "fit" /\ at = "select"
          \/ o = "needs_review" /\ at = "review"
          \/ o = "rewrite_required" /\ at = "rewrite"
      BY <1>2 DEF Marks, Measured
    <2>3. at \in Places /\ at \in Calls
      BY <2>2 DEF Places, Calls
    <2>4. b \in Work /\ b.at = at /\ b.run = a.run /\ b.seg = a.seg /\ b.text = a.text
          /\ b.cycle = a.cycle /\ b.used = a.used
      BY <2>3 DEF Working, Work
    <2>5. Index(b) = Index(a)
      BY <2>4 DEF Index
    <2>6. a.text \in 1..text'
      <3>1. a.text \in 1..text
        BY DEF Working, AtWork
      <3> QED
        BY <3>1, BoundsAreNat DEF Lasting, BoardTyped
    <2>7. AtWork(b, att', text')
      BY <2>2, <2>4, <2>5, <2>6 DEF AtWork
    <2> QED
      BY <2>1, <2>4, <2>7, ContinueKept
  <1> QED
    BY <1>1, <1>2

\* An attempt keeps the runs.
LEMMA AttemptKept ==
    ASSUME Inv, BoardInv', Lasting, RowInv', gen' = gen, NEW a, NEW live \in BOOLEAN,
           Working(a, live), Attempt(a, live)
    PROVE  WorkTypeOK' /\ WorkInv'
  <1>0. /\ WorkTypeOK /\ WorkInv /\ BoardInv /\ BoardTyped /\ BoardTyped' /\ gen \in Nat /\ RowInv
        /\ a \in Work /\ AtWork(a, att, text) /\ (live => a.run \in Runs /\ run[a.run].at \in Jobs)
    BY DEF Inv, BoardInv, RowInv, Working
  <1>1. live => MayGo(AfterError(a.run)) /\ MayGo(AfterRetry(a.run))
    BY <1>0, ErrorMayGo
  <1>2. live => MayGo(Fit(a.run, 1)) /\ MayGo(AfterFit(a.run)) /\ MayGo(Resume(a.run))
    BY <1>0, FitMayGo, ResumeMayGo
  <1>3. ASSUME NEW next, live => MayGo(next), End(a, live, next) PROVE WorkTypeOK' /\ WorkInv'
    BY <1>0, <1>3, EndKept
  <1>4. ASSUME NEW at \in Places, NEW t \in 0..MaxTexts, NEW used \in 0..MaxRewrites,
               at \in {"fitting", "begin"}, t \in 1..text',
               Continue(a, live, [a EXCEPT !.at = at, !.text = t, !.used = used])
        PROVE  WorkTypeOK' /\ WorkInv'
    <2> DEFINE b == [a EXCEPT !.at = at, !.text = t, !.used = used]
    <2>1. b \in Work /\ b.at = at /\ b.text = t /\ b.run = a.run
      BY <1>0 DEF Work
    <2>2. AtWork(b, att', text')
      BY <1>4, <2>1 DEF AtWork
    <2> QED
      BY <1>0, <1>4, <2>1, <2>2, ContinueKept
  <1>5. a.at \in Calls => a.text \in 1..text'
    <2>1. a.at \in Calls => a.text \in 1..text
      BY <1>0 DEF AtWork
    <2> QED
      BY <1>0, <2>1, BoundsAreNat DEF Lasting, BoardTyped
  <1>6. CASE ListSegments(a, live)
    BY <1>2, <1>3, <1>6 DEF ListSegments
  <1>7. CASE ReadInputs(a, live)
    <2>1. [a EXCEPT !.at = "fitting", !.text = text] = [a EXCEPT !.at = "fitting", !.text = text, !.used = a.used]
      BY <1>0 DEF Work
    <2>2. text \in 1..text' /\ text \in 0..MaxTexts /\ a.used \in 0..MaxRewrites /\ "fitting" \in Places
      BY <1>0, BoundsAreNat DEF Work, Places, Lasting, BoardTyped
    <2> QED
      BY <1>4, <1>7, <2>1, <2>2 DEF ReadInputs
  <1>8. CASE MarkFitting(a, live)
    <2>1. [a EXCEPT !.at = "begin"] = [a EXCEPT !.at = "begin", !.text = a.text, !.used = a.used]
      BY <1>0 DEF Work
    <2>2. a.text \in 0..MaxTexts /\ a.used \in 0..MaxRewrites /\ "begin" \in Places /\ a.at = "fitting"
      BY <1>0, <1>8 DEF Work, Places, MarkFitting
    <2> QED
      BY <1>4, <1>5, <1>8, <2>1, <2>2 DEF MarkFitting, Calls
  <1>9. CASE OpenAttempt(a, live)
    BY <1>0, <1>9, BeginIsBoardStep, ReactKept DEF OpenAttempt, Inv, Calls
  <1>10. CASE Synthesize(a, live)
    <2>1. PICK o \in Outcomes(a.used) : Finish(a.seg, a.text, Index(a), o)
      BY <1>10 DEF Synthesize
    <2>2. a.used \in 0..MaxRewrites
      BY <1>0 DEF Work
    <2>3. o \in Measured
      BY <2>2, OutcomesAreMeasured DEF Measured
    <2>4. att'[a.seg][a.text][Index(a)] \in Marks \ {"none"}
      <3>1. att'[a.seg][a.text][Index(a)] \in Measured \cup {"failed"}
        BY <1>0, <1>10, <2>1, <2>3, FinishIsBoardStep DEF Synthesize
      <3> QED
        BY <3>1 DEF Marks, Measured
    <2> QED
      BY <1>0, <1>10, <2>4, ReactKept DEF Synthesize, Inv, Calls
  <1>11. CASE RefuseText(a, live)
    BY <1>1, <1>3, <1>11 DEF RefuseText
  <1>12. CASE SelectAttempt(a, live)
    BY <1>2, <1>3, <1>12 DEF SelectAttempt, Select
  <1>13. CASE Rewrite(a, live)
    <2>1. CASE Select(a, live, "needs_review")
      BY <1>2, <1>3, <2>1 DEF Select
    <2>2. CASE a.used < MaxRewrites /\ Continue(a, live, [a EXCEPT !.at = "begin", !.used = @ + 1])
      <3>1. [a EXCEPT !.at = "begin", !.used = @ + 1]
                = [a EXCEPT !.at = "begin", !.text = a.text, !.used = a.used + 1]
        BY <1>0 DEF Work
      <3>2. a.text \in 0..MaxTexts /\ a.used \in 0..MaxRewrites /\ "begin" \in Places
        BY <1>0 DEF Work, Places
      <3>3. a.used + 1 \in 0..MaxRewrites /\ a.at = "rewrite"
        BY <1>13, <2>2, <3>2, FittingIsNat DEF Rewrite
      <3> QED
        BY <1>4, <1>5, <2>2, <3>1, <3>2, <3>3 DEF Calls
    <2> QED
      BY <1>13, <2>1, <2>2 DEF Rewrite
  <1>14. CASE Finalize(a, live)
    <2>1. CASE End(a, live, IF status' = "approved" THEN Go(a.run, "completed") ELSE Resume(a.run))
      <3>1. live /\ status' = "approved" => MayGo(Go(a.run, "completed"))
        <4>1. status' = "approved" => Spoken(att', text')
          BY DEF RowInv
        <4> QED
          BY <1>0, <4>1, GoMayGo, JobFacts
      <3> QED
        BY <1>2, <1>3, <2>1, <3>1
    <2>2. CASE live /\ End(a, live, AfterRetry(a.run))
      BY <1>1, <1>3, <2>2
    <2> QED
      BY <1>14, <2>1, <2>2 DEF Finalize
  <1>15. CASE MarkFailed(a, live)
    <2>1. CASE End(a, live, Go(a.run, "closed"))
      <3>1. live => MayGo(Go(a.run, "closed"))
        BY <1>0, GoMayGo, JobFacts
      <3> QED
        BY <1>3, <2>1, <3>1
    <2>2. CASE live /\ End(a, live, AfterRetry(a.run))
      BY <1>1, <1>3, <2>2
    <2> QED
      BY <1>15, <2>1, <2>2 DEF MarkFailed
  <1>16. CASE Raise(a, live)
    BY <1>1, <1>3, <1>16 DEF Raise
  <1> QED
    BY <1>6, <1>7, <1>8, <1>9, <1>10, <1>11, <1>12, <1>13, <1>14, <1>15, <1>16 DEF Attempt

-----------------------------------------------------------------------------
(* The steps of requests.                                                  *)

\* A request leaves the board, or refreshes the segments that do not fit its text.
LEMMA RequestIsBoardStep ==
    ASSUME NEW u \in Users, Request(u)
    PROVE  BoardStep
  <1>1. CASE Prepare(u)
    <2>1. CASE PrepareRenews
      <3> DEFINE ss == {s \in Segments : ~Kept(s)}
      <3>1. seg' = [s \in Segments |-> IF s \in ss THEN Fresh ELSE seg[s]]
        BY <2>1 DEF PrepareRenews
      <3>2. approved /\ UNCHANGED <<text, approved, att>>
        BY <1>1 DEF Prepare, textVars
      <3>3. Board!Refresh(ss) /\ ss \in SUBSET Segments
        BY <3>1, <3>2 DEF Board!Refresh, Board!Fresh, Board!None, Fresh, None
      <3> QED
        BY <3>3 DEF BoardStep, Board!BoardNext
    <2>2. CASE PrepareJoins /\ UNCHANGED <<rowVars, seg>>
      BY <1>1, <2>2 DEF Prepare, textVars, BoardStep
    <2> QED
      BY <1>1, <2>1, <2>2 DEF Prepare
  <1>2. CASE ~Prepare(u)
    BY <1>2 DEF Request, Launch, Bind, RepairRead, Repair, ApproveRead, ApproveCommit, Signal, Stop,
                MarkCancelled, Abandon, textVars, BoardStep
  <1> QED
    BY <1>1, <1>2

\* What a request keeps.
Rest == WorkTypeOK' /\ WorkInv' /\ RowInv' /\ UserInv'

\* A preparation counts up, and is where every request and run comes from.
LEMMA PrepareKept ==
    ASSUME Inv, BoardInv', Lasting, NEW u \in Users, Prepare(u)
    PROVE  Rest
  <1>0. /\ WorkTypeOK /\ WorkInv /\ BoardInv /\ BoardTyped /\ RowInv /\ UserInv
        /\ gen \in 0..MaxRuns /\ MaxRuns \in Nat /\ version \in Nat
    BY BoundsAreNat DEF Inv, BoardInv, RowInv
  <1>1. RowInv' /\ gen' \in 1..MaxRuns /\ gen' >= gen
    <2>1. CASE PrepareRenews
      <3>1. /\ status' = "processing" /\ version' = version + 1 /\ bound' = 0 /\ gen' = gen + 1 /\ gen < MaxRuns
            /\ seg' = [s \in Segments |-> IF Kept(s) THEN seg[s] ELSE Fresh]
        BY <2>1 DEF PrepareRenews
      <3>2. \A s \in Segments : seg'[s].state # "none"
        BY <3>1 DEF Kept, Fresh
      <3> QED
        BY <1>0, <3>1, <3>2 DEF RowInv, Statuses
    <2>2. CASE PrepareJoins /\ UNCHANGED <<rowVars, seg>>
      <3>1. UNCHANGED <<status, version, gen, bound>> /\ status # "none" /\ bound' \in 0..MaxRuns
        BY <1>0, <2>2 DEF PrepareJoins, rowVars, RowInv
      <3> QED
        BY <1>0, <3>1, RowLeft DEF RowInv
    <2> QED
      BY <2>1, <2>2 DEF Prepare
  <1>2. WorkTypeOK' /\ WorkInv'
    BY <1>0, <1>1, WorkLeft DEF Prepare, workVars
  <1>3. UserInv'
    <2>1. ReqInv("idle", NoReq, att', text', gen') /\ ReqInv("launch", Holding(gen'), att', text', gen')
      <3>1. NoReq \in ReqType /\ \A r \in 0..MaxRuns : Holding(r) \in ReqType /\ Holding(r).run = r
        BY <1>0, JobFacts DEF NoReq, Holding, ReqType
      <3> QED
        BY <1>1, <3>1 DEF ReqInv, Runs
    <2>2. gen \in Nat /\ gen' \in Nat
      BY <1>0, <1>1
    <2>3. Goto(u, "launch", Holding(gen')) \/ Goto(u, "idle", NoReq)
      BY DEF Prepare, Done
    <2> QED
      BY <1>0, <1>1, <2>1, <2>2, <2>3, GotoKept DEF UserStates
  <1> QED
    BY <1>1, <1>2, <1>3 DEF Rest

\* A request that goes on while the row is left or given a status.
LEMMA RequestRest ==
    ASSUME Inv, Lasting, gen' = gen, WorkTypeOK' /\ WorkInv', RowInv', NEW u \in Users,
           NEW state \in UserStates, NEW r, Goto(u, state, r), ReqInv(state, r, att', text', gen)
    PROVE  Rest
  <1>1. UserInv /\ BoardTyped /\ gen \in Nat
    BY DEF Inv, BoardInv, RowInv
  <1> QED
    BY <1>1, GotoKept DEF Rest

\* A run that is sent a signal stays where it is.
LEMMA RunTold ==
    ASSUME WorkTypeOK, WorkInv, BoardTyped, Lasting, gen \in Nat, gen' = gen, NEW r \in Runs, NEW x \in RunType,
           x.at = run[r].at, RunOK(x, att', text'), run' = [run EXCEPT ![r] = x], UNCHANGED <<act, late>>
    PROVE  WorkTypeOK' /\ WorkInv'
  <1>1. WorkTypeOK' /\ \A q \in Runs : run'[q] = IF q = r THEN x ELSE run[q]
    BY DEF WorkTypeOK
  <1>2. \A q \in Runs : RunOK(run'[q], att', text') /\ run'[q].at = run[q].at
    BY <1>1, StaysTrue DEF WorkInv
  <1>3. \A q \in Runs : act[q].at # "idle" =>
            act[q].run = q /\ run[q].at \in Jobs /\ AtWork(act[q], att', text')
    BY StaysTrue DEF WorkInv, WorkTypeOK
  <1>4. \A a \in late : gen > 0 /\ AtWork(a, att', text')
    BY StaysTrue DEF WorkInv, WorkTypeOK
  <1> QED
    BY <1>1, <1>2, <1>3, <1>4 DEF WorkInv

\* Empty requests, and those that hold a run.
LEMMA HoldingTyped ==
    /\ NoReq \in ReqType
    /\ \A r \in 0..MaxRuns : Holding(r) \in ReqType /\ Holding(r).run = r
    /\ \A r \in 0..MaxRuns, s \in Segments :
          [Holding(r) EXCEPT !.seg = s] \in ReqType /\ [Holding(r) EXCEPT !.seg = s].run = r
    /\ \A r \in 0..MaxRuns, v \in Nat :
          [Holding(r) EXCEPT !.version = v] \in ReqType /\ [Holding(r) EXCEPT !.version = v].run = r
  <1>1. NoReq \in ReqType
    BY JobFacts, BoundsAreNat DEF NoReq, ReqType
  <1>2. \A r \in 0..MaxRuns : Holding(r) \in ReqType /\ Holding(r).run = r
    BY <1>1 DEF Holding, ReqType
  <1> QED
    BY <1>1, <1>2 DEF ReqType

\* A launch starts a run once; a binding names it.
LEMMA LaunchKept ==
    ASSUME Inv, Lasting, NEW u \in Users, BoardInv', Launch(u)
    PROVE  Rest
  <1>0. /\ WorkTypeOK /\ WorkInv /\ BoardTyped /\ BoardTyped' /\ RowInv /\ gen \in Nat /\ gen' = gen
        /\ gen > 0 /\ req[u] \in ReqType /\ req[u].run \in Runs /\ bound \in 0..MaxRuns
    BY DEF Inv, BoardInv, RowInv, Launch, rowVars, UserInv, ReqInv
  <1>1. RowInv'
    BY <1>0, RowLeft DEF Launch, rowVars
  <1>2. WorkTypeOK' /\ WorkInv'
    <2>1. CASE RunTo(req[u].run, Go(req[u].run, "list"))
      <3>1. MayGo(Go(req[u].run, "list"))
        BY <1>0, GoMayGo, JobFacts
      <3> QED
        BY <1>0, <2>1, <3>1, RunToKept DEF Launch
    <2>2. CASE UNCHANGED <<run, act>>
      BY <1>0, <2>2, WorkLeft DEF Launch
    <2> QED
      BY <2>1, <2>2 DEF Launch
  <1>3. Goto(u, "idle", NoReq) \/ Goto(u, "bind", req[u])
    BY DEF Launch, Done
  <1>4. ReqInv("idle", NoReq, att', text', gen) /\ ReqInv("bind", req[u], att', text', gen)
    BY <1>0, HoldingTyped DEF ReqInv
  <1> QED
    BY <1>0, <1>1, <1>2, <1>3, <1>4, RequestRest DEF UserStates

\* A signal tells a run of a repair or an approval.
LEMMA TellKept ==
    ASSUME Inv, Lasting, NEW u \in Users, BoardInv', Repair(u) \/ Signal(u)
    PROVE  Rest
  <1>0. /\ WorkTypeOK /\ WorkInv /\ BoardTyped /\ RowInv /\ gen \in Nat /\ gen' = gen
        /\ req[u].seg \in Segments /\ req[u].run \in Runs /\ bound \in 0..MaxRuns
        /\ upc[u] = "signal" => Spoken(att, text)
    BY DEF Inv, BoardInv, RowInv, Repair, Signal, rowVars, UserInv, ReqInv, ReqType
  <1>1. RowInv'
    BY <1>0, RowLeft DEF Repair, Signal, rowVars
  <1> DEFINE r == req[u].run
             s == req[u].seg
  <1>2. run[r] \in RunType /\ RunOK(run[r], att', text')
    BY <1>0, StaysTrue DEF WorkTypeOK, WorkInv
  <1>3. WorkTypeOK' /\ WorkInv'
    <2>1. CASE UNCHANGED run
      BY <1>0, <2>1, WorkLeft DEF Repair, Signal
    <2>2. CASE Repair(u) /\ run[r].cycles[s] + Len(run[r].queue) < MaxCycles
               /\ run' = [run EXCEPT ![r].queue = Append(@, s)]
      <3> DEFINE q == run[r].queue
                 x == [run[r] EXCEPT !.queue = Append(q, s)]
      <3>1. q \in Seq(Segments) /\ run[r].cycles \in [Segments -> 1..MaxCycles]
            /\ \A k \in 1..Len(q) : run[r].cycles[q[k]] + k <= MaxCycles
        BY <1>2 DEF RunType, RunOK
      <3>2. s \in Segments /\ run[r].cycles[s] + Len(q) < MaxCycles
        BY <1>0, <2>2
      <3>3. Append(q, s) \in Seq(Segments)
        BY <3>1, <3>2
      <3>4. \A k \in 1..Len(Append(q, s)) : run[r].cycles[Append(q, s)[k]] + k <= MaxCycles
        BY <3>1, <3>2, QueueGrows
      <3>5. /\ x \in RunType /\ x.at = run[r].at /\ x.n = run[r].n /\ x.yes = run[r].yes
            /\ x.cycles = run[r].cycles /\ x.queue = Append(q, s)
        BY <1>2, <3>3 DEF RunType
      <3>6. RunOK(x, att', text')
        BY <1>2, <3>4, <3>5 DEF RunOK
      <3>7. run' = [run EXCEPT ![r] = x] /\ UNCHANGED <<act, late>>
        BY <2>2 DEF Repair
      <3> QED
        BY <1>0, <3>5, <3>6, <3>7, RunTold
    <2>3. CASE Signal(u) /\ run' = [run EXCEPT ![r].yes = TRUE]
      <3> DEFINE x == [run[r] EXCEPT !.yes = TRUE]
      <3>1. /\ x \in RunType /\ x.at = run[r].at /\ x.n = run[r].n
            /\ x.cycles = run[r].cycles /\ x.queue = run[r].queue
        BY <1>2 DEF RunType
      <3>2. Spoken(att', text')
        BY <1>0, <2>3, SpokenKept DEF Signal
      <3>3. RunOK(x, att', text')
        BY <1>2, <3>1, <3>2 DEF RunOK
      <3>4. run' = [run EXCEPT ![r] = x] /\ UNCHANGED <<act, late>>
        BY <2>3 DEF Signal
      <3> QED
        BY <1>0, <3>1, <3>3, <3>4, RunTold
    <2> QED
      BY <2>1, <2>2, <2>3 DEF Repair, Signal
  <1>4. Goto(u, "idle", NoReq) /\ ReqInv("idle", NoReq, att', text', gen)
    BY HoldingTyped DEF Repair, Signal, Done, ReqInv
  <1> QED
    BY <1>0, <1>1, <1>3, <1>4, RequestRest DEF UserStates

\* The other requests leave the runs.
LEMMA RowKept ==
    ASSUME Inv, Lasting, NEW u \in Users, BoardInv',
           Bind(u) \/ RepairRead(u) \/ ApproveRead(u) \/ ApproveCommit(u) \/ MarkCancelled(u) \/ Abandon(u)
    PROVE  Rest
  <1>0. /\ WorkTypeOK /\ WorkInv /\ BoardInv /\ BoardTyped /\ RowInv /\ gen \in Nat /\ bound \in 0..MaxRuns
        /\ status = "none" <=> gen = 0
        /\ req[u] \in ReqType
        /\ upc[u] # "idle" => gen > 0
        /\ upc[u] \in {"bind", "approve"} => req[u].run \in Runs
    BY DEF Inv, BoardInv, RowInv, UserInv, ReqInv
  <1>1. \A r \in Runs : r \in 0..MaxRuns
    BY BoundsAreNat DEF Runs
  <1>2. \A r \in 0..MaxRuns : r # 0 => r \in Runs
    BY BoundsAreNat DEF Runs
  <1>3. gen' = gen => WorkTypeOK' /\ WorkInv'
    BY <1>0, WorkLeft DEF Bind, RepairRead, ApproveRead, ApproveCommit, MarkCancelled, Abandon, workVars
  <1>i. ReqInv("idle", NoReq, att', text', gen)
    BY HoldingTyped DEF ReqInv
  <1>4. CASE Bind(u)
    <2>1. RowInv' /\ gen' = gen
      BY <1>0, <1>1, <1>4, RowLeft DEF Bind, textVars
    <2> QED
      BY <1>3, <1>4, <1>i, <2>1, RequestRest DEF Bind, Done, UserStates
  <1>5. CASE RepairRead(u)
    <2>1. RowInv' /\ gen' = gen /\ gen > 0 /\ bound \in Runs
      BY <1>0, <1>2, <1>5, RowLeft DEF RepairRead, rowVars, InReview
    <2>2. PICK s \in Segments : Goto(u, "repair", [Holding(bound) EXCEPT !.seg = s])
      BY <1>5 DEF RepairRead
    <2>3. ReqInv("repair", [Holding(bound) EXCEPT !.seg = s], att', text', gen)
      BY <1>0, <2>1, HoldingTyped DEF ReqInv
    <2> QED
      BY <1>3, <2>1, <2>2, <2>3, RequestRest DEF UserStates
  <1>6. CASE ApproveRead(u)
    <2>1. RowInv' /\ gen' = gen /\ gen > 0 /\ bound \in Runs /\ version \in Nat
      BY <1>0, <1>2, <1>6, RowLeft DEF ApproveRead, rowVars, InReview, RowInv
    <2>2. ReqInv("approve", [Holding(bound) EXCEPT !.version = version], att', text', gen)
      BY <1>0, <2>1, HoldingTyped DEF ReqInv
    <2> QED
      BY <1>3, <1>6, <2>1, <2>2, RequestRest DEF ApproveRead, UserStates
  <1>7. CASE ApproveCommit(u)
    <2>0. gen > 0 /\ req[u].run \in Runs /\ req[u].run \in 0..MaxRuns
      BY <1>0, <1>1, <1>7 DEF ApproveCommit
    <2>1. CASE ApproveRow(req[u].version) /\ Goto(u, "signal", Holding(req[u].run))
      <3>1. Spoken(att, text) /\ SetStatus("approved")
        BY <1>0, <2>1, FitIsSpoken DEF ApproveRow
      <3>2. RowInv' /\ gen' = gen
        BY <1>0, <2>0, <3>1, StatusKept DEF SetStatus, Statuses
      <3>3. ReqInv("signal", Holding(req[u].run), att', text', gen)
        BY <1>0, <2>0, <3>1, SpokenKept, HoldingTyped DEF ReqInv
      <3> QED
        BY <1>3, <2>1, <3>2, <3>3, RequestRest DEF UserStates
    <2>2. CASE UNCHANGED rowVars /\ status = "approved" /\ Goto(u, "signal", Holding(req[u].run))
      <3>1. RowInv' /\ gen' = gen /\ Spoken(att, text)
        BY <1>0, <2>2, RowLeft DEF rowVars, RowInv
      <3>2. ReqInv("signal", Holding(req[u].run), att', text', gen)
        BY <1>0, <2>0, <3>1, SpokenKept, HoldingTyped DEF ReqInv
      <3> QED
        BY <1>3, <2>2, <3>1, <3>2, RequestRest DEF UserStates
    <2>3. CASE UNCHANGED rowVars /\ Done(u)
      <3>1. RowInv' /\ gen' = gen
        BY <1>0, <2>3, RowLeft DEF rowVars
      <3> QED
        BY <1>3, <1>i, <2>3, <3>1, RequestRest DEF Done, UserStates
    <2> QED
      BY <1>7, <2>1, <2>2, <2>3 DEF ApproveCommit
  <1>8. CASE MarkCancelled(u)
    <2>1. gen > 0 /\ SetStatus("cancelled")
      BY <1>0, <1>8 DEF MarkCancelled, CancelRow
    <2>2. RowInv' /\ gen' = gen
      BY <1>0, <2>1, StatusKept DEF SetStatus, Statuses
    <2> QED
      BY <1>3, <1>8, <1>i, <2>2, RequestRest DEF MarkCancelled, Done, UserStates
  <1>9. CASE Abandon(u)
    <2>1. RowInv' /\ gen' = gen
      BY <1>0, <1>9, RowLeft DEF Abandon, rowVars
    <2> QED
      BY <1>3, <1>9, <1>i, <2>1, RequestRest DEF Abandon, Done, UserStates
  <1> QED
    BY <1>4, <1>5, <1>6, <1>7, <1>8, <1>9

\* A cancellation ends the activity or the wait of the run that is bound.
LEMMA CancelKept ==
    ASSUME Inv, Lasting, NEW u \in Users, BoardInv', Stop(u)
    PROVE  Rest
  <1>0. /\ WorkTypeOK /\ WorkInv /\ BoardTyped /\ BoardTyped' /\ RowInv /\ gen \in Nat /\ gen' = gen
        /\ gen > 0 /\ bound \in 0..MaxRuns
    BY DEF Inv, BoardInv, RowInv, Stop, rowVars
  <1>1. RowInv'
    BY <1>0, RowLeft DEF Stop, rowVars
  <1>2. WorkTypeOK' /\ WorkInv'
    <2>1. CASE UNCHANGED workVars
      BY <1>0, <2>1, WorkLeft DEF workVars
    <2>2. ASSUME bound # 0, Cancel(bound) PROVE WorkTypeOK' /\ WorkInv'
      <3>1. bound \in Runs
        BY <1>0, <2>2, BoundsAreNat DEF Runs
      <3>2. CASE run[bound].at \in Jobs /\ GiveUp(bound) /\ RunTo(bound, AfterError(bound))
        <4>1. late' \subseteq late \cup {act[bound]}
          BY <3>2 DEF GiveUp
        <4> QED
          BY <1>0, <3>1, <3>2, <4>1, ErrorMayGo, RunToKept
      <3>3. CASE RunTo(bound, Go(bound, "closed")) /\ UNCHANGED late
        <4>1. MayGo(Go(bound, "closed"))
          BY <1>0, <3>1, GoMayGo, JobFacts
        <4> QED
          BY <1>0, <3>1, <3>3, <4>1, RunToKept
      <3> QED
        BY <2>2, <3>2, <3>3 DEF Cancel
    <2> QED
      BY <2>1, <2>2 DEF Stop
  <1>3. Goto(u, "cancel", NoReq) /\ ReqInv("cancel", NoReq, att', text', gen)
    BY <1>0, HoldingTyped DEF Stop, ReqInv
  <1> QED
    BY <1>0, <1>1, <1>2, <1>3, RequestRest DEF UserStates

-----------------------------------------------------------------------------
(* The invariant.                                                          *)

\* At first there is no speech.
LEMMA InvInit == Init => Inv
  <1> SUFFICES ASSUME Init PROVE Inv
    OBVIOUS
  <1>1. BoardInv
    BY BoundsAreNat DEF Init, BoardInv, BoardTyped, FitSound, NewRow, SegStates, Marks
  <1>2. WorkTypeOK
    <2>1. NoRun \in RunType
      BY JobFacts DEF NoRun, RunType
    <2>2. ASSUME NEW r \in Runs PROVE Idle \in Work
      <3>1. 1 \in Runs
        BY <2>2, BoundsAreNat DEF Runs
      <3> QED
        BY <3>1, JobFacts, FittingIsNat, BoundsAreNat DEF Idle, Work, Places
    <2> QED
      BY <2>1, <2>2 DEF Init, WorkTypeOK
  <1>3. WorkInv
    <2>1. RunOK(NoRun, att, text)
      BY JobFacts DEF RunOK, NoRun
    <2>2. NoRun.at = "none" /\ Idle.at = "idle"
      BY DEF NoRun, Idle
    <2> QED
      BY <2>1, <2>2 DEF Init, WorkInv
  <1>4. RowInv
    BY BoundsAreNat DEF Init, RowInv, Statuses
  <1>5. UserInv
    BY HoldingTyped, BoundsAreNat DEF Init, UserInv, UserStates, ReqInv
  <1> QED
    BY <1>1, <1>2, <1>3, <1>4, <1>5 DEF Inv

\* An attempt that takes a step is at work, for a run that waits for it or late.
LEMMA AttemptsWork ==
    ASSUME Inv
    PROVE  /\ \A r \in Runs : Attempt(act[r], TRUE) => Working(act[r], TRUE)
           /\ \A a \in late : Attempt(a, FALSE) => Working(a, FALSE)
  <1>1. \A a, live : Attempt(a, live) => a.at # "idle"
    BY DEF Attempt, ListSegments, ReadInputs, MarkFitting, OpenAttempt, Synthesize, RefuseText,
           SelectAttempt, Rewrite, Finalize, MarkFailed, Raise
  <1>2. ASSUME NEW r \in Runs, act[r].at # "idle" PROVE Working(act[r], TRUE)
    <2>1. act[r].run = r /\ run[r].at \in Jobs /\ AtWork(act[r], att, text) /\ act[r] \in Work
      BY <1>2 DEF Inv, WorkInv, WorkTypeOK
    <2>2. gen > 0
      BY <2>1, JobFacts DEF Inv, WorkInv
    <2> QED
      BY <1>2, <2>1, <2>2 DEF Working
  <1>3. ASSUME NEW a \in late, a.at # "idle" PROVE Working(a, FALSE)
    BY <1>3 DEF Inv, WorkInv, WorkTypeOK, Working, Work
  <1> QED
    BY <1>1, <1>2, <1>3

\* Every step is one of the board or leaves it.
LEMMA StepIsBoardStep ==
    ASSUME Inv, [Next]_vars
    PROVE  BoardStep
  <1>1. CASE UNCHANGED vars
    BY <1>1 DEF vars, textVars, BoardStep
  <1>2. CASE Translation
    BY <1>2 DEF Translation, BoardStep, Board!BoardNext, Board!Retranslate, Board!Reapprove
  <1>3. ASSUME NEW u \in Users, Request(u) PROVE BoardStep
    BY <1>3, RequestIsBoardStep
  <1>4. ASSUME NEW r \in Runs, Workflow(r) PROVE BoardStep
    BY <1>4 DEF Workflow, Timeout, Proceed, textVars, BoardStep
  <1>5. ASSUME NEW r \in Runs, Attempt(act[r], TRUE) PROVE BoardStep
    BY <1>5, AttemptsWork, AttemptIsBoardStep
  <1>6. ASSUME NEW a \in late, Attempt(a, FALSE) PROVE BoardStep
    BY <1>6, AttemptsWork, AttemptIsBoardStep
  <1> QED
    BY <1>1, <1>2, <1>3, <1>4, <1>5, <1>6 DEF Next

\* Every step keeps the invariant.
LEMMA InvStep == Inv /\ [Next]_vars => Inv'
  <1> SUFFICES ASSUME Inv, [Next]_vars PROVE Inv'
    OBVIOUS
  <1>0. /\ BoardInv /\ BoardTyped /\ WorkTypeOK /\ WorkInv /\ RowInv /\ UserInv
        /\ gen \in Nat /\ bound \in 0..MaxRuns
    BY DEF Inv, BoardInv, RowInv
  <1>1. BoardInv' /\ Lasting
    BY <1>0, StepIsBoardStep, BoardKept
  <1>2. ASSUME UNCHANGED <<rowVars, userVars>>, WorkTypeOK' /\ WorkInv' PROVE Rest
    <2>1. RowInv' /\ gen' = gen
      BY <1>0, <1>1, <1>2, RowLeft DEF rowVars
    <2> QED
      BY <1>0, <1>1, <1>2, <2>1, UsersLeft DEF Rest
  <1>3. ASSUME UNCHANGED rowVars, UNCHANGED workVars, UNCHANGED userVars PROVE Rest
    <2>1. WorkTypeOK' /\ WorkInv'
      BY <1>0, <1>1, <1>3, WorkLeft DEF workVars, rowVars
    <2>2. UNCHANGED <<rowVars, userVars>>
      BY <1>3
    <2> QED
      BY <1>2, <2>1, <2>2
  <1>4. ASSUME NEW u \in Users, Request(u) PROVE Rest
    BY <1>1, <1>4, PrepareKept, LaunchKept, TellKept, RowKept, CancelKept DEF Request
  <1>5. ASSUME NEW r \in Runs, Workflow(r) PROVE Rest
    <2>1. gen' = gen /\ UNCHANGED <<rowVars, userVars>>
      BY <1>5 DEF Workflow, Timeout, Proceed, rowVars
    <2>2. gen > 0
      <3>1. run[r].at # "none"
        BY <1>5, JobFacts DEF Workflow, Timeout, Proceed
      <3> QED
        BY <1>0, <3>1 DEF WorkInv
    <2>3. CASE Timeout(r)
      <3>1. run[r].at \in Jobs /\ RunTo(r, AfterRetry(r)) /\ late' \subseteq late \cup {act[r]}
        BY <2>3 DEF Timeout, GiveUp
      <3> QED
        BY <1>0, <1>1, <1>2, <2>1, <2>2, <3>1, ErrorMayGo, RunToKept DEF BoardInv
    <2>4. CASE Proceed(r)
      <3>1. RunTo(r, Resume(r)) /\ UNCHANGED late
        BY <2>4 DEF Proceed
      <3> QED
        BY <1>0, <1>1, <1>2, <2>1, <2>2, <3>1, ResumeMayGo, RunToKept DEF BoardInv
    <2> QED
      BY <1>5, <2>3, <2>4 DEF Workflow
  <1>6. ASSUME NEW a, NEW live \in BOOLEAN, Working(a, live), Attempt(a, live) PROVE Rest
    <2>1. RowInv' /\ gen' = gen /\ UNCHANGED userVars
      BY <1>1, <1>6, AttemptRow
    <2>2. WorkTypeOK' /\ WorkInv'
      BY <1>1, <1>6, <2>1, AttemptKept
    <2> QED
      BY <1>0, <1>1, <2>1, <2>2, UsersLeft DEF Rest
  <1>7. Rest
    <2>1. CASE Translation
      BY <1>3, <2>1 DEF Translation
    <2>4. CASE UNCHANGED vars
      BY <1>3, <2>4 DEF vars
    <2>2. ASSUME NEW r \in Runs, Attempt(act[r], TRUE) PROVE Rest
      BY <1>6, <2>2, AttemptsWork
    <2>3. ASSUME NEW a \in late, Attempt(a, FALSE) PROVE Rest
      BY <1>6, <2>3, AttemptsWork
    <2> QED
      BY <1>4, <1>5, <2>1, <2>2, <2>3, <2>4 DEF Next
  <1> QED
    BY <1>1, <1>7 DEF Inv, Rest

-----------------------------------------------------------------------------
(* The theorems.                                                           *)

\* The invariant holds.
THEOREM Invariance == Spec => []Inv
  BY InvInit, InvStep, PTL DEF Spec

\* Every variable of the speech keeps its type, and an activity is granted its attempt.
THEOREM TypeCorrect == Spec => []TypeOK
  <1>1. Inv => TypeOK
    <2> SUFFICES ASSUME Inv PROVE TypeOK
      OBVIOUS
    <2>1. BoardTyped /\ RowInv /\ UserInv /\ WorkTypeOK
      BY DEF Inv, BoardInv
    <2>2. \A r \in Runs : run[r] \in RunType /\ RunOK(run[r], att, text)
      BY DEF Inv, WorkTypeOK, WorkInv
    <2>3. \A r \in Runs :
             /\ run[r].at \in Open \cup Closed \cup {"none"}
             /\ run[r].seg \in Segments /\ run[r].cycle \in 0..MaxCycles - 1
             /\ run[r].at \in Jobs => run[r].n \in 1..MaxAttempts[run[r].at]
             /\ run[r].queue \in Seq(Segments) /\ run[r].yes \in BOOLEAN
             /\ run[r].cycles \in [Segments -> 1..MaxCycles]
      BY <2>2 DEF RunType, RunOK
    <2> QED
      BY <2>1, <2>3 DEF TypeOK, BoardTyped, Takes, Marks, Measured, RowInv, UserInv, UserStates, ReqType, WorkTypeOK
  <1> QED
    BY <1>1, Invariance, PTL

\* The speech implements the board its rendering is built on.
THEOREM SpeechIsBoard == Spec => ImplementsSpeechBoard
  <1>1. Init => Board!BoardInit
    BY DEF Init, Board!BoardInit, NewRow, Board!NewRow, None, Board!None
  <1>2. Inv /\ [Next]_vars => [Board!BoardNext]_(Board!board)
    BY StepIsBoardStep DEF BoardStep, Board!board
  <1> QED
    BY <1>1, <1>2, Invariance, PTL DEF Spec, ImplementsSpeechBoard, Board!BoardSpec

\* A run that completed completed of speech that fits, in every segment.
THEOREM CompletionsSpoken == Spec => []CompletedIsSpoken
  <1>1. Inv => CompletedIsSpoken
    BY DEF Inv, WorkInv, RunOK, Spoken, CompletedIsSpoken
  <1> QED
    BY <1>1, Invariance, PTL

=============================================================================
