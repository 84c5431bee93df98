--------------------------- MODULE Consolidation ---------------------------
(***************************************************************************)
(* consolidate_observations: from the texts that OCR read in frames, one   *)
(* every `interval`, to the subtitle segments of a transcript.  A frame    *)
(* without text leaves no observation.                                     *)
(*                                                                         *)
(* Texts are normalised already.  Confidences, evidence times and the      *)
(* checks of the parameters are left out, and so are the two branches for  *)
(* a segment without extent: an interval is positive and a kept            *)
(* observation lies within the media, so there is none.                    *)
(***************************************************************************)
EXTENDS Integers, FiniteSets, SequencesExt

MaxGapSamples == 2  \* the parameter's default, which every caller takes

\* The observations within the media, in the order of their times: each one stands
\* behind those that are earlier.  No two have one time.
Cleaned(observations, duration) ==
    LET kept       == {o \in observations : o.time < duration}
        Earlier(o) == {p \in kept : p.time < o.time}
    IN  [i \in 1..Cardinality(kept) |-> CHOOSE o \in kept : Cardinality(Earlier(o)) = i - 1]

\* Mutant: a blank frame ends the subtitle.
RepeatsAtOnce(o, previous, interval) ==
    /\ o.text = previous.text
    /\ o.time - previous.time < interval * MaxGapSamples

\* An observation that goes on with the group of the one before.
Repeats(o, previous, interval) ==
    /\ o.text = previous.text
    /\ o.time - previous.time <= interval * MaxGapSamples

Grouped(observations, interval) ==
    FoldLeft(LAMBDA groups, o :
                 IF groups # <<>> /\ Repeats(o, Last(Last(groups)), interval)
                 THEN Front(groups) \o <<Append(Last(groups), o)>>
                 ELSE Append(groups, <<o>>),
             <<>>, observations)

\* A segment lasts until one interval after its last observation, at most to
\* the end of the media.
Segment(group, interval, duration) ==
    LET end == Last(group).time + interval
    IN  [start |-> Head(group).time, end |-> IF end < duration THEN end ELSE duration,
         text |-> Head(group).text]

Consolidated(observations, interval, duration) ==
    LET groups == Grouped(Cleaned(observations, duration), interval)
    IN  [i \in DOMAIN groups |-> Segment(groups[i], interval, duration)]

-----------------------------------------------------------------------------
(* What a viewer reads off the segments is what OCR read off the frames.    *)

\* A reading has the text of each frame from 0 on, or that there is none.
Blank == "blank"

Observed(reading, interval) ==
    {[time |-> f * interval, text |-> reading[f]] : f \in {g \in DOMAIN reading : reading[g] # Blank}}

\* The texts of frame f: its own or, when it alone is blank between two frames
\* of one text, theirs.  A frame at or past the end is not looked at.
TextsOf(reading, f, frames) ==
    IF f \notin frames THEN {}
    ELSE IF reading[f] # Blank THEN {reading[f]}
    ELSE {reading[g] : g \in {h \in frames : /\ h = f - 1 /\ reading[h] # Blank
                                            /\ f + 1 \in frames /\ reading[f + 1] = reading[h]}}

\* At every instant of the media at most one segment is on screen, with the text of
\* the frame sampled last; one missed frame does not interrupt a text, two do, and
\* a text that stays on is one segment, to be translated and spoken once.
Follow(segments, reading, interval, duration) ==
    LET frames  == {f \in DOMAIN reading : f * interval < duration}
        On(t)   == {i \in DOMAIN segments : segments[i].start <= t /\ t < segments[i].end}
        Read(t) == {segments[i].text : i \in On(t)}
    IN  /\ \A i \in DOMAIN segments : segments[i].end <= duration
        /\ \A t \in 0..(duration - 1) :
              /\ Cardinality(On(t)) <= 1
              /\ Read(t) = TextsOf(reading, t \div interval, frames)
              /\ t > 0 /\ Read(t) = Read(t - 1) => On(t) = On(t - 1)

\* The readings of five frames, for two intervals and all ends of the media from
\* before the first frame is over to after the last.
LastFrame == 4
MaxInterval == 2
Texts == {"a", "b"}
Readings == [0..LastFrame -> Texts \cup {Blank}]

FramesAreFollowed ==
    \A interval \in 1..MaxInterval, reading \in Readings :
    \A duration \in 1..((LastFrame + 2) * interval) :
        Follow(Consolidated(Observed(reading, interval), interval, duration), reading, interval, duration)

=====
