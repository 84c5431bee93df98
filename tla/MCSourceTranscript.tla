------------------------- MODULE MCSourceTranscript -------------------------
(* Finite instances of SourceTranscript for TLC. *)
EXTENDS SourceTranscript, Consolidation

CONSTANTS u1, r1, r2, s1

MCOneAttempt == [s \in Stages |-> 1]

\* publish_ocr_segments takes the segments of consolidate_observations as they are,
\* so these must show what OCR read: at every instant the text of the frame sampled
\* last, over one missed frame but not over two, and as one segment while it stays
\* on.  It is evaluated where the transcript is prepared and no run has begun.
SubtitlesFollowFrames == version = 1 /\ run = 0 => FramesAreFollowed

=============================================================================
