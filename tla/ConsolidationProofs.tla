------------------------ MODULE ConsolidationProofs ------------------------
(***************************************************************************)
(* Proof that the segments consolidate_observations builds show what OCR   *)
(* read, for any number of frames, any texts, any interval and any length  *)
(* of the media.  The run checks the same for five frames.                 *)
(*                                                                         *)
(* Cleaned puts the observations in the order of their times               *)
(* (CleanedInOrder), the fold of Grouped makes groups that lie one after   *)
(* the other and have them all (GroupsCover), so each segment spans frames *)
(* with its text, but for single blank ones (CoverSpans), and that is what *)
(* Follow asks for (SpansFollow).                                          *)
(***************************************************************************)
EXTENDS Consolidation, SequenceTheorems, FiniteSetTheorems, LeastNumber, TLAPS

-----------------------------------------------------------------------------
(* Frames and instants.                                                    *)

\* When frames are sampled.
LEMMA FrameTimes ==
    ASSUME NEW interval \in Nat \ {0}
    PROVE  /\ \A f \in Nat : f * interval \in Nat /\ (f + 1) * interval = f * interval + interval
           /\ \A f, g \in Nat : f <= g <=> f * interval <= g * interval
           /\ \A f, g \in Nat : f <= g => (g * interval - f * interval <= interval * MaxGapSamples <=> g <= f + 2)
           /\ \A t \in Nat : /\ t \div interval \in Nat
                             /\ (t \div interval) * interval <= t
                             /\ t < (t \div interval) * interval + interval
  <1>1. ASSUME NEW f \in Nat
        PROVE  f * interval \in Nat /\ (f + 1) * interval = f * interval + interval
    <2>1. f * interval \in Nat
      OBVIOUS
    <2>2. (f + 1) * interval = f * interval + interval
      OBVIOUS
    <2> QED
      BY <2>1, <2>2
  <1>2. ASSUME NEW f \in Nat, NEW g \in Nat, f < g PROVE f * interval + interval <= g * interval
    <2>1. PICK d \in Nat : g = f + 1 + d
      <3>1. g - f - 1 \in Nat /\ g = f + 1 + (g - f - 1)
        BY <1>2
      <3> QED
        BY <3>1
    <2>2. g * interval = f * interval + interval + d * interval
      BY <2>1
    <2>3. d * interval \in Nat /\ f * interval \in Nat
      BY <1>1
    <2> QED
      BY <2>2, <2>3
  <1>3. ASSUME NEW f \in Nat, NEW g \in Nat PROVE f <= g <=> f * interval <= g * interval
    <2>1. f * interval \in Nat /\ g * interval \in Nat
      BY <1>1
    <2>2. f < g => f * interval + interval <= g * interval
      BY <1>2
    <2>3. g < f => g * interval + interval <= f * interval
      BY <1>2
    <2>4. f = g => f * interval = g * interval
      OBVIOUS
    <2> DEFINE F == f * interval
               G == g * interval
    <2>5. F \in Nat /\ G \in Nat /\ (f < g => F + interval <= G) /\ (g < f => G + interval <= F)
          /\ (f = g => F = G)
      BY <2>1, <2>2, <2>3, <2>4
    <2> HIDE DEF F, G
    <2>6. f <= g <=> F <= G
      BY <2>5
    <2> QED
      BY <2>6 DEF F, G
  <1>4. ASSUME NEW f \in Nat, NEW g \in Nat, f <= g
        PROVE  g * interval - f * interval <= interval * MaxGapSamples <=> g <= f + 2
    <2> DEFINE F == f * interval
               G == g * interval
    <2>1. F \in Nat /\ G \in Nat /\ (f + 2) * interval = F + 2 * interval /\ f + 2 \in Nat
      <3>1. (f + 2) * interval = f * interval + 2 * interval
        OBVIOUS
      <3> QED
        BY <1>1, <3>1
    <2>2. g <= f + 2 <=> G <= F + 2 * interval
      <3>1. g <= f + 2 <=> G <= (f + 2) * interval
        BY <2>1, <1>3
      <3> QED
        BY <2>1, <3>1
    <2>3. interval * MaxGapSamples = 2 * interval
      BY DEF MaxGapSamples
    <2> HIDE DEF F, G
    <2>4. G - F <= 2 * interval <=> g <= f + 2
      BY <2>1, <2>2
    <2> QED
      BY <2>3, <2>4 DEF F, G
  <1>5. ASSUME NEW t \in Nat
        PROVE  /\ t \div interval \in Nat
               /\ (t \div interval) * interval <= t
               /\ t < (t \div interval) * interval + interval
    OBVIOUS
  <1> QED
    BY <1>1, <1>3, <1>4, <1>5

-----------------------------------------------------------------------------
(* Observations in order.                                                  *)

\* Observations of a medium: no two have one time.
Sampled(observations) ==
    /\ IsFiniteSet(observations)
    /\ \A o \in observations : o.time \in Nat
    /\ \A o, p \in observations : o.time = p.time => o = p

\* obs has the observations of kept, each at its place in time.
InOrder(obs, n, kept) ==
    /\ DOMAIN obs = 1..n
    /\ \A i \in 1..n : obs[i] \in kept
    /\ \A i, j \in 1..n : i < j => obs[i].time < obs[j].time
    /\ \A o \in kept : \E i \in 1..n : obs[i] = o

\* The observations that are kept, in order.
LEMMA CleanedInOrder ==
    ASSUME NEW observations, Sampled(observations), NEW duration
    PROVE  \E n \in Nat : InOrder(Cleaned(observations, duration), n, {o \in observations : o.time < duration})
  <1> DEFINE kept == {o \in observations : o.time < duration}
             obs  == Cleaned(observations, duration)
             n    == Cardinality(kept)
             Earlier(o) == {p \in kept : p.time < o.time}
             Rank(o) == Cardinality(Earlier(o))
  <1>1. IsFiniteSet(kept) /\ n \in Nat
    <2>1. kept \in SUBSET observations
      OBVIOUS
    <2> HIDE DEF kept
    <2> QED
      BY <2>1, FS_Subset, FS_CardinalityType DEF Sampled
  <1>2. obs = [i \in 1..n |-> CHOOSE o \in kept : Rank(o) = i - 1]
    BY DEF Cleaned
  <1>3. /\ \A o \in kept : o.time \in Nat
        /\ \A o, p \in kept : o.time = p.time => o = p
    BY DEF Sampled
  <1>4. \A o : Earlier(o) \in SUBSET kept
    OBVIOUS
  <1> HIDE DEF kept, obs
  <1>5. ASSUME NEW o \in kept PROVE IsFiniteSet(Earlier(o)) /\ Rank(o) \in Nat /\ Rank(o) <= n - 1
    <2>1. o \notin Earlier(o)
      BY <1>3
    <2> DEFINE E == Earlier(o)
    <2>2. IsFiniteSet(E) /\ E \in SUBSET kept /\ E \cup {o} \in SUBSET kept
      BY <1>1, <1>4, FS_Subset
    <2> HIDE DEF E
    <2>3. Cardinality(E \cup {o}) = Cardinality(E) + 1 /\ Cardinality(E \cup {o}) <= n /\ Cardinality(E) \in Nat
      BY <1>1, <2>1, <2>2, FS_Subset, FS_AddElement, FS_CardinalityType DEF E
    <2> QED
      BY <1>1, <2>2, <2>3 DEF E
  <1>6. ASSUME NEW o \in kept, NEW p \in kept, o.time < p.time PROVE Rank(o) < Rank(p)
    <2> DEFINE E == Earlier(o)
               F == Earlier(p)
    <2>1. o \notin E /\ E \cup {o} \in SUBSET F
      BY <1>3, <1>6
    <2>2. IsFiniteSet(E) /\ IsFiniteSet(F) /\ Cardinality(E) \in Nat /\ Cardinality(F) \in Nat
      BY <1>5
    <2> HIDE DEF E, F
    <2>3. Cardinality(E \cup {o}) = Cardinality(E) + 1 /\ Cardinality(E \cup {o}) <= Cardinality(F)
      BY <2>1, <2>2, FS_Subset, FS_AddElement
    <2> QED
      BY <2>2, <2>3 DEF E, F
  <1>ranks. n \in Nat /\ \A o \in kept : Rank(o) \in Nat /\ Rank(o) <= n - 1
    BY <1>1, <1>5
  <1> HIDE DEF Rank, Earlier
  <1> DEFINE rank == [o \in kept |-> Rank(o) + 1]
  <1>7. rank \in Injection(kept, 1..n)
    <2>1. \A o \in kept : Rank(o) + 1 \in 1..n
      <3> HIDE DEF n
      <3> QED
        BY <1>ranks
    <2>2. ASSUME NEW o \in kept, NEW p \in kept, Rank(o) + 1 = Rank(p) + 1 PROVE o = p
      <3>1. Rank(o) \in Nat /\ Rank(p) \in Nat /\ o.time \in Nat /\ p.time \in Nat
        BY <1>3, <1>5
      <3>2. Rank(o) = Rank(p)
        BY <3>1, <2>2
      <3>3. ~(o.time < p.time) /\ ~(p.time < o.time)
        BY <1>6, <3>1, <3>2
      <3> QED
        BY <1>3, <3>1, <3>3
    <2> QED
      BY <2>1, <2>2 DEF Injection, IsInjective
  <1>8. rank \in Surjection(kept, 1..n)
    <2>1. IsFiniteSet(1..n) /\ Cardinality(1..n) = n
      BY <1>1, FS_Interval
    <2> HIDE DEF rank
    <2> QED
      BY <1>1, <1>7, <2>1, FS_Injection
  <1>9. ASSUME NEW i \in 1..n PROVE obs[i] \in kept /\ Rank(obs[i]) = i - 1
    <2>1. PICK o \in kept : rank[o] = i
      BY <1>8 DEF Surjection
    <2>2. Rank(o) = i - 1
      BY <1>ranks, <2>1
    <2> QED
      BY <1>2, <2>2
  <1>10. ASSUME NEW i \in 1..n, NEW j \in 1..n, i < j PROVE obs[i].time < obs[j].time
    <2>1. /\ obs[i] \in kept /\ obs[j] \in kept /\ Rank(obs[i]) = i - 1 /\ Rank(obs[j]) = j - 1
      BY <1>9
    <2>2. obs[i].time \in Nat /\ obs[j].time \in Nat
      BY <1>3, <2>1
    <2>3. obs[i] # obs[j]
      BY <1>10, <2>1
    <2>4. ~(obs[j].time < obs[i].time)
      BY <1>1, <1>6, <1>10, <2>1
    <2>5. obs[i].time # obs[j].time
      BY <1>3, <2>1, <2>3
    <2> QED
      BY <2>2, <2>4, <2>5
  <1>11. ASSUME NEW o \in kept PROVE \E i \in 1..n : obs[i] = o
    <2> DEFINE i == Rank(o) + 1
    <2>1. i \in 1..n /\ Rank(o) = i - 1
      <3> HIDE DEF n
      <3> QED
        BY <1>ranks
    <2>2. obs[i] \in kept /\ Rank(obs[i]) = Rank(o)
      BY <1>9, <2>1
    <2>3. obs[i].time \in Nat /\ o.time \in Nat /\ Rank(o) \in Nat
      BY <1>3, <1>5, <2>2
    <2>4. obs[i] = o
      BY <1>3, <1>6, <2>2, <2>3
    <2> QED
      BY <2>1, <2>4
  <1>12. DOMAIN obs = 1..n
    BY <1>2
  <1>13. n \in Nat /\ InOrder(obs, n, kept)
    BY <1>1, <1>9, <1>10, <1>11, <1>12 DEF InOrder
  <1> HIDE DEF n
  <1> QED
    BY <1>13 DEF kept, obs

-----------------------------------------------------------------------------
(* Groups.                                                                 *)

\* The groups with one more observation.
Longer(groups, o) == Front(groups) \o <<Append(Last(groups), o)>>

Joined(groups, o, interval) ==
    IF groups # <<>> /\ Repeats(o, Last(Last(groups)), interval) THEN Longer(groups, o)
    ELSE Append(groups, <<o>>)

\* The groups of each set of observations, as the fold has them.
GroupsOf(it, D, obs, interval) ==
    it = [s \in SUBSET D |-> IF s = {} THEN <<>>
                             ELSE Joined(it[s \ {Max(s)}], obs[Max(s)], interval)]

\* The one that is not less than any other is Max of SequencesExt.
LEMMA MaxIs ==
    ASSUME NEW s \in SUBSET Nat, NEW m \in s, \A x \in s : x <= m
    PROVE  Max(s) = m
  <1>1. \A y \in s : m >= y
    OBVIOUS
  <1>2. ASSUME NEW x \in s, \A y \in s : x >= y PROVE x = m
    <2>1. x >= m /\ m >= x /\ x \in Nat /\ m \in Nat
      BY <1>1, <1>2
    <2> QED
      BY <2>1
  <1> DEFINE IsMax(x) == x \in s /\ \A y \in s : x >= y
  <1>3. IsMax(m)
    BY <1>1
  <1>4. Max(s) = CHOOSE x : IsMax(x)
    BY DEF Max
  <1>5. IsMax(CHOOSE x : IsMax(x))
    BY <1>3
  <1> QED
    BY <1>2, <1>4, <1>5

\* Grouped is the function that FoldLeft takes, at all of the indexes.
LEMMA GroupedIs ==
    ASSUME NEW obs, NEW interval
    PROVE  Grouped(obs, interval) = (CHOOSE it : GroupsOf(it, DOMAIN obs, obs, interval))[DOMAIN obs]
  BY DEF Grouped, FoldLeft, MapThenFoldSet, GroupsOf, Joined, Longer

\* There is such a function.
LEMMA GroupsExist ==
    ASSUME NEW n \in Nat, NEW obs, NEW interval
    PROVE  \E it : GroupsOf(it, 1..n, obs, interval)
  <1> DEFINE Upto(k) == \E it : GroupsOf(it, 1..k, obs, interval)
             missed == {k \in Nat : ~Upto(k)}
  <1>1. Upto(0)
    <2> DEFINE it == [s \in SUBSET (1..0) |-> <<>>]
    <2>1. SUBSET (1..0) = {{}}
      OBVIOUS
    <2>2. GroupsOf(it, 1..0, obs, interval)
      BY <2>1 DEF GroupsOf
    <2> QED
      BY <2>2
  <1>2. ASSUME NEW k \in Nat, Upto(k) PROVE Upto(k + 1)
    <2>1. PICK it : GroupsOf(it, 1..k, obs, interval)
      BY <1>2
    <2> DEFINE new == [s \in SUBSET (1..k + 1) |->
                          IF k + 1 \in s THEN Joined(it[s \ {k + 1}], obs[k + 1], interval)
                          ELSE it[s]]
               Value(f, s) == IF s = {} THEN <<>>
                             ELSE Joined(f[s \ {Max(s)}], obs[Max(s)], interval)
    <2>2. \A s \in SUBSET (1..k) : s \in SUBSET (1..k + 1) /\ k + 1 \notin s
      OBVIOUS
    <2>3. \A s \in SUBSET (1..k) : new[s] = it[s]
      BY <2>2
    <2>4. \A s \in SUBSET (1..k) : it[s] = Value(it, s)
      BY <2>1 DEF GroupsOf
    <2>5. ASSUME NEW s \in SUBSET (1..k + 1) PROVE new[s] = Value(new, s)
      <3>1. CASE k + 1 \in s
        <4>1. Max(s) = k + 1
          <5>1. s \in SUBSET Nat /\ \A x \in s : x <= k + 1
            OBVIOUS
          <5> QED
            BY <3>1, <5>1, MaxIs
        <4>2. s \ {k + 1} \in SUBSET (1..k)
          OBVIOUS
        <4>3. new[s] = Joined(it[s \ {k + 1}], obs[k + 1], interval) /\ new[s \ {k + 1}] = it[s \ {k + 1}]
          BY <3>1, <4>2, <2>3
        <4> HIDE DEF new
        <4> QED
          BY <3>1, <4>1, <4>3
      <3>2. CASE k + 1 \notin s
        <4>1. s \in SUBSET (1..k)
          BY <3>2
        <4>2. s \ {Max(s)} \in SUBSET (1..k)
          BY <4>1
        <4>3. new[s] = it[s] /\ new[s \ {Max(s)}] = it[s \ {Max(s)}] /\ it[s] = Value(it, s)
          BY <2>3, <2>4, <4>1, <4>2
        <4> HIDE DEF new
        <4> QED
          BY <4>3
      <3> QED
        BY <3>1, <3>2
    <2>6. new = [s \in SUBSET (1..k + 1) |-> new[s]]
      OBVIOUS
    <2> HIDE DEF new
    <2>7. new = [s \in SUBSET (1..k + 1) |-> Value(new, s)]
      BY <2>5, <2>6
    <2> QED
      BY <2>7 DEF GroupsOf
  <1>3. missed = {}
    <2>1. SUFFICES ASSUME missed # {} PROVE FALSE
      OBVIOUS
    <2>2. missed \in SUBSET Nat
      OBVIOUS
    <2> HIDE DEF Upto
    <2>3. PICK k \in missed : \A j \in missed : k <= j
      <3> HIDE DEF missed
      <3> QED
        BY <2>1, <2>2, Least
    <2>4. k # 0 /\ k \in Nat
      BY <1>1
    <2>5. k - 1 \in Nat /\ k - 1 \notin missed
      BY <2>3, <2>4
    <2> QED
      BY <1>2, <2>5
  <1> HIDE DEF Upto
  <1>4. Upto(n)
    BY <1>3
  <1> QED
    BY <1>4 DEF Upto

\* The groups of the first k observations, one after the other.
LEMMA GroupedSteps ==
    ASSUME NEW n \in Nat, NEW obs, DOMAIN obs = 1..n, NEW interval
    PROVE  \E groups : /\ groups[0] = <<>>
                       /\ \A k \in 1..n : groups[k] = Joined(groups[k - 1], obs[k], interval)
                       /\ Grouped(obs, interval) = groups[n]
  <1> DEFINE it == CHOOSE f : GroupsOf(f, 1..n, obs, interval)
             groups == [k \in 0..n |-> it[1..k]]
  <1>1. GroupsOf(it, 1..n, obs, interval)
    BY GroupsExist
  <1>2. Grouped(obs, interval) = it[1..n]
    BY GroupedIs
  <1> HIDE DEF it
  <1>3. groups[0] = <<>>
    <2>1. 1..0 = {} /\ {} \in SUBSET (1..n) /\ 0 \in 0..n
      OBVIOUS
    <2>2. it[{}] = <<>>
      BY <1>1, <2>1 DEF GroupsOf
    <2> QED
      BY <2>1, <2>2
  <1>4. ASSUME NEW k \in 1..n PROVE groups[k] = Joined(groups[k - 1], obs[k], interval)
    <2>1. Max(1..k) = k
      <3>1. 1..k \in SUBSET Nat /\ k \in 1..k /\ \A x \in 1..k : x <= k
        OBVIOUS
      <3> QED
        BY <3>1, MaxIs
    <2>2. 1..k # {} /\ (1..k) \ {k} = 1..k - 1 /\ 1..k \in SUBSET (1..n)
      OBVIOUS
    <2>3. it[1..k] = Joined(it[(1..k) \ {k}], obs[k], interval)
      BY <1>1, <2>1, <2>2 DEF GroupsOf
    <2>4. groups[k] = it[1..k] /\ groups[k - 1] = it[1..k - 1]
      OBVIOUS
    <2> QED
      BY <2>2, <2>3, <2>4
  <1>5. groups[n] = it[1..n]
    OBVIOUS
  <1> HIDE DEF groups
  <1> QED
    BY <1>2, <1>3, <1>4, <1>5

\* Group j is about the observations lo[j]..hi[j] of the first k, of the kind O: each
\* repeats the one before, and the first one of the next group does not.
Cover(groups, lo, hi, k, obs, O, interval) ==
    /\ groups \in Seq(Seq(O))
    /\ lo \in [1..Len(groups) -> 1..k] /\ hi \in [1..Len(groups) -> 1..k]
    /\ Len(groups) = 0 <=> k = 0
    /\ \A j \in 1..Len(groups) :
          /\ groups[j] # <<>> /\ Head(groups[j]) = obs[lo[j]] /\ Last(groups[j]) = obs[hi[j]]
          /\ lo[j] <= hi[j]
          /\ \A i \in lo[j]..hi[j] - 1 : Repeats(obs[i + 1], obs[i], interval)
    /\ Len(groups) > 0 => lo[1] = 1 /\ hi[Len(groups)] = k
    /\ \A j \in 2..Len(groups) : lo[j] = hi[j - 1] + 1 /\ ~Repeats(obs[lo[j]], obs[hi[j - 1]], interval)

\* The last group with one more observation.
LEMMA LongerGroup ==
    ASSUME NEW O, NEW groups \in Seq(Seq(O)), groups # <<>>, Last(groups) # <<>>, NEW o \in O
    PROVE  /\ Longer(groups, o) \in Seq(Seq(O)) /\ Len(Longer(groups, o)) = Len(groups)
           /\ \A j \in 1..Len(groups) - 1 : Longer(groups, o)[j] = groups[j]
           /\ Longer(groups, o)[Len(groups)] # <<>>
           /\ Head(Longer(groups, o)[Len(groups)]) = Head(Last(groups))
           /\ Last(Longer(groups, o)[Len(groups)]) = o
  <1> DEFINE L == Len(groups)
             front == SubSeq(groups, 1, L - 1)
             last == groups[L]
             longer == Append(last, o)
             new == front \o <<longer>>
  <1>1. L \in Nat /\ L >= 1
    OBVIOUS
  <1>2. last \in Seq(O) /\ last # <<>>
    BY <1>1 DEF Last
  <1>3. front \in Seq(Seq(O)) /\ Len(front) = L - 1 /\ \A j \in 1..L - 1 : front[j] = groups[j]
    <2>1. \A i \in 1..L - 1 : groups[i] \in Seq(O)
      BY <1>1
    <2>2. /\ front \in Seq(Seq(O)) /\ Len(front) = IF 1 <= L - 1 THEN L - 1 - 1 + 1 ELSE 0
          /\ \A i \in 1..L - 1 - 1 + 1 : front[i] = groups[1 + i - 1]
      <3>1. 1 \in Int /\ L - 1 \in Int
        BY <1>1
      <3> QED
        BY <2>1, <3>1, SubSeqProperties
    <2> HIDE DEF front, L
    <2>3. 1..L - 1 - 1 + 1 = 1..L - 1 /\ \A i \in 1..L - 1 : 1 + i - 1 = i
      BY <1>1
    <2> QED
      BY <1>1, <2>2, <2>3
  <1>4. /\ longer \in Seq(O) /\ longer # <<>> /\ Len(longer) = Len(last) + 1 /\ longer[Len(last) + 1] = o
        /\ longer[1] = last[1] /\ Len(last) \in Nat /\ Len(last) >= 1
    <2>1. Len(last) \in Nat /\ Len(last) >= 1
      BY <1>2
    <2> HIDE DEF last
    <2> QED
      BY <1>2, <2>1, AppendProperties
  <1>5. longer # <<>> /\ Head(longer) = Head(last) /\ Last(longer) = o
    <2> HIDE DEF longer, last
    <2>1. Head(longer) = longer[1] /\ Head(last) = last[1]
      BY <1>2, <1>4
    <2>2. Len(longer) = Len(last) + 1 /\ longer[Len(last) + 1] = o
      BY <1>4
    <2> QED
      BY <1>4, <2>1, <2>2 DEF Last
  <1> HIDE DEF front, longer
  <1>6. <<longer>> \in Seq(Seq(O)) /\ Len(<<longer>>) = 1 /\ <<longer>>[1] = longer
    BY <1>4
  <1>7. /\ new \in Seq(Seq(O)) /\ Len(new) = L
        /\ \A j \in 1..L - 1 : new[j] = front[j]
        /\ new[L] = longer
    <2>1. /\ new \in Seq(Seq(O)) /\ Len(new) = L - 1 + 1
          /\ \A j \in 1..L - 1 + 1 : new[j] = IF j <= L - 1 THEN front[j] ELSE <<longer>>[j - (L - 1)]
      BY <1>3, <1>6, ConcatProperties
    <2> HIDE DEF new, L
    <2> QED
      BY <1>1, <1>6, <2>1
  <1>8. Longer(groups, o) = new
    BY DEF Longer, Front, Last, front, longer
  <1> HIDE DEF new
  <1>9. Head(last) = Head(Last(groups))
    BY DEF Last
  <1> QED
    BY <1>3, <1>5, <1>7, <1>8, <1>9

\* One more group.
LEMMA OneMoreGroup ==
    ASSUME NEW O, NEW groups \in Seq(Seq(O)), NEW o \in O
    PROVE  LET new == Append(groups, <<o>>)
           IN  /\ new \in Seq(Seq(O)) /\ Len(new) = Len(groups) + 1
               /\ \A j \in 1..Len(groups) : new[j] = groups[j]
               /\ new[Len(groups) + 1] # <<>>
               /\ Head(new[Len(groups) + 1]) = o
               /\ Last(new[Len(groups) + 1]) = o
  <1>1. <<o>> \in Seq(O) /\ <<o>> # <<>> /\ Head(<<o>>) = o /\ Last(<<o>>) = o
    BY DEF Last
  <1> HIDE DEF Last
  <1>2. /\ Append(groups, <<o>>) \in Seq(Seq(O)) /\ Len(Append(groups, <<o>>)) = Len(groups) + 1
        /\ \A j \in 1..Len(groups) : Append(groups, <<o>>)[j] = groups[j]
        /\ Append(groups, <<o>>)[Len(groups) + 1] = <<o>>
    BY <1>1, AppendProperties
  <1> QED
    BY <1>1, <1>2

\* One more observation, one more step of the fold.
LEMMA CoverGrows ==
    ASSUME NEW interval, NEW O, NEW n \in Nat, NEW obs \in [1..n -> O], NEW k \in 1..n, NEW groups,
           NEW lo, NEW hi, Cover(groups, lo, hi, k - 1, obs, O, interval)
    PROVE  \E l, h : Cover(Joined(groups, obs[k], interval), l, h, k, obs, O, interval)
  <1> DEFINE L == Len(groups)
             o == obs[k]
             new == Joined(groups, o, interval)
  <1>1. /\ groups \in Seq(Seq(O)) /\ L \in Nat /\ o \in O /\ k \in Nat /\ k >= 1
    BY DEF Cover
  <1>2. /\ lo \in [1..L -> 1..k - 1] /\ hi \in [1..L -> 1..k - 1]
        /\ L = 0 <=> k - 1 = 0
        /\ \A j \in 1..L : /\ groups[j] # <<>> /\ Head(groups[j]) = obs[lo[j]] /\ Last(groups[j]) = obs[hi[j]]
                           /\ lo[j] <= hi[j]
                           /\ \A i \in lo[j]..hi[j] - 1 : Repeats(obs[i + 1], obs[i], interval)
        /\ L > 0 => lo[1] = 1 /\ hi[L] = k - 1
        /\ \A j \in 2..L : lo[j] = hi[j - 1] + 1 /\ ~Repeats(obs[lo[j]], obs[hi[j - 1]], interval)
    BY DEF Cover
  <1>3. L > 0 => groups # <<>> /\ Last(groups) = groups[L] /\ Last(Last(groups)) = obs[k - 1]
                 /\ Last(groups) # <<>>
    <2>1. L > 0 => L \in 1..L /\ Last(groups) = groups[L]
      BY <1>1 DEF Last
    <2>2. L > 0 => groups # <<>>
      OBVIOUS
    <2>3. L > 0 => groups[L] # <<>> /\ Last(groups[L]) = obs[hi[L]] /\ hi[L] = k - 1
      BY <1>2, <2>1
    <2> QED
      BY <2>1, <2>2, <2>3
  <1>4. CASE L > 0 /\ Repeats(o, obs[k - 1], interval)
    <2> DEFINE h == [hi EXCEPT ![L] = k]
    <2>1. new = Longer(groups, o)
      BY <1>3, <1>4 DEF Joined
    <2>2. /\ new \in Seq(Seq(O)) /\ Len(new) = L
          /\ \A j \in 1..L - 1 : new[j] = groups[j]
          /\ new[L] # <<>> /\ Head(new[L]) = Head(groups[L]) /\ Last(new[L]) = o
      <3>1. groups # <<>> /\ Last(groups) # <<>> /\ Last(groups) = groups[L]
        BY <1>3, <1>4
      <3> DEFINE long == Longer(groups, o)
      <3>2. /\ long \in Seq(Seq(O)) /\ Len(long) = L
            /\ \A j \in 1..L - 1 : long[j] = groups[j]
            /\ long[L] # <<>> /\ Head(long[L]) = Head(Last(groups)) /\ Last(long[L]) = o
        BY <1>1, <3>1, LongerGroup
      <3> HIDE DEF long
      <3>3. new = long
        BY <2>1 DEF long
      <3> QED
        BY <3>1, <3>2, <3>3
    <2>3. /\ lo \in [1..L -> 1..k] /\ h \in [1..L -> 1..k] /\ h[L] = k
          /\ \A j \in 1..L - 1 : h[j] = hi[j]
      <3> HIDE DEF L
      <3>1. 1..k - 1 \in SUBSET (1..k) /\ k \in 1..k /\ L \in 1..L
        BY <1>1, <1>4
      <3>2. \A j \in 1..L - 1 : j \in 1..L /\ j # L
        BY <1>1
      <3> QED
        BY <1>2, <3>1, <3>2
    <2> HIDE DEF new, h, o, L
    <2>4. ASSUME NEW j \in 1..L
          PROVE  /\ new[j] # <<>> /\ Head(new[j]) = obs[lo[j]] /\ Last(new[j]) = obs[h[j]]
                 /\ lo[j] <= h[j]
                 /\ \A i \in lo[j]..h[j] - 1 : Repeats(obs[i + 1], obs[i], interval)
      <3>1. CASE j < L
        <4>1. j \in 1..L - 1
          BY <1>1, <3>1
        <4> QED
          BY <4>1, <1>2, <2>2, <2>3
      <3>2. CASE j = L
        <4>1. hi[L] = k - 1 /\ lo[L] <= k - 1 /\ lo[L] \in 1..k - 1
          BY <1>2, <1>4, <3>2
        <4>2. \A i \in lo[L]..k - 1 : i = k - 1 \/ i \in lo[L]..k - 1 - 1
          BY <1>1, <4>1
        <4>3. \A i \in lo[L]..k - 1 - 1 : Repeats(obs[i + 1], obs[i], interval)
          BY <1>2, <3>2, <4>1
        <4>4. Repeats(obs[k - 1 + 1], obs[k - 1], interval)
          <5>1. k - 1 + 1 = k
            BY <1>1
          <5> QED
            BY <5>1, <1>4 DEF o
        <4>5. \A i \in lo[L]..h[L] - 1 : Repeats(obs[i + 1], obs[i], interval)
          BY <2>3, <4>2, <4>3, <4>4
        <4>6. lo[L] <= h[L]
          BY <1>1, <2>3, <4>1
        <4>7. Head(new[L]) = obs[lo[L]] /\ Last(new[L]) = obs[h[L]]
          BY <1>2, <2>2, <2>3, <3>2 DEF o
        <4> QED
          BY <2>2, <3>2, <4>5, <4>6, <4>7
      <3> QED
        BY <1>1, <3>1, <3>2
    <2>5. \A j \in 2..L : lo[j] = h[j - 1] + 1 /\ ~Repeats(obs[lo[j]], obs[h[j - 1]], interval)
      <3>1. \A j \in 2..L : j - 1 \in 1..L - 1
        BY <1>1
      <3> QED
        BY <3>1, <1>2, <2>3
    <2>6. lo[1] = 1 /\ k # 0
      BY <1>1, <1>2, <1>4
    <2>7. Cover(new, lo, h, k, obs, O, interval)
      <3>1. L # 0 /\ Len(new) = L
        BY <1>1, <1>4, <2>2
      <3> QED
        BY <3>1, <2>2, <2>3, <2>4, <2>5, <2>6 DEF Cover
    <2> QED
      BY <2>7 DEF new, o
  <1>5. CASE L = 0 \/ ~Repeats(o, obs[k - 1], interval)
    <2> DEFINE l == [j \in 1..L + 1 |-> IF j <= L THEN lo[j] ELSE k]
               h == [j \in 1..L + 1 |-> IF j <= L THEN hi[j] ELSE k]
    <2>1. new = Append(groups, <<o>>)
      <3>1. L = 0 => groups = <<>>
        BY <1>1
      <3>2. L # 0 => L > 0
        BY <1>1
      <3> QED
        BY <1>3, <1>5, <3>1, <3>2 DEF Joined
    <2>2. /\ new \in Seq(Seq(O)) /\ Len(new) = L + 1
          /\ \A j \in 1..L : new[j] = groups[j]
          /\ new[L + 1] # <<>> /\ Head(new[L + 1]) = o /\ Last(new[L + 1]) = o
      BY <1>1, <2>1, OneMoreGroup
    <2>3. /\ l \in [1..L + 1 -> 1..k] /\ h \in [1..L + 1 -> 1..k] /\ l[L + 1] = k /\ h[L + 1] = k
          /\ \A j \in 1..L : l[j] = lo[j] /\ h[j] = hi[j]
      BY <1>1, <1>2
    <2> HIDE DEF new, h, l, o, L
    <2>4. ASSUME NEW j \in 1..L + 1
          PROVE  /\ new[j] # <<>> /\ Head(new[j]) = obs[l[j]] /\ Last(new[j]) = obs[h[j]]
                 /\ l[j] <= h[j]
                 /\ \A i \in l[j]..h[j] - 1 : Repeats(obs[i + 1], obs[i], interval)
      <3>1. CASE j <= L
        <4>1. j \in 1..L
          BY <1>1, <3>1
        <4> QED
          BY <4>1, <1>2, <2>2, <2>3
      <3>2. CASE j = L + 1
        <4>1. k <= k /\ k..k - 1 = {}
          BY <1>1
        <4> QED
          BY <2>2, <2>3, <3>2, <4>1 DEF o
      <3>3. j <= L \/ j = L + 1
        BY <1>1
      <3> QED
        BY <3>1, <3>2, <3>3, Zenon
    <2>5. ASSUME NEW j \in 2..L + 1
          PROVE  l[j] = h[j - 1] + 1 /\ ~Repeats(obs[l[j]], obs[h[j - 1]], interval)
      <3>1. CASE j <= L
        <4>1. j \in 2..L /\ j \in 1..L /\ j - 1 \in 1..L
          BY <1>1, <3>1
        <4> QED
          BY <4>1, <1>2, <2>3
      <3>2. CASE j = L + 1
        <4>1. L > 0 /\ j - 1 = L /\ L \in 1..L
          BY <1>1, <3>2
        <4>2. hi[L] = k - 1 /\ h[j - 1] = k - 1 /\ l[j] = k /\ k = k - 1 + 1
          BY <1>1, <1>2, <2>3, <3>2, <4>1
        <4> QED
          BY <1>5, <4>1, <4>2 DEF o
      <3> QED
        BY <1>1, <3>1, <3>2
    <2>6. l[1] = 1
      <3>1. CASE L = 0
        BY <1>1, <1>2, <2>3, <3>1
      <3>2. CASE L > 0
        <4>1. 1 \in 1..L
          BY <1>1, <3>2
        <4> QED
          BY <1>2, <2>3, <3>2, <4>1
      <3> QED
        BY <1>1, <3>1, <3>2
    <2>7. k # 0 /\ L + 1 # 0
      BY <1>1
    <2>8. Cover(new, l, h, k, obs, O, interval)
      BY <2>2, <2>3, <2>4, <2>5, <2>6, <2>7 DEF Cover
    <2> QED
      BY <2>8 DEF new, o
  <1> QED
    BY <1>1, <1>4, <1>5

\* The groups come in order, and between them they have every observation.
LEMMA CoverInOrder ==
    ASSUME NEW groups, NEW lo, NEW hi, NEW k \in Nat, NEW obs, NEW O, NEW interval,
           Cover(groups, lo, hi, k, obs, O, interval)
    PROVE  /\ \A i, j \in 1..Len(groups) : i < j => hi[i] < lo[j]
           /\ \A s \in 1..k : \E j \in 1..Len(groups) : s \in lo[j]..hi[j]
  <1> DEFINE M == Len(groups)
             F(j) == lo[j]
             L(j) == hi[j]
  <1>1. M \in Nat /\ \A j \in 1..M : F(j) \in 1..k /\ L(j) \in 1..k /\ F(j) <= L(j)
    <2>1. M \in Nat
      BY DEF Cover
    <2>2. ASSUME NEW j \in 1..M PROVE F(j) \in 1..k /\ L(j) \in 1..k /\ F(j) <= L(j)
      BY DEF Cover
    <2> QED
      BY <2>1, <2>2
  <1>2. \A j \in 2..M : F(j) = L(j - 1) + 1
    BY DEF Cover
  <1>3. M > 0 => F(1) = 1 /\ L(M) = k
    BY DEF Cover
  <1>4. M = 0 => k = 0
    BY DEF Cover
  <1> HIDE DEF M, F, L
  <1>5. ASSUME NEW i \in 1..M, NEW j \in 1..M, i < j PROVE L(i) < F(j)
    <2> DEFINE bad == {m \in i + 1..M : ~(L(i) < F(m))}
    <2>1. SUFFICES ASSUME bad # {} PROVE FALSE
      BY <1>1, <1>5
    <2>2. bad \in SUBSET Nat
      BY <1>1
    <2>3. PICK m \in bad : \A l \in bad : m <= l
      BY <2>1, <2>2, Least
    <2>4. m \in i + 1..M /\ ~(L(i) < F(m))
      BY <2>3
    <2>5. \A l \in i + 1..M : l < m => L(i) < F(l)
      BY <2>3, <2>4, <1>1
    <2> HIDE DEF bad
    <2>6. m \in 2..M /\ m - 1 \in 1..M /\ F(m) = L(m - 1) + 1
      BY <1>1, <1>2, <2>4
    <2>7. F(m - 1) \in Nat /\ L(m - 1) \in Nat /\ L(i) \in Nat /\ F(m - 1) <= L(m - 1)
      BY <1>1, <2>6
    <2>8. m = i + 1 \/ m - 1 \in i + 1..M
      BY <1>1, <2>4
    <2>9. m - 1 \in i + 1..M => L(i) < F(m - 1)
      BY <1>1, <2>4, <2>5
    <2> QED
      BY <1>1, <2>4, <2>6, <2>7, <2>8, <2>9
  <1>6. ASSUME NEW s \in 1..k PROVE \E j \in 1..M : s \in F(j)..L(j)
    <2> DEFINE reach == {m \in 1..M : L(m) >= s}
    <2>0. M > 0 /\ M \in 1..M
      BY <1>1, <1>4
    <2>1. M \in reach /\ reach \in SUBSET Nat
      BY <1>1, <1>3, <2>0
    <2> HIDE DEF reach
    <2>2. PICK j \in reach : \A i \in reach : j <= i
      BY <2>1, Least
    <2>3. j \in 1..M /\ L(j) >= s
      BY <2>2 DEF reach
    <2>4. j > 1 => ~(L(j - 1) >= s)
      BY <2>2, <2>3, <1>1 DEF reach
    <2>5. j > 1 => j - 1 \in 1..M /\ j \in 2..M /\ L(j - 1) \in Nat
      BY <1>1, <2>3
    <2>6. F(j) \in 1..k /\ L(j) \in 1..k
      BY <1>1, <2>3
    <2>7. F(j) <= s
      BY <1>1, <1>2, <1>3, <2>0, <2>3, <2>4, <2>5, <2>6
    <2> QED
      BY <2>3, <2>6, <2>7
  <1> QED
    BY <1>5, <1>6 DEF M, F, L

\* So it is with the groups of all observations.
LEMMA GroupsCover ==
    ASSUME NEW interval, NEW O, NEW n \in Nat, NEW obs \in [1..n -> O]
    PROVE  \E lo, hi : Cover(Grouped(obs, interval), lo, hi, n, obs, O, interval)
  <1>1. PICK groups : /\ groups[0] = <<>>
                      /\ \A k \in 1..n : groups[k] = Joined(groups[k - 1], obs[k], interval)
                      /\ Grouped(obs, interval) = groups[n]
    BY GroupedSteps
  <1> DEFINE Covered(k) == \E lo, hi : Cover(groups[k], lo, hi, k, obs, O, interval)
             missed == {k \in 0..n : ~Covered(k)}
  <1>2. Covered(0)
    <2> DEFINE nothing == [j \in 1..0 |-> 0]
    <2>1. <<>> \in Seq(Seq(O)) /\ Len(<<>>) = 0 /\ nothing \in [1..0 -> 1..0] /\ 1..0 = {} /\ 2..0 = {}
      OBVIOUS
    <2> HIDE DEF nothing
    <2>2. Cover(<<>>, nothing, nothing, 0, obs, O, interval)
      BY <2>1 DEF Cover
    <2> QED
      BY <1>1, <2>2
  <1>3. ASSUME NEW k \in 1..n, Covered(k - 1) PROVE Covered(k)
    <2>1. PICK lo, hi : Cover(groups[k - 1], lo, hi, k - 1, obs, O, interval)
      BY <1>3
    <2>2. \E l, h : Cover(Joined(groups[k - 1], obs[k], interval), l, h, k, obs, O, interval)
      BY <2>1, CoverGrows
    <2> QED
      BY <1>1, <2>2
  <1>4. missed = {}
    <2>1. SUFFICES ASSUME missed # {} PROVE FALSE
      OBVIOUS
    <2>2. missed \in SUBSET Nat
      OBVIOUS
    <2> HIDE DEF Covered
    <2>3. PICK k \in missed : \A j \in missed : k <= j
      <3> HIDE DEF missed
      <3> QED
        BY <2>1, <2>2, Least
    <2>4. k # 0 /\ k \in 0..n /\ ~Covered(k)
      BY <1>2
    <2>5. k \in 1..n /\ k - 1 \in 0..n /\ ~(k <= k - 1)
      BY <2>4
    <2>6. k - 1 \notin missed
      BY <2>3, <2>5
    <2> QED
      BY <1>3, <2>4, <2>5, <2>6
  <1> HIDE DEF Covered
  <1>5. Covered(n)
    BY <1>4
  <1> QED
    BY <1>1, <1>5 DEF Covered

-----------------------------------------------------------------------------
(* Frames of the observations and of the segments.                         *)

\* The frames that leave an observation.
Shown(reading, interval, duration) ==
    {f \in DOMAIN reading : f * interval < duration /\ reading[f] # Blank}

Observation(reading, interval, f) == [time |-> f * interval, text |-> reading[f]]

\* What OCR observes in the frames 0..n: the frames with a text, one observation each.
LEMMA ObservedIsSampled ==
    ASSUME NEW interval \in Nat \ {0}, NEW n \in Nat, NEW reading, DOMAIN reading = 0..n
    PROVE  Sampled(Observed(reading, interval))
  <1> DEFINE S == {g \in 0..n : reading[g] # Blank}
             T == Observed(reading, interval)
             f == [g \in S |-> Observation(reading, interval, g)]
  <1>1. T = {Observation(reading, interval, g) : g \in S}
    BY DEF Observed, Observation
  <1>2. IsFiniteSet(S)
    <2>1. IsFiniteSet(0..n) /\ S \in SUBSET (0..n)
      BY FS_Interval
    <2> HIDE DEF S
    <2> QED
      BY <2>1, FS_Subset
  <1> HIDE DEF T
  <1>3. f \in Surjection(S, T)
    BY <1>1 DEF Surjection
  <1>4. IsFiniteSet(T)
    <2> HIDE DEF f, S
    <2> QED
      BY <1>2, <1>3, FS_Surjection
  <1>5. ASSUME NEW o \in T
        PROVE  \E g \in S : o = Observation(reading, interval, g) /\ o.time = g * interval /\ o.time \in Nat
    <2>1. PICK g \in S : o = Observation(reading, interval, g)
      BY <1>1
    <2>2. g \in Nat
      OBVIOUS
    <2>3. g * interval \in Nat
      BY <2>2, FrameTimes
    <2> QED
      BY <2>1, <2>3 DEF Observation
  <1>6. ASSUME NEW o \in T, NEW p \in T, o.time = p.time PROVE o = p
    <2>1. PICK g \in S : o = Observation(reading, interval, g) /\ o.time = g * interval
      BY <1>5
    <2>2. PICK h \in S : p = Observation(reading, interval, h) /\ p.time = h * interval
      BY <1>5
    <2>3. g \in Nat /\ h \in Nat /\ g * interval \in Nat /\ h * interval \in Nat
      BY FrameTimes
    <2>4. g * interval <= h * interval /\ h * interval <= g * interval
      BY <1>6, <2>1, <2>2, <2>3
    <2>5. g <= h /\ h <= g
      BY <2>3, <2>4, FrameTimes
    <2>6. g = h
      BY <2>3, <2>5
    <2> QED
      BY <2>1, <2>2, <2>6
  <1> QED
    BY <1>4, <1>5, <1>6 DEF Sampled, T

\* The observations that are kept are those of the shown frames, in their order.
InFrames(obs, m, frame, reading, interval, duration) ==
    /\ obs \in [1..m -> Observed(reading, interval)]
    /\ frame \in [1..m -> Shown(reading, interval, duration)]
    /\ \A i \in 1..m : obs[i] = Observation(reading, interval, frame[i])
    /\ \A i, j \in 1..m : i < j => frame[i] < frame[j]
    /\ \A f \in Shown(reading, interval, duration) : \E i \in 1..m : frame[i] = f

\* Such are those that Cleaned keeps.
LEMMA KeptFrames ==
    ASSUME NEW interval \in Nat \ {0}, NEW n \in Nat, NEW reading, DOMAIN reading = 0..n, NEW duration \in Nat
    PROVE  \E m \in Nat : \E frame :
              InFrames(Cleaned(Observed(reading, interval), duration), m, frame, reading, interval, duration)
  <1> DEFINE all == Observed(reading, interval)
             kept == {o \in all : o.time < duration}
             obs == Cleaned(all, duration)
             shown == Shown(reading, interval, duration)
             Obs(f) == Observation(reading, interval, f)
  <1>0. PICK m \in Nat : InOrder(obs, m, kept)
    <2>1. Sampled(all)
      BY ObservedIsSampled
    <2> HIDE DEF all
    <2> QED
      BY <2>1, CleanedInOrder
  <1>1. /\ DOMAIN obs = 1..m
        /\ \A i \in 1..m : obs[i] \in kept
        /\ \A i, j \in 1..m : i < j => obs[i].time < obs[j].time
        /\ \A o \in kept : \E i \in 1..m : obs[i] = o
    BY <1>0 DEF InOrder
  <1>2. obs = [i \in 1..m |-> obs[i]]
    <2> DEFINE Value(i) == CHOOSE o \in kept : Cardinality({p \in kept : p.time < o.time}) = i - 1
               c == Cardinality(kept)
    <2>1. obs = [i \in 1..c |-> Value(i)]
      BY DEF Cleaned
    <2>2. obs = [i \in DOMAIN obs |-> obs[i]]
      <3> HIDE DEF obs, Value, c
      <3> QED
        BY <2>1
    <2> QED
      BY <1>1, <2>2
  <1>3. kept = {Obs(f) : f \in shown}
    <2>1. ASSUME NEW f \in DOMAIN reading PROVE Obs(f).time = f * interval
      BY DEF Observation
    <2>2. all = {Obs(f) : f \in {g \in DOMAIN reading : reading[g] # Blank}}
      BY DEF Observed, Observation
    <2> QED
      BY <2>1, <2>2 DEF Shown
  <1>4. \A f \in shown : f \in Nat /\ f * interval \in Nat /\ Obs(f).time = f * interval
    <2>1. \A f \in shown : f \in Nat
      BY DEF Shown
    <2> QED
      BY <2>1, FrameTimes DEF Observation
  <1> DEFINE frame == [i \in 1..m |-> CHOOSE f \in shown : obs[i] = Obs(f)]
  <1>5. \A i \in 1..m : frame[i] \in shown /\ obs[i] = Obs(frame[i])
    <2> HIDE DEF obs, shown, Obs
    <2>1. ASSUME NEW i \in 1..m PROVE \E f \in shown : obs[i] = Obs(f)
      BY <1>1, <1>3
    <2> QED
      BY <2>1
  <1>6. frame \in [1..m -> shown]
    BY <1>5
  <1>7. obs \in [1..m -> all]
    <2> HIDE DEF obs
    <2> QED
      BY <1>1, <1>2
  <1> HIDE DEF frame, obs, shown, Obs, all, kept
  <1>8. ASSUME NEW i \in 1..m, NEW j \in 1..m, i < j PROVE frame[i] < frame[j]
    <2> DEFINE f == frame[i]
               g == frame[j]
    <2>1. f \in Nat /\ g \in Nat /\ f * interval \in Nat /\ g * interval \in Nat /\ f * interval < g * interval
      <3>1. f \in shown /\ g \in shown /\ obs[i] = Obs(f) /\ obs[j] = Obs(g) /\ obs[i].time < obs[j].time
        BY <1>1, <1>5, <1>8
      <3> QED
        BY <1>4, <3>1
    <2> HIDE DEF f, g
    <2>2. ~(g <= f)
      BY <2>1, FrameTimes
    <2> QED
      BY <2>1, <2>2 DEF f, g
  <1>9. ASSUME NEW f \in shown PROVE \E i \in 1..m : frame[i] = f
    <2>1. PICK i \in 1..m : obs[i] = Obs(f)
      BY <1>1, <1>3
    <2>2. frame[i] \in shown /\ obs[i] = Obs(frame[i])
      BY <1>5
    <2> DEFINE g == frame[i]
    <2>3. f \in Nat /\ g \in Nat /\ f * interval = g * interval /\ f * interval \in Nat
      BY <1>4, <2>1, <2>2
    <2> HIDE DEF g
    <2>4. f <= g /\ g <= f
      BY <2>3, FrameTimes
    <2>5. f = g
      BY <2>3, <2>4
    <2> QED
      BY <2>5 DEF g
  <1>10. InFrames(obs, m, frame, reading, interval, duration)
    BY <1>5, <1>6, <1>7, <1>8, <1>9 DEF InFrames, shown, Obs, all
  <1> QED
    BY <1>10 DEF obs, all

\* Segment j shows the frames first[j]..last[j], which have its text or are a single
\* blank frame in it; the segments come in order and show every frame with a text,
\* and one that goes on with the text of another has at least a blank frame and
\* another frame between them.
Spans(segments, K, first, last, reading, interval, duration) ==
    LET shown == Shown(reading, interval, duration)
    IN  /\ DOMAIN segments = 1..K
        /\ first \in [1..K -> shown] /\ last \in [1..K -> shown]
        /\ \A j \in 1..K :
              LET end == last[j] * interval + interval
              IN  /\ first[j] <= last[j]
                  /\ segments[j] = [start |-> first[j] * interval,
                                       end   |-> IF end < duration THEN end ELSE duration,
                                    text  |-> reading[first[j]]]
        /\ \A j, k \in 1..K : j < k => last[j] < first[k]
        /\ \A f \in shown : \E j \in 1..K : f \in first[j]..last[j]
        /\ \A j \in 1..K : \A f \in first[j]..last[j] :
              IF f \in shown THEN reading[f] = reading[first[j]]
              ELSE /\ f - 1 \in shown /\ reading[f - 1] = reading[first[j]]
                   /\ f + 1 \in shown /\ reading[f + 1] = reading[first[j]]
        /\ \A j, k \in 1..K : j < k /\ reading[first[k]] = reading[last[j]] =>
              /\ first[k] # last[j] + 1
              /\ first[k] = last[j] + 2 => last[j] + 1 \in shown

\* When the observations of two frames belong together.
LEMMA RepeatsInFrames ==
    ASSUME NEW interval \in Nat \ {0}, NEW reading, NEW f \in Nat, NEW g \in Nat, f <= g
    PROVE  Repeats(Observation(reading, interval, g), Observation(reading, interval, f), interval)
              <=> reading[g] = reading[f] /\ g <= f + 2
  <1>1. g * interval - f * interval <= interval * MaxGapSamples <=> g <= f + 2
    BY FrameTimes
  <1> QED
    BY <1>1 DEF Repeats, Observation

\* The segments of the groups.
LEMMA CoverSpans ==
    ASSUME NEW interval \in Nat \ {0}, NEW n \in Nat, NEW reading, DOMAIN reading = 0..n, NEW duration \in Nat,
           NEW m \in Nat, NEW obs, NEW frame, InFrames(obs, m, frame, reading, interval, duration),
           NEW groups, NEW lo, NEW hi,
           Cover(groups, lo, hi, m, obs, Observed(reading, interval), interval)
    PROVE  \E first, last :
              Spans([i \in DOMAIN groups |-> Segment(groups[i], interval, duration)], Len(groups), first, last,
                    reading, interval, duration)
  <1> DEFINE shown == Shown(reading, interval, duration)
             K == Len(groups)
             Obs(f) == Observation(reading, interval, f)
             first == [j \in 1..K |-> frame[lo[j]]]
             last == [j \in 1..K |-> frame[hi[j]]]
             segments == [i \in DOMAIN groups |-> Segment(groups[i], interval, duration)]
  <1>1. /\ \A i \in 1..m : frame[i] \in shown /\ frame[i] \in Nat /\ obs[i] = Obs(frame[i])
        /\ \A i, j \in 1..m : i < j => frame[i] < frame[j]
        /\ \A f \in shown : \E i \in 1..m : frame[i] = f
        /\ \A f \in shown : f \in Nat
    <2>1. \A f \in shown : f \in Nat
      BY DEF Shown
    <2> HIDE DEF shown, Obs
    <2> QED
      BY <2>1 DEF InFrames, shown, Obs
  <1>2. /\ K \in Nat /\ DOMAIN groups = 1..K
        /\ \A j \in 1..K : /\ lo[j] \in 1..m /\ hi[j] \in 1..m /\ lo[j] <= hi[j]
                           /\ Head(groups[j]) = obs[lo[j]] /\ Last(groups[j]) = obs[hi[j]]
                           /\ \A i \in lo[j]..hi[j] - 1 : Repeats(obs[i + 1], obs[i], interval)
        /\ \A j \in 2..K : lo[j] = hi[j - 1] + 1 /\ ~Repeats(obs[lo[j]], obs[hi[j - 1]], interval)
    <2>1. groups \in Seq(Seq(Observed(reading, interval)))
      BY DEF Cover
    <2>2. K \in Nat /\ DOMAIN groups = 1..K
      BY <2>1
    <2> QED
      BY <2>2 DEF Cover
  <1>3. /\ \A i, j \in 1..K : i < j => hi[i] < lo[j]
        /\ \A s \in 1..m : \E j \in 1..K : s \in lo[j]..hi[j]
    BY CoverInOrder
  <1>4. \A j \in 1..K : first[j] = frame[lo[j]] /\ last[j] = frame[hi[j]]
    OBVIOUS
  <1>5. first \in [1..K -> shown] /\ last \in [1..K -> shown]
    BY <1>1, <1>2
  <1>6. DOMAIN segments = 1..K /\ \A j \in 1..K : segments[j] = Segment(groups[j], interval, duration)
    BY <1>2
  <1> HIDE DEF shown, K, Obs, first, last, segments
  \* Frames are in the order of their observations.
  <1>7. \A i, j \in 1..m : i <= j <=> frame[i] <= frame[j]
    <2>1. ASSUME NEW i \in 1..m, NEW j \in 1..m PROVE i <= j <=> frame[i] <= frame[j]
      <3>1. frame[i] \in Nat /\ frame[j] \in Nat
        BY <1>1
      <3>2. (i < j => frame[i] < frame[j]) /\ (j < i => frame[j] < frame[i])
        BY <1>1
      <3> QED
        BY <3>1, <3>2
    <2> QED
      BY <2>1
  \* Two observations in one group, one after the other.
  <1>8. ASSUME NEW j \in 1..K, NEW i \in lo[j]..hi[j] - 1
        PROVE  /\ i \in 1..m /\ i + 1 \in 1..m /\ frame[i] < frame[i + 1]
               /\ reading[frame[i + 1]] = reading[frame[i]] /\ frame[i + 1] <= frame[i] + 2
    <2>1. i \in 1..m /\ i + 1 \in 1..m
      BY <1>2
    <2>2. /\ frame[i] \in Nat /\ frame[i + 1] \in Nat /\ frame[i] < frame[i + 1]
          /\ obs[i] = Obs(frame[i]) /\ obs[i + 1] = Obs(frame[i + 1])
      BY <1>1, <2>1
    <2>3. Repeats(Obs(frame[i + 1]), Obs(frame[i]), interval)
      BY <1>2, <2>2
    <2> DEFINE f == frame[i]
               g == frame[i + 1]
    <2>4. f \in Nat /\ g \in Nat /\ f <= g /\ Repeats(Obs(g), Obs(f), interval)
      BY <2>2, <2>3
    <2> HIDE DEF f, g
    <2>5. reading[g] = reading[f] /\ g <= f + 2
      BY <2>4, RepeatsInFrames DEF Obs
    <2> QED
      BY <2>1, <2>2, <2>5 DEF f, g
  \* All of a group has one text.
  <1>9. ASSUME NEW j \in 1..K, NEW i \in lo[j]..hi[j] PROVE reading[frame[i]] = reading[first[j]]
    <2> DEFINE bad == {s \in lo[j]..hi[j] : reading[frame[s]] # reading[first[j]]}
    <2>1. SUFFICES ASSUME bad # {} PROVE FALSE
      OBVIOUS
    <2>2. lo[j] \in 1..m /\ hi[j] \in 1..m /\ bad \in SUBSET Nat
      BY <1>2
    <2>3. PICK s \in bad : \A r \in bad : s <= r
      <3> HIDE DEF bad
      <3> QED
        BY <2>1, <2>2, Least
    <2>4. s # lo[j]
      BY <1>4
    <2>5. s - 1 \in lo[j]..hi[j] - 1 /\ s - 1 \in lo[j]..hi[j] /\ ~(s <= s - 1) /\ s - 1 + 1 = s
      BY <2>2, <2>4
    <2>6. s - 1 \notin bad
      BY <2>3, <2>5
    <2>7. reading[frame[s - 1]] = reading[first[j]]
      BY <2>5, <2>6
    <2>8. reading[frame[s]] = reading[frame[s - 1]]
      BY <1>8, <2>5
    <2> QED
      BY <2>7, <2>8
  \* Which observations are of a segment's frames.
  <1>10. ASSUME NEW j \in 1..K, NEW i \in 1..m PROVE i \in lo[j]..hi[j] <=> frame[i] \in first[j]..last[j]
    <2>1. lo[j] \in 1..m /\ hi[j] \in 1..m /\ first[j] = frame[lo[j]] /\ last[j] = frame[hi[j]]
      BY <1>2, <1>4
    <2>2. frame[i] \in Nat /\ first[j] \in Nat /\ last[j] \in Nat
      BY <1>1, <2>1
    <2>3. (lo[j] <= i <=> first[j] <= frame[i]) /\ (i <= hi[j] <=> frame[i] <= last[j])
      BY <1>7, <2>1
    <2> QED
      BY <2>1, <2>2, <2>3
  \* The observations at the ends of a group.
  <1>11. \A j \in 1..K : obs[lo[j]] = Obs(first[j]) /\ obs[hi[j]] = Obs(last[j])
    <2>1. ASSUME NEW j \in 1..K PROVE obs[lo[j]] = Obs(first[j]) /\ obs[hi[j]] = Obs(last[j])
      <3>1. lo[j] \in 1..m /\ hi[j] \in 1..m /\ first[j] = frame[lo[j]] /\ last[j] = frame[hi[j]]
        BY <1>2, <1>4
      <3> QED
        BY <1>1, <3>1
    <2> QED
      BY <2>1
  <1>12. ASSUME NEW j \in 1..K
         PROVE  LET end == last[j] * interval + interval
                IN  /\ first[j] <= last[j]
                    /\ segments[j] = [start |-> first[j] * interval,
                                      end   |-> IF end < duration THEN end ELSE duration,
                                      text  |-> reading[first[j]]]
    <2>1. Head(groups[j]) = Obs(first[j]) /\ Last(groups[j]) = Obs(last[j])
      BY <1>11, <1>2
    <2>2. segments[j] = Segment(groups[j], interval, duration)
      BY <1>6
    <2>3. first[j] <= last[j]
      BY <1>2, <1>4, <1>7
    <2> HIDE DEF Last
    <2> QED
      BY <2>1, <2>2, <2>3 DEF Segment, Obs, Observation
  <1>13. ASSUME NEW j \in 1..K, NEW k \in 1..K, j < k PROVE last[j] < first[k]
    <2>1. hi[j] < lo[k] /\ hi[j] \in 1..m /\ lo[k] \in 1..m
      BY <1>2, <1>3, <1>13
    <2> QED
      BY <1>1, <1>4, <2>1
  <1>14. ASSUME NEW f \in shown PROVE \E j \in 1..K : f \in first[j]..last[j]
    <2>1. PICK i \in 1..m : frame[i] = f
      BY <1>1
    <2>2. PICK j \in 1..K : i \in lo[j]..hi[j]
      BY <1>3
    <2> QED
      BY <1>10, <2>1, <2>2
  <1>15. ASSUME NEW j \in 1..K, NEW f \in first[j]..last[j], f \in shown PROVE reading[f] = reading[first[j]]
    <2>1. PICK i \in 1..m : frame[i] = f
      BY <1>1, <1>15
    <2> QED
      BY <1>9, <1>10, <2>1
  <1>16. ASSUME NEW j \in 1..K, NEW f \in first[j]..last[j], f \notin shown
         PROVE  /\ f - 1 \in shown /\ reading[f - 1] = reading[first[j]]
                /\ f + 1 \in shown /\ reading[f + 1] = reading[first[j]]
    <2> DEFINE before == {i \in lo[j]..hi[j] : frame[i] < f}
    <2>1. /\ lo[j] \in 1..m /\ hi[j] \in 1..m /\ lo[j] <= hi[j] /\ first[j] = frame[lo[j]] /\ last[j] = frame[hi[j]]
          /\ frame[lo[j]] \in shown /\ frame[hi[j]] \in shown /\ frame[lo[j]] \in Nat /\ frame[hi[j]] \in Nat
      BY <1>1, <1>2, <1>4
    <2>2. f \in Nat /\ frame[lo[j]] < f /\ f < frame[hi[j]]
      BY <2>1, <1>16
    <2>3. lo[j] \in before /\ before \in SUBSET Nat /\ hi[j] \in Nat /\ \A i \in before : i <= hi[j]
      BY <2>1, <2>2
    <2> HIDE DEF before
    <2>4. PICK i \in before : \A r \in before : r <= i
      BY <2>3, Greatest
    <2>5. i \in lo[j]..hi[j] /\ frame[i] < f
      BY <2>4 DEF before
    <2>6. i \in lo[j]..hi[j] - 1
      <3>1. i # hi[j]
        BY <2>1, <2>2, <2>5
      <3> QED
        BY <2>1, <2>5, <3>1
    <2>7. /\ i \in 1..m /\ i + 1 \in 1..m /\ frame[i] < frame[i + 1]
          /\ reading[frame[i + 1]] = reading[frame[i]] /\ frame[i + 1] <= frame[i] + 2
      BY <1>8, <2>6
    <2>8. i + 1 \in lo[j]..hi[j] /\ ~(i + 1 <= i)
      BY <2>1, <2>6
    <2>9. ~(frame[i + 1] < f)
      BY <2>4, <2>8 DEF before
    <2>10. frame[i] \in shown /\ frame[i + 1] \in shown /\ frame[i] \in Nat /\ frame[i + 1] \in Nat
      BY <1>1, <2>7
    <2>11. frame[i + 1] # f
      BY <1>16, <2>10
    <2>12. frame[i] = f - 1 /\ frame[i + 1] = f + 1
      BY <2>2, <2>5, <2>7, <2>9, <2>10, <2>11
    <2> QED
      BY <1>9, <2>5, <2>8, <2>10, <2>12
  <1>17. ASSUME NEW j \in 1..K, NEW k \in 1..K, j < k, reading[first[k]] = reading[last[j]]
         PROVE  /\ first[k] # last[j] + 1
                /\ first[k] = last[j] + 2 => last[j] + 1 \in shown
    <2>1. /\ last[j] \in Nat /\ first[k] \in Nat /\ last[j] \in shown /\ first[k] \in shown
          /\ last[j] < first[k]
      BY <1>1, <1>5, <1>13, <1>17
    <2>2. CASE k = j + 1
      <3>1. k \in 2..K /\ k - 1 = j
        BY <1>2, <2>2
      <3>2. ~Repeats(obs[lo[k]], obs[hi[j]], interval)
        BY <1>2, <3>1
      <3>3. obs[lo[k]] = Obs(first[k]) /\ obs[hi[j]] = Obs(last[j])
        BY <1>11
      <3> DEFINE f == last[j]
                 g == first[k]
      <3>4. f \in Nat /\ g \in Nat /\ f <= g /\ ~Repeats(Obs(g), Obs(f), interval) /\ reading[g] = reading[f]
        BY <1>17, <2>1, <3>2, <3>3
      <3> HIDE DEF f, g
      <3>5. ~(g <= f + 2)
        BY <3>4, RepeatsInFrames DEF Obs
      <3> QED
        BY <2>1, <3>5 DEF f, g
    <2>3. CASE k # j + 1
      <3>1. j + 1 \in 1..K /\ j < j + 1 /\ j + 1 < k
        BY <1>2, <1>17, <2>3
      <3>2. last[j] < first[j + 1] /\ last[j + 1] < first[k]
        BY <1>13, <3>1
      <3>3. /\ first[j + 1] \in Nat /\ last[j + 1] \in Nat /\ first[j + 1] <= last[j + 1]
            /\ first[j + 1] \in shown
        <4>1. lo[j + 1] \in 1..m /\ hi[j + 1] \in 1..m /\ lo[j + 1] <= hi[j + 1]
          BY <1>2, <3>1
        <4> QED
          BY <1>1, <1>4, <1>7, <3>1, <4>1
      <3>4. first[k] >= last[j] + 2 /\ (first[k] = last[j] + 2 => first[j + 1] = last[j] + 1)
        <4> DEFINE A == last[j]
                   B == first[j + 1]
                   C == last[j + 1]
                   D == first[k]
        <4>1. A \in Nat /\ B \in Nat /\ C \in Nat /\ D \in Nat /\ A < B /\ B <= C /\ C < D
          BY <2>1, <3>2, <3>3
        <4> HIDE DEF A, B, C, D
        <4>2. D >= A + 2 /\ (D = A + 2 => B = A + 1)
          BY <4>1
        <4> QED
          BY <4>2 DEF A, B, D
      <3> QED
        BY <2>1, <3>3, <3>4
    <2> QED
      BY <2>2, <2>3
  <1>18. Spans(segments, K, first, last, reading, interval, duration)
    BY <1>5, <1>6, <1>12, <1>13, <1>14, <1>15, <1>16, <1>17 DEF Spans, shown
  <1> QED
    BY <1>18 DEF segments, K

\* The frame sampled last before an instant.
LEMMA FrameAt ==
    ASSUME NEW interval \in Nat \ {0}, NEW t \in Nat, NEW g \in Nat
    PROVE  /\ g <= t \div interval <=> g * interval <= t
           /\ t \div interval <= g <=> t < g * interval + interval
  <1> DEFINE f == t \div interval
             F == f * interval
             G == g * interval
  <1>1. /\ f \in Nat /\ F \in Nat /\ G \in Nat /\ F <= t /\ t < F + interval
        /\ (f + 1) * interval = F + interval /\ (g + 1) * interval = G + interval
    <2>1. f \in Nat /\ F <= t /\ t < F + interval
      BY FrameTimes
    <2> HIDE DEF f
    <2> QED
      BY <2>1, FrameTimes
  <1> HIDE DEF f
  <1>2. (g <= f <=> G <= F) /\ (f <= g <=> F <= G)
    BY <1>1, FrameTimes
  <1>3. (f + 1 <= g <=> F + interval <= G) /\ (g + 1 <= f <=> G + interval <= F)
    <2>1. f + 1 \in Nat /\ g + 1 \in Nat
      BY <1>1
    <2>2. (f + 1 <= g <=> (f + 1) * interval <= G) /\ (g + 1 <= f <=> (g + 1) * interval <= F)
      BY <1>1, <2>1, FrameTimes
    <2> QED
      BY <1>1, <2>2
  <1> HIDE DEF F, G
  <1>4. (g <= f <=> G <= t) /\ (f <= g <=> t < G + interval)
    BY <1>1, <1>2, <1>3
  <1> QED
    BY <1>4 DEF f, G

-----------------------------------------------------------------------------
(* What is on screen.                                                      *)

\* Such segments show what was read.
LEMMA SpansFollow ==
    ASSUME NEW interval \in Nat \ {0}, NEW n \in Nat, NEW reading, DOMAIN reading = 0..n, NEW duration \in Nat,
           NEW segments, NEW K \in Nat, NEW first, NEW last,
           Spans(segments, K, first, last, reading, interval, duration)
    PROVE  Follow(segments, reading, interval, duration)
  <1> DEFINE shown == Shown(reading, interval, duration)
             frames == {f \in DOMAIN reading : f * interval < duration}
             On(t) == {i \in DOMAIN segments : segments[i].start <= t /\ t < segments[i].end}
             Read(t) == {segments[i].text : i \in On(t)}
             At(t) == t \div interval
             Text(j) == reading[first[j]]
  <1>1. /\ shown \in SUBSET Nat /\ frames \in SUBSET Nat
        /\ \A f \in Nat : f \in shown <=> f \in frames /\ reading[f] # Blank
        /\ \A f, g \in Nat : f \in frames /\ g <= f => g \in frames
    <2>1. ASSUME NEW f \in Nat, NEW g \in Nat, f \in frames, g <= f PROVE g \in frames
      <3>1. g \in 0..n /\ f * interval < duration
        BY <2>1
      <3>2. g * interval <= f * interval /\ g * interval \in Nat /\ f * interval \in Nat
        BY <2>1, FrameTimes
      <3> QED
        BY <3>1, <3>2
    <2> QED
      BY <2>1 DEF Shown
  <1>2. /\ \A j \in 1..K : /\ first[j] \in shown /\ last[j] \in shown /\ first[j] \in Nat /\ last[j] \in Nat
                           /\ first[j] <= last[j]
        /\ \A j, k \in 1..K : j < k => last[j] < first[k]
        /\ \A f \in shown : \E j \in 1..K : f \in first[j]..last[j]
    BY <1>1 DEF Spans
  <1>3. \A j \in 1..K : \A f \in first[j]..last[j] :
           IF f \in shown THEN reading[f] = Text(j)
           ELSE /\ f - 1 \in shown /\ reading[f - 1] = Text(j)
                /\ f + 1 \in shown /\ reading[f + 1] = Text(j)
    BY DEF Spans
  <1>4. \A j, k \in 1..K : j < k /\ Text(k) = reading[last[j]] =>
           /\ first[k] # last[j] + 1
           /\ first[k] = last[j] + 2 => last[j] + 1 \in shown
    BY DEF Spans
  <1>5. /\ DOMAIN segments = 1..K
        /\ \A j \in 1..K : /\ segments[j].start = first[j] * interval /\ segments[j].text = Text(j)
                           /\ segments[j].end = IF last[j] * interval + interval < duration
                                                THEN last[j] * interval + interval ELSE duration
    <2>1. ASSUME NEW j \in 1..K
          PROVE  segments[j] = [start |-> first[j] * interval,
                                end   |-> IF last[j] * interval + interval < duration
                                          THEN last[j] * interval + interval ELSE duration,
                                text  |-> Text(j)]
      BY DEF Spans
    <2>2. DOMAIN segments = 1..K
      BY DEF Spans
    <2> QED
      BY <2>1, <2>2
  <1>6. \A j \in 1..K : first[j] * interval \in Nat /\ last[j] * interval \in Nat
    BY <1>2, FrameTimes
  <1>7. ASSUME NEW j \in DOMAIN segments PROVE segments[j].end <= duration
    BY <1>5, <1>6
  <1>8. ASSUME NEW t \in 0..(duration - 1), NEW g \in Nat
        PROVE  (g <= At(t) <=> g * interval <= t) /\ (At(t) <= g <=> t < g * interval + interval)
    BY FrameAt
  <1>9. ASSUME NEW t \in 0..(duration - 1), NEW j PROVE j \in On(t) <=> j \in 1..K /\ At(t) \in first[j]..last[j]
    <2>1. SUFFICES ASSUME j \in 1..K
                   PROVE  segments[j].start <= t /\ t < segments[j].end <=> At(t) \in first[j]..last[j]
      BY <1>5
    <2>2. (first[j] <= At(t) <=> first[j] * interval <= t) /\ (At(t) <= last[j] <=> t < last[j] * interval + interval)
      BY <2>1, <1>2, <1>8
    <2>3. At(t) \in Nat
      BY FrameTimes
    <2> HIDE DEF At
    <2>4. t < segments[j].end <=> t < last[j] * interval + interval
      <3> DEFINE e == last[j] * interval + interval
      <3>1. segments[j].end = (IF e < duration THEN e ELSE duration) /\ e \in Nat /\ t < duration
        BY <2>1, <1>5, <1>6
      <3> HIDE DEF e
      <3>2. t < segments[j].end <=> t < e
        BY <3>1
      <3> QED
        BY <3>2 DEF e
    <2>5. segments[j].start = first[j] * interval /\ first[j] \in Nat /\ last[j] \in Nat
      BY <2>1, <1>2, <1>5
    <2> QED
      BY <2>2, <2>3, <2>4, <2>5
  <1>10. ASSUME NEW t \in 0..(duration - 1), NEW j \in On(t) PROVE j \in 1..K /\ Read(t) = {Text(j)} /\ On(t) = {j}
    <2>1. ASSUME NEW k \in On(t) PROVE k = j
      <3>1. /\ j \in 1..K /\ k \in 1..K /\ At(t) \in first[j]..last[j] /\ At(t) \in first[k]..last[k]
        BY <1>9
      <3>2. ~(j < k) /\ ~(k < j)
        <4>1. /\ first[j] \in Nat /\ last[j] \in Nat /\ first[k] \in Nat /\ last[k] \in Nat
              /\ (j < k => last[j] < first[k]) /\ (k < j => last[k] < first[j])
          BY <1>2, <3>1
        <4> HIDE DEF At
        <4> QED
          BY <3>1, <4>1
      <3> QED
        BY <3>1, <3>2
    <2>2. On(t) = {j} /\ j \in 1..K
      BY <1>9, <2>1
    <2> HIDE DEF On
    <2> QED
      BY <1>5, <2>2
  <1>11. ASSUME NEW t \in 0..(duration - 1), On(t) = {} PROVE Read(t) = {}
    BY <1>11
  <1>12. \A t \in 0..(duration - 1) : At(t) \in Nat /\ At(t) * interval <= t
    BY FrameTimes
  <1>13. ASSUME NEW t \in 0..(duration - 1), t > 0 PROVE At(t - 1) = At(t) \/ At(t - 1) + 1 = At(t)
    <2> DEFINE f == At(t)
               g == At(t - 1)
    <2>1. f \in Nat /\ g \in Nat
      BY <1>13, FrameTimes
    <2>2. g <= f /\ f <= g + 1
      <3>1. (g <= f <=> g * interval <= t) /\ g * interval <= t - 1
        <4>1. g * interval <= t - 1
          BY <1>13, FrameTimes
        <4>2. g <= f <=> g * interval <= t
          BY <1>8, <2>1
        <4> QED
          BY <4>1, <4>2
      <3>2. f <= g + 1 <=> t < (g + 1) * interval + interval
        BY <2>1, FrameAt
      <3>3. (g + 1) * interval = g * interval + interval /\ t - 1 < g * interval + interval /\ g * interval \in Nat
        BY <1>13, <2>1, FrameTimes
      <3> DEFINE G == g * interval
      <3>4. G \in Nat /\ G <= t - 1 /\ t - 1 < G + interval /\ (g + 1) * interval = G + interval
        BY <3>1, <3>3
      <3> HIDE DEF f, g, G
      <3>5. G <= t /\ t < G + interval + interval
        BY <1>13, <3>4
      <3> QED
        BY <3>1, <3>2, <3>4, <3>5 DEF G
    <2> HIDE DEF f, g
    <2>3. g = f \/ g + 1 = f
      BY <2>1, <2>2
    <2> QED
      BY <2>3 DEF f, g
  <1> HIDE DEF On, Read, At, shown, frames
  <1>14. ASSUME NEW t \in 0..(duration - 1) PROVE Cardinality(On(t)) <= 1
    <2>1. CASE On(t) = {}
      BY <2>1, FS_EmptySet
    <2>2. CASE On(t) # {}
      <3>1. PICK j : On(t) = {j}
        BY <1>10, <2>2
      <3>2. Cardinality({j}) = 1
        BY FS_Singleton
      <3> QED
        BY <3>1, <3>2
    <2> QED
      BY <2>1, <2>2
  <1>15. ASSUME NEW t \in 0..(duration - 1) PROVE Read(t) = TextsOf(reading, At(t), frames)
    <2> DEFINE f == At(t)
    <2>1. f \in Nat /\ \A j : j \in On(t) <=> j \in 1..K /\ f \in first[j]..last[j]
      BY <1>9, <1>12
    <2> HIDE DEF f
    <2>2. CASE f \notin frames
      <3>1. ASSUME NEW j \in On(t) PROVE FALSE
        <4>1. j \in 1..K /\ f \in first[j]..last[j]
          BY <2>1
        <4>2. last[j] \in Nat /\ last[j] \in frames /\ f <= last[j]
          BY <1>1, <1>2, <4>1
        <4> QED
          BY <1>1, <2>1, <2>2, <4>2
      <3>2. Read(t) = {}
        BY <1>11, <3>1
      <3> QED
        BY <2>2, <3>2 DEF TextsOf, f
    <2>3. CASE f \in shown
      <3>1. PICK j \in 1..K : f \in first[j]..last[j]
        BY <1>2, <2>3
      <3>2. Read(t) = {Text(j)} /\ reading[f] = Text(j)
        BY <1>3, <1>10, <2>1, <2>3, <3>1
      <3>3. f \in frames /\ reading[f] # Blank
        BY <1>1, <2>1, <2>3
      <3> QED
        BY <3>2, <3>3 DEF TextsOf, f
    <2>4. CASE f \in frames /\ f \notin shown
      <3> DEFINE missed == /\ f - 1 \in shown /\ f + 1 \in shown /\ reading[f + 1] = reading[f - 1]
      <3>1. reading[f] = Blank
        BY <1>1, <2>1, <2>4
      <3>2. CASE missed
        <4>1. TextsOf(reading, f, frames) = {reading[f - 1]}
          <5>1. f - 1 \in Nat /\ f - 1 \in frames /\ f + 1 \in frames /\ reading[f - 1] # Blank
            BY <1>1, <3>2
          <5>2. {h \in frames : /\ h = f - 1 /\ reading[h] # Blank
                                /\ f + 1 \in frames /\ reading[f + 1] = reading[h]} = {f - 1}
            BY <3>2, <5>1
          <5> QED
            BY <2>4, <3>1, <5>2 DEF TextsOf
        <4>2. PICK j \in 1..K : f - 1 \in first[j]..last[j]
          BY <1>2, <3>2
        <4>3. PICK k \in 1..K : f + 1 \in first[k]..last[k]
          BY <1>2, <3>2
        <4>4. first[j] \in Nat /\ last[j] \in Nat /\ first[k] \in Nat /\ last[k] \in Nat
          BY <1>2
        <4>5. ~(k < j)
          BY <1>2, <2>1, <4>2, <4>3, <4>4
        <4>6. ~(j < k)
          <5>1. SUFFICES ASSUME j < k PROVE FALSE
            OBVIOUS
          <5>2. last[j] \in shown /\ first[k] \in shown /\ last[j] < first[k]
            BY <1>2, <5>1
          <5>3. last[j] # f /\ first[k] # f
            BY <2>4, <5>2
          <5>4. last[j] = f - 1 /\ first[k] = f + 1
            <6> DEFINE L == last[j]
                       F == first[k]
            <6>1. L \in Nat /\ F \in Nat /\ f - 1 <= L /\ F <= f + 1 /\ L < F /\ L # f /\ F # f
              BY <4>2, <4>3, <4>4, <5>2, <5>3
            <6> HIDE DEF L, F
            <6>2. L = f - 1 /\ F = f + 1
              BY <2>1, <6>1
            <6> QED
              BY <6>2 DEF L, F
          <5>5. Text(k) = reading[last[j]] /\ first[k] = last[j] + 2 /\ last[j] + 1 = f
            BY <2>1, <3>2, <5>4
          <5> QED
            BY <1>4, <2>4, <5>1, <5>5
        <4>7. j = k
          BY <4>5, <4>6
        <4>8. f \in first[j]..last[j]
          BY <2>1, <4>2, <4>3, <4>4, <4>7
        <4>9. Read(t) = {Text(j)} /\ reading[f - 1] = Text(j)
          BY <1>3, <1>10, <2>1, <2>4, <4>8
        <4> QED
          BY <4>1, <4>9 DEF f
      <3>3. CASE ~missed
        <4>1. TextsOf(reading, f, frames) = {}
          <5>1. ASSUME NEW h \in frames, h = f - 1, reading[h] # Blank, f + 1 \in frames, reading[f + 1] = reading[h]
                PROVE  FALSE
            <6>1. h \in Nat /\ f + 1 \in Nat
              BY <1>1, <2>1
            <6>2. h \in shown /\ f + 1 \in shown
              BY <1>1, <5>1, <6>1
            <6> QED
              BY <3>3, <5>1, <6>2
          <5>2. {h \in frames : /\ h = f - 1 /\ reading[h] # Blank
                                /\ f + 1 \in frames /\ reading[f + 1] = reading[h]} = {}
            BY <5>1
          <5> QED
            BY <2>4, <3>1, <5>2 DEF TextsOf
        <4>2. On(t) = {}
          <5>1. SUFFICES ASSUME NEW j \in On(t) PROVE FALSE
            OBVIOUS
          <5>2. j \in 1..K /\ f \in first[j]..last[j]
            BY <2>1
          <5>3. f - 1 \in shown /\ reading[f - 1] = Text(j) /\ f + 1 \in shown /\ reading[f + 1] = Text(j)
            BY <1>3, <2>4, <5>2
          <5> QED
            BY <3>3, <5>3
        <4> QED
          BY <1>11, <4>1, <4>2 DEF f
      <3> QED
        BY <3>2, <3>3
    <2> QED
      BY <2>2, <2>3, <2>4
  <1>16. ASSUME NEW t \in 0..(duration - 1), t > 0, Read(t) = Read(t - 1) PROVE On(t) = On(t - 1)
    <2> DEFINE f == At(t)
               g == At(t - 1)
    <2>0. t - 1 \in 0..(duration - 1)
      BY <1>16
    <2>1. /\ f \in Nat /\ \A j : j \in On(t) <=> j \in 1..K /\ f \in first[j]..last[j]
          /\ g \in Nat /\ \A j : j \in On(t - 1) <=> j \in 1..K /\ g \in first[j]..last[j]
          /\ g = f \/ g + 1 = f
      BY <1>9, <1>12, <1>13, <1>16, <2>0
    <2> HIDE DEF f, g
    <2>2. CASE On(t) = {} \/ On(t - 1) = {}
      <3>1. ASSUME NEW s \in 0..(duration - 1), On(s) # {} PROVE Read(s) # {}
        <4>1. PICK j : j \in On(s)
          BY <3>1
        <4>2. Read(s) = {Text(j)}
          BY <1>10, <4>1
        <4> QED
          BY <4>2
      <3> QED
        BY <1>11, <1>16, <2>0, <2>2, <3>1
    <2>3. CASE On(t) # {} /\ On(t - 1) # {}
      <3>1. PICK k : k \in 1..K /\ f \in first[k]..last[k] /\ On(t) = {k} /\ Read(t) = {Text(k)}
        BY <1>10, <2>1, <2>3
      <3>2. PICK j : j \in 1..K /\ g \in first[j]..last[j] /\ On(t - 1) = {j} /\ Read(t - 1) = {Text(j)}
        BY <1>10, <2>0, <2>1, <2>3
      <3>3. Text(j) = Text(k)
        BY <1>16, <3>1, <3>2
      <3>4. first[j] \in Nat /\ last[j] \in Nat /\ first[k] \in Nat /\ last[k] \in Nat
        BY <1>2, <3>1, <3>2
      <3>5. ~(k < j)
        <4>1. SUFFICES ASSUME k < j PROVE FALSE
          OBVIOUS
        <4>2. last[k] < first[j] /\ f <= last[k] /\ first[j] <= g
          BY <1>2, <3>1, <3>2, <4>1
        <4> DEFINE L == last[k]
                   F == first[j]
        <4>3. L \in Nat /\ F \in Nat /\ L < F /\ f <= L /\ F <= g
          BY <3>4, <4>2
        <4> HIDE DEF L, F
        <4> QED
          BY <2>1, <4>3
      <3>6. ~(j < k)
        <4>1. SUFFICES ASSUME j < k PROVE FALSE
          OBVIOUS
        <4>2. last[j] < first[k] /\ last[j] \in shown
          BY <1>2, <3>1, <3>2, <4>1
        <4>3. last[j] = g /\ first[k] = last[j] + 1
          <5> DEFINE L == last[j]
                     F == first[k]
          <5>1. L \in Nat /\ F \in Nat /\ g <= L /\ F <= f /\ L < F
            BY <3>1, <3>2, <3>4, <4>2
          <5> HIDE DEF L, F
          <5>2. L = g /\ F = L + 1
            BY <2>1, <5>1
          <5> QED
            BY <5>2 DEF L, F
        <4>4. reading[last[j]] = Text(j)
          BY <1>3, <3>2, <4>2, <4>3
        <4> QED
          BY <1>4, <3>1, <3>2, <3>3, <4>1, <4>3, <4>4
      <3>7. j = k
        BY <3>1, <3>2, <3>5, <3>6
      <3> QED
        BY <3>1, <3>2, <3>7
    <2> QED
      BY <2>2, <2>3
  <1> QED
    BY <1>7, <1>14, <1>15, <1>16 DEF Follow, On, Read, At, frames

\* The segments that publish_ocr_segments takes from consolidate_observations show what
\* OCR read, whatever it read, in however many frames, at whatever interval and however
\* long the media are: at every instant at most one segment, with the text of the frame
\* sampled last, over one missed frame but not over two; and as one segment a text that
\* stays on.
THEOREM ConsolidationFollows ==
    ASSUME NEW interval \in Nat \ {0}, NEW n \in Nat, NEW T, NEW reading \in [0..n -> T], NEW duration \in Nat
    PROVE  Follow(Consolidated(Observed(reading, interval), interval, duration), reading, interval, duration)
  <1> DEFINE all == Observed(reading, interval)
             obs == Cleaned(all, duration)
             groups == Grouped(obs, interval)
  <1>1. DOMAIN reading = 0..n
    OBVIOUS
  <1>2. PICK m \in Nat : \E frame : InFrames(obs, m, frame, reading, interval, duration)
    BY <1>1, KeptFrames
  <1>3. PICK frame : InFrames(obs, m, frame, reading, interval, duration)
    BY <1>2
  <1>4. obs \in [1..m -> all]
    BY <1>3 DEF InFrames
  <1> HIDE DEF obs, all
  <1>5. PICK lo, hi : Cover(groups, lo, hi, m, obs, all, interval)
    BY <1>4, GroupsCover
  <1> HIDE DEF groups
  <1> DEFINE segments == [i \in DOMAIN groups |-> Segment(groups[i], interval, duration)]
             K == Len(groups)
  <1>6. PICK first, last : Spans(segments, K, first, last, reading, interval, duration)
    BY <1>1, <1>3, <1>5, CoverSpans DEF all
  <1>7. K \in Nat
    <2>1. groups \in Seq(Seq(all))
      BY <1>5 DEF Cover
    <2> QED
      BY <2>1
  <1> HIDE DEF segments, K
  <1>8. Follow(segments, reading, interval, duration)
    BY <1>1, <1>6, <1>7, SpansFollow
  <1>9. Consolidated(all, interval, duration) = segments
    BY DEF Consolidated, segments, groups, obs
  <1> QED
    BY <1>8, <1>9 DEF all

\* So they do on the instances of the run.
THEOREM FramesFollowed == FramesAreFollowed
  <1>1. ASSUME NEW interval \in 1..MaxInterval, NEW reading \in Readings,
               NEW duration \in 1..((LastFrame + 2) * interval)
        PROVE  Follow(Consolidated(Observed(reading, interval), interval, duration), reading, interval, duration)
    <2>1. interval \in Nat \ {0} /\ duration \in Nat /\ LastFrame \in Nat
      BY DEF LastFrame, MaxInterval
    <2>2. reading \in [0..LastFrame -> Texts \cup {Blank}]
      BY DEF Readings
    <2> HIDE DEF LastFrame
    <2> QED
      BY <2>1, <2>2, ConsolidationFollows
  <1> QED
    BY <1>1 DEF FramesAreFollowed

=============================================================================
