------------------------- MODULE UploadLedgerProofs -------------------------
(***************************************************************************)
(* Proofs about the ledger alone: whatever processes call its transactions,*)
(* in whatever order and however often, the accounting of the quota row    *)
(* and the lineage of the published rows hold.                             *)
(*                                                                         *)
(* MediaPipelineProofs shows that the pipeline's steps are steps of        *)
(* LedgerSpec, and inherits the theorems of this module.                   *)
(***************************************************************************)
EXTENDS UploadLedger, TLAPS, FiniteSetTheorems

\* Any transaction with arguments the code can pass.  Nothing but
\* register_proxy sets the status READY.
LedgerNext ==
    \E k \in Keys :
        \/ ReplayIntent(k) \/ PassExpiry(k)
        \/ \E size \in Sizes : CreateIntent(k, size)
        \/ MarkUploadReceived(k) \/ RejectUpload(k)
        \/ \E s \in Stages, n \in Attempts :
               \/ BeginStage(k, s, n)
               \/ \E status \in StageStates : FinishStage(k, s, n, status)
        \/ \E status \in MediaStates \ {"ready"} : SetMediaStatus(k, status)
        \/ MarkMediaFailed(k) \/ EnsureProxyArtifactId(k)
        \/ \E size \in Sizes, sum \in Contents : RegisterOriginal(k, size, sum)
        \/ \E size \in Sizes : RegisterProxy(k, size)

LedgerSpec == LedgerInit /\ [][LedgerNext]_ledgerVars

-----------------------------------------------------------------------------
(* Counting bytes.                                                         *)

\* A file of size bytes occupies size positions.
LEMMA FileBytes ==
    ASSUME NEW k, NEW size \in Nat
    PROVE  /\ IsFiniteSet({k} \X (1..size))
           /\ Cardinality({k} \X (1..size)) = size
  <1>1. IsFiniteSet({k}) /\ Cardinality({k}) = 1
    BY FS_Singleton
  <1>2. IsFiniteSet(1..size) /\ Cardinality(1..size) = size
    BY FS_Interval
  <1>3. /\ IsFiniteSet({k} \X (1..size))
        /\ Cardinality({k} \X (1..size)) = Cardinality({k}) * Cardinality(1..size)
    BY <1>1, <1>2, FS_Product, Zenon
  <1>4. 1 * size = size
    OBVIOUS
  <1> QED
    BY <1>1, <1>2, <1>3, <1>4, Zenon

\* Giving a size to a row that had none adds exactly that many bytes.
LEMMA BytesAdd ==
    ASSUME NEW f \in [Keys -> Nat], NEW k \in Keys, NEW size \in Nat,
           f[k] = 0, IsFiniteSet(Bytes(f))
    PROVE  /\ IsFiniteSet(Bytes([f EXCEPT ![k] = size]))
           /\ Cardinality(Bytes([f EXCEPT ![k] = size])) = Cardinality(Bytes(f)) + size
  <1> DEFINE new == {k} \X (1..size)
             g == [f EXCEPT ![k] = size]
  <1>1. IsFiniteSet(new) /\ Cardinality(new) = size
    BY FileBytes
  <1>2. Bytes(g) = Bytes(f) \cup new
    BY DEF Bytes
  <1>3. Bytes(f) \cap new = {}
    BY DEF Bytes
  <1>4. Cardinality(Bytes(f)) \in Nat
    BY FS_CardinalityType
  <1>5. /\ IsFiniteSet(Bytes(f) \cup new)
        /\ Cardinality(Bytes(f) \cup new) =
               Cardinality(Bytes(f)) + Cardinality(new) - Cardinality(Bytes(f) \cap new)
    BY <1>1, FS_Union, Zenon
  <1>6. Cardinality(Bytes(f) \cap new) = 0
    BY <1>3, FS_EmptySet, Zenon
  <1> HIDE DEF new, g
  <1>7. IsFiniteSet(Bytes(g)) /\ Cardinality(Bytes(g)) = Cardinality(Bytes(f)) + size
    BY <1>1, <1>2, <1>4, <1>5, <1>6
  <1> QED
    BY <1>7 DEF g

\* What a set of uploads declared, split over a subset of them.
LEMMA DeclaredSplit ==
    ASSUME declared \in [Keys -> Nat], NEW S, NEW T, S \subseteq Keys, T \subseteq S,
           IsFiniteSet(DeclaredBytes(S))
    PROVE  /\ IsFiniteSet(DeclaredBytes(T)) /\ IsFiniteSet(DeclaredBytes(S \ T))
           /\ Cardinality(DeclaredBytes(T)) \in Nat
           /\ Cardinality(DeclaredBytes(S \ T)) \in Nat
           /\ Cardinality(DeclaredBytes(S)) =
                  Cardinality(DeclaredBytes(S \ T)) + Cardinality(DeclaredBytes(T))
  <1>1. \A U : U \subseteq Keys => DeclaredBytes(U) = UNION {{k} \X (1..declared[k]) : k \in U}
    BY DEF DeclaredBytes, Bytes
  <1>2. DeclaredBytes(T) \subseteq DeclaredBytes(S)
    BY <1>1
  <1>3. DeclaredBytes(S \ T) = DeclaredBytes(S) \ DeclaredBytes(T)
    BY <1>1
  <1>4. DeclaredBytes(S) \cap DeclaredBytes(T) = DeclaredBytes(T)
    BY <1>2
  <1>5. IsFiniteSet(DeclaredBytes(T))
    BY <1>2, FS_Subset
  <1>6. /\ IsFiniteSet(DeclaredBytes(S \ T))
        /\ Cardinality(DeclaredBytes(S \ T)) =
               Cardinality(DeclaredBytes(S)) - Cardinality(DeclaredBytes(T))
    <2>1. /\ IsFiniteSet(DeclaredBytes(S) \ DeclaredBytes(T))
          /\ Cardinality(DeclaredBytes(S) \ DeclaredBytes(T)) =
                 Cardinality(DeclaredBytes(S)) - Cardinality(DeclaredBytes(S) \cap DeclaredBytes(T))
      BY FS_Difference, Zenon
    <2> QED
      BY <1>3, <1>4, <2>1, Zenon
  <1> QED
    BY <1>5, <1>6, FS_CardinalityType

\* One upload declared its own size.
LEMMA DeclaredOne ==
    ASSUME declared \in [Keys -> Nat], NEW k \in Keys
    PROVE  Cardinality(DeclaredBytes({k})) = declared[k]
  <1>1. DeclaredBytes({k}) = {k} \X (1..declared[k])
    BY DEF DeclaredBytes, Bytes
  <1> QED
    BY <1>1, FileBytes

\* A clamped difference is a natural number, and no larger than what is left.
LEMMA MinusNat ==
    ASSUME NEW x \in Nat, NEW y \in Nat
    PROVE  Minus(x, y) \in Nat /\ \A z \in Nat : x <= z + y => Minus(x, y) <= z
  BY DEF Minus

-----------------------------------------------------------------------------
(* Reservations.                                                           *)

\* NoReservationLeak compares cardinalities, so its sets must be finite: they
\* only ever grow by one upload a transaction.
HoldsOK ==
    /\ IsFiniteSet(Live) /\ IsFiniteSet(DeclaredBytes(Live))
    /\ NoReservationLeak

\* The sweep releases what the stale uploads hold, and no more.
LEMMA SweepReleases ==
    ASSUME LedgerTypeOK, HoldsOK
    PROVE  /\ Stale \subseteq Live /\ Live \subseteq Keys
           /\ ReservedAfterSweep \in Nat /\ ActiveAfterSweep \in Nat
           /\ IsFiniteSet(Live \ Stale) /\ IsFiniteSet(DeclaredBytes(Live \ Stale))
           /\ ReservedAfterSweep <= Cardinality(DeclaredBytes(Live \ Stale))
           /\ ActiveAfterSweep <= Cardinality(Live \ Stale)
  <1>1. Stale \subseteq Live /\ Live \subseteq Keys
    BY DEF Stale, Live
  <1>2. declared \in [Keys -> Nat] /\ reserved \in Nat /\ active \in Nat
    BY DEF LedgerTypeOK
  <1>3. /\ IsFiniteSet(DeclaredBytes(Live \ Stale))
        /\ Cardinality(DeclaredBytes(Stale)) \in Nat
        /\ Cardinality(DeclaredBytes(Live \ Stale)) \in Nat
        /\ Cardinality(DeclaredBytes(Live)) =
               Cardinality(DeclaredBytes(Live \ Stale)) + Cardinality(DeclaredBytes(Stale))
    BY <1>1, <1>2, DeclaredSplit DEF HoldsOK
  <1>4. /\ IsFiniteSet(Live \ Stale) /\ IsFiniteSet(Stale)
        /\ Cardinality(Live \ Stale) = Cardinality(Live) - Cardinality(Live \cap Stale)
    BY <1>1, FS_Difference, FS_Subset, Zenon DEF HoldsOK
  <1>5. Live \cap Stale = Stale
    BY <1>1
  <1>6. Cardinality(Live \ Stale) = Cardinality(Live) - Cardinality(Stale)
    BY <1>4, <1>5, Zenon
  <1>7. /\ Cardinality(Stale) \in Nat /\ Cardinality(Live \ Stale) \in Nat
        /\ Cardinality(Live) \in Nat
    BY <1>4, FS_CardinalityType DEF HoldsOK
  <1>8. ReservedAfterSweep \in Nat /\ ReservedAfterSweep <= Cardinality(DeclaredBytes(Live \ Stale))
    BY <1>2, <1>3, MinusNat DEF HoldsOK, NoReservationLeak, ReservedAfterSweep
  <1>9. ActiveAfterSweep \in Nat /\ ActiveAfterSweep <= Cardinality(Live \ Stale)
    BY <1>2, <1>6, <1>7, MinusNat DEF HoldsOK, NoReservationLeak, ActiveAfterSweep
  <1> QED
    BY <1>1, <1>3, <1>4, <1>8, <1>9

\* A release gives back at least what the upload held, if it held anything.
LEMMA ReleaseOne ==
    ASSUME LedgerTypeOK, HoldsOK, NEW k \in Keys, Release(k)
    PROVE  /\ reserved' \in Nat /\ active' \in Nat
           /\ IsFiniteSet(Live \ {k}) /\ IsFiniteSet(DeclaredBytes(Live \ {k}))
           /\ reserved' <= Cardinality(DeclaredBytes(Live \ {k}))
           /\ active' <= Cardinality(Live \ {k})
  <1>1. declared \in [Keys -> Nat] /\ reserved \in Nat /\ active \in Nat /\ declared[k] \in Nat
    BY DEF LedgerTypeOK
  <1>2. /\ IsFiniteSet(Live \ {k})
        /\ Cardinality(Live \ {k}) = IF k \in Live THEN Cardinality(Live) - 1 ELSE Cardinality(Live)
        /\ Cardinality(Live) \in Nat /\ Cardinality(Live \ {k}) \in Nat
    BY FS_RemoveElement, FS_CardinalityType DEF HoldsOK
  <1>3. reserved' \in Nat /\ active' \in Nat
    BY <1>1, MinusNat DEF Release
  <1>4. CASE k \notin Live
    <2>1. Live \ {k} = Live
      BY <1>4
    <2>2. Cardinality(DeclaredBytes(Live)) \in Nat
      BY FS_CardinalityType DEF HoldsOK
    <2>3. reserved' <= reserved /\ active' <= active
      BY <1>1 DEF Release, Minus
    <2>4. reserved' <= Cardinality(DeclaredBytes(Live)) /\ active' <= Cardinality(Live)
      BY <1>1, <1>2, <1>3, <2>2, <2>3 DEF HoldsOK, NoReservationLeak
    <2> QED
      BY <1>2, <1>3, <2>1, <2>4, Zenon DEF HoldsOK
  <1>5. CASE k \in Live
    <2>1. /\ IsFiniteSet(DeclaredBytes(Live \ {k}))
          /\ Cardinality(DeclaredBytes(Live \ {k})) \in Nat
          /\ Cardinality(DeclaredBytes(Live)) =
                 Cardinality(DeclaredBytes(Live \ {k})) + Cardinality(DeclaredBytes({k}))
      BY <1>1, <1>5, DeclaredSplit DEF HoldsOK, Live
    <2>2. Cardinality(DeclaredBytes({k})) = declared[k]
      BY <1>1, DeclaredOne
    <2>3. reserved' <= Cardinality(DeclaredBytes(Live \ {k}))
      BY <1>1, <2>1, <2>2, MinusNat DEF HoldsOK, NoReservationLeak, Release
    <2>4. active' <= Cardinality(Live \ {k})
      BY <1>1, <1>2, <1>5, MinusNat DEF HoldsOK, NoReservationLeak, Release
    <2> QED
      BY <1>2, <1>3, <2>1, <2>3, <2>4
  <1> QED
    BY <1>4, <1>5

\* What a transaction that declares nothing must establish.
LEMMA HoldStep ==
    ASSUME NEW S, declared' = declared, Live' = S,
           IsFiniteSet(S), IsFiniteSet(DeclaredBytes(S)),
           reserved' <= Cardinality(DeclaredBytes(S)), active' <= Cardinality(S)
    PROVE  HoldsOK'
  <1>1. DeclaredBytes(Live)' = DeclaredBytes(S)
    BY DEF DeclaredBytes, Bytes
  <1> QED
    BY <1>1 DEF HoldsOK, NoReservationLeak

\* A transaction that touches no reservation and moves no upload in or out of
\* the live ones keeps HoldsOK.
LEMMA HoldSame ==
    ASSUME HoldsOK, UNCHANGED <<reserved, active, declared>>, Live' = Live
    PROVE  HoldsOK'
  BY DEF HoldsOK, NoReservationLeak, DeclaredBytes, Bytes

-----------------------------------------------------------------------------
(* The inductive invariant.                                                *)

ChargesOK ==
    /\ IsFiniteSet(Bytes(original)) /\ IsFiniteSet(Bytes(proxy))
    /\ QuotaIsExact

\* The lineage edge of a proxy has its original at the other end.
ProxyHasOriginal == \A k \in Keys : proxy[k] # 0 => original[k] # 0

\* AcceptedIffOriginal carries ReadyHasLineage through register_proxy; the
\* finiteness in HoldsOK and ChargesOK makes the counters natural numbers.
LedgerInv ==
    /\ LedgerTypeOK
    /\ HoldsOK
    /\ ChargesOK
    /\ AcceptedIffOriginal
    /\ ReadyHasLineage
    /\ ProxyHasOriginal

\* A transaction that publishes nothing keeps ChargesOK.
LEMMA ChargesSame ==
    ASSUME ChargesOK, UNCHANGED <<used, original, proxy>>
    PROVE  ChargesOK'
  BY DEF ChargesOK, QuotaIsExact, Bytes

\* The transactions that move a status, a stage row or the clock.
LEMMA QuietStep ==
    ASSUME LedgerInv, LedgerTypeOK',
           UNCHANGED <<quotaVars, istate, declared, rowVars>>,
           \A k \in Keys : proxyId[k] => proxyId'[k],
           \A k \in Keys : mstatus'[k] = "ready" => mstatus[k] = "ready"
    PROVE  LedgerInv'
  <1>1. HoldsOK'
    BY HoldSame DEF LedgerInv, Live, quotaVars
  <1>2. ChargesOK'
    BY ChargesSame DEF LedgerInv, quotaVars, rowVars
  <1>3. AcceptedIffOriginal'
    BY DEF LedgerInv, AcceptedIffOriginal, rowVars
  <1>4. ReadyHasLineage'
    BY DEF LedgerInv, ReadyHasLineage, rowVars
  <1>5. ProxyHasOriginal'
    BY DEF LedgerInv, ProxyHasOriginal, rowVars
  <1> QED
    BY <1>1, <1>2, <1>3, <1>4, <1>5 DEF LedgerInv

\* The empty ledger satisfies the invariant.
LEMMA InitInv == LedgerInit => LedgerInv
  <1> SUFFICES ASSUME LedgerInit PROVE LedgerInv
    OBVIOUS
  <1>1. LedgerTypeOK
    BY DEF LedgerInit, LedgerTypeOK, IntentStates, MediaStates, StageStates
  <1>2. Live = {} /\ DeclaredBytes(Live) = {}
    BY DEF LedgerInit, Live, DeclaredBytes, Bytes
  <1>3. HoldsOK
    <2>1. /\ IsFiniteSet(Live) /\ Cardinality(Live) = 0
          /\ IsFiniteSet(DeclaredBytes(Live)) /\ Cardinality(DeclaredBytes(Live)) = 0
      BY <1>2, FS_EmptySet, Zenon
    <2> QED
      BY <2>1 DEF HoldsOK, NoReservationLeak, LedgerInit
  <1>4. Bytes(original) = {} /\ Bytes(proxy) = {}
    BY DEF LedgerInit, Bytes
  <1>5. ChargesOK
    BY <1>4, FS_EmptySet, LimitsAreNat DEF ChargesOK, QuotaIsExact, LedgerInit
  <1>6. AcceptedIffOriginal /\ ReadyHasLineage /\ ProxyHasOriginal
    BY DEF LedgerInit, AcceptedIffOriginal, ReadyHasLineage, ProxyHasOriginal
  <1> QED
    BY <1>1, <1>3, <1>5, <1>6 DEF LedgerInv

\* A replayed create_upload_intent, which only sweeps, keeps the invariant.
LEMMA ReplayStep ==
    ASSUME LedgerInv, NEW k \in Keys, ReplayIntent(k)
    PROVE  LedgerInv'
  <1> USE DEF LedgerInv, ReplayIntent
  <1>1. LedgerTypeOK'
    BY SweepReleases DEF LedgerTypeOK, rowVars, IntentStates, MediaStates
  <1>2. Live' = Live \ Stale
    BY DEF Live, Stale
  <1>3. HoldsOK'
    BY <1>2, SweepReleases, HoldStep, Zenon
  <1>4. ChargesOK'
    BY ChargesSame DEF rowVars
  <1>5. AcceptedIffOriginal'
    BY DEF AcceptedIffOriginal, Stale, rowVars
  <1>6. ReadyHasLineage'
    BY DEF ReadyHasLineage, Stale, rowVars
  <1> QED
    BY <1>1, <1>3, <1>4, <1>5, <1>6 DEF ProxyHasOriginal, rowVars

\* An admitted create_upload_intent keeps the invariant.
LEMMA CreateStep ==
    ASSUME LedgerInv, NEW k \in Keys, NEW size \in Sizes, CreateIntent(k, size)
    PROVE  LedgerInv'
  <1> USE DEF LedgerInv, CreateIntent
  <1>1. size \in Nat
    BY SizesAreBytes
  <1>2. LedgerTypeOK'
    BY <1>1, SweepReleases DEF LedgerTypeOK, rowVars, IntentStates, MediaStates
  <1>3. Live' = (Live \ Stale) \cup {k} /\ k \notin Live
    BY DEF Live, Stale
  <1>4. HoldsOK'
    <2> DEFINE S == Live \ Stale
               f == [j \in Keys |-> IF j \in S THEN declared[j] ELSE 0]
               T == S \cup {k}
    <2>1. f \in [Keys -> Nat] /\ f[k] = 0
      BY <1>3 DEF LedgerTypeOK
    <2>2. DeclaredBytes(S) = Bytes(f)
      BY DEF DeclaredBytes
    <2>3. DeclaredBytes(Live)' = Bytes([f EXCEPT ![k] = size])
      <3>1. [j \in Keys |-> IF j \in Live THEN declared[j] ELSE 0]' = [f EXCEPT ![k] = size]
        BY <1>3 DEF LedgerTypeOK
      <3> QED
        BY <3>1 DEF DeclaredBytes, Bytes
    <2>4. IsFiniteSet(Bytes(f)) /\ ReservedAfterSweep <= Cardinality(Bytes(f))
      BY <2>2, SweepReleases
    <2> HIDE DEF f
    <2>5. /\ IsFiniteSet(DeclaredBytes(Live)')
          /\ Cardinality(DeclaredBytes(Live)') = Cardinality(Bytes(f)) + size
      BY <1>1, <2>1, <2>3, <2>4, BytesAdd
    <2>6. IsFiniteSet(T) /\ Cardinality(T) = Cardinality(S) + 1
      BY <1>3, SweepReleases, FS_AddElement
    <2>7. reserved' <= Cardinality(DeclaredBytes(Live)')
      <3>1. Cardinality(Bytes(f)) \in Nat /\ ReservedAfterSweep \in Nat
        BY <2>4, SweepReleases, FS_CardinalityType
      <3> QED
        BY <1>1, <2>4, <2>5, <3>1
    <2>8. active' <= Cardinality(Live')
      <3>1. /\ Cardinality(S) \in Nat /\ ActiveAfterSweep \in Nat
            /\ ActiveAfterSweep <= Cardinality(S)
        BY SweepReleases, FS_CardinalityType
      <3> QED
        BY <1>3, <2>6, <3>1
    <2> QED
      BY <1>3, <2>5, <2>6, <2>7, <2>8 DEF HoldsOK, NoReservationLeak
  <1>5. ChargesOK'
    BY ChargesSame DEF rowVars
  <1>6. AcceptedIffOriginal'
    BY DEF AcceptedIffOriginal, Stale, rowVars, LedgerTypeOK
  <1>7. ReadyHasLineage'
    BY DEF ReadyHasLineage, Stale, rowVars, LedgerTypeOK
  <1> QED
    BY <1>2, <1>4, <1>5, <1>6, <1>7 DEF ProxyHasOriginal, rowVars

\* mark_upload_received keeps the invariant.
LEMMA MarkReceivedStep ==
    ASSUME LedgerInv, NEW k \in Keys, MarkUploadReceived(k)
    PROVE  LedgerInv'
  <1> USE DEF LedgerInv, MarkUploadReceived, quotaVars, rowVars
  <1>1. LedgerTypeOK'
    BY DEF LedgerTypeOK, IntentStates, MediaStates
  <1>2. HoldsOK'
    BY HoldSame DEF Live, LedgerTypeOK
  <1>3. ChargesOK'
    BY ChargesSame
  <1>4. AcceptedIffOriginal'
    BY DEF AcceptedIffOriginal, LedgerTypeOK
  <1>5. ReadyHasLineage'
    BY DEF ReadyHasLineage, LedgerTypeOK
  <1> QED
    BY <1>1, <1>2, <1>3, <1>4, <1>5 DEF ProxyHasOriginal

\* reject_upload keeps the invariant, its second release included.
LEMMA RejectStep ==
    ASSUME LedgerInv, NEW k \in Keys, RejectUpload(k)
    PROVE  LedgerInv'
  <1> USE DEF LedgerInv, RejectUpload, rowVars
  <1>1. CASE istate[k] \in {"rejected", "accepted"}
    <2>1. LedgerTypeOK'
      BY <1>1 DEF LedgerTypeOK
    <2> QED
      BY <1>1, <2>1, QuietStep DEF quotaVars
  <1>2. CASE istate[k] \notin {"rejected", "accepted"}
    <2>1. Release(k)
      BY <1>2
    <2>2. LedgerTypeOK'
      BY <1>2, <2>1, ReleaseOne DEF LedgerTypeOK, IntentStates, MediaStates
    <2>3. Live' = Live \ {k}
      BY <1>2 DEF Live, LedgerTypeOK
    <2>4. HoldsOK'
      BY <2>1, <2>3, ReleaseOne, HoldStep, Zenon
    <2>5. ChargesOK'
      BY ChargesSame
    <2>6. AcceptedIffOriginal'
      BY <1>2 DEF AcceptedIffOriginal, LedgerTypeOK
    <2>7. ReadyHasLineage'
      BY <1>2 DEF ReadyHasLineage, LedgerTypeOK
    <2> QED
      BY <2>2, <2>4, <2>5, <2>6, <2>7 DEF ProxyHasOriginal
  <1> QED
    BY <1>1, <1>2

\* register_original keeps the invariant, the first call and every later one.
LEMMA RegisterOriginalStep ==
    ASSUME LedgerInv, NEW k \in Keys, NEW size \in Sizes, NEW sum \in Contents,
           RegisterOriginal(k, size, sum)
    PROVE  LedgerInv'
  <1> USE DEF LedgerInv
  <1>1. CASE UNCHANGED ledgerVars
    <2>1. LedgerTypeOK'
      BY <1>1 DEF LedgerTypeOK, ledgerVars, quotaVars, intentVars, mediaVars, rowVars
    <2> QED
      BY <1>1, <2>1, QuietStep DEF ledgerVars, quotaVars, intentVars, mediaVars, rowVars
  <1>2. CASE ~UNCHANGED ledgerVars
    <2>1. /\ original[k] = 0 /\ used + size <= MaxStorage
          /\ original' = [original EXCEPT ![k] = size]
          /\ checksum' = [checksum EXCEPT ![k] = sum]
          /\ used' = used + size
          /\ Release(k)
          /\ istate' = [istate EXCEPT ![k] = "accepted"]
          /\ mstatus' = [mstatus EXCEPT ![k] = "proxy_generating"]
          /\ UNCHANGED <<expired, declared, proxyId, proxy, stage>>
      BY <1>2, Zenon DEF RegisterOriginal
    <2>2. size \in Nat \ {0}
      BY SizesAreBytes
    <2>3. LedgerTypeOK'
      <3>1. reserved' \in Nat /\ active' \in Nat
        BY <2>1, ReleaseOne
      <3>2. original' \in [Keys -> Nat] /\ used' \in Nat
        BY <2>1, <2>2 DEF LedgerTypeOK
      <3>3. /\ checksum' \in [Keys -> Contents \cup {None}]
            /\ istate' \in [Keys -> IntentStates] /\ mstatus' \in [Keys -> MediaStates]
        BY <2>1 DEF LedgerTypeOK, IntentStates, MediaStates
      <3> QED
        BY <2>1, <3>1, <3>2, <3>3 DEF LedgerTypeOK
    <2>4. Live' = Live \ {k}
      BY <2>1 DEF Live, LedgerTypeOK
    <2>5. HoldsOK'
      BY <2>1, <2>4, ReleaseOne, HoldStep, Zenon
    <2>6. ChargesOK'
      <3>1. /\ IsFiniteSet(Bytes(original')) /\ Bytes(proxy') = Bytes(proxy)
            /\ Cardinality(Bytes(original')) = Cardinality(Bytes(original)) + size
        BY <2>1, <2>2, BytesAdd DEF ChargesOK, LedgerTypeOK
      <3>2. Cardinality(Bytes(original)) \in Nat /\ Cardinality(Bytes(proxy)) \in Nat
        BY FS_CardinalityType DEF ChargesOK
      <3>3. Bytes(original)' = Bytes(original') /\ Bytes(proxy)' = Bytes(proxy')
        BY DEF Bytes
      <3> QED
        BY <2>1, <2>2, <3>1, <3>2, <3>3 DEF ChargesOK, QuotaIsExact
    <2>7. AcceptedIffOriginal'
      BY <2>1, <2>2 DEF AcceptedIffOriginal, LedgerTypeOK
    <2>8. ReadyHasLineage'
      BY <2>1, <2>2 DEF ReadyHasLineage, LedgerTypeOK
    <2>9. ProxyHasOriginal'
      BY <2>1, <2>2 DEF ProxyHasOriginal, LedgerTypeOK
    <2> QED
      BY <2>3, <2>5, <2>6, <2>7, <2>8, <2>9
  <1> QED
    BY <1>1, <1>2

\* register_proxy keeps the invariant, the first call and every later one.
LEMMA RegisterProxyStep ==
    ASSUME LedgerInv, NEW k \in Keys, NEW size \in Sizes, RegisterProxy(k, size)
    PROVE  LedgerInv'
  <1> USE DEF LedgerInv
  <1>1. CASE UNCHANGED ledgerVars
    <2>1. LedgerTypeOK'
      BY <1>1 DEF LedgerTypeOK, ledgerVars, quotaVars, intentVars, mediaVars, rowVars
    <2> QED
      BY <1>1, <2>1, QuietStep DEF ledgerVars, quotaVars, intentVars, mediaVars, rowVars
  <1>2. CASE ~UNCHANGED ledgerVars
    <2>1. /\ proxy[k] = 0 /\ original[k] # 0 /\ used + size <= MaxStorage
          /\ proxy' = [proxy EXCEPT ![k] = size]
          /\ used' = used + size
          /\ mstatus' = [mstatus EXCEPT ![k] = "ready"]
          /\ proxyId' = [proxyId EXCEPT ![k] = TRUE]
          /\ UNCHANGED <<reserved, active, intentVars, original, checksum, stage>>
      BY <1>2, Zenon DEF RegisterProxy
    <2>2. size \in Nat \ {0}
      BY SizesAreBytes
    <2>3. LedgerTypeOK'
      BY <2>1, <2>2 DEF LedgerTypeOK, MediaStates, intentVars
    <2>4. HoldsOK'
      BY <2>1, HoldSame DEF Live, intentVars
    <2>5. ChargesOK'
      <3>1. /\ IsFiniteSet(Bytes(proxy')) /\ Bytes(original') = Bytes(original)
            /\ Cardinality(Bytes(proxy')) = Cardinality(Bytes(proxy)) + size
        BY <2>1, <2>2, BytesAdd DEF ChargesOK, LedgerTypeOK
      <3>2. Cardinality(Bytes(original)) \in Nat /\ Cardinality(Bytes(proxy)) \in Nat
        BY FS_CardinalityType DEF ChargesOK
      <3>3. Bytes(original)' = Bytes(original') /\ Bytes(proxy)' = Bytes(proxy')
        BY DEF Bytes
      <3> QED
        BY <2>1, <2>2, <3>1, <3>2, <3>3 DEF ChargesOK, QuotaIsExact
    <2>6. AcceptedIffOriginal'
      BY <2>1 DEF AcceptedIffOriginal, intentVars
    <2>7. ReadyHasLineage'
      BY <2>1, <2>2 DEF ReadyHasLineage, AcceptedIffOriginal, LedgerTypeOK, intentVars
    <2>8. ProxyHasOriginal'
      BY <2>1 DEF ProxyHasOriginal, LedgerTypeOK
    <2> QED
      BY <2>3, <2>4, <2>5, <2>6, <2>7, <2>8
  <1> QED
    BY <1>1, <1>2

\* Every transaction keeps the invariant.
LEMMA StepInv ==
    ASSUME LedgerInv, [LedgerNext]_ledgerVars
    PROVE  LedgerInv'
  <1> USE DEF ledgerVars, quotaVars, intentVars, mediaVars, rowVars
  <1>1. CASE UNCHANGED ledgerVars
    <2>1. LedgerTypeOK'
      BY <1>1 DEF LedgerInv, LedgerTypeOK
    <2> QED
      BY <1>1, <2>1, QuietStep
  <1>2. ASSUME NEW k \in Keys, PassExpiry(k) PROVE LedgerInv'
    <2>1. LedgerTypeOK'
      BY <1>2 DEF LedgerInv, LedgerTypeOK, PassExpiry
    <2> QED
      BY <1>2, <2>1, QuietStep DEF PassExpiry
  <1>3. ASSUME NEW k \in Keys, NEW s \in Stages, NEW n \in Attempts, BeginStage(k, s, n)
        PROVE  LedgerInv'
    <2>1. LedgerTypeOK'
      BY <1>3 DEF LedgerInv, LedgerTypeOK, BeginStage, StageStates
    <2> QED
      BY <1>3, <2>1, QuietStep DEF BeginStage
  <1>4. ASSUME NEW k \in Keys, NEW s \in Stages, NEW n \in Attempts,
               NEW status \in StageStates, FinishStage(k, s, n, status)
        PROVE  LedgerInv'
    <2>1. LedgerTypeOK'
      BY <1>4 DEF LedgerInv, LedgerTypeOK, FinishStage
    <2> QED
      BY <1>4, <2>1, QuietStep DEF FinishStage
  <1>5. ASSUME NEW k \in Keys, NEW status \in MediaStates \ {"ready"}, SetMediaStatus(k, status)
        PROVE  LedgerInv'
    <2>1. LedgerTypeOK'
      BY <1>5 DEF LedgerInv, LedgerTypeOK, SetMediaStatus
    <2>2. \A j \in Keys : mstatus'[j] = "ready" => mstatus[j] = "ready"
      BY <1>5 DEF LedgerInv, LedgerTypeOK, SetMediaStatus
    <2> QED
      BY <1>5, <2>1, <2>2, QuietStep DEF SetMediaStatus
  <1>6. ASSUME NEW k \in Keys, MarkMediaFailed(k) PROVE LedgerInv'
    <2>1. LedgerTypeOK'
      BY <1>6 DEF LedgerInv, LedgerTypeOK, MarkMediaFailed, MediaStates
    <2>2. \A j \in Keys : mstatus'[j] = "ready" => mstatus[j] = "ready"
      BY <1>6 DEF LedgerInv, LedgerTypeOK, MarkMediaFailed
    <2> QED
      BY <1>6, <2>1, <2>2, QuietStep DEF MarkMediaFailed
  <1>7. ASSUME NEW k \in Keys, EnsureProxyArtifactId(k) PROVE LedgerInv'
    <2>1. LedgerTypeOK'
      BY <1>7 DEF LedgerInv, LedgerTypeOK, EnsureProxyArtifactId
    <2>2. \A j \in Keys : proxyId[j] => proxyId'[j]
      BY <1>7 DEF LedgerInv, LedgerTypeOK, EnsureProxyArtifactId
    <2> QED
      BY <1>7, <2>1, <2>2, QuietStep DEF EnsureProxyArtifactId
  <1> QED
    BY <1>1, <1>2, <1>3, <1>4, <1>5, <1>6, <1>7, ReplayStep, CreateStep,
       MarkReceivedStep, RejectStep, RegisterOriginalStep, RegisterProxyStep, Zenon
    DEF LedgerNext

\* A published row stays.
LEMMA RowsStay ==
    ASSUME LedgerInv, [LedgerNext]_ledgerVars, NEW k \in Keys
    PROVE  /\ original[k] # 0 => original'[k] # 0 /\ UNCHANGED <<original[k], checksum[k]>>
           /\ proxy[k] # 0 => proxy'[k] # 0 /\ UNCHANGED proxy[k]
  <1> USE DEF LedgerInv, LedgerTypeOK, ledgerVars, rowVars
  <1>1. ASSUME NEW j \in Keys, NEW size \in Sizes, NEW sum \in Contents,
               RegisterOriginal(j, size, sum)
        PROVE  /\ original[k] # 0 => UNCHANGED <<original[k], checksum[k]>>
               /\ UNCHANGED proxy
    BY <1>1 DEF RegisterOriginal
  <1>2. ASSUME NEW j \in Keys, NEW size \in Sizes, RegisterProxy(j, size)
        PROVE  /\ UNCHANGED <<original, checksum>>
               /\ proxy[k] # 0 => UNCHANGED proxy[k]
    BY <1>2 DEF RegisterProxy
  <1> QED
    BY <1>1, <1>2 DEF LedgerNext, ReplayIntent, PassExpiry, CreateIntent, MarkUploadReceived,
       RejectUpload, BeginStage, FinishStage, SetMediaStatus, MarkMediaFailed,
       EnsureProxyArtifactId

\* The accounting and the lineage hold in every state of the ledger, for any
\* number of uploads, sizes, attempts and callers.
THEOREM LedgerInvariance == LedgerSpec => []LedgerInv
  <1> QED
    BY InitInv, StepInv, PTL DEF LedgerSpec

=============================================================================
