--------------------------- MODULE ArtifactCatalog --------------------------
(***************************************************************************)
(* What the ingest pipeline promises its readers: for each upload, one     *)
(* original and then one proxy derived from it are published, each at most *)
(* once and never changed again; each is charged to the owner exactly once *)
(* and the charge never passes the owner's storage limit.                  *)
(*                                                                         *)
(* MediaPipeline implements it although several attempts of an activity    *)
(* may each try to publish.                                                *)
(***************************************************************************)
EXTENDS Integers

CONSTANTS Keys, Sizes, Contents, None, MaxStorage

VARIABLES original, checksum, proxy, used

vars == <<original, checksum, proxy, used>>

Init ==
    /\ original = [k \in Keys |-> 0]
    /\ checksum = [k \in Keys |-> None]
    /\ proxy = [k \in Keys |-> 0]
    /\ used = 0

Charge(size) == used + size <= MaxStorage /\ used' = used + size

PublishOriginal(k) ==
    /\ original[k] = 0
    /\ \E size \in Sizes, content \in Contents :
        /\ Charge(size)
        /\ original' = [original EXCEPT ![k] = size]
        /\ checksum' = [checksum EXCEPT ![k] = content]
    /\ UNCHANGED proxy

PublishProxy(k) ==
    /\ original[k] # 0 /\ proxy[k] = 0
    /\ \E size \in Sizes : Charge(size) /\ proxy' = [proxy EXCEPT ![k] = size]
    /\ UNCHANGED <<original, checksum>>

Next == \E k \in Keys : PublishOriginal(k) \/ PublishProxy(k)

Spec == Init /\ [][Next]_vars

=============================================================================
