----------------------------- MODULE PackCache ------------------------------
(***************************************************************************)
(* What the content source promises the screens, whatever the publisher    *)
(* and the network do: which revision is active and which one is cached.   *)
(*                                                                         *)
(* A launch starts with the bundled pack, takes the cached one when it can *)
(* be read and is newer, and only then shows a screen; from there on the   *)
(* active pack is replaced by newer ones only.  Packs implements this, and *)
(* App is built on it.                                                     *)
(***************************************************************************)
EXTENDS Integers

CONSTANT Newest  \* revisions are 1..Newest; 1 is bundled with the app

ASSUME NewestAssumption == Newest \in Nat \ {0}

VARIABLES
    active,  \* the revision of the active pack
    cached,  \* the revision in the local cache, 0 when there is none
    booted   \* the cache has been consulted: the screens are shown

packVars == <<active, cached, booted>>

PackCacheTypeOK ==
    /\ active \in 1..Newest
    /\ cached \in 0..Newest
    /\ booted \in BOOLEAN

PackCacheInit == active = 1 /\ cached = 0 /\ booted = FALSE

\* Faulty: the cached pack is not applied.
BootIgnoringCache == ~booted /\ booted' = TRUE /\ UNCHANGED <<active, cached>>

\* The cache is read: a newer pack in it becomes active.
BootFromCache ==
    /\ ~booted
    /\ active' = IF cached > active THEN cached ELSE active
    /\ booted' = TRUE
    /\ UNCHANGED cached

\* The cache could not be read: the bundled pack stays.
BootWithoutCache ==
    /\ ~booted
    /\ booted' = TRUE
    /\ UNCHANGED <<active, cached>>

\* A newer pack is written to the cache ...
CachePack(r) ==
    /\ booted /\ r > active
    /\ cached' = r
    /\ UNCHANGED <<active, booted>>

\* ... and becomes active, whether or not it could be written.
SwapPack(r) ==
    /\ booted /\ r > active
    /\ active' = r
    /\ UNCHANGED <<cached, booted>>

\* The process ends; the next launch starts from the bundled pack.
Relaunch ==
    /\ active' = 1
    /\ booted' = FALSE
    /\ UNCHANGED cached

PackCacheNext ==
    \/ BootFromCache \/ BootWithoutCache \/ Relaunch
    \/ \E r \in 1..Newest : CachePack(r) \/ SwapPack(r)

PackCacheSpec == PackCacheInit /\ [][PackCacheNext]_packVars
=============================================================================
