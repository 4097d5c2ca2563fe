---------------------------- MODULE Packs_proofs ----------------------------
(***************************************************************************)
(* Theorems about publishing and about the device, for every set of        *)
(* publishers, every catalog and every bound.                              *)
(***************************************************************************)
EXTENDS Packs, Extrema

(***************************************************************************)
(* The inductive invariant.  Publishers that are past their transaction    *)
(* have a recorded pack, no two recorded packs share a revision, and what  *)
(* is public is recorded under its own revision: so a put that meets an    *)
(* object already there writes the same pack.  A refresh that goes for a   *)
(* pack goes for a newer one than the active.                              *)
(***************************************************************************)
RecordsUnique == \A q, r \in records : q.revision = r.revision => q = r

PublishersOK ==
    \A p \in Publishers :
        /\ publisher[p].step # "idle" => publisher[p].pack \in Catalog
        /\ publisher[p].step \in {"object", "latest"} => publisher[p].pack \in records
        /\ publisher[p].step = "latest" => objects[publisher[p].pack.revision] = publisher[p].pack

ObjectsOK ==
    \A r \in 1..Newest : objects[r] # NoPack => objects[r] \in records /\ objects[r].revision = r

DeviceOK ==
    /\ refresh.step # "idle" => booted
    /\ refresh.step = "object" => refresh.revision \in 1..Newest /\ refresh.revision > active.revision
    /\ refresh.step \in {"store", "apply"} =>
        refresh.pack \in Catalog /\ refresh.pack.revision > active.revision

ServerInv == RecordsUnique /\ PublishersOK /\ ObjectsOK /\ PointerServes
PacksInv == PacksTypeOK /\ ServerInv /\ DeviceOK

LEMMA IdleTypes == Idle \in PublisherType /\ NoRefresh \in RefreshType
BY PacksAssumption DEF Idle, NoRefresh, PublisherType, RefreshType

LEMMA InitInv == Init => PacksInv
<1> SUFFICES ASSUME Init PROVE PacksInv
  OBVIOUS
<1> USE PacksAssumption DEF Init, Idle, NoRefresh
<1>1. PacksTypeOK
  <2>1. rows \in [Lessons -> RowType]
    BY DEF RowType
  <2>2. publisher \in [Publishers -> PublisherType] /\ refresh \in RefreshType
    BY IdleTypes
  <2>3. objects \in [1..Newest -> Catalog \cup {NoPack}] /\ latest \in 0..Newest
    OBVIOUS
  <2>4. active \in Known /\ cached \in Catalog \cup {NoPack} /\ booted \in BOOLEAN
    BY DEF Known
  <2>5. records \subseteq Catalog /\ marks \subseteq Marks
    OBVIOUS
  <2> HIDE DEF Init, Idle, NoRefresh
  <2> QED BY <2>1, <2>2, <2>3, <2>4, <2>5 DEF PacksTypeOK
<1>2. ServerInv /\ DeviceOK
  BY DEF ServerInv, RecordsUnique, PublishersOK, ObjectsOK, PointerServes, DeviceOK
<1> QED BY <1>1, <1>2 DEF PacksInv

(***************************************************************************)
(* Publishers.                                                             *)
(***************************************************************************)
LEMMA UpsertType ==
    ASSUME PacksTypeOK, NEW pack \in Catalog, UpsertLessons(pack)
    PROVE  rows' \in [Lessons -> RowType]
<1> DEFINE at(l) == CHOOSE i \in DOMAIN pack.lessons : pack.lessons[i] = l
<1>1. pack.lessons \in Seq(Lessons)
  BY PacksAssumption
<1>2. ASSUME NEW l \in Range(pack.lessons) PROVE at(l) \in Nat
  BY <1>1, <1>2 DEF Range
<1> HIDE DEF at
<1>3. rows' = [l \in Lessons |-> IF l \in Range(pack.lessons)
                                 THEN [pack |-> pack, order |-> at(l)] ELSE rows[l]]
  BY DEF UpsertLessons, at
<1>4. rows \in [Lessons -> RowType]
  BY DEF PacksTypeOK
<1> QED BY <1>2, <1>3, <1>4 DEF RowType

LEMMA DeviceUntouched ==
    ASSUME PacksInv, UNCHANGED deviceVars, marks' \subseteq Marks
    PROVE  /\ DeviceOK'
           /\ active' \in Known /\ cached' \in Catalog \cup {NoPack} /\ booted' \in BOOLEAN
           /\ refresh' \in RefreshType
BY DEF PacksInv, PacksTypeOK, DeviceOK, deviceVars

LEMMA PublishInv ==
    ASSUME PacksInv, NEW p \in Publishers, NEW pack \in Catalog, Publish(p, pack)
    PROVE  PacksInv'
<1> USE PacksAssumption DEF Publish
<1>1. marks' \subseteq Marks
  BY DEF PacksInv, PacksTypeOK, Marks
<1>2. publisher' \in [Publishers -> PublisherType]
  <2>1. [step |-> "transaction", pack |-> pack] \in PublisherType
    BY DEF PublisherType
  <2> QED BY <2>1 DEF PacksInv, PacksTypeOK
<1>3. PacksTypeOK'
  BY <1>1, <1>2, DeviceUntouched DEF PacksInv, PacksTypeOK
<1>4. ServerInv'
  BY <1>2 DEF PacksInv, PacksTypeOK, ServerInv, RecordsUnique, PublishersOK, ObjectsOK, PointerServes
<1> QED BY <1>1, <1>3, <1>4, DeviceUntouched DEF PacksInv

LEMMA CommitPackInv ==
    ASSUME PacksInv, NEW p \in Publishers, CommitPack(p)
    PROVE  PacksInv'
<1> DEFINE pack == publisher[p].pack
<1> USE PacksAssumption DEF PacksInv, PacksTypeOK, CommitPack, Ends, Goto, Idle
<1>1. pack \in Catalog
  BY DEF ServerInv, PublishersOK
<1>2. publisher' \in [Publishers -> PublisherType]
  BY IdleTypes DEF PublisherType
<1>3. rows' \in [Lessons -> RowType]
  BY <1>1, UpsertType
<1>4. records' \subseteq Catalog
  BY <1>1
<1>5. PacksTypeOK'
  BY <1>2, <1>3, <1>4, DeviceUntouched
<1>6. RecordsUnique'
  BY DEF ServerInv, RecordsUnique
<1>7. PublishersOK'
  <2> SUFFICES ASSUME NEW q \in Publishers
               PROVE  /\ publisher'[q].step # "idle" => publisher'[q].pack \in Catalog
                      /\ publisher'[q].step \in {"object", "latest"} => publisher'[q].pack \in records'
                      /\ publisher'[q].step = "latest" =>
                            objects'[publisher'[q].pack.revision] = publisher'[q].pack
    BY DEF PublishersOK
  <2>1. CASE q = p
    BY <1>1, <2>1 DEF PublisherType
  <2>2. CASE q # p
    <3>1. publisher'[q] = publisher[q]
      BY <2>2
    <3> QED BY <3>1 DEF ServerInv, PublishersOK
  <2> QED BY <2>1, <2>2
<1>8. ObjectsOK' /\ PointerServes'
  BY DEF ServerInv, ObjectsOK, PointerServes
<1> QED BY <1>5, <1>6, <1>7, <1>8, DeviceUntouched DEF ServerInv

LEMMA PutPackInv ==
    ASSUME PacksInv, NEW p \in Publishers, PutPack(p)
    PROVE  PacksInv'
<1> DEFINE pack == publisher[p].pack
<1> USE PacksAssumption DEF PacksInv, PacksTypeOK, PutPack, Goto
<1>1. pack \in Catalog /\ pack \in records /\ pack.revision \in 1..Newest
  BY DEF ServerInv, PublishersOK
<1>2. PacksTypeOK'
  <2>1. publisher' \in [Publishers -> PublisherType]
    BY IdleTypes DEF PublisherType
  <2> QED BY <1>1, <2>1, DeviceUntouched
<1>3. RecordsUnique'
  BY DEF ServerInv, RecordsUnique
<1>4. PublishersOK'
  <2> SUFFICES ASSUME NEW q \in Publishers
               PROVE  /\ publisher'[q].step # "idle" => publisher'[q].pack \in Catalog
                      /\ publisher'[q].step \in {"object", "latest"} => publisher'[q].pack \in records
                      /\ publisher'[q].step = "latest" =>
                            objects'[publisher'[q].pack.revision] = publisher'[q].pack
    BY DEF PublishersOK
  <2>1. CASE q = p
    BY <1>1, <2>1
  <2>2. CASE q # p
    <3>1. publisher'[q] = publisher[q]
      BY <2>2
    <3>2. publisher[q].step = "latest" =>
            objects'[publisher[q].pack.revision] = publisher[q].pack
      BY <1>1 DEF ServerInv, PublishersOK, RecordsUnique
    <3> QED BY <3>1, <3>2 DEF ServerInv, PublishersOK
  <2> QED BY <2>1, <2>2
<1>5. ObjectsOK' /\ PointerServes'
  BY <1>1 DEF ServerInv, ObjectsOK, PointerServes
<1> QED BY <1>2, <1>3, <1>4, <1>5, DeviceUntouched DEF ServerInv

LEMMA PutLatestInv ==
    ASSUME PacksInv, NEW p \in Publishers, PutLatest(p)
    PROVE  PacksInv'
<1> USE PacksAssumption DEF PacksInv, PacksTypeOK, PutLatest, Ends, Idle
<1>1. /\ publisher[p].pack.revision \in 1..Newest
      /\ objects[publisher[p].pack.revision] \in Catalog
  BY DEF ServerInv, PublishersOK
<1>2. PacksTypeOK'
  <2>1. publisher' \in [Publishers -> PublisherType]
    BY IdleTypes DEF PublisherType
  <2> QED BY <1>1, <2>1, DeviceUntouched
<1>3. ServerInv'
  BY <1>1 DEF ServerInv, RecordsUnique, PublishersOK, ObjectsOK, PointerServes
<1> QED BY <1>2, <1>3, DeviceUntouched

LEMMA PublishFailsInv ==
    ASSUME PacksInv, NEW p \in Publishers, PublishFails(p)
    PROVE  PacksInv'
<1> USE PacksAssumption DEF PacksInv, PacksTypeOK, PublishFails, Ends, Idle, Mark, Marks
<1>1. PacksTypeOK'
  <2>1. publisher' \in [Publishers -> PublisherType]
    BY IdleTypes DEF PublisherType
  <2> QED BY <2>1, DeviceUntouched
<1>2. ServerInv'
  BY DEF ServerInv, RecordsUnique, PublishersOK, ObjectsOK, PointerServes
<1> QED BY <1>1, <1>2, DeviceUntouched

(***************************************************************************)
(* The device, and the overlay's reads.                                    *)
(***************************************************************************)
LEMMA ServerUntouched ==
    ASSUME PacksInv, UNCHANGED serverVars
    PROVE  /\ ServerInv'
           /\ records' \subseteq Catalog
           /\ rows' \in [Lessons -> RowType]
           /\ objects' \in [1..Newest -> Catalog \cup {NoPack}]
           /\ latest' \in 0..Newest
           /\ publisher' \in [Publishers -> PublisherType]
<1> USE DEF PacksInv, serverVars
<1>1. ServerInv'
  BY DEF ServerInv, RecordsUnique, PublishersOK, ObjectsOK, PointerServes
<1> QED BY <1>1 DEF PacksTypeOK

LEMMA DeviceInv ==
    ASSUME PacksInv, Boots \/ Refreshes \/ Relaunch
    PROVE  PacksInv'
<1> USE PacksAssumption DEF PacksInv, NoRefresh, Apply, Quiet, Known
<1>1. UNCHANGED serverVars
  BY DEF Boots, Refreshes, Relaunch, HydrateContentPack, HydrateFails, Booted, FetchLatest,
         FetchLatestIf, FetchPack, FetchFails, StorePack, StoreFails, ApplyContentPack
<1>2. active \in Known /\ active.revision \in 1..Newest
  BY DEF PacksTypeOK
<1>3. marks' \subseteq Marks
  BY DEF PacksTypeOK, Marks, Mark, Boots, Refreshes, Relaunch, HydrateContentPack, HydrateFails,
         FetchLatest, FetchLatestIf, FetchPack, FetchFails, StorePack, StoreFails, ApplyContentPack
<1> DEFINE DeviceTypes ==
        /\ active \in Known /\ cached \in Catalog \cup {NoPack} /\ booted \in BOOLEAN
        /\ refresh \in RefreshType
<1>4. DeviceTypes
  BY DEF PacksTypeOK
<1>5. (DeviceTypes /\ DeviceOK)'
  <2>1. CASE HydrateContentPack
    BY <1>2, <1>4, <2>1, IdleTypes DEF HydrateContentPack, Booted, DeviceOK, RefreshType
  <2>2. CASE HydrateFails
    BY <1>2, <1>4, <2>2, IdleTypes DEF HydrateFails, Booted, DeviceOK, RefreshType
  <2>3. CASE FetchLatest
    <3>1. latest \in 0..Newest
      BY DEF PacksTypeOK
    <3>2. CASE latest > active.revision
      <4>1. refresh' = [step |-> "object", revision |-> latest, pack |-> NoPack]
        BY <2>3, <3>2 DEF FetchLatest, FetchLatestIf
      <4> QED BY <1>2, <1>4, <2>3, <3>1, <3>2, <4>1
                 DEF FetchLatest, FetchLatestIf, DeviceOK, RefreshType
    <3>3. CASE ~(latest > active.revision)
      BY <1>4, <2>3, <3>3, IdleTypes DEF FetchLatest, FetchLatestIf, DeviceOK
    <3> QED BY <3>2, <3>3
  <2>4. CASE FetchPack
    <3>1. objects \in [1..Newest -> Catalog \cup {NoPack}]
      BY DEF PacksTypeOK
    <3> DEFINE pack == objects[refresh.revision]
    <3>2. CASE pack # NoPack /\ pack.revision = refresh.revision
      <4>1. refresh.revision \in 1..Newest /\ refresh.revision > active.revision
        BY <2>4 DEF FetchPack, DeviceOK
      <4>2. pack \in Catalog
        BY <3>1, <3>2, <4>1
      <4>3. refresh' = [step |-> "store", revision |-> refresh.revision, pack |-> pack]
        BY <1>4, <2>4, <3>2 DEF FetchPack, RefreshType
      <4> QED BY <1>4, <2>4, <3>2, <4>1, <4>2, <4>3 DEF FetchPack, DeviceOK, RefreshType
    <3>3. CASE ~(pack # NoPack /\ pack.revision = refresh.revision)
      BY <1>4, <2>4, <3>3, IdleTypes DEF FetchPack, DeviceOK
    <3> QED BY <3>2, <3>3
  <2>5. CASE FetchFails
    BY <1>2, <1>4, <2>5, IdleTypes DEF FetchFails, DeviceOK, RefreshType
  <2>6. CASE StorePack
    BY <1>2, <1>4, <2>6, IdleTypes DEF StorePack, DeviceOK, RefreshType
  <2>7. CASE StoreFails
    BY <1>2, <1>4, <2>7, IdleTypes DEF StoreFails, DeviceOK, RefreshType
  <2>8. CASE ApplyContentPack
    BY <1>2, <1>4, <2>8, IdleTypes DEF ApplyContentPack, DeviceOK, RefreshType
  <2>9. CASE Relaunch
    BY <1>4, <2>9, IdleTypes DEF Relaunch, DeviceOK
  <2> QED BY <2>1, <2>2, <2>3, <2>4, <2>5, <2>6, <2>7, <2>8, <2>9 DEF Boots, Refreshes
<1>6. PacksTypeOK'
  BY <1>1, <1>3, <1>5, ServerUntouched DEF PacksTypeOK
<1> QED BY <1>1, <1>5, <1>6, ServerUntouched

LEMMA NextInv == PacksInv /\ [Next]_vars => PacksInv'
<1> SUFFICES ASSUME PacksInv, [Next]_vars PROVE PacksInv'
  OBVIOUS
<1>1. CASE \E p \in Publishers : Publishing(p)
  BY <1>1, PublishInv, CommitPackInv, PutPackInv, PutLatestInv, PublishFailsInv DEF Publishing
<1>2. CASE Boots \/ Refreshes \/ Relaunch
  BY <1>2, DeviceInv
<1>3. CASE Overlay \/ UNCHANGED vars
  <2>1. UNCHANGED serverVars /\ UNCHANGED deviceVars /\ UNCHANGED marks
    BY <1>3 DEF Overlay, OverlayRevision, OverlayLessons, OverlayDone, vars
  <2>2. marks' \subseteq Marks
    BY <2>1 DEF PacksInv, PacksTypeOK
  <2>3. PacksTypeOK'
    BY <2>1, <2>2, ServerUntouched, DeviceUntouched DEF PacksTypeOK
  <2> QED BY <2>1, <2>2, <2>3, ServerUntouched, DeviceUntouched DEF PacksInv
<1> QED BY <1>1, <1>2, <1>3 DEF Next

LEMMA Invariance == Spec => []PacksInv
BY InitInv, NextInv, PTL DEF Spec

(***************************************************************************)
(* The results.                                                            *)
(***************************************************************************)

\* The variables keep their types.
THEOREM PacksTypeCorrect == Spec => []PacksTypeOK
<1>1. PacksInv => PacksTypeOK
  BY DEF PacksInv
<1> QED BY <1>1, Invariance, PTL

\* Nothing is public without a record, whatever fails and whoever publishes.
THEOREM PublicIsRecorded == Spec => []ObjectsRecorded
<1>1. PacksInv => ObjectsRecorded
  BY DEF PacksInv, PacksTypeOK, ServerInv, ObjectsOK, ObjectsRecorded
<1> QED BY <1>1, Invariance, PTL

\* The pointer always names an object that is there.
THEOREM PointerAlwaysServes == Spec => []PointerServes
<1>1. PacksInv => PointerServes
  BY DEF PacksInv, ServerInv
<1> QED BY <1>1, Invariance, PTL

\* What is public is on record and can be fetched, at any moment.
THEOREM PublicIsSound == Spec => []PublicSound
BY PublicIsRecorded, PointerAlwaysServes, PTL DEF PublicSound

\* No step changes a published object: a put that meets one writes the pack it
\* holds already.
THEOREM PublishedNeverChanges == Spec => RevisionsImmutable
<1>1. PacksInv /\ [Next]_vars =>
        [\A r \in DOMAIN objects : objects[r] # NoPack => objects'[r] = objects[r]]_objects
  <2> SUFFICES ASSUME PacksInv, Next, objects' # objects,
                      NEW r \in DOMAIN objects, objects[r] # NoPack
               PROVE  objects'[r] = objects[r]
    BY DEF vars, serverVars
  <2>1. PICK p \in Publishers : PutPack(p)
    BY DEF Next, Publishing, Publish, CommitPack, PutLatest, PublishFails, Overlay, OverlayRevision,
           OverlayLessons, OverlayDone, Boots, Refreshes, Relaunch, HydrateContentPack, HydrateFails,
           Booted, FetchLatest, FetchLatestIf, FetchPack, FetchFails, StorePack, StoreFails,
           ApplyContentPack, Quiet, serverVars
  <2>2. objects[r] \in records /\ objects[r].revision = r
    BY DEF PacksInv, PacksTypeOK, ServerInv, ObjectsOK
  <2>3. publisher[p].pack \in records
    BY <2>1 DEF PacksInv, ServerInv, PublishersOK, PutPack
  <2> QED BY <2>1, <2>2, <2>3 DEF PutPack, PacksInv, PacksTypeOK, ServerInv, RecordsUnique
<1> QED BY <1>1, Invariance, PTL DEF Spec, RevisionsImmutable

\* The device implements PackCache: what App assumes of its packs.
THEOREM DeviceImplementsCache == Spec => CachePromise
<1>1. Init => Cache!PackCacheInit
  BY PacksAssumption DEF Init, Cache!PackCacheInit, RevisionOf
<1>2. PacksInv /\ [Next]_vars => [Cache!PackCacheNext]_Cache!packVars
  <2> SUFFICES ASSUME PacksInv, [Next]_vars, ~UNCHANGED Cache!packVars
               PROVE  Cache!PackCacheNext
    OBVIOUS
  <2> USE PacksAssumption DEF RevisionOf, Quiet, Cache!PackCacheNext, Cache!packVars
  <2>1. /\ active.revision \in 1..Newest
        /\ cached # NoPack => cached.revision \in 1..Newest
    BY DEF PacksInv, PacksTypeOK, Known
  <2>2. CASE HydrateContentPack
    BY <2>1, <2>2 DEF HydrateContentPack, Booted, Apply, Cache!BootFromCache
  <2>3. CASE HydrateFails
    BY <2>3 DEF HydrateFails, Booted, Cache!BootWithoutCache
  <2>4. CASE StorePack
    <3>1. Cache!CachePack(refresh.pack.revision)
      BY <2>1, <2>4 DEF StorePack, PacksInv, DeviceOK, Cache!CachePack
    <3>2. refresh.pack.revision \in 1..Newest
      BY <2>4 DEF StorePack, PacksInv, DeviceOK
    <3> QED BY <3>1, <3>2
  <2>5. CASE ApplyContentPack
    <3>1. Cache!SwapPack(refresh.pack.revision)
      BY <2>1, <2>5 DEF ApplyContentPack, Apply, PacksInv, DeviceOK, Cache!SwapPack
    <3>2. refresh.pack.revision \in 1..Newest
      BY <2>5 DEF ApplyContentPack, PacksInv, DeviceOK
    <3> QED BY <3>1, <3>2
  <2>6. CASE Relaunch
    BY <2>6 DEF Relaunch, Cache!Relaunch
  <2>7. CASE FetchLatest \/ FetchPack \/ FetchFails \/ StoreFails
    BY <2>7 DEF FetchLatest, FetchLatestIf, FetchPack, FetchFails, StoreFails
  <2>8. CASE (\E p \in Publishers : Publishing(p)) \/ Overlay \/ UNCHANGED vars
    BY <2>8 DEF Publishing, Publish, CommitPack, PutPack, PutLatest, PublishFails, Overlay,
                OverlayRevision, OverlayLessons, OverlayDone, vars, deviceVars
  <2> QED BY <2>2, <2>3, <2>4, <2>5, <2>6, <2>7, <2>8 DEF Next, Boots, Refreshes
<1> QED BY <1>1, <1>2, Invariance, PTL DEF Spec, CachePromise, Cache!PackCacheSpec

(***************************************************************************)
(* Numbers: the newest recorded revision, and what is remembered of it.    *)
(***************************************************************************)
LEMMA LatestRevision ==
    ASSUME PacksInv
    PROVE  /\ LatestPackRevision \in 0..Newest
           /\ \A q \in records : q.revision <= LatestPackRevision
           /\ LatestPackRevision # 0 => \E q \in records : q.revision = LatestPackRevision
<1> DEFINE S == {q.revision : q \in records} \cup {0}
<1>1. S \subseteq 0..Newest
  BY PacksAssumption DEF PacksInv, PacksTypeOK
<1>2. IsFiniteSet(S) /\ S \in SUBSET Int /\ S # {}
  <2>1. IsFiniteSet(0..Newest) /\ 0..Newest \subseteq Int
    BY FS_Interval, PacksAssumption
  <2>2. S # {}
    OBVIOUS
  <2> HIDE DEF S
  <2> QED BY <1>1, <2>1, <2>2, FS_Subset
<1>3. Max(S) \in S /\ \A x \in S : x <= Max(S)
  <2> HIDE DEF S
  <2> QED BY <1>2, LargestOf
<1> QED BY <1>1, <1>3 DEF LatestPackRevision

LEMMA LargerOfTwo ==
    ASSUME NEW m \in Nat, NEW n \in Nat
    PROVE  /\ Max({m, n}) \in {m, n}
           /\ m <= Max({m, n}) /\ n <= Max({m, n})
<1>1. CASE m >= n
  BY <1>1 DEF Max
<1>2. CASE n >= m
  BY <1>2 DEF Max
<1> QED BY <1>1, <1>2

\* A mark is there to stay, but for the one a launch takes away.
LEMMA MarksStay ==
    ASSUME [Next]_vars, NEW m \in {"overlap", "failed", "uncached"}, m \in marks
    PROVE  m \in marks'
<1>1. CASE Overlay \/ UNCHANGED vars
  BY <1>1 DEF Overlay, OverlayRevision, OverlayLessons, OverlayDone, vars
<1>2. ASSUME NEW p \in Publishers, Publishing(p) PROVE m \in marks'
  BY <1>2 DEF Publishing, Publish, CommitPack, PutPack, PutLatest, PublishFails, Mark
<1>3. CASE Boots \/ Refreshes
  BY <1>3 DEF Boots, Refreshes, HydrateContentPack, HydrateFails, FetchLatest, FetchLatestIf,
              FetchPack, FetchFails, StorePack, StoreFails, ApplyContentPack, Mark
<1>4. CASE Relaunch
  BY <1>4 DEF Relaunch
<1> QED BY <1>1, <1>2, <1>3, <1>4 DEF Next

LEMMA DeviceStays ==
    ASSUME Overlay \/ UNCHANGED vars \/ \E p \in Publishers : Publishing(p)
    PROVE  UNCHANGED deviceVars
BY DEF Publishing, Publish, CommitPack, PutPack, PutLatest, PublishFails, Overlay,
       OverlayRevision, OverlayLessons, OverlayDone, vars

\* The overlay's request is a record of its three fields.
OverlayForm ==
    overlay = [step |-> overlay.step, revision |-> overlay.revision, rows |-> overlay.rows]

HistoryOK ==
    /\ best \in Nat /\ seen \in Nat
    /\ OverlayForm /\ overlay.revision \in Nat

LEMMA HistoryInit == Init => HistoryOK
BY PacksAssumption DEF Init, HistoryOK, OverlayForm, NoOverlay

LEMMA HistoryStep == PacksInv /\ HistoryOK /\ [Next]_vars => HistoryOK'
<1> SUFFICES ASSUME PacksInv, HistoryOK, [Next]_vars PROVE HistoryOK'
  OBVIOUS
<1>1. /\ RevisionOf(active) \in Nat /\ RevisionOf(cached) \in Nat /\ latest \in Nat
      /\ RevisionOf(refresh.pack) \in Nat
  BY PacksAssumption DEF PacksInv, PacksTypeOK, RefreshType, RevisionOf, Known
<1>2. LatestPackRevision \in Nat
  BY LatestRevision, PacksAssumption
<1>3. best' \in Nat
  <2>1. CASE UNCHANGED best
    BY <2>1 DEF HistoryOK
  <2>2. CASE best' = Max({best, RevisionOf(cached)}) \/ best' = Max({best, RevisionOf(refresh.pack)})
    BY <1>1, <2>2, LargerOfTwo DEF HistoryOK
  <2>3. CASE \/ Overlay \/ (\E p \in Publishers : Publishing(p)) \/ UNCHANGED vars
    BY <2>1, <2>3, DeviceStays DEF deviceVars
  <2> QED
    BY <2>1, <2>2, <2>3
       DEF Next, Boots, Refreshes, HydrateContentPack, HydrateFails, Apply, FetchLatest,
           FetchLatestIf, FetchPack, FetchFails, StorePack, StoreFails, ApplyContentPack, Relaunch
<1>4. seen' \in Nat
  <2>1. CASE UNCHANGED seen
    BY <2>1 DEF HistoryOK
  <2>2. CASE seen' = Offered
    BY <1>1, <1>2, <2>2 DEF Offered
  <2>3. CASE \/ Overlay \/ (\E p \in Publishers : Publishing(p)) \/ UNCHANGED vars
    BY <2>1, <2>3, DeviceStays DEF deviceVars
  <2> QED
    BY <2>1, <2>2, <2>3
       DEF Next, Boots, Refreshes, HydrateContentPack, HydrateFails, Booted, FetchLatest,
           FetchLatestIf, FetchPack, FetchFails, StorePack, StoreFails, ApplyContentPack, Quiet,
           Relaunch
<1>5. (OverlayForm /\ overlay.revision \in Nat)'
  <2>1. CASE UNCHANGED overlay
    BY <2>1 DEF HistoryOK, OverlayForm
  <2>2. CASE OverlayRevision
    BY <1>2, <2>2 DEF OverlayRevision, OverlayForm, NoOverlay
  <2>3. CASE OverlayLessons
    BY <2>3 DEF OverlayLessons, HistoryOK, OverlayForm
  <2>4. CASE OverlayDone
    BY <2>4 DEF OverlayDone, OverlayForm, NoOverlay
  <2> QED
    BY <2>1, <2>2, <2>3, <2>4
       DEF Next, Overlay, Publishing, Publish, CommitPack, PutPack, PutLatest, PublishFails, Boots,
           Refreshes, HydrateContentPack, HydrateFails, Booted, FetchLatest, FetchLatestIf,
           FetchPack, FetchFails, StorePack, StoreFails, ApplyContentPack, Quiet, Relaunch, vars
<1> QED BY <1>3, <1>4, <1>5 DEF HistoryOK

(***************************************************************************)
(* Never older.  What was ever active is in the cache, which is what a     *)
(* launch begins with, or no newer than the pack in the app.               *)
(***************************************************************************)
BestInv ==
    /\ ~booted => active = BundledPack
    /\ "uncached" \notin marks =>
        /\ booted => best <= active.revision
        /\ best <= 1 \/ (cached # NoPack /\ best <= cached.revision)
        /\ refresh.step = "apply" => cached = refresh.pack

LEMMA BestInit == Init => BestInv
BY PacksAssumption DEF Init, BestInv, NoRefresh

LEMMA BestStep == PacksInv /\ HistoryOK /\ BestInv /\ [Next]_vars => BestInv'
<1> SUFFICES ASSUME PacksInv, HistoryOK, BestInv, [Next]_vars PROVE BestInv'
  OBVIOUS
<1>1. /\ active.revision \in Nat /\ active.revision >= 1 /\ best \in Nat
      /\ cached # NoPack => cached.revision \in Nat
      /\ DeviceOK /\ refresh \in RefreshType
  BY PacksAssumption DEF PacksInv, PacksTypeOK, HistoryOK, Known
<1>2. /\ \A p \in Catalog : p # NoPack /\ p.revision \in Nat
      /\ BundledPack # NoPack /\ BundledPack.revision = 1
  BY PacksAssumption
<1>3. "uncached" \in marks => "uncached" \in marks'
  BY MarksStay
<1>4. CASE Overlay \/ UNCHANGED vars \/ \E p \in Publishers : Publishing(p)
  BY <1>3, <1>4, DeviceStays DEF BestInv, deviceVars
<1>5. CASE HydrateContentPack
  <2>1. CASE cached # NoPack /\ cached.revision > active.revision
    <3>1. active' = cached /\ best' = Max({best, cached.revision}) /\ UNCHANGED <<cached, marks>>
      BY <1>5, <2>1 DEF HydrateContentPack, Booted, Apply, RevisionOf
    <3>2. best' = best \/ best' = cached.revision
      BY <1>1, <2>1, <3>1, LargerOfTwo
    <3>3. booted' = TRUE /\ refresh'.step = "latest"
      BY <1>5 DEF HydrateContentPack, Booted, NoRefresh
    <3> QED BY <1>1, <2>1, <3>1, <3>2, <3>3 DEF BestInv
  <2>2. CASE ~(cached # NoPack /\ cached.revision > active.revision)
    <3>1. UNCHANGED <<active, best, cached, marks>> /\ ~booted
      BY <1>5, <2>2 DEF HydrateContentPack, Booted
    <3>2. booted' = TRUE /\ refresh'.step = "latest"
      BY <1>5 DEF HydrateContentPack, Booted, NoRefresh
    <3> QED BY <1>1, <1>2, <2>2, <3>1, <3>2 DEF BestInv
  <2> QED BY <2>1, <2>2
<1>6. CASE HydrateFails \/ StoreFails
  <2>1. "uncached" \in marks'
    BY <1>6 DEF HydrateFails, StoreFails, Mark
  <2>2. booted'
    BY <1>1, <1>6 DEF HydrateFails, Booted, StoreFails, Quiet, DeviceOK
  <2> QED BY <2>1, <2>2 DEF BestInv
<1>7. CASE FetchLatest \/ FetchPack \/ FetchFails
  <2>1. UNCHANGED <<active, cached, best, booted>>
    BY <1>7 DEF FetchLatest, FetchLatestIf, FetchPack, FetchFails, Quiet
  <2>2. refresh'.step # "apply"
    <3>1. CASE FetchLatest
      BY <3>1 DEF FetchLatest, FetchLatestIf, NoRefresh
    <3>2. CASE FetchPack
      <4>1. \/ refresh' = NoRefresh
            \/ \E pack : refresh' = [refresh EXCEPT !.step = "store", !.pack = pack]
        BY <3>2 DEF FetchPack
      <4>2. CASE refresh' = NoRefresh
        BY <4>2 DEF NoRefresh
      <4>3. ASSUME NEW pack, refresh' = [refresh EXCEPT !.step = "store", !.pack = pack]
            PROVE  refresh'.step = "store"
        BY <1>1, <4>3 DEF RefreshType
      <4> QED BY <4>1, <4>2, <4>3
    <3>3. CASE FetchFails
      BY <3>3 DEF FetchFails, NoRefresh
    <3> QED BY <1>7, <3>1, <3>2, <3>3
  <2> QED BY <1>3, <2>1, <2>2 DEF BestInv
<1>8. CASE StorePack
  <2>1. /\ cached' = refresh.pack /\ refresh' = [refresh EXCEPT !.step = "apply"]
        /\ UNCHANGED <<active, best, marks, booted>> /\ refresh.step = "store"
    BY <1>8 DEF StorePack, Quiet
  <2>2. booted /\ refresh.pack \in Catalog /\ refresh.pack.revision > active.revision
    BY <1>1, <2>1 DEF DeviceOK
  <2>3. refresh'.pack = refresh.pack
    BY <1>1, <2>1 DEF RefreshType
  <2> QED BY <1>1, <1>2, <2>1, <2>2, <2>3 DEF BestInv
<1>9. CASE ApplyContentPack
  <2>1. /\ refresh.step = "apply" /\ active' = refresh.pack /\ refresh' = NoRefresh
        /\ best' = Max({best, RevisionOf(refresh.pack)}) /\ UNCHANGED <<cached, marks, booted>>
    BY <1>9 DEF ApplyContentPack, Apply, Quiet
  <2>2. booted /\ refresh.pack \in Catalog /\ refresh.pack.revision > active.revision
    BY <1>1, <2>1 DEF DeviceOK
  <2>3. best' = best \/ best' = refresh.pack.revision
    BY <1>1, <1>2, <2>1, <2>2, LargerOfTwo DEF RevisionOf
  <2> QED BY <1>1, <1>2, <2>1, <2>2, <2>3 DEF BestInv, NoRefresh
<1>10. CASE Relaunch
  BY <1>2, <1>3, <1>10 DEF Relaunch, BestInv, NoRefresh
<1> QED BY <1>4, <1>5, <1>6, <1>7, <1>8, <1>9, <1>10 DEF Next, Boots, Refreshes

\* A child never gets an older pack than one that was active before, whatever
\* is published meanwhile and wherever the app was killed: content/remote.ts
\* compares with the active pack and stores before it swaps.
THEOREM PacksNeverGoBack == Spec => []NeverOlder
<1>1. PacksInv /\ HistoryOK /\ BestInv => NeverOlder
  BY PacksAssumption DEF PacksInv, PacksTypeOK, HistoryOK, BestInv, NeverOlder, Known
<1> QED BY <1>1, InitInv, NextInv, HistoryInit, HistoryStep, BestInit, BestStep, PTL DEF Spec

(***************************************************************************)
(* Caught up.  While publishers take turns, the one under way has the      *)
(* newest pack, and when none is and none has failed the pointer names it: *)
(* so the pointer never goes back, and what it named at the launch is      *)
(* still a lower bound when the refresh follows it.                        *)
(***************************************************************************)
LEMMA ServerStays ==
    ASSUME Overlay \/ Boots \/ Refreshes \/ Relaunch \/ UNCHANGED vars
    PROVE  UNCHANGED serverVars
BY DEF Overlay, OverlayRevision, OverlayLessons, OverlayDone, vars, Boots, Refreshes, Relaunch,
       HydrateContentPack, HydrateFails, Booted, FetchLatest, FetchLatestIf, FetchPack, FetchFails,
       StorePack, StoreFails, ApplyContentPack, Quiet

Uploads(p) == publisher[p].step \in {"object", "latest"}

TurnInv ==
    "overlap" \notin marks =>
        /\ \A p, q \in Publishers : publisher[p].step # "idle" /\ publisher[q].step # "idle" => p = q
        /\ \A p \in Publishers : publisher[p].step = "transaction" =>
              \A q \in records : q.revision < publisher[p].pack.revision
        /\ \A p \in Publishers : Uploads(p) =>
              \A q \in records : q.revision <= publisher[p].pack.revision
        /\ "failed" \notin marks /\ (\A p \in Publishers : ~Uploads(p)) =>
              \A q \in records : q.revision <= latest

LEMMA TurnInit == Init => TurnInv
BY DEF Init, TurnInv, Idle

LEMMA TurnStep == PacksInv /\ TurnInv /\ [Next]_vars => TurnInv'
<1> SUFFICES ASSUME PacksInv, TurnInv, [Next]_vars, "overlap" \notin marks' PROVE TurnInv'
  BY DEF TurnInv
<1>1. "overlap" \notin marks /\ ("failed" \in marks => "failed" \in marks')
  BY MarksStay
<1>2. /\ \A q \in records : q.revision \in Nat
      /\ \A p \in Publishers : publisher[p].step # "idle" => publisher[p].pack.revision \in Nat
      /\ publisher \in [Publishers -> PublisherType]
  BY PacksAssumption DEF PacksInv, PacksTypeOK, ServerInv, PublishersOK
<1>3. /\ \A p, q \in Publishers : publisher[p].step # "idle" /\ publisher[q].step # "idle" => p = q
      /\ \A p \in Publishers : publisher[p].step = "transaction" =>
            \A q \in records : q.revision < publisher[p].pack.revision
      /\ \A p \in Publishers : Uploads(p) =>
            \A q \in records : q.revision <= publisher[p].pack.revision
      /\ "failed" \notin marks /\ (\A p \in Publishers : ~Uploads(p)) =>
            \A q \in records : q.revision <= latest
  BY <1>1 DEF TurnInv
<1>4. CASE UNCHANGED <<records, publisher, latest>>
  BY <1>1, <1>3, <1>4 DEF TurnInv, Uploads
<1>5. CASE Overlay \/ Boots \/ Refreshes \/ Relaunch \/ UNCHANGED vars
  BY <1>4, <1>5, ServerStays DEF serverVars
<1>6. ASSUME NEW p \in Publishers, NEW pack \in Catalog, Publish(p, pack) PROVE TurnInv'
  <2>1. /\ UNCHANGED <<records, latest>> /\ Busy = {} /\ pack.revision \in Nat
        /\ \A q \in Publishers : publisher[q].step = "idle"
    BY <1>6, PacksAssumption DEF Publish, Busy
  <2>2. CASE pack.revision <= LatestPackRevision
    BY <1>4, <1>6, <2>1, <2>2 DEF Publish
  <2>3. CASE ~(pack.revision <= LatestPackRevision)
    <3>1. publisher' = [publisher EXCEPT ![p] = [step |-> "transaction", pack |-> pack]]
      BY <1>6, <2>3 DEF Publish
    <3>2. publisher'[p].step = "transaction" /\ publisher'[p].pack = pack
      BY <1>2, <3>1
    <3>3. \A q \in Publishers : q # p => publisher'[q].step = "idle"
      BY <1>2, <2>1, <3>1
    <3>4. \A q \in records : q.revision < pack.revision
      BY <1>2, <2>1, <2>3, LatestRevision, PacksAssumption
    <3>5. \A q \in Publishers : ~Uploads(q) /\ ~Uploads(q)'
      BY <2>1, <3>2, <3>3 DEF Uploads
    <3> QED BY <1>1, <1>3, <2>1, <3>2, <3>3, <3>4, <3>5 DEF TurnInv
  <2> QED BY <2>2, <2>3
\* Whoever is under way is alone.
<1>7. ASSUME NEW p \in Publishers, publisher[p].step # "idle"
      PROVE  \A q \in Publishers : q # p => publisher[q].step = "idle" /\ ~Uploads(q)
  BY <1>3, <1>7 DEF Uploads
<1>8. ASSUME NEW p \in Publishers, CommitPack(p) PROVE TurnInv'
  <2>1. publisher[p].step = "transaction" /\ UNCHANGED <<latest, marks>> /\ ~Uploads(p)
    BY <1>8 DEF CommitPack, Uploads
  <2>2. CASE Ends(p) /\ UNCHANGED records
    <3>1. publisher'[p].step = "idle" /\ \A q \in Publishers : q # p => publisher'[q] = publisher[q]
      BY <1>2, <2>2 DEF Ends, Idle
    <3>2. \A q \in Publishers : publisher'[q].step = "idle" /\ ~Uploads(q) /\ ~Uploads(q)'
      BY <1>7, <2>1, <3>1 DEF Uploads
    <3> QED BY <1>3, <2>1, <2>2, <3>2 DEF TurnInv
  <2>3. CASE Goto(p, "object") /\ records' = records \cup {publisher[p].pack}
    <3>1. /\ publisher'[p].step = "object" /\ publisher'[p].pack = publisher[p].pack
          /\ \A q \in Publishers : q # p => publisher'[q] = publisher[q]
      BY <1>2, <2>3 DEF Goto, PublisherType
    <3>2. \A q \in records' : q.revision <= publisher[p].pack.revision
      BY <1>2, <1>3, <2>1, <2>3
    <3>3. \A q \in Publishers : q # p => publisher'[q].step = "idle"
      BY <1>7, <2>1, <3>1
    <3> QED BY <3>1, <3>2, <3>3 DEF TurnInv, Uploads
  <2> QED BY <1>8, <2>2, <2>3 DEF CommitPack
<1>9. ASSUME NEW p \in Publishers, PutPack(p) PROVE TurnInv'
  <2>1. publisher[p].step = "object" /\ Uploads(p) /\ UNCHANGED <<latest, marks, records>>
    BY <1>9 DEF PutPack, Uploads
  <2>2. /\ publisher'[p].step = "latest" /\ publisher'[p].pack = publisher[p].pack
        /\ \A q \in Publishers : q # p => publisher'[q] = publisher[q]
    BY <1>2, <1>9 DEF PutPack, Goto, PublisherType
  <2>3. \A q \in Publishers : q # p => publisher'[q].step = "idle"
    BY <1>7, <2>1, <2>2
  <2> QED BY <1>3, <2>1, <2>2, <2>3 DEF TurnInv, Uploads
<1>10. ASSUME NEW p \in Publishers, PutLatest(p) PROVE TurnInv'
  <2>1. /\ publisher[p].step # "idle" /\ UNCHANGED records
        /\ Uploads(p) /\ latest' = publisher[p].pack.revision
    BY <1>10 DEF PutLatest, Uploads
  <2>2. publisher'[p].step = "idle" /\ \A q \in Publishers : q # p => publisher'[q] = publisher[q]
    BY <1>2, <1>10 DEF PutLatest, Ends, Idle
  <2>3. \A q \in Publishers : publisher'[q].step = "idle"
    BY <1>7, <2>1, <2>2
  <2> QED BY <1>3, <2>1, <2>3 DEF TurnInv, Uploads
<1>11. ASSUME NEW p \in Publishers, PublishFails(p) PROVE TurnInv'
  <2>1. UNCHANGED records /\ "failed" \in marks'
    BY <1>11 DEF PublishFails, Mark
  <2>2. publisher'[p].step = "idle" /\ \A q \in Publishers : q # p => publisher'[q] = publisher[q]
    BY <1>2, <1>11 DEF PublishFails, Ends, Idle
  <2> QED BY <1>3, <2>1, <2>2 DEF TurnInv, Uploads
<1> QED BY <1>5, <1>6, <1>8, <1>9, <1>10, <1>11 DEF Next, Publishing

LEMMA PointerGrows ==
    ASSUME PacksInv, TurnInv, [Next]_vars
    PROVE  /\ "overlap" \notin marks => latest <= latest'
           /\ \A r \in 1..Newest : objects[r] # NoPack => objects'[r] # NoPack
<1>1. latest \in 0..Newest /\ objects \in [1..Newest -> Catalog \cup {NoPack}]
  BY DEF PacksInv, PacksTypeOK
<1>2. CASE UNCHANGED <<latest, objects>>
  BY <1>1, <1>2, PacksAssumption
<1>3. CASE Overlay \/ Boots \/ Refreshes \/ Relaunch \/ UNCHANGED vars
  BY <1>2, <1>3, ServerStays DEF serverVars
<1>4. ASSUME NEW p \in Publishers, PutPack(p)
      PROVE  latest' = latest /\ \A r \in 1..Newest : objects[r] # NoPack => objects'[r] # NoPack
  <2>1. publisher[p].pack # NoPack
    BY <1>4, PacksAssumption DEF PutPack, PacksInv, ServerInv, PublishersOK
  <2> QED BY <1>1, <1>4, <2>1 DEF PutPack
<1>5. ASSUME NEW p \in Publishers, PutLatest(p), "overlap" \notin marks PROVE latest <= latest'
  <2>1. /\ latest' = publisher[p].pack.revision /\ latest' \in Nat
        /\ \A q \in records : q.revision <= publisher[p].pack.revision
    BY <1>5, PacksAssumption DEF PutLatest, TurnInv, Uploads, PacksInv, ServerInv, PublishersOK
  <2>2. latest # 0 => objects[latest] \in records /\ objects[latest].revision = latest
    BY <1>1, PacksAssumption DEF PacksInv, ServerInv, ObjectsOK, PointerServes
  <2> QED BY <1>1, <2>1, <2>2, PacksAssumption
<1>6. ASSUME NEW p \in Publishers, Publishing(p), ~PutPack(p), ~PutLatest(p)
      PROVE  UNCHANGED <<latest, objects>>
  BY <1>6 DEF Publishing, Publish, CommitPack, PublishFails
<1>7. ASSUME NEW p \in Publishers, PutLatest(p) PROVE UNCHANGED objects
  BY <1>7 DEF PutLatest
<1> QED BY <1>1, <1>2, <1>3, <1>4, <1>5, <1>6, <1>7, PacksAssumption DEF Next

SeenInv ==
    /\ refresh.step = "object" => objects[refresh.revision] # NoPack
    /\ "overlap" \notin marks =>
        /\ refresh.step = "latest" => seen <= latest
        /\ refresh.step = "object" => seen <= refresh.revision
        /\ refresh.step \in {"store", "apply"} => seen <= refresh.pack.revision
        /\ booted /\ refresh.step = "idle" /\ "offline" \notin marks => seen <= active.revision

LEMMA SeenInit == Init => SeenInv
BY DEF Init, SeenInv, NoRefresh

\* A launch looks for no more than what the pointer names.
LEMMA OfferedIsNamed ==
    ASSUME PacksInv, TurnInv, "overlap" \notin marks
    PROVE  Offered <= latest
<1>1. latest \in 0..Newest
  BY DEF PacksInv, PacksTypeOK
<1>2. CASE Busy = {} /\ marks \cap {"overlap", "failed"} = {}
  <2>1. \A q \in records : q.revision <= latest
    BY <1>2 DEF TurnInv, Busy, Uploads
  <2> QED BY <1>1, <1>2, <2>1, LatestRevision, PacksAssumption DEF Offered
<1>3. CASE ~(Busy = {} /\ marks \cap {"overlap", "failed"} = {})
  BY <1>1, <1>3, PacksAssumption DEF Offered
<1> QED BY <1>2, <1>3

LEMMA SeenStep == PacksInv /\ HistoryOK /\ TurnInv /\ SeenInv /\ [Next]_vars => SeenInv'
<1> SUFFICES ASSUME PacksInv, HistoryOK, TurnInv, SeenInv, [Next]_vars PROVE SeenInv'
  OBVIOUS
<1>1. /\ active.revision \in Nat /\ latest \in 0..Newest /\ latest \in Nat /\ seen \in Nat
      /\ DeviceOK /\ refresh \in RefreshType
  BY PacksAssumption DEF PacksInv, PacksTypeOK, HistoryOK, Known
<1>2. "overlap" \in marks => "overlap" \in marks'
  BY MarksStay
<1>3. /\ latest' \in Nat /\ ("overlap" \notin marks => latest <= latest')
      /\ \A r \in 1..Newest : objects[r] # NoPack => objects'[r] # NoPack
  BY NextInv, PointerGrows, PacksAssumption DEF PacksInv, PacksTypeOK
<1>4. CASE Overlay \/ UNCHANGED vars \/ \E p \in Publishers : Publishing(p)
  <2>1. UNCHANGED deviceVars
    BY <1>4, DeviceStays
  <2>2. "offline" \in marks => "offline" \in marks'
    BY <1>4
       DEF Publishing, Publish, CommitPack, PutPack, PutLatest, PublishFails, Mark, Overlay,
           OverlayRevision, OverlayLessons, OverlayDone, vars
  <2> QED BY <1>1, <1>2, <1>3, <2>1, <2>2 DEF SeenInv, deviceVars, DeviceOK
<1>5. CASE Boots
  <2>1. /\ refresh'.step = "latest" /\ seen' = Offered /\ UNCHANGED latest
    BY <1>5 DEF Boots, HydrateContentPack, HydrateFails, Booted, NoRefresh, serverVars
  <2> QED BY <1>2, <2>1, OfferedIsNamed DEF SeenInv
<1>6. CASE FetchLatest
  <2>1. /\ refresh.step = "latest" /\ UNCHANGED <<active, seen, objects, marks>>
    BY <1>6 DEF FetchLatest, FetchLatestIf, Quiet, serverVars
  <2>2. CASE latest > active.revision
    <3>1. refresh'.step = "object" /\ refresh'.revision = latest
      BY <1>6, <2>2 DEF FetchLatest, FetchLatestIf, NoRefresh
    <3>2. objects[latest] # NoPack
      BY <1>1, <2>2 DEF PacksInv, ServerInv, PointerServes
    <3> QED BY <2>1, <3>1, <3>2 DEF SeenInv
  <2>3. CASE ~(latest > active.revision)
    <3>1. refresh'.step = "idle"
      BY <1>6, <2>3 DEF FetchLatest, FetchLatestIf, NoRefresh
    <3> QED BY <1>1, <2>1, <2>3, <3>1 DEF SeenInv
  <2> QED BY <2>2, <2>3
<1>7. CASE FetchPack
  <2>1. /\ refresh.step = "object" /\ UNCHANGED <<seen, marks>> /\ refresh.revision \in 1..Newest
    BY <1>1, <1>7 DEF FetchPack, Quiet, DeviceOK
  <2>2. objects[refresh.revision] # NoPack /\ objects[refresh.revision].revision = refresh.revision
    BY <2>1 DEF SeenInv, PacksInv, ServerInv, ObjectsOK
  <2>3. refresh' = [refresh EXCEPT !.step = "store", !.pack = objects[refresh.revision]]
    BY <1>7, <2>2 DEF FetchPack
  <2>4. refresh'.step = "store" /\ refresh'.pack = objects[refresh.revision]
    BY <1>1, <2>3 DEF RefreshType
  <2> QED BY <2>1, <2>2, <2>4 DEF SeenInv
<1>8. CASE FetchFails
  BY <1>8 DEF FetchFails, NoRefresh, Mark, SeenInv
<1>9. CASE StorePack \/ StoreFails
  <2>1. /\ refresh.step = "store" /\ refresh' = [refresh EXCEPT !.step = "apply"] /\ UNCHANGED seen
    BY <1>9 DEF StorePack, StoreFails, Quiet
  <2>2. refresh'.step = "apply" /\ refresh'.pack = refresh.pack
    BY <1>1, <2>1 DEF RefreshType
  <2> QED BY <1>2, <2>1, <2>2 DEF SeenInv
<1>10. CASE ApplyContentPack
  <2>1. /\ refresh.step = "apply" /\ active' = refresh.pack /\ refresh'.step = "idle"
        /\ UNCHANGED <<seen, marks>>
    BY <1>10 DEF ApplyContentPack, Apply, Quiet, NoRefresh
  <2> QED BY <2>1 DEF SeenInv
<1>11. CASE Relaunch
  BY <1>11 DEF Relaunch, NoRefresh, SeenInv
<1> QED BY <1>4, <1>5, <1>6, <1>7, <1>8, <1>9, <1>10, <1>11 DEF Next, Refreshes

\* A refresh that met no failure leaves the device with at least what was
\* published when it was launched, while publishers do not race: the order of
\* service.go Publish (record, object, pointer) is what makes it so.
THEOREM RefreshesCatchUp == Spec => []CaughtUp
<1>1. PacksInv /\ HistoryOK /\ SeenInv => CaughtUp
  BY PacksAssumption DEF PacksInv, PacksTypeOK, HistoryOK, SeenInv, CaughtUp, Known
<1> QED
  BY <1>1, InitInv, NextInv, HistoryInit, HistoryStep, TurnInit, TurnStep, SeenInit, SeenStep, PTL
     DEF Spec

(***************************************************************************)
(* The overlay.  While publishers take turns, every lesson of a recorded   *)
(* pack has a row from that pack or a newer one; the revision the overlay  *)
(* read is recorded, and what is recorded meanwhile only makes rows newer. *)
(***************************************************************************)
RowsFresh(r) ==
    \A q \in records : q.revision = r => \A l \in Range(q.lessons) :
        rows[l].pack # NoPack /\ rows[l].pack.revision >= r

RowsInv == "overlap" \notin marks => \A q \in records : RowsFresh(q.revision)

ListedFresh ==
    \A q \in records : q.revision = overlay.revision => \A l \in Range(q.lessons) :
        \E i \in DOMAIN overlay.rows :
            overlay.rows[i].lesson = l /\ overlay.rows[i].pack.revision >= overlay.revision

OverlayInv ==
    /\ overlay.step \in {"lessons", "answered"} /\ overlay.revision > 0 =>
          \E q \in records : q.revision = overlay.revision
    /\ overlay.step = "answered" /\ overlay.revision > 0 /\ "overlap" \notin marks => ListedFresh

LEMMA OverlayInit == Init => RowsInv /\ OverlayInv
BY DEF Init, RowsInv, OverlayInv, NoOverlay

\* A commit adds the newest pack, and every lesson of it is that pack's.
LEMMA CommitEvent ==
    ASSUME PacksInv, [Next]_vars
    PROVE  \/ UNCHANGED <<records, rows>>
           \/ \E p \in Publishers : LET pack == publisher[p].pack IN
                 /\ publisher[p].step = "transaction" /\ pack \in Catalog
                 /\ records' = records \cup {pack} /\ UNCHANGED <<marks, overlay>>
                 /\ \A l \in Lessons : rows'[l].pack = IF l \in Range(pack.lessons) THEN pack
                                                       ELSE rows[l].pack
<1>1. CASE Overlay \/ Boots \/ Refreshes \/ Relaunch \/ UNCHANGED vars
  BY <1>1, ServerStays DEF serverVars
<1>2. ASSUME NEW p \in Publishers, CommitPack(p), ~UNCHANGED <<records, rows>>
      PROVE  LET pack == publisher[p].pack IN
                 /\ publisher[p].step = "transaction" /\ pack \in Catalog
                 /\ records' = records \cup {pack} /\ UNCHANGED <<marks, overlay>>
                 /\ \A l \in Lessons : rows'[l].pack = IF l \in Range(pack.lessons) THEN pack
                                                       ELSE rows[l].pack
  <2>1. /\ publisher[p].step = "transaction" /\ records' = records \cup {publisher[p].pack}
        /\ UpsertLessons(publisher[p].pack) /\ UNCHANGED <<marks, overlay>>
    BY <1>2 DEF CommitPack
  <2>2. publisher[p].pack \in Catalog
    BY <2>1 DEF PacksInv, ServerInv, PublishersOK
  <2>3. \A l \in Lessons : rows'[l].pack = IF l \in Range(publisher[p].pack.lessons)
                                           THEN publisher[p].pack ELSE rows[l].pack
    BY <2>1 DEF UpsertLessons
  <2> QED BY <2>1, <2>2, <2>3
<1>3. ASSUME NEW p \in Publishers, Publishing(p), ~CommitPack(p) PROVE UNCHANGED <<records, rows>>
  BY <1>3 DEF Publishing, Publish, PutPack, PutLatest, PublishFails
<1> QED BY <1>1, <1>2, <1>3 DEF Next, Publishing

LEMMA RowsStep == PacksInv /\ TurnInv /\ RowsInv /\ [Next]_vars => RowsInv'
<1> SUFFICES ASSUME PacksInv, TurnInv, RowsInv, [Next]_vars, "overlap" \notin marks' PROVE RowsInv'
  BY DEF RowsInv
<1>1. "overlap" \notin marks
  BY MarksStay
<1>2. CASE UNCHANGED <<records, rows>>
  BY <1>1, <1>2 DEF RowsInv, RowsFresh
<1>3. ASSUME NEW p \in Publishers,
             LET pack == publisher[p].pack IN
                 /\ publisher[p].step = "transaction" /\ pack \in Catalog
                 /\ records' = records \cup {pack} /\ UNCHANGED <<marks, overlay>>
                 /\ \A l \in Lessons : rows'[l].pack = IF l \in Range(pack.lessons) THEN pack
                                                       ELSE rows[l].pack
      PROVE  RowsInv'
  <2> DEFINE pack == publisher[p].pack
  <2>1. SUFFICES ASSUME NEW q \in records', NEW l \in Range(q.lessons)
                 PROVE  rows'[l].pack # NoPack /\ rows'[l].pack.revision >= q.revision
    BY DEF RowsInv, RowsFresh
  <2>2. q \in Catalog /\ l \in Lessons
    BY <1>3, <2>1 DEF PacksInv, PacksTypeOK, Lessons
  <2>3. q.revision \in Nat /\ pack.revision \in Nat /\ pack # NoPack
    BY <1>3, <2>2, PacksAssumption
  <2>4. q = pack \/ q.revision < pack.revision
    BY <1>1, <1>3, <2>1 DEF TurnInv
  <2>5. CASE l \in Range(pack.lessons)
    BY <1>3, <2>2, <2>3, <2>4, <2>5
  <2>6. CASE l \notin Range(pack.lessons)
    <3>1. q \in records /\ rows'[l].pack = rows[l].pack
      BY <1>3, <2>1, <2>2, <2>6
    <3> QED BY <1>1, <2>1, <3>1 DEF RowsInv, RowsFresh
  <2> QED BY <2>5, <2>6
<1> QED BY <1>2, <1>3, CommitEvent

LEMMA OverlayStep ==
    PacksInv /\ HistoryOK /\ TurnInv /\ RowsInv /\ OverlayInv /\ [Next]_vars => OverlayInv'
<1> SUFFICES ASSUME PacksInv, HistoryOK, TurnInv, RowsInv, OverlayInv, [Next]_vars PROVE OverlayInv'
  OBVIOUS
<1>1. "overlap" \in marks => "overlap" \in marks'
  BY MarksStay
<1>2. overlay.revision \in Nat
  BY DEF HistoryOK
<1>3. CASE UNCHANGED <<overlay, records>>
  BY <1>1, <1>3 DEF OverlayInv, ListedFresh
<1>4. ASSUME NEW p \in Publishers, UNCHANGED <<overlay, marks>>, publisher[p].step = "transaction",
             records' = records \cup {publisher[p].pack}
      PROVE  OverlayInv'
  <2>1. (\E q \in records : q.revision = overlay.revision) =>
        \E q \in records' : q.revision = overlay.revision
    BY <1>4
  <2>2. ASSUME overlay.step = "answered", overlay.revision > 0, "overlap" \notin marks
        PROVE  ListedFresh'
    <3>1. ListedFresh /\ \E q \in records : q.revision = overlay.revision
      BY <2>2 DEF OverlayInv
    <3>2. publisher[p].pack.revision # overlay.revision
      BY <1>4, <2>2, <3>1, <1>2 DEF TurnInv
    <3> QED BY <1>4, <3>1, <3>2 DEF ListedFresh
  <2> QED BY <1>4, <2>1, <2>2 DEF OverlayInv
<1>5. CASE OverlayRevision
  <2>1. overlay'.step = "lessons" /\ overlay'.revision = LatestPackRevision /\ UNCHANGED records
    BY <1>5 DEF OverlayRevision, NoOverlay, serverVars
  <2>2. LatestPackRevision > 0 => \E q \in records : q.revision = LatestPackRevision
    BY LatestRevision
  <2> QED BY <2>1, <2>2 DEF OverlayInv
<1>6. CASE OverlayLessons
  <2>1. PICK listing \in LessonsInOrder :
            overlay' = [overlay EXCEPT !.step = "answered", !.rows = listing]
    BY <1>6 DEF OverlayLessons
  <2>2. /\ overlay'.step = "answered" /\ overlay'.revision = overlay.revision
        /\ overlay'.rows = listing /\ overlay.step = "lessons" /\ UNCHANGED <<records, marks>>
    BY <1>6, <2>1 DEF OverlayLessons, HistoryOK, OverlayForm, serverVars
  <2>3. ASSUME "overlap" \notin marks, NEW q \in records, q.revision = overlay.revision,
               NEW l \in Range(q.lessons)
        PROVE  \E i \in DOMAIN listing :
                  listing[i].lesson = l /\ listing[i].pack.revision >= overlay.revision
    <3>1. l \in Lessons /\ rows[l].pack # NoPack /\ rows[l].pack.revision >= overlay.revision
      BY <2>3 DEF RowsInv, RowsFresh, PacksInv, PacksTypeOK, Lessons
    <3>2. PICK f : /\ Range(f) = {m \in Lessons : rows[m].pack # NoPack}
                   /\ listing = [i \in DOMAIN f |-> [lesson |-> f[i], pack |-> rows[f[i]].pack]]
      BY DEF LessonsInOrder
    <3>3. PICK i \in DOMAIN f : f[i] = l
      BY <3>1, <3>2 DEF Range
    <3> QED BY <3>1, <3>2, <3>3
  <2> QED BY <2>2, <2>3 DEF OverlayInv, ListedFresh
<1>7. CASE OverlayDone
  BY <1>7 DEF OverlayDone, NoOverlay, OverlayInv
<1>8. CASE (\E p \in Publishers : Publishing(p)) \/ Boots \/ Refreshes \/ Relaunch \/ UNCHANGED vars
  <2>1. UNCHANGED overlay
    BY <1>8
       DEF Publishing, Publish, CommitPack, PutPack, PutLatest, PublishFails, Boots, Refreshes,
           HydrateContentPack, HydrateFails, Booted, FetchLatest, FetchLatestIf, FetchPack,
           FetchFails, StorePack, StoreFails, ApplyContentPack, Quiet, Relaunch, vars
  <2> QED BY <1>3, <1>4, <2>1, CommitEvent
<1> QED BY <1>5, <1>6, <1>7, <1>8 DEF Next, Overlay

\* An overlay never names a revision with an older text of one of its lessons:
\* overlay.go ForChild reads the revision before the rows, and a publisher
\* writes both in one transaction.
THEOREM OverlaysAreFresh == Spec => []OverlayFresh
<1>1. ASSUME PacksInv, HistoryOK, OverlayInv PROVE OverlayFresh
  <2> SUFFICES ASSUME overlay.step = "answered", overlay.revision > 0, "overlap" \notin marks
               PROVE  \A l \in Range(RecordOf(overlay.revision).lessons) :
                         \E i \in DOMAIN overlay.rows :
                            overlay.rows[i].lesson = l
                            /\ overlay.rows[i].pack.revision >= overlay.revision
    BY DEF OverlayFresh
  <2>1. ListedFresh /\ \E q \in records : q.revision = overlay.revision
    BY <1>1 DEF OverlayInv
  <2>2. RecordOf(overlay.revision) \in records
        /\ RecordOf(overlay.revision).revision = overlay.revision
    BY <2>1 DEF RecordOf
  <2> QED BY <2>1, <2>2 DEF ListedFresh
<1> QED
  BY <1>1, InitInv, NextInv, HistoryInit, HistoryStep, TurnInit, TurnStep, OverlayInit, RowsStep,
     OverlayStep, PTL DEF Spec
=============================================================================
