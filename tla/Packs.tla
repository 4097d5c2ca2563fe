------------------------------- MODULE Packs --------------------------------
(***************************************************************************)
(* How a content pack reaches a child: publishers (cmd/packs) write the    *)
(* database and then the public bucket, the overlay endpoint reads the     *)
(* database, and a device reads the bucket when it is launched, caches     *)
(* what it finds and makes it active (src/Bolo content/remote.ts).         *)
(*                                                                         *)
(* One category.  A pack is a record [name, revision, lessons]: the name   *)
(* tells two packs with one revision apart, and lessons are client ids in  *)
(* journey order.  Every pack passes Validate.  A publisher's transaction  *)
(* is one step: row locks and the unique indexes make two of them serial.  *)
(* Each call to the bucket is a step, and a publisher may end in error     *)
(* before any of them.  PackCache is what the device promises its screens. *)
(***************************************************************************)
EXTENDS Integers, Sequences, FiniteSets, SequencesExt, FiniteSetsExt

CONSTANTS
    Publishers,
    Catalog,      \* the packs a publisher may be given
    BundledPack,  \* the pack in the app
    NoPack,
    Newest,       \* no revision is above it
    MaxPublishes, \* bound: publish commands
    MaxLaunches,  \* bound: launches after the first
    MaxFaults     \* bound: failed calls and crashes

Lessons == UNION {Range(p.lessons) : p \in Catalog}

ASSUME PacksAssumption ==
    /\ Newest \in Nat \ {0}
    /\ BundledPack.revision = 1
    /\ \A p \in Catalog : /\ p.revision \in 1..Newest
                          /\ p.lessons \in Seq(Lessons)
                          /\ Len(p.lessons) > 0 /\ IsInjective(p.lessons)
    /\ NoPack \notin Catalog \cup {BundledPack}
    /\ {MaxPublishes, MaxLaunches, MaxFaults} \subseteq Nat

VARIABLES
    records,   \* content_packs: the packs recorded as published
    rows,      \* lessons: by client id, the pack last upserted from and the order index
    objects,   \* the bucket: by revision, the pack under that key
    latest,    \* latest.json: the revision it names, 0 when there is none
    publisher, \* by publisher: the step it is at and its pack
    overlay,   \* the overlay request: its step, the revision and the rows read
    active,    \* the device's active pack
    cached,    \* the pack in its storage
    booted,    \* its first screen is shown
    refresh,   \* its refresh: the step it is at, and what it goes for
    seen,      \* history: the revision the device should find when it boots
    best,      \* history: the newest revision that was ever active
    marks,     \* history: what went wrong so far
    publishes, launches, faults

serverVars == <<records, rows, objects, latest, publisher, publishes>>
deviceVars == <<active, cached, booted, refresh, seen, best, launches>>
vars == <<serverVars, overlay, deviceVars, marks, faults>>

Marks == {"overlap", "failed", "uncached", "offline"}
Idle == [step |-> "idle", pack |-> NoPack]
NoRefresh == [step |-> "idle", revision |-> 0, pack |-> NoPack]
NoOverlay == [step |-> "idle", revision |-> 0, rows |-> <<>>]

RevisionOf(pack) == IF pack = NoPack THEN 0 ELSE pack.revision

Fault == faults < MaxFaults /\ faults' = faults + 1
Mark(m) == marks' = marks \cup {m}

LatestPackRevision == Max({p.revision : p \in records} \cup {0})
RecordOf(r) == CHOOSE p \in records : p.revision = r

-----------------------------------------------------------------------------
(* Publishing.                                                             *)

Busy == {p \in Publishers : publisher[p].step # "idle"}

Goto(p, step) == publisher' = [publisher EXCEPT ![p].step = step]
Ends(p) == publisher' = [publisher EXCEPT ![p] = Idle]

\* The last revision is read outside the transaction; a pack not above it is
\* refused.
Publish(p, pack) ==
    /\ publisher[p] = Idle /\ publishes < MaxPublishes
    /\ publishes' = publishes + 1
    /\ IF pack.revision <= LatestPackRevision THEN UNCHANGED publisher
       ELSE publisher' = [publisher EXCEPT ![p] = [step |-> "transaction", pack |-> pack]]
    /\ marks' = marks \cup (IF Busy # {} THEN {"overlap"} ELSE {})
    /\ UNCHANGED <<records, rows, objects, latest, overlay, deviceVars, faults>>

\* Faulty: a lesson already there is left alone.
InsertLessons(pack) ==
    rows' = [l \in Lessons |->
                IF rows[l].pack = NoPack /\ l \in Range(pack.lessons)
                THEN [pack |-> pack, order |-> CHOOSE i \in DOMAIN pack.lessons : pack.lessons[i] = l]
                ELSE rows[l]]

\* Lessons the pack has are inserted or updated; others keep their rows.
UpsertLessons(pack) ==
    rows' = [l \in Lessons |->
                IF l \in Range(pack.lessons)
                THEN [pack |-> pack, order |-> CHOOSE i \in DOMAIN pack.lessons : pack.lessons[i] = l]
                ELSE rows[l]]

\* Faulty: the rollback is not reported, and the upload goes on.
CommitPackIgnoringError(p) ==
    LET pack == publisher[p].pack
    IN  /\ publisher[p].step = "transaction"
        /\ IF \E q \in records : q.revision = pack.revision
           THEN UNCHANGED <<records, rows>>
           ELSE records' = records \cup {pack} /\ UpsertLessons(pack)
        /\ Goto(p, "object")
        /\ UNCHANGED <<objects, latest, publishes, overlay, deviceVars, marks, faults>>

\* The revision is unique: the second transaction that inserts it rolls back.
CommitPack(p) ==
    LET pack == publisher[p].pack
    IN  /\ publisher[p].step = "transaction"
        /\ IF \E q \in records : q.revision = pack.revision
           THEN Ends(p) /\ UNCHANGED <<records, rows>>
           ELSE /\ records' = records \cup {pack}
                /\ UpsertLessons(pack)
                /\ Goto(p, "object")
        /\ UNCHANGED <<objects, latest, publishes, overlay, deviceVars, marks, faults>>

\* Faulty: a failed upload is not noticed.
PutPackIgnoringError(p) ==
    /\ publisher[p].step = "object"
    /\ \/ UNCHANGED objects
       \/ objects' = [objects EXCEPT ![publisher[p].pack.revision] = publisher[p].pack]
    /\ Goto(p, "latest")
    /\ UNCHANGED <<records, rows, latest, publishes, overlay, deviceVars, marks, faults>>

\* Faulty: the pointer is not written.
PutPackOnly(p) ==
    /\ publisher[p].step = "object"
    /\ objects' = [objects EXCEPT ![publisher[p].pack.revision] = publisher[p].pack]
    /\ Ends(p)
    /\ UNCHANGED <<records, rows, latest, publishes, overlay, deviceVars, marks, faults>>

PutPack(p) ==
    /\ publisher[p].step = "object"
    /\ objects' = [objects EXCEPT ![publisher[p].pack.revision] = publisher[p].pack]
    /\ Goto(p, "latest")
    /\ UNCHANGED <<records, rows, latest, publishes, overlay, deviceVars, marks, faults>>

PutLatest(p) ==
    /\ publisher[p].step = "latest"
    /\ latest' = publisher[p].pack.revision
    /\ Ends(p)
    /\ UNCHANGED <<records, rows, objects, publishes, overlay, deviceVars, marks, faults>>

\* A call fails, or the command is stopped, before its next step.
PublishFails(p) ==
    /\ publisher[p] # Idle /\ Fault
    /\ Ends(p)
    /\ Mark("failed")
    /\ UNCHANGED <<records, rows, objects, latest, publishes, overlay, deviceVars>>

-----------------------------------------------------------------------------
(* The overlay reads the revision, then the lessons in journey order, in   *)
(* two queries.  The unlock rule cuts that list after the first lesson not *)
(* mastered; the child's own AI lessons are Generation's.                  *)

OverlayRevision ==
    /\ overlay.step = "idle"
    /\ overlay' = [NoOverlay EXCEPT !.step = "lessons", !.revision = LatestPackRevision]
    /\ UNCHANGED <<serverVars, deviceVars, marks, faults>>

\* ORDER BY order_index: a lesson the newest pack no longer has keeps its index,
\* and two with one index come in either order.
LessonsInOrder ==
    LET listed == {l \in Lessons : rows[l].pack # NoPack}
        orders == {f \in [1..Cardinality(listed) -> listed] :
                      /\ Range(f) = listed
                      /\ \A i, j \in DOMAIN f : i < j => rows[f[i]].order <= rows[f[j]].order}
    IN  {[i \in DOMAIN f |-> [lesson |-> f[i], pack |-> rows[f[i]].pack]] : f \in orders}

OverlayLessons ==
    /\ overlay.step = "lessons"
    /\ \E listing \in LessonsInOrder :
            overlay' = [overlay EXCEPT !.step = "answered", !.rows = listing]
    /\ UNCHANGED <<serverVars, deviceVars, marks, faults>>

OverlayDone ==
    /\ overlay.step = "answered"
    /\ overlay' = NoOverlay
    /\ UNCHANGED <<serverVars, deviceVars, marks, faults>>

-----------------------------------------------------------------------------
(* The device.                                                             *)

\* applyContentPack
Apply(pack) ==
    /\ active' = pack
    /\ best' = Max({best, RevisionOf(pack)})

\* What a refresh from here on should find: the newest recorded revision, if
\* every command did all of its work, else what the pointer names.
Offered ==
    IF Busy = {} /\ marks \cap {"overlap", "failed"} = {} THEN LatestPackRevision ELSE latest

\* The refresh that follows runs while the screens are shown.
Booted ==
    /\ ~booted /\ booted' = TRUE
    /\ refresh' = [NoRefresh EXCEPT !.step = "latest"]
    /\ seen' = Offered
    /\ UNCHANGED <<cached, launches, serverVars, overlay>>

\* Faulty: applies whatever the cache gave.
HydrateUnguarded == Booted /\ Apply(cached) /\ UNCHANGED <<marks, faults>>

HydrateContentPack ==
    /\ Booted
    /\ IF cached # NoPack /\ cached.revision > active.revision
       THEN Apply(cached) ELSE UNCHANGED <<active, best>>
    /\ UNCHANGED <<marks, faults>>

\* AsyncStorage throws, and the fallback map of a new launch is empty.
HydrateFails ==
    /\ Booted /\ Fault
    /\ Mark("uncached")
    /\ UNCHANGED <<active, best>>

Quiet == UNCHANGED <<booted, seen, launches, serverVars, overlay>>

FetchLatestIf(newer, other) ==
    /\ refresh.step = "latest"
    /\ refresh' = IF newer THEN [NoRefresh EXCEPT !.step = "object", !.revision = latest]
                  ELSE other
    /\ UNCHANGED <<active, cached, best, marks, faults>> /\ Quiet

\* Faulty: compares with the cached pack, which may not be the active one.
FetchLatestOverCached == FetchLatestIf(latest > RevisionOf(cached), NoRefresh)

\* Faulty: takes any other revision.
FetchLatestOther == FetchLatestIf(latest \notin {0, active.revision}, NoRefresh)

\* Faulty: asks again until there is something new.
FetchLatestPolling == FetchLatestIf(latest > active.revision, refresh)

FetchLatest == FetchLatestIf(latest > active.revision, NoRefresh)

\* The object must be a pack of the revision that was asked for.
FetchPack ==
    /\ refresh.step = "object"
    /\ LET pack == objects[refresh.revision]
       IN  refresh' = IF pack # NoPack /\ pack.revision = refresh.revision
                      THEN [refresh EXCEPT !.step = "store", !.pack = pack]
                      ELSE NoRefresh
    /\ UNCHANGED <<active, cached, best, marks, faults>> /\ Quiet

\* Offline, an error status, or no answer within the timeout.
FetchFails ==
    /\ refresh.step \in {"latest", "object"} /\ Fault
    /\ refresh' = NoRefresh
    /\ Mark("offline")
    /\ UNCHANGED <<active, cached, best>> /\ Quiet

\* Faulty: the pack is not stored.
StorePackForgotten ==
    /\ refresh.step = "store"
    /\ refresh' = [refresh EXCEPT !.step = "apply"]
    /\ UNCHANGED <<active, cached, best, marks, faults>> /\ Quiet

StorePack ==
    /\ refresh.step = "store"
    /\ cached' = refresh.pack
    /\ refresh' = [refresh EXCEPT !.step = "apply"]
    /\ UNCHANGED <<active, best, marks, faults>> /\ Quiet

\* A failed write goes to the fallback map, and the pack is used all the same.
StoreFails ==
    /\ refresh.step = "store" /\ Fault
    /\ refresh' = [refresh EXCEPT !.step = "apply"]
    /\ Mark("uncached")
    /\ UNCHANGED <<active, cached, best>> /\ Quiet

ApplyContentPack ==
    /\ refresh.step = "apply"
    /\ Apply(refresh.pack)
    /\ refresh' = NoRefresh
    /\ UNCHANGED <<cached, marks, faults>> /\ Quiet

\* The process ends wherever it is; the next launch has the bundled pack.
Relaunch ==
    /\ launches < MaxLaunches
    /\ launches' = launches + 1
    /\ active' = BundledPack
    /\ booted' = FALSE
    /\ refresh' = NoRefresh
    /\ marks' = marks \ {"offline"}
    /\ UNCHANGED <<cached, seen, best, faults, serverVars, overlay>>

-----------------------------------------------------------------------------
Init ==
    /\ records = {}
    /\ rows = [l \in Lessons |-> [pack |-> NoPack, order |-> 0]]
    /\ objects = [r \in 1..Newest |-> NoPack]
    /\ latest = 0
    /\ publisher = [p \in Publishers |-> Idle]
    /\ overlay = NoOverlay
    /\ active = BundledPack /\ cached = NoPack /\ booted = FALSE
    /\ refresh = NoRefresh
    /\ seen = 0 /\ best = BundledPack.revision
    /\ marks = {}
    /\ publishes = 0 /\ launches = 0 /\ faults = 0

Publishing(p) ==
    \/ \E pack \in Catalog : Publish(p, pack)
    \/ CommitPack(p) \/ PutPack(p) \/ PutLatest(p) \/ PublishFails(p)
Overlay == OverlayRevision \/ OverlayLessons \/ OverlayDone
Boots == HydrateContentPack \/ HydrateFails
Refreshes ==
    \/ FetchLatest \/ FetchPack \/ FetchFails
    \/ StorePack \/ StoreFails \/ ApplyContentPack

Next == (\E p \in Publishers : Publishing(p)) \/ Overlay \/ Boots \/ Refreshes \/ Relaunch

\* Every storage call returns, and the abort timer ends a fetch that would not.
Spec == Init /\ [][Next]_vars /\ WF_vars(Boots) /\ WF_vars(Refreshes)

-----------------------------------------------------------------------------
(* Correctness.                                                            *)

Known == Catalog \cup {BundledPack}

RowType == [pack : Catalog \cup {NoPack}, order : Nat]
PublisherType == [step : {"idle", "transaction", "object", "latest"}, pack : Catalog \cup {NoPack}]
RefreshType == [step : {"idle", "latest", "object", "store", "apply"},
                revision : 0..Newest, pack : Catalog \cup {NoPack}]

\* The types of the variables.
PacksTypeOK ==
    /\ records \subseteq Catalog
    /\ rows \in [Lessons -> RowType]
    /\ objects \in [1..Newest -> Catalog \cup {NoPack}]
    /\ latest \in 0..Newest
    /\ publisher \in [Publishers -> PublisherType]
    /\ active \in Known /\ cached \in Catalog \cup {NoPack} /\ booted \in BOOLEAN
    /\ refresh \in RefreshType
    /\ marks \subseteq Marks

\* What is public is on record, whatever fails and whoever else publishes
\* (service.go: a dangling public object with no record is not fixable).
ObjectsRecorded == \A r \in DOMAIN objects : objects[r] # NoPack => objects[r] \in records

\* latest.json names an object that is there: a device that follows it finds
\* the pack (service.go: the pack is put before the pointer).
PointerServes == latest # 0 => objects[latest] # NoPack

\* What is public is on record and can be fetched.
PublicSound == ObjectsRecorded /\ PointerServes

\* A published revision is never overwritten, not even by two publishers given
\* different packs with one revision (service.go: an already-published revision
\* is immutable).
RevisionsImmutable ==
    [][ \A r \in DOMAIN objects : objects[r] # NoPack => objects'[r] = objects[r] ]_objects

\* An overlay never names a revision with an older text of one of its lessons,
\* though it reads the two at different moments (OverlayService.ForChild).
OverlayFresh ==
    overlay.step = "answered" /\ overlay.revision > 0 /\ "overlap" \notin marks =>
        \A l \in Range(RecordOf(overlay.revision).lessons) :
            \E i \in DOMAIN overlay.rows :
                overlay.rows[i].lesson = l /\ overlay.rows[i].pack.revision >= overlay.revision

\* A refresh that met no failure leaves the device with at least the newest
\* pack the database recorded when it booted, or, if a command was under way or
\* one had failed, the one latest.json named; unless publishers raced.
CaughtUp ==
    booted /\ refresh.step = "idle" /\ marks \cap {"offline", "overlap"} = {} =>
        active.revision >= seen

\* A child never gets an older pack than one that was active before, on this
\* launch or an earlier one, unless the cache failed: a crash between the
\* store and the swap, or a pointer that goes back, does no harm.
NeverOlder == booted /\ "uncached" \notin marks => active.revision >= best

\* The refresh comes to an end, and never keeps the first screen waiting.
RefreshEnds == (refresh.step # "idle" ~> refresh.step = "idle") /\ []<>booted

\* The device keeps the promise PackCache makes the screens.
Cache == INSTANCE PackCache WITH
    active <- active.revision, cached <- RevisionOf(cached), booted <- booted, Newest <- Newest
CachePromise == Cache!PackCacheSpec
=============================================================================
