-------------------------- MODULE Generation_proofs --------------------------
(***************************************************************************)
(* Theorems about lesson generation, for every set of workers, triggers    *)
(* and children, every curriculum, every generator and every bound on      *)
(* reviews and faults.                                                     *)
(***************************************************************************)
EXTENDS Generation, Extrema

Steps == {"idle", "check", "known", "existing", "lastIndex", "createJob", "generate", "store",
          "failed", "rejected", "completed", "needs_review", "return"}
QueueStates == {"none", "available", "running", "completed"}
WithRow == {"generate", "store", "failed", "rejected", "completed", "needs_review"}
USE DEF Steps, QueueStates, WithRow, NoLesson
USE GenerationAssumption

(***************************************************************************)
(* Type correctness.                                                       *)
(***************************************************************************)
\* River has a trigger running exactly while one worker holds it.
QueueOK ==
    /\ queue \in [Triggers -> QueueStates]
    /\ pc \in [Workers -> Steps]
    /\ trigger \in [Workers -> Triggers \cup {NoTrigger}]
    /\ \A w \in Workers : pc[w] = "idle" <=> trigger[w] = NoTrigger
    /\ \A t \in Triggers : queue[t] = "running" <=> \E w \in Workers : trigger[w] = t
    /\ \A v, w \in Workers : v # w /\ trigger[v] # NoTrigger => trigger[v] # trigger[w]

TablesOK ==
    /\ lessons \in Seq(LessonRecord)
    /\ generationJobs \in Seq(GenerationJob)
    /\ known \in [Children -> SUBSET Tokens]
    /\ reviews \in Nat /\ faults \in Nat

\* What a worker holds at each of its calls.
HeldOK ==
    /\ gc \in [Workers -> GenContext]
    /\ job \in [Workers -> Nat]
    /\ draft \in [Workers -> Drafts \cup {NoDraft}]
    /\ \A w \in Workers :
        /\ job[w] <= Len(generationJobs)
        /\ pc[w] \in WithRow <=> job[w] # 0
        /\ pc[w] = "store" <=> draft[w] # NoDraft
        /\ pc[w] \in {"idle", "check", "known", "return"} => gc[w] = NoContext

\* A run that is to note a lesson has stored one.
StoredOK ==
    \A w \in Workers : pc[w] \in {"completed", "needs_review"} =>
        \E i \in DOMAIN lessons : lessons[i].job = job[w]

TypeInv == QueueOK /\ TablesOK /\ HeldOK /\ StoredOK

LEMMA ChildrenOnly ==
    ASSUME QueueOK, NEW w \in Workers, pc[w] # "idle"
    PROVE  trigger[w] \in Triggers /\ Child(w) \in Children /\ Child(w) # Shared
BY DEF QueueOK, Child

\* A call ends with the next one, or the run ends with an error.
LEMMA Controls ==
    ASSUME NEW w \in Workers, Run(w) \/ Failure(w)
    PROVE  /\ pc[w] # "idle"
           /\ \/ Retry(w)
              \/ UNCHANGED <<queue, trigger>> /\ \E step \in Steps \ {"idle"} : Goto(w, step)
<1>1. CASE \/ CheckPending(w) \/ MasteredWordIDs(w) \/ ExistingWordIDs(w) \/ LastOrderIndex(w)
           \/ CreateJob(w)
  BY <1>1 DEF CheckPending, MasteredWordIDs, ExistingWordIDs, LastOrderIndex, CreateJob
<1>2. CASE Generate(w) \/ StoreGenerated(w)
  BY <1>2 DEF Generate, StoreGenerated, FinishAs
<1>3. CASE FinishJob(w) \/ FinishJobFails(w)
  BY <1>3 DEF FinishJob, FinishJobFails, EndOfRun, Return
<1>4. CASE GenerateFails(w)
  BY <1>4 DEF GenerateFails, FinishAs
<1>5. CASE CallFails(w) \/ InsertError(w)
  BY <1>5 DEF CallFails, InsertError
<1> QED BY <1>1, <1>2, <1>3, <1>4, <1>5 DEF Run, Failure

LEMMA QueueStep == QueueOK /\ [Next]_vars => QueueOK'
<1> SUFFICES ASSUME QueueOK, [Next]_vars PROVE QueueOK'
  OBVIOUS
<1>1. CASE UNCHANGED <<queue, pc, trigger>>
  BY <1>1 DEF QueueOK
<1>2. ASSUME NEW t \in Triggers, LessonGenerationRequested(t) PROVE QueueOK'
  BY <1>2 DEF LessonGenerationRequested, QueueOK, workerVars
<1>3. ASSUME NEW w \in Workers, Work(w) PROVE QueueOK'
  <2>1. PICK t \in Triggers : /\ queue[t] = "available"
                              /\ queue' = [queue EXCEPT ![t] = "running"]
                              /\ trigger' = [trigger EXCEPT ![w] = t]
    BY <1>3 DEF Work
  <2>2. pc[w] = "idle" /\ pc' = [pc EXCEPT ![w] = "check"]
    BY <1>3 DEF Work, Goto
  <2> QED BY <2>1, <2>2 DEF QueueOK
<1>4. ASSUME NEW w \in Workers, pc[w] # "idle", UNCHANGED <<queue, trigger>>,
             NEW step \in Steps \ {"idle"}, Goto(w, step)
      PROVE  QueueOK'
  BY <1>4 DEF QueueOK, Goto
<1>5. ASSUME NEW w \in Workers, pc[w] # "idle", NEW state \in {"available", "completed"},
             queue' = [queue EXCEPT ![trigger[w]] = state],
             trigger' = [trigger EXCEPT ![w] = NoTrigger], Goto(w, "idle")
      PROVE  QueueOK'
  <2>1. PICK t \in Triggers : t = trigger[w]
    BY <1>5 DEF QueueOK
  <2>2. \A v \in Workers : v # w => trigger[v] # t
    BY <2>1 DEF QueueOK
  <2>3. /\ queue' \in [Triggers -> QueueStates] /\ pc' \in [Workers -> Steps]
        /\ trigger' \in [Workers -> Triggers \cup {NoTrigger}]
        /\ \A v \in Workers : pc'[v] = "idle" <=> trigger'[v] = NoTrigger
    BY <1>5 DEF QueueOK, Goto
  <2>4. \A s \in Triggers : queue'[s] = "running" <=> \E v \in Workers : trigger'[v] = s
    BY <1>5, <2>1, <2>2 DEF QueueOK
  <2>5. \A u, v \in Workers : u # v /\ trigger'[u] # NoTrigger => trigger'[u] # trigger'[v]
    BY <1>5 DEF QueueOK
  <2> QED BY <2>3, <2>4, <2>5 DEF QueueOK
<1>6. ASSUME NEW w \in Workers, Run(w) \/ Failure(w) PROVE QueueOK'
  BY <1>4, <1>5, <1>6, Controls DEF Retry
<1>7. ASSUME NEW w \in Workers, Complete(w) PROVE QueueOK'
  BY <1>5, <1>7 DEF Complete
<1>8. CASE Crash
  BY <1>8 DEF Crash, QueueOK
<1>9. ASSUME NEW c \in Children, Master(c) PROVE QueueOK'
  BY <1>1, <1>9 DEF Master, workerVars
<1>10. ASSUME NEW i \in DOMAIN lessons, Approve(i) \/ Reject(i) PROVE QueueOK'
  BY <1>1, <1>10 DEF Approve, Reject, SetStatus, workerVars
<1>11. CASE Quiet \/ UNCHANGED vars
  BY <1>1, <1>11 DEF Quiet, vars, workerVars
<1> QED BY <1>2, <1>3, <1>6, <1>7, <1>8, <1>9, <1>10, <1>11 DEF Next

(***************************************************************************)
(* The rows of the tables.                                                 *)
(***************************************************************************)
\* What a run stores.
Stores(w) ==
    /\ pc[w] = "store" /\ lessons' \in Seq(LessonRecord) /\ Len(lessons') = Len(lessons) + 1
    /\ \A i \in 1..Len(lessons) : lessons'[i] = lessons[i]
    /\ LET new == lessons'[Len(lessons) + 1] IN
        /\ new.child = Child(w) /\ new.draft = draft[w] /\ new.order = gc[w].next
        /\ new.job = job[w] /\ new.seen = gc[w].seen /\ new.review = "none"
        /\ new.status = "active" => Approved(w)

LEMMA LessonStored ==
    ASSUME TypeInv, NEW w \in Workers, pc[w] = "store", NewLesson(w)
    PROVE  Stores(w)
<1>1. /\ lessons \in Seq(LessonRecord) /\ Child(w) \in Children
      /\ draft[w] \in Draft /\ gc[w] \in GenContext /\ job[w] \in Nat
  BY ChildrenOnly DEF TypeInv, TablesOK, HeldOK
<1>2. gc[w].next \in Nat /\ gc[w].seen \in SUBSET Nat
  BY <1>1 DEF GenContext
<1>3. PICK status \in {"active", "pending_review"} :
          status = IF Approved(w) THEN "active" ELSE "pending_review"
  OBVIOUS
<1> DEFINE new == [child |-> Child(w), draft |-> draft[w], order |-> gc[w].next,
                   status |-> status, job |-> job[w], seen |-> gc[w].seen, review |-> "none"]
<1>4. /\ new \in LessonRecord
      /\ new.child = Child(w) /\ new.draft = draft[w] /\ new.order = gc[w].next
      /\ new.job = job[w] /\ new.seen = gc[w].seen /\ new.review = "none" /\ new.status = status
  BY <1>1, <1>2 DEF LessonRecord, LessonStatus
<1>5. lessons' = Append(lessons, new)
  BY <1>3 DEF NewLesson
<1> HIDE DEF new
<1>6. /\ lessons' \in Seq(LessonRecord) /\ Len(lessons') = Len(lessons) + 1
      /\ lessons'[Len(lessons) + 1] = new
      /\ \A i \in 1..Len(lessons) : lessons'[i] = lessons[i]
  BY <1>1, <1>4, <1>5
<1> QED BY <1>3, <1>4, <1>6 DEF Stores

\* A review command changes the status of a row, and tells so.
Reviews(i) ==
    /\ lessons' \in Seq(LessonRecord) /\ Len(lessons') = Len(lessons)
    /\ \A k \in 1..Len(lessons) : k # i => lessons'[k] = lessons[k]
    /\ lessons'[i].child = lessons[i].child /\ lessons'[i].draft = lessons[i].draft
    /\ lessons'[i].order = lessons[i].order /\ lessons'[i].job = lessons[i].job
    /\ lessons'[i].seen = lessons[i].seen
    /\ lessons'[i].review \in {"reviewed", "revived"}
    /\ lessons'[i].status # "retired" /\ lessons'[i].review = "reviewed" =>
            lessons[i].status # "retired" /\ lessons[i].review # "revived"

LEMMA LessonReviewed ==
    ASSUME TypeInv, NEW i \in 1..Len(lessons), Approve(i) \/ Reject(i)
    PROVE  Reviews(i) /\ UNCHANGED <<known, queue, generationJobs, workerVars, faults>> /\ reviews' \in Nat
<1>1. PICK status \in {"active", "retired"}, review \in {"reviewed", "revived"} :
        /\ SetStatus(i, status, review)
        /\ status # "retired" /\ review = "reviewed" =>
                lessons[i].status # "retired" /\ lessons[i].review # "revived"
  BY DEF Approve, Reject
<1>2. lessons \in Seq(LessonRecord) /\ lessons[i] \in LessonRecord
  BY DEF TypeInv, TablesOK
<1> DEFINE new == [lessons[i] EXCEPT !.status = status, !.review = review]
<1>3. /\ new \in LessonRecord /\ new.status = status /\ new.review = review
      /\ new.child = lessons[i].child /\ new.draft = lessons[i].draft
      /\ new.order = lessons[i].order /\ new.job = lessons[i].job /\ new.seen = lessons[i].seen
  BY <1>2 DEF LessonRecord, LessonStatus
<1>4. lessons' = [lessons EXCEPT ![i] = new]
  BY <1>1, <1>2 DEF SetStatus
<1> HIDE DEF new
<1>5. Reviews(i)
  BY <1>1, <1>2, <1>3, <1>4 DEF Reviews
<1>6. UNCHANGED <<known, queue, generationJobs, workerVars, faults>> /\ reviews' \in Nat
  BY <1>1 DEF SetStatus, TypeInv, TablesOK
<1> QED BY <1>5, <1>6

\* A run opens its row, and closes it.
Opens(w) ==
    /\ generationJobs' \in Seq(GenerationJob) /\ Len(generationJobs') = Len(generationJobs) + 1
    /\ \A j \in 1..Len(generationJobs) : generationJobs'[j] = generationJobs[j]
    /\ LET new == generationJobs'[Len(generationJobs) + 1] IN
        new.trigger = trigger[w] /\ new.status = "running" /\ new.output = NoLesson

LEMMA RowOpened ==
    ASSUME TypeInv, NEW w \in Workers, pc[w] # "idle", NewJob(w)
    PROVE  Opens(w)
<1>1. generationJobs \in Seq(GenerationJob) /\ trigger[w] \in Triggers
  BY ChildrenOnly DEF TypeInv, TablesOK
<1> DEFINE new == [trigger |-> trigger[w], status |-> "running", output |-> NoLesson, error |-> "none"]
<1>2. /\ new \in GenerationJob /\ new.trigger = trigger[w] /\ new.status = "running"
      /\ new.output = NoLesson /\ generationJobs' = Append(generationJobs, new)
  BY <1>1 DEF GenerationJob, NewJob
<1> HIDE DEF new
<1> QED BY <1>1, <1>2 DEF Opens

Closes(w) ==
    /\ job[w] \in 1..Len(generationJobs)
    /\ generationJobs' \in Seq(GenerationJob) /\ Len(generationJobs') = Len(generationJobs)
    /\ \A j \in 1..Len(generationJobs) : j # job[w] => generationJobs'[j] = generationJobs[j]
    /\ generationJobs'[job[w]].trigger = generationJobs[job[w]].trigger
    /\ LET row == generationJobs'[job[w]] IN
        \/ /\ pc[w] \in {"failed", "rejected"} /\ row.status = "failed" /\ row.output = NoLesson
           /\ pc[w] = "rejected" => row.error = "rejected"
        \/ /\ pc[w] \in {"completed", "needs_review"} /\ row.status = pc[w]
           /\ row.output = Stored(w)

LEMMA RowClosed ==
    ASSUME TypeInv, NEW w \in Workers, UpdateRow(w)
    PROVE  Closes(w)
<1>1. /\ generationJobs \in Seq(GenerationJob) /\ job[w] \in 1..Len(generationJobs)
      /\ generationJobs[job[w]] \in GenerationJob /\ lessons \in Seq(LessonRecord)
  BY DEF TypeInv, TablesOK, HeldOK, UpdateRow
<1>2. ASSUME NEW status \in {"completed", "needs_review", "failed"}, NEW output \in Nat,
             NEW error \in {"none", "generator", "rejected"}, Update(w, status, output, error)
      PROVE  /\ generationJobs' \in Seq(GenerationJob) /\ Len(generationJobs') = Len(generationJobs)
             /\ \A j \in 1..Len(generationJobs) : j # job[w] => generationJobs'[j] = generationJobs[j]
             /\ generationJobs'[job[w]].trigger = generationJobs[job[w]].trigger
             /\ generationJobs'[job[w]].status = status
             /\ generationJobs'[job[w]].output = output
             /\ generationJobs'[job[w]].error = error
  <2> DEFINE new == [generationJobs[job[w]] EXCEPT !.status = status, !.output = output,
                                                   !.error = error]
  <2>1. /\ new \in GenerationJob /\ new.status = status /\ new.output = output
        /\ new.error = error /\ new.trigger = generationJobs[job[w]].trigger
    BY <1>1 DEF GenerationJob
  <2>2. generationJobs' = [generationJobs EXCEPT ![job[w]] = new]
    BY <1>1, <1>2 DEF Update
  <2> HIDE DEF new
  <2> QED BY <1>1, <2>1, <2>2
<1>3. CASE pc[w] = "failed" /\ Update(w, "failed", NoLesson, "generator")
  BY <1>1, <1>2, <1>3 DEF Closes
<1>4. CASE pc[w] = "rejected" /\ Update(w, "failed", NoLesson, "rejected")
  BY <1>1, <1>2, <1>4 DEF Closes
<1>5. CASE pc[w] \in {"completed", "needs_review"} /\ Update(w, pc[w], Stored(w), "none")
  <2>1. \E i \in DOMAIN lessons : lessons[i].job = job[w]
    BY <1>5 DEF TypeInv, StoredOK
  <2>2. Stored(w) \in 1..Len(lessons)
    BY <1>1, <2>1 DEF Stored
  <2> QED BY <1>1, <1>2, <1>5, <2>2 DEF Closes
<1> QED BY <1>3, <1>4, <1>5 DEF UpdateRow

\* What a step of a run does to the tables.
LEMMA RunsAndTables ==
    ASSUME TypeInv, NEW w \in Workers, Run(w) \/ Failure(w)
    PROVE  /\ UNCHANGED <<known, reviews>> /\ faults' \in {faults, faults + 1}
           /\ UNCHANGED lessons \/ Stores(w)
           /\ UNCHANGED generationJobs \/ Opens(w) \/ Closes(w)
<1>1. CASE \/ CheckPending(w) \/ MasteredWordIDs(w) \/ ExistingWordIDs(w) \/ LastOrderIndex(w)
           \/ Generate(w) \/ GenerateFails(w) \/ CallFails(w) \/ FinishJobFails(w)
  BY <1>1
     DEF CheckPending, MasteredWordIDs, ExistingWordIDs, LastOrderIndex, Generate, GenerateFails,
         CallFails, FinishJobFails, Fault, tables
<1>2. CASE CreateJob(w)
  <2>1. pc[w] # "idle" /\ NewJob(w) /\ UNCHANGED <<known, reviews, faults, lessons>>
    BY <1>2 DEF CreateJob
  <2> QED BY <2>1, RowOpened
<1>3. CASE StoreGenerated(w)
  <2>1. pc[w] = "store" /\ NewLesson(w) /\ UNCHANGED <<known, reviews, faults, generationJobs>>
    BY <1>3 DEF StoreGenerated
  <2> QED BY <2>1, LessonStored
<1>4. CASE FinishJob(w)
  <2>1. UpdateRow(w) /\ UNCHANGED <<known, reviews, faults, lessons>>
    BY <1>4 DEF FinishJob
  <2> QED BY <2>1, RowClosed
<1>5. CASE InsertError(w)
  <2>1. UNCHANGED <<known, reviews>> /\ faults' = faults + 1
    BY <1>5 DEF InsertError, Fault
  <2>2. CASE pc[w] = "createJob" /\ NewJob(w) /\ UNCHANGED lessons
    <3>1. pc[w] # "idle"
      BY <2>2
    <3> QED BY <2>1, <2>2, <3>1, RowOpened
  <2>3. CASE pc[w] = "store" /\ NewLesson(w) /\ UNCHANGED generationJobs
    BY <2>1, <2>3, LessonStored
  <2> QED BY <1>5, <2>2, <2>3 DEF InsertError
<1> QED BY <1>1, <1>2, <1>3, <1>4, <1>5 DEF Run, Failure

\* A lesson keeps its place, its child, its ids and its run.
Lasts == \A i \in 1..Len(lessons) :
    /\ i \in 1..Len(lessons')
    /\ lessons'[i].child = lessons[i].child /\ lessons'[i].draft = lessons[i].draft
    /\ lessons'[i].order = lessons[i].order /\ lessons'[i].job = lessons[i].job
    /\ lessons'[i].seen = lessons[i].seen

\* The steps, as far as the tables are concerned.
LEMMA TableEvents ==
    ASSUME TypeInv, [Next]_vars
    PROVE  /\ TablesOK' /\ Lasts
           /\ \/ UNCHANGED lessons
              \/ \E w \in Workers : Stores(w)
              \/ \E i \in 1..Len(lessons) : Reviews(i)
           /\ \/ UNCHANGED generationJobs
              \/ \E w \in Workers : Opens(w) \/ Closes(w)
           /\ faults <= faults' /\ \A c \in Children : known[c] \subseteq known'[c]
<1>1. /\ lessons \in Seq(LessonRecord) /\ generationJobs \in Seq(GenerationJob)
      /\ known \in [Children -> SUBSET Tokens] /\ reviews \in Nat /\ faults \in Nat
  BY DEF TypeInv, TablesOK
<1>2. CASE UNCHANGED <<known, tables, reviews>> /\ faults' \in {faults, faults + 1}
  BY <1>1, <1>2 DEF TablesOK, Lasts, tables
<1>3. ASSUME NEW w \in Workers, Run(w) \/ Failure(w)
      PROVE  /\ TablesOK' /\ Lasts
             /\ UNCHANGED lessons \/ Stores(w)
             /\ UNCHANGED generationJobs \/ Opens(w) \/ Closes(w)
             /\ UNCHANGED known /\ faults <= faults'
  <2>1. /\ UNCHANGED <<known, reviews>> /\ faults' \in {faults, faults + 1}
        /\ UNCHANGED lessons \/ Stores(w)
        /\ UNCHANGED generationJobs \/ Opens(w) \/ Closes(w)
    BY <1>3, RunsAndTables
  <2>2. lessons' \in Seq(LessonRecord) /\ Lasts
    BY <1>1, <2>1 DEF Stores, Lasts
  <2>3. generationJobs' \in Seq(GenerationJob)
    BY <1>1, <2>1 DEF Opens, Closes
  <2> QED BY <1>1, <2>1, <2>2, <2>3 DEF TablesOK
<1>4. ASSUME NEW i \in DOMAIN lessons, Approve(i) \/ Reject(i)
      PROVE  /\ TablesOK' /\ Lasts /\ i \in 1..Len(lessons) /\ Reviews(i)
             /\ UNCHANGED <<known, generationJobs, faults>>
  <2>1. i \in 1..Len(lessons)
    BY <1>1
  <2>2. Reviews(i) /\ UNCHANGED <<known, generationJobs, faults>> /\ reviews' \in Nat
    BY <1>4, <2>1, LessonReviewed
  <2>3. Lasts
    BY <1>1, <2>1, <2>2 DEF Reviews, Lasts
  <2>4. TablesOK'
    BY <1>1, <2>2 DEF Reviews, TablesOK
  <2> QED BY <2>1, <2>2, <2>3, <2>4
<1>5. ASSUME NEW c \in Children, Master(c)
      PROVE  /\ TablesOK' /\ UNCHANGED <<tables, faults>>
             /\ \A d \in Children : known[d] \subseteq known'[d]
  BY <1>1, <1>5 DEF Master, TablesOK, tables
<1>6. CASE UNCHANGED vars
  BY <1>2, <1>6 DEF vars
<1>7. ASSUME NEW t \in Triggers, LessonGenerationRequested(t)
      PROVE  UNCHANGED <<known, tables, reviews>> /\ faults' \in {faults, faults + 1}
  BY <1>7 DEF LessonGenerationRequested
<1>8. ASSUME NEW w \in Workers, Work(w) \/ Complete(w)
      PROVE  UNCHANGED <<known, tables, reviews>> /\ faults' \in {faults, faults + 1}
  BY <1>8 DEF Work, Complete
<1>9. ASSUME Crash PROVE UNCHANGED <<known, tables, reviews>> /\ faults' \in {faults, faults + 1}
  BY <1>9 DEF Crash, Fault
<1>10. ASSUME NEW c \in Children, Master(c)
       PROVE /\ TablesOK' /\ Lasts /\ UNCHANGED <<lessons, generationJobs>>
             /\ faults <= faults' /\ \A d \in Children : known[d] \subseteq known'[d]
  BY <1>1, <1>5, <1>10 DEF Lasts, tables
<1>11. ASSUME UNCHANGED <<known, tables, reviews>>, faults' \in {faults, faults + 1}
       PROVE  /\ TablesOK' /\ Lasts /\ UNCHANGED <<lessons, generationJobs>>
              /\ faults <= faults' /\ \A c \in Children : known[c] \subseteq known'[c]
  BY <1>1, <1>11 DEF TablesOK, Lasts, tables
<1> DEFINE Goal ==
            /\ TablesOK' /\ Lasts
            /\ \/ UNCHANGED lessons
               \/ \E w \in Workers : Stores(w)
               \/ \E i \in 1..Len(lessons) : Reviews(i)
            /\ \/ UNCHANGED generationJobs
               \/ \E w \in Workers : Opens(w) \/ Closes(w)
            /\ faults <= faults' /\ \A c \in Children : known[c] \subseteq known'[c]
<1>12. ASSUME NEW w \in Workers, Run(w) \/ Failure(w) PROVE Goal
  BY <1>3, <1>12
<1>13. ASSUME NEW i \in DOMAIN lessons, Approve(i) \/ Reject(i) PROVE Goal
  BY <1>1, <1>4, <1>13
<1>14. ASSUME NEW t \in Triggers, LessonGenerationRequested(t) PROVE Goal
  BY <1>7, <1>11, <1>14
<1>15. ASSUME NEW w \in Workers, Work(w) \/ Complete(w) PROVE Goal
  BY <1>8, <1>11, <1>15
<1>16. ASSUME Crash PROVE Goal
  BY <1>9, <1>11, <1>16
<1>17. ASSUME NEW c \in Children, Master(c) PROVE Goal
  BY <1>10, <1>17
<1>18. ASSUME UNCHANGED vars PROVE Goal
  BY <1>11, <1>18 DEF vars
<1> HIDE DEF Goal
<1>19. Goal
  BY <1>12, <1>13, <1>14, <1>15, <1>16, <1>17, <1>18 DEF Next, Quiet
<1> QED BY <1>19 DEF Goal

(***************************************************************************)
(* What a worker holds.                                                    *)
(***************************************************************************)
\* The index a run is told follows that of every lesson.
LEMMA NextIndex ==
    ASSUME TablesOK
    PROVE  LET next == 1 + Max({-1} \cup {lessons[i].order : i \in DOMAIN lessons})
           IN  next \in Nat /\ \A i \in DOMAIN lessons : lessons[i].order < next
<1> DEFINE orders == {lessons[i].order : i \in DOMAIN lessons}
           S == {-1} \cup orders
<1>1. lessons \in Seq(LessonRecord) /\ DOMAIN lessons = 1..Len(lessons) /\ Len(lessons) \in Nat
  BY DEF TablesOK
<1>2. \A i \in DOMAIN lessons : lessons[i].order \in Nat
  <2>1. \A i \in DOMAIN lessons : lessons[i] \in LessonRecord
    BY <1>1
  <2> QED BY <2>1 DEF LessonRecord
<1>3. IsFiniteSet(orders)
  <2>1. IsFiniteSet(DOMAIN lessons)
    BY <1>1, FS_Interval
  <2> DEFINE f == [i \in DOMAIN lessons |-> lessons[i].order]
  <2>2. f \in Surjection(DOMAIN lessons, orders)
    BY DEF Surjection
  <2> QED BY <2>1, <2>2, FS_Surjection
<1>4. IsFiniteSet(S) /\ S \in SUBSET Int /\ S # {}
  <2>1. orders \in SUBSET Int
    BY <1>2
  <2> HIDE DEF orders
  <2>2. IsFiniteSet(orders \cup {-1}) /\ S = orders \cup {-1}
    BY <1>3, FS_AddElement
  <2>3. -1 \in Int
    OBVIOUS
  <2>4. S \in SUBSET Int /\ S # {}
    BY <2>1, <2>3
  <2> HIDE DEF S
  <2> QED BY <2>2, <2>4
<1>5. Max(S) \in S /\ \A x \in S : x <= Max(S)
  BY <1>4, LargestOf
<1>6. -1 \in S /\ \A i \in DOMAIN lessons : lessons[i].order \in S
  OBVIOUS
<1> DEFINE next == 1 + Max(S)
<1>7. next \in Nat /\ \A i \in DOMAIN lessons : lessons[i].order < next
  <2> HIDE DEF S
  <2>1. Max(S) \in Int /\ -1 <= Max(S)
    BY <1>4, <1>5, <1>6
  <2>2. \A i \in DOMAIN lessons : lessons[i].order <= Max(S)
    BY <1>5, <1>6
  <2> QED BY <1>2, <2>1, <2>2
<1> QED BY <1>7

LEMMA HeldStep ==
    ASSUME TypeInv, QueueOK', [Next]_vars
    PROVE  HeldOK'
<1>1. QueueOK /\ TablesOK /\ HeldOK
  BY DEF TypeInv
<1>2. Len(generationJobs) \in Nat /\ NoContext \in GenContext
  BY <1>1 DEF TablesOK, NoContext, GenContext
<1>3. CASE UNCHANGED <<pc, gc, job, draft, generationJobs>>
  BY <1>1, <1>3 DEF HeldOK
<1>4. ASSUME NEW t \in Triggers, LessonGenerationRequested(t) PROVE HeldOK'
  BY <1>3, <1>4 DEF LessonGenerationRequested, workerVars, tables
<1>5. ASSUME NEW w \in Workers, Work(w) \/ CheckPending(w) \/ Complete(w) PROVE HeldOK'
  <2>1. UNCHANGED <<gc, job, draft, generationJobs>>
    BY <1>5 DEF Work, CheckPending, Complete, tables
  <2>2. PICK step \in {"idle", "check", "known", "return"} : pc' = [pc EXCEPT ![w] = step]
    BY <1>5 DEF Work, CheckPending, Complete, Goto
  <2>3. pc[w] \in {"idle", "check", "return"}
    BY <1>5 DEF Work, CheckPending, Complete
  <2> QED BY <1>1, <2>1, <2>2, <2>3 DEF HeldOK, QueueOK
\* The queries fill the context.
<1>6. ASSUME NEW w \in Workers, NEW new \in GenContext, gc' = [gc EXCEPT ![w] = new],
             pc[w] \in {"known", "existing", "lastIndex"},
             NEW step \in {"existing", "lastIndex", "createJob"}, Goto(w, step),
             UNCHANGED <<job, draft, generationJobs>>
      PROVE  HeldOK'
  BY <1>1, <1>6 DEF HeldOK, QueueOK, Goto
<1>7. ASSUME NEW w \in Workers, MasteredWordIDs(w) PROVE HeldOK'
  <2>1. known[Child(w)] \in SUBSET Tokens /\ gc[w] \in GenContext
    BY <1>1, <1>7, ChildrenOnly DEF MasteredWordIDs, TablesOK, HeldOK
  <2> DEFINE new == [gc[w] EXCEPT !.known = known[Child(w)]]
  <2>2. new \in GenContext
    BY <2>1 DEF GenContext
  <2>3. gc' = [gc EXCEPT ![w] = new]
    BY <1>7 DEF MasteredWordIDs
  <2>4. pc[w] = "known" /\ Goto(w, "existing") /\ UNCHANGED <<job, draft, generationJobs>>
    BY <1>7 DEF MasteredWordIDs, tables
  <2> HIDE DEF new
  <2> QED BY <1>6, <2>2, <2>3, <2>4
<1>8. ASSUME NEW w \in Workers, ExistingWordIDs(w) PROVE HeldOK'
  <2> DEFINE words == UNION {lessons[i].draft.words : i \in Unretired}
             ids == {lessons[i].draft.id : i \in Unretired}
  <2>1. \A i \in DOMAIN lessons : lessons[i].draft.words \subseteq WordIds /\ lessons[i].draft.id \in LessonIds
    <3>1. \A i \in DOMAIN lessons : lessons[i] \in LessonRecord
      BY <1>1 DEF TablesOK
    <3>2. \A i \in DOMAIN lessons : lessons[i].draft \in Draft
      BY <3>1 DEF LessonRecord
    <3> QED BY <3>2 DEF Draft
  <2>2. words \in SUBSET WordIds /\ ids \in SUBSET LessonIds /\ Unretired \in SUBSET Nat
    BY <1>1, <2>1 DEF Unretired, TablesOK
  <2>3. gc[w] \in GenContext /\ pc[w] = "existing" /\ Goto(w, "lastIndex")
        /\ UNCHANGED <<job, draft, generationJobs>>
    BY <1>1, <1>8 DEF HeldOK, ExistingWordIDs, tables
  <2>4. gc' = [gc EXCEPT ![w].words = words, ![w].ids = ids, ![w].seen = Unretired]
    BY <1>8 DEF ExistingWordIDs
  <2> HIDE DEF words, ids
  <2> DEFINE new == [gc[w] EXCEPT !.words = words, !.ids = ids, !.seen = Unretired]
  <2>5. new \in GenContext
    BY <2>2, <2>3 DEF GenContext
  <2>6. gc' = [gc EXCEPT ![w] = new]
    BY <2>4
  <2> HIDE DEF new
  <2> QED BY <1>6, <2>3, <2>5, <2>6
<1>9. ASSUME NEW w \in Workers, LastOrderIndex(w) PROVE HeldOK'
  <2> DEFINE next == 1 + Max({-1} \cup {lessons[i].order : i \in DOMAIN lessons})
  <2>1. next \in Nat
    BY <1>1, NextIndex
  <2>2. gc[w] \in GenContext /\ pc[w] = "lastIndex" /\ Goto(w, "createJob")
        /\ UNCHANGED <<job, draft, generationJobs>> /\ gc' = [gc EXCEPT ![w].next = next]
    BY <1>1, <1>9 DEF HeldOK, LastOrderIndex, tables
  <2> HIDE DEF next
  <2> DEFINE new == [gc[w] EXCEPT !.next = next]
  <2>3. new \in GenContext
    BY <2>1, <2>2 DEF GenContext
  <2>4. gc' = [gc EXCEPT ![w] = new]
    BY <2>2
  <2> HIDE DEF new
  <2> QED BY <1>6, <2>2, <2>3, <2>4
<1>10. ASSUME NEW w \in Workers, CreateJob(w) PROVE HeldOK'
  <2>1. Len(generationJobs') = Len(generationJobs) + 1
    BY <1>10, RowOpened DEF CreateJob, Opens
  <2> QED BY <1>1, <1>2, <1>10, <2>1 DEF CreateJob, HeldOK, QueueOK, Goto
<1>11. ASSUME NEW w \in Workers, Generate(w) PROVE HeldOK'
  <2>1. UNCHANGED <<job, generationJobs>> /\ pc[w] = "generate"
    BY <1>11 DEF Generate, tables
  <2>2. CASE FinishAs(w, "rejected")
    BY <1>1, <2>1, <2>2, <1>2 DEF HeldOK, QueueOK, FinishAs, Goto
  <2>3. ASSUME NEW d \in Drafts, draft' = [draft EXCEPT ![w] = d], Goto(w, "store"), UNCHANGED gc
        PROVE  HeldOK'
    BY <1>1, <2>1, <2>3 DEF HeldOK, QueueOK, Goto
  <2> QED BY <1>11, <2>2, <2>3 DEF Generate
<1>12. ASSUME NEW w \in Workers, pc[w] \in {"generate", "store"}, UNCHANGED <<job, generationJobs>>,
              NEW outcome \in {"failed", "completed", "needs_review"}, FinishAs(w, outcome)
       PROVE  HeldOK'
  BY <1>1, <1>2, <1>12 DEF HeldOK, QueueOK, FinishAs, Goto
<1>13. ASSUME NEW w \in Workers, StoreGenerated(w) \/ GenerateFails(w) PROVE HeldOK'
  BY <1>12, <1>13 DEF StoreGenerated, GenerateFails, tables
\* A run that ends forgets.
<1>14. ASSUME NEW w \in Workers, Forget(w), NEW step \in {"idle", "return"}, Goto(w, step),
              Len(generationJobs) <= Len(generationJobs'), Len(generationJobs') \in Nat
       PROVE  HeldOK'
  BY <1>1, <1>2, <1>14 DEF HeldOK, QueueOK, Forget, Goto
<1>15. ASSUME NEW w \in Workers, \/ FinishJob(w) \/ CallFails(w) \/ InsertError(w)
                                 \/ FinishJobFails(w)
       PROVE  HeldOK'
  <2>1. Run(w) \/ Failure(w)
    BY <1>15 DEF Run, Failure
  <2>2. Len(generationJobs) <= Len(generationJobs') /\ Len(generationJobs') \in Nat
    BY <1>2, <2>1, RunsAndTables DEF Opens, Closes
  <2>3. Forget(w) /\ \E step \in {"idle", "return"} : Goto(w, step)
    BY <1>15 DEF FinishJob, CallFails, InsertError, FinishJobFails, EndOfRun, Retry, Return
  <2> QED BY <1>14, <2>2, <2>3
<1>16. CASE Crash
  BY <1>1, <1>2, <1>16 DEF Crash, HeldOK, tables
<1>17. ASSUME NEW c \in Children, Master(c) PROVE HeldOK'
  BY <1>3, <1>17 DEF Master, workerVars, tables
<1>18. ASSUME NEW i \in DOMAIN lessons, Approve(i) \/ Reject(i) PROVE HeldOK'
  BY <1>3, <1>18 DEF Approve, Reject, SetStatus, workerVars
<1>19. CASE UNCHANGED vars
  BY <1>3, <1>19 DEF vars, workerVars, tables
<1> QED
  BY <1>4, <1>5, <1>7, <1>8, <1>9, <1>10, <1>11, <1>13, <1>15, <1>16, <1>17, <1>18, <1>19
     DEF Next, Run, Failure, Quiet

LEMMA OthersStay ==
    ASSUME TypeInv, NEW v \in Workers, Work(v) \/ Run(v) \/ Complete(v) \/ Failure(v),
           NEW u \in Workers, u # v
    PROVE  UNCHANGED <<pc[u], trigger[u], gc[u], job[u], draft[u]>>
<1>1. QueueOK /\ HeldOK
  BY DEF TypeInv
<1>2. CASE Retry(v) \/ Return(v)
  BY <1>1, <1>2 DEF Retry, Return, Forget, Goto, QueueOK, HeldOK
<1>3. ASSUME UNCHANGED <<trigger, job>>, NEW step \in Steps, FinishAs(v, step)
      PROVE  UNCHANGED <<pc[u], trigger[u], gc[u], job[u], draft[u]>>
  BY <1>1, <1>3 DEF FinishAs, Goto, QueueOK, HeldOK
<1>4. CASE Work(v) \/ Complete(v)
  <2>1. UNCHANGED <<gc, job, draft>> /\ \E t \in Triggers \cup {NoTrigger} : trigger' = [trigger EXCEPT ![v] = t]
    BY <1>4 DEF Work, Complete
  <2>2. pc'[u] = pc[u]
    BY <1>1, <1>4 DEF Work, Complete, Goto, QueueOK
  <2> QED BY <1>1, <2>1, <2>2 DEF QueueOK
<1>5. CASE \/ CheckPending(v) \/ MasteredWordIDs(v) \/ ExistingWordIDs(v) \/ LastOrderIndex(v)
           \/ CreateJob(v)
  <2>1. UNCHANGED <<trigger, draft>> /\ \E step \in Steps : Goto(v, step)
    BY <1>5 DEF CheckPending, MasteredWordIDs, ExistingWordIDs, LastOrderIndex, CreateJob
  <2>2. pc'[u] = pc[u]
    BY <1>1, <2>1 DEF Goto, QueueOK
  <2>3. job'[u] = job[u]
    BY <1>1, <1>5
       DEF CheckPending, MasteredWordIDs, ExistingWordIDs, LastOrderIndex, CreateJob, HeldOK
  <2>4. gc'[u] = gc[u]
    BY <1>1, <1>5
       DEF CheckPending, MasteredWordIDs, ExistingWordIDs, LastOrderIndex, CreateJob, HeldOK
  <2> QED BY <2>1, <2>2, <2>3, <2>4
<1>6. CASE Generate(v)
  <2>1. CASE FinishAs(v, "rejected")
    BY <1>3, <1>6, <2>1 DEF Generate
  <2>2. ASSUME NEW d \in Drafts, draft' = [draft EXCEPT ![v] = d], Goto(v, "store"), UNCHANGED gc
        PROVE  UNCHANGED <<pc[u], trigger[u], gc[u], job[u], draft[u]>>
    BY <1>1, <1>6, <2>2 DEF Generate, Goto, QueueOK, HeldOK
  <2> QED BY <1>6, <2>1, <2>2 DEF Generate
<1>7. CASE StoreGenerated(v) \/ GenerateFails(v)
  <2>1. UNCHANGED <<trigger, job>> /\ \E step \in Steps : FinishAs(v, step)
    BY <1>7 DEF StoreGenerated, GenerateFails
  <2> QED BY <1>3, <2>1
<1>8. CASE FinishJob(v) \/ FinishJobFails(v) \/ CallFails(v) \/ InsertError(v)
  BY <1>2, <1>8 DEF FinishJob, FinishJobFails, EndOfRun, CallFails, InsertError
<1> QED BY <1>4, <1>5, <1>6, <1>7, <1>8 DEF Run, Failure

LEMMA AllStay ==
    ASSUME \/ \E t \in Triggers : LessonGenerationRequested(t)
           \/ \E c \in Children : Master(c)
           \/ \E i \in DOMAIN lessons : Approve(i) \/ Reject(i)
           \/ UNCHANGED vars
    PROVE  UNCHANGED workerVars
BY DEF LessonGenerationRequested, Master, Approve, Reject, SetStatus, vars, workerVars

\* Only a run that stores its lesson is to note one.
LEMMA Notes ==
    ASSUME TypeInv, [Next]_vars, NEW w \in Workers, pc'[w] \in {"completed", "needs_review"}
    PROVE  \/ pc[w] = pc'[w] /\ UNCHANGED <<job[w], trigger[w]>>
           \/ Stores(w) /\ UNCHANGED <<job, trigger>>
<1>1. QueueOK
  BY DEF TypeInv
<1>2. CASE UNCHANGED workerVars
  BY <1>2 DEF workerVars
<1>3. ASSUME NEW v \in Workers, Work(v) \/ Run(v) \/ Complete(v) \/ Failure(v), v # w
      PROVE  pc[w] = pc'[w] /\ UNCHANGED <<job[w], trigger[w]>>
  BY <1>3, OthersStay
<1>4. CASE StoreGenerated(w)
  BY <1>4, LessonStored DEF StoreGenerated
<1>5. ASSUME NEW step \in Steps \ {"completed", "needs_review"}, Goto(w, step) PROVE FALSE
  BY <1>1, <1>5 DEF QueueOK, Goto
<1>6. CASE \/ Work(w) \/ CheckPending(w) \/ MasteredWordIDs(w) \/ ExistingWordIDs(w)
           \/ LastOrderIndex(w) \/ CreateJob(w) \/ Generate(w) \/ Complete(w) \/ GenerateFails(w)
  BY <1>5, <1>6
     DEF Work, CheckPending, MasteredWordIDs, ExistingWordIDs, LastOrderIndex, CreateJob, Generate,
         Complete, GenerateFails, FinishAs
<1>7. CASE FinishJob(w) \/ CallFails(w) \/ InsertError(w) \/ FinishJobFails(w)
  BY <1>5, <1>7
     DEF FinishJob, CallFails, InsertError, FinishJobFails, EndOfRun, Retry, Return
<1>8. CASE Crash
  BY <1>8 DEF Crash
<1> QED BY <1>2, <1>3, <1>4, <1>6, <1>7, <1>8, AllStay DEF Next, Run, Failure, Quiet

LEMMA TypeInit == Init => TypeInv
<1> SUFFICES ASSUME Init PROVE TypeInv
  OBVIOUS
<1> USE DEF Init
<1>1. QueueOK
  BY DEF QueueOK
<1>2. TablesOK
  BY DEF TablesOK
<1>3. HeldOK /\ StoredOK
  BY DEF HeldOK, StoredOK, NoContext, GenContext
<1> QED BY <1>1, <1>2, <1>3 DEF TypeInv

LEMMA TypeStep == TypeInv /\ [Next]_vars => TypeInv'
<1> SUFFICES ASSUME TypeInv, [Next]_vars PROVE TypeInv'
  OBVIOUS
<1>1. QueueOK' /\ TablesOK' /\ Lasts
  BY QueueStep, TableEvents DEF TypeInv
<1>2. HeldOK'
  BY <1>1, HeldStep
<1>3. StoredOK'
  <2>1. SUFFICES ASSUME NEW w \in Workers, pc'[w] \in {"completed", "needs_review"}
                 PROVE  \E i \in DOMAIN lessons' : lessons'[i].job = job'[w]
    BY DEF StoredOK
  <2>2. DOMAIN lessons = 1..Len(lessons) /\ DOMAIN lessons' = 1..Len(lessons') /\ Len(lessons) \in Nat
    BY <1>1 DEF TypeInv, TablesOK
  <2>3. CASE pc[w] = pc'[w] /\ job'[w] = job[w]
    BY <1>1, <2>1, <2>2, <2>3 DEF Lasts, TypeInv, StoredOK
  <2>4. CASE Stores(w) /\ UNCHANGED job
    BY <2>2, <2>4 DEF Stores
  <2> QED BY <2>1, <2>3, <2>4, Notes
<1> QED BY <1>1, <1>2, <1>3 DEF TypeInv

LEMMA TypeMeans == TypeInv => GenerationTypeOK
<1> SUFFICES ASSUME TypeInv PROVE GenerationTypeOK
  OBVIOUS
<1>1. Len(generationJobs) \in Nat
  BY DEF TypeInv, TablesOK
<1> QED BY <1>1 DEF TypeInv, QueueOK, TablesOK, HeldOK, GenerationTypeOK

\* The workers and River keep their types, and agree on who works on what:
\* contentgen/service.go Run.
THEOREM GenerationTypeCorrect == GenerationSpec => []GenerationTypeOK
BY TypeInit, TypeStep, TypeMeans, PTL DEF GenerationSpec

(***************************************************************************)
(* What is served.  The vocabulary a run was told about only grows, so a   *)
(* lesson in its scope stays in the scope of the child.                    *)
(***************************************************************************)
Vetted(i) ==
    LET d == lessons[i].draft IN
        /\ d.wellFormed /\ ~d.unsafe
        /\ lessons[i].status = "active" /\ lessons[i].review = "none"
              => ~d.long /\ d.uses \subseteq known[lessons[i].child] \cup d.brings

ServedInv ==
    /\ \A i \in Generated : Vetted(i)
    /\ \A w \in Workers :
        /\ pc[w] # "idle" => gc[w].known \subseteq known[Child(w)]
        /\ pc[w] = "store" => Validate(draft[w], gc[w]) # "reject"

(***************************************************************************)
(* What a run was told.                                                    *)
(***************************************************************************)
BuiltInv ==
    /\ \A i \in Generated :
        /\ lessons[i].seen \subseteq DOMAIN lessons
        /\ \A k \in lessons[i].seen :
            /\ lessons[i].draft.id # lessons[k].draft.id
            /\ lessons[i].draft.words \cap lessons[k].draft.words = {}
            /\ lessons[k].order < lessons[i].order
    /\ \A w \in Workers :
        /\ gc[w].seen \subseteq DOMAIN lessons
        /\ \A k \in gc[w].seen :
            /\ lessons[k].draft.id \in gc[w].ids
            /\ lessons[k].draft.words \subseteq gc[w].words
            /\ pc[w] \in {"createJob", "generate", "store"} => lessons[k].order < gc[w].next
        /\ pc[w] = "store" => Validate(draft[w], gc[w]) # "reject"

(***************************************************************************)
(* Lessons that wait, and runs that found none.                            *)
(***************************************************************************)
Committed(c) ==
    {w \in Workers : /\ pc[w] \in {"known", "existing", "lastIndex", "createJob", "generate", "store"}
                     /\ Child(w) = c}

StackInv ==
    \A c \in Children : Cardinality(Waiting(c)) + Cardinality(Committed(c)) <= Cardinality(Workers)

(***************************************************************************)
(* The audit.                                                              *)
(***************************************************************************)
\* The row of a run under way is running, names its trigger and is no other's.
RowsInWork ==
    /\ \A w \in Workers : job[w] # 0 =>
        /\ generationJobs[job[w]].status = "running"
        /\ generationJobs[job[w]].trigger = trigger[w]
    /\ \A v, w \in Workers : v # w /\ job[v] # 0 => job[v] # job[w]

\* A run stores one lesson, in one place.
LessonsOfRuns ==
    /\ \A i \in DOMAIN lessons :
        /\ lessons[i].job <= Len(generationJobs)
        /\ lessons[i].child = Shared <=> lessons[i].job = 0
    /\ \A i, k \in DOMAIN lessons : lessons[i].job = lessons[k].job /\ lessons[i].job # 0 => i = k
    /\ \A w \in Workers :
        /\ pc[w] \in {"generate", "store", "failed", "rejected"} =>
            \A i \in DOMAIN lessons : lessons[i].job # job[w]
        /\ pc[w] \in {"completed", "needs_review"} =>
            \E i \in DOMAIN lessons : lessons[i].job = job[w] /\ lessons[i].child = Child(w)

RowsInv ==
    \A j \in DOMAIN generationJobs : LET r == generationJobs[j] IN
        /\ r.status \in {"completed", "needs_review"} <=> r.output # NoLesson
        /\ r.output # NoLesson => /\ r.output \in DOMAIN lessons
                                 /\ lessons[r.output].job = j
                                 /\ lessons[r.output].child = TriggerChild[r.trigger]
        /\ r.status = "failed" => \A i \in DOMAIN lessons : lessons[i].job # j
        /\ r.status = "running" /\ faults = 0 => \E w \in Workers : job[w] = j

Reason(t) ==
    \/ \E i \in Generated : lessons[i].child = TriggerChild[t]
    \/ \E j \in DOMAIN generationJobs :
          /\ generationJobs[j].trigger = t
          /\ generationJobs[j].status = "running" \/ generationJobs[j].error = "rejected"

ReasonInv ==
    /\ \A t \in Triggers : queue[t] = "completed" => Reason(t)
    /\ \A w \in Workers : pc[w] = "return" => Reason(trigger[w])


\* What becomes of the context a worker has gathered.
Keeps(w) ==
    /\ gc'[w] = gc[w] /\ trigger'[w] = trigger[w]
    /\ pc'[w] \in {"createJob", "generate", "store"} => pc[w] \in {"createJob", "generate", "store"}
    /\ pc'[w] = "store" => \/ pc[w] = "store" /\ draft'[w] = draft[w]
                           \/ Validate(draft'[w], gc[w]) # "reject"

Forgets(w) == gc'[w] = NoContext /\ pc'[w] # "store"

Learns(w) ==
    /\ pc'[w] = "existing" /\ trigger'[w] = trigger[w] /\ UNCHANGED known
    /\ gc'[w].known = known[Child(w)] /\ gc'[w].seen = {}

Reads(w) ==
    /\ pc'[w] = "lastIndex" /\ trigger'[w] = trigger[w] /\ UNCHANGED lessons
    /\ gc'[w].known = gc[w].known /\ gc'[w].seen = Unretired
    /\ gc'[w].words = UNION {lessons[i].draft.words : i \in Unretired}
    /\ gc'[w].ids = {lessons[i].draft.id : i \in Unretired}

Indexes(w) ==
    /\ pc'[w] = "createJob" /\ trigger'[w] = trigger[w] /\ UNCHANGED lessons
    /\ gc'[w].known = gc[w].known /\ gc'[w].seen = gc[w].seen
    /\ gc'[w].words = gc[w].words /\ gc'[w].ids = gc[w].ids
    /\ \A i \in DOMAIN lessons : lessons[i].order < gc'[w].next

LEMMA ContextEvents ==
    ASSUME TypeInv, [Next]_vars, NEW w \in Workers
    PROVE  Keeps(w) \/ Forgets(w) \/ Learns(w) \/ Reads(w) \/ Indexes(w)
<1>1. QueueOK /\ TablesOK /\ HeldOK
  BY DEF TypeInv
<1>2. CASE UNCHANGED workerVars
  BY <1>2 DEF workerVars, Keeps
<1>3. ASSUME NEW v \in Workers, Work(v) \/ Run(v) \/ Complete(v) \/ Failure(v), v # w
      PROVE  Keeps(w)
  BY <1>3, OthersStay DEF Keeps
<1>4. CASE Work(w) \/ Complete(w)
  BY <1>1, <1>4 DEF Work, Complete, Forgets, Goto, QueueOK, HeldOK
<1>5. CASE CheckPending(w) \/ CreateJob(w)
  BY <1>1, <1>5 DEF CheckPending, CreateJob, Keeps, Goto, QueueOK
<1>6. CASE MasteredWordIDs(w)
  <2>1. gc[w] \in GenContext /\ gc[w] = NoContext /\ pc'[w] = "existing"
    BY <1>1, <1>6 DEF MasteredWordIDs, HeldOK, QueueOK, Goto
  <2>2. gc'[w] = [gc[w] EXCEPT !.known = known[Child(w)]] /\ UNCHANGED <<trigger, known>>
    BY <1>1, <1>6 DEF MasteredWordIDs, HeldOK
  <2>3. gc'[w].known = known[Child(w)] /\ gc'[w].seen = {}
    BY <2>1, <2>2 DEF GenContext, NoContext
  <2> QED BY <2>1, <2>2, <2>3 DEF Learns
<1>7. CASE ExistingWordIDs(w)
  <2> DEFINE words == UNION {lessons[i].draft.words : i \in Unretired}
             ids == {lessons[i].draft.id : i \in Unretired}
  <2>1. gc[w] \in GenContext /\ pc'[w] = "lastIndex" /\ UNCHANGED <<trigger, lessons>>
    BY <1>1, <1>7 DEF ExistingWordIDs, HeldOK, QueueOK, Goto, tables
  <2>2. gc' = [gc EXCEPT ![w].words = words, ![w].ids = ids, ![w].seen = Unretired]
    BY <1>7 DEF ExistingWordIDs
  <2> HIDE DEF words, ids
  <2>3. gc'[w] = [gc[w] EXCEPT !.words = words, !.ids = ids, !.seen = Unretired]
    BY <1>1, <2>2 DEF HeldOK
  <2>4. /\ gc'[w].known = gc[w].known /\ gc'[w].seen = Unretired
        /\ gc'[w].words = words /\ gc'[w].ids = ids
    BY <2>1, <2>3 DEF GenContext
  <2> USE DEF words, ids
  <2> QED BY <2>1, <2>4 DEF Reads
<1>8. CASE LastOrderIndex(w)
  <2> DEFINE next == 1 + Max({-1} \cup {lessons[i].order : i \in DOMAIN lessons})
  <2>1. \A i \in DOMAIN lessons : lessons[i].order < next
    BY <1>1, NextIndex
  <2>2. /\ gc[w] \in GenContext /\ pc'[w] = "createJob" /\ UNCHANGED <<trigger, lessons>>
        /\ gc' = [gc EXCEPT ![w].next = next]
    BY <1>1, <1>8 DEF LastOrderIndex, HeldOK, QueueOK, Goto, tables
  <2> HIDE DEF next
  <2>3. gc'[w] = [gc[w] EXCEPT !.next = next]
    BY <1>1, <2>2 DEF HeldOK
  <2>4. /\ gc'[w].known = gc[w].known /\ gc'[w].seen = gc[w].seen /\ gc'[w].next = next
        /\ gc'[w].words = gc[w].words /\ gc'[w].ids = gc[w].ids
    BY <2>2, <2>3 DEF GenContext
  <2> QED BY <2>1, <2>2, <2>4 DEF Indexes
<1>9. CASE Generate(w)
  <2>1. CASE FinishAs(w, "rejected")
    BY <1>1, <2>1 DEF FinishAs, Forgets, Goto, QueueOK, HeldOK
  <2>2. ASSUME NEW d \in Drafts, Validate(d, gc[w]) # "reject", draft' = [draft EXCEPT ![w] = d],
               Goto(w, "store"), UNCHANGED gc
        PROVE  Keeps(w)
    <3>1. draft'[w] = d /\ pc'[w] = "store"
      BY <1>1, <2>2 DEF Goto, QueueOK, HeldOK
    <3>2. pc[w] = "generate" /\ UNCHANGED trigger
      BY <1>9 DEF Generate
    <3> QED BY <2>2, <3>1, <3>2 DEF Keeps
  <2> QED BY <1>9, <2>1, <2>2 DEF Generate
<1>10. CASE StoreGenerated(w) \/ GenerateFails(w)
  BY <1>1, <1>10 DEF StoreGenerated, GenerateFails, FinishAs, Forgets, Goto, QueueOK, HeldOK
<1>11. CASE FinishJob(w) \/ CallFails(w) \/ InsertError(w) \/ FinishJobFails(w)
  <2>1. Retry(w) \/ Return(w)
    BY <1>11 DEF FinishJob, CallFails, InsertError, FinishJobFails, EndOfRun
  <2> QED BY <1>1, <2>1 DEF Retry, Return, Forget, Forgets, Goto, QueueOK, HeldOK
<1>12. CASE Crash
  BY <1>12 DEF Crash, Forgets
<1> QED
  BY <1>2, <1>3, <1>4, <1>5, <1>6, <1>7, <1>8, <1>9, <1>10, <1>11, <1>12, AllStay
     DEF Next, Run, Failure, Quiet

(***************************************************************************)
(* What is served.                                                         *)
(***************************************************************************)
\* What a draft that was not rejected is free of.
LEMMA NotRejected ==
    ASSUME NEW d \in Draft, NEW c \in GenContext, Validate(d, c) # "reject"
    PROVE  /\ d.wellFormed /\ ~d.unsafe /\ d.id \notin c.ids /\ d.words \cap c.words = {}
           /\ Validate(d, c) = "approve" => ~d.long /\ d.uses \subseteq c.known \cup d.brings
BY DEF Validate, OutOfScope

LEMMA ServedInit == Init => ServedInv
<1> SUFFICES ASSUME Init PROVE ServedInv
  OBVIOUS
<1>1. Generated = {}
  BY DEF Init, Generated
<1> QED BY <1>1 DEF Init, ServedInv

LEMMA ServedStep == TypeInv /\ ServedInv /\ [Next]_vars => ServedInv'
<1> SUFFICES ASSUME TypeInv, ServedInv, [Next]_vars PROVE ServedInv'
  OBVIOUS
<1>1. TypeInv' /\ QueueOK /\ TablesOK /\ HeldOK
  BY TypeStep DEF TypeInv
<1>2. TablesOK' /\ Lasts /\ \A c \in Children : known[c] \subseteq known'[c]
  BY TableEvents
<1>3. ASSUME NEW w \in Workers
      PROVE  /\ pc'[w] # "idle" => gc'[w].known \subseteq known'[TriggerChild[trigger'[w]]]
             /\ pc'[w] = "store" => Validate(draft'[w], gc'[w]) # "reject"
  <2>1. pc'[w] # "idle" => trigger'[w] \in Triggers /\ TriggerChild[trigger'[w]] \in Children
    BY <1>1 DEF TypeInv, QueueOK
  <2>2. CASE Keeps(w)
    <3>1. pc'[w] # "idle" => pc[w] # "idle"
      BY <1>1, <2>2 DEF Keeps, TypeInv, QueueOK
    <3> QED BY <1>2, <2>1, <2>2, <3>1 DEF Keeps, ServedInv, Child
  <2>3. CASE Forgets(w)
    BY <2>3 DEF Forgets, NoContext
  <2>4. CASE Learns(w)
    BY <2>4 DEF Learns, Child
  <2>5. CASE Reads(w) \/ Indexes(w)
    <3>1. pc'[w] # "idle" /\ trigger'[w] = trigger[w] /\ pc'[w] # "store" /\ gc'[w].known = gc[w].known
      BY <2>5 DEF Reads, Indexes
    <3>2. pc[w] # "idle"
      BY <1>1, <3>1 DEF TypeInv, QueueOK
    <3> QED BY <1>2, <2>1, <3>1, <3>2 DEF ServedInv, Child
  <2> QED BY <2>2, <2>3, <2>4, <2>5, ContextEvents
<1>4. ASSUME NEW i \in 1..Len(lessons), lessons[i].child # Shared,
             lessons'[i] = lessons[i]
      PROVE  Vetted(i)'
  <2>1. Vetted(i)
    BY <1>1, <1>4 DEF ServedInv, Generated, TablesOK
  <2>2. lessons[i] \in LessonRecord
    BY <1>1 DEF TablesOK
  <2>3. lessons[i].child \in Children
    BY <1>4, <2>2 DEF LessonRecord
  <2> QED BY <1>2, <1>4, <2>1, <2>3 DEF Vetted
<1>5. ASSUME NEW i \in 1..Len(lessons'), lessons'[i].child # Shared PROVE Vetted(i)'
  <2>1. CASE UNCHANGED lessons
    BY <1>4, <1>5, <2>1
  <2>2. ASSUME NEW w \in Workers, Stores(w) PROVE Vetted(i)'
    <3>1. CASE i \in 1..Len(lessons)
      BY <1>4, <1>5, <2>2, <3>1 DEF Stores
    <3>2. CASE i = Len(lessons) + 1
      <4>1. /\ lessons'[i].child = Child(w) /\ lessons'[i].draft = draft[w] /\ pc[w] = "store"
            /\ lessons'[i].status = "active" => Validate(draft[w], gc[w]) = "approve"
        BY <2>2, <3>2 DEF Stores, Approved
      <4>2. draft[w] \in Draft /\ gc[w] \in GenContext /\ Child(w) \in Children
        BY <1>1, <4>1, ChildrenOnly DEF HeldOK
      <4>3. Validate(draft[w], gc[w]) # "reject" /\ gc[w].known \subseteq known[Child(w)]
        BY <4>1 DEF ServedInv
      <4> QED BY <1>2, <4>1, <4>2, <4>3, NotRejected DEF Vetted
    <3> QED BY <1>1, <1>5, <2>2, <3>1, <3>2 DEF Stores, TablesOK
  <2>3. ASSUME NEW k \in 1..Len(lessons), Reviews(k) PROVE Vetted(i)'
    <3>1. CASE i # k
      BY <1>4, <1>5, <2>3, <3>1 DEF Reviews
    <3>2. CASE i = k
      <4>1. Vetted(i)
        BY <1>1, <1>5, <2>3, <3>2 DEF Reviews, ServedInv, Generated, TablesOK
      <4> QED BY <2>3, <3>2, <4>1 DEF Reviews, Vetted
    <3> QED BY <3>1, <3>2
  <2> QED BY <2>1, <2>2, <2>3, TableEvents
<1>6. \A i \in Generated' : Vetted(i)'
  BY <1>2, <1>5 DEF Generated, TablesOK
<1> QED BY <1>3, <1>6 DEF ServedInv, Child

\* A generated lesson is free of banned words, and one that is active without
\* a review is in the scope of what its child knows: contentgen/validate.go,
\* content/authoring.go StoreGenerated.
THEOREM LessonsAreVetted == GenerationSpec => []ServedIsVetted
<1>1. ServedInv => ServedIsVetted
  BY DEF ServedInv, ServedIsVetted, Vetted
<1> QED BY <1>1, TypeInit, TypeStep, ServedInit, ServedStep, PTL DEF GenerationSpec

(***************************************************************************)
(* What a run was told.                                                    *)
(***************************************************************************)
LEMMA BuiltInit == Init => BuiltInv
<1> SUFFICES ASSUME Init PROVE BuiltInv
  OBVIOUS
<1>1. Generated = {}
  BY DEF Init, Generated
<1> QED BY <1>1 DEF Init, BuiltInv, NoContext

\* What was told stays true: no lesson changes its ids or its place.
Told(w) ==
    /\ gc[w].seen \subseteq DOMAIN lessons
    /\ \A k \in gc[w].seen :
        /\ lessons[k].draft.id \in gc[w].ids
        /\ lessons[k].draft.words \subseteq gc[w].words

LEMMA BuiltStep == TypeInv /\ BuiltInv /\ [Next]_vars => BuiltInv'
<1> SUFFICES ASSUME TypeInv, BuiltInv, [Next]_vars PROVE BuiltInv'
  OBVIOUS
<1>1. TablesOK /\ HeldOK /\ QueueOK
  BY DEF TypeInv
<1>2. /\ Lasts /\ DOMAIN lessons = 1..Len(lessons) /\ DOMAIN lessons' = 1..Len(lessons')
      /\ Len(lessons) \in Nat
  BY <1>1, TableEvents DEF TablesOK
<1>3. \A w \in Workers : Told(w) /\ (pc[w] = "store" => Validate(draft[w], gc[w]) # "reject")
  BY DEF BuiltInv, Told
<1>4. ASSUME NEW w \in Workers
      PROVE  /\ Told(w)'
             /\ \A k \in gc'[w].seen :
                    pc'[w] \in {"createJob", "generate", "store"} => lessons'[k].order < gc'[w].next
             /\ pc'[w] = "store" => Validate(draft'[w], gc'[w]) # "reject"
  <2>1. CASE Keeps(w)
    <3>1. Told(w)'
      BY <1>2, <1>3, <2>1 DEF Keeps, Lasts, Told
    <3>2. \A k \in gc'[w].seen :
                pc'[w] \in {"createJob", "generate", "store"} => lessons'[k].order < gc'[w].next
      BY <1>2, <1>3, <2>1 DEF Keeps, Lasts, Told, BuiltInv
    <3> QED BY <1>3, <2>1, <3>1, <3>2 DEF Keeps
  <2>2. CASE Forgets(w)
    BY <2>2 DEF Forgets, NoContext, Told
  <2>3. CASE Learns(w)
    BY <2>3 DEF Learns, Told
  <2>4. CASE Reads(w)
    BY <2>4 DEF Reads, Told, Unretired
  <2>5. CASE Indexes(w)
    BY <1>3, <2>5 DEF Indexes, Told
  <2> QED BY <2>1, <2>2, <2>3, <2>4, <2>5, ContextEvents
\* A lesson that was there keeps what it was built on.
<1>5. ASSUME NEW i \in 1..Len(lessons), lessons'[i].child # Shared
      PROVE  /\ lessons'[i].seen \subseteq DOMAIN lessons'
             /\ \A k \in lessons'[i].seen :
                  /\ lessons'[i].draft.id # lessons'[k].draft.id
                  /\ lessons'[i].draft.words \cap lessons'[k].draft.words = {}
                  /\ lessons'[k].order < lessons'[i].order
  <2>1. i \in Generated
    BY <1>2, <1>5 DEF Generated, Lasts
  <2>2. /\ lessons[i].seen \subseteq 1..Len(lessons)
        /\ \A k \in lessons[i].seen :
             /\ lessons[i].draft.id # lessons[k].draft.id
             /\ lessons[i].draft.words \cap lessons[k].draft.words = {}
             /\ lessons[k].order < lessons[i].order
    BY <1>2, <2>1 DEF BuiltInv
  <2>3. /\ lessons'[i].seen = lessons[i].seen /\ lessons'[i].draft = lessons[i].draft
        /\ lessons'[i].order = lessons[i].order
        /\ \A k \in 1..Len(lessons) : /\ k \in DOMAIN lessons' /\ lessons'[k].draft = lessons[k].draft
                                      /\ lessons'[k].order = lessons[k].order
    BY <1>2 DEF Lasts
  <2> QED BY <2>2, <2>3
\* A new one is built on what its run was told.
<1>6. ASSUME NEW w \in Workers, Stores(w), NEW i \in {Len(lessons) + 1}
      PROVE  /\ lessons'[i].seen \subseteq DOMAIN lessons'
             /\ \A k \in lessons'[i].seen :
                  /\ lessons'[i].draft.id # lessons'[k].draft.id
                  /\ lessons'[i].draft.words \cap lessons'[k].draft.words = {}
                  /\ lessons'[k].order < lessons'[i].order
  <2>1. /\ lessons'[i].draft = draft[w] /\ lessons'[i].order = gc[w].next
        /\ lessons'[i].seen = gc[w].seen /\ pc[w] = "store"
        /\ \A k \in 1..Len(lessons) : lessons'[k] = lessons[k] /\ k \in DOMAIN lessons'
    BY <1>2, <1>6 DEF Stores, Lasts
  <2>2. draft[w] \in Draft /\ gc[w] \in GenContext
    BY <1>1, <2>1 DEF HeldOK
  <2>3. draft[w].id \notin gc[w].ids /\ draft[w].words \cap gc[w].words = {}
    BY <1>3, <2>1, <2>2, NotRejected
  <2>4. /\ gc[w].seen \subseteq 1..Len(lessons)
        /\ \A k \in gc[w].seen :
            /\ lessons[k].draft.id \in gc[w].ids /\ lessons[k].draft.words \subseteq gc[w].words
            /\ lessons[k].order < gc[w].next
    BY <1>2, <2>1 DEF BuiltInv
  <2> QED BY <2>1, <2>3, <2>4
<1>7. \A i \in Generated' : /\ lessons'[i].seen \subseteq DOMAIN lessons'
                            /\ \A k \in lessons'[i].seen :
                                 /\ lessons'[i].draft.id # lessons'[k].draft.id
                                 /\ lessons'[i].draft.words \cap lessons'[k].draft.words = {}
                                 /\ lessons'[k].order < lessons'[i].order
  <2>1. SUFFICES ASSUME NEW i \in 1..Len(lessons'), lessons'[i].child # Shared
                 PROVE  /\ lessons'[i].seen \subseteq DOMAIN lessons'
                        /\ \A k \in lessons'[i].seen :
                             /\ lessons'[i].draft.id # lessons'[k].draft.id
                             /\ lessons'[i].draft.words \cap lessons'[k].draft.words = {}
                             /\ lessons'[k].order < lessons'[i].order
    BY <1>2 DEF Generated
  <2>2. CASE i \in 1..Len(lessons)
    BY <1>5, <2>1, <2>2
  <2>3. CASE i \notin 1..Len(lessons)
    <3>1. PICK w \in Workers : Stores(w)
      BY <2>1, <2>3, TableEvents DEF Reviews
    <3>2. i = Len(lessons) + 1
      BY <1>2, <2>1, <2>3, <3>1 DEF Stores
    <3> QED BY <1>6, <3>1, <3>2
  <2> QED BY <2>2, <2>3
<1> QED BY <1>4, <1>7 DEF BuiltInv, Told

\* A generated lesson repeats no id of a lesson that was in use when its run
\* asked, and comes after it: content/authoring.go ExistingWordIDs,
\* LastOrderIndex, contentgen/service.go buildContext.
THEOREM LessonsBuildOn == GenerationSpec => []BuiltOnWhatWasThere
<1>1. BuiltInv => BuiltOnWhatWasThere
  BY DEF BuiltInv, BuiltOnWhatWasThere
<1> QED BY <1>1, TypeInit, TypeStep, BuiltInit, BuiltStep, PTL DEF GenerationSpec

(***************************************************************************)
(* Lessons that wait, and runs that found none.                            *)
(***************************************************************************)
CommittedSteps == {"known", "existing", "lastIndex", "createJob", "generate", "store"}

LEMMA Finite ==
    ASSUME TypeInv, NEW c
    PROVE  /\ IsFiniteSet(Waiting(c)) /\ Cardinality(Waiting(c)) \in Nat
           /\ IsFiniteSet(Committed(c)) /\ Cardinality(Committed(c)) \in Nat
           /\ Cardinality(Workers) \in Nat /\ Cardinality(Committed(c)) <= Cardinality(Workers)
<1>1. IsFiniteSet(1..Len(lessons)) /\ DOMAIN lessons = 1..Len(lessons)
  BY FS_Interval DEF TypeInv, TablesOK
<1>2. Waiting(c) \in SUBSET (1..Len(lessons)) /\ Committed(c) \in SUBSET Workers
  BY <1>1 DEF Waiting, Committed
<1> QED BY <1>1, <1>2, FS_Subset, FS_CardinalityType

LEMMA StackInit == Init => StackInv
<1> SUFFICES ASSUME Init, NEW c \in Children
             PROVE  Cardinality(Waiting(c)) + Cardinality(Committed(c)) <= Cardinality(Workers)
  BY DEF StackInv
<1>1. Waiting(c) = {} /\ Committed(c) = {}
  BY DEF Init, Waiting, Committed
<1>2. TypeInv
  BY TypeInit
<1> QED BY <1>1, <1>2, Finite, FS_EmptySet

\* Whoever passes the check found nothing that waits; whoever stores is no
\* longer about to; nobody else adds to either.
LEMMA StackEvents ==
    ASSUME TypeInv, [Next]_vars, NEW c \in Children
    PROVE  \/ Waiting(c)' \subseteq Waiting(c) /\ Committed(c)' \subseteq Committed(c)
           \/ Waiting(c)' = {}
           \/ \E w \in Committed(c), i \in {Len(lessons) + 1} :
                /\ Waiting(c)' = Waiting(c) \cup {i}
                /\ Committed(c)' = Committed(c) \ {w}
<1>1. QueueOK /\ TablesOK /\ HeldOK
  BY DEF TypeInv
<1>2. DOMAIN lessons = 1..Len(lessons) /\ Len(lessons) \in Nat
  BY <1>1 DEF TablesOK
<1>3. ASSUME UNCHANGED workerVars PROVE Committed(c)' = Committed(c)
  BY <1>3 DEF workerVars, Committed, Child
<1>4. ASSUME UNCHANGED lessons PROVE Waiting(c)' = Waiting(c)
  BY <1>4 DEF Waiting
\* No step but the check commits a worker.
<1>5. ASSUME NEW v \in Workers, Work(v) \/ Run(v) \/ Complete(v) \/ Failure(v),
             pc'[v] \in CommittedSteps => pc[v] \in CommittedSteps /\ trigger'[v] = trigger[v]
      PROVE  Committed(c)' \subseteq Committed(c)
  <2>1. SUFFICES ASSUME NEW w \in Workers, pc'[w] \in CommittedSteps, TriggerChild[trigger'[w]] = c
                 PROVE  pc[w] \in CommittedSteps /\ trigger'[w] = trigger[w]
    BY DEF Committed, CommittedSteps, Child
  <2>2. CASE w = v
    BY <1>5, <2>1, <2>2
  <2>3. CASE w # v
    BY <1>5, <2>1, <2>3, OthersStay
  <2> QED BY <2>2, <2>3
<1>6. ASSUME NEW v \in Workers, CheckPending(v)
      PROVE  \/ Waiting(c)' \subseteq Waiting(c) /\ Committed(c)' \subseteq Committed(c)
             \/ Waiting(c)' = {}
  <2>1. UNCHANGED lessons /\ UNCHANGED trigger
    BY <1>6 DEF CheckPending, tables
  <2>2. CASE PendingAILessonExists(Child(v)) \/ Child(v) # c
    <3>1. Committed(c)' \subseteq Committed(c)
      <4>1. SUFFICES ASSUME NEW w \in Workers, pc'[w] \in CommittedSteps, TriggerChild[trigger[w]] = c
                     PROVE  pc[w] \in CommittedSteps
        BY <2>1 DEF Committed, CommittedSteps, Child
      <4>2. CASE w = v
        BY <1>1, <1>6, <2>2, <4>1, <4>2 DEF CheckPending, Goto, QueueOK, CommittedSteps, Child
      <4>3. CASE w # v
        BY <1>6, <4>1, <4>3, OthersStay DEF Run
      <4> QED BY <4>2, <4>3
    <3> QED BY <1>4, <2>1, <3>1
  <2>3. CASE ~PendingAILessonExists(Child(v)) /\ Child(v) = c
    <3>1. \A i \in DOMAIN lessons : lessons[i] \in LessonRecord
      BY <1>1 DEF TablesOK
    <3>2. \A i \in DOMAIN lessons : lessons[i].status \in LessonStatus
      BY <3>1 DEF LessonRecord
    <3>3. Waiting(c) = {}
      BY <2>3, <3>2 DEF PendingAILessonExists, Waiting, LessonStatus
    <3> QED BY <1>4, <2>1, <3>3
  <2> QED BY <2>2, <2>3
\* A lesson that is stored is one of a worker less.
<1>7. ASSUME NEW w \in Workers, StoreGenerated(w) \/ InsertError(w), Stores(w)
      PROVE  \/ Waiting(c)' \subseteq Waiting(c) /\ Committed(c)' \subseteq Committed(c)
             \/ \E v \in Committed(c), i \in {Len(lessons) + 1} :
                  /\ Waiting(c)' = Waiting(c) \cup {i}
                  /\ Committed(c)' = Committed(c) \ {v}
  <2>1. pc[w] = "store" /\ pc'[w] \notin CommittedSteps
    BY <1>1, <1>7
       DEF StoreGenerated, InsertError, Stores, FinishAs, Retry, Goto, QueueOK, CommittedSteps
  <2>2. \A v \in Workers \ {w} : pc'[v] = pc[v] /\ trigger'[v] = trigger[v]
    BY <1>7, OthersStay DEF Run, Failure
  <2>3. Committed(c)' = Committed(c) \ {w}
    BY <2>1, <2>2 DEF Committed, CommittedSteps, Child
  <2>4. /\ DOMAIN lessons' = 1..(Len(lessons) + 1)
        /\ \A i \in 1..Len(lessons) : lessons'[i] = lessons[i]
        /\ lessons'[Len(lessons) + 1].child = Child(w)
        /\ lessons'[Len(lessons) + 1].review = "none"
    BY <1>7, <1>2 DEF Stores
  <2>5. CASE Child(w) # c
    <3>1. Waiting(c)' \subseteq Waiting(c)
      BY <1>2, <2>4, <2>5 DEF Waiting
    <3> QED BY <2>3, <3>1
  <2>6. CASE Child(w) = c
    <3>1. w \in Committed(c)
      BY <2>1, <2>6 DEF Committed
    <3>2. CASE lessons'[Len(lessons) + 1].status = "retired"
      BY <1>2, <2>3, <2>4, <3>2 DEF Waiting
    <3>3. CASE lessons'[Len(lessons) + 1].status # "retired"
      <4>1. Waiting(c)' = Waiting(c) \cup {Len(lessons) + 1}
        BY <1>2, <2>4, <2>6, <3>3 DEF Waiting
      <4> QED BY <2>3, <3>1, <4>1
    <3> QED BY <3>2, <3>3
  <2> QED BY <2>5, <2>6
<1>8. ASSUME NEW v \in Workers, \/ Work(v) \/ MasteredWordIDs(v) \/ ExistingWordIDs(v)
                                \/ LastOrderIndex(v) \/ CreateJob(v) \/ Generate(v) \/ Complete(v)
                                \/ GenerateFails(v) \/ CallFails(v) \/ FinishJob(v)
                                \/ FinishJobFails(v)
      PROVE  Waiting(c)' \subseteq Waiting(c) /\ Committed(c)' \subseteq Committed(c)
  <2>1. UNCHANGED lessons
    BY <1>8
       DEF Work, MasteredWordIDs, ExistingWordIDs, LastOrderIndex, CreateJob, Generate, Complete,
           GenerateFails, CallFails, FinishJob, FinishJobFails, tables
  <2>2. pc'[v] \in CommittedSteps => pc[v] \in CommittedSteps /\ trigger'[v] = trigger[v]
    <3>1. CASE Work(v) \/ Complete(v)
      BY <1>1, <3>1 DEF Work, Complete, Goto, QueueOK, CommittedSteps
    <3>2. CASE MasteredWordIDs(v) \/ ExistingWordIDs(v) \/ LastOrderIndex(v) \/ CreateJob(v)
      BY <3>2 DEF MasteredWordIDs, ExistingWordIDs, LastOrderIndex, CreateJob, CommittedSteps
    <3>3. CASE Generate(v)
      BY <3>3 DEF Generate, CommittedSteps
    <3>4. CASE GenerateFails(v)
      BY <3>4 DEF GenerateFails, CommittedSteps
    <3>5. CASE CallFails(v) \/ FinishJob(v) \/ FinishJobFails(v)
      <4>1. Retry(v) \/ Return(v)
        BY <3>5 DEF CallFails, FinishJob, FinishJobFails, EndOfRun
      <4> QED BY <1>1, <4>1 DEF Retry, Return, Goto, QueueOK, CommittedSteps
    <3> QED BY <1>8, <3>1, <3>2, <3>3, <3>4, <3>5
  <2> QED BY <1>4, <1>5, <1>8, <2>1, <2>2 DEF Run, Failure
<1>9. ASSUME NEW w \in Workers, StoreGenerated(w) \/ InsertError(w)
      PROVE  \/ Waiting(c)' \subseteq Waiting(c) /\ Committed(c)' \subseteq Committed(c)
             \/ \E v \in Committed(c), i \in {Len(lessons) + 1} :
                  /\ Waiting(c)' = Waiting(c) \cup {i}
                  /\ Committed(c)' = Committed(c) \ {v}
  <2>1. CASE Stores(w)
    BY <1>7, <1>9, <2>1
  <2>2. CASE UNCHANGED lessons
    <3>1. InsertError(w)
      <4>1. CASE StoreGenerated(w)
        <5>1. lessons \in Seq(LessonRecord) /\ Stores(w)
          BY <1>1, <4>1, LessonStored DEF StoreGenerated, TablesOK
        <5> QED BY <2>2, <5>1, <1>2 DEF Stores
      <4> QED BY <1>9, <4>1
    <3>2. pc'[w] = "idle"
      BY <1>1, <3>1 DEF InsertError, Retry, Goto, QueueOK
    <3> QED BY <1>4, <1>5, <1>9, <2>2, <3>2 DEF Run, Failure, CommittedSteps
  <2> QED BY <1>9, <2>1, <2>2, RunsAndTables DEF Run, Failure
<1>10. ASSUME NEW i \in DOMAIN lessons, Approve(i) \/ Reject(i)
       PROVE  Waiting(c)' \subseteq Waiting(c) /\ Committed(c)' \subseteq Committed(c)
  <2>1. Reviews(i) /\ UNCHANGED workerVars
    BY <1>2, <1>10, LessonReviewed
  <2>2. Waiting(c)' \subseteq Waiting(c)
    <3>1. SUFFICES ASSUME NEW k \in 1..Len(lessons), lessons'[k].child = c,
                          lessons'[k].status # "retired", lessons'[k].review # "revived"
                   PROVE  k \in Waiting(c)
      BY <1>2, <2>1 DEF Waiting, Reviews
    <3>2. CASE k = i
      BY <1>2, <2>1, <3>1, <3>2 DEF Reviews, Waiting
    <3>3. CASE k # i
      BY <1>2, <2>1, <3>1, <3>3 DEF Reviews, Waiting
    <3> QED BY <3>2, <3>3
  <2> QED BY <1>3, <2>1, <2>2
<1>11. CASE Crash
  BY <1>4, <1>11 DEF Crash, tables, Committed
<1>12. ASSUME \/ \E t \in Triggers : LessonGenerationRequested(t)
              \/ \E d \in Children : Master(d)
              \/ UNCHANGED vars
       PROVE  Waiting(c)' \subseteq Waiting(c) /\ Committed(c)' \subseteq Committed(c)
  BY <1>3, <1>4, <1>12 DEF LessonGenerationRequested, Master, vars, tables
<1> DEFINE Goal == \/ Waiting(c)' \subseteq Waiting(c) /\ Committed(c)' \subseteq Committed(c)
                   \/ Waiting(c)' = {}
                   \/ \E w \in Committed(c), i \in {Len(lessons) + 1} :
                        /\ Waiting(c)' = Waiting(c) \cup {i}
                        /\ Committed(c)' = Committed(c) \ {w}
<1>13. ASSUME NEW w \in Workers, Work(w) \/ Run(w) \/ Complete(w) \/ Failure(w) PROVE Goal
  <2>1. CASE StoreGenerated(w) \/ InsertError(w)
    BY <1>9, <2>1
  <2>2. CASE CheckPending(w)
    BY <1>6, <2>2
  <2> QED BY <1>8, <1>13, <2>1, <2>2 DEF Run, Failure
<1>14. ASSUME NEW i \in DOMAIN lessons, Approve(i) \/ Reject(i) PROVE Goal
  BY <1>10, <1>14
<1> HIDE DEF Goal
<1>15. Goal
  BY <1>11, <1>12, <1>13, <1>14 DEF Next, Quiet, Goal
<1> QED BY <1>15 DEF Goal

LEMMA StackStep == TypeInv /\ StackInv /\ [Next]_vars => StackInv'
<1> SUFFICES ASSUME TypeInv, StackInv, [Next]_vars, NEW c \in Children
             PROVE  Cardinality(Waiting(c)') + Cardinality(Committed(c)') <= Cardinality(Workers)
  BY DEF StackInv
<1>1. PICK W, C, W1, C1 : W = Waiting(c) /\ C = Committed(c) /\ W1 = Waiting(c)' /\ C1 = Committed(c)'
  OBVIOUS
<1>2. /\ IsFiniteSet(W) /\ Cardinality(W) \in Nat /\ IsFiniteSet(C) /\ Cardinality(C) \in Nat
      /\ Cardinality(W) + Cardinality(C) <= Cardinality(Workers)
  BY <1>1, Finite DEF StackInv
<1>3. /\ IsFiniteSet(W1) /\ Cardinality(W1) \in Nat /\ IsFiniteSet(C1) /\ Cardinality(C1) \in Nat
      /\ Cardinality(Workers) \in Nat /\ Cardinality(C1) <= Cardinality(Workers)
  <2>1. IsFiniteSet(1..Len(lessons')) /\ DOMAIN lessons' = 1..Len(lessons')
    BY TableEvents, FS_Interval DEF TablesOK
  <2>2. W1 \in SUBSET (1..Len(lessons')) /\ C1 \in SUBSET Workers
    BY <1>1, <2>1 DEF Waiting, Committed
  <2> QED BY <2>1, <2>2, FS_Subset, FS_CardinalityType
<1>4. \/ W1 \subseteq W /\ C1 \subseteq C
      \/ W1 = {}
      \/ \E w \in C, i \in {Len(lessons) + 1} : W1 = W \cup {i} /\ C1 = C \ {w}
  BY <1>1, StackEvents
<1>5. CASE W1 \subseteq W /\ C1 \subseteq C
  <2>1. Cardinality(W1) <= Cardinality(W) /\ Cardinality(C1) <= Cardinality(C)
    BY <1>2, <1>5, FS_Subset
  <2> QED BY <1>1, <1>2, <1>3, <2>1
<1>6. CASE W1 = {}
  BY <1>1, <1>3, <1>6, FS_EmptySet
<1>7. ASSUME NEW w \in C, NEW i \in {Len(lessons) + 1}, W1 = W \cup {i}, C1 = C \ {w}
      PROVE  Cardinality(W1) + Cardinality(C1) <= Cardinality(Workers)
  <2>1. Cardinality(W1) <= Cardinality(W) + 1
    <3>1. Cardinality(W \cup {i}) = IF i \in W THEN Cardinality(W) ELSE Cardinality(W) + 1
      BY <1>2, FS_AddElement
    <3> QED BY <1>2, <1>7, <3>1
  <2>2. Cardinality(C1) = Cardinality(C) - 1
    BY <1>2, <1>7, FS_RemoveElement
  <2> QED BY <1>2, <1>3, <2>1, <2>2
<1> QED BY <1>1, <1>4, <1>5, <1>6, <1>7

\* Lessons pile up only as far as runs that are under way at the same time:
\* contentgen/service.go 46 to 55.
THEOREM StacksAreBounded == GenerationSpec => []StackBounded
<1>1. TypeInv /\ StackInv => StackBounded
  <2> SUFFICES ASSUME TypeInv, StackInv, NEW c \in Children
               PROVE  Cardinality(Waiting(c)) <= Cardinality(Workers)
    BY DEF StackBounded
  <2> QED BY Finite DEF StackInv
<1> QED BY <1>1, TypeInit, TypeStep, StackInit, StackStep, PTL DEF GenerationSpec

(***************************************************************************)
(* The audit.                                                              *)
(***************************************************************************)
\* A step may open a row, for the worker it belongs to or, when an error hides
\* the insert, for none; close one; or leave the rows alone.
Carries == \A w \in Workers : job'[w] # 0 => job'[w] = job[w] /\ trigger'[w] = trigger[w]

Quietly == UNCHANGED generationJobs /\ Carries /\ (faults' = 0 => UNCHANGED job)

Takes(v) ==
    /\ Opens(v) /\ pc[v] = "createJob" /\ pc'[v] = "generate" /\ UNCHANGED <<trigger, lessons>>
    /\ job' = [job EXCEPT ![v] = Len(generationJobs) + 1]

Loses(v) == Opens(v) /\ Carries /\ faults' # 0 /\ UNCHANGED lessons

Ends(v) ==
    /\ Closes(v) /\ job'[v] = 0 /\ UNCHANGED lessons
    /\ \A w \in Workers \ {v} : job'[w] = job[w] /\ trigger'[w] = trigger[w]

LEMMA RowTaken ==
    ASSUME TypeInv, NEW v \in Workers, CreateJob(v)
    PROVE  Takes(v)
<1>1. pc[v] = "createJob" /\ NewJob(v) /\ UNCHANGED <<trigger, lessons>>
      /\ job' = [job EXCEPT ![v] = Len(generationJobs) + 1]
  BY DEF CreateJob
<1>2. pc[v] # "idle" /\ pc'[v] = "generate"
  BY DEF CreateJob, Goto, TypeInv, QueueOK
<1> QED BY <1>1, <1>2, RowOpened DEF Takes

LEMMA RunEvents ==
    ASSUME TypeInv, [Next]_vars
    PROVE  Quietly \/ \E v \in Workers : Takes(v) \/ Loses(v) \/ Ends(v)
<1>1. QueueOK /\ TablesOK /\ HeldOK
  BY DEF TypeInv
<1>2. ASSUME UNCHANGED <<job, trigger, generationJobs>> PROVE Quietly
  BY <1>2 DEF Quietly, Carries
<1>3. ASSUME \/ \E t \in Triggers : LessonGenerationRequested(t)
             \/ \E c \in Children : Master(c)
             \/ \E i \in DOMAIN lessons : Approve(i) \/ Reject(i)
             \/ UNCHANGED vars
      PROVE  Quietly
  <2>1. UNCHANGED generationJobs
    BY <1>3 DEF LessonGenerationRequested, Master, Approve, Reject, SetStatus, vars, tables
  <2> QED BY <1>2, <1>3, <2>1, AllStay DEF workerVars
<1>4. ASSUME NEW v \in Workers, Work(v) \/ Complete(v) PROVE Quietly
  <2>1. /\ UNCHANGED <<job, generationJobs>> /\ pc[v] \in {"idle", "return"}
        /\ \E t \in Triggers \cup {NoTrigger} : trigger' = [trigger EXCEPT ![v] = t]
    BY <1>4 DEF Work, Complete, tables
  <2>2. job[v] = 0
    BY <1>1, <2>1 DEF HeldOK
  <2>3. \A w \in Workers : w # v => trigger'[w] = trigger[w]
    BY <1>1, <2>1 DEF QueueOK
  <2> QED BY <2>1, <2>2, <2>3 DEF Quietly, Carries
<1>5. ASSUME NEW v \in Workers, \/ CheckPending(v) \/ MasteredWordIDs(v) \/ ExistingWordIDs(v)
                                \/ LastOrderIndex(v) \/ Generate(v) \/ StoreGenerated(v)
                                \/ GenerateFails(v)
      PROVE  Quietly
  <2>1. UNCHANGED <<job, trigger, generationJobs>>
    BY <1>5
       DEF CheckPending, MasteredWordIDs, ExistingWordIDs, LastOrderIndex, Generate, StoreGenerated,
           GenerateFails, tables
  <2> QED BY <1>2, <2>1
<1>7. ASSUME NEW v \in Workers, Retry(v) \/ Return(v)
      PROVE  /\ job'[v] = 0 /\ Carries
             /\ \A w \in Workers \ {v} : job'[w] = job[w] /\ trigger'[w] = trigger[w]
  <2>1. job' = [job EXCEPT ![v] = 0]
    BY <1>7 DEF Retry, Return, Forget
  <2>2. UNCHANGED trigger \/ trigger' = [trigger EXCEPT ![v] = NoTrigger]
    BY <1>7 DEF Retry, Return
  <2> QED BY <1>1, <2>1, <2>2 DEF QueueOK, HeldOK, Carries
<1>8. ASSUME NEW v \in Workers, FinishJob(v) PROVE Ends(v)
  <2>1. UpdateRow(v) /\ UNCHANGED lessons /\ (Retry(v) \/ Return(v))
    BY <1>8 DEF FinishJob, EndOfRun
  <2> QED BY <1>7, <2>1, RowClosed DEF Ends
<1>9. Fault => faults' # 0
  BY <1>1 DEF TablesOK, Fault
<1>10. ASSUME NEW v \in Workers, CallFails(v) \/ FinishJobFails(v) PROVE Quietly
  <2>1. Fault /\ UNCHANGED generationJobs /\ (Retry(v) \/ Return(v))
    BY <1>10 DEF CallFails, FinishJobFails, EndOfRun, tables
  <2> QED BY <1>7, <1>9, <2>1 DEF Quietly
<1>11. ASSUME NEW v \in Workers, InsertError(v) PROVE Quietly \/ Loses(v)
  <2>1. Fault /\ Retry(v)
    BY <1>11 DEF InsertError
  <2>2. CASE pc[v] = "createJob" /\ NewJob(v) /\ UNCHANGED lessons
    <3>1. pc[v] # "idle"
      BY <2>2
    <3> QED BY <1>7, <1>9, <2>1, <2>2, <3>1, RowOpened DEF Loses
  <2>3. CASE UNCHANGED generationJobs
    BY <1>7, <1>9, <2>1, <2>3 DEF Quietly
  <2> QED BY <1>11, <2>2, <2>3 DEF InsertError
<1>12. ASSUME Crash PROVE Quietly
  <2>1. /\ job' = [w \in Workers |-> 0] /\ UNCHANGED generationJobs /\ Fault
    BY <1>12 DEF Crash, tables
  <2> QED BY <1>9, <2>1 DEF Quietly, Carries
<1> QED
  BY <1>3, <1>4, <1>5, <1>8, <1>10, <1>11, <1>12, RowTaken
     DEF Next, Run, Failure, Quiet

\* A run that is to store a lesson, or is not to, was so before or has just begun.
LEMMA Begins ==
    ASSUME TypeInv, [Next]_vars, NEW w \in Workers,
           pc'[w] \in {"generate", "store", "failed", "rejected"}
    PROVE  \/ pc[w] \in {"generate", "store", "failed", "rejected"} /\ job'[w] = job[w]
           \/ Takes(w)
<1>1. QueueOK /\ HeldOK
  BY DEF TypeInv
<1>2. ASSUME NEW v \in Workers, Work(v) \/ Run(v) \/ Complete(v) \/ Failure(v), v # w
      PROVE  pc[w] = pc'[w] /\ job'[w] = job[w]
  BY <1>2, OthersStay
<1>3. CASE UNCHANGED workerVars
  BY <1>3 DEF workerVars
<1>4. ASSUME NEW step \in Steps \ {"generate", "store", "failed", "rejected"}, Goto(w, step)
      PROVE  FALSE
  BY <1>1, <1>4 DEF Goto, QueueOK
<1>5. CASE \/ Work(w) \/ CheckPending(w) \/ MasteredWordIDs(w) \/ ExistingWordIDs(w)
           \/ LastOrderIndex(w) \/ Complete(w) \/ StoreGenerated(w)
  BY <1>4, <1>5
     DEF Work, CheckPending, MasteredWordIDs, ExistingWordIDs, LastOrderIndex, Complete,
         StoreGenerated, FinishAs
<1>6. CASE FinishJob(w) \/ CallFails(w) \/ InsertError(w) \/ FinishJobFails(w)
  BY <1>4, <1>6 DEF FinishJob, CallFails, InsertError, FinishJobFails, EndOfRun, Retry, Return
<1>7. CASE Generate(w) \/ GenerateFails(w)
  BY <1>7 DEF Generate, GenerateFails
<1>8. CASE Crash
  BY <1>8 DEF Crash
<1> QED
  BY <1>2, <1>3, <1>5, <1>6, <1>7, <1>8, RowTaken, AllStay DEF Next, Run, Failure, Quiet

\* A lesson is stored by one run, which goes on to note it or breaks off.
StoresAlone(v) ==
    /\ Stores(v) /\ UNCHANGED generationJobs
    /\ pc'[v] \in {"idle", "completed", "needs_review"}

LEMMA LessonEvents ==
    ASSUME TypeInv, [Next]_vars
    PROVE  Len(lessons') = Len(lessons) \/ \E v \in Workers : StoresAlone(v)
<1>1. QueueOK /\ TablesOK
  BY DEF TypeInv
<1>2. CASE UNCHANGED lessons
  BY <1>2
<1>3. ASSUME NEW i \in DOMAIN lessons, Approve(i) \/ Reject(i) PROVE Len(lessons') = Len(lessons)
  <2>1. i \in 1..Len(lessons)
    BY <1>1 DEF TablesOK
  <2> QED BY <1>3, <2>1, LessonReviewed DEF Reviews
<1>4. ASSUME NEW v \in Workers, StoreGenerated(v) PROVE StoresAlone(v)
  <2>1. pc[v] = "store" /\ NewLesson(v) /\ UNCHANGED generationJobs
    BY <1>4 DEF StoreGenerated
  <2>2. pc'[v] \in {"completed", "needs_review"}
    BY <1>1, <1>4 DEF StoreGenerated, FinishAs, Goto, QueueOK
  <2> QED BY <2>1, <2>2, LessonStored DEF StoresAlone
<1>5. ASSUME NEW v \in Workers, InsertError(v) PROVE UNCHANGED lessons \/ StoresAlone(v)
  <2>1. \/ UNCHANGED lessons
        \/ pc[v] = "store" /\ NewLesson(v) /\ UNCHANGED generationJobs
    BY <1>5 DEF InsertError
  <2>2. pc'[v] = "idle"
    BY <1>1, <1>5 DEF InsertError, Retry, Goto, QueueOK
  <2> QED BY <2>1, <2>2, LessonStored DEF StoresAlone
<1>6. ASSUME NEW v \in Workers, \/ Work(v) \/ CheckPending(v) \/ MasteredWordIDs(v)
                                \/ ExistingWordIDs(v) \/ LastOrderIndex(v) \/ CreateJob(v)
                                \/ Generate(v) \/ FinishJob(v) \/ Complete(v) \/ GenerateFails(v)
                                \/ CallFails(v) \/ FinishJobFails(v)
      PROVE  UNCHANGED lessons
  BY <1>6
     DEF Work, CheckPending, MasteredWordIDs, ExistingWordIDs, LastOrderIndex, CreateJob, Generate,
         FinishJob, Complete, GenerateFails, CallFails, FinishJobFails, tables
<1>7. ASSUME \/ \E t \in Triggers : LessonGenerationRequested(t)
             \/ \E c \in Children : Master(c)
             \/ Crash \/ UNCHANGED vars
      PROVE  UNCHANGED lessons
  BY <1>7 DEF LessonGenerationRequested, Master, Crash, vars, tables
<1> QED BY <1>2, <1>3, <1>4, <1>5, <1>6, <1>7 DEF Next, Run, Failure, Quiet

AuditInv == RowsInWork /\ LessonsOfRuns /\ RowsInv /\ ReasonInv

LEMMA AuditInit == Init => AuditInv
<1> SUFFICES ASSUME Init PROVE AuditInv
  OBVIOUS
<1>1. DOMAIN generationJobs = {} /\ Len(generationJobs) = 0
  BY DEF Init
<1>2. RowsInWork /\ RowsInv
  BY <1>1 DEF Init, RowsInWork, RowsInv
<1>3. LessonsOfRuns
  BY <1>1 DEF Init, LessonsOfRuns
<1>4. ReasonInv
  BY DEF Init, ReasonInv
<1> QED BY <1>2, <1>3, <1>4 DEF AuditInv

LEMMA InWorkStep == TypeInv /\ RowsInWork /\ [Next]_vars => RowsInWork'
<1> SUFFICES ASSUME TypeInv, RowsInWork, [Next]_vars PROVE RowsInWork'
  OBVIOUS
<1>1. /\ job \in [Workers -> Nat] /\ Len(generationJobs) \in Nat
      /\ \A w \in Workers : job[w] \in 0..Len(generationJobs)
  BY DEF TypeInv, TablesOK, HeldOK
<1>2. CASE Quietly
  BY <1>2 DEF Quietly, Carries, RowsInWork
<1>3. ASSUME NEW v \in Workers, Takes(v) PROVE RowsInWork'
  <2>1. /\ job'[v] = Len(generationJobs) + 1 /\ \A w \in Workers : w # v => job'[w] = job[w]
        /\ UNCHANGED trigger
        /\ \A j \in 1..Len(generationJobs) : generationJobs'[j] = generationJobs[j]
        /\ generationJobs'[Len(generationJobs) + 1].trigger = trigger[v]
        /\ generationJobs'[Len(generationJobs) + 1].status = "running"
    BY <1>1, <1>3 DEF Takes, Opens
  <2>2. ASSUME NEW w \in Workers, w # v, job[w] # 0
        PROVE  job'[w] \in 1..Len(generationJobs)
    BY <1>1, <2>1, <2>2
  <2>3. ASSUME NEW w \in Workers, job'[w] # 0
        PROVE  /\ generationJobs'[job'[w]].status = "running"
               /\ generationJobs'[job'[w]].trigger = trigger'[w]
    <3>1. CASE w = v
      BY <2>1, <3>1
    <3>2. CASE w # v
      BY <2>1, <2>2, <2>3, <3>2 DEF RowsInWork
    <3> QED BY <3>1, <3>2
  <2>4. ASSUME NEW u \in Workers, NEW w \in Workers, u # w, job'[u] # 0 PROVE job'[u] # job'[w]
    <3>1. CASE u # v /\ w # v
      BY <2>1, <2>4, <3>1 DEF RowsInWork
    <3>2. CASE u = v
      BY <1>1, <2>1, <2>4, <3>2
    <3>3. CASE w = v
      BY <1>1, <2>1, <2>4, <3>3
    <3> QED BY <3>1, <3>2, <3>3
  <2> QED BY <2>3, <2>4 DEF RowsInWork
<1>4. ASSUME NEW v \in Workers, Loses(v) PROVE RowsInWork'
  <2>1. \A j \in 1..Len(generationJobs) : generationJobs'[j] = generationJobs[j]
    BY <1>4 DEF Loses, Opens
  <2>2. \A w \in Workers : job[w] # 0 => job[w] \in 1..Len(generationJobs)
    BY <1>1
  <2> QED BY <1>4, <2>1, <2>2 DEF Loses, Carries, RowsInWork
<1>5. ASSUME NEW v \in Workers, Ends(v) PROVE RowsInWork'
  <2>1. /\ job'[v] = 0 /\ job[v] # 0
        /\ \A w \in Workers : w # v => job'[w] = job[w] /\ trigger'[w] = trigger[w]
        /\ \A j \in 1..Len(generationJobs) : j # job[v] => generationJobs'[j] = generationJobs[j]
    BY <1>5 DEF Ends, Closes
  <2>2. \A w \in Workers : job[w] # 0 => job[w] \in 1..Len(generationJobs)
    BY <1>1
  <2> QED BY <2>1, <2>2 DEF RowsInWork
<1> QED BY <1>2, <1>3, <1>4, <1>5, RunEvents

\* The number of rows never falls.
LEMMA RowsStay ==
    ASSUME TypeInv, [Next]_vars
    PROVE  Len(generationJobs) \in Nat /\ Len(generationJobs') \in Nat
           /\ Len(generationJobs) <= Len(generationJobs')
BY RunEvents DEF TypeInv, TablesOK, Quietly, Takes, Loses, Ends, Opens, Closes

LEMMA OfRunsStep == TypeInv /\ RowsInWork /\ LessonsOfRuns /\ [Next]_vars => LessonsOfRuns'
<1> SUFFICES ASSUME TypeInv, RowsInWork, LessonsOfRuns, [Next]_vars PROVE LessonsOfRuns'
  OBVIOUS
<1>1. /\ TablesOK' /\ Lasts /\ DOMAIN lessons = 1..Len(lessons) /\ DOMAIN lessons' = 1..Len(lessons')
      /\ Len(lessons) \in Nat /\ Len(lessons') \in Nat
  BY TableEvents DEF TypeInv, TablesOK
<1>2. /\ \A w \in Workers : job[w] \in Nat /\ job[w] <= Len(generationJobs)
      /\ \A w \in Workers : pc[w] \in WithRow <=> job[w] # 0
  BY DEF TypeInv, HeldOK
<1>3. ASSUME NEW i \in 1..Len(lessons'), i \notin 1..Len(lessons)
      PROVE  i = Len(lessons) + 1 /\ Len(lessons') = i /\ Len(lessons') # Len(lessons)
  <2>1. Len(lessons') = Len(lessons) \/ Len(lessons') = Len(lessons) + 1
    BY LessonEvents DEF StoresAlone, Stores
  <2>2. Len(lessons) \in Nat /\ Len(lessons') \in Nat
    BY <1>1
  <2>3. ~(1 <= i /\ i <= Len(lessons)) /\ 1 <= i /\ i <= Len(lessons') /\ i \in Int
    BY <1>3, <2>2
  <2>4. Len(lessons') = Len(lessons) + 1
    BY <2>1, <2>2, <2>3
  <2> QED BY <2>2, <2>3, <2>4
<1>4. \A i \in DOMAIN lessons : lessons[i] \in LessonRecord
  BY DEF TypeInv, TablesOK
<1>5. \A i \in DOMAIN lessons : lessons[i].job \in Nat
  BY <1>4 DEF LessonRecord
\* What is new belongs to the run that was about to store it.
<1>6. ASSUME Len(lessons') # Len(lessons)
      PROVE  \E v \in Workers :
               /\ pc[v] = "store" /\ pc'[v] \in {"idle", "completed", "needs_review"}
               /\ lessons'[Len(lessons) + 1].job = job[v] /\ job[v] # 0
               /\ lessons'[Len(lessons) + 1].child = Child(v) /\ Child(v) # Shared
               /\ \A i \in DOMAIN lessons : lessons[i].job # job[v]
               /\ \A w \in Workers : w # v => job[w] # job[v]
  <2>1. PICK v \in Workers : StoresAlone(v)
    BY <1>6, LessonEvents
  <2>2. /\ pc[v] = "store" /\ pc'[v] \in {"idle", "completed", "needs_review"}
        /\ lessons'[Len(lessons) + 1].job = job[v] /\ lessons'[Len(lessons) + 1].child = Child(v)
    BY <2>1 DEF StoresAlone, Stores
  <2>3. job[v] # 0 /\ Child(v) # Shared
    BY <1>2, <2>2, ChildrenOnly DEF TypeInv
  <2>4. \A i \in DOMAIN lessons : lessons[i].job # job[v]
    BY <2>2 DEF LessonsOfRuns
  <2> QED BY <2>2, <2>3, <2>4 DEF RowsInWork
<1>7. ASSUME NEW i \in 1..Len(lessons')
      PROVE  /\ lessons'[i].job <= Len(generationJobs')
             /\ lessons'[i].child = Shared <=> lessons'[i].job = 0
  <2>1. CASE i \in 1..Len(lessons)
    BY <1>1, <1>5, <2>1, RowsStay DEF Lasts, LessonsOfRuns
  <2>2. CASE i \notin 1..Len(lessons)
    <3>1. i = Len(lessons) + 1 /\ Len(lessons') # Len(lessons)
      BY <1>3, <2>2
    <3>2. PICK v \in Workers : /\ lessons'[i].job = job[v] /\ job[v] # 0
                               /\ lessons'[i].child = Child(v) /\ Child(v) # Shared
      BY <1>6, <3>1
    <3>3. job[v] <= Len(generationJobs) /\ job[v] \in Nat
      BY <1>2
    <3> QED BY <3>2, <3>3, RowsStay
  <2> QED BY <2>1, <2>2
<1>8. ASSUME NEW i \in 1..Len(lessons'), NEW k \in 1..Len(lessons'),
             lessons'[i].job = lessons'[k].job, lessons'[i].job # 0
      PROVE  i = k
  <2>1. CASE i \in 1..Len(lessons) /\ k \in 1..Len(lessons)
    BY <1>1, <1>8, <2>1 DEF Lasts, LessonsOfRuns
  <2>2. ASSUME NEW m \in 1..Len(lessons'), m \notin 1..Len(lessons), NEW n \in 1..Len(lessons)
        PROVE  lessons'[n].job # lessons'[m].job
    <3>1. m = Len(lessons) + 1 /\ Len(lessons') # Len(lessons)
      BY <1>3, <2>2
    <3>2. PICK v \in Workers : /\ lessons'[m].job = job[v]
                               /\ \A j \in DOMAIN lessons : lessons[j].job # job[v]
      BY <1>6, <3>1
    <3> QED BY <1>1, <3>2 DEF Lasts
  <2>3. CASE i \notin 1..Len(lessons) /\ k \notin 1..Len(lessons)
    BY <1>3, <2>3
  <2> QED BY <1>8, <2>1, <2>2, <2>3
<1>9. ASSUME NEW w \in Workers, pc'[w] \in {"generate", "store", "failed", "rejected"},
             NEW i \in 1..Len(lessons')
      PROVE  lessons'[i].job # job'[w]
  <2>1. CASE pc[w] \in {"generate", "store", "failed", "rejected"} /\ job'[w] = job[w]
    <3>1. CASE i \in 1..Len(lessons)
      BY <1>1, <2>1, <3>1 DEF Lasts, LessonsOfRuns
    <3>2. CASE i \notin 1..Len(lessons)
      <4>1. i = Len(lessons) + 1 /\ Len(lessons') # Len(lessons)
        BY <1>3, <3>2
      <4>2. PICK v \in Workers : /\ pc'[v] \in {"idle", "completed", "needs_review"}
                                 /\ lessons'[i].job = job[v]
                                 /\ \A u \in Workers : u # v => job[u] # job[v]
        BY <1>6, <4>1
      <4>3. w # v
        BY <1>9, <4>2
      <4> QED BY <2>1, <4>2, <4>3
    <3> QED BY <3>1, <3>2
  <2>2. CASE Takes(w)
    <3>1. job'[w] = Len(generationJobs) + 1 /\ UNCHANGED lessons
      BY <2>2 DEF Takes, TypeInv, HeldOK
    <3> QED BY <1>1, <1>5, <3>1, RowsStay DEF LessonsOfRuns
  <2> QED BY <1>9, <2>1, <2>2, Begins
<1>10. ASSUME NEW w \in Workers, pc'[w] \in {"completed", "needs_review"}
       PROVE  \E i \in DOMAIN lessons' : lessons'[i].job = job'[w]
                                         /\ lessons'[i].child = TriggerChild[trigger'[w]]
  <2>1. CASE pc[w] = pc'[w] /\ UNCHANGED <<job[w], trigger[w]>>
    <3>1. PICK i \in DOMAIN lessons : lessons[i].job = job[w] /\ lessons[i].child = Child(w)
      BY <1>10, <2>1 DEF LessonsOfRuns
    <3> QED BY <1>1, <2>1, <3>1 DEF Lasts, Child
  <2>2. CASE Stores(w) /\ UNCHANGED <<job, trigger>>
    <3>1. Len(lessons) + 1 \in DOMAIN lessons'
      BY <1>1, <2>2 DEF Stores
    <3> QED BY <2>2, <3>1 DEF Stores, Child
  <2> QED BY <1>10, <2>1, <2>2, Notes
<1> QED BY <1>1, <1>7, <1>8, <1>9, <1>10 DEF LessonsOfRuns, Child

LEMMA RowsStep == TypeInv /\ RowsInWork /\ LessonsOfRuns /\ RowsInv /\ [Next]_vars => RowsInv'
<1> SUFFICES ASSUME TypeInv, RowsInWork, LessonsOfRuns, RowsInv, [Next]_vars PROVE RowsInv'
  OBVIOUS
<1> DEFINE Row(j) ==
        /\ generationJobs'[j].status \in {"completed", "needs_review"}
              <=> generationJobs'[j].output # NoLesson
        /\ generationJobs'[j].output # NoLesson =>
              /\ generationJobs'[j].output \in DOMAIN lessons'
              /\ lessons'[generationJobs'[j].output].job = j
              /\ lessons'[generationJobs'[j].output].child = TriggerChild[generationJobs'[j].trigger]
        /\ generationJobs'[j].status = "failed" => \A i \in DOMAIN lessons' : lessons'[i].job # j
        /\ generationJobs'[j].status = "running" /\ faults' = 0 => \E w \in Workers : job'[w] = j
<1>1. /\ TablesOK' /\ Lasts /\ DOMAIN lessons = 1..Len(lessons) /\ DOMAIN lessons' = 1..Len(lessons')
      /\ Len(lessons) \in Nat /\ Len(lessons') \in Nat /\ Len(generationJobs) \in Nat
      /\ DOMAIN generationJobs = 1..Len(generationJobs)
      /\ DOMAIN generationJobs' = 1..Len(generationJobs')
  BY TableEvents DEF TypeInv, TablesOK
<1>2. faults' = 0 => faults = 0
  BY <1>1, TableEvents DEF TypeInv, TablesOK
\* A row nobody touches stays true, whoever stores a lesson meanwhile.
<1>3. ASSUME NEW j \in 1..Len(generationJobs), generationJobs'[j] = generationJobs[j],
             faults' = 0 => \A w \in Workers : job[w] = j => job'[w] = j
      PROVE  Row(j)
  <2>1. /\ generationJobs[j].status \in {"completed", "needs_review"}
              <=> generationJobs[j].output # NoLesson
        /\ generationJobs[j].output # NoLesson =>
              /\ generationJobs[j].output \in DOMAIN lessons
              /\ lessons[generationJobs[j].output].job = j
              /\ lessons[generationJobs[j].output].child = TriggerChild[generationJobs[j].trigger]
        /\ generationJobs[j].status = "failed" => \A i \in DOMAIN lessons : lessons[i].job # j
        /\ generationJobs[j].status = "running" /\ faults = 0 => \E w \in Workers : job[w] = j
    BY <1>1 DEF RowsInv
  <2>2. generationJobs'[j].output # NoLesson =>
              /\ generationJobs'[j].output \in DOMAIN lessons'
              /\ lessons'[generationJobs'[j].output].job = j
              /\ lessons'[generationJobs'[j].output].child = TriggerChild[generationJobs'[j].trigger]
    BY <1>1, <1>3, <2>1 DEF Lasts
  <2>3. ASSUME generationJobs'[j].status = "failed", NEW i \in DOMAIN lessons'
        PROVE  lessons'[i].job # j
    <3>1. CASE i \in 1..Len(lessons)
      BY <1>1, <1>3, <2>1, <2>3, <3>1 DEF Lasts
    <3>2. CASE i \notin 1..Len(lessons)
      <4>1. PICK v \in Workers : StoresAlone(v)
        BY <1>1, <2>3, <3>2, LessonEvents
      <4>2. i = Len(lessons) + 1
        BY <1>1, <2>3, <3>2, <4>1 DEF StoresAlone, Stores
      <4>3. lessons'[i].job = job[v] /\ pc[v] = "store"
        BY <4>1, <4>2 DEF StoresAlone, Stores
      <4>4. generationJobs[job[v]].status = "running"
        BY <4>3 DEF RowsInWork, TypeInv, HeldOK
      <4> QED BY <1>3, <2>3, <4>3, <4>4
    <3> QED BY <3>1, <3>2
  <2>4. generationJobs'[j].status = "running" /\ faults' = 0 => \E w \in Workers : job'[w] = j
    BY <1>2, <1>3, <2>1
  <2> QED BY <1>3, <2>1, <2>2, <2>3, <2>4
<1>4. CASE Quietly
  <2>1. ASSUME NEW j \in 1..Len(generationJobs) PROVE Row(j)
    BY <1>3, <1>4 DEF Quietly
  <2> QED BY <1>1, <1>4, <2>1 DEF Quietly, RowsInv
<1>5. ASSUME NEW v \in Workers, Takes(v) \/ Loses(v) PROVE RowsInv'
  <2>1. /\ Len(generationJobs') = Len(generationJobs) + 1
        /\ \A j \in 1..Len(generationJobs) : generationJobs'[j] = generationJobs[j]
        /\ generationJobs'[Len(generationJobs) + 1].status = "running"
        /\ generationJobs'[Len(generationJobs) + 1].output = NoLesson
    BY <1>5 DEF Takes, Loses, Opens
  <2>2. faults' = 0 => Takes(v)
    BY <1>5 DEF Loses
  <2>3. job \in [Workers -> Nat] /\ (Takes(v) => job[v] = 0)
    BY DEF TypeInv, HeldOK, Takes
  <2>4. ASSUME NEW j \in 1..Len(generationJobs) PROVE Row(j)
    <3>1. faults' = 0 => \A w \in Workers : job[w] = j => job'[w] = j
      BY <2>2, <2>3 DEF Takes
    <3> QED BY <1>3, <2>1, <3>1
  <2>5. Row(Len(generationJobs) + 1)
    BY <2>1, <2>2, <2>3 DEF Takes
  <2>6. \A j \in 1..Len(generationJobs') : Row(j)
    <3>1. \A j \in 1..Len(generationJobs') : j \in 1..Len(generationJobs) \/ j = Len(generationJobs) + 1
      BY <1>1, <2>1
    <3> HIDE DEF Row
    <3> QED BY <2>4, <2>5, <3>1
  <2> QED BY <1>1, <2>6 DEF RowsInv
<1>6. ASSUME NEW v \in Workers, Ends(v) PROVE RowsInv'
  <2>1. /\ Len(generationJobs') = Len(generationJobs) /\ job[v] \in 1..Len(generationJobs)
        /\ \A j \in 1..Len(generationJobs) : j # job[v] => generationJobs'[j] = generationJobs[j]
        /\ generationJobs'[job[v]].trigger = generationJobs[job[v]].trigger
        /\ UNCHANGED lessons
        /\ \A w \in Workers : w # v => job'[w] = job[w]
    BY <1>6 DEF Ends, Closes
  <2>2. ASSUME NEW j \in 1..Len(generationJobs), j # job[v] PROVE Row(j)
    BY <1>3, <2>1, <2>2
  <2>3. Row(job[v])
    <3>1. CASE pc[v] \in {"failed", "rejected"}
      <4>1. generationJobs'[job[v]].status = "failed" /\ generationJobs'[job[v]].output = NoLesson
        BY <1>6, <3>1 DEF Ends, Closes
      <4>2. \A i \in DOMAIN lessons : lessons[i].job # job[v]
        BY <3>1 DEF LessonsOfRuns
      <4> QED BY <2>1, <4>1, <4>2
    <3>2. CASE pc[v] \in {"completed", "needs_review"}
      <4>1. generationJobs'[job[v]].status = pc[v] /\ generationJobs'[job[v]].output = Stored(v)
        BY <1>6, <3>2 DEF Ends, Closes
      <4>2. PICK i \in DOMAIN lessons : lessons[i].job = job[v] /\ lessons[i].child = Child(v)
        BY <3>2 DEF LessonsOfRuns
      <4>3. Stored(v) = i
        BY <2>1, <4>2 DEF Stored, LessonsOfRuns
      <4>4. generationJobs[job[v]].trigger = trigger[v] /\ i # 0
        BY <1>1, <2>1 DEF RowsInWork
      <4> QED BY <2>1, <3>2, <4>1, <4>2, <4>3, <4>4 DEF Child
    <3> QED BY <1>6, <3>1, <3>2 DEF Ends, Closes
  <2>4. \A j \in 1..Len(generationJobs') : Row(j)
    <3> HIDE DEF Row
    <3> QED BY <2>1, <2>2, <2>3
  <2> QED BY <1>1, <2>4 DEF RowsInv
<1> QED BY <1>4, <1>5, <1>6, RunEvents

\* A reason lasts while no run for the trigger can close its row.
LEMMA ReasonLasts ==
    ASSUME TypeInv, RowsInWork, [Next]_vars, NEW t \in Triggers, Reason(t),
           \A v \in Workers : job[v] # 0 => trigger[v] # t
    PROVE  Reason(t)'
<1>1. /\ Lasts /\ DOMAIN lessons = 1..Len(lessons) /\ DOMAIN lessons' = 1..Len(lessons')
      /\ Len(generationJobs) \in Nat
      /\ DOMAIN generationJobs = 1..Len(generationJobs)
      /\ DOMAIN generationJobs' = 1..Len(generationJobs')
  BY TableEvents DEF TypeInv, TablesOK
<1>2. ASSUME NEW i \in Generated, lessons[i].child = TriggerChild[t] PROVE Reason(t)'
  <2>1. i \in DOMAIN lessons' /\ lessons'[i].child = lessons[i].child /\ lessons[i].child # Shared
    BY <1>1, <1>2 DEF Lasts, Generated
  <2> QED BY <1>2, <2>1 DEF Reason, Generated
<1>3. ASSUME NEW j \in DOMAIN generationJobs, generationJobs[j].trigger = t,
             generationJobs[j].status = "running" \/ generationJobs[j].error = "rejected"
      PROVE  Reason(t)'
  <2>1. \A v \in Workers : Closes(v) => generationJobs'[j] = generationJobs[j]
    <3>1. ASSUME NEW v \in Workers, Closes(v) PROVE j # job[v]
      <4>1. job[v] # 0
        BY <1>1, <3>1 DEF Closes
      <4> QED BY <1>3, <4>1 DEF RowsInWork
    <3> QED BY <1>1, <1>3, <3>1 DEF Closes
  <2>2. \A v \in Workers : Opens(v) => generationJobs'[j] = generationJobs[j]
    BY <1>1 DEF Opens
  <2>3. generationJobs'[j] = generationJobs[j]
    BY <2>1, <2>2, TableEvents
  <2>4. j \in DOMAIN generationJobs'
    BY <1>1, RowsStay
  <2> QED BY <1>3, <2>3, <2>4 DEF Reason
<1> QED BY <1>2, <1>3 DEF Reason

\* A run returns nil because it found a lesson, or noted one, or a rejection.
LEMMA Returns ==
    ASSUME TypeInv, RowsInWork, LessonsOfRuns, [Next]_vars, NEW w \in Workers, pc'[w] = "return"
    PROVE  \/ pc[w] = "return" /\ trigger'[w] = trigger[w]
           \/ Reason(trigger[w])'
<1>1. QueueOK /\ HeldOK /\ TablesOK
  BY DEF TypeInv
<1>2. CASE UNCHANGED workerVars
  BY <1>2 DEF workerVars
<1>3. ASSUME NEW v \in Workers, Work(v) \/ Run(v) \/ Complete(v) \/ Failure(v), v # w
      PROVE  pc[w] = "return" /\ trigger'[w] = trigger[w]
  BY <1>3, OthersStay
<1>4. ASSUME NEW step \in Steps \ {"return"}, Goto(w, step) PROVE FALSE
  BY <1>1, <1>4 DEF QueueOK, Goto
<1>5. CASE \/ Work(w) \/ MasteredWordIDs(w) \/ ExistingWordIDs(w) \/ LastOrderIndex(w)
           \/ CreateJob(w) \/ Generate(w) \/ StoreGenerated(w) \/ Complete(w) \/ GenerateFails(w)
  BY <1>4, <1>5
     DEF Work, MasteredWordIDs, ExistingWordIDs, LastOrderIndex, CreateJob, Generate,
         StoreGenerated, Complete, GenerateFails, FinishAs
<1>6. CASE CallFails(w) \/ InsertError(w)
  BY <1>4, <1>6 DEF CallFails, InsertError, Retry
<1>7. CASE CheckPending(w)
  <2>1. pc[w] = "check" /\ UNCHANGED <<trigger, lessons>>
    BY <1>7 DEF CheckPending, tables
  <2>2. PendingAILessonExists(Child(w))
    BY <1>1, <1>7 DEF CheckPending, Goto, QueueOK
  <2>3. Child(w) # Shared
    BY <1>1, <2>1, ChildrenOnly
  <2>4. PICK i \in DOMAIN lessons : lessons[i].child = Child(w)
    BY <2>2 DEF PendingAILessonExists
  <2> QED BY <2>1, <2>3, <2>4 DEF Reason, Generated, Child
<1>8. ASSUME FinishJob(w) \/ FinishJobFails(w)
      PROVE  \/ pc[w] = "rejected" \/ pc[w] \in {"completed", "needs_review"}
  BY <1>4, <1>8 DEF FinishJob, FinishJobFails, EndOfRun, Retry
<1>9. ASSUME FinishJob(w) \/ FinishJobFails(w), pc[w] \in {"completed", "needs_review"}
      PROVE  Reason(trigger[w])'
  <2>1. PICK i \in DOMAIN lessons : lessons[i].child = Child(w)
    BY <1>9 DEF LessonsOfRuns
  <2>2. Child(w) # Shared
    BY <1>1, <1>9, ChildrenOnly
  <2>3. UNCHANGED <<lessons, trigger>>
    BY <1>9 DEF FinishJob, FinishJobFails, EndOfRun, Return, tables
  <2> QED BY <2>1, <2>2, <2>3 DEF Reason, Generated, Child
<1>10. ASSUME FinishJob(w) \/ FinishJobFails(w), pc[w] = "rejected"
       PROVE  Reason(trigger[w])'
  <2>1. /\ UNCHANGED trigger
        /\ job[w] \in 1..Len(generationJobs) /\ DOMAIN generationJobs = 1..Len(generationJobs)
    BY <1>1, <1>10 DEF FinishJob, FinishJobFails, EndOfRun, Return, HeldOK, TablesOK
  <2>2. generationJobs[job[w]].trigger = trigger[w] /\ generationJobs[job[w]].status = "running"
    BY <2>1 DEF RowsInWork
  <2>3. CASE FinishJob(w)
    <3>1. Closes(w)
      BY <2>3, RowClosed DEF FinishJob
    <3>2. /\ generationJobs'[job[w]].trigger = trigger'[w]
          /\ generationJobs'[job[w]].error = "rejected"
      BY <1>10, <2>1, <2>2, <3>1 DEF Closes
    <3>3. job[w] \in DOMAIN generationJobs'
      BY <2>1, <3>1 DEF Closes
    <3> QED BY <3>2, <3>3 DEF Reason
  <2>4. CASE FinishJobFails(w)
    BY <2>1, <2>2, <2>4 DEF FinishJobFails, Reason, tables
  <2> QED BY <1>10, <2>3, <2>4
<1>11. CASE Crash
  BY <1>11 DEF Crash
<1> QED
  BY <1>2, <1>3, <1>5, <1>6, <1>7, <1>8, <1>9, <1>10, <1>11, AllStay DEF Next, Run, Failure, Quiet

\* River records a trigger as completed when a run for it has returned nil.
LEMMA Completes ==
    ASSUME TypeInv, [Next]_vars, NEW t \in Triggers, queue'[t] = "completed", queue[t] # "completed"
    PROVE  \E w \in Workers : pc[w] = "return" /\ trigger[w] = t
<1>1. QueueOK
  BY DEF TypeInv
<1>2. ASSUME NEW s \in Triggers, NEW state \in QueueStates \ {"completed"},
             queue' = [queue EXCEPT ![s] = state]
      PROVE  FALSE
  BY <1>1, <1>2 DEF QueueOK
<1>3. CASE UNCHANGED queue
  BY <1>3
<1>4. ASSUME NEW s \in Triggers, LessonGenerationRequested(s) PROVE FALSE
  BY <1>2, <1>4 DEF LessonGenerationRequested
<1>5. ASSUME NEW w \in Workers, Work(w) PROVE FALSE
  BY <1>2, <1>5 DEF Work
<1>6. ASSUME NEW w \in Workers, Run(w) \/ Failure(w) PROVE FALSE
  <2>1. Retry(w) /\ pc[w] # "idle"
    BY <1>6, Controls
  <2>2. trigger[w] \in Triggers
    BY <1>1, <2>1, ChildrenOnly
  <2> QED BY <1>2, <2>1, <2>2 DEF Retry
<1>7. ASSUME NEW w \in Workers, Complete(w) PROVE pc[w] = "return" /\ trigger[w] = t
  BY <1>1, <1>7 DEF Complete, QueueOK
<1>8. CASE Crash
  BY <1>1, <1>8 DEF Crash, QueueOK
<1>9. CASE \/ \E c \in Children : Master(c)
           \/ \E i \in DOMAIN lessons : Approve(i) \/ Reject(i)
           \/ UNCHANGED vars
  BY <1>9 DEF Master, Approve, Reject, SetStatus, vars
<1> QED BY <1>4, <1>5, <1>6, <1>7, <1>8, <1>9 DEF Next, Quiet

LEMMA ReasonStep ==
    TypeInv /\ RowsInWork /\ LessonsOfRuns /\ ReasonInv /\ [Next]_vars => ReasonInv'
<1> SUFFICES ASSUME TypeInv, RowsInWork, LessonsOfRuns, ReasonInv, [Next]_vars PROVE ReasonInv'
  OBVIOUS
<1>1. QueueOK /\ HeldOK
  BY DEF TypeInv
<1>2. ASSUME NEW t \in Triggers, queue'[t] = "completed" PROVE Reason(t)'
  <2>1. CASE queue[t] = "completed"
    <3>1. \A v \in Workers : trigger[v] # t
      BY <1>1, <2>1 DEF QueueOK
    <3> QED BY <2>1, <3>1, ReasonLasts DEF ReasonInv
  <2>2. CASE queue[t] # "completed"
    <3>1. PICK w \in Workers : pc[w] = "return" /\ trigger[w] = t
      BY <1>2, <2>2, Completes
    <3>2. \A v \in Workers : job[v] # 0 => trigger[v] # t
      BY <1>1, <3>1 DEF QueueOK, HeldOK
    <3> QED BY <3>1, <3>2, ReasonLasts DEF ReasonInv
  <2> QED BY <2>1, <2>2
<1>3. ASSUME NEW w \in Workers, pc'[w] = "return" PROVE Reason(trigger[w])'
  <2>1. CASE pc[w] = "return" /\ trigger'[w] = trigger[w]
    <3>1. PICK t \in Triggers : trigger[w] = t
      BY <1>1, <2>1 DEF QueueOK
    <3>2. \A v \in Workers : job[v] # 0 => trigger[v] # t
      BY <1>1, <2>1, <3>1 DEF QueueOK, HeldOK
    <3>3. Reason(t)
      BY <2>1, <3>1 DEF ReasonInv
    <3>4. Reason(t)'
      BY <3>2, <3>3, ReasonLasts
    <3> QED BY <2>1, <3>1, <3>4
  <2> QED BY <1>3, <2>1, Returns
<1> QED BY <1>2, <1>3 DEF ReasonInv

LEMMA AuditStep == TypeInv /\ AuditInv /\ [Next]_vars => AuditInv'
BY InWorkStep, OfRunsStep, RowsStep, ReasonStep DEF AuditInv

LEMMA AuditMeans == TypeInv /\ AuditInv => AuditHolds
<1> SUFFICES ASSUME TypeInv, AuditInv PROVE AuditHolds
  OBVIOUS
<1>1. \A i \in Generated : i \in DOMAIN lessons /\ lessons[i].job # 0
  BY DEF AuditInv, LessonsOfRuns, Generated
<1>2. RowsTruthful
  BY <1>1 DEF AuditInv, RowsInv, LessonsOfRuns, RowsTruthful
<1>3. CompletedForAReason
  BY DEF AuditInv, ReasonInv, Reason, CompletedForAReason
<1> QED BY <1>2, <1>3 DEF AuditHolds

\* The rows of generation_jobs and River's verdict say what happened, whatever
\* crashed or failed and however often a trigger was retried: the one update of
\* contentgen/service.go finishJob, and what Run returns after it.
THEOREM AuditsHold == GenerationSpec => []AuditHolds
BY TypeInit, TypeStep, AuditInit, AuditStep, AuditMeans, PTL DEF GenerationSpec

=============================================================================
