-------------------------- MODULE Completion_proofs --------------------------
(***************************************************************************)
(* Theorems about sessions, completions and the companion, for every set   *)
(* of handlers, words and keys, every curriculum, every ladder of growth   *)
(* stages and every bound.                                                 *)
(***************************************************************************)
EXTENDS Completion, FiniteSetTheorems, TLAPS

USE DEF Steps, NoLesson, Never

(***************************************************************************)
(* Lemmas about the operators.                                             *)
(***************************************************************************)

\* StageFor finds the last stage that is reached: the first stage needs no
\* word, and there are finitely many.
LEMMA LastStage ==
    ASSUME NEW n \in Nat
    PROVE  /\ StageFor(n) \in 1..Len(StageAt)
           /\ StageAt[StageFor(n)] <= n
           /\ StageFor(n) < Len(StageAt) => n < StageAt[StageFor(n) + 1]
<1> DEFINE Stages == 1..Len(StageAt)
           Reached == {s \in Stages : n >= StageAt[s]}
           Above == {s..Len(StageAt) : s \in Reached}
           Order == StrictSubsetOrdering(Stages)
<1>1. /\ Len(StageAt) \in Nat \ {0} /\ StageAt[1] = 0
      /\ \A s \in Stages : StageAt[s] \in Nat
  BY CompletionAssumption
<1>2. IsFiniteSet(Stages)
  BY <1>1, FS_Interval
<1>3. IsWellFoundedOn(Order, SUBSET Stages)
  BY <1>2, FS_StrictSubsetOrderingWellFounded, FS_FiniteSubsetsOfFinite
<1>4. 1 \in Reached /\ Above \subseteq SUBSET Stages /\ Above # {}
  BY <1>1
<1>5. PICK least \in Above : \A other \in Above : <<other, least>> \notin Order
  <2> HIDE DEF Above, Order
  <2> QED BY <1>3, <1>4, WFMin
<1>6. PICK top \in Reached : least = top..Len(StageAt)
  BY <1>5
<1>7. ASSUME NEW s \in Reached, s > top PROVE FALSE
  <2>1. (s..Len(StageAt)) \subseteq least /\ s..Len(StageAt) # least
    BY <1>1, <1>6, <1>7
  <2>2. <<s..Len(StageAt), least>> \in Order
    BY <1>4, <1>5, <2>1 DEF StrictSubsetOrdering
  <2> QED BY <1>5, <2>2
<1>8. \A s \in Stages : n >= StageAt[s] => s <= top
  BY <1>1, <1>7
<1>9. /\ StageFor(n) \in Stages /\ n >= StageAt[StageFor(n)]
      /\ \A s \in Stages : n >= StageAt[s] => s <= StageFor(n)
  BY <1>8 DEF StageFor
<1> HIDE DEF Reached, Above, Order
<1> QED BY <1>1, <1>9

\* What is counted can be counted.
LEMMA Counting ==
    ASSUME NEW S \in SUBSET Words, NEW T \in SUBSET S
    PROVE  /\ Cardinality(S) \in Nat /\ Cardinality(T) \in Nat
           /\ Cardinality(T) <= Cardinality(S)
<1>1. IsFiniteSet(S)
  BY FS_Subset, CompletionAssumption
<1> QED BY <1>1, FS_Subset, FS_CardinalityType

(***************************************************************************)
(* Type correctness.  A handler past the middleware works on a session     *)
(* that exists, and one past its reload on the lesson of that session:     *)
(* without that the counts of a summary would be of nothing.               *)
(***************************************************************************)
Answering == {"countWindow", "findNext", "countTotal", "readCompanion",
              "writeCompanion", "publish", "answer"}
Holding == Answering \cup {"countLesson"}
USE DEF Answering, Holding

SessionsOK ==
    \A k \in Keys :
        /\ sessions[k].status = "none" => sessions[k] = NoSession
        /\ sessions[k].status # "none" => sessions[k].lesson \in 1..Len(Lessons)

HandlerOK ==
    \A h \in Handlers :
        /\ pc[h] # "idle" => req[h] \in Request
        /\ pc[h] = "createSession" => req[h].lesson # NoLesson
        /\ pc[h] \in {"mark", "reload"} => sessions[req[h].key].status # "none"
        /\ pc[h] \in Holding => row[h].lesson \in 1..Len(Lessons)

TypeInv == CompletionTypeOK /\ SessionsOK /\ HandlerOK

LEMMA Defaults ==
    /\ NoSession \in SessionRow
    /\ NoSummary \in Summary
    /\ 1 \in 1..Len(StageAt)
    /\ Len(Lessons) \in Nat
BY CompletionAssumption DEF NoSession, SessionRow, NoSummary, Summary

LEMMA TypeInit == Init => TypeInv
<1> SUFFICES ASSUME Init PROVE TypeInv
  OBVIOUS
<1>1. companion \in CompanionRow
  BY Defaults DEF Init, CompanionRow
<1> QED
  BY <1>1, Defaults DEF Init, NoSession, TypeInv, CompletionTypeOK, SessionsOK, HandlerOK

\* A summary stays one when a call fills in its part.
LEMMA SummaryFields ==
    ASSUME NEW s \in Summary
    PROVE  /\ \A k \in Keys, c \in Nat \cup {Never}, m \in BOOLEAN :
                [s EXCEPT !.key = k, !.completed = c, !.mastered = m] \in Summary
           /\ \A n \in Nat : [s EXCEPT !.delta = n] \in Summary
           /\ \A n \in Nat : [s EXCEPT !.total = n] \in Summary
           /\ \A l \in 0..Len(Lessons) : [s EXCEPT !.next = l] \in Summary
           /\ \A b \in BOOLEAN : [s EXCEPT !.grew = b] \in Summary
BY DEF Summary

\* A session stays one when it is completed.
LEMMA CompletedRow ==
    ASSUME NEW k \in Keys, sessions \in [Keys -> SessionRow], NEW t \in Nat,
           sessions' = [sessions EXCEPT ![k].status = "completed", ![k].completed = t]
    PROVE  \E new \in SessionRow :
                /\ sessions' = [sessions EXCEPT ![k] = new]
                /\ new.status = "completed" /\ new.completed = t
                /\ new.lesson = sessions[k].lesson /\ new.started = sessions[k].started
<1> DEFINE new == [sessions[k] EXCEPT !.status = "completed", !.completed = t]
<1>1. sessions[k] \in SessionRow
  OBVIOUS
<1>2. /\ new \in SessionRow
      /\ new.status = "completed" /\ new.completed = t
      /\ new.lesson = sessions[k].lesson /\ new.started = sessions[k].started
  BY <1>1 DEF SessionRow
<1>3. sessions' = [sessions EXCEPT ![k] = new]
  OBVIOUS
<1> HIDE DEF new
<1> QED BY <1>2, <1>3

\* Sessions come into being and do not go away.
Existing == \A k \in Keys : sessions[k].status # "none" => sessions'[k].status # "none"

\* What the end of a request does to the handlers.
LEMMA DoneTypes ==
    ASSUME TypeInv, NEW h \in Handlers, Done(h), Existing
    PROVE  /\ pc' \in [Handlers -> Steps]
           /\ req' \in [Handlers -> Request \cup {NoRequest}]
           /\ row' \in [Handlers -> SessionRow]
           /\ clock' \in [Handlers -> Nat]
           /\ summary' \in [Handlers -> Summary]
           /\ hatched' \in [Handlers -> 1..Len(StageAt)]
           /\ HandlerOK'
<1> USE Defaults DEF TypeInv, CompletionTypeOK, Done, Goto
<1>1. /\ pc' \in [Handlers -> Steps]
      /\ req' \in [Handlers -> Request \cup {NoRequest}]
      /\ row' \in [Handlers -> SessionRow]
      /\ clock' \in [Handlers -> Nat]
      /\ summary' \in [Handlers -> Summary]
      /\ hatched' \in [Handlers -> 1..Len(StageAt)]
  OBVIOUS
<1>2. HandlerOK'
  <2> SUFFICES ASSUME NEW g \in Handlers
               PROVE  /\ pc'[g] # "idle" => req'[g] \in Request
                      /\ pc'[g] = "createSession" => req'[g].lesson # NoLesson
                      /\ pc'[g] \in {"mark", "reload"} => sessions'[req'[g].key].status # "none"
                      /\ pc'[g] \in Holding => row'[g].lesson \in 1..Len(Lessons)
    BY DEF HandlerOK
  <2>1. CASE g = h
    BY <2>1
  <2>2. CASE g # h
    <3>1. pc[g] # "idle" => req[g].key \in Keys
      BY DEF HandlerOK, Request
    <3> QED BY <2>2, <3>1 DEF HandlerOK, Existing
  <2> QED BY <2>1, <2>2
<1> QED BY <1>1, <1>2

\* A step of one handler that leaves the other ones and its request alone.
LEMMA StepTypes ==
    ASSUME TypeInv, NEW h \in Handlers, pc[h] # "idle", UNCHANGED req, Existing,
           NEW step \in Steps \ {"createSession"}, Goto(h, step),
           \A g \in Handlers \ {h} : row'[g] = row[g],
           step \in {"mark", "reload"} => sessions'[req[h].key].status # "none",
           step \in Holding => row'[h].lesson \in 1..Len(Lessons)
    PROVE  pc' \in [Handlers -> Steps] /\ HandlerOK'
<1> USE DEF TypeInv, CompletionTypeOK, Goto
<1>1. pc' \in [Handlers -> Steps]
  OBVIOUS
<1>2. ASSUME NEW g \in Handlers
      PROVE  /\ pc'[g] # "idle" => req'[g] \in Request
             /\ pc'[g] = "createSession" => req'[g].lesson # NoLesson
             /\ pc'[g] \in {"mark", "reload"} => sessions'[req'[g].key].status # "none"
             /\ pc'[g] \in Holding => row'[g].lesson \in 1..Len(Lessons)
  <2>1. pc[g] # "idle" => req[g].key \in Keys
    BY DEF HandlerOK, Request
  <2>2. CASE g = h
    BY <2>2 DEF HandlerOK
  <2>3. CASE g # h
    BY <2>1, <2>3 DEF HandlerOK, Existing
  <2> QED BY <2>2, <2>3
<1> QED BY <1>1, <1>2 DEF HandlerOK

LEMMA StartTypes ==
    ASSUME TypeInv, NEW h \in Handlers, Start(h)
    PROVE  TypeInv'
<1> USE DEF TypeInv, CompletionTypeOK
<1>1. req[h] \in Request /\ req[h].key \in Keys
  BY DEF Start, FindSession, CreateSession, HandlerOK, Request
<1>2. CASE FindSession(h)
  <2>1. Existing /\ SessionsOK'
    BY <1>2 DEF FindSession, tables, Existing, SessionsOK
  <2>2. CASE Done(h)
    BY <1>2, <2>1, <2>2, DoneTypes DEF FindSession, tables
  <2>3. CASE ~Done(h)
    <3>1. /\ clock' = [clock EXCEPT ![h] = now]
          /\ pc' = [pc EXCEPT ![h] = "createSession"]
          /\ req[h].lesson # NoLesson
          /\ UNCHANGED <<req, row, summary, hatched, tables, now, answers, received, faults>>
      BY <1>2, <2>3 DEF FindSession, Goto
    <3>2. HandlerOK'
      BY <1>1, <2>1, <3>1 DEF HandlerOK, tables
    <3> QED BY <2>1, <3>1, <3>2 DEF tables
  <2> QED BY <2>2, <2>3
<1>3. CASE CreateSession(h)
  <2>1. req[h].lesson \in 1..Len(Lessons)
    BY <1>1, <1>3 DEF CreateSession, HandlerOK, Request
  <2>2. /\ sessions' \in [Keys -> SessionRow]
        /\ SessionsOK' /\ Existing
    <3>1. CASE UNCHANGED sessions
      BY <3>1 DEF SessionsOK, Existing
    <3>2. CASE sessions' # sessions
      <4>1. PICK t \in Reading(h) : sessions' = [sessions EXCEPT ![req[h].key] =
                [status |-> "active", lesson |-> req[h].lesson,
                 started |-> t, completed |-> Never]]
        BY <1>3, <3>2 DEF CreateSession
      <4>2. t \in Nat
        BY DEF Reading
      <4>3. [status |-> "active", lesson |-> req[h].lesson,
             started |-> t, completed |-> Never] \in SessionRow
        BY <2>1, <4>2 DEF SessionRow
      <4> QED BY <1>1, <2>1, <4>1, <4>3 DEF SessionsOK, Existing
    <3> QED BY <3>1, <3>2
  <2> QED BY <1>3, <2>2, DoneTypes DEF CreateSession
<1> QED BY <1>2, <1>3 DEF Start

LEMMA CompleteTypes ==
    ASSUME TypeInv, NEW h \in Handlers, Complete(h)
    PROVE  TypeInv'
<1> USE DEF TypeInv, CompletionTypeOK
<1>1. pc[h] # "idle" /\ req[h] \in Request /\ req[h].key \in Keys
  BY DEF Complete, LoadSession, MarkSessionCompleted, Reload, CountLesson, CountWindow,
         FindNext, CountTotal, ReadCompanion, WriteCompanion, MasteryUpdated, Answer,
         HandlerOK, Request
<1>2. UNCHANGED sessions => Existing /\ SessionsOK'
  BY DEF Existing, SessionsOK
<1>3. \A S \in SUBSET Words : Cardinality(S) \in Nat
  BY Counting
<1>4. CASE LoadSession(h)
  <2>1. CASE Done(h)
    BY <1>2, <1>4, <2>1, DoneTypes DEF LoadSession, tables
  <2>2. CASE ~Done(h)
    <3>1. /\ sessions[req[h].key] # NoSession
          /\ row' = [row EXCEPT ![h] = sessions[req[h].key]]
          /\ clock' = [clock EXCEPT ![h] = now]
          /\ Goto(h, IF row'[h].status = "active" THEN "mark" ELSE "countLesson")
          /\ UNCHANGED <<req, summary, hatched, sessions>>
      BY <1>4, <2>2 DEF LoadSession, tables
    <3>2. row'[h] = sessions[req[h].key] /\ sessions[req[h].key].status # "none"
      BY <1>1, <3>1 DEF SessionsOK
    <3>3. pc' \in [Handlers -> Steps] /\ HandlerOK'
      <4> DEFINE step == IF row'[h].status = "active" THEN "mark" ELSE "countLesson"
      <4>1. step \in Steps \ {"createSession"}
        OBVIOUS
      <4>2. step \in Holding => row'[h].lesson \in 1..Len(Lessons)
        BY <1>1, <3>2 DEF SessionsOK
      <4>3. \A g \in Handlers \ {h} : row'[g] = row[g]
        BY <3>1
      <4>4. Goto(h, step) /\ sessions'[req[h].key].status # "none"
        BY <3>1, <3>2
      <4> HIDE DEF step
      <4> QED BY <1>1, <1>2, <3>1, <4>1, <4>2, <4>3, <4>4, StepTypes
    <3> QED BY <1>1, <1>2, <1>4, <3>1, <3>3 DEF LoadSession, tables
  <2> QED BY <2>1, <2>2
<1>5. CASE MarkSessionCompleted(h)
  <2>1. sessions[req[h].key].status # "none" /\ pc[h] = "mark"
    BY <1>5 DEF MarkSessionCompleted, HandlerOK
  <2>2. /\ sessions' \in [Keys -> SessionRow] /\ SessionsOK' /\ Existing
        /\ sessions'[req[h].key].status # "none"
    <3>1. CASE UNCHANGED sessions
      BY <1>2, <2>1, <3>1
    <3>2. CASE sessions' # sessions
      <4>1. PICK t \in Reading(h) :
                sessions' = [sessions EXCEPT ![req[h].key].status = "completed",
                                             ![req[h].key].completed = t]
        BY <1>5, <3>2 DEF MarkSessionCompleted
      <4>2. t \in Nat
        BY DEF Reading
      <4>3. PICK new \in SessionRow :
                /\ sessions' = [sessions EXCEPT ![req[h].key] = new]
                /\ new.status = "completed" /\ new.completed = t
                /\ new.lesson = sessions[req[h].key].lesson
                /\ new.started = sessions[req[h].key].started
        <5>1. req[h].key \in Keys /\ sessions \in [Keys -> SessionRow]
          BY <1>1
        <5> HIDE DEF TypeInv, CompletionTypeOK
        <5> QED BY <4>1, <4>2, <5>1, CompletedRow
      <4>4. new.lesson \in 1..Len(Lessons)
        BY <1>1, <2>1, <4>3 DEF SessionsOK
      <4>5. ASSUME NEW k \in Keys
            PROVE  /\ sessions'[k].status = "none" => sessions'[k] = NoSession
                   /\ sessions'[k].status # "none" => sessions'[k].lesson \in 1..Len(Lessons)
                   /\ sessions[k].status # "none" => sessions'[k].status # "none"
        BY <1>1, <4>3, <4>4 DEF SessionsOK
      <4> QED BY <1>1, <4>3, <4>5 DEF SessionsOK, Existing
    <3> QED BY <3>1, <3>2
  <2>3. pc' \in [Handlers -> Steps] /\ HandlerOK'
    <3>1. Goto(h, "reload") /\ UNCHANGED <<req, row>>
      BY <1>5 DEF MarkSessionCompleted
    <3> QED BY <1>1, <2>2, <3>1, StepTypes
  <2> QED BY <1>5, <2>2, <2>3 DEF MarkSessionCompleted
<1>6. CASE Reload(h)
  <2>1. sessions[req[h].key].lesson \in 1..Len(Lessons)
    BY <1>1, <1>6 DEF Reload, HandlerOK, SessionsOK
  <2>2. pc' \in [Handlers -> Steps] /\ HandlerOK'
    <3>1. Goto(h, "countLesson") /\ UNCHANGED <<req, sessions>>
      BY <1>6 DEF Reload, tables
    <3>2. row'[h].lesson \in 1..Len(Lessons) /\ \A g \in Handlers \ {h} : row'[g] = row[g]
      BY <1>6, <2>1 DEF Reload
    <3> QED BY <1>1, <1>2, <3>1, <3>2, StepTypes
  <2> QED BY <1>1, <1>2, <1>6, <2>2 DEF Reload, tables
<1>7. CASE CountLesson(h)
  <2>1. row[h].lesson \in 1..Len(Lessons)
    BY <1>7 DEF CountLesson, HandlerOK
  <2>2. pc' \in [Handlers -> Steps] /\ HandlerOK'
    <3>1. Goto(h, "countWindow") /\ UNCHANGED <<req, row, sessions>>
      BY <1>7 DEF CountLesson, tables
    <3> QED BY <1>1, <1>2, <2>1, <3>1, StepTypes
  <2>3. summary' \in [Handlers -> Summary]
    <3>1. AllMastered(row[h].lesson) \in BOOLEAN /\ row[h].completed \in Nat \cup {Never}
      BY DEF AllMastered, SessionRow
    <3>2. summary' = [summary EXCEPT ![h] =
                [@ EXCEPT !.key = req[h].key, !.completed = row[h].completed,
                          !.mastered = AllMastered(row[h].lesson)]]
      BY <1>7 DEF CountLesson
    <3> QED BY <1>1, <3>1, <3>2, SummaryFields
  <2> QED BY <1>2, <1>7, <2>2, <2>3 DEF CountLesson, tables
<1>8. CASE CountWindow(h)
  <2>1. row[h].lesson \in 1..Len(Lessons)
    BY <1>8 DEF CountWindow, HandlerOK
  <2>2. pc' \in [Handlers -> Steps] /\ HandlerOK'
    <3> DEFINE step == IF summary[h].mastered THEN "findNext" ELSE "countTotal"
    <3>1. Goto(h, step) /\ UNCHANGED <<req, row, sessions>>
      BY <1>8 DEF CountWindow, tables
    <3>2. step \in Steps \ {"createSession"} /\ step \notin {"mark", "reload"}
      OBVIOUS
    <3> HIDE DEF step
    <3> QED BY <1>1, <1>2, <2>1, <3>1, <3>2, StepTypes
  <2>3. summary' \in [Handlers -> Summary]
    <3> DEFINE d == Cardinality(MasteredInWindow(row[h].lesson, row[h].started, row[h].completed))
    <3>1. d \in Nat
      BY <1>3, <2>1, CompletionAssumption DEF MasteredInWindow
    <3>2. summary' = [summary EXCEPT ![h] = [@ EXCEPT !.delta = d]]
      BY <1>8 DEF CountWindow
    <3> HIDE DEF d
    <3> QED BY <3>1, <3>2, SummaryFields
  <2> QED BY <1>2, <1>8, <2>2, <2>3 DEF CountWindow, tables
<1>9. CASE FindNext(h)
  <2>1. row[h].lesson \in 1..Len(Lessons)
    BY <1>9 DEF FindNext, HandlerOK
  <2>2. pc' \in [Handlers -> Steps] /\ HandlerOK'
    <3>1. Goto(h, "countTotal") /\ UNCHANGED <<req, row, sessions>>
      BY <1>9 DEF FindNext
    <3> QED BY <1>1, <1>2, <2>1, <3>1, StepTypes
  <2>3. summary' \in [Handlers -> Summary] /\ generation' \in Nat
    <3>1. CASE row[h].lesson < Len(Lessons)
      <4>1. row[h].lesson + 1 \in 0..Len(Lessons)
        BY <2>1, <3>1, Defaults
      <4>2. /\ summary' = [summary EXCEPT ![h] = [@ EXCEPT !.next = row[h].lesson + 1]]
            /\ UNCHANGED generation
        BY <1>9, <3>1 DEF FindNext
      <4> QED BY <4>1, <4>2, SummaryFields
    <3>2. CASE ~(row[h].lesson < Len(Lessons))
      BY <1>9, <3>2 DEF FindNext
    <3> QED BY <3>1, <3>2
  <2> QED BY <1>2, <1>9, <2>2, <2>3 DEF FindNext
<1>10. CASE CountTotal(h)
  <2>1. pc' \in [Handlers -> Steps] /\ HandlerOK'
    <3>1. Goto(h, "readCompanion") /\ UNCHANGED <<req, row, sessions>> /\ pc[h] \in Holding
      BY <1>10 DEF CountTotal, tables
    <3>2. row[h].lesson \in 1..Len(Lessons)
      BY <3>1 DEF HandlerOK
    <3> QED BY <1>1, <1>2, <3>1, <3>2, StepTypes
  <2>2. summary' \in [Handlers -> Summary]
    <3>1. Cardinality(MasteredWords) \in Nat
      BY <1>3 DEF MasteredWords
    <3>2. summary' = [summary EXCEPT ![h] = [@ EXCEPT !.total = Cardinality(MasteredWords)]]
      BY <1>10 DEF CountTotal
    <3> QED BY <3>1, <3>2, SummaryFields
  <2> QED BY <1>2, <1>10, <2>1, <2>2 DEF CountTotal, tables
<1>11. CASE ReadCompanion(h)
  <2>1. pc' \in [Handlers -> Steps] /\ HandlerOK'
    <3> DEFINE step == IF companion.species = NoSpecies THEN "publish" ELSE "writeCompanion"
    <3>1. Goto(h, step) /\ UNCHANGED <<req, row, sessions>> /\ pc[h] \in Holding
      BY <1>11 DEF ReadCompanion, tables
    <3>2. row[h].lesson \in 1..Len(Lessons)
      BY <3>1 DEF HandlerOK
    <3>3. step \in Steps \ {"createSession"} /\ step \notin {"mark", "reload"}
      OBVIOUS
    <3> HIDE DEF step
    <3> QED BY <1>1, <1>2, <3>1, <3>2, <3>3, StepTypes
  <2>2. hatched' \in [Handlers -> 1..Len(StageAt)]
    BY <1>11 DEF ReadCompanion, CompanionRow
  <2> QED BY <1>2, <1>11, <2>1, <2>2 DEF ReadCompanion, tables
<1>12. CASE WriteCompanion(h)
  <2>1. pc' \in [Handlers -> Steps] /\ HandlerOK'
    <3>1. Goto(h, "publish") /\ UNCHANGED <<req, row, sessions>> /\ pc[h] \in Holding
      BY <1>12 DEF WriteCompanion
    <3>2. row[h].lesson \in 1..Len(Lessons)
      BY <3>1 DEF HandlerOK
    <3> QED BY <1>1, <1>2, <3>1, <3>2, StepTypes
  <2>2. companion' \in CompanionRow /\ summary' \in [Handlers -> Summary]
    <3> DEFINE stage == StageFor(summary[h].total)
    <3>1. summary[h].total \in Nat
      BY DEF Summary
    <3>2. stage \in 1..Len(StageAt)
      BY <3>1, LastStage
    <3>3. (stage > hatched[h]) \in BOOLEAN
      BY <3>2
    <3>4. /\ companion' = [companion EXCEPT !.words = summary[h].total, !.stage = stage]
          /\ summary' = [summary EXCEPT ![h] = [@ EXCEPT !.grew = stage > hatched[h]]]
      BY <1>12 DEF WriteCompanion
    <3> HIDE DEF stage
    <3>5. summary' \in [Handlers -> Summary]
      BY <3>3, <3>4, SummaryFields
    <3>6. companion' \in CompanionRow
      BY <3>1, <3>2, <3>4 DEF CompanionRow
    <3> QED BY <3>5, <3>6
  <2> QED BY <1>2, <1>12, <2>1, <2>2 DEF WriteCompanion
<1>13. CASE MasteryUpdated(h)
  <2>1. pc' \in [Handlers -> Steps] /\ HandlerOK'
    <3>1. Goto(h, "answer") /\ UNCHANGED <<req, row, sessions>> /\ pc[h] \in Holding
      BY <1>13 DEF MasteryUpdated
    <3>2. row[h].lesson \in 1..Len(Lessons)
      BY <3>1 DEF HandlerOK
    <3> QED BY <1>1, <1>2, <3>1, <3>2, StepTypes
  <2> QED BY <1>2, <1>13, <2>1 DEF MasteryUpdated
<1>14. CASE Answer(h)
  BY <1>2, <1>14, DoneTypes DEF Answer, tables
<1> QED BY <1>4, <1>5, <1>6, <1>7, <1>8, <1>9, <1>10, <1>11, <1>12, <1>13, <1>14 DEF Complete

LEMMA SelectTypes ==
    ASSUME TypeInv, NEW h \in Handlers, Select(h)
    PROVE  TypeInv'
<1> USE DEF TypeInv, CompletionTypeOK
<1>1. req[h] \in Request /\ req[h].species \in Species \cup {NoSpecies}
  BY DEF Select, FindCompanion, CreateCompanion, HandlerOK, Request
<1>2. UNCHANGED sessions => Existing /\ SessionsOK'
  BY DEF Existing, SessionsOK
<1>3. CASE FindCompanion(h)
  <2>1. CASE companion.species # NoSpecies
    BY <1>2, <1>3, <2>1, DoneTypes DEF FindCompanion, tables
  <2>2. CASE companion.species = NoSpecies
    <3>1. /\ pc[h] # "idle" /\ Goto(h, "createCompanion")
          /\ UNCHANGED <<req, row, clock, summary, hatched, sessions>>
      BY <1>3, <2>2 DEF FindCompanion, tables
    <3>2. pc' \in [Handlers -> Steps] /\ HandlerOK'
      BY <1>2, <3>1, StepTypes
    <3> QED BY <1>2, <1>3, <3>1, <3>2 DEF FindCompanion, tables
  <2> QED BY <2>1, <2>2
<1>4. CASE CreateCompanion(h)
  <2>1. companion' \in CompanionRow
    <3>1. [species |-> req[h].species, words |-> 0, stage |-> 1] \in CompanionRow
      BY <1>1, Defaults DEF CompanionRow
    <3> QED BY <1>4, <3>1 DEF CreateCompanion
  <2> QED BY <1>2, <1>4, <2>1, DoneTypes DEF CreateCompanion
<1> QED BY <1>3, <1>4 DEF Select

LEMMA ReceiveTypes ==
    ASSUME TypeInv, NEW h \in Handlers, Receive(h)
    PROVE  TypeInv'
<1> USE DEF TypeInv, CompletionTypeOK
<1>1. PICK r \in Requests :
        /\ req' = [req EXCEPT ![h] = r]
        /\ Goto(h, CASE r.op = "start" -> "findSession"
                     [] r.op = "complete" -> "load"
                     [] r.op = "select" -> "findCompanion")
  BY DEF Receive
<1>2. r \in Request
  BY CompletionAssumption
<1>3. PICK step \in {"findSession", "load", "findCompanion"} : pc' = [pc EXCEPT ![h] = step]
  BY <1>1, <1>2 DEF Goto, Request
<1>4. received' \in Nat
  BY DEF Receive
<1>5. SessionsOK' /\ HandlerOK'
  BY <1>1, <1>2, <1>3 DEF Receive, tables, SessionsOK, HandlerOK
<1> QED BY <1>1, <1>2, <1>3, <1>4, <1>5 DEF Receive, tables

LEMMA OtherTypes ==
    ASSUME TypeInv,
           \/ \E h \in Handlers : CallFails(h)
           \/ \E w \in Words : Master(w)
           \/ Crash \/ Tick \/ UNCHANGED vars
    PROVE  TypeInv'
<1> USE DEF TypeInv, CompletionTypeOK
<1>1. UNCHANGED sessions => Existing /\ SessionsOK'
  BY DEF Existing, SessionsOK
<1>2. ASSUME NEW h \in Handlers, CallFails(h) PROVE TypeInv'
  <2>1. Done(h) /\ UNCHANGED <<now, tables, answers, received>> /\ faults' \in Nat
    BY <1>2 DEF CallFails
  <2> QED BY <1>1, <2>1, DoneTypes DEF tables
<1>3. ASSUME NEW w \in Words, Master(w) PROVE TypeInv'
  <2>1. first' \in [Words -> Nat \cup {Never}]
    BY <1>3 DEF Master
  <2>2. HandlerOK'
    BY <1>3 DEF Master, handlerVars, HandlerOK
  <2> QED BY <1>1, <1>3, <2>1, <2>2 DEF Master, handlerVars
<1>4. CASE Crash
  BY <1>1, <1>4, Defaults DEF Crash, tables, HandlerOK
<1>5. CASE Tick
  BY <1>1, <1>5 DEF Tick, tables, handlerVars, HandlerOK
<1>6. CASE UNCHANGED vars
  BY <1>1, <1>6 DEF vars, tables, handlerVars, HandlerOK
<1> QED BY <1>2, <1>3, <1>4, <1>5, <1>6

LEMMA TypeStep == TypeInv /\ [Next]_vars => TypeInv'
BY ReceiveTypes, StartTypes, CompleteTypes, SelectTypes, OtherTypes DEF Next

\* Every variable keeps its type, and the handlers hold what their next call
\* needs.
THEOREM CompletionTypeCorrect == Spec => []CompletionTypeOK
<1>1. TypeInv => CompletionTypeOK
  BY DEF TypeInv
<1> QED BY <1>1, TypeInit, TypeStep, PTL DEF Spec

(***************************************************************************)
(* What is written once stays.                                             *)
(***************************************************************************)

\* The part of SessionFrozen that one step can break.
Frozen ==
    \A k \in Keys : sessions[k] # NoSession =>
        /\ sessions'[k].lesson = sessions[k].lesson
        /\ sessions'[k].started = sessions[k].started
        /\ sessions[k].status = "completed" => sessions'[k] = sessions[k]

SpeciesKept == companion.species # NoSpecies => companion'.species = companion.species

LEMMA FrozenStep == TypeInv /\ [Next]_vars => Frozen /\ SpeciesKept
<1> SUFFICES ASSUME TypeInv, [Next]_vars PROVE Frozen /\ SpeciesKept
  OBVIOUS
<1> USE DEF TypeInv, CompletionTypeOK
<1>1. CASE UNCHANGED <<sessions, companion>>
  BY <1>1 DEF Frozen, SpeciesKept
<1>2. ASSUME NEW h \in Handlers, CreateSession(h) PROVE Frozen /\ SpeciesKept
  <2>1. req[h].key \in Keys
    BY <1>2 DEF CreateSession, HandlerOK, Request
  <2> QED BY <1>2, <2>1 DEF CreateSession, Frozen, SpeciesKept
<1>3. ASSUME NEW h \in Handlers, MarkSessionCompleted(h) PROVE Frozen /\ SpeciesKept
  <2>1. req[h].key \in Keys
    BY <1>3 DEF MarkSessionCompleted, HandlerOK, Request
  <2>2. CASE UNCHANGED sessions
    BY <1>3, <2>2 DEF MarkSessionCompleted, Frozen, SpeciesKept
  <2>3. CASE sessions' # sessions
    <3>1. PICK t \in Reading(h) :
              sessions' = [sessions EXCEPT ![req[h].key].status = "completed",
                                           ![req[h].key].completed = t]
      BY <1>3, <2>3 DEF MarkSessionCompleted
    <3>2. sessions[req[h].key].status = "active"
      BY <1>3, <2>3 DEF MarkSessionCompleted
    <3>3. sessions \in [Keys -> SessionRow] /\ t \in Nat
      BY DEF Reading
    <3>4. PICK new \in SessionRow :
              /\ sessions' = [sessions EXCEPT ![req[h].key] = new]
              /\ new.status = "completed" /\ new.completed = t
              /\ new.lesson = sessions[req[h].key].lesson
              /\ new.started = sessions[req[h].key].started
      <4> HIDE DEF TypeInv, CompletionTypeOK
      <4> QED BY <2>1, <3>1, <3>3, CompletedRow
    <3>5. Frozen
      BY <2>1, <3>2, <3>4 DEF Frozen
    <3> QED BY <1>3, <3>5 DEF MarkSessionCompleted, SpeciesKept
  <2> QED BY <2>2, <2>3
<1>4. ASSUME NEW h \in Handlers, WriteCompanion(h) PROVE Frozen /\ SpeciesKept
  BY <1>4 DEF WriteCompanion, Frozen, SpeciesKept, CompanionRow
<1>5. ASSUME NEW h \in Handlers, CreateCompanion(h) PROVE Frozen /\ SpeciesKept
  BY <1>5 DEF CreateCompanion, Frozen, SpeciesKept
<1>6. ASSUME NEW h \in Handlers,
             \/ Receive(h) \/ FindSession(h) \/ LoadSession(h) \/ Reload(h)
             \/ CountLesson(h) \/ CountWindow(h) \/ FindNext(h) \/ CountTotal(h)
             \/ ReadCompanion(h) \/ MasteryUpdated(h) \/ Answer(h) \/ FindCompanion(h)
             \/ CallFails(h)
      PROVE  UNCHANGED <<sessions, companion>>
  BY <1>6 DEF Receive, FindSession, LoadSession, Reload, CountLesson, CountWindow, FindNext,
       CountTotal, ReadCompanion, MasteryUpdated, Answer, FindCompanion, CallFails, tables
<1>7. CASE \/ \E w \in Words : Master(w)
           \/ Crash \/ Tick \/ UNCHANGED vars
  BY <1>1, <1>7 DEF Master, Crash, Tick, vars, tables
<1> QED
  BY <1>1, <1>2, <1>3, <1>4, <1>5, <1>6, <1>7 DEF Next, Start, Complete, Select

\* A session keeps its lesson and its start, and once completed its window;
\* a companion keeps its species, whichever requests race.
THEOREM RowsAreFrozen == Spec => RowsFrozen
<1>1. TypeInv /\ [Next]_vars => [Frozen /\ SpeciesKept]_vars
  BY FrozenStep
<1>2. Spec => [][Frozen /\ SpeciesKept]_vars
  BY <1>1, TypeInit, TypeStep, PTL DEF Spec
<1>3. Spec => SessionFrozen /\ SpeciesFixed
  BY <1>2, PTL DEF SessionFrozen, SpeciesFixed, Frozen, SpeciesKept
<1> QED BY <1>3 DEF RowsFrozen

-----------------------------------------------------------------------------
(***************************************************************************)
(* Only the handler that takes a step changes its own state.               *)
(***************************************************************************)
Same(g) ==
    /\ pc'[g] = pc[g] /\ req'[g] = req[g] /\ row'[g] = row[g]
    /\ clock'[g] = clock[g] /\ summary'[g] = summary[g] /\ hatched'[g] = hatched[g]

Acts(h) == Receive(h) \/ Start(h) \/ Complete(h) \/ Select(h) \/ CallFails(h)

LEMMA OthersWait ==
    ASSUME TypeInv, NEW h \in Handlers, Acts(h), NEW g \in Handlers \ {h}
    PROVE  Same(g)
<1> USE DEF TypeInv, CompletionTypeOK, Same, Goto
<1>1. Done(h) => Same(g)
  BY DEF Done
<1>2. Receive(h) => Same(g)
  BY DEF Receive
<1>3. FindSession(h) \/ CreateSession(h) => Same(g)
  BY <1>1 DEF FindSession, CreateSession
<1>4. LoadSession(h) \/ MarkSessionCompleted(h) \/ Reload(h) => Same(g)
  BY <1>1 DEF LoadSession, MarkSessionCompleted, Reload
<1>5. CountLesson(h) \/ CountWindow(h) \/ FindNext(h) \/ CountTotal(h) => Same(g)
  BY DEF CountLesson, CountWindow, FindNext, CountTotal
<1>6. ReadCompanion(h) \/ WriteCompanion(h) \/ MasteryUpdated(h) \/ Answer(h) => Same(g)
  BY <1>1 DEF ReadCompanion, WriteCompanion, MasteryUpdated, Answer
<1>7. Select(h) \/ CallFails(h) => Same(g)
  BY <1>1 DEF Select, FindCompanion, CreateCompanion, CallFails
<1> HIDE DEF Same, Goto
<1> QED BY <1>2, <1>3, <1>4, <1>5, <1>6, <1>7 DEF Acts, Start, Complete

(***************************************************************************)
(* The window of an answer.  A handler that holds a row holds the stored   *)
(* row of a completed session, which is never written again: that is why   *)
(* its summary, computed call by call, is of the stored window.            *)
(***************************************************************************)
SessionWindow(k) ==
    /\ sessions[k].status # "none" => sessions[k].started <= now
    /\ sessions[k].status = "completed" =>
        sessions[k].completed \in Nat /\ sessions[k].started <= sessions[k].completed

HandlerWindow(h) ==
    /\ clock[h] <= now
    /\ pc[h] = "mark" => sessions[req[h].key].started <= clock[h]
    /\ pc[h] = "reload" => sessions[req[h].key].status = "completed"
    /\ pc[h] \in Holding =>
        sessions[req[h].key].status = "completed" /\ row[h] = sessions[req[h].key]
    /\ pc[h] \in Answering =>
        summary[h].key = req[h].key /\ summary[h].completed = row[h].completed

WindowInv ==
    /\ \A k \in Keys : SessionWindow(k)
    /\ \A h \in Handlers : HandlerWindow(h)
    /\ \A a \in answers : a.key \in Keys
    /\ AnswersUseStoredWindow

LEMMA WindowInit == Init => WindowInv
BY DEF Init, NoSession, WindowInv, SessionWindow, HandlerWindow, AnswersUseStoredWindow

\* The stored windows stay windows.
LEMMA SessionWindowStep ==
    ASSUME TypeInv, WindowInv, [Next]_vars
    PROVE  now' \in Nat /\ now <= now' /\ \A k \in Keys : SessionWindow(k)'
<1> USE DEF TypeInv, CompletionTypeOK, WindowInv
<1>1. now' \in Nat /\ now <= now'
  <2>1. CASE Tick
    BY <2>1 DEF Tick
  <2>2. CASE ~Tick
    <3>1. UNCHANGED now
      BY <2>2 DEF Next, Receive, Start, FindSession, CreateSession, Complete, LoadSession,
           MarkSessionCompleted, Reload, CountLesson, CountWindow, FindNext, CountTotal,
           ReadCompanion, WriteCompanion, MasteryUpdated, Answer, Select, FindCompanion,
           CreateCompanion, CallFails, Master, Crash, vars
    <3> QED BY <3>1
  <2> QED BY <2>1, <2>2
<1>2. ASSUME NEW k \in Keys, sessions'[k] = sessions[k] PROVE SessionWindow(k)'
  BY <1>1, <1>2 DEF SessionWindow, SessionRow
<1>3. ASSUME NEW h \in Handlers, CreateSession(h), NEW k \in Keys PROVE SessionWindow(k)'
  <2>1. CASE UNCHANGED sessions
    BY <1>2, <2>1
  <2>2. CASE sessions' # sessions
    <3>1. PICK t \in Reading(h) : sessions' = [sessions EXCEPT ![req[h].key] =
              [status |-> "active", lesson |-> req[h].lesson,
               started |-> t, completed |-> Never]]
      BY <1>3, <2>2 DEF CreateSession
    <3>2. t \in Nat /\ t <= now'
      BY <1>1 DEF Reading
    <3> QED BY <1>2, <3>1, <3>2 DEF SessionWindow
  <2> QED BY <2>1, <2>2
<1>4. ASSUME NEW h \in Handlers, MarkSessionCompleted(h), NEW k \in Keys
      PROVE  SessionWindow(k)'
  <2>1. CASE UNCHANGED sessions
    BY <1>2, <2>1
  <2>2. CASE sessions' # sessions
    <3>1. PICK t \in Reading(h) :
              sessions' = [sessions EXCEPT ![req[h].key].status = "completed",
                                           ![req[h].key].completed = t]
      BY <1>4, <2>2 DEF MarkSessionCompleted
    <3>2. req[h].key \in Keys /\ sessions \in [Keys -> SessionRow] /\ t \in Nat
      BY <1>4 DEF MarkSessionCompleted, HandlerOK, Request, Reading
    <3>3. PICK new \in SessionRow :
              /\ sessions' = [sessions EXCEPT ![req[h].key] = new]
              /\ new.status = "completed" /\ new.completed = t
              /\ new.lesson = sessions[req[h].key].lesson
              /\ new.started = sessions[req[h].key].started
      <4> HIDE DEF TypeInv, CompletionTypeOK, WindowInv
      <4> QED BY <3>1, <3>2, CompletedRow
    <3>4. sessions[req[h].key].started <= clock[h] /\ clock[h] <= t
      BY <1>4 DEF MarkSessionCompleted, HandlerWindow, Reading
    <3>5. sessions[req[h].key].started \in Nat /\ sessions[req[h].key].started <= now'
      BY <1>1, <1>4, <3>2 DEF MarkSessionCompleted, HandlerOK, SessionWindow, SessionRow
    <3>6. sessions[req[h].key].started <= t
      BY <3>2, <3>4, <3>5
    <3> QED BY <1>2, <3>2, <3>3, <3>5, <3>6 DEF SessionWindow
  <2> QED BY <2>1, <2>2
<1>5. ASSUME NEW h \in Handlers,
             \/ Receive(h) \/ FindSession(h) \/ LoadSession(h) \/ Reload(h)
             \/ CountLesson(h) \/ CountWindow(h) \/ FindNext(h) \/ CountTotal(h)
             \/ ReadCompanion(h) \/ WriteCompanion(h) \/ MasteryUpdated(h) \/ Answer(h)
             \/ Select(h) \/ CallFails(h)
      PROVE  UNCHANGED sessions
  BY <1>5 DEF Receive, FindSession, LoadSession, Reload, CountLesson, CountWindow, FindNext,
       CountTotal, ReadCompanion, WriteCompanion, MasteryUpdated, Answer, Select, FindCompanion,
       CreateCompanion, CallFails, tables
<1>6. CASE \/ \E w \in Words : Master(w)
           \/ Crash \/ Tick \/ UNCHANGED vars
  BY <1>2, <1>6 DEF Master, Crash, Tick, vars, tables
<1> QED BY <1>1, <1>2, <1>3, <1>4, <1>5, <1>6 DEF Next, Start, Complete

\* A handler that does not act keeps its window.
LEMMA OthersWindow ==
    ASSUME TypeInv, WindowInv, Frozen, now' \in Nat, now <= now',
           NEW g \in Handlers, Same(g)
    PROVE  HandlerWindow(g)'
<1> USE DEF TypeInv, CompletionTypeOK, WindowInv, Same
<1>1. clock'[g] <= now'
  BY DEF HandlerWindow
<1>2. CASE pc[g] = "idle"
  BY <1>1, <1>2 DEF HandlerWindow
<1>3. CASE pc[g] # "idle"
  <2>1. req[g].key \in Keys
    BY <1>3 DEF HandlerOK, Request
  <2>2. pc[g] = "mark" => sessions'[req[g].key].started <= clock[g]
    BY <2>1 DEF HandlerWindow, HandlerOK, Frozen, NoSession
  <2>3. sessions[req[g].key].status = "completed" =>
            sessions'[req[g].key] = sessions[req[g].key]
    BY <2>1 DEF Frozen, NoSession
  <2> QED BY <1>1, <2>1, <2>2, <2>3 DEF HandlerWindow
<1> QED BY <1>2, <1>3

\* The end of a request.
LEMMA DoneWindow ==
    ASSUME TypeInv, NEW h \in Handlers, Done(h), now' \in Nat
    PROVE  HandlerWindow(h)'
BY DEF TypeInv, CompletionTypeOK, Done, Goto, HandlerWindow

\* A call that fills in a part of the summary.
LEMMA AnsweringWindow ==
    ASSUME TypeInv, WindowInv, Frozen, now' = now, NEW h \in Handlers, pc[h] \in Answering,
           pc'[h] \in Answering, req'[h] = req[h], row'[h] = row[h], clock'[h] = clock[h],
           summary'[h].key = summary[h].key, summary'[h].completed = summary[h].completed
    PROVE  HandlerWindow(h)'
<1>1. req[h].key \in Keys
  BY DEF TypeInv, HandlerOK, Request
<1>2. HandlerWindow(h)
  BY DEF WindowInv
<1>3. sessions'[req[h].key] = sessions[req[h].key]
  BY <1>1, <1>2 DEF HandlerWindow, Frozen, NoSession
<1> QED BY <1>2, <1>3 DEF HandlerWindow

LEMMA ActorWindow ==
    ASSUME TypeInv, WindowInv, Frozen, now' \in Nat, now <= now', NEW h \in Handlers, Acts(h)
    PROVE  HandlerWindow(h)'
<1> USE DEF TypeInv, CompletionTypeOK, Goto
<1>1. HandlerWindow(h) /\ (pc[h] # "idle" => req[h].key \in Keys)
  BY DEF WindowInv, HandlerOK, Request
<1>2. Done(h) => HandlerWindow(h)'
  BY DoneWindow
<1>3. CASE Receive(h)
  <2>1. pc'[h] \in {"findSession", "load", "findCompanion"} /\ clock'[h] = clock[h]
    <3>1. PICK r \in Requests : pc' = [pc EXCEPT ![h] =
                CASE r.op = "start" -> "findSession"
                  [] r.op = "complete" -> "load"
                  [] r.op = "select" -> "findCompanion"]
      BY <1>3 DEF Receive
    <3>2. r \in Request
      BY CompletionAssumption
    <3> QED BY <1>3, <3>1, <3>2 DEF Receive, Request
  <2> QED BY <1>1, <2>1 DEF HandlerWindow
<1>4. CASE Start(h) \/ Select(h) \/ CallFails(h)
  <2>1. CASE Done(h)
    BY <1>2, <2>1
  <2>2. CASE ~Done(h)
    <3>1. pc'[h] \in {"createSession", "createCompanion"} /\ clock'[h] <= now'
      BY <1>1, <1>4, <2>2 DEF Start, FindSession, CreateSession, Select, FindCompanion,
           CreateCompanion, CallFails, HandlerWindow
    <3> QED BY <3>1 DEF HandlerWindow
  <2> QED BY <2>1, <2>2
<1>5. CASE LoadSession(h)
  <2>1. CASE Done(h)
    BY <1>2, <2>1
  <2>2. CASE ~Done(h)
    <3>1. /\ sessions[req[h].key] # NoSession
          /\ row'[h] = sessions[req[h].key]
          /\ clock'[h] = now
          /\ pc'[h] = IF row'[h].status = "active" THEN "mark" ELSE "countLesson"
          /\ req'[h] = req[h] /\ UNCHANGED <<now, sessions>> /\ req[h].key \in Keys
      BY <1>1, <1>5, <2>2 DEF LoadSession, tables
    <3>2. sessions[req[h].key].status \in {"active", "completed"}
      BY <3>1 DEF SessionsOK, SessionRow
    <3>3. sessions[req[h].key].started <= now
      BY <3>1, <3>2 DEF WindowInv, SessionWindow
    <3> HIDE DEF TypeInv, CompletionTypeOK
    <3> QED BY <3>1, <3>2, <3>3 DEF HandlerWindow
  <2> QED BY <2>1, <2>2
<1>6. CASE MarkSessionCompleted(h)
  <2>1. /\ pc[h] = "mark" /\ pc'[h] = "reload" /\ req'[h] = req[h] /\ clock'[h] = clock[h]
        /\ req[h].key \in Keys
    BY <1>1, <1>6 DEF MarkSessionCompleted
  <2>2. sessions'[req[h].key].status = "completed"
    <3>1. CASE sessions[req[h].key].status # "active"
      BY <1>6, <2>1, <3>1 DEF MarkSessionCompleted, HandlerOK, SessionRow
    <3>2. CASE sessions[req[h].key].status = "active"
      <4>1. PICK t \in Reading(h) :
                sessions' = [sessions EXCEPT ![req[h].key].status = "completed",
                                             ![req[h].key].completed = t]
        BY <1>6, <3>2 DEF MarkSessionCompleted
      <4>2. sessions \in [Keys -> SessionRow] /\ t \in Nat
        BY DEF Reading
      <4>3. PICK new \in SessionRow :
                /\ sessions' = [sessions EXCEPT ![req[h].key] = new]
                /\ new.status = "completed" /\ new.completed = t
                /\ new.lesson = sessions[req[h].key].lesson
                /\ new.started = sessions[req[h].key].started
        <5> HIDE DEF TypeInv, CompletionTypeOK
        <5> QED BY <2>1, <4>1, <4>2, CompletedRow
      <4> QED BY <2>1, <4>2, <4>3
    <3> QED BY <3>1, <3>2
  <2> QED BY <1>1, <2>1, <2>2 DEF HandlerWindow
<1>7. CASE Reload(h)
  BY <1>1, <1>7 DEF Reload, HandlerWindow, tables
<1>8. CASE CountLesson(h)
  <2>1. /\ pc[h] = "countLesson" /\ pc'[h] = "countWindow"
        /\ req'[h] = req[h] /\ row'[h] = row[h] /\ clock'[h] = clock[h]
        /\ UNCHANGED <<now, sessions>>
    BY <1>8 DEF CountLesson, tables
  <2>2. summary'[h].key = req[h].key /\ summary'[h].completed = row[h].completed
    <3>1. summary[h] \in Summary
      OBVIOUS
    <3> QED BY <1>8, <3>1 DEF CountLesson, Summary
  <2> QED BY <1>1, <2>1, <2>2 DEF HandlerWindow
<1>9. CASE CountWindow(h) \/ FindNext(h) \/ CountTotal(h) \/ WriteCompanion(h)
  <2>1. /\ pc[h] \in Answering /\ pc'[h] \in Answering
        /\ req'[h] = req[h] /\ row'[h] = row[h] /\ clock'[h] = clock[h] /\ now' = now
    BY <1>9 DEF CountWindow, FindNext, CountTotal, WriteCompanion
  <2>2. summary'[h].key = summary[h].key /\ summary'[h].completed = summary[h].completed
    <3>1. summary[h] \in Summary
      OBVIOUS
    <3> QED BY <1>9, <3>1 DEF CountWindow, FindNext, CountTotal, WriteCompanion, Summary
  <2> QED BY <2>1, <2>2, AnsweringWindow
<1>10. CASE ReadCompanion(h) \/ MasteryUpdated(h)
  <2>1. /\ pc[h] \in Answering /\ pc'[h] \in Answering
        /\ req'[h] = req[h] /\ row'[h] = row[h] /\ clock'[h] = clock[h] /\ now' = now
        /\ summary' = summary
    BY <1>10 DEF ReadCompanion, MasteryUpdated
  <2> QED BY <2>1, AnsweringWindow
<1>11. CASE Answer(h)
  BY <1>2, <1>11 DEF Answer
<1> QED BY <1>3, <1>4, <1>5, <1>6, <1>7, <1>8, <1>9, <1>10, <1>11 DEF Acts, Complete

LEMMA WindowStep == TypeInv /\ WindowInv /\ [Next]_vars => WindowInv'
<1> SUFFICES ASSUME TypeInv, WindowInv, [Next]_vars PROVE WindowInv'
  OBVIOUS
<1>1. Frozen
  BY FrozenStep
<1>2. now' \in Nat /\ now <= now' /\ \A k \in Keys : SessionWindow(k)'
  BY SessionWindowStep
<1>3. \A g \in Handlers : HandlerWindow(g)'
  <2>1. ASSUME NEW h \in Handlers, Acts(h), NEW g \in Handlers PROVE HandlerWindow(g)'
    BY <1>1, <1>2, <2>1, ActorWindow, OthersWait, OthersWindow
  <2>2. ASSUME NEW g \in Handlers, UNCHANGED handlerVars PROVE HandlerWindow(g)'
    BY <1>1, <1>2, <2>2, OthersWindow DEF handlerVars, Same
  <2>3. CASE (\E w \in Words : Master(w)) \/ Tick \/ UNCHANGED vars
    BY <2>2, <2>3 DEF Master, Tick, vars
  <2>4. CASE Crash
    BY <1>2, <2>4 DEF Crash, HandlerWindow
  <2> QED BY <2>1, <2>3, <2>4 DEF Next, Acts
<1>4. ASSUME NEW a \in answers
      PROVE  /\ a.key \in Keys
             /\ sessions'[a.key].status = "completed"
             /\ sessions'[a.key].completed = a.completed
             /\ sessions'[a.key].started <= a.completed
  BY <1>1 DEF WindowInv, AnswersUseStoredWindow, Frozen, NoSession
<1>5. CASE answers' = answers
  BY <1>2, <1>3, <1>4, <1>5 DEF WindowInv, AnswersUseStoredWindow
<1>6. ASSUME NEW h \in Handlers, Answer(h) PROVE WindowInv'
  <2>1. answers' = answers \cup {summary[h]} /\ pc[h] = "answer" /\ UNCHANGED sessions
    BY <1>6 DEF Answer, tables
  <2>2. summary[h].key \in Keys
    BY <2>1 DEF TypeInv, HandlerOK, Request, WindowInv, HandlerWindow
  <2>3. /\ sessions[summary[h].key].status = "completed"
        /\ sessions[summary[h].key].completed = summary[h].completed
        /\ sessions[summary[h].key].started <= summary[h].completed
    BY <2>1, <2>2 DEF WindowInv, HandlerWindow, SessionWindow
  <2> QED BY <1>2, <1>3, <1>4, <2>1, <2>2, <2>3 DEF WindowInv, AnswersUseStoredWindow
<1>7. ASSUME NEW h \in Handlers,
             \/ Receive(h) \/ Start(h) \/ LoadSession(h) \/ MarkSessionCompleted(h) \/ Reload(h)
             \/ CountLesson(h) \/ CountWindow(h) \/ FindNext(h) \/ CountTotal(h)
             \/ ReadCompanion(h) \/ WriteCompanion(h) \/ MasteryUpdated(h)
             \/ Select(h) \/ CallFails(h)
      PROVE  answers' = answers
  BY <1>7 DEF Receive, Start, FindSession, CreateSession, LoadSession, MarkSessionCompleted,
       Reload, CountLesson, CountWindow, FindNext, CountTotal, ReadCompanion, WriteCompanion,
       MasteryUpdated, Select, FindCompanion, CreateCompanion, CallFails
<1>8. CASE \/ \E w \in Words : Master(w)
           \/ Crash \/ Tick \/ UNCHANGED vars
  BY <1>5, <1>8 DEF Master, Crash, Tick, vars
<1> QED BY <1>5, <1>6, <1>7, <1>8 DEF Next, Complete

\* Every answer is of the one window that is stored, also that of the
\* completion that lost the race.
THEOREM AnswersAreOfTheWindow == Spec => []AnswersUseStoredWindow
<1>1. WindowInv => AnswersUseStoredWindow
  BY DEF WindowInv
<1> QED BY <1>1, TypeInit, TypeStep, WindowInit, WindowStep, PTL DEF Spec

(***************************************************************************)
(* What a summary says goes on being true because the mastery graph only   *)
(* grows: words that were mastered at a call are mastered at the answer    *)
(* and ever after.                                                         *)
(***************************************************************************)
Grows ==
    /\ MasteredWords \subseteq MasteredWords'
    /\ generation' \in Nat /\ generation <= generation'

LEMMA GrowsStep == TypeInv /\ [Next]_vars => Grows
<1> SUFFICES ASSUME TypeInv, [Next]_vars PROVE Grows
  OBVIOUS
<1> USE DEF TypeInv, CompletionTypeOK
<1>1. CASE UNCHANGED <<first, generation>>
  BY <1>1 DEF Grows, MasteredWords
<1>2. ASSUME NEW h \in Handlers, FindNext(h) PROVE Grows
  BY <1>2 DEF FindNext, Grows, MasteredWords
<1>3. ASSUME NEW w \in Words, Master(w) PROVE Grows
  <2>1. PICK t \in 0..now : first' = [first EXCEPT ![w] = t]
    BY <1>3 DEF Master
  <2>2. t # Never /\ UNCHANGED generation
    BY <1>3 DEF Master
  <2> QED BY <2>1, <2>2 DEF Grows, MasteredWords
<1>4. ASSUME NEW h \in Handlers,
             \/ Receive(h) \/ Start(h) \/ LoadSession(h) \/ MarkSessionCompleted(h) \/ Reload(h)
             \/ CountLesson(h) \/ CountWindow(h) \/ CountTotal(h)
             \/ ReadCompanion(h) \/ WriteCompanion(h) \/ MasteryUpdated(h) \/ Answer(h)
             \/ Select(h) \/ CallFails(h)
      PROVE  UNCHANGED <<first, generation>>
  BY <1>4 DEF Receive, Start, FindSession, CreateSession, LoadSession, MarkSessionCompleted,
       Reload, CountLesson, CountWindow, CountTotal, ReadCompanion, WriteCompanion,
       MasteryUpdated, Answer, Select, FindCompanion, CreateCompanion, CallFails, tables
<1>5. CASE Crash \/ Tick \/ UNCHANGED vars
  BY <1>1, <1>5 DEF Crash, Tick, vars, tables
<1> QED BY <1>1, <1>2, <1>3, <1>4, <1>5 DEF Next, Complete

LEMMA CountsGrow ==
    ASSUME TypeInv, Grows, NEW S \in SUBSET Words
    PROVE  /\ Cardinality(S \cap MasteredWords) \in Nat
           /\ Cardinality((S \cap MasteredWords)') \in Nat
           /\ Cardinality(S \cap MasteredWords) <= Cardinality((S \cap MasteredWords)')
<1>1. S \cap MasteredWords \in SUBSET (S \cap MasteredWords')
  BY DEF Grows
<1>2. S \cap MasteredWords' \in SUBSET Words
  OBVIOUS
<1> QED BY <1>1, <1>2, Counting

\* A summary, of a lesson, that is true of the words mastered now.
Counted(s, lesson) ==
    /\ s.mastered => Lessons[lesson] \subseteq MasteredWords
    /\ s.delta <= Cardinality(Lessons[lesson] \cap MasteredWords)

\* Its next lesson, once it was looked up.
LookedUp(s, lesson) ==
    /\ s.mastered /\ lesson < Len(Lessons) => s.next = lesson + 1
    /\ s.mastered /\ lesson = Len(Lessons) => generation > 0
    /\ ~s.mastered => s.next = NoLesson

HandlerSummary(h) ==
    /\ pc[h] \notin Answering => summary[h] = NoSummary
    /\ pc[h] \in Answering => Counted(summary[h], row[h].lesson)
    /\ pc[h] \in {"countWindow", "findNext"} => summary[h].next = NoLesson
    /\ pc[h] = "findNext" => summary[h].mastered
    /\ pc[h] \in Answering \ {"countWindow", "findNext"} => LookedUp(summary[h], row[h].lesson)

SummaryInv ==
    /\ \A h \in Handlers : HandlerSummary(h)
    /\ \A a \in answers : /\ Counted(a, sessions[a.key].lesson)
                          /\ LookedUp(a, sessions[a.key].lesson)

LEMMA SummaryInit == Init => SummaryInv
BY DEF Init, SummaryInv, HandlerSummary

LEMMA SummaryMeans == TypeInv /\ WindowInv /\ SummaryInv => SummaryHolds
BY DEF SummaryInv, Counted, LookedUp, SummaryHolds

\* What was counted and looked up stays so.
LEMMA CountedStays ==
    ASSUME TypeInv, Grows, NEW s \in Summary, NEW lesson \in 1..Len(Lessons)
    PROVE  /\ Counted(s, lesson) => Counted(s, lesson)'
           /\ LookedUp(s, lesson) => LookedUp(s, lesson)'
<1> DEFINE was == Lessons[lesson] \cap MasteredWords
<1>1. Lessons[lesson] \in SUBSET Words
  BY CompletionAssumption
<1>2. Cardinality(was) \in Nat /\ Cardinality(was') \in Nat /\ Cardinality(was) <= Cardinality(was')
  BY <1>1, CountsGrow
<1>3. s.delta \in Nat
  BY DEF Summary
<1>4. Counted(s, lesson) => Counted(s, lesson)'
  <2>1. Cardinality(was) \in Nat /\ Cardinality(was') \in Nat /\ Cardinality(was) <= Cardinality(was')
    BY <1>2
  <2> HIDE DEF was
  <2>2. s.delta <= Cardinality(was) => s.delta <= Cardinality(was')
    BY <1>3, <2>1
  <2> QED BY <2>2 DEF Counted, Grows, was
<1>5. LookedUp(s, lesson) => LookedUp(s, lesson)'
  BY DEF LookedUp, Grows, TypeInv, CompletionTypeOK
<1> QED BY <1>4, <1>5

LEMMA OthersSummary ==
    ASSUME TypeInv, SummaryInv, Grows, NEW g \in Handlers, Same(g)
    PROVE  HandlerSummary(g)'
<1>1. HandlerSummary(g) /\ summary[g] \in Summary
  BY DEF SummaryInv, TypeInv, CompletionTypeOK
<1>2. CASE pc[g] \in Answering
  <2>1. row[g].lesson \in 1..Len(Lessons)
    BY <1>2 DEF TypeInv, HandlerOK
  <2>2. PICK s \in Summary, lesson \in 1..Len(Lessons) :
            s = summary[g] /\ lesson = row[g].lesson
    BY <1>1, <2>1
  <2>3. /\ Counted(s, lesson) => Counted(s, lesson)'
        /\ LookedUp(s, lesson) => LookedUp(s, lesson)'
    BY CountedStays
  <2>4. s = summary'[g] /\ lesson = row'[g].lesson /\ pc'[g] = pc[g]
    BY <2>2 DEF Same
  <2> QED BY <1>1, <1>2, <2>2, <2>3, <2>4 DEF HandlerSummary
<1>3. CASE pc[g] \notin Answering
  BY <1>1, <1>3 DEF HandlerSummary, Same
<1> QED BY <1>2, <1>3

LEMMA ActorSummary ==
    ASSUME TypeInv, SummaryInv, Grows, NEW h \in Handlers, Acts(h)
    PROVE  HandlerSummary(h)'
<1> USE DEF TypeInv, CompletionTypeOK, Goto
<1>1. HandlerSummary(h) /\ summary[h] \in Summary
  BY DEF SummaryInv
<1>2. Done(h) => HandlerSummary(h)'
  BY DEF Done, HandlerSummary
<1>3. CASE Receive(h) \/ Start(h) \/ Select(h) \/ CallFails(h)
  <2>1. CASE Done(h)
    BY <1>2, <2>1
  <2>2. CASE ~Done(h)
    <3>1. pc[h] \notin Answering /\ summary'[h] = summary[h]
      BY <1>3, <2>2 DEF Receive, Start, FindSession, CreateSession, Select, FindCompanion,
           CreateCompanion, CallFails
    <3>2. pc'[h] \in {"findSession", "load", "findCompanion", "createSession", "createCompanion"}
      <4>1. CASE Receive(h)
        <5>1. PICK r \in Requests : pc' = [pc EXCEPT ![h] =
                    CASE r.op = "start" -> "findSession"
                      [] r.op = "complete" -> "load"
                      [] r.op = "select" -> "findCompanion"]
          BY <4>1 DEF Receive
        <5>2. r \in Request
          BY CompletionAssumption
        <5> QED BY <5>1, <5>2 DEF Request
      <4>2. CASE ~Receive(h)
        BY <1>3, <2>2, <4>2 DEF Start, FindSession, CreateSession, Select, FindCompanion,
           CreateCompanion, CallFails
      <4> QED BY <4>1, <4>2
    <3> QED BY <1>1, <3>1, <3>2 DEF HandlerSummary
  <2> QED BY <2>1, <2>2
<1>4. CASE LoadSession(h) \/ MarkSessionCompleted(h) \/ Reload(h)
  <2>1. CASE Done(h)
    BY <1>2, <2>1
  <2>2. CASE ~Done(h)
    <3>1. /\ pc[h] \notin Answering /\ summary'[h] = summary[h]
          /\ pc'[h] \in {"mark", "countLesson", "reload"}
      BY <1>4, <2>2 DEF LoadSession, MarkSessionCompleted, Reload
    <3> QED BY <1>1, <3>1 DEF HandlerSummary
  <2> QED BY <2>1, <2>2
<1>5. ASSUME pc[h] \in Holding, row'[h] = row[h]
      PROVE  /\ Lessons[row[h].lesson] \in SUBSET Words
             /\ \E lesson \in 1..Len(Lessons) : lesson = row[h].lesson /\ lesson = row'[h].lesson
  BY <1>5, CompletionAssumption DEF HandlerOK
<1>6. CASE CountLesson(h)
  <2> DEFINE lessonWords == Lessons[row[h].lesson]
  <2>1. pc[h] = "countLesson" /\ summary[h] = NoSummary
    BY <1>1, <1>6 DEF CountLesson, HandlerSummary
  <2>2. PICK m \in BOOLEAN : m = (lessonWords \subseteq MasteredWords)
    OBVIOUS
  <2>3. /\ pc'[h] = "countWindow" /\ row'[h] = row[h] /\ MasteredWords' = MasteredWords
        /\ summary' = [summary EXCEPT ![h].key = req[h].key,
                                      ![h].completed = row[h].completed, ![h].mastered = m]
    BY <1>6, <2>2 DEF CountLesson, AllMastered, MasteredWords, tables
  <2>4. summary'[h].mastered = m /\ summary'[h].delta = 0 /\ summary'[h].next = NoLesson
    BY <2>1, <2>3 DEF NoSummary
  <2>5. Cardinality(lessonWords \cap MasteredWords) \in Nat
    BY <1>5, <2>1, <2>3, CountsGrow
  <2>6. 0 <= Cardinality(lessonWords \cap MasteredWords)
    <3> HIDE DEF lessonWords
    <3> QED BY <2>5
  <2> HIDE DEF TypeInv, CompletionTypeOK
  <2> QED BY <2>2, <2>3, <2>4, <2>6 DEF HandlerSummary, Counted
<1>7. CASE CountWindow(h)
  <2> DEFINE window == MasteredInWindow(row[h].lesson, row[h].started, row[h].completed)
             lessonWords == Lessons[row[h].lesson]
  <2>1. /\ pc[h] = "countWindow" /\ row'[h] = row[h]
        /\ pc'[h] = IF summary[h].mastered THEN "findNext" ELSE "countTotal"
        /\ summary'[h].mastered = summary[h].mastered
        /\ summary'[h].delta = Cardinality(window) /\ summary'[h].next = summary[h].next
        /\ MasteredWords' = MasteredWords
    BY <1>1, <1>7 DEF CountWindow, Summary, tables, MasteredWords
  <2>2. Cardinality(window) <= Cardinality(lessonWords \cap MasteredWords)
    <3>1. lessonWords \in SUBSET Words
      BY <1>5, <2>1
    <3>2. PICK r \in SessionRow : r = row[h]
      OBVIOUS
    <3>3. ASSUME NEW w \in window PROVE first[w] # Never /\ w \in lessonWords
      <4>1. w \in lessonWords /\ first[w] \in r.started..r.completed
        BY <3>2, <3>3 DEF MasteredInWindow
      <4>2. r.started \in Nat /\ r.completed \in Int
        BY <3>2 DEF SessionRow
      <4> HIDE DEF TypeInv, CompletionTypeOK
      <4> QED BY <4>1, <4>2
    <3>5. window \in SUBSET (lessonWords \cap MasteredWords)
      BY <3>1, <3>3 DEF MasteredWords
    <3>4. lessonWords \cap MasteredWords \in SUBSET Words
      BY <3>1
    <3> HIDE DEF window, lessonWords
    <3> QED BY <3>4, <3>5, Counting
  <2>3. Counted(summary[h], row[h].lesson) /\ summary[h].next = NoLesson
    BY <1>1, <2>1 DEF HandlerSummary
  <2> HIDE DEF window
  <2> QED BY <2>1, <2>2, <2>3 DEF HandlerSummary, Counted, LookedUp
<1>8. CASE FindNext(h)
  <2>1. /\ pc[h] = "findNext" /\ row'[h] = row[h] /\ pc'[h] = "countTotal"
        /\ summary'[h].mastered = summary[h].mastered
        /\ summary'[h].delta = summary[h].delta
        /\ MasteredWords' = MasteredWords
    BY <1>1, <1>8 DEF FindNext, Summary, MasteredWords
  <2>2. PICK lesson \in 1..Len(Lessons) : lesson = row[h].lesson /\ lesson = row'[h].lesson
    BY <1>5, <2>1
  <2>3. Counted(summary[h], lesson) /\ summary[h].mastered
    BY <1>1, <2>1, <2>2 DEF HandlerSummary
  <2>4. /\ lesson < Len(Lessons) => summary'[h].next = lesson + 1
        /\ lesson = Len(Lessons) => generation' > 0
    <3>1. CASE lesson < Len(Lessons)
      <4>1. summary' = [summary EXCEPT ![h].next = lesson + 1]
        BY <1>8, <2>2, <3>1 DEF FindNext
      <4>2. summary \in [Handlers -> Summary]
        OBVIOUS
      <4> HIDE DEF TypeInv
      <4> QED BY <3>1, <4>1, <4>2 DEF Summary
    <3>2. CASE lesson = Len(Lessons)
      BY <1>8, <2>2, <3>2 DEF FindNext
    <3> QED BY <3>1, <3>2
  <2> QED BY <2>1, <2>2, <2>3, <2>4 DEF HandlerSummary, Counted, LookedUp
<1>9. CASE CountTotal(h) \/ ReadCompanion(h) \/ WriteCompanion(h) \/ MasteryUpdated(h)
  <2>1. /\ pc[h] \in Answering \ {"countWindow", "findNext"}
        /\ pc'[h] \in Answering \ {"countWindow", "findNext"}
    BY <1>9 DEF CountTotal, ReadCompanion, WriteCompanion, MasteryUpdated
  <2>2. row' = row /\ first' = first /\ generation' = generation
    BY <1>9 DEF CountTotal, ReadCompanion, WriteCompanion, MasteryUpdated, tables
  <2>3. /\ summary'[h].mastered = summary[h].mastered
        /\ summary'[h].delta = summary[h].delta /\ summary'[h].next = summary[h].next
    <3>1. CASE CountTotal(h)
      <4>1. summary' = [summary EXCEPT ![h].total = Cardinality(MasteredWords)]
        BY <3>1 DEF CountTotal
      <4> HIDE DEF TypeInv
      <4> QED BY <1>1, <4>1 DEF Summary
    <3>2. CASE WriteCompanion(h)
      BY <1>1, <3>2 DEF WriteCompanion, Summary
    <3>3. CASE ReadCompanion(h) \/ MasteryUpdated(h)
      BY <3>3 DEF ReadCompanion, MasteryUpdated
    <3> QED BY <1>9, <3>1, <3>2, <3>3
  <2>4. MasteredWords' = MasteredWords
    BY <2>2 DEF MasteredWords
  <2> QED BY <1>1, <2>1, <2>2, <2>3, <2>4 DEF HandlerSummary, Counted, LookedUp
<1>10. CASE Answer(h)
  BY <1>2, <1>10 DEF Answer
<1> QED BY <1>3, <1>4, <1>6, <1>7, <1>8, <1>9, <1>10 DEF Acts, Complete

LEMMA SummaryStep == TypeInv /\ WindowInv /\ SummaryInv /\ [Next]_vars => SummaryInv'
<1> SUFFICES ASSUME TypeInv, WindowInv, SummaryInv, [Next]_vars PROVE SummaryInv'
  OBVIOUS
<1>1. Frozen /\ Grows
  BY FrozenStep, GrowsStep
<1>2. \A g \in Handlers : HandlerSummary(g)'
  <2>1. ASSUME NEW h \in Handlers, Acts(h), NEW g \in Handlers PROVE HandlerSummary(g)'
    BY <1>1, <2>1, ActorSummary, OthersWait, OthersSummary
  <2>2. ASSUME NEW g \in Handlers, UNCHANGED handlerVars PROVE HandlerSummary(g)'
    BY <1>1, <2>2, OthersSummary DEF handlerVars, Same
  <2>3. CASE (\E w \in Words : Master(w)) \/ Tick \/ UNCHANGED vars
    BY <2>2, <2>3 DEF Master, Tick, vars
  <2>4. CASE Crash
    BY <2>4 DEF Crash, HandlerSummary
  <2> QED BY <2>1, <2>3, <2>4 DEF Next, Acts
<1>3. ASSUME NEW s \in Summary, s.key \in Keys, sessions[s.key].status = "completed",
             Counted(s, sessions[s.key].lesson), LookedUp(s, sessions[s.key].lesson)
      PROVE  /\ Counted(s, sessions[s.key].lesson)'
             /\ LookedUp(s, sessions[s.key].lesson)'
  <2>1. sessions'[s.key] = sessions[s.key]
    BY <1>1, <1>3 DEF Frozen, NoSession
  <2>2. PICK lesson \in 1..Len(Lessons) : lesson = sessions[s.key].lesson
    BY <1>3 DEF TypeInv, SessionsOK
  <2>3. Counted(s, lesson)' /\ LookedUp(s, lesson)'
    BY <1>1, <1>3, <2>2, CountedStays
  <2> QED BY <2>1, <2>2, <2>3
<1>4. ASSUME NEW a \in answers
      PROVE  /\ Counted(a, sessions[a.key].lesson)'
             /\ LookedUp(a, sessions[a.key].lesson)'
  <2>1. a \in Summary
    BY DEF TypeInv, CompletionTypeOK
  <2>2. /\ a.key \in Keys /\ sessions[a.key].status = "completed"
        /\ Counted(a, sessions[a.key].lesson) /\ LookedUp(a, sessions[a.key].lesson)
    BY DEF WindowInv, AnswersUseStoredWindow, SummaryInv
  <2> QED BY <1>3, <2>1, <2>2
<1>5. CASE answers' = answers
  BY <1>2, <1>4, <1>5 DEF SummaryInv
<1>6. ASSUME NEW h \in Handlers, Answer(h) PROVE SummaryInv'
  <2>1. answers' = answers \cup {summary[h]} /\ pc[h] = "answer"
    BY <1>6 DEF Answer
  <2>2. PICK s \in Summary : s = summary[h]
    BY DEF TypeInv, CompletionTypeOK
  <2>3. s.key \in Keys /\ s.key = req[h].key /\ row[h] = sessions[s.key]
        /\ sessions[s.key].status = "completed"
    BY <2>1, <2>2 DEF TypeInv, HandlerOK, Request, WindowInv, HandlerWindow
  <2>4. Counted(s, sessions[s.key].lesson) /\ LookedUp(s, sessions[s.key].lesson)
    BY <2>1, <2>2, <2>3 DEF SummaryInv, HandlerSummary
  <2>5. Counted(s, sessions[s.key].lesson)' /\ LookedUp(s, sessions[s.key].lesson)'
    BY <1>3, <2>3, <2>4
  <2> QED BY <1>2, <1>4, <2>1, <2>2, <2>5 DEF SummaryInv
<1>7. ASSUME NEW h \in Handlers,
             \/ Receive(h) \/ Start(h) \/ LoadSession(h) \/ MarkSessionCompleted(h) \/ Reload(h)
             \/ CountLesson(h) \/ CountWindow(h) \/ FindNext(h) \/ CountTotal(h)
             \/ ReadCompanion(h) \/ WriteCompanion(h) \/ MasteryUpdated(h)
             \/ Select(h) \/ CallFails(h)
      PROVE  answers' = answers
  BY <1>7 DEF Receive, Start, FindSession, CreateSession, LoadSession, MarkSessionCompleted,
       Reload, CountLesson, CountWindow, FindNext, CountTotal, ReadCompanion, WriteCompanion,
       MasteryUpdated, Select, FindCompanion, CreateCompanion, CallFails
<1>8. CASE \/ \E w \in Words : Master(w)
           \/ Crash \/ Tick \/ UNCHANGED vars
  BY <1>5, <1>8 DEF Master, Crash, Tick, vars
<1> QED BY <1>5, <1>6, <1>7, <1>8 DEF Next, Complete

\* What a summary promised, a mastered lesson, the next one, a delta, a
\* generation job, stays true.
THEOREM SummariesHold == Spec => []SummaryHolds
BY TypeInit, TypeStep, WindowInit, WindowStep, SummaryInit, SummaryStep, SummaryMeans,
   PTL DEF Spec

(***************************************************************************)
(* The companion's growth.  The total a handler has counted may be stale   *)
(* when it is written, but it never exceeds the words mastered by then.    *)
(***************************************************************************)
Growing == {"readCompanion", "writeCompanion"}

GrowthInv ==
    /\ GrowthBacked
    /\ \A h \in Handlers :
            pc[h] \in Growing => summary[h].total <= Cardinality(MasteredWords)

\* The egg needs no word, the stage after it one.
LEMMA FirstStage == StageAt[1] = 0 /\ (1 < Len(StageAt) => 0 < StageAt[1 + 1])
<1>1. ASSUME 1 < Len(StageAt) PROVE StageAt[2 - 1] < StageAt[2]
  BY <1>1, CompletionAssumption
<1> QED BY <1>1, CompletionAssumption

LEMMA GrowthInit == Init => GrowthInv
<1> SUFFICES ASSUME Init PROVE GrowthInv
  OBVIOUS
<1>1. Cardinality(MasteredWords) = 0
  <2>1. MasteredWords = {}
    BY DEF Init, MasteredWords
  <2> QED BY <2>1, FS_EmptySet
<1>2. companion.words = 0 /\ companion.stage = 1
  BY DEF Init
<1> QED BY <1>1, <1>2, FirstStage DEF Init, GrowthInv, GrowthBacked, Growing

\* Only two calls write the companion.
LEMMA CompanionWrites ==
    ASSUME NEW h \in Handlers, Acts(h)
    PROVE  WriteCompanion(h) \/ CreateCompanion(h) \/ UNCHANGED companion
<1>1. Receive(h) \/ Start(h) \/ CallFails(h) \/ FindCompanion(h) => UNCHANGED companion
  BY DEF Receive, Start, FindSession, CreateSession, CallFails, FindCompanion, tables
<1>2. \/ LoadSession(h) \/ MarkSessionCompleted(h) \/ Reload(h) \/ CountLesson(h)
      \/ CountWindow(h) \/ FindNext(h) \/ CountTotal(h) \/ ReadCompanion(h)
      \/ MasteryUpdated(h) \/ Answer(h)
      => UNCHANGED companion
  BY DEF LoadSession, MarkSessionCompleted, Reload, CountLesson, CountWindow, FindNext,
       CountTotal, ReadCompanion, MasteryUpdated, Answer, tables
<1> QED BY <1>1, <1>2 DEF Acts, Complete, Select

\* Only two calls lead to where the total is used.
LEMMA IntoGrowing ==
    ASSUME TypeInv, NEW h \in Handlers, Acts(h), pc'[h] \in Growing
    PROVE  CountTotal(h) \/ ReadCompanion(h)
<1> USE DEF TypeInv, CompletionTypeOK, Goto, Growing
<1>1. ~Done(h)
  BY DEF Done
<1>2. ~Receive(h)
  <2>1. ASSUME Receive(h) PROVE FALSE
    <3>1. PICK r \in Requests : pc' = [pc EXCEPT ![h] =
                CASE r.op = "start" -> "findSession"
                  [] r.op = "complete" -> "load"
                  [] r.op = "select" -> "findCompanion"]
      BY <2>1 DEF Receive
    <3>2. r \in Request
      BY CompletionAssumption
    <3> QED BY <3>1, <3>2 DEF Request
  <2> QED BY <2>1
<1>3. ~(Start(h) \/ Select(h) \/ CallFails(h))
  BY <1>1 DEF Start, FindSession, CreateSession, Select, FindCompanion, CreateCompanion, CallFails
<1>4. ~(LoadSession(h) \/ MarkSessionCompleted(h) \/ Reload(h) \/ CountLesson(h))
  BY <1>1 DEF LoadSession, MarkSessionCompleted, Reload, CountLesson
<1>5. ~(CountWindow(h) \/ FindNext(h) \/ WriteCompanion(h) \/ MasteryUpdated(h) \/ Answer(h))
  BY <1>1 DEF CountWindow, FindNext, WriteCompanion, MasteryUpdated, Answer
<1> HIDE DEF TypeInv, CompletionTypeOK, Goto, Growing
<1> QED BY <1>2, <1>3, <1>4, <1>5 DEF Acts, Complete

LEMMA GrowthStep == TypeInv /\ GrowthInv /\ [Next]_vars => GrowthInv'
<1> SUFFICES ASSUME TypeInv, GrowthInv, [Next]_vars PROVE GrowthInv'
  OBVIOUS
<1> DEFINE count == Cardinality(MasteredWords)
<1>1. count \in Nat /\ count' \in Nat /\ count <= count'
  <2>1. MasteredWords \in SUBSET MasteredWords' /\ MasteredWords' \in SUBSET Words
    BY GrowsStep DEF Grows, MasteredWords
  <2> QED BY <2>1, Counting
<1> HIDE DEF count
<1>2. /\ companion \in CompanionRow
      /\ \A h \in Handlers : summary[h] \in Summary
  BY DEF TypeInv, CompletionTypeOK
<1>3. companion.words \in Nat /\ \A h \in Handlers : summary[h].total \in Nat
  BY <1>2 DEF CompanionRow, Summary
<1>4. UNCHANGED companion => GrowthBacked'
  BY <1>1, <1>3 DEF GrowthInv, GrowthBacked, count
<1>5. ASSUME NEW h \in Handlers, Acts(h) PROVE GrowthBacked'
  <2>1. CASE WriteCompanion(h)
    <3>1. pc[h] = "writeCompanion"
      BY <2>1 DEF WriteCompanion
    <3>2. PICK total \in Nat : total = summary[h].total
      BY <1>3
    <3>3. total <= count'
      BY <1>1, <3>1, <3>2 DEF GrowthInv, Growing, count
    <3>4. companion'.words = total /\ companion'.stage = StageFor(total)
      BY <1>2, <2>1, <3>2 DEF WriteCompanion, CompanionRow
    <3> QED BY <3>3, <3>4, LastStage DEF GrowthBacked, count
  <2>2. CASE CreateCompanion(h)
    <3>1. UNCHANGED companion \/ (companion'.words = 0 /\ companion'.stage = 1)
      BY <2>2 DEF CreateCompanion
    <3>2. 0 <= count'
      BY <1>1
    <3> QED BY <1>4, <3>1, <3>2, FirstStage DEF GrowthBacked, count
  <2> QED BY <1>4, <1>5, <2>1, <2>2, CompanionWrites
<1>6. ASSUME NEW g \in Handlers, Same(g)
      PROVE  pc'[g] \in Growing => summary'[g].total <= count'
  BY <1>1, <1>3, <1>6 DEF Same, GrowthInv, count
<1>7. ASSUME NEW h \in Handlers, Acts(h), pc'[h] \in Growing
      PROVE  summary'[h].total <= count'
  <2>1. CASE CountTotal(h)
    <3>1. summary' = [summary EXCEPT ![h].total = count] /\ UNCHANGED first
      BY <2>1 DEF CountTotal, tables, count
    <3>2. PICK s \in Summary : s = summary[h]
      BY <1>2
    <3>3. summary'[h] = [s EXCEPT !.total = count]
      BY <3>1, <3>2 DEF TypeInv, CompletionTypeOK
    <3> QED BY <1>1, <3>2, <3>3 DEF Summary
  <2>2. CASE ReadCompanion(h)
    <3>1. pc[h] \in Growing /\ summary' = summary
      BY <2>2 DEF ReadCompanion, Growing
    <3> QED BY <1>1, <1>3, <3>1 DEF GrowthInv, count
  <2> QED BY <1>7, <2>1, <2>2, IntoGrowing
<1>8. ASSUME NEW h \in Handlers, Acts(h) PROVE GrowthInv'
  BY <1>5, <1>6, <1>7, <1>8, OthersWait DEF GrowthInv, count
<1>9. CASE (\E w \in Words : Master(w)) \/ Tick \/ UNCHANGED vars
  <2>1. UNCHANGED companion /\ \A g \in Handlers : Same(g)
    BY <1>9 DEF Master, Tick, vars, tables, handlerVars, Same
  <2> QED BY <1>4, <1>6, <2>1 DEF GrowthInv, count
<1>10. CASE Crash
  <2>1. UNCHANGED companion /\ \A g \in Handlers : pc'[g] \notin Growing
    BY <1>10 DEF Crash, tables, Growing
  <2> QED BY <1>4, <2>1 DEF GrowthInv
<1> QED BY <1>8, <1>9, <1>10 DEF Next, Acts

\* The words and the stage the companion shows are backed by words the child
\* has mastered, however stale the total a completion wrote: companion/service.go 88.
THEOREM GrowthIsBacked == Spec => []GrowthBacked
<1>1. GrowthInv => GrowthBacked
  BY DEF GrowthInv
<1> QED BY <1>1, TypeInit, TypeStep, GrowthInit, GrowthStep, PTL DEF Spec

(***************************************************************************)
(* Celebrations.  A stage above the egg that a handler wrote, or read and  *)
(* is about to compare with, was reported by an answer or will be by one   *)
(* that a handler is about to give: the first handler to write a stage     *)
(* read a lower one.  A stale total may lower the stage again, and what    *)
(* was reported stays reported.                                            *)
(***************************************************************************)
Celebrating == {"publish", "answer"}

Celebrates(s, stage) == s.grew /\ StageFor(s.total) >= stage

Reported(stage) ==
    stage > 1 => \/ \E a \in answers : Celebrates(a, stage)
                 \/ \E h \in Handlers : pc[h] \in Celebrating /\ Celebrates(summary[h], stage)

ReportInv ==
    faults = 0 =>
        /\ Reported(companion.stage)
        /\ \A h \in Handlers : pc[h] = "writeCompanion" => Reported(hatched[h])

\* A promised celebration is given: a handler that is to answer goes on to.
LEMMA ReportedStays ==
    ASSUME TypeInv, [Next]_vars, faults' = faults, NEW stage \in Nat, Reported(stage)
    PROVE  Reported(stage)'
<1>1. answers \subseteq answers'
  <2>1. ASSUME NEW h \in Handlers, Answer(h) PROVE answers \subseteq answers'
    BY <2>1 DEF Answer
  <2>2. ASSUME NEW h \in Handlers,
               \/ Receive(h) \/ Start(h) \/ LoadSession(h) \/ MarkSessionCompleted(h) \/ Reload(h)
               \/ CountLesson(h) \/ CountWindow(h) \/ FindNext(h) \/ CountTotal(h)
               \/ ReadCompanion(h) \/ WriteCompanion(h) \/ MasteryUpdated(h)
               \/ Select(h) \/ CallFails(h)
        PROVE  UNCHANGED answers
    BY <2>2 DEF Receive, Start, FindSession, CreateSession, LoadSession, MarkSessionCompleted,
         Reload, CountLesson, CountWindow, FindNext, CountTotal, ReadCompanion, WriteCompanion,
         MasteryUpdated, Select, FindCompanion, CreateCompanion, CallFails
  <2>3. (\E w \in Words : Master(w)) \/ Crash \/ Tick \/ UNCHANGED vars => UNCHANGED answers
    BY DEF Master, Crash, Tick, vars
  <2> QED BY <2>1, <2>2, <2>3 DEF Next, Complete
<1>2. SUFFICES ASSUME NEW g \in Handlers, pc[g] \in Celebrating, Celebrates(summary[g], stage)
               PROVE  \/ summary[g] \in answers'
                      \/ pc'[g] \in Celebrating /\ summary'[g] = summary[g]
  BY <1>1 DEF Reported, Celebrates
<1>3. ASSUME Same(g) PROVE pc'[g] \in Celebrating /\ summary'[g] = summary[g]
  BY <1>2, <1>3 DEF Same
<1>4. ASSUME NEW h \in Handlers, Acts(h)
      PROVE  \/ summary[g] \in answers'
             \/ pc'[g] \in Celebrating /\ summary'[g] = summary[g]
  <2>1. CASE h # g
    BY <1>3, <1>4, <2>1, OthersWait
  <2>2. CASE Answer(g)
    <3>1. answers' = answers \cup {summary[g]}
      BY <2>2 DEF Answer
    <3> QED BY <3>1
  <2>3. CASE MasteryUpdated(g)
    BY <2>3 DEF MasteryUpdated, Goto, Celebrating, TypeInv, CompletionTypeOK
  <2>4. ~CallFails(g)
    BY DEF CallFails, TypeInv, CompletionTypeOK
  <2>5. ~(Receive(g) \/ Start(g) \/ Select(g))
    BY <1>2 DEF Celebrating, Receive, Start, FindSession, CreateSession, Select, FindCompanion,
         CreateCompanion
  <2>6. ~(\/ LoadSession(g) \/ MarkSessionCompleted(g) \/ Reload(g) \/ CountLesson(g)
          \/ CountWindow(g) \/ FindNext(g) \/ CountTotal(g) \/ ReadCompanion(g)
          \/ WriteCompanion(g))
    BY <1>2 DEF Celebrating, LoadSession, MarkSessionCompleted, Reload, CountLesson, CountWindow,
         FindNext, CountTotal, ReadCompanion, WriteCompanion
  <2> QED BY <1>4, <2>1, <2>2, <2>3, <2>4, <2>5, <2>6 DEF Acts, Complete
<1>5. CASE (\E w \in Words : Master(w)) \/ Tick \/ UNCHANGED vars
  BY <1>3, <1>5 DEF Master, Tick, vars, handlerVars, Same
<1>6. ~Crash
  BY DEF Crash, TypeInv, CompletionTypeOK
<1> QED BY <1>4, <1>5, <1>6 DEF Next, Acts

LEMMA ReportInit == Init => ReportInv
BY DEF Init, ReportInv, Reported

LEMMA ReportMeans == ReportInv => GrowthReportedUnlessFault
BY DEF ReportInv, Reported, Celebrating, Celebrates, GrowthReportedUnlessFault,
       GrowthIsReported, Quiet

\* Who holds a stage to compare with.
LEMMA IntoWriting ==
    ASSUME TypeInv, NEW h \in Handlers, Acts(h), pc'[h] = "writeCompanion"
    PROVE  ReadCompanion(h)
<1>1. ~CountTotal(h)
  BY DEF CountTotal, Goto, TypeInv, CompletionTypeOK
<1> QED BY <1>1, IntoGrowing DEF Growing

LEMMA ReportStep == TypeInv /\ ReportInv /\ [Next]_vars => ReportInv'
<1> SUFFICES ASSUME TypeInv, ReportInv, [Next]_vars, faults' = 0 PROVE ReportInv'
  BY DEF ReportInv
<1>1. faults' = faults
  <2>1. ASSUME NEW h \in Handlers, CallFails(h) PROVE FALSE
    BY <2>1 DEF CallFails, TypeInv, CompletionTypeOK
  <2>2. ~Crash
    BY DEF Crash, TypeInv, CompletionTypeOK
  <2>3. ASSUME NEW h \in Handlers,
               \/ Receive(h) \/ Start(h) \/ LoadSession(h) \/ MarkSessionCompleted(h) \/ Reload(h)
               \/ CountLesson(h) \/ CountWindow(h) \/ FindNext(h) \/ CountTotal(h)
               \/ ReadCompanion(h) \/ WriteCompanion(h) \/ MasteryUpdated(h) \/ Answer(h)
               \/ Select(h)
        PROVE  UNCHANGED faults
    BY <2>3 DEF Receive, Start, FindSession, CreateSession, LoadSession, MarkSessionCompleted,
         Reload, CountLesson, CountWindow, FindNext, CountTotal, ReadCompanion, WriteCompanion,
         MasteryUpdated, Answer, Select, FindCompanion, CreateCompanion
  <2>4. (\E w \in Words : Master(w)) \/ Tick \/ UNCHANGED vars => UNCHANGED faults
    BY DEF Master, Tick, vars
  <2> QED BY <2>1, <2>2, <2>3, <2>4 DEF Next, Complete
<1>2. /\ Reported(companion.stage)
      /\ \A h \in Handlers : pc[h] = "writeCompanion" => Reported(hatched[h])
  BY <1>1 DEF ReportInv
<1>3. /\ companion \in CompanionRow /\ companion.stage \in Nat
      /\ \A h \in Handlers : summary[h] \in Summary /\ hatched[h] \in Nat
  BY CompletionAssumption DEF TypeInv, CompletionTypeOK, CompanionRow
<1>4. \A stage \in Nat : Reported(stage) => Reported(stage)'
  BY <1>1, ReportedStays
<1>5. UNCHANGED companion => Reported(companion.stage)'
  <2>1. PICK stage \in Nat : stage = companion.stage
    BY <1>3
  <2>2. Reported(stage)'
    BY <1>2, <1>4, <2>1
  <2> QED BY <2>1, <2>2 DEF Reported
<1>6. ASSUME NEW g \in Handlers, pc[g] = "writeCompanion", hatched'[g] = hatched[g]
      PROVE  Reported(hatched[g])'
  <2>1. PICK stage \in Nat : stage = hatched[g]
    BY <1>3
  <2>2. Reported(stage)'
    BY <1>2, <1>4, <1>6, <2>1
  <2> QED BY <1>6, <2>1, <2>2 DEF Reported
<1>7. ASSUME NEW h \in Handlers, WriteCompanion(h) PROVE Reported(companion.stage)'
  <2>1. PICK total \in Nat, old \in Nat, s \in Summary :
            total = summary[h].total /\ old = hatched[h] /\ s = summary[h]
    BY <1>3 DEF Summary
  <2>2. PICK stage \in Nat : stage = StageFor(total)
    BY LastStage, CompletionAssumption
  <2>3. companion'.stage = stage /\ pc[h] = "writeCompanion"
    BY <1>3, <1>7, <2>1, <2>2 DEF WriteCompanion, CompanionRow
  <2>4. CASE stage > old
    <3>1. pc'[h] = "publish"
      BY <1>7 DEF WriteCompanion, Goto, TypeInv, CompletionTypeOK
    <3>2. summary' = [summary EXCEPT ![h].grew = TRUE]
      BY <1>7, <2>1, <2>2, <2>4 DEF WriteCompanion
    <3>3. summary'[h] = [s EXCEPT !.grew = TRUE]
      BY <2>1, <3>2 DEF TypeInv, CompletionTypeOK
    <3>4. summary'[h].grew /\ summary'[h].total = total
      BY <2>1, <3>3 DEF Summary
    <3>5. Celebrates(summary[h], stage)'
      BY <2>2, <3>4 DEF Celebrates
    <3> QED BY <2>3, <3>1, <3>5 DEF Reported, Celebrating
  <2>5. CASE stage <= old
    <3>1. Reported(old)'
      BY <1>2, <1>4, <2>1, <2>3
    <3>2. ASSUME NEW n \in Nat PROVE StageFor(n) \in Nat
      <4>1. StageFor(n) \in 1..Len(StageAt)
        BY LastStage
      <4> QED BY <4>1, CompletionAssumption
    <3>3. \A a \in answers' : a.total \in Nat
      BY TypeStep DEF TypeInv, CompletionTypeOK, Summary
    <3>4. \A g \in Handlers : summary'[g].total \in Nat
      BY TypeStep DEF TypeInv, CompletionTypeOK, Summary
    <3>5. \A a \in answers' : Celebrates(a, old) => Celebrates(a, stage)
      BY <2>5, <3>2, <3>3 DEF Celebrates
    <3>6. \A g \in Handlers : Celebrates(summary[g], old)' => Celebrates(summary[g], stage)'
      BY <2>5, <3>2, <3>4 DEF Celebrates
    <3>7. Reported(stage)'
      BY <2>5, <3>1, <3>5, <3>6 DEF Reported
    <3> QED BY <2>3, <3>7 DEF Reported
  <2> QED BY <2>4, <2>5
<1>8. ASSUME NEW h \in Handlers, CreateCompanion(h) PROVE Reported(companion.stage)'
  <2>1. UNCHANGED companion \/ companion'.stage = 1
    BY <1>8 DEF CreateCompanion
  <2> QED BY <1>5, <2>1 DEF Reported
<1>9. ASSUME NEW h \in Handlers, Acts(h), NEW g \in Handlers, pc'[g] = "writeCompanion"
      PROVE  Reported(hatched[g])'
  <2>1. CASE g # h
    BY <1>6, <1>9, <2>1, OthersWait DEF Same
  <2>2. CASE g = h
    <3>1. ReadCompanion(h)
      BY <1>9, <2>2, IntoWriting
    <3>2. companion.species # NoSpecies /\ hatched'[h] = companion.stage
      BY <1>9, <2>2, <3>1 DEF ReadCompanion, Goto, TypeInv, CompletionTypeOK
    <3>3. UNCHANGED companion
      BY <3>1 DEF ReadCompanion, tables
    <3> QED BY <1>5, <2>2, <3>2, <3>3 DEF Reported
  <2> QED BY <2>1, <2>2
<1>10. ASSUME NEW h \in Handlers, Acts(h) PROVE ReportInv'
  BY <1>5, <1>7, <1>8, <1>9, <1>10, CompanionWrites DEF ReportInv
<1>11. CASE (\E w \in Words : Master(w)) \/ Tick \/ UNCHANGED vars
  <2>1. UNCHANGED companion /\ UNCHANGED <<pc, hatched>>
    BY <1>11 DEF Master, Tick, vars, tables, handlerVars
  <2> QED BY <1>5, <1>6, <2>1 DEF ReportInv
<1>12. ~Crash
  BY <1>1 DEF Crash, TypeInv, CompletionTypeOK
<1> QED BY <1>10, <1>11, <1>12 DEF Next, Acts

\* As long as no call fails every stage the companion shows has been reported
\* as growth by the answer to a completion, in any interleaving of completions
\* and whatever stale totals they wrote: service.go 265, companion/service.go 86.
THEOREM GrowthIsCelebrated == Spec => []GrowthReportedUnlessFault
BY TypeInit, TypeStep, ReportInit, ReportStep, ReportMeans, PTL DEF Spec
=============================================================================
