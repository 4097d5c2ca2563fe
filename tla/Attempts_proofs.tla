--------------------------- MODULE Attempts_proofs --------------------------
(***************************************************************************)
(* Theorems about the attempt pipeline, for every set of handlers,         *)
(* children, sessions, keys, words and items, and for every bound.         *)
(***************************************************************************)
EXTENDS Attempts, FiniteSetTheorems, SequenceTheorems, TLAPS

USE DEF Steps, Drafting, Stored

(***************************************************************************)
(* Type correctness.  A handler that is not idle has an item to work on,   *)
(* and one past the scorer has its attempt: what makes TypeOK inductive.   *)
(***************************************************************************)
HandlerOK ==
    \A h \in Handlers :
        /\ pc[h] # "idle" => batch[h] # <<>>
        /\ pc[h] \in Drafting => draft[h] \in Attempt
        /\ pc[h] \in {"readWeak", "writeWeak"} => NeedsBump(draft[h])

HandlerTypes ==
    /\ pc \in [Handlers -> Steps]
    /\ batch \in [Handlers -> Seq(Items)]
    /\ draft \in [Handlers -> Attempt \cup {NoDraft}]
    /\ seen \in [Handlers -> MasteryRow]
    /\ seenMiss \in [Handlers -> Nat]

TableTypes ==
    /\ attempts \subseteq Attempt
    /\ mastery \in [Children -> [Words -> MasteryRow]]
    /\ weak \in [Children -> [Phonemes -> Nat]]
    /\ objects \subseteq Nat

OtherTypes ==
    /\ now \in Nat
    /\ replies \subseteq Attempt
    /\ nextId \in Nat
    /\ received \in Nat
    /\ faults \in Nat

TypeInv == TableTypes /\ HandlerTypes /\ OtherTypes /\ HandlerOK

LEMMA RowTypes ==
    /\ NoRow \in MasteryRow
    /\ \A old, current \in MasteryRow, a \in Attempt : Folded(old, current, a) \in MasteryRow
<1>1. NoRow \in MasteryRow
  BY DEF NoRow, MasteryRow
<1>2. ASSUME NEW old \in MasteryRow, NEW current \in MasteryRow, NEW a \in Attempt
      PROVE  Folded(old, current, a) \in MasteryRow
  <2>1. a.score \in Nat /\ a.at \in Nat
    BY ConstantsAssumption DEF Attempt
  <2>2. old.count + 1 \in Nat /\ old.sum + a.score \in Nat
    BY <2>1 DEF MasteryRow
  <2>3. current.first \in Nat \cup {Never}
    BY DEF MasteryRow
  <2>4. QED
    BY <2>1, <2>2, <2>3 DEF Folded, MasteryRow
<1>3. QED
  BY <1>1, <1>2

LEMMA TailTypes ==
    ASSUME NEW S, NEW s \in Seq(S), s # <<>>
    PROVE  /\ Tail(s) \in Seq(S)
           /\ Len(s) > 1 => Tail(s) # <<>>
<1>1. Tail(s) \in Seq(S) /\ Len(Tail(s)) = Len(s) - 1
  BY HeadTailProperties
<1>2. Len(<<>>) = 0
  BY EmptySeq
<1>3. Len(s) \in Nat
  BY LenProperties
<1>4. ASSUME Tail(s) = <<>> PROVE Len(s) = 1
  <2> DEFINE n == Len(s)
             m == Len(Tail(s))
  <2>1. m = 0
    BY <1>2, <1>4, Zenon
  <2>2. m = n - 1 /\ n \in Nat
    BY <1>1, <1>3
  <2> HIDE DEF n, m
  <2>3. n = 1
    BY <2>1, <2>2
  <2>4. QED
    BY <2>3 DEF n
<1>5. QED
  BY <1>1, <1>4

LEMMA AdvanceTypes ==
    ASSUME TypeInv, NEW h \in Handlers, pc[h] # "idle", Advance(h)
    PROVE  HandlerTypes' /\ HandlerOK'
<1> USE DEF TypeInv, HandlerTypes, HandlerOK
<1>1. batch[h] \in Seq(Items) /\ batch[h] # <<>>
  OBVIOUS
<1>2. Tail(batch[h]) \in Seq(Items) /\ (Len(batch[h]) > 1 => Tail(batch[h]) # <<>>)
  BY <1>1, TailTypes
<1>3. batch' \in [Handlers -> Seq(Items)]
  BY <1>2 DEF Advance
<1>4. pc' \in [Handlers -> Steps]
  BY DEF Advance, Goto
<1>5. draft' \in [Handlers -> Attempt \cup {NoDraft}]
  BY DEF Advance
<1>6. seen' \in [Handlers -> MasteryRow] /\ seenMiss' \in [Handlers -> Nat]
  BY RowTypes DEF Advance
<1>7. ASSUME NEW g \in Handlers
      PROVE  /\ pc'[g] # "idle" => batch'[g] # <<>>
             /\ pc'[g] \in Drafting => draft'[g] \in Attempt
             /\ pc'[g] \in {"readWeak", "writeWeak"} => NeedsBump(draft'[g])
  BY <1>2 DEF Advance, Goto
<1>8. QED
  BY <1>3, <1>4, <1>5, <1>6, <1>7 DEF HandlerTypes

LEMMA TypeInit == Init => TypeInv
BY ConstantsAssumption, RowTypes
   DEF Init, TypeInv, TableTypes, HandlerTypes, OtherTypes, HandlerOK

LEMMA AnswerTypes ==
    ASSUME TypeInv, NEW h \in Handlers, pc[h] # "idle",
           (\E a \in attempts : AnswerWith(h, a)) \/ AnswerError(h)
    PROVE  HandlerTypes' /\ HandlerOK' /\ replies' \subseteq Attempt
BY AdvanceTypes DEF TypeInv, TableTypes, OtherTypes, AnswerWith, AnswerError

LEMMA TypeStep == TypeInv /\ [Next]_vars => TypeInv'
<1> SUFFICES ASSUME TypeInv, [Next]_vars PROVE TypeInv'
  OBVIOUS
<1> USE ConstantsAssumption
<1>0. TableTypes /\ HandlerTypes /\ OtherTypes /\ HandlerOK
  BY DEF TypeInv
<1>1. ASSUME NEW h \in Handlers, Receive(h) PROVE TypeInv'
  <2>1. PICK n \in 1..MaxBatch : \E items \in [1..n -> Items] :
            /\ received + n <= MaxItems
            /\ batch' = [batch EXCEPT ![h] = items]
            /\ received' = received + n
    BY <1>1 DEF Receive
  <2>2. PICK items \in [1..n -> Items] :
            /\ batch' = [batch EXCEPT ![h] = items]
            /\ received' = received + n
    BY <2>1
  <2>3. n \in Nat \ {0}
    OBVIOUS
  <2>4. items \in Seq(Items) /\ Len(items) = n
    BY <2>3
  <2>5. items # <<>>
    BY <2>3, <2>4
  <2>6. TableTypes' /\ OtherTypes'
    BY <1>0, <1>1, <2>2, <2>3 DEF Receive, tables, TableTypes, OtherTypes
  <2>7. HandlerTypes' /\ HandlerOK'
    BY <1>0, <1>1, <2>2, <2>4, <2>5 DEF Receive, Goto, HandlerTypes, HandlerOK
  <2>8. QED
    BY <2>6, <2>7 DEF TypeInv
<1>2. ASSUME NEW h \in Handlers, FindExisting(h) PROVE TypeInv'
  <2>1. pc[h] # "idle"
    BY <1>2 DEF FindExisting
  <2>2. CASE (\E a \in attempts : AnswerWith(h, a)) \/ AnswerError(h)
    <3>1. HandlerTypes' /\ HandlerOK' /\ replies' \subseteq Attempt
      BY <2>1, <2>2, AnswerTypes
    <3>2. TableTypes' /\ OtherTypes'
      BY <1>0, <1>2, <3>1 DEF FindExisting, tables, TableTypes, OtherTypes
    <3>3. QED
      BY <3>1, <3>2 DEF TypeInv
  <2>3. CASE Goto(h, "score") /\ UNCHANGED <<batch, draft, seen, seenMiss, replies>>
    <3>1. HandlerTypes' /\ HandlerOK'
      BY <1>0, <2>1, <2>3 DEF Goto, HandlerTypes, HandlerOK
    <3>2. TableTypes' /\ OtherTypes'
      BY <1>0, <1>2, <2>3 DEF FindExisting, tables, TableTypes, OtherTypes
    <3>3. QED
      BY <3>1, <3>2 DEF TypeInv
  <2>4. QED
    BY <1>2, <2>2, <2>3 DEF FindExisting, WithKey
<1>3. ASSUME NEW h \in Handlers, ScoreAudio(h) PROVE TypeInv'
  <2>1. Current(h) \in Item
    BY <1>0, <1>3, HeadTailProperties DEF ScoreAudio, Current, HandlerTypes, HandlerOK
  <2>2. PICK s \in Scores :
            draft' = [draft EXCEPT ![h] =
                        [id |-> nextId, session |-> Current(h).session,
                         key |-> Current(h).key, word |-> Current(h).word,
                         score |-> s, at |-> now, audio |-> TRUE]]
    BY <1>3 DEF ScoreAudio
  <2>3. [id |-> nextId, session |-> Current(h).session,
         key |-> Current(h).key, word |-> Current(h).word,
         score |-> s, at |-> now, audio |-> TRUE] \in Attempt
    BY <1>0, <2>1 DEF OtherTypes, Item, Attempt
  <2>4. HandlerTypes' /\ HandlerOK'
    BY <1>0, <1>3, <2>2, <2>3 DEF ScoreAudio, Goto, HandlerTypes, HandlerOK
  <2>5. TableTypes' /\ OtherTypes'
    BY <1>0, <1>3 DEF ScoreAudio, tables, TableTypes, OtherTypes
  <2>6. QED
    BY <2>4, <2>5 DEF TypeInv
<1>4. ASSUME NEW h \in Handlers, PutAudio(h) PROVE TypeInv'
  <2>1. draft[h] \in Attempt
    BY <1>0, <1>4 DEF PutAudio, HandlerOK
  <2>2. draft[h].id \in Nat
    BY <2>1 DEF Attempt
  <2>3. HandlerTypes' /\ HandlerOK'
    BY <1>0, <1>4 DEF PutAudio, Goto, HandlerTypes, HandlerOK
  <2>4. TableTypes' /\ OtherTypes'
    BY <1>0, <1>4, <2>2 DEF PutAudio, TableTypes, OtherTypes
  <2>5. QED
    BY <2>3, <2>4 DEF TypeInv
<1>5. ASSUME NEW h \in Handlers, CreateAttempt(h) \/ CreateAttemptError(h) PROVE TypeInv'
  <2>1. draft[h] \in Attempt
    BY <1>0, <1>5 DEF CreateAttempt, CreateAttemptError, HandlerOK
  <2>2. HandlerTypes' /\ HandlerOK'
    BY <1>0, <1>5 DEF CreateAttempt, CreateAttemptError, Goto, HandlerTypes, HandlerOK
  <2>3. TableTypes' /\ OtherTypes'
    BY <1>0, <1>5, <2>1 DEF CreateAttempt, CreateAttemptError, TableTypes, OtherTypes
  <2>4. QED
    BY <2>2, <2>3 DEF TypeInv
<1>6. ASSUME NEW h \in Handlers, FindWinner(h) \/ Reply(h) \/ CallFails(h) PROVE TypeInv'
  <2>1. pc[h] # "idle" /\ (pc[h] = "reply" => draft[h] \in Attempt)
    BY <1>0, <1>6 DEF FindWinner, Reply, CallFails, HandlerOK
  <2>2. Advance(h) /\ replies' \subseteq Attempt
    BY <1>0, <1>6, <2>1
       DEF FindWinner, Reply, CallFails, AnswerWith, AnswerError, WithKey,
           TableTypes, OtherTypes
  <2>3. HandlerTypes' /\ HandlerOK'
    BY <2>1, <2>2, AdvanceTypes
  <2>4. UNCHANGED <<now, tables, nextId, received>> /\ faults' \in {faults, faults + 1}
    BY <1>6 DEF FindWinner, Reply, CallFails
  <2>5. TableTypes' /\ OtherTypes'
    BY <1>0, <2>2, <2>4 DEF tables, TableTypes, OtherTypes
  <2>6. QED
    BY <2>3, <2>5 DEF TypeInv
<1>7. ASSUME NEW h \in Handlers, ReadMastery(h) PROVE TypeInv'
  <2>1. ChildOf(draft[h]) \in Children /\ draft[h].word \in Words
    BY <1>0, <1>7 DEF ReadMastery, HandlerOK, Attempt, ChildOf
  <2>2. mastery[ChildOf(draft[h])][draft[h].word] \in MasteryRow
    BY <1>0, <2>1 DEF TableTypes
  <2>3. HandlerTypes' /\ HandlerOK'
    BY <1>0, <1>7, <2>2 DEF ReadMastery, Goto, HandlerTypes, HandlerOK
  <2>4. TableTypes' /\ OtherTypes'
    BY <1>0, <1>7 DEF ReadMastery, tables, TableTypes, OtherTypes
  <2>5. QED
    BY <2>3, <2>4 DEF TypeInv
<1>8. ASSUME NEW h \in Handlers, WriteMastery(h) PROVE TypeInv'
  <2>1. /\ draft[h] \in Attempt /\ ChildOf(draft[h]) \in Children /\ draft[h].word \in Words
        /\ pc[h] # "idle"
    BY <1>0, <1>8 DEF WriteMastery, HandlerOK, Attempt, ChildOf
  <2>2. CASE AnswerError(h) /\ UNCHANGED mastery
    <3>1. HandlerTypes' /\ HandlerOK' /\ replies' \subseteq Attempt
      BY <2>1, <2>2, AnswerTypes
    <3>2. TableTypes' /\ OtherTypes'
      BY <1>0, <1>8, <2>2, <3>1 DEF WriteMastery, TableTypes, OtherTypes
    <3>3. QED
      BY <3>1, <3>2 DEF TypeInv
  <2>3. CASE /\ mastery' = [mastery EXCEPT ![ChildOf(draft[h])][draft[h].word] =
                     Folded(seen[h], mastery[ChildOf(draft[h])][draft[h].word], draft[h])]
             /\ Goto(h, IF NeedsBump(draft[h]) THEN "readWeak" ELSE "reply")
             /\ UNCHANGED <<batch, draft, seen, seenMiss, replies>>
    <3>1. Folded(seen[h], mastery[ChildOf(draft[h])][draft[h].word], draft[h]) \in MasteryRow
      <4>1. seen[h] \in MasteryRow /\ mastery[ChildOf(draft[h])][draft[h].word] \in MasteryRow
        BY <1>0, <2>1 DEF HandlerTypes, TableTypes
      <4>2. QED
        BY <2>1, <4>1, RowTypes
    <3>2. HandlerTypes' /\ HandlerOK'
      BY <1>0, <2>1, <2>3 DEF Goto, HandlerTypes, HandlerOK
    <3>3. mastery' \in [Children -> [Words -> MasteryRow]]
      BY <1>0, <2>1, <2>3, <3>1 DEF TableTypes
    <3>4. TableTypes' /\ OtherTypes'
      BY <1>0, <1>8, <2>3, <3>3 DEF WriteMastery, TableTypes, OtherTypes
    <3>5. QED
      BY <3>2, <3>4 DEF TypeInv
  <2>4. QED
    BY <1>8, <2>2, <2>3 DEF WriteMastery
<1>9. ASSUME NEW h \in Handlers, ReadWeakPhoneme(h) PROVE TypeInv'
  <2>1. ChildOf(draft[h]) \in Children /\ LessonSound[draft[h].session] \in Phonemes
    BY <1>0, <1>9 DEF ReadWeakPhoneme, HandlerOK, Attempt, ChildOf, NeedsBump
  <2>2. weak[ChildOf(draft[h])][LessonSound[draft[h].session]] \in Nat
    BY <1>0, <2>1 DEF TableTypes
  <2>3. HandlerTypes' /\ HandlerOK'
    BY <1>0, <1>9, <2>2 DEF ReadWeakPhoneme, Goto, HandlerTypes, HandlerOK
  <2>4. TableTypes' /\ OtherTypes'
    BY <1>0, <1>9 DEF ReadWeakPhoneme, tables, TableTypes, OtherTypes
  <2>5. QED
    BY <2>3, <2>4 DEF TypeInv
<1>10. ASSUME NEW h \in Handlers, WriteWeakPhoneme(h) PROVE TypeInv'
  <2> DEFINE c == ChildOf(draft[h])
             p == LessonSound[draft[h].session]
  <2>1. c \in Children /\ p \in Phonemes /\ pc[h] # "idle"
    BY <1>0, <1>10 DEF WriteWeakPhoneme, HandlerOK, Attempt, ChildOf, NeedsBump
  <2>2. CASE AnswerError(h) /\ UNCHANGED weak
    <3>1. HandlerTypes' /\ HandlerOK' /\ replies' \subseteq Attempt
      BY <2>1, <2>2, AnswerTypes
    <3>2. TableTypes' /\ OtherTypes'
      BY <1>0, <1>10, <2>2, <3>1 DEF WriteWeakPhoneme, TableTypes, OtherTypes
    <3>3. QED
      BY <3>1, <3>2 DEF TypeInv
  <2>3. CASE /\ weak' = [weak EXCEPT ![c][p] = seenMiss[h] + 1]
             /\ Goto(h, "reply")
             /\ UNCHANGED <<batch, draft, seen, seenMiss, replies>>
    <3>1. HandlerTypes' /\ HandlerOK'
      BY <1>0, <1>10, <2>3 DEF WriteWeakPhoneme, Goto, HandlerTypes, HandlerOK
    <3>2. seenMiss[h] + 1 \in Nat
      BY <1>0 DEF HandlerTypes
    <3>3. weak' \in [Children -> [Phonemes -> Nat]]
      BY <1>0, <2>1, <2>3, <3>2 DEF TableTypes
    <3>4. TableTypes' /\ OtherTypes'
      BY <1>0, <1>10, <2>3, <3>3 DEF WriteWeakPhoneme, TableTypes, OtherTypes
    <3>5. QED
      BY <3>1, <3>4 DEF TypeInv
  <2>4. QED
    BY <1>10, <2>2, <2>3 DEF WriteWeakPhoneme
<1>11. ASSUME Crash PROVE TypeInv'
  <2>1. HandlerTypes' /\ HandlerOK'
    BY <1>0, <1>11, RowTypes, EmptySeq DEF Crash, HandlerTypes, HandlerOK
  <2>2. TableTypes' /\ OtherTypes'
    BY <1>0, <1>11 DEF Crash, tables, TableTypes, OtherTypes
  <2>3. QED
    BY <2>1, <2>2 DEF TypeInv
<1>12. ASSUME Tick PROVE TypeInv'
  BY <1>12 DEF Tick, tables, handlerVars, TypeInv, TableTypes, HandlerTypes, OtherTypes, HandlerOK
<1>13. ASSUME UNCHANGED vars PROVE TypeInv'
  BY <1>13 DEF vars, tables, handlerVars, TypeInv, TableTypes, HandlerTypes, OtherTypes, HandlerOK
<1>14. QED
  BY <1>1, <1>2, <1>3, <1>4, <1>5, <1>6, <1>7, <1>8, <1>9, <1>10, <1>11, <1>12, <1>13
     DEF Next, RecordAttempt, Fault, Rest

\* Every variable of the pipeline keeps its type, in every instance.
THEOREM TypeCorrect == Spec => []TypeOK
<1>1. TypeInv => TypeOK
  BY DEF TypeInv, TypeOK, TableTypes, HandlerTypes, OtherTypes
<1>2. QED
  BY TypeInit, TypeStep, <1>1, PTL DEF Spec

(***************************************************************************)
(* What is stored.  Ids are fresh, so a row that a handler is about to     *)
(* insert cannot be in the table yet, and one it has inserted is the row   *)
(* it goes on with; the table holds one row per (session, client_key).     *)
(***************************************************************************)
StoreInv ==
    /\ IsFiniteSet(attempts)
    /\ \A a \in attempts : a.id < nextId
    /\ \A a, b \in attempts : SameKey(a, b) => a = b
    /\ replies \subseteq attempts
    /\ \A h \in Handlers :
        /\ pc[h] \in Drafting => draft[h].id < nextId
        /\ pc[h] \in {"put", "create"} => \A a \in attempts : a.id # draft[h].id
        /\ pc[h] \in Stored => draft[h] \in attempts
    /\ \A g, h \in Handlers :
        g # h /\ pc[g] \in Drafting /\ pc[h] \in Drafting => draft[g].id # draft[h].id

LEMMA StoreInit == Init => StoreInv
BY FS_EmptySet DEF Init, StoreInv

\* A handler that is done with its item holds no attempt.
LEMMA StoreAdvance ==
    ASSUME TypeInv, StoreInv, NEW h \in Handlers, Advance(h),
           UNCHANGED <<attempts, nextId>>, replies' \subseteq attempts
    PROVE  StoreInv'
BY DEF TypeInv, HandlerTypes, StoreInv, Advance, Goto, SameKey

\* A handler that goes on with the attempt it has, the table unchanged.
LEMMA StoreGoto ==
    ASSUME TypeInv, StoreInv, NEW h \in Handlers, NEW step \in Steps, Goto(h, step),
           pc[h] \in Drafting => /\ step \in Stored => pc[h] \in Stored
                                 /\ step \in {"put", "create"} => pc[h] \in {"put", "create"},
           pc[h] \notin Drafting => step \notin Drafting,
           UNCHANGED <<attempts, nextId, draft, replies>>
    PROVE  StoreInv'
BY DEF TypeInv, HandlerTypes, StoreInv, Goto, SameKey

LEMMA StoreStep == TypeInv /\ StoreInv /\ [Next]_vars => StoreInv'
<1> SUFFICES ASSUME TypeInv, StoreInv, [Next]_vars PROVE StoreInv'
  OBVIOUS
<1>0. attempts \subseteq Attempt /\ nextId \in Nat /\ pc \in [Handlers -> Steps]
  BY DEF TypeInv, TableTypes, OtherTypes, HandlerTypes
<1>1. ASSUME NEW h \in Handlers, Receive(h) PROVE StoreInv'
  BY <1>1, StoreGoto DEF Receive, tables
<1>2. ASSUME NEW h \in Handlers, FindExisting(h) PROVE StoreInv'
  <2>1. CASE (\E a \in attempts : AnswerWith(h, a)) \/ AnswerError(h)
    BY <1>2, <2>1, StoreAdvance
       DEF FindExisting, AnswerWith, AnswerError, tables, StoreInv
  <2>2. CASE Goto(h, "score") /\ UNCHANGED <<batch, draft, seen, seenMiss, replies>>
    BY <1>2, <2>2, StoreGoto DEF FindExisting, tables
  <2>3. QED
    BY <1>2, <2>1, <2>2 DEF FindExisting, WithKey
<1>3. ASSUME NEW h \in Handlers, ScoreAudio(h) PROVE StoreInv'
  <2>1. /\ draft'[h].id = nextId /\ nextId' = nextId + 1
        /\ \A g \in Handlers \ {h} : draft'[g] = draft[g] /\ pc'[g] = pc[g]
        /\ pc'[h] = "put"
        /\ UNCHANGED <<attempts, replies>>
    BY <1>0, <1>3 DEF ScoreAudio, Goto, tables, TypeInv, HandlerTypes
  <2>2. \A g \in Handlers : pc[g] \in Drafting => draft[g].id \in Nat
    BY DEF TypeInv, HandlerOK, Attempt
  <2>3. \A a \in attempts : a.id \in Nat
    BY <1>0 DEF Attempt
  <2>4. QED
    BY <1>0, <2>1, <2>2, <2>3 DEF StoreInv, SameKey
<1>4. ASSUME NEW h \in Handlers, PutAudio(h) PROVE StoreInv'
  BY <1>4, StoreGoto DEF PutAudio
<1>5. ASSUME NEW h \in Handlers, pc[h] = "create",
             WithKey(draft[h].session, draft[h].key) = {},
             attempts' = attempts \cup {draft[h]},
             Goto(h, "readMastery") \/ Goto(h, "winner"),
             UNCHANGED <<draft, replies, nextId>>
      PROVE  StoreInv'
  <2>1. IsFiniteSet(attempts')
    BY <1>5, FS_AddElement DEF StoreInv
  <2>2. \A a, b \in attempts' : SameKey(a, b) => a = b
    BY <1>5 DEF StoreInv, WithKey, SameKey
  <2>3. /\ pc[h] \in Drafting /\ pc'[h] \in {"readMastery", "winner"}
        /\ \A g \in Handlers \ {h} : pc'[g] = pc[g]
    BY <1>0, <1>5 DEF Goto
  <2>4. \A a \in attempts' : a.id < nextId'
    BY <1>5, <2>3 DEF StoreInv
  <2>5. ASSUME NEW g \in Handlers
        PROVE  /\ pc'[g] \in Drafting => draft'[g].id < nextId'
               /\ pc'[g] \in {"put", "create"} => \A a \in attempts' : a.id # draft'[g].id
               /\ pc'[g] \in Stored => draft'[g] \in attempts'
    BY <1>5, <2>3 DEF StoreInv
  <2>6. \A g, k \in Handlers :
          g # k /\ pc'[g] \in Drafting /\ pc'[k] \in Drafting => draft'[g].id # draft'[k].id
    BY <1>5, <2>3 DEF StoreInv
  <2>7. replies' \subseteq attempts'
    BY <1>5 DEF StoreInv
  <2>8. QED
    BY <2>1, <2>2, <2>4, <2>5, <2>6, <2>7 DEF StoreInv
<1>6. ASSUME NEW h \in Handlers, CreateAttempt(h) \/ CreateAttemptError(h) PROVE StoreInv'
  <2>1. CASE UNCHANGED attempts /\ Goto(h, "winner")
    BY <1>6, <2>1, StoreGoto DEF CreateAttempt, CreateAttemptError
  <2>2. QED
    BY <1>5, <1>6, <2>1 DEF CreateAttempt, CreateAttemptError
<1>7. ASSUME NEW h \in Handlers, FindWinner(h) \/ Reply(h) \/ CallFails(h) PROVE StoreInv'
  <2>1. Advance(h) /\ UNCHANGED <<attempts, nextId>> /\ replies' \subseteq attempts
    BY <1>7 DEF FindWinner, Reply, CallFails, AnswerWith, AnswerError, WithKey,
                tables, StoreInv
  <2>2. QED
    BY <2>1, StoreAdvance
<1>8. ASSUME NEW h \in Handlers, ReadMastery(h) \/ ReadWeakPhoneme(h) PROVE StoreInv'
  BY <1>8, StoreGoto DEF ReadMastery, ReadWeakPhoneme, tables
<1>9. ASSUME NEW h \in Handlers, WriteMastery(h) PROVE StoreInv'
  <2>1. CASE AnswerError(h)
    BY <1>9, <2>1, StoreAdvance DEF WriteMastery, AnswerError, StoreInv
  <2>2. CASE /\ Goto(h, IF NeedsBump(draft[h]) THEN "readWeak" ELSE "reply")
             /\ UNCHANGED <<batch, draft, seen, seenMiss, replies>>
    BY <1>9, <2>2, StoreGoto DEF WriteMastery
  <2>3. QED
    BY <1>9, <2>1, <2>2 DEF WriteMastery
<1>10. ASSUME NEW h \in Handlers, WriteWeakPhoneme(h) PROVE StoreInv'
  <2>1. CASE AnswerError(h)
    BY <1>10, <2>1, StoreAdvance DEF WriteWeakPhoneme, AnswerError, StoreInv
  <2>2. CASE Goto(h, "reply") /\ UNCHANGED <<batch, draft, seen, seenMiss, replies>>
    BY <1>10, <2>2, StoreGoto DEF WriteWeakPhoneme
  <2>3. QED
    BY <1>10, <2>1, <2>2 DEF WriteWeakPhoneme
<1>11. ASSUME Crash PROVE StoreInv'
  BY <1>11 DEF Crash, tables, StoreInv, SameKey
<1>12. ASSUME Tick \/ UNCHANGED vars PROVE StoreInv'
  BY <1>12 DEF Tick, vars, tables, handlerVars, StoreInv, SameKey
<1>13. QED
  BY <1>1, <1>2, <1>3, <1>4, <1>6, <1>7, <1>8, <1>9, <1>10, <1>11, <1>12
     DEF Next, RecordAttempt, Fault, Rest

\* Every success answered for one (session, client_key) is the same result.
THEOREM RetriesAgree == Spec => []RepliesAgree
<1>1. StoreInv => RepliesAgree
  BY DEF StoreInv, RepliesAgree, SameResult
<1>2. QED
  BY TypeInit, TypeStep, StoreInit, StoreStep, <1>1, PTL DEF Spec

\* What is answered with success is in the table from then on.
THEOREM AnswersAreStored == Spec => []RepliesStored
<1>1. StoreInv => RepliesStored
  BY DEF StoreInv, RepliesStored, SameResult, SameKey
<1>2. QED
  BY TypeInit, TypeStep, StoreInit, StoreStep, <1>1, PTL DEF Spec

(***************************************************************************)
(* No double counting.  A stored attempt is settled when no handler has    *)
(* its fold still ahead: it has been folded, or never will be.  A count,   *)
(* and the count a transaction has read, is at most the number of settled  *)
(* attempts; the fold that raises it settles one attempt more.             *)
(***************************************************************************)
FoldAhead == {"readMastery", "writeMastery"}
MissAhead == FoldAhead \cup {"readWeak", "writeWeak"}

Settled(ahead) == {a \in attempts : \A h \in Handlers : pc[h] \in ahead => draft[h].id # a.id}

FoldedOf(c, w) == {a \in Settled(FoldAhead) : ChildOf(a) = c /\ a.word = w}

MissedOf(c, p) == {a \in Settled(MissAhead) :
    ChildOf(a) = c /\ LessonSound[a.session] = p /\ a.score < WeakThreshold}

CountInv ==
    /\ \A c \in Children, w \in Words : mastery[c][w].count <= Cardinality(FoldedOf(c, w))
    /\ \A h \in Handlers : pc[h] = "writeMastery" =>
        seen[h].count <= Cardinality(FoldedOf(ChildOf(draft[h]), draft[h].word))

MissInv ==
    /\ \A c \in Children, p \in Phonemes : weak[c][p] <= Cardinality(MissedOf(c, p))
    /\ \A h \in Handlers : pc[h] = "writeWeak" =>
        seenMiss[h] <= Cardinality(MissedOf(ChildOf(draft[h]), LessonSound[draft[h].session]))

\* The path of one handler through a step: the attempt in hand stays the same
\* up to the fold, and the fold comes into sight only by inserting the row.
PathOK(h) ==
    /\ pc'[h] \in MissAhead => /\ draft'[h] = draft[h]
                               /\ pc[h] \in MissAhead \cup {"create"}
    /\ pc'[h] \in FoldAhead => pc[h] \in FoldAhead \cup {"create"}
    /\ pc'[h] = "writeMastery" =>
        \/ pc[h] = "writeMastery" /\ seen'[h] = seen[h]
        \/ pc[h] = "readMastery" /\ seen'[h] = mastery[ChildOf(draft[h])][draft[h].word]
    /\ pc'[h] = "writeWeak" =>
        \/ pc[h] = "writeWeak" /\ seenMiss'[h] = seenMiss[h]
        \/ /\ pc[h] = "readWeak"
           /\ seenMiss'[h] = weak[ChildOf(draft[h])][LessonSound[draft[h].session]]

LEMMA PathStep ==
    ASSUME TypeInv, [Next]_vars, NEW g \in Handlers
    PROVE  attempts \subseteq attempts' /\ PathOK(g)
<1> USE DEF FoldAhead, MissAhead
<1>0. HandlerTypes
  BY DEF TypeInv
<1>1. ASSUME NEW h \in Handlers, Advance(h), attempts \subseteq attempts'
      PROVE  attempts \subseteq attempts' /\ PathOK(g)
  BY <1>0, <1>1 DEF Advance, Goto, PathOK, HandlerTypes
<1>2. ASSUME NEW h \in Handlers, NEW step \in {"find", "score", "create", "winner", "reply"},
             Goto(h, step), attempts \subseteq attempts', UNCHANGED <<draft, seen, seenMiss>>
      PROVE  attempts \subseteq attempts' /\ PathOK(g)
  BY <1>0, <1>2 DEF Goto, PathOK, HandlerTypes
<1>3. ASSUME NEW h \in Handlers, Receive(h) \/ PutAudio(h) \/ CreateAttemptError(h)
      PROVE  attempts \subseteq attempts' /\ PathOK(g)
  BY <1>2, <1>3 DEF Receive, PutAudio, CreateAttemptError, tables
<1>4. ASSUME NEW h \in Handlers, FindExisting(h)
      PROVE  attempts \subseteq attempts' /\ PathOK(g)
  BY <1>1, <1>2, <1>4 DEF FindExisting, tables, AnswerWith, AnswerError
<1>5. ASSUME NEW h \in Handlers, ScoreAudio(h)
      PROVE  attempts \subseteq attempts' /\ PathOK(g)
  BY <1>0, <1>5 DEF ScoreAudio, tables, Goto, PathOK, HandlerTypes
<1>6. ASSUME NEW h \in Handlers, CreateAttempt(h)
      PROVE  attempts \subseteq attempts' /\ PathOK(g)
  BY <1>0, <1>6 DEF CreateAttempt, Goto, PathOK, HandlerTypes
<1>7. ASSUME NEW h \in Handlers, FindWinner(h) \/ Reply(h) \/ CallFails(h)
      PROVE  attempts \subseteq attempts' /\ PathOK(g)
  BY <1>1, <1>7 DEF FindWinner, Reply, CallFails, tables, AnswerWith, AnswerError
<1>8. ASSUME NEW h \in Handlers, ReadMastery(h) \/ ReadWeakPhoneme(h)
      PROVE  attempts \subseteq attempts' /\ PathOK(g)
  BY <1>0, <1>8 DEF ReadMastery, ReadWeakPhoneme, tables, Goto, PathOK, HandlerTypes
<1>9. ASSUME NEW h \in Handlers, WriteMastery(h)
      PROVE  attempts \subseteq attempts' /\ PathOK(g)
  <2>1. CASE AnswerError(h)
    BY <1>1, <1>9, <2>1 DEF WriteMastery, AnswerError
  <2>2. CASE /\ Goto(h, IF NeedsBump(draft[h]) THEN "readWeak" ELSE "reply")
             /\ UNCHANGED <<batch, draft, seen, seenMiss, replies>>
    BY <1>0, <1>9, <2>2 DEF WriteMastery, Goto, PathOK, HandlerTypes
  <2>3. QED
    BY <1>9, <2>1, <2>2 DEF WriteMastery
<1>10. ASSUME NEW h \in Handlers, WriteWeakPhoneme(h)
       PROVE  attempts \subseteq attempts' /\ PathOK(g)
  <2>1. CASE AnswerError(h)
    BY <1>1, <1>10, <2>1 DEF WriteWeakPhoneme, AnswerError
  <2>2. CASE Goto(h, "reply") /\ UNCHANGED <<batch, draft, seen, seenMiss, replies>>
    BY <1>2, <1>10, <2>2 DEF WriteWeakPhoneme
  <2>3. QED
    BY <1>10, <2>1, <2>2 DEF WriteWeakPhoneme
<1>11. ASSUME Crash PROVE attempts \subseteq attempts' /\ PathOK(g)
  BY <1>11 DEF Crash, tables, PathOK
<1>12. ASSUME Tick \/ UNCHANGED vars PROVE attempts \subseteq attempts' /\ PathOK(g)
  BY <1>12 DEF Tick, vars, tables, handlerVars, PathOK
<1>13. QED
  BY <1>3, <1>4, <1>5, <1>6, <1>7, <1>8, <1>9, <1>10, <1>11, <1>12
     DEF Next, RecordAttempt, Fault, Rest

LEMMA AttemptsGrow ==
    ASSUME TypeInv, [Next]_vars
    PROVE  attempts \subseteq attempts'
<1>1. CASE Handlers = {}
  BY <1>1 DEF Next, Crash, Tick, Rest, vars, tables
<1>2. CASE Handlers # {}
  BY <1>2, PathStep
<1>3. QED
  BY <1>1, <1>2

\* A settled attempt stays settled.
LEMMA SettledGrows ==
    ASSUME TypeInv, StoreInv, [Next]_vars, NEW ahead \in {FoldAhead, MissAhead}
    PROVE  Settled(ahead) \subseteq Settled(ahead)'
<1>1. attempts \subseteq attempts'
  BY AttemptsGrow
<1>2. ASSUME NEW a \in Settled(ahead), NEW h \in Handlers, pc'[h] \in ahead
      PROVE  draft'[h].id # a.id
  <2>1. draft'[h] = draft[h] /\ pc[h] \in ahead \cup {"create"}
    BY <1>2, PathStep DEF PathOK, FoldAhead, MissAhead
  <2>2. QED
    BY <1>2, <2>1 DEF Settled, StoreInv
<1>3. QED
  BY <1>1, <1>2 DEF Settled

LEMMA SettledFinite ==
    ASSUME StoreInv, NEW S \in SUBSET attempts
    PROVE  IsFiniteSet(S) /\ Cardinality(S) \in Nat
BY FS_Subset, FS_CardinalityType DEF StoreInv

LEMMA FoldedGrows ==
    ASSUME TypeInv, StoreInv, [Next]_vars, NEW c, NEW w
    PROVE  /\ FoldedOf(c, w) \subseteq FoldedOf(c, w)'
           /\ IsFiniteSet(FoldedOf(c, w)')
           /\ Cardinality(FoldedOf(c, w)) <= Cardinality(FoldedOf(c, w)')
           /\ Cardinality(FoldedOf(c, w)) \in Nat
           /\ Cardinality(FoldedOf(c, w)') \in Nat
<1>1. FoldedOf(c, w) \subseteq FoldedOf(c, w)'
  BY SettledGrows DEF FoldedOf, ChildOf
<1>2. StoreInv'
  BY StoreStep
<1>3. FoldedOf(c, w)' \subseteq attempts'
  BY DEF FoldedOf, Settled
<1>4. IsFiniteSet(FoldedOf(c, w)')
  BY <1>2, <1>3, FS_Subset DEF StoreInv
<1>5. QED
  BY <1>1, <1>4, FS_Subset, FS_CardinalityType

LEMMA CountInit == Init => CountInv
<1> SUFFICES ASSUME Init PROVE CountInv
  OBVIOUS
<1>1. \A c, w : FoldedOf(c, w) = {}
  BY DEF Init, FoldedOf, Settled
<1>2. \A c \in Children, w \in Words : mastery[c][w].count = 0
  BY DEF Init, NoRow
<1>3. \A h \in Handlers : pc[h] # "writeMastery"
  BY DEF Init
<1>4. \A c, w : Cardinality(FoldedOf(c, w)) = 0
  BY <1>1, FS_EmptySet
<1>5. QED
  BY <1>2, <1>3, <1>4 DEF CountInv

LEMMA OnlyFoldsChangeMastery ==
    [Next]_vars => UNCHANGED mastery \/ \E h \in Handlers : WriteMastery(h) /\ mastery' # mastery
<1> SUFFICES ASSUME [Next]_vars, mastery' # mastery PROVE \E h \in Handlers : WriteMastery(h)
  OBVIOUS
<1>1. ASSUME NEW h \in Handlers, Receive(h) \/ Fault(h) PROVE FALSE
  BY <1>1 DEF Receive, Fault, CallFails, CreateAttemptError, tables
<1>2. ASSUME NEW h \in Handlers, RecordAttempt(h) PROVE WriteMastery(h)
  BY <1>2 DEF RecordAttempt, FindExisting, ScoreAudio, PutAudio, CreateAttempt, FindWinner,
              ReadMastery, ReadWeakPhoneme, WriteWeakPhoneme, Reply, tables
<1>3. ASSUME Crash \/ Tick \/ Rest \/ UNCHANGED vars PROVE FALSE
  BY <1>3 DEF Crash, Tick, Rest, vars, tables
<1>4. QED
  BY <1>1, <1>2, <1>3 DEF Next

LEMMA CountStep == TypeInv /\ StoreInv /\ CountInv /\ [Next]_vars => CountInv'
<1> SUFFICES ASSUME TypeInv, StoreInv, CountInv, [Next]_vars PROVE CountInv'
  OBVIOUS
<1>0. HandlerTypes /\ TableTypes
  BY DEF TypeInv
\* Rows that do not change stay within what is settled.
<1>1. ASSUME NEW c \in Children, NEW w \in Words, mastery'[c][w] = mastery[c][w]
      PROVE  mastery'[c][w].count <= Cardinality(FoldedOf(c, w)')
  <2>1. mastery[c][w].count \in Nat
    BY <1>0 DEF TableTypes, MasteryRow
  <2>2. mastery[c][w].count <= Cardinality(FoldedOf(c, w))
    BY DEF CountInv
  <2>3. QED
    BY <1>1, <2>1, <2>2, FoldedGrows
\* So do the counts transactions have read.
<1>2. ASSUME NEW h \in Handlers, pc'[h] = "writeMastery", NEW c, NEW w,
             c = ChildOf(draft[h]), w = draft[h].word
      PROVE  seen'[h].count <= Cardinality(FoldedOf(c, w)')
  <2>1. PathOK(h)
    BY PathStep
  <2>2. /\ pc[h] \in {"readMastery", "writeMastery"}
        /\ seen'[h] = IF pc[h] = "readMastery" THEN mastery[c][w] ELSE seen[h]
    BY <1>2, <2>1 DEF PathOK
  <2>3. c \in Children /\ w \in Words
    BY <1>2, <2>2, <1>0, ConstantsAssumption DEF TypeInv, HandlerOK, ChildOf, Attempt
  <2>4. seen'[h].count <= Cardinality(FoldedOf(c, w))
    BY <1>2, <2>2, <2>3 DEF CountInv
  <2>5. seen'[h].count \in Nat
    BY <2>2, <2>3, <1>0 DEF HandlerTypes, TableTypes, MasteryRow
  <2>6. QED
    BY <2>4, <2>5, FoldedGrows
\* The fold counts one attempt more and settles it.
<1>3. ASSUME NEW h \in Handlers, WriteMastery(h), mastery' # mastery
      PROVE  \A c \in Children, w \in Words :
                mastery'[c][w].count <= Cardinality(FoldedOf(c, w)')
  <2>1. PICK a \in attempts : a = draft[h] /\ a \in Attempt
    BY <1>3 DEF WriteMastery, TypeInv, HandlerOK, StoreInv
  <2>2. PICK ch \in Children, wd \in Words : ch = ChildOf(a) /\ wd = a.word
    BY <2>1, ConstantsAssumption DEF Attempt, ChildOf
  <2>3. /\ attempts' = attempts /\ draft' = draft /\ pc[h] = "writeMastery"
        /\ pc' = [pc EXCEPT ![h] = IF NeedsBump(a) THEN "readWeak" ELSE "reply"]
        /\ mastery' = [mastery EXCEPT ![ch][wd] = Folded(seen[h], mastery[ch][wd], a)]
    BY <1>3, <2>1, <2>2 DEF WriteMastery, Goto
  <2>4. a \notin FoldedOf(ch, wd)
    BY <2>1, <2>3 DEF FoldedOf, Settled, FoldAhead
  <2>5. ASSUME NEW g \in Handlers, pc'[g] \in FoldAhead PROVE draft'[g].id # a.id
    <3>1. g # h /\ pc'[g] = pc[g]
      BY <1>0, <2>3, <2>5 DEF FoldAhead, HandlerTypes
    <3>2. QED
      BY <2>1, <2>3, <2>5, <3>1 DEF FoldAhead, StoreInv
  <2>6. a \in FoldedOf(ch, wd)'
    BY <2>1, <2>2, <2>3, <2>5 DEF FoldedOf, Settled, ChildOf
  <2>7. Cardinality(FoldedOf(ch, wd)) + 1 <= Cardinality(FoldedOf(ch, wd)')
    <3>1. FoldedOf(ch, wd) \subseteq attempts
      BY DEF FoldedOf, Settled
    <3>2. IsFiniteSet(FoldedOf(ch, wd))
      BY <3>1, SettledFinite
    <3>3. Cardinality(FoldedOf(ch, wd) \cup {a}) = Cardinality(FoldedOf(ch, wd)) + 1
      BY <2>4, <3>2, FS_AddElement
    <3>4. FoldedOf(ch, wd) \cup {a} \subseteq FoldedOf(ch, wd)' /\ IsFiniteSet(FoldedOf(ch, wd)')
      BY <2>6, FoldedGrows
    <3>5. Cardinality(FoldedOf(ch, wd) \cup {a}) <= Cardinality(FoldedOf(ch, wd)')
      BY <3>4, FS_Subset
    <3>6. QED
      BY <3>3, <3>5
  <2>8. mastery'[ch][wd].count = seen[h].count + 1
    BY <1>0, <2>2, <2>3 DEF TableTypes, Folded
  <2>9. seen[h].count <= Cardinality(FoldedOf(ch, wd)) /\ seen[h].count \in Nat
    BY <1>0, <2>1, <2>2, <2>3 DEF CountInv, HandlerTypes, MasteryRow
  <2>10. mastery'[ch][wd].count <= Cardinality(FoldedOf(ch, wd)')
    BY <2>7, <2>8, <2>9, FoldedGrows
  <2>11. ASSUME NEW c \in Children, NEW w \in Words, c # ch \/ w # wd
         PROVE  mastery'[c][w] = mastery[c][w]
    BY <1>0, <2>2, <2>3, <2>11 DEF TableTypes
  <2>12. QED
    BY <1>1, <2>10, <2>11
<1>4. \A c \in Children, w \in Words : mastery'[c][w].count <= Cardinality(FoldedOf(c, w)')
  <2>1. CASE UNCHANGED mastery
    BY <1>1, <2>1
  <2>2. CASE \E h \in Handlers : WriteMastery(h) /\ mastery' # mastery
    BY <1>3, <2>2
  <2>3. QED
    BY <2>1, <2>2, OnlyFoldsChangeMastery
<1>5. ASSUME NEW h \in Handlers, pc'[h] = "writeMastery"
      PROVE  seen'[h].count <= Cardinality(FoldedOf(ChildOf(draft[h]), draft[h].word)')
  <2>1. draft'[h] = draft[h]
    BY <1>5, PathStep DEF PathOK, MissAhead, FoldAhead
  <2>2. PICK c, w : c = ChildOf(draft[h]) /\ w = draft[h].word
    OBVIOUS
  <2>3. FoldedOf(ChildOf(draft[h]), draft[h].word)' = FoldedOf(c, w)'
    BY <2>1, <2>2 DEF FoldedOf, ChildOf
  <2>4. QED
    BY <1>2, <1>5, <2>2, <2>3
<1>6. QED
  BY <1>4, <1>5 DEF CountInv

\* No retry, race, crash or stale read counts an attempt twice: the
\* attempt_count of a word never exceeds the attempts stored for it.
THEOREM NoDoubleCounting == Spec => []CountBacked
<1>1. StoreInv /\ TypeInv /\ CountInv => CountBacked
  <2> SUFFICES ASSUME StoreInv, TypeInv, CountInv, NEW c \in Children, NEW w \in Words
               PROVE  mastery[c][w].count <= Cardinality(Of(c, w))
    BY DEF CountBacked
  <2>1. FoldedOf(c, w) \subseteq Of(c, w) /\ Of(c, w) \subseteq attempts
    BY DEF FoldedOf, Settled, Of
  <2>2. IsFiniteSet(Of(c, w)) /\ Cardinality(Of(c, w)) \in Nat
    BY <2>1, SettledFinite
  <2>3. Cardinality(FoldedOf(c, w)) <= Cardinality(Of(c, w)) /\ Cardinality(FoldedOf(c, w)) \in Nat
    BY <2>1, <2>2, FS_Subset, FS_CardinalityType
  <2>4. mastery[c][w].count <= Cardinality(FoldedOf(c, w)) /\ mastery[c][w].count \in Nat
    BY DEF CountInv, TypeInv, TableTypes, MasteryRow
  <2>5. QED
    BY <2>2, <2>3, <2>4
<1>2. QED
  BY TypeInit, TypeStep, StoreInit, StoreStep, CountInit, CountStep, <1>1, PTL DEF Spec

(***************************************************************************)
(* The same argument for the misses of a sound, which stay ahead longer.   *)
(***************************************************************************)

LEMMA MissedGrows ==
    ASSUME TypeInv, StoreInv, [Next]_vars, NEW c, NEW p
    PROVE  /\ MissedOf(c, p) \subseteq MissedOf(c, p)'
           /\ IsFiniteSet(MissedOf(c, p)')
           /\ Cardinality(MissedOf(c, p)) <= Cardinality(MissedOf(c, p)')
           /\ Cardinality(MissedOf(c, p)) \in Nat
           /\ Cardinality(MissedOf(c, p)') \in Nat
<1>1. MissedOf(c, p) \subseteq MissedOf(c, p)'
  BY SettledGrows DEF MissedOf, ChildOf
<1>2. StoreInv'
  BY StoreStep
<1>3. MissedOf(c, p)' \subseteq attempts'
  BY DEF MissedOf, Settled
<1>4. IsFiniteSet(MissedOf(c, p)')
  BY <1>2, <1>3, FS_Subset DEF StoreInv
<1>5. QED
  BY <1>1, <1>4, FS_Subset, FS_CardinalityType

LEMMA MissInit == Init => MissInv
<1> SUFFICES ASSUME Init PROVE MissInv
  OBVIOUS
<1>1. \A c, p : MissedOf(c, p) = {}
  BY DEF Init, MissedOf, Settled
<1>2. \A c \in Children, p \in Phonemes : weak[c][p] = 0
  BY DEF Init
<1>3. \A h \in Handlers : pc[h] # "writeWeak"
  BY DEF Init
<1>4. \A c, p : Cardinality(MissedOf(c, p)) = 0
  BY <1>1, FS_EmptySet
<1>5. QED
  BY <1>2, <1>3, <1>4 DEF MissInv

LEMMA OnlyBumpsChangeWeak ==
    [Next]_vars => UNCHANGED weak \/ \E h \in Handlers : WriteWeakPhoneme(h) /\ weak' # weak
<1> SUFFICES ASSUME [Next]_vars, weak' # weak PROVE \E h \in Handlers : WriteWeakPhoneme(h)
  OBVIOUS
<1>1. ASSUME NEW h \in Handlers, Receive(h) \/ Fault(h) PROVE FALSE
  BY <1>1 DEF Receive, Fault, CallFails, CreateAttemptError, tables
<1>2. ASSUME NEW h \in Handlers, RecordAttempt(h) PROVE WriteWeakPhoneme(h)
  BY <1>2 DEF RecordAttempt, FindExisting, ScoreAudio, PutAudio, CreateAttempt, FindWinner,
              ReadMastery, WriteMastery, ReadWeakPhoneme, Reply, tables
<1>3. ASSUME Crash \/ Tick \/ Rest \/ UNCHANGED vars PROVE FALSE
  BY <1>3 DEF Crash, Tick, Rest, vars, tables
<1>4. QED
  BY <1>1, <1>2, <1>3 DEF Next

LEMMA MissStep == TypeInv /\ StoreInv /\ MissInv /\ [Next]_vars => MissInv'
<1> SUFFICES ASSUME TypeInv, StoreInv, MissInv, [Next]_vars PROVE MissInv'
  OBVIOUS
<1>0. HandlerTypes /\ TableTypes
  BY DEF TypeInv
<1>1. ASSUME NEW c \in Children, NEW p \in Phonemes, weak'[c][p] = weak[c][p]
      PROVE  weak'[c][p] <= Cardinality(MissedOf(c, p)')
  <2>1. weak[c][p] \in Nat
    BY <1>0 DEF TableTypes
  <2>2. weak[c][p] <= Cardinality(MissedOf(c, p))
    BY DEF MissInv
  <2>3. QED
    BY <1>1, <2>1, <2>2, MissedGrows
<1>2. ASSUME NEW h \in Handlers, pc'[h] = "writeWeak", NEW c, NEW p,
             c = ChildOf(draft[h]), p = LessonSound[draft[h].session]
      PROVE  seenMiss'[h] <= Cardinality(MissedOf(c, p)')
  <2>1. PathOK(h)
    BY PathStep
  <2>2. /\ pc[h] \in {"readWeak", "writeWeak"}
        /\ seenMiss'[h] = IF pc[h] = "readWeak" THEN weak[c][p] ELSE seenMiss[h]
    BY <1>2, <2>1 DEF PathOK
  <2>3. c \in Children /\ p \in Phonemes
    BY <1>2, <2>2, <1>0, ConstantsAssumption
       DEF TypeInv, HandlerOK, ChildOf, Attempt, NeedsBump
  <2>4. seenMiss'[h] <= Cardinality(MissedOf(c, p))
    BY <1>2, <2>2, <2>3 DEF MissInv
  <2>5. seenMiss'[h] \in Nat
    BY <2>2, <2>3, <1>0 DEF HandlerTypes, TableTypes
  <2>6. QED
    BY <2>4, <2>5, MissedGrows
<1>3. ASSUME NEW h \in Handlers, WriteWeakPhoneme(h), weak' # weak
      PROVE  \A c \in Children, p \in Phonemes :
                weak'[c][p] <= Cardinality(MissedOf(c, p)')
  <2>1. PICK a \in attempts : a = draft[h] /\ a \in Attempt /\ NeedsBump(a)
    BY <1>3 DEF WriteWeakPhoneme, TypeInv, HandlerOK, StoreInv
  <2>2. PICK ch \in Children, ph \in Phonemes : ch = ChildOf(a) /\ ph = LessonSound[a.session]
    BY <2>1, ConstantsAssumption DEF Attempt, ChildOf, NeedsBump
  <2>3. /\ attempts' = attempts /\ draft' = draft /\ pc[h] = "writeWeak"
        /\ pc' = [pc EXCEPT ![h] = "reply"]
        /\ weak' = [weak EXCEPT ![ch][ph] = seenMiss[h] + 1]
    BY <1>3, <2>1, <2>2 DEF WriteWeakPhoneme, Goto
  <2>4. a \notin MissedOf(ch, ph)
    BY <2>1, <2>3 DEF MissedOf, Settled, MissAhead
  <2>5. ASSUME NEW g \in Handlers, pc'[g] \in MissAhead PROVE draft'[g].id # a.id
    <3>1. g # h /\ pc'[g] = pc[g]
      BY <1>0, <2>3, <2>5 DEF FoldAhead, MissAhead, HandlerTypes
    <3>2. QED
      BY <2>1, <2>3, <2>5, <3>1 DEF FoldAhead, MissAhead, StoreInv
  <2>6. a \in MissedOf(ch, ph)'
    BY <2>1, <2>2, <2>3, <2>5 DEF MissedOf, Settled, ChildOf, NeedsBump
  <2>7. Cardinality(MissedOf(ch, ph)) + 1 <= Cardinality(MissedOf(ch, ph)')
    <3>1. MissedOf(ch, ph) \subseteq attempts
      BY DEF MissedOf, Settled
    <3>2. IsFiniteSet(MissedOf(ch, ph))
      BY <3>1, SettledFinite
    <3>3. Cardinality(MissedOf(ch, ph) \cup {a}) = Cardinality(MissedOf(ch, ph)) + 1
      BY <2>4, <3>2, FS_AddElement
    <3>4. MissedOf(ch, ph) \cup {a} \subseteq MissedOf(ch, ph)' /\ IsFiniteSet(MissedOf(ch, ph)')
      BY <2>6, MissedGrows
    <3>5. Cardinality(MissedOf(ch, ph) \cup {a}) <= Cardinality(MissedOf(ch, ph)')
      BY <3>4, FS_Subset
    <3>6. QED
      BY <3>3, <3>5
  <2>8. weak'[ch][ph] = seenMiss[h] + 1
    BY <1>0, <2>2, <2>3 DEF TableTypes
  <2>9. seenMiss[h] <= Cardinality(MissedOf(ch, ph)) /\ seenMiss[h] \in Nat
    BY <1>0, <2>1, <2>2, <2>3 DEF MissInv, HandlerTypes
  <2>10. weak'[ch][ph] <= Cardinality(MissedOf(ch, ph)')
    BY <2>7, <2>8, <2>9, MissedGrows
  <2>11. ASSUME NEW c \in Children, NEW p \in Phonemes, c # ch \/ p # ph
         PROVE  weak'[c][p] = weak[c][p]
    BY <1>0, <2>2, <2>3, <2>11 DEF TableTypes
  <2>12. QED
    BY <1>1, <2>10, <2>11
<1>4. \A c \in Children, p \in Phonemes : weak'[c][p] <= Cardinality(MissedOf(c, p)')
  <2>1. CASE UNCHANGED weak
    BY <1>1, <2>1
  <2>2. CASE \E h \in Handlers : WriteWeakPhoneme(h) /\ weak' # weak
    BY <1>3, <2>2
  <2>3. QED
    BY <2>1, <2>2, OnlyBumpsChangeWeak
<1>5. ASSUME NEW h \in Handlers, pc'[h] = "writeWeak"
      PROVE  seenMiss'[h] <= Cardinality(
                MissedOf(ChildOf(draft[h]), LessonSound[draft[h].session])')
  <2>1. draft'[h] = draft[h]
    BY <1>5, PathStep DEF PathOK, MissAhead, FoldAhead
  <2>2. PICK c, p : c = ChildOf(draft[h]) /\ p = LessonSound[draft[h].session]
    OBVIOUS
  <2>3. MissedOf(ChildOf(draft[h]), LessonSound[draft[h].session])' = MissedOf(c, p)'
    BY <2>1, <2>2 DEF MissedOf, ChildOf
  <2>4. QED
    BY <1>2, <1>5, <2>2, <2>3
<1>6. QED
  BY <1>4, <1>5 DEF MissInv

\* The miss_count of a sound never exceeds the low-scoring attempts stored in
\* lessons with that sound.
THEOREM MissesAreBacked == Spec => []MissesBacked
<1>1. StoreInv /\ TypeInv /\ MissInv => MissesBacked
  <2> SUFFICES ASSUME StoreInv, TypeInv, MissInv, NEW c \in Children, NEW p \in Phonemes
               PROVE  weak[c][p] <= Cardinality({a \in attempts :
                        /\ ChildOf(a) = c
                        /\ LessonSound[a.session] = p
                        /\ a.score < WeakThreshold})
    BY DEF MissesBacked
  <2> DEFINE low == {a \in attempts : /\ ChildOf(a) = c
                                      /\ LessonSound[a.session] = p
                                      /\ a.score < WeakThreshold}
  <2>1. MissedOf(c, p) \subseteq low /\ low \subseteq attempts
    BY DEF MissedOf, Settled
  <2>2. IsFiniteSet(low) /\ Cardinality(low) \in Nat
    BY <2>1, SettledFinite
  <2>3. Cardinality(MissedOf(c, p)) <= Cardinality(low) /\ Cardinality(MissedOf(c, p)) \in Nat
    BY <2>1, <2>2, FS_Subset, FS_CardinalityType
  <2>4. weak[c][p] <= Cardinality(MissedOf(c, p)) /\ weak[c][p] \in Nat
    BY DEF MissInv, TypeInv, TableTypes
  <2>5. QED
    BY <2>2, <2>3, <2>4
<1>2. QED
  BY TypeInit, TypeStep, StoreInit, StoreStep, MissInit, MissStep, <1>1, PTL DEF Spec

\* Neither counter of the mastery graph ever exceeds the attempts behind it.
THEOREM FoldsAreBacked == Spec => []FoldsBacked
BY NoDoubleCounting, MissesAreBacked, PTL DEF FoldsBacked

(***************************************************************************)
(* Mastery.                                                                *)
(***************************************************************************)

\* The only way a mastery row changes: one handler folds its stored attempt.
LEMMA FoldStep ==
    ASSUME TypeInv, StoreInv, [Next]_vars, mastery' # mastery
    PROVE  \E h \in Handlers, a \in attempts, c \in Children, w \in Words :
                /\ a \in Attempt /\ a = draft[h] /\ c = ChildOf(a) /\ w = a.word
                /\ attempts' = attempts
                /\ mastery' = [mastery EXCEPT ![c][w] = Folded(seen[h], mastery[c][w], a)]
<1>1. PICK h \in Handlers : WriteMastery(h) /\ mastery' # mastery
  BY OnlyFoldsChangeMastery
<1>2. PICK a \in attempts : a = draft[h] /\ a \in Attempt
  BY <1>1 DEF WriteMastery, TypeInv, HandlerOK, StoreInv
<1>3. PICK c \in Children, w \in Words : c = ChildOf(a) /\ w = a.word
  BY <1>2, ConstantsAssumption DEF Attempt, ChildOf
<1>4. /\ attempts' = attempts
      /\ mastery' = [mastery EXCEPT ![c][w] = Folded(seen[h], mastery[c][w], a)]
  BY <1>1, <1>2, <1>3 DEF WriteMastery
<1>5. QED
  BY <1>2, <1>3, <1>4

\* The same fold, seen from one row.
LEMMA FirstMastered ==
    ASSUME TypeInv, StoreInv, [Next]_vars, NEW c \in Children, NEW w \in Words,
           mastery'[c][w].first # mastery[c][w].first
    PROVE  \E a \in attempts : /\ ChildOf(a) = c /\ a.word = w
                               /\ a.score >= MasteryThreshold
                               /\ mastery'[c][w].first = a.at
                               /\ a.at # Never
                               /\ attempts' = attempts
<1>1. PICK h \in Handlers, a \in attempts, d \in Children, v \in Words :
                /\ a \in Attempt /\ a = draft[h] /\ d = ChildOf(a) /\ v = a.word
                /\ attempts' = attempts
                /\ mastery' = [mastery EXCEPT ![d][v] = Folded(seen[h], mastery[d][v], a)]
  BY FoldStep
<1>2. c = d /\ w = v
  BY <1>1 DEF TypeInv, TableTypes
<1>3. mastery'[c][w] = Folded(seen[h], mastery[c][w], a)
  BY <1>1, <1>2 DEF TypeInv, TableTypes
<1>4. a.score >= MasteryThreshold /\ mastery'[c][w].first = a.at
  BY <1>3 DEF Folded
<1>5. a.at # Never
  BY <1>1 DEF Attempt, Never
<1>6. QED
  BY <1>1, <1>2, <1>4, <1>5

LEMMA MasteredInit == Init => MasteredIsEarned
BY DEF Init, MasteredIsEarned, NoRow

LEMMA MasteredStep == TypeInv /\ StoreInv /\ MasteredIsEarned /\ [Next]_vars => MasteredIsEarned'
<1> SUFFICES ASSUME TypeInv, StoreInv, MasteredIsEarned, [Next]_vars,
                    NEW c \in Children, NEW w \in Words, mastery'[c][w].first # Never
             PROVE  \E a \in attempts' : /\ ChildOf(a) = c /\ a.word = w
                                         /\ a.score >= MasteryThreshold
                                         /\ a.at = mastery'[c][w].first
  BY DEF MasteredIsEarned, Of, ChildOf
<1>1. CASE mastery'[c][w].first = mastery[c][w].first
  <2>1. attempts \subseteq attempts'
    BY AttemptsGrow
  <2>2. QED
    BY <1>1, <2>1 DEF MasteredIsEarned, Of
<1>2. CASE mastery'[c][w].first # mastery[c][w].first
  BY <1>2, FirstMastered
<1>3. QED
  BY <1>1, <1>2

\* A mastered word is backed by a stored attempt that reached the threshold.
THEOREM MasteryIsEarned == Spec => []MasteredIsEarned
BY TypeInit, TypeStep, StoreInit, StoreStep, MasteredInit, MasteredStep, PTL DEF Spec

\* No step, whatever stale row its transaction read, takes a mastered word back.
THEOREM MasteryIsOneWay == Spec => MasteredStays
<1>1. TypeInv /\ StoreInv /\ [Next]_vars =>
        [\A c \in Children, w \in Words :
            mastery[c][w].first # Never => mastery'[c][w].first # Never]_vars
  BY FirstMastered
<1>2. QED
  BY TypeInit, TypeStep, StoreInit, StoreStep, <1>1, PTL DEF Spec, MasteredStays

(***************************************************************************)
(* A lone attempt.  Without faults the one stored attempt of a word has    *)
(* been folded into a fresh row, or the handler that stored it is on its   *)
(* way to do so, having found no row.                                      *)
(***************************************************************************)
Lone(h) == Of(ChildOf(draft[h]), draft[h].word) = {draft[h]}

LoneInv ==
    faults = 0 =>
        /\ \A c \in Children, w \in Words : Of(c, w) = {} => mastery[c][w] = NoRow
        /\ \A c \in Children, w \in Words, a \in attempts : Of(c, w) = {a} =>
              \/ mastery[c][w] = Folded(NoRow, NoRow, a)
              \/ \E h \in Handlers : pc[h] \in FoldAhead /\ draft[h] = a
        /\ \A h \in Handlers : pc[h] \in FoldAhead /\ Lone(h) =>
              /\ mastery[ChildOf(draft[h])][draft[h].word] = NoRow
              /\ pc[h] = "writeMastery" => seen[h] = NoRow

LEMMA LoneInit == Init => LoneInv
BY DEF Init, LoneInv, FoldAhead, Of

\* Nothing happens to the attempts that are about to be folded.
FoldsWait ==
    /\ UNCHANGED <<attempts, mastery>>
    /\ \A g \in Handlers :
        /\ pc'[g] \in FoldAhead <=> pc[g] \in FoldAhead
        /\ pc[g] \in FoldAhead => pc'[g] = pc[g] /\ draft'[g] = draft[g] /\ seen'[g] = seen[g]

\* A handler stores its attempt, and is to fold it.
InsertsDraft(h) ==
    /\ pc[h] = "create" /\ WithKey(draft[h].session, draft[h].key) = {}
    /\ attempts' = attempts \cup {draft[h]} /\ Goto(h, "readMastery")
    /\ UNCHANGED <<mastery, draft, seen>>

LEMMA FoldEvents ==
    ASSUME TypeInv, [Next]_vars, faults' = 0
    PROVE  \/ FoldsWait
           \/ \E h \in Handlers : InsertsDraft(h) \/ ReadMastery(h) \/ WriteMastery(h)
<1> USE DEF FoldAhead
<1>0. HandlerTypes /\ faults \in Nat
  BY DEF TypeInv, OtherTypes
<1>1. ASSUME NEW h \in Handlers, pc[h] \notin FoldAhead, Advance(h), UNCHANGED <<attempts, mastery>>
      PROVE  FoldsWait
  BY <1>0, <1>1 DEF Advance, Goto, FoldsWait, HandlerTypes
<1>2. ASSUME NEW h \in Handlers, pc[h] \notin FoldAhead, NEW step \in Steps \ FoldAhead,
             Goto(h, step), UNCHANGED <<attempts, mastery, seen>>,
             \A g \in Handlers : g # h => draft'[g] = draft[g]
      PROVE  FoldsWait
  BY <1>0, <1>2 DEF Goto, FoldsWait, HandlerTypes
<1>3. ASSUME NEW h \in Handlers, Receive(h) \/ PutAudio(h) PROVE FoldsWait
  BY <1>2, <1>3 DEF Receive, PutAudio, tables
<1>4. ASSUME NEW h \in Handlers, FindExisting(h) PROVE FoldsWait
  BY <1>1, <1>2, <1>4 DEF FindExisting, tables, AnswerWith, AnswerError
<1>5. ASSUME NEW h \in Handlers, ScoreAudio(h) PROVE FoldsWait
  <2>1. \A g \in Handlers : g # h => draft'[g] = draft[g]
    BY <1>0, <1>5 DEF ScoreAudio, HandlerTypes
  <2>2. /\ pc[h] = "score" /\ Goto(h, "put") /\ UNCHANGED <<attempts, mastery, seen>>
    BY <1>5 DEF ScoreAudio, tables
  <2> QED BY <1>2, <2>1, <2>2
<1>6. ASSUME NEW h \in Handlers, CreateAttempt(h) PROVE FoldsWait \/ InsertsDraft(h)
  BY <1>2, <1>6 DEF CreateAttempt, InsertsDraft
<1>7. ASSUME NEW h \in Handlers, FindWinner(h) \/ Reply(h) PROVE FoldsWait
  BY <1>1, <1>7 DEF FindWinner, Reply, tables, AnswerWith, AnswerError
<1>8. ASSUME NEW h \in Handlers, ReadWeakPhoneme(h) PROVE FoldsWait
  BY <1>2, <1>8 DEF ReadWeakPhoneme, tables
<1>9. ASSUME NEW h \in Handlers, WriteWeakPhoneme(h) PROVE FoldsWait
  <2>1. CASE AnswerError(h)
    BY <1>1, <1>9, <2>1 DEF WriteWeakPhoneme, AnswerError
  <2>2. CASE Goto(h, "reply") /\ UNCHANGED <<batch, draft, seen, seenMiss, replies>>
    BY <1>2, <1>9, <2>2 DEF WriteWeakPhoneme
  <2> QED BY <1>9, <2>1, <2>2 DEF WriteWeakPhoneme
<1>10. ASSUME Tick \/ UNCHANGED vars PROVE FoldsWait
  BY <1>10 DEF Tick, vars, tables, handlerVars, FoldsWait
<1>11. ~Crash /\ \A h \in Handlers : ~Fault(h)
  BY <1>0 DEF Crash, Fault, CallFails, CreateAttemptError
<1> QED
  BY <1>3, <1>4, <1>5, <1>6, <1>7, <1>8, <1>9, <1>10, <1>11 DEF Next, RecordAttempt, Rest

LEMMA FaultsStay == TypeInv /\ [Next]_vars /\ faults' = 0 => faults = 0
<1> SUFFICES ASSUME TypeInv, [Next]_vars, faults' = 0 PROVE faults = 0
  OBVIOUS
<1>1. faults \in Nat
  BY DEF TypeInv, OtherTypes
<1>2. ASSUME NEW h \in Handlers, Receive(h) PROVE faults = 0
  BY <1>2 DEF Receive
<1>3. ASSUME NEW h \in Handlers, RecordAttempt(h) PROVE faults = 0
  <2>1. CASE FindExisting(h) \/ ScoreAudio(h) \/ PutAudio(h)
    BY <2>1 DEF FindExisting, ScoreAudio, PutAudio
  <2>2. CASE CreateAttempt(h) \/ FindWinner(h) \/ ReadMastery(h) \/ WriteMastery(h)
    BY <2>2 DEF CreateAttempt, FindWinner, ReadMastery, WriteMastery
  <2>3. CASE ReadWeakPhoneme(h) \/ WriteWeakPhoneme(h) \/ Reply(h)
    BY <2>3 DEF ReadWeakPhoneme, WriteWeakPhoneme, Reply
  <2> QED BY <1>3, <2>1, <2>2, <2>3 DEF RecordAttempt
<1>4. ASSUME NEW h \in Handlers, Fault(h) PROVE FALSE
  BY <1>1, <1>4 DEF Fault, CallFails, CreateAttemptError
<1>5. ~Crash
  BY <1>1 DEF Crash
<1>6. ASSUME Tick \/ Rest \/ UNCHANGED vars PROVE faults = 0
  BY <1>6 DEF Tick, Rest, vars
<1> QED BY <1>2, <1>3, <1>4, <1>5, <1>6 DEF Next

LEMMA LoneStep == TypeInv /\ StoreInv /\ LoneInv /\ [Next]_vars => LoneInv'
<1> SUFFICES ASSUME TypeInv, StoreInv, LoneInv, [Next]_vars, faults' = 0 PROVE LoneInv'
  BY DEF LoneInv
<1>1. HandlerTypes /\ TableTypes
  BY DEF TypeInv
<1>2. /\ \A c \in Children, w \in Words : Of(c, w) = {} => mastery[c][w] = NoRow
      /\ \A c \in Children, w \in Words, a \in attempts : Of(c, w) = {a} =>
            \/ mastery[c][w] = Folded(NoRow, NoRow, a)
            \/ \E h \in Handlers : pc[h] \in FoldAhead /\ draft[h] = a
      /\ \A h \in Handlers : pc[h] \in FoldAhead /\ Lone(h) =>
            /\ mastery[ChildOf(draft[h])][draft[h].word] = NoRow
            /\ pc[h] = "writeMastery" => seen[h] = NoRow
  BY FaultsStay DEF LoneInv
<1>3. ASSUME NEW h \in Handlers, pc[h] \in FoldAhead \cup {"create"}
      PROVE  draft[h] \in Attempt /\ ChildOf(draft[h]) \in Children /\ draft[h].word \in Words
  BY <1>3, ConstantsAssumption DEF FoldAhead, TypeInv, HandlerOK, Attempt, ChildOf
<1>4. ASSUME NEW h \in Handlers, pc[h] \in FoldAhead
      PROVE  draft[h] \in attempts /\ draft[h] \in Of(ChildOf(draft[h]), draft[h].word)
  BY <1>4 DEF FoldAhead, StoreInv, Of
<1>5. ASSUME UNCHANGED <<attempts, mastery>>,
             \A g \in Handlers :
                /\ pc'[g] \in FoldAhead <=> pc[g] \in FoldAhead
                /\ pc[g] \in FoldAhead => draft'[g] = draft[g],
             \A g \in Handlers : pc'[g] = "writeMastery" /\ Lone(g) => seen'[g] = NoRow
      PROVE  LoneInv'
  <2>1. \A c, w : Of(c, w)' = Of(c, w)
    BY <1>5 DEF Of, ChildOf
  <2>2. \A g \in Handlers : pc'[g] \in FoldAhead /\ Lone(g)' => pc[g] \in FoldAhead /\ Lone(g)
    BY <1>5, <2>1 DEF Lone, ChildOf
  <2>3. \A g \in Handlers : pc'[g] \in FoldAhead /\ Lone(g)' =>
            /\ mastery'[ChildOf(draft[g])][draft'[g].word] = NoRow
            /\ pc'[g] = "writeMastery" => seen'[g] = NoRow
    BY <1>2, <1>5, <2>2
  <2>4. \A c \in Children, w \in Words, a \in attempts' : Of(c, w)' = {a} =>
            \/ mastery'[c][w] = Folded(NoRow, NoRow, a)
            \/ \E h \in Handlers : pc'[h] \in FoldAhead /\ draft'[h] = a
    BY <1>2, <1>5, <2>1
  <2>5. \A g \in Handlers : pc'[g] \in FoldAhead /\ Lone(g)' =>
            ChildOf(draft'[g]) = ChildOf(draft[g])
    BY <1>5, <2>2 DEF ChildOf
  <2> QED BY <1>2, <1>5, <2>1, <2>3, <2>4, <2>5 DEF LoneInv, ChildOf
<1>6. CASE FoldsWait
  <2>1. ASSUME NEW g \in Handlers, pc'[g] = "writeMastery", Lone(g) PROVE seen'[g] = NoRow
    <3>1. pc[g] = "writeMastery" /\ seen'[g] = seen[g]
      BY <1>6, <2>1 DEF FoldsWait, FoldAhead
    <3> QED BY <1>2, <2>1, <3>1 DEF FoldAhead
  <2> QED BY <1>5, <1>6, <2>1 DEF FoldsWait
<1>7. ASSUME NEW h \in Handlers, ReadMastery(h) PROVE LoneInv'
  <2>1. /\ UNCHANGED <<attempts, mastery, draft>> /\ pc[h] = "readMastery"
        /\ pc' = [pc EXCEPT ![h] = "writeMastery"]
        /\ seen'[h] = mastery[ChildOf(draft[h])][draft[h].word]
        /\ \A g \in Handlers : g # h => seen'[g] = seen[g] /\ pc'[g] = pc[g]
    BY <1>1, <1>7 DEF ReadMastery, Goto, HandlerTypes, tables
  <2>2. \A g \in Handlers : pc'[g] \in FoldAhead <=> pc[g] \in FoldAhead
    BY <1>1, <2>1 DEF FoldAhead, HandlerTypes
  <2>3. ASSUME NEW g \in Handlers, pc'[g] = "writeMastery", Lone(g) PROVE seen'[g] = NoRow
    BY <1>2, <2>1, <2>3 DEF FoldAhead
  <2> QED BY <1>5, <2>1, <2>2, <2>3
<1>8. ASSUME NEW h \in Handlers, InsertsDraft(h) PROVE LoneInv'
  <2>1. /\ attempts' = attempts \cup {draft[h]} /\ draft[h] \notin attempts
        /\ UNCHANGED <<mastery, draft, seen>> /\ pc[h] = "create"
        /\ pc'[h] = "readMastery" /\ \A g \in Handlers : g # h => pc'[g] = pc[g]
    BY <1>1, <1>8 DEF InsertsDraft, Goto, HandlerTypes, WithKey
  <2>2. PICK c0 \in Children, w0 \in Words : c0 = ChildOf(draft[h]) /\ w0 = draft[h].word
    BY <1>3, <2>1
  <2>3. \A c, w : IF c = c0 /\ w = w0 THEN Of(c, w)' = Of(c, w) \cup {draft[h]}
                                      ELSE Of(c, w)' = Of(c, w)
    BY <2>1, <2>2 DEF Of, ChildOf
  <2>4. draft[h] \notin Of(c0, w0)
    BY <2>1 DEF Of
  <2>5. \A c \in Children, w \in Words : Of(c, w)' = {} => mastery'[c][w] = NoRow
    BY <1>2, <2>1, <2>3
  <2>6. ASSUME NEW c \in Children, NEW w \in Words, NEW a \in attempts', Of(c, w)' = {a}
        PROVE  \/ mastery'[c][w] = Folded(NoRow, NoRow, a)
               \/ \E g \in Handlers : pc'[g] \in FoldAhead /\ draft'[g] = a
    <3>1. CASE c = c0 /\ w = w0
      BY <2>1, <2>3, <2>6, <3>1 DEF FoldAhead
    <3>2. CASE ~(c = c0 /\ w = w0)
      <4>1. Of(c, w) = {a} /\ a \in attempts
        BY <2>3, <2>6, <3>2 DEF Of
      <4>2. CASE mastery[c][w] = Folded(NoRow, NoRow, a)
        BY <2>1, <4>2
      <4>3. ASSUME NEW g \in Handlers, pc[g] \in FoldAhead, draft[g] = a
            PROVE  pc'[g] \in FoldAhead /\ draft'[g] = a
        BY <2>1, <4>3 DEF FoldAhead
      <4> QED BY <1>2, <4>1, <4>2, <4>3
    <3> QED BY <3>1, <3>2
  <2>7. ASSUME NEW g \in Handlers, pc'[g] \in FoldAhead, Lone(g)'
        PROVE  /\ mastery'[ChildOf(draft[g])][draft[g].word] = NoRow
               /\ pc'[g] = "writeMastery" => seen'[g] = NoRow
    <3>1. CASE g = h
      <4>1. Of(c0, w0) = {}
        BY <2>1, <2>2, <2>3, <2>4, <2>7, <3>1 DEF Lone, ChildOf
      <4> QED BY <1>2, <2>1, <2>2, <3>1, <4>1
    <3>2. CASE g # h
      <4>1. pc[g] \in FoldAhead /\ draft[g] \in attempts
        BY <1>4, <2>1, <2>7, <3>2
      <4>2. Of(ChildOf(draft[g]), draft[g].word) \subseteq {draft[g]}
        BY <2>1, <2>3, <2>7 DEF Lone, ChildOf
      <4>3. Lone(g)
        BY <1>4, <4>1, <4>2 DEF Lone
      <4> QED BY <1>2, <2>1, <2>7, <3>2, <4>1, <4>3
    <3> QED BY <3>1, <3>2
  <2> QED BY <2>1, <2>5, <2>6, <2>7 DEF LoneInv, ChildOf
<1>9. ASSUME NEW h \in Handlers, WriteMastery(h) PROVE LoneInv'
  <2>1. pc[h] = "writeMastery" /\ UNCHANGED attempts /\ pc[h] \in FoldAhead
    BY <1>9 DEF WriteMastery, FoldAhead
  <2>2. PICK a0 \in attempts, c0 \in Children, w0 \in Words :
              a0 = draft[h] /\ c0 = ChildOf(a0) /\ w0 = a0.word
    BY <1>3, <1>4, <2>1
  <2>3. \A c, w : Of(c, w)' = Of(c, w)
    BY <2>1 DEF Of, ChildOf
  <2>4. /\ pc'[h] \notin FoldAhead
        /\ \A g \in Handlers : g # h => pc'[g] = pc[g] /\ draft'[g] = draft[g] /\ seen'[g] = seen[g]
    BY <1>1, <1>9 DEF WriteMastery, AnswerError, Advance, Goto, FoldAhead, HandlerTypes
  <2>5. \A c \in Children, w \in Words : ~(c = c0 /\ w = w0) => mastery'[c][w] = mastery[c][w]
    <3>1. \/ UNCHANGED mastery
          \/ \E row : mastery' = [mastery EXCEPT ![c0][w0] = row]
      BY <1>9, <2>2 DEF WriteMastery
    <3>2. ASSUME NEW row, mastery' = [mastery EXCEPT ![c0][w0] = row],
                 NEW c \in Children, NEW w \in Words, ~(c = c0 /\ w = w0)
          PROVE  mastery'[c][w] = mastery[c][w]
      BY <1>1, <3>2 DEF TableTypes
    <3> QED BY <3>1, <3>2
  <2>6. ASSUME Of(c0, w0) = {a0} PROVE mastery'[c0][w0] = Folded(NoRow, NoRow, a0)
    <3>1. mastery[c0][w0] = NoRow /\ seen[h] = NoRow
      BY <1>2, <2>1, <2>2, <2>6 DEF Lone
    <3>2. mastery' = [mastery EXCEPT ![c0][w0] = Folded(NoRow, NoRow, a0)]
      BY <1>9, <2>2, <3>1 DEF WriteMastery, NoRow
    <3> QED BY <1>1, <2>2, <3>2 DEF TableTypes
  <2>7. Of(c0, w0) # {}
    BY <2>2 DEF Of
  <2>8. \A c \in Children, w \in Words : Of(c, w)' = {} => mastery'[c][w] = NoRow
    BY <1>2, <2>3, <2>5, <2>7
  <2>9. ASSUME NEW c \in Children, NEW w \in Words, NEW a \in attempts', Of(c, w)' = {a}
        PROVE  \/ mastery'[c][w] = Folded(NoRow, NoRow, a)
               \/ \E g \in Handlers : pc'[g] \in FoldAhead /\ draft'[g] = a
    <3>1. a \in attempts /\ Of(c, w) = {a}
      BY <2>1, <2>3, <2>9
    <3>2. CASE c = c0 /\ w = w0
      <4>1. a = a0
        BY <2>2, <3>1, <3>2 DEF Of
      <4> QED BY <2>6, <3>1, <3>2, <4>1
    <3>3. CASE ~(c = c0 /\ w = w0)
      <4>1. CASE mastery[c][w] = Folded(NoRow, NoRow, a)
        BY <2>5, <3>3, <4>1
      <4>2. ASSUME NEW g \in Handlers, pc[g] \in FoldAhead, draft[g] = a
            PROVE  pc'[g] \in FoldAhead /\ draft'[g] = a
        <5>1. a \in Of(c, w)
          BY <3>1
        <5>2. g # h
          BY <2>2, <3>3, <4>2, <5>1 DEF Of
        <5> QED BY <2>4, <4>2, <5>2
      <4> QED BY <1>2, <3>1, <4>1, <4>2
    <3> QED BY <3>2, <3>3
  <2>10. ASSUME NEW g \in Handlers, pc'[g] \in FoldAhead, Lone(g)'
         PROVE  /\ mastery'[ChildOf(draft'[g])][draft'[g].word] = NoRow
                /\ pc'[g] = "writeMastery" => seen'[g] = NoRow
    <3>1. g # h /\ pc[g] \in FoldAhead /\ draft'[g] = draft[g]
      BY <2>4, <2>10
    <3>2. Lone(g)
      BY <2>3, <2>10, <3>1 DEF Lone, ChildOf
    <3>3. draft[g] # a0
      BY <1>3, <2>1, <2>2, <3>1 DEF StoreInv, FoldAhead
    <3>4. ~(ChildOf(draft[g]) = c0 /\ draft[g].word = w0)
      BY <2>2, <3>2, <3>3 DEF Lone, Of
    <3> QED BY <1>2, <1>3, <2>4, <2>5, <2>10, <3>1, <3>2, <3>4 DEF ChildOf
  <2> QED BY <2>8, <2>9, <2>10 DEF LoneInv, ChildOf
<1> QED BY <1>6, <1>7, <1>8, <1>9, FoldEvents

\* The only attempt of a word is counted once, with its score, when nothing
\* fails: no interleaving disturbs service.go recordAttempt's fold.
THEOREM LoneAttemptsCount == Spec => []LoneAttemptExact
<1>1. ASSUME TypeInv, LoneInv PROVE LoneAttemptExact
  <2>1. SUFFICES ASSUME Quiet, faults = 0, NEW c \in Children, NEW w \in Words,
                        NEW a \in Of(c, w), Of(c, w) = {a}
                 PROVE  mastery[c][w] = Folded(NoRow, NoRow, a)
    BY DEF LoneAttemptExact
  <2>2. a \in attempts /\ \A h \in Handlers : pc[h] \notin FoldAhead
    BY <2>1 DEF Of, Quiet, FoldAhead
  <2> QED BY <1>1, <2>1, <2>2 DEF LoneInv
<1> QED BY <1>1, TypeInit, TypeStep, StoreInit, StoreStep, LoneInit, LoneStep, PTL DEF Spec

(***************************************************************************)
(* The pipeline implements the ledger.                                     *)
(***************************************************************************)

LEMMA LedgerInitOK == Init => Ledger!LedgerInit
BY DEF Init, Ledger!LedgerInit, Results, MasteredPairs, NoRow

\* Rows are only ever added, one at a time and under a new key.
LEMMA InsertStep ==
    ASSUME TypeInv, [Next]_vars, attempts' # attempts
    PROVE  \E a \in Attempt : /\ WithKey(a.session, a.key) = {}
                              /\ attempts' = attempts \cup {a}
                              /\ UNCHANGED mastery
<1>1. ASSUME NEW h \in Handlers, CreateAttempt(h) \/ CreateAttemptError(h)
      PROVE  \E a \in Attempt : /\ WithKey(a.session, a.key) = {}
                                /\ attempts' = attempts \cup {a}
                                /\ UNCHANGED mastery
  <2>1. draft[h] \in Attempt
    BY <1>1 DEF CreateAttempt, CreateAttemptError, TypeInv, HandlerOK
  <2>2. QED
    BY <1>1, <2>1 DEF CreateAttempt, CreateAttemptError
<1>2. ASSUME NEW h \in Handlers, Receive(h) \/ RecordAttempt(h) \/ CallFails(h)
      PROVE  CreateAttempt(h)
  BY <1>2 DEF Receive, RecordAttempt, CallFails, FindExisting, ScoreAudio, PutAudio,
              FindWinner, ReadMastery, WriteMastery, ReadWeakPhoneme, WriteWeakPhoneme,
              Reply, tables
<1>3. ASSUME Crash \/ Tick \/ Rest \/ UNCHANGED vars PROVE FALSE
  BY <1>3 DEF Crash, Tick, Rest, vars, tables
<1>4. QED
  BY <1>1, <1>2, <1>3 DEF Next, Fault

LEMMA LedgerStep ==
    TypeInv /\ StoreInv /\ [Next]_vars => [Ledger!LedgerNext]_(Ledger!ledgerVars)
<1> SUFFICES ASSUME TypeInv, StoreInv, [Next]_vars
             PROVE  [Ledger!LedgerNext]_(Ledger!ledgerVars)
  OBVIOUS
<1>1. CASE attempts' # attempts
  <2>1. PICK a \in Attempt : /\ WithKey(a.session, a.key) = {}
                             /\ attempts' = attempts \cup {a}
                             /\ UNCHANGED mastery
    BY <1>1, InsertStep
  <2>2. ResultOf(a) \in Ledger!Result
    BY DEF Attempt, ResultOf, Ledger!Result
  <2>3. \A q \in Results : q.session # ResultOf(a).session \/ q.key # ResultOf(a).key
    BY <2>1 DEF Results, ResultOf, WithKey
  <2>4. Results' = Results \cup {ResultOf(a)}
    BY <2>1 DEF Results, ResultOf
  <2>5. UNCHANGED MasteredPairs
    BY <2>1 DEF MasteredPairs
  <2>6. QED
    BY <2>2, <2>3, <2>4, <2>5 DEF Ledger!LedgerNext, Ledger!Store
<1>2. CASE mastery' # mastery
  <2>1. PICK h \in Handlers, a \in attempts, c \in Children, w \in Words :
                /\ a \in Attempt /\ a = draft[h] /\ c = ChildOf(a) /\ w = a.word
                /\ attempts' = attempts
                /\ mastery' = [mastery EXCEPT ![c][w] = Folded(seen[h], mastery[c][w], a)]
    BY <1>2, FoldStep
  <2>2. UNCHANGED Results
    BY <2>1 DEF Results
  <2>3. \A d \in Children, v \in Words :
          <<d, v>> # <<c, w>> => mastery'[d][v] = mastery[d][v]
    BY <2>1 DEF TypeInv, TableTypes
  <2>4. mastery'[c][w] = Folded(seen[h], mastery[c][w], a)
    BY <2>1 DEF TypeInv, TableTypes
  <2>5. a.at # Never
    BY <2>1 DEF Attempt, Never
  <2>6. CASE seen[h].first = Never /\ a.score >= MasteryThreshold
    <3>1. mastery'[c][w].first # Never
      BY <2>4, <2>5, <2>6 DEF Folded
    <3>2. MasteredPairs' = MasteredPairs \cup {<<c, w>>}
      BY <2>3, <3>1 DEF MasteredPairs
    <3>3. ResultOf(a) \in Results /\ SessionChild[ResultOf(a).session] = c
          /\ ResultOf(a).word = w /\ ResultOf(a).score >= MasteryThreshold
      BY <2>1, <2>6 DEF Results, ResultOf, ChildOf
    <3>4. QED
      BY <2>2, <3>2, <3>3 DEF Ledger!LedgerNext, Ledger!Master
  <2>7. CASE ~(seen[h].first = Never /\ a.score >= MasteryThreshold)
    <3>1. mastery'[c][w].first = mastery[c][w].first
      BY <2>4, <2>7 DEF Folded
    <3>2. UNCHANGED MasteredPairs
      BY <2>3, <3>1 DEF MasteredPairs
    <3>3. QED
      BY <2>2, <3>2 DEF Ledger!ledgerVars
  <2>8. QED
    BY <2>6, <2>7
<1>3. CASE UNCHANGED <<attempts, mastery>>
  BY <1>3 DEF Ledger!ledgerVars, Results, MasteredPairs
<1>4. QED
  BY <1>1, <1>2, <1>3

\* The pipeline, with its retries, races, stale reads and crashes, implements
\* the ledger that stores each utterance once and masters a word once earned.
THEOREM PipelineImplementsLedger == Spec => ImplementsLedger
BY TypeInit, TypeStep, StoreInit, StoreStep, LedgerInitOK, LedgerStep, PTL
   DEF Spec, ImplementsLedger, Ledger!LedgerSpec
=============================================================================
