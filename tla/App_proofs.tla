----------------------------- MODULE App_proofs ------------------------------
(***************************************************************************)
(* Theorems about the app on one device, for every sequence of packs,      *)
(* every ladder of stages and set of milestones, and every bound on the    *)
(* screens, the saves under way and the mishaps.                           *)
(***************************************************************************)
EXTENDS App, Extrema, SequenceTheorems

(***************************************************************************)
(* The types of the variables.                                             *)
(***************************************************************************)
Progress == [learned : Seq(AllWords), completed : SUBSET AllIds, days : SUBSET Int]

PlainScreen ==
    [screen : {"Welcome", "CreateProfile", "SignIn", "PickCompanion", "Hatching", "ParentGate"}]
MainScreen ==
    [screen : {"Main"}, tab : {"TalkTab", "JournalTab", "RoomTab"},
     talk : Seq({"CompanionHub", "LessonMap", "Streak"}) \ {<<>>}, rev : Revisions]
SessionScreen == [screen : SessionScreens, lesson : AllIds, index : Nat, rev : Revisions]
Celebration == [screen : {"GrowthCelebration"}, lesson : AllIds, rev : Revisions]
ParentScreen == [screen : {"ParentArea"}, tab : {"Progress", "Account", "Plan"}]

Screen == PlainScreen \cup MainScreen \cup SessionScreen \cup Celebration \cup ParentScreen

MemoRecord == [lesson : AllIds, streak : Nat, day : Nat]

(***************************************************************************)
(* Packs.                                                                  *)
(***************************************************************************)
LEMMA PackFacts ==
    ASSUME NEW r \in Revisions
    PROVE  /\ Packs[r] \in Seq(LessonRecord) /\ Packs[r] # <<>>
           /\ DOMAIN Packs[r] = 1..Len(Packs[r]) /\ Len(Packs[r]) \in Nat \ {0}
           /\ \A i \in DOMAIN Packs[r] :
                /\ Packs[r][i] \in LessonRecord
                /\ Packs[r][i].id \in AllIds
                /\ Packs[r][i].words \in Seq(AllWords)
                /\ DOMAIN Packs[r][i].words = 1..Len(Packs[r][i].words)
                /\ Len(Packs[r][i].words) \in Nat \ {0}
                /\ \A k \in DOMAIN Packs[r][i].words : Packs[r][i].words[k] \in AllWords
<1>1. Packs[r] \in Seq(LessonRecord) /\ Packs[r] # <<>>
  BY JourneyAssumption DEF Revisions
<1>2. /\ DOMAIN Packs[r] = 1..Len(Packs[r]) /\ Len(Packs[r]) \in Nat \ {0}
      /\ \A i \in DOMAIN Packs[r] : Packs[r][i] \in LessonRecord
  BY <1>1
<1>3. ASSUME NEW i \in DOMAIN Packs[r]
      PROVE  /\ Packs[r][i] \in LessonRecord
             /\ Packs[r][i].id \in AllIds
             /\ Packs[r][i].words \in Seq(AllWords) /\ Packs[r][i].words # <<>>
  BY <1>2, <1>3 DEF LessonRecord
<1>4. ASSUME NEW i \in DOMAIN Packs[r]
      PROVE  /\ DOMAIN Packs[r][i].words = 1..Len(Packs[r][i].words)
             /\ Len(Packs[r][i].words) \in Nat \ {0}
             /\ \A k \in DOMAIN Packs[r][i].words : Packs[r][i].words[k] \in AllWords
  BY <1>3
<1> QED BY <1>1, <1>2, <1>3, <1>4

LEMMA LessonFacts ==
    ASSUME NEW r \in Revisions, NEW id
    PROVE  \E i \in DOMAIN Packs[r] :
              /\ GetLesson(Packs[r], id) = Packs[r][i]
              /\ id \in LessonIds(Packs[r]) => Packs[r][i].id = id
<1>1. CASE id \in LessonIds(Packs[r])
  <2>1. \E i \in DOMAIN Packs[r] : Packs[r][i].id = id
    BY <1>1 DEF LessonIds
  <2>2. Position(Packs[r], id) \in DOMAIN Packs[r] /\ Packs[r][Position(Packs[r], id)].id = id
    BY <2>1 DEF Position
  <2> QED BY <1>1, <2>2 DEF GetLesson
<1>2. CASE id \notin LessonIds(Packs[r])
  <2>1. 1 \in DOMAIN Packs[r]
    BY PackFacts
  <2> QED BY <1>2, <2>1 DEF GetLesson
<1> QED BY <1>1, <1>2

\* A word is always one of the pack's, and the one asked for if there is one.
LEMMA WordFacts ==
    ASSUME NEW r \in Revisions, NEW id, NEW index \in Nat
    PROVE  /\ WordAt(Packs[r], id, index) \in AllWords
           /\ WordAt(Packs[r], id, index) \in WordsOf(Packs[r])
           /\ index < Len(GetLesson(Packs[r], id).words) =>
                WordAt(Packs[r], id, index) = GetLesson(Packs[r], id).words[index + 1]
<1>1. PICK i \in DOMAIN Packs[r] : GetLesson(Packs[r], id) = Packs[r][i]
  BY LessonFacts
<1> DEFINE words == Packs[r][i].words
<1>2. Len(words) \in Nat \ {0} /\ DOMAIN words = 1..Len(words) /\ \A k \in DOMAIN words : words[k] \in AllWords
  BY PackFacts
<1>3. /\ Min({index + 1, Len(words)}) \in {index + 1, Len(words)}
      /\ \A x \in {index + 1, Len(words)} : Min({index + 1, Len(words)}) <= x
  <2>1. {index + 1, Len(words)} \in SUBSET Nat /\ {index + 1, Len(words)} # {}
    BY <1>2
  <2> HIDE DEF words
  <2> QED BY <2>1, SmallestOf
<1>4. Min({index + 1, Len(words)}) \in DOMAIN words
      /\ (index < Len(words) => Min({index + 1, Len(words)}) = index + 1)
  BY <1>2, <1>3
<1>5. \A k \in DOMAIN words : words[k] \in WordsOf(Packs[r])
  BY DEF WordsOf, Range
<1> QED BY <1>1, <1>2, <1>4, <1>5 DEF WordAt

LEMMA ActiveFacts ==
    ASSUME NEW r \in Revisions, NEW completed
    PROVE  \E k \in DOMAIN Packs[r] :
              /\ ActiveLesson(Packs[r], completed) = Packs[r][k].id
              /\ \A i \in 1..k - 1 : Packs[r][i].id \in completed
<1> DEFINE open == {i \in DOMAIN Packs[r] : Packs[r][i].id \notin completed}
           n == Len(Packs[r])
<1>1. n \in Nat \ {0} /\ DOMAIN Packs[r] = 1..n
  BY PackFacts
<1>2. CASE open = {}
  <2>1. ActiveLesson(Packs[r], completed) = Packs[r][n].id
    BY <1>2 DEF ActiveLesson
  <2>2. n \in DOMAIN Packs[r] /\ \A i \in 1..n - 1 : Packs[r][i].id \in completed
    BY <1>1, <1>2
  <2> QED BY <2>1, <2>2
<1>3. CASE open # {}
  <2>1. open \in SUBSET Nat
    BY <1>1
  <2>2. Min(open) \in open /\ \A x \in open : Min(open) <= x
    BY <1>3, <2>1, SmallestOf
  <2>3. \A i \in 1..Min(open) - 1 : Packs[r][i].id \in completed
    <3>1. ASSUME NEW i \in 1..Min(open) - 1, Packs[r][i].id \notin completed PROVE FALSE
      <4>1. Min(open) \in 1..n /\ i \in 1..n /\ ~(Min(open) <= i)
        BY <1>1, <2>2
      <4>2. i \in open
        BY <1>1, <3>1, <4>1
      <4> QED BY <2>2, <4>1, <4>2
    <3> QED BY <3>1
  <2>4. ActiveLesson(Packs[r], completed) = Packs[r][Min(open)].id
    BY <1>3 DEF ActiveLesson
  <2> QED BY <2>2, <2>3, <2>4
<1> QED BY <1>2, <1>3

(***************************************************************************)
(* Progress.  Learning a word adds at most that word and that day.         *)
(***************************************************************************)
Grown(p, q, new, d) ==
    /\ q \in Progress
    /\ Holds(p, q)
    /\ Range(q.learned) \subseteq Range(p.learned) \cup new
    /\ IsInjective(p.learned) => IsInjective(q.learned)
    /\ q.completed = p.completed
    /\ q.days \subseteq p.days \cup {d}

LEMMA PrefixFacts ==
    ASSUME NEW S, NEW s \in Seq(S), NEW t \in Seq(S)
    PROVE  IsPrefix(s, t) <=> Len(s) <= Len(t) /\ \A i \in 1..Len(s) : s[i] = t[i]
<1>1. Len(s) \in Nat /\ Len(t) \in Nat /\ SubSeq(s, 1, Len(s)) = s
  BY SubSeqFull
<1> SUFFICES ASSUME Len(s) <= Len(t)
             PROVE  s = SubSeq(t, 1, Len(s)) <=> \A i \in 1..Len(s) : s[i] = t[i]
  BY <1>1 DEF IsPrefix
<1> DEFINE u == SubSeq(t, 1, Len(s))
<1>2. u \in Seq(S) /\ Len(u) = Len(s) /\ \A i \in 1..Len(s) : u[i] = t[i]
  BY <1>1
<1>3. ASSUME \A i \in 1..Len(s) : s[i] = t[i] PROVE s = u
  <2> HIDE DEF u
  <2> QED BY <1>2, <1>3, SeqEqual
<1> QED BY <1>2, <1>3

LEMMA PrefixRange ==
    ASSUME NEW S, NEW s \in Seq(S), NEW t \in Seq(S), IsPrefix(s, t)
    PROVE  Range(s) \subseteq Range(t)
<1>1. Len(s) <= Len(t) /\ \A i \in 1..Len(s) : s[i] = t[i]
  BY PrefixFacts
<1>2. DOMAIN s = 1..Len(s) /\ DOMAIN t = 1..Len(t) /\ Len(s) \in Nat /\ Len(t) \in Nat
  OBVIOUS
<1> QED BY <1>1, <1>2 DEF Range

LEMMA ProgressFields ==
    ASSUME NEW p \in Progress
    PROVE  p.learned \in Seq(AllWords) /\ p.completed \in SUBSET AllIds /\ p.days \in SUBSET Int
BY DEF Progress

LEMMA HoldsItself == \A p \in Progress : Holds(p, p)
<1> SUFFICES ASSUME NEW p \in Progress PROVE Holds(p, p)
  OBVIOUS
<1>1. IsPrefix(p.learned, p.learned)
  BY ProgressFields, PrefixFacts
<1> QED BY <1>1 DEF Holds

LEMMA HoldsOn ==
    ASSUME NEW p \in Progress, NEW q \in Progress, NEW r \in Progress, Holds(p, q), Holds(q, r)
    PROVE  Holds(p, r)
<1>1. /\ p.learned \in Seq(AllWords) /\ q.learned \in Seq(AllWords) /\ r.learned \in Seq(AllWords)
      /\ IsPrefix(p.learned, q.learned) /\ IsPrefix(q.learned, r.learned)
  BY ProgressFields DEF Holds
<1> DEFINE a == p.learned
           b == q.learned
           c == r.learned
<1>2. /\ Len(a) \in Nat /\ Len(b) \in Nat /\ Len(c) \in Nat
      /\ Len(a) <= Len(b) /\ \A i \in 1..Len(a) : a[i] = b[i]
      /\ Len(b) <= Len(c) /\ \A i \in 1..Len(b) : b[i] = c[i]
  BY <1>1, PrefixFacts
<1>3. Len(a) <= Len(c) /\ \A i \in 1..Len(a) : a[i] = c[i]
  <2> HIDE DEF a, b, c
  <2> QED BY <1>2
<1>4. IsPrefix(a, c)
  <2>1. a \in Seq(AllWords) /\ c \in Seq(AllWords)
    BY <1>1
  <2> HIDE DEF a, c
  <2> QED BY <1>3, <2>1, PrefixFacts
<1> QED BY <1>4 DEF Holds

LEMMA GrownOn ==
    ASSUME NEW p \in Progress, NEW q, NEW r, NEW new, NEW d,
           Grown(p, q, new, d), Grown(q, r, new, d)
    PROVE  Grown(p, r, new, d)
<1>1. q \in Progress /\ r \in Progress /\ Holds(p, q) /\ Holds(q, r)
  BY DEF Grown
<1>2. Holds(p, r)
  BY <1>1, HoldsOn
<1> QED BY <1>1, <1>2 DEF Grown

LEMMA NothingGrows ==
    ASSUME NEW p \in Progress, NEW new, NEW d
    PROVE  Grown(p, p, new, d)
BY HoldsItself DEF Grown

LEMMA LearnWordFields ==
    ASSUME NEW p \in Progress, NEW word, NEW d \in Int, PushUnique(p.learned, word) \in Seq(AllWords)
    PROVE  /\ LearnWord(p, word, d) \in Progress
           /\ LearnWord(p, word, d).learned = PushUnique(p.learned, word)
           /\ LearnWord(p, word, d).completed = p.completed
           /\ LearnWord(p, word, d).days = p.days \cup {d}
<1> DEFINE list == PushUnique(p.learned, word)
           days == p.days \cup {d}
<1>1. list \in Seq(AllWords) /\ days \in SUBSET Int
  BY ProgressFields
<1>2. LearnWord(p, word, d) = [p EXCEPT !.learned = list, !.days = days]
  BY DEF LearnWord
<1> HIDE DEF list, days
<1>3. [p EXCEPT !.learned = list, !.days = days] \in Progress
  BY <1>1 DEF Progress
<1>4. /\ [p EXCEPT !.learned = list, !.days = days].learned = list
      /\ [p EXCEPT !.learned = list, !.days = days].completed = p.completed
      /\ [p EXCEPT !.learned = list, !.days = days].days = days
  BY <1>1 DEF Progress
<1> QED BY <1>2, <1>3, <1>4 DEF list, days

LEMMA LearnWordGrows ==
    ASSUME NEW p \in Progress, NEW word \in AllWords, NEW d \in Int
    PROVE  /\ Grown(p, LearnWord(p, word, d), {word}, d)
           /\ word \in Range(LearnWord(p, word, d).learned)
<1> DEFINE q == LearnWord(p, word, d)
           list == PushUnique(p.learned, word)
           n == Len(p.learned)
<1>1. p.learned \in Seq(AllWords) /\ n \in Nat /\ DOMAIN p.learned = 1..n
  BY ProgressFields
<1>2. /\ list \in Seq(AllWords) /\ IsPrefix(p.learned, list)
      /\ Range(list) \subseteq Range(p.learned) \cup {word} /\ word \in Range(list)
      /\ IsInjective(p.learned) => IsInjective(list)
  <2>1. CASE word \in Range(p.learned)
    <3>1. list = p.learned
      BY <2>1 DEF PushUnique
    <3>2. IsPrefix(p.learned, p.learned)
      BY <1>1, PrefixFacts
    <3> QED BY <1>1, <2>1, <3>1, <3>2
  <2>2. CASE word \notin Range(p.learned)
    <3>1. list = Append(p.learned, word)
      BY <2>2 DEF PushUnique
    <3>2. /\ list \in Seq(AllWords) /\ Len(list) = n + 1 /\ DOMAIN list = 1..n + 1
          /\ list[n + 1] = word /\ \A i \in 1..n : list[i] = p.learned[i]
      BY <1>1, <3>1
    <3> HIDE DEF list, n
    <3>3. IsPrefix(p.learned, list)
      BY <1>1, <3>2, PrefixFacts DEF n
    <3>4. Range(list) \subseteq Range(p.learned) \cup {word} /\ word \in Range(list)
      BY <1>1, <3>2 DEF Range
    <3>5. IsInjective(p.learned) => IsInjective(list)
      BY <1>1, <2>2, <3>2 DEF IsInjective, Range
    <3> QED BY <3>2, <3>3, <3>4, <3>5
  <2> QED BY <2>1, <2>2
<1>3. /\ q \in Progress /\ q.learned = list
      /\ q.completed = p.completed /\ q.days = p.days \cup {d}
  BY <1>2, LearnWordFields
<1> HIDE DEF q, list
<1> QED BY <1>2, <1>3 DEF Grown, Holds, q

(***************************************************************************)
(* The effects of a render are computed screen by screen.  The function    *)
(* that does so exists, by induction on the screens, and what it computes  *)
(* has grown by words of those effects only.                               *)
(***************************************************************************)
LEMMA EffectsAre ==
    ASSUME NEW p, NEW st \in Seq(Screen), NEW mounted \in BOOLEAN
    PROVE  /\ Effects(p, st, mounted)[0] =
                IF mounted THEN LearnWord(p, EffectWord(Last(st)), day) ELSE p
           /\ \A i \in 1..Len(st) : Effects(p, st, mounted)[i] =
                IF Drifted(st[i]) THEN LearnWord(Effects(p, st, mounted)[i - 1], EffectWord(st[i]), day)
                ELSE Effects(p, st, mounted)[i - 1]
<1> DEFINE n == Len(st)
           first == IF mounted THEN LearnWord(p, EffectWord(Last(st)), day) ELSE p
           after(i, q) == IF Drifted(st[i]) THEN LearnWord(q, EffectWord(st[i]), day) ELSE q
           runs(f, k) == f = [i \in 0..k |-> IF i = 0 THEN first ELSE after(i, f[i - 1])]
           stuck == {k \in 0..n : \A f : ~runs(f, k)}
<1>1. n \in Nat
  OBVIOUS
<1>2. ASSUME stuck # {} PROVE FALSE
  <2>1. stuck \in SUBSET Nat
    BY <1>1
  <2>2. PICK k \in stuck : \A j \in stuck : k <= j
    <3> HIDE DEF stuck
    <3> QED BY <1>2, <2>1, SmallestOf
  <2>3. k \in 0..n /\ k \in Nat /\ \A f : ~runs(f, k)
    BY <1>1, <2>2
  <2>4. CASE k = 0
    <3> DEFINE f == [i \in 0..0 |-> first]
    <3>1. runs(f, 0)
      <4> HIDE DEF first, after
      <4> QED OBVIOUS
    <3> QED BY <2>3, <2>4, <3>1
  <2>5. CASE k # 0
    <3>1. k - 1 \in 0..n /\ k - 1 \notin stuck
      <4>1. k - 1 \in 0..n /\ ~(k <= k - 1)
        BY <1>1, <2>3, <2>5
      <4> HIDE DEF stuck
      <4> QED BY <2>2, <4>1
    <3>2. PICK f : runs(f, k - 1)
      BY <3>1
    <3> DEFINE g == [i \in 0..k |-> IF i = k THEN after(k, f[k - 1]) ELSE f[i]]
    <3>3. runs(g, k)
      <4> HIDE DEF first, after
      <4>1. \A i \in 0..k : g[i] = IF i = k THEN after(k, f[k - 1]) ELSE f[i]
        OBVIOUS
      <4>2. \A i \in 0..k - 1 : f[i] = IF i = 0 THEN first ELSE after(i, f[i - 1])
        BY <2>3, <2>5, <3>2
      <4>3. \A i \in 0..k : g[i] = IF i = 0 THEN first ELSE after(i, g[i - 1])
        <5> HIDE DEF g
        <5>1. CASE k > 0
          <6>1. \A i \in 1..k : i - 1 \in 0..k /\ i - 1 # k /\ i # 0
            BY <2>3
          <6>2. \A i \in 1..k : g[i - 1] = f[i - 1]
            BY <4>1, <6>1
          <6>3. g[0] = first /\ g[k] = after(k, g[k - 1])
            BY <2>3, <4>1, <4>2, <5>1, <6>2
          <6>4. ASSUME NEW i \in 1..k - 1 PROVE g[i] = after(i, g[i - 1])
            BY <2>3, <4>1, <4>2, <6>1, <6>2
          <6> QED BY <2>3, <6>3, <6>4
        <5> QED BY <2>3, <2>5, <5>1
      <4>4. g = [i \in 0..k |-> g[i]]
        OBVIOUS
      <4> HIDE DEF g
      <4> QED BY <4>3, <4>4
    <3> QED BY <2>3, <3>3
  <2> QED BY <2>4, <2>5
<1>3. PICK f : runs(f, n)
  BY <1>1, <1>2
<1> DEFINE e == Effects(p, st, mounted)
<1>4. e = CHOOSE h : runs(h, n)
  BY DEF Effects
<1>5. runs(e, n)
  <2> HIDE DEF runs, e
  <2> QED BY <1>3, <1>4
<1> HIDE DEF e, first, after
<1>6. e[0] = first /\ \A i \in 1..n : e[i] = after(i, e[i - 1])
  BY <1>1, <1>5
<1> QED BY <1>6 DEF e, first, after

LEMMA LearnedGrows ==
    ASSUME NEW p \in Progress, NEW st \in Seq(Screen), NEW mounted \in BOOLEAN,
           NEW new \in SUBSET AllWords, day \in Int,
           mounted => EffectWord(Last(st)) \in new,
           \A i \in 1..Len(st) : Drifted(st[i]) => EffectWord(st[i]) \in new
    PROVE  /\ Grown(p, Learned(p, st, mounted), new, day)
           /\ mounted => EffectWord(Last(st)) \in Range(Learned(p, st, mounted).learned)
<1> DEFINE e == Effects(p, st, mounted)
           n == Len(st)
           wrong == {k \in 0..n : ~Grown(e[0], e[k], new, day)}
<1>1. n \in Nat
  OBVIOUS
<1>2. /\ e[0] = IF mounted THEN LearnWord(p, EffectWord(Last(st)), day) ELSE p
      /\ \A i \in 1..n : e[i] = IF Drifted(st[i]) THEN LearnWord(e[i - 1], EffectWord(st[i]), day)
                                                  ELSE e[i - 1]
  BY EffectsAre
<1>3. ASSUME NEW q \in Progress, NEW word \in new
      PROVE  /\ Grown(q, LearnWord(q, word, day), new, day)
             /\ word \in Range(LearnWord(q, word, day).learned)
  <2>1. /\ Grown(q, LearnWord(q, word, day), {word}, day)
        /\ word \in Range(LearnWord(q, word, day).learned)
    BY <1>3, LearnWordGrows
  <2> DEFINE r == LearnWord(q, word, day)
  <2> HIDE DEF r
  <2> QED BY <1>3, <2>1 DEF Grown, r
<1>4. /\ Grown(p, e[0], new, day) /\ e[0] \in Progress
      /\ mounted => EffectWord(Last(st)) \in Range(e[0].learned)
  <2>1. CASE mounted
    BY <1>2, <1>3, <2>1 DEF Grown
  <2>2. CASE ~mounted
    BY <1>2, <2>2, NothingGrows
  <2> QED BY <2>1, <2>2
<1> HIDE DEF e, n
<1>5. ASSUME wrong # {} PROVE FALSE
  <2>1. wrong \in SUBSET Nat
    BY <1>1
  <2>2. PICK k \in wrong : \A j \in wrong : k <= j
    <3> HIDE DEF wrong
    <3> QED BY <1>5, <2>1, SmallestOf
  <2>3. k \in 0..n /\ k # 0
    BY <1>4, NothingGrows
  <2>4. k - 1 \in 0..n /\ k \in 1..n
    BY <1>1, <2>3
  <2>5. Grown(e[0], e[k - 1], new, day)
    <3>1. ~(k <= k - 1)
      BY <2>4
    <3>2. k - 1 \notin wrong
      <4> HIDE DEF wrong
      <4> QED BY <2>2, <3>1
    <3> QED BY <2>4, <3>2
  <2>6. e[k - 1] \in Progress
    BY <2>5 DEF Grown
  <2>7. Grown(e[k - 1], e[k], new, day)
    <3>1. CASE Drifted(st[k])
      BY <1>2, <1>3, <2>4, <2>6, <3>1 DEF n
    <3>2. CASE ~Drifted(st[k])
      BY <1>2, <2>4, <2>6, <3>2, NothingGrows
    <3> QED BY <3>1, <3>2
  <2>8. Grown(e[0], e[k], new, day)
    BY <1>4, <2>5, <2>7, GrownOn
  <2> QED BY <2>2, <2>8
<1>6. Grown(e[0], e[n], new, day)
  BY <1>1, <1>5
<1>7. Grown(p, e[n], new, day)
  BY <1>4, <1>6, GrownOn
<1>8. mounted => EffectWord(Last(st)) \in Range(e[n].learned)
  <2>1. Range(e[0].learned) \subseteq Range(e[n].learned)
    <3>1. e[0].learned \in Seq(AllWords) /\ e[n].learned \in Seq(AllWords) /\ IsPrefix(e[0].learned, e[n].learned)
      BY <1>4, <1>6, ProgressFields DEF Grown, Holds
    <3> QED BY <3>1, PrefixRange
  <2> QED BY <1>4, <2>1
<1> QED BY <1>7, <1>8 DEF Learned, e, n

(***************************************************************************)
(* What the screens read.                                                  *)
(***************************************************************************)
StreakEnd(days, today) == IF today \in days THEN today ELSE today - 1

LEMMA StreakFacts ==
    ASSUME NEW days \in SUBSET Int, IsFiniteSet(days), NEW today \in Int
    PROVE  /\ Streak(days, today) \in Nat
           /\ (StreakEnd(days, today) - Streak(days, today) + 1)..StreakEnd(days, today) \subseteq days
           /\ \A n \in Nat : (StreakEnd(days, today) - n + 1)..StreakEnd(days, today) \subseteq days =>
                n <= Streak(days, today)
<1> DEFINE end == StreakEnd(days, today)
           run(n) == (end - n + 1)..end
           runs == {n \in 0..Cardinality(days) : run(n) \subseteq days}
<1>1. end \in Int /\ Cardinality(days) \in Nat
  BY FS_CardinalityType DEF StreakEnd
<1>2. Streak(days, today) = Max(runs)
  BY DEF Streak, StreakEnd
<1> HIDE DEF end
<1>3. /\ runs \in SUBSET Int /\ 0 \in runs
      /\ IsFiniteSet(runs)
  <2>1. IsFiniteSet(0..Cardinality(days))
    BY <1>1, FS_Interval
  <2>2. runs \subseteq 0..Cardinality(days)
    OBVIOUS
  <2>3. 0 \in runs
    BY <1>1
  <2> QED BY <1>1, <2>1, <2>2, <2>3, FS_Subset
<1>4. Max(runs) \in runs /\ \A n \in runs : n <= Max(runs)
  <2> HIDE DEF runs
  <2> QED BY <1>3, LargestOf
<1>5. ASSUME NEW n \in Nat, run(n) \subseteq days PROVE n \in runs
  <2>1. Cardinality(run(n)) = n
    <3>1. Cardinality(run(n)) = IF end - n + 1 > end THEN 0 ELSE end - (end - n + 1) + 1
      BY <1>1, FS_Interval
    <3> QED BY <1>1, <3>1
  <2>2. Cardinality(run(n)) <= Cardinality(days)
    BY <1>5, FS_Subset
  <2> QED BY <1>1, <1>5, <2>1, <2>2
<1>6. Max(runs) \in Nat /\ run(Max(runs)) \subseteq days
  BY <1>1, <1>4
<1>7. \A n \in Nat : run(n) \subseteq days => n <= Max(runs)
  BY <1>4, <1>5
<1> QED BY <1>2, <1>6, <1>7 DEF end

LEMMA SeedFacts ==
    ASSUME NEW r \in Revisions, CanSeed(Packs[r]), NEW today \in Int
    PROVE  /\ DemoSeed(Packs[r], today) \in Progress
           /\ IsInjective(DemoSeed(Packs[r], today).learned)
           /\ Range(DemoSeed(Packs[r], today).learned) \subseteq SeedWords
           /\ DemoSeed(Packs[r], today).completed = {Packs[r][1].id, Packs[r][2].id}
           /\ DemoSeed(Packs[r], today).days = (today - 6)..(today - 1)
<1> DEFINE a == Packs[r][1].words
           b == Packs[r][2].words
           c == Packs[r][3].words[1]
           list == a \o b \o <<c>>
           days == (today - 6)..(today - 1)
<1>1. {1, 2, 3} \subseteq DOMAIN Packs[r]
  BY PackFacts DEF CanSeed
<1>2. /\ a \in Seq(AllWords) /\ Len(a) \in Nat \ {0} /\ DOMAIN a = 1..Len(a)
      /\ b \in Seq(AllWords) /\ Len(b) \in Nat \ {0} /\ DOMAIN b = 1..Len(b)
      /\ c \in AllWords /\ 1 \in DOMAIN Packs[r][3].words
  BY <1>1, PackFacts
<1>3. {Packs[r][1].id, Packs[r][2].id} \in SUBSET AllIds
  BY <1>1, PackFacts
<1>4. /\ \A k, l \in DOMAIN a : a[k] = a[l] => k = l
      /\ \A k, l \in DOMAIN b : b[k] = b[l] => k = l
      /\ \A k \in DOMAIN a, l \in DOMAIN b : a[k] # b[l]
      /\ \A k \in DOMAIN a : a[k] # c
      /\ \A k \in DOMAIN b : b[k] # c
  <2>1. \A i, j \in DOMAIN Packs[r] :
          \A k \in DOMAIN Packs[r][i].words, l \in DOMAIN Packs[r][j].words :
            Packs[r][i].words[k] = Packs[r][j].words[l] => i = j /\ k = l
    BY JourneyAssumption
  <2>2. 1 \in DOMAIN Packs[r] /\ 2 \in DOMAIN Packs[r] /\ 3 \in DOMAIN Packs[r]
    BY <1>1
  <2>3. \A k, l \in DOMAIN a : a[k] = a[l] => k = l
    BY <2>1, <2>2
  <2>4. \A k, l \in DOMAIN b : b[k] = b[l] => k = l
    BY <2>1, <2>2
  <2>5. \A k \in DOMAIN a, l \in DOMAIN b : a[k] # b[l]
    BY <2>1, <2>2
  <2>6. \A k \in DOMAIN a : a[k] # c
    BY <1>2, <2>1, <2>2
  <2>7. \A k \in DOMAIN b : b[k] # c
    BY <1>2, <2>1, <2>2
  <2> QED BY <2>3, <2>4, <2>5, <2>6, <2>7
<1>5. DemoSeed(Packs[r], today) =
        [learned |-> list, completed |-> {Packs[r][1].id, Packs[r][2].id}, days |-> days]
  BY DEF DemoSeed
<1> HIDE DEF a, b, c
<1>6. /\ list \in Seq(AllWords) /\ DOMAIN list = 1..Len(a) + Len(b) + 1
      /\ \A i \in 1..Len(a) : list[i] = a[i]
      /\ \A i \in 1..Len(b) : list[Len(a) + i] = b[i]
      /\ list[Len(a) + Len(b) + 1] = c
  BY <1>2
<1>7. IsInjective(list)
  <2> SUFFICES ASSUME NEW i \in DOMAIN list, NEW j \in DOMAIN list, list[i] = list[j], i < j
               PROVE  FALSE
    <3> HIDE DEF list
    <3>1. \A i \in DOMAIN list : i \in Int
      BY <1>2, <1>6
    <3> QED BY <3>1 DEF IsInjective
  <2> HIDE DEF list
  <2>1. CASE j = Len(a) + Len(b) + 1 /\ i <= Len(a)
    BY <1>2, <1>4, <1>6, <2>1
  <2>2. CASE j = Len(a) + Len(b) + 1 /\ i > Len(a)
    <3>1. i - Len(a) \in 1..Len(b) /\ list[Len(a) + (i - Len(a))] = list[i]
      BY <1>2, <1>6, <2>2
    <3> QED BY <1>2, <1>4, <1>6, <2>2, <3>1
  <2>3. CASE j <= Len(a)
    BY <1>2, <1>4, <1>6, <2>3
  <2>4. CASE j > Len(a) /\ j <= Len(a) + Len(b)
    <3>1. j - Len(a) \in 1..Len(b) /\ list[j] = b[j - Len(a)]
      <4>1. j - Len(a) \in 1..Len(b) /\ Len(a) + (j - Len(a)) = j
        BY <1>2, <1>6, <2>4
      <4> QED BY <1>6, <4>1
    <3>2. CASE i <= Len(a)
      BY <1>2, <1>4, <1>6, <3>1, <3>2
    <3>3. CASE i > Len(a)
      <4>1. i - Len(a) \in 1..Len(b) /\ Len(a) + (i - Len(a)) = i
        BY <1>2, <1>6, <2>4, <3>3
      <4>2. list[i] = b[i - Len(a)]
        BY <1>6, <4>1
      <4> QED BY <1>2, <1>4, <1>6, <3>1, <4>1, <4>2
    <3> QED BY <1>2, <1>6, <3>2, <3>3
  <2>5. i \in Int /\ j \in Int /\ j <= Len(a) + Len(b) + 1 /\ Len(a) \in Int /\ Len(b) \in Int
    BY <1>2, <1>6
  <2> QED BY <2>1, <2>2, <2>3, <2>4, <2>5
<1>8. DemoSeed(Packs[r], today).learned = list /\ DemoSeed(Packs[r], FirstDay).learned = list
  BY DEF DemoSeed, a, b, c
<1>9. Range(list) \subseteq SeedWords
  <2> HIDE DEF list
  <2> QED BY <1>8 DEF SeedWords
<1>10. DemoSeed(Packs[r], today) \in Progress
  <2>1. days \in SUBSET Int
    OBVIOUS
  <2> HIDE DEF list, days
  <2> QED BY <1>3, <1>5, <1>6, <2>1 DEF Progress
<1> QED BY <1>5, <1>7, <1>8, <1>9, <1>10

LEMMA ScreenKinds ==
    ASSUME NEW s \in Screen
    PROVE  /\ s.screen \in SessionScreens => s \in SessionScreen
           /\ s.screen = "Main" => s \in MainScreen
           /\ s.screen = "GrowthCelebration" => s \in Celebration
           /\ s.screen = "ParentArea" => s \in ParentScreen
           /\ s.screen \notin SessionScreens \cup {"Main", "GrowthCelebration", "ParentArea"} =>
                s \in PlainScreen
BY DEF Screen, PlainScreen, MainScreen, SessionScreen, SessionScreens, Celebration, ParentScreen

LEMMA SessionFields ==
    ASSUME NEW s \in SessionScreen
    PROVE  s.screen \in SessionScreens /\ s.lesson \in AllIds /\ s.index \in Nat /\ s.rev \in Revisions
BY DEF SessionScreen

\* A screen rendered again is the same screen, with the pack of now.
Refreshed(s) == IF s.screen \in ReadsProgress THEN [s EXCEPT !.rev = active] ELSE s

LEMMA RefreshedScreen ==
    ASSUME active \in Revisions, NEW s \in Screen
    PROVE  /\ Refreshed(s) \in Screen
           /\ Refreshed(s).screen = s.screen
           /\ s.screen \in SessionScreens =>
                Refreshed(s).lesson = s.lesson /\ Refreshed(s).index = s.index
           /\ s.screen = "GrowthCelebration" => Refreshed(s).lesson = s.lesson
           /\ s.screen \notin ReadsProgress => Refreshed(s) = s
           /\ s.screen \in ReadsProgress => Refreshed(s).rev = active
<1>1. CASE s.screen \notin ReadsProgress
  BY <1>1 DEF Refreshed
<1>2. CASE s.screen = "Main"
  <2>1. s \in MainScreen
    BY <1>2, ScreenKinds
  <2>2. /\ [s EXCEPT !.rev = active] \in MainScreen
        /\ [s EXCEPT !.rev = active].screen = s.screen
        /\ [s EXCEPT !.rev = active].rev = active
    BY <2>1 DEF MainScreen
  <2> QED BY <1>2, <2>2 DEF Refreshed, ReadsProgress, SessionScreens, Screen
<1>3. CASE s.screen = "Feedback"
  <2>1. s \in SessionScreen
    BY <1>3, ScreenKinds DEF SessionScreens
  <2>2. /\ [s EXCEPT !.rev = active] \in SessionScreen
        /\ [s EXCEPT !.rev = active].screen = s.screen
        /\ [s EXCEPT !.rev = active].rev = active
        /\ [s EXCEPT !.rev = active].lesson = s.lesson
        /\ [s EXCEPT !.rev = active].index = s.index
    BY <2>1 DEF SessionScreen
  <2> QED BY <1>3, <2>2 DEF Refreshed, ReadsProgress, Screen
<1>4. CASE s.screen = "GrowthCelebration"
  <2>1. s \in Celebration
    BY <1>4, ScreenKinds
  <2>2. /\ [s EXCEPT !.rev = active] \in Celebration
        /\ [s EXCEPT !.rev = active].screen = s.screen
        /\ [s EXCEPT !.rev = active].rev = active
        /\ [s EXCEPT !.rev = active].lesson = s.lesson
    BY <2>1 DEF Celebration
  <2> QED BY <1>4, <2>2 DEF Refreshed, ReadsProgress, SessionScreens, Screen
<1> QED BY <1>1, <1>2, <1>3, <1>4 DEF ReadsProgress

LEMMA RerenderedStack ==
    ASSUME active \in Revisions, NEW st \in Seq(Screen)
    PROVE  /\ Rerendered(st) \in Seq(Screen) /\ Len(Rerendered(st)) = Len(st)
           /\ \A i \in 1..Len(st) : Rerendered(st)[i] = Refreshed(st[i])
<1>1. /\ DOMAIN st = 1..Len(st) /\ Len(st) \in Nat
      /\ \A i \in 1..Len(st) : st[i] \in Screen
  OBVIOUS
<1>2. Rerendered(st) = [i \in 1..Len(st) |-> Refreshed(st[i])]
  BY <1>1 DEF Rerendered, Refreshed
<1>3. \A i \in 1..Len(st) : Refreshed(st[i]) \in Screen
  BY <1>1, RefreshedScreen
<1> QED BY <1>1, <1>2, <1>3

(***************************************************************************)
(* Type correctness.                                                       *)
(***************************************************************************)
Loads == {"reading", "done", "dead"}

DeviceOK == PackCacheTypeOK /\ day \in Nat /\ FirstDay <= day /\ marks \subseteq Marks

StoreOK ==
    /\ progress \in Progress /\ IsProgress(progress)
    /\ load \in Loads
    /\ memo \in MemoRecord /\ memo.day <= day

SavesOK ==
    /\ disk \in Seq(Progress) /\ Len(disk) <= 1
    /\ \A i \in 1..Len(disk) : IsProgress(disk[i])
    /\ pending \in Seq(Progress)
    /\ \A i \in 1..Len(pending) : IsProgress(pending[i])

StackOK ==
    /\ stack \in Seq(Screen)
    /\ Len(stack) \in 1..MaxDepth
    /\ stack[1] = Plain("Welcome")

TypeInv == DeviceOK /\ StoreOK /\ SavesOK /\ StackOK

LEMMA DeviceFacts ==
    ASSUME DeviceOK
    PROVE  /\ active \in Revisions /\ day \in Nat /\ day \in Int
           /\ ActivePack = Packs[active]
BY AppAssumption DEF DeviceOK, PackCacheTypeOK, Revisions, ActivePack

LEMMA CompleteFacts ==
    ASSUME NEW p \in Progress, NEW id \in AllIds, NEW d \in Int
    PROVE  /\ CompleteLesson(p, id, d) \in Progress
           /\ CompleteLesson(p, id, d).learned = p.learned
           /\ CompleteLesson(p, id, d).completed = p.completed \cup {id}
           /\ CompleteLesson(p, id, d).days = p.days \cup {d}
           /\ Holds(p, CompleteLesson(p, id, d))
<1> DEFINE completed == p.completed \cup {id}
           days == p.days \cup {d}
           q == CompleteLesson(p, id, d)
<1>1. completed \in SUBSET AllIds /\ days \in SUBSET Int
  BY ProgressFields
<1>2. q = [p EXCEPT !.completed = completed, !.days = days]
  BY DEF CompleteLesson
<1> HIDE DEF completed, days
<1>3. [p EXCEPT !.completed = completed, !.days = days] \in Progress
  BY <1>1 DEF Progress
<1>4. /\ [p EXCEPT !.completed = completed, !.days = days].learned = p.learned
      /\ [p EXCEPT !.completed = completed, !.days = days].completed = completed
      /\ [p EXCEPT !.completed = completed, !.days = days].days = days
  BY <1>1 DEF Progress
<1> HIDE DEF q
<1>5. IsPrefix(p.learned, p.learned)
  BY HoldsItself DEF Holds
<1> QED BY <1>2, <1>3, <1>4, <1>5 DEF q, completed, days, Holds

LEMMA FiniteDays ==
    ASSUME DeviceOK, NEW p \in Progress, IsProgress(p)
    PROVE  p.days \in SUBSET Int /\ IsFiniteSet(p.days)
<1>1. FirstDay - 6 \in Int /\ day \in Int
  BY AppAssumption DEF DeviceOK
<1>2. IsFiniteSet(FirstDay - 6..day)
  BY <1>1, FS_Interval
<1> QED BY <1>2, FS_Subset, ProgressFields DEF IsProgress

LEMMA MemoFacts ==
    ASSUME DeviceOK, NEW p \in Progress, IsProgress(p)
    PROVE  /\ Memo(p) \in MemoRecord /\ Memo(p).day = day
           /\ Memo(p).streak = Streak(p.days, day)
           /\ Memo(p).lesson = ActiveLesson(ActivePack, p.completed)
<1>1. active \in Revisions /\ day \in Nat /\ ActivePack = Packs[active]
  BY DeviceFacts
<1>2. ActiveLesson(ActivePack, p.completed) \in AllIds
  <2>1. PICK k \in DOMAIN Packs[active] : ActiveLesson(Packs[active], p.completed) = Packs[active][k].id
    BY <1>1, ActiveFacts
  <2>2. Packs[active][k].id \in AllIds
    BY <1>1, PackFacts
  <2> QED BY <1>1, <2>1, <2>2
<1>3. Streak(p.days, day) \in Nat
  BY <1>1, FiniteDays, StreakFacts
<1> QED BY <1>1, <1>2, <1>3 DEF Memo, MemoRecord

LEMMA GrownIsProgress ==
    ASSUME DeviceOK, NEW p \in Progress, IsProgress(p), NEW q, NEW new, Grown(p, q, new, day)
    PROVE  q \in Progress /\ IsProgress(q)
<1>1. q \in Progress /\ q.learned \in Seq(AllWords)
  BY ProgressFields DEF Grown
<1>2. Range(q.learned) \subseteq AllWords
  <2>1. DOMAIN q.learned = 1..Len(q.learned) /\ \A i \in 1..Len(q.learned) : q.learned[i] \in AllWords
    BY <1>1
  <2> QED BY <2>1 DEF Range
<1>3. day \in FirstDay - 6..day
  BY AppAssumption DEF DeviceOK
<1> QED BY <1>1, <1>2, <1>3 DEF Grown, IsProgress

\* The words the effects of a render may record.
NewWords(st, mounted) ==
    {EffectWord(st[i]) : i \in {j \in 1..Len(st) : Drifted(st[j])}}
        \cup (IF mounted THEN {EffectWord(Last(st))} ELSE {})

LEMMA SessionWords ==
    ASSUME DeviceOK, NEW s \in SessionScreen
    PROVE  EffectWord(s) \in AllWords
BY DeviceFacts, SessionFields, WordFacts DEF EffectWord

LEMMA CommitEvent ==
    ASSUME DeviceOK, NEW p \in Progress, IsProgress(p), NEW st \in Seq(Screen),
           NEW mounted \in BOOLEAN, mounted => Last(st) \in SessionScreen,
           Commit(p, st, mounted)
    PROVE  /\ progress' \in Progress /\ IsProgress(progress')
           /\ Grown(p, progress', NewWords(st, mounted), day)
           /\ mounted => EffectWord(Last(st)) \in Range(progress'.learned)
           /\ memo' = Memo(progress') /\ memo' \in MemoRecord /\ memo'.day = day
           /\ stack' = Rerendered(st) /\ Len(stack') <= MaxDepth
           /\ pending' = IF load' = "done" THEN Append(pending, progress') ELSE pending
<1>1. /\ progress' = Learned(p, st, mounted) /\ memo' = Memo(progress')
      /\ stack' = Rerendered(st) /\ Len(stack') <= MaxDepth
      /\ pending' = IF load' = "done" THEN Append(pending, progress') ELSE pending
  BY DEF Commit, Fits
<1> DEFINE new == NewWords(st, mounted)
<1>2. new \in SUBSET AllWords
  <2>1. ASSUME NEW i \in 1..Len(st), Drifted(st[i]) PROVE EffectWord(st[i]) \in AllWords
    <3>1. st[i] \in Screen /\ st[i].screen \in SessionScreens
      BY <2>1 DEF Drifted, SessionScreens
    <3> QED BY <3>1, ScreenKinds, SessionWords
  <2>2. mounted => EffectWord(Last(st)) \in AllWords
    BY SessionWords
  <2> QED BY <2>1, <2>2 DEF NewWords
<1>3. /\ mounted => EffectWord(Last(st)) \in new
      /\ \A i \in 1..Len(st) : Drifted(st[i]) => EffectWord(st[i]) \in new
  BY DEF NewWords
<1> HIDE DEF new
<1>4. day \in Int
  BY DeviceFacts
<1>5. /\ Grown(p, progress', new, day)
      /\ mounted => EffectWord(Last(st)) \in Range(progress'.learned)
  BY <1>1, <1>2, <1>3, <1>4, LearnedGrows
<1>6. progress' \in Progress /\ IsProgress(progress')
  BY <1>5, GrownIsProgress
<1>7. memo' \in MemoRecord /\ memo'.day = day
  BY <1>1, <1>6, MemoFacts
<1> QED BY <1>1, <1>5, <1>6, <1>7 DEF new

(***************************************************************************)
(* The screens.  Two screens are alike when they differ only in what is    *)
(* drawn again: the tab, the talk stack and the revision.                  *)
(***************************************************************************)
Alike(s, t) ==
    /\ t \in Screen /\ t.screen = s.screen
    /\ s.screen \in SessionScreens => t.lesson = s.lesson /\ t.index = s.index
    /\ s.screen = "GrowthCelebration" => t.lesson = s.lesson
    /\ s.screen \in SessionScreens => t.rev = s.rev \/ t.rev = active
    /\ s.screen \notin ReadsProgress \cup {"ParentArea"} => t = s

AlikeAll(st, tt) ==
    /\ tt \in Seq(Screen) /\ Len(tt) = Len(st)
    /\ \A i \in 1..Len(st) : Alike(st[i], tt[i])

LEMMA AlikeItself ==
    ASSUME NEW st \in Seq(Screen)
    PROVE  AlikeAll(st, st)
<1>1. \A i \in 1..Len(st) : st[i] \in Screen
  OBVIOUS
<1> QED BY <1>1 DEF AlikeAll, Alike

LEMMA RerenderedAlike ==
    ASSUME active \in Revisions, NEW st \in Seq(Screen)
    PROVE  AlikeAll(st, Rerendered(st))
<1>1. \A i \in 1..Len(st) : st[i] \in Screen
  OBVIOUS
<1>2. \A i \in 1..Len(st) : Alike(st[i], Refreshed(st[i]))
  <2> SUFFICES ASSUME NEW s \in Screen PROVE Alike(s, Refreshed(s))
    BY <1>1
  <2>1. s.screen \in SessionScreens => Refreshed(s).rev = s.rev \/ Refreshed(s).rev = active
    BY RefreshedScreen
  <2> QED BY <2>1, RefreshedScreen DEF Alike
<1>3. /\ Rerendered(st) \in Seq(Screen) /\ Len(Rerendered(st)) = Len(st)
      /\ \A i \in 1..Len(st) : Rerendered(st)[i] = Refreshed(st[i])
  BY RerenderedStack
<1> QED BY <1>2, <1>3 DEF AlikeAll

LEMMA FrontSeq ==
    ASSUME NEW S, NEW t \in Seq(S), Len(t) > 1
    PROVE  /\ Front(t) \in Seq(S) /\ Front(t) # <<>> /\ Len(Front(t)) = Len(t) - 1
           /\ \A i \in 1..Len(t) - 1 : Front(t)[i] = t[i]
<1>1. /\ Front(t) \in Seq(S) /\ Len(Front(t)) = Len(t) - 1
      /\ \A i \in 1..Len(t) - 1 : Front(t)[i] = t[i]
  BY DEF Front
<1>2. Len(Front(t)) # 0
  BY <1>1
<1>3. Front(t) # <<>>
  BY <1>2
<1> QED BY <1>1, <1>3

LEMMA StackFacts ==
    ASSUME StackOK
    PROVE  /\ Len(stack) \in Nat \ {0} /\ DOMAIN stack = 1..Len(stack)
           /\ Top = stack[Len(stack)] /\ Top \in Screen
           /\ Front(stack) = SubSeq(stack, 1, Len(stack) - 1)
           /\ Top.screen # "Welcome" => Len(stack) > 1
           /\ Len(stack) > 1 =>
                /\ Front(stack) \in Seq(Screen) /\ Len(Front(stack)) = Len(stack) - 1
                /\ \A i \in 1..Len(stack) - 1 : Front(stack)[i] = stack[i]
<1>1. Len(stack) \in Nat \ {0} /\ DOMAIN stack = 1..Len(stack) /\ stack \in Seq(Screen)
  BY AppAssumption DEF StackOK
<1>2. Top = stack[Len(stack)] /\ Top \in Screen
  BY <1>1 DEF Top, Last
<1>3. Front(stack) = SubSeq(stack, 1, Len(stack) - 1)
  BY DEF Front
<1>4. Top.screen # "Welcome" => Len(stack) > 1
  BY <1>1, <1>2 DEF StackOK, Plain
<1>5. Len(stack) > 1 =>
        /\ Front(stack) \in Seq(Screen) /\ Len(Front(stack)) = Len(stack) - 1
        /\ \A i \in 1..Len(stack) - 1 : Front(stack)[i] = stack[i]
  BY <1>1, <1>3
<1> QED BY <1>1, <1>2, <1>3, <1>4, <1>5

LEMMA RetouchedStack ==
    ASSUME StackOK, NEW s \in Screen, Alike(Top, s)
    PROVE  AlikeAll(stack, [stack EXCEPT ![Len(stack)] = s])
<1> DEFINE st == [stack EXCEPT ![Len(stack)] = s]
<1>1. /\ Len(stack) \in Nat \ {0} /\ DOMAIN stack = 1..Len(stack)
      /\ Top = stack[Len(stack)] /\ stack \in Seq(Screen)
  BY StackFacts DEF StackOK
<1>2. /\ st \in Seq(Screen) /\ Len(st) = Len(stack) /\ st[Len(stack)] = s
      /\ \A i \in 1..Len(stack) : i # Len(stack) => st[i] = stack[i]
  <2>1. st \in Seq(Screen) /\ Len(st) = Len(stack)
    BY <1>1
  <2>2. \A i \in 1..Len(stack) : st[i] = IF i = Len(stack) THEN s ELSE stack[i]
    BY <1>1
  <2>3. Len(stack) \in 1..Len(stack)
    BY <1>1
  <2> HIDE DEF st
  <2>4. st[Len(stack)] = s
    BY <2>2, <2>3
  <2>5. \A i \in 1..Len(stack) : i # Len(stack) => st[i] = stack[i]
    BY <2>2
  <2> QED BY <2>1, <2>4, <2>5
<1>3. \A i \in 1..Len(stack) : Alike(stack[i], stack[i])
  BY <1>1, AlikeItself DEF AlikeAll
<1> HIDE DEF st
<1>4. \A i \in 1..Len(stack) : Alike(stack[i], st[i])
  <2> TAKE i \in 1..Len(stack)
  <2>1. CASE i = Len(stack)
    <3>1. stack[i] = Top /\ st[i] = s
      BY <1>1, <1>2, <2>1
    <3> QED BY <3>1
  <2>2. CASE i # Len(stack)
    <3>1. st[i] = stack[i]
      BY <1>2, <2>2
    <3> QED BY <1>3, <3>1
  <2> QED BY <2>1, <2>2
<1> QED BY <1>2, <1>4 DEF AlikeAll, st

LEMMA ShowPushes ==
    ASSUME StackOK, NEW s \in Screen, Top.screen # s.screen, Show(s)
    PROVE  stack' = Append(stack, s) /\ Append(stack, s) \in Seq(Screen) /\ Len(stack') <= MaxDepth
<1>1. stack' = Append(stack, s)
  BY DEF Show, Navigate, Top
<1> QED BY <1>1 DEF Show, Fits, StackOK

LEMMA NewScreens ==
    ASSUME active \in Revisions
    PROVE  /\ Main \in Screen
           /\ \A name \in SessionScreens, id \in AllIds, index \in Nat :
                Session(name, id, index) \in SessionScreen /\ Session(name, id, index) \in Screen
           /\ \A name \in {"Welcome", "CreateProfile", "SignIn", "PickCompanion", "Hatching", "ParentGate"} :
                Plain(name) \in Screen
           /\ \A id \in AllIds :
                [screen |-> "GrowthCelebration", lesson |-> id, rev |-> active] \in Screen
           /\ [screen |-> "ParentArea", tab |-> "Progress"] \in Screen
<1>1. Main \in MainScreen
  <2>1. <<"CompanionHub">> \in Seq({"CompanionHub", "LessonMap", "Streak"}) \ {<<>>}
    OBVIOUS
  <2> QED BY <2>1 DEF Main, MainScreen
<1>2. \A name \in SessionScreens, id \in AllIds, index \in Nat : Session(name, id, index) \in SessionScreen
  BY DEF Session, SessionScreen
<1>3. \A name \in {"Welcome", "CreateProfile", "SignIn", "PickCompanion", "Hatching", "ParentGate"} :
        Plain(name) \in PlainScreen
  BY DEF Plain, PlainScreen
<1>4. \A id \in AllIds : [screen |-> "GrowthCelebration", lesson |-> id, rev |-> active] \in Celebration
  BY DEF Celebration
<1>5. [screen |-> "ParentArea", tab |-> "Progress"] \in ParentScreen
  BY DEF ParentScreen
<1> QED BY <1>1, <1>2, <1>3, <1>4, <1>5 DEF Screen

\* A lesson resumes at a word below which all are learned.
LEMMA ResumeFacts ==
    ASSUME NEW r \in Revisions, NEW id, NEW learned
    PROVE  /\ ResumeIndex(Packs[r], id, learned) \in Nat
           /\ \A k \in 1..ResumeIndex(Packs[r], id, learned) :
                k \in DOMAIN GetLesson(Packs[r], id).words =>
                    GetLesson(Packs[r], id).words[k] \in Range(learned)
<1> DEFINE words == IF id \in LessonIds(Packs[r]) THEN GetLesson(Packs[r], id).words ELSE <<>>
           new == {i \in DOMAIN words : words[i] \notin Range(learned)}
           index == ResumeIndex(Packs[r], id, learned)
<1>1. index = IF new = {} THEN 0 ELSE Min(new) - 1
  BY DEF ResumeIndex
<1>2. DOMAIN words \in SUBSET (Nat \ {0})
  <2>1. CASE id \in LessonIds(Packs[r])
    <3>1. PICK i \in DOMAIN Packs[r] : GetLesson(Packs[r], id) = Packs[r][i]
      BY LessonFacts
    <3>2. DOMAIN Packs[r][i].words = 1..Len(Packs[r][i].words) /\ Len(Packs[r][i].words) \in Nat
      BY PackFacts
    <3> QED BY <2>1, <3>1, <3>2
  <2>2. CASE id \notin LessonIds(Packs[r])
    BY <2>2
  <2> QED BY <2>1, <2>2
<1>3. CASE new = {}
  BY <1>1, <1>3
<1>4. CASE new # {}
  <2>1. new \in SUBSET Nat
    BY <1>2
  <2>2. Min(new) \in new /\ \A x \in new : Min(new) <= x
    <3> HIDE DEF new
    <3> QED BY <1>4, <2>1, SmallestOf
  <2>3. Min(new) \in Nat \ {0} /\ index = Min(new) - 1
    BY <1>1, <1>2, <1>4, <2>2
  <2>4. id \in LessonIds(Packs[r])
    BY <1>4
  <2>5. ASSUME NEW k \in 1..index, k \in DOMAIN GetLesson(Packs[r], id).words,
               GetLesson(Packs[r], id).words[k] \notin Range(learned)
        PROVE  FALSE
    <3>1. k \in new
      BY <2>4, <2>5
    <3>2. ~(Min(new) <= k)
      BY <2>3
    <3> QED BY <2>2, <3>1, <3>2
  <2> HIDE DEF index
  <2>6. index \in Nat
    BY <2>3
  <2> QED BY <2>5, <2>6 DEF index
<1> QED BY <1>3, <1>4

(***************************************************************************)
(* What one step does.  Most handlers only move the screens (Moved); the   *)
(* praise records a word (Praised); a hydration ends in Hydrated or Died.  *)
(***************************************************************************)
LEMMA OpenedFromCases ==
    ASSUME NEW s, NEW b
    PROVE  /\ s.screen = "MicroConversation" =>
                (OpenedFrom(s, b) <=> /\ b.screen = "SayTheWord"
                                      /\ b.lesson = s.lesson /\ b.index = s.index)
           /\ s.screen \in {"SoundPractice", "Feedback"} =>
                (OpenedFrom(s, b) <=> /\ b.screen = "MicroConversation"
                                      /\ b.lesson = s.lesson /\ b.index = s.index)
           /\ s.screen = "SayTheWord" =>
                (OpenedFrom(s, b) <=> \/ b.screen = "Main"
                                      \/ /\ b.screen = "Feedback"
                                         /\ b.lesson = s.lesson /\ b.index + 1 = s.index)
           /\ s.screen = "GrowthCelebration" =>
                (OpenedFrom(s, b) <=> b.screen = "Feedback" /\ b.lesson = s.lesson)
           /\ s.screen \notin SessionScreens \cup {"GrowthCelebration"} => OpenedFrom(s, b)
BY DEF OpenedFrom, SessionScreens

Opens(s, below) ==
    /\ OpenedFrom(s, below)
    /\ s.screen \in SessionScreens => s.rev = active
    /\ s.screen = "SayTheWord" /\ below.screen = "Main" =>
        /\ s.index = 0 \/ s.index = ResumeIndex(ActivePack, s.lesson, progress.learned)
        /\ s.lesson = memo.lesson \/ s.lesson \in progress.completed
    /\ s.screen = "MicroConversation" => ShownWord(below) \in said' \cup SeedWords
    /\ s.screen # "Feedback"

Walks(st) ==
    \/ st = stack
    \/ Len(stack) > 1 /\ st = Front(stack)
    \/ \E s \in Screen : st = Append(stack, s) /\ Opens(s, Top)

Moved ==
    /\ UNCHANGED <<packVars, day, storeVars, marks>>
    /\ said \subseteq said'
    /\ Len(stack') <= MaxDepth
    /\ \E st \in Seq(Screen) : Walks(st) /\ AlikeAll(st, stack')

Praises(st) ==
    \/ Top.screen = "MicroConversation" /\ st = Append(stack, Session("Feedback", Top.lesson, Top.index))
    \/ /\ Top.screen = "SoundPractice" /\ Len(stack) > 1
       /\ st = Append(Front(stack), Session("Feedback", Top.lesson, Top.index))

Praised ==
    /\ UNCHANGED <<packVars, day, load, disk, marks>>
    /\ said \subseteq said'
    /\ \E st \in Seq(Screen) : Praises(st) /\ Commit(progress, st, TRUE)

Payload(p) ==
    \/ disk # <<>> /\ p = disk[1]
    \/ /\ CanSeed(ActivePack) /\ p = DemoSeed(ActivePack, day)
       /\ disk = <<>> \/ "unread" \in marks'

MarksRead ==
    /\ marks \subseteq marks' /\ marks' \subseteq marks \cup {"unread", "early"}
    /\ InSession => "early" \in marks'

Hydrated ==
    /\ load = "reading" /\ load' = "done"
    /\ UNCHANGED <<packVars, day, disk, said>> /\ MarksRead
    /\ \E p : Payload(p) /\ Commit(p, stack, FALSE)

Died ==
    /\ load = "reading" /\ load' = "dead"
    /\ UNCHANGED <<packVars, day, progress, memo, disk, pending, stack, said>> /\ MarksRead

LEMMA TypeFacts ==
    ASSUME TypeInv
    PROVE  /\ DeviceOK /\ StoreOK /\ SavesOK /\ StackOK
           /\ active \in Revisions /\ ActivePack = Packs[active] /\ stack \in Seq(Screen)
           /\ Top \in Screen /\ Len(stack) \in Nat
BY DeviceFacts, StackFacts DEF TypeInv, StackOK

LEMMA StillMoves ==
    ASSUME TypeInv, UNCHANGED <<packVars, day, storeVars, marks>>, said \subseteq said',
           NEW st \in Seq(Screen), Walks(st), AlikeAll(st, stack'), Len(stack') <= MaxDepth
    PROVE  Moved
BY DEF Moved

LEMMA ShowMoves ==
    ASSUME TypeInv, NEW s \in Screen, Top.screen # s.screen, Show(s), Opens(s, Top),
           UNCHANGED <<packVars, day, storeVars, marks>>, said \subseteq said'
    PROVE  Moved
<1>1. stack' = Append(stack, s) /\ Append(stack, s) \in Seq(Screen) /\ Len(stack') <= MaxDepth
  BY TypeFacts, ShowPushes
<1>2. AlikeAll(Append(stack, s), stack')
  BY <1>1, AlikeItself
<1>3. Walks(Append(stack, s))
  BY DEF Walks
<1> QED BY <1>1, <1>2, <1>3, StillMoves

LEMMA RetouchMoves ==
    ASSUME TypeInv, NEW s \in Screen, Alike(Top, s), stack' = [stack EXCEPT ![Len(stack)] = s],
           UNCHANGED <<packVars, day, storeVars, marks>>, said \subseteq said'
    PROVE  Moved
<1>1. AlikeAll(stack, stack')
  BY TypeFacts, RetouchedStack
<1>2. Len(stack') <= MaxDepth
  <2>1. Len(stack') = Len(stack)
    BY <1>1 DEF AlikeAll
  <2>2. Len(stack) <= MaxDepth
    BY TypeFacts DEF StackOK
  <2> QED BY <2>1, <2>2
<1> QED BY <1>1, <1>2, TypeFacts, StillMoves DEF Walks

\* The screens outside a session may open from anywhere.
LEMMA PlainMoves ==
    ASSUME TypeInv, NEW s \in Screen, s.screen \notin SessionScreens \cup {"GrowthCelebration"},
           Top.screen # s.screen, Show(s), Moves
    PROVE  Moved
<1>1. Opens(s, Top)
  BY OpenedFromCases DEF Opens, SessionScreens
<1> QED BY <1>1, ShowMoves DEF Moves

LEMMA OnboardingMoves == TypeInv /\ Onboarding => Moved
<1> SUFFICES ASSUME TypeInv, Onboarding PROVE Moved
  OBVIOUS
<1>1. active \in Revisions
  BY TypeFacts
<1>2. \A name \in {"Welcome", "CreateProfile", "SignIn", "PickCompanion", "Hatching", "ParentGate"} :
        /\ Plain(name) \in Screen /\ Plain(name).screen = name
        /\ name \notin SessionScreens \cup {"GrowthCelebration"}
  BY <1>1, NewScreens DEF Plain, SessionScreens
<1>3. CASE GetStarted
  BY <1>2, <1>3, PlainMoves DEF GetStarted, Shown
<1>4. CASE SignIn
  BY <1>2, <1>4, PlainMoves DEF SignIn, Shown
<1>5. CASE SignedIn
  BY <1>2, <1>5, PlainMoves DEF SignedIn, Shown
<1>6. CASE Continue
  BY <1>2, <1>6, PlainMoves DEF Continue, Shown
<1>7. CASE OnChoose
  BY <1>2, <1>7, PlainMoves DEF OnChoose, Shown
<1>8. CASE Wake
  <2>1. Main \in Screen /\ Main.screen = "Main" /\ "Main" \notin SessionScreens \cup {"GrowthCelebration"}
    BY <1>1, NewScreens DEF Main, SessionScreens
  <2> QED BY <1>8, <2>1, PlainMoves DEF Wake, Shown
<1> QED BY <1>3, <1>4, <1>5, <1>6, <1>7, <1>8 DEF Onboarding

LEMMA ParentsMove == TypeInv /\ (KeepGoing \/ OpenGate \/ PressCheck) => Moved
<1> SUFFICES ASSUME TypeInv, KeepGoing \/ OpenGate \/ PressCheck PROVE Moved
  OBVIOUS
<1>1. active \in Revisions
  BY TypeFacts
<1>2. CASE KeepGoing
  <2>1. Main \in Screen /\ Main.screen = "Main" /\ "Main" \notin SessionScreens \cup {"GrowthCelebration"}
    BY <1>1, NewScreens DEF Main, SessionScreens
  <2> QED BY <1>2, <2>1, PlainMoves DEF KeepGoing, Shown
<1>3. CASE OpenGate
  <2>1. /\ Plain("ParentGate") \in Screen /\ Plain("ParentGate").screen = "ParentGate"
        /\ "ParentGate" \notin SessionScreens \cup {"GrowthCelebration"}
    BY <1>1, NewScreens DEF Plain, SessionScreens
  <2> QED BY <1>3, <2>1, PlainMoves DEF OpenGate, TalkTop, Shown
<1>4. CASE PressCheck
  <2> DEFINE s == [screen |-> "ParentArea", tab |-> "Progress"]
  <2>1. s \in Screen /\ s.screen = "ParentArea" /\ "ParentArea" \notin SessionScreens \cup {"GrowthCelebration"}
    BY <1>1, NewScreens DEF SessionScreens
  <2> QED BY <1>4, <2>1, PlainMoves DEF PressCheck, Shown
<1> QED BY <1>2, <1>3, <1>4

LEMMA MainTop ==
    ASSUME TypeInv, Top.screen = "Main"
    PROVE  Top \in MainScreen /\ Top \in Screen
BY TypeFacts, ScreenKinds

\* The main screen with another tab, talk stack or revision.
LEMMA MainRetouched ==
    ASSUME TypeInv, Top.screen = "Main",
           NEW tab \in {"TalkTab", "JournalTab", "RoomTab"},
           NEW talk \in Seq({"CompanionHub", "LessonMap", "Streak"}) \ {<<>>},
           NEW rev \in Revisions
    PROVE  /\ [Top EXCEPT !.tab = tab, !.talk = talk, !.rev = rev] \in Screen
           /\ Alike(Top, [Top EXCEPT !.tab = tab, !.talk = talk, !.rev = rev])
<1> DEFINE s == [Top EXCEPT !.tab = tab, !.talk = talk, !.rev = rev]
<1>1. Top \in MainScreen
  BY MainTop
<1>2. s \in MainScreen /\ s.screen = Top.screen
  BY <1>1 DEF MainScreen
<1> HIDE DEF s
<1>3. s \in Screen
  BY <1>2 DEF Screen
<1>4. Alike(Top, s)
  BY <1>2, <1>3 DEF Alike, SessionScreens, ReadsProgress
<1> QED BY <1>3, <1>4 DEF s

LEMMA MainFields ==
    ASSUME TypeInv, Top.screen = "Main"
    PROVE  /\ Top.tab \in {"TalkTab", "JournalTab", "RoomTab"}
           /\ Top.talk \in Seq({"CompanionHub", "LessonMap", "Streak"}) \ {<<>>}
           /\ Top.rev \in Revisions
           /\ [Top EXCEPT !.tab = Top.tab] = Top
           /\ \A tab : [Top EXCEPT !.tab = tab] = [Top EXCEPT !.tab = tab, !.talk = Top.talk, !.rev = Top.rev]
           /\ \A talk : [Top EXCEPT !.talk = talk] = [Top EXCEPT !.tab = Top.tab, !.talk = talk, !.rev = Top.rev]
           /\ \A talk : [Top EXCEPT !.talk = talk, !.rev = active] =
                        [Top EXCEPT !.tab = Top.tab, !.talk = talk, !.rev = active]
<1>1. Top \in MainScreen
  BY MainTop
<1> QED BY <1>1 DEF MainScreen

LEMMA ParentRetouched ==
    ASSUME TypeInv, Top.screen = "ParentArea", NEW tab \in {"Progress", "Account", "Plan"}
    PROVE  [Top EXCEPT !.tab = tab] \in Screen /\ Alike(Top, [Top EXCEPT !.tab = tab])
<1> DEFINE s == [Top EXCEPT !.tab = tab]
<1>1. Top \in ParentScreen
  BY TypeFacts, ScreenKinds
<1>2. s \in ParentScreen /\ s.screen = Top.screen
  BY <1>1 DEF ParentScreen
<1> HIDE DEF s
<1>3. s \in Screen
  BY <1>2 DEF Screen
<1>4. Alike(Top, s)
  BY <1>2, <1>3 DEF Alike, SessionScreens, ReadsProgress
<1> QED BY <1>3, <1>4 DEF s

LEMMA TabsMove == TypeInv /\ Tabs => Moved
<1> SUFFICES ASSUME TypeInv, Tabs PROVE Moved
  OBVIOUS
<1>1. /\ Top = stack[Len(stack)] /\ Len(stack) \in DOMAIN stack
      /\ active \in Revisions
  BY TypeFacts, StackFacts DEF StackOK
<1>2. ASSUME NEW name \in {"LessonMap", "Streak"}, Top.screen = "Main", OpenTalk(name) PROVE Moved
  <2> DEFINE talk == Append(Top.talk, name)
             s == [Top EXCEPT !.tab = Top.tab, !.talk = talk, !.rev = active]
  <2>1. talk \in Seq({"CompanionHub", "LessonMap", "Streak"}) \ {<<>>}
    <3> DEFINE t == Top.talk
    <3>1. t \in Seq({"CompanionHub", "LessonMap", "Streak"})
      BY <1>2, MainFields
    <3> HIDE DEF t
    <3>2. Append(t, name) \in Seq({"CompanionHub", "LessonMap", "Streak"}) /\ Append(t, name) # <<>>
      BY <3>1
    <3> QED BY <3>2 DEF t
  <2>2. s \in Screen /\ Alike(Top, s)
    BY <1>1, <1>2, <2>1, MainFields, MainRetouched
  <2>3. stack' = [stack EXCEPT ![Len(stack)] = [Top EXCEPT !.talk = talk, !.rev = active]]
    <3>1. stack' = [stack EXCEPT ![Len(stack)] =
                        [Top EXCEPT !.talk = Append(Top.talk, name), !.rev = active]]
      BY <1>2 DEF OpenTalk
    <3> QED BY <1>1, <3>1
  <2>4. stack' = [stack EXCEPT ![Len(stack)] = s]
    BY <1>2, <2>3, MainFields
  <2> QED BY <1>2, <2>2, <2>4, RetouchMoves DEF OpenTalk, Moves
<1>3. ASSUME NEW tab \in {"TalkTab", "JournalTab", "RoomTab"}, PressTab(tab) PROVE Moved
  <2>1. Top.screen = "Main" /\ Moves
    BY <1>3 DEF PressTab, Shown
  <2>2. stack' = [stack EXCEPT ![Len(stack)] =
                    IF Top.tab # tab THEN [Top EXCEPT !.tab = tab]
                    ELSE IF tab = "TalkTab" THEN [Top EXCEPT !.talk = <<"CompanionHub">>] ELSE Top]
    BY <1>1, <1>3 DEF PressTab
  <2>3. CASE Top.tab # tab
    <3> DEFINE s == [Top EXCEPT !.tab = tab, !.talk = Top.talk, !.rev = Top.rev]
    <3>1. s \in Screen /\ Alike(Top, s)
      BY <2>1, MainFields, MainRetouched
    <3>2. stack' = [stack EXCEPT ![Len(stack)] = s]
      BY <2>1, <2>2, <2>3, MainFields
    <3> QED BY <2>1, <3>1, <3>2, RetouchMoves DEF Moves
  <2>4. CASE Top.tab = tab /\ tab = "TalkTab"
    <3> DEFINE talk == <<"CompanionHub">>
               s == [Top EXCEPT !.tab = Top.tab, !.talk = talk, !.rev = Top.rev]
    <3>1. talk \in Seq({"CompanionHub", "LessonMap", "Streak"}) \ {<<>>}
      OBVIOUS
    <3>2. s \in Screen /\ Alike(Top, s)
      BY <2>1, <3>1, MainFields, MainRetouched
    <3>3. stack' = [stack EXCEPT ![Len(stack)] = [Top EXCEPT !.talk = talk]]
      BY <2>2, <2>4
    <3>4. stack' = [stack EXCEPT ![Len(stack)] = s]
      BY <2>1, <3>3, MainFields
    <3> QED BY <2>1, <3>2, <3>4, RetouchMoves DEF Moves
  <2>5. CASE Top.tab = tab /\ tab # "TalkTab"
    <3>1. Alike(Top, Top) /\ Top \in Screen
      BY TypeFacts DEF Alike
    <3>2. stack' = [stack EXCEPT ![Len(stack)] = Top]
      BY <2>2, <2>5
    <3> QED BY <2>1, <3>1, <3>2, RetouchMoves DEF Moves
  <2> QED BY <2>3, <2>4, <2>5
<1>4. CASE OpenLessonMap
  BY <1>2, <1>4 DEF OpenLessonMap, TalkTop, Shown
<1>5. CASE OpenStreak
  BY <1>2, <1>5 DEF OpenStreak, TalkTop, Shown
<1> QED BY <1>3, <1>4, <1>5 DEF Tabs

LEMMA PressParentTabMoves ==
    ASSUME TypeInv, NEW tab \in {"Progress", "Account", "Plan"}, PressParentTab(tab)
    PROVE  Moved
<1>1. Top = stack[Len(stack)] /\ Len(stack) \in DOMAIN stack
  BY TypeFacts, StackFacts DEF StackOK
<1>2. Top.screen = "ParentArea" /\ Moves /\ stack' = [stack EXCEPT ![Len(stack)] = [Top EXCEPT !.tab = tab]]
  BY <1>1 DEF PressParentTab, Shown
<1>3. [Top EXCEPT !.tab = tab] \in Screen /\ Alike(Top, [Top EXCEPT !.tab = tab])
  BY <1>2, ParentRetouched
<1> QED BY <1>2, <1>3, RetouchMoves DEF Moves

LEMMA GoBackMoves == TypeInv /\ GoBack => Moved
<1> SUFFICES ASSUME TypeInv, GoBack PROVE Moved
  OBVIOUS
<1>1. /\ Top = stack[Len(stack)] /\ Len(stack) \in DOMAIN stack /\ Len(stack) <= MaxDepth
      /\ Len(stack) \in Nat
      /\ UNCHANGED <<packVars, day, storeVars, said, marks>>
  BY TypeFacts, StackFacts DEF GoBack, StackOK
<1>2. CASE Top.screen = "Main" /\ Len(Top.talk) > 1 /\ stack' = [stack EXCEPT ![Len(stack)].talk = Front(@)]
  <2> DEFINE talk == Front(Top.talk)
             s == [Top EXCEPT !.tab = Top.tab, !.talk = talk, !.rev = Top.rev]
  <2>1. talk \in Seq({"CompanionHub", "LessonMap", "Streak"}) \ {<<>>}
    <3>1. Top.talk \in Seq({"CompanionHub", "LessonMap", "Streak"})
      BY <1>2, MainFields
    <3>2. talk \in Seq({"CompanionHub", "LessonMap", "Streak"}) /\ talk # <<>>
      BY <1>2, <3>1, FrontSeq
    <3> HIDE DEF talk
    <3> QED BY <3>2
  <2>2. s \in Screen /\ Alike(Top, s)
    BY <1>2, <2>1, MainFields, MainRetouched
  <2>3. stack' = [stack EXCEPT ![Len(stack)] = [Top EXCEPT !.talk = talk]]
    BY <1>1, <1>2
  <2>4. stack' = [stack EXCEPT ![Len(stack)] = s]
    BY <1>2, <2>3, MainFields
  <2> QED BY <1>1, <2>2, <2>4, RetouchMoves
<1>3. CASE Top.screen = "Main" /\ stack' = [stack EXCEPT ![Len(stack)].tab = FirstTab(Top)]
  <2> DEFINE s == [Top EXCEPT !.tab = "TalkTab", !.talk = Top.talk, !.rev = Top.rev]
  <2>1. s \in Screen /\ Alike(Top, s)
    BY <1>3, MainFields, MainRetouched
  <2>2. stack' = [stack EXCEPT ![Len(stack)] = [Top EXCEPT !.tab = "TalkTab"]]
    BY <1>1, <1>3 DEF FirstTab
  <2>3. stack' = [stack EXCEPT ![Len(stack)] = s]
    BY <1>3, <2>2, MainFields
  <2> QED BY <1>1, <2>1, <2>3, RetouchMoves
<1>4. CASE Top.screen = "ParentArea" /\ stack' = [stack EXCEPT ![Len(stack)].tab = FirstTab(Top)]
  <2>1. stack' = [stack EXCEPT ![Len(stack)] = [Top EXCEPT !.tab = "Progress"]]
    BY <1>1, <1>4 DEF FirstTab
  <2>2. /\ [Top EXCEPT !.tab = "Progress"] \in Screen
        /\ Alike(Top, [Top EXCEPT !.tab = "Progress"])
    BY <1>4, ParentRetouched
  <2> QED BY <1>1, <2>1, <2>2, RetouchMoves
<1>5. CASE Len(stack) > 1 /\ stack' = Front(stack)
  <2>1. Front(stack) \in Seq(Screen) /\ Len(Front(stack)) = Len(stack) - 1
    BY <1>5, TypeFacts, StackFacts
  <2>2. AlikeAll(Front(stack), stack')
    BY <1>5, <2>1, AlikeItself
  <2>3. Len(stack') <= MaxDepth
    BY <1>1, <1>5, <2>1, AppAssumption
  <2> QED BY <1>1, <1>5, <2>1, <2>2, <2>3, StillMoves DEF Walks
<1>6. \/ Top.screen = "Main" /\ Len(Top.talk) > 1 /\ stack' = [stack EXCEPT ![Len(stack)].talk = Front(@)]
      \/ Top.screen \in {"Main", "ParentArea"} /\ stack' = [stack EXCEPT ![Len(stack)].tab = FirstTab(Top)]
      \/ Len(stack) > 1 /\ stack' = Front(stack)
  BY DEF GoBack
<1> QED BY <1>2, <1>3, <1>4, <1>5, <1>6

LEMMA SessionTop ==
    ASSUME TypeInv, Top.screen \in SessionScreens
    PROVE  /\ Top \in SessionScreen /\ Top \in Screen
           /\ Top.lesson \in AllIds /\ Top.index \in Nat /\ Top.rev \in Revisions
BY TypeFacts, ScreenKinds, SessionFields

LEMMA SessionIs ==
    ASSUME TypeInv, NEW name \in SessionScreens, NEW id \in AllIds, NEW index \in Nat
    PROVE  /\ Session(name, id, index) \in Screen /\ Session(name, id, index) \in SessionScreen
           /\ Session(name, id, index).screen = name /\ Session(name, id, index).lesson = id
           /\ Session(name, id, index).index = index /\ Session(name, id, index).rev = active
BY TypeFacts, NewScreens DEF Session

\* A session starts from the main screen.
LEMMA StartMoves ==
    ASSUME TypeInv, Top.screen = "Main", NEW id \in AllIds, NEW index \in Nat,
           index = 0 \/ index = ResumeIndex(ActivePack, id, progress.learned),
           id = memo.lesson \/ id \in progress.completed,
           StartAt(id, index)
    PROVE  Moved
<1> DEFINE s == Session("SayTheWord", id, index)
<1>1. /\ s \in Screen /\ s.screen = "SayTheWord" /\ s.lesson = id /\ s.index = index /\ s.rev = active
      /\ Show(s) /\ Moves
  BY SessionIs DEF StartAt, SessionScreens
<1> HIDE DEF s
<1>2. OpenedFrom(s, Top)
  BY <1>1, OpenedFromCases
<1>3. Opens(s, Top)
  BY <1>1, <1>2 DEF Opens
<1> QED BY <1>1, <1>3, ShowMoves DEF Moves

LEMMA SessionStartsMove == TypeInv /\ (StartSession \/ PressMapNode \/ PressActiveNode) => Moved
<1> SUFFICES ASSUME TypeInv, StartSession \/ PressMapNode \/ PressActiveNode PROVE Moved
  OBVIOUS
<1>1. active \in Revisions /\ ActivePack = Packs[active] /\ memo.lesson \in AllIds
  BY TypeFacts DEF StoreOK, MemoRecord
<1>2. \A id : ResumeIndex(ActivePack, id, progress.learned) \in Nat
  BY <1>1, ResumeFacts
<1>3. \A r \in Revisions : LessonIds(Packs[r]) \subseteq AllIds
  BY DEF AllIds
<1>4. CASE StartSession
  <2>1. Top.screen = "Main" /\ Resume(memo.lesson)
    BY <1>4 DEF StartSession, TalkTop, Shown
  <2> QED BY <1>1, <1>2, <2>1, StartMoves DEF Resume
<1>5. CASE PressMapNode
  <2>1. Top.screen = "Main"
    BY <1>5 DEF PressMapNode, TalkTop, Shown
  <2>2. PICK id \in LessonIds(Packs[Top.rev]) : StatusOnMap(id) = "done" /\ StartAt(id, 0)
    BY <1>5 DEF PressMapNode
  <2>3. id \in AllIds
    BY <1>3, <2>1, <2>2, MainFields
  <2>4. id \in progress.completed
    BY <2>2 DEF StatusOnMap, LessonStatus
  <2> QED BY <2>1, <2>2, <2>3, <2>4, StartMoves
<1>6. CASE PressActiveNode
  <2>1. Top.screen = "Main"
    BY <1>6 DEF PressActiveNode, TalkTop, Shown
  <2>2. PICK id \in LessonIds(Packs[Top.rev]) : StatusOnMap(id) = "active" /\ Resume(id)
    BY <1>6 DEF PressActiveNode
  <2>3. id \in AllIds
    BY <1>3, <2>1, <2>2, MainFields
  <2>4. id = memo.lesson
    BY <2>2 DEF StatusOnMap, LessonStatus
  <2> QED BY <1>2, <2>1, <2>2, <2>3, <2>4, StartMoves DEF Resume
<1> QED BY <1>4, <1>5, <1>6

LEMMA WordMoves == TypeInv /\ (SayTheWord \/ NextWord) => Moved
<1> SUFFICES ASSUME TypeInv, SayTheWord \/ NextWord PROVE Moved
  OBVIOUS
<1>1. CASE SayTheWord
  <2> DEFINE s == Session("MicroConversation", Top.lesson, Top.index)
  <2>1. Top.screen = "SayTheWord" /\ Show(s) /\ Says(ShownWord(Top))
    BY <1>1 DEF SayTheWord, Shown
  <2>2. UNCHANGED <<packVars, day, storeVars, marks>> /\ said \subseteq said'
        /\ ShownWord(Top) \in said' \cup SeedWords
    BY <1>1, <2>1 DEF SayTheWord, Says, storeVars
  <2>3. /\ s \in Screen /\ s.screen = "MicroConversation"
        /\ s.lesson = Top.lesson /\ s.index = Top.index /\ s.rev = active
    BY <2>1, SessionTop, SessionIs DEF SessionScreens
  <2> HIDE DEF s
  <2>4. OpenedFrom(s, Top)
    BY <2>1, <2>3, OpenedFromCases
  <2>5. Opens(s, Top)
    BY <2>2, <2>3, <2>4 DEF Opens
  <2> QED BY <2>1, <2>2, <2>3, <2>5, ShowMoves
<1>2. CASE NextWord
  <2> DEFINE s == Session("SayTheWord", Top.lesson, Top.index + 1)
  <2>1. Top.screen = "Feedback" /\ Show(s) /\ Moves
    BY <1>2 DEF NextWord, Shown, StartAt
  <2>2. /\ s \in Screen /\ s.screen = "SayTheWord"
        /\ s.lesson = Top.lesson /\ s.index = Top.index + 1 /\ s.rev = active
    BY <2>1, SessionTop, SessionIs DEF SessionScreens
  <2> HIDE DEF s
  <2>3. OpenedFrom(s, Top)
    BY <2>1, <2>2, OpenedFromCases
  <2>4. Opens(s, Top)
    BY <2>1, <2>2, <2>3 DEF Opens
  <2> QED BY <2>1, <2>2, <2>4, ShowMoves DEF Moves
<1> QED BY <1>1, <1>2

LEMMA TalkBackEvents == TypeInv /\ TalkBack => Moved \/ Praised
<1> SUFFICES ASSUME TypeInv, TalkBack PROVE Moved \/ Praised
  OBVIOUS
<1>1. Top.screen = "MicroConversation" /\ Says(ShownWord(Top))
  BY DEF TalkBack, Shown
<1>2. UNCHANGED <<packVars, day, disk, marks>> /\ said \subseteq said'
  BY <1>1 DEF Says
<1>3. CASE Show(Session("SoundPractice", Top.lesson, Top.index)) /\ UNCHANGED <<progress, load, memo, pending>>
  <2> DEFINE s == Session("SoundPractice", Top.lesson, Top.index)
  <2>1. UNCHANGED <<packVars, day, storeVars, marks>>
    BY <1>2, <1>3 DEF storeVars
  <2>2. /\ s \in Screen /\ s.screen = "SoundPractice"
        /\ s.lesson = Top.lesson /\ s.index = Top.index /\ s.rev = active /\ Show(s)
    BY <1>1, <1>3, SessionTop, SessionIs DEF SessionScreens
  <2> HIDE DEF s
  <2>3. OpenedFrom(s, Top)
    BY <1>1, <2>2, OpenedFromCases
  <2>4. Opens(s, Top)
    BY <1>1, <2>2, <2>3 DEF Opens
  <2> QED BY <1>1, <1>2, <2>1, <2>2, <2>4, ShowMoves
<1>4. CASE Praise(stack)
  <2> DEFINE s == Session("Feedback", Top.lesson, Top.index)
             st == Append(stack, s)
  <2>1. UNCHANGED load /\ Commit(progress, st, TRUE)
    BY <1>4 DEF Praise
  <2>2. s \in Screen
    BY <1>1, SessionTop, SessionIs DEF SessionScreens
  <2>3. st \in Seq(Screen) /\ Praises(st)
    BY <1>1, <2>2, TypeFacts DEF Praises
  <2> HIDE DEF st
  <2> QED BY <1>2, <2>1, <2>3 DEF Praised
<1> QED BY <1>3, <1>4 DEF TalkBack

LEMMA GoToFeedbackPraises == TypeInv /\ GoToFeedback => Praised
<1> SUFFICES ASSUME TypeInv, GoToFeedback PROVE Praised
  OBVIOUS
<1>1. Top.screen = "SoundPractice" /\ Praise(Front(stack))
      /\ UNCHANGED <<packVars, day, disk, said, marks>>
  BY DEF GoToFeedback, Shown
<1> DEFINE s == Session("Feedback", Top.lesson, Top.index)
           st == Append(Front(stack), s)
<1>2. UNCHANGED load /\ Commit(progress, st, TRUE)
  BY <1>1 DEF Praise
<1>3. s \in Screen
  BY <1>1, SessionTop, SessionIs DEF SessionScreens
<1>4. Len(stack) > 1 /\ Front(stack) \in Seq(Screen)
  BY <1>1, TypeFacts, StackFacts
<1>5. st \in Seq(Screen) /\ Praises(st)
  BY <1>1, <1>3, <1>4 DEF Praises
<1> HIDE DEF st
<1> QED BY <1>1, <1>2, <1>5 DEF Praised

LEMMA ReadEvents == TypeInv /\ (ReadProgress \/ ReadProgressFails) => Hydrated \/ Died
<1> SUFFICES ASSUME TypeInv, ReadProgress \/ ReadProgressFails PROVE Hydrated \/ Died
  OBVIOUS
<1>1. load = "reading" /\ UNCHANGED <<packVars, day, disk, said>>
  BY DEF ReadProgress, ReadProgressFails
<1>2. MarksRead
  BY DEF ReadProgress, ReadProgressFails, MarksRead
<1>3. ASSUME NEW p, Payload(p), Hydrate(p) PROVE Hydrated
  BY <1>1, <1>2, <1>3 DEF Hydrate, Hydrated
<1>4. ASSUME SeedProgress, disk = <<>> \/ "unread" \in marks' PROVE Hydrated \/ Died
  <2>1. CASE CanSeed(ActivePack)
    <3>1. Hydrate(DemoSeed(ActivePack, day)) /\ Payload(DemoSeed(ActivePack, day))
      BY <1>4, <2>1 DEF SeedProgress, Payload
    <3> QED BY <1>3, <3>1
  <2>2. CASE ~CanSeed(ActivePack)
    BY <1>1, <1>2, <1>4, <2>2 DEF SeedProgress, Died
  <2> QED BY <2>1, <2>2
<1>5. ASSUME disk # <<>>, Hydrate(Head(disk)) PROVE Hydrated
  <2>1. Head(disk) = disk[1]
    OBVIOUS
  <2> QED BY <1>3, <1>5, <2>1 DEF Payload
<1>6. CASE ReadProgressFails
  <2>1. SeedProgress /\ (disk = <<>> \/ "unread" \in marks')
    BY <1>6 DEF ReadProgressFails, NoSave
  <2> QED BY <1>4, <2>1
<1>7. CASE ReadProgress
  BY <1>4, <1>5, <1>7 DEF ReadProgress, NoSave
<1> QED BY <1>6, <1>7

\* The other events are the actions themselves.
Event ==
    \/ Moved \/ Praised \/ FinishLesson \/ Hydrated \/ Died \/ SaveDone \/ SaveFails
    \/ Boot \/ BootFails \/ StorePack \/ ApplyContentPack \/ NextDay \/ Relaunched

LEMMA NextEvents == TypeInv /\ [Next]_vars => Event
<1> SUFFICES ASSUME TypeInv, [Next]_vars PROVE Event
  OBVIOUS
<1>1. CASE Store
  BY <1>1, ReadEvents DEF Store, Event
<1>2. CASE Onboarding
  BY <1>2, OnboardingMoves DEF Event
<1>3. CASE Tabs
  BY <1>3, TabsMove DEF Event
<1>4. CASE Speaking
  BY <1>4, SessionStartsMove, WordMoves, TalkBackEvents, GoToFeedbackPraises, ParentsMove
  DEF Speaking, Event
<1>5. CASE Parents
  <2>1. CASE \E tab \in {"Progress", "Account", "Plan"} : PressParentTab(tab)
    BY <2>1, PressParentTabMoves DEF Event
  <2> QED BY <1>5, <2>1, ParentsMove DEF Parents, Event
<1>6. CASE GoBack
  BY <1>6, GoBackMoves DEF Event
<1>7. CASE Device
  BY <1>7 DEF Device, Event
<1>8. CASE UNCHANGED vars
  <2>1. AlikeAll(stack, stack') /\ Len(stack') <= MaxDepth
    BY <1>8, TypeFacts, AlikeItself DEF vars, StackOK
  <2>2. UNCHANGED <<packVars, day, storeVars, marks>> /\ said \subseteq said'
    BY <1>8 DEF vars
  <2> QED BY <2>1, <2>2, TypeFacts, StillMoves DEF Walks, Event
<1> QED BY <1>1, <1>2, <1>3, <1>4, <1>5, <1>6, <1>7, <1>8 DEF Next

LEMMA NothingFacts ==
    /\ Nothing \in Progress /\ Nothing.learned = <<>> /\ Nothing.completed = {} /\ Nothing.days = {}
    /\ IsInjective(Nothing.learned) /\ Range(Nothing.learned) = {}
BY DEF Nothing, Progress, IsInjective, Range

LEMMA BundledFacts ==
    /\ Bundled \in Revisions
    /\ ActiveLesson(Packs[Bundled], {}) \in AllIds
<1>1. Bundled \in Revisions
  BY AppAssumption, NewestAssumption DEF Bundled, Revisions
<1>2. PICK k \in DOMAIN Packs[Bundled] : ActiveLesson(Packs[Bundled], {}) = Packs[Bundled][k].id
  BY <1>1, ActiveFacts
<1> QED BY <1>1, <1>2, PackFacts

LEMMA WelcomeStack ==
    /\ <<Plain("Welcome")>> \in Seq(Screen) /\ Len(<<Plain("Welcome")>>) = 1
    /\ <<Plain("Welcome")>>[1] = Plain("Welcome")
<1>1. Plain("Welcome") \in Screen
  BY DEF Plain, PlainScreen, Screen
<1> QED BY <1>1

\* A trail begins with the welcome screen.
LEMMA TrailFacts ==
    ASSUME StackOK, NEW st \in Seq(Screen),
           \/ st = stack
           \/ Len(stack) > 1 /\ st = Front(stack)
           \/ \E s \in Screen : st = Append(stack, s)
           \/ \E s \in Screen : Len(stack) > 1 /\ st = Append(Front(stack), s)
    PROVE  Len(st) \in Nat \ {0} /\ st[1] = Plain("Welcome")
<1>1. Len(stack) \in Nat \ {0} /\ stack[1] = Plain("Welcome") /\ stack \in Seq(Screen)
  BY StackFacts DEF StackOK
<1>2. Len(stack) > 1 =>
        /\ Front(stack) \in Seq(Screen) /\ Len(Front(stack)) \in Nat \ {0}
        /\ Front(stack)[1] = Plain("Welcome")
  BY <1>1, StackFacts
<1>3. CASE \E s \in Screen : Len(stack) > 1 /\ st = Append(Front(stack), s)
  <2> DEFINE below == Front(stack)
  <2>1. below \in Seq(Screen) /\ Len(below) \in Nat \ {0} /\ below[1] = Plain("Welcome")
    BY <1>2, <1>3
  <2>2. \E s \in Screen : st = Append(below, s)
    BY <1>3
  <2> HIDE DEF below
  <2> QED BY <2>1, <2>2
<1>4. CASE \E s \in Screen : st = Append(stack, s)
  BY <1>1, <1>4
<1> QED BY <1>1, <1>2, <1>3, <1>4

LEMMA WalkFacts ==
    ASSUME TypeInv, NEW st \in Seq(Screen), Walks(st) \/ Praises(st)
    PROVE  Len(st) \in Nat \ {0} /\ st[1] = Plain("Welcome")
<1>1. CASE Walks(st)
  BY <1>1, TypeFacts, TrailFacts DEF Walks
<1>2. CASE Praises(st)
  <2>1. Session("Feedback", Top.lesson, Top.index) \in Screen
    BY <1>2, SessionTop, SessionIs DEF Praises, SessionScreens
  <2> QED BY <1>2, <2>1, TypeFacts, TrailFacts DEF Praises
<1> QED BY <1>1, <1>2

LEMMA StackStays ==
    ASSUME NEW st \in Seq(Screen), Len(st) \in Nat \ {0}, st[1] = Plain("Welcome"),
           AlikeAll(st, stack'), Len(stack') <= MaxDepth
    PROVE  StackOK'
<1>1. /\ stack' \in Seq(Screen) /\ Len(stack') = Len(st)
      /\ Alike(st[1], stack'[1])
  BY DEF AlikeAll
<1>2. stack'[1] = Plain("Welcome")
  BY <1>1 DEF Alike, Plain, ReadsProgress
<1>3. Len(stack') \in 1..MaxDepth
  BY <1>1, AppAssumption
<1> QED BY <1>1, <1>2, <1>3 DEF StackOK

LEMMA DeviceStays ==
    ASSUME DeviceOK, UNCHANGED <<packVars, day>>, marks' \subseteq Marks
    PROVE  DeviceOK'
BY DEF DeviceOK, packVars, PackCacheTypeOK

\* A commit keeps the types, whatever the state it starts from.
LEMMA CommitTypes ==
    ASSUME TypeInv, UNCHANGED <<packVars, day, disk>>, marks' \subseteq Marks,
           load' \in Loads,
           NEW p \in Progress, IsProgress(p), NEW st \in Seq(Screen),
           Len(st) \in Nat \ {0}, st[1] = Plain("Welcome"),
           NEW mounted \in BOOLEAN, mounted => Last(st) \in SessionScreen,
           Commit(p, st, mounted)
    PROVE  TypeInv'
<1>1. /\ progress' \in Progress /\ IsProgress(progress')
      /\ memo' \in MemoRecord /\ memo'.day = day
      /\ stack' = Rerendered(st) /\ Len(stack') <= MaxDepth
      /\ pending' = IF load' = "done" THEN Append(pending, progress') ELSE pending
  BY CommitEvent, TypeFacts
<1>2. DeviceOK'
  BY TypeFacts, DeviceStays
<1>3. day' = day /\ day \in Nat
  BY DeviceFacts, TypeFacts
<1>4. StoreOK'
  BY <1>1, <1>3 DEF StoreOK, IsProgress
<1>5. SavesOK'
  <2>1. /\ disk \in Seq(Progress) /\ Len(disk) <= 1 /\ disk' = disk
        /\ \A i \in 1..Len(disk) : IsProgress(disk[i])
        /\ pending \in Seq(Progress) /\ Len(pending) \in Nat
        /\ \A i \in 1..Len(pending) : IsProgress(pending[i])
    BY TypeFacts DEF SavesOK
  <2>2. pending' \in Seq(Progress) /\ \A i \in 1..Len(pending') : IsProgress(pending'[i])
    <3>1. CASE pending' = pending
      BY <2>1, <3>1
    <3>2. CASE pending' = Append(pending, progress')
      <4>1. /\ pending' \in Seq(Progress) /\ Len(pending') = Len(pending) + 1
            /\ \A i \in 1..Len(pending') :
                    pending'[i] = IF i = Len(pending) + 1 THEN progress' ELSE pending[i]
        BY <1>1, <2>1, <3>2
      <4>2. \A i \in 1..Len(pending') : i # Len(pending) + 1 => i \in 1..Len(pending)
        BY <2>1, <4>1
      <4> QED BY <1>1, <2>1, <4>1, <4>2
    <3> QED BY <1>1, <3>1, <3>2
  <2>3. \A q : IsProgress(q) => IsInjective(q.learned) /\ Range(q.learned) \subseteq AllWords
                             /\ q.completed \subseteq AllIds /\ q.days \subseteq FirstDay - 6..day'
    BY <1>3 DEF IsProgress
  <2> QED BY <2>1, <2>2, <2>3 DEF SavesOK, IsProgress
<1>6. StackOK'
  BY <1>1, RerenderedAlike, StackStays, TypeFacts
<1> QED BY <1>2, <1>4, <1>5, <1>6 DEF TypeInv

Finished == CompleteLesson(progress, Top.lesson, day)
Growth == [screen |-> "GrowthCelebration", lesson |-> Top.lesson, rev |-> active]

LEMMA FinishFacts ==
    ASSUME TypeInv, FinishLesson
    PROVE  /\ Top.screen = "Feedback" /\ Top \in SessionScreen
           /\ IsLastWord(Packs[Top.rev], Top.lesson, Top.index)
           /\ UNCHANGED <<packVars, day, load, disk, said>>
           /\ marks \subseteq marks' /\ marks' \subseteq marks \cup {"short"}
           /\ Finished \in Progress /\ IsProgress(Finished)
           /\ Growth \in Screen /\ OpenedFrom(Growth, Top)
           /\ Append(stack, Growth) \in Seq(Screen)
           /\ Len(Append(stack, Growth)) \in Nat \ {0} /\ Append(stack, Growth)[1] = Plain("Welcome")
           /\ Commit(Finished, Append(stack, Growth), FALSE)
<1>1. /\ Top.screen = "Feedback" /\ IsLastWord(Packs[Top.rev], Top.lesson, Top.index)
      /\ UNCHANGED <<packVars, day, load, disk, said>>
      /\ marks \subseteq marks' /\ marks' \subseteq marks \cup {"short"}
      /\ Commit(Finished, Append(stack, Growth), FALSE)
  BY DEF FinishLesson, Shown, Finished, Growth
<1>2. Top \in SessionScreen /\ Top.lesson \in AllIds
  BY <1>1, SessionTop DEF SessionScreens
<1>3. Finished \in Progress /\ IsProgress(Finished)
  <2>1. progress \in Progress /\ IsProgress(progress) /\ day \in Int
    BY TypeFacts, DeviceFacts DEF StoreOK
  <2>2. /\ Finished \in Progress /\ Finished.learned = progress.learned
        /\ Finished.completed = progress.completed \cup {Top.lesson}
        /\ Finished.days = progress.days \cup {day}
    BY <1>2, <2>1, CompleteFacts DEF Finished
  <2>3. day \in FirstDay - 6..day
    BY TypeFacts, AppAssumption DEF DeviceOK
  <2> QED BY <1>2, <2>1, <2>2, <2>3 DEF IsProgress
<1>4. Growth \in Screen
  BY <1>2, TypeFacts, NewScreens DEF Growth
<1>5. OpenedFrom(Growth, Top)
  <2>1. Growth.screen = "GrowthCelebration" /\ Growth.lesson = Top.lesson
    BY DEF Growth
  <2> QED BY <1>1, <2>1, OpenedFromCases
<1>6. Append(stack, Growth) \in Seq(Screen)
  BY <1>4, TypeFacts
<1>7. Len(Append(stack, Growth)) \in Nat \ {0} /\ Append(stack, Growth)[1] = Plain("Welcome")
  BY <1>4, <1>6, TypeFacts, TrailFacts
<1> QED BY <1>1, <1>2, <1>3, <1>4, <1>5, <1>6, <1>7

LEMMA PayloadFacts ==
    ASSUME TypeInv, NEW p, Payload(p)
    PROVE  p \in Progress /\ IsProgress(p)
<1>1. CASE disk # <<>> /\ p = disk[1]
  <2>1. disk \in Seq(Progress) /\ \A i \in 1..Len(disk) : IsProgress(disk[i])
    BY TypeFacts DEF SavesOK
  <2>2. 1 \in 1..Len(disk) /\ disk[1] \in Progress
    BY <1>1, <2>1
  <2> QED BY <1>1, <2>1, <2>2
<1>2. CASE CanSeed(ActivePack) /\ p = DemoSeed(ActivePack, day)
  <2>1. active \in Revisions /\ ActivePack = Packs[active] /\ day \in Int /\ CanSeed(Packs[active])
    BY <1>2, TypeFacts, DeviceFacts
  <2>2. /\ p \in Progress /\ IsInjective(p.learned)
        /\ p.completed \subseteq AllIds /\ p.learned \in Seq(AllWords)
        /\ p.days = (day - 6)..(day - 1)
    BY <1>2, <2>1, SeedFacts, ProgressFields
  <2>3. Range(p.learned) \subseteq AllWords
    <3> DEFINE l == p.learned
    <3>1. DOMAIN l = 1..Len(l) /\ \A i \in 1..Len(l) : l[i] \in AllWords
      BY <2>2
    <3> QED BY <3>1 DEF Range
  <2>4. (day - 6)..(day - 1) \subseteq FirstDay - 6..day
    BY TypeFacts, AppAssumption DEF DeviceOK
  <2> QED BY <2>2, <2>3, <2>4 DEF IsProgress
<1> QED BY <1>1, <1>2 DEF Payload

LEMMA PraisedFacts ==
    ASSUME TypeInv, NEW st \in Seq(Screen), Praises(st)
    PROVE  /\ Top \in SessionScreen
           /\ Last(st) = Session("Feedback", Top.lesson, Top.index)
           /\ Last(st) \in SessionScreen
<1> DEFINE s == Session("Feedback", Top.lesson, Top.index)
<1>1. Top \in SessionScreen /\ s \in Screen /\ s \in SessionScreen
  BY SessionTop, SessionIs DEF Praises, SessionScreens
<1>2. /\ stack \in Seq(Screen) /\ Len(stack) > 1 => Front(stack) \in Seq(Screen)
      /\ st = Append(stack, s) \/ (Len(stack) > 1 /\ st = Append(Front(stack), s))
  BY TypeFacts, StackFacts DEF Praises
<1> HIDE DEF s
<1>3. \A tt \in Seq(Screen) : Append(tt, s)[Len(Append(tt, s))] = s
  BY <1>1
<1>4. Last(st) = s
  BY <1>2, <1>3 DEF Last
<1> QED BY <1>1, <1>4 DEF s

LEMMA SaveTypes ==
    ASSUME SavesOK, pending # <<>>
    PROVE  /\ Head(pending) \in Progress /\ IsProgress(Head(pending)) /\ Head(pending) = pending[1]
           /\ Tail(pending) \in Seq(Progress) /\ Len(Tail(pending)) = Len(pending) - 1
           /\ Len(pending) \in Nat \ {0}
           /\ \A i \in 1..Len(Tail(pending)) :
                i + 1 \in 1..Len(pending) /\ Tail(pending)[i] = pending[i + 1]
           /\ \A i \in 1..Len(Tail(pending)) : IsProgress(Tail(pending)[i])
<1>1. pending \in Seq(Progress) /\ \A i \in 1..Len(pending) : IsProgress(pending[i])
  BY DEF SavesOK
<1>2. /\ Len(pending) \in Nat \ {0} /\ Head(pending) = pending[1] /\ Head(pending) \in Progress
      /\ Tail(pending) \in Seq(Progress) /\ Len(Tail(pending)) = Len(pending) - 1
      /\ \A i \in 1..Len(Tail(pending)) : Tail(pending)[i] = pending[i + 1]
  BY <1>1
<1>3. \A i \in 1..Len(Tail(pending)) : i + 1 \in 1..Len(pending)
  BY <1>2
<1> QED BY <1>1, <1>2, <1>3

LEMMA PackMoveFacts ==
    ASSUME TypeInv, Boot \/ BootFails \/ StorePack \/ ApplyContentPack
    PROVE  /\ UNCHANGED <<day, storeVars, stack, said>>
           /\ marks \subseteq marks' /\ marks' \subseteq marks \cup {"uncached", "drift"}
           /\ PackCacheTypeOK'
<1>1. PackCacheTypeOK /\ Revisions = 1..Newest
  BY TypeFacts, AppAssumption DEF DeviceOK, Revisions
<1>2. CASE Boot
  BY <1>1, <1>2 DEF Boot, BootFromCache, PackCacheTypeOK
<1>3. CASE BootFails
  BY <1>1, <1>3 DEF BootFails, BootWithoutCache, PackCacheTypeOK
<1>4. CASE StorePack
  BY <1>1, <1>4 DEF StorePack, CachePack, PackCacheTypeOK
<1>5. CASE ApplyContentPack
  BY <1>1, <1>5 DEF ApplyContentPack, SwapPack, PackCacheTypeOK
<1> QED BY <1>2, <1>3, <1>4, <1>5

LEMMA StoreStays ==
    ASSUME StoreOK, SavesOK, UNCHANGED storeVars, day \in Nat, day' \in Nat, day <= day'
    PROVE  StoreOK' /\ SavesOK'
<1>1. UNCHANGED <<progress, load, memo, disk, pending>>
  BY DEF storeVars
<1>2. \A p : IsProgress(p) => IsInjective(p.learned) /\ Range(p.learned) \subseteq AllWords
                             /\ p.completed \subseteq AllIds /\ p.days \subseteq FirstDay - 6..day'
  BY AppAssumption DEF IsProgress
<1>3. StoreOK'
  BY <1>1, <1>2 DEF StoreOK, IsProgress, MemoRecord
<1>4. SavesOK'
  BY <1>1, <1>2 DEF SavesOK, IsProgress
<1> QED BY <1>3, <1>4

LEMMA TypeInit == Init => TypeInv
<1> SUFFICES ASSUME Init PROVE TypeInv
  OBVIOUS
<1>1. /\ day = FirstDay /\ active = 1 /\ cached = 0 /\ booted = FALSE
      /\ progress = Nothing /\ load = "reading" /\ disk = <<>> /\ pending = <<>>
      /\ memo = [lesson |-> ActiveLesson(Packs[Bundled], {}), streak |-> 0, day |-> day]
      /\ stack = <<Plain("Welcome")>> /\ marks = {}
  BY DEF Init, PackCacheInit, StoreInit, NoSave
<1>2. DeviceOK
  <2>1. active \in 1..Newest /\ cached \in 0..Newest
    BY <1>1, NewestAssumption
  <2>2. booted \in BOOLEAN
    BY <1>1
  <2>3. day \in Nat /\ FirstDay <= day
    BY <1>1, AppAssumption
  <2> QED BY <1>1, <2>1, <2>2, <2>3 DEF DeviceOK, PackCacheTypeOK
<1>3. StoreOK
  <2>1. day \in Nat /\ memo \in MemoRecord /\ memo.day = day
    BY <1>1, AppAssumption, BundledFacts DEF MemoRecord
  <2>2. IsProgress(progress)
    BY <1>1, NothingFacts DEF IsProgress
  <2> QED BY <1>1, <2>1, <2>2, NothingFacts DEF StoreOK, Loads
<1>4. SavesOK
  BY <1>1 DEF SavesOK
<1>5. StackOK
  BY <1>1, WelcomeStack, AppAssumption DEF StackOK
<1> QED BY <1>2, <1>3, <1>4, <1>5 DEF TypeInv

LEMMA TypeStep == TypeInv /\ [Next]_vars => TypeInv'
<1> SUFFICES ASSUME TypeInv, [Next]_vars PROVE TypeInv'
  OBVIOUS
<1>1. Event
  BY NextEvents
<1>2. /\ DeviceOK /\ StoreOK /\ SavesOK /\ StackOK /\ day \in Nat
      /\ progress \in Progress /\ IsProgress(progress) /\ load \in Loads /\ marks \subseteq Marks
  BY TypeFacts DEF DeviceOK, StoreOK
<1>3. CASE Moved
  <2>1. PICK st \in Seq(Screen) : Walks(st) /\ AlikeAll(st, stack')
    BY <1>3 DEF Moved
  <2>2. StackOK'
    BY <1>3, <2>1, WalkFacts, StackStays DEF Moved
  <2>3. DeviceOK'
    BY <1>2, <1>3, DeviceStays DEF Moved
  <2>4. StoreOK' /\ SavesOK'
    BY <1>2, <1>3, StoreStays DEF Moved
  <2> QED BY <2>2, <2>3, <2>4 DEF TypeInv
<1>4. CASE Praised
  <2>1. PICK st \in Seq(Screen) : Praises(st) /\ Commit(progress, st, TRUE)
    BY <1>4 DEF Praised
  <2>2. Len(st) \in Nat \ {0} /\ st[1] = Plain("Welcome") /\ Last(st) \in SessionScreen
    BY <2>1, WalkFacts, PraisedFacts
  <2>3. UNCHANGED <<packVars, day, disk>> /\ marks' \subseteq Marks /\ load' \in Loads
    BY <1>2, <1>4 DEF Praised
  <2> QED BY <1>2, <2>1, <2>2, <2>3, CommitTypes
<1>5. CASE FinishLesson
  <2>1. /\ UNCHANGED <<packVars, day, disk>> /\ marks' \subseteq Marks /\ load' \in Loads
        /\ Finished \in Progress /\ IsProgress(Finished)
        /\ Append(stack, Growth) \in Seq(Screen)
        /\ Len(Append(stack, Growth)) \in Nat \ {0} /\ Append(stack, Growth)[1] = Plain("Welcome")
        /\ Commit(Finished, Append(stack, Growth), FALSE)
    BY <1>2, <1>5, FinishFacts DEF Marks
  <2> QED BY <2>1, CommitTypes
<1>6. CASE Hydrated
  <2>1. PICK p : Payload(p) /\ Commit(p, stack, FALSE)
    BY <1>6 DEF Hydrated
  <2>2. /\ UNCHANGED <<packVars, day, disk>> /\ load' \in Loads /\ marks' \subseteq Marks
        /\ p \in Progress /\ IsProgress(p)
        /\ stack \in Seq(Screen) /\ Len(stack) \in Nat \ {0} /\ stack[1] = Plain("Welcome")
    BY <1>2, <1>6, <2>1, PayloadFacts, StackFacts DEF Hydrated, Loads, MarksRead, Marks, StackOK
  <2> QED BY <2>1, <2>2, CommitTypes
<1>7. CASE Died
  <2>1. DeviceOK'
    BY <1>2, <1>7, DeviceStays DEF Died, MarksRead, Marks
  <2>2. StoreOK'
    BY <1>2, <1>7 DEF Died, StoreOK, IsProgress, MemoRecord, Loads
  <2>3. SavesOK'
    BY <1>2, <1>7 DEF Died, SavesOK, IsProgress
  <2>4. StackOK'
    BY <1>2, <1>7 DEF Died, StackOK
  <2> QED BY <2>1, <2>2, <2>3, <2>4 DEF TypeInv
<1>8. CASE SaveDone
  <2>1. /\ pending # <<>> /\ disk' = <<Head(pending)>> /\ pending' = Tail(pending)
        /\ UNCHANGED <<packVars, day, progress, load, memo, stack, marks>>
    BY <1>8 DEF SaveDone
  <2>2. SavesOK'
    <3>1. disk' \in Seq(Progress) /\ Len(disk') = 1 /\ disk'[1] = Head(pending) /\ IsProgress(disk'[1])
      BY <1>2, <2>1, SaveTypes
    <3>2. pending' \in Seq(Progress) /\ \A i \in 1..Len(pending') : IsProgress(pending'[i])
      BY <1>2, <2>1, SaveTypes
    <3>3. \A i \in 1..Len(disk') : i = 1
      BY <3>1
    <3>4. Len(disk') <= 1 /\ \A i \in 1..Len(disk') : IsProgress(disk'[i])
      BY <3>1, <3>3
    <3> QED BY <2>1, <3>1, <3>2, <3>4 DEF SavesOK, IsProgress
  <2>3. DeviceOK'
    BY <1>2, <2>1, DeviceStays
  <2>4. StoreOK' /\ StackOK'
    BY <1>2, <2>1 DEF StoreOK, IsProgress, MemoRecord, StackOK
  <2> QED BY <2>2, <2>3, <2>4 DEF TypeInv
<1>9. CASE SaveFails
  <2>1. /\ pending # <<>> /\ pending' = Tail(pending) /\ marks' \subseteq Marks
        /\ UNCHANGED <<packVars, day, progress, load, memo, disk, stack>>
    BY <1>2, <1>9 DEF SaveFails, Marks
  <2>2. SavesOK'
    <3>1. pending' \in Seq(Progress) /\ \A i \in 1..Len(pending') : IsProgress(pending'[i])
      BY <1>2, <2>1, SaveTypes
    <3> QED BY <1>2, <2>1, <3>1 DEF SavesOK, IsProgress
  <2>3. DeviceOK'
    BY <1>2, <2>1, DeviceStays
  <2>4. StoreOK' /\ StackOK'
    BY <1>2, <2>1 DEF StoreOK, IsProgress, MemoRecord, StackOK
  <2> QED BY <2>2, <2>3, <2>4 DEF TypeInv
<1>10. CASE Boot \/ BootFails \/ StorePack \/ ApplyContentPack
  <2>1. /\ UNCHANGED <<day, storeVars, stack>> /\ PackCacheTypeOK' /\ marks' \subseteq Marks
    BY <1>2, <1>10, PackMoveFacts DEF Marks
  <2>2. DeviceOK' /\ StackOK'
    BY <1>2, <2>1 DEF DeviceOK, StackOK
  <2>3. StoreOK' /\ SavesOK'
    BY <1>2, <2>1, StoreStays
  <2> QED BY <2>2, <2>3 DEF TypeInv
<1>11. CASE NextDay
  <2>1. day' = day + 1 /\ UNCHANGED <<packVars, storeVars, stack, marks>>
    BY <1>11 DEF NextDay
  <2>2. DeviceOK' /\ StackOK'
    BY <1>2, <2>1, AppAssumption DEF DeviceOK, StackOK, packVars, PackCacheTypeOK
  <2>3. StoreOK' /\ SavesOK'
    BY <1>2, <2>1, StoreStays
  <2> QED BY <2>2, <2>3 DEF TypeInv
<1>12. CASE Relaunched
  <2>1. /\ active' = 1 /\ booted' = FALSE /\ cached' = cached /\ progress' = Nothing /\ load' = "reading"
        /\ memo' = [lesson |-> ActiveLesson(Packs[Bundled], {}), streak |-> 0, day |-> day]
        /\ pending' = <<>> /\ stack' = <<Plain("Welcome")>> /\ UNCHANGED <<day, disk, marks>>
    BY <1>12 DEF Relaunched, Relaunch
  <2>2. DeviceOK'
    <3>1. active' \in 1..Newest
      BY <2>1, NewestAssumption
    <3>3. booted' \in BOOLEAN
      BY <2>1
    <3>2. cached' \in 0..Newest
      BY <1>2, <2>1 DEF DeviceOK, PackCacheTypeOK
    <3> QED BY <1>2, <2>1, <3>1, <3>2, <3>3 DEF DeviceOK, PackCacheTypeOK
  <2>3. StoreOK'
    <3>1. memo' \in MemoRecord /\ memo'.day = day
      BY <1>2, <2>1, BundledFacts DEF MemoRecord
    <3>2. IsProgress(progress)'
      BY <2>1, NothingFacts DEF IsProgress
    <3> QED BY <1>2, <2>1, <3>1, <3>2, NothingFacts DEF StoreOK, Loads
  <2>4. SavesOK'
    BY <1>2, <2>1 DEF SavesOK, IsProgress
  <2>5. StackOK'
    BY <2>1, WelcomeStack, AppAssumption DEF StackOK
  <2> QED BY <2>2, <2>3, <2>4, <2>5 DEF TypeInv
<1> QED BY <1>1, <1>3, <1>4, <1>5, <1>6, <1>7, <1>8, <1>9, <1>10, <1>11, <1>12 DEF Event

THEOREM TypeInvariance == Spec => []TypeInv
BY TypeInit, TypeStep, PTL DEF Spec

\* The types hold of every reachable state: no word is learned twice, no day
\* practised lies ahead, and the first screen of the stack is the welcome
\* (the reducer of ProgressContext, RootNavigator).
THEOREM TypesHold == Spec => []AppTypeOK
<1>1. TypeInv => AppTypeOK
  <2> SUFFICES ASSUME TypeInv PROVE AppTypeOK
    OBVIOUS
  <2>1. /\ PackCacheTypeOK /\ IsProgress(progress) /\ load \in {"reading", "done", "dead"}
        /\ memo.streak \in Nat /\ memo.day <= day /\ marks \subseteq Marks
    BY TypeFacts DEF DeviceOK, StoreOK, MemoRecord, Loads
  <2>2. Len(disk) <= 1 /\ \A p \in Range(disk) \cup Range(pending) : IsProgress(p)
    <3>1. /\ disk \in Seq(Progress) /\ Len(disk) <= 1 /\ \A i \in 1..Len(disk) : IsProgress(disk[i])
          /\ pending \in Seq(Progress) /\ \A i \in 1..Len(pending) : IsProgress(pending[i])
      BY TypeFacts DEF SavesOK
    <3>2. DOMAIN disk = 1..Len(disk) /\ DOMAIN pending = 1..Len(pending)
      BY <3>1
    <3> QED BY <3>1, <3>2 DEF Range
  <2>3. stack # <<>> /\ Fits(stack) /\ stack[1] = Plain("Welcome")
    BY TypeFacts, StackFacts DEF StackOK, Fits
  <2> QED BY <2>1, <2>2, <2>3 DEF AppTypeOK
<1> QED BY <1>1, TypeInvariance, PTL

(***************************************************************************)
(* The trail under a screen.  A step leaves a trail that a navigation made *)
(* of this one, with screens alike.                                        *)
(***************************************************************************)
Trail(st) == \A i \in 2..Len(st) : OpenedFrom(st[i], st[i - 1])

LEMMA StackEvents ==
    ASSUME TypeInv, Event
    PROVE  \/ stack' = <<Plain("Welcome")>>
           \/ \E st \in Seq(Screen) :
                /\ AlikeAll(st, stack')
                /\ Walks(st) \/ Praises(st) \/ (FinishLesson /\ st = Append(stack, Growth))
<1>1. active \in Revisions /\ stack \in Seq(Screen)
  BY TypeFacts
<1>2. CASE Moved
  BY <1>2 DEF Moved
<1>3. CASE Praised
  <2>1. PICK st \in Seq(Screen) : Praises(st) /\ Commit(progress, st, TRUE)
    BY <1>3 DEF Praised
  <2>2. AlikeAll(st, stack')
    BY <1>1, <2>1, RerenderedAlike DEF Commit
  <2> QED BY <2>1, <2>2
<1>4. CASE FinishLesson
  <2>1. Append(stack, Growth) \in Seq(Screen) /\ Commit(Finished, Append(stack, Growth), FALSE)
    BY <1>4, FinishFacts
  <2>2. AlikeAll(Append(stack, Growth), stack')
    BY <1>1, <2>1, RerenderedAlike DEF Commit
  <2> QED BY <1>4, <2>1, <2>2
<1>5. CASE Hydrated
  <2>1. stack' = Rerendered(stack)
    BY <1>5 DEF Hydrated, Commit
  <2>2. AlikeAll(stack, stack')
    BY <1>1, <2>1, RerenderedAlike
  <2> QED BY <1>1, <2>2 DEF Walks
<1>6. CASE UNCHANGED stack
  <2>1. AlikeAll(stack, stack')
    BY <1>1, <1>6, AlikeItself
  <2> QED BY <1>1, <2>1 DEF Walks
<1>7. CASE Relaunched
  BY <1>7 DEF Relaunched
<1>8. Died \/ SaveDone \/ SaveFails \/ NextDay => UNCHANGED stack
  BY DEF Died, SaveDone, SaveFails, NextDay
<1>9. Boot \/ BootFails \/ StorePack \/ ApplyContentPack => UNCHANGED stack
  BY DEF Boot, BootFails, StorePack, ApplyContentPack
<1> QED BY <1>2, <1>3, <1>4, <1>5, <1>6, <1>7, <1>8, <1>9 DEF Event

LEMMA AlikeOpened ==
    ASSUME NEW s, NEW b, NEW t, NEW c, Alike(s, t), Alike(b, c), OpenedFrom(s, b)
    PROVE  OpenedFrom(t, c)
<1>1. CASE s.screen = "MicroConversation"
  <2>1. b.screen = "SayTheWord" /\ b.lesson = s.lesson /\ b.index = s.index
    BY <1>1, OpenedFromCases
  <2>2. t.screen = s.screen /\ c.screen = "SayTheWord" /\ c.lesson = t.lesson /\ c.index = t.index
    BY <1>1, <2>1 DEF Alike, SessionScreens
  <2> QED BY <1>1, <2>2, OpenedFromCases
<1>2. CASE s.screen \in {"SoundPractice", "Feedback"}
  <2>1. b.screen = "MicroConversation" /\ b.lesson = s.lesson /\ b.index = s.index
    BY <1>2, OpenedFromCases
  <2>2. t.screen = s.screen /\ c.screen = "MicroConversation" /\ c.lesson = t.lesson /\ c.index = t.index
    BY <1>2, <2>1 DEF Alike, SessionScreens
  <2> QED BY <1>2, <2>2, OpenedFromCases
<1>3. CASE s.screen = "SayTheWord" /\ b.screen = "Main"
  <2>1. t.screen = s.screen /\ c.screen = "Main"
    BY <1>3 DEF Alike
  <2> QED BY <1>3, <2>1, OpenedFromCases
<1>4. CASE s.screen = "SayTheWord" /\ b.screen # "Main"
  <2>1. b.screen = "Feedback" /\ b.lesson = s.lesson /\ b.index + 1 = s.index
    BY <1>4, OpenedFromCases
  <2>2. t.screen = s.screen /\ c.screen = "Feedback" /\ c.lesson = t.lesson /\ c.index + 1 = t.index
    BY <1>4, <2>1 DEF Alike, SessionScreens
  <2> QED BY <1>4, <2>2, OpenedFromCases
<1>5. CASE s.screen = "GrowthCelebration"
  <2>1. b.screen = "Feedback" /\ b.lesson = s.lesson
    BY <1>5, OpenedFromCases
  <2>2. t.screen = s.screen /\ c.screen = "Feedback" /\ c.lesson = t.lesson
    BY <1>5, <2>1 DEF Alike, SessionScreens
  <2> QED BY <1>5, <2>2, OpenedFromCases
<1>6. CASE s.screen \notin SessionScreens \cup {"GrowthCelebration"}
  <2>1. t.screen = s.screen
    BY DEF Alike
  <2> QED BY <1>6, <2>1, OpenedFromCases
<1> QED BY <1>1, <1>2, <1>3, <1>4, <1>5, <1>6 DEF SessionScreens

LEMMA AlikeTrail ==
    ASSUME NEW st \in Seq(Screen), NEW tt, AlikeAll(st, tt), Trail(st)
    PROVE  Trail(tt)
<1> SUFFICES ASSUME NEW i \in 2..Len(tt) PROVE OpenedFrom(tt[i], tt[i - 1])
  BY DEF Trail
<1>1. Len(tt) = Len(st) /\ Len(st) \in Nat
  BY DEF AlikeAll
<1>2. i \in 1..Len(st) /\ i - 1 \in 1..Len(st) /\ i \in 2..Len(st)
  BY <1>1
<1>3. Alike(st[i], tt[i]) /\ Alike(st[i - 1], tt[i - 1]) /\ OpenedFrom(st[i], st[i - 1])
  BY <1>2 DEF AlikeAll, Trail
<1> QED BY <1>3, AlikeOpened

LEMMA AppendTrail ==
    ASSUME NEW st \in Seq(Screen), Len(st) > 0, NEW s \in Screen, Trail(st), OpenedFrom(s, st[Len(st)])
    PROVE  Trail(Append(st, s))
<1> DEFINE tt == Append(st, s)
<1>1. /\ Len(st) \in Nat /\ Len(tt) = Len(st) + 1 /\ tt[Len(st) + 1] = s
      /\ \A i \in 1..Len(st) : tt[i] = st[i]
  OBVIOUS
<1> HIDE DEF tt
<1>2. ASSUME NEW i \in 2..Len(tt) PROVE OpenedFrom(tt[i], tt[i - 1])
  <2>1. CASE i = Len(st) + 1
    <3>1. tt[i] = s /\ tt[i - 1] = st[Len(st)]
      BY <1>1, <2>1
    <3> QED BY <3>1
  <2>2. CASE i # Len(st) + 1
    <3>1. i \in 2..Len(st) /\ i \in 1..Len(st) /\ i - 1 \in 1..Len(st)
      BY <1>1, <2>2
    <3>2. tt[i] = st[i] /\ tt[i - 1] = st[i - 1] /\ OpenedFrom(st[i], st[i - 1])
      BY <1>1, <3>1 DEF Trail
    <3> QED BY <3>2
  <2> QED BY <2>1, <2>2
<1> QED BY <1>2 DEF Trail, tt

LEMMA FrontTrail ==
    ASSUME StackOK, Trail(stack), Len(stack) > 1
    PROVE  /\ Trail(Front(stack))
           /\ Len(Front(stack)) > 0 /\ OpenedFrom(Top, Front(stack)[Len(Front(stack))])
<1>1. /\ Len(stack) \in Nat /\ Len(Front(stack)) = Len(stack) - 1
      /\ \A i \in 1..Len(stack) - 1 : Front(stack)[i] = stack[i]
      /\ Top = stack[Len(stack)]
  BY StackFacts
<1>2. Trail(Front(stack))
  <2>1. ASSUME NEW i \in 2..Len(Front(stack)) PROVE OpenedFrom(Front(stack)[i], Front(stack)[i - 1])
    <3>1. i \in 2..Len(stack) /\ i \in 1..Len(stack) - 1 /\ i - 1 \in 1..Len(stack) - 1
      BY <1>1
    <3>2. Front(stack)[i] = stack[i] /\ Front(stack)[i - 1] = stack[i - 1]
      BY <1>1, <3>1
    <3> QED BY <3>1, <3>2 DEF Trail
  <2> QED BY <2>1 DEF Trail
<1>3. Len(stack) \in 2..Len(stack) /\ Len(stack) - 1 \in 1..Len(stack) - 1
  BY <1>1
<1>4. OpenedFrom(stack[Len(stack)], stack[Len(stack) - 1])
  BY <1>3 DEF Trail
<1>5. Front(stack)[Len(Front(stack))] = stack[Len(stack) - 1]
  BY <1>1, <1>3
<1> QED BY <1>1, <1>2, <1>3, <1>4, <1>5

LEMMA TrailStep == TypeInv /\ TrailCoherent /\ [Next]_vars => TrailCoherent'
<1> SUFFICES ASSUME TypeInv, TrailCoherent, [Next]_vars PROVE TrailCoherent'
  OBVIOUS
<1>1. Event
  BY NextEvents
<1>2. /\ StackOK /\ Trail(stack) /\ stack \in Seq(Screen) /\ Len(stack) > 0
      /\ Top = stack[Len(stack)]
  <2>1. Trail(stack)
    BY DEF TrailCoherent, Trail
  <2>2. StackOK /\ stack \in Seq(Screen)
    BY TypeFacts
  <2>3. Len(stack) \in Nat \ {0} /\ Top = stack[Len(stack)]
    BY <2>2, StackFacts
  <2>4. Len(stack) > 0
    BY <2>3
  <2> QED BY <2>1, <2>2, <2>3, <2>4
<1>3. ASSUME NEW st \in Seq(Screen), Walks(st) PROVE Trail(st)
  <2>1. CASE st = stack
    BY <1>2, <2>1
  <2>2. CASE Len(stack) > 1 /\ st = Front(stack)
    BY <1>2, <2>2, FrontTrail
  <2>3. CASE \E s \in Screen : st = Append(stack, s) /\ Opens(s, Top)
    BY <1>2, <2>3, AppendTrail DEF Opens
  <2> QED BY <1>3, <2>1, <2>2, <2>3 DEF Walks
<1>4. ASSUME NEW st \in Seq(Screen), Praises(st) PROVE Trail(st)
  <2> DEFINE s == Session("Feedback", Top.lesson, Top.index)
  <2>1. /\ s \in Screen /\ s.screen = "Feedback" /\ s.lesson = Top.lesson /\ s.index = Top.index
    BY <1>4, SessionTop, SessionIs DEF Praises, SessionScreens
  <2>2. CASE Top.screen = "MicroConversation" /\ st = Append(stack, s)
    <3>1. OpenedFrom(s, Top)
      BY <2>1, <2>2, OpenedFromCases
    <3> QED BY <1>2, <2>1, <2>2, <3>1, AppendTrail
  <2>3. CASE Top.screen = "SoundPractice" /\ Len(stack) > 1 /\ st = Append(Front(stack), s)
    <3> DEFINE below == Front(stack)
    <3>1. /\ below \in Seq(Screen) /\ Len(below) > 0 /\ Trail(below)
          /\ OpenedFrom(Top, below[Len(below)])
      BY <1>2, <2>3, StackFacts, FrontTrail
    <3>2. OpenedFrom(s, below[Len(below)])
      BY <2>1, <2>3, <3>1, OpenedFromCases
    <3> HIDE DEF below, s
    <3>3. Trail(Append(below, s))
      BY <2>1, <3>1, <3>2, AppendTrail
    <3> QED BY <2>3, <3>3 DEF below
  <2> QED BY <1>4, <2>2, <2>3 DEF Praises
<1>5. ASSUME FinishLesson PROVE Trail(Append(stack, Growth))
  BY <1>2, <1>5, FinishFacts, AppendTrail
<1>6. Trail(stack')
  <2>1. CASE stack' = <<Plain("Welcome")>>
    <3>1. Len(stack') = 1
      BY <2>1
    <3> QED BY <3>1 DEF Trail
  <2>2. CASE \E st \in Seq(Screen) :
                /\ AlikeAll(st, stack')
                /\ Walks(st) \/ Praises(st) \/ (FinishLesson /\ st = Append(stack, Growth))
    BY <1>3, <1>4, <1>5, <2>2, AlikeTrail
  <2> QED BY <1>1, <2>1, <2>2, StackEvents
<1> QED BY <1>6 DEF Trail, TrailCoherent

\* Going back from any screen of a session retraces it: under the praise lies
\* the talk of the same word, under the talk its word, and under the next word
\* the praise of the one before (navigate, replace and goBack in the screens
\* of the session).
THEOREM TrailRetraced == Spec => []TrailCoherent
<1>1. Init => TrailCoherent
  <2> SUFFICES ASSUME Init PROVE TrailCoherent
    OBVIOUS
  <2>1. Len(stack) = 1
    BY DEF Init
  <2> QED BY <2>1 DEF TrailCoherent
<1> QED BY <1>1, TypeInvariance, TrailStep, PTL DEF Spec

(***************************************************************************)
(* The store.  A commit adds to the progress, and a hydration starts from  *)
(* what is stored, or from the seed.                                       *)
(***************************************************************************)
Acts ==
    /\ UNCHANGED <<day, load, disk>> /\ marks \subseteq marks'
    /\ progress' \in Progress /\ Holds(progress, progress')
    /\ \E id : progress'.completed \subseteq progress.completed \cup {id}
    /\ progress'.days \subseteq progress.days \cup {day}
    /\ memo' = Memo(progress') /\ memo'.day = day
    /\ pending' = IF load = "done" THEN Append(pending, progress') ELSE pending

Hydrates ==
    /\ load = "reading" /\ load' = "done" /\ UNCHANGED <<day, disk>> /\ marks \subseteq marks'
    /\ progress' \in Progress
    /\ \E p \in Progress :
        /\ Payload(p) /\ Holds(p, progress')
        /\ progress'.completed = p.completed
        /\ progress'.days \subseteq p.days \cup {day}
    /\ memo' = Memo(progress') /\ memo'.day = day
    /\ pending' = Append(pending, progress')

Keeps == UNCHANGED storeVars /\ marks \subseteq marks' /\ day <= day'

Dies ==
    /\ load = "reading" /\ load' = "dead" /\ UNCHANGED <<progress, memo, disk, pending, day>>
    /\ marks \subseteq marks'

LEMMA StoreEvents ==
    ASSUME TypeInv, Event
    PROVE  Keeps \/ Acts \/ Hydrates \/ Dies \/ SaveDone \/ SaveFails \/ Relaunched
<1>1. /\ DeviceOK /\ progress \in Progress /\ IsProgress(progress) /\ day \in Int /\ stack \in Seq(Screen)
  BY TypeFacts, DeviceFacts DEF StoreOK
<1>2. CASE Moved
  BY <1>1, <1>2 DEF Moved, Keeps
<1>3. CASE Praised
  <2>1. PICK st \in Seq(Screen) : Praises(st) /\ Commit(progress, st, TRUE)
    BY <1>3 DEF Praised
  <2>2. Last(st) \in SessionScreen
    BY <2>1, PraisedFacts
  <2>3. /\ progress' \in Progress /\ Grown(progress, progress', NewWords(st, TRUE), day)
        /\ memo' = Memo(progress') /\ memo'.day = day
        /\ pending' = IF load' = "done" THEN Append(pending, progress') ELSE pending
    BY <1>1, <2>1, <2>2, CommitEvent
  <2>4. UNCHANGED <<day, load, disk>> /\ marks \subseteq marks'
    BY <1>3 DEF Praised
  <2> QED BY <2>3, <2>4 DEF Acts, Grown
<1>4. CASE FinishLesson
  <2>1. /\ Commit(Finished, Append(stack, Growth), FALSE) /\ Append(stack, Growth) \in Seq(Screen)
        /\ Finished \in Progress /\ IsProgress(Finished) /\ Top.lesson \in AllIds
        /\ UNCHANGED <<day, load, disk>> /\ marks \subseteq marks'
    BY <1>4, FinishFacts, SessionFields
  <2>2. /\ progress' \in Progress
        /\ Grown(Finished, progress', NewWords(Append(stack, Growth), FALSE), day)
        /\ memo' = Memo(progress') /\ memo'.day = day
        /\ pending' = IF load' = "done" THEN Append(pending, progress') ELSE pending
    BY <1>1, <2>1, CommitEvent
  <2>3. /\ Holds(progress, Finished) /\ Finished.completed = progress.completed \cup {Top.lesson}
        /\ Finished.days = progress.days \cup {day}
    BY <1>1, <2>1, CompleteFacts DEF Finished
  <2>4. Holds(Finished, progress') /\ progress'.completed = Finished.completed
        /\ progress'.days \subseteq Finished.days \cup {day}
    BY <2>2 DEF Grown
  <2>5. Holds(progress, progress')
    BY <1>1, <2>1, <2>2, <2>3, <2>4, HoldsOn
  <2>6. progress'.completed \subseteq progress.completed \cup {Top.lesson}
        /\ progress'.days \subseteq progress.days \cup {day}
    BY <2>3, <2>4
  <2> QED BY <2>1, <2>2, <2>5, <2>6 DEF Acts
<1>5. CASE Hydrated
  <2>1. PICK p : Payload(p) /\ Commit(p, stack, FALSE)
    BY <1>5 DEF Hydrated
  <2>2. p \in Progress /\ IsProgress(p)
    BY <2>1, PayloadFacts
  <2>3. /\ progress' \in Progress /\ Grown(p, progress', NewWords(stack, FALSE), day)
        /\ memo' = Memo(progress') /\ memo'.day = day
        /\ pending' = IF load' = "done" THEN Append(pending, progress') ELSE pending
    BY <1>1, <2>1, <2>2, CommitEvent
  <2>4. load = "reading" /\ load' = "done" /\ UNCHANGED <<day, disk>> /\ marks \subseteq marks'
    BY <1>5 DEF Hydrated, MarksRead
  <2> QED BY <2>1, <2>2, <2>3, <2>4 DEF Hydrates, Grown
<1>6. CASE Died
  BY <1>6 DEF Died, Dies, MarksRead
<1>7. CASE Boot \/ BootFails \/ StorePack \/ ApplyContentPack
  BY <1>1, <1>7, PackMoveFacts DEF Keeps
<1>8. CASE NextDay
  BY <1>1, <1>8 DEF NextDay, Keeps
<1> QED BY <1>2, <1>3, <1>4, <1>5, <1>6, <1>7, <1>8 DEF Event

(***************************************************************************)
(* What is saved.  The newest save under way, or with none the one stored, *)
(* is the state shown, and each holds what the one before it held.         *)
(***************************************************************************)
SavedInv ==
    /\ load # "done" => pending = <<>>
    /\ load = "done" /\ pending # <<>> => pending[Len(pending)] = progress
    /\ load = "done" /\ pending = <<>> /\ "unwritten" \notin marks => disk = <<progress>>

ChainInv ==
    "unread" \notin marks =>
        /\ disk # <<>> /\ pending # <<>> => Holds(disk[1], pending[1])
        /\ \A i \in 1..Len(pending) - 1 : Holds(pending[i], pending[i + 1])
        /\ load = "done" /\ disk # <<>> /\ pending = <<>> => Holds(disk[1], progress)

LEMMA SaveFacts ==
    ASSUME TypeInv
    PROVE  /\ pending \in Seq(Progress) /\ Len(pending) \in Nat
           /\ \A i \in 1..Len(pending) : pending[i] \in Progress
           /\ pending = <<>> <=> Len(pending) = 0
           /\ disk \in Seq(Progress) /\ (disk # <<>> => disk[1] \in Progress)
           /\ progress \in Progress
           /\ \A q \in Progress :
                /\ Append(pending, q) # <<>> /\ Len(Append(pending, q)) = Len(pending) + 1
                /\ Append(pending, q)[Len(pending) + 1] = q
                /\ \A i \in 1..Len(pending) : Append(pending, q)[i] = pending[i]
<1>1. pending \in Seq(Progress) /\ disk \in Seq(Progress) /\ progress \in Progress
  BY TypeFacts DEF SavesOK, StoreOK
<1>2. Len(pending) \in Nat /\ \A i \in 1..Len(pending) : pending[i] \in Progress
  BY <1>1
<1>3. \A q \in Progress :
        /\ Append(pending, q) # <<>> /\ Len(Append(pending, q)) = Len(pending) + 1
        /\ Append(pending, q)[Len(pending) + 1] = q
        /\ \A i \in 1..Len(pending) : Append(pending, q)[i] = pending[i]
  BY <1>1
<1>4. disk # <<>> => disk[1] \in Progress
  BY <1>1
<1> QED BY <1>1, <1>2, <1>3, <1>4

LEMMA SavedInit == Init => SavedInv /\ ChainInv
BY DEF Init, StoreInit, SavedInv, ChainInv

LEMMA SavedStep == TypeInv /\ SavedInv /\ [Next]_vars => SavedInv'
<1> SUFFICES ASSUME TypeInv, SavedInv, [Next]_vars PROVE SavedInv'
  OBVIOUS
<1>1. Event
  BY NextEvents
<1>2. CASE Keeps
  BY <1>2 DEF Keeps, storeVars, SavedInv
<1>3. CASE Acts \/ Hydrates
  <2>1. progress' \in Progress /\ (load' = load \/ load' = "done")
        /\ pending' = IF load' = "done" THEN Append(pending, progress') ELSE pending
    BY <1>3 DEF Acts, Hydrates
  <2>2. CASE load' = "done"
    <3>1. pending' # <<>> /\ pending'[Len(pending')] = progress'
      BY <2>1, <2>2, SaveFacts
    <3> QED BY <2>2, <3>1 DEF SavedInv
  <2>3. CASE load' # "done"
    BY <2>1, <2>3 DEF SavedInv
  <2> QED BY <2>2, <2>3
<1>4. CASE Dies
  BY <1>4 DEF Dies, SavedInv
<1>5. CASE SaveDone \/ SaveFails
  <2>1. /\ pending # <<>> /\ pending' = Tail(pending) /\ UNCHANGED <<progress, load>>
        /\ \/ disk' = <<Head(pending)>>
           \/ "unwritten" \in marks'
    BY <1>5 DEF SaveDone, SaveFails
  <2>2. load = "done" /\ pending[Len(pending)] = progress
    BY <2>1 DEF SavedInv
  <2>3. /\ Len(pending) \in Nat \ {0} /\ Head(pending) = pending[1]
        /\ Tail(pending) \in Seq(Progress) /\ Len(Tail(pending)) = Len(pending) - 1
        /\ \A i \in 1..Len(Tail(pending)) : Tail(pending)[i] = pending[i + 1]
    BY <2>1, TypeFacts, SaveTypes
  <2>4. CASE Len(pending) = 1
    <3>1. pending' = <<>> /\ Head(pending) = progress
      BY <2>1, <2>2, <2>3, <2>4
    <3> QED BY <2>1, <3>1 DEF SavedInv
  <2>5. CASE Len(pending) # 1
    <3>1. /\ Len(pending') = Len(pending) - 1 /\ Len(pending') \in 1..Len(Tail(pending))
      BY <2>1, <2>3, <2>5
    <3>3. pending' # <<>>
      <4>1. Len(pending') # 0
        BY <2>3, <2>5, <3>1
      <4> QED BY <4>1
    <3>2. pending'[Len(pending')] = progress'
      BY <2>1, <2>2, <2>3, <3>1
    <3> QED BY <2>1, <2>2, <3>2, <3>3 DEF SavedInv
  <2> QED BY <2>3, <2>4, <2>5
<1>6. CASE Relaunched
  BY <1>6 DEF Relaunched, SavedInv
<1> QED BY <1>1, <1>2, <1>3, <1>4, <1>5, <1>6, StoreEvents

THEOREM SavedInvariance == Spec => [](TypeInv /\ SavedInv)
BY TypeInit, TypeStep, SavedInit, SavedStep, PTL DEF Spec

\* Once hydrated, and with no save under way, what is stored is what the
\* screens show, unless a write failed (the persist effect of ProgressContext).
THEOREM QuietIsSaved == Spec => []QuietMeansSaved
<1>1. SavedInv => QuietMeansSaved
  BY DEF SavedInv, QuietMeansSaved
<1> QED BY <1>1, SavedInvariance, PTL

LEMMA ChainStep == TypeInv /\ SavedInv /\ ChainInv /\ [Next]_vars => ChainInv'
<1> SUFFICES ASSUME TypeInv, SavedInv, ChainInv, [Next]_vars, "unread" \notin marks'
             PROVE  ChainInv'
  BY DEF ChainInv
<1>1. Event
  BY NextEvents
<1>2. Keeps \/ Acts \/ Hydrates \/ Dies \/ SaveDone \/ SaveFails \/ Relaunched
  BY <1>1, StoreEvents
<1>3. "unread" \notin marks
  BY <1>2 DEF Keeps, Acts, Hydrates, Dies, SaveDone, SaveFails, Relaunched
<1>4. /\ disk # <<>> /\ pending # <<>> => Holds(disk[1], pending[1])
      /\ \A i \in 1..Len(pending) - 1 : Holds(pending[i], pending[i + 1])
      /\ load = "done" /\ disk # <<>> /\ pending = <<>> => Holds(disk[1], progress)
  BY <1>3 DEF ChainInv
<1>5. /\ Len(pending) \in Nat /\ progress \in Progress /\ (disk # <<>> => disk[1] \in Progress)
      /\ \A i \in 1..Len(pending) : pending[i] \in Progress
      /\ pending = <<>> <=> Len(pending) = 0
  BY SaveFacts
<1>6. CASE Keeps
  BY <1>4, <1>6 DEF Keeps, storeVars, ChainInv
\* A save joins the queue behind one it holds.
<1>7. ASSUME progress' \in Progress, disk' = disk, pending' = Append(pending, progress'),
             pending # <<>> => Holds(pending[Len(pending)], progress'),
             pending = <<>> /\ disk # <<>> => Holds(disk[1], progress')
      PROVE  ChainInv'
  <2>1. /\ pending' # <<>> /\ Len(pending') = Len(pending) + 1
        /\ pending'[Len(pending) + 1] = progress'
        /\ \A i \in 1..Len(pending) : pending'[i] = pending[i]
    BY <1>7, SaveFacts
  <2>2. disk' # <<>> => Holds(disk'[1], pending'[1])
    <3>1. CASE pending = <<>>
      BY <1>5, <1>7, <2>1, <3>1
    <3>2. CASE pending # <<>>
      <4>1. pending'[1] = pending[1]
        BY <1>5, <2>1, <3>2
      <4> QED BY <1>4, <1>7, <3>2, <4>1
    <3> QED BY <3>1, <3>2
  <2>3. ASSUME NEW i \in 1..Len(pending') - 1 PROVE Holds(pending'[i], pending'[i + 1])
    <3>1. i \in 1..Len(pending)
      BY <1>5, <2>1
    <3>2. CASE i = Len(pending)
      <4>1. pending'[i] = pending[Len(pending)] /\ pending'[i + 1] = progress' /\ pending # <<>>
        BY <1>5, <2>1, <3>1, <3>2
      <4> QED BY <1>7, <4>1
    <3>3. CASE i # Len(pending)
      <4>1. i \in 1..Len(pending) - 1 /\ i + 1 \in 1..Len(pending)
        BY <1>5, <3>1, <3>3
      <4>2. pending'[i] = pending[i] /\ pending'[i + 1] = pending[i + 1]
        BY <2>1, <3>1, <4>1
      <4> QED BY <1>4, <4>1, <4>2
    <3> QED BY <3>2, <3>3
  <2> QED BY <2>1, <2>2, <2>3 DEF ChainInv
<1>8. CASE Acts
  <2>1. CASE load = "done"
    <3>1. progress' \in Progress /\ disk' = disk /\ pending' = Append(pending, progress')
          /\ Holds(progress, progress')
      BY <1>8, <2>1 DEF Acts
    <3>2. pending # <<>> => Holds(pending[Len(pending)], progress')
      BY <2>1, <3>1 DEF SavedInv
    <3>3. pending = <<>> /\ disk # <<>> => Holds(disk[1], progress')
      BY <1>4, <1>5, <2>1, <3>1, HoldsOn
    <3> QED BY <1>7, <3>1, <3>2, <3>3
  <2>2. CASE load # "done"
    <3>1. pending' = <<>> /\ disk' = disk /\ load' = load
      BY <1>8, <2>2 DEF Acts, SavedInv
    <3> QED BY <2>2, <3>1 DEF ChainInv
  <2> QED BY <2>1, <2>2
<1>9. CASE Hydrates
  <2>1. /\ progress' \in Progress /\ disk' = disk /\ pending' = Append(pending, progress')
        /\ pending = <<>>
    BY <1>9 DEF Hydrates, SavedInv
  <2>2. disk # <<>> => Holds(disk[1], progress')
    BY <1>9 DEF Hydrates, Payload
  <2> QED BY <1>7, <2>1, <2>2
<1>10. CASE Dies
  BY <1>4, <1>10 DEF Dies, ChainInv, SavedInv
<1>11. CASE SaveDone \/ SaveFails
  <2>1. /\ pending # <<>> /\ pending' = Tail(pending) /\ UNCHANGED <<progress, load>>
        /\ disk' = <<Head(pending)>> \/ disk' = disk
    BY <1>11 DEF SaveDone, SaveFails
  <2>2. load = "done" /\ pending[Len(pending)] = progress
    BY <2>1 DEF SavedInv
  <2>3. /\ Len(pending) \in Nat \ {0} /\ Head(pending) = pending[1]
        /\ Tail(pending) \in Seq(Progress) /\ Len(Tail(pending)) = Len(pending) - 1
        /\ \A i \in 1..Len(Tail(pending)) : Tail(pending)[i] = pending[i + 1]
    BY <2>1, TypeFacts, SaveTypes
  <2>4. \A i \in 1..Len(pending') - 1 : Holds(pending'[i], pending'[i + 1])
    <3> TAKE i \in 1..Len(pending') - 1
    <3>1. i \in 1..Len(Tail(pending)) /\ i + 1 \in 1..Len(Tail(pending)) /\ i + 1 \in 1..Len(pending) - 1
      BY <2>1, <2>3
    <3>2. pending'[i] = pending[i + 1] /\ pending'[i + 1] = pending[i + 1 + 1]
      BY <2>1, <2>3, <3>1
    <3> QED BY <1>4, <3>1, <3>2
  <2>5. disk' # <<>> => Holds(disk'[1], pending[1])
    <3>1. CASE disk' = <<Head(pending)>>
      <4>1. disk'[1] = pending[1] /\ pending[1] \in Progress
        BY <1>5, <2>3, <3>1
      <4> QED BY <4>1, HoldsItself
    <3>2. CASE disk' = disk
      BY <1>4, <2>1, <3>2
    <3> QED BY <2>1, <3>1, <3>2
  <2>6. disk' # <<>> => disk'[1] \in Progress
    BY <1>5, <2>1, <2>3
  <2>7. CASE Len(pending) = 1
    <3>1. pending' = <<>> /\ pending[1] = progress'
      BY <2>1, <2>2, <2>3, <2>7
    <3> QED BY <2>4, <2>5, <3>1 DEF ChainInv
  <2>8. CASE Len(pending) # 1
    <3>1. pending' # <<>> /\ pending'[1] = pending[2] /\ Holds(pending[1], pending[2])
      <4>1. 1 \in 1..Len(Tail(pending)) /\ 1 \in 1..Len(pending) - 1
        BY <2>3, <2>8
      <4>2. Tail(pending)[1] = pending[1 + 1] /\ Holds(pending[1], pending[1 + 1])
        BY <1>4, <2>3, <4>1
      <4> DEFINE t == Tail(pending)
      <4>3. Len(t) # 0
        BY <2>3, <4>1
      <4>4. t # <<>>
        <5> HIDE DEF t
        <5> QED BY <4>3
      <4> QED BY <2>1, <4>2, <4>4
    <3>2. pending[1] \in Progress /\ pending[2] \in Progress
      BY <1>5, <2>3, <2>8
    <3>3. disk' # <<>> => Holds(disk'[1], pending'[1])
      BY <2>5, <2>6, <3>1, <3>2, HoldsOn
    <3> QED BY <2>4, <3>1, <3>3 DEF ChainInv
  <2> QED BY <2>7, <2>8
<1>12. CASE Relaunched
  BY <1>12 DEF Relaunched, ChainInv
<1> QED BY <1>2, <1>6, <1>8, <1>9, <1>10, <1>11, <1>12

\* A save never takes away what an earlier save held, across crashes, failed
\* writes and relaunches, so long as no read failed: the writes of the persist
\* effect are queued in the order of the dispatches, and a launch goes on from
\* what is stored.
THEOREM SavesGrow == Spec => SavedNeverShrinks
<1>1. TypeInv /\ ChainInv /\ [Next]_vars =>
        (disk' # disk => (disk # NoSave /\ "unread" \notin marks =>
            disk' # NoSave /\ Holds(Head(disk), Head(disk'))))
  <2> SUFFICES ASSUME TypeInv, ChainInv, [Next]_vars, disk' # disk, disk # <<>>, "unread" \notin marks
               PROVE  disk' # <<>> /\ Holds(Head(disk), Head(disk'))
    BY DEF NoSave
  <2>1. SaveDone
    <3>1. Keeps \/ Acts \/ Hydrates \/ Dies \/ SaveDone \/ SaveFails \/ Relaunched
      BY NextEvents, StoreEvents
    <3> QED BY <3>1 DEF Keeps, storeVars, Acts, Hydrates, Dies, SaveFails, Relaunched
  <2>2. pending # <<>> /\ disk' = <<Head(pending)>>
    BY <2>1 DEF SaveDone
  <2>3. Head(pending) = pending[1] /\ Head(disk) = disk[1] /\ Head(disk') = Head(pending) /\ disk' # <<>>
    BY <2>2
  <2>4. Holds(disk[1], pending[1])
    BY <2>2 DEF ChainInv
  <2> QED BY <2>3, <2>4
<1>2. TypeInv /\ ChainInv /\ [Next]_vars =>
        [disk # NoSave /\ "unread" \notin marks =>
            disk' # NoSave /\ Holds(Head(disk), Head(disk'))]_disk
  BY <1>1
<1> QED BY <1>2, TypeInit, TypeStep, SavedInit, SavedStep, ChainStep, PTL DEF Spec, SavedNeverShrinks

(***************************************************************************)
(* The streak and the milestones.  The memo counts the days practised as   *)
(* of the day it was computed, and no day practised is later.              *)
(***************************************************************************)
LEMMA FiniteIds == IsFiniteSet(AllIds)
<1>0. \A m \in Int : IsFiniteSet(1..m)
  BY FS_Interval
<1>1. ASSUME NEW r \in Revisions PROVE IsFiniteSet(LessonIds(Packs[r]))
  <2> DEFINE n == Len(Packs[r])
             ids == LessonIds(Packs[r])
             f == [i \in 1..n |-> Packs[r][i].id]
  <2>1. n \in Int /\ DOMAIN Packs[r] = 1..n
    BY PackFacts
  <2>2. f \in Surjection(1..n, ids)
    BY <2>1 DEF Surjection, LessonIds
  <2> HIDE DEF n, f, ids
  <2>3. IsFiniteSet(1..n)
    BY <1>0, <2>1
  <2> QED BY <2>2, <2>3, FS_Surjection DEF ids
<1> DEFINE n == Len(Packs)
           sets == {LessonIds(Packs[r]) : r \in Revisions}
           f == [r \in 1..n |-> LessonIds(Packs[r])]
<1>2. n \in Int /\ Revisions = 1..n
  BY JourneyAssumption DEF Revisions
<1>3. f \in Surjection(1..n, sets)
  BY <1>2 DEF Surjection
<1>4. IsFiniteSet(1..n)
  BY <1>0, <1>2
<1>5. IsFiniteSet(sets)
  <2> HIDE DEF f, sets
  <2> QED BY <1>3, <1>4, FS_Surjection
<1>6. \A T \in sets : IsFiniteSet(T)
  BY <1>1
<1>7. IsFiniteSet(UNION sets)
  <2> HIDE DEF sets
  <2> QED BY <1>5, <1>6, FS_UNION
<1> QED BY <1>7 DEF AllIds

\* Practising more, the streak of a later day is no shorter, unless a whole
\* day went by without practice.
LEMMA StreakGrows ==
    ASSUME NEW days \in SUBSET Int, IsFiniteSet(days), NEW more \in SUBSET Int, IsFiniteSet(more),
           days \subseteq more, NEW before \in Int, NEW now \in Int, before <= now,
           \A d \in days : d <= before, before = now \/ now - 1 \in days
    PROVE  Streak(days, before) <= Streak(more, now)
<1> DEFINE s == Streak(days, before)
           t == Streak(more, now)
           e == StreakEnd(days, before)
           f == StreakEnd(more, now)
<1>1. /\ s \in Nat /\ (e - s + 1)..e \subseteq days
      /\ t \in Nat /\ \A n \in Nat : (f - n + 1)..f \subseteq more => n <= t
  BY StreakFacts
<1>2. e \in Int /\ f \in Int
  BY DEF StreakEnd
<1>3. CASE s = 0
  BY <1>1, <1>3
<1>4. CASE s # 0
  <2>1. e \in (e - s + 1)..e
    <3> HIDE DEF e, s
    <3> QED BY <1>1, <1>2, <1>4
  <2>2. e \in days
    BY <1>1, <2>1
  <2>3. /\ e = now \/ e = now - 1
        /\ e = now => f = now
    <3>1. e <= before
      BY <2>2
    <3>2. CASE before = now
      BY <2>2, <3>2 DEF StreakEnd
    <3>3. CASE now - 1 \in days /\ before # now
      <4>1. now - 1 <= before /\ before = now - 1
        BY <3>3
      <4>2. e = now - 1
        BY <3>3, <4>1 DEF StreakEnd
      <4> QED BY <4>2
    <3> QED BY <3>2, <3>3
  <2>4. CASE f = e
    <3> HIDE DEF e, f, s, t
    <3>1. (f - s + 1)..f \subseteq more
      BY <1>1, <2>4
    <3>2. s <= t
      BY <1>1, <3>1
    <3> QED BY <3>2 DEF s, t
  <2>5. CASE f # e
    <3>1. e = now - 1 /\ f = now /\ now \in more
      BY <2>3, <2>5 DEF StreakEnd
    <3>2. (f - (s + 1) + 1)..f \subseteq more
      <4> HIDE DEF e, f, s
      <4>1. \A x \in (f - (s + 1) + 1)..f : x = now \/ x \in (e - s + 1)..e
        BY <1>1, <3>1
      <4> QED BY <1>1, <3>1, <4>1
    <3>3. s + 1 \in Nat
      BY <1>1
    <3>4. s + 1 <= t
      <4> HIDE DEF e, f, s, t
      <4> QED BY <1>1, <3>2, <3>3
    <3> HIDE DEF s, t
    <3>5. s <= t
      BY <1>1, <3>4
    <3> QED BY <3>5 DEF s, t
  <2> QED BY <2>4, <2>5
<1> QED BY <1>3, <1>4

StreakInv ==
    /\ memo.streak = Streak(progress.days, memo.day)
    /\ \A d \in progress.days : d <= memo.day

LEMMA NoStreak == \A d \in Int : Streak({}, d) = 0
<1> SUFFICES ASSUME NEW d \in Int PROVE Streak({}, d) = 0
  OBVIOUS
<1> DEFINE s == Streak({}, d)
<1>1. IsFiniteSet({}) /\ StreakEnd({}, d) = d - 1
  BY FS_EmptySet DEF StreakEnd
<1>2. s \in Nat /\ (d - 1 - s + 1)..(d - 1) \subseteq {}
  BY <1>1, StreakFacts
<1> HIDE DEF s
<1>3. CASE s # 0
  <2>1. d - 1 \in (d - 1 - s + 1)..(d - 1)
    BY <1>2, <1>3
  <2> QED BY <1>2, <2>1
<1> QED BY <1>3 DEF s

LEMMA StreakInit == Init => StreakInv
<1> SUFFICES ASSUME Init PROVE StreakInv
  OBVIOUS
<1>1. progress.days = {} /\ memo.streak = 0 /\ memo.day = FirstDay /\ FirstDay \in Int
  BY NothingFacts, AppAssumption DEF Init, StoreInit
<1> QED BY <1>1, NoStreak DEF StreakInv

LEMMA StreakStep == TypeInv /\ StreakInv /\ [Next]_vars => StreakInv'
<1> SUFFICES ASSUME TypeInv, StreakInv, [Next]_vars PROVE StreakInv'
  OBVIOUS
<1>1. Keeps \/ Acts \/ Hydrates \/ Dies \/ SaveDone \/ SaveFails \/ Relaunched
  BY NextEvents, StoreEvents
<1>2. CASE UNCHANGED <<progress, memo>>
  BY <1>2 DEF StreakInv
<1>3. CASE Acts \/ Hydrates
  <2>1. memo' = Memo(progress') /\ memo'.day = day /\ day' = day
    BY <1>3 DEF Acts, Hydrates
  <2>2. memo'.streak = Streak(progress'.days, day)
    BY <2>1 DEF Memo
  <2>3. progress'.days \subseteq FirstDay - 6..day'
    BY TypeStep DEF TypeInv, StoreOK, IsProgress
  <2>4. \A d \in progress'.days : d <= day
    BY <2>1, <2>3, AppAssumption, TypeFacts DEF DeviceOK
  <2> QED BY <2>1, <2>2, <2>4 DEF StreakInv
<1>4. CASE Relaunched
  <2>1. progress'.days = {} /\ memo'.streak = 0 /\ memo'.day = day /\ day \in Int
    BY <1>4, NothingFacts, TypeFacts, DeviceFacts DEF Relaunched
  <2> QED BY <2>1, NoStreak DEF StreakInv
<1>5. Keeps \/ Dies \/ SaveDone \/ SaveFails => UNCHANGED <<progress, memo>>
  BY DEF Keeps, storeVars, Dies, SaveDone, SaveFails
<1> QED BY <1>1, <1>2, <1>3, <1>4, <1>5

THEOREM StreakInvariance == Spec => [](TypeInv /\ StreakInv)
BY TypeInit, TypeStep, StreakInit, StreakStep, PTL DEF Spec

\* The streak shown is that of the last dispatch.  The morning after a day of
\* practice it is still the streak of today, by the grace of calcStreak.
THEOREM StreakSurvivesNight == Spec => []NightKeepsStreak
<1>1. TypeInv /\ StreakInv => NightKeepsStreak
  <2> SUFFICES ASSUME TypeInv, StreakInv, day = memo.day + 1, memo.day \in progress.days
               PROVE  memo.streak = Streak(progress.days, day)
    BY DEF NightKeepsStreak
  <2>1. memo.day \in Int /\ day \notin progress.days /\ day - 1 = memo.day
    BY TypeFacts DEF StoreOK, MemoRecord, StreakInv
  <2>2. Streak(progress.days, memo.day) = Streak(progress.days, day)
    BY <2>1 DEF Streak
  <2> QED BY <2>2 DEF StreakInv
<1> QED BY <1>1, StreakInvariance, PTL

LEMMA StageGrows ==
    ASSUME NEW v \in Nat, NEW w \in Nat, v <= w
    PROVE  StageIndex(v) <= StageIndex(w) /\ StageIndex(v) \in Int
<1> DEFINE a == {i \in DOMAIN StageAt : v >= StageAt[i]}
           b == {i \in DOMAIN StageAt : w >= StageAt[i]}
<1>1. /\ DOMAIN StageAt = 1..Len(StageAt) /\ Len(StageAt) \in Nat \ {0} /\ StageAt[1] = 0
      /\ \A i \in DOMAIN StageAt : StageAt[i] \in Nat
  BY JourneyAssumption
<1>2. IsFiniteSet(DOMAIN StageAt)
  BY <1>1, FS_Interval
<1>3. /\ a \in SUBSET Int /\ 1 \in a /\ IsFiniteSet(a)
      /\ b \in SUBSET Int /\ IsFiniteSet(b) /\ a \subseteq b
  BY <1>1, <1>2, FS_Subset
<1>4. Max(a) \in a /\ \A x \in b : x <= Max(b)
  <2> HIDE DEF a, b
  <2> QED BY <1>3, LargestOf
<1>5. Max(a) \in Int /\ Max(a) <= Max(b)
  BY <1>3, <1>4
<1> QED BY <1>5 DEF StageIndex

\* A milestone once shown as earned stays earned while the app runs, except a
\* streak after a whole day without practice, and the friend never shrinks
\* (StreakScreen and stageFor compute them from the current values).
THEOREM MilestonesStay == Spec => EarnedUntilDaySkipped
<1> DEFINE Stay ==
        /\ StageIndex(Len(progress'.learned)) >= StageIndex(Len(progress.learned))
        /\ \A m \in EarnedMilestones(progress, memo.streak) :
            \/ m \in EarnedMilestones(progress', memo'.streak)
            \/ m.metric = "streak" /\ day - 1 \notin progress.days
<1>1. TypeInv /\ StreakInv /\ [Next]_vars =>
        (<<progress, memo, load>>' # <<progress, memo, load>> => (load = "done" /\ load' = "done" => Stay))
  <2> SUFFICES ASSUME TypeInv, StreakInv, [Next]_vars, ~UNCHANGED <<progress, memo, load>>,
                      load = "done", load' = "done"
               PROVE  Stay
    OBVIOUS
  <2>1. Acts
    <3>1. Keeps \/ Acts \/ Hydrates \/ Dies \/ SaveDone \/ SaveFails \/ Relaunched
      BY NextEvents, StoreEvents
    <3> QED BY <3>1 DEF Keeps, storeVars, Hydrates, Dies, SaveDone, SaveFails, Relaunched
  <2>2. /\ progress \in Progress /\ progress' \in Progress /\ Holds(progress, progress')
        /\ memo.day \in Int /\ memo.day <= day /\ day \in Int /\ memo.streak \in Nat
        /\ memo'.streak = Streak(progress'.days, day) /\ memo'.streak \in Nat
    <3>1. progress \in Progress /\ progress' \in Progress /\ Holds(progress, progress')
      BY <2>1, TypeFacts DEF Acts, StoreOK
    <3>2. memo.day \in Int /\ memo.day <= day /\ day \in Int /\ memo.streak \in Nat
      BY TypeFacts, DeviceFacts DEF StoreOK, MemoRecord
    <3>3. memo'.streak = Streak(progress'.days, day)
      BY <2>1 DEF Acts, Memo
    <3>4. memo'.streak \in Nat
      BY TypeStep DEF TypeInv, StoreOK, MemoRecord
    <3> QED BY <3>1, <3>2, <3>3, <3>4
  <2>3. /\ Len(progress.learned) \in Nat /\ Len(progress'.learned) \in Nat
        /\ Len(progress.learned) <= Len(progress'.learned)
    BY <2>2, ProgressFields, PrefixFacts DEF Holds
  <2>4. StageIndex(Len(progress'.learned)) >= StageIndex(Len(progress.learned))
    <3>1. /\ StageIndex(Len(progress.learned)) <= StageIndex(Len(progress'.learned))
      BY <2>3, StageGrows
    <3> QED BY <3>1
  <2>5. /\ Cardinality(progress.completed) \in Nat /\ Cardinality(progress'.completed) \in Nat
        /\ Cardinality(progress.completed) <= Cardinality(progress'.completed)
    <3>1. /\ progress'.completed \in SUBSET AllIds /\ progress.completed \in SUBSET progress'.completed
      BY <2>2, ProgressFields DEF Holds
    <3>2. IsFiniteSet(progress'.completed) /\ IsFiniteSet(progress.completed)
      BY <3>1, FiniteIds, FS_Subset
    <3> QED BY <3>1, <3>2, FS_Subset, FS_CardinalityType
  <2>6. memo.streak <= memo'.streak \/ day - 1 \notin progress.days
    <3> SUFFICES ASSUME day - 1 \in progress.days PROVE memo.streak <= memo'.streak
      OBVIOUS
    <3>1. /\ progress.days \in SUBSET Int /\ IsFiniteSet(progress.days)
          /\ progress'.days \in SUBSET Int /\ IsFiniteSet(progress'.days)
          /\ progress.days \subseteq progress'.days
      <4>1. IsFiniteSet(progress.days)
        BY <2>2, TypeFacts, FiniteDays DEF StoreOK
      <4>2. progress'.days \subseteq progress.days \cup {day}
        BY <2>1 DEF Acts
      <4>3. IsFiniteSet(progress.days \cup {day})
        BY <4>1, FS_Union, FS_Singleton
      <4>4. IsFiniteSet(progress'.days)
        BY <4>2, <4>3, FS_Subset
      <4> QED BY <2>2, <4>1, <4>4, ProgressFields DEF Holds
    <3>2. /\ memo.streak = Streak(progress.days, memo.day)
          /\ \A d \in progress.days : d <= memo.day
      BY DEF StreakInv
    <3> QED BY <2>2, <3>1, <3>2, StreakGrows
  <2>7. ASSUME NEW m \in EarnedMilestones(progress, memo.streak)
        PROVE  \/ m \in EarnedMilestones(progress', memo'.streak)
               \/ m.metric = "streak" /\ day - 1 \notin progress.days
    <3>1. /\ m \in Milestones /\ Metric(progress, memo.streak, m.metric) >= m.goal
          /\ m.metric \in {"words", "lessons", "streak"} /\ m.goal \in Nat
      BY <2>7, JourneyAssumption DEF EarnedMilestones
    <3>2. CASE m.metric = "words"
      <4>1. Metric(progress', memo'.streak, m.metric) >= m.goal
        BY <2>3, <3>1, <3>2 DEF Metric
      <4> QED BY <3>1, <4>1 DEF EarnedMilestones
    <3>3. CASE m.metric = "lessons"
      <4>1. Metric(progress', memo'.streak, m.metric) >= m.goal
        BY <2>5, <3>1, <3>3 DEF Metric
      <4> QED BY <3>1, <4>1 DEF EarnedMilestones
    <3>4. CASE m.metric = "streak" /\ memo.streak <= memo'.streak
      <4>1. Metric(progress', memo'.streak, m.metric) >= m.goal
        BY <2>2, <3>1, <3>4 DEF Metric
      <4> QED BY <3>1, <4>1 DEF EarnedMilestones
    <3> QED BY <2>6, <3>1, <3>2, <3>3, <3>4
  <2> QED BY <2>4, <2>7
<1>2. TypeInv /\ StreakInv /\ [Next]_vars =>
        [load = "done" /\ load' = "done" => Stay]_<<progress, memo, load>>
  BY <1>1
<1> QED BY <1>2, StreakInvariance, PTL DEF Spec, EarnedUntilDaySkipped

(***************************************************************************)
(* The sessions.  A screen of a session was there before the step, or it   *)
(* was opened from the screen shown, or it is the praise just mounted.     *)
(***************************************************************************)
PraiseOfTop == Session("Feedback", Top.lesson, Top.index)

LEMMA AppendScreens ==
    ASSUME NEW st \in Seq(Screen), NEW s \in Screen, NEW i \in 1..Len(Append(st, s))
    PROVE  Append(st, s)[i] = s \/ (i \in 1..Len(st) /\ Append(st, s)[i] = st[i])
OBVIOUS

LEMMA ScreenOrigins ==
    ASSUME TypeInv, Event, stack' # <<Plain("Welcome")>>,
           NEW i \in 1..Len(stack'), stack'[i].screen \in SessionScreens
    PROVE  \/ \E j \in 1..Len(stack) : Alike(stack[j], stack'[i])
           \/ Moved /\ \E s \in Screen : Opens(s, Top) /\ Alike(s, stack'[i])
           \/ Praised /\ Alike(PraiseOfTop, stack'[i])
<1>1. /\ stack \in Seq(Screen) /\ active \in Revisions /\ Len(stack) \in Nat
      /\ Len(stack) > 1 =>
            /\ Front(stack) \in Seq(Screen) /\ Len(Front(stack)) = Len(stack) - 1
            /\ \A j \in 1..Len(stack) - 1 : Front(stack)[j] = stack[j]
  BY TypeFacts, StackFacts
<1>2. ASSUME AlikeAll(stack, stack') PROVE \E j \in 1..Len(stack) : Alike(stack[j], stack'[i])
  BY <1>2 DEF AlikeAll
<1>3. ASSUME Len(stack) > 1, NEW j \in 1..Len(Front(stack))
      PROVE  j \in 1..Len(stack) /\ Front(stack)[j] = stack[j]
  BY <1>1, <1>3
<1>4. CASE Moved
  <2>1. PICK st \in Seq(Screen) : Walks(st) /\ AlikeAll(st, stack')
    BY <1>4 DEF Moved
  <2>2. i \in 1..Len(st) /\ Alike(st[i], stack'[i])
    BY <2>1 DEF AlikeAll
  <2>3. CASE st = stack
    BY <2>2, <2>3
  <2>4. CASE Len(stack) > 1 /\ st = Front(stack)
    BY <1>3, <2>2, <2>4
  <2>5. CASE \E s \in Screen : st = Append(stack, s) /\ Opens(s, Top)
    <3>1. PICK s \in Screen : st = Append(stack, s) /\ Opens(s, Top)
      BY <2>5
    <3>2. st[i] = s \/ (i \in 1..Len(stack) /\ st[i] = stack[i])
      BY <1>1, <2>2, <3>1, AppendScreens
    <3> QED BY <1>4, <2>2, <3>1, <3>2
  <2> QED BY <2>1, <2>3, <2>4, <2>5 DEF Walks
<1>5. CASE Praised
  <2>1. PICK st \in Seq(Screen) : Praises(st) /\ Commit(progress, st, TRUE)
    BY <1>5 DEF Praised
  <2>2. AlikeAll(st, stack')
    BY <1>1, <2>1, RerenderedAlike DEF Commit
  <2>3. i \in 1..Len(st) /\ Alike(st[i], stack'[i])
    BY <2>2 DEF AlikeAll
  <2>4. PraiseOfTop \in Screen
    BY <2>1, SessionTop, SessionIs DEF Praises, SessionScreens, PraiseOfTop
  <2>5. CASE st = Append(stack, PraiseOfTop)
    <3>1. st[i] = PraiseOfTop \/ (i \in 1..Len(stack) /\ st[i] = stack[i])
      BY <1>1, <2>3, <2>4, <2>5, AppendScreens
    <3> QED BY <1>5, <2>3, <3>1
  <2>6. CASE Len(stack) > 1 /\ st = Append(Front(stack), PraiseOfTop)
    <3>1. st[i] = PraiseOfTop \/ (i \in 1..Len(Front(stack)) /\ st[i] = Front(stack)[i])
      BY <1>1, <2>3, <2>4, <2>6, AppendScreens
    <3>2. st[i] = PraiseOfTop \/ (i \in 1..Len(stack) /\ st[i] = stack[i])
      BY <1>3, <2>6, <3>1
    <3> QED BY <1>5, <2>3, <3>2
  <2> QED BY <2>1, <2>5, <2>6 DEF Praises, PraiseOfTop
<1>6. CASE FinishLesson
  <2>1. /\ Append(stack, Growth) \in Seq(Screen) /\ Commit(Finished, Append(stack, Growth), FALSE)
        /\ Growth \in Screen
    BY <1>6, FinishFacts
  <2> DEFINE st == Append(stack, Growth)
  <2>2. AlikeAll(st, stack')
    BY <1>1, <2>1, RerenderedAlike DEF Commit
  <2>3. i \in 1..Len(st) /\ Alike(st[i], stack'[i])
    BY <2>2 DEF AlikeAll
  <2>4. st[i] = Growth \/ (i \in 1..Len(stack) /\ st[i] = stack[i])
    BY <1>1, <2>1, <2>3, AppendScreens
  <2>5. ~Alike(Growth, stack'[i])
    BY DEF Alike, Growth, SessionScreens
  <2> HIDE DEF st
  <2> QED BY <2>3, <2>4, <2>5
<1>7. CASE Hydrated
  <2>1. stack' = Rerendered(stack)
    BY <1>7 DEF Hydrated, Commit
  <2> QED BY <1>1, <1>2, <2>1, RerenderedAlike
<1>8. CASE UNCHANGED stack
  BY <1>1, <1>2, <1>8, AlikeItself
<1>9. Died \/ SaveDone \/ SaveFails \/ NextDay => UNCHANGED stack
  BY DEF Died, SaveDone, SaveFails, NextDay
<1>10. Boot \/ BootFails \/ StorePack \/ ApplyContentPack => UNCHANGED stack
  BY DEF Boot, BootFails, StorePack, ApplyContentPack
<1>11. ~Relaunched
  BY DEF Relaunched
<1> QED BY <1>4, <1>5, <1>6, <1>7, <1>8, <1>9, <1>10, <1>11 DEF Event

\* Before the launch has consulted the cache, only the welcome is mounted.
BootInv == ~booted => stack = <<Plain("Welcome")>>

LEMMA OnlyBooted ==
    ASSUME ~booted, [Next]_vars
    PROVE  ReadProgress \/ ReadProgressFails \/ Relaunched \/ UNCHANGED stack
<1>1. ~(Onboarding \/ Speaking \/ GoBack \/ OpenGate \/ PressCheck)
  BY DEF Onboarding, GetStarted, SignIn, SignedIn, Continue, OnChoose, Wake,
         Speaking, StartSession, PressMapNode, PressActiveNode, SayTheWord, TalkBack, GoToFeedback,
         NextWord, FinishLesson, KeepGoing, GoBack, OpenGate, PressCheck, Shown, TalkTop
<1>2. ~(Tabs \/ Parents)
  BY <1>1 DEF Tabs, OpenLessonMap, OpenStreak, PressTab, Parents, PressParentTab, Shown, TalkTop
<1>3. Store \/ Device \/ UNCHANGED vars
  BY <1>1, <1>2 DEF Next
<1> QED BY <1>3 DEF Store, SaveDone, SaveFails, Device, Boot, BootFails, StorePack, ApplyContentPack,
                    NextDay, vars

LEMMA BootStep == TypeInv /\ BootInv /\ [Next]_vars => BootInv'
<1> SUFFICES ASSUME TypeInv, BootInv, [Next]_vars, ~booted' PROVE stack' = <<Plain("Welcome")>>
  BY DEF BootInv
<1>1. Event
  BY NextEvents
<1>2. CASE Relaunched
  BY <1>2 DEF Relaunched
<1>3. CASE ~Relaunched
  <2>1. ~booted
    BY <1>1, <1>3, FinishFacts
    DEF Event, Moved, Praised, Hydrated, Died, SaveDone, SaveFails, Boot, BootFails, StorePack,
        ApplyContentPack, NextDay, packVars, BootFromCache, BootWithoutCache, CachePack, SwapPack
  <2>2. stack = <<Plain("Welcome")>>
    BY <2>1 DEF BootInv
  <2>3. Rerendered(stack) = stack
    <3>1. DOMAIN stack = 1..1 /\ stack[1] = Plain("Welcome")
      BY <2>2
    <3>2. Plain("Welcome").screen \notin ReadsProgress
      BY DEF Plain, ReadsProgress
    <3>3. Rerendered(stack) = [j \in 1..1 |-> Plain("Welcome")]
      BY <3>1, <3>2 DEF Rerendered
    <3> QED BY <2>2, <3>3
  <2>4. CASE ReadProgress \/ ReadProgressFails
    <3>1. stack' = Rerendered(stack) \/ stack' = stack
      BY <2>4, ReadEvents DEF Hydrated, Died, Commit
    <3> QED BY <2>2, <2>3, <3>1
  <2> QED BY <1>3, <2>1, <2>2, <2>4, OnlyBooted
<1> QED BY <1>2, <1>3

\* Unless a pack arrived during a session, the session shows the active pack.
RevInv ==
    "drift" \notin marks =>
        \A i \in 1..Len(stack) : stack[i].screen \in SessionScreens => stack[i].rev = active

LEMMA MarksGrow ==
    ASSUME TypeInv, Event
    PROVE  marks \subseteq marks'
<1>1. Keeps \/ Acts \/ Hydrates \/ Dies \/ SaveDone \/ SaveFails \/ Relaunched
  BY StoreEvents
<1> QED BY <1>1 DEF Keeps, Acts, Hydrates, Dies, SaveDone, SaveFails, Relaunched

\* The active pack changes only when no session is mounted, or with a mark.
LEMMA PackEvents ==
    ASSUME TypeInv, BootInv, Event, active' # active, stack' # <<Plain("Welcome")>>
    PROVE  ApplyContentPack /\ UNCHANGED stack /\ (InSession => "drift" \in marks')
<1>1. ~(Moved \/ Praised \/ FinishLesson \/ Hydrated \/ Died \/ SaveDone \/ SaveFails \/ NextDay)
  BY FinishFacts DEF Moved, Praised, Hydrated, Died, SaveDone, SaveFails, NextDay, packVars
<1>2. ~(BootFails \/ StorePack)
  BY DEF BootFails, StorePack, BootWithoutCache, CachePack
<1>3. ~Boot
  <2>1. Boot => ~booted /\ stack' = stack
    BY DEF Boot, BootFromCache
  <2> QED BY <2>1 DEF BootInv
<1>4. ~Relaunched
  BY DEF Relaunched
<1>5. ApplyContentPack
  BY <1>1, <1>2, <1>3, <1>4 DEF Event
<1> QED BY <1>5 DEF ApplyContentPack

LEMMA RevStep == TypeInv /\ BootInv /\ RevInv /\ [Next]_vars => RevInv'
<1> SUFFICES ASSUME TypeInv, BootInv, RevInv, [Next]_vars, "drift" \notin marks',
                    NEW i \in 1..Len(stack'), stack'[i].screen \in SessionScreens
             PROVE  stack'[i].rev = active'
  BY DEF RevInv
<1>1. Event /\ "drift" \notin marks
  BY NextEvents, MarksGrow
<1>2. stack' # <<Plain("Welcome")>>
  <2>1. ASSUME stack' = <<Plain("Welcome")>> PROVE FALSE
    <3>1. i = 1 /\ stack'[i] = Plain("Welcome")
      BY <2>1
    <3> QED BY <3>1 DEF Plain, SessionScreens
  <2> QED BY <2>1
<1>3. \A j \in 1..Len(stack) : stack[j].screen \in SessionScreens => stack[j].rev = active
  BY <1>1 DEF RevInv
<1>4. CASE active' = active
  <2>1. CASE \E j \in 1..Len(stack) : Alike(stack[j], stack'[i])
    BY <1>3, <1>4, <2>1 DEF Alike
  <2>2. CASE \E s \in Screen : Opens(s, Top) /\ Alike(s, stack'[i])
    BY <1>4, <2>2 DEF Alike, Opens
  <2>3. CASE Alike(PraiseOfTop, stack'[i])
    <3>1. PraiseOfTop.rev = active /\ PraiseOfTop.screen \in SessionScreens
      BY DEF PraiseOfTop, Session, SessionScreens
    <3> QED BY <1>4, <2>3, <3>1 DEF Alike
  <2> QED BY <1>1, <1>2, <2>1, <2>2, <2>3, ScreenOrigins
<1>5. CASE active' # active
  <2>1. stack' = stack /\ ~InSession
    BY <1>1, <1>2, <1>5, PackEvents
  <2>2. i \in DOMAIN stack
    BY <2>1, TypeFacts, StackFacts
  <2> QED BY <2>1, <2>2 DEF InSession
<1> QED BY <1>4, <1>5

(***************************************************************************)
(* What was earned.  Unless a pack arrived during a session, each word of  *)
(* the progress, stored or not, was said or came with a seed.              *)
(***************************************************************************)
LEMMA NoDrift ==
    ASSUME RevInv, "drift" \notin marks
    PROVE  /\ \A i \in 1..Len(stack) : ~Drifted(stack[i])
           /\ ~Drifted(PraiseOfTop) /\ ~Drifted(Growth)
<1>1. ASSUME NEW s, s.screen \in SessionScreens => s.rev = active PROVE ~Drifted(s)
  BY <1>1 DEF Drifted, EffectWord, ShownWord, ActivePack, SessionScreens
<1>2. \A i \in 1..Len(stack) : stack[i].screen \in SessionScreens => stack[i].rev = active
  BY DEF RevInv
<1>3. PraiseOfTop.rev = active /\ Growth.screen \notin SessionScreens
  BY DEF PraiseOfTop, Session, Growth, SessionScreens
<1> QED BY <1>1, <1>2, <1>3

LEMMA NoNewWords ==
    ASSUME TypeInv, RevInv, "drift" \notin marks
    PROVE  /\ NewWords(stack, FALSE) = {}
           /\ Growth \in Screen => NewWords(Append(stack, Growth), FALSE) = {}
           /\ \A st \in Seq(Screen) : Praises(st) => NewWords(st, TRUE) = {EffectWord(PraiseOfTop)}
<1>1. /\ stack \in Seq(Screen) /\ Len(stack) \in Nat
      /\ Len(stack) > 1 =>
            /\ Front(stack) \in Seq(Screen) /\ Len(Front(stack)) = Len(stack) - 1
            /\ \A j \in 1..Len(stack) - 1 : Front(stack)[j] = stack[j]
  BY TypeFacts, StackFacts
<1>2. NewWords(stack, FALSE) = {}
  BY NoDrift DEF NewWords
<1>3. ASSUME Growth \in Screen PROVE NewWords(Append(stack, Growth), FALSE) = {}
  <2> DEFINE st == Append(stack, Growth)
  <2>1. \A i \in 1..Len(st) : ~Drifted(st[i])
    BY <1>1, <1>3, NoDrift, AppendScreens
  <2> HIDE DEF st
  <2>2. NewWords(st, FALSE) = {}
    BY <2>1 DEF NewWords
  <2> QED BY <2>2 DEF st
<1>4. ASSUME NEW st \in Seq(Screen), Praises(st) PROVE NewWords(st, TRUE) = {EffectWord(PraiseOfTop)}
  <2>1. PraiseOfTop \in Screen /\ Last(st) = PraiseOfTop
    BY <1>4, PraisedFacts, SessionTop, SessionIs DEF Praises, SessionScreens, PraiseOfTop
  <2>2. CASE st = Append(stack, PraiseOfTop)
    <3>1. \A i \in 1..Len(st) : ~Drifted(st[i])
      BY <1>1, <2>1, <2>2, NoDrift, AppendScreens
    <3> QED BY <2>1, <3>1 DEF NewWords
  <2>3. CASE Len(stack) > 1 /\ st = Append(Front(stack), PraiseOfTop)
    <3>1. \A i \in 1..Len(Front(stack)) : i \in 1..Len(stack) /\ Front(stack)[i] = stack[i]
      BY <1>1, <2>3
    <3>2. \A i \in 1..Len(st) : st[i] = PraiseOfTop \/ (i \in 1..Len(Front(stack)) /\ st[i] = Front(stack)[i])
      BY <1>1, <2>1, <2>3, AppendScreens
    <3>3. \A i \in 1..Len(st) : ~Drifted(st[i])
      BY <3>1, <3>2, NoDrift
    <3> QED BY <2>1, <3>3 DEF NewWords
  <2> QED BY <1>4, <2>2, <2>3 DEF Praises, PraiseOfTop
<1> QED BY <1>2, <1>3, <1>4

\* What a step does to the progress: where the words and the lessons come from.
LEMMA PraisedEvent ==
    ASSUME TypeInv, Praised
    PROVE  /\ Top.screen \in {"MicroConversation", "SoundPractice"}
           /\ progress' \in Progress /\ Holds(progress, progress')
           /\ progress'.completed = progress.completed
           /\ EffectWord(PraiseOfTop) \in Range(progress'.learned)
           /\ RevInv /\ "drift" \notin marks =>
                Range(progress'.learned) \subseteq Range(progress.learned) \cup {EffectWord(PraiseOfTop)}
           /\ memo'.lesson = ActiveLesson(ActivePack, progress'.completed)
<1>1. DeviceOK /\ progress \in Progress /\ IsProgress(progress)
  BY TypeFacts DEF StoreOK
<1>2. PICK st \in Seq(Screen) : Praises(st) /\ Commit(progress, st, TRUE)
  BY DEF Praised
<1>3. Last(st) \in SessionScreen /\ Last(st) = PraiseOfTop
  BY <1>2, PraisedFacts DEF PraiseOfTop
<1>4. /\ Grown(progress, progress', NewWords(st, TRUE), day) /\ memo' = Memo(progress')
      /\ EffectWord(Last(st)) \in Range(progress'.learned)
  BY <1>1, <1>2, <1>3, CommitEvent
<1>5. RevInv /\ "drift" \notin marks => NewWords(st, TRUE) = {EffectWord(PraiseOfTop)}
  BY <1>2, NoNewWords
<1>6. memo'.lesson = ActiveLesson(ActivePack, progress'.completed)
  BY <1>4 DEF Memo
<1>7. Top.screen \in {"MicroConversation", "SoundPractice"}
  BY <1>2 DEF Praises
<1>8. /\ progress' \in Progress /\ Holds(progress, progress')
      /\ progress'.completed = progress.completed
      /\ Range(progress'.learned) \subseteq Range(progress.learned) \cup NewWords(st, TRUE)
  BY <1>4 DEF Grown
<1> QED BY <1>3, <1>4, <1>5, <1>6, <1>7, <1>8

LEMMA FinishEvent ==
    ASSUME TypeInv, FinishLesson
    PROVE  /\ progress' \in Progress /\ Holds(progress, progress')
           /\ progress'.completed = progress.completed \cup {Top.lesson}
           /\ RevInv /\ "drift" \notin marks => Range(progress'.learned) \subseteq Range(progress.learned)
           /\ memo'.lesson = ActiveLesson(ActivePack, progress'.completed)
<1>1. DeviceOK /\ progress \in Progress /\ day \in Int
  BY TypeFacts, DeviceFacts DEF StoreOK
<1>2. /\ Commit(Finished, Append(stack, Growth), FALSE) /\ Append(stack, Growth) \in Seq(Screen)
      /\ Finished \in Progress /\ IsProgress(Finished) /\ Top.lesson \in AllIds /\ Growth \in Screen
  BY FinishFacts, SessionFields
<1>3. /\ Grown(Finished, progress', NewWords(Append(stack, Growth), FALSE), day)
      /\ memo' = Memo(progress')
  BY <1>1, <1>2, CommitEvent
<1>4. /\ Holds(progress, Finished) /\ Finished.completed = progress.completed \cup {Top.lesson}
      /\ Finished.learned = progress.learned
  BY <1>1, <1>2, CompleteFacts DEF Finished
<1>5. progress' \in Progress /\ Holds(Finished, progress') /\ progress'.completed = Finished.completed
      /\ Range(progress'.learned) \subseteq
              Range(progress.learned) \cup NewWords(Append(stack, Growth), FALSE)
  BY <1>3, <1>4 DEF Grown
<1>6. Holds(progress, progress')
  BY <1>1, <1>2, <1>4, <1>5, HoldsOn
<1>7. RevInv /\ "drift" \notin marks => NewWords(Append(stack, Growth), FALSE) = {}
  BY <1>2, NoNewWords
<1>8. memo'.lesson = ActiveLesson(ActivePack, progress'.completed)
  BY <1>3 DEF Memo
<1> QED BY <1>4, <1>5, <1>6, <1>7, <1>8

LEMMA HydratedEvent ==
    ASSUME TypeInv, Hydrated
    PROVE  /\ progress' \in Progress
           /\ \E p \in Progress :
                /\ Payload(p) /\ progress'.completed = p.completed
                /\ RevInv /\ "drift" \notin marks => Range(progress'.learned) \subseteq Range(p.learned)
           /\ memo'.lesson = ActiveLesson(ActivePack, progress'.completed)
<1>1. DeviceOK /\ stack \in Seq(Screen)
  BY TypeFacts
<1>2. PICK p : Payload(p) /\ Commit(p, stack, FALSE)
  BY DEF Hydrated
<1>3. p \in Progress /\ IsProgress(p)
  BY <1>2, PayloadFacts
<1>4. Grown(p, progress', NewWords(stack, FALSE), day) /\ memo' = Memo(progress')
  BY <1>1, <1>2, <1>3, CommitEvent
<1>5. RevInv /\ "drift" \notin marks => NewWords(stack, FALSE) = {}
  BY NoNewWords
<1>6. progress' \in Progress /\ progress'.completed = p.completed
      /\ Range(progress'.learned) \subseteq Range(p.learned) \cup NewWords(stack, FALSE)
  BY <1>4 DEF Grown
<1>7. memo'.lesson = ActiveLesson(ActivePack, progress'.completed)
  BY <1>4 DEF Memo
<1> QED BY <1>2, <1>3, <1>5, <1>6, <1>7

LEMMA ProgressEvents ==
    ASSUME TypeInv, Event
    PROVE  Praised \/ FinishLesson \/ Hydrated \/ Relaunched \/ (progress' = progress /\ memo' = memo)
<1>1. CASE Boot \/ BootFails \/ StorePack \/ ApplyContentPack
  BY <1>1, PackMoveFacts DEF storeVars
<1>2. Moved \/ Died \/ SaveDone \/ SaveFails \/ NextDay => progress' = progress /\ memo' = memo
  BY DEF Moved, Died, SaveDone, SaveFails, NextDay, storeVars
<1> QED BY <1>1, <1>2 DEF Event

\* Every save is of a state the progress had.
LEMMA SavesCome ==
    ASSUME TypeInv, Event
    PROVE  /\ \A i \in 1..Len(pending') :
                pending'[i] = progress' \/ \E j \in 1..Len(pending) : pending'[i] = pending[j]
           /\ disk' # <<>> =>
                \/ disk # <<>> /\ disk'[1] = disk[1]
                \/ 1 \in 1..Len(pending) /\ disk'[1] = pending[1]
<1>1. Keeps \/ Acts \/ Hydrates \/ Dies \/ SaveDone \/ SaveFails \/ Relaunched
  BY StoreEvents
<1>2. CASE UNCHANGED <<disk, pending>>
  BY <1>2
<1>3. CASE Acts \/ Hydrates
  <2>1. disk' = disk /\ progress' \in Progress /\ (pending' = pending \/ pending' = Append(pending, progress'))
    BY <1>3 DEF Acts, Hydrates
  <2>2. ASSUME pending' = Append(pending, progress'), NEW i \in 1..Len(pending')
        PROVE  pending'[i] = progress' \/ \E j \in 1..Len(pending) : pending'[i] = pending[j]
    <3>1. /\ Len(pending) \in Nat /\ Len(pending') = Len(pending) + 1
          /\ pending'[Len(pending) + 1] = progress'
          /\ \A j \in 1..Len(pending) : pending'[j] = pending[j]
      BY <2>1, <2>2, SaveFacts
    <3>2. i = Len(pending) + 1 \/ i \in 1..Len(pending)
      BY <2>2, <3>1
    <3> QED BY <3>1, <3>2
  <2> QED BY <2>1, <2>2
<1>4. CASE SaveDone \/ SaveFails
  <2>1. pending # <<>> /\ pending' = Tail(pending) /\ (disk' = disk \/ disk' = <<Head(pending)>>)
    BY <1>4 DEF SaveDone, SaveFails
  <2>2. /\ Len(pending) \in Nat \ {0} /\ Head(pending) = pending[1]
        /\ \A i \in 1..Len(Tail(pending)) : i + 1 \in 1..Len(pending) /\ Tail(pending)[i] = pending[i + 1]
    BY <2>1, TypeFacts, SaveTypes
  <2>3. 1 \in 1..Len(pending)
    BY <2>2
  <2>4. disk' = <<Head(pending)>> => disk'[1] = pending[1]
    BY <2>2
  <2> QED BY <2>1, <2>2, <2>3, <2>4
<1>5. CASE Relaunched
  BY <1>5 DEF Relaunched
<1>6. Keeps \/ Dies => UNCHANGED <<disk, pending>>
  BY DEF Keeps, storeVars, Dies
<1> QED BY <1>1, <1>2, <1>3, <1>4, <1>5, <1>6

SaidInv ==
    "drift" \notin marks =>
        /\ Range(progress.learned) \subseteq said \cup SeedWords
        /\ disk # <<>> => Range(disk[1].learned) \subseteq said \cup SeedWords
        /\ \A i \in 1..Len(pending) : Range(pending[i].learned) \subseteq said \cup SeedWords
        /\ \A i \in 1..Len(stack) :
            stack[i].screen \in {"MicroConversation", "SoundPractice", "Feedback"} =>
                ShownWord(stack[i]) \in said \cup SeedWords

LEMMA SaidGrows ==
    ASSUME TypeInv, Event
    PROVE  said \subseteq said'
<1>1. FinishLesson => said' = said
  BY FinishFacts
<1>2. Boot \/ BootFails \/ StorePack \/ ApplyContentPack => said' = said
  BY PackMoveFacts
<1> QED BY <1>1, <1>2 DEF Event, Moved, Praised, Hydrated, Died, SaveDone, SaveFails, NextDay, Relaunched

LEMMA NoSessionInWelcome ==
    ASSUME NEW st, st = <<Plain("Welcome")>>, NEW i \in 1..Len(st)
    PROVE  st[i].screen \notin SessionScreens \cup {"Main", "GrowthCelebration"}
<1>1. i = 1 /\ st[i] = Plain("Welcome")
  OBVIOUS
<1> QED BY <1>1 DEF Plain, SessionScreens

LEMMA TopFacts ==
    ASSUME TypeInv
    PROVE  /\ Len(stack) \in 1..Len(stack) /\ stack[Len(stack)] = Top
           /\ InSession <=> \E i \in 1..Len(stack) : stack[i].screen \in SessionScreens
<1>1. Len(stack) \in Nat \ {0} /\ DOMAIN stack = 1..Len(stack) /\ Top = stack[Len(stack)]
  BY TypeFacts, StackFacts
<1>2. Len(stack) \in 1..Len(stack)
  BY <1>1
<1> QED BY <1>1, <1>2 DEF InSession

LEMMA SaidStep == TypeInv /\ BootInv /\ RevInv /\ SaidInv /\ [Next]_vars => SaidInv'
<1> SUFFICES ASSUME TypeInv, BootInv, RevInv, SaidInv, [Next]_vars, "drift" \notin marks'
             PROVE  SaidInv'
  BY DEF SaidInv
<1> DEFINE earned == said \cup SeedWords
           earnedNow == said' \cup SeedWords
<1>1. Event /\ "drift" \notin marks /\ earned \subseteq earnedNow
  BY NextEvents, MarksGrow, SaidGrows
<1>2. /\ Range(progress.learned) \subseteq earned
      /\ disk # <<>> => Range(disk[1].learned) \subseteq earned
      /\ \A i \in 1..Len(pending) : Range(pending[i].learned) \subseteq earned
      /\ \A i \in 1..Len(stack) :
            stack[i].screen \in {"MicroConversation", "SoundPractice", "Feedback"} =>
                ShownWord(stack[i]) \in earned
  BY <1>1 DEF SaidInv
<1>3. \A i \in 1..Len(stack) : stack[i].screen \in SessionScreens => stack[i].rev = active
  BY <1>1 DEF RevInv
<1>4. /\ Top.screen \in SessionScreens => Top.rev = active
      /\ Top.screen \in {"MicroConversation", "SoundPractice", "Feedback"} => ShownWord(Top) \in earned
  BY <1>2, <1>3, TopFacts
<1>5. ASSUME Top.screen \in {"MicroConversation", "SoundPractice"}
      PROVE  EffectWord(PraiseOfTop) \in earned /\ ShownWord(PraiseOfTop) \in earned
  <2>1. EffectWord(PraiseOfTop) = ShownWord(Top) /\ ShownWord(PraiseOfTop) = ShownWord(Top)
    BY <1>4, <1>5 DEF PraiseOfTop, Session, EffectWord, ShownWord, ActivePack, SessionScreens
  <2> QED BY <1>4, <1>5, <2>1
<1> HIDE DEF earned, earnedNow
<1>6. Range(progress'.learned) \subseteq earnedNow
  <2>1. CASE progress' = progress
    BY <1>1, <1>2, <2>1
  <2>2. CASE Praised
    BY <1>1, <1>2, <1>5, <2>2, PraisedEvent
  <2>3. CASE FinishLesson
    BY <1>1, <1>2, <2>3, FinishEvent
  <2>4. ASSUME NEW p, Payload(p), Range(progress'.learned) \subseteq Range(p.learned)
        PROVE  Range(progress'.learned) \subseteq earnedNow
    <3>1. CASE disk # <<>> /\ p = disk[1]
      BY <1>1, <1>2, <2>4, <3>1
    <3>2. CASE CanSeed(ActivePack) /\ p = DemoSeed(ActivePack, day)
      <4>1. Range(p.learned) \subseteq SeedWords
        BY <3>2, TypeFacts, DeviceFacts, SeedFacts
      <4> QED BY <2>4, <4>1 DEF earnedNow
    <3> QED BY <2>4, <3>1, <3>2 DEF Payload
  <2>5. CASE Relaunched
    <3>1. Range(progress'.learned) = {}
      BY <2>5, NothingFacts DEF Relaunched
    <3> QED BY <3>1
  <2>6. CASE Hydrated
    BY <1>1, <2>4, <2>6, HydratedEvent
  <2> QED BY <1>1, <2>1, <2>2, <2>3, <2>5, <2>6, ProgressEvents
<1>7. \A i \in 1..Len(pending') : Range(pending'[i].learned) \subseteq earnedNow
  BY <1>1, <1>2, <1>6, SavesCome
<1>8. disk' # <<>> => Range(disk'[1].learned) \subseteq earnedNow
  BY <1>1, <1>2, SavesCome
<1>9. ASSUME NEW i \in 1..Len(stack'),
             stack'[i].screen \in {"MicroConversation", "SoundPractice", "Feedback"}
      PROVE  ShownWord(stack'[i]) \in earnedNow
  <2>1. stack'[i].screen \in SessionScreens /\ stack' # <<Plain("Welcome")>>
    BY <1>9, NoSessionInWelcome DEF SessionScreens
  <2>2. ASSUME NEW s, Alike(s, stack'[i]), s.rev = active PROVE ShownWord(stack'[i]) = ShownWord(s)
    BY <2>1, <2>2 DEF Alike, ShownWord
  <2>3. CASE \E j \in 1..Len(stack) : Alike(stack[j], stack'[i])
    <3>1. PICK j \in 1..Len(stack) : Alike(stack[j], stack'[i])
      BY <2>3
    <3>2. stack[j].screen = stack'[i].screen
      BY <3>1 DEF Alike
    <3> QED BY <1>1, <1>2, <1>3, <1>9, <2>1, <2>2, <3>1, <3>2
  <2>4. CASE \E s \in Screen : Opens(s, Top) /\ Alike(s, stack'[i])
    <3>1. PICK s \in Screen : Opens(s, Top) /\ Alike(s, stack'[i])
      BY <2>4
    <3>2. s.screen = stack'[i].screen /\ s.rev = active /\ ShownWord(stack'[i]) = ShownWord(s)
      BY <2>1, <2>2, <3>1 DEF Alike, Opens
    <3>3. CASE s.screen = "MicroConversation"
      <4>1. Top.screen = "SayTheWord" /\ Top.lesson = s.lesson /\ Top.index = s.index
            /\ ShownWord(Top) \in earnedNow
        BY <3>1, <3>3, OpenedFromCases DEF Opens, earnedNow
      <4>2. ShownWord(s) = ShownWord(Top)
        BY <1>4, <3>2, <4>1 DEF ShownWord, SessionScreens
      <4> QED BY <3>2, <4>1, <4>2
    <3>4. CASE s.screen = "SoundPractice"
      <4>1. Top.screen = "MicroConversation" /\ Top.lesson = s.lesson /\ Top.index = s.index
        BY <3>1, <3>4, OpenedFromCases DEF Opens
      <4>2. ShownWord(s) = ShownWord(Top)
        BY <1>4, <3>2, <4>1 DEF ShownWord, SessionScreens
      <4> QED BY <1>1, <1>4, <3>2, <4>1, <4>2
    <3> QED BY <1>9, <3>1, <3>2, <3>3, <3>4 DEF Opens
  <2>5. CASE Praised /\ Alike(PraiseOfTop, stack'[i])
    <3>1. Top.screen \in {"MicroConversation", "SoundPractice"}
      BY <2>5 DEF Praised, Praises
    <3>2. PraiseOfTop.rev = active
      BY DEF PraiseOfTop, Session
    <3> QED BY <1>1, <1>5, <2>2, <2>5, <3>1, <3>2
  <2> QED BY <1>1, <2>1, <2>3, <2>4, <2>5, ScreenOrigins
<1> QED BY <1>6, <1>7, <1>8, <1>9 DEF SaidInv, earnedNow

\* Unless a pack or a hydration came during a session, the words of its lesson
\* before the one shown are learned, and a praised one too.
LearnedTo(s, p) ==
    \A k \in DOMAIN GetLesson(ActivePack, s.lesson).words :
        k <= s.index \/ (s.screen = "Feedback" /\ k = s.index + 1) =>
            GetLesson(ActivePack, s.lesson).words[k] \in Range(p.learned)

LearnedInv ==
    {"drift", "early"} \cap marks = {} =>
        \A i \in 1..Len(stack) : stack[i].screen \in SessionScreens => LearnedTo(stack[i], progress)

LEMMA LearnedStep == TypeInv /\ BootInv /\ LearnedInv /\ [Next]_vars => LearnedInv'
<1> SUFFICES ASSUME TypeInv, BootInv, LearnedInv, [Next]_vars, {"drift", "early"} \cap marks' = {},
                    NEW i \in 1..Len(stack'), stack'[i].screen \in SessionScreens
             PROVE  active' = active /\ LearnedTo(stack'[i], progress')
  BY DEF LearnedInv, LearnedTo, ActivePack
<1> DEFINE t == stack'[i]
<1>1. Event /\ {"drift", "early"} \cap marks = {}
  BY NextEvents, MarksGrow
<1>2. stack' # <<Plain("Welcome")>>
  BY NoSessionInWelcome
<1>3. /\ \A j \in 1..Len(stack) : stack[j].screen \in SessionScreens => LearnedTo(stack[j], progress)
      /\ Top.screen \in SessionScreens => LearnedTo(Top, progress)
  BY <1>1, TopFacts DEF LearnedInv
<1>4. ASSUME active' # active PROVE FALSE
  <2>1. stack' = stack /\ ~InSession
    BY <1>1, <1>2, <1>4, PackEvents
  <2> QED BY <2>1, TopFacts
<1>6. ASSUME NEW s, Alike(s, t), NEW p, LearnedTo(s, p) PROVE LearnedTo(t, p)
  BY <1>6 DEF Alike, LearnedTo
<1>7. active \in Revisions /\ ActivePack = Packs[active]
      /\ \A id : DOMAIN GetLesson(ActivePack, id).words \subseteq Nat \ {0}
  <2>1. active \in Revisions /\ ActivePack = Packs[active]
    BY TypeFacts
  <2>2. ASSUME NEW id PROVE DOMAIN GetLesson(ActivePack, id).words \subseteq Nat \ {0}
    <3>1. PICK l \in DOMAIN Packs[active] : GetLesson(Packs[active], id) = Packs[active][l]
      BY <2>1, LessonFacts
    <3>2. DOMAIN Packs[active][l].words = 1..Len(Packs[active][l].words)
          /\ Len(Packs[active][l].words) \in Nat
      BY <2>1, PackFacts
    <3> QED BY <2>1, <3>1, <3>2
  <2> QED BY <2>1, <2>2
<1> HIDE DEF t
<1>8. ASSUME NEW j \in 1..Len(stack), Alike(stack[j], t) PROVE LearnedTo(t, progress')
  <2>1. Alike(stack[j], t)
    BY <1>8
  <2>2. stack[j].screen \in SessionScreens
    BY <2>1 DEF Alike, t
  <2>3. LearnedTo(stack[j], progress) /\ InSession
    BY <1>3, <2>2, TopFacts
  <2>4. Range(progress.learned) \subseteq Range(progress'.learned)
    <3>1. ASSUME progress' \in Progress, Holds(progress, progress')
          PROVE  Range(progress.learned) \subseteq Range(progress'.learned)
      <4>1. progress.learned \in Seq(AllWords) /\ progress'.learned \in Seq(AllWords)
        BY <3>1, TypeFacts, ProgressFields DEF StoreOK
      <4> QED BY <3>1, <4>1, PrefixRange DEF Holds
    <3>2. ~Hydrated
      BY <1>1, <2>3 DEF Hydrated, MarksRead
    <3>3. ~Relaunched
      BY <1>2 DEF Relaunched
    <3>4. CASE Praised \/ FinishLesson
      BY <3>1, <3>4, PraisedEvent, FinishEvent
    <3> QED BY <1>1, <3>2, <3>3, <3>4, ProgressEvents
  <2>5. LearnedTo(stack[j], progress')
    BY <2>3, <2>4 DEF LearnedTo
  <2> QED BY <1>6, <2>1, <2>5
<1>9. ASSUME Moved, \E s \in Screen : Opens(s, Top) /\ Alike(s, t)
      PROVE  LearnedTo(t, progress')
  <2>1. PICK s \in Screen : Opens(s, Top) /\ Alike(s, t)
    BY <1>9
  <2>2. progress' = progress /\ s.screen \in SessionScreens
    BY <1>9, <2>1 DEF Moved, storeVars, Alike, t
  <2>3. LearnedTo(s, progress)
    <3>1. CASE s.screen = "SayTheWord" /\ Top.screen = "Main"
      <4>1. CASE s.index = 0
        BY <1>7, <3>1, <4>1 DEF LearnedTo
      <4>2. CASE s.index = ResumeIndex(ActivePack, s.lesson, progress.learned)
        <5>1. /\ s.index \in Nat
              /\ \A k \in 1..s.index : k \in DOMAIN GetLesson(ActivePack, s.lesson).words =>
                    GetLesson(ActivePack, s.lesson).words[k] \in Range(progress.learned)
          BY <1>7, <4>2, ResumeFacts
        <5>2. \A k \in DOMAIN GetLesson(ActivePack, s.lesson).words : k <= s.index => k \in 1..s.index
          BY <1>7, <5>1
        <5> QED BY <3>1, <5>1, <5>2 DEF LearnedTo
      <4> QED BY <2>1, <3>1, <4>1, <4>2 DEF Opens
    <3>2. CASE s.screen = "SayTheWord" /\ Top.screen # "Main"
      <4>1. Top.screen = "Feedback" /\ Top.lesson = s.lesson /\ Top.index + 1 = s.index
        BY <2>1, <3>2, OpenedFromCases DEF Opens
      <4>2. LearnedTo(Top, progress) /\ Top.index \in Nat
        BY <1>3, <4>1, SessionTop DEF SessionScreens
      <4>3. \A k \in DOMAIN GetLesson(ActivePack, s.lesson).words :
                k <= s.index => k <= Top.index \/ k = Top.index + 1
        BY <1>7, <4>1, <4>2
      <4> QED BY <3>2, <4>1, <4>2, <4>3 DEF LearnedTo
    <3>3. CASE s.screen \in {"MicroConversation", "SoundPractice"}
      <4>1. Top.screen \in SessionScreens /\ Top.lesson = s.lesson /\ Top.index = s.index
        BY <2>1, <3>3, OpenedFromCases DEF Opens, SessionScreens
      <4> QED BY <1>3, <3>3, <4>1 DEF LearnedTo
    <3> QED BY <2>1, <2>2, <3>1, <3>2, <3>3 DEF Opens, SessionScreens
  <2> QED BY <1>6, <2>1, <2>2, <2>3
<1>10. ASSUME Praised, Alike(PraiseOfTop, t) PROVE LearnedTo(t, progress')
  <2> DEFINE words == GetLesson(ActivePack, Top.lesson).words
  <2>1. /\ Top.screen \in {"MicroConversation", "SoundPractice"}
        /\ progress' \in Progress /\ Holds(progress, progress')
        /\ EffectWord(PraiseOfTop) \in Range(progress'.learned)
    BY <1>10, PraisedEvent
  <2>2. LearnedTo(Top, progress) /\ Top.index \in Nat
    BY <1>3, <2>1, SessionTop DEF SessionScreens
  <2>3. Range(progress.learned) \subseteq Range(progress'.learned)
    <3>1. progress.learned \in Seq(AllWords) /\ progress'.learned \in Seq(AllWords)
      BY <2>1, TypeFacts, ProgressFields DEF StoreOK
    <3> QED BY <2>1, <3>1, PrefixRange DEF Holds
  <2>4. /\ PraiseOfTop.lesson = Top.lesson /\ PraiseOfTop.index = Top.index
        /\ PraiseOfTop.screen = "Feedback"
    BY DEF PraiseOfTop, Session
  <2>5. Top.index + 1 \in DOMAIN words => words[Top.index + 1] \in Range(progress'.learned)
    <3>1. PICK l \in DOMAIN Packs[active] : GetLesson(Packs[active], Top.lesson) = Packs[active][l]
      BY <1>7, LessonFacts
    <3>2. DOMAIN words = 1..Len(words) /\ Len(words) \in Nat
      BY <1>7, <3>1, PackFacts
    <3>3. Top.index + 1 \in DOMAIN words => Top.index < Len(words)
      BY <2>2, <3>2
    <3>4. Top.index < Len(words) => WordAt(ActivePack, Top.lesson, Top.index) = words[Top.index + 1]
      BY <1>7, <2>2, WordFacts
    <3>5. EffectWord(PraiseOfTop) = WordAt(ActivePack, Top.lesson, Top.index)
      BY <2>4 DEF EffectWord
    <3> QED BY <2>1, <3>3, <3>4, <3>5
  <2>6. LearnedTo(PraiseOfTop, progress')
    <3>1. \A k \in DOMAIN words : k <= Top.index => words[k] \in Range(progress'.learned)
      BY <2>2, <2>3 DEF LearnedTo
    <3> QED BY <2>4, <2>5, <3>1 DEF LearnedTo
  <2> QED BY <1>6, <1>10, <2>6
<1>11. LearnedTo(t, progress')
  BY <1>1, <1>2, <1>8, <1>9, <1>10, ScreenOrigins DEF t
<1> QED BY <1>4, <1>11 DEF t

\* A lesson finished after its words were learned is completed in full.
LEMMA InFullStep == TypeInv /\ RevInv /\ LearnedInv /\ CompletedInFull /\ [Next]_vars => CompletedInFull'
<1> SUFFICES ASSUME TypeInv, RevInv, LearnedInv, CompletedInFull, [Next]_vars,
                    "short" \in marks', {"drift", "early"} \cap marks' = {}
             PROVE  FALSE
  BY DEF CompletedInFull
<1>1. Event /\ {"drift", "early"} \cap marks = {} /\ "short" \notin marks
  BY NextEvents, MarksGrow DEF CompletedInFull
<1>2. CASE FinishLesson
  <2> DEFINE words == GetLesson(ActivePack, Top.lesson).words
  <2>1. /\ Top.screen = "Feedback" /\ Top.index \in Nat
        /\ IsLastWord(Packs[Top.rev], Top.lesson, Top.index)
    BY <1>2, FinishFacts, SessionFields
  <2>2. Top.rev = active /\ LearnedTo(Top, progress)
    BY <1>1, <2>1, TopFacts DEF RevInv, LearnedInv, SessionScreens
  <2>3. active \in Revisions /\ ActivePack = Packs[active]
    BY TypeFacts
  <2>4. DOMAIN words = 1..Len(words) /\ Len(words) \in Nat
    <3>1. PICK l \in DOMAIN Packs[active] : GetLesson(Packs[active], Top.lesson) = Packs[active][l]
      BY <2>3, LessonFacts
    <3> QED BY <2>3, <3>1, PackFacts
  <2>5. Top.index >= Len(words) - 1
    BY <2>1, <2>2, <2>3 DEF IsLastWord
  <2>6. \A k \in DOMAIN words : k <= Top.index \/ k = Top.index + 1
    BY <2>1, <2>4, <2>5
  <2>7. Range(words) \subseteq Range(progress.learned)
    BY <2>1, <2>2, <2>6 DEF LearnedTo, Range
  <2>8. Range(progress.learned) \subseteq Range(progress'.learned)
    <3>1. progress' \in Progress /\ progress \in Progress /\ Holds(progress, progress')
      BY <1>2, TypeFacts, FinishEvent DEF StoreOK
    <3>2. progress.learned \in Seq(AllWords) /\ progress'.learned \in Seq(AllWords)
      BY <3>1, ProgressFields
    <3> QED BY <3>1, <3>2, PrefixRange DEF Holds
  <2>9. marks' = marks
    BY <1>2, <2>7, <2>8 DEF FinishLesson
  <2> QED BY <1>1, <2>9
<1>3. CASE Boot \/ BootFails \/ StorePack \/ ApplyContentPack
  BY <1>1, <1>3, PackMoveFacts
<1>4. CASE Moved \/ Praised \/ SaveDone \/ SaveFails \/ NextDay \/ Relaunched
  <2>1. marks' = marks \/ marks' = marks \cup {"unwritten"}
    BY <1>4 DEF Moved, Praised, SaveDone, SaveFails, NextDay, Relaunched
  <2> QED BY <1>1, <2>1
<1>5. CASE Hydrated \/ Died
  BY <1>1, <1>5 DEF Hydrated, Died, MarksRead
<1> QED BY <1>1, <1>2, <1>3, <1>4, <1>5 DEF Event

(***************************************************************************)
(* The journey.  While the bundled pack is the only one and nothing was    *)
(* hydrated under a session, the completed lessons are its first ones, and *)
(* a session is in a lesson whose predecessors are completed.              *)
(***************************************************************************)
Journey1 == Packs[Bundled]

InOrder(completed) ==
    /\ completed \subseteq LessonIds(Journey1)
    /\ \A j \in DOMAIN Journey1 : Journey1[j].id \in completed =>
            \A i \in 1..j : Journey1[i].id \in completed

Reached(id, completed) ==
    \E k \in DOMAIN Journey1 :
        Journey1[k].id = id /\ \A i \in 1..k - 1 : Journey1[i].id \in completed

Alone == cached = 0 /\ {"uncached", "early"} \cap marks = {}

OrderInv ==
    Alone =>
        /\ active = Bundled
        /\ InOrder(progress.completed)
        /\ memo.lesson = ActiveLesson(Journey1, progress.completed)
        /\ disk # <<>> => InOrder(disk[1].completed)
        /\ \A i \in 1..Len(pending) : InOrder(pending[i].completed)
        /\ \A i \in 1..Len(stack) :
            stack[i].screen \in SessionScreens => Reached(stack[i].lesson, progress.completed)

LEMMA JourneyFacts ==
    /\ Bundled \in Revisions
    /\ DOMAIN Journey1 = 1..Len(Journey1) /\ Len(Journey1) \in Nat \ {0}
    /\ \A i, j \in DOMAIN Journey1 : Journey1[i].id = Journey1[j].id => i = j
<1>1. Bundled \in Revisions
  BY BundledFacts
<1> QED BY <1>1, PackFacts, JourneyAssumption DEF Journey1

LEMMA SeedInOrder ==
    ASSUME CanSeed(Journey1), NEW d \in Int
    PROVE  InOrder(DemoSeed(Journey1, d).completed)
<1>1. DemoSeed(Journey1, d).completed = {Journey1[1].id, Journey1[2].id}
  BY JourneyFacts, SeedFacts DEF Journey1
<1>2. {1, 2} \subseteq DOMAIN Journey1
  BY JourneyFacts DEF CanSeed
<1>3. {Journey1[1].id, Journey1[2].id} \subseteq LessonIds(Journey1)
  BY <1>2 DEF LessonIds
<1>4. ASSUME NEW j \in DOMAIN Journey1, Journey1[j].id \in {Journey1[1].id, Journey1[2].id},
             NEW i \in 1..j
      PROVE  Journey1[i].id \in {Journey1[1].id, Journey1[2].id}
  <2>1. j = 1 \/ j = 2
    BY <1>2, <1>4, JourneyFacts
  <2>2. i = 1 \/ i = 2
    BY <2>1
  <2> QED BY <2>2
<1> QED BY <1>1, <1>3, <1>4 DEF InOrder

LEMMA FinishInOrder ==
    ASSUME NEW completed, InOrder(completed), NEW id, Reached(id, completed)
    PROVE  InOrder(completed \cup {id})
<1>1. PICK k \in DOMAIN Journey1 :
        Journey1[k].id = id /\ \A i \in 1..k - 1 : Journey1[i].id \in completed
  BY DEF Reached
<1>2. completed \cup {id} \subseteq LessonIds(Journey1)
  BY <1>1 DEF InOrder, LessonIds
<1>3. ASSUME NEW j \in DOMAIN Journey1, Journey1[j].id \in completed \cup {id}, NEW i \in 1..j
      PROVE  Journey1[i].id \in completed \cup {id}
  <2>1. CASE Journey1[j].id \in completed
    BY <1>3, <2>1 DEF InOrder
  <2>2. CASE Journey1[j].id = id
    <3>1. j = k /\ k \in Nat
      BY <1>1, <2>2, JourneyFacts
    <3>2. i = k \/ i \in 1..k - 1
      BY <1>3, <3>1
    <3> QED BY <1>1, <3>2
  <2> QED BY <1>3, <2>1, <2>2
<1> QED BY <1>2, <1>3 DEF InOrder

LEMMA ReachedOn ==
    ASSUME NEW id, NEW completed, NEW more, completed \subseteq more, Reached(id, completed)
    PROVE  Reached(id, more)
BY DEF Reached

\* What a child can start has been reached: the active lesson or a done one.
LEMMA OpenIsReached ==
    ASSUME NEW completed, InOrder(completed), NEW id,
           id = ActiveLesson(Journey1, completed) \/ id \in completed
    PROVE  Reached(id, completed)
<1>1. CASE id = ActiveLesson(Journey1, completed)
  BY <1>1, JourneyFacts, ActiveFacts DEF Reached, Journey1
<1>2. CASE id \in completed
  <2>1. PICK k \in DOMAIN Journey1 : Journey1[k].id = id
    BY <1>2 DEF InOrder, LessonIds
  <2>2. \A i \in 1..k - 1 : i \in 1..k
    BY <2>1, JourneyFacts
  <2> QED BY <1>2, <2>1, <2>2 DEF InOrder, Reached
<1> QED BY <1>1, <1>2

\* The bundled pack stays the only one by what a step leaves.
LEMMA AloneBefore ==
    ASSUME TypeInv, Event, cached' = 0, {"uncached", "early"} \cap marks' = {}
    PROVE  Alone /\ (active = Bundled => active' = Bundled)
<1>1. {"uncached", "early"} \cap marks = {} /\ active \in Nat /\ active # 0
  <2>1. Newest \in Nat /\ active \in 1..Newest
    BY TypeFacts, NewestAssumption DEF DeviceOK, PackCacheTypeOK
  <2> QED BY <2>1, MarksGrow
<1>2. CASE Boot \/ BootFails
  <2>1. cached' = cached /\ (active' = active \/ (active' = cached /\ cached > active))
    BY <1>2 DEF Boot, BootFails, BootFromCache, BootWithoutCache
  <2> QED BY <1>1, <2>1 DEF Alone
<1>3. ~StorePack
  <2>1. ASSUME NEW r \in Revisions, CachePack(r) PROVE FALSE
    BY <1>1, <2>1 DEF CachePack
  <2> QED BY <2>1 DEF StorePack
<1>4. ~ApplyContentPack
  <2>1. ASSUME NEW r \in Revisions, SwapPack(r), cached # r => "uncached" \in marks' PROVE FALSE
    BY <1>1, <2>1 DEF SwapPack
  <2> QED BY <2>1 DEF ApplyContentPack
<1>5. CASE Relaunched
  BY <1>1, <1>5 DEF Relaunched, Relaunch, Alone, Bundled
<1>6. CASE UNCHANGED packVars
  BY <1>1, <1>6 DEF packVars, Alone
<1>7. Moved \/ Praised \/ FinishLesson \/ Hydrated \/ Died \/ SaveDone \/ SaveFails \/ NextDay => UNCHANGED packVars
  BY FinishFacts DEF Moved, Praised, Hydrated, Died, SaveDone, SaveFails, NextDay
<1> QED BY <1>2, <1>3, <1>4, <1>5, <1>6, <1>7 DEF Event

LEMMA OrderStep == TypeInv /\ OrderInv /\ [Next]_vars => OrderInv'
<1> SUFFICES ASSUME TypeInv, OrderInv, [Next]_vars, cached' = 0, {"uncached", "early"} \cap marks' = {}
             PROVE  /\ active' = Bundled
                    /\ InOrder(progress'.completed)
                    /\ memo'.lesson = ActiveLesson(Journey1, progress'.completed)
                    /\ disk' # <<>> => InOrder(disk'[1].completed)
                    /\ \A i \in 1..Len(pending') : InOrder(pending'[i].completed)
                    /\ \A i \in 1..Len(stack') : stack'[i].screen \in SessionScreens =>
                            Reached(stack'[i].lesson, progress'.completed)
  BY DEF OrderInv, Alone, InOrder, Reached, Journey1
<1>1. Event
  BY NextEvents
<1>2. Alone /\ active = Bundled /\ active' = Bundled /\ ActivePack = Journey1
  BY <1>1, AloneBefore DEF OrderInv, ActivePack, Journey1
<1>3. /\ InOrder(progress.completed)
      /\ memo.lesson = ActiveLesson(Journey1, progress.completed)
      /\ disk # <<>> => InOrder(disk[1].completed)
      /\ \A i \in 1..Len(pending) : InOrder(pending[i].completed)
      /\ \A i \in 1..Len(stack) :
            stack[i].screen \in SessionScreens => Reached(stack[i].lesson, progress.completed)
  BY <1>2 DEF OrderInv
<1>4. Top.screen \in SessionScreens => Reached(Top.lesson, progress.completed)
  BY <1>3, TopFacts
<1>5. FinishLesson => progress'.completed = progress.completed \cup {Top.lesson} /\ Top.screen = "Feedback"
  BY FinishEvent, FinishFacts
<1>6. InOrder(progress'.completed)
  <2>1. CASE progress' = progress \/ Praised
    BY <1>3, <2>1, PraisedEvent
  <2>2. CASE FinishLesson
    BY <1>3, <1>4, <1>5, <2>2, FinishInOrder DEF SessionScreens
  <2>3. CASE Hydrated
    <3>1. PICK p \in Progress : Payload(p) /\ progress'.completed = p.completed
      BY <2>3, HydratedEvent
    <3>2. CASE disk # <<>> /\ p = disk[1]
      BY <1>3, <3>1, <3>2
    <3>3. CASE CanSeed(ActivePack) /\ p = DemoSeed(ActivePack, day)
      BY <1>2, <3>1, <3>3, SeedInOrder, TypeFacts, DeviceFacts
    <3> QED BY <3>1, <3>2, <3>3 DEF Payload
  <2>4. CASE Relaunched
    <3>1. progress'.completed = {}
      BY <2>4, NothingFacts DEF Relaunched
    <3> QED BY <3>1 DEF InOrder
  <2> QED BY <1>1, <2>1, <2>2, <2>3, <2>4, ProgressEvents
<1>7. memo'.lesson = ActiveLesson(Journey1, progress'.completed)
  <2>1. CASE Relaunched
    <3>1. progress'.completed = {} /\ memo'.lesson = ActiveLesson(Packs[Bundled], {})
      BY <2>1, NothingFacts DEF Relaunched
    <3> QED BY <3>1 DEF Journey1
  <2> QED BY <1>1, <1>2, <1>3, <2>1, PraisedEvent, FinishEvent, HydratedEvent, ProgressEvents
<1>8. \A i \in 1..Len(pending') : InOrder(pending'[i].completed)
  BY <1>1, <1>3, <1>6, SavesCome
<1>9. disk' # <<>> => InOrder(disk'[1].completed)
  BY <1>1, <1>3, SavesCome
<1>10. ASSUME NEW i \in 1..Len(stack'), stack'[i].screen \in SessionScreens
       PROVE  Reached(stack'[i].lesson, progress'.completed)
  <2> DEFINE t == stack'[i]
  <2>1. stack' # <<Plain("Welcome")>>
    BY <1>10, NoSessionInWelcome
  <2>2. CASE \E j \in 1..Len(stack) : Alike(stack[j], t)
    <3>1. PICK j \in 1..Len(stack) : Alike(stack[j], t)
      BY <2>2
    <3>2. stack[j].screen \in SessionScreens /\ t.lesson = stack[j].lesson
      BY <1>10, <3>1 DEF Alike
    <3>3. Reached(t.lesson, progress.completed) /\ InSession
      BY <1>3, <3>1, <3>2, TopFacts
    <3>4. progress.completed \subseteq progress'.completed
      <4>1. ~Hydrated
        BY <3>3 DEF Hydrated, MarksRead
      <4>2. ~Relaunched
        BY <2>1 DEF Relaunched
      <4> QED BY <1>1, <1>5, <4>1, <4>2, PraisedEvent, ProgressEvents
    <3> QED BY <3>3, <3>4, ReachedOn
  <2>3. CASE Moved /\ \E s \in Screen : Opens(s, Top) /\ Alike(s, t)
    <3>1. PICK s \in Screen : Opens(s, Top) /\ Alike(s, t)
      BY <2>3
    <3>2. progress' = progress /\ s.screen \in SessionScreens /\ t.lesson = s.lesson
      BY <1>10, <2>3, <3>1 DEF Moved, storeVars, Alike
    <3>3. CASE Top.screen \in SessionScreens /\ s.lesson = Top.lesson
      BY <1>4, <3>2, <3>3
    <3>4. CASE s.screen = "SayTheWord" /\ Top.screen = "Main"
      <4>1. s.lesson = ActiveLesson(Journey1, progress.completed) \/ s.lesson \in progress.completed
        BY <1>3, <3>1, <3>4 DEF Opens
      <4> QED BY <1>3, <3>2, <4>1, OpenIsReached
    <3>5. \/ Top.screen \in SessionScreens /\ s.lesson = Top.lesson
          \/ s.screen = "SayTheWord" /\ Top.screen = "Main"
      BY <3>1, <3>2, OpenedFromCases DEF Opens, SessionScreens
    <3> QED BY <3>3, <3>4, <3>5
  <2>4. CASE Praised /\ Alike(PraiseOfTop, t)
    <3>1. t.lesson = Top.lesson
      BY <1>10, <2>4 DEF Alike, PraiseOfTop, Session
    <3>2. /\ Top.screen \in SessionScreens
          /\ progress'.completed = progress.completed
      BY <2>4, PraisedEvent DEF SessionScreens
    <3> QED BY <1>4, <3>1, <3>2
  <2> QED BY <1>1, <1>10, <2>1, <2>2, <2>3, <2>4, ScreenOrigins
<1> QED BY <1>2, <1>6, <1>7, <1>8, <1>9, <1>10

EarnedInv == BootInv /\ RevInv /\ SaidInv /\ LearnedInv /\ CompletedInFull /\ OrderInv

LEMMA EarnedInit == Init => EarnedInv
<1> SUFFICES ASSUME Init PROVE EarnedInv
  OBVIOUS
<1>1. /\ active = Bundled /\ marks = {} /\ disk = <<>> /\ pending = <<>> /\ stack = <<Plain("Welcome")>>
      /\ progress = Nothing /\ memo.lesson = ActiveLesson(Journey1, {})
  BY DEF Init, PackCacheInit, StoreInit, Bundled, NoSave, Journey1
<1>2. \A i \in 1..Len(stack) :
        stack[i].screen \notin SessionScreens \cup {"MicroConversation", "SoundPractice", "Feedback"}
  BY <1>1, NoSessionInWelcome DEF SessionScreens
<1>3. Range(progress.learned) = {} /\ progress.completed = {} /\ Len(pending) = 0
  BY <1>1, NothingFacts
<1>4. BootInv /\ RevInv /\ LearnedInv /\ CompletedInFull
  BY <1>1, <1>2 DEF BootInv, RevInv, LearnedInv, CompletedInFull
<1>5. SaidInv
  BY <1>1, <1>2, <1>3 DEF SaidInv
<1>6. InOrder(progress.completed)
  BY <1>3 DEF InOrder
<1>7. OrderInv
  BY <1>1, <1>2, <1>3, <1>6 DEF OrderInv
<1> QED BY <1>4, <1>5, <1>7 DEF EarnedInv

\* Every word of the progress was said or seeded, every lesson completed in
\* full, and in journey order while no pack has come (ProgressIsEarned).
THEOREM WhatIsHeldWasEarned == Spec => []ProgressIsEarned
<1>1. Init => TypeInv /\ EarnedInv
  BY TypeInit, EarnedInit
<1>2. TypeInv /\ EarnedInv /\ [Next]_vars => (TypeInv /\ EarnedInv)'
  BY TypeStep, BootStep, RevStep, SaidStep, LearnedStep, InFullStep, OrderStep DEF EarnedInv
<1>3. TypeInv /\ EarnedInv => ProgressIsEarned
  <2> SUFFICES ASSUME TypeInv, EarnedInv PROVE ProgressIsEarned
    OBVIOUS
  <2>1. EarnedWasSaid /\ CompletedInFull
    BY DEF EarnedInv, SaidInv, EarnedWasSaid
  <2>2. ASSUME active = Bundled, Alone PROVE InOrder(progress.completed) /\ ActivePack = Journey1
    BY <2>2 DEF EarnedInv, OrderInv, ActivePack, Journey1
  <2>3. JourneyInOrder
    BY <2>2 DEF JourneyInOrder, Alone, InOrder
  <2> QED BY <2>1, <2>3 DEF ProgressIsEarned
<1> QED BY <1>1, <1>2, <1>3, PTL DEF Spec

(***************************************************************************)
(* The journal.  The words held, shown or stored, are in the pack that is  *)
(* active, or that the next boot makes active, if packs keep their words.  *)
(***************************************************************************)
LEMMA SeedOfPack ==
    ASSUME NEW r \in Revisions, CanSeed(Packs[r]), NEW today
    PROVE  Range(DemoSeed(Packs[r], today).learned) \subseteq WordsOf(Packs[r])
<1> DEFINE a == Packs[r][1].words
           b == Packs[r][2].words
           c == Packs[r][3].words[1]
           list == a \o b \o <<c>>
<1>1. {1, 2, 3} \subseteq DOMAIN Packs[r]
  BY PackFacts DEF CanSeed
<1>2. /\ a \in Seq(AllWords) /\ Len(a) \in Nat /\ DOMAIN a = 1..Len(a)
      /\ b \in Seq(AllWords) /\ Len(b) \in Nat /\ DOMAIN b = 1..Len(b)
      /\ c \in AllWords /\ 1 \in DOMAIN Packs[r][3].words
  BY <1>1, PackFacts
<1>3. /\ Range(a) \subseteq WordsOf(Packs[r]) /\ Range(b) \subseteq WordsOf(Packs[r])
      /\ c \in WordsOf(Packs[r])
  BY <1>1, <1>2 DEF WordsOf, Range
<1> HIDE DEF a, b, c
<1>4. /\ DOMAIN list = 1..Len(a) + Len(b) + 1
      /\ \A i \in 1..Len(a) : list[i] = a[i]
      /\ \A i \in 1..Len(b) : list[Len(a) + i] = b[i]
      /\ list[Len(a) + Len(b) + 1] = c
  BY <1>2
<1> HIDE DEF list
<1>5. ASSUME NEW i \in DOMAIN list PROVE list[i] \in WordsOf(Packs[r])
  <2>1. CASE i \in 1..Len(a)
    BY <1>2, <1>3, <1>4, <2>1 DEF Range
  <2>2. CASE i - Len(a) \in 1..Len(b)
    <3>1. list[i] = b[i - Len(a)]
      <4>1. Len(a) + (i - Len(a)) = i
        BY <1>2, <1>4, <1>5
      <4> QED BY <1>4, <2>2, <4>1
    <3> QED BY <1>2, <1>3, <2>2, <3>1 DEF Range
  <2>3. CASE i = Len(a) + Len(b) + 1
    BY <1>3, <1>4, <2>3
  <2>4. i \in 1..Len(a) \/ i - Len(a) \in 1..Len(b) \/ i = Len(a) + Len(b) + 1
    <3>1. i \in 1..Len(a) + Len(b) + 1 /\ Len(a) \in Nat /\ Len(b) \in Nat
      BY <1>2, <1>4, <1>5
    <3> QED BY <3>1
  <2> QED BY <2>1, <2>2, <2>3, <2>4
<1>6. DemoSeed(Packs[r], today).learned = list
  BY DEF DemoSeed, list, a, b, c
<1> QED BY <1>5, <1>6 DEF Range

LEMMA NewWordsOfPack ==
    ASSUME DeviceOK, NEW st \in Seq(Screen), NEW mounted \in BOOLEAN,
           mounted => Last(st) \in SessionScreen
    PROVE  NewWords(st, mounted) \subseteq WordsOf(ActivePack)
<1>1. active \in Revisions /\ ActivePack = Packs[active]
  BY DeviceFacts
<1>2. ASSUME NEW s \in SessionScreen PROVE EffectWord(s) \in WordsOf(ActivePack)
  BY <1>1, <1>2, SessionFields, WordFacts DEF EffectWord
<1>3. ASSUME NEW i \in 1..Len(st), Drifted(st[i]) PROVE st[i] \in SessionScreen
  <2>1. st[i] \in Screen /\ st[i].screen \in SessionScreens
    BY <1>3 DEF Drifted, SessionScreens
  <2> QED BY <2>1, ScreenKinds
<1> QED BY <1>2, <1>3 DEF NewWords

\* A step adds words of the active pack only, or takes what was stored.
LEMMA WordsCome ==
    ASSUME TypeInv, Event
    PROVE  \/ Range(progress'.learned) \subseteq Range(progress.learned) \cup WordsOf(ActivePack)
           \/ /\ disk # <<>>
              /\ Range(progress'.learned) \subseteq Range(disk[1].learned) \cup WordsOf(ActivePack)
<1>1. /\ DeviceOK /\ progress \in Progress /\ IsProgress(progress) /\ stack \in Seq(Screen)
      /\ active \in Revisions /\ ActivePack = Packs[active] /\ day \in Int
  BY TypeFacts, DeviceFacts DEF StoreOK
<1>2. ASSUME NEW p \in Progress, IsProgress(p), NEW st \in Seq(Screen),
             NEW mounted \in BOOLEAN, mounted => Last(st) \in SessionScreen, Commit(p, st, mounted)
      PROVE  Range(progress'.learned) \subseteq Range(p.learned) \cup WordsOf(ActivePack)
  <2>1. Grown(p, progress', NewWords(st, mounted), day)
    BY <1>1, <1>2, CommitEvent
  <2> QED BY <1>1, <1>2, <2>1, NewWordsOfPack DEF Grown
<1>3. CASE Praised
  <2>1. PICK st \in Seq(Screen) : Praises(st) /\ Commit(progress, st, TRUE)
    BY <1>3 DEF Praised
  <2>2. Last(st) \in SessionScreen
    BY <2>1, PraisedFacts
  <2> QED BY <1>1, <1>2, <2>1, <2>2
<1>4. CASE FinishLesson
  <2>1. /\ Commit(Finished, Append(stack, Growth), FALSE) /\ Append(stack, Growth) \in Seq(Screen)
        /\ Finished \in Progress /\ IsProgress(Finished) /\ Top.lesson \in AllIds
    BY <1>4, FinishFacts, SessionFields
  <2>2. Finished.learned = progress.learned
    BY <1>1, <2>1, CompleteFacts DEF Finished
  <2>3. Range(progress'.learned) \subseteq Range(Finished.learned) \cup WordsOf(ActivePack)
    BY <1>2, <2>1
  <2> QED BY <2>2, <2>3
<1>5. CASE Hydrated
  <2>1. PICK p : Payload(p) /\ Commit(p, stack, FALSE)
    BY <1>5 DEF Hydrated
  <2>2. p \in Progress /\ IsProgress(p)
    BY <2>1, PayloadFacts
  <2>3. Range(progress'.learned) \subseteq Range(p.learned) \cup WordsOf(ActivePack)
    BY <1>1, <1>2, <2>1, <2>2
  <2>4. CASE disk # <<>> /\ p = disk[1]
    BY <2>3, <2>4
  <2>5. CASE CanSeed(ActivePack) /\ p = DemoSeed(ActivePack, day)
    <3>1. Range(p.learned) \subseteq WordsOf(ActivePack)
      BY <1>1, <2>5, SeedOfPack
    <3> QED BY <2>3, <3>1
  <2> QED BY <2>1, <2>4, <2>5 DEF Payload
<1>6. CASE Relaunched
  <2>1. Range(progress'.learned) = {}
    BY <1>6, NothingFacts DEF Relaunched
  <2> QED BY <2>1
<1> QED BY <1>3, <1>4, <1>5, <1>6, ProgressEvents

\* The revision shown now, or by the next boot.
Showing == IF booted \/ cached <= active THEN active ELSE cached

AllIn(words) ==
    /\ Range(progress.learned) \subseteq words
    /\ disk # <<>> => Range(disk[1].learned) \subseteq words
    /\ \A i \in 1..Len(pending) : Range(pending[i].learned) \subseteq words

JournalInv ==
    PacksKeepWords /\ "uncached" \notin marks =>
        /\ active = Bundled \/ active <= cached
        /\ AllIn(WordsOf(Packs[Showing]))

LEMMA ShowingFacts ==
    ASSUME TypeInv
    PROVE  /\ Showing \in Revisions /\ active <= Showing
           /\ booted => Showing = active
<1>1. active \in Revisions /\ cached \in 0..Newest /\ Revisions = 1..Newest /\ Newest \in Nat
  BY TypeFacts, AppAssumption, NewestAssumption DEF DeviceOK, PackCacheTypeOK, Revisions
<1> QED BY <1>1 DEF Showing

LEMMA ShowingGrows ==
    ASSUME TypeInv, Event, active = Bundled \/ active <= cached, "uncached" \notin marks'
    PROVE  Showing <= Showing' /\ (active' = Bundled \/ active' <= cached')
<1>1. active \in Nat \ {0} /\ cached \in Nat /\ "uncached" \notin marks /\ booted \in BOOLEAN
  <2>1. active \in 1..Newest /\ cached \in 0..Newest /\ Newest \in Nat /\ booted \in BOOLEAN
    BY TypeFacts, NewestAssumption DEF DeviceOK, PackCacheTypeOK
  <2> QED BY <2>1, MarksGrow
<1>2. CASE Boot
  BY <1>1, <1>2 DEF Boot, BootFromCache, Showing
<1>3. CASE BootFails
  <2>1. cached = 0
    BY <1>3 DEF BootFails
  <2> QED BY <1>1, <1>3, <2>1 DEF BootFails, BootWithoutCache, Showing
<1>4. CASE StorePack
  <2>1. PICK r \in Revisions : CachePack(r)
    BY <1>4 DEF StorePack
  <2>2. booted /\ booted' /\ active' = active /\ cached' = r /\ r > active
    BY <1>1, <2>1 DEF CachePack
  <2> QED BY <1>1, <2>2 DEF Showing, Revisions
<1>5. CASE ApplyContentPack
  <2>1. PICK r \in Revisions : SwapPack(r) /\ (cached # r => "uncached" \in marks')
    BY <1>5 DEF ApplyContentPack
  <2>2. booted /\ booted' /\ active' = r /\ cached' = cached /\ cached = r /\ r > active
    BY <1>1, <2>1 DEF SwapPack
  <2> QED BY <1>1, <2>2 DEF Showing
<1>6. CASE Relaunched
  <2>1. active' = 1 /\ cached' = cached /\ booted' = FALSE
    BY <1>6 DEF Relaunched, Relaunch
  <2> QED BY <1>1, <2>1 DEF Showing, Bundled
<1>7. CASE UNCHANGED packVars
  BY <1>1, <1>7 DEF packVars, Showing
<1>8. Moved \/ Praised \/ FinishLesson \/ Hydrated \/ Died \/ SaveDone \/ SaveFails \/ NextDay => UNCHANGED packVars
  BY FinishFacts DEF Moved, Praised, Hydrated, Died, SaveDone, SaveFails, NextDay
<1> QED BY <1>2, <1>3, <1>4, <1>5, <1>6, <1>7, <1>8 DEF Event

LEMMA JournalStep == TypeInv /\ TypeInv' /\ JournalInv /\ [Next]_vars => JournalInv'
<1> DEFINE later == WordsOf(Packs[Showing'])
<1> SUFFICES ASSUME TypeInv, TypeInv', JournalInv, [Next]_vars, PacksKeepWords, "uncached" \notin marks'
             PROVE  /\ active' = Bundled \/ active' <= cached'
                    /\ Range(progress'.learned) \subseteq later
                    /\ disk' # <<>> => Range(disk'[1].learned) \subseteq later
                    /\ \A i \in 1..Len(pending') : Range(pending'[i].learned) \subseteq later
  BY DEF JournalInv, AllIn
<1>1. /\ Event /\ "uncached" \notin marks
      /\ active = Bundled \/ active <= cached
      /\ AllIn(WordsOf(Packs[Showing]))
  BY NextEvents, MarksGrow DEF JournalInv
<1>2. Showing <= Showing' /\ (active' = Bundled \/ active' <= cached')
  BY <1>1, ShowingGrows
<1>3. Showing' \in Revisions
  <2>1. active' \in Revisions /\ cached' \in 0..Newest /\ Revisions = 1..Newest /\ Newest \in Nat
    BY AppAssumption, NewestAssumption DEF TypeInv, DeviceOK, PackCacheTypeOK, Revisions
  <2> QED BY <2>1 DEF Showing
<1>4. WordsOf(Packs[Showing]) \subseteq later /\ WordsOf(ActivePack) \subseteq later
  <2>1. Showing \in Revisions /\ active \in Revisions /\ active <= Showing /\ ActivePack = Packs[active]
    BY ShowingFacts, TypeFacts
  <2>2. WordsOf(Packs[active]) \subseteq WordsOf(Packs[Showing])
    BY <2>1 DEF PacksKeepWords
  <2>3. WordsOf(Packs[Showing]) \subseteq later
    BY <1>2, <1>3, <2>1 DEF PacksKeepWords
  <2> QED BY <2>1, <2>2, <2>3
<1> HIDE DEF later
<1>5. /\ Range(progress.learned) \subseteq later
      /\ disk # <<>> => Range(disk[1].learned) \subseteq later
      /\ \A i \in 1..Len(pending) : Range(pending[i].learned) \subseteq later
  BY <1>1, <1>4 DEF AllIn
<1>6. Range(progress'.learned) \subseteq later
  BY <1>1, <1>4, <1>5, WordsCome
<1>7. /\ \A i \in 1..Len(pending') : Range(pending'[i].learned) \subseteq later
      /\ disk' # <<>> => Range(disk'[1].learned) \subseteq later
  BY <1>1, <1>5, <1>6, SavesCome
<1> QED BY <1>2, <1>6, <1>7

\* Every word learned is in the journal (JournalShowsAll), for any packs.
THEOREM JournalIsComplete == Spec => []JournalShowsAll
<1>1. Init => TypeInv /\ JournalInv
  <2> SUFFICES ASSUME Init PROVE JournalInv
    BY TypeInit
  <2>1. active = Bundled /\ disk = <<>> /\ pending = <<>> /\ progress = Nothing
    BY DEF Init, PackCacheInit, StoreInit, Bundled, NoSave
  <2>2. Range(progress.learned) = {} /\ Len(pending) = 0
    BY <2>1, NothingFacts
  <2> QED BY <2>1, <2>2 DEF JournalInv, AllIn
<1>2. TypeInv /\ JournalInv /\ [Next]_vars => (TypeInv /\ JournalInv)'
  BY TypeStep, JournalStep
<1>3. TypeInv /\ JournalInv => JournalShowsAll
  BY ShowingFacts DEF JournalInv, JournalShowsAll, JournalEntries, AllIn, ActivePack
<1> QED BY <1>1, <1>2, <1>3, PTL DEF Spec

\* The screens tell the truth: the journal and the streak (ShownIsTrue).
THEOREM ScreensAreTrue == Spec => []ShownIsTrue
<1>1. JournalShowsAll /\ NightKeepsStreak => ShownIsTrue
  BY DEF ShownIsTrue
<1> QED BY <1>1, JournalIsComplete, StreakSurvivesNight, PTL

=============================================================================
