----------------------------- MODULE Algorithms -----------------------------
(***************************************************************************)
(* The server's pure functions over dates: the streak of a child's         *)
(* practice days (learning/reads.go) and the category suggested for a      *)
(* child's age (identity/category.go), with the facts checked of them.     *)
(* A day is a number, a date is <<year, month, day>>.                      *)
(***************************************************************************)
EXTENDS Content

\* dates are distinct days, newest first.  The streak ends today or yesterday.
StreakDays(dates, today) ==
    LET end == IF dates # <<>> /\ dates[1] = today THEN today ELSE today - 1
    IN  Max({n \in 0..Len(dates) : \A k \in 1..n : dates[k] = end - k + 1})

\* What PracticeDates returns for a set of days, of which one may lie ahead.
PracticeDates(days) ==
    SelectSeq([k \in 1..Today + 2 |-> Today + 2 - k], LAMBDA day : day \in days)

AgeInMonths(dob, now) ==
    LET months == (now[1] - dob[1]) * 12 + now[2] - dob[2]
    IN  Max({0, IF now[3] < dob[3] THEN months - 1 ELSE months})

\* The first category whose window has the age, or the one at the near end.
SuggestCategory(cats, months) ==
    LET fits == {i \in DOMAIN cats : months \in cats[i].min..cats[i].max}
    IN  IF fits # {} THEN cats[Min(fits)].code
        ELSE IF months < cats[1].min THEN cats[1].code ELSE Last(cats).code

Category(code, min, max) == [code |-> code, min |-> min, max |-> max]

Categories ==
    << Category("KG", 48, 71), Category("G1", 72, 83), Category("G2", 84, 95),
       Category("G3", 96, 107), Category("G4", 108, 119) >>

-----------------------------------------------------------------------------
(* Facts, evaluated once by every run of a module that extends this one.   *)

\* Server and device count the same streak from the same days, for every set
\* of days of a week, today's or not.
ASSUME StreaksAgree ==
    \A days \in SUBSET (0..Today) :
        StreakDays(PracticeDates(days), Today) = Client!Streak(days, Today)

\* They part when an attempt carries a date after the server's (recorded_at is
\* the device's clock): the server answers 0 whatever else was practised, the
\* device passes over the day.
ASSUME FutureDayEndsStreak ==
    \A days \in SUBSET (0..Today) :
        LET ahead == days \cup {Today + 1}
        IN  /\ StreakDays(PracticeDates(ahead), Today) = 0
            /\ Client!Streak(ahead, Today) = Client!Streak(days, Today)

Order == [i \in DOMAIN Categories |-> Categories[i].code]
Rank(months) == CHOOSE i \in DOMAIN Order : Order[i] = SuggestCategory(Categories, months)

\* The categories of the first migration leave no age without one and no age
\* with two, and an older child is never suggested an earlier one.
ASSUME EveryAgeHasOne ==
    /\ \A m \in 48..119 : Cardinality({i \in DOMAIN Categories :
                                m \in Categories[i].min..Categories[i].max}) = 1
    /\ \A m \in 0..160 : Rank(m) <= Rank(m + 1)
    /\ Rank(0) = 1 /\ Rank(160) = Len(Categories)

Dates == {<<y, m, d>> : y \in 2020..2022, m \in {1, 2, 3, 12}, d \in {1, 28, 30, 31}}
Earlier(s, t) ==
    \E k \in 1..3 : s[k] < t[k] /\ \A j \in 1..k - 1 : s[j] = t[j]

\* A child's age never falls from one day to a later one, whatever the lengths
\* of the months between, and a birth date in the future counts as newborn.
ASSUME NobodyGetsYounger ==
    \A dob, now, later \in Dates :
        /\ Earlier(now, later) => AgeInMonths(dob, now) <= AgeInMonths(dob, later)
        /\ Earlier(now, dob) => AgeInMonths(dob, now) = 0
=============================================================================
