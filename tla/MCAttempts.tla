----------------------------- MODULE MCAttempts -----------------------------
(***************************************************************************)
(* Attempts on a small instance: one child, two sessions of lessons that   *)
(* share the word w1; the lesson of s1 has a sound.                        *)
(***************************************************************************)
EXTENDS Attempts, TLC

CONSTANTS h1, h2, c1, s1, s2, k1, k2, w1, w2, p1

MCSessionChild == s1 :> c1 @@ s2 :> c1
MCLessonWords == s1 :> {w1, w2} @@ s2 :> {w1}
MCLessonSound == s1 :> p1 @@ s2 :> NoSound

Utterance(s, k, w, a) == [session |-> s, key |-> k, word |-> w, audio |-> a]

\* A second key for the same word, a key used again for another word, the same
\* key in another session, a word outside the lesson, an empty recording.
MCItems ==
    {Utterance(s1, k1, w1, TRUE), Utterance(s1, k2, w1, TRUE),
     Utterance(s1, k1, w2, TRUE), Utterance(s2, k1, w1, TRUE),
     Utterance(s2, k1, w2, FALSE)}

\* One score that is a miss, and one exactly at the mastery threshold.
MCScores == {40, 75}

\* Nothing tells the handlers apart.
HandlerSymmetry == Permutations({h1, h2})
=============================================================================
