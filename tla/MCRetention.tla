---------------------------- MODULE MCRetention -----------------------------
(***************************************************************************)
(* Retention on a small instance: two handlers, two sweeps, one child and  *)
(* one lesson; recordings are kept for one tick of the clock.              *)
(***************************************************************************)
EXTENDS Retention, TLC

CONSTANTS h1, h2, v1, v2, c1, s1, k1, k2, w1

MCSessionChild == s1 :> c1
MCLessonWords == s1 :> {w1}
MCLessonSound == s1 :> NoSound

MCItems == [session: {s1}, key: {k1, k2}, word: {w1}, audio: {TRUE}]
MCOneItem == [session: {s1}, key: {k1}, word: {w1}, audio: {TRUE}]
MCScores == {75}
=============================================================================
