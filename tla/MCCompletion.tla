---------------------------- MODULE MCCompletion ----------------------------
(***************************************************************************)
(* Completion on a small instance: one word hatches the companion, two are *)
(* the next stage; the second of two lessons has both words.               *)
(***************************************************************************)
EXTENDS Completion, TLC

CONSTANTS h1, h2, k1, w1, w2, fox, owl

MCLessons == <<{w1}, {w1, w2}>>
MCStageAt == <<0, 1, 2>>

Ask(op, lesson, species) == [op |-> op, key |-> k1, lesson |-> lesson, species |-> species]

\* One session, started for either lesson or for one that does not exist.
MCRequests ==
    {Ask("start", l, NoSpecies) : l \in 0..2} \cup
    {Ask("select", NoLesson, s) : s \in Species} \cup
    {Ask("complete", NoLesson, NoSpecies)}

\* The same with one way to start and one to choose a companion.
MCFewRequests ==
    {Ask("start", 1, NoSpecies), Ask("select", NoLesson, fox),
     Ask("complete", NoLesson, NoSpecies)}

HandlerSymmetry == Permutations({h1, h2})
=============================================================================
