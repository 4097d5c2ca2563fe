---------------------------- MODULE MCGeneration ----------------------------
(***************************************************************************)
(* Generation on small instances: two workers, one shared lesson, lessons  *)
(* of one new word, and a generator that may answer with a clean lesson,   *)
(* one that reuses its ids, one out of scope and one that is unsafe.       *)
(***************************************************************************)
EXTENDS Generation, TLC

CONSTANTS w1, w2, t1, t2, c1, base, sky, garden, sun, bee, hello, blue

Lesson(id, word, uses, unsafe) ==
    [wellFormed |-> TRUE, id |-> id, words |-> {word}, uses |-> uses, brings |-> {},
     unsafe |-> unsafe, long |-> FALSE]

MCCurriculum == << [child |-> Shared, draft |-> Lesson(base, hello, {}, FALSE), order |-> 0,
                    status |-> "active", job |-> 0, seen |-> {}, review |-> "none"] >>

MCDrafts == { Lesson(sky, sun, {}, FALSE), Lesson(garden, bee, {blue}, FALSE),
              Lesson(garden, bee, {}, TRUE) }
MCStackDrafts == { Lesson(sky, sun, {}, FALSE), Lesson(garden, bee, {}, FALSE) }

MCOneChild == [t \in Triggers |-> c1]
MCSymmetry == Permutations({w1, w2}) \cup Permutations({t1, t2})
=============================================================================
