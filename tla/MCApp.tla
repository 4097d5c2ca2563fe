------------------------------- MODULE MCApp --------------------------------
(***************************************************************************)
(* An instance of App: three short lessons, one with a sound drill, and a   *)
(* second revision that puts a word in the middle of that lesson.          *)
(***************************************************************************)
EXTENDS App

CONSTANTS a1, b1, c1, c2, c3

Lesson(id, words, sound) == [id |-> id, words |-> words, sound |-> sound]

MCPacks ==
    <<  << Lesson("A", <<a1>>, FALSE), Lesson("B", <<b1>>, FALSE), Lesson("C", <<c1, c2>>, TRUE) >>,
        << Lesson("A", <<a1>>, FALSE), Lesson("B", <<b1>>, FALSE),
           Lesson("C", <<c1, c3, c2>>, TRUE) >>  >>

MCStageAt == <<0, 3, 5>>
MCMilestones == { [metric |-> "words", goal |-> 4], [metric |-> "lessons", goal |-> 3],
                  [metric |-> "streak", goal |-> 6] }
=============================================================================
