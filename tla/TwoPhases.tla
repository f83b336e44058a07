------------------------------ MODULE TwoPhases ------------------------------
(***************************************************************************)
(* Phases and skills for the instances of RunPhases: two phases of two     *)
(* skills, the second with an agent that writes back.  The plugin          *)
(* attributes two of its keys and not the third; of the first phase none.  *)
(***************************************************************************)
EXTENDS Naturals

TheAgent     == 0

ThePhases    == {1, 2}
TheSkills    == 1..4
SkillPhases  == <<1, 1, 2, 2>>
TheKeys      == {"source", "dataset", "report", "extra"}
KeyPhases    == [k \in TheKeys |-> IF k = "source" THEN 1 ELSE 2]
Writers      == [k \in TheKeys |-> CASE k = "source" -> 1 [] k = "dataset" -> 3
                                     [] k = "extra" -> 4 [] k = "report" -> TheAgent]
Attributed   == {"dataset", "report"}

=============================================================================
