--------------------------- MODULE MCLessonServer ---------------------------
(* Instances of LessonServer for TLC.                                       *)
EXTENDS LessonServer, TLC

Symmetry ==
  Permutations(Request) \cup Permutations(Lesson) \cup Permutations(Answer)
    \cup Permutations(Reader) \cup Permutations(Word \ CustomWord)
=============================================================================
