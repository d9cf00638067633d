--------------------------- MODULE MCActiveLesson ---------------------------
(* Two lessons of two words that have their first word in common.           *)
EXTENDS ActiveLesson

MCItems == <<<<1, 2>>, <<1, 3>>>>
=============================================================================
