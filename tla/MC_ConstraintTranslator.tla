----------------------- MODULE MC_ConstraintTranslator -----------------------
(* Both item bounds, both length bounds, one other Meta attribute (title)  *)
(* and one key Meta does not know (lower_case); values None, 0 and 2, so  *)
(* zero, a clash between an item and a length bound, and None all occur.   *)
EXTENDS ConstraintTranslator

MCKeys == {"min_items", "max_items", "min_length", "max_length", "title", "lower_case"}
MCMetaFields == {"min_length", "max_length", "title"}
MCValues == {0, 2}
=============================================================================
