----------------------------- MODULE MCBracket4 ------------------------------
(* A four-slot bracket; the owner edits the three seeds listed here and one *)
(* slot of the third-place match.                                           *)
EXTENDS Bracket

MCOwnerSlots ==
  {<<<<1, 0>>, "A">>, <<<<1, 0>>, "B">>, <<<<1, 1>>, "A">>, <<ThirdPlace, "A">>}
==============================================================================
