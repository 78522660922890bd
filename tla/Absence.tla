------------------------------ MODULE Absence -------------------------------
(* What a column, a field or a reply has that has nothing: NULL of the      *)
(* database, None of the code.                                              *)
CONSTANT None

=============================================================================
