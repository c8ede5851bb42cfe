------------------------------ MODULE Operators ------------------------------
(* One more question, about the text of a result, whose answer is computed  *)
(* by recursion over nested data.                                           *)
EXTENDS Questions, Rendering

-----------------------------------------------------------------------------
(* Results.                                                                 *)

\* Nothing of a job's result is lost on its way to the page: its text has every
\* key and every value of the data, in order.
ResultsShown == about = "data" => Shown(input) = Contents(input)
=============================================================================
