--------------------------- MODULE MCProfileCache ---------------------------
(***************************************************************************)
(* One vendor under two spellings and another vendor; two kinds of         *)
(* contents, a reader, two concurrent edits.  The run that shows the       *)
(* window of the admin's forms needs one vendor and one edit.              *)
(***************************************************************************)
EXTENDS ProfileCache

MCNames == {"Acme", "acme", "beta"}
OneName == {"acme"}
MCFold == [n \in MCNames |-> IF n = "beta" THEN "beta" ELSE "acme"]
MCRank == [n \in MCNames |->
             CASE n = "Acme" -> 1 [] n = "acme" -> 2 [] n = "beta" -> 3]
============================================================================
