------------------------------ MODULE MCForms ------------------------------
(* Forms with the texts that the cfg files name, a short and a long one.     *)
EXTENDS Forms
=============================================================================
