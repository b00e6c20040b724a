-------------------------------- MODULE Absent --------------------------------
(***************************************************************************)
(* What is not there: the empty identifier or a nil pointer in Go. Modules *)
(* that a composition extends side by side have it in common.              *)
(***************************************************************************)
CONSTANT None

Opt(S) == S \cup {None}

=============================================================================
