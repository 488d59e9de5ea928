------------------------------ MODULE MCMatrix -------------------------------
(***************************************************************************)
(* Three cells, of two variants and two modes, and two commands.           *)
(***************************************************************************)
EXTENDS Matrix

ThreeCells ==
  << [variant |-> "wrapped", mode |-> "local"],
     [variant |-> "wrapped", mode |-> "local-cache"],
     [variant |-> "native", mode |-> "local-cache"] >>
=============================================================================
