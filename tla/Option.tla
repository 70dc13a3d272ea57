------------------------------- MODULE Option -------------------------------
(***************************************************************************)
(* The absence of a value, Rust's Option::None, for the modules that are   *)
(* extended together.                                                      *)
(***************************************************************************)
CONSTANT None
=============================================================================
