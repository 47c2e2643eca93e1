-------------------------- MODULE MCFormatReplace --------------------------
(***************************************************************************)
(* An instance of FormatReplace: a source, one save that may be renamed    *)
(* onto it, and three commands with one process identifier, with two names *)
(* for their copies, two refused calls and one edit.                       *)
(***************************************************************************)
EXTENDS FormatReplace, TLC
=============================================================================
