---------------------------- MODULE MCRefineRun ----------------------------
(* One build tool with one descendant, an interrupt and a termination of     *)
(* which one is sent, one empty directory of another process in the          *)
(* temporary directory, two renames by others, one refused call, and a host  *)
(* that can rename without replacing.                                        *)
EXTENDS RefineRun

CONSTANTS cap, work, dir, k, int, term
=============================================================================
