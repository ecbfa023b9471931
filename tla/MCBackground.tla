----------------------------- MODULE MCBackground -----------------------------
(* A small instance of Background for TLC.                                 *)
EXTENDS Background
=============================================================================
