------------------------------ MODULE MCControl ------------------------------
(* Instances of Control for TLC. *)
EXTENDS Control

=============================================================================
