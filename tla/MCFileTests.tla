------------------------------ MODULE MCFileTests ------------------------------
(* An instance of FileTests for TLC. *)
EXTENDS FileTests
================================================================================
