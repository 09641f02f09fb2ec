------------------------------- MODULE MCApp --------------------------------
(* App on small instances.                                                 *)
EXTENDS App

=============================================================================
