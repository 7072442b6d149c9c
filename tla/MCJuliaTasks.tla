---------------------------- MODULE MCJuliaTasks ----------------------------
(* TLC instances of JuliaTasks.                                             *)
EXTENDS JuliaTasks
=============================================================================
