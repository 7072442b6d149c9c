----------------------------- MODULE MCStructHeap -----------------------------
(* TLC instances of StructHeap.                                            *)
EXTENDS StructHeap

=============================================================================
