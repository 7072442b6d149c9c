---------------------------- MODULE MCExceptions ----------------------------
(* TLC instances of Exceptions.                                            *)
EXTENDS Exceptions

\* catch; finally; both, with an else clause or with locals to forget.
SomeStatements ==
    {[c |-> TRUE, e |-> FALSE, f |-> FALSE, fresh |-> FALSE],
     [c |-> TRUE, e |-> FALSE, f |-> FALSE, fresh |-> TRUE],
     [c |-> FALSE, e |-> FALSE, f |-> TRUE, fresh |-> FALSE],
     [c |-> TRUE, e |-> TRUE, f |-> TRUE, fresh |-> FALSE]}

=============================================================================
