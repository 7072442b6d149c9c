---------------------------- MODULE MCReplSession ----------------------------
(* TLC instances of ReplSession: one variable, two methods, one module, a  *)
(* package and an automatic import; every input of at most two different   *)
(* statements.                                                             *)
EXTENDS ReplSession

MCInputs ==
    {<<>>} \cup {<<s>> : s \in Statements}
    \cup {<<s, t>> : <<s, t>> \in {p \in Statements \X Statements : p[1] # p[2]}}

\* The methods play the same part in every input.
Methods == Permutations(Fns)
=============================================================================
