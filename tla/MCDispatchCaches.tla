--------------------------- MODULE MCDispatchCaches ---------------------------
(* TLC instances of DispatchCaches.                                        *)
EXTENDS DispatchCaches

\* f(::Any) and h(::T1) from the start; later f(::T1), M.f(::T2) and g(::Any).
SomeFunctions ==
    <<[name |-> "f", params |-> {"T1", "T2"}, dormant |-> FALSE],
      [name |-> "f", params |-> {"T1"}, dormant |-> TRUE],
      [name |-> "M.f", params |-> {"T2"}, dormant |-> TRUE],
      [name |-> "g", params |-> {"T1", "T2"}, dormant |-> TRUE],
      [name |-> "h", params |-> {"T1"}, dormant |-> FALSE]>>

SomeBase ==
    [n \in {"f", "M.f", "g", "h"} |-> IF n = "M.f" THEN "f" ELSE n]

\* g calls f, and may be compiled anew for a definition of f.
SomeGroups == {{}, {4}}

\* fun(x) with fun = f or g; f(x), with f(::Any) to fall back on; g(x); h(x) with
\* a builtin behind it; a builtin that asks for f or M.f.
SomeSites ==
    {[id |-> 1, kind |-> "variable", types |-> {"T1", "T2"}, fallback |-> 0,
      candidates |-> [c \in {"f", "g"} |-> IF c = "f" THEN {1, 2} ELSE {4}]],
     [id |-> 2, kind |-> "dynamic", types |-> {"T1"}, fallback |-> 1,
      candidates |-> [c \in {"f"} |-> {2, 3}]],
     [id |-> 3, kind |-> "dynamic", types |-> {"T1"}, fallback |-> 0,
      candidates |-> [c \in {"g"} |-> {4}]],
     [id |-> 4, kind |-> "builtin", types |-> {"T2"}, fallback |-> 0,
      candidates |-> [c \in {"h"} |-> {5}]],
     [id |-> 5, kind |-> "method", types |-> {"T1", "T2"}, fallback |-> 0,
      candidates |-> [c \in {"f"} |-> {1, 2, 3}]]}

=============================================================================
