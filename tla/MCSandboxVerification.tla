------------------------ MODULE MCSandboxVerification ------------------------
(* SandboxVerification for TLC. *)
EXTENDS SandboxVerification

Unit == [name |-> "unit", conforms |-> TRUE, timeout |-> 2,
         paths |-> {<<"src", "**", "*">>, <<"**", "main", "**", "src">>}]
Junit == [name |-> "junit", conforms |-> TRUE, timeout |-> 2,
          paths |-> {<<"**", "readme">>, <<"src", "*">>, <<"main", "**">>}]

MCConfigFile == <<"config">>
Source == <<"src", "main">>
Readme == <<"readme">>

Reviewed(checks, changed) == [file |-> "read", checks |-> checks, changed |-> changed]

\* Both checks are selected, or none is, or the file is not acceptable: it is missing, names
\* a check twice, exceeds the total time, or has an unapproved command.
MCHeads ==
  {Reviewed(<<Unit, Junit>>, {Source}), Reviewed(<<Unit>>, {Readme}),
   Reviewed(<<Unit, Unit>>, {Source}), Reviewed(<<Unit, [Junit EXCEPT !.timeout = 3]>>, {Source}),
   Reviewed(<<[Unit EXCEPT !.conforms = FALSE]>>, {Source}),
   [file |-> "missing", checks |-> <<>>, changed |-> {Source}]}

\* Every path of at most three segments.
MCPaths == UNION {[1 .. n -> {"src", "main", "readme"}] : n \in 1 .. 3}
=============================================================================
