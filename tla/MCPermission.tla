---------------------------- MODULE MCPermission ----------------------------
(***************************************************************************)
(* An instance of Permission for TLC, after the rules the README proposes: *)
(* "kubectl *" and "kubectl get *" overlap on one call, "pwd" matches      *)
(* another call only, and a third call is matched by "*" alone.            *)
(***************************************************************************)
EXTENDS Permission

CONSTANTS star, kubectl, get, pwd, getPods, pwdCall, other

Order == [p \in Patterns |-> CASE p = star -> 2 [] p = kubectl -> 3
                               [] p = get -> 4 [] p = pwd -> 1]
Matching == {<<star, getPods>>, <<star, pwdCall>>, <<star, other>>,
             <<kubectl, getPods>>, <<get, getPods>>, <<pwd, pwdCall>>}
\* One call, two calls in both orders, and a command without any call.
ShellCommands == {<<>>, <<getPods>>, <<other>>, <<getPods, pwdCall>>,
                  <<pwdCall, getPods>>, <<pwdCall, other>>}

=============================================================================
