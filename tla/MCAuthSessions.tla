--------------------------- MODULE MCAuthSessions ---------------------------
(***************************************************************************)
(* Instances of AuthSessions for TLC.                                      *)
(***************************************************************************)
EXTENDS AuthSessions, TLC

Symmetry == Permutations(Slots) \cup Permutations(Users)

\* For an instance with one account and one email: the requests that could
\* only be refused, or change nothing, are not sent.
OneAccount ==
    \A s \in Slots :
        /\ req[s].op \notin {"register", "create"}
        /\ req[s].op = "update" => req[s].role # NoRole

=============================================================================
