----------------------------- MODULE MCSessions -----------------------------
\* An instance of Sessions for TLC.
EXTENDS Sessions, TLC

CONSTANTS ann, bob, q1, q2

RequestSymmetry == Permutations(Requests)

\* Bob is invited twice, with two roles.
MCInvites == {[tenant |-> 1, email |-> bob, role |-> "admin"],
              [tenant |-> 1, email |-> bob, role |-> "viewer"]}

MCKeyScopes == {{"scan:run"}}
MCAsked == {<<"scan", "run">>, <<"scan", "read">>, <<"api_key", "create">>}
=============================================================================
