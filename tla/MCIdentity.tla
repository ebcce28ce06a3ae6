----------------------------- MODULE MCIdentity -----------------------------
(* Two operators bootstrap a tenant whose owner also gets a role in the    *)
(* admin organisation, while a visitor signs up under the tenant's name.   *)
EXTENDS Identity, TLC
CONSTANTS axebom, acme, alice, bob, o1, o2, v, q
MCTenants == <<[org |-> acme, email |-> alice, role |-> "owner"]>>
MCCrossOrg == <<[email |-> alice, home |-> acme, target |-> axebom, role |-> "owner"]>>
MCWish == (v :> [org |-> acme, email |-> bob])
OperatorSymmetry == Permutations(Operators)
=============================================================================
