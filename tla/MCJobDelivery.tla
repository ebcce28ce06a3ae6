---------------------------- MODULE MCJobDelivery ----------------------------
\* Instances of JobDelivery for TLC.
EXTENDS JobDelivery, TLC

CONSTANTS r1, r2, o1, o2
=============================================================================
