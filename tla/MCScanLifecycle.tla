-------------------------- MODULE MCScanLifecycle --------------------------
\* Instances of ScanLifecycle for TLC.
EXTENDS ScanLifecycle, TLC

CONSTANTS syft, grype, h1, h2, none, fetcher

\* The handlers are copies of one program: exchanging them changes nothing.
HandlerSymmetry == Permutations(Handlers)

\* grype matches against the SBOM syft writes; every other engine reads the tree.
MCProducerOf == [e \in Engines |-> IF e = grype THEN syft ELSE NoEngine]

\* What a worker's manifest can record; the third status, "unavailable" and
\* the like, is decided afresh on every delivery (Unrecorded).
RecordedOutcomes == {"succeeded", "failed"}
=============================================================================
