------------------------ MODULE MCNormalizeConsumer ------------------------
\* Instances of NormalizeConsumer for TLC.
EXTENDS NormalizeConsumer, TLC

CONSTANTS s1, s2, s3, c1, c2

\* Five ids: 1 and 2 are CVEs, 5 is in a namespace that vuln_ids refuses.
MCIds == 1..5
MCCVEs == {1, 2}
MCUnlisted == {5}

Says(seeds, edges) == [seeds |-> seeds, edges |-> edges]

\* Ids alone; an advisory for each CVE, and one for both; two CVEs that a
\* scanner equates; a fourth id beyond the ceiling; a refused namespace; no
\* vulnerability at all.
MCContents ==
  {Says({1, 2, 3}, {}), Says({1}, {<<1, 3, TRUE>>}), Says({2}, {<<2, 3, TRUE>>}),
   Says({1, 2}, {<<1, 3, TRUE>>, <<2, 3, TRUE>>}), Says({1, 2}, {<<1, 2, FALSE>>}),
   Says({4}, {<<3, 4, FALSE>>}), Says({5}, {}), Says({}, {})}

Symmetric == Permutations(Scans) \cup Permutations(Consumers)
=============================================================================
