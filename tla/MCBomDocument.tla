--------------------------- MODULE MCBomDocument ---------------------------
(***************************************************************************)
(* Small artifacts with the cases that the merge has to tell apart: one    *)
(* package under two spellings, at two paths and in two architectures, a   *)
(* case-sensitive ecosystem, a malformed purl, a record that nothing names,*)
(* a cycle, two engines that draw different graphs.                        *)
(***************************************************************************)
EXTENDS BomDocument

name(t, s) == [text |-> t, style |-> s]
ver(n) == [number |-> n, v |-> FALSE]
purl(type, t, s, n, quals) ==
  "purl" :> [type |-> type, name |-> name(t, s), version |-> ver(n), quals |-> quals]
named(t, eco, n) == "name" :> [name |-> name(t, "lower"), eco |-> eco, version |-> ver(n)]
licence(declared, concluded) ==
  [declared |-> declared, concluded |-> concluded, observed |-> <<>>]
entry(ref, ids) ==
  [ref |-> ref, ids |-> ids, type |-> "library", scope |-> None,
   licenses |-> licence(<<"MIT">>, <<>>), hashed |-> TRUE, vulns |-> <<>>]
vuln(id, severity, fixed) == [id |-> id, severity |-> severity, cvss |-> <<>>, fixed |-> fixed]
payload(entries, deps, affects, root) ==
  [entries |-> entries, deps |-> deps, affects |-> affects, root |-> root]

app == [entry("app", purl("npm", "app", "lower", 1, {})) EXCEPT !.type = "application"]
lib == entry("a", purl("npm", "lib", "lower", 1, {}))
libUpper == [entry("b", purl("npm", "lib", "upper", 1, {<<"checksum", "x">>}))
               EXCEPT !.licenses = licence(<<"GPLv2">>, <<>>)]
libArm == [entry("b", purl("npm", "lib", "lower", 1, {<<"arch", "arm">>}))
             EXCEPT !.scope = "optional", !.licenses = licence(<<"MIT", "OR", "GPL-2.0">>, <<>>)]
module == entry("b", purl("golang", "mod", "lower", 1, {}))
moduleUpper == entry("c", purl("golang", "mod", "escaped", 1, {}))
file == [entry("c", <<>>) EXCEPT !.type = "file", !.licenses = licence(<<>>, <<>>)]
crate == entry("d", purl("cargo", "crate", "lower", 1, {}))
broken == entry("c", purl("none", "lib", "lower", 1, {}) @@ named("lib", "npm", 1))

\* syft: an application, one library and a third record, in several graphs.
syftDeps == {<<>>, <<<<"app", "a">>, <<"a", "b">>, <<"b", "a">>, <<"a", "c">>>>,
             <<<<"app", "a">>, <<"a", "b">>, <<"b", "c">>, <<"app", "d">>, <<"d", "c">>>>,
             <<<<"app", "d">>, <<"d", "b">>, <<"b", "c">>, <<"app", "a">>, <<"a", "c">>>>}
syftPayloads ==
  {payload(<<app, lib, x, y, crate>>, d, af, r) :
     x \in {libUpper, libArm, module}, y \in {broken, file, moduleUpper}, d \in syftDeps,
     af \in {<<>>, <<[ref |-> "c", vuln |-> vuln("CVE-1", "high", {2})]>>}, r \in {"app", None}}

\* trivy: the same library and another third one; its root may be out of scope.
trivyPayloads ==
  {payload(<<[app EXCEPT !.scope = s], lib, x>>, d, af, "app") :
     s \in {None, "excluded"}, x \in {module, libArm}, d \in {<<>>, <<<<"app", "b">>, <<"b", "a">>>>},
     af \in {<<[ref |-> "b", vuln |-> vuln("GHSA-1", "low", {})]>>}}

\* GitHub's SPDX inventory: a target, and what it concludes about a licence.
githubPayloads ==
  {payload(<<[entry("doc", named("repo", None, 1)) EXCEPT !.type = "target"],
             [e EXCEPT !.licenses = licence(<<"MIT">>, c)]>>, <<>>, <<>>, None) :
     e \in {lib, moduleUpper}, c \in {<<"NOASSERTION">>}}

\* grype: a match on a package that others list, or on one that only it sees.
grypePayloads ==
  {payload(<<[e[1] EXCEPT !.vulns = <<vuln("CVE-1", e[2], {3, 2})>>],
             [broken EXCEPT !.vulns = <<vuln("CVE-2", None, {})>>]>>,
           <<>>, <<>>, None) :
     e \in {<<lib, "critical">>, <<module, "negligible">>, <<file, "critical">>}}

MCPayloads ==
  [e \in {"syft", "trivy-fs", "github-dependency-graph-sbom", "grype"} |->
     CASE e = "syft" -> syftPayloads [] e = "trivy-fs" -> trivyPayloads
       [] e = "grype" -> grypePayloads [] OTHER -> githubPayloads]

MCEngineOrder == <<"github-dependency-graph-sbom", "grype", "syft", "trivy-fs">>
MCGraphTrust == ("syft" :> ("golang" :> 3 @@ "npm" :> 2)) @@ ("trivy-fs" :> ("golang" :> 1 @@ "npm" :> 2))
MCClusterOf == "CVE-1" :> "V1" @@ "GHSA-1" :> "V1" @@ "CVE-2" :> "V2"
MCFields == {[path |-> "name", weight |-> 2], [path |-> "license", weight |-> 1],
             [path |-> "purl", weight |-> 1]}
MCLevels == {"complete", "top"}
=============================================================================
