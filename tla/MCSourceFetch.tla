--------------------------- MODULE MCSourceFetch ----------------------------
(***************************************************************************)
(* The two producers of a scan's input: the fetcher (SourceFetch) and      *)
(* webrecon (WebDiscovery). They share no state, so a behaviour is about   *)
(* one of them, chosen in its initial state.                               *)
(***************************************************************************)
EXTENDS SourceFetch, WebDiscovery

VARIABLE part

CONSTANTS c1, c2, u1, u2, t1, t2, v1, v2, left, right

MCClassSets == {{c1}, {c2}}
MCHome == (t1 :> u1) @@ (t2 :> u2)
MCTree == (v1 :> {left}) @@ (v2 :> {right})

\* Exchanges two pairs of names that play the same part.
Swap(x, y, z, w) == {[i \in {x, y, z, w} |-> i],
                     (x :> y) @@ (y :> x) @@ (z :> w) @@ (w :> z)}

Symmetry ==
  {r @@ k @@ u @@ v : r \in Permutations(Requests), k \in Permutations({c1, c2}),
                      u \in Swap(u1, u2, t1, t2), v \in Swap(v1, v2, left, right)}

\* Bound: updates of a project are explored before its source is fetched.
Apart == (\E p \in Projects : Cardinality(submitted[p]) > 1) => \A j \in Jobs : job[j].state = "none"

-----------------------------------------------------------------------------
\* A database of two libraries: one with a pattern RE2 cannot express, one whose
\* repeat is capped, and entries with both bounds, one, none, and one that cannot
\* be compared.
WebPattern(id, most, look) == [id |-> id, most |-> most, lookaround |-> look]
WebRange(lo, hi, cve, ghsa) == [atOrAbove |-> lo, below |-> hi, cve |-> cve, ghsa |-> ghsa]
MCSignatures ==
  [lib \in {"jquery", "vue"} |->
     CASE lib = "jquery" ->
            [uri |-> <<WebPattern("path", 0, FALSE)>>,
             content |-> <<WebPattern("back", 0, TRUE), WebPattern("banner", 5, FALSE)>>,
             vulns |-> <<WebRange(<<1, 2>>, <<3, 5, 0>>, <<"CVE-1">>, "GHSA-1"),
                         WebRange(<<>>, <<4, Empty, 1>>, <<"CVE-2">>, ""),
                         WebRange(<<3, 5>>, <<>>, <<>>, "GHSA-3"),
                         WebRange(<<>>, <<4>>, <<>>, ""),
                         WebRange(<<>>, <<>>, <<"CVE-4">>, "")>>]
       [] lib = "vue" ->
            [uri |-> <<>>, content |-> <<WebPattern("vue", 0, FALSE)>>,
             vulns |-> <<WebRange(<<2, 0>>, <<2, 10>>, <<"CVE-5">>, "")>>]]
\* A text in which a pattern finds a version after some repeats.
WebText(id, repeats, version) == id :> [repeats |-> repeats, version |-> version]
WebInline(text) == [src |-> "", inline |-> text]
WebScript(src) == [src |-> src, inline |-> <<>>]
WebBoth == WebText("vue", 0, <<2, 9, Letters, 1>>) @@ WebText("banner", 1, <<1, 10>>)
MCPagesAt ==
  [h \in {"root", "a", "b"} |->
     CASE h = "root" -> {<<WebInline(WebBoth), WebScript("own"), WebScript("elsewhere"),
                           WebScript("otherport"), WebScript("cdn")>>}
       [] h = "a" -> {<<WebInline(WebText("banner", 2, <<2>>)), WebScript("data"),
                      WebInline(WebText("banner", 2, <<2>>)), WebInline(WebText("banner", 4, <<3>>))>>}
       [] h = "b" -> {<<WebInline(WebText("vue", 0, <<Huge, 1>>))>>}]
WebTarget(scheme, host, port, path) == [scheme |-> scheme, host |-> host, port |-> port, path |-> path]
MCTargets ==
  [s \in {"own", "elsewhere", "otherport", "cdn", "data"} |->
     CASE s = "own" -> WebTarget("relative", "", "", WebText("path", 0, <<3, 5, 0>>))
       [] s = "elsewhere" -> WebTarget("https", "other", "", WebText("path", 0, <<1, 3>>))
       [] s = "otherport" -> WebTarget("https", "root", "8443", WebText("path", 0, <<1, 4>>))
       [] s = "cdn" -> WebTarget("http", "cdn", "80", <<>>)
       [] s = "data" -> WebTarget("data", "", "", WebText("path", 0, <<1, 5>>))]
MCBodiesAt ==
  [s \in DOMAIN MCTargets |->
     CASE s = "own" -> {}
       [] s = "cdn" -> {WebText("banner", 3, <<3, 4, 1, Letters, 2>>)}
       [] OTHER -> {WebText("banner", 0, <<1, 6>>)}]
MCOutputs == {<<>>, <<"", "root", "a", "a", "b">>}
WebUrl(discovery, maxHosts) ==
  [kind |-> "url", root |-> [host |-> "root", port |-> ""], discovery |-> discovery, maxHosts |-> maxHosts]
MCWebSources == {[kind |-> "none"], WebUrl(TRUE, 2), WebUrl(FALSE, 2)}

-----------------------------------------------------------------------------
\* The part a behaviour is not about starts one way only.
ProducersInit ==
  /\ part \in {"fetcher", "webrecon"} /\ Init /\ WebInit
  /\ part = "webrecon" => head = [u \in Urls |-> v1]
  /\ part = "fetcher" => /\ order = [w \in Recons |-> <<"jquery", "vue">>]
                         /\ webSource = [j \in ReconJobs |-> [kind |-> "none"]]
Fetching == part = "fetcher" /\ Next /\ UNCHANGED <<part, webVars>>
Discovering == part = "webrecon" /\ WebNext /\ UNCHANGED <<part, vars>>
ProducersSpec == ProducersInit /\ [][Fetching \/ Discovering]_<<part, vars, webVars>>
=============================================================================
