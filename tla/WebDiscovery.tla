---------------------------- MODULE WebDiscovery ----------------------------
(***************************************************************************)
(* services/webrecon and what becomes of its document: a url source is     *)
(* discovered and fingerprinted once, the orchestrator hands the document  *)
(* to the one engine that reads it, and what it names becomes components   *)
(* and findings.                                                           *)
(***************************************************************************)
EXTENDS Integers, SequencesExt

CONSTANTS
  Recons,       \* webrecon workers
  ReconJobs,    \* webrecon jobs, one per scan
  WebSources,   \* what the project service may answer with
  Outputs,      \* what subfinder may print, by line
  Signatures,   \* the vendored database, by library
  PagesAt,      \* PagesAt[h]: the pages host h may answer with
  Targets,      \* Targets[s]: where a script's src points and what its path says
  BodiesAt,     \* BodiesAt[s]: what may be served there
  Allowlist,    \* scriptFetchAllowlist
  MaxRepeat,    \* RE2's ceiling for a counted repeat
  ReconTries,   \* deliveries of a message
  ReconCrashes  \* worker crashes

ASSUME WebAssumption ==
  /\ ReconTries \in Nat \ {0} /\ ReconCrashes \in Nat /\ MaxRepeat \in Nat \ {0}
  /\ \A s \in WebSources : s.kind = "url" => s.maxHosts \in 1 .. 100

VARIABLES
  webSource,  \* the source of the project of each job
  order,      \* the order a worker's process walks the libraries in
  recon,      \* what each worker is doing
  webJob,     \* each job: its message and the first result published for it
  document,   \* the object at the job's key
  webScan,    \* the scan: its result message, artifact rows and engine run
  overtaken,  \* history: jobs some delivery of which came after a stored document
  reconCrashes

webVars == <<webSource, order, recon, webJob, document, webScan, overtaken, reconCrashes>>

Nothing == [status |-> "none"]
Resigned == [pc |-> "idle", job |-> "none", hosts |-> <<>>, doc |-> <<>>, ok |-> FALSE,
             verdict |-> "ack"]

WebInit ==
  /\ webSource \in [ReconJobs -> WebSources]
  /\ order \in [Recons -> SetToSeqs(DOMAIN Signatures)]
  /\ recon = [w \in Recons |-> Resigned]
  /\ webJob = [j \in ReconJobs |-> [state |-> "queued", tries |-> 0, result |-> Nothing]]
  /\ document = [j \in ReconJobs |-> Nothing]
  /\ webScan = [j \in ReconJobs |->
                  [pc |-> "wait", tries |-> 0, started |-> FALSE, rows |-> <<>>,
                   engine |-> "held", read |-> Nothing, claimed |-> 0,
                   components |-> {}, found |-> {}]]
  /\ overtaken = {} /\ reconCrashes = 0

(***************************************************************************)
(* Versions. Empty stands for nothing between two dots, Letters for the    *)
(* first character that is neither digit nor dot, Huge for a number that   *)
(* does not fit an int.                                                    *)
(***************************************************************************)
Empty == -1
Letters == -2
Huge == -3

\* <<>> when the version cannot be compared.
numericParts(v) ==
  LET stop == {i \in DOMAIN v : v[i] = Letters}
      upTo == {i \in DOMAIN v : \A k \in stop : i < k}
      kept == {i \in upTo : v[i] # Empty}
      parts == IF kept = {} THEN <<>> ELSE SubSeq(v, Min(kept), Max(kept))
  IN IF \E i \in DOMAIN parts : parts[i] < 0 THEN <<>> ELSE parts

Incomparable == 2

\* -1, 0 or 1; the shorter version is filled with zeros.
compareVersions(a, b) ==
  LET as == numericParts(a)
      bs == numericParts(b)
      At0(s, i) == IF i \in DOMAIN s THEN s[i] ELSE 0
      differ == {i \in DOMAIN as \cup DOMAIN bs : At0(as, i) # At0(bs, i)}
  IN IF as = <<>> \/ bs = <<>> THEN Incomparable
     ELSE IF differ = {} THEN 0
     ELSE IF At0(as, Min(differ)) < At0(bs, Min(differ)) THEN -1 ELSE 1

\* The vulnerabilities whose range, [atOrAbove, below), holds the version. A
\* bound that cannot be compared leaves the vulnerability out.
vulnerableAt(vulns, version) ==
  SelectSeq(vulns, LAMBDA v :
    /\ v.below # <<>> \/ v.atOrAbove # <<>>
    /\ v.below # <<>> => compareVersions(version, v.below) = -1
    /\ v.atOrAbove # <<>> => compareVersions(version, v.atOrAbove) \in {0, 1})

(***************************************************************************)
(* Matching. A text is what the patterns of the database would find in it: *)
(* per pattern, the version it captures and the repeats that takes.        *)
(***************************************************************************)
\* compilePattern: a look-around is beyond RE2, an oversized bound is capped.
Compiled(patterns) ==
  LET expressible == SelectSeq(patterns, LAMBDA p : ~ p.lookaround)
  IN [i \in DOMAIN expressible |->
        [expressible[i] EXCEPT !.most = IF @ > MaxRepeat THEN MaxRepeat ELSE @]]

\* The libraries some pattern of which was compiled, in the order the map gave.
LoadSignatures(names) ==
  SelectSeq([i \in DOMAIN names |->
               [name |-> names[i], uri |-> Compiled(Signatures[names[i]].uri),
                content |-> Compiled(Signatures[names[i]].content),
                vulns |-> Signatures[names[i]].vulns]],
            LAMBDA l : l.uri # <<>> \/ l.content # <<>>)

\* most is 0 for a repeat without an upper bound.
Finds(p, text) == p.id \in DOMAIN text /\ (p.most = 0 \/ text[p.id].repeats <= p.most)

\* The first pattern of the first library that finds something: no match or one.
match(libraries, text, kind) ==
  LET Hit(l) == SelectInSeq(l[kind], LAMBDA p : Finds(p, text))
      i == SelectInSeq(libraries, LAMBDA l : Hit(l) > 0)
      lib == libraries[i]
      version == text[lib[kind][Hit(lib)].id].version
  IN IF i = 0 THEN <<>>
     ELSE <<[name |-> lib.name, version |-> version, vulns |-> vulnerableAt(lib.vulns, version)]>>

\* Slip: the port of a script on the page's own host is not looked at.
FetchableOnAnyPort(page, script) ==
  LET to == Targets[script.src]
  IN /\ to.scheme \in {"relative", "http", "https"}
     /\ to.scheme = "relative" \/ to.host = page.host \/ to.host \in Allowlist

\* resolveScriptURL, then allowedScriptHost: the page's own host and port, or an
\* allow-listed host on any port.
Fetchable(page, script) ==
  LET to == Targets[script.src]
  IN /\ to.scheme \in {"relative", "http", "https"}
     /\ \/ to.scheme = "relative" \/ <<to.host, to.port>> = <<page.host, page.port>>
        \/ to.host \in Allowlist

\* What one script of a page yields; body is what its URL answers with, nothing
\* when the request fails.
ScriptMatches(libraries, page, script, body) ==
  IF script.src = "" THEN match(libraries, script.inline, "content")
  ELSE IF ~ Fetchable(page, script) THEN <<>>
  ELSE match(libraries, Targets[script.src].path, "uri") \o match(libraries, body, "content")

\* addMatch: a library in a version counts once.
Distinct(matches) ==
  SelectSeq([i \in DOMAIN matches |-> [at |-> i, m |-> matches[i]]],
            LAMBDA x : \A k \in 1 .. x.at - 1 :
                         <<matches[k].name, matches[k].version>> # <<x.m.name, x.m.version>>)

\* FetchAndFingerprint over a page that was served.
Libraries(libraries, page, scripts, bodies) ==
  LET all == Distinct(FlattenSeq([i \in DOMAIN scripts |->
                        ScriptMatches(libraries, page, scripts[i], bodies[i])]))
  IN [i \in DOMAIN all |-> all[i].m]

(***************************************************************************)
(* The worker                                                              *)
(***************************************************************************)
Doing(w, label) == recon[w].pc = label
Now(w, a) == recon' = [recon EXCEPT ![w] = a]

\* A failed result, or no result at all yet: the document is given up.
GiveUp(w) == Now(w, [Resigned EXCEPT !.pc = "report", !.job = recon[w].job])
TryLater(w) ==
  /\ recon[w].pc \in {"resolve", "hosts", "store"}
  /\ Now(w, [Resigned EXCEPT !.pc = "settle", !.job = recon[w].job, !.verdict = "retry"])
  /\ UNCHANGED <<webSource, order, webJob, document, webScan, overtaken, reconCrashes>>

TakeJob(w, j) ==
  /\ Doing(w, "idle") /\ webJob[j].state = "queued" /\ webJob[j].tries < ReconTries
  /\ webJob' = [webJob EXCEPT ![j] = [@ EXCEPT !.state = "running", !.tries = @ + 1]]
  /\ Now(w, [Resigned EXCEPT !.pc = "resolve", !.job = j])
  /\ UNCHANGED <<webSource, order, document, webScan, overtaken, reconCrashes>>

\* handle: no source and a source of another kind end the job.
ResolveWeb(w) ==
  /\ Doing(w, "resolve")
  /\ IF webSource[recon[w].job].kind = "url" THEN Now(w, [recon[w] EXCEPT !.pc = "hosts"])
     ELSE GiveUp(w)
  /\ UNCHANGED <<webSource, order, webJob, document, webScan, overtaken, reconCrashes>>

\* parseHosts: each name once and never the root.
parseHosts(lines, root) ==
  LET new == SelectSeq([i \in DOMAIN lines |-> i], LAMBDA i :
               lines[i] \notin {"", root} /\ \A k \in 1 .. i - 1 : lines[k] # lines[i])
  IN [i \in DOMAIN new |-> lines[new[i]]]

\* Discover: cut to the room that is left.
Discover(lines, root, room) ==
  LET hosts == parseHosts(lines, root)
  IN SubSeq(hosts, 1, Min({Len(hosts), room}))

\* resolveHosts: the root, and what was discovered beside it when discovery is on,
\* has room and works.
ResolveHosts(w) ==
  LET src == webSource[recon[w].job]
      root == <<src.root.host>>
      Fingerprint(hosts) == Now(w, [recon[w] EXCEPT !.pc = "fetch", !.hosts = hosts])
  IN /\ Doing(w, "hosts")
     /\ \/ Fingerprint(root)
        \/ /\ src.discovery /\ Len(root) < src.maxHosts
           /\ \E lines \in Outputs :
                Fingerprint(root \o Discover(lines, src.root.host, src.maxHosts - Len(root)))
     /\ UNCHANGED <<webSource, order, webJob, document, webScan, overtaken, reconCrashes>>

\* What a request for one of the texts may answer with: an error is no text.
Answers(texts) == texts \cup {<<>>}

\* fingerprintAll, one host: its page, the registered one for the root, then its
\* scripts. A host that does not answer is an entry of its own.
FingerprintHost(w) ==
  LET a == recon[w]
      host == a.hosts[Len(a.doc) + 1]
      root == webSource[a.job].root
      page == IF host = root.host THEN root ELSE [host |-> host, port |-> ""]
      Entry(status, libraries) ==
        LET doc == Append(a.doc, [host |-> host, status |-> status, libraries |-> libraries])
        IN Now(w, [a EXCEPT !.doc = doc, !.pc = IF Len(doc) = Len(a.hosts) THEN "store" ELSE "fetch"])
  IN /\ Doing(w, "fetch")
     /\ \/ \E status \in {"unreachable", "http_error"} : Entry(status, <<>>)
        \/ \E scripts \in PagesAt[host] :
             LET served(i) == IF scripts[i].src = "" THEN {<<>>} ELSE Answers(BodiesAt[scripts[i].src])
             IN \E bodies \in {f \in [DOMAIN scripts -> UNION {served(i) : i \in DOMAIN scripts}] :
                                 \A i \in DOMAIN scripts : f[i] \in served(i)} :
                  Entry("succeeded", Libraries(LoadSignatures(order[w]), page, scripts, bodies))
     /\ UNCHANGED <<webSource, order, webJob, document, webScan, overtaken, reconCrashes>>

\* Put: the key is the job's, and an object that is there is overwritten.
StoreDocument(w) ==
  LET j == recon[w].job
  IN /\ Doing(w, "store")
     /\ overtaken' = overtaken \cup (IF document[j] = Nothing THEN {} ELSE {j})
     /\ document' = [document EXCEPT ![j] = [status |-> "stored", hosts |-> recon[w].doc]]
     /\ Now(w, [recon[w] EXCEPT !.pc = "report", !.ok = TRUE])
     /\ UNCHANGED <<webSource, order, webJob, webScan, reconCrashes>>

\* publish, under the job id: the first result stands. A publish that fails is not
\* ErrRetry.
PublishDocument(w) ==
  LET a == recon[w]
      result == IF a.ok THEN [status |-> "succeeded", hosts |-> a.doc] ELSE [status |-> "failed"]
  IN /\ Doing(w, "report")
     /\ \/ /\ webJob' = [webJob EXCEPT ![a.job].result = IF @ = Nothing THEN result ELSE @]
           /\ Now(w, [Resigned EXCEPT !.pc = "settle", !.job = a.job])
        \/ /\ Now(w, [Resigned EXCEPT !.pc = "settle", !.job = a.job, !.verdict = "term"])
           /\ UNCHANGED webJob
     /\ UNCHANGED <<webSource, order, document, webScan, overtaken, reconCrashes>>

\* dispatch: an ack that is lost brings the message back.
SettleWeb(w) ==
  LET j == recon[w].job
      again == webJob[j].tries < ReconTries
      Set(s) == webJob' = [webJob EXCEPT ![j].state = s]
  IN /\ Doing(w, "settle") /\ Now(w, Resigned)
     /\ CASE recon[w].verdict = "ack" -> Set("done") \/ (again /\ Set("queued"))
          [] recon[w].verdict = "retry" -> Set(IF again THEN "queued" ELSE "dead")
          [] recon[w].verdict = "term" -> Set("dead")
     /\ UNCHANGED <<webSource, order, document, webScan, overtaken, reconCrashes>>

\* The process dies; the one that follows walks the libraries in an order of its own.
ReconDies(w) ==
  /\ ~ Doing(w, "idle") /\ reconCrashes < ReconCrashes /\ reconCrashes' = reconCrashes + 1
  /\ LET j == recon[w].job
     IN webJob' = [webJob EXCEPT ![j].state = IF webJob[j].tries < ReconTries THEN "queued" ELSE "dead"]
  /\ order' \in {[order EXCEPT ![w] = o] : o \in SetToSeqs(DOMAIN Signatures)}
  /\ Now(w, Resigned)
  /\ UNCHANGED <<webSource, document, webScan, overtaken>>

(***************************************************************************)
(* The orchestrator, the engine and the normalizer                         *)
(***************************************************************************)
Handling(j, label) == webScan[j].pc = label
Scan(j, s) ==
  /\ webScan' = [webScan EXCEPT ![j] = s]
  /\ UNCHANGED <<webSource, order, recon, webJob, document, overtaken, reconCrashes>>

\* handleWebreconResult. A failure fails the runs that are still queued;
\* otherwise SetSourceOnce starts the scan.
HandleWebResult(j) ==
  LET s == webScan[j]
  IN /\ Handling(j, "wait") /\ webJob[j].result # Nothing /\ s.tries < ReconTries
     /\ IF webJob[j].result.status = "failed"
          THEN Scan(j, [s EXCEPT !.pc = "acked", !.tries = @ + 1,
                                 !.engine = IF @ = "held" THEN "failed" ELSE @])
          ELSE Scan(j, [s EXCEPT !.pc = "record", !.tries = @ + 1, !.started = TRUE])

\* RecordProducerArtifacts: a row more each time, none ever changed.
RecordDocument(j) ==
  /\ Handling(j, "record")
  /\ Scan(j, [webScan[j] EXCEPT !.pc = "fanout", !.rows = Append(@, webJob[j].result.hosts)])

\* LoadRawArtifactsForEngines: the rows of the producer, the oldest first.
nativeSBOMRef(s) == IF s.rows = <<>> THEN "" ELSE "webrecon.json"

\* FanOut with nativeSBOMRefFor: without a document recorded nothing is published,
\* and a run is published while it is queued, under one job id.
FanOutWeb(j) ==
  LET s == webScan[j]
  IN /\ Handling(j, "fanout") /\ nativeSBOMRef(s) # ""
     /\ Scan(j, [s EXCEPT !.pc = "acked", !.engine = IF @ = "held" THEN "queued" ELSE @])

\* ErrRetry, a crash of the handler or an ack that is lost: once more from the top,
\* until the deliveries are used up and the reaper ends the scan.
ResultReturns(j) ==
  LET s == webScan[j]
  IN /\ s.pc \in {"record", "fanout", "acked"}
     /\ IF s.tries < ReconTries THEN Scan(j, [s EXCEPT !.pc = "wait"])
        ELSE s.pc # "acked" /\ Scan(j, [s EXCEPT !.pc = "dead", !.engine = IF @ = "held" THEN "timeout" ELSE @])

Counted(hosts) == FoldSeq(LAMBDA h, n : n + Len(h.libraries), 0, hosts)

\* materialize_native_sbom, then generate: whatever lies at the key when it is
\* read. A read that fails is a missing input, zero libraries are no success.
Generate(j) ==
  LET s == webScan[j]
      n == Counted(document[j].hosts)
  IN /\ s.engine = "queued"
     /\ \/ Scan(j, [s EXCEPT !.engine = "unavailable"])
        \/ Scan(j, [s EXCEPT !.engine = IF n = 0 THEN "partial" ELSE "succeeded",
                             !.claimed = n, !.read = document[j]])

\* A CVE before an advisory id; an entry with neither is no finding.
VulnId(v) == IF v.cve # <<>> THEN Head(v.cve) ELSE v.ghsa

\* _ingest_webrecon_fingerprint over the copy generate kept.
Ingest(j) ==
  LET s == webScan[j]
      named == UNION {{h.libraries[i] : i \in DOMAIN h.libraries} : h \in ToSet(s.read.hosts)}
      Named(m) == <<m.name, m.version>>
  IN /\ s.engine \in {"succeeded", "partial"} /\ s.components = {}
     /\ Scan(j, [s EXCEPT !.components = {Named(m) : m \in named},
                          !.found = UNION {{<<Named(m), VulnId(v)>> :
                                              v \in {v \in ToSet(m.vulns) : VulnId(v) # ""}} : m \in named}])

-----------------------------------------------------------------------------
Reconnoitre(w) ==
  \/ \E j \in ReconJobs : TakeJob(w, j)
  \/ ResolveWeb(w) \/ ResolveHosts(w) \/ FingerprintHost(w) \/ StoreDocument(w)
  \/ PublishDocument(w) \/ SettleWeb(w)

WebNext ==
  \/ \E w \in Recons : Reconnoitre(w) \/ TryLater(w) \/ ReconDies(w)
  \/ \E j \in ReconJobs : \/ HandleWebResult(j) \/ RecordDocument(j) \/ FanOutWeb(j)
                           \/ ResultReturns(j) \/ Generate(j) \/ Ingest(j)

WebSpec == WebInit /\ [][WebNext]_webVars

(***************************************************************************)
(* Properties                                                              *)
(***************************************************************************)
Stored == {j \in ReconJobs : document[j] # Nothing}

\* resolveHosts and fingerprintAll: a document opens with the registered host, has
\* each host once, none beyond the cap or without discovery, and lists libraries,
\* each version once, only for a host that answered.
HostsAreStated ==
  \A j \in Stored :
    LET hosts == document[j].hosts
        src == webSource[j]
    IN /\ hosts[1].host = src.root.host
       /\ Len(hosts) <= (IF src.discovery THEN src.maxHosts ELSE 1)
       /\ \A i, k \in DOMAIN hosts : hosts[i].host = hosts[k].host => i = k
       /\ \A i \in DOMAIN hosts :
            LET libs == hosts[i].libraries
            IN /\ hosts[i].status # "succeeded" => libs = <<>>
               /\ \A k, l \in DOMAIN libs :
                    libs[k].name = libs[l].name /\ libs[k].version = libs[l].version => k = l

\* The texts a host's pages vouch for: what is inline, and what stands at, or is
\* served from, its own origin or an allow-listed host.
VouchedTexts(page) ==
  UNION {LET own(t) == t.scheme = "relative" \/ (t.host = page.host /\ t.port = page.port)
             web(t) == t.scheme \in {"http", "https"}
         IN IF s.src = "" THEN {s.inline}
            ELSE LET t == Targets[s.src]
                 IN IF own(t) \/ (web(t) /\ t.host \in Allowlist) THEN {t.path} \cup BodiesAt[s.src] ELSE {} :
         s \in UNION {ToSet(scripts) : scripts \in PagesAt[page.host]}}

\* FetchAndFingerprint: a library in a document was seen, in that version, by a
\* pattern of its own as the database has it, in a text the host vouches for.
LibrariesWereSeen ==
  \A j \in Stored : \A h \in ToSet(document[j].hosts) :
    LET root == webSource[j].root
        texts == VouchedTexts(IF h.host = root.host THEN root ELSE [host |-> h.host, port |-> ""])
    IN \A m \in ToSet(h.libraries) :
         \E p \in ToSet(Signatures[m.name].uri) \cup ToSet(Signatures[m.name].content), t \in texts :
           /\ p.id \in DOMAIN t /\ t[p.id].version = m.version
           /\ p.most # 0 => t[p.id].repeats <= p.most

\* A version as one number: at most three parts below 100 in the instance.
Weight(v) ==
  LET p == numericParts(v)
      d(i) == IF i \in DOMAIN p THEN p[i] ELSE 0
  IN (d(1) * 100 + d(2)) * 100 + d(3)

Comparable(v) == numericParts(v) # <<>>

\* vulnerableAt as the database means it.
Applies(r, v) ==
  /\ r.below # <<>> \/ r.atOrAbove # <<>>
  /\ Comparable(v) /\ \A bound \in {r.below, r.atOrAbove} \ {<<>>} : Comparable(bound)
  /\ r.atOrAbove # <<>> => Weight(r.atOrAbove) <= Weight(v)
  /\ r.below # <<>> => Weight(v) < Weight(r.below)

\* From the database to the report, vulnerableAt and the ingest: a component has a
\* finding exactly when an entry of its library with an id applies to its version.
FindingsApply ==
  \A j \in ReconJobs :
    LET s == webScan[j]
    IN s.found = UNION {{<<c, VulnId(r)>> : r \in {r \in ToSet(Signatures[c[1]].vulns) :
                                                     Applies(r, c[2]) /\ VulnId(r) # ""}} :
                        c \in s.components}

\* raw_artifacts is immutable and every engine reads the bytes that were
\* recorded: an engine is queued only for a scan that runs and whose document is
\* stored, and reads the one on record unless a later delivery of the job put
\* another at its key.
DocumentStands ==
  \A j \in ReconJobs :
    LET s == webScan[j]
    IN s.engine \in {"queued", "unavailable", "partial", "succeeded"} =>
         /\ s.started /\ s.rows # <<>> /\ j \in Stored
         /\ s.read # Nothing => s.read.hosts = s.rows[1] \/ j \in overtaken

\* The document and what becomes of it are true to the site and the database.
DiscoveryIsHonest == HostsAreStated /\ LibrariesWereSeen /\ FindingsApply /\ DocumentStands
=============================================================================
