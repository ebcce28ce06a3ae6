--------------------------- MODULE EngineSelection ---------------------------
(***************************************************************************)
(* Which engines a scan runs. The registry says what each engine reads and *)
(* makes; a tenant may replace a family's engines in its engine policy; a  *)
(* request may name engines itself. CreateScan turns the three into runs,  *)
(* FanOut publishes them, and an engine that reads another's output is     *)
(* held back until the other one reports.                                  *)
(*                                                                         *)
(* The policy that a scan is created from was read before the engines are  *)
(* resolved, so a request of another member may come in between.           *)
(***************************************************************************)
EXTENDS FiniteSets

CONSTANTS
  Wishes,     \* what requests ask: [families, engines, kind], engines {} for none
  Overrides,  \* what members set a policy to: [family, engines, enabled]
  Scans       \* ids of scans

ASSUME SelectionAssumption ==
  /\ Wishes \subseteq [families : SUBSET STRING, engines : SUBSET STRING, kind : STRING]
  /\ Overrides \subseteq [family : STRING, engines : SUBSET STRING, enabled : BOOLEAN]

VARIABLES
  policy,  \* scan.engine_policy of the tenant: family -> engines, where it has a row
  scan     \* per scan: none, or [stage, wish, policy, run, gaps]

selectionVars == <<policy, scan>>

Families == {"sbom", "cbom", "qbom", "aibom", "hbom"}
Kinds == {"git", "upload", "image", "url"}
Plain == {}

Entry(family, kinds, flags, producer) ==
  [family |-> family, kinds |-> kinds, flags |-> flags, consumes |-> producer]

\* DefaultRegistry.
Registry ==
  [syft |-> Entry("sbom", {"git", "upload", "image"}, Plain, "none"),
   grype |-> Entry("sbom", {"git", "upload", "image"}, Plain, "syft"),
   trivy_fs |-> Entry("sbom", {"git", "upload"}, Plain, "none"),
   trivy_image |-> Entry("sbom", {"image"}, Plain, "none"),
   osv_scanner |-> Entry("sbom", {"git", "upload"}, Plain, "none"),
   dependency_check |-> Entry("sbom", {"git", "upload"}, Plain, "none"),
   github_dependency_graph_sbom |-> Entry("sbom", {"git"}, {"import", "native"}, "none"),
   webrecon_fingerprint |-> Entry("sbom", {"url"}, {"native"}, "none"),
   cbomkit_theia |-> Entry("cbom", {"git", "upload", "image"}, Plain, "none"),
   cbomkit |-> Entry("cbom", {"git"}, Plain, "none"),
   aibom_generator |-> Entry("aibom", {"git", "upload"}, Plain, "none"),
   ai_bom |-> Entry("aibom", {"git", "upload"}, Plain, "none"),
   hbom_csv |-> Entry("hbom", {"upload"}, {"import"}, "none"),
   qbom_derive |-> Entry("qbom", {"git", "upload", "image"}, {"derived"}, "none"),
   mock_engine |-> Entry("sbom", {"git", "upload", "image"}, Plain, "none")]

Known == DOMAIN Registry
Supports(e, kind) == kind \in Registry[e].kinds
InFamily(e, f) == Registry[e].family = f
ForFamily(f) == {e \in Known : InFamily(e, f)}
MetadataOnly(e) == Registry[e].flags \cap {"derived", "import"} # {}

\* ValidateCombination: every engine a request names exists, can read the source
\* and makes something that was asked for.
ValidateCombination(wish) ==
  \A e \in wish.engines :
    /\ e \in Known
    /\ Supports(e, wish.kind)
    /\ \E f \in wish.families : InFamily(e, f)

\* rejectNonScannableFamilies.
Scannable(wish) ==
  /\ \A f \in wish.families : ForFamily(f) # {} => \E e \in ForFamily(f) : ~MetadataOnly(e)
  /\ \A e \in wish.engines : ~MetadataOnly(e)

\* Registry.Resolve: per family the tenant's engines or the default, as far as they can
\* read the source; the rest is a gap.
CandidatesFor(f, overrides) == IF f \in DOMAIN overrides THEN overrides[f] \cap Known ELSE ForFamily(f)

Candidates(wish, overrides) == UNION {CandidatesFor(f, overrides) : f \in wish.families}

\* Slip: whatever the source.
ResolveAll(wish, overrides) == Candidates(wish, overrides)

RegistryResolve(wish, overrides) == {e \in Candidates(wish, overrides) : Supports(e, wish.kind)}

SkippedForSource(wish, overrides) ==
  IF wish.engines # {} THEN {} ELSE Candidates(wish, overrides) \ RegistryResolve(wish, overrides)

resolveEngines(wish, overrides) ==
  IF wish.engines # {} THEN wish.engines ELSE RegistryResolve(wish, overrides)

----------------------------------------------------------------------------
SelectionInit ==
  /\ policy = [f \in {} |-> {}]
  /\ scan = [s \in Scans |-> [stage |-> "none"]]

\* EnginePolicyUpsert; a disabled row runs nothing.
Valid(o) == o.family \in Families /\ \A e \in o.engines : e \in Known /\ InFamily(e, o.family)

EnginePolicyUpsert(o) ==
  /\ Valid(o)
  /\ policy' = [f \in DOMAIN policy \cup {o.family} |->
                  IF f # o.family THEN policy[f] ELSE IF o.enabled THEN o.engines ELSE {}]
  /\ UNCHANGED scan

EnginePolicyDelete(f) ==
  /\ f \in DOMAIN policy
  /\ policy' = [g \in DOMAIN policy \ {f} |-> policy[g]]
  /\ UNCHANGED scan

\* Create reads the tenant's overrides.
OverridesForTenant(s, wish) ==
  /\ scan[s].stage = "none"
  /\ scan' = [scan EXCEPT ![s] = [stage |-> "resolving", wish |-> wish, policy |-> policy]]
  /\ UNCHANGED policy

\* CreateScan: one queued run per engine, or a refusal of the whole request.
CreateScan(s) ==
  /\ scan[s].stage = "resolving"
  /\ LET wish == scan[s].wish
         engines == resolveEngines(wish, scan[s].policy)
         refused == \/ wish.families = {} \/ wish.kind \notin Kinds
                    \/ ~ValidateCombination(wish) \/ ~Scannable(wish) \/ engines = {}
     IN scan' = [scan EXCEPT ![s] =
          IF refused THEN [stage |-> "refused"]
          ELSE [stage |-> "fetching", wish |-> wish, policy |-> scan[s].policy,
                run |-> [e \in engines |-> "queued"],
                gaps |-> SkippedForSource(wish, scan[s].policy)]]
  /\ UNCHANGED policy

Queued(s) == {e \in DOMAIN scan[s].run : scan[s].run[e] = "queued"}
HeldBack(e) == Registry[e].consumes # "none"

\* FanOut, when the fetcher (webrecon for a url) has reported the source.
FanOut(s) ==
  /\ scan[s].stage = "fetching"
  /\ LET run == scan[s].run IN
       scan' = [scan EXCEPT ![s].stage = "running",
                  ![s].run = [e \in DOMAIN run |->
                                IF e \in Queued(s) /\ ~HeldBack(e) THEN "published" ELSE run[e]]]
  /\ UNCHANGED policy

\* HandleResult: the run's status, then releaseDependents publishes or skips the
\* queued engines that read this one's output.
HandleResult(s, e, status) ==
  /\ scan[s].stage = "running" /\ e \in DOMAIN scan[s].run /\ scan[s].run[e] = "published"
  /\ LET run == scan[s].run IN
       scan' = [scan EXCEPT ![s].run = [d \in DOMAIN run |->
         IF d = e THEN status
         ELSE IF d \in Queued(s) /\ Registry[d].consumes = e
              THEN IF status = "succeeded" THEN "published" ELSE "skipped"
         ELSE run[d]]]
  /\ UNCHANGED policy

SelectionNext ==
  \/ \E o \in Overrides : EnginePolicyUpsert(o)
  \/ \E f \in Families : EnginePolicyDelete(f)
  \/ \E s \in Scans :
       \/ \E wish \in Wishes : OverridesForTenant(s, wish)
       \/ CreateScan(s) \/ FanOut(s)
       \/ \E e \in Known, status \in {"succeeded", "failed"} : HandleResult(s, e, status)

SelectionSpec == SelectionInit /\ [][SelectionNext]_selectionVars

----------------------------------------------------------------------------
Created(s) == scan[s].stage \in {"fetching", "running"}

\* Every engine that a scan dispatches can read the source, makes a family that
\* was asked for and was chosen by the request, else by the tenant, else by the
\* registry; what was chosen and cannot read the source is recorded as a gap
\* (CreateScan, Registry.Resolve, EnginePolicyUpsert).
SelectionIsSound ==
  \A s \in Scans : Created(s) =>
    LET wish == scan[s].wish
        engines == DOMAIN scan[s].run
    IN /\ engines # {}
       /\ \A e \in engines \cup scan[s].gaps : Registry[e].family \in wish.families
       /\ \A e \in engines : Supports(e, wish.kind) /\ "derived" \notin Registry[e].flags
       /\ wish.engines # {} => engines = wish.engines
       /\ wish.engines = {} => \A f \in wish.families :
            LET chosen == IF f \in DOMAIN scan[s].policy THEN scan[s].policy[f] ELSE ForFamily(f)
            IN chosen \subseteq engines \cup scan[s].gaps

\* dependent.go:28: a producer that did not produce must not leave its consumer
\* queued. An engine that is held back has its producer still to report.
ConsumerIsNotStranded ==
  \A s \in Scans : scan[s].stage = "running" =>
    \A e \in Queued(s) : \E p \in DOMAIN scan[s].run :
      p = Registry[e].consumes /\ scan[s].run[p] = "published"
=============================================================================
