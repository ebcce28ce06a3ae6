---------------------------- MODULE Identifiers ----------------------------
(***************************************************************************)
(* axebom_shared.normalize.identity, purl and licenses: which component an *)
(* engine's record is, and which licence a licence string is.              *)
(*                                                                         *)
(* Text is abstracted to what the comparison keys tell apart. A name or a  *)
(* CPE is [text, style], the text without its case, its separators and its *)
(* escapes, and how it was spelled; a version is [number, v], v its prefix.*)
(***************************************************************************)
EXTENDS Naturals, Sequences, SequencesExt, FiniteSets, FiniteSetsExt, Functions, TLC

None == "none"

(***************************************************************************)
(* purl                                                                    *)
(***************************************************************************)
\* _ECOSYSTEM_ALIASES: one ecosystem, several purl types.
Aliases == ("go" :> "golang") @@ ("apk" :> "alpine") @@ ("crates" :> "cargo")
             @@ ("pip" :> "pypi") @@ ("python" :> "pypi")
Ecosystem(type) == IF type \in DOMAIN Aliases THEN Aliases[type] ELSE type

CaseInsensitive == {"npm", "pypi", "deb", "rpm", "alpine", "apk", "gem", "cargo",
                    "composer", "hex", "nuget"}
IdentityQualifiers == {"arch", "distro", "os", "epoch", "classifier", "type", "channel",
                       "platform"}

\* Slip: every ecosystem's names are lowercased.
FoldEveryName(eco, name) == <<name.text, "folded">>

\* _apply_ecosystem_rules. golang keeps the case and decodes the proxy's escape
\* of an upper-case letter.
CanonicalName(eco, name) ==
  IF eco \in CaseInsensitive THEN <<name.text, "folded">>
  ELSE IF eco = "golang" /\ name.style = "escaped" THEN <<name.text, "upper">>
  ELSE <<name.text, name.style>>

\* _canonical_version: Go's v is added where it is missing.
CanonicalVersion(eco, version) ==
  IF eco = "golang" THEN [number |-> version.number, v |-> TRUE] ELSE version

\* parse and canonical. The type is kept as it was spelled; a qualifier that is
\* not part of what the component is, is dropped.
CanonicalPurl(p) ==
  LET eco == Ecosystem(p.type)
  IN  [type |-> p.type, name |-> CanonicalName(eco, p.name),
       version |-> CanonicalVersion(eco, p.version),
       quals |-> {q \in p.quals : q[1] \in IdentityQualifiers}]

(***************************************************************************)
(* identity.resolve: a component key is <<rule, ecosystem, identifier>>    *)
(***************************************************************************)
Rule(key) == key[1]
Eco(key) == key[2]

\* A record carries some of these identifiers; the first usable one names it.
Ladder == <<"purl", "cpe", "swid", "hash", "file", "name">>

\* A malformed purl, a CPE that is none, a weak digest and a file with no digest
\* fall through to the next rule.
Usable(rule, id) ==
  CASE rule = "purl" -> id.type # None /\ id.name.text # None
    [] rule = "cpe"  -> id.style # "malformed"
    [] rule = "hash" -> id.alg = "sha256"
    [] rule = "file" -> id.digest # None
    [] OTHER         -> TRUE

Canonical(rule, id) ==
  CASE rule = "purl" -> CanonicalPurl(id)
    [] rule = "cpe"  -> id.text
    [] rule = "name" -> <<id.name.text, id.version, id.eco>>
    [] OTHER         -> id

\* uuid5 of the scan, the engine and the engine's own id.
Opaque(engine, entry) == <<"opaque", None, <<engine, entry.ref>>>>

EcosystemOf(rule, id) ==
  CASE rule = "purl" -> Ecosystem(id.type) [] rule = "name" -> id.eco [] OTHER -> None

resolve(engine, entry) ==
  LET usable(r) == r \in DOMAIN entry.ids /\ Usable(r, entry.ids[r])
      rules == SelectSeq(Ladder, usable)
  IN  IF rules = <<>> THEN Opaque(engine, entry)
      ELSE LET id == entry.ids[rules[1]]
           IN  <<rules[1], EcosystemOf(rules[1], id), Canonical(rules[1], id)>>

\* _ecosystem_of_key: only a purl key tells.
KeyEcosystem(key) == IF Rule(key) = "purl" THEN Eco(key) ELSE None

(***************************************************************************)
(* licenses.resolve: a licence string is the sequence of its words         *)
(***************************************************************************)
Operators == {"AND", "OR", "WITH"}
KnownIds == {"MIT", "Apache-2.0", "GPL-2.0-only", "GPL-2.0-or-later"}
Unambiguous == "GPL-2.0+" :> "GPL-2.0-or-later"
Ambiguous == {"GPL-2.0"}
LicenseAliases == ("Expat" :> "MIT") @@ ("GPLv2" :> "GPL-2.0")

\* _resolve_single: an ambiguous deprecated id is kept and flagged, also when an
\* alias leads to it; what is unknown becomes a reference to the raw text.
resolve_single(word) ==
  LET value == IF word \in KnownIds THEN word
               ELSE IF word \in DOMAIN Unambiguous THEN Unambiguous[word]
               ELSE IF word \in Ambiguous THEN word
               ELSE IF word \in DOMAIN LicenseAliases THEN LicenseAliases[word]
               ELSE "LicenseRef"
  IN  [value |-> value, ambiguous |-> value \in Ambiguous]

Depth(words) == Quantify(DOMAIN words, LAMBDA i : words[i] = "(")
Closed(words) == Quantify(DOMAIN words, LAMBDA i : words[i] = ")")

\* _resolve_expression: OR is not flattened; unbalanced parentheses keep the text.
resolve_expression(words) ==
  LET operand(w) == w \notin Operators \cup {"(", ")"}
      term(w) == IF operand(w) THEN resolve_single(w).value ELSE w
  IN  IF Depth(words) # Closed(words)
      THEN [value |-> <<"LicenseRef">>, ambiguous |-> FALSE]
      ELSE [value |-> [i \in DOMAIN words |-> term(words[i])],
            ambiguous |-> \E i \in DOMAIN words :
                             operand(words[i]) /\ resolve_single(words[i]).ambiguous]

NoLicense == [value |-> <<>>, ambiguous |-> FALSE]

resolve_license(words) ==
  IF words = <<>> THEN NoLicense
  ELSE IF words \in {<<"NONE">>, <<"NOASSERTION">>}
       THEN [value |-> words, ambiguous |-> FALSE]
       ELSE resolve_expression(words)

\* LicenseSet.effective: concluded, declared, observed.
effective(licenses) ==
  LET said == SelectSeq(<<"concluded", "declared", "observed">>,
                        LAMBDA k : licenses[k].value # <<>>)
  IN  IF said = <<>> THEN <<>> ELSE licenses[said[1]].value
=============================================================================
