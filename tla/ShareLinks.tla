----------------------------- MODULE ShareLinks -----------------------------
(***************************************************************************)
(* Share links of a report, on top of ReportRender: members mint and       *)
(* revoke links, and anyone holding a token downloads through              *)
(* /shared/{token}. A download is a claim against the link in one          *)
(* statement, an audit row, a read of the report and the stream.           *)
(***************************************************************************)
EXTENDS ReportRender, FiniteSets

CONSTANTS
  Links,        \* share link ids; a token is as good as its link
  Visitors,     \* concurrent requests with a token
  Caps,         \* max_downloads a member may choose; Uncapped is none
  Uncapped,
  MaxVisits     \* bound on requests with a link

ASSUME ShareAssumption ==
  /\ Uncapped \notin Nat /\ Caps \subseteq (Nat \ {0}) \cup {Uncapped} /\ MaxVisits \in Nat
  /\ IsFiniteSet(Visitors)

VARIABLES
  link,      \* none, checked (Share has read the report), live, revoked
  expired,   \* links whose expires_at has passed
  cap,       \* max_downloads
  count,     \* download_count
  visit,     \* per visitor: the request in progress
  log,       \* audit rows by link and outcome
  served,    \* downloads that were streamed, by link
  unaudited, \* outcomes whose audit row could not be written
  asked      \* requests that were decided, by link and outcome

linkVars == <<link, expired, cap, count>>
shareVars == <<linkVars, visit, log, served, unaudited, asked>>
reportVars == <<renderVars, shareVars>>

Outcomes == {"granted", "expired", "revoked", "exhausted"}
NoVisit == [at |-> "idle"]
Exists(l) == link[l] \in {"live", "revoked"}

ShareInit ==
  /\ RenderInit
  /\ link = [l \in Links |-> "none"] /\ expired = {}
  /\ cap = [l \in Links |-> Uncapped] /\ count = [l \in Links |-> 0]
  /\ visit = [v \in Visitors |-> NoVisit]
  /\ log = [l \in Links |-> [o \in Outcomes |-> 0]]
  /\ served = [l \in Links |-> 0]
  /\ unaudited = [l \in Links |-> [o \in Outcomes |-> 0]]
  /\ asked = [l \in Links |-> [o \in Outcomes |-> 0]]

\* Service.Share reads the report: only a ready one may be shared.
Share(l) ==
  /\ link[l] = "none" /\ status = "ready"
  /\ link' = [link EXCEPT ![l] = "checked"]
  /\ UNCHANGED <<renderVars, expired, cap, count, visit, log, served, unaudited, asked>>

\* CreateShareLink, with options that Validate accepts.
CreateShareLink(l, c) ==
  /\ link[l] = "checked" /\ c \in Caps
  /\ link' = [link EXCEPT ![l] = "live"] /\ cap' = [cap EXCEPT ![l] = c]
  /\ UNCHANGED <<renderVars, expired, count, visit, log, served, unaudited, asked>>

\* Revoking twice is once.
RevokeShareLink(l) ==
  /\ link[l] = "live" /\ link' = [link EXCEPT ![l] = "revoked"]
  /\ UNCHANGED <<renderVars, expired, cap, count, visit, log, served, unaudited, asked>>

\* The link's expiry comes.
Expires(l) ==
  /\ Exists(l) /\ l \notin expired /\ expired' = expired \cup {l}
  /\ UNCHANGED <<renderVars, link, cap, count, visit, log, served, unaudited, asked>>

\* Slip: the cap is compared one too late.
ClassifyLate(l) ==
  IF link[l] = "revoked" THEN "revoked"
  ELSE IF l \in expired THEN "expired"
  ELSE IF cap[l] # Uncapped /\ count[l] > cap[l] THEN "exhausted" ELSE "granted"

\* Why a download is granted or refused; a revocation is named before an expiry.
Classify(l) ==
  IF link[l] = "revoked" THEN "revoked"
  ELSE IF l \in expired THEN "expired"
  ELSE IF cap[l] # Uncapped /\ count[l] >= cap[l] THEN "exhausted" ELSE "granted"

Counted(tally, l, o) == [tally EXCEPT ![l][o] = @ + 1]
\* Bound: the requests with a link.
Requests(l) == asked[l]["granted"] + asked[l]["expired"] + asked[l]["revoked"]
               + asked[l]["exhausted"]

\* claim_share_download: the check and the increment are one statement.
ClaimDownload(v, l) ==
  /\ visit[v] = NoVisit /\ Exists(l) /\ Requests(l) < MaxVisits
  /\ asked' = Counted(asked, l, Classify(l))
  /\ count' = [count EXCEPT ![l] = IF Classify(l) = "granted" THEN @ + 1 ELSE @]
  /\ visit' = [visit EXCEPT ![v] = [at |-> "audit", link |-> l, outcome |-> Classify(l)]]
  /\ UNCHANGED <<renderVars, link, expired, cap, log, served, unaudited>>

AfterAudit(v) ==
  visit' = [visit EXCEPT ![v] = IF @.outcome = "granted" THEN [@ EXCEPT !.at = "open"]
                                                         ELSE NoVisit]

\* RecordShareAccess, for refusals too; the download does not wait for it.
RecordShareAccess(v) ==
  /\ visit[v].at = "audit" /\ AfterAudit(v)
  /\ \/ /\ log' = Counted(log, visit[v].link, visit[v].outcome)
        /\ UNCHANGED <<renderVars, unaudited>>
     \/ /\ Fault /\ unaudited' = Counted(unaudited, visit[v].link, visit[v].outcome)
        /\ UNCHANGED <<rowVars, request, busVars, latest, blob, workVars,
                       announced, stranded, log>>
  /\ UNCHANGED <<linkVars, served, asked>>

\* GetShared, Open and the stream.
Servable == status = "ready" /\ sha # NoVersion /\ blob = sha

Stream(v) ==
  /\ visit[v].at = "open" /\ visit' = [visit EXCEPT ![v] = NoVisit]
  /\ \/ /\ Servable /\ served' = [served EXCEPT ![visit[v].link] = @ + 1]
        /\ UNCHANGED renderVars
     \/ ~Servable /\ UNCHANGED <<served, renderVars>>
     \/ /\ Fault /\ UNCHANGED <<rowVars, request, busVars, latest, blob, workVars,
                                announced, stranded, served>>
  /\ UNCHANGED <<linkVars, log, unaudited, asked>>

-----------------------------------------------------------------------------
VisitStep(v) == RecordShareAccess(v) \/ Stream(v) \/ \E l \in Links : ClaimDownload(v, l)
ShareStep(l) ==
  Share(l) \/ RevokeShareLink(l) \/ Expires(l) \/ \E c \in Caps : CreateShareLink(l, c)

ShareNext ==
  \/ RenderNext /\ UNCHANGED shareVars
  \/ \E l \in Links : ShareStep(l)
  \/ \E v \in Visitors : VisitStep(v)

ShareSpec == ShareInit /\ [][ShareNext]_reportVars

-----------------------------------------------------------------------------
(***************************************************************************)
(* Properties                                                              *)
(***************************************************************************)
Visits == {NoVisit} \cup [at : {"audit", "open"}, link : Links, outcome : Outcomes]

\* The state is well formed.
ShareTypeOK ==
  /\ RenderTypeOK
  /\ link \in [Links -> {"none", "checked", "live", "revoked"}]
  /\ expired \subseteq Links /\ cap \in [Links -> Caps \cup {Uncapped}]
  /\ count \in [Links -> Nat] /\ visit \in [Visitors -> Visits]
  /\ log \in [Links -> [Outcomes -> Nat]] /\ unaudited \in [Links -> [Outcomes -> Nat]]
  /\ served \in [Links -> Nat] /\ asked \in [Links -> [Outcomes -> Nat]]

Under(l, o) ==
  Cardinality({v \in Visitors : visit[v].at = "audit" /\ visit[v].link = l
                                                      /\ visit[v].outcome = o})
\* A link is never used beyond its cap, however many visitors come at once, and
\* what was served was counted (0002_share_access.sql:68).
CapHolds ==
  \A l \in Links :
    /\ served[l] <= count[l]
    /\ cap[l] # Uncapped => count[l] <= cap[l]

\* Every download that was counted against the cap has its audit row, or the
\* request has not come to it, or the row could not be written; and every
\* refusal has one too (service.go:342).
DownloadsAccounted ==
  \A l \in Links :
    /\ \A o \in Outcomes : asked[l][o] = log[l][o] + Under(l, o) + unaudited[l][o]
    /\ count[l] = asked[l]["granted"]

\* A granted download finds its report: a link is minted only for a report that
\* is ready, and that stays so (service.go:285, store.go:477).
GrantedIsServable ==
  \A v \in Visitors : (visit[v].at # "idle" /\ visit[v].outcome = "granted") => Servable

\* A link gives away what it was minted for, and every use and refusal is on record
\* (claim_share_download, RecordShareAccess, Share).
SharingIsAccounted == ShareTypeOK /\ CapHolds /\ DownloadsAccounted /\ GrantedIsServable
=============================================================================
