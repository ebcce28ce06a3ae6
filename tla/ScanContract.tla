---------------------------- MODULE ScanContract ----------------------------
(***************************************************************************)
(* What a scan promises, whatever the order in which its handlers, its     *)
(* reaper and its workers get there:                                       *)
(*   - it is pinned to one commit, once, and keeps it;                     *)
(*   - an engine is dispatched only for that commit, and an engine that    *)
(*     reads another one's output only after that one has ended;           *)
(*   - an engine that has ended stays ended.                               *)
(***************************************************************************)
CONSTANTS Engines, ProducerOf, NoEngine, Commits, NoCommit

VARIABLES
  pin,         \* the commit, or NoCommit
  dispatched,  \* engine -> the commits its jobs carry
  requested,   \* engines of the scan
  ended        \* engines with an outcome

cvars == <<pin, dispatched, requested, ended>>

Init ==
  /\ pin = NoCommit
  /\ dispatched = [e \in Engines |-> {}]
  /\ requested = {} /\ ended = {}

\* The scan is created.
Request(S) ==
  /\ requested = {} /\ S \subseteq Engines
  /\ requested' = S
  /\ UNCHANGED <<pin, dispatched, ended>>

\* A fetch lands, once.
Pin(c) ==
  /\ pin = NoCommit
  /\ pin' = c
  /\ UNCHANGED <<dispatched, requested, ended>>

\* Engine e gets a job for the pinned commit.
Dispatch(e) ==
  /\ pin # NoCommit
  /\ ProducerOf[e] # NoEngine => ProducerOf[e] \in ended
  /\ dispatched' = [dispatched EXCEPT ![e] = {pin}]
  /\ UNCHANGED <<pin, requested, ended>>

\* Some engines end: a result, a failed fetch, a skip or the deadline.
End(S) ==
  /\ S \subseteq requested
  /\ ended' = ended \cup S
  /\ UNCHANGED <<pin, dispatched, requested>>

Next ==
  \/ \E S \in SUBSET Engines : Request(S) \/ End(S)
  \/ \E c \in Commits : Pin(c)
  \/ \E e \in Engines : Dispatch(e)

Spec == Init /\ [][Next]_cvars
=============================================================================
