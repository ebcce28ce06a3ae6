-------------------------- MODULE CampaignScheduler --------------------------
(***************************************************************************)
(* One campaign and the scheduler instances that fire it                   *)
(* (services/campaign/internal/scheduler, schedule and store).             *)
(*                                                                         *)
(* The leader lock is a polling optimisation, so no correctness may rest   *)
(* on it (scheduler.go, package comment): here every instance ticks when   *)
(* it likes. Each store call and the call to the scan service is a step    *)
(* of its own, next to the users who edit, pause, delete and run the       *)
(* campaign now.                                                           *)
(*                                                                         *)
(* The clock counts the instants that matter; a cron expression is its     *)
(* period, and its occurrences are the multiples of that period. Parsing,  *)
(* time zones and daylight saving time only decide where the occurrences   *)
(* lie, not how they are worked off.                                       *)
(***************************************************************************)
EXTENDS Integers

CONSTANTS
  Schedulers,  \* instances of the campaign service
  Requests,    \* handlers of requests to run the campaign now
  Crons,       \* cron expressions: their periods
  None,        \* no due time, no plan
  Horizon,     \* bound on the clock
  MaxMissed,   \* maxMissedTracked (500 in the code)
  MaxEdits,    \* bound on what users do to the campaign, once it is there
  MaxFaults    \* bound on crashes and failed store calls

Actors == Schedulers \cup Requests
Slots == 1..Horizon
RunStatus == {"none", "pending", "running", "failed", "skipped"}

ASSUME CampaignAssumption ==
  /\ Crons \subseteq Nat \ {0}
  /\ Horizon \in Nat
  /\ None \notin Int
  /\ Schedulers \cap Requests = {}
  /\ MaxMissed \in Nat /\ MaxEdits \in Nat /\ MaxFaults \in Nat

VARIABLES
  now,                          \* the clock
  row, cron, enabled, cursor,   \* campaign.campaigns; cursor is next_run_at
  runs,                         \* campaign.runs: status per scheduled_for
  scans,                        \* Trigger calls that started scans, per slot
  pc, plan,                     \* per actor: step, what it works on
  edits, faults

campaignVars == <<row, cron, enabled, cursor>>
vars == <<now, campaignVars, runs, scans, pc, plan, edits, faults>>

\* schedule.Next: the first occurrence strictly after t.
NextOccurrence(c, t) == c * (t \div c + 1)

\* schedule.CatchUp: what came due after the cursor, up to a limit.
Missed(c, from, to) ==
  {s \in (from + 1)..to : s % c = 0 /\ s \div c <= from \div c + MaxMissed + 1}

Init ==
  /\ now = 0
  /\ row = "absent" /\ cron = None /\ enabled = FALSE /\ cursor = None
  /\ runs = [s \in Slots |-> "none"] /\ scans = [s \in Slots |-> 0]
  /\ pc = [i \in Actors |-> "idle"] /\ plan = [i \in Actors |-> None]
  /\ edits = 0 /\ faults = 0

ClockAdvances ==
  /\ now < Horizon
  /\ now' = now + 1
  /\ UNCHANGED <<campaignVars, runs, scans, pc, plan, edits, faults>>

(***************************************************************************)
(* What users do                                                           *)
(***************************************************************************)
\* The due time a definition has: the next future occurrence, or none.
FirstDue(c, on) == IF on THEN NextOccurrence(c, now) ELSE None

Create(c, on) ==
  /\ row = "absent"
  /\ row' = "present" /\ cron' = c /\ enabled' = on /\ cursor' = FirstDue(c, on)
  /\ UNCHANGED <<now, runs, scans, pc, plan, edits, faults>>

Edit == row = "present" /\ edits < MaxEdits /\ edits' = edits + 1

\* Store.Update: the cursor is recomputed from now.
Update(c) ==
  /\ Edit
  /\ cron' = c /\ cursor' = FirstDue(c, enabled)
  /\ UNCHANGED <<now, row, enabled, runs, scans, pc, plan, faults>>

\* Store.SetEnabled: enabling looks forward, pausing clears the cursor.
SetEnabled(on) ==
  /\ Edit
  /\ enabled' = on /\ cursor' = FirstDue(cron, on)
  /\ UNCHANGED <<now, row, cron, runs, scans, pc, plan, faults>>

\* Store.Delete: the runs cascade.
Delete ==
  /\ Edit
  /\ row' = "deleted" /\ enabled' = FALSE /\ cursor' = None
  /\ runs' = [s \in Slots |-> "none"]
  /\ UNCHANGED <<now, cron, scans, pc, plan, faults>>

(***************************************************************************)
(* dispatch and RunNow                                                     *)
(***************************************************************************)
Goto(i, label) ==
  /\ pc' = [pc EXCEPT ![i] = label]
  /\ UNCHANGED <<now, row, cron, enabled, edits>>

\* The actor is done with the campaign.
Return(i) ==
  /\ Goto(i, "idle")
  /\ plan' = [plan EXCEPT ![i] = None]

\* The occurrence is run, here or elsewhere: dispatch goes on to the cursor,
\* which a request does not touch.
Proceed(i) ==
  IF i \in Requests THEN Return(i) ELSE Goto(i, "advance") /\ UNCHANGED plan

\* Tick: due_campaigns, then CatchUp from the cursor it returned. The most
\* recent missed occurrence is to be fired, the ones before it are skipped.
\* Nothing missed, nothing done: the cursor stays where it is.
Tick(i) ==
  /\ pc[i] = "idle"
  /\ row = "present" /\ enabled /\ cursor # None /\ cursor <= now
  /\ LET missed == Missed(cron, cursor, now) IN
       \E fire \in missed :
         /\ \A s \in missed : s <= fire
         /\ plan' = [plan EXCEPT ![i] =
              [cron |-> cron, missed |-> missed, left |-> missed \ {fire}, fire |-> fire]]
  /\ Goto(i, "record")
  /\ UNCHANGED <<cursor, runs, scans, faults>>

\* RunNow: a run for the current instant, through the same claim.
RunNow(q) ==
  /\ pc[q] = "idle" /\ now \in Slots
  /\ Edit
  /\ plan' = [plan EXCEPT ![q] = [cron |-> cron, missed |-> {now}, left |-> {}, fire |-> now]]
  /\ pc' = [pc EXCEPT ![q] = "record"]
  /\ UNCHANGED <<now, campaignVars, runs, scans, faults>>

\* The row of slot s, unless there is one: ON CONFLICT DO NOTHING.
InsertRun(s, status) == runs' = [runs EXCEPT ![s] = IF @ = "none" THEN status ELSE @]

\* One skip, the earliest, leaves the list of those to record.
Skip(i, s) ==
  /\ pc[i] = "record" /\ row = "present"
  /\ s \in plan[i].left /\ \A t \in plan[i].left : s <= t
  /\ plan' = [plan EXCEPT ![i].left = @ \ {s}]
  /\ Goto(i, "record")
  /\ UNCHANGED <<cursor, scans, faults>>

\* Slip: the missed occurrences are passed over.
SkipSilently(i, s) == Skip(i, s) /\ UNCHANGED runs

RecordSkipped(i, s) == Skip(i, s) /\ InsertRun(s, "skipped")

\* Slip: the conflict is not looked at.
ClaimAnyway(i) ==
  /\ pc[i] = "record" /\ row = "present" /\ plan[i].left = {}
  /\ InsertRun(plan[i].fire, "pending")
  /\ Goto(i, "trigger")
  /\ UNCHANGED <<cursor, scans, plan, faults>>

\* Slip: an occurrence claimed by somebody else is an error.
ConflictIsError(i) ==
  /\ pc[i] = "record" /\ row = "present" /\ plan[i].left = {}
  /\ InsertRun(plan[i].fire, "pending")
  /\ IF runs[plan[i].fire] = "none" THEN Goto(i, "trigger") /\ UNCHANGED plan ELSE Return(i)
  /\ UNCHANGED <<cursor, scans, faults>>

\* ClaimRun: the run is this actor's if its insert won.
ClaimRun(i) ==
  /\ pc[i] = "record" /\ row = "present" /\ plan[i].left = {}
  /\ InsertRun(plan[i].fire, "pending")
  /\ IF runs[plan[i].fire] = "none" THEN Goto(i, "trigger") /\ UNCHANGED plan ELSE Proceed(i)
  /\ UNCHANGED <<cursor, scans, faults>>

\* The campaign was deleted: the insert violates its foreign key.
CampaignGone(i) ==
  /\ pc[i] = "record" /\ row = "deleted"
  /\ Return(i)
  /\ UNCHANGED <<cursor, runs, scans, faults>>

\* Trigger starts a scan per project: all of them, or only some, or none.
StartScans(i) ==
  /\ pc[i] = "trigger"
  /\ \/ scans' = [scans EXCEPT ![plan[i].fire] = @ + 1] /\ Goto(i, "start")
     \/ /\ scans' = [scans EXCEPT ![plan[i].fire] = @ + 1]
        /\ Goto(i, IF i \in Requests THEN "note" ELSE "fail")
     \/ UNCHANGED scans /\ Goto(i, "fail")
  /\ UNCHANGED <<cursor, runs, plan, faults>>

\* The run row by its id: no row is left of a deleted campaign.
SetRun(i, status) ==
  runs' = IF row = "present" THEN [runs EXCEPT ![plan[i].fire] = status] ELSE runs

StartRun(i) ==
  /\ pc[i] = "start"
  /\ SetRun(i, "running")
  /\ Proceed(i)
  /\ UNCHANGED <<cursor, scans, faults>>

\* A request keeps the scans that started before it fails the run, if it can.
NoteStarted(q) ==
  /\ pc[q] = "note"
  /\ \/ SetRun(q, "running") /\ UNCHANGED faults
     \/ UNCHANGED runs /\ faults < MaxFaults /\ faults' = faults + 1
  /\ Goto(q, "fail")
  /\ UNCHANGED <<cursor, scans, plan>>

\* FailRun keeps the row, and dispatch returns before the cursor moves.
FailRun(i) ==
  /\ pc[i] = "fail"
  /\ SetRun(i, "failed")
  /\ Return(i)
  /\ UNCHANGED <<cursor, scans, faults>>

\* AdvanceCursor: next_run_at, whatever it and enabled have become.
AdvanceCursor(i) ==
  /\ pc[i] = "advance"
  /\ cursor' = IF row = "present" THEN NextOccurrence(plan[i].cron, plan[i].fire) ELSE cursor
  /\ Return(i)
  /\ UNCHANGED <<runs, scans, faults>>

\* A store call fails and the actor returns, or it dies.
GiveUp(i) ==
  /\ pc[i] # "idle"
  /\ faults < MaxFaults /\ faults' = faults + 1
  /\ Return(i)
  /\ UNCHANGED <<cursor, runs, scans>>

-----------------------------------------------------------------------------
\* What dispatch and a request to run now have in common.
RunStep(i) ==
  ClaimRun(i) \/ CampaignGone(i) \/ StartScans(i) \/ StartRun(i) \/ FailRun(i)

DispatchStep(i) ==
  \/ Tick(i) \/ RunStep(i) \/ AdvanceCursor(i)
  \/ \E s \in Slots : RecordSkipped(i, s)

RequestStep(q) == RunNow(q) \/ RunStep(q) \/ NoteStarted(q)

Next ==
  \/ ClockAdvances \/ Delete
  \/ \E c \in Crons, on \in BOOLEAN : Create(c, on)
  \/ \E c \in Crons : Update(c)
  \/ \E on \in BOOLEAN : SetEnabled(on)
  \/ \E i \in Schedulers : DispatchStep(i)
  \/ \E q \in Requests : RequestStep(q)
  \/ \E i \in Actors : GiveUp(i)

Spec == Init /\ [][Next]_vars

\* Every instance ticks every 30 seconds and works its list off. Nobody has to
\* ask for a run, nor does anybody have to finish one that a user asked for.
FairSpec == Spec /\ \A i \in Schedulers : WF_vars(DispatchStep(i))

(***************************************************************************)
(* Properties                                                              *)
(***************************************************************************)
Plans == [cron : Crons, missed : SUBSET Slots, left : SUBSET Slots, fire : Slots]

TypeOK ==
  /\ now \in 0..Horizon
  /\ row \in {"absent", "present", "deleted"} /\ enabled \in BOOLEAN
  /\ cron \in Crons \cup {None} /\ (row = "present" => cron # None)
  /\ cursor \in (Nat \ {0}) \cup {None}
  /\ runs \in [Slots -> RunStatus] /\ scans \in [Slots -> Nat]
  /\ pc \in [Actors -> {"idle", "record", "trigger", "start", "note", "fail", "advance"}]
  /\ plan \in [Actors -> Plans \cup {None}]
  /\ \A i \in Actors : pc[i] # "idle" => plan[i] \in Plans
  /\ edits \in 0..MaxEdits /\ faults \in 0..MaxFaults

\* UNIQUE (campaign_id, scheduled_for), and a row that is never taken back: no
\* occurrence is scanned twice by any number of instances that all believe they
\* lead and of users who run it now, whatever crashes between claim and cursor.
OneScanPerSlot == \A s \in Slots : scans[s] <= 1

\* RecordSkipped and ClaimRun race for the same rows: run history never says
\* skipped of an occurrence that was scanned.
SkipIsFinal == \A s \in Slots : runs[s] = "skipped" => scans[s] = 0

\* dispatch: "recorded, not dropped". The cursor moves past the occurrences of a
\* pass only when each of them has its row.
GapIsRecorded ==
  \A i \in Actors : pc[i] = "advance" /\ row = "present" =>
    \A s \in plan[i].missed : runs[s] # "none"

\* A pass is due and there is something it missed.
Overdue ==
  row = "present" /\ enabled /\ cursor # None /\ NextOccurrence(cron, cursor) <= now

\* A dispatch that failed or died leaves the cursor behind; the next tick finds
\* the occurrence claimed and moves on, so that no campaign stays stuck on it.
CatchesUp == Overdue ~> ~Overdue
=============================================================================
