---------------------- MODULE CampaignScheduler_proofs ----------------------
(***************************************************************************)
(* Proofs about CampaignScheduler, for any number of instances that all    *)
(* tick, any schedules and any number of edits, crashes and store errors.  *)
(***************************************************************************)
EXTENDS CampaignScheduler, TLAPS

USE CampaignAssumption
USE DEF TypeOK, RunStatus, Slots, Actors, Plans

(***************************************************************************)
(* Arithmetic of schedules                                                 *)
(***************************************************************************)
LEMMA ProductIsPositive ==
  ASSUME NEW a \in Nat \ {0}, NEW b \in Nat \ {0}
  PROVE  a * b \in Nat \ {0}
  OBVIOUS

\* An occurrence lies at a positive time.
LEMMA NextOccurrenceType ==
  ASSUME NEW c \in Crons, NEW t \in Nat
  PROVE  NextOccurrence(c, t) \in Nat \ {0}
<1>1. c \in Nat \ {0}
  OBVIOUS
<1>2. t \div c + 1 \in Nat \ {0}
  BY <1>1
<1> QED BY <1>1, <1>2, ProductIsPositive DEF NextOccurrence

\* CatchUp returns slots between the cursor and the clock.
LEMMA MissedType ==
  ASSUME TypeOK, cursor # None
  PROVE  Missed(cron, cursor, now) \subseteq Slots
  BY SMTT(60) DEF Missed

(***************************************************************************)
(* Types                                                                   *)
(***************************************************************************)
LEMMA TypeInit == Init => TypeOK
<1> SUFFICES ASSUME Init PROVE TypeOK
  OBVIOUS
<1>1. enabled \in BOOLEAN
  BY Zenon DEF Init
<1> QED BY <1>1 DEF Init

\* A due time a user's change computes has its type.
LEMMA FirstDueType ==
  ASSUME TypeOK, NEW c \in Crons, NEW on
  PROVE  FirstDue(c, on) \in (Nat \ {0}) \cup {None}
  BY NextOccurrenceType DEF FirstDue

LEMMA TypeStep ==
  ASSUME TypeOK, [Next]_vars
  PROVE  TypeOK'
<1> USE DEF campaignVars, Goto, Return, Proceed, InsertRun, SetRun
<1>1. CASE ClockAdvances
  BY <1>1 DEF ClockAdvances
<1>2. CASE Delete
  <2>1. enabled' \in BOOLEAN
    BY <1>2, Zenon DEF Delete
  <2> QED BY <1>2, <2>1 DEF Delete, Edit
<1>3. ASSUME NEW c \in Crons, NEW on \in BOOLEAN, Create(c, on) PROVE TypeOK'
  <2>1. enabled' \in BOOLEAN
    BY <1>3, Zenon DEF Create
  <2>2. cursor' \in (Nat \ {0}) \cup {None}
    BY <1>3, FirstDueType DEF Create
  <2> QED BY <1>3, <2>1, <2>2 DEF Create
<1>4. ASSUME NEW c \in Crons, Update(c) PROVE TypeOK'
  <2>1. cursor' \in (Nat \ {0}) \cup {None}
    BY <1>4, FirstDueType DEF Update
  <2> QED BY <1>4, <2>1 DEF Update, Edit
<1>5. ASSUME NEW on \in BOOLEAN, SetEnabled(on) PROVE TypeOK'
  <2>1. enabled' \in BOOLEAN
    BY <1>5, Zenon DEF SetEnabled
  <2>2. cron \in Crons
    BY <1>5 DEF SetEnabled, Edit
  <2>3. cursor' \in (Nat \ {0}) \cup {None}
    BY <1>5, <2>2, FirstDueType DEF SetEnabled
  <2> QED BY <1>5, <2>1, <2>3 DEF SetEnabled, Edit
<1>6. ASSUME NEW i \in Actors, Tick(i) PROVE TypeOK'
  <2>1. PICK fire \in Missed(cron, cursor, now) :
          plan' = [plan EXCEPT ![i] =
            [cron |-> cron, missed |-> Missed(cron, cursor, now),
             left |-> Missed(cron, cursor, now) \ {fire}, fire |-> fire]]
    BY <1>6 DEF Tick
  <2>2. Missed(cron, cursor, now) \subseteq Slots /\ cron \in Crons
    BY <1>6, MissedType DEF Tick
  <2>3. plan'[i] \in Plans
    BY <2>1, <2>2
  <2> QED BY <1>6, <2>1, <2>3 DEF Tick
<1>7. ASSUME NEW i \in Actors, NEW s \in Slots, RecordSkipped(i, s) PROVE TypeOK'
  <2>1. plan'[i] \in Plans
    BY <1>7, ZenonT(60) DEF RecordSkipped, Skip
  <2> QED BY <1>7, <2>1 DEF RecordSkipped, Skip
<1>8. ASSUME NEW i \in Actors, ClaimRun(i) PROVE TypeOK'
  BY <1>8, ZenonT(60) DEF ClaimRun
<1>9. ASSUME NEW i \in Actors, CampaignGone(i) \/ GiveUp(i) PROVE TypeOK'
  <2>1. CASE CampaignGone(i)
    BY <2>1 DEF CampaignGone
  <2>2. CASE GiveUp(i)
    <3>1. faults' \in 0..MaxFaults
      BY <2>2 DEF GiveUp
    <3> QED BY <2>2, <3>1 DEF GiveUp
  <2> QED BY <1>9, <2>1, <2>2
<1>10. ASSUME NEW i \in Actors, StartScans(i) PROVE TypeOK'
  <2>1. plan[i] \in Plans
    BY <1>10 DEF StartScans
  <2>2. plan[i].fire \in Slots
    BY <2>1
  <2>3. scans' \in [Slots -> Nat]
    BY <1>10, <2>2, SMTT(60) DEF StartScans
  <2>4. pc' \in [Actors -> {"idle", "record", "trigger", "start", "note", "fail", "advance"}]
    BY <1>10 DEF StartScans
  <2>5. \A k \in Actors : pc'[k] # "idle" => plan'[k] \in Plans
    BY <1>10, <2>1 DEF StartScans
  <2>6. UNCHANGED <<now, row, cron, enabled, cursor, runs, plan, edits, faults>>
    BY <1>10 DEF StartScans
  <2> QED BY <2>3, <2>4, <2>5, <2>6
<1>11. ASSUME NEW i \in Actors, StartRun(i) \/ FailRun(i) PROVE TypeOK'
  BY <1>11, ZenonT(60) DEF StartRun, FailRun
<1>12. ASSUME NEW i \in Actors, AdvanceCursor(i) PROVE TypeOK'
  <2>1. NextOccurrence(plan[i].cron, plan[i].fire) \in Nat \ {0}
    <3>1. plan[i] \in Plans
      BY <1>12 DEF AdvanceCursor
    <3>2. plan[i].cron \in Crons /\ plan[i].fire \in Nat
      BY <3>1
    <3> QED BY <3>2, NextOccurrenceType
  <2> QED BY <1>12, <2>1 DEF AdvanceCursor
<1>13. ASSUME NEW i \in Actors, RunNow(i) PROVE TypeOK'
  <2>1. plan'[i] \in Plans
    BY <1>13 DEF RunNow, Edit
  <2> QED BY <1>13, <2>1 DEF RunNow, Edit
<1>14. ASSUME NEW i \in Actors, NoteStarted(i) PROVE TypeOK'
  <2>1. runs' \in [Slots -> RunStatus]
    BY <1>14 DEF NoteStarted
  <2>2. faults' \in 0..MaxFaults
    BY <1>14 DEF NoteStarted
  <2> QED BY <1>14, <2>1, <2>2 DEF NoteStarted
<1>15. CASE UNCHANGED vars
  BY <1>15 DEF vars
<1> QED
  BY <1>1, <1>2, <1>3, <1>4, <1>5, <1>6, <1>7, <1>8, <1>9, <1>10, <1>11, <1>12, <1>13, <1>14, <1>15
  DEF Next, DispatchStep, RequestStep, RunStep

\* The campaign row, its runs and the plans of all instances keep their types.
THEOREM TypeCorrect == Spec => []TypeOK
<1>1. TypeOK /\ [Next]_vars => TypeOK'
  BY TypeStep
<1> QED BY TypeInit, <1>1, PTL DEF Spec

(***************************************************************************)
(* One scan per occurrence                                                 *)
(***************************************************************************)
\* The steps between winning a claim and writing the run's outcome.
Owning == {"trigger", "start", "note", "fail"}

\* An occurrence has one owner at most, whose run is open; one without a row
\* was not scanned, as long as the campaign is there to have rows.
ClaimInv ==
  /\ OneScanPerSlot
  /\ SkipIsFinal
  /\ row # "deleted" => \A s \in Slots : runs[s] = "none" => scans[s] = 0
  /\ row = "deleted" => \A s \in Slots : runs[s] = "none"
  /\ \A i \in Actors :
       /\ pc[i] # "idle" => row # "absent"
       /\ pc[i] = "trigger" => scans[plan[i].fire] = 0
       /\ pc[i] \in Owning =>
            /\ row = "present" => runs[plan[i].fire] \in {"pending", "running"}
            /\ \A j \in Actors :
                 pc[j] \in Owning /\ plan[j].fire = plan[i].fire => j = i

LEMMA ClaimInit == Init => ClaimInv
  BY DEF Init, ClaimInv, OneScanPerSlot, SkipIsFinal, Owning

LEMMA ClaimStep ==
  ASSUME TypeOK, ClaimInv, [Next]_vars
  PROVE  ClaimInv'
<1> USE DEF campaignVars, Goto, Return, Proceed, InsertRun, SetRun,
            ClaimInv, OneScanPerSlot, SkipIsFinal, Owning
<1>1. CASE ClockAdvances \/ UNCHANGED vars
  BY <1>1 DEF ClockAdvances, vars
<1>2. CASE Delete
  BY <1>2 DEF Delete, Edit
<1>3. ASSUME NEW c \in Crons, NEW on \in BOOLEAN, Create(c, on) PROVE ClaimInv'
  BY <1>3 DEF Create
<1>4. ASSUME NEW c \in Crons, NEW on \in BOOLEAN, Update(c) \/ SetEnabled(on) PROVE ClaimInv'
  BY <1>4 DEF Update, SetEnabled, Edit
<1>5. ASSUME NEW i \in Actors, Tick(i) PROVE ClaimInv'
  BY <1>5 DEF Tick
<1>6. ASSUME NEW i \in Actors, NEW s \in Slots, RecordSkipped(i, s) PROVE ClaimInv'
  BY <1>6 DEF RecordSkipped, Skip
<1>7. ASSUME NEW i \in Actors, ClaimRun(i) PROVE ClaimInv'
  BY <1>7, SMTT(60) DEF ClaimRun
<1>8. ASSUME NEW i \in Actors, CampaignGone(i) \/ GiveUp(i) PROVE ClaimInv'
  <2>1. UNCHANGED <<row, runs, scans>> /\ \A j \in Actors \ {i} : pc'[j] = pc[j] /\ plan'[j] = plan[j]
    BY <1>8 DEF CampaignGone, GiveUp
  <2>2. pc'[i] = "idle"
    BY <1>8 DEF CampaignGone, GiveUp
  <2> QED BY <2>1, <2>2, SMTT(60)
<1>9. ASSUME NEW i \in Actors, StartScans(i) PROVE ClaimInv'
  <2>1. plan[i] \in Plans /\ pc[i] = "trigger" /\ UNCHANGED <<row, runs, plan>>
    BY <1>9 DEF StartScans
  <2>2. plan[i].fire \in Slots /\ scans[plan[i].fire] = 0
    BY <2>1
  <2>3. /\ scans' = [scans EXCEPT ![plan[i].fire] = 1] \/ scans' = scans
        /\ \E l \in {"start", "note", "fail"} : pc' = [pc EXCEPT ![i] = l]
    BY <1>9, <2>2 DEF StartScans
  <2>4. row = "present" => runs[plan[i].fire] \in {"pending", "running"}
    BY <2>1
  <2>5. OneScanPerSlot' /\ SkipIsFinal'
    BY <2>1, <2>2, <2>3, <2>4, SMTT(60)
  <2>6. row' # "deleted" => \A s \in Slots : runs'[s] = "none" => scans'[s] = 0
    BY <2>1, <2>2, <2>3, <2>4
  <2>7. \A j \in Actors : pc'[j] = "trigger" => j # i /\ pc[j] = "trigger"
    BY <2>1, <2>3
  <2>8. \A j \in Actors : pc'[j] = "trigger" => scans'[plan'[j].fire] = 0
    BY <2>1, <2>2, <2>3, <2>7
  <2>9. \A j \in Actors : (pc'[j] \in Owning <=> pc[j] \in Owning) /\ (pc'[j] # "idle" <=> pc[j] # "idle")
    BY <2>1, <2>3
  <2> QED BY <2>1, <2>5, <2>6, <2>8, <2>9
<1>10. ASSUME NEW i \in Actors, StartRun(i) \/ FailRun(i) PROVE ClaimInv'
  <2>1. plan[i] \in Plans /\ pc[i] \in Owning
    BY <1>10 DEF StartRun, FailRun
  <2>2. plan[i].fire \in Slots
    BY <2>1
  <2>3. CASE StartRun(i)
    <3>1. /\ pc'[i] \in {"idle", "advance"} /\ UNCHANGED <<row, scans>>
          /\ \A j \in Actors \ {i} : pc'[j] = pc[j] /\ plan'[j] = plan[j]
      BY <2>1, <2>2, <2>3 DEF StartRun
    <3>2. runs' = IF row = "present" THEN [runs EXCEPT ![plan[i].fire] = "running"] ELSE runs
      BY <2>3 DEF StartRun
    <3>3. OneScanPerSlot' /\ SkipIsFinal'
      BY <2>2, <3>1, <3>2
    <3>4. /\ row' # "deleted" => \A s \in Slots : runs'[s] = "none" => scans'[s] = 0
          /\ row' = "deleted" => \A s \in Slots : runs'[s] = "none"
      BY <2>2, <3>1, <3>2
    <3>5. ASSUME NEW j \in Actors, pc'[j] \in Owning, row' = "present"
          PROVE  runs'[plan'[j].fire] \in {"pending", "running"}
      <4>1. j # i /\ plan[j].fire # plan[i].fire
        BY <2>1, <3>1, <3>5
      <4> QED BY <2>2, <3>1, <3>2, <3>5, <4>1
    <3>6. \A j \in Actors : pc'[j] = "trigger" => scans'[plan'[j].fire] = 0
      BY <3>1
    <3>7. \A j, k \in Actors :
            pc'[j] \in Owning /\ pc'[k] \in Owning /\ plan'[k].fire = plan'[j].fire => k = j
      <4>1. \A j \in Actors : pc'[j] \in Owning =>
              pc[j] \in Owning /\ plan'[j].fire = plan[j].fire
        BY <3>1
      <4>2. \A j, k \in Actors :
              pc[j] \in Owning /\ pc[k] \in Owning /\ plan[k].fire = plan[j].fire => k = j
        OBVIOUS
      <4> QED BY <4>1, <4>2
    <3> QED BY <2>1, <3>1, <3>3, <3>4, <3>5, <3>6, <3>7
  <2>4. CASE FailRun(i)
    BY <2>1, <2>2, <2>4 DEF FailRun
  <2> QED BY <1>10, <2>3, <2>4
<1>11. ASSUME NEW i \in Actors, AdvanceCursor(i) PROVE ClaimInv'
  BY <1>11 DEF AdvanceCursor
<1>12. ASSUME NEW i \in Actors, RunNow(i) PROVE ClaimInv'
  BY <1>12 DEF RunNow, Edit
<1>13. ASSUME NEW i \in Actors, NoteStarted(i) PROVE ClaimInv'
  <2>1. plan[i].fire \in Slots /\ pc[i] = "note" /\ UNCHANGED <<row, scans, plan>>
    <3>1. pc[i] = "note" /\ UNCHANGED <<row, scans, plan>>
      BY <1>13 DEF NoteStarted
    <3>2. plan[i] \in Plans
      BY <3>1
    <3> QED BY <3>1, <3>2
  <2>2. pc' = [pc EXCEPT ![i] = "fail"]
    BY <1>13 DEF NoteStarted
  <2>3. runs' = runs \/ (row = "present" /\ runs' = [runs EXCEPT ![plan[i].fire] = "running"])
    BY <1>13 DEF NoteStarted
  <2>4. row = "present" => runs[plan[i].fire] \in {"pending", "running"}
    BY <2>1
  <2>5. \A s \in Slots : runs'[s] = runs[s] \/ (runs[s] \in {"pending", "running"} /\ runs'[s] = "running" /\ row = "present")
    BY <2>1, <2>3, <2>4
  <2>6. OneScanPerSlot' /\ SkipIsFinal'
    BY <2>1, <2>5
  <2>7. /\ row' # "deleted" => \A s \in Slots : runs'[s] = "none" => scans'[s] = 0
        /\ row' = "deleted" => \A s \in Slots : runs'[s] = "none"
    BY <2>1, <2>5
  <2>8. \A j \in Actors : /\ pc'[j] \in Owning <=> pc[j] \in Owning
                          /\ pc'[j] # "idle" <=> pc[j] # "idle"
                          /\ pc'[j] = "trigger" => pc[j] = "trigger"
    BY <2>1, <2>2
  <2>9. \A j \in Actors : pc[j] \in Owning => plan[j].fire \in Slots
    OBVIOUS
  <2> QED BY <2>1, <2>5, <2>6, <2>7, <2>8, <2>9
<1> HIDE DEF ClaimInv
<1> QED
  BY <1>1, <1>2, <1>3, <1>4, <1>5, <1>6, <1>7, <1>8, <1>9, <1>10, <1>11, <1>12, <1>13
  DEF Next, DispatchStep, RequestStep, RunStep

LEMMA ClaimCorrect == Spec => [](TypeOK /\ ClaimInv)
<1>1. TypeOK /\ ClaimInv /\ [Next]_vars => TypeOK' /\ ClaimInv'
  BY TypeStep, ClaimStep
<1> QED BY TypeInit, ClaimInit, <1>1, PTL DEF Spec

\* Without the leader lock, and across crashes at any point, no occurrence is
\* scanned twice.
THEOREM NoDoubleFire == Spec => []OneScanPerSlot
<1>1. ClaimInv => OneScanPerSlot
  BY DEF ClaimInv
<1> QED BY ClaimCorrect, <1>1, PTL

\* Run history does not call an occurrence skipped that was scanned.
THEOREM SkippedMeansUnscanned == Spec => []SkipIsFinal
<1>1. ClaimInv => SkipIsFinal
  BY DEF ClaimInv
<1> QED BY ClaimCorrect, <1>1, PTL

(***************************************************************************)
(* No silent gap behind the cursor                                         *)
(***************************************************************************)
\* What an instance has worked off has a row.
ProgressInv ==
  \A i \in Actors : pc[i] # "idle" =>
    /\ row = "present" => \A s \in plan[i].missed :
         s \in plan[i].left \/ s = plan[i].fire \/ runs[s] # "none"
    /\ pc[i] # "record" =>
         plan[i].left = {} /\ (row = "present" => runs[plan[i].fire] # "none")

LEMMA ProgressInit == Init => ProgressInv
  BY DEF Init, ProgressInv

LEMMA ProgressStep ==
  ASSUME TypeOK, ClaimInv, ProgressInv, [Next]_vars
  PROVE  ProgressInv'
<1> USE DEF campaignVars, Goto, Return, Proceed, InsertRun, SetRun, ProgressInv
<1>1. CASE ClockAdvances \/ UNCHANGED vars
  BY <1>1 DEF ClockAdvances, vars
<1>2. CASE Delete
  BY <1>2 DEF Delete, Edit
<1>3. ASSUME NEW c \in Crons, NEW on \in BOOLEAN, Create(c, on) PROVE ProgressInv'
  BY <1>3 DEF Create, ClaimInv
<1>4. ASSUME NEW c \in Crons, NEW on \in BOOLEAN, Update(c) \/ SetEnabled(on) PROVE ProgressInv'
  BY <1>4 DEF Update, SetEnabled, Edit
<1>5. ASSUME NEW i \in Actors, Tick(i) PROVE ProgressInv'
  <2>1. PICK fire \in Missed(cron, cursor, now) :
          plan' = [plan EXCEPT ![i] =
            [cron |-> cron, missed |-> Missed(cron, cursor, now),
             left |-> Missed(cron, cursor, now) \ {fire}, fire |-> fire]]
    BY <1>5 DEF Tick
  <2> QED BY <1>5, <2>1 DEF Tick
<1>6. ASSUME NEW i \in Actors, NEW s \in Slots, RecordSkipped(i, s) PROVE ProgressInv'
  BY <1>6, SMTT(60) DEF RecordSkipped, Skip
<1>7. ASSUME NEW i \in Actors, ClaimRun(i) PROVE ProgressInv'
  <2>1. plan[i] \in Plans /\ plan[i].left = {} /\ row' = row /\ row = "present"
    BY <1>7 DEF ClaimRun
  <2>2. plan[i].fire \in Slots
    BY <2>1
  <2>3. \A s \in Slots : runs[s] # "none" => runs'[s] # "none"
    BY <1>7 DEF ClaimRun
  <2>4. runs'[plan[i].fire] # "none"
    BY <1>7, <2>2 DEF ClaimRun
  <2>5. \A j \in Actors \ {i} : pc'[j] = pc[j] /\ plan'[j] = plan[j]
    BY <1>7 DEF ClaimRun
  <2>6. pc'[i] = "idle" \/ plan'[i] = plan[i]
    BY <1>7 DEF ClaimRun
  <2>7. \A j \in Actors : pc'[j] # "idle" => plan'[j] = plan[j] /\ plan[j] \in Plans /\ pc[j] # "idle"
    BY <1>7, <2>5, <2>6 DEF ClaimRun
  <2>8. ASSUME NEW j \in Actors, pc'[j] # "idle", NEW s \in plan'[j].missed
        PROVE  s \in plan'[j].left \/ s = plan'[j].fire \/ runs'[s] # "none"
    BY <2>1, <2>3, <2>7, <2>8
  <2>9. ASSUME NEW j \in Actors, pc'[j] \notin {"idle", "record"}
        PROVE  plan'[j].left = {} /\ runs'[plan'[j].fire] # "none"
    <3>1. CASE j = i
      BY <2>1, <2>4, <2>7, <2>9, <3>1
    <3>2. CASE j # i
      BY <2>1, <2>3, <2>5, <2>7, <2>9, <3>2
    <3> QED BY <3>1, <3>2
  <2> QED BY <2>8, <2>9
<1>8. ASSUME NEW i \in Actors, CampaignGone(i) \/ GiveUp(i) PROVE ProgressInv'
  BY <1>8 DEF CampaignGone, GiveUp
<1>9. ASSUME NEW i \in Actors, StartScans(i) PROVE ProgressInv'
  BY <1>9, ZenonT(60) DEF StartScans
<1>10. ASSUME NEW i \in Actors, StartRun(i) \/ FailRun(i) PROVE ProgressInv'
  <2>1. plan[i] \in Plans /\ pc[i] \notin {"idle", "record"} /\ row' = row
    BY <1>10 DEF StartRun, FailRun
  <2>2. plan[i].fire \in Slots
    BY <2>1
  <2>3. \A s \in Slots : runs[s] # "none" => runs'[s] # "none"
    BY <1>10, <2>2 DEF StartRun, FailRun
  <2>4. \A j \in Actors \ {i} : pc'[j] = pc[j] /\ plan'[j] = plan[j]
    BY <1>10 DEF StartRun, FailRun
  <2>5. pc'[i] = "idle" \/ plan'[i] = plan[i]
    BY <1>10 DEF StartRun, FailRun
  <2> QED BY <2>1, <2>2, <2>3, <2>4, <2>5, SMTT(60)
<1>11. ASSUME NEW i \in Actors, AdvanceCursor(i) PROVE ProgressInv'
  BY <1>11 DEF AdvanceCursor
<1>12. ASSUME NEW i \in Actors, RunNow(i) PROVE ProgressInv'
  BY <1>12 DEF RunNow, Edit
<1>13. ASSUME NEW i \in Actors, NoteStarted(i) PROVE ProgressInv'
  <2>1. plan[i].fire \in Slots
    BY <1>13 DEF NoteStarted
  <2> QED BY <1>13, <2>1, ZenonT(60) DEF NoteStarted
<1> QED
  BY <1>1, <1>2, <1>3, <1>4, <1>5, <1>6, <1>7, <1>8, <1>9, <1>10, <1>11, <1>12, <1>13
  DEF Next, DispatchStep, RequestStep, RunStep

\* An instance about to advance the cursor leaves no missed occurrence without a
\* row, also those it did not record itself.
THEOREM NothingDropped == Spec => []GapIsRecorded
<1>1. TypeOK /\ ClaimInv /\ ProgressInv /\ [Next]_vars => TypeOK' /\ ClaimInv' /\ ProgressInv'
  BY TypeStep, ClaimStep, ProgressStep
<1>2. ProgressInv => GapIsRecorded
  BY DEF ProgressInv, GapIsRecorded
<1> QED BY TypeInit, ClaimInit, ProgressInit, <1>1, <1>2, PTL DEF Spec
=============================================================================
