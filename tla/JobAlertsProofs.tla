-------------------------- MODULE JobAlertsProofs --------------------------
(***************************************************************************)
(* Proofs about JobAlerts, for any number of postings, alerts, runs and    *)
(* jobs: its types, that no posting is lost to an alert, and that a run    *)
(* mails an alert once.                                                    *)
(***************************************************************************)
EXTENDS JobAlerts, TLAPS

\* Where a job is, and where its tasks can be then.
Steps ==
  \A g \in Jobs :
    /\ job[g].pc # "idle" => job[g].run \in Runs
    /\ \A a \in Alerts :
         /\ look[g][a].step # "none" => Digesting(g)
         /\ job[g].pc = "check" => look[g][a].step \in {"none", "match"}
         /\ look[g][a].step = "stamp" => <<a, job[g].run>> \in sent

Base == TypeOK /\ Steps

LEMMA Nothing == /\ NoJob \in Job /\ NoJob.pc = "idle"
                 /\ NoLook \in Look /\ NoLook.step = "none"
<1>1. NoJob \in Job /\ NoJob.pc = "idle"
  BY DEF NoJob, Job
<1>2. NoLook \in Look /\ NoLook.step = "none"
  BY DEF NoLook, Look
<1>. QED BY <1>1, <1>2

\* A task's next step keeps what Base says of tasks.
LEMMA TaskFrame ==
  ASSUME Base, NEW g \in Jobs, NEW a \in Alerts, NEW r \in Look,
         job[g].pc = "mail", sent \subseteq sent', job' = job,
         r.step = "stamp" => <<a, job[g].run>> \in sent',
         look' = [look EXCEPT ![g][a] = r]
  PROVE  look' \in [Jobs -> [Alerts -> Look]] /\ Steps'
<1>1. look \in [Jobs -> [Alerts -> Look]] /\ look' \in [Jobs -> [Alerts -> Look]]
  BY DEF Base, TypeOK
<1>2. \A h \in Jobs, b \in Alerts :
        look'[h][b] = IF h = g /\ b = a THEN r ELSE look[h][b]
  BY <1>1
<1>. QED BY <1>1, <1>2 DEF Base, TypeOK, Steps, Digesting

LEMMA NextStepKeeps ==
  ASSUME Base, NEW g \in Jobs, NEW a \in Alerts,
         NEW step \in {"none", "match", "mail", "record", "stamp"},
         job[g].pc = "mail", sent \subseteq sent', job' = job,
         step = "stamp" => <<a, job[g].run>> \in sent',
         NextStep(g, a, step)
  PROVE  look' \in [Jobs -> [Alerts -> Look]] /\ Steps'
<1>. DEFINE r == [look[g][a] EXCEPT !.step = step]
<1>1. look[g][a] \in Look
  BY DEF Base, TypeOK
<1>2. r \in Look /\ r.step = step
  BY <1>1 DEF Look
<1>3. look' = [look EXCEPT ![g][a] = r]
  BY DEF NextStep, Base, TypeOK
<1>. HIDE DEF r
<1>. QED BY <1>2, <1>3, TaskFrame

LEMMA EndTaskKeeps ==
  ASSUME Base, NEW g \in Jobs, NEW a \in Alerts,
         job[g].pc = "mail", sent \subseteq sent', job' = job, EndTask(g, a)
  PROVE  look' \in [Jobs -> [Alerts -> Look]] /\ Steps'
  BY Nothing, TaskFrame DEF EndTask

\* A job whose tasks are none or over may go anywhere.
LEMMA JobFrame ==
  ASSUME Base, NEW g \in Jobs, NEW j \in Job,
         \A a \in Alerts : look[g][a].step = "none",
         j.pc # "idle" => j.run \in Runs,
         job' = [job EXCEPT ![g] = j], UNCHANGED <<look, sent>>
  PROVE  job' \in [Jobs -> Job] /\ Steps'
<1>1. job \in [Jobs -> Job] /\ job' \in [Jobs -> Job]
  BY DEF Base, TypeOK
<1>2. \A h \in Jobs : job'[h] = IF h = g THEN j ELSE job[h]
  BY <1>1
<1>. QED BY <1>1, <1>2 DEF Base, Steps, Digesting

LEMMA IdleTasks ==
  ASSUME Base, NEW g \in Jobs, ~Digesting(g)
  PROVE  \A a \in Alerts : look[g][a].step = "none"
  BY DEF Base, Steps

-----------------------------------------------------------------------------

LEMMA BaseInit == Init => Base
<1>. SUFFICES ASSUME Init PROVE Base
  OBVIOUS
<1>1. NoAlert \in Alert
  BY DEF NoAlert, Alert
<1>2. \A r \in Runs : 0 \in 0 .. TooMany
  BY DEF TooMany
<1>. QED BY <1>1, <1>2, Nothing, JobAlertsAssumptions DEF Init, Base, TypeOK, Steps

LEMMA AlertStepKeepsBase ==
  ASSUME Base, NEW a \in Alerts, AlertStep(a)
  PROVE  Base'
<1>1. \A wants \in SUBSET Postings :
        /\ [state |-> "active", wants |-> wants] \in Alert
        /\ [alert[a] EXCEPT !.wants = wants] \in Alert
  BY DEF Base, TypeOK, Alert
<1>2. [alert[a] EXCEPT !.state = "deleted"] \in Alert
  BY DEF Base, TypeOK, Alert
<1>3. ASSUME NEW wants \in SUBSET Postings, CreateAlert(a, wants) PROVE Base'
  BY <1>1, <1>3 DEF CreateAlert, Base, TypeOK, Steps, Digesting
<1>4. ASSUME NEW wants \in SUBSET Postings, UpdateAlert(a, wants) PROVE Base'
  <2>1. alert' \in [Alerts -> Alert]
    BY <1>1, <1>4 DEF UpdateAlert, Base, TypeOK
  <2>. QED BY <2>1, <1>4 DEF UpdateAlert, Base, TypeOK, Steps, Digesting
<1>5. CASE DeleteAlert(a)
  <2>1. alert' \in [Alerts -> Alert]
    BY <1>2, <1>5 DEF DeleteAlert, Base, TypeOK
  <2>. QED BY <2>1, <1>5 DEF DeleteAlert, Base, TypeOK, Steps, Digesting
<1>. QED BY <1>3, <1>4, <1>5 DEF AlertStep

LEMMA TaskStepKeepsBase ==
  ASSUME Base, NEW g \in Jobs, NEW a \in Alerts, TaskStep(g, a)
  PROVE  Base'
<1>1. CASE Match(g, a)
  <2>1. look' \in [Jobs -> [Alerts -> Look]] /\ Steps'
    BY <1>1, NextStepKeeps, EndTaskKeeps DEF Match, AtStep
  <2>. QED BY <1>1, <2>1 DEF Match, Base, TypeOK, Steps
<1>2. CASE Mail(g, a)
  <2>1. look' \in [Jobs -> [Alerts -> Look]] /\ Steps'
    BY <1>2, NextStepKeeps DEF Mail, AtStep
  <2>2. mailed' \in [Alerts -> [Runs -> 0 .. TooMany]]
    <3>1. \A n \in 0 .. TooMany : More(n) \in 0 .. TooMany
      BY DEF More, TooMany
    <3>. QED BY <1>2, <3>1 DEF Mail, Base, TypeOK
  <2>. QED BY <1>2, <2>1, <2>2 DEF Mail, Base, TypeOK, Steps
<1>3. CASE MailFails(g, a)
  <2>1. look' \in [Jobs -> [Alerts -> Look]] /\ Steps'
    BY <1>3, EndTaskKeeps DEF MailFails, AtStep
  <2>2. faults' \in 0 .. MaxFaults
    BY <1>3, JobAlertsAssumptions DEF MailFails, Base, TypeOK
  <2>. QED BY <1>3, <2>1, <2>2 DEF MailFails, Base, TypeOK, Steps
<1>4. CASE Record(g, a)
  <2>1. sent \subseteq sent' /\ <<a, job[g].run>> \in sent'
        /\ sent' \subseteq Alerts \X Runs
    BY <1>4 DEF Record, AtStep, Base, TypeOK, Steps
  <2>2. look' \in [Jobs -> [Alerts -> Look]] /\ Steps'
    BY <1>4, <2>1, NextStepKeeps, EndTaskKeeps DEF Record, AtStep
  <2>. QED BY <1>4, <2>1, <2>2 DEF Record, Base, TypeOK, Steps
<1>5. CASE Stamp(g, a)
  <2>1. look' \in [Jobs -> [Alerts -> Look]] /\ Steps'
    BY <1>5, EndTaskKeeps DEF Stamp, AtStep
  <2>. QED BY <1>5, <2>1 DEF Stamp, Base, TypeOK, Steps
<1>. QED BY <1>1, <1>2, <1>3, <1>4, <1>5 DEF TaskStep

LEMMA UpsertKeepsBase ==
  ASSUME Base, NEW g \in Jobs, NEW p \in Postings, NEW counted \in BOOLEAN,
         UpsertItem(g, p, counted)
  PROVE  Base'
<1>. DEFINE j == [job[g] EXCEPT !.todo = @ \ {p}, !.changed = @ \/ counted]
<1>1. /\ job[g] \in Job /\ look \in [Jobs -> [Alerts -> Look]]
      /\ job[g].pc = "upsert" /\ p \in Postings
  BY DEF UpsertItem, Base, TypeOK
<1>2. j \in Job /\ j.pc = "upsert" /\ j.run = job[g].run
  BY <1>1 DEF Job
<1>3. job' = [job EXCEPT ![g] = j]
  BY DEF UpsertItem, Base, TypeOK
<1>. HIDE DEF j
<1>4. /\ job' \in [Jobs -> Job]
      /\ \A h \in Jobs : job'[h].pc = job[h].pc /\ job'[h].run = job[h].run
  BY <1>1, <1>2, <1>3 DEF Base, TypeOK
<1>5. \A l \in Look : Touched(l, p) \in Look /\ Touched(l, p).step = l.step
  <2>1. ASSUME NEW l \in Look PROVE Touched(l, p) \in Look /\ Touched(l, p).step = l.step
    <3>1. l.posts \cup {p} \in SUBSET Postings /\ l.posts \ {p} \in SUBSET Postings
      BY DEF Look
    <3>. QED BY <3>1 DEF Look, Touched
  <2>. QED BY <2>1
<1>6. /\ look' \in [Jobs -> [Alerts -> Look]]
      /\ \A h \in Jobs, a \in Alerts : look'[h][a].step = look[h][a].step
  BY <1>1, <1>5 DEF UpsertItem
<1>7. Steps'
  <2>1. sent' = sent
    BY DEF UpsertItem
  <2>2. \A h \in Jobs : Digesting(h)' <=> Digesting(h)
    BY <1>4 DEF Digesting
  <2>. SUFFICES ASSUME NEW h \in Jobs, NEW a \in Alerts
       PROVE  /\ job'[h].pc # "idle" => job'[h].run \in Runs
              /\ look'[h][a].step # "none" => Digesting(h)'
              /\ job'[h].pc = "check" => look'[h][a].step \in {"none", "match"}
              /\ look'[h][a].step = "stamp" => <<a, job'[h].run>> \in sent'
    BY <1>4 DEF Steps, Base
  <2>. QED BY <1>4, <1>6, <2>1, <2>2 DEF Base, Steps
<1>8. /\ fresh' \in [Alerts -> SUBSET Postings] /\ owed' \in [Alerts -> SUBSET Postings]
      /\ faults' \in 0 .. MaxFaults
  BY JobAlertsAssumptions DEF UpsertItem, Base, TypeOK
<1>. QED BY <1>4, <1>6, <1>7, <1>8 DEF UpsertItem, Base, TypeOK, Steps

LEMMA JobStepKeepsBase ==
  ASSUME Base, NEW g \in Jobs, JobStep(g)
  PROVE  Base'
<1>0. job[g] \in Job /\ (job[g].pc # "idle" => job[g].run \in Runs)
  BY DEF Base, TypeOK, Steps
<1>1. ASSUME NEW p \in Postings, NEW counted \in BOOLEAN, UpsertItem(g, p, counted)
      PROVE  Base'
  BY <1>1, UpsertKeepsBase
<1>2. ASSUME NEW p \in Postings, FailItem(g, p) PROVE Base'
  <2>. DEFINE j == [job[g] EXCEPT !.todo = @ \ {p}]
  <2>1. j \in Job /\ (j.pc # "idle" => j.run \in Runs)
    BY <1>0 DEF Job
  <2>2. job' = [job EXCEPT ![g] = j] /\ ~Digesting(g)
    BY <1>2 DEF FailItem, Digesting, Base, TypeOK
  <2>. HIDE DEF j
  <2>3. job' \in [Jobs -> Job] /\ Steps'
    BY <1>2, <2>1, <2>2, IdleTasks, JobFrame DEF FailItem
  <2>. QED BY <1>2, <2>3 DEF FailItem, Base, TypeOK, Steps
<1>3. CASE Emit(g)
  <2>. DEFINE j == IF job[g].changed THEN [job[g] EXCEPT !.pc = "batch"] ELSE NoJob
  <2>1. j \in Job /\ (j.pc # "idle" => j.run \in Runs)
    BY <1>0, <1>3, Nothing DEF Emit, Job
  <2>2. job' = [job EXCEPT ![g] = j] /\ ~Digesting(g)
    BY <1>3 DEF Emit, Digesting, Base, TypeOK
  <2>. HIDE DEF j
  <2>3. job' \in [Jobs -> Job] /\ Steps'
    BY <1>3, <2>1, <2>2, IdleTasks, JobFrame DEF Emit
  <2>. QED BY <1>3, <2>3 DEF Emit, Base, TypeOK, Steps
<1>4. CASE ReadBatch(g)
  <2>. DEFINE batch == [a \in Alerts |->
         IF Active(a) THEN [step |-> "match", wants |-> alert[a].wants, posts |-> fresh[a]]
         ELSE NoLook]
  <2>1. ASSUME NEW a \in Alerts
        PROVE  batch[a] \in Look /\ batch[a].step \in {"none", "match"}
    <3>1. alert[a].wants \in SUBSET Postings /\ fresh[a] \in SUBSET Postings
      BY DEF Base, TypeOK, Alert
    <3>. QED BY <3>1, Nothing DEF Look
  <2>2. batch \in [Alerts -> Look] /\ look' = [look EXCEPT ![g] = batch]
    BY <1>4, <2>1 DEF ReadBatch
  <2>. HIDE DEF batch
  <2>3. /\ job' \in [Jobs -> Job] /\ job'[g].pc = "check" /\ job'[g].run = job[g].run
        /\ \A h \in Jobs : h # g => job'[h] = job[h]
    BY <1>0, <1>4 DEF ReadBatch, Base, TypeOK, Job
  <2>4. /\ look' \in [Jobs -> [Alerts -> Look]] /\ look'[g] = batch
        /\ \A h \in Jobs : h # g => look'[h] = look[h]
    BY <2>2 DEF Base, TypeOK
  <2>5. Steps'
    BY <1>0, <1>4, <2>1, <2>3, <2>4 DEF ReadBatch, Base, Steps, Digesting
  <2>. QED BY <1>4, <2>3, <2>4, <2>5 DEF ReadBatch, Base, TypeOK, Steps
<1>5. CASE CheckSent(g)
  <2>. DEFINE left == [a \in Alerts |-> IF AlreadySent(g, a) THEN NoLook ELSE look[g][a]]
  <2>1. ASSUME NEW a \in Alerts
        PROVE  left[a] \in Look /\ left[a].step \in {"none", "match"}
    BY <1>5, Nothing DEF CheckSent, Base, TypeOK, Steps
  <2>2. left \in [Alerts -> Look] /\ look' = [look EXCEPT ![g] = left]
    BY <1>5, <2>1 DEF CheckSent, Base, TypeOK
  <2>. HIDE DEF left
  <2>3. /\ job' \in [Jobs -> Job] /\ job'[g].pc = "mail" /\ job'[g].run = job[g].run
        /\ \A h \in Jobs : h # g => job'[h] = job[h]
    BY <1>0, <1>5 DEF CheckSent, Base, TypeOK, Job
  <2>4. /\ look' \in [Jobs -> [Alerts -> Look]] /\ look'[g] = left
        /\ \A h \in Jobs : h # g => look'[h] = look[h]
    BY <2>2 DEF Base, TypeOK
  <2>5. Steps'
    BY <1>0, <1>5, <2>1, <2>3, <2>4 DEF CheckSent, Base, Steps, Digesting
  <2>. QED BY <1>5, <2>3, <2>4, <2>5 DEF CheckSent, Base, TypeOK, Steps
<1>6. CASE EndDispatch(g)
  <2>1. job' \in [Jobs -> Job] /\ Steps'
    BY <1>6, Nothing, JobFrame DEF EndDispatch
  <2>. QED BY <1>6, <2>1 DEF EndDispatch, Base, TypeOK, Steps
<1>7. ASSUME NEW a \in Alerts, TaskStep(g, a) PROVE Base'
  BY <1>7, TaskStepKeepsBase
<1>. QED BY <1>1, <1>2, <1>3, <1>4, <1>5, <1>6, <1>7 DEF JobStep

LEMMA CrashKeepsBase ==
  ASSUME Base, NEW g \in Jobs, Crash(g)
  PROVE  Base'
<1>1. /\ job' \in [Jobs -> Job] /\ job'[g] = NoJob
      /\ \A h \in Jobs : h # g => job'[h] = job[h]
  BY Nothing DEF Crash, Base, TypeOK
<1>2. /\ look' \in [Jobs -> [Alerts -> Look]] /\ \A a \in Alerts : look'[g][a] = NoLook
      /\ \A h \in Jobs : h # g => look'[h] = look[h]
  BY Nothing DEF Crash, Base, TypeOK
<1>3. Steps' /\ faults' \in 0 .. MaxFaults
  BY <1>1, <1>2, Nothing, JobAlertsAssumptions
     DEF Crash, Base, TypeOK, Steps, Digesting
<1>. QED BY <1>1, <1>2, <1>3 DEF Crash, Base, TypeOK, Steps

LEMMA BaseNext == Base /\ [Next]_vars => Base'
<1>. SUFFICES ASSUME Base, [Next]_vars PROVE Base'
  OBVIOUS
<1>1. ASSUME NEW a \in Alerts, AlertStep(a) PROVE Base'
  BY <1>1, AlertStepKeepsBase
<1>2. ASSUME NEW g \in Jobs, NEW r \in Runs, NEW todo \in (SUBSET Postings) \ {{}},
             StartIngest(g, r, todo)
      PROVE  Base'
  <2>. DEFINE j == [NoJob EXCEPT !.pc = "upsert", !.run = r, !.todo = todo]
  <2>1. j \in Job /\ j.run \in Runs
    BY DEF Job, NoJob
  <2>2. job' = [job EXCEPT ![g] = j] /\ ~Digesting(g)
    BY <1>2 DEF StartIngest, Digesting
  <2>. HIDE DEF j
  <2>3. job' \in [Jobs -> Job] /\ Steps'
    BY <1>2, <2>1, <2>2, IdleTasks, JobFrame DEF StartIngest
  <2>. QED BY <1>2, <2>3 DEF StartIngest, Base, TypeOK, Steps
<1>3. ASSUME NEW g \in Jobs, JobStep(g) PROVE Base'
  BY <1>3, JobStepKeepsBase
<1>4. ASSUME NEW g \in Jobs, Crash(g) PROVE Base'
  BY <1>4, CrashKeepsBase
<1>5. CASE UNCHANGED vars
  BY <1>5 DEF vars, Base, TypeOK, Steps, Digesting
<1>. QED BY <1>1, <1>2, <1>3, <1>4, <1>5 DEF Next

LEMMA BaseHolds == Spec => []Base
  BY BaseInit, BaseNext, PTL DEF Spec

\* Alerts, jobs and their tasks stay in their types, and no alert is stamped
\* before its run is on record (job-alerts-dispatch.service.ts processBatch),
\* with every race allowed.
THEOREM AlertsTypeCorrect == Spec => []TypeOK
  BY BaseHolds, PTL DEF Base

-----------------------------------------------------------------------------
(* No posting is lost.                                                     *)

\* What an alert is owed is in the hands of every task that has read it.
InHand(g, a) ==
  /\ look[g][a].step \in {"match", "mail"} => owed[a] \subseteq Found(g, a)
  /\ look[g][a].step \in {"record", "stamp"} => owed[a] = {}

MissInv ==
  /\ NothingMissed
  /\ \A a \in Alerts : /\ owed[a] \subseteq alert[a].wants
                       /\ ~Active(a) => owed[a] = {}
  /\ \A g \in Jobs, a \in Alerts : InHand(g, a)

Calm == "raceingest" \notin Env /\ "raceedit" \notin Env

\* A step that leaves an alert alone, but that it is owed less, keeps the rest.
LEMMA MissFrame ==
  ASSUME Base, MissInv, UNCHANGED <<alert, fresh, look>>,
         \A a \in Alerts : owed'[a] \subseteq owed[a]
  PROVE  MissInv'
  BY DEF MissInv, NothingMissed, Active, InHand, Found

LEMMA MissInit == Init => MissInv
  BY Nothing DEF Init, MissInv, NothingMissed, InHand, NoAlert, Active

LEMMA MissAlert ==
  ASSUME Calm, Base, MissInv, NEW a \in Alerts, AlertStep(a)
  PROVE  MissInv'
<1>0. alert \in [Alerts -> Alert]
  BY DEF Base, TypeOK
<1>1. ASSUME NEW wants \in SUBSET Postings, CreateAlert(a, wants) PROVE MissInv'
  <2>1. owed[a] = {}
    BY <1>1 DEF MissInv, CreateAlert, Active
  <2>2. /\ alert'[a] = [state |-> "active", wants |-> wants] /\ fresh'[a] = {}
        /\ \A b \in Alerts : b # a => alert'[b] = alert[b] /\ fresh'[b] = fresh[b]
        /\ owed' = owed /\ look' = look
    BY <1>0, <1>1 DEF CreateAlert, Base, TypeOK
  <2>3. \A b \in Alerts : /\ owed'[b] \subseteq fresh'[b] /\ owed'[b] \subseteq alert'[b].wants
                          /\ alert'[b].state # "active" => owed'[b] = {}
    BY <2>1, <2>2 DEF MissInv, NothingMissed, Active
  <2>. QED BY <2>2, <2>3 DEF MissInv, NothingMissed, Active, InHand, Found
<1>2. ASSUME NEW wants \in SUBSET Postings, UpdateAlert(a, wants) PROVE MissInv'
  <2>1. \A g \in Jobs : look[g][a].step = "none"
    BY <1>2 DEF UpdateAlert, MayEdit, Calm, Base, Steps
  <2>2. /\ alert'[a].wants = wants /\ alert'[a].state = "active"
        /\ \A b \in Alerts : b # a => alert'[b] = alert[b]
    <3>1. alert[a] \in Alert /\ alert[a].state = "active"
          /\ alert' = [alert EXCEPT ![a].wants = wants]
      BY <1>0, <1>2 DEF UpdateAlert, Active
    <3>. QED BY <1>0, <3>1 DEF Alert
  <2>3. /\ owed'[a] = (owed[a] \cup fresh[a]) \cap wants
        /\ \A b \in Alerts : b # a => owed'[b] = owed[b]
        /\ fresh' = fresh /\ look' = look
    BY <1>2 DEF UpdateAlert, Base, TypeOK
  <2>. QED BY <2>1, <2>2, <2>3 DEF MissInv, NothingMissed, Active, InHand, Found
<1>3. CASE DeleteAlert(a)
  <2>1. /\ owed'[a] = {} /\ \A b \in Alerts : b # a => owed'[b] = owed[b] /\ alert'[b] = alert[b]
        /\ fresh' = fresh /\ look' = look
    BY <1>0, <1>3 DEF DeleteAlert, Base, TypeOK
  <2>. QED BY <2>1 DEF MissInv, NothingMissed, Active, InHand, Found
<1>. QED BY <1>1, <1>2, <1>3 DEF AlertStep

LEMMA MissUpsert ==
  ASSUME Calm, Base, MissInv, NEW g \in Jobs, NEW p \in Postings, NEW counted \in BOOLEAN,
         UpsertItem(g, p, counted)
  PROVE  MissInv'
<1>1. \A h \in Jobs, a \in Alerts : look[h][a].step = "none"
  BY DEF UpsertItem, Calm, Base, Steps
<1>2. \A h \in Jobs, a \in Alerts : look'[h][a].step = "none"
  <2>1. \A l \in Look : Touched(l, p).step = l.step
    BY DEF Look, Touched
  <2>. QED BY <1>1, <2>1 DEF UpsertItem, Base, TypeOK
<1>3. \A a \in Alerts :
        /\ fresh'[a] = fresh[a] \cup {p} /\ alert'[a] = alert[a]
        /\ owed'[a] = IF Active(a) /\ p \in alert[a].wants THEN owed[a] \cup {p} ELSE owed[a]
  BY DEF UpsertItem
<1>. QED BY <1>2, <1>3 DEF MissInv, NothingMissed, Active, InHand

LEMMA MissTask ==
  ASSUME Base, MissInv, NEW g \in Jobs, NEW a \in Alerts, TaskStep(g, a)
  PROVE  MissInv'
<1>0. look \in [Jobs -> [Alerts -> Look]] /\ look[g][a] \in Look
  BY DEF Base, TypeOK
<1>1. ASSUME NEW step \in {"none", "match", "mail", "record", "stamp"}, NextStep(g, a, step)
      PROVE  /\ look'[g][a].step = step /\ look'[g][a].wants = look[g][a].wants
             /\ look'[g][a].posts = look[g][a].posts
             /\ \A h \in Jobs, b \in Alerts : h # g \/ b # a => look'[h][b] = look[h][b]
  BY <1>0, <1>1 DEF NextStep, Look
<1>2. ASSUME EndTask(g, a)
      PROVE  /\ look'[g][a].step = "none"
             /\ \A h \in Jobs, b \in Alerts : h # g \/ b # a => look'[h][b] = look[h][b]
  BY <1>0, <1>2, Nothing DEF EndTask
<1>3. CASE Match(g, a)
  <2>1. UNCHANGED <<alert, fresh, owed>> /\ look[g][a].step = "match"
        /\ (EndTask(g, a) \/ NextStep(g, a, "mail"))
    BY <1>3 DEF Match, AtStep
  <2>. QED BY <1>1, <1>2, <2>1 DEF MissInv, NothingMissed, Active, InHand, Found
<1>4. CASE Mail(g, a)
  <2>1. /\ UNCHANGED <<alert, fresh>> /\ look[g][a].step = "mail" /\ NextStep(g, a, "record")
        /\ owed'[a] = owed[a] \ Found(g, a) /\ \A b \in Alerts : b # a => owed'[b] = owed[b]
    BY <1>4 DEF Mail, AtStep, Base, TypeOK
  <2>2. owed'[a] = {}
    BY <2>1 DEF MissInv, InHand
  <2>. QED BY <1>1, <2>1, <2>2 DEF MissInv, NothingMissed, Active, InHand, Found
<1>5. CASE MailFails(g, a)
  <2>1. UNCHANGED <<alert, fresh, owed>> /\ EndTask(g, a)
    BY <1>5 DEF MailFails
  <2>. QED BY <1>2, <2>1 DEF MissInv, NothingMissed, Active, InHand, Found
<1>6. CASE Record(g, a)
  <2>1. UNCHANGED <<alert, fresh, owed>> /\ look[g][a].step = "record"
        /\ (EndTask(g, a) \/ NextStep(g, a, "stamp"))
    BY <1>6 DEF Record, AtStep
  <2>. QED BY <1>1, <1>2, <2>1 DEF MissInv, NothingMissed, Active, InHand, Found
<1>7. CASE Stamp(g, a)
  <2>1. /\ UNCHANGED <<alert, owed>> /\ look[g][a].step = "stamp" /\ EndTask(g, a)
        /\ fresh'[a] = {} /\ \A b \in Alerts : b # a => fresh'[b] = fresh[b]
    BY <1>7 DEF Stamp, AtStep, Base, TypeOK
  <2>2. owed[a] = {}
    BY <2>1 DEF MissInv, InHand
  <2>. QED BY <1>2, <2>1, <2>2 DEF MissInv, NothingMissed, Active, InHand, Found
<1>. QED BY <1>3, <1>4, <1>5, <1>6, <1>7 DEF TaskStep

LEMMA MissJob ==
  ASSUME Calm, Base, MissInv, NEW g \in Jobs, JobStep(g) \/ Crash(g)
  PROVE  MissInv'
<1>0. look \in [Jobs -> [Alerts -> Look]]
  BY DEF Base, TypeOK
<1>1. ASSUME NEW p \in Postings, NEW counted \in BOOLEAN, UpsertItem(g, p, counted)
      PROVE  MissInv'
  BY <1>1, MissUpsert
<1>2. CASE (\E p \in Postings : FailItem(g, p)) \/ Emit(g) \/ EndDispatch(g)
  BY <1>2, MissFrame DEF FailItem, Emit, EndDispatch
<1>3. CASE ReadBatch(g)
  <2>1. \A a \in Alerts : look'[g][a] =
          IF Active(a) THEN [step |-> "match", wants |-> alert[a].wants, posts |-> fresh[a]]
          ELSE NoLook
    BY <1>0, <1>3 DEF ReadBatch
  <2>2. /\ UNCHANGED <<alert, fresh, owed>>
        /\ \A h \in Jobs : h # g => look'[h] = look[h]
    BY <1>0, <1>3 DEF ReadBatch
  <2>3. ASSUME NEW a \in Alerts PROVE InHand(g, a)'
    <3>1. CASE Active(a)
      <4>1. look'[g][a].step = "match" /\ look'[g][a].wants = alert[a].wants
            /\ look'[g][a].posts = fresh[a]
        <5>1. look'[g][a] = [step |-> "match", wants |-> alert[a].wants, posts |-> fresh[a]]
          BY <3>1, <2>1
        <5>. QED BY <5>1
      <4>2. owed'[a] \subseteq alert[a].wants \cap fresh[a]
        BY <2>2 DEF MissInv, NothingMissed
      <4>. QED BY <4>1, <4>2 DEF InHand, Found
    <3>2. CASE ~Active(a)
      BY <3>2, <2>1, Nothing DEF InHand
    <3>. QED BY <3>1, <3>2
  <2>. QED BY <2>2, <2>3 DEF MissInv, NothingMissed, Active, InHand, Found
<1>4. CASE CheckSent(g)
  <2>1. \A a \in Alerts : look'[g][a] = IF AlreadySent(g, a) THEN NoLook ELSE look[g][a]
    BY <1>0, <1>4 DEF CheckSent
  <2>2. /\ UNCHANGED <<alert, fresh, owed>>
        /\ \A h \in Jobs : h # g => look'[h] = look[h]
    BY <1>0, <1>4 DEF CheckSent
  <2>3. ASSUME NEW a \in Alerts PROVE InHand(g, a)'
    BY <2>1, <2>2, Nothing DEF MissInv, InHand, Found
  <2>. QED BY <2>2, <2>3 DEF MissInv, NothingMissed, Active, InHand, Found
<1>5. ASSUME NEW a \in Alerts, TaskStep(g, a) PROVE MissInv'
  BY <1>5, MissTask
<1>6. CASE Crash(g)
  <2>1. /\ \A a \in Alerts : look'[g][a] = NoLook
        /\ UNCHANGED <<alert, fresh, owed>>
        /\ \A h \in Jobs : h # g => look'[h] = look[h]
    BY <1>0, <1>6 DEF Crash
  <2>. QED BY <2>1, Nothing DEF MissInv, NothingMissed, Active, InHand, Found
<1>. QED BY <1>1, <1>2, <1>3, <1>4, <1>5, <1>6 DEF JobStep

LEMMA MissNext == Calm /\ Base /\ MissInv /\ [Next]_vars => MissInv'
<1>. SUFFICES ASSUME Calm, Base, MissInv, [Next]_vars PROVE MissInv'
  OBVIOUS
<1>1. ASSUME NEW a \in Alerts, AlertStep(a) PROVE MissInv'
  BY <1>1, MissAlert
<1>2. ASSUME NEW g \in Jobs, NEW r \in Runs, NEW todo \in (SUBSET Postings) \ {{}},
             StartIngest(g, r, todo)
      PROVE  MissInv'
  BY <1>2, MissFrame DEF StartIngest
<1>3. ASSUME NEW g \in Jobs, JobStep(g) \/ Crash(g) PROVE MissInv'
  BY <1>3, MissJob
<1>4. CASE UNCHANGED vars
  BY <1>4, MissFrame DEF vars
<1>. QED BY <1>1, <1>2, <1>3, <1>4 DEF Next

\* No posting is lost to an alert by overlapping dispatches, dying pods or
\* failing mails (job-alerts-dispatch.service.ts processBatch), unless postings
\* are stored, or the alert edited, between a dispatch's reading and its stamp.
THEOREM NothingIsMissed ==
  ASSUME "raceingest" \notin Env, "raceedit" \notin Env
  PROVE  Spec => []NothingMissed
<1>. Calm
  BY DEF Calm
<1>1. Spec => []MissInv
  BY MissInit, MissNext, BaseHolds, PTL DEF Spec
<1>. QED BY <1>1, PTL DEF MissInv

-----------------------------------------------------------------------------
(* A run mails an alert once.                                              *)

\* Where a run that has mailed an alert has left its mark.
Marked(a, r) ==
  \/ <<a, r>> \in sent
  \/ \E g \in Jobs : job[g].run = r /\ look[g][a].step = "record"

\* A task that may still mail its alert has not done so.
OnceInv ==
  \A a \in Alerts :
    /\ \A r \in Runs : mailed[a][r] = 0 \/ (mailed[a][r] = 1 /\ Marked(a, r))
    /\ \A g \in Jobs : job[g].pc = "mail" /\ look[g][a].step \in {"match", "mail"} =>
         mailed[a][job[g].run] = 0

\* Jobs have runs of their own.
OwnRuns ==
  \A g, h \in Jobs : g # h /\ job[g].run \in Runs => job[g].run # job[h].run

OnceHolds == OwnRuns /\ (faults = 0 => OnceInv)

LEMMA OnceInit == Init => OnceHolds
  BY Nothing, JobAlertsAssumptions
     DEF Init, OnceHolds, OwnRuns, OnceInv, NoJob

\* Only an ingest that starts takes a run, and one that nobody has.
LEMMA OwnRunsNext ==
  ASSUME "samerun" \notin Env, Base, OwnRuns, [Next]_vars
  PROVE  OwnRuns'
<1>0. job \in [Jobs -> Job] /\ NoJob.run \notin Runs
  BY JobAlertsAssumptions DEF Base, TypeOK, NoJob
<1>1. ASSUME NEW g \in Jobs, NEW j, job' = [job EXCEPT ![g] = j],
             j.run = job[g].run \/ j.run \notin Runs
      PROVE  OwnRuns'
  BY <1>0, <1>1 DEF OwnRuns
<1>2. ASSUME NEW g \in Jobs, NEW r \in Runs, NEW todo \in SUBSET Postings,
             StartIngest(g, r, todo)
      PROVE  OwnRuns'
  <2>. DEFINE j == [NoJob EXCEPT !.pc = "upsert", !.run = r, !.todo = todo]
  <2>1. j.run = r /\ job' = [job EXCEPT ![g] = j] /\ \A h \in Jobs : job[h].run # r
    BY <1>2 DEF StartIngest, NoJob
  <2>. HIDE DEF j
  <2>. QED BY <1>0, <2>1 DEF OwnRuns
<1>3. ASSUME NEW g \in Jobs, JobStep(g) \/ Crash(g) PROVE OwnRuns'
  <2>0. job[g] \in Job
    BY <1>0
  <2>1. ASSUME NEW p \in Postings, NEW counted \in BOOLEAN,
               UpsertItem(g, p, counted)
        PROVE  OwnRuns'
    <3>. DEFINE j == [job[g] EXCEPT !.todo = @ \ {p}, !.changed = @ \/ counted]
    <3>1. j.run = job[g].run
      BY <2>0 DEF Job
    <3>2. job' = [job EXCEPT ![g] = j]
      BY <1>0, <2>1 DEF UpsertItem
    <3>. HIDE DEF j
    <3>. QED BY <1>1, <3>1, <3>2
  <2>2. ASSUME NEW p \in Postings, FailItem(g, p) PROVE OwnRuns'
    <3>. DEFINE j == [job[g] EXCEPT !.todo = @ \ {p}]
    <3>1. j.run = job[g].run /\ job' = [job EXCEPT ![g] = j]
      BY <1>0, <2>0, <2>2 DEF FailItem, Job
    <3>. QED BY <1>1, <3>1
  <2>3. ASSUME NEW pc \in {"batch", "check", "mail"}, job' = [job EXCEPT ![g].pc = pc]
        PROVE  OwnRuns'
    <3>. DEFINE j == [job[g] EXCEPT !.pc = pc]
    <3>1. j.run = job[g].run /\ job' = [job EXCEPT ![g] = j]
      BY <1>0, <2>0, <2>3 DEF Job
    <3>. QED BY <1>1, <3>1
  <2>4. CASE job' = [job EXCEPT ![g] = NoJob]
    BY <2>4, <1>0, <1>1
  <2>5. CASE job' = job
    BY <2>5 DEF OwnRuns
  <2>6. CASE Emit(g)
    BY <2>6, <2>3, <2>4 DEF Emit
  <2>7. CASE ReadBatch(g)
    BY <2>7, <2>3 DEF ReadBatch
  <2>8. CASE CheckSent(g)
    BY <2>8, <2>3 DEF CheckSent
  <2>9. ASSUME NEW a \in Alerts, TaskStep(g, a) PROVE OwnRuns'
    BY <2>9, <2>5 DEF TaskStep, Match, Mail, MailFails, Record, Stamp
  <2>. QED BY <1>3, <2>1, <2>2, <2>4, <2>6, <2>7, <2>8, <2>9 DEF JobStep, EndDispatch, Crash
<1>4. CASE job' = job
  BY <1>4 DEF OwnRuns
<1>. QED BY <1>2, <1>3, <1>4 DEF Next, AlertStep, CreateAlert, UpdateAlert, DeleteAlert, vars

\* A step that mails nobody keeps the marks if every task that holds one goes
\* on holding it, or puts it on record, and no task begins that may mail twice.
LEMMA OnceFrame ==
  ASSUME Base, OnceInv, mailed' = mailed, sent \subseteq sent',
         \A h \in Jobs, a \in Alerts : look[h][a].step = "record" =>
           \/ job'[h].run = job[h].run /\ look'[h][a].step = "record"
           \/ <<a, job[h].run>> \in sent',
         \A h \in Jobs, a \in Alerts :
           job'[h].pc = "mail" /\ look'[h][a].step \in {"match", "mail"} =>
             \/ /\ job[h].pc = "mail" /\ look[h][a].step \in {"match", "mail"}
                /\ job'[h].run = job[h].run
             \/ mailed[a][job'[h].run] = 0
  PROVE  OnceInv'
<1>1. \A a \in Alerts, r \in Runs : Marked(a, r) => Marked(a, r)'
  BY DEF Marked
<1>. QED BY <1>1 DEF OnceInv

LEMMA OnceTask ==
  ASSUME Base, OwnRuns, OnceInv, faults = 0, faults' = 0,
         NEW g \in Jobs, NEW a \in Alerts, TaskStep(g, a)
  PROVE  OnceInv'
<1>0. /\ look \in [Jobs -> [Alerts -> Look]] /\ look[g][a] \in Look
      /\ job[g].pc = "mail" => job[g].run \in Runs
  BY DEF Base, TypeOK, Steps
<1>1. ASSUME NEW step \in {"none", "match", "mail", "record", "stamp"}, NextStep(g, a, step)
      PROVE  /\ look'[g][a].step = step
             /\ \A h \in Jobs, b \in Alerts : h # g \/ b # a => look'[h][b] = look[h][b]
  BY <1>0, <1>1 DEF NextStep, Look
<1>2. ASSUME EndTask(g, a)
      PROVE  /\ look'[g][a].step = "none"
             /\ \A h \in Jobs, b \in Alerts : h # g \/ b # a => look'[h][b] = look[h][b]
  BY <1>0, <1>2, Nothing DEF EndTask
<1>3. CASE Match(g, a)
  <2>1. UNCHANGED <<job, mailed, sent>> /\ look[g][a].step = "match"
        /\ (EndTask(g, a) \/ NextStep(g, a, "mail"))
    BY <1>3 DEF Match, AtStep
  <2>. QED BY <1>1, <1>2, <2>1, OnceFrame
<1>4. CASE Mail(g, a)
  <2>0. PICK run \in Runs : run = job[g].run
    BY <1>0, <1>4 DEF Mail, AtStep
  <2>1. /\ UNCHANGED <<job, sent>> /\ look[g][a].step = "mail" /\ job[g].pc = "mail"
        /\ NextStep(g, a, "record")
        /\ mailed' = [mailed EXCEPT ![a][run] = More(@)]
    BY <1>0, <1>4, <2>0 DEF Mail, AtStep
  <2>2. mailed[a][run] = 0
    BY <2>0, <2>1 DEF OnceInv
  <2>3. /\ mailed'[a][run] = 1
        /\ \A b \in Alerts, r \in Runs : b # a \/ r # run => mailed'[b][r] = mailed[b][r]
    BY <2>1, <2>2 DEF Base, TypeOK, More, TooMany
  <2>4. Marked(a, run)'
    BY <1>1, <2>0, <2>1 DEF Marked
  <2>5. \A b \in Alerts, r \in Runs : Marked(b, r) => Marked(b, r)'
    BY <1>1, <2>1 DEF Marked
  <2>6. ASSUME NEW b \in Alerts, NEW r \in Runs
        PROVE  mailed'[b][r] = 0 \/ (mailed'[b][r] = 1 /\ Marked(b, r)')
    <3>1. CASE b = a /\ r = run
      BY <2>3, <2>4, <3>1
    <3>2. CASE b # a \/ r # run
      BY <2>3, <2>5, <3>2 DEF OnceInv
    <3>. QED BY <3>1, <3>2
  <2>7. ASSUME NEW b \in Alerts, NEW h \in Jobs, job'[h].pc = "mail",
               look'[h][b].step \in {"match", "mail"}
        PROVE  mailed'[b][job'[h].run] = 0
    <3>1. job'[h] = job[h] /\ job[h].run \in Runs /\ (h = g => b # a)
      BY <1>1, <2>1, <2>7 DEF Base, Steps
    <3>2. look'[h][b] = look[h][b] /\ (b # a \/ job[h].run # run)
      BY <1>1, <2>0, <2>1, <3>1 DEF OwnRuns
    <3>. QED BY <2>3, <2>7, <3>1, <3>2 DEF OnceInv
  <2>. QED BY <2>6, <2>7 DEF OnceInv
<1>5. ~MailFails(g, a)
  BY DEF MailFails
<1>6. CASE Record(g, a)
  <2>1. UNCHANGED <<job, mailed>> /\ look[g][a].step = "record"
        /\ (EndTask(g, a) \/ NextStep(g, a, "stamp"))
        /\ sent \subseteq sent' /\ <<a, job[g].run>> \in sent'
    BY <1>6 DEF Record, AtStep
  <2>. QED BY <1>1, <1>2, <2>1, OnceFrame
<1>7. CASE Stamp(g, a)
  <2>1. UNCHANGED <<job, mailed, sent>> /\ look[g][a].step = "stamp" /\ EndTask(g, a)
    BY <1>7 DEF Stamp, AtStep
  <2>. QED BY <1>2, <2>1, OnceFrame
<1>. QED BY <1>3, <1>4, <1>5, <1>6, <1>7 DEF TaskStep

\* A job whose tasks are none or over may go anywhere.
LEMMA OnceRest ==
  ASSUME Base, OnceInv, NEW g \in Jobs, NEW j,
         \A a \in Alerts : look[g][a].step = "none",
         job' = [job EXCEPT ![g] = j], UNCHANGED <<look, mailed, sent>>
  PROVE  OnceInv'
<1>1. \A h \in Jobs : h # g => job'[h] = job[h]
  BY DEF Base, TypeOK
<1>. QED BY <1>1, OnceFrame

LEMMA OnceJob ==
  ASSUME Base, OwnRuns, OnceInv, faults = 0, faults' = 0,
         NEW g \in Jobs, JobStep(g)
  PROVE  OnceInv'
<1>0. /\ job \in [Jobs -> Job] /\ job[g] \in Job
      /\ look \in [Jobs -> [Alerts -> Look]]
  BY DEF Base, TypeOK
<1>1. ASSUME NEW p \in Postings, NEW counted \in BOOLEAN, UpsertItem(g, p, counted)
      PROVE  OnceInv'
  <2>. DEFINE j == [job[g] EXCEPT !.todo = @ \ {p}, !.changed = @ \/ counted]
  <2>1. j.pc = job[g].pc /\ j.run = job[g].run
    BY <1>0 DEF Job
  <2>2. job' = [job EXCEPT ![g] = j] /\ UNCHANGED <<mailed, sent>>
    BY <1>0, <1>1 DEF UpsertItem
  <2>. HIDE DEF j
  <2>3. \A h \in Jobs : job'[h].pc = job[h].pc /\ job'[h].run = job[h].run
    BY <1>0, <2>1, <2>2
  <2>4. \A h \in Jobs, a \in Alerts : look'[h][a].step = look[h][a].step
    <3>1. \A l \in Look : Touched(l, p).step = l.step
      BY DEF Look, Touched
    <3>. QED BY <1>0, <1>1, <3>1 DEF UpsertItem
  <2>. QED BY <2>2, <2>3, <2>4, OnceFrame
<1>2. ASSUME NEW p \in Postings, FailItem(g, p) PROVE OnceInv'
  <2>. DEFINE j == [job[g] EXCEPT !.todo = @ \ {p}]
  <2>1. job' = [job EXCEPT ![g] = j] /\ UNCHANGED <<look, mailed, sent>> /\ ~Digesting(g)
    BY <1>0, <1>2 DEF FailItem, Digesting
  <2>. HIDE DEF j
  <2>. QED BY <2>1, IdleTasks, OnceRest
<1>3. CASE Emit(g)
  <2>. DEFINE j == IF job[g].changed THEN [job[g] EXCEPT !.pc = "batch"] ELSE NoJob
  <2>1. job' = [job EXCEPT ![g] = j] /\ UNCHANGED <<look, mailed, sent>> /\ ~Digesting(g)
    BY <1>0, <1>3 DEF Emit, Digesting
  <2>. HIDE DEF j
  <2>. QED BY <2>1, IdleTasks, OnceRest
<1>4. CASE ReadBatch(g)
  <2>1. /\ job'[g].pc = "check" /\ \A h \in Jobs : h # g => job'[h] = job[h]
        /\ \A h \in Jobs : h # g => look'[h] = look[h]
        /\ UNCHANGED <<mailed, sent>> /\ ~Digesting(g)
    BY <1>0, <1>4 DEF ReadBatch, Digesting, Job
  <2>2. \A a \in Alerts : look[g][a].step = "none"
    BY <2>1, IdleTasks
  <2>. QED BY <2>1, <2>2, OnceFrame
<1>5. CASE CheckSent(g)
  <2>1. /\ job'[g].pc = "mail" /\ job'[g].run = job[g].run /\ job[g].run \in Runs
        /\ \A h \in Jobs : h # g => job'[h] = job[h]
        /\ \A h \in Jobs : h # g => look'[h] = look[h]
        /\ UNCHANGED <<mailed, sent>> /\ job[g].pc = "check"
    BY <1>0, <1>5 DEF CheckSent, Job, Base, Steps
  <2>2. \A a \in Alerts : look[g][a].step \in {"none", "match"}
    BY <2>1 DEF Base, Steps
  <2>3. \A a \in Alerts : look'[g][a] = IF AlreadySent(g, a) THEN NoLook ELSE look[g][a]
    BY <1>0, <1>5 DEF CheckSent
  <2>4. ASSUME NEW a \in Alerts, look'[g][a].step \in {"match", "mail"}
        PROVE  mailed[a][job[g].run] = 0
    <3>1. <<a, job[g].run>> \notin sent
      BY <2>3, <2>4, Nothing DEF AlreadySent
    <3>2. \A h \in Jobs : job[h].run = job[g].run => look[h][a].step # "record"
      BY <2>1, <2>2 DEF OwnRuns
    <3>3. ~Marked(a, job[g].run)
      BY <3>1, <3>2 DEF Marked
    <3>. QED BY <2>1, <3>3 DEF OnceInv
  <2>. QED BY <2>1, <2>2, <2>4, OnceFrame
<1>6. CASE EndDispatch(g)
  BY <1>6, OnceRest DEF EndDispatch
<1>7. ASSUME NEW a \in Alerts, TaskStep(g, a) PROVE OnceInv'
  BY <1>7, OnceTask
<1>. QED BY <1>1, <1>2, <1>3, <1>4, <1>5, <1>6, <1>7 DEF JobStep

LEMMA OnceNext == "samerun" \notin Env /\ Base /\ OnceHolds /\ [Next]_vars => OnceHolds'
<1>. SUFFICES ASSUME "samerun" \notin Env, Base, OnceHolds, [Next]_vars
     PROVE  OnceHolds'
  OBVIOUS
<1>0. OwnRuns /\ OwnRuns'
  BY OwnRunsNext DEF OnceHolds
<1>. SUFFICES ASSUME faults' = 0 PROVE OnceInv'
  BY <1>0 DEF OnceHolds
<1>1. ASSUME NEW g \in Jobs, Crash(g) PROVE FALSE
  BY <1>1 DEF Crash, Base, TypeOK
<1>2. faults = 0
  <2>1. faults \in Nat
    BY DEF Base, TypeOK
  <2>2. ASSUME NEW a \in Alerts, AlertStep(a) PROVE faults' = faults
    BY <2>2 DEF AlertStep, CreateAlert, UpdateAlert, DeleteAlert
  <2>3. ASSUME NEW g \in Jobs, NEW a \in Alerts, TaskStep(g, a)
        PROVE  faults' = faults \/ faults' = faults + 1
    BY <2>3 DEF TaskStep, Match, Mail, MailFails, Record, Stamp
  <2>4. ASSUME NEW g \in Jobs, NEW p \in Postings, NEW counted \in BOOLEAN,
               UpsertItem(g, p, counted) \/ FailItem(g, p)
        PROVE  faults' = faults \/ faults' = faults + 1
    BY <2>4 DEF UpsertItem, FailItem
  <2>5. ASSUME NEW g \in Jobs, Emit(g) \/ ReadBatch(g) \/ CheckSent(g) \/ EndDispatch(g)
        PROVE  faults' = faults
    BY <2>5 DEF Emit, ReadBatch, CheckSent, EndDispatch
  <2>6. ASSUME NEW g \in Jobs, JobStep(g) PROVE faults' = faults \/ faults' = faults + 1
    BY <2>3, <2>4, <2>5, <2>6 DEF JobStep
  <2>7. ASSUME NEW g \in Jobs, NEW r \in Runs, NEW todo \in (SUBSET Postings) \ {{}},
               StartIngest(g, r, todo)
        PROVE  faults' = faults
    BY <2>7 DEF StartIngest
  <2>8. CASE UNCHANGED vars
    BY <2>8 DEF vars
  <2>9. faults' = faults \/ faults' = faults + 1
    BY <1>1, <2>2, <2>6, <2>7, <2>8 DEF Next
  <2>. QED BY <2>1, <2>9
<1>3. OnceInv
  BY <1>2 DEF OnceHolds
<1>4. ASSUME NEW g \in Jobs, JobStep(g) PROVE OnceInv'
  BY <1>0, <1>2, <1>3, <1>4, OnceJob
<1>5. ASSUME NEW g \in Jobs, NEW r \in Runs, NEW todo \in (SUBSET Postings) \ {{}},
             StartIngest(g, r, todo)
      PROVE  OnceInv'
  <2>. DEFINE j == [NoJob EXCEPT !.pc = "upsert", !.run = r, !.todo = todo]
  <2>1. job' = [job EXCEPT ![g] = j] /\ UNCHANGED <<look, mailed, sent>> /\ ~Digesting(g)
    BY <1>5 DEF StartIngest, Digesting
  <2>. HIDE DEF j
  <2>. QED BY <1>3, <2>1, IdleTasks, OnceRest
<1>6. CASE UNCHANGED <<job, look, mailed, sent>>
  BY <1>3, <1>6, OnceFrame
<1>. QED BY <1>1, <1>4, <1>5, <1>6
     DEF Next, AlertStep, CreateAlert, UpdateAlert, DeleteAlert, vars

\* Without faults a run mails an alert once, also when its ingest is sent again
\* (job-alerts-dispatch.service.ts getAlreadySentAlerts), as long as two
\* dispatches of one run do not overlap.
THEOREM RunsMailOnce ==
  ASSUME "samerun" \notin Env
  PROVE  Spec => []OncePerRun
<1>1. OnceHolds => OncePerRun
  BY DEF OnceHolds, OnceInv, OncePerRun, TooMany
<1>2. Spec => []OnceHolds
  BY OnceInit, OnceNext, BaseHolds, PTL DEF Spec
<1>. QED BY <1>1, <1>2, PTL

=============================================================================
