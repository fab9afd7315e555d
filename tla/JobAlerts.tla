----------------------------- MODULE JobAlerts -----------------------------
(***************************************************************************)
(* Job alerts (job-openings.service.ts, job-alerts.service.ts,             *)
(* job-alerts-dispatch.service.ts): each ingest of job postings ends in an *)
(* event in memory, and its handler mails every alert the postings that it *)
(* matches and that were updated since its lastSentAt.                     *)
(*                                                                         *)
(* Times are only ever compared with an alert's lastSentAt, so that they   *)
(* are kept as what the comparison yields: fresh[a] are the postings that  *)
(* were updated since.  A digest compares with the lastSentAt that it read *)
(* with its batch, so that it has such a set of its own.                   *)
(*                                                                         *)
(* A job is one ingest request and the dispatch that its event starts; the *)
(* dispatch is cut at its awaits, and the tasks for its alerts interleave. *)
(* Left out: what a posting says, filters but for the postings they match, *)
(* names, tokens and mail bodies, members without an address, confirmation *)
(* mails, which neither read nor write lastSentAt, and batches: one batch  *)
(* stands for all.  Times that are equal to the millisecond are too.       *)
(***************************************************************************)
EXTENDS Naturals

CONSTANTS
  Postings, Alerts, Members,
  Owner,        \* the member of each alert
  Runs,         \* ids of ingest runs, which the client may name
  NoRun,
  Jobs,         \* ingests and their dispatches under way at once
  MaxFaults,    \* bound on dying pods, failing mails and queries
  Env           \* a subset of EnvFaults

EnvFaults ==
  {"raceingest",   \* postings are stored while digests go out
   "raceedit",     \* a member edits an alert while its digest is on its way
   "samerun"}      \* a run id is used again while its dispatch is under way

ASSUME JobAlertsAssumptions ==
  /\ Owner \in [Alerts -> Members]
  /\ NoRun \notin Runs
  /\ MaxFaults \in Nat
  /\ Env \subseteq EnvFaults

VARIABLES
  alert,
  fresh,     \* postings updated after lastSentAt, or createdAt
  sent,      \* JobAlertSendRun, as <<alert, run>>
  job,
  look,      \* what each job has of each alert
  owed,      \* history: postings an alert has matched and its owner not seen
  mailed,    \* history: digests of each alert in each run
  faults

vars == <<alert, fresh, sent, job, look, owed, mailed, faults>>

-----------------------------------------------------------------------------

TooMany == 2

Alert == [state : {"absent", "active", "deleted"}, wants : SUBSET Postings]

NoAlert == [state |-> "absent", wants |-> {}]

\* `changed` says that the job counted a posting as created or updated.
Job == [pc : {"idle", "upsert", "batch", "check", "mail"},
        run : Runs \cup {NoRun}, todo : SUBSET Postings, changed : BOOLEAN]

NoJob == [pc |-> "idle", run |-> NoRun, todo |-> {}, changed |-> FALSE]

\* Until the match `posts` are those updated since the lastSentAt that was
\* read, from then on those of them that were not updated again.
Look == [step : {"none", "match", "mail", "record", "stamp"},
         wants : SUBSET Postings, posts : SUBSET Postings]

NoLook == [step |-> "none", wants |-> {}, posts |-> {}]

\* An alert is stamped in a run after the run is on record.
TypeOK ==
  /\ alert \in [Alerts -> Alert]
  /\ fresh \in [Alerts -> SUBSET Postings]
  /\ sent \subseteq Alerts \X Runs
  /\ job \in [Jobs -> Job]
  /\ look \in [Jobs -> [Alerts -> Look]]
  /\ owed \in [Alerts -> SUBSET Postings]
  /\ mailed \in [Alerts -> [Runs -> 0 .. TooMany]]
  /\ faults \in 0 .. MaxFaults
  /\ \A g \in Jobs, a \in Alerts :
       look[g][a].step = "stamp" => <<a, job[g].run>> \in sent

Init ==
  /\ alert = [a \in Alerts |-> NoAlert]
  /\ fresh = [a \in Alerts |-> {}]
  /\ sent = {}
  /\ job = [g \in Jobs |-> NoJob]
  /\ look = [g \in Jobs |-> [a \in Alerts |-> NoLook]]
  /\ owed = [a \in Alerts |-> {}]
  /\ mailed = [a \in Alerts |-> [r \in Runs |-> 0]]
  /\ faults = 0

-----------------------------------------------------------------------------

Active(a) == alert[a].state = "active"

\* A dispatch has read its batch and is not over.
Digesting(g) == job[g].pc \in {"check", "mail"}

MayEdit(a) ==
  "raceedit" \in Env \/ \A g \in Jobs : Digesting(g) => look[g][a].step = "none"

More(n) == IF n < TooMany THEN n + 1 ELSE n

-----------------------------------------------------------------------------
(* Alerts.                                                                 *)

\* A unique index allows a member one active alert.
CreateAlert(a, wants) ==
  /\ alert[a].state = "absent"
  /\ \A b \in Alerts : Active(b) => Owner[b] # Owner[a]
  /\ alert' = [alert EXCEPT ![a] = [state |-> "active", wants |-> wants]]
  /\ fresh' = [fresh EXCEPT ![a] = {}]
  /\ UNCHANGED <<sent, job, look, owed, mailed, faults>>

\* What is fresh and matches the new filter is to be mailed; what was mailed
\* past before is not.
UpdateAlert(a, wants) ==
  /\ Active(a)
  /\ MayEdit(a)
  /\ alert' = [alert EXCEPT ![a].wants = wants]
  /\ owed' = [owed EXCEPT ![a] = (@ \cup fresh[a]) \cap wants]
  /\ UNCHANGED <<fresh, sent, job, look, mailed, faults>>

\* delete, and the unsubscribe link.
DeleteAlert(a) ==
  /\ Active(a)
  /\ alert' = [alert EXCEPT ![a].state = "deleted"]
  /\ owed' = [owed EXCEPT ![a] = {}]
  /\ UNCHANGED <<fresh, sent, job, look, mailed, faults>>

-----------------------------------------------------------------------------
(* ingestJobOpenings.                                                      *)

StartIngest(g, r, todo) ==
  /\ job[g].pc = "idle"
  /\ "samerun" \in Env \/ \A h \in Jobs : job[h].run # r
  /\ job' = [job EXCEPT ![g] = [NoJob EXCEPT !.pc = "upsert", !.run = r, !.todo = todo]]
  /\ UNCHANGED <<alert, fresh, sent, look, owed, mailed, faults>>

\* What the update of p makes of what a job has of an alert.
Touched(l, p) ==
  [l EXCEPT !.posts = IF l.step = "match" THEN @ \cup {p} ELSE @ \ {p}]

\* Every ingest of p refreshes its updatedAt.  The item is counted after a
\* query of its own, which may fail.
UpsertItem(g, p, counted) ==
  /\ job[g].pc = "upsert"
  /\ p \in job[g].todo
  /\ "raceingest" \in Env \/ \A h \in Jobs : ~Digesting(h)
  /\ counted \/ faults < MaxFaults
  /\ fresh' = [a \in Alerts |-> fresh[a] \cup {p}]
  /\ look' = [h \in Jobs |-> [a \in Alerts |-> Touched(look[h][a], p)]]
  /\ owed' = [a \in Alerts |->
       IF Active(a) /\ p \in alert[a].wants THEN owed[a] \cup {p} ELSE owed[a]]
  /\ job' = [job EXCEPT ![g].todo = @ \ {p}, ![g].changed = @ \/ counted]
  /\ faults' = IF counted THEN faults ELSE faults + 1
  /\ UNCHANGED <<alert, sent, mailed>>

\* The upsert fails, and the loop goes on.
FailItem(g, p) ==
  /\ job[g].pc = "upsert"
  /\ p \in job[g].todo
  /\ job' = [job EXCEPT ![g].todo = @ \ {p}]
  /\ UNCHANGED <<alert, fresh, sent, look, owed, mailed, faults>>

\* The event, and the first look of its handler.
Emit(g) ==
  /\ job[g].pc = "upsert"
  /\ job[g].todo = {}
  /\ job' = IF job[g].changed THEN [job EXCEPT ![g].pc = "batch"]
            ELSE [job EXCEPT ![g] = NoJob]
  /\ UNCHANGED <<alert, fresh, sent, look, owed, mailed, faults>>

-----------------------------------------------------------------------------
(* dispatch and processBatch.                                              *)

ReadBatch(g) ==
  /\ job[g].pc = "batch"
  /\ job' = [job EXCEPT ![g].pc = "check"]
  /\ look' = [look EXCEPT ![g] = [a \in Alerts |->
       IF Active(a) THEN [step |-> "match", wants |-> alert[a].wants, posts |-> fresh[a]]
       ELSE NoLook]]
  /\ UNCHANGED <<alert, fresh, sent, owed, mailed, faults>>

\* Any earlier run counts.
AlreadySent_Slip(g, a) == \E r \in Runs : <<a, r>> \in sent

\* No run counts.
AlreadySent_Slip2(g, a) == FALSE

\* getAlreadySentAlerts.
AlreadySent(g, a) == <<a, job[g].run>> \in sent

CheckSent(g) ==
  /\ job[g].pc = "check"
  /\ job' = [job EXCEPT ![g].pc = "mail"]
  /\ look' = [look EXCEPT ![g] = [a \in Alerts |->
       IF AlreadySent(g, a) THEN NoLook ELSE @[a]]]
  /\ UNCHANGED <<alert, fresh, sent, owed, mailed, faults>>

AtStep(g, a, step) == job[g].pc = "mail" /\ look[g][a].step = step

NextStep(g, a, step) == look' = [look EXCEPT ![g][a].step = step]

EndTask(g, a) == look' = [look EXCEPT ![g][a] = NoLook]

Found(g, a) == look[g][a].wants \cap look[g][a].posts

\* An alert without a match is not stamped.
Match(g, a) ==
  /\ AtStep(g, a, "match")
  /\ IF Found(g, a) = {} THEN EndTask(g, a) ELSE NextStep(g, a, "mail")
  /\ UNCHANGED <<alert, fresh, sent, job, owed, mailed, faults>>

Mail(g, a) ==
  /\ AtStep(g, a, "mail")
  /\ mailed' = [mailed EXCEPT ![a][job[g].run] = More(@)]
  /\ owed' = [owed EXCEPT ![a] = @ \ Found(g, a)]
  /\ NextStep(g, a, "record")
  /\ UNCHANGED <<alert, fresh, sent, job, faults>>

\* The mail fails, and the task goes on.
MailFails_Slip(g, a) ==
  /\ AtStep(g, a, "mail")
  /\ faults < MaxFaults
  /\ faults' = faults + 1
  /\ NextStep(g, a, "record")
  /\ UNCHANGED <<alert, fresh, sent, job, owed, mailed>>

MailFails(g, a) ==
  /\ AtStep(g, a, "mail")
  /\ faults < MaxFaults
  /\ faults' = faults + 1
  /\ EndTask(g, a)
  /\ UNCHANGED <<alert, fresh, sent, job, owed, mailed>>

\* The alert is stamped first.
Record_Slip(g, a) ==
  /\ AtStep(g, a, "record")
  /\ NextStep(g, a, "stamp")
  /\ UNCHANGED <<alert, fresh, sent, job, owed, mailed, faults>>

\* The unique index refuses a second row, which ends the task.
Record(g, a) ==
  /\ AtStep(g, a, "record")
  /\ IF AlreadySent(g, a) THEN EndTask(g, a) ELSE NextStep(g, a, "stamp")
  /\ sent' = sent \cup {<<a, job[g].run>>}
  /\ UNCHANGED <<alert, fresh, job, owed, mailed, faults>>

\* lastSentAt is the time of the stamp, not of the match.
Stamp(g, a) ==
  /\ AtStep(g, a, "stamp")
  /\ fresh' = [fresh EXCEPT ![a] = {}]
  /\ EndTask(g, a)
  /\ UNCHANGED <<alert, sent, job, owed, mailed, faults>>

EndDispatch(g) ==
  /\ job[g].pc = "mail"
  /\ \A a \in Alerts : look[g][a].step = "none"
  /\ job' = [job EXCEPT ![g] = NoJob]
  /\ UNCHANGED <<alert, fresh, sent, look, owed, mailed, faults>>

\* The pod dies, and the event with it.
Crash(g) ==
  /\ job[g].pc # "idle"
  /\ faults < MaxFaults
  /\ faults' = faults + 1
  /\ job' = [job EXCEPT ![g] = NoJob]
  /\ look' = [look EXCEPT ![g] = [a \in Alerts |-> NoLook]]
  /\ UNCHANGED <<alert, fresh, sent, owed, mailed>>

-----------------------------------------------------------------------------

AlertStep(a) ==
  \/ \E wants \in (SUBSET Postings) \ {{}} : CreateAlert(a, wants) \/ UpdateAlert(a, wants)
  \/ DeleteAlert(a)

TaskStep(g, a) ==
  Match(g, a) \/ Mail(g, a) \/ MailFails(g, a) \/ Record(g, a) \/ Stamp(g, a)

JobStep(g) ==
  \/ \E p \in Postings, counted \in BOOLEAN : UpsertItem(g, p, counted)
  \/ \E p \in Postings : FailItem(g, p)
  \/ Emit(g) \/ ReadBatch(g) \/ CheckSent(g) \/ EndDispatch(g)
  \/ \E a \in Alerts : TaskStep(g, a)

Next ==
  \/ \E a \in Alerts : AlertStep(a)
  \/ \E g \in Jobs, r \in Runs, todo \in (SUBSET Postings) \ {{}} :
       StartIngest(g, r, todo)
  \/ \E g \in Jobs : JobStep(g) \/ Crash(g)

Spec == Init /\ [][Next]_vars

\* An ingest that has begun goes on, and so does its dispatch.  Nobody has to
\* ingest, or to edit anything.
Fairness == \A g \in Jobs : WF_vars(JobStep(g))

FairSpec == Spec /\ Fairness

-----------------------------------------------------------------------------
(* Properties.                                                             *)

\* No posting is lost to an alert: one that its owner has not been mailed is
\* still newer than lastSentAt, so that the next dispatch finds it, also when
\* dispatches overlap, die halfway or cannot send.
NothingMissed == \A a \in Alerts : owed[a] \subseteq fresh[a]

\* A run that is sent again, after its first dispatch, mails nobody twice.
OncePerRun ==
  faults = 0 => \A a \in Alerts, r \in Runs : mailed[a][r] < TooMany

\* A job that has counted a posting has yet to read the alerts, in a run that
\* has not mailed this one.
Ahead(a) ==
  \E g \in Jobs : /\ job[g].pc \in {"upsert", "batch"} /\ job[g].changed
                  /\ <<a, job[g].run>> \notin sent

\* What an alert is owed, after earlier failures too, is mailed by the next
\* dispatch at the latest, unless that fails in its turn.
OwedMailed ==
  \A a \in Alerts, p \in Postings, n \in 0 .. MaxFaults :
    p \in owed[a] /\ Ahead(a) /\ faults = n ~> p \notin owed[a] \/ faults > n

=============================================================================
