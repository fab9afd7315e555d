--------------------------- MODULE TeamEnrichment ---------------------------
(***************************************************************************)
(* The enrichment of one team (team-enrichment.service.ts and              *)
(* team-enrichment-judge.service.ts): jobs and administrators fill         *)
(* candidate columns of its TeamEnrichment row, a judge promotes verified  *)
(* candidates to the Team row, and users edit the Team row meanwhile.      *)
(*                                                                         *)
(* The row's dataEnrichment is one JSON document.  Every writer but the    *)
(* two stale resets reads the whole document, changes its copy and writes  *)
(* the whole copy back, often after minutes of calls to AI and scraping    *)
(* services.  A process is cut at those awaits: `seen` is what it loaded   *)
(* first, `latest` a document it read again.                               *)
(*                                                                         *)
(* A value on Team is "user" when a person wrote it and "ai" when it was   *)
(* promoted; "junk" is text that fails the field's shape check.            *)
(*                                                                         *)
(* The two cron slots run for ever, with the background run of one tick    *)
(* over before the next; a request runs once.  `aged` says that the row's  *)
(* updatedAt is further back than the stuck TTL.                           *)
(*                                                                         *)
(* Left out: confidences, sources, notes and costs; tags, logo images and  *)
(* the founding year; Stage 3 recovery and the nulling of a dead LinkedIn  *)
(* handle, so that Fields stands for the scalar fields those never touch;  *)
(* the eligibility filter, which selects teams and not steps.              *)
(***************************************************************************)
EXTENDS Naturals

CONSTANTS
  Fields,         \* enrichable scalar fields
  UserJudgable,   \* the fields whose user value is judged too
  Requests,       \* one-shot calls: of administrators, leads and other flows
  EnrichCron, JudgeCron,
  MaxCrashes,     \* bound on processes that die with their pod
  Env             \* a subset of EnvFaults

EnvFaults ==
  {"raceedit",     \* people edit the team while jobs run
   "slowrun",      \* a run or a judgment outlives the stuck TTL
   "pendinglogo"}  \* a logo refetch is asked for while the team is pending

ASSUME EnrichmentAssumptions ==
  /\ UserJudgable \subseteq Fields
  /\ {EnrichCron, JudgeCron} \cap Requests = {}
  /\ EnrichCron # JudgeCron
  /\ MaxCrashes \in Nat
  /\ Env \subseteq EnvFaults

Procs == Requests \cup {EnrichCron, JudgeCron}

VARIABLES
  doc,      \* dataEnrichment, with status "none" while the team has no row
  cand,     \* fields with a candidate in the row's own columns
  team,     \* what each field holds on Team
  aged,
  task,
  crashes

vars == <<doc, cand, team, aged, task, crashes>>

-----------------------------------------------------------------------------

Statuses == {"none", "PendingEnrichment", "InProgress", "Enriched",
             "FailedToEnrich", "Reviewed", "Approved"}

FieldStatuses == {"none", "Enriched", "CannotEnrich", "ChangedByUser"}

Judgments == {"none", "InProgress", "Judged", "FailedToJudge"}

Doc == [status : Statuses, should : BOOLEAN, ai : BOOLEAN,
        judge : Judgments, field : [Fields -> FieldStatuses]]

Values == {"empty", "junk", "user", "ai"}

View == [doc : Doc, cand : SUBSET Fields, team : [Fields -> Values]]

Steps == {"idle", "done", "find", "guard", "mark", "markWrite", "load", "begin",
          "enrich", "logo", "judgeRead", "judgeWrite",
          "usageRead", "usageWrite", "reload", "verdict", "promote",
          "review", "approve", "edit"}

Ops == {"none", "mark", "enrich", "forceAll", "logo", "judge",
        "batch", "review", "approve", "edit"}

\* `prior` is the status a logo refetch found, `failed` says that the judgment
\* has; `fields` are those being judged or edited, and `value` is what the edited
\* field becomes.
Task == [op : Ops, pc : Steps, seen : View, latest : Doc,
         prior : Statuses, failed : BOOLEAN, fields : SUBSET Fields,
         value : Values \ {"ai"}]

NoDoc == [status |-> "none", should |-> FALSE, ai |-> FALSE,
          judge |-> "none", field |-> [f \in Fields |-> "none"]]

NoView == [doc |-> NoDoc, cand |-> {}, team |-> [f \in Fields |-> "empty"]]

NewTask == [op |-> "none", pc |-> "idle", seen |-> NoView, latest |-> NoDoc,
            prior |-> "none", failed |-> FALSE, fields |-> {}, value |-> "empty"]

TypeOK ==
  /\ doc \in Doc
  /\ doc.status = "none" => doc = NoDoc
  /\ cand \subseteq Fields
  /\ \A f \in Fields : doc.field[f] = "Enriched" => f \in cand
  /\ team \in [Fields -> Values]
  /\ aged \in BOOLEAN
  /\ task \in [Procs -> Task]
  /\ crashes \in 0 .. MaxCrashes

-----------------------------------------------------------------------------
(* What the writers make of the document they read.                        *)

\* The document that was read wins over the mark.
Marked_Slip(d) ==
  [d EXCEPT !.should = IF d.status = "none" THEN TRUE ELSE d.should,
            !.status = "PendingEnrichment"]

\* markTeamForEnrichment, and the queueing write of a forced run.
Marked(d) == [d EXCEPT !.should = TRUE, !.status = "PendingEnrichment"]

\* A team, which may have been marked as it was created.
Init ==
  /\ doc \in {NoDoc, Marked(NoDoc)}
  /\ cand = {}
  /\ team \in [Fields -> {"empty", "junk", "user"}]
  /\ aged = FALSE
  /\ task = [p \in Procs |-> NewTask]
  /\ crashes = 0

\* updateEnrichmentStatus.
WithStatus(d, s) ==
  [d EXCEPT !.status = s, !.should = IF s = "FailedToEnrich" THEN FALSE ELSE @]

\* A run that outlived the TTL (resetStaleInProgressEnrichment).
StaleRun == doc.status = "InProgress" /\ aged

\* Only judgments of a team queued for enrichment again are recovered.
StaleJudgment_Slip ==
  doc.judge = "InProgress" /\ doc.status = "PendingEnrichment" /\ aged

\* A judgment that outlived the TTL (resetStaleInProgressJudgment).
StaleJudgment == doc.judge = "InProgress" /\ aged

HasContent(value) == value \in {"user", "ai"}

\* The enrichment run asks the AI about f: the slot is open, and the answer of
\* an earlier run stands unless everything is overwritten.
Unsettled(view, f, all) ==
  LET st == view.doc.field[f] IN
  /\ \/ view.team[f] = "junk"
     \/ view.team[f] = "empty" /\ st # "ChangedByUser"
  /\ st = "Enriched" => all

\* A run that overwrites everything overwrites what people wrote too.
Outcome_Slip(view, f, all, found) ==
  IF Unsettled(view, f, all) \/ (all /\ f \in found)
  THEN IF f \in found THEN "Enriched" ELSE "CannotEnrich"
  ELSE IF HasContent(view.team[f]) THEN "ChangedByUser" ELSE view.doc.field[f]

\* The status a run gives to f; `found` are the fields with an answer.
Outcome(view, f, all, found) ==
  LET st == view.doc.field[f] IN
  IF Unsettled(view, f, all)
  THEN IF f \in found THEN "Enriched" ELSE "CannotEnrich"
  ELSE IF HasContent(view.team[f]) /\ st # "Enriched" THEN "ChangedByUser"
  ELSE st

\* doEnrichTeam's last write; the judgment block is not carried over.
Finished(view, all, found) ==
  LET field == [f \in Fields |-> Outcome(view, f, all, found)] IN
  [status |-> "Enriched", should |-> FALSE, judge |-> "none", field |-> field,
   ai |-> \E f \in Fields : field[f] = "Enriched"]

\* Answers to junk are not stored.
Answered_Slip(view, all, found) == {f \in found : view.team[f] = "empty"}

\* The fields whose candidate column the run writes.
Answered(view, all, found) == {f \in found : Unsettled(view, f, all)}

\* doRefetchLogo's last write.  A team that had no row ends Enriched.
Restored(d, prior) ==
  [d EXCEPT !.should = FALSE,
            !.status = IF prior = "none" THEN "Enriched" ELSE prior]

\* handleUserFieldChange makes the field the user's.
Flips(d, f, value) ==
  /\ d.ai
  /\ \/ d.field[f] = "Enriched"
     \/ d.field[f] = "CannotEnrich" /\ value # "empty"

\* collectJudgableFieldKeys, on one view of the team.
Judgable(view) ==
  {f \in Fields :
     \/ /\ view.doc.field[f] = "Enriched"
        /\ f \in view.cand \/ HasContent(view.team[f])
     \/ /\ view.doc.field[f] = "ChangedByUser"
        /\ f \in UserJudgable /\ HasContent(view.team[f])}

\* Whatever the judge has verified.
Promotable_Slip(d, high) == {f \in high : d.field[f] # "none"}

\* buildPromotionPayload, for fields with a candidate in the row that the judge
\* loaded: of those verified at high confidence, the ones the AI owns in d.
Promotable(d, high) == {f \in high : d.field[f] = "Enriched"}

-----------------------------------------------------------------------------

At(p, step) == task[p].pc = step

Goto(p, step) == task' = [task EXCEPT ![p].pc = step]

Finish(p) ==
  task' = [task EXCEPT ![p] =
    [NewTask EXCEPT !.pc = IF p \in Requests THEN "done" ELSE "idle"]]

Now == [doc |-> doc, cand |-> cand, team |-> team]

\* A writer that keeps only its copy d of the document.
Copy(d) == [NoView EXCEPT !.doc = d]

\* Every write of the row refreshes updatedAt.
Write(d) == doc' = d /\ aged' = FALSE

Busy(p) == task[p].pc \notin {"idle", "done"}

\* A person's transaction holds the lock on the Team row until it commits.
Editing == \E p \in Procs : At(p, "edit")

\* Without "raceedit" people write the team between jobs, not during them.
MayStart(p, op) ==
  /\ At(p, "idle")
  /\ \/ "raceedit" \in Env
     \/ IF op \in {"edit", "approve"}
          THEN \A q \in Procs : ~Busy(q)
          ELSE \A q \in Procs : task[q].op \notin {"edit", "approve"}

\* `view` is what the process keeps of its first read.
Begin(p, op, step, view) ==
  /\ MayStart(p, op)
  /\ task' = [task EXCEPT ![p] =
       [NewTask EXCEPT !.op = op, !.pc = step, !.seen = view]]
  /\ UNCHANGED <<doc, cand, team, aged, crashes>>

-----------------------------------------------------------------------------
(* Requests.  Each starts with the read that its guards look at.           *)

StartMark(p) == Begin(p, "mark", "markWrite", Copy(Marked(doc)))

StartEnrich(p) == doc.status # "InProgress" /\ Begin(p, "enrich", "mark", NoView)

\* forceEnrichTeam goes on as enrichTeam does, or overwrites every field.
StartForce(p, op) ==
  /\ doc.status # "InProgress"
  /\ Begin(p, op, "markWrite", Copy(Marked(doc)))

StartLogo(p) ==
  /\ doc.status # "InProgress"
  /\ "pendinglogo" \in Env \/ doc.status # "PendingEnrichment"
  /\ MayStart(p, "logo")
  /\ task' = [task EXCEPT ![p] =
       [NewTask EXCEPT !.op = "logo", !.pc = "begin", !.prior = doc.status,
                       !.seen = Copy(WithStatus(doc, "InProgress"))]]
  /\ UNCHANGED <<doc, cand, team, aged, crashes>>

\* judgeTeam; a forced judgment ignores all but a judgment in progress.
StartJudge(p) ==
  /\ doc.judge # "InProgress"
  /\ MayStart(p, "judge")
  /\ Judgable(Now) # {}
  /\ task' = [task EXCEPT ![p] =
       [NewTask EXCEPT !.op = "judge", !.pc = "judgeRead",
                       !.fields = Judgable(Now) \cap cand]]
  /\ UNCHANGED <<doc, cand, team, aged, crashes>>

StartReview(p) == doc.status # "none" /\ Begin(p, "review", "review", Copy(doc))

StartApprove(p) ==
  /\ doc.status \notin {"none", "InProgress"}
  /\ Begin(p, "approve", "approve", [Copy(doc) EXCEPT !.cand = cand])

\* An edit has written Team, not yet committed, and reads the document.
StartEdit(p, f, value) ==
  /\ MayStart(p, "edit")
  /\ ~Editing
  /\ task' = [task EXCEPT ![p] =
       [NewTask EXCEPT !.op = "edit", !.pc = "edit", !.seen = Copy(doc),
                       !.fields = {f}, !.value = value]]
  /\ UNCHANGED <<doc, cand, team, aged, crashes>>

-----------------------------------------------------------------------------
(* The cron ticks: recover stale rows, then look for work.  A tick that     *)
(* recovers nothing looks for work at once.                                *)

TickEnrich ==
  /\ MayStart(EnrichCron, "enrich")
  /\ StaleRun
  /\ Write(Marked(doc))
  /\ Goto(EnrichCron, "find")
  /\ UNCHANGED <<cand, team, crashes>>

FindPending ==
  /\ \/ At(EnrichCron, "find")
     \/ MayStart(EnrichCron, "enrich") /\ ~StaleRun
  /\ IF doc.status = "PendingEnrichment" /\ doc.should
       THEN task' = [task EXCEPT ![EnrichCron] =
              [NewTask EXCEPT !.op = "enrich", !.pc = "guard"]]
       ELSE Finish(EnrichCron)
  /\ UNCHANGED <<doc, cand, team, aged, crashes>>

\* enrichTeam, called for each team that was found.
GuardRun ==
  /\ At(EnrichCron, "guard")
  /\ IF doc.status = "InProgress" THEN Finish(EnrichCron)
     ELSE Goto(EnrichCron, "mark")
  /\ UNCHANGED <<doc, cand, team, aged, crashes>>

TickJudge ==
  /\ MayStart(JudgeCron, "batch")
  /\ StaleJudgment
  /\ Write([doc EXCEPT !.judge = "none"])
  /\ Goto(JudgeCron, "find")
  /\ UNCHANGED <<cand, team, crashes>>

FindUnjudged ==
  /\ \/ At(JudgeCron, "find")
     \/ MayStart(JudgeCron, "batch") /\ ~StaleJudgment
  /\ IF /\ doc.status = "Enriched"
        /\ doc.judge \notin {"Judged", "InProgress"}
        /\ Judgable(Now) # {}
       THEN task' = [task EXCEPT ![JudgeCron] =
              [NewTask EXCEPT !.op = "batch", !.pc = "judgeRead"]]
       ELSE Finish(JudgeCron)
  /\ UNCHANGED <<doc, cand, team, aged, crashes>>

-----------------------------------------------------------------------------
(* markTeamForEnrichment, doEnrichTeam and doRefetchLogo.                  *)

Mark(p) ==
  /\ At(p, "mark")
  /\ task' = [task EXCEPT ![p] =
       [@ EXCEPT !.seen = Copy(Marked(doc)), !.pc = "markWrite"]]
  /\ UNCHANGED <<doc, cand, team, aged, crashes>>

MarkWrite(p) ==
  /\ At(p, "markWrite")
  /\ Write(task[p].seen.doc)
  /\ IF task[p].op = "mark" THEN Finish(p)
     ELSE task' = [task EXCEPT ![p] = [@ EXCEPT !.seen = NoView, !.pc = "load"]]
  /\ UNCHANGED <<cand, team, crashes>>

\* The copy of a run says InProgress at once; a logo refetch changes its copy
\* at the end.
LoadTeam(p) ==
  LET logo == task[p].op = "logo" IN
  /\ At(p, "load")
  /\ task' = [task EXCEPT ![p] =
       [@ EXCEPT !.seen = IF logo THEN Copy(doc)
                          ELSE [Copy(WithStatus(doc, "InProgress"))
                                  EXCEPT !.team = team],
                 !.pc = IF logo THEN "logo" ELSE "begin"]]
  /\ UNCHANGED <<doc, cand, team, aged, crashes>>

BeginRun(p) ==
  /\ At(p, "begin")
  /\ Write(task[p].seen.doc)
  /\ IF task[p].op = "logo"
       THEN task' = [task EXCEPT ![p] = [@ EXCEPT !.seen = NoView, !.pc = "load"]]
       ELSE Goto(p, "enrich")
  /\ UNCHANGED <<cand, team, crashes>>

EnrichDone(p, found) ==
  LET view == task[p].seen
      all  == task[p].op = "forceAll" IN
  /\ At(p, "enrich")
  /\ Write(Finished(view, all, found))
  /\ cand' = cand \cup Answered(view, all, found)
  /\ Finish(p)
  /\ UNCHANGED <<team, crashes>>

LogoDone(p) ==
  /\ At(p, "logo")
  /\ Write(Restored(task[p].seen.doc, task[p].prior))
  /\ Finish(p)
  /\ UNCHANGED <<cand, team, crashes>>

RunFails(p) ==
  /\ task[p].pc \in {"enrich", "logo"}
  /\ Write(WithStatus(task[p].seen.doc, "FailedToEnrich"))
  /\ Finish(p)
  /\ UNCHANGED <<cand, team, crashes>>

-----------------------------------------------------------------------------
(* The judge: writeJudgmentStatus and runJudgmentPipeline.                 *)

\* The copy that the process keeps of what it reads now, as it will write it.
Reread(p, step, judge) ==
  task' = [task EXCEPT ![p] =
    [@ EXCEPT !.latest = [doc EXCEPT !.judge = judge], !.pc = step]]

JudgeRead(p) ==
  /\ At(p, "judgeRead")
  /\ Reread(p, "judgeWrite", IF task[p].failed THEN "FailedToJudge" ELSE "InProgress")
  /\ UNCHANGED <<doc, cand, team, aged, crashes>>

\* A failure is the last write, but for the usage if the AI has answered.
JudgeWrite(p) ==
  /\ At(p, "judgeWrite")
  /\ Write(task[p].latest)
  /\ \E step \in CASE task[p].failed        -> {"done", "usageRead"}
                   [] task[p].op = "batch" -> {"reload"}
                   [] OTHER                -> {"verdict"} :
       IF step = "done" THEN Finish(p)
       ELSE task' = [task EXCEPT ![p] = [@ EXCEPT !.latest = NoDoc, !.pc = step]]
  /\ UNCHANGED <<cand, team, crashes>>

\* appendJudgeUsage, when the AI answered; what it adds is left out.
UsageRead(p) ==
  /\ At(p, "usageRead")
  /\ Reread(p, "usageWrite", doc.judge)
  /\ UNCHANGED <<doc, cand, team, aged, crashes>>

UsageWrite(p) ==
  /\ At(p, "usageWrite")
  /\ Write(task[p].latest)
  /\ Finish(p)
  /\ UNCHANGED <<cand, team, crashes>>

\* A batch judges a team on what it holds when its turn comes.
Reload(p) ==
  /\ At(p, "reload")
  /\ IF doc.judge = "InProgress" /\ Judgable(Now) # {}
       THEN task' = [task EXCEPT ![p] =
              [@ EXCEPT !.fields = Judgable(Now) \cap cand, !.pc = "verdict"]]
       ELSE Finish(p)
  /\ UNCHANGED <<doc, cand, team, aged, crashes>>

\* All verdicts are in; the document is read again.
Verdict(p, high) ==
  /\ At(p, "verdict")
  /\ task' = [task EXCEPT ![p] =
       [@ EXCEPT !.latest = [doc EXCEPT !.judge = "Judged"],
                 !.fields = high, !.pc = "promote"]]
  /\ UNCHANGED <<doc, cand, team, aged, crashes>>

JudgeFails(p) ==
  /\ task[p].pc \in {"verdict", "promote"}
  /\ task' = [task EXCEPT ![p] =
       [@ EXCEPT !.failed = TRUE, !.latest = NoDoc, !.fields = {},
                 !.pc = "judgeRead"]]
  /\ UNCHANGED <<doc, cand, team, aged, crashes>>

\* One transaction; its write of Team waits for the lock of an edit.
Promote(p) ==
  LET fields == Promotable(task[p].latest, task[p].fields) IN
  /\ At(p, "promote")
  /\ fields # {} => ~Editing
  /\ Write(task[p].latest)
  /\ team' = [f \in Fields |-> IF f \in fields THEN "ai" ELSE team[f]]
  /\ Finish(p)
  /\ UNCHANGED <<cand, crashes>>

-----------------------------------------------------------------------------
(* People: review by a team lead, approval by an administrator, edits.     *)

Review(p, status) ==
  /\ At(p, "review")
  /\ Write([task[p].seen.doc EXCEPT !.status = status])
  /\ Finish(p)
  /\ UNCHANGED <<cand, team, crashes>>

\* The administrator supplies the values of `typed` and confirms `named`.
Approve(p, typed, named) ==
  LET d     == task[p].seen.doc
      owned == {f \in named : d.field[f] = "ChangedByUser"}
      taken == {f \in named \ owned : f \in task[p].seen.cand} IN
  /\ At(p, "approve")
  /\ typed \cup taken # {} => ~Editing
  /\ IF typed \cup owned \cup taken = {} THEN UNCHANGED <<doc, team, aged>>
     ELSE /\ Write([d EXCEPT !.status = "Reviewed", !.field =
                 [f \in Fields |->
                    IF f \in typed THEN "ChangedByUser"
                    ELSE IF f \in taken /\ d.field[f] = "none" THEN "Enriched"
                    ELSE d.field[f]]])
          /\ team' = [f \in Fields |-> IF f \in typed THEN "user"
                                       ELSE IF f \in taken THEN "ai"
                                       ELSE team[f]]
  /\ Finish(p)
  /\ UNCHANGED <<cand, crashes>>

\* The edit commits: the Team row, and the document if a field changed hands.
Edit(p, f) ==
  LET d == task[p].seen.doc IN
  /\ At(p, "edit")
  /\ f \in task[p].fields
  /\ team' = [team EXCEPT ![f] = task[p].value]
  /\ IF Flips(d, f, task[p].value)
       THEN Write([d EXCEPT !.field[f] = "ChangedByUser"])
       ELSE UNCHANGED <<doc, aged>>
  /\ Finish(p)
  /\ UNCHANGED <<cand, crashes>>

-----------------------------------------------------------------------------

\* p has written the row and is to write it again.
Working(p) ==
  \/ task[p].pc \in {"load", "begin", "enrich", "logo",
                    "reload", "verdict", "promote"}
  \/ task[p].failed

\* The TTL is set well above the time a run takes.
Age ==
  /\ ~aged
  /\ doc.status = "InProgress" \/ doc.judge = "InProgress"
  /\ "slowrun" \in Env \/ \A p \in Procs : ~Working(p)
  /\ aged' = TRUE
  /\ UNCHANGED <<doc, cand, team, task, crashes>>

\* A process that dies before its first write leaves nothing behind.
Crash(p) ==
  /\ Working(p)
  /\ crashes < MaxCrashes
  /\ crashes' = crashes + 1
  /\ Finish(p)
  /\ UNCHANGED <<doc, cand, team, aged>>

Start(p) ==
  \/ StartMark(p) \/ StartEnrich(p) \/ StartLogo(p) \/ StartJudge(p)
  \/ \E op \in {"enrich", "forceAll"} : StartForce(p, op)
  \/ StartReview(p) \/ StartApprove(p)
  \/ \E f \in Fields, value \in {"empty", "junk", "user"} : StartEdit(p, f, value)

EnrichStep(p) ==
  \/ Mark(p) \/ MarkWrite(p) \/ LoadTeam(p) \/ BeginRun(p)
  \/ \E found \in SUBSET Fields : EnrichDone(p, found)
  \/ RunFails(p)

JudgeStep(p) ==
  \/ JudgeRead(p) \/ JudgeWrite(p) \/ UsageRead(p) \/ UsageWrite(p)
  \/ \E high \in SUBSET task[p].fields : Verdict(p, high)
  \/ JudgeFails(p) \/ Promote(p)

PeopleStep(p) ==
  \/ \E status \in {"Reviewed", "Approved"} : Review(p, status)
  \/ \E typed \in SUBSET Fields : \E named \in SUBSET (Fields \ typed) :
       Approve(p, typed, named)
  \/ \E f \in Fields : Edit(p, f)

Step(p) == EnrichStep(p) \/ LogoDone(p) \/ JudgeStep(p) \/ PeopleStep(p)

EnrichJob == TickEnrich \/ FindPending \/ GuardRun \/ EnrichStep(EnrichCron)

JudgeJob ==
  TickJudge \/ FindUnjudged \/ Reload(JudgeCron) \/ JudgeStep(JudgeCron)

Next ==
  \/ \E p \in Requests : Start(p) \/ Step(p)
  \/ EnrichJob \/ JudgeJob
  \/ \E p \in Procs : Crash(p)
  \/ Age

Spec == Init /\ [][Next]_vars

-----------------------------------------------------------------------------
(* Properties.                                                             *)

\* What the process k will write back calls f the user's, and it has not found junk
\* in f to be replaced.
Agrees(k, f) ==
  /\ k.pc \in {"markWrite", "begin", "enrich", "logo", "review", "approve", "edit"}
       => k.seen.doc.field[f] = "ChangedByUser"
  /\ k.pc \in {"judgeWrite", "usageWrite", "promote"}
       => k.latest.field[f] = "ChangedByUser"
  /\ k.pc = "enrich" \/ (k.pc = "begin" /\ k.op # "logo") => k.seen.team[f] # "junk"

\* A person's value of f is on record: the document calls it the user's, and so
\* does every copy of it that is still to be written back.
OnRecord(f) ==
  /\ team[f] = "user" /\ doc.field[f] = "ChangedByUser"
  /\ \A p \in Procs : Agrees(task[p], f)

\* A value that is on record stays so, and no candidate ever takes its place, until
\* a person changes it: runs that overwrite everything, judgments, approvals and
\* logo refetches may overlap each other and people's edits, outlive the TTL, die,
\* and write back documents they read long ago (buildPromotionPayload, doEnrichTeam).
RecordedValueKept ==
  [][\A f \in Fields : OnRecord(f) =>
       /\ team'[f] # "ai"
       /\ team'[f] = "user" => OnRecord(f)']_vars

\* Said in the repository, and not kept by the code: promotion "never overwrites
\* Team values the user owns", also one that is not on record (team-enrichment-
\* promotion.ts).  An administrator may confirm a candidate over it.
UserValueKept ==
  [][\A f \in Fields : team[f] = "user" /\ team'[f] = "ai" =>
       \E p \in Requests : At(p, "approve") /\ ~At(p, "approve")']_vars

\* A request that has begun goes on, the crons tick, and time passes.  No request
\* has to be made.
Fairness ==
  /\ \A p \in Requests : WF_vars(Step(p))
  /\ WF_vars(EnrichJob) /\ WF_vars(JudgeJob)
  /\ WF_vars(Age)

FairSpec == Spec /\ Fairness

\* A team that is marked for enrichment is taken up, and no run stays in progress,
\* also when its pod dies: every entry point skips a team that is InProgress.
EnrichmentEnds ==
  doc.status \in {"PendingEnrichment", "InProgress"}
    ~> doc.status \notin {"PendingEnrichment", "InProgress"}

\* No judgment stays in progress either.
JudgingEnds == doc.judge = "InProgress" ~> doc.judge # "InProgress"

=============================================================================
