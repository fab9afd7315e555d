---------------------------- MODULE AiAppsDeploy ----------------------------
(***************************************************************************)
(* The deploy lifecycle of AI Apps (ai-apps.service.ts): the AiApp rows,   *)
(* the requests that write them, the bundle store and the sandbox runner.  *)
(*                                                                         *)
(* A request is a process.  It runs in one API instance and is cut at      *)
(* every await, so that the steps of two requests interleave as two        *)
(* Prisma or axios calls do; between two awaits it is one action.  What a  *)
(* request read before an await is kept in its task record and is used     *)
(* after it, stale or not, exactly where the code uses its local variable. *)
(*                                                                         *)
(* Time is one bit per row: `aged` says that updatedAt is further back     *)
(* than AI_APPS_DEPLOY_STUCK_MS.  Every write of the row refreshes         *)
(* updatedAt (Prisma's @updatedAt) and clears the bit.                     *)
(*                                                                         *)
(* The runner is external: it keeps one release, one secret store and one  *)
(* route per appId, whoever owns the row, and finishes a build whether or  *)
(* not the API still waits for it.                                         *)
(*                                                                         *)
(* A definition named X_Slip is a wrong form of X, as a plausible mistake  *)
(* in the code would make it.  No action uses it: it is there to show that *)
(* the properties notice the mistake.                                      *)
(*                                                                         *)
(* Left out: names, descriptions, hosts and ports, note texts, the audit   *)
(* rows, and the permission checks, which end a request before it writes.  *)
(***************************************************************************)
EXTENDS Naturals

CONSTANTS
  Members,      \* owners of apps
  AppIds,       \* business keys of apps, and the runner's namespace
  Bundles,      \* deployment ids; with the appId one names an S3 object
  EnvVars,      \* names of runtime environment variables
  Databases,    \* values the upload's `database` flag takes
  Tasks,        \* deploy, draft, redeploy, delete and edit requests, one each
  Readers,      \* dashboard clients, which poll for as long as they are open
  HelmRetries,  \* AI_APPS_HELM_LOCK_RETRIES
  Env,          \* what the environment may do: a subset of EnvFaults
  None          \* a value that is no bundle, no row and no release

EnvFaults ==
  {"overlap",   \* requests run concurrently
   "crash",     \* an API instance dies with its requests
   "age",       \* a deploy stays DEPLOYING beyond the stuck window
   "timeout",   \* the edge gives up on a runner call that may still succeed
   "redelete",  \* a member deletes an app that is already DELETED
   "noupload"}  \* S3 refuses a bundle

ASSUME Assumptions ==
  /\ Databases \subseteq BOOLEAN
  /\ HelmRetries \in Nat
  /\ Env \subseteq EnvFaults
  /\ None \notin Bundles
  /\ None \notin Members \X AppIds

\* @@unique([memberUid, appId]): one row for each owner and appId.
Rows == Members \X AppIds

VARIABLES
  app,        \* the AiApp row of each owner and appId
  task,       \* the local state of each request
  reader,     \* the row a dashboard read found stuck and is about to settle
  stored,     \* bundles present in S3
  secrets,    \* names whose values the runner's secret store holds
  build,      \* the runner's build job of each request
  release,    \* what the runner runs under each appId
  everUp,     \* history: appIds the runner has ever run
  misled,     \* history: appIds a probe found up while the runner ran nothing
  announced,  \* history: deploy-succeeded broadcasts of each row
  timeouts    \* history: timed-out verdicts since the row last went DEPLOYING

runnerVars == <<stored, secrets, build, release, everUp>>
history    == <<misled, announced, timeouts>>
vars       == <<app, task, reader, stored, secrets, build, release, everUp,
                misled, announced, timeouts>>

-----------------------------------------------------------------------------
(* Types.                                                                  *)

\* AiAppStatus, ABSENT standing for a row not created yet.
Statuses == {"ABSENT", "DRAFT", "DEPLOYING", "READY", "ERROR", "DELETING",
             "DELETED"}

\* failureStream, "none" for null.
Streams == {"none", "build", "runtime"}

AppRow == [status : Statuses, bundle : Bundles \cup {None}, shipped : BOOLEAN,
           failure : Streams, required : SUBSET EnvVars,
           provided : SUBSET EnvVars, database : BOOLEAN, aged : BOOLEAN]

Steps == {"idle", "claimed", "clear", "upload", "draftRow", "reclaim",
          "secrets", "names", "proxy", "building", "verifyBuild", "registry",
          "inject", "verifyInject", "ready", "announce", "fail", "deleting",
          "deleted", "undeleted", "edit", "done"}

Task == [op : {"none", "deploy", "draft", "redeploy", "delete", "edit"},
         pc : Steps, row : Rows \cup {None}, bundle : Bundles \cup {None},
         first : BOOLEAN, names : SUBSET EnvVars, given : SUBSET EnvVars,
         database : BOOLEAN, tries : 0 .. HelmRetries, failure : Streams]

Release == [owner : Rows, bundle : Bundles, config : SUBSET EnvVars,
            database : BOOLEAN]

ASSUME NoneIsNoRelease == None \notin Release

Build == [phase : {"none", "running", "ok", "failed"},
          row : Rows \cup {None}, bundle : Bundles \cup {None}]

NewRow == [status |-> "ABSENT", bundle |-> None, shipped |-> FALSE,
           failure |-> "none", required |-> {}, provided |-> {},
           database |-> FALSE, aged |-> FALSE]

NewTask == [op |-> "none", pc |-> "idle", row |-> None, bundle |-> None,
            first |-> FALSE, names |-> {}, given |-> {},
            database |-> FALSE, tries |-> 0, failure |-> "none"]

NoBuild == [phase |-> "none", row |-> None, bundle |-> None]

Active(t) == task[t].pc \notin {"idle", "done"}

\* An active request has its row, and a bundle unless it deletes or edits.
Grounded(t) ==
  /\ Active(t) => task[t].row \in Rows
  /\ task[t].pc \notin {"idle", "done", "deleting", "deleted", "undeleted", "edit"}
       => task[t].bundle \in Bundles

TypeOK ==
  /\ app \in [Rows -> AppRow]
  /\ task \in [Tasks -> Task]
  /\ reader \in [Readers -> Rows \cup {None}]
  /\ stored \subseteq AppIds \X Bundles
  /\ secrets \in [AppIds -> SUBSET EnvVars]
  /\ build \in [Tasks -> Build]
  /\ release \in [AppIds -> Release \cup {None}]
  /\ everUp \subseteq AppIds
  /\ misled \subseteq AppIds
  /\ announced \in [Rows -> Nat]
  /\ timeouts \in [Rows -> Nat]
  /\ \A t \in Tasks : Grounded(t)
  /\ \A t \in Tasks : build[t].phase # "none" => build[t].row \in Rows

Init ==
  /\ app = [r \in Rows |-> NewRow]
  /\ task = [t \in Tasks |-> NewTask]
  /\ reader = [d \in Readers |-> None]
  /\ stored = {}
  /\ secrets = [a \in AppIds |-> {}]
  /\ build = [t \in Tasks |-> NoBuild]
  /\ release = [a \in AppIds |-> None]
  /\ everUp = {}
  /\ misled = {}
  /\ announced = [r \in Rows |-> 0]
  /\ timeouts = [r \in Rows |-> 0]

-----------------------------------------------------------------------------
(* The conditions the requests test.                                       *)

Owner(r) == r[1]
AppId(r) == r[2]

At(t, step) == task[t].pc = step

Goto(t, step) == task' = [task EXCEPT ![t].pc = step]

\* The deploy is lost; failDeploy is next, with the stream to blame.
GiveUp(t, stream) ==
  task' = [task EXCEPT ![t] = [@ EXCEPT !.pc = "fail", !.failure = stream]]

Finish(t) == task' = [task EXCEPT ![t] = [NewTask EXCEPT !.pc = "done"]]

\* A request starts on its own, or beside others when they may overlap.
MayStart(t) ==
  /\ At(t, "idle")
  /\ "overlap" \in Env \/ \A u \in Tasks : ~Active(u)

Live(r) == app[r].status \notin {"ABSENT", "DELETED"}

\* Only a READY app holds its appId.
ClaimedByOther_Slip(r) ==
  \E o \in Rows :
    AppId(o) = AppId(r) /\ Owner(o) # Owner(r) /\ app[o].status = "READY"

\* Another member holds the appId of r.
ClaimedByOther(r) ==
  \E o \in Rows : AppId(o) = AppId(r) /\ Owner(o) # Owner(r) /\ Live(o)

\* An app that never shipped is not settled.
Stuck_Slip(row) == row.status = "DEPLOYING" /\ row.aged /\ row.shipped

\* DEPLOYING for longer than the stuck window.
Stuck(row) == row.status = "DEPLOYING" /\ row.aged

\* A fresh deploy owns the row: the 409 of every deploy entry point.
InProgress(row) == row.status = "DEPLOYING" /\ ~Stuck(row)

\* The settle's update is not conditioned.
StillDeploying_Slip(r) == TRUE

\* The condition of the settle's updateMany.
StillDeploying(r) == app[r].status = "DEPLOYING"

\* Every deploy counts as the first.
FirstDeploy_Slip(row) == TRUE

\* lastDeployedAt was null when the deploy began.
FirstDeploy(row) == ~row.shipped

\* Only a database needs the second deployment.
NeedsConfig_Slip(t) == task[t].database

\* The built image is deployed again when the app has secrets or a database.
NeedsConfig(t) == task[t].names # {} \/ task[t].database

\* Any answer of the runner counts, the body is not read.
BuildSucceeded_Slip(t) == build[t].phase \in {"ok", "failed"}

\* The runner answered 2xx and the body does not say "failed".
BuildSucceeded(t) == build[t].phase = "ok"

\* One retry too many.
LockRetryLeft_Slip(t) == task[t].tries <= HelmRetries

\* A retry on a locked release is left.
LockRetryLeft(t) == task[t].tries < HelmRetries

-----------------------------------------------------------------------------
(* What the requests write: each operator is one Prisma or runner write.   *)

\* An upload starts the app afresh.
Uploaded_Slip(row, b, db) ==
  [NewRow EXCEPT !.status = "DEPLOYING", !.bundle = b, !.database = db,
                 !.required = row.required, !.provided = row.provided]

\* deploy's upsert.  lastDeployedAt, the env names and failureStream stay.
Uploaded(row, b, db) ==
  [row EXCEPT !.status = "DEPLOYING", !.bundle = b, !.database = db,
              !.aged = FALSE]

\* registerDraft's upsert.
Drafted(row, b, db, needed) ==
  [row EXCEPT !.status = "DRAFT", !.bundle = b, !.database = db,
              !.required = needed, !.aged = FALSE]

\* saveSecrets: the union of the names read earlier and the submitted ones.
Named(row, names) == [row EXCEPT !.provided = names, !.aged = FALSE]

\* proxyDeploy's first write.
Proxied(row, b) ==
  [row EXCEPT !.status = "DEPLOYING", !.bundle = b, !.failure = "none",
              !.aged = FALSE]

\* failureStream survives a success.
Shipped_Slip(row, db) ==
  [row EXCEPT !.status = "READY", !.shipped = TRUE,
              !.database = row.database \/ db, !.aged = FALSE]

\* markReady, the only writer of lastDeployedAt.  The database column is
\* written when the runner reported what it provisioned.
Shipped(row, db) ==
  [row EXCEPT !.status = "READY", !.failure = "none", !.shipped = TRUE,
              !.database = row.database \/ db, !.aged = FALSE]

\* failDeploy, and the settle of a stuck deploy (stream "none").
Failed(row, stream) ==
  [row EXCEPT !.status = "ERROR", !.failure = stream, !.aged = FALSE]

\* deleteApp's three writes; failureStream stays.
Deletion(row, status) == [row EXCEPT !.status = status, !.aged = FALSE]

\* The runner's answer is not looked at.
DeleteVerdict_Slip(t) == "DELETED"

\* How deleteApp's last write depends on the runner's answer.
DeleteVerdict(t) == IF At(t, "deleted") THEN "DELETED" ELSE "ERROR"

\* The runner's secret store merges.
Merged(old, new) == old \cup new

\* The release a request puts under its appId.
ReleaseOf(r, b, names, db) ==
  [owner |-> r, bundle |-> b, config |-> names, database |-> db]

SetRow(r, row) == app' = [app EXCEPT ![r] = row]

-----------------------------------------------------------------------------
(* deploy and registerDraft: the two checks, the bundle and the row.  A    *)
(* request refused at its first check leaves no trace and is no step.      *)

StartUpload(t, op, r, b, db, needed) ==
  /\ MayStart(t)
  /\ ~ClaimedByOther(r)
  /\ task' = [task EXCEPT ![t] =
       [NewTask EXCEPT !.op = op, !.pc = "claimed", !.row = r, !.bundle = b,
                       !.database = db, !.given = needed]]
  /\ UNCHANGED <<app, reader, runnerVars, history>>

CheckBusy(t) ==
  /\ At(t, "claimed")
  /\ IF InProgress(app[task[t].row]) THEN Finish(t) ELSE Goto(t, "clear")
  /\ UNCHANGED <<app, reader, runnerVars, history>>

\* deploy writes the row before the bundle is in S3.
WriteDeploying(t) ==
  LET r == task[t].row IN
  /\ At(t, "clear")
  /\ task[t].op = "deploy"
  /\ SetRow(r, Uploaded(app[r], task[t].bundle, task[t].database))
  /\ task' = [task EXCEPT ![t] =
       [@ EXCEPT !.pc = "upload", !.first = FirstDeploy(app[r]),
                 !.names = app[r].provided]]
  /\ timeouts' = [timeouts EXCEPT ![r] = 0]
  /\ UNCHANGED <<reader, runnerVars, misled, announced>>

Uploading(t) ==
  \/ At(t, "upload")
  \/ At(t, "clear") /\ task[t].op = "draft"

StoreBundle(t) ==
  /\ Uploading(t)
  /\ stored' = stored \cup {<<AppId(task[t].row), task[t].bundle>>}
  /\ Goto(t, IF At(t, "upload") THEN "proxy" ELSE "draftRow")
  /\ UNCHANGED <<app, reader, secrets, build, release, everUp, history>>

LoseBundle(t) ==
  /\ "noupload" \in Env
  /\ Uploading(t)
  /\ IF At(t, "upload")
       THEN GiveUp(t, "build")
       ELSE Finish(t)
  /\ UNCHANGED <<app, reader, runnerVars, history>>

WriteDraft(t) ==
  LET r == task[t].row IN
  /\ At(t, "draftRow")
  /\ SetRow(r, Drafted(app[r], task[t].bundle, task[t].database, task[t].given))
  /\ Finish(t)
  /\ UNCHANGED <<reader, runnerVars, history>>

-----------------------------------------------------------------------------
(* deployDraft: the member deploys the stored bundle, with secrets if any. *)
(* Every check but the claim is made on the row as it was read.            *)

StartRedeploy(t, r, given) ==
  LET row == app[r] IN
  /\ MayStart(t)
  /\ row.status \notin {"ABSENT", "DELETED", "DELETING"}
  /\ ~InProgress(row)
  /\ row.bundle # None
  /\ row.required \subseteq row.provided \cup given
  /\ task' = [task EXCEPT ![t] =
       [NewTask EXCEPT !.op = "redeploy", !.pc = "reclaim", !.row = r,
                       !.bundle = row.bundle, !.first = FirstDeploy(row),
                       !.names = row.provided \cup given, !.given = given,
                       !.database = row.database]]
  /\ UNCHANGED <<app, reader, runnerVars, history>>

CheckClaim(t) ==
  /\ At(t, "reclaim")
  /\ IF ClaimedByOther(task[t].row) THEN Finish(t)
     ELSE Goto(t, IF task[t].given = {} THEN "proxy" ELSE "secrets")
  /\ UNCHANGED <<app, reader, runnerVars, history>>

StoreSecrets(t) ==
  LET a == AppId(task[t].row) IN
  /\ At(t, "secrets")
  /\ secrets' = [secrets EXCEPT ![a] = Merged(@, task[t].given)]
  /\ Goto(t, "names")
  /\ UNCHANGED <<app, reader, stored, build, release, everUp, history>>

\* The names are recorded although the runner refused the values.
LoseSecrets_Slip(t) ==
  /\ At(t, "secrets")
  /\ Goto(t, "names")
  /\ UNCHANGED <<app, reader, runnerVars, history>>

\* The runner refused the values: the deploy is off.
LoseSecrets(t) ==
  /\ At(t, "secrets")
  /\ Finish(t)
  /\ UNCHANGED <<app, reader, runnerVars, history>>

RecordNames(t) ==
  LET r == task[t].row IN
  /\ At(t, "names")
  /\ SetRow(r, Named(app[r], task[t].names))
  /\ Goto(t, "proxy")
  /\ UNCHANGED <<reader, runnerVars, history>>

-----------------------------------------------------------------------------
(* proxyDeploy: build, configure, and settle the row READY or ERROR.       *)

\* The row goes DEPLOYING (again, after an upload) and the runner is asked.
StartProxy(t) ==
  LET r == task[t].row IN
  /\ At(t, "proxy")
  /\ SetRow(r, Proxied(app[r], task[t].bundle))
  /\ build' = [build EXCEPT ![t] =
       [phase |-> "running", row |-> r, bundle |-> task[t].bundle]]
  /\ Goto(t, "building")
  /\ timeouts' = [timeouts EXCEPT ![r] = 0]
  /\ UNCHANGED <<reader, stored, secrets, release, everUp, misled, announced>>

AfterBuild(t) == IF NeedsConfig(t) THEN "registry" ELSE "ready"

BuildReply(t) ==
  /\ At(t, "building")
  /\ build[t].phase \in {"ok", "failed"}
  /\ IF BuildSucceeded(t) THEN Goto(t, AfterBuild(t))
     ELSE GiveUp(t, "build")
  /\ UNCHANGED <<app, reader, runnerVars, history>>

BuildTimeout(t) ==
  /\ "timeout" \in Env
  /\ At(t, "building")
  /\ Goto(t, "verifyBuild")
  /\ UNCHANGED <<app, reader, runnerVars, history>>

\* verifyAppLive returned true, after the build or after the injection: some
\* status that is not a gateway error came from the app's URL.  The app sends
\* one, and so does the ingress, with its 404, where no app is routed yet.  No
\* database metadata came back with a lost injection answer.
AppAnswers(t) ==
  LET a == AppId(task[t].row) IN
  /\ task[t].pc \in {"verifyBuild", "verifyInject"}
  /\ \/ At(t, "verifyBuild") /\ Goto(t, AfterBuild(t))
     \/ /\ At(t, "verifyInject")
        /\ task' = [task EXCEPT ![t] =
             [@ EXCEPT !.pc = "ready", !.database = FALSE]]
  /\ misled' = IF release[a] = None THEN misled \cup {a} ELSE misled
  /\ UNCHANGED <<app, reader, runnerVars, announced, timeouts>>

\* verifyAppLive gave up: nothing but gateway errors came from the app's URL.
AppSilent(t) ==
  /\ \/ At(t, "verifyBuild") /\ GiveUp(t, "none")
     \/ At(t, "verifyInject") /\ GiveUp(t, "runtime")
  /\ UNCHANGED <<app, reader, runnerVars, history>>

\* GET /apps: the image of the appId's release, whichever bundle it is.
ReadRegistry(t) ==
  LET a == AppId(task[t].row) IN
  /\ At(t, "registry")
  /\ release[a] # None
  /\ task' = [task EXCEPT ![t] =
       [@ EXCEPT !.pc = "inject", !.bundle = release[a].bundle]]
  /\ UNCHANGED <<app, reader, runnerVars, history>>

Injected(t) ==
  ReleaseOf(task[t].row, task[t].bundle, task[t].names, task[t].database)

Inject(t) ==
  /\ At(t, "inject")
  /\ release' = [release EXCEPT ![AppId(task[t].row)] = Injected(t)]
  /\ Goto(t, "ready")
  /\ UNCHANGED <<app, reader, stored, secrets, build, everUp, history>>

\* 409 helm_release_locked: wait and retry, a bounded number of times.
InjectLocked(t) ==
  /\ At(t, "inject")
  /\ LockRetryLeft(t)
  /\ task' = [task EXCEPT ![t].tries = @ + 1]
  /\ UNCHANGED <<app, reader, runnerVars, history>>

\* Any other refusal, the last 409, or no image in the registry.
InjectFails(t) ==
  /\ task[t].pc \in {"registry", "inject"}
  /\ GiveUp(t, "runtime")
  /\ UNCHANGED <<app, reader, runnerVars, history>>

\* The answer is lost; the injection may or may not have happened.
InjectTimeout(t) ==
  LET a == AppId(task[t].row) IN
  /\ "timeout" \in Env
  /\ At(t, "inject")
  /\ \/ release' = [release EXCEPT ![a] = Injected(t)]
     \/ release' = release
  /\ Goto(t, "verifyInject")
  /\ UNCHANGED <<app, reader, stored, secrets, build, everUp, history>>

MarkReady(t) ==
  LET r == task[t].row IN
  /\ At(t, "ready")
  /\ SetRow(r, Shipped(app[r], task[t].database))
  /\ IF task[t].first THEN Goto(t, "announce") ELSE Finish(t)
  /\ UNCHANGED <<reader, runnerVars, history>>

Announce(t) ==
  /\ At(t, "announce")
  /\ announced' = [announced EXCEPT ![task[t].row] = @ + 1]
  /\ Finish(t)
  /\ UNCHANGED <<app, reader, runnerVars, misled, timeouts>>

FailDeploy(t) ==
  LET r == task[t].row IN
  /\ At(t, "fail")
  /\ SetRow(r, Failed(app[r], task[t].failure))
  /\ Finish(t)
  /\ UNCHANGED <<reader, runnerVars, history>>

-----------------------------------------------------------------------------
(* deleteApp and updateMetadata.                                           *)

StartDelete(t, r) ==
  /\ MayStart(t)
  /\ app[r].status # "ABSENT"
  /\ "redelete" \in Env \/ app[r].status # "DELETED"
  /\ SetRow(r, Deletion(app[r], "DELETING"))
  /\ task' = [task EXCEPT ![t] =
       [NewTask EXCEPT !.op = "delete", !.pc = "deleting", !.row = r]]
  /\ UNCHANGED <<reader, runnerVars, history>>

TearDown(t) ==
  /\ At(t, "deleting")
  /\ release' = [release EXCEPT ![AppId(task[t].row)] = None]
  /\ task' \in {[task EXCEPT ![t].pc = step] : step \in {"deleted", "undeleted"}}
  /\ UNCHANGED <<app, reader, stored, secrets, build, everUp, history>>

RefuseTearDown(t) ==
  /\ At(t, "deleting")
  /\ Goto(t, "undeleted")
  /\ UNCHANGED <<app, reader, runnerVars, history>>

RecordDelete(t) ==
  LET r == task[t].row IN
  /\ task[t].pc \in {"deleted", "undeleted"}
  /\ SetRow(r, Deletion(app[r], DeleteVerdict(t)))
  /\ Finish(t)
  /\ UNCHANGED <<reader, runnerVars, history>>

StartEdit(t, r) ==
  /\ MayStart(t)
  /\ app[r].status \notin {"ABSENT", "DELETED"}
  /\ task' = [task EXCEPT ![t] =
       [NewTask EXCEPT !.op = "edit", !.pc = "edit", !.row = r]]
  /\ UNCHANGED <<app, reader, runnerVars, history>>

\* The metadata is left out; what remains is the refreshed updatedAt.
WriteEdit(t) ==
  LET r == task[t].row IN
  /\ At(t, "edit")
  /\ SetRow(r, [app[r] EXCEPT !.aged = FALSE])
  /\ Finish(t)
  /\ UNCHANGED <<reader, runnerVars, history>>

-----------------------------------------------------------------------------
(* settleStuckDeploy, run by every dashboard or detail read.               *)

SettleRead(d, r) ==
  /\ reader[d] = None
  /\ Stuck(app[r])
  /\ reader' = [reader EXCEPT ![d] = r]
  /\ UNCHANGED <<app, task, runnerVars, history>>

\* One verdict, with its event and its notification, for each row flipped.
SettleWrite(d) ==
  LET r == reader[d] IN
  /\ r # None
  /\ reader' = [reader EXCEPT ![d] = None]
  /\ IF StillDeploying(r)
       THEN /\ SetRow(r, Failed(app[r], "none"))
            /\ timeouts' = [timeouts EXCEPT ![r] = @ + 1]
       ELSE UNCHANGED <<app, timeouts>>
  /\ UNCHANGED <<task, runnerVars, misled, announced>>

-----------------------------------------------------------------------------
(* The environment: the runner's builds, the clock, the API's crashes.     *)

RunnerBuilds(t) ==
  LET job == build[t] IN
  /\ job.phase = "running"
  /\ <<AppId(job.row), job.bundle>> \in stored
  /\ build' = [build EXCEPT ![t].phase = "ok"]
  /\ release' = [release EXCEPT ![AppId(job.row)] =
                   ReleaseOf(job.row, job.bundle, {}, FALSE)]
  /\ everUp' = everUp \cup {AppId(job.row)}
  /\ UNCHANGED <<app, task, reader, stored, secrets, history>>

RunnerFails(t) ==
  /\ build[t].phase = "running"
  /\ build' = [build EXCEPT ![t].phase = "failed"]
  /\ UNCHANGED <<app, task, reader, stored, secrets, release, everUp, history>>

Age(r) ==
  /\ "age" \in Env
  /\ InProgress(app[r])
  /\ SetRow(r, [app[r] EXCEPT !.aged = TRUE])
  /\ UNCHANGED <<task, reader, runnerVars, history>>

Crash(t) ==
  /\ "crash" \in Env
  /\ Active(t)
  /\ Finish(t)
  /\ UNCHANGED <<app, reader, runnerVars, history>>

-----------------------------------------------------------------------------

Start(t) ==
  \E r \in Rows :
    \/ \E b \in Bundles, db \in Databases :
         \/ StartUpload(t, "deploy", r, b, db, {})
         \/ \E needed \in SUBSET EnvVars :
              StartUpload(t, "draft", r, b, db, needed)
    \/ \E given \in SUBSET EnvVars : StartRedeploy(t, r, given)
    \/ StartDelete(t, r)
    \/ StartEdit(t, r)

Step(t) ==
  \/ CheckBusy(t) \/ WriteDeploying(t) \/ StoreBundle(t) \/ LoseBundle(t)
  \/ WriteDraft(t) \/ CheckClaim(t) \/ StoreSecrets(t) \/ LoseSecrets(t)
  \/ RecordNames(t) \/ StartProxy(t) \/ BuildReply(t) \/ BuildTimeout(t)
  \/ AppAnswers(t) \/ AppSilent(t) \/ ReadRegistry(t) \/ Inject(t)
  \/ InjectLocked(t) \/ InjectFails(t) \/ InjectTimeout(t) \/ MarkReady(t)
  \/ Announce(t) \/ FailDeploy(t) \/ TearDown(t) \/ RefuseTearDown(t)
  \/ RecordDelete(t) \/ WriteEdit(t)

Runner(t) == RunnerBuilds(t) \/ RunnerFails(t)

Settle(d) == SettleWrite(d) \/ \E r \in Rows : SettleRead(d, r)

Next ==
  \/ \E t \in Tasks : Start(t) \/ Step(t) \/ Runner(t) \/ Crash(t)
  \/ \E d \in Readers : Settle(d)
  \/ \E r \in Rows : Age(r)

Spec == Init /\ [][Next]_vars

=============================================================================
