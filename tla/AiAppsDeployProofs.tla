------------------------- MODULE AiAppsDeployProofs -------------------------
(***************************************************************************)
(* Proofs of what AiAppsDeploy keeps, for every number of members, apps,   *)
(* bundles, secrets, requests and dashboards and every retry bound: first  *)
(* what every interleaving, fault and crash keeps, with the refinement of  *)
(* AiAppsServing, then what requests that do not overlap keep, with the    *)
(* refinement of AiAppsClaims.                                             *)
(***************************************************************************)
EXTENDS AiAppsDeployProperties, TLAPS

-----------------------------------------------------------------------------
(* Records.                                                                *)

\* Every write of a row yields a row.
LEMMA RowWrites ==
  ASSUME NEW row \in AppRow
  PROVE  /\ \A b \in Bundles, db \in BOOLEAN : Uploaded(row, b, db) \in AppRow
         /\ \A b \in Bundles, db \in BOOLEAN, needed \in SUBSET EnvVars :
              Drafted(row, b, db, needed) \in AppRow
         /\ \A names \in SUBSET EnvVars : Named(row, names) \in AppRow
         /\ \A b \in Bundles : Proxied(row, b) \in AppRow
         /\ \A db \in BOOLEAN : Shipped(row, db) \in AppRow
         /\ \A stream \in Streams : Failed(row, stream) \in AppRow
         /\ \A status \in Statuses : Deletion(row, status) \in AppRow
         /\ \A old \in BOOLEAN : [row EXCEPT !.aged = old] \in AppRow
<1>1. ASSUME NEW b \in Bundles, NEW db \in BOOLEAN
      PROVE  Uploaded(row, b, db) \in AppRow
  BY DEF AppRow, Statuses, Uploaded
<1>2. ASSUME NEW b \in Bundles, NEW db \in BOOLEAN,
             NEW needed \in SUBSET EnvVars
      PROVE  Drafted(row, b, db, needed) \in AppRow
  BY DEF AppRow, Statuses, Drafted
<1>3. ASSUME NEW names \in SUBSET EnvVars
      PROVE  Named(row, names) \in AppRow
  BY DEF AppRow, Named
<1>4. ASSUME NEW b \in Bundles
      PROVE  Proxied(row, b) \in AppRow
  BY DEF AppRow, Statuses, Streams, Proxied
<1>5. ASSUME NEW db \in BOOLEAN
      PROVE  Shipped(row, db) \in AppRow
  BY DEF AppRow, Statuses, Streams, Shipped
<1>6. ASSUME NEW stream \in Streams
      PROVE  Failed(row, stream) \in AppRow
  BY DEF AppRow, Statuses, Failed
<1>7. ASSUME NEW status \in Statuses
      PROVE  Deletion(row, status) \in AppRow
  BY DEF AppRow, Deletion
<1>8. ASSUME NEW old \in BOOLEAN
      PROVE  [row EXCEPT !.aged = old] \in AppRow
  BY DEF AppRow
<1> QED
  BY <1>1, <1>2, <1>3, <1>4, <1>5, <1>6, <1>7, <1>8

\* A fresh request is a request.
LEMMA NewTaskType == NewTask \in Task
  BY Assumptions DEF NewTask, Task, Steps, Streams

\* Moving a request to its next step changes nothing else of it.
LEMMA GotoTask ==
  ASSUME task \in [Tasks -> Task], NEW t \in Tasks, NEW step \in Steps,
         Goto(t, step)
  PROVE  /\ task' \in [Tasks -> Task]
         /\ \A u \in Tasks \ {t} : task'[u] = task[u]
         /\ task'[t] = [task[t] EXCEPT !.pc = step]
         /\ task'[t].pc = step
         /\ task'[t].row = task[t].row
         /\ task'[t].bundle = task[t].bundle
         /\ task'[t].names = task[t].names
         /\ task'[t].given = task[t].given
         /\ task'[t].first = task[t].first
  BY DEF Goto, Task

\* A deploy that is lost keeps its row and its bundle.
LEMMA GiveUpTask ==
  ASSUME task \in [Tasks -> Task], NEW t \in Tasks, NEW stream \in Streams,
         GiveUp(t, stream)
  PROVE  /\ task' \in [Tasks -> Task]
         /\ \A u \in Tasks \ {t} : task'[u] = task[u]
         /\ task'[t].pc = "fail"
         /\ task'[t].row = task[t].row
         /\ task'[t].bundle = task[t].bundle
         /\ task'[t].first = task[t].first
<1> DEFINE new == [task[t] EXCEPT !.pc = "fail", !.failure = stream]
<1>0. task[t] \in Task
  OBVIOUS
<1>1. new \in Task
  BY <1>0 DEF Task, Steps
<1>2. new.pc = "fail"
  BY DEF Task
<1>3. new.row = task[t].row
  BY DEF Task
<1>4. new.bundle = task[t].bundle /\ new.first = task[t].first
  BY DEF Task
<1>5. task' = [task EXCEPT ![t] = new]
  BY DEF GiveUp
<1> HIDE DEF new
<1> QED
  BY <1>1, <1>2, <1>3, <1>4, <1>5

\* A request that ends forgets what it read.
LEMMA FinishTask ==
  ASSUME task \in [Tasks -> Task], NEW t \in Tasks, Finish(t)
  PROVE  /\ task' \in [Tasks -> Task]
         /\ \A u \in Tasks \ {t} : task'[u] = task[u]
         /\ task'[t] = [NewTask EXCEPT !.pc = "done"]
         /\ task'[t].pc = "done"
<1>1. [NewTask EXCEPT !.pc = "done"] \in Task
  BY NewTaskType DEF Task, Steps
<1>2. [NewTask EXCEPT !.pc = "done"].pc = "done"
  BY DEF NewTask
<1> QED
  BY <1>1, <1>2 DEF Finish

-----------------------------------------------------------------------------
(* Types.                                                                  *)

\* What a step of request t that leaves the runner alone has to show.
LEMMA TypeFrame ==
  ASSUME TypeOK, NEW t \in Tasks,
         app' \in [Rows -> AppRow],
         task' \in [Tasks -> Task],
         \A u \in Tasks \ {t} : task'[u] = task[u],
         Grounded(t)',
         timeouts' \in [Rows -> Nat], misled' \subseteq AppIds,
         UNCHANGED <<reader, runnerVars, announced>>
  PROVE  TypeOK'
<1>1. ASSUME NEW u \in Tasks
      PROVE  Grounded(u)'
  BY DEF TypeOK, Grounded, Active
<1> QED
  BY <1>1 DEF TypeOK, runnerVars

\* A request that has its bundle stays grounded wherever it goes.
LEMMA GroundedGoto ==
  ASSUME TypeOK, NEW t \in Tasks, Active(t), task[t].bundle \in Bundles,
         NEW step \in Steps, Goto(t, step)
  PROVE  /\ task' \in [Tasks -> Task]
         /\ \A u \in Tasks \ {t} : task'[u] = task[u]
         /\ \A u \in Tasks : Grounded(u)'
<1>0. task \in [Tasks -> Task]
  BY DEF TypeOK
<1>1. /\ task' \in [Tasks -> Task]
      /\ \A u \in Tasks \ {t} : task'[u] = task[u]
      /\ task'[t].row = task[t].row
      /\ task'[t].bundle = task[t].bundle
  BY <1>0, GotoTask
<1>2. Grounded(t)'
  BY <1>1 DEF TypeOK, Grounded, Active
<1>3. ASSUME NEW u \in Tasks \ {t}
      PROVE  Grounded(u)'
  BY <1>1 DEF TypeOK, Grounded, Active
<1> QED
  BY <1>1, <1>2, <1>3

LEMMA TypeInit == Init => TypeOK
  BY Assumptions DEF Init, TypeOK, NewRow, NewTask, NoBuild, AppRow, Task,
     Build, Steps, Statuses, Streams, Grounded, Active

\* A request that goes on, or ends, with the rows typed and the rest alone.
LEMMA TypeGoto ==
  ASSUME TypeOK, NEW t \in Tasks, Active(t),
         NEW step \in Steps, Goto(t, step),
         step \in {"idle", "done", "deleting", "deleted", "undeleted", "edit"}
           \/ task[t].bundle \in Bundles,
         app' \in [Rows -> AppRow], timeouts' \in [Rows -> Nat], misled' \subseteq AppIds,
         UNCHANGED <<reader, runnerVars, announced>>
  PROVE  TypeOK'
<1>1. task' \in [Tasks -> Task] /\ \A u \in Tasks \ {t} : task'[u] = task[u]
  BY GotoTask DEF TypeOK
<1>2. Grounded(t)'
  BY GotoTask DEF TypeOK, Grounded, Active
<1> QED
  BY <1>1, <1>2, TypeFrame

LEMMA TypeFinish ==
  ASSUME TypeOK, NEW t \in Tasks, Finish(t),
         app' \in [Rows -> AppRow], timeouts' \in [Rows -> Nat], misled' \subseteq AppIds,
         UNCHANGED <<reader, runnerVars, announced>>
  PROVE  TypeOK'
<1>1. task' \in [Tasks -> Task] /\ \A u \in Tasks \ {t} : task'[u] = task[u]
  BY FinishTask DEF TypeOK
<1>2. Grounded(t)'
  BY FinishTask DEF TypeOK, Grounded, Active
<1> QED
  BY <1>1, <1>2, TypeFrame

LEMMA TypeGiveUp ==
  ASSUME TypeOK, NEW t \in Tasks, Active(t), task[t].bundle \in Bundles,
         NEW stream \in Streams, GiveUp(t, stream),
         app' \in [Rows -> AppRow], timeouts' \in [Rows -> Nat], misled' \subseteq AppIds,
         UNCHANGED <<reader, runnerVars, announced>>
  PROVE  TypeOK'
<1>1. task' \in [Tasks -> Task] /\ \A u \in Tasks \ {t} : task'[u] = task[u]
  BY GiveUpTask DEF TypeOK
<1>2. Grounded(t)'
  BY GiveUpTask DEF TypeOK, Grounded, Active
<1> QED
  BY <1>1, <1>2, TypeFrame

LEMMA TypeStart ==
  ASSUME TypeOK, NEW t \in Tasks, Start(t)
  PROVE  TypeOK'
<1>1. ASSUME NEW r \in Rows, NEW b \in Bundles, NEW db \in Databases,
             NEW op \in {"deploy", "draft"}, NEW needed \in SUBSET EnvVars,
             StartUpload(t, op, r, b, db, needed)
      PROVE  TypeOK'
  <2> DEFINE new == [NewTask EXCEPT !.op = op, !.pc = "claimed", !.row = r,
                       !.bundle = b, !.database = db, !.given = needed]
  <2>1. new \in Task /\ new.pc = "claimed" /\ new.row = r /\ new.bundle = b
    <3>1. db \in BOOLEAN
      BY Assumptions
    <3> QED
      BY <3>1, NewTaskType DEF Task, Steps
  <2> HIDE DEF new
  <2>2. task' = [task EXCEPT ![t] = new]
    BY <1>1 DEF StartUpload, new
  <2>3. task' \in [Tasks -> Task] /\ (\A u \in Tasks \ {t} : task'[u] = task[u])
        /\ task'[t] = new
    BY <2>1, <2>2 DEF TypeOK
  <2>4. Grounded(t)'
    BY <2>1, <2>3 DEF Grounded
  <2> QED
    BY <1>1, <2>3, <2>4, TypeFrame DEF StartUpload, TypeOK, history
<1>2. ASSUME NEW r \in Rows, NEW given \in SUBSET EnvVars,
             StartRedeploy(t, r, given)
      PROVE  TypeOK'
  <2> DEFINE new == [NewTask EXCEPT !.op = "redeploy", !.pc = "reclaim",
                       !.row = r, !.bundle = app[r].bundle,
                       !.first = FirstDeploy(app[r]),
                       !.names = app[r].provided \cup given, !.given = given,
                       !.database = app[r].database]
  <2>1. new \in Task /\ new.pc = "reclaim" /\ new.row = r
        /\ new.bundle \in Bundles
    <3>1. /\ app[r].bundle \in Bundles
          /\ app[r].provided \in SUBSET EnvVars
          /\ app[r].database \in BOOLEAN
      BY <1>2 DEF TypeOK, AppRow, StartRedeploy
    <3>2. FirstDeploy(app[r]) \in BOOLEAN
      BY DEF FirstDeploy
    <3> QED
      BY <3>1, <3>2, NewTaskType DEF Task, Steps
  <2> HIDE DEF new
  <2>2. task' = [task EXCEPT ![t] = new]
    BY <1>2 DEF StartRedeploy, new
  <2>3. task' \in [Tasks -> Task] /\ (\A u \in Tasks \ {t} : task'[u] = task[u])
        /\ task'[t] = new
    BY <2>1, <2>2 DEF TypeOK
  <2>4. Grounded(t)'
    BY <2>1, <2>3 DEF Grounded
  <2> QED
    BY <1>2, <2>3, <2>4, TypeFrame DEF StartRedeploy, TypeOK, history
<1>3. ASSUME NEW r \in Rows, StartDelete(t, r)
      PROVE  TypeOK'
  <2> DEFINE new == [NewTask EXCEPT !.op = "delete", !.pc = "deleting",
                       !.row = r]
  <2>1. new \in Task /\ new.pc = "deleting" /\ new.row = r
    BY NewTaskType DEF Task, Steps
  <2> HIDE DEF new
  <2>2. task' = [task EXCEPT ![t] = new]
    BY <1>3 DEF StartDelete, new
  <2>3. task' \in [Tasks -> Task] /\ (\A u \in Tasks \ {t} : task'[u] = task[u])
        /\ task'[t] = new
    BY <2>1, <2>2 DEF TypeOK
  <2>4. Grounded(t)'
    BY <2>1, <2>3 DEF Grounded
  <2>5. app' \in [Rows -> AppRow]
    <3>1. Deletion(app[r], "DELETING") \in AppRow
      BY RowWrites DEF TypeOK, Statuses
    <3> QED
      BY <1>3, <3>1 DEF StartDelete, SetRow, TypeOK
  <2> QED
    BY <1>3, <2>3, <2>4, <2>5, TypeFrame DEF StartDelete, TypeOK, history
<1>4. ASSUME NEW r \in Rows, StartEdit(t, r)
      PROVE  TypeOK'
  <2> DEFINE new == [NewTask EXCEPT !.op = "edit", !.pc = "edit", !.row = r]
  <2>1. new \in Task /\ new.pc = "edit" /\ new.row = r
    BY NewTaskType DEF Task, Steps
  <2> HIDE DEF new
  <2>2. task' = [task EXCEPT ![t] = new]
    BY <1>4 DEF StartEdit, new
  <2>3. task' \in [Tasks -> Task] /\ (\A u \in Tasks \ {t} : task'[u] = task[u])
        /\ task'[t] = new
    BY <2>1, <2>2 DEF TypeOK
  <2>4. Grounded(t)'
    BY <2>1, <2>3 DEF Grounded
  <2> QED
    BY <1>4, <2>3, <2>4, TypeFrame DEF StartEdit, TypeOK, history
<1> QED
  BY <1>1, <1>2, <1>3, <1>4 DEF Start

\* What an active request holds.
LEMMA ActiveTask ==
  ASSUME TypeOK, NEW t \in Tasks, Active(t)
  PROVE  /\ task[t] \in Task
         /\ task[t].row \in Rows
         /\ app[task[t].row] \in AppRow
         /\ AppId(task[t].row) \in AppIds
         /\ task[t].pc \notin {"deleting", "deleted", "undeleted", "edit"}
              => task[t].bundle \in Bundles
  BY DEF TypeOK, Grounded, Active, AppId, Rows

\* Writing one row keeps the rows typed.
LEMMA SetRowType ==
  ASSUME TypeOK, NEW r \in Rows, NEW row \in AppRow, SetRow(r, row)
  PROVE  app' \in [Rows -> AppRow]
  BY DEF TypeOK, SetRow

LEMMA TypeUploadSteps ==
  ASSUME TypeOK, NEW t \in Tasks,
         CheckBusy(t) \/ WriteDeploying(t) \/ StoreBundle(t) \/ LoseBundle(t)
           \/ WriteDraft(t)
  PROVE  TypeOK'
<1> USE DEF history
<1>0. /\ app \in [Rows -> AppRow] /\ timeouts \in [Rows -> Nat]
      /\ misled \subseteq AppIds
  BY DEF TypeOK
<1>1. CASE CheckBusy(t)
  <2>1. Active(t) /\ task[t].bundle \in Bundles
    BY <1>1, ActiveTask DEF CheckBusy, At, Active
  <2>2. CASE Finish(t)
    BY <1>0, <1>1, <2>2, TypeFinish DEF CheckBusy
  <2>3. CASE Goto(t, "clear")
    BY <1>0, <1>1, <2>1, <2>3, TypeGoto DEF CheckBusy, Steps
  <2> QED
    BY <1>1, <2>2, <2>3 DEF CheckBusy
<1>2. CASE WriteDeploying(t)
  <2> DEFINE r == task[t].row
  <2>1. Active(t) /\ task[t].bundle \in Bundles /\ r \in Rows
        /\ task[t] \in Task /\ app[r] \in AppRow
    BY <1>2, ActiveTask DEF WriteDeploying, At, Active
  <2>2. app' \in [Rows -> AppRow]
    <3>1. Uploaded(app[r], task[t].bundle, task[t].database) \in AppRow
      BY <2>1, RowWrites DEF Task
    <3> QED
      BY <1>2, <2>1, <3>1, SetRowType DEF WriteDeploying
  <2>3. task' \in [Tasks -> Task] /\ (\A u \in Tasks \ {t} : task'[u] = task[u])
        /\ task'[t].row = task[t].row /\ task'[t].bundle = task[t].bundle
    <3>1. FirstDeploy(app[r]) \in BOOLEAN /\ app[r].provided \in SUBSET EnvVars
      BY <2>1 DEF FirstDeploy, AppRow
    <3>2. [task[t] EXCEPT !.pc = "upload", !.first = FirstDeploy(app[r]),
                          !.names = app[r].provided] \in Task
      BY <2>1, <3>1 DEF Task, Steps
    <3> QED
      BY <1>2, <3>2 DEF WriteDeploying, TypeOK, Task
  <2>4. Grounded(t)'
    BY <2>1, <2>3 DEF Grounded, Active
  <2>5. timeouts' \in [Rows -> Nat]
    BY <1>0, <1>2 DEF WriteDeploying
  <2> QED
    BY <1>0, <1>2, <2>2, <2>3, <2>4, <2>5, TypeFrame DEF WriteDeploying
<1>3. CASE StoreBundle(t)
  <2>1. Active(t) /\ task[t].bundle \in Bundles
        /\ AppId(task[t].row) \in AppIds
    BY <1>3, ActiveTask DEF StoreBundle, Uploading, At, Active
  <2>2. task' \in [Tasks -> Task] /\ (\A u \in Tasks \ {t} : task'[u] = task[u])
        /\ Grounded(t)'
    <3>1. PICK step \in {"proxy", "draftRow"} : Goto(t, step)
      BY <1>3 DEF StoreBundle
    <3>2. step \in Steps
      BY DEF Steps
    <3> QED
      BY <2>1, <3>1, <3>2, GroundedGoto
  <2>3. stored' \subseteq AppIds \X Bundles
    BY <1>3, <2>1 DEF StoreBundle, TypeOK
  <2>4. ASSUME NEW u \in Tasks
        PROVE  Grounded(u)'
    BY <2>2 DEF TypeOK, Grounded, Active
  <2> QED
    BY <1>3, <2>2, <2>3, <2>4 DEF StoreBundle, TypeOK
<1>4. CASE LoseBundle(t)
  <2>1. Active(t) /\ task[t].bundle \in Bundles /\ task[t].row \in Rows
    BY <1>4, ActiveTask DEF LoseBundle, Uploading, At, Active
  <2>2. CASE Finish(t)
    BY <1>0, <1>4, <2>2, TypeFinish DEF LoseBundle
  <2>3. CASE GiveUp(t, "build")
    BY <1>0, <1>4, <2>1, <2>3, TypeGiveUp DEF LoseBundle, Streams
  <2> QED
    BY <1>4, <2>2, <2>3 DEF LoseBundle
<1>5. CASE WriteDraft(t)
  <2> DEFINE r == task[t].row
  <2>1. task[t].bundle \in Bundles /\ r \in Rows /\ task[t] \in Task
        /\ app[r] \in AppRow
    BY <1>5, ActiveTask DEF WriteDraft, At, Active
  <2>2. Drafted(app[r], task[t].bundle, task[t].database, task[t].given)
          \in AppRow
    BY <2>1, RowWrites DEF Task
  <2>3. app' \in [Rows -> AppRow]
    BY <1>5, <2>1, <2>2, SetRowType DEF WriteDraft
  <2> QED
    BY <1>0, <1>5, <2>3, TypeFinish DEF WriteDraft
<1> QED
  BY <1>1, <1>2, <1>3, <1>4, <1>5

LEMMA TypeSecretSteps ==
  ASSUME TypeOK, NEW t \in Tasks,
         CheckClaim(t) \/ StoreSecrets(t) \/ LoseSecrets(t) \/ RecordNames(t)
  PROVE  TypeOK'
<1> USE DEF history
<1>0. /\ app \in [Rows -> AppRow] /\ timeouts \in [Rows -> Nat]
      /\ misled \subseteq AppIds
  BY DEF TypeOK
<1>1. CASE CheckClaim(t)
  <2>1. Active(t) /\ task[t].bundle \in Bundles
    BY <1>1, ActiveTask DEF CheckClaim, At, Active
  <2>2. CASE Finish(t)
    BY <1>0, <1>1, <2>2, TypeFinish DEF CheckClaim
  <2>3. CASE Goto(t, "proxy") \/ Goto(t, "secrets")
    BY <1>0, <1>1, <2>1, <2>3, TypeGoto DEF CheckClaim, Steps
  <2> QED
    BY <1>1, <2>2, <2>3 DEF CheckClaim
<1>2. CASE StoreSecrets(t)
  <2>1. Active(t) /\ task[t].bundle \in Bundles /\ task[t] \in Task
        /\ AppId(task[t].row) \in AppIds
    BY <1>2, ActiveTask DEF StoreSecrets, At, Active
  <2>2. task' \in [Tasks -> Task] /\ (\A u \in Tasks \ {t} : task'[u] = task[u])
        /\ Grounded(t)'
    <3>1. Goto(t, "names") /\ "names" \in Steps
      BY <1>2 DEF StoreSecrets, Steps
    <3> QED
      BY <2>1, <3>1, GroundedGoto
  <2>3. secrets' \in [AppIds -> SUBSET EnvVars]
    <3>1. task[t].given \in SUBSET EnvVars
      BY <2>1 DEF Task
    <3> QED
      BY <1>2, <2>1, <3>1 DEF StoreSecrets, TypeOK, Merged
  <2>4. ASSUME NEW u \in Tasks
        PROVE  Grounded(u)'
    BY <2>2 DEF TypeOK, Grounded, Active
  <2> QED
    BY <1>2, <2>2, <2>3, <2>4 DEF StoreSecrets, TypeOK
<1>3. CASE LoseSecrets(t)
  BY <1>0, <1>3, TypeFinish DEF LoseSecrets
<1>4. CASE RecordNames(t)
  <2> DEFINE r == task[t].row
  <2>1. Active(t) /\ task[t].bundle \in Bundles /\ r \in Rows
        /\ task[t] \in Task /\ app[r] \in AppRow
    BY <1>4, ActiveTask DEF RecordNames, At, Active
  <2>2. Named(app[r], task[t].names) \in AppRow
    BY <2>1, RowWrites DEF Task
  <2>3. app' \in [Rows -> AppRow]
    BY <1>4, <2>1, <2>2, SetRowType DEF RecordNames
  <2> QED
    BY <1>0, <1>4, <2>1, <2>3, TypeGoto DEF RecordNames, Steps
<1> QED
  BY <1>1, <1>2, <1>3, <1>4

LEMMA TypeBuildSteps ==
  ASSUME TypeOK, NEW t \in Tasks,
         StartProxy(t) \/ BuildReply(t) \/ BuildTimeout(t) \/ AppAnswers(t)
           \/ AppSilent(t)
  PROVE  TypeOK'
<1> USE DEF history
<1>0. /\ app \in [Rows -> AppRow] /\ timeouts \in [Rows -> Nat]
      /\ misled \subseteq AppIds
  BY DEF TypeOK
<1>1. CASE StartProxy(t)
  <2> DEFINE r == task[t].row
             job == [phase |-> "running", row |-> r, bundle |-> task[t].bundle]
  <2>1. Active(t) /\ task[t].bundle \in Bundles /\ r \in Rows
        /\ app[r] \in AppRow
    BY <1>1, ActiveTask DEF StartProxy, At, Active
  <2>2. app' \in [Rows -> AppRow]
    <3>1. Proxied(app[r], task[t].bundle) \in AppRow
      BY <2>1, RowWrites
    <3> QED
      BY <1>1, <2>1, <3>1, SetRowType DEF StartProxy
  <2>3. task' \in [Tasks -> Task] /\ \A u \in Tasks : Grounded(u)'
    <3>1. Goto(t, "building") /\ "building" \in Steps
      BY <1>1 DEF StartProxy, Steps
    <3> QED
      BY <2>1, <3>1, GroundedGoto
  <2>4. build' \in [Tasks -> Build]
        /\ \A u \in Tasks : build'[u].phase # "none" => build'[u].row \in Rows
    <3>1. job \in Build /\ job.row \in Rows
      BY <2>1 DEF Build
    <3>2. build' = [build EXCEPT ![t] = job]
      BY <1>1 DEF StartProxy
    <3> HIDE DEF job
    <3> QED
      BY <3>1, <3>2 DEF TypeOK
  <2>5. timeouts' \in [Rows -> Nat]
    BY <1>0, <1>1 DEF StartProxy
  <2> QED
    BY <1>1, <2>2, <2>3, <2>4, <2>5 DEF StartProxy, TypeOK
<1>2. CASE BuildReply(t)
  <2>1. Active(t) /\ task[t].bundle \in Bundles
    BY <1>2, ActiveTask DEF BuildReply, At, Active
  <2>2. CASE Goto(t, AfterBuild(t))
    BY <1>0, <1>2, <2>1, <2>2, TypeGoto DEF BuildReply, AfterBuild, Steps
  <2>3. CASE GiveUp(t, "build")
    BY <1>0, <1>2, <2>1, <2>3, TypeGiveUp DEF BuildReply, Streams
  <2> QED
    BY <1>2, <2>2, <2>3 DEF BuildReply
<1>3. CASE BuildTimeout(t)
  <2>1. Active(t) /\ task[t].bundle \in Bundles
    BY <1>3, ActiveTask DEF BuildTimeout, At, Active
  <2> QED
    BY <1>0, <1>3, <2>1, TypeGoto DEF BuildTimeout, Steps
<1>4. CASE AppAnswers(t)
  <2>1. Active(t) /\ task[t].bundle \in Bundles /\ task[t] \in Task
        /\ task[t].row \in Rows
    BY <1>4, ActiveTask DEF AppAnswers, Active
  <2>0. misled' \subseteq AppIds
    BY <1>0, <1>4, <2>1, ActiveTask DEF AppAnswers
  <2>2. CASE Goto(t, AfterBuild(t))
    BY <1>0, <1>4, <2>0, <2>1, <2>2, TypeGoto DEF AppAnswers, AfterBuild, Steps
  <2>3. CASE task' = [task EXCEPT ![t] =
               [@ EXCEPT !.pc = "ready", !.database = FALSE]]
    <3> DEFINE new == [task[t] EXCEPT !.pc = "ready", !.database = FALSE]
    <3>1. new \in Task
      BY <2>1 DEF Task, Steps
    <3>2. new.row = task[t].row
      BY <2>1 DEF Task
    <3>3. new.bundle = task[t].bundle
      BY <2>1 DEF Task
    <3>4. task' = [task EXCEPT ![t] = new]
      BY <2>3
    <3> HIDE DEF new
    <3>5. task' \in [Tasks -> Task]
          /\ (\A u \in Tasks \ {t} : task'[u] = task[u]) /\ task'[t] = new
      BY <3>1, <3>4 DEF TypeOK
    <3>6. Grounded(t)'
      BY <2>1, <3>2, <3>3, <3>5 DEF Grounded
    <3> QED
      BY <1>0, <1>4, <2>0, <3>5, <3>6, TypeFrame DEF AppAnswers
  <2> QED
    BY <1>4, <2>2, <2>3 DEF AppAnswers
<1>5. CASE AppSilent(t)
  <2>1. Active(t) /\ task[t].bundle \in Bundles
    BY <1>5, ActiveTask DEF AppSilent, At, Active
  <2>2. PICK stream \in Streams : GiveUp(t, stream)
    BY <1>5 DEF AppSilent, Streams
  <2> QED
    BY <1>0, <1>5, <2>1, <2>2, TypeGiveUp DEF AppSilent
<1> QED
  BY <1>1, <1>2, <1>3, <1>4, <1>5

LEMMA InjectedType ==
  ASSUME TypeOK, NEW t \in Tasks, At(t, "inject")
  PROVE  Injected(t) \in Release
<1>1. task[t] \in Task /\ task[t].row \in Rows /\ task[t].bundle \in Bundles
  BY ActiveTask DEF At, Active
<1> QED
  BY <1>1 DEF Injected, ReleaseOf, Release, Task

LEMMA TypeInjectSteps ==
  ASSUME TypeOK, NEW t \in Tasks,
         ReadRegistry(t) \/ Inject(t) \/ InjectLocked(t) \/ InjectFails(t)
           \/ InjectTimeout(t)
  PROVE  TypeOK'
<1> USE DEF history
<1>0. /\ app \in [Rows -> AppRow] /\ timeouts \in [Rows -> Nat]
      /\ misled \subseteq AppIds
  BY DEF TypeOK
<1>1. CASE ReadRegistry(t)
  <2> DEFINE a == AppId(task[t].row)
             new == [task[t] EXCEPT !.pc = "inject", !.bundle = release[a].bundle]
  <2>1. Active(t) /\ task[t] \in Task /\ task[t].row \in Rows /\ a \in AppIds
    BY <1>1, ActiveTask DEF ReadRegistry, At, Active
  <2>2. release[a].bundle \in Bundles
    BY <1>1, <2>1 DEF ReadRegistry, TypeOK, Release
  <2>3. new \in Task
    BY <2>1, <2>2 DEF Task, Steps
  <2>4. new.row = task[t].row
    BY <2>1 DEF Task
  <2>5. new.bundle \in Bundles
    BY <2>1, <2>2 DEF Task
  <2>6. task' = [task EXCEPT ![t] = new]
    BY <1>1 DEF ReadRegistry
  <2> HIDE DEF new
  <2>7. task' \in [Tasks -> Task]
        /\ (\A u \in Tasks \ {t} : task'[u] = task[u]) /\ task'[t] = new
    BY <2>3, <2>6 DEF TypeOK
  <2>8. Grounded(t)'
    BY <2>1, <2>4, <2>5, <2>7 DEF Grounded
  <2> QED
    BY <1>0, <1>1, <2>7, <2>8, TypeFrame DEF ReadRegistry
<1>2. CASE Inject(t) \/ InjectTimeout(t)
  <2>1. Active(t) /\ task[t].bundle \in Bundles
        /\ AppId(task[t].row) \in AppIds
    BY <1>2, ActiveTask DEF Inject, InjectTimeout, At, Active
  <2>2. task' \in [Tasks -> Task] /\ \A u \in Tasks : Grounded(u)'
    <3>1. PICK step \in Steps : Goto(t, step)
      BY <1>2 DEF Inject, InjectTimeout, Steps
    <3> QED
      BY <2>1, <3>1, GroundedGoto
  <2>3. release' \in [AppIds -> Release \cup {None}]
    <3>1. Injected(t) \in Release
      BY <1>2, InjectedType DEF Inject, InjectTimeout
    <3> QED
      BY <1>2, <2>1, <3>1 DEF Inject, InjectTimeout, TypeOK
  <2> QED
    BY <1>2, <2>2, <2>3 DEF Inject, InjectTimeout, TypeOK
<1>3. CASE InjectLocked(t)
  <2> DEFINE new == [task[t] EXCEPT !.tries = @ + 1]
  <2>1. Active(t) /\ task[t] \in Task
    BY <1>3, ActiveTask DEF InjectLocked, At, Active
  <2>2. new \in Task
    <3>1. task[t].tries + 1 \in 0 .. HelmRetries
      BY <1>3, <2>1, Assumptions DEF InjectLocked, LockRetryLeft, Task
    <3> QED
      BY <2>1, <3>1 DEF Task
  <2>3. new.row = task[t].row
    BY <2>1 DEF Task
  <2>4. new.bundle = task[t].bundle
    BY <2>1 DEF Task
  <2>5. new.pc = task[t].pc
    BY <2>1 DEF Task
  <2>6. task' = [task EXCEPT ![t] = new]
    BY <1>3 DEF InjectLocked
  <2> HIDE DEF new
  <2>7. task' \in [Tasks -> Task]
        /\ (\A u \in Tasks \ {t} : task'[u] = task[u]) /\ task'[t] = new
    BY <2>2, <2>6 DEF TypeOK
  <2>8. Grounded(t)'
    BY <2>3, <2>4, <2>5, <2>7 DEF TypeOK, Grounded, Active
  <2> QED
    BY <1>0, <1>3, <2>7, <2>8, TypeFrame DEF InjectLocked
<1>4. CASE InjectFails(t)
  <2>1. Active(t) /\ task[t].bundle \in Bundles
    BY <1>4, ActiveTask DEF InjectFails, Active
  <2> QED
    BY <1>0, <1>4, <2>1, TypeGiveUp DEF InjectFails, Streams
<1> QED
  BY <1>1, <1>2, <1>3, <1>4

LEMMA TypeOutcomeSteps ==
  ASSUME TypeOK, NEW t \in Tasks,
         MarkReady(t) \/ Announce(t) \/ FailDeploy(t)
  PROVE  TypeOK'
<1> USE DEF history
<1>0. /\ app \in [Rows -> AppRow] /\ timeouts \in [Rows -> Nat]
      /\ misled \subseteq AppIds
  BY DEF TypeOK
<1>1. CASE MarkReady(t)
  <2> DEFINE r == task[t].row
  <2>1. Active(t) /\ task[t].bundle \in Bundles /\ r \in Rows
        /\ task[t] \in Task /\ app[r] \in AppRow
    BY <1>1, ActiveTask DEF MarkReady, At, Active
  <2>2. app' \in [Rows -> AppRow]
    <3>1. Shipped(app[r], task[t].database) \in AppRow
      BY <2>1, RowWrites DEF Task
    <3> QED
      BY <1>1, <2>1, <3>1, SetRowType DEF MarkReady
  <2>3. CASE Goto(t, "announce")
    BY <1>0, <1>1, <2>1, <2>2, <2>3, TypeGoto DEF MarkReady, Steps
  <2>4. CASE Finish(t)
    BY <1>0, <1>1, <2>2, <2>4, TypeFinish DEF MarkReady
  <2> QED
    BY <1>1, <2>3, <2>4 DEF MarkReady
<1>2. CASE Announce(t)
  <2>1. task' \in [Tasks -> Task] /\ \A u \in Tasks : Grounded(u)'
    BY <1>2, FinishTask DEF Announce, TypeOK, Grounded, Active
  <2>2. announced' \in [Rows -> Nat]
    <3>1. task[t].row \in Rows
      BY <1>2, ActiveTask DEF Announce, At, Active
    <3> QED
      BY <1>2, <3>1 DEF Announce, TypeOK
  <2> QED
    BY <1>2, <2>1, <2>2 DEF Announce, TypeOK, runnerVars
<1>3. CASE FailDeploy(t)
  <2> DEFINE r == task[t].row
  <2>1. r \in Rows /\ task[t] \in Task /\ app[r] \in AppRow
    BY <1>3, ActiveTask DEF FailDeploy, At, Active
  <2>2. Failed(app[r], task[t].failure) \in AppRow
    BY <2>1, RowWrites DEF Task
  <2>3. app' \in [Rows -> AppRow]
    BY <1>3, <2>1, <2>2, SetRowType DEF FailDeploy
  <2> QED
    BY <1>0, <1>3, <2>3, TypeFinish DEF FailDeploy
<1> QED
  BY <1>1, <1>2, <1>3

LEMMA TypeDeleteSteps ==
  ASSUME TypeOK, NEW t \in Tasks,
         TearDown(t) \/ RefuseTearDown(t) \/ RecordDelete(t) \/ WriteEdit(t)
  PROVE  TypeOK'
<1> USE DEF history
<1>0. /\ app \in [Rows -> AppRow] /\ timeouts \in [Rows -> Nat]
      /\ misled \subseteq AppIds
  BY DEF TypeOK
<1>1. CASE TearDown(t)
  <2>1. Active(t) /\ AppId(task[t].row) \in AppIds
    BY <1>1, ActiveTask DEF TearDown, At, Active
  <2>2. task' \in [Tasks -> Task] /\ \A u \in Tasks : Grounded(u)'
    <3>1. PICK step \in {"deleted", "undeleted"} : Goto(t, step)
      BY <1>1 DEF TearDown, Goto
    <3>2. step \in Steps
      BY DEF Steps
    <3>3. /\ task' \in [Tasks -> Task]
          /\ \A u \in Tasks \ {t} : task'[u] = task[u]
          /\ task'[t].pc \in {"deleted", "undeleted"}
          /\ task'[t].row = task[t].row
      BY <3>1, <3>2, GotoTask DEF TypeOK
    <3>4. task[t].row \in Rows
      BY <2>1, ActiveTask
    <3>5. ASSUME NEW u \in Tasks
          PROVE  Grounded(u)'
      BY <3>3, <3>4 DEF TypeOK, Grounded, Active
    <3> QED
      BY <3>3, <3>5
  <2>3. release' \in [AppIds -> Release \cup {None}]
    BY <1>1, <2>1 DEF TearDown, TypeOK
  <2> QED
    BY <1>1, <2>2, <2>3 DEF TearDown, TypeOK
<1>2. CASE RefuseTearDown(t)
  <2>1. Active(t)
    BY <1>2 DEF RefuseTearDown, At, Active
  <2> QED
    BY <1>0, <1>2, <2>1, TypeGoto DEF RefuseTearDown, Steps
<1>3. CASE RecordDelete(t)
  <2> DEFINE r == task[t].row
  <2>1. r \in Rows /\ app[r] \in AppRow
    BY <1>3, ActiveTask DEF RecordDelete, Active
  <2>2. Deletion(app[r], DeleteVerdict(t)) \in AppRow
    <3>1. DeleteVerdict(t) \in Statuses
      BY DEF DeleteVerdict, Statuses
    <3> QED
      BY <2>1, <3>1, RowWrites
  <2>3. app' \in [Rows -> AppRow]
    BY <1>3, <2>1, <2>2, SetRowType DEF RecordDelete
  <2> QED
    BY <1>0, <1>3, <2>3, TypeFinish DEF RecordDelete
<1>4. CASE WriteEdit(t)
  <2> DEFINE r == task[t].row
  <2>1. r \in Rows /\ app[r] \in AppRow
    BY <1>4, ActiveTask DEF WriteEdit, At, Active
  <2>2. app' \in [Rows -> AppRow]
    BY <1>4, <2>1, RowWrites, SetRowType DEF WriteEdit
  <2> QED
    BY <1>0, <1>4, <2>2, TypeFinish DEF WriteEdit
<1> QED
  BY <1>1, <1>2, <1>3, <1>4

LEMMA TypeEnvironment ==
  ASSUME TypeOK,
         \/ \E t \in Tasks : Runner(t) \/ Crash(t)
         \/ \E d \in Readers : Settle(d)
         \/ \E r \in Rows : Age(r)
  PROVE  TypeOK'
<1> USE DEF history
<1>0. /\ app \in [Rows -> AppRow] /\ timeouts \in [Rows -> Nat]
      /\ misled \subseteq AppIds
  BY DEF TypeOK
<1>1. ASSUME NEW t \in Tasks, RunnerBuilds(t)
      PROVE  TypeOK'
  <2> DEFINE job == build[t]
  <2>1. job \in Build /\ job.row \in Rows
    BY <1>1 DEF RunnerBuilds, TypeOK
  <2>2. AppId(job.row) \in AppIds
    BY <2>1 DEF AppId, Rows
  <2>3. job.bundle \in Bundles
    BY <1>1 DEF RunnerBuilds, TypeOK
  <2>4. ReleaseOf(job.row, job.bundle, {}, FALSE) \in Release
    BY <2>1, <2>3 DEF ReleaseOf, Release
  <2>5. release' \in [AppIds -> Release \cup {None}]
    BY <1>1, <2>2, <2>4 DEF RunnerBuilds, TypeOK
  <2>6. build' \in [Tasks -> Build]
        /\ \A u \in Tasks : build'[u].phase # "none" => build'[u].row \in Rows
    BY <1>1, <2>1 DEF RunnerBuilds, TypeOK, Build
  <2>7. everUp' \subseteq AppIds
    BY <1>1, <2>2 DEF RunnerBuilds, TypeOK
  <2> QED
    BY <1>1, <2>5, <2>6, <2>7 DEF RunnerBuilds, TypeOK, Grounded, Active
<1>2. ASSUME NEW t \in Tasks, RunnerFails(t)
      PROVE  TypeOK'
  <2>1. build' \in [Tasks -> Build]
        /\ \A u \in Tasks : build'[u].phase # "none" => build'[u].row \in Rows
    BY <1>2 DEF RunnerFails, TypeOK, Build
  <2> QED
    BY <1>2, <2>1 DEF RunnerFails, TypeOK, Grounded, Active
<1>3. ASSUME NEW t \in Tasks, Crash(t)
      PROVE  TypeOK'
  BY <1>0, <1>3, TypeFinish DEF Crash
<1>4. ASSUME NEW d \in Readers, NEW r \in Rows, SettleRead(d, r)
      PROVE  TypeOK'
  <2>1. reader' \in [Readers -> Rows \cup {None}]
    BY <1>4 DEF SettleRead, TypeOK
  <2> QED
    BY <1>4, <2>1 DEF SettleRead, TypeOK, Grounded, Active, runnerVars
<1>5. ASSUME NEW d \in Readers, SettleWrite(d)
      PROVE  TypeOK'
  <2> DEFINE r == reader[d]
  <2>1. r \in Rows /\ app[r] \in AppRow
    BY <1>5 DEF SettleWrite, TypeOK
  <2>2. app' \in [Rows -> AppRow]
    <3>1. Failed(app[r], "none") \in AppRow
      BY <2>1, RowWrites DEF Streams
    <3> QED
      BY <1>0, <1>5, <2>1, <3>1, SetRowType DEF SettleWrite
  <2>3. timeouts' \in [Rows -> Nat]
    BY <1>0, <1>5, <2>1 DEF SettleWrite
  <2>4. reader' \in [Readers -> Rows \cup {None}]
    BY <1>5 DEF SettleWrite, TypeOK
  <2> QED
    BY <1>5, <2>2, <2>3, <2>4 DEF SettleWrite, TypeOK, Grounded, Active, runnerVars
<1>6. ASSUME NEW r \in Rows, Age(r)
      PROVE  TypeOK'
  <2>1. app' \in [Rows -> AppRow]
    BY <1>0, <1>6, RowWrites, SetRowType DEF Age
  <2> QED
    BY <1>6, <2>1 DEF Age, TypeOK, Grounded, Active, runnerVars
<1> QED
  BY <1>1, <1>2, <1>3, <1>4, <1>5, <1>6 DEF Runner, Settle

LEMMA TypeNext == TypeOK /\ [Next]_vars => TypeOK'
<1> SUFFICES ASSUME TypeOK, [Next]_vars
             PROVE  TypeOK'
  OBVIOUS
<1>1. ASSUME NEW t \in Tasks, Step(t)
      PROVE  TypeOK'
  BY <1>1, TypeUploadSteps, TypeSecretSteps, TypeBuildSteps, TypeInjectSteps,
     TypeOutcomeSteps, TypeDeleteSteps DEF Step
<1>2. CASE UNCHANGED vars
  BY <1>2 DEF vars, TypeOK, Grounded, Active
<1> QED
  BY <1>1, <1>2, TypeStart, TypeEnvironment DEF Next

\* The variables stay in their types, and no request loses its row or bundle.
THEOREM TypeCorrect == Spec => []TypeOK
<1> QED
  BY TypeInit, TypeNext, PTL DEF Spec

-----------------------------------------------------------------------------
(* How a step may move a request, and how it may write a row.              *)

\* A request starts with nothing but what it read of its row.
LEMMA StartTask ==
  ASSUME TypeOK, NEW t \in Tasks, Start(t)
  PROVE  /\ \A u \in Tasks \ {t} : task'[u] = task[u]
         /\ task'[t].pc \in {"claimed", "reclaim", "deleting", "edit"}
         /\ task'[t].pc = "reclaim" =>
              \E r \in Rows, given \in SUBSET EnvVars :
                /\ StartRedeploy(t, r, given)
                /\ task'[t].row = r
                /\ task'[t].given = given
                /\ task'[t].names = app[r].provided \cup given
         /\ task'[t].first =>
              task'[t].row \in Rows /\ ~app[task'[t].row].shipped
         /\ UNCHANGED <<reader, runnerVars, history>>
<1>1. ASSUME NEW r \in Rows, NEW b, NEW db, NEW op, NEW needed,
             StartUpload(t, op, r, b, db, needed)
      PROVE  /\ \A u \in Tasks \ {t} : task'[u] = task[u]
             /\ task'[t].pc = "claimed"
             /\ ~task'[t].first
             /\ UNCHANGED <<reader, runnerVars, history>>
  BY <1>1 DEF StartUpload, TypeOK, NewTask
<1>2. ASSUME NEW r \in Rows, NEW given \in SUBSET EnvVars,
             StartRedeploy(t, r, given)
      PROVE  /\ \A u \in Tasks \ {t} : task'[u] = task[u]
             /\ task'[t].pc = "reclaim"
             /\ task'[t].row = r
             /\ task'[t].given = given
             /\ task'[t].names = app[r].provided \cup given
             /\ task'[t].first => ~app[r].shipped
             /\ UNCHANGED <<reader, runnerVars, history>>
  <2> DEFINE new == [NewTask EXCEPT !.op = "redeploy", !.pc = "reclaim",
                       !.row = r, !.bundle = app[r].bundle,
                       !.first = FirstDeploy(app[r]),
                       !.names = app[r].provided \cup given, !.given = given,
                       !.database = app[r].database]
  <2>1. new.pc = "reclaim" /\ new.row = r /\ new.given = given
        /\ new.names = app[r].provided \cup given
        /\ new.first = ~app[r].shipped
    BY DEF NewTask, FirstDeploy
  <2>2. task' = [task EXCEPT ![t] = new]
    BY <1>2 DEF StartRedeploy, new
  <2> HIDE DEF new
  <2> QED
    BY <1>2, <2>1, <2>2 DEF StartRedeploy, TypeOK
<1>3. ASSUME NEW r \in Rows, StartDelete(t, r)
      PROVE  /\ \A u \in Tasks \ {t} : task'[u] = task[u]
             /\ task'[t].pc = "deleting" /\ ~task'[t].first
             /\ UNCHANGED <<reader, runnerVars, history>>
  <2> DEFINE new == [NewTask EXCEPT !.op = "delete", !.pc = "deleting", !.row = r]
  <2>1. new.pc = "deleting" /\ ~new.first
    BY DEF NewTask
  <2>2. task' = [task EXCEPT ![t] = new] /\ UNCHANGED <<reader, runnerVars, history>>
    BY <1>3 DEF StartDelete
  <2> HIDE DEF new
  <2> QED
    BY <2>1, <2>2 DEF TypeOK
<1>4. ASSUME NEW r \in Rows, StartEdit(t, r)
      PROVE  /\ \A u \in Tasks \ {t} : task'[u] = task[u]
             /\ task'[t].pc = "edit" /\ ~task'[t].first
             /\ UNCHANGED <<reader, runnerVars, history>>
  <2> DEFINE new == [NewTask EXCEPT !.op = "edit", !.pc = "edit", !.row = r]
  <2>1. new.pc = "edit" /\ ~new.first
    BY DEF NewTask
  <2>2. task' = [task EXCEPT ![t] = new] /\ UNCHANGED <<reader, runnerVars, history>>
    BY <1>4 DEF StartEdit
  <2> HIDE DEF new
  <2> QED
    BY <2>1, <2>2 DEF TypeOK
<1>5. ASSUME NEW r \in Rows, NEW given \in SUBSET EnvVars,
             StartRedeploy(t, r, given)
      PROVE  task'[t].first => task'[t].row \in Rows /\ ~app[task'[t].row].shipped
  <2>1. task'[t].row = r /\ (task'[t].first => ~app[r].shipped)
    BY <1>2, <1>5
  <2> QED
    BY <2>1
<1> QED
  BY <1>1, <1>2, <1>3, <1>4, <1>5 DEF Start

\* The ways a row is written.  It goes DEPLOYING, and may time out again.
Launched(r) ==
  \E row \in AppRow :
    /\ SetRow(r, row)
    /\ row.status = "DEPLOYING"
    /\ row.shipped = app[r].shipped
    /\ row.provided = app[r].provided
    /\ timeouts' = [timeouts EXCEPT ![r] = 0]

\* It leaves READY or DEPLOYING, its ships kept.
Demoted(r) ==
  \E row \in AppRow :
    /\ SetRow(r, row)
    /\ row.status \notin {"READY", "DEPLOYING"}
    /\ row.shipped = app[r].shipped
    /\ row.provided = app[r].provided

Parked(r) == Demoted(r) /\ UNCHANGED timeouts

\* A stuck deploy is settled.
Settled(r) ==
  /\ Demoted(r)
  /\ StillDeploying(r)
  /\ timeouts' = [timeouts EXCEPT ![r] = @ + 1]

\* Status, ships and failure stay; the names may be those of a request.
Touched(r) ==
  /\ \E row \in AppRow :
       /\ SetRow(r, row)
       /\ row.status = app[r].status
       /\ row.shipped = app[r].shipped
       /\ row.failure = app[r].failure
       /\ \/ row.provided = app[r].provided
          \/ \E t \in Tasks : /\ At(t, "names")
                              /\ task[t].row = r
                              /\ row.provided = task[t].names
  /\ UNCHANGED timeouts

\* It ships.
Promoted(r) ==
  /\ \E row \in AppRow :
       /\ SetRow(r, row)
       /\ row.status = "READY"
       /\ row.shipped
       /\ row.failure = "none"
       /\ row.provided = app[r].provided
  /\ UNCHANGED timeouts

\* The last step of each case: a write with the stated fields.
LEMMA Demotes ==
  ASSUME NEW r \in Rows, NEW row \in AppRow, SetRow(r, row),
         row.status \notin {"READY", "DEPLOYING"},
         row.shipped = app[r].shipped, row.provided = app[r].provided
  PROVE  Demoted(r)
  BY DEF Demoted

\* A step writes at most one row, in one of the ways above.
LEMMA RowStep ==
  ASSUME TypeOK, Next
  PROVE  \/ UNCHANGED <<app, timeouts>>
         \/ \E r \in Rows : Launched(r) \/ Parked(r) \/ Settled(r) \/ Touched(r)
         \/ \E t \in Tasks :
              MarkReady(t) /\ At(t, "ready") /\ Promoted(task[t].row)
<1>1. ASSUME NEW t \in Tasks, WriteDeploying(t)
      PROVE  \E r \in Rows : Launched(r)
  <2> DEFINE row == Uploaded(app[task[t].row], task[t].bundle, task[t].database)
  <2>1. task[t].row \in Rows /\ app[task[t].row] \in AppRow
        /\ task[t].bundle \in Bundles /\ task[t] \in Task
    BY <1>1, ActiveTask DEF WriteDeploying, At, Active
  <2>2. row \in AppRow
    BY <2>1, RowWrites DEF Task
  <2>3. /\ row.status = "DEPLOYING"
        /\ row.shipped = app[task[t].row].shipped
        /\ row.provided = app[task[t].row].provided
    BY <2>1 DEF Uploaded, AppRow
  <2>4. SetRow(task[t].row, row)
    BY <1>1 DEF WriteDeploying
  <2>5. timeouts' = [timeouts EXCEPT ![task[t].row] = 0]
    BY <1>1 DEF WriteDeploying
  <2> HIDE DEF row
  <2> QED
    BY <2>1, <2>2, <2>3, <2>4, <2>5 DEF Launched
<1>2. ASSUME NEW t \in Tasks, WriteDraft(t)
      PROVE  \E r \in Rows : Parked(r)
  <2> DEFINE row == Drafted(app[task[t].row], task[t].bundle, task[t].database,
                            task[t].given)
  <2>1. task[t].row \in Rows /\ app[task[t].row] \in AppRow /\ task[t] \in Task
        /\ task[t].bundle \in Bundles
    BY <1>2, ActiveTask DEF WriteDraft, At, Active
  <2>2. row \in AppRow
    BY <2>1, RowWrites DEF Task
  <2>3. /\ row.status \notin {"READY", "DEPLOYING"}
        /\ row.shipped = app[task[t].row].shipped
        /\ row.provided = app[task[t].row].provided
    BY <2>1 DEF Drafted, AppRow
  <2>4. SetRow(task[t].row, row) /\ UNCHANGED timeouts
    BY <1>2 DEF WriteDraft, history
  <2> HIDE DEF row
  <2>5. Demoted(task[t].row)
    BY <2>1, <2>2, <2>3, <2>4, Demotes
  <2> QED
    BY <2>1, <2>4, <2>5 DEF Parked
<1>3. ASSUME NEW t \in Tasks, StartProxy(t)
      PROVE  \E r \in Rows : Launched(r)
  <2> DEFINE row == Proxied(app[task[t].row], task[t].bundle)
  <2>1. task[t].row \in Rows /\ app[task[t].row] \in AppRow
        /\ task[t].bundle \in Bundles /\ task[t] \in Task
    BY <1>3, ActiveTask DEF StartProxy, At, Active
  <2>2. row \in AppRow
    BY <2>1, RowWrites DEF Task
  <2>3. /\ row.status = "DEPLOYING"
        /\ row.shipped = app[task[t].row].shipped
        /\ row.provided = app[task[t].row].provided
    BY <2>1 DEF Proxied, AppRow
  <2>4. SetRow(task[t].row, row)
    BY <1>3 DEF StartProxy
  <2>5. timeouts' = [timeouts EXCEPT ![task[t].row] = 0]
    BY <1>3 DEF StartProxy
  <2> HIDE DEF row
  <2> QED
    BY <2>1, <2>2, <2>3, <2>4, <2>5 DEF Launched
<1>4. ASSUME NEW t \in Tasks, FailDeploy(t)
      PROVE  \E r \in Rows : Parked(r)
  <2> DEFINE row == Failed(app[task[t].row], task[t].failure)
  <2>1. task[t].row \in Rows /\ app[task[t].row] \in AppRow /\ task[t] \in Task
    BY <1>4, ActiveTask DEF FailDeploy, At, Active
  <2>2. row \in AppRow
    BY <2>1, RowWrites DEF Task
  <2>3. /\ row.status \notin {"READY", "DEPLOYING"}
        /\ row.shipped = app[task[t].row].shipped
        /\ row.provided = app[task[t].row].provided
    BY <2>1 DEF Failed, AppRow
  <2>4. SetRow(task[t].row, row) /\ UNCHANGED timeouts
    BY <1>4 DEF FailDeploy, history
  <2> HIDE DEF row
  <2>5. Demoted(task[t].row)
    BY <2>1, <2>2, <2>3, <2>4, Demotes
  <2> QED
    BY <2>1, <2>4, <2>5 DEF Parked
<1>5. ASSUME NEW d \in Readers, SettleWrite(d)
      PROVE  UNCHANGED <<app, timeouts>> \/ \E r \in Rows : Settled(r)
  <2> DEFINE r == reader[d]
             row == Failed(app[r], "none")
  <2>1. r \in Rows /\ app[r] \in AppRow
    BY <1>5 DEF SettleWrite, TypeOK
  <2>2. row \in AppRow
    BY <2>1, RowWrites DEF Streams
  <2>3. /\ row.status \notin {"READY", "DEPLOYING"}
        /\ row.shipped = app[r].shipped
        /\ row.provided = app[r].provided
    BY <2>1 DEF Failed, AppRow
  <2>4. CASE StillDeploying(r)
    <3>1. SetRow(r, row) /\ timeouts' = [timeouts EXCEPT ![r] = @ + 1]
      BY <1>5, <2>4 DEF SettleWrite
    <3> HIDE DEF row, r
    <3>2. Demoted(r)
      BY <2>1, <2>2, <2>3, <3>1, Demotes
    <3> QED
      BY <2>1, <2>4, <3>1, <3>2 DEF Settled
  <2> QED
    BY <1>5, <2>4 DEF SettleWrite
<1>6. ASSUME NEW t \in Tasks, RecordDelete(t)
      PROVE  \E r \in Rows : Parked(r)
  <2> DEFINE row == Deletion(app[task[t].row], DeleteVerdict(t))
  <2>1. task[t].row \in Rows /\ app[task[t].row] \in AppRow
    BY <1>6, ActiveTask DEF RecordDelete, Active
  <2>2. DeleteVerdict(t) \in Statuses \ {"READY", "DEPLOYING"}
    BY DEF DeleteVerdict, Statuses
  <2>3. row \in AppRow
    BY <2>1, <2>2, RowWrites
  <2>4. /\ row.status = DeleteVerdict(t)
        /\ row.shipped = app[task[t].row].shipped
        /\ row.provided = app[task[t].row].provided
    BY <2>1 DEF Deletion, AppRow
  <2>5. SetRow(task[t].row, row) /\ UNCHANGED timeouts
    BY <1>6 DEF RecordDelete, history
  <2> HIDE DEF row
  <2>6. Demoted(task[t].row)
    BY <2>1, <2>2, <2>3, <2>4, <2>5, Demotes
  <2> QED
    BY <2>1, <2>5, <2>6 DEF Parked
<1>7. ASSUME NEW t \in Tasks, NEW r \in Rows, StartDelete(t, r)
      PROVE  Parked(r)
  <2> DEFINE row == Deletion(app[r], "DELETING")
  <2>1. app[r] \in AppRow /\ "DELETING" \in Statuses
    BY DEF TypeOK, Statuses
  <2>2. row \in AppRow
    BY <2>1, RowWrites
  <2>3. /\ row.status = "DELETING"
        /\ row.shipped = app[r].shipped
        /\ row.provided = app[r].provided
    BY <2>1 DEF Deletion, AppRow
  <2>4. SetRow(r, row) /\ UNCHANGED timeouts
    BY <1>7 DEF StartDelete, history
  <2> HIDE DEF row
  <2>5. Demoted(r)
    BY <2>2, <2>3, <2>4, Demotes
  <2> QED
    BY <2>4, <2>5 DEF Parked
<1>8. ASSUME NEW t \in Tasks, RecordNames(t)
      PROVE  \E r \in Rows : Touched(r)
  <2> DEFINE row == Named(app[task[t].row], task[t].names)
  <2>1. task[t].row \in Rows /\ app[task[t].row] \in AppRow /\ task[t] \in Task
    BY <1>8, ActiveTask DEF RecordNames, At, Active
  <2>2. row \in AppRow
    BY <2>1, RowWrites DEF Task
  <2>3. /\ row.status = app[task[t].row].status
        /\ row.shipped = app[task[t].row].shipped
        /\ row.failure = app[task[t].row].failure
        /\ row.provided = task[t].names
    BY <2>1 DEF Named, AppRow
  <2> HIDE DEF row
  <2>4. SetRow(task[t].row, row) /\ UNCHANGED timeouts /\ At(t, "names")
    BY <1>8 DEF RecordNames, row, history
  <2> QED
    BY <2>1, <2>2, <2>3, <2>4 DEF Touched
<1>9. ASSUME NEW r \in Rows, NEW old \in BOOLEAN,
             SetRow(r, [app[r] EXCEPT !.aged = old]), UNCHANGED timeouts
      PROVE  Touched(r)
  <2> DEFINE row == [app[r] EXCEPT !.aged = old]
  <2>1. app[r] \in AppRow
    BY DEF TypeOK
  <2>2. row \in AppRow
    BY <2>1, RowWrites
  <2>3. /\ row.status = app[r].status
        /\ row.shipped = app[r].shipped
        /\ row.failure = app[r].failure
        /\ row.provided = app[r].provided
    BY <2>1 DEF AppRow
  <2>4. SetRow(r, row) /\ UNCHANGED timeouts
    BY <1>9
  <2> HIDE DEF row
  <2> QED
    BY <2>2, <2>3, <2>4 DEF Touched
<1>10. ASSUME NEW t \in Tasks, WriteEdit(t)
       PROVE  \E r \in Rows : Touched(r)
  <2>1. task[t].row \in Rows
    BY <1>10, ActiveTask DEF WriteEdit, At, Active
  <2> QED
    BY <1>9, <1>10, <2>1 DEF WriteEdit, history
<1>11. ASSUME NEW r \in Rows, Age(r)
       PROVE  Touched(r)
  BY <1>9, <1>11 DEF Age, history
<1>12. ASSUME NEW t \in Tasks, MarkReady(t)
       PROVE  MarkReady(t) /\ At(t, "ready") /\ Promoted(task[t].row)
  <2> DEFINE row == Shipped(app[task[t].row], task[t].database)
  <2>1. task[t].row \in Rows /\ app[task[t].row] \in AppRow /\ task[t] \in Task
    BY <1>12, ActiveTask DEF MarkReady, At, Active
  <2>2. row \in AppRow
    BY <2>1, RowWrites DEF Task
  <2>3. /\ row.status = "READY" /\ row.shipped /\ row.failure = "none"
        /\ row.provided = app[task[t].row].provided
    BY <2>1 DEF Shipped, AppRow
  <2>4. SetRow(task[t].row, row) /\ UNCHANGED timeouts
    BY <1>12 DEF MarkReady, history
  <2> HIDE DEF row
  <2> QED
    BY <1>12, <2>2, <2>3, <2>4 DEF MarkReady, Promoted
<1>13. ASSUME NEW t \in Tasks, Start(t)
       PROVE  UNCHANGED <<app, timeouts>> \/ \E r \in Rows : Parked(r)
  BY <1>7, <1>13 DEF Start, StartUpload, StartRedeploy, StartEdit, history
<1>14. ASSUME NEW t \in Tasks, Step(t)
       PROVE  \/ UNCHANGED <<app, timeouts>>
              \/ \E r \in Rows : Launched(r) \/ Parked(r) \/ Touched(r)
              \/ MarkReady(t) /\ At(t, "ready") /\ Promoted(task[t].row)
  BY <1>1, <1>2, <1>3, <1>4, <1>6, <1>8, <1>10, <1>12, <1>14
     DEF Step, CheckBusy, StoreBundle, LoseBundle, CheckClaim, StoreSecrets,
         LoseSecrets, BuildReply, BuildTimeout, AppAnswers, AppSilent,
         ReadRegistry, Inject, InjectLocked, InjectFails, InjectTimeout,
         Announce, TearDown, RefuseTearDown, history
<1> QED
  BY <1>5, <1>11, <1>13, <1>14
     DEF Next, Runner, RunnerBuilds, RunnerFails, Crash, Settle, SettleRead,
         history

-----------------------------------------------------------------------------
(* READY is clean.                                                         *)

LEMMA ReadyInit == Init => ReadyIsClean
  BY DEF Init, ReadyIsClean, NewRow

LEMMA ReadyNext == TypeOK /\ ReadyIsClean /\ [Next]_vars => ReadyIsClean'
<1> SUFFICES ASSUME TypeOK, ReadyIsClean, [Next]_vars
             PROVE  ReadyIsClean'
  OBVIOUS
<1>0. app \in [Rows -> AppRow]
  BY DEF TypeOK
<1>1. CASE UNCHANGED app
  BY <1>1 DEF ReadyIsClean
<1>2. ASSUME NEW r \in Rows, Launched(r) \/ Demoted(r)
      PROVE  ReadyIsClean'
  BY <1>0, <1>2 DEF Launched, Demoted, SetRow, ReadyIsClean
<1>3. ASSUME NEW r \in Rows, Touched(r)
      PROVE  ReadyIsClean'
  BY <1>0, <1>3 DEF Touched, SetRow, ReadyIsClean
<1>4. ASSUME NEW t \in Tasks, At(t, "ready"), Promoted(task[t].row)
      PROVE  ReadyIsClean'
  <2>1. task[t].row \in Rows
    BY <1>4, ActiveTask DEF At, Active
  <2> QED
    BY <1>0, <1>4, <2>1 DEF Promoted, SetRow, ReadyIsClean
<1>5. CASE UNCHANGED vars
  BY <1>1, <1>5 DEF vars
<1> QED
  BY <1>1, <1>2, <1>3, <1>4, <1>5, RowStep DEF Parked, Settled

\* READY is only reached by a ship, and clears what an earlier deploy left,
\* whatever requests and dashboards overlap (markReady, failDeploy, settle).
THEOREM ReadyClean == Spec => []ReadyIsClean
<1> QED
  BY TypeCorrect, ReadyInit, ReadyNext, PTL DEF Spec

-----------------------------------------------------------------------------
(* One timed-out verdict for each launch.                                  *)

\* A row that is DEPLOYING has had no verdict since it went so.
TimeoutInv ==
  \A r \in Rows :
    timeouts[r] <= 1 /\ (app[r].status = "DEPLOYING" => timeouts[r] = 0)

LEMMA TimeoutInit == Init => TimeoutInv
  BY DEF Init, TimeoutInv, NewRow

LEMMA TimeoutNext == TypeOK /\ TimeoutInv /\ [Next]_vars => TimeoutInv'
<1> SUFFICES ASSUME TypeOK, TimeoutInv, [Next]_vars
             PROVE  TimeoutInv'
  OBVIOUS
<1>0. /\ app \in [Rows -> AppRow] /\ timeouts \in [Rows -> Nat]
      /\ misled \subseteq AppIds
  BY DEF TypeOK
<1>1. CASE UNCHANGED <<app, timeouts>>
  BY <1>1 DEF TimeoutInv
<1>2. ASSUME NEW r \in Rows, Launched(r)
      PROVE  TimeoutInv'
  BY <1>0, <1>2 DEF Launched, SetRow, TimeoutInv
<1>3. ASSUME NEW r \in Rows, Parked(r)
      PROVE  TimeoutInv'
  BY <1>0, <1>3 DEF Parked, Demoted, SetRow, TimeoutInv
<1>4. ASSUME NEW r \in Rows, Settled(r)
      PROVE  TimeoutInv'
  BY <1>0, <1>4 DEF Settled, StillDeploying, Demoted, SetRow, TimeoutInv
<1>5. ASSUME NEW r \in Rows, Touched(r)
      PROVE  TimeoutInv'
  BY <1>0, <1>5 DEF Touched, SetRow, TimeoutInv
<1>6. ASSUME NEW t \in Tasks, At(t, "ready"), Promoted(task[t].row)
      PROVE  TimeoutInv'
  <2>1. task[t].row \in Rows
    BY <1>6, ActiveTask DEF At, Active
  <2> QED
    BY <1>0, <1>6, <2>1 DEF Promoted, SetRow, TimeoutInv
<1>7. CASE UNCHANGED vars
  BY <1>1, <1>7 DEF vars
<1> QED
  BY <1>1, <1>2, <1>3, <1>4, <1>5, <1>6, <1>7, RowStep

\* However many dashboards settle it, a launch of an app times out once
\* (settleStuckDeploy's conditional update).
THEOREM TimesOutOnce == Spec => []OneTimeoutVerdict
<1>1. TimeoutInv => OneTimeoutVerdict
  BY DEF TimeoutInv, OneTimeoutVerdict
<1> QED
  BY <1>1, TypeCorrect, TimeoutInit, TimeoutNext, PTL DEF Spec

-----------------------------------------------------------------------------
(* Where a request may go.                                                 *)

\* The steps of a deploy that believes its build is up.
Built == {"registry", "inject", "verifyInject", "ready"}

\* The steps at which a request has secrets to store or to record.
Saving == {"reclaim", "secrets", "names"}

\* The steps at which the runner's registry has shown a request its image.
Configuring == {"inject", "verifyInject"}

\* What a step of request t does to it, as far as ships and names go, and
\* whether it is the first deploy.
Advance(t) ==
  /\ \A u \in Tasks \ {t} : task'[u] = task[u]
  /\ task'[t].pc = "done" \/ task'[t].row = task[t].row
  /\ \/ task'[t].pc = "done"
     \/ task'[t].first = task[t].first
     \/ WriteDeploying(t) /\ task'[t].first = ~app[task[t].row].shipped
  /\ task'[t].pc = "building" => StartProxy(t)
  /\ task'[t].pc = "announce" => MarkReady(t)
  /\ task'[t].pc \in Built =>
       \/ At(t, "building") /\ BuildSucceeded(t)
       \/ At(t, "verifyBuild") /\ AppAnswers(t)
       \/ task[t].pc \in Built
  /\ task'[t].pc \in Configuring => ReadRegistry(t) \/ At(t, "inject")
  /\ task'[t].pc \in Saving => CheckClaim(t) \/ StoreSecrets(t)

LEMMA GotoAdvance ==
  ASSUME TypeOK, NEW t \in Tasks, NEW step \in Steps \ {"building", "announce"},
         Goto(t, step), step \in Built => task[t].pc \in Built,
         step \in Configuring => ReadRegistry(t) \/ At(t, "inject"),
         step \in Saving => CheckClaim(t) \/ StoreSecrets(t)
  PROVE  Advance(t)
<1>1. /\ \A u \in Tasks \ {t} : task'[u] = task[u]
      /\ task'[t].pc = step
      /\ task'[t].row = task[t].row /\ task'[t].first = task[t].first
  BY GotoTask DEF TypeOK
<1> QED
  BY <1>1 DEF Advance

LEMMA FinishAdvance ==
  ASSUME TypeOK, NEW t \in Tasks, Finish(t)
  PROVE  Advance(t)
<1>1. (\A u \in Tasks \ {t} : task'[u] = task[u]) /\ task'[t].pc = "done"
  BY FinishTask DEF TypeOK
<1> QED
  BY <1>1 DEF Advance, Built, Saving, Configuring

LEMMA GiveUpAdvance ==
  ASSUME TypeOK, NEW t \in Tasks, NEW stream \in Streams, GiveUp(t, stream)
  PROVE  Advance(t)
<1>1. /\ \A u \in Tasks \ {t} : task'[u] = task[u]
      /\ task'[t].pc = "fail"
      /\ task'[t].row = task[t].row /\ task'[t].first = task[t].first
  BY GiveUpTask DEF TypeOK
<1> QED
  BY <1>1 DEF Advance, Built, Saving, Configuring

\* The request keeps its row and goes on to a step of its deploy.
LEMMA EditAdvance ==
  ASSUME TypeOK, NEW t \in Tasks, NEW new, task' = [task EXCEPT ![t] = new],
         new.row = task[t].row, new.pc \notin {"building", "announce"},
         new.pc \in Built => task[t].pc \in Built,
         new.pc \in Configuring => ReadRegistry(t) \/ At(t, "inject"),
         new.pc \notin Saving, new.first = task[t].first
  PROVE  Advance(t)
  BY DEF TypeOK, Advance

LEMMA AdvanceUploads ==
  ASSUME TypeOK, NEW t \in Tasks,
         \/ CheckBusy(t) \/ WriteDeploying(t) \/ StoreBundle(t) \/ LoseBundle(t)
         \/ WriteDraft(t)
  PROVE  Advance(t)
<1>1. CASE CheckBusy(t)
  BY <1>1, FinishAdvance, GotoAdvance DEF CheckBusy, Steps, Built, Saving, Configuring
<1>2. CASE WriteDeploying(t)
  <2> DEFINE new == [task[t] EXCEPT !.pc = "upload",
                       !.first = FirstDeploy(app[task[t].row]),
                       !.names = app[task[t].row].provided]
  <2>1. task[t] \in Task
    BY DEF TypeOK
  <2>2. /\ new.pc = "upload" /\ new.row = task[t].row
        /\ new.first = ~app[task[t].row].shipped
    BY <2>1 DEF Task, FirstDeploy
  <2>3. task' = [task EXCEPT ![t] = new]
    BY <1>2 DEF WriteDeploying
  <2> HIDE DEF new
  <2> QED
    BY <1>2, <2>2, <2>3 DEF TypeOK, Advance, Built, Saving, Configuring
<1>3. CASE StoreBundle(t)
  BY <1>3, GotoAdvance DEF StoreBundle, Steps, Built, Saving, Configuring
<1>4. CASE LoseBundle(t)
  BY <1>4, FinishAdvance, GiveUpAdvance DEF LoseBundle, Streams
<1>5. CASE WriteDraft(t)
  BY <1>5, FinishAdvance DEF WriteDraft
<1> QED
  BY <1>1, <1>2, <1>3, <1>4, <1>5

LEMMA AdvanceSecrets ==
  ASSUME TypeOK, NEW t \in Tasks,
         CheckClaim(t) \/ StoreSecrets(t) \/ LoseSecrets(t) \/ RecordNames(t)
  PROVE  Advance(t)
<1>1. CASE CheckClaim(t)
  BY <1>1, FinishAdvance, GotoAdvance DEF CheckClaim, Steps, Built, Saving, Configuring
<1>2. CASE StoreSecrets(t)
  BY <1>2, GotoAdvance DEF StoreSecrets, Steps, Built, Saving, Configuring
<1>3. CASE LoseSecrets(t)
  BY <1>3, FinishAdvance DEF LoseSecrets
<1>4. CASE RecordNames(t)
  BY <1>4, GotoAdvance DEF RecordNames, Steps, Built, Saving, Configuring
<1> QED
  BY <1>1, <1>2, <1>3, <1>4

LEMMA AdvanceBuilds ==
  ASSUME TypeOK, NEW t \in Tasks,
         \/ StartProxy(t) \/ BuildReply(t) \/ BuildTimeout(t) \/ AppAnswers(t)
         \/ AppSilent(t)
  PROVE  Advance(t)
<1>0. \A step \in Steps :
        Goto(t, step) =>
          /\ \A u \in Tasks \ {t} : task'[u] = task[u]
          /\ task'[t].pc = step
          /\ task'[t].row = task[t].row /\ task'[t].first = task[t].first
  BY GotoTask DEF TypeOK
<1>a. AfterBuild(t) \in Steps /\ AfterBuild(t) \in Built \ Configuring
  BY DEF AfterBuild, Steps, Built, Saving, Configuring
<1>1. CASE StartProxy(t)
  <2>1. Goto(t, "building") /\ "building" \in Steps
    BY <1>1 DEF StartProxy, Steps
  <2> QED
    BY <1>0, <1>1, <2>1 DEF Advance, Built, Saving, Configuring
<1>2. CASE BuildReply(t)
  <2>1. CASE BuildSucceeded(t)
    <3>1. Goto(t, AfterBuild(t)) /\ At(t, "building")
      BY <1>2, <2>1 DEF BuildReply
    <3> QED
      BY <1>0, <1>a, <2>1, <3>1 DEF Advance, Built, Saving, Configuring
  <2>2. CASE ~BuildSucceeded(t)
    BY <1>2, <2>2, GiveUpAdvance DEF BuildReply, Streams
  <2> QED
    BY <2>1, <2>2
<1>3. CASE BuildTimeout(t)
  BY <1>3, GotoAdvance DEF BuildTimeout, Steps, Built, Saving, Configuring
<1>4. CASE AppAnswers(t)
  <2>1. CASE At(t, "verifyBuild") /\ Goto(t, AfterBuild(t))
    BY <1>0, <1>a, <1>4, <2>1 DEF AppAnswers, Advance, Built, Saving, Configuring
  <2>2. CASE /\ At(t, "verifyInject")
             /\ task' = [task EXCEPT ![t] =
                  [@ EXCEPT !.pc = "ready", !.database = FALSE]]
    <3> DEFINE new == [task[t] EXCEPT !.pc = "ready", !.database = FALSE]
    <3>1. task[t] \in Task
      BY DEF TypeOK
    <3>2. /\ new.pc = "ready" /\ new.row = task[t].row
          /\ new.first = task[t].first
      BY <3>1 DEF Task
    <3>3. task' = [task EXCEPT ![t] = new]
      BY <2>2
    <3> HIDE DEF new
    <3> QED
      BY <2>2, <3>2, <3>3, EditAdvance DEF Built, Saving, Configuring, At
  <2> QED
    BY <1>4, <2>1, <2>2 DEF AppAnswers
<1>5. CASE AppSilent(t)
  BY <1>5, GiveUpAdvance DEF AppSilent, Streams
<1> QED
  BY <1>1, <1>2, <1>3, <1>4, <1>5

LEMMA AdvanceInjections ==
  ASSUME TypeOK, NEW t \in Tasks,
         \/ ReadRegistry(t) \/ Inject(t) \/ InjectLocked(t) \/ InjectFails(t)
         \/ InjectTimeout(t)
  PROVE  Advance(t)
<1>0. task[t] \in Task
  BY DEF TypeOK
<1>1. CASE ReadRegistry(t)
  <2> DEFINE new == [task[t] EXCEPT !.pc = "inject",
                       !.bundle = release[AppId(task[t].row)].bundle]
  <2>1. /\ new.pc = "inject" /\ new.row = task[t].row
        /\ new.first = task[t].first
    BY <1>0 DEF Task
  <2>2. task' = [task EXCEPT ![t] = new]
    BY <1>1 DEF ReadRegistry
  <2> HIDE DEF new
  <2> QED
    BY <1>1, <2>1, <2>2, EditAdvance DEF ReadRegistry, Built, Saving, Configuring, At
<1>2. CASE Inject(t)
  BY <1>2, GotoAdvance DEF Inject, Steps, Built, Saving, Configuring, At
<1>3. CASE InjectLocked(t)
  <2> DEFINE new == [task[t] EXCEPT !.tries = @ + 1]
  <2>1. /\ new.pc = task[t].pc /\ new.row = task[t].row
        /\ new.first = task[t].first
    BY <1>0 DEF Task
  <2>2. task' = [task EXCEPT ![t] = new]
    BY <1>3 DEF InjectLocked
  <2> HIDE DEF new
  <2> QED
    BY <1>3, <2>1, <2>2, EditAdvance DEF InjectLocked, Built, Saving, Configuring, At
<1>4. CASE InjectFails(t)
  BY <1>4, GiveUpAdvance DEF InjectFails, Streams
<1>5. CASE InjectTimeout(t)
  BY <1>5, GotoAdvance DEF InjectTimeout, Steps, Built, Saving, Configuring, At
<1> QED
  BY <1>1, <1>2, <1>3, <1>4, <1>5

LEMMA AdvanceOutcomes ==
  ASSUME TypeOK, NEW t \in Tasks,
         \/ MarkReady(t) \/ Announce(t) \/ FailDeploy(t) \/ TearDown(t)
         \/ RefuseTearDown(t) \/ RecordDelete(t) \/ WriteEdit(t)
  PROVE  Advance(t)
<1>1. CASE MarkReady(t)
  <2>1. CASE Finish(t)
    BY <2>1, FinishAdvance
  <2>2. CASE Goto(t, "announce")
    <3>1. /\ \A u \in Tasks \ {t} : task'[u] = task[u]
          /\ task'[t].pc = "announce"
          /\ task'[t].row = task[t].row /\ task'[t].first = task[t].first
      BY <2>2, GotoTask DEF TypeOK, Steps
    <3> QED
      BY <1>1, <3>1 DEF Advance, Built, Saving, Configuring
  <2> QED
    BY <1>1, <2>1, <2>2 DEF MarkReady
<1>2. CASE Announce(t) \/ FailDeploy(t) \/ RecordDelete(t) \/ WriteEdit(t)
  BY <1>2, FinishAdvance DEF Announce, FailDeploy, RecordDelete, WriteEdit
<1>3. CASE TearDown(t)
  <2>1. Goto(t, "deleted") \/ Goto(t, "undeleted")
    BY <1>3 DEF TearDown, Goto
  <2> QED
    BY <2>1, GotoAdvance DEF Steps, Built, Saving, Configuring
<1>4. CASE RefuseTearDown(t)
  BY <1>4, GotoAdvance DEF RefuseTearDown, Steps, Built, Saving, Configuring
<1> QED
  BY <1>1, <1>2, <1>3, <1>4

LEMMA TaskStep ==
  ASSUME TypeOK, NEW t \in Tasks, Step(t)
  PROVE  Advance(t)
  BY AdvanceUploads, AdvanceSecrets, AdvanceBuilds, AdvanceInjections,
     AdvanceOutcomes DEF Step

-----------------------------------------------------------------------------
(* Ships are real.                                                         *)

\* A release and a build that succeeded are evidence that the runner has run the
\* app; a request past its build has that evidence, or a misled probe.
Evidence ==
  /\ \A a \in AppIds : release[a] # None => a \in everUp
  /\ \A t \in Tasks : build[t].phase = "ok" => AppId(build[t].row) \in everUp
  /\ \A t \in Tasks : At(t, "building") => build[t].row = task[t].row
  /\ \A t \in Tasks : task[t].pc \in Configuring => AppId(task[t].row) \in everUp
  /\ \A t \in Tasks : task[t].pc \in Built => AppId(task[t].row) \in everUp \cup misled

ShipInv ==
  /\ Evidence
  /\ ShipsAreAccountedFor
  /\ \A t \in Tasks : At(t, "announce") => app[task[t].row].shipped

LEMMA ShipInit == Init => ShipInv
  BY DEF Init, ShipInv, Evidence, ShipsAreAccountedFor, Built,
     Configuring, At, NewRow, NewTask, NoBuild

\* The runner's part of a step of a request.
LEMMA RequestRunner ==
  ASSUME NEW t \in Tasks, Step(t)
  PROVE  /\ UNCHANGED everUp
         /\ StartProxy(t) \/ UNCHANGED build
         /\ \/ UNCHANGED release
            \/ /\ task[t].pc \in Configuring
               /\ release' = [release EXCEPT ![AppId(task[t].row)] = Injected(t)]
            \/ release' = [release EXCEPT ![AppId(task[t].row)] = None]
<1>1. CASE \/ CheckBusy(t) \/ WriteDeploying(t) \/ StoreBundle(t)
           \/ LoseBundle(t) \/ WriteDraft(t) \/ CheckClaim(t)
           \/ StoreSecrets(t) \/ LoseSecrets(t) \/ RecordNames(t)
           \/ StartProxy(t) \/ BuildReply(t) \/ BuildTimeout(t)
           \/ AppAnswers(t) \/ AppSilent(t) \/ ReadRegistry(t)
  BY <1>1 DEF CheckBusy, WriteDeploying, StoreBundle, LoseBundle, WriteDraft,
     CheckClaim, StoreSecrets, LoseSecrets, RecordNames, StartProxy, BuildReply,
     BuildTimeout, AppAnswers, AppSilent, ReadRegistry, runnerVars
<1>2. CASE Inject(t) \/ InjectTimeout(t)
  BY <1>2 DEF Inject, InjectTimeout, At, Configuring
<1>3. CASE TearDown(t)
  BY <1>3 DEF TearDown
<1>4. CASE \/ InjectLocked(t) \/ InjectFails(t) \/ MarkReady(t) \/ Announce(t)
           \/ FailDeploy(t) \/ RefuseTearDown(t) \/ RecordDelete(t)
           \/ WriteEdit(t)
  BY <1>4 DEF InjectLocked, InjectFails, MarkReady, Announce, FailDeploy,
     RefuseTearDown, RecordDelete, WriteEdit, runnerVars
<1> QED
  BY <1>1, <1>2, <1>3, <1>4 DEF Step

\* Only a probe adds to the misled.
LEMMA RequestProbes ==
  ASSUME NEW t \in Tasks, Step(t)
  PROVE  misled \subseteq misled'
<1>1. CASE AppAnswers(t)
  BY <1>1 DEF AppAnswers
<1>2. CASE ~AppAnswers(t)
  BY <1>2 DEF Step, CheckBusy, WriteDeploying, StoreBundle, LoseBundle,
     WriteDraft, CheckClaim, StoreSecrets, LoseSecrets, RecordNames, StartProxy,
     BuildReply, BuildTimeout, AppSilent, ReadRegistry, Inject, InjectLocked,
     InjectFails, InjectTimeout, MarkReady, Announce, FailDeploy, TearDown,
     RefuseTearDown, RecordDelete, WriteEdit, history
<1> QED
  BY <1>1, <1>2

LEMMA EvidenceStep ==
  ASSUME TypeOK, Evidence, NEW t \in Tasks, Step(t)
  PROVE  Evidence'
<1>0. Advance(t) /\ task \in [Tasks -> Task]
  BY TaskStep DEF TypeOK
<1>1. \A a \in AppIds : release'[a] # None => a \in everUp'
  <2>1. release \in [AppIds -> Release \cup {None}]
    BY DEF TypeOK
  <2> QED
    BY <2>1, RequestRunner DEF Evidence
<1>2. \A u \in Tasks : build'[u].phase = "ok" => AppId(build'[u].row) \in everUp'
  <2>1. CASE UNCHANGED build
    BY <2>1, RequestRunner DEF Evidence
  <2>2. CASE StartProxy(t)
    BY <2>2, RequestRunner DEF StartProxy, Evidence, TypeOK
  <2> QED
    BY <2>1, <2>2, RequestRunner
<1>3. \A u \in Tasks : task'[u].pc = "building" => build'[u].row = task'[u].row
  <2>1. CASE StartProxy(t)
    <3>1. build'[t].row = task[t].row /\ \A u \in Tasks \ {t} : build'[u] = build[u]
      BY <2>1 DEF StartProxy, TypeOK
    <3>2. task'[t].pc = "building" => task'[t].row = task[t].row
      BY <1>0 DEF Advance
    <3> QED
      BY <1>0, <3>1, <3>2 DEF Evidence, Advance, At
  <2>2. CASE ~StartProxy(t)
    BY <1>0, <2>2, RequestRunner DEF Evidence, Advance, At
  <2> QED
    BY <2>1, <2>2
<1>4. \A u \in Tasks : task'[u].pc \in Built => AppId(task'[u].row) \in everUp' \cup misled'
  <2>0. everUp \cup misled \subseteq everUp' \cup misled'
    BY RequestRunner, RequestProbes
  <2>1. ASSUME task'[t].pc \in Built
        PROVE  AppId(task[t].row) \in everUp' \cup misled'
    <3>1. CASE At(t, "building") /\ BuildSucceeded(t)
      BY <2>0, <3>1 DEF Evidence, BuildSucceeded, At
    <3>2. CASE At(t, "verifyBuild") /\ AppAnswers(t)
      <4>1. AppId(task[t].row) \in AppIds
        BY <3>2, ActiveTask DEF At, Active
      <4>2. CASE release[AppId(task[t].row)] = None
        BY <3>2, <4>2 DEF AppAnswers
      <4>3. CASE release[AppId(task[t].row)] # None
        BY <2>0, <4>1, <4>3 DEF Evidence
      <4> QED
        BY <4>2, <4>3
    <3>3. CASE task[t].pc \in Built
      BY <2>0, <3>3 DEF Evidence
    <3> QED
      BY <1>0, <2>1, <3>1, <3>2, <3>3 DEF Advance
  <2>2. task'[t].pc \in Built => task'[t].row = task[t].row
    BY <1>0 DEF Advance, Built
  <2>3. ASSUME NEW u \in Tasks \ {t}, task'[u].pc \in Built
        PROVE  AppId(task'[u].row) \in everUp' \cup misled'
    BY <1>0, <2>0, <2>3 DEF Evidence, Advance
  <2> QED
    BY <2>1, <2>2, <2>3
<1>5. \A u \in Tasks : task'[u].pc \in Configuring => AppId(task'[u].row) \in everUp'
  <2>1. CASE ReadRegistry(t)
    <3>1. AppId(task[t].row) \in AppIds
      BY <2>1, ActiveTask DEF ReadRegistry, At, Active
    <3>2. AppId(task[t].row) \in everUp
      BY <2>1, <3>1 DEF ReadRegistry, Evidence
    <3> QED
      BY <1>0, <3>2, RequestRunner DEF Evidence, Advance, Configuring
  <2>2. CASE ~ReadRegistry(t)
    BY <1>0, <2>2, RequestRunner DEF Evidence, Advance, At, Configuring
  <2> QED
    BY <2>1, <2>2
<1> QED
  BY <1>1, <1>2, <1>3, <1>4, <1>5 DEF Evidence, At

LEMMA EvidenceNext == TypeOK /\ Evidence /\ [Next]_vars => Evidence'
<1> SUFFICES ASSUME TypeOK, Evidence, [Next]_vars
             PROVE  Evidence'
  OBVIOUS
<1>1. ASSUME NEW t \in Tasks, Start(t)
      PROVE  Evidence'
  BY <1>1, StartTask DEF Evidence, Built, Configuring, At, runnerVars, history
<1>2. ASSUME NEW t \in Tasks, RunnerBuilds(t)
      PROVE  Evidence'
  <2>1. build[t] \in Build /\ build[t].row \in Rows /\ AppId(build[t].row) \in AppIds
    BY <1>2 DEF RunnerBuilds, TypeOK, Rows, AppId
  <2>2. build'[t].row = build[t].row /\ \A u \in Tasks \ {t} : build'[u] = build[u]
    BY <1>2, <2>1 DEF RunnerBuilds, TypeOK, Build
  <2>3. everUp' = everUp \cup {AppId(build[t].row)} /\ UNCHANGED <<task, misled>>
    BY <1>2 DEF RunnerBuilds, history
  <2>4. \A a \in AppIds \ {AppId(build[t].row)} : release'[a] = release[a]
    BY <1>2 DEF RunnerBuilds, TypeOK
  <2>5. \A a \in AppIds : release'[a] # None => a \in everUp'
    BY <2>3, <2>4 DEF Evidence
  <2>6. \A u \in Tasks : build'[u].phase = "ok" => AppId(build'[u].row) \in everUp'
    BY <2>2, <2>3 DEF Evidence
  <2> QED
    BY <2>2, <2>3, <2>5, <2>6 DEF Evidence, Built, Configuring, At
<1>3. ASSUME NEW t \in Tasks, RunnerFails(t)
      PROVE  Evidence'
  <2>1. build[t] \in Build
    BY DEF TypeOK
  <2>2. /\ build'[t].row = build[t].row /\ build'[t].phase = "failed"
        /\ \A u \in Tasks \ {t} : build'[u] = build[u]
    BY <1>3, <2>1 DEF RunnerFails, TypeOK, Build
  <2> QED
    BY <1>3, <2>2 DEF RunnerFails, Evidence, Built, Configuring, At, history
<1>4. ASSUME NEW t \in Tasks, Crash(t)
      PROVE  Evidence'
  <2>1. (\A u \in Tasks \ {t} : task'[u] = task[u]) /\ task'[t].pc = "done"
    BY <1>4, FinishTask DEF Crash, TypeOK
  <2> QED
    BY <1>4, <2>1 DEF Crash, Evidence, Built, Configuring, At, runnerVars,
       history
<1>5. ASSUME NEW d \in Readers, Settle(d)
      PROVE  Evidence'
  BY <1>5 DEF Settle, SettleRead, SettleWrite, Evidence, Built, Configuring, At, runnerVars,
     history
<1>6. ASSUME NEW r \in Rows, Age(r)
      PROVE  Evidence'
  BY <1>6 DEF Age, Evidence, Built, Configuring, At, runnerVars, history
<1>7. CASE UNCHANGED vars
  BY <1>7 DEF vars, Evidence, Built, Configuring, At
<1> QED
  BY <1>1, <1>2, <1>3, <1>4, <1>5, <1>6, <1>7, EvidenceStep DEF Next, Runner

LEMMA ShippedNext ==
  ASSUME TypeOK, ShipInv, [Next]_vars
  PROVE  /\ \A r \in Rows : app'[r].shipped => AppId(r) \in everUp' \cup misled'
         /\ \A r \in Rows : app[r].shipped => app'[r].shipped
<1>0. app \in [Rows -> AppRow] /\ everUp \cup misled \subseteq everUp' \cup misled'
  <2>1. app \in [Rows -> AppRow]
    BY DEF TypeOK
  <2>2. ASSUME NEW t \in Tasks, Start(t)
        PROVE  everUp \cup misled \subseteq everUp' \cup misled'
    BY <2>2, StartTask DEF runnerVars, history
  <2>3. ASSUME NEW t \in Tasks, Step(t)
        PROVE  everUp \cup misled \subseteq everUp' \cup misled'
    BY <2>3, RequestRunner, RequestProbes
  <2> QED
    BY <2>1, <2>2, <2>3 DEF Next, Runner, RunnerBuilds, RunnerFails, Crash,
       Settle, SettleRead, SettleWrite, Age, vars, runnerVars, history
<1>1. CASE UNCHANGED app
  BY <1>0, <1>1 DEF ShipInv, ShipsAreAccountedFor
<1>2. ASSUME NEW r \in Rows, Launched(r) \/ Demoted(r) \/ Touched(r)
      PROVE  \A o \in Rows : app'[o].shipped = app[o].shipped
  BY <1>0, <1>2 DEF Launched, Demoted, Touched, SetRow
<1>3. ASSUME NEW t \in Tasks, At(t, "ready"), Promoted(task[t].row)
      PROVE  /\ app'[task[t].row].shipped
             /\ AppId(task[t].row) \in everUp \cup misled
             /\ \A o \in Rows \ {task[t].row} : app'[o] = app[o]
  <2>1. task[t].row \in Rows
    BY <1>3, ActiveTask DEF At, Active
  <2>2. AppId(task[t].row) \in everUp \cup misled
    BY <1>3 DEF ShipInv, Evidence, Built, At
  <2> QED
    BY <1>0, <1>3, <2>1, <2>2 DEF Promoted, SetRow
<1>4. CASE Next
  BY <1>0, <1>1, <1>2, <1>3, <1>4, RowStep DEF Parked, Settled, ShipInv, ShipsAreAccountedFor
<1>5. CASE UNCHANGED vars
  BY <1>1, <1>5 DEF vars
<1> QED
  BY <1>4, <1>5

\* What a step of a request does to the broadcasts.
LEMMA RequestBroadcasts ==
  ASSUME NEW t \in Tasks, Step(t)
  PROVE  \/ UNCHANGED announced
         \/ /\ Announce(t) /\ At(t, "announce")
            /\ announced' = [announced EXCEPT ![task[t].row] = @ + 1]
            /\ UNCHANGED app
<1>1. CASE Announce(t)
  BY <1>1 DEF Announce
<1>2. CASE ~Announce(t)
  BY <1>2 DEF Step, CheckBusy, WriteDeploying, StoreBundle, LoseBundle,
     WriteDraft, CheckClaim, StoreSecrets, LoseSecrets, RecordNames, StartProxy,
     BuildReply, BuildTimeout, AppAnswers, AppSilent, ReadRegistry, Inject,
     InjectLocked, InjectFails, InjectTimeout, MarkReady, FailDeploy, TearDown,
     RefuseTearDown, RecordDelete, WriteEdit, history
<1> QED
  BY <1>1, <1>2

\* A broadcast comes from a request that has shipped the app.
LEMMA Broadcasts ==
  ASSUME Next
  PROVE  \/ UNCHANGED announced
         \/ \E t \in Tasks :
              /\ Announce(t) /\ At(t, "announce")
              /\ announced' = [announced EXCEPT ![task[t].row] = @ + 1]
              /\ UNCHANGED app
<1>1. ASSUME NEW t \in Tasks, Start(t)
      PROVE  UNCHANGED announced
  BY <1>1 DEF Start, StartUpload, StartRedeploy, StartDelete, StartEdit, history
<1> QED
  BY <1>1, RequestBroadcasts DEF Next, Runner, RunnerBuilds, RunnerFails, Crash,
     Settle, SettleRead, SettleWrite, Age, history

LEMMA ShipNext == TypeOK /\ ShipInv /\ [Next]_vars => ShipInv'
<1> SUFFICES ASSUME TypeOK, ShipInv, [Next]_vars
             PROVE  ShipInv'
  OBVIOUS
<1>0. app \in [Rows -> AppRow] /\ task \in [Tasks -> Task]
      /\ announced \in [Rows -> Nat]
  BY DEF TypeOK
<1>1. Evidence'
  BY EvidenceNext DEF ShipInv
<1>2. \A r \in Rows : app'[r].shipped => AppId(r) \in everUp' \cup misled'
  BY ShippedNext
<1>3. \A r \in Rows : announced'[r] > 0 => app'[r].shipped
  <2>1. CASE UNCHANGED announced
    BY <2>1, ShippedNext DEF ShipInv, ShipsAreAccountedFor
  <2>2. ASSUME NEW t \in Tasks, At(t, "announce"), UNCHANGED app,
               announced' = [announced EXCEPT ![task[t].row] = @ + 1]
        PROVE  \A r \in Rows : announced'[r] > 0 => app'[r].shipped
    BY <1>0, <2>2 DEF ShipInv, ShipsAreAccountedFor
  <2> QED
    BY <2>1, <2>2, Broadcasts DEF vars
<1>4. ASSUME NEW u \in Tasks, task'[u].pc = "announce"
      PROVE  app'[task'[u].row].shipped
  <2>1. CASE task'[u] = task[u]
    <3>1. task[u].row \in Rows
      BY <1>4, <2>1, ActiveTask DEF Active
    <3> QED
      BY <1>4, <2>1, <3>1, ShippedNext DEF ShipInv, At
  <2>2. ASSUME NEW t \in Tasks, Step(t), task'[u] # task[u]
        PROVE  app'[task'[u].row].shipped
    <3>1. u = t /\ MarkReady(t) /\ task'[t].row = task[t].row
      BY <1>4, <2>2, TaskStep DEF Advance
    <3>2. task[t].row \in Rows /\ app[task[t].row] \in AppRow /\ task[t] \in Task
      BY <3>1, ActiveTask DEF MarkReady, At, Active
    <3>3. Shipped(app[task[t].row], task[t].database).shipped
      BY <3>2 DEF Shipped, AppRow
    <3> QED
      BY <1>0, <3>1, <3>2, <3>3 DEF MarkReady, SetRow
  <2>3. ASSUME NEW t \in Tasks, Start(t), task'[u] # task[u]
        PROVE  FALSE
    BY <1>4, <2>3, StartTask
  <2>4. ASSUME NEW t \in Tasks, Crash(t), task'[u] # task[u]
        PROVE  FALSE
    BY <1>0, <1>4, <2>4, FinishTask DEF Crash
  <2> QED
    BY <2>1, <2>2, <2>3, <2>4 DEF Next, Runner, RunnerBuilds, RunnerFails,
       Settle, SettleRead, SettleWrite, Age, vars
<1> QED
  BY <1>1, <1>2, <1>3, <1>4 DEF ShipInv, ShipsAreAccountedFor, At

\* lastDeployedAt and the broadcasts only speak of apps that the runner has run
\* or whose probe was misled, for every interleaving of requests, lost answers
\* and crashes (markReady, notifyDeploySucceeded, verifyAppLive).
THEOREM RealShips == Spec => []ShipsAreAccountedFor
<1>1. ShipInv => ShipsAreAccountedFor
  BY DEF ShipInv
<1> QED
  BY <1>1, TypeCorrect, ShipInit, ShipNext, PTL DEF Spec

-----------------------------------------------------------------------------
(* One broadcast for each app.                                             *)

\* Without overlap, the request under way that believes to be the first deploy
\* is, until it ships, and who is about to broadcast is the first to.
FirstHolds(t) ==
  Active(t) /\ task[t].first /\ ~At(t, "announce") => ~app[task[t].row].shipped

OnceInv ==
  /\ \A t, u \in Tasks : Active(t) /\ Active(u) => t = u
  /\ \A t \in Tasks : FirstHolds(t)
  /\ \A t \in Tasks : At(t, "announce") => announced[task[t].row] = 0
  /\ AnnouncedOnce

LEMMA OnceInit == Init => OnceInv
  BY DEF Init, OnceInv, FirstHolds, AnnouncedOnce, Active, At, NewTask

\* A step of request t for its row r, beside no other, which does not ship.
LEMMA OnceFrame ==
  ASSUME OnceInv, NEW t \in Tasks,
         \A u \in Tasks \ {t} : task'[u] = task[u] /\ ~Active(u),
         FirstHolds(t)', task'[t].pc # "announce",
         AnnouncedOnce'
  PROVE  OnceInv'
  BY DEF OnceInv, FirstHolds, Active, At

\* markReady, before the broadcast if it is the first.
LEMMA OnceShips ==
  ASSUME TypeOK, ShipInv, OnceInv, NEW t \in Tasks, MarkReady(t)
  PROVE  OnceInv'
<1>0. /\ Active(t) /\ ~At(t, "announce") /\ task \in [Tasks -> Task]
      /\ announced \in [Rows -> Nat]
  BY DEF MarkReady, At, Active, TypeOK
<1>1. /\ task[t].row \in Rows
      /\ \A u \in Tasks \ {t} : ~Active(u)
  BY <1>0, ActiveTask DEF OnceInv
<1>2. UNCHANGED announced /\ AnnouncedOnce'
  BY DEF MarkReady, OnceInv, AnnouncedOnce, history
<1>3. CASE Finish(t)
  <2>1. (\A u \in Tasks \ {t} : task'[u] = task[u]) /\ task'[t].pc = "done"
    BY <1>0, <1>3, FinishTask
  <2> QED
    BY <1>1, <1>2, <2>1, OnceFrame DEF FirstHolds, Active
<1>4. CASE task[t].first /\ Goto(t, "announce")
  <2>1. /\ \A u \in Tasks \ {t} : task'[u] = task[u]
        /\ task'[t].pc = "announce" /\ task'[t].row = task[t].row
    BY <1>0, <1>4, GotoTask DEF Steps
  <2>2. announced[task[t].row] = 0
    BY <1>0, <1>1, <1>4 DEF OnceInv, FirstHolds, ShipInv, ShipsAreAccountedFor
  <2> QED
    BY <1>1, <1>2, <2>1, <2>2 DEF OnceInv, FirstHolds, Active, At
<1> QED
  BY <1>3, <1>4 DEF MarkReady

LEMMA OnceBroadcasts ==
  ASSUME TypeOK, OnceInv, NEW t \in Tasks, Announce(t)
  PROVE  OnceInv'
<1>0. /\ Active(t) /\ At(t, "announce") /\ task \in [Tasks -> Task]
      /\ announced \in [Rows -> Nat]
  BY DEF Announce, At, Active, TypeOK
<1>1. /\ task[t].row \in Rows
      /\ \A u \in Tasks \ {t} : ~Active(u)
  BY <1>0, ActiveTask DEF OnceInv
<1>2. (\A u \in Tasks \ {t} : task'[u] = task[u]) /\ task'[t].pc = "done"
  BY <1>0, FinishTask DEF Announce
<1>3. AnnouncedOnce'
  BY <1>0, <1>1 DEF OnceInv, AnnouncedOnce, Announce
<1> QED
  BY <1>1, <1>2, <1>3, OnceFrame DEF FirstHolds, Active

\* Every other step leaves ships and broadcasts as they are.
LEMMA OnceKept ==
  ASSUME TypeOK, [Next]_vars, \A t \in Tasks : ~MarkReady(t) /\ ~Announce(t)
  PROVE  UNCHANGED announced /\ \A r \in Rows : app'[r].shipped = app[r].shipped
<1>1. app \in [Rows -> AppRow]
  BY DEF TypeOK
<1>2. ASSUME NEW r \in Rows, Launched(r) \/ Demoted(r) \/ Touched(r)
      PROVE  \A o \in Rows : app'[o].shipped = app[o].shipped
  BY <1>1, <1>2 DEF Launched, Demoted, Touched, SetRow
<1>3. CASE Next
  BY <1>2, <1>3, RowStep, Broadcasts DEF Parked, Settled
<1> QED
  BY <1>3 DEF vars

LEMMA OnceNext ==
  ASSUME "overlap" \notin Env, TypeOK, ShipInv, OnceInv, [Next]_vars
  PROVE  OnceInv'
<1>1. CASE \E t \in Tasks : MarkReady(t) \/ Announce(t)
  BY <1>1, OnceShips, OnceBroadcasts
<1>2. CASE \A t \in Tasks : ~MarkReady(t) /\ ~Announce(t)
  <2>0. /\ UNCHANGED announced
        /\ \A r \in Rows : app'[r].shipped = app[r].shipped
        /\ AnnouncedOnce' /\ task \in [Tasks -> Task]
    BY <1>2, OnceKept DEF TypeOK, OnceInv, AnnouncedOnce
  <2>1. ASSUME NEW t \in Tasks, Start(t)
        PROVE  OnceInv'
    <3>1. \A u \in Tasks : ~Active(u)
      BY <2>1 DEF Start, StartUpload, StartRedeploy, StartDelete, StartEdit, MayStart
    <3>2. FirstHolds(t)' /\ task'[t].pc # "announce"
      BY <2>0, <2>1, StartTask DEF FirstHolds
    <3> QED
      BY <2>0, <2>1, <3>1, <3>2, StartTask, OnceFrame
  <2>2. ASSUME NEW t \in Tasks, Step(t)
        PROVE  OnceInv'
    <3>1. Active(t) /\ ~At(t, "announce")
      BY <1>2, <2>2
         DEF Step, CheckBusy, WriteDeploying, StoreBundle, LoseBundle, Uploading,
             WriteDraft, CheckClaim, StoreSecrets, LoseSecrets, RecordNames,
             StartProxy, BuildReply, BuildTimeout, AppAnswers, AppSilent,
             ReadRegistry, Inject, InjectLocked, InjectFails, InjectTimeout,
             FailDeploy, TearDown, RefuseTearDown, RecordDelete, WriteEdit, At,
             Active
    <3>2. task[t].row \in Rows /\ \A u \in Tasks \ {t} : ~Active(u)
      BY <3>1, ActiveTask DEF OnceInv
    <3>3. Advance(t)
      BY <2>2, TaskStep
    <3>4. task'[t].pc # "announce"
      BY <1>2, <3>3 DEF Advance
    <3>5. FirstHolds(t)'
      BY <2>0, <3>1, <3>2, <3>3 DEF Advance, FirstHolds, OnceInv, Active
    <3> QED
      BY <2>0, <3>2, <3>3, <3>4, <3>5, OnceFrame DEF Advance
  <2>3. ASSUME NEW t \in Tasks, Crash(t)
        PROVE  OnceInv'
    <3>1. \A u \in Tasks \ {t} : ~Active(u)
      BY <2>3 DEF Crash, OnceInv
    <3>2. (\A u \in Tasks \ {t} : task'[u] = task[u]) /\ task'[t].pc = "done"
      BY <2>0, <2>3, FinishTask DEF Crash
    <3> QED
      BY <2>0, <3>1, <3>2, OnceFrame DEF FirstHolds, Active
  <2>4. CASE UNCHANGED task
    <3>1. ASSUME NEW t \in Tasks
          PROVE  FirstHolds(t)'
      <4>1. FirstHolds(t) /\ (Active(t) => task[t].row \in Rows)
        BY ActiveTask DEF OnceInv
      <4> QED
        BY <2>0, <2>4, <4>1 DEF FirstHolds, Active, At
    <3> QED
      BY <2>0, <2>4, <3>1 DEF OnceInv, Active, At
  <2> QED
    BY <2>1, <2>2, <2>3, <2>4
       DEF Next, Runner, RunnerBuilds, RunnerFails, Settle, SettleRead,
           SettleWrite, Age, vars
<1> QED
  BY <1>1, <1>2

\* proxyDeploy broadcasts "new app is live" once for each app, whatever dies,
\* times out or fails: only a deploy that found lastDeployedAt null broadcasts,
\* and markReady has set it before.  Requests that overlap may both find it null.
THEOREM BroadcastOnce ==
  ASSUME "overlap" \notin Env
  PROVE  Spec => []AnnouncedOnce
<1>1. TypeOK /\ ShipInv /\ OnceInv /\ [Next]_vars => OnceInv'
  BY OnceNext
<1>2. OnceInv => AnnouncedOnce
  BY DEF OnceInv
<1> QED
  BY <1>1, <1>2, TypeCorrect, ShipInit, ShipNext, OnceInit, PTL DEF Spec

-----------------------------------------------------------------------------
(* The rows implement AiAppsServing.                                       *)

LEMMA ServingOf ==
  ASSUME NEW row \in AppRow
  PROVE  /\ row.status = "READY" => Serving(row) = "latest"
         /\ row.status # "READY" /\ row.shipped => Serving(row) = "previous"
         /\ row.status # "READY" /\ ~row.shipped => Serving(row) = "none"
  BY DEF Serving

serving == [r \in Rows |-> Serving(app[r])]

\* Writing one row changes what one app serves.
LEMMA ServingWrite ==
  ASSUME TypeOK, NEW r \in Rows, NEW row \in AppRow, SetRow(r, row)
  PROVE  serving' = [serving EXCEPT ![r] = Serving(row)]
<1>1. app' = [app EXCEPT ![r] = row] /\ app \in [Rows -> AppRow]
  BY DEF TypeOK, SetRow
<1>2. app'[r] = row /\ \A o \in Rows \ {r} : app'[o] = app[o]
  BY <1>1
<1>3. serving' = [o \in Rows |-> Serving(app'[o])]
  BY DEF serving, Serving
<1> QED
  BY <1>2, <1>3 DEF serving

LEMMA ServingInit == Init => ServingSpec!Init
<1> SUFFICES ASSUME Init
             PROVE  ServingSpec!Init
  OBVIOUS
<1>1. \A r \in Rows : Serving(app[r]) = "none"
  BY DEF Init, NewRow, Serving
<1> QED
  BY <1>1 DEF Init, ServingSpec!Init

LEMMA ServingNext ==
  ASSUME TypeOK, ShipInv, ReadyIsClean, [Next]_vars
  PROVE  ServingSpec!Next \/ UNCHANGED <<serving, announced>>
<1>0. app \in [Rows -> AppRow]
  BY DEF TypeOK
<1>1. CASE UNCHANGED app
  <2>1. UNCHANGED serving
    BY <1>1 DEF serving, Serving
  <2>2. ASSUME NEW t \in Tasks, At(t, "announce"),
               announced' = [announced EXCEPT ![task[t].row] = @ + 1]
        PROVE  ServingSpec!Next
    <3>1. task[t].row \in Rows /\ app[task[t].row].shipped
      BY <2>2, ActiveTask DEF ShipInv, At, Active
    <3>2. serving[task[t].row] # "none"
      BY <1>0, <3>1, ServingOf DEF serving
    <3>3. ServingSpec!Broadcast(task[t].row)
      BY <2>1, <2>2, <3>1, <3>2 DEF ServingSpec!Broadcast, serving
    <3> QED
      BY <3>1, <3>3 DEF ServingSpec!Next
  <2> QED
    BY <2>1, <2>2, Broadcasts DEF vars
<1>2. ASSUME NEW r \in Rows, NEW row \in AppRow, SetRow(r, row),
             row.status # "READY", row.shipped = app[r].shipped,
             UNCHANGED announced
      PROVE  ServingSpec!Next \/ UNCHANGED <<serving, announced>>
  <2>1. serving' = [serving EXCEPT ![r] = Serving(row)]
    BY <1>2, ServingWrite
  <2>2. CASE app[r].status = "READY"
    <3>1. Serving(row) = "previous" /\ serving[r] = "latest"
      BY <1>0, <1>2, <2>2, ServingOf DEF ReadyIsClean, serving
    <3>2. ServingSpec!Fall(r)
      BY <1>2, <2>1, <3>1 DEF ServingSpec!Fall, serving
    <3> QED
      BY <3>2 DEF ServingSpec!Next
  <2>3. CASE app[r].status # "READY"
    <3>1. Serving(row) = serving[r]
      BY <1>0, <1>2, <2>3, ServingOf DEF serving
    <3>2. UNCHANGED serving
      BY <2>1, <3>1 DEF serving
    <3> QED
      BY <1>2, <3>2
  <2> QED
    BY <2>2, <2>3
<1>3. ASSUME NEW r \in Rows, Launched(r) \/ Demoted(r), UNCHANGED announced
      PROVE  ServingSpec!Next \/ UNCHANGED <<serving, announced>>
  BY <1>2, <1>3 DEF Launched, Demoted
<1>4. ASSUME NEW r \in Rows, Touched(r), UNCHANGED announced
      PROVE  UNCHANGED <<serving, announced>>
  <2>1. PICK row \in AppRow : /\ SetRow(r, row)
                              /\ row.status = app[r].status
                              /\ row.shipped = app[r].shipped
    BY <1>4 DEF Touched
  <2>2. Serving(row) = serving[r]
    BY <1>0, <2>1, ServingOf DEF serving
  <2>3. serving' = [serving EXCEPT ![r] = Serving(row)]
    BY <2>1, ServingWrite
  <2> QED
    BY <1>4, <2>2, <2>3 DEF serving
<1>5. ASSUME NEW r \in Rows, Promoted(r), UNCHANGED announced
      PROVE  ServingSpec!Next
  <2>1. PICK row \in AppRow : SetRow(r, row) /\ row.status = "READY"
    BY <1>5 DEF Promoted
  <2>2. serving' = [serving EXCEPT ![r] = "latest"]
    BY <2>1, ServingOf, ServingWrite
  <2>3. ServingSpec!Ship(r)
    BY <1>5, <2>2 DEF ServingSpec!Ship, serving
  <2> QED
    BY <2>3 DEF ServingSpec!Next
<1>6. CASE Next /\ UNCHANGED announced
  <2>1. \A t \in Tasks : At(t, "ready") => task[t].row \in Rows
    BY ActiveTask DEF At, Active
  <2> QED
    BY <1>1, <1>3, <1>4, <1>5, <1>6, <2>1, RowStep DEF Parked, Settled
<1> QED
  BY <1>1, <1>6, Broadcasts DEF vars

\* Seen through toApiApp, the rows keep what AiAppsServing promises, however
\* requests, dashboards and faults interleave.
THEOREM ServingRefined == Spec => ServingIsHonest
<1>1. TypeOK /\ ShipInv /\ ReadyIsClean /\ [Next]_vars
        => [ServingSpec!Next]_<<serving, announced>>
  BY ServingNext
<1> QED
  BY <1>1, TypeCorrect, ReadyClean, ServingInit, ShipInit, ShipNext, PTL
     DEF Spec, ServingIsHonest, ServingSpec!Spec, serving

-----------------------------------------------------------------------------
(* Recorded names are stored.                                              *)

\* The names a request will record are stored once it has stored its own.
NamesSound(t) ==
  /\ task[t].pc \in Saving =>
       task[t].names \subseteq secrets[AppId(task[t].row)] \cup task[t].given
  /\ task[t].pc = "names" => task[t].given \subseteq secrets[AppId(task[t].row)]

NamesInv == RecordedNamesAreStored /\ \A t \in Tasks : NamesSound(t)

LEMMA NamesInit == Init => NamesInv
  BY DEF Init, NamesInv, NamesSound, RecordedNamesAreStored, Saving, At, NewRow, NewTask

\* Secrets are never removed, and only one kind of step adds any.
LEMMA SecretsGrow ==
  ASSUME TypeOK, [Next]_vars
  PROVE  /\ \A a \in AppIds : secrets[a] \subseteq secrets'[a]
         /\ UNCHANGED secrets \/ \E t \in Tasks : StoreSecrets(t)
<1>1. ASSUME NEW t \in Tasks, StoreSecrets(t)
      PROVE  \A a \in AppIds : secrets[a] \subseteq secrets'[a]
  BY <1>1 DEF StoreSecrets, Merged, TypeOK
<1>2. ASSUME NEW t \in Tasks, Start(t)
      PROVE  UNCHANGED secrets
  BY <1>2, StartTask DEF runnerVars
<1>3. ASSUME NEW t \in Tasks, Step(t), ~StoreSecrets(t)
      PROVE  UNCHANGED secrets
  BY <1>3 DEF Step, CheckBusy, WriteDeploying, StoreBundle, LoseBundle,
     WriteDraft, CheckClaim, LoseSecrets, RecordNames, StartProxy,
     BuildReply, BuildTimeout, AppAnswers, AppSilent, ReadRegistry, Inject,
     InjectLocked, InjectFails, InjectTimeout, MarkReady, Announce, FailDeploy,
     TearDown, RefuseTearDown, RecordDelete, WriteEdit, runnerVars
<1>4. UNCHANGED secrets \/ \E t \in Tasks : StoreSecrets(t)
  BY <1>2, <1>3 DEF Next, Runner, RunnerBuilds, RunnerFails, Crash, Settle,
     SettleRead, SettleWrite, Age, vars, runnerVars
<1> QED
  BY <1>1, <1>4

LEMMA ProvidedNext ==
  ASSUME TypeOK, NamesInv, [Next]_vars
  PROVE  RecordedNamesAreStored'
<1>0. app \in [Rows -> AppRow] /\ \A r \in Rows : AppId(r) \in AppIds
  BY DEF TypeOK, Rows, AppId
<1>1. ASSUME NEW r \in Rows, NEW row \in AppRow, SetRow(r, row),
             row.provided \subseteq secrets[AppId(r)]
      PROVE  RecordedNamesAreStored'
  BY <1>0, <1>1, SecretsGrow DEF SetRow, NamesInv, RecordedNamesAreStored
<1>2. CASE UNCHANGED app
  BY <1>0, <1>2, SecretsGrow DEF NamesInv, RecordedNamesAreStored
<1>3. ASSUME NEW r \in Rows, Launched(r) \/ Demoted(r) \/ Promoted(r)
      PROVE  RecordedNamesAreStored'
  <2>1. app[r].provided \subseteq secrets[AppId(r)]
    BY DEF NamesInv, RecordedNamesAreStored
  <2> QED
    BY <1>1, <1>3, <2>1 DEF Launched, Demoted, Promoted
<1>4. ASSUME NEW r \in Rows, Touched(r)
      PROVE  RecordedNamesAreStored'
  <2>1. app[r].provided \subseteq secrets[AppId(r)]
    BY DEF NamesInv, RecordedNamesAreStored
  <2>2. ASSUME NEW t \in Tasks, At(t, "names"), task[t].row = r
        PROVE  task[t].names \subseteq secrets[AppId(r)]
    BY <2>2 DEF NamesInv, NamesSound, Saving, At
  <2> QED
    BY <1>1, <1>4, <2>1, <2>2 DEF Touched
<1>5. CASE Next
  <2>1. \A t \in Tasks : At(t, "ready") => task[t].row \in Rows
    BY ActiveTask DEF At, Active
  <2> QED
    BY <1>2, <1>3, <1>4, <1>5, <2>1, RowStep DEF Parked, Settled
<1> QED
  BY <1>2, <1>5 DEF vars

LEMMA NamesNext == TypeOK /\ NamesInv /\ [Next]_vars => NamesInv'
<1> SUFFICES ASSUME TypeOK, NamesInv, [Next]_vars
             PROVE  NamesInv'
  OBVIOUS
<1>0. task \in [Tasks -> Task] /\ secrets \in [AppIds -> SUBSET EnvVars]
  BY DEF TypeOK
<1>1. RecordedNamesAreStored'
  BY ProvidedNext
<1>2. ASSUME NEW u \in Tasks, task'[u] = task[u]
      PROVE  NamesSound(u)'
  <2>1. task[u].pc \in Saving => AppId(task[u].row) \in AppIds
    BY ActiveTask DEF Active, Saving
  <2> QED
    BY <1>2, <2>1, SecretsGrow DEF NamesInv, NamesSound, Saving, At
<1>3. ASSUME NEW t \in Tasks, Start(t)
      PROVE  \A u \in Tasks : NamesSound(u)'
  <2>1. NamesSound(t)'
    <3>1. CASE task'[t].pc = "reclaim"
      <4>1. PICK r \in Rows, given \in SUBSET EnvVars :
              /\ StartRedeploy(t, r, given)
              /\ task'[t].row = r
              /\ task'[t].given = given
              /\ task'[t].names = app[r].provided \cup given
        BY <1>3, <3>1, StartTask
      <4>2. UNCHANGED secrets /\ app[r].provided \subseteq secrets[AppId(r)]
        BY <4>1 DEF StartRedeploy, runnerVars, NamesInv, RecordedNamesAreStored
      <4> QED
        BY <3>1, <4>1, <4>2 DEF NamesSound
    <3>2. CASE task'[t].pc # "reclaim"
      BY <1>3, <3>2, StartTask DEF NamesSound, Saving
    <3> QED
      BY <3>1, <3>2
  <2> QED
    BY <1>2, <1>3, <2>1, StartTask
<1>4. ASSUME NEW t \in Tasks, Step(t)
      PROVE  \A u \in Tasks : NamesSound(u)'
  <2>0. Advance(t)
    BY <1>4, TaskStep
  <2>1. CASE task'[t].pc \notin Saving
    <3>1. NamesSound(t)'
      BY <2>1 DEF NamesSound, Saving
    <3> QED
      BY <1>2, <2>0, <3>1 DEF Advance
  <2>2. CASE CheckClaim(t) /\ task'[t].pc \in Saving
    <3>1. Goto(t, "proxy") \/ Goto(t, "secrets")
      BY <1>0, <2>2, FinishTask DEF CheckClaim, Saving
    <3>2. /\ task'[t].pc # "names" /\ task'[t].row = task[t].row
          /\ task'[t].names = task[t].names /\ task'[t].given = task[t].given
      BY <1>0, <3>1, GotoTask DEF Steps
    <3>3. UNCHANGED secrets /\ task[t].pc \in Saving
      BY <2>2 DEF CheckClaim, At, Saving, runnerVars
    <3>4. NamesSound(t)'
      BY <3>2, <3>3 DEF NamesInv, NamesSound
    <3> QED
      BY <1>2, <2>0, <3>4 DEF Advance
  <2>3. CASE StoreSecrets(t)
    <3>1. Goto(t, "names") /\ task[t].pc \in Saving
      BY <2>3 DEF StoreSecrets, At, Saving
    <3>2. /\ task'[t].row = task[t].row
          /\ task'[t].names = task[t].names /\ task'[t].given = task[t].given
      BY <1>0, <3>1, GotoTask DEF Steps
    <3>3. AppId(task[t].row) \in AppIds
      BY <2>3, ActiveTask DEF StoreSecrets, At, Active
    <3>4. secrets'[AppId(task[t].row)] =
            secrets[AppId(task[t].row)] \cup task[t].given
      BY <1>0, <2>3, <3>3 DEF StoreSecrets, Merged
    <3>5. NamesSound(t)'
      BY <3>1, <3>2, <3>4 DEF NamesInv, NamesSound
    <3> QED
      BY <1>2, <2>0, <3>5 DEF Advance
  <2> QED
    BY <2>0, <2>1, <2>2, <2>3 DEF Advance
<1>5. ASSUME NEW t \in Tasks, Crash(t)
      PROVE  \A u \in Tasks : NamesSound(u)'
  <2>1. (\A u \in Tasks \ {t} : task'[u] = task[u]) /\ task'[t].pc = "done"
    BY <1>0, <1>5, FinishTask DEF Crash
  <2> QED
    BY <1>2, <2>1 DEF NamesSound, Saving
<1>6. \/ \A u \in Tasks : task'[u] = task[u]
      \/ \E t \in Tasks : Start(t)
      \/ \E t \in Tasks : Step(t)
      \/ \E t \in Tasks : Crash(t)
  BY DEF Next, Runner, RunnerBuilds, RunnerFails, Settle, SettleRead,
     SettleWrite, Age, vars
<1>7. CASE \A u \in Tasks : task'[u] = task[u]
  <2>1. \A u \in Tasks : NamesSound(u)'
    BY <1>2, <1>7
  <2> QED
    BY <1>1, <2>1 DEF NamesInv
<1>8. CASE \E t \in Tasks : Start(t)
  <2>1. PICK t \in Tasks : Start(t)
    BY <1>8
  <2>2. \A u \in Tasks : NamesSound(u)'
    BY <1>3, <2>1
  <2> QED
    BY <1>1, <2>2 DEF NamesInv
<1>9. CASE \E t \in Tasks : Step(t)
  <2>1. PICK t \in Tasks : Step(t)
    BY <1>9
  <2>2. \A u \in Tasks : NamesSound(u)'
    BY <1>4, <2>1
  <2> QED
    BY <1>1, <2>2 DEF NamesInv
<1>10. CASE \E t \in Tasks : Crash(t)
  <2>1. PICK t \in Tasks : Crash(t)
    BY <1>10
  <2>2. \A u \in Tasks : NamesSound(u)'
    BY <1>5, <2>1
  <2> QED
    BY <1>1, <2>2 DEF NamesInv
<1> QED
  BY <1>6, <1>7, <1>8, <1>9, <1>10

\* providedEnvVars never names a value the runner does not hold, however the
\* saves of several requests interleave or die half way (saveSecrets).
THEOREM NamesAreStored == Spec => []RecordedNamesAreStored
<1>1. NamesInv => RecordedNamesAreStored
  BY DEF NamesInv
<1> QED
  BY <1>1, TypeCorrect, NamesInit, NamesNext, PTL DEF Spec

-----------------------------------------------------------------------------
(* What holds while requests do not overlap or die and the runner answers. *)

\* Requests that do not overlap, die or lose the runner's answers, and members
\* that delete an app once.
Calm == {"overlap", "crash", "timeout", "redelete"} \cap Env = {}

\* At most one request is under way, and the runner builds for that one.
OneAtATime ==
  /\ \A t, u \in Tasks : Active(t) /\ Active(u) => t = u
  /\ \A t \in Tasks : build[t].phase = "running" => At(t, "building")

\* One row holds an appId, and what runs under the appId belongs to it.
OneHolder ==
  /\ \A r, o \in Rows : Live(r) /\ Live(o) /\ AppId(r) = AppId(o) => r = o
  /\ \A a \in AppIds : release[a] # None =>
       AppId(release[a].owner) = a /\ Live(release[a].owner)

\* The bundle b of row r runs under its appId.
Runs(r, b) ==
  /\ release[AppId(r)] # None
  /\ release[AppId(r)].owner = r
  /\ release[AppId(r)].bundle = b

\* A READY row runs its bundle with its database, and with its names unless a
\* redeploy has recorded more and is about to build.
Served(r) ==
  app[r].status = "READY" =>
    /\ Runs(r, app[r].bundle)
    /\ app[r].database => release[AppId(r)].database
    /\ \/ app[r].provided \subseteq release[AppId(r)].config
       \/ \E t \in Tasks : At(t, "proxy") /\ task[t].row = r

\* The steps before a request has made the row its own.
Claiming == {"claimed", "clear", "draftRow"}

\* The steps of a deploy until it marks the row READY.
Deploying == {"upload", "reclaim", "secrets", "names", "proxy", "building",
              "registry", "inject", "ready"}

\* What a request t under way knows of its row and of the runner.
Underway(t) ==
  LET r == task[t].row IN
  /\ task[t].pc \notin {"verifyBuild", "verifyInject"}
  /\ IF task[t].pc \in Claiming THEN ~ClaimedByOther(r) ELSE Live(r)
  /\ task[t].pc \in {"upload", "building", "fail"} \cup Built =>
       app[r].status \in {"DEPLOYING", "ERROR"}
  /\ task[t].pc \in {"deleting", "deleted", "undeleted"} =>
       app[r].status = "DELETING"
  /\ task[t].pc \in Deploying =>
       /\ app[r].provided \subseteq task[t].names
       /\ app[r].database => task[t].database
  /\ At(t, "building") =>
       /\ build[t].phase # "none"
       /\ build[t].row = r
       /\ build[t].bundle = task[t].bundle
       /\ app[r].bundle = task[t].bundle
       /\ build[t].phase = "ok" =>
            release[AppId(r)] = ReleaseOf(r, task[t].bundle, {}, FALSE)
  /\ task[t].pc \in Built =>
       Runs(r, task[t].bundle) /\ app[r].bundle = task[t].bundle
  /\ At(t, "ready") =>
       /\ task[t].names \subseteq release[AppId(r)].config
       /\ task[t].database => release[AppId(r)].database
  /\ At(t, "deleted") => release[AppId(r)] = None

CalmInv ==
  /\ OneAtATime
  /\ OneHolder
  /\ \A r \in Rows : Served(r)
  /\ \A t \in Tasks : Active(t) => Underway(t)

-----------------------------------------------------------------------------
(* Rows, and what the requests write of them.                              *)

LEMMA RowPair ==
  ASSUME NEW r \in Rows, NEW o \in Rows, Owner(r) = Owner(o), AppId(r) = AppId(o)
  PROVE  r = o
  BY DEF Rows, Owner, AppId

LEMMA RowAppId ==
  ASSUME NEW r \in Rows
  PROVE  AppId(r) \in AppIds /\ Owner(r) \in Members /\ r = <<Owner(r), AppId(r)>>
  BY DEF Rows, Owner, AppId

\* The fields that the writes of a row change or keep.
LEMMA RowFields ==
  ASSUME NEW row \in AppRow
  PROVE  /\ \A b, db : LET new == Uploaded(row, b, db) IN
              /\ new.status = "DEPLOYING" /\ new.bundle = b /\ new.database = db
              /\ new.provided = row.provided
         /\ \A b, db, needed : LET new == Drafted(row, b, db, needed) IN
              new.status = "DRAFT"
         /\ \A names : LET new == Named(row, names) IN
              /\ new.status = row.status /\ new.bundle = row.bundle
              /\ new.provided = names
              /\ new.database = row.database
         /\ \A b : LET new == Proxied(row, b) IN
              /\ new.status = "DEPLOYING" /\ new.bundle = b
              /\ new.provided = row.provided
              /\ new.database = row.database
         /\ \A db \in BOOLEAN : LET new == Shipped(row, db) IN
              /\ new.status = "READY" /\ new.bundle = row.bundle
              /\ new.provided = row.provided
              /\ new.database = (row.database \/ db)
         /\ \A stream : LET new == Failed(row, stream) IN
              /\ new.status = "ERROR" /\ new.bundle = row.bundle
              /\ new.provided = row.provided
              /\ new.database = row.database
         /\ \A status : LET new == Deletion(row, status) IN
              new.status = status
         /\ \A old : LET new == [row EXCEPT !.aged = old] IN
              /\ new.status = row.status /\ new.bundle = row.bundle
              /\ new.provided = row.provided
              /\ new.database = row.database
  BY DEF AppRow, Uploaded, Drafted, Named, Proxied, Shipped, Failed, Deletion

\* A request that goes on keeps what it read.
LEMMA GotoKeeps ==
  ASSUME TypeOK, NEW t \in Tasks, NEW step, Goto(t, step)
  PROVE  /\ \A u \in Tasks \ {t} : task'[u] = task[u]
         /\ task'[t].pc = step
         /\ task'[t].row = task[t].row
         /\ task'[t].bundle = task[t].bundle
         /\ task'[t].names = task[t].names
        
         /\ task'[t].database = task[t].database
  BY DEF TypeOK, Goto, Task

LEMMA WroteRow ==
  ASSUME TypeOK, NEW r \in Rows, NEW row, SetRow(r, row)
  PROVE  app'[r] = row /\ \A o \in Rows \ {r} : app'[o] = app[o]
  BY DEF TypeOK, SetRow

\* While t is under way no other request is.
LEMMA OthersRest ==
  ASSUME CalmInv, NEW t \in Tasks, Active(t)
  PROVE  \A u \in Tasks \ {t} : ~Active(u)
  BY DEF CalmInv, OneAtATime

-----------------------------------------------------------------------------
(* How a step keeps the invariant.                                         *)

\* A step of request t for its row r, which may write r, build t and what runs
\* under the appId of r.
LEMMA CalmFrame ==
  ASSUME CalmInv, NEW t \in Tasks, NEW r \in Rows,
         \A u \in Tasks \ {t} :
           task'[u] = task[u] /\ build'[u] = build[u] /\ ~Active(u),
         Active(t) => task[t].row = r,
         Active(t)' => Underway(t)',
         (build[t].phase = "running")' => At(t, "building")',
         \A o \in Rows \ {r} : app'[o] = app[o],
         Live(r)' => Live(r) \/ ~ClaimedByOther(r),
         Live(r) => Live(r)' \/ release'[AppId(r)] = None,
         \A a \in AppIds :
           \/ release'[a] = release[a]
           \/ /\ a = AppId(r) /\ Live(r) /\ Live(r)'
              /\ release'[a] = None \/ release'[a].owner = r,
         release \in [AppIds -> Release \cup {None}],
         Served(r)'
  PROVE  CalmInv'
<1>1. OneAtATime'
  <2>1. \A u \in Tasks \ {t} : ~Active(u)'
    BY DEF Active
  <2>2. \A u \in Tasks \ {t} : (build[u].phase # "running")'
    BY DEF CalmInv, OneAtATime, At, Active
  <2> QED
    BY <2>1, <2>2 DEF OneAtATime
<1>2. \A o \in Rows \ {r} : Live(o)' = Live(o)
  BY DEF Live
<1>3. \A o \in Rows \ {r} : Live(r)' /\ Live(o) => AppId(o) # AppId(r)
  <2> SUFFICES ASSUME NEW o \in Rows \ {r}, Live(r)', Live(o), AppId(o) = AppId(r)
               PROVE  FALSE
    OBVIOUS
  <2>1. Owner(o) # Owner(r)
    BY RowPair
  <2>2. CASE Live(r)
    BY <2>2 DEF CalmInv, OneHolder
  <2>3. CASE ~ClaimedByOther(r)
    BY <2>1, <2>3 DEF ClaimedByOther
  <2> QED
    BY <2>2, <2>3
<1>4. OneHolder'
  <2>1. \A q, o \in Rows : (Live(q) /\ Live(o))' /\ AppId(q) = AppId(o) => q = o
    <3> SUFFICES ASSUME NEW q \in Rows, NEW o \in Rows, Live(q)', Live(o)',
                        AppId(q) = AppId(o), q # o
                 PROVE  FALSE
      OBVIOUS
    <3>1. CASE q = r
      BY <1>2, <1>3, <3>1
    <3>2. CASE o = r
      BY <1>2, <1>3, <3>2
    <3>3. CASE q # r /\ o # r
      BY <1>2, <3>3 DEF CalmInv, OneHolder
    <3> QED
      BY <3>1, <3>2, <3>3
  <2>2. ASSUME NEW a \in AppIds, release'[a] # None
        PROVE  AppId(release'[a].owner) = a /\ (Live(release[a].owner))'
    <3>1. CASE release'[a] = release[a]
      <4>1. release[a].owner \in Rows
        BY <2>2, <3>1 DEF Release
      <4>2. AppId(release[a].owner) = a /\ Live(release[a].owner)
        BY <2>2, <3>1 DEF CalmInv, OneHolder
      <4>3. CASE release[a].owner = r
        <5>1. Live(r)'
          BY <2>2, <3>1, <4>2, <4>3
        <5> QED
          BY <3>1, <4>2, <4>3, <5>1 DEF Live
      <4>4. CASE release[a].owner # r
        BY <1>2, <3>1, <4>1, <4>2, <4>4 DEF Live
      <4> QED
        BY <4>3, <4>4
    <3>2. CASE a = AppId(r) /\ Live(r)' /\ release'[a].owner = r
      BY <3>2 DEF Live
    <3> QED
      BY <2>2, <3>1, <3>2
  <2> QED
    BY <2>1, <2>2 DEF OneHolder
<1>5. ASSUME NEW o \in Rows
      PROVE  Served(o)'
  <2>1. CASE o = r
    BY <2>1
  <2>2. ASSUME o # r, app'[o].status = "READY"
        PROVE  Served(o)'
    <3>1. app'[o] = app[o] /\ app[o].status = "READY" /\ Live(o) /\ Served(o)
      BY <2>2 DEF Live, CalmInv
    <3>2. release'[AppId(o)] = release[AppId(o)]
      BY <1>3, <2>2, <3>1, RowAppId DEF CalmInv, OneHolder
    <3>3. \A u \in Tasks : ~(At(u, "proxy") /\ task[u].row = o)
      BY <2>2 DEF At, Active
    <3>4. Runs(o, app[o].bundle)'
      BY <3>1, <3>2 DEF Served, Runs
    <3> QED
      BY <3>1, <3>2, <3>3, <3>4 DEF Served
  <2> QED
    BY <2>1, <2>2 DEF Served
<1>6. \A u \in Tasks : Active(u)' => Underway(u)'
  <2>1. \A u \in Tasks \ {t} : ~Active(u)'
    BY DEF Active
  <2> QED
    BY <2>1
<1> QED
  BY <1>1, <1>4, <1>5, <1>6 DEF CalmInv

\* A step of request t that writes nothing.
LEMMA CalmMove ==
  ASSUME TypeOK, CalmInv, NEW t \in Tasks, Active(t),
         ~At(t, "proxy"), build[t].phase # "running",
         \A u \in Tasks \ {t} : task'[u] = task[u],
         Active(t)' => Underway(t)',
         UNCHANGED <<app, release, build>>
  PROVE  CalmInv'
<1>1. PICK r \in Rows : task[t].row = r
  BY ActiveTask
<1>2. Live(r)' = Live(r)
  BY DEF Live
<1>3. Served(r)'
  <2>1. Served(r)
    BY <1>1 DEF CalmInv
  <2>2. \A u \in Tasks : ~At(u, "proxy")
    BY OthersRest DEF At, Active
  <2>3. Runs(r, app[r].bundle)' = Runs(r, app[r].bundle)
    BY DEF Runs
  <2> QED
    BY <2>1, <2>2, <2>3 DEF Served
<1>4. release \in [AppIds -> Release \cup {None}]
  BY DEF TypeOK
<1> QED
  BY <1>1, <1>2, <1>3, <1>4, OthersRest, CalmFrame

\* A request that ends without a write.
LEMMA CalmEnd ==
  ASSUME TypeOK, CalmInv, NEW t \in Tasks, Active(t), Finish(t),
         ~At(t, "proxy"), build[t].phase # "running",
         UNCHANGED <<app, release, build>>
  PROVE  CalmInv'
<1>1. /\ \A u \in Tasks \ {t} : task'[u] = task[u]
      /\ ~Active(t)'
  BY FinishTask DEF TypeOK, Active
<1> QED
  BY <1>1, CalmMove

\* A write of a row r by no request: only a DEPLOYING row may change its status,
\* to ERROR.
LEMMA CalmRow ==
  ASSUME TypeOK, CalmInv, NEW r \in Rows, NEW row, SetRow(r, row),
         \/ row.status = app[r].status
         \/ app[r].status = "DEPLOYING" /\ row.status = "ERROR",
         row.bundle = app[r].bundle,
         row.provided = app[r].provided, row.database = app[r].database,
         UNCHANGED <<task, build, release>>
  PROVE  CalmInv'
<1>1. ASSUME NEW o \in Rows
      PROVE  /\ app'[o].bundle = app[o].bundle
             /\ app'[o].provided = app[o].provided
             /\ app'[o].database = app[o].database
             /\ \/ app'[o].status = app[o].status
                \/ app[o].status = "DEPLOYING" /\ app'[o].status = "ERROR"
  BY WroteRow
<1>2. \A o \in Rows : Live(o)' = Live(o)
  BY <1>1 DEF Live
<1>3. OneAtATime'
  BY DEF CalmInv, OneAtATime, Active, At
<1>4. OneHolder'
  <2>1. \A q, o \in Rows : (Live(q) /\ Live(o))' /\ AppId(q) = AppId(o) => q = o
    BY <1>2 DEF CalmInv, OneHolder
  <2>2. ASSUME NEW a \in AppIds, release[a] # None
        PROVE  AppId(release[a].owner) = a /\ (Live(release[a].owner))'
    <3>1. release[a].owner \in Rows
      BY <2>2 DEF TypeOK, Release
    <3>2. AppId(release[a].owner) = a /\ Live(release[a].owner)
      BY <2>2 DEF CalmInv, OneHolder
    <3> QED
      BY <1>2, <3>1, <3>2 DEF Live
  <2> QED
    BY <2>1, <2>2 DEF OneHolder
<1>5. ASSUME NEW o \in Rows
      PROVE  Served(o)'
  <2>1. Served(o)
    BY DEF CalmInv
  <2>2. (Runs(o, app[o].bundle))' = Runs(o, app[o].bundle)
    BY <1>1 DEF Runs
  <2> QED
    BY <1>1, <2>1, <2>2 DEF Served, At
<1>6. ASSUME NEW u \in Tasks, Active(u)'
      PROVE  Underway(u)'
  <2>1. Active(u) /\ Underway(u) /\ task[u].row \in Rows
    BY <1>6, ActiveTask DEF CalmInv, Active
  <2>2. ClaimedByOther(task[u].row)' = ClaimedByOther(task[u].row)
    BY <1>2 DEF ClaimedByOther
  <2>3. Runs(task[u].row, task[u].bundle)' = Runs(task[u].row, task[u].bundle)
    BY DEF Runs
  <2>4. Live(task[u].row)' = Live(task[u].row)
    BY <1>2, <2>1 DEF Live
  <2>5. PICK q \in Rows : task[u].row = q
    BY <2>1
  <2>6. /\ app'[q].bundle = app[q].bundle
        /\ app'[q].provided = app[q].provided
        /\ app'[q].database = app[q].database
        /\ \/ app'[q].status = app[q].status
           \/ app[q].status = "DEPLOYING" /\ app'[q].status = "ERROR"
    BY <1>1
  <2> QED
    BY <2>1, <2>2, <2>3, <2>4, <2>5, <2>6 DEF Underway, At, Built
<1> QED
  BY <1>3, <1>4, <1>5, <1>6 DEF CalmInv

-----------------------------------------------------------------------------
(* The requests start.                                                     *)

\* Nothing is under way when a request starts.
LEMMA CalmAlone ==
  ASSUME Calm, CalmInv, NEW t \in Tasks, MayStart(t)
  PROVE  /\ \A u \in Tasks : ~Active(u)
         /\ \A u \in Tasks : build[u].phase # "running"
  BY DEF Calm, MayStart, CalmInv, OneAtATime, At, Active

\* A request that starts with k, and writes nothing.
LEMMA CalmOpen ==
  ASSUME Calm, TypeOK, CalmInv, NEW t \in Tasks, NEW r \in Rows, MayStart(t),
         NEW k, task' = [task EXCEPT ![t] = k], k.row = r, Underway(t)',
         UNCHANGED <<app, release, build>>
  PROVE  CalmInv'
<1>1. /\ \A u \in Tasks : ~Active(u)
      /\ build[t].phase # "running"
  BY CalmAlone
<1>2. task'[t] = k /\ \A u \in Tasks \ {t} : task'[u] = task[u]
  BY DEF TypeOK
<1>3. Live(r)' = Live(r)
  BY DEF Live
<1>4. Served(r)'
  <2>1. Served(r)
    BY DEF CalmInv
  <2>2. \A u \in Tasks : ~At(u, "proxy")
    BY <1>1 DEF At, Active
  <2>3. Runs(r, app[r].bundle)' = Runs(r, app[r].bundle)
    BY DEF Runs
  <2> QED
    BY <2>1, <2>2, <2>3 DEF Served
<1>5. release \in [AppIds -> Release \cup {None}]
  BY DEF TypeOK
<1> QED
  BY <1>1, <1>2, <1>3, <1>4, <1>5, CalmFrame

LEMMA CalmStart ==
  ASSUME Calm, TypeOK, CalmInv, NEW t \in Tasks, Start(t)
  PROVE  CalmInv'
<1> USE DEF runnerVars, history
<1>1. ASSUME NEW r \in Rows, NEW b \in Bundles, NEW db \in Databases,
             NEW op \in {"deploy", "draft"}, NEW needed \in SUBSET EnvVars,
             StartUpload(t, op, r, b, db, needed)
      PROVE  CalmInv'
  <2> DEFINE k == [NewTask EXCEPT !.op = op, !.pc = "claimed", !.row = r,
                     !.bundle = b, !.database = db, !.given = needed]
  <2>1. k.pc = "claimed" /\ k.row = r
    BY DEF NewTask
  <2>2. task' = [task EXCEPT ![t] = k] /\ MayStart(t) /\ ~ClaimedByOther(r)
        /\ UNCHANGED <<app, release, build>>
    BY <1>1 DEF StartUpload
  <2> HIDE DEF k
  <2>3. task'[t] = k
    BY <2>2 DEF TypeOK
  <2>4. ~ClaimedByOther(r)'
    BY <2>2 DEF ClaimedByOther, Live
  <2>5. Underway(t)'
    BY <2>1, <2>3, <2>4 DEF Underway, At, Claiming, Deploying, Built
  <2> QED
    BY <2>1, <2>2, <2>5, CalmOpen
<1>2. ASSUME NEW r \in Rows, NEW given \in SUBSET EnvVars,
             StartRedeploy(t, r, given)
      PROVE  CalmInv'
  <2> DEFINE k == [NewTask EXCEPT !.op = "redeploy", !.pc = "reclaim",
                     !.row = r, !.bundle = app[r].bundle,
                     !.first = FirstDeploy(app[r]),
                     !.names = app[r].provided \cup given, !.given = given,
                     !.database = app[r].database]
  <2>1. /\ k.pc = "reclaim" /\ k.row = r
        /\ k.names = app[r].provided \cup given /\ k.database = app[r].database
    BY DEF NewTask, FirstDeploy
  <2>2. task' = [task EXCEPT ![t] = k] /\ MayStart(t) /\ Live(r)
        /\ UNCHANGED <<app, release, build>>
    BY <1>2 DEF StartRedeploy, Live
  <2> HIDE DEF k
  <2>3. task'[t] = k
    BY <2>2 DEF TypeOK
  <2>4. Live(r)'
    BY <2>2 DEF Live
  <2>5. Underway(t)'
    BY <2>1, <2>2, <2>3, <2>4 DEF Underway, At, Claiming, Deploying, Built
  <2> QED
    BY <2>1, <2>2, <2>5, CalmOpen
<1>3. ASSUME NEW r \in Rows, StartEdit(t, r)
      PROVE  CalmInv'
  <2> DEFINE k == [NewTask EXCEPT !.op = "edit", !.pc = "edit", !.row = r]
  <2>1. k.pc = "edit" /\ k.row = r
    BY DEF NewTask
  <2>2. task' = [task EXCEPT ![t] = k] /\ MayStart(t) /\ Live(r)
        /\ UNCHANGED <<app, release, build>>
    BY <1>3 DEF StartEdit, Live
  <2> HIDE DEF k
  <2>3. task'[t] = k
    BY <2>2 DEF TypeOK
  <2>4. Live(r)'
    BY <2>2 DEF Live
  <2>5. Underway(t)'
    BY <2>1, <2>3, <2>4 DEF Underway, At, Claiming, Deploying, Built
  <2> QED
    BY <2>1, <2>2, <2>5, CalmOpen
<1>4. ASSUME NEW r \in Rows, StartDelete(t, r)
      PROVE  CalmInv'
  <2> DEFINE k == [NewTask EXCEPT !.op = "delete", !.pc = "deleting", !.row = r]
             row == Deletion(app[r], "DELETING")
  <2>1. k.pc = "deleting" /\ k.row = r
    BY DEF NewTask
  <2>2. task' = [task EXCEPT ![t] = k] /\ MayStart(t) /\ Live(r)
        /\ SetRow(r, row) /\ UNCHANGED <<release, build>>
    BY <1>4 DEF StartDelete, Live, Calm
  <2>3. row.status = "DELETING"
    BY RowFields DEF TypeOK
  <2> HIDE DEF k, row
  <2>4. task'[t] = k /\ \A u \in Tasks \ {t} : task'[u] = task[u]
    BY <2>2 DEF TypeOK
  <2>5. app'[r] = row /\ \A o \in Rows \ {r} : app'[o] = app[o]
    BY <2>2, WroteRow
  <2>6. Live(r)' /\ Served(r)'
    BY <2>3, <2>5 DEF Live, Served
  <2>7. Underway(t)'
    BY <2>1, <2>3, <2>4, <2>5, <2>6
       DEF Underway, At, Claiming, Deploying, Built
  <2>8. /\ \A u \in Tasks : ~Active(u)
        /\ build[t].phase # "running"
    BY <2>2, CalmAlone
  <2>9. release \in [AppIds -> Release \cup {None}]
    BY DEF TypeOK
  <2> QED
    BY <2>1, <2>2, <2>4, <2>5, <2>6, <2>7, <2>8, <2>9, CalmFrame
<1> QED
  BY <1>1, <1>2, <1>3, <1>4 DEF Start

-----------------------------------------------------------------------------
(* The requests go on.                                                     *)

LEMMA UnderwayFacts ==
  ASSUME TypeOK, CalmInv, NEW t \in Tasks, Active(t)
  PROVE  /\ Underway(t)
         /\ \E r \in Rows : /\ task[t].row = r
                            /\ app[r] \in AppRow /\ Served(r)
         /\ task[t] \in Task
         /\ ~At(t, "building") => build[t].phase # "running"
         /\ \A u \in Tasks \ {t} : ~Active(u)
         /\ release \in [AppIds -> Release \cup {None}]
  BY ActiveTask, OthersRest DEF CalmInv, OneAtATime, TypeOK

\* A step of request t that writes its row and leaves it live.
LEMMA CalmWrite ==
  ASSUME TypeOK, CalmInv, NEW t \in Tasks, Active(t), ~At(t, "building"),
         NEW r \in Rows, task[t].row = r, NEW row, SetRow(r, row),
         row.status \notin {"ABSENT", "DELETED"},
         Live(r) \/ ~ClaimedByOther(r),
         \A u \in Tasks \ {t} : task'[u] = task[u],
         Active(t)' => task'[t].row = r /\ Underway(t)',
         Served(r)',
         UNCHANGED <<release, build>>
  PROVE  CalmInv'
<1>1. app'[r] = row /\ \A o \in Rows \ {r} : app'[o] = app[o]
  BY WroteRow
<1>2. Live(r)'
  BY <1>1 DEF Live
<1> QED
  BY <1>1, <1>2, UnderwayFacts, CalmFrame

LEMMA CalmUploadSteps ==
  ASSUME Calm, TypeOK, CalmInv, NEW t \in Tasks,
         CheckBusy(t) \/ WriteDeploying(t) \/ StoreBundle(t) \/ LoseBundle(t)
           \/ WriteDraft(t)
  PROVE  CalmInv'
<1> USE DEF runnerVars, history
<1>0. Active(t) /\ task[t].pc \in {"claimed", "clear", "upload", "draftRow"}
  BY DEF CheckBusy, WriteDeploying, StoreBundle, LoseBundle, WriteDraft, Uploading,
         At, Active
<1>1. PICK r \in Rows : task[t].row = r /\ app[r] \in AppRow /\ Served(r)
  BY <1>0, UnderwayFacts
<1>2. /\ Underway(t) /\ task[t] \in Task /\ build[t].phase # "running"
      /\ ~At(t, "building") /\ ~At(t, "proxy")
  BY <1>0, UnderwayFacts DEF At
<1>3. CASE CheckBusy(t)
  <2>1. UNCHANGED <<app, release, build>>
    BY <1>3 DEF CheckBusy
  <2>2. CASE Finish(t)
    BY <1>0, <1>2, <2>1, <2>2, CalmEnd
  <2>3. CASE Goto(t, "clear")
    <3>0. /\ \A u \in Tasks \ {t} : task'[u] = task[u]
          /\ task'[t].pc = "clear" /\ task'[t].row = r
          /\ task'[t].names = task[t].names
          /\ task'[t].database = task[t].database
      BY <1>1, <2>3, GotoKeeps
    <3>1. ~ClaimedByOther(r)'
      BY <1>1, <1>2, <1>3, <2>1 DEF Underway, Claiming, CheckBusy, At,
                                    ClaimedByOther, Live
    <3>2. Underway(t)'
      BY <3>0, <3>1 DEF Underway, At, Claiming, Deploying, Built
    <3> QED
      BY <1>0, <1>2, <2>1, <3>0, <3>2, CalmMove
  <2> QED
    BY <1>3, <2>2, <2>3 DEF CheckBusy
<1>4. CASE WriteDeploying(t)
  <2> DEFINE row == Uploaded(app[r], task[t].bundle, task[t].database)
             k == [task[t] EXCEPT !.pc = "upload", !.first = FirstDeploy(app[r]),
                                  !.names = app[r].provided]
  <2>1. /\ row.status = "DEPLOYING" /\ row.database = task[t].database
        /\ row.provided = app[r].provided
    BY <1>1, RowFields
  <2>2. /\ k.pc = "upload" /\ k.row = r
        /\ k.names = app[r].provided /\ k.database = task[t].database
    BY <1>1, <1>2 DEF Task, FirstDeploy
  <2>3. SetRow(r, row) /\ task' = [task EXCEPT ![t] = k] /\ At(t, "clear")
        /\ UNCHANGED <<release, build>>
    BY <1>1, <1>4 DEF WriteDeploying
  <2> HIDE DEF row, k
  <2>4. task'[t] = k /\ \A u \in Tasks \ {t} : task'[u] = task[u]
    BY <2>3 DEF TypeOK
  <2>5. app'[r] = row
    BY <2>3, WroteRow
  <2>6. Live(r)' /\ Served(r)'
    BY <2>1, <2>5 DEF Live, Served
  <2>7. ~ClaimedByOther(r)
    BY <1>1, <1>2, <2>3 DEF Underway, At, Claiming
  <2>8. Underway(t)'
    BY <2>1, <2>2, <2>4, <2>5, <2>6 DEF Underway, At, Claiming, Deploying, Built
  <2> QED
    BY <1>0, <1>1, <1>2, <2>1, <2>2, <2>3, <2>4, <2>6, <2>7, <2>8, CalmWrite
<1>5. CASE StoreBundle(t)
  <2>1. UNCHANGED <<app, release, build>>
    BY <1>5 DEF StoreBundle
  <2>2. Live(r)' = Live(r) /\ ClaimedByOther(r)' = ClaimedByOther(r)
    BY <2>1 DEF Live, ClaimedByOther
  <2>3. CASE At(t, "upload") /\ Goto(t, "proxy")
    <3>0. /\ \A u \in Tasks \ {t} : task'[u] = task[u]
          /\ task'[t].pc = "proxy" /\ task'[t].row = r
          /\ task'[t].names = task[t].names
          /\ task'[t].database = task[t].database
      BY <1>1, <2>3, GotoKeeps
    <3>1. Underway(t)'
      BY <1>1, <1>2, <2>1, <2>2, <2>3, <3>0
         DEF Underway, At, Claiming, Deploying, Built
    <3> QED
      BY <1>0, <1>2, <2>1, <3>0, <3>1, CalmMove
  <2>4. CASE At(t, "clear") /\ Goto(t, "draftRow")
    <3>0. /\ \A u \in Tasks \ {t} : task'[u] = task[u]
          /\ task'[t].pc = "draftRow" /\ task'[t].row = r
          /\ task'[t].names = task[t].names
          /\ task'[t].database = task[t].database
      BY <1>1, <2>4, GotoKeeps
    <3>1. Underway(t)'
      BY <1>1, <1>2, <2>1, <2>2, <2>4, <3>0
         DEF Underway, At, Claiming, Deploying, Built
    <3> QED
      BY <1>0, <1>2, <2>1, <3>0, <3>1, CalmMove
  <2> QED
    BY <1>5, <2>3, <2>4 DEF StoreBundle, Uploading, At
<1>6. CASE LoseBundle(t)
  <2>1. UNCHANGED <<app, release, build>>
    BY <1>6 DEF LoseBundle
  <2>2. CASE Finish(t)
    BY <1>0, <1>2, <2>1, <2>2, CalmEnd
  <2>3. CASE At(t, "upload") /\ GiveUp(t, "build")
    <3>1. /\ \A u \in Tasks \ {t} : task'[u] = task[u]
          /\ task'[t].pc = "fail" /\ task'[t].row = r
      BY <1>1, <2>3, GiveUpTask DEF TypeOK, Streams
    <3>2. Live(r)' = Live(r)
      BY <2>1 DEF Live
    <3>3. Underway(t)'
      BY <1>1, <1>2, <2>1, <2>3, <3>1, <3>2
         DEF Underway, At, Claiming, Deploying, Built
    <3> QED
      BY <1>0, <1>2, <2>1, <3>1, <3>3, CalmMove
  <2> QED
    BY <1>6, <2>2, <2>3 DEF LoseBundle
<1>7. CASE WriteDraft(t)
  <2> DEFINE row == Drafted(app[r], task[t].bundle, task[t].database, task[t].given)
  <2>1. row.status = "DRAFT"
    BY <1>1, RowFields
  <2>2. SetRow(r, row) /\ Finish(t) /\ At(t, "draftRow")
        /\ UNCHANGED <<release, build>>
    BY <1>1, <1>7 DEF WriteDraft
  <2> HIDE DEF row
  <2>3. Served(r)'
    BY <2>1, <2>2, WroteRow DEF Served
  <2>4. ~ClaimedByOther(r)
    BY <1>1, <1>2, <2>2 DEF Underway, At, Claiming
  <2>5. ~Active(t)' /\ \A u \in Tasks \ {t} : task'[u] = task[u]
    BY <2>2, FinishTask DEF TypeOK, Active
  <2> QED
    BY <1>0, <1>1, <1>2, <2>1, <2>2, <2>3, <2>4, <2>5, CalmWrite
<1> QED
  BY <1>3, <1>4, <1>5, <1>6, <1>7

\* A deploy under way is lost.
LEMMA CalmGiveUp ==
  ASSUME TypeOK, CalmInv, NEW t \in Tasks, Active(t),
         task[t].pc \in {"upload", "building"} \cup Built,
         build[t].phase # "running", NEW stream \in Streams, GiveUp(t, stream),
         UNCHANGED <<app, release, build>>
  PROVE  CalmInv'
<1>1. PICK r \in Rows : task[t].row = r
  BY UnderwayFacts
<1>2. /\ \A u \in Tasks \ {t} : task'[u] = task[u]
      /\ task'[t].pc = "fail" /\ task'[t].row = r
  BY <1>1, GiveUpTask DEF TypeOK
<1>3. Live(r) /\ app[r].status \in {"DEPLOYING", "ERROR"} /\ ~At(t, "proxy")
  BY <1>1, UnderwayFacts DEF Underway, Claiming, Built, At
<1>4. Live(r)'
  BY <1>3 DEF Live
<1>5. Underway(t)'
  BY <1>1, <1>2, <1>3, <1>4 DEF Underway, At, Claiming, Deploying, Built
<1> QED
  BY <1>2, <1>3, <1>5, CalmMove

LEMMA CalmSecretSteps ==
  ASSUME Calm, TypeOK, CalmInv, NEW t \in Tasks,
         CheckClaim(t) \/ StoreSecrets(t) \/ LoseSecrets(t) \/ RecordNames(t)
  PROVE  CalmInv'
<1> USE DEF runnerVars, history
<1>0. Active(t) /\ task[t].pc \in {"reclaim", "secrets", "names"}
  BY DEF CheckClaim, StoreSecrets, LoseSecrets, RecordNames, At, Active
<1>1. PICK r \in Rows : task[t].row = r /\ app[r] \in AppRow /\ Served(r)
  BY <1>0, UnderwayFacts
<1>2. /\ Underway(t) /\ task[t] \in Task /\ build[t].phase # "running"
      /\ ~At(t, "building") /\ ~At(t, "proxy") /\ Live(r)
  BY <1>0, <1>1, UnderwayFacts DEF At, Underway, Claiming
<1>g. ASSUME NEW step \in {"secrets", "names", "proxy"}, Goto(t, step),
             UNCHANGED <<app, release, build>>
      PROVE  CalmInv'
  <2>1. /\ \A u \in Tasks \ {t} : task'[u] = task[u]
        /\ task'[t].pc = step /\ task'[t].row = r
        /\ task'[t].names = task[t].names
        /\ task'[t].database = task[t].database
    BY <1>1, <1>g, GotoKeeps
  <2>2. Live(r)'
    BY <1>2, <1>g DEF Live
  <2>3. Underway(t)'
    BY <1>0, <1>1, <1>2, <1>g, <2>1, <2>2 DEF Underway, At, Claiming, Deploying, Built
  <2> QED
    BY <1>0, <1>2, <1>g, <2>1, <2>3, CalmMove
<1>3. CASE CheckClaim(t)
  <2>1. CASE Finish(t)
    BY <1>0, <1>2, <1>3, <2>1, CalmEnd DEF CheckClaim
  <2>2. CASE Goto(t, "proxy") \/ Goto(t, "secrets")
    BY <1>3, <1>g, <2>2 DEF CheckClaim
  <2> QED
    BY <1>3, <2>1, <2>2 DEF CheckClaim
<1>4. CASE StoreSecrets(t)
  BY <1>4, <1>g DEF StoreSecrets
<1>5. CASE LoseSecrets(t)
  BY <1>0, <1>2, <1>5, CalmEnd DEF LoseSecrets
<1>6. CASE RecordNames(t)
  <2> DEFINE row == Named(app[r], task[t].names)
  <2>1. /\ row.status = app[r].status /\ row.bundle = app[r].bundle
        /\ row.provided = task[t].names
        /\ row.database = app[r].database
    BY <1>1, RowFields
  <2>2. SetRow(r, row) /\ Goto(t, "proxy") /\ At(t, "names")
        /\ UNCHANGED <<release, build>>
    BY <1>1, <1>6 DEF RecordNames
  <2> HIDE DEF row
  <2>3. app'[r] = row
    BY <2>2, WroteRow
  <2>4. /\ \A u \in Tasks \ {t} : task'[u] = task[u]
        /\ task'[t].pc = "proxy" /\ task'[t].row = r
        /\ task'[t].names = task[t].names
        /\ task'[t].database = task[t].database
    BY <1>1, <2>2, GotoKeeps
  <2>5. Live(r)'
    BY <1>2, <2>1, <2>3 DEF Live
  <2>6. Underway(t)'
    BY <1>1, <1>2, <2>1, <2>2, <2>3, <2>4, <2>5
       DEF Underway, At, Claiming, Deploying, Built
  <2>7. Served(r)'
    <3>1. At(t, "proxy")' /\ task'[t].row = r
      BY <2>4 DEF At
    <3>2. (Runs(r, app[r].bundle))' = Runs(r, app[r].bundle)
      BY <2>1, <2>2, <2>3 DEF Runs
    <3> QED
      BY <1>1, <2>1, <2>2, <2>3, <3>1, <3>2 DEF Served
  <2>8. row.status \notin {"ABSENT", "DELETED"}
    BY <1>2, <2>1 DEF Live
  <2> QED
    BY <1>0, <1>1, <1>2, <2>1, <2>2, <2>4, <2>6, <2>7, <2>8, CalmWrite
<1> QED
  BY <1>3, <1>4, <1>5, <1>6

LEMMA CalmBuildSteps ==
  ASSUME Calm, TypeOK, CalmInv, NEW t \in Tasks,
         StartProxy(t) \/ BuildReply(t) \/ BuildTimeout(t) \/ AppAnswers(t)
           \/ AppSilent(t)
  PROVE  CalmInv'
<1> USE DEF runnerVars, history
<1>0. Active(t)
  BY DEF StartProxy, BuildReply, BuildTimeout, AppAnswers, AppSilent, At, Active
<1>1. PICK r \in Rows : task[t].row = r /\ app[r] \in AppRow /\ Served(r)
  BY <1>0, UnderwayFacts
<1>2. Underway(t) /\ task[t] \in Task
  BY <1>0, UnderwayFacts
<1>3. CASE StartProxy(t)
  <2> DEFINE row == Proxied(app[r], task[t].bundle)
             job == [phase |-> "running", row |-> r, bundle |-> task[t].bundle]
  <2>1. /\ row.status = "DEPLOYING" /\ row.bundle = task[t].bundle
        /\ row.provided = app[r].provided
        /\ row.database = app[r].database
    BY <1>1, RowFields
  <2>2. SetRow(r, row) /\ build' = [build EXCEPT ![t] = job] /\ Goto(t, "building")
        /\ At(t, "proxy") /\ UNCHANGED <<release>>
    BY <1>1, <1>3 DEF StartProxy
  <2>3. job.phase = "running" /\ job.row = r /\ job.bundle = task[t].bundle
    OBVIOUS
  <2> HIDE DEF row, job
  <2>4. app'[r] = row /\ \A o \in Rows \ {r} : app'[o] = app[o]
    BY <2>2, WroteRow
  <2>5. build'[t] = job /\ \A u \in Tasks \ {t} : build'[u] = build[u]
    BY <2>2 DEF TypeOK
  <2>6. /\ \A u \in Tasks \ {t} : task'[u] = task[u]
        /\ task'[t].pc = "building" /\ task'[t].row = r
        /\ task'[t].bundle = task[t].bundle
        /\ task'[t].names = task[t].names
        /\ task'[t].database = task[t].database
    BY <1>1, <2>2, GotoKeeps
  <2>7. Live(r)' /\ Live(r) /\ Served(r)'
    BY <1>1, <1>2, <2>1, <2>2, <2>4 DEF Live, Served, Underway, At, Claiming
  <2>8. Underway(t)'
    BY <1>1, <1>2, <2>1, <2>2, <2>3, <2>4, <2>5, <2>6, <2>7
       DEF Underway, At, Claiming, Deploying, Built
  <2>9. At(t, "building")'
    BY <2>6 DEF At
  <2> QED
    BY <1>0, <1>1, <2>2, <2>4, <2>5, <2>6, <2>7, <2>8, <2>9,
       UnderwayFacts, CalmFrame
<1>4. CASE BuildReply(t)
  <2>1. /\ At(t, "building") /\ build[t].phase # "running" /\ ~At(t, "proxy")
        /\ UNCHANGED <<app, release, build>>
    BY <1>4 DEF BuildReply, At
  <2>2. CASE BuildSucceeded(t) /\ Goto(t, AfterBuild(t))
    <3>1. /\ \A u \in Tasks \ {t} : task'[u] = task[u]
          /\ task'[t].pc = AfterBuild(t) /\ task'[t].row = r
          /\ task'[t].bundle = task[t].bundle
          /\ task'[t].names = task[t].names
          /\ task'[t].database = task[t].database
      BY <1>1, <2>2, GotoKeeps
    <3>2. release[AppId(r)] = ReleaseOf(r, task[t].bundle, {}, FALSE)
          /\ release[AppId(r)] \in Release
      <4>1. release[AppId(r)] = ReleaseOf(r, task[t].bundle, {}, FALSE)
        BY <1>1, <1>2, <2>1, <2>2 DEF Underway, BuildSucceeded
      <4>2. task[t].bundle \in Bundles
        BY <1>0, <2>1, ActiveTask DEF At
      <4> QED
        BY <4>1, <4>2 DEF ReleaseOf, Release
    <3>3. Runs(r, task[t].bundle)
      <4>1. release[AppId(r)] # None
        BY <3>2, UnderwayFacts, <1>0, NoneIsNoRelease
      <4> QED
        BY <3>2, <4>1 DEF Runs, ReleaseOf
    <3>4. Runs(r, task[t].bundle)' = Runs(r, task'[t].bundle)
      BY <2>1, <3>1 DEF Runs
    <3>5. Live(r) /\ Live(r)'
      BY <1>1, <1>2, <2>1 DEF Underway, At, Claiming, Live
    <3>6. AfterBuild(t) = "registry" \/
            (AfterBuild(t) = "ready" /\ task[t].names = {} /\ ~task[t].database)
      BY DEF AfterBuild, NeedsConfig
    <3>7. Underway(t)'
      BY <1>1, <1>2, <2>1, <3>1, <3>3, <3>4, <3>5, <3>6
         DEF Underway, At, Claiming, Deploying, Built
    <3> QED
      BY <1>0, <2>1, <3>1, <3>7, CalmMove
  <2>3. CASE GiveUp(t, "build")
    BY <1>0, <2>1, <2>3, CalmGiveUp DEF At, Streams
  <2> QED
    BY <1>4, <2>2, <2>3 DEF BuildReply
<1>5. ~BuildTimeout(t)
  BY DEF Calm, BuildTimeout
<1>6. ~AppAnswers(t) /\ ~AppSilent(t)
  BY <1>2 DEF AppAnswers, AppSilent, Underway, At
<1> QED
  BY <1>3, <1>4, <1>5, <1>6

LEMMA CalmInjectSteps ==
  ASSUME Calm, TypeOK, CalmInv, NEW t \in Tasks,
         ReadRegistry(t) \/ Inject(t) \/ InjectLocked(t) \/ InjectFails(t)
           \/ InjectTimeout(t)
  PROVE  CalmInv'
<1> USE DEF runnerVars, history
<1>i. ~InjectTimeout(t)
  BY DEF Calm, InjectTimeout
<1>0. Active(t) /\ task[t].pc \in {"registry", "inject"}
  BY <1>i DEF ReadRegistry, Inject, InjectLocked, InjectFails, At, Active
<1>1. PICK r \in Rows : task[t].row = r /\ app[r] \in AppRow /\ Served(r)
  BY <1>0, UnderwayFacts
<1>2. /\ Underway(t) /\ task[t] \in Task /\ build[t].phase # "running"
      /\ ~At(t, "building") /\ ~At(t, "proxy") /\ Live(r)
      /\ AppId(r) \in AppIds
  BY <1>0, <1>1, UnderwayFacts, RowAppId DEF At, Underway, Claiming
<1>3. Runs(r, task[t].bundle) /\ app[r].bundle = task[t].bundle
      /\ app[r].status \in {"DEPLOYING", "ERROR"}
  BY <1>0, <1>1, <1>2 DEF Underway, Built
<1>4. CASE ReadRegistry(t) \/ InjectLocked(t)
  <2>1. \E k : /\ task' = [task EXCEPT ![t] = k]
               /\ k.pc = "inject" /\ k.row = r /\ k.bundle = task[t].bundle
               /\ k.names = task[t].names
               /\ k.database = task[t].database
    <3>1. CASE ReadRegistry(t)
      <4> DEFINE k == [task[t] EXCEPT !.pc = "inject", !.bundle = release[AppId(r)].bundle]
      <4>1. /\ k.pc = "inject" /\ k.row = r /\ k.bundle = task[t].bundle
            /\ k.names = task[t].names
            /\ k.database = task[t].database
        BY <1>1, <1>2, <1>3 DEF Task, Runs
      <4>2. task' = [task EXCEPT ![t] = k]
        BY <1>1, <3>1 DEF ReadRegistry
      <4> HIDE DEF k
      <4> QED
        BY <4>1, <4>2
    <3>2. CASE InjectLocked(t)
      <4> DEFINE k == [task[t] EXCEPT !.tries = @ + 1]
      <4>1. /\ k.pc = "inject" /\ k.row = r /\ k.bundle = task[t].bundle
            /\ k.names = task[t].names
            /\ k.database = task[t].database
        BY <1>1, <1>2, <3>2 DEF Task, InjectLocked, At
      <4>2. task' = [task EXCEPT ![t] = k]
        BY <3>2 DEF InjectLocked
      <4> HIDE DEF k
      <4> QED
        BY <4>1, <4>2
    <3> QED
      BY <1>4, <3>1, <3>2
  <2>2. UNCHANGED <<app, release, build>>
    BY <1>4 DEF ReadRegistry, InjectLocked
  <2>3. /\ \A u \in Tasks \ {t} : task'[u] = task[u]
        /\ task'[t].pc = "inject" /\ task'[t].row = r
        /\ task'[t].bundle = task[t].bundle
        /\ task'[t].names = task[t].names
        /\ task'[t].database = task[t].database
    BY <2>1 DEF TypeOK
  <2>4. Live(r)' /\ Runs(r, task[t].bundle)' = Runs(r, task'[t].bundle)
    BY <1>2, <2>2, <2>3 DEF Live, Runs
  <2>5. Underway(t)'
    BY <1>0, <1>1, <1>2, <1>3, <2>2, <2>3, <2>4
       DEF Underway, At, Claiming, Deploying, Built, Runs
  <2> QED
    BY <1>0, <1>2, <2>2, <2>3, <2>5, CalmMove
<1>5. CASE Inject(t)
  <2> DEFINE new == Injected(t)
  <2>1. At(t, "inject") /\ Goto(t, "ready") /\ UNCHANGED <<app, build>>
        /\ release' = [release EXCEPT ![AppId(r)] = new]
    BY <1>1, <1>5 DEF Inject
  <2>2. /\ new.owner = r /\ new.bundle = task[t].bundle
        /\ new.config = task[t].names /\ new.database = task[t].database
    BY <1>1 DEF Injected, ReleaseOf
  <2>3. new # None
    BY <2>1, InjectedType, NoneIsNoRelease
  <2> HIDE DEF new
  <2>4. release'[AppId(r)] = new
        /\ \A a \in AppIds \ {AppId(r)} : release'[a] = release[a]
    BY <1>2, <2>1, UnderwayFacts, <1>0
  <2>5. /\ \A u \in Tasks \ {t} : task'[u] = task[u]
        /\ task'[t].pc = "ready" /\ task'[t].row = r
        /\ task'[t].bundle = task[t].bundle
        /\ task'[t].names = task[t].names
        /\ task'[t].database = task[t].database
    BY <1>1, <2>1, GotoKeeps
  <2>6. Live(r)' /\ Served(r)'
    BY <1>1, <1>2, <1>3, <2>1 DEF Live, Served
  <2>7. (Runs(r, task[t].bundle))'
    BY <2>2, <2>3, <2>4, <2>5 DEF Runs
  <2>8. Underway(t)'
    BY <1>1, <1>2, <1>3, <2>1, <2>2, <2>4, <2>5, <2>6, <2>7
       DEF Underway, At, Claiming, Deploying, Built
  <2> QED
    BY <1>0, <1>1, <1>2, <2>1, <2>2, <2>4, <2>5, <2>6, <2>8,
       UnderwayFacts, CalmFrame
<1>6. CASE InjectFails(t)
  BY <1>0, <1>2, <1>6, CalmGiveUp DEF InjectFails, Built, Streams
<1> QED
  BY <1>i, <1>4, <1>5, <1>6

LEMMA CalmOutcomeSteps ==
  ASSUME Calm, TypeOK, CalmInv, NEW t \in Tasks,
         MarkReady(t) \/ Announce(t) \/ FailDeploy(t)
  PROVE  CalmInv'
<1> USE DEF runnerVars, history
<1>0. Active(t) /\ task[t].pc \in {"ready", "announce", "fail"}
  BY DEF MarkReady, Announce, FailDeploy, At, Active
<1>1. PICK r \in Rows : task[t].row = r /\ app[r] \in AppRow /\ Served(r)
  BY <1>0, UnderwayFacts
<1>2. /\ Underway(t) /\ task[t] \in Task /\ build[t].phase # "running"
      /\ ~At(t, "building") /\ ~At(t, "proxy") /\ Live(r)
  BY <1>0, <1>1, UnderwayFacts DEF At, Underway, Claiming
<1>3. CASE MarkReady(t)
  <2> DEFINE row == Shipped(app[r], task[t].database)
  <2>1. /\ row.status = "READY" /\ row.bundle = app[r].bundle
        /\ row.provided = app[r].provided
        /\ row.database = (app[r].database \/ task[t].database)
    BY <1>1, <1>2, RowFields DEF Task
  <2>2. SetRow(r, row) /\ At(t, "ready") /\ UNCHANGED <<release, build>>
        /\ IF task[t].first THEN Goto(t, "announce") ELSE Finish(t)
    BY <1>1, <1>3 DEF MarkReady
  <2> HIDE DEF row
  <2>3. app'[r] = row
    BY <2>2, WroteRow
  <2>4. Live(r)'
    BY <2>1, <2>3 DEF Live
  <2>5. Served(r)'
    <3>1. /\ Runs(r, task[t].bundle) /\ app[r].bundle = task[t].bundle
          /\ app[r].provided \subseteq release[AppId(r)].config
          /\ row.database => release[AppId(r)].database
      BY <1>1, <1>2, <2>1, <2>2 DEF Underway, Built, Deploying, At
    <3>2. (Runs(r, app[r].bundle))'
      BY <2>1, <2>2, <2>3, <3>1 DEF Runs
    <3> QED
      BY <2>1, <2>2, <2>3, <3>1, <3>2 DEF Served
  <2>6. CASE Goto(t, "announce")
    <3>1. /\ \A u \in Tasks \ {t} : task'[u] = task[u]
          /\ task'[t].pc = "announce" /\ task'[t].row = r
      BY <1>1, <2>6, GotoKeeps
    <3>2. Underway(t)'
      BY <2>1, <2>2, <2>3, <2>4, <3>1
         DEF Underway, At, Claiming, Deploying, Built
    <3> QED
      BY <1>0, <1>1, <1>2, <2>1, <2>2, <2>5, <3>1, <3>2, CalmWrite
  <2>7. CASE Finish(t)
    <3>1. ~Active(t)' /\ \A u \in Tasks \ {t} : task'[u] = task[u]
      BY <2>7, FinishTask DEF TypeOK, Active
    <3> QED
      BY <1>0, <1>1, <1>2, <2>1, <2>2, <2>5, <3>1, CalmWrite
  <2> QED
    BY <2>2, <2>6, <2>7
<1>4. CASE Announce(t)
  BY <1>0, <1>2, <1>4, CalmEnd DEF Announce
<1>5. CASE FailDeploy(t)
  <2> DEFINE row == Failed(app[r], task[t].failure)
  <2>1. row.status = "ERROR"
    BY <1>1, RowFields
  <2>2. SetRow(r, row) /\ Finish(t) /\ UNCHANGED <<release, build>>
    BY <1>1, <1>5 DEF FailDeploy
  <2> HIDE DEF row
  <2>3. Served(r)'
    BY <2>1, <2>2, WroteRow DEF Served
  <2>4. ~Active(t)' /\ \A u \in Tasks \ {t} : task'[u] = task[u]
    BY <2>2, FinishTask DEF TypeOK, Active
  <2> QED
    BY <1>0, <1>1, <1>2, <2>1, <2>2, <2>3, <2>4, CalmWrite
<1> QED
  BY <1>3, <1>4, <1>5

LEMMA CalmDeleteSteps ==
  ASSUME Calm, TypeOK, CalmInv, NEW t \in Tasks,
         TearDown(t) \/ RefuseTearDown(t) \/ RecordDelete(t) \/ WriteEdit(t)
  PROVE  CalmInv'
<1> USE DEF runnerVars, history
<1>0. Active(t) /\ task[t].pc \in {"deleting", "deleted", "undeleted", "edit"}
  BY DEF TearDown, RefuseTearDown, RecordDelete, WriteEdit, At, Active
<1>1. PICK r \in Rows : task[t].row = r /\ app[r] \in AppRow /\ Served(r)
  BY <1>0, UnderwayFacts
<1>2. /\ Underway(t) /\ task[t] \in Task /\ build[t].phase # "running"
      /\ ~At(t, "building") /\ ~At(t, "proxy") /\ Live(r)
      /\ AppId(r) \in AppIds
  BY <1>0, <1>1, UnderwayFacts, RowAppId DEF At, Underway, Claiming
<1>3. CASE TearDown(t)
  <2>1. PICK step \in {"deleted", "undeleted"} : Goto(t, step)
    BY <1>3 DEF TearDown, Goto
  <2>2. /\ At(t, "deleting") /\ UNCHANGED <<app, build>>
        /\ release' = [release EXCEPT ![AppId(r)] = None]
    BY <1>1, <1>3 DEF TearDown
  <2>3. release'[AppId(r)] = None
        /\ \A a \in AppIds \ {AppId(r)} : release'[a] = release[a]
    BY <1>2, <2>2 DEF TypeOK
  <2>4. /\ \A u \in Tasks \ {t} : task'[u] = task[u]
        /\ task'[t].pc = step /\ task'[t].row = r
    BY <1>1, <2>1, GotoKeeps
  <2>5. app[r].status = "DELETING"
    BY <1>1, <1>2, <2>2 DEF Underway, At
  <2>6. Live(r)' /\ Served(r)'
    BY <1>1, <2>2, <2>5 DEF Live, Served
  <2>7. Underway(t)'
    BY <2>2, <2>3, <2>4, <2>5, <2>6 DEF Underway, At, Claiming, Deploying, Built
  <2> QED
    BY <1>0, <1>1, <1>2, <2>2, <2>3, <2>4, <2>6, <2>7, UnderwayFacts, CalmFrame
<1>4. CASE RefuseTearDown(t)
  <2>1. Goto(t, "undeleted") /\ At(t, "deleting")
        /\ UNCHANGED <<app, release, build>>
    BY <1>4 DEF RefuseTearDown
  <2>2. /\ \A u \in Tasks \ {t} : task'[u] = task[u]
        /\ task'[t].pc = "undeleted" /\ task'[t].row = r
    BY <1>1, <2>1, GotoKeeps
  <2>3. Live(r)'
    BY <1>2, <2>1 DEF Live
  <2>4. Underway(t)'
    BY <1>1, <1>2, <2>1, <2>2, <2>3 DEF Underway, At, Claiming, Deploying, Built
  <2> QED
    BY <1>0, <1>2, <2>1, <2>2, <2>4, CalmMove
<1>5. CASE RecordDelete(t)
  <2> DEFINE row == Deletion(app[r], DeleteVerdict(t))
  <2>1. row.status = DeleteVerdict(t)
    BY <1>1, RowFields
  <2>2. SetRow(r, row) /\ Finish(t) /\ UNCHANGED <<release, build>>
        /\ task[t].pc \in {"deleted", "undeleted"}
    BY <1>1, <1>5 DEF RecordDelete
  <2> HIDE DEF row
  <2>3. app'[r] = row /\ \A o \in Rows \ {r} : app'[o] = app[o]
    BY <2>2, WroteRow
  <2>4. row.status \in {"DELETED", "ERROR"}
    BY <2>1 DEF DeleteVerdict
  <2>5. Served(r)'
    BY <1>1, <2>1, <2>2, <2>3, <2>4 DEF Served
  <2>6. ~Active(t)' /\ \A u \in Tasks \ {t} : task'[u] = task[u]
    BY <2>2, FinishTask DEF TypeOK, Active
  <2>7. Live(r)' \/ release'[AppId(r)] = None
    BY <1>1, <1>2, <2>1, <2>2, <2>3 DEF Live, DeleteVerdict, Underway
  <2> QED
    BY <1>0, <1>1, <1>2, <2>2, <2>3, <2>5, <2>6, <2>7, UnderwayFacts, CalmFrame
<1>6. CASE WriteEdit(t)
  <2> DEFINE row == [app[r] EXCEPT !.aged = FALSE]
  <2>1. /\ row.status = app[r].status /\ row.bundle = app[r].bundle
        /\ row.provided = app[r].provided
        /\ row.database = app[r].database
    BY <1>1, RowFields
  <2>2. SetRow(r, row) /\ Finish(t) /\ UNCHANGED <<release, build>>
    BY <1>1, <1>6 DEF WriteEdit
  <2> HIDE DEF row
  <2>3. app'[r] = row
    BY <2>2, WroteRow
  <2>4. Served(r)'
    <3>1. \A u \in Tasks : ~At(u, "proxy")
      BY <1>0, <1>2, OthersRest DEF At, Active
    <3>2. (Runs(r, app[r].bundle))' = Runs(r, app[r].bundle)
      BY <2>1, <2>2, <2>3 DEF Runs
    <3> QED
      BY <1>1, <2>1, <2>2, <2>3, <3>1, <3>2 DEF Served
  <2>5. ~Active(t)' /\ \A u \in Tasks \ {t} : task'[u] = task[u]
    BY <2>2, FinishTask DEF TypeOK, Active
  <2>6. row.status \notin {"ABSENT", "DELETED"}
    BY <1>2, <2>1 DEF Live
  <2> QED
    BY <1>0, <1>1, <1>2, <2>1, <2>2, <2>4, <2>5, <2>6, CalmWrite
<1> QED
  BY <1>3, <1>4, <1>5, <1>6

-----------------------------------------------------------------------------
(* The environment.                                                        *)

LEMMA CalmRunner ==
  ASSUME Calm, TypeOK, CalmInv, NEW t \in Tasks, Runner(t)
  PROVE  CalmInv'
<1> USE DEF history
<1>0. Active(t) /\ At(t, "building") /\ build[t].phase = "running"
  BY DEF Runner, RunnerBuilds, RunnerFails, CalmInv, OneAtATime, At, Active
<1>1. PICK r \in Rows : task[t].row = r /\ app[r] \in AppRow /\ Served(r)
  BY <1>0, UnderwayFacts
<1>2. /\ Underway(t) /\ Live(r) /\ AppId(r) \in AppIds
      /\ app[r].status \in {"DEPLOYING", "ERROR"}
      /\ build[t].row = r /\ build[t].bundle = task[t].bundle
  BY <1>0, <1>1, UnderwayFacts, RowAppId DEF At, Underway, Claiming
<1>3. UNCHANGED <<app, task>>
  BY DEF Runner, RunnerBuilds, RunnerFails
<1>4. PICK phase \in {"ok", "failed"} : build' = [build EXCEPT ![t].phase = phase]
  BY DEF Runner, RunnerBuilds, RunnerFails
<1>5. /\ \A u \in Tasks \ {t} : build'[u] = build[u]
      /\ build'[t].phase = phase /\ build'[t].row = r
      /\ build'[t].bundle = task[t].bundle
  BY <1>2, <1>4 DEF TypeOK, Build
<1>6. Live(r)' /\ Served(r)'
  BY <1>1, <1>2, <1>3 DEF Live, Served
<1>7. CASE RunnerFails(t)
  <2>1. phase = "failed" /\ UNCHANGED release
    BY <1>5, <1>7 DEF RunnerFails, TypeOK, Build
  <2>2. Underway(t)'
    BY <1>0, <1>1, <1>2, <1>3, <1>5, <1>6, <2>1
       DEF Underway, At, Claiming, Deploying, Built
  <2> QED
    BY <1>0, <1>1, <1>2, <1>3, <1>5, <1>6, <2>1, <2>2, UnderwayFacts, CalmFrame
<1>8. CASE RunnerBuilds(t)
  <2> DEFINE new == ReleaseOf(r, task[t].bundle, {}, FALSE)
  <2>1. release' = [release EXCEPT ![AppId(r)] = new]
    BY <1>2, <1>8 DEF RunnerBuilds
  <2>2. release'[AppId(r)] = new
        /\ \A a \in AppIds \ {AppId(r)} : release'[a] = release[a]
    BY <1>2, <2>1 DEF TypeOK
  <2>3. new.owner = r
    BY DEF ReleaseOf
  <2>4. Underway(t)'
    BY <1>0, <1>1, <1>2, <1>3, <1>5, <1>6, <2>2
       DEF Underway, At, Claiming, Deploying, Built
  <2> HIDE DEF new
  <2> QED
    BY <1>0, <1>1, <1>2, <1>3, <1>5, <1>6, <2>2, <2>3, <2>4, UnderwayFacts, CalmFrame
<1> QED
  BY <1>7, <1>8 DEF Runner

LEMMA CalmSame ==
  ASSUME CalmInv, UNCHANGED <<app, task, build, release>>
  PROVE  CalmInv'
<1>1. \A r \in Rows :
        /\ Live(r)' = Live(r)
        /\ ClaimedByOther(r)' = ClaimedByOther(r)
  BY DEF Live, ClaimedByOther
<1>2. ASSUME NEW t \in Tasks, Underway(t)
      PROVE  Underway(t)'
  BY <1>2 DEF Underway, At, Runs, Live, ClaimedByOther
<1>3. \A r \in Rows : Served(r) => Served(r)'
  BY DEF Served, At, Runs
<1>4. OneAtATime'
  BY DEF CalmInv, OneAtATime, At, Active
<1>5. OneHolder'
  BY DEF CalmInv, OneHolder, Live
<1>6. \A t \in Tasks : Active(t)' = Active(t)
  BY DEF Active
<1> QED
  BY <1>1, <1>2, <1>3, <1>4, <1>5, <1>6 DEF CalmInv

LEMMA CalmReaders ==
  ASSUME TypeOK, CalmInv,
         (\E d \in Readers : Settle(d)) \/ \E r \in Rows : Age(r)
  PROVE  CalmInv'
<1> USE DEF runnerVars, history
<1>1. ASSUME UNCHANGED <<app, task, build, release>>
      PROVE  CalmInv'
  BY <1>1, CalmSame
<1>2. ASSUME NEW d \in Readers, SettleWrite(d)
      PROVE  CalmInv'
  <2>1. CASE StillDeploying(reader[d])
    <3>1. PICK r \in Rows : r = reader[d]
      BY <1>2 DEF SettleWrite, TypeOK
    <3>2. SetRow(r, Failed(app[r], "none"))
          /\ UNCHANGED <<task, build, release>>
          /\ app[r].status = "DEPLOYING"
      BY <1>2, <2>1, <3>1 DEF SettleWrite, StillDeploying
    <3>3. app[r] \in AppRow
      BY DEF TypeOK
    <3> DEFINE row == Failed(app[r], "none")
    <3>4. /\ row.status = "ERROR" /\ row.bundle = app[r].bundle
          /\ row.provided = app[r].provided
          /\ row.database = app[r].database
      BY <3>3, RowFields
    <3> HIDE DEF row
    <3>5. SetRow(r, row)
      BY <3>2 DEF row
    <3> QED
      BY <3>2, <3>4, <3>5, CalmRow
  <2>2. CASE ~StillDeploying(reader[d])
    BY <1>1, <1>2, <2>2 DEF SettleWrite
  <2> QED
    BY <2>1, <2>2
<1>3. ASSUME NEW r \in Rows, Age(r)
      PROVE  CalmInv'
  <2> DEFINE row == [app[r] EXCEPT !.aged = TRUE]
  <2>1. app[r] \in AppRow
    BY DEF TypeOK
  <2>2. /\ row.status = app[r].status /\ row.bundle = app[r].bundle
        /\ row.provided = app[r].provided
        /\ row.database = app[r].database
    BY <2>1, RowFields
  <2>3. SetRow(r, row) /\ UNCHANGED <<task, build, release>>
    BY <1>3 DEF Age
  <2> HIDE DEF row
  <2> QED
    BY <2>2, <2>3, CalmRow
<1>4. ASSUME NEW d \in Readers, NEW r \in Rows, SettleRead(d, r)
      PROVE  CalmInv'
  BY <1>1, <1>4 DEF SettleRead
<1> QED
  BY <1>2, <1>3, <1>4 DEF Settle

-----------------------------------------------------------------------------
(* What they keep.                                                         *)

LEMMA CalmInit == Init => CalmInv
  BY DEF Init, CalmInv, OneAtATime, OneHolder, Served, Active, At, Live,
         NewTask, NewRow, NoBuild

LEMMA CalmNext ==
  ASSUME Calm, TypeOK, CalmInv, [Next]_vars
  PROVE  CalmInv'
<1>1. ASSUME NEW t \in Tasks, Step(t)
      PROVE  CalmInv'
  BY <1>1, CalmUploadSteps, CalmSecretSteps, CalmBuildSteps, CalmInjectSteps,
     CalmOutcomeSteps, CalmDeleteSteps DEF Step
<1>2. CASE UNCHANGED vars
  BY <1>2, CalmSame DEF vars
<1>3. \A t \in Tasks : ~Crash(t)
  BY DEF Crash, Calm
<1> QED
  BY <1>1, <1>2, <1>3, CalmStart, CalmRunner, CalmReaders DEF Next

LEMMA CalmHolds ==
  ASSUME Calm
  PROVE  Spec => []CalmInv
<1>1. TypeOK /\ CalmInv /\ [Next]_vars => CalmInv'
  BY CalmNext
<1> QED
  BY <1>1, TypeCorrect, CalmInit, PTL DEF Spec

-----------------------------------------------------------------------------
(* The promises that hold while requests do not overlap.                   *)

\* "latest" is true: a row that a deploy or a redeploy marked READY names the
\* bundle the runner runs for it.
THEOREM ReadyServesLatest ==
  ASSUME Calm
  PROVE  Spec => []LatestServes
<1>1. CalmInv => LatestServes
  BY DEF CalmInv, Served, Runs, LatestServes
<1> QED
  BY <1>1, CalmHolds, PTL

\* A READY app runs with every env name recorded for it and with its database,
\* whichever deploy, redeploy or draft recorded them.
THEOREM ReadyRunsConfigured ==
  ASSUME Calm
  PROVE  Spec => []ReadyHasConfig
<1>1. CalmInv => ReadyHasConfig
  BY DEF CalmInv, Served, ReadyHasConfig, Quiet, At, Active
<1> QED
  BY <1>1, CalmHolds, PTL

\* deleteApp records DELETED only for an app the runner has torn down, and no
\* request under way puts it up again.
THEOREM DeletedStaysDown ==
  ASSUME Calm
  PROVE  Spec => []DeletedIsTornDown
<1>1. CalmInv => DeletedIsTornDown
  BY RowAppId DEF CalmInv, OneHolder, Live, DeletedIsTornDown
<1> QED
  BY <1>1, CalmHolds, PTL

-----------------------------------------------------------------------------
(* The rows and the runner implement AiAppsClaims.                         *)

holders == [a \in AppIds |-> Holders(a)]
running == [a \in AppIds |-> Running(a)]

\* The rows other than r stay live or not, as they were.
OthersStand(r) == \A o \in Rows \ {r} : Live(o)' <=> Live(o)

\* A step that matters to no claim.
ClaimsStand == (\A o \in Rows : Live(o)' <=> Live(o)) /\ UNCHANGED release

\* Row r takes an appId nobody holds.
Takes(r) ==
  /\ ~Live(r) /\ ~ClaimedByOther(r)
  /\ Live(r)' /\ OthersStand(r)
  /\ UNCHANGED release

\* Row r leaves an appId the runner no longer serves.
Leaves(r) ==
  /\ Live(r) /\ release[AppId(r)] = None
  /\ ~Live(r)' /\ OthersStand(r)
  /\ UNCHANGED release

\* The runner runs a release of the live row r, or takes its release down.
Serves(r) ==
  /\ Live(r) /\ Live(r)' /\ OthersStand(r)
  /\ \E new \in Release \cup {None} :
       /\ release' = [release EXCEPT ![AppId(r)] = new]
       /\ new # None => new.owner = r

\* What the write of row r does to the claims.
LEMMA ClaimsOfWrite ==
  ASSUME TypeOK, NEW r \in Rows, NEW row, SetRow(r, row)
  PROVE  /\ OthersStand(r)
         /\ Live(r)' <=> (row.status \notin {"ABSENT", "DELETED"})
  BY WroteRow DEF OthersStand, Live

LEMMA ClaimsKeptByWrite ==
  ASSUME TypeOK, NEW r \in Rows, NEW row, SetRow(r, row), Live(r),
         row.status \notin {"ABSENT", "DELETED"}, UNCHANGED release
  PROVE  ClaimsStand
  BY ClaimsOfWrite DEF ClaimsStand, OthersStand

LEMMA ClaimsOfUpload ==
  ASSUME Calm, TypeOK, CalmInv, NEW t \in Tasks,
         WriteDeploying(t) \/ WriteDraft(t)
  PROVE  ClaimsStand \/ \E r \in Rows : Takes(r)
<1>1. Active(t) /\ task[t].pc \in Claiming
  BY DEF WriteDeploying, WriteDraft, At, Active, Claiming
<1>2. PICK r \in Rows : task[t].row = r /\ app[r] \in AppRow
  BY <1>1, UnderwayFacts
<1>3. ~ClaimedByOther(r) /\ UNCHANGED release
  BY <1>1, <1>2, UnderwayFacts DEF Underway, WriteDeploying, WriteDraft, runnerVars
<1>4. PICK row : SetRow(r, row) /\ row.status \in {"DEPLOYING", "DRAFT"}
  BY <1>2, RowFields DEF WriteDeploying, WriteDraft
<1>5. Live(r)' /\ OthersStand(r)
  BY <1>4, ClaimsOfWrite
<1> QED
  BY <1>3, <1>5 DEF ClaimsStand, OthersStand, Takes

LEMMA ClaimsOfRequest ==
  ASSUME Calm, TypeOK, CalmInv, NEW t \in Tasks,
         RecordNames(t) \/ StartProxy(t) \/ MarkReady(t) \/ FailDeploy(t)
           \/ WriteEdit(t)
  PROVE  ClaimsStand
<1>1. Active(t) /\ task[t].pc \notin Claiming
  BY DEF RecordNames, StartProxy, MarkReady, FailDeploy, WriteEdit, At, Active,
         Claiming
<1>2. PICK r \in Rows : task[t].row = r /\ app[r] \in AppRow
  BY <1>1, UnderwayFacts
<1>3. Live(r) /\ task[t].database \in BOOLEAN
  BY <1>1, <1>2, UnderwayFacts DEF Underway, Task
<1>4. UNCHANGED release
  BY DEF RecordNames, StartProxy, MarkReady, FailDeploy, WriteEdit, runnerVars
<1>5. PICK row : SetRow(r, row)
                 /\ row.status \in {app[r].status, "DEPLOYING", "READY", "ERROR"}
  <2>1. CASE RecordNames(t)
    <3>1. SetRow(r, Named(app[r], task[t].names))
      BY <1>2, <2>1 DEF RecordNames
    <3> QED
      BY <1>2, <3>1, RowFields
  <2>2. CASE StartProxy(t)
    <3>1. SetRow(r, Proxied(app[r], task[t].bundle))
      BY <1>2, <2>2 DEF StartProxy
    <3> QED
      BY <1>2, <3>1, RowFields
  <2>3. CASE MarkReady(t)
    <3>1. SetRow(r, Shipped(app[r], task[t].database))
      BY <1>2, <2>3 DEF MarkReady
    <3> QED
      BY <1>2, <1>3, <3>1, RowFields
  <2>4. CASE FailDeploy(t)
    <3>1. SetRow(r, Failed(app[r], task[t].failure))
      BY <1>2, <2>4 DEF FailDeploy
    <3> QED
      BY <1>2, <3>1, RowFields
  <2>5. CASE WriteEdit(t)
    <3>1. SetRow(r, [app[r] EXCEPT !.aged = FALSE])
      BY <1>2, <2>5 DEF WriteEdit
    <3>2. [app[r] EXCEPT !.aged = FALSE].status = app[r].status
      BY <1>2 DEF AppRow
    <3> QED
      BY <3>1, <3>2
  <2> QED
    BY <2>1, <2>2, <2>3, <2>4, <2>5
<1>6. row.status \notin {"ABSENT", "DELETED"}
  BY <1>3, <1>5 DEF Live
<1> QED
  BY <1>3, <1>4, <1>5, <1>6, ClaimsKeptByWrite

LEMMA ClaimsOfDelete ==
  ASSUME Calm, TypeOK, CalmInv, NEW t \in Tasks, RecordDelete(t)
  PROVE  ClaimsStand \/ \E r \in Rows : Leaves(r)
<1>1. Active(t) /\ task[t].pc \in {"deleted", "undeleted"}
  BY DEF RecordDelete, Active
<1>2. PICK r \in Rows : task[t].row = r /\ app[r] \in AppRow
  BY <1>1, UnderwayFacts
<1>3. /\ Underway(t) /\ Live(r) /\ UNCHANGED release
      /\ SetRow(r, Deletion(app[r], DeleteVerdict(t)))
  BY <1>1, <1>2, UnderwayFacts DEF Underway, Claiming, RecordDelete, runnerVars
<1>4. PICK row : SetRow(r, row) /\ row.status = DeleteVerdict(t)
  BY <1>2, <1>3, RowFields
<1>5. CASE At(t, "deleted")
  <2>1. release[AppId(r)] = None
    BY <1>2, <1>3, <1>5 DEF Underway
  <2>2. ~Live(r)' /\ OthersStand(r)
    BY <1>4, <1>5, ClaimsOfWrite DEF DeleteVerdict
  <2> QED
    BY <1>3, <2>1, <2>2 DEF Leaves
<1>6. CASE ~At(t, "deleted")
  BY <1>3, <1>4, <1>6, ClaimsKeptByWrite DEF DeleteVerdict
<1> QED
  BY <1>5, <1>6

LEMMA ClaimsOfRunner ==
  ASSUME Calm, TypeOK, CalmInv, NEW t \in Tasks,
         RunnerBuilds(t) \/ Inject(t) \/ TearDown(t)
  PROVE  \E r \in Rows : Serves(r)
<1>1. Active(t) /\ task[t].pc \in {"building", "inject", "deleting"}
  BY DEF RunnerBuilds, Inject, TearDown, CalmInv, OneAtATime, At, Active
<1>2. PICK r \in Rows : task[t].row = r
  BY <1>1, UnderwayFacts
<1>3. Live(r) /\ UNCHANGED app
  BY <1>1, <1>2, UnderwayFacts
     DEF Underway, Claiming, RunnerBuilds, Inject, TearDown
<1>4. Live(r)' /\ OthersStand(r)
  BY <1>3 DEF Live, OthersStand
<1>5. PICK new : /\ release' = [release EXCEPT ![AppId(r)] = new]
                 /\ new # None => new.owner = r
  <2>1. CASE RunnerBuilds(t)
    <3>1. build[t].row = r
      BY <1>1, <1>2, <2>1, UnderwayFacts
         DEF Underway, At, RunnerBuilds, CalmInv, OneAtATime
    <3> DEFINE new == ReleaseOf(r, build[t].bundle, {}, FALSE)
    <3>2. release' = [release EXCEPT ![AppId(r)] = new]
      BY <2>1, <3>1 DEF RunnerBuilds
    <3>3. new.owner = r
      BY DEF ReleaseOf
    <3> QED
      BY <3>2, <3>3
  <2>2. CASE Inject(t)
    <3>1. release' = [release EXCEPT ![AppId(r)] = Injected(t)]
      BY <1>2, <2>2 DEF Inject
    <3>2. Injected(t).owner = r
      BY <1>2 DEF Injected, ReleaseOf
    <3> QED
      BY <3>1, <3>2
  <2>3. CASE TearDown(t)
    BY <1>2, <2>3 DEF TearDown
  <2> QED
    BY <2>1, <2>2, <2>3
<1>6. new \in Release \cup {None}
  <2>1. TypeOK'
    BY TypeNext DEF Next, Step, Runner
  <2>2. release'[AppId(r)] = new /\ AppId(r) \in AppIds
    BY <1>5, RowAppId DEF TypeOK
  <2> QED
    BY <2>1, <2>2 DEF TypeOK
<1> QED
  BY <1>3, <1>4, <1>5, <1>6 DEF Serves

LEMMA ClaimsOfReaders ==
  ASSUME Calm, TypeOK, CalmInv,
         (\E d \in Readers : Settle(d)) \/ \E r \in Rows : Age(r)
  PROVE  ClaimsStand
<1>1. UNCHANGED release
  BY DEF Settle, SettleRead, SettleWrite, Age, runnerVars
<1>2. UNCHANGED app
      \/ \E r \in Rows : app[r].status = "DEPLOYING"
           /\ \E row : SetRow(r, row) /\ row.status \in {"DEPLOYING", "ERROR"}
  <2>1. ASSUME NEW d \in Readers, SettleWrite(d), StillDeploying(reader[d])
        PROVE  \E r \in Rows : app[r].status = "DEPLOYING"
                 /\ \E row : SetRow(r, row) /\ row.status = "ERROR"
    <3>1. PICK r \in Rows : r = reader[d]
      BY <2>1 DEF SettleWrite, TypeOK
    <3> QED
      BY <2>1, <3>1, RowFields DEF SettleWrite, StillDeploying, TypeOK
  <2>2. ASSUME NEW r \in Rows, Age(r)
        PROVE  app[r].status = "DEPLOYING"
                 /\ \E row : SetRow(r, row) /\ row.status = "DEPLOYING"
    <3>1. app[r] \in AppRow /\ app[r].status = "DEPLOYING"
      BY <2>2 DEF Age, InProgress, TypeOK
    <3>2. SetRow(r, [app[r] EXCEPT !.aged = TRUE])
      BY <2>2 DEF Age
    <3>3. [app[r] EXCEPT !.aged = TRUE].status = app[r].status
      BY <3>1 DEF AppRow
    <3> QED
      BY <3>1, <3>2, <3>3
  <2> QED
    BY <2>1, <2>2 DEF Settle, SettleRead, SettleWrite
<1> QED
  BY <1>1, <1>2, ClaimsKeptByWrite DEF ClaimsStand, Live

LEMMA ClaimsOfStart ==
  ASSUME Calm, TypeOK, CalmInv, NEW t \in Tasks, Start(t)
  PROVE  ClaimsStand
<1>1. UNCHANGED release
  BY DEF Start, StartUpload, StartRedeploy, StartDelete, StartEdit, runnerVars
<1>2. ASSUME NEW r \in Rows, StartDelete(t, r)
      PROVE  ClaimsStand
  <2>1. Live(r)
    BY <1>2 DEF StartDelete, Calm, Live
  <2>2. PICK row : SetRow(r, row) /\ row.status = "DELETING"
    BY <1>2, RowFields DEF StartDelete, TypeOK
  <2> QED
    BY <1>1, <2>1, <2>2, ClaimsKeptByWrite
<1>3. CASE UNCHANGED app
  BY <1>1, <1>3 DEF ClaimsStand, Live
<1> QED
  BY <1>2, <1>3 DEF Start, StartUpload, StartRedeploy, StartEdit

\* Every step of the system is one of these.
LEMMA ClaimsStep ==
  ASSUME Calm, TypeOK, CalmInv, [Next]_vars
  PROVE  ClaimsStand \/ \E r \in Rows : Takes(r) \/ Leaves(r) \/ Serves(r)
<1>1. UNCHANGED <<app, release>> => ClaimsStand
  BY DEF ClaimsStand, Live
<1>2. ASSUME NEW t \in Tasks, Step(t)
      PROVE  ClaimsStand \/ \E r \in Rows : Takes(r) \/ Leaves(r) \/ Serves(r)
  <2>1. CASE \/ CheckBusy(t) \/ StoreBundle(t) \/ LoseBundle(t) \/ CheckClaim(t)
             \/ StoreSecrets(t) \/ LoseSecrets(t) \/ BuildReply(t)
             \/ BuildTimeout(t) \/ AppAnswers(t) \/ AppSilent(t)
             \/ ReadRegistry(t) \/ InjectLocked(t) \/ InjectFails(t)
             \/ Announce(t) \/ RefuseTearDown(t)
    BY <1>1, <2>1
       DEF CheckBusy, StoreBundle, LoseBundle, CheckClaim, StoreSecrets,
           LoseSecrets, BuildReply, BuildTimeout, AppAnswers, AppSilent,
           ReadRegistry, InjectLocked, InjectFails, Announce, RefuseTearDown,
           runnerVars
  <2>2. ~InjectTimeout(t)
    BY DEF InjectTimeout, Calm
  <2> QED
    BY <1>2, <2>1, <2>2, ClaimsOfUpload, ClaimsOfRequest, ClaimsOfDelete,
       ClaimsOfRunner DEF Step
<1>3. ASSUME NEW t \in Tasks, Runner(t)
      PROVE  ClaimsStand \/ \E r \in Rows : Serves(r)
  BY <1>1, <1>3, ClaimsOfRunner DEF Runner, RunnerFails
<1>4. \A t \in Tasks : ~Crash(t)
  BY DEF Crash, Calm
<1> QED
  BY <1>1, <1>2, <1>3, <1>4, ClaimsOfStart, ClaimsOfReaders DEF Next, vars

LEMMA HoldersOf ==
  ASSUME NEW a \in AppIds
  PROVE  /\ holders[a] = {m \in Members : Live(<<m, a>>)}
         /\ running[a] = IF release[a] = None THEN None ELSE Owner(release[a].owner)
         /\ \A m \in Members : <<m, a>> \in Rows
  BY DEF holders, running, Holders, Running, Rows

\* A live row is the only holder of its appId.
LEMMA HolderAlone ==
  ASSUME CalmInv, NEW r \in Rows, Live(r)
  PROVE  holders[AppId(r)] = {Owner(r)}
<1>1. \A m \in Members : Live(<<m, AppId(r)>>) => m = Owner(r)
  BY RowAppId, HoldersOf DEF CalmInv, OneHolder, AppId, Owner
<1>2. Live(<<Owner(r), AppId(r)>>) /\ Owner(r) \in Members /\ AppId(r) \in AppIds
  BY RowAppId
<1> QED
  BY <1>1, <1>2, HoldersOf

\* When only r changes, so do only the holders of its appId.
LEMMA HoldersChange ==
  ASSUME NEW r \in Rows, OthersStand(r)
  PROVE  \A a \in AppIds \ {AppId(r)} : holders'[a] = holders[a]
<1>1. ASSUME NEW a \in AppIds \ {AppId(r)}, NEW m \in Members
      PROVE  Live(<<m, a>>)' <=> Live(<<m, a>>)
  <2>1. <<m, a>> \in Rows \ {r}
    BY HoldersOf DEF AppId
  <2> QED
    BY <2>1 DEF OthersStand
<1>2. \A a \in AppIds : holders'[a] = {m \in Members : Live(<<m, a>>)'}
  BY DEF holders, Holders
<1> QED
  BY <1>1, <1>2, HoldersOf

LEMMA ClaimTaken ==
  ASSUME TypeOK, CalmInv, CalmInv', NEW r \in Rows, Takes(r)
  PROVE  ClaimSpec!Claim(Owner(r), AppId(r))
<1>0. AppId(r) \in AppIds /\ Owner(r) \in Members
  BY RowAppId
<1>1. \A o \in Rows : AppId(o) = AppId(r) => ~Live(o)
  BY RowPair DEF Takes, ClaimedByOther
<1>2. holders[AppId(r)] = {}
  BY <1>0, <1>1, HoldersOf DEF AppId
<1>3. release[AppId(r)] = None
  <2>1. release[AppId(r)] # None => release[AppId(r)].owner \in Rows
    BY <1>0 DEF TypeOK, Release
  <2> QED
    BY <1>0, <1>1, <2>1 DEF CalmInv, OneHolder
<1>4. running[AppId(r)] = None /\ UNCHANGED running
  BY <1>0, <1>3, HoldersOf DEF Takes, running, Running
<1>5. holders'[AppId(r)] = {Owner(r)}
  <2>1. \A m \in Members : (Live(<<m, AppId(r)>>))' <=> m = Owner(r)
    BY <1>1, HoldersOf, <1>0, RowAppId DEF Takes, OthersStand, AppId, Owner
  <2>2. holders'[AppId(r)] = {m \in Members : (Live(<<m, AppId(r)>>))'}
    BY <1>0 DEF holders, Holders
  <2> QED
    BY <1>0, <2>1, <2>2
<1>6. holders' = [holders EXCEPT ![AppId(r)] = {Owner(r)}]
  BY <1>5, HoldersChange DEF Takes, holders
<1> QED
  BY <1>2, <1>4, <1>6 DEF ClaimSpec!Claim, holders, running

LEMMA ClaimLeft ==
  ASSUME TypeOK, CalmInv, NEW r \in Rows, Leaves(r)
  PROVE  ClaimSpec!GiveUp(Owner(r), AppId(r))
<1>0. AppId(r) \in AppIds /\ Owner(r) \in Members
  BY RowAppId
<1>1. holders[AppId(r)] = {Owner(r)}
  BY HolderAlone DEF Leaves
<1>2. running[AppId(r)] = None /\ UNCHANGED running
  BY <1>0, HoldersOf DEF Leaves, running, Running
<1>3. holders'[AppId(r)] = {}
  <2>1. \A m \in Members : ~(Live(<<m, AppId(r)>>))'
    BY <1>0, <1>1, HoldersOf, RowAppId DEF Leaves, OthersStand, AppId, Owner
  <2>2. holders'[AppId(r)] = {m \in Members : (Live(<<m, AppId(r)>>))'}
    BY <1>0 DEF holders, Holders
  <2> QED
    BY <2>1, <2>2
<1>4. holders' = [holders EXCEPT ![AppId(r)] = {}]
  BY <1>3, HoldersChange DEF Leaves, holders
<1> QED
  BY <1>1, <1>2, <1>4 DEF ClaimSpec!GiveUp, holders, running

LEMMA ClaimServed ==
  ASSUME TypeOK, CalmInv, NEW r \in Rows, Serves(r)
  PROVE  \/ ClaimSpec!Run(Owner(r), AppId(r))
         \/ ClaimSpec!TearDown(Owner(r), AppId(r))
<1>0. AppId(r) \in AppIds /\ Owner(r) \in Members
  BY RowAppId
<1>1. holders[AppId(r)] = {Owner(r)}
  BY HolderAlone DEF Serves
<1>2. UNCHANGED holders
  <2>1. \A o \in Rows : Live(o)' <=> Live(o)
    BY DEF Serves, OthersStand
  <2>2. \A a \in AppIds, m \in Members : Live(<<m, a>>)' <=> Live(<<m, a>>)
    BY <2>1, HoldersOf
  <2> QED
    BY <2>2 DEF holders, Holders
<1>3. PICK new \in Release \cup {None} :
        /\ release' = [release EXCEPT ![AppId(r)] = new]
        /\ new # None => new.owner = r
  BY DEF Serves
<1>4. /\ release'[AppId(r)] = new
      /\ \A a \in AppIds \ {AppId(r)} : release'[a] = release[a]
  BY <1>0, <1>3 DEF TypeOK
<1>5. running' = [running EXCEPT ![AppId(r)] =
                    IF new = None THEN None ELSE Owner(r)]
  <2>1. Running(AppId(r))' = IF new = None THEN None ELSE Owner(r)
    BY <1>3, <1>4 DEF Running
  <2>2. \A a \in AppIds \ {AppId(r)} : Running(a)' = Running(a)
    BY <1>4 DEF Running
  <2> QED
    BY <1>0, <2>1, <2>2 DEF running
<1>6. CASE new = None
  BY <1>1, <1>2, <1>5, <1>6 DEF ClaimSpec!TearDown, holders, running
<1>7. CASE new # None
  BY <1>1, <1>2, <1>5, <1>7 DEF ClaimSpec!Run, holders, running
<1> QED
  BY <1>6, <1>7

LEMMA ClaimsNext ==
  ASSUME Calm, TypeOK, CalmInv, [Next]_vars
  PROVE  ClaimSpec!Next \/ UNCHANGED <<holders, running>>
<1>1. CalmInv'
  BY CalmNext
<1>2. CASE ClaimsStand
  <2>1. \A a \in AppIds, m \in Members : Live(<<m, a>>)' <=> Live(<<m, a>>)
    BY <1>2, HoldersOf DEF ClaimsStand
  <2>2. UNCHANGED holders
    BY <2>1 DEF holders, Holders
  <2>3. UNCHANGED running
    BY <1>2 DEF ClaimsStand, running, Running
  <2> QED
    BY <2>2, <2>3
<1>3. ASSUME NEW r \in Rows, Takes(r) \/ Leaves(r) \/ Serves(r)
      PROVE  ClaimSpec!Next
  <2>1. \/ ClaimSpec!Claim(Owner(r), AppId(r))
        \/ ClaimSpec!GiveUp(Owner(r), AppId(r))
        \/ ClaimSpec!Run(Owner(r), AppId(r))
        \/ ClaimSpec!TearDown(Owner(r), AppId(r))
    BY <1>1, <1>3, ClaimTaken, ClaimLeft, ClaimServed
  <2>2. AppId(r) \in AppIds /\ Owner(r) \in Members
    BY RowAppId
  <2> QED
    BY <2>1, <2>2 DEF ClaimSpec!Next
<1> QED
  BY <1>2, <1>3, ClaimsStep

LEMMA ClaimsInit == Init => ClaimSpec!Init
<1> SUFFICES ASSUME Init
             PROVE  ClaimSpec!Init
  OBVIOUS
<1>1. \A r \in Rows : ~Live(r)
  BY DEF Init, NewRow, Live
<1>2. \A a \in AppIds : Holders(a) = {} /\ Running(a) = None
  BY <1>1, HoldersOf DEF Init, Holders, Running
<1> QED
  BY <1>2 DEF ClaimSpec!Init

\* assertAppIdNotClaimedByAnotherMember makes an appId a global claim: one
\* member at most holds it, the runner runs only the holder's app under it, and
\* another member gets it only once that app is deleted and torn down.
THEOREM ClaimsRefined ==
  ASSUME Calm
  PROVE  Spec => ClaimIsGlobal
<1>1. TypeOK /\ CalmInv /\ [Next]_vars => [ClaimSpec!Next]_<<holders, running>>
  BY ClaimsNext
<1> QED
  BY <1>1, TypeCorrect, CalmHolds, ClaimsInit, PTL
     DEF Spec, ClaimIsGlobal, ClaimSpec!Spec, holders, running

=============================================================================
