----------------------- MODULE AiAppsDeployProperties -----------------------
(***************************************************************************)
(* What the AI Apps deploy lifecycle is required to do.                    *)
(***************************************************************************)
EXTENDS AiAppsDeploy

-----------------------------------------------------------------------------
(* Kept by every interleaving, fault and crash.                            *)

\* lastDeployedAt, and a "new app is live" broadcast, are only given to an app
\* the runner has run, or to one whose own probe was misled: no failed build,
\* no late process and no second request makes up a ship.
ShipsAreAccountedFor ==
  \A r \in Rows :
    /\ app[r].shipped => AppId(r) \in everUp \cup misled
    /\ announced[r] > 0 => app[r].shipped

\* A name in providedEnvVars has its value in the runner's secret store, also
\* when several requests save secrets of the same app at once.
RecordedNamesAreStored ==
  \A r \in Rows : app[r].provided \subseteq secrets[AppId(r)]

\* However many dashboards read a stuck row at once, its owner gets at most one
\* timed-out verdict for each time the row went DEPLOYING.
OneTimeoutVerdict == \A r \in Rows : timeouts[r] <= 1

\* READY is a clean state: it is only reached by a ship, and no failure of an
\* earlier deploy still shows on it.
ReadyIsClean ==
  \A r \in Rows :
    app[r].status = "READY" => app[r].shipped /\ app[r].failure = "none"

\* deployment.serving, as toApiApp derives it.
Serving(row) ==
  CASE row.status = "READY" -> "latest"
    [] row.status # "READY" /\ row.shipped -> "previous"
    [] OTHER -> "none"

ServingSpec ==
  INSTANCE AiAppsServing WITH serving <- [r \in Rows |-> Serving(app[r])]

\* The rows, seen through toApiApp, keep the promise of AiAppsServing.
ServingIsHonest == ServingSpec!Spec

-----------------------------------------------------------------------------
(* Kept while requests do not overlap and the runner's answers arrive.     *)

Holders(a) == {m \in Members : Live(<<m, a>>)}

Running(a) == IF release[a] = None THEN None ELSE Owner(release[a].owner)

ClaimSpec ==
  INSTANCE AiAppsClaims WITH
    Nobody <- None,
    holders <- [a \in AppIds |-> Holders(a)],
    running <- [a \in AppIds |-> Running(a)]

\* An appId is a global claim (assertAppIdNotClaimedByAnotherMember).
ClaimIsGlobal == ClaimSpec!Spec

\* "latest" is true: the bundle named by a READY row is the one that runs.
LatestServes ==
  \A r \in Rows :
    app[r].status = "READY" =>
      /\ release[AppId(r)] # None
      /\ release[AppId(r)].owner = r
      /\ release[AppId(r)].bundle = app[r].bundle

Quiet(r) == \A t \in Tasks : Active(t) => task[t].row # r

\* A READY app runs with every env name it was given and with its database.
ReadyHasConfig ==
  \A r \in Rows :
    app[r].status = "READY" /\ Quiet(r) /\ release[AppId(r)] # None =>
      /\ app[r].provided \subseteq release[AppId(r)].config
      /\ app[r].database => release[AppId(r)].database

\* The broadcast goes out for the first ship only.
AnnouncedOnce == \A r \in Rows : announced[r] <= 1

\* The runner runs nothing on behalf of a DELETED row.
DeletedIsTornDown ==
  \A r \in Rows :
    app[r].status = "DELETED" =>
      release[AppId(r)] = None \/ release[AppId(r)].owner # r

-----------------------------------------------------------------------------
(* Said in the repository, and not kept by the code.                       *)

\* lastDeployedAt "must strictly mean last successful ship" (proxyDeploy): the
\* runner has run the app of a row that has one.
ShipsAreReal == \A r \in Rows : app[r].shipped => AppId(r) \in everUp

\* No row is READY with a bundle while an older one answers in its place.
NothingOlderServes ==
  \A r \in Rows :
    app[r].status = "READY" /\ release[AppId(r)] # None =>
      release[AppId(r)].bundle = app[r].bundle

\* Two deploys of one app are never built at once while none of them is stuck.
OneBuildAtATime ==
  \A t, u \in Tasks :
    At(t, "building") /\ At(u, "building") /\ task[t].row = task[u].row => t = u

\* An appId is held by one row.
ClaimHeldOnce ==
  \A r, o \in Rows : AppId(r) = AppId(o) /\ Live(r) /\ Live(o) => r = o

\* Where every app has a database, a redeploy that failed leaves the release
\* with the database serving ("previous", toApiApp).
PreviousKeepsDatabase ==
  \A r \in Rows :
    /\ app[r].status = "ERROR"
    /\ Serving(app[r]) = "previous"
    /\ release[AppId(r)] # None
    => release[AppId(r)].database

\* Nothing but a deploy makes a stuck row fresh again (isDeployStuck).
StuckStaysStuck ==
  [][\A r \in Rows :
       Stuck(app[r]) /\ InProgress(app[r])'
         => \E t \in Tasks : WriteDeploying(t) \/ StartProxy(t)]_vars

-----------------------------------------------------------------------------
(* Liveness.  Promise continuations run, runner builds end, clocks advance *)
(* and an open dashboard keeps polling; a process may die all the same.    *)

Fairness ==
  /\ \A t \in Tasks : WF_vars(Step(t)) /\ WF_vars(Runner(t))
  /\ \A d \in Readers : WF_vars(Settle(d))
  /\ \A r \in Rows : WF_vars(Age(r))

FairSpec == Spec /\ Fairness

\* No row stays DEPLOYING for ever, even when the API dies in the middle.
DeployingEnds ==
  \A r \in Rows : app[r].status = "DEPLOYING" ~> app[r].status # "DEPLOYING"

=============================================================================
