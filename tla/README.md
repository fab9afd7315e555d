# TLA+ models of the LabOS directory API

This directory holds TLA+ specifications of the parts of this repository whose
correctness depends on the order of things: requests that overlap, an API
process that dies between two writes, a call whose answer is lost, a job that
reads a row and writes it later. Each module is translated from the TypeScript
of `apps/web-api/src`; TLC checks it on small instances and TLAPS proves the
main results for every instance. The search sync lambda, which is JavaScript
beside the API, is modelled in the same way.

## 1. Inventory

The program is a NestJS API (`apps/web-api`) over PostgreSQL (Prisma), Redis, S3
and a set of external services, with a React back office, shared libraries and
one AWS lambda. Most of its 70 modules are CRUD over a table. The parts with
behaviour of their own are:

| Component | State | Operations | Hard because | Correct when |
|---|---|---|---|---|
| AI Apps: deploy (`ai-apps.service.ts`) | `AiApp` rows; bundles in S3; the sandbox runner's releases and secrets, keyed by `appId` alone | deploy, register draft, deploy draft, save secrets, delete, edit, settle a stuck deploy on read | a deploy spans minutes and five external calls in one request; the edge may drop an answer; the process may die; check and write are separate statements | the row tells the truth about what runs; nothing stays DEPLOYING; the claim on an `appId` is exclusive; no ship without a cause |
| AI Apps: connect (`ai-apps-connect.service.ts`, `ai-app-token.guard.ts`) | connect sessions, deploy tokens | start, display, approve, poll, lazy expiry; token check | the approval awaits a permission check; expiry races approval; one session, many tabs | a token is only issued for an approved session and by a member with permission; no session is decided twice |
| AI Apps: logs (`ai-apps.service.ts`) | a per-process cache of walked log tails, walks in flight | read a page, page back, drop on redeploy | a walk in flight when the cache is dropped ends after it; a page is counted from the end of whatever walk answers; each deployment has a log stream of its own | no walk from before a deploy stays cached; who pages back misses no line of one deployment |
| Team enrichment (`team-enrichment.*`) | `Team` fields and their enrichment meta: status, per-field status, scores | mark, enrich, force, refetch logo, edit by user, review, approve, stale reset | fire-and-forget jobs beside cron and users; snapshots of meta and fields written back after long calls | a user's value that is on record is never overwritten; every started enrichment ends; a review is not undone |
| Member enrichment (`member-enrichment`) | as above, with approvals | mark, enrich, approve | as above | as above |
| Events and IRL pushes (`pl-events`) | guests, gatherings, push candidates and configs | guest changes, candidate refresh, push processor, resend | windowed batches, cron beside admin edits | no gathering is announced twice |
| MCP OAuth (`mcp`) | clients, authorization codes, tokens in Redis | authorize, exchange, refresh | codes are single use | a code is redeemed once |
| Roadmap (`roadmap`) | items and their stages, pins, the pin limit, bell notifications | create, move, archive, boost, swap, withdraw, change the limit | check and write are separate statements; a move writes, then tells people one by one | boosts stay in the budget and off frozen items; a commitment is announced once, and to whoever is owed it |
| Job alerts (`job-openings`, `job-alerts`) | postings, alerts with `lastSentAt`, records of runs | ingest, dispatch, create, edit, delete | the dispatch reads, mails, records and stamps each alert in separate steps, any of which may fail | no posting is lost to an alert; a run mails an alert once |
| Office hours (`office-hours`, `member-follow-ups`, `member-feedbacks`, `member-interaction-adjustments`) | bookings, follow-up questions, answers, a counter of meetings | book, answer, close | the status of a question is looked up before the transaction that answers it | the counter is the meetings nobody denied; questions and answers match |
| Demo days (`demo-days`) | demo day stage, participants, access | stage changes, invites, access requests | stage read before write | access follows the stage |
| Warm intros (`warm-intros-v2`) | requests | request, respond, remind | jobs beside user answers | one answer per request |
| Notifications and push (`notifications`, `push-notifications`) | notification rows, per-user read state, job status | enqueue, process, retry, mark read | retries, crash between send and record | at most the intended number of sends |
| Recommendations (`recommendations`) | runs and their recipients | generate, approve, send | long loop over members, partial failure | a member gets a run once |
| Participants requests (`participants-request`) | pending requests, members, teams | submit, approve, reject | approval creates several rows | approved once |
| Search sync (`lambda-opensearch-sync`) | OpenSearch documents, a checkpoint of the rows, one of the forum in two parts | remove, index, move the checkpoints | a run reads table by table, has documents refused, and may end anywhere | no checkpoint steps over a change; what is taken from the list leaves the index |

Everything else (RBAC, deals, articles, news, investors, search, analytics, taxonomies, back office, libraries) is listed in `PROJECT.json` with the
reason it is not modelled: one write per request, or pure I/O.

The components meet in the database and in calls: the deploy guard of AI Apps
accepts the tokens that connect sessions mint; `proxyDeploy` drops the log cache
of the API process it runs in; deploys, enrichments and roadmap moves push
notifications; team updates from the directory call back into the enrichment
service; an ingest of postings starts the dispatch of alerts by an event in
memory; the lambda reads the tables that all of them write.

## 2. Plan

Done:

1. `AiAppsDeploy`, the deploy lifecycle and core of the AI Apps platform, with
   its properties and two abstract specifications; all of it proved but its
   liveness: the type invariant, the safety invariants and both refinements.
2. `AiAppsConnect`, connect sessions and deploy tokens, with proofs.
3. `TeamEnrichment`, the enrichment and judgment of one team beside user edits,
   with proofs of its type invariant and that a person's recorded value is kept.
4. `AiAppsLogs`, newest-first log reads beside redeploys, with proofs.
5. `Roadmap`, stages, boosts and announcements, with proofs.
6. `JobAlerts`, ingests and digests, with proofs.
7. `MeetingFollowUps`, bookings, questions and answers, with proofs.
8. `SearchSync`, the lambda's checkpoints, with proofs.

Next, in this order:

9. The IRL gathering push processor and resends (`pl-events/push`): batches
    claimed by a window, beside administrators.
10. Demo days: an invitation that becomes access on first use, and status
    notifications that must go out once.
11. MCP authorization codes and refresh tokens, the notifications processor,
    participants approval and member enrichment; then warm intros and
    recommendations.

## 3. Modules

    AiAppsDeploy                 rows, requests, runner, dashboards
      AiAppsDeployProperties     what they must do; INSTANCEs
        AiAppsServing            abstract: what deployment.serving promises
        AiAppsClaims             abstract: the appId as a global claim
      MCAiAppsDeploy             TLC instance of the properties module
      AiAppsDeployProofs         theorems and both refinements
    AiAppsConnect                sessions, tabs, agents, tokens, properties
      MCAiAppsConnect            TLC instance
      AiAppsConnectProofs        theorems
    AiAppsLogs                   one app's log, the cache, walks, readers
      MCAiAppsLogs, AiAppsLogsProofs
    TeamEnrichment               one team, crons, requests, people, properties
      MCTeamEnrichment           TLC instance
      TeamEnrichmentProofs       theorems
    Roadmap                      items, pins, bells, requests, curators
      MCRoadmap, RoadmapProofs
    JobAlerts                    alerts, ingests and their dispatches
      MCJobAlerts, JobAlertsProofs
    MeetingFollowUps             bookings, questions, answers, requests
      MCMeetingFollowUps, MeetingFollowUpsProofs
    SearchSync                   rows, documents, posts, threads, one run
      MCSearchSync, SearchSyncProofs

The MC modules add only the sets of permutations under which an instance is
symmetric, the constants that are functions and, in `MCTeamEnrichment`, a second
initial state (`EditedInit`); the other constants get their values in the `.cfg`
files. Symmetry is used by
the runs that check safety only, never with liveness. A definition called
`X_Slip` is `X` with a mistake of the kind a change of this code could make. No
action uses it. Put in the place of `X` it makes the named property of the named
run fail (`PROJECT.json`, "mutants"), which is how we know that the property
looks at that code.

In all of them a request or job is a process cut at its awaits, and what
it read before an await stays in its task record and is used after it, as the
local variable of the code is.

### AiAppsDeploy (`ai-apps/ai-apps.service.ts`)

| Model | Code |
|---|---|
| `app[<<member, appId>>]` | the `AiApp` row: `status`; `bundle` is `deploymentId` (with the S3 key it determines); `shipped` is `lastDeployedAt # null`; `failure` is `failureStream`; `required`, `provided` and `database` are the columns of those names; `aged` says that `updatedAt` is beyond the stuck window |
| `task[t]` | one request: its step, its row, its bundle, `isFirstDeploy` as read at the start (`first`), the union of names, the submitted secrets (`given`), its database flag, its retries on a locked release |
| `reader[d]` | a dashboard or detail read between finding a stuck row and its conditional update |
| `stored`, `secrets`, `build`, `release` | S3, and the runner's secret store, build jobs and releases: one of each per `appId`, whoever owns the row |
| `everUp`, `misled`, `announced`, `timeouts` | history: what ran once, what a probe took for running while nothing was released, broadcasts, timed-out verdicts |

`StartUpload`, `CheckBusy`, `WriteDeploying`, `StoreBundle`, `LoseBundle` and
`WriteDraft` are `deploy` and `registerDraft`; `StartRedeploy`, `CheckClaim`,
`StoreSecrets`, `LoseSecrets` and `RecordNames` are `deployDraft` with
`saveSecrets`; `StartProxy` to `FailDeploy` are `proxyDeploy`,
`deployImageWithRuntimeConfig`, `verifyAppLive`, `markReady` and `failDeploy`;
`StartDelete` to `RecordDelete` are `deleteApp`; `StartEdit` and `WriteEdit` are
`updateMetadata`; `SettleRead` and `SettleWrite` are `settleStuckDeploy`.
`RunnerBuilds` and `RunnerFails` are the external runner, which goes on whether
or not the API still waits. A probe after a lost answer (`AppAnswers`) succeeds
with whatever runs under the appId, and also with nothing: `verifyAppLive` takes
any status but a gateway error as up (lines 1789-1795), and until the app has a
route the ingress answers 404 itself (line 577 and `docs/AI_APPS.md:95`, `:147`).
`misled` keeps the appIds where that happened. `Age` is the clock, `Crash` the death of the
API process under one request.

`Env` says what the environment of an instance may do: requests may overlap,
crash, outlive the stuck window, lose a runner answer at the edge, delete a
deleted app again, or be refused by S3.

`AiAppsServing` says what a reader of app pages is promised through
`deployment.serving` ("none", "previous", "latest") and the broadcast. The
refinement mapping is `toApiApp`'s own derivation (`Serving`). `AiAppsClaims`
says what `assertAppIdNotClaimedByAnotherMember` is for: the claim on an `appId`
and the app that answers at its URL change hands together.

### AiAppsConnect (`ai-apps/ai-apps-connect.service.ts`, `guards/ai-app-token.guard.ts`)

`session[s]` is the `AiAppConnectSession` row; `late` and `tokenLate` say that
the clock has passed `expiresAt` and `deployTokenExpiresAt`. Each session has one
agent, whose polls follow each other, so the session names that process too;
`Pages` are browser tabs, each showing the session or approving it. `Find`,
`Expire`, `CheckPermission`, `Deny` and `Grant` are the awaits of
`expireIfStale`, `getSessionForDisplay`, `approve` and `poll`; `Admit` is the guard
on a token the agent has collected. `writers` are the members with permission,
which administrators change at any time. `minter` and `acts` are history: whose
approval minted a token, and under whose name it was let in.

### TeamEnrichment (`team-enrichment/team-enrichment.service.ts`, `team-enrichment-judge.service.ts`, `team-enrichment-promotion.ts`)

`doc` is the `dataEnrichment` JSON of one team; `cand` the fields with a value in
the candidate columns of its `TeamEnrichment` row; `team` what each field holds
on `Team`: "empty", "junk" (text that fails the field's shape check), "user"
(written by a person) or "ai" (promoted). `aged` is `updatedAt` beyond the stuck
TTL. Every writer but the two stale resets reads the document, changes its copy
and writes all of it back; `seen` and `latest` are those copies, kept as they
will be written.

`StartMark`, `Mark` and `MarkWrite` are `markTeamForEnrichment` and the queueing
write of forced runs; `LoadTeam`, `BeginRun`, `EnrichDone` and `RunFails` are
`doEnrichTeam`; with `StartLogo` and `LogoDone` they are `doRefetchLogo`.
`TickEnrich`, `FindPending` and `GuardRun` are the enrichment cron;
`TickJudge`, `FindUnjudged` and `Reload` the judgment cron; `StartJudge` the
administrator's `judgeTeam`. `JudgeRead` and `JudgeWrite` are
`writeJudgmentStatus`; `Verdict`, `Promote` and `JudgeFails`
`runJudgmentPipeline`; `UsageRead` and `UsageWrite` `appendJudgeUsage`. `Review`,
`Approve` and `Edit` are what people do. An edit begins in the transaction that
has written `Team`, so it holds that row's lock until it commits, and `Promote`
and `Approve` wait for it when they write `Team`.

`Env` adds edits during jobs ("raceedit"), runs that outlive the TTL ("slowrun")
and a logo refetch of a team that is pending ("pendinglogo").

A person's value is *on record* (`OnRecord`) when the document calls the field
`ChangedByUser` and so does every copy of it that a job has still to write back
(`Agrees`). `RecordedValueKept` says that such a value is kept whatever races,
and stays on record. `UserValueKept` says it of every value a person wrote, and is
not kept (section 8): an edit beside a job, or after an approval, may go
unrecorded. `EditedInit` is a team with a person's value on record, written before
the run that found it or over what the AI had promoted, perhaps marked again: the
state to start from when one request is to be spent on something else.

### AiAppsLogs (`ai-apps/ai-apps.service.ts`, `getMemberLogsDesc`)

`cache` and `walk` are the maps of one API process, by phase and window. Each
deployment writes a log stream of its own (line 851, `docs/AI_APPS.md:280`):
`lines[s]` is the length of stream `s`, a line is its place in its stream, and
`live` is the stream the runner answers with. `WriteLine` is a deployment that
logs, `GoLive` a deploy whose build succeeds and brings up the next stream. A
cursor's offset is a number of lines and says of no stream, so after a deploy it
counts into the new one, as in the code. `Open`, `More`
and `Retry` are a read without a cursor, with one, and the next of its narrowing
loop; `EndWalk`, `GiveUpWalk` and `FailWalk` are the three ends of
`runLogsTailWalk`, each with what it does to everyone who waits for it; `Drop` is
`dropLogsTailCache`, which `proxyDeploy` calls as a deploy begins and the previous
stream is still live, `Expire` the two ages of an entry. `began` and `drops` count
deploys where the code compares times. `skipped` and `mixed` are history: readers
who were shown a page that skips lines of the stream they were reading, and
readers whose next page was of another stream.

### Roadmap (`roadmap/roadmap.service.ts`, `roadmap-pins.service.ts`)

`active` are the unreleased pins, `limit` the setting, `bell` the stored
notifications of the kinds that suppress others. `StartBoost`, `ReadItem`,
`SpendBoost` and `InsertPin` are the statements of `pinItem`, whose writes show at
its commit; `StartMove`, `ListBoosts`, `CommitMove`, `CheckBells`, `TellBooster`,
`LoseBooster`, `BoostersTold`, `TellAuthor` and `Stop` are `applyStageChange` and
`archiveItem` with the notifications after the commit. `Locked` is the row lock of
a swap. `top` and `owed` are history. `Env` lets an item move while it is boosted
("racepin"), two people move one item ("racestage"), a member boost twice at once
("twotabs").

### JobAlerts (`job-openings/job-openings.service.ts`, `job-alerts/*`)

Times are compared with an alert's `lastSentAt` and with nothing else, so
`fresh[a]` holds the postings that are newer. A job is an ingest and the dispatch
its event starts: `StartIngest`, `UpsertItem`, `FailItem` and `Emit`, then
`ReadBatch`, `CheckSent`, and for each alert `Match`, `Mail` or `MailFails`,
`Record` and `Stamp`, interleaved as `Promise.all` does. `owed` and `mailed` are
history. `Env` adds postings stored while digests go out ("raceingest"), edits
during a digest ("raceedit") and a run id in use twice at once ("samerun").

### MeetingFollowUps (`office-hours`, `member-follow-ups`, `member-feedbacks`, `member-interaction-adjustments`)

`booking`, `up`, `feedback` and `adjusted` are the rows, `count` is
`scheduleMeetingCount`. An answer and a close are a lookup (`StartAnswer`,
`StartClose`) and a write that does not look again. The write of an answer is one
transaction with three ends: `Save`, `Conflict` on the unique index of feedbacks,
which fails the request, and `RolledBack` on that of adjustments, which the code
reports as saved. `thanked` is history.

### SearchSync (`lambda/lambda-opensearch-sync/index.mjs`)

`row` has the time of a row's last write and whether the lambda's queries list
it; `doc` is the time of the row that a document was made from. `run` is the one
invocation: where it is, the checkpoint it began with (`since`), the rows of the
request in hand (`batch`), the tables it has read (`asked`), and of the forum the
threads it has still to read (`found`), those it has (`built`), the newest post
(`top`) and the parts of the checkpoint it has yet to save (`unsaved`). Each step
is one call: `FindGone` and `Remove`, `FindFresh` and `Index`, `ReadMax`,
`SaveCheckpoint`, `FindPosts`, `Build`, `EndBuild`, `PutThreads`, `SaveMark`.
`Abort` is an error or a timeout anywhere. `missed` is history: rows written
between their table's query and the reading of the new checkpoint, and rows whose
document was refused.

## 4. Runs

| Run | Instance | Shows |
|---|---|---|
| `deploy_calm` | 2 members, 1 appId, 2 bundles, 1 env name, database or not, 3 requests one after the other; S3 and the runner may fail | a READY row's own bundle runs with its configuration (`LatestServes`, `ReadyHasConfig`), the broadcast goes out once, a deleted app is down, the rows implement `AiAppsClaims` |
| `deploy_fair` | 1 member, 1 env name, 2 overlapping requests, 2 dashboards; every fault: crashes, ageing, lost answers and misled probes, refused uploads, second deletions | `ShipsAreAccountedFor`, `OneTimeoutVerdict`, `ReadyIsClean`, `RecordedNamesAreStored`, the rows implement `AiAppsServing`, and `DeployingEnds` |
| `connect_fair` | 1 session, 2 tabs, 2 members, 2 tokens, 1 crash | `ActsAsMinter`, `AgentHears` |
| `logs` | 2 windows that share one cache entry, 2 readers, 2 streams of up to 3 lines, 2 deploys | `CacheIsCurrent`, `NoGap` |
| `enrich_fair` | from `EditedInit`: 1 field, both crons, 1 request of any kind, edits beside every job, 1 crash | `RecordedValueKept`, `EnrichmentEnds`, `JudgingEnds` |
| `roadmap_fair` | 2 items, 2 members, a boost and a move that overlap on different items, 1 fault | `BudgetKept`, `FrozenHoldsNoBoost`, `CommittedOnce`, `OwedAreTold` |
| `alerts_fair` | 2 postings, 1 alert, 2 jobs with runs of their own, 1 fault | `NothingMissed`, `OncePerRun`, `OwedMailed` |
| `meetings` | 2 members, 2 bookings, 3 questions, 2 requests | `CounterMatches`, `NoStaleQuestion`, `QuestionsFollowAnswers`, `AnswerIsFinal` |
| `sync_fair` | a member and a team, 3 changes, 2 posts of one thread, 2 faults, any number of runs | `NothingSkipped`, `NoPostSkipped`, `RemovedLeaves` |
| `bug_token_replaced` | 1 session, 2 tabs | violates `CollectedTokenKept` |
| `bug_lost_answer` | the instance of `meetings` | violates `AnswersAreKept` |
| `bug_value_lost` | 1 field, both crons, 1 request, edits beside jobs | violates `UserValueKept` |

Each run of a module also checks its `TypeOK` once. Deadlock is not checked where
requests are one-shot, so that the system may come to rest. The crons of
`TeamEnrichment` and the schedule of `SearchSync` never rest and their runs check
for deadlock.

Why the bounds suffice. Rows of different `appId`s share nothing, neither in the
table nor in the runner, so one `appId` is enough; two members are enough to
contest it. A request interferes with another through one row, and the
interesting orders need an old request, a newer one and a third party. In
`deploy_calm` that is a delete: three requests. In `deploy_fair` it is a dashboard,
two of them to contest one verdict; that nothing changes with a third overlapping
request is what the theorems say of its five safety properties. Two bundles tell
"this build" from "an earlier one"; one env name tells "configured" from "not".
`HelmRetries = 1` has a retry that is taken and a last one. Sessions share
nothing; two tabs and two members are needed to decide one session twice, and two
tokens to replace one. Two windows are the fewest that can evict each other, and
three lines with pages of one let a walk keep fewer lines than there are; two
streams have a cursor cross from one to the next. Enrichable
fields are independent but for the status of the document, whose write is the
same for all, so one field shows each way of losing it; one request beside two
crons and people's edits holds each copy of the document that there is. (From
`EditedInit`, `RecordedValueKept` also holds with all three faults and either two
requests or a judged field; these instances take longer and add no case.) Two items let a swap give
up one boost for another. An alert is stamped and mailed alone, so one alert and
two jobs show each overlap. Three questions are the two of a booking and a
further one. Tables share the checkpoint and nothing else: a member and a team
are one table whose refusals count and one where they do not; two posts of one
thread may be of one time, of different parts of a checkpoint, and behind each
other. A crash leaves the row as any earlier crash did, hence one per run; in the
deploy and sync runs more may follow.

## 5. Fairness

Weak fairness is assumed of:

- the steps of requests that have begun: an awaited call settles (the clients
  time out, and the edge cuts a runner call off) and the event loop runs its
  continuation. A call that never settles is a crash to everyone else;
- builds of the runner, which end with an answer or a failure;
- the clock (`Age`, `WindowPasses`): a row nobody writes gets old;
- one open dashboard, and an agent without a final answer: both poll on a timer;
- the two crons, which tick every few minutes whatever happened before;
- the dispatches, stage changes and boosts that have begun (`JobAlerts`,
  `Roadmap`);
- the schedule of the lambda and the calls of a run (`SearchSync`). The schedule
  is not in the repository; that runs come again and again is what a lambda with
  a checkpoint is for.

Nobody is assumed to approve, open a page, edit, delete, or start a request, and
any process may die at any step, up to the bounds above. `DeployingEnds`
holds only because a dashboard reads the row: in the code a stuck deploy is
settled on a read and by nothing else. `AgentHears` likewise rests on the poll,
since expiry is lazy. `RemovedLeaves` needs as many runs as it takes: documents
may be refused and runs may end early, `MaxFaults` times, which is the model's way
of saying that they do not fail for ever.

## 6. Proofs

TLAPS checks the theorems below for every value of the constants that satisfies
the assumption of the module (`Assumptions`, `ConnectAssumptions`, and so on: bounds
are naturals, `None` is none of the values it stands beside).

| Theorem | Says | Inductive invariant |
|---|---|---|
| `TypeCorrect` | `[]TypeOK` of `AiAppsDeploy` | `TypeOK` itself, since it includes `Grounded`: an active request has its row, and a bundle where one is used |
| `ReadyClean` | `[]ReadyIsClean` | with `TypeOK` |
| `TimesOutOnce` | `[]OneTimeoutVerdict` | `TimeoutInv`: also, no verdict while the row is DEPLOYING. Without it a second dashboard could add to a count of one |
| `RealShips` | `[]ShipsAreAccountedFor` | `ShipInv`: what counts as evidence of a ship. A release and a build that succeeded say that the runner has run the appId; a request past its build says that it has, or that a probe of the appId was misled |
| `ServingRefined` | `AiAppsDeploy` implements `AiAppsServing` | each write of a row is a `Ship`, a `Fall` or a stutter of its serving state; a broadcast needs `ShipInv` |
| `NamesAreStored` | `[]RecordedNamesAreStored` | `NamesInv`: the names that a request holds are stored, but for those it has still to submit; needs that the runner's store only grows |
| `BroadcastOnce` (without "overlap") | `[]AnnouncedOnce` | `OnceInv` with `ShipInv`: the request under way that believes to be the first deploy is, until it ships. It needs nothing of the runner, and holds with crashes and lost answers |
| `ReadyServesLatest`, `ReadyRunsConfigured`, `DeletedStaysDown` (`Calm`) | `[]LatestServes`, `[]ReadyHasConfig`, `[]DeletedIsTornDown` | `CalmInv`, below |
| `ClaimsRefined` (`Calm`) | `AiAppsDeploy` implements `AiAppsClaims` | `CalmInv`: a write of a row is a `Claim`, a `GiveUp` or a stutter, a step of the runner a `Run`, a `TearDown` or a stutter |
| `EnrichmentTypeCorrect` | `[]TypeOK` of `TeamEnrichment` | `TypeInv`: what every job holds of the row is of its types, and a field that it calls Enriched has its candidate (`Holds`) |
| `RecordedValuesAreKept` | `RecordedValueKept` of `TeamEnrichment`, with every fault of `Env` and any number of requests | `OnRecord` itself, field by field, with `TypeInv`: no step makes a copy of the document that forgets a recorded value (`StaysOnRecord`), and a promotion looks at the document it is about to write |
| `ConnectTypeCorrect` | `[]TypeOK` of `AiAppsConnect` | with `MinterInv` |
| `TokenNamesItsMinter` | `[]ActsAsMinter` | `MinterInv`: an APPROVED row carries the member whose approval minted its token. A DENIED row may not, which is why the guard's status check matters |
| `LogsTypeCorrect`, `CachedWalksAreCurrent`, `PagingSkipsNothing` | `[]TypeOK`, `[]CacheIsCurrent`, `[]NoGap` of `AiAppsLogs` | `IInv`: a walk that a deploy overtook is the only one of its key, with nothing cached; a cached copy ends within its stream, and what a reader has seen of a stream ends no later than any copy of it that is cached or to be had |
| `RoadmapTypeCorrect` | `[]TypeOK` of `Roadmap` | itself |
| `BudgetIsKept` (without "twotabs") | `[]BudgetKept` | `BudgetInv`: a request at its insert has room under a limit that was in force, and its member has no other |
| `FrozenItemsHoldNone` (without "racepin") | `[]FrozenHoldsNoBoost` | `FrozenInv`: the item of a request past its check is still open |
| `CommitmentsAnnouncedOnce` (without "racestage") | `[]CommittedOnce` | `OnceInv`: whom a move is to tell has not been told |
| `AlertsTypeCorrect` | `[]TypeOK` of `JobAlerts` | itself |
| `NothingIsMissed` (without "raceingest", "raceedit") | `[]NothingMissed` | `MissInv`: what an alert is owed is in the hands of every task that has read it |
| `RunsMailOnce` (without "samerun") | `[]OncePerRun` | `OnceInv`: a mail of a run is on record, or its task is about to record it |
| `FollowUpsTypeCorrect`, `CounterIsRight`, `AnswersAreFinal`, `NoQuestionIsStale`, `QuestionsMatch` | the properties of `MeetingFollowUps` | `TypeOK` and `Rows`: which rows an answer leaves, and that an adjustment stands exactly for a denied booking; sets are counted with the library's cardinality theorems |
| `SearchTypeCorrect` | `[]TypeOK` of `SearchSync` | `TypeInv`: no request has a version that is yet to come |
| `SearchSkipsNothing` | `[]NothingSkipped` | `RowInv`: what the run has read is indexed or in its request (`Seen`), and a row whose document is about to go is new if it has come back (`CameBack`) |
| `SearchSkipsNoPost` | `[]NoPostSkipped` | `PostInv`: what comes after the new checkpoint comes after the old one too, part by part (`Mixes`), so that any mixture of the two is safe |

The conditions in brackets are hypotheses of the theorem: the code does not keep
the property without them, as section 8 says.

`Calm` says that requests do not overlap or die, that the runner's answers
arrive, and that no app is deleted twice; deploys may still age, S3 and the
runner may still refuse. Each of the four is needed: TLC breaks one of the
theorems' properties when any of them is given up (section 8). `CalmInv` has four
parts. `OneAtATime`: one request is under way, and the runner builds for that one
only, so that no build lands late. `OneHolder`: one row holds an appId, and what
runs there belongs to it; the claim check alone does not give that, since it looks
at the table and not at the runner. `Served`: a READY row runs its bundle and its
configuration, but for a redeploy that has recorded more names and is about to
build. `Underway`: what the request under way knows, step by step. The names and
the database flag it read are still those of the row, the build it waits for
is its own, and once that has succeeded nobody else has replaced its release.
`NoneIsNoRelease`, an assumption of the module, keeps "nothing runs" apart from a
release.

The other proofs about `AiAppsDeploy` rest on two classifications, proved once
over all actions: `RowStep` says that a step writes at most one row, in one of a
few ways (launched, demoted, settled, touched, promoted), and `TaskStep` says
where a request may go. Each theorem then has a case for each way and not one
for each action.

## 7. Only model-checked

- Liveness: `DeployingEnds`, `AgentHears`, `EnrichmentEnds`, `JudgingEnds`,
  `OwedAreTold`, `OwedMailed`, `RemovedLeaves`. TLAPS does not reason about
  `ENABLED`.
- `CollectedTokenKept`, `AnswersAreKept` and `UserValueKept`, which the code does
  not keep (next section).
- That the hypotheses of the theorems are needed, which the instances of the next
  section show.

Every invariant of a passing run, and both refinements, are theorems too.

## 8. What the code does not keep

Three of these have a run that exhibits them, and a line of the repository that
says otherwise (`PROJECT.json`, "findings"):

- a collected token stops working before it expires, after a late expiry or a
  second verdict overwrites the approval (`bug_token_replaced`);
- a second negative answer about one booking is reported as saved and rolled
  back: the code catches the violated unique index as a no-op, but the failed
  statement has aborted the Postgres transaction (`bug_lost_answer`);
- a person's value of a team field is replaced by the AI's
  (`bug_value_lost`): the person approves it while a run is under way, the run
  writes back a document built from what it read before
  (`team-enrichment.service.ts:1405`), and the judge promotes its candidate,
  although promotion is to "never overwrite Team values the user owns"
  (`team-enrichment-promotion.ts:62`).

TLC refutes each of the following on the instance named. They are stated in the
modules, those that no run checks under "Said in the repository, and not kept"; a
`.cfg` with these values shows the trace.

**AI Apps, deploy.** `MCAiAppsDeploy`, one `appId`, `HelmRetries` 0, no readers;
one member, one bundle, no env names and no database unless said.

| Refuted | Instance | What happens |
|---|---|---|
| `ShipsAreReal` | 1 request, "timeout" | the build's answer is lost, the ingress answers the probe with its 404 before the app has a route, and the row is READY and broadcast as new with nothing ever run; `lastDeployedAt` "must strictly mean last successful ship" (line 1457) |
| `NothingOlderServes`, `LatestServes` | 2 bundles, 2 requests, "timeout" | the probe after a lost answer meets the previous release |
| `ReadyHasConfig` | 1 env name, 3 requests, "timeout" | the answer of the injection is lost, and the probe meets the unconfigured build |
| `OneBuildAtATime` | 2 requests, "overlap" | both pass the in-progress check (line 1184) before either writes |
| `ClaimHeldOnce` | 2 members, 2 requests, "overlap" | both pass the claim check (line 1176) before either creates its row |
| `AnnouncedOnce` | 2 requests, "overlap" | both read `isFirstDeploy` before either ships |
| `DeletedIsTornDown` | 2 requests, "overlap" | a delete overtakes a deploy, whose build starts the app after the teardown |
| `LatestServes` | 2 members, 4 requests, "redelete" | a DELETED app is deleted again, which tears down the app of whoever has claimed the `appId` since |
| `PreviousKeepsDatabase` | 2 bundles, every app with a database, 2 requests, no fault | a redeploy has its build released without the database and fails before the injection: "previous" is served by the new build |
| `StuckStaysStuck` | 2 requests, "overlap" and "age" | editing the metadata of a stuck deploy touches `updatedAt` and makes it fresh |

Builds that end after the API has stopped waiting for them break `LatestServes`,
`ReadyHasConfig`, `DeletedIsTornDown` and `ClaimIsGlobal` after a crash or a lost
answer too. Overlapping saves drop the name of a stored secret from the row (line
1414: the union is made from the list read before the runner call). A settle may
hit the retry of the deploy it read, whose own verdict replaces it.

**AI Apps, logs** (the instance of `logs`, one reader is enough). `CopiesAreOfLive`:
the drop comes as a deploy begins, so a walk of the previous stream may be cached
between the drop and the moment the new one is up, and outlives it, against
`ai-apps.constants.ts:173` and line 869. `OneSlice`: a cursor taken before a deploy
pages on in the new stream, against line 660. And a read that comes after a deploy
joins a walk from before it (line 742), although the comment at 851 has it walk
afresh; other API processes keep what they have cached.

**Team enrichment.** `EnrichmentEnds` with `FairSpec`, one request, no
`UserJudgable` field, no crash and "pendinglogo": a logo refetch of a pending team
leaves it pending with `shouldEnrich` false, and the cron does not find it again.
`UserValueKept` fails in other ways than that of its run: any job's late write
after an edit does ("raceedit"); and without races, by reading the code, a mark or
a logo refetch that read the document before a run ended may write it back, an
approval then takes the candidate and calls the field Enriched without setting
`isAIGenerated` (`team-enrichment.service.ts:2036`), so that a person's edit is not
recorded (line 1488). That takes four requests, an instance that TLC does not
finish in minutes. A logo refetch of a team without a row leaves it Enriched with
nothing enriched. A promotion locks the enrichment row and then the team, an edit
the other way round: the database resolves the deadlock by failing one of them.

**Roadmap** (2 items, 2 members, limits of 1, no fault).

| Refuted | Instance | What happens |
|---|---|---|
| `FrozenHoldsNoBoost` | "racepin" | an item leaves play between the check of a boost and its insert, which keeps the boost (`roadmap-pins.service.ts:42` against `roadmap.service.ts:431`, `docs/GANTRY.md:106`) |
| `BudgetKept` | 2 requests, "twotabs" | two tabs of one member both find room for one more |
| `CommittedOnce` | 2 curators, "racestage" | two people move one item and announce it twice |

A pod that dies after the commit of a move leaves the rest of those it concerns
untold (`OwedAreTold` excepts them), and `docs/GANTRY.md` has a default budget of 3
where `DEFAULT_PIN_LIMIT` is 5.

**Job alerts** (the instance of `alerts_fair` without its fault).

| Refuted | Instance | What happens |
|---|---|---|
| `NothingMissed` | "raceingest" | a posting stored while a digest is on its way is older than the stamp and never mailed |
| `NothingMissed` | "raceedit" | an alert edited meanwhile is stamped over with the old filter's matches |
| `OncePerRun` | "samerun" | one run id in use twice mails twice (`schema.prisma:2579` has one record of an alert and a run) |

Postings that an edit of the filter newly matches wait for the next ingest, and an
ingest that changes nothing refreshes `updatedAt`, so that old postings are mailed
as new.

**Office hours.** A repeated request books and counts twice (the controller has
no idempotency key), and a close that was looked up before an answer overwrites
COMPLETED with CLOSED.

**Search sync** (`README.md:4` of the lambda: it "delivers the most recent data").
A row written between its table's query and the reading of the new checkpoint is
stepped over, and stays out of date until it is written again. A team whose
document is refused counts as indexed (`indexTeams` has no early return, unlike
the other tables), and a refused document of any table is lost if another table
moves the common checkpoint; `NothingSkipped` excepts these rows (`missed`).
Deleted events are indexed like others, and a row that is gone from its table
leaves a document behind, except for teams.

## 9. Abstractions and limits

- Prisma calls are atomic and do not fail on their own; a database error in a
  request looks like its crash.
- A crash ends one request; that requests of one process die together is the
  same as several crashes.
- A decision that depends on a read is taken in the step of the read, since
  nothing but the process itself can change it before its next await.
- Permission checks, names, descriptions, notes, costs, confidence scores, audit
  rows and notification texts are left out; verdicts and AI answers are any
  subset of the fields.
- In `TeamEnrichment`, Stage 3 recovery, the nulling of a dead LinkedIn handle,
  tags, the logo image and the founding year are left out, and `Fields` stands
  for the scalar fields they do not touch. A cron slot has one background run at
  a time, and a process that dies before its first write is one that never
  started.
- In `AiAppsLogs` one API process is modelled, and a walk may find any number of
  lines, since old ones leave its window. A walk sees one stream, one that was live
  while it ran: a walk whose pages come from two is left out. Streams are bounded by
  `MaxStreams`, and a deploy may bring up two (its build, and again with its
  configuration).
- In `Roadmap`, notes, drafts, objectives, order and the notifications that
  nothing depends on are left out; a bell is counted up to two.
- In `JobAlerts`, filters are the sets of postings they match, and one batch of
  alerts stands for all; confirmation mails are left out.
- In `MeetingFollowUps`, the check and the reports of broken links, the delay
  before a question is listed, and the approval of members are left out.
- In `SearchSync`, runs do not overlap, writes have times of their own and are
  visible at them; the tables that have no document of their own are taken into
  the rows they belong to; withdrawn policies, edited and restored posts, and
  what documents hold are left out.
- Not modelled at all: the components marked so in `PROJECT.json`, each with the
  reason. The IRL pushes, demo days, MCP, notifications and the others of the
  plan have behaviour worth modelling; the rest is CRUD or pure I/O. The models
  are a small share of the repository's lines because most of these are
  controllers, queries, mail texts and React components without state of their
  own.
