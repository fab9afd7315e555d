---------------------------- MODULE AiAppsConnect ---------------------------
(***************************************************************************)
(* Connect sessions and deploy tokens of AI Apps                           *)
(* (ai-apps-connect.service.ts, ai-app-token.guard.ts): an agent starts a  *)
(* session and polls it, members open its page and approve it, and the     *)
(* token minted by an approval authenticates the agent's deploys.          *)
(*                                                                         *)
(* A request is cut at its awaits: the session is read, written EXPIRED if *)
(* it is PENDING beyond its window, the permission is looked up, and the   *)
(* verdict is written by an update that names the session and nothing      *)
(* else.  Each session has one agent, whose polls are sequential, so the   *)
(* session itself names that process; Pages are the browser tabs.          *)
(*                                                                         *)
(* expiresAt and deployTokenExpiresAt are one bit each: `late` and         *)
(* `tokenLate` say that the clock has passed them.                         *)
(*                                                                         *)
(* Left out: user codes and client names, the audit rows, lastUsedAt, and  *)
(* requests about sessions that do not exist, which change nothing.        *)
(***************************************************************************)
EXTENDS Naturals

CONSTANTS
  Sessions,     \* connect sessions, and the agents that poll them
  Pages,        \* tabs open on a connect page
  Members,
  Tokens,       \* random deploy tokens; none is minted twice
  MaxCrashes,   \* bound on requests that die with their API process
  None

ASSUME ConnectAssumptions ==
  /\ Sessions \cap Pages = {}
  /\ None \notin Members \cup Tokens \cup Sessions
  /\ MaxCrashes \in Nat

Requests == Sessions \cup Pages

VARIABLES
  session,   \* the AiAppConnectSession rows
  task,      \* the request each agent or tab has under way
  writers,   \* the members with ai_apps.write
  told,      \* agents that got a final answer from a poll
  held,      \* tokens that polls have handed out
  minter,    \* history: the member whose approval minted each token
  acts,      \* history: the member each token was let in as
  crashes

vars == <<session, task, writers, told, held, minter, acts, crashes>>

Outcomes == {"ABSENT", "PENDING", "APPROVED", "DENIED", "EXPIRED"}

Row == [status : Outcomes, late : BOOLEAN, member : Members \cup {None},
        token : Tokens \cup {None}, tokenLate : BOOLEAN]

Task == [op : {"none", "poll", "show", "approve"},
         pc : {"idle", "find", "expire", "permission", "grant", "deny"},
         session : Sessions \cup {None}, member : Members \cup {None}]

NewRow == [status |-> "ABSENT", late |-> FALSE, member |-> None,
           token |-> None, tokenLate |-> FALSE]

Idle == [op |-> "none", pc |-> "idle", session |-> None, member |-> None]

\* A request under way knows its session, and an approval its member.
Grounded(req) ==
  /\ req.pc # "idle" => req.session \in Sessions
  /\ req.op = "approve" => req.member \in Members
  /\ req.pc \in {"permission", "grant", "deny"} => req.op = "approve"

TypeOK ==
  /\ session \in [Sessions -> Row]
  /\ task \in [Requests -> Task]
  /\ writers \subseteq Members
  /\ told \subseteq Sessions
  /\ held \subseteq Tokens
  /\ minter \in [Tokens -> Members \cup {None}]
  /\ acts \subseteq Tokens \X Members
  /\ crashes \in 0 .. MaxCrashes
  /\ \A q \in Requests : Grounded(task[q])
  /\ \A s \in Sessions :
       session[s].status = "APPROVED" =>
         session[s].member \in Members /\ session[s].token \in Tokens

Init ==
  /\ session = [s \in Sessions |-> NewRow]
  /\ task = [q \in Requests |-> Idle]
  /\ writers \in SUBSET Members
  /\ told = {}
  /\ held = {}
  /\ minter = [k \in Tokens |-> None]
  /\ acts = {}
  /\ crashes = 0

-----------------------------------------------------------------------------

\* Nothing is ever out of time.
Stale_Slip(row) == FALSE

\* The condition of expireIfStale.
Stale(row) == row.status = "PENDING" /\ row.late

Started == [NewRow EXCEPT !.status = "PENDING"]

Expired(row) == [row EXCEPT !.status = "EXPIRED"]

\* The denial is recorded, the status is not.
Denied_Slip(row, m) == [row EXCEPT !.member = m]

Denied(row, m) == [row EXCEPT !.status = "DENIED", !.member = m]

\* The approval is recorded before there is a token.
Granted_Slip(row, m, k) == [row EXCEPT !.status = "APPROVED", !.member = m]

Granted(row, m, k) ==
  [row EXCEPT !.status = "APPROVED", !.member = m, !.token = k,
              !.tokenLate = FALSE]

Goto(q, step) == task' = [task EXCEPT ![q].pc = step]

Finish(q) == task' = [task EXCEPT ![q] = Idle]

\* What a request does once it has read the session, or written it EXPIRED.
Continue(q, row) ==
  LET final == task[q].op = "poll" /\ row.status # "PENDING" IN
  /\ IF task[q].op = "approve" /\ row.status = "PENDING"
       THEN Goto(q, "permission") ELSE Finish(q)
  /\ told' = IF final THEN told \cup {task[q].session} ELSE told
  /\ held' = IF final /\ row.status = "APPROVED" THEN held \cup {row.token}
             ELSE held

-----------------------------------------------------------------------------

StartSession(s) ==
  /\ session[s].status = "ABSENT"
  /\ session' = [session EXCEPT ![s] = Started]
  /\ UNCHANGED <<task, writers, told, held, minter, acts, crashes>>

Begin(q, op, s, m) ==
  /\ task[q].pc = "idle"
  /\ session[s].status # "ABSENT"
  /\ task' = [task EXCEPT ![q] =
                [op |-> op, pc |-> "find", session |-> s, member |-> m]]
  /\ UNCHANGED <<session, writers, told, held, minter, acts, crashes>>

\* The agent polls until it has a final answer.
StartPoll(s) == s \notin told /\ Begin(s, "poll", s, None)

OpenPage(p, s, m) == Begin(p, "show", s, m) \/ Begin(p, "approve", s, m)

Find(q) ==
  LET row == session[task[q].session] IN
  /\ task[q].pc = "find"
  /\ IF Stale(row) THEN Goto(q, "expire") /\ UNCHANGED <<told, held>>
     ELSE Continue(q, row)
  /\ UNCHANGED <<session, writers, minter, acts, crashes>>

Expire(q) ==
  LET s == task[q].session IN
  /\ task[q].pc = "expire"
  /\ session' = [session EXCEPT ![s] = Expired(@)]
  /\ Continue(q, session'[s])
  /\ UNCHANGED <<writers, minter, acts, crashes>>

CheckPermission(q) ==
  /\ task[q].pc = "permission"
  /\ Goto(q, IF task[q].member \in writers THEN "grant" ELSE "deny")
  /\ UNCHANGED <<session, writers, told, held, minter, acts, crashes>>

Deny(q) ==
  /\ task[q].pc = "deny"
  /\ session' = [session EXCEPT ![task[q].session] = Denied(@, task[q].member)]
  /\ Finish(q)
  /\ UNCHANGED <<writers, told, held, minter, acts, crashes>>

Grant(q, k) ==
  /\ task[q].pc = "grant"
  /\ minter[k] = None
  /\ session' =
       [session EXCEPT ![task[q].session] = Granted(@, task[q].member, k)]
  /\ minter' = [minter EXCEPT ![k] = task[q].member]
  /\ Finish(q)
  /\ UNCHANGED <<writers, told, held, acts, crashes>>

\* AiAppTokenGuard lets a deploy in, in the name of the session's member.
Admit(k) ==
  \E s \in Sessions :
    /\ k \in held
    /\ session[s].token = k
    /\ session[s].status = "APPROVED"
    /\ ~session[s].tokenLate
    /\ acts' = acts \cup {<<k, session[s].member>>}
    /\ UNCHANGED <<session, task, writers, told, held, minter, crashes>>

-----------------------------------------------------------------------------
(* The clock, the administrators and the crashes of the API.               *)

WindowPasses(s) ==
  /\ session[s].status # "ABSENT"
  /\ ~session[s].late
  /\ session' = [session EXCEPT ![s].late = TRUE]
  /\ UNCHANGED <<task, writers, told, held, minter, acts, crashes>>

TokenPasses(s) ==
  /\ session[s].token # None
  /\ ~session[s].tokenLate
  /\ session' = [session EXCEPT ![s].tokenLate = TRUE]
  /\ UNCHANGED <<task, writers, told, held, minter, acts, crashes>>

ChangePermission(m) ==
  /\ writers' = IF m \in writers THEN writers \ {m} ELSE writers \cup {m}
  /\ UNCHANGED <<session, task, told, held, minter, acts, crashes>>

Crash(q) ==
  /\ task[q].pc # "idle"
  /\ crashes < MaxCrashes
  /\ crashes' = crashes + 1
  /\ Finish(q)
  /\ UNCHANGED <<session, writers, told, held, minter, acts>>

Step(q) ==
  \/ Find(q) \/ Expire(q) \/ CheckPermission(q) \/ Deny(q)
  \/ \E k \in Tokens : Grant(q, k)

Next ==
  \/ \E s \in Sessions :
       \/ StartSession(s) \/ StartPoll(s) \/ WindowPasses(s) \/ TokenPasses(s)
       \/ \E p \in Pages, m \in Members : OpenPage(p, s, m)
  \/ \E q \in Requests : Step(q) \/ Crash(q)
  \/ \E k \in Tokens : Admit(k)
  \/ \E m \in Members : ChangePermission(m)

Spec == Init /\ [][Next]_vars

-----------------------------------------------------------------------------
(* Properties.                                                             *)

\* The guard lets a deploy in under the name of the member whose own approval
\* minted the token it carries, however many tabs and members decided the same
\* session at once and whatever became of their permission in between.
ActsAsMinter == \A act \in acts : minter[act[1]] = act[2]

\* A token the agent has collected is replaced or revoked by nothing before it
\* expires ("It may redeploy until the token expires").
CollectedTokenKept ==
  [][\A s \in Sessions :
       session[s].status = "APPROVED" /\ session[s].token \in held
         /\ ~session[s].tokenLate
       => session'[s].status = "APPROVED" /\ session'[s].token = session[s].token
    ]_vars

\* Requests that started go on, the clock advances, and an agent without a
\* final answer keeps polling.  Nobody has to open the page.
Fairness ==
  /\ \A q \in Requests : WF_vars(Step(q))
  /\ \A s \in Sessions : WF_vars(StartPoll(s)) /\ WF_vars(WindowPasses(s))

FairSpec == Spec /\ Fairness

\* The agent of every session hears an outcome, also when nobody ever approves
\* and when the API dies during a poll.
AgentHears == \A s \in Sessions : session[s].status # "ABSENT" ~> s \in told

=============================================================================
