------------------------- MODULE AiAppsConnectProofs ------------------------
(***************************************************************************)
(* Proofs about AiAppsConnect: its types, and that the token guard never   *)
(* lets a deploy in under another name than the approver's.                *)
(***************************************************************************)
EXTENDS AiAppsConnect, TLAPS

\* Giving a request its next step, or ending it, keeps its type.
LEMMA GotoTask ==
  ASSUME TypeOK, NEW q \in Requests, task[q].pc # "idle",
         NEW step \in {"idle", "find", "expire", "permission", "grant", "deny"},
         step \in {"permission", "grant", "deny"} => task[q].op = "approve",
         Goto(q, step)
  PROVE  /\ task' \in [Requests -> Task]
         /\ \A u \in Requests : Grounded(task'[u])
  BY DEF TypeOK, Goto, Task, Grounded

LEMMA FinishTask ==
  ASSUME TypeOK, NEW q \in Requests, Finish(q)
  PROVE  /\ task' \in [Requests -> Task]
         /\ \A u \in Requests : Grounded(task'[u])
  BY DEF TypeOK, Finish, Task, Idle, Grounded

\* What a request does with a row of the right type keeps the types.
LEMMA ContinueType ==
  ASSUME TypeOK, NEW q \in Requests, task[q].pc # "idle",
         NEW row \in Row, row.status = "APPROVED" => row.token \in Tokens,
         Continue(q, row)
  PROVE  /\ task' \in [Requests -> Task]
         /\ \A u \in Requests : Grounded(task'[u])
         /\ told' \subseteq Sessions
         /\ held' \subseteq Tokens
<1>1. task[q].session \in Sessions /\ told \subseteq Sessions /\ held \subseteq Tokens
  BY DEF TypeOK, Grounded
<1>2. told' \subseteq Sessions /\ held' \subseteq Tokens
  BY <1>1 DEF Continue
<1>3. (task[q].op = "approve" /\ Goto(q, "permission")) \/ Finish(q)
  BY DEF Continue
<1>. QED BY <1>2, <1>3, GotoTask, FinishTask

\* Each write of a row keeps its type.
LEMMA EndedRow ==
  ASSUME NEW row \in Row, NEW m \in Members
  PROVE  /\ Expired(row) \in Row /\ Expired(row).status = "EXPIRED"
         /\ Denied(row, m) \in Row /\ Denied(row, m).status = "DENIED"
  BY DEF Row, Outcomes, Expired, Denied

LEMMA GrantedRow ==
  ASSUME NEW row \in Row, NEW m \in Members, NEW k \in Tokens
  PROVE  /\ Granted(row, m, k) \in Row
         /\ Granted(row, m, k).member = m /\ Granted(row, m, k).token = k
  BY DEF Row, Outcomes, Granted

\* Writing one row of the right type keeps what TypeOK says of the rows.
LEMMA SessionsFrame ==
  ASSUME TypeOK, NEW s \in Sessions, NEW row \in Row,
         session' = [session EXCEPT ![s] = row],
         row.status = "APPROVED" => row.member \in Members /\ row.token \in Tokens
  PROVE  /\ session' \in [Sessions -> Row]
         /\ \A z \in Sessions : session'[z].status = "APPROVED" =>
              session'[z].member \in Members /\ session'[z].token \in Tokens
  BY DEF TypeOK

\* Approvals in the table, and deploys let in, carry their minter's name.
MinterInv ==
  /\ \A s \in Sessions :
       session[s].status = "APPROVED" =>
         minter[session[s].token] = session[s].member
  /\ ActsAsMinter

Inv == TypeOK /\ MinterInv

LEMMA InvInit == ConnectAssumptions /\ Init => Inv
<1>. SUFFICES ASSUME ConnectAssumptions, Init PROVE Inv
  OBVIOUS
<1>1. NewRow \in Row /\ NewRow.status = "ABSENT" /\ Idle \in Task
  BY DEF NewRow, Row, Outcomes, Idle, Task
<1>2. TypeOK
  BY <1>1 DEF Init, TypeOK, ConnectAssumptions, Idle, Grounded
<1>3. MinterInv
  BY <1>1 DEF Init, MinterInv, ActsAsMinter
<1>. QED BY <1>2, <1>3 DEF Inv

LEMMA InvNext == ConnectAssumptions /\ Inv /\ [Next]_vars => Inv'
<1>. SUFFICES ASSUME ConnectAssumptions, TypeOK, MinterInv, [Next]_vars PROVE Inv'
  BY DEF Inv
<1>. USE DEF Requests
<1>t. /\ session \in [Sessions -> Row] /\ task \in [Requests -> Task]
      /\ minter \in [Tokens -> Members \cup {None}] /\ acts \subseteq Tokens \X Members
      /\ \A s \in Sessions : session[s].status = "APPROVED" =>
           session[s].member \in Members /\ session[s].token \in Tokens
  BY DEF TypeOK
<1>1. ASSUME NEW s \in Sessions, StartSession(s) PROVE Inv'
  <2>1. Started \in Row /\ Started.status = "PENDING"
    BY DEF Started, NewRow, Row, Outcomes
  <2>2. TypeOK'
    BY <1>1, <1>t, <2>1 DEF StartSession, TypeOK
  <2>3. MinterInv'
    BY <1>1, <1>t, <2>1 DEF StartSession, MinterInv, ActsAsMinter
  <2>. QED BY <2>2, <2>3 DEF Inv
<1>2. ASSUME NEW q \in Requests, NEW s \in Sessions, NEW m \in Members \cup {None},
             NEW op \in {"poll", "show", "approve"},
             op = "approve" => m \in Members, Begin(q, op, s, m)
      PROVE  Inv'
  <2>1. TypeOK'
    BY <1>2, <1>t DEF Begin, TypeOK, Task, Grounded
  <2>2. MinterInv'
    BY <1>2 DEF Begin, MinterInv, ActsAsMinter
  <2>. QED BY <2>1, <2>2 DEF Inv
<1>3. ASSUME NEW q \in Requests, Find(q) PROVE Inv'
  <2>. DEFINE row == session[task[q].session]
  <2>1. task[q].pc # "idle" /\ task[q].session \in Sessions
    BY <1>3 DEF Find, TypeOK, Grounded
  <2>2. row \in Row /\ (row.status = "APPROVED" => row.token \in Tokens)
    BY <1>t, <2>1
  <2>3. /\ task' \in [Requests -> Task]
        /\ \A u \in Requests : Grounded(task'[u])
        /\ told' \subseteq Sessions
        /\ held' \subseteq Tokens
    <3>1. CASE Goto(q, "expire") /\ UNCHANGED <<told, held>>
      BY <3>1, <2>1, GotoTask DEF TypeOK
    <3>2. CASE Continue(q, row)
      BY <3>2, <2>1, <2>2, ContinueType
    <3>. QED BY <1>3, <3>1, <3>2 DEF Find
  <2>4. TypeOK'
    BY <1>3, <2>3 DEF Find, TypeOK
  <2>5. MinterInv'
    BY <1>3 DEF Find, MinterInv, ActsAsMinter
  <2>. QED BY <2>4, <2>5 DEF Inv
<1>4. ASSUME NEW q \in Requests, Expire(q) PROVE Inv'
  <2>. DEFINE s == task[q].session
              row == Expired(session[s])
  <2>1. task[q].pc # "idle" /\ s \in Sessions
    BY <1>4 DEF Expire, TypeOK, Grounded
  <2>2. row \in Row /\ row.status = "EXPIRED"
    BY <1>t, <2>1 DEF Row, Outcomes, Expired
  <2>3. session' = [session EXCEPT ![s] = row] /\ Continue(q, row)
    BY <1>4, <1>t, <2>1 DEF Expire
  <2>. HIDE DEF row
  <2>4. /\ task' \in [Requests -> Task]
        /\ \A u \in Requests : Grounded(task'[u])
        /\ told' \subseteq Sessions
        /\ held' \subseteq Tokens
    BY <2>1, <2>2, <2>3, ContinueType
  <2>5. TypeOK'
    BY <1>4, <2>1, <2>2, <2>3, <2>4, SessionsFrame DEF Expire, TypeOK
  <2>6. MinterInv'
    BY <1>4, <1>t, <2>1, <2>2, <2>3 DEF Expire, MinterInv, ActsAsMinter
  <2>. QED BY <2>5, <2>6 DEF Inv
<1>5. ASSUME NEW q \in Requests, CheckPermission(q) PROVE Inv'
  <2>1. TypeOK'
    BY <1>5, GotoTask DEF CheckPermission, TypeOK, Grounded
  <2>2. MinterInv'
    BY <1>5 DEF CheckPermission, MinterInv, ActsAsMinter
  <2>. QED BY <2>1, <2>2 DEF Inv
<1>6. ASSUME NEW q \in Requests, Deny(q) PROVE Inv'
  <2>. DEFINE s == task[q].session
              row == Denied(session[s], task[q].member)
  <2>1. task[q].pc # "idle" /\ s \in Sessions /\ task[q].member \in Members
    BY <1>6 DEF Deny, TypeOK, Grounded
  <2>2. row \in Row /\ row.status = "DENIED"
    BY <1>t, <2>1, EndedRow
  <2>3. session' = [session EXCEPT ![s] = row] /\ Finish(q)
    BY <1>6, <1>t, <2>1 DEF Deny
  <2>. HIDE DEF row
  <2>4. TypeOK'
    BY <1>6, <1>t, <2>1, <2>2, <2>3, FinishTask DEF Deny, TypeOK
  <2>5. MinterInv'
    BY <1>6, <1>t, <2>1, <2>2, <2>3 DEF Deny, MinterInv, ActsAsMinter
  <2>. QED BY <2>4, <2>5 DEF Inv
<1>7. ASSUME NEW q \in Requests, NEW k \in Tokens, Grant(q, k) PROVE Inv'
  <2>. DEFINE s == task[q].session
              m == task[q].member
              row == Granted(session[s], m, k)
  <2>1. task[q].pc # "idle" /\ s \in Sessions /\ m \in Members
    BY <1>7 DEF Grant, TypeOK, Grounded
  <2>2. row \in Row /\ row.member = m /\ row.token = k
    BY <1>t, <2>1, GrantedRow
  <2>3. /\ session' = [session EXCEPT ![s] = row] /\ Finish(q)
        /\ minter' = [minter EXCEPT ![k] = m] /\ minter[k] = None
    BY <1>7, <1>t, <2>1 DEF Grant
  <2>. HIDE DEF row, m, s
  <2>4. TypeOK'
    <3>1. /\ session' \in [Sessions -> Row]
          /\ \A z \in Sessions : session'[z].status = "APPROVED" =>
               session'[z].member \in Members /\ session'[z].token \in Tokens
      BY <2>1, <2>2, <2>3, SessionsFrame
    <3>2. minter' \in [Tokens -> Members \cup {None}]
      BY <1>t, <2>1, <2>3
    <3>. QED BY <1>7, <2>3, <3>1, <3>2, FinishTask DEF Grant, TypeOK
  <2>5. \A z \in Sessions : session[z].status = "APPROVED" => session[z].token # k
    BY <1>t, <2>3 DEF MinterInv, ConnectAssumptions
  <2>6. \A act \in acts : act[1] # k /\ act[1] \in Tokens
    BY <1>t, <2>3 DEF MinterInv, ActsAsMinter, ConnectAssumptions
  <2>7. \A z \in Sessions :
          session'[z].status = "APPROVED" =>
            minter'[session'[z].token] = session'[z].member
    BY <1>t, <2>1, <2>2, <2>3, <2>5 DEF MinterInv
  <2>8. ActsAsMinter'
    BY <1>7, <1>t, <2>3, <2>6 DEF Grant, MinterInv, ActsAsMinter
  <2>. QED BY <2>4, <2>7, <2>8 DEF Inv, MinterInv
<1>8. ASSUME NEW k \in Tokens, Admit(k) PROVE Inv'
  <2>1. PICK s \in Sessions :
          /\ session[s].token = k /\ session[s].status = "APPROVED"
          /\ acts' = acts \cup {<<k, session[s].member>>}
    BY <1>8 DEF Admit
  <2>2. minter[k] = session[s].member /\ session[s].member \in Members
    BY <1>t, <2>1 DEF MinterInv
  <2>3. TypeOK'
    BY <1>8, <1>t, <2>1, <2>2 DEF Admit, TypeOK
  <2>4. MinterInv'
    BY <1>8, <2>1, <2>2 DEF Admit, MinterInv, ActsAsMinter
  <2>. QED BY <2>3, <2>4 DEF Inv
<1>9. ASSUME NEW s \in Sessions, WindowPasses(s) \/ TokenPasses(s) PROVE Inv'
  <2>. DEFINE row == session'[s]
  <2>1. /\ row \in Row /\ row.status = session[s].status
        /\ row.token = session[s].token /\ row.member = session[s].member
        /\ session' = [session EXCEPT ![s] = row]
    <3>1. session[s] \in Row
      BY <1>t
    <3>2. CASE WindowPasses(s)
      <4>1. row = [session[s] EXCEPT !.late = TRUE]
        BY <3>2, <1>t DEF WindowPasses
      <4>2. session' = [session EXCEPT ![s] = row]
        BY <3>2, <1>t, <4>1 DEF WindowPasses
      <4>. HIDE DEF row
      <4>. QED BY <3>1, <4>1, <4>2 DEF Row
    <3>3. CASE TokenPasses(s)
      <4>1. row = [session[s] EXCEPT !.tokenLate = TRUE]
        BY <3>3, <1>t DEF TokenPasses
      <4>2. session' = [session EXCEPT ![s] = row]
        BY <3>3, <1>t, <4>1 DEF TokenPasses
      <4>. HIDE DEF row
      <4>. QED BY <3>1, <4>1, <4>2 DEF Row
    <3>. QED BY <1>9, <3>2, <3>3
  <2>2. UNCHANGED <<task, writers, told, held, minter, acts, crashes>>
    BY <1>9 DEF WindowPasses, TokenPasses
  <2>. HIDE DEF row
  <2>3. TypeOK'
    BY <1>t, <2>1, <2>2 DEF TypeOK
  <2>4. MinterInv'
    BY <1>t, <2>1, <2>2 DEF MinterInv, ActsAsMinter
  <2>. QED BY <2>3, <2>4 DEF Inv
<1>10. ASSUME NEW m \in Members, ChangePermission(m) PROVE Inv'
  <2>1. TypeOK'
    BY <1>10 DEF ChangePermission, TypeOK
  <2>2. MinterInv'
    BY <1>10 DEF ChangePermission, MinterInv, ActsAsMinter
  <2>. QED BY <2>1, <2>2 DEF Inv
<1>11. ASSUME NEW q \in Requests, Crash(q) PROVE Inv'
  <2>1. TypeOK'
    BY <1>11, FinishTask DEF Crash, TypeOK, ConnectAssumptions
  <2>2. MinterInv'
    BY <1>11 DEF Crash, MinterInv, ActsAsMinter
  <2>. QED BY <2>1, <2>2 DEF Inv
<1>12. CASE UNCHANGED vars
  <2>1. TypeOK'
    BY <1>12 DEF vars, TypeOK
  <2>2. MinterInv'
    BY <1>12 DEF vars, MinterInv, ActsAsMinter
  <2>. QED BY <2>1, <2>2 DEF Inv
<1>13. ASSUME NEW s \in Sessions, StartPoll(s) PROVE Inv'
  BY <1>13, <1>2 DEF StartPoll
<1>14. ASSUME NEW s \in Sessions, NEW p \in Pages, NEW m \in Members, OpenPage(p, s, m)
       PROVE  Inv'
  BY <1>14, <1>2 DEF OpenPage
<1>15. ASSUME NEW q \in Requests, Step(q) PROVE Inv'
  BY <1>15, <1>3, <1>4, <1>5, <1>6, <1>7 DEF Step
<1>. QED
  BY <1>1, <1>8, <1>9, <1>10, <1>11, <1>12, <1>13, <1>14, <1>15 DEF Next

-----------------------------------------------------------------------------

\* The invariant holds in every reachable state.
LEMMA InvHolds == ConnectAssumptions /\ Spec => []Inv
<1>. SUFFICES ASSUME ConnectAssumptions PROVE Spec => []Inv
  OBVIOUS
<1>. QED BY InvInit, InvNext, PTL DEF Spec

\* Sessions, requests and tokens stay in their types, for any number of them.
THEOREM ConnectTypeCorrect == Spec => []TypeOK
  BY ConnectAssumptions, InvHolds, PTL DEF Inv

\* AiAppTokenGuard lets a deploy in under its token's approver, whatever requests
\* overlap, however the members' permissions change and wherever the API dies.
THEOREM TokenNamesItsMinter == Spec => []ActsAsMinter
  BY ConnectAssumptions, InvHolds, PTL DEF Inv, MinterInv

=============================================================================
