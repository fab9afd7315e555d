---------------------------- MODULE AiAppsClaims ----------------------------
(***************************************************************************)
(* The appId as a global claim: at most one member holds it, the app that  *)
(* answers at its URL belongs to its holder, and the claim passes to       *)
(* another member only after the first one's app has been torn down.       *)
(***************************************************************************)
CONSTANTS Members, AppIds,
          Nobody          \* no app answers at the URL

VARIABLES holders,        \* the members holding each appId
          running         \* the member whose app answers under each appId

Init ==
  /\ holders = [a \in AppIds |-> {}]
  /\ running = [a \in AppIds |-> Nobody]

Claim(m, a) ==
  /\ holders[a] = {}
  /\ running[a] = Nobody
  /\ holders' = [holders EXCEPT ![a] = {m}]
  /\ UNCHANGED running

Run(m, a) ==
  /\ holders[a] = {m}
  /\ running' = [running EXCEPT ![a] = m]
  /\ UNCHANGED holders

TearDown(m, a) ==
  /\ holders[a] = {m}
  /\ running' = [running EXCEPT ![a] = Nobody]
  /\ UNCHANGED holders

GiveUp(m, a) ==
  /\ holders[a] = {m}
  /\ running[a] = Nobody
  /\ holders' = [holders EXCEPT ![a] = {}]
  /\ UNCHANGED running

Next ==
  \E m \in Members, a \in AppIds :
    Claim(m, a) \/ Run(m, a) \/ TearDown(m, a) \/ GiveUp(m, a)

Spec == Init /\ [][Next]_<<holders, running>>

=============================================================================
