---------------------------- MODULE AiAppsServing ---------------------------
(***************************************************************************)
(* What deployment.serving promises a reader of one app page, whatever     *)
(* requests overlap, time out or die: an app that shipped once never looks *)
(* like one that never shipped, "previous" is only reached from "latest",  *)
(* and a "new app is live" broadcast is about an app that has shipped.     *)
(***************************************************************************)
EXTENDS Naturals

CONSTANT Rows          \* the apps

VARIABLES serving,     \* "none", "previous" or "latest", for each app
          announced    \* number of broadcasts about each app

Init ==
  /\ serving = [r \in Rows |-> "none"]
  /\ announced = [r \in Rows |-> 0]

\* A deploy of r succeeds, the first one or a later one.
Ship(r) ==
  /\ serving' = [serving EXCEPT ![r] = "latest"]
  /\ UNCHANGED announced

\* The latest build no longer counts as serving; what shipped before does.
Fall(r) ==
  /\ serving[r] = "latest"
  /\ serving' = [serving EXCEPT ![r] = "previous"]
  /\ UNCHANGED announced

Broadcast(r) ==
  /\ serving[r] # "none"
  /\ announced' = [announced EXCEPT ![r] = @ + 1]
  /\ UNCHANGED serving

Next == \E r \in Rows : Ship(r) \/ Fall(r) \/ Broadcast(r)

Spec == Init /\ [][Next]_<<serving, announced>>

=============================================================================
