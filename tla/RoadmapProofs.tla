---------------------------- MODULE RoadmapProofs ---------------------------
(***************************************************************************)
(* Proofs about Roadmap, for any number of items, members and requests:    *)
(* its types, the budget of boosts, that only items in play hold boosts,   *)
(* and that a commitment is announced once.                                *)
(***************************************************************************)
EXTENDS Roadmap, FiniteSetTheorems, TLAPS

\* A request under way is somebody's and about an item.
WellFormed ==
  /\ \A t \in Requests : tab[t].pc # "idle" =>
       tab[t].member \in Members /\ tab[t].item \in Items
  /\ \A c \in Curators : move[c].pc # "idle" => move[c].item \in Items

Base == TypeOK /\ WellFormed

\* Writing a request of the right type keeps what Base says of requests.
LEMMA TabFrame ==
  ASSUME Base, NEW t \in Requests, NEW r \in Tab,
         r.pc # "idle" => r.member \in Members /\ r.item \in Items,
         tab' = [tab EXCEPT ![t] = r]
  PROVE  /\ tab' \in [Requests -> Tab]
         /\ \A u \in Requests : tab'[u].pc # "idle" =>
              tab'[u].member \in Members /\ tab'[u].item \in Items
  BY DEF Base, TypeOK, WellFormed

LEMMA MoveFrame ==
  ASSUME Base, NEW c \in Curators, NEW r \in Move,
         r.pc # "idle" => r.item \in Items,
         move' = [move EXCEPT ![c] = r]
  PROVE  /\ move' \in [Curators -> Move]
         /\ \A d \in Curators : move'[d].pc # "idle" => move'[d].item \in Items
  BY DEF Base, TypeOK, WellFormed

LEMMA Idle == NoTab \in Tab /\ NoTab.pc = "idle" /\ NoMove \in Move /\ NoMove.pc = "idle"
<1>1. NoTab \in Tab /\ NoTab.pc = "idle"
  BY RoadmapAssumptions DEF NoTab, Tab
<1>2. NoMove \in Move /\ NoMove.pc = "idle"
  BY DEF NoMove, Move, AllStages
<1>. QED BY <1>1, <1>2

LEMMA RefusedBase ==
  ASSUME Base, NEW t \in Requests, Refused(t)
  PROVE  /\ tab' \in [Requests -> Tab]
         /\ \A u \in Requests : tab'[u].pc # "idle" =>
              tab'[u].member \in Members /\ tab'[u].item \in Items
  BY TabFrame, Idle DEF Refused

LEMMA MovedBase ==
  ASSUME Base, NEW c \in Curators, Moved(c)
  PROVE  /\ move' \in [Curators -> Move]
         /\ \A d \in Curators : move'[d].pc # "idle" => move'[d].item \in Items
  BY MoveFrame, Idle DEF Moved

\* Giving a request its next step keeps its type.
LEMMA TabStepBase ==
  ASSUME Base, NEW t \in Requests, tab[t].pc # "idle",
         NEW step \in {"item", "spend", "insert"},
         tab' = [tab EXCEPT ![t].pc = step]
  PROVE  /\ tab' \in [Requests -> Tab]
         /\ \A u \in Requests : tab'[u].pc # "idle" =>
              tab'[u].member \in Members /\ tab'[u].item \in Items
  BY DEF Base, TypeOK, WellFormed, Tab

LEMMA MoveStepBase ==
  ASSUME Base, NEW c \in Curators, move[c].pc # "idle",
         NEW step \in {"list", "commit", "check", "boosters", "author"},
         NEW tell \in SUBSET Members,
         move' = [move EXCEPT ![c].pc = step, ![c].tell = tell]
  PROVE  /\ move' \in [Curators -> Move]
         /\ \A d \in Curators : move'[d].pc # "idle" => move'[d].item \in Items
<1>. DEFINE r == [move[c] EXCEPT !.pc = step, !.tell = tell]
<1>1. move[c] \in Move /\ move[c].item \in Items
  BY DEF Base, TypeOK, WellFormed
<1>2. r \in Move /\ r.item = move[c].item
  BY <1>1 DEF Move
<1>3. move' = [move EXCEPT ![c] = r]
  BY DEF Base, TypeOK
<1>. HIDE DEF r
<1>. QED BY <1>1, <1>2, <1>3, MoveFrame

\* One more notification keeps the type of what is stored.
LEMMA BellBase ==
  ASSUME bell \in [Items -> Bell], NEW i \in Items
  PROVE  /\ [bell EXCEPT ![i].shipped = More(@)] \in [Items -> Bell]
         /\ [bell EXCEPT ![i].progress = More(@)] \in [Items -> Bell]
         /\ \A m \in Members :
              [bell EXCEPT ![i].boost[m] = More(@)] \in [Items -> Bell]
<1>1. \A n \in 0 .. TooMany : More(n) \in 0 .. TooMany
  BY DEF More, TooMany
<1>2. bell[i] \in Bell
  OBVIOUS
<1>3. /\ [bell[i] EXCEPT !.shipped = More(@)] \in Bell
      /\ [bell[i] EXCEPT !.progress = More(@)] \in Bell
  BY <1>1, <1>2 DEF Bell
<1>4. \A m \in Members : [bell[i] EXCEPT !.boost[m] = More(@)] \in Bell
  BY <1>1, <1>2 DEF Bell
<1>. QED BY <1>3, <1>4

-----------------------------------------------------------------------------

LEMMA BaseInit == Init => Base
<1>. SUFFICES ASSUME Init PROVE Base
  OBVIOUS
<1>1. NoBell \in Bell
  BY DEF NoBell, Bell, TooMany
<1>2. item \in [Items -> Item]
  BY DEF Init, Item
<1>. QED BY <1>1, <1>2, Idle, RoadmapAssumptions DEF Init, Base, TypeOK, WellFormed

LEMMA TabStepKeepsBase ==
  ASSUME Base, NEW t \in Requests, TabStep(t)
  PROVE  Base'
<1>1. CASE ReadItem(t)
  <2>1. tab' \in [Requests -> Tab]
        /\ \A u \in Requests : tab'[u].pc # "idle" =>
              tab'[u].member \in Members /\ tab'[u].item \in Items
    BY <1>1, RefusedBase, TabStepBase DEF ReadItem
  <2>. QED BY <1>1, <2>1 DEF ReadItem, Base, TypeOK, WellFormed
<1>2. CASE SpendBoost(t)
  <2>1. tab' \in [Requests -> Tab]
        /\ \A u \in Requests : tab'[u].pc # "idle" =>
              tab'[u].member \in Members /\ tab'[u].item \in Items
    BY <1>2, RefusedBase, TabStepBase DEF SpendBoost
  <2>. QED BY <1>2, <2>1 DEF SpendBoost, Base, TypeOK, WellFormed
<1>3. CASE InsertPin(t)
  <2>1. tab' \in [Requests -> Tab]
        /\ \A u \in Requests : tab'[u].pc # "idle" =>
              tab'[u].member \in Members /\ tab'[u].item \in Items
    BY <1>3, RefusedBase DEF InsertPin
  <2>2. active' \subseteq Items \X Members
    BY <1>3 DEF InsertPin, Base, TypeOK, WellFormed
  <2>. QED BY <1>3, <2>1, <2>2 DEF InsertPin, Base, TypeOK, WellFormed
<1>. QED BY <1>1, <1>2, <1>3 DEF TabStep

LEMMA MoveStepKeepsBase ==
  ASSUME Base, NEW c \in Curators, MoveStep(c)
  PROVE  Base'
<1>. DEFINE Kept == /\ move' \in [Curators -> Move]
                    /\ \A d \in Curators :
                         move'[d].pc # "idle" => move'[d].item \in Items
<1>0. /\ move[c] \in Move /\ move[c].tell \subseteq Members
      /\ move[c].pc # "idle" => move[c].item \in Items
      /\ bell \in [Items -> Bell]
  BY DEF Base, TypeOK, WellFormed, Move
<1>1. CASE ListBoosts(c)
  <2>1. Kept
    <3>. DEFINE tell == BoostersOf(move[c].item)
    <3>1. move' = [move EXCEPT ![c].pc = "commit", ![c].tell = tell]
      BY <1>1 DEF ListBoosts
    <3>2. tell \in SUBSET Members /\ move[c].pc # "idle"
      BY <1>1 DEF ListBoosts, BoostersOf
    <3>. HIDE DEF tell
    <3>. QED BY <3>1, <3>2, MoveStepBase
  <2>. QED BY <1>1, <2>1 DEF ListBoosts, Base, TypeOK, WellFormed
<1>2. CASE CommitMove(c)
  <2>. DEFINE i == move[c].item
  <2>1. i \in Items
    BY <1>0, <1>2 DEF CommitMove
  <2>2. Kept
    <3>1. CASE Moved(c)
      BY <3>1, MovedBase
    <3>2. CASE move' = [move EXCEPT ![c].pc = "check"]
      BY <3>2, <1>2 DEF CommitMove, Base, TypeOK, WellFormed, Move
    <3>. QED BY <3>1, <3>2, <1>2 DEF CommitMove
  <2>3. item' \in [Items -> Item]
    <3>1. item[i] \in Item
      BY <2>1 DEF Base, TypeOK
    <3>2. /\ [item[i] EXCEPT !.archived = TRUE] \in Item
          /\ move[c].to # "ARCHIVED" => [item[i] EXCEPT !.stage = move[c].to] \in Item
      BY <3>1, <1>0 DEF Item, Move
    <3>. QED BY <3>2, <2>1, <1>2 DEF CommitMove, Base, TypeOK
  <2>4. active' \subseteq Items \X Members
    BY <1>2 DEF CommitMove, Released, Base, TypeOK
  <2>5. owed' \in [Items -> SUBSET Members]
    <3>1. Owed(c) \subseteq Members
      BY <2>1, RoadmapAssumptions DEF Owed, BoostersOf
    <3>. QED BY <3>1, <2>1, <1>2 DEF CommitMove, Base, TypeOK
  <2>. QED BY <1>2, <2>2, <2>3, <2>4, <2>5 DEF CommitMove, Base, TypeOK, WellFormed
<1>3. CASE CheckBells(c)
  <2>1. Kept
    <3>1. CASE Moved(c)
      BY <3>1, MovedBase
    <3>2. CASE ~Moved(c)
      <4>. DEFINE tell == IF move[c].to = "IN_PROGRESS"
                          THEN move[c].tell \ {Author[move[c].item]} ELSE {}
      <4>1. move' = [move EXCEPT ![c].pc = "boosters", ![c].tell = tell]
        BY <1>3, <3>2 DEF CheckBells
      <4>2. tell \in SUBSET Members /\ move[c].pc # "idle"
        BY <1>0, <1>3 DEF CheckBells
      <4>. HIDE DEF tell
      <4>. QED BY <4>1, <4>2, MoveStepBase
    <3>. QED BY <3>1, <3>2
  <2>. QED BY <1>3, <2>1 DEF CheckBells, Base, TypeOK, WellFormed
<1>4. ASSUME NEW m \in Members, TellBooster(c, m) PROVE Base'
  <2>1. bell' \in [Items -> Bell]
    BY <1>0, <1>4, BellBase DEF TellBooster
  <2>2. Kept
    BY <1>0, <1>4 DEF TellBooster, Base, TypeOK, WellFormed, Move
  <2>. QED BY <1>4, <2>1, <2>2 DEF TellBooster, Base, TypeOK, WellFormed
<1>5. ASSUME NEW m \in Members, LoseBooster(c, m) PROVE Base'
  <2>1. Kept
    BY <1>0, <1>5 DEF LoseBooster, Base, TypeOK, WellFormed, Move
  <2>2. faults' \in 0 .. MaxFaults
    BY <1>5, RoadmapAssumptions DEF LoseBooster, Base, TypeOK
  <2>. QED BY <1>5, <2>1, <2>2 DEF LoseBooster, Base, TypeOK, WellFormed
<1>6. CASE BoostersTold(c)
  <2>1. Kept
    <3>1. CASE Moved(c)
      BY <3>1, MovedBase
    <3>2. CASE move' = [move EXCEPT ![c].pc = "author"]
      BY <3>2, <1>6 DEF BoostersTold, Base, TypeOK, WellFormed, Move
    <3>. QED BY <3>1, <3>2, <1>6 DEF BoostersTold
  <2>. QED BY <1>6, <2>1 DEF BoostersTold, Base, TypeOK, WellFormed
<1>7. CASE TellAuthor(c)
  <2>1. bell' \in [Items -> Bell]
    BY <1>0, <1>7, BellBase DEF TellAuthor
  <2>2. Kept
    BY <1>7, MovedBase DEF TellAuthor
  <2>. QED BY <1>7, <2>1, <2>2 DEF TellAuthor, Base, TypeOK, WellFormed
<1>. QED BY <1>1, <1>2, <1>3, <1>4, <1>5, <1>6, <1>7 DEF MoveStep

LEMMA BaseNext == Base /\ [Next]_vars => Base'
<1>. SUFFICES ASSUME Base, [Next]_vars PROVE Base'
  OBVIOUS
<1>1. ASSUME NEW i \in Items, NEW stage \in Moves[i] \cap AllStages,
             CreateItem(i, stage)
      PROVE  Base'
  <2>1. item' \in [Items -> Item]
    BY <1>1 DEF CreateItem, Base, TypeOK, Item
  <2>. QED BY <1>1, <2>1 DEF CreateItem, Base, TypeOK, WellFormed
<1>2. ASSUME NEW n \in 0 .. MaxLimit, UpdateSettings(n) PROVE Base'
  BY <1>2 DEF UpdateSettings, Base, TypeOK, WellFormed
<1>3. ASSUME NEW t \in Requests, NEW m \in Members, NEW i \in Items,
             NEW s \in (Items \ {i}) \cup {NoItem}, StartBoost(t, m, i, s)
      PROVE  Base'
  <2>. DEFINE r == [pc |-> "item", member |-> m, item |-> i, swap |-> s,
                    limit |-> limit]
  <2>1. r \in Tab
    BY DEF Base, TypeOK, Tab
  <2>2. r.member = m /\ r.item = i /\ tab' = [tab EXCEPT ![t] = r]
    BY <1>3 DEF StartBoost
  <2>. HIDE DEF r
  <2>3. /\ tab' \in [Requests -> Tab]
        /\ \A u \in Requests : tab'[u].pc # "idle" =>
             tab'[u].member \in Members /\ tab'[u].item \in Items
    BY <2>1, <2>2, TabFrame
  <2>. QED BY <1>3, <2>3 DEF StartBoost, Base, TypeOK, WellFormed
<1>4. ASSUME NEW t \in Requests, TabStep(t) PROVE Base'
  BY <1>4, TabStepKeepsBase
<1>5. ASSUME NEW i \in Items, NEW m \in Members, UnpinItem(i, m) PROVE Base'
  BY <1>5 DEF UnpinItem, Base, TypeOK, WellFormed
<1>6. ASSUME NEW c \in Curators, NEW i \in Items, NEW to \in Moves[i],
             StartMove(c, i, to)
      PROVE  Base'
  <2>. DEFINE r == [NoMove EXCEPT !.pc = "list", !.item = i,
                                  !.from = item[i].stage, !.to = to]
  <2>1. to \in AllStages \cup {"ARCHIVED"} /\ item[i].stage \in AllStages \cup {"none"}
    BY RoadmapAssumptions DEF Base, TypeOK, Item
  <2>2. r \in Move /\ r.item = i
    BY <2>1 DEF Move, NoMove
  <2>3. move' = [move EXCEPT ![c] = r]
    BY <1>6 DEF StartMove
  <2>. HIDE DEF r
  <2>4. /\ move' \in [Curators -> Move]
        /\ \A d \in Curators : move'[d].pc # "idle" => move'[d].item \in Items
    BY <2>2, <2>3, MoveFrame
  <2>. QED BY <1>6, <2>4 DEF StartMove, Base, TypeOK, WellFormed
<1>7. ASSUME NEW c \in Curators, MoveStep(c) PROVE Base'
  BY <1>7, MoveStepKeepsBase
<1>8. ASSUME NEW c \in Curators, Stop(c) PROVE Base'
  <2>1. faults' \in 0 .. MaxFaults
    BY <1>8, RoadmapAssumptions DEF Stop, Base, TypeOK
  <2>. QED BY <1>8, <2>1, MovedBase DEF Stop, Base, TypeOK, WellFormed
<1>9. CASE UNCHANGED vars
  BY <1>9 DEF vars, Base, TypeOK, WellFormed
<1>. QED BY <1>1, <1>2, <1>3, <1>4, <1>5, <1>6, <1>7, <1>8, <1>9 DEF Next

LEMMA BaseHolds == Spec => []Base
  BY BaseInit, BaseNext, PTL DEF Spec

\* Items, boosts, notifications and requests stay in their types, whatever
\* boosts, moves and settings overlap (roadmap.service.ts, roadmap-pins.service.ts).
THEOREM RoadmapTypeCorrect == Spec => []TypeOK
  BY BaseHolds, PTL DEF Base

-----------------------------------------------------------------------------
(* The budget.                                                             *)

\* A request that is to insert its pin has found room for it under a limit
\* that was in force; no other request of the member can take the room.
BudgetInv ==
  /\ limit <= top
  /\ \A t \in Requests : tab[t].limit <= top
  /\ \A t, u \in Requests :
       t # u /\ tab[t].member \in Members => tab[t].member # tab[u].member
  /\ BudgetKept
  /\ \A t \in Requests : tab[t].pc = "insert" =>
       Affordable(tab[t].member, tab[t].swap, top)

LEMMA CountOfPart ==
  ASSUME NEW S, NEW T \in SUBSET S, IsFiniteSet(S)
  PROVE  /\ Cardinality(S) \in Nat /\ Cardinality(T) \in Nat
         /\ Cardinality(T) <= Cardinality(S)
  BY FS_Subset, FS_CardinalityType

LEMMA BoostsFinite ==
  ASSUME NEW m
  PROVE  /\ IsFiniteSet(BoostsOf(m)) /\ Cardinality(BoostsOf(m)) \in Nat
         /\ \A s : /\ IsFiniteSet(BoostsOf(m) \ {s})
                   /\ Cardinality(BoostsOf(m) \ {s}) \in Nat
<1>1. BoostsOf(m) \in SUBSET Items /\ \A s : BoostsOf(m) \ {s} \in SUBSET Items
  BY DEF BoostsOf
<1>. QED BY <1>1, FS_Subset, FS_CardinalityType, RoadmapAssumptions

\* Withdrawn and released boosts only make room.
LEMMA Shrinks ==
  ASSUME active' \subseteq active, NEW m
  PROVE  /\ Cardinality(BoostsOf(m)') \in Nat
         /\ Cardinality(BoostsOf(m)') <= Cardinality(BoostsOf(m))
         /\ \A s : /\ Cardinality(BoostsOf(m)' \ {s}) \in Nat
                   /\ Cardinality(BoostsOf(m)' \ {s}) <= Cardinality(BoostsOf(m) \ {s})
<1>1. BoostsOf(m)' \in SUBSET BoostsOf(m)
  BY DEF BoostsOf
<1>2. \A s : BoostsOf(m)' \ {s} \in SUBSET (BoostsOf(m) \ {s})
  BY <1>1
<1>. QED BY <1>1, <1>2, CountOfPart, BoostsFinite

LEMMA Wider ==
  ASSUME NEW m, NEW s, NEW n \in Nat, NEW k \in Nat, n <= k, Affordable(m, s, n)
  PROVE  Affordable(m, s, k)
<1>1. Cardinality(BoostsOf(m) \ {s}) \in Nat
  BY BoostsFinite
<1>. QED BY <1>1 DEF Affordable

\* Steps that leave requests and limits alone and add no boost keep the budget.
LEMMA BudgetFrame ==
  ASSUME Base, BudgetInv, active' \subseteq active, UNCHANGED <<limit, top, tab>>
  PROVE  BudgetInv'
<1>. top \in Nat /\ top' = top
  BY DEF Base, TypeOK
<1>1. BudgetKept'
  BY Shrinks, BoostsFinite DEF BudgetInv, BudgetKept
<1>2. ASSUME NEW t \in Requests, tab'[t].pc = "insert"
      PROVE  Affordable(tab[t].member, tab[t].swap, top)'
  <2>. DEFINE m == tab[t].member
              s == tab[t].swap
  <2>1. Cardinality(BoostsOf(m) \ {s}) < top
    BY <1>2 DEF BudgetInv, Affordable
  <2>2. Cardinality(BoostsOf(m)' \ {s}) <= Cardinality(BoostsOf(m) \ {s})
        /\ Cardinality(BoostsOf(m)' \ {s}) \in Nat
    BY Shrinks
  <2>3. Cardinality(BoostsOf(m)' \ {s}) < top
    BY <2>1, <2>2, BoostsFinite
  <2>. QED BY <2>3 DEF Affordable, BoostsOf
<1>. QED BY <1>1, <1>2 DEF BudgetInv

\* A request that ends, or goes on to another step than its insert, too.
LEMMA BudgetTab ==
  ASSUME Base, BudgetInv, NEW t \in Requests, NEW r \in Tab,
         tab' = [tab EXCEPT ![t] = r],
         r.limit <= top,
         r.member \in Members => \A u \in Requests : u # t => tab[u].member # r.member,
         r.pc = "insert" => Affordable(r.member, r.swap, top),
         UNCHANGED <<active, limit, top>>
  PROVE  BudgetInv'
<1>. tab \in [Requests -> Tab] /\ tab' \in [Requests -> Tab]
  BY DEF Base, TypeOK
<1>1. \A u \in Requests : tab'[u] = IF u = t THEN r ELSE tab[u]
  OBVIOUS
<1>2. BudgetKept' /\ (limit <= top)'
  BY DEF BudgetInv, BudgetKept, BoostsOf
<1>3. \A u \in Requests : tab'[u].limit <= top'
  BY <1>1 DEF BudgetInv
<1>4. \A u, v \in Requests :
        u # v /\ tab'[u].member \in Members => tab'[u].member # tab'[v].member
  BY <1>1 DEF BudgetInv
<1>5. \A u \in Requests : tab'[u].pc = "insert" =>
        Affordable(tab'[u].member, tab'[u].swap, top)
  BY <1>1 DEF BudgetInv
<1>6. \A m, s : Affordable(m, s, top) <=> Affordable(m, s, top)'
  BY DEF Affordable, BoostsOf
<1>. QED BY <1>2, <1>3, <1>4, <1>5, <1>6 DEF BudgetInv, Affordable, BoostsOf

LEMMA BudgetRefused ==
  ASSUME Base, BudgetInv, NEW t \in Requests, Refused(t),
         UNCHANGED <<active, limit, top>>
  PROVE  BudgetInv'
<1>1. top \in Nat
  BY DEF Base, TypeOK
<1>2. NoTab.limit <= top /\ NoTab.member \notin Members
  BY <1>1, RoadmapAssumptions DEF NoTab
<1>3. NoTab \in Tab /\ NoTab.pc # "insert" /\ tab' = [tab EXCEPT ![t] = NoTab]
  BY Idle DEF Refused
<1>. HIDE DEF NoTab
<1>. QED BY <1>2, <1>3, BudgetTab

\* The insert fills the room that the count found.
LEMMA BudgetInsert ==
  ASSUME Base, BudgetInv, NEW t \in Requests, InsertPin(t)
  PROVE  BudgetInv'
<1>0. PICK m \in Members, i \in Items, s \in Items \cup {NoItem} :
        m = tab[t].member /\ i = tab[t].item /\ s = tab[t].swap
  BY DEF InsertPin, Base, TypeOK, WellFormed, Tab
<1>. DEFINE left == BoostsOf(m) \ {s}
<1>1. /\ tab[t].pc = "insert"
      /\ top \in Nat /\ top' = top /\ limit' = limit
      /\ tab \in [Requests -> Tab] /\ tab' = [tab EXCEPT ![t] = NoTab]
      /\ active \subseteq Items \X Members
  BY DEF InsertPin, Refused, Base, TypeOK, WellFormed
<1>2. Cardinality(left) < top /\ IsFiniteSet(left) /\ Cardinality(left) \in Nat
  <2>1. Affordable(m, s, top)
    BY <1>0, <1>1 DEF BudgetInv
  <2>. QED BY <2>1, BoostsFinite DEF Affordable
<1>3. /\ IsFiniteSet(left \cup {i}) /\ Cardinality(left \cup {i}) <= top
      /\ Cardinality(left \cup {i}) \in Nat
  <2>. HIDE DEF left
  <2>1. IsFiniteSet(left \cup {i}) /\ Cardinality(left \cup {i}) \in Nat
    BY <1>2, FS_AddElement, FS_CardinalityType
  <2>2. Cardinality(left \cup {i}) = IF i \in left THEN Cardinality(left)
                                     ELSE Cardinality(left) + 1
    BY <1>2, FS_AddElement
  <2>3. top \in Nat
    BY <1>1
  <2>. QED BY <1>2, <2>1, <2>2, <2>3
<1>4. \A n : n # m => BoostsOf(n)' = BoostsOf(n)
  BY <1>0, <1>1 DEF InsertPin, BoostsOf
<1>5. BudgetKept'
  <2>1. CASE <<i, m>> \in active
    <3>1. active' = active
      BY <2>1, <1>0 DEF InsertPin
    <3>. QED BY <3>1, <1>1 DEF BudgetInv, BudgetKept, BoostsOf
  <2>2. CASE <<i, m>> \notin active
    <3>1. BoostsOf(m)' \in SUBSET (left \cup {i})
      BY <2>2, <1>0, <1>1 DEF InsertPin, BoostsOf
    <3>2. Cardinality(BoostsOf(m)') <= top
      <4>1. /\ Cardinality(BoostsOf(m)') \in Nat
            /\ Cardinality(BoostsOf(m)') <= Cardinality(left \cup {i})
        <5>. HIDE DEF left
        <5>. QED BY <3>1, <1>3, CountOfPart
      <4>. HIDE DEF left
      <4>. QED BY <4>1, <1>3, <1>1
    <3>3. ASSUME NEW n \in Members PROVE Cardinality(BoostsOf(n)') <= top
      BY <3>2, <1>4 DEF BudgetInv, BudgetKept
    <3>. QED BY <3>3, <1>1 DEF BudgetKept
  <2>. QED BY <2>1, <2>2
<1>6. \A u \in Requests : tab'[u] = IF u = t THEN NoTab ELSE tab[u]
  BY <1>1
<1>7. NoTab.pc = "idle" /\ NoTab.member = NoMember /\ NoTab.limit = 0
  BY DEF NoTab
<1>8. (limit <= top)' /\ \A u \in Requests : tab'[u].limit <= top'
  BY <1>1, <1>6, <1>7 DEF BudgetInv
<1>9. \A u, v \in Requests :
        u # v /\ tab'[u].member \in Members => tab'[u].member # tab'[v].member
  BY <1>6, <1>7, RoadmapAssumptions DEF BudgetInv
<1>10. ASSUME NEW u \in Requests, tab'[u].pc = "insert"
       PROVE  Affordable(tab[u].member, tab[u].swap, top)'
  <2>1. u # t /\ tab'[u] = tab[u]
    BY <1>6, <1>7, <1>10
  <2>2. tab[u].member # m
    BY <2>1, <1>0, <1>1 DEF BudgetInv
  <2>3. Affordable(tab[u].member, tab[u].swap, top)
    BY <1>10, <2>1 DEF BudgetInv
  <2>. QED BY <2>1, <2>2, <2>3, <1>1, <1>4 DEF Affordable
<1>. QED BY <1>5, <1>8, <1>9, <1>10 DEF BudgetInv

LEMMA BudgetInit == Init => BudgetInv
<1>. SUFFICES ASSUME Init PROVE BudgetInv
  OBVIOUS
<1>1. limit <= top /\ top \in Nat /\ active = {} /\ tab = [t \in Requests |-> NoTab]
  BY RoadmapAssumptions DEF Init
<1>2. NoTab.pc = "idle" /\ NoTab.member = NoMember /\ NoTab.limit = 0
  BY DEF NoTab
<1>3. \A m : BoostsOf(m) = {}
  BY <1>1 DEF BoostsOf
<1>4. BudgetKept
  BY <1>1, <1>3, FS_EmptySet DEF BudgetKept
<1>. QED BY <1>1, <1>2, <1>4, RoadmapAssumptions DEF BudgetInv

LEMMA BudgetNext ==
  ASSUME "twotabs" \notin Env, Base, BudgetInv, [Next]_vars
  PROVE  BudgetInv'
<1>1. ASSUME NEW i \in Items, NEW stage \in Moves[i] \cap AllStages,
             CreateItem(i, stage)
      PROVE  BudgetInv'
  BY <1>1, BudgetFrame DEF CreateItem
<1>2. ASSUME NEW n \in 0 .. MaxLimit, UpdateSettings(n) PROVE BudgetInv'
  <2>1. top \in Nat /\ top' \in Nat /\ top <= top' /\ limit' <= top'
    BY <1>2, RoadmapAssumptions DEF UpdateSettings, Base, TypeOK
  <2>2. tab' = tab /\ active' = active
    BY <1>2 DEF UpdateSettings
  <2>3. \A t \in Requests : tab[t].limit \in Nat
    BY RoadmapAssumptions DEF Base, TypeOK, Tab
  <2>4. \A m : BoostsOf(m)' = BoostsOf(m)
    BY <2>2 DEF BoostsOf
  <2>5. BudgetKept'
    BY <2>1, <2>4, BoostsFinite DEF BudgetInv, BudgetKept
  <2>6. ASSUME NEW t \in Requests, tab[t].pc = "insert"
        PROVE  Affordable(tab[t].member, tab[t].swap, top)'
    <3>1. PICK m, s : m = tab[t].member /\ s = tab[t].swap
      OBVIOUS
    <3>2. Affordable(m, s, top)
      BY <2>6, <3>1 DEF BudgetInv
    <3>3. Affordable(m, s, top')
      BY <3>2, <2>1, Wider
    <3>. QED BY <3>1, <3>3, <2>2, <2>4 DEF Affordable
  <2>7. \A t \in Requests : tab'[t].limit <= top'
    BY <2>1, <2>2, <2>3 DEF BudgetInv
  <2>. QED BY <2>1, <2>2, <2>5, <2>6, <2>7 DEF BudgetInv
<1>3. ASSUME NEW t \in Requests, NEW m \in Members, NEW i \in Items,
             NEW s \in (Items \ {i}) \cup {NoItem}, StartBoost(t, m, i, s)
      PROVE  BudgetInv'
  <2>. DEFINE r == [pc |-> "item", member |-> m, item |-> i, swap |-> s,
                    limit |-> limit]
  <2>1. r \in Tab
    BY DEF Base, TypeOK, Tab
  <2>2. /\ r.pc = "item" /\ r.member = m /\ r.limit = limit
        /\ tab' = [tab EXCEPT ![t] = r]
        /\ \A u \in Requests : tab[u].member # m
        /\ UNCHANGED <<active, limit, top>>
    BY <1>3 DEF StartBoost
  <2>. HIDE DEF r
  <2>. QED BY <2>1, <2>2, BudgetTab DEF BudgetInv
<1>4. ASSUME NEW t \in Requests, TabStep(t) PROVE BudgetInv'
  <2>. DEFINE Go(step) == [tab[t] EXCEPT !.pc = step]
  <2>1. tab[t] \in Tab /\ tab[t].limit \in Nat /\ top \in Nat
    BY RoadmapAssumptions DEF Base, TypeOK, Tab
  <2>2. \A step \in {"spend", "insert"} :
          /\ Go(step) \in Tab /\ Go(step).pc = step
          /\ Go(step).member = tab[t].member /\ Go(step).swap = tab[t].swap
          /\ Go(step).limit = tab[t].limit
    BY <2>1 DEF Tab
  <2>3. /\ tab[t].limit <= top
        /\ \A u \in Requests :
             u # t /\ tab[t].member \in Members => tab[u].member # tab[t].member
    BY DEF BudgetInv
  <2>4. CASE ReadItem(t)
    <3>1. CASE Refused(t)
      BY <2>4, <3>1, BudgetRefused DEF ReadItem
    <3>2. CASE ~Refused(t)
      <4>1. tab' = [tab EXCEPT ![t] = Go("spend")] /\ UNCHANGED <<active, limit, top>>
        BY <2>4, <3>2 DEF ReadItem, Base, TypeOK
      <4>. HIDE DEF Go
      <4>. QED BY <4>1, <2>2, <2>3, BudgetTab
    <3>. QED BY <3>1, <3>2
  <2>5. CASE SpendBoost(t)
    <3>1. CASE Refused(t)
      BY <2>5, <3>1, BudgetRefused DEF SpendBoost
    <3>2. CASE ~Refused(t)
      <4>1. /\ tab' = [tab EXCEPT ![t] = Go("insert")]
            /\ UNCHANGED <<active, limit, top>>
            /\ Affordable(tab[t].member, tab[t].swap, tab[t].limit)
        BY <2>5, <3>2 DEF SpendBoost, Base, TypeOK
      <4>2. Affordable(tab[t].member, tab[t].swap, top)
        BY <4>1, <2>1, <2>3, Wider
      <4>. HIDE DEF Go
      <4>. QED BY <4>1, <4>2, <2>2, <2>3, BudgetTab
    <3>. QED BY <3>1, <3>2
  <2>6. CASE InsertPin(t)
    BY <2>6, BudgetInsert
  <2>. QED BY <1>4, <2>4, <2>5, <2>6 DEF TabStep
<1>5. ASSUME NEW i \in Items, NEW m \in Members, UnpinItem(i, m) PROVE BudgetInv'
  BY <1>5, BudgetFrame DEF UnpinItem
<1>6. ASSUME NEW c \in Curators, NEW i \in Items, NEW to \in Moves[i],
             StartMove(c, i, to)
      PROVE  BudgetInv'
  BY <1>6, BudgetFrame DEF StartMove
<1>7. ASSUME NEW c \in Curators, MoveStep(c) PROVE BudgetInv'
  <2>1. active' \subseteq active /\ UNCHANGED <<limit, top, tab>>
    BY <1>7 DEF MoveStep, ListBoosts, CommitMove, Released, CheckBells, TellBooster,
                LoseBooster, BoostersTold, TellAuthor
  <2>. QED BY <2>1, BudgetFrame
<1>8. ASSUME NEW c \in Curators, Stop(c) PROVE BudgetInv'
  BY <1>8, BudgetFrame DEF Stop
<1>9. CASE UNCHANGED vars
  BY <1>9, BudgetFrame DEF vars
<1>. QED BY <1>1, <1>2, <1>3, <1>4, <1>5, <1>6, <1>7, <1>8, <1>9 DEF Next

LEMMA BudgetHolds == ASSUME "twotabs" \notin Env PROVE Spec => []BudgetInv
  BY BaseHolds, BudgetInit, BudgetNext, PTL DEF Spec

\* Whatever else overlaps, a member who boosts one item at a time never holds
\* more boosts than the budget allowed at some time (pinItem's count and insert).
THEOREM BudgetIsKept ==
  ASSUME "twotabs" \notin Env
  PROVE  Spec => []BudgetKept
  BY BudgetHolds, PTL DEF BudgetInv

-----------------------------------------------------------------------------
(* Items out of play hold no boosts.                                       *)

\* A request that has read its item as open finds it open at its insert.
FrozenInv ==
  /\ FrozenHoldsNoBoost
  /\ \A t \in Requests : tab[t].pc \in {"spend", "insert"} => Open(tab[t].item)
  /\ \A t \in Requests, c \in Curators :
       tab[t].pc # "idle" /\ move[c].pc # "idle" => tab[t].item # move[c].item

\* Steps that leave items alone, add no boost and begin no request.
LEMMA FrozenFrame ==
  ASSUME Base, FrozenInv, active' \subseteq active, item' = item,
         \A t \in Requests : tab'[t] = tab[t] \/ tab'[t].pc = "idle",
         \A c \in Curators :
           move'[c].pc # "idle" => move[c].pc # "idle" /\ move'[c].item = move[c].item
  PROVE  FrozenInv'
<1>1. \A i : Open(i)' <=> Open(i)
  BY DEF Open, Live
<1>2. \A i \in Items : BoostersOf(i)' \subseteq BoostersOf(i)
  BY DEF BoostersOf
<1>3. FrozenHoldsNoBoost'
  <2>. SUFFICES ASSUME NEW i \in Items, BoostersOf(i)' # {} PROVE Open(i)'
    BY DEF FrozenHoldsNoBoost
  <2>. QED BY <1>1, <1>2 DEF FrozenInv, FrozenHoldsNoBoost
<1>4. ASSUME NEW t \in Requests, tab'[t].pc \in {"spend", "insert"}
      PROVE  Open(tab[t].item)'
  <2>1. tab'[t] = tab[t]
    BY <1>4
  <2>2. Open(tab[t].item)
    BY <1>4, <2>1 DEF FrozenInv
  <2>. QED BY <2>1, <2>2 DEF Open, Live
<1>5. \A t \in Requests, c \in Curators :
        tab'[t].pc # "idle" /\ move'[c].pc # "idle" => tab'[t].item # move'[c].item
  BY DEF FrozenInv
<1>. QED BY <1>3, <1>4, <1>5 DEF FrozenInv

\* A request for i goes on: it keeps its item, and reads it as open first.
LEMMA FrozenTab ==
  ASSUME Base, FrozenInv, NEW t \in Requests, NEW r \in Tab,
         tab' = [tab EXCEPT ![t] = r],
         r.pc \in {"spend", "insert"} => Open(r.item),
         \A c \in Curators : move[c].pc # "idle" => r.item # move[c].item,
         UNCHANGED <<active, item, move>>
  PROVE  FrozenInv'
<1>1. \A u \in Requests : tab'[u] = IF u = t THEN r ELSE tab[u]
  BY DEF Base, TypeOK
<1>2. \A i : Open(i)' <=> Open(i)
  BY DEF Open, Live
<1>3. FrozenHoldsNoBoost'
  BY DEF FrozenInv, FrozenHoldsNoBoost, BoostersOf, Open, Live
<1>4. ASSUME NEW u \in Requests, tab'[u].pc \in {"spend", "insert"}
      PROVE  Open(tab[u].item)'
  <2>1. PICK i : i = tab'[u].item
    OBVIOUS
  <2>2. Open(i)
    BY <1>1, <1>4, <2>1 DEF FrozenInv
  <2>. QED BY <1>2, <2>1, <2>2 DEF Open, Live
<1>5. \A u \in Requests, c \in Curators :
        tab'[u].pc # "idle" /\ move'[c].pc # "idle" => tab'[u].item # move'[c].item
  BY <1>1 DEF FrozenInv
<1>. QED BY <1>3, <1>4, <1>5 DEF FrozenInv

LEMMA FrozenInit == Init => FrozenInv
  BY Idle DEF Init, FrozenInv, FrozenHoldsNoBoost, BoostersOf

LEMMA FrozenTabStep ==
  ASSUME Base, FrozenInv, NEW t \in Requests, TabStep(t)
  PROVE  FrozenInv'
<1>0. tab \in [Requests -> Tab] /\ tab[t] \in Tab
  BY DEF Base, TypeOK
<1>. DEFINE Go(step) == [tab[t] EXCEPT !.pc = step]
<1>1. \A step \in {"spend", "insert"} :
        Go(step) \in Tab /\ Go(step).pc = step /\ Go(step).item = tab[t].item
  BY <1>0 DEF Tab
<1>2. CASE Refused(t) /\ UNCHANGED <<active, item, move>>
  <2>1. \A u \in Requests : tab'[u] = tab[u] \/ tab'[u].pc = "idle"
    BY <1>0, <1>2, Idle DEF Refused
  <2>. QED BY <1>2, <2>1, FrozenFrame
<1>3. CASE ReadItem(t) /\ ~Refused(t)
  <2>1. /\ tab' = [tab EXCEPT ![t] = Go("spend")] /\ Open(tab[t].item)
        /\ tab[t].pc # "idle" /\ UNCHANGED <<active, item, move>>
    BY <1>0, <1>3 DEF ReadItem
  <2>. HIDE DEF Go
  <2>. QED BY <2>1, <1>1, FrozenTab DEF FrozenInv
<1>4. CASE SpendBoost(t) /\ ~Refused(t)
  <2>1. /\ tab' = [tab EXCEPT ![t] = Go("insert")]
        /\ tab[t].pc = "spend" /\ UNCHANGED <<active, item, move>>
    BY <1>0, <1>4 DEF SpendBoost
  <2>. HIDE DEF Go
  <2>. QED BY <2>1, <1>1, FrozenTab DEF FrozenInv
<1>5. CASE InsertPin(t)
  <2>0. PICK m \in Members, i \in Items : m = tab[t].member /\ i = tab[t].item
    BY <1>5 DEF InsertPin, Base, WellFormed
  <2>1. /\ active' \subseteq active \cup {<<i, m>>} /\ item' = item /\ move' = move
        /\ Open(i)
    BY <1>5, <2>0 DEF InsertPin, FrozenInv
  <2>2. \A u \in Requests : tab'[u] = tab[u] \/ tab'[u].pc = "idle"
    BY <1>0, <1>5, Idle DEF InsertPin, Refused
  <2>3. \A j : Open(j)' <=> Open(j)
    BY <2>1 DEF Open, Live
  <2>4. FrozenHoldsNoBoost'
    <3>. SUFFICES ASSUME NEW j \in Items, BoostersOf(j)' # {} PROVE Open(j)'
      BY DEF FrozenHoldsNoBoost
    <3>1. CASE j = i
      BY <3>1, <2>1, <2>3
    <3>2. CASE j # i
      <4>1. BoostersOf(j) # {}
        BY <3>2, <2>1 DEF BoostersOf
      <4>. QED BY <4>1, <2>3 DEF FrozenInv, FrozenHoldsNoBoost
    <3>. QED BY <3>1, <3>2
  <2>5. ASSUME NEW u \in Requests, tab'[u].pc \in {"spend", "insert"}
        PROVE  Open(tab[u].item)'
    <3>1. tab'[u] = tab[u] /\ Open(tab[u].item)
      BY <2>2, <2>5 DEF FrozenInv
    <3>. QED BY <3>1, <2>1 DEF Open, Live
  <2>6. \A u \in Requests, c \in Curators :
          tab'[u].pc # "idle" /\ move'[c].pc # "idle" => tab'[u].item # move'[c].item
    BY <2>1, <2>2 DEF FrozenInv
  <2>. QED BY <2>4, <2>5, <2>6 DEF FrozenInv
<1>. QED BY <1>2, <1>3, <1>4, <1>5 DEF TabStep, ReadItem, SpendBoost

\* The commit of a move: nobody is boosting its item.
LEMMA FrozenCommit ==
  ASSUME Base, FrozenInv, NEW c \in Curators, CommitMove(c)
  PROVE  FrozenInv'
<1>0. PICK i \in Items, to \in AllStages \cup {"ARCHIVED", "none"} :
        i = move[c].item /\ to = move[c].to
  BY DEF CommitMove, Base, TypeOK, WellFormed, Move
<1>1. /\ move[c].pc = "commit" /\ tab' = tab /\ item \in [Items -> Item]
      /\ active' = IF Releases(to) THEN active \ ({i} \X Members) ELSE active
      /\ item' = [item EXCEPT ![i] = IF to = "ARCHIVED" THEN [@ EXCEPT !.archived = TRUE]
                                     ELSE [@ EXCEPT !.stage = to]]
  BY <1>0 DEF CommitMove, Released, Base, TypeOK
<1>2. \A d \in Curators :
        move'[d].pc # "idle" => move[d].pc # "idle" /\ move'[d].item = move[d].item
  <2>1. CASE Moved(c)
    BY <2>1, Idle DEF Moved, Base, TypeOK
  <2>2. CASE move' = [move EXCEPT ![c].pc = "check"]
    BY <2>2, <1>1 DEF Base, TypeOK, Move
  <2>. QED BY <2>1, <2>2 DEF CommitMove
<1>3. \A j \in Items : j # i => item'[j] = item[j]
  BY <1>1
<1>4. FrozenHoldsNoBoost'
  <2>. SUFFICES ASSUME NEW j \in Items, BoostersOf(j)' # {} PROVE Open(j)'
    BY DEF FrozenHoldsNoBoost
  <2>1. Open(j)
    <3>1. BoostersOf(j) # {}
      BY <1>1 DEF BoostersOf
    <3>. QED BY <3>1 DEF FrozenInv, FrozenHoldsNoBoost
  <2>2. CASE j # i
    BY <2>1, <2>2, <1>3 DEF Open, Live
  <2>3. CASE j = i
    <3>1. to \in Pinnable
      BY <2>3, <1>1 DEF Releases, BoostersOf
    <3>2. /\ item'[i].stage = to /\ item'[i].archived = item[i].archived
          /\ to # "none"
      BY <3>1, <1>1 DEF Pinnable, Item
    <3>. QED BY <2>1, <2>3, <3>1, <3>2 DEF Open, Live
  <2>. QED BY <2>2, <2>3
<1>5. ASSUME NEW t \in Requests, tab[t].pc \in {"spend", "insert"}
      PROVE  Open(tab[t].item)'
  <2>1. PICK j \in Items : j = tab[t].item
    BY <1>5 DEF Base, WellFormed
  <2>2. j # i /\ Open(j)
    BY <1>0, <1>1, <1>5, <2>1 DEF FrozenInv
  <2>. QED BY <1>1, <1>3, <2>1, <2>2 DEF Open, Live
<1>6. \A t \in Requests, d \in Curators :
        tab'[t].pc # "idle" /\ move'[d].pc # "idle" => tab'[t].item # move'[d].item
  BY <1>1, <1>2 DEF FrozenInv
<1>. QED BY <1>1, <1>4, <1>5, <1>6 DEF FrozenInv

LEMMA FrozenNext ==
  ASSUME "racepin" \notin Env, Base, FrozenInv, [Next]_vars
  PROVE  FrozenInv'
<1>0. tab \in [Requests -> Tab] /\ move \in [Curators -> Move]
  BY DEF Base, TypeOK
<1>1. ASSUME NEW i \in Items, NEW stage \in Moves[i] \cap AllStages,
             CreateItem(i, stage)
      PROVE  FrozenInv'
  <2>1. \A j \in Items : j # i => item'[j] = item[j]
    BY <1>1 DEF CreateItem, Base, TypeOK
  <2>2. ~Open(i) /\ UNCHANGED <<active, tab, move>>
    BY <1>1 DEF CreateItem, Open, Live
  <2>3. \A j \in Items : Open(j) => Open(j)'
    BY <2>1, <2>2 DEF Open, Live
  <2>4. FrozenHoldsNoBoost'
    BY <2>2, <2>3 DEF FrozenInv, FrozenHoldsNoBoost, BoostersOf
  <2>5. ASSUME NEW t \in Requests, tab[t].pc \in {"spend", "insert"}
        PROVE  Open(tab[t].item)'
    <3>1. PICK j \in Items : j = tab[t].item
      BY <2>5 DEF Base, WellFormed
    <3>2. Open(j)'
      BY <2>3, <2>5, <3>1 DEF FrozenInv
    <3>. QED BY <2>2, <3>1, <3>2 DEF Open, Live
  <2>. QED BY <2>2, <2>4, <2>5 DEF FrozenInv
<1>2. ASSUME NEW n \in 0 .. MaxLimit, UpdateSettings(n) PROVE FrozenInv'
  BY <1>2, FrozenFrame DEF UpdateSettings
<1>3. ASSUME NEW t \in Requests, NEW m \in Members, NEW i \in Items,
             NEW s \in (Items \ {i}) \cup {NoItem}, StartBoost(t, m, i, s)
      PROVE  FrozenInv'
  <2>. DEFINE r == [pc |-> "item", member |-> m, item |-> i, swap |-> s,
                    limit |-> limit]
  <2>1. r \in Tab
    BY DEF Base, TypeOK, Tab
  <2>2. /\ r.pc = "item" /\ r.item = i /\ tab' = [tab EXCEPT ![t] = r]
        /\ ~Moving(i) /\ UNCHANGED <<active, item, move>>
    BY <1>3 DEF StartBoost
  <2>. HIDE DEF r
  <2>. QED BY <2>1, <2>2, FrozenTab DEF Moving
<1>4. ASSUME NEW t \in Requests, TabStep(t) PROVE FrozenInv'
  BY <1>4, FrozenTabStep
<1>5. ASSUME NEW i \in Items, NEW m \in Members, UnpinItem(i, m) PROVE FrozenInv'
  BY <1>5, FrozenFrame DEF UnpinItem
<1>6. ASSUME NEW c \in Curators, NEW i \in Items, NEW to \in Moves[i],
             StartMove(c, i, to)
      PROVE  FrozenInv'
  <2>1. /\ UNCHANGED <<item, active, tab>> /\ ~Boosting(i)
        /\ \A d \in Curators : d # c => move'[d] = move[d]
        /\ move'[c].item = i
    BY <1>6, <1>0 DEF StartMove, Move, NoMove
  <2>2. \A t \in Requests, d \in Curators :
          tab'[t].pc # "idle" /\ move'[d].pc # "idle" => tab'[t].item # move'[d].item
    BY <2>1 DEF Boosting, FrozenInv
  <2>. QED BY <2>1, <2>2
       DEF FrozenInv, FrozenHoldsNoBoost, BoostersOf, Open, Live
<1>7. ASSUME NEW c \in Curators, MoveStep(c) PROVE FrozenInv'
  <2>1. CASE CommitMove(c)
    BY <2>1, FrozenCommit
  <2>2. CASE ~CommitMove(c)
    <3>1. UNCHANGED <<item, active, tab>> /\ move[c].pc # "idle"
      BY <1>7, <2>2 DEF MoveStep, ListBoosts, CheckBells, TellBooster, LoseBooster,
                        BoostersTold, TellAuthor
    <3>2. \A d \in Curators : d # c => move'[d] = move[d]
      BY <1>7, <2>2, <1>0 DEF MoveStep, ListBoosts, CheckBells, TellBooster,
                              LoseBooster, BoostersTold, TellAuthor, Moved
    <3>3. move'[c].pc # "idle" => move'[c].item = move[c].item
      <4>0. move[c] \in Move
        BY <1>0
      <4>1. CASE Moved(c)
        BY <4>1, <1>0, Idle DEF Moved
      <4>2. CASE ListBoosts(c)
        BY <4>2, <4>0, <1>0 DEF ListBoosts, Move
      <4>3. CASE CheckBells(c) /\ ~Moved(c)
        BY <4>3, <4>0, <1>0 DEF CheckBells, Move
      <4>4. ASSUME NEW m \in Members, TellBooster(c, m) \/ LoseBooster(c, m)
            PROVE  move'[c].item = move[c].item
        BY <4>4, <4>0, <1>0 DEF TellBooster, LoseBooster, Move
      <4>5. CASE BoostersTold(c) /\ ~Moved(c)
        BY <4>5, <4>0, <1>0 DEF BoostersTold, Move
      <4>6. CASE TellAuthor(c)
        BY <4>6, <1>0, Idle DEF TellAuthor, Moved
      <4>. QED BY <1>7, <2>2, <4>1, <4>2, <4>3, <4>4, <4>5, <4>6 DEF MoveStep
    <3>. QED BY <3>1, <3>2, <3>3, FrozenFrame
  <2>. QED BY <2>1, <2>2
<1>8. ASSUME NEW c \in Curators, Stop(c) PROVE FrozenInv'
  BY <1>8, <1>0, Idle, FrozenFrame DEF Stop, Moved
<1>9. CASE UNCHANGED vars
  BY <1>9, FrozenFrame DEF vars
<1>. QED BY <1>1, <1>2, <1>3, <1>4, <1>5, <1>6, <1>7, <1>8, <1>9 DEF Next

LEMMA FrozenHolds == ASSUME "racepin" \notin Env PROVE Spec => []FrozenInv
  BY BaseHolds, FrozenInit, FrozenNext, PTL DEF Spec

\* As long as nobody boosts an item while it is moved, an item out of play
\* holds no boost, also when it is moved by several people at once
\* (PIN_RELEASING_STAGES, archiveItem, assertStageAllowsSignals).
THEOREM FrozenItemsHoldNone ==
  ASSUME "racepin" \notin Env
  PROVE  Spec => []FrozenHoldsNoBoost
  BY FrozenHolds, PTL DEF FrozenInv

-----------------------------------------------------------------------------
(* A commitment is announced once.                                         *)

\* What was stored for an item, b, repeats nothing.
Once(b) ==
  /\ b.progress < TooMany /\ b.shipped < TooMany
  /\ \A m \in Members : b.boost[m] < TooMany

\* What the move r is still to announce is not yet stored in b.
Fresh(b, r) ==
  /\ r.pc \in {"check", "boosters", "author"} => r.to \in {"IN_PROGRESS", "SHIPPED"}
  /\ r.pc \in {"boosters", "author"} =>
       /\ r.to = "SHIPPED" => b.shipped = 0
       /\ r.to = "IN_PROGRESS" => b.progress = 0
       /\ \A m \in r.tell : b.boost[m] = 0

OnceInv ==
  /\ \A i \in Items : Once(bell[i])
  /\ \A c, d \in Curators :
       c # d /\ move[c].pc # "idle" /\ move[d].pc # "idle" =>
         move[c].item # move[d].item
  /\ \A c \in Curators : move[c].pc # "idle" => Fresh(bell[move[c].item], move[c])

\* A step of the move c of item i concerns nothing else.
LEMMA OnceFrame ==
  ASSUME Base, OnceInv, NEW c \in Curators, NEW i \in Items,
         move[c].pc # "idle", i = move[c].item,
         \A j \in Items : j # i => bell'[j] = bell[j],
         \A d \in Curators : d # c => move'[d] = move[d],
         Once(bell'[i]),
         move'[c].pc # "idle" => move'[c].item = i /\ Fresh(bell'[i], move'[c])
  PROVE  OnceInv'
<1>1. \A j \in Items : Once(bell'[j])
  BY DEF OnceInv
<1>2. \A d, e \in Curators :
        d # e /\ move'[d].pc # "idle" /\ move'[e].pc # "idle" =>
          move'[d].item # move'[e].item
  BY DEF OnceInv
<1>3. ASSUME NEW d \in Curators, move'[d].pc # "idle"
      PROVE  Fresh(bell'[move'[d].item], move'[d])
  <2>1. CASE d = c
    BY <1>3, <2>1
  <2>2. CASE d # c
    <3>1. move'[d] = move[d] /\ move[d].item # i /\ move[d].item \in Items
      BY <1>3, <2>2 DEF OnceInv, Base, WellFormed
    <3>2. bell'[move[d].item] = bell[move[d].item]
      BY <3>1
    <3>3. Fresh(bell[move[d].item], move[d])
      BY <1>3, <3>1 DEF OnceInv
    <3>. QED BY <3>1, <3>2, <3>3
  <2>. QED BY <2>1, <2>2
<1>. QED BY <1>1, <1>2, <1>3 DEF OnceInv, Once, Fresh

LEMMA OnceUnchanged ==
  ASSUME Base, OnceInv, UNCHANGED <<bell, move>>
  PROVE  OnceInv'
  BY DEF OnceInv, Once, Fresh

LEMMA OnceInit == Init => OnceInv
<1>. SUFFICES ASSUME Init PROVE OnceInv
  OBVIOUS
<1>1. Once(NoBell)
  BY DEF Once, NoBell, TooMany
<1>2. /\ bell = [i \in Items |-> NoBell]
      /\ move = [c \in Curators |-> NoMove] /\ NoMove.pc = "idle"
  BY Idle DEF Init
<1>. QED BY <1>1, <1>2 DEF OnceInv

LEMMA OnceMoveStep ==
  ASSUME Base, OnceInv, NEW c \in Curators, MoveStep(c) \/ Stop(c)
  PROVE  OnceInv'
<1>0. /\ move \in [Curators -> Move] /\ move[c] \in Move /\ bell \in [Items -> Bell]
      /\ move[c].pc # "idle"
  BY DEF Base, TypeOK, MoveStep, Stop, ListBoosts, CommitMove, CheckBells,
         TellBooster, LoseBooster, BoostersTold, TellAuthor
<1>1. PICK i \in Items : i = move[c].item
  BY <1>0 DEF Base, WellFormed
<1>2. Once(bell[i]) /\ Fresh(bell[i], move[c]) /\ bell[i] \in Bell
  BY <1>0, <1>1 DEF OnceInv
<1>3. CASE Moved(c) /\ bell' = bell
  <2>1. /\ \A d \in Curators : d # c => move'[d] = move[d]
        /\ move'[c].pc = "idle"
    BY <1>0, <1>3, Idle DEF Moved
  <2>. QED BY <2>1, <1>0, <1>1, <1>2, <1>3, OnceFrame
<1>4. CASE ListBoosts(c)
  <2>1. /\ bell' = bell /\ \A d \in Curators : d # c => move'[d] = move[d]
        /\ move'[c].pc = "commit" /\ move'[c].item = i
    BY <1>0, <1>1, <1>4 DEF ListBoosts, Move
  <2>2. Fresh(bell[i], move'[c])
    BY <2>1 DEF Fresh
  <2>. QED BY <2>1, <2>2, <1>0, <1>1, <1>2, OnceFrame
<1>5. CASE CommitMove(c) /\ ~Moved(c)
  <2>1. /\ bell' = bell /\ \A d \in Curators : d # c => move'[d] = move[d]
        /\ move'[c].pc = "check" /\ move'[c].item = i
        /\ move'[c].to \in {"IN_PROGRESS", "SHIPPED"}
    BY <1>0, <1>1, <1>5 DEF CommitMove, Move
  <2>2. Fresh(bell[i], move'[c])
    BY <2>1 DEF Fresh
  <2>. QED BY <2>1, <2>2, <1>0, <1>1, <1>2, OnceFrame
<1>6. CASE CheckBells(c) /\ ~Moved(c)
  <2>. DEFINE tell == IF move[c].to = "IN_PROGRESS" THEN move[c].tell \ {Author[i]} ELSE {}
  <2>1. /\ bell' = bell /\ \A d \in Curators : d # c => move'[d] = move[d]
        /\ move'[c].pc = "boosters" /\ move'[c].item = i /\ move'[c].to = move[c].to
        /\ move'[c].tell = tell /\ tell \subseteq Members
        /\ ~Reached(i, move[c].to) /\ move[c].pc = "check"
    <3>1. /\ move' = [move EXCEPT ![c].pc = "boosters", ![c].tell = tell]
          /\ bell' = bell /\ ~Reached(i, move[c].to) /\ move[c].pc = "check"
      BY <1>1, <1>6 DEF CheckBells
    <3>2. tell \subseteq Members
      BY <1>0 DEF Move
    <3>. HIDE DEF tell
    <3>. QED BY <3>1, <3>2, <1>0, <1>1 DEF Move
  <2>2. move[c].to \in {"IN_PROGRESS", "SHIPPED"}
    BY <2>1, <1>2 DEF Fresh
  <2>3. bell[i].progress \in Nat /\ bell[i].shipped \in Nat
        /\ \A m \in Members : bell[i].boost[m] \in Nat
    BY <1>2 DEF Bell, TooMany
  <2>4. /\ move[c].to = "SHIPPED" => bell[i].shipped = 0
        /\ move[c].to = "IN_PROGRESS" => bell[i].progress = 0
        /\ move[c].to = "IN_PROGRESS" => \A m \in Members : bell[i].boost[m] = 0
    <3>. HIDE DEF tell
    <3>. QED BY <2>1, <2>3 DEF Reached
  <2>5. \A m \in tell : bell[i].boost[m] = 0
    BY <2>1, <2>4
  <2>. HIDE DEF tell
  <2>6. Fresh(bell[i], move'[c])
    BY <2>1, <2>2, <2>4, <2>5 DEF Fresh
  <2>. QED BY <2>1, <2>6, <1>0, <1>1, <1>2, OnceFrame
<1>7. ASSUME NEW m \in Members, TellBooster(c, m) PROVE OnceInv'
  <2>1. /\ m \in move[c].tell /\ move[c].pc = "boosters"
        /\ bell' = [bell EXCEPT ![i].boost[m] = More(@)]
        /\ move' = [move EXCEPT ![c].tell = @ \ {m}]
    BY <1>1, <1>7 DEF TellBooster
  <2>2. bell[i].boost[m] = 0 /\ More(0) = 1
    BY <2>1, <1>2 DEF Fresh, More, TooMany
  <2>3. /\ \A j \in Items : j # i => bell'[j] = bell[j]
        /\ bell'[i] = [bell[i] EXCEPT !.boost[m] = 1]
    BY <2>1, <2>2, <1>0
  <2>4. /\ bell'[i].progress = bell[i].progress /\ bell'[i].shipped = bell[i].shipped
        /\ bell'[i].boost = [bell[i].boost EXCEPT ![m] = 1]
        /\ bell[i].boost \in [Members -> 0 .. TooMany]
    BY <2>3, <1>2 DEF Bell
  <2>5. Once(bell'[i])
    BY <2>4, <1>2 DEF Once, TooMany
  <2>6. /\ \A d \in Curators : d # c => move'[d] = move[d]
        /\ move'[c].item = i /\ move'[c].to = move[c].to /\ move'[c].pc = "boosters"
        /\ move'[c].tell = move[c].tell \ {m} /\ move[c].tell \subseteq Members
    BY <2>1, <1>0, <1>1 DEF Move
  <2>7. \A n \in move'[c].tell : bell'[i].boost[n] = 0
    BY <2>1, <2>4, <2>6, <1>2 DEF Fresh
  <2>8. Fresh(bell'[i], move'[c])
    BY <2>1, <2>4, <2>6, <2>7, <1>2 DEF Fresh
  <2>. QED BY <2>3, <2>5, <2>6, <2>8, <1>0, <1>1, OnceFrame
<1>8. ASSUME NEW m \in Members, LoseBooster(c, m) PROVE OnceInv'
  <2>1. /\ bell' = bell /\ \A d \in Curators : d # c => move'[d] = move[d]
        /\ move'[c].item = i /\ move'[c].to = move[c].to /\ move'[c].pc = move[c].pc
        /\ move'[c].tell = move[c].tell \ {m}
    BY <1>0, <1>1, <1>8 DEF LoseBooster, Move
  <2>2. Fresh(bell[i], move'[c])
    BY <2>1, <1>2 DEF Fresh
  <2>. QED BY <2>1, <2>2, <1>0, <1>1, <1>2, OnceFrame
<1>9. CASE BoostersTold(c) /\ ~Moved(c)
  <2>1. /\ bell' = bell /\ \A d \in Curators : d # c => move'[d] = move[d]
        /\ move'[c].item = i /\ move'[c].to = move[c].to /\ move'[c].pc = "author"
        /\ move'[c].tell = move[c].tell /\ move[c].pc = "boosters"
    BY <1>0, <1>1, <1>9 DEF BoostersTold, Move
  <2>2. Fresh(bell[i], move'[c])
    BY <2>1, <1>2 DEF Fresh
  <2>. QED BY <2>1, <2>2, <1>0, <1>1, <1>2, OnceFrame
<1>10. CASE TellAuthor(c)
  <2>1. /\ \A d \in Curators : d # c => move'[d] = move[d]
        /\ move'[c].pc = "idle"
    BY <1>0, <1>10, Idle DEF TellAuthor, Moved
  <2>2. /\ move[c].pc = "author" /\ move[c].to \in {"IN_PROGRESS", "SHIPPED"}
        /\ More(0) = 1
    BY <1>2, <1>10 DEF TellAuthor, Fresh, More, TooMany
  <2>3. CASE move[c].to = "SHIPPED"
    <3>1. bell' = [bell EXCEPT ![i].shipped = 1]
      BY <2>2, <2>3, <1>1, <1>2, <1>10 DEF TellAuthor, Fresh
    <3>2. Once(bell'[i])
      BY <3>1, <1>0, <1>2 DEF Once, Bell, TooMany
    <3>3. \A j \in Items : j # i => bell'[j] = bell[j]
      BY <3>1, <1>0
    <3>. QED BY <3>2, <3>3, <2>1, <1>0, <1>1, OnceFrame
  <2>4. CASE move[c].to = "IN_PROGRESS"
    <3>1. bell' = [bell EXCEPT ![i].progress = 1]
      BY <2>2, <2>4, <1>1, <1>2, <1>10 DEF TellAuthor, Fresh
    <3>2. Once(bell'[i])
      BY <3>1, <1>0, <1>2 DEF Once, Bell, TooMany
    <3>3. \A j \in Items : j # i => bell'[j] = bell[j]
      BY <3>1, <1>0
    <3>. QED BY <3>2, <3>3, <2>1, <1>0, <1>1, OnceFrame
  <2>. QED BY <2>2, <2>3, <2>4
<1>. QED BY <1>3, <1>4, <1>5, <1>6, <1>7, <1>8, <1>9, <1>10
     DEF MoveStep, Stop, CommitMove, CheckBells, BoostersTold

LEMMA OnceNext ==
  ASSUME "racestage" \notin Env, Base, OnceInv, [Next]_vars
  PROVE  OnceInv'
<1>0. move \in [Curators -> Move]
  BY DEF Base, TypeOK
<1>1. ASSUME NEW i \in Items, NEW stage \in Moves[i] \cap AllStages,
             CreateItem(i, stage)
      PROVE  OnceInv'
  BY <1>1, OnceUnchanged DEF CreateItem
<1>2. ASSUME NEW n \in 0 .. MaxLimit, UpdateSettings(n) PROVE OnceInv'
  BY <1>2, OnceUnchanged DEF UpdateSettings
<1>3. ASSUME NEW t \in Requests, NEW m \in Members, NEW i \in Items,
             NEW s \in (Items \ {i}) \cup {NoItem}, StartBoost(t, m, i, s)
      PROVE  OnceInv'
  BY <1>3, OnceUnchanged DEF StartBoost
<1>4. ASSUME NEW t \in Requests, TabStep(t) PROVE OnceInv'
  BY <1>4, OnceUnchanged DEF TabStep, ReadItem, SpendBoost, InsertPin
<1>5. ASSUME NEW i \in Items, NEW m \in Members, UnpinItem(i, m) PROVE OnceInv'
  BY <1>5, OnceUnchanged DEF UnpinItem
<1>6. ASSUME NEW c \in Curators, NEW i \in Items, NEW to \in Moves[i],
             StartMove(c, i, to)
      PROVE  OnceInv'
  <2>1. /\ bell' = bell /\ \A d \in Curators : d # c => move'[d] = move[d]
        /\ move'[c].item = i /\ move'[c].pc = "list" /\ ~Moving(i)
    BY <1>0, <1>6 DEF StartMove, NoMove, Move
  <2>2. Fresh(bell[i], move'[c])
    BY <2>1 DEF Fresh
  <2>3. \A d, e \in Curators :
          d # e /\ move'[d].pc # "idle" /\ move'[e].pc # "idle" =>
            move'[d].item # move'[e].item
    BY <2>1 DEF OnceInv, Moving
  <2>4. \A d \in Curators :
          move'[d].pc # "idle" => Fresh(bell[move'[d].item], move'[d])
    BY <2>1, <2>2 DEF OnceInv
  <2>. QED BY <2>1, <2>3, <2>4 DEF OnceInv, Once, Fresh
<1>7. ASSUME NEW c \in Curators, MoveStep(c) \/ Stop(c) PROVE OnceInv'
  BY <1>7, OnceMoveStep
<1>8. CASE UNCHANGED vars
  BY <1>8, OnceUnchanged DEF vars
<1>. QED BY <1>1, <1>2, <1>3, <1>4, <1>5, <1>6, <1>7, <1>8 DEF Next

LEMMA OnceHolds == ASSUME "racestage" \notin Env PROVE Spec => []OnceInv
  BY BaseHolds, OnceInit, OnceNext, PTL DEF Spec

LEMMA OnceImplies == OnceInv => CommittedOnce
  BY DEF OnceInv, Once, CommittedOnce

\* As long as an item is moved by one person at a time, nobody is told twice
\* of one commitment, with faults and with boosts racing the moves
\* (applyStageChange, hasItemTriggerNotification).
THEOREM CommitmentsAnnouncedOnce ==
  ASSUME "racestage" \notin Env
  PROVE  Spec => []CommittedOnce
  BY OnceHolds, OnceImplies, PTL

=============================================================================
