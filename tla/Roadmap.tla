------------------------------ MODULE Roadmap ------------------------------
(***************************************************************************)
(* The roadmap (roadmap.service.ts, roadmap-pins.service.ts): members      *)
(* boost items out of a limited budget of pins, the product team moves     *)
(* items between stages, and a move out of play returns the boosts and     *)
(* tells the people concerned.                                             *)
(*                                                                         *)
(* The database runs at READ COMMITTED: a transaction sees at each         *)
(* statement what has been committed, and its own writes.  A boost is cut  *)
(* at the statements of pinItem's transaction, whose writes show at its    *)
(* commit, the last step; a stage change at its read, its transaction's    *)
(* list of boosts, its commit and each bell notification after it.         *)
(*                                                                         *)
(* A bell notification is counted, up to TooMany, by item and reader: the  *)
(* code keeps no other record of who was told what.  Left out: notes and   *)
(* impact of a boost, texts, drafts, objectives, order, analytics, and the *)
(* notifications that nothing depends on (new, planned, backlog, declined).*)
(* A pinItem whose pod dies rolls back, like one that is refused.          *)
(***************************************************************************)
EXTENDS Naturals, FiniteSets

CONSTANTS
  Items, Members,
  NoItem, NoMember,
  Author,         \* the member who submitted each item
  Requests,       \* calls of pinItem under way at once
  Curators,       \* calls that move an item under way at once
  Moves,          \* the stages, and "ARCHIVED", that each item is put in
  DefaultLimit,
  MaxLimit,       \* bound on the pin limit
  MaxFaults,      \* bound on lost notifications and dying pods
  Env             \* a subset of EnvFaults

AllStages == {"IDEA", "PLANNED", "IN_PROGRESS", "BACKLOG", "SHIPPED", "DECLINED"}

EnvFaults ==
  {"racepin",     \* an item is moved while a member is boosting it
   "racestage",   \* an item is moved by two people at once
   "twotabs"}     \* a member boosts two items at once

ASSUME RoadmapAssumptions ==
  /\ IsFiniteSet(Items) /\ NoItem \notin Items
  /\ NoMember \notin Members
  /\ Author \in [Items -> Members]
  /\ Moves \in [Items -> SUBSET (AllStages \cup {"ARCHIVED"})]
  /\ MaxLimit \in Nat /\ DefaultLimit \in 0 .. MaxLimit
  /\ MaxFaults \in Nat
  /\ Env \subseteq EnvFaults

VARIABLES
  item,      \* stage of each item, and whether it was archived
  active,    \* the pins that are not released, as <<item, member>>
  limit,     \* RoadmapSettings.pinLimit
  top,       \* history: the highest limit so far
  bell,      \* notifications stored, for each item
  owed,      \* history: who has a notification coming, for each item
  tab,       \* pinItem requests of the members
  move,      \* stage changes and archivals
  faults

vars == <<item, active, limit, top, bell, owed, tab, move, faults>>

-----------------------------------------------------------------------------

Pinnable == {"IDEA", "PLANNED"}

Item == [stage : AllStages \cup {"none"}, archived : BOOLEAN]

TooMany == 2

Bell == [progress : 0 .. TooMany, shipped : 0 .. TooMany,
         boost : [Members -> 0 .. TooMany]]

NoBell == [progress |-> 0, shipped |-> 0, boost |-> [m \in Members |-> 0]]

\* `swap` is the item whose pin is given up for the new one.
Tab == [pc : {"idle", "item", "spend", "insert"},
        member : Members \cup {NoMember}, item : Items \cup {NoItem},
        swap : Items \cup {NoItem}, limit : 0 .. MaxLimit]

NoTab == [pc |-> "idle", member |-> NoMember, item |-> NoItem, swap |-> NoItem, limit |-> 0]

\* An archival is a move to "ARCHIVED"; `told` are the members still to tell.
Move == [pc : {"idle", "list", "commit", "check", "boosters", "author"},
         item : Items \cup {NoItem}, from : AllStages \cup {"none"},
         to : AllStages \cup {"ARCHIVED", "none"}, tell : SUBSET Members]

NoMove == [pc |-> "idle", item |-> NoItem, from |-> "none", to |-> "none",
           tell |-> {}]

TypeOK ==
  /\ item \in [Items -> Item]
  /\ active \subseteq Items \X Members
  /\ limit \in 0 .. MaxLimit
  /\ top \in 0 .. MaxLimit
  /\ bell \in [Items -> Bell]
  /\ owed \in [Items -> SUBSET Members]
  /\ tab \in [Requests -> Tab]
  /\ move \in [Curators -> Move]
  /\ faults \in 0 .. MaxFaults

Init ==
  /\ item = [i \in Items |-> [stage |-> "none", archived |-> FALSE]]
  /\ active = {}
  /\ limit = DefaultLimit
  /\ top = limit
  /\ bell = [i \in Items |-> NoBell]
  /\ owed = [i \in Items |-> {}]
  /\ tab = [t \in Requests |-> NoTab]
  /\ move = [c \in Curators |-> NoMove]
  /\ faults = 0

-----------------------------------------------------------------------------

Live(i) == item[i].stage # "none" /\ ~item[i].archived

Open(i) == Live(i) /\ item[i].stage \in Pinnable

BoostsOf(m) == {i \in Items : <<i, m>> \in active}

BoostersOf(i) == {m \in Members : <<i, m>> \in active}

\* An archived item keeps its boosts.
Releases_Slip(to) == to \notin Pinnable \cup {"ARCHIVED"}

\* PIN_RELEASING_STAGES, and archiveItem.
Releases(to) == to \notin Pinnable

\* Only the announcement that it shipped is looked for.
Reached_Slip(i, to) ==
  \/ to = "IN_PROGRESS" /\ bell[i].shipped > 0
  \/ to = "SHIPPED" /\ bell[i].shipped > 0

\* hasItemTriggerNotification, on the triggers that suppress a repetition.
Reached(i, to) ==
  \/ /\ to = "IN_PROGRESS"
     /\ \/ bell[i].progress > 0 \/ bell[i].shipped > 0
        \/ \E m \in Members : bell[i].boost[m] > 0
  \/ to = "SHIPPED" /\ bell[i].shipped > 0

More(n) == IF n < TooMany THEN n + 1 ELSE n

\* m's pin on i is deleted in a transaction that has not committed.
Locked(i, m) == \E t \in Requests :
  tab[t].member = m /\ tab[t].pc = "insert" /\ tab[t].swap = i

Moving(i) == \E c \in Curators : move[c].pc # "idle" /\ move[c].item = i

Boosting(i) == \E t \in Requests : tab[t].pc # "idle" /\ tab[t].item = i

-----------------------------------------------------------------------------
(* Items and settings.                                                     *)

CreateItem(i, stage) ==
  /\ item[i].stage = "none"
  /\ item' = [item EXCEPT ![i].stage = stage]
  /\ UNCHANGED <<active, limit, top, bell, owed, tab, move, faults>>

UpdateSettings(n) ==
  /\ limit' = n
  /\ top' = IF n > top THEN n ELSE top
  /\ UNCHANGED <<item, active, bell, owed, tab, move, faults>>

-----------------------------------------------------------------------------
(* pinItem and unpinItem.                                                  *)

Refused(t) == tab' = [tab EXCEPT ![t] = NoTab]

\* The limit is read before the transaction.  Nothing can be swapped for itself.
StartBoost(t, m, i, s) ==
  /\ tab[t].pc = "idle"
  /\ "twotabs" \in Env \/ \A u \in Requests : tab[u].member # m
  /\ "racepin" \in Env \/ ~Moving(i)
  /\ tab' = [tab EXCEPT ![t] =
       [pc |-> "item", member |-> m, item |-> i, swap |-> s, limit |-> limit]]
  /\ UNCHANGED <<item, active, limit, top, bell, owed, move, faults>>

\* Boosting what is boosted only updates the note.
ReadItem(t) ==
  LET i == tab[t].item IN
  /\ tab[t].pc = "item"
  /\ IF Open(i) /\ <<i, tab[t].member>> \notin active
       THEN tab' = [tab EXCEPT ![t].pc = "spend"]
       ELSE Refused(t)
  /\ UNCHANGED <<item, active, limit, top, bell, owed, move, faults>>

\* One boost more than the limit.
Affordable_Slip(m, s, n) == Cardinality(BoostsOf(m) \ {s}) <= n

\* The count that pinItem compares with the limit, after the swap.
Affordable(m, s, n) == Cardinality(BoostsOf(m) \ {s}) < n

SpendBoost(t) ==
  LET m == tab[t].member
      s == tab[t].swap IN
  /\ tab[t].pc = "spend"
  /\ s # NoItem => ~Locked(s, m)
  /\ IF /\ s # NoItem => <<s, m>> \in active
        /\ Affordable(m, s, tab[t].limit)
       THEN tab' = [tab EXCEPT ![t].pc = "insert"]
       ELSE Refused(t)
  /\ UNCHANGED <<item, active, limit, top, bell, owed, move, faults>>

\* The pin is made on the item that was given up.
InsertPin_Slip(t) ==
  LET m == tab[t].member
      i == tab[t].item IN
  /\ tab[t].pc = "insert"
  /\ active' = active \cup {<<tab[t].swap, m>>}
  /\ Refused(t)
  /\ UNCHANGED <<item, limit, top, bell, owed, move, faults>>

\* The insert and the commit; the unique index on active pins may refuse it.
InsertPin(t) ==
  LET m == tab[t].member
      i == tab[t].item IN
  /\ tab[t].pc = "insert"
  /\ active' = IF <<i, m>> \in active THEN active
               ELSE (active \ {<<tab[t].swap, m>>}) \cup {<<i, m>>}
  /\ Refused(t)
  /\ UNCHANGED <<item, limit, top, bell, owed, move, faults>>

UnpinItem(i, m) ==
  /\ <<i, m>> \in active
  /\ ~Locked(i, m)
  /\ active' = active \ {<<i, m>>}
  /\ UNCHANGED <<item, limit, top, bell, owed, tab, move, faults>>

-----------------------------------------------------------------------------
(* applyStageChange, declineItem and archiveItem.                          *)

Moved(c) == move' = [move EXCEPT ![c] = NoMove]

StartMove(c, i, to) ==
  /\ move[c].pc = "idle"
  /\ Live(i)
  /\ "racestage" \in Env \/ ~Moving(i)
  /\ "racepin" \in Env \/ ~Boosting(i)
  /\ move' = [move EXCEPT ![c] =
       [NoMove EXCEPT !.pc = "list", !.item = i, !.from = item[i].stage, !.to = to]]
  /\ UNCHANGED <<item, active, limit, top, bell, owed, tab, faults>>

\* The boosts are listed when they are released already.
ListBoosts_Slip(c) ==
  LET i == move[c].item IN
  /\ move[c].pc = "list"
  /\ move' = [move EXCEPT ![c].pc = "commit",
       ![c].tell = IF Releases(move[c].to) THEN {} ELSE BoostersOf(i)]
  /\ UNCHANGED <<item, active, limit, top, bell, owed, tab, faults>>

\* The transaction has updated the item's row, which it holds from here on,
\* and lists the boosts.
ListBoosts(c) ==
  LET i == move[c].item IN
  /\ move[c].pc = "list"
  /\ \A d \in Curators : move[d].pc = "commit" => move[d].item # i
  /\ move' = [move EXCEPT ![c].pc = "commit", ![c].tell = BoostersOf(i)]
  /\ UNCHANGED <<item, active, limit, top, bell, owed, tab, faults>>

\* What releaseActivePins leaves.
Released(i, to) == IF Releases(to) THEN active \ ({i} \X Members) ELSE active

\* Who has to hear of the first move to In Progress.
Owed(c) ==
  LET i == move[c].item IN
  IF move[c].to # "IN_PROGRESS" \/ Reached(i, "IN_PROGRESS") THEN {}
  ELSE (BoostersOf(i) \ {Author[i]})
         \cup {m \in {Author[i]} : move[c].from # "IN_PROGRESS"}

\* Boosts that come in between are released too.  An archived item may still
\* be moved by a request that read it before.
CommitMove(c) ==
  LET i  == move[c].item
      to == move[c].to IN
  /\ move[c].pc = "commit"
  /\ Releases(to) => \A m \in BoostersOf(i) : ~Locked(i, m)
  /\ item' = [item EXCEPT ![i] =
       IF to = "ARCHIVED" THEN [@ EXCEPT !.archived = TRUE]
       ELSE [@ EXCEPT !.stage = to]]
  /\ active' = Released(i, to)
  /\ owed' = [owed EXCEPT ![i] = @ \cup Owed(c)]
  /\ IF to \in {"IN_PROGRESS", "SHIPPED"}
       THEN move' = [move EXCEPT ![c].pc = "check"]
       ELSE Moved(c)
  /\ UNCHANGED <<limit, top, bell, tab, faults>>

\* Whether the item was announced in this stage before.
CheckBells(c) ==
  LET i  == move[c].item
      to == move[c].to IN
  /\ move[c].pc = "check"
  /\ IF Reached(i, to) THEN Moved(c)
     ELSE move' = [move EXCEPT
       ![c].pc = "boosters",
       ![c].tell = IF to = "IN_PROGRESS" THEN @ \ {Author[i]} ELSE {}]
  /\ UNCHANGED <<item, active, limit, top, bell, owed, tab, faults>>

TellBooster(c, m) ==
  LET i == move[c].item IN
  /\ move[c].pc = "boosters"
  /\ m \in move[c].tell
  /\ bell' = [bell EXCEPT ![i].boost[m] = More(@)]
  /\ move' = [move EXCEPT ![c].tell = @ \ {m}]
  /\ UNCHANGED <<item, active, limit, top, owed, tab, faults>>

\* A notification that cannot be stored is logged, and the loop goes on.
LoseBooster(c, m) ==
  /\ move[c].pc = "boosters"
  /\ m \in move[c].tell
  /\ faults < MaxFaults
  /\ faults' = faults + 1
  /\ move' = [move EXCEPT ![c].tell = @ \ {m}]
  /\ UNCHANGED <<item, active, limit, top, bell, owed, tab>>

\* Nothing is told of a move from a stage to itself.
BoostersTold(c) ==
  /\ move[c].pc = "boosters"
  /\ move[c].tell = {}
  /\ IF move[c].from = move[c].to THEN Moved(c)
     ELSE move' = [move EXCEPT ![c].pc = "author"]
  /\ UNCHANGED <<item, active, limit, top, bell, owed, tab, faults>>

\* The author hears of In Progress, everybody of Shipped.
TellAuthor(c) ==
  LET i == move[c].item IN
  /\ move[c].pc = "author"
  /\ bell' = IF move[c].to = "SHIPPED"
               THEN [bell EXCEPT ![i].shipped = More(@)]
               ELSE [bell EXCEPT ![i].progress = More(@)]
  /\ Moved(c)
  /\ UNCHANGED <<item, active, limit, top, owed, tab, faults>>

\* The pod dies, or the last notification cannot be stored.
Stop(c) ==
  /\ move[c].pc # "idle"
  /\ faults < MaxFaults
  /\ faults' = faults + 1
  /\ Moved(c)
  /\ UNCHANGED <<item, active, limit, top, bell, owed, tab>>

-----------------------------------------------------------------------------

TabStep(t) == ReadItem(t) \/ SpendBoost(t) \/ InsertPin(t)

MoveStep(c) ==
  \/ ListBoosts(c) \/ CommitMove(c) \/ CheckBells(c)
  \/ \E m \in Members : TellBooster(c, m) \/ LoseBooster(c, m)
  \/ BoostersTold(c) \/ TellAuthor(c)

Next ==
  \/ \E i \in Items : \E stage \in Moves[i] \cap AllStages : CreateItem(i, stage)
  \/ \E n \in 0 .. MaxLimit : UpdateSettings(n)
  \/ \E t \in Requests, m \in Members, i \in Items :
       \E s \in (Items \ {i}) \cup {NoItem} : StartBoost(t, m, i, s)
  \/ \E t \in Requests : TabStep(t)
  \/ \E i \in Items, m \in Members : UnpinItem(i, m)
  \/ \E c \in Curators, i \in Items :
       \E to \in Moves[i] : StartMove(c, i, to)
  \/ \E c \in Curators : MoveStep(c) \/ Stop(c)

Spec == Init /\ [][Next]_vars

\* A request that has begun goes on.  Nobody has to make one.
Fairness ==
  /\ \A t \in Requests : WF_vars(TabStep(t))
  /\ \A c \in Curators : WF_vars(MoveStep(c))

FairSpec == Spec /\ Fairness

-----------------------------------------------------------------------------
(* Properties.                                                             *)

\* Nobody ever holds more boosts than the budget allowed at some time: the count
\* that pinItem makes is good until its insert, across settings, swaps, releases
\* and withdrawals.  Kept for one request of a member at a time only.
BudgetKept == \A m \in Members : Cardinality(BoostsOf(m)) <= top

\* Boosts only count on items in play: what leaves play returns them all
\* (PINNABLE_STAGES, PIN_RELEASING_STAGES, archiveItem).  Not kept by a boost that
\* overlaps a move.
FrozenHoldsNoBoost == \A i \in Items : BoostersOf(i) # {} => Open(i)

\* "Committed-stage notifications fire at most once per item": each person is
\* told once, whatever path an item takes through the stages, and also when a
\* request dies halfway or a notification is lost.  Not kept by two people who
\* move one item at once.
CommittedOnce ==
  \A i \in Items :
    /\ bell[i].progress < TooMany /\ bell[i].shipped < TooMany
    /\ \A m \in Members : bell[i].boost[m] < TooMany

Told(i, m) ==
  IF m = Author[i] THEN bell[i].progress > 0 ELSE bell[i].boost[m] > 0

\* Whoever loses a boost to the first move to In Progress, and the author of
\* the item, hears of it unless a pod died or a notification was lost: nothing
\* but the running request remembers them.
OwedAreTold ==
  \A i \in Items, m \in Members :
    m \in owed[i] ~> Told(i, m) \/ faults > 0

=============================================================================
