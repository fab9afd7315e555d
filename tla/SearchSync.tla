----------------------------- MODULE SearchSync -----------------------------
(***************************************************************************)
(* The copy of the directory in the search index (lambda-opensearch-sync): *)
(* each run removes what is no longer listed, indexes what has changed     *)
(* since the checkpoint, and moves the checkpoint; then it does the same   *)
(* with the threads of the forum, by a checkpoint of its own.              *)
(*                                                                         *)
(* A document stands for the version of the row it was made from: every    *)
(* write gives a row a new time.  One step is one call to the database or  *)
(* to the index.  A run may end at any of them, by an error or a timeout.  *)
(*                                                                         *)
(* Left out: what documents hold; two runs at once, whose schedule is not  *)
(* in the repository; writes of one millisecond and transactions that      *)
(* commit after a later one; rows of other tables that have no time        *)
(* (withdrawn policies), edited and restored posts, and deleted events,    *)
(* none of which the run looks for.                                        *)
(***************************************************************************)
EXTENDS Naturals, FiniteSets

CONSTANTS
  Rows,
  Kind,         \* the table of a row
  Threads,
  MaxPost,      \* posts are numbered from 1 on
  ThreadOf,
  MaxTime,      \* bound on writes
  MaxChanges,   \* bound on writes and posts together
  MaxFaults     \* bound on runs that fail and on documents that are refused

Kinds == {"member", "team", "project", "event"}

Posts == 1 .. MaxPost

ASSUME SearchSyncAssumptions ==
  /\ Kind \in [Rows -> Kinds]
  /\ MaxPost \in Nat /\ MaxTime \in Nat
  /\ MaxChanges \in Nat /\ MaxFaults \in Nat
  /\ ThreadOf \in [Posts -> Threads]

VARIABLES
  clock,
  row,
  doc,          \* the time of the row of which there is a document, or 0
  checkpoint,
  run,
  missed,       \* history: rows written behind the back of a run, or refused
  post,
  thread,       \* the posts in a thread's document
  forumAt,      \* the forum's checkpoint
  faults

rowVars == <<clock, row, missed>>
forumVars == <<post, thread, forumAt>>
vars == <<clock, row, doc, checkpoint, run, missed, post, thread, forumAt, faults>>

-----------------------------------------------------------------------------

\* A row with time 0 is not there.  A member is listed once approved, a team
\* when it is neither L0 nor rejected, a project until deleted, an event always.
Row == [listed : BOOLEAN, ts : 0 .. MaxTime]

Post == [state : {"absent", "live", "deleted"}, ts : 0 .. MaxPost]

Mark == [ts : 0 .. MaxPost, pid : 0 .. MaxPost]

\* asked: the tables that the run has read for documents, until it has read
\* how far it came.
Run == [pc : {"idle", "remove", "removing", "index", "indexing", "max", "save",
              "forum", "build", "put", "mark"},
        kind : Kinds, since : 0 .. MaxTime, max : 0 .. MaxTime, changed : BOOLEAN,
        asked : SUBSET Kinds, batch : [Rows -> 0 .. MaxTime],
        found : SUBSET Threads, built : [Threads -> SUBSET Posts], top : Mark,
        unsaved : SUBSET {"ts", "pid"}]

NoBatch == [e \in Rows |-> 0]

NoRun == [pc |-> "idle", kind |-> "member", since |-> 0, max |-> 0, changed |-> FALSE,
          asked |-> {}, batch |-> NoBatch, found |-> {},
          built |-> [t \in Threads |-> {}], top |-> [ts |-> 0, pid |-> 0], unsaved |-> {}]

Indexing(k) == run.pc = "indexing" /\ run.kind = k

\* A bulk request that adds documents has those of one table, and no document
\* is ahead of its row.
TypeOK ==
  /\ clock \in 0 .. MaxTime
  /\ row \in [Rows -> Row]
  /\ doc \in [Rows -> 0 .. MaxTime]
  /\ checkpoint \in 0 .. MaxTime
  /\ run \in Run
  /\ missed \subseteq Rows
  /\ post \in [Posts -> Post]
  /\ thread \in [Threads -> SUBSET Posts]
  /\ forumAt \in Mark
  /\ faults \in 0 .. MaxFaults
  /\ \A e \in Rows : run.pc \in {"indexing", "removing"} /\ run.batch[e] > 0 => Kind[e] = run.kind
  /\ \A e \in Rows : doc[e] <= row[e].ts /\ row[e].ts <= clock
  /\ checkpoint <= clock

Init ==
  /\ clock = 0
  /\ row = [e \in Rows |-> [listed |-> FALSE, ts |-> 0]]
  /\ doc = [e \in Rows |-> 0]
  /\ checkpoint = 0
  /\ run = NoRun
  /\ missed = {}
  /\ post = [p \in Posts |-> [state |-> "absent", ts |-> 0]]
  /\ thread = [t \in Threads |-> {}]
  /\ forumAt = [ts |-> 0, pid |-> 0]
  /\ faults = 0

-----------------------------------------------------------------------------
(* The directory and the forum.                                            *)

Changes == clock + Cardinality({p \in Posts : post[p].state # "absent"})

\* A row is created, changed, listed or taken from the list.
Write(e, listed) ==
  /\ clock < MaxTime /\ Changes < MaxChanges
  /\ Kind[e] = "event" => listed
  /\ clock' = clock + 1
  /\ row' = [row EXCEPT ![e] = [listed |-> listed, ts |-> clock + 1]]
  /\ missed' = IF Kind[e] \in run.asked THEN missed \cup {e} ELSE missed \ {e}
  /\ UNCHANGED <<doc, checkpoint, run, forumVars, faults>>

\* Posts are numbered in their order in time; two may be of the same time.
AddPost(p) ==
  /\ post[p].state = "absent" /\ Changes < MaxChanges
  /\ p > 1 => post[p - 1].state # "absent"
  /\ LET last == IF p > 1 THEN post[p - 1].ts ELSE 1
     IN \E ts \in {last, last + 1} \cap 1 .. MaxPost :
          post' = [post EXCEPT ![p] = [state |-> "live", ts |-> ts]]
  /\ UNCHANGED <<rowVars, doc, checkpoint, run, thread, forumAt, faults>>

DeletePost(p) ==
  /\ post[p].state = "live"
  /\ post' = [post EXCEPT ![p].state = "deleted"]
  /\ UNCHANGED <<rowVars, doc, checkpoint, run, thread, forumAt, faults>>

-----------------------------------------------------------------------------
(* A run: what is to go.                                                   *)

Out(e) == row[e].ts > 0 /\ ~row[e].listed

StartRun ==
  /\ run.pc = "idle"
  /\ run' = [NoRun EXCEPT !.pc = "remove", !.since = checkpoint]
  /\ UNCHANGED <<rowVars, doc, checkpoint, forumVars, faults>>

\* Only what has changed since the checkpoint is looked at.
Gone_Slip(e) == Out(e) /\ row[e].ts > run.since

\* The queries of members and of projects go over the whole table; teams are
\* compared with all documents of their index.
Gone(e) == Out(e)

\* The query, and its result as the documents to be deleted.
FindGone ==
  /\ run.pc = "remove"
  /\ run' = [run EXCEPT !.pc = "removing",
       !.batch = [e \in Rows |-> IF Kind[e] = run.kind /\ Gone(e) THEN row[e].ts ELSE 0]]
  /\ UNCHANGED <<rowVars, doc, checkpoint, forumVars, faults>>

\* Members, projects, teams; then members, teams, projects, events.
AfterRemove ==
  IF run.kind = "member" THEN [run EXCEPT !.pc = "remove", !.kind = "project", !.batch = NoBatch]
  ELSE IF run.kind = "project" THEN [run EXCEPT !.pc = "remove", !.kind = "team", !.batch = NoBatch]
  ELSE [run EXCEPT !.pc = "index", !.kind = "member", !.batch = NoBatch]

\* Documents of a request that the index refuses; the run only logs them.
Refusals(batch) ==
  IF faults < MaxFaults THEN SUBSET {e \in Rows : batch[e] > 0} ELSE {{}}

CountFault(refused) == faults' = IF refused = {} THEN faults ELSE faults + 1

Remove ==
  /\ run.pc = "removing"
  /\ \E refused \in Refusals(run.batch) :
       /\ doc' = [e \in Rows |-> IF run.batch[e] > 0 /\ e \notin refused THEN 0 ELSE doc[e]]
       /\ CountFault(refused)
  /\ run' = AfterRemove
  /\ UNCHANGED <<rowVars, checkpoint, forumVars>>

-----------------------------------------------------------------------------
(* A run: what has changed.                                                *)

\* The comparison takes the checkpoint for the first time that is new.
Fresh_Slip(e) == row[e].listed /\ row[e].ts > run.since + 1

Fresh(e) == row[e].listed /\ row[e].ts > run.since

FindFresh ==
  /\ run.pc = "index"
  /\ run' = [run EXCEPT !.pc = "indexing", !.asked = @ \cup {run.kind},
       !.batch = [e \in Rows |-> IF Kind[e] = run.kind /\ Fresh(e) THEN row[e].ts ELSE 0]]
  /\ UNCHANGED <<rowVars, doc, checkpoint, forumVars, faults>>

\* The result of the last query stays for the next request.
AfterIndex_Slip(changed) ==
  LET ready == [run EXCEPT !.changed = changed]
  IN IF run.kind = "member" THEN [ready EXCEPT !.pc = "indexing", !.kind = "team"]
     ELSE [ready EXCEPT !.pc = "max"]

AfterIndex(changed) ==
  LET ready == [run EXCEPT !.changed = changed, !.batch = NoBatch]
  IN IF run.kind = "member" THEN [ready EXCEPT !.pc = "index", !.kind = "team"]
     ELSE IF run.kind = "team" THEN [ready EXCEPT !.pc = "index", !.kind = "project"]
     ELSE IF run.kind = "project" THEN [ready EXCEPT !.pc = "index", !.kind = "event"]
     ELSE IF changed THEN [ready EXCEPT !.pc = "max"]
     ELSE [ready EXCEPT !.pc = "forum", !.asked = {}]

\* What a table adds to the count of changes: nothing if a document of it was
\* refused, except that nobody asks in the case of teams.
Counts(refused) == run.batch # NoBatch /\ (refused = {} \/ run.kind = "team")

Index ==
  /\ run.pc = "indexing"
  /\ \E refused \in Refusals(run.batch) :
       /\ doc' = [e \in Rows |-> IF run.batch[e] > 0 /\ e \notin refused THEN run.batch[e] ELSE doc[e]]
       /\ missed' = missed \cup refused
       /\ CountFault(refused)
       /\ run' = AfterIndex(run.changed \/ Counts(refused))
  /\ UNCHANGED <<clock, row, checkpoint, forumVars>>

\* getMaxTimestamp: the newest time in any of the tables by now.
ReadMax ==
  /\ run.pc = "max"
  /\ run' = [run EXCEPT !.pc = IF clock > run.since THEN "save" ELSE "forum",
                        !.max = clock, !.asked = {}]
  /\ UNCHANGED <<rowVars, doc, checkpoint, forumVars, faults>>

SaveCheckpoint ==
  /\ run.pc = "save"
  /\ checkpoint' = run.max
  /\ run' = [run EXCEPT !.pc = "forum"]
  /\ UNCHANGED <<rowVars, doc, forumVars, faults>>

-----------------------------------------------------------------------------
(* A run: the forum.                                                       *)

Live(p) == post[p].state = "live"

\* Posts of the checkpoint's own time are not looked at.
Later_Slip(p, at) == post[p].ts > at.ts

\* lexNewer, and the same order in the query.
Later(p, at) == post[p].ts > at.ts \/ (post[p].ts = at.ts /\ p > at.pid)

News == {p \in Posts : Live(p) /\ Later(p, forumAt)}

\* Posts are numbered in the order of time: the newest has the last number.
Newest(p) == p \in News /\ \A q \in News : q <= p

FindPosts ==
  /\ run.pc = "forum"
  /\ \/ News = {} /\ run' = NoRun
     \/ \E p \in Posts :
          /\ Newest(p)
          /\ run' = [NoRun EXCEPT !.pc = "build", !.found = {ThreadOf[q] : q \in News},
                                 !.top = [ts |-> post[p].ts, pid |-> p]]
  /\ UNCHANGED <<rowVars, doc, checkpoint, forumVars, faults>>

\* The whole thread is read again, which is skipped if no post is left of it.
Build(t) ==
  /\ run.pc = "build"
  /\ t \in run.found
  /\ run' = [run EXCEPT !.found = @ \ {t},
               !.built[t] = {p \in Posts : Live(p) /\ ThreadOf[p] = t}]
  /\ UNCHANGED <<rowVars, doc, checkpoint, forumVars, faults>>

\* All threads have been read: there may be nothing to put.
EndBuild ==
  /\ run.pc = "build" /\ run.found = {}
  /\ run' = IF \A t \in Threads : run.built[t] = {} THEN NoRun ELSE [run EXCEPT !.pc = "put"]
  /\ UNCHANGED <<rowVars, doc, checkpoint, forumVars, faults>>

\* The index refuses some of the threads, which leaves the checkpoint.
PutThreads ==
  /\ run.pc = "put"
  /\ \E refused \in IF faults < MaxFaults
                    THEN SUBSET {t \in Threads : run.built[t] # {}} ELSE {{}} :
       /\ thread' = [t \in Threads |->
            IF run.built[t] # {} /\ t \notin refused THEN run.built[t] ELSE thread[t]]
       /\ CountFault(refused)
       /\ run' = IF refused = {} THEN [run EXCEPT !.pc = "mark", !.unsaved = {"ts", "pid"}]
                 ELSE NoRun
  /\ UNCHANGED <<rowVars, doc, checkpoint, post, forumAt>>

\* The two parts of the checkpoint are written at once, in any order.
SaveMark(part) ==
  /\ run.pc = "mark" /\ part \in run.unsaved
  /\ forumAt' = IF part = "ts" THEN [forumAt EXCEPT !.ts = run.top.ts]
                ELSE [forumAt EXCEPT !.pid = run.top.pid]
  /\ run' = IF run.unsaved = {part} THEN NoRun ELSE [run EXCEPT !.unsaved = @ \ {part}]
  /\ UNCHANGED <<rowVars, doc, checkpoint, post, thread, faults>>

\* The run throws, or is out of time.
Abort ==
  /\ run.pc # "idle"
  /\ faults < MaxFaults
  /\ faults' = faults + 1
  /\ run' = NoRun
  /\ UNCHANGED <<rowVars, doc, checkpoint, forumVars>>

-----------------------------------------------------------------------------

RowStep == FindGone \/ Remove \/ FindFresh \/ Index \/ ReadMax \/ SaveCheckpoint

ForumStep ==
  \/ FindPosts \/ EndBuild \/ PutThreads
  \/ \E t \in Threads : Build(t)
  \/ \E part \in {"ts", "pid"} : SaveMark(part)

Next ==
  \/ \E e \in Rows, listed \in BOOLEAN : Write(e, listed)
  \/ \E p \in Posts : AddPost(p) \/ DeletePost(p)
  \/ StartRun \/ RowStep \/ ForumStep \/ Abort

Spec == Init /\ [][Next]_vars

\* The schedule starts runs for ever, and a run goes on until it ends.
Fairness == WF_vars(StartRun \/ RowStep \/ ForumStep)

FairSpec == Spec /\ Fairness

-----------------------------------------------------------------------------
(* Properties.                                                             *)

\* A row whose document is not its last version is found by a later run, unless
\* it was written between its table's query and the reading of the new
\* checkpoint, or refused by the index: no failed run, no change of another
\* table and no row that leaves the list and comes back makes the checkpoint
\* step over it.
NothingSkipped ==
  \A e \in Rows : row[e].listed /\ doc[e] # row[e].ts /\ e \notin missed
                    => row[e].ts > checkpoint

\* What is taken from the list leaves the index, whatever runs fail, whatever
\* is refused, and also if a run had read it before.
RemovedLeaves == \A e \in Rows : Out(e) ~> (doc[e] = 0 \/ ~Out(e))

\* A post that its thread's document does not have is beyond the forum's
\* checkpoint, also if a run got only one part of the checkpoint saved.
NoPostSkipped ==
  \A p \in Posts : Live(p) /\ p \notin thread[ThreadOf[p]] => Later(p, forumAt)
=============================================================================
