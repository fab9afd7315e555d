-------------------------- MODULE SearchSyncProofs --------------------------
(***************************************************************************)
(* SearchSync: type correctness, and that neither checkpoint ever steps    *)
(* over a change that was not written behind the back of a run.            *)
(***************************************************************************)
EXTENDS SearchSync, TLAPS

USE SearchSyncAssumptions

-----------------------------------------------------------------------------
(* What a run knows.                                                       *)

RowPhase == {"remove", "removing", "index", "indexing", "max", "save"}

ForumPhase == {"build", "put", "mark"}

\* The tables read so far, in the order of the code.
InOrder ==
  /\ run.pc \in {"index", "indexing"} =>
       LET read == IF run.pc = "indexing" THEN {run.kind} ELSE {}
       IN run.asked = read \cup
            (IF run.kind = "member" THEN {}
             ELSE IF run.kind = "team" THEN {"member"}
             ELSE IF run.kind = "project" THEN {"member", "team"}
             ELSE {"member", "team", "project"})
  /\ run.pc = "max" => run.asked = Kinds
  /\ run.pc \notin {"index", "indexing", "max"} => run.asked = {}

Since == run.pc \in RowPhase => run.since = checkpoint

\* No version is read that is yet to come.
Bounds ==
  /\ run.pc = "save" => run.max <= clock
  /\ run.pc \in {"indexing", "removing"} => \A e \in Rows : run.batch[e] <= row[e].ts

Kept(e) == row[e].listed /\ e \notin missed

Current(e) == doc[e] = row[e].ts

\* What the run has read is indexed, or about to be.
Seen ==
  \A e \in Rows : Kept(e) =>
    /\ Kind[e] \in run.asked /\ ~Indexing(Kind[e]) => Current(e)
    /\ Indexing(Kind[e]) =>
         run.batch[e] = row[e].ts \/ (run.batch[e] = 0 /\ Current(e))
    /\ run.pc = "save" /\ ~Current(e) => row[e].ts > run.max

\* A row that came back while its document is about to be deleted is new.
CameBack ==
  \A e \in Rows : run.pc = "removing" /\ run.batch[e] > 0 /\ row[e].listed
                    => row[e].ts > checkpoint

TypeInv == TypeOK /\ Bounds

RowInv == TypeInv /\ InOrder /\ Since /\ Seen /\ CameBack /\ NothingSkipped

-----------------------------------------------------------------------------
(* What a run knows of the forum.                                          *)

There(p) == post[p].state # "absent"

Ordered == \A p, q \in Posts : p < q /\ There(q) => There(p) /\ post[p].ts <= post[q].ts

\* No part of the checkpoint is ahead of the posts.
MarkIsPast ==
  /\ forumAt.pid > 0 => There(forumAt.pid)
  /\ forumAt.ts > 0 => \E q \in Posts : There(q) /\ forumAt.ts <= post[q].ts
  /\ run.pc \in ForumPhase =>
       /\ run.top.pid \in Posts /\ There(run.top.pid)
       /\ post[run.top.pid].ts = run.top.ts
       /\ forumAt.ts <= run.top.ts

\* A post of the time of the new checkpoint and after it is after the old one's
\* number too, so that the parts of the two can be mixed.
Mixes ==
  run.pc \in ForumPhase =>
    \A p \in Posts : Live(p) /\ post[p].ts = run.top.ts /\ p > run.top.pid => p > forumAt.pid

\* What was read of a thread is all of it but what came after the newest post.
Gathered ==
  /\ run.pc = "put" => run.found = {}
  /\ \A p \in Posts : Live(p) =>
       /\ run.pc \in {"build", "put"} /\ run.built[ThreadOf[p]] # {} =>
            p \in run.built[ThreadOf[p]] \/ Later(p, run.top)
       /\ run.pc \in {"build", "put"} /\ ThreadOf[p] \notin run.found
            /\ p \notin thread[ThreadOf[p]] =>
            p \in run.built[ThreadOf[p]] \/ Later(p, run.top)
       /\ run.pc = "mark" /\ p \notin thread[ThreadOf[p]] => Later(p, run.top)

PostInv == TypeInv /\ Ordered /\ MarkIsPast /\ Mixes /\ Gathered /\ NoPostSkipped

-----------------------------------------------------------------------------
(* Types.                                                                  *)

LEMMA NoRunType == NoRun \in Run /\ NoRun.pc = "idle" /\ NoRun.batch = NoBatch
  BY DEF NoRun, Run, NoBatch, Kinds, Mark

LEMMA TypeInit == Init => TypeInv
<1> SUFFICES ASSUME Init PROVE TypeInv
  OBVIOUS
<1>1. run \in Run /\ run.pc = "idle"
  BY NoRunType DEF Init
<1> QED
  BY <1>1 DEF Init, TypeInv, TypeOK, Bounds, Row, Post, Mark, Posts

\* A step that leaves rows, documents and the checkpoint keeps TypeInv when its
\* run has the type and nothing in its batch.
LEMMA QuietType ==
  ASSUME TypeInv, UNCHANGED <<rowVars, doc, checkpoint>>,
         run' \in Run, run'.pc \notin {"removing", "indexing", "save"},
         post' \in [Posts -> Post], thread' \in [Threads -> SUBSET Posts],
         forumAt' \in Mark, faults' \in 0 .. MaxFaults
  PROVE  TypeInv'
  BY DEF TypeInv, TypeOK, Bounds, rowVars

LEMMA CountType ==
  ASSUME TypeInv, NEW refused, CountFault(refused), refused # {} => faults < MaxFaults
  PROVE  faults' \in 0 .. MaxFaults
  BY DEF TypeInv, TypeOK, CountFault

LEMMA WriteType ==
  ASSUME TypeInv, NEW e \in Rows, NEW listed \in BOOLEAN, Write(e, listed)
  PROVE  TypeInv'
<1> DEFINE new == [listed |-> listed, ts |-> clock + 1]
<1>1. clock \in 0 .. MaxTime /\ clock + 1 \in 0 .. MaxTime
  BY DEF Write, TypeInv, TypeOK
<1>2. new \in Row /\ new.ts = clock + 1
  BY <1>1 DEF Row
<1>3. row' = [row EXCEPT ![e] = new] /\ row \in [Rows -> Row]
  BY DEF Write, TypeInv, TypeOK
<1> HIDE DEF new
<1>4. row' \in [Rows -> Row]
  BY <1>2, <1>3
<1>5. \A f \in Rows : row'[f].ts = IF f = e THEN clock + 1 ELSE row[f].ts
  BY <1>2, <1>3
<1>6. \A f \in Rows : row[f].ts \in 0 .. MaxTime
  BY <1>3 DEF Row
<1>7. \A f \in Rows : row[f].ts <= row'[f].ts /\ row'[f].ts <= clock'
  BY <1>1, <1>5, <1>6 DEF Write, TypeInv, TypeOK
<1>8. /\ clock' = clock + 1 /\ clock < MaxTime
      /\ UNCHANGED <<doc, checkpoint, run, post, thread, forumAt, faults>>
      /\ missed' \subseteq Rows
  BY DEF Write, forumVars, TypeInv, TypeOK
<1>9. \A f \in Rows : doc[f] \in 0 .. MaxTime /\ run.batch[f] \in 0 .. MaxTime
  BY DEF TypeInv, TypeOK, Run
<1>10. run.max \in 0 .. MaxTime /\ checkpoint \in 0 .. MaxTime
  BY DEF TypeInv, TypeOK, Run
<1>11. \A f \in Rows : doc[f] <= row'[f].ts
  <2>1. \A f \in Rows : doc[f] <= row[f].ts
    BY DEF TypeInv, TypeOK
  <2>2. \A f \in Rows : row'[f].ts \in 0 .. MaxTime
    BY <1>1, <1>5, <1>6
  <2> QED
    BY <1>6, <1>7, <1>9, <2>1, <2>2
<1>12. checkpoint <= clock'
  BY <1>1, <1>8, <1>10 DEF TypeInv, TypeOK
<1>13. TypeOK'
  BY <1>1, <1>4, <1>7, <1>8, <1>11, <1>12 DEF TypeInv, TypeOK
<1>14. \A f \in Rows : run.pc \in {"indexing", "removing"} => run.batch[f] <= row'[f].ts
  <2>1. \A f \in Rows : run.pc \in {"indexing", "removing"} => run.batch[f] <= row[f].ts
    BY DEF TypeInv, Bounds
  <2>2. \A f \in Rows : row'[f].ts \in 0 .. MaxTime
    BY <1>1, <1>5, <1>6
  <2> QED
    BY <1>6, <1>7, <1>9, <2>1, <2>2
<1>15. Bounds'
  BY <1>1, <1>8, <1>10, <1>14 DEF TypeInv, Bounds
<1> QED
  BY <1>13, <1>15 DEF TypeInv

LEMMA PostsType ==
  ASSUME TypeInv, NEW p \in Posts, AddPost(p) \/ DeletePost(p)
  PROVE  TypeInv'
<1>1. post' \in [Posts -> Post]
  <2>1. CASE AddPost(p)
    <3>1. PICK ts \in 1 .. MaxPost : post' = [post EXCEPT ![p] = [state |-> "live", ts |-> ts]]
      BY <2>1 DEF AddPost
    <3>2. [state |-> "live", ts |-> ts] \in Post
      BY DEF Post
    <3> QED
      BY <3>1, <3>2 DEF TypeInv, TypeOK
  <2>2. CASE DeletePost(p)
    <3>1. [post[p] EXCEPT !.state = "deleted"] \in Post
      BY DEF TypeInv, TypeOK, Post
    <3> QED
      BY <2>2, <3>1 DEF DeletePost, TypeInv, TypeOK
  <2> QED
    BY <2>1, <2>2
<1>2. UNCHANGED <<rowVars, doc, checkpoint, run, thread, forumAt, faults>>
  BY DEF AddPost, DeletePost
<1> QED
  BY <1>1, <1>2 DEF TypeInv, TypeOK, Bounds, rowVars

LEMMA FindType ==
  ASSUME TypeInv, FindGone \/ FindFresh
  PROVE  TypeInv'
<1>1. \A e \in Rows : row[e].ts \in 0 .. MaxTime
  BY DEF TypeInv, TypeOK, Row
<1>2. PICK b \in [Rows -> 0 .. MaxTime] :
        /\ run' = [run EXCEPT !.pc = "removing", !.batch = b] \/
           run' = [run EXCEPT !.pc = "indexing", !.asked = @ \cup {run.kind}, !.batch = b]
        /\ \A e \in Rows : b[e] <= row[e].ts /\ (b[e] > 0 => Kind[e] = run.kind)
  <2>1. CASE FindGone
    <3> DEFINE b == [e \in Rows |-> IF Kind[e] = run.kind /\ Gone(e) THEN row[e].ts ELSE 0]
    <3>1. b \in [Rows -> 0 .. MaxTime] /\ \A e \in Rows : b[e] <= row[e].ts /\ (b[e] > 0 => Kind[e] = run.kind)
      BY <1>1
    <3>2. run' = [run EXCEPT !.pc = "removing", !.batch = b]
      BY <2>1 DEF FindGone
    <3> QED
      BY <3>1, <3>2
  <2>2. CASE FindFresh
    <3> DEFINE b == [e \in Rows |-> IF Kind[e] = run.kind /\ Fresh(e) THEN row[e].ts ELSE 0]
    <3>1. b \in [Rows -> 0 .. MaxTime] /\ \A e \in Rows : b[e] <= row[e].ts /\ (b[e] > 0 => Kind[e] = run.kind)
      BY <1>1
    <3>2. run' = [run EXCEPT !.pc = "indexing", !.asked = @ \cup {run.kind}, !.batch = b]
      BY <2>2 DEF FindFresh
    <3> QED
      BY <3>1, <3>2
  <2> QED
    BY <2>1, <2>2
<1>3. run' \in Run /\ run'.batch = b /\ run'.kind = run.kind /\ run'.pc \in {"removing", "indexing"}
  <2>1. run \in Run /\ run.kind \in Kinds /\ run.asked \cup {run.kind} \in SUBSET Kinds
    BY DEF TypeInv, TypeOK, Run
  <2>2. CASE run' = [run EXCEPT !.pc = "removing", !.batch = b]
    BY <1>2, <2>1, <2>2 DEF Run
  <2>3. CASE run' = [run EXCEPT !.pc = "indexing", !.asked = @ \cup {run.kind}, !.batch = b]
    <3> DEFINE more == run.asked \cup {run.kind}
    <3>1. run' = [run EXCEPT !.pc = "indexing", !.asked = more, !.batch = b]
      BY <2>1, <2>3 DEF Run
    <3> HIDE DEF more
    <3> QED
      BY <2>1, <3>1 DEF Run, more
  <2> QED
    BY <1>2, <2>2, <2>3
<1>4. UNCHANGED <<clock, row, missed, doc, checkpoint, post, thread, forumAt, faults>>
  BY DEF FindGone, FindFresh, rowVars, forumVars
<1> QED
  BY <1>2, <1>3, <1>4 DEF TypeInv, TypeOK, Bounds

\* A request that writes documents from its batch, or deletes those of it.
LEMMA PutType ==
  ASSUME TypeInv, Remove \/ Index
  PROVE  TypeInv'
<1>1. /\ run \in Run
      /\ \A e \in Rows : row[e].ts \in 0 .. MaxTime /\ doc[e] \in 0 .. MaxTime
      /\ \A e \in Rows : run.batch[e] \in 0 .. MaxTime
      /\ \A e \in Rows : run.batch[e] <= row[e].ts /\ doc[e] <= row[e].ts
  BY DEF TypeInv, TypeOK, Bounds, Run, Row, Remove, Index
<1>2. PICK refused \in SUBSET Rows :
        /\ refused # {} => faults < MaxFaults
        /\ CountFault(refused)
        /\ \/ doc' = [e \in Rows |-> IF run.batch[e] > 0 /\ e \notin refused THEN 0 ELSE doc[e]]
           \/ doc' = [e \in Rows |-> IF run.batch[e] > 0 /\ e \notin refused
                                     THEN run.batch[e] ELSE doc[e]]
        /\ missed' \in {missed, missed \cup refused}
        /\ run' = AfterRemove \/ run' = AfterIndex(run.changed \/ Counts(refused))
  BY DEF Remove, Index, Refusals, rowVars
<1>3. faults' \in 0 .. MaxFaults
  BY <1>2, CountType
<1>4. doc' \in [Rows -> 0 .. MaxTime] /\ \A e \in Rows : doc'[e] <= row[e].ts
  BY <1>1, <1>2
<1>5. run' \in Run /\ run'.pc \notin {"removing", "indexing", "save"}
  <2>1. NoBatch \in [Rows -> 0 .. MaxTime]
    BY DEF NoBatch
  <2>2. CASE run' = AfterRemove
    BY <1>1, <2>1, <2>2 DEF AfterRemove, Run, Kinds
  <2>3. CASE run' = AfterIndex(run.changed \/ Counts(refused))
    <3> DEFINE changed == run.changed \/ Counts(refused)
               ready == [run EXCEPT !.changed = changed, !.batch = NoBatch]
    <3>1. changed \in BOOLEAN
      BY DEF Counts
    <3>2. run' = AfterIndex(changed)
      BY <2>3
    <3> HIDE DEF changed
    <3>3. ready \in Run /\ ready.kind = run.kind
      BY <1>1, <2>1, <3>1 DEF Run
    <3>4. run' \in {[ready EXCEPT !.pc = "index", !.kind = "team"],
                    [ready EXCEPT !.pc = "index", !.kind = "project"],
                    [ready EXCEPT !.pc = "index", !.kind = "event"],
                    [ready EXCEPT !.pc = "max"],
                    [ready EXCEPT !.pc = "forum", !.asked = {}]}
      BY <3>2 DEF AfterIndex
    <3> HIDE DEF ready
    <3>5. CASE run' = [ready EXCEPT !.pc = "forum", !.asked = {}]
      BY <3>3, <3>5 DEF Run
    <3>6. CASE run' = [ready EXCEPT !.pc = "max"]
      BY <3>3, <3>6 DEF Run
    <3>7. ASSUME NEW k \in Kinds, run' = [ready EXCEPT !.pc = "index", !.kind = k]
          PROVE  run' \in Run /\ run'.pc = "index"
      BY <3>3, <3>7 DEF Run
    <3> QED
      BY <3>4, <3>5, <3>6, <3>7 DEF Kinds
  <2> QED
    BY <1>2, <2>2, <2>3
<1>6. UNCHANGED <<clock, row, checkpoint, post, thread, forumAt>> /\ missed' \subseteq Rows
  BY <1>2 DEF Remove, Index, rowVars, forumVars, TypeInv, TypeOK
<1> QED
  BY <1>3, <1>4, <1>5, <1>6 DEF TypeInv, TypeOK, Bounds

LEMMA MaxType ==
  ASSUME TypeInv, ReadMax \/ SaveCheckpoint
  PROVE  TypeInv'
<1>1. run \in Run /\ clock \in 0 .. MaxTime
  BY DEF TypeInv, TypeOK
<1>2. UNCHANGED <<clock, row, missed, doc, post, thread, forumAt, faults>>
  BY DEF ReadMax, SaveCheckpoint, rowVars, forumVars
<1>3. CASE ReadMax
  <2>1. run' \in Run /\ run'.pc \in {"save", "forum"} /\ run'.max = clock
    BY <1>1, <1>3 DEF ReadMax, Run
  <2> QED
    BY <1>2, <1>3, <2>1 DEF TypeInv, TypeOK, Bounds, ReadMax
<1>4. CASE SaveCheckpoint
  <2>1. run' \in Run /\ run'.pc = "forum" /\ checkpoint' = run.max
    BY <1>1, <1>4 DEF SaveCheckpoint, Run
  <2>2. run.max \in 0 .. MaxTime /\ run.max <= clock
    BY <1>1, <1>4 DEF Run, TypeInv, Bounds, SaveCheckpoint
  <2> QED
    BY <1>2, <2>1, <2>2 DEF TypeInv, TypeOK, Bounds
<1> QED
  BY <1>3, <1>4

LEMMA RunsType ==
  ASSUME TypeInv, StartRun \/ Abort
  PROVE  TypeInv'
<1>1. run' \in Run /\ run'.pc \in {"idle", "remove"}
  BY NoRunType DEF StartRun, Abort, Run, TypeInv, TypeOK
<1>2. faults' \in 0 .. MaxFaults
  BY DEF StartRun, Abort, TypeInv, TypeOK
<1> QED
  BY <1>1, <1>2, QuietType DEF StartRun, Abort, forumVars, TypeInv, TypeOK

LEMMA ForumType ==
  ASSUME TypeInv, ForumStep
  PROVE  TypeInv' /\ UNCHANGED <<rowVars, doc, checkpoint, post>>
<1>1. /\ run \in Run /\ post \in [Posts -> Post] /\ thread \in [Threads -> SUBSET Posts]
      /\ forumAt \in Mark /\ faults \in 0 .. MaxFaults
  BY DEF TypeInv, TypeOK
<1>2. NoRun \in Run
  BY NoRunType
<1>3. CASE FindPosts
  <2>1. CASE run' = NoRun
    BY <1>1, <1>2, <1>3, <2>1, NoRunType, QuietType DEF FindPosts, forumVars
  <2>2. ASSUME NEW p \in Posts, NEW found \in SUBSET Threads,
               run' = [NoRun EXCEPT !.pc = "build", !.found = found,
                                    !.top = [ts |-> post[p].ts, pid |-> p]]
        PROVE  run' \in Run /\ run'.pc = "build"
    <3> DEFINE top == [ts |-> post[p].ts, pid |-> p]
    <3>1. top \in Mark
      BY <1>1 DEF Mark, Post, Posts
    <3> HIDE DEF top
    <3>2. run' = [NoRun EXCEPT !.pc = "build", !.found = found, !.top = top]
      BY <2>2 DEF top
    <3> QED
      BY <1>2, <3>1, <3>2 DEF Run
  <2>3. {ThreadOf[q] : q \in News} \in SUBSET Threads
    BY DEF News
  <2> QED
    BY <1>1, <1>3, <2>1, <2>2, <2>3, QuietType DEF FindPosts, forumVars
<1>4. ASSUME NEW t \in Threads, Build(t) PROVE TypeInv'
  <2> DEFINE left == run.found \ {t}
             built == [run.built EXCEPT ![t] = {p \in Posts : Live(p) /\ ThreadOf[p] = t}]
  <2>1. left \in SUBSET Threads /\ built \in [Threads -> SUBSET Posts]
    BY <1>1 DEF Run
  <2>2. run' = [run EXCEPT !.found = left, !.built = built] /\ run.pc = "build"
    BY <1>1, <1>4 DEF Build, Run
  <2> HIDE DEF left, built
  <2>3. run' \in Run /\ run'.pc = "build"
    BY <1>1, <2>1, <2>2 DEF Run
  <2> QED
    BY <1>1, <1>4, <2>3, QuietType DEF Build, forumVars
<1>5. CASE EndBuild
  <2>1. run' \in Run /\ run'.pc \in {"idle", "put"}
    BY <1>1, <1>2, <1>5, NoRunType DEF EndBuild, Run
  <2> QED
    BY <1>1, <1>5, <2>1, QuietType DEF EndBuild, forumVars
<1>6. CASE PutThreads
  <2>1. PICK refused \in SUBSET Threads :
          /\ refused # {} => faults < MaxFaults
          /\ thread' = [t \in Threads |-> IF run.built[t] # {} /\ t \notin refused
                                          THEN run.built[t] ELSE thread[t]]
          /\ CountFault(refused)
          /\ run' = IF refused = {} THEN [run EXCEPT !.pc = "mark", !.unsaved = {"ts", "pid"}]
                    ELSE NoRun
    BY <1>6 DEF PutThreads
  <2>2. run' \in Run /\ run'.pc \in {"idle", "mark"}
    BY <1>1, <1>2, <2>1, NoRunType DEF Run
  <2>3. thread' \in [Threads -> SUBSET Posts]
    BY <1>1, <2>1 DEF Run
  <2>4. faults' \in 0 .. MaxFaults
    BY <2>1, CountType
  <2> QED
    BY <1>1, <1>6, <2>2, <2>3, <2>4, QuietType DEF PutThreads, forumVars
<1>7. ASSUME NEW part \in {"ts", "pid"}, SaveMark(part) PROVE TypeInv'
  <2>1. run' \in Run /\ run'.pc \in {"idle", "mark"}
    <3> DEFINE left == run.unsaved \ {part}
    <3>1. left \in SUBSET {"ts", "pid"}
      BY <1>1 DEF Run
    <3>2. run' = NoRun \/ run' = [run EXCEPT !.unsaved = left]
      BY <1>1, <1>7 DEF SaveMark, Run
    <3> HIDE DEF left
    <3> QED
      BY <1>1, <1>2, <1>7, <3>1, <3>2, NoRunType DEF Run, SaveMark
  <2>2. forumAt' \in Mark
    <3>1. run.top \in Mark
      BY <1>1 DEF Run
    <3> QED
      BY <1>1, <1>7, <3>1 DEF SaveMark, Mark
  <2> QED
    BY <1>1, <1>7, <2>1, <2>2, QuietType DEF SaveMark
<1>8. UNCHANGED <<rowVars, doc, checkpoint, post>>
  BY DEF ForumStep, FindPosts, Build, EndBuild, PutThreads, SaveMark, forumVars
<1> QED
  BY <1>3, <1>4, <1>5, <1>6, <1>7, <1>8 DEF ForumStep

LEMMA TypeStep == TypeInv /\ [Next]_vars => TypeInv'
<1> SUFFICES ASSUME TypeInv, [Next]_vars PROVE TypeInv'
  OBVIOUS
<1>1. CASE UNCHANGED vars
  BY <1>1 DEF TypeInv, TypeOK, Bounds, vars
<1> QED
  BY <1>1, WriteType, PostsType, FindType, PutType, MaxType, RunsType, ForumType
     DEF Next, RowStep

\* Every state has its type: no document is ahead of its row, the checkpoint is
\* never ahead of the newest row, and a request has documents of one table.
THEOREM SearchTypeCorrect == Spec => []TypeOK
<1>1. TypeInv => TypeOK
  BY DEF TypeInv
<1> QED
  BY <1>1, TypeInit, TypeStep, PTL DEF Spec

-----------------------------------------------------------------------------
(* The checkpoint of the rows.                                             *)

\* What a step knows of the numbers.
LEMMA Numbers ==
  ASSUME TypeInv
  PROVE  /\ run \in Run /\ clock \in Nat /\ checkpoint \in Nat /\ checkpoint <= clock
         /\ run.max \in Nat /\ run.since \in Nat /\ run.kind \in Kinds
         /\ \A e \in Rows : row[e].ts \in Nat /\ doc[e] \in Nat /\ run.batch[e] \in Nat
         /\ \A e \in Rows : doc[e] <= row[e].ts /\ row[e].ts <= clock
  BY DEF TypeInv, TypeOK, Row, Run

LEMMA RowInit == Init => RowInv
<1> SUFFICES ASSUME Init PROVE RowInv
  OBVIOUS
<1>1. run.pc = "idle" /\ run.asked = {}
  BY DEF Init, NoRun
<1>2. TypeInv
  BY TypeInit
<1>3. NothingSkipped /\ Seen /\ CameBack
  BY <1>1 DEF Init, NothingSkipped, Seen, CameBack, Kept, Indexing
<1> QED
  BY <1>1, <1>2, <1>3 DEF RowInv, InOrder, Since, RowPhase

\* A step between runs and tables.
LEMMA QuietRows ==
  ASSUME RowInv, TypeInv', UNCHANGED <<rowVars, doc, checkpoint>>,
         run'.pc \in {"idle", "remove", "forum", "build", "put", "mark"},
         run'.asked = {}, run'.pc = "remove" => run'.since = checkpoint
  PROVE  RowInv'
<1>1. InOrder' /\ Since'
  BY DEF InOrder, Since, RowPhase
<1>2. Seen' /\ CameBack'
  BY DEF Seen, CameBack, Kept, Indexing
<1>3. NothingSkipped'
  BY DEF RowInv, NothingSkipped, rowVars
<1> QED
  BY <1>1, <1>2, <1>3 DEF RowInv

\* The row has the newest time; a run that has read its table does not know it.
LEMMA WriteRows ==
  ASSUME RowInv, TypeInv', NEW e \in Rows, NEW listed \in BOOLEAN, Write(e, listed)
  PROVE  RowInv'
<1>1. /\ run' = run /\ doc' = doc /\ checkpoint' = checkpoint
      /\ missed' = IF Kind[e] \in run.asked THEN missed \cup {e} ELSE missed \ {e}
  BY DEF Write
<1>2. row'[e].ts = clock + 1
  BY DEF Write, RowInv, TypeInv, TypeOK
<1>3. \A f \in Rows : f # e => row'[f] = row[f]
  BY DEF Write, RowInv, TypeInv, TypeOK
<1>4. TypeInv
  BY DEF RowInv
<1>5. InOrder' /\ Since'
  BY <1>1 DEF RowInv, InOrder, Since
<1>6. CameBack'
  BY <1>1, <1>2, <1>3, <1>4, Numbers DEF RowInv, CameBack
<1>7. NothingSkipped'
  BY <1>1, <1>2, <1>3, <1>4, Numbers DEF RowInv, NothingSkipped
<1>8. Seen'
  <2> SUFFICES ASSUME NEW f \in Rows, Kept(f)'
               PROVE  /\ Kind[f] \in run.asked /\ ~Indexing(Kind[f]) => Current(f)'
                      /\ Indexing(Kind[f]) =>
                           run.batch[f] = row'[f].ts \/ (run.batch[f] = 0 /\ Current(f)')
                      /\ run.pc = "save" /\ ~Current(f)' => row'[f].ts > run.max
    BY <1>1 DEF Seen, Indexing
  <2>1. CASE f = e
    <3>1. Kind[e] \notin run.asked
      BY <1>1, <2>1 DEF Kept
    <3>2. ~Indexing(Kind[e])
      BY <3>1 DEF RowInv, InOrder, Indexing
    <3>3. run.pc = "save" => clock + 1 > run.max
      BY <1>4, Numbers DEF TypeInv, Bounds
    <3> QED
      BY <1>2, <2>1, <3>1, <3>2, <3>3
  <2>2. CASE f # e
    <3>1. Kept(f) /\ (Current(f)' <=> Current(f)) /\ row'[f] = row[f]
      BY <1>1, <1>3, <2>2 DEF Kept, Current
    <3> QED
      BY <3>1 DEF RowInv, Seen
  <2> QED
    BY <2>1, <2>2
<1> QED
  BY <1>5, <1>6, <1>7, <1>8 DEF RowInv

LEMMA FindGoneRows ==
  ASSUME RowInv, TypeInv', FindGone
  PROVE  RowInv'
<1>1. /\ run'.pc = "removing" /\ run'.asked = run.asked /\ run'.since = run.since
      /\ \A e \in Rows : run'.batch[e] > 0 => Out(e)
  <2> DEFINE b == [e \in Rows |-> IF Kind[e] = run.kind /\ Gone(e) THEN row[e].ts ELSE 0]
  <2>1. \A e \in Rows : b[e] > 0 => Out(e)
    BY DEF Gone
  <2>2. run' = [run EXCEPT !.pc = "removing", !.batch = b] /\ run \in Run
    BY DEF FindGone, RowInv, TypeInv, TypeOK
  <2> HIDE DEF b
  <2> QED
    BY <2>1, <2>2 DEF Run
<1>2. run.pc = "remove" /\ UNCHANGED <<row, doc, checkpoint, missed>>
  BY DEF FindGone, rowVars
<1>3. InOrder' /\ Since'
  BY <1>1, <1>2 DEF RowInv, InOrder, Since, RowPhase
<1>4. CameBack'
  BY <1>1, <1>2 DEF CameBack, Out
<1>5. Seen' /\ NothingSkipped'
  BY <1>1, <1>2, <1>3 DEF RowInv, InOrder, Seen, NothingSkipped, Kept, Indexing
<1> QED
  BY <1>3, <1>4, <1>5 DEF RowInv

\* A document that goes although its row has come back is of a row that is new.
LEMMA RemoveRows ==
  ASSUME RowInv, TypeInv', Remove
  PROVE  RowInv'
<1>1. /\ run'.pc \in {"remove", "index"} /\ run'.asked = run.asked /\ run'.since = run.since
      /\ run'.pc = "index" => run'.kind = "member"
  BY DEF Remove, AfterRemove, RowInv, TypeInv, TypeOK, Run
<1>2. /\ run.pc = "removing" /\ UNCHANGED <<row, checkpoint, missed>>
      /\ \A e \in Rows : doc'[e] = doc[e] \/ run.batch[e] > 0
  BY DEF Remove, rowVars
<1>3. InOrder' /\ Since'
  BY <1>1, <1>2 DEF RowInv, InOrder, Since, RowPhase
<1>4. run'.asked = {}
  BY <1>1, <1>2 DEF RowInv, InOrder
<1>5. Seen' /\ CameBack'
  BY <1>1, <1>4 DEF Seen, CameBack, Kept, Indexing
<1>6. NothingSkipped'
  BY <1>2 DEF RowInv, NothingSkipped, CameBack
<1> QED
  BY <1>3, <1>5, <1>6 DEF RowInv

\* What the query does not find has not changed since the checkpoint.
LEMMA FindFreshRows ==
  ASSUME RowInv, TypeInv', FindFresh
  PROVE  RowInv'
<1> DEFINE more == run.asked \cup {run.kind}
           b == [e \in Rows |-> IF Kind[e] = run.kind /\ Fresh(e) THEN row[e].ts ELSE 0]
<1>1. run \in Run /\ run.pc = "index" /\ UNCHANGED <<row, doc, checkpoint, missed>>
  BY DEF FindFresh, rowVars, RowInv, TypeInv, TypeOK
<1>2. run' = [run EXCEPT !.pc = "indexing", !.asked = more, !.batch = b]
  BY <1>1 DEF FindFresh, Run
<1>3. \A e \in Rows : b[e] = IF Kind[e] = run.kind /\ Fresh(e) THEN row[e].ts ELSE 0
  OBVIOUS
<1>4. more = run.asked \cup {run.kind}
  OBVIOUS
<1> HIDE DEF more, b
<1>5. /\ run'.pc = "indexing" /\ run'.kind = run.kind /\ run'.since = run.since
      /\ run'.asked = more /\ run'.batch = b
  BY <1>1, <1>2 DEF Run
<1>6. InOrder'
  BY <1>1, <1>4, <1>5 DEF RowInv, InOrder
<1>7. Since' /\ CameBack' /\ NothingSkipped'
  BY <1>1, <1>5 DEF RowInv, Since, CameBack, NothingSkipped, RowPhase
<1>8. Seen'
  <2> SUFFICES ASSUME NEW e \in Rows, Kept(e)
               PROVE  /\ Kind[e] \in more /\ Kind[e] # run.kind => Current(e)
                      /\ Kind[e] = run.kind => b[e] = row[e].ts \/ (b[e] = 0 /\ Current(e))
    BY <1>1, <1>5 DEF Seen, Indexing, Kept, Current
  <2>1. Kind[e] \in run.asked => Current(e)
    BY <1>1 DEF RowInv, Seen, Indexing
  <2>2. ~Fresh(e) => Current(e)
    <3>1. run.since = checkpoint
      BY <1>1 DEF RowInv, Since, RowPhase
    <3>2. TypeInv
      BY DEF RowInv
    <3> QED
      BY <3>1, <3>2, Numbers DEF RowInv, NothingSkipped, Fresh, Kept, Current
  <2> QED
    BY <1>3, <1>4, <2>1, <2>2
<1> QED
  BY <1>6, <1>7, <1>8 DEF RowInv

\* The rows of the table are current after it, but those that were refused.
LEMMA IndexRows ==
  ASSUME RowInv, TypeInv', Index
  PROVE  RowInv'
<1>1. PICK refused \in SUBSET Rows, changed \in BOOLEAN :
        /\ doc' = [e \in Rows |-> IF run.batch[e] > 0 /\ e \notin refused
                                  THEN run.batch[e] ELSE doc[e]]
        /\ missed' = missed \cup refused
        /\ run' = AfterIndex(changed)
  <2>1. \A refused : (run.changed \/ Counts(refused)) \in BOOLEAN
    BY DEF Counts
  <2> QED
    BY <2>1 DEF Index, Refusals
<1>2. run \in Run /\ run.pc = "indexing" /\ UNCHANGED <<row, checkpoint>>
  BY DEF Index, RowInv, TypeInv, TypeOK
<1>3. /\ run'.pc \in {"index", "max", "forum"} /\ run'.since = run.since
      /\ run'.asked = IF run'.pc = "forum" THEN {} ELSE run.asked
      /\ run'.pc = "index" => \/ run.kind = "member" /\ run'.kind = "team"
                              \/ run.kind = "team" /\ run'.kind = "project"
                              \/ run.kind = "project" /\ run'.kind = "event"
      /\ run'.pc = "max" => run.kind = "event"
  BY <1>1, <1>2 DEF AfterIndex, Run, Kinds
<1>4. InOrder'
  BY <1>2, <1>3 DEF RowInv, InOrder, Kinds
<1>5. Since' /\ CameBack'
  BY <1>2, <1>3 DEF RowInv, Since, CameBack, RowPhase
<1>6. \A e \in Rows : Kept(e)' => Kept(e)
  BY <1>1, <1>2 DEF Kept
<1>7. ASSUME NEW e \in Rows, Kept(e)', run.batch[e] > 0 \/ Kind[e] \in run.asked
      PROVE  Current(e)'
  <2>1. TypeInv /\ e \notin refused /\ Kept(e)
    BY <1>1, <1>6, <1>7 DEF RowInv, Kept
  <2>2. CASE Kind[e] = run.kind
    <3>1. run.batch[e] = row[e].ts \/ (run.batch[e] = 0 /\ Current(e))
      BY <1>2, <2>1, <2>2 DEF RowInv, Seen, Indexing
    <3> QED
      BY <1>1, <1>2, <2>1, <3>1, Numbers DEF Current
  <2>3. CASE Kind[e] # run.kind
    <3>1. run.batch[e] = 0
      BY <1>2, <2>1, <2>3, Numbers DEF TypeInv, TypeOK
    <3>2. Current(e)
      BY <1>2, <1>7, <2>1, <2>3, <3>1 DEF RowInv, Seen, Indexing
    <3> QED
      BY <1>1, <1>2, <3>1, <3>2 DEF Current
  <2> QED
    BY <2>2, <2>3
<1>8. Seen'
  BY <1>3, <1>7 DEF Seen, Indexing
<1>9. NothingSkipped'
  <2> SUFFICES ASSUME NEW e \in Rows, Kept(e)', ~Current(e)' PROVE row[e].ts > checkpoint
    BY <1>2 DEF NothingSkipped, Kept, Current
  <2>1. TypeInv /\ Kept(e) /\ run.batch[e] = 0
    BY <1>6, <1>7, Numbers DEF RowInv
  <2>2. ~Current(e)
    BY <1>1, <1>2, <2>1 DEF Current
  <2> QED
    BY <2>1, <2>2 DEF RowInv, NothingSkipped, Kept, Current
<1> QED
  BY <1>4, <1>5, <1>8, <1>9 DEF RowInv

\* All tables have been read, and what they had is indexed: what is not yet is
\* newer than all of it.
LEMMA ReadMaxRows ==
  ASSUME RowInv, TypeInv', ReadMax
  PROVE  RowInv'
<1>1. /\ run'.pc \in {"save", "forum"} /\ run'.asked = {} /\ run'.since = run.since
      /\ run.pc = "max" /\ UNCHANGED <<row, doc, checkpoint, missed>>
  BY DEF ReadMax, rowVars, RowInv, TypeInv, TypeOK, Run
<1>2. \A e \in Rows : Kept(e) => Current(e)
  BY <1>1 DEF RowInv, Seen, InOrder, Indexing, TypeInv, TypeOK
<1>3. Seen'
  BY <1>1, <1>2 DEF Seen, Kept, Current, Indexing
<1>4. InOrder' /\ Since' /\ CameBack' /\ NothingSkipped'
  BY <1>1 DEF RowInv, InOrder, Since, CameBack, NothingSkipped, RowPhase
<1> QED
  BY <1>3, <1>4 DEF RowInv

LEMMA SaveRows ==
  ASSUME RowInv, TypeInv', SaveCheckpoint
  PROVE  RowInv'
<1>1. /\ run'.pc = "forum" /\ run'.asked = run.asked /\ checkpoint' = run.max
      /\ run.pc = "save" /\ UNCHANGED <<row, doc, missed>>
  BY DEF SaveCheckpoint, rowVars, RowInv, TypeInv, TypeOK, Run
<1>2. NothingSkipped'
  BY <1>1 DEF RowInv, Seen, NothingSkipped, Kept, Current
<1>3. run'.asked = {}
  BY <1>1 DEF RowInv, InOrder
<1>4. InOrder' /\ Since' /\ CameBack' /\ Seen'
  BY <1>1, <1>3 DEF InOrder, Since, CameBack, Seen, Kept, Indexing, RowPhase
<1> QED
  BY <1>2, <1>4 DEF RowInv

LEMMA RowStepInv == RowInv /\ [Next]_vars => RowInv'
<1> SUFFICES ASSUME RowInv, [Next]_vars PROVE RowInv'
  OBVIOUS
<1>1. TypeInv'
  BY TypeStep DEF RowInv
<1>2. CASE UNCHANGED vars
  BY <1>1, <1>2 DEF RowInv, InOrder, Since, Seen, CameBack, NothingSkipped, Kept, Current,
                   Indexing, vars
<1>3. ASSUME NEW p \in Posts, AddPost(p) \/ DeletePost(p) PROVE RowInv'
  <2>1. UNCHANGED <<run, row, missed, doc, checkpoint>>
    BY <1>3 DEF AddPost, DeletePost, rowVars
  <2> QED
    BY <1>1, <2>1 DEF RowInv, InOrder, Since, Seen, CameBack, NothingSkipped, Kept, Current,
                      Indexing
<1>4. CASE StartRun \/ Abort
  <2>1. /\ run'.pc \in {"idle", "remove"} /\ run'.asked = {}
        /\ run'.pc = "remove" => run'.since = checkpoint
        /\ UNCHANGED <<rowVars, doc, checkpoint>>
    <3>1. NoRun.asked = {} /\ NoRun.pc = "idle" /\ NoRun \in Run
      BY NoRunType DEF NoRun
    <3>2. CASE StartRun
      BY <3>1, <3>2 DEF StartRun, Run
    <3>3. CASE Abort
      BY <3>1, <3>3 DEF Abort
    <3> QED
      BY <1>4, <3>2, <3>3
  <2> QED
    BY <1>1, <2>1, QuietRows
<1>5. CASE ForumStep
  <2>1. run'.pc \in {"idle", "build", "put", "mark"} /\ run'.asked = {}
    <3>1. run \in Run /\ run.pc \in {"forum", "build", "put", "mark"}
      BY <1>5 DEF ForumStep, FindPosts, Build, EndBuild, PutThreads, SaveMark, RowInv,
                  TypeInv, TypeOK
    <3>2. run.asked = {}
      BY <3>1 DEF RowInv, InOrder
    <3>3. NoRun.asked = {} /\ NoRun.pc = "idle" /\ NoRun \in Run
      BY NoRunType DEF NoRun
    <3>4. CASE FindPosts
      BY <3>3, <3>4 DEF FindPosts, Run
    <3>5. ASSUME NEW t \in Threads, Build(t) PROVE run'.pc = run.pc /\ run'.asked = run.asked
      BY <3>1, <3>5 DEF Build, Run
    <3>6. CASE EndBuild
      BY <3>1, <3>2, <3>3, <3>6 DEF EndBuild, Run
    <3>7. CASE PutThreads
      BY <3>1, <3>2, <3>3, <3>7 DEF PutThreads, Run
    <3>8. ASSUME NEW part \in {"ts", "pid"}, SaveMark(part)
          PROVE  run'.pc \in {"idle", run.pc} /\ run'.asked = {}
      BY <3>1, <3>2, <3>3, <3>8 DEF SaveMark, Run
    <3>9. \A t \in Threads : Build(t) => run.pc = "build"
      BY DEF Build
    <3>10. \A part \in {"ts", "pid"} : SaveMark(part) => run.pc = "mark"
      BY DEF SaveMark
    <3> QED
      BY <1>5, <3>2, <3>4, <3>5, <3>6, <3>7, <3>8, <3>9, <3>10 DEF ForumStep
  <2>2. TypeInv
    BY DEF RowInv
  <2> QED
    BY <1>1, <1>5, <2>1, <2>2, ForumType, QuietRows
<1> QED
  BY <1>1, <1>2, <1>3, <1>4, <1>5, WriteRows, FindGoneRows, RemoveRows, FindFreshRows,
     IndexRows, ReadMaxRows, SaveRows DEF Next, RowStep

\* The checkpoint steps over no version of a row but those written while a run
\* was between the row's table and the reading of the checkpoint, and those that
\* the index refused, whatever run fails at whatever point.
THEOREM SearchSkipsNothing == Spec => []NothingSkipped
<1>1. RowInv => NothingSkipped
  BY DEF RowInv
<1> QED
  BY <1>1, RowInit, RowStepInv, PTL DEF Spec

-----------------------------------------------------------------------------
(* The checkpoint of the forum.                                            *)

LEMMA PostNumbers ==
  ASSUME TypeInv
  PROVE  /\ run \in Run /\ run.top \in Mark /\ forumAt \in Mark
         /\ run.top.ts \in Nat /\ run.top.pid \in Nat
         /\ forumAt.ts \in Nat /\ forumAt.pid \in Nat
         /\ \A p \in Posts : post[p].ts \in Nat /\ p \in Nat /\ p > 0 /\ ThreadOf[p] \in Threads
         /\ \A p \in Posts : Live(p) => There(p)
<1>1. run \in Run /\ forumAt \in Mark /\ post \in [Posts -> Post]
  BY DEF TypeInv, TypeOK
<1>2. run.top \in Mark
  BY <1>1 DEF Run
<1>3. \A p \in Posts : post[p] \in Post
  BY <1>1
<1> QED
  BY <1>1, <1>2, <1>3 DEF Mark, Post, Posts, Live, There

LEMMA PostInit == Init => PostInv
<1> SUFFICES ASSUME Init PROVE PostInv
  OBVIOUS
<1>1. run.pc = "idle"
  BY DEF Init, NoRun
<1>2. \A p \in Posts : ~There(p) /\ ~Live(p)
  BY DEF Init, There, Live
<1>3. forumAt.pid = 0 /\ forumAt.ts = 0
  BY DEF Init
<1> QED
  BY <1>1, <1>2, <1>3, TypeInit
     DEF PostInv, Ordered, MarkIsPast, Mixes, Gathered, NoPostSkipped, ForumPhase

\* A step of the rows, or the end of a run.
LEMMA QuietPosts ==
  ASSUME PostInv, TypeInv', UNCHANGED <<post, thread, forumAt>>, run'.pc \notin ForumPhase
  PROVE  PostInv'
<1>1. Ordered' /\ MarkIsPast' /\ NoPostSkipped'
  BY DEF PostInv, Ordered, MarkIsPast, NoPostSkipped, There, Live, Later
<1>2. Mixes' /\ Gathered'
  BY DEF Mixes, Gathered, ForumPhase
<1> QED
  BY <1>1, <1>2 DEF PostInv

\* What is after the new checkpoint is after the old one.
LEMMA AfterBoth ==
  ASSUME PostInv, run.pc \in ForumPhase, NEW p \in Posts, Live(p), Later(p, run.top)
  PROVE  Later(p, forumAt)
<1>1. TypeInv /\ forumAt.ts <= run.top.ts
  BY DEF PostInv, MarkIsPast
<1>2. post[p].ts = run.top.ts /\ p > run.top.pid => p > forumAt.pid
  BY DEF PostInv, Mixes
<1> QED
  BY <1>1, <1>2, PostNumbers DEF Later

\* A new post comes after all there are, and after both checkpoints.
LEMMA AddPosts ==
  ASSUME PostInv, TypeInv', NEW p \in Posts, AddPost(p)
  PROVE  PostInv'
<1>1. PICK ts \in 1 .. MaxPost :
        /\ post' = [post EXCEPT ![p] = [state |-> "live", ts |-> ts]]
        /\ p > 1 => ts >= post[p - 1].ts
  <2> DEFINE last == IF p > 1 THEN post[p - 1].ts ELSE 1
  <2>1. PICK ts \in {last, last + 1} \cap 1 .. MaxPost :
               post' = [post EXCEPT ![p] = [state |-> "live", ts |-> ts]]
    BY DEF AddPost
  <2>2. p > 1 => p - 1 \in Posts /\ post[p - 1].ts \in Nat
    BY PostNumbers DEF PostInv, Posts
  <2>3. p > 1 => ts >= post[p - 1].ts
    BY <2>1, <2>2
  <2> QED
    BY <2>1, <2>3
<1>2. TypeInv /\ ~There(p) /\ UNCHANGED <<run, thread, forumAt>>
  BY DEF AddPost, PostInv, There
<1>3. /\ post'[p].state = "live" /\ post'[p].ts = ts
      /\ \A q \in Posts : q # p => post'[q] = post[q]
  BY <1>1, <1>2 DEF TypeInv, TypeOK
<1>4. ts \in Nat /\ p \in Nat /\ \A q \in Posts : q \in Nat /\ q > 0
  BY DEF Posts
<1>5. \A q \in Posts : There(q) => q < p /\ post[q].ts <= ts
  <2> SUFFICES ASSUME NEW q \in Posts, There(q) PROVE q < p /\ post[q].ts <= ts
    OBVIOUS
  <2>1. q < p
    BY <1>2, <1>4 DEF PostInv, Ordered
  <2>2. p - 1 \in Posts /\ p > 1 /\ There(p - 1)
    BY <1>4, <2>1 DEF AddPost, There, Posts
  <2>3. post[q].ts <= post[p - 1].ts
    <3>1. CASE q = p - 1
      BY <1>2, <3>1, PostNumbers
    <3>2. CASE q # p - 1
      <4>1. q < p - 1
        BY <1>4, <2>1, <3>2
      <4> QED
        BY <2>2, <4>1 DEF PostInv, Ordered
    <3> QED
      BY <3>1, <3>2
  <2> QED
    BY <1>1, <1>2, <1>4, <2>1, <2>2, <2>3, PostNumbers
<1>6. \A q \in Posts : (q # p => (There(q)' <=> There(q)) /\ (Live(q)' <=> Live(q))) /\ There(p)'
  BY <1>3 DEF There, Live
<1>7. Ordered'
  <2>1. \A q \in Posts : q < p => There(q)
    <3> SUFFICES ASSUME NEW q \in Posts, q < p PROVE There(q)
      OBVIOUS
    <3>1. p - 1 \in Posts /\ p > 1 /\ There(p - 1)
      BY <1>4 DEF AddPost, There, Posts
    <3>2. CASE q = p - 1
      BY <3>1, <3>2
    <3>3. CASE q # p - 1
      <4>1. q < p - 1
        BY <1>4, <3>3
      <4> QED
        BY <3>1, <4>1 DEF PostInv, Ordered
    <3> QED
      BY <3>2, <3>3
  <2>2. ASSUME NEW q \in Posts, NEW r \in Posts, q < r, There(r)'
        PROVE  There(q)' /\ post'[q].ts <= post'[r].ts
    <3>1. CASE r = p
      BY <1>3, <1>4, <1>5, <1>6, <2>1, <2>2, <3>1
    <3>2. CASE r # p
      <4>1. There(r) /\ r < p
        BY <1>5, <1>6, <2>2, <3>2
      <4>2. q # p /\ There(q) /\ post[q].ts <= post[r].ts
        <5>1. q < r
          BY <2>2
        <5>2. There(q) /\ post[q].ts <= post[r].ts
          BY <4>1, <5>1 DEF PostInv, Ordered
        <5>3. q # p
          BY <1>4, <4>1, <5>1
        <5> QED
          BY <5>2, <5>3
      <4>3. There(q)'
        BY <4>2, <1>6
      <4>4. post'[q] = post[q] /\ post'[r] = post[r]
        BY <1>3, <3>2, <4>2
      <4> QED
        BY <4>2, <4>3, <4>4
    <3> QED
      BY <3>1, <3>2
  <2> QED
    BY <2>2 DEF Ordered
<1>8. run.pc \in ForumPhase => run.top.pid < p /\ run.top.ts <= ts
  BY <1>5 DEF PostInv, MarkIsPast
<1>9. forumAt.pid < p /\ forumAt.ts <= ts
  <2>1. forumAt.pid \in 0 .. MaxPost /\ forumAt.ts \in 0 .. MaxPost
    BY <1>2, PostNumbers DEF Mark
  <2>2. forumAt.pid < p
    BY <1>4, <1>5, <2>1 DEF PostInv, MarkIsPast, Posts
  <2>3. forumAt.ts <= ts
    <3>1. CASE forumAt.ts = 0
      BY <1>4, <3>1
    <3>2. CASE forumAt.ts > 0
      <4>1. PICK q \in Posts : There(q) /\ forumAt.ts <= post[q].ts
        BY <3>2 DEF PostInv, MarkIsPast
      <4> QED
        BY <1>2, <1>4, <1>5, <2>1, <4>1, PostNumbers
    <3> QED
      BY <2>1, <3>1, <3>2
  <2> QED
    BY <2>2, <2>3
<1>10. MarkIsPast'
  <2>1. \A q \in Posts : There(q) => There(q)' /\ post'[q] = post[q]
    BY <1>2, <1>3, <1>6
  <2>2. forumAt.pid > 0 => forumAt.pid \in Posts
    BY <1>2, PostNumbers DEF Mark, Posts
  <2> QED
    BY <1>2, <2>1, <2>2 DEF PostInv, MarkIsPast
<1>11. Mixes'
  BY <1>2, <1>3, <1>6, <1>9 DEF PostInv, Mixes
<1>12. (run.pc \in ForumPhase => Later(p, run.top)') /\ Later(p, forumAt)'
  <2>1. forumAt.ts \in Nat /\ run.top.ts \in Nat
    BY <1>2, PostNumbers
  <2> QED
    BY <1>2, <1>3, <1>4, <1>8, <1>9, <2>1 DEF Later
<1>13. \A q \in Posts : q # p => (Later(q, run.top)' <=> Later(q, run.top))
                                /\ (Later(q, forumAt)' <=> Later(q, forumAt))
  BY <1>2, <1>3 DEF Later
<1>14. Gathered'
  BY <1>2, <1>6, <1>12, <1>13 DEF PostInv, Gathered, ForumPhase
<1>15. NoPostSkipped'
  BY <1>2, <1>6, <1>12, <1>13 DEF PostInv, NoPostSkipped
<1> QED
  BY <1>7, <1>10, <1>11, <1>14, <1>15 DEF PostInv

LEMMA DeletePosts ==
  ASSUME PostInv, TypeInv', NEW p \in Posts, DeletePost(p)
  PROVE  PostInv'
<1>1. UNCHANGED <<run, thread, forumAt>>
  BY DEF DeletePost
<1>2. \A q \in Posts : post'[q].ts = post[q].ts /\ (There(q)' <=> There(q)) /\ (Live(q)' => Live(q))
  BY DEF DeletePost, There, Live, PostInv, TypeInv, TypeOK, Post
<1>3. \A q \in Posts : (Later(q, run.top)' <=> Later(q, run.top))
                       /\ (Later(q, forumAt)' <=> Later(q, forumAt))
  BY <1>1, <1>2 DEF Later
<1>4. Ordered' /\ Mixes'
  BY <1>1, <1>2 DEF PostInv, Ordered, Mixes
<1>5. MarkIsPast'
  <2>1. forumAt.pid > 0 => forumAt.pid \in Posts
    BY PostNumbers DEF Mark, Posts, PostInv
  <2> QED
    BY <1>1, <1>2, <2>1 DEF PostInv, MarkIsPast
<1>6. Gathered' /\ NoPostSkipped'
  BY <1>1, <1>2, <1>3 DEF PostInv, Gathered, NoPostSkipped
<1> QED
  BY <1>4, <1>5, <1>6 DEF PostInv

\* The newest post is the new checkpoint: the threads of all posts after the old
\* one are to be read.
LEMMA FindPostsInv ==
  ASSUME PostInv, TypeInv', FindPosts
  PROVE  PostInv'
<1>1. UNCHANGED <<post, thread, forumAt>>
  BY DEF FindPosts, forumVars
<1>2. CASE run' = NoRun
  BY <1>1, <1>2, NoRunType, QuietPosts DEF ForumPhase
<1>3. ASSUME NEW p \in Posts, Newest(p),
             run' = [NoRun EXCEPT !.pc = "build", !.found = {ThreadOf[q] : q \in News},
                                  !.top = [ts |-> post[p].ts, pid |-> p]]
      PROVE  PostInv'
  <2> DEFINE found == {ThreadOf[q] : q \in News}
             top == [ts |-> post[p].ts, pid |-> p]
  <2>1. \A q \in News : ThreadOf[q] \in found
    OBVIOUS
  <2>2. top.ts = post[p].ts /\ top.pid = p
    OBVIOUS
  <2>3. run' = [NoRun EXCEPT !.pc = "build", !.found = found, !.top = top]
    BY <1>3
  <2> HIDE DEF found, top
  <2>4. NoRun \in Run /\ NoRun.built = [t \in Threads |-> {}]
    BY NoRunType DEF NoRun
  <2>5. /\ run'.pc = "build" /\ run'.found = found /\ run'.top = top
        /\ run'.built = [t \in Threads |-> {}]
    BY <2>3, <2>4 DEF Run
  <2>6. TypeInv /\ Live(p) /\ There(p) /\ Later(p, forumAt)
    BY <1>3, PostNumbers DEF PostInv, Newest, News
  <2>7. forumAt.ts <= post[p].ts
    BY <2>6, PostNumbers DEF Later
  <2>8. Ordered' /\ NoPostSkipped'
    BY <1>1 DEF PostInv, Ordered, NoPostSkipped, There, Live, Later
  <2>9. MarkIsPast'
    BY <1>1, <2>2, <2>5, <2>6, <2>7 DEF PostInv, MarkIsPast, There
  <2>10. Mixes'
    <3> SUFFICES ASSUME NEW q \in Posts, Live(q), post[q].ts = post[p].ts, q > p
                 PROVE  q > forumAt.pid
      BY <1>1, <2>2, <2>5 DEF Mixes, Live
    <3>1. q \notin News
      BY <1>3, <2>6, PostNumbers DEF Newest
    <3>2. ~Later(q, forumAt)
      BY <3>1 DEF News
    <3> QED
      BY <2>6, <3>2, PostNumbers DEF Later
  <2>11. Gathered'
    <3> SUFFICES ASSUME NEW q \in Posts, Live(q), ThreadOf[q] \notin found,
                        q \notin thread[ThreadOf[q]]
                 PROVE  FALSE
      BY <1>1, <2>5, <2>6, PostNumbers DEF Gathered, Live
    <3>1. Later(q, forumAt)
      BY DEF PostInv, NoPostSkipped
    <3> QED
      BY <2>1, <3>1 DEF News
  <2> QED
    BY <2>8, <2>9, <2>10, <2>11 DEF PostInv
<1> QED
  BY <1>2, <1>3 DEF FindPosts

LEMMA BuildInv ==
  ASSUME PostInv, TypeInv', NEW t \in Threads, Build(t)
  PROVE  PostInv'
<1> DEFINE left == run.found \ {t}
           all == {p \in Posts : Live(p) /\ ThreadOf[p] = t}
           built == [run.built EXCEPT ![t] = all]
<1>1. /\ run \in Run /\ run.pc = "build" /\ UNCHANGED <<post, thread, forumAt>>
      /\ run' = [run EXCEPT !.found = left, !.built = built]
  BY DEF Build, forumVars, PostInv, TypeInv, TypeOK, Run
<1>2. \A u \in Threads : /\ u # t => built[u] = run.built[u]
                         /\ u # t => (u \in left <=> u \in run.found)
  BY <1>1 DEF Run
<1>3. built[t] = all /\ \A p \in Posts : Live(p) /\ ThreadOf[p] = t => p \in all
  BY <1>1 DEF Run
<1> HIDE DEF left, all, built
<1>4. /\ run'.pc = "build" /\ run'.found = left /\ run'.built = built
      /\ run'.top = run.top
  BY <1>1 DEF Run
<1>5. Ordered' /\ NoPostSkipped' /\ MarkIsPast' /\ Mixes'
  BY <1>1, <1>4 DEF PostInv, Ordered, NoPostSkipped, MarkIsPast, Mixes, There, Live, Later
<1>6. Gathered'
  <2> SUFFICES ASSUME NEW p \in Posts, Live(p)
               PROVE  /\ built[ThreadOf[p]] # {} => p \in built[ThreadOf[p]] \/ Later(p, run.top)
                      /\ ThreadOf[p] \notin left /\ p \notin thread[ThreadOf[p]] =>
                           p \in built[ThreadOf[p]] \/ Later(p, run.top)
    BY <1>1, <1>4 DEF Gathered, Live, Later
  <2>1. CASE ThreadOf[p] = t
    BY <1>3, <2>1
  <2>2. CASE ThreadOf[p] # t
    BY <1>1, <1>2, <2>2, PostNumbers DEF PostInv, Gathered
  <2> QED
    BY <2>1, <2>2
<1> QED
  BY <1>5, <1>6 DEF PostInv

LEMMA EndBuildInv ==
  ASSUME PostInv, TypeInv', EndBuild
  PROVE  PostInv'
<1>1. /\ run \in Run /\ run.pc = "build" /\ run.found = {}
      /\ UNCHANGED <<post, thread, forumAt>>
  BY DEF EndBuild, forumVars, PostInv, TypeInv, TypeOK
<1>2. CASE run' = NoRun
  BY <1>1, <1>2, NoRunType, QuietPosts DEF ForumPhase
<1>3. CASE run' = [run EXCEPT !.pc = "put"]
  <2>1. /\ run'.pc = "put" /\ run'.found = {} /\ run'.built = run.built
        /\ run'.top = run.top
    BY <1>1, <1>3 DEF Run
  <2>2. Ordered' /\ NoPostSkipped'
    BY <1>1 DEF PostInv, Ordered, NoPostSkipped, There, Live, Later
  <2>3. MarkIsPast' /\ Mixes'
    BY <1>1, <2>1 DEF PostInv, MarkIsPast, Mixes, There, Live, ForumPhase
  <2>4. Gathered'
    BY <1>1, <2>1 DEF PostInv, Gathered, Live, Later
  <2> QED
    BY <2>2, <2>3, <2>4 DEF PostInv
<1> QED
  BY <1>2, <1>3 DEF EndBuild

\* If the index took all threads, their documents have what was read.
LEMMA PutThreadsInv ==
  ASSUME PostInv, TypeInv', PutThreads
  PROVE  PostInv'
<1>1. PICK refused \in SUBSET Threads :
        /\ thread' = [t \in Threads |-> IF run.built[t] # {} /\ t \notin refused
                                        THEN run.built[t] ELSE thread[t]]
        /\ run' = IF refused = {} THEN [run EXCEPT !.pc = "mark", !.unsaved = {"ts", "pid"}]
                  ELSE NoRun
  BY DEF PutThreads
<1>2. /\ run \in Run /\ run.pc = "put" /\ UNCHANGED <<post, forumAt>> /\ TypeInv
  BY DEF PutThreads, PostInv, TypeInv, TypeOK
<1>3. Ordered'
  BY <1>2 DEF PostInv, Ordered, There
<1>4. ASSUME NEW p \in Posts, Live(p), p \notin thread'[ThreadOf[p]]
      PROVE  Later(p, run.top) \/ (ThreadOf[p] \in refused /\ p \notin thread[ThreadOf[p]])
  <2>1. ThreadOf[p] \in Threads /\ run.found = {}
    BY <1>2, PostNumbers DEF PostInv, Gathered
  <2>2. CASE run.built[ThreadOf[p]] # {} /\ ThreadOf[p] \notin refused
    BY <1>1, <1>2, <1>4, <2>1, <2>2 DEF PostInv, Gathered
  <2>3. CASE run.built[ThreadOf[p]] = {}
    <3>1. p \notin thread[ThreadOf[p]] /\ p \notin run.built[ThreadOf[p]]
      BY <1>1, <1>4, <2>1, <2>3
    <3> QED
      BY <1>2, <1>4, <2>1, <3>1 DEF PostInv, Gathered
  <2>4. CASE run.built[ThreadOf[p]] # {} /\ ThreadOf[p] \in refused
    BY <1>1, <1>4, <2>1, <2>4
  <2> QED
    BY <2>2, <2>3, <2>4
<1>5. NoPostSkipped'
  <2> SUFFICES ASSUME NEW p \in Posts, Live(p), p \notin thread'[ThreadOf[p]]
               PROVE  Later(p, forumAt)
    BY <1>2 DEF NoPostSkipped, Live, Later
  <2> QED
    BY <1>2, <1>4, AfterBoth DEF PostInv, NoPostSkipped, ForumPhase
<1>6. CASE refused = {}
  <2>1. run'.pc = "mark" /\ run'.top = run.top
    BY <1>1, <1>2, <1>6 DEF Run
  <2>2. MarkIsPast' /\ Mixes'
    BY <1>2, <2>1 DEF PostInv, MarkIsPast, Mixes, There, Live, ForumPhase
  <2>3. Gathered'
    BY <1>2, <1>4, <1>6, <2>1 DEF Gathered, Live, Later
  <2> QED
    BY <1>3, <1>5, <2>2, <2>3 DEF PostInv
<1>7. CASE refused # {}
  <2>1. run'.pc = "idle"
    BY <1>1, <1>7, NoRunType
  <2> QED
    BY <1>2, <1>3, <1>5, <2>1 DEF PostInv, MarkIsPast, Mixes, Gathered, There, ForumPhase
<1> QED
  BY <1>6, <1>7

\* Any mixture of the two checkpoints is before all that is missing.
LEMMA SaveMarkInv ==
  ASSUME PostInv, TypeInv', NEW part \in {"ts", "pid"}, SaveMark(part)
  PROVE  PostInv'
<1>1. /\ run \in Run /\ run.pc = "mark" /\ TypeInv /\ UNCHANGED <<post, thread>>
      /\ run' = IF run.unsaved = {part} THEN NoRun
                ELSE [run EXCEPT !.unsaved = @ \ {part}]
      /\ run.top \in Mark /\ forumAt \in Mark
  BY PostNumbers DEF SaveMark, PostInv
<1>2. \/ part = "ts" /\ forumAt'.ts = run.top.ts /\ forumAt'.pid = forumAt.pid
      \/ part = "pid" /\ forumAt'.pid = run.top.pid /\ forumAt'.ts = forumAt.ts
  BY <1>1 DEF SaveMark, Mark
<1>3. run'.pc \in {"idle", "mark"} /\ (run'.pc = "mark" => run'.top = run.top)
  <2>1. NoRun.pc = "idle"
    BY NoRunType
  <2> QED
    BY <1>1, <2>1 DEF Run
<1>4. Ordered'
  BY <1>1 DEF PostInv, Ordered, There
<1>5. /\ run.top.pid \in Posts /\ There(run.top.pid) /\ post[run.top.pid].ts = run.top.ts
      /\ forumAt.ts <= run.top.ts
  BY <1>1 DEF PostInv, MarkIsPast, ForumPhase
<1>6. MarkIsPast'
  <2>1. forumAt'.pid > 0 => There(forumAt'.pid)
    BY <1>2, <1>5 DEF PostInv, MarkIsPast
  <2>2. forumAt'.ts > 0 => \E q \in Posts : There(q) /\ forumAt'.ts <= post[q].ts
    BY <1>1, <1>2, <1>5, PostNumbers DEF PostInv, MarkIsPast
  <2>3. forumAt'.ts <= run.top.ts
    BY <1>1, <1>2, <1>5, PostNumbers
  <2> QED
    BY <1>1, <1>3, <1>5, <2>1, <2>2, <2>3 DEF MarkIsPast, There, ForumPhase
<1>7. Mixes'
  BY <1>1, <1>2, <1>3 DEF PostInv, Mixes, Live, ForumPhase
<1>8. Gathered'
  BY <1>1, <1>3 DEF PostInv, Gathered, Live, Later
<1>9. NoPostSkipped'
  <2> SUFFICES ASSUME NEW p \in Posts, Live(p), p \notin thread[ThreadOf[p]]
               PROVE  post[p].ts > forumAt'.ts \/ (post[p].ts = forumAt'.ts /\ p > forumAt'.pid)
    BY <1>1 DEF NoPostSkipped, Live, Later
  <2>1. Later(p, run.top) /\ Later(p, forumAt)
    BY <1>1, AfterBoth DEF PostInv, Gathered, ForumPhase
  <2>2. post[p].ts = run.top.ts /\ p > run.top.pid => p > forumAt.pid
    BY <1>1 DEF PostInv, Mixes, ForumPhase
  <2> QED
    BY <1>1, <1>2, <1>5, <2>1, <2>2, PostNumbers DEF Later
<1> QED
  BY <1>4, <1>6, <1>7, <1>8, <1>9 DEF PostInv

LEMMA PostStepInv == PostInv /\ [Next]_vars => PostInv'
<1> SUFFICES ASSUME PostInv, [Next]_vars PROVE PostInv'
  OBVIOUS
<1>1. TypeInv' /\ TypeInv /\ run \in Run
  BY TypeStep DEF PostInv, TypeInv, TypeOK
<1>2. ASSUME UNCHANGED <<run, post, thread, forumAt>> PROVE PostInv'
  BY <1>1, <1>2 DEF PostInv, Ordered, MarkIsPast, Mixes, Gathered, NoPostSkipped, There, Live,
                    Later
<1>3. ASSUME NEW e \in Rows, NEW listed \in BOOLEAN, Write(e, listed) PROVE PostInv'
  BY <1>2, <1>3 DEF Write, forumVars
<1>4. CASE StartRun \/ Abort
  <2>1. run'.pc \in {"idle", "remove"} /\ UNCHANGED <<post, thread, forumAt>>
    <3>1. NoRun.pc = "idle" /\ NoRun \in Run
      BY NoRunType
    <3>2. CASE StartRun
      BY <3>1, <3>2 DEF StartRun, Run, forumVars
    <3>3. CASE Abort
      BY <3>1, <3>3 DEF Abort, forumVars
    <3> QED
      BY <1>4, <3>2, <3>3
  <2> QED
    BY <1>1, <2>1, QuietPosts DEF ForumPhase
<1>5. CASE RowStep
  <2>1. run'.pc \in {"remove", "removing", "index", "indexing", "max", "save", "forum"}
    <3>1. CASE FindGone \/ FindFresh
      BY <1>1, <3>1 DEF FindGone, FindFresh, Run
    <3>2. CASE Remove
      BY <1>1, <3>2 DEF Remove, AfterRemove, Run
    <3>3. CASE Index
      <4>1. PICK changed : run' = AfterIndex(changed)
        BY <3>3 DEF Index
      <4> QED
        BY <1>1, <4>1 DEF AfterIndex, Run
    <3>4. CASE ReadMax \/ SaveCheckpoint
      BY <1>1, <3>4 DEF ReadMax, SaveCheckpoint, Run
    <3> QED
      BY <1>5, <3>1, <3>2, <3>3, <3>4 DEF RowStep
  <2>2. UNCHANGED <<post, thread, forumAt>>
    BY <1>5 DEF RowStep, FindGone, Remove, FindFresh, Index, ReadMax, SaveCheckpoint, forumVars
  <2> QED
    BY <1>1, <2>1, <2>2, QuietPosts DEF ForumPhase
<1>6. CASE UNCHANGED vars
  BY <1>2, <1>6 DEF vars
<1>7. CASE ForumStep
  BY <1>1, <1>7, FindPostsInv, BuildInv, EndBuildInv, PutThreadsInv, SaveMarkInv DEF ForumStep
<1> QED
  BY <1>1, <1>3, <1>4, <1>5, <1>6, <1>7, AddPosts, DeletePosts DEF Next

\* The forum's checkpoint steps over no post, also when a run ends between the
\* two parts of saving it, whichever it saved first.
THEOREM SearchSkipsNoPost == Spec => []NoPostSkipped
<1>1. PostInv => NoPostSkipped
  BY DEF PostInv
<1> QED
  BY <1>1, PostInit, PostStepInv, PTL DEF Spec

=============================================================================
