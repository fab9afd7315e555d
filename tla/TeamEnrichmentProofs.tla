------------------------ MODULE TeamEnrichmentProofs ------------------------
(***************************************************************************)
(* Proofs about TeamEnrichment, for any fields, requests, faults and       *)
(* overlap of jobs: its types, and that no job puts a candidate over a     *)
(* person's value that is on record, or takes it off the record.           *)
(***************************************************************************)
EXTENDS TeamEnrichment, TLAPS

-----------------------------------------------------------------------------
(* The inductive invariant.                                                *)

\* A document of the row or of a copy: a field it calls Enriched has a
\* candidate among c.
Sound(d, c) ==
  /\ d \in Doc
  /\ d.status = "none" => d = NoDoc
  /\ \A f \in Fields : d.field[f] = "Enriched" => f \in c

\* The judge only works on a team that has a row.
JudgeSteps == {"judgeRead", "judgeWrite", "usageRead", "usageWrite",
               "reload", "verdict", "promote"}

\* What a process k holds beside the row's document d and candidates c.  What
\* it will write is never the document of a team without a row.
Holds(k, d, c) ==
  /\ k \in Task
  /\ Sound(k.seen.doc, c)
  /\ Sound(k.latest, c)
  /\ k.seen.cand \subseteq c
  /\ k.pc \in JudgeSteps => d.status # "none"
  /\ k.pc \in {"judgeWrite", "usageWrite", "promote"} => k.latest.status # "none"
  /\ k.pc \in {"markWrite", "begin"} => k.seen.doc.status # "none"

TypeInv ==
  /\ Sound(doc, cand)
  /\ cand \subseteq Fields
  /\ team \in [Fields -> Values]
  /\ aged \in BOOLEAN
  /\ task \in [Procs -> Task]
  /\ crashes \in 0 .. MaxCrashes
  /\ \A p \in Procs : Holds(task[p], doc, cand)

\* What a step does for a value of f that is on record.
StaysOnRecord(f) ==
  /\ team'[f] # "ai"
  /\ team'[f] = "user" => OnRecord(f)'

-----------------------------------------------------------------------------
(* Documents and tasks.                                                    *)

LEMMA Fresh ==
  /\ NoDoc \in Doc
  /\ NoView \in View
  /\ NewTask \in Task
  /\ NewTask.op = "none" /\ NewTask.pc = "idle"
  /\ NewTask.seen = NoView /\ NewTask.latest = NoDoc
  /\ NoView.doc = NoDoc /\ NoView.cand = {}
  /\ NoDoc.status = "none" /\ \A f \in Fields : NoDoc.field[f] = "none"
<1>1. NoDoc \in Doc
  BY DEF NoDoc, Doc, Statuses, Judgments, FieldStatuses
<1>2. NoView \in View
  BY <1>1 DEF NoView, View, Values
<1>3. NewTask \in Task
  BY <1>1, <1>2 DEF NewTask, Task, Ops, Steps, Statuses, Values
<1> QED
  BY <1>1, <1>2, <1>3 DEF NewTask, NoView, NoDoc

LEMMA NoDocSound == \A c : Sound(NoDoc, c)
  BY Fresh DEF Sound

\* A document with the fields of d, of a team that has a row.
LEMMA SoundAs ==
  ASSUME NEW c, NEW d, Sound(d, c), NEW e \in Doc,
         e.field = d.field, e.status # "none"
  PROVE  Sound(e, c)
  BY DEF Sound

LEMMA SoundGrows ==
  ASSUME NEW c, NEW d, Sound(d, c), NEW more, c \subseteq more
  PROVE  Sound(d, more)
  BY DEF Sound

\* What the writers make of a document keeps its fields and its ai.
LEMMA DocWrites ==
  ASSUME NEW d \in Doc
  PROVE  /\ Marked(d) \in Doc /\ Marked(d).field = d.field /\ Marked(d).ai = d.ai
         /\ Marked(d).status = "PendingEnrichment"
         /\ \A s \in Statuses :
              /\ WithStatus(d, s) \in Doc
              /\ WithStatus(d, s).field = d.field /\ WithStatus(d, s).ai = d.ai
              /\ WithStatus(d, s).status = s
         /\ \A s \in Statuses :
              /\ Restored(d, s) \in Doc
              /\ Restored(d, s).field = d.field /\ Restored(d, s).ai = d.ai
              /\ Restored(d, s).status # "none"
         /\ \A s \in Statuses :
              /\ [d EXCEPT !.status = s] \in Doc
              /\ [d EXCEPT !.status = s].field = d.field
              /\ [d EXCEPT !.status = s].ai = d.ai
              /\ [d EXCEPT !.status = s].status = s
         /\ \A j \in Judgments :
              /\ [d EXCEPT !.judge = j] \in Doc
              /\ [d EXCEPT !.judge = j].field = d.field
              /\ [d EXCEPT !.judge = j].ai = d.ai
              /\ [d EXCEPT !.judge = j].status = d.status
<1>1. /\ Marked(d) \in Doc /\ Marked(d).field = d.field /\ Marked(d).ai = d.ai
      /\ Marked(d).status = "PendingEnrichment"
  BY DEF Marked, Doc, Statuses
<1>2. ASSUME NEW s \in Statuses
      PROVE  /\ WithStatus(d, s) \in Doc
             /\ WithStatus(d, s).field = d.field /\ WithStatus(d, s).ai = d.ai
             /\ WithStatus(d, s).status = s
  BY DEF WithStatus, Doc
<1>3. ASSUME NEW s \in Statuses
      PROVE  /\ Restored(d, s) \in Doc
             /\ Restored(d, s).field = d.field /\ Restored(d, s).ai = d.ai
             /\ Restored(d, s).status # "none"
  BY DEF Restored, Doc, Statuses
<1>4. ASSUME NEW s \in Statuses
      PROVE  /\ [d EXCEPT !.status = s] \in Doc
             /\ [d EXCEPT !.status = s].field = d.field
             /\ [d EXCEPT !.status = s].ai = d.ai
             /\ [d EXCEPT !.status = s].status = s
  BY DEF Doc
<1>5. ASSUME NEW j \in Judgments
      PROVE  /\ [d EXCEPT !.judge = j] \in Doc
             /\ [d EXCEPT !.judge = j].field = d.field
             /\ [d EXCEPT !.judge = j].ai = d.ai
             /\ [d EXCEPT !.judge = j].status = d.status
  BY DEF Doc
<1> QED
  BY <1>1, <1>2, <1>3, <1>4, <1>5

\* So what they make of a sound document is sound.
LEMMA WritesSound ==
  ASSUME NEW c, NEW d, Sound(d, c)
  PROVE  /\ Sound(Marked(d), c)
         /\ \A s \in {"InProgress", "FailedToEnrich"} :
              Sound(WithStatus(d, s), c) /\ WithStatus(d, s).status = s
<1>1. d \in Doc
  BY DEF Sound
<1>2. Sound(Marked(d), c)
  BY <1>1, DocWrites, SoundAs
<1>3. ASSUME NEW s \in {"InProgress", "FailedToEnrich"}
      PROVE  Sound(WithStatus(d, s), c) /\ WithStatus(d, s).status = s
  <2>1. s \in Statuses /\ s # "none"
    BY DEF Statuses
  <2>2. WithStatus(d, s) \in Doc /\ WithStatus(d, s).field = d.field
        /\ WithStatus(d, s).status = s
    BY <1>1, <2>1, DocWrites
  <2> QED
    BY <2>1, <2>2, SoundAs
<1> QED
  BY <1>2, <1>3

\* A view that keeps only a copy of a document.
LEMMA CopyView ==
  ASSUME NEW d \in Doc
  PROVE  Copy(d) \in View /\ Copy(d).doc = d /\ Copy(d).cand = {}
  BY Fresh DEF Copy, View, NoView, Values

\* The last write of a run.
LEMMA FinishedDoc ==
  ASSUME NEW c, NEW view \in View, Sound(view.doc, c), NEW all \in BOOLEAN,
         NEW found \in SUBSET Fields
  PROVE  /\ Sound(Finished(view, all, found), c \cup Answered(view, all, found))
         /\ Finished(view, all, found).status = "Enriched"
<1> DEFINE new == Finished(view, all, found)
<1>0. view.doc \in Doc
  BY DEF View
<1>1. \A f \in Fields : Outcome(view, f, all, found) \in FieldStatuses
  BY <1>0 DEF Outcome, Doc, FieldStatuses
<1>2. new \in Doc /\ new.status = "Enriched"
      /\ \A f \in Fields : new.field[f] = Outcome(view, f, all, found)
  BY <1>1 DEF Finished, Doc, Statuses, Judgments
<1>3. ASSUME NEW f \in Fields, Outcome(view, f, all, found) = "Enriched"
      PROVE  f \in c \cup Answered(view, all, found)
  <2>1. CASE Unsettled(view, f, all)
    BY <1>3, <2>1 DEF Outcome, Answered
  <2>2. CASE ~Unsettled(view, f, all)
    BY <1>3, <2>2 DEF Outcome, Sound
  <2> QED
    BY <2>1, <2>2
<1> HIDE DEF new
<1> QED
  BY <1>2, <1>3 DEF new, Sound

-----------------------------------------------------------------------------
(* Types.                                                                  *)

LEMMA TypeInvTypes == TypeInv => TypeOK
  BY DEF TypeInv, TypeOK, Sound

LEMMA ProcTask ==
  ASSUME TypeInv, NEW p \in Procs
  PROVE  /\ task[p] \in Task
         /\ Holds(task[p], doc, cand)
         /\ doc \in Doc
         /\ task[p].seen \in View /\ task[p].seen.doc \in Doc
         /\ task[p].latest \in Doc
  BY DEF TypeInv, Holds, Sound, Task, View

\* A step of p, which leaves it with k.
LEMMA TypeFrame ==
  ASSUME TypeInv, NEW p \in Procs, NEW k,
         task' = [task EXCEPT ![p] = k],
         Sound(doc', cand'), doc'.status = "none" => doc.status = "none",
         Holds(k, doc', cand'),
         cand \subseteq cand', cand' \subseteq Fields,
         team' \in [Fields -> Values], aged' \in BOOLEAN,
         crashes' \in 0 .. MaxCrashes
  PROVE  TypeInv'
<1>1. task' \in [Procs -> Task]
  BY DEF TypeInv, Holds
<1>2. ASSUME NEW q \in Procs
      PROVE  Holds(task'[q], doc', cand')
  <2>1. CASE q = p
    BY <2>1 DEF TypeInv
  <2>2. CASE q # p
    <3>1. task'[q] = task[q] /\ Holds(task[q], doc, cand)
      BY <2>2 DEF TypeInv
    <3> QED
      BY <3>1, SoundGrows DEF Holds
  <2> QED
    BY <2>1, <2>2
<1> QED
  BY <1>1, <1>2 DEF TypeInv

\* A read, or a choice, of p.
LEMMA TypeRead ==
  ASSUME TypeInv, NEW p \in Procs, NEW k, Holds(k, doc, cand),
         task' = [task EXCEPT ![p] = k],
         UNCHANGED <<doc, cand, team, aged, crashes>>
  PROVE  TypeInv'
  BY TypeFrame DEF TypeInv

\* A process that ends.
LEMMA FinishHolds ==
  ASSUME NEW p, NEW d, NEW c, Finish(p)
  PROVE  \E k : /\ task' = [task EXCEPT ![p] = k]
               /\ Holds(k, d, c)
               /\ k.op = "none" /\ k.pc \in {"idle", "done"}
               /\ k.seen = NoView /\ k.latest = NoDoc
<1> DEFINE step == IF p \in Requests THEN "done" ELSE "idle"
           k == [NewTask EXCEPT !.pc = step]
<1>1. k \in Task /\ k.pc = step /\ k.op = "none"
      /\ k.seen = NoView /\ k.latest = NoDoc
  BY Fresh DEF Task, Steps
<1>2. step \in {"idle", "done"}
  OBVIOUS
<1>3. task' = [task EXCEPT ![p] = k]
  BY DEF Finish
<1> HIDE DEF k, step
<1>4. Holds(k, d, c)
  BY <1>1, <1>2, Fresh, NoDocSound DEF Holds, JudgeSteps
<1> QED
  BY <1>1, <1>2, <1>3, <1>4

\* A write of p that is its last.
LEMMA TypeLast ==
  ASSUME TypeInv, NEW p \in Procs, Finish(p),
         Sound(doc', cand'), doc'.status = "none" => doc.status = "none",
         cand \subseteq cand', cand' \subseteq Fields,
         team' \in [Fields -> Values], aged' \in BOOLEAN,
         crashes' \in 0 .. MaxCrashes
  PROVE  TypeInv'
<1>1. PICK k : task' = [task EXCEPT ![p] = k] /\ Holds(k, doc', cand')
  BY FinishHolds
<1> QED
  BY <1>1, TypeFrame

LEMMA TypeInit == Init => TypeInv
<1> SUFFICES ASSUME Init
             PROVE  TypeInv
  OBVIOUS
<1>1. Sound(doc, cand)
  <2>1. Marked(NoDoc) \in Doc /\ Marked(NoDoc).field = NoDoc.field
        /\ Marked(NoDoc).status # "none"
    BY Fresh, DocWrites
  <2> QED
    BY <2>1, Fresh DEF Init, Sound
<1>2. Holds(NewTask, doc, cand)
  BY Fresh, NoDocSound DEF Holds, JudgeSteps
<1>3. crashes \in 0 .. MaxCrashes
  BY EnrichmentAssumptions DEF Init
<1> QED
  BY <1>1, <1>2, <1>3, Fresh DEF Init, TypeInv, Values

\* A request begins with the view it keeps of its first read.
LEMMA TypeBegin ==
  ASSUME TypeInv, NEW p \in Procs, NEW op \in Ops, NEW step \in Steps \ JudgeSteps,
         NEW view \in View, Sound(view.doc, cand), view.cand \subseteq cand,
         step \in {"markWrite", "begin"} => view.doc.status # "none",
         Begin(p, op, step, view)
  PROVE  TypeInv'
<1> DEFINE k == [NewTask EXCEPT !.op = op, !.pc = step, !.seen = view]
<1>1. k \in Task /\ k.pc = step /\ k.seen = view /\ k.latest = NoDoc
  BY Fresh DEF Task
<1>2. task' = [task EXCEPT ![p] = k]
      /\ UNCHANGED <<doc, cand, team, aged, crashes>>
  BY DEF Begin
<1> HIDE DEF k
<1>3. Holds(k, doc, cand)
  BY <1>1, NoDocSound DEF Holds, JudgeSteps
<1> QED
  BY <1>2, <1>3, TypeRead

LEMMA TypeStart ==
  ASSUME TypeInv, NEW p \in Requests, Start(p)
  PROVE  TypeInv'
<1>0. p \in Procs /\ doc \in Doc /\ Sound(doc, cand) /\ cand \subseteq Fields
  BY DEF Procs, TypeInv, Sound
<1>m. /\ Copy(Marked(doc)) \in View /\ Copy(Marked(doc)).cand = {}
      /\ Copy(Marked(doc)).doc.status = "PendingEnrichment"
      /\ Sound(Copy(Marked(doc)).doc, cand)
  BY <1>0, DocWrites, CopyView, SoundAs
<1>c. Copy(doc) \in View /\ Copy(doc).cand = {} /\ Copy(doc).doc = doc
  BY <1>0, CopyView
<1>1. CASE StartMark(p)
  BY <1>0, <1>1, <1>m, TypeBegin DEF StartMark, Ops, Steps, JudgeSteps
<1>2. CASE StartEnrich(p)
  BY <1>0, <1>2, Fresh, NoDocSound, TypeBegin DEF StartEnrich, Ops, Steps, JudgeSteps
<1>3. ASSUME NEW op \in {"enrich", "forceAll"}, StartForce(p, op)
      PROVE  TypeInv'
  BY <1>0, <1>3, <1>m, TypeBegin DEF StartForce, Ops, Steps, JudgeSteps
<1>4. CASE StartLogo(p)
  <2> DEFINE k == [NewTask EXCEPT !.op = "logo", !.pc = "begin", !.prior = doc.status,
                     !.seen = Copy(WithStatus(doc, "InProgress"))]
  <2>1. Copy(WithStatus(doc, "InProgress")) \in View
        /\ Copy(WithStatus(doc, "InProgress")).cand = {}
        /\ Copy(WithStatus(doc, "InProgress")).doc.status = "InProgress"
        /\ Sound(Copy(WithStatus(doc, "InProgress")).doc, cand)
    <3> DEFINE d == WithStatus(doc, "InProgress")
    <3>1. Sound(d, cand) /\ d.status = "InProgress" /\ d \in Doc
      BY <1>0, WritesSound DEF Sound
    <3> HIDE DEF d
    <3>2. Copy(d) \in View /\ Copy(d).doc = d /\ Copy(d).cand = {}
      BY <3>1, CopyView
    <3> QED
      BY <3>1, <3>2 DEF d
  <2>2. k \in Task /\ k.pc = "begin" /\ k.latest = NoDoc
        /\ k.seen = Copy(WithStatus(doc, "InProgress"))
    BY <1>0, <2>1, Fresh DEF Task, Ops, Steps, Doc
  <2>3. task' = [task EXCEPT ![p] = k]
        /\ UNCHANGED <<doc, cand, team, aged, crashes>>
    BY <1>4 DEF StartLogo
  <2> HIDE DEF k
  <2>4. Holds(k, doc, cand)
    BY <2>1, <2>2, NoDocSound DEF Holds, JudgeSteps
  <2> QED
    BY <1>0, <2>3, <2>4, TypeRead
<1>5. CASE StartJudge(p)
  <2> DEFINE k == [NewTask EXCEPT !.op = "judge", !.pc = "judgeRead",
                     !.fields = Judgable(Now) \cap cand]
  <2>1. Judgable(Now) \cap cand \in SUBSET Fields
    BY DEF Judgable
  <2>2. k \in Task /\ k.pc = "judgeRead" /\ k.latest = NoDoc /\ k.seen = NoView
    BY <2>1, Fresh DEF Task, Ops, Steps
  <2>3. task' = [task EXCEPT ![p] = k]
        /\ UNCHANGED <<doc, cand, team, aged, crashes>>
    BY <1>5 DEF StartJudge
  <2>4. doc.status # "none"
    <3>1. PICK f \in Fields : doc.field[f] # "none"
      BY <1>5 DEF StartJudge, Judgable, Now
    <3> QED
      BY <1>0, <3>1, Fresh DEF Sound
  <2> HIDE DEF k
  <2>5. Holds(k, doc, cand)
    BY <2>2, <2>4, Fresh, NoDocSound DEF Holds, JudgeSteps
  <2> QED
    BY <1>0, <2>3, <2>5, TypeRead
<1>6. CASE StartReview(p)
  BY <1>0, <1>6, <1>c, TypeBegin DEF StartReview, Ops, Steps, JudgeSteps
<1>7. CASE StartApprove(p)
  <2> DEFINE view == [Copy(doc) EXCEPT !.cand = cand]
  <2>1. view \in View /\ view.doc = doc /\ view.cand = cand
    BY <1>0, <1>c DEF View
  <2>2. Begin(p, "approve", "approve", view)
    BY <1>7 DEF StartApprove
  <2> HIDE DEF view
  <2> QED
    BY <1>0, <2>1, <2>2, TypeBegin DEF Ops, Steps, JudgeSteps
<1>8. ASSUME NEW f \in Fields, NEW value \in {"empty", "junk", "user"},
             StartEdit(p, f, value)
      PROVE  TypeInv'
  <2> DEFINE k == [NewTask EXCEPT !.op = "edit", !.pc = "edit", !.seen = Copy(doc),
                     !.fields = {f}, !.value = value]
  <2>1. k \in Task /\ k.pc = "edit" /\ k.latest = NoDoc /\ k.seen = Copy(doc)
    BY <1>c, Fresh DEF Task, Ops, Steps, Values
  <2>2. task' = [task EXCEPT ![p] = k]
        /\ UNCHANGED <<doc, cand, team, aged, crashes>>
    BY <1>8 DEF StartEdit
  <2> HIDE DEF k
  <2>3. Holds(k, doc, cand)
    BY <1>0, <1>c, <2>1, NoDocSound DEF Holds, JudgeSteps
  <2> QED
    BY <1>0, <2>2, <2>3, TypeRead
<1> QED
  BY <1>1, <1>2, <1>3, <1>4, <1>5, <1>6, <1>7, <1>8 DEF Start

LEMMA TypeTicks ==
  ASSUME TypeInv, TickEnrich \/ FindPending \/ GuardRun \/ TickJudge \/ FindUnjudged
  PROVE  TypeInv'
<1>0. EnrichCron \in Procs /\ JudgeCron \in Procs
  BY DEF Procs
<1>e. /\ doc \in Doc /\ Sound(doc, cand) /\ cand \subseteq Fields /\ aged \in BOOLEAN
      /\ crashes \in 0 .. MaxCrashes /\ team \in [Fields -> Values]
      /\ UNCHANGED team => team' \in [Fields -> Values]
      /\ UNCHANGED crashes => crashes' \in 0 .. MaxCrashes
  BY DEF TypeInv, Sound
<1>g. ASSUME NEW p \in Procs, NEW step \in {"find", "mark"}, Goto(p, step)
      PROVE  \E k : /\ task' = [task EXCEPT ![p] = k]
                    /\ \A d : Sound(d, cand) => Holds(k, d, cand)
  <2> DEFINE k == [task[p] EXCEPT !.pc = step]
  <2>1. k \in Task /\ k.pc = step /\ k.seen = task[p].seen
        /\ k.latest = task[p].latest
    BY <1>g, ProcTask DEF Task, Steps
  <2>2. task' = [task EXCEPT ![p] = k]
    BY <1>g DEF Goto
  <2> HIDE DEF k
  <2> QED
    BY <1>g, <2>1, <2>2, ProcTask DEF Holds, JudgeSteps
<1>1. CASE TickEnrich
  <2>1. PICK k : /\ task' = [task EXCEPT ![EnrichCron] = k]
                 /\ \A d : Sound(d, cand) => Holds(k, d, cand)
    BY <1>0, <1>1, <1>g DEF TickEnrich
  <2>2. Sound(doc', cand) /\ doc'.status # "none" /\ aged' = FALSE /\ cand' = cand
    BY <1>1, <1>e, DocWrites, SoundAs DEF TickEnrich, Write
  <2> QED
    BY <1>0, <1>1, <1>e, <2>1, <2>2, TypeFrame DEF TickEnrich
<1>2. CASE FindPending
  <2>1. CASE Finish(EnrichCron)
    BY <1>0, <1>2, <1>e, <2>1, TypeLast DEF FindPending
  <2>2. CASE task' = [task EXCEPT ![EnrichCron] =
               [NewTask EXCEPT !.op = "enrich", !.pc = "guard"]]
    <3> DEFINE k == [NewTask EXCEPT !.op = "enrich", !.pc = "guard"]
    <3>1. k \in Task /\ k.pc = "guard" /\ k.seen = NoView /\ k.latest = NoDoc
      BY Fresh DEF Task, Ops, Steps
    <3>2. task' = [task EXCEPT ![EnrichCron] = k]
      BY <2>2
    <3> HIDE DEF k
    <3>3. Holds(k, doc, cand)
      BY <3>1, Fresh, NoDocSound DEF Holds, JudgeSteps
    <3> QED
      BY <1>0, <1>2, <3>2, <3>3, TypeRead DEF FindPending
  <2> QED
    BY <1>2, <2>1, <2>2 DEF FindPending
<1>3. CASE GuardRun
  <2>1. CASE Finish(EnrichCron)
    BY <1>0, <1>3, <1>e, <2>1, TypeLast DEF GuardRun
  <2>2. CASE Goto(EnrichCron, "mark")
    <3>1. PICK k : /\ task' = [task EXCEPT ![EnrichCron] = k]
                   /\ \A d : Sound(d, cand) => Holds(k, d, cand)
      BY <1>0, <2>2, <1>g
    <3> QED
      BY <1>0, <1>3, <1>e, <3>1, TypeRead DEF GuardRun
  <2> QED
    BY <1>3, <2>1, <2>2 DEF GuardRun
<1>4. CASE TickJudge
  <2>1. PICK k : /\ task' = [task EXCEPT ![JudgeCron] = k]
                 /\ \A d : Sound(d, cand) => Holds(k, d, cand)
    BY <1>0, <1>4, <1>g DEF TickJudge
  <2>2. doc.status # "none"
    BY <1>4, <1>e DEF TickJudge, StaleJudgment, Sound, NoDoc
  <2>3. Sound(doc', cand) /\ doc'.status # "none" /\ aged' = FALSE /\ cand' = cand
    BY <1>4, <1>e, <2>2, DocWrites, SoundAs DEF TickJudge, Write, Judgments
  <2> QED
    BY <1>0, <1>4, <1>e, <2>1, <2>3, TypeFrame DEF TickJudge
<1>5. CASE FindUnjudged
  <2>1. CASE Finish(JudgeCron)
    BY <1>0, <1>5, <1>e, <2>1, TypeLast DEF FindUnjudged
  <2>2. CASE /\ doc.status = "Enriched"
             /\ task' = [task EXCEPT ![JudgeCron] =
                  [NewTask EXCEPT !.op = "batch", !.pc = "judgeRead"]]
    <3> DEFINE k == [NewTask EXCEPT !.op = "batch", !.pc = "judgeRead"]
    <3>1. k \in Task /\ k.pc = "judgeRead" /\ k.seen = NoView /\ k.latest = NoDoc
      BY Fresh DEF Task, Ops, Steps
    <3>2. task' = [task EXCEPT ![JudgeCron] = k]
      BY <2>2
    <3> HIDE DEF k
    <3>3. Holds(k, doc, cand)
      BY <2>2, <3>1, Fresh, NoDocSound DEF Holds, JudgeSteps
    <3> QED
      BY <1>0, <1>5, <3>2, <3>3, TypeRead DEF FindUnjudged
  <2> QED
    BY <1>5, <2>1, <2>2 DEF FindUnjudged
<1> QED
  BY <1>1, <1>2, <1>3, <1>4, <1>5

\* A step of p that keeps or replaces its view and its copy of the document.
LEMMA MoveHolds ==
  ASSUME NEW p \in Procs, NEW d, NEW c, task[p] \in Task,
         NEW view \in View, Sound(view.doc, c), view.cand \subseteq c,
         NEW step \in Steps \ JudgeSteps,
         step \in {"markWrite", "begin"} => view.doc.status # "none",
         Sound(task[p].latest, c)
  PROVE  Holds([task[p] EXCEPT !.seen = view, !.pc = step], d, c)
<1> DEFINE k == [task[p] EXCEPT !.seen = view, !.pc = step]
<1>1. k \in Task /\ k.pc = step /\ k.seen = view /\ k.latest = task[p].latest
  BY DEF Task
<1> HIDE DEF k
<1>2. Holds(k, d, c)
  BY <1>1 DEF Holds, JudgeSteps
<1> QED
  BY <1>2 DEF k

LEMMA TypeRunSteps ==
  ASSUME TypeInv, NEW p \in Procs,
         \/ Mark(p) \/ MarkWrite(p) \/ LoadTeam(p) \/ BeginRun(p) \/ LogoDone(p)
         \/ RunFails(p) \/ \E found \in SUBSET Fields : EnrichDone(p, found)
  PROVE  TypeInv'
<1>0. /\ task[p] \in Task /\ Holds(task[p], doc, cand) /\ doc \in Doc
      /\ task[p].seen \in View /\ task[p].seen.doc \in Doc
      /\ Sound(task[p].seen.doc, cand) /\ task[p].seen.cand \subseteq cand
      /\ Sound(task[p].latest, cand)
      /\ task[p].prior \in Statuses
  BY ProcTask DEF Holds, Task
<1>e. /\ Sound(doc, cand) /\ cand \subseteq Fields /\ aged \in BOOLEAN
      /\ team \in [Fields -> Values]
      /\ UNCHANGED team => team' \in [Fields -> Values]
      /\ UNCHANGED crashes => crashes' \in 0 .. MaxCrashes
  BY DEF TypeInv
<1>1. CASE Mark(p)
  <2> DEFINE view == Copy(Marked(doc))
  <2>1. view \in View /\ Sound(view.doc, cand) /\ view.cand \subseteq cand
        /\ view.doc.status # "none"
    <3>1. Marked(doc) \in Doc /\ Sound(Marked(doc), cand)
          /\ Marked(doc).status = "PendingEnrichment"
      BY <1>0, <1>e, DocWrites, WritesSound
    <3> QED
      BY <3>1, CopyView
  <2>2. "markWrite" \in Steps \ JudgeSteps
    BY DEF Steps, JudgeSteps
  <2>3. task' = [task EXCEPT ![p] =
          [task[p] EXCEPT !.seen = view, !.pc = "markWrite"]]
        /\ UNCHANGED <<doc, cand, team, aged, crashes>>
    BY <1>1 DEF Mark
  <2> HIDE DEF view
  <2>4. Holds([task[p] EXCEPT !.seen = view, !.pc = "markWrite"], doc, cand)
    BY <1>0, <2>1, <2>2, MoveHolds
  <2> QED
    BY <2>3, <2>4, TypeRead
<1>2. CASE MarkWrite(p)
  <2>1. Sound(doc', cand') /\ doc'.status # "none" /\ aged' = FALSE /\ cand' = cand
    BY <1>0, <1>2 DEF MarkWrite, Write, At, Holds
  <2>2. CASE Finish(p)
    BY <1>2, <1>e, <2>1, <2>2, TypeLast DEF MarkWrite
  <2>3. CASE task' = [task EXCEPT ![p] = [@ EXCEPT !.seen = NoView, !.pc = "load"]]
    <3>1. Holds([task[p] EXCEPT !.seen = NoView, !.pc = "load"], doc', cand)
      <4>1. "load" \in Steps \ JudgeSteps
        BY DEF Steps, JudgeSteps
      <4>2. NoView \in View /\ Sound(NoView.doc, cand) /\ NoView.cand \subseteq cand
        BY Fresh, NoDocSound
      <4> QED
        BY <1>0, <4>1, <4>2, MoveHolds
    <3>2. task' = [task EXCEPT ![p] =
            [task[p] EXCEPT !.seen = NoView, !.pc = "load"]]
      BY <2>3
    <3> QED
      BY <1>2, <1>e, <2>1, <3>1, <3>2, TypeFrame DEF MarkWrite
  <2> QED
    BY <1>2, <2>2, <2>3 DEF MarkWrite
<1>3. CASE LoadTeam(p)
  <2> DEFINE run  == [Copy(WithStatus(doc, "InProgress")) EXCEPT !.team = team]
  <2>0. "InProgress" \in Statuses
    BY DEF Statuses
  <2>1. /\ Copy(WithStatus(doc, "InProgress")) \in View
        /\ Copy(WithStatus(doc, "InProgress")).doc = WithStatus(doc, "InProgress")
        /\ Copy(WithStatus(doc, "InProgress")).cand = {}
    BY <1>0, <2>0, DocWrites, CopyView
  <2>2. run \in View /\ run.doc = WithStatus(doc, "InProgress") /\ run.cand = {}
    BY <2>1, <1>e DEF View
  <2>3. Sound(run.doc, cand) /\ run.doc.status # "none"
    BY <1>e, <2>2, WritesSound
  <2>4. Copy(doc) \in View /\ Copy(doc).doc = doc /\ Copy(doc).cand = {}
    BY <1>0, CopyView
  <2>5. /\ \/ task' = [task EXCEPT ![p] =
                 [task[p] EXCEPT !.seen = Copy(doc), !.pc = "logo"]]
           \/ task' = [task EXCEPT ![p] =
                 [task[p] EXCEPT !.seen = run, !.pc = "begin"]]
        /\ UNCHANGED <<doc, cand, team, aged, crashes>>
    BY <1>3 DEF LoadTeam
  <2> HIDE DEF run
  <2>6. Holds([task[p] EXCEPT !.seen = Copy(doc), !.pc = "logo"], doc, cand)
    BY <1>0, <1>e, <2>4, MoveHolds DEF Steps, JudgeSteps
  <2>7. Holds([task[p] EXCEPT !.seen = run, !.pc = "begin"], doc, cand)
    BY <1>0, <2>2, <2>3, MoveHolds DEF Steps, JudgeSteps
  <2> QED
    BY <2>5, <2>6, <2>7, TypeRead
<1>4. CASE BeginRun(p)
  <2>1. Sound(doc', cand') /\ doc'.status # "none" /\ aged' = FALSE /\ cand' = cand
    BY <1>0, <1>4 DEF BeginRun, Write, At, Holds
  <2>2. CASE task' = [task EXCEPT ![p] = [@ EXCEPT !.seen = NoView, !.pc = "load"]]
    <3>1. Holds([task[p] EXCEPT !.seen = NoView, !.pc = "load"], doc', cand)
      <4>1. "load" \in Steps \ JudgeSteps
        BY DEF Steps, JudgeSteps
      <4>2. NoView \in View /\ Sound(NoView.doc, cand) /\ NoView.cand \subseteq cand
        BY Fresh, NoDocSound
      <4> QED
        BY <1>0, <4>1, <4>2, MoveHolds
    <3>2. task' = [task EXCEPT ![p] =
            [task[p] EXCEPT !.seen = NoView, !.pc = "load"]]
      BY <2>2
    <3> QED
      BY <1>4, <1>e, <2>1, <3>1, <3>2, TypeFrame DEF BeginRun
  <2>3. CASE Goto(p, "enrich")
    <3> DEFINE k == [task[p] EXCEPT !.pc = "enrich"]
    <3>1. k \in Task /\ k.pc = "enrich" /\ k.seen = task[p].seen
          /\ k.latest = task[p].latest
      BY <1>0 DEF Task, Steps
    <3>2. task' = [task EXCEPT ![p] = k]
      BY <2>3 DEF Goto
    <3> HIDE DEF k
    <3>3. Holds(k, doc', cand)
      BY <1>0, <3>1 DEF Holds, JudgeSteps
    <3> QED
      BY <1>4, <1>e, <2>1, <3>2, <3>3, TypeFrame DEF BeginRun
  <2> QED
    BY <1>4, <2>2, <2>3 DEF BeginRun
<1>5. ASSUME NEW found \in SUBSET Fields, EnrichDone(p, found)
      PROVE  TypeInv'
  <2> DEFINE all == task[p].op = "forceAll"
  <2>1. Sound(doc', cand') /\ doc'.status # "none" /\ aged' = FALSE
    <3>1. all \in BOOLEAN
      OBVIOUS
    <3> HIDE DEF all
    <3>2. doc' = Finished(task[p].seen, all, found) /\ aged' = FALSE
          /\ cand' = cand \cup Answered(task[p].seen, all, found)
      BY <1>5 DEF EnrichDone, Write, all
    <3> QED
      BY <1>0, <3>1, <3>2, FinishedDoc
  <2>2. cand \subseteq cand' /\ cand' \subseteq Fields
    BY <1>5, <1>e DEF EnrichDone, Answered
  <2> QED
    BY <1>5, <1>e, <2>1, <2>2, TypeLast DEF EnrichDone
<1>6. CASE LogoDone(p)
  <2>1. Sound(doc', cand') /\ doc'.status # "none" /\ aged' = FALSE /\ cand' = cand
    BY <1>0, <1>6, DocWrites, SoundAs DEF LogoDone, Write
  <2> QED
    BY <1>6, <1>e, <2>1, TypeLast DEF LogoDone
<1>7. CASE RunFails(p)
  <2>1. Sound(doc', cand') /\ doc'.status # "none" /\ aged' = FALSE /\ cand' = cand
    BY <1>0, <1>7, WritesSound DEF RunFails, Write
  <2> QED
    BY <1>7, <1>e, <2>1, TypeLast DEF RunFails
<1> QED
  BY <1>1, <1>2, <1>3, <1>4, <1>5, <1>6, <1>7

\* A judge that reads the document again holds a copy of it.
LEMMA TypeReread ==
  ASSUME TypeInv, NEW p \in Procs, doc.status # "none",
         NEW step \in JudgeSteps, NEW judge \in Judgments, Reread(p, step, judge),
         UNCHANGED <<doc, cand, team, aged, crashes>>
  PROVE  TypeInv'
<1> DEFINE k == [task[p] EXCEPT !.latest = [doc EXCEPT !.judge = judge], !.pc = step]
<1>0. doc \in Doc /\ Sound(doc, cand) /\ task[p] \in Task /\ Holds(task[p], doc, cand)
  BY ProcTask DEF TypeInv
<1>1. k \in Task /\ k.pc = step /\ k.seen = task[p].seen
      /\ k.latest = [doc EXCEPT !.judge = judge]
  <2>1. [doc EXCEPT !.judge = judge] \in Doc
    BY <1>0, DocWrites
  <2> QED
    BY <1>0, <2>1 DEF Task, Steps, JudgeSteps
<1>2. Sound(k.latest, cand) /\ k.latest.status # "none"
  <2>1. Sound([doc EXCEPT !.judge = judge], cand)
        /\ [doc EXCEPT !.judge = judge].status # "none"
    BY <1>0, DocWrites, SoundAs
  <2> QED
    BY <1>1, <2>1
<1>3. task' = [task EXCEPT ![p] = k]
  BY DEF Reread
<1> HIDE DEF k
<1>4. Holds(k, doc, cand)
  BY <1>0, <1>1, <1>2 DEF Holds, JudgeSteps
<1> QED
  BY <1>3, <1>4, TypeRead

LEMMA TypeJudgeSteps ==
  ASSUME TypeInv, NEW p \in Procs, JudgeStep(p) \/ Reload(p)
  PROVE  TypeInv'
<1>0. /\ task[p] \in Task /\ Holds(task[p], doc, cand) /\ doc \in Doc
      /\ Sound(task[p].seen.doc, cand) /\ task[p].seen.cand \subseteq cand
      /\ Sound(task[p].latest, cand)
      /\ task[p].fields \subseteq Fields
  BY ProcTask DEF Holds, Task
<1>e. /\ Sound(doc, cand) /\ cand \subseteq Fields /\ aged \in BOOLEAN
      /\ team \in [Fields -> Values]
      /\ UNCHANGED team => team' \in [Fields -> Values]
      /\ UNCHANGED crashes => crashes' \in 0 .. MaxCrashes
  BY DEF TypeInv
<1>1. CASE JudgeRead(p)
  <2>1. doc.status # "none"
    BY <1>0, <1>1 DEF JudgeRead, At, Holds, JudgeSteps
  <2> QED
    BY <1>1, <2>1, TypeReread DEF JudgeRead, JudgeSteps, Judgments
<1>2. CASE JudgeWrite(p)
  <2>1. Sound(doc', cand') /\ doc'.status # "none" /\ aged' = FALSE
        /\ UNCHANGED <<cand, team, crashes>>
    BY <1>0, <1>2 DEF JudgeWrite, Write, At, Holds
  <2>2. CASE Finish(p)
    BY <1>2, <1>e, <2>1, <2>2, TypeLast DEF JudgeWrite
  <2>3. ASSUME NEW step \in {"usageRead", "reload", "verdict"},
               task' = [task EXCEPT ![p] = [@ EXCEPT !.latest = NoDoc, !.pc = step]]
        PROVE  TypeInv'
    <3> DEFINE k == [task[p] EXCEPT !.latest = NoDoc, !.pc = step]
    <3>1. k \in Task /\ k.pc = step /\ k.seen = task[p].seen /\ k.latest = NoDoc
      BY <1>0, Fresh DEF Task, Steps
    <3>2. task' = [task EXCEPT ![p] = k]
      BY <2>3
    <3> HIDE DEF k
    <3>3. Holds(k, doc', cand)
      BY <1>0, <2>1, <3>1, NoDocSound DEF Holds, JudgeSteps
    <3> QED
      BY <1>e, <2>1, <3>2, <3>3, TypeFrame
  <2> QED
    BY <1>2, <2>2, <2>3 DEF JudgeWrite
<1>3. CASE UsageRead(p)
  <2>1. doc.status # "none" /\ doc.judge \in Judgments
    BY <1>0, <1>3 DEF UsageRead, At, Holds, JudgeSteps, Doc
  <2> QED
    BY <1>3, <2>1, TypeReread DEF UsageRead, JudgeSteps
<1>4. CASE UsageWrite(p)
  <2>1. Sound(doc', cand') /\ doc'.status # "none" /\ aged' = FALSE /\ cand' = cand
    BY <1>0, <1>4 DEF UsageWrite, Write, At, Holds
  <2> QED
    BY <1>4, <1>e, <2>1, TypeLast DEF UsageWrite
<1>5. CASE Reload(p)
  <2>1. CASE Finish(p)
    BY <1>5, <1>e, <2>1, TypeLast DEF Reload
  <2>2. CASE task' = [task EXCEPT ![p] =
               [@ EXCEPT !.fields = Judgable(Now) \cap cand, !.pc = "verdict"]]
    <3> DEFINE k == [task[p] EXCEPT !.fields = Judgable(Now) \cap cand,
                                    !.pc = "verdict"]
    <3>0. Judgable(Now) \cap cand \in SUBSET Fields
      BY DEF Judgable
    <3>1. k \in Task /\ k.pc = "verdict" /\ k.seen = task[p].seen
          /\ k.latest = task[p].latest
      BY <1>0, <3>0 DEF Task, Steps
    <3>2. task' = [task EXCEPT ![p] = k]
      BY <2>2
    <3> HIDE DEF k
    <3>3. Holds(k, doc, cand)
      BY <1>0, <1>5, <3>1 DEF Reload, At, Holds, JudgeSteps
    <3> QED
      BY <1>5, <3>2, <3>3, TypeRead DEF Reload
  <2> QED
    BY <1>5, <2>1, <2>2 DEF Reload
<1>6. ASSUME NEW high \in SUBSET task[p].fields, Verdict(p, high)
      PROVE  TypeInv'
  <2> DEFINE copy == [doc EXCEPT !.judge = "Judged"]
             k    == [task[p] EXCEPT !.latest = copy, !.fields = high, !.pc = "promote"]
  <2>1. doc.status # "none"
    BY <1>0, <1>6 DEF Verdict, At, Holds, JudgeSteps
  <2>2. copy \in Doc /\ Sound(copy, cand) /\ copy.status # "none"
    BY <1>0, <1>e, <2>1, DocWrites, SoundAs DEF Judgments
  <2> HIDE DEF copy
  <2>3. k \in Task /\ k.pc = "promote" /\ k.seen = task[p].seen /\ k.latest = copy
    BY <1>0, <2>2 DEF Task, Steps
  <2>4. task' = [task EXCEPT ![p] = k]
    BY <1>6 DEF Verdict, copy
  <2> HIDE DEF k
  <2>5. Holds(k, doc, cand)
    BY <1>0, <2>1, <2>2, <2>3 DEF Holds, JudgeSteps
  <2> QED
    BY <1>6, <2>4, <2>5, TypeRead DEF Verdict
<1>7. CASE JudgeFails(p)
  <2> DEFINE k == [task[p] EXCEPT !.failed = TRUE, !.latest = NoDoc, !.fields = {},
                                  !.pc = "judgeRead"]
  <2>1. k \in Task /\ k.pc = "judgeRead" /\ k.seen = task[p].seen /\ k.latest = NoDoc
    BY <1>0, Fresh DEF Task, Steps
  <2>2. task' = [task EXCEPT ![p] = k]
    BY <1>7 DEF JudgeFails
  <2> HIDE DEF k
  <2>3. Holds(k, doc, cand)
    BY <1>0, <1>7, <2>1, NoDocSound DEF JudgeFails, Holds, JudgeSteps
  <2> QED
    BY <1>7, <2>2, <2>3, TypeRead DEF JudgeFails
<1>8. CASE Promote(p)
  <2>1. Sound(doc', cand') /\ doc'.status # "none" /\ aged' = FALSE /\ cand' = cand
    BY <1>0, <1>8 DEF Promote, Write, At, Holds
  <2>2. team' \in [Fields -> Values]
    BY <1>8, <1>e DEF Promote, Values
  <2> QED
    BY <1>8, <1>e, <2>1, <2>2, TypeLast DEF Promote
<1> QED
  BY <1>1, <1>2, <1>3, <1>4, <1>5, <1>6, <1>7, <1>8 DEF JudgeStep

LEMMA TypePeopleSteps ==
  ASSUME TypeInv, NEW p \in Procs, PeopleStep(p)
  PROVE  TypeInv'
<1>0. /\ task[p] \in Task /\ Holds(task[p], doc, cand) /\ doc \in Doc
      /\ task[p].seen.doc \in Doc /\ task[p].value \in Values
      /\ Sound(task[p].seen.doc, cand) /\ task[p].seen.cand \subseteq cand
  BY ProcTask DEF Holds, Task
<1>e. /\ Sound(doc, cand) /\ cand \subseteq Fields /\ aged \in BOOLEAN
      /\ team \in [Fields -> Values]
      /\ UNCHANGED team => team' \in [Fields -> Values]
      /\ UNCHANGED crashes => crashes' \in 0 .. MaxCrashes
  BY DEF TypeInv
<1>1. ASSUME NEW status \in {"Reviewed", "Approved"}, Review(p, status)
      PROVE  TypeInv'
  <2>1. Sound(doc', cand') /\ doc'.status # "none" /\ aged' = FALSE /\ cand' = cand
    <3>1. status \in Statuses
      BY DEF Statuses
    <3> QED
      BY <1>0, <1>1, <3>1, DocWrites, SoundAs DEF Review, Write
  <2> QED
    BY <1>1, <1>e, <2>1, TypeLast DEF Review
<1>2. ASSUME NEW typed \in SUBSET Fields, NEW named \in SUBSET (Fields \ typed),
             Approve(p, typed, named)
      PROVE  TypeInv'
  <2> DEFINE d     == task[p].seen.doc
             owned == {f \in named : d.field[f] = "ChangedByUser"}
             taken == {f \in named \ owned : f \in task[p].seen.cand}
             field == [f \in Fields |->
                         IF f \in typed THEN "ChangedByUser"
                         ELSE IF f \in taken /\ d.field[f] = "none" THEN "Enriched"
                         ELSE d.field[f]]
             new   == [d EXCEPT !.status = "Reviewed", !.field = field]
  <2>1. CASE UNCHANGED <<doc, team, aged>>
    BY <1>2, <1>e, <2>1, TypeLast DEF Approve
  <2>2. CASE /\ Write(new)
             /\ team' = [f \in Fields |-> IF f \in typed THEN "user"
                                          ELSE IF f \in taken THEN "ai" ELSE team[f]]
    <3>1. taken \subseteq cand
      BY <1>0
    <3>2. \A f \in Fields : d.field[f] \in FieldStatuses /\ field[f] \in FieldStatuses
      BY <1>0 DEF Doc, FieldStatuses
    <3>3. new \in Doc /\ new.status = "Reviewed" /\ new.field = field
      BY <1>0, <3>2 DEF Doc, Statuses
    <3>4. Sound(new, cand)
      BY <1>0, <3>1, <3>3 DEF Sound
    <3>5. team' \in [Fields -> Values]
      BY <1>e, <2>2 DEF Values
    <3> HIDE DEF new
    <3>6. doc' = new /\ aged' = FALSE
      BY <2>2 DEF Write
    <3> QED
      BY <1>2, <1>e, <3>3, <3>4, <3>5, <3>6, TypeLast DEF Approve
  <2> QED
    BY <1>2, <2>1, <2>2 DEF Approve
<1>3. ASSUME NEW f \in Fields, Edit(p, f)
      PROVE  TypeInv'
  <2> DEFINE d   == task[p].seen.doc
             new == [d EXCEPT !.field[f] = "ChangedByUser"]
  <2>1. team' \in [Fields -> Values]
    BY <1>0, <1>3, <1>e DEF Edit
  <2>2. CASE UNCHANGED <<doc, aged>>
    BY <1>3, <1>e, <2>1, <2>2, TypeLast DEF Edit
  <2>3. CASE Flips(d, f, task[p].value) /\ Write(new)
    <3>1. d.status # "none"
      BY <1>0, <2>3 DEF Sound, Flips, NoDoc
    <3>2. new \in Doc /\ new.status = d.status
          /\ \A g \in Fields : new.field[g] = "Enriched" => d.field[g] = "Enriched"
      BY <1>0 DEF Doc, FieldStatuses
    <3>3. Sound(new, cand)
      BY <1>0, <3>1, <3>2 DEF Sound
    <3> HIDE DEF new
    <3>4. doc' = new /\ aged' = FALSE
      BY <2>3 DEF Write
    <3> QED
      BY <1>3, <1>e, <2>1, <3>1, <3>2, <3>3, <3>4, TypeLast DEF Edit
  <2> QED
    BY <1>3, <2>2, <2>3 DEF Edit
<1> QED
  BY <1>1, <1>2, <1>3 DEF PeopleStep

LEMMA TypeNext == TypeInv /\ [Next]_vars => TypeInv'
<1> SUFFICES ASSUME TypeInv, [Next]_vars
             PROVE  TypeInv'
  OBVIOUS
<1>0. Requests \subseteq Procs /\ EnrichCron \in Procs /\ JudgeCron \in Procs
  BY DEF Procs
<1>1. ASSUME NEW p \in Procs, EnrichStep(p)
      PROVE  TypeInv'
  BY <1>1, TypeRunSteps DEF EnrichStep
<1>2. ASSUME NEW p \in Procs, Step(p)
      PROVE  TypeInv'
  BY <1>1, <1>2, TypeRunSteps, TypeJudgeSteps, TypePeopleSteps DEF Step
<1>3. CASE EnrichJob \/ JudgeJob
  BY <1>0, <1>1, <1>3, TypeTicks, TypeJudgeSteps DEF EnrichJob, JudgeJob
<1>4. ASSUME NEW p \in Procs, Crash(p)
      PROVE  TypeInv'
  <2>1. crashes' \in 0 .. MaxCrashes
    BY <1>4, EnrichmentAssumptions DEF Crash, TypeInv
  <2> QED
    BY <1>4, <2>1, TypeLast DEF Crash, TypeInv
<1>5. CASE Age
  BY <1>5 DEF Age, TypeInv
<1>6. CASE UNCHANGED vars
  BY <1>6 DEF vars, TypeInv
<1> QED
  BY <1>0, <1>2, <1>3, <1>4, <1>5, <1>6, TypeStart DEF Next

LEMMA TypeHolds == Spec => []TypeInv
  BY TypeInit, TypeNext, PTL DEF Spec

\* The row, the team and what every job has read of them stay in their types;
\* a field the document calls Enriched has its candidate, whichever jobs write
\* old copies of the document back (team-enrichment.service.ts,
\* team-enrichment-judge.service.ts).
THEOREM EnrichmentTypeCorrect == Spec => []TypeOK
  BY TypeHolds, TypeInvTypes, PTL

-----------------------------------------------------------------------------
(* A person's value on record is kept.                                     *)

SeenSteps == {"markWrite", "begin", "enrich", "logo", "review", "approve", "edit"}

LatestSteps == {"judgeWrite", "usageWrite", "promote"}

\* A step of p, which leaves it with k.
LEMMA RecordFrame ==
  ASSUME TypeInv, NEW f \in Fields, OnRecord(f), NEW p \in Procs, NEW k, Agrees(k, f),
         task' = [task EXCEPT ![p] = k],
         doc'.field[f] = "ChangedByUser", team'[f] = team[f]
  PROVE  StaysOnRecord(f)
<1>1. \A q \in Procs : Agrees(task'[q], f)
  BY DEF TypeInv, OnRecord
<1> QED
  BY <1>1 DEF StaysOnRecord, OnRecord

\* A last write of p.
LEMMA RecordLast ==
  ASSUME TypeInv, NEW f \in Fields, OnRecord(f), NEW p \in Procs, Finish(p),
         doc'.field[f] = "ChangedByUser", team'[f] = team[f]
  PROVE  StaysOnRecord(f)
<1>1. PICK k : task' = [task EXCEPT ![p] = k] /\ k.pc \in {"idle", "done"}
  BY FinishHolds
<1>2. Agrees(k, f)
  BY <1>1 DEF Agrees
<1> QED
  BY <1>1, <1>2, RecordFrame

\* Copies of what the document says now.
LEMMA RecordCopies ==
  ASSUME TypeInv, NEW f \in Fields, OnRecord(f)
  PROVE  /\ doc \in Doc /\ doc.field[f] = "ChangedByUser"
         /\ Copy(doc).doc.field[f] = "ChangedByUser"
         /\ Copy(Marked(doc)).doc.field[f] = "ChangedByUser"
         /\ Marked(doc).field[f] = "ChangedByUser"
         /\ Copy(WithStatus(doc, "InProgress")).doc.field[f] = "ChangedByUser"
         /\ Copy(doc) \in View /\ Copy(Marked(doc)) \in View
         /\ Copy(WithStatus(doc, "InProgress")) \in View
<1>1. doc \in Doc /\ doc.field[f] = "ChangedByUser"
  BY DEF TypeInv, Sound, OnRecord
<1>2. "InProgress" \in Statuses
  BY DEF Statuses
<1>3. /\ Marked(doc) \in Doc /\ Marked(doc).field = doc.field
      /\ WithStatus(doc, "InProgress") \in Doc
      /\ WithStatus(doc, "InProgress").field = doc.field
  BY <1>1, <1>2, DocWrites
<1>4. \A d \in Doc : Copy(d) \in View /\ Copy(d).doc = d
  BY CopyView
<1> QED
  BY <1>1, <1>3, <1>4

LEMMA RecordBegin ==
  ASSUME TypeInv, NEW f \in Fields, OnRecord(f), NEW p \in Procs,
         NEW op \in Ops, NEW step \in Steps \ LatestSteps, NEW view \in View,
         step \in SeenSteps => view.doc.field[f] = "ChangedByUser",
         step \notin {"enrich", "begin"},
         Begin(p, op, step, view)
  PROVE  StaysOnRecord(f)
<1> DEFINE k == [NewTask EXCEPT !.op = op, !.pc = step, !.seen = view]
<1>1. k.pc = step /\ k.seen = view
  BY Fresh DEF Task
<1>2. task' = [task EXCEPT ![p] = k] /\ UNCHANGED <<doc, team>>
  BY DEF Begin
<1> HIDE DEF k
<1>3. Agrees(k, f)
  BY <1>1 DEF Agrees, SeenSteps, LatestSteps
<1> QED
  BY <1>2, <1>3, RecordFrame DEF OnRecord

LEMMA RecordStart ==
  ASSUME TypeInv, NEW f \in Fields, OnRecord(f), NEW p \in Requests, Start(p)
  PROVE  StaysOnRecord(f)
<1>0. p \in Procs /\ doc \in Doc
  BY DEF Procs, TypeInv, Sound
<1>1. CASE StartMark(p)
  BY <1>0, <1>1, RecordCopies, RecordBegin DEF StartMark, Ops, Steps, LatestSteps
<1>2. CASE StartEnrich(p)
  BY <1>0, <1>2, Fresh, RecordBegin DEF StartEnrich, Ops, Steps, LatestSteps, SeenSteps
<1>3. ASSUME NEW op \in {"enrich", "forceAll"}, StartForce(p, op)
      PROVE  StaysOnRecord(f)
  BY <1>0, <1>3, RecordCopies, RecordBegin DEF StartForce, Ops, Steps, LatestSteps
<1>4. CASE StartLogo(p)
  <2> DEFINE view == Copy(WithStatus(doc, "InProgress"))
             k == [NewTask EXCEPT !.op = "logo", !.pc = "begin", !.prior = doc.status,
                     !.seen = view]
  <2>1. view.doc.field[f] = "ChangedByUser"
    BY RecordCopies
  <2>2. task' = [task EXCEPT ![p] = k] /\ UNCHANGED <<doc, team>>
    BY <1>4 DEF StartLogo
  <2> HIDE DEF view
  <2>3. k.op = "logo" /\ k.pc = "begin" /\ k.seen = view
    BY Fresh DEF Task
  <2> HIDE DEF k
  <2>4. Agrees(k, f)
    BY <2>1, <2>3 DEF Agrees
  <2> QED
    BY <1>0, <2>2, <2>4, RecordFrame DEF OnRecord
<1>5. CASE StartJudge(p)
  <2> DEFINE k == [NewTask EXCEPT !.op = "judge", !.pc = "judgeRead",
                     !.fields = Judgable(Now) \cap cand]
  <2>1. task' = [task EXCEPT ![p] = k] /\ UNCHANGED <<doc, team>>
    BY <1>5 DEF StartJudge
  <2>2. k.pc = "judgeRead"
    BY Fresh DEF Task
  <2> HIDE DEF k
  <2>3. Agrees(k, f)
    BY <2>2 DEF Agrees
  <2> QED
    BY <1>0, <2>1, <2>3, RecordFrame DEF OnRecord
<1>6. CASE StartReview(p)
  BY <1>0, <1>6, RecordCopies, RecordBegin DEF StartReview, Ops, Steps, LatestSteps
<1>7. CASE StartApprove(p)
  <2> DEFINE view == [Copy(doc) EXCEPT !.cand = cand]
  <2>1. view \in View /\ view.doc = Copy(doc).doc
    BY RecordCopies DEF View, TypeInv
  <2>2. Begin(p, "approve", "approve", view)
    BY <1>7 DEF StartApprove
  <2> HIDE DEF view
  <2> QED
    BY <1>0, <2>1, <2>2, RecordCopies, RecordBegin DEF Ops, Steps, LatestSteps
<1>8. ASSUME NEW g \in Fields, NEW value \in {"empty", "junk", "user"},
             StartEdit(p, g, value)
      PROVE  StaysOnRecord(f)
  <2> DEFINE k == [NewTask EXCEPT !.op = "edit", !.pc = "edit", !.seen = Copy(doc),
                     !.fields = {g}, !.value = value]
  <2>1. task' = [task EXCEPT ![p] = k] /\ UNCHANGED <<doc, team>>
    BY <1>8 DEF StartEdit
  <2>2. k.pc = "edit" /\ k.seen = Copy(doc)
    BY Fresh DEF Task
  <2> HIDE DEF k
  <2>3. Agrees(k, f)
    BY <2>2, RecordCopies DEF Agrees
  <2> QED
    BY <1>0, <2>1, <2>3, RecordFrame DEF OnRecord
<1> QED
  BY <1>1, <1>2, <1>3, <1>4, <1>5, <1>6, <1>7, <1>8 DEF Start

\* A step that changes where p is to a place that writes nothing back.
LEMMA RecordMove ==
  ASSUME TypeInv, NEW f \in Fields, OnRecord(f), NEW p \in Procs,
         NEW k, task' = [task EXCEPT ![p] = k], k.pc \notin SeenSteps \cup LatestSteps,
         doc'.field[f] = "ChangedByUser", team'[f] = team[f]
  PROVE  StaysOnRecord(f)
<1>1. Agrees(k, f)
  BY DEF Agrees, SeenSteps, LatestSteps
<1> QED
  BY <1>1, RecordFrame

LEMMA RecordGoto ==
  ASSUME TypeInv, NEW f \in Fields, OnRecord(f), NEW p \in Procs,
         NEW step \in Steps \ (SeenSteps \cup LatestSteps), Goto(p, step),
         doc'.field[f] = "ChangedByUser", team'[f] = team[f]
  PROVE  StaysOnRecord(f)
<1> DEFINE k == [task[p] EXCEPT !.pc = step]
<1>1. task' = [task EXCEPT ![p] = k]
  BY DEF Goto
<1>2. k.pc = step
  BY ProcTask DEF Task
<1> HIDE DEF k
<1> QED
  BY <1>1, <1>2, RecordMove

LEMMA RecordTicks ==
  ASSUME TypeInv, NEW f \in Fields, OnRecord(f),
         \/ TickEnrich \/ FindPending \/ GuardRun
         \/ TickJudge \/ FindUnjudged \/ Reload(JudgeCron)
  PROVE  StaysOnRecord(f)
<1>0. /\ EnrichCron \in Procs /\ JudgeCron \in Procs
      /\ doc \in Doc /\ doc.field[f] = "ChangedByUser"
      /\ {"find", "mark"} \subseteq Steps \ (SeenSteps \cup LatestSteps)
  BY DEF Procs, TypeInv, Sound, OnRecord, Steps, SeenSteps, LatestSteps
<1>1. CASE TickEnrich
  <2>1. doc'.field[f] = "ChangedByUser"
    BY <1>1, RecordCopies DEF TickEnrich, Write
  <2> QED
    BY <1>0, <1>1, <2>1, RecordGoto DEF TickEnrich
<1>2. CASE FindPending
  <2>1. CASE Finish(EnrichCron)
    BY <1>0, <1>2, <2>1, RecordLast DEF FindPending
  <2>2. CASE task' = [task EXCEPT ![EnrichCron] =
               [NewTask EXCEPT !.op = "enrich", !.pc = "guard"]]
    <3> DEFINE k == [NewTask EXCEPT !.op = "enrich", !.pc = "guard"]
    <3>1. k.pc = "guard"
      BY Fresh DEF Task
    <3> HIDE DEF k
    <3>2. k.pc \notin SeenSteps \cup LatestSteps
      BY <3>1 DEF SeenSteps, LatestSteps
    <3>3. task' = [task EXCEPT ![EnrichCron] = k]
      BY <2>2 DEF k
    <3> QED
      BY <1>0, <1>2, <3>2, <3>3, RecordMove DEF FindPending
  <2> QED
    BY <1>2, <2>1, <2>2 DEF FindPending
<1>3. CASE GuardRun
  BY <1>0, <1>3, RecordLast, RecordGoto DEF GuardRun
<1>4. CASE TickJudge
  <2>1. doc'.field[f] = "ChangedByUser"
    BY <1>0, <1>4 DEF TickJudge, Write, Doc
  <2> QED
    BY <1>0, <1>4, <2>1, RecordGoto DEF TickJudge
<1>5. CASE FindUnjudged
  <2>1. CASE Finish(JudgeCron)
    BY <1>0, <1>5, <2>1, RecordLast DEF FindUnjudged
  <2>2. CASE task' = [task EXCEPT ![JudgeCron] =
               [NewTask EXCEPT !.op = "batch", !.pc = "judgeRead"]]
    <3> DEFINE k == [NewTask EXCEPT !.op = "batch", !.pc = "judgeRead"]
    <3>1. k.pc = "judgeRead"
      BY Fresh DEF Task
    <3> HIDE DEF k
    <3>2. k.pc \notin SeenSteps \cup LatestSteps
      BY <3>1 DEF SeenSteps, LatestSteps
    <3>3. task' = [task EXCEPT ![JudgeCron] = k]
      BY <2>2 DEF k
    <3> QED
      BY <1>0, <1>5, <3>2, <3>3, RecordMove DEF FindUnjudged
  <2> QED
    BY <1>5, <2>1, <2>2 DEF FindUnjudged
<1>6. CASE Reload(JudgeCron)
  <2>1. CASE Finish(JudgeCron)
    BY <1>0, <1>6, <2>1, RecordLast DEF Reload
  <2>2. CASE task' = [task EXCEPT ![JudgeCron] =
               [@ EXCEPT !.fields = Judgable(Now) \cap cand, !.pc = "verdict"]]
    <3> DEFINE k == [task[JudgeCron] EXCEPT !.fields = Judgable(Now) \cap cand,
                                            !.pc = "verdict"]
    <3>1. k.pc = "verdict"
      BY <1>0, ProcTask DEF Task
    <3>3. task' = [task EXCEPT ![JudgeCron] = k]
      BY <2>2
    <3> HIDE DEF k
    <3>2. k.pc \notin SeenSteps \cup LatestSteps
      BY <3>1 DEF SeenSteps, LatestSteps
    <3> QED
      BY <1>0, <1>6, <3>2, <3>3, RecordMove DEF Reload
  <2> QED
    BY <1>6, <2>1, <2>2 DEF Reload
<1> QED
  BY <1>1, <1>2, <1>3, <1>4, <1>5, <1>6

\* A run leaves a field alone that its document calls the user's and that held
\* no junk.
LEMMA FinishedKeeps ==
  ASSUME NEW view \in View, NEW f \in Fields, NEW all, NEW found,
         view.doc.field[f] = "ChangedByUser", view.team[f] # "junk"
  PROVE  Finished(view, all, found).field[f] = "ChangedByUser"
<1>1. ~Unsettled(view, f, all)
  BY DEF Unsettled
<1>2. Outcome(view, f, all, found) = "ChangedByUser"
  BY <1>1 DEF Outcome
<1> QED
  BY <1>2 DEF Finished

LEMMA RecordRunSteps ==
  ASSUME TypeInv, NEW f \in Fields, OnRecord(f), NEW p \in Procs,
         \/ Mark(p) \/ MarkWrite(p) \/ LoadTeam(p) \/ BeginRun(p) \/ LogoDone(p)
         \/ RunFails(p) \/ \E found \in SUBSET Fields : EnrichDone(p, found)
  PROVE  StaysOnRecord(f)
<1>0. /\ task[p] \in Task /\ task[p].seen \in View /\ task[p].seen.doc \in Doc
      /\ doc \in Doc /\ doc.field[f] = "ChangedByUser" /\ team[f] = "user"
      /\ Agrees(task[p], f)
  BY ProcTask DEF OnRecord
<1>r. \A k : k = [task[p] EXCEPT !.seen = NoView, !.pc = "load"]
              => k.pc \notin SeenSteps \cup LatestSteps
  BY <1>0 DEF Task, SeenSteps, LatestSteps
<1>1. CASE Mark(p)
  <2> DEFINE k == [task[p] EXCEPT !.seen = Copy(Marked(doc)), !.pc = "markWrite"]
  <2>1. task' = [task EXCEPT ![p] = k] /\ UNCHANGED <<doc, team>>
    BY <1>1 DEF Mark
  <2>2. k.pc = "markWrite" /\ k.seen = Copy(Marked(doc))
    BY <1>0 DEF Task
  <2> HIDE DEF k
  <2>3. Agrees(k, f)
    BY <2>2, RecordCopies DEF Agrees
  <2> QED
    BY <1>0, <2>1, <2>3, RecordFrame
<1>2. CASE MarkWrite(p)
  <2>1. doc'.field[f] = "ChangedByUser" /\ team' = team
    BY <1>0, <1>2 DEF MarkWrite, Write, At, Agrees
  <2>2. CASE Finish(p)
    BY <2>1, <2>2, RecordLast
  <2>3. CASE task' = [task EXCEPT ![p] = [@ EXCEPT !.seen = NoView, !.pc = "load"]]
    BY <1>r, <2>1, <2>3, RecordMove
  <2> QED
    BY <1>2, <2>2, <2>3 DEF MarkWrite
<1>3. CASE LoadTeam(p)
  <2> DEFINE logo == task[p].op = "logo"
             run  == [Copy(WithStatus(doc, "InProgress")) EXCEPT !.team = team]
             view == IF logo THEN Copy(doc) ELSE run
             step == IF logo THEN "logo" ELSE "begin"
             k    == [task[p] EXCEPT !.seen = view, !.pc = step]
  <2>1. task' = [task EXCEPT ![p] = k] /\ UNCHANGED <<doc, team>>
    BY <1>3 DEF LoadTeam
  <2>2. run.team = team /\ run.doc.field[f] = "ChangedByUser"
    BY RecordCopies DEF View
  <2> HIDE DEF run
  <2>3. view.doc.field[f] = "ChangedByUser" /\ (~logo => view.team[f] # "junk")
    BY <1>0, <2>2, RecordCopies
  <2>4. step \in {"logo", "begin"} /\ (step = "begin" <=> ~logo)
    OBVIOUS
  <2> HIDE DEF view, step
  <2>5. k.pc = step /\ k.seen = view /\ k.op = task[p].op
    BY <1>0 DEF Task
  <2> HIDE DEF k
  <2>6. Agrees(k, f)
    BY <2>3, <2>4, <2>5 DEF Agrees
  <2> QED
    BY <1>0, <2>1, <2>6, RecordFrame
<1>4. CASE BeginRun(p)
  <2>1. doc'.field[f] = "ChangedByUser" /\ team' = team
    BY <1>0, <1>4 DEF BeginRun, Write, At, Agrees
  <2>2. CASE /\ task[p].op = "logo"
             /\ task' = [task EXCEPT ![p] = [@ EXCEPT !.seen = NoView, !.pc = "load"]]
    BY <1>r, <2>1, <2>2, RecordMove
  <2>3. CASE task[p].op # "logo" /\ Goto(p, "enrich")
    <3> DEFINE k == [task[p] EXCEPT !.pc = "enrich"]
    <3>1. task' = [task EXCEPT ![p] = k]
      BY <2>3 DEF Goto
    <3>2. k.pc = "enrich" /\ k.seen = task[p].seen
      BY <1>0 DEF Task
    <3> HIDE DEF k
    <3>3. Agrees(k, f)
      BY <1>0, <1>4, <2>3, <3>2 DEF BeginRun, At, Agrees
    <3> QED
      BY <2>1, <3>1, <3>3, RecordFrame
  <2> QED
    BY <1>4, <2>2, <2>3 DEF BeginRun
<1>5. CASE LogoDone(p)
  <2>1. task[p].prior \in Statuses /\ task[p].seen.doc.field[f] = "ChangedByUser"
    BY <1>0, <1>5 DEF Task, LogoDone, At, Agrees
  <2>2. doc'.field[f] = "ChangedByUser"
    BY <1>0, <1>5, <2>1, DocWrites DEF LogoDone, Write
  <2> QED
    BY <1>5, <2>2, RecordLast DEF LogoDone
<1>6. CASE RunFails(p)
  <2>1. task[p].seen.doc.field[f] = "ChangedByUser" /\ "FailedToEnrich" \in Statuses
    BY <1>0, <1>6 DEF RunFails, Agrees, Statuses
  <2>2. doc'.field[f] = "ChangedByUser"
    BY <1>0, <1>6, <2>1, DocWrites DEF RunFails, Write
  <2> QED
    BY <1>6, <2>2, RecordLast DEF RunFails
<1>7. ASSUME NEW found \in SUBSET Fields, EnrichDone(p, found)
      PROVE  StaysOnRecord(f)
  <2>1. task[p].seen.doc.field[f] = "ChangedByUser" /\ task[p].seen.team[f] # "junk"
    BY <1>0, <1>7 DEF EnrichDone, At, Agrees
  <2>2. doc'.field[f] = "ChangedByUser"
    BY <1>0, <1>7, <2>1, FinishedKeeps DEF EnrichDone, Write
  <2> QED
    BY <1>7, <2>2, RecordLast DEF EnrichDone
<1> QED
  BY <1>1, <1>2, <1>3, <1>4, <1>5, <1>6, <1>7

LEMMA RecordReread ==
  ASSUME TypeInv, NEW f \in Fields, OnRecord(f), NEW p \in Procs,
         NEW step \in {"judgeWrite", "usageWrite"}, NEW judge, Reread(p, step, judge),
         UNCHANGED <<doc, team>>
  PROVE  StaysOnRecord(f)
<1> DEFINE k == [task[p] EXCEPT !.latest = [doc EXCEPT !.judge = judge], !.pc = step]
<1>1. task' = [task EXCEPT ![p] = k]
  BY DEF Reread
<1>2. k.pc = step /\ k.latest.field[f] = "ChangedByUser"
  BY ProcTask DEF Task, Doc, OnRecord
<1> HIDE DEF k
<1>3. Agrees(k, f)
  BY <1>2 DEF Agrees
<1> QED
  BY <1>1, <1>3, RecordFrame DEF OnRecord

LEMMA RecordJudgeSteps ==
  ASSUME TypeInv, NEW f \in Fields, OnRecord(f), NEW p \in Procs, JudgeStep(p)
  PROVE  StaysOnRecord(f)
<1>0. /\ task[p] \in Task /\ task[p].latest \in Doc
      /\ doc \in Doc /\ doc.field[f] = "ChangedByUser" /\ team[f] = "user"
      /\ Agrees(task[p], f)
  BY ProcTask DEF OnRecord
<1>1. CASE JudgeRead(p)
  BY <1>1, RecordReread DEF JudgeRead
<1>2. CASE JudgeWrite(p)
  <2>1. doc'.field[f] = "ChangedByUser" /\ team' = team
    BY <1>0, <1>2 DEF JudgeWrite, Write, At, Agrees
  <2>2. PICK step \in {"done", "usageRead", "reload", "verdict"} :
          IF step = "done" THEN Finish(p)
          ELSE task' = [task EXCEPT ![p] = [@ EXCEPT !.latest = NoDoc, !.pc = step]]
    BY <1>2 DEF JudgeWrite
  <2>3. CASE step = "done"
    BY <2>1, <2>2, <2>3, RecordLast
  <2>4. CASE step # "done"
    <3> DEFINE k == [task[p] EXCEPT !.latest = NoDoc, !.pc = step]
    <3>1. task' = [task EXCEPT ![p] = k]
      BY <2>2, <2>4
    <3>2. k.pc = step
      BY <1>0 DEF Task
    <3> HIDE DEF k
    <3>3. k.pc \notin SeenSteps \cup LatestSteps
      BY <3>2 DEF SeenSteps, LatestSteps
    <3> QED
      BY <2>1, <3>1, <3>3, RecordMove
  <2> QED
    BY <2>3, <2>4
<1>3. CASE UsageRead(p)
  BY <1>3, RecordReread DEF UsageRead
<1>4. CASE UsageWrite(p)
  <2>1. doc'.field[f] = "ChangedByUser" /\ team' = team
    BY <1>0, <1>4 DEF UsageWrite, Write, At, Agrees
  <2> QED
    BY <1>4, <2>1, RecordLast DEF UsageWrite
<1>5. ASSUME NEW high \in SUBSET task[p].fields, Verdict(p, high)
      PROVE  StaysOnRecord(f)
  <2> DEFINE k == [task[p] EXCEPT !.latest = [doc EXCEPT !.judge = "Judged"],
                                  !.fields = high, !.pc = "promote"]
  <2>1. task' = [task EXCEPT ![p] = k] /\ UNCHANGED <<doc, team>>
    BY <1>5 DEF Verdict
  <2>2. k.pc = "promote" /\ k.latest.field[f] = "ChangedByUser"
    BY <1>0 DEF Task, Doc
  <2> HIDE DEF k
  <2>3. Agrees(k, f)
    BY <2>2 DEF Agrees
  <2> QED
    BY <1>0, <2>1, <2>3, RecordFrame
<1>6. CASE JudgeFails(p)
  <2> DEFINE k == [task[p] EXCEPT !.failed = TRUE, !.latest = NoDoc, !.fields = {},
                                  !.pc = "judgeRead"]
  <2>1. task' = [task EXCEPT ![p] = k] /\ UNCHANGED <<doc, team>>
    BY <1>6 DEF JudgeFails
  <2>2. k.pc = "judgeRead"
    BY <1>0 DEF Task
  <2> HIDE DEF k
  <2>3. k.pc \notin SeenSteps \cup LatestSteps
    BY <2>2 DEF SeenSteps, LatestSteps
  <2> QED
    BY <1>0, <2>1, <2>3, RecordMove
<1>7. CASE Promote(p)
  <2>1. task[p].latest.field[f] = "ChangedByUser"
    BY <1>0, <1>7 DEF Promote, At, Agrees
  <2>2. doc'.field[f] = "ChangedByUser"
    BY <1>7, <2>1 DEF Promote, Write
  <2>3. f \notin Promotable(task[p].latest, task[p].fields)
    BY <2>1 DEF Promotable
  <2>4. team'[f] = team[f]
    BY <1>7, <2>3 DEF Promote
  <2> QED
    BY <1>7, <2>2, <2>4, RecordLast DEF Promote
<1> QED
  BY <1>1, <1>2, <1>3, <1>4, <1>5, <1>6, <1>7 DEF JudgeStep

\* People change the team: what is not the user's any more is no longer on record.
LEMMA RecordPeopleSteps ==
  ASSUME TypeInv, NEW f \in Fields, OnRecord(f), NEW p \in Procs, PeopleStep(p)
  PROVE  StaysOnRecord(f)
<1> DEFINE d == task[p].seen.doc
<1>0. /\ task[p] \in Task /\ d \in Doc
      /\ doc.field[f] = "ChangedByUser" /\ team[f] = "user" /\ team \in [Fields -> Values]
      /\ Agrees(task[p], f)
  BY ProcTask DEF OnRecord, TypeInv
<1>d. task[p].pc \in {"review", "approve", "edit"} => d.field[f] = "ChangedByUser"
  BY <1>0 DEF Agrees
<1> HIDE DEF d
<1>1. ASSUME NEW status \in {"Reviewed", "Approved"}, Review(p, status)
      PROVE  StaysOnRecord(f)
  <2>1. doc'.field[f] = "ChangedByUser" /\ team' = team
    BY <1>0, <1>d, <1>1 DEF Review, At, Write, Doc, d
  <2> QED
    BY <1>1, <2>1, RecordLast DEF Review
<1>2. ASSUME NEW typed \in SUBSET Fields, NEW named \in SUBSET (Fields \ typed),
             Approve(p, typed, named)
      PROVE  StaysOnRecord(f)
  <2> DEFINE owned == {g \in named : d.field[g] = "ChangedByUser"}
             taken == {g \in named \ owned : g \in task[p].seen.cand}
             field == [g \in Fields |->
                         IF g \in typed THEN "ChangedByUser"
                         ELSE IF g \in taken /\ d.field[g] = "none" THEN "Enriched"
                         ELSE d.field[g]]
  <2>0. d.field[f] = "ChangedByUser" /\ f \notin taken
    BY <1>d, <1>2 DEF Approve, At
  <2>1. CASE UNCHANGED <<doc, team>>
    BY <1>0, <1>2, <2>1, RecordLast DEF Approve
  <2>2. CASE /\ Write([d EXCEPT !.status = "Reviewed", !.field = field])
             /\ team' = [g \in Fields |-> IF g \in typed THEN "user"
                                          ELSE IF g \in taken THEN "ai" ELSE team[g]]
    <3>1. field[f] = "ChangedByUser"
      BY <2>0
    <3> HIDE DEF field
    <3>2. doc'.field[f] = "ChangedByUser"
      BY <1>0, <2>2, <3>1 DEF Write, Doc
    <3>3. team'[f] = team[f]
      BY <1>0, <2>0, <2>2
    <3> QED
      BY <1>2, <3>2, <3>3, RecordLast DEF Approve
  <2> QED
    BY <1>2, <2>1, <2>2 DEF Approve, d
<1>3. ASSUME NEW g \in Fields, Edit(p, g)
      PROVE  StaysOnRecord(f)
  <2>1. d.field[f] = "ChangedByUser" /\ task[p].value # "ai"
    BY <1>0, <1>d, <1>3 DEF Edit, At, Task
  <2>2. doc'.field[f] = "ChangedByUser"
    <3>1. CASE Write([d EXCEPT !.field[g] = "ChangedByUser"])
      BY <1>0, <2>1, <3>1 DEF Write, Doc
    <3>2. CASE UNCHANGED doc
      BY <1>0, <3>2
    <3> QED
      BY <1>3, <3>1, <3>2 DEF Edit, d
  <2>3. team'[f] = team[f] \/ team'[f] = task[p].value
    BY <1>0, <1>3 DEF Edit
  <2>4. CASE team'[f] = "user"
    BY <1>0, <1>3, <2>2, <2>4, RecordLast DEF Edit
  <2>5. CASE team'[f] # "user"
    BY <1>0, <2>1, <2>3, <2>5 DEF StaysOnRecord
  <2> QED
    BY <2>4, <2>5
<1> QED
  BY <1>1, <1>2, <1>3 DEF PeopleStep

LEMMA RecordNext ==
  ASSUME TypeInv, NEW f \in Fields, OnRecord(f), [Next]_vars
  PROVE  StaysOnRecord(f)
<1>0. Requests \subseteq Procs /\ EnrichCron \in Procs /\ JudgeCron \in Procs
  BY DEF Procs
<1>1. ASSUME NEW p \in Procs, EnrichStep(p)
      PROVE  StaysOnRecord(f)
  BY <1>1, RecordRunSteps DEF EnrichStep
<1>2. ASSUME NEW p \in Procs, Step(p)
      PROVE  StaysOnRecord(f)
  BY <1>1, <1>2, RecordRunSteps, RecordJudgeSteps, RecordPeopleSteps DEF Step
<1>3. CASE EnrichJob \/ JudgeJob
  BY <1>0, <1>1, <1>3, RecordTicks, RecordJudgeSteps DEF EnrichJob, JudgeJob
<1>4. ASSUME NEW p \in Procs, Crash(p)
      PROVE  StaysOnRecord(f)
  BY <1>4, RecordLast DEF Crash, OnRecord
<1>5. CASE Age \/ UNCHANGED vars
  BY <1>5 DEF Age, vars, StaysOnRecord, OnRecord
<1> QED
  BY <1>0, <1>2, <1>3, <1>4, <1>5, RecordStart DEF Next

\* However runs, forced runs, judgments, logo refetches, approvals and edits overlap,
\* outlive the TTL, die and write old documents back, a person's value that is on
\* record is never replaced by a candidate, and stays on record until a person
\* changes it (buildPromotionPayload, doEnrichTeam, approveEnrichmentForTeam).
THEOREM RecordedValuesAreKept == Spec => RecordedValueKept
<1>1. TypeInv /\ [Next]_vars
        => [\A f \in Fields : OnRecord(f) =>
              /\ team'[f] # "ai"
              /\ team'[f] = "user" => OnRecord(f)']_vars
  BY RecordNext DEF StaysOnRecord
<1> QED
  BY <1>1, TypeHolds, PTL DEF Spec, RecordedValueKept

=============================================================================
