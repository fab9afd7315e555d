----------------------------- MODULE AiAppsLogs -----------------------------
(***************************************************************************)
(* AI Apps: newest-first reads of an app's logs (ai-apps.service.ts,       *)
(* getMemberLogsDesc).  The runner pages only forward, so that a read walks *)
(* all its pages and shows the end.  Walks are shared while they run and   *)
(* cached when they are complete; a deploy drops the cached ones.          *)
(*                                                                         *)
(* One app and one process: the maps are in its memory.  A key stands for  *)
(* a phase and a window.  Every deployment writes a stream of its own, and *)
(* the runner answers with that of the latest deployment that succeeded.   *)
(* A line is its place in its stream, which only grows.  A walk comes to   *)
(* know what its stream holds when its last page is fetched.  The code     *)
(* between two awaits is one step.                                         *)
(*                                                                         *)
(* A walk may find any number of lines, for old ones leave the window.     *)
(*                                                                         *)
(* Left out: who may read; what lines say; a deploy and the start of a     *)
(* walk in the same millisecond; other processes, whose caches a deploy    *)
(* does not drop; a walk that finds pages of two streams; which entry of a *)
(* full cache is the first: any may go.                                    *)
(***************************************************************************)
EXTENDS Naturals, FiniteSets

CONSTANTS
  Keys,
  NoKey,
  Narrower,     \* the window that a read of a key tries next, or NoKey
  Reads,        \* readers, each of whom pages through the log
  Limit,        \* lines of a page
  Retain,       \* lines that a walk keeps
  MaxEntries,
  MaxLines,     \* bound on a stream
  MaxDeploys,   \* bound on deploys
  MaxStreams    \* bound on deployments that succeed

ASSUME AiAppsLogsAssumptions ==
  /\ NoKey \notin Keys
  /\ Narrower \in [Keys -> Keys \cup {NoKey}]
  /\ IsFiniteSet(Keys)
  /\ Limit \in Nat \ {0} /\ Retain \in Nat \ {0}
  /\ MaxEntries \in Nat \ {0} /\ MaxLines \in Nat /\ MaxDeploys \in Nat
  /\ MaxStreams \in Nat

VARIABLES
  lines,      \* lines of each stream
  live,       \* the stream of the latest deployment that succeeded
  drops,      \* deploys that this process has begun
  cache,      \* logsTailCache
  walk,       \* logsTailWalks
  read,
  skipped,    \* history: readers who were shown a page that skips lines
  mixed       \* history: readers whose next page was of another deployment

history == <<skipped, mixed>>
vars == <<lines, live, drops, cache, walk, read, skipped, mixed>>

-----------------------------------------------------------------------------

Streams == 0 .. MaxStreams

\* The `size` lines of a stream up to `upto`; `began` says after how many deploys
\* their walk began.
Entry == [age : {"none", "fresh", "stale", "dead"}, stream : Streams,
          upto : 0 .. MaxLines, size : 0 .. MaxLines, began : 0 .. MaxDeploys]

NoEntry == [age |-> "none", stream |-> 0, upto |-> 0, size |-> 0, began |-> 0]

\* A walk, after how many deploys it began and with which stream to be had.
Walk == [on : BOOLEAN, began : 0 .. MaxDeploys, stream : Streams]

NoWalk == [on |-> FALSE, began |-> 0, stream |-> 0]

\* A reader who has a cursor has seen lines of a stream down to `low`.  The
\* cursor has the `offset`, which counts the lines seen, of whatever stream.
Read == [pc : {"idle", "wait", "retry"}, key : Keys \cup {NoKey}, paging : BOOLEAN,
         offset : 0 .. MaxLines, stream : Streams, low : 0 .. MaxLines + 1]

NoRead == [pc |-> "idle", key |-> NoKey, paging |-> FALSE, offset |-> 0,
           stream |-> 0, low |-> 0]

Cached == {k \in Keys : cache[k].age # "none"}

\* A read that waits has a walk to wait for, and the cache is within its bound.
TypeOK ==
  /\ lines \in [Streams -> 0 .. MaxLines]
  /\ live \in Streams
  /\ drops \in 0 .. MaxDeploys
  /\ cache \in [Keys -> Entry]
  /\ walk \in [Keys -> Walk]
  /\ read \in [Reads -> Read]
  /\ skipped \subseteq Reads
  /\ mixed \subseteq Reads
  /\ \A r \in Reads : read[r].pc # "idle" \/ read[r].paging => read[r].key \in Keys
  /\ \A r \in Reads : read[r].pc = "wait" => walk[read[r].key].on
  /\ Cardinality(Cached) <= MaxEntries

Init ==
  /\ lines = [s \in Streams |-> 0]
  /\ live = 0
  /\ drops = 0
  /\ cache = [k \in Keys |-> NoEntry]
  /\ walk = [k \in Keys |-> NoWalk]
  /\ read = [r \in Reads |-> NoRead]
  /\ skipped = {}
  /\ mixed = {}

-----------------------------------------------------------------------------
(* The world.                                                              *)

\* A deployment writes a line, the live one or one that shuts down.
WriteLine(s) ==
  /\ s <= live
  /\ lines[s] < MaxLines
  /\ lines' = [lines EXCEPT ![s] = @ + 1]
  /\ UNCHANGED <<live, drops, cache, walk, read, history>>

\* A deploy that has begun brings up a deployment, or a second one with its
\* configuration: from here on the runner answers with the new stream.
GoLive ==
  /\ live < MaxStreams
  /\ live < 2 * drops
  /\ live' = live + 1
  /\ UNCHANGED <<lines, drops, cache, walk, read, history>>

\* fresh until staleAt, stale until evictAt, dead from then on.
Expire(k) ==
  /\ cache[k].age \in {"fresh", "stale"}
  /\ cache' = [cache EXCEPT ![k].age = IF @ = "fresh" THEN "stale" ELSE "dead"]
  /\ UNCHANGED <<lines, live, drops, walk, read, history>>

\* dropLogsTailCache, as a deploy begins: walks that run go on, and the runner
\* answers with the previous deployment's stream until the new one is up.
Drop ==
  /\ drops < MaxDeploys
  /\ drops' = drops + 1
  /\ cache' = [k \in Keys |-> NoEntry]
  /\ UNCHANGED <<lines, live, walk, read, history>>

-----------------------------------------------------------------------------
(* Pages.                                                                  *)

\* What is left of n lines after those at the end.
Less(n, m) == IF m < n THEN n - m ELSE 0

\* getMemberLogsDesc, after the walk: the page of those `size` lines up to n that
\* begins at the reader's offset.  The reader gets a cursor if lines are left.
Paged(q, stream, n, size) ==
  LET end == Less(size, q.offset)
      start == Less(end, Limit)
  IN IF start > 0
     THEN [q EXCEPT !.pc = "idle", !.paging = TRUE, !.stream = stream,
                    !.offset = @ + (end - start), !.low = (n - size) + start + 1]
     ELSE NoRead

\* Lines of the stream are left out between that page and the reader's last one.
Skips(q, stream, n, size) ==
  LET end == Less(size, q.offset)
  IN q.paging /\ q.stream = stream /\ end > 0 /\ (n - size) + end + 1 < q.low

\* The page goes on in another stream than the one that the reader was reading.
Mixes(q, stream) == q.paging /\ q.stream # stream

-----------------------------------------------------------------------------
(* walkRunnerLogsTail.                                                     *)

\* startLogsTailWalk: the walk that runs, or else one that begins now.
Walking(k) == IF walk[k].on THEN walk[k] ELSE [on |-> TRUE, began |-> drops, stream |-> live]

\* The reader q, who has just come in or been turned to another window.
LookUp(r, q) ==
  LET k == q.key
      e == cache[k]
      shown == e.age \in {"fresh", "stale"}
  IN /\ read' = [read EXCEPT ![r] =
          IF shown THEN Paged(q, e.stream, e.upto, e.size)
          ELSE [q EXCEPT !.pc = "wait"]]
     /\ walk' = IF e.age = "fresh" THEN walk ELSE [walk EXCEPT ![k] = Walking(k)]
     /\ cache' = IF e.age = "dead" THEN [cache EXCEPT ![k] = NoEntry] ELSE cache
     /\ skipped' = IF shown /\ Skips(q, e.stream, e.upto, e.size)
                   THEN skipped \cup {r} ELSE skipped
     /\ mixed' = IF shown /\ Mixes(q, e.stream) THEN mixed \cup {r} ELSE mixed
     /\ UNCHANGED <<lines, live, drops>>

\* A request without a cursor, also of a reader who has one.
Open(r, k) ==
  /\ read[r].pc = "idle"
  /\ LookUp(r, [NoRead EXCEPT !.key = k])

\* The next page: the cursor has the window that the first page came from.
More(r) ==
  /\ read[r].pc = "idle" /\ read[r].paging
  /\ LookUp(r, read[r])

Retry(r) ==
  /\ read[r].pc = "retry"
  /\ LookUp(r, read[r])

-----------------------------------------------------------------------------
(* runLogsTailWalk.                                                        *)

Waiting(k) == {r \in Reads : read[r].pc = "wait" /\ read[r].key = k}

\* Every complete walk is cached.
Keeps_Slip(k) == TRUE

\* writeLogsTailCache: not a walk that began before the last deploy.
Keeps(k) == walk[k].began = drops

\* The size is not looked at.
Evicted_Slip(k) == {{}}

\* What goes for a new entry when the cache is full.
Evicted(k) ==
  IF k \notin Cached /\ Cardinality(Cached) >= MaxEntries
  THEN {{old} : old \in Cached}
  ELSE {{}}

\* A walk that runs out of calls or of time counts as complete too.
Ends_Slip(stream) == 0 .. lines[stream]

\* How far a complete walk comes: to the end of its stream.
Ends(stream) == {lines[stream]}

\* The walk is complete, with the newest lines of those it came by: of a stream
\* that the runner answered with while it was under way.
EndWalk(k) ==
  /\ walk[k].on
  /\ \E stream \in walk[k].stream .. live : \E n \in Ends(stream), size \in 0 .. Retain :
       /\ size <= n
       /\ IF Keeps(k)
          THEN \E out \in Evicted(k) : cache' = [j \in Keys |->
                 IF j = k
                 THEN [age |-> "fresh", stream |-> stream, upto |-> n, size |-> size,
                       began |-> walk[k].began]
                 ELSE IF j \in out THEN NoEntry ELSE cache[j]]
          ELSE cache' = cache
       /\ read' = [r \in Reads |->
            IF r \in Waiting(k) THEN Paged(read[r], stream, n, size) ELSE read[r]]
       /\ skipped' = skipped \cup {r \in Waiting(k) : Skips(read[r], stream, n, size)}
       /\ mixed' = mixed \cup {r \in Waiting(k) : Mixes(read[r], stream)}
  /\ walk' = [walk EXCEPT ![k] = NoWalk]
  /\ UNCHANGED <<lines, live, drops>>

\* The request is answered with an error; a cursor can be used again.
Refused(q) == IF q.paging THEN [q EXCEPT !.pc = "idle"] ELSE NoRead

\* A reader without a cursor tries a narrower window, as long as there is one.
Narrow(q) ==
  IF ~q.paging /\ Narrower[q.key] # NoKey
  THEN [q EXCEPT !.pc = "retry", !.key = Narrower[q.key]]
  ELSE Refused(q)

\* A walk that runs out of calls or of time.
GiveUpWalk(k) ==
  /\ walk[k].on
  /\ walk' = [walk EXCEPT ![k] = NoWalk]
  /\ read' = [r \in Reads |-> IF r \in Waiting(k) THEN Narrow(read[r]) ELSE read[r]]
  /\ UNCHANGED <<lines, live, drops, cache, history>>

\* The runner does not answer: all who wait hear of it.
FailWalk(k) ==
  /\ walk[k].on
  /\ walk' = [walk EXCEPT ![k] = NoWalk]
  /\ read' = [r \in Reads |-> IF r \in Waiting(k) THEN Refused(read[r]) ELSE read[r]]
  /\ UNCHANGED <<lines, live, drops, cache, history>>

-----------------------------------------------------------------------------

WalkStep(k) == EndWalk(k) \/ GiveUpWalk(k) \/ FailWalk(k)

Next ==
  \/ Drop \/ GoLive
  \/ \E s \in Streams : WriteLine(s)
  \/ \E k \in Keys : Expire(k) \/ WalkStep(k)
  \/ \E r \in Reads : More(r) \/ Retry(r) \/ \E k \in Keys : Open(r, k)

Spec == Init /\ [][Next]_vars

-----------------------------------------------------------------------------
(* Properties.                                                             *)

\* No walk from before a deploy is in the cache after it, also if it ran on
\* over the deploy.
CacheIsCurrent == \A k \in Cached : cache[k].began = drops

\* Of two pages that a reader gets one after the other from one deployment's
\* stream, the second leaves out no line, although lines are written, walks take
\* each other's place in the cache, fail or are dropped by deploys in between
\* (getMemberLogsDesc: a page is counted from the end, so that it may repeat lines
\* of the last one, but the walks have to be in order).
NoGap == skipped = {}

\* Said in the repository, and not kept by the code: "a stale copy never outlives
\* the deployment it captured" (the drop comes when a deploy begins).
CopiesAreOfLive ==
  \A k \in Keys : cache[k].age \in {"fresh", "stale"} => cache[k].stream = live

\* Said in the repository, and not kept by the code: pages that follow one cursor
\* are "a consistent slice of history".
OneSlice == mixed = {}
=============================================================================
