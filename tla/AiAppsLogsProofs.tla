-------------------------- MODULE AiAppsLogsProofs --------------------------
(***************************************************************************)
(* Proofs about AiAppsLogs, for any number of keys, readers, entries,      *)
(* deployments and lines: its types and the bound of the cache, that no    *)
(* cached walk is older than the last deploy, and that paging skips no     *)
(* line of a deployment.                                                   *)
(***************************************************************************)
EXTENDS AiAppsLogs, FiniteSetTheorems, TLAPS

\* A walk shows lines that there are.
Real(e) == e.size <= e.upto

\* What a reader has seen ends no later than a stream of n lines does.
SeenBy(q, n) == q.paging => q.low + q.offset <= n + 1

\* The reader has seen nothing newer than the stream, or than an entry of it that
\* the next page may come from.
InOrder(q, ls, c) ==
  /\ SeenBy(q, ls[q.stream])
  /\ \A k \in Keys :
       q.key = k /\ c[k].age # "none" /\ c[k].stream = q.stream => SeenBy(q, c[k].upto)

\* An entry is of a stream that it does not run ahead of.
Within(e, ls) == e.upto <= ls[e.stream]

\* A walk that ran on over a deploy is the only one of its key since then, and
\* nothing is cached for the key.
Overtaken(w, d, e) == w.on /\ w.began # d => e.age = "none"

IInv ==
  /\ TypeOK
  /\ CacheIsCurrent
  /\ \A k \in Keys : Real(cache[k]) /\ Within(cache[k], lines)
  /\ \A k \in Keys : Overtaken(walk[k], drops, cache[k])
  /\ \A r \in Reads : InOrder(read[r], lines, cache)
  /\ NoGap

\* A reader's record is of its type and has a window and a walk if it needs them.
Fit(q, w) ==
  /\ q \in Read
  /\ q.pc # "idle" \/ q.paging => q.key \in Keys
  /\ q.pc = "wait" => w[q.key].on

-----------------------------------------------------------------------------

LEMMA Shapes ==
  /\ NoEntry \in Entry /\ NoEntry.age = "none" /\ Real(NoEntry) /\ NoEntry.upto = 0
  /\ NoEntry.stream = 0 /\ 0 \in Streams
  /\ NoWalk \in Walk /\ ~NoWalk.on
  /\ NoRead \in Read /\ NoRead.pc = "idle" /\ ~NoRead.paging
BY AiAppsLogsAssumptions DEF NoEntry, Entry, Real, NoWalk, Walk, NoRead, Read, Streams

\* A page leaves the reader idle, and with a cursor only if lines are left; what
\* is seen ends with the stream that was shown.
LEMMA PageFits ==
  ASSUME NEW q \in Read, q.key \in Keys, NEW s \in Streams, NEW n \in 0 .. MaxLines,
         NEW size \in 0 .. n, NEW w
  PROVE  /\ Fit(Paged(q, s, n, size), w)
         /\ Paged(q, s, n, size).paging =>
              /\ Paged(q, s, n, size).key = q.key /\ Paged(q, s, n, size).stream = s
              /\ Paged(q, s, n, size).low + Paged(q, s, n, size).offset = n + 1
<1> DEFINE end == Less(size, q.offset)
           start == Less(end, Limit)
           p == [q EXCEPT !.pc = "idle", !.paging = TRUE, !.stream = s,
                          !.offset = @ + (end - start), !.low = (n - size) + start + 1]
<1>1. q.offset \in 0 .. MaxLines /\ Limit \in Nat /\ Limit > 0 /\ MaxLines \in Nat
  BY AiAppsLogsAssumptions DEF Read
<1>2. end \in 0 .. size /\ start \in 0 .. size /\ start <= end
  BY <1>1 DEF Less
<1>3. CASE start > 0
  <2>1. end = size - q.offset
    BY <1>1, <1>3 DEF Less
  <2>2. q.offset + (end - start) = size - start
    BY <2>1, <1>1, <1>2
  <2>3. /\ q.offset + (end - start) \in 0 .. MaxLines
        /\ (n - size) + start + 1 \in 0 .. MaxLines + 1
        /\ (n - size) + start + 1 + (q.offset + (end - start)) = n + 1
    BY <2>2, <1>1, <1>2, <1>3
  <2>4. p \in Read
    BY <2>3 DEF Read
  <2>5. /\ p.pc = "idle" /\ p.paging = TRUE /\ p.key = q.key /\ p.stream = s
        /\ p.offset = q.offset + (end - start)
        /\ p.low = (n - size) + start + 1
    BY DEF Read
  <2>6. Paged(q, s, n, size) = p
    BY <1>3 DEF Paged
  <2> HIDE DEF p
  <2> QED BY <2>3, <2>4, <2>5, <2>6 DEF Fit
<1>4. CASE ~(start > 0)
  BY <1>4, Shapes DEF Paged, Fit
<1> QED BY <1>3, <1>4

\* Pages that end where the stream ended, or later, skip nothing.
LEMMA InOrderSkipsNothing ==
  ASSUME NEW q \in Read, NEW s, NEW n \in 0 .. MaxLines, NEW size \in 0 .. n,
         q.stream = s => SeenBy(q, n)
  PROVE  ~Skips(q, s, n, size)
<1>1. q.offset \in 0 .. MaxLines /\ q.low \in 0 .. MaxLines + 1 /\ MaxLines \in Nat
  BY AiAppsLogsAssumptions DEF Read
<1> QED BY <1>1 DEF Skips, SeenBy, Less

\* The cache only shrinks in number when nothing new is cached.
LEMMA Shrinks ==
  ASSUME TypeOK, NEW c, \A k \in Keys : c[k].age # "none" => cache[k].age # "none"
  PROVE  Cardinality({k \in Keys : c[k].age # "none"}) <= MaxEntries
<1> DEFINE Now == {k \in Keys : c[k].age # "none"}
<1>1. Now \subseteq Cached
  BY DEF Cached
<1>2. IsFiniteSet(Cached)
  BY FS_Subset, AiAppsLogsAssumptions DEF Cached
<1>3. /\ Cardinality(Now) <= Cardinality(Cached)
      /\ Cardinality(Now) \in Nat /\ Cardinality(Cached) \in Nat
  BY <1>1, <1>2, FS_Subset, FS_CardinalityType
<1>4. Cardinality(Cached) <= MaxEntries /\ MaxEntries \in Nat
  BY AiAppsLogsAssumptions DEF TypeOK
<1> HIDE DEF Now
<1>5. Cardinality(Now) <= MaxEntries
  BY <1>3, <1>4
<1> QED BY <1>5 DEF Now

\* One new entry fits once what goes for it is gone.
LEMMA Fits ==
  ASSUME TypeOK, NEW k \in Keys, NEW out \in Evicted(k), NEW c,
         \A j \in Keys : c[j].age # "none" => j = k \/ (j \in Cached /\ j \notin out)
  PROVE  Cardinality({j \in Keys : c[j].age # "none"}) <= MaxEntries
<1> DEFINE Now == {j \in Keys : c[j].age # "none"}
           Left == Cached \ out
<1>1. IsFiniteSet(Cached) /\ Cardinality(Cached) \in Nat
  BY FS_Subset, FS_CardinalityType, AiAppsLogsAssumptions DEF Cached
<1>2. Cardinality(Cached) <= MaxEntries /\ MaxEntries \in Nat
  BY AiAppsLogsAssumptions DEF TypeOK
<1>3. Now \subseteq Left \cup {k}
  OBVIOUS
<1>4. IsFiniteSet(Left \cup {k}) /\ Cardinality(Left \cup {k}) <= MaxEntries
  <2>1. CASE k \in Cached /\ out = {}
    <3>1. Left \cup {k} = Cached
      BY <2>1
    <3> QED BY <3>1, <1>1, <1>2
  <2>2. CASE k \notin Cached /\ ~(Cardinality(Cached) >= MaxEntries) /\ out = {}
    <3>1. Left = Cached
      BY <2>2
    <3>2. IsFiniteSet(Left \cup {k}) /\ Cardinality(Left \cup {k}) = Cardinality(Cached) + 1
      BY <3>1, <2>2, <1>1, FS_AddElement
    <3> QED BY <3>2, <2>2, <1>1, <1>2
  <2>3. ASSUME NEW old \in Cached, out = {old}, k \notin Cached
        PROVE  IsFiniteSet(Left \cup {k}) /\ Cardinality(Left \cup {k}) <= MaxEntries
    <3>1. Left = Cached \ {old} /\ k \notin Left
      BY <2>3
    <3>2. IsFiniteSet(Left) /\ Cardinality(Left) = Cardinality(Cached) - 1
      BY <3>1, <2>3, <1>1, FS_RemoveElement
    <3>3. IsFiniteSet(Left \cup {k}) /\ Cardinality(Left \cup {k}) = Cardinality(Left) + 1
      BY <3>1, <3>2, FS_AddElement
    <3> HIDE DEF Left
    <3> QED BY <3>2, <3>3, <1>1, <1>2
  <2> QED BY <2>1, <2>2, <2>3 DEF Evicted
<1>5. Cardinality(Now) <= Cardinality(Left \cup {k})
  BY <1>3, <1>4, FS_Subset
<1>6. Cardinality(Now) \in Nat /\ Cardinality(Left \cup {k}) \in Nat
  BY <1>3, <1>4, FS_Subset, FS_CardinalityType
<1> HIDE DEF Now, Left
<1>7. Cardinality(Now) <= MaxEntries
  BY <1>4, <1>5, <1>6, <1>2
<1> QED BY <1>7 DEF Now

-----------------------------------------------------------------------------

\* What every step owes: types, the bound, cached walks that are current and
\* real, and readers in order.
LEMMA Assembled ==
  ASSUME lines' \in [Streams -> 0 .. MaxLines], live' \in Streams, mixed' \subseteq Reads,
         drops' \in 0 .. MaxDeploys,
         cache' \in [Keys -> Entry], walk' \in [Keys -> Walk], read' \in [Reads -> Read],
         skipped' = {},
         \A r \in Reads : Fit(read'[r], walk'),
         Cardinality({k \in Keys : cache'[k].age # "none"}) <= MaxEntries,
         \A k \in Keys : cache'[k].age # "none" => cache'[k].began = drops',
         \A k \in Keys : Real(cache'[k]) /\ Within(cache'[k], lines'),
         \A k \in Keys : Overtaken(walk'[k], drops', cache'[k]),
         \A r \in Reads : InOrder(read'[r], lines', cache')
  PROVE  IInv'
<1>1. TypeOK'
  BY DEF TypeOK, Fit, Cached
<1>2. CacheIsCurrent'
  BY DEF CacheIsCurrent, Cached
<1>3. NoGap'
  BY DEF NoGap
<1> QED BY <1>1, <1>2, <1>3 DEF IInv

\* A step that leaves cache and readers as they are, or drops entries.
LEMMA CacheFrame ==
  ASSUME IInv, NEW ls \in [Streams -> 0 .. MaxLines],
         \A s \in Streams : lines[s] <= ls[s], NEW c \in [Keys -> Entry],
         \A k \in Keys : c[k].age # "none" =>
           /\ cache[k].age # "none"
           /\ c[k].upto = cache[k].upto /\ c[k].stream = cache[k].stream
  PROVE  \A r \in Reads : InOrder(read[r], ls, c)
<1> SUFFICES ASSUME NEW r \in Reads PROVE InOrder(read[r], ls, c)
  OBVIOUS
<1>1. InOrder(read[r], lines, cache) /\ read[r] \in Read
  BY DEF IInv, TypeOK
<1>2. /\ read[r].low \in 0 .. MaxLines + 1 /\ read[r].offset \in 0 .. MaxLines
      /\ read[r].stream \in Streams /\ MaxLines \in Nat
      /\ lines[read[r].stream] \in 0 .. MaxLines /\ ls[read[r].stream] \in 0 .. MaxLines
  BY <1>1, AiAppsLogsAssumptions DEF IInv, TypeOK, Read
<1>3. SeenBy(read[r], ls[read[r].stream])
  BY <1>1, <1>2 DEF InOrder, SeenBy
<1>4. \A k \in Keys : read[r].key = k /\ c[k].age # "none" /\ c[k].stream = read[r].stream
        => SeenBy(read[r], c[k].upto)
  BY <1>1 DEF InOrder
<1> QED BY <1>3, <1>4 DEF InOrder

LEMMA InitOK == Init => IInv
<1> SUFFICES ASSUME Init PROVE IInv
  OBVIOUS
<1>1. MaxLines \in Nat /\ MaxDeploys \in Nat /\ MaxEntries \in Nat
  BY AiAppsLogsAssumptions
<1>2. \A k \in Keys : cache[k] = NoEntry /\ walk[k] = NoWalk
  BY DEF Init
<1>3. \A r \in Reads : read[r] = NoRead
  BY DEF Init
<1>4. Cached = {}
  BY <1>2, Shapes DEF Cached
<1>5. cache \in [Keys -> Entry] /\ walk \in [Keys -> Walk] /\ read \in [Reads -> Read]
     /\ lines \in [Streams -> 0 .. MaxLines]
  BY <1>1, Shapes DEF Init
<1>6. Cardinality(Cached) <= MaxEntries
  BY <1>1, <1>4, FS_EmptySet
<1>7. TypeOK
  BY <1>1, <1>3, <1>5, <1>6, Shapes DEF Init, TypeOK
<1>8. CacheIsCurrent /\ NoGap
  BY <1>4 DEF CacheIsCurrent, NoGap, Init
<1>9. \A k \in Keys : Real(cache[k]) /\ Within(cache[k], lines)
  BY <1>2, Shapes DEF Init, Within
<1>10. \A r \in Reads : InOrder(read[r], lines, cache)
  BY <1>2, <1>3, Shapes DEF InOrder, SeenBy
<1>11. \A k \in Keys : Overtaken(walk[k], drops, cache[k])
  BY <1>2, Shapes DEF Overtaken
<1> QED BY <1>7, <1>8, <1>9, <1>10, <1>11 DEF IInv

\* Readers who are left alone stay fit while walks that run go on.
LEMMA FitFrame ==
  ASSUME TypeOK, NEW w, NEW r \in Reads,
         \A k \in Keys : walk[k].on => w[k].on
  PROVE  Fit(read[r], w)
BY DEF TypeOK, Fit

LEMMA WorldOK ==
  ASSUME IInv, Drop \/ GoLive \/ (\E s \in Streams : WriteLine(s)) \/ \E k \in Keys : Expire(k)
  PROVE  IInv'
<1>1. TypeOK /\ CacheIsCurrent /\ NoGap
  BY DEF IInv
<1>2. /\ lines \in [Streams -> 0 .. MaxLines] /\ MaxLines \in Nat /\ MaxStreams \in Nat
      /\ drops \in 0 .. MaxDeploys /\ MaxDeploys \in Nat
      /\ live \in Streams /\ mixed \subseteq Reads
  BY <1>1, AiAppsLogsAssumptions DEF TypeOK
<1>3. cache \in [Keys -> Entry] /\ walk \in [Keys -> Walk] /\ read \in [Reads -> Read]
  BY <1>1 DEF TypeOK
<1>7. \A s \in Streams : lines[s] \in 0 .. MaxLines /\ lines[s] <= lines[s]
  BY <1>2
<1>4. ASSUME NEW ls \in [Streams -> 0 .. MaxLines], \A s \in Streams : lines[s] <= ls[s],
             lines' = ls, live' \in Streams,
             drops' = drops, cache' = cache, walk' = walk, read' = read, UNCHANGED history
      PROVE  IInv'
  <2>1. \A r \in Reads : InOrder(read[r], ls, cache)
    BY <1>3, <1>4, CacheFrame
  <2>2. \A k \in Keys : Real(cache[k]) /\ Within(cache[k], ls)
    <3>1. \A k \in Keys : /\ cache[k].upto \in 0 .. MaxLines /\ cache[k].stream \in Streams
                          /\ lines[cache[k].stream] \in 0 .. MaxLines
                          /\ ls[cache[k].stream] \in 0 .. MaxLines
                          /\ lines[cache[k].stream] <= ls[cache[k].stream]
      BY <1>2, <1>3, <1>4 DEF Entry
    <3>2. \A k \in Keys : Real(cache[k]) /\ cache[k].upto <= lines[cache[k].stream]
      BY DEF IInv, Within
    <3> QED BY <3>1, <3>2, <1>2 DEF Within
  <2>3. \A r \in Reads : Fit(read[r], walk)
    BY <1>1, FitFrame
  <2>4. Cardinality({k \in Keys : cache[k].age # "none"}) <= MaxEntries
    BY <1>1, Shrinks
  <2>5. \A k \in Keys : cache[k].age # "none" => cache[k].began = drops
    BY <1>1 DEF CacheIsCurrent, Cached
  <2>6. skipped' = {} /\ mixed' \subseteq Reads
    BY <1>1, <1>2, <1>4 DEF NoGap, history
  <2>7. \A k \in Keys : Overtaken(walk[k], drops, cache[k])
    BY DEF IInv
  <2> QED BY <1>2, <1>3, <1>4, <2>1, <2>2, <2>3, <2>4, <2>5, <2>6, <2>7, Assembled
<1>8. ASSUME NEW s \in Streams, WriteLine(s) PROVE IInv'
  <2> DEFINE ls == [lines EXCEPT ![s] = @ + 1]
  <2>1. ls \in [Streams -> 0 .. MaxLines] /\ \A z \in Streams : lines[z] <= ls[z]
    BY <1>2, <1>7, <1>8 DEF WriteLine
  <2>2. /\ lines' = ls /\ live' = live /\ drops' = drops /\ cache' = cache /\ walk' = walk
        /\ read' = read /\ UNCHANGED history
    BY <1>8 DEF WriteLine
  <2> QED BY <2>1, <2>2, <1>2, <1>4
<1>9. CASE GoLive
  <2>1. /\ lines' = lines /\ live' = live + 1 /\ drops' = drops /\ cache' = cache
        /\ walk' = walk /\ read' = read /\ UNCHANGED history
    BY <1>9 DEF GoLive
  <2>2. live' \in Streams
    BY <1>2, <1>9, <2>1 DEF GoLive, Streams
  <2> QED BY <2>1, <2>2, <1>2, <1>4, <1>7
<1>5. CASE Drop
  <2>1. drops' = drops + 1 /\ drops' \in 0 .. MaxDeploys
    BY <1>2, <1>5 DEF Drop
  <2>2. /\ lines' = lines /\ live' = live /\ walk' = walk /\ read' = read
        /\ skipped' = skipped /\ mixed' = mixed
        /\ cache' = [k \in Keys |-> NoEntry]
    BY <1>5 DEF Drop, history
  <2>3. /\ cache' \in [Keys -> Entry]
        /\ \A k \in Keys : cache'[k].age = "none" /\ Real(cache'[k]) /\ Within(cache'[k], lines)
    BY <2>2, <1>7, Shapes DEF Within
  <2>4. \A r \in Reads : InOrder(read[r], lines, cache')
    BY <2>3, <1>2, <1>7, CacheFrame
  <2>5. \A r \in Reads : Fit(read[r], walk)
    BY <1>1, FitFrame
  <2>6. Cardinality({k \in Keys : cache'[k].age # "none"}) <= MaxEntries
    BY <1>1, <2>3, Shrinks
  <2>7. skipped = {}
    BY <1>1 DEF NoGap
  <2>8. \A k \in Keys : Overtaken(walk[k], drops', cache'[k])
    BY <2>3 DEF Overtaken
  <2> QED BY <2>1, <2>2, <2>3, <2>4, <2>5, <2>6, <2>7, <2>8, <1>2, <1>3, Assembled
<1>6. ASSUME NEW k \in Keys, Expire(k) PROVE IInv'
  <2> DEFINE age == IF cache[k].age = "fresh" THEN "stale" ELSE "dead"
             e == [cache[k] EXCEPT !.age = age]
  <2>1. /\ lines' = lines /\ live' = live /\ drops' = drops /\ walk' = walk /\ read' = read
        /\ skipped' = skipped /\ mixed' = mixed /\ cache' = [cache EXCEPT ![k] = e]
        /\ cache[k].age # "none"
    BY <1>6 DEF Expire, history
  <2>2. e \in Entry /\ e.age # "none" /\ e.upto = cache[k].upto /\ e.size = cache[k].size
        /\ e.began = cache[k].began /\ e.stream = cache[k].stream
    BY <1>3 DEF Entry
  <2> HIDE DEF e
  <2>3. cache' \in [Keys -> Entry]
    BY <2>1, <2>2, <1>3
  <2>4. \A j \in Keys : /\ cache'[j].upto = cache[j].upto /\ cache'[j].size = cache[j].size
                        /\ cache'[j].began = cache[j].began
                        /\ cache'[j].stream = cache[j].stream
                        /\ cache'[j].age # "none" => cache[j].age # "none"
    BY <2>1, <2>2, <1>3
  <2>5. \A r \in Reads : InOrder(read[r], lines, cache')
    BY <2>3, <2>4, <1>2, <1>7, CacheFrame
  <2>6. \A r \in Reads : Fit(read[r], walk)
    BY <1>1, FitFrame
  <2>7. Cardinality({j \in Keys : cache'[j].age # "none"}) <= MaxEntries
    BY <1>1, <2>4, Shrinks
  <2>8. \A j \in Keys : cache'[j].age # "none" => cache'[j].began = drops
    BY <1>1, <2>4 DEF CacheIsCurrent, Cached
  <2>9. \A j \in Keys : Real(cache'[j]) /\ Within(cache'[j], lines)
    BY <2>4 DEF IInv, Real, Within
  <2>10. skipped = {}
    BY <1>1 DEF NoGap
  <2>11. \A j \in Keys : Overtaken(walk[j], drops, cache'[j])
    <3>1. \A j \in Keys : Overtaken(walk[j], drops, cache[j])
      BY DEF IInv
    <3> QED BY <2>4, <3>1 DEF Overtaken
  <2> QED BY <2>1, <2>3, <2>5, <2>6, <2>7, <2>8, <2>9, <2>10, <2>11, <1>2, <1>3, Assembled
<1> QED BY <1>5, <1>6, <1>8, <1>9

-----------------------------------------------------------------------------

\* A reader whose request comes in, or is turned to another window.
LEMMA LookUpOK ==
  ASSUME IInv, NEW r \in Reads, NEW q \in Read, q.key \in Keys,
         InOrder(q, lines, cache), LookUp(r, q)
  PROVE  IInv'
<1> DEFINE k == q.key
           shown == cache[k].age \in {"fresh", "stale"}
           p == IF shown THEN Paged(q, cache[k].stream, cache[k].upto, cache[k].size)
                ELSE [q EXCEPT !.pc = "wait"]
<1>1. TypeOK /\ CacheIsCurrent /\ NoGap
  BY DEF IInv
<1>2. /\ lines \in [Streams -> 0 .. MaxLines] /\ MaxLines \in Nat /\ live \in Streams
      /\ drops \in 0 .. MaxDeploys
      /\ MaxDeploys \in Nat
  BY <1>1, AiAppsLogsAssumptions DEF TypeOK
<1>3. cache \in [Keys -> Entry] /\ walk \in [Keys -> Walk] /\ read \in [Reads -> Read]
  BY <1>1 DEF TypeOK
<1>4. /\ cache[k].upto \in 0 .. MaxLines
      /\ cache[k].size \in 0 .. cache[k].upto
      /\ cache[k].stream \in Streams
      /\ lines[cache[k].stream] \in 0 .. MaxLines
      /\ cache[k].upto <= lines[cache[k].stream]
  <2>1. cache[k].upto \in 0 .. MaxLines /\ cache[k].size \in 0 .. MaxLines
        /\ cache[k].stream \in Streams
    BY <1>3 DEF Entry
  <2> QED BY <2>1, <1>2 DEF IInv, Real, Within
<1>5. /\ lines' = lines /\ live' = live /\ drops' = drops /\ read' = [read EXCEPT ![r] = p]
  BY DEF LookUp
<1>6. cache' = IF cache[k].age = "dead" THEN [cache EXCEPT ![k] = NoEntry] ELSE cache
  BY DEF LookUp
<1>7. walk' = IF cache[k].age = "fresh" THEN walk ELSE [walk EXCEPT ![k] = Walking(k)]
  BY DEF LookUp
<1>8. Walking(k) \in Walk /\ Walking(k).on
  <2>1. [on |-> TRUE, began |-> drops, stream |-> live] \in Walk
    BY <1>2 DEF Walk
  <2> QED BY <2>1, <1>3 DEF Walking
<1>9. /\ walk' \in [Keys -> Walk]
      /\ \A j \in Keys : walk[j].on => walk'[j].on
      /\ ~shown => walk'[k].on
  BY <1>3, <1>7, <1>8
<1>10. /\ cache' \in [Keys -> Entry]
       /\ \A j \in Keys : cache'[j] = cache[j] \/ cache'[j] = NoEntry
       /\ ~shown => cache'[k].age = "none"
  <2>1. cache[k].age \in {"none", "fresh", "stale", "dead"}
    BY <1>3 DEF Entry
  <2> QED BY <2>1, <1>3, <1>6, Shapes
<1>11. \A j \in Keys : cache'[j].age # "none" => cache'[j] = cache[j]
  BY <1>10, Shapes
<1>12. skipped' = {} /\ mixed' \subseteq Reads
  <2>1. shown => ~Skips(q, cache[k].stream, cache[k].upto, cache[k].size)
    <3>1. shown /\ q.stream = cache[k].stream => SeenBy(q, cache[k].upto)
      BY DEF InOrder
    <3> QED BY <3>1, <1>4, InOrderSkipsNothing
  <2> QED BY <2>1, <1>1 DEF LookUp, NoGap, TypeOK
<1>13. Fit(p, walk') /\ InOrder(p, lines, cache')
  <2>1. CASE shown
    <3>1. p = Paged(q, cache[k].stream, cache[k].upto, cache[k].size)
      BY <2>1
    <3> HIDE DEF p
    <3>2. /\ Fit(p, walk')
          /\ p.paging => /\ p.key = k /\ p.stream = cache[k].stream
                          /\ p.low + p.offset = cache[k].upto + 1
      <4>0. PICK n \in 0 .. MaxLines : n = cache[k].upto
        BY <1>4
      <4>3. PICK s \in Streams : s = cache[k].stream
        BY <1>4
      <4>1. PICK size \in 0 .. n : size = cache[k].size
        BY <4>0, <1>4
      <4>2. /\ Fit(Paged(q, s, n, size), walk')
            /\ Paged(q, s, n, size).paging =>
                 /\ Paged(q, s, n, size).key = q.key /\ Paged(q, s, n, size).stream = s
                 /\ Paged(q, s, n, size).low + Paged(q, s, n, size).offset = n + 1
        BY PageFits
      <4> QED BY <4>0, <4>1, <4>2, <4>3, <3>1
    <3>3. SeenBy(p, lines[p.stream])
      BY <3>2, <1>2, <1>4 DEF SeenBy
    <3>4. \A j \in Keys : p.key = j /\ cache'[j].age # "none" /\ cache'[j].stream = p.stream
            => SeenBy(p, cache'[j].upto)
      <4> SUFFICES ASSUME NEW j \in Keys, p.key = j, cache'[j].age # "none", p.paging
                   PROVE  p.low + p.offset <= cache'[j].upto + 1
        BY DEF SeenBy
      <4>1. j = k /\ cache'[j] = cache[k]
        BY <3>2, <1>11
      <4>2. p.low + p.offset = cache'[j].upto + 1 /\ cache'[j].upto \in Nat
        BY <4>1, <3>2, <1>4, <1>2
      <4>3. p.low + p.offset \in Int /\ p.low + p.offset <= p.low + p.offset
        BY <4>2
      <4> QED BY <4>2, <4>3
    <3> QED BY <3>2, <3>3, <3>4 DEF InOrder
  <2>2. CASE ~shown
    <3>1. p = [q EXCEPT !.pc = "wait"]
      BY <2>2
    <3>2. p \in Read /\ p.pc = "wait"
      BY <3>1 DEF Read
    <3>3. p.key = k /\ (p.paging <=> q.paging) /\ p.offset = q.offset /\ p.low = q.low
          /\ p.stream = q.stream
      BY <3>1 DEF Read
    <3> HIDE DEF p
    <3>4. Fit(p, walk')
      BY <3>2, <3>3, <2>2, <1>9 DEF Fit
    <3>5. SeenBy(p, lines[p.stream])
      BY <3>3 DEF InOrder, SeenBy
    <3>6. \A j \in Keys : p.key = j /\ cache'[j].age # "none" => SeenBy(p, cache'[j].upto)
      BY <3>3, <2>2, <1>10
    <3> QED BY <3>4, <3>5, <3>6 DEF InOrder
  <2> QED BY <2>1, <2>2
<1> HIDE DEF p
<1>14. read' \in [Reads -> Read]
  BY <1>3, <1>5, <1>13 DEF Fit
<1>15. \A s \in Reads : Fit(read'[s], walk')
  <2>1. \A s \in Reads : Fit(read[s], walk')
    BY <1>1, <1>9, FitFrame
  <2> QED BY <2>1, <1>3, <1>5, <1>13
<1>16. \A s \in Reads : InOrder(read'[s], lines, cache')
  <2>2. \A s \in Streams : lines[s] <= lines[s]
    BY <1>2
  <2>1. \A s \in Reads : InOrder(read[s], lines, cache')
    BY <2>2, <1>2, <1>10, <1>11, CacheFrame
  <2> QED BY <2>1, <1>3, <1>5, <1>13
<1>17. Cardinality({j \in Keys : cache'[j].age # "none"}) <= MaxEntries
  BY <1>1, <1>11, Shrinks
<1>18. \A j \in Keys : cache'[j].age # "none" => cache'[j].began = drops
  BY <1>1, <1>11 DEF CacheIsCurrent, Cached
<1>19. \A j \in Keys : Real(cache'[j]) /\ Within(cache'[j], lines)
  BY <1>2, <1>10, Shapes DEF IInv, Within
<1>20. \A j \in Keys : Overtaken(walk'[j], drops, cache'[j])
  <2>1. \A j \in Keys : walk'[j] = walk[j] \/ walk'[j].began = drops
    BY <1>3, <1>7 DEF Walking
  <2>2. \A j \in Keys : Overtaken(walk[j], drops, cache[j])
    BY DEF IInv
  <2> QED BY <2>1, <2>2, <1>11 DEF Overtaken
<1> QED
  BY <1>2, <1>5, <1>9, <1>10, <1>12, <1>14, <1>15, <1>16, <1>17, <1>18, <1>19, <1>20,
     Assembled

LEMMA ReadsOK ==
  ASSUME IInv, NEW r \in Reads, More(r) \/ Retry(r) \/ \E k \in Keys : Open(r, k)
  PROVE  IInv'
<1>1. read[r] \in Read /\ InOrder(read[r], lines, cache)
  BY DEF IInv, TypeOK
<1>2. CASE More(r) \/ Retry(r)
  <2>1. read[r].key \in Keys /\ LookUp(r, read[r])
    BY <1>2 DEF More, Retry, IInv, TypeOK
  <2> QED BY <2>1, <1>1, LookUpOK
<1>3. ASSUME NEW k \in Keys, Open(r, k) PROVE IInv'
  <2> DEFINE q == [NoRead EXCEPT !.key = k]
  <2>1. q \in Read /\ q.key = k /\ ~q.paging
    BY Shapes, AiAppsLogsAssumptions DEF NoRead, Read
  <2>2. LookUp(r, q)
    BY <1>3 DEF Open
  <2> HIDE DEF q
  <2>3. InOrder(q, lines, cache)
    BY <2>1 DEF InOrder, SeenBy
  <2> QED BY <2>1, <2>2, <2>3, LookUpOK
<1> QED BY <1>2, <1>3

-----------------------------------------------------------------------------

\* The walk ends and its readers hear of it, but nothing is cached: what comes
\* of each of them has only to be fit and to have seen no more than before.
LEMMA WalkStopsOK ==
  ASSUME IInv, NEW k \in Keys, lines' = lines, live' = live, drops' = drops, cache' = cache,
         walk' = [walk EXCEPT ![k] = NoWalk],
         UNCHANGED history, NEW next \in [Waiting(k) -> Read],
         read' = [r \in Reads |-> IF r \in Waiting(k) THEN next[r] ELSE read[r]],
         \A r \in Waiting(k) :
           /\ Fit(next[r], walk') /\ next[r].pc # "wait"
           /\ next[r].paging => /\ read[r].paging
                                /\ next[r].key = read[r].key /\ next[r].stream = read[r].stream
                                /\ next[r].low = read[r].low
                                /\ next[r].offset = read[r].offset
  PROVE  IInv'
<1>1. TypeOK /\ CacheIsCurrent /\ NoGap
  BY DEF IInv
<1>2. /\ lines' \in [Streams -> 0 .. MaxLines] /\ live' \in Streams
      /\ drops' \in 0 .. MaxDeploys
  BY <1>1 DEF TypeOK
<1>3. cache' \in [Keys -> Entry] /\ walk' \in [Keys -> Walk] /\ read' \in [Reads -> Read]
  BY <1>1, Shapes DEF TypeOK
<1>4. ASSUME NEW r \in Reads PROVE Fit(read'[r], walk') /\ InOrder(read'[r], lines, cache)
  <2>1. InOrder(read[r], lines, cache)
    BY DEF IInv
  <2>2. CASE r \in Waiting(k)
    <3>1. read'[r] = next[r]
      BY <2>2
    <3>2. SeenBy(next[r], lines[next[r].stream])
      BY <2>1, <2>2 DEF InOrder, SeenBy
    <3>3. \A j \in Keys :
            next[r].key = j /\ cache[j].age # "none" /\ cache[j].stream = next[r].stream
              => SeenBy(next[r], cache[j].upto)
      BY <2>1, <2>2 DEF InOrder, SeenBy
    <3> QED BY <3>1, <3>2, <3>3, <2>2 DEF InOrder
  <2>3. CASE r \notin Waiting(k)
    <3>1. read'[r] = read[r]
      BY <2>3
    <3>2. read[r].pc = "wait" => read[r].key \in Keys \ {k}
      BY <1>1, <2>3 DEF TypeOK, Waiting
    <3>3. Fit(read[r], walk')
      BY <1>1, <3>2 DEF TypeOK, Fit
    <3> QED BY <3>1, <3>3, <2>1
  <2> QED BY <2>2, <2>3
<1>5. Cardinality({j \in Keys : cache'[j].age # "none"}) <= MaxEntries
  BY <1>1, Shrinks
<1>6. \A j \in Keys : cache'[j].age # "none" => cache'[j].began = drops'
  BY <1>1 DEF CacheIsCurrent, Cached
<1>7. \A j \in Keys : Real(cache'[j]) /\ Within(cache'[j], lines')
  BY DEF IInv
<1>8. skipped' = {} /\ mixed' \subseteq Reads
  BY <1>1 DEF NoGap, history, TypeOK
<1>9. \A r \in Reads : InOrder(read'[r], lines', cache')
  BY <1>4
<1>10. \A j \in Keys : Overtaken(walk'[j], drops', cache'[j])
  BY <1>1, Shapes DEF IInv, TypeOK, Overtaken
<1> QED BY <1>2, <1>3, <1>4, <1>5, <1>6, <1>7, <1>8, <1>9, <1>10, Assembled

LEMMA RefusedFits ==
  ASSUME NEW q \in Read, q.key \in Keys, NEW w
  PROVE  /\ Fit(Refused(q), w) /\ Refused(q).pc = "idle"
         /\ Refused(q).paging => /\ q.paging
                                 /\ Refused(q).key = q.key /\ Refused(q).stream = q.stream
                                 /\ Refused(q).low = q.low
                                 /\ Refused(q).offset = q.offset
<1>1. CASE q.paging
  <2> DEFINE p == [q EXCEPT !.pc = "idle"]
  <2>1. p \in Read /\ p.pc = "idle"
    BY DEF Read
  <2>2. p.key = q.key /\ p.stream = q.stream /\ p.low = q.low /\ p.offset = q.offset
    BY DEF Read
  <2>3. Refused(q) = p
    BY <1>1 DEF Refused
  <2> HIDE DEF p
  <2> QED BY <1>1, <2>1, <2>2, <2>3 DEF Fit
<1>2. CASE ~q.paging
  BY <1>2, Shapes DEF Refused, Fit
<1> QED BY <1>1, <1>2

LEMMA NarrowFits ==
  ASSUME NEW q \in Read, q.key \in Keys, NEW w
  PROVE  /\ Fit(Narrow(q), w) /\ Narrow(q).pc # "wait"
         /\ Narrow(q).paging => /\ q.paging
                                /\ Narrow(q).key = q.key /\ Narrow(q).stream = q.stream
                                /\ Narrow(q).low = q.low
                                /\ Narrow(q).offset = q.offset
<1>1. CASE ~q.paging /\ Narrower[q.key] # NoKey
  <2> DEFINE p == [q EXCEPT !.pc = "retry", !.key = Narrower[q.key]]
  <2>1. Narrower[q.key] \in Keys
    BY <1>1, AiAppsLogsAssumptions
  <2>2. p \in Read /\ p.pc = "retry" /\ p.key \in Keys
    BY <2>1 DEF Read
  <2>3. p.paging <=> q.paging
    BY DEF Read
  <2>4. Narrow(q) = p
    BY <1>1 DEF Narrow
  <2> HIDE DEF p
  <2> QED BY <1>1, <2>2, <2>3, <2>4 DEF Fit
<1>2. CASE ~(~q.paging /\ Narrower[q.key] # NoKey)
  BY <1>2, RefusedFits DEF Narrow
<1> QED BY <1>1, <1>2

LEMMA LostWalkOK ==
  ASSUME IInv, NEW k \in Keys, GiveUpWalk(k) \/ FailWalk(k)
  PROVE  IInv'
<1>1. \A r \in Waiting(k) : r \in Reads /\ read[r] \in Read /\ read[r].key \in Keys
  BY DEF Waiting, IInv, TypeOK
<1>2. CASE GiveUpWalk(k)
  <2> DEFINE next == [r \in Waiting(k) |-> Narrow(read[r])]
  <2>1. \A r \in Waiting(k) : next[r] \in Read
    BY <1>1, NarrowFits DEF Fit
  <2>2. next \in [Waiting(k) -> Read]
    BY <2>1
  <2>3. read' = [r \in Reads |-> IF r \in Waiting(k) THEN next[r] ELSE read[r]]
    BY <1>2 DEF GiveUpWalk
  <2>4. \A r \in Waiting(k) :
           /\ Fit(next[r], walk') /\ next[r].pc # "wait"
           /\ next[r].paging => /\ read[r].paging
                                /\ next[r].key = read[r].key /\ next[r].stream = read[r].stream
                                /\ next[r].low = read[r].low
                                /\ next[r].offset = read[r].offset
    BY <1>1, NarrowFits
  <2> HIDE DEF next
  <2>5. /\ lines' = lines /\ live' = live /\ drops' = drops /\ cache' = cache
        /\ UNCHANGED history
        /\ walk' = [walk EXCEPT ![k] = NoWalk]
    BY <1>2 DEF GiveUpWalk
  <2> QED BY <2>2, <2>3, <2>4, <2>5, WalkStopsOK
<1>3. CASE FailWalk(k)
  <2> DEFINE next == [r \in Waiting(k) |-> Refused(read[r])]
  <2>1. \A r \in Waiting(k) : next[r] \in Read
    BY <1>1, RefusedFits DEF Fit
  <2>2. next \in [Waiting(k) -> Read]
    BY <2>1
  <2>3. read' = [r \in Reads |-> IF r \in Waiting(k) THEN next[r] ELSE read[r]]
    BY <1>3 DEF FailWalk
  <2>4. \A r \in Waiting(k) :
           /\ Fit(next[r], walk') /\ next[r].pc # "wait"
           /\ next[r].paging => /\ read[r].paging
                                /\ next[r].key = read[r].key /\ next[r].stream = read[r].stream
                                /\ next[r].low = read[r].low
                                /\ next[r].offset = read[r].offset
    BY <1>1, RefusedFits
  <2> HIDE DEF next
  <2>5. /\ lines' = lines /\ live' = live /\ drops' = drops /\ cache' = cache
        /\ UNCHANGED history
        /\ walk' = [walk EXCEPT ![k] = NoWalk]
    BY <1>3 DEF FailWalk
  <2> QED BY <2>2, <2>3, <2>4, <2>5, WalkStopsOK
<1> QED BY <1>2, <1>3

-----------------------------------------------------------------------------

\* The cache that a complete walk leaves.
Kept(k, s, n, size, out) ==
  [j \in Keys |-> IF j = k
                  THEN [age |-> "fresh", stream |-> s, upto |-> n, size |-> size,
                        began |-> walk[k].began]
                  ELSE IF j \in out THEN NoEntry ELSE cache[j]]

\* What is to be said of it: only the walk's own entry is new.
OnlyNew(c, k, s, n) ==
  /\ c \in [Keys -> Entry]
  /\ \A j \in Keys : c[j].age # "none" => c[j].began = drops
  /\ \A j \in Keys : Real(c[j]) /\ Within(c[j], lines)
  /\ \A j \in Keys : j # k /\ c[j].age # "none" => c[j] = cache[j]
  /\ c[k].upto = n /\ c[k].stream = s
  /\ Cardinality({j \in Keys : c[j].age # "none"}) <= MaxEntries

LEMMA KeptCache ==
  ASSUME IInv, NEW k \in Keys, NEW s \in Streams, NEW n \in 0 .. MaxLines, n = lines[s],
         NEW size \in 0 .. n, NEW out \in Evicted(k), walk[k].began = drops,
         NEW c, c = Kept(k, s, n, size, out)
  PROVE  OnlyNew(c, k, s, n)
<1> DEFINE e == [age |-> "fresh", stream |-> s, upto |-> n, size |-> size,
                 began |-> walk[k].began]
<1>1. TypeOK /\ CacheIsCurrent
  BY DEF IInv
<1>2. /\ lines \in [Streams -> 0 .. MaxLines] /\ MaxLines \in Nat /\ drops \in 0 .. MaxDeploys
  BY <1>1, AiAppsLogsAssumptions DEF TypeOK
<1>3. e \in Entry /\ e.began = drops /\ e.upto = n /\ e.stream = s /\ Real(e) /\ Within(e, lines)
  BY <1>2 DEF Entry, Real, Within
<1> HIDE DEF e
<1>4. c = [j \in Keys |-> IF j = k THEN e ELSE IF j \in out THEN NoEntry ELSE cache[j]]
  BY DEF e, Kept
<1>5. c[k] = e /\ \A j \in Keys : j # k => c[j] = NoEntry \/ (j \notin out /\ c[j] = cache[j])
  BY <1>4
<1>6. cache \in [Keys -> Entry] /\ NoEntry \in Entry
  BY <1>1, Shapes DEF TypeOK
<1>7. c \in [Keys -> Entry]
  BY <1>3, <1>4, <1>6
<1>8. \A j \in Keys : j # k /\ c[j].age # "none" =>
        /\ c[j] = cache[j] /\ j \notin out /\ j \in Cached
  BY <1>5, Shapes DEF Cached
<1>9. \A j \in Keys : c[j].age # "none" => c[j].began = drops
  <2>1. \A j \in Cached : cache[j].began = drops
    BY <1>1 DEF CacheIsCurrent
  <2> QED BY <2>1, <1>3, <1>5, <1>8
<1>10. \A j \in Keys : Real(c[j]) /\ Within(c[j], lines)
  <2>1. \A j \in Keys : Real(cache[j]) /\ Within(cache[j], lines)
    BY DEF IInv
  <2>2. Real(NoEntry) /\ Within(NoEntry, lines)
    BY <1>2, Shapes DEF Within
  <2> QED BY <2>1, <2>2, <1>3, <1>5
<1>11. Cardinality({j \in Keys : c[j].age # "none"}) <= MaxEntries
  BY <1>1, <1>8, Fits
<1> QED BY <1>3, <1>5, <1>7, <1>8, <1>9, <1>10, <1>11 DEF OnlyNew

\* A complete walk: cached if no deploy came in between, shown to all who wait.
LEMMA EndWalkOK ==
  ASSUME IInv, NEW k \in Keys, EndWalk(k)
  PROVE  IInv'
<1>1. TypeOK /\ CacheIsCurrent /\ NoGap
  BY DEF IInv
<1>2. /\ lines \in [Streams -> 0 .. MaxLines] /\ MaxLines \in Nat /\ drops \in 0 .. MaxDeploys
      /\ live \in Streams /\ mixed \subseteq Reads /\ Retain \in Nat /\ MaxStreams \in Nat
  BY <1>1, AiAppsLogsAssumptions DEF TypeOK
<1>3. cache \in [Keys -> Entry] /\ walk \in [Keys -> Walk] /\ read \in [Reads -> Read]
  BY <1>1 DEF TypeOK
<1>13. PICK s \in walk[k].stream .. live : \E n \in Ends(s), size \in 0 .. Retain :
        /\ size <= n
        /\ IF Keeps(k)
           THEN \E out \in Evicted(k) : cache' = [j \in Keys |->
                  IF j = k
                  THEN [age |-> "fresh", stream |-> s, upto |-> n, size |-> size,
                        began |-> walk[k].began]
                  ELSE IF j \in out THEN NoEntry ELSE cache[j]]
           ELSE cache' = cache
        /\ read' = [r \in Reads |->
             IF r \in Waiting(k) THEN Paged(read[r], s, n, size) ELSE read[r]]
        /\ skipped' = skipped \cup {r \in Waiting(k) : Skips(read[r], s, n, size)}
        /\ mixed' = mixed \cup {r \in Waiting(k) : Mixes(read[r], s)}
  BY DEF EndWalk
<1>14. s \in Streams
  BY <1>2, <1>3 DEF Walk, Streams
<1>15. PICK n \in 0 .. MaxLines : n = lines[s]
  BY <1>2, <1>14
<1>4. PICK size \in 0 .. n :
        /\ IF Keeps(k)
           THEN \E out \in Evicted(k) : cache' = [j \in Keys |->
                  IF j = k
                  THEN [age |-> "fresh", stream |-> s, upto |-> n, size |-> size,
                        began |-> walk[k].began]
                  ELSE IF j \in out THEN NoEntry ELSE cache[j]]
           ELSE cache' = cache
        /\ read' = [r \in Reads |->
             IF r \in Waiting(k) THEN Paged(read[r], s, n, size) ELSE read[r]]
        /\ skipped' = skipped \cup {r \in Waiting(k) : Skips(read[r], s, n, size)}
        /\ mixed' = mixed \cup {r \in Waiting(k) : Mixes(read[r], s)}
  BY <1>2, <1>13, <1>15 DEF Ends
<1>5. lines' = lines /\ live' = live /\ drops' = drops /\ walk' = [walk EXCEPT ![k] = NoWalk]
  BY DEF EndWalk
<1>6. walk' \in [Keys -> Walk] /\ \A j \in Keys : j # k => walk'[j] = walk[j]
  BY <1>3, <1>5, Shapes
<1>7. /\ cache' \in [Keys -> Entry]
      /\ \A j \in Keys : cache'[j].age # "none" => cache'[j].began = drops
      /\ \A j \in Keys : Real(cache'[j]) /\ Within(cache'[j], lines)
      /\ \A j \in Keys : j # k /\ cache'[j].age # "none" => cache'[j] = cache[j]
      /\ Cardinality({j \in Keys : cache'[j].age # "none"}) <= MaxEntries
      /\ cache'[k].age # "none" => cache'[k].upto = n /\ cache'[k].stream = s
  <2>1. CASE Keeps(k)
    <3>1. PICK out \in Evicted(k) : cache' = Kept(k, s, n, size, out)
      BY <1>4, <2>1 DEF Kept
    <3>2. walk[k].began = drops
      BY <2>1 DEF Keeps
    <3>3. PICK c : c = cache'
      OBVIOUS
    <3>5. c = Kept(k, s, n, size, out)
      BY <3>1, <3>3
    <3>4. OnlyNew(c, k, s, n)
      BY <1>14, <1>15, <3>2, <3>5, KeptCache
    <3> QED BY <3>3, <3>4 DEF OnlyNew
  <2>2. CASE ~Keeps(k)
    <3>1. cache' = cache
      BY <1>4, <2>2
    <3>2. Cardinality({j \in Keys : cache[j].age # "none"}) <= MaxEntries
      BY <1>1, Shrinks
    <3>3. cache[k].age = "none"
      BY <2>2 DEF EndWalk, Keeps, IInv, Overtaken
    <3> QED BY <3>1, <3>2, <3>3, <1>1, <1>3 DEF IInv, CacheIsCurrent, Cached
  <2> QED BY <2>1, <2>2
<1>8. ASSUME NEW r \in Reads
      PROVE  Fit(read'[r], walk') /\ InOrder(read'[r], lines, cache')
  <2>1. read[r] \in Read /\ InOrder(read[r], lines, cache)
    BY <1>1 DEF IInv, TypeOK
  <2>3. CASE r \in Waiting(k)
    <3> DEFINE p == Paged(read[r], s, n, size)
    <3>1. read[r].key = k
      BY <2>3 DEF Waiting
    <3>2. read'[r] = p
      BY <1>4, <2>3
    <3>3. /\ Fit(p, walk')
          /\ p.paging => p.key = read[r].key /\ p.stream = s /\ p.low + p.offset = n + 1
      BY <1>14, <2>1, <3>1, PageFits
    <3> HIDE DEF p
    <3>4. SeenBy(p, n) /\ SeenBy(p, lines[p.stream])
      BY <3>3, <1>2, <1>15 DEF SeenBy
    <3>5. \A j \in Keys : p.key = j /\ cache'[j].age # "none" /\ cache'[j].stream = p.stream
            => SeenBy(p, cache'[j].upto)
      <4> SUFFICES ASSUME NEW j \in Keys, p.key = j, cache'[j].age # "none"
                   PROVE  SeenBy(p, cache'[j].upto)
        OBVIOUS
      <4>1. p.paging => j = k
        BY <3>1, <3>3
      <4> QED BY <4>1, <3>4, <1>7 DEF SeenBy
    <3> QED BY <3>2, <3>3, <3>4, <3>5 DEF InOrder
  <2>4. CASE r \notin Waiting(k)
    <3>1. read'[r] = read[r]
      BY <1>4, <2>4
    <3>2. read[r].pc = "wait" => read[r].key \in Keys \ {k}
      BY <1>1, <2>4 DEF TypeOK, Waiting
    <3>3. Fit(read[r], walk')
      BY <1>1, <1>6, <3>2 DEF TypeOK, Fit
    <3>4. InOrder(read[r], lines, cache')
      BY <2>1, <1>7, <1>15 DEF InOrder
    <3> QED BY <3>1, <3>3, <3>4
  <2> QED BY <2>3, <2>4
<1>10. skipped' = {} /\ mixed' \subseteq Reads
  <2>1. \A r \in Waiting(k) : ~Skips(read[r], s, n, size)
    <3>1. \A r \in Waiting(k) :
            read[r] \in Read /\ (read[r].stream = s => SeenBy(read[r], n))
      BY <1>1, <1>15 DEF Waiting, IInv, TypeOK, InOrder
    <3> QED BY <3>1, InOrderSkipsNothing
  <2> QED BY <2>1, <1>1, <1>2, <1>4 DEF NoGap, Waiting
<1>11. \A j \in Keys : Overtaken(walk'[j], drops, cache'[j])
  <2>1. \A j \in Keys : Overtaken(walk[j], drops, cache[j])
    BY DEF IInv
  <2>2. ~walk'[k].on
    BY <1>3, <1>5, Shapes
  <2> QED BY <2>1, <2>2, <1>6, <1>7 DEF Overtaken
<1>12. read' \in [Reads -> Read]
  <2>1. \A r \in Reads : read'[r] \in Read
    BY <1>8 DEF Fit
  <2>2. read' = [r \in Reads |-> read'[r]]
    BY <1>4
  <2> QED BY <2>1, <2>2
<1> QED
  BY <1>2, <1>5, <1>6, <1>7, <1>8, <1>10, <1>11, <1>12, Assembled

LEMMA StepOK == IInv /\ [Next]_vars => IInv'
<1> SUFFICES ASSUME IInv, [Next]_vars PROVE IInv'
  OBVIOUS
<1>1. CASE Drop \/ GoLive \/ (\E s \in Streams : WriteLine(s)) \/ \E k \in Keys : Expire(k)
  BY <1>1, WorldOK
<1>2. ASSUME NEW k \in Keys, WalkStep(k) PROVE IInv'
  BY <1>2, EndWalkOK, LostWalkOK DEF WalkStep
<1>3. ASSUME NEW r \in Reads, More(r) \/ Retry(r) \/ \E k \in Keys : Open(r, k)
      PROVE  IInv'
  BY <1>3, ReadsOK
<1>4. CASE UNCHANGED vars
  BY <1>4 DEF vars, IInv, TypeOK, Cached, CacheIsCurrent, NoGap, Overtaken, InOrder, SeenBy,
              Within
<1> QED BY <1>1, <1>2, <1>3, <1>4 DEF Next

LEMMA Inductive == Spec => []IInv
BY InitOK, StepOK, PTL DEF Spec

\* The maps, the readers and the cursors keep their types, a read that waits
\* has a walk to wait for, and the cache never outgrows its bound.
THEOREM LogsTypeCorrect == Spec => []TypeOK
<1>1. IInv => TypeOK
  BY DEF IInv
<1> QED BY <1>1, Inductive, PTL

\* No walk from before a deploy is in the cache after it (writeLogsTailCache,
\* dropLogsTailCache), also if it ran on over the deploy.
THEOREM CachedWalksAreCurrent == Spec => []CacheIsCurrent
<1>1. IInv => CacheIsCurrent
  BY DEF IInv
<1> QED BY <1>1, Inductive, PTL

\* Who pages through a deployment's log misses no line of it between two pages
\* (getMemberLogsDesc), whatever deploys, drops and walks come in between.
THEOREM PagingSkipsNothing == Spec => []NoGap
<1>1. IInv => NoGap
  BY DEF IInv
<1> QED BY <1>1, Inductive, PTL

=============================================================================
