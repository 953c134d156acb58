---------------------------- MODULE LogBackend_proofs ----------------------------
(***************************************************************************)
(* What holds of the logging backend for any number of threads, targets    *)
(* and calls and any depth of the queue: its types and the count of drops, *)
(* the order and the targets of lines, what a flush waits for, and where   *)
(* the crash log points while updates do not overlap.                      *)
(***************************************************************************)
EXTENDS LogBackend, FiniteSetTheorems, SequenceTheorems, TLAPS

--------------------------------------------------------------------------------
(* Sums over finite sets, by induction: in a finite set of counterexamples *)
(* there is a smallest.                                                    *)
LEMMA MinimalSubset ==
  ASSUME NEW S, IsFiniteSet(S), NEW X \in SUBSET SUBSET S, X # {}
  PROVE  \E T \in X : \A U \in X : U \subseteq T => U = T
<1>1. IsWellFoundedOn(StrictSubsetOrdering(S), SUBSET S)
  BY FS_StrictSubsetOrderingWellFounded, FS_FiniteSubsetsOfFinite
<1>2. PICK T \in X : \A U \in X : ~(<<U, T>> \in StrictSubsetOrdering(S))
  <2> HIDE DEF StrictSubsetOrdering
  <2> QED
    BY <1>1, WFMin
<1> QED
  BY <1>2 DEF StrictSubsetOrdering

(* g has the sum of f over each subset of S.                               *)
Sums(g, f, S) ==
  /\ g \in [SUBSET S -> Nat] /\ g[{}] = 0
  /\ \A T \in SUBSET S : \A x \in T : g[T] = f[x] + g[T \ {x}]

LEMMA SumsExist ==
  ASSUME NEW S, IsFiniteSet(S), NEW f, \A x \in S : f[x] \in Nat
  PROVE  \E g : Sums(g, f, S)
<1> DEFINE Bad == {T \in SUBSET S : ~ \E g : Sums(g, f, T)}
<1>0. SUFFICES ASSUME Bad # {} PROVE FALSE
  OBVIOUS
<1>1. PICK T \in Bad : \A U \in Bad : U \subseteq T => U = T
  <2>1. Bad \in SUBSET SUBSET S
    OBVIOUS
  <2> HIDE DEF Bad
  <2> QED
    BY <1>0, <2>1, MinimalSubset
<1>2. CASE T = {}
  <2>1. Sums([U \in SUBSET T |-> 0], f, T)
    BY <1>2 DEF Sums
  <2> QED
    BY <2>1
<1>3. CASE T # {}
  <2> PICK x \in T : TRUE
    BY <1>3
  <2> DEFINE R == T \ {x}
  <2>1. PICK g : Sums(g, f, R)
    BY <1>1
  <2> DEFINE h == [U \in SUBSET T |-> IF x \in U THEN f[x] + g[U \ {x}] ELSE g[U]]
  <2>2. f[x] \in Nat /\ \A y \in T : f[y] \in Nat
    OBVIOUS
  <2>3. \A U \in SUBSET T : g[U \ {x}] \in Nat
    BY <2>1 DEF Sums
  <2>4. h \in [SUBSET T -> Nat] /\ h[{}] = 0
    BY <2>1, <2>2, <2>3 DEF Sums
  <2>5. ASSUME NEW U \in SUBSET T, NEW y \in U
        PROVE  h[U] = f[y] + h[U \ {y}]
    <3>1. CASE y = x
      BY <3>1, <2>3
    <3>2. CASE y # x /\ x \notin U
      <4>1. U \in SUBSET R /\ U \ {y} \in SUBSET R
        BY <3>2
      <4> QED
        BY <3>2, <4>1, <2>1 DEF Sums
    <3>3. CASE y # x /\ x \in U
      <4>1. U \ {x} \in SUBSET R /\ y \in U \ {x} /\ (U \ {y}) \ {x} = (U \ {x}) \ {y}
        BY <3>3
      <4>2. g[U \ {x}] = f[y] + g[(U \ {x}) \ {y}]
        BY <4>1, <2>1 DEF Sums
      <4>3. g[(U \ {x}) \ {y}] \in Nat
        BY <4>1, <2>1 DEF Sums
      <4>4. h[U] = f[x] + g[U \ {x}] /\ h[U \ {y}] = f[x] + g[(U \ {x}) \ {y}]
        BY <3>3, <4>1
      <4> QED
        BY <4>2, <4>3, <4>4, <2>2
    <3> QED
      BY <3>1, <3>2, <3>3
  <2>6. Sums(h, f, T)
    BY <2>4, <2>5 DEF Sums
  <2> QED
    BY <2>6
<1> QED
  BY <1>2, <1>3

LEMMA SumIs ==
  ASSUME NEW S, IsFiniteSet(S), NEW f, NEW g, Sums(g, f, S)
  PROVE  SumFunctionOnSet(f, S) = g[S]
<1> DEFINE Body(h) == [s \in SUBSET S |-> IF s = {} THEN 0
              ELSE f[CHOOSE x \in s : TRUE] + h[s \ {CHOOSE x \in s : TRUE}]]
           iter == CHOOSE h : h = Body(h)
<1>1. SumFunctionOnSet(f, S) = iter[S]
  BY Zenon DEF SumFunctionOnSet, FoldFunctionOnSet, MapThenFoldSet
<1>2. g = Body(g)
  BY DEF Sums
<1>3. iter = Body(iter)
  BY <1>2
<1> HIDE DEF iter
<1>4. \A s \in SUBSET S : iter[s] = g[s]
  <2> DEFINE Bad == {T \in SUBSET S : iter[T] # g[T]}
  <2>0. SUFFICES ASSUME Bad # {} PROVE FALSE
    OBVIOUS
  <2>1. PICK T \in Bad : \A U \in Bad : U \subseteq T => U = T
    <3>1. Bad \in SUBSET SUBSET S
      OBVIOUS
    <3> HIDE DEF Bad
    <3> QED
      BY <2>0, <3>1, MinimalSubset
  <2>2. T # {}
    BY <1>2, <1>3
  <2> DEFINE c == CHOOSE x \in T : TRUE
  <2>3. c \in T
    BY <2>2
  <2> HIDE DEF c
  <2>4. iter[T \ {c}] = g[T \ {c}]
    BY <2>1, <2>3
  <2>5. iter[T] = f[c] + iter[T \ {c}] /\ g[T] = f[c] + g[T \ {c}]
    BY <1>2, <1>3, <2>2 DEF c
  <2> QED
    BY <2>4, <2>5
<1> QED
  BY <1>1, <1>4

LEMMA SumNat ==
  ASSUME NEW S, IsFiniteSet(S), NEW f, \A x \in S : f[x] \in Nat
  PROVE  SumFunctionOnSet(f, S) \in Nat
<1>1. PICK g : Sums(g, f, S)
  BY SumsExist
<1>2. g[S] \in Nat
  BY <1>1 DEF Sums
<1> QED
  BY <1>1, <1>2, SumIs

LEMMA SumEmpty == ASSUME NEW f PROVE SumFunctionOnSet(f, {}) = 0
<1>1. Sums([T \in SUBSET {} |-> 0], f, {})
  BY DEF Sums
<1> QED
  BY <1>1, SumIs, FS_EmptySet

LEMMA SumAdd ==
  ASSUME NEW S, IsFiniteSet(S), NEW f, NEW x, x \notin S, \A y \in S \cup {x} : f[y] \in Nat
  PROVE  SumFunctionOnSet(f, S \cup {x}) = SumFunctionOnSet(f, S) + f[x]
<1>1. IsFiniteSet(S \cup {x})
  BY FS_AddElement
<1>2. PICK g : Sums(g, f, S \cup {x})
  BY <1>1, SumsExist
<1> DEFINE h == [T \in SUBSET S |-> g[T]]
<1>3. Sums(h, f, S)
  BY <1>2 DEF Sums
<1>4. SumFunctionOnSet(f, S) = g[S] /\ SumFunctionOnSet(f, S \cup {x}) = g[S \cup {x}]
  <2>1. SumFunctionOnSet(f, S) = h[S]
    BY <1>3, SumIs
  <2> QED
    BY <1>1, <1>2, <2>1, SumIs
<1>5. g[S \cup {x}] = f[x] + g[S]
  <2>1. g[S \cup {x}] = f[x] + g[(S \cup {x}) \ {x}]
    BY <1>2 DEF Sums
  <2>2. (S \cup {x}) \ {x} = S
    OBVIOUS
  <2> QED
    BY <2>1, <2>2
<1>6. g[S] \in Nat /\ f[x] \in Nat
  BY <1>2 DEF Sums
<1> QED
  BY <1>4, <1>5, <1>6

LEMMA SumSame ==
  ASSUME NEW S, IsFiniteSet(S), NEW f, NEW h, \A x \in S : f[x] \in Nat /\ h[x] = f[x]
  PROVE  SumFunctionOnSet(h, S) = SumFunctionOnSet(f, S)
<1>1. PICK g : Sums(g, f, S)
  BY SumsExist
<1>2. Sums(g, h, S)
  BY <1>1 DEF Sums
<1> QED
  BY <1>1, <1>2, SumIs

--------------------------------------------------------------------------------
(* Positions of the queue, by what is there.                               *)
IsEntry(i) == i \in DOMAIN queue /\ queue[i].kind = "entry"
IsFlush(i) == i \in DOMAIN queue /\ queue[i].kind = "flush"

(* A change of target; and t is the target in force at place i of queue q, *)
(* for a writer on sink w: that of the last change before i, or w if there *)
(* is none.                                                                *)
Change(m) == m.kind = "update" /\ m.sink # Keep

InForce(q, w, i, t) ==
  \/ t = w /\ \A j \in 1 .. i - 1 : ~Change(q[j])
  \/ \E k \in 1 .. i - 1 : /\ Change(q[k]) /\ q[k].sink = t
                           /\ \A j \in k + 1 .. i - 1 : ~Change(q[j])

(* A line with place n is past the queue: nothing queued comes before it.  *)
Past(n) == n <= accepted /\ \A i \in DOMAIN queue : IsEntry(i) => n < queue[i].n

Sorted(lines) == \A i, j \in DOMAIN lines : i < j => lines[i].n < lines[j].n

(* What reaches t in the end: the sink's buffer goes after its lines.      *)
Stream(t) == IF t = sink THEN disk[t] \o buf ELSE disk[t]

(* Records go through queue, buffer and target without overtaking.         *)
OrderInv ==
  /\ \A i \in DOMAIN queue : IsEntry(i) => queue[i].n <= accepted
  /\ \A i, j \in DOMAIN queue : IsEntry(i) /\ IsEntry(j) /\ i < j => queue[i].n < queue[j].n
  /\ \A t \in Targets : /\ Sorted(Stream(t))
                        /\ \A k \in DOMAIN Stream(t) : Past(Stream(t)[k].n)

(* Each is for the target in force at its place.                           *)
TargetInv ==
  /\ InForce(queue, sink, Len(queue) + 1, want)
  /\ \A i \in DOMAIN queue : IsEntry(i) => InForce(queue, sink, i, queue[i].want)
  /\ \A t \in Targets : \A k \in DOMAIN Stream(t) : Stream(t)[k].want = t

(* None is lost on the way.                                                *)
Arrived(n) == \E t \in Targets : \E k \in DOMAIN Stream(t) : Stream(t)[k].n = n
Waiting(n) == \E i \in DOMAIN queue : IsEntry(i) /\ queue[i].n = n

CoverInv == \A n \in 1 .. accepted : Arrived(n) \/ Waiting(n)

(* A flush in the queue has all it waits for ahead of it.                  *)
FlushInv ==
  /\ FlushBarrier
  /\ \A f \in Flushers : before[f] <= accepted
  /\ \A i \in DOMAIN queue : IsFlush(i) =>
       /\ flush[queue[i].who] = "wait"
       /\ \A j \in DOMAIN queue : IsFlush(j) /\ queue[j].who = queue[i].who => j = i
       /\ \A j \in DOMAIN queue : IsEntry(j) /\ i < j => before[queue[i].who] < queue[j].n

(* An update() reaches these places only with the targets they use.        *)
AskedInv ==
  \A u \in Updaters :
    /\ at[u] \in {"flag", "couple"} => config[u].crash # Keep
    /\ at[u] \in {"remember", "remember_point", "point"} => config[u].target # Keep

CrashInPlace == CRASH_FD = IF CRASH_FOLLOWS_LOG THEN LOG_FD ELSE own

(* Where an update stands, and what it has done to the descriptors.        *)
Standing(u) ==
  /\ at[u] \in {"idle", "flag", "couple", "load", "remember", "remember_point"} => LOG_FD = want
  /\ at[u] \in {"idle", "flag", "load", "remember", "remember_point", "send"} => CrashInPlace
  /\ at[u] = "couple" => /\ CRASH_FOLLOWS_LOG = (config[u].crash = SameAsLog)
                         /\ config[u].crash # SameAsLog => own = config[u].crash
  /\ at[u] \in {"remember_point", "point"} => CRASH_FOLLOWS_LOG
  /\ at[u] = "remember" => ~CRASH_FOLLOWS_LOG
  /\ at[u] = "point" => LOG_FD = config[u].target
  /\ at[u] = "send" => LOG_FD = IF config[u].target = Keep THEN want ELSE config[u].target

Quiet == \A u \in Updaters : at[u] = "idle"

DescriptorInv == /\ \A u \in Updaters : at[u] # "idle" => Standing(u)
                 /\ Quiet => LOG_FD = want /\ CrashInPlace

--------------------------------------------------------------------------------
(* What the two ends of the queue do to its positions.                     *)
LEMMA AppendPositions ==
  ASSUME NEW q \in Seq(Messages), NEW m \in Messages
  PROVE  /\ Append(q, m) \in Seq(Messages) /\ Len(Append(q, m)) = Len(q) + 1
         /\ \A i \in 1 .. Len(q) : Append(q, m)[i] = q[i]
         /\ Append(q, m)[Len(q) + 1] = m
OBVIOUS

LEMMA TailPositions ==
  ASSUME NEW q \in Seq(Messages), q # <<>>
  PROVE  /\ Tail(q) \in Seq(Messages) /\ Len(q) > 0 /\ Len(Tail(q)) = Len(q) - 1
         /\ \A i \in 1 .. Len(q) - 1 : Tail(q)[i] = q[i + 1]
         /\ Head(q) = q[1] /\ q[1] \in Messages
OBVIOUS

(* The messages, by kind.                                                  *)
LEMMA MessageKinds ==
  ASSUME NEW m \in Messages
  PROVE  /\ m.kind \in {"entry", "update", "flush"}
         /\ m.kind = "entry" => m.n \in Nat /\ m.dropped \in Nat /\ m.want \in Targets
         /\ m.kind = "update" => m.sink \in Targets \cup {Keep}
         /\ m.kind = "flush" => m.who \in Flushers
BY DEF Messages

LEMMA QueuedFinite ==
  ASSUME queue \in Seq(Messages)
  PROVE  IsFiniteSet(Queued)
<1>1. Len(queue) \in Nat /\ DOMAIN queue = 1 .. Len(queue)
  OBVIOUS
<1>2. queue \in Surjection(1 .. Len(queue), ToSet(queue))
  BY <1>1 DEF Surjection, ToSet
<1>3. IsFiniteSet(ToSet(queue))
  BY <1>1, <1>2, FS_NatSurjection DEF ExistsSurjection
<1> QED
  BY <1>3, FS_Subset DEF Queued

LEMMA SendingFinite == IsFiniteSet(Sending)
BY BackendAssumption, FS_Subset DEF BackendAssumption, Sending

--------------------------------------------------------------------------------
(* What the writer does to the streams.                                    *)
LEMMA Joined ==
  ASSUME NEW S, NEW a \in Seq(S), NEW b \in Seq(S), NEW x \in S
  PROVE  /\ a \o b \in Seq(S) /\ <<x>> \in Seq(S) /\ <<>> \in Seq(S) /\ Append(b, x) \in Seq(S)
         /\ a \o <<>> = a
         /\ a \o <<x>> = Append(a, x)
<1>1. a \o <<>> = a /\ a \o <<x>> = Append(a, x)
  OBVIOUS
<1>2. a \o b \in Seq(S) /\ <<x>> \in Seq(S) /\ <<>> \in Seq(S) /\ Append(b, x) \in Seq(S)
  OBVIOUS
<1> QED
  BY <1>1, <1>2

LEMMA JoinedLast ==
  ASSUME NEW S, NEW a \in Seq(S), NEW b \in Seq(S), NEW x \in S
  PROVE  a \o Append(b, x) = Append(a \o b, x)
<1>1. a \o b \in Seq(S) /\ <<x>> \in Seq(S)
  BY Joined
<1>2. Append(b, x) = b \o <<x>> /\ Append(a \o b, x) = (a \o b) \o <<x>>
  BY <1>1, Joined
<1> QED
  BY <1>1, <1>2, ConcatAssociative

LEMMA StreamType ==
  ASSUME TypeOK, NEW t \in Targets PROVE Stream(t) \in Lines
<1>1. disk[t] \in Lines /\ buf \in Lines
  BY DEF TypeOK
<1>2. disk[t] \o buf \in Lines
  BY <1>1 DEF Lines
<1> QED
  BY <1>1, <1>2 DEF Stream

(* Lines once on a target stay there.                                      *)
Kept == \A t \in Targets : \A k \in DOMAIN disk[t] : k \in DOMAIN disk'[t] /\ disk'[t][k] = disk[t][k]

SinkTyped == sink' \in Targets /\ buf' \in Lines /\ disk' \in [Targets -> Lines]

LEMMA FlushStreams ==
  ASSUME TypeOK, FlushSink, sink' \in Targets
  PROVE  /\ SinkTyped /\ Kept /\ buf' = <<>>
         /\ \A t \in Targets : Stream(t)' = Stream(t) /\ disk'[t] = Stream(t)
<1>1. /\ sink \in Targets /\ disk \in [Targets -> Lines] /\ buf \in Lines /\ disk[sink] \in Lines
      /\ buf' = <<>> /\ disk' = [disk EXCEPT ![sink] = disk[sink] \o buf]
  BY DEF TypeOK, FlushSink
<1>2. disk[sink] \o buf \in Lines /\ <<>> \in Lines
  BY <1>1 DEF Lines
<1>3. \A t \in Targets : disk'[t] = Stream(t) /\ disk'[t] \in Lines
  BY <1>1, <1>2 DEF Stream
<1>4. \A t \in Targets : disk'[t] \o <<>> = disk'[t]
  BY <1>3 DEF Lines
<1>5. SinkTyped
  BY <1>1, <1>2 DEF SinkTyped
<1>6. Kept
  BY <1>1, <1>3 DEF Kept, Lines
<1> QED
  BY <1>1, <1>3, <1>4, <1>5, <1>6 DEF Stream

LEMMA WriteStreams ==
  ASSUME TypeOK, NEW line \in Line, WriteLine(line), UNCHANGED sink
  PROVE  /\ SinkTyped /\ Kept
         /\ Stream(sink)' = Append(Stream(sink), line)
         /\ \A t \in Targets : t # sink => Stream(t)' = Stream(t)
<1>0. sink \in Targets /\ disk \in [Targets -> Lines] /\ buf \in Lines /\ disk[sink] \in Lines
  BY DEF TypeOK
<1>1. /\ sink \in Targets /\ disk \in [Targets -> Lines] /\ buf \in Lines /\ disk[sink] \in Lines
      /\ <<line>> \in Lines /\ <<>> \in Lines /\ Append(buf, line) \in Lines
      /\ disk[sink] \o buf \in Lines /\ disk[sink] \o Append(buf, line) \in Lines
  BY <1>0, Joined DEF Lines
<1>2. /\ disk[sink] \o Append(buf, line) = Append(disk[sink] \o buf, line)
      /\ (disk[sink] \o buf) \o <<line>> = Append(disk[sink] \o buf, line)
      /\ (disk[sink] \o Append(buf, line)) \o <<>> = Append(disk[sink] \o buf, line)
  <2> DEFINE whole == disk[sink] \o buf
             last == disk[sink] \o Append(buf, line)
  <2>1. whole \in Lines /\ last \in Lines
    BY <1>1
  <2>2. last = Append(whole, line)
    BY <1>1, JoinedLast DEF Lines
  <2> HIDE DEF whole, last
  <2>3. whole \o <<line>> = Append(whole, line) /\ last \o <<>> = last
    BY <2>1, Joined DEF Lines
  <2> QED
    BY <2>2, <2>3 DEF whole, last
<1>3. CASE buf' = Append(buf, line) /\ UNCHANGED disk
  BY <1>1, <1>2, <1>3 DEF SinkTyped, Kept, Stream
<1>4. ASSUME NEW b \in Lines, disk[sink] \o b \in Lines,
             disk' = [disk EXCEPT ![sink] = disk[sink] \o b]
      PROVE  /\ disk' \in [Targets -> Lines] /\ Kept
             /\ disk'[sink] = disk[sink] \o b
             /\ \A t \in Targets : t # sink => disk'[t] = disk[t]
  <2>1. \A t \in Targets : disk'[t] = IF t = sink THEN disk[sink] \o b ELSE disk[t]
    BY <1>1, <1>4
  <2>2. Kept
    BY <1>1, <1>4, <2>1 DEF Kept, Lines
  <2> QED
    BY <1>1, <1>4, <2>1, <2>2
<1>5. CASE buf' = <<line>> /\ disk' = [disk EXCEPT ![sink] = disk[sink] \o buf]
  BY <1>1, <1>2, <1>4, <1>5 DEF SinkTyped, Stream
<1>6. CASE buf' = <<>> /\ disk' = [disk EXCEPT ![sink] = disk[sink] \o Append(buf, line)]
  BY <1>1, <1>2, <1>4, <1>6 DEF SinkTyped, Stream
<1> QED
  BY <1>3, <1>5, <1>6 DEF WriteLine

--------------------------------------------------------------------------------
(* The steps, by what they do to the queue.                                *)

(* Neither the queue nor what went through it is touched.                  *)
Aside ==
  /\ UNCHANGED <<queue, accepted, want, sink>> /\ SinkTyped /\ Kept
  /\ \A t \in Targets : Stream(t)' = Stream(t)

(* A message joins it.                                                     *)
Put(m) ==
  /\ m \in Messages /\ Room /\ queue' = Append(queue, m) /\ UNCHANGED <<sink, buf, disk, before>>
  /\ \/ /\ m.kind = "entry" /\ m.n = accepted + 1 /\ m.want = want
        /\ accepted' = accepted + 1 /\ UNCHANGED <<want, flush>>
     \/ /\ m.kind = "update" /\ want' = (IF m.sink = Keep THEN want ELSE m.sink)
        /\ UNCHANGED <<accepted, flush>>
     \/ /\ m.kind = "flush" /\ flush[m.who] = "send" /\ flush' = [flush EXCEPT ![m.who] = "wait"]
        /\ UNCHANGED <<accepted, want>>

(* The writer takes the first.                                             *)
Take(m) ==
  /\ queue # <<>> /\ m = Head(queue) /\ queue' = Tail(queue)
  /\ UNCHANGED <<accepted, want, before>> /\ SinkTyped /\ Kept
  /\ \/ /\ m.kind = "entry" /\ UNCHANGED <<sink, flush>>
        /\ Stream(sink)' = Append(Stream(sink), [n |-> m.n, want |-> m.want])
        /\ \A t \in Targets : t # sink => Stream(t)' = Stream(t)
     \/ /\ m.kind = "update" /\ UNCHANGED flush
        /\ sink' = (IF m.sink = Keep THEN sink ELSE m.sink)
        /\ \A t \in Targets : Stream(t)' = Stream(t)
     \/ /\ m.kind = "flush" /\ flush' = [flush EXCEPT ![m.who] = "acked"] /\ UNCHANGED sink
        /\ \A t \in Targets : Stream(t)' = Stream(t) /\ disk'[t] = Stream(t)

LEMMA StreamsUntouched ==
  ASSUME TypeOK, UNCHANGED <<sink, buf, disk>>
  PROVE  SinkTyped /\ Kept /\ \A t \in Targets : Stream(t)' = Stream(t)
BY DEF TypeOK, SinkTyped, Kept, Stream

LEMMA HandleCases ==
  ASSUME TypeOK, Handle
  PROVE  Take(Head(queue))
<1> DEFINE m == Head(queue)
<1>1. /\ queue # <<>> /\ queue' = Tail(queue) /\ UNCHANGED <<accepted, want, before>>
      /\ \/ m.kind = "entry" /\ WriteEntry(m)
         \/ m.kind = "update" /\ Apply(m)
         \/ m.kind = "flush" /\ Acknowledge(m)
  BY DEF Handle, updateVars
<1>2. m \in Messages /\ sink \in Targets
  BY <1>1, TailPositions DEF TypeOK
<1> HIDE DEF m
<1>3. CASE m.kind = "entry" /\ WriteEntry(m)
  <2>1. [n |-> m.n, want |-> m.want] \in Line
    BY <1>2, <1>3, MessageKinds DEF Line
  <2> QED
    BY <1>1, <1>3, <2>1, WriteStreams DEF WriteEntry, Take, m
<1>4. CASE m.kind = "update" /\ Apply(m)
  <2>1. m.sink \in Targets \cup {Keep}
    BY <1>2, <1>4, MessageKinds
  <2>2. CASE m.sink = Keep
    BY <1>1, <1>4, <2>2, StreamsUntouched DEF Apply, Take, m
  <2>3. CASE m.sink # Keep
    <3>1. FlushSink /\ sink' = m.sink /\ sink' \in Targets
      BY <1>4, <2>1, <2>3 DEF Apply, Switch, FlushSink
    <3> QED
      BY <1>1, <1>4, <2>3, <3>1, FlushStreams DEF Apply, Take, m
  <2> QED
    BY <2>2, <2>3
<1>5. CASE m.kind = "flush" /\ Acknowledge(m)
  BY <1>1, <1>2, <1>5, FlushStreams DEF Acknowledge, Take, m
<1> QED
  BY <1>1, <1>3, <1>4, <1>5

LEMMA TrySendPuts ==
  ASSUME TypeOK, NEW t \in Loggers, TrySend(t)
  PROVE  Put(Entry(t)) /\ Entry(t).kind = "entry" /\ Entry(t).dropped = claim[t]
<1>1. claim[t] \in Nat /\ accepted + 1 \in Nat /\ want \in Targets
  BY DEF TypeOK, TrySend
<1> QED
  BY <1>1 DEF TrySend, Put, Entry, Messages, updateVars, flushVars, writerVars

LEMMA SendPuts ==
  ASSUME TypeOK, NEW u \in Updaters, Send(u)
  PROVE  Put([kind |-> "update", sink |-> config[u].target])
<1>1. config[u].target \in Targets \cup {Keep}
  BY DEF TypeOK, Configs
<1> QED
  BY <1>1 DEF Send, Put, Messages, flushVars, writerVars

LEMMA SendFlushPuts ==
  ASSUME TypeOK, NEW f \in Flushers, SendFlush(f)
  PROVE  Put([kind |-> "flush", who |-> f])
BY DEF SendFlush, Put, Messages, updateVars, writerVars

(* Every step is one of these, and the ends of flush() are Aside.          *)
Flushing == \E f \in Flushers : Flush(f) \/ FlushReturns(f)

LEMMA NextCases ==
  ASSUME TypeOK, [Next]_vars
  PROVE  \/ Aside /\ (Flushing \/ UNCHANGED <<flush, before>>)
         \/ \E m \in Messages : Put(m)
         \/ Take(Head(queue))
<1> USE DEF frontendVars, updateVars, flushVars, writerVars
<1>1. ASSUME UNCHANGED <<queue, accepted, want, sink, buf, disk>> PROVE Aside
  BY <1>1, StreamsUntouched DEF Aside
<1>2. ASSUME NEW t \in Loggers, Claim(t) \/ Refused(t)
      PROVE  Aside /\ UNCHANGED <<flush, before>>
  BY <1>1, <1>2 DEF Claim, Refused
<1>3. ASSUME NEW u \in Updaters,
             \/ SetFollows(u) \/ CoupleCrash(u) \/ LoadFollows(u) \/ Remember(u) \/ PointCrash(u)
             \/ \E c \in Configs : Update(u, c) \/ OpenFails(u, c)
      PROVE  Aside /\ UNCHANGED <<flush, before>>
  BY <1>1, <1>3 DEF SetFollows, CoupleCrash, LoadFollows, Remember, PointCrash, Update, OpenFails
<1>4. CASE Flushing
  BY <1>1, <1>4 DEF Flushing, Flush, FlushReturns
<1>5. CASE Idle
  <2>1. FlushSink /\ sink' \in Targets
    BY <1>5 DEF Idle, TypeOK
  <2> QED
    BY <1>5, <2>1, FlushStreams DEF Idle, Aside
<1>6. CASE Handle
  BY <1>6, HandleCases
<1>7. ASSUME NEW t \in Loggers, TrySend(t) PROVE \E m \in Messages : Put(m)
  BY <1>7, TrySendPuts DEF Put
<1>8. ASSUME NEW u \in Updaters, Send(u) PROVE \E m \in Messages : Put(m)
  BY <1>8, SendPuts DEF Put
<1>9. ASSUME NEW f \in Flushers, SendFlush(f) PROVE \E m \in Messages : Put(m)
  BY <1>9, SendFlushPuts DEF Put
<1>10. CASE UNCHANGED vars
  BY <1>1, <1>10 DEF vars
<1> QED
  BY <1>2, <1>3, <1>4, <1>5, <1>6, <1>7, <1>8, <1>9, <1>10 DEF Next, Log, Split, Flushing

--------------------------------------------------------------------------------
(* The counts of refused records.                                          *)
Claimed == SumFunctionOnSet(claim, Sending)
Riding(S) == SumFunction([m \in S |-> m.dropped])

LEMMA RidingOnSet == ASSUME NEW S PROVE Riding(S) = SumFunctionOnSet([m \in S |-> m.dropped], S)
BY DEF Riding, SumFunction, SumFunctionOnSet, FoldFunction

LEMMA RidingNat ==
  ASSUME NEW S, IsFiniteSet(S), \A m \in S : m.dropped \in Nat
  PROVE  Riding(S) \in Nat
<1> DEFINE f == [m \in S |-> m.dropped]
<1>1. \A m \in S : f[m] \in Nat
  OBVIOUS
<1> HIDE DEF f
<1>2. SumFunctionOnSet(f, S) \in Nat
  BY <1>1, SumNat
<1> QED
  BY <1>2, RidingOnSet DEF f

LEMMA RidingAdd ==
  ASSUME NEW S, IsFiniteSet(S), NEW x, x \notin S, \A m \in S \cup {x} : m.dropped \in Nat
  PROVE  Riding(S \cup {x}) = Riding(S) + x.dropped
<1> DEFINE f == [m \in S \cup {x} |-> m.dropped]
           h == [m \in S |-> m.dropped]
<1>1. \A m \in S \cup {x} : f[m] \in Nat
  OBVIOUS
<1>2. f[x] = x.dropped /\ \A m \in S : f[m] \in Nat /\ h[m] = f[m]
  OBVIOUS
<1>3. Riding(S \cup {x}) = SumFunctionOnSet(f, S \cup {x}) /\ Riding(S) = SumFunctionOnSet(h, S)
  BY RidingOnSet
<1> HIDE DEF f, h
<1>4. SumFunctionOnSet(f, S \cup {x}) = SumFunctionOnSet(f, S) + f[x]
  BY <1>1, SumAdd
<1>5. SumFunctionOnSet(h, S) = SumFunctionOnSet(f, S)
  BY <1>2, SumSame
<1> QED
  BY <1>2, <1>3, <1>4, <1>5

LEMMA ClaimedNat == ASSUME TypeOK PROVE Claimed \in Nat
<1>1. \A t \in Sending : claim[t] \in Nat
  BY DEF TypeOK, Sending
<1> QED
  BY <1>1, SendingFinite, SumNat DEF Claimed

LEMMA ClaimStarts ==
  ASSUME TypeOK, NEW t \in Loggers, claim[t] = -1, NEW v \in Nat,
         claim' = [claim EXCEPT ![t] = v]
  PROVE  Claimed' = Claimed + v
<1>1. \A x \in Sending : claim[x] \in Nat /\ claim'[x] = claim[x]
  BY DEF TypeOK, Sending
<1>2. claim'[t] = v /\ t \notin Sending /\ Sending' = Sending \cup {t}
  BY DEF TypeOK, Sending
<1>3. SumFunctionOnSet(claim', Sending) = Claimed
  BY <1>1, SendingFinite, SumSame DEF Claimed
<1>4. SumFunctionOnSet(claim', Sending \cup {t}) = SumFunctionOnSet(claim', Sending) + v
  <2>1. \A y \in Sending \cup {t} : claim'[y] \in Nat
    BY <1>1, <1>2
  <2>2. t \notin Sending /\ claim'[t] = v
    BY <1>2
  <2>3. SumFunctionOnSet(claim', Sending \cup {t}) = SumFunctionOnSet(claim', Sending) + claim'[t]
    <3> DEFINE f == claim'
               S == Sending
    <3>1. IsFiniteSet(S) /\ t \notin S /\ \A y \in S \cup {t} : f[y] \in Nat
      BY <2>1, <2>2, SendingFinite
    <3> HIDE DEF f, S
    <3>2. SumFunctionOnSet(f, S \cup {t}) = SumFunctionOnSet(f, S) + f[t]
      BY <3>1, SumAdd
    <3> QED
      BY <3>2 DEF f, S
  <2> QED
    BY <2>2, <2>3
<1>5. Claimed' = SumFunctionOnSet(claim', Sending \cup {t})
  BY <1>2 DEF Claimed
<1> QED
  BY <1>3, <1>4, <1>5

LEMMA ClaimEnds ==
  ASSUME TypeOK, NEW t \in Loggers, claim[t] # -1, claim' = [claim EXCEPT ![t] = -1]
  PROVE  claim[t] \in Nat /\ Claimed = Claimed' + claim[t] /\ Claimed' \in Nat
<1> DEFINE R == Sending \ {t}
<1>1. \A x \in Sending : claim[x] \in Nat
  BY DEF TypeOK, Sending
<1>2. t \in Sending /\ t \notin R /\ Sending = R \cup {t} /\ Sending' = R /\ claim[t] \in Nat
  BY <1>1 DEF TypeOK, Sending
<1>3. \A x \in R : claim[x] \in Nat /\ claim'[x] = claim[x]
  BY <1>1 DEF TypeOK, Sending
<1>4. IsFiniteSet(R)
  BY SendingFinite, FS_RemoveElement
<1> HIDE DEF R
<1>5. Claimed' = SumFunctionOnSet(claim, R)
  BY <1>2, <1>3, <1>4, SumSame DEF Claimed
<1>6. SumFunctionOnSet(claim, R \cup {t}) = SumFunctionOnSet(claim, R) + claim[t]
  <2>1. \A y \in R \cup {t} : claim[y] \in Nat
    BY <1>2, <1>3
  <2> QED
    BY <1>2, <1>4, <2>1, SumAdd
<1>7. SumFunctionOnSet(claim, R) \in Nat
  BY <1>3, <1>4, SumNat
<1> QED
  BY <1>2, <1>5, <1>6, <1>7 DEF Claimed

LEMMA QueuedType ==
  ASSUME TypeOK PROVE IsFiniteSet(Queued) /\ \A m \in Queued : m.dropped \in Nat /\ m \in Messages
<1>1. \A m \in ToSet(queue) : m \in Messages
  BY DEF TypeOK, ToSet
<1> QED
  BY <1>1, QueuedFinite, MessageKinds DEF TypeOK, Queued

LEMMA PutQueued ==
  ASSUME TypeOK, OrderInv, NEW m, Put(m)
  PROVE  IF m.kind = "entry" THEN m \notin Queued /\ Queued' = Queued \cup {m}
         ELSE Queued' = Queued
<1>1. queue \in Seq(Messages) /\ m \in Messages /\ queue' = Append(queue, m) /\ accepted \in Nat
  BY DEF TypeOK, Put
<1>2. ToSet(queue') = ToSet(queue) \cup {m}
  BY <1>1, AppendPositions DEF ToSet
<1>3. CASE m.kind = "entry"
  <2>1. m.n = accepted + 1
    BY <1>3 DEF Put
  <2>2. \A e \in Queued : e.n <= accepted /\ e.n \in Nat
    <3> TAKE e \in Queued
    <3>1. PICK i \in DOMAIN queue : e = queue[i] /\ IsEntry(i)
      BY DEF Queued, ToSet, IsEntry
    <3> QED
      BY <1>1, <3>1, MessageKinds DEF OrderInv, IsEntry
  <2>3. m \notin Queued
    BY <1>1, <2>1, <2>2
  <2> QED
    BY <1>2, <1>3, <2>3 DEF Queued
<1>4. CASE m.kind # "entry"
  BY <1>2, <1>4 DEF Queued
<1> QED
  BY <1>3, <1>4

LEMMA TakeQueued ==
  ASSUME TypeOK, OrderInv, NEW m, Take(m)
  PROVE  IF m.kind = "entry" THEN m \notin Queued' /\ Queued = Queued' \cup {m}
         ELSE Queued' = Queued
<1>1. /\ queue \in Seq(Messages) /\ queue # <<>> /\ m = queue[1] /\ m \in Messages
      /\ queue' \in Seq(Messages) /\ Len(queue) > 0 /\ Len(queue') = Len(queue) - 1
      /\ \A i \in 1 .. Len(queue) - 1 : queue'[i] = queue[i + 1]
  BY TailPositions DEF TypeOK, Take
<1>2. Len(queue) \in Nat /\ DOMAIN queue = 1 .. Len(queue) /\ DOMAIN queue' = 1 .. Len(queue) - 1
  BY <1>1
<1>3. \A e : e \in ToSet(queue') <=> \E i \in 2 .. Len(queue) : e = queue[i]
  <2>1. \A i \in 2 .. Len(queue) : i - 1 \in 1 .. Len(queue) - 1 /\ queue'[i - 1] = queue[i]
    BY <1>1, <1>2
  <2>2. \A i \in 1 .. Len(queue) - 1 : i + 1 \in 2 .. Len(queue) /\ queue'[i] = queue[i + 1]
    BY <1>1, <1>2
  <2> QED
    BY <1>2, <2>1, <2>2 DEF ToSet
<1>4. \A e : e \in ToSet(queue) <=> e = m \/ e \in ToSet(queue')
  <2>1. \A e : e \in ToSet(queue) <=> \E i \in 1 .. Len(queue) : e = queue[i]
    BY <1>2 DEF ToSet
  <2>2. \A i : i \in 1 .. Len(queue) <=> i = 1 \/ i \in 2 .. Len(queue)
    BY <1>1, <1>2
  <2> QED
    BY <1>1, <1>3, <2>1, <2>2
<1>5. CASE m.kind = "entry"
  <2>1. m \notin Queued'
    <3> SUFFICES ASSUME m \in Queued' PROVE FALSE
      OBVIOUS
    <3>1. PICK i \in 2 .. Len(queue) : m = queue[i]
      BY <1>3 DEF Queued
    <3>2. IsEntry(1) /\ IsEntry(i) /\ 1 < i
      BY <1>1, <1>2, <1>5, <3>1 DEF IsEntry
    <3>3. queue[1].n < queue[i].n /\ m.n \in Nat
      BY <1>1, <1>2, <1>5, <3>2, MessageKinds DEF OrderInv, IsEntry
    <3> QED
      BY <1>1, <3>1, <3>3
  <2> QED
    BY <1>4, <1>5, <2>1 DEF Queued
<1>6. CASE m.kind # "entry"
  BY <1>4, <1>6 DEF Queued
<1> QED
  BY <1>5, <1>6

(* A step leaves the counts alone, adds a refused record to one, or moves  *)
(* a count from one to another.                                            *)
LEMMA DropStep ==
  TypeOK /\ OrderInv /\ DropsAccounted /\ [Next]_vars => DropsAccounted' /\ owed' \in Nat
<1> SUFFICES ASSUME TypeOK, OrderInv, DropsAccounted, [Next]_vars
             PROVE  DropsAccounted' /\ owed' \in Nat
  OBVIOUS
<1> DEFINE Balanced == owed' = DROPPED' + Claimed' + Riding(Queued')
<1>1. /\ owed = DROPPED + Claimed + Riding(Queued)
      /\ owed \in Nat /\ DROPPED \in Nat /\ Claimed \in Nat /\ Riding(Queued) \in Nat
  BY ClaimedNat, QueuedType, RidingNat DEF TypeOK, DropsAccounted, Claimed, Riding
<1>2. SUFFICES Balanced /\ owed' \in Nat
  BY DEF DropsAccounted, Claimed, Riding
<1> HIDE DEF Balanced
<1> USE DEF frontendVars, updateVars, flushVars, writerVars
<1>3. ASSUME UNCHANGED <<DROPPED, claim, owed>>, Riding(Queued') = Riding(Queued)
      PROVE  Balanced /\ owed' \in Nat
  BY <1>1, <1>3 DEF Balanced, Claimed, Sending
<1>4. UNCHANGED queue => Riding(Queued') = Riding(Queued)
  BY DEF Queued
<1>5. ASSUME NEW t \in Loggers, Claim(t) PROVE Balanced /\ owed' \in Nat
  <2>1. Claimed' = Claimed + DROPPED
    BY <1>1, <1>5, ClaimStarts DEF Claim
  <2>2. owed' = owed /\ DROPPED' = 0 /\ Riding(Queued') = Riding(Queued)
    BY <1>4, <1>5 DEF Claim
  <2> QED
    BY <1>1, <2>1, <2>2 DEF Balanced
<1>6. ASSUME NEW t \in Loggers, TrySend(t) PROVE Balanced /\ owed' \in Nat
  <2> DEFINE m == Entry(t)
  <2>1. Put(m) /\ m.kind = "entry" /\ m.dropped = claim[t]
    BY <1>6, TrySendPuts
  <2> HIDE DEF m
  <2>2. m \notin Queued /\ Queued' = Queued \cup {m}
    BY <2>1, PutQueued
  <2>3. claim[t] \in Nat /\ Claimed = Claimed' + claim[t] /\ Claimed' \in Nat
    BY <1>6, ClaimEnds DEF TrySend
  <2>4. Riding(Queued') = Riding(Queued) + claim[t]
    <3>1. \A x \in Queued \cup {m} : x.dropped \in Nat
      BY <2>1, <2>3, QueuedType
    <3> QED
      BY <2>1, <2>2, <3>1, QueuedType, RidingAdd
  <2>5. owed' = owed /\ DROPPED' = DROPPED
    BY <1>6 DEF TrySend
  <2> QED
    BY <1>1, <2>3, <2>4, <2>5 DEF Balanced
<1>7. ASSUME NEW t \in Loggers, Refused(t) PROVE Balanced /\ owed' \in Nat
  <2>1. claim[t] \in Nat /\ Claimed = Claimed' + claim[t] /\ Claimed' \in Nat
    BY <1>7, ClaimEnds DEF Refused
  <2>2. owed' = owed + 1 /\ DROPPED' = DROPPED + claim[t] + 1 /\ Riding(Queued') = Riding(Queued)
    BY <1>4, <1>7 DEF Refused
  <2> QED
    BY <1>1, <2>1, <2>2 DEF Balanced
<1>8. CASE \E u \in Updaters : Split(u) \/ \E c \in Configs : Update(u, c) \/ OpenFails(u, c)
  <2>1. ASSUME NEW u \in Updaters, Send(u) PROVE Balanced /\ owed' \in Nat
    <3>1. Queued' = Queued
      <4> DEFINE m == [kind |-> "update", sink |-> config[u].target]
      <4>1. Put(m) /\ m.kind # "entry"
        BY <2>1, SendPuts
      <4> HIDE DEF m
      <4> QED
        BY <4>1, PutQueued
    <3> QED
      BY <1>3, <2>1, <3>1 DEF Send
  <2> QED
    BY <1>3, <1>4, <1>8, <2>1
       DEF Split, SetFollows, CoupleCrash, LoadFollows, Remember, PointCrash, Update, OpenFails
<1>9. ASSUME NEW f \in Flushers, Flush(f) \/ SendFlush(f) \/ FlushReturns(f)
      PROVE  Balanced /\ owed' \in Nat
  <2>1. CASE SendFlush(f)
    <3>1. Queued' = Queued
      <4> DEFINE m == [kind |-> "flush", who |-> f]
      <4>1. Put(m) /\ m.kind # "entry"
        BY <2>1, SendFlushPuts
      <4> HIDE DEF m
      <4> QED
        BY <4>1, PutQueued
    <3> QED
      BY <1>3, <2>1, <3>1 DEF SendFlush
  <2> QED
    BY <1>3, <1>4, <1>9, <2>1 DEF Flush, FlushReturns
<1>10. CASE Handle
  <2> DEFINE m == Head(queue)
  <2>1. Take(m) /\ m \in Messages
    BY <1>10, HandleCases, TailPositions DEF Handle, TypeOK
  <2>2. /\ UNCHANGED <<DROPPED, claim>>
        /\ m.kind = "entry" => owed' = owed - m.dropped
        /\ m.kind # "entry" => owed' = owed
    BY <1>10 DEF Handle, WriteEntry, Apply, Acknowledge
  <2> HIDE DEF m
  <2>3. CASE m.kind = "entry"
    <3>1. m \notin Queued' /\ Queued = Queued' \cup {m} /\ m.dropped \in Nat
      BY <2>1, <2>3, TakeQueued, MessageKinds
    <3>2. IsFiniteSet(Queued')
      BY <3>1, QueuedType, FS_Subset
    <3>3. Riding(Queued') \in Nat /\ Riding(Queued) = Riding(Queued') + m.dropped
      <4>1. \A x \in Queued' \cup {m} : x.dropped \in Nat
        BY <3>1, QueuedType
      <4> QED
        BY <3>1, <3>2, <4>1, RidingAdd, RidingNat
    <3>4. Claimed' = Claimed
      BY <2>2 DEF Claimed, Sending
    <3> QED
      BY <1>1, <2>2, <2>3, <3>1, <3>3, <3>4 DEF Balanced
  <2>4. CASE m.kind # "entry"
    BY <1>3, <2>1, <2>2, <2>4, TakeQueued
  <2> QED
    BY <2>3, <2>4
<1>11. CASE Idle
  BY <1>3, <1>4, <1>11 DEF Idle
<1>12. CASE UNCHANGED vars
  BY <1>3, <1>4, <1>12 DEF vars
<1> QED
  BY <1>5, <1>6, <1>7, <1>8, <1>9, <1>10, <1>11, <1>12 DEF Next, Log

--------------------------------------------------------------------------------
(* Types.  That `owed` does not go below zero comes from DropsAccounted.   *)
LEMMA LineSteps ==
  ASSUME TypeOK, [Next]_vars
  PROVE  /\ queue' \in Seq(Messages) /\ Len(queue') <= QUEUE_DEPTH
         /\ SinkTyped /\ accepted' \in Nat /\ want' \in Targets
<1>1. /\ queue \in Seq(Messages) /\ Len(queue) <= QUEUE_DEPTH /\ Len(queue) \in Nat
      /\ QUEUE_DEPTH \in Nat /\ accepted \in Nat /\ want \in Targets
  BY BackendAssumption DEF BackendAssumption, TypeOK
<1>2. CASE Aside
  BY <1>1, <1>2 DEF Aside
<1>3. ASSUME NEW m \in Messages, Put(m)
      PROVE  /\ queue' \in Seq(Messages) /\ Len(queue') <= QUEUE_DEPTH
             /\ SinkTyped /\ accepted' \in Nat /\ want' \in Targets
  <2>1. queue' \in Seq(Messages) /\ Len(queue') <= QUEUE_DEPTH
    BY <1>1, <1>3, AppendPositions DEF Put, Room
  <2>2. SinkTyped
    BY <1>3, StreamsUntouched DEF Put
  <2> QED
    BY <1>1, <1>3, <2>1, <2>2, MessageKinds DEF Put
<1>4. CASE Take(Head(queue))
  BY <1>1, <1>4, TailPositions DEF Take
<1> QED
  BY <1>2, <1>3, <1>4, NextCases

(* Moving on in split, and leaving it.                                     *)
Places == {"idle", "flag", "couple", "load", "remember", "remember_point", "point", "send"}

ConfigTyped == at' \in [Updaters -> Places] /\ config' \in [Updaters -> Configs]

LEMMA ConfigType ==
  ASSUME TypeOK, NEW u \in Updaters
  PROVE  /\ at[u] \in Places /\ config[u] \in Configs /\ NoConfig \in Configs
         /\ config[u].target \in Targets \cup {Keep}
         /\ config[u].crash \in Targets \cup {Keep, SameAsLog}
BY DEF TypeOK, Places, Configs, NoConfig

LEMMA GotoType ==
  ASSUME TypeOK, NEW u \in Updaters, NEW place \in Places, Goto(u, place)
  PROVE  ConfigTyped
BY DEF TypeOK, Goto, ConfigTyped, Places

LEMMA LeaveType ==
  ASSUME TypeOK, NEW u \in Updaters, Leave(u)
  PROVE  ConfigTyped
BY ConfigType DEF TypeOK, Leave, ConfigTyped, Places

DescriptorsTyped ==
  /\ CRASH_FOLLOWS_LOG' \in BOOLEAN /\ LOG_FD' \in Targets
  /\ CRASH_FD' \in Targets /\ own' \in Targets /\ updates' \in Nat

LEMMA SplitType ==
  ASSUME TypeOK, AskedInv, NEW u \in Updaters,
         Split(u) \/ \E c \in Configs : Update(u, c) \/ OpenFails(u, c)
  PROVE  ConfigTyped /\ DescriptorsTyped
<1>0. /\ CRASH_FOLLOWS_LOG \in BOOLEAN /\ LOG_FD \in Targets
      /\ CRASH_FD \in Targets /\ own \in Targets /\ updates \in Nat
  BY DEF TypeOK
<1>1. ASSUME NEW c \in Configs, Update(u, c) PROVE ConfigTyped /\ DescriptorsTyped
  <2>1. ConfigTyped
    BY <1>1 DEF Update, TypeOK, ConfigTyped, Places
  <2> QED
    BY <1>0, <1>1, <2>1 DEF Update, DescriptorsTyped
<1>2. ASSUME NEW c \in Configs, OpenFails(u, c) PROVE ConfigTyped /\ DescriptorsTyped
  <2>1. ConfigTyped
    BY <1>2 DEF OpenFails, TypeOK, ConfigTyped, Places
  <2> QED
    BY <1>0, <1>2, <2>1 DEF OpenFails, DescriptorsTyped
<1>3. CASE SetFollows(u)
  <2>1. ConfigTyped
    BY <1>3, GotoType DEF SetFollows, Places
  <2>2. (config[u].crash = SameAsLog) \in BOOLEAN
    OBVIOUS
  <2>3. own' \in Targets
    BY <1>0, <1>3, ConfigType DEF SetFollows, AskedInv
  <2> QED
    BY <1>0, <1>3, <2>1, <2>2, <2>3 DEF SetFollows, DescriptorsTyped
<1>4. CASE CoupleCrash(u)
  <2>1. ConfigTyped
    BY <1>4, GotoType DEF CoupleCrash, Places
  <2>2. CRASH_FD' \in Targets
    BY <1>0, <1>4, ConfigType DEF CoupleCrash, CrashTarget, AskedInv
  <2> QED
    BY <1>0, <1>4, <2>1, <2>2 DEF CoupleCrash, DescriptorsTyped
<1>5. CASE LoadFollows(u)
  <2>1. \E place \in {"send", "remember_point", "remember"} : Goto(u, place)
    BY <1>5 DEF LoadFollows
  <2>2. ConfigTyped
    BY <2>1, GotoType DEF Places
  <2> QED
    BY <1>0, <1>5, <2>2 DEF LoadFollows, DescriptorsTyped
<1>6. CASE Remember(u)
  <2>1. Leave(u) \/ \E place \in {"point", "send"} : Goto(u, place)
    BY <1>6 DEF Remember
  <2>2. ConfigTyped
    BY <2>1, GotoType, LeaveType DEF Places
  <2>3. config[u].target \in Targets
    BY <1>6, ConfigType DEF Remember, AskedInv
  <2> QED
    BY <1>0, <1>6, <2>2, <2>3 DEF Remember, DescriptorsTyped
<1>7. CASE PointCrash(u)
  <2>1. ConfigTyped
    BY <1>7, GotoType DEF PointCrash, Places
  <2>2. config[u].target \in Targets
    BY <1>7, ConfigType DEF PointCrash, AskedInv
  <2> QED
    BY <1>0, <1>7, <2>1, <2>2 DEF PointCrash, DescriptorsTyped
<1>8. CASE Send(u)
  BY <1>0, <1>8, LeaveType DEF Send, DescriptorsTyped
<1> QED
  BY <1>1, <1>2, <1>3, <1>4, <1>5, <1>6, <1>7, <1>8 DEF Split

LEMMA AskedStep == TypeOK /\ AskedInv /\ [Next]_vars => AskedInv'
<1> SUFFICES ASSUME TypeOK, AskedInv, [Next]_vars PROVE AskedInv'
  OBVIOUS
<1> USE DEF AskedInv, updateVars, TypeOK
<1>1. UNCHANGED <<at, config>> => AskedInv'
  OBVIOUS
<1>2. ASSUME NEW u \in Updaters, NEW c \in Configs, Update(u, c) \/ OpenFails(u, c) PROVE AskedInv'
  BY <1>2 DEF Update, OpenFails
<1>3. ASSUME NEW u \in Updaters, Leave(u) PROVE AskedInv'
  BY <1>3 DEF Leave
<1>4. ASSUME NEW u \in Updaters, NEW place \in Places, Goto(u, place),
             place \in {"flag", "couple"} => config[u].crash # Keep,
             place \in {"remember", "remember_point", "point"} => config[u].target # Keep
      PROVE  AskedInv'
  BY <1>4 DEF Goto
<1>5. ASSUME NEW u \in Updaters, Split(u) PROVE AskedInv'
  <2>1. CASE SetFollows(u)
    BY <1>4, <2>1 DEF SetFollows, Places
  <2>2. CASE CoupleCrash(u)
    BY <1>4, <2>2 DEF CoupleCrash, Places
  <2>3. CASE LoadFollows(u)
    <3>1. CASE config[u].target = Keep
      <4>1. Goto(u, "send")
        BY <2>3, <3>1 DEF LoadFollows
      <4> QED
        BY <1>4, <4>1 DEF Places
    <3>2. CASE config[u].target # Keep
      <4>1. Goto(u, "remember_point") \/ Goto(u, "remember")
        BY <2>3, <3>2 DEF LoadFollows
      <4> QED
        BY <1>4, <3>2, <4>1 DEF Places
    <3> QED
      BY <3>1, <3>2
  <2>4. CASE Remember(u)
    <3>1. Leave(u) \/ \E place \in {"point", "send"} : Goto(u, place)
      BY <2>4 DEF Remember
    <3>2. config[u].target # Keep
      BY <2>4 DEF Remember
    <3> QED
      BY <1>3, <1>4, <3>1, <3>2 DEF Places
  <2>5. CASE PointCrash(u)
    BY <1>4, <2>5 DEF PointCrash, Places
  <2>6. CASE Send(u)
    BY <1>3, <2>6 DEF Send
  <2> QED
    BY <1>5, <2>1, <2>2, <2>3, <2>4, <2>5, <2>6 DEF Split
<1>6. CASE \E t \in Loggers : Log(t)
  BY <1>1, <1>6 DEF Log, Claim, TrySend, Refused
<1>7. CASE \E f \in Flushers : Flush(f) \/ SendFlush(f) \/ FlushReturns(f)
  BY <1>1, <1>7 DEF Flush, SendFlush, FlushReturns
<1>8. CASE Handle \/ Idle
  BY <1>1, <1>8 DEF Handle, Idle
<1>9. CASE UNCHANGED vars
  BY <1>1, <1>9 DEF vars
<1> QED
  BY <1>2, <1>5, <1>6, <1>7, <1>8, <1>9 DEF Next

LEMMA TypeStep == TypeOK /\ AskedInv /\ OrderInv /\ DropsAccounted /\ [Next]_vars => TypeOK'
<1> SUFFICES ASSUME TypeOK, AskedInv, OrderInv, DropsAccounted, [Next]_vars PROVE TypeOK'
  OBVIOUS
<1>1. owed' \in Nat
  BY DropStep
<1> DEFINE Counts == DROPPED' \in Nat /\ claim' \in [Loggers -> Nat \cup {-1}] /\ records' \in Nat
           Descriptors == DescriptorsTyped /\ ConfigTyped
           Flushes == /\ flush' \in [Flushers -> {"idle", "send", "wait", "acked"}]
                      /\ flushes' \in Nat /\ before' \in [Flushers -> Nat]
           Writers == writer' \in {"poll", "recv"}
<1>2. SUFFICES Counts /\ Descriptors /\ Flushes /\ Writers
  BY <1>1, LineSteps DEF TypeOK, SinkTyped, DescriptorsTyped, ConfigTyped, Places
<1>3. /\ UNCHANGED <<DROPPED, claim, records>> => Counts
      /\ UNCHANGED updateVars => Descriptors
      /\ UNCHANGED flushVars => Flushes
      /\ UNCHANGED writer => Writers
  BY DEF TypeOK, updateVars, flushVars, DescriptorsTyped, ConfigTyped, Places
<1> USE DEF frontendVars, writerVars
<1>4. ASSUME NEW t \in Loggers, Log(t) PROVE Counts /\ Descriptors /\ Flushes /\ Writers
  <2>1. UNCHANGED <<updateVars, flushVars, writer>>
    BY <1>4 DEF Log, Claim, TrySend, Refused
  <2>2. Counts
    <3>1. DROPPED \in Nat /\ claim \in [Loggers -> Nat \cup {-1}] /\ records \in Nat
          /\ claim[t] \in Nat \cup {-1}
      BY DEF TypeOK
    <3>2. CASE Claim(t)
      BY <3>1, <3>2 DEF Claim
    <3>3. CASE TrySend(t)
      BY <3>1, <3>3 DEF TrySend
    <3>4. CASE Refused(t)
      BY <3>1, <3>4 DEF Refused
    <3> QED
      BY <1>4, <3>2, <3>3, <3>4 DEF Log
  <2> QED
    BY <1>3, <2>1, <2>2
<1>5. ASSUME NEW u \in Updaters, Split(u) \/ \E c \in Configs : Update(u, c) \/ OpenFails(u, c)
      PROVE  Counts /\ Descriptors /\ Flushes /\ Writers
  <2>1. UNCHANGED <<DROPPED, claim, records, flushVars, writer>>
    BY <1>5 DEF Split, SetFollows, CoupleCrash, LoadFollows, Remember, PointCrash, Send, Update, OpenFails
  <2>2. Descriptors
    BY <1>5, SplitType
  <2> QED
    BY <1>3, <2>1, <2>2
<1>6. ASSUME NEW f \in Flushers, Flush(f) \/ SendFlush(f) \/ FlushReturns(f)
      PROVE  Counts /\ Descriptors /\ Flushes /\ Writers
  <2>1. UNCHANGED <<DROPPED, claim, records, updateVars, writer>>
    BY <1>6 DEF Flush, SendFlush, FlushReturns
  <2>2. /\ flush \in [Flushers -> {"idle", "send", "wait", "acked"}]
        /\ flushes \in Nat /\ before \in [Flushers -> Nat] /\ accepted \in Nat
    BY DEF TypeOK
  <2>3. Flushes
    BY <1>6, <2>2, SMTT(30) DEF Flush, SendFlush, FlushReturns
  <2> QED
    BY <1>3, <2>1, <2>3
<1>7. CASE Handle
  <2>1. UNCHANGED <<DROPPED, claim, records, updateVars>> /\ Writers
    BY <1>7 DEF Handle
  <2>2. Flushes
    BY <1>7 DEF Handle, WriteEntry, Apply, Acknowledge, TypeOK
  <2> QED
    BY <1>3, <2>1, <2>2
<1>8. CASE Idle
  BY <1>3, <1>8 DEF Idle
<1>9. CASE UNCHANGED vars
  BY <1>3, <1>9 DEF vars
<1> QED
  BY <1>4, <1>5, <1>6, <1>7, <1>8, <1>9 DEF Next

--------------------------------------------------------------------------------
(* The order of lines.                                                     *)
LEMMA PutPositions ==
  ASSUME TypeOK, NEW m, Put(m)
  PROVE  /\ Len(queue) \in Nat /\ DOMAIN queue = 1 .. Len(queue)
         /\ Len(queue') = Len(queue) + 1 /\ DOMAIN queue' = 1 .. Len(queue) + 1
         /\ \A i \in 1 .. Len(queue) : queue'[i] = queue[i] /\ queue[i] \in Messages
         /\ queue'[Len(queue) + 1] = m /\ m \in Messages
<1>1. queue \in Seq(Messages) /\ m \in Messages /\ queue' = Append(queue, m)
  BY DEF TypeOK, Put
<1> QED
  BY <1>1, AppendPositions

LEMMA TakePositions ==
  ASSUME TypeOK, NEW m, Take(m)
  PROVE  /\ Len(queue) \in Nat /\ Len(queue) > 0 /\ DOMAIN queue = 1 .. Len(queue)
         /\ Len(queue') = Len(queue) - 1 /\ DOMAIN queue' = 1 .. Len(queue) - 1
         /\ \A i \in 1 .. Len(queue) - 1 : queue'[i] = queue[i + 1]
         /\ \A i \in 1 .. Len(queue) : queue[i] \in Messages
         /\ m = queue[1] /\ m \in Messages
<1>1. queue \in Seq(Messages) /\ m = Head(queue) /\ queue # <<>> /\ queue' = Tail(queue)
  BY DEF TypeOK, Take
<1> QED
  BY <1>1, TailPositions

LEMMA StreamLines ==
  ASSUME TypeOK, NEW t \in Targets
  PROVE  /\ Stream(t) \in Seq(Line) /\ DOMAIN Stream(t) = 1 .. Len(Stream(t)) /\ Len(Stream(t)) \in Nat
         /\ \A k \in DOMAIN Stream(t) : Stream(t)[k] \in Line /\ Stream(t)[k].n \in Nat
<1>1. Stream(t) \in Seq(Line)
  BY StreamType DEF Lines
<1>2. \A k \in DOMAIN Stream(t) : Stream(t)[k] \in Line
  BY <1>1
<1> QED
  BY <1>1, <1>2 DEF Line

(* Past(n) after a step, for a place n read before it.                     *)
PastNext(n) == n <= accepted' /\ \A i \in DOMAIN queue' : IsEntry(i)' => n < queue'[i].n

LEMMA PutOrder ==
  ASSUME TypeOK, OrderInv, NEW m, Put(m)
  PROVE  OrderInv'
<1>1. \A t \in Targets : Stream(t)' = Stream(t)
  BY StreamsUntouched DEF Put
<1>2. accepted \in Nat /\ accepted' \in Nat /\ accepted <= accepted'
      /\ (m.kind = "entry" => m.n = accepted + 1 /\ accepted' = accepted + 1)
  BY DEF TypeOK, Put
<1>3. \A i \in DOMAIN queue : IsEntry(i) => queue[i].n \in Nat /\ queue[i].n <= accepted
  BY PutPositions, MessageKinds DEF OrderInv, IsEntry
<1>4. \A i \in DOMAIN queue' :
        IsEntry(i)' <=> IF i = Len(queue) + 1 THEN m.kind = "entry" ELSE IsEntry(i)
  BY PutPositions DEF IsEntry
<1>5. \A n \in Nat : Past(n) => Past(n)'
  <2> SUFFICES ASSUME NEW n \in Nat, Past(n), NEW i \in DOMAIN queue', IsEntry(i)'
               PROVE  n <= accepted' /\ n < queue'[i].n
    BY <1>2 DEF Past
  <2>1. n <= accepted /\ n <= accepted'
    BY <1>2 DEF Past
  <2>2. CASE i = Len(queue) + 1
    BY <1>2, <1>4, <2>1, <2>2, PutPositions
  <2>3. CASE i # Len(queue) + 1
    <3>1. i \in DOMAIN queue /\ IsEntry(i) /\ queue'[i] = queue[i]
      BY <1>4, <2>3, PutPositions
    <3> QED
      BY <2>1, <3>1 DEF Past
  <2> QED
    BY <2>2, <2>3
<1>6. \A i \in DOMAIN queue' : IsEntry(i)' => queue'[i].n <= accepted'
  <2> SUFFICES ASSUME NEW i \in DOMAIN queue', IsEntry(i)' PROVE queue'[i].n <= accepted'
    OBVIOUS
  <2>1. CASE i = Len(queue) + 1
    BY <1>2, <1>4, <2>1, PutPositions
  <2>2. CASE i # Len(queue) + 1
    <3>1. i \in DOMAIN queue /\ IsEntry(i) /\ queue'[i] = queue[i]
      BY <1>4, <2>2, PutPositions
    <3> QED
      BY <1>2, <1>3, <3>1
  <2> QED
    BY <2>1, <2>2
<1>7. \A i, j \in DOMAIN queue' : IsEntry(i)' /\ IsEntry(j)' /\ i < j => queue'[i].n < queue'[j].n
  <2> SUFFICES ASSUME NEW i \in DOMAIN queue', NEW j \in DOMAIN queue',
                      IsEntry(i)', IsEntry(j)', i < j
               PROVE  queue'[i].n < queue'[j].n
    OBVIOUS
  <2>1. i \in DOMAIN queue /\ IsEntry(i) /\ queue'[i] = queue[i] /\ queue[i].n \in Nat /\ queue[i].n <= accepted
    BY <1>3, <1>4, PutPositions
  <2>2. CASE j = Len(queue) + 1
    BY <1>2, <1>4, <2>1, <2>2, PutPositions
  <2>3. CASE j # Len(queue) + 1
    <3>1. j \in DOMAIN queue /\ IsEntry(j) /\ queue'[j] = queue[j]
      BY <1>4, <2>3, PutPositions
    <3> QED
      BY <2>1, <3>1 DEF OrderInv
  <2> QED
    BY <2>2, <2>3
<1> QED
  BY <1>1, <1>5, <1>6, <1>7, StreamLines DEF OrderInv

LEMMA TakeOrder ==
  ASSUME TypeOK, OrderInv, NEW m, Take(m)
  PROVE  OrderInv'
<1>1. \A i \in DOMAIN queue' : /\ i \in Nat /\ i + 1 \in DOMAIN queue /\ 1 < i + 1
                               /\ queue'[i] = queue[i + 1] /\ (IsEntry(i)' <=> IsEntry(i + 1))
  BY TakePositions DEF IsEntry
<1>2. accepted' = accepted
  BY DEF Take
<1>3. \A n \in Nat : Past(n) => PastNext(n)
  BY <1>1, <1>2 DEF Past, PastNext
<1>4. \A i \in DOMAIN queue' : IsEntry(i)' => queue'[i].n <= accepted'
  BY <1>1, <1>2 DEF OrderInv
<1>5. \A i, j \in DOMAIN queue' : IsEntry(i)' /\ IsEntry(j)' /\ i < j => queue'[i].n < queue'[j].n
  <2> SUFFICES ASSUME NEW i \in DOMAIN queue', NEW j \in DOMAIN queue',
                      IsEntry(i)', IsEntry(j)', i < j
               PROVE  queue'[i].n < queue'[j].n
    OBVIOUS
  <2>1. i + 1 < j + 1
    BY <1>1
  <2> QED
    BY <1>1, <2>1 DEF OrderInv
<1>6. ASSUME NEW t \in Targets, Stream(t)' = Stream(t)
      PROVE  Sorted(Stream(t)') /\ \A k \in DOMAIN Stream(t)' : \E n \in Nat : Stream(t)'[k].n = n /\ PastNext(n)
  BY <1>3, <1>6, StreamLines DEF OrderInv
<1>7. CASE m.kind = "entry"
  <2> DEFINE s == Stream(sink)
             line == [n |-> m.n, want |-> m.want]
  <2>1. sink \in Targets /\ sink' = sink /\ Stream(sink)' = Append(s, line)
    BY <1>7 DEF Take, TypeOK
  <2>2. /\ s \in Seq(Line) /\ Len(s) \in Nat /\ DOMAIN s = 1 .. Len(s)
        /\ \A k \in DOMAIN s : s[k].n \in Nat /\ Past(s[k].n)
        /\ Sorted(s)
    BY <2>1, StreamLines DEF OrderInv
  <2>3. m.n \in Nat /\ IsEntry(1) /\ m = queue[1] /\ line.n = m.n /\ line \in Line
    BY <1>7, TakePositions, MessageKinds DEF IsEntry, Line
  <2>4. \A k \in DOMAIN s : s[k].n < line.n
    BY <2>2, <2>3 DEF Past, IsEntry
  <2>5. PastNext(line.n)
    <3>1. m.n <= accepted /\ \A i \in DOMAIN queue' : IsEntry(i + 1) => m.n < queue[i + 1].n
      BY <1>1, <2>3 DEF OrderInv, IsEntry
    <3> QED
      BY <1>1, <1>2, <2>3, <3>1 DEF PastNext
  <2> HIDE DEF s, line
  <2>6. /\ DOMAIN Append(s, line) = 1 .. Len(s) + 1
        /\ \A k \in 1 .. Len(s) : Append(s, line)[k] = s[k]
        /\ Append(s, line)[Len(s) + 1] = line
    BY <2>2, <2>3
  <2>7. Sorted(Append(s, line))
    BY <2>2, <2>4, <2>6 DEF Sorted
  <2>8. \A k \in DOMAIN Append(s, line) : \E n \in Nat : Append(s, line)[k].n = n /\ PastNext(n)
    <3> SUFFICES ASSUME NEW k \in DOMAIN Append(s, line)
                 PROVE  \E n \in Nat : Append(s, line)[k].n = n /\ PastNext(n)
      OBVIOUS
    <3>1. CASE k = Len(s) + 1
      BY <2>3, <2>5, <2>6, <3>1
    <3>2. CASE k # Len(s) + 1
      BY <1>3, <2>2, <2>6, <3>2
    <3> QED
      BY <3>1, <3>2
  <2>9. Stream(sink)' = Append(s, line) /\ sink' = sink
        /\ \A t \in Targets : t # sink => Stream(t)' = Stream(t)
    BY <1>7, <2>1 DEF Take
  <2>10. \A t \in Targets : /\ Sorted(Stream(t)')
                            /\ \A k \in DOMAIN Stream(t)' : \E n \in Nat : Stream(t)'[k].n = n /\ PastNext(n)
    <3> TAKE t \in Targets
    <3>1. CASE t = sink
      <4>1. Stream(t)' = Append(s, line)
        BY <2>9, <3>1
      <4> QED
        BY <2>7, <2>8, <4>1
    <3>2. CASE t # sink
      BY <1>6, <2>9, <3>2
    <3> QED
      BY <3>1, <3>2
  <2> QED
    BY <1>4, <1>5, <2>10 DEF OrderInv, Sorted, Past, PastNext
<1>8. CASE m.kind # "entry"
  <2>1. \A t \in Targets : Stream(t)' = Stream(t)
    BY <1>8 DEF Take
  <2> QED
    BY <1>4, <1>5, <1>6, <2>1 DEF OrderInv, Sorted, Past, PastNext
<1> QED
  BY <1>7, <1>8

LEMMA OrderStep == TypeOK /\ OrderInv /\ [Next]_vars => OrderInv'
<1> SUFFICES ASSUME TypeOK, OrderInv, [Next]_vars PROVE OrderInv'
  OBVIOUS
<1>1. CASE Aside
  BY <1>1 DEF Aside, OrderInv, Past, IsEntry, Sorted
<1> QED
  BY <1>1, NextCases, PutOrder, TakeOrder

--------------------------------------------------------------------------------
(* The target in force.                                                    *)
LEMMA AppendForce ==
  ASSUME NEW q \in Seq(Messages), NEW m \in Messages, NEW w, NEW t, NEW r, r = Append(q, m)
  PROVE  /\ \A i \in 1 .. Len(q) + 1 : InForce(q, w, i, t) => InForce(r, w, i, t)
         /\ InForce(q, w, Len(q) + 1, t) /\ ~Change(m) => InForce(r, w, Len(q) + 2, t)
         /\ Change(m) /\ t = m.sink => InForce(r, w, Len(q) + 2, t)
<1>1. /\ Len(q) \in Nat /\ r[Len(q) + 1] = m
      /\ \A j \in 1 .. Len(q) : r[j] = q[j]
  BY AppendPositions
<1> HIDE DEF Change
<1>2. ASSUME NEW i \in 1 .. Len(q) + 1, InForce(q, w, i, t) PROVE InForce(r, w, i, t)
  <2>1. \A j \in 1 .. i - 1 : r[j] = q[j]
    BY <1>1
  <2>2. \A k \in 1 .. i - 1 : \A j \in k + 1 .. i - 1 : j \in 1 .. i - 1
    BY <1>1
  <2> QED
    BY <1>2, <2>1, <2>2 DEF InForce
<1> DEFINE n == Len(q)
<1>3. /\ (n + 2) - 1 = n + 1 /\ (n + 1) - 1 = n
      /\ \A j : j \in 1 .. n + 1 <=> j = n + 1 \/ j \in 1 .. n
      /\ \A k \in 1 .. n : \A j : j \in k + 1 .. n + 1 <=> j = n + 1 \/ j \in k + 1 .. n
      /\ \A k \in 1 .. n : \A j \in k + 1 .. n : j \in 1 .. n
      /\ (n + 1) + 1 .. n + 1 = {} /\ n + 1 \in 1 .. n + 1
  BY <1>1
<1>4. ASSUME InForce(q, w, n + 1, t), ~Change(m) PROVE InForce(r, w, n + 2, t)
  <2>1. CASE t = w /\ \A j \in 1 .. n : ~Change(q[j])
    <3>1. \A j \in 1 .. n + 1 : ~Change(r[j])
      BY <1>1, <1>3, <1>4, <2>1
    <3> QED
      BY <1>3, <2>1, <3>1 DEF InForce
  <2>2. ASSUME NEW k \in 1 .. n, Change(q[k]), q[k].sink = t, \A j \in k + 1 .. n : ~Change(q[j])
        PROVE  InForce(r, w, n + 2, t)
    <3>1. k \in 1 .. n + 1 /\ Change(r[k]) /\ r[k].sink = t
      BY <1>1, <1>3, <2>2
    <3>2. \A j \in k + 1 .. n + 1 : ~Change(r[j])
      BY <1>1, <1>3, <1>4, <2>2
    <3> QED
      BY <1>3, <3>1, <3>2 DEF InForce
  <2> QED
    BY <1>3, <1>4, <2>1, <2>2 DEF InForce
<1>5. ASSUME Change(m), t = m.sink PROVE InForce(r, w, n + 2, t)
  BY <1>1, <1>3, <1>5 DEF InForce
<1> QED
  BY <1>2, <1>4, <1>5

LEMMA TailForce ==
  ASSUME NEW q \in Seq(Messages), q # <<>>, NEW r, r = Tail(q), NEW t, NEW w, NEW v,
         Change(q[1]) => v = q[1].sink, ~Change(q[1]) => v = w
  PROVE  /\ \A i \in 1 .. Len(q) : InForce(q, w, i + 1, t) => InForce(r, v, i, t)
         /\ InForce(q, w, 1, t) => t = w
<1>1. Len(q) \in Nat /\ \A j \in 1 .. Len(q) - 1 : r[j] = q[j + 1]
  BY TailPositions
<1> HIDE DEF Change
<1>2. ASSUME NEW i \in 1 .. Len(q), InForce(q, w, i + 1, t) PROVE InForce(r, v, i, t)
  <2>0. /\ (i + 1) - 1 = i /\ 1 \in 1 .. i
        /\ \A j \in 1 .. i - 1 : r[j] = q[j + 1] /\ j + 1 \in 1 .. i /\ j + 1 \in 2 .. i
        /\ \A j \in 2 .. i : j - 1 \in 1 .. i - 1 /\ (j - 1) + 1 = j
        /\ \A j : j \in 1 .. i <=> j = 1 \/ j \in 2 .. i
    BY <1>1
  <2>1. CASE t = w /\ \A j \in 1 .. i : ~Change(q[j])
    BY <2>0, <2>1 DEF InForce
  <2>2. ASSUME NEW k \in 1 .. i, Change(q[k]), q[k].sink = t, \A j \in k + 1 .. i : ~Change(q[j])
        PROVE  InForce(r, v, i, t)
    <3>1. CASE k = 1
      <4>1. v = t /\ \A j \in 1 .. i - 1 : ~Change(r[j])
        BY <2>0, <2>2, <3>1
      <4> QED
        BY <4>1 DEF InForce
    <3>2. CASE k # 1
      <4>1. k - 1 \in 1 .. i - 1 /\ r[k - 1] = q[k]
        BY <2>0, <3>2
      <4>2. \A j \in (k - 1) + 1 .. i - 1 : ~Change(r[j])
        <5> TAKE j \in (k - 1) + 1 .. i - 1
        <5>1. j \in 1 .. i - 1 /\ j + 1 \in k + 1 .. i
          BY <2>0
        <5> QED
          BY <2>0, <2>2, <5>1
      <4> QED
        BY <2>2, <4>1, <4>2 DEF InForce
    <3> QED
      BY <3>1, <3>2
  <2> QED
    BY <1>2, <2>0, <2>1, <2>2 DEF InForce
<1>3. ASSUME InForce(q, w, 1, t) PROVE t = w
  BY <1>3 DEF InForce
<1> QED
  BY <1>2, <1>3

(* The streams a step leaves hold the lines of before and the record taken *)
(* from the queue, if one was.                                             *)
LEMMA TakeStreams ==
  ASSUME TypeOK, NEW m, Take(m), NEW t \in Targets, NEW k \in DOMAIN Stream(t)'
  PROVE  \/ k \in DOMAIN Stream(t) /\ Stream(t)'[k] = Stream(t)[k]
         \/ /\ m.kind = "entry" /\ t = sink
            /\ Stream(t)'[k] = [n |-> m.n, want |-> m.want]
<1>1. CASE Stream(t)' = Stream(t)
  BY <1>1
<1>2. CASE m.kind = "entry" /\ t = sink
  <2> DEFINE line == [n |-> m.n, want |-> m.want]
             s == Stream(t)
  <2>1. Stream(t)' = Append(s, line)
    BY <1>2 DEF Take
  <2>2. s \in Seq(Line) /\ line \in Line
    BY <1>2, StreamLines, TakePositions, MessageKinds DEF Line
  <2> HIDE DEF line, s
  <2>3. k \in DOMAIN Append(s, line)
    BY <2>1
  <2>4. \/ k \in DOMAIN s /\ Append(s, line)[k] = s[k]
        \/ Append(s, line)[k] = line
    BY <2>2, <2>3
  <2> QED
    BY <1>2, <2>1, <2>4 DEF line, s
<1> QED
  BY <1>1, <1>2 DEF Take

LEMMA TargetStep == TypeOK /\ TargetInv /\ [Next]_vars => TargetInv'
<1> SUFFICES ASSUME TypeOK, TargetInv, [Next]_vars PROVE TargetInv'
  OBVIOUS
<1> DEFINE n == Len(queue)
<1>0. /\ queue \in Seq(Messages) /\ n \in Nat /\ DOMAIN queue = 1 .. n
      /\ InForce(queue, sink, n + 1, want)
      /\ \A i \in 1 .. n : IsEntry(i) => InForce(queue, sink, i, queue[i].want)
      /\ \A t \in Targets : \A k \in DOMAIN Stream(t) : Stream(t)[k].want = t
  BY DEF TypeOK, TargetInv
<1>1. CASE Aside
  BY <1>1 DEF Aside, TargetInv, IsEntry
<1>2. ASSUME NEW m \in Messages, Put(m) PROVE TargetInv'
  <2>1. \A t \in Targets : Stream(t)' = Stream(t)
    BY <1>2, StreamsUntouched DEF Put
  <2>2. queue' = Append(queue, m) /\ sink' = sink /\ Len(queue') + 1 = n + 2
    BY <1>0, <1>2, AppendPositions DEF Put
  <2>3. InForce(queue', sink', Len(queue') + 1, want')
    <3>1. CASE Change(m)
      <4>1. want' = m.sink
        BY <1>2, <3>1 DEF Put, Change
      <4> QED
        BY <1>0, <2>2, <3>1, <4>1, AppendForce
    <3>2. CASE ~Change(m)
      <4>1. want' = want
        BY <1>2, <3>2 DEF Put, Change
      <4> QED
        BY <1>0, <2>2, <3>2, <4>1, AppendForce
    <3> QED
      BY <3>1, <3>2
  <2>4. \A i \in DOMAIN queue' : IsEntry(i)' => InForce(queue', sink', i, queue'[i].want)
    <3> SUFFICES ASSUME NEW i \in DOMAIN queue', IsEntry(i)'
                 PROVE  InForce(queue', sink', i, queue'[i].want)
      OBVIOUS
    <3>1. i \in 1 .. n + 1 /\ InForce(queue, sink, i, queue'[i].want)
      <4>1. CASE i = n + 1
        BY <1>0, <1>2, <4>1, PutPositions DEF Put, IsEntry
      <4>2. CASE i # n + 1
        BY <1>0, <1>2, <4>2, PutPositions DEF IsEntry
      <4> QED
        BY <4>1, <4>2
    <3> QED
      BY <1>0, <2>2, <3>1, AppendForce
  <2> QED
    BY <1>0, <2>1, <2>3, <2>4 DEF TargetInv
<1>3. ASSUME NEW m, Take(m) PROVE TargetInv'
  <2>1. /\ queue # <<>> /\ queue' = Tail(queue) /\ m = queue[1] /\ n > 0
        /\ Len(queue') + 1 = n /\ want' = want
        /\ Change(queue[1]) => sink' = queue[1].sink
        /\ ~Change(queue[1]) => sink' = sink
    <3>1. /\ m = queue[1] /\ m \in Messages /\ n \in Nat /\ n > 0 /\ Len(queue') = n - 1
      BY <1>3, TakePositions
    <3>2. Len(queue') + 1 = n
      BY <3>1
    <3> QED
      BY <1>3, <3>1, <3>2 DEF Take, Change
  <2>0. /\ \A t : \A i \in 1 .. n : InForce(queue, sink, i + 1, t) => InForce(queue', sink', i, t)
        /\ \A t : InForce(queue, sink, 1, t) => t = sink
    <3>1. queue \in Seq(Messages)
      BY <1>0
    <3> QED
      BY <2>1, <3>1, TailForce
  <2>2. InForce(queue', sink', n, want)
    <3>1. n \in 1 .. n /\ InForce(queue, sink, n + 1, want)
      BY <1>0, <2>1
    <3> QED
      BY <2>0, <3>1
  <2>3. \A i \in DOMAIN queue' : IsEntry(i)' => InForce(queue', sink', i, queue'[i].want)
    <3> SUFFICES ASSUME NEW i \in DOMAIN queue', IsEntry(i)'
                 PROVE  InForce(queue', sink', i, queue'[i].want)
      OBVIOUS
    <3>1. i \in 1 .. Len(queue) /\ i + 1 \in 1 .. n /\ queue'[i] = queue[i + 1]
      BY <1>3, TakePositions
    <3>2. InForce(queue, sink, i + 1, queue[i + 1].want)
      BY <1>0, <3>1 DEF IsEntry
    <3>3. InForce(queue, sink, i + 1, queue'[i].want)
      BY <3>1, <3>2
    <3> QED
      BY <2>0, <3>1, <3>3
  <2>4. ASSUME NEW t \in Targets, NEW k \in DOMAIN Stream(t)' PROVE Stream(t)'[k].want = t
    <3>1. m.kind = "entry" => m.want = sink
      <4>1. m.kind = "entry" => InForce(queue, sink, 1, m.want)
        BY <1>0, <2>1 DEF IsEntry
      <4> QED
        BY <2>0, <4>1
    <3> QED
      BY <1>0, <1>3, <3>1, TakeStreams
  <2> QED
    BY <2>1, <2>2, <2>3, <2>4 DEF TargetInv
<1> QED
  BY <1>1, <1>2, <1>3, NextCases

--------------------------------------------------------------------------------
(* What a flush waits for.                                                 *)
LEMMA TakeKeeps ==
  ASSUME TypeOK, NEW m, Take(m)
  PROVE  /\ \A t \in Targets : \A k \in DOMAIN Stream(t) :
              k \in DOMAIN Stream(t)' /\ Stream(t)'[k] = Stream(t)[k]
         /\ m.kind = "entry" =>
              \E t \in Targets : \E k \in DOMAIN Stream(t)' : Stream(t)'[k].n = m.n
<1>1. CASE m.kind # "entry"
  BY <1>1 DEF Take
<1>2. CASE m.kind = "entry"
  <2> DEFINE line == [n |-> m.n, want |-> m.want]
             s == Stream(sink)
  <2>1. Stream(sink)' = Append(s, line) /\ sink' = sink /\ sink \in Targets
        /\ \A t \in Targets : t # sink => Stream(t)' = Stream(t)
    BY <1>2 DEF Take, TypeOK
  <2>2. s \in Seq(Line) /\ line \in Line /\ line.n = m.n
    BY <1>2, <2>1, StreamLines, TakePositions, MessageKinds DEF Line
  <2>3. /\ \A k \in DOMAIN s : k \in DOMAIN Stream(sink)' /\ Stream(sink)'[k] = s[k]
        /\ \E k \in DOMAIN Stream(sink)' : Stream(sink)'[k].n = m.n
    <3> DEFINE r == Append(s, line)
    <3> HIDE DEF s, line
    <3>1. /\ \A k \in DOMAIN s : k \in DOMAIN r /\ r[k] = s[k]
          /\ Len(s) + 1 \in DOMAIN r /\ r[Len(s) + 1] = line
      BY <2>2
    <3> QED
      BY <2>1, <2>2, <3>1
  <2> QED
    BY <2>1, <2>3
<1> QED
  BY <1>1, <1>2

LEMMA CoverStep == TypeOK /\ CoverInv /\ [Next]_vars => CoverInv'
<1> SUFFICES ASSUME TypeOK, CoverInv, [Next]_vars PROVE CoverInv'
  OBVIOUS
<1>1. CASE Aside
  BY <1>1 DEF Aside, CoverInv, Arrived, Waiting, IsEntry
<1>2. ASSUME NEW m \in Messages, Put(m) PROVE CoverInv'
  <2>1. \A t \in Targets : Stream(t)' = Stream(t)
    BY <1>2, StreamsUntouched DEF Put
  <2>2. \A n \in 1 .. accepted : Arrived(n)' \/ Waiting(n)'
    <3> SUFFICES ASSUME NEW n \in 1 .. accepted, Waiting(n) PROVE Waiting(n)'
      BY <2>1 DEF CoverInv, Arrived
    <3> PICK i \in DOMAIN queue : IsEntry(i) /\ queue[i].n = n
      BY DEF Waiting
    <3>1. i \in DOMAIN queue' /\ queue'[i] = queue[i]
      BY <1>2, PutPositions
    <3> QED
      BY <3>1 DEF Waiting, IsEntry
  <2>3. CASE m.kind = "entry"
    <3>1. accepted' = accepted + 1 /\ m.n = accepted + 1 /\ accepted \in Nat
      BY <1>2, <2>3 DEF Put, TypeOK
    <3>2. \E i \in DOMAIN queue' : IsEntry(i)' /\ queue'[i].n = accepted + 1
      <4>1. Len(queue) + 1 \in DOMAIN queue' /\ queue'[Len(queue) + 1] = m
        BY <1>2, PutPositions
      <4> QED
        BY <2>3, <3>1, <4>1 DEF IsEntry
    <3>3. \A n \in 1 .. accepted' : n \in 1 .. accepted \/ n = accepted + 1
      BY <3>1
    <3> QED
      BY <2>2, <3>2, <3>3 DEF CoverInv, Waiting
  <2>4. CASE m.kind # "entry"
    BY <1>2, <2>2, <2>4 DEF Put, CoverInv
  <2> QED
    BY <2>3, <2>4
<1>3. ASSUME NEW m, Take(m) PROVE CoverInv'
  <2>1. accepted' = accepted
    BY <1>3 DEF Take
  <2>2. ASSUME NEW n \in 1 .. accepted, Arrived(n) PROVE Arrived(n)'
    BY <1>3, <2>2, TakeKeeps DEF Arrived
  <2>3. ASSUME NEW n \in 1 .. accepted, NEW i \in DOMAIN queue, IsEntry(i), queue[i].n = n
        PROVE  Arrived(n)' \/ Waiting(n)'
    <3>1. CASE i = 1
      <4>1. m.kind = "entry" /\ m.n = n
        BY <1>3, <2>3, <3>1, TakePositions DEF IsEntry
      <4> QED
        BY <1>3, <4>1, TakeKeeps DEF Arrived
    <3>2. CASE i # 1
      <4>0. Len(queue) \in Nat /\ i \in 1 .. Len(queue) /\ DOMAIN queue' = 1 .. Len(queue) - 1
        BY <1>3, TakePositions
      <4>1. i - 1 \in 1 .. Len(queue) - 1 /\ (i - 1) + 1 = i
        BY <3>2, <4>0
      <4>2. i - 1 \in DOMAIN queue' /\ queue'[i - 1] = queue[i]
        BY <1>3, <4>0, <4>1, TakePositions
      <4> QED
        BY <2>3, <4>2 DEF Waiting, IsEntry
    <3> QED
      BY <3>1, <3>2
  <2> QED
    BY <2>1, <2>2, <2>3 DEF CoverInv, Waiting
<1> QED
  BY <1>1, <1>2, <1>3, NextCases

LEMMA OnDiskIs ==
  \A n : n \in OnDisk <=> \E t \in Targets : \E k \in DOMAIN disk[t] : disk[t][k].n = n
BY DEF OnDisk, ToSet

LEMMA OnDiskKept == ASSUME Kept PROVE OnDisk \subseteq OnDisk'
<1>1. \A n : n \in OnDisk' <=> \E t \in Targets : \E k \in DOMAIN disk'[t] : disk'[t][k].n = n
  BY DEF OnDisk, ToSet
<1> QED
  BY <1>1, OnDiskIs DEF Kept

LEMMA FlushStep ==
  TypeOK /\ OrderInv /\ CoverInv /\ FlushInv /\ [Next]_vars => FlushInv'
<1> SUFFICES ASSUME TypeOK, OrderInv, CoverInv, FlushInv, [Next]_vars PROVE FlushInv'
  OBVIOUS
<1>0. /\ flush \in [Flushers -> {"idle", "send", "wait", "acked"}] /\ before \in [Flushers -> Nat]
      /\ accepted \in Nat /\ queue \in Seq(Messages) /\ DOMAIN queue = 1 .. Len(queue)
      /\ Len(queue) \in Nat
      /\ \A i \in DOMAIN queue : queue[i] \in Messages
  BY DEF TypeOK
<1>1. \A i \in DOMAIN queue : IsFlush(i) => queue[i].who \in Flushers
  BY <1>0, MessageKinds DEF IsFlush
<1>2. \A i \in DOMAIN queue : IsEntry(i) => queue[i].n \in Nat /\ queue[i].n <= accepted
  BY <1>0, MessageKinds DEF OrderInv, IsEntry
<1>3. CASE Aside /\ UNCHANGED <<flush, before>>
  <2>1. OnDisk \subseteq OnDisk' /\ UNCHANGED <<queue, accepted, flush, before>>
    BY <1>3, OnDiskKept DEF Aside
  <2>2. FlushBarrier'
    BY <2>1 DEF FlushInv, FlushBarrier
  <2> QED
    BY <2>1, <2>2 DEF FlushInv, IsFlush, IsEntry
<1>4. ASSUME NEW f \in Flushers, Flush(f), Aside PROVE FlushInv'
  <2>1. OnDisk \subseteq OnDisk' /\ UNCHANGED <<queue, accepted>>
    BY <1>4, OnDiskKept DEF Aside
  <2>2. flush[f] = "idle" /\ flush' = [flush EXCEPT ![f] = "send"] /\ before' = [before EXCEPT ![f] = accepted]
    BY <1>4 DEF Flush
  <2>3. \A g \in Flushers : /\ g # f => flush'[g] = flush[g] /\ before'[g] = before[g]
                            /\ g = f => flush'[g] = "send" /\ before'[g] = accepted
    BY <1>0, <2>2
  <2>4. FlushBarrier'
    BY <2>1, <2>3 DEF FlushInv, FlushBarrier
  <2>5. \A g \in Flushers : before'[g] <= accepted
    BY <1>0, <2>3 DEF FlushInv
  <2>6. \A i \in DOMAIN queue : IsFlush(i) => queue[i].who \in Flushers \ {f}
    BY <1>1, <2>2 DEF FlushInv
  <2> QED
    BY <2>1, <2>3, <2>4, <2>5, <2>6 DEF FlushInv, IsFlush, IsEntry
<1>5. ASSUME NEW f \in Flushers, FlushReturns(f), Aside PROVE FlushInv'
  <2>1. OnDisk \subseteq OnDisk' /\ UNCHANGED <<queue, accepted>>
    BY <1>5, OnDiskKept DEF Aside
  <2>2. flush[f] = "acked" /\ flush' = [flush EXCEPT ![f] = "idle"] /\ before' = [before EXCEPT ![f] = 0]
    BY <1>5 DEF FlushReturns
  <2>3. \A g \in Flushers : /\ g # f => flush'[g] = flush[g] /\ before'[g] = before[g]
                            /\ g = f => flush'[g] = "idle" /\ before'[g] = 0
    BY <1>0, <2>2
  <2>4. FlushBarrier'
    BY <2>1, <2>3 DEF FlushInv, FlushBarrier
  <2>5. \A g \in Flushers : before'[g] <= accepted
    BY <1>0, <2>3 DEF FlushInv
  <2>6. \A i \in DOMAIN queue : IsFlush(i) => queue[i].who \in Flushers \ {f}
    BY <1>1, <2>2 DEF FlushInv
  <2> QED
    BY <2>1, <2>3, <2>4, <2>5, <2>6 DEF FlushInv, IsFlush, IsEntry
<1>6. ASSUME NEW m \in Messages, Put(m) PROVE FlushInv'
  <2> DEFINE last == Len(queue) + 1
  <2>1. /\ UNCHANGED <<disk, before>> /\ accepted <= accepted'
        /\ m.kind = "entry" => m.n = accepted + 1 /\ UNCHANGED flush
        /\ m.kind = "update" => UNCHANGED flush
        /\ m.kind = "flush" => /\ m.who \in Flushers /\ flush[m.who] = "send"
                               /\ flush' = [flush EXCEPT ![m.who] = "wait"]
    BY <1>0, <1>6, MessageKinds DEF Put
  <2>2. \A i \in DOMAIN queue' :
          /\ i = last => /\ queue'[i] = m /\ (IsFlush(i)' <=> m.kind = "flush")
                         /\ (IsEntry(i)' <=> m.kind = "entry")
          /\ i # last => /\ i \in DOMAIN queue /\ queue'[i] = queue[i] /\ i < last
                         /\ (IsFlush(i)' <=> IsFlush(i)) /\ (IsEntry(i)' <=> IsEntry(i))
    BY <1>6, PutPositions DEF IsFlush, IsEntry
  <2>3. FlushBarrier'
    <3>1. OnDisk' = OnDisk
      BY <2>1 DEF OnDisk
    <3>2. \A f \in Flushers : flush'[f] = "acked" => flush[f] = "acked"
      BY <1>0, <2>1, <1>6, MessageKinds
    <3> QED
      BY <2>1, <3>1, <3>2 DEF FlushInv, FlushBarrier
  <2>4. \A f \in Flushers : before'[f] <= accepted' /\ before[f] <= accepted /\ before[f] \in Nat
    <3>1. accepted' \in Nat
      BY <1>0, <1>6 DEF Put
    <3> QED
      BY <1>0, <2>1, <3>1 DEF FlushInv
  <2>5. ASSUME NEW i \in DOMAIN queue', IsFlush(i)'
        PROVE  /\ flush'[queue'[i].who] = "wait"
               /\ \A j \in DOMAIN queue' : IsFlush(j)' /\ queue'[j].who = queue'[i].who => j = i
               /\ \A j \in DOMAIN queue' : IsEntry(j)' /\ i < j => before'[queue'[i].who] < queue'[j].n
    <3>0. Len(queue) \in Nat /\ \A j \in DOMAIN queue' : j \in 1 .. last
      BY <1>6, PutPositions
    <3>1. CASE i = last
      <4>1. m.kind = "flush" /\ queue'[i] = m
        BY <2>2, <2>5, <3>1
      <4>2. flush'[m.who] = "wait"
        BY <1>0, <2>1, <4>1
      <4>3. \A j \in DOMAIN queue' : IsFlush(j)' /\ queue'[j].who = m.who => j = i
        BY <2>1, <2>2, <3>1, <4>1 DEF FlushInv
      <4>4. \A j \in DOMAIN queue' : ~(i < j)
        BY <3>0, <3>1
      <4> QED
        BY <4>1, <4>2, <4>3, <4>4
    <3>2. CASE i # last
      <4>1. i \in DOMAIN queue /\ queue'[i] = queue[i] /\ IsFlush(i) /\ queue[i].who \in Flushers
        BY <1>1, <2>2, <2>5, <3>2
      <4>2. flush[queue[i].who] = "wait"
        BY <4>1 DEF FlushInv
      <4>3. flush'[queue[i].who] = "wait" /\ (m.kind = "flush" => m.who # queue[i].who)
        BY <1>0, <1>6, <2>1, <4>1, <4>2, MessageKinds
      <4>4. \A j \in DOMAIN queue' : IsFlush(j)' /\ queue'[j].who = queue[i].who => j = i
        BY <2>2, <4>1, <4>3 DEF FlushInv
      <4>5. \A j \in DOMAIN queue' : IsEntry(j)' /\ i < j => before[queue[i].who] < queue'[j].n
        <5> SUFFICES ASSUME NEW j \in DOMAIN queue', IsEntry(j)', i < j
                     PROVE  before[queue[i].who] < queue'[j].n
          OBVIOUS
        <5>1. CASE j = last
          BY <1>0, <2>1, <2>2, <2>4, <4>1, <5>1
        <5>2. CASE j # last
          BY <2>2, <4>1, <5>2 DEF FlushInv
        <5> QED
          BY <5>1, <5>2
      <4> QED
        BY <2>1, <4>1, <4>3, <4>4, <4>5
    <3> QED
      BY <3>1, <3>2
  <2> QED
    BY <2>3, <2>4, <2>5 DEF FlushInv
<1>7. ASSUME NEW m, Take(m) PROVE FlushInv'
  <2>1. /\ UNCHANGED <<accepted, before>> /\ OnDisk \subseteq OnDisk'
        /\ m = queue[1] /\ m \in Messages /\ 1 \in DOMAIN queue
    BY <1>7, TakePositions, OnDiskKept DEF Take
  <2>2. \A i \in DOMAIN queue' : /\ i \in Nat /\ i + 1 \in DOMAIN queue /\ queue'[i] = queue[i + 1]
                                 /\ 1 < i + 1
                                 /\ (IsFlush(i)' <=> IsFlush(i + 1)) /\ (IsEntry(i)' <=> IsEntry(i + 1))
    BY <1>7, TakePositions DEF IsFlush, IsEntry
  <2>3. \A f \in Flushers : before'[f] <= accepted'
    BY <2>1 DEF FlushInv
  <2>4. /\ m.kind # "flush" => UNCHANGED flush
        /\ m.kind = "flush" => /\ IsFlush(1) /\ m.who \in Flushers
                               /\ flush' = [flush EXCEPT ![m.who] = "acked"]
                               /\ \A t \in Targets : disk'[t] = Stream(t)
    BY <1>7, <2>1, MessageKinds DEF Take, IsFlush
  <2>5. FlushBarrier'
    <3> SUFFICES ASSUME NEW f \in Flushers, flush'[f] = "acked", NEW n \in 1 .. before[f]
                 PROVE  n \in OnDisk'
      BY <2>1 DEF FlushBarrier
    <3>1. CASE flush[f] = "acked"
      BY <2>1, <3>1 DEF FlushInv, FlushBarrier
    <3>2. CASE flush[f] # "acked"
      <4>1. m.kind = "flush" /\ m.who = f
        BY <1>0, <2>4, <3>2
      <4>2. n \in 1 .. accepted
        BY <1>0 DEF FlushInv
      <4>3. ~Waiting(n)
        <5> SUFFICES ASSUME NEW i \in DOMAIN queue, IsEntry(i), queue[i].n = n PROVE FALSE
          BY DEF Waiting
        <5>1. i # 1 /\ i \in 1 .. Len(queue)
          BY <1>0, <2>1, <4>1 DEF IsEntry
        <5>2. 1 < i
          BY <1>0, <5>1
        <5>3. before[f] < queue[i].n
          BY <2>1, <2>4, <4>1, <5>2 DEF FlushInv
        <5> QED
          BY <1>0, <5>3
      <4>4. Arrived(n)
        BY <4>2, <4>3 DEF CoverInv
      <4>5. \E t \in Targets : \E k \in DOMAIN disk'[t] : disk'[t][k].n = n
        BY <2>4, <4>1, <4>4 DEF Arrived
      <4> QED
        BY <4>5 DEF OnDisk, ToSet
    <3> QED
      BY <3>1, <3>2
  <2>6. ASSUME NEW i \in DOMAIN queue', IsFlush(i)'
        PROVE  /\ flush'[queue'[i].who] = "wait"
               /\ \A j \in DOMAIN queue' : IsFlush(j)' /\ queue'[j].who = queue'[i].who => j = i
               /\ \A j \in DOMAIN queue' : IsEntry(j)' /\ i < j => before'[queue'[i].who] < queue'[j].n
    <3>1. /\ i + 1 \in DOMAIN queue /\ queue'[i] = queue[i + 1] /\ IsFlush(i + 1)
          /\ queue[i + 1].who \in Flushers /\ 1 # i + 1
      BY <1>1, <2>2, <2>6
    <3>2. flush[queue[i + 1].who] = "wait" /\ (m.kind = "flush" => m.who # queue[i + 1].who)
      BY <2>1, <2>4, <3>1 DEF FlushInv
    <3>3. flush'[queue[i + 1].who] = "wait"
      BY <1>0, <2>4, <3>1, <3>2
    <3>4. \A j \in DOMAIN queue' : IsFlush(j)' /\ queue'[j].who = queue'[i].who => j = i
      <4> SUFFICES ASSUME NEW j \in DOMAIN queue', IsFlush(j)', queue'[j].who = queue'[i].who
                   PROVE  j = i
        OBVIOUS
      <4>1. j + 1 = i + 1 /\ i \in Nat /\ j \in Nat
        BY <2>2, <3>1 DEF FlushInv
      <4> QED
        BY <4>1
    <3>5. \A j \in DOMAIN queue' : IsEntry(j)' /\ i < j => before[queue[i + 1].who] < queue'[j].n
      <4> SUFFICES ASSUME NEW j \in DOMAIN queue', IsEntry(j)', i < j
                   PROVE  before[queue[i + 1].who] < queue'[j].n
        OBVIOUS
      <4>1. i + 1 < j + 1
        BY <2>2
      <4> QED
        BY <2>2, <3>1, <4>1 DEF FlushInv
    <3> QED
      BY <2>1, <3>1, <3>3, <3>4, <3>5
  <2> QED
    BY <2>3, <2>5, <2>6 DEF FlushInv
<1> QED
  BY <1>3, <1>4, <1>5, <1>6, <1>7, NextCases DEF Flushing

--------------------------------------------------------------------------------
(* Every state of the backend.                                             *)
IInv == /\ TypeOK /\ AskedInv /\ DropsAccounted
        /\ OrderInv /\ TargetInv /\ CoverInv /\ FlushInv

LEMMA InitHolds == Init => IInv
<1> SUFFICES ASSUME Init PROVE IInv
  OBVIOUS
<1>1. /\ queue = <<>> /\ accepted = 0 /\ owed = 0 /\ DROPPED = 0 /\ buf = <<>>
      /\ sink \in Targets /\ want = sink
      /\ claim = [t \in Loggers |-> -1] /\ disk = [t \in Targets |-> <<>>]
      /\ at = [u \in Updaters |-> "idle"] /\ flush = [f \in Flushers |-> "idle"]
      /\ before = [f \in Flushers |-> 0]
  BY DEF Init
<1>2. TypeOK
  <2>1. /\ DROPPED \in Nat /\ claim \in [Loggers -> Nat \cup {-1}]
        /\ sink \in Targets /\ LOG_FD \in Targets /\ CRASH_FD \in Targets
        /\ want \in Targets /\ own \in Targets /\ CRASH_FOLLOWS_LOG \in BOOLEAN
        /\ records \in Nat /\ updates \in Nat /\ flushes \in Nat /\ accepted \in Nat /\ owed \in Nat
    BY DEF Init
  <2>2. queue \in Seq(Messages) /\ Len(queue) <= QUEUE_DEPTH
    BY <1>1, BackendAssumption DEF BackendAssumption
  <2>3. buf \in Lines /\ disk \in [Targets -> Lines] /\ writer \in {"poll", "recv"}
    BY <1>1 DEF Init, Lines
  <2>4. NoConfig \in Configs
    BY DEF NoConfig, Configs
  <2>5. /\ flush \in [Flushers -> {"idle", "send", "wait", "acked"}] /\ before \in [Flushers -> Nat]
        /\ at \in [Updaters -> {"idle", "flag", "couple", "load", "remember",
                                "remember_point", "point", "send"}]
    BY <1>1
  <2>6. config \in [Updaters -> Configs]
    BY <2>4 DEF Init
  <2> QED
    BY <2>1, <2>2, <2>3, <2>5, <2>6 DEF TypeOK
<1>3. AskedInv /\ CoverInv
  BY <1>1 DEF AskedInv, CoverInv
<1>4. DropsAccounted
  <2>1. Sending = {} /\ Queued = {}
    BY <1>1 DEF Sending, Queued, ToSet
  <2>2. SumFunctionOnSet(claim, Sending) = 0
    BY <2>1, SumEmpty
  <2>3. SumFunction([m \in Queued |-> m.dropped]) = 0
    BY <2>1, RidingOnSet, SumEmpty DEF Riding
  <2> QED
    BY <1>1, <2>2, <2>3 DEF DropsAccounted
<1>5. \A t \in Targets : Stream(t) = <<>>
  BY <1>1 DEF Stream
<1>6. OrderInv
  BY <1>1, <1>5 DEF OrderInv, Sorted
<1>7. TargetInv
  BY <1>1, <1>5 DEF TargetInv, InForce
<1>8. FlushInv
  BY <1>1 DEF FlushInv, FlushBarrier, IsFlush
<1> QED
  BY <1>2, <1>3, <1>4, <1>6, <1>7, <1>8 DEF IInv

LEMMA Invariance == Spec => []IInv
<1>1. IInv /\ [Next]_vars => IInv'
  BY TypeStep, AskedStep, DropStep, OrderStep, TargetStep, CoverStep, FlushStep DEF IInv
<1> QED
  BY InitHolds, <1>1, PTL DEF Spec

(* The variables keep their types; no counter is decremented below zero.   *)
THEOREM TypeCorrect == Spec => []TypeOK
<1>1. IInv => TypeOK
  BY DEF IInv
<1> QED
  BY Invariance, <1>1, PTL

(* Frontend::log: whatever the races of swap(0) and fetch_add on DROPPED,  *)
(* each refused record no notice told of is in exactly one count.          *)
THEOREM EveryDropIsCounted == Spec => []DropsAccounted
<1>1. IInv => DropsAccounted
  BY DEF IInv
<1> QED
  BY Invariance, <1>1, PTL

(* flush(): when it is acknowledged, all that was logged before it began   *)
(* has reached a target.                                                   *)
THEOREM FlushIsABarrier == Spec => []FlushBarrier
<1>1. IInv => FlushBarrier
  BY DEF IInv, FlushInv
<1> QED
  BY Invariance, <1>1, PTL

(* Switches of target: each line on a target was queued while that target  *)
(* was in force, and a target's lines are in the order of the queue.       *)
THEOREM LinesGoWhereAsked == Spec => []RightTarget
<1>1. ASSUME IInv PROVE RightTarget
  <2> SUFFICES ASSUME NEW t \in Targets
               PROVE  /\ \A i \in DOMAIN disk[t] : disk[t][i].want = t
                      /\ \A i, j \in DOMAIN disk[t] : i < j => disk[t][i].n < disk[t][j].n
    BY DEF RightTarget
  <2>1. \A k \in DOMAIN disk[t] : k \in DOMAIN Stream(t) /\ Stream(t)[k] = disk[t][k]
    <3>1. disk[t] \in Seq(Line) /\ buf \in Seq(Line)
      BY <1>1 DEF IInv, TypeOK, Lines
    <3> QED
      BY <3>1 DEF Stream
  <2>2. Sorted(Stream(t)) /\ \A k \in DOMAIN Stream(t) : Stream(t)[k].want = t
    BY <1>1 DEF IInv, OrderInv, TargetInv
  <2> QED
    BY <2>1, <2>2 DEF Sorted
<1> QED
  BY Invariance, <1>1, PTL

--------------------------------------------------------------------------------
(* The descriptors, while no two updates overlap.                          *)
UpdatesApart == \A u, v \in Updaters : at[u] # "idle" /\ at[v] # "idle" => u = v

LEMMA DescriptorStep ==
  TypeOK /\ AskedInv /\ DescriptorInv /\ UpdatesApart /\ UpdatesApart' /\ [Next]_vars => DescriptorInv'
<1> SUFFICES ASSUME TypeOK, AskedInv, DescriptorInv, UpdatesApart, UpdatesApart', [Next]_vars
             PROVE  DescriptorInv'
  OBVIOUS
<1> DEFINE Descriptors == <<CRASH_FOLLOWS_LOG, LOG_FD, CRASH_FD, want, own>>
<1>0. at \in [Updaters -> Places] /\ config \in [Updaters -> Configs]
  BY DEF TypeOK, Places
<1>1. ASSUME UNCHANGED <<Descriptors, at, config>> PROVE DescriptorInv'
  BY <1>1 DEF DescriptorInv, Standing, Quiet, CrashInPlace
(* A step of one update is seen by no other.                               *)
<1>2. ASSUME NEW u \in Updaters, \A v \in Updaters : v # u => at'[v] = "idle",
             at'[u] # "idle" => Standing(u)',
             at'[u] = "idle" => LOG_FD' = want' /\ CrashInPlace'
      PROVE  DescriptorInv'
  BY <1>2 DEF DescriptorInv, Quiet
<1>3. ASSUME NEW u \in Updaters, at[u] # "idle" PROVE \A v \in Updaters : v # u => at[v] = "idle"
  BY <1>3 DEF UpdatesApart
<1>4. ASSUME NEW u \in Updaters, NEW c \in Configs, OpenFails(u, c) PROVE DescriptorInv'
  BY <1>1, <1>4 DEF OpenFails
<1>5. ASSUME NEW u \in Updaters, NEW c \in Configs, Update(u, c) PROVE DescriptorInv'
  <2>1. at[u] = "idle" /\ at'[u] \in {"load", "flag"} /\ \A v \in Updaters : v # u => at'[v] = at[v]
    BY <1>0, <1>5 DEF Update
  <2>2. \A v \in Updaters : v # u => at'[v] = "idle"
    BY <2>1 DEF UpdatesApart
  <2>3. Quiet
    BY <2>1, <2>2 DEF Quiet
  <2>4. LOG_FD = want /\ CrashInPlace /\ UNCHANGED Descriptors
    BY <1>5, <2>3 DEF DescriptorInv, Update
  <2>5. Standing(u)'
    BY <2>1, <2>4 DEF Standing, CrashInPlace
  <2> QED
    BY <1>2, <2>1, <2>2, <2>5
<1>6. ASSUME NEW u \in Updaters, Split(u) PROVE DescriptorInv'
  <2>0. at[u] # "idle" /\ Standing(u)
    BY <1>6 DEF Split, SetFollows, CoupleCrash, LoadFollows, Remember, PointCrash, Send, DescriptorInv
  <2>1. \A v \in Updaters : v # u => at[v] = "idle"
    BY <1>3, <2>0
  <2>2. ASSUME NEW place \in Places \ {"idle"}, Goto(u, place), at'[u] = place /\ UNCHANGED config => Standing(u)'
        PROVE  DescriptorInv'
    <3>1. at'[u] = place /\ UNCHANGED config /\ \A v \in Updaters : v # u => at'[v] = at[v]
      BY <1>0, <2>2 DEF Goto
    <3> QED
      BY <1>2, <2>1, <2>2, <3>1
  <2>3. ASSUME Leave(u), LOG_FD' = want' /\ CrashInPlace' PROVE DescriptorInv'
    <3>1. at'[u] = "idle" /\ \A v \in Updaters : v # u => at'[v] = at[v]
      BY <1>0, <2>3 DEF Leave
    <3> QED
      BY <1>2, <2>1, <2>3, <3>1
  <2>4. CASE SetFollows(u)
    <3>1. Goto(u, "couple") /\ (at'[u] = "couple" /\ UNCHANGED config => Standing(u)')
      BY <2>0, <2>4 DEF SetFollows, Standing
    <3> QED
      BY <2>2, <3>1 DEF Places
  <2>5. CASE CoupleCrash(u)
    <3>1. Goto(u, "load") /\ (at'[u] = "load" /\ UNCHANGED config => Standing(u)')
      BY <2>0, <2>5 DEF CoupleCrash, CrashTarget, Standing, CrashInPlace
    <3> QED
      BY <2>2, <3>1 DEF Places
  <2>6. CASE LoadFollows(u)
    <3>0. at[u] = "load" /\ LOG_FD = want /\ CrashInPlace /\ UNCHANGED Descriptors
      BY <2>0, <2>6 DEF LoadFollows, Standing
    <3>1. CASE config[u].target = Keep
      <4>1. Goto(u, "send") /\ (at'[u] = "send" /\ UNCHANGED config => Standing(u)')
        BY <2>6, <3>0, <3>1 DEF LoadFollows, Standing, CrashInPlace
      <4> QED
        BY <2>2, <4>1 DEF Places
    <3>2. CASE config[u].target # Keep /\ CRASH_FOLLOWS_LOG
      <4>1. Goto(u, "remember_point")
        BY <2>6, <3>2 DEF LoadFollows
      <4>2. at'[u] = "remember_point" /\ UNCHANGED config => Standing(u)'
        BY <3>0, <3>2 DEF Standing, CrashInPlace
      <4> QED
        BY <2>2, <4>1, <4>2 DEF Places
    <3>3. CASE config[u].target # Keep /\ ~CRASH_FOLLOWS_LOG
      <4>1. Goto(u, "remember")
        BY <2>6, <3>3 DEF LoadFollows
      <4>2. at'[u] = "remember" /\ UNCHANGED config => Standing(u)'
        BY <3>0, <3>3 DEF Standing, CrashInPlace
      <4> QED
        BY <2>2, <4>1, <4>2 DEF Places
    <3> QED
      BY <3>1, <3>2, <3>3
  <2>7. CASE Remember(u)
    <3>0. /\ at[u] \in {"remember", "remember_point"} /\ config[u].target # Keep
          /\ LOG_FD = want /\ CrashInPlace
          /\ UNCHANGED <<CRASH_FOLLOWS_LOG, CRASH_FD, want, own>>
          /\ at[u] = "remember_point" => CRASH_FOLLOWS_LOG
          /\ at[u] = "remember" => ~CRASH_FOLLOWS_LOG
      BY <2>0, <2>7 DEF Remember, Standing, AskedInv
    <3>1. CASE Leave(u) /\ UNCHANGED LOG_FD
      BY <2>3, <3>0, <3>1 DEF CrashInPlace
    <3>2. CASE at[u] = "remember_point" /\ LOG_FD' = config[u].target /\ Goto(u, "point")
      <4>1. at'[u] = "point" /\ UNCHANGED config => Standing(u)'
        BY <3>0, <3>2 DEF Standing
      <4> QED
        BY <2>2, <3>2, <4>1 DEF Places
    <3>3. CASE at[u] = "remember" /\ LOG_FD' = config[u].target /\ Goto(u, "send")
      <4>1. at'[u] = "send" /\ UNCHANGED config => Standing(u)'
        BY <3>0, <3>3 DEF Standing, CrashInPlace
      <4> QED
        BY <2>2, <3>3, <4>1 DEF Places
    <3> QED
      BY <2>7, <3>0, <3>1, <3>2, <3>3 DEF Remember
  <2>8. CASE PointCrash(u)
    <3>1. Goto(u, "send") /\ (at'[u] = "send" /\ UNCHANGED config => Standing(u)')
      BY <2>0, <2>8 DEF PointCrash, Standing, CrashInPlace, AskedInv
    <3> QED
      BY <2>2, <3>1 DEF Places
  <2>9. CASE Send(u)
    <3>1. Leave(u) /\ LOG_FD' = want' /\ CrashInPlace'
      BY <2>0, <2>9 DEF Send, Standing, CrashInPlace
    <3> QED
      BY <2>3, <3>1
  <2> QED
    BY <1>6, <2>4, <2>5, <2>6, <2>7, <2>8, <2>9 DEF Split
<1>7. CASE \E t \in Loggers : Log(t)
  BY <1>1, <1>7 DEF Log, Claim, TrySend, Refused, updateVars
<1>8. CASE \E f \in Flushers : Flush(f) \/ SendFlush(f) \/ FlushReturns(f)
  BY <1>1, <1>8 DEF Flush, SendFlush, FlushReturns, updateVars
<1>9. CASE Handle \/ Idle
  BY <1>1, <1>9 DEF Handle, Idle, updateVars
<1>10. CASE UNCHANGED vars
  BY <1>1, <1>10 DEF vars, updateVars
<1> QED
  BY <1>4, <1>5, <1>6, <1>7, <1>8, <1>9, <1>10 DEF Next

(* update(): once no update is under way or queued, LOG_FD is on the       *)
(* writer's target and the crash log is there too when it follows the log, *)
(* whichever step of an update failed, as long as no two updates overlap.  *)
THEOREM CrashLogTracks == Spec /\ []UpdatesApart => []CrashTracksLog
<1>1. Init => DescriptorInv
  BY DEF Init, DescriptorInv, Standing, Quiet, CrashInPlace
<1>2. ASSUME IInv, DescriptorInv PROVE CrashTracksLog
  <2> SUFFICES ASSUME ~Reconfiguring
               PROVE  LOG_FD = sink /\ CRASH_FD = IF CRASH_FOLLOWS_LOG THEN sink ELSE own
    BY DEF CrashTracksLog
  <2>1. LOG_FD = want /\ CrashInPlace
    BY <1>2 DEF Reconfiguring, DescriptorInv, Quiet
  <2>2. want = sink
    <3>1. queue \in Seq(Messages) /\ DOMAIN queue = 1 .. Len(queue) /\ Len(queue) \in Nat
      BY <1>2 DEF IInv, TypeOK
    <3>2. \A j \in 1 .. (Len(queue) + 1) - 1 : ~Change(queue[j])
      BY <3>1 DEF Reconfiguring, ToSet, Change
    <3> QED
      BY <1>2, <3>2 DEF IInv, TargetInv, InForce
  <2> QED
    BY <2>1, <2>2 DEF CrashInPlace
<1>3. IInv /\ DescriptorInv /\ UpdatesApart /\ UpdatesApart' /\ [Next]_vars => DescriptorInv'
  BY DescriptorStep DEF IInv
<1> QED
  BY Invariance, <1>1, <1>2, <1>3, PTL DEF Spec

(* So it is in a process where one thread alone reconfigures the log.      *)
THEOREM CrashLogTracksOne ==
  ASSUME \A u, v \in Updaters : u = v
  PROVE  Spec => []CrashTracksLog
<1>1. UpdatesApart
  BY DEF UpdatesApart
<1> QED
  BY CrashLogTracks, <1>1, PTL
================================================================================
