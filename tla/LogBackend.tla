------------------------------- MODULE LogBackend -------------------------------
(***************************************************************************)
(* The logging backend (crates/logger-backend/src): the threads that log,  *)
(* reconfigure and flush, the bounded queue they share (lib.rs), the       *)
(* writer thread that owns the sink (writer.rs), and the crash log's       *)
(* descriptor, which update() moves on its caller's thread (crash.rs).     *)
(*                                                                         *)
(* A line is its record's place in the queue's order and the target in     *)
(* force there.  A failed write is swallowed by the code and left out, and *)
(* so is a failed dup3.                                                    *)
(***************************************************************************)
EXTENDS Integers, Sequences, FiniteSets, Functions, SequencesExt

CONSTANTS
  Loggers, Updaters, Flushers,  \* threads, by what they call
  Files, Stderr,                \* log targets
  QUEUE_DEPTH,                  \* 8192
  Keep, SameAsLog,              \* Config: None, and CrashTarget::SameAsLog
  MaxRecords, MaxUpdates, MaxFlushes  \* bounds: calls of each kind

Targets == Files \cup {Stderr}

ASSUME BackendAssumption ==
  /\ QUEUE_DEPTH \in Nat \ {0} /\ IsFiniteSet(Loggers)
  /\ MaxRecords \in Nat /\ MaxUpdates \in Nat /\ MaxFlushes \in Nat
  /\ Stderr \notin Files
  /\ Keep \notin Targets /\ SameAsLog \notin Targets \cup {Keep}

(* The part of a Config that names targets.                                *)
Configs == [target : Targets \cup {Keep}, crash : Targets \cup {Keep, SameAsLog}]

NoConfig == [target |-> Keep, crash |-> Keep]

VARIABLES
  queue,      \* the channel
  DROPPED,    \* records refused and not yet claimed by another
  claim,      \* what each logging thread took from DROPPED, -1 outside log()
  CRASH_FOLLOWS_LOG,
  LOG_FD,     \* what the duplicate of the log target is open on
  CRASH_FD,   \* what the crash log's descriptor is open on
  at,         \* where each update() stands in split
  config,     \* the Config it was called with
  flush,      \* where each flush() stands
  writer,     \* "poll": about to try_recv; "recv": blocked in recv
  sink,       \* Settings::sink
  buf,        \* what the sink's BufWriter holds
  disk,       \* the lines each target received
  records, updates, flushes,  \* history: calls made
  accepted,   \* history: records the queue took
  owed,       \* history: records it refused and no notice told of
  want,       \* history: the target of the last update queued
  own,        \* history: the last CrashTarget::Own
  before      \* history: `accepted` when a flush() began

frontendVars == <<queue, DROPPED, claim, records, accepted>>
updateVars == <<CRASH_FOLLOWS_LOG, LOG_FD, CRASH_FD, at, config, updates, want, own>>
flushVars  == <<flush, flushes, before>>
writerVars == <<writer, sink, buf, disk>>
vars == <<frontendVars, updateVars, flushVars, writerVars, owed>>

(* init() has run with any configuration: split pointed the crash log.     *)
Init ==
  /\ queue = <<>> /\ DROPPED = 0 /\ claim = [t \in Loggers |-> -1]
  /\ sink \in Targets /\ LOG_FD = sink /\ want = sink
  /\ CRASH_FOLLOWS_LOG \in BOOLEAN /\ own \in Targets
  /\ CRASH_FD = IF CRASH_FOLLOWS_LOG THEN sink ELSE own
  /\ at = [u \in Updaters |-> "idle"]
  /\ config = [u \in Updaters |-> NoConfig]
  /\ flush = [f \in Flushers |-> "idle"] /\ before = [f \in Flushers |-> 0]
  /\ writer = "poll" /\ buf = <<>> /\ disk = [t \in Targets |-> <<>>]
  /\ records = 0 /\ updates = 0 /\ flushes = 0
  /\ accepted = 0 /\ owed = 0

Room == Len(queue) < QUEUE_DEPTH

--------------------------------------------------------------------------------
(* Frontend::log.                                                          *)

(* DROPPED.swap(0): the count rides out with this record.                  *)
Claim(t) ==
  /\ claim[t] = -1 /\ records < MaxRecords
  /\ claim' = [claim EXCEPT ![t] = DROPPED] /\ DROPPED' = 0
  /\ records' = records + 1
  /\ UNCHANGED <<queue, accepted, owed, updateVars, flushVars, writerVars>>

Entry(t) == [kind |-> "entry", n |-> accepted + 1, dropped |-> claim[t], want |-> want]

(* MUTANT of TrySend: the queue takes whatever comes.                      *)
TrySendAlways(t) ==
  /\ claim[t] # -1
  /\ queue' = Append(queue, Entry(t)) /\ accepted' = accepted + 1
  /\ claim' = [claim EXCEPT ![t] = -1]
  /\ UNCHANGED <<DROPPED, records, owed, updateVars, flushVars, writerVars>>

TrySend(t) ==
  /\ claim[t] # -1 /\ Room
  /\ queue' = Append(queue, Entry(t)) /\ accepted' = accepted + 1
  /\ claim' = [claim EXCEPT ![t] = -1]
  /\ UNCHANGED <<DROPPED, records, owed, updateVars, flushVars, writerVars>>

(* MUTANT of Refused: a store in place of the fetch_add.                   *)
RefusedStored(t) ==
  /\ claim[t] # -1 /\ ~Room
  /\ DROPPED' = claim[t] + 1 /\ owed' = owed + 1
  /\ claim' = [claim EXCEPT ![t] = -1]
  /\ UNCHANGED <<queue, records, accepted, updateVars, flushVars, writerVars>>

(* The queue is full: hand back what the record claimed, and count itself. *)
Refused(t) ==
  /\ claim[t] # -1 /\ ~Room
  /\ DROPPED' = DROPPED + claim[t] + 1 /\ owed' = owed + 1
  /\ claim' = [claim EXCEPT ![t] = -1]
  /\ UNCHANGED <<queue, records, accepted, updateVars, flushVars, writerVars>>

--------------------------------------------------------------------------------
(* update(): split, one shared word or descriptor at a time.               *)

Goto(u, place) == at' = [at EXCEPT ![u] = place] /\ UNCHANGED config

Leave(u) == at' = [at EXCEPT ![u] = "idle"] /\ config' = [config EXCEPT ![u] = NoConfig]

(* The files open, if there are any ...                                    *)
Update(u, c) ==
  /\ at[u] = "idle" /\ updates < MaxUpdates
  /\ updates' = updates + 1
  /\ config' = [config EXCEPT ![u] = c]
  /\ at' = [at EXCEPT ![u] = IF c.crash = Keep THEN "load" ELSE "flag"]
  /\ UNCHANGED <<CRASH_FOLLOWS_LOG, LOG_FD, CRASH_FD, want, own, frontendVars, flushVars, writerVars, owed>>

(* ... or update() fails there.                                            *)
OpenFails(u, c) ==
  /\ at[u] = "idle" /\ updates < MaxUpdates
  /\ {c.target, c.crash} \cap Files # {}
  /\ updates' = updates + 1
  /\ UNCHANGED <<CRASH_FOLLOWS_LOG, LOG_FD, CRASH_FD, at, config, want, own, frontendVars, flushVars, writerVars, owed>>

(* The crash log first: CRASH_FOLLOWS_LOG ...                              *)
SetFollows(u) ==
  /\ at[u] = "flag"
  /\ CRASH_FOLLOWS_LOG' = (config[u].crash = SameAsLog)
  /\ own' = IF config[u].crash = SameAsLog THEN own ELSE config[u].crash
  /\ Goto(u, "couple")
  /\ UNCHANGED <<LOG_FD, CRASH_FD, updates, want, frontendVars, flushVars, writerVars, owed>>

(* MUTANT of CrashTarget: coupling again waits for the next target.        *)
CrashTargetLater(u) == IF config[u].crash = SameAsLog THEN CRASH_FD ELSE config[u].crash

CrashTarget(u) == IF config[u].crash = SameAsLog THEN LOG_FD ELSE config[u].crash

(* ... then its descriptor, under the lock of LOG_FD when that is read.    *)
CoupleCrash(u) ==
  /\ at[u] = "couple"
  /\ CRASH_FD' = CrashTarget(u)
  /\ Goto(u, "load")
  /\ UNCHANGED <<CRASH_FOLLOWS_LOG, LOG_FD, updates, want, own, frontendVars, flushVars, writerVars, owed>>

LoadFollows(u) ==
  /\ at[u] = "load"
  /\ \/ config[u].target = Keep /\ Goto(u, "send")
     \/ config[u].target # Keep /\ CRASH_FOLLOWS_LOG /\ Goto(u, "remember_point")
     \/ config[u].target # Keep /\ ~CRASH_FOLLOWS_LOG /\ Goto(u, "remember")
  /\ UNCHANGED <<CRASH_FOLLOWS_LOG, LOG_FD, CRASH_FD, updates, want, own, frontendVars, flushVars, writerVars, owed>>

(* remember_log_fd, which may fail: update() ends there, its crash part    *)
(* done and its log part not.                                              *)
Remember(u) ==
  /\ at[u] \in {"remember", "remember_point"}
  /\ \/ /\ LOG_FD' = config[u].target
        /\ Goto(u, IF at[u] = "remember_point" THEN "point" ELSE "send")
     \/ Leave(u) /\ UNCHANGED LOG_FD
  /\ UNCHANGED <<CRASH_FOLLOWS_LOG, CRASH_FD, updates, want, own, frontendVars, flushVars, writerVars, owed>>

PointCrash(u) ==
  /\ at[u] = "point"
  /\ CRASH_FD' = config[u].target
  /\ Goto(u, "send")
  /\ UNCHANGED <<CRASH_FOLLOWS_LOG, LOG_FD, updates, want, own, frontendVars, flushVars, writerVars, owed>>

(* A switch of target: the old sink is flushed, the new one starts empty.  *)
Switch(target) ==
  /\ sink' = target /\ buf' = <<>>
  /\ disk' = [disk EXCEPT ![sink] = @ \o buf]

(* MUTANT of Send: the sink changes under the queue's feet.                *)
SendAround(u) ==
  /\ at[u] = "send" /\ Leave(u)
  /\ IF config[u].target = Keep THEN UNCHANGED <<want, sink, buf, disk>>
     ELSE want' = config[u].target /\ Switch(config[u].target)
  /\ UNCHANGED <<CRASH_FOLLOWS_LOG, LOG_FD, CRASH_FD, updates, own,
                 frontendVars, flushVars, writer, owed>>

(* The blocking send.                                                      *)
Send(u) ==
  /\ at[u] = "send" /\ Room /\ Leave(u)
  /\ queue' = Append(queue, [kind |-> "update", sink |-> config[u].target])
  /\ want' = IF config[u].target = Keep THEN want ELSE config[u].target
  /\ UNCHANGED <<CRASH_FOLLOWS_LOG, LOG_FD, CRASH_FD, updates, own,
                 DROPPED, claim, records, accepted, owed, flushVars, writerVars>>

--------------------------------------------------------------------------------
(* flush(), a FlushGuard's drop too.                                       *)

Flush(f) ==
  /\ flush[f] = "idle" /\ flushes < MaxFlushes
  /\ flush' = [flush EXCEPT ![f] = "send"] /\ flushes' = flushes + 1
  /\ before' = [before EXCEPT ![f] = accepted]
  /\ UNCHANGED <<frontendVars, updateVars, writerVars, owed>>

SendFlush(f) ==
  /\ flush[f] = "send" /\ Room
  /\ queue' = Append(queue, [kind |-> "flush", who |-> f])
  /\ flush' = [flush EXCEPT ![f] = "wait"]
  /\ UNCHANGED <<flushes, before, DROPPED, claim, records, accepted, owed, updateVars, writerVars>>

FlushReturns(f) ==
  /\ flush[f] = "acked"
  /\ flush' = [flush EXCEPT ![f] = "idle"] /\ before' = [before EXCEPT ![f] = 0]
  /\ UNCHANGED <<flushes, frontendVars, updateVars, writerVars, owed>>

--------------------------------------------------------------------------------
(* The writer thread.                                                      *)

FlushSink == disk' = [disk EXCEPT ![sink] = @ \o buf] /\ buf' = <<>>

(* write_line: a BufWriter keeps the line, or makes room for it first, or  *)
(* passes through one too long for it; stderr is not buffered.             *)
WriteLine(line) ==
  \/ sink # Stderr /\ buf' = Append(buf, line) /\ UNCHANGED disk
  \/ sink # Stderr /\ buf' = <<line>> /\ disk' = [disk EXCEPT ![sink] = @ \o buf]
  \/ buf' = <<>> /\ disk' = [disk EXCEPT ![sink] = @ \o Append(buf, line)]

(* write_entry: the notice, if one is due, then the record.                *)
WriteEntry(msg) ==
  /\ WriteLine([n |-> msg.n, want |-> msg.want])
  /\ owed' = owed - msg.dropped
  /\ UNCHANGED <<sink, flush>>

Apply(msg) ==
  /\ IF msg.sink = Keep THEN UNCHANGED <<sink, buf, disk>> ELSE Switch(msg.sink)
  /\ UNCHANGED <<owed, flush>>

(* MUTANT of Acknowledge: the ack says no more than that it was reached.   *)
AcknowledgeOnly(msg) ==
  /\ flush' = [flush EXCEPT ![msg.who] = "acked"]
  /\ UNCHANGED <<sink, buf, disk, owed>>

Acknowledge(msg) ==
  /\ FlushSink
  /\ flush' = [flush EXCEPT ![msg.who] = "acked"]
  /\ UNCHANGED <<sink, owed>>

(* One message of the loop.                                                *)
Handle ==
  /\ queue # <<>> /\ queue' = Tail(queue)
  /\ writer' = "poll"
  /\ LET msg == Head(queue) IN
       \/ msg.kind = "entry"  /\ WriteEntry(msg)
       \/ msg.kind = "update" /\ Apply(msg)
       \/ msg.kind = "flush"  /\ Acknowledge(msg)
  /\ UNCHANGED <<DROPPED, claim, records, accepted, updateVars, flushes, before>>

(* MUTANT of Idle: the buffer keeps its lines until it fills.              *)
IdleKeeps ==
  /\ writer = "poll" /\ queue = <<>>
  /\ writer' = "recv"
  /\ UNCHANGED <<sink, buf, disk, owed, frontendVars, updateVars, flushVars>>

(* The queue has run dry: flush, then block.                               *)
Idle ==
  /\ writer = "poll" /\ queue = <<>>
  /\ FlushSink /\ writer' = "recv"
  /\ UNCHANGED <<sink, owed, frontendVars, updateVars, flushVars>>

--------------------------------------------------------------------------------
Log(t) == Claim(t) \/ TrySend(t) \/ Refused(t)

Split(u) == SetFollows(u) \/ CoupleCrash(u) \/ LoadFollows(u) \/ Remember(u) \/ PointCrash(u) \/ Send(u)

Next ==
  \/ \E t \in Loggers : Log(t)
  \/ \E u \in Updaters : Split(u) \/ \E c \in Configs : Update(u, c) \/ OpenFails(u, c)
  \/ \E f \in Flushers : Flush(f) \/ SendFlush(f) \/ FlushReturns(f)
  \/ Handle \/ Idle

Spec == Init /\ [][Next]_vars

(* Every thread inside a call runs, and the writer does.  Calls themselves *)
(* are not owed, and neither is a slot of the queue to one sender rather   *)
(* than another: once the calls made end, all get through.                 *)
Fairness ==
  /\ WF_vars(Handle) /\ WF_vars(Idle)
  /\ \A t \in Loggers : WF_vars(TrySend(t) \/ Refused(t))
  /\ \A u \in Updaters : WF_vars(Split(u))
  /\ \A f \in Flushers : WF_vars(SendFlush(f)) /\ WF_vars(FlushReturns(f))

FairSpec == Spec /\ Fairness

--------------------------------------------------------------------------------
Messages ==
  [kind : {"entry"}, n : Nat, dropped : Nat, want : Targets]
    \cup [kind : {"update"}, sink : Targets \cup {Keep}]
    \cup [kind : {"flush"}, who : Flushers]

Line == [n : Nat, want : Targets]

Lines == Seq(Line)

TypeOK ==
  /\ queue \in Seq(Messages) /\ Len(queue) <= QUEUE_DEPTH
  /\ DROPPED \in Nat /\ claim \in [Loggers -> Nat \cup {-1}]
  /\ CRASH_FOLLOWS_LOG \in BOOLEAN
  /\ LOG_FD \in Targets /\ CRASH_FD \in Targets
  /\ at \in [Updaters -> {"idle", "flag", "couple", "load", "remember",
                          "remember_point", "point", "send"}]
  /\ config \in [Updaters -> Configs]
  /\ flush \in [Flushers -> {"idle", "send", "wait", "acked"}]
  /\ writer \in {"poll", "recv"}
  /\ sink \in Targets /\ buf \in Lines /\ disk \in [Targets -> Lines]
  /\ records \in Nat /\ updates \in Nat /\ flushes \in Nat
  /\ accepted \in Nat /\ owed \in Nat
  /\ want \in Targets /\ own \in Targets /\ before \in [Flushers -> Nat]

(* The records in the queue; no two have the same place.                   *)
Queued == {m \in ToSet(queue) : m.kind = "entry"}

(* The threads between Claim and the send.                                 *)
Sending == {t \in Loggers : claim[t] # -1}

(* Every refused record that no notice told of is in exactly one count:    *)
(* waiting in DROPPED, claimed by a record on its way, or riding in the    *)
(* queue; no race of swap and fetch_add loses or doubles one.              *)
DropsAccounted ==
  owed = DROPPED + SumFunctionOnSet(claim, Sending)
           + SumFunction([m \in Queued |-> m.dropped])

OnDisk == UNION {{line.n : line \in ToSet(disk[t])} : t \in Targets}

(* flush() returns only when all that was logged before it was called has  *)
(* reached a target, out of every buffer, target changes or not.           *)
FlushBarrier ==
  \A f \in Flushers : flush[f] = "acked" => 1 .. before[f] \subseteq OnDisk

(* A change applies to exactly the records queued after it: each line of a *)
(* target was queued while that target was the one in force, and a         *)
(* target's lines are in the order of the queue.                           *)
RightTarget ==
  \A t \in Targets :
    /\ \A i \in DOMAIN disk[t] : disk[t][i].want = t
    /\ \A i, j \in DOMAIN disk[t] : i < j => disk[t][i].n < disk[t][j].n

Reconfiguring ==
  \/ \E u \in Updaters : at[u] # "idle"
  \/ \E m \in ToSet(queue) : m.kind = "update"

(* With no reconfiguration under way, LOG_FD is on the target the writer   *)
(* itself has, and the crash log is there too when it follows the log, and *)
(* else where it was last put; whichever step of an update failed, as long *)
(* as no two updates overlap.                                              *)
CrashTracksLog ==
  ~Reconfiguring =>
    LOG_FD = sink /\ CRASH_FD = IF CRASH_FOLLOWS_LOG THEN sink ELSE own

(* "Track whatever the normal log target is" (lib.rs:121), for callers of  *)
(* update() that know nothing of each other.  See LogCrashRace.cfg.        *)
CrashFollowsLog == ~Reconfiguring /\ CRASH_FOLLOWS_LOG => CRASH_FD = sink

(* Once threads leave the logger alone, every record the queue took is on  *)
(* disk, no flush() needed, and every call has returned.                   *)
SettlesOnDisk ==
  <>[](/\ OnDisk = 1 .. accepted
       /\ \A u \in Updaters : at[u] = "idle"
       /\ \A f \in Flushers : flush[f] = "idle")
================================================================================
