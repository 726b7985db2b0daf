---------------------------- MODULE AssemblyPool ----------------------------
(***************************************************************************)
(* The threads that assemble snapshot frames: assembly_threads, the        *)
(* AssemblyPool built on the first flush that wants one, assemble_frames,  *)
(* the fold of the tallies, and the pool's Drop when the node goes.        *)
(*                                                                         *)
(* Assembling a peer is one step of whichever thread runs it: it reads     *)
(* what the flush shares and writes that peer's own state (SendRota,       *)
(* InterestSync and StateLane say what).  A tally is the sequence of peers *)
(* it holds datagrams for.  rayon is external: a spawned job is taken by   *)
(* any idle worker, a scope ends when its jobs have, dropping the pool     *)
(* makes idle workers exit in their own time, and the exit handler runs on *)
(* the worker just before its thread returns.                              *)
(***************************************************************************)
EXTENDS Integers, FiniteSets, FiniteSetsExt, Sequences, SequencesExt

CONSTANTS MaxTargets,   \* bound on synced peers
          Parallelism,  \* the host's hardware threads
          PoolPeers,    \* orbitnet/assembly_pool_peers
          MinPerThread, \* MIN_PEERS_PER_ASSEMBLY_THREAD
          MaxThreads,   \* MAX_ASSEMBLY_THREADS
          MaxFlushes

ASSUME PoolAssumption ==
    /\ {MaxTargets, PoolPeers, MaxFlushes} \subseteq Nat
    /\ {Parallelism, MinPerThread, MaxThreads} \subseteq Nat \ {0}

VARIABLES thread,    \* each worker: "none", "idle", "busy", "exiting", "reported" or "left"
          chunk,     \* the chunk a busy worker runs, 0 for the others
          live,      \* the count the exit handlers decrement
          caller,    \* the main thread: "idle", "scope", "dropping", "joining", "unloaded"
          timedOut,  \* the wait in Drop gave up
          targets,   \* the synced peers of the flush, in peer order
          jobs,      \* chunks spawned and not yet taken
          todo,      \* per chunk, the peers it still has to assemble
          tallies,   \* per chunk, the peers it has assembled
          sends,     \* what the last flush handed the transport
          flushes

poolVars ==
    <<thread, chunk, live, caller, timedOut, targets, jobs, todo, tallies, sends, flushes>>

Clip(n, low, high) == Max({low, Min({n, high})})

\* Threads this flush is split across, the caller included.
AssemblyThreads(peers) ==
    IF PoolPeers <= 0 \/ peers < PoolPeers THEN 1
    ELSE Clip(peers \div MinPerThread, 1, Clip(Parallelism, 1, MaxThreads))

Built == Clip(Parallelism, 1, MaxThreads)

Workers == 1 .. Built - 1

\* AssemblyPool::build declines a host with one hardware thread.
CanBuild == Built >= 2

\* Mutant: the chunk length is rounded down.
ChunkLenFloor(n, threads) == Max({1, n \div threads})

ChunkLen(n, threads) == (n + threads - 1) \div threads

\* chunks_mut zipped with the tallies: contiguous runs of the targets.
Chunks(peers, threads) ==
    LET len == ChunkLen(Len(peers), threads)
    IN  [i \in 1 .. threads |->
            SubSeq(peers, (i - 1) * len + 1, Min({i * len, Len(peers)}))]

PoolInit ==
    /\ thread = [w \in Workers |-> "none"]
    /\ chunk = [w \in Workers |-> 0]
    /\ live = 0
    /\ caller = "idle"
    /\ timedOut = FALSE
    /\ targets = << >>
    /\ jobs = {}
    /\ todo = << >>
    /\ tallies = << >>
    /\ sends = << >>
    /\ flushes = 0

\* send_snapshots: the pool is built by the first flush that wants it, and the
\* flush either runs whole on this thread or opens a scope.
SendSnapshots(peers) ==
    LET wanted  == AssemblyThreads(Len(peers))
        threads == IF wanted > 1 /\ CanBuild THEN wanted ELSE 1
        chunks  == Chunks(peers, threads)
        builds  == threads > 1 /\ \A w \in Workers : thread[w] = "none"
    IN  /\ caller = "idle" /\ flushes < MaxFlushes
        /\ thread' = IF builds THEN [w \in Workers |-> "idle"] ELSE thread
        /\ live' = IF builds THEN Built - 1 ELSE live
        /\ targets' = peers
        /\ todo' = chunks
        /\ tallies' = [i \in 1 .. threads |-> << >>]
        /\ jobs' = {i \in 2 .. threads : chunks[i] # << >>}
        /\ caller' = "scope"
        /\ flushes' = flushes + 1
        /\ UNCHANGED <<chunk, timedOut, sends>>

TakeJob(w) ==
    \E i \in jobs :
        /\ thread[w] = "idle"
        /\ thread' = [thread EXCEPT ![w] = "busy"]
        /\ chunk' = [chunk EXCEPT ![w] = i]
        /\ jobs' = jobs \ {i}
        /\ UNCHANGED <<live, caller, timedOut, targets, todo, tallies, sends, flushes>>

\* One peer of chunk i is assembled into tally i.
AssembleNext(i) ==
    /\ todo[i] # << >>
    /\ todo' = [todo EXCEPT ![i] = Tail(@)]
    /\ tallies' = [tallies EXCEPT ![i] = Append(@, Head(todo[i]))]

WorkerStep(w) ==
    /\ thread[w] = "busy"
    /\ \/ AssembleNext(chunk[w]) /\ UNCHANGED <<thread, chunk>>
       \/ /\ todo[chunk[w]] = << >>
          /\ thread' = [thread EXCEPT ![w] = "idle"]
          /\ chunk' = [chunk EXCEPT ![w] = 0]
          /\ UNCHANGED <<todo, tallies>>
    /\ UNCHANGED <<live, caller, timedOut, targets, jobs, sends, flushes>>

\* The caller takes the first chunk rather than waiting idle.
CallerStep ==
    /\ caller = "scope"
    /\ AssembleNext(1)
    /\ UNCHANGED <<thread, chunk, live, caller, timedOut, targets, jobs, sends, flushes>>

\* The scope's jobs are done; fold_assembly in chunk order and hand over.
EndScope ==
    /\ caller = "scope"
    /\ todo[1] = << >> /\ jobs = {}
    /\ \A w \in Workers : thread[w] \in {"none", "idle"}
    /\ sends' = FlattenSeq(tallies)
    /\ caller' = "idle"
    /\ UNCHANGED <<thread, chunk, live, timedOut, targets, jobs, todo, tallies, flushes>>

\* Drop: the pool is let go, and the threads are waited for.
DropPool ==
    /\ caller = "idle"
    /\ caller' = IF \A w \in Workers : thread[w] = "none" THEN "unloaded" ELSE "dropping"
    /\ UNCHANGED <<thread, chunk, live, timedOut, targets, jobs, todo, tallies, sends, flushes>>

WorkerExits(w) ==
    /\ caller = "dropping" \/ timedOut
    /\ thread[w] = "idle"
    /\ thread' = [thread EXCEPT ![w] = "exiting"]
    /\ UNCHANGED <<chunk, live, caller, timedOut, targets, jobs, todo, tallies, sends, flushes>>

\* The exit handler, run by the worker a few instructions before it returns.
ExitHandler(w) ==
    /\ thread[w] = "exiting"
    /\ thread' = [thread EXCEPT ![w] = "reported"]
    /\ live' = Max({live - 1, 0})
    /\ UNCHANGED <<chunk, caller, timedOut, targets, jobs, todo, tallies, sends, flushes>>

ThreadReturns(w) ==
    /\ thread[w] = "reported"
    /\ thread' = [thread EXCEPT ![w] = "left"]
    /\ UNCHANGED <<chunk, live, caller, timedOut, targets, jobs, todo, tallies, sends, flushes>>

\* wait_timeout_while: the count reaches zero, or the wait runs out.
AllReported ==
    /\ caller = "dropping" /\ live = 0
    /\ caller' = "joining"
    /\ UNCHANGED <<thread, chunk, live, timedOut, targets, jobs, todo, tallies, sends, flushes>>

WaitTimesOut ==
    /\ caller = "dropping" /\ live > 0
    /\ timedOut' = TRUE
    /\ caller' = "unloaded"
    /\ UNCHANGED <<thread, chunk, live, targets, jobs, todo, tallies, sends, flushes>>

\* Mutant: the count alone is taken for an exit.
JoinedByCount == TRUE

\* join returns once the thread has.
Joined == \A w \in Workers : thread[w] = "left"

JoinAll ==
    /\ caller = "joining"
    /\ Joined
    /\ caller' = "unloaded"
    /\ UNCHANGED <<thread, chunk, live, timedOut, targets, jobs, todo, tallies, sends, flushes>>

PoolNext ==
    \/ \E n \in 0 .. MaxTargets : SendSnapshots([i \in 1 .. n |-> i])
    \/ CallerStep \/ EndScope
    \/ DropPool \/ AllReported \/ WaitTimesOut \/ JoinAll
    \/ \E w \in Workers : TakeJob(w)
    \/ \E w \in Workers : WorkerStep(w)
    \/ \E w \in Workers : WorkerExits(w)
    \/ \E w \in Workers : ExitHandler(w)
    \/ \E w \in Workers : ThreadReturns(w)

PoolSpec == PoolInit /\ [][PoolNext]_poolVars

-----------------------------------------------------------------------------
\* However many threads a flush was split across and however they interleaved,
\* the transport gets every synced peer's datagrams once and in peer order: the
\* order the single-threaded path hands over.
SplitIsInvisible == (caller = "idle" /\ flushes > 0) => sends = targets

\* The library goes only when no thread of the pool is still running its code,
\* unless the bounded wait gave up on one.
UnloadedAfterTheLast ==
    (caller = "unloaded" /\ ~timedOut) => \A w \in Workers : thread[w] \in {"none", "left"}
=============================================================================
