----------------------------- MODULE ThreadPool -----------------------------
(***************************************************************************)
(* The thread pool of stdlib/runtime_thread.c and the handle that owns it. *)
(*                                                                         *)
(* A critical section of the pool mutex is one step.  The signal of submit *)
(* and the broadcast of destroy come after the unlock and are steps of     *)
(* their own.  A worker that cond_wait has woken gives the mutex back,     *)
(* waits for the end of a stop-the-world request and takes it again.       *)
(*                                                                         *)
(* A worker running a task is one of the program's actors: its task may    *)
(* submit, may shut the pool down, and, as any thread that allocates, may  *)
(* run the finalizer of a handle nobody refers to any more.  One pool is   *)
(* modelled, and every task is submitted once.  The handle's raw, drop and *)
(* closed change together here: what reads them reads two of them at most. *)
(***************************************************************************)
EXTENDS Naturals, FiniteSets, Sequences, SequencesExt

CONSTANTS
    Workers,            \* the threads hao_pool_new is asked to create
    Clients,            \* other threads of the program
    Tasks,              \* closures, each submitted at most once
    TaskCalls,          \* what a running task may do to its pool
    ClientsOrdered,     \* no client submits or shuts down while another shuts down
    SelfJoinReturns,    \* pthread_join on oneself fails; the Windows wait never ends
    Collects,           \* whether the collector stops the world meanwhile
    Nil

ASSUME FiniteAssumption == IsFiniteSet(Workers) /\ IsFiniteSet(Clients)
ASSUME ActorsAssumption == Workers \intersect Clients = {} /\ Nil \notin Workers \union Clients \union Tasks
ASSUME TaskCallsAssumption == TaskCalls \subseteq {"submit", "shutdown", "finalize"}

Actors == Workers \union Clients

VARIABLES
    open,       \* the handle: attached and not closed
    lost,       \* the program has no reference to the handle left
    made,       \* hao_pool_new has been called
    created,    \* workers created so far
    queue,      \* the list of tasks
    shutdown,
    joined,
    freed,      \* pool_destroy has freed the Pool
    mtx,        \* owner of the pool mutex between steps
    wpc,        \* where a worker is in its loop
    task,       \* the task a worker has taken
    pc,         \* where an actor is in a call on the pool
    arg,        \* the task it submits
    left,       \* workers pool_join_workers has still to join
    roots,      \* how often a task is in the root table
    fate,       \* what became of a task (history)
    joins,      \* how often a worker was joined (history)
    stw         \* gc_stw_request

handleVars == <<open, lost, made>>
poolVars == <<created, queue, shutdown, joined, freed, mtx>>
workerVars == <<wpc, task>>
callVars == <<pc, arg, left, joins>>
taskVars == <<roots, fate>>
vars == <<handleVars, poolVars, workerVars, callVars, taskVars, stw>>

WPC == {"none", "lock", "asleep", "wake", "disarm", "safepoint", "run", "unroot", "exit", "gone"}
PC == {"idle", "new", "submit", "signal", "refused", "close", "destroy", "broadcast", "join"}

TypeOK ==
    /\ open \in BOOLEAN /\ lost \in BOOLEAN /\ made \in BOOLEAN
    /\ created \subseteq Workers
    /\ queue \in Seq(Tasks) /\ IsInjective(queue)
    /\ shutdown \in BOOLEAN /\ joined \in BOOLEAN /\ freed \in BOOLEAN
    /\ mtx \in Workers \union {Nil}
    /\ wpc \in [Workers -> WPC] /\ \A w \in Workers : wpc[w] = "none" <=> w \notin created
    /\ task \in [Workers -> Tasks \union {Nil}]
    /\ \A w \in Workers : task[w] # Nil <=> wpc[w] \in {"safepoint", "run", "unroot"}
    /\ pc \in [Actors -> PC]
    /\ arg \in [Actors -> Tasks \union {Nil}]
    /\ left \in [Actors -> SUBSET Workers]
    /\ roots \in [Tasks -> Nat]
    /\ fate \in [Tasks -> {"new", "offered", "queued", "taken", "running", "done", "refused", "drained"}]
    /\ joins \in [Workers -> Nat]
    /\ stw \in BOOLEAN

Init ==
    /\ open = FALSE /\ lost = FALSE /\ made = FALSE
    /\ created = {} /\ queue = <<>>
    /\ shutdown = FALSE /\ joined = FALSE /\ freed = FALSE
    /\ mtx = Nil
    /\ wpc = [w \in Workers |-> "none"]
    /\ task = [w \in Workers |-> Nil]
    /\ pc = [a \in Actors |-> "idle"]
    /\ arg = [a \in Actors |-> Nil]
    /\ left = [a \in Actors |-> {}]
    /\ roots = [t \in Tasks |-> 0]
    /\ fate = [t \in Tasks |-> "new"]
    /\ joins = [w \in Workers |-> 0]
    /\ stw = FALSE

-----------------------------------------------------------------------------
(* hao_pool_new.  A worker runs from the moment it is created.             *)

hao_pool_new(c) ==
    /\ ~made /\ pc[c] = "idle"
    /\ made' = TRUE
    /\ pc' = [pc EXCEPT ![c] = "new"]
    /\ UNCHANGED <<open, lost, poolVars, workerVars, arg, left, joins, taskVars, stw>>

CreateWorker(c) ==
    /\ pc[c] = "new"
    /\ \E w \in Workers \ created :
          /\ created' = created \union {w}
          /\ wpc' = [wpc EXCEPT ![w] = "lock"]
    /\ UNCHANGED <<handleVars, queue, shutdown, joined, freed, mtx, task, callVars, taskVars, stw>>

(* Mutant: the pool is freed without its workers being joined.             *)
CreateFailsUnjoined(c) ==
    /\ pc[c] = "new"
    /\ created # Workers
    /\ pc' = [pc EXCEPT ![c] = "idle"]
    /\ freed' = TRUE
    /\ UNCHANGED <<handleVars, created, queue, shutdown, joined, mtx, workerVars, arg, left, joins, taskVars, stw>>

(* The system refuses a thread: those already running are shut down.       *)
CreateFails(c) ==
    /\ pc[c] = "new"
    /\ created # Workers
    /\ pc' = [pc EXCEPT ![c] = "destroy"]
    /\ UNCHANGED <<handleVars, poolVars, workerVars, arg, left, joins, taskVars, stw>>

Attach(c) ==
    /\ pc[c] = "new"
    /\ created = Workers
    /\ open' = TRUE
    /\ pc' = [pc EXCEPT ![c] = "idle"]
    /\ UNCHANGED <<lost, made, poolVars, workerVars, arg, left, joins, taskVars, stw>>

-----------------------------------------------------------------------------
(* Calls on the handle.                                                    *)

(* The actor can make a call: it is a client, or runs a task that may.     *)
Free(a, what) ==
    /\ pc[a] = "idle"
    /\ a \in Workers => wpc[a] = "run" /\ what \in TaskCalls

Destroying == {"close", "destroy", "broadcast", "join"}
Closers == {a \in Actors : pc[a] \in Destroying}
Submitters == {a \in Actors : pc[a] \in {"submit", "signal", "refused"}}

(* hao_pool_submit on an open handle; on a closed one it has no effect.    *)
Submit(a) ==
    /\ Free(a, "submit")
    /\ open /\ ~lost
    /\ ClientsOrdered /\ a \in Clients => Closers = {}
    /\ \E t \in Tasks :
          /\ fate[t] = "new"
          /\ fate' = [fate EXCEPT ![t] = "offered"]
          /\ roots' = [roots EXCEPT ![t] = @ + 1]
          /\ arg' = [arg EXCEPT ![a] = t]
    /\ pc' = [pc EXCEPT ![a] = "submit"]
    /\ UNCHANGED <<handleVars, poolVars, workerVars, left, joins, stw>>

(* Mutant: only a task that finds the queue empty is signalled.            *)
SubmitSignalsFirst(a) ==
    /\ pc[a] = "submit"
    /\ mtx = Nil
    /\ IF shutdown
       THEN pc' = [pc EXCEPT ![a] = "refused"] /\ UNCHANGED <<queue, fate, arg>>
       ELSE /\ queue' = Append(queue, arg[a])
            /\ fate' = [fate EXCEPT ![arg[a]] = "queued"]
            /\ pc' = [pc EXCEPT ![a] = IF queue = <<>> THEN "signal" ELSE "idle"]
            /\ arg' = IF queue = <<>> THEN arg ELSE [arg EXCEPT ![a] = Nil]
    /\ UNCHANGED <<handleVars, created, shutdown, joined, freed, mtx, workerVars, left, joins, roots, stw>>

SubmitEnqueue(a) ==
    /\ pc[a] = "submit"
    /\ mtx = Nil
    /\ IF shutdown
       THEN pc' = [pc EXCEPT ![a] = "refused"] /\ UNCHANGED <<queue, fate>>
       ELSE /\ queue' = Append(queue, arg[a])
            /\ fate' = [fate EXCEPT ![arg[a]] = "queued"]
            /\ pc' = [pc EXCEPT ![a] = "signal"]
    /\ UNCHANGED <<handleVars, created, shutdown, joined, freed, mtx, workerVars, arg, left, joins, roots, stw>>

Wake(S) == wpc' = [w \in Workers |-> IF w \in S THEN "wake" ELSE wpc[w]]

Sleepers == {w \in Workers : wpc[w] = "asleep"}

SubmitSignal(a) ==
    /\ pc[a] = "signal"
    /\ IF Sleepers = {} THEN UNCHANGED wpc ELSE \E w \in Sleepers : Wake({w})
    /\ pc' = [pc EXCEPT ![a] = "idle"]
    /\ arg' = [arg EXCEPT ![a] = Nil]
    /\ UNCHANGED <<handleVars, poolVars, task, left, joins, taskVars, stw>>

SubmitRefused(a) ==
    /\ pc[a] = "refused"
    /\ roots' = [roots EXCEPT ![arg[a]] = @ - 1]
    /\ fate' = [fate EXCEPT ![arg[a]] = "refused"]
    /\ pc' = [pc EXCEPT ![a] = "idle"]
    /\ arg' = [arg EXCEPT ![a] = Nil]
    /\ UNCHANGED <<handleVars, poolVars, workerVars, left, joins, stw>>

(* hao_pool_shutdown reads closed and raw, and then closes the handle.     *)
ShutdownRead(a) ==
    /\ Free(a, "shutdown")
    /\ open /\ ~lost
    /\ ClientsOrdered => Closers = {} /\ Submitters \intersect Clients = {}
    /\ pc' = [pc EXCEPT ![a] = "close"]
    /\ UNCHANGED <<handleVars, poolVars, workerVars, arg, left, joins, taskVars, stw>>

ShutdownClose(a) ==
    /\ pc[a] = "close"
    /\ open' = FALSE
    /\ pc' = [pc EXCEPT ![a] = "destroy"]
    /\ UNCHANGED <<lost, made, poolVars, workerVars, arg, left, joins, taskVars, stw>>

(* The last reference to the handle goes.  Tasks that call the pool refer  *)
(* to it.                                                                  *)
LoseHandle ==
    /\ open /\ ~lost
    /\ \A a \in Actors : pc[a] = "idle"
    /\ TaskCalls \intersect {"submit", "shutdown"} # {} =>
          \A t \in Tasks : fate[t] \notin {"queued", "taken", "running"}
    /\ lost' = TRUE
    /\ UNCHANGED <<open, made, poolVars, workerVars, callVars, taskVars, stw>>

(* hao_handle_finalize, run by whoever drains the finalizers.              *)
Finalize(a) ==
    /\ Free(a, "finalize")
    /\ open /\ lost
    /\ open' = FALSE
    /\ pc' = [pc EXCEPT ![a] = "destroy"]
    /\ UNCHANGED <<lost, made, poolVars, workerVars, arg, left, joins, taskVars, stw>>

-----------------------------------------------------------------------------
(* pool_destroy.                                                           *)

DestroyFlag(a) ==
    /\ pc[a] = "destroy"
    /\ mtx = Nil
    /\ shutdown' = TRUE
    /\ pc' = [pc EXCEPT ![a] = "broadcast"]
    /\ UNCHANGED <<handleVars, created, queue, joined, freed, mtx, workerVars, arg, left, joins, taskVars, stw>>

(* Mutant: one worker is woken instead of all.                             *)
DestroySignal(a) ==
    /\ pc[a] = "broadcast"
    /\ IF Sleepers = {} THEN UNCHANGED wpc ELSE \E w \in Sleepers : Wake({w})
    /\ pc' = [pc EXCEPT ![a] = "join"]
    /\ left' = [left EXCEPT ![a] = IF joined THEN {} ELSE created]
    /\ UNCHANGED <<handleVars, poolVars, task, arg, joins, taskVars, stw>>

DestroyBroadcast(a) ==
    /\ pc[a] = "broadcast"
    /\ Wake(Sleepers)
    /\ pc' = [pc EXCEPT ![a] = "join"]
    /\ left' = [left EXCEPT ![a] = IF joined THEN {} ELSE created]
    /\ UNCHANGED <<handleVars, poolVars, task, arg, joins, taskVars, stw>>

(* pool_join_workers, one worker; the joiner is parked while it waits.     *)
JoinWorker(a) ==
    /\ pc[a] = "join"
    /\ ~stw
    /\ \E w \in left[a] :
          /\ wpc[w] = "gone" \/ (w = a /\ SelfJoinReturns)
          /\ left' = [left EXCEPT ![a] = @ \ {w}]
          /\ joins' = [joins EXCEPT ![w] = @ + 1]
    /\ UNCHANGED <<handleVars, poolVars, workerVars, pc, arg, taskVars, stw>>

(* pool_drain_tasks and the free of the Pool.                              *)
DestroyEnds(a) ==
    /\ pc[a] = "join"
    /\ left[a] = {}
    /\ joined' = TRUE
    /\ queue' = <<>>
    /\ roots' = [t \in Tasks |-> IF t \in ToSet(queue) THEN roots[t] - 1 ELSE roots[t]]
    /\ fate' = [t \in Tasks |-> IF t \in ToSet(queue) THEN "drained" ELSE fate[t]]
    /\ freed' = TRUE
    /\ pc' = [pc EXCEPT ![a] = "idle"]
    /\ UNCHANGED <<handleVars, created, shutdown, mtx, workerVars, arg, left, joins, stw>>

-----------------------------------------------------------------------------
(* pool_worker.                                                            *)

HasMutex(w) == wpc[w] = "lock" /\ mtx \in {Nil, w}

(* Armed for the collector, in cond_wait.                                  *)
WorkerSleeps(w) ==
    /\ HasMutex(w)
    /\ queue = <<>> /\ ~shutdown
    /\ wpc' = [wpc EXCEPT ![w] = "asleep"]
    /\ mtx' = Nil
    /\ UNCHANGED <<handleVars, created, queue, shutdown, joined, freed, task, callVars, taskVars, stw>>

WorkerTakes(w) ==
    /\ HasMutex(w)
    /\ queue # <<>>
    /\ task' = [task EXCEPT ![w] = Head(queue)]
    /\ queue' = Tail(queue)
    /\ fate' = [fate EXCEPT ![Head(queue)] = "taken"]
    /\ wpc' = [wpc EXCEPT ![w] = "safepoint"]
    /\ mtx' = Nil
    /\ UNCHANGED <<handleVars, created, shutdown, joined, freed, callVars, roots, stw>>

(* Mutant: shutdown is obeyed although there are tasks.                    *)
WorkerQuits(w) ==
    /\ HasMutex(w)
    /\ shutdown
    /\ wpc' = [wpc EXCEPT ![w] = "exit"]
    /\ mtx' = Nil
    /\ UNCHANGED <<handleVars, created, queue, shutdown, joined, freed, task, callVars, taskVars, stw>>

WorkerEnds(w) ==
    /\ HasMutex(w)
    /\ queue = <<>> /\ shutdown
    /\ wpc' = [wpc EXCEPT ![w] = "exit"]
    /\ mtx' = Nil
    /\ UNCHANGED <<handleVars, created, queue, shutdown, joined, freed, task, callVars, taskVars, stw>>

(* cond_wait returns with the mutex, which is given back at once.          *)
WorkerWakes(w) ==
    /\ wpc[w] = "wake"
    /\ mtx = Nil
    /\ wpc' = [wpc EXCEPT ![w] = "disarm"]
    /\ UNCHANGED <<handleVars, poolVars, task, callVars, taskVars, stw>>

(* hao_gc_os_block_disarm, and the safepoint before a task or the end.     *)
WorkerPastStop(w) ==
    /\ ~stw
    /\ \/ wpc[w] = "disarm" /\ wpc' = [wpc EXCEPT ![w] = "lock"] /\ UNCHANGED fate
       \/ /\ wpc[w] = "safepoint"
          /\ wpc' = [wpc EXCEPT ![w] = "run"]
          /\ fate' = [fate EXCEPT ![task[w]] = "running"]
       \/ wpc[w] = "exit" /\ wpc' = [wpc EXCEPT ![w] = "gone"] /\ UNCHANGED fate
    /\ UNCHANGED <<handleVars, poolVars, task, callVars, roots, stw>>

TaskReturns(w) ==
    /\ wpc[w] = "run" /\ pc[w] = "idle"
    /\ fate' = [fate EXCEPT ![task[w]] = "done"]
    /\ wpc' = [wpc EXCEPT ![w] = "unroot"]
    /\ UNCHANGED <<handleVars, poolVars, task, callVars, roots, stw>>

WorkerUnroots(w) ==
    /\ wpc[w] = "unroot"
    /\ roots' = [roots EXCEPT ![task[w]] = @ - 1]
    /\ task' = [task EXCEPT ![w] = Nil]
    /\ wpc' = [wpc EXCEPT ![w] = "lock"]
    /\ UNCHANGED <<handleVars, poolVars, callVars, fate, stw>>

SpuriousWake(w) ==
    /\ wpc[w] = "asleep"
    /\ Wake({w})
    /\ UNCHANGED <<handleVars, poolVars, task, callVars, taskVars, stw>>

-----------------------------------------------------------------------------
StwRequest ==
    /\ Collects /\ ~stw
    /\ stw' = TRUE
    /\ UNCHANGED <<handleVars, poolVars, workerVars, callVars, taskVars>>

StwRelease ==
    /\ stw
    /\ stw' = FALSE
    /\ UNCHANGED <<handleVars, poolVars, workerVars, callVars, taskVars>>

(* What an actor does inside a call, and a worker in its loop.             *)
CallStep(a) ==
    \/ SubmitEnqueue(a) \/ SubmitSignal(a) \/ SubmitRefused(a)
    \/ ShutdownClose(a) \/ DestroyFlag(a) \/ DestroyBroadcast(a) \/ JoinWorker(a) \/ DestroyEnds(a)

WorkerStep(w) ==
    \/ WorkerSleeps(w) \/ WorkerTakes(w) \/ WorkerEnds(w)
    \/ WorkerWakes(w) \/ WorkerPastStop(w)
    \/ TaskReturns(w) \/ WorkerUnroots(w)

Next ==
    \/ \E c \in Clients : hao_pool_new(c) \/ CreateWorker(c) \/ CreateFails(c) \/ Attach(c)
    \/ \E a \in Actors : Submit(a) \/ ShutdownRead(a) \/ Finalize(a) \/ CallStep(a)
    \/ \E w \in Workers : WorkerStep(w) \/ SpuriousWake(w)
    \/ LoseHandle \/ StwRequest \/ StwRelease

Spec == Init /\ [][Next]_vars

(* Every thread keeps running, every task returns, every stop ends.  A     *)
(* mutex that is taken and given back again and again, and a stop that     *)
(* comes back, do not keep a thread that polls from getting past them.     *)
FairSpec ==
    /\ Spec
    /\ \A a \in Actors : SF_vars(CallStep(a))
    /\ \A w \in Workers : SF_vars(WorkerStep(w))
    /\ WF_vars(StwRelease)

-----------------------------------------------------------------------------
(* Properties.                                                             *)

(* A closure is in the root table exactly while the pool or the submitting *)
(* call needs it: never run or queued without a root, never left there.    *)
RootedWhileNeeded ==
    \A t \in Tasks :
        roots[t] = IF fate[t] \in {"offered", "queued", "taken", "running"}
                      \/ \E w \in Workers : task[w] = t
                   THEN 1 ELSE 0

(* Work is not left lying: while a worker sleeps, there are at least as    *)
(* many workers on their way to the queue, or signals on their way to a    *)
(* worker, as there are tasks in it.                                       *)
NoIdleWhileWork ==
    Sleepers # {} =>
        Len(queue) <= Cardinality({w \in Workers : wpc[w] \in {"wake", "disarm", "lock"}})
                        + Cardinality({a \in Actors : pc[a] = "signal"})

(* The Pool is freed when no worker and no caller will touch it again.     *)
NoUseAfterFree ==
    freed => /\ \A w \in created : wpc[w] = "gone"
             /\ \A a \in Actors : pc[a] = "idle"

(* Both: the memory of the pool and of its closures outlives its users.    *)
MemorySafe == NoUseAfterFree /\ RootedWhileNeeded

(* A worker is joined once.                                                *)
JoinOnce == \A w \in Workers : joins[w] <= 1

(* Nobody waits for the collector with the pool mutex in hand.             *)
NoStopWhileLocked == \A w \in Workers : mtx = w => wpc[w] # "disarm"

(* Both: no task lies there while the workers sleep, or wait with the      *)
(* mutex a submitter needs.                                                *)
WorkersAvailable == NoIdleWhileWork /\ NoStopWhileLocked

(* A shutdown ends: every worker leaves its loop and is joined.            *)
ShutdownEnds == (\E a \in Actors : pc[a] \in Destroying) ~> freed

(* A task that was accepted is run to its end, whether or not the pool is  *)
(* shut down before a worker takes it.                                     *)
AcceptedFinishes == \A t \in Tasks : fate[t] = "queued" ~> fate[t] = "done"
=============================================================================
