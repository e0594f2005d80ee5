-------------------------- MODULE ThreadPool_proof --------------------------
(***************************************************************************)
(* Proofs about ThreadPool, for any number of workers, clients and tasks.  *)
(***************************************************************************)
EXTENDS ThreadPool, FiniteSetTheorems, SequenceTheorems, TLAPS

-----------------------------------------------------------------------------
(* The inductive invariant: every task is in one place only, the queue, a  *)
(* worker or a call that has still to hand it over.                        *)

\* The list holds each accepted task once until a worker takes it.
Queued == \A t \in Tasks : fate[t] = "queued" <=> t \in ToSet(queue)

\* How far a task is that a worker at p has in hand.
Progress(p) == CASE p = "safepoint" -> "taken" [] p = "run" -> "running" [] p = "unroot" -> "done" [] OTHER -> "new"

\* A task is in the hands of one worker, and as far as that worker is.
Held ==
  /\ \A w \in Workers : task[w] # Nil => fate[task[w]] = Progress(wpc[w])
  /\ \A v, w \in Workers : task[v] = task[w] /\ task[v] # Nil => v = w

\* A call that still has to hand its task over is the only one about it.
Offering == {"submit", "refused"}
Offered ==
  /\ \A c \in Actors : pc[c] \in Offering => arg[c] \in Tasks /\ fate[arg[c]] = "offered"
  /\ \A p, q \in Actors : pc[p] \in Offering /\ pc[q] \in Offering /\ arg[p] = arg[q] => p = q

\* The mutex is free between the steps.
NoOwner == mtx = Nil

\* The inductive invariant.
PoolInv == TypeOK /\ NoOwner /\ Queued /\ Held /\ Offered /\ RootedWhileNeeded

-----------------------------------------------------------------------------
(* The list of tasks.                                                      *)

\* What is taken from the head of a list without repetitions is gone from it.
LEMMA TakeFirst ==
  ASSUME NEW S, NEW s \in Seq(S), IsInjective(s), s # <<>>
  PROVE  /\ Tail(s) \in Seq(S) /\ IsInjective(Tail(s)) /\ Len(Tail(s)) = Len(s) - 1 /\ Len(s) \in Nat \ {0}
         /\ ToSet(Tail(s)) = ToSet(s) \ {Head(s)} /\ Head(s) \in ToSet(s) /\ Head(s) \in S
<1>1. Tail(s) \in Seq(S) /\ Len(Tail(s)) = Len(s) - 1 /\ \A i \in 1 .. Len(s) - 1 : Tail(s)[i] = s[i + 1]
  BY HeadTailProperties
<1>2. Head(s) = s[1] /\ Len(s) >= 1 /\ DOMAIN s = 1 .. Len(s) /\ DOMAIN Tail(s) = 1 .. Len(s) - 1
  BY HeadTailProperties, <1>1
<1>3. IsInjective(Tail(s))
  BY <1>1, <1>2 DEF IsInjective
<1>4. ASSUME NEW x \in ToSet(s), x # Head(s) PROVE x \in ToSet(Tail(s))
  <2>1. PICK i \in 1 .. Len(s) : x = s[i]
    BY <1>2, <1>4 DEF ToSet
  <2>2. i - 1 \in 1 .. Len(s) - 1 /\ Tail(s)[i - 1] = x
    BY <1>1, <1>2, <1>4, <2>1
  <2>3. QED
    BY <2>2, <1>2 DEF ToSet
<1>5. ASSUME NEW x \in ToSet(Tail(s)) PROVE x \in ToSet(s) \ {Head(s)}
  <2>1. PICK i \in 1 .. Len(s) - 1 : x = Tail(s)[i]
    BY <1>2, <1>5 DEF ToSet
  <2>2. i + 1 \in 1 .. Len(s) /\ s[i + 1] = x /\ x # s[1]
    BY <1>1, <1>2, <2>1 DEF IsInjective
  <2>3. QED
    BY <2>2, <1>2 DEF ToSet
<1>6. Head(s) \in ToSet(s) /\ Head(s) \in S
  BY <1>2 DEF ToSet
<1>7. QED
  BY <1>1, <1>2, <1>3, <1>4, <1>5, <1>6

\* A new element goes to the end of the list.
LEMMA PutLast ==
  ASSUME NEW S, NEW s \in Seq(S), IsInjective(s), NEW x \in S, x \notin ToSet(s)
  PROVE  /\ Append(s, x) \in Seq(S) /\ IsInjective(Append(s, x)) /\ Len(Append(s, x)) = Len(s) + 1 /\ Len(s) \in Nat
         /\ ToSet(Append(s, x)) = ToSet(s) \cup {x}
<1> DEFINE a == Append(s, x)
<1>1. /\ a \in Seq(S) /\ Len(a) = Len(s) + 1 /\ Len(s) \in Nat
      /\ \A i \in 1 .. Len(s) : a[i] = s[i]
      /\ a[Len(s) + 1] = x
      /\ DOMAIN s = 1 .. Len(s) /\ DOMAIN a = 1 .. Len(s) + 1
  BY AppendProperties
<1> HIDE DEF a
<1>2. \A i \in 1 .. Len(s) : s[i] # x
  BY <1>1 DEF ToSet
<1>3. IsInjective(a)
  BY <1>1, <1>2 DEF IsInjective
<1>4. ASSUME NEW y \in ToSet(a) PROVE y \in ToSet(s) \cup {x}
  <2>1. PICK i \in 1 .. Len(s) + 1 : y = a[i]
    BY <1>1, <1>4 DEF ToSet
  <2>2. CASE i = Len(s) + 1
    BY <1>1, <2>1, <2>2
  <2>3. CASE i \in 1 .. Len(s)
    BY <1>1, <2>1, <2>3 DEF ToSet
  <2>4. QED
    BY <1>1, <2>2, <2>3
<1>5. ASSUME NEW y \in ToSet(s) \cup {x} PROVE y \in ToSet(a)
  <2>1. CASE y = x
    <3>1. Len(s) + 1 \in 1 .. Len(s) + 1
      BY <1>1
    <3>2. QED
      BY <1>1, <2>1, <3>1 DEF ToSet
  <2>2. CASE y \in ToSet(s)
    <3>1. PICK i \in 1 .. Len(s) : y = s[i]
      BY <1>1, <2>2 DEF ToSet
    <3>2. i \in 1 .. Len(s) + 1
      BY <1>1, <3>1
    <3>3. QED
      BY <1>1, <3>1, <3>2 DEF ToSet
  <2>3. QED
    BY <1>5, <2>1, <2>2
<1>6. ToSet(a) = ToSet(s) \cup {x}
  BY <1>4, <1>5
<1>7. QED
  BY <1>1, <1>3, <1>6 DEF a

\* The empty list.
LEMMA EmptyList == IsInjective(<<>>) /\ ToSet(<<>>) = {}
BY DEF IsInjective, ToSet

-----------------------------------------------------------------------------
(* The steps.                                                              *)

\* A task in hand is taken, running or done, and rooted.
LEMMA InHand ==
  ASSUME PoolInv, NEW w \in Workers, task[w] # Nil
  PROVE  /\ task[w] \in Tasks /\ roots[task[w]] = 1
         /\ wpc[w] \in {"safepoint", "run", "unroot"}
         /\ fate[task[w]] = Progress(wpc[w]) /\ fate[task[w]] \in {"taken", "running", "done"}
<1>1. task[w] \in Tasks /\ wpc[w] \in {"safepoint", "run", "unroot"} /\ fate[task[w]] = Progress(wpc[w])
  BY DEF PoolInv, TypeOK, Held
<1>2. fate[task[w]] \in {"taken", "running", "done"}
  BY <1>1 DEF Progress
<1>3. \E v \in Workers : task[v] = task[w]
  OBVIOUS
<1>4. roots[task[w]] = 1
  BY <1>1, <1>3 DEF PoolInv, RootedWhileNeeded
<1>5. QED
  BY <1>1, <1>2, <1>4

\* Every step keeps the types: no root is given back that was not taken.
LEMMA TypeStep ==
  ASSUME PoolInv, [Next]_vars
  PROVE  TypeOK'
<1> USE ActorsAssumption DEF PoolInv, TypeOK, handleVars, poolVars, workerVars, callVars, taskVars, WPC, PC, Actors
<1>1. ASSUME NEW c \in Clients, hao_pool_new(c) PROVE TypeOK'
  BY <1>1 DEF hao_pool_new
<1>2. ASSUME NEW c \in Clients, CreateWorker(c) PROVE TypeOK'
  BY <1>2 DEF CreateWorker
<1>3. ASSUME NEW c \in Clients, CreateFails(c) PROVE TypeOK'
  BY <1>3 DEF CreateFails
<1>4. ASSUME NEW c \in Clients, Attach(c) PROVE TypeOK'
  BY <1>4 DEF Attach
<1>5. ASSUME NEW a \in Actors, Submit(a) PROVE TypeOK'
  BY <1>5 DEF Submit, Free
<1>6. ASSUME NEW a \in Actors, ShutdownRead(a) PROVE TypeOK'
  BY <1>6 DEF ShutdownRead, Free
<1>7. ASSUME NEW a \in Actors, Finalize(a) PROVE TypeOK'
  BY <1>7 DEF Finalize, Free
<1>8. ASSUME NEW a \in Actors, SubmitEnqueue(a) PROVE TypeOK'
  <2>1. CASE shutdown
    <3>1. pc' = [pc EXCEPT ![a] = "refused"] /\ UNCHANGED <<queue, fate>>
      BY <1>8, <2>1 DEF SubmitEnqueue
    <3>2. UNCHANGED <<open, lost, made, created, shutdown, joined, freed, mtx, task, wpc, arg, left, joins, roots, stw>>
      BY <1>8 DEF SubmitEnqueue
    <3>3. QED
      BY <3>1, <3>2
  <2>2. CASE ~shutdown
    <3>1. /\ arg[a] \in Tasks /\ fate[arg[a]] = "offered" /\ arg[a] \notin ToSet(queue) /\ pc[a] = "submit"
      BY <1>8 DEF SubmitEnqueue, Offered, Offering, Queued
    <3>2. /\ Append(queue, arg[a]) \in Seq(Tasks) /\ IsInjective(Append(queue, arg[a]))
          /\ ToSet(Append(queue, arg[a])) = ToSet(queue) \cup {arg[a]}
      BY <3>1, PutLast
    <3>3. /\ queue' = Append(queue, arg[a]) /\ fate' = [fate EXCEPT ![arg[a]] = "queued"]
          /\ pc' = [pc EXCEPT ![a] = "signal"]
          /\ UNCHANGED <<open, lost, made, created, shutdown, joined, freed, mtx, task, wpc, arg, left, joins, roots, stw>>
      BY <1>8, <2>2 DEF SubmitEnqueue
    <3>4. QED
      BY <3>1, <3>2, <3>3
  <2>3. QED
    BY <2>1, <2>2
<1>9. ASSUME NEW a \in Actors, SubmitSignal(a) PROVE TypeOK'
  BY <1>9 DEF SubmitSignal, Wake, Sleepers
<1>10. ASSUME NEW a \in Actors, SubmitRefused(a) PROVE TypeOK'
  <2>1. arg[a] \in Tasks /\ roots[arg[a]] - 1 \in Nat
    BY <1>10 DEF SubmitRefused, Offered, Offering, RootedWhileNeeded
  <2>2. QED
    BY <1>10, <2>1 DEF SubmitRefused
<1>11. ASSUME NEW a \in Actors, ShutdownClose(a) PROVE TypeOK'
  BY <1>11 DEF ShutdownClose
<1>12. ASSUME NEW a \in Actors, DestroyFlag(a) PROVE TypeOK'
  BY <1>12 DEF DestroyFlag
<1>13. ASSUME NEW a \in Actors, DestroyBroadcast(a) PROVE TypeOK'
  BY <1>13 DEF DestroyBroadcast, Wake, Sleepers
<1>14. ASSUME NEW a \in Actors, JoinWorker(a) PROVE TypeOK'
  BY <1>14 DEF JoinWorker
<1>15. ASSUME NEW a \in Actors, DestroyEnds(a) PROVE TypeOK'
  <2>1. \A t \in ToSet(queue) : t \in Tasks => roots[t] - 1 \in Nat
    BY DEF RootedWhileNeeded, Queued
  <2>2. QED
    BY <1>15, <2>1, EmptyList DEF DestroyEnds
<1>16. ASSUME NEW w \in Workers, WorkerSleeps(w) PROVE TypeOK'
  BY <1>16 DEF WorkerSleeps, HasMutex
<1>17. ASSUME NEW w \in Workers, WorkerTakes(w) PROVE TypeOK'
  <2>1. /\ queue \in Seq(Tasks) /\ IsInjective(queue) /\ queue # <<>>
        /\ Tail(queue) \in Seq(Tasks) /\ IsInjective(Tail(queue)) /\ Head(queue) \in Tasks /\ Head(queue) \in ToSet(queue)
        /\ ToSet(Tail(queue)) = ToSet(queue) \ {Head(queue)}
    BY <1>17, TakeFirst DEF WorkerTakes
  <2>2. QED
    BY <1>17, <2>1 DEF WorkerTakes, HasMutex
<1>18. ASSUME NEW w \in Workers, WorkerEnds(w) PROVE TypeOK'
  BY <1>18 DEF WorkerEnds, HasMutex
<1>19. ASSUME NEW w \in Workers, WorkerWakes(w) PROVE TypeOK'
  BY <1>19 DEF WorkerWakes
<1>20. ASSUME NEW w \in Workers, WorkerPastStop(w) PROVE TypeOK'
  <2>1. CASE wpc[w] = "safepoint"
    <3>1. /\ task[w] \in Tasks
          /\ wpc' = [wpc EXCEPT ![w] = "run"] /\ fate' = [fate EXCEPT ![task[w]] = "running"]
          /\ UNCHANGED <<open, lost, made, created, queue, shutdown, joined, freed, mtx, task, pc, arg, left, joins, roots, stw>>
      BY <1>20, <2>1 DEF WorkerPastStop
    <3>2. QED
      BY <2>1, <3>1
  <2>2. CASE wpc[w] # "safepoint"
    <3>1. PICK p \in {"lock", "gone"} : wpc' = [wpc EXCEPT ![w] = p]
      BY <1>20, <2>2 DEF WorkerPastStop
    <3>2. /\ wpc[w] \in {"disarm", "exit"}
          /\ UNCHANGED <<open, lost, made, created, queue, shutdown, joined, freed, mtx, task, pc, arg, left, joins, roots,
                         fate, stw>>
      BY <1>20, <2>2 DEF WorkerPastStop
    <3>3. QED
      BY <3>1, <3>2
  <2>3. QED
    BY <2>1, <2>2
<1>21. ASSUME NEW w \in Workers, TaskReturns(w) PROVE TypeOK'
  <2>1. task[w] \in Tasks
    BY <1>21 DEF TaskReturns
  <2>2. QED
    BY <1>21, <2>1 DEF TaskReturns
<1>22. ASSUME NEW w \in Workers, WorkerUnroots(w) PROVE TypeOK'
  <2>1. task[w] \in Tasks /\ roots[task[w]] - 1 \in Nat
    BY <1>22, InHand DEF WorkerUnroots
  <2>2. QED
    BY <1>22, <2>1 DEF WorkerUnroots
<1>23. ASSUME NEW w \in Workers, SpuriousWake(w) PROVE TypeOK'
  BY <1>23 DEF SpuriousWake, Wake
<1>24. CASE LoseHandle
  BY <1>24 DEF LoseHandle
<1>25. CASE StwRequest
  BY <1>25 DEF StwRequest
<1>26. CASE StwRelease
  BY <1>26 DEF StwRelease
<1>27. CASE UNCHANGED vars
  BY <1>27 DEF vars
<1>28. QED
  BY <1>1, <1>2, <1>3, <1>4, <1>5, <1>6, <1>7, <1>8, <1>9, <1>10, <1>11, <1>12, <1>13, <1>14, <1>15, <1>16, <1>17, <1>18, <1>19, <1>20, <1>21, <1>22, <1>23, <1>24, <1>25, <1>26, <1>27 DEF Next, CallStep, WorkerStep

\* The list and the fate of the tasks agree.
LEMMA QueuedStep ==
  ASSUME PoolInv, [Next]_vars
  PROVE  Queued' /\ NoOwner'
<1> USE ActorsAssumption DEF PoolInv, TypeOK, handleVars, poolVars, workerVars, callVars, taskVars, WPC, PC, Actors, Queued, NoOwner
<1>1. ASSUME NEW c \in Clients, hao_pool_new(c) PROVE Queued' /\ NoOwner'
  BY <1>1 DEF hao_pool_new
<1>2. ASSUME NEW c \in Clients, CreateWorker(c) PROVE Queued' /\ NoOwner'
  BY <1>2 DEF CreateWorker
<1>3. ASSUME NEW c \in Clients, CreateFails(c) PROVE Queued' /\ NoOwner'
  BY <1>3 DEF CreateFails
<1>4. ASSUME NEW c \in Clients, Attach(c) PROVE Queued' /\ NoOwner'
  BY <1>4 DEF Attach
<1>5. ASSUME NEW a \in Actors, Submit(a) PROVE Queued' /\ NoOwner'
  BY <1>5 DEF Submit, Free
<1>6. ASSUME NEW a \in Actors, ShutdownRead(a) PROVE Queued' /\ NoOwner'
  BY <1>6 DEF ShutdownRead, Free
<1>7. ASSUME NEW a \in Actors, Finalize(a) PROVE Queued' /\ NoOwner'
  BY <1>7 DEF Finalize, Free
<1>8. ASSUME NEW a \in Actors, SubmitEnqueue(a) PROVE Queued' /\ NoOwner'
  <2>1. CASE shutdown
    BY <1>8, <2>1 DEF SubmitEnqueue
  <2>2. CASE ~shutdown
    <3>1. /\ arg[a] \in Tasks /\ fate[arg[a]] = "offered" /\ arg[a] \notin ToSet(queue) /\ pc[a] = "submit"
      BY <1>8 DEF SubmitEnqueue, Offered, Offering, Queued
    <3>2. /\ Append(queue, arg[a]) \in Seq(Tasks) /\ IsInjective(Append(queue, arg[a]))
          /\ ToSet(Append(queue, arg[a])) = ToSet(queue) \cup {arg[a]}
      BY <3>1, PutLast
    <3>3. /\ queue' = Append(queue, arg[a]) /\ fate' = [fate EXCEPT ![arg[a]] = "queued"]
          /\ pc' = [pc EXCEPT ![a] = "signal"]
          /\ UNCHANGED <<open, lost, made, created, shutdown, joined, freed, mtx, task, wpc, arg, left, joins, roots, stw>>
      BY <1>8, <2>2 DEF SubmitEnqueue
    <3>4. QED
      BY <3>1, <3>2, <3>3
  <2>3. QED
    BY <2>1, <2>2
<1>9. ASSUME NEW a \in Actors, SubmitSignal(a) PROVE Queued' /\ NoOwner'
  BY <1>9 DEF SubmitSignal, Wake, Sleepers
<1>10. ASSUME NEW a \in Actors, SubmitRefused(a) PROVE Queued' /\ NoOwner'
  <2>1. arg[a] \in Tasks /\ fate[arg[a]] = "offered" /\ arg[a] \notin ToSet(queue)
    BY <1>10 DEF SubmitRefused, Offered, Offering, Queued
  <2>2. QED
    BY <1>10, <2>1 DEF SubmitRefused
<1>11. ASSUME NEW a \in Actors, ShutdownClose(a) PROVE Queued' /\ NoOwner'
  BY <1>11 DEF ShutdownClose
<1>12. ASSUME NEW a \in Actors, DestroyFlag(a) PROVE Queued' /\ NoOwner'
  BY <1>12 DEF DestroyFlag
<1>13. ASSUME NEW a \in Actors, DestroyBroadcast(a) PROVE Queued' /\ NoOwner'
  BY <1>13 DEF DestroyBroadcast, Wake, Sleepers
<1>14. ASSUME NEW a \in Actors, JoinWorker(a) PROVE Queued' /\ NoOwner'
  BY <1>14 DEF JoinWorker
<1>15. ASSUME NEW a \in Actors, DestroyEnds(a) PROVE Queued' /\ NoOwner'
  BY <1>15, EmptyList DEF DestroyEnds
<1>16. ASSUME NEW w \in Workers, WorkerSleeps(w) PROVE Queued' /\ NoOwner'
  BY <1>16 DEF WorkerSleeps, HasMutex
<1>17. ASSUME NEW w \in Workers, WorkerTakes(w) PROVE Queued' /\ NoOwner'
  <2>1. /\ queue \in Seq(Tasks) /\ IsInjective(queue) /\ queue # <<>>
        /\ Tail(queue) \in Seq(Tasks) /\ IsInjective(Tail(queue)) /\ Head(queue) \in Tasks /\ Head(queue) \in ToSet(queue)
        /\ ToSet(Tail(queue)) = ToSet(queue) \ {Head(queue)}
    BY <1>17, TakeFirst DEF WorkerTakes
  <2>2. QED
    BY <1>17, <2>1 DEF WorkerTakes, HasMutex
<1>18. ASSUME NEW w \in Workers, WorkerEnds(w) PROVE Queued' /\ NoOwner'
  BY <1>18 DEF WorkerEnds, HasMutex
<1>19. ASSUME NEW w \in Workers, WorkerWakes(w) PROVE Queued' /\ NoOwner'
  BY <1>19 DEF WorkerWakes
<1>20. ASSUME NEW w \in Workers, WorkerPastStop(w) PROVE Queued' /\ NoOwner'
  <2>1. CASE wpc[w] = "safepoint"
    <3>1. /\ task[w] \in Tasks
          /\ wpc' = [wpc EXCEPT ![w] = "run"] /\ fate' = [fate EXCEPT ![task[w]] = "running"]
          /\ UNCHANGED <<open, lost, made, created, queue, shutdown, joined, freed, mtx, task, pc, arg, left, joins, roots, stw>>
      BY <1>20, <2>1 DEF WorkerPastStop
    <3>2. fate[task[w]] = "taken"
      BY <2>1, InHand DEF Progress
    <3>3. QED
      BY <2>1, <3>1, <3>2
  <2>2. CASE wpc[w] # "safepoint"
    <3>1. PICK p \in {"lock", "gone"} : wpc' = [wpc EXCEPT ![w] = p]
      BY <1>20, <2>2 DEF WorkerPastStop
    <3>2. /\ wpc[w] \in {"disarm", "exit"}
          /\ UNCHANGED <<open, lost, made, created, queue, shutdown, joined, freed, mtx, task, pc, arg, left, joins, roots,
                         fate, stw>>
      BY <1>20, <2>2 DEF WorkerPastStop
    <3>3. QED
      BY <3>1, <3>2
  <2>3. QED
    BY <2>1, <2>2
<1>21. ASSUME NEW w \in Workers, TaskReturns(w) PROVE Queued' /\ NoOwner'
  <2>1. task[w] \in Tasks /\ fate[task[w]] # "queued"
    BY <1>21, InHand DEF TaskReturns
  <2>2. QED
    BY <1>21, <2>1 DEF TaskReturns
<1>22. ASSUME NEW w \in Workers, WorkerUnroots(w) PROVE Queued' /\ NoOwner'
  BY <1>22 DEF WorkerUnroots
<1>23. ASSUME NEW w \in Workers, SpuriousWake(w) PROVE Queued' /\ NoOwner'
  BY <1>23 DEF SpuriousWake, Wake
<1>24. CASE LoseHandle
  BY <1>24 DEF LoseHandle
<1>25. CASE StwRequest
  BY <1>25 DEF StwRequest
<1>26. CASE StwRelease
  BY <1>26 DEF StwRelease
<1>27. CASE UNCHANGED vars
  BY <1>27 DEF vars
<1>28. QED
  BY <1>1, <1>2, <1>3, <1>4, <1>5, <1>6, <1>7, <1>8, <1>9, <1>10, <1>11, <1>12, <1>13, <1>14, <1>15, <1>16, <1>17, <1>18, <1>19, <1>20, <1>21, <1>22, <1>23, <1>24, <1>25, <1>26, <1>27 DEF Next, CallStep, WorkerStep

\* A worker takes a task nobody else has.
LEMMA HeldStep ==
  ASSUME PoolInv, [Next]_vars
  PROVE  Held'
<1> USE ActorsAssumption DEF PoolInv, TypeOK, handleVars, poolVars, workerVars, callVars, taskVars, WPC, PC, Actors, Held, Progress
<1>1. ASSUME NEW c \in Clients, hao_pool_new(c) PROVE Held'
  BY <1>1 DEF hao_pool_new
<1>2. ASSUME NEW c \in Clients, CreateWorker(c) PROVE Held'
  BY <1>2 DEF CreateWorker
<1>3. ASSUME NEW c \in Clients, CreateFails(c) PROVE Held'
  BY <1>3 DEF CreateFails
<1>4. ASSUME NEW c \in Clients, Attach(c) PROVE Held'
  BY <1>4 DEF Attach
<1>5. ASSUME NEW a \in Actors, Submit(a) PROVE Held'
  BY <1>5 DEF Submit, Free
<1>6. ASSUME NEW a \in Actors, ShutdownRead(a) PROVE Held'
  BY <1>6 DEF ShutdownRead, Free
<1>7. ASSUME NEW a \in Actors, Finalize(a) PROVE Held'
  BY <1>7 DEF Finalize, Free
<1>8. ASSUME NEW a \in Actors, SubmitEnqueue(a) PROVE Held'
  <2>1. CASE shutdown
    BY <1>8, <2>1 DEF SubmitEnqueue, Queued
  <2>2. CASE ~shutdown
    <3>1. /\ arg[a] \in Tasks /\ fate[arg[a]] = "offered" /\ arg[a] \notin ToSet(queue) /\ pc[a] = "submit"
      BY <1>8 DEF SubmitEnqueue, Offered, Offering, Queued
    <3>2. /\ Append(queue, arg[a]) \in Seq(Tasks) /\ IsInjective(Append(queue, arg[a]))
          /\ ToSet(Append(queue, arg[a])) = ToSet(queue) \cup {arg[a]}
      BY <3>1, PutLast
    <3>3. /\ queue' = Append(queue, arg[a]) /\ fate' = [fate EXCEPT ![arg[a]] = "queued"]
          /\ pc' = [pc EXCEPT ![a] = "signal"]
          /\ UNCHANGED <<open, lost, made, created, shutdown, joined, freed, mtx, task, wpc, arg, left, joins, roots, stw>>
      BY <1>8, <2>2 DEF SubmitEnqueue
    <3>4. QED
      BY <3>1, <3>2, <3>3 DEF Queued
  <2>3. QED
    BY <2>1, <2>2
<1>9. ASSUME NEW a \in Actors, SubmitSignal(a) PROVE Held'
  BY <1>9 DEF SubmitSignal, Wake, Sleepers
<1>10. ASSUME NEW a \in Actors, SubmitRefused(a) PROVE Held'
  <2>1. arg[a] \in Tasks /\ fate[arg[a]] = "offered" /\ arg[a] \notin ToSet(queue)
    BY <1>10 DEF SubmitRefused, Offered, Offering, Queued
  <2>2. QED
    BY <1>10, <2>1 DEF SubmitRefused, Queued
<1>11. ASSUME NEW a \in Actors, ShutdownClose(a) PROVE Held'
  BY <1>11 DEF ShutdownClose
<1>12. ASSUME NEW a \in Actors, DestroyFlag(a) PROVE Held'
  BY <1>12 DEF DestroyFlag
<1>13. ASSUME NEW a \in Actors, DestroyBroadcast(a) PROVE Held'
  BY <1>13 DEF DestroyBroadcast, Wake, Sleepers
<1>14. ASSUME NEW a \in Actors, JoinWorker(a) PROVE Held'
  BY <1>14 DEF JoinWorker
<1>15. ASSUME NEW a \in Actors, DestroyEnds(a) PROVE Held'
  BY <1>15, EmptyList DEF DestroyEnds, Queued
<1>16. ASSUME NEW w \in Workers, WorkerSleeps(w) PROVE Held'
  BY <1>16 DEF WorkerSleeps, HasMutex
<1>17. ASSUME NEW w \in Workers, WorkerTakes(w) PROVE Held'
  <2>1. /\ queue \in Seq(Tasks) /\ IsInjective(queue) /\ queue # <<>>
        /\ Head(queue) \in Tasks /\ Head(queue) \in ToSet(queue)
    BY <1>17, TakeFirst DEF WorkerTakes
  <2>2. /\ fate[Head(queue)] = "queued" /\ task[w] = Nil
        /\ task' = [task EXCEPT ![w] = Head(queue)] /\ fate' = [fate EXCEPT ![Head(queue)] = "taken"]
        /\ wpc' = [wpc EXCEPT ![w] = "safepoint"]
    BY <1>17, <2>1 DEF WorkerTakes, HasMutex, Queued
  <2>3. \A v \in Workers : task[v] # Nil => task[v] # Head(queue)
    BY <2>2, InHand
  <2>4. \A v \in Workers : task'[v] # Nil => fate'[task'[v]] = Progress(wpc'[v])
    <3> SUFFICES ASSUME NEW v \in Workers, task'[v] # Nil PROVE fate'[task'[v]] = Progress(wpc'[v])
      OBVIOUS
    <3>1. CASE v = w
      BY <2>1, <2>2, <3>1
    <3>2. CASE v # w
      <4>1. task'[v] = task[v] /\ wpc'[v] = wpc[v] /\ fate'[task[v]] = fate[task[v]]
        BY <2>2, <2>3, <3>2, InHand
      <4>2. QED
        BY <3>2, <4>1
    <3>3. QED
      BY <3>1, <3>2
  <2>5. \A u, v \in Workers : task'[u] = task'[v] /\ task'[u] # Nil => u = v
    BY <2>1, <2>2, <2>3
  <2>6. QED
    BY <2>4, <2>5
<1>18. ASSUME NEW w \in Workers, WorkerEnds(w) PROVE Held'
  BY <1>18 DEF WorkerEnds, HasMutex
<1>19. ASSUME NEW w \in Workers, WorkerWakes(w) PROVE Held'
  BY <1>19 DEF WorkerWakes
<1>20. ASSUME NEW w \in Workers, WorkerPastStop(w) PROVE Held'
  <2>1. CASE wpc[w] = "safepoint"
    <3>1. /\ task[w] \in Tasks
          /\ wpc' = [wpc EXCEPT ![w] = "run"] /\ fate' = [fate EXCEPT ![task[w]] = "running"]
          /\ UNCHANGED <<open, lost, made, created, queue, shutdown, joined, freed, mtx, task, pc, arg, left, joins, roots, stw>>
      BY <1>20, <2>1 DEF WorkerPastStop
    <3>2. \A v \in Workers : task'[v] # Nil => fate'[task'[v]] = Progress(wpc'[v])
      <4> SUFFICES ASSUME NEW v \in Workers, task'[v] # Nil PROVE fate'[task'[v]] = Progress(wpc'[v])
        OBVIOUS
      <4>1. CASE v = w
        BY <3>1, <4>1
      <4>2. CASE v # w
        <5>1. task[v] # task[w] /\ wpc'[v] = wpc[v] /\ fate'[task[v]] = fate[task[v]]
          BY <2>1, <3>1, <4>2, InHand
        <5>2. QED
          BY <3>1, <5>1
      <4>3. QED
        BY <4>1, <4>2
    <3>3. QED
      BY <3>1, <3>2
  <2>2. CASE wpc[w] # "safepoint"
    <3>1. PICK p \in {"lock", "gone"} : wpc' = [wpc EXCEPT ![w] = p]
      BY <1>20, <2>2 DEF WorkerPastStop
    <3>2. /\ wpc[w] \in {"disarm", "exit"}
          /\ UNCHANGED <<open, lost, made, created, queue, shutdown, joined, freed, mtx, task, pc, arg, left, joins, roots,
                         fate, stw>>
      BY <1>20, <2>2 DEF WorkerPastStop
    <3>3. QED
      BY <3>1, <3>2
  <2>3. QED
    BY <2>1, <2>2
<1>21. ASSUME NEW w \in Workers, TaskReturns(w) PROVE Held'
  <2>1. /\ task[w] \in Tasks /\ task' = task
        /\ wpc' = [wpc EXCEPT ![w] = "unroot"] /\ fate' = [fate EXCEPT ![task[w]] = "done"]
    BY <1>21 DEF TaskReturns
  <2>2. \A v \in Workers : task'[v] # Nil => fate'[task'[v]] = Progress(wpc'[v])
    <3> SUFFICES ASSUME NEW v \in Workers, task'[v] # Nil PROVE fate'[task'[v]] = Progress(wpc'[v])
      OBVIOUS
    <3>1. CASE v = w
      BY <2>1, <3>1
    <3>2. CASE v # w
      <4>1. task[v] # task[w] /\ wpc'[v] = wpc[v] /\ fate'[task[v]] = fate[task[v]]
        BY <2>1, <3>2, InHand
      <4>2. QED
        BY <2>1, <4>1
    <3>3. QED
      BY <3>1, <3>2
  <2>3. QED
    BY <2>1, <2>2
<1>22. ASSUME NEW w \in Workers, WorkerUnroots(w) PROVE Held'
  BY <1>22 DEF WorkerUnroots
<1>23. ASSUME NEW w \in Workers, SpuriousWake(w) PROVE Held'
  BY <1>23 DEF SpuriousWake, Wake
<1>24. CASE LoseHandle
  BY <1>24 DEF LoseHandle
<1>25. CASE StwRequest
  BY <1>25 DEF StwRequest
<1>26. CASE StwRelease
  BY <1>26 DEF StwRelease
<1>27. CASE UNCHANGED vars
  BY <1>27 DEF vars
<1>28. QED
  BY <1>1, <1>2, <1>3, <1>4, <1>5, <1>6, <1>7, <1>8, <1>9, <1>10, <1>11, <1>12, <1>13, <1>14, <1>15, <1>16, <1>17, <1>18, <1>19, <1>20, <1>21, <1>22, <1>23, <1>24, <1>25, <1>26, <1>27 DEF Next, CallStep, WorkerStep

\* A call offers a task nobody else does.
LEMMA OfferedStep ==
  ASSUME PoolInv, [Next]_vars
  PROVE  Offered'
<1> USE ActorsAssumption DEF PoolInv, TypeOK, handleVars, poolVars, workerVars, callVars, taskVars, WPC, PC, Actors, Offered, Offering
<1>1. ASSUME NEW c \in Clients, hao_pool_new(c) PROVE Offered'
  BY <1>1 DEF hao_pool_new
<1>2. ASSUME NEW c \in Clients, CreateWorker(c) PROVE Offered'
  BY <1>2 DEF CreateWorker
<1>3. ASSUME NEW c \in Clients, CreateFails(c) PROVE Offered'
  BY <1>3 DEF CreateFails
<1>4. ASSUME NEW c \in Clients, Attach(c) PROVE Offered'
  BY <1>4 DEF Attach
<1>5. ASSUME NEW a \in Actors, Submit(a) PROVE Offered'
  BY <1>5 DEF Submit, Free
<1>6. ASSUME NEW a \in Actors, ShutdownRead(a) PROVE Offered'
  BY <1>6 DEF ShutdownRead, Free
<1>7. ASSUME NEW a \in Actors, Finalize(a) PROVE Offered'
  BY <1>7 DEF Finalize, Free
<1>8. ASSUME NEW a \in Actors, SubmitEnqueue(a) PROVE Offered'
  <2>1. CASE shutdown
    BY <1>8, <2>1 DEF SubmitEnqueue, Queued
  <2>2. CASE ~shutdown
    <3>1. /\ arg[a] \in Tasks /\ fate[arg[a]] = "offered" /\ arg[a] \notin ToSet(queue) /\ pc[a] = "submit"
      BY <1>8 DEF SubmitEnqueue, Offered, Offering, Queued
    <3>2. /\ Append(queue, arg[a]) \in Seq(Tasks) /\ IsInjective(Append(queue, arg[a]))
          /\ ToSet(Append(queue, arg[a])) = ToSet(queue) \cup {arg[a]}
      BY <3>1, PutLast
    <3>3. /\ queue' = Append(queue, arg[a]) /\ fate' = [fate EXCEPT ![arg[a]] = "queued"]
          /\ pc' = [pc EXCEPT ![a] = "signal"]
          /\ UNCHANGED <<open, lost, made, created, shutdown, joined, freed, mtx, task, wpc, arg, left, joins, roots, stw>>
      BY <1>8, <2>2 DEF SubmitEnqueue
    <3>4. QED
      BY <3>1, <3>2, <3>3 DEF Queued
  <2>3. QED
    BY <2>1, <2>2
<1>9. ASSUME NEW a \in Actors, SubmitSignal(a) PROVE Offered'
  BY <1>9 DEF SubmitSignal, Wake, Sleepers
<1>10. ASSUME NEW a \in Actors, SubmitRefused(a) PROVE Offered'
  <2>1. arg[a] \in Tasks /\ fate[arg[a]] = "offered" /\ arg[a] \notin ToSet(queue)
    BY <1>10 DEF SubmitRefused, Offered, Offering, Queued
  <2>2. QED
    BY <1>10, <2>1 DEF SubmitRefused, Queued
<1>11. ASSUME NEW a \in Actors, ShutdownClose(a) PROVE Offered'
  BY <1>11 DEF ShutdownClose
<1>12. ASSUME NEW a \in Actors, DestroyFlag(a) PROVE Offered'
  BY <1>12 DEF DestroyFlag
<1>13. ASSUME NEW a \in Actors, DestroyBroadcast(a) PROVE Offered'
  BY <1>13 DEF DestroyBroadcast, Wake, Sleepers
<1>14. ASSUME NEW a \in Actors, JoinWorker(a) PROVE Offered'
  BY <1>14 DEF JoinWorker
<1>15. ASSUME NEW a \in Actors, DestroyEnds(a) PROVE Offered'
  BY <1>15, EmptyList DEF DestroyEnds, Queued
<1>16. ASSUME NEW w \in Workers, WorkerSleeps(w) PROVE Offered'
  BY <1>16 DEF WorkerSleeps, HasMutex
<1>17. ASSUME NEW w \in Workers, WorkerTakes(w) PROVE Offered'
  <2>1. /\ queue \in Seq(Tasks) /\ IsInjective(queue) /\ queue # <<>>
        /\ Tail(queue) \in Seq(Tasks) /\ IsInjective(Tail(queue)) /\ Head(queue) \in Tasks /\ Head(queue) \in ToSet(queue)
        /\ ToSet(Tail(queue)) = ToSet(queue) \ {Head(queue)}
    BY <1>17, TakeFirst DEF WorkerTakes
  <2>2. QED
    BY <1>17, <2>1 DEF WorkerTakes, HasMutex, Queued
<1>18. ASSUME NEW w \in Workers, WorkerEnds(w) PROVE Offered'
  BY <1>18 DEF WorkerEnds, HasMutex
<1>19. ASSUME NEW w \in Workers, WorkerWakes(w) PROVE Offered'
  BY <1>19 DEF WorkerWakes
<1>20. ASSUME NEW w \in Workers, WorkerPastStop(w) PROVE Offered'
  <2>1. CASE wpc[w] = "safepoint"
    <3>1. /\ task[w] \in Tasks
          /\ wpc' = [wpc EXCEPT ![w] = "run"] /\ fate' = [fate EXCEPT ![task[w]] = "running"]
          /\ UNCHANGED <<open, lost, made, created, queue, shutdown, joined, freed, mtx, task, pc, arg, left, joins, roots, stw>>
      BY <1>20, <2>1 DEF WorkerPastStop
    <3>2. fate[task[w]] = "taken"
      BY <2>1, InHand DEF Progress
    <3>3. QED
      BY <2>1, <3>1, <3>2
  <2>2. CASE wpc[w] # "safepoint"
    <3>1. PICK p \in {"lock", "gone"} : wpc' = [wpc EXCEPT ![w] = p]
      BY <1>20, <2>2 DEF WorkerPastStop
    <3>2. /\ wpc[w] \in {"disarm", "exit"}
          /\ UNCHANGED <<open, lost, made, created, queue, shutdown, joined, freed, mtx, task, pc, arg, left, joins, roots,
                         fate, stw>>
      BY <1>20, <2>2 DEF WorkerPastStop
    <3>3. QED
      BY <3>1, <3>2
  <2>3. QED
    BY <2>1, <2>2
<1>21. ASSUME NEW w \in Workers, TaskReturns(w) PROVE Offered'
  <2>1. task[w] \in Tasks /\ fate[task[w]] # "offered"
    BY <1>21, InHand DEF TaskReturns
  <2>2. QED
    BY <1>21, <2>1 DEF TaskReturns
<1>22. ASSUME NEW w \in Workers, WorkerUnroots(w) PROVE Offered'
  BY <1>22 DEF WorkerUnroots
<1>23. ASSUME NEW w \in Workers, SpuriousWake(w) PROVE Offered'
  BY <1>23 DEF SpuriousWake, Wake
<1>24. CASE LoseHandle
  BY <1>24 DEF LoseHandle
<1>25. CASE StwRequest
  BY <1>25 DEF StwRequest
<1>26. CASE StwRelease
  BY <1>26 DEF StwRelease
<1>27. CASE UNCHANGED vars
  BY <1>27 DEF vars
<1>28. QED
  BY <1>1, <1>2, <1>3, <1>4, <1>5, <1>6, <1>7, <1>8, <1>9, <1>10, <1>11, <1>12, <1>13, <1>14, <1>15, <1>16, <1>17, <1>18, <1>19, <1>20, <1>21, <1>22, <1>23, <1>24, <1>25, <1>26, <1>27 DEF Next, CallStep, WorkerStep

\* Roots are taken and given back with the need for them.
LEMMA RootedStep ==
  ASSUME PoolInv, [Next]_vars
  PROVE  RootedWhileNeeded'
<1> USE ActorsAssumption DEF PoolInv, TypeOK, handleVars, poolVars, workerVars, callVars, taskVars, WPC, PC, Actors, RootedWhileNeeded
<1>1. ASSUME NEW c \in Clients, hao_pool_new(c) PROVE RootedWhileNeeded'
  BY <1>1 DEF hao_pool_new
<1>2. ASSUME NEW c \in Clients, CreateWorker(c) PROVE RootedWhileNeeded'
  BY <1>2 DEF CreateWorker
<1>3. ASSUME NEW c \in Clients, CreateFails(c) PROVE RootedWhileNeeded'
  BY <1>3 DEF CreateFails
<1>4. ASSUME NEW c \in Clients, Attach(c) PROVE RootedWhileNeeded'
  BY <1>4 DEF Attach
<1>5. ASSUME NEW a \in Actors, Submit(a) PROVE RootedWhileNeeded'
  <2>1. PICK t \in Tasks : fate[t] = "new" /\ fate' = [fate EXCEPT ![t] = "offered"] /\ roots' = [roots EXCEPT ![t] = @ + 1]
    BY <1>5 DEF Submit
  <2>2. \A w \in Workers : task[w] # t
    <3>1. t # Nil
      OBVIOUS
    <3>2. QED
      BY <2>1, <3>1, InHand
  <2>3. roots[t] = 0
    BY <2>1, <2>2
  <2>4. roots' = [roots EXCEPT ![t] = 1] /\ fate' = [fate EXCEPT ![t] = "offered"]
    BY <2>1, <2>3
  <2>5. task' = task
    BY <1>5 DEF Submit
  <2>6. QED
    BY <2>2, <2>4, <2>5
<1>6. ASSUME NEW a \in Actors, ShutdownRead(a) PROVE RootedWhileNeeded'
  BY <1>6 DEF ShutdownRead, Free
<1>7. ASSUME NEW a \in Actors, Finalize(a) PROVE RootedWhileNeeded'
  BY <1>7 DEF Finalize, Free
<1>8. ASSUME NEW a \in Actors, SubmitEnqueue(a) PROVE RootedWhileNeeded'
  <2>1. CASE shutdown
    BY <1>8, <2>1 DEF SubmitEnqueue, Queued
  <2>2. CASE ~shutdown
    <3>1. /\ arg[a] \in Tasks /\ fate[arg[a]] = "offered" /\ arg[a] \notin ToSet(queue) /\ pc[a] = "submit"
      BY <1>8 DEF SubmitEnqueue, Offered, Offering, Queued
    <3>2. /\ Append(queue, arg[a]) \in Seq(Tasks) /\ IsInjective(Append(queue, arg[a]))
          /\ ToSet(Append(queue, arg[a])) = ToSet(queue) \cup {arg[a]}
      BY <3>1, PutLast
    <3>3. /\ queue' = Append(queue, arg[a]) /\ fate' = [fate EXCEPT ![arg[a]] = "queued"]
          /\ pc' = [pc EXCEPT ![a] = "signal"]
          /\ UNCHANGED <<open, lost, made, created, shutdown, joined, freed, mtx, task, wpc, arg, left, joins, roots, stw>>
      BY <1>8, <2>2 DEF SubmitEnqueue
    <3>4. QED
      BY <3>1, <3>2, <3>3 DEF Queued
  <2>3. QED
    BY <2>1, <2>2
<1>9. ASSUME NEW a \in Actors, SubmitSignal(a) PROVE RootedWhileNeeded'
  BY <1>9 DEF SubmitSignal, Wake, Sleepers
<1>10. ASSUME NEW a \in Actors, SubmitRefused(a) PROVE RootedWhileNeeded'
  <2>1. arg[a] \in Tasks /\ fate[arg[a]] = "offered"
    BY <1>10 DEF SubmitRefused, Offered, Offering
  <2>2. \A w \in Workers : task[w] # arg[a]
    <3> SUFFICES ASSUME NEW w \in Workers, task[w] = arg[a] PROVE FALSE
      OBVIOUS
    <3>1. task[w] # Nil
      BY <2>1, ActorsAssumption
    <3>2. fate[task[w]] \in {"taken", "running", "done"}
      BY <3>1, InHand
    <3>3. QED
      BY <2>1, <3>2
  <2>3. roots[arg[a]] = 1
    BY <2>1
  <2>4. /\ roots' = [roots EXCEPT ![arg[a]] = 0] /\ fate' = [fate EXCEPT ![arg[a]] = "refused"] /\ task' = task
    BY <1>10, <2>1, <2>3 DEF SubmitRefused
  <2>5. QED
    BY <2>1, <2>2, <2>4
<1>11. ASSUME NEW a \in Actors, ShutdownClose(a) PROVE RootedWhileNeeded'
  BY <1>11 DEF ShutdownClose
<1>12. ASSUME NEW a \in Actors, DestroyFlag(a) PROVE RootedWhileNeeded'
  BY <1>12 DEF DestroyFlag
<1>13. ASSUME NEW a \in Actors, DestroyBroadcast(a) PROVE RootedWhileNeeded'
  BY <1>13 DEF DestroyBroadcast, Wake, Sleepers
<1>14. ASSUME NEW a \in Actors, JoinWorker(a) PROVE RootedWhileNeeded'
  BY <1>14 DEF JoinWorker
<1>15. ASSUME NEW a \in Actors, DestroyEnds(a) PROVE RootedWhileNeeded'
  <2>1. ASSUME NEW t \in Tasks, t \in ToSet(queue) PROVE roots[t] = 1 /\ \A w \in Workers : task[w] # t
    <3>1. fate[t] = "queued" /\ t # Nil
      BY <2>1 DEF Queued
    <3>2. QED
      BY <3>1, InHand
  <2>2. /\ \A t \in Tasks : roots'[t] = (IF t \in ToSet(queue) THEN roots[t] - 1 ELSE roots[t])
        /\ \A t \in Tasks : fate'[t] = (IF t \in ToSet(queue) THEN "drained" ELSE fate[t])
        /\ task' = task
    BY <1>15 DEF DestroyEnds
  <2>3. QED
    BY <2>1, <2>2
<1>16. ASSUME NEW w \in Workers, WorkerSleeps(w) PROVE RootedWhileNeeded'
  BY <1>16 DEF WorkerSleeps, HasMutex
<1>17. ASSUME NEW w \in Workers, WorkerTakes(w) PROVE RootedWhileNeeded'
  <2>1. Head(queue) \in Tasks /\ Head(queue) \in ToSet(queue)
    BY <1>17, TakeFirst DEF WorkerTakes
  <2>2. /\ fate[Head(queue)] = "queued" /\ task[w] = Nil
        /\ task' = [task EXCEPT ![w] = Head(queue)] /\ fate' = [fate EXCEPT ![Head(queue)] = "taken"]
        /\ roots' = roots
    BY <1>17, <2>1 DEF WorkerTakes, HasMutex, Queued
  <2>3. \A t \in Tasks : t # Head(queue) => ((\E v \in Workers : task'[v] = t) <=> \E v \in Workers : task[v] = t)
    BY <2>2
  <2>4. QED
    BY <2>1, <2>2, <2>3
<1>18. ASSUME NEW w \in Workers, WorkerEnds(w) PROVE RootedWhileNeeded'
  BY <1>18 DEF WorkerEnds, HasMutex
<1>19. ASSUME NEW w \in Workers, WorkerWakes(w) PROVE RootedWhileNeeded'
  BY <1>19 DEF WorkerWakes
<1>20. ASSUME NEW w \in Workers, WorkerPastStop(w) PROVE RootedWhileNeeded'
  <2>1. CASE wpc[w] = "safepoint"
    <3>1. /\ task[w] \in Tasks
          /\ wpc' = [wpc EXCEPT ![w] = "run"] /\ fate' = [fate EXCEPT ![task[w]] = "running"]
          /\ UNCHANGED <<open, lost, made, created, queue, shutdown, joined, freed, mtx, task, pc, arg, left, joins, roots, stw>>
      BY <1>20, <2>1 DEF WorkerPastStop
    <3>2. QED
      BY <2>1, <3>1
  <2>2. CASE wpc[w] # "safepoint"
    <3>1. PICK p \in {"lock", "gone"} : wpc' = [wpc EXCEPT ![w] = p]
      BY <1>20, <2>2 DEF WorkerPastStop
    <3>2. /\ wpc[w] \in {"disarm", "exit"}
          /\ UNCHANGED <<open, lost, made, created, queue, shutdown, joined, freed, mtx, task, pc, arg, left, joins, roots,
                         fate, stw>>
      BY <1>20, <2>2 DEF WorkerPastStop
    <3>3. QED
      BY <3>1, <3>2
  <2>3. QED
    BY <2>1, <2>2
<1>21. ASSUME NEW w \in Workers, TaskReturns(w) PROVE RootedWhileNeeded'
  <2>1. task[w] \in Tasks
    BY <1>21 DEF TaskReturns
  <2>2. QED
    BY <1>21, <2>1 DEF TaskReturns
<1>22. ASSUME NEW w \in Workers, WorkerUnroots(w) PROVE RootedWhileNeeded'
  <2>1. /\ task[w] \in Tasks /\ roots[task[w]] = 1 /\ fate[task[w]] = "done"
    BY <1>22, InHand DEF WorkerUnroots, Progress
  <2>2. /\ task' = [task EXCEPT ![w] = Nil] /\ fate' = fate /\ roots' = [roots EXCEPT ![task[w]] = 0]
    BY <1>22, <2>1 DEF WorkerUnroots
  <2>3. \A v \in Workers : task'[v] # task[w]
    BY <2>1, <2>2 DEF Held
  <2>4. \A t \in Tasks : t # task[w] => ((\E v \in Workers : task'[v] = t) <=> \E v \in Workers : task[v] = t)
    BY <2>2
  <2>5. QED
    BY <2>1, <2>2, <2>3, <2>4
<1>23. ASSUME NEW w \in Workers, SpuriousWake(w) PROVE RootedWhileNeeded'
  BY <1>23 DEF SpuriousWake, Wake
<1>24. CASE LoseHandle
  BY <1>24 DEF LoseHandle
<1>25. CASE StwRequest
  BY <1>25 DEF StwRequest
<1>26. CASE StwRelease
  BY <1>26 DEF StwRelease
<1>27. CASE UNCHANGED vars
  BY <1>27 DEF vars
<1>28. QED
  BY <1>1, <1>2, <1>3, <1>4, <1>5, <1>6, <1>7, <1>8, <1>9, <1>10, <1>11, <1>12, <1>13, <1>14, <1>15, <1>16, <1>17, <1>18, <1>19, <1>20, <1>21, <1>22, <1>23, <1>24, <1>25, <1>26, <1>27 DEF Next, CallStep, WorkerStep

\* The initial states satisfy the invariant.
LEMMA InvInit == Init => PoolInv
<1> SUFFICES ASSUME Init PROVE PoolInv
  OBVIOUS
<1> USE ActorsAssumption DEF Init
<1>1. TypeOK
  <2>1. queue \in Seq(Tasks) /\ IsInjective(queue) /\ mtx \in Workers \union {Nil}
    BY EmptyList
  <2>2. /\ wpc \in [Workers -> WPC] /\ pc \in [Actors -> PC]
        /\ task \in [Workers -> Tasks \union {Nil}] /\ arg \in [Actors -> Tasks \union {Nil}]
    BY DEF WPC, PC
  <2>3. left \in [Actors -> SUBSET Workers] /\ roots \in [Tasks -> Nat] /\ joins \in [Workers -> Nat]
    OBVIOUS
  <2>4. /\ fate \in [Tasks -> {"new", "offered", "queued", "taken", "running", "done", "refused", "drained"}]
        /\ \A w \in Workers : wpc[w] = "none" <=> w \notin created
        /\ \A w \in Workers : task[w] # Nil <=> wpc[w] \in {"safepoint", "run", "unroot"}
    OBVIOUS
  <2>5. QED
    BY <2>1, <2>2, <2>3, <2>4 DEF TypeOK
<1>2. NoOwner /\ Queued /\ Held /\ Offered /\ RootedWhileNeeded
  BY EmptyList DEF NoOwner, Queued, Held, Offered, Offering, RootedWhileNeeded
<1>3. QED
  BY <1>1, <1>2 DEF PoolInv

\* Every step keeps the invariant.
LEMMA InvStep == PoolInv /\ [Next]_vars => PoolInv'
BY TypeStep, QueuedStep, HeldStep, OfferedStep, RootedStep DEF PoolInv

\* The invariant holds throughout.
THEOREM Invariant == Spec => []PoolInv
BY InvInit, InvStep, PTL DEF Spec

\* Every variable keeps its type: no task is twice in the list, and no root is
\* given back that was not taken.
THEOREM TypeCorrect == Spec => []TypeOK
<1>1. PoolInv => TypeOK
  BY DEF PoolInv
<1>2. QED
  BY <1>1, Invariant, PTL

\* A closure is rooted exactly while the pool or a call needs it, whatever the
\* tasks do to their pool and in whatever order the clients call it.
THEOREM ClosuresRooted == Spec => []RootedWhileNeeded
<1>1. PoolInv => RootedWhileNeeded
  BY DEF PoolInv
<1>2. QED
  BY <1>1, Invariant, PTL

-----------------------------------------------------------------------------
(* Work is not left lying.  The workers on their way to the list and the   *)
(* signals on their way to a worker are counted.                           *)

OnTheWay == {"wake", "disarm", "lock"}
Way == {w \in Workers : wpc[w] \in OnTheWay}
Signalling == {c \in Actors : pc[c] = "signal"}

\* Adding one element to a finite set, and taking one away.
LEMMA OneMore ==
  ASSUME NEW S, IsFiniteSet(S), NEW x, x \notin S
  PROVE  Cardinality(S \cup {x}) = Cardinality(S) + 1
BY FS_AddElement

\* One element less.
LEMMA OneLess ==
  ASSUME NEW S, IsFiniteSet(S), NEW x \in S
  PROVE  Cardinality(S \ {x}) = Cardinality(S) - 1
BY FS_RemoveElement

\* The counts are of finite sets.
LEMMA Counts ==
  /\ IsFiniteSet(Way) /\ IsFiniteSet(Way') /\ IsFiniteSet(Signalling) /\ IsFiniteSet(Signalling')
  /\ Cardinality(Way) \in Nat /\ Cardinality(Way)' \in Nat
  /\ Cardinality(Signalling) \in Nat /\ Cardinality(Signalling)' \in Nat
<1>1. IsFiniteSet(Workers) /\ IsFiniteSet(Actors)
  BY FiniteAssumption, FS_Union DEF Actors
<1>2. Way \subseteq Workers /\ Way' \subseteq Workers /\ Signalling \subseteq Actors /\ Signalling' \subseteq Actors
  BY DEF Way, Signalling, Actors
<1>3. IsFiniteSet(Way) /\ IsFiniteSet(Way') /\ IsFiniteSet(Signalling) /\ IsFiniteSet(Signalling')
  BY <1>1, <1>2, FS_Subset
<1>4. QED
  BY <1>3, FS_CardinalityType

\* A step that leaves the list alone, takes no worker off its way, uses up no
\* signal and puts nobody to sleep keeps the balance.
LEMMA BalanceKept ==
  ASSUME PoolInv, NoIdleWhileWork, queue' = queue, Way \subseteq Way', Signalling \subseteq Signalling',
         Sleepers' \subseteq Sleepers
  PROVE  NoIdleWhileWork'
<1>1. Cardinality(Way) <= Cardinality(Way)' /\ Cardinality(Signalling) <= Cardinality(Signalling)'
  BY Counts, FS_Subset
<1>2. Len(queue) \in Nat
  BY DEF PoolInv, TypeOK
<1> DEFINE m == Cardinality(Way)  n == Cardinality(Signalling)
           mm == Cardinality(Way)'  nn == Cardinality(Signalling)'
<1>3. Sleepers # {} => Len(queue) <= m + n
  BY DEF NoIdleWhileWork, Way, OnTheWay, Signalling
<1>4. m \in Nat /\ n \in Nat /\ mm \in Nat /\ nn \in Nat
  BY Counts
<1>5. m <= mm /\ n <= nn
  BY <1>1
<1>6. Sleepers' # {} => Len(queue') <= mm + nn
  <2> HIDE DEF m, n, mm, nn
  <2>1. QED
    BY <1>2, <1>3, <1>4, <1>5
<1>7. QED
  BY <1>6 DEF NoIdleWhileWork, Way, OnTheWay, Signalling

\* A task in the list is matched by a worker on its way or by a signal.
LEMMA BalanceStep ==
  ASSUME PoolInv, NoIdleWhileWork, [Next]_vars
  PROVE  NoIdleWhileWork'
<1> USE ActorsAssumption DEF PoolInv, TypeOK, handleVars, poolVars, workerVars, callVars, taskVars, WPC, PC, Actors
<1>1. ASSUME NEW c \in Clients, hao_pool_new(c) PROVE NoIdleWhileWork'
  <2>1. queue' = queue /\ Way \subseteq Way' /\ Signalling \subseteq Signalling' /\ Sleepers' \subseteq Sleepers
    BY <1>1 DEF hao_pool_new, Way, OnTheWay, Signalling, Sleepers
  <2>2. QED
    BY <2>1, BalanceKept
<1>2. ASSUME NEW c \in Clients, CreateWorker(c) PROVE NoIdleWhileWork'
  <2>1. queue' = queue /\ Way \subseteq Way' /\ Signalling \subseteq Signalling' /\ Sleepers' \subseteq Sleepers
    BY <1>2 DEF CreateWorker, Way, OnTheWay, Signalling, Sleepers
  <2>2. QED
    BY <2>1, BalanceKept
<1>3. ASSUME NEW c \in Clients, CreateFails(c) PROVE NoIdleWhileWork'
  <2>1. queue' = queue /\ Way \subseteq Way' /\ Signalling \subseteq Signalling' /\ Sleepers' \subseteq Sleepers
    BY <1>3 DEF CreateFails, Way, OnTheWay, Signalling, Sleepers
  <2>2. QED
    BY <2>1, BalanceKept
<1>4. ASSUME NEW c \in Clients, Attach(c) PROVE NoIdleWhileWork'
  <2>1. queue' = queue /\ Way \subseteq Way' /\ Signalling \subseteq Signalling' /\ Sleepers' \subseteq Sleepers
    BY <1>4 DEF Attach, Way, OnTheWay, Signalling, Sleepers
  <2>2. QED
    BY <2>1, BalanceKept
<1>5. ASSUME NEW a \in Actors, Submit(a) PROVE NoIdleWhileWork'
  <2>1. queue' = queue /\ Way \subseteq Way' /\ Signalling \subseteq Signalling' /\ Sleepers' \subseteq Sleepers
    BY <1>5 DEF Submit, Free, Way, OnTheWay, Signalling, Sleepers
  <2>2. QED
    BY <2>1, BalanceKept
<1>6. ASSUME NEW a \in Actors, ShutdownRead(a) PROVE NoIdleWhileWork'
  <2>1. queue' = queue /\ Way \subseteq Way' /\ Signalling \subseteq Signalling' /\ Sleepers' \subseteq Sleepers
    BY <1>6 DEF ShutdownRead, Free, Way, OnTheWay, Signalling, Sleepers
  <2>2. QED
    BY <2>1, BalanceKept
<1>7. ASSUME NEW a \in Actors, Finalize(a) PROVE NoIdleWhileWork'
  <2>1. queue' = queue /\ Way \subseteq Way' /\ Signalling \subseteq Signalling' /\ Sleepers' \subseteq Sleepers
    BY <1>7 DEF Finalize, Free, Way, OnTheWay, Signalling, Sleepers
  <2>2. QED
    BY <2>1, BalanceKept
<1>8. ASSUME NEW a \in Actors, SubmitEnqueue(a) PROVE NoIdleWhileWork'
  <2>1. CASE shutdown
    <3>1. queue' = queue /\ Way \subseteq Way' /\ Signalling \subseteq Signalling' /\ Sleepers' \subseteq Sleepers
      BY <1>8, <2>1 DEF SubmitEnqueue, Way, OnTheWay, Signalling, Sleepers
    <3>2. QED
      BY <3>1, BalanceKept
  <2>2. CASE ~shutdown
    <3>1. queue' = Append(queue, arg[a]) /\ pc[a] = "submit" /\ pc' = [pc EXCEPT ![a] = "signal"] /\ wpc' = wpc
      BY <1>8, <2>2 DEF SubmitEnqueue
    <3>2. Signalling' = Signalling \cup {a} /\ a \notin Signalling /\ Way' = Way /\ Sleepers' = Sleepers
      BY <3>1 DEF Way, OnTheWay, Signalling, Sleepers
    <3>3. arg[a] \in Tasks /\ arg[a] \notin ToSet(queue)
      BY <1>8 DEF SubmitEnqueue, Offered, Offering, Queued
    <3>4. Len(queue') = Len(queue) + 1 /\ Len(queue) \in Nat
      BY <3>1, <3>3, PutLast
    <3>5. QED
      <4> DEFINE m == Cardinality(Way)  n == Cardinality(Signalling)
                 mm == Cardinality(Way)'  nn == Cardinality(Signalling)'
      <4>1. m \in Nat /\ n \in Nat /\ mm \in Nat /\ nn \in Nat /\ (Sleepers # {} => Len(queue) <= m + n)
        BY Counts DEF NoIdleWhileWork, Way, OnTheWay, Signalling
      <4>2. mm = m /\ nn = n + 1
        BY <3>2, Counts, OneMore
      <4>3. Sleepers' # {} => Len(queue') <= mm + nn
        <5> HIDE DEF m, n, mm, nn
        <5>1. QED
          BY <3>2, <3>4, <4>1, <4>2
      <4>4. QED
        BY <4>3 DEF NoIdleWhileWork, Way, OnTheWay, Signalling
  <2>3. QED
    BY <2>1, <2>2
<1>9. ASSUME NEW a \in Actors, SubmitSignal(a) PROVE NoIdleWhileWork'
  <2>1. CASE Sleepers = {}
    <3>1. Sleepers' = {}
      BY <1>9, <2>1 DEF SubmitSignal, Sleepers
    <3>2. QED
      BY <3>1 DEF NoIdleWhileWork
  <2>2. CASE Sleepers # {}
    <3>1. PICK w \in Sleepers : Wake({w})
      BY <1>9, <2>2 DEF SubmitSignal
    <3>2. /\ w \in Workers /\ wpc[w] = "asleep" /\ wpc'[w] = "wake" /\ \A v \in Workers \ {w} : wpc'[v] = wpc[v]
          /\ pc[a] = "signal" /\ pc' = [pc EXCEPT ![a] = "idle"] /\ queue' = queue
      BY <1>9, <3>1 DEF SubmitSignal, Wake, Sleepers
    <3>3. Signalling' = Signalling \ {a} /\ a \in Signalling
      BY <3>2 DEF Signalling
    <3>4. Way' = Way \cup {w} /\ w \notin Way
      BY <3>2 DEF Way, OnTheWay
    <3>5. QED
      <4> DEFINE m == Cardinality(Way)  n == Cardinality(Signalling)
                 mm == Cardinality(Way)'  nn == Cardinality(Signalling)'
      <4>1. m \in Nat /\ n \in Nat /\ mm \in Nat /\ nn \in Nat /\ Len(queue) <= m + n /\ Len(queue) \in Nat
        BY <2>2, Counts DEF NoIdleWhileWork, Way, OnTheWay, Signalling
      <4>2. mm = m + 1
        BY <3>4, Counts, OneMore
      <4>3. nn = n - 1
        BY <3>3, Counts, OneLess
      <4>4. Len(queue') <= mm + nn
        <5> HIDE DEF m, n, mm, nn
        <5>1. QED
          BY <3>2, <4>1, <4>2, <4>3
      <4>5. QED
        BY <4>4 DEF NoIdleWhileWork, Way, OnTheWay, Signalling
  <2>3. QED
    BY <2>1, <2>2
<1>10. ASSUME NEW a \in Actors, SubmitRefused(a) PROVE NoIdleWhileWork'
  <2>1. queue' = queue /\ Way \subseteq Way' /\ Signalling \subseteq Signalling' /\ Sleepers' \subseteq Sleepers
    BY <1>10 DEF SubmitRefused, Way, OnTheWay, Signalling, Sleepers
  <2>2. QED
    BY <2>1, BalanceKept
<1>11. ASSUME NEW a \in Actors, ShutdownClose(a) PROVE NoIdleWhileWork'
  <2>1. queue' = queue /\ Way \subseteq Way' /\ Signalling \subseteq Signalling' /\ Sleepers' \subseteq Sleepers
    BY <1>11 DEF ShutdownClose, Way, OnTheWay, Signalling, Sleepers
  <2>2. QED
    BY <2>1, BalanceKept
<1>12. ASSUME NEW a \in Actors, DestroyFlag(a) PROVE NoIdleWhileWork'
  <2>1. queue' = queue /\ Way \subseteq Way' /\ Signalling \subseteq Signalling' /\ Sleepers' \subseteq Sleepers
    BY <1>12 DEF DestroyFlag, Way, OnTheWay, Signalling, Sleepers
  <2>2. QED
    BY <2>1, BalanceKept
<1>13. ASSUME NEW a \in Actors, DestroyBroadcast(a) PROVE NoIdleWhileWork'
  <2>1. Sleepers' = {}
    BY <1>13 DEF DestroyBroadcast, Wake, Sleepers
  <2>2. QED
    BY <2>1 DEF NoIdleWhileWork
<1>14. ASSUME NEW a \in Actors, JoinWorker(a) PROVE NoIdleWhileWork'
  <2>1. queue' = queue /\ Way \subseteq Way' /\ Signalling \subseteq Signalling' /\ Sleepers' \subseteq Sleepers
    BY <1>14 DEF JoinWorker, Way, OnTheWay, Signalling, Sleepers
  <2>2. QED
    BY <2>1, BalanceKept
<1>15. ASSUME NEW a \in Actors, DestroyEnds(a) PROVE NoIdleWhileWork'
  <2>1. Len(queue') = 0
    BY <1>15 DEF DestroyEnds
  <2>2. QED
    BY <2>1, Counts DEF NoIdleWhileWork, Way, OnTheWay, Signalling
<1>16. ASSUME NEW w \in Workers, WorkerSleeps(w) PROVE NoIdleWhileWork'
  <2>1. Len(queue') = 0
    BY <1>16 DEF WorkerSleeps
  <2>2. QED
    BY <2>1, Counts DEF NoIdleWhileWork, Way, OnTheWay, Signalling
<1>17. ASSUME NEW w \in Workers, WorkerTakes(w) PROVE NoIdleWhileWork'
  <2>1. Len(queue) \in Nat \ {0} /\ queue' = Tail(queue) /\ Len(Tail(queue)) = Len(queue) - 1
    BY <1>17, TakeFirst DEF WorkerTakes
  <2>2. wpc[w] = "lock" /\ wpc' = [wpc EXCEPT ![w] = "safepoint"] /\ pc' = pc
    BY <1>17 DEF WorkerTakes, HasMutex
  <2>3. Way' = Way \ {w} /\ w \in Way /\ Signalling' = Signalling /\ Sleepers' = Sleepers
    BY <2>2 DEF Way, OnTheWay, Signalling, Sleepers
  <2>4. QED
    <3> DEFINE m == Cardinality(Way)  n == Cardinality(Signalling)
               mm == Cardinality(Way)'  nn == Cardinality(Signalling)'
    <3>1. m \in Nat /\ n \in Nat /\ mm \in Nat /\ nn \in Nat /\ (Sleepers # {} => Len(queue) <= m + n)
      BY Counts DEF NoIdleWhileWork, Way, OnTheWay, Signalling
    <3>2. mm = m - 1 /\ nn = n
      BY <2>3, Counts, OneLess
    <3>3. Sleepers' # {} => Len(queue') <= mm + nn
      <4> HIDE DEF m, n, mm, nn
      <4>1. QED
        BY <2>1, <2>3, <3>1, <3>2
    <3>4. QED
      BY <3>3 DEF NoIdleWhileWork, Way, OnTheWay, Signalling
<1>18. ASSUME NEW w \in Workers, WorkerEnds(w) PROVE NoIdleWhileWork'
  <2>1. Len(queue') = 0
    BY <1>18 DEF WorkerEnds
  <2>2. QED
    BY <2>1, Counts DEF NoIdleWhileWork, Way, OnTheWay, Signalling
<1>19. ASSUME NEW w \in Workers, WorkerWakes(w) PROVE NoIdleWhileWork'
  <2>1. queue' = queue /\ Way \subseteq Way' /\ Signalling \subseteq Signalling' /\ Sleepers' \subseteq Sleepers
    BY <1>19 DEF WorkerWakes, Way, OnTheWay, Signalling, Sleepers
  <2>2. QED
    BY <2>1, BalanceKept
<1>20. ASSUME NEW w \in Workers, WorkerPastStop(w) PROVE NoIdleWhileWork'
  <2>1. queue' = queue /\ Way \subseteq Way' /\ Signalling \subseteq Signalling' /\ Sleepers' \subseteq Sleepers
    BY <1>20 DEF WorkerPastStop, Way, OnTheWay, Signalling, Sleepers
  <2>2. QED
    BY <2>1, BalanceKept
<1>21. ASSUME NEW w \in Workers, TaskReturns(w) PROVE NoIdleWhileWork'
  <2>1. queue' = queue /\ Way \subseteq Way' /\ Signalling \subseteq Signalling' /\ Sleepers' \subseteq Sleepers
    BY <1>21 DEF TaskReturns, Way, OnTheWay, Signalling, Sleepers
  <2>2. QED
    BY <2>1, BalanceKept
<1>22. ASSUME NEW w \in Workers, WorkerUnroots(w) PROVE NoIdleWhileWork'
  <2>1. queue' = queue /\ Way \subseteq Way' /\ Signalling \subseteq Signalling' /\ Sleepers' \subseteq Sleepers
    BY <1>22 DEF WorkerUnroots, Way, OnTheWay, Signalling, Sleepers
  <2>2. QED
    BY <2>1, BalanceKept
<1>23. ASSUME NEW w \in Workers, SpuriousWake(w) PROVE NoIdleWhileWork'
  <2>1. queue' = queue /\ Way \subseteq Way' /\ Signalling \subseteq Signalling' /\ Sleepers' \subseteq Sleepers
    BY <1>23 DEF SpuriousWake, Wake, Way, OnTheWay, Signalling, Sleepers
  <2>2. QED
    BY <2>1, BalanceKept
<1>24. CASE LoseHandle
  <2>1. queue' = queue /\ Way \subseteq Way' /\ Signalling \subseteq Signalling' /\ Sleepers' \subseteq Sleepers
    BY <1>24 DEF LoseHandle, Way, OnTheWay, Signalling, Sleepers
  <2>2. QED
    BY <2>1, BalanceKept
<1>25. CASE StwRequest
  <2>1. queue' = queue /\ Way \subseteq Way' /\ Signalling \subseteq Signalling' /\ Sleepers' \subseteq Sleepers
    BY <1>25 DEF StwRequest, Way, OnTheWay, Signalling, Sleepers
  <2>2. QED
    BY <2>1, BalanceKept
<1>26. CASE StwRelease
  <2>1. queue' = queue /\ Way \subseteq Way' /\ Signalling \subseteq Signalling' /\ Sleepers' \subseteq Sleepers
    BY <1>26 DEF StwRelease, Way, OnTheWay, Signalling, Sleepers
  <2>2. QED
    BY <2>1, BalanceKept
<1>27. CASE UNCHANGED vars
  BY <1>27 DEF vars, NoIdleWhileWork, Sleepers
<1>28. QED
  BY <1>1, <1>2, <1>3, <1>4, <1>5, <1>6, <1>7, <1>8, <1>9, <1>10, <1>11, <1>12, <1>13, <1>14, <1>15, <1>16, <1>17, <1>18, <1>19, <1>20, <1>21, <1>22, <1>23, <1>24, <1>25, <1>26, <1>27 DEF Next, CallStep, WorkerStep

\* No task lies in the list while all workers that could take it sleep, and no
\* worker waits for the collector with the pool mutex in hand.
THEOREM WorkIsTaken == Spec => []WorkersAvailable
<1>1. Init => NoIdleWhileWork
  BY DEF Init, NoIdleWhileWork, Sleepers
<1>2. PoolInv /\ NoIdleWhileWork /\ [Next]_vars => NoIdleWhileWork'
  BY BalanceStep
<1>3. PoolInv /\ NoIdleWhileWork => WorkersAvailable
  BY ActorsAssumption DEF PoolInv, NoOwner, WorkersAvailable, NoStopWhileLocked, Actors
<1>4. QED
  BY <1>1, <1>2, <1>3, Invariant, PTL DEF Spec

-----------------------------------------------------------------------------
(* The memory of the pool, when nobody calls it while a client shuts it    *)
(* down and the tasks themselves do no more than submit.                   *)

\* What the program must keep to.
Disciplined == ClientsOrdered /\ TaskCalls \subseteq {"submit"}

\* One actor at a time makes or takes down the pool, and it is no worker.
Owning == {"new"} \cup Destroying
Calls == {"submit", "signal", "refused"}
\* One actor at a time makes or takes down the pool, and workers only run tasks.
OneOwner ==
  /\ \A p, q \in Actors : pc[p] \in Owning /\ pc[q] \in Owning => p = q
  /\ \A w \in Workers : pc[w] \in Calls \cup {"idle"} /\ (pc[w] # "idle" => wpc[w] = "run")

\* What the making and the end of the pool exclude.
Stages ==
  /\ ~made => created = {} /\ ~open /\ ~freed /\ \A c \in Actors : pc[c] = "idle"
  /\ (\E c \in Actors : pc[c] = "new") => ~open /\ ~freed /\ \A c \in Actors : pc[c] \notin Calls
  /\ (\E c \in Actors : pc[c] \in Destroying) => ~freed /\ \A c \in Clients : pc[c] \notin Calls
  /\ (\E c \in Actors : pc[c] = "close") => open /\ ~lost
  /\ (\E c \in Actors : pc[c] \in {"destroy", "broadcast", "join"}) => ~open
  /\ open => ~freed
  /\ lost => \A c \in Actors : pc[c] \notin Calls
  /\ joined = freed

\* A worker the joiner is done with is gone.
Joined == \A c \in Actors : pc[c] = "join" => \A w \in created \ left[c] : wpc[w] = "gone"

\* With it, the inductive invariant of the memory.
MemoryInv == PoolInv /\ OneOwner /\ Stages /\ Joined /\ NoUseAfterFree

\* Nobody makes or takes down the pool while another does.
LEMMA OwnerStep ==
  ASSUME Disciplined, MemoryInv, [Next]_vars
  PROVE  OneOwner'
<1> USE ActorsAssumption DEF PoolInv, TypeOK, handleVars, poolVars, workerVars, callVars, taskVars, WPC, PC, Actors, MemoryInv, OneOwner, Stages, Joined, NoUseAfterFree, Owning, Calls, Destroying, Disciplined
<1>1. ASSUME NEW c \in Clients, hao_pool_new(c) PROVE OneOwner'
  BY <1>1 DEF hao_pool_new
<1>2. ASSUME NEW c \in Clients, CreateWorker(c) PROVE OneOwner'
  BY <1>2 DEF CreateWorker
<1>3. ASSUME NEW c \in Clients, CreateFails(c) PROVE OneOwner'
  BY <1>3 DEF CreateFails
<1>4. ASSUME NEW c \in Clients, Attach(c) PROVE OneOwner'
  BY <1>4 DEF Attach
<1>5. ASSUME NEW a \in Actors, Submit(a) PROVE OneOwner'
  BY <1>5 DEF Submit, Free, Closers
<1>6. ASSUME NEW a \in Actors, ShutdownRead(a) PROVE OneOwner'
  BY <1>6 DEF ShutdownRead, Free, Closers, Submitters
<1>7. ASSUME NEW a \in Actors, Finalize(a) PROVE OneOwner'
  BY <1>7 DEF Finalize, Free
<1>8. ASSUME NEW a \in Actors, SubmitEnqueue(a) PROVE OneOwner'
  BY <1>8 DEF SubmitEnqueue
<1>9. ASSUME NEW a \in Actors, SubmitSignal(a) PROVE OneOwner'
  BY <1>9 DEF SubmitSignal, Wake, Sleepers
<1>10. ASSUME NEW a \in Actors, SubmitRefused(a) PROVE OneOwner'
  BY <1>10 DEF SubmitRefused
<1>11. ASSUME NEW a \in Actors, ShutdownClose(a) PROVE OneOwner'
  BY <1>11 DEF ShutdownClose
<1>12. ASSUME NEW a \in Actors, DestroyFlag(a) PROVE OneOwner'
  BY <1>12 DEF DestroyFlag
<1>13. ASSUME NEW a \in Actors, DestroyBroadcast(a) PROVE OneOwner'
  BY <1>13 DEF DestroyBroadcast, Wake, Sleepers
<1>14. ASSUME NEW a \in Actors, JoinWorker(a) PROVE OneOwner'
  BY <1>14 DEF JoinWorker
<1>15. ASSUME NEW a \in Actors, DestroyEnds(a) PROVE OneOwner'
  BY <1>15 DEF DestroyEnds
<1>16. ASSUME NEW w \in Workers, WorkerSleeps(w) PROVE OneOwner'
  BY <1>16 DEF WorkerSleeps, HasMutex
<1>17. ASSUME NEW w \in Workers, WorkerTakes(w) PROVE OneOwner'
  BY <1>17 DEF WorkerTakes, HasMutex
<1>18. ASSUME NEW w \in Workers, WorkerEnds(w) PROVE OneOwner'
  BY <1>18 DEF WorkerEnds, HasMutex
<1>19. ASSUME NEW w \in Workers, WorkerWakes(w) PROVE OneOwner'
  BY <1>19 DEF WorkerWakes
<1>20. ASSUME NEW w \in Workers, WorkerPastStop(w) PROVE OneOwner'
  BY <1>20 DEF WorkerPastStop
<1>21. ASSUME NEW w \in Workers, TaskReturns(w) PROVE OneOwner'
  BY <1>21 DEF TaskReturns
<1>22. ASSUME NEW w \in Workers, WorkerUnroots(w) PROVE OneOwner'
  BY <1>22 DEF WorkerUnroots
<1>23. ASSUME NEW w \in Workers, SpuriousWake(w) PROVE OneOwner'
  BY <1>23 DEF SpuriousWake, Wake
<1>24. CASE LoseHandle
  BY <1>24 DEF LoseHandle
<1>25. CASE StwRequest
  BY <1>25 DEF StwRequest
<1>26. CASE StwRelease
  BY <1>26 DEF StwRelease
<1>27. CASE UNCHANGED vars
  BY <1>27 DEF vars
<1>28. QED
  BY <1>1, <1>2, <1>3, <1>4, <1>5, <1>6, <1>7, <1>8, <1>9, <1>10, <1>11, <1>12, <1>13, <1>14, <1>15, <1>16, <1>17, <1>18, <1>19, <1>20, <1>21, <1>22, <1>23, <1>24, <1>25, <1>26, <1>27 DEF Next, CallStep, WorkerStep

\* A pool is made once, shut down once and freed once.
LEMMA StagesStep ==
  ASSUME Disciplined, MemoryInv, [Next]_vars
  PROVE  Stages'
<1> USE ActorsAssumption DEF PoolInv, TypeOK, handleVars, poolVars, workerVars, callVars, taskVars, WPC, PC, Actors, MemoryInv, OneOwner, Stages, Joined, NoUseAfterFree, Owning, Calls, Destroying, Disciplined
<1>1. ASSUME NEW c \in Clients, hao_pool_new(c) PROVE Stages'
  BY <1>1 DEF hao_pool_new
<1>2. ASSUME NEW c \in Clients, CreateWorker(c) PROVE Stages'
  BY <1>2 DEF CreateWorker
<1>3. ASSUME NEW c \in Clients, CreateFails(c) PROVE Stages'
  BY <1>3 DEF CreateFails
<1>4. ASSUME NEW c \in Clients, Attach(c) PROVE Stages'
  BY <1>4 DEF Attach
<1>5. ASSUME NEW a \in Actors, Submit(a) PROVE Stages'
  BY <1>5 DEF Submit, Free, Closers
<1>6. ASSUME NEW a \in Actors, ShutdownRead(a) PROVE Stages'
  BY <1>6 DEF ShutdownRead, Free, Closers, Submitters
<1>7. ASSUME NEW a \in Actors, Finalize(a) PROVE Stages'
  BY <1>7 DEF Finalize, Free
<1>8. ASSUME NEW a \in Actors, SubmitEnqueue(a) PROVE Stages'
  BY <1>8 DEF SubmitEnqueue
<1>9. ASSUME NEW a \in Actors, SubmitSignal(a) PROVE Stages'
  BY <1>9 DEF SubmitSignal, Wake, Sleepers
<1>10. ASSUME NEW a \in Actors, SubmitRefused(a) PROVE Stages'
  BY <1>10 DEF SubmitRefused
<1>11. ASSUME NEW a \in Actors, ShutdownClose(a) PROVE Stages'
  BY <1>11 DEF ShutdownClose
<1>12. ASSUME NEW a \in Actors, DestroyFlag(a) PROVE Stages'
  BY <1>12 DEF DestroyFlag
<1>13. ASSUME NEW a \in Actors, DestroyBroadcast(a) PROVE Stages'
  BY <1>13 DEF DestroyBroadcast, Wake, Sleepers
<1>14. ASSUME NEW a \in Actors, JoinWorker(a) PROVE Stages'
  BY <1>14 DEF JoinWorker
<1>15. ASSUME NEW a \in Actors, DestroyEnds(a) PROVE Stages'
  BY <1>15 DEF DestroyEnds
<1>16. ASSUME NEW w \in Workers, WorkerSleeps(w) PROVE Stages'
  BY <1>16 DEF WorkerSleeps, HasMutex
<1>17. ASSUME NEW w \in Workers, WorkerTakes(w) PROVE Stages'
  BY <1>17 DEF WorkerTakes, HasMutex
<1>18. ASSUME NEW w \in Workers, WorkerEnds(w) PROVE Stages'
  BY <1>18 DEF WorkerEnds, HasMutex
<1>19. ASSUME NEW w \in Workers, WorkerWakes(w) PROVE Stages'
  BY <1>19 DEF WorkerWakes
<1>20. ASSUME NEW w \in Workers, WorkerPastStop(w) PROVE Stages'
  BY <1>20 DEF WorkerPastStop
<1>21. ASSUME NEW w \in Workers, TaskReturns(w) PROVE Stages'
  BY <1>21 DEF TaskReturns
<1>22. ASSUME NEW w \in Workers, WorkerUnroots(w) PROVE Stages'
  BY <1>22 DEF WorkerUnroots
<1>23. ASSUME NEW w \in Workers, SpuriousWake(w) PROVE Stages'
  BY <1>23 DEF SpuriousWake, Wake
<1>24. CASE LoseHandle
  BY <1>24 DEF LoseHandle
<1>25. CASE StwRequest
  BY <1>25 DEF StwRequest
<1>26. CASE StwRelease
  BY <1>26 DEF StwRelease
<1>27. CASE UNCHANGED vars
  BY <1>27 DEF vars
<1>28. QED
  BY <1>1, <1>2, <1>3, <1>4, <1>5, <1>6, <1>7, <1>8, <1>9, <1>10, <1>11, <1>12, <1>13, <1>14, <1>15, <1>16, <1>17, <1>18, <1>19, <1>20, <1>21, <1>22, <1>23, <1>24, <1>25, <1>26, <1>27 DEF Next, CallStep, WorkerStep

\* A worker that is gone stays gone.
LEMMA JoinedStep ==
  ASSUME Disciplined, MemoryInv, [Next]_vars
  PROVE  Joined'
<1> USE ActorsAssumption DEF PoolInv, TypeOK, handleVars, poolVars, workerVars, callVars, taskVars, WPC, PC, Actors, MemoryInv, OneOwner, Stages, Joined, NoUseAfterFree, Owning, Calls, Destroying, Disciplined
<1>1. ASSUME NEW c \in Clients, hao_pool_new(c) PROVE Joined'
  BY <1>1 DEF hao_pool_new
<1>2. ASSUME NEW c \in Clients, CreateWorker(c) PROVE Joined'
  BY <1>2 DEF CreateWorker
<1>3. ASSUME NEW c \in Clients, CreateFails(c) PROVE Joined'
  BY <1>3 DEF CreateFails
<1>4. ASSUME NEW c \in Clients, Attach(c) PROVE Joined'
  BY <1>4 DEF Attach
<1>5. ASSUME NEW a \in Actors, Submit(a) PROVE Joined'
  BY <1>5 DEF Submit, Free, Closers
<1>6. ASSUME NEW a \in Actors, ShutdownRead(a) PROVE Joined'
  BY <1>6 DEF ShutdownRead, Free, Closers, Submitters
<1>7. ASSUME NEW a \in Actors, Finalize(a) PROVE Joined'
  BY <1>7 DEF Finalize, Free
<1>8. ASSUME NEW a \in Actors, SubmitEnqueue(a) PROVE Joined'
  BY <1>8 DEF SubmitEnqueue
<1>9. ASSUME NEW a \in Actors, SubmitSignal(a) PROVE Joined'
  BY <1>9 DEF SubmitSignal, Wake, Sleepers
<1>10. ASSUME NEW a \in Actors, SubmitRefused(a) PROVE Joined'
  BY <1>10 DEF SubmitRefused
<1>11. ASSUME NEW a \in Actors, ShutdownClose(a) PROVE Joined'
  BY <1>11 DEF ShutdownClose
<1>12. ASSUME NEW a \in Actors, DestroyFlag(a) PROVE Joined'
  BY <1>12 DEF DestroyFlag
<1>13. ASSUME NEW a \in Actors, DestroyBroadcast(a) PROVE Joined'
  BY <1>13 DEF DestroyBroadcast, Wake, Sleepers
<1>14. ASSUME NEW a \in Actors, JoinWorker(a) PROVE Joined'
  <2>1. a \notin Workers /\ pc[a] = "join" /\ pc' = pc /\ wpc' = wpc /\ created' = created
    BY <1>14 DEF JoinWorker
  <2>2. PICK w \in left[a] : wpc[w] = "gone" /\ left' = [left EXCEPT ![a] = @ \ {w}]
    BY <1>14, <2>1 DEF JoinWorker
  <2>3. ASSUME NEW c \in Actors, pc'[c] = "join", NEW v \in created' \ left'[c] PROVE wpc'[v] = "gone"
    <3>1. c = a
      BY <2>1, <2>3
    <3>2. v = w \/ v \in created \ left[a]
      BY <2>1, <2>2, <2>3, <3>1
    <3>3. QED
      BY <2>1, <2>2, <3>2
  <2>4. QED
    BY <2>3
<1>15. ASSUME NEW a \in Actors, DestroyEnds(a) PROVE Joined'
  BY <1>15 DEF DestroyEnds
<1>16. ASSUME NEW w \in Workers, WorkerSleeps(w) PROVE Joined'
  BY <1>16 DEF WorkerSleeps, HasMutex
<1>17. ASSUME NEW w \in Workers, WorkerTakes(w) PROVE Joined'
  BY <1>17 DEF WorkerTakes, HasMutex
<1>18. ASSUME NEW w \in Workers, WorkerEnds(w) PROVE Joined'
  BY <1>18 DEF WorkerEnds, HasMutex
<1>19. ASSUME NEW w \in Workers, WorkerWakes(w) PROVE Joined'
  BY <1>19 DEF WorkerWakes
<1>20. ASSUME NEW w \in Workers, WorkerPastStop(w) PROVE Joined'
  BY <1>20 DEF WorkerPastStop
<1>21. ASSUME NEW w \in Workers, TaskReturns(w) PROVE Joined'
  BY <1>21 DEF TaskReturns
<1>22. ASSUME NEW w \in Workers, WorkerUnroots(w) PROVE Joined'
  BY <1>22 DEF WorkerUnroots
<1>23. ASSUME NEW w \in Workers, SpuriousWake(w) PROVE Joined'
  BY <1>23 DEF SpuriousWake, Wake
<1>24. CASE LoseHandle
  BY <1>24 DEF LoseHandle
<1>25. CASE StwRequest
  BY <1>25 DEF StwRequest
<1>26. CASE StwRelease
  BY <1>26 DEF StwRelease
<1>27. CASE UNCHANGED vars
  BY <1>27 DEF vars
<1>28. QED
  BY <1>1, <1>2, <1>3, <1>4, <1>5, <1>6, <1>7, <1>8, <1>9, <1>10, <1>11, <1>12, <1>13, <1>14, <1>15, <1>16, <1>17, <1>18, <1>19, <1>20, <1>21, <1>22, <1>23, <1>24, <1>25, <1>26, <1>27 DEF Next, CallStep, WorkerStep

\* Nobody is left in the pool that is freed.
LEMMA FreedStep ==
  ASSUME Disciplined, MemoryInv, [Next]_vars
  PROVE  NoUseAfterFree'
<1> USE ActorsAssumption DEF PoolInv, TypeOK, handleVars, poolVars, workerVars, callVars, taskVars, WPC, PC, Actors, MemoryInv, OneOwner, Stages, Joined, NoUseAfterFree, Owning, Calls, Destroying, Disciplined
<1>1. ASSUME NEW c \in Clients, hao_pool_new(c) PROVE NoUseAfterFree'
  BY <1>1 DEF hao_pool_new
<1>2. ASSUME NEW c \in Clients, CreateWorker(c) PROVE NoUseAfterFree'
  BY <1>2 DEF CreateWorker
<1>3. ASSUME NEW c \in Clients, CreateFails(c) PROVE NoUseAfterFree'
  BY <1>3 DEF CreateFails
<1>4. ASSUME NEW c \in Clients, Attach(c) PROVE NoUseAfterFree'
  BY <1>4 DEF Attach
<1>5. ASSUME NEW a \in Actors, Submit(a) PROVE NoUseAfterFree'
  BY <1>5 DEF Submit, Free, Closers
<1>6. ASSUME NEW a \in Actors, ShutdownRead(a) PROVE NoUseAfterFree'
  BY <1>6 DEF ShutdownRead, Free, Closers, Submitters
<1>7. ASSUME NEW a \in Actors, Finalize(a) PROVE NoUseAfterFree'
  BY <1>7 DEF Finalize, Free
<1>8. ASSUME NEW a \in Actors, SubmitEnqueue(a) PROVE NoUseAfterFree'
  BY <1>8 DEF SubmitEnqueue
<1>9. ASSUME NEW a \in Actors, SubmitSignal(a) PROVE NoUseAfterFree'
  BY <1>9 DEF SubmitSignal, Wake, Sleepers
<1>10. ASSUME NEW a \in Actors, SubmitRefused(a) PROVE NoUseAfterFree'
  BY <1>10 DEF SubmitRefused
<1>11. ASSUME NEW a \in Actors, ShutdownClose(a) PROVE NoUseAfterFree'
  BY <1>11 DEF ShutdownClose
<1>12. ASSUME NEW a \in Actors, DestroyFlag(a) PROVE NoUseAfterFree'
  BY <1>12 DEF DestroyFlag
<1>13. ASSUME NEW a \in Actors, DestroyBroadcast(a) PROVE NoUseAfterFree'
  BY <1>13 DEF DestroyBroadcast, Wake, Sleepers
<1>14. ASSUME NEW a \in Actors, JoinWorker(a) PROVE NoUseAfterFree'
  BY <1>14 DEF JoinWorker
<1>15. ASSUME NEW a \in Actors, DestroyEnds(a) PROVE NoUseAfterFree'
  <2>1. pc[a] = "join" /\ left[a] = {} /\ pc' = [pc EXCEPT ![a] = "idle"] /\ wpc' = wpc /\ created' = created
    BY <1>15 DEF DestroyEnds
  <2>2. \A w \in created : wpc[w] = "gone"
    BY <2>1
  <2>3. ASSUME NEW c \in Actors, c # a PROVE pc[c] = "idle"
    <3>1. pc[c] \notin Owning
      BY <2>1, <2>3
    <3>2. CASE c \in Clients
      <4>1. pc[c] \notin Calls
        BY <2>1, <3>2
      <4>2. QED
        BY <3>1, <4>1
    <3>3. CASE c \in Workers
      <4>1. wpc[c] # "run"
        BY <2>2, <3>3
      <4>2. QED
        BY <3>3, <4>1
    <3>4. QED
      BY <3>2, <3>3
  <2>4. QED
    BY <2>1, <2>2, <2>3
<1>16. ASSUME NEW w \in Workers, WorkerSleeps(w) PROVE NoUseAfterFree'
  BY <1>16 DEF WorkerSleeps, HasMutex
<1>17. ASSUME NEW w \in Workers, WorkerTakes(w) PROVE NoUseAfterFree'
  BY <1>17 DEF WorkerTakes, HasMutex
<1>18. ASSUME NEW w \in Workers, WorkerEnds(w) PROVE NoUseAfterFree'
  BY <1>18 DEF WorkerEnds, HasMutex
<1>19. ASSUME NEW w \in Workers, WorkerWakes(w) PROVE NoUseAfterFree'
  BY <1>19 DEF WorkerWakes
<1>20. ASSUME NEW w \in Workers, WorkerPastStop(w) PROVE NoUseAfterFree'
  BY <1>20 DEF WorkerPastStop
<1>21. ASSUME NEW w \in Workers, TaskReturns(w) PROVE NoUseAfterFree'
  BY <1>21 DEF TaskReturns
<1>22. ASSUME NEW w \in Workers, WorkerUnroots(w) PROVE NoUseAfterFree'
  BY <1>22 DEF WorkerUnroots
<1>23. ASSUME NEW w \in Workers, SpuriousWake(w) PROVE NoUseAfterFree'
  BY <1>23 DEF SpuriousWake, Wake
<1>24. CASE LoseHandle
  BY <1>24 DEF LoseHandle
<1>25. CASE StwRequest
  BY <1>25 DEF StwRequest
<1>26. CASE StwRelease
  BY <1>26 DEF StwRelease
<1>27. CASE UNCHANGED vars
  BY <1>27 DEF vars
<1>28. QED
  BY <1>1, <1>2, <1>3, <1>4, <1>5, <1>6, <1>7, <1>8, <1>9, <1>10, <1>11, <1>12, <1>13, <1>14, <1>15, <1>16, <1>17, <1>18, <1>19, <1>20, <1>21, <1>22, <1>23, <1>24, <1>25, <1>26, <1>27 DEF Next, CallStep, WorkerStep

\* The Pool is freed when no worker and no caller will touch it again, and a
\* closure is rooted exactly while it is needed.
THEOREM MemoryHolds ==
  ASSUME Disciplined
  PROVE  Spec => []MemorySafe
<1>1. Init => MemoryInv
  <2> SUFFICES ASSUME Init PROVE MemoryInv
    OBVIOUS
  <2>1. OneOwner /\ Stages /\ Joined /\ NoUseAfterFree
    BY DEF Init, OneOwner, Stages, Joined, NoUseAfterFree, Owning, Calls, Destroying, Actors
  <2>2. QED
    BY <2>1, InvInit DEF MemoryInv
<1>2. MemoryInv /\ [Next]_vars => MemoryInv'
  <2> SUFFICES ASSUME MemoryInv, [Next]_vars PROVE MemoryInv'
    OBVIOUS
  <2>1. PoolInv'
    BY InvStep DEF MemoryInv
  <2>2. QED
    BY <2>1, Disciplined, OwnerStep, StagesStep, JoinedStep, FreedStep DEF MemoryInv
<1>3. MemoryInv => MemorySafe
  BY DEF MemoryInv, PoolInv, MemorySafe
<1>4. QED
  BY <1>1, <1>2, <1>3, PTL DEF Spec

=============================================================================
