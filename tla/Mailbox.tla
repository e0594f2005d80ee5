------------------------------ MODULE Mailbox ------------------------------
(***************************************************************************)
(* What the channels of a program promise it (the comments of              *)
(* stdlib/src/channel/channel.hao, the behaviour of runtime_channel.c):    *)
(* a channel is a bounded first-in first-out queue; a call takes effect    *)
(* once, between the moment it is made and the moment it returns, and what *)
(* it returns says which effect that was.  Mutexes, condition variables,   *)
(* waiters and roots are the business of Channel, which implements this    *)
(* module.                                                                 *)
(***************************************************************************)
EXTENDS Naturals, Sequences

CONSTANTS Threads, Chans, Values, Size(_), Unbuffered, Requests, None

VARIABLES
    queue, closed, req, ret,
    offered     \* senders whose value is in an unbuffered channel

vars == <<queue, closed, req, ret, offered>>

Init ==
    /\ queue = [c \in Chans |-> <<>>]
    /\ closed = {}
    /\ req = [t \in Threads |-> None]
    /\ ret = [t \in Threads |-> None]
    /\ offered = {}

Pending(t) == req[t] # None /\ ret[t] = None

Invoke(t) ==
    /\ req[t] = None
    /\ \E r \in Requests[t] : req' = [req EXCEPT ![t] = r]
    /\ UNCHANGED <<queue, closed, ret, offered>>

Return(t) ==
    /\ ret[t] # None
    /\ req' = [req EXCEPT ![t] = None]
    /\ ret' = [ret EXCEPT ![t] = None]
    /\ UNCHANGED <<queue, closed, offered>>

Answer(t, r) == ret' = [ret EXCEPT ![t] = r] /\ UNCHANGED <<req, offered>>

(* The value goes to the tail of a queue that is open and has room.        *)
Enqueue(k) ==
    /\ k.c \notin closed
    /\ Len(queue[k.c]) < Size(k.c)
    /\ queue' = [queue EXCEPT ![k.c] = Append(@, k.v)]
    /\ UNCHANGED closed

Put(t, k) == Enqueue(k) /\ Answer(t, "ok")

(* A send on an unbuffered channel offers its value, and is done when the  *)
(* channel has been empty since, or is closed.                             *)
Offer(t, k) ==
    /\ t \notin offered
    /\ Enqueue(k)
    /\ offered' = offered \union {t}
    /\ UNCHANGED <<req, ret>>

Met(t, k) ==
    /\ t \in offered
    /\ k.c \in closed \/ queue[k.c] = <<>>
    /\ offered' = offered \ {t}
    /\ ret' = [ret EXCEPT ![t] = "ok"]
    /\ UNCHANGED <<queue, closed, req>>

(* The head leaves the queue, closed or not.                               *)
Take(t, k) ==
    /\ queue[k.c] # <<>>
    /\ queue' = [queue EXCEPT ![k.c] = Tail(@)]
    /\ Answer(t, Head(queue[k.c]))
    /\ UNCHANGED closed

(* The answers that change nothing are true when they are given.           *)
Drained(t, k) ==
    /\ k.c \in closed /\ queue[k.c] = <<>>
    /\ Answer(t, "zero")
    /\ UNCHANGED <<queue, closed>>

PutFails(t, k) ==
    /\ k.c \in closed \/ (k.op = "trySend" /\ Len(queue[k.c]) = Size(k.c))
    /\ Answer(t, "fail")
    /\ UNCHANGED <<queue, closed>>

TakeFails(t, k) ==
    /\ queue[k.c] = <<>>
    /\ Answer(t, "fail")
    /\ UNCHANGED <<queue, closed>>

Close(t, k) ==
    /\ closed' = closed \union {k.c}
    /\ Answer(t, "ok")
    /\ UNCHANGED queue

(* A select has the effect of one of its cases, or, with a default, none.  *)
Select(t) ==
    \/ \E k \in req[t].cases :
          \/ k.op = "trySend" /\ Put(t, k)
          \/ k.op = "selRecv" /\ (Take(t, k) \/ Drained(t, k))
    \/ req[t].default /\ Answer(t, "default") /\ UNCHANGED <<queue, closed>>

Effect(t) ==
    /\ Pending(t)
    /\ LET k == req[t] IN
       \/ k.op = "send" /\ IF k.c \in Unbuffered THEN Offer(t, k) \/ Met(t, k) ELSE Put(t, k)
       \/ k.op \in {"send", "trySend"} /\ t \notin offered /\ PutFails(t, k)
       \/ k.op = "trySend" /\ Put(t, k)
       \/ k.op = "recv" /\ (Take(t, k) \/ Drained(t, k))
       \/ k.op = "tryRecv" /\ (Take(t, k) \/ TakeFails(t, k))
       \/ k.op = "close" /\ Close(t, k)
       \/ k.op = "select" /\ Select(t)

(* A channel nobody can reach any more goes away with what it holds.       *)
Vanish(c) ==
    /\ queue' = [queue EXCEPT ![c] = <<>>]
    /\ closed' = closed \union {c}
    /\ UNCHANGED <<req, ret, offered>>

Next ==
    \/ \E t \in Threads : Invoke(t) \/ Effect(t) \/ Return(t)
    \/ \E c \in Chans : Vanish(c)

Spec == Init /\ [][Next]_vars
=============================================================================
