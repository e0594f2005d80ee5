---------------------------- MODULE Channel_proof ----------------------------
(***************************************************************************)
(* Proofs about Channel, for every value of the constants.                 *)
(***************************************************************************)
EXTENDS Channel, FiniteSetTheorems, FunctionTheorems, SequenceTheorems, TLAPS

-----------------------------------------------------------------------------
(* The inductive invariant.                                                *)

(* Where a thread is says what it is calling, and what of the answer is    *)
(* decided.                                                                *)
Idle(t) == pc[t] = "idle" /\ req[t] = None /\ call[t] = None /\ ret[t] = None

(* A call of the program, but for a send on an unbuffered channel whose    *)
(* value is in the slot.                                                   *)
Calling(t) ==
    /\ req[t] \in ProgramCalls
    /\ \/ call[t] = req[t]
       \/ /\ req[t].op = "send" /\ Cap[req[t].c] = 0
          /\ call[t] = [req[t] EXCEPT !.op = "await"]
          /\ pc[t] \in {"asleep", "wake", "disarm", "return"}
    /\ \/ pc[t] \in {"enter", "asleep", "wake", "disarm"} /\ ret[t] = None
       \/ pc[t] = "unroot" /\ call[t].op \in SendOps /\ ret[t] = "fail"
       \/ pc[t] = "unroot" /\ call[t].op \in RecvOps /\ ret[t] \in Values
       \/ pc[t] = "return" /\ ret[t] # None
    /\ pc[t] \in {"asleep", "wake", "disarm"} => call[t].op \in {"send", "await", "recv"}

Selecting(t) ==
    /\ req[t] \in Selects
    /\ todo[t] \subseteq req[t].cases
    /\ \/ pc[t] = "enter" /\ call[t] \in todo[t] /\ ret[t] = None
       \/ pc[t] = "unroot" /\ call[t] \in req[t].cases /\ call[t].op = "trySend" /\ ret[t] = None
       \/ pc[t] = "unroot" /\ call[t] \in req[t].cases /\ call[t].op = "selRecv" /\ ret[t] \in Values
       \/ pc[t] \in {"next", "leave"}
       \/ pc[t] \in {"enrol", "parked"} /\ ret[t] = None
       \/ pc[t] = "return" /\ ret[t] # None

Placed(t) == Idle(t) \/ Calling(t) \/ Selecting(t)

\* Every thread is at a place of the control flow, with the state that goes with it.
Control == \A t \in Threads : Placed(t)

\* Threads call what they may call.
Asked == \A t \in Threads : req[t] # None => req[t] \in Requests[t]

(* The places of the ring between head and head + len hold payloads.       *)
RingFilled == \A c \in Chans : Contents(c) \in Seq(Values)

(* No call is under way on a channel that was dropped.                     *)
DroppedUnused == \A t \in Threads : req[t] # None => Touches(req[t]) \intersect freed = {}

(* A select is enrolled from the end of one pass over its cases to the     *)
(* end of another.                                                         *)
EnrolmentOf(t) ==
    /\ enrolled[t] => req[t] \in Selects /\ pc[t] \in {"next", "enter", "unroot", "parked", "leave"}
    /\ pc[t] \in {"parked", "leave"} => enrolled[t]
    /\ pc[t] = "parked" => todo[t] = req[t].cases

Enrolment == \A t \in Threads : EnrolmentOf(t)

(* A select that enrolled with k has its node in the list of k's channel.  *)
HasNode(t, k) ==
    \/ enrolled[t] /\ (pc[t] = "leave" => k \in todo[t])
    \/ pc[t] = "enrol" /\ k \notin todo[t]

NodesOf(t) ==
    \A k \in Cases : \A c \in Chans :
        <<t, k>> \in selq[c] <=> req[t] \in Selects /\ k \in req[t].cases /\ k.c = c /\ HasNode(t, k)

Nodes == \A t \in Threads : NodesOf(t)

(* A select in its second pass, or parked, that was not woken since it     *)
(* enrolled: the cases it has visited are still not ready.                 *)
WatchingOf(t) ==
    enrolled[t] /\ ~woken[t] /\ ret[t] = None /\ pc[t] # "leave"
        => \A k \in req[t].cases : Ready(k) => k \in todo[t] /\ pc[t] # "parked"

Watching == \A t \in Threads : WatchingOf(t)

(* As many receivers have been woken as there are values, unless none is   *)
(* asleep; and as many senders as there is room.                           *)
Awake(c, ops) ==
    {t \in Threads : pc[t] \in {"wake", "disarm"} /\ call[t].c = c /\ call[t].op \in ops}

\* While a receiver sleeps on c, each value in c has a receiver that was woken.
ReceiversWoken ==
    \A c \in Chans : RecvSleepers(c) # {} =>
        c \notin closed /\ len[c] <= Cardinality(Awake(c, {"recv"}))

\* While a sender sleeps on c, each free place of c has a sender that was woken.
SendersWoken ==
    \A c \in Chans : SendSleepers(c) # {} =>
        c \notin closed /\ Size(c) <= len[c] + Cardinality(Awake(c, {"send", "await"}))

(* An unbuffered channel has one sender.                                   *)
LoneSenders ==
    \A t, u \in Threads : \A k \in Requests[t], l \in Requests[u] :
        k.op = "send" /\ l.op = "send" /\ k.c = l.c /\ Cap[k.c] = 0 => t = u

\* No call closes an unbuffered channel.
UnbufferedStayOpen ==
    \A t \in Threads : \A k \in Requests[t] : k.op = "close" => Cap[k.c] # 0

\* The inductive invariant.
SafeInv ==
    /\ TypeOK /\ Control /\ Asked /\ RingFilled /\ DroppedUnused
    /\ Enrolment /\ Nodes /\ Watching /\ ReceiversWoken

-----------------------------------------------------------------------------
(* Calls, cases and the ring.                                              *)

\* What the calls and the cases of a select are made of.
LEMMA CallShape ==
  ASSUME NEW k \in Calls
  PROVE  /\ k.c \in Chans /\ k # None /\ k.op # "select" /\ k \notin Selects
         /\ k.op \in SendOps \union {"await", "close"} \union RecvOps
         /\ k.op \in SendOps \union {"await"} => k.v \in Values
         /\ Touches(k) = {k.c}
BY NoneAssumption DEF Calls, Selects, SendOps, RecvOps, Touches

\* A case of a select is a call that tries.
LEMMA CaseShape ==
  ASSUME NEW k \in Cases
  PROVE  k \in Calls /\ k.op \in {"trySend", "selRecv"}
BY DEF Cases, Calls, SendOps, RecvOps

\* What a program calls is neither the end of a rendezvous nor a select's try.
LEMMA ProgramCallShape ==
  ASSUME NEW k \in ProgramCalls
  PROVE  k \in Calls /\ k.op \notin {"await", "selRecv"}
BY DEF ProgramCalls

\* A select is no call of a channel: it is made of cases that are.
LEMMA SelectShape ==
  ASSUME NEW r \in Selects
  PROVE  /\ r.op = "select" /\ r # None /\ r \notin Calls
         /\ r.cases \subseteq Cases /\ r.cases # {} /\ r.default \in BOOLEAN
         /\ Touches(r) = {k.c : k \in r.cases}
BY NoneAssumption DEF Selects, Touches, Calls, SendOps, RecvOps

\* The ring index is within the ring.
LEMMA ModRange == ASSUME NEW n \in Nat \ {0}, NEW a \in Nat PROVE a % n \in 0 .. n - 1
OBVIOUS

\* An index within the ring is itself.
LEMMA ModSmall == ASSUME NEW n \in Nat \ {0}, NEW a \in 0 .. n - 1 PROVE a % n = a
OBVIOUS

\* An index that runs over wraps once.
LEMMA ModWrap == ASSUME NEW n \in Nat \ {0}, NEW a \in n .. 2 * n - 1 PROVE a % n = a - n
OBVIOUS

\* A ring has at least one slot.
LEMMA SizeType == ASSUME NEW c \in Chans PROVE Size(c) \in Nat \ {0}
BY CapAssumption DEF Size

\* The types of one channel's ring.
LEMMA RingType ==
  ASSUME RingOK, NEW c \in Chans
  PROVE  /\ buf[c] \in [0 .. Size(c) - 1 -> Values \union {None}]
         /\ head[c] \in 0 .. Size(c) - 1 /\ len[c] \in 0 .. Size(c)
BY SizeType DEF RingOK

\* The place i after the head.
LEMMA Place ==
  ASSUME RingOK, NEW c \in Chans, NEW i \in Nat
  PROVE  (head[c] + i) % Size(c) \in 0 .. Size(c) - 1
<1>1. Size(c) \in Nat \ {0} /\ head[c] + i \in Nat
  BY SizeType, RingType
<1>2. QED
  BY <1>1, ModRange

-----------------------------------------------------------------------------
(* Types.                                                                  *)

\* The initial states are well typed.
LEMMA InitType == Init => TypeOK
<1> SUFFICES ASSUME Init PROVE TypeOK
  OBVIOUS
<1>1. RingOK
  BY SizeType DEF Init, RingOK
<1>2. QED
  BY <1>1 DEF Init, TypeOK, PC

\* Two places of the ring are the same when they are equally far from head.
LEMMA PlaceInjective ==
  ASSUME NEW n \in Nat \ {0}, NEW h \in 0 .. n - 1, NEW i \in 0 .. n - 1, NEW j \in 0 .. n - 1,
         (h + i) % n = (h + j) % n
  PROVE  i = j
<1>1. \A k \in 0 .. n - 1 : (h + k) % n = IF h + k < n THEN h + k ELSE h + k - n
  <2> TAKE k \in 0 .. n - 1
  <2>1. CASE h + k < n
    BY <2>1, ModSmall
  <2>2. CASE ~ (h + k < n)
    <3>1. h + k \in n .. 2 * n - 1
      BY <2>2
    <3>2. \A a \in n .. 2 * n - 1 : a % n = a - n
      BY ModWrap
    <3>3. (h + k) % n = (h + k) - n
      BY <3>1, <3>2
    <3>4. QED
      BY <2>2, <3>3
  <2>3. QED
    BY <2>1, <2>2
<1>2. QED
  BY <1>1

\* Moving head on by one and looking one less far.
LEMMA PlaceShift ==
  ASSUME NEW n \in Nat \ {0}, NEW h \in 0 .. n - 1, NEW i \in 0 .. n - 1
  PROVE  (((h + 1) % n) + i) % n = (h + (i + 1)) % n
<1>1. CASE h + 1 < n
  <2>1. (h + 1) % n = h + 1
    BY <1>1, ModSmall
  <2>2. QED
    BY <2>1
<1>2. CASE h + 1 = n
  <2>1. (h + 1) % n = 0
    BY <1>2, ModWrap
  <2>2. h + (i + 1) \in n .. 2 * n - 1 /\ h + (i + 1) - n = i
    BY <1>2
  <2>3. (h + (i + 1)) % n = i
    BY <2>2, ModWrap
  <2>4. (0 + i) % n = i
    BY ModSmall
  <2>5. QED
    BY <2>1, <2>3, <2>4
<1>3. QED
  BY <1>1, <1>2

\* The contents of a ring b of size s: n payloads from place h on.
Window(b, s, h, n) == [i \in 1 .. n |-> b[(h + i - 1) % s]]

Rings(s, S) == [0 .. s - 1 -> S]

\* The queue read off a ring is a sequence as long as its count.
LEMMA WindowType ==
  ASSUME NEW S, NEW s \in Nat \ {0}, NEW b \in Rings(s, S),
         NEW h \in 0 .. s - 1, NEW n \in 0 .. s
  PROVE  /\ Window(b, s, h, n) \in Seq(S)
         /\ Len(Window(b, s, h, n)) = n
<1>1. ASSUME NEW i \in 1 .. n
      PROVE  (h + i - 1) % s = (h + (i - 1)) % s /\ b[(h + (i - 1)) % s] \in S
  <2>1. h + (i - 1) \in Nat /\ h + i - 1 = h + (i - 1)
    OBVIOUS
  <2>2. (h + (i - 1)) % s \in 0 .. s - 1
    BY <2>1, ModRange
  <2>3. QED
    BY <2>1, <2>2 DEF Rings
<1>2. Window(b, s, h, n) \in [1 .. n -> S]
  BY <1>1 DEF Window
<1>3. QED
  BY <1>1, <1>2 DEF Window

\* Writing the place after the last payload appends.
Written(a, b, s, p, v) == a[p] = v /\ \A i \in 0 .. s - 1 : i # p => a[i] = b[i]

\* A value written behind the window extends the queue by it (chan_push_buf).
LEMMA WindowPush ==
  ASSUME NEW S, NEW s \in Nat \ {0}, NEW b \in Rings(s, S), NEW a \in Rings(s, S), NEW v \in S,
         NEW h \in 0 .. s - 1, NEW n \in 0 .. s - 1,
         NEW p, p = (h + n) % s, Written(a, b, s, p, v)
  PROVE  Window(a, s, h, n + 1) = Append(Window(b, s, h, n), v)
<1> DEFINE w == Window(b, s, h, n)
           x == Window(a, s, h, n + 1)
<1>1. n \in 0 .. s /\ n + 1 \in 0 .. s /\ h + n \in Nat
  OBVIOUS
<1>4. w \in Seq(S) /\ Len(w) = n
  BY <1>1, WindowType
<1>5. x \in Seq(S) /\ Len(x) = n + 1
  BY <1>1, WindowType
<1>6. ASSUME NEW i \in 1 .. n PROVE x[i] = w[i]
  <2>1. i - 1 \in 0 .. s - 1 /\ i - 1 # n /\ n \in 0 .. s - 1 /\ h + (i - 1) \in Nat /\ i \in 1 .. n + 1
    BY <1>1
  <2>2. (h + (i - 1)) % s # (h + n) % s
    BY <2>1, PlaceInjective
  <2>3. (h + (i - 1)) % s \in 0 .. s - 1
    BY <2>1, ModRange
  <2>4. a[(h + (i - 1)) % s] = b[(h + (i - 1)) % s]
    BY <2>2, <2>3 DEF Written
  <2>5. h + i - 1 = h + (i - 1)
    OBVIOUS
  <2>6. QED
    BY <2>1, <2>4, <2>5 DEF Window
<1>7. x[n + 1] = v
  <2>1. n + 1 \in 1 .. n + 1 /\ h + (n + 1) - 1 = h + n
    OBVIOUS
  <2>2. QED
    BY <2>1 DEF Window, Written
<1> HIDE DEF w, x
<1>8. /\ Append(w, v) \in Seq(S) /\ Len(Append(w, v)) = n + 1
      /\ \A i \in 1 .. n : Append(w, v)[i] = w[i]
      /\ Append(w, v)[n + 1] = v
  BY <1>4, AppendProperties
<1>9. \A i \in 1 .. n + 1 : x[i] = Append(w, v)[i]
  BY <1>6, <1>7, <1>8
<1>10. x = Append(w, v)
  BY <1>5, <1>8, <1>9, SeqEqual
<1>11. QED
  BY <1>10 DEF w, x

\* Moving the head on by one place removes the oldest payload.
LEMMA WindowPop ==
  ASSUME NEW S, NEW s \in Nat \ {0}, NEW b \in Rings(s, S),
         NEW h \in 0 .. s - 1, NEW n \in 1 .. s
  PROVE  /\ Window(b, s, h, n) # <<>> /\ Head(Window(b, s, h, n)) = b[h]
         /\ Window(b, s, (h + 1) % s, n - 1) = Tail(Window(b, s, h, n))
<1> DEFINE w == Window(b, s, h, n)
           g == (h + 1) % s
           x == Window(b, s, g, n - 1)
<1>1. n \in 0 .. s /\ n - 1 \in 0 .. s /\ g \in 0 .. s - 1
  <2>1. h + 1 \in Nat
    OBVIOUS
  <2>2. g \in 0 .. s - 1
    BY <2>1, ModRange
  <2>3. QED
    BY <2>2
<1>2. w \in Seq(S) /\ Len(w) = n
  BY <1>1, WindowType
<1>3. x \in Seq(S) /\ Len(x) = n - 1
  BY <1>1, WindowType
<1>4. w # <<>> /\ Head(w) = b[h]
  <2>1. 1 \in 1 .. n /\ h + 1 - 1 = h /\ h % s = h
    BY ModSmall
  <2>2. w[1] = b[h]
    BY <2>1 DEF Window
  <2> HIDE DEF w
  <2>3. QED
    BY <1>2, <2>2
<1>5. ASSUME NEW i \in 1 .. n - 1 PROVE x[i] = w[i + 1]
  <2>1. i + 1 \in 1 .. n /\ i - 1 \in 0 .. s - 1
    OBVIOUS
  <2>2. (g + (i - 1)) % s = (h + ((i - 1) + 1)) % s
    BY <2>1, PlaceShift
  <2>3. g + i - 1 = g + (i - 1) /\ h + (i + 1) - 1 = h + ((i - 1) + 1)
    BY <1>1
  <2>4. x[i] = b[(g + i - 1) % s] /\ w[i + 1] = b[(h + (i + 1) - 1) % s]
    BY <2>1 DEF Window
  <2>5. QED
    BY <2>2, <2>3, <2>4
<1> HIDE DEF w, g, x
<1>6. /\ Tail(w) \in Seq(S) /\ Len(Tail(w)) = n - 1
      /\ \A i \in 1 .. n - 1 : Tail(w)[i] = w[i + 1]
  BY <1>2, <1>4, HeadTailProperties
<1>7. x = Tail(w)
  BY <1>3, <1>5, <1>6, SeqEqual
<1>8. QED
  BY <1>4, <1>7 DEF w, g, x

\* What a place of a ring may hold.
Slot == Values \union {None}

\* The same of a channel's contents.
LEMMA ContentsType ==
  ASSUME RingOK, NEW c \in Chans
  PROVE  /\ Contents(c) \in Seq(Slot)
         /\ Len(Contents(c)) = len[c]
<1>1. Contents(c) = Window(buf[c], Size(c), head[c], len[c])
  BY DEF Contents, Window
<1>2. buf[c] \in Rings(Size(c), Slot)
  BY RingType DEF Rings, Slot
<1>3. Size(c) \in Nat \ {0} /\ head[c] \in 0 .. Size(c) - 1 /\ len[c] \in 0 .. Size(c)
  BY SizeType, RingType
<1>4. Window(buf[c], Size(c), head[c], len[c]) \in Seq(Slot)
  BY <1>2, <1>3, WindowType
<1>5. Len(Window(buf[c], Size(c), head[c], len[c])) = len[c]
  BY <1>2, <1>3, WindowType
<1>6. QED
  BY <1>1, <1>4, <1>5

\* chan_push_buf appends to the contents of a channel that has room.
LEMMA Push ==
  ASSUME RingOK, NEW c \in Chans, NEW v \in Values, ~Full(c), chan_push_buf(c, v)
  PROVE  /\ Contents(c)' = Append(Contents(c), v)
         /\ \A d \in Chans \ {c} : Contents(d)' = Contents(d)
<1>1. /\ Size(c) \in Nat \ {0} /\ head[c] \in 0 .. Size(c) - 1 /\ len[c] \in 0 .. Size(c) - 1
      /\ buf[c] \in Rings(Size(c), Slot)
  BY SizeType, RingType DEF Rings, Slot, Full
<1>2. /\ head'[c] = head[c] /\ len'[c] = len[c] + 1
      /\ buf'[c] = [buf[c] EXCEPT ![(head[c] + len[c]) % Size(c)] = v]
  BY <1>1 DEF chan_push_buf, RingOK
<1>3. Contents(c) = Window(buf[c], Size(c), head[c], len[c])
  BY DEF Contents, Window
<1>4. Contents(c)' = Window(buf'[c], Size(c), head[c], len[c] + 1)
  BY <1>2 DEF Contents, Window, Size
<1>5. Contents(c)' = Append(Contents(c), v)
  <2>1. head[c] + len[c] \in Nat /\ v \in Slot
    BY <1>1 DEF Slot
  <2>2. (head[c] + len[c]) % Size(c) \in 0 .. Size(c) - 1
    BY <1>1, <2>1, ModRange
  <2>3. /\ buf'[c] \in Rings(Size(c), Slot)
        /\ Written(buf'[c], buf[c], Size(c), (head[c] + len[c]) % Size(c), v)
    BY <1>1, <1>2, <2>1, <2>2 DEF Rings, Slot, Written
  <2>4. Window(buf'[c], Size(c), head[c], len[c] + 1) = Append(Window(buf[c], Size(c), head[c], len[c]), v)
    <3> DEFINE s == Size(c)
               a == buf'[c]
               b == buf[c]
               h == head[c]
               n == len[c]
               p == (h + n) % s
    <3>1. /\ s \in Nat \ {0} /\ h \in 0 .. s - 1 /\ n \in 0 .. s - 1 /\ v \in Slot
          /\ b \in Rings(s, Slot) /\ a \in Rings(s, Slot) /\ p = (h + n) % s /\ Written(a, b, s, p, v)
      BY <1>1, <2>1, <2>3
    <3> HIDE DEF s, a, b, h, n, p
    <3>2. Window(a, s, h, n + 1) = Append(Window(b, s, h, n), v)
      BY <3>1, WindowPush
    <3>3. QED
      BY <3>2 DEF s, a, b, h, n
  <2>5. QED
    BY <1>3, <1>4, <2>4
<1>6. ASSUME NEW d \in Chans \ {c} PROVE Contents(d)' = Contents(d)
  BY DEF Contents, chan_push_buf, RingOK, Size
<1>7. QED
  BY <1>5, <1>6

\* chan_pop_buf removes the oldest payload.
LEMMA Pop ==
  ASSUME RingOK, NEW c \in Chans, ~Empty(c), chan_pop_buf(c)
  PROVE  /\ Contents(c) # <<>> /\ Head(Contents(c)) = buf[c][head[c]]
         /\ Contents(c)' = Tail(Contents(c))
         /\ \A d \in Chans \ {c} : Contents(d)' = Contents(d)
<1>1. /\ Size(c) \in Nat \ {0} /\ head[c] \in 0 .. Size(c) - 1 /\ len[c] \in 1 .. Size(c)
      /\ buf[c] \in Rings(Size(c), Slot)
  BY SizeType, RingType DEF Rings, Slot, Empty
<1>2. /\ buf' = buf /\ len'[c] = len[c] - 1 /\ head'[c] = (head[c] + 1) % Size(c)
  BY <1>1 DEF chan_pop_buf, RingOK
<1>3. Contents(c) = Window(buf[c], Size(c), head[c], len[c])
  BY DEF Contents, Window
<1>4. Contents(c)' = Window(buf[c], Size(c), (head[c] + 1) % Size(c), len[c] - 1)
  BY <1>2 DEF Contents, Window, Size
<1>5. /\ Contents(c) # <<>> /\ Head(Contents(c)) = buf[c][head[c]]
      /\ Contents(c)' = Tail(Contents(c))
  <2>1. /\ Window(buf[c], Size(c), head[c], len[c]) # <<>>
        /\ Head(Window(buf[c], Size(c), head[c], len[c])) = buf[c][head[c]]
    BY <1>1, WindowPop
  <2>2. Window(buf[c], Size(c), (head[c] + 1) % Size(c), len[c] - 1)
          = Tail(Window(buf[c], Size(c), head[c], len[c]))
    BY <1>1, WindowPop
  <2>3. QED
    BY <1>3, <1>4, <2>1, <2>2
<1>6. ASSUME NEW d \in Chans \ {c} PROVE Contents(d)' = Contents(d)
  BY DEF Contents, chan_pop_buf, RingOK, Size
<1>7. QED
  BY <1>5, <1>6

\* The slot at head holds a value when the channel is not empty.
LEMMA Oldest ==
  ASSUME RingOK, RingFilled, NEW c \in Chans, ~Empty(c)
  PROVE  buf[c][head[c]] \in Values
<1>1. /\ Size(c) \in Nat \ {0} /\ head[c] \in 0 .. Size(c) - 1 /\ len[c] \in 1 .. Size(c)
      /\ buf[c] \in Rings(Size(c), Slot)
  BY SizeType, RingType DEF Rings, Slot, Empty
<1>2. Contents(c) = Window(buf[c], Size(c), head[c], len[c])
  BY DEF Contents, Window
<1>3. /\ Window(buf[c], Size(c), head[c], len[c]) # <<>>
      /\ Head(Window(buf[c], Size(c), head[c], len[c])) = buf[c][head[c]]
  BY <1>1, WindowPop
<1>4. QED
  BY <1>2, <1>3, HeadTailProperties DEF RingFilled

\* chan_push_buf keeps the ring well formed.
LEMMA PushType ==
  ASSUME RingOK, NEW c \in Chans, NEW v \in Values, ~Full(c), chan_push_buf(c, v)
  PROVE  RingOK'
<1>1. len[c] + 1 \in Nat /\ len[c] + 1 <= Size(c)
  BY RingType, SizeType DEF Full
<1>2. (head[c] + len[c]) % Size(c) \in 0 .. Size(c) - 1
  <2>1. len[c] \in Nat
    BY RingType, SizeType
  <2>2. QED
    BY <2>1, Place
<1>3. \A d \in Chans : buf'[d] \in [0 .. Size(d) - 1 -> Values \union {None}]
  BY <1>2 DEF chan_push_buf, RingOK
<1>4. DOMAIN buf' = Chans /\ head' = head
  BY DEF chan_push_buf, RingOK
<1>5. len' \in [Chans -> Nat] /\ \A d \in Chans : len'[d] <= Size(d)
  BY <1>1 DEF chan_push_buf, RingOK
<1>6. QED
  BY <1>3, <1>4, <1>5 DEF RingOK, Size

\* chan_pop_buf keeps the ring well formed.
LEMMA PopType ==
  ASSUME RingOK, NEW c \in Chans, ~Empty(c), chan_pop_buf(c)
  PROVE  RingOK'
<1>1. len[c] - 1 \in Nat /\ len[c] - 1 <= Size(c)
  BY RingType, SizeType DEF Empty
<1>2. (head[c] + 1) % Size(c) \in Nat /\ (head[c] + 1) % Size(c) < Size(c)
  BY RingType, SizeType, Place
<1>3. len' \in [Chans -> Nat] /\ \A d \in Chans : len'[d] <= Size(d)
  BY <1>1 DEF chan_pop_buf, RingOK
<1>4. head' \in [Chans -> Nat] /\ \A d \in Chans : head'[d] < Size(d)
  BY <1>2 DEF chan_pop_buf, RingOK
<1>5. QED
  BY <1>3, <1>4 DEF RingOK, Size, chan_pop_buf

\* Finitely many places of a ring hold a value.
LEMMA HoldingType ==
  ASSUME RingOK, NEW c \in Chans, NEW v
  PROVE  IsFiniteSet(Holding(c, v)) /\ Cardinality(Holding(c, v)) \in Nat
<1>1. len[c] \in Nat
  BY RingType, SizeType
<1>2. IsFiniteSet(1 .. len[c])
  BY <1>1, FS_Interval
<1>3. Holding(c, v) \in SUBSET (1 .. len[c])
  BY DEF Holding
<1>4. QED
  BY <1>2, <1>3, FS_Subset, FS_CardinalityType

\* What happens to the control variables when a primitive ends or sleeps.
LEMMA GoType ==
  ASSUME TypeOK, NEW t \in Threads, NEW to \in PC, NEW W, Go(t, to, W)
  PROVE  pc' \in [Threads -> PC]
BY DEF TypeOK, Go, PC

\* What a primitive decides is of the right type.
LEMMA EffectType ==
  ASSUME TypeOK, NEW t \in Threads, NEW a \in Values \union Answers \union {None},
         Decide(t, a) \/ NoEffect(t, a)
  PROVE  ret' \in [Threads -> Values \union Answers \union {None}] /\ todo' \in [Threads -> SUBSET Cases]
BY DEF TypeOK, Decide, NoEffect

\* Releasing the mutex keeps its type.
LEMMA UnlockType ==
  ASSUME TypeOK, NEW t \in Threads, Unlock(t)
  PROVE  mtx' \in [Chans -> Threads \union {None}]
BY DEF TypeOK, Unlock

\* Waking selects keeps their flags Boolean.
LEMMA WakeType ==
  ASSUME TypeOK, NEW c, chan_wake_select(c)
  PROVE  woken' \in [Threads -> BOOLEAN]
BY DEF TypeOK, chan_wake_select

\* After a call a thread is at a place there is.
LEMMA AfterCallType == \A t : AfterCall(t) \in PC
BY DEF AfterCall, PC

\* A condition variable wakes only sleepers.
LEMMA SignalAsleep ==
  ASSUME NEW c, NEW W \in Signal(SendSleepers(c)) \union Signal(RecvSleepers(c))
  PROVE  \A u \in W : pc[u] = "asleep"
BY DEF Signal, SendSleepers, RecvSleepers, Asleep

\* What a step of t leaves alone of another thread.
Kept(u) ==
    /\ req'[u] = req[u] /\ call'[u] = call[u] /\ ret'[u] = ret[u]
    /\ todo'[u] = todo[u] /\ enrolled'[u] = enrolled[u]
    /\ pc'[u] = pc[u] \/ (pc[u] = "asleep" /\ pc'[u] = "wake")
    /\ woken[u] => woken'[u]
    /\ \A c \in Chans, k \in Cases : <<u, k>> \in selq'[c] <=> <<u, k>> \in selq[c]

\* A step moves its own thread, and others only from asleep to awake.
LEMMA GoKeeps ==
  ASSUME TypeOK, NEW t \in Threads, NEW to, NEW W, Go(t, to, W), \A u \in W : pc[u] = "asleep"
  PROVE  /\ pc'[t] = to
         /\ \A u \in Threads \ {t} : pc'[u] = pc[u] \/ (pc[u] = "asleep" /\ pc'[u] = "wake")
BY DEF Go

\* It decides nothing for another thread.
LEMMA EffectKeeps ==
  ASSUME TypeOK, NEW t \in Threads, NEW a, Decide(t, a) \/ NoEffect(t, a)
  PROVE  \A u \in Threads \ {t} : ret'[u] = ret[u] /\ todo'[u] = todo[u]
BY DEF Decide, NoEffect, TypeOK

\* It takes no wake-up of a select back.
LEMMA WakeKeeps ==
  ASSUME TypeOK, NEW c, chan_wake_select(c) \/ UNCHANGED woken
  PROVE  \A u \in Threads : woken[u] => woken'[u]
BY DEF chan_wake_select, TypeOK

\* The steps of send keep the types.
LEMMA SendType ==
  ASSUME TypeOK, NEW t \in Threads,
         SendRefused(t) \/ SendWaits(t) \/ SendPut(t) \/ AwaitWaits(t) \/ AwaitEnds(t)
  PROVE  TypeOK'
<1> USE DEF vars, ring, selVars
<1>1. CASE SendRefused(t)
  <2>1. "fail" \in Answers /\ "unroot" \in PC
    BY DEF Answers, PC
  <2>2. QED
    BY <1>1, <2>1, GoType, EffectType, UnlockType DEF SendRefused, TypeOK, RingOK, Size
<1>2. CASE SendWaits(t)
  <2>1. "asleep" \in PC
    BY DEF PC
  <2>2. QED
    BY <1>2, <2>1, GoType, UnlockType DEF SendWaits, TypeOK, RingOK, Size
<1>3. CASE SendPut(t)
  <2> DEFINE c == call[t].c
             v == call[t].v
  <2>1. call[t] \in Calls /\ c \in Chans /\ v \in Values
    BY <1>3, CallShape DEF SendPut, Owns, TypeOK
  <2>2. RingOK'
    BY <1>3, <2>1, PushType DEF SendPut, TypeOK
  <2>3. "ok" \in Answers /\ "asleep" \in PC
    BY DEF Answers, PC
  <2>4. pc' \in [Threads -> PC]
    BY <1>3, <2>3, GoType, AfterCallType DEF SendPut
  <2>5. /\ ret' \in [Threads -> Values \union Answers \union {None}]
        /\ todo' \in [Threads -> SUBSET Cases]
    BY <1>3, <2>3, EffectType DEF SendPut, TypeOK
  <2>6. call' \in [Threads -> Calls \union {None}]
    <3>1. CASE UNCHANGED call
      BY <3>1 DEF TypeOK
    <3>2. CASE call' = [call EXCEPT ![t].op = "await"] /\ call[t].op = "send"
      <4>1. [call[t] EXCEPT !.op = "await"] \in Calls
        BY <2>1, <3>2 DEF Calls, SendOps, RecvOps
      <4>2. QED
        BY <3>2, <4>1 DEF TypeOK
    <3>3. QED
      BY <1>3, <3>1, <3>2 DEF SendPut
  <2>7. mtx' \in [Chans -> Threads \union {None}] /\ woken' \in [Threads -> BOOLEAN]
    BY <1>3, UnlockType, WakeType DEF SendPut
  <2>8. QED
    BY <1>3, <2>2, <2>4, <2>5, <2>6, <2>7 DEF SendPut, TypeOK
<1>4. CASE AwaitWaits(t)
  <2>1. "asleep" \in PC
    BY DEF PC
  <2>2. QED
    BY <1>4, <2>1, GoType, UnlockType DEF AwaitWaits, TypeOK, RingOK, Size
<1>5. CASE AwaitEnds(t)
  <2>1. "ok" \in Answers /\ "return" \in PC
    BY DEF Answers, PC
  <2>2. QED
    BY <1>5, <2>1, GoType, EffectType, UnlockType DEF AwaitEnds, TypeOK, RingOK, Size
<1>6. QED
  BY <1>1, <1>2, <1>3, <1>4, <1>5

\* The steps of receive and close keep the types.
LEMMA RecvType ==
  ASSUME TypeOK, NEW t \in Threads,
         RecvTake(t) \/ RecvWaits(t) \/ RecvNothing(t) \/ hao_chan_close(t)
  PROVE  TypeOK'
<1> USE DEF vars, ring, selVars
<1>1. CASE RecvTake(t)
  <2> DEFINE c == call[t].c
  <2>1. c \in Chans
    BY <1>1, CallShape DEF RecvTake, Owns, TypeOK
  <2>2. RingOK'
    BY <1>1, <2>1, PopType DEF RecvTake, TypeOK
  <2>3. buf[c][head[c]] \in Values \union {None} /\ "unroot" \in PC
    BY <2>1, RingType DEF PC, TypeOK
  <2>4. pc' \in [Threads -> PC]
    BY <1>1, <2>3, GoType DEF RecvTake
  <2>5. /\ ret' \in [Threads -> Values \union Answers \union {None}]
        /\ todo' \in [Threads -> SUBSET Cases]
    BY <1>1, <2>3, EffectType DEF RecvTake, TypeOK
  <2>6. mtx' \in [Chans -> Threads \union {None}] /\ woken' \in [Threads -> BOOLEAN]
    BY <1>1, UnlockType, WakeType DEF RecvTake
  <2>7. QED
    BY <1>1, <2>2, <2>4, <2>5, <2>6 DEF RecvTake, TypeOK
<1>2. CASE RecvWaits(t)
  <2>1. "asleep" \in PC
    BY DEF PC
  <2>2. QED
    BY <1>2, <2>1, GoType, UnlockType DEF RecvWaits, TypeOK, RingOK, Size
<1>3. CASE RecvNothing(t)
  <2>1. "zero" \in Answers /\ "fail" \in Answers
    BY DEF Answers
  <2>2. pc' \in [Threads -> PC]
    BY <1>3, GoType, AfterCallType DEF RecvNothing
  <2>3. /\ ret' \in [Threads -> Values \union Answers \union {None}]
        /\ todo' \in [Threads -> SUBSET Cases]
    BY <1>3, <2>1, EffectType DEF RecvNothing
  <2>4. mtx' \in [Chans -> Threads \union {None}]
    BY <1>3, UnlockType DEF RecvNothing
  <2>5. QED
    BY <1>3, <2>2, <2>3, <2>4 DEF RecvNothing, TypeOK, RingOK, Size
<1>4. CASE hao_chan_close(t)
  <2> DEFINE c == call[t].c
  <2>1. c \in Chans /\ "ok" \in Answers /\ "return" \in PC
    BY <1>4, CallShape DEF hao_chan_close, Owns, TypeOK, Answers, PC
  <2>2. pc' \in [Threads -> PC]
    BY <1>4, <2>1, GoType DEF hao_chan_close
  <2>3. /\ ret' \in [Threads -> Values \union Answers \union {None}]
        /\ todo' \in [Threads -> SUBSET Cases]
    BY <1>4, <2>1, EffectType DEF hao_chan_close
  <2>4. mtx' \in [Chans -> Threads \union {None}] /\ woken' \in [Threads -> BOOLEAN]
    BY <1>4, UnlockType, WakeType DEF hao_chan_close, TypeOK
  <2>5. QED
    BY <1>4, <2>1, <2>2, <2>3, <2>4 DEF hao_chan_close, TypeOK, RingOK, Size
<1>5. QED
  BY <1>1, <1>2, <1>3, <1>4

\* Giving a root back keeps the counts natural.
LEMMA UnrootType ==
  ASSUME TypeOK, NEW v, chan_unroot(v)
  PROVE  roots' \in [Values -> Nat]
<1>1. \A u \in Values : roots[u] \in Nat
  BY DEF TypeOK
<1>2. CASE v \in Values
  <2>1. chan_unroots(v, 1) \in Nat
    BY <1>1, <1>2 DEF chan_unroots
  <2>2. QED
    BY <1>1, <2>1 DEF TypeOK, chan_unroot
<1>3. CASE v \notin Values
  BY <1>3 DEF TypeOK, chan_unroot
<1>4. QED
  BY <1>2, <1>3

\* The steps around a primitive keep the types.
LEMMA ThreadType ==
  ASSUME TypeOK, NEW t \in Threads,
         \/ \E r \in Requests[t] : Invoke(t, r)
         \/ Return(t) \/ Unroot(t) \/ SpuriousWake(t) \/ Reacquire(t)
  PROVE  TypeOK'
<1> USE DEF vars, ring, selVars
<1>1. ASSUME NEW r \in Requests[t], Invoke(t, r) PROVE TypeOK'
  <2>1. r \in ProgramCalls \union Selects
    BY RequestsAssumption
  <2>2. CASE r \in Selects
    <3>1. r.op = "select" /\ r.cases \subseteq Cases
      BY <2>2, SelectShape
    <3>2. QED
      BY <1>1, <2>2, <3>1 DEF Invoke, TypeOK, RingOK, Size, PC
  <2>3. CASE r \in ProgramCalls
    <3>1. r \in Calls /\ r.op # "select" /\ (r.op \in SendOps => r.v \in Values)
      BY <2>3, ProgramCallShape, CallShape
    <3>2. roots' \in [Values -> Nat]
      BY <1>1, <3>1 DEF Invoke, TypeOK, chan_root
    <3>3. QED
      BY <1>1, <3>1, <3>2 DEF Invoke, TypeOK, RingOK, Size, PC
  <2>4. QED
    BY <2>1, <2>2, <2>3
<1>2. CASE Return(t)
  BY <1>2 DEF Return, TypeOK, RingOK, Size, PC
<1>3. CASE Unroot(t)
  <2>1. roots' \in [Values -> Nat]
    BY <1>3, UnrootType DEF Unroot
  <2>2. pc' \in [Threads -> PC]
    BY <1>3, AfterCallType DEF Unroot, TypeOK
  <2>3. QED
    BY <1>3, <2>1, <2>2 DEF Unroot, TypeOK, RingOK, Size
<1>4. CASE SpuriousWake(t)
  BY <1>4 DEF SpuriousWake, TypeOK, RingOK, Size, PC
<1>5. CASE Reacquire(t)
  BY <1>5 DEF Reacquire, TypeOK, RingOK, Size, PC
<1>6. QED
  BY <1>1, <1>2, <1>3, <1>4, <1>5

\* The steps of select keep the types.
LEMMA SelectType ==
  ASSUME TypeOK, Control, NEW t \in Threads,
         \/ SelTryOne(t) \/ SelFirstPassEnds(t) \/ sel_enroll(t) \/ SelSecondPassEnds(t)
         \/ SelUnpark(t) \/ sel_unenroll(t)
  PROVE  TypeOK'
<1> USE DEF vars, ring, selVars
<1>1. CASE SelTryOne(t)
  <2> PICK k \in todo[t] : /\ call' = [call EXCEPT ![t] = k]
                           /\ IF k.op = "trySend" THEN chan_root(k.v) ELSE UNCHANGED roots
    BY <1>1 DEF SelTryOne
  <2>1. k \in Calls
    BY CaseShape DEF TypeOK
  <2>2. roots' \in [Values -> Nat]
    BY DEF TypeOK, chan_root
  <2>3. QED
    BY <1>1, <2>1, <2>2 DEF SelTryOne, TypeOK, RingOK, Size, PC
<1>2. req[t] \in Selects \/ ~ (pc[t] \in {"next", "enrol", "leave"})
  BY DEF Control, Placed, Idle, Calling, Selecting
<1>3. req[t] \in Selects => req[t].cases \subseteq Cases
  BY SelectShape
<1>4. CASE SelFirstPassEnds(t)
  <2>1. todo' \in [Threads -> SUBSET Cases]
    BY <1>2, <1>3, <1>4 DEF SelFirstPassEnds, TypeOK
  <2>2. pc' \in [Threads -> PC] /\ woken' \in [Threads -> BOOLEAN]
    BY <1>4 DEF SelFirstPassEnds, TypeOK, PC
  <2>3. ret' \in [Threads -> Values \union Answers \union {None}]
    BY <1>4 DEF SelFirstPassEnds, TypeOK, Answers
  <2>4. QED
    BY <1>4, <2>1, <2>2, <2>3 DEF SelFirstPassEnds, TypeOK, RingOK, Size
<1>5. CASE sel_enroll(t)
  <2>0. PICK k \in todo[t] : sel_enroll(t)!2!(k)
    BY <1>5 DEF sel_enroll
  <2>a. req[t].cases \subseteq Cases /\ todo[t] \subseteq Cases /\ k \in Cases /\ k.c \in Chans
    BY <1>2, <1>3, <1>5, CaseShape, CallShape DEF sel_enroll, TypeOK
  <2>1. todo' \in [Threads -> SUBSET Cases] /\ enrolled' \in [Threads -> BOOLEAN]
    <3>1. todo[t] \ {k} \in SUBSET Cases /\ {} \in SUBSET Cases
      BY <2>a
    <3>2. QED
      BY <2>0, <2>a, <3>1 DEF TypeOK
  <2>2. pc' \in [Threads -> PC]
    BY <1>5 DEF sel_enroll, TypeOK, PC
  <2>3. selq' \in [Chans -> SUBSET (Threads \X Cases)]
    BY <2>0, <2>a DEF TypeOK
  <2>4. QED
    BY <1>5, <2>1, <2>2, <2>3 DEF sel_enroll, TypeOK, RingOK, Size
<1>6. CASE SelSecondPassEnds(t)
  <2>1. todo' \in [Threads -> SUBSET Cases]
    BY <1>2, <1>3, <1>6 DEF SelSecondPassEnds, TypeOK
  <2>2. QED
    BY <1>6, <2>1 DEF SelSecondPassEnds, TypeOK, RingOK, Size, PC
<1>7. CASE SelUnpark(t)
  BY <1>7 DEF SelUnpark, TypeOK, RingOK, Size, PC
<1>8. CASE sel_unenroll(t)
  <2>0. PICK k \in todo[t] : sel_unenroll(t)!2!(k)
    BY <1>8 DEF sel_unenroll
  <2>a. req[t].cases \subseteq Cases /\ todo[t] \subseteq Cases /\ k \in Cases /\ k.c \in Chans
    BY <1>2, <1>3, <1>8, CaseShape, CallShape DEF sel_unenroll, TypeOK
  <2>1. todo' \in [Threads -> SUBSET Cases] /\ enrolled' \in [Threads -> BOOLEAN]
    <3>1. todo[t] \ {k} \in SUBSET Cases /\ {} \in SUBSET Cases
      BY <2>a
    <3>2. QED
      BY <2>0, <2>a, <3>1 DEF TypeOK
  <2>2. pc' \in [Threads -> PC]
    BY <1>8 DEF sel_unenroll, TypeOK, PC
  <2>3. selq' \in [Chans -> SUBSET (Threads \X Cases)]
    BY <2>0, <2>a DEF TypeOK
  <2>4. QED
    BY <1>8, <2>1, <2>2, <2>3 DEF sel_unenroll, TypeOK, RingOK, Size
<1>9. QED
  BY <1>1, <1>4, <1>5, <1>6, <1>7, <1>8

\* The steps of the collector and the dropping of a channel keep the types.
LEMMA OtherType ==
  ASSUME TypeOK, StwRequest \/ StwRelease \/ (\E c \in Chans : Drop(c)) \/ UNCHANGED vars
  PROVE  TypeOK'
<1> USE DEF vars, ring, selVars
<1>1. CASE StwRequest \/ StwRelease \/ UNCHANGED vars
  BY <1>1 DEF StwRequest, StwRelease, TypeOK, RingOK, Size
<1>2. ASSUME NEW c \in Chans, Drop(c) PROVE TypeOK'
  <2>1. \A v \in Values : Cardinality(Holding(c, v)) \in Nat
    BY HoldingType DEF TypeOK
  <2>2. roots' \in [Values -> Nat]
    BY <1>2, <2>1 DEF Drop, TypeOK, chan_unroots
  <2>3. len[c] \in Nat
    BY RingType, SizeType DEF TypeOK
  <2>4. (head[c] + len[c]) % Size(c) \in Nat /\ (head[c] + len[c]) % Size(c) < Size(c)
    BY <2>3, Place, SizeType DEF TypeOK
  <2>5. head' \in [Chans -> Nat] /\ \A d \in Chans : head'[d] < Size(d)
    BY <1>2, <2>4 DEF Drop, TypeOK, RingOK
  <2>6. len' \in [Chans -> Nat] /\ \A d \in Chans : len'[d] <= Size(d)
    BY <1>2, SizeType DEF Drop, TypeOK, RingOK
  <2>7. QED
    BY <1>2, <2>2, <2>5, <2>6 DEF Drop, TypeOK, RingOK, Size
<1>3. QED
  BY <1>1, <1>2

-----------------------------------------------------------------------------
(* A step of one thread and the others.                                    *)

\* A primitive takes nothing from another thread.
LEMMA PrimitiveKeeps ==
  ASSUME TypeOK, NEW t \in Threads, NEW u \in Threads \ {t},
         \/ SendRefused(t) \/ SendWaits(t) \/ SendPut(t) \/ AwaitWaits(t) \/ AwaitEnds(t)
         \/ RecvTake(t) \/ RecvWaits(t) \/ RecvNothing(t) \/ hao_chan_close(t)
  PROVE  Kept(u)
<1> USE DEF selVars
<1>1. CASE SendRefused(t)
  BY <1>1, GoKeeps, EffectKeeps DEF SendRefused, Kept
<1>2. CASE SendWaits(t)
  BY <1>2, GoKeeps DEF SendWaits, Kept
<1>3. CASE SendPut(t)
  <2>1. pc'[u] = pc[u] \/ (pc[u] = "asleep" /\ pc'[u] = "wake")
    BY <1>3, GoKeeps, SignalAsleep DEF SendPut
  <2>2. ret'[u] = ret[u] /\ todo'[u] = todo[u] /\ call'[u] = call[u]
    BY <1>3, EffectKeeps DEF SendPut, TypeOK
  <2>3. QED
    BY <1>3, <2>1, <2>2, WakeKeeps DEF SendPut, Kept
<1>4. CASE AwaitWaits(t)
  BY <1>4, GoKeeps DEF AwaitWaits, Kept
<1>5. CASE AwaitEnds(t)
  BY <1>5, GoKeeps, EffectKeeps DEF AwaitEnds, Kept
<1>6. CASE RecvTake(t)
  <2>1. pc'[u] = pc[u] \/ (pc[u] = "asleep" /\ pc'[u] = "wake")
    BY <1>6, GoKeeps, SignalAsleep DEF RecvTake
  <2>2. ret'[u] = ret[u] /\ todo'[u] = todo[u]
    BY <1>6, EffectKeeps DEF RecvTake
  <2>3. QED
    BY <1>6, <2>1, <2>2, WakeKeeps DEF RecvTake, Kept
<1>7. CASE RecvWaits(t)
  BY <1>7, GoKeeps DEF RecvWaits, Kept
<1>8. CASE RecvNothing(t)
  <2>1. pc'[u] = pc[u] \/ (pc[u] = "asleep" /\ pc'[u] = "wake")
    BY <1>8, GoKeeps DEF RecvNothing
  <2>2. ret'[u] = ret[u] /\ todo'[u] = todo[u]
    BY <1>8, EffectKeeps DEF RecvNothing
  <2>3. QED
    BY <1>8, <2>1, <2>2 DEF RecvNothing, Kept
<1>9. CASE hao_chan_close(t)
  <2>1. pc'[u] = pc[u] \/ (pc[u] = "asleep" /\ pc'[u] = "wake")
    <3>1. \A v \in SendSleepers(call[t].c) \union RecvSleepers(call[t].c) : pc[v] = "asleep"
      BY DEF SendSleepers, RecvSleepers, Asleep
    <3>2. PICK W : Go(t, "return", W) /\ \A v \in W : pc[v] = "asleep"
      BY <1>9, <3>1 DEF hao_chan_close
    <3>3. QED
      BY <3>2, GoKeeps
  <2>2. ret'[u] = ret[u] /\ todo'[u] = todo[u]
    BY <1>9, EffectKeeps DEF hao_chan_close
  <2>3. QED
    BY <1>9, <2>1, <2>2, WakeKeeps DEF hao_chan_close, Kept
<1>10. QED
  BY <1>1, <1>2, <1>3, <1>4, <1>5, <1>6, <1>7, <1>8, <1>9

\* No step of one thread takes anything from another.
LEMMA StepKeeps ==
  ASSUME TypeOK, NEW t \in Threads, NEW u \in Threads \ {t},
         Step(t) \/ SpuriousWake(t) \/ \E r \in Requests[t] : Invoke(t, r)
  PROVE  Kept(u)
<1> USE DEF selVars, TypeOK, Kept
<1>1. ASSUME NEW r \in Requests[t], Invoke(t, r) PROVE Kept(u)
  BY <1>1 DEF Invoke
<1>2. CASE Return(t) \/ Unroot(t) \/ Reacquire(t) \/ SpuriousWake(t)
  BY <1>2 DEF Return, Unroot, Reacquire, SpuriousWake
<1>3. CASE SelTryOne(t) \/ SelFirstPassEnds(t) \/ SelSecondPassEnds(t) \/ SelUnpark(t)
  BY <1>3 DEF SelTryOne, SelFirstPassEnds, SelSecondPassEnds, SelUnpark
<1>4. CASE sel_enroll(t)
  BY <1>4 DEF sel_enroll
<1>5. CASE sel_unenroll(t)
  BY <1>5 DEF sel_unenroll
<1>6. QED
  BY <1>1, <1>2, <1>3, <1>4, <1>5, PrimitiveKeeps DEF Step

-----------------------------------------------------------------------------
(* Control.                                                                *)

\* The request of a thread tells a call from a select.
LEMMA PlacedRequest ==
  ASSUME NEW t \in Threads, Placed(t)
  PROVE  /\ Idle(t) => req[t] = None
         /\ Calling(t) => /\ req[t] \in ProgramCalls /\ req[t] \in Calls /\ ~InSelect(t)
                          /\ req[t] # None /\ call[t].c = req[t].c /\ req[t] \notin Selects
                          /\ call[t] = req[t] \/ call[t].op = "await"
         /\ Selecting(t) => req[t] \in Selects /\ InSelect(t) /\ req[t] # None /\ req[t] \notin Calls
<1>1. Calling(t) => /\ req[t] \in ProgramCalls /\ req[t] \in Calls /\ ~InSelect(t)
                    /\ req[t] # None /\ req[t] \notin Selects
  BY ProgramCallShape, CallShape DEF Calling, InSelect
<1>2. Calling(t) => call[t].c = req[t].c /\ (call[t] = req[t] \/ call[t].op = "await")
  BY <1>1 DEF Calling, Calls
<1>3. Selecting(t) => req[t] \in Selects /\ InSelect(t) /\ req[t] # None /\ req[t] \notin Calls
  BY SelectShape DEF Selecting, InSelect
<1>4. QED
  BY <1>1, <1>2, <1>3 DEF Idle

\* A thread whose state is kept stays where control says it is.
LEMMA KeptPlaced ==
  ASSUME NEW u \in Threads, Placed(u), Kept(u)
  PROVE  Placed(u)'
BY DEF Placed, Idle, Calling, Selecting, Kept

\* The steps of send leave their thread at a place of the control flow.
LEMMA SendPlaced ==
  ASSUME TypeOK, NEW t \in Threads, Placed(t),
         SendRefused(t) \/ SendWaits(t) \/ SendPut(t) \/ AwaitWaits(t) \/ AwaitEnds(t)
  PROVE  Placed(t)'
<1> USE DEF selVars
<1>a. Calling(t) \/ Selecting(t)
  BY DEF Placed, Idle, SendRefused, SendWaits, SendPut, AwaitWaits, AwaitEnds, Owns
<1>b. "ok" # None /\ "fail" # None
  BY NoneAssumption DEF Answers
<1>1. CASE SendRefused(t)
  <2>1. req'[t] = req[t] /\ call'[t] = call[t] /\ pc'[t] = "unroot" /\ call[t].op \in SendOps
    BY <1>1, GoKeeps DEF SendRefused
  <2>2. CASE Calling(t)
    <3>1. ret'[t] = "fail"
      BY <1>1, <2>2, PlacedRequest DEF SendRefused, NoEffect, Decide, Placed, TypeOK
    <3>2. QED
      BY <2>1, <2>2, <3>1, PlacedRequest DEF Placed, Calling, SendOps
  <2>3. CASE Selecting(t)
    <3>1. ret'[t] = ret[t] /\ todo'[t] = todo[t] \ {call[t]}
      BY <1>1, <2>3, PlacedRequest DEF SendRefused, NoEffect, Placed, TypeOK
    <3>2. pc[t] = "enter" /\ call[t].op = "trySend"
      BY <1>1, <2>3, SelectShape, CaseShape DEF SendRefused, Owns, Selecting, SendOps
    <3>3. QED
      BY <2>1, <2>3, <3>1, <3>2 DEF Placed, Selecting
  <2>4. QED
    BY <1>a, <2>2, <2>3
<1>2. CASE SendWaits(t) \/ AwaitWaits(t)
  <2>1. /\ req'[t] = req[t] /\ call'[t] = call[t] /\ ret'[t] = ret[t] /\ pc'[t] = "asleep"
        /\ call[t].op \in {"send", "await"} /\ pc[t] \in {"enter", "disarm"}
    BY <1>2, GoKeeps DEF SendWaits, AwaitWaits, Owns
  <2>2. Calling(t)
    BY <1>a, <2>1, SelectShape, CaseShape DEF Selecting
  <2>3. QED
    BY <2>1, <2>2 DEF Placed, Calling
<1>3. CASE SendPut(t)
  <2>1. req'[t] = req[t] /\ call[t].op \in SendOps /\ pc[t] \in {"enter", "disarm"}
    BY <1>3 DEF SendPut, Owns
  <2>2. CASE Cap[call[t].c] = 0 /\ call[t].op = "send"
    <3>1. /\ pc'[t] = "asleep" /\ call' = [call EXCEPT ![t].op = "await"]
          /\ ret'[t] = ret[t] /\ todo'[t] = todo[t]
      BY <1>3, <2>2, GoKeeps, SignalAsleep DEF SendPut
    <3>2. Calling(t) /\ call[t] = req[t] /\ ret[t] = None
      <4>1. ~Selecting(t)
        BY <2>1, <2>2, SelectShape, CaseShape DEF Selecting
      <4>2. QED
        BY <1>a, <2>1, <2>2, <4>1, PlacedRequest DEF Calling
    <3>3. call'[t] = [req[t] EXCEPT !.op = "await"] /\ call'[t].op = "await"
      BY <3>1, <3>2, PlacedRequest DEF TypeOK, Placed, Calls
    <3>4. QED
      BY <2>1, <2>2, <3>1, <3>2, <3>3 DEF Placed, Calling
  <2>3. CASE ~ (Cap[call[t].c] = 0 /\ call[t].op = "send")
    <3>1. pc'[t] = AfterCall(t) /\ call' = call /\ ret'[t] = "ok" /\ todo'[t] = todo[t]
      BY <1>3, <2>3, GoKeeps, SignalAsleep DEF SendPut, Decide, TypeOK
    <3>2. CASE Calling(t)
      BY <1>b, <2>1, <3>1, <3>2, PlacedRequest DEF Placed, Calling, AfterCall, SendOps
    <3>3. CASE Selecting(t)
      BY <2>1, <3>1, <3>3, PlacedRequest DEF Placed, Selecting, AfterCall
    <3>4. QED
      BY <1>a, <3>2, <3>3
  <2>4. QED
    BY <2>2, <2>3
<1>4. CASE AwaitEnds(t)
  <2>1. req'[t] = req[t] /\ call'[t] = call[t] /\ ret'[t] = "ok" /\ pc'[t] = "return"
    BY <1>4, GoKeeps DEF AwaitEnds, Decide, TypeOK
  <2>2. Calling(t)
    BY <1>a, <1>4, SelectShape, CaseShape DEF Selecting, AwaitEnds, Owns
  <2>3. QED
    BY <1>b, <2>1, <2>2 DEF Placed, Calling
<1>5. QED
  BY <1>1, <1>2, <1>3, <1>4

\* So do those of receive and close.
LEMMA RecvPlaced ==
  ASSUME TypeOK, RingFilled, NEW t \in Threads, Placed(t),
         RecvTake(t) \/ RecvWaits(t) \/ RecvNothing(t) \/ hao_chan_close(t)
  PROVE  Placed(t)'
<1> USE DEF selVars
<1>a. Calling(t) \/ Selecting(t)
  BY DEF Placed, Idle, RecvTake, RecvWaits, RecvNothing, hao_chan_close, Owns
<1>b. "ok" # None /\ "fail" # None /\ "zero" # None
  BY NoneAssumption DEF Answers
<1>1. CASE RecvTake(t)
  <2>1. /\ req'[t] = req[t] /\ call'[t] = call[t] /\ pc'[t] = "unroot" /\ call[t].op \in RecvOps
        /\ pc[t] \in {"enter", "disarm"} /\ todo'[t] = todo[t]
    BY <1>1, GoKeeps, SignalAsleep DEF RecvTake, Decide, Owns
  <2>2. call[t].c \in Chans
    BY <1>1, CallShape DEF RecvTake, Owns, TypeOK
  <2>3. ret'[t] \in Values
    BY <1>1, <2>2, Oldest DEF RecvTake, Decide, TypeOK
  <2>4. CASE Calling(t)
    BY <2>1, <2>3, <2>4, PlacedRequest DEF Placed, Calling, RecvOps
  <2>5. CASE Selecting(t)
    <3>1. pc[t] = "enter" /\ call[t].op = "selRecv"
      BY <2>1, <2>5, SelectShape, CaseShape DEF Selecting, RecvOps
    <3>2. QED
      BY <2>1, <2>3, <2>5, <3>1 DEF Placed, Selecting
  <2>6. QED
    BY <1>a, <2>4, <2>5
<1>2. CASE RecvWaits(t)
  <2>1. /\ req'[t] = req[t] /\ call'[t] = call[t] /\ ret'[t] = ret[t] /\ pc'[t] = "asleep"
        /\ call[t].op = "recv" /\ pc[t] \in {"enter", "disarm"}
    BY <1>2, GoKeeps DEF RecvWaits, Owns
  <2>2. Calling(t)
    BY <1>a, <2>1, SelectShape, CaseShape DEF Selecting
  <2>3. QED
    BY <2>1, <2>2 DEF Placed, Calling
<1>3. CASE RecvNothing(t)
  <2>1. /\ req'[t] = req[t] /\ call'[t] = call[t] /\ pc'[t] = AfterCall(t)
        /\ call[t].op \in RecvOps /\ pc[t] \in {"enter", "disarm"}
        /\ (\E a \in {"zero", "fail"} : Decide(t, a)) \/ (\E a \in {"zero", "fail"} : NoEffect(t, a))
    BY <1>3, GoKeeps DEF RecvNothing, Owns
  <2>2. CASE Calling(t)
    <3>1. ret'[t] \in {"zero", "fail"} /\ pc'[t] = "return"
      BY <2>1, <2>2, PlacedRequest DEF NoEffect, Decide, TypeOK, AfterCall, Placed
    <3>2. QED
      BY <1>b, <2>1, <2>2, <3>1 DEF Placed, Calling
  <2>3. CASE Selecting(t)
    <3>1. pc'[t] = "next" /\ todo'[t] \subseteq todo[t]
      BY <2>1, <2>3, PlacedRequest DEF NoEffect, Decide, TypeOK, AfterCall, Placed
    <3>2. QED
      BY <2>1, <2>3, <3>1 DEF Placed, Selecting
  <2>4. QED
    BY <1>a, <2>2, <2>3
<1>4. CASE hao_chan_close(t)
  <2>1. req'[t] = req[t] /\ call'[t] = call[t] /\ ret'[t] = "ok" /\ call[t].op = "close"
    BY <1>4 DEF hao_chan_close, Decide, TypeOK
  <2>2. pc'[t] = "return"
    BY <1>4 DEF hao_chan_close, Go
  <2>3. Calling(t)
    BY <1>a, <1>4, SelectShape, CaseShape DEF Selecting, hao_chan_close, Owns
  <2>4. QED
    BY <1>b, <2>1, <2>2, <2>3 DEF Placed, Calling
<1>5. QED
  BY <1>1, <1>2, <1>3, <1>4

\* So do those around a primitive.
LEMMA ThreadPlaced ==
  ASSUME TypeOK, NEW t \in Threads, Placed(t),
         \/ \E r \in Requests[t] : Invoke(t, r)
         \/ Return(t) \/ Unroot(t) \/ SpuriousWake(t) \/ Reacquire(t)
  PROVE  Placed(t)'
<1> USE DEF selVars
<1>1. ASSUME NEW r \in Requests[t], Invoke(t, r) PROVE Placed(t)'
  <2>1. r \in ProgramCalls \/ r \in Selects
    BY RequestsAssumption
  <2>2. Idle(t) /\ req'[t] = r /\ ret'[t] = None
    BY <1>1 DEF Placed, Idle, Calling, Selecting, Invoke, TypeOK
  <2>3. CASE r \in Selects
    <3>1. pc'[t] = "next" /\ todo'[t] = r.cases
      BY <1>1, <2>3, SelectShape DEF Invoke, TypeOK
    <3>2. QED
      BY <2>2, <2>3, <3>1 DEF Placed, Selecting
  <2>4. CASE r \in ProgramCalls
    <3>1. pc'[t] = "enter" /\ call'[t] = r
      BY <1>1, <2>4, ProgramCallShape, CallShape DEF Invoke, TypeOK
    <3>2. QED
      BY <2>2, <2>4, <3>1 DEF Placed, Calling
  <2>5. QED
    BY <2>1, <2>3, <2>4
<1>2. CASE Return(t)
  BY <1>2 DEF Return, TypeOK, Placed, Idle
<1>3. CASE Unroot(t)
  <2>1. /\ pc[t] = "unroot" /\ pc'[t] = AfterCall(t) /\ req'[t] = req[t] /\ call'[t] = call[t]
        /\ ret'[t] = ret[t] /\ todo'[t] = todo[t]
    BY <1>3 DEF Unroot, TypeOK
  <2>2. "fail" # None /\ None \notin Values
    BY NoneAssumption DEF Answers
  <2>3. CASE Calling(t)
    <3>1. pc'[t] = "return"
      BY <2>1, <2>3, PlacedRequest DEF Placed, AfterCall
    <3>2. QED
      BY <2>1, <2>2, <2>3, <3>1 DEF Placed, Calling
  <2>4. CASE Selecting(t)
    <3>1. pc'[t] = "next"
      BY <2>1, <2>4, PlacedRequest DEF Placed, AfterCall
    <3>2. QED
      BY <2>1, <2>4, <3>1 DEF Placed, Selecting
  <2>5. QED
    BY <2>1, <2>3, <2>4 DEF Placed, Idle
<1>4. CASE SpuriousWake(t)
  BY <1>4 DEF SpuriousWake, TypeOK, Placed, Idle, Calling, Selecting
<1>5. CASE Reacquire(t)
  BY <1>5 DEF Reacquire, TypeOK, Placed, Idle, Calling, Selecting
<1>6. QED
  BY <1>1, <1>2, <1>3, <1>4, <1>5

\* So do those of select.
LEMMA SelectPlaced ==
  ASSUME TypeOK, NEW t \in Threads, Placed(t),
         \/ SelTryOne(t) \/ SelFirstPassEnds(t) \/ sel_enroll(t) \/ SelSecondPassEnds(t)
         \/ SelUnpark(t) \/ sel_unenroll(t)
  PROVE  Placed(t)'
<1> USE DEF selVars
<1>a. Selecting(t)
  BY DEF Placed, Idle, Calling, SelTryOne, SelFirstPassEnds, sel_enroll, SelSecondPassEnds,
         SelUnpark, sel_unenroll
<1>b. "default" # None
  BY NoneAssumption DEF Answers
<1>1. CASE SelTryOne(t)
  BY <1>a, <1>1 DEF SelTryOne, TypeOK, Placed, Selecting
<1>2. CASE SelFirstPassEnds(t)
  BY <1>a, <1>b, <1>2 DEF SelFirstPassEnds, TypeOK, Placed, Selecting
<1>3. CASE sel_enroll(t)
  BY <1>a, <1>3 DEF sel_enroll, TypeOK, Placed, Selecting
<1>4. CASE SelSecondPassEnds(t)
  BY <1>a, <1>4 DEF SelSecondPassEnds, TypeOK, Placed, Selecting
<1>5. CASE SelUnpark(t)
  BY <1>a, <1>5 DEF SelUnpark, TypeOK, Placed, Selecting
<1>6. CASE sel_unenroll(t)
  BY <1>a, <1>6 DEF sel_unenroll, TypeOK, Placed, Selecting
<1>7. QED
  BY <1>1, <1>2, <1>3, <1>4, <1>5, <1>6

\* A step of a thread, whichever it is.
ThreadStep(t) == Step(t) \/ SpuriousWake(t) \/ \E r \in Requests[t] : Invoke(t, r)

\* The collector's steps and the finalizer's, and stuttering.
OtherStep == StwRequest \/ StwRelease \/ (\E c \in Chans : Drop(c)) \/ UNCHANGED vars

\* Every step is of one thread, or of none of them.
LEMMA Steps == [Next]_vars => (\E t \in Threads : ThreadStep(t)) \/ OtherStep
BY DEF Next, ThreadStep, OtherStep

\* The steps of no thread keep what threads and mutexes are at.
LEMMA OtherKeeps ==
  ASSUME OtherStep
  PROVE  UNCHANGED <<mtx, selq, woken, pc, req, call, ret, todo, enrolled>>
BY DEF OtherStep, StwRequest, StwRelease, Drop, vars, selVars

\* Every step keeps the types.
LEMMA TypeStep ==
  ASSUME TypeOK, Control, [Next]_vars
  PROVE  TypeOK'
<1>1. ASSUME NEW t \in Threads, ThreadStep(t) PROVE TypeOK'
  BY <1>1, SendType, RecvType, ThreadType, SelectType DEF ThreadStep, Step
<1>2. CASE OtherStep
  BY <1>2, OtherType DEF OtherStep
<1>3. QED
  BY <1>1, <1>2, Steps

\* Every step keeps every thread at a place of the control flow.
LEMMA ControlStep ==
  ASSUME TypeOK, RingFilled, Control, [Next]_vars
  PROVE  Control'
<1>1. ASSUME NEW t \in Threads, ThreadStep(t) PROVE Control'
  <2>1. Placed(t)'
    BY <1>1, SendPlaced, RecvPlaced, ThreadPlaced, SelectPlaced DEF ThreadStep, Step, Control
  <2>2. ASSUME NEW u \in Threads \ {t} PROVE Placed(u)'
    BY <1>1, StepKeeps, KeptPlaced DEF Control, ThreadStep
  <2>3. QED
    BY <2>1, <2>2 DEF Control
<1>2. CASE OtherStep
  BY <1>2, OtherKeeps DEF Control, Placed, Idle, Calling, Selecting
<1>3. QED
  BY <1>1, <1>2, Steps

-----------------------------------------------------------------------------
(* Requests, and channels that were dropped.                               *)

\* The request of a thread changes when a call is made and when it returns.
LEMMA RequestStep ==
  ASSUME TypeOK, NEW t \in Threads, ThreadStep(t)
  PROVE  \/ req'[t] = req[t]
         \/ req'[t] = None /\ freed' = freed
         \/ /\ req'[t] \in Requests[t] /\ Touches(req'[t]) \intersect freed = {} /\ freed' = freed
<1>1. ASSUME NEW r \in Requests[t], Invoke(t, r) 
      PROVE req'[t] = r /\ Touches(r) \intersect freed = {} /\ freed' = freed
  BY <1>1 DEF Invoke, TypeOK
<1>2. Return(t) => req'[t] = None /\ freed' = freed
  BY DEF Return, TypeOK
<1>3. Step(t) \/ SpuriousWake(t) => Return(t) \/ req'[t] = req[t]
  BY DEF Step, SpuriousWake, Unroot, SendRefused, SendWaits, SendPut, AwaitWaits, AwaitEnds, RecvTake,
         RecvWaits, RecvNothing, hao_chan_close, Reacquire, SelTryOne, SelFirstPassEnds, sel_enroll,
         SelSecondPassEnds, SelUnpark, sel_unenroll
<1>4. QED
  BY <1>1, <1>2, <1>3 DEF ThreadStep

\* No step of a thread drops a channel.
LEMMA FreedStep ==
  ASSUME NEW t \in Threads, ThreadStep(t)
  PROVE  freed' = freed
BY DEF ThreadStep, Invoke, Return, Step, SpuriousWake, Unroot, SendRefused, SendWaits, SendPut,
       AwaitWaits, AwaitEnds, RecvTake, RecvWaits, RecvNothing, hao_chan_close, Reacquire, SelTryOne,
       SelFirstPassEnds, sel_enroll, SelSecondPassEnds, SelUnpark, sel_unenroll

\* Threads call what they may call, and nothing that was dropped.
LEMMA RequestsStep ==
  ASSUME TypeOK, Asked, DroppedUnused, [Next]_vars
  PROVE  Asked' /\ DroppedUnused'
<1>1. ASSUME NEW t \in Threads, ThreadStep(t) PROVE Asked' /\ DroppedUnused'
  <2>1. ASSUME NEW u \in Threads
        PROVE  /\ req'[u] # None => req'[u] \in Requests[u]
               /\ req'[u] # None => Touches(req'[u]) \intersect freed = {}
    <3>1. CASE u = t
      BY <1>1, <3>1, RequestStep DEF Asked, DroppedUnused
    <3>2. CASE u # t
      BY <1>1, <3>2, StepKeeps DEF Asked, DroppedUnused, Kept, ThreadStep
    <3>3. QED
      BY <3>1, <3>2
  <2>2. QED
    BY <1>1, <2>1, FreedStep DEF Asked, DroppedUnused, Touches
<1>2. CASE OtherStep
  <2>1. req' = req
    BY <1>2, OtherKeeps
  <2>2. ASSUME NEW c \in Chans, Drop(c) PROVE DroppedUnused'
    BY <2>1, <2>2 DEF Drop, DroppedUnused, Touches
  <2>3. ASSUME freed' = freed PROVE DroppedUnused'
    BY <2>1, <2>3 DEF DroppedUnused, Touches
  <2>4. QED
    BY <1>2, <2>1, <2>2, <2>3 DEF OtherStep, StwRequest, StwRelease, vars, Asked
<1>3. QED
  BY <1>1, <1>2, Steps

-----------------------------------------------------------------------------
(* The ring.                                                               *)

\* Only a put and a take touch a ring.
LEMMA RingFrame ==
  ASSUME NEW t \in Threads, ThreadStep(t)
  PROVE  SendPut(t) \/ RecvTake(t) \/ UNCHANGED ring
BY DEF ThreadStep, Invoke, Return, Step, SpuriousWake, Unroot, SendRefused, SendWaits,
       AwaitWaits, AwaitEnds, RecvWaits, RecvNothing, hao_chan_close, Reacquire, SelTryOne,
       SelFirstPassEnds, sel_enroll, SelSecondPassEnds, SelUnpark, sel_unenroll

\* The contents of the channels after a put, after a take and otherwise.
LEMMA PutContents ==
  ASSUME TypeOK, NEW t \in Threads, SendPut(t), NEW c, c = call[t].c
  PROVE  /\ c \in Chans /\ call[t].v \in Values
         /\ Contents(c)' = Append(Contents(c), call[t].v)
         /\ \A d \in Chans \ {c} : Contents(d)' = Contents(d)
<1>1. c \in Chans /\ call[t].v \in Values
  BY CallShape DEF SendPut, Owns, TypeOK
<1>2. ~Full(c) /\ chan_push_buf(c, call[t].v) /\ RingOK
  BY DEF SendPut, TypeOK
<1>3. QED
  BY <1>1, <1>2, Push

\* A receive takes the oldest value.
LEMMA TakeContents ==
  ASSUME TypeOK, NEW t \in Threads, RecvTake(t), NEW c, c = call[t].c
  PROVE  /\ c \in Chans /\ Contents(c) # <<>> /\ ret'[t] = Head(Contents(c))
         /\ Contents(c)' = Tail(Contents(c))
         /\ \A d \in Chans \ {c} : Contents(d)' = Contents(d)
<1>1. c \in Chans
  BY CallShape DEF RecvTake, Owns, TypeOK
<1>2. ret'[t] = buf[c][head[c]] /\ ~Empty(c) /\ chan_pop_buf(c) /\ RingOK
  BY DEF RecvTake, Decide, TypeOK
<1>3. QED
  BY <1>1, <1>2, Pop

\* A ring left alone holds what it held.
LEMMA SameContents ==
  ASSUME UNCHANGED ring, NEW c \in Chans
  PROVE  Contents(c)' = Contents(c)
BY DEF Contents, Size, ring

\* A channel that is dropped is empty.
LEMMA DropContents ==
  ASSUME RingOK, NEW c \in Chans, Drop(c)
  PROVE  Contents(c)' = <<>> /\ \A d \in Chans \ {c} : Contents(d)' = Contents(d)
<1>1. len'[c] = 0
  BY DEF Drop, RingOK
<1>2. Contents(c)' = <<>>
  BY <1>1 DEF Contents
<1>3. ASSUME NEW d \in Chans \ {c} PROVE Contents(d)' = Contents(d)
  BY DEF Drop, Contents, Size, RingOK
<1>4. QED
  BY <1>2, <1>3

\* Every step keeps a value in each slot of the window.
LEMMA RingFilledStep ==
  ASSUME TypeOK, RingFilled, [Next]_vars
  PROVE  RingFilled'
<1>1. ASSUME NEW t \in Threads, ThreadStep(t) PROVE RingFilled'
  <2> DEFINE c == call[t].c
  <2>1. CASE SendPut(t)
    <3>1. /\ c \in Chans /\ call[t].v \in Values /\ Contents(c) \in Seq(Values)
          /\ \A d \in Chans : Contents(d)' = IF d = c THEN Append(Contents(c), call[t].v) ELSE Contents(d)
      BY <2>1, PutContents DEF RingFilled
    <3>2. Append(Contents(c), call[t].v) \in Seq(Values)
      BY <3>1, AppendProperties
    <3>3. QED
      BY <3>1, <3>2 DEF RingFilled
  <2>2. CASE RecvTake(t)
    <3>1. /\ c \in Chans /\ Contents(c) \in Seq(Values) /\ Contents(c) # <<>>
          /\ \A d \in Chans : Contents(d)' = IF d = c THEN Tail(Contents(c)) ELSE Contents(d)
      BY <2>2, TakeContents DEF RingFilled
    <3>2. Tail(Contents(c)) \in Seq(Values)
      BY <3>1, HeadTailProperties
    <3>3. QED
      BY <3>1, <3>2 DEF RingFilled
  <2>3. CASE UNCHANGED ring
    BY <2>3, SameContents DEF RingFilled
  <2>4. QED
    BY <1>1, <2>1, <2>2, <2>3, RingFrame
<1>2. CASE OtherStep
  <2>1. ASSUME NEW c \in Chans, Drop(c) PROVE RingFilled'
    <3>1. <<>> \in Seq(Values)
      OBVIOUS
    <3>2. QED
      BY <2>1, <3>1, DropContents DEF RingFilled, TypeOK
  <2>2. CASE UNCHANGED ring
    BY <2>2, SameContents DEF RingFilled
  <2>3. QED
    BY <1>2, <2>1, <2>2 DEF OtherStep, StwRequest, StwRelease, vars, ring
<1>3. QED
  BY <1>1, <1>2, Steps

-----------------------------------------------------------------------------
(* The nodes of a select.                                                  *)

\* Only enrolling and leaving touch the lists.
LEMMA NodesFrame ==
  ASSUME NEW t \in Threads, ThreadStep(t)
  PROVE  \/ sel_enroll(t) \/ sel_unenroll(t)
         \/ selq' = selq /\ enrolled' = enrolled
BY DEF ThreadStep, Invoke, Return, Step, SpuriousWake, Unroot, SendRefused, SendWaits,
       SendPut, AwaitWaits, AwaitEnds, RecvTake, RecvWaits, RecvNothing, hao_chan_close, Reacquire,
       SelTryOne, SelFirstPassEnds, SelSecondPassEnds, SelUnpark, selVars

\* A thread whose state is kept keeps its nodes.
LEMMA KeptNodes ==
  ASSUME NEW u \in Threads, Placed(u), Kept(u), EnrolmentOf(u), NodesOf(u)
  PROVE  EnrolmentOf(u)' /\ NodesOf(u)'
<1>1. pc'[u] = pc[u] \/ (Calling(u) /\ pc'[u] = "wake" /\ pc[u] = "asleep")
  BY DEF Kept, Placed, Idle, Selecting
<1>2. CASE pc'[u] = pc[u]
  BY <1>2 DEF Kept, EnrolmentOf, NodesOf, HasNode
<1>3. CASE Calling(u) /\ pc'[u] = "wake" /\ pc[u] = "asleep"
  <2>1. req[u] \notin Selects
    BY <1>3, PlacedRequest DEF Placed
  <2>2. QED
    BY <1>3, <2>1 DEF Kept, EnrolmentOf, NodesOf
<1>4. QED
  BY <1>1, <1>2, <1>3

\* A thread that is not in a select has no node, and is not enrolled.
LEMMA CallNodes ==
  ASSUME NEW t \in Threads, EnrolmentOf(t), NodesOf(t), req[t] \notin Selects, req'[t] \notin Selects,
         selq' = selq, enrolled' = enrolled, pc'[t] \notin {"parked", "leave"}
  PROVE  EnrolmentOf(t)' /\ NodesOf(t)'
BY DEF EnrolmentOf, NodesOf

\* A step of a select that keeps it enrolled, or not enrolled.
LEMMA SelectNodes ==
  ASSUME NEW t \in Threads, EnrolmentOf(t), NodesOf(t), req'[t] = req[t],
         selq' = selq, enrolled' = enrolled,
         pc[t] \in {"next", "enter", "unroot"}, pc'[t] \in {"next", "enter", "unroot"}
  PROVE  EnrolmentOf(t)' /\ NodesOf(t)'
BY DEF EnrolmentOf, NodesOf, HasNode

\* How far one step of a primitive takes its thread.
LEMMA PrimitiveMoves ==
  ASSUME TypeOK, NEW t \in Threads,
         \/ SendRefused(t) \/ SendWaits(t) \/ SendPut(t) \/ AwaitWaits(t) \/ AwaitEnds(t)
         \/ RecvTake(t) \/ RecvWaits(t) \/ RecvNothing(t) \/ hao_chan_close(t)
  PROVE  /\ req'[t] = req[t] /\ pc[t] \in {"enter", "disarm"}
         /\ pc'[t] \in {"unroot", "asleep", "return", "next"}
<1>1. req'[t] = req[t] /\ pc[t] \in {"enter", "disarm"}
  BY DEF SendRefused, SendWaits, SendPut, AwaitWaits, AwaitEnds, RecvTake, RecvWaits, RecvNothing,
         hao_chan_close, Owns
<1>2. \E to \in {"unroot", "asleep", "return", "next"} : \E W : Go(t, to, W)
  BY DEF SendRefused, SendWaits, SendPut, AwaitWaits, AwaitEnds, RecvTake, RecvWaits, RecvNothing,
         hao_chan_close, AfterCall
<1>3. QED
  BY <1>1, <1>2 DEF Go

\* A primitive leaves its own thread's nodes as they are.
LEMMA PrimitiveNodes ==
  ASSUME TypeOK, RingFilled, NEW t \in Threads, Placed(t), EnrolmentOf(t), NodesOf(t),
         \/ SendRefused(t) \/ SendWaits(t) \/ SendPut(t) \/ AwaitWaits(t) \/ AwaitEnds(t)
         \/ RecvTake(t) \/ RecvWaits(t) \/ RecvNothing(t) \/ hao_chan_close(t)
  PROVE  EnrolmentOf(t)' /\ NodesOf(t)'
<1>1. /\ req'[t] = req[t] /\ pc[t] \in {"enter", "disarm"}
      /\ pc'[t] \in {"unroot", "asleep", "return", "next"}
  BY PrimitiveMoves
<1>2. selq' = selq /\ enrolled' = enrolled
  BY DEF SendRefused, SendWaits, SendPut, AwaitWaits, AwaitEnds, RecvTake, RecvWaits, RecvNothing,
         hao_chan_close, selVars
<1>3. Placed(t)'
  BY SendPlaced, RecvPlaced
<1>4. CASE Calling(t)
  <2>1. req[t] \notin Selects
    BY <1>4, PlacedRequest DEF Placed
  <2>2. QED
    BY <1>1, <1>2, <2>1, CallNodes
<1>5. CASE Selecting(t)
  <2>1. pc[t] = "enter" /\ pc'[t] \in {"unroot", "next", "return"}
    <3>1. Selecting(t)'
      BY <1>1, <1>3, <1>5, PlacedRequest, SelectShape, ProgramCallShape DEF Placed, Idle, Calling, Selecting
    <3>2. QED
      BY <1>1, <1>5, <3>1 DEF Selecting
  <2>2. pc'[t] # "return"
    <3>1. InSelect(t) /\ call[t] \in Cases
      BY <1>5, <2>1, PlacedRequest, SelectShape DEF Placed, Selecting
    <3>2. call[t].op \in {"trySend", "selRecv"}
      BY <3>1, CaseShape
    <3>3. \E to \in {"unroot", "asleep", "next"} : \E W : Go(t, to, W)
      BY <3>1, <3>2 DEF SendRefused, SendWaits, SendPut, AwaitWaits, AwaitEnds, RecvTake, RecvWaits,
         RecvNothing, hao_chan_close, AfterCall
    <3>4. QED
      BY <3>3 DEF Go
  <2>3. QED
    BY <1>1, <1>2, <2>1, <2>2, SelectNodes
<1>6. QED
  BY <1>1, <1>4, <1>5 DEF Placed, Idle

\* So do the steps around a primitive.
LEMMA ThreadNodes ==
  ASSUME TypeOK, NEW t \in Threads, Placed(t), EnrolmentOf(t), NodesOf(t),
         \/ \E r \in Requests[t] : Invoke(t, r)
         \/ Return(t) \/ Unroot(t) \/ SpuriousWake(t) \/ Reacquire(t)
  PROVE  EnrolmentOf(t)' /\ NodesOf(t)'
<1> USE DEF selVars
<1>1. ASSUME NEW r \in Requests[t], Invoke(t, r) PROVE EnrolmentOf(t)' /\ NodesOf(t)'
  <2>1. pc[t] = "idle" /\ req[t] \notin Selects /\ ~enrolled[t]
    BY <1>1, NoneAssumption DEF Invoke, Placed, Idle, Calling, Selecting, EnrolmentOf
  <2>2. selq' = selq /\ enrolled' = enrolled /\ pc'[t] \in {"next", "enter"}
    BY <1>1 DEF Invoke, TypeOK
  <2>3. QED
    BY <2>1, <2>2 DEF EnrolmentOf, NodesOf, HasNode
<1>2. CASE Return(t)
  <2>1. ~enrolled[t] /\ pc[t] = "return"
    BY <1>2 DEF Return, EnrolmentOf
  <2>2. selq' = selq /\ enrolled' = enrolled /\ pc'[t] = "idle" /\ req'[t] = None
    BY <1>2 DEF Return, TypeOK
  <2>3. None \notin Selects
    BY NoneAssumption
  <2>4. QED
    BY <2>1, <2>2, <2>3 DEF EnrolmentOf, NodesOf, HasNode
<1>3. CASE Unroot(t)
  <2>1. /\ pc[t] = "unroot" /\ pc'[t] = AfterCall(t) /\ req'[t] = req[t]
        /\ selq' = selq /\ enrolled' = enrolled
    BY <1>3 DEF Unroot, TypeOK
  <2>2. CASE Calling(t)
    <3>1. pc'[t] = "return" /\ req[t] \notin Selects
      BY <2>1, <2>2, PlacedRequest DEF Placed, AfterCall
    <3>2. QED
      BY <2>1, <3>1, CallNodes
  <2>3. CASE Selecting(t)
    <3>1. pc'[t] = "next"
      BY <2>1, <2>3, PlacedRequest DEF Placed, AfterCall
    <3>2. QED
      BY <2>1, <3>1, SelectNodes
  <2>4. QED
    BY <2>1, <2>2, <2>3 DEF Placed, Idle
<1>4. CASE SpuriousWake(t) \/ Reacquire(t)
  <2>1. /\ pc[t] \in {"asleep", "wake"} /\ pc'[t] \in {"wake", "disarm"} /\ req'[t] = req[t]
        /\ selq' = selq /\ enrolled' = enrolled
    BY <1>4 DEF SpuriousWake, Reacquire, TypeOK
  <2>2. Calling(t)
    BY <2>1 DEF Placed, Idle, Selecting
  <2>3. req[t] \notin Selects
    BY <2>2, PlacedRequest DEF Placed
  <2>4. QED
    BY <2>1, <2>3, CallNodes
<1>5. QED
  BY <1>1, <1>2, <1>3, <1>4

\* Enrolling adds the nodes of its own select, unenrolling removes them all.
LEMMA SelectOwnNodes ==
  ASSUME TypeOK, NEW t \in Threads, Placed(t), EnrolmentOf(t), NodesOf(t),
         \/ SelTryOne(t) \/ SelFirstPassEnds(t) \/ sel_enroll(t) \/ SelSecondPassEnds(t)
         \/ SelUnpark(t) \/ sel_unenroll(t)
  PROVE  EnrolmentOf(t)' /\ NodesOf(t)'
<1> USE DEF selVars
<1>a. Selecting(t) /\ req[t] \in Selects /\ req' = req /\ req[t].cases \subseteq Cases
  <2>1. Selecting(t) /\ req' = req
    BY DEF Placed, Idle, Calling, SelTryOne, SelFirstPassEnds, sel_enroll, SelSecondPassEnds,
           SelUnpark, sel_unenroll
  <2>2. QED
    BY <2>1, SelectShape DEF Selecting
<1>1. CASE SelTryOne(t)
  <2>1. /\ pc[t] = "next" /\ pc'[t] = "enter" /\ selq' = selq /\ enrolled' = enrolled
    BY <1>1 DEF SelTryOne, TypeOK
  <2>2. QED
    BY <1>a, <2>1, SelectNodes
<1>2. CASE SelFirstPassEnds(t)
  <2>1. /\ pc[t] = "next" /\ ~enrolled[t] /\ selq' = selq /\ enrolled' = enrolled
        /\ pc'[t] = "return" \/ (pc'[t] = "enrol" /\ todo'[t] = req[t].cases)
    BY <1>2 DEF SelFirstPassEnds, TypeOK
  <2>2. QED
    BY <1>a, <2>1 DEF EnrolmentOf, NodesOf, HasNode
<1>3. CASE sel_enroll(t)
  <2>0. PICK k \in todo[t] : sel_enroll(t)!2!(k)
    BY <1>3 DEF sel_enroll
  <2>1. /\ k \in req[t].cases /\ k \in Cases /\ k.c \in Chans /\ ~enrolled[t] /\ pc[t] = "enrol"
    BY <1>a, <1>3, CaseShape, CallShape DEF Selecting, sel_enroll, EnrolmentOf
  <2>2. \A j \in Cases : \A c \in Chans :
          <<t, j>> \in selq'[c] <=> <<t, j>> \in selq[c] \/ (j = k /\ c = k.c)
    BY <2>0, <2>1 DEF TypeOK
  <2>3. CASE todo[t] = {k}
    <3>1. pc'[t] = "next" /\ enrolled'[t]
      BY <2>0, <2>3 DEF TypeOK
    <3>2. QED
      BY <1>a, <2>1, <2>2, <2>3, <3>1 DEF EnrolmentOf, NodesOf, HasNode
  <2>4. CASE todo[t] # {k}
    <3>1. pc'[t] = "enrol" /\ ~enrolled'[t] /\ todo'[t] = todo[t] \ {k}
      BY <2>0, <2>1, <2>4 DEF TypeOK
    <3>2. QED
      BY <1>a, <2>1, <2>2, <2>4, <3>1 DEF EnrolmentOf, NodesOf, HasNode
  <2>5. QED
    BY <2>3, <2>4
<1>4. CASE SelSecondPassEnds(t)
  <2>1. /\ pc[t] = "next" /\ enrolled[t] /\ selq' = selq /\ enrolled' = enrolled
        /\ pc'[t] \in {"parked", "leave"} /\ todo'[t] = req[t].cases
    BY <1>4 DEF SelSecondPassEnds, TypeOK
  <2>2. QED
    BY <1>a, <2>1 DEF EnrolmentOf, NodesOf, HasNode
<1>5. CASE SelUnpark(t)
  <2>1. /\ pc[t] = "parked" /\ selq' = selq /\ enrolled' = enrolled
        /\ pc'[t] = "leave" /\ todo'[t] = todo[t]
    BY <1>5 DEF SelUnpark, TypeOK
  <2>2. QED
    BY <1>a, <2>1 DEF EnrolmentOf, NodesOf, HasNode
<1>6. CASE sel_unenroll(t)
  <2>0. PICK k \in todo[t] : sel_unenroll(t)!2!(k)
    BY <1>6 DEF sel_unenroll
  <2>1. /\ k \in req[t].cases /\ k \in Cases /\ k.c \in Chans /\ pc[t] = "leave" /\ enrolled[t]
    BY <1>a, <1>6, CaseShape, CallShape DEF Selecting, sel_unenroll, EnrolmentOf
  <2>2. \A j \in Cases : \A c \in Chans :
          <<t, j>> \in selq'[c] <=> <<t, j>> \in selq[c] /\ ~ (j = k /\ c = k.c)
    BY <2>0, <2>1 DEF TypeOK
  <2>3. CASE todo[t] = {k}
    <3>1. pc'[t] \in {"next", "return"} /\ ~enrolled'[t]
      BY <2>0, <2>3 DEF TypeOK
    <3>2. QED
      BY <1>a, <2>1, <2>2, <2>3, <3>1 DEF EnrolmentOf, NodesOf, HasNode
  <2>4. CASE todo[t] # {k}
    <3>1. pc'[t] = "leave" /\ enrolled'[t] /\ todo'[t] = todo[t] \ {k}
      BY <2>0, <2>1, <2>4 DEF TypeOK
    <3>2. QED
      BY <1>a, <2>1, <2>2, <2>4, <3>1 DEF EnrolmentOf, NodesOf, HasNode
  <2>5. QED
    BY <2>3, <2>4
<1>7. QED
  BY <1>1, <1>2, <1>3, <1>4, <1>5, <1>6

\* Every step keeps the nodes on the lists those of selects under way.
LEMMA NodesStep ==
  ASSUME TypeOK, RingFilled, Control, Enrolment, Nodes, [Next]_vars
  PROVE  Enrolment' /\ Nodes'
<1>1. ASSUME NEW t \in Threads, ThreadStep(t) PROVE Enrolment' /\ Nodes'
  <2>1. EnrolmentOf(t)' /\ NodesOf(t)'
    BY <1>1, PrimitiveNodes, ThreadNodes, SelectOwnNodes
       DEF ThreadStep, Step, Control, Enrolment, Nodes
  <2>2. ASSUME NEW u \in Threads \ {t} PROVE EnrolmentOf(u)' /\ NodesOf(u)'
    BY <1>1, StepKeeps, KeptNodes DEF Control, ThreadStep, Enrolment, Nodes
  <2>3. QED
    BY <2>1, <2>2 DEF Enrolment, Nodes
<1>2. CASE OtherStep
  BY <1>2, OtherKeeps DEF Enrolment, Nodes, EnrolmentOf, NodesOf, HasNode
<1>3. QED
  BY <1>1, <1>2, Steps

\* A node belongs to a select that is still running.
LEMMA NodesAlive ==
  ASSUME TypeOK, Control, Enrolment, Nodes
  PROVE  NoDanglingWaiter
<1> SUFFICES ASSUME NEW c \in Chans, NEW n \in selq[c]
             PROVE  req[n[1]] # None /\ n[2] \in req[n[1]].cases /\ pc[n[1]] # "return"
  BY DEF NoDanglingWaiter
<1>1. PICK t \in Threads, k \in Cases : n = <<t, k>>
  BY DEF TypeOK
<1>2. n[1] = t /\ n[2] = k
  BY <1>1
<1>3. req[t] \in Selects /\ k \in req[t].cases /\ HasNode(t, k)
  BY <1>1 DEF Nodes, NodesOf
<1>4. req[t] # None
  BY <1>3, SelectShape
<1>5. pc[t] # "return"
  BY <1>3 DEF HasNode, Enrolment, EnrolmentOf
<1>6. QED
  BY <1>2, <1>3, <1>4, <1>5

-----------------------------------------------------------------------------
(* No select misses a case that became ready.                              *)

\* Only close closes.
LEMMA ClosedFrame ==
  ASSUME NEW t \in Threads, ThreadStep(t)
  PROVE  hao_chan_close(t) \/ closed' = closed
BY DEF ThreadStep, Invoke, Return, Step, SpuriousWake, Unroot, SendRefused, SendWaits,
       SendPut, AwaitWaits, AwaitEnds, RecvTake, RecvWaits, RecvNothing, Reacquire,
       SelTryOne, SelFirstPassEnds, sel_enroll, SelSecondPassEnds, SelUnpark, sel_unenroll

\* Whoever makes a case ready wakes the selects that are enrolled with it.
LEMMA ReadyWakes ==
  ASSUME TypeOK, NEW t \in Threads, ThreadStep(t), NEW k \in Cases, Ready(k)', ~Ready(k),
         NEW u \in Threads, <<u, k>> \in selq[k.c]
  PROVE  woken'[u]
<1> DEFINE c == call[t].c
<1>1. k.c \in Chans
  BY CaseShape, CallShape
<1>2. ASSUME chan_wake_select(k.c) PROVE woken'[u]
  BY <1>2 DEF chan_wake_select
<1>3. CASE SendPut(t)
  <2>1. \A d \in Chans \ {c} : len'[d] = len[d]
    BY <1>3 DEF SendPut, chan_push_buf, TypeOK, RingOK
  <2>2. closed' = closed
    BY <1>3 DEF SendPut
  <2>3. k.c = c
    BY <1>1, <2>1, <2>2 DEF Ready, Empty, Full, Size
  <2>4. QED
    BY <1>2, <1>3, <2>3 DEF SendPut
<1>4. CASE RecvTake(t)
  <2>1. \A d \in Chans \ {c} : len'[d] = len[d]
    BY <1>4 DEF RecvTake, chan_pop_buf, TypeOK, RingOK
  <2>2. closed' = closed
    BY <1>4 DEF RecvTake
  <2>3. k.c = c
    BY <1>1, <2>1, <2>2 DEF Ready, Empty, Full, Size
  <2>4. QED
    BY <1>2, <1>4, <2>3 DEF RecvTake
<1>5. CASE hao_chan_close(t)
  <2>1. len' = len /\ closed' = closed \union {c}
    BY <1>5 DEF hao_chan_close, ring
  <2>2. k.c = c /\ c \notin closed
    BY <2>1 DEF Ready, Empty, Full, Size
  <2>3. QED
    BY <1>2, <1>5, <2>2 DEF hao_chan_close
<1>6. CASE UNCHANGED ring /\ closed' = closed
  BY <1>6 DEF Ready, Empty, Full, Size, ring
<1>7. QED
  BY <1>3, <1>4, <1>5, <1>6, RingFrame, ClosedFrame

\* Whatever another thread does to a channel that a parked select watches wakes
\* the select.
LEMMA KeptWatching ==
  ASSUME TypeOK, NEW t \in Threads, ThreadStep(t), NEW u \in Threads, Placed(u), Kept(u),
         EnrolmentOf(u), NodesOf(u), WatchingOf(u)
  PROVE  WatchingOf(u)'
<1> SUFFICES ASSUME enrolled'[u], ~woken'[u], ret'[u] = None, pc'[u] # "leave",
                    NEW k \in req'[u].cases, Ready(k)'
             PROVE  k \in todo'[u] /\ pc'[u] # "parked"
  BY DEF WatchingOf
<1>1. enrolled[u] /\ ~woken[u] /\ ret[u] = None /\ req'[u] = req[u] /\ todo'[u] = todo[u]
  BY DEF Kept
<1>2. req[u] \in Selects /\ pc[u] # "asleep" /\ pc'[u] = pc[u]
  BY <1>1 DEF EnrolmentOf, Kept
<1>3. k \in Cases /\ k.c \in Chans
  BY <1>1, <1>2, SelectShape, CaseShape, CallShape
<1>4. <<u, k>> \in selq[k.c]
  BY <1>1, <1>2, <1>3 DEF NodesOf, HasNode
<1>5. Ready(k)
  BY <1>3, <1>4, ReadyWakes
<1>6. QED
  BY <1>1, <1>2, <1>5 DEF WatchingOf

\* A visit of a case that had no effect found it not ready.
LEMMA PrimitiveWatching ==
  ASSUME TypeOK, RingFilled, NEW t \in Threads, Placed(t), EnrolmentOf(t), NodesOf(t), WatchingOf(t),
         \/ SendRefused(t) \/ SendWaits(t) \/ SendPut(t) \/ AwaitWaits(t) \/ AwaitEnds(t)
         \/ RecvTake(t) \/ RecvWaits(t) \/ RecvNothing(t) \/ hao_chan_close(t)
  PROVE  WatchingOf(t)'
<1> SUFFICES ASSUME enrolled'[t], ~woken'[t], ret'[t] = None,
                    NEW k \in req'[t].cases, Ready(k)'
             PROVE  k \in todo'[t] /\ pc'[t] # "parked"
  BY DEF WatchingOf
<1>1. /\ req'[t] = req[t] /\ pc[t] \in {"enter", "disarm"}
      /\ pc'[t] \in {"unroot", "asleep", "return", "next"}
  BY PrimitiveMoves
<1>2. enrolled'[t] = enrolled[t] /\ enrolled[t]
  BY DEF SendRefused, SendWaits, SendPut, AwaitWaits, AwaitEnds, RecvTake, RecvWaits, RecvNothing,
         hao_chan_close, selVars
<1>3. req[t] \in Selects /\ Selecting(t) /\ pc[t] = "enter" /\ ret[t] = None
  BY <1>1, <1>2, PlacedRequest DEF Placed, Idle, EnrolmentOf, Selecting
<1>4. call[t] \in Cases /\ call[t] \in todo[t] /\ InSelect(t) /\ call[t].op \in {"trySend", "selRecv"}
  BY <1>3, SelectShape, CaseShape, PlacedRequest DEF Selecting, Placed
<1>5. "ok" # None /\ "zero" # None /\ None \notin Values
  BY NoneAssumption DEF Answers
<1>6. SendRefused(t) \/ (RecvNothing(t) /\ call[t].c \notin closed)
  <2>1. ~SendPut(t)
    BY <1>4, <1>5 DEF SendPut, Decide, TypeOK
  <2>2. ~RecvTake(t)
    <3>1. ASSUME RecvTake(t) PROVE ret'[t] \in Values
      <4>1. call[t].c \in Chans /\ ~Empty(call[t].c) /\ ret'[t] = buf[call[t].c][head[call[t].c]]
        BY <3>1, <1>4, CaseShape, CallShape DEF RecvTake, Decide, TypeOK
      <4>2. QED
        BY <4>1, Oldest DEF TypeOK
    <3>2. QED
      BY <3>1, <1>5
  <2>3. RecvNothing(t) => call[t].c \notin closed
    BY <1>4, <1>5 DEF RecvNothing, Decide, TypeOK
  <2>4. QED
    BY <1>4, <2>1, <2>2, <2>3 DEF SendWaits, AwaitWaits, AwaitEnds, RecvWaits, hao_chan_close
<1>7. todo'[t] = todo[t] \ {call[t]} /\ UNCHANGED <<buf, head, len, closed, woken>>
  BY <1>4, <1>6 DEF SendRefused, RecvNothing, NoEffect, TypeOK, ring
<1>8. Ready(k)
  BY <1>7 DEF Ready, Empty, Full, Size
<1>9. ~Ready(call[t])
  BY <1>4, <1>6 DEF SendRefused, RecvNothing, SendOps, RecvOps, Ready
<1>10. QED
  BY <1>1, <1>2, <1>3, <1>7, <1>8, <1>9 DEF WatchingOf

\* A select goes to sleep only after it found nothing at any of its channels.
LEMMA OwnWatching ==
  ASSUME TypeOK, NEW t \in Threads, Placed(t), EnrolmentOf(t), NodesOf(t), WatchingOf(t),
         \/ \E r \in Requests[t] : Invoke(t, r)
         \/ Return(t) \/ Unroot(t) \/ SpuriousWake(t) \/ Reacquire(t)
         \/ SelTryOne(t) \/ SelFirstPassEnds(t) \/ sel_enroll(t) \/ SelSecondPassEnds(t)
         \/ SelUnpark(t) \/ sel_unenroll(t)
  PROVE  WatchingOf(t)'
<1> USE DEF selVars
<1>1. ASSUME UNCHANGED ring, closed' = closed PROVE \A k : Ready(k)' = Ready(k)
  BY <1>1 DEF Ready, Empty, Full, Size, ring
<1>2. CASE \E r \in Requests[t] : Invoke(t, r)
  BY <1>2 DEF Invoke, EnrolmentOf, WatchingOf
<1>3. CASE Return(t)
  BY <1>3 DEF Return, EnrolmentOf, WatchingOf
<1>4. CASE SpuriousWake(t) \/ Reacquire(t)
  BY <1>4 DEF SpuriousWake, Reacquire, EnrolmentOf, WatchingOf
<1>5. CASE Unroot(t)
  <2>1. pc'[t] \in {"next", "return"} /\ pc[t] = "unroot"
    BY <1>5 DEF Unroot, AfterCall, TypeOK
  <2>2. QED
    BY <1>1, <1>5, <2>1 DEF Unroot, WatchingOf
<1>6. CASE SelTryOne(t)
  <2>1. pc[t] = "next" /\ pc'[t] = "enter"
    BY <1>6 DEF SelTryOne, TypeOK
  <2>2. QED
    BY <1>1, <1>6, <2>1 DEF SelTryOne, WatchingOf
<1>7. CASE SelFirstPassEnds(t)
  BY <1>7 DEF SelFirstPassEnds, WatchingOf
<1>8. CASE sel_enroll(t)
  <2>1. PICK k \in todo[t] : sel_enroll(t)!2!(k)
    BY <1>8 DEF sel_enroll
  <2>2. ~enrolled[t] /\ pc[t] = "enrol" /\ req' = req
    BY <1>8 DEF sel_enroll, EnrolmentOf
  <2>3. enrolled'[t] => todo'[t] = req[t].cases /\ pc'[t] = "next"
    BY <2>1, <2>2 DEF TypeOK
  <2>4. QED
    BY <2>2, <2>3 DEF WatchingOf
<1>9. CASE SelSecondPassEnds(t)
  <2>1. pc'[t] = IF ret[t] = None /\ ~woken[t] THEN "parked" ELSE "leave"
    BY <1>9 DEF SelSecondPassEnds, TypeOK
  <2>2. ret[t] = None => todo[t] = {}
    BY <1>9 DEF SelSecondPassEnds
  <2>3. QED
    BY <1>1, <1>9, <2>1, <2>2 DEF SelSecondPassEnds, WatchingOf
<1>10. CASE SelUnpark(t)
  BY <1>10 DEF SelUnpark, WatchingOf, TypeOK
<1>11. CASE sel_unenroll(t)
  <2>1. PICK k \in todo[t] : sel_unenroll(t)!2!(k)
    BY <1>11 DEF sel_unenroll
  <2>2. enrolled'[t] => pc'[t] = "leave"
    BY <1>11, <2>1 DEF TypeOK, sel_unenroll
  <2>3. QED
    BY <2>2 DEF WatchingOf
<1>12. QED
  BY <1>2, <1>3, <1>4, <1>5, <1>6, <1>7, <1>8, <1>9, <1>10, <1>11

\* Every step keeps parked selects informed.
LEMMA WatchingStep ==
  ASSUME TypeOK, RingFilled, Control, Enrolment, Nodes, Watching, [Next]_vars
  PROVE  Watching'
<1>1. ASSUME NEW t \in Threads, ThreadStep(t) PROVE Watching'
  <2>1. WatchingOf(t)'
    BY <1>1, PrimitiveWatching, OwnWatching
       DEF ThreadStep, Step, Control, Enrolment, Nodes, Watching
  <2>2. ASSUME NEW u \in Threads \ {t} PROVE WatchingOf(u)'
    BY <1>1, StepKeeps, KeptWatching DEF Control, ThreadStep, Enrolment, Nodes, Watching
  <2>3. QED
    BY <2>1, <2>2 DEF Watching
<1>2. ASSUME NEW c \in Chans, Drop(c) PROVE Watching'
  <2> SUFFICES ASSUME NEW u \in Threads, enrolled'[u], ~woken'[u], ret'[u] = None, pc'[u] # "leave",
                      NEW k \in req'[u].cases, Ready(k)'
               PROVE  k \in todo'[u] /\ pc'[u] # "parked"
    BY DEF Watching, WatchingOf
  <2>1. UNCHANGED <<woken, pc, req, ret, todo, enrolled>>
    BY <1>2 DEF Drop, selVars
  <2>2. req[u] \in Selects /\ k \in req[u].cases /\ req[u] # None
    BY <2>1, SelectShape DEF Enrolment, EnrolmentOf
  <2>3. k.c # c /\ k.c \in Chans
    BY <1>2, <2>2, SelectShape, CaseShape, CallShape DEF Drop
  <2>4. Ready(k)
    BY <1>2, <2>3 DEF Ready, Empty, Full, Size, Drop, TypeOK, RingOK
  <2>5. QED
    BY <2>1, <2>2, <2>4 DEF Watching, WatchingOf
<1>3. CASE StwRequest \/ StwRelease \/ UNCHANGED vars
  BY <1>3 DEF StwRequest, StwRelease, vars, ring, selVars, Watching, WatchingOf, Ready, Empty, Full, Size
<1>4. QED
  BY <1>1, <1>2, <1>3, Steps DEF OtherStep

-----------------------------------------------------------------------------
(* Wake-ups are not lost: sleepers and those on their way.                 *)

Primitive(t) ==
    \/ SendRefused(t) \/ SendWaits(t) \/ SendPut(t) \/ AwaitWaits(t) \/ AwaitEnds(t)
    \/ RecvTake(t) \/ RecvWaits(t) \/ RecvNothing(t) \/ hao_chan_close(t)

Sending == {"send", "await"}

\* Finitely many sleepers are being woken.
LEMMA AwakeFinite ==
  ASSUME NEW c, NEW ops
  PROVE  IsFiniteSet(Awake(c, ops)) /\ Cardinality(Awake(c, ops)) \in Nat
<1>1. Awake(c, ops) \in SUBSET Threads
  BY DEF Awake
<1>2. QED
  BY <1>1, FiniteAssumption, FS_Subset, FS_CardinalityType

\* The same after a step.
LEMMA AwakeFiniteNext ==
  ASSUME NEW c, NEW ops
  PROVE  IsFiniteSet(Awake(c, ops)') /\ Cardinality(Awake(c, ops)') \in Nat
<1>1. Awake(c, ops)' \in SUBSET Threads
  BY DEF Awake
<1>2. QED
  BY <1>1, FiniteAssumption, FS_Subset, FS_CardinalityType

\* A step of t puts no other thread to sleep, and none of those awake.
LEMMA OthersSleep ==
  ASSUME TypeOK, NEW t \in Threads, ThreadStep(t), NEW c, NEW ops, NEW u \in Threads \ {t}
  PROVE  /\ u \in Awake(c, ops) => u \in Awake(c, ops)'
         /\ u \in Asleep(c, ops)' => u \in Asleep(c, ops)
<1>1. Kept(u)
  BY StepKeeps DEF ThreadStep
<1>2. QED
  BY <1>1 DEF Kept, Awake, Asleep

\* Nor does it itself fall asleep unless it runs a primitive.
LEMMA QuietSleep ==
  ASSUME TypeOK, NEW t \in Threads, ThreadStep(t), ~Primitive(t), NEW c, NEW ops
  PROVE  /\ Awake(c, ops) \subseteq Awake(c, ops)'
         /\ Asleep(c, ops)' \subseteq Asleep(c, ops)
         /\ len' = len /\ closed' = closed
<1> USE DEF selVars
<1>0. /\ \A u \in Threads \ {t} : (u \in Awake(c, ops) => u \in Awake(c, ops)') /\ (u \in Asleep(c, ops)' => u \in Asleep(c, ops))
      /\ Awake(c, ops) \subseteq Threads /\ Asleep(c, ops)' \subseteq Threads
  BY OthersSleep DEF Awake, Asleep
<1>1. CASE \E r \in Requests[t] : Invoke(t, r)
  <2>1. pc[t] = "idle" /\ pc'[t] \in {"next", "enter"}
    BY <1>1 DEF Invoke, TypeOK
  <2>2. t \notin Awake(c, ops) /\ t \notin Asleep(c, ops)'
    BY <2>1 DEF Awake, Asleep
  <2>3. len' = len /\ closed' = closed
    BY <1>1 DEF Invoke, ring
  <2>4. QED
    BY <1>0, <2>2, <2>3
<1>2. CASE Return(t) \/ Unroot(t)
  <2>1. pc[t] \in {"return", "unroot"} /\ pc'[t] \in {"idle", "next", "return"}
    BY <1>2 DEF Return, Unroot, AfterCall, TypeOK
  <2>2. t \notin Awake(c, ops) /\ t \notin Asleep(c, ops)'
    BY <2>1 DEF Awake, Asleep
  <2>3. len' = len /\ closed' = closed
    BY <1>2 DEF Return, Unroot, ring
  <2>4. QED
    BY <1>0, <2>2, <2>3
<1>3. CASE SpuriousWake(t) \/ Reacquire(t)
  <2>1. /\ pc[t] \in {"asleep", "wake"} /\ pc'[t] \in {"wake", "disarm"} /\ call'[t] = call[t]
    BY <1>3 DEF SpuriousWake, Reacquire, TypeOK
  <2>2. (t \in Awake(c, ops) => t \in Awake(c, ops)') /\ t \notin Asleep(c, ops)'
    BY <2>1 DEF Awake, Asleep
  <2>3. len' = len /\ closed' = closed
    BY <1>3 DEF SpuriousWake, Reacquire, ring
  <2>4. QED
    BY <1>0, <2>2, <2>3
<1>4. CASE \/ SelTryOne(t) \/ SelFirstPassEnds(t) \/ sel_enroll(t) \/ SelSecondPassEnds(t)
           \/ SelUnpark(t) \/ sel_unenroll(t)
  <2>1. pc[t] \notin {"wake", "disarm"} /\ pc'[t] # "asleep"
    BY <1>4 DEF SelTryOne, SelFirstPassEnds, sel_enroll, SelSecondPassEnds, SelUnpark, sel_unenroll, TypeOK
  <2>2. t \notin Awake(c, ops) /\ t \notin Asleep(c, ops)'
    BY <2>1 DEF Awake, Asleep
  <2>3. len' = len /\ closed' = closed
    BY <1>4 DEF SelTryOne, SelFirstPassEnds, sel_enroll, SelSecondPassEnds, SelUnpark, sel_unenroll, ring
  <2>4. QED
    BY <1>0, <2>2, <2>3
<1>5. QED
  BY <1>1, <1>2, <1>3, <1>4 DEF ThreadStep, Step, Primitive

\* A primitive of another channel, or of another kind of call.
LEMMA ForeignSleep ==
  ASSUME TypeOK, NEW t \in Threads, ThreadStep(t), Primitive(t), NEW c, NEW ops,
         call[t].c # c \/ (call[t].op \notin ops /\ (call[t].op = "send" => "await" \notin ops))
  PROVE  /\ Awake(c, ops) \subseteq Awake(c, ops)'
         /\ Asleep(c, ops)' \subseteq Asleep(c, ops)
<1>1. call[t] \in Calls
  BY DEF Primitive, SendRefused, SendWaits, SendPut, AwaitWaits, AwaitEnds, RecvTake, RecvWaits,
         RecvNothing, hao_chan_close, Owns, TypeOK
<1>2. call'[t] = call[t] \/ (call[t].op = "send" /\ call'[t] = [call[t] EXCEPT !.op = "await"])
  BY <1>1 DEF Primitive, SendRefused, SendWaits, SendPut, AwaitWaits, AwaitEnds, RecvTake, RecvWaits,
         RecvNothing, hao_chan_close, TypeOK
<1>3. call'[t].c = call[t].c /\ (call'[t].op = call[t].op \/ (call[t].op = "send" /\ call'[t].op = "await"))
  BY <1>1, <1>2 DEF Calls
<1>4. t \notin Awake(c, ops) /\ t \notin Asleep(c, ops)'
  BY <1>3 DEF Awake, Asleep
<1>5. QED
  BY <1>4, OthersSleep DEF Awake, Asleep

\* A primitive works on one channel.
LEMMA ForeignRing ==
  ASSUME TypeOK, NEW t \in Threads, Primitive(t), NEW c \in Chans, call[t].c # c
  PROVE  len'[c] = len[c] /\ (c \in closed' <=> c \in closed)
<1>1. CASE SendPut(t) \/ RecvTake(t)
  BY <1>1 DEF SendPut, RecvTake, chan_push_buf, chan_pop_buf, TypeOK, RingOK
<1>2. CASE hao_chan_close(t)
  BY <1>2 DEF hao_chan_close, ring
<1>3. QED
  BY <1>1, <1>2 DEF Primitive, SendRefused, SendWaits, AwaitWaits, AwaitEnds, RecvWaits, RecvNothing, ring

\* More awake and fewer asleep keep the balance.
LEMMA Fewer ==
  ASSUME NEW c, NEW ops, Awake(c, ops) \subseteq Awake(c, ops)'
  PROVE  Cardinality(Awake(c, ops)) <= Cardinality(Awake(c, ops)')
BY AwakeFiniteNext, FS_Subset

\* A signal wakes one of the sleepers.
LEMMA OneWoken ==
  ASSUME TypeOK, NEW t \in Threads, NEW c, NEW ops, NEW W \in Signal(Asleep(c, ops)), NEW to,
         Go(t, to, W), to # "asleep" \/ call'[t].op \notin ops, pc[t] \notin {"asleep", "wake"}, t \notin Awake(c, ops),
         \A u \in Threads \ {t} : call'[u] = call[u]
  PROVE  \/ Asleep(c, ops)' = {}
         \/ Cardinality(Awake(c, ops)') >= Cardinality(Awake(c, ops)) + 1
<1>1. CASE Asleep(c, ops) = {}
  BY <1>1 DEF Signal, Go, Asleep
<1>2. CASE Asleep(c, ops) # {}
  <2>1. PICK w \in Asleep(c, ops) : W = {w}
    BY <1>2 DEF Signal
  <2>2. w \in Threads \ {t} /\ w \notin Awake(c, ops) /\ w \in Awake(c, ops)'
    BY <2>1 DEF Go, Asleep, Awake
  <2>3. Awake(c, ops) \union {w} \subseteq Awake(c, ops)'
    BY <2>1, <2>2 DEF Go, Awake
  <2>4. Cardinality(Awake(c, ops) \union {w}) = Cardinality(Awake(c, ops)) + 1
    BY <2>2, AwakeFinite, FS_AddElement
  <2>5. Cardinality(Awake(c, ops) \union {w}) <= Cardinality(Awake(c, ops)')
    BY <2>3, AwakeFiniteNext, FS_Subset
  <2>6. QED
    BY <2>4, <2>5, AwakeFinite, AwakeFiniteNext
<1>3. QED
  BY <1>1, <1>2

\* A thread that leaves takes one from those awake.
LEMMA OneLeaves ==
  ASSUME TypeOK, NEW t \in Threads, ThreadStep(t), NEW c, NEW ops
  PROVE  Cardinality(Awake(c, ops)') >= Cardinality(Awake(c, ops)) - 1
<1>1. Awake(c, ops) \ {t} \subseteq Awake(c, ops)'
  BY OthersSleep DEF Awake
<1>2. Cardinality(Awake(c, ops) \ {t}) >= Cardinality(Awake(c, ops)) - 1
  <2>1. Cardinality(Awake(c, ops) \ {t})
          \in {Cardinality(Awake(c, ops)) - 1, Cardinality(Awake(c, ops))}
    BY AwakeFinite, FS_RemoveElement
  <2> DEFINE n == Cardinality(Awake(c, ops))
             m == Cardinality(Awake(c, ops) \ {t})
  <2>2. n \in Nat /\ m \in {n - 1, n}
    BY <2>1, AwakeFinite
  <2> HIDE DEF n, m
  <2>3. m >= n - 1
    BY <2>2
  <2>4. QED
    BY <2>3 DEF n, m
<1>3. Cardinality(Awake(c, ops) \ {t}) <= Cardinality(Awake(c, ops)')
  BY <1>1, AwakeFiniteNext, FS_Subset
<1>4. Cardinality(Awake(c, ops) \ {t}) \in Nat
  BY AwakeFinite, FS_RemoveElement, FS_CardinalityType
<1>5. QED
  BY <1>2, <1>3, <1>4, AwakeFinite, AwakeFiniteNext

\* The thread that runs a primitive is awake, and it alone may fall asleep.
LEMMA PrimitiveAwake ==
  ASSUME TypeOK, NEW t \in Threads, Primitive(t)
  PROVE  /\ call[t] \in Calls /\ call[t].c \in Chans /\ pc[t] \in {"enter", "disarm"}
         /\ \A u \in Threads \ {t} : call'[u] = call[u]
<1>1. Owns(t)
  BY DEF Primitive, SendRefused, SendWaits, SendPut, AwaitWaits, AwaitEnds, RecvTake, RecvWaits,
         RecvNothing, hao_chan_close
<1>2. call[t] \in Calls /\ call[t].c \in Chans /\ pc[t] \in {"enter", "disarm"}
  BY <1>1, CallShape DEF Owns, TypeOK
<1>3. \A u \in Threads \ {t} : call'[u] = call[u]
  BY DEF Primitive, SendRefused, SendWaits, SendPut, AwaitWaits, AwaitEnds, RecvTake, RecvWaits,
         RecvNothing, hao_chan_close, TypeOK
<1>4. QED
  BY <1>2, <1>3

\* A thread that goes on is not asleep.
LEMMA GoesOn ==
  ASSUME TypeOK, NEW t \in Threads, ThreadStep(t), NEW c, NEW ops, pc'[t] # "asleep"
  PROVE  Asleep(c, ops)' \subseteq Asleep(c, ops)
BY OthersSleep DEF Asleep

\* The first close of a channel wakes all.
LEMMA CloseWakes ==
  ASSUME TypeOK, NEW t \in Threads, hao_chan_close(t), NEW c, c = call[t].c, c \notin closed
  PROVE  SendSleepers(c)' = {} /\ RecvSleepers(c)' = {}
<1>1. Go(t, "return", SendSleepers(c) \union RecvSleepers(c)) /\ call' = call
  BY DEF hao_chan_close
<1>2. QED
  BY <1>1 DEF Go, SendSleepers, RecvSleepers, Asleep

\* A step that leaves a receiver asleep on c has left a wake-up for each value
\* in it.
LEMMA ReceiversAt ==
  ASSUME TypeOK, ReceiversWoken, NEW t \in Threads, ThreadStep(t), NEW c \in Chans,
         RecvSleepers(c)' # {}
  PROVE  c \notin closed' /\ len'[c] <= Cardinality(Awake(c, {"recv"})')
<1> DEFINE a == Cardinality(Awake(c, {"recv"}))
           b == Cardinality(Awake(c, {"recv"})')
<1>1. a \in Nat /\ b \in Nat /\ len[c] \in Nat
  BY AwakeFinite, AwakeFiniteNext, RingType DEF TypeOK
<1>2. RecvSleepers(c) # {} => c \notin closed /\ len[c] <= a
  BY DEF ReceiversWoken
<1>3. Asleep(c, {"recv"})' # {}
  BY DEF RecvSleepers
<1>4. b >= a - 1
  BY OneLeaves
<1> HIDE DEF a, b
<1>5. CASE /\ Asleep(c, {"recv"})' \subseteq Asleep(c, {"recv"}) /\ a <= b
           /\ len'[c] = len[c] /\ (c \in closed' <=> c \in closed)
  <2>1. c \notin closed' /\ len'[c] <= b
    BY <1>1, <1>2, <1>3, <1>5 DEF RecvSleepers
  <2>2. QED
    BY <2>1 DEF b
<1>6. CASE ~Primitive(t)
  <2>1. a <= b
    BY <1>6, QuietSleep, Fewer DEF a, b
  <2>2. QED
    BY <1>5, <1>6, <2>1, QuietSleep
<1>7. CASE Primitive(t) /\ call[t].c # c
  <2>1. a <= b
    BY <1>7, ForeignSleep, Fewer DEF a, b
  <2>2. QED
    BY <1>5, <1>7, <2>1, ForeignSleep, ForeignRing
<1>8. CASE call[t].c = c /\ (SendRefused(t) \/ SendWaits(t) \/ AwaitWaits(t) \/ AwaitEnds(t))
  <2>1. Primitive(t) /\ call[t].op \notin {"recv"} /\ len' = len /\ closed' = closed
    BY <1>8 DEF Primitive, SendRefused, SendWaits, AwaitWaits, AwaitEnds, SendOps, ring
  <2>2. Awake(c, {"recv"}) \subseteq Awake(c, {"recv"})' /\ Asleep(c, {"recv"})' \subseteq Asleep(c, {"recv"})
    BY <2>1, ForeignSleep
  <2>3. a <= b
    BY <2>2, Fewer DEF a, b
  <2>4. QED
    BY <1>5, <2>1, <2>2, <2>3
<1>9. CASE call[t].c = c /\ SendPut(t)
  <2>1. Primitive(t) /\ call[t].op \in SendOps /\ closed' = closed /\ c \notin closed
    BY <1>9 DEF Primitive, SendPut
  <2>2. call[t].op # "recv" /\ call'[t].op # "recv"
    BY <1>9, <2>1, PrimitiveAwake DEF SendPut, SendOps, TypeOK, Calls
  <2>3. PICK W \in Signal(Asleep(c, {"recv"})) : \E to : Go(t, to, W)
    BY <1>9 DEF SendPut, RecvSleepers
  <2>4. b >= a + 1
    BY <1>3, <2>1, <2>2, <2>3, PrimitiveAwake, OneWoken DEF a, b, Awake
  <2>5. Asleep(c, {"recv"})' \subseteq Asleep(c, {"recv"})
    BY <2>1, <2>2, ForeignSleep
  <2>6. len'[c] = len[c] + 1
    BY <1>9 DEF SendPut, chan_push_buf, TypeOK, RingOK
  <2>7. c \notin closed' /\ len'[c] <= b
    BY <1>1, <1>2, <1>3, <2>1, <2>4, <2>5, <2>6 DEF RecvSleepers
  <2>8. QED
    BY <2>7 DEF b
<1>10. CASE call[t].c = c /\ RecvTake(t)
  <2>1. pc'[t] = "unroot" /\ closed' = closed
    BY <1>10 DEF RecvTake, Go
  <2>2. len'[c] = len[c] - 1
    BY <1>10 DEF RecvTake, chan_pop_buf, TypeOK, RingOK
  <2>3. Asleep(c, {"recv"})' \subseteq Asleep(c, {"recv"})
    BY <2>1, GoesOn
  <2>4. c \notin closed' /\ len'[c] <= b
    BY <1>1, <1>2, <1>3, <1>4, <2>1, <2>2, <2>3 DEF RecvSleepers
  <2>5. QED
    BY <2>4 DEF b
<1>11. CASE call[t].c = c /\ RecvWaits(t)
  <2>1. c \notin closed' /\ len'[c] = 0
    BY <1>11 DEF RecvWaits, Empty, ring
  <2>2. QED
    BY <1>1, <2>1 DEF b
<1>12. CASE call[t].c = c /\ RecvNothing(t)
  <2>1. closed' = closed /\ len'[c] = 0 /\ pc'[t] # "asleep"
    BY <1>12 DEF RecvNothing, Empty, ring, Go, AfterCall
  <2>2. c \notin closed
    BY <1>2, <1>3, <2>1, GoesOn DEF RecvSleepers
  <2>3. QED
    BY <1>1, <2>1, <2>2 DEF b
<1>13. CASE call[t].c = c /\ hao_chan_close(t)
  <2>1. c \in closed
    BY <1>3, <1>13, CloseWakes DEF RecvSleepers
  <2>2. pc'[t] # "asleep"
    BY <1>13 DEF hao_chan_close, Go
  <2>3. QED
    BY <1>2, <1>3, <2>1, <2>2, GoesOn DEF RecvSleepers
<1>14. QED
  BY <1>6, <1>7, <1>8, <1>9, <1>10, <1>11, <1>12, <1>13 DEF Primitive

\* A thread in a call has one.
LEMMA CallingCall ==
  ASSUME NEW t \in Threads, Calling(t)
  PROVE  call[t] \in Calls
<1>1. req[t] \in Calls
  BY ProgramCallShape DEF Calling
<1>2. req[t].op = "send" => [req[t] EXCEPT !.op = "await"] \in Calls
  BY <1>1 DEF Calls, SendOps, RecvOps
<1>3. QED
  BY <1>1, <1>2 DEF Calling

\* On an unbuffered channel only the one sender sends.
LEMMA OneSender ==
  ASSUME Control, Asked, LoneSenders, NEW t \in Threads, NEW u \in Threads, NEW c \in Chans,
         Cap[c] = 0, call[t] \in Calls, call[u] \in Calls, call[t].c = c, call[u].c = c,
         call[t].op \in Sending, call[u].op \in Sending,
         pc[t] \in {"enter", "disarm"}, pc[u] = "asleep"
  PROVE  t = u
<1>1. ASSUME NEW w \in Threads, call[w] \in Calls, call[w].op \in Sending, call[w].c = c,
             pc[w] \in {"enter", "disarm", "asleep"}
      PROVE  req[w] \in Requests[w] /\ req[w].op = "send" /\ req[w].c = c
  <2>1. Calling(w)
    <3>1. call[w] # None
      BY <1>1, CallShape
    <3>2. ~Idle(w)
      BY <3>1 DEF Idle
    <3>3. ~Selecting(w)
      BY <1>1, SelectShape, CaseShape DEF Selecting, Sending
    <3>4. QED
      BY <3>2, <3>3 DEF Control, Placed
  <2>2. req[w].op = "send" /\ req[w].c = c /\ req[w] # None
    BY <1>1, <2>1, PlacedRequest, ProgramCallShape DEF Calling, Placed, Sending, Calls
  <2>3. QED
    BY <2>2 DEF Asked
<1>2. QED
  BY <1>1 DEF LoneSenders

\* A step that leaves a sender asleep on c has left a wake-up for each free
\* place.
LEMMA SendersAt ==
  ASSUME TypeOK, Control, Asked, LoneSenders, SendersWoken, NEW t \in Threads, ThreadStep(t), NEW c \in Chans,
         SendSleepers(c)' # {}
  PROVE  c \notin closed' /\ Size(c) <= len'[c] + Cardinality(Awake(c, Sending)')
<1> DEFINE a == Cardinality(Awake(c, Sending))
           b == Cardinality(Awake(c, Sending)')
           z == Size(c)
<1>1. a \in Nat /\ b \in Nat /\ len[c] \in 0 .. z /\ z \in Nat \ {0}
  BY AwakeFinite, AwakeFiniteNext, RingType, SizeType DEF TypeOK
<1>2. SendSleepers(c) # {} => c \notin closed /\ z <= len[c] + a
  BY DEF SendersWoken, Sending
<1>3. Asleep(c, Sending)' # {}
  BY DEF SendSleepers, Sending
<1>4. b >= a - 1
  BY OneLeaves
<1> HIDE DEF a, b, z
<1>5. CASE /\ Asleep(c, Sending)' \subseteq Asleep(c, Sending) /\ a <= b
           /\ len'[c] = len[c] /\ (c \in closed' <=> c \in closed)
  <2>1. c \notin closed' /\ z <= len'[c] + b
    BY <1>1, <1>2, <1>3, <1>5 DEF SendSleepers, Sending
  <2>2. QED
    BY <2>1 DEF b, z
<1>6. CASE ~Primitive(t)
  <2>1. a <= b
    BY <1>6, QuietSleep, Fewer DEF a, b
  <2>2. QED
    BY <1>5, <1>6, <2>1, QuietSleep
<1>7. CASE Primitive(t) /\ call[t].c # c
  <2>1. a <= b
    BY <1>7, ForeignSleep, Fewer DEF a, b
  <2>2. QED
    BY <1>5, <1>7, <2>1, ForeignSleep, ForeignRing
<1>8. CASE call[t].c = c /\ SendRefused(t)
  <2>1. pc'[t] = "unroot" /\ len' = len /\ closed' = closed
    BY <1>8 DEF SendRefused, Go, ring
  <2>2. c \notin closed /\ Asleep(c, Sending)' \subseteq Asleep(c, Sending)
    BY <1>2, <1>3, <2>1, GoesOn DEF SendSleepers, Sending
  <2>3. call[t].op = "trySend" /\ Primitive(t)
    BY <1>8, <2>2 DEF SendRefused, Primitive
  <2>4. a <= b
    BY <2>3, ForeignSleep, Fewer DEF a, b, Sending
  <2>5. QED
    BY <1>5, <2>1, <2>2, <2>4
<1>9. CASE call[t].c = c /\ (SendWaits(t) \/ AwaitWaits(t))
  <2>1. c \notin closed' /\ len'[c] >= z
    BY <1>9 DEF SendWaits, AwaitWaits, Full, ring, z
  <2>2. z <= len'[c] + b
    BY <1>1, <1>9, <2>1 DEF SendWaits, AwaitWaits, ring
  <2>3. QED
    BY <2>1, <2>2 DEF b, z
<1>10. CASE call[t].c = c /\ SendPut(t)
  <2>1. Primitive(t) /\ call[t].op \in SendOps /\ closed' = closed /\ c \notin closed
    BY <1>10 DEF Primitive, SendPut
  <2>2. len'[c] = len[c] + 1
    BY <1>10 DEF SendPut, chan_push_buf, TypeOK, RingOK
  <2>3. CASE pc'[t] # "asleep"
    <3>1. z <= len'[c] + b
      BY <1>1, <1>2, <1>3, <1>4, <2>2, <2>3, GoesOn DEF SendSleepers, Sending
    <3>2. QED
      BY <2>1, <3>1 DEF b, z
  <2>4. CASE pc'[t] = "asleep"
    <3>1. Cap[c] = 0
      BY <1>10, <2>4 DEF SendPut, Go, AfterCall
    <3>2. z = 1
      BY <3>1 DEF Size, z
    <3>3. z <= len'[c] + b
      BY <1>1, <2>2, <3>2
    <3>4. QED
      BY <2>1, <3>3 DEF b, z
  <2>5. QED
    BY <2>3, <2>4
<1>11. CASE call[t].c = c /\ AwaitEnds(t)
  <2>1. pc'[t] = "return" /\ len' = len /\ closed' = closed /\ Primitive(t)
    BY <1>11 DEF AwaitEnds, Go, ring, Primitive
  <2>2. PICK u \in Asleep(c, Sending)' : TRUE
    BY <1>3
  <2>3. u \in Threads \ {t} /\ u \in Asleep(c, Sending)
    BY <2>1, <2>2, GoesOn DEF Asleep
  <2>4. c \notin closed
    BY <1>2, <2>3 DEF SendSleepers, Sending
  <2>5. Cap[c] = 0
    <3>1. call[t].op = "await"
      BY <1>11 DEF AwaitEnds
    <3>2. Calling(t)
      <4>1. ~Idle(t)
        BY <2>1, PrimitiveAwake DEF Idle
      <4>2. ~Selecting(t)
        BY <2>1, <3>1, PrimitiveAwake, SelectShape, CaseShape DEF Selecting
      <4>3. QED
        BY <4>1, <4>2 DEF Control, Placed
    <3>3. req[t].op # "await" /\ call[t].c = req[t].c
      BY <3>2, PlacedRequest, ProgramCallShape DEF Placed
    <3>4. QED
      BY <1>11, <3>1, <3>2, <3>3 DEF Calling
  <2>6. call[u] \in Calls
    <3>1. pc[u] = "asleep"
      BY <2>3 DEF Asleep
    <3>2. Calling(u)
      BY <2>3, <3>1 DEF Control, Placed, Idle, Selecting, Asleep
    <3>3. QED
      BY <2>3, <3>2, CallingCall
  <2>7. t = u
    BY <1>11, <2>1, <2>3, <2>5, <2>6, PrimitiveAwake, OneSender DEF Asleep, Sending, AwaitEnds
  <2>8. QED
    BY <2>3, <2>7
<1>12. CASE call[t].c = c /\ RecvTake(t)
  <2>1. Primitive(t) /\ call[t].op \in RecvOps /\ closed' = closed /\ pc'[t] = "unroot"
    BY <1>12 DEF Primitive, RecvTake, Go
  <2>2. call[t].op \notin Sending /\ call[t].op # "send"
    BY <2>1 DEF RecvOps, Sending
  <2>3. PICK W \in Signal(Asleep(c, Sending)) : Go(t, "unroot", W)
    BY <1>12 DEF RecvTake, SendSleepers, Sending
  <2>4. b >= a + 1
    BY <1>3, <2>1, <2>2, <2>3, PrimitiveAwake, OneWoken DEF a, b, Awake
  <2>5. Asleep(c, Sending)' \subseteq Asleep(c, Sending)
    BY <2>1, GoesOn
  <2>6. len'[c] = len[c] - 1
    BY <1>12 DEF RecvTake, chan_pop_buf, TypeOK, RingOK
  <2>7. c \notin closed' /\ z <= len'[c] + b
    BY <1>1, <1>2, <1>3, <2>1, <2>4, <2>5, <2>6 DEF SendSleepers, Sending
  <2>8. QED
    BY <2>7 DEF b, z
<1>13. CASE call[t].c = c /\ (RecvWaits(t) \/ RecvNothing(t))
  <2>1. Primitive(t) /\ call[t].op \in RecvOps /\ closed' = closed /\ len' = len
    BY <1>13 DEF Primitive, RecvWaits, RecvNothing, RecvOps, ring
  <2>2. call[t].op \notin Sending /\ call[t].op # "send"
    BY <2>1 DEF RecvOps, Sending
  <2>3. Awake(c, Sending) \subseteq Awake(c, Sending)' /\ Asleep(c, Sending)' \subseteq Asleep(c, Sending)
    BY <2>1, <2>2, ForeignSleep
  <2>4. a <= b
    BY <2>3, Fewer DEF a, b
  <2>5. QED
    BY <1>5, <2>1, <2>3, <2>4
<1>14. CASE call[t].c = c /\ hao_chan_close(t)
  <2>1. c \in closed
    BY <1>14, CloseWakes
  <2>2. pc'[t] # "asleep"
    BY <1>14 DEF hao_chan_close, Go
  <2>3. QED
    BY <1>2, <1>3, <2>1, <2>2, GoesOn DEF SendSleepers, Sending
<1>15. QED
  BY <1>6, <1>7, <1>8, <1>9, <1>10, <1>11, <1>12, <1>13, <1>14 DEF Primitive

\* A channel that is dropped has nobody asleep on it.
LEMMA DroppedAlone ==
  ASSUME TypeOK, Control, NEW c \in Chans, Drop(c), NEW ops
  PROVE  Asleep(c, ops)' = {}
<1>1. ASSUME NEW u \in Threads, pc[u] = "asleep" PROVE call[u].c # c
  <2>1. Calling(u)
    BY <1>1 DEF Control, Placed, Idle, Selecting
  <2>2. req[u] \in Calls /\ req[u] # None /\ call[u].c = req[u].c
    BY <2>1, PlacedRequest DEF Placed
  <2>3. QED
    BY <2>2, CallShape DEF Drop
<1>2. UNCHANGED <<pc, call>>
  BY DEF Drop
<1>3. QED
  BY <1>1, <1>2 DEF Asleep

\* Every step leaves as many receivers woken as there are values.
LEMMA ReceiversWokenStep ==
  ASSUME TypeOK, Control, ReceiversWoken, [Next]_vars
  PROVE  ReceiversWoken'
<1> SUFFICES ASSUME NEW c \in Chans, RecvSleepers(c)' # {}
             PROVE  c \notin closed' /\ len'[c] <= Cardinality(Awake(c, {"recv"})')
  BY DEF ReceiversWoken
<1>1. CASE \E t \in Threads : ThreadStep(t)
  BY <1>1, ReceiversAt
<1>2. CASE \E d \in Chans : Drop(d)
  <2>1. PICK d \in Chans : Drop(d)
    BY <1>2
  <2>2. d # c
    BY <2>1, DroppedAlone DEF RecvSleepers
  <2>3. UNCHANGED <<pc, call>> /\ len'[c] = len[c] /\ (c \in closed' <=> c \in closed)
    BY <2>1, <2>2 DEF Drop, TypeOK, RingOK
  <2>4. QED
    BY <2>3 DEF ReceiversWoken, RecvSleepers, Asleep, Awake
<1>3. CASE StwRequest \/ StwRelease \/ UNCHANGED vars
  BY <1>3 DEF StwRequest, StwRelease, vars, ring, ReceiversWoken, RecvSleepers, Asleep, Awake
<1>4. QED
  BY <1>1, <1>2, <1>3, Steps DEF OtherStep

\* Every step leaves as many senders woken as there are places, when the
\* senders of an unbuffered channel are alone.
LEMMA SendersWokenStep ==
  ASSUME TypeOK, Control, Asked, LoneSenders, SendersWoken, [Next]_vars
  PROVE  SendersWoken'
<1> SUFFICES ASSUME NEW c \in Chans, SendSleepers(c)' # {}
             PROVE  c \notin closed' /\ Size(c) <= len'[c] + Cardinality(Awake(c, Sending)')
  BY DEF SendersWoken, Size, Sending
<1>1. CASE \E t \in Threads : ThreadStep(t)
  BY <1>1, SendersAt
<1>2. CASE \E d \in Chans : Drop(d)
  <2>1. PICK d \in Chans : Drop(d)
    BY <1>2
  <2>2. d # c
    BY <2>1, DroppedAlone DEF SendSleepers
  <2>3. UNCHANGED <<pc, call>> /\ len'[c] = len[c] /\ (c \in closed' <=> c \in closed)
    BY <2>1, <2>2 DEF Drop, TypeOK, RingOK
  <2>4. QED
    BY <2>3 DEF SendersWoken, SendSleepers, Asleep, Awake, Sending
<1>3. CASE StwRequest \/ StwRelease \/ UNCHANGED vars
  BY <1>3 DEF StwRequest, StwRelease, vars, ring, SendersWoken, SendSleepers, Asleep, Awake, Sending
<1>4. QED
  BY <1>1, <1>2, <1>3, Steps DEF OtherStep

-----------------------------------------------------------------------------
(* The theorems.                                                           *)

\* The initial states satisfy the invariant.
LEMMA SafeInit == Init => SafeInv /\ SendersWoken
<1> SUFFICES ASSUME Init PROVE SafeInv /\ SendersWoken
  OBVIOUS
<1>1. TypeOK
  BY InitType
<1>2. Control /\ Asked /\ DroppedUnused
  BY DEF Init, Control, Placed, Idle, Asked, DroppedUnused
<1>3. RingFilled
  <2>1. ASSUME NEW c \in Chans PROVE Contents(c) = <<>>
    BY DEF Init, Contents
  <2>2. <<>> \in Seq(Values)
    OBVIOUS
  <2>3. QED
    BY <2>1, <2>2 DEF RingFilled
<1>4. Enrolment /\ Watching
  BY DEF Init, Enrolment, EnrolmentOf, Watching, WatchingOf
<1>5. Nodes
  BY NoneAssumption DEF Init, Nodes, NodesOf
<1>6. ReceiversWoken /\ SendersWoken
  BY DEF Init, ReceiversWoken, SendersWoken, RecvSleepers, SendSleepers, Asleep
<1>7. QED
  BY <1>1, <1>2, <1>3, <1>4, <1>5, <1>6 DEF SafeInv

\* Every step keeps the invariant.
LEMMA SafeStep == SafeInv /\ [Next]_vars => SafeInv'
BY TypeStep, ControlStep, RequestsStep, RingFilledStep, NodesStep, WatchingStep, ReceiversWokenStep
   DEF SafeInv

\* The invariant holds whatever the channels, threads and calls are.
THEOREM Invariant == Spec => []SafeInv
<1>1. Init => SafeInv
  BY SafeInit
<1>2. SafeInv /\ [Next]_vars => SafeInv'
  BY SafeStep
<1>3. QED
  BY <1>1, <1>2, PTL DEF Spec

\* Every variable keeps its type; in particular a ring holds no more than
\* its size, whatever sends, receives, closes and drops are interleaved.
THEOREM TypeCorrect == Spec => []TypeOK
<1>1. SafeInv => TypeOK
  BY DEF SafeInv
<1>2. QED
  BY <1>1, Invariant, PTL

\* No select leaves a node behind on a channel: sel_signal never writes to a
\* frame that is gone.
THEOREM NoDanglingWaiters == Spec => []NoDanglingWaiter
<1>1. SafeInv => NoDanglingWaiter
  BY NodesAlive DEF SafeInv
<1>2. QED
  BY <1>1, Invariant, PTL

\* When nothing is on its way nobody sleeps on what has happened.
LEMMA AllQuiet ==
  ASSUME SafeInv, SendersWoken
  PROVE  NoLostWakeup
<1> SUFFICES ASSUME \A t \in Threads : \/ pc[t] \in {"idle", "asleep"}
                                       \/ pc[t] = "parked" /\ ~woken[t],
                    NEW t \in Threads, Served(t)
             PROVE  FALSE
  BY DEF NoLostWakeup
<1> USE DEF SafeInv
<1>1. \A c, ops : Awake(c, ops) = {}
  BY DEF Awake
<1>2. Cardinality({}) = 0
  BY FS_EmptySet
<1>3. CASE pc[t] = "asleep"
  <2> DEFINE c == call[t].c
  <2>1. Calling(t)
    BY <1>3 DEF Control, Placed, Idle, Selecting
  <2>2. c \in Chans /\ len[c] \in Nat /\ Size(c) \in Nat /\ call[t].op \in {"send", "await", "recv"}
    BY <1>3, <2>1, CallingCall, CallShape, RingType, SizeType DEF Calling, TypeOK
  <2>3. CASE call[t].op = "recv"
    <3>1. t \in RecvSleepers(c)
      BY <1>3, <2>3 DEF RecvSleepers, Asleep
    <3>2. c \notin closed /\ len[c] <= 0
      BY <1>1, <1>2, <2>2, <3>1 DEF ReceiversWoken
    <3>3. QED
      BY <1>3, <2>2, <2>3, <3>2 DEF Served, Empty
  <2>4. CASE call[t].op \in {"send", "await"}
    <3>1. t \in SendSleepers(c)
      BY <1>3, <2>4 DEF SendSleepers, Asleep
    <3>2. c \notin closed /\ Size(c) <= len[c] + 0
      BY <1>1, <1>2, <2>2, <3>1 DEF SendersWoken
    <3>3. QED
      BY <1>3, <2>2, <2>4, <3>2 DEF Served, Full
  <2>5. QED
    BY <2>2, <2>3, <2>4
<1>4. CASE pc[t] = "parked"
  <2>1. enrolled[t] /\ ~woken[t]
    BY <1>4 DEF Enrolment, EnrolmentOf
  <2>2. ret[t] = None
    BY <1>4 DEF Control, Placed, Idle, Calling, Selecting
  <2>3. QED
    BY <1>4, <2>1, <2>2 DEF Served, Watching, WatchingOf
<1>5. QED
  BY <1>3, <1>4 DEF Served

\* No wake-up is lost when every unbuffered channel has one sender.
THEOREM NoWakeupLost ==
  ASSUME LoneSenders
  PROVE  Spec => []NoLostWakeup
<1>1. Init => SafeInv /\ SendersWoken
  BY SafeInit
<1>2. SafeInv /\ SendersWoken /\ [Next]_vars => (SafeInv /\ SendersWoken)'
  BY SafeStep, SendersWokenStep, LoneSenders DEF SafeInv
<1>3. SafeInv /\ SendersWoken => NoLostWakeup
  BY AllQuiet
<1>4. QED
  BY <1>1, <1>2, <1>3, PTL DEF Spec

\* Only a drop closes an unbuffered channel nobody closes.
UnbufferedOpen == \A c \in closed : Cap[c] = 0 => c \in freed

\* Unbuffered channels stay open.
LEMMA UnbufferedOpenStep ==
  ASSUME SafeInv, UnbufferedStayOpen, UnbufferedOpen, [Next]_vars
  PROVE  UnbufferedOpen'
<1> USE DEF SafeInv
<1>1. ASSUME NEW t \in Threads, ThreadStep(t) PROVE UnbufferedOpen'
  <2>1. CASE closed' = closed
    BY <1>1, <2>1, FreedStep DEF UnbufferedOpen
  <2>2. CASE hao_chan_close(t)
    <3>1. call[t].op = "close" /\ pc[t] \in {"enter", "disarm"} /\ closed' = closed \union {call[t].c}
      BY <2>2, PrimitiveAwake DEF hao_chan_close, Primitive
    <3>2. ~Selecting(t) /\ ~Idle(t)
      BY <3>1, SelectShape, CaseShape DEF Selecting, Idle
    <3>3. Calling(t)
      BY <3>2 DEF Control, Placed
    <3>4. call[t] = req[t] /\ req[t] # None
      BY <3>1, <3>3, PlacedRequest DEF Placed
    <3>5. Cap[call[t].c] # 0
      BY <3>1, <3>4 DEF Asked, UnbufferedStayOpen
    <3>6. QED
      BY <1>1, <3>1, <3>5, FreedStep DEF UnbufferedOpen
  <2>3. QED
    BY <1>1, <2>1, <2>2, ClosedFrame
<1>2. CASE OtherStep
  BY <1>2 DEF OtherStep, StwRequest, StwRelease, Drop, vars, UnbufferedOpen
<1>3. QED
  BY <1>1, <1>2, Steps

\* The step that lets a rendezvous sender go.
LEMMA AwaitAnswers ==
  ASSUME SafeInv, [Next]_vars, NEW t \in Threads, call[t] # None, call[t].op = "await",
         ret[t] = None, ret'[t] = "ok"
  PROVE  AwaitEnds(t)
<1> USE DEF SafeInv
<1>1. "ok" # None /\ "default" # "ok"
  BY NoneAssumption DEF Answers
<1>2. ret' # ret
  BY <1>1
<1>3. ~OtherStep
  BY <1>2, OtherKeeps
<1>4. PICK u \in Threads : ThreadStep(u)
  BY <1>3, Steps
<1>5. u = t
  BY <1>1, <1>4, StepKeeps DEF Kept, ThreadStep
<1>6. Step(t)
  BY <1>2, <1>4, <1>5 DEF ThreadStep, SpuriousWake, Invoke
<1>7. ~(Return(t) \/ SelFirstPassEnds(t))
  BY <1>1 DEF Return, SelFirstPassEnds, TypeOK
<1>8. QED
  BY <1>2, <1>6, <1>7 DEF Step, Unroot, SendRefused, SendWaits, SendPut, AwaitWaits, RecvTake, RecvWaits,
     RecvNothing, hao_chan_close, Reacquire, SelTryOne, sel_enroll, SelSecondPassEnds, SelUnpark,
     sel_unenroll, SendOps, RecvOps

\* A rendezvous send reports success only once its value was taken, when no
\* unbuffered channel is closed by a call.
THEOREM RendezvousIsTaken ==
  ASSUME UnbufferedStayOpen
  PROVE  Spec => RendezvousTaken
<1>1. Init => SafeInv /\ UnbufferedOpen
  BY SafeInit DEF Init, UnbufferedOpen
<1>2. SafeInv /\ UnbufferedOpen /\ [Next]_vars => (SafeInv /\ UnbufferedOpen)'
  BY SafeStep, UnbufferedOpenStep, UnbufferedStayOpen
<1>3. ASSUME SafeInv, UnbufferedOpen, [Next]_vars, NEW t \in Threads, call[t] # None,
             call[t].op = "await", ret[t] = None, ret'[t] = "ok"
      PROVE  ~\E i \in 1 .. len[call[t].c] : Contents(call[t].c)[i] = call[t].v
  <2> DEFINE c == call[t].c
  <2>1. AwaitEnds(t)
    BY <1>3, AwaitAnswers
  <2>2. Primitive(t) /\ call[t].c \in Chans /\ pc[t] \in {"enter", "disarm"}
    BY <1>3, <2>1, PrimitiveAwake DEF Primitive, SafeInv
  <2>3. Calling(t) /\ req[t] # None /\ c = req[t].c
    <3>1. ~Selecting(t) /\ ~Idle(t)
      BY <1>3, <2>2, SelectShape, CaseShape DEF Selecting, Idle
    <3>2. Calling(t)
      BY <1>3, <3>1 DEF SafeInv, Control, Placed
    <3>3. QED
      BY <3>2, PlacedRequest DEF Placed
  <2>4. Cap[c] = 0 /\ req[t] \in Calls
    BY <1>3, <2>3, ProgramCallShape DEF Calling
  <2>5. c \notin freed
    BY <1>3, <2>3, <2>4, CallShape DEF SafeInv, DroppedUnused
  <2>6. ~Full(c)
    BY <1>3, <2>1, <2>4, <2>5 DEF AwaitEnds, UnbufferedOpen
  <2>7. len[c] = 0
    BY <1>3, <2>2, <2>4, <2>6, RingType DEF SafeInv, TypeOK, Full, Size
  <2>8. QED
    BY <2>7
<1>4. SafeInv /\ UnbufferedOpen /\ [Next]_vars =>
        [\A t \in Threads :
          (call[t] # None /\ call[t].op = "await" /\ ret[t] = None /\ ret'[t] = "ok")
             => ~\E i \in 1 .. len[call[t].c] : Contents(call[t].c)[i] = call[t].v]_vars
  BY <1>3
<1>5. QED
  BY <1>1, <1>2, <1>4, PTL DEF Spec, RendezvousTaken

-----------------------------------------------------------------------------
(* Counting the places of the queues that hold a payload.                  *)

Spots(q, v) == {p \in Chans \X Nat : p[2] \in DOMAIN q[p[1]] /\ q[p[1]][p[2]] = v}

Queues == [Chans -> Seq(Values)]

\* A value put adds one place that holds it.
LEMMA SpotsPut ==
  ASSUME NEW q \in Queues, NEW r \in Queues, NEW c \in Chans, NEW w \in Values,
         r[c] = Append(q[c], w), \A d \in Chans \ {c} : r[d] = q[d],
         NEW v, IsFiniteSet(Spots(q, v))
  PROVE  /\ IsFiniteSet(Spots(r, v))
         /\ Cardinality(Spots(r, v)) = Cardinality(Spots(q, v)) + (IF v = w THEN 1 ELSE 0)
<1> DEFINE n == Len(q[c]) + 1
           new == <<c, n>>
<1>1. q[c] \in Seq(Values) /\ n \in Nat \ {0} /\ DOMAIN q[c] = 1 .. n - 1
  BY LenProperties DEF Queues
<1>2. /\ DOMAIN r[c] = 1 .. n /\ r[c][n] = w /\ \A i \in 1 .. n - 1 : r[c][i] = q[c][i]
  BY <1>1, AppendProperties, LenProperties
<1>3. new \notin Spots(q, v)
  BY <1>1 DEF Spots
<1> HIDE DEF n
<1>4. ASSUME NEW p \in Chans \X Nat
      PROVE  p \in Spots(r, v) <=> p \in Spots(q, v) \/ (p = new /\ v = w)
  <2>1. CASE p[1] # c
    BY <2>1 DEF Spots
  <2>2. CASE p[1] = c
    <3>1. p[2] \in 1 .. n <=> p[2] \in 1 .. n - 1 \/ p[2] = n
      BY <1>1
    <3>2. p = new <=> p[2] = n
      BY <2>2
    <3>3. QED
      BY <1>1, <1>2, <2>2, <3>1, <3>2 DEF Spots
  <2>3. QED
    BY <2>1, <2>2
<1>5. new \in Chans \X Nat
  BY <1>1
<1>6. Spots(r, v) \subseteq Chans \X Nat /\ Spots(q, v) \subseteq Chans \X Nat
  BY DEF Spots
<1> HIDE DEF new
<1>7. CASE v = w
  <2>1. Spots(r, v) = Spots(q, v) \union {new}
    BY <1>4, <1>5, <1>6, <1>7
  <2>2. QED
    BY <1>3, <1>7, <2>1, FS_AddElement
<1>8. CASE v # w
  <2>1. Spots(r, v) = Spots(q, v)
    BY <1>4, <1>6, <1>8
  <2>2. QED
    BY <1>8, <2>1, FS_CardinalityType
<1>9. QED
  BY <1>7, <1>8

\* A value taken removes one.
LEMMA SpotsTake ==
  ASSUME NEW q \in Queues, NEW r \in Queues, NEW c \in Chans,
         q[c] # <<>>, r[c] = Tail(q[c]), \A d \in Chans \ {c} : r[d] = q[d],
         NEW v, IsFiniteSet(Spots(q, v))
  PROVE  /\ IsFiniteSet(Spots(r, v))
         /\ Cardinality(Spots(q, v)) = Cardinality(Spots(r, v)) + (IF v = Head(q[c]) THEN 1 ELSE 0)
<1> DEFINE n == Len(q[c])
           first == <<c, 1>>
           S == Spots(q, v) \ {first}
           T == Spots(r, v)
           f == [p \in S |-> IF p[1] = c THEN <<c, p[2] - 1>> ELSE p]
<1>1. q[c] \in Seq(Values) /\ n \in Nat \ {0} /\ DOMAIN q[c] = 1 .. n
  BY EmptySeq, LenProperties DEF Queues
<1>2. DOMAIN r[c] = 1 .. n - 1 /\ \A i \in 1 .. n - 1 : r[c][i] = q[c][i + 1]
  BY <1>1, HeadTailProperties, LenProperties
<1>3. Head(q[c]) = q[c][1]
  BY <1>1
<1> HIDE DEF n
<1>4. first \in Spots(q, v) <=> v = Head(q[c])
  BY <1>1, <1>3 DEF Spots
<1>5. ASSUME NEW p \in S PROVE f[p] \in T /\ p \in Chans \X Nat /\ (p[1] = c => p[2] \in 2 .. n)
  <2>1. p \in Chans \X Nat /\ p[2] \in DOMAIN q[p[1]] /\ q[p[1]][p[2]] = v
    BY DEF Spots
  <2>2. CASE p[1] # c
    BY <2>1, <2>2 DEF Spots
  <2>3. CASE p[1] = c
    <3>1. p[2] # 1
      <4>1. p = <<p[1], p[2]>>
        BY <2>1
      <4>2. QED
        BY <2>3, <4>1
    <3>2. p[2] \in 2 .. n /\ p[2] - 1 \in 1 .. n - 1
      BY <1>1, <2>1, <2>3, <3>1
    <3>3. f[p] = <<c, p[2] - 1>> /\ r[c][p[2] - 1] = v
      BY <1>2, <2>1, <2>3, <3>2
    <3>4. <<c, p[2] - 1>> \in Chans \X Nat /\ p[2] - 1 \in DOMAIN r[c]
      <4>1. p[2] - 1 \in Nat
        BY <1>1, <3>2
      <4>2. QED
        BY <1>2, <3>2, <4>1
    <3>5. <<c, p[2] - 1>> \in Spots(r, v)
      BY <3>3, <3>4 DEF Spots
    <3>6. QED
      BY <2>1, <3>2, <3>3, <3>5, <2>3
  <2>4. QED
    BY <2>2, <2>3
<1>6. ASSUME NEW a \in S, NEW b \in S, f[a] = f[b] PROVE a = b
  <2>1. a = <<a[1], a[2]>> /\ b = <<b[1], b[2]>>
    BY DEF Spots
  <2>2. f[a][1] = a[1] /\ f[b][1] = b[1]
    OBVIOUS
  <2>3. a[1] = b[1]
    BY <1>6, <2>2
  <2>4. CASE a[1] = c
    <3>1. a[2] - 1 = b[2] - 1 /\ a[2] \in 2 .. n /\ b[2] \in 2 .. n
      BY <1>5, <1>6, <2>3, <2>4
    <3>2. QED
      BY <1>1, <2>1, <2>3, <3>1
  <2>5. CASE a[1] # c
    BY <1>6, <2>3, <2>5
  <2>6. QED
    BY <2>4, <2>5
<1>7. ASSUME NEW p \in T PROVE \E a \in S : f[a] = p
  <2>1. p \in Chans \X Nat /\ p[2] \in DOMAIN r[p[1]] /\ r[p[1]][p[2]] = v /\ p = <<p[1], p[2]>>
    BY DEF Spots
  <2>2. CASE p[1] # c
    <3>1. p \in S
      BY <2>1, <2>2 DEF Spots
    <3>2. QED
      BY <2>2, <3>1
  <2>3. CASE p[1] = c
    <3> DEFINE a == <<c, p[2] + 1>>
    <3>1. p[2] \in 1 .. n - 1
      BY <1>2, <2>1, <2>3
    <3>2. p[2] + 1 \in 1 .. n /\ p[2] + 1 # 1 /\ p[2] + 1 - 1 = p[2]
      BY <1>1, <3>1
    <3>3. q[c][p[2] + 1] = v
      BY <1>2, <2>1, <2>3, <3>1
    <3>4. a \in S
      BY <1>1, <3>2, <3>3 DEF Spots
    <3>5. f[a] = p
      BY <2>1, <2>3, <3>2, <3>4
    <3>6. QED
      BY <3>4, <3>5
  <2>4. QED
    BY <2>2, <2>3
<1>8. f \in Bijection(S, T)
  BY <1>5, <1>6, <1>7, Fun_IsBij
<1>9. /\ IsFiniteSet(S)
      /\ Cardinality(S) = IF first \in Spots(q, v) THEN Cardinality(Spots(q, v)) - 1 ELSE Cardinality(Spots(q, v))
  BY FS_RemoveElement
<1> HIDE DEF S, T, f, first
<1>10. IsFiniteSet(T) /\ Cardinality(T) = Cardinality(S)
  BY <1>8, <1>9, FS_Bijection DEF ExistsBijection
<1>11. Cardinality(Spots(q, v)) \in Nat /\ Cardinality(T) \in Nat
  BY <1>10, FS_CardinalityType
<1>12. Cardinality(Spots(q, v)) = Cardinality(T) + (IF v = Head(q[c]) THEN 1 ELSE 0)
  BY <1>4, <1>9, <1>10, <1>11
<1>13. QED
  BY <1>10, <1>12 DEF T

\* A channel dropped removes its own.
LEMMA SpotsDrop ==
  ASSUME NEW q \in Queues, NEW r \in Queues, NEW c \in Chans,
         r[c] = <<>>, \A d \in Chans \ {c} : r[d] = q[d],
         NEW v, IsFiniteSet(Spots(q, v))
  PROVE  /\ IsFiniteSet(Spots(r, v))
         /\ Cardinality(Spots(q, v)) =
              Cardinality(Spots(r, v)) + Cardinality({i \in DOMAIN q[c] : q[c][i] = v})
<1> DEFINE D == {p \in Spots(q, v) : p[1] = c}
           H == {i \in DOMAIN q[c] : q[c][i] = v}
           f == [p \in D |-> p[2]]
<1>1. H \subseteq Nat
  BY LenProperties DEF Queues
<1>2. Spots(r, v) = Spots(q, v) \ D
  BY DEF Spots
<1>3. IsFiniteSet(Spots(r, v)) /\ IsFiniteSet(D)
  BY <1>2, FS_Subset
<1>4. Spots(q, v) \intersect D = D
  OBVIOUS
<1>5. Cardinality(Spots(r, v)) = Cardinality(Spots(q, v)) - Cardinality(D)
  BY <1>2, <1>4, FS_Difference
<1>6. f \in Bijection(D, H)
  <2>1. ASSUME NEW p \in D PROVE f[p] \in H /\ p = <<c, p[2]>>
    BY DEF Spots
  <2>2. ASSUME NEW a \in D, NEW b \in D, f[a] = f[b] PROVE a = b
    BY <2>1, <2>2
  <2>3. ASSUME NEW i \in H PROVE \E p \in D : f[p] = i
    <3>1. <<c, i>> \in D
      BY <1>1 DEF Spots
    <3>2. QED
      BY <3>1
  <2>4. QED
    BY <2>1, <2>2, <2>3, Fun_IsBij
<1> HIDE DEF D, H, f
<1>7. Cardinality(H) = Cardinality(D)
  BY <1>3, <1>6, FS_Bijection DEF ExistsBijection
<1>8. Cardinality(Spots(r, v)) \in Nat /\ Cardinality(Spots(q, v)) \in Nat /\ Cardinality(D) \in Nat
  BY <1>3, FS_CardinalityType
<1>9. Cardinality(Spots(q, v)) = Cardinality(Spots(r, v)) + Cardinality(H)
  BY <1>5, <1>7, <1>8
<1>10. QED
  BY <1>3, <1>9 DEF H

\* What the channels hold.
Queue == [c \in Chans |-> Contents(c)]

\* The places counted are those of the queues.
LEMMA PlacesAre ==
  ASSUME TypeOK, NEW v
  PROVE  Places(v) = Spots(Queue, v) /\ \A c \in Chans : Holding(c, v) = {i \in DOMAIN Queue[c] : Queue[c][i] = v}
<1>1. ASSUME NEW c \in Chans
      PROVE  /\ DOMAIN Queue[c] \subseteq Nat
             /\ Holding(c, v) = {i \in DOMAIN Queue[c] : Queue[c][i] = v}
  BY RingType DEF TypeOK, Queue, Contents, Holding
<1>2. \A p : p \in Places(v) <=> \E c \in Chans : \E i \in Holding(c, v) : p = <<c, i>>
  BY DEF Places
<1>3. \A p : p \in Spots(Queue, v) <=> \E c \in Chans : \E i \in Holding(c, v) : p = <<c, i>>
  BY <1>1 DEF Spots
<1>4. QED
  BY <1>1, <1>2, <1>3

\* The same after a step.
LEMMA PlacesAreNext ==
  ASSUME TypeOK', NEW v
  PROVE  Places(v)' = Spots(Queue', v)
<1>1. \A c \in Chans : len'[c] \in Nat
  BY DEF TypeOK, RingOK
<1>2. ASSUME NEW c \in Chans
      PROVE  /\ DOMAIN Queue'[c] \subseteq Nat
             /\ Holding(c, v)' = {i \in DOMAIN Queue'[c] : Queue'[c][i] = v}
  BY <1>1 DEF Queue, Contents, Holding
<1>3. \A p : p \in Places(v)' <=> \E c \in Chans : \E i \in Holding(c, v)' : p = <<c, i>>
  BY DEF Places
<1>4. \A p : p \in Spots(Queue', v) <=> \E c \in Chans : \E i \in Holding(c, v)' : p = <<c, i>>
  BY <1>2 DEF Spots
<1>5. QED
  BY <1>3, <1>4

\* Finitely many calls have a value with them.
LEMMA FlightFinite ==
  ASSUME NEW v
  PROVE  /\ IsFiniteSet(InFlight(v)) /\ Cardinality(InFlight(v)) \in Nat
         /\ IsFiniteSet(InFlight(v)') /\ Cardinality(InFlight(v)') \in Nat
<1>1. InFlight(v) \in SUBSET Threads /\ InFlight(v)' \in SUBSET Threads
  BY DEF InFlight
<1>2. QED
  BY <1>1, FiniteAssumption, FS_Subset, FS_CardinalityType

\* A step of t changes the roots the calls hold by t's.
LEMMA Flight ==
  ASSUME TypeOK, NEW t \in Threads, ThreadStep(t), NEW v
  PROVE  Cardinality(InFlight(v)') + (IF t \in InFlight(v) THEN 1 ELSE 0)
           = Cardinality(InFlight(v)) + (IF t \in InFlight(v)' THEN 1 ELSE 0)
<1> DEFINE A == InFlight(v)
           B == InFlight(v)'
<1>1. ASSUME NEW u \in Threads \ {t} PROVE u \in A <=> u \in B
  <2>1. Kept(u)
    BY <1>1, StepKeeps DEF ThreadStep
  <2>2. QED
    BY <2>1 DEF Kept, InFlight
<1>2. A \subseteq Threads /\ B \subseteq Threads
  BY DEF InFlight
<1>3. A \ {t} = B \ {t}
  BY <1>1, <1>2
<1>4. IsFiniteSet(A) /\ IsFiniteSet(B) /\ Cardinality(A) \in Nat /\ Cardinality(B) \in Nat
  BY FlightFinite
<1> HIDE DEF A, B
<1>5. /\ Cardinality(A \ {t}) = IF t \in A THEN Cardinality(A) - 1 ELSE Cardinality(A)
      /\ Cardinality(B \ {t}) = IF t \in B THEN Cardinality(B) - 1 ELSE Cardinality(B)
  BY <1>4, FS_RemoveElement
<1>6. Cardinality(B) + (IF t \in A THEN 1 ELSE 0) = Cardinality(A) + (IF t \in B THEN 1 ELSE 0)
  BY <1>3, <1>4, <1>5
<1>7. QED
  BY <1>6 DEF A, B

\* A value is rooted once for each place that holds it and each call that has it.
Balanced(v) ==
    /\ IsFiniteSet(Places(v))
    /\ roots[v] = Queued(v) + Cardinality(InFlight(v))

\* A step that roots a value as it takes it up, or unroots it as it lays it
\* down, keeps the balance.
LEMMA Scales ==
  ASSUME SafeInv, SafeInv', NEW t \in Threads, ThreadStep(t), NEW v \in Values, Balanced(v),
         UNCHANGED ring,
         \/ roots' = roots /\ (t \in InFlight(v) <=> t \in InFlight(v)')
         \/ roots'[v] = roots[v] + 1 /\ t \notin InFlight(v) /\ t \in InFlight(v)'
         \/ roots'[v] = chan_unroots(v, 1) /\ t \in InFlight(v) /\ t \notin InFlight(v)'
         \/ roots'[v] = roots[v] /\ (t \in InFlight(v) <=> t \in InFlight(v)')
  PROVE  Balanced(v)'
<1> DEFINE q == Cardinality(Places(v))
           a == Cardinality(InFlight(v))
           b == Cardinality(InFlight(v)')
<1>1. Places(v)' = Places(v)
  <2>1. Queue' = Queue
    BY SameContents DEF Queue
  <2>2. QED
    BY <2>1, PlacesAre, PlacesAreNext DEF SafeInv
<1>2. q \in Nat /\ a \in Nat /\ b \in Nat /\ roots[v] = q + a
  BY FlightFinite, FS_CardinalityType DEF Balanced, Queued
<1>3. b + (IF t \in InFlight(v) THEN 1 ELSE 0) = a + (IF t \in InFlight(v)' THEN 1 ELSE 0)
  BY Flight DEF SafeInv
<1> HIDE DEF q, a, b
<1>4. roots'[v] = q + b
  BY <1>2, <1>3 DEF chan_unroots
<1>5. QED
  BY <1>1, <1>4 DEF Balanced, Queued, q, b

\* The queues are queues of values.
LEMMA QueueType ==
  ASSUME SafeInv
  PROVE  Queue \in Queues
BY DEF SafeInv, RingFilled, Queue, Queues

\* The same after a step.
LEMMA QueueTypeNext ==
  ASSUME SafeInv'
  PROVE  Queue' \in Queues
BY DEF SafeInv, RingFilled, Queue, Queues

\* The root a send took becomes the root of the queued payload.
LEMMA PutBalance ==
  ASSUME SafeInv, SafeInv', NEW t \in Threads, ThreadStep(t), SendPut(t), NEW v \in Values, Balanced(v)
  PROVE  Balanced(v)'
<1> DEFINE q == Cardinality(Places(v))
           r == Cardinality(Places(v)')
           a == Cardinality(InFlight(v))
           b == Cardinality(InFlight(v)')
           x == call[t].v
           c == call[t].c
<1>1. c \in Chans /\ x \in Values /\ Queue'[c] = Append(Queue[c], x) /\ \A d \in Chans \ {c} : Queue'[d] = Queue[d]
  BY PutContents DEF SafeInv, Queue
<1>2. IsFiniteSet(Places(v)') /\ r = q + (IF v = x THEN 1 ELSE 0)
  BY <1>1, QueueType, QueueTypeNext, SpotsPut, PlacesAre, PlacesAreNext DEF Balanced, SafeInv
<1>3. t \in InFlight(v) <=> v = x
  <2>1. pc[t] \in {"enter", "disarm"} /\ call[t].op \in SendOps
    BY PrimitiveAwake DEF Primitive, SendPut, SafeInv
  <2>2. QED
    BY <2>1 DEF InFlight
<1>4. t \notin InFlight(v)'
  <2>1. \/ pc'[t] \in {"next", "return"}
        \/ pc'[t] = "asleep" /\ call'[t].op = "await"
    BY DEF SendPut, Go, AfterCall, SafeInv, TypeOK, Owns, Calls
  <2>2. QED
    BY <2>1 DEF InFlight, SendOps
<1>5. b + (IF v = x THEN 1 ELSE 0) = a
  BY <1>3, <1>4, Flight, FlightFinite DEF SafeInv
<1>6. q \in Nat /\ a \in Nat /\ b \in Nat /\ r \in Nat /\ roots[v] = q + a /\ roots' = roots
  BY <1>2, FlightFinite, FS_CardinalityType DEF Balanced, Queued, SendPut
<1> HIDE DEF q, r, a, b, x
<1>7. roots'[v] = r + b
  BY <1>2, <1>5, <1>6
<1>8. QED
  BY <1>2, <1>7 DEF Balanced, Queued, r, b

\* The root of a payload that is taken becomes its receiver's.
LEMMA TakeBalance ==
  ASSUME SafeInv, SafeInv', NEW t \in Threads, ThreadStep(t), RecvTake(t), NEW v \in Values, Balanced(v)
  PROVE  Balanced(v)'
<1> DEFINE q == Cardinality(Places(v))
           r == Cardinality(Places(v)')
           a == Cardinality(InFlight(v))
           b == Cardinality(InFlight(v)')
           x == ret'[t]
           c == call[t].c
<1>1. /\ c \in Chans /\ Queue[c] # <<>> /\ x = Head(Queue[c]) /\ Queue'[c] = Tail(Queue[c])
      /\ \A d \in Chans \ {c} : Queue'[d] = Queue[d]
  BY TakeContents DEF SafeInv, Queue
<1>2. IsFiniteSet(Places(v)') /\ q = r + (IF v = x THEN 1 ELSE 0)
  BY <1>1, QueueType, QueueTypeNext, SpotsTake, PlacesAre, PlacesAreNext DEF Balanced, SafeInv
<1>3. call' = call /\ call[t].op \notin SendOps /\ pc'[t] = "unroot" /\ pc[t] # "unroot"
  <2>1. pc[t] \in {"enter", "disarm"} /\ call[t].op \in RecvOps
    BY PrimitiveAwake DEF Primitive, RecvTake, SafeInv
  <2>2. QED
    BY <2>1 DEF RecvTake, Go, RecvOps, SendOps
<1>4. t \notin InFlight(v) /\ (t \in InFlight(v)' <=> v = x)
  BY <1>3 DEF InFlight
<1>5. b = a + (IF v = x THEN 1 ELSE 0)
  BY <1>4, Flight, FlightFinite DEF SafeInv
<1>6. q \in Nat /\ a \in Nat /\ b \in Nat /\ r \in Nat /\ roots[v] = q + a /\ roots' = roots
  BY <1>2, FlightFinite, FS_CardinalityType DEF Balanced, Queued, RecvTake
<1> HIDE DEF q, r, a, b, x
<1>7. roots'[v] = r + b
  BY <1>2, <1>5, <1>6
<1>8. QED
  BY <1>2, <1>7 DEF Balanced, Queued, r, b

\* The roots of what was never received go with the channel.
LEMMA DropBalance ==
  ASSUME SafeInv, SafeInv', NEW c \in Chans, Drop(c), NEW v \in Values, Balanced(v)
  PROVE  Balanced(v)'
<1> DEFINE q == Cardinality(Places(v))
           r == Cardinality(Places(v)')
           a == Cardinality(InFlight(v))
           h == Cardinality(Holding(c, v))
<1>1. Queue'[c] = <<>> /\ \A d \in Chans \ {c} : Queue'[d] = Queue[d]
  BY DropContents DEF SafeInv, TypeOK, Queue
<1>2. /\ IsFiniteSet(Places(v)')
      /\ q = r + Cardinality({i \in DOMAIN Queue[c] : Queue[c][i] = v})
  BY <1>1, QueueType, QueueTypeNext, SpotsDrop, PlacesAre, PlacesAreNext DEF Balanced, SafeInv
<1>3. q = r + h
  BY <1>2, PlacesAre DEF SafeInv
<1>4. h \in Nat
  <2>1. Holding(c, v) \in SUBSET (1 .. len[c]) /\ len[c] \in Nat
    BY DEF Holding, SafeInv, TypeOK, RingOK
  <2>2. IsFiniteSet(1 .. len[c])
    BY <2>1, FS_Interval
  <2>3. QED
    BY <2>1, <2>2, FS_Subset, FS_CardinalityType
<1>5. q \in Nat /\ a \in Nat /\ r \in Nat /\ roots[v] = q + a /\ roots'[v] = chan_unroots(v, h)
  BY <1>2, FlightFinite, FS_CardinalityType DEF Balanced, Queued, Drop
<1>6. InFlight(v)' = InFlight(v)
  BY DEF Drop, InFlight
<1> HIDE DEF q, r, a, h
<1>7. roots'[v] = r + a
  BY <1>3, <1>4, <1>5 DEF chan_unroots
<1>8. QED
  BY <1>2, <1>6, <1>7 DEF Balanced, Queued, r, a

\* Every other step of a thread moves a root of its own or none.
LEMMA OtherBalance ==
  ASSUME SafeInv, SafeInv', NEW t \in Threads, ThreadStep(t), ~SendPut(t), ~RecvTake(t),
         NEW v \in Values, Balanced(v)
  PROVE  Balanced(v)'
<1>1. UNCHANGED ring
  BY RingFrame
<1>2. CASE \E k \in Requests[t] : Invoke(t, k)
  <2>1. PICK k \in Requests[t] : Invoke(t, k)
    BY <1>2
  <2>2. pc[t] = "idle" /\ t \notin InFlight(v)
    BY <2>1 DEF Invoke, InFlight
  <2>3. CASE k.op \in SendOps
    <3>1. call'[t] = k /\ pc'[t] = "enter" /\ chan_root(k.v)
      BY <2>1, <2>3 DEF Invoke, SendOps, SafeInv, TypeOK
    <3>2. t \in InFlight(v)' <=> v = k.v
      BY <2>3, <3>1 DEF InFlight
    <3>3. roots'[v] = IF v = k.v THEN roots[v] + 1 ELSE roots[v]
      BY <3>1 DEF chan_root, SafeInv, TypeOK
    <3>4. QED
      BY <1>1, <2>2, <3>2, <3>3, Scales
  <2>4. CASE k.op \notin SendOps
    <3>1. /\ roots' = roots
          /\ pc'[t] = "next" \/ (pc'[t] = "enter" /\ call'[t] = k)
      BY <2>1, <2>4 DEF Invoke, SafeInv, TypeOK
    <3>2. t \notin InFlight(v)'
      BY <2>4, <3>1 DEF InFlight
    <3>3. QED
      BY <1>1, <2>2, <3>1, <3>2, Scales
  <2>5. QED
    BY <2>3, <2>4
<1>3. CASE Unroot(t)
  <2> DEFINE x == IF call[t].op \in SendOps THEN call[t].v ELSE ret[t]
  <2>1. pc[t] = "unroot" /\ pc'[t] \in {"next", "return"} /\ chan_unroot(x)
    BY <1>3 DEF Unroot, AfterCall, SafeInv, TypeOK
  <2>2. (t \in InFlight(v) <=> v = x) /\ t \notin InFlight(v)'
    BY <2>1 DEF InFlight
  <2>3. roots'[v] = IF v = x THEN chan_unroots(v, 1) ELSE roots[v]
    BY <2>1 DEF chan_unroot, SafeInv, TypeOK
  <2> HIDE DEF x
  <2>4. QED
    BY <1>1, <2>2, <2>3, Scales
<1>4. CASE SelTryOne(t)
  <2>1. PICK k \in todo[t] : SelTryOne(t)!3!(k)
    BY <1>4 DEF SelTryOne
  <2>2. pc[t] = "next" /\ pc'[t] = "enter" /\ call'[t] = k /\ k \in Cases
    BY <1>4, <2>1 DEF SelTryOne, SafeInv, TypeOK
  <2>3. t \notin InFlight(v)
    BY <2>2 DEF InFlight
  <2>4. t \in InFlight(v)' <=> (k.op = "trySend" /\ v = k.v)
    BY <2>2, CaseShape DEF InFlight, SendOps
  <2>5. roots'[v] = IF k.op = "trySend" /\ v = k.v THEN roots[v] + 1 ELSE roots[v]
    BY <2>1 DEF chan_root, SafeInv, TypeOK
  <2>6. QED
    BY <1>1, <2>3, <2>4, <2>5, Scales
<1>5. CASE SendRefused(t) \/ SendWaits(t)
  <2>1. /\ pc[t] \in {"enter", "disarm"} /\ pc'[t] \in {"unroot", "asleep"} /\ call[t].op \in SendOps
        /\ call' = call /\ roots' = roots
    BY <1>5, PrimitiveAwake DEF Primitive, SendRefused, SendWaits, Go, SendOps, SafeInv
  <2>2. t \in InFlight(v) <=> t \in InFlight(v)'
    BY <2>1 DEF InFlight
  <2>3. QED
    BY <1>1, <2>1, <2>2, Scales
<1>6. CASE AwaitWaits(t) \/ AwaitEnds(t) \/ RecvWaits(t) \/ RecvNothing(t) \/ hao_chan_close(t)
  <2>1. /\ pc[t] \in {"enter", "disarm"} /\ pc'[t] # "unroot" /\ call[t].op \notin SendOps
        /\ call' = call /\ roots' = roots
    BY <1>6, PrimitiveAwake DEF Primitive, AwaitWaits, AwaitEnds, RecvWaits, RecvNothing, hao_chan_close,
       Go, AfterCall, SendOps, RecvOps, SafeInv
  <2>2. t \notin InFlight(v) /\ t \notin InFlight(v)'
    BY <2>1 DEF InFlight
  <2>3. QED
    BY <1>1, <2>1, <2>2, Scales
<1>7. CASE SpuriousWake(t) \/ Reacquire(t)
  <2>1. /\ pc[t] \in {"asleep", "wake"} /\ pc'[t] \in {"wake", "disarm"}
        /\ call' = call /\ roots' = roots
    BY <1>7 DEF SpuriousWake, Reacquire, SafeInv, TypeOK
  <2>2. t \in InFlight(v) <=> t \in InFlight(v)'
    BY <2>1 DEF InFlight
  <2>3. QED
    BY <1>1, <2>1, <2>2, Scales
<1>8. CASE \/ Return(t) \/ SelFirstPassEnds(t) \/ sel_enroll(t) \/ SelSecondPassEnds(t)
           \/ SelUnpark(t) \/ sel_unenroll(t)
  <2>1. /\ pc[t] \in {"return", "next", "enrol", "parked", "leave"}
        /\ pc'[t] \in {"idle", "return", "next", "enrol", "parked", "leave"}
        /\ roots' = roots
    BY <1>8 DEF Return, SelFirstPassEnds, sel_enroll, SelSecondPassEnds, SelUnpark, sel_unenroll, SafeInv, TypeOK
  <2>2. t \notin InFlight(v) /\ t \notin InFlight(v)'
    BY <2>1 DEF InFlight
  <2>3. QED
    BY <1>1, <2>1, <2>2, Scales
<1>9. QED
  BY <1>2, <1>3, <1>4, <1>5, <1>6, <1>7, <1>8 DEF ThreadStep, Step

Balance == \A v \in Values : Balanced(v)

\* Every queued payload is in the root table as often as it is queued, and a
\* call under way holds one root: none is collected early, none kept for ever.
THEOREM RootsBalance == Spec => []RootBalance
<1>1. Init => SafeInv /\ Balance
  <2> SUFFICES ASSUME Init, NEW v \in Values PROVE Balanced(v)
    BY SafeInit DEF Balance
  <2>1. Places(v) = {} /\ InFlight(v) = {} /\ roots[v] = 0
    BY DEF Init, Places, Holding, InFlight
  <2>2. QED
    BY <2>1, FS_EmptySet DEF Balanced, Queued
<1>2. SafeInv /\ Balance /\ [Next]_vars => (SafeInv /\ Balance)'
  <2> SUFFICES ASSUME SafeInv, Balance, [Next]_vars, NEW v \in Values PROVE Balanced(v)'
    BY SafeStep DEF Balance
  <2>1. SafeInv' /\ Balanced(v)
    BY SafeStep DEF Balance
  <2>2. CASE \E t \in Threads : ThreadStep(t)
    BY <2>1, <2>2, PutBalance, TakeBalance, OtherBalance
  <2>3. CASE \E c \in Chans : Drop(c)
    BY <2>1, <2>3, DropBalance
  <2>4. CASE StwRequest \/ StwRelease \/ UNCHANGED vars
    <3>1. UNCHANGED <<roots, pc, call, ret>> /\ UNCHANGED ring
      BY <2>4 DEF StwRequest, StwRelease, vars, ring
    <3>2. Queue' = Queue
      BY <3>1, SameContents DEF Queue
    <3>3. Places(v)' = Places(v)
      BY <2>1, <3>2, PlacesAre, PlacesAreNext DEF SafeInv
    <3>4. InFlight(v)' = InFlight(v)
      BY <3>1 DEF InFlight
    <3>5. QED
      BY <2>1, <3>1, <3>3, <3>4 DEF Balanced, Queued
  <2>5. QED
    BY <2>2, <2>3, <2>4, Steps DEF OtherStep
<1>3. Balance => RootBalance
  BY DEF Balance, Balanced, RootBalance
<1>4. QED
  BY <1>1, <1>2, <1>3, PTL DEF Spec

-----------------------------------------------------------------------------
(* The channels implement Mailbox.                                         *)

(* Senders whose value is in an unbuffered channel.                        *)
Offered == {t \in Threads : call[t] # None /\ call[t].op = "await" /\ ret[t] = None}

(* A select runs cases.                                                    *)
RunsCases == \A t \in Threads : req[t] \in Selects => call[t] \in Cases \union {None}

\* A select runs nothing but its cases.
LEMMA RunsCasesStep ==
  ASSUME SafeInv, RunsCases, [Next]_vars
  PROVE  RunsCases'
<1> USE DEF SafeInv, selVars
<1>1. ASSUME NEW t \in Threads, ThreadStep(t), req'[t] \in Selects PROVE call'[t] \in Cases \union {None}
  <2>1. CASE \E k \in Requests[t] : Invoke(t, k)
    <3>1. PICK k \in Requests[t] : Invoke(t, k)
      BY <2>1
    <3>2. k \in Selects /\ k.op = "select"
      BY <1>1, <3>1, SelectShape DEF Invoke, TypeOK
    <3>3. call' = call /\ Idle(t)
      BY <3>1, <3>2 DEF Invoke, Control, Placed, Calling, Selecting
    <3>4. QED
      BY <3>3 DEF Idle
  <2>2. CASE SelTryOne(t)
    BY <2>2 DEF SelTryOne, TypeOK
  <2>3. CASE SendPut(t)
    <3>1. req[t] \in Selects /\ call[t] \in Calls
      BY <1>1, <2>3, PrimitiveAwake DEF SendPut, Primitive
    <3>2. call[t] \in Cases
      BY <3>1, CallShape DEF RunsCases
    <3>3. QED
      BY <2>3, <3>2, CaseShape DEF SendPut
  <2>4. CASE Return(t)
    BY <2>4 DEF Return, TypeOK
  <2>5. CASE call' = call /\ req' = req
    BY <1>1, <2>5 DEF RunsCases
  <2>6. QED
    BY <1>1, <2>1, <2>2, <2>3, <2>4, <2>5 DEF ThreadStep, Step, SpuriousWake, Unroot, SendRefused, SendWaits,
       AwaitWaits, AwaitEnds, RecvTake, RecvWaits, RecvNothing, hao_chan_close, Reacquire,
       SelFirstPassEnds, sel_enroll, SelSecondPassEnds, SelUnpark, sel_unenroll
<1>2. ASSUME NEW t \in Threads, ThreadStep(t) PROVE RunsCases'
  BY <1>1, <1>2, StepKeeps DEF RunsCases, Kept, ThreadStep
<1>3. CASE OtherStep
  BY <1>3, OtherKeeps DEF OtherStep, StwRequest, StwRelease, Drop, vars, RunsCases
<1>4. QED
  BY <1>2, <1>3, Steps

\* A step changes only whether its own thread offers a rendezvous.
LEMMA OfferedStep ==
  ASSUME SafeInv, NEW t \in Threads, ThreadStep(t)
  PROVE  /\ t \in Offered' => Offered' = Offered \union {t}
         /\ t \notin Offered' => Offered' = Offered \ {t}
<1>1. ASSUME NEW u \in Threads \ {t} PROVE u \in Offered <=> u \in Offered'
  <2>1. Kept(u)
    BY <1>1, StepKeeps DEF ThreadStep, SafeInv
  <2>2. QED
    BY <2>1 DEF Kept, Offered
<1>2. Offered \subseteq Threads /\ Offered' \subseteq Threads
  BY DEF Offered
<1>3. QED
  BY <1>1, <1>2

\* The initial states are initial states of the promise.
LEMMA PromiseInit == Init => Promise!Init
<1> SUFFICES ASSUME Init PROVE Promise!Init
  OBVIOUS
<1>1. [c \in Chans |-> Contents(c)] = [c \in Chans |-> <<>>]
  BY DEF Init, Contents
<1>2. {t \in Threads : call[t] # None /\ call[t].op = "await" /\ ret[t] = None} = {}
  BY DEF Init
<1>3. QED
  BY <1>1, <1>2 DEF Init, Promise!Init

\* What stays when the promise has nothing to say.
Silent == UNCHANGED <<Queue, closed, req, ret, Offered>>

\* A silent step is a stutter of the promise.
LEMMA SilentPromise ==
  ASSUME Silent
  PROVE  UNCHANGED Promise!vars
BY DEF Silent, Queue, Offered, Promise!vars

\* A primitive is the program's call or a case of its select.
LEMMA Runs ==
  ASSUME SafeInv, NEW t \in Threads, Primitive(t)
  PROVE  /\ req[t] # None /\ ret[t] = None
         /\ \/ /\ Calling(t) /\ ~InSelect(t) /\ req[t] \in Calls /\ call[t].c = req[t].c
               /\ call[t] = req[t] \/ (call[t].op = "await" /\ req[t].op = "send" /\ Cap[req[t].c] = 0)
            \/ /\ Selecting(t) /\ InSelect(t) /\ req[t].op = "select"
               /\ call[t] \in req[t].cases /\ call[t].op \in {"trySend", "selRecv"}
<1>1. pc[t] \in {"enter", "disarm"} /\ Placed(t)
  BY PrimitiveAwake DEF SafeInv, Control
<1>2. CASE Calling(t)
  BY <1>1, <1>2, PlacedRequest DEF Calling
<1>3. CASE Selecting(t)
  BY <1>1, <1>3, PlacedRequest, SelectShape, CaseShape DEF Selecting
<1>4. QED
  BY <1>1, <1>2, <1>3 DEF Placed, Idle

\* Empty and full mean the same of a ring and of its queue.
LEMMA QueueLength ==
  ASSUME SafeInv, NEW c \in Chans
  PROVE  /\ Len(Queue[c]) = len[c] /\ (Queue[c] = <<>> <=> Empty(c))
         /\ Full(c) <=> Len(Queue[c]) = Size(c)
         /\ ~Full(c) => Len(Queue[c]) < Size(c)
<1>1. Len(Contents(c)) = len[c] /\ Contents(c) \in Seq(Values)
  BY ContentsType DEF SafeInv, TypeOK, RingFilled
<1>2. len[c] \in 0 .. Size(c) /\ Size(c) \in Nat
  BY RingType, SizeType DEF SafeInv, TypeOK
<1>3. Queue[c] = <<>> <=> len[c] = 0
  BY <1>1, <1>2, EmptySeq DEF Queue
<1>4. QED
  BY <1>1, <1>2, <1>3 DEF Queue, Empty, Full

\* The sends.
LEMMA PromiseRefused ==
  ASSUME SafeInv, NEW t \in Threads, ThreadStep(t), SendRefused(t)
  PROVE  Promise!Effect(t) \/ Silent
<1> DEFINE c == call[t].c
<1>1. Primitive(t) /\ call[t].op \in SendOps /\ c \in Chans /\ c = call[t].c
  BY PrimitiveAwake DEF Primitive, SendRefused, SafeInv
<1>2. Queue' = Queue /\ closed' = closed /\ req' = req /\ call' = call
  BY SameContents DEF SendRefused, Queue
<1>3. t \notin Offered /\ t \notin Offered'
  BY <1>1, <1>2 DEF Offered, SendOps
<1>4. Offered' = Offered
  BY <1>3, OfferedStep
<1>5. CASE InSelect(t)
  BY <1>2, <1>4, <1>5 DEF SendRefused, NoEffect, Silent
<1>6. CASE ~InSelect(t)
  <2>1. call[t] = req[t] /\ req[t] # None /\ ret[t] = None
    BY <1>1, <1>6, Runs DEF SendOps
  <2>2. ret' = [ret EXCEPT ![t] = "fail"]
    BY <1>6 DEF SendRefused, NoEffect, Decide
  <2>3. c \in closed \/ (req[t].op = "trySend" /\ Len(Queue[c]) = Size(c))
    BY <1>1, <2>1, QueueLength DEF SendRefused
  <2>4. Promise!PutFails(t, req[t])
    BY <1>1, <1>2, <1>4, <2>1, <2>2, <2>3 DEF Promise!PutFails, Promise!Answer, Queue, Offered
  <2>5. QED
    BY <1>1, <1>3, <2>1, <2>4 DEF Promise!Effect, Promise!Pending, SendOps, Offered
<1>7. QED
  BY <1>5, <1>6

\* A value put in the ring is the effect of a send.
LEMMA PromisePut ==
  ASSUME SafeInv, NEW t \in Threads, ThreadStep(t), SendPut(t)
  PROVE  Promise!Effect(t)
<1> DEFINE c == call[t].c
           v == call[t].v
<1>1. Primitive(t) /\ call[t].op \in SendOps /\ c \in Chans /\ c \notin closed /\ ~Full(c)
  BY PrimitiveAwake DEF Primitive, SendPut, SafeInv
<1>2. Queue' = [Queue EXCEPT ![c] = Append(@, v)]
  BY PutContents DEF SafeInv, Queue
<1>3. closed' = closed /\ req' = req /\ req[t] # None /\ ret[t] = None
  BY <1>1, Runs DEF SendPut
<1>4. t \notin Offered
  BY <1>1 DEF Offered, SendOps
<1>5. Promise!Enqueue(call[t])
  BY <1>1, <1>2, <1>3, QueueLength DEF Promise!Enqueue, Queue
<1>6. CASE Cap[c] = 0 /\ call[t].op = "send"
  <2>1. call'[t] = [call[t] EXCEPT !.op = "await"] /\ ret' = ret
    BY <1>6 DEF SendPut, SafeInv, TypeOK
  <2>2. t \in Offered'
    <3>1. call[t] \in Calls
      BY <1>1, PrimitiveAwake DEF SafeInv
    <3>2. call'[t] \in Calls /\ call'[t].op = "await"
      BY <1>6, <2>1, <3>1 DEF Calls, SendOps, RecvOps
    <3>3. QED
      BY <1>3, <2>1, <3>2, CallShape DEF Offered
  <2>3. Offered' = Offered \union {t}
    BY <2>2, OfferedStep
  <2>4. call[t] = req[t]
    BY <1>1, <1>6, Runs DEF SendOps
  <2>5. Promise!Offer(t, req[t])
    BY <1>3, <1>4, <1>5, <2>1, <2>3, <2>4 DEF Promise!Offer, Offered
  <2>6. QED
    BY <1>1, <1>3, <1>6, <2>4, <2>5 DEF Promise!Effect, Promise!Pending
<1>7. CASE ~(Cap[c] = 0 /\ call[t].op = "send")
  <2>1. call' = call /\ ret' = [ret EXCEPT ![t] = "ok"]
    BY <1>7 DEF SendPut, Decide
  <2>2. t \notin Offered'
    BY <1>1, <2>1 DEF Offered, SendOps
  <2>3. Offered' = Offered
    BY <1>4, <2>2, OfferedStep
  <2>4. Promise!Put(t, call[t])
    BY <1>3, <1>5, <2>1, <2>3 DEF Promise!Put, Promise!Answer, Offered
  <2>5. CASE call[t] = req[t]
    <3>1. (call[t].op = "send" /\ c \notin {d \in Chans : Cap[d] = 0}) \/ call[t].op = "trySend"
      BY <1>1, <1>7 DEF SendOps
    <3>2. QED
      BY <1>3, <2>4, <2>5, <3>1 DEF Promise!Effect, Promise!Pending
  <2>6. CASE req[t].op = "select" /\ call[t] \in req[t].cases /\ call[t].op \in {"trySend", "selRecv"}
    <3>1. Promise!Select(t)
      BY <1>1, <2>4, <2>6 DEF Promise!Select, SendOps
    <3>2. QED
      BY <1>3, <2>6, <3>1 DEF Promise!Effect, Promise!Pending
  <2>7. QED
    BY <1>1, <2>5, <2>6, Runs DEF SendOps
<1>8. QED
  BY <1>6, <1>7

\* A rendezvous that ends is the effect of a send.
LEMMA PromiseMet ==
  ASSUME SafeInv, NEW t \in Threads, ThreadStep(t), AwaitEnds(t)
  PROVE  Promise!Effect(t)
<1> DEFINE c == call[t].c
<1>1. Primitive(t) /\ call[t].op = "await" /\ c \in Chans /\ (c \in closed \/ ~Full(c)) /\ call[t] \in Calls
  BY PrimitiveAwake DEF Primitive, AwaitEnds, SafeInv
<1>2. /\ Queue' = Queue /\ closed' = closed /\ req' = req /\ call' = call
      /\ ret' = [ret EXCEPT ![t] = "ok"]
  BY SameContents DEF AwaitEnds, Queue, Decide
<1>3. req[t] # None /\ ret[t] = None /\ req[t].op = "send" /\ Cap[c] = 0 /\ req[t].c = c
  <2>1. ~InSelect(t) => req[t] # call[t]
    BY <1>1, Runs, ProgramCallShape DEF Calling
  <2>2. QED
    BY <1>1, <2>1, Runs DEF InSelect
<1>4. "ok" # None
  BY NoneAssumption DEF Answers
<1>5. t \in Offered /\ t \notin Offered'
  BY <1>1, <1>2, <1>3, <1>4, CallShape DEF Offered, SafeInv, TypeOK
<1>6. Offered' = Offered \ {t}
  BY <1>5, OfferedStep
<1>7. c \in closed \/ Queue[c] = <<>>
  BY <1>1, <1>3, QueueLength, RingType DEF Full, Empty, Size, SafeInv, TypeOK
<1>8. Promise!Met(t, req[t])
  BY <1>2, <1>3, <1>5, <1>6, <1>7 DEF Promise!Met, Queue, Offered
<1>9. QED
  BY <1>1, <1>3, <1>8 DEF Promise!Effect, Promise!Pending

\* The receives.
LEMMA PromiseTake ==
  ASSUME SafeInv, NEW t \in Threads, ThreadStep(t), RecvTake(t)
  PROVE  Promise!Effect(t)
<1> DEFINE c == call[t].c
<1>1. Primitive(t) /\ call[t].op \in RecvOps /\ c \in Chans
  BY PrimitiveAwake DEF Primitive, RecvTake, SafeInv
<1>2. /\ Queue' = [Queue EXCEPT ![c] = Tail(@)] /\ Queue[c] # <<>>
      /\ ret' = [ret EXCEPT ![t] = Head(Queue[c])]
  <2>1. /\ Queue[c] # <<>> /\ ret'[t] = Head(Queue[c]) /\ Queue'[c] = Tail(Queue[c])
        /\ \A d \in Chans \ {c} : Queue'[d] = Queue[d]
    BY <1>1, TakeContents DEF SafeInv, Queue
  <2>2. ret' = [ret EXCEPT ![t] = ret'[t]]
    BY DEF RecvTake, Decide, SafeInv, TypeOK
  <2>3. QED
    BY <1>1, <2>1, <2>2 DEF Queue
<1>3. closed' = closed /\ req' = req /\ call' = call /\ req[t] # None /\ ret[t] = None
  BY <1>1, Runs DEF RecvTake
<1>4. t \notin Offered /\ t \notin Offered'
  BY <1>1, <1>3 DEF Offered, RecvOps
<1>5. Offered' = Offered
  BY <1>4, OfferedStep
<1>6. Promise!Take(t, call[t])
  BY <1>2, <1>3, <1>5 DEF Promise!Take, Promise!Answer, Queue, Offered
<1>7. CASE call[t] = req[t]
  <2>1. call[t].op # "selRecv"
    BY <1>1, <1>7, Runs, ProgramCallShape DEF Calling, InSelect, RecvOps
  <2>2. QED
    BY <1>1, <1>3, <1>6, <1>7, <2>1 DEF Promise!Effect, Promise!Pending, RecvOps
<1>8. CASE req[t].op = "select" /\ call[t] \in req[t].cases /\ call[t].op \in {"trySend", "selRecv"}
  <2>1. Promise!Select(t)
    BY <1>1, <1>6, <1>8 DEF Promise!Select, RecvOps
  <2>2. QED
    BY <1>3, <1>8, <2>1 DEF Promise!Effect, Promise!Pending
<1>9. QED
  BY <1>1, <1>7, <1>8, Runs DEF RecvOps

\* A receive that finds nothing is an effect, or nothing yet.
LEMMA PromiseNothing ==
  ASSUME SafeInv, NEW t \in Threads, ThreadStep(t), RecvNothing(t)
  PROVE  Promise!Effect(t) \/ Silent
<1> DEFINE c == call[t].c
<1>1. Primitive(t) /\ call[t].op \in RecvOps /\ c \in Chans /\ Empty(c)
  BY PrimitiveAwake DEF Primitive, RecvNothing, SafeInv
<1>2. Queue' = Queue /\ closed' = closed /\ req' = req /\ call' = call
  BY SameContents DEF RecvNothing, Queue
<1>3. t \notin Offered /\ t \notin Offered'
  BY <1>1, <1>2 DEF Offered, RecvOps
<1>4. Offered' = Offered
  BY <1>3, OfferedStep
<1>5. Queue[c] = <<>> /\ req[t] # None /\ ret[t] = None
  BY <1>1, QueueLength, Runs
<1>6. CASE InSelect(t) /\ ret' = ret
  BY <1>2, <1>4, <1>6 DEF Silent
<1>7. CASE c \in closed /\ call[t].op # "tryRecv" /\ Decide(t, "zero")
  <2>1. Promise!Drained(t, call[t])
    BY <1>2, <1>4, <1>5, <1>7 DEF Promise!Drained, Promise!Answer, Queue, Offered, Decide
  <2>2. CASE InSelect(t)
    <3>1. req[t].op = "select" /\ call[t] \in req[t].cases /\ call[t].op = "selRecv"
      BY <1>1, <2>2, Runs DEF RecvOps
    <3>2. Promise!Select(t)
      BY <2>1, <3>1 DEF Promise!Select
    <3>3. QED
      BY <1>5, <3>1, <3>2 DEF Promise!Effect, Promise!Pending
  <2>3. CASE ~InSelect(t)
    <3>1. call[t] = req[t] /\ call[t].op = "recv"
      BY <1>1, <1>7, <2>3, Runs, ProgramCallShape DEF RecvOps, Calling
    <3>2. QED
      BY <1>5, <2>1, <3>1 DEF Promise!Effect, Promise!Pending
  <2>4. QED
    BY <2>2, <2>3
<1>8. CASE ~InSelect(t) /\ call[t].op \in {"tryRecv", "selRecv"} /\ Decide(t, "fail")
  <2>1. call[t] = req[t] /\ call[t].op = "tryRecv"
    BY <1>1, <1>8, Runs, ProgramCallShape DEF RecvOps, Calling
  <2>2. Promise!TakeFails(t, req[t])
    BY <1>2, <1>4, <1>5, <1>8, <2>1 DEF Promise!TakeFails, Promise!Answer, Queue, Offered, Decide
  <2>3. QED
    BY <1>5, <2>1, <2>2 DEF Promise!Effect, Promise!Pending
<1>9. QED
  BY <1>1, <1>6, <1>7, <1>8 DEF RecvNothing, NoEffect, RecvOps

\* Closing is the effect of close.
LEMMA PromiseClose ==
  ASSUME SafeInv, NEW t \in Threads, ThreadStep(t), hao_chan_close(t)
  PROVE  Promise!Effect(t)
<1>1. Primitive(t) /\ call[t].op = "close"
  BY DEF Primitive, hao_chan_close
<1>2. req[t] # None /\ ret[t] = None /\ call[t] = req[t]
  BY <1>1, Runs
<1>3. /\ Queue' = Queue /\ closed' = closed \union {req[t].c} /\ req' = req /\ call' = call
      /\ ret' = [ret EXCEPT ![t] = "ok"]
  BY <1>2, SameContents DEF hao_chan_close, Queue, Decide
<1>4. t \notin Offered /\ t \notin Offered'
  BY <1>1, <1>3 DEF Offered
<1>5. Offered' = Offered
  BY <1>4, OfferedStep
<1>6. Promise!Close(t, req[t])
  BY <1>3, <1>5 DEF Promise!Close, Promise!Answer, Queue, Offered
<1>7. QED
  BY <1>1, <1>2, <1>6 DEF Promise!Effect, Promise!Pending

\* Making a call, returning from it, and the steps of a select.
LEMMA PromiseInvoke ==
  ASSUME SafeInv, NEW t \in Threads, ThreadStep(t), NEW r \in Requests[t], Invoke(t, r)
  PROVE  Promise!Invoke(t)
<1>1. Idle(t) /\ Queue' = Queue /\ closed' = closed /\ ret' = ret /\ req' = [req EXCEPT ![t] = r]
  BY SameContents DEF Invoke, Queue, SafeInv, Control, Placed, Calling, Selecting
<1>2. call'[t] = None \/ call'[t] = r
  BY <1>1 DEF Invoke, SafeInv, TypeOK, Idle
<1>3. r.op # "await"
  BY RequestsAssumption, ProgramCallShape, SelectShape
<1>4. t \notin Offered /\ t \notin Offered'
  BY <1>1, <1>2, <1>3 DEF Offered, Idle
<1>5. Offered' = Offered
  BY <1>4, OfferedStep
<1>6. QED
  BY <1>1, <1>5 DEF Promise!Invoke, Idle, Queue, Offered

\* A return is a return.
LEMMA PromiseReturn ==
  ASSUME SafeInv, NEW t \in Threads, ThreadStep(t), Return(t)
  PROVE  Promise!Return(t)
<1>1. ret[t] # None /\ call'[t] = None
  BY DEF Return, SafeInv, Control, Placed, Idle, Calling, Selecting, TypeOK
<1>2. /\ Queue' = Queue /\ closed' = closed /\ ret' = [ret EXCEPT ![t] = None]
      /\ req' = [req EXCEPT ![t] = None]
  BY SameContents DEF Return, Queue
<1>3. t \notin Offered /\ t \notin Offered'
  BY <1>1 DEF Offered
<1>4. Offered' = Offered
  BY <1>3, OfferedStep
<1>5. QED
  BY <1>1, <1>2, <1>4 DEF Promise!Return, Queue, Offered

\* A first pass that ends takes the default, or nothing yet.
LEMMA PromiseDefault ==
  ASSUME SafeInv, RunsCases, NEW t \in Threads, ThreadStep(t), SelFirstPassEnds(t)
  PROVE  Promise!Effect(t) \/ Silent
<1>1. Queue' = Queue /\ closed' = closed /\ req' = req /\ call' = call /\ pc[t] = "next"
  BY SameContents DEF SelFirstPassEnds, Queue
<1>2. req[t] \in Selects /\ req[t] # None /\ req[t].op = "select"
  BY <1>1, SelectShape DEF SafeInv, Control, Placed, Idle, Calling, Selecting
<1>3. t \notin Offered /\ t \notin Offered'
  BY <1>1, <1>2, CaseShape DEF RunsCases, Offered
<1>4. Offered' = Offered
  BY <1>3, OfferedStep
<1>5. CASE ret' = ret
  BY <1>1, <1>4, <1>5 DEF Silent
<1>6. CASE ret[t] = None /\ req[t].default /\ ret' = [ret EXCEPT ![t] = "default"]
  <2>1. Promise!Select(t)
    BY <1>1, <1>4, <1>6 DEF Promise!Select, Promise!Answer, Queue, Offered
  <2>2. QED
    BY <1>2, <1>6, <2>1 DEF Promise!Effect, Promise!Pending
<1>7. QED
  BY <1>5, <1>6 DEF SelFirstPassEnds

\* Sleeping, waking, enrolling and unrooting are silent.
LEMMA PromiseSilent ==
  ASSUME SafeInv, RunsCases, NEW t \in Threads, ThreadStep(t),
         \/ Unroot(t) \/ SpuriousWake(t) \/ Reacquire(t)
         \/ SendWaits(t) \/ AwaitWaits(t) \/ RecvWaits(t)
         \/ SelTryOne(t) \/ sel_enroll(t) \/ SelSecondPassEnds(t) \/ SelUnpark(t) \/ sel_unenroll(t)
  PROVE  Silent
<1>1. UNCHANGED <<closed, req, ret>> /\ UNCHANGED ring
  BY DEF Unroot, SpuriousWake, Reacquire, SendWaits, AwaitWaits, RecvWaits, SelTryOne, sel_enroll,
     SelSecondPassEnds, SelUnpark, sel_unenroll
<1>2. Queue' = Queue
  BY <1>1, SameContents DEF Queue
<1>3. Offered' = Offered
  <2>1. CASE call' = call
    BY <1>1, <2>1 DEF Offered
  <2>2. CASE SelTryOne(t)
    <3>1. req[t] \in Selects
      BY <2>2 DEF SelTryOne, SafeInv, Control, Placed, Idle, Calling, Selecting
    <3>2. call[t] \in Cases \union {None} /\ call'[t] \in Cases
      BY <2>2, <3>1 DEF RunsCases, SelTryOne, SafeInv, TypeOK
    <3>3. t \notin Offered /\ t \notin Offered'
      BY <3>2, CaseShape DEF Offered
    <3>4. QED
      BY <3>3, OfferedStep
  <2>3. QED
    BY <2>1, <2>2 DEF Unroot, SpuriousWake, Reacquire, SendWaits, AwaitWaits, RecvWaits, sel_enroll,
       SelSecondPassEnds, SelUnpark, sel_unenroll
<1>4. QED
  BY <1>1, <1>2, <1>3 DEF Silent

\* A drop empties the queue with the channel.
LEMMA PromiseVanish ==
  ASSUME SafeInv, NEW c \in Chans, Drop(c)
  PROVE  Promise!Vanish(c)
<1>1. Queue' = [Queue EXCEPT ![c] = <<>>]
  BY DropContents DEF SafeInv, TypeOK, Queue
<1>2. Offered' = Offered /\ closed' = closed \union {c} /\ req' = req /\ ret' = ret
  BY DEF Drop, Offered
<1>3. QED
  BY <1>1, <1>2 DEF Promise!Vanish, Queue, Offered

\* Every step is a step of the promise or a stutter.
LEMMA PromiseStep ==
  ASSUME SafeInv, RunsCases, [Next]_vars
  PROVE  [Promise!Next]_Promise!vars
<1>1. CASE \E t \in Threads : ThreadStep(t)
  <2>1. PICK t \in Threads : ThreadStep(t)
    BY <1>1
  <2>2. Promise!Invoke(t) \/ Promise!Effect(t) \/ Promise!Return(t) \/ Silent
    BY <2>1, PromiseRefused, PromisePut, PromiseMet, PromiseTake, PromiseNothing, PromiseClose,
       PromiseInvoke, PromiseReturn, PromiseDefault, PromiseSilent DEF ThreadStep, Step
  <2>3. QED
    BY <2>2, SilentPromise DEF Promise!Next
<1>2. CASE \E c \in Chans : Drop(c)
  BY <1>2, PromiseVanish DEF Promise!Next
<1>3. CASE StwRequest \/ StwRelease \/ UNCHANGED vars
  <2>1. UNCHANGED <<closed, req, ret, call>> /\ UNCHANGED ring
    BY <1>3 DEF StwRequest, StwRelease, vars, ring
  <2>2. Queue' = Queue
    BY <2>1, SameContents DEF Queue
  <2>3. Silent
    BY <2>1, <2>2 DEF Silent, Offered
  <2>4. QED
    BY <2>3, SilentPromise
<1>4. QED
  BY <1>1, <1>2, <1>3, Steps DEF OtherStep

\* Mutexes, sleepers, signals, the steps of a select, roots and drops add up
\* to the atomic calls of bounded first-in first-out queues.
THEOREM Refinement == Spec => KeepsPromise
<1>1. Init => SafeInv /\ RunsCases /\ Promise!Init
  BY SafeInit, PromiseInit DEF Init, RunsCases
<1>2. SafeInv /\ RunsCases /\ [Next]_vars => (SafeInv /\ RunsCases)'
  BY SafeStep, RunsCasesStep
<1>3. SafeInv /\ RunsCases /\ [Next]_vars => [Promise!Next]_Promise!vars
  BY PromiseStep
<1>4. QED
  BY <1>1, <1>2, <1>3, PTL DEF Spec, KeepsPromise, Promise!Spec
=============================================================================
