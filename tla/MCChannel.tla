----------------------------- MODULE MCChannel -----------------------------
(***************************************************************************)
(* Small instances of Channel: which threads run which calls.              *)
(***************************************************************************)
EXTENDS Channel, TLC

CONSTANTS p, q, r, c1, c2, v1, v2

Send(c, v) == [op |-> "send", c |-> c, v |-> v]
TrySend(c, v) == [op |-> "trySend", c |-> c, v |-> v]
Recv(c) == [op |-> "recv", c |-> c]
TryRecv(c) == [op |-> "tryRecv", c |-> c]
SelRecv(c) == [op |-> "selRecv", c |-> c]
Close(c) == [op |-> "close", c |-> c]
Select(cases, default) == [op |-> "select", cases |-> cases, default |-> default]

ThreePeers == {p, q, r}
TwoPeers == {p, q}
OneChan == {c1}
TwoChans == {c1, c2}
TwoValues == {v1, v2}

Cap0 == [c \in Chans |-> 0]
Cap1 == [c \in Chans |-> 1]
Cap2 == [c \in Chans |-> 2]

(* Two senders and two receivers, one of which closes.                     *)
Queueing ==
    p :> {Send(c1, v1)} @@ q :> {Send(c1, v2), Recv(c1)} @@ r :> {Recv(c1), Close(c1)}

(* c1 is unbuffered, has one sender and is not closed; c2 is.  A select    *)
(* receives from one and sends to the other.                               *)
MixedCap == c1 :> 0 @@ c2 :> 1
Selecting ==
    p :> {Select({SelRecv(c1), TrySend(c2, v1)}, FALSE), Select({SelRecv(c1)}, TRUE)}
    @@ q :> {Send(c1, v2), Recv(c2)}
    @@ r :> {Recv(c1), TryRecv(c1), TrySend(c2, v2), Close(c2)}

(* Two senders and one receiver, and nobody closes.                        *)
TwoSenders == p :> {Send(c1, v1)} @@ q :> {Send(c1, v2)} @@ r :> {Recv(c1)}

(* The receiver may close instead.                                         *)
Closing == p :> {Send(c1, v1)} @@ q :> {Recv(c1), Close(c1)}
OnePair == p :> {Send(c1, v1), Send(c1, v2)} @@ q :> {Recv(c1), TryRecv(c1)}
SelectClosing == p :> {Select({TrySend(c1, v1)}, FALSE)} @@ q :> {Close(c1)}
=============================================================================
