----------------------------- MODULE BigMessage -----------------------------
(***************************************************************************)
(* Big messages of ssmp (the same code on every platform but tilera, which *)
(* has none): ssmp_send_big cuts a message into chunks and hands them, one *)
(* at a time, to the receiver through the sender's only chunk buffer.  The *)
(* last byte of a chunk buffer is its state byte; a whole chunk of data is *)
(* as long as the buffer, so its last byte is copied over the state byte,  *)
(* and back.                                                               *)
(*                                                                         *)
(* A chunk is abstracted to its body (the k-th chunk of a sender has body  *)
(* k) and, if it is whole, its last byte.                                  *)
(***************************************************************************)
EXTENDS Integers, Sequences

CONSTANTS
  N,          \* ssmp_num_ues_
  Pieces,     \* the pieces in which memcpy copies the bytes before the last one
  LastByte,   \* the piece that holds the last byte of the buffer: its state
  LastBytes,  \* the values the last byte of a whole chunk of data may have
  Lengths,    \* the lengths of messages: [chunks |-> num_chunks, rest |-> last_chunk # 0]
  Pairs,      \* <<sender, receiver>>: who sends big messages to whom
  MaxSends    \* bound: messages per pair

Procs == 0 .. N - 1

ASSUME BigMessageAssumption ==
  /\ N \in Nat
  /\ LastByte \notin Pieces
  /\ LastBytes \subseteq 0 .. 255
  /\ Lengths \subseteq {l \in [chunks : Nat, rest : BOOLEAN] : l.chunks > 0 \/ l.rest}
  /\ Pairs \subseteq {c \in Procs \X Procs : c[1] # c[2]}
  /\ MaxSends \in Nat

VARIABLES
  state,   \* state[s]: ssmp_chunk_buf[s]->state
  body,    \* body[s]: the pieces of s's buffer before the state byte
  pc,      \* pc[p]: "idle", "sendtest", "fill", "recvtest", "drain"
  peer,    \* peer[p]: to, or from
  length,  \* length[p]: num_chunks and last_chunk, what is left of the message
  todo,    \* todo[p]: the pieces memcpy has not copied yet
  byte,    \* byte[p]: the last byte of the chunk of data p is copying
  data,    \* data[p]: the chunk the receiver has copied so far
  calls,   \* history: sends and receives begun, per pair and function
  filled,  \* history: filled[s]: the chunks s has begun to fill
  got      \* history: the chunks received, per <<sender, receiver>>

buffers == <<state, body>>
history == <<calls, filled, got>>
vars == <<buffers, pc, peer, length, todo, byte, data, history>>

Blank == [x \in Pieces \cup {LastByte} |-> 0]

InitialStale == [p \in Procs |-> 1]                  \* mutation: buffers are not reset
Initial == [p \in Procs |-> 0]

Init == /\ state = Initial
        /\ body = [p \in Procs |-> [x \in Pieces |-> 0]]
        /\ pc = [p \in Procs |-> "idle"]
        /\ peer = [p \in Procs |-> p]
        /\ length = [p \in Procs |-> [chunks |-> 0, rest |-> FALSE]]
        /\ todo = [p \in Procs |-> {}]
        /\ byte = [p \in Procs |-> 0]
        /\ data = [p \in Procs |-> Blank]
        /\ calls = [c \in Pairs |-> [send |-> 0, recv |-> 0]]
        /\ filled = [p \in Procs |-> 0]
        /\ got = [c \in Pairs |-> << >>]

\* A whole chunk is next; else the last, shorter one.
Whole(p) == length[p].chunks > 0

\* memcpy copies SSMP_CHUNK_SIZE bytes of a whole chunk, last_chunk of the rest.
Copied(p) == IF Whole(p) THEN Pieces \cup {LastByte} ELSE Pieces

Begin(p, at, other, l) == /\ pc[p] = "idle"
                          /\ pc' = [pc EXCEPT ![p] = at]
                          /\ peer' = [peer EXCEPT ![p] = other]
                          /\ length' = [length EXCEPT ![p] = l]

\* What is left of the message after the chunk that p works on.
LeftBelow(p) == [length[p] EXCEPT !.chunks = @ - 1]  \* mutation
Left(p) == IF Whole(p) THEN [length[p] EXCEPT !.chunks = @ - 1]
           ELSE [chunks |-> 0, rest |-> FALSE]

\* There is something left (if (!last_chunk) return).
MoreWhole(l) == l.chunks > 0                         \* mutation: the rest is not sent
More(l) == l.chunks > 0 \/ l.rest

\* After a chunk: the next one, or the end of the call.
Continue(p, at) ==
  /\ length' = [length EXCEPT ![p] = Left(p)]
  /\ pc' = [pc EXCEPT ![p] = IF More(Left(p)) THEN at ELSE "idle"]
  /\ peer' = [peer EXCEPT ![p] = IF More(Left(p)) THEN @ ELSE p]

(***************************************************************************)
(* Sending.                                                                *)
(***************************************************************************)
CallSendBig(p, to, l) ==
  /\ <<p, to>> \in Pairs
  /\ calls[<<p, to>>].send < MaxSends
  /\ Begin(p, "sendtest", to, l)
  /\ calls' = [calls EXCEPT ![<<p, to>>].send = @ + 1]
  /\ UNCHANGED <<buffers, todo, byte, data, filled, got>>

\* while (ssmp_chunk_buf[ssmp_id_]->state)
SendNow(p) == pc[p] = "sendtest"                    \* mutation: does not wait
SendReady(p) == pc[p] = "sendtest" /\ state[p] = 0

SendTest(p, b) ==
  /\ SendReady(p)
  /\ IF Whole(p) THEN b \in LastBytes ELSE b = 0
  /\ pc' = [pc EXCEPT ![p] = "fill"]
  /\ todo' = [todo EXCEPT ![p] = Copied(p)]
  /\ byte' = [byte EXCEPT ![p] = b]
  /\ filled' = [filled EXCEPT ![p] = @ + 1]
  /\ UNCHANGED <<buffers, peer, length, data, calls, got>>

\* One piece of memcpy(ssmp_chunk_buf[ssmp_id_], data, ...), in any order.
SendCopy(p, x) ==
  /\ pc[p] = "fill"
  /\ x \in todo[p]
  /\ IF x = LastByte
     THEN state' = [state EXCEPT ![p] = byte[p]] /\ UNCHANGED body
     ELSE body' = [body EXCEPT ![p][x] = filled[p]] /\ UNCHANGED state
  /\ todo' = [todo EXCEPT ![p] = @ \ {x}]
  /\ UNCHANGED <<pc, peer, length, byte, data, history>>

SendRaise(p) ==
  /\ pc[p] = "fill"
  /\ todo[p] = {}
  /\ state' = [state EXCEPT ![p] = 1]
  /\ Continue(p, "sendtest")
  /\ UNCHANGED <<body, todo, byte, data, history>>

(***************************************************************************)
(* Receiving.                                                              *)
(***************************************************************************)
CallRecvBig(p, from, l) ==
  /\ <<from, p>> \in Pairs
  /\ calls[<<from, p>>].recv < MaxSends
  /\ Begin(p, "recvtest", from, l)
  /\ calls' = [calls EXCEPT ![<<from, p>>].recv = @ + 1]
  /\ UNCHANGED <<buffers, todo, byte, data, filled, got>>

\* while (!ssmp_chunk_buf[from]->state)
RecvTest(p) ==
  /\ pc[p] = "recvtest"
  /\ state[peer[p]] # 0
  /\ pc' = [pc EXCEPT ![p] = "drain"]
  /\ todo' = [todo EXCEPT ![p] = Copied(p)]
  /\ UNCHANGED <<buffers, peer, length, byte, data, history>>

RecvCopy(p, x) ==
  /\ pc[p] = "drain"
  /\ x \in todo[p]
  /\ data' = [data EXCEPT ![p][x] = IF x = LastByte THEN state[peer[p]] ELSE body[peer[p]][x]]
  /\ todo' = [todo EXCEPT ![p] = @ \ {x}]
  /\ UNCHANGED <<buffers, pc, peer, length, byte, history>>

RecvRelease(p) ==
  /\ pc[p] = "drain"
  /\ todo[p] = {}
  /\ state' = [state EXCEPT ![peer[p]] = 0]
  /\ got' = [got EXCEPT ![<<peer[p], p>>] = Append(@, data[p])]
  /\ data' = [data EXCEPT ![p] = Blank]
  /\ Continue(p, "recvtest")
  /\ UNCHANGED <<body, todo, byte, calls, filled>>

Called(p) == \E q \in Procs : \E l \in Lengths : CallSendBig(p, q, l) \/ CallRecvBig(p, q, l)

ssmp_send_big_platf(p) == \/ \E b \in LastBytes \cup {0} : SendTest(p, b)
                          \/ \E x \in Pieces \cup {LastByte} : SendCopy(p, x)
                          \/ SendRaise(p)

ssmp_recv_from_big_platf(p) == \/ RecvTest(p)
                               \/ \E x \in Pieces \cup {LastByte} : RecvCopy(p, x)
                               \/ RecvRelease(p)

Step(p) == ssmp_send_big_platf(p) \/ ssmp_recv_from_big_platf(p)

Next == \E p \in Procs : Called(p) \/ Step(p)

Spec == Init /\ [][Next]_vars
FairSpec == Spec /\ \A p \in Procs : WF_vars(Step(p))

(***************************************************************************)
(* Properties.                                                             *)
(***************************************************************************)
\* Every variable has its type: a length is never counted below zero.
TypeOK ==
  /\ state \in [Procs -> 0 .. 255]
  /\ body \in [Procs -> [Pieces -> Nat]]
  /\ pc \in [Procs -> {"idle", "sendtest", "fill", "recvtest", "drain"}]
  /\ peer \in [Procs -> Procs]
  /\ length \in [Procs -> [chunks : Nat, rest : BOOLEAN]]
  /\ todo \in [Procs -> SUBSET (Pieces \cup {LastByte})]
  /\ byte \in [Procs -> 0 .. 255]
  /\ data \in [Procs -> [Pieces \cup {LastByte} -> Nat]]
  /\ calls \in [Pairs -> [send : Nat, recv : Nat]]
  /\ filled \in [Procs -> Nat]
  /\ got \in [Pairs -> Seq([Pieces \cup {LastByte} -> Nat])]

\* "send a message of size length", "receive a message ... from core from": the
\* receiver's k-th chunk is the k-th one sent, with all of its bytes up to the
\* last one.
InOrder ==
  \A c \in Pairs : \A k \in DOMAIN got[c] : \A x \in Pieces : got[c][k][x] = k

\* Sender and receiver take turns on the chunk buffer, without a lock.
Filling(s) == pc[s] = "fill"
Draining(s) == {p \in Procs : pc[p] = "drain" /\ peer[p] = s}
TakeTurns ==
  \A s \in Procs : /\ Filling(s) => Draining(s) = {}
                   /\ \A p, q \in Draining(s) : p = q

\* The inductive invariant.  A process in a call works on a pair of its own.  The
\* buffer of a pair's sender is being filled, full, or empty; the chunks begun are
\* then one more than the chunks received, or as many, and what is copied already,
\* into the buffer or out of it, is of the chunk begun last.
Busy(p) ==
  /\ pc[p] \in {"sendtest", "fill"} => <<p, peer[p]>> \in Pairs
  /\ pc[p] \in {"recvtest", "drain"} => <<peer[p], p>> \in Pairs
  /\ pc[p] = "fill" => byte[p] = 0

Full(s) == state[s] = 1 /\ \A x \in Pieces : body[s][x] = filled[s]
HandedOver(c) ==
  LET s == c[1]
      r == c[2]
  IN  /\ filled[s] = Len(got[c]) + (IF Filling(s) \/ state[s] # 0 THEN 1 ELSE 0)
      /\ Filling(s) => state[s] = 0 /\ \A x \in Pieces \ todo[s] : body[s][x] = filled[s]
      /\ state[s] # 0 => Full(s)
      /\ r \in Draining(s) => Full(s) /\ \A x \in Pieces \ todo[r] : data[r][x] = filled[s]

IInv == /\ TypeOK
        /\ \A p \in Procs : Busy(p)
        /\ \A c \in Pairs : HandedOver(c)
        /\ InOrder

\* When the receiver asks for what is sent, the k-th message arrives whole once
\* both ends have begun their k-th call, whoever began first: a message cut into
\* chunks never leaves one end waiting for a chunk that is not coming.
Chunks(l) == l.chunks + (IF l.rest THEN 1 ELSE 0)
Completes ==
  \A c \in Pairs : \A k \in 1 .. MaxSends : \A l \in Lengths :
    (Lengths = {l} /\ calls[c].send >= k /\ calls[c].recv >= k) ~> Len(got[c]) >= k * Chunks(l)
=============================================================================
