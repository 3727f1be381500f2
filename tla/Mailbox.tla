------------------------------ MODULE Mailbox ------------------------------
(***************************************************************************)
(* Small messages of ssmp, generic platform (platform/generic): one cache  *)
(* line per ordered pair of processes, written by the sender, emptied by   *)
(* the receiver, handed back and forth by its state byte.                  *)
(*                                                                         *)
(* One step is one read or write of shared memory: a test of a state byte, *)
(* the copy of one piece of a line, the store that frees the line.  memcpy *)
(* copies a line piece by piece, in an order C leaves open; FlagLast says  *)
(* whether the build's memcpy stores the piece that holds the state byte   *)
(* after the others.                                                       *)
(*                                                                         *)
(* Data is abstracted: the k-th message of a channel is the line whose     *)
(* words are all k.                                                        *)
(***************************************************************************)
EXTENDS Integers, Sequences

CONSTANTS
  N,          \* ssmp_num_ues_: the processes are 0 .. N-1
  Words,      \* the pieces of a line that hold data
  Flag,       \* the piece of a line that holds the state byte
  FlagLast,   \* memcpy stores the state byte's piece last
  Cas,        \* Cas[p][f]: where function f, called by p, claims a line with a
              \* compare-and-swap instead of a test (USE_ATOMIC, xeon's sockets)
  CBuf,       \* CBuf[p]: cbuf->from of the color buffer process p built
  Calls,      \* Calls[p]: the functions of ssmp.h that process p calls
  MaxSend     \* bound, MaxSend[c]: the messages sent on channel c

Procs == 0 .. N - 1
Chan == {c \in Procs \X Procs : c[1] # c[2]}    \* <<sender, receiver>>

EMPTY == "empty"
MESSG == "messg"
LOCKD == "lockd"
BufStates == {EMPTY, MESSG, LOCKD}

SendCalls == {"send", "send_no_sync", "broadcast"}
RecvCalls == {"recv_from", "recv", "recv_color", "recv_color_start"}

ASSUME MailboxAssumption ==
  /\ N \in Nat
  /\ Flag \notin Words
  /\ FlagLast \in BOOLEAN
  /\ Cas \in [Procs -> [SendCalls \cup RecvCalls -> SUBSET Nat]]
  /\ CBuf \in [Procs -> Seq(Procs)]
  /\ \A p \in Procs : \A k \in DOMAIN CBuf[p] : CBuf[p][k] # p
  /\ Calls \in [Procs -> SUBSET (SendCalls \cup RecvCalls)]
  /\ MaxSend \in [Chan -> Nat]

VARIABLES
  state,   \* state[c]: the state byte of c's line
  line,    \* line[c]: the data words of c's line
  call,    \* call[p]: the function p is in, "none" when it is in its own code
  pc,      \* pc[p]: "idle", "test" (polling), "copy" (in memcpy), "loop" (broadcast)
  peer,    \* peer[p]: to, from, or the scanned core
  idx,     \* idx[p]: the scanned index of the color buffer, or broadcast's core
  start,   \* start[p]: start_recv_from, static in the process
  msg,     \* msg[p]: the words of the receiver's local message
  todo,    \* todo[p]: the pieces memcpy has not copied yet
  sent,    \* history: messages whose line was claimed, per channel
  got      \* history: lines returned, by receiver and reported msg->sender

shared == <<state, line>>
local  == <<call, pc, peer, idx, start, msg, todo>>
vars   == <<shared, local, sent, got>>

Init == /\ state = [c \in Chan |-> EMPTY]
        /\ line = [c \in Chan |-> [w \in Words |-> 0]]
        /\ call = [p \in Procs |-> "none"]
        /\ pc = [p \in Procs |-> "idle"]
        /\ peer = [p \in Procs |-> p]
        /\ idx = [p \in Procs |-> 0]
        /\ start = [p \in Procs |-> 0]
        /\ msg = [p \in Procs |-> [w \in Words |-> 0]]
        /\ todo = [p \in Procs |-> {}]
        /\ sent = [c \in Chan |-> 0]
        /\ got = [c \in Chan |-> << >>]

(***************************************************************************)
(* The state byte of a line.  (A definition marked as a mutation is a      *)
(* plausible bug, which the runs detect.)                                  *)
(***************************************************************************)
NotEmpty(c) == state[c] # EMPTY                     \* mutation of Free and Full
Unseen(c) == TRUE                                   \* mutation of Free
Free(c) == state[c] = EMPTY
Full(c) == state[c] = MESSG

(***************************************************************************)
(* The channel a process works on.                                         *)
(***************************************************************************)
Out(p) == <<p, peer[p]>>
In(p)  == <<peer[p], p>>

\* The position of the color buffer that a scan stands on.
ScanPos(p) == IF call[p] = "recv_color_start" THEN start[p] ELSE idx[p]

\* What p leaves in the state byte when it claims its line with core q.  (The
\* color functions of platform/xeon pass the position where a core is meant.)
Claimed(found, p, q) ==
  LET key == IF call[p] \in {"recv_color", "recv_color_start"} THEN ScanPos(p) ELSE q
  IN  IF key \in Cas[p][call[p]] THEN LOCKD ELSE found

Enter(p, f, at) == /\ pc[p] = "idle"
                   /\ f \in Calls[p]
                   /\ call' = [call EXCEPT ![p] = f]
                   /\ pc' = [pc EXCEPT ![p] = at]

\* The call returns and its locals are gone.
Return(p) == /\ pc' = [pc EXCEPT ![p] = "idle"]
             /\ call' = [call EXCEPT ![p] = "none"]
             /\ peer' = [peer EXCEPT ![p] = p]

(***************************************************************************)
(* Sending.                                                                *)
(***************************************************************************)
CallSend(p, to) ==
  /\ to # p
  /\ sent[<<p, to>>] < MaxSend[<<p, to>>]
  /\ Enter(p, "send", "test")
  /\ peer' = [peer EXCEPT ![p] = to]
  /\ UNCHANGED <<shared, idx, start, msg, todo, sent, got>>

\* msg->state = MESSG and the whole line is copied, its state byte included.
ClaimLine(p, c) ==
  /\ pc' = [pc EXCEPT ![p] = "copy"]
  /\ todo' = [todo EXCEPT ![p] = Words \cup {Flag}]
  /\ sent' = [sent EXCEPT ![c] = @ + 1]

SendTest(p) ==
  /\ pc[p] = "test"
  /\ call[p] \in {"send", "broadcast"}
  /\ Free(Out(p))
  /\ state' = [state EXCEPT ![Out(p)] = Claimed(EMPTY, p, peer[p])]
  /\ ClaimLine(p, Out(p))
  /\ UNCHANGED <<line, call, peer, idx, start, msg, got>>

\* ssmp_send_no_sync: the same without looking at the line first.
CallSendNoSync(p, to) ==
  /\ to # p
  /\ sent[<<p, to>>] < MaxSend[<<p, to>>]
  /\ pc[p] = "idle"
  /\ "send_no_sync" \in Calls[p]
  /\ call' = [call EXCEPT ![p] = "send_no_sync"]
  /\ peer' = [peer EXCEPT ![p] = to]
  /\ ClaimLine(p, <<p, to>>)
  /\ UNCHANGED <<shared, idx, start, msg, got>>

\* One piece of the sender's memcpy.  The copy of the last piece ends the
\* call; a broadcast goes back to its loop.
SendCopy(p, x) ==
  /\ pc[p] = "copy"
  /\ call[p] \in SendCalls
  /\ x \in todo[p]
  /\ (FlagLast /\ x = Flag) => todo[p] = {Flag}
  /\ IF x = Flag
     THEN state' = [state EXCEPT ![Out(p)] = MESSG] /\ UNCHANGED line
     ELSE line' = [line EXCEPT ![Out(p)][x] = sent[Out(p)]] /\ UNCHANGED state
  /\ todo' = [todo EXCEPT ![p] = @ \ {x}]
  /\ \/ todo[p] # {x} /\ UNCHANGED <<call, pc, peer>>
     \/ /\ todo[p] = {x} /\ call[p] = "broadcast"
        /\ pc' = [pc EXCEPT ![p] = "loop"]
        /\ UNCHANGED <<call, peer>>
     \/ todo[p] = {x} /\ call[p] # "broadcast" /\ Return(p)
  /\ UNCHANGED <<idx, start, msg, sent, got>>

CallBroadcast(p) ==
  /\ \A to \in Procs \ {p} : sent[<<p, to>>] < MaxSend[<<p, to>>]
  /\ Enter(p, "broadcast", "loop")
  /\ UNCHANGED <<shared, peer, idx, start, msg, todo, sent, got>>

BroadcastDoneLate(p) == idx[p] > N                  \* mutation
BroadcastDone(p) == idx[p] = N

\* The loop's core++, which a continue does not jump over.
NextCoreUnlessSelf(p) == IF idx[p] = p THEN p ELSE idx[p] + 1    \* mutation
NextCore(p) == idx[p] + 1

\* One turn of ssmp_broadcast's loop: skip oneself, or ssmp_send to core.
BroadcastNext(p) ==
  /\ pc[p] = "loop"
  /\ IF BroadcastDone(p)
     THEN Return(p) /\ idx' = [idx EXCEPT ![p] = 0]
     ELSE /\ idx' = [idx EXCEPT ![p] = NextCore(p)]
          /\ IF idx[p] = p
             THEN UNCHANGED <<pc, peer>>
             ELSE /\ pc' = [pc EXCEPT ![p] = "test"]
                  /\ peer' = [peer EXCEPT ![p] = idx[p]]
          /\ UNCHANGED call
  /\ UNCHANGED <<shared, start, msg, todo, sent, got>>

(***************************************************************************)
(* Receiving.                                                              *)
(***************************************************************************)
CallRecvFrom(p, from) ==
  /\ from # p
  /\ Enter(p, "recv_from", "test")
  /\ peer' = [peer EXCEPT ![p] = from]
  /\ UNCHANGED <<shared, idx, start, msg, todo, sent, got>>

\* ssmp_recv and ssmp_recv_color scan from position 0, ssmp_recv_color_start
\* from where the process's previous call of it stopped.
CallRecv(p, f) ==
  /\ f \in {"recv", "recv_color", "recv_color_start"}
  /\ Enter(p, f, "test")
  /\ UNCHANGED <<shared, peer, idx, start, msg, todo, sent, got>>

ScanLen(p)  == IF call[p] = "recv" THEN N ELSE Len(CBuf[p])
ScanCore(p) == IF call[p] = "recv" THEN idx[p] ELSE CBuf[p][ScanPos(p) + 1]

\* The line from core q is full: claim it and enter memcpy.
TakeLine(p, q) ==
  /\ Full(<<q, p>>)
  /\ state' = [state EXCEPT ![<<q, p>>] = Claimed(MESSG, p, q)]
  /\ peer' = [peer EXCEPT ![p] = q]
  /\ pc' = [pc EXCEPT ![p] = "copy"]
  /\ todo' = [todo EXCEPT ![p] = Words]
  /\ UNCHANGED <<line, call, idx, start, msg, sent, got>>

RecvFromTestOwn(p) ==                               \* mutation: polls its own line
  /\ pc[p] = "test"
  /\ call[p] = "recv_from"
  /\ Full(Out(p))
  /\ TakeLine(p, peer[p])

RecvFromTest(p) ==
  /\ pc[p] = "test"
  /\ call[p] = "recv_from"
  /\ TakeLine(p, peer[p])

Scanning(p) ==
  /\ pc[p] = "test"
  /\ call[p] \in RecvCalls \ {"recv_from"}
  /\ ScanLen(p) > 0

ScanHit(p) ==
  /\ Scanning(p)
  /\ ScanCore(p) # p
  /\ TakeLine(p, ScanCore(p))

\* Nothing there: the next position, from the last one back to the first.
AdvancedToLast(pos, p) ==                           \* mutation: never starts over
  [pos EXCEPT ![p] = IF @ + 1 < ScanLen(p) THEN @ + 1 ELSE @]
Advanced(pos, p) == [pos EXCEPT ![p] = (@ + 1) % ScanLen(p)]

ScanMiss(p) ==
  /\ Scanning(p)
  /\ ScanCore(p) # p => ~Full(<<ScanCore(p), p>>)
  /\ IF call[p] = "recv_color_start"
     THEN start' = Advanced(start, p) /\ UNCHANGED idx
     ELSE idx' = Advanced(idx, p) /\ UNCHANGED start
  /\ UNCHANGED <<shared, call, pc, peer, msg, todo, sent, got>>

\* One piece of the receiver's memcpy.
RecvCopy(p, w) ==
  /\ pc[p] = "copy"
  /\ call[p] \in RecvCalls
  /\ w \in todo[p]
  /\ msg' = [msg EXCEPT ![p][w] = line[In(p)][w]]
  /\ todo' = [todo EXCEPT ![p] = @ \ {w}]
  /\ UNCHANGED <<shared, call, pc, peer, idx, start, sent, got>>

\* What msg->sender says on return (recv_from: the core the caller named).
ReportedNext(p) ==                                  \* mutation: after start_recv_from moved
  IF call[p] = "recv_from" THEN peer[p]
  ELSE IF call[p] = "recv" THEN idx[p]
  ELSE CBuf[p][((ScanPos(p) + 1) % ScanLen(p)) + 1]
Reported(p) == IF call[p] = "recv_from" THEN peer[p] ELSE ScanCore(p)

ResumedAtFirst(p) == [start EXCEPT ![p] = 0]        \* mutation
Resumed(p) == IF call[p] = "recv_color_start" THEN Advanced(start, p) ELSE start

\* msg->sender is set, the line is emptied, start_recv_from moves on and the
\* call returns; the caller has the message, msg is scratch again.
RecvRelease(p) ==
  /\ pc[p] = "copy"
  /\ call[p] \in RecvCalls
  /\ todo[p] = {}
  /\ state' = [state EXCEPT ![In(p)] = EMPTY]
  /\ got' = [got EXCEPT ![<<Reported(p), p>>] = Append(@, msg[p])]
  /\ start' = Resumed(p)
  /\ idx' = [idx EXCEPT ![p] = 0]
  /\ msg' = [msg EXCEPT ![p] = [w \in Words |-> 0]]
  /\ Return(p)
  /\ UNCHANGED <<line, todo, sent>>

(***************************************************************************)
(* Calls are the application's choice; once in a call, a process runs.     *)
(***************************************************************************)
Called(p) == \/ \E q \in Procs : CallSend(p, q) \/ CallSendNoSync(p, q) \/ CallRecvFrom(p, q)
             \/ \E f \in RecvCalls : CallRecv(p, f)
             \/ CallBroadcast(p)

Step(p) == \/ SendTest(p)
           \/ \E x \in Words \cup {Flag} : SendCopy(p, x)
           \/ BroadcastNext(p)
           \/ RecvFromTest(p)
           \/ ScanHit(p)
           \/ ScanMiss(p)
           \/ \E w \in Words : RecvCopy(p, w)
           \/ RecvRelease(p)

Next == \E p \in Procs : Called(p) \/ Step(p)

Spec == Init /\ [][Next]_vars

FairSpec == Spec /\ \A p \in Procs : WF_vars(Step(p))

(***************************************************************************)
(* Properties.                                                             *)
(***************************************************************************)
Line(k) == [w \in Words |-> k]

\* The sender is copying into c's line; the receiver is copying out of it.
Writing(c) == pc[c[1]] = "copy" /\ call[c[1]] \in SendCalls /\ peer[c[1]] = c[2]
Reading(c) == pc[c[2]] = "copy" /\ call[c[2]] \in RecvCalls /\ peer[c[2]] = c[1]

\* Every variable has its type, and a scan position is inside its scan.
TypeOK ==
  /\ state \in [Chan -> BufStates]
  /\ line \in [Chan -> [Words -> Nat]]
  /\ call \in [Procs -> SendCalls \cup RecvCalls \cup {"none"}]
  /\ pc \in [Procs -> {"idle", "test", "copy", "loop"}]
  /\ peer \in [Procs -> Procs]
  /\ idx \in [Procs -> Nat]
  /\ start \in [Procs -> Nat]
  /\ msg \in [Procs -> [Words -> Nat]]
  /\ todo \in [Procs -> SUBSET (Words \cup {Flag})]
  /\ sent \in [Chan -> Nat]
  /\ got \in [Chan -> Seq([Words -> Nat])]

\* What a receiver gets under the name of a sender is that sender's messages,
\* whole, in order, none twice: ssmp_send and the four receives together.
ExactlyOnce == \A c \in Chan : got[c] = [k \in 1 .. Len(got[c]) |-> Line(k)]

\* A message that a sender has handed to ssmp_send is being written, waits in
\* the line, is being read, or has been received: an idle line is empty and
\* everything sent on it has arrived.
NothingLost ==
  \A c \in Chan : \/ Writing(c)
                  \/ Reading(c)
                  \/ state[c] = MESSG
                  \/ (state[c] = EMPTY /\ Len(got[c]) = sent[c])

\* The sender and the receiver of a line are never inside memcpy on it at the
\* same time, although no lock protects the line.
NoOverlap == \A c \in Chan : ~(Writing(c) /\ Reading(c))

\* The inductive invariant behind ExactlyOnce, NothingLost and NoOverlap, for
\* synchronised sends and a memcpy that stores the state byte last.
Synchronised == FlagLast /\ \A p \in Procs : "send_no_sync" \notin Calls[p]

\* Where a process is in its call, and that its scan stands on a core: for all calls
\* and every memcpy, and what synchronised sends add.
InCall(p) ==
  /\ pc[p] = "idle" <=> call[p] = "none"
  /\ pc[p] = "loop" => call[p] = "broadcast"
  /\ pc[p] = "test" /\ call[p] \in {"send", "broadcast", "recv_from"} => peer[p] # p
  /\ pc[p] = "copy" => peer[p] # p
  /\ pc[p] = "copy" /\ call[p] \in RecvCalls => todo[p] \subseteq Words /\ Reported(p) = peer[p]
  /\ pc[p] = "copy" /\ call[p] = "recv_color_start" => Len(CBuf[p]) > 0
  /\ call[p] \in {"none", "send", "send_no_sync", "recv_from", "recv_color_start"} => idx[p] = 0
  /\ call[p] = "recv" => idx[p] < N
  /\ call[p] = "broadcast" => idx[p] <= N
  /\ call[p] = "recv_color" => idx[p] = 0 \/ idx[p] < Len(CBuf[p])
  /\ start[p] = 0 \/ start[p] < Len(CBuf[p])

ProcOK(p) ==
  /\ InCall(p)
  /\ call[p] # "send_no_sync"
  /\ pc[p] = "copy" /\ call[p] \in SendCalls => Flag \in todo[p]

\* Who holds a line, what its state byte then says, and what is in it.
ChanOK(c) ==
  /\ got[c] = [k \in 1 .. Len(got[c]) |-> Line(k)]
  /\ IF Writing(c) \/ Reading(c) \/ state[c] = MESSG
     THEN sent[c] = Len(got[c]) + 1
     ELSE sent[c] = Len(got[c]) /\ state[c] = EMPTY
  /\ Writing(c) => /\ ~Reading(c)
                   /\ state[c] \in {EMPTY, LOCKD}
                   /\ \A w \in Words \ todo[c[1]] : line[c][w] = sent[c]
  /\ state[c] = MESSG \/ Reading(c) => line[c] = Line(sent[c])
  /\ Reading(c) => /\ state[c] \in {MESSG, LOCKD}
                   /\ \A w \in Words \ todo[c[2]] : msg[c[2]][w] = sent[c]

IInv == /\ TypeOK
        /\ \A p \in Procs : ProcOK(p)
        /\ \A c \in Chan : ChanOK(c)

\* The generic mailboxes implement the channels ssmp promises.
Promised == INSTANCE Channels WITH accepted <- sent, delivered <- got
PromisedSpec == Promised!Spec

\* The channels on which anything is sent (the others have nothing to return for).
Used == {c \in Chan : MaxSend[c] > 0}

\* A receive from a core whose message is pending returns.
RecvFromReturns ==
  \A c \in Used :
    (call[c[2]] = "recv_from" /\ peer[c[2]] = c[1] /\ state[c] = MESSG) ~> pc[c[2]] = "idle"

\* A scanning receive returns when one of the cores it scans has a message
\* pending, wherever the scan stands when the message arrives.
Scans(p) == IF call[p] = "recv" THEN Procs ELSE {CBuf[p][k] : k \in DOMAIN CBuf[p]}
ScanReturns ==
  \A c \in Used :
    (Scanning(c[2]) /\ c[1] \in Scans(c[2]) /\ state[c] = MESSG) ~> pc[c[2]] = "idle"

\* A sender whose line has been emptied finishes its send: nobody else can
\* fill the line in between.
SendReturns ==
  \A c \in Used :
    (call[c[1]] = "send" /\ peer[c[1]] = c[2] /\ state[c] = EMPTY) ~> pc[c[1]] = "idle"

\* A broadcast sends to everybody and returns, unless it stands for ever at one core
\* that does not empty its line: nothing else in ssmp_broadcast's loop can hold it up.
BroadcastWaits(p) == call[p] = "broadcast" /\ pc[p] = "test" /\ state[Out(p)] # EMPTY
BroadcastReturns ==
  \A p \in Procs : (call[p] = "broadcast") ~> (pc[p] = "idle" \/ []BroadcastWaits(p))

\* ssmp_recv_color_start "starts checking for incoming messages from the coreID
\* of the last sender + 1, so that not coreID = 0 has priority" (ssmp.h).  While a
\* message waits, nothing moves the scan away from it, and every call that serves
\* somebody else brings the scan nearer: each other sender overtakes it at most once.
Ahead(c) ==
  LET pos == CHOOSE k \in DOMAIN CBuf[c[2]] : CBuf[c[2]][k] = c[1]
  IN  (pos - 1 - start[c[2]]) % Len(CBuf[c[2]])
Served(p) == call[p] = "recv_color_start" /\ pc'[p] = "idle"
FairScan ==
  [][\A c \in Used :
       (state[c] = MESSG /\ state'[c] = MESSG /\ \E k \in DOMAIN CBuf[c[2]] : CBuf[c[2]][k] = c[1])
       => Ahead(c)' <= Ahead(c) /\ (Served(c[2]) => Ahead(c)' < Ahead(c))]_vars

\* Even ssmp_send_no_sync, which may overwrite a pending message, never takes a
\* receiver back: each word a receiver sees comes from a message that was sent,
\* and never from one older than the word it saw before.
WordsMonotone ==
  \A c \in Chan : \A k \in DOMAIN got[c] : \A w \in Words :
    /\ got[c][k][w] <= sent[c]
    /\ k > 1 => got[c][k - 1][w] <= got[c][k][w]

\* The inductive invariant behind it, with unsynchronised sends and any memcpy: a
\* word of a line only grows, and what is received lags behind it.
Forward(c) ==
  /\ \A w \in Words : line[c][w] <= sent[c]
  /\ \A k \in DOMAIN got[c] : \A w \in Words :
       got[c][k][w] <= line[c][w] /\ (k > 1 => got[c][k - 1][w] <= got[c][k][w])
  /\ Reading(c) => \A w \in Words \ todo[c[2]] :
       msg[c[2]][w] <= line[c][w] /\ \A k \in DOMAIN got[c] : got[c][k][w] <= msg[c[2]][w]

ForwardInv == TypeOK /\ (\A p \in Procs : InCall(p)) /\ \A c \in Chan : Forward(c)
=============================================================================
