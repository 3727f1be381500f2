---------------------------- MODULE ClientServer ----------------------------
(***************************************************************************)
(* The client/server benchmark (benchmarks/client_server.c, the same with  *)
(* threads in threadclient_server.c) on the lines of Channels and the      *)
(* barriers of Rendezvous.  A client numbers its messages downwards and    *)
(* spreads them over the servers; a server stops, without being told, when *)
(* it has counted one low number per client.                               *)
(***************************************************************************)
EXTENDS ColorBuffer, FiniteSets

CONSTANTS
  N,           \* num_procs
  DslPerCore,  \* dsl_per_core: every DslPerCore-th process is a server
  NumMsgs,     \* num_msgs, per client
  Builds       \* the sets of macros the program is built with: ROUNDTRIP (every
               \* message is sent back), NO_SYNC_SRV (with send_no_sync)

Procs == 0 .. N - 1
Chan == {c \in Procs \X Procs : c[1] # c[2]}

ASSUME ClientServerAssumption ==
  /\ N \in Nat /\ N > 1
  /\ DslPerCore \in Nat /\ DslPerCore > 1
  /\ NumMsgs \in Nat
  /\ Builds \subseteq SUBSET {"ROUNDTRIP", "NO_SYNC_SRV"}

color_dsl(id) == id % DslPerCore = 0
color_app1(id) == ~color_dsl(id)
Dsl == {p \in Procs : color_dsl(p)}
App == Procs \ Dsl
dsl_seq == in_order(Dsl, N)
app_seq == in_order(App, N)      \* the color buffer of every server

VARIABLES
  defined,    \* the macros this program is built with; they do not change
  accepted, delivered,  \* the channels (see Channels)
  w0,         \* w0[c]: word w0 of the message last sent on channel c
  pc,         \* pc[p]: the next ssmp call of p
  to, to_idx, \* the server a client sends to next, and its place in dsl_seq
  left,       \* left[p]: a client's num_msgs1, a server's num_zeros
  start,      \* start[d]: start_recv_from of server d (from 1)
  msg,        \* msg[p]: word w0 of p's message buffer
  peer,       \* peer[d]: msg->sender in server d
  co,         \* co[p]: the loop over the processes that report
  waits       \* waits[p]: waits on barrier 0 that p has entered

chans == <<accepted, delivered, w0>>
vars == <<defined, chans, pc, to, to_idx, left, start, msg, peer, co, waits>>

Channel == INSTANCE Channels WITH Words <- {"w"}

Pending(c) == accepted[c] > Len(delivered[c])
Send(c, m) == Channel!Accept(c) /\ w0' = [w0 EXCEPT ![c] = m]
Recv(c)    == Channel!Deliver(c) /\ UNCHANGED w0

\* ssmp_send_no_sync: the line is written whatever it holds; a pending message
\* is overwritten (the receiver then gets the new one once).
SendNoSync(c, m) ==
  /\ accepted' = IF Pending(c) THEN accepted ELSE [accepted EXCEPT ![c] = @ + 1]
  /\ w0' = [w0 EXCEPT ![c] = m]
  /\ UNCHANGED delivered

Init == /\ defined \in Builds
        /\ Channel!Init
        /\ w0 = [c \in Chan |-> -1]
        /\ pc = [p \in Procs |-> "open"]
        /\ to = [p \in App |-> 0]
        /\ to_idx = [p \in App |-> 1]
        /\ left = [p \in Procs |-> IF p \in App THEN NumMsgs ELSE Len(app_seq)]
        /\ start = [d \in Dsl |-> 1]
        /\ msg = [p \in Procs |-> -1]
        /\ peer = [d \in Dsl |-> d]
        /\ co = [p \in Procs |-> 0]
        /\ waits = [p \in Procs |-> 1]

Goto(p, at) == pc' = [pc EXCEPT ![p] = at]

\* Everyone has entered the wait on barrier 0 that p is in.
Passes(p) == \A q \in Procs : waits[q] >= waits[p]
EnterWait(p) == waits' = [waits EXCEPT ![p] = @ + 1]

\* Barrier 0, twice, before the messages.
Open(p) == /\ pc[p] \in {"open", "ready"}
           /\ Passes(p)
           /\ IF pc[p] = "open"
              THEN EnterWait(p) /\ Goto(p, "ready")
              ELSE Goto(p, IF p \in Dsl THEN "serve" ELSE "request") /\ UNCHANGED waits
           /\ UNCHANGED <<chans, to, to_idx, left, start, msg, peer, co>>

(***************************************************************************)
(* Clients.                                                                *)
(***************************************************************************)
\* to = dsl_seq[to_idx++], back to 0 after the last: server 0 gets the first
\* message and, as dsl_seq[0], the second as well.
NextServerStuck(p) == /\ to' = [to EXCEPT ![p] = dsl_seq[to_idx[p]]]   \* mutation
                      /\ to_idx' = [to_idx EXCEPT ![p] = IF @ = Len(dsl_seq) THEN @ ELSE @ + 1]
NextServer(p) == /\ to' = [to EXCEPT ![p] = dsl_seq[to_idx[p]]]
                 /\ to_idx' = [to_idx EXCEPT ![p] = IF @ = Len(dsl_seq) THEN 1 ELSE @ + 1]

\* while (num_msgs1--) { msg->w0 = num_msgs1; ssmp_send(to, msg); ...
Request(p) ==
  /\ pc[p] = "request"
  /\ left[p] > 0
  /\ Send(<<p, to[p]>>, left[p] - 1)
  /\ left' = [left EXCEPT ![p] = @ - 1]
  /\ msg' = [msg EXCEPT ![p] = left[p] - 1]
  /\ IF "ROUNDTRIP" \in defined
     THEN Goto(p, "reply") /\ UNCHANGED <<to, to_idx>>
     ELSE NextServer(p) /\ UNCHANGED pc
  /\ UNCHANGED <<start, peer, co, waits>>

\* ssmp_recv_from(to, msg)
Reply(p) ==
  /\ pc[p] = "reply"
  /\ Recv(<<to[p], p>>)
  /\ msg' = [msg EXCEPT ![p] = w0[<<to[p], p>>]]
  /\ NextServer(p)
  /\ Goto(p, "request")
  /\ UNCHANGED <<left, start, peer, co, waits>>

ClientDone(p) == /\ pc[p] = "request"
                 /\ left[p] = 0
                 /\ Goto(p, "report")
                 /\ UNCHANGED <<chans, to, to_idx, left, start, msg, peer, co, waits>>

(***************************************************************************)
(* Servers.                                                                *)
(***************************************************************************)
Scanned(d) == <<app_seq[start[d]], d>>
Rotate(d) == start' = [start EXCEPT ![d] = (@ % Len(app_seq)) + 1]

ScanMiss(d) == /\ pc[d] = "serve"
               /\ ~Pending(Scanned(d))
               /\ Rotate(d)
               /\ UNCHANGED <<chans, pc, to, to_idx, left, msg, peer, co, waits>>

\* if (msg->w0 < lim_zeros) if (--num_zeros == 0) break
LowAtMost(m) == m <= Len(dsl_seq)                    \* mutation: <= lim_zeros
Low(m) == m < Len(dsl_seq)
Count(d, m) ==
  /\ left' = [left EXCEPT ![d] = IF Low(m) THEN @ - 1 ELSE @]
  /\ Goto(d, IF Low(m) /\ left[d] = 1 THEN "report" ELSE "serve")

\* ssmp_recv_color_start(cbuf, msg), and what follows it without an answer.
Serve(d) ==
  /\ pc[d] = "serve"
  /\ Pending(Scanned(d))
  /\ Recv(Scanned(d))
  /\ Rotate(d)
  /\ msg' = [msg EXCEPT ![d] = w0[Scanned(d)]]
  /\ IF "ROUNDTRIP" \in defined
     THEN /\ peer' = [peer EXCEPT ![d] = Scanned(d)[1]]
          /\ Goto(d, "answer")
          /\ UNCHANGED left
     ELSE Count(d, w0[Scanned(d)]) /\ UNCHANGED peer
  /\ UNCHANGED <<to, to_idx, co, waits>>

\* ssmp_send(msg->sender, msg), or ssmp_send_no_sync.
AnsweredNext(d) == Scanned(d)[1]                     \* mutation: the scan has moved on
Answered(d) == peer[d]
Answer(d) ==
  /\ pc[d] = "answer"
  /\ IF "NO_SYNC_SRV" \in defined
     THEN SendNoSync(<<d, Answered(d)>>, msg[d])
     ELSE Send(<<d, Answered(d)>>, msg[d])
  /\ Count(d, msg[d])
  /\ peer' = [peer EXCEPT ![d] = d]
  /\ UNCHANGED <<to, to_idx, start, msg, co, waits>>

(***************************************************************************)
(* The report: one process at a time, with barrier 0 after each.           *)
(***************************************************************************)
Report(p) ==
  /\ pc[p] = "report"
  /\ co[p] < N
  /\ \/ co[p] = p /\ p \in App /\ Send(<<p, 0>>, -1)        \* the throughput
     \/ co[p] # p /\ p = 0 /\ co[p] \in App /\ Recv(<<co[p], p>>)
     \/ (IF co[p] = p THEN p \in Dsl ELSE ~(p = 0 /\ co[p] \in App)) /\ UNCHANGED chans
  /\ EnterWait(p)
  /\ Goto(p, "turn")
  /\ UNCHANGED <<to, to_idx, left, start, msg, peer, co>>

Turn(p) == /\ pc[p] = "turn"
           /\ Passes(p)
           /\ co' = [co EXCEPT ![p] = @ + 1]
           /\ Goto(p, "report")
           /\ UNCHANGED <<chans, to, to_idx, left, start, msg, peer, waits>>

\* The last wait on barrier 0 comes after the loop.
Close(p) == /\ pc[p] = "report"
            /\ co[p] = N
            /\ EnterWait(p)
            /\ Goto(p, "closing")
            /\ UNCHANGED <<chans, to, to_idx, left, start, msg, peer, co>>

Exit(p) == /\ pc[p] = "closing"
           /\ Passes(p)
           /\ Goto(p, "done")
           /\ UNCHANGED <<chans, to, to_idx, left, start, msg, peer, co, waits>>

Step(p) == /\ UNCHANGED defined
           /\ \/ Open(p)
              \/ (p \in App /\ (Request(p) \/ Reply(p) \/ ClientDone(p)))
              \/ (p \in Dsl /\ (ScanMiss(p) \/ Serve(p) \/ Answer(p)))
              \/ Report(p) \/ Turn(p) \/ Close(p) \/ Exit(p)

Next == \E p \in Procs : Step(p)

Spec == Init /\ [][Next]_vars
FairSpec == Spec /\ \A p \in Procs : WF_vars(Step(p))

(***************************************************************************)
(* Properties.                                                             *)
(***************************************************************************)
\* A client gets back the number it sent ("Ping-pong failed" is not printed),
\* although a server serves several clients from one message buffer.
PingPong == \A p \in App : pc[p] = "request" => msg[p] \in {left[p], -1}

\* A server that has stopped by its own count leaves no client's message unserved,
\* and one that has not never finds the throughput where it polls: the counts of
\* servers and clients agree although nobody announces the end.
NothingUnserved ==
  \A d \in Dsl, p \in App : Pending(<<p, d>>) =>
    (w0[<<p, d>>] = -1 <=> pc[d] \notin {"open", "ready", "serve", "answer"})

\* The line to the client is free whenever a server answers, so that an answer
\* sent without looking (NO_SYNC_SRV) overwrites nothing.
AnswerIsFree == \A d \in Dsl : pc[d] = "answer" => ~Pending(<<d, peer[d]>>)

(***************************************************************************)
(* The inductive invariant behind them.  Trips is about the questions and  *)
(* their answers, for any number of messages; Counts about the low numbers *)
(* and who has counted them, for more messages than servers.               *)
(***************************************************************************)
Working == {"open", "ready", "request", "reply", "serve", "answer"}

TypeOK ==
  /\ defined \in Builds
  /\ accepted \in [Chan -> Nat] /\ delivered \in [Chan -> Seq([{"w"} -> Nat])]
  /\ \A c \in Chan : accepted[c] \in {Len(delivered[c]), Len(delivered[c]) + 1}
  /\ w0 \in [Chan -> Int]
  /\ pc \in [Procs -> Working \cup {"report", "turn", "closing", "done"}]
  /\ to \in [App -> Dsl] /\ to_idx \in [App -> 1 .. Len(dsl_seq)]
  /\ left \in [Procs -> Nat] /\ start \in [Dsl -> 1 .. Len(app_seq)]
  /\ msg \in [Procs -> Int] /\ peer \in [Dsl -> Procs]
  /\ co \in [Procs -> Nat] /\ waits \in [Procs -> Nat]

\* Nobody reports before everyone has come to the first report.
Phase(p) ==
  /\ pc[p] \in {"request", "reply"} => p \in App
  /\ pc[p] \in {"serve", "answer"} => p \in Dsl
  /\ pc[p] \in {"reply", "answer"} => "ROUNDTRIP" \in defined
  /\ p \in Dsl => (left[p] > 0 <=> pc[p] \in Working) /\ (pc[p] = "answer" => peer[p] \in App)
  /\ pc[p] = "open" => waits[p] = 1
  /\ pc[p] # "open" => waits[p] >= 2
  /\ pc[p] \in Working => waits[p] <= 2
  /\ pc[p] = "turn" => waits[p] >= 3
  /\ co[p] > 0 => \A q \in Procs : waits[q] >= 3

\* p waits for d to send m back.
Expects(p, d, m) == pc[p] = "reply" /\ to[p] = d /\ left[p] = m
Asked(p, d) == Pending(<<p, d>>) /\ w0[<<p, d>>] # -1
Answering(d, p) == pc[d] = "answer" /\ peer[d] = p

Question(p, d) ==
  /\ Pending(<<p, d>>) /\ w0[<<p, d>>] = -1 => \A q \in Procs : waits[q] >= 3
  /\ Asked(p, d) /\ "ROUNDTRIP" \in defined => Expects(p, d, w0[<<p, d>>])
  /\ Answering(d, p) => Expects(p, d, msg[d])
  /\ Pending(<<d, p>>) => Expects(p, d, w0[<<d, p>>])
  /\ ~(Asked(p, d) /\ (Answering(d, p) \/ Pending(<<d, p>>)))
  /\ ~(Answering(d, p) /\ Pending(<<d, p>>))

Trips ==
  /\ TypeOK
  /\ \A p \in Procs : Phase(p)
  /\ \A p \in App : pc[p] \in {"open", "ready", "request"} => msg[p] \in {left[p], -1}
  /\ \A p \in App, d \in Dsl : Question(p, d)

\* The servers a client still has a low number for: as many, from the next one on,
\* as it has messages left.
Before(i) == IF i = 1 THEN Len(dsl_seq) ELSE i - 1
Position(p) == IF pc[p] = "reply" THEN to_idx[p] ELSE Before(to_idx[p])
Distance(i, k) == IF k >= i THEN k - i ELSE (k - i) + Len(dsl_seq)
Still(p, d) == \E k \in 1 .. Len(dsl_seq) : dsl_seq[k] = d /\ Distance(Position(p), k) < left[p]

\* d has not counted the low number of its client p, and the clients of which it has not.
Awaits(d, p) == Still(p, d) \/ Asked(p, d) \/ Answering(d, p)
Uncounted(d) == {p \in App : Awaits(d, p)}

\* The server a client sends to is the one before to_idx; only before its first
\* message that may be another, and then every server is still to come.
InTurn(p) ==
  /\ left[p] <= NumMsgs
  /\ pc[p] # "reply" => to[p] = dsl_seq[Before(to_idx[p])] \/ left[p] = NumMsgs

\* A number is low when it is its client's last for that server.
LastIsLow(p, d) ==
  /\ Asked(p, d) => (Low(w0[<<p, d>>]) <=> ~Still(p, d))
  /\ Answering(d, p) => (Low(msg[d]) <=> ~Still(p, d))

Counts ==
  /\ \A p \in App : InTurn(p)
  /\ \A p \in App, d \in Dsl : LastIsLow(p, d)
  /\ \A d \in Dsl : left[d] = Cardinality(Uncounted(d))

IInv == Trips /\ Counts

\* More messages than servers: a client's first two go to server 0, and with fewer
\* left than servers it would send server 0 two low numbers and others none.
Enough == NumMsgs > Len(dsl_seq)

\* All servers and clients reach the end of main.
Finishes == Enough => <>(\A p \in Procs : pc[p] = "done")
=============================================================================
