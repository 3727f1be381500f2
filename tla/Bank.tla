-------------------------------- MODULE Bank --------------------------------
(***************************************************************************)
(* The bank (benchmarks/bank.c, threadbank.c) on top of what ssmp promises: *)
(* its messages travel on the lines of Channels, its barriers are those of *)
(* Rendezvous.  Applications operate on accounts that server processes     *)
(* keep; a deposit is not answered, a withdrawal and a check are.          *)
(***************************************************************************)
EXTENDS ColorBuffer, FiniteSets

CONSTANTS
  N,           \* num_procs
  DslPerCore,  \* dsl_per_core
  Accounts,    \* the accounts of each server
  NumOps,      \* num_ops, per application
  Ops          \* the operations the percentages allow

Procs == 0 .. N - 1
Chan == {c \in Procs \X Procs : c[1] # c[2]}

ASSUME BankAssumption ==
  /\ N \in Nat /\ N > 1
  /\ DslPerCore \in Nat /\ DslPerCore > 1
  /\ Accounts # {}
  /\ NumOps \in Nat
  /\ Ops \subseteq {"DEPOSIT", "WITHDRAW", "CHECK"}

color_dsl(id) == id % DslPerCore = 0
color_app1(id) == ~color_dsl(id)
Dsl == {p \in Procs : color_dsl(p)}
App == Procs \ Dsl
dsl_seq == in_order(Dsl, N)
app_seq == in_order(App, N)      \* the color buffer of every server

\* The participants of the barriers: 1 is the applications', the others everyone's.
Part(b) == IF b = 1 THEN App ELSE Procs

VARIABLES
  accepted, delivered,   \* the channels (see Channels)
  payload,    \* payload[c]: the message last sent on channel c
  entered,    \* entered[b][p]: p's waits on barrier b
  pc,         \* pc[p]: the next ssmp call of p
  idx,        \* idx[p]: operations done, then the loops over the processes
  peer,       \* peer[p]: the process p answers or expects an answer from
  start,      \* start[d]: start_recv_from of server d (from 1)
  reply,      \* reply[d]: the message server d is about to send
  balance,    \* balance[d][a]
  deposited,  \* history: deposit() calls that returned, per server and account
  withdrawn   \* history: withdrawals reported as successful, per server and account

chans == <<accepted, delivered, payload>>
books == <<deposited, withdrawn>>
vars == <<chans, entered, pc, idx, peer, start, reply, balance, books>>

Channel == INSTANCE Channels WITH Words <- {"w"}

Message(op, acc, n, w2) == [op |-> op, acc |-> acc, n |-> n, w2 |-> w2]
NoAccount == CHOOSE a \in Accounts : TRUE
Blank == Message("NONE", NoAccount, 0, 0)

Pending(c) == accepted[c] > Len(delivered[c])
Send(c, m) == Channel!Accept(c) /\ payload' = [payload EXCEPT ![c] = m]
Recv(c) == Channel!Deliver(c) /\ UNCHANGED payload

Zero == [d \in Dsl |-> [a \in Accounts |-> 0]]

\* Everyone has set itself up and waits on barrier 4.
Init == /\ Channel!Init
        /\ payload = [c \in Chan |-> Blank]
        /\ entered = [b \in {0, 1, 3, 4} |-> [p \in Procs |-> IF b = 4 THEN 1 ELSE 0]]
        /\ pc = [p \in Procs |-> "bar4"]
        /\ idx = [p \in Procs |-> 0]
        /\ peer = [p \in Procs |-> p]
        /\ start = [d \in Dsl |-> 1]
        /\ reply = [d \in Dsl |-> Blank]
        /\ balance = Zero
        /\ deposited = Zero
        /\ withdrawn = Zero

Barrier(at) == CASE at = "bar4" -> 4 [] at \in {"bar1a", "bar1b"} -> 1
                 [] at = "bar0" -> 0 [] at = "bar3" -> 3

\* The next call of p; if it is a wait on a barrier, p enters it.
Goto(p, at) ==
  /\ pc' = [pc EXCEPT ![p] = at]
  /\ entered' = IF at \in {"bar4", "bar1a", "bar1b", "bar0", "bar3"}
                THEN [entered EXCEPT ![Barrier(at)][p] = @ + 1] ELSE entered

\* p is on a barrier, and all participants have entered the same wait.
Passes(p, at) ==
  LET b == Barrier(at)
  IN  pc[p] = at /\ \A q \in Part(b) : entered[b][q] >= entered[b][p]

(***************************************************************************)
(* Applications: bank_app.                                                 *)
(***************************************************************************)
Request(p, op, d, a) ==
  /\ pc[p] = "work"
  /\ idx[p] < NumOps
  /\ op \in Ops
  /\ Send(<<p, d>>, Message(op, a, idx[p], 1))
  /\ idx' = [idx EXCEPT ![p] = @ + 1]
  /\ IF op = "DEPOSIT"
     THEN /\ deposited' = [deposited EXCEPT ![d][a] = @ + 1]
          /\ UNCHANGED <<pc, entered, peer>>
     ELSE /\ Goto(p, "reply")
          /\ peer' = [peer EXCEPT ![p] = d]
          /\ UNCHANGED deposited
  /\ UNCHANGED <<start, reply, balance, withdrawn>>

\* ssmp_recv_from(dsl, msg)
Reply(p) ==
  LET c == <<peer[p], p>>
  IN  /\ pc[p] = "reply"
      /\ Recv(c)
      /\ Goto(p, "work")
      /\ peer' = [peer EXCEPT ![p] = p]
      /\ withdrawn' = IF payload[c].op = "WITHDRAW" /\ payload[c].w2 = 1
                      THEN [withdrawn EXCEPT ![peer[p]][payload[c].acc] = @ + 1] ELSE withdrawn
      /\ UNCHANGED <<idx, start, reply, balance, deposited>>

\* Barriers 4 and 1, and the end of the operations, in which nothing is sent.
Proceed(p, next) ==
  /\ p \in App
  /\ \/ Passes(p, "bar4") /\ next = "work" /\ UNCHANGED idx
     \/ pc[p] = "work" /\ idx[p] = NumOps /\ next = "bar1a" /\ idx' = [idx EXCEPT ![p] = 0]
     \/ Passes(p, "bar1a") /\ next = (IF p = 1 THEN "exit" ELSE "bar1b") /\ UNCHANGED idx
     \/ Passes(p, "bar1b") /\ next = "report" /\ UNCHANGED idx
  /\ Goto(p, next)
  /\ UNCHANGED <<chans, peer, start, reply, balance, books>>

\* Application 1 tells the servers, one by one, to stop.
SendExit(p) ==
  /\ pc[p] = "exit"
  /\ Send(<<p, dsl_seq[idx[p] + 1]>>, Message("EXIT", NoAccount, 0, 0))
  /\ IF idx[p] + 1 = Len(dsl_seq)
     THEN Goto(p, "bar1b") /\ idx' = [idx EXCEPT ![p] = 0]
     ELSE idx' = [idx EXCEPT ![p] = @ + 1] /\ UNCHANGED <<pc, entered>>
  /\ UNCHANGED <<peer, start, reply, balance, books>>

\* The throughput, a double, is written over w0 and w1 and sent to process 0;
\* its bits are taken to be none of the operations.
Report(p) ==
  /\ pc[p] = "report"
  /\ Send(<<p, 0>>, Message("THROUGHPUT", NoAccount, 0, 0))
  /\ Goto(p, "bar0")
  /\ UNCHANGED <<idx, peer, start, reply, balance, books>>

(***************************************************************************)
(* Servers: bank_dsl.                                                      *)
(***************************************************************************)
Open(d) == /\ d \in Dsl
           /\ Passes(d, "bar4")
           /\ Goto(d, "serve")
           /\ UNCHANGED <<chans, idx, peer, start, reply, balance, books>>

Scanned(d) == <<app_seq[start[d]], d>>
Rotate(d) == start' = [start EXCEPT ![d] = (@ % Len(app_seq)) + 1]

ScanMiss(d) == /\ pc[d] = "serve"
               /\ ~Pending(Scanned(d))
               /\ Rotate(d)
               /\ UNCHANGED <<chans, entered, pc, idx, peer, reply, balance, books>>

CreditNothing(d, m) == UNCHANGED balance             \* mutation
Credit(d, m) == balance' = [balance EXCEPT ![d][m.acc] = @ + m.w2]

CoveredAlmost(d, m) == balance[d][m.acc] + 1 >= m.w2 \* mutation
Covered(d, m) == balance[d][m.acc] >= m.w2

\* ssmp_recv_color_start, then the switch on msg->w0.
Serve(d) ==
  LET c == Scanned(d)
      m == payload[c]
  IN  /\ pc[d] = "serve"
      /\ Pending(c)
      /\ Recv(c)
      /\ Rotate(d)
      /\ \/ /\ m.op = "DEPOSIT"
            /\ Credit(d, m)
            /\ UNCHANGED <<pc, entered, peer, reply>>
         \/ /\ m.op = "WITHDRAW"
            /\ balance' = [balance EXCEPT ![d][m.acc] = IF Covered(d, m) THEN @ - m.w2 ELSE @]
            /\ reply' = [reply EXCEPT ![d] = [m EXCEPT !.w2 = IF Covered(d, m) THEN 1 ELSE 0]]
            /\ peer' = [peer EXCEPT ![d] = c[1]]
            /\ Goto(d, "answer")
         \/ /\ m.op = "CHECK"
            /\ reply' = [reply EXCEPT ![d] = [m EXCEPT !.w2 = balance[d][m.acc]]]
            /\ peer' = [peer EXCEPT ![d] = c[1]]
            /\ Goto(d, "answer")
            /\ UNCHANGED balance
         \/ /\ m.op \in {"EXIT", "THROUGHPUT"}       \* default: free everything, done = 1
            /\ Goto(d, "bar0")
            /\ UNCHANGED <<peer, reply, balance>>
      /\ UNCHANGED <<idx, books>>

AnswerNext(d) == /\ pc[d] = "answer"                 \* mutation: the scan's next process
                 /\ Send(<<d, Scanned(d)[1]>>, reply[d])
                 /\ Goto(d, "serve")
                 /\ reply' = [reply EXCEPT ![d] = Blank]
                 /\ peer' = [peer EXCEPT ![d] = d]
                 /\ UNCHANGED <<idx, start, balance, books>>

\* ssmp_send(msg->sender, msg)
Answer(d) == /\ pc[d] = "answer"
             /\ Send(<<d, peer[d]>>, reply[d])
             /\ Goto(d, "serve")
             /\ reply' = [reply EXCEPT ![d] = Blank]
             /\ peer' = [peer EXCEPT ![d] = d]
             /\ UNCHANGED <<idx, start, balance, books>>

(***************************************************************************)
(* main, after bank_app or bank_dsl.                                       *)
(***************************************************************************)
Collected(p) == /\ pc[p] = "collect"
                /\ idx[p] < Len(app_seq)
                /\ Recv(<<app_seq[idx[p] + 1], p>>)
                /\ idx' = [idx EXCEPT ![p] = @ + 1]
                /\ UNCHANGED <<entered, pc, peer, start, reply, balance, books>>

Leave(p, next) ==
  /\ \/ Passes(p, "bar0") /\ next = (IF p = 0 THEN "collect" ELSE "bar3")
     \/ pc[p] = "collect" /\ idx[p] = Len(app_seq) /\ next = "bar3"
     \/ Passes(p, "bar3") /\ next = "done"
  /\ Goto(p, next)
  /\ UNCHANGED <<chans, idx, peer, start, reply, balance, books>>

Step(p) ==
  \/ p \in App /\ \E op \in Ops, d \in Dsl, a \in Accounts : Request(p, op, d, a)
  \/ Reply(p)
  \/ \E next \in {"work", "bar1a", "exit", "bar1b", "report"} : Proceed(p, next)
  \/ SendExit(p) \/ Report(p)
  \/ Open(p) \/ (p \in Dsl /\ (ScanMiss(p) \/ Serve(p) \/ Answer(p)))
  \/ Collected(p) \/ \E next \in {"collect", "bar3", "done"} : Leave(p, next)

Next == \E p \in Procs : Step(p)

Spec == Init /\ [][Next]_vars
FairSpec == Spec /\ \A p \in Procs : WF_vars(Step(p))

(***************************************************************************)
(* Properties.                                                             *)
(***************************************************************************)
\* Money on its way: deposits that have not been received, successful
\* withdrawals whose answer has not been received.
InDeposit(c, d, a) == c[2] = d /\ Pending(c) /\ payload[c].op = "DEPOSIT" /\ payload[c].acc = a
Deposits(d, a) == Cardinality({c \in Chan : InDeposit(c, d, a)})
Granted(m, a) == m.op = "WITHDRAW" /\ m.acc = a /\ m.w2 = 1
Withdrawals(d, a) ==
  Cardinality({c \in Chan : c[1] = d /\ Pending(c) /\ Granted(payload[c], a)})
  + (IF Granted(reply[d], a) THEN 1 ELSE 0)

Books(d, a) ==
  balance[d][a] = (deposited[d][a] - Deposits(d, a)) - (withdrawn[d][a] + Withdrawals(d, a))

\* A running server's books agree with what the applications were told: no
\* deposit is dropped or booked twice, no withdrawal is paid twice, whatever
\* the order in which the requests of several applications are served.
Conserved ==
  \A d \in Dsl, a \in Accounts : pc[d] \in {"serve", "answer"} => Books(d, a)

\* No account is overdrawn, although applications withdraw concurrently.
NeverOverdrawn == \A d \in Dsl, a \in Accounts : balance[d][a] >= 0

\* An answer on its way answers the request its receiver waits on.
AnswersMatch ==
  \A c \in Chan : c[1] \in Dsl /\ Pending(c) =>
    /\ pc[c[2]] = "reply" /\ peer[c[2]] = c[1]
    /\ payload[c].n = idx[c[2]] - 1

\* The inductive invariant.  The books are kept from the last wait of the set-up on;
\* a question is in one place at a time: on its way, with the server that is about to
\* answer it, or, as an answer, on its way back.
Messages == [op : {"NONE", "DEPOSIT", "WITHDRAW", "CHECK", "EXIT", "THROUGHPUT"},
             acc : Accounts, n : Nat, w2 : Nat]
TypeOK ==
  /\ accepted \in [Chan -> Nat] /\ delivered \in [Chan -> Seq([{"w"} -> Nat])]
  /\ \A c \in Chan : accepted[c] \in {Len(delivered[c]), Len(delivered[c]) + 1}
  /\ payload \in [Chan -> Messages] /\ reply \in [Dsl -> Messages]
  /\ entered \in [{0, 1, 3, 4} -> [Procs -> Nat]]
  /\ pc \in [Procs -> {"bar4", "work", "reply", "bar1a", "exit", "bar1b", "report", "bar0",
                       "serve", "answer", "collect", "bar3", "done"}]
  /\ idx \in [Procs -> Nat] /\ peer \in [Procs -> Procs]
  /\ start \in [Dsl -> 1 .. Len(app_seq)]
  /\ balance \in [Dsl -> [Accounts -> Int]]
  /\ deposited \in [Dsl -> [Accounts -> Nat]] /\ withdrawn \in [Dsl -> [Accounts -> Nat]]

Roles ==
  \A p \in Procs :
    /\ pc[p] \in {"work", "reply", "bar1a", "exit", "bar1b", "report"} => p \in App
    /\ pc[p] \in {"serve", "answer"} => p \in Dsl
    /\ pc[p] = "collect" => p = 0
    /\ pc[p] = "reply" => peer[p] \in Dsl
    /\ pc[p] = "bar1a" => idx[p] = 0
    /\ pc[p] = "exit" => idx[p] < Len(dsl_seq)

\* p waits for d to answer its question n.
Waits(p, d, n) == pc[p] = "reply" /\ peer[p] = d /\ n = idx[p] - 1
Asked(p, d) == Pending(<<p, d>>) /\ payload[<<p, d>>].op \in {"WITHDRAW", "CHECK"}
Answering(d, p) == pc[d] = "answer" /\ peer[d] = p

Question(p, d) ==
  /\ Asked(p, d) => Waits(p, d, payload[<<p, d>>].n)
  /\ Answering(d, p) => Waits(p, d, reply[d].n)
  /\ ~(Asked(p, d) /\ (Answering(d, p) \/ Pending(<<d, p>>)))
  /\ ~(Answering(d, p) /\ Pending(<<d, p>>))

OneUnit ==
  \A p \in App, d \in Dsl : payload[<<p, d>>].op \in {"DEPOSIT", "WITHDRAW"} => payload[<<p, d>>].w2 = 1
Replies ==
  \A d \in Dsl : IF pc[d] = "answer" THEN peer[d] \in App ELSE reply[d] = Blank

IInv ==
  /\ TypeOK /\ Roles /\ OneUnit /\ Replies /\ AnswersMatch /\ NeverOverdrawn
  /\ \A p \in App, d \in Dsl : Question(p, d)
  /\ \A d \in Dsl, a \in Accounts : pc[d] \in {"bar4", "serve", "answer"} => Books(d, a)

\* "Total throughput" is printed and everyone leaves (main, mainthread).
Finishes == <>(\A p \in Procs : pc[p] = "done")
=============================================================================
