------------------------------- MODULE Tilera -------------------------------
(***************************************************************************)
(* ssmp on Tilera (arch/tile, platform/tilera): the processors' message    *)
(* network and the barriers of the tmc library carry out every call.       *)
(*                                                                         *)
(* The network is external: every cpu has one queue of limited size for    *)
(* the packets of all senders, a sender waits until the queue has room,    *)
(* packets of one sender stay in order, and a packet for a cpu whose       *)
(* process has not attached to the network, or has closed it, is lost.     *)
(* A tmc barrier lets everyone go when the number of processes it was      *)
(* initialised with wait in it.                                            *)
(*                                                                         *)
(* As in the programs, a process binds itself to its cpu, calls            *)
(* ssmp_mem_init, waits on barrier 0, then calls anything, and waits on a  *)
(* barrier of everyone before ssmp_term.                                   *)
(***************************************************************************)
EXTENDS Integers, Sequences, FiniteSets, FiniteSetsExt, Functions

CONSTANTS
  N,          \* num_procs
  Cpus,       \* the cpus the system has left to the program
  Colors,     \* the color functions that barrier 1 may be initialised with
  Room,       \* packets a cpu's queue holds
  MaxSent,    \* bound: messages sent
  MaxRounds   \* bound: waits of a process on barrier 1

Procs == 0 .. N - 1
Barriers == 0 .. 2                 \* 2: the one before ssmp_term

ASSUME TileraAssumption ==
  /\ N \in Nat \ {0}
  /\ Cpus \subseteq Nat /\ IsFiniteSet(Cpus) /\ Cardinality(Cpus) >= N
  /\ Colors \subseteq [Procs -> Nat]
  /\ Room \in Nat \ {0}

VARIABLES
  color,     \* the color function of barrier 1
  expected,  \* per barrier: what tmc_sync_barrier_init was told
  count,     \* per barrier: how many wait in it
  cpu,       \* the cpu a process is bound to
  active,    \* cpus attached to the network
  udn_header,\* udn_header[p][r]: where p sends what is for r
  queue,     \* per cpu: packets that have arrived
  sender,    \* msg->sender, in the message a process sends from and receives into
  to,        \* whom it is sending to
  in,        \* the barrier it waits in
  pc,
  sent, got, \* history: messages sent to q; what p received under q's name
  entered, left \* history: waits per barrier and participant

barriers == <<color, expected, count>>
network  == <<active, queue>>
tables   == <<cpu, udn_header>>
place    == <<sender, to, in>>
history  == <<sent, got>>
waits    == <<entered, left>>
vars     == <<barriers, network, tables, pc, place, history, waits>>

Nth(k) == CHOOSE c \in Cpus : Cardinality({d \in Cpus : d < c}) = k   \* tmc_cpus_find_nth_cpu
id_to_core == [r \in Procs |-> r]

Goto(p, at) == pc' = [pc EXCEPT ![p] = at]

(***************************************************************************)
(* Before the fork: ssmp_init, and ssmp_barrier_init of barrier 1.         *)
(***************************************************************************)
Participants(b) == IF b = 1 THEN {n \in Procs : color[n] # 0} ELSE Procs

NumProcsButOne == N - 1                              \* mutation: not the caller
NumProcs == N
NumPartSum == FoldFunction(+, 0, color)              \* mutation: the sum of the colors
NumPart == Cardinality({n \in Procs : color[n] # 0})

Init == /\ color \in Colors
        /\ expected = [b \in Barriers |-> IF b = 1 THEN NumPart ELSE NumProcs]
        /\ count = [b \in Barriers |-> 0]
        /\ cpu = [p \in Procs |-> -1]
        /\ active = {}
        /\ udn_header = [p \in Procs |-> << >>]
        /\ queue = [c \in Cpus |-> << >>]
        /\ sender = [p \in Procs |-> 0]
        /\ to = [p \in Procs |-> 0]
        /\ in = [p \in Procs |-> 0]
        /\ pc = [p \in Procs |-> "forked"]
        /\ sent = [p \in Procs |-> [q \in Procs |-> 0]]
        /\ got = [p \in Procs |-> [q \in Procs |-> << >>]]
        /\ entered = [b \in Barriers |-> [p \in Participants(b) |-> 0]]
        /\ left = entered

(***************************************************************************)
(* set_cpu, ssmp_mem_init, ssmp_term.                                      *)
(***************************************************************************)
set_cpu(p) ==
  /\ pc[p] = "forked"
  /\ cpu' = [cpu EXCEPT ![p] = Nth(id_to_core[p])]
  /\ Goto(p, "bound")
  /\ UNCHANGED <<barriers, network, udn_header, place, history, waits>>

Headers == [r \in Procs |-> Nth(id_to_core[r])]

ssmp_mem_init_platf(p) ==
  /\ pc[p] = "bound"
  /\ active' = active \cup {cpu[p]}
  /\ udn_header' = [udn_header EXCEPT ![p] = Headers]
  /\ Goto(p, "start")
  /\ UNCHANGED <<barriers, queue, cpu, place, history, waits>>

ssmp_term_platf(p) ==
  /\ pc[p] = "end"
  /\ active' = active \ {cpu[p]}
  /\ udn_header' = [udn_header EXCEPT ![p] = << >>]
  /\ Goto(p, "ended")
  /\ UNCHANGED <<barriers, queue, cpu, place, history, waits>>

(***************************************************************************)
(* ssmp_barrier_wait: whoever calls it is counted.                         *)
(***************************************************************************)
Waiting(q, b) == pc[q] = "wait" /\ in[q] = b

ssmp_barrier_wait_platf(p, b) ==
  LET last == count[b] + 1 = expected[b]
  IN  /\ count' = [count EXCEPT ![b] = IF last THEN 0 ELSE @ + 1]
      /\ pc' = [q \in Procs |-> IF last /\ (q = p \/ Waiting(q, b)) THEN "leave"
                                ELSE IF q = p THEN "wait" ELSE pc[q]]
      /\ in' = [in EXCEPT ![p] = b]
      /\ entered' = [entered EXCEPT ![b][p] = @ + 1]
      /\ UNCHANGED <<color, expected, network, tables, sender, to, history, left>>

Start(p) == pc[p] = "start" /\ ssmp_barrier_wait_platf(p, 0)
Meet(p)  == /\ pc[p] = "run"
            /\ p \in Participants(1)
            /\ entered[1][p] < MaxRounds
            /\ ssmp_barrier_wait_platf(p, 1)
EndAlone(p) ==                                       \* mutation: no barrier before ssmp_term
  /\ pc[p] = "run"
  /\ Goto(p, "end")
  /\ UNCHANGED <<barriers, network, tables, place, history, waits>>
End(p)   == pc[p] = "run" /\ ssmp_barrier_wait_platf(p, 2)

Leave(p) ==
  /\ pc[p] = "leave"
  /\ left' = [left EXCEPT ![in[p]][p] = @ + 1]
  /\ Goto(p, IF in[p] = 2 THEN "end" ELSE "run")
  /\ in' = [in EXCEPT ![p] = 0]
  /\ UNCHANGED <<barriers, network, tables, sender, to, history, entered>>

(***************************************************************************)
(* Messages.                                                               *)
(***************************************************************************)
MaySend == MapThenSumSet(LAMBDA c : sent[c[1]][c[2]], Procs \X Procs)
           + Cardinality({p \in Procs : pc[p] \in {"send", "broadcast"}}) < MaxSent

Call(p, f, q) ==
  /\ pc[p] = "run"
  /\ to' = [to EXCEPT ![p] = q]
  /\ Goto(p, f)
  /\ UNCHANGED <<barriers, network, tables, sender, in, history, waits>>

CallSend(p)      == MaySend /\ \E q \in Procs \ {p} : Call(p, "send", q)
CallBroadcast(p) == MaySend /\ Call(p, "broadcast", 0)
CallRecv(p)      == Call(p, "recv", 0)

SignedNot(p) == sender                               \* mutation: whoever sent what came last
Signed(p) == [sender EXCEPT ![p] = p]

\* ssmp_send and ssmp_send_no_sync: tmc_udn_send_buffer.
ssmp_send_platf(p, q) ==
  LET c == udn_header[p][q]
      m == [sender |-> sender'[p], body |-> sent[p][q] + 1]
  IN  /\ sender' = Signed(p)
      /\ Len(queue[c]) < Room
      /\ queue' = IF c \in active THEN [queue EXCEPT ![c] = Append(@, m)] ELSE queue
      /\ sent' = [sent EXCEPT ![p][q] = @ + 1]
      /\ UNCHANGED <<barriers, active, tables, in, got, waits>>

Send(p) ==
  /\ pc[p] = "send"
  /\ ssmp_send_platf(p, to[p])
  /\ to' = [to EXCEPT ![p] = 0]
  /\ Goto(p, "run")

\* for (core = 0; core < ssmp_num_ues_; core++)
Broadcast(p) ==
  /\ pc[p] = "broadcast"
  /\ IF to[p] = p THEN UNCHANGED <<barriers, network, tables, sender, in, history, waits>>
     ELSE ssmp_send_platf(p, to[p])
  /\ to' = [to EXCEPT ![p] = (@ + 1) % N]
  /\ Goto(p, IF to[p] = N - 1 THEN "run" ELSE "broadcast")

\* Every receive is tmc_udn0_receive_buffer: the next packet, whoever it is from.
Receive(p) ==
  /\ pc[p] = "recv"
  /\ queue[cpu[p]] # << >>
  /\ LET m == Head(queue[cpu[p]])
     IN  /\ sender' = [sender EXCEPT ![p] = m.sender]
         /\ got' = [got EXCEPT ![p][m.sender] = Append(@, m.body)]
  /\ queue' = [queue EXCEPT ![cpu[p]] = Tail(@)]
  /\ Goto(p, "run")
  /\ UNCHANGED <<barriers, active, tables, to, in, sent, waits>>

Step(p) == \/ set_cpu(p) \/ ssmp_mem_init_platf(p) \/ Start(p) \/ Leave(p) \/ ssmp_term_platf(p)
           \/ Send(p) \/ Broadcast(p) \/ Receive(p)

Next == \E p \in Procs : Step(p) \/ CallSend(p) \/ CallBroadcast(p) \/ CallRecv(p) \/ Meet(p) \/ End(p)

Spec == Init /\ [][Next]_vars
FairSpec == Spec /\ \A p \in Procs : WF_vars(Step(p))

(***************************************************************************)
(* Properties.                                                             *)
(***************************************************************************)
Packets == [sender : Procs, body : Nat]
Places == {"forked", "bound", "start", "run", "send", "broadcast", "recv",
           "wait", "leave", "end", "ended"}

TypeOK == /\ color \in [Procs -> Nat]
          /\ expected \in [Barriers -> Nat]
          /\ count \in [Barriers -> Nat]
          /\ cpu \in [Procs -> Cpus \cup {-1}]
          /\ active \subseteq Cpus
          /\ udn_header \in [Procs -> [Procs -> Cpus] \cup {<< >>}]
          /\ queue \in [Cpus -> Seq(Packets)]
          /\ sender \in [Procs -> Procs]
          /\ to \in [Procs -> Procs]
          /\ in \in [Procs -> Barriers]
          /\ pc \in [Procs -> Places]
          /\ sent \in [Procs -> [Procs -> Nat]]
          /\ got \in [Procs -> [Procs -> Seq(Nat)]]
          /\ DOMAIN entered = Barriers /\ DOMAIN left = Barriers
          /\ \A b \in Barriers : /\ entered[b] \in [Participants(b) -> Nat]
                                 /\ left[b] \in [Participants(b) -> Nat]

\* What q has received under p's name, and what waits in s under p's name, is what
\* p has sent to q: the packets 1, 2, ... in this order, each once.
Accounts(s, p, q) ==
  LET n == Len(got[q][p])
  IN  /\ got[q][p] = [k \in 1 .. n |-> k]
      /\ n <= sent[p][q]
      /\ \A k \in n + 1 .. sent[p][q] : \E i \in DOMAIN s : s[i] = [sender |-> p, body |-> k]
      /\ \A i \in DOMAIN s : s[i].sender = p => s[i].body \in n + 1 .. sent[p][q]
      /\ \A i, j \in DOMAIN s :
            i < j /\ s[i].sender = p /\ s[j].sender = p => s[i].body < s[j].body

\* Everything sent to q is received or waits at q's cpu, once, in order, under its
\* sender's name, however the queue is shared, and although processes start and end
\* at different times and sign messages in buffers that others have signed before.
Pending(q) == IF cpu[q] = -1 THEN << >> ELSE queue[cpu[q]]
Delivered == \A p, q \in Procs : Accounts(Pending(q), p, q)

\* Nobody leaves its k-th wait on a barrier before every participant entered its
\* k-th wait on it, whatever values the color function has: ssmp_barrier_wait
\* counts whoever calls it, so this rests on what the barriers were told to expect.
Together == \A b \in Barriers : \A p, q \in Participants(b) : left[b][p] <= entered[b][q]

\* When all participants of a barrier have entered their k-th wait, all leave it.
Released ==
  \A b \in Barriers : \A k \in 1 .. MaxRounds :
    (\A p \in Participants(b) : entered[b][p] >= k) ~> (\A p \in Participants(b) : left[b][p] >= k)

(***************************************************************************)
(* The inductive invariant.                                                *)
(***************************************************************************)
In(p, b) == pc[p] \in {"wait", "leave"} /\ in[p] = b

\* The waits on b that p has been let out of: the same for all participants.
Passed(b, p) == entered[b][p] - IF Waiting(p, b) THEN 1 ELSE 0

Counted(b) ==
  /\ expected[b] = Cardinality(Participants(b))
  /\ count[b] = Cardinality({p \in Procs : Waiting(p, b)})
  /\ \A p \in Participants(b) : entered[b][p] = left[b][p] + IF In(p, b) THEN 1 ELSE 0
  /\ \A p, q \in Participants(b) : Passed(b, p) = Passed(b, q)

\* Everyone waits once on barrier 0, first, and once on barrier 2, last.
Phased(p) ==
  /\ \A b \in Barriers : In(p, b) => p \in Participants(b)
  /\ entered[0][p] = IF pc[p] \in {"forked", "bound", "start"} THEN 0 ELSE 1
  /\ entered[2][p] = IF pc[p] \in {"end", "ended"} \/ In(p, 2) THEN 1 ELSE 0

\* Process p has its cpu, is attached to the network, and knows where all others are.
Attached(p) == pc[p] \notin {"forked", "bound", "ended"}
Bound(p) ==
  /\ cpu[p] = IF pc[p] = "forked" THEN -1 ELSE Nth(p)
  /\ Nth(p) \in active <=> Attached(p)
  /\ Attached(p) => \A q \in Procs : udn_header[p][q] = Nth(q)
  /\ pc[p] = "forked" => queue[Nth(p)] = << >>

IInv == /\ TypeOK
        /\ \A b \in Barriers : Counted(b)
        /\ \A p \in Procs : Phased(p) /\ Bound(p)
        /\ \A p, q \in Procs : Accounts(queue[Nth(q)], p, q)
=============================================================================
