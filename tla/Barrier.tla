------------------------------ MODULE Barrier ------------------------------
(***************************************************************************)
(* One barrier of ssmp (arch/x86): a ticket counter and a flag, reused     *)
(* round after round.  The first ticket loop fills the barrier, the last   *)
(* ticket raises the flag, the flag lets everyone out, and the last one    *)
(* out lowers it for the next round.                                       *)
(***************************************************************************)
EXTENDS Integers, FiniteSets

CONSTANTS
  N,          \* ssmp_num_ues_
  HasColor,   \* ssmp_barrier_init was given a color function
  Color,      \* Color[p]: what that function returns for p
  MaxRounds   \* bound: waits per process

Procs == 0 .. N - 1

ASSUME BarrierAssumption ==
  /\ N \in Nat
  /\ HasColor \in BOOLEAN
  /\ Color \in [Procs -> Nat]
  /\ MaxRounds \in Nat

\* ssmp_barrier_init_platf stores 64 one bits, whatever bitmap it was given.
StoredBitmap == 0 .. 63

\* What process `from` adds to num_part, and the sum over all of them.
Weight(from) == IF HasColor THEN Color[from] ELSE IF from \in StoredBitmap THEN 1 ELSE 0
NumPartButLast ==                                   \* mutation: from < ssmp_num_ues_ - 1
  LET num_part[k \in 0 .. N - 1] == IF k = 0 THEN 0 ELSE num_part[k - 1] + Weight(k - 1)
  IN  num_part[N - 1]
NumPart ==
  LET num_part[k \in 0 .. N] == IF k = 0 THEN 0 ELSE num_part[k - 1] + Weight(k - 1)
  IN  num_part[N]

Participants == {p \in Procs : Weight(p) # 0}

VARIABLES
  ticket,    \* b->ticket
  cleared,   \* b->cleared
  pc,        \* pc[p]: "out" of the call, or the statement p is at
  entered,   \* history: waits entered, per participant
  left,      \* history: waits left, per participant
  round      \* history: times the flag was lowered

vars == <<ticket, cleared, pc, entered, left, round>>

Init == /\ ticket = 0
        /\ cleared = 0
        /\ pc = [p \in Procs |-> "out"]
        /\ entered = [p \in Participants |-> 0]
        /\ left = [p \in Participants |-> 0]
        /\ round = 0

Goto(p, at) == pc' = [pc EXCEPT ![p] = at]

\* A process that does not participate returns from the counting loop, and
\* has done nothing: only participants have a step.
Call(p) == /\ pc[p] = "out"
           /\ entered[p] < MaxRounds
           /\ Goto(p, "enter")
           /\ entered' = [entered EXCEPT ![p] = @ + 1]
           /\ UNCHANGED <<ticket, cleared, left, round>>

\* while (b->cleared == 1)
PassClosedNow(p) == /\ pc[p] = "enter"              \* mutation: no first loop
                    /\ Goto(p, "arrive")
                    /\ UNCHANGED <<ticket, cleared, entered, left, round>>
PassClosed(p) == /\ pc[p] = "enter"
                 /\ cleared = 0
                 /\ Goto(p, "arrive")
                 /\ UNCHANGED <<ticket, cleared, entered, left, round>>

\* my_ticket = __sync_add_and_fetch(&b->ticket, 1)
TakeTicket(p) == /\ pc[p] = "arrive"
                 /\ ticket' = ticket + 1
                 /\ Goto(p, IF ticket' = NumPart THEN "clear" ELSE "wait")
                 /\ UNCHANGED <<cleared, entered, left, round>>

RaiseFlag(p) == /\ pc[p] = "clear"
                /\ cleared' = 1
                /\ Goto(p, "wait")
                /\ UNCHANGED <<ticket, entered, left, round>>

\* while (b->cleared == 0)
PassOpen(p) == /\ pc[p] = "wait"
               /\ cleared = 1
               /\ Goto(p, "leave")
               /\ UNCHANGED <<ticket, cleared, entered, left, round>>

DropTicketNoReset(p) == /\ pc[p] = "leave"          \* mutation: the flag stays up
                        /\ ticket' = ticket - 1
                        /\ Goto(p, "out")
                        /\ left' = [left EXCEPT ![p] = @ + 1]
                        /\ UNCHANGED <<cleared, entered, round>>
DropTicketFirst(p) == /\ pc[p] = "leave"            \* mutation: the first one out lowers the flag
                      /\ ticket' = ticket - 1
                      /\ IF ticket' = NumPart - 1
                         THEN Goto(p, "reset") /\ UNCHANGED left
                         ELSE Goto(p, "out") /\ left' = [left EXCEPT ![p] = @ + 1]
                      /\ UNCHANGED <<cleared, entered, round>>

\* my_ticket = __sync_sub_and_fetch(&b->ticket, 1)
DropTicket(p) == /\ pc[p] = "leave"
                 /\ ticket' = ticket - 1
                 /\ IF ticket' = 0
                    THEN Goto(p, "reset") /\ UNCHANGED left
                    ELSE Goto(p, "out") /\ left' = [left EXCEPT ![p] = @ + 1]
                 /\ UNCHANGED <<cleared, entered, round>>

LowerFlag(p) == /\ pc[p] = "reset"
                /\ cleared' = 0
                /\ Goto(p, "out")
                /\ left' = [left EXCEPT ![p] = @ + 1]
                /\ round' = round + 1
                /\ UNCHANGED <<ticket, entered>>

Step(p) == \/ PassClosed(p) \/ TakeTicket(p) \/ RaiseFlag(p)
           \/ PassOpen(p) \/ DropTicket(p) \/ LowerFlag(p)

Next == \E p \in Participants : Call(p) \/ Step(p)

Spec == Init /\ [][Next]_vars

\* Processes run, and each may or may not come to the barrier.
FairSpec == Spec /\ \A p \in Participants : WF_vars(Step(p))

(***************************************************************************)
(* Properties.                                                             *)
(***************************************************************************)
TypeOK == /\ ticket \in Int
          /\ cleared \in {0, 1}
          /\ pc \in [Procs -> {"out", "enter", "arrive", "clear", "wait", "leave", "reset"}]
          /\ entered \in [Participants -> Nat]
          /\ left \in [Participants -> Nat]
          /\ round \in Nat

\* The processes that hold a ticket.
Holders == {p \in Participants : pc[p] \in {"clear", "wait", "leave"}}

\* Nobody leaves its k-th wait before every participant entered its k-th wait,
\* in any round: the barrier is never passed with a ticket of another round.
AllTogether == \A p, q \in Participants : left[p] <= entered[q]

\* The flag comes down only when nobody is left inside to need it, and goes up
\* only when everybody is inside: no process is caught between two rounds.
FlagAgrees ==
  /\ cleared = 0 => \A p \in Participants : pc[p] \notin {"leave", "reset"}
  /\ cleared = 1 => \A p \in Participants : pc[p] \notin {"arrive", "clear"}

\* The inductive invariant: tickets are counted, one process at most changes
\* the flag, and every participant's counts follow the barrier's round.
Placed(p) ==
  /\ entered[p] = left[p] + (IF pc[p] = "out" THEN 0 ELSE 1)
  /\ left[p] = IF cleared = 1 /\ pc[p] \in {"out", "enter"} THEN round + 1 ELSE round
  /\ pc[p] = "clear" => /\ Holders = Participants
                        /\ \A q \in Participants : pc[q] = "clear" => q = p
  /\ pc[p] = "reset" => /\ Holders = {}
                        /\ \A q \in Participants : pc[q] = "reset" => q = p

\* Somebody is about to change the flag whenever it is time to.
FlagComes ==
  /\ cleared = 0 /\ Participants # {} /\ Holders = Participants
       => \E p \in Participants : pc[p] = "clear"
  /\ cleared = 1 /\ Holders = {} => \E p \in Participants : pc[p] = "reset"

IInv == /\ TypeOK
        /\ ticket = Cardinality(Holders)
        /\ FlagAgrees
        /\ \A p \in Participants : Placed(p)
        /\ FlagComes

\* Process p is inside the call and can take a step that is not spinning.
Able(p) == \/ pc[p] \in {"arrive", "clear", "leave", "reset"}
           \/ pc[p] = "enter" /\ cleared = 0
           \/ pc[p] = "wait" /\ cleared = 1

\* The two loops never spin on each other: when a process waits, and everyone
\* has come as often as it has, somebody inside the barrier can go on.
NeverStuck ==
  \A p \in Participants :
    pc[p] # "out" /\ (\A q \in Participants : entered[q] >= entered[p])
      => \E q \in Participants : Able(q)

\* The ticket barrier implements the promised one.
Promised == INSTANCE Rendezvous
PromisedSpec == Promised!Spec

\* When every participant has entered its k-th wait, every participant leaves
\* it, even if some hurry into the next wait meanwhile.
Released ==
  \A k \in 1 .. MaxRounds :
    (\A p \in Participants : entered[p] >= k) ~> (\A p \in Participants : left[p] >= k)
=============================================================================
