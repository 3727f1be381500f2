--------------------------- MODULE BarrierProofs ---------------------------
(***************************************************************************)
(* The ticket barrier is a barrier for any number of processes and any     *)
(* number of rounds, whenever the counting loop counts the participants    *)
(* -- which it does when no color is above 1, so in every barrier without  *)
(* a color function and in those of bank and client_server, whose color    *)
(* functions are tests.                                                     *)
(***************************************************************************)
EXTENDS Barrier, ColorBufferProofs    \* for LeastNat

CountsParticipants == NumPart = Cardinality(Participants)

ZeroOrOne == \A p \in Procs : Weight(p) \in {0, 1}

\* The participants below process k.
Before(k) == {p \in Participants : p < k}

LEMMA OneMore ==
  ASSUME ZeroOrOne, NEW k \in Procs
  PROVE  Cardinality(Before(k + 1)) = Cardinality(Before(k)) + Weight(k)
<1>1. IsFiniteSet(Before(k)) /\ k \notin Before(k) /\ Cardinality(Before(k)) \in Nat
  <2>1. IsFiniteSet(Procs) /\ Before(k) \subseteq Procs
    BY BarrierAssumption, FS_Interval DEF Procs, Before, Participants
  <2>2. k \notin Before(k)
    BY DEF Before, Procs
  <2>3. IsFiniteSet(Before(k))
    BY <2>1, FS_Subset
  <2>. QED  BY <2>2, <2>3, FS_CardinalityType
<1>2. CASE k \in Participants
  <2>1. Before(k + 1) = Before(k) \cup {k} /\ Weight(k) = 1
    BY <1>2 DEF Before, Participants, Procs, ZeroOrOne
  <2>. QED  BY <1>1, <2>1, FS_AddElement
<1>3. CASE k \notin Participants
  <2>1. Before(k + 1) = Before(k) /\ Weight(k) = 0
    BY <1>3 DEF Before, Participants, Procs
  <2>. QED  BY <1>1, <2>1
<1>. QED  BY <1>2, <1>3

\* The counting loop of ssmp_barrier_wait, which adds up what the color function
\* returns, counts the participants if that is 0 or 1: by least counterexample.
THEOREM CountingLoop == ZeroOrOne => CountsParticipants
<1> SUFFICES ASSUME ZeroOrOne PROVE CountsParticipants
  OBVIOUS
<1> DEFINE Def(f) == [k \in 0 .. N |-> IF k = 0 THEN 0 ELSE f[k - 1] + Weight(k - 1)]
<1> DEFINE num_part == CHOOSE f : f = Def(f)
<1> DEFINE count == [k \in 0 .. N |-> Cardinality(Before(k))]
<1>1. NumPart = num_part[N] /\ N \in Nat
  BY BarrierAssumption DEF NumPart
<1>2. count[0] = 0
  <2>1. Before(0) = {}
    BY <1>1 DEF Before, Participants, Procs
  <2>2. Cardinality(Before(0)) = 0
    BY <2>1, FS_EmptySet
  <2>3. 0 \in 0 .. N
    BY <1>1
  <2>. QED  BY <2>2, <2>3
<1>3. ASSUME NEW k \in 0 .. N, k # 0 PROVE count[k] = count[k - 1] + Weight(k - 1)
  <2>1. k - 1 \in Procs /\ k - 1 \in 0 .. N /\ (k - 1) + 1 = k
    BY <1>1, <1>3 DEF Procs
  <2>. QED  BY <2>1, OneMore
<1>4. count = Def(count)
  <2> HIDE DEF count
  <2>1. \A k \in 0 .. N : count[k] = IF k = 0 THEN 0 ELSE count[k - 1] + Weight(k - 1)
    BY <1>2, <1>3
  <2>2. count = [k \in 0 .. N |-> count[k]]
    BY DEF count
  <2>. QED  BY <2>1, <2>2
<1>5. num_part = Def(num_part)
  BY <1>4
<1> HIDE DEF num_part, count
<1>6. num_part[0] = 0 /\ \A k \in 0 .. N : k # 0 => num_part[k] = num_part[k - 1] + Weight(k - 1)
  BY <1>1, <1>5
<1> DEFINE Bad == {k \in 0 .. N : num_part[k] # count[k]}
<1>7. Bad = {}
  <2> SUFFICES ASSUME Bad # {} PROVE FALSE
    OBVIOUS
  <2>1. PICK k \in Bad : \A j \in Bad : k <= j
    <3>1. Bad \subseteq Nat
      BY <1>1
    <3> HIDE DEF Bad
    <3>. QED  BY <3>1, LeastNat
  <2>2. k # 0
    BY <1>2, <1>6
  <2>3. k - 1 \in 0 .. N /\ k - 1 \notin Bad
    BY <1>1, <2>1, <2>2
  <2>4. num_part[k] = count[k]
    BY <1>3, <1>6, <2>2, <2>3
  <2>. QED  BY <2>4
<1>8. Participants = Before(N)
  BY <1>1 DEF Before, Participants, Procs
<1>9. num_part[N] = Cardinality(Participants)
  <2>1. N \in 0 .. N
    BY <1>1
  <2>2. num_part[N] = count[N]
    BY <1>7, <2>1
  <2>3. count[N] = Cardinality(Before(N))
    BY <2>1 DEF count
  <2>. QED  BY <1>8, <2>2, <2>3
<1>. QED  BY <1>1, <1>9 DEF CountsParticipants

LEMMA FiniteHolders ==
  /\ IsFiniteSet(Participants)
  /\ IsFiniteSet(Holders)
  /\ Holders \subseteq Participants
  /\ Cardinality(Holders) \in Nat
<1>1. IsFiniteSet(Procs)
  BY BarrierAssumption, FS_Interval DEF Procs
<1>2. IsFiniteSet(Participants)
  BY <1>1, FS_Subset DEF Participants
<1>3. Holders \subseteq Participants
  BY DEF Holders
<1> QED BY <1>2, <1>3, FS_Subset, FS_CardinalityType

\* Whoever changes place changes the set of ticket holders only by itself.
LEMMA HoldersStep ==
  ASSUME TypeOK, NEW p \in Participants, NEW at, Goto(p, at)
  PROVE  Holders' = IF at \in {"clear", "wait", "leave"} THEN Holders \cup {p} ELSE Holders \ {p}
<1>1. Participants \subseteq Procs
  BY DEF Participants
<1>2. pc'[p] = at /\ \A q \in Participants : q # p => pc'[q] = pc[q]
  BY <1>1 DEF Goto, TypeOK
<1> QED BY <1>2 DEF Holders

LEMMA InitInv == Init => IInv
<1> SUFFICES ASSUME Init PROVE IInv
  OBVIOUS
<1>1. Holders = {}
  BY DEF Init, Holders, Participants
<1>2. Cardinality({}) = 0
  BY FS_EmptySet
<1>3. TypeOK
  BY DEF Init, TypeOK
<1>4. FlagAgrees
  BY DEF Init, FlagAgrees, Participants
<1>5. \A p \in Participants : Placed(p)
  BY DEF Init, Placed, Participants
<1>6. FlagComes
  BY <1>1 DEF Init, FlagComes
<1> QED BY <1>1, <1>2, <1>3, <1>4, <1>5, <1>6 DEF Init, IInv

LEMMA TypeStep ==
  ASSUME IInv, NEW p \in Participants, Call(p) \/ Step(p)
  PROVE  TypeOK'
<1>1. TypeOK /\ Participants \subseteq Procs
  BY DEF IInv, Participants
<1> USE <1>1 DEF TypeOK, Goto
<1>2. CASE Call(p)
  BY <1>2 DEF Call
<1>3. CASE PassClosed(p)
  BY <1>3 DEF PassClosed
<1>4. CASE TakeTicket(p)
  BY <1>4 DEF TakeTicket
<1>5. CASE RaiseFlag(p)
  BY <1>5 DEF RaiseFlag
<1>6. CASE PassOpen(p)
  BY <1>6 DEF PassOpen
<1>7. CASE DropTicket(p)
  BY <1>7 DEF DropTicket
<1>8. CASE LowerFlag(p)
  BY <1>8 DEF LowerFlag
<1> QED BY <1>2, <1>3, <1>4, <1>5, <1>6, <1>7, <1>8 DEF Step

LEMMA Moves ==
  ASSUME TypeOK, NEW p \in Participants, NEW at, Goto(p, at)
  PROVE  pc'[p] = at /\ \A q \in Participants : q # p => pc'[q] = pc[q]
BY DEF Goto, TypeOK, Participants

\* The ticket counter is the number of ticket holders.
LEMMA CountStep ==
  ASSUME IInv, NEW p \in Participants, Call(p) \/ Step(p)
  PROVE  ticket' = Cardinality(Holders')
<1>1. TypeOK /\ ticket = Cardinality(Holders) /\ IsFiniteSet(Holders) /\ ticket \in Nat
  BY FiniteHolders DEF IInv
<1>2. ASSUME NEW at, Goto(p, at), UNCHANGED ticket,
             at \in {"clear", "wait", "leave"} <=> p \in Holders
      PROVE  ticket' = Cardinality(Holders')
  <2>1. Holders' = Holders
    BY <1>1, <1>2, HoldersStep
  <2> QED BY <1>1, <1>2, <2>1
<1>3. CASE Call(p)
  BY <1>2, <1>3 DEF Call, Holders
<1>4. CASE PassClosed(p)
  BY <1>2, <1>4 DEF PassClosed, Holders
<1>5. CASE TakeTicket(p)
  <2>1. Holders' = Holders \cup {p}
    <3>1. PICK at \in {"clear", "wait"} : Goto(p, at)
      BY <1>5 DEF TakeTicket
    <3> QED BY <1>1, <3>1, HoldersStep
  <2>2. p \notin Holders
    BY <1>5 DEF TakeTicket, Holders
  <2>3. Cardinality(Holders \cup {p}) = Cardinality(Holders) + 1
    BY <1>1, <2>2, FS_AddElement
  <2> QED BY <1>1, <1>5, <2>1, <2>3 DEF TakeTicket
<1>6. CASE RaiseFlag(p)
  BY <1>2, <1>6 DEF RaiseFlag, Holders
<1>7. CASE PassOpen(p)
  BY <1>2, <1>7 DEF PassOpen, Holders
<1>8. CASE DropTicket(p)
  <2>1. Holders' = Holders \ {p}
    <3>1. PICK at \in {"reset", "out"} : Goto(p, at)
      BY <1>8 DEF DropTicket
    <3> QED BY <1>1, <3>1, HoldersStep
  <2>2. p \in Holders
    BY <1>8 DEF DropTicket, Holders
  <2>3. Cardinality(Holders \ {p}) = Cardinality(Holders) - 1
    BY <1>1, <2>2, FS_RemoveElement
  <2> QED BY <1>1, <1>8, <2>1, <2>3 DEF DropTicket
<1>9. CASE LowerFlag(p)
  BY <1>2, <1>9 DEF LowerFlag, Holders
<1> QED BY <1>3, <1>4, <1>5, <1>6, <1>7, <1>8, <1>9 DEF Step

\* The last ticket is drawn when everyone holds one, and the last one given back
\* when nobody does.
LEMMA LastIn ==
  ASSUME CountsParticipants, IInv, NEW p \in Participants, TakeTicket(p), ticket' = NumPart
  PROVE  Holders' = Participants
<1>1. ticket' = Cardinality(Holders')
  BY CountStep DEF Step
<1>2. Holders' \subseteq Participants
  BY DEF Holders
<1> QED BY <1>1, <1>2, FiniteHolders, FS_Subset DEF CountsParticipants

LEMMA LastOut ==
  ASSUME IInv, NEW p \in Participants, DropTicket(p), ticket' = 0
  PROVE  Holders' = {}
<1>1. ticket' = Cardinality(Holders')
  BY CountStep DEF Step
<1>2. IsFiniteSet(Holders')
  <2>1. Holders' \subseteq Participants
    BY DEF Holders
  <2> QED BY <2>1, FiniteHolders, FS_Subset
<1> QED BY <1>1, <1>2, FS_EmptySet

\* The flag and the counts of every participant.
Balanced == FlagAgrees /\ \A q \in Participants : Placed(q)

LEMMA PlaceStep ==
  ASSUME CountsParticipants, IInv, NEW p \in Participants, Call(p) \/ Step(p)
  PROVE  Balanced'
<1>1. TypeOK /\ FlagAgrees /\ (\A q \in Participants : Placed(q)) /\ Participants \subseteq Procs
  BY DEF IInv, Participants
<1> USE <1>1
<1>2. \A q \in Participants : /\ pc[q] \in {"out", "enter", "arrive", "clear", "wait", "leave", "reset"}
                              /\ entered[q] \in Nat /\ left[q] \in Nat
  BY DEF TypeOK
<1>3. cleared \in {0, 1} /\ round \in Nat
  BY DEF TypeOK
<1>4. ASSUME NEW at, Goto(p, at)
      PROVE  pc'[p] = at /\ \A q \in Participants : q # p => pc'[q] = pc[q]
  BY <1>4, Moves
<1>5. CASE Call(p)
  <2>1. pc'[p] = "enter" /\ \A q \in Participants : q # p => pc'[q] = pc[q]
    BY <1>4, <1>5 DEF Call
  <2>2. \A q \in Participants : entered'[q] = IF q = p THEN entered[q] + 1 ELSE entered[q]
    BY <1>5 DEF Call, TypeOK
  <2>3. Holders' = Holders /\ p \notin Holders
    BY <1>5, <2>1 DEF Call, Holders
  <2> QED BY <1>2, <1>3, <1>5, <2>1, <2>2, <2>3 DEF Call, Balanced, FlagAgrees, Placed
<1>6. CASE PassClosed(p)
  <2>1. pc'[p] = "arrive" /\ \A q \in Participants : q # p => pc'[q] = pc[q]
    BY <1>4, <1>6 DEF PassClosed
  <2>2. Holders' = Holders /\ p \notin Holders
    BY <1>6, <2>1 DEF PassClosed, Holders
  <2> QED BY <1>2, <1>3, <1>6, <2>1, <2>2 DEF PassClosed, Balanced, FlagAgrees, Placed
<1>7. CASE TakeTicket(p)
  <2>1. pc'[p] = (IF ticket' = NumPart THEN "clear" ELSE "wait")
        /\ \A q \in Participants : q # p => pc'[q] = pc[q]
    BY <1>4, <1>7 DEF TakeTicket
  <2>2. p \notin Holders /\ cleared = 0
    BY <1>3, <1>7 DEF TakeTicket, Holders, FlagAgrees
  <2>3. \A q \in Participants : pc[q] \notin {"clear", "reset"}
    BY <1>7, <2>2 DEF Placed, FlagAgrees
  <2>4. ticket' = NumPart => Holders' = Participants
    BY <1>7, LastIn
  <2> QED BY <1>2, <1>3, <1>7, <2>1, <2>2, <2>3, <2>4 DEF TakeTicket, Balanced, FlagAgrees, Placed
<1>8. CASE RaiseFlag(p)
  <2>1. pc'[p] = "wait" /\ \A q \in Participants : q # p => pc'[q] = pc[q]
    BY <1>4, <1>8 DEF RaiseFlag
  <2>2. cleared = 0 /\ cleared' = 1
    BY <1>3, <1>8 DEF RaiseFlag, FlagAgrees
  <2>3. \A q \in Participants : pc'[q] \in {"wait", "leave"}
    BY <1>8, <2>1 DEF RaiseFlag, Placed, Holders
  <2> QED BY <1>2, <1>3, <1>8, <2>1, <2>2, <2>3 DEF RaiseFlag, Balanced, FlagAgrees, Placed
<1>9. CASE PassOpen(p)
  <2>1. pc'[p] = "leave" /\ \A q \in Participants : q # p => pc'[q] = pc[q]
    BY <1>4, <1>9 DEF PassOpen
  <2>2. Holders' = Holders /\ p \in Holders
    BY <1>9, <2>1 DEF PassOpen, Holders
  <2> QED BY <1>2, <1>3, <1>9, <2>1, <2>2 DEF PassOpen, Balanced, FlagAgrees, Placed
<1>10. CASE DropTicket(p)
  <2>1. pc'[p] = (IF ticket' = 0 THEN "reset" ELSE "out")
        /\ \A q \in Participants : q # p => pc'[q] = pc[q]
    BY <1>4, <1>10 DEF DropTicket
  <2>2. p \in Holders /\ cleared = 1
    BY <1>3, <1>10 DEF DropTicket, Holders, FlagAgrees
  <2>3. \A q \in Participants : pc[q] \notin {"clear", "reset"}
    BY <2>2 DEF Placed, FlagAgrees
  <2>4. ticket' = 0 => Holders' = {}
    BY <1>10, LastOut
  <2>5. \A q \in Participants :
          left'[q] = IF q = p /\ ticket' # 0 THEN left[q] + 1 ELSE left[q]
    BY <1>10 DEF DropTicket, TypeOK
  <2> QED BY <1>2, <1>3, <1>10, <2>1, <2>2, <2>3, <2>4, <2>5 DEF DropTicket, Balanced, FlagAgrees, Placed
<1>11. CASE LowerFlag(p)
  <2>1. pc'[p] = "out" /\ \A q \in Participants : q # p => pc'[q] = pc[q]
    BY <1>4, <1>11 DEF LowerFlag
  <2>2. cleared = 1 /\ cleared' = 0 /\ round' = round + 1
    BY <1>3, <1>11 DEF LowerFlag, FlagAgrees
  <2>3. \A q \in Participants : pc'[q] \in {"out", "enter"}
    BY <1>2, <1>11, <2>1, <2>2 DEF LowerFlag, Placed, FlagAgrees, Holders
  <2>4. \A q \in Participants : left'[q] = IF q = p THEN left[q] + 1 ELSE left[q]
    BY <1>11 DEF LowerFlag, TypeOK
  <2> QED BY <1>2, <1>3, <1>11, <2>1, <2>2, <2>3, <2>4 DEF LowerFlag, Balanced, FlagAgrees, Placed
<1> QED BY <1>5, <1>6, <1>7, <1>8, <1>9, <1>10, <1>11 DEF Step

\* Who has come to change the flag stays until it is changed, and the tickets
\* make somebody come.
LEMMA ComesStep ==
  ASSUME CountsParticipants, IInv, NEW p \in Participants, Call(p) \/ Step(p)
  PROVE  FlagComes'
<1>1. TypeOK /\ FlagAgrees /\ FlagComes /\ cleared \in {0, 1}
  BY DEF IInv, TypeOK
<1>2. ASSUME NEW at, Goto(p, at), UNCHANGED cleared,
             at \in {"clear", "wait", "leave"} <=> p \in Holders,
             pc[p] \notin {"clear", "reset"}
      PROVE  FlagComes'
  <2>1. Holders' = Holders
    BY <1>1, <1>2, HoldersStep
  <2>2. \A q \in Participants : q # p => pc'[q] = pc[q]
    BY <1>1, <1>2, Moves
  <2> QED BY <1>1, <1>2, <2>1, <2>2 DEF FlagComes
<1>3. CASE Call(p)
  BY <1>2, <1>3 DEF Call, Holders
<1>4. CASE PassClosed(p)
  BY <1>2, <1>4 DEF PassClosed, Holders
<1>5. CASE TakeTicket(p)
  <2>1. cleared' = 0
    BY <1>1, <1>5 DEF TakeTicket, FlagAgrees
  <2>2. ASSUME Holders' = Participants
        PROVE  pc'[p] = "clear"
    <3>1. ticket' = NumPart
      BY <1>5, <2>2, CountStep DEF Step, CountsParticipants
    <3> QED BY <1>1, <1>5, <3>1, Moves DEF TakeTicket
  <2> QED BY <2>1, <2>2 DEF FlagComes
<1>6. CASE RaiseFlag(p)
  <2>1. cleared' = 1 /\ pc'[p] = "wait"
    BY <1>1, <1>6, Moves DEF RaiseFlag
  <2>2. p \in Holders'
    BY <2>1 DEF Holders
  <2> QED BY <2>1, <2>2 DEF FlagComes
<1>7. CASE PassOpen(p)
  BY <1>2, <1>7 DEF PassOpen, Holders
<1>8. CASE DropTicket(p)
  <2>1. cleared' = 1
    BY <1>1, <1>8 DEF DropTicket, FlagAgrees
  <2>2. ASSUME Holders' = {}
        PROVE  pc'[p] = "reset"
    <3>1. ticket' = 0
      BY <1>8, <2>2, CountStep, FS_EmptySet DEF Step
    <3> QED BY <1>1, <1>8, <3>1, Moves DEF DropTicket
  <2> QED BY <2>1, <2>2 DEF FlagComes
<1>9. CASE LowerFlag(p)
  <2>1. cleared' = 0 /\ pc'[p] = "out"
    BY <1>1, <1>9, Moves DEF LowerFlag
  <2>2. p \notin Holders'
    BY <2>1 DEF Holders
  <2> QED BY <2>1, <2>2 DEF FlagComes
<1> QED BY <1>3, <1>4, <1>5, <1>6, <1>7, <1>8, <1>9 DEF Step

LEMMA InductiveStep ==
  ASSUME CountsParticipants, IInv, [Next]_vars
  PROVE  IInv'
<1>1. ASSUME NEW p \in Participants, Call(p) \/ Step(p)
      PROVE  IInv'
  BY <1>1, TypeStep, CountStep, PlaceStep, ComesStep DEF IInv, Balanced
<1>2. CASE UNCHANGED vars
  BY <1>2 DEF vars, IInv, TypeOK, FlagAgrees, FlagComes, Placed, Holders
<1> QED BY <1>1, <1>2 DEF Next

\* The inductive invariant: tickets are counted, one process at most changes
\* the flag, every participant's counts follow the round (x86 ssmp_barrier_wait).
THEOREM InvariantHolds == CountsParticipants => (Spec => []IInv)
<1> SUFFICES ASSUME CountsParticipants PROVE Spec => []IInv
  OBVIOUS
<1>1. Init => IInv
  BY InitInv
<1>2. IInv /\ [Next]_vars => IInv'
  BY InductiveStep
<1> QED BY <1>1, <1>2, PTL DEF Spec

LEMMA Together == IInv => AllTogether
<1> SUFFICES ASSUME IInv, NEW p \in Participants, NEW q \in Participants
             PROVE  left[p] <= entered[q]
  BY DEF AllTogether
<1>1. Placed(p) /\ Placed(q)
  BY DEF IInv
<1>2. left[p] \in Nat /\ left[q] \in Nat /\ entered[q] \in Nat /\ round \in Nat
  BY DEF IInv, TypeOK
<1> QED BY <1>1, <1>2 DEF Placed

\* Nobody leaves its k-th wait before every participant entered its k-th wait.
THEOREM NobodyEarly == CountsParticipants => (Spec => []AllTogether)
BY InvariantHolds, Together, PTL

\* The flag changes only between rounds, never under a process that needs it.
THEOREM FlagChangesBetweenRounds == CountsParticipants => (Spec => []FlagAgrees)
<1>1. IInv => FlagAgrees
  BY DEF IInv
<1> QED BY <1>1, InvariantHolds, PTL

\* With nobody able to go on, everyone who is inside spins at the same loop: at
\* the first no ticket is held, at the second all are, and the flag comes.
LEMMA Going == IInv => NeverStuck
<1> SUFFICES ASSUME IInv, NEW p \in Participants, pc[p] # "out",
                    \A q \in Participants : entered[q] >= entered[p],
                    \A q \in Participants : ~Able(q)
             PROVE  FALSE
  BY DEF NeverStuck
<1>1. FlagComes /\ cleared \in {0, 1} /\ \A q \in Participants : Placed(q)
  BY DEF IInv, TypeOK
<1>2. \A q \in Participants : /\ pc[q] \in {"out", "enter", "wait"}
                              /\ entered[q] \in Nat /\ left[q] \in Nat
                              /\ pc[q] = "enter" => cleared = 1
                              /\ pc[q] = "wait" => cleared = 0
  BY DEF IInv, TypeOK, Able, Participants
<1>3. round \in Nat
  BY DEF IInv, TypeOK
<1>4. CASE cleared = 1
  <2>1. Holders = {}
    BY <1>2, <1>4 DEF Holders
  <2>2. PICK q \in Participants : pc[q] = "reset"
    BY <1>1, <1>4, <2>1 DEF FlagComes
  <2> QED BY <1>2, <2>2
<1>5. CASE cleared = 0
  <2>1. pc[p] = "wait" /\ entered[p] = round + 1
    BY <1>1, <1>2, <1>3, <1>5 DEF Placed
  <2>2. \A q \in Participants : pc[q] = "wait"
    <3> TAKE q \in Participants
    <3>1. entered[q] >= round + 1
      BY <2>1
    <3>2. pc[q] = "out" => entered[q] = round
      BY <1>1, <1>2, <1>3, <1>5 DEF Placed
    <3> QED BY <1>2, <1>3, <1>5, <3>1, <3>2
  <2>3. Holders = Participants
    BY <2>2 DEF Holders
  <2>4. PICK q \in Participants : pc[q] = "clear"
    BY <1>1, <1>5, <2>3 DEF FlagComes
  <2> QED BY <2>2, <2>4
<1> QED BY <1>1, <1>4, <1>5

\* The two spinning loops of ssmp_barrier_wait never wait for each other.
THEOREM NeverStuckHolds == CountsParticipants => (Spec => []NeverStuck)
BY InvariantHolds, Going, PTL

\* Every step of the ticket barrier is a step of the promised one, or none.
THEOREM ImplementsRendezvous == CountsParticipants => (Spec => PromisedSpec)
<1> SUFFICES ASSUME CountsParticipants PROVE Spec => PromisedSpec
  OBVIOUS
<1>1. Init => Promised!Init
  BY DEF Init, Promised!Init
<1>2. ASSUME IInv, [Next]_vars
      PROVE  [Promised!Next]_<<entered, left>>
  <2>1. ASSUME NEW p \in Participants, Call(p)
        PROVE  Promised!Enter(p)
    BY <1>2, <2>1 DEF IInv, TypeOK, Call, Placed, Promised!Enter
  <2>2. ASSUME NEW p \in Participants, Step(p), ~UNCHANGED <<entered, left>>
        PROVE  Promised!Leave(p)
    <3>1. /\ left' = [left EXCEPT ![p] = @ + 1] /\ UNCHANGED entered
          /\ pc[p] \in {"leave", "reset"}
      BY <2>2 DEF Step, PassClosed, TakeTicket, RaiseFlag, PassOpen, DropTicket, LowerFlag
    <3>2. cleared = 1
      BY <1>2, <3>1 DEF IInv, TypeOK, FlagAgrees
    <3>3. \A q \in Participants : left[p] < entered[q]
      <4> SUFFICES ASSUME NEW q \in Participants
                   PROVE  left[p] < entered[q]
        OBVIOUS
      <4>1. Placed(p) /\ Placed(q) /\ left[p] \in Nat /\ entered[q] \in Nat /\ left[q] \in Nat
            /\ round \in Nat
        BY <1>2 DEF IInv, TypeOK
      <4> QED BY <3>1, <3>2, <4>1 DEF Placed
    <3> QED BY <3>1, <3>3 DEF Promised!Leave
  <2>3. CASE UNCHANGED vars
    BY <2>3 DEF vars
  <2> QED BY <1>2, <2>1, <2>2, <2>3 DEF Next, Promised!Next
<1> QED BY <1>1, <1>2, InvariantHolds, PTL DEF Spec, PromisedSpec, Promised!Spec
=============================================================================
