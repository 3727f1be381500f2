---------------------------- MODULE TileraProofs ----------------------------
(***************************************************************************)
(* On Tilera every message arrives, once, in order, under its sender's     *)
(* name, and the barriers keep everyone together: for any number of        *)
(* processes, any cpus, any color function, queues of any size.  Assumed   *)
(* are the network and the tmc barriers that the model describes.          *)
(***************************************************************************)
EXTENDS Tilera, ColorBufferProofs    \* for LeastNat

LEMMA ConstantFacts ==
  /\ N \in Nat /\ N # 0 /\ 0 \in Procs /\ Procs \subseteq Nat
  /\ Cpus \subseteq Nat /\ IsFiniteSet(Cpus) /\ Cardinality(Cpus) \in Nat /\ Cardinality(Cpus) >= N
  /\ IsFiniteSet(Procs) /\ Cardinality(Procs) = N
  /\ Barriers = {0, 1, 2}
  /\ \A p \in Procs : id_to_core[p] = p
<1>1. N \in Nat /\ N # 0 /\ Cpus \subseteq Nat /\ IsFiniteSet(Cpus) /\ Cardinality(Cpus) >= N
  BY TileraAssumption
<1>2. IsFiniteSet(0 .. N - 1) /\ Cardinality(0 .. N - 1) = N
  BY <1>1, FS_Interval
<1>. QED  BY <1>1, <1>2, FS_CardinalityType DEF Procs, Barriers, id_to_core

\* The cpus before cpu c.
Earlier(c) == {d \in Cpus : d < c}

\* Every process has a cpu: by least counterexample, the next cpu after one that has
\* k before it has k + 1.
LEMMA CpuExists ==
  ASSUME NEW k \in Procs
  PROVE  \E c \in Cpus : Cardinality(Earlier(c)) = k
<1> DEFINE Bad == {j \in Procs : ~ \E c \in Cpus : Cardinality(Earlier(c)) = j}
<1> SUFFICES ASSUME Bad # {} PROVE FALSE
  OBVIOUS
<1>1. PICK m \in Bad : \A j \in Bad : m <= j
  <2>1. Bad \subseteq Nat
    BY ConstantFacts
  <2> HIDE DEF Bad
  <2>. QED  BY <2>1, LeastNat
<1>2. m \in Nat /\ m < N
  BY ConstantFacts DEF Procs
<1>3. ASSUME NEW S, S \subseteq Cpus, Cardinality(S) = m,
             \A d \in S : \A c \in Cpus \ S : d < c
      PROVE  FALSE
  <2>1. IsFiniteSet(S) /\ Cpus \ S # {}
    <3>1. IsFiniteSet(S)
      BY <1>3, ConstantFacts, FS_Subset
    <3>2. S # Cpus
      BY <1>2, <1>3, ConstantFacts
    <3>. QED  BY <1>3, <3>1, <3>2
  <2>2. PICK c \in Cpus \ S : \A d \in Cpus \ S : c <= d
    <3>1. Cpus \ S \subseteq Nat
      BY ConstantFacts
    <3>. QED  BY <2>1, <3>1, LeastNat
  <2>3. Earlier(c) = S
    <3>1. ASSUME NEW d \in Cpus \ S PROVE ~(d < c)
      <4>1. c \in Nat /\ d \in Nat
        BY ConstantFacts
      <4>. QED  BY <2>2, <3>1, <4>1
    <3>2. Earlier(c) \subseteq S
      BY <3>1 DEF Earlier
    <3>3. S \subseteq Earlier(c)
      BY <1>3, <2>2 DEF Earlier
    <3>. QED  BY <3>2, <3>3
  <2>. QED  BY <1>1, <1>3, <2>3
<1>4. CASE m = 0
  <2>1. Cardinality({}) = 0
    BY FS_EmptySet
  <2>. QED  BY <1>3, <1>4, <2>1
<1>5. CASE m # 0
  <2>1. m - 1 \in Procs /\ m - 1 \notin Bad /\ m - 1 \in Nat
    <3>1. m - 1 \in Nat /\ m - 1 \in Procs /\ ~(m <= m - 1)
      BY <1>2, <1>5, ConstantFacts DEF Procs
    <3> HIDE DEF Bad
    <3>. QED  BY <1>1, <3>1
  <2>2. PICK c \in Cpus : Cardinality(Earlier(c)) = m - 1
    BY <2>1
  <2>3. IsFiniteSet(Earlier(c)) /\ c \notin Earlier(c) /\ c \in Nat
    <3>1. c \in Nat /\ Earlier(c) \subseteq Cpus
      BY ConstantFacts DEF Earlier
    <3>. QED  BY <3>1, ConstantFacts, FS_Subset DEF Earlier
  <2> DEFINE S == Earlier(c) \cup {c}
  <2>4. Cardinality(S) = m
    <3>1. Cardinality(Earlier(c) \cup {c}) = Cardinality(Earlier(c)) + 1
      BY <2>3, FS_AddElement
    <3>. QED  BY <1>2, <2>2, <3>1
  <2>5. S \subseteq Cpus
    BY DEF Earlier
  <2>6. ASSUME NEW d \in S, NEW e \in Cpus \ S PROVE d < e
    <3>1. d \in Nat /\ e \in Nat /\ d <= c
      BY <2>3, <2>5, ConstantFacts DEF Earlier
    <3>2. ~(e < c) /\ e # c
      BY DEF Earlier
    <3>. QED  BY <2>3, <3>1, <3>2
  <2> HIDE DEF S
  <2>. QED  BY <1>3, <2>4, <2>5, <2>6
<1>. QED  BY <1>4, <1>5

\* Every process has a cpu of its own (set_cpu).
LEMMA CpusApart ==
  /\ \A p \in Procs : Nth(p) \in Cpus
  /\ \A p, q \in Procs : Nth(p) = Nth(q) => p = q
<1>1. ASSUME NEW k \in Procs PROVE Nth(k) \in Cpus /\ Cardinality(Earlier(Nth(k))) = k
  <2>1. PICK c \in Cpus : Cardinality({d \in Cpus : d < c}) = k
    BY CpuExists DEF Earlier
  <2>. QED  BY <2>1 DEF Nth, Earlier
<1>. QED  BY <1>1

LEMMA Moves ==
  ASSUME TypeOK, NEW p \in Procs, NEW at, Goto(p, at)
  PROVE  pc'[p] = at /\ \A q \in Procs : q # p => pc'[q] = pc[q]
BY DEF Goto, TypeOK

LEMMA InitInv == Init => IInv
<1> SUFFICES ASSUME Init PROVE IInv
  OBVIOUS
<1>1. color \in [Procs -> Nat] /\ IsFiniteSet({}) /\ Cardinality({}) = 0
  BY TileraAssumption, FS_EmptySet DEF Init
<1>2. \A b \in Barriers : Participants(b) \subseteq Procs /\ expected[b] = Cardinality(Participants(b))
  <2> TAKE b \in Barriers
  <2>1. Participants(b) = IF b = 1 THEN {n \in Procs : color[n] # 0} ELSE Procs
    BY DEF Participants
  <2>2. expected[b] = IF b = 1 THEN NumPart ELSE NumProcs
    BY DEF Init
  <2>. QED  BY <2>1, <2>2, ConstantFacts DEF NumPart, NumProcs
<1>3. \A b \in Barriers : Cardinality(Participants(b)) \in Nat
  BY <1>2, ConstantFacts, FS_Subset, FS_CardinalityType
<1>4. TypeOK
  <2>1. expected \in [Barriers -> Nat]
    BY <1>2, <1>3 DEF Init
  <2>2. /\ DOMAIN entered = Barriers /\ DOMAIN left = Barriers
        /\ \A b \in Barriers : entered[b] \in [Participants(b) -> Nat] /\ left[b] \in [Participants(b) -> Nat]
    BY DEF Init
  <2>3. << >> \in Seq(Packets) /\ << >> \in Seq(Nat)
    OBVIOUS
  <2>4. /\ count \in [Barriers -> Nat]
        /\ cpu \in [Procs -> Cpus \cup {-1}]
        /\ active \subseteq Cpus
        /\ udn_header \in [Procs -> [Procs -> Cpus] \cup {<< >>}]
    BY DEF Init
  <2>5. /\ queue \in [Cpus -> Seq(Packets)]
        /\ got \in [Procs -> [Procs -> Seq(Nat)]]
        /\ sent \in [Procs -> [Procs -> Nat]]
    BY <2>3 DEF Init
  <2>6. /\ sender \in [Procs -> Procs] /\ to \in [Procs -> Procs]
        /\ in \in [Procs -> Barriers] /\ pc \in [Procs -> Places]
    BY ConstantFacts DEF Init, Places
  <2>. QED  BY <1>1, <2>1, <2>2, <2>4, <2>5, <2>6 DEF TypeOK
<1>5. ASSUME NEW b \in Barriers PROVE Counted(b)
  <2>1. \A p \in Procs : ~Waiting(p, b) /\ ~In(p, b)
    BY DEF Init, Waiting, In
  <2>2. {p \in Procs : Waiting(p, b)} = {} /\ count[b] = 0
    BY <2>1 DEF Init
  <2>3. \A p \in Participants(b) : entered[b][p] = 0 /\ left[b][p] = 0
    BY DEF Init
  <2>4. \A p \in Participants(b) : ~Waiting(p, b) /\ ~In(p, b)
    BY <1>2, <2>1
  <2>5. count[b] = Cardinality({p \in Procs : Waiting(p, b)})
    BY <1>1, <2>2
  <2>6. \A p \in Participants(b) : Passed(b, p) = 0
    BY <2>3, <2>4 DEF Passed
  <2>. QED  BY <1>2, <2>3, <2>4, <2>5, <2>6 DEF Counted
<1>6. ASSUME NEW p \in Procs PROVE Phased(p) /\ Bound(p)
  <2>1. pc[p] = "forked" /\ cpu[p] = -1 /\ active = {} /\ \A c \in Cpus : queue[c] = << >>
    BY DEF Init
  <2>2. entered[0][p] = 0 /\ entered[2][p] = 0
    BY ConstantFacts DEF Init, Participants
  <2>. QED  BY <2>1, <2>2, CpusApart DEF Phased, Bound, In, Attached
<1>7. ASSUME NEW p \in Procs, NEW q \in Procs PROVE Accounts(queue[Nth(q)], p, q)
  <2>1. queue[Nth(q)] = << >> /\ got[q][p] = << >> /\ sent[p][q] = 0
    BY CpusApart DEF Init
  <2>2. << >> = [k \in 1 .. 0 |-> k] /\ Len(<< >>) = 0 /\ DOMAIN << >> = {}
    OBVIOUS
  <2>. QED  BY <2>1, <2>2 DEF Accounts
<1>. QED  BY <1>4, <1>5, <1>6, <1>7 DEF IInv

(***************************************************************************)
(* Barriers.                                                               *)
(***************************************************************************)
LEMMA ParticipantFacts ==
  /\ \A b \in Barriers : Participants(b) \subseteq Procs /\ IsFiniteSet(Participants(b))
  /\ Participants(0) = Procs /\ Participants(2) = Procs
<1>1. \A b \in Barriers : Participants(b) \subseteq Procs
  BY DEF Participants
<1>. QED  BY <1>1, ConstantFacts, FS_Subset DEF Participants

BarriersAgree == /\ \A b \in Barriers : Counted(b)
                 /\ \A p \in Procs : Phased(p)

\* A step outside barriers, between places that barriers do not tell apart.
LEMMA QuietStep ==
  ASSUME IInv, NEW p \in Procs, NEW at, Goto(p, at), UNCHANGED <<barriers, waits, in>>,
         {pc[p], at} \cap {"wait", "leave"} = {},
         pc[p] \in {"forked", "bound", "start"} <=> at \in {"forked", "bound", "start"},
         pc[p] \in {"end", "ended"} <=> at \in {"end", "ended"}
  PROVE  BarriersAgree'
<1>1. TypeOK /\ (\A b \in Barriers : Counted(b)) /\ (\A q \in Procs : Phased(q))
  BY DEF IInv
<1>2. pc'[p] = at /\ \A q \in Procs : q # p => pc'[q] = pc[q]
  BY <1>1, Moves
<1>3. \A q \in Procs : \A b \in Barriers : (Waiting(q, b)' <=> Waiting(q, b)) /\ (In(q, b)' <=> In(q, b))
  BY <1>2 DEF Waiting, In
<1>4. \A b \in Barriers : Participants(b)' = Participants(b)
  BY DEF Participants, barriers
<1>5. entered' = entered /\ left' = left /\ count' = count /\ expected' = expected
  BY DEF barriers, waits
<1>6. ASSUME NEW b \in Barriers PROVE Counted(b)'
  <2>1. {q \in Procs : Waiting(q, b)}' = {q \in Procs : Waiting(q, b)}
    BY <1>3
  <2>2. Counted(b) /\ Participants(b) \subseteq Procs
    BY <1>1, ParticipantFacts
  <2>3. \A q \in Participants(b) : Passed(b, q)' = Passed(b, q)
    BY <1>3, <1>5, <2>2 DEF Passed
  <2>. QED  BY <1>3, <1>4, <1>5, <2>1, <2>2, <2>3 DEF Counted
<1>7. ASSUME NEW q \in Procs PROVE Phased(q)'
  <2>1. Phased(q) /\ 2 \in Barriers
    BY <1>1, ConstantFacts
  <2>2. /\ pc'[q] \in {"forked", "bound", "start"} <=> pc[q] \in {"forked", "bound", "start"}
        /\ pc'[q] \in {"end", "ended"} <=> pc[q] \in {"end", "ended"}
    BY <1>2
  <2>. QED  BY <1>3, <1>4, <1>5, <2>1, <2>2 DEF Phased
<1>. QED  BY <1>6, <1>7 DEF BarriersAgree

\* ssmp_barrier_wait: the last one to come finds everyone else waiting.
LEMMA WaitMoves ==
  ASSUME IInv, NEW p \in Procs, NEW b \in Barriers, p \in Participants(b),
         pc[p] \notin {"wait", "leave"}, ssmp_barrier_wait_platf(p, b)
  PROVE  /\ p \notin {q \in Procs : Waiting(q, b)}
         /\ count[b] + 1 = Cardinality({q \in Procs : Waiting(q, b)} \cup {p})
         /\ count[b] + 1 = expected[b] => {q \in Procs : Waiting(q, b)} \cup {p} = Participants(b)
<1> DEFINE W == {q \in Procs : Waiting(q, b)}
<1>1. p \notin W
  BY DEF Waiting
<1>2. IsFiniteSet(W) /\ Cardinality(W) \in Nat
  BY ConstantFacts, FS_Subset, FS_CardinalityType
<1>3. count[b] = Cardinality(W) /\ expected[b] = Cardinality(Participants(b))
  BY DEF IInv, Counted
<1>4. W \cup {p} \subseteq Participants(b)
  BY DEF IInv, Phased, Waiting, In
<1> HIDE DEF W
<1>5. Cardinality(W \cup {p}) = Cardinality(W) + 1
  BY <1>1, <1>2, FS_AddElement
<1>6. count[b] + 1 = expected[b] => W \cup {p} = Participants(b)
  BY <1>3, <1>4, <1>5, ParticipantFacts, FS_Subset
<1>. QED  BY <1>1, <1>3, <1>5, <1>6 DEF W

\* What the last one does to those who wait, and a step of someone else does not.
LEMMA WaitPlaces ==
  ASSUME IInv, NEW p \in Procs, NEW b \in Barriers, p \in Participants(b),
         pc[p] \notin {"wait", "leave"}, ssmp_barrier_wait_platf(p, b), NEW q \in Procs
  PROVE  /\ In(q, b)' <=> In(q, b) \/ q = p
         /\ \A c \in Barriers : c # b => /\ In(q, c)' <=> In(q, c)
                                         /\ Waiting(q, c)' <=> Waiting(q, c)
         /\ Waiting(q, b)' <=> count[b] + 1 # expected[b] /\ (Waiting(q, b) \/ q = p)
         /\ q # p /\ ~In(q, b) => pc'[q] = pc[q]
         /\ pc'[p] \in {"wait", "leave"}
<1>1. pc'[q] = IF count[b] + 1 = expected[b] /\ (q = p \/ Waiting(q, b)) THEN "leave"
               ELSE IF q = p THEN "wait" ELSE pc[q]
  BY DEF ssmp_barrier_wait_platf
<1>2. pc'[p] \in {"wait", "leave"}
  BY DEF ssmp_barrier_wait_platf
<1>3. in'[q] = IF q = p THEN b ELSE in[q]
  BY DEF ssmp_barrier_wait_platf, IInv, TypeOK
<1>. QED  BY <1>1, <1>2, <1>3 DEF In, Waiting

LEMMA WaitStep ==
  ASSUME IInv, NEW p \in Procs, NEW b \in Barriers, p \in Participants(b),
         ssmp_barrier_wait_platf(p, b),
         \/ b = 0 /\ pc[p] = "start"
         \/ b # 0 /\ pc[p] = "run"
  PROVE  BarriersAgree'
<1>1. TypeOK /\ (\A c \in Barriers : Counted(c)) /\ (\A q \in Procs : Phased(q))
      /\ pc[p] \notin {"wait", "leave"}
  BY DEF IInv
<1>2. \A c \in Barriers : Participants(c)' = Participants(c) /\ Participants(c) \subseteq Procs
  BY ParticipantFacts DEF ssmp_barrier_wait_platf, Participants
<1>3. expected' = expected /\ left' = left
  BY DEF ssmp_barrier_wait_platf
<1>4. \A c \in Barriers : count'[c] = IF c # b THEN count[c]
                                     ELSE IF count[b] + 1 = expected[b] THEN 0 ELSE count[b] + 1
  BY <1>1 DEF ssmp_barrier_wait_platf, TypeOK
<1>5. \A c \in Barriers : \A q \in Participants(c) :
        entered'[c][q] = IF c = b /\ q = p THEN entered[c][q] + 1 ELSE entered[c][q]
  BY <1>1 DEF ssmp_barrier_wait_platf, TypeOK
<1>6. \A c \in Barriers : \A q \in Participants(c) : entered[c][q] \in Nat /\ left[c][q] \in Nat
  BY <1>1 DEF TypeOK
<1>7. ASSUME NEW c \in Barriers, c # b PROVE Counted(c)'
  <2>1. \A q \in Procs : (In(q, c)' <=> In(q, c)) /\ (Waiting(q, c)' <=> Waiting(q, c))
    <3> SUFFICES ASSUME NEW q \in Procs
                 PROVE  (In(q, c)' <=> In(q, c)) /\ (Waiting(q, c)' <=> Waiting(q, c))
      OBVIOUS
    <3>1. \A d \in Barriers : d # b => /\ In(q, d)' <=> In(q, d)
                                       /\ Waiting(q, d)' <=> Waiting(q, d)
      BY <1>1, WaitPlaces
    <3>. QED  BY <1>7, <3>1
  <2>2. {q \in Procs : Waiting(q, c)}' = {q \in Procs : Waiting(q, c)}
    BY <2>1
  <2>3. \A q \in Participants(c) : Passed(c, q)' = Passed(c, q)
    BY <1>2, <1>5, <1>7, <2>1 DEF Passed
  <2>. QED  BY <1>1, <1>2, <1>3, <1>4, <1>5, <1>7, <2>1, <2>2, <2>3 DEF Counted
<1>8. Counted(b)'
  <2>1. /\ p \notin {q \in Procs : Waiting(q, b)}
        /\ count[b] + 1 = Cardinality({q \in Procs : Waiting(q, b)} \cup {p})
        /\ count[b] + 1 = expected[b] => {q \in Procs : Waiting(q, b)} \cup {p} = Participants(b)
    BY <1>1, WaitMoves
  <2>2. \A q \in Procs : /\ In(q, b)' <=> In(q, b) \/ q = p
                         /\ Waiting(q, b)' <=> count[b] + 1 # expected[b] /\ (Waiting(q, b) \/ q = p)
    BY <1>1, WaitPlaces
  <2>3. count'[b] = Cardinality({q \in Procs : Waiting(q, b)}')
    <3>1. CASE count[b] + 1 = expected[b]
      <4>1. {q \in Procs : Waiting(q, b)}' = {}
        BY <2>2, <3>1
      <4>. QED  BY <1>4, <3>1, <4>1, FS_EmptySet
    <3>2. CASE count[b] + 1 # expected[b]
      <4>1. {q \in Procs : Waiting(q, b)}' = {q \in Procs : Waiting(q, b)} \cup {p}
        BY <2>2, <3>2
      <4>. QED  BY <1>4, <2>1, <3>2, <4>1
    <3>. QED  BY <3>1, <3>2
  <2>4. ~In(p, b)
    BY <1>1 DEF In
  <2>5. \A q \in Participants(b) : entered'[b][q] = left'[b][q] + IF In(q, b)' THEN 1 ELSE 0
    <3> TAKE q \in Participants(b)
    <3>1. entered[b][q] = left[b][q] + IF In(q, b) THEN 1 ELSE 0
      BY <1>1 DEF Counted
    <3>. QED  BY <1>2, <1>3, <1>5, <1>6, <2>2, <2>4, <3>1
  <2>6. \A q \in Participants(b) :
          Passed(b, q)' = Passed(b, q) + IF count[b] + 1 = expected[b] THEN 1 ELSE 0
    <3> TAKE q \in Participants(b)
    <3>1. q \in Procs /\ entered[b][q] \in Nat
      BY <1>2, <1>6
    <3>2. ~Waiting(p, b)
      BY <2>1
    <3>3. count[b] + 1 = expected[b] => Waiting(q, b) \/ q = p
      BY <2>1
    <3>4. entered'[b][q] = IF q = p THEN entered[b][q] + 1 ELSE entered[b][q]
      BY <1>5
    <3>5. Waiting(q, b)' <=> count[b] + 1 # expected[b] /\ (Waiting(q, b) \/ q = p)
      BY <2>2, <3>1
    <3>. QED  BY <3>1, <3>2, <3>3, <3>4, <3>5 DEF Passed
  <2>7. \A q, r \in Participants(b) : Passed(b, q)' = Passed(b, r)'
    BY <1>1, <2>6 DEF Counted
  <2>. QED  BY <1>1, <1>2, <1>3, <2>3, <2>5, <2>7 DEF Counted
<1>9. ASSUME NEW q \in Procs PROVE Phased(q)'
  <2>1. Phased(q) /\ 0 \in Barriers /\ 2 \in Barriers
    BY <1>1, ConstantFacts
  <2>2. /\ In(q, b)' <=> In(q, b) \/ q = p
        /\ \A c \in Barriers : c # b => (In(q, c)' <=> In(q, c))
        /\ q # p /\ ~In(q, b) => pc'[q] = pc[q]
        /\ pc'[p] \in {"wait", "leave"}
    <3>1. \A c \in Barriers : c # b => /\ In(q, c)' <=> In(q, c)
                                       /\ Waiting(q, c)' <=> Waiting(q, c)
      BY <1>1, WaitPlaces
    <3>2. /\ In(q, b)' <=> In(q, b) \/ q = p
          /\ q # p /\ ~In(q, b) => pc'[q] = pc[q]
          /\ pc'[p] \in {"wait", "leave"}
      BY <1>1, WaitPlaces
    <3>. QED  BY <3>1, <3>2
  <2>3. In(q, b) \/ q = p => pc'[q] \in {"wait", "leave"}
    BY <2>2 DEF In
  <2>4. In(q, b) => pc[q] \in {"wait", "leave"}
    BY DEF In
  <2>5. entered'[0][q] = IF b = 0 /\ q = p THEN entered[0][q] + 1 ELSE entered[0][q]
    BY <1>5, <2>1, ParticipantFacts
  <2>6. entered'[2][q] = IF b = 2 /\ q = p THEN entered[2][q] + 1 ELSE entered[2][q]
    BY <1>5, <2>1, ParticipantFacts
  <2>7. \A c \in Barriers : In(q, c)' => q \in Participants(c)'
    BY <1>2, <2>1, <2>2 DEF Phased
  <2>8. entered'[0][q] = IF pc'[q] \in {"forked", "bound", "start"} THEN 0 ELSE 1
    BY <2>1, <2>2, <2>3, <2>4, <2>5 DEF Phased
  <2>9. entered'[2][q] = IF pc'[q] \in {"end", "ended"} \/ In(q, 2)' THEN 1 ELSE 0
    <3>1. In(p, 2) => pc[p] \in {"wait", "leave"}
      BY DEF In
    <3>. QED  BY <1>1, <2>1, <2>2, <2>3, <2>4, <2>6, <3>1 DEF Phased
  <2>. QED  BY <2>7, <2>8, <2>9 DEF Phased
<1>. QED  BY <1>7, <1>8, <1>9 DEF BarriersAgree

LEMMA LeaveStep ==
  ASSUME IInv, NEW p \in Procs, Leave(p)
  PROVE  BarriersAgree'
<1>1. TypeOK /\ (\A c \in Barriers : Counted(c)) /\ (\A q \in Procs : Phased(q))
  BY DEF IInv
<1> DEFINE b == in[p]
<1>2. b \in Barriers /\ pc[p] = "leave" /\ In(p, b) /\ p \in Participants(b)
  BY <1>1 DEF Leave, In, Phased, TypeOK
<1>3. /\ pc'[p] = IF b = 2 THEN "end" ELSE "run"
      /\ \A q \in Procs : q # p => pc'[q] = pc[q]
  BY <1>1, Moves DEF Leave
<1>4. \A q \in Procs : in'[q] = IF q = p THEN 0 ELSE in[q]
  BY <1>1 DEF Leave, TypeOK
<1>5. \A c \in Barriers : Participants(c)' = Participants(c) /\ Participants(c) \subseteq Procs
  BY ParticipantFacts DEF Leave, barriers, Participants
<1>6. count' = count /\ expected' = expected /\ entered' = entered
  BY DEF Leave, barriers
<1>7. \A c \in Barriers : \A q \in Participants(c) :
        left'[c][q] = IF c = b /\ q = p THEN left[c][q] + 1 ELSE left[c][q]
  BY <1>1, <1>2 DEF Leave, TypeOK
<1>8. \A c \in Barriers : \A q \in Participants(c) : entered[c][q] \in Nat /\ left[c][q] \in Nat
  BY <1>1 DEF TypeOK
<1>9. \A q \in Procs : \A c \in Barriers :
        /\ Waiting(q, c)' <=> Waiting(q, c)
        /\ In(q, c)' <=> In(q, c) /\ q # p
  BY <1>2, <1>3, <1>4 DEF Waiting, In
<1>10. \A c \in Barriers : In(p, c) <=> c = b
  BY <1>2 DEF In
<1> HIDE DEF b
<1>11. ASSUME NEW c \in Barriers PROVE Counted(c)'
  <2>1. {q \in Procs : Waiting(q, c)}' = {q \in Procs : Waiting(q, c)}
    BY <1>9
  <2>2. \A q \in Participants(c) : Passed(c, q)' = Passed(c, q)
    BY <1>5, <1>6, <1>9 DEF Passed
  <2>3. \A q \in Participants(c) : entered'[c][q] = left'[c][q] + IF In(q, c)' THEN 1 ELSE 0
    <3> TAKE q \in Participants(c)
    <3>1. entered[c][q] = left[c][q] + IF In(q, c) THEN 1 ELSE 0
      BY <1>1 DEF Counted
    <3>. QED  BY <1>5, <1>6, <1>7, <1>8, <1>9, <1>10, <3>1
  <2>. QED  BY <1>1, <1>5, <1>6, <2>1, <2>2, <2>3 DEF Counted
<1>12. ASSUME NEW q \in Procs PROVE Phased(q)'
  <2>1. Phased(q) /\ 2 \in Barriers
    BY <1>1, ConstantFacts
  <2>2. CASE q = p
    <3>1. \A c \in Barriers : ~In(p, c)'
      BY <1>9
    <3>2. entered[2][p] = IF b = 2 THEN 1 ELSE 0
      BY <1>2, <1>10, <2>1, <2>2 DEF Phased
    <3>3. entered[0][p] = 1
      BY <1>2, <2>1, <2>2 DEF Phased
    <3>. QED  BY <1>3, <1>6, <2>1, <2>2, <3>1, <3>2, <3>3 DEF Phased
  <2>3. CASE q # p
    <3>1. \A c \in Barriers : In(q, c)' <=> In(q, c)
      BY <1>9, <2>3
    <3>. QED  BY <1>3, <1>5, <1>6, <2>1, <2>3, <3>1 DEF Phased
  <2>. QED  BY <2>2, <2>3
<1>. QED  BY <1>11, <1>12 DEF BarriersAgree

(***************************************************************************)
(* The network.                                                            *)
(***************************************************************************)
NetworkAgrees == /\ \A q \in Procs : Bound(q)
                 /\ \A p, q \in Procs : Accounts(queue[Nth(q)], p, q)

\* A step that leaves the network alone and attaches and detaches nobody.
LEMMA StillStep ==
  ASSUME IInv, UNCHANGED <<network, tables, history>>,
         \A q \in Procs : /\ Attached(q)' <=> Attached(q)
                          /\ pc'[q] = "forked" <=> pc[q] = "forked"
  PROVE  NetworkAgrees'
<1>1. UNCHANGED <<active, queue, cpu, udn_header, sent, got>>
  BY DEF network, tables, history
<1>2. ASSUME NEW q \in Procs PROVE Bound(q)'
  <2>1. Bound(q) /\ (Attached(q)' <=> Attached(q)) /\ (pc'[q] = "forked" <=> pc[q] = "forked")
    BY DEF IInv
  <2>. QED  BY <1>1, <2>1 DEF Bound
<1>3. ASSUME NEW p \in Procs, NEW q \in Procs PROVE Accounts(queue[Nth(q)], p, q)'
  <2>1. Accounts(queue[Nth(q)], p, q)
    BY DEF IInv
  <2>. QED  BY <1>1, <2>1 DEF Accounts
<1>. QED  BY <1>2, <1>3 DEF NetworkAgrees

\* Nobody sends before everyone is attached, nor after someone has detached: barrier
\* 0 is behind everybody, and barrier 2 before everybody.
LEMMA EverybodyThere ==
  ASSUME IInv, NEW p \in Procs, pc[p] \in {"run", "send", "broadcast", "recv"}, NEW q \in Procs
  PROVE  Attached(q)
<1>1. /\ TypeOK /\ 0 \in Barriers /\ 2 \in Barriers
      /\ p \in Participants(0) /\ q \in Participants(0)
      /\ p \in Participants(2) /\ q \in Participants(2)
  BY ConstantFacts, ParticipantFacts DEF IInv
<1>2. Passed(0, p) = Passed(0, q) /\ Passed(2, p) = Passed(2, q)
  BY <1>1 DEF IInv, Counted
<1>3. Phased(p) /\ Phased(q)
  BY DEF IInv
<1>4. ~Waiting(p, 0) /\ ~Waiting(p, 2) /\ ~In(p, 2)
  BY DEF Waiting, In
<1>5. entered[0][p] = 1 /\ entered[2][p] = 0
  BY <1>3, <1>4 DEF Phased
<1>6. Passed(0, q) = 1 /\ Passed(2, q) = 0
  BY <1>2, <1>4, <1>5 DEF Passed
<1>7. pc[q] \in {"forked", "bound"} => Passed(0, q) = 0
  BY <1>3 DEF Phased, Passed, Waiting
<1>8. pc[q] = "ended" => Passed(2, q) = 1
  BY <1>3 DEF Phased, Passed, Waiting
<1>. QED  BY <1>6, <1>7, <1>8 DEF Attached

\* One packet more in a queue.
LEMMA Posted ==
  ASSUME NEW s \in Seq(Packets), NEW m \in Packets
  PROVE  /\ Append(s, m) \in Seq(Packets) /\ DOMAIN Append(s, m) = 1 .. Len(s) + 1
         /\ DOMAIN s = 1 .. Len(s) /\ Len(s) \in Nat
         /\ \A i \in 1 .. Len(s) : Append(s, m)[i] = s[i] /\ s[i].sender \in Procs /\ s[i].body \in Nat
         /\ Append(s, m)[Len(s) + 1] = m
<1>1. \A i \in 1 .. Len(s) : s[i] \in Packets
  OBVIOUS
<1>2. \A x \in Packets : x.sender \in Procs /\ x.body \in Nat
  BY DEF Packets
<1>. QED  BY <1>1, <1>2

LEMMA SendStep ==
  ASSUME IInv, NEW p \in Procs, NEW r \in Procs, pc[p] \in {"send", "broadcast"},
         ssmp_send_platf(p, r), NEW at \in {"run", "broadcast"}, Goto(p, at)
  PROVE  NetworkAgrees'
<1>1. TypeOK /\ (\A q \in Procs : Attached(q) /\ Bound(q))
  BY EverybodyThere DEF IInv
<1> DEFINE c == Nth(r)
<1> DEFINE m == [sender |-> p, body |-> sent[p][r] + 1]
<1>2. c \in Cpus /\ c \in active /\ udn_header[p][r] = c
  BY <1>1, CpusApart DEF Bound
<1>3. sender'[p] = p
  BY <1>1 DEF ssmp_send_platf, Signed, TypeOK
<1>4. queue' = [queue EXCEPT ![c] = Append(queue[c], m)]
  BY <1>2, <1>3 DEF ssmp_send_platf
<1>5. sent' = [sent EXCEPT ![p][r] = @ + 1] /\ got' = got /\ active' = active
      /\ cpu' = cpu /\ udn_header' = udn_header
  BY DEF ssmp_send_platf, tables
<1>6. queue[c] \in Seq(Packets) /\ sent[p][r] \in Nat /\ got[r][p] \in Seq(Nat)
  BY <1>1, <1>2 DEF TypeOK
<1>7. queue'[c] = Append(queue[c], m) /\ \A d \in Cpus : d # c => queue'[d] = queue[d]
  BY <1>1, <1>2, <1>4 DEF TypeOK
<1>8. /\ sent'[p][r] = sent[p][r] + 1
      /\ \A q, o \in Procs : q # p \/ o # r => sent'[q][o] = sent[q][o]
  BY <1>1, <1>5 DEF TypeOK
<1> HIDE DEF m, c
<1>9. ASSUME NEW q \in Procs PROVE Bound(q)'
  <2>1. Attached(q)' /\ pc'[q] # "forked"
    BY <1>1, Moves DEF Attached
  <2>2. Bound(q) /\ Attached(q)
    BY <1>1
  <2>3. cpu[q] = Nth(q)
    BY <2>2 DEF Bound, Attached
  <2>. QED  BY <1>5, <2>1, <2>2, <2>3 DEF Bound
<1>10. ASSUME NEW q \in Procs, NEW o \in Procs PROVE Accounts(queue[Nth(o)], q, o)'
  <2>1. Accounts(queue[Nth(o)], q, o)
    BY DEF IInv
  <2>2. CASE o # r
    <3>1. queue'[Nth(o)] = queue[Nth(o)] /\ sent'[q][o] = sent[q][o]
      BY <1>7, <1>8, <2>2, CpusApart DEF c
    <3>. QED  BY <1>5, <2>1, <3>1 DEF Accounts
  <2>3. CASE o = r
    <3> DEFINE s == queue[c]
    <3> DEFINE t == queue'[c]
    <3> DEFINE n == Len(got[r][q])
    <3>1. /\ t \in Seq(Packets) /\ DOMAIN t = 1 .. Len(s) + 1 /\ DOMAIN s = 1 .. Len(s)
          /\ Len(s) \in Nat
          /\ \A i \in 1 .. Len(s) : t[i] = s[i] /\ s[i].sender \in Procs /\ s[i].body \in Nat
          /\ t[Len(s) + 1] = m
      <4>1. m \in Packets
        BY <1>6 DEF m, Packets
      <4>2. s \in Seq(Packets) /\ t = Append(s, m)
        BY <1>6, <1>7
      <4> HIDE DEF s, t
      <4>. QED  BY <4>1, <4>2, Posted
    <3>2. m.sender = p /\ m.body = sent[p][r] + 1
      BY DEF m
    <3>3. Accounts(s, q, r) /\ n \in Nat /\ sent[q][r] \in Nat
      BY <1>1, <2>1, <2>3 DEF c, TypeOK
    <3>4. sent'[q][r] = IF q = p THEN sent[q][r] + 1 ELSE sent[q][r]
      BY <1>8
    <3> HIDE DEF s, t, n
    <3>5. /\ got[r][q] = [k \in 1 .. n |-> k]
          /\ n <= sent[q][r]
          /\ \A k \in n + 1 .. sent[q][r] : \E i \in 1 .. Len(s) : s[i] = [sender |-> q, body |-> k]
          /\ \A i \in 1 .. Len(s) : s[i].sender = q => s[i].body \in n + 1 .. sent[q][r]
          /\ \A i, j \in 1 .. Len(s) :
                i < j /\ s[i].sender = q /\ s[j].sender = q => s[i].body < s[j].body
      BY <3>1, <3>3 DEF Accounts, n
    <3>6. \A i \in 1 .. Len(s) + 1 : i \in 1 .. Len(s) \/ i = Len(s) + 1
      BY <3>1
    <3>7. ASSUME NEW k \in n + 1 .. sent'[q][r]
          PROVE  \E i \in 1 .. Len(s) + 1 : t[i] = [sender |-> q, body |-> k]
      <4>1. CASE k \in n + 1 .. sent[q][r]
        <5>1. PICK i \in 1 .. Len(s) : s[i] = [sender |-> q, body |-> k]
          BY <3>5, <4>1
        <5>. QED  BY <3>1, <5>1
      <4>2. CASE k \notin n + 1 .. sent[q][r]
        <5>1. q = p /\ k = sent[p][r] + 1
          BY <3>3, <3>4, <4>2
        <5>2. Len(s) + 1 \in 1 .. Len(s) + 1
          BY <3>1
        <5>. QED  BY <3>1, <5>1, <5>2 DEF m
      <4>. QED  BY <4>1, <4>2
    <3>8. ASSUME NEW i \in 1 .. Len(s) + 1, t[i].sender = q
          PROVE  t[i].body \in n + 1 .. sent'[q][r]
      <4>1. CASE i \in 1 .. Len(s)
        BY <3>1, <3>3, <3>4, <3>5, <3>8, <4>1
      <4>2. CASE i = Len(s) + 1
        BY <3>1, <3>2, <3>3, <3>4, <3>5, <3>8, <4>2
      <4>. QED  BY <3>6, <4>1, <4>2
    <3>9. ASSUME NEW i \in 1 .. Len(s) + 1, NEW j \in 1 .. Len(s) + 1,
                 i < j, t[i].sender = q, t[j].sender = q
          PROVE  t[i].body < t[j].body
      <4>1. i \in 1 .. Len(s)
        BY <3>1, <3>9
      <4>2. CASE j \in 1 .. Len(s)
        BY <3>1, <3>5, <3>9, <4>1, <4>2
      <4>3. CASE j = Len(s) + 1
        <5>1. q = p /\ t[j].body = sent[q][r] + 1
          BY <3>1, <3>2, <3>9, <4>3
        <5>2. t[i].body \in n + 1 .. sent[q][r]
          BY <3>1, <3>5, <3>9, <4>1
        <5>. QED  BY <3>3, <5>1, <5>2
      <4>. QED  BY <3>6, <4>2, <4>3
    <3>10. n <= sent'[q][r]
      BY <3>3, <3>4, <3>5
    <3>11. got'[r][q] = got[r][q] /\ n = Len(got'[r][q])
      BY <1>5 DEF n
    <3>12. Accounts(queue[Nth(r)], q, r)'
      BY <3>1, <3>5, <3>7, <3>8, <3>9, <3>10, <3>11 DEF Accounts, t, c
    <3>. QED  BY <2>3, <3>12
  <2>. QED  BY <2>2, <2>3
<1>. QED  BY <1>9, <1>10 DEF NetworkAgrees

\* The first packet taken out of a queue.
LEMMA Taken ==
  ASSUME NEW s \in Seq(Packets), s # << >>
  PROVE  /\ Head(s) = s[1] /\ Head(s) \in Packets /\ Tail(s) \in Seq(Packets)
         /\ DOMAIN s = 1 .. Len(s) /\ Len(s) \in Nat /\ 1 <= Len(s)
         /\ DOMAIN Tail(s) = 1 .. Len(s) - 1
         /\ \A i \in 1 .. Len(s) - 1 : Tail(s)[i] = s[i + 1]
         /\ \A i \in 1 .. Len(s) : s[i].sender \in Procs /\ s[i].body \in Nat
<1>1. \A i \in 1 .. Len(s) : s[i] \in Packets
  OBVIOUS
<1>2. \A x \in Packets : x.sender \in Procs /\ x.body \in Nat
  BY DEF Packets
<1>3. Len(s) \in Nat /\ 1 <= Len(s)
  OBVIOUS
<1>4. Tail(s) \in Seq(Packets) /\ Len(Tail(s)) = Len(s) - 1
  OBVIOUS
<1>5. \A i \in 1 .. Len(s) - 1 : Tail(s)[i] = s[i + 1]
  OBVIOUS
<1>6. Head(s) = s[1]
  OBVIOUS
<1>7. Head(s) \in Packets
  BY <1>1, <1>3, <1>6
<1>. QED  BY <1>1, <1>2, <1>3, <1>4, <1>5, <1>6, <1>7

LEMMA OneMoreGot ==
  ASSUME NEW n \in Nat, NEW g \in Seq(Nat), Len(g) = n, g = [k \in 1 .. n |-> k]
  PROVE  Append(g, n + 1) = [k \in 1 .. n + 1 |-> k] /\ Len(Append(g, n + 1)) = n + 1
<1>1. Len(Append(g, n + 1)) = n + 1 /\ Append(g, n + 1) \in Seq(Nat)
  OBVIOUS
<1>2. \A k \in 1 .. n + 1 : Append(g, n + 1)[k] = k
  OBVIOUS
<1>3. Append(g, n + 1) = [k \in 1 .. n + 1 |-> Append(g, n + 1)[k]]
  BY <1>1
<1>. QED  BY <1>1, <1>2, <1>3

LEMMA ReceiveStep ==
  ASSUME IInv, NEW r \in Procs, Receive(r)
  PROVE  NetworkAgrees'
<1>1. TypeOK /\ pc[r] = "recv" /\ pc'[r] = "run" /\ \A q \in Procs : q # r => pc'[q] = pc[q]
  BY Moves DEF Receive, IInv
<1> DEFINE c == Nth(r)
<1> DEFINE s == queue[c]
<1> DEFINE m == Head(s)
<1> DEFINE o == m.sender
<1>2. c \in Cpus /\ cpu[r] = c
  BY <1>1, CpusApart DEF IInv, Bound
<1>3. s \in Seq(Packets) /\ s # << >>
  BY <1>1, <1>2 DEF Receive, TypeOK
<1>4. /\ m = s[1] /\ m \in Packets /\ Tail(s) \in Seq(Packets)
      /\ DOMAIN s = 1 .. Len(s) /\ Len(s) \in Nat /\ 1 <= Len(s)
      /\ DOMAIN Tail(s) = 1 .. Len(s) - 1
      /\ \A i \in 1 .. Len(s) - 1 : Tail(s)[i] = s[i + 1]
      /\ \A i \in 1 .. Len(s) : s[i].sender \in Procs /\ s[i].body \in Nat
  <2> HIDE DEF s
  <2>. QED  BY <1>3, Taken
<1>5. o \in Procs /\ m.body \in Nat
  BY <1>4 DEF Packets
<1>6. got' = [got EXCEPT ![r][o] = Append(@, m.body)]
      /\ queue' = [queue EXCEPT ![c] = Tail(s)]
      /\ sent' = sent /\ active' = active /\ cpu' = cpu /\ udn_header' = udn_header
  BY <1>2 DEF Receive, tables
<1>7. queue'[c] = Tail(s) /\ \A d \in Cpus : d # c => queue'[d] = queue[d]
  BY <1>1, <1>2, <1>6 DEF TypeOK
<1> HIDE DEF m, o, s
<1>8. /\ got'[r][o] = Append(got[r][o], m.body)
      /\ \A q, p \in Procs : q # r \/ p # o => got'[q][p] = got[q][p]
  BY <1>1, <1>5, <1>6 DEF TypeOK
<1> HIDE DEF c
<1>9. ASSUME NEW q \in Procs PROVE Bound(q)'
  <2>1. Bound(q) /\ (Attached(q)' <=> Attached(q)) /\ (pc'[q] = "forked" <=> pc[q] = "forked")
    BY <1>1 DEF IInv, Attached
  <2>2. pc[q] = "forked" => q # r
    BY <1>1
  <2>3. pc[q] = "forked" => queue'[Nth(q)] = << >>
    BY <1>7, <2>1, <2>2, CpusApart DEF Bound, c
  <2>. QED  BY <1>6, <2>1, <2>3 DEF Bound
<1>10. ASSUME NEW p \in Procs, NEW q \in Procs PROVE Accounts(queue[Nth(q)], p, q)'
  <2>1. Accounts(queue[Nth(q)], p, q)
    BY DEF IInv
  <2>2. CASE q # r
    <3>1. queue'[Nth(q)] = queue[Nth(q)] /\ got'[q][p] = got[q][p] /\ sent'[p][q] = sent[p][q]
      BY <1>6, <1>7, <1>8, <2>2, CpusApart DEF c
    <3>. QED  BY <2>1, <3>1 DEF Accounts
  <2>3. CASE q = r
    <3> DEFINE n == Len(got[r][p])
    <3>1. n \in Nat /\ got[r][p] \in Seq(Nat) /\ sent[p][r] \in Nat
      BY <1>1 DEF TypeOK
    <3>2. /\ got[r][p] = [k \in 1 .. n |-> k]
          /\ n <= sent[p][r]
          /\ \A k \in n + 1 .. sent[p][r] : \E i \in 1 .. Len(s) : s[i] = [sender |-> p, body |-> k]
          /\ \A i \in 1 .. Len(s) : s[i].sender = p => s[i].body \in n + 1 .. sent[p][r]
          /\ \A i, j \in 1 .. Len(s) :
                i < j /\ s[i].sender = p /\ s[j].sender = p => s[i].body < s[j].body
      BY <1>4, <2>1, <2>3 DEF Accounts, c, s
    <3> HIDE DEF n
    <3> DEFINE t == Tail(s)
    <3>3. DOMAIN t = 1 .. Len(s) - 1
          /\ \A i \in 1 .. Len(s) - 1 : t[i] = s[i + 1] /\ i + 1 \in 1 .. Len(s)
      BY <1>4
    <3> HIDE DEF t
    <3>4. \A i, j \in 1 .. Len(s) - 1 :
            i < j /\ t[i].sender = p /\ t[j].sender = p => t[i].body < t[j].body
      <4> SUFFICES ASSUME NEW i \in 1 .. Len(s) - 1, NEW j \in 1 .. Len(s) - 1,
                          i < j, t[i].sender = p, t[j].sender = p
                   PROVE  t[i].body < t[j].body
        OBVIOUS
      <4>1. i + 1 < j + 1 /\ t[i] = s[i + 1] /\ t[j] = s[j + 1]
            /\ i + 1 \in 1 .. Len(s) /\ j + 1 \in 1 .. Len(s)
        BY <3>3
      <4>. QED  BY <3>2, <4>1
    <3>5. ASSUME NEW k \in n + 1 .. sent[p][r], s[1] # [sender |-> p, body |-> k]
          PROVE  \E i \in 1 .. Len(s) - 1 : t[i] = [sender |-> p, body |-> k]
      <4>1. PICK i \in 1 .. Len(s) : s[i] = [sender |-> p, body |-> k]
        BY <3>2
      <4>2. i - 1 \in 1 .. Len(s) - 1 /\ (i - 1) + 1 = i
        BY <1>4, <3>5, <4>1
      <4>. QED  BY <3>3, <4>1, <4>2
    <3>6. CASE p # o
      <4>1. \A k \in n + 1 .. sent[p][r] : s[1] # [sender |-> p, body |-> k]
        BY <1>4, <3>6 DEF o
      <4>2. \A k \in n + 1 .. sent[p][r] : \E i \in 1 .. Len(s) - 1 : t[i] = [sender |-> p, body |-> k]
        BY <3>5, <4>1
      <4>3. \A i \in 1 .. Len(s) - 1 : t[i].sender = p => t[i].body \in n + 1 .. sent[p][r]
        BY <3>2, <3>3
      <4>4. got'[r][p] = got[r][p] /\ sent' = sent /\ queue'[Nth(r)] = t
        BY <1>6, <1>7, <1>8, <3>6 DEF c, t
      <4>. QED  BY <2>3, <3>2, <3>3, <3>4, <4>2, <4>3, <4>4 DEF Accounts, n
    <3>7. CASE p = o
      <4>1. 1 \in 1 .. Len(s) /\ s[1].sender = p /\ s[1].body = m.body /\ s[1] \in Packets
        BY <1>4, <3>7 DEF o
      <4>2. m.body \in n + 1 .. sent[p][r]
        BY <3>2, <4>1
      <4>3. m.body = n + 1
        <5> SUFFICES ASSUME m.body # n + 1 PROVE FALSE
          OBVIOUS
        <5>1. n + 1 \in n + 1 .. sent[p][r] /\ n + 1 < m.body
          BY <3>1, <4>2
        <5>2. PICK i \in 1 .. Len(s) : s[i] = [sender |-> p, body |-> n + 1]
          BY <3>2, <5>1
        <5>3. s[i].sender = p /\ s[i].body = n + 1
          BY <5>2
        <5>4. 1 < i
          BY <1>4, <4>1, <5>1, <5>3
        <5>5. m.body < n + 1
          BY <3>2, <4>1, <5>3, <5>4
        <5>. QED  BY <3>1, <4>2, <5>1, <5>5
      <4>4. \A k \in n + 2 .. sent[p][r] : \E i \in 1 .. Len(s) - 1 : t[i] = [sender |-> p, body |-> k]
        <5> SUFFICES ASSUME NEW k \in n + 2 .. sent[p][r]
                     PROVE  \E i \in 1 .. Len(s) - 1 : t[i] = [sender |-> p, body |-> k]
          OBVIOUS
        <5>1. k \in n + 1 .. sent[p][r] /\ k # n + 1
          BY <3>1
        <5>2. s[1] # [sender |-> p, body |-> k]
          BY <4>1, <4>3, <5>1
        <5>. QED  BY <3>5, <5>1, <5>2
      <4>5. ASSUME NEW i \in 1 .. Len(s) - 1, t[i].sender = p
            PROVE  t[i].body \in n + 2 .. sent[p][r]
        <5>1. t[i] = s[i + 1] /\ i + 1 \in 1 .. Len(s) /\ 1 < i + 1
          BY <3>3
        <5>2. s[i + 1].body \in n + 1 .. sent[p][r] /\ n + 1 < s[i + 1].body
          BY <3>2, <4>1, <4>3, <4>5, <5>1
        <5>. QED  BY <3>1, <5>1, <5>2
      <4>6. got'[r][p] = Append(got[r][p], n + 1)
        BY <1>8, <3>7, <4>3
      <4>7. got'[r][p] = [k \in 1 .. n + 1 |-> k] /\ Len(got'[r][p]) = n + 1
        BY <3>1, <3>2, <4>6, OneMoreGot DEF n
      <4>8. n + 1 <= sent[p][r] /\ (n + 1) + 1 = n + 2
        BY <3>1, <4>2, <4>3
      <4>9. sent' = sent /\ queue'[Nth(r)] = t
        BY <1>6, <1>7 DEF c, t
      <4>. QED  BY <2>3, <3>3, <3>4, <4>4, <4>5, <4>7, <4>8, <4>9 DEF Accounts
    <3>. QED  BY <3>6, <3>7
  <2>. QED  BY <2>2, <2>3
<1>. QED  BY <1>9, <1>10 DEF NetworkAgrees

\* Where a process gets its cpu, attaches to the network, and detaches.
LEMMA AttachStep ==
  ASSUME IInv, NEW p \in Procs, set_cpu(p) \/ ssmp_mem_init_platf(p) \/ ssmp_term_platf(p)
  PROVE  NetworkAgrees'
<1>1. TypeOK /\ (\A q \in Procs : Bound(q)) /\ Nth(p) \in Cpus
  BY CpusApart DEF IInv
<1>2. queue' = queue /\ sent' = sent /\ got' = got
  BY DEF set_cpu, ssmp_mem_init_platf, ssmp_term_platf, network, history
<1>3. ASSUME NEW o \in Procs, NEW q \in Procs PROVE Accounts(queue[Nth(q)], o, q)'
  <2>1. Accounts(queue[Nth(q)], o, q)
    BY DEF IInv
  <2>. QED  BY <1>2, <2>1 DEF Accounts
<1>4. CASE set_cpu(p)
  <2>1. /\ pc[p] = "forked" /\ pc'[p] = "bound" /\ \A q \in Procs : q # p => pc'[q] = pc[q]
        /\ active' = active /\ udn_header' = udn_header
    BY <1>1, <1>4, Moves DEF set_cpu, network
  <2>2. \A q \in Procs : cpu'[q] = IF q = p THEN Nth(p) ELSE cpu[q]
    BY <1>1, <1>4, ConstantFacts DEF set_cpu, TypeOK
  <2>3. ASSUME NEW q \in Procs PROVE Bound(q)'
    BY <1>1, <1>2, <2>1, <2>2 DEF Bound, Attached
  <2>. QED  BY <1>3, <2>3 DEF NetworkAgrees
<1>5. CASE ssmp_mem_init_platf(p)
  <2>1. /\ pc[p] = "bound" /\ pc'[p] = "start" /\ \A q \in Procs : q # p => pc'[q] = pc[q]
        /\ cpu' = cpu /\ cpu[p] = Nth(p)
    BY <1>1, <1>5, Moves DEF ssmp_mem_init_platf, Bound
  <2>2. active' = active \cup {Nth(p)}
    BY <1>5, <2>1 DEF ssmp_mem_init_platf
  <2>3. /\ \A q \in Procs : udn_header'[p][q] = Nth(q)
        /\ \A q \in Procs : q # p => udn_header'[q] = udn_header[q]
    BY <1>1, <1>5, ConstantFacts DEF ssmp_mem_init_platf, Headers, TypeOK
  <2>4. ASSUME NEW q \in Procs PROVE Bound(q)'
    <3>1. CASE q = p
      BY <1>2, <2>1, <2>2, <2>3, <3>1 DEF Bound, Attached
    <3>2. CASE q # p
      <4>1. Nth(q) # Nth(p)
        BY <3>2, CpusApart
      <4>. QED  BY <1>1, <1>2, <2>1, <2>2, <2>3, <3>2, <4>1 DEF Bound, Attached
    <3>. QED  BY <3>1, <3>2
  <2>. QED  BY <1>3, <2>4 DEF NetworkAgrees
<1>6. CASE ssmp_term_platf(p)
  <2>1. /\ pc[p] = "end" /\ pc'[p] = "ended" /\ \A q \in Procs : q # p => pc'[q] = pc[q]
        /\ cpu' = cpu /\ cpu[p] = Nth(p)
    BY <1>1, <1>6, Moves DEF ssmp_term_platf, Bound
  <2>2. active' = active \ {Nth(p)} /\ \A q \in Procs : q # p => udn_header'[q] = udn_header[q]
    BY <1>1, <1>6, <2>1 DEF ssmp_term_platf, TypeOK
  <2>3. ASSUME NEW q \in Procs PROVE Bound(q)'
    <3>1. CASE q = p
      BY <1>2, <2>1, <2>2, <3>1 DEF Bound, Attached
    <3>2. CASE q # p
      <4>1. Nth(q) # Nth(p)
        BY <3>2, CpusApart
      <4>. QED  BY <1>1, <1>2, <2>1, <2>2, <3>2, <4>1 DEF Bound, Attached
    <3>. QED  BY <3>1, <3>2
  <2>. QED  BY <1>3, <2>3 DEF NetworkAgrees
<1>. QED  BY <1>4, <1>5, <1>6

(***************************************************************************)
(* Types.                                                                  *)
(***************************************************************************)
TypedBarriers == /\ color \in [Procs -> Nat]
                 /\ expected \in [Barriers -> Nat]
                 /\ count \in [Barriers -> Nat]
TypedNetwork == /\ cpu \in [Procs -> Cpus \cup {-1}]
                /\ active \subseteq Cpus
                /\ udn_header \in [Procs -> [Procs -> Cpus] \cup {<< >>}]
                /\ queue \in [Cpus -> Seq(Packets)]
TypedPlace == /\ sender \in [Procs -> Procs]
              /\ to \in [Procs -> Procs]
              /\ in \in [Procs -> Barriers]
              /\ pc \in [Procs -> Places]
TypedHistory == /\ sent \in [Procs -> [Procs -> Nat]]
                /\ got \in [Procs -> [Procs -> Seq(Nat)]]
TypedWaits == /\ DOMAIN entered = Barriers /\ DOMAIN left = Barriers
              /\ \A b \in Barriers : /\ entered[b] \in [Participants(b) -> Nat]
                                     /\ left[b] \in [Participants(b) -> Nat]

LEMMA TypeParts == TypeOK <=> TypedBarriers /\ TypedNetwork /\ TypedPlace /\ TypedHistory /\ TypedWaits
BY DEF TypeOK, TypedBarriers, TypedNetwork, TypedPlace, TypedHistory, TypedWaits

LEMMA TypePartsNext ==
  TypedBarriers' /\ TypedNetwork' /\ TypedPlace' /\ TypedHistory' /\ TypedWaits' => TypeOK'
BY DEF TypeOK, TypedBarriers, TypedNetwork, TypedPlace, TypedHistory, TypedWaits

LEMMA SameParts ==
  ASSUME TypeOK
  PROVE  /\ UNCHANGED barriers => TypedBarriers'
         /\ UNCHANGED <<network, tables>> => TypedNetwork'
         /\ UNCHANGED history => TypedHistory'
         /\ UNCHANGED waits /\ UNCHANGED color => TypedWaits'
<1>1. UNCHANGED barriers => TypedBarriers'
  BY TypeParts DEF TypedBarriers, barriers
<1>2. UNCHANGED <<network, tables>> => TypedNetwork'
  BY TypeParts DEF TypedNetwork, network, tables
<1>3. UNCHANGED history => TypedHistory'
  BY TypeParts DEF TypedHistory, history
<1>4. UNCHANGED waits /\ UNCHANGED color => TypedWaits'
  <2>1. UNCHANGED color => \A b \in Barriers : Participants(b)' = Participants(b)
    BY DEF Participants
  <2>. QED  BY <2>1, TypeParts DEF TypedWaits, waits
<1>. QED  BY <1>1, <1>2, <1>3, <1>4

LEMMA AttachTypes ==
  ASSUME IInv, NEW p \in Procs, set_cpu(p) \/ ssmp_mem_init_platf(p) \/ ssmp_term_platf(p)
  PROVE  TypeOK'
<1>1. TypeOK /\ TypedPlace /\ TypedNetwork /\ (\A q \in Procs : Nth(q) \in Cpus /\ id_to_core[q] = q)
      /\ Bound(p)
  BY TypeParts, CpusApart, ConstantFacts DEF IInv
<1>2. UNCHANGED <<barriers, history, waits, place, queue>> /\ color' = color
  BY DEF set_cpu, ssmp_mem_init_platf, ssmp_term_platf, network, barriers
<1>3. TypedBarriers' /\ TypedHistory' /\ TypedWaits'
  BY <1>1, <1>2, SameParts
<1>4. pc' \in [Procs -> Places]
  BY <1>1 DEF set_cpu, ssmp_mem_init_platf, ssmp_term_platf, Goto, TypedPlace, Places
<1>5. TypedPlace'
  BY <1>1, <1>2, <1>4 DEF TypedPlace, place
<1>6. cpu' \in [Procs -> Cpus \cup {-1}]
  BY <1>1 DEF set_cpu, ssmp_mem_init_platf, ssmp_term_platf, TypedNetwork
<1>7. active' \subseteq Cpus
  <2>1. ssmp_mem_init_platf(p) => cpu[p] = Nth(p)
    BY <1>1 DEF ssmp_mem_init_platf, Bound
  <2>. QED  BY <1>1, <2>1 DEF set_cpu, ssmp_mem_init_platf, ssmp_term_platf, network, TypedNetwork
<1>8. udn_header' \in [Procs -> [Procs -> Cpus] \cup {<< >>}]
  <2>1. Headers \in [Procs -> Cpus]
    BY <1>1 DEF Headers
  <2>. QED  BY <1>1, <2>1 DEF set_cpu, ssmp_mem_init_platf, ssmp_term_platf, TypedNetwork
<1>9. TypedNetwork'
  BY <1>1, <1>2, <1>6, <1>7, <1>8 DEF TypedNetwork
<1>. QED  BY <1>3, <1>5, <1>9, TypePartsNext

LEMMA WaitTypes ==
  ASSUME IInv, NEW p \in Procs, NEW b \in Barriers, p \in Participants(b),
         ssmp_barrier_wait_platf(p, b)
  PROVE  TypeOK'
<1>1. TypeOK /\ TypedBarriers /\ TypedPlace /\ TypedWaits
  BY TypeParts DEF IInv
<1>2. UNCHANGED <<network, tables, history>> /\ color' = color /\ expected' = expected
      /\ left' = left /\ sender' = sender /\ to' = to
  BY DEF ssmp_barrier_wait_platf
<1>3. TypedNetwork' /\ TypedHistory'
  BY <1>1, <1>2, SameParts
<1>4. TypedBarriers'
  <2>1. count' \in [Barriers -> Nat]
    BY <1>1 DEF ssmp_barrier_wait_platf, TypedBarriers
  <2>. QED  BY <1>1, <1>2, <2>1 DEF TypedBarriers
<1>5. TypedPlace'
  <2>1. pc' \in [Procs -> Places]
    BY <1>1 DEF ssmp_barrier_wait_platf, TypedPlace, Places
  <2>2. in' \in [Procs -> Barriers]
    BY <1>1 DEF ssmp_barrier_wait_platf, TypedPlace
  <2>. QED  BY <1>1, <1>2, <2>1, <2>2 DEF TypedPlace
<1>6. TypedWaits'
  <2>1. entered' = [entered EXCEPT ![b] = [entered[b] EXCEPT ![p] = entered[b][p] + 1]]
    BY DEF ssmp_barrier_wait_platf
  <2>2. DOMAIN entered' = Barriers
    BY <1>1, <2>1 DEF TypedWaits
  <2>3. [entered[b] EXCEPT ![p] = entered[b][p] + 1] \in [Participants(b) -> Nat]
    BY <1>1 DEF TypedWaits
  <2>4. \A c \in Barriers : entered'[c] \in [Participants(c) -> Nat]
    BY <1>1, <2>1, <2>3 DEF TypedWaits
  <2>5. \A c \in Barriers : Participants(c)' = Participants(c)
    BY <1>2 DEF Participants
  <2>. QED  BY <1>1, <1>2, <2>2, <2>4, <2>5 DEF TypedWaits
<1>. QED  BY <1>3, <1>4, <1>5, <1>6, TypePartsNext

LEMMA LeaveTypes ==
  ASSUME IInv, NEW p \in Procs, Leave(p)
  PROVE  TypeOK'
<1>1. TypeOK /\ TypedPlace /\ TypedWaits /\ 0 \in Barriers
  BY TypeParts, ConstantFacts DEF IInv
<1>2. UNCHANGED <<barriers, network, tables, history>> /\ color' = color
      /\ entered' = entered /\ sender' = sender /\ to' = to
  BY DEF Leave, barriers
<1>3. TypedBarriers' /\ TypedNetwork' /\ TypedHistory'
  BY <1>1, <1>2, SameParts
<1>4. TypedPlace'
  <2>1. pc' \in [Procs -> Places]
    BY <1>1 DEF Leave, Goto, TypedPlace, Places
  <2>2. in' \in [Procs -> Barriers]
    BY <1>1 DEF Leave, TypedPlace
  <2>. QED  BY <1>1, <1>2, <2>1, <2>2 DEF TypedPlace
<1>5. TypedWaits'
  <2> DEFINE b == in[p]
  <2>1. b \in Barriers /\ p \in Participants(b)
    BY <1>1 DEF IInv, Phased, In, Leave, TypedPlace
  <2>2. left' = [left EXCEPT ![b] = [left[b] EXCEPT ![p] = left[b][p] + 1]]
    BY DEF Leave
  <2> HIDE DEF b
  <2>3. DOMAIN left' = Barriers
    BY <1>1, <2>2 DEF TypedWaits
  <2>4. [left[b] EXCEPT ![p] = left[b][p] + 1] \in [Participants(b) -> Nat]
    BY <1>1, <2>1 DEF TypedWaits
  <2>5. \A c \in Barriers : left'[c] \in [Participants(c) -> Nat]
    BY <1>1, <2>2, <2>4 DEF TypedWaits
  <2>6. \A c \in Barriers : Participants(c)' = Participants(c)
    BY <1>2 DEF Participants
  <2>. QED  BY <1>1, <1>2, <2>3, <2>5, <2>6 DEF TypedWaits
<1>. QED  BY <1>3, <1>4, <1>5, TypePartsNext

LEMMA CallTypes ==
  ASSUME IInv, NEW p \in Procs, NEW q \in Procs, NEW f \in {"send", "broadcast", "recv"}, Call(p, f, q)
  PROVE  TypeOK'
<1>1. TypeOK /\ TypedPlace
  BY TypeParts DEF IInv
<1>2. UNCHANGED <<barriers, network, tables, history, waits, sender, in>> /\ color' = color
  BY DEF Call, barriers
<1>3. TypedBarriers' /\ TypedNetwork' /\ TypedHistory' /\ TypedWaits'
  BY <1>1, <1>2, SameParts
<1>4. pc' \in [Procs -> Places]
  BY <1>1 DEF Call, Goto, TypedPlace, Places
<1>5. to' \in [Procs -> Procs]
  BY <1>1 DEF Call, TypedPlace
<1>6. TypedPlace'
  BY <1>1, <1>2, <1>4, <1>5 DEF TypedPlace
<1>. QED  BY <1>3, <1>6, TypePartsNext

LEMMA SendTypes ==
  ASSUME IInv, NEW p \in Procs, NEW r \in Procs, pc[p] \in {"send", "broadcast"},
         ssmp_send_platf(p, r)
  PROVE  /\ TypedBarriers' /\ TypedNetwork' /\ TypedHistory' /\ TypedWaits'
         /\ sender' \in [Procs -> Procs]
<1>1. TypeOK /\ TypedPlace /\ TypedNetwork /\ TypedHistory
  BY TypeParts DEF IInv
<1>2. UNCHANGED <<barriers, active, tables, in, got, waits>> /\ color' = color
  BY DEF ssmp_send_platf, barriers
<1>3. TypedBarriers' /\ TypedWaits'
  BY <1>1, <1>2, SameParts
<1>4. sender' \in [Procs -> Procs] /\ sender'[p] = p
  BY <1>1 DEF ssmp_send_platf, Signed, TypedPlace
<1>5. sent' \in [Procs -> [Procs -> Nat]]
  BY <1>1 DEF ssmp_send_platf, TypedHistory
<1>6. queue' \in [Cpus -> Seq(Packets)]
  <2> DEFINE c == udn_header[p][r]
  <2> DEFINE m == [sender |-> p, body |-> sent[p][r] + 1]
  <2>1. c \in Cpus
    <3>1. Bound(p) /\ Attached(p)
      BY DEF IInv, Attached
    <3>. QED  BY <3>1, CpusApart DEF Bound
  <2>2. m \in Packets
    BY <1>1 DEF Packets, TypedHistory
  <2>3. queue' = [queue EXCEPT ![c] = Append(queue[c], m)] \/ queue' = queue
    BY <1>4 DEF ssmp_send_platf
  <2> HIDE DEF c, m
  <2>4. queue[c] \in Seq(Packets)
    BY <1>1, <2>1 DEF TypedNetwork
  <2>5. Append(queue[c], m) \in Seq(Packets)
    BY <2>2, <2>4
  <2>. QED  BY <1>1, <2>1, <2>3, <2>5 DEF TypedNetwork
<1>7. TypedNetwork'
  BY <1>1, <1>2, <1>6 DEF TypedNetwork, tables
<1>8. TypedHistory'
  BY <1>1, <1>2, <1>5 DEF TypedHistory
<1>. QED  BY <1>3, <1>4, <1>7, <1>8

LEMMA SenderTypes ==
  ASSUME IInv, NEW p \in Procs, Send(p) \/ Broadcast(p)
  PROVE  TypeOK'
<1>1. TypeOK /\ TypedPlace /\ to[p] \in Procs /\ pc[p] \in {"send", "broadcast"} /\ N \in Nat /\ N # 0
      /\ 0 \in Procs
  BY TypeParts, ConstantFacts DEF IInv, TypedPlace, Send, Broadcast
<1>2. /\ TypedBarriers' /\ TypedNetwork' /\ TypedHistory' /\ TypedWaits'
      /\ sender' \in [Procs -> Procs] /\ in' = in
  <2>1. CASE ssmp_send_platf(p, to[p])
    BY <1>1, <2>1, SendTypes DEF ssmp_send_platf
  <2>2. CASE UNCHANGED <<barriers, network, tables, sender, in, history, waits>>
    <3>1. UNCHANGED color
      BY <2>2 DEF barriers
    <3>. QED  BY <1>1, <2>2, <3>1, SameParts DEF TypedPlace
  <2>. QED  BY <2>1, <2>2 DEF Send, Broadcast
<1>3. to' \in [Procs -> Procs]
  <2>1. (to[p] + 1) % N \in Procs
    BY <1>1 DEF Procs
  <2>. QED  BY <1>1, <2>1 DEF Send, Broadcast, TypedPlace
<1>4. pc' \in [Procs -> Places]
  BY <1>1 DEF Send, Broadcast, Goto, TypedPlace, Places
<1>5. TypedPlace'
  BY <1>1, <1>2, <1>3, <1>4 DEF TypedPlace
<1>. QED  BY <1>2, <1>5, TypePartsNext

LEMMA ReceiveTypes ==
  ASSUME IInv, NEW p \in Procs, Receive(p)
  PROVE  TypeOK'
<1>1. TypeOK /\ TypedPlace /\ TypedNetwork /\ TypedHistory
  BY TypeParts DEF IInv
<1> DEFINE c == cpu[p]
<1> DEFINE m == Head(queue[c])
<1>2. c \in Cpus
  BY CpusApart DEF IInv, Bound, Receive
<1>3. queue[c] \in Seq(Packets) /\ queue[c] # << >>
  BY <1>1, <1>2 DEF Receive, TypedNetwork
<1>4. UNCHANGED <<barriers, active, tables, to, in, sent, waits>> /\ color' = color
  BY DEF Receive, barriers
<1>5. /\ sender' = [sender EXCEPT ![p] = m.sender]
      /\ got' = [got EXCEPT ![p][m.sender] = Append(@, m.body)]
      /\ queue' = [queue EXCEPT ![c] = Tail(queue[c])]
  BY DEF Receive
<1>6. m \in Packets /\ Tail(queue[c]) \in Seq(Packets)
  <2> DEFINE s == queue[c]
  <2> HIDE DEF s
  <2>1. s \in Seq(Packets) /\ s # << >>
    BY <1>3 DEF s
  <2>2. Head(s) \in Packets /\ Tail(s) \in Seq(Packets)
    BY <2>1, Taken
  <2>. QED  BY <2>2 DEF s
<1> HIDE DEF m, c
<1>7. m.sender \in Procs /\ m.body \in Nat
  BY <1>6 DEF Packets
<1>8. TypedBarriers' /\ TypedWaits'
  BY <1>1, <1>4, SameParts
<1>9. queue' \in [Cpus -> Seq(Packets)]
  BY <1>1, <1>2, <1>5, <1>6 DEF TypedNetwork
<1>10. got' \in [Procs -> [Procs -> Seq(Nat)]]
  <2>1. got[p] \in [Procs -> Seq(Nat)] /\ got[p][m.sender] \in Seq(Nat)
    BY <1>1, <1>7 DEF TypedHistory
  <2>2. Append(got[p][m.sender], m.body) \in Seq(Nat)
    BY <1>7, <2>1
  <2>. QED  BY <1>1, <1>5, <2>1, <2>2 DEF TypedHistory
<1>11. sender' \in [Procs -> Procs]
  BY <1>1, <1>5, <1>7 DEF TypedPlace
<1>12. pc' \in [Procs -> Places]
  BY <1>1 DEF Receive, Goto, TypedPlace, Places
<1>13. TypedNetwork'
  BY <1>1, <1>4, <1>9 DEF TypedNetwork, tables
<1>14. TypedPlace'
  BY <1>1, <1>4, <1>11, <1>12 DEF TypedPlace
<1>15. TypedHistory'
  BY <1>1, <1>4, <1>10 DEF TypedHistory
<1>. QED  BY <1>8, <1>13, <1>14, <1>15, TypePartsNext

(***************************************************************************)
(* The invariant.                                                          *)
(***************************************************************************)
\* A call of ssmp_barrier_wait, by a participant.
LEMMA WaitIsInductive ==
  ASSUME IInv, NEW p \in Procs, Start(p) \/ Meet(p) \/ End(p)
  PROVE  IInv'
<1>1. PICK b \in Barriers : /\ p \in Participants(b) /\ ssmp_barrier_wait_platf(p, b)
                            /\ (b = 0 /\ pc[p] = "start") \/ (b # 0 /\ pc[p] = "run")
  <2>1. 0 \in Barriers /\ 1 \in Barriers /\ 2 \in Barriers /\ p \in Participants(0) /\ p \in Participants(2)
    BY ConstantFacts, ParticipantFacts
  <2>2. CASE Start(p)
    BY <2>1, <2>2 DEF Start
  <2>3. CASE Meet(p)
    BY <2>1, <2>3 DEF Meet
  <2>4. CASE End(p)
    BY <2>1, <2>4 DEF End
  <2>. QED  BY <2>2, <2>3, <2>4
<1>2. TypeOK' /\ BarriersAgree'
  BY <1>1, WaitTypes, WaitStep
<1>3. UNCHANGED <<network, tables, history>>
  BY <1>1 DEF ssmp_barrier_wait_platf
<1>4. ASSUME NEW q \in Procs
      PROVE  /\ Attached(q)' <=> Attached(q)
             /\ pc'[q] = "forked" <=> pc[q] = "forked"
  <2>1. /\ q # p /\ ~In(q, b) => pc'[q] = pc[q]
        /\ pc'[p] \in {"wait", "leave"}
        /\ In(q, b)' <=> In(q, b) \/ q = p
    BY <1>1, WaitPlaces
  <2>2. In(q, b) => pc[q] \in {"wait", "leave"} /\ pc'[q] \in {"wait", "leave"}
    BY <2>1 DEF In
  <2>. QED  BY <1>1, <2>1, <2>2 DEF Attached
<1>5. NetworkAgrees'
  BY <1>3, <1>4, StillStep
<1>. QED  BY <1>2, <1>5 DEF IInv, BarriersAgree, NetworkAgrees

LEMMA LeaveIsInductive ==
  ASSUME IInv, NEW p \in Procs, Leave(p)
  PROVE  IInv'
<1>1. pc[p] = "leave" /\ pc'[p] \in {"end", "run"} /\ \A q \in Procs : q # p => pc'[q] = pc[q]
  BY Moves DEF Leave, IInv
<1>2. NetworkAgrees'
  BY <1>1, StillStep DEF Leave, Attached
<1>. QED  BY <1>2, LeaveTypes, LeaveStep DEF IInv, BarriersAgree, NetworkAgrees

LEMMA AttachIsInductive ==
  ASSUME IInv, NEW p \in Procs, set_cpu(p) \/ ssmp_mem_init_platf(p) \/ ssmp_term_platf(p)
  PROVE  IInv'
<1>1. UNCHANGED <<barriers, waits, in>>
  BY DEF set_cpu, ssmp_mem_init_platf, ssmp_term_platf, place
<1>2. BarriersAgree'
  <2>1. CASE set_cpu(p)
    BY <1>1, <2>1, QuietStep DEF set_cpu
  <2>2. CASE ssmp_mem_init_platf(p)
    BY <1>1, <2>2, QuietStep DEF ssmp_mem_init_platf
  <2>3. CASE ssmp_term_platf(p)
    BY <1>1, <2>3, QuietStep DEF ssmp_term_platf
  <2>. QED  BY <2>1, <2>2, <2>3
<1>. QED  BY <1>2, AttachTypes, AttachStep DEF IInv, BarriersAgree, NetworkAgrees

LEMMA CallIsInductive ==
  ASSUME IInv, NEW p \in Procs, CallSend(p) \/ CallBroadcast(p) \/ CallRecv(p)
  PROVE  IInv'
<1>1. PICK q \in Procs, f \in {"send", "broadcast", "recv"} : Call(p, f, q)
  BY ConstantFacts DEF CallSend, CallBroadcast, CallRecv
<1>2. UNCHANGED <<barriers, network, tables, history, waits, in>> /\ pc[p] = "run" /\ Goto(p, f)
  BY <1>1 DEF Call
<1>3. pc'[p] = f /\ \A r \in Procs : r # p => pc'[r] = pc[r]
  BY <1>2, Moves DEF IInv
<1>4. NetworkAgrees'
  BY <1>2, <1>3, StillStep DEF Attached
<1>5. BarriersAgree'
  BY <1>2, QuietStep
<1>6. TypeOK'
  BY <1>1, CallTypes
<1>. QED  BY <1>4, <1>5, <1>6 DEF IInv, BarriersAgree, NetworkAgrees

LEMMA SenderIsInductive ==
  ASSUME IInv, NEW p \in Procs, Send(p) \/ Broadcast(p)
  PROVE  IInv'
<1>1. pc[p] \in {"send", "broadcast"} /\ to[p] \in Procs
  BY DEF Send, Broadcast, IInv, TypeOK
<1>2. PICK at \in {"run", "broadcast"} : Goto(p, at)
  BY DEF Send, Broadcast
<1>3. \/ ssmp_send_platf(p, to[p])
      \/ UNCHANGED <<barriers, network, tables, sender, in, history, waits>>
  BY DEF Send, Broadcast
<1>4. UNCHANGED <<barriers, waits, in>>
  BY <1>3 DEF ssmp_send_platf
<1>5. BarriersAgree'
  BY <1>1, <1>2, <1>4, QuietStep
<1>6. NetworkAgrees'
  <2>1. CASE ssmp_send_platf(p, to[p])
    BY <1>1, <1>2, <2>1, SendStep
  <2>2. CASE UNCHANGED <<barriers, network, tables, sender, in, history, waits>>
    <3>1. pc'[p] = at /\ \A r \in Procs : r # p => pc'[r] = pc[r]
      BY <1>2, Moves DEF IInv
    <3>. QED  BY <1>1, <2>2, <3>1, StillStep DEF Attached
  <2>. QED  BY <1>3, <2>1, <2>2
<1>. QED  BY <1>5, <1>6, SenderTypes DEF IInv, BarriersAgree, NetworkAgrees

LEMMA ReceiveIsInductive ==
  ASSUME IInv, NEW p \in Procs, Receive(p)
  PROVE  IInv'
<1>1. UNCHANGED <<barriers, waits, in>> /\ pc[p] = "recv" /\ Goto(p, "run")
  BY DEF Receive
<1>2. BarriersAgree'
  BY <1>1, QuietStep
<1>. QED  BY <1>2, ReceiveTypes, ReceiveStep DEF IInv, BarriersAgree, NetworkAgrees

LEMMA InductiveStep == IInv /\ [Next]_vars => IInv'
<1> SUFFICES ASSUME IInv, [Next]_vars PROVE IInv'
  OBVIOUS
<1>1. ASSUME NEW p \in Procs,
             Step(p) \/ CallSend(p) \/ CallBroadcast(p) \/ CallRecv(p) \/ Meet(p) \/ End(p)
      PROVE  IInv'
  BY <1>1, WaitIsInductive, LeaveIsInductive, AttachIsInductive, CallIsInductive,
     SenderIsInductive, ReceiveIsInductive DEF Step
<1>2. CASE UNCHANGED vars
  <2>1. UNCHANGED <<barriers, network, tables, history, waits, sender, to, in, pc, color>>
    BY <1>2 DEF vars, place, barriers
  <2>2. NetworkAgrees'
    BY <2>1, StillStep DEF Attached
  <2>3. TypeOK'
    <3>1. TypeOK /\ TypedPlace
      BY TypeParts DEF IInv
    <3>2. TypedPlace'
      BY <2>1, <3>1 DEF TypedPlace
    <3>. QED  BY <2>1, <3>1, <3>2, SameParts, TypePartsNext
  <2>4. \A b \in Barriers : Counted(b)'
    <3>1. color' = color /\ expected' = expected /\ count' = count /\ entered' = entered /\ left' = left
          /\ pc' = pc /\ in' = in
      BY <2>1 DEF barriers, waits
    <3> SUFFICES ASSUME NEW b \in Barriers PROVE Counted(b)'
      OBVIOUS
    <3>2. Counted(b) /\ Participants(b)' = Participants(b)
      BY <3>1 DEF IInv, Participants
    <3>3. {p \in Procs : Waiting(p, b)}' = {p \in Procs : Waiting(p, b)}
      BY <3>1 DEF Waiting
    <3>4. \A p \in Participants(b) : Passed(b, p)' = Passed(b, p) /\ (In(p, b)' <=> In(p, b))
      BY <3>1 DEF Passed, Waiting, In
    <3>. QED  BY <3>1, <3>2, <3>3, <3>4 DEF Counted
  <2>5. \A p \in Procs : Phased(p)'
    <3>1. color' = color /\ entered' = entered /\ pc' = pc /\ in' = in
      BY <2>1 DEF waits
    <3>. QED  BY <3>1 DEF IInv, Phased, In, Participants
  <2>. QED  BY <2>2, <2>3, <2>4, <2>5 DEF IInv, NetworkAgrees
<1>. QED  BY <1>1, <1>2 DEF Next

\* The inductive invariant: tmc barriers know how many wait, every participant has been
\* let out as often as any other, and every packet is on its way or has arrived.
THEOREM InvariantHolds == Spec => []IInv
BY InitInv, InductiveStep, PTL DEF Spec

\* Everything sent arrives, once, in order, under its sender's name, from ssmp_init to
\* ssmp_term: ssmp_send_platf and the receives of platform/tilera.
THEOREM DeliversAll == Spec => []Delivered
<1>1. IInv => Delivered
  <2> SUFFICES ASSUME IInv, NEW p \in Procs, NEW q \in Procs
               PROVE  Accounts(Pending(q), p, q)
    BY DEF Delivered
  <2>1. Bound(q) /\ Nth(q) # -1 /\ Accounts(queue[Nth(q)], p, q)
    BY CpusApart, ConstantFacts DEF IInv
  <2>2. Pending(q) = queue[Nth(q)]
    BY <2>1 DEF Bound, Pending
  <2>. QED  BY <2>1, <2>2
<1>. QED  BY <1>1, InvariantHolds, PTL

\* Nobody leaves its k-th wait on a barrier before every participant has entered its
\* k-th wait on it, for any values of the color function (arch/tile ssmp_barrier_wait).
THEOREM NobodyEarly == Spec => []Together
<1>1. IInv => Together
  <2> SUFFICES ASSUME IInv, NEW b \in Barriers, NEW p \in Participants(b), NEW q \in Participants(b)
               PROVE  left[b][p] <= entered[b][q]
    BY DEF Together
  <2>1. Counted(b) /\ left[b][p] \in Nat /\ entered[b][p] \in Nat /\ entered[b][q] \in Nat
    BY DEF IInv, TypeOK
  <2>2. entered[b][p] = left[b][p] + (IF In(p, b) THEN 1 ELSE 0) /\ Passed(b, p) = Passed(b, q)
    BY <2>1 DEF Counted
  <2>3. Waiting(p, b) => In(p, b)
    BY DEF Waiting, In
  <2>. QED  BY <2>1, <2>2, <2>3 DEF Passed
<1>. QED  BY <1>1, InvariantHolds, PTL
=============================================================================
