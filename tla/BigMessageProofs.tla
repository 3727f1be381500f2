-------------------------- MODULE BigMessageProofs --------------------------
(***************************************************************************)
(* Big messages between any number of processes: the chunks of a pair      *)
(* arrive in order and its ends take turns on the sender's chunk buffer,   *)
(* if nobody else receives from that sender (the buffer is not addressed)  *)
(* and whole chunks end in a zero byte (that byte is the buffer's state).  *)
(***************************************************************************)
EXTENDS BigMessage, TLAPS

\* A sender's only chunk buffer has one reader.
OneReceiver == \A c, d \in Pairs : c[1] = d[1] => c = d

\* The last byte of a whole chunk does not raise the flag by itself.
ZeroEnds == LastBytes \subseteq {0}

PCs == {"idle", "sendtest", "fill", "recvtest", "drain"}

LEMMA PairType ==
  ASSUME NEW c \in Pairs
  PROVE  c = <<c[1], c[2]>> /\ c[1] \in Procs /\ c[2] \in Procs /\ c[1] # c[2]
BY BigMessageAssumption

LEMMA AppendFacts ==
  ASSUME NEW S, NEW s \in Seq(S), NEW e \in S
  PROVE  /\ Append(s, e) \in Seq(S)
         /\ Len(Append(s, e)) = Len(s) + 1
         /\ \A k \in 1 .. Len(s) + 1 : Append(s, e)[k] = IF k = Len(s) + 1 THEN e ELSE s[k]
OBVIOUS

(***************************************************************************)
(* Types.                                                                  *)
(***************************************************************************)
\* What is left of a message is a length, whatever the message's was.
LEMMA LeftType ==
  ASSUME TypeOK, NEW p \in Procs
  PROVE  Left(p) \in [chunks : Nat, rest : BOOLEAN]
<1>1. length[p] \in [chunks : Nat, rest : BOOLEAN]
  BY DEF TypeOK
<1>2. CASE Whole(p)
  <2>1. length[p].chunks - 1 \in Nat
    BY <1>1, <1>2 DEF Whole
  <2>. QED  BY <1>1, <1>2, <2>1 DEF Left
<1>3. CASE ~Whole(p)
  BY <1>3 DEF Left
<1>. QED  BY <1>2, <1>3

LEMMA ContinueType ==
  ASSUME TypeOK, NEW p \in Procs, NEW at \in PCs, Continue(p, at)
  PROVE  /\ length' \in [Procs -> [chunks : Nat, rest : BOOLEAN]]
         /\ pc' \in [Procs -> PCs]
         /\ peer' \in [Procs -> Procs]
<1>1. Left(p) \in [chunks : Nat, rest : BOOLEAN]
  BY LeftType
<1>2. length' \in [Procs -> [chunks : Nat, rest : BOOLEAN]]
  BY <1>1 DEF Continue, TypeOK
<1>3. pc' \in [Procs -> PCs]
  BY DEF Continue, TypeOK, PCs
<1>4. peer' \in [Procs -> Procs]
  BY DEF Continue, TypeOK
<1>. QED  BY <1>2, <1>3, <1>4

LEMMA BeginType ==
  ASSUME TypeOK, NEW p \in Procs, NEW q \in Procs, NEW l \in Lengths, NEW at \in PCs,
         Begin(p, at, q, l)
  PROVE  /\ length' \in [Procs -> [chunks : Nat, rest : BOOLEAN]]
         /\ pc' \in [Procs -> PCs]
         /\ peer' \in [Procs -> Procs]
<1>1. l \in [chunks : Nat, rest : BOOLEAN]
  BY BigMessageAssumption
<1>2. length' \in [Procs -> [chunks : Nat, rest : BOOLEAN]]
  BY <1>1 DEF Begin, TypeOK
<1>3. pc' \in [Procs -> PCs] /\ peer' \in [Procs -> Procs]
  BY DEF Begin, TypeOK, PCs
<1>. QED  BY <1>2, <1>3

LEMMA InitType == Init => TypeOK
<1> SUFFICES ASSUME Init PROVE TypeOK
  OBVIOUS
<1>1. body \in [Procs -> [Pieces -> Nat]] /\ data \in [Procs -> [Pieces \cup {LastByte} -> Nat]]
  BY DEF Init, Blank
<1>2. got \in [Pairs -> Seq([Pieces \cup {LastByte} -> Nat])]
  BY DEF Init
<1>3. calls \in [Pairs -> [send : Nat, recv : Nat]]
  BY DEF Init
<1>4. length \in [Procs -> [chunks : Nat, rest : BOOLEAN]]
  BY DEF Init
<1>5. state \in [Procs -> 0 .. 255] /\ byte \in [Procs -> 0 .. 255]
  BY DEF Init, Initial
<1>6. todo \in [Procs -> SUBSET (Pieces \cup {LastByte})]
  BY DEF Init
<1>. QED  BY <1>1, <1>2, <1>3, <1>4, <1>5, <1>6 DEF Init, TypeOK

LEMMA TypeStep ==
  ASSUME TypeOK, NEW p \in Procs, Called(p) \/ Step(p)
  PROVE  TypeOK'
<1>0. LastBytes \subseteq 0 .. 255
  BY BigMessageAssumption
<1>1. ASSUME NEW q \in Procs, NEW l \in Lengths, CallSendBig(p, q, l) PROVE TypeOK'
  <2>1. calls' \in [Pairs -> [send : Nat, recv : Nat]]
    <3>1. <<p, q>> \in Pairs /\ calls[<<p, q>>] \in [send : Nat, recv : Nat]
      BY <1>1 DEF CallSendBig, TypeOK
    <3>2. [calls[<<p, q>>] EXCEPT !.send = @ + 1] \in [send : Nat, recv : Nat]
      BY <3>1
    <3>. QED  BY <1>1, <3>2 DEF CallSendBig, TypeOK
  <2>2. /\ length' \in [Procs -> [chunks : Nat, rest : BOOLEAN]]
        /\ pc' \in [Procs -> PCs]
        /\ peer' \in [Procs -> Procs]
    BY <1>1, BeginType DEF CallSendBig, PCs
  <2>. QED  BY <1>1, <2>1, <2>2 DEF CallSendBig, TypeOK, buffers, PCs
<1>2. ASSUME NEW q \in Procs, NEW l \in Lengths, CallRecvBig(p, q, l) PROVE TypeOK'
  <2>1. calls' \in [Pairs -> [send : Nat, recv : Nat]]
    <3>1. <<q, p>> \in Pairs /\ calls[<<q, p>>] \in [send : Nat, recv : Nat]
      BY <1>2 DEF CallRecvBig, TypeOK
    <3>2. [calls[<<q, p>>] EXCEPT !.recv = @ + 1] \in [send : Nat, recv : Nat]
      BY <3>1
    <3>. QED  BY <1>2, <3>2 DEF CallRecvBig, TypeOK
  <2>2. /\ length' \in [Procs -> [chunks : Nat, rest : BOOLEAN]]
        /\ pc' \in [Procs -> PCs]
        /\ peer' \in [Procs -> Procs]
    BY <1>2, BeginType DEF CallRecvBig, PCs
  <2>. QED  BY <1>2, <2>1, <2>2 DEF CallRecvBig, TypeOK, buffers, PCs
<1>3. ASSUME NEW b \in LastBytes \cup {0}, SendTest(p, b) PROVE TypeOK'
  <2>1. pc' \in [Procs -> PCs]
    BY <1>3 DEF SendTest, TypeOK, PCs
  <2>2. todo' \in [Procs -> SUBSET (Pieces \cup {LastByte})]
    BY <1>3 DEF SendTest, Copied, TypeOK
  <2>3. byte' \in [Procs -> 0 .. 255] /\ filled' \in [Procs -> Nat]
    BY <1>0, <1>3 DEF SendTest, TypeOK
  <2>. QED  BY <1>3, <2>1, <2>2, <2>3 DEF SendTest, TypeOK, buffers, PCs
<1>4. ASSUME NEW x \in Pieces \cup {LastByte}, SendCopy(p, x) PROVE TypeOK'
  <2>1. state' \in [Procs -> 0 .. 255]
    <3>1. state' = state \/ state' = [state EXCEPT ![p] = byte[p]]
      BY <1>4 DEF SendCopy
    <3>2. byte[p] \in 0 .. 255 /\ state \in [Procs -> 0 .. 255]
      BY DEF TypeOK
    <3>. QED  BY <3>1, <3>2
  <2>2. body' \in [Procs -> [Pieces -> Nat]]
    <3>1. body' = body \/ (x \in Pieces /\ body' = [body EXCEPT ![p][x] = filled[p]])
      BY <1>4 DEF SendCopy
    <3>2. x \in Pieces => [body[p] EXCEPT ![x] = filled[p]] \in [Pieces -> Nat]
      BY DEF TypeOK
    <3>. QED  BY <3>1, <3>2 DEF TypeOK
  <2>3. todo' \in [Procs -> SUBSET (Pieces \cup {LastByte})]
    BY <1>4 DEF SendCopy, TypeOK
  <2>. QED  BY <1>4, <2>1, <2>2, <2>3 DEF SendCopy, TypeOK, history
<1>5. CASE SendRaise(p)
  <2>1. /\ length' \in [Procs -> [chunks : Nat, rest : BOOLEAN]]
        /\ pc' \in [Procs -> PCs]
        /\ peer' \in [Procs -> Procs]
    BY <1>5, ContinueType DEF SendRaise, PCs
  <2>2. state' \in [Procs -> 0 .. 255]
    BY <1>5 DEF SendRaise, TypeOK
  <2>. QED  BY <1>5, <2>1, <2>2 DEF SendRaise, TypeOK, history, PCs
<1>6. CASE RecvTest(p)
  <2>1. pc' \in [Procs -> PCs]
    BY <1>6 DEF RecvTest, TypeOK, PCs
  <2>2. todo' \in [Procs -> SUBSET (Pieces \cup {LastByte})]
    BY <1>6 DEF RecvTest, Copied, TypeOK
  <2>. QED  BY <1>6, <2>1, <2>2 DEF RecvTest, TypeOK, buffers, history, PCs
<1>7. ASSUME NEW x \in Pieces \cup {LastByte}, RecvCopy(p, x) PROVE TypeOK'
  <2>1. data' \in [Procs -> [Pieces \cup {LastByte} -> Nat]]
    <3>1. peer[p] \in Procs /\ state[peer[p]] \in Nat /\ (x \in Pieces => body[peer[p]][x] \in Nat)
      <4>1. peer[p] \in Procs
        BY DEF TypeOK
      <4>2. state[peer[p]] \in 0 .. 255
        BY <4>1 DEF TypeOK
      <4>3. body[peer[p]] \in [Pieces -> Nat]
        BY <4>1 DEF TypeOK
      <4>. QED  BY <4>1, <4>2, <4>3
    <3>. QED  BY <1>7, <3>1 DEF RecvCopy, TypeOK
  <2>2. todo' \in [Procs -> SUBSET (Pieces \cup {LastByte})]
    BY <1>7 DEF RecvCopy, TypeOK
  <2>. QED  BY <1>7, <2>1, <2>2 DEF RecvCopy, TypeOK, history, buffers
<1>8. CASE RecvRelease(p)
  <2>1. /\ length' \in [Procs -> [chunks : Nat, rest : BOOLEAN]]
        /\ pc' \in [Procs -> PCs]
        /\ peer' \in [Procs -> Procs]
    BY <1>8, ContinueType DEF RecvRelease, PCs
  <2>2. got' \in [Pairs -> Seq([Pieces \cup {LastByte} -> Nat])]
    <3>1. data[p] \in [Pieces \cup {LastByte} -> Nat]
      BY DEF TypeOK
    <3>2. \A c \in Pairs : Append(got[c], data[p]) \in Seq([Pieces \cup {LastByte} -> Nat])
      <4>1. got \in [Pairs -> Seq([Pieces \cup {LastByte} -> Nat])]
        BY DEF TypeOK
      <4>. QED  BY <3>1, <4>1, AppendFacts
    <3>. QED  BY <1>8, <3>2 DEF RecvRelease, TypeOK
  <2>3. data' \in [Procs -> [Pieces \cup {LastByte} -> Nat]]
    BY <1>8 DEF RecvRelease, TypeOK, Blank
  <2>4. state' \in [Procs -> 0 .. 255]
    BY <1>8 DEF RecvRelease, TypeOK
  <2>. QED  BY <1>8, <2>1, <2>2, <2>3, <2>4 DEF RecvRelease, TypeOK, PCs
<1>. QED
  BY <1>1, <1>2, <1>3, <1>4, <1>5, <1>6, <1>7, <1>8
     DEF Called, Step, ssmp_send_big_platf, ssmp_recv_from_big_platf

\* Lengths are never counted below zero, for any lengths and any interleaving
\* (ssmp_send_big_platf, ssmp_recv_from_big_platf).
THEOREM TypeCorrect == Spec => []TypeOK
<1>1. Init => TypeOK
  BY InitType
<1>2. TypeOK /\ [Next]_vars => TypeOK'
  <2>1. TypeOK /\ UNCHANGED vars => TypeOK'
    BY DEF TypeOK, vars, buffers, history
  <2>. QED  BY <2>1, TypeStep DEF Next
<1>. QED  BY <1>1, <1>2, PTL DEF Spec

(***************************************************************************)
(* Who works on which buffer.                                              *)
(***************************************************************************)
LEMMA Parts ==
  ASSUME TypeOK, NEW p \in Procs
  PROVE  /\ state[p] \in 0 .. 255 /\ filled[p] \in Nat /\ byte[p] \in 0 .. 255
         /\ peer[p] \in Procs /\ pc[p] \in PCs
         /\ todo[p] \subseteq Pieces \cup {LastByte}
         /\ body[p] \in [Pieces -> Nat] /\ data[p] \in [Pieces \cup {LastByte} -> Nat]
<1>1. state[p] \in 0 .. 255 /\ filled[p] \in Nat /\ byte[p] \in 0 .. 255 /\ peer[p] \in Procs
  BY DEF TypeOK
<1>2. pc[p] \in PCs /\ todo[p] \subseteq Pieces \cup {LastByte}
  BY DEF TypeOK, PCs
<1>3. body[p] \in [Pieces -> Nat] /\ data[p] \in [Pieces \cup {LastByte} -> Nat]
  BY DEF TypeOK
<1>. QED  BY <1>1, <1>2, <1>3

LEMMA BusyStep ==
  ASSUME ZeroEnds, TypeOK, \A q \in Procs : Busy(q), NEW p \in Procs, Called(p) \/ Step(p)
  PROVE  \A q \in Procs : Busy(q)'
<1> SUFFICES ASSUME NEW q \in Procs PROVE Busy(q)'
  OBVIOUS
<1>0. Busy(p) /\ Busy(q) /\ pc \in [Procs -> PCs] /\ peer \in [Procs -> Procs] /\ byte \in [Procs -> 0 .. 255]
  BY DEF TypeOK, PCs
<1>1. ASSUME NEW r \in Procs, NEW l \in Lengths, CallSendBig(p, r, l) PROVE Busy(q)'
  BY <1>0, <1>1 DEF CallSendBig, Begin, Busy
<1>2. ASSUME NEW r \in Procs, NEW l \in Lengths, CallRecvBig(p, r, l) PROVE Busy(q)'
  BY <1>0, <1>2 DEF CallRecvBig, Begin, Busy
<1>3. ASSUME NEW b \in LastBytes \cup {0}, SendTest(p, b) PROVE Busy(q)'
  <2>1. b = 0
    BY DEF ZeroEnds
  <2>. QED  BY <1>0, <1>3, <2>1 DEF SendTest, SendReady, Busy
<1>4. ASSUME NEW x \in Pieces \cup {LastByte}, SendCopy(p, x) PROVE Busy(q)'
  BY <1>0, <1>4 DEF SendCopy, Busy
<1>5. CASE SendRaise(p)
  BY <1>0, <1>5 DEF SendRaise, Continue, Busy
<1>6. CASE RecvTest(p)
  BY <1>0, <1>6 DEF RecvTest, Busy
<1>7. ASSUME NEW x \in Pieces \cup {LastByte}, RecvCopy(p, x) PROVE Busy(q)'
  BY <1>0, <1>7 DEF RecvCopy, Busy
<1>8. CASE RecvRelease(p)
  BY <1>0, <1>8 DEF RecvRelease, Continue, Busy
<1>. QED
  BY <1>1, <1>2, <1>3, <1>4, <1>5, <1>6, <1>7, <1>8
     DEF Called, Step, ssmp_send_big_platf, ssmp_recv_from_big_platf

\* What a pair's ends do to its buffer; OneReceiver keeps everybody else away.
LEMMA HandedOverStep ==
  ASSUME OneReceiver, IInv, NEW p \in Procs, Called(p) \/ Step(p),
         NEW s \in Procs, NEW r \in Procs, <<s, r>> \in Pairs
  PROVE  HandedOver(<<s, r>>)'
<1> DEFINE g == got[<<s, r>>]
<1>0. TypeOK /\ Busy(p) /\ s # r /\ HandedOver(<<s, r>>)
  BY PairType DEF IInv
<1>1. /\ pc \in [Procs -> PCs] /\ peer \in [Procs -> Procs]
      /\ state \in [Procs -> 0 .. 255] /\ filled \in [Procs -> Nat]
  BY <1>0 DEF TypeOK, PCs
<1>2. /\ body \in [Procs -> [Pieces -> Nat]]
      /\ data \in [Procs -> [Pieces \cup {LastByte} -> Nat]]
      /\ todo \in [Procs -> SUBSET (Pieces \cup {LastByte})]
  BY <1>0 DEF TypeOK
<1>3. Len(g) \in Nat /\ g \in Seq([Pieces \cup {LastByte} -> Nat])
  <2>1. got \in [Pairs -> Seq([Pieces \cup {LastByte} -> Nat])]
    BY <1>0 DEF TypeOK
  <2>2. g \in Seq([Pieces \cup {LastByte} -> Nat])
    BY <2>1
  <2>. QED  BY <2>2
<1>4. LastByte \notin Pieces
  BY BigMessageAssumption
<1>5. /\ filled[s] = Len(g) + (IF pc[s] = "fill" \/ state[s] # 0 THEN 1 ELSE 0)
      /\ pc[s] = "fill" => state[s] = 0 /\ \A x \in Pieces \ todo[s] : body[s][x] = filled[s]
      /\ state[s] # 0 => state[s] = 1 /\ \A x \in Pieces : body[s][x] = filled[s]
      /\ pc[r] = "drain" /\ peer[r] = s =>
           state[s] = 1 /\ \A x \in Pieces \ todo[r] : data[r][x] = filled[s]
  BY <1>0 DEF HandedOver, Filling, Draining, Full
<1> DEFINE
     Counted == filled'[s] = Len(g') + (IF pc'[s] = "fill" \/ state'[s] # 0 THEN 1 ELSE 0)
     Filled  == pc'[s] = "fill" => state'[s] = 0 /\ \A x \in Pieces \ todo'[s] : body'[s][x] = filled'[s]
     IsFull  == state'[s] # 0 => state'[s] = 1 /\ \A x \in Pieces : body'[s][x] = filled'[s]
     Drained == pc'[r] = "drain" /\ peer'[r] = s =>
                  state'[s] = 1 /\ \A x \in Pieces \ todo'[r] : data'[r][x] = filled'[s]
<1>6. SUFFICES Counted /\ Filled /\ IsFull /\ Drained
  <2>1. <<s, r>>[1] = s /\ <<s, r>>[2] = r
    OBVIOUS
  <2>2. HandedOver(<<s, r>>)' <=>
          /\ Counted /\ Filled
          /\ state'[s] # 0 => Full(s)'
          /\ r \in Draining(s)' => Full(s)' /\ \A x \in Pieces \ todo'[r] : data'[r][x] = filled'[s]
    BY <2>1 DEF HandedOver, Filling
  <2>3. Full(s)' <=> state'[s] = 1 /\ \A x \in Pieces : body'[s][x] = filled'[s]
    BY DEF Full
  <2>4. r \in Draining(s)' <=> pc'[r] = "drain" /\ peer'[r] = s
    BY DEF Draining
  <2>5. state'[s] = 1 => state'[s] # 0
    OBVIOUS
  <2>. QED  BY <2>2, <2>3, <2>4, <2>5
<1>7. ASSUME NEW q \in Procs, NEW l \in Lengths, CallSendBig(p, q, l) \/ CallRecvBig(p, q, l)
      PROVE  Counted /\ Filled /\ IsFull /\ Drained
  <2>1. /\ UNCHANGED <<state, body, todo, byte, data, filled, got>>
        /\ pc[p] = "idle" /\ \A x \in Procs : x # p => pc'[x] = pc[x] /\ peer'[x] = peer[x]
        /\ pc'[p] \in {"sendtest", "recvtest"}
    BY <1>1, <1>7 DEF CallSendBig, CallRecvBig, Begin, buffers
  <2>. QED  BY <1>5, <2>1
<1>8. ASSUME NEW b \in LastBytes \cup {0}, SendTest(p, b)
      PROVE  Counted /\ Filled /\ IsFull /\ Drained
  <2>1. /\ pc[p] = "sendtest" /\ state[p] = 0 /\ UNCHANGED <<state, body, peer, data, got>>
        /\ pc' = [pc EXCEPT ![p] = "fill"] /\ filled' = [filled EXCEPT ![p] = @ + 1]
        /\ \A x \in Procs : x # p => todo'[x] = todo[x]
        /\ Pieces \subseteq todo'[p]
    BY <1>2, <1>8 DEF SendTest, SendReady, Copied, buffers
  <2>2. CASE p = s
    <3>1. Counted
      BY <1>1, <1>3, <1>5, <2>1, <2>2
    <3>2. Filled /\ IsFull
      BY <1>1, <1>5, <2>1, <2>2
    <3>3. Drained
      BY <1>0, <1>1, <1>5, <2>1, <2>2
    <3>. QED  BY <3>1, <3>2, <3>3
  <2>3. CASE p # s
    <3>1. pc'[s] = pc[s] /\ filled'[s] = filled[s] /\ todo'[s] = todo[s]
      BY <1>1, <2>1, <2>3
    <3>2. pc'[r] = "drain" => pc[r] = "drain" /\ todo'[r] = todo[r]
      BY <1>1, <2>1
    <3>. QED  BY <1>5, <2>1, <3>1, <3>2
  <2>. QED  BY <2>2, <2>3
<1>9. ASSUME NEW y \in Pieces \cup {LastByte}, SendCopy(p, y)
      PROVE  Counted /\ Filled /\ IsFull /\ Drained
  <2>1. /\ pc[p] = "fill" /\ UNCHANGED <<pc, peer, data, filled, got>>
        /\ todo' = [todo EXCEPT ![p] = @ \ {y}]
    BY <1>9 DEF SendCopy, history
  <2>2. CASE y = LastByte
    <3>1. state' = [state EXCEPT ![p] = 0] /\ body' = body
      BY <1>0, <1>9, <2>1, <2>2 DEF SendCopy, Busy
    <3>. QED  BY <1>0, <1>1, <1>2, <1>4, <1>5, <2>1, <2>2, <3>1
  <2>3. CASE y # LastByte
    <3>1. state' = state /\ body' = [body EXCEPT ![p][y] = filled[p]]
      BY <1>9, <2>3 DEF SendCopy
    <3>. QED  BY <1>0, <1>1, <1>2, <1>5, <2>1, <2>3, <3>1
  <2>. QED  BY <2>2, <2>3
<1>10. CASE SendRaise(p)
  <2>1. /\ pc[p] = "fill" /\ todo[p] = {} /\ state' = [state EXCEPT ![p] = 1]
        /\ pc'[p] \in {"sendtest", "idle"}
        /\ \A x \in Procs : x # p => pc'[x] = pc[x] /\ peer'[x] = peer[x]
        /\ UNCHANGED <<body, todo, data, filled, got>>
    BY <1>1, <1>10 DEF SendRaise, Continue, history
  <2>. QED  BY <1>0, <1>1, <1>5, <2>1
<1>11. CASE RecvTest(p)
  <2>1. /\ pc[p] = "recvtest" /\ state[peer[p]] # 0 /\ pc' = [pc EXCEPT ![p] = "drain"]
        /\ \A x \in Procs : x # p => todo'[x] = todo[x]
        /\ Pieces \subseteq todo'[p]
        /\ UNCHANGED <<state, body, peer, data, filled, got>>
    BY <1>2, <1>11 DEF RecvTest, Copied, buffers, history
  <2>. QED  BY <1>0, <1>1, <1>5, <2>1
<1>12. ASSUME NEW y \in Pieces \cup {LastByte}, RecvCopy(p, y)
       PROVE  Counted /\ Filled /\ IsFull /\ Drained
  <2>1. /\ pc[p] = "drain" /\ UNCHANGED <<state, body, pc, peer, filled, got>>
        /\ todo' = [todo EXCEPT ![p] = @ \ {y}]
        /\ data' = [data EXCEPT ![p][y] = IF y = LastByte THEN state[peer[p]] ELSE body[peer[p]][y]]
    BY <1>12 DEF RecvCopy, buffers, history
  <2>2. Counted /\ Filled /\ IsFull
    BY <1>0, <1>1, <1>2, <1>5, <2>1
  <2>3. ASSUME pc[r] = "drain", peer[r] = s, NEW x \in Pieces, x \notin todo'[r]
        PROVE  data'[r][x] = filled[s]
    <3>1. state[s] = 1 /\ body[s][x] = filled[s] /\ (x \notin todo[r] => data[r][x] = filled[s])
      <4>1. state[s] = 1 /\ \A z \in Pieces \ todo[r] : data[r][z] = filled[s]
        BY <1>5, <2>3
      <4>2. \A z \in Pieces : body[s][z] = filled[s]
        BY <1>5, <4>1
      <4>. QED  BY <2>3, <4>1, <4>2
    <3>2. CASE p = r /\ x = y
      BY <1>2, <1>4, <2>1, <2>3, <3>1, <3>2
    <3>3. CASE ~(p = r /\ x = y)
      <4>1. x \notin todo[r]
        BY <1>2, <2>1, <2>3, <3>3
      <4>2. data'[r][x] = data[r][x]
        BY <1>2, <2>1, <3>3
      <4>. QED  BY <3>1, <4>1, <4>2
    <3>. QED  BY <3>2, <3>3
  <2>. QED  BY <1>5, <2>1, <2>2, <2>3
<1>13. CASE RecvRelease(p)
  <2>1. /\ pc[p] = "drain" /\ todo[p] = {} /\ state' = [state EXCEPT ![peer[p]] = 0]
        /\ got' = [got EXCEPT ![<<peer[p], p>>] = Append(@, data[p])]
        /\ pc'[p] \in {"recvtest", "idle"}
        /\ \A x \in Procs : x # p => pc'[x] = pc[x] /\ peer'[x] = peer[x] /\ data'[x] = data[x]
        /\ UNCHANGED <<body, todo, filled>>
    BY <1>1, <1>2, <1>13 DEF RecvRelease, Continue
  <2>2. <<peer[p], p>> \in Pairs /\ peer[p] # p /\ data[p] \in [Pieces \cup {LastByte} -> Nat]
    BY <1>0, <1>2, <2>1, PairType DEF Busy
  <2>3. peer[p] = s => p = r
    BY <2>2 DEF OneReceiver
  <2>4. pc'[r] = "drain" => r # p
    BY <2>1
  <2>5. CASE peer[p] = s
    <3>1. p = r /\ state[s] = 1 /\ pc[s] # "fill" /\ filled[s] = Len(g) + 1
      <4>1. p = r /\ state[s] = 1
        BY <1>5, <2>1, <2>3, <2>5
      <4>2. pc[s] # "fill"
        BY <1>5, <4>1
      <4>. QED  BY <1>5, <4>1, <4>2
    <3>2. state'[s] = 0 /\ pc'[s] = pc[s]
      BY <1>0, <1>1, <2>1, <2>5, <3>1
    <3>3. got \in [Pairs -> Seq([Pieces \cup {LastByte} -> Nat])]
      BY <1>0 DEF TypeOK
    <3>4. g' = Append(g, data[p])
      BY <2>1, <2>5, <3>1, <3>3
    <3>5. Len(g') = Len(g) + 1
      BY <1>3, <2>2, <3>4, AppendFacts
    <3>6. Counted
      <4>1. filled'[s] = Len(g')
        BY <2>1, <3>1, <3>5
      <4>2. Len(g') \in Nat
        BY <1>3, <3>5
      <4>. QED  BY <3>1, <3>2, <4>1, <4>2
    <3>. QED  BY <2>1, <2>4, <3>1, <3>2, <3>6
  <2>6. CASE peer[p] # s
    <3>1. state'[s] = state[s] /\ g' = g
      BY <1>1, <2>1, <2>2, <2>6 DEF TypeOK
    <3>2. pc'[s] = "fill" <=> pc[s] = "fill"
      BY <1>1, <2>1
    <3>3. Counted /\ Filled /\ IsFull
      BY <1>5, <2>1, <3>1, <3>2
    <3>4. Drained
      BY <1>5, <2>1, <2>4, <3>1
    <3>. QED  BY <3>3, <3>4
  <2>. QED  BY <2>5, <2>6
<1>. QED
  BY <1>7, <1>8, <1>9, <1>10, <1>11, <1>12, <1>13
     DEF Called, Step, ssmp_send_big_platf, ssmp_recv_from_big_platf

(***************************************************************************)
(* What the receiver hands over is the chunk whose turn it is.             *)
(***************************************************************************)
LEMMA InOrderStep ==
  ASSUME OneReceiver, IInv, NEW p \in Procs, Called(p) \/ Step(p)
  PROVE  InOrder'
<1> SUFFICES ASSUME NEW c \in Pairs
             PROVE  \A k \in DOMAIN got'[c] : \A x \in Pieces : got'[c][k][x] = k
  BY DEF InOrder
<1>0. \A k \in DOMAIN got[c] : \A x \in Pieces : got[c][k][x] = k
  BY DEF IInv, InOrder
<1>1. TypeOK /\ Busy(p) /\ HandedOver(c)
  BY DEF IInv
<1>2. CASE got'[c] = got[c]
  BY <1>0, <1>2
<1>3. CASE RecvRelease(p) /\ c = <<peer[p], p>>
  <2>1. got \in [Pairs -> Seq([Pieces \cup {LastByte} -> Nat])]
    BY <1>1 DEF TypeOK
  <2>2. got[c] \in Seq([Pieces \cup {LastByte} -> Nat]) /\ got'[c] = Append(got[c], data[p])
    BY <1>3, <2>1 DEF RecvRelease
  <2>3. data[p] \in [Pieces \cup {LastByte} -> Nat] /\ Len(got[c]) \in Nat
    <3>1. data[p] \in [Pieces \cup {LastByte} -> Nat]
      BY <1>1 DEF TypeOK
    <3>2. \A S : \A q \in Seq(S) : Len(q) \in Nat
      OBVIOUS
    <3>. QED  BY <2>2, <3>1, <3>2
  <2>4. /\ DOMAIN got'[c] = 1 .. Len(got[c]) + 1
        /\ \A k \in 1 .. Len(got[c]) + 1 :
             got'[c][k] = IF k = Len(got[c]) + 1 THEN data[p] ELSE got[c][k]
    <3>1. /\ Append(got[c], data[p]) \in Seq([Pieces \cup {LastByte} -> Nat])
          /\ Len(Append(got[c], data[p])) = Len(got[c]) + 1
          /\ \A k \in 1 .. Len(got[c]) + 1 :
               Append(got[c], data[p])[k] = IF k = Len(got[c]) + 1 THEN data[p] ELSE got[c][k]
      BY <2>2, <2>3, AppendFacts
    <3>. QED  BY <2>2, <3>1
  <2>5. \A x \in Pieces : data[p][x] = Len(got[c]) + 1
    <3>1. c[1] = peer[p] /\ c[2] = p /\ pc[p] = "drain" /\ todo[p] = {}
      BY <1>3 DEF RecvRelease
    <3>2. p \in Draining(peer[p])
      BY <3>1 DEF Draining
    <3>3. Full(peer[p]) /\ \A x \in Pieces : data[p][x] = filled[peer[p]]
      BY <1>1, <3>1, <3>2 DEF HandedOver
    <3>4. filled[peer[p]] = Len(got[c]) + 1
      BY <1>1, <3>1, <3>3 DEF HandedOver, Full
    <3>. QED  BY <3>3, <3>4
  <2>6. DOMAIN got[c] = 1 .. Len(got[c])
    BY <2>2
  <2>. QED  BY <1>0, <2>3, <2>4, <2>5, <2>6
<1>4. got' = got \/ (RecvRelease(p) /\ \A d \in Pairs : d # <<peer[p], p>> => got'[d] = got[d])
  <2>1. got \in [Pairs -> Seq([Pieces \cup {LastByte} -> Nat])]
    BY <1>1 DEF TypeOK
  <2>2. RecvRelease(p) => \A d \in Pairs : d # <<peer[p], p>> => got'[d] = got[d]
    BY <2>1 DEF RecvRelease
  <2>3. RecvRelease(p) \/ got' = got
    BY DEF Called, Step, ssmp_send_big_platf, ssmp_recv_from_big_platf, CallSendBig, CallRecvBig,
           SendTest, SendCopy, SendRaise, RecvTest, RecvCopy, history
  <2>. QED  BY <2>2, <2>3
<1>. QED  BY <1>2, <1>3, <1>4

LEMMA InitInv == Init => IInv
<1> SUFFICES ASSUME Init PROVE IInv
  OBVIOUS
<1>1. TypeOK
  BY InitType
<1>2. \A p \in Procs : Busy(p)
  BY DEF Init, Busy
<1>3. ASSUME NEW c \in Pairs PROVE HandedOver(c)
  <2>1. c[1] \in Procs /\ c[2] \in Procs
    BY PairType
  <2>2. /\ state[c[1]] = 0 /\ filled[c[1]] = 0 /\ pc[c[1]] = "idle" /\ pc[c[2]] = "idle"
        /\ got[c] = << >>
    BY <2>1 DEF Init, Initial
  <2>. QED  BY <2>2 DEF HandedOver, Filling, Draining, Full
<1>4. InOrder
  BY DEF Init, InOrder
<1>. QED  BY <1>1, <1>2, <1>3, <1>4 DEF IInv

LEMMA InductiveStep == OneReceiver /\ ZeroEnds /\ IInv /\ [Next]_vars => IInv'
<1> SUFFICES ASSUME OneReceiver, ZeroEnds, IInv, [Next]_vars PROVE IInv'
  OBVIOUS
<1>1. CASE UNCHANGED vars
  <2>1. TypeOK' /\ InOrder'
    BY <1>1 DEF IInv, TypeOK, InOrder, vars, buffers, history
  <2>2. \A p \in Procs : Busy(p)'
    BY <1>1 DEF IInv, Busy, vars
  <2>3. \A c \in Pairs : HandedOver(c)'
    BY <1>1 DEF IInv, HandedOver, Filling, Draining, Full, vars, buffers, history
  <2>. QED  BY <2>1, <2>2, <2>3 DEF IInv
<1>2. CASE Next
  <2>1. PICK p \in Procs : Called(p) \/ Step(p)
    BY <1>2 DEF Next
  <2>2. TypeOK'
    BY <2>1, TypeStep DEF IInv
  <2>3. \A q \in Procs : Busy(q)'
    BY <2>1, BusyStep DEF IInv
  <2>4. ASSUME NEW c \in Pairs PROVE HandedOver(c)'
    <3>1. c = <<c[1], c[2]>> /\ c[1] \in Procs /\ c[2] \in Procs
      BY PairType
    <3>2. \A s, r \in Procs : <<s, r>> \in Pairs => HandedOver(<<s, r>>)'
      BY <2>1, HandedOverStep
    <3>. QED  BY <3>1, <3>2
  <2>5. InOrder'
    BY <2>1, InOrderStep
  <2>. QED  BY <2>2, <2>3, <2>4, <2>5 DEF IInv
<1>. QED  BY <1>1, <1>2

\* The inductive invariant holds of every execution in which a buffer has one reader
\* and the last byte of a whole chunk is zero, and it is what the two theorems
\* below follow from.
THEOREM InvariantHolds == OneReceiver /\ ZeroEnds => (Spec => []IInv)
<1> SUFFICES ASSUME OneReceiver /\ ZeroEnds PROVE Spec => []IInv
  OBVIOUS
<1>1. Init => IInv
  BY InitInv
<1>2. IInv /\ [Next]_vars => IInv'
  BY InductiveStep
<1>. QED  BY <1>1, <1>2, PTL DEF Spec

\* The k-th chunk received is the k-th chunk sent, up to its last byte, for any
\* processes, pairs, lengths and interleavings (ssmp_recv_from_big_platf).
THEOREM ChunksInOrder == OneReceiver /\ ZeroEnds => (Spec => []InOrder)
<1> SUFFICES ASSUME OneReceiver /\ ZeroEnds PROVE Spec => []InOrder
  OBVIOUS
<1>1. IInv => InOrder
  BY DEF IInv
<1>. QED  BY <1>1, InvariantHolds, PTL

\* A sender never fills a chunk buffer that is being read, and nobody but one
\* receiver reads it, although no lock is taken.
THEOREM EndsTakeTurns == OneReceiver /\ ZeroEnds => (Spec => []TakeTurns)
<1> SUFFICES ASSUME OneReceiver /\ ZeroEnds PROVE Spec => []TakeTurns
  OBVIOUS
<1>1. IInv => TakeTurns
  <2> SUFFICES ASSUME IInv, NEW s \in Procs
               PROVE  /\ Filling(s) => Draining(s) = {}
                      /\ \A p, q \in Draining(s) : p = q
    BY DEF TakeTurns
  <2>1. \A p \in Draining(s) : p \in Procs /\ <<s, p>> \in Pairs
    BY DEF IInv, Draining, Busy
  <2>2. Filling(s) => Draining(s) = {}
    <3> SUFFICES ASSUME Filling(s), NEW p \in Draining(s) PROVE FALSE
      OBVIOUS
    <3>1. HandedOver(<<s, p>>)
      BY <2>1 DEF IInv
    <3>2. state[s] = 0 /\ Full(s)
      BY <3>1 DEF HandedOver
    <3>. QED  BY <3>2 DEF Full
  <2>3. \A p, q \in Draining(s) : p = q
    <3> SUFFICES ASSUME NEW p \in Draining(s), NEW q \in Draining(s) PROVE p = q
      OBVIOUS
    <3>1. <<s, p>> \in Pairs /\ <<s, q>> \in Pairs
      BY <2>1
    <3>. QED  BY <3>1 DEF OneReceiver
  <2>. QED  BY <2>2, <2>3
<1>. QED  BY <1>1, InvariantHolds, PTL
=============================================================================
