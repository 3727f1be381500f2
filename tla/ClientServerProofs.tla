------------------------- MODULE ClientServerProofs -------------------------
(***************************************************************************)
(* The client/server benchmark, for any number of processes, servers and   *)
(* messages and every build: every answer matches its question and finds   *)
(* its line free; and with more messages than servers, a server that stops *)
(* because it has counted enough low numbers leaves nothing unserved.      *)
(***************************************************************************)
EXTENDS ClientServer, ColorBufferProofs

LEMMA Places ==
  /\ Dsl \subseteq Procs /\ App \subseteq Procs /\ Procs \subseteq Nat
  /\ 0 \in Dsl /\ 1 \in App /\ 0 \notin App /\ \A p \in App, d \in Dsl : p # d
  /\ \A p \in Procs : p \in App \/ p \in Dsl
  /\ IsFiniteSet(App)
<1>1. Dsl \subseteq Procs /\ App \subseteq Procs /\ Procs \subseteq Nat
  BY ClientServerAssumption DEF Dsl, App, Procs
<1>2. 0 \in Procs /\ 1 \in Procs
  BY ClientServerAssumption DEF Procs
<1>3. 0 % DslPerCore = 0 /\ 1 % DslPerCore = 1
  BY ClientServerAssumption
<1>4. 0 \in Dsl /\ 1 \in App /\ 0 \notin App /\ \A p \in App, d \in Dsl : p # d
  BY <1>2, <1>3 DEF Dsl, App, color_dsl
<1>5. IsFiniteSet(Procs)
  BY ClientServerAssumption, FS_Interval DEF Procs
<1>6. IsFiniteSet(App)
  BY <1>1, <1>5, FS_Subset
<1>. QED  BY <1>1, <1>4, <1>6 DEF App

LEMMA Lines ==
  ASSUME NEW p \in App, NEW d \in Dsl
  PROVE  <<p, d>> \in Chan /\ <<d, p>> \in Chan
BY Places DEF Chan

\* The servers and the clients, each once, as the loops over the cores list them.
Listed(s, S) ==
  /\ Len(s) \in Nat \ {0}
  /\ \A i \in 1 .. Len(s) : s[i] \in S
  /\ \A i, j \in 1 .. Len(s) : s[i] = s[j] => i = j
  /\ \A x \in S : \E i \in 1 .. Len(s) : s[i] = x

LEMMA Sequences ==
  /\ Listed(dsl_seq, Dsl) /\ Listed(app_seq, App)
  /\ Cardinality(App) = Len(app_seq)
<1>1. ASSUME NEW S, S \subseteq Procs, S # {}
      PROVE  Listed(in_order(S, N), S)
  <2>1. N \in Nat /\ S \subseteq Nat /\ \A x \in S : x < N
    BY <1>1, ClientServerAssumption DEF Procs
  <2>2. Ascending(in_order(S, N), S, N)
    BY <2>1, InOrderHolds
  <2> DEFINE s == in_order(S, N)
  <2>3. s \in Seq(Nat) /\ Ascending(s, S, N)
    BY <2>2 DEF Ascending
  <2> HIDE DEF s
  <2>4. Len(s) \in Nat
    BY <2>3
  <2>5. \A x \in S : \E i \in 1 .. Len(s) : s[i] = x
    BY <2>1, <2>3 DEF Ascending
  <2>6. PICK x \in S : TRUE
    BY <1>1
  <2>7. Len(s) # 0
    BY <2>4, <2>5, <2>6
  <2>8. ASSUME NEW i \in 1 .. Len(s), NEW j \in 1 .. Len(s), s[i] = s[j], i # j PROVE FALSE
    <3>1. s[i] \in Nat /\ s[j] \in Nat /\ (i < j \/ j < i)
      BY <2>1, <2>3, <2>4, <2>8 DEF Ascending
    <3>. QED  BY <2>3, <2>8, <3>1 DEF Ascending
  <2>9. Listed(s, S)
    BY <2>3, <2>4, <2>5, <2>7, <2>8 DEF Listed, Ascending
  <2>. QED  BY <2>9 DEF s
<1>2. Listed(dsl_seq, Dsl) /\ Listed(app_seq, App)
  BY <1>1, Places DEF dsl_seq, app_seq
<1>3. Cardinality(App) = Len(app_seq)
  <2> DEFINE n == Len(app_seq)
  <2> DEFINE f == [i \in 1 .. n |-> app_seq[i]]
  <2>1. f \in Bijection(1 .. n, App) /\ n \in Nat /\ n # 0
    BY <1>2 DEF Listed, Bijection, Injection, Surjection, IsInjective
  <2>2. ExistsBijection(1 .. n, App)
    BY <2>1 DEF ExistsBijection
  <2> HIDE DEF n, f
  <2>3. IsFiniteSet(1 .. n) /\ Cardinality(1 .. n) = n
    <3>1. Cardinality(1 .. n) = IF 1 > n THEN 0 ELSE n - 1 + 1
      BY <2>1, FS_Interval
    <3>. QED  BY <2>1, <3>1, FS_Interval
  <2>4. Cardinality(App) = n
    BY <2>2, <2>3, FS_Bijection
  <2>. QED  BY <2>4 DEF n
<1>. QED  BY <1>2, <1>3

(***************************************************************************)
(* One channel at a time.                                                  *)
(***************************************************************************)
ChanOK ==
  /\ accepted \in [Chan -> Nat] /\ delivered \in [Chan -> Seq([{"w"} -> Nat])]
  /\ \A c \in Chan : accepted[c] \in {Len(delivered[c]), Len(delivered[c]) + 1}
  /\ w0 \in [Chan -> Int]

\* No channel but x changes.
Only(x) == \A c \in Chan : c # x => (Pending(c)' <=> Pending(c)) /\ w0'[c] = w0[c]

LEMMA Sending ==
  ASSUME ChanOK, NEW x \in Chan, NEW m \in Int, Send(x, m)
  PROVE  ChanOK' /\ Only(x) /\ ~Pending(x) /\ Pending(x)' /\ w0'[x] = m
<1>1. /\ accepted[x] = Len(delivered[x]) /\ accepted' = [accepted EXCEPT ![x] = @ + 1]
      /\ delivered' = delivered /\ w0' = [w0 EXCEPT ![x] = m]
  BY DEF Send, Channel!Accept
<1>2. \A c \in Chan : accepted[c] \in Nat /\ Len(delivered[c]) \in Nat
  BY DEF ChanOK
<1>3. accepted' \in [Chan -> Nat] /\ w0' \in [Chan -> Int] /\ w0'[x] = m
  BY <1>1, <1>2 DEF ChanOK
<1>4. accepted'[x] = accepted[x] + 1
      /\ \A c \in Chan : c # x => accepted'[c] = accepted[c] /\ w0'[c] = w0[c]
  BY <1>1 DEF ChanOK
<1>5. \A c \in Chan : accepted'[c] \in {Len(delivered'[c]), Len(delivered'[c]) + 1}
  BY <1>1, <1>2, <1>4 DEF ChanOK
<1>6. ChanOK'
  BY <1>1, <1>3, <1>5 DEF ChanOK
<1>7. Only(x)
  BY <1>1, <1>4 DEF Only, Pending
<1>8. ~Pending(x) /\ Pending(x)'
  BY <1>1, <1>2, <1>4 DEF Pending
<1>. QED  BY <1>3, <1>6, <1>7, <1>8

\* On a free line, ssmp_send_no_sync sends as ssmp_send does.
LEMMA SendingNoSync ==
  ASSUME ChanOK, NEW x \in Chan, NEW m \in Int, SendNoSync(x, m), ~Pending(x)
  PROVE  Send(x, m)
<1>1. accepted[x] = Len(delivered[x])
  <2>1. accepted[x] \in Nat /\ Len(delivered[x]) \in Nat /\ accepted[x] \in {Len(delivered[x]), Len(delivered[x]) + 1}
    BY DEF ChanOK
  <2>. QED  BY <2>1 DEF Pending
<1>. QED  BY <1>1 DEF SendNoSync, Send, Channel!Accept

LEMMA Receiving ==
  ASSUME ChanOK, NEW x \in Chan, Recv(x)
  PROVE  ChanOK' /\ Only(x) /\ Pending(x) /\ ~Pending(x)' /\ w0' = w0
<1>1. /\ Len(delivered[x]) < accepted[x] /\ accepted' = accepted /\ w0' = w0
      /\ delivered' = [delivered EXCEPT ![x] = Append(@, Channel!Line(accepted[x]))]
  BY DEF Recv, Channel!Deliver
<1>2. \A c \in Chan : accepted[c] \in Nat /\ Len(delivered[c]) \in Nat
                     /\ delivered[c] \in Seq([{"w"} -> Nat])
  BY DEF ChanOK
<1>3. Channel!Line(accepted[x]) \in [{"w"} -> Nat]
  BY <1>2 DEF Channel!Line
<1>4. /\ Append(delivered[x], Channel!Line(accepted[x])) \in Seq([{"w"} -> Nat])
      /\ Len(Append(delivered[x], Channel!Line(accepted[x]))) = Len(delivered[x]) + 1
  BY <1>2, <1>3
<1>5. delivered' \in [Chan -> Seq([{"w"} -> Nat])]
  BY <1>1, <1>4 DEF ChanOK
<1>6. Len(delivered'[x]) = Len(delivered[x]) + 1
      /\ \A c \in Chan : c # x => delivered'[c] = delivered[c]
  BY <1>1, <1>4 DEF ChanOK
<1>7. accepted[x] = Len(delivered[x]) + 1
  BY <1>1, <1>2 DEF ChanOK
<1>8. \A c \in Chan : accepted'[c] \in {Len(delivered'[c]), Len(delivered'[c]) + 1}
  BY <1>1, <1>2, <1>6, <1>7 DEF ChanOK
<1>9. ChanOK'
  BY <1>1, <1>5, <1>8 DEF ChanOK
<1>10. Only(x)
  BY <1>1, <1>6 DEF Only, Pending
<1>11. Pending(x) /\ ~Pending(x)'
  BY <1>1, <1>2, <1>6, <1>7 DEF Pending
<1>. QED  BY <1>1, <1>9, <1>10, <1>11

LEMMA ChannelTypes == TypeOK => ChanOK
BY DEF TypeOK, ChanOK

(***************************************************************************)
(* Types and phases, one action after the other.                           *)
(***************************************************************************)
Calls == Working \cup {"report", "turn", "closing", "done"}

\* No process but p changes anything of its own.
Alone(p) ==
  /\ defined' = defined
  /\ \A q \in Procs : q # p =>
       /\ pc'[q] = pc[q] /\ left'[q] = left[q] /\ msg'[q] = msg[q]
       /\ co'[q] = co[q] /\ waits'[q] = waits[q]
       /\ q \in App => to'[q] = to[q] /\ to_idx'[q] = to_idx[q]
       /\ q \in Dsl => peer'[q] = peer[q]

\* p stays well typed and in its phase, and no wait is taken back.
Placed(p) == TypeOK' /\ Alone(p) /\ Phase(p)' /\ waits'[p] \in {waits[p], waits[p] + 1}

LEMMA OthersPhase ==
  ASSUME Trips, NEW p \in Procs, Placed(p)
  PROVE  /\ \A q \in Procs : Phase(q)'
         /\ \A q \in Procs : waits'[q] >= waits[q]
<1>1. \A q \in Procs : waits[q] \in Nat /\ waits'[q] \in Nat
  BY DEF Trips, TypeOK, Placed
<1>2. \A q \in Procs : waits'[q] >= waits[q]
  BY <1>1 DEF Placed, Alone
<1>3. ASSUME NEW q \in Procs, q # p PROVE Phase(q)'
  <2>1. Phase(q)
    BY DEF Trips
  <2>2. co[q] > 0 => \A r \in Procs : waits'[r] >= 3
    BY <1>1, <1>2, <2>1 DEF Phase
  <2>. QED  BY <1>3, <2>1, <2>2 DEF Placed, Alone, Phase
<1>. QED  BY <1>2, <1>3 DEF Placed

LEMMA Going ==
  ASSUME TypeOK, NEW p \in Procs, NEW at \in Calls, Goto(p, at)
  PROVE  pc' \in [Procs -> Calls] /\ pc'[p] = at /\ \A q \in Procs : q # p => pc'[q] = pc[q]
BY DEF Goto, TypeOK, Calls

LEMMA Entering ==
  ASSUME TypeOK, NEW p \in Procs, EnterWait(p)
  PROVE  waits' \in [Procs -> Nat] /\ waits'[p] = waits[p] + 1 /\ \A q \in Procs : q # p => waits'[q] = waits[q]
BY DEF EnterWait, TypeOK

LEMMA OpenPlaces ==
  ASSUME Trips, NEW p \in Procs, Open(p), defined' = defined
  PROVE  Placed(p) /\ pc[p] \in {"open", "ready"} /\ pc'[p] \in {"ready", "serve", "request"} /\ left' = left
         /\ msg' = msg /\ UNCHANGED <<chans, to, to_idx, peer>>
<1>1. TypeOK /\ Phase(p) /\ waits[p] \in Nat
  BY DEF Trips, TypeOK
<1>2. /\ UNCHANGED <<accepted, delivered, w0, to, to_idx, left, start, msg, peer, co>>
      /\ \/ pc[p] = "open" /\ EnterWait(p) /\ Goto(p, "ready")
         \/ pc[p] = "ready" /\ waits' = waits /\ Goto(p, IF p \in Dsl THEN "serve" ELSE "request")
  BY DEF Open, chans
<1>3. PICK at \in Calls : /\ Goto(p, at)
                          /\ \/ pc[p] = "open" /\ at = "ready" /\ EnterWait(p)
                             \/ pc[p] = "ready" /\ waits' = waits /\ at = IF p \in Dsl THEN "serve" ELSE "request"
  BY <1>2 DEF Calls, Working
<1>4. pc' \in [Procs -> Calls] /\ pc'[p] = at /\ \A q \in Procs : q # p => pc'[q] = pc[q]
  BY <1>1, <1>3, Going
<1>5. /\ waits' \in [Procs -> Nat] /\ waits'[p] = IF at = "ready" THEN waits[p] + 1 ELSE waits[p]
      /\ \A q \in Procs : q # p => waits'[q] = waits[q]
  <2>1. CASE EnterWait(p)
    BY <1>1, <1>3, <2>1, Entering
  <2>2. CASE waits' = waits /\ at # "ready"
    BY <1>1, <2>2 DEF TypeOK
  <2>. QED  BY <1>3, <2>1, <2>2
<1>6. TypeOK'
  BY <1>1, <1>2, <1>4, <1>5 DEF TypeOK, Calls
<1>7. Alone(p)
  BY <1>2, <1>4, <1>5 DEF Alone
<1>8. co[p] = 0
  <2>1. waits[p] <= 2 /\ co[p] \in Nat
    BY <1>1, <1>3 DEF Phase, Working, TypeOK
  <2>. QED  BY <1>1, <2>1 DEF Phase
<1>9. Phase(p)'
  BY <1>1, <1>2, <1>3, <1>4, <1>5, <1>8, Places DEF Phase, Working
<1>. QED  BY <1>2, <1>3, <1>4, <1>5, <1>6, <1>7, <1>9 DEF Placed, chans

LEMMA RequestPlaces ==
  ASSUME Trips, NEW p \in App, Request(p), defined' = defined
  PROVE  /\ Placed(p) /\ pc[p] = "request" /\ left[p] \in Nat \ {0} /\ left'[p] = left[p] - 1
         /\ to[p] \in Dsl /\ Send(<<p, to[p]>>, left[p] - 1) /\ msg'[p] = left[p] - 1
         /\ UNCHANGED <<peer, waits>>
         /\ \/ /\ "ROUNDTRIP" \in defined /\ pc'[p] = "reply" /\ to' = to /\ to_idx' = to_idx
            \/ "ROUNDTRIP" \notin defined /\ pc'[p] = "request" /\ NextServer(p)
<1>1. TypeOK /\ ChanOK /\ Phase(p) /\ p \in Procs
  BY ChannelTypes, Places DEF Trips
<1>2. /\ pc[p] = "request" /\ left[p] \in Nat \ {0} /\ to[p] \in Dsl /\ Send(<<p, to[p]>>, left[p] - 1)
      /\ left' = [left EXCEPT ![p] = @ - 1] /\ msg' = [msg EXCEPT ![p] = left[p] - 1]
      /\ UNCHANGED <<start, peer, co, waits>>
  BY <1>1 DEF Request, TypeOK
<1>3. \/ "ROUNDTRIP" \in defined /\ Goto(p, "reply") /\ to' = to /\ to_idx' = to_idx
      \/ "ROUNDTRIP" \notin defined /\ NextServer(p) /\ pc' = pc
  BY DEF Request
<1>4. ChanOK'
  <2>1. <<p, to[p]>> \in Chan
    BY <1>2, Lines
  <2>2. left[p] - 1 \in Int
    BY <1>2
  <2>. QED  BY <1>1, <1>2, <2>1, <2>2, Sending
<1>5. /\ pc' \in [Procs -> Calls] /\ \A q \in Procs : q # p => pc'[q] = pc[q]
      /\ pc'[p] = IF "ROUNDTRIP" \in defined THEN "reply" ELSE "request"
  <2>1. "reply" \in Calls
    BY DEF Calls, Working
  <2>2. CASE Goto(p, "reply")
    BY <1>1, <1>2, <1>3, <2>1, <2>2, Going DEF TypeOK
  <2>3. CASE pc' = pc
    BY <1>1, <1>2, <1>3, <2>3, Going DEF TypeOK, Calls, Goto
  <2>. QED  BY <1>3, <2>2, <2>3
<1>6. /\ to' \in [App -> Dsl] /\ to_idx' \in [App -> 1 .. Len(dsl_seq)]
      /\ \A q \in App : q # p => to'[q] = to[q] /\ to_idx'[q] = to_idx[q]
  <2>1. to \in [App -> Dsl] /\ to_idx \in [App -> 1 .. Len(dsl_seq)]
    BY <1>1 DEF TypeOK
  <2>2. Len(dsl_seq) \in Nat \ {0} /\ dsl_seq[to_idx[p]] \in Dsl
    BY <2>1, Sequences DEF Listed
  <2>3. (IF to_idx[p] = Len(dsl_seq) THEN 1 ELSE to_idx[p] + 1) \in 1 .. Len(dsl_seq)
    BY <2>1, <2>2
  <2>. QED  BY <1>3, <2>1, <2>2, <2>3 DEF NextServer
<1>7. left' \in [Procs -> Nat] /\ left'[p] = left[p] - 1 /\ \A q \in Procs : q # p => left'[q] = left[q]
  BY <1>1, <1>2 DEF TypeOK
<1>8. msg' \in [Procs -> Int] /\ msg'[p] = left[p] - 1 /\ \A q \in Procs : q # p => msg'[q] = msg[q]
  BY <1>1, <1>2 DEF TypeOK
<1>9. TypeOK'
  BY <1>1, <1>2, <1>4, <1>5, <1>6, <1>7, <1>8 DEF TypeOK, ChanOK, Calls
<1>10. Alone(p)
  BY <1>2, <1>5, <1>6, <1>7, <1>8 DEF Alone
<1>11. Phase(p)'
  BY <1>1, <1>2, <1>5, Places DEF Phase, Working
<1>. QED  BY <1>2, <1>3, <1>5, <1>7, <1>8, <1>9, <1>10, <1>11 DEF Placed

LEMMA ReplyPlaces ==
  ASSUME Trips, NEW p \in App, Reply(p), defined' = defined
  PROVE  /\ Placed(p) /\ pc[p] = "reply" /\ pc'[p] = "request" /\ to[p] \in Dsl
         /\ Recv(<<to[p], p>>) /\ msg'[p] = w0[<<to[p], p>>] /\ NextServer(p) /\ UNCHANGED <<left, peer, waits>>
<1>1. TypeOK /\ ChanOK /\ Phase(p) /\ p \in Procs /\ "request" \in Calls
  BY ChannelTypes, Places DEF Trips, Calls, Working
<1>2. /\ pc[p] = "reply" /\ to[p] \in Dsl /\ Recv(<<to[p], p>>) /\ NextServer(p) /\ Goto(p, "request")
      /\ msg' = [msg EXCEPT ![p] = w0[<<to[p], p>>]]
      /\ UNCHANGED <<left, start, peer, co, waits>>
  BY <1>1 DEF Reply, TypeOK
<1>3. <<to[p], p>> \in Chan
  BY <1>2, Lines
<1>4. ChanOK'
  BY <1>1, <1>2, <1>3, Receiving
<1>5. pc' \in [Procs -> Calls] /\ pc'[p] = "request" /\ \A q \in Procs : q # p => pc'[q] = pc[q]
  BY <1>1, <1>2, Going
<1>6. /\ to' \in [App -> Dsl] /\ to_idx' \in [App -> 1 .. Len(dsl_seq)]
      /\ \A q \in App : q # p => to'[q] = to[q] /\ to_idx'[q] = to_idx[q]
  <2>1. to \in [App -> Dsl] /\ to_idx \in [App -> 1 .. Len(dsl_seq)]
    BY <1>1 DEF TypeOK
  <2>2. Len(dsl_seq) \in Nat \ {0} /\ dsl_seq[to_idx[p]] \in Dsl
    BY <2>1, Sequences DEF Listed
  <2>3. (IF to_idx[p] = Len(dsl_seq) THEN 1 ELSE to_idx[p] + 1) \in 1 .. Len(dsl_seq)
    BY <2>1, <2>2
  <2>. QED  BY <1>2, <2>1, <2>2, <2>3 DEF NextServer
<1>7. /\ msg' \in [Procs -> Int] /\ msg'[p] = w0[<<to[p], p>>]
      /\ \A q \in Procs : q # p => msg'[q] = msg[q]
  BY <1>1, <1>2, <1>3 DEF TypeOK
<1>8. TypeOK'
  BY <1>1, <1>2, <1>4, <1>5, <1>6, <1>7 DEF TypeOK, ChanOK, Calls
<1>9. Alone(p)
  BY <1>2, <1>5, <1>6, <1>7 DEF Alone
<1>10. Phase(p)'
  BY <1>1, <1>2, <1>5, Places DEF Phase, Working
<1>. QED  BY <1>2, <1>5, <1>7, <1>8, <1>9, <1>10 DEF Placed

LEMMA ClientDonePlaces ==
  ASSUME Trips, NEW p \in App, ClientDone(p), defined' = defined
  PROVE  /\ Placed(p) /\ pc[p] = "request" /\ pc'[p] = "report"
         /\ UNCHANGED <<chans, to, to_idx, left, msg, peer, waits>>
<1>1. TypeOK /\ Phase(p) /\ p \in Procs /\ "report" \in Calls
  BY Places DEF Trips, Calls
<1>2. /\ pc[p] = "request" /\ Goto(p, "report")
      /\ UNCHANGED <<accepted, delivered, w0, to, to_idx, left, start, msg, peer, co, waits>>
  BY DEF ClientDone, chans
<1>3. pc' \in [Procs -> Calls] /\ pc'[p] = "report" /\ \A q \in Procs : q # p => pc'[q] = pc[q]
  BY <1>1, <1>2, Going
<1>4. TypeOK'
  BY <1>1, <1>2, <1>3 DEF TypeOK, Calls
<1>5. Alone(p)
  BY <1>2, <1>3 DEF Alone
<1>6. Phase(p)'
  BY <1>1, <1>2, <1>3, Places DEF Phase, Working
<1>. QED  BY <1>2, <1>3, <1>4, <1>5, <1>6 DEF Placed, chans

LEMMA ScanMissPlaces ==
  ASSUME Trips, NEW p \in Dsl, ScanMiss(p), defined' = defined
  PROVE  Placed(p) /\ pc' = pc /\ UNCHANGED <<chans, to, to_idx, left, msg, peer, waits>>
<1>1. TypeOK /\ Phase(p) /\ p \in Procs
  BY Places DEF Trips
<1>2. /\ start' = [start EXCEPT ![p] = (@ % Len(app_seq)) + 1]
      /\ UNCHANGED <<accepted, delivered, w0, pc, to, to_idx, left, msg, peer, co, waits>>
  BY DEF ScanMiss, Rotate, chans
<1>3. start' \in [Dsl -> 1 .. Len(app_seq)]
  <2>1. (start[p] % Len(app_seq)) + 1 \in 1 .. Len(app_seq)
    <3>1. Len(app_seq) \in Nat \ {0} /\ start[p] \in 1 .. Len(app_seq)
      BY <1>1, Sequences DEF TypeOK, Listed
    <3>. QED  BY <3>1
  <2>. QED  BY <1>1, <1>2, <2>1 DEF TypeOK
<1>4. TypeOK'
  BY <1>1, <1>2, <1>3 DEF TypeOK
<1>5. Alone(p)
  BY <1>2 DEF Alone
<1>6. Phase(p)'
  BY <1>1, <1>2 DEF Phase
<1>. QED  BY <1>2, <1>4, <1>5, <1>6 DEF Placed, chans

\* What a server does with a number it has counted or not.
LEMMA Counting ==
  ASSUME TypeOK, NEW d \in Dsl, left[d] \in Nat \ {0}, NEW m \in Int, Count(d, m)
  PROVE  /\ left' \in [Procs -> Nat] /\ left'[d] = IF Low(m) THEN left[d] - 1 ELSE left[d]
         /\ \A q \in Procs : q # d => left'[q] = left[q]
         /\ pc' \in [Procs -> Calls] /\ pc'[d] \in {"report", "serve"} /\ (pc'[d] = "report" <=> left'[d] = 0)
         /\ \A q \in Procs : q # d => pc'[q] = pc[q]
<1>1. d \in Procs /\ left \in [Procs -> Nat] /\ left' = [left EXCEPT ![d] = IF Low(m) THEN @ - 1 ELSE @]
  BY Places DEF Count, TypeOK
<1>2. PICK at \in Calls : Goto(d, at) /\ at = IF Low(m) /\ left[d] = 1 THEN "report" ELSE "serve"
  BY DEF Count, Calls, Working
<1>3. pc' \in [Procs -> Calls] /\ pc'[d] = at /\ \A q \in Procs : q # d => pc'[q] = pc[q]
  BY <1>1, <1>2, Going
<1>4. at \in {"report", "serve"}
  BY <1>2
<1>5. CASE Low(m)
  <2>1. left' = [left EXCEPT ![d] = left[d] - 1] /\ left[d] - 1 \in Nat
    BY <1>1, <1>5
  <2>2. left' \in [Procs -> Nat] /\ left'[d] = left[d] - 1 /\ \A q \in Procs : q # d => left'[q] = left[q]
    BY <1>1, <2>1
  <2>3. left'[d] = 0 <=> at = "report"
    <3>1. at = IF left[d] = 1 THEN "report" ELSE "serve"
      BY <1>2, <1>5
    <3>. QED  BY <2>2, <3>1
  <2>. QED  BY <1>3, <1>4, <1>5, <2>2, <2>3
<1>6. CASE ~Low(m)
  <2>1. left' = [left EXCEPT ![d] = left[d]]
    BY <1>1, <1>6
  <2>2. left' \in [Procs -> Nat] /\ left'[d] = left[d] /\ \A q \in Procs : q # d => left'[q] = left[q]
    BY <1>1, <2>1
  <2>3. at # "report"
    BY <1>2, <1>6
  <2>. QED  BY <1>3, <1>4, <1>6, <2>2, <2>3
<1>. QED  BY <1>5, <1>6

LEMMA ServePlaces ==
  ASSUME Trips, NEW d \in Dsl, Serve(d), defined' = defined
  PROVE  \E q \in App :
           /\ Placed(d) /\ pc[d] = "serve" /\ Recv(<<q, d>>) /\ msg'[d] = w0[<<q, d>>]
           /\ left[d] \in Nat \ {0} /\ UNCHANGED <<to, to_idx, waits>>
           /\ \/ /\ "ROUNDTRIP" \in defined
                 /\ pc'[d] = "answer" /\ peer'[d] = q /\ left' = left
              \/ /\ "ROUNDTRIP" \notin defined
                 /\ pc'[d] \in {"report", "serve"}
                 /\ left'[d] = IF Low(w0[<<q, d>>]) THEN left[d] - 1 ELSE left[d]
<1>1. TypeOK /\ ChanOK /\ Phase(d) /\ d \in Procs
  BY ChannelTypes, Places DEF Trips
<1>2. PICK q \in App : q = app_seq[start[d]]
  <2>1. start[d] \in 1 .. Len(app_seq)
    BY <1>1 DEF TypeOK
  <2>. QED  BY <2>1, Sequences DEF Listed
<1>3. <<q, d>> \in Chan /\ w0[<<q, d>>] \in Int
  BY <1>1, Lines DEF TypeOK
<1>4. /\ pc[d] = "serve" /\ Recv(<<q, d>>) /\ msg' = [msg EXCEPT ![d] = w0[<<q, d>>]]
      /\ start' = [start EXCEPT ![d] = (@ % Len(app_seq)) + 1]
      /\ UNCHANGED <<to, to_idx, co, waits>>
  BY <1>2 DEF Serve, Scanned, Rotate
<1>5. \/ "ROUNDTRIP" \in defined /\ peer' = [peer EXCEPT ![d] = q] /\ Goto(d, "answer") /\ left' = left
      \/ "ROUNDTRIP" \notin defined /\ Count(d, w0[<<q, d>>]) /\ peer' = peer
  BY <1>2 DEF Serve, Scanned
<1>6. left[d] \in Nat \ {0}
  BY <1>1, <1>4 DEF Phase, Working, TypeOK
<1>7. ChanOK'
  BY <1>1, <1>3, <1>4, Receiving
<1>8. start' \in [Dsl -> 1 .. Len(app_seq)]
  <2>1. (start[d] % Len(app_seq)) + 1 \in 1 .. Len(app_seq)
    <3>1. Len(app_seq) \in Nat \ {0} /\ start[d] \in 1 .. Len(app_seq)
      BY <1>1, Sequences DEF TypeOK, Listed
    <3>. QED  BY <3>1
  <2>. QED  BY <1>1, <1>4, <2>1 DEF TypeOK
<1>9. msg' \in [Procs -> Int] /\ msg'[d] = w0[<<q, d>>] /\ \A r \in Procs : r # d => msg'[r] = msg[r]
  BY <1>1, <1>3, <1>4 DEF TypeOK
<1>10. CASE "ROUNDTRIP" \in defined
  <2>1. peer' = [peer EXCEPT ![d] = q] /\ Goto(d, "answer") /\ left' = left /\ "answer" \in Calls /\ q \in Procs
    BY <1>5, <1>10, Places DEF Calls, Working
  <2>2. pc' \in [Procs -> Calls] /\ pc'[d] = "answer" /\ \A r \in Procs : r # d => pc'[r] = pc[r]
    BY <1>1, <2>1, Going
  <2>3. peer' \in [Dsl -> Procs] /\ peer'[d] = q /\ \A r \in Dsl : r # d => peer'[r] = peer[r]
    BY <1>1, <2>1 DEF TypeOK
  <2>4. TypeOK'
    BY <1>1, <1>4, <1>7, <1>8, <1>9, <2>1, <2>2, <2>3 DEF TypeOK, ChanOK, Calls
  <2>5. Alone(d)
    BY <1>4, <1>9, <2>1, <2>2, <2>3 DEF Alone
  <2>6. Phase(d)'
    BY <1>1, <1>4, <1>6, <1>10, <2>1, <2>2, <2>3 DEF Phase, Working
  <2>. QED  BY <1>4, <1>6, <1>9, <1>10, <2>1, <2>2, <2>3, <2>4, <2>5, <2>6 DEF Placed
<1>11. CASE "ROUNDTRIP" \notin defined
  <2>1. Count(d, w0[<<q, d>>]) /\ peer' = peer
    BY <1>5, <1>11
  <2>2. /\ left' \in [Procs -> Nat] /\ left'[d] = IF Low(w0[<<q, d>>]) THEN left[d] - 1 ELSE left[d]
        /\ \A r \in Procs : r # d => left'[r] = left[r]
        /\ pc' \in [Procs -> Calls] /\ pc'[d] \in {"report", "serve"} /\ (pc'[d] = "report" <=> left'[d] = 0)
        /\ \A r \in Procs : r # d => pc'[r] = pc[r]
    BY <1>1, <1>3, <1>6, <2>1, Counting
  <2>4. TypeOK'
    BY <1>1, <1>4, <1>7, <1>8, <1>9, <2>1, <2>2 DEF TypeOK, ChanOK, Calls
  <2>5. Alone(d)
    BY <1>4, <1>9, <2>1, <2>2 DEF Alone
  <2>6. Phase(d)'
    <3>1. left'[d] > 0 <=> pc'[d] \in Working
      <4>1. left'[d] \in Nat
        BY <1>1, <2>2
      <4>2. pc'[d] \in Working <=> pc'[d] = "serve"
        BY <2>2 DEF Working
      <4>3. left'[d] > 0 <=> left'[d] # 0
        BY <4>1
      <4>4. left'[d] # 0 <=> pc'[d] = "serve"
        BY <2>2
      <4>. QED  BY <4>2, <4>3, <4>4
    <3>. QED  BY <1>1, <1>4, <1>6, <1>11, <2>1, <2>2, <3>1 DEF Phase, Working
  <2>. QED  BY <1>4, <1>6, <1>9, <1>11, <2>1, <2>2, <2>4, <2>5, <2>6 DEF Placed
<1>. QED  BY <1>10, <1>11

LEMMA AnswerPlaces ==
  ASSUME Trips, NEW d \in Dsl, Answer(d), defined' = defined
  PROVE  /\ Placed(d) /\ pc[d] = "answer" /\ peer[d] \in App /\ Send(<<d, peer[d]>>, msg[d])
         /\ left[d] \in Nat \ {0} /\ UNCHANGED <<to, to_idx, msg, waits>>
         /\ pc'[d] \in {"report", "serve"}
         /\ left'[d] = IF Low(msg[d]) THEN left[d] - 1 ELSE left[d]
<1>1. TypeOK /\ ChanOK /\ Phase(d) /\ d \in Procs
  BY ChannelTypes, Places DEF Trips
<1>2. /\ pc[d] = "answer" /\ peer[d] \in App /\ msg[d] \in Int /\ Count(d, msg[d])
      /\ peer' = [peer EXCEPT ![d] = d]
      /\ UNCHANGED <<to, to_idx, start, msg, co, waits>>
  BY <1>1 DEF Answer, Phase, TypeOK
<1>3. <<d, peer[d]>> \in Chan
  BY <1>2, Lines
<1>4. ~Pending(<<d, peer[d]>>)
  <2>1. Question(peer[d], d) /\ Answering(d, peer[d])
    BY <1>2 DEF Trips, Answering
  <2>. QED  BY <2>1 DEF Question
<1>5. Send(<<d, peer[d]>>, msg[d])
  BY <1>1, <1>2, <1>3, <1>4, SendingNoSync DEF Answer, Answered
<1>6. ChanOK'
  BY <1>1, <1>2, <1>3, <1>5, Sending
<1>7. left[d] \in Nat \ {0}
  BY <1>1, <1>2 DEF Phase, Working, TypeOK
<1>8. /\ left' \in [Procs -> Nat] /\ left'[d] = IF Low(msg[d]) THEN left[d] - 1 ELSE left[d]
      /\ \A r \in Procs : r # d => left'[r] = left[r]
      /\ pc' \in [Procs -> Calls] /\ pc'[d] \in {"report", "serve"} /\ (pc'[d] = "report" <=> left'[d] = 0)
      /\ \A r \in Procs : r # d => pc'[r] = pc[r]
  BY <1>1, <1>2, <1>7, Counting
<1>9. peer' \in [Dsl -> Procs] /\ \A r \in Dsl : r # d => peer'[r] = peer[r]
  BY <1>1, <1>2 DEF TypeOK
<1>10. TypeOK'
  BY <1>1, <1>2, <1>6, <1>8, <1>9 DEF TypeOK, ChanOK, Calls
<1>11. Alone(d)
  BY <1>2, <1>8, <1>9 DEF Alone
<1>12. Phase(d)'
  <2>1. left'[d] > 0 <=> pc'[d] \in Working
    <3>1. left'[d] \in Nat
      BY <1>1, <1>8
    <3>2. pc'[d] \in Working <=> pc'[d] = "serve"
      BY <1>8 DEF Working
    <3>3. left'[d] > 0 <=> left'[d] # 0
      BY <3>1
    <3>4. left'[d] # 0 <=> pc'[d] = "serve"
      BY <1>8
    <3>. QED  BY <3>2, <3>3, <3>4
  <2>. QED  BY <1>1, <1>2, <1>8, <2>1 DEF Phase, Working
<1>. QED  BY <1>2, <1>5, <1>7, <1>8, <1>10, <1>11, <1>12 DEF Placed

LEMMA ReportPlaces ==
  ASSUME Trips, NEW p \in Procs, Report(p), defined' = defined
  PROVE  /\ Placed(p) /\ pc[p] = "report" /\ pc'[p] = "turn" /\ UNCHANGED <<to, to_idx, left, msg, peer>>
         /\ \/ p \in App /\ Send(<<p, 0>>, -1) /\ \A q \in Procs : waits[q] >= 3
            \/ p = 0 /\ \E q \in App : Recv(<<q, 0>>)
            \/ UNCHANGED chans
<1>1. TypeOK /\ ChanOK /\ Phase(p) /\ "turn" \in Calls
  BY ChannelTypes DEF Trips, Calls
<1>2. /\ pc[p] = "report" /\ EnterWait(p) /\ Goto(p, "turn")
      /\ UNCHANGED <<to, to_idx, left, start, msg, peer, co>>
      /\ \/ p \in App /\ co[p] = p /\ Send(<<p, 0>>, -1)
         \/ p = 0 /\ co[p] \in App /\ Recv(<<co[p], p>>)
         \/ UNCHANGED chans
  BY DEF Report
<1>3. pc' \in [Procs -> Calls] /\ pc'[p] = "turn" /\ \A q \in Procs : q # p => pc'[q] = pc[q]
  BY <1>1, <1>2, Going
<1>4. waits' \in [Procs -> Nat] /\ waits'[p] = waits[p] + 1 /\ \A q \in Procs : q # p => waits'[q] = waits[q]
  BY <1>1, <1>2, Entering
<1>5. ChanOK'
  <2>1. CASE p \in App /\ Send(<<p, 0>>, -1)
    <3>1. <<p, 0>> \in Chan
      BY <2>1, Lines, Places
    <3>. QED  BY <1>1, <2>1, <3>1, Sending
  <2>2. CASE p = 0 /\ co[p] \in App /\ Recv(<<co[p], p>>)
    <3>1. <<co[p], p>> \in Chan
      BY <2>2, Lines, Places
    <3>. QED  BY <1>1, <2>2, <3>1, Receiving
  <2>3. CASE UNCHANGED chans
    BY <1>1, <2>3 DEF ChanOK, chans
  <2>. QED  BY <1>2, <2>1, <2>2, <2>3
<1>6. TypeOK'
  BY <1>1, <1>2, <1>3, <1>4, <1>5 DEF TypeOK, ChanOK, Calls
<1>7. Alone(p)
  BY <1>2, <1>3, <1>4 DEF Alone
<1>8. waits[p] \in Nat /\ waits'[p] >= 3
  <2>1. waits[p] \in Nat /\ waits[p] >= 2
    BY <1>1, <1>2 DEF Phase, TypeOK
  <2>. QED  BY <1>4, <2>1
<1>9. Phase(p)'
  <2>1. co[p] > 0 => \A q \in Procs : waits'[q] >= 3
    BY <1>1, <1>4, <1>8 DEF Phase
  <2>2. co' = co /\ left' = left /\ peer' = peer /\ pc[p] = "report"
    BY <1>2
  <2>3. waits'[p] \in Nat /\ waits'[p] >= 3 /\ waits'[p] >= 2
    BY <1>4, <1>8
  <2>. QED  BY <1>1, <1>3, <2>1, <2>2, <2>3 DEF Phase, Working
<1>10. p \in App /\ co[p] = p => \A q \in Procs : waits[q] >= 3
  <2>1. ASSUME p \in App PROVE p > 0
    BY <2>1, Places
  <2>. QED  BY <1>1, <2>1 DEF Phase
<1>. QED  BY <1>2, <1>3, <1>4, <1>6, <1>7, <1>9, <1>10 DEF Placed

LEMMA TurnPlaces ==
  ASSUME Trips, NEW p \in Procs, Turn(p), defined' = defined
  PROVE  /\ Placed(p) /\ pc[p] = "turn" /\ pc'[p] = "report"
         /\ UNCHANGED <<chans, to, to_idx, left, msg, peer, waits>>
<1>1. TypeOK /\ Phase(p) /\ "report" \in Calls
  BY DEF Trips, Calls
<1>2. /\ pc[p] = "turn" /\ Goto(p, "report") /\ co' = [co EXCEPT ![p] = @ + 1]
      /\ UNCHANGED <<accepted, delivered, w0, to, to_idx, left, start, msg, peer, waits>>
  BY DEF Turn, chans
<1>3. pc' \in [Procs -> Calls] /\ pc'[p] = "report" /\ \A q \in Procs : q # p => pc'[q] = pc[q]
  BY <1>1, <1>2, Going
<1>4. co' \in [Procs -> Nat] /\ \A q \in Procs : q # p => co'[q] = co[q]
  BY <1>1, <1>2 DEF TypeOK
<1>5. \A q \in Procs : waits[q] >= 3
  <2>1. waits[p] >= 3 /\ \A q \in Procs : waits[q] \in Nat /\ waits[q] >= waits[p]
    BY <1>1, <1>2 DEF Phase, TypeOK, Turn, Passes
  <2>. QED  BY <2>1
<1>6. TypeOK'
  BY <1>1, <1>2, <1>3, <1>4 DEF TypeOK, Calls
<1>7. Alone(p)
  BY <1>2, <1>3, <1>4 DEF Alone
<1>8. Phase(p)'
  BY <1>1, <1>2, <1>3, <1>5 DEF Phase, Working
<1>. QED  BY <1>2, <1>3, <1>6, <1>7, <1>8 DEF Placed, chans

LEMMA EndPlaces ==
  ASSUME Trips, NEW p \in Procs, Close(p) \/ Exit(p), defined' = defined
  PROVE  /\ Placed(p) /\ pc[p] \in {"report", "closing"} /\ pc'[p] \in {"closing", "done"}
         /\ UNCHANGED <<chans, to, to_idx, left, msg, peer>>
<1>1. TypeOK /\ Phase(p)
  BY DEF Trips
<1>2. /\ UNCHANGED <<accepted, delivered, w0, to, to_idx, left, start, msg, peer, co>>
      /\ \/ pc[p] = "report" /\ EnterWait(p) /\ Goto(p, "closing")
         \/ pc[p] = "closing" /\ waits' = waits /\ Goto(p, "done")
  BY DEF Close, Exit, chans
<1>3. PICK at \in {"closing", "done"} : Goto(p, at) /\ (EnterWait(p) \/ waits' = waits)
  BY <1>2
<1>4. pc' \in [Procs -> Calls] /\ pc'[p] = at /\ \A q \in Procs : q # p => pc'[q] = pc[q]
  BY <1>1, <1>3, Going DEF Calls
<1>5. /\ waits' \in [Procs -> Nat] /\ waits'[p] \in {waits[p], waits[p] + 1}
      /\ \A q \in Procs : q # p => waits'[q] = waits[q]
  <2>1. CASE EnterWait(p)
    BY <1>1, <2>1, Entering
  <2>2. CASE waits' = waits
    BY <1>1, <2>2 DEF TypeOK
  <2>. QED  BY <1>3, <2>1, <2>2
<1>6. TypeOK'
  BY <1>1, <1>2, <1>4, <1>5 DEF TypeOK, Calls
<1>7. Alone(p)
  BY <1>2, <1>4, <1>5 DEF Alone
<1>8. pc[p] \in {"report", "closing"}
  BY <1>2
<1>9. Phase(p)'
  <2>1. \A q \in Procs : waits[q] \in Nat /\ waits'[q] \in Nat
    BY <1>1, <1>5 DEF TypeOK
  <2>2. waits[p] >= 2 /\ waits'[p] >= 2
    BY <1>1, <1>5, <1>8, <2>1 DEF Phase
  <2>3. co[p] > 0 => \A q \in Procs : waits'[q] >= 3
    BY <1>1, <1>5, <2>1 DEF Phase
  <2>. QED  BY <1>1, <1>2, <1>4, <1>8, <2>2, <2>3 DEF Phase, Working
<1>. QED  BY <1>2, <1>4, <1>5, <1>6, <1>7, <1>8, <1>9 DEF Placed, chans

(***************************************************************************)
(* Questions and answers.                                                  *)
(***************************************************************************)
\* A question of q to d that was in order stays so when none of this is new.
Kept(q, d) ==
  /\ Pending(<<q, d>>)' => Pending(<<q, d>>) /\ w0'[<<q, d>>] = w0[<<q, d>>]
  /\ Pending(<<d, q>>)' => Pending(<<d, q>>) /\ w0'[<<d, q>>] = w0[<<d, q>>]
  /\ Answering(d, q)' => Answering(d, q) /\ msg'[d] = msg[d]
  /\ pc[q] = "reply" => pc'[q] = "reply" /\ to'[q] = to[q] /\ left'[q] = left[q]

LEMMA QuestionKept ==
  ASSUME Trips, NEW p \in Procs, Placed(p), NEW q \in App, NEW d \in Dsl, Kept(q, d)
  PROVE  Question(q, d)'
<1>1. Question(q, d) /\ defined' = defined
  BY DEF Trips, Placed, Alone
<1>2. \A r \in Procs : waits[r] \in Nat /\ waits'[r] \in Nat /\ waits'[r] >= waits[r]
  BY OthersPhase DEF Placed, Trips, TypeOK
<1>3. \A m : Expects(q, d, m) => Expects(q, d, m)'
  BY DEF Kept, Expects
<1>4. Asked(q, d)' => Asked(q, d) /\ w0'[<<q, d>>] = w0[<<q, d>>]
  BY DEF Kept, Asked
<1>5. (Pending(<<q, d>>) /\ w0[<<q, d>>] = -1 => \A r \in Procs : waits[r] >= 3)'
  BY <1>1, <1>2 DEF Kept, Question
<1>6. (Asked(q, d) /\ "ROUNDTRIP" \in defined => Expects(q, d, w0[<<q, d>>]))'
  BY <1>1, <1>4, <1>3 DEF Question, Expects
<1>7. (Answering(d, q) => Expects(q, d, msg[d]))'
  BY <1>1, <1>3 DEF Question, Kept, Expects
<1>8. (Pending(<<d, q>>) => Expects(q, d, w0[<<d, q>>]))'
  BY <1>1, <1>3 DEF Question, Kept, Expects
<1>9. (/\ ~(Asked(q, d) /\ (Answering(d, q) \/ Pending(<<d, q>>)))
       /\ ~(Answering(d, q) /\ Pending(<<d, q>>)))'
  BY <1>1, <1>4 DEF Question, Kept
<1>. QED  BY <1>5, <1>6, <1>7, <1>8, <1>9 DEF Question

\* p writes and reads only lines of its own.
Own(p) == \A c \in Chan : p # c[1] /\ p # c[2] => (Pending(c)' <=> Pending(c)) /\ w0'[c] = w0[c]

LEMMA OthersKept ==
  ASSUME Trips, NEW p \in Procs, Placed(p), Own(p), NEW q \in App, NEW d \in Dsl, p # q, p # d
  PROVE  Kept(q, d)
<1>1. q \in Procs /\ d \in Procs /\ <<q, d>> \in Chan /\ <<d, q>> \in Chan
  BY Places, Lines
<1>2. /\ Pending(<<q, d>>)' <=> Pending(<<q, d>>)
      /\ Pending(<<d, q>>)' <=> Pending(<<d, q>>)
      /\ w0'[<<q, d>>] = w0[<<q, d>>] /\ w0'[<<d, q>>] = w0[<<d, q>>]
  BY <1>1 DEF Own
<1>3. Answering(d, q)' => Answering(d, q) /\ msg'[d] = msg[d]
  BY <1>1 DEF Placed, Alone, Answering
<1>. QED  BY <1>1, <1>2, <1>3 DEF Kept, Placed, Alone

LEMMA OwnLines ==
  ASSUME NEW p \in Procs
  PROVE  /\ \A x \in Procs : Only(<<p, x>>) \/ Only(<<x, p>>) => Own(p)
         /\ UNCHANGED chans => Own(p)
BY DEF Only, Own, chans, Pending

\* What is left to show of a step of p.
LEMMA TripsFrom ==
  ASSUME Trips, NEW p \in Procs, Placed(p), Own(p),
         p \in App /\ pc'[p] \in {"open", "ready", "request"} => msg'[p] \in {left'[p], -1},
         \A q \in App, d \in Dsl : p = q \/ p = d => Question(q, d)'
  PROVE  Trips'
<1>1. TypeOK' /\ \A q \in Procs : Phase(q)'
  BY OthersPhase DEF Placed
<1>2. ASSUME NEW q \in App, pc'[q] \in {"open", "ready", "request"} PROVE msg'[q] \in {left'[q], -1}
  <2>1. q \in Procs
    BY Places
  <2>2. CASE q = p
    BY <1>2, <2>2
  <2>3. CASE q # p
    <3>1. pc'[q] = pc[q] /\ left'[q] = left[q] /\ msg'[q] = msg[q]
      BY <2>1, <2>3 DEF Placed, Alone
    <3>. QED  BY <1>2, <3>1 DEF Trips
  <2>. QED  BY <2>2, <2>3
<1>3. ASSUME NEW q \in App, NEW d \in Dsl PROVE Question(q, d)'
  <2>1. CASE p = q \/ p = d
    BY <2>1
  <2>2. CASE p # q /\ p # d
    BY <2>2, OthersKept, QuestionKept
  <2>. QED  BY <2>1, <2>2
<1>. QED  BY <1>1, <1>2, <1>3 DEF Trips

LEMMA QuestionTypes ==
  ASSUME Trips, NEW q \in App, NEW d \in Dsl
  PROVE  /\ q \in Procs /\ d \in Procs /\ q # d /\ <<q, d>> \in Chan /\ <<d, q>> \in Chan
         /\ Question(q, d) /\ Phase(q) /\ Phase(d) /\ ChanOK
BY Places, Lines, ChannelTypes DEF Trips

LEMMA RequestTrips ==
  ASSUME Trips, NEW p \in App, Request(p), defined' = defined
  PROVE  Trips'
<1>1. /\ Placed(p) /\ pc[p] = "request" /\ left[p] \in Nat \ {0} /\ left'[p] = left[p] - 1
      /\ to[p] \in Dsl /\ Send(<<p, to[p]>>, left[p] - 1) /\ msg'[p] = left[p] - 1 /\ peer' = peer
      /\ "ROUNDTRIP" \in defined => pc'[p] = "reply" /\ to' = to
  BY RequestPlaces
<1>2. PICK e \in Dsl : e = to[p]
  BY <1>1
<1>3. /\ p \in Procs /\ e \in Procs /\ p # e /\ <<p, e>> \in Chan /\ <<e, p>> \in Chan
      /\ Question(p, e) /\ ChanOK
  BY QuestionTypes
<1>4. left[p] - 1 \in Int /\ left[p] - 1 # -1
  BY <1>1
<1>5. Only(<<p, e>>) /\ ~Pending(<<p, e>>) /\ Pending(<<p, e>>)' /\ w0'[<<p, e>>] = left[p] - 1
  BY <1>1, <1>2, <1>3, <1>4, Sending
<1>6. Own(p)
  BY <1>3, <1>5, OwnLines
<1>7. ASSUME NEW d \in Dsl PROVE Question(p, d)'
  <2>1. /\ d \in Procs /\ p # d /\ <<p, d>> \in Chan /\ <<d, p>> \in Chan /\ Question(p, d)
    BY QuestionTypes
  <2>2. \A m : ~Expects(p, d, m)
    BY <1>1 DEF Expects
  <2>3. ~Answering(d, p) /\ ~Pending(<<d, p>>)
    BY <2>1, <2>2 DEF Question
  <2>4. pc'[d] = pc[d] /\ peer'[d] = peer[d] /\ msg'[d] = msg[d]
    BY <1>1, <2>1 DEF Placed, Alone
  <2>5. ~Answering(d, p)' /\ ~Pending(<<d, p>>)'
    BY <1>5, <2>1, <2>3, <2>4 DEF Answering, Only
  <2>6. CASE d # e
    BY <1>1, <1>3, <1>5, <2>1, <2>3, <2>5, <2>6, QuestionKept DEF Only, Kept
  <2>7. CASE d = e
    <3>1. (Asked(p, d) /\ "ROUNDTRIP" \in defined => Expects(p, d, w0[<<p, d>>]))'
      BY <1>1, <1>2, <1>5, <2>7 DEF Expects, Placed, Alone
    <3>2. (Pending(<<p, d>>) /\ w0[<<p, d>>] = -1 => \A r \in Procs : waits[r] >= 3)'
      BY <1>4, <1>5, <2>7
    <3>. QED  BY <2>5, <3>1, <3>2 DEF Question
  <2>. QED  BY <2>6, <2>7
<1>8. p \notin Dsl
  BY Places
<1>. QED  BY <1>1, <1>3, <1>6, <1>7, <1>8, TripsFrom

LEMMA ReplyTrips ==
  ASSUME Trips, NEW p \in App, Reply(p), defined' = defined
  PROVE  Trips'
<1>1. /\ Placed(p) /\ pc[p] = "reply" /\ to[p] \in Dsl
      /\ Recv(<<to[p], p>>) /\ msg'[p] = w0[<<to[p], p>>] /\ left' = left /\ peer' = peer
  BY ReplyPlaces
<1>2. PICK e \in Dsl : e = to[p]
  BY <1>1
<1>3. /\ p \in Procs /\ e \in Procs /\ p # e /\ <<p, e>> \in Chan /\ <<e, p>> \in Chan
      /\ Question(p, e) /\ Phase(p) /\ ChanOK
  BY QuestionTypes
<1>4. Only(<<e, p>>) /\ Pending(<<e, p>>) /\ ~Pending(<<e, p>>)' /\ w0' = w0
  BY <1>1, <1>2, <1>3, Receiving
<1>5. Own(p)
  BY <1>3, <1>4, OwnLines
<1>6. ASSUME NEW d \in Dsl PROVE Question(p, d)'
  <2>1. /\ d \in Procs /\ p # d /\ <<p, d>> \in Chan /\ <<d, p>> \in Chan /\ Question(p, d)
    BY QuestionTypes
  <2>2. d # e => ~Asked(p, d) /\ ~Answering(d, p) /\ ~Pending(<<d, p>>)
    BY <1>1, <1>2, <1>3, <2>1 DEF Question, Expects, Phase
  <2>3. ~Asked(p, d) /\ ~Answering(d, p) /\ (Pending(<<d, p>>) => d = e)
    BY <1>3, <1>4, <2>2 DEF Question
  <2>4. pc'[d] = pc[d] /\ peer'[d] = peer[d]
    BY <1>1, <2>1 DEF Placed, Alone
  <2>5. Pending(<<p, d>>)' <=> Pending(<<p, d>>)
    BY <1>3, <1>4, <2>1 DEF Only
  <2>6. ~Asked(p, d)' /\ ~Answering(d, p)'
    BY <1>4, <2>3, <2>4, <2>5 DEF Asked, Answering
  <2>7. ~Pending(<<d, p>>)'
    BY <1>3, <1>4, <2>1, <2>3 DEF Only
  <2>8. (Pending(<<p, d>>) /\ w0[<<p, d>>] = -1 => \A r \in Procs : waits[r] >= 3)'
    <3>1. \A r \in Procs : waits[r] \in Nat /\ waits'[r] \in Nat /\ waits'[r] >= waits[r]
      BY <1>1, <1>3, OthersPhase DEF Placed, Trips, TypeOK
    <3>. QED  BY <1>4, <2>1, <2>5, <3>1 DEF Question
  <2>. QED  BY <2>6, <2>7, <2>8 DEF Question
<1>7. msg'[p] = left'[p]
  BY <1>1, <1>2, <1>3, <1>4 DEF Question, Expects
<1>8. p \notin Dsl
  BY Places
<1>. QED  BY <1>1, <1>3, <1>5, <1>6, <1>7, <1>8, TripsFrom

LEMMA ServeTrips ==
  ASSUME Trips, NEW d \in Dsl, Serve(d), defined' = defined
  PROVE  Trips'
<1>1. PICK e \in App :
        /\ Placed(d) /\ pc[d] = "serve" /\ Recv(<<e, d>>) /\ msg'[d] = w0[<<e, d>>]
        /\ \/ "ROUNDTRIP" \in defined /\ pc'[d] = "answer" /\ peer'[d] = e
           \/ "ROUNDTRIP" \notin defined /\ pc'[d] \in {"report", "serve"}
  BY ServePlaces
<1>2. /\ d \in Procs /\ e \in Procs /\ d # e /\ <<e, d>> \in Chan /\ <<d, e>> \in Chan
      /\ Question(e, d) /\ Phase(d) /\ ChanOK
  BY QuestionTypes
<1>3. Only(<<e, d>>) /\ Pending(<<e, d>>) /\ ~Pending(<<e, d>>)' /\ w0' = w0
  BY <1>1, <1>2, Receiving
<1>4. Own(d)
  BY <1>2, <1>3, OwnLines
<1>5. Asked(e, d)
  <2>1. waits[d] \in Nat /\ waits[d] <= 2
    BY <1>1, <1>2 DEF Phase, Working, Trips, TypeOK
  <2>2. w0[<<e, d>>] # -1
    <3>1. ~(waits[d] >= 3)
      BY <2>1
    <3>. QED  BY <1>2, <1>3, <3>1 DEF Question
  <2>. QED  BY <1>3, <2>2 DEF Asked
<1>6. ASSUME NEW q \in App PROVE Question(q, d)'
  <2>1. /\ q \in Procs /\ q # d /\ <<q, d>> \in Chan /\ <<d, q>> \in Chan /\ Question(q, d)
    BY QuestionTypes
  <2>2. pc'[q] = pc[q] /\ left'[q] = left[q] /\ to'[q] = to[q]
    BY <1>1, <2>1 DEF Placed, Alone
  <2>3. Pending(<<d, q>>)' <=> Pending(<<d, q>>)
    BY <1>2, <1>3, <2>1 DEF Only
  <2>4. Pending(<<q, d>>)' => Pending(<<q, d>>)
    BY <1>2, <1>3, <2>1 DEF Only
  <2>5. CASE "ROUNDTRIP" \notin defined \/ q # e
    <3>1. ~Answering(d, q)'
      BY <1>1, <2>5 DEF Answering
    <3>. QED  BY <1>1, <1>2, <1>3, <2>2, <2>3, <2>4, <3>1, QuestionKept DEF Kept
  <2>6. CASE "ROUNDTRIP" \in defined /\ q = e
    <3>1. ~Pending(<<q, d>>)' /\ ~Pending(<<d, q>>)'
      BY <1>3, <1>5, <2>1, <2>3, <2>6 DEF Question
    <3>2. Expects(q, d, w0[<<q, d>>])
      BY <1>5, <2>1, <2>6 DEF Question
    <3>3. Expects(q, d, msg[d])'
      BY <1>1, <2>2, <2>6, <3>2 DEF Expects
    <3>. QED  BY <3>1, <3>3 DEF Question, Asked
  <2>. QED  BY <2>5, <2>6
<1>7. d \notin App
  BY Places
<1>. QED  BY <1>1, <1>2, <1>4, <1>6, <1>7, TripsFrom

LEMMA AnswerTrips ==
  ASSUME Trips, NEW d \in Dsl, Answer(d), defined' = defined
  PROVE  Trips'
<1>1. /\ Placed(d) /\ pc[d] = "answer" /\ peer[d] \in App /\ Send(<<d, peer[d]>>, msg[d])
      /\ pc'[d] \in {"report", "serve"}
  BY AnswerPlaces
<1>2. PICK e \in App : e = peer[d]
  BY <1>1
<1>3. /\ d \in Procs /\ e \in Procs /\ d # e /\ <<e, d>> \in Chan /\ <<d, e>> \in Chan
      /\ Question(e, d) /\ ChanOK /\ msg[d] \in Int
  BY QuestionTypes DEF Trips, TypeOK
<1>4. Only(<<d, e>>) /\ ~Pending(<<d, e>>) /\ Pending(<<d, e>>)' /\ w0'[<<d, e>>] = msg[d]
  BY <1>1, <1>2, <1>3, Sending
<1>5. Own(d)
  BY <1>3, <1>4, OwnLines
<1>6. Expects(e, d, msg[d]) /\ ~Asked(e, d)
  BY <1>1, <1>2, <1>3 DEF Question, Answering
<1>7. ASSUME NEW q \in App PROVE Question(q, d)'
  <2>1. /\ q \in Procs /\ q # d /\ <<q, d>> \in Chan /\ <<d, q>> \in Chan /\ Question(q, d)
    BY QuestionTypes
  <2>2. pc'[q] = pc[q] /\ left'[q] = left[q] /\ to'[q] = to[q]
    BY <1>1, <2>1 DEF Placed, Alone
  <2>3. (Pending(<<q, d>>)' <=> Pending(<<q, d>>)) /\ w0'[<<q, d>>] = w0[<<q, d>>]
    BY <1>3, <1>4, <2>1 DEF Only
  <2>4. ~Answering(d, q)'
    BY <1>1 DEF Answering
  <2>5. CASE q # e
    <3>1. (Pending(<<d, q>>)' <=> Pending(<<d, q>>)) /\ w0'[<<d, q>>] = w0[<<d, q>>]
      BY <1>3, <1>4, <2>1, <2>5 DEF Only
    <3>. QED  BY <1>1, <1>3, <2>2, <2>3, <2>4, <3>1, QuestionKept DEF Kept
  <2>6. CASE q = e
    <3>1. ~Asked(q, d)'
      BY <1>6, <2>3, <2>6 DEF Asked
    <3>2. (Pending(<<d, q>>) => Expects(q, d, w0[<<d, q>>]))'
      BY <1>4, <1>6, <2>2, <2>6 DEF Expects
    <3>3. (Pending(<<q, d>>) /\ w0[<<q, d>>] = -1 => \A r \in Procs : waits[r] >= 3)'
      <4>1. \A r \in Procs : waits[r] \in Nat /\ waits'[r] \in Nat /\ waits'[r] >= waits[r]
        BY <1>1, <1>3, OthersPhase DEF Placed, Trips, TypeOK
      <4>. QED  BY <2>1, <2>3, <4>1 DEF Question
    <3>. QED  BY <2>4, <3>1, <3>2, <3>3 DEF Question
  <2>. QED  BY <2>5, <2>6
<1>8. d \notin App
  BY Places
<1>. QED  BY <1>1, <1>3, <1>5, <1>7, <1>8, TripsFrom

\* A step of p that sends and receives nothing, and is neither a question nor an answer.
LEMMA QuietTrips ==
  ASSUME Trips, NEW p \in Procs, Placed(p), UNCHANGED <<chans, to, left, msg, peer>>,
         pc[p] # "reply", pc'[p] # "answer",
         pc'[p] \in {"open", "ready", "request"} => pc[p] \in {"open", "ready", "request"} \/ p \notin App
  PROVE  Trips'
<1>1. Own(p)
  BY OwnLines
<1>2. p \in App /\ pc'[p] \in {"open", "ready", "request"} => msg'[p] \in {left'[p], -1}
  BY DEF Trips
<1>3. ASSUME NEW q \in App, NEW d \in Dsl PROVE Question(q, d)'
  <2>1. q \in Procs /\ d \in Procs
    BY QuestionTypes
  <2>2. \A c : (Pending(c)' <=> Pending(c)) /\ w0'[c] = w0[c]
    BY DEF chans, Pending
  <2>3. Answering(d, q)' => Answering(d, q) /\ msg'[d] = msg[d]
    BY <2>1 DEF Answering, Placed, Alone
  <2>4. pc[q] = "reply" => pc'[q] = "reply" /\ to'[q] = to[q] /\ left'[q] = left[q]
    BY <2>1 DEF Placed, Alone
  <2>. QED  BY <2>2, <2>3, <2>4, QuestionKept DEF Kept
<1>. QED  BY <1>1, <1>2, <1>3, TripsFrom

LEMMA ReportTrips ==
  ASSUME Trips, NEW p \in Procs, Report(p), defined' = defined
  PROVE  Trips'
<1>1. /\ Placed(p) /\ pc[p] = "report" /\ pc'[p] = "turn" /\ UNCHANGED <<to, left, msg, peer>>
      /\ \/ p \in App /\ Send(<<p, 0>>, -1) /\ \A q \in Procs : waits[q] >= 3
         \/ p = 0 /\ \E q \in App : Recv(<<q, 0>>)
         \/ UNCHANGED chans
  BY ReportPlaces
<1>2. CASE UNCHANGED chans
  BY <1>1, <1>2, QuietTrips
<1>3. CASE p = 0 /\ \E q \in App : Recv(<<q, 0>>)
  <2>1. PICK e \in App : Recv(<<e, 0>>)
    BY <1>3
  <2>2. e \in Procs /\ 0 \in Procs /\ 0 \in Dsl /\ <<e, 0>> \in Chan /\ ChanOK /\ p \notin App
    BY <1>3, QuestionTypes, Places
  <2>3. Only(<<e, 0>>) /\ ~Pending(<<e, 0>>)' /\ w0' = w0
    BY <2>1, <2>2, Receiving
  <2>4. Own(p)
    BY <1>3, <2>2, <2>3, OwnLines
  <2>5. ASSUME NEW q \in App, NEW d \in Dsl, p = q \/ p = d PROVE Question(q, d)'
    <3>1. q \in Procs /\ d \in Procs /\ <<q, d>> \in Chan /\ <<d, q>> \in Chan
      BY QuestionTypes
    <3>2. \A c \in Chan : Pending(c)' => Pending(c)
      BY <2>3 DEF Only
    <3>3. ~Answering(d, q)'
      BY <1>1, <1>3, <2>2, <2>5 DEF Answering
    <3>4. pc[q] = "reply" => pc'[q] = "reply" /\ to'[q] = to[q] /\ left'[q] = left[q]
      BY <1>1, <3>1 DEF Placed, Alone
    <3>. QED  BY <1>1, <2>3, <3>1, <3>2, <3>3, <3>4, QuestionKept DEF Kept
  <2>. QED  BY <1>1, <2>2, <2>4, <2>5, TripsFrom
<1>4. CASE p \in App /\ Send(<<p, 0>>, -1) /\ \A q \in Procs : waits[q] >= 3
  <2>1. /\ 0 \in Procs /\ 0 \in Dsl /\ p \notin Dsl /\ <<p, 0>> \in Chan /\ ChanOK
    BY <1>4, QuestionTypes, Places
  <2>2. Only(<<p, 0>>) /\ Pending(<<p, 0>>)' /\ w0'[<<p, 0>>] = -1
    BY <1>4, <2>1, Sending
  <2>3. Own(p)
    BY <2>1, <2>2, OwnLines
  <2>4. ASSUME NEW d \in Dsl PROVE Question(p, d)'
    <3>1. d \in Procs /\ d # p /\ <<p, d>> \in Chan /\ <<d, p>> \in Chan /\ Question(p, d)
      BY <1>4, QuestionTypes
    <3>2. \A m : ~Expects(p, d, m)
      BY <1>1 DEF Expects
    <3>3. ~Answering(d, p) /\ ~Pending(<<d, p>>)
      BY <3>1, <3>2 DEF Question
    <3>4. ~Answering(d, p)'
      BY <1>1, <3>1, <3>3 DEF Answering, Placed, Alone
    <3>5. ~Pending(<<d, p>>)'
      BY <2>1, <2>2, <3>1, <3>3 DEF Only
    <3>6. CASE d # 0
      <4>1. (Pending(<<p, d>>)' <=> Pending(<<p, d>>)) /\ w0'[<<p, d>>] = w0[<<p, d>>]
        BY <2>1, <2>2, <3>1, <3>6 DEF Only
      <4>. QED  BY <1>1, <1>4, <3>4, <3>5, <4>1, QuestionKept DEF Kept
    <3>7. CASE d = 0
      <4>1. \A r \in Procs : waits'[r] >= 3
        <5>1. \A r \in Procs : waits[r] \in Nat /\ waits'[r] \in Nat /\ waits'[r] >= waits[r]
          BY <1>1, OthersPhase DEF Placed, Trips, TypeOK
        <5>. QED  BY <1>4, <5>1
      <4>2. ~Asked(p, d)'
        BY <2>2, <3>7 DEF Asked
      <4>. QED  BY <3>4, <3>5, <4>1, <4>2 DEF Question
    <3>. QED  BY <3>6, <3>7
  <2>. QED  BY <1>1, <2>1, <2>3, <2>4, TripsFrom
<1>. QED  BY <1>1, <1>2, <1>3, <1>4

LEMMA TripsStep ==
  ASSUME Trips, [Next]_vars
  PROVE  Trips'
<1>1. ASSUME NEW p \in Procs, Step(p) PROVE Trips'
  <2>0. defined' = defined
    BY <1>1 DEF Step
  <2>1. CASE Open(p)
    BY <2>0, <2>1, OpenPlaces, QuietTrips
  <2>2. CASE p \in App /\ Request(p)
    BY <2>0, <2>2, RequestTrips
  <2>3. CASE p \in App /\ Reply(p)
    BY <2>0, <2>3, ReplyTrips
  <2>4. CASE p \in App /\ ClientDone(p)
    BY <2>0, <2>4, ClientDonePlaces, QuietTrips
  <2>5. CASE p \in Dsl /\ ScanMiss(p)
    <3>1. pc[p] = "serve"
      BY <2>5 DEF ScanMiss
    <3>. QED  BY <2>0, <2>5, <3>1, ScanMissPlaces, QuietTrips
  <2>6. CASE p \in Dsl /\ Serve(p)
    BY <2>0, <2>6, ServeTrips
  <2>7. CASE p \in Dsl /\ Answer(p)
    BY <2>0, <2>7, AnswerTrips
  <2>8. CASE Report(p)
    BY <2>0, <2>8, ReportTrips
  <2>9. CASE Turn(p)
    BY <2>0, <2>9, TurnPlaces, QuietTrips
  <2>10. CASE Close(p) \/ Exit(p)
    BY <2>0, <2>10, EndPlaces, QuietTrips
  <2>. QED  BY <1>1, <2>1, <2>2, <2>3, <2>4, <2>5, <2>6, <2>7, <2>8, <2>9, <2>10 DEF Step
<1>2. CASE UNCHANGED vars
  <2>1. TypeOK' <=> TypeOK
    BY <1>2 DEF TypeOK, vars, chans
  <2>2. \A p \in Procs : Phase(p)' <=> Phase(p)
    BY <1>2 DEF Phase, vars
  <2>3. \A p \in App, d \in Dsl : Question(p, d)' <=> Question(p, d)
    BY <1>2 DEF Question, Asked, Answering, Expects, Pending, vars, chans
  <2>4. pc' = pc /\ msg' = msg /\ left' = left
    BY <1>2 DEF vars
  <2>. QED  BY <2>1, <2>2, <2>3, <2>4 DEF Trips
<1>. QED  BY <1>1, <1>2 DEF Next

LEMMA TripsInit == Init => Trips
<1> SUFFICES ASSUME Init PROVE Trips
  OBVIOUS
<1>1. accepted = [c \in Chan |-> 0] /\ delivered = [c \in Chan |-> << >>] /\ w0 = [c \in Chan |-> -1]
  BY DEF Init, Channel!Init
<1>2. Len(app_seq) \in Nat \ {0} /\ Len(dsl_seq) \in Nat \ {0} /\ NumMsgs \in Nat
  BY Sequences, ClientServerAssumption DEF Listed
<1>3. left = [p \in Procs |-> IF p \in App THEN NumMsgs ELSE Len(app_seq)] /\ left \in [Procs -> Nat]
  BY <1>2 DEF Init
<1>4. to \in [App -> Dsl] /\ to_idx \in [App -> 1 .. Len(dsl_seq)] /\ start \in [Dsl -> 1 .. Len(app_seq)]
      /\ peer \in [Dsl -> Procs]
  BY <1>2, Places DEF Init
<1>5. ChanOK
  <2>1. \A c \in Chan : accepted[c] = 0 /\ delivered[c] = << >>
    BY <1>1
  <2>2. << >> \in Seq([{"w"} -> Nat]) /\ Len(<< >>) = 0
    OBVIOUS
  <2>. QED  BY <1>1, <2>1, <2>2 DEF ChanOK
<1>6. TypeOK
  BY <1>3, <1>4, <1>5 DEF Init, TypeOK, ChanOK, Working
<1>7. \A p \in Procs : Phase(p)
  <2>1. \A p \in Procs : pc[p] = "open" /\ co[p] = 0 /\ waits[p] = 1
    BY DEF Init
  <2>2. \A p \in Dsl : left[p] > 0
    BY <1>2, <1>3, Places
  <2>. QED  BY <2>1, <2>2 DEF Phase, Working
<1>8. \A p \in App : msg[p] = -1
  BY Places DEF Init
<1>9. \A c \in Chan : ~Pending(c)
  BY <1>1 DEF Pending
<1>10. \A p \in App, d \in Dsl : Question(p, d)
  <2>1. \A d \in Dsl : pc[d] = "open"
    BY Places DEF Init
  <2>. QED  BY <1>9, <2>1, Lines DEF Question, Asked, Answering
<1>. QED  BY <1>6, <1>7, <1>8, <1>10 DEF Trips

\* Types, phases, and every question on its way to its answer: as the comments of
\* Phase, Expects and Question say (the exchange of ROUNDTRIP and NO_SYNC_SRV).
THEOREM TripsHold == Spec => []Trips
BY TripsInit, TripsStep, PTL DEF Spec

\* PingPong: a client that goes on has the number it sent ("Ping-pong failed").
THEOREM PingPongHolds == Spec => []PingPong
<1>1. Trips => PingPong
  BY DEF Trips, PingPong
<1>. QED  BY <1>1, TripsHold, PTL

\* AnswerIsFree: ssmp_send_no_sync(msg->sender, msg) overwrites no message.
THEOREM AnswersFindFree == Spec => []AnswerIsFree
<1>1. Trips => AnswerIsFree
  <2> SUFFICES ASSUME Trips, NEW d \in Dsl, pc[d] = "answer" PROVE ~Pending(<<d, peer[d]>>)
    BY DEF AnswerIsFree
  <2>1. peer[d] \in App
    BY Places DEF Trips, Phase
  <2>2. Question(peer[d], d) /\ Answering(d, peer[d])
    BY <2>1 DEF Trips, Answering
  <2>. QED  BY <2>2 DEF Question
<1>. QED  BY <1>1, TripsHold, PTL

(***************************************************************************)
(* Low numbers.                                                            *)
(***************************************************************************)
\* One step along the ring of the servers.
LEMMA Ring ==
  ASSUME NEW j \in 1 .. Len(dsl_seq), NEW k \in 1 .. Len(dsl_seq)
  PROVE  /\ Before(j) \in 1 .. Len(dsl_seq)
         /\ Distance(Before(j), k) \in 0 .. Len(dsl_seq) - 1
         /\ k # Before(j) => Distance(j, k) = Distance(Before(j), k) - 1
         /\ k = Before(j) => Distance(j, k) = Len(dsl_seq) - 1 /\ Distance(Before(j), k) = 0
         /\ Before(IF j = Len(dsl_seq) THEN 1 ELSE j + 1) = j
<1> DEFINE L == Len(dsl_seq)
<1>1. L \in Nat \ {0} /\ j \in 1 .. L /\ k \in 1 .. L
  BY Sequences DEF Listed
<1>2. Before(j) = (IF j = 1 THEN L ELSE j - 1) /\ Before(IF j = L THEN 1 ELSE j + 1) = j
  BY <1>1 DEF Before
<1>3. \A i : Distance(i, k) = IF k >= i THEN k - i ELSE (k - i) + L
  BY DEF Distance
<1> HIDE DEF L
<1>. QED  BY <1>1, <1>2, <1>3 DEF L

\* What a client has left for a server depends on its place in the ring.
LEMMA StillKept ==
  ASSUME NEW q, NEW d, Position(q)' = Position(q), left'[q] = left[q]
  PROVE  Still(q, d)' <=> Still(q, d)
BY DEF Still

\* p sends to e, and moves on to the next server.
LEMMA StillMoves ==
  ASSUME Trips, Enough, NEW p \in App, InTurn(p), pc[p] = "request", left[p] > 0,
         Position(p)' = to_idx[p], left'[p] = left[p] - 1, NEW e \in Dsl, e = to[p]
  PROVE  /\ \A d \in Dsl : d # e => (Still(p, d)' <=> Still(p, d))
         /\ Still(p, e)
         /\ Low(left[p] - 1) <=> ~Still(p, e)'
<1> DEFINE L == Len(dsl_seq)
<1> DEFINE l == left[p]
<1> DEFINE j == to_idx[p]
<1> DEFINE i == Before(j)
<1>1. /\ L \in Nat \ {0} /\ l \in Nat \ {0} /\ j \in 1 .. L /\ to[p] \in Dsl /\ NumMsgs \in Nat /\ NumMsgs > L
      /\ to[p] = dsl_seq[i] \/ l = NumMsgs
  <2>1. L \in Nat \ {0} /\ NumMsgs \in Nat /\ NumMsgs > L
    BY Sequences, ClientServerAssumption DEF Enough, Listed
  <2>2. p \in Procs /\ left[p] \in Nat /\ to[p] \in Dsl /\ to_idx[p] \in 1 .. L
    BY Places DEF Trips, TypeOK
  <2>3. to[p] = dsl_seq[Before(to_idx[p])] \/ left[p] = NumMsgs
    BY DEF InTurn
  <2>. QED  BY <2>1, <2>2, <2>3
<1>2. ASSUME NEW k \in 1 .. L
      PROVE  /\ i \in 1 .. L /\ Distance(i, k) \in 0 .. L - 1
             /\ k # i => Distance(j, k) = Distance(i, k) - 1
             /\ k = i => Distance(j, k) = L - 1 /\ Distance(i, k) = 0
  BY <1>1, <1>2, Ring
<1>3. \A d : Still(p, d) <=> \E k \in 1 .. L : dsl_seq[k] = d /\ Distance(i, k) < l
  BY DEF Still, Position
<1>4. \A d : Still(p, d)' <=> \E k \in 1 .. L : dsl_seq[k] = d /\ Distance(j, k) < l - 1
  BY DEF Still
<1>5. /\ \A k, m \in 1 .. L : dsl_seq[k] = dsl_seq[m] => k = m
      /\ \A d \in Dsl : \E k \in 1 .. L : dsl_seq[k] = d
  BY Sequences DEF Listed
<1>6. Low(left[p] - 1) <=> l - 1 < L
  BY DEF Low
<1> HIDE DEF L, l, i, j
<1>7. ASSUME NEW k \in 1 .. L
      PROVE  Distance(j, k) < l - 1 <=> Distance(i, k) < l /\ (k = i => L < l)
  <2>1. CASE k = i
    <3>1. Distance(j, k) = L - 1 /\ Distance(i, k) = 0
      BY <1>2, <2>1
    <3>. QED  BY <1>1, <2>1, <3>1
  <2>2. CASE k # i
    <3>1. Distance(j, k) = Distance(i, k) - 1 /\ Distance(i, k) \in 0 .. L - 1
      BY <1>2, <2>2
    <3>. QED  BY <1>1, <2>2, <3>1
  <2>. QED  BY <2>1, <2>2
<1>8. e = dsl_seq[i] \/ l > L
  BY <1>1
<1>9. l > L => \A k \in 1 .. L : Distance(i, k) < l
  BY <1>1, <1>2
<1>10. \A k \in 1 .. L : k = i => Distance(i, k) < l
  BY <1>1, <1>2
<1>11. ASSUME NEW d \in Dsl, d # e PROVE Still(p, d)' <=> Still(p, d)
  <2>1. PICK k \in 1 .. L : dsl_seq[k] = d
    BY <1>5
  <2>2. Still(p, d) <=> Distance(i, k) < l
    BY <1>3, <1>5, <2>1
  <2>3. Still(p, d)' <=> Distance(j, k) < l - 1
    BY <1>4, <1>5, <2>1
  <2>4. k = i => L < l
    BY <1>1, <1>8, <1>11, <2>1
  <2>. QED  BY <1>7, <2>2, <2>3, <2>4
<1>12. Still(p, e) /\ (l - 1 < L <=> ~Still(p, e)')
  <2>1. PICK k \in 1 .. L : dsl_seq[k] = e
    BY <1>5, <1>8
  <2>2. Still(p, e) <=> Distance(i, k) < l
    BY <1>3, <1>5, <2>1
  <2>3. Still(p, e)' <=> Distance(j, k) < l - 1
    BY <1>4, <1>5, <2>1
  <2>4. k = i \/ l > L
    <3>1. ASSUME e = dsl_seq[i] PROVE k = i
      <4>1. i \in 1 .. L
        BY <1>2
      <4>. QED  BY <1>5, <2>1, <3>1, <4>1
    <3>. QED  BY <1>8, <3>1
  <2>5. Distance(i, k) < l
    BY <1>9, <1>10, <2>4
  <2>6. L < l <=> ~(l - 1 < L)
    BY <1>1
  <2>7. L < l \/ k = i
    BY <1>1, <2>4
  <2>. QED  BY <1>7, <2>2, <2>3, <2>5, <2>6, <2>7
<1>. QED  BY <1>6, <1>11, <1>12

\* Nothing that q's low number for d depends on changes.
Same(q, d) ==
  /\ Still(q, d)' <=> Still(q, d)
  /\ Asked(q, d)' <=> Asked(q, d)
  /\ Asked(q, d) => w0'[<<q, d>>] = w0[<<q, d>>]
  /\ Answering(d, q)' <=> Answering(d, q)
  /\ Answering(d, q) => msg'[d] = msg[d]

LEMMA SameLow ==
  ASSUME NEW q, NEW d, LastIsLow(q, d), Same(q, d)
  PROVE  LastIsLow(q, d)' /\ (Awaits(d, q)' <=> Awaits(d, q))
BY DEF LastIsLow, Same, Awaits, Low

LEMMA StillOthers ==
  ASSUME NEW p \in Procs, Alone(p), NEW q \in App, NEW d \in Dsl, p # q
  PROVE  Still(q, d)' <=> Still(q, d)
<1>1. pc'[q] = pc[q] /\ left'[q] = left[q] /\ to_idx'[q] = to_idx[q]
  BY Places DEF Alone
<1>2. Position(q)' = Position(q)
  BY <1>1 DEF Position
<1>. QED  BY <1>1, <1>2, StillKept

LEMMA OthersSame ==
  ASSUME NEW p \in Procs, Alone(p), Own(p), NEW q \in App, NEW d \in Dsl, p # q, p # d
  PROVE  Same(q, d)
<1>1. d \in Procs /\ <<q, d>> \in Chan
  BY Places, Lines
<1>2. (Pending(<<q, d>>)' <=> Pending(<<q, d>>)) /\ w0'[<<q, d>>] = w0[<<q, d>>]
  BY <1>1 DEF Own
<1>3. pc'[d] = pc[d] /\ msg'[d] = msg[d] /\ peer'[d] = peer[d]
  BY <1>1 DEF Alone
<1>. QED  BY <1>2, <1>3, StillOthers DEF Same, Asked, Answering

LEMMA UncountedSame ==
  ASSUME NEW d, \A q \in App : Awaits(d, q)' <=> Awaits(d, q)
  PROVE  Uncounted(d)' = Uncounted(d)
BY DEF Uncounted

\* What is left to show of a step of p.
LEMMA CountsFrom ==
  ASSUME IInv, NEW p \in Procs, Alone(p), Own(p),
         p \in App => InTurn(p)',
         \A q \in App, d \in Dsl : p = q \/ p = d => LastIsLow(q, d)',
         p \in App => \A d \in Dsl : Awaits(d, p)' <=> Awaits(d, p),
         p \in Dsl => left'[p] = Cardinality(Uncounted(p))'
  PROVE  Counts'
<1>1. ASSUME NEW q \in App PROVE InTurn(q)'
  <2>1. CASE q = p
    BY <2>1
  <2>2. CASE q # p
    <3>1. pc'[q] = pc[q] /\ left'[q] = left[q] /\ to[q] = to'[q] /\ to_idx'[q] = to_idx[q] /\ InTurn(q)
      BY <2>2, Places DEF Alone, IInv, Counts
    <3>. QED  BY <3>1 DEF InTurn
  <2>. QED  BY <2>1, <2>2
<1>2. ASSUME NEW q \in App, NEW d \in Dsl, p # q, p # d
      PROVE  LastIsLow(q, d)' /\ (Awaits(d, q)' <=> Awaits(d, q))
  <2>1. LastIsLow(q, d)
    BY DEF IInv, Counts
  <2>. QED  BY <1>2, <2>1, OthersSame, SameLow
<1>3. ASSUME NEW d \in Dsl PROVE left'[d] = Cardinality(Uncounted(d))'
  <2>1. CASE d = p
    BY <2>1
  <2>2. CASE d # p
    <3>1. left'[d] = left[d] /\ left[d] = Cardinality(Uncounted(d))
      BY <2>2, Places DEF Alone, IInv, Counts
    <3>2. \A q \in App : Awaits(d, q)' <=> Awaits(d, q)
      BY <1>2, <2>2
    <3>3. Uncounted(d)' = Uncounted(d)
      BY <3>2, UncountedSame
    <3>. QED  BY <3>1, <3>3
  <2>. QED  BY <2>1, <2>2
<1>. QED  BY <1>1, <1>2, <1>3 DEF Counts

\* d receives a number of e, or answers it, and counts it when it is low.
LEMMA CountDown ==
  ASSUME IInv, NEW d \in Dsl, NEW e \in App, Awaits(d, e), NEW low \in BOOLEAN,
         left'[d] = IF low THEN left[d] - 1 ELSE left[d],
         Awaits(d, e)' <=> ~low,
         \A q \in App : q # e => (Awaits(d, q)' <=> Awaits(d, q))
  PROVE  left'[d] = Cardinality(Uncounted(d))'
<1>1. left[d] = Cardinality(Uncounted(d))
  BY DEF IInv, Counts
<1>2. CASE low
  <2>1. IsFiniteSet(Uncounted(d)) /\ e \in Uncounted(d)
    BY Places, FS_Subset DEF Uncounted
  <2>2. Uncounted(d)' = Uncounted(d) \ {e}
    BY <1>2 DEF Uncounted
  <2>3. Cardinality(Uncounted(d) \ {e}) = Cardinality(Uncounted(d)) - 1
    BY <2>1, FS_RemoveElement
  <2>. QED  BY <1>1, <1>2, <2>2, <2>3
<1>3. CASE ~low
  <2>1. Uncounted(d)' = Uncounted(d)
    BY <1>3, UncountedSame
  <2>. QED  BY <1>1, <1>3, <2>1
<1>. QED  BY <1>2, <1>3

LEMMA RequestCounts ==
  ASSUME IInv, Enough, NEW p \in App, Request(p), defined' = defined
  PROVE  Counts'
<1>1. /\ Trips /\ InTurn(p)
      /\ Placed(p) /\ pc[p] = "request" /\ left[p] \in Nat \ {0} /\ left'[p] = left[p] - 1
      /\ to[p] \in Dsl /\ Send(<<p, to[p]>>, left[p] - 1) /\ peer' = peer
      /\ \/ "ROUNDTRIP" \in defined /\ pc'[p] = "reply" /\ to_idx' = to_idx
         \/ "ROUNDTRIP" \notin defined /\ pc'[p] = "request" /\ NextServer(p)
  BY RequestPlaces DEF IInv, Counts
<1>2. PICK e \in Dsl : e = to[p]
  BY <1>1
<1>3. /\ p \in Procs /\ e \in Procs /\ p # e /\ <<p, e>> \in Chan /\ Question(p, e) /\ ChanOK
  BY <1>1, QuestionTypes
<1>4. left[p] - 1 \in Int /\ left[p] - 1 # -1 /\ left[p] > 0
  BY <1>1
<1>5. Only(<<p, e>>) /\ ~Pending(<<p, e>>) /\ Pending(<<p, e>>)' /\ w0'[<<p, e>>] = left[p] - 1
  BY <1>1, <1>2, <1>3, <1>4, Sending
<1>6. Own(p)
  BY <1>3, <1>5, OwnLines
<1>7. Position(p)' = to_idx[p] /\ InTurn(p)'
  <2>1. /\ to_idx[p] \in 1 .. Len(dsl_seq) /\ to \in [App -> Dsl] /\ to_idx \in [App -> 1 .. Len(dsl_seq)]
        /\ NumMsgs \in Nat
    BY <1>1, ClientServerAssumption DEF Trips, TypeOK
  <2>2. left'[p] <= NumMsgs
    <3>1. left[p] <= NumMsgs
      BY <1>1 DEF InTurn
    <3>. QED  BY <1>1, <2>1, <3>1
  <2>3. CASE pc'[p] = "reply" /\ to_idx' = to_idx
    BY <2>2, <2>3 DEF Position, InTurn
  <2>4. CASE pc'[p] = "request" /\ NextServer(p)
    <3>1. to'[p] = dsl_seq[to_idx[p]] /\ to_idx'[p] = IF to_idx[p] = Len(dsl_seq) THEN 1 ELSE to_idx[p] + 1
      BY <2>1, <2>4 DEF NextServer
    <3>2. Before(to_idx'[p]) = to_idx[p]
      BY <2>1, <3>1, Ring
    <3>. QED  BY <2>2, <2>4, <3>1, <3>2 DEF Position, InTurn
  <2>. QED  BY <1>1, <2>3, <2>4
<1>8. /\ \A d \in Dsl : d # e => (Still(p, d)' <=> Still(p, d))
      /\ Still(p, e)
      /\ Low(left[p] - 1) <=> ~Still(p, e)'
  BY <1>1, <1>2, <1>4, <1>7, StillMoves
<1>9. ASSUME NEW d \in Dsl PROVE LastIsLow(p, d)' /\ (Awaits(d, p)' <=> Awaits(d, p))
  <2>1. /\ d \in Procs /\ p # d /\ <<p, d>> \in Chan /\ Question(p, d) /\ LastIsLow(p, d)
    BY <1>1, QuestionTypes DEF IInv, Counts
  <2>2. ~Answering(d, p)
    BY <1>1, <2>1 DEF Question, Expects
  <2>3. ~Answering(d, p)'
    BY <1>1, <2>1, <2>2 DEF Answering, Placed, Alone
  <2>4. CASE d # e
    <3>1. (Pending(<<p, d>>)' <=> Pending(<<p, d>>)) /\ w0'[<<p, d>>] = w0[<<p, d>>]
      BY <1>3, <1>5, <2>1, <2>4 DEF Only
    <3>. QED  BY <1>8, <2>1, <2>2, <2>3, <2>4, <3>1, SameLow DEF Same, Asked
  <2>5. CASE d = e
    <3>1. Asked(p, d)' /\ w0'[<<p, d>>] = left[p] - 1
      BY <1>4, <1>5, <2>5 DEF Asked
    <3>2. Low(w0[<<p, d>>])' <=> ~Still(p, d)'
      BY <1>8, <2>5, <3>1 DEF Low
    <3>. QED  BY <1>8, <2>3, <2>5, <3>1, <3>2 DEF LastIsLow, Awaits
  <2>. QED  BY <2>4, <2>5
<1>10. p \notin Dsl
  BY Places
<1>. QED  BY <1>1, <1>3, <1>6, <1>7, <1>9, <1>10, CountsFrom DEF Placed

LEMMA ReplyCounts ==
  ASSUME IInv, NEW p \in App, Reply(p), defined' = defined
  PROVE  Counts'
<1>1. /\ Trips /\ InTurn(p) /\ Placed(p) /\ pc[p] = "reply" /\ pc'[p] = "request" /\ to[p] \in Dsl
      /\ Recv(<<to[p], p>>) /\ left' = left /\ peer' = peer /\ NextServer(p)
  BY ReplyPlaces DEF IInv, Counts
<1>2. PICK e \in Dsl : e = to[p]
  BY <1>1
<1>3. /\ p \in Procs /\ e \in Procs /\ p # e /\ <<e, p>> \in Chan /\ ChanOK
  BY <1>1, QuestionTypes
<1>4. Only(<<e, p>>) /\ w0' = w0
  BY <1>1, <1>2, <1>3, Receiving
<1>5. Own(p)
  BY <1>3, <1>4, OwnLines
<1>6. Position(p)' = Position(p) /\ InTurn(p)'
  <2>1. to_idx[p] \in 1 .. Len(dsl_seq) /\ to \in [App -> Dsl] /\ to_idx \in [App -> 1 .. Len(dsl_seq)]
    BY <1>1 DEF Trips, TypeOK
  <2>2. to'[p] = dsl_seq[to_idx[p]] /\ to_idx'[p] = IF to_idx[p] = Len(dsl_seq) THEN 1 ELSE to_idx[p] + 1
    BY <1>1, <2>1 DEF NextServer
  <2>3. Before(to_idx'[p]) = to_idx[p]
    BY <2>1, <2>2, Ring
  <2>. QED  BY <1>1, <2>2, <2>3 DEF Position, InTurn
<1>7. ASSUME NEW d \in Dsl PROVE LastIsLow(p, d)' /\ (Awaits(d, p)' <=> Awaits(d, p))
  <2>1. /\ d \in Procs /\ p # d /\ <<p, d>> \in Chan /\ LastIsLow(p, d)
    BY <1>1, QuestionTypes DEF IInv, Counts
  <2>2. Still(p, d)' <=> Still(p, d)
    BY <1>1, <1>6, StillKept
  <2>3. Pending(<<p, d>>)' <=> Pending(<<p, d>>)
    BY <1>3, <1>4, <2>1 DEF Only
  <2>4. pc'[d] = pc[d] /\ peer'[d] = peer[d] /\ msg'[d] = msg[d]
    BY <1>1, <2>1 DEF Placed, Alone
  <2>. QED  BY <1>4, <2>1, <2>2, <2>3, <2>4, SameLow DEF Same, Asked, Answering
<1>8. p \notin Dsl
  BY Places
<1>. QED  BY <1>1, <1>3, <1>5, <1>6, <1>7, <1>8, CountsFrom DEF Placed

LEMMA ServesQuestion ==
  ASSUME Trips, NEW e \in App, NEW d \in Dsl, pc[d] = "serve", Pending(<<e, d>>)
  PROVE  Asked(e, d)
<1>1. d \in Procs /\ waits[d] \in Nat /\ waits[d] <= 2 /\ Question(e, d)
  BY Places DEF Phase, Working, Trips, TypeOK
<1>2. ~(waits[d] >= 3)
  BY <1>1
<1>. QED  BY <1>1, <1>2 DEF Question, Asked

LEMMA ServeCounts ==
  ASSUME IInv, NEW d \in Dsl, Serve(d), defined' = defined
  PROVE  Counts'
<1>0. Trips
  BY DEF IInv
<1>1. PICK e \in App :
        /\ Placed(d) /\ pc[d] = "serve" /\ Recv(<<e, d>>) /\ msg'[d] = w0[<<e, d>>]
        /\ \/ /\ "ROUNDTRIP" \in defined
              /\ pc'[d] = "answer" /\ peer'[d] = e /\ left' = left
           \/ /\ "ROUNDTRIP" \notin defined
              /\ pc'[d] \in {"report", "serve"}
              /\ left'[d] = IF Low(w0[<<e, d>>]) THEN left[d] - 1 ELSE left[d]
  BY <1>0, ServePlaces
<1>2. d \in Procs /\ e \in Procs /\ d # e /\ <<e, d>> \in Chan /\ ChanOK /\ LastIsLow(e, d)
  BY <1>0, QuestionTypes DEF IInv, Counts
<1>3. Only(<<e, d>>) /\ Pending(<<e, d>>) /\ ~Pending(<<e, d>>)' /\ w0' = w0
  BY <1>1, <1>2, Receiving
<1>4. Own(d)
  BY <1>2, <1>3, OwnLines
<1>5. Asked(e, d) /\ ~Asked(e, d)'
  BY <1>0, <1>1, <1>3, ServesQuestion DEF Asked
<1>6. \A q \in App : (Still(q, d)' <=> Still(q, d)) /\ ~Answering(d, q)
  BY <1>1, Places, StillOthers DEF Placed, Answering
<1>7. Low(w0[<<e, d>>]) <=> ~Still(e, d)
  BY <1>2, <1>5 DEF LastIsLow
<1>8. ASSUME NEW q \in App, q # e PROVE LastIsLow(q, d)' /\ (Awaits(d, q)' <=> Awaits(d, q))
  <2>1. <<q, d>> \in Chan /\ LastIsLow(q, d)
    BY <1>0, QuestionTypes DEF IInv, Counts
  <2>2. (Pending(<<q, d>>)' <=> Pending(<<q, d>>)) /\ ~Answering(d, q)'
    BY <1>1, <1>2, <1>3, <1>8, <2>1 DEF Only, Answering
  <2>. QED  BY <1>3, <1>6, <2>1, <2>2, SameLow DEF Same, Asked
<1>9. CASE "ROUNDTRIP" \in defined
  <2>1. Answering(d, e)' /\ Low(msg[d])' = Low(w0[<<e, d>>])
    BY <1>1, <1>9 DEF Answering, Low
  <2>2. LastIsLow(e, d)' /\ Awaits(d, e)' /\ Awaits(d, e)
    BY <1>5, <1>6, <1>7, <2>1 DEF LastIsLow, Awaits
  <2>3. Uncounted(d)' = Uncounted(d) /\ left' = left
    BY <1>1, <1>8, <1>9, <2>2, UncountedSame
  <2>4. left'[d] = Cardinality(Uncounted(d))'
    BY <2>3 DEF IInv, Counts
  <2>. QED  BY <1>1, <1>2, <1>4, <1>8, <2>2, <2>4, Places, CountsFrom DEF Placed
<1>10. CASE "ROUNDTRIP" \notin defined
  <2>1. left'[d] = (IF Low(w0[<<e, d>>]) THEN left[d] - 1 ELSE left[d]) /\ ~Answering(d, e)'
    BY <1>1, <1>10 DEF Answering
  <2>2. LastIsLow(e, d)' /\ (Awaits(d, e)' <=> ~Low(w0[<<e, d>>])) /\ Awaits(d, e)
    BY <1>5, <1>6, <1>7, <2>1 DEF LastIsLow, Awaits
  <2>3. PICK low \in BOOLEAN : low <=> Low(w0[<<e, d>>])
    OBVIOUS
  <2>4. left'[d] = IF low THEN left[d] - 1 ELSE left[d]
    BY <2>1, <2>3
  <2>5. left'[d] = Cardinality(Uncounted(d))'
    BY <1>8, <2>2, <2>3, <2>4, CountDown
  <2>. QED  BY <1>1, <1>2, <1>4, <1>8, <2>2, <2>5, Places, CountsFrom DEF Placed
<1>. QED  BY <1>9, <1>10

LEMMA AnswerCounts ==
  ASSUME IInv, NEW d \in Dsl, Answer(d), defined' = defined
  PROVE  Counts'
<1>0. Trips
  BY DEF IInv
<1>1. /\ Placed(d) /\ pc[d] = "answer" /\ peer[d] \in App /\ Send(<<d, peer[d]>>, msg[d])
      /\ pc'[d] \in {"report", "serve"}
      /\ left'[d] = IF Low(msg[d]) THEN left[d] - 1 ELSE left[d]
  BY <1>0, AnswerPlaces
<1>2. PICK e \in App : e = peer[d]
  BY <1>1
<1>3. /\ d \in Procs /\ e \in Procs /\ d # e /\ <<d, e>> \in Chan /\ ChanOK /\ msg[d] \in Int
      /\ Question(e, d) /\ LastIsLow(e, d)
  BY <1>0, QuestionTypes DEF Trips, TypeOK, IInv, Counts
<1>4. Only(<<d, e>>)
  BY <1>1, <1>2, <1>3, Sending
<1>5. Own(d)
  BY <1>3, <1>4, OwnLines
<1>6. Answering(d, e) /\ ~Asked(e, d)
  BY <1>1, <1>2, <1>3 DEF Question, Answering
<1>7. Low(msg[d]) <=> ~Still(e, d)
  BY <1>3, <1>6 DEF LastIsLow
<1>8. ASSUME NEW q \in App
      PROVE  /\ Still(q, d)' <=> Still(q, d)
             /\ Asked(q, d)' <=> Asked(q, d)
             /\ w0'[<<q, d>>] = w0[<<q, d>>]
             /\ ~Answering(d, q)' /\ (q # e => ~Answering(d, q))
             /\ LastIsLow(q, d)
  <2>1. <<q, d>> \in Chan /\ q \in Procs /\ q # d
    BY <1>0, QuestionTypes
  <2>2. (Pending(<<q, d>>)' <=> Pending(<<q, d>>)) /\ w0'[<<q, d>>] = w0[<<q, d>>]
    BY <1>3, <1>4, <2>1 DEF Only
  <2>. QED  BY <1>1, <1>2, <1>3, <2>1, <2>2, StillOthers DEF Placed, Asked, Answering, IInv, Counts
<1>9. \A q \in App : LastIsLow(q, d)'
  BY <1>8 DEF LastIsLow, Low
<1>10. \A q \in App : q # e => (Awaits(d, q)' <=> Awaits(d, q))
  BY <1>8 DEF Awaits
<1>11. Awaits(d, e) /\ (Awaits(d, e)' <=> ~Low(msg[d]))
  BY <1>6, <1>7, <1>8 DEF Awaits
<1>12. PICK low \in BOOLEAN : low <=> Low(msg[d])
  OBVIOUS
<1>13. left'[d] = IF low THEN left[d] - 1 ELSE left[d]
  BY <1>1, <1>12
<1>14. left'[d] = Cardinality(Uncounted(d))'
  BY <1>10, <1>11, <1>12, <1>13, CountDown
<1>. QED  BY <1>1, <1>3, <1>5, <1>9, <1>14, Places, CountsFrom DEF Placed

\* A server that does not work any more waits for no client's low number.
LEMMA Stopped ==
  ASSUME IInv, NEW d \in Dsl, pc[d] \notin Working
  PROVE  \A q \in App : ~Awaits(d, q)
<1>1. left[d] = Cardinality(Uncounted(d)) /\ left[d] = 0
  <2>1. left[d] \in Nat /\ ~(left[d] > 0)
    BY Places DEF IInv, Trips, TypeOK, Phase
  <2>. QED  BY <2>1 DEF IInv, Counts
<1>2. IsFiniteSet(Uncounted(d))
  BY Places, FS_Subset DEF Uncounted
<1>3. Uncounted(d) = {}
  BY <1>1, <1>2, FS_EmptySet
<1>. QED  BY <1>3 DEF Uncounted

LEMMA QuietCounts ==
  ASSUME IInv, NEW p \in Procs, Placed(p), UNCHANGED <<chans, to, to_idx, left, msg, peer>>,
         pc[p] \notin {"reply", "answer"}, pc'[p] \notin {"reply", "answer"}
  PROVE  Counts'
<1>1. Alone(p) /\ Own(p)
  BY OwnLines DEF Placed
<1>2. ASSUME NEW q \in App, NEW d \in Dsl PROVE LastIsLow(q, d)' /\ (Awaits(d, q)' <=> Awaits(d, q))
  <2>1. q \in Procs /\ d \in Procs /\ LastIsLow(q, d)
    BY Places DEF IInv, Counts
  <2>2. pc'[q] = "reply" <=> pc[q] = "reply"
    BY <1>1, <2>1 DEF Alone
  <2>3. pc'[d] = "answer" <=> pc[d] = "answer"
    BY <1>1, <2>1 DEF Alone
  <2>4. Still(q, d)' <=> Still(q, d)
    BY <2>2, StillKept DEF Position
  <2>. QED  BY <2>1, <2>3, <2>4, SameLow DEF Same, Asked, Answering, Pending, chans
<1>3. p \in App => InTurn(p)'
  BY DEF IInv, Counts, InTurn
<1>4. ASSUME p \in Dsl PROVE left'[p] = Cardinality(Uncounted(p))'
  <2>1. Uncounted(p)' = Uncounted(p)
    BY <1>2, <1>4, UncountedSame
  <2>. QED  BY <1>4, <2>1 DEF IInv, Counts
<1>. QED  BY <1>1, <1>2, <1>3, <1>4, CountsFrom

LEMMA ReportCounts ==
  ASSUME IInv, NEW p \in Procs, Report(p), defined' = defined
  PROVE  Counts'
<1>0. Trips
  BY DEF IInv
<1>1. /\ Placed(p) /\ pc[p] = "report" /\ pc'[p] = "turn" /\ UNCHANGED <<to, to_idx, left, msg, peer>>
      /\ \/ p \in App /\ Send(<<p, 0>>, -1)
         \/ p = 0 /\ \E q \in App : Recv(<<q, 0>>)
         \/ UNCHANGED chans
  BY <1>0, ReportPlaces
<1>2. CASE UNCHANGED chans
  BY <1>1, <1>2, QuietCounts
<1>3. CASE p = 0 /\ \E q \in App : Recv(<<q, 0>>)
  <2>1. PICK e \in App : Recv(<<e, 0>>)
    BY <1>3
  <2>2. e \in Procs /\ 0 \in Procs /\ 0 \in Dsl /\ <<e, 0>> \in Chan /\ ChanOK /\ p \notin App
    BY <1>0, <1>3, QuestionTypes, Places
  <2>3. Only(<<e, 0>>) /\ ~Pending(<<e, 0>>)' /\ w0' = w0
    BY <2>1, <2>2, Receiving
  <2>4. Own(p)
    BY <1>3, <2>2, <2>3, OwnLines
  <2>5. \A q \in App : ~Awaits(p, q)
    BY <1>1, <1>3, <2>2, Stopped DEF Working
  <2>6. ASSUME NEW q \in App PROVE LastIsLow(q, p)' /\ ~Awaits(p, q)'
    <3>1. <<q, p>> \in Chan
      BY <1>3, <2>2, Lines
    <3>2. ~Still(q, p) /\ ~Asked(q, p)
      BY <2>5 DEF Awaits
    <3>3. ~Asked(q, p)'
      BY <2>3, <3>1, <3>2 DEF Only, Asked
    <3>4. ~Answering(p, q)'
      BY <1>1 DEF Answering
    <3>5. ~Still(q, p)'
      BY <1>1, <1>3, <2>2, <3>2, StillOthers DEF Placed
    <3>. QED  BY <3>3, <3>4, <3>5 DEF LastIsLow, Awaits
  <2>7. left'[p] = Cardinality(Uncounted(p))'
    <3>1. Uncounted(p)' = Uncounted(p)
      BY <2>5, <2>6, UncountedSame
    <3>. QED  BY <1>1, <1>3, <2>2, <3>1 DEF IInv, Counts
  <2>. QED  BY <1>1, <2>2, <2>4, <2>6, <2>7, CountsFrom DEF Placed
<1>4. CASE p \in App /\ Send(<<p, 0>>, -1)
  <2>1. /\ 0 \in Procs /\ 0 \in Dsl /\ p \notin Dsl /\ <<p, 0>> \in Chan /\ ChanOK
    BY <1>0, <1>4, QuestionTypes, Places
  <2>2. Only(<<p, 0>>) /\ ~Pending(<<p, 0>>) /\ w0'[<<p, 0>>] = -1
    BY <1>4, <2>1, Sending
  <2>3. Own(p)
    BY <2>1, <2>2, OwnLines
  <2>4. ASSUME NEW d \in Dsl PROVE LastIsLow(p, d)' /\ (Awaits(d, p)' <=> Awaits(d, p))
    <3>1. d \in Procs /\ d # p /\ <<p, d>> \in Chan /\ LastIsLow(p, d)
      BY <1>0, <1>4, QuestionTypes DEF IInv, Counts
    <3>2. Still(p, d)' <=> Still(p, d)
      BY <1>1, StillKept DEF Position
    <3>3. pc'[d] = pc[d]
      BY <1>1, <3>1 DEF Placed, Alone
    <3>4. Asked(p, d)' <=> Asked(p, d)
      BY <2>1, <2>2, <3>1 DEF Only, Asked
    <3>5. Asked(p, d) => w0'[<<p, d>>] = w0[<<p, d>>]
      BY <2>1, <2>2, <3>1 DEF Only, Asked
    <3>. QED  BY <1>1, <3>1, <3>2, <3>3, <3>4, <3>5, SameLow DEF Same, Answering
  <2>5. InTurn(p)'
    BY <1>1, <1>4 DEF IInv, Counts, InTurn
  <2>. QED  BY <1>1, <2>1, <2>3, <2>4, <2>5, CountsFrom DEF Placed
<1>. QED  BY <1>1, <1>2, <1>3, <1>4

LEMMA CountsStep ==
  ASSUME IInv, Enough, [Next]_vars
  PROVE  Counts'
<1>0. Trips
  BY DEF IInv
<1>1. ASSUME NEW p \in Procs, Step(p) PROVE Counts'
  <2>0. defined' = defined
    BY <1>1 DEF Step
  <2>1. CASE Open(p)
    BY <1>0, <2>0, <2>1, OpenPlaces, QuietCounts
  <2>2. CASE p \in App /\ Request(p)
    BY <2>0, <2>2, RequestCounts
  <2>3. CASE p \in App /\ Reply(p)
    BY <2>0, <2>3, ReplyCounts
  <2>4. CASE p \in App /\ ClientDone(p)
    BY <1>0, <2>0, <2>4, ClientDonePlaces, QuietCounts
  <2>5. CASE p \in Dsl /\ ScanMiss(p)
    <3>1. pc[p] = "serve"
      BY <2>5 DEF ScanMiss
    <3>. QED  BY <1>0, <2>0, <2>5, <3>1, ScanMissPlaces, QuietCounts
  <2>6. CASE p \in Dsl /\ Serve(p)
    BY <2>0, <2>6, ServeCounts
  <2>7. CASE p \in Dsl /\ Answer(p)
    BY <2>0, <2>7, AnswerCounts
  <2>8. CASE Report(p)
    BY <2>0, <2>8, ReportCounts
  <2>9. CASE Turn(p)
    BY <1>0, <2>0, <2>9, TurnPlaces, QuietCounts
  <2>10. CASE Close(p) \/ Exit(p)
    BY <1>0, <2>0, <2>10, EndPlaces, QuietCounts
  <2>. QED  BY <1>1, <2>1, <2>2, <2>3, <2>4, <2>5, <2>6, <2>7, <2>8, <2>9, <2>10 DEF Step
<1>2. CASE UNCHANGED vars
  <2>1. \A p \in App : InTurn(p)' <=> InTurn(p)
    BY <1>2 DEF InTurn, vars
  <2>2. \A p \in App, d \in Dsl : Same(p, d)
    BY <1>2 DEF Same, Still, Position, Asked, Answering, Pending, vars, chans
  <2>3. \A p \in App, d \in Dsl : LastIsLow(p, d)' /\ (Awaits(d, p)' <=> Awaits(d, p))
    BY <2>2, SameLow DEF IInv, Counts
  <2>4. \A d \in Dsl : Uncounted(d)' = Uncounted(d)
    BY <2>3, UncountedSame
  <2>5. left' = left
    BY <1>2 DEF vars
  <2>. QED  BY <2>1, <2>3, <2>4, <2>5 DEF IInv, Counts
<1>. QED  BY <1>1, <1>2 DEF Next

LEMMA CountsInit == Enough /\ Init => Counts
<1> SUFFICES ASSUME Enough, Init PROVE Counts
  OBVIOUS
<1>1. Len(app_seq) = Cardinality(App) /\ Len(dsl_seq) \in Nat \ {0} /\ NumMsgs \in Nat /\ NumMsgs > Len(dsl_seq)
  BY Sequences, ClientServerAssumption DEF Listed, Enough
<1>2. \A p \in App : pc[p] = "open" /\ left[p] = NumMsgs /\ to_idx[p] = 1
  BY Places DEF Init
<1>3. \A d \in Dsl : pc[d] = "open" /\ left[d] = Cardinality(App)
  BY <1>1, Places DEF Init
<1>4. \A c \in Chan : ~Pending(c)
  BY DEF Init, Channel!Init, Pending
<1>5. \A p \in App, d \in Dsl : ~Asked(p, d) /\ ~Answering(d, p)
  BY <1>3, <1>4, Lines DEF Asked, Answering
<1>6. ASSUME NEW p \in App, NEW d \in Dsl PROVE Still(p, d)
  <2>1. PICK k \in 1 .. Len(dsl_seq) : dsl_seq[k] = d
    BY Sequences DEF Listed
  <2>2. 1 \in 1 .. Len(dsl_seq) /\ Position(p) = Before(1)
    BY <1>1, <1>2 DEF Position
  <2>3. Distance(Before(1), k) \in 0 .. Len(dsl_seq) - 1
    BY <2>2, Ring
  <2>4. Distance(Before(1), k) < NumMsgs
    BY <1>1, <2>3
  <2>. QED  BY <1>2, <2>1, <2>2, <2>4 DEF Still
<1>7. \A d \in Dsl : Uncounted(d) = App
  BY <1>6 DEF Uncounted, Awaits
<1>8. \A p \in App : InTurn(p)
  BY <1>1, <1>2 DEF InTurn
<1>. QED  BY <1>3, <1>5, <1>7, <1>8 DEF Counts, LastIsLow

\* The low numbers: a client has one for every server it has not told, and a server
\* counts down exactly the clients whose low number it has not seen (num_zeros).
THEOREM InvariantHolds == Enough => (Spec => []IInv)
<1> SUFFICES ASSUME Enough PROVE Spec => []IInv
  OBVIOUS
<1>1. Init => IInv
  BY TripsInit, CountsInit DEF IInv
<1>2. IInv /\ [Next]_vars => IInv'
  BY TripsStep, CountsStep DEF IInv
<1>. QED  BY <1>1, <1>2, PTL DEF Spec

\* NothingUnserved: a server that stops by its own count (--num_zeros == 0) leaves no
\* client's message behind, and one that goes on never finds a report where it polls.
THEOREM NothingStaysUnserved == Enough => (Spec => []NothingUnserved)
<1> SUFFICES ASSUME Enough PROVE Spec => []NothingUnserved
  OBVIOUS
<1>1. IInv => NothingUnserved
  <2> SUFFICES ASSUME IInv, NEW d \in Dsl, NEW p \in App, Pending(<<p, d>>)
               PROVE  w0[<<p, d>>] = -1 <=> pc[d] \notin {"open", "ready", "serve", "answer"}
    BY DEF NothingUnserved
  <2>1. d \in Procs /\ Question(p, d) /\ Phase(d) /\ waits[d] \in Nat
    BY QuestionTypes DEF IInv, Trips, TypeOK
  <2>2. pc[d] \in {"open", "ready", "serve", "answer"} <=> pc[d] \in Working
    BY <2>1, Places DEF Phase, Working
  <2>3. ASSUME w0[<<p, d>>] = -1 PROVE pc[d] \notin Working
    <3>1. waits[d] >= 3
      BY <2>1, <2>3 DEF Question
    <3>2. ~(waits[d] <= 2)
      BY <2>1, <3>1
    <3>. QED  BY <2>1, <3>2 DEF Phase
  <2>4. ASSUME pc[d] \notin Working PROVE w0[<<p, d>>] = -1
    <3>1. ~Asked(p, d)
      BY <2>4, Stopped DEF Awaits
    <3>. QED  BY <3>1 DEF Asked
  <2>. QED  BY <2>2, <2>3, <2>4
<1>. QED  BY <1>1, InvariantHolds, PTL
=============================================================================
