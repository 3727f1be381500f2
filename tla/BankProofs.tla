----------------------------- MODULE BankProofs -----------------------------
(***************************************************************************)
(* The books of the bank, for any number of processes, servers, accounts   *)
(* and operations.                                                         *)
(***************************************************************************)
EXTENDS Bank, ColorBufferProofs

Bit(b) == IF b THEN 1 ELSE 0

LEMMA Places ==
  /\ Dsl \subseteq Procs /\ App \subseteq Procs /\ Procs \subseteq Nat
  /\ 0 \in Dsl /\ 1 \in App /\ 0 \notin App /\ \A p \in App, d \in Dsl : p # d
  /\ IsFiniteSet(Chan)
<1>1. Dsl \subseteq Procs /\ App \subseteq Procs /\ Procs \subseteq Nat
  BY BankAssumption DEF Dsl, App, Procs
<1>2. 0 \in Procs /\ 1 \in Procs
  BY BankAssumption DEF Procs
<1>3. 0 % DslPerCore = 0 /\ 1 % DslPerCore = 1
  BY BankAssumption
<1>4. 0 \in Dsl /\ 1 \in App /\ 0 \notin App /\ \A p \in App, d \in Dsl : p # d
  BY <1>2, <1>3 DEF Dsl, App, color_dsl
<1>5. IsFiniteSet(Procs)
  BY BankAssumption, FS_Interval DEF Procs
<1>6. IsFiniteSet(Procs \X Procs)
  BY <1>5, FS_Product
<1>7. IsFiniteSet(Chan)
  BY <1>6, FS_Subset DEF Chan
<1>. QED  BY <1>1, <1>4, <1>7

LEMMA Lines ==
  ASSUME NEW p \in App, NEW d \in Dsl
  PROVE  /\ <<p, d>> \in Chan /\ <<d, p>> \in Chan
         /\ <<p, d>>[1] = p /\ <<p, d>>[2] = d /\ <<d, p>>[1] = d /\ <<d, p>>[2] = p
BY Places DEF Chan

\* The servers and the applications, as the loops over the cores list them.
LEMMA Sequences ==
  /\ Len(dsl_seq) \in Nat \ {0} /\ \A i \in 1 .. Len(dsl_seq) : dsl_seq[i] \in Dsl
  /\ Len(app_seq) \in Nat \ {0} /\ \A i \in 1 .. Len(app_seq) : app_seq[i] \in App
<1>1. ASSUME NEW S, S \subseteq Procs, S # {}
      PROVE  /\ Len(in_order(S, N)) \in Nat \ {0}
             /\ \A i \in 1 .. Len(in_order(S, N)) : in_order(S, N)[i] \in S
  <2>1. N \in Nat /\ S \subseteq Nat /\ \A x \in S : x < N
    BY <1>1, BankAssumption DEF Procs
  <2>2. Ascending(in_order(S, N), S, N)
    BY <2>1, InOrderHolds
  <2>3. PICK x \in S : TRUE
    BY <1>1
  <2>4. PICK i \in 1 .. Len(in_order(S, N)) : in_order(S, N)[i] = x
    BY <2>1, <2>2 DEF Ascending
  <2>5. Len(in_order(S, N)) \in Nat
    BY <2>2 DEF Ascending
  <2>. QED  BY <2>2, <2>4, <2>5 DEF Ascending
<1>. QED  BY <1>1, Places DEF dsl_seq, app_seq

(***************************************************************************)
(* One channel at a time.                                                  *)
(***************************************************************************)
ChanOK ==
  /\ accepted \in [Chan -> Nat] /\ delivered \in [Chan -> Seq([{"w"} -> Nat])]
  /\ \A c \in Chan : accepted[c] \in {Len(delivered[c]), Len(delivered[c]) + 1}
  /\ payload \in [Chan -> Messages]

\* No channel but x changes.
Only(x) == \A c \in Chan : c # x => (Pending(c)' <=> Pending(c)) /\ payload'[c] = payload[c]

LEMMA Sending ==
  ASSUME ChanOK, NEW x \in Chan, NEW m \in Messages, Send(x, m)
  PROVE  ChanOK' /\ Only(x) /\ ~Pending(x) /\ Pending(x)' /\ payload'[x] = m
<1>1. /\ accepted[x] = Len(delivered[x]) /\ accepted' = [accepted EXCEPT ![x] = @ + 1]
      /\ delivered' = delivered /\ payload' = [payload EXCEPT ![x] = m]
  BY DEF Send, Channel!Accept
<1>2. \A c \in Chan : accepted[c] \in Nat /\ Len(delivered[c]) \in Nat
  BY DEF ChanOK
<1>3. accepted' \in [Chan -> Nat] /\ payload' \in [Chan -> Messages] /\ payload'[x] = m
  BY <1>1, <1>2 DEF ChanOK
<1>4. accepted'[x] = accepted[x] + 1
      /\ \A c \in Chan : c # x => accepted'[c] = accepted[c] /\ payload'[c] = payload[c]
  BY <1>1 DEF ChanOK
<1>5. \A c \in Chan : accepted'[c] \in {Len(delivered'[c]), Len(delivered'[c]) + 1}
  BY <1>1, <1>2, <1>4 DEF ChanOK
<1>6. ChanOK'
  BY <1>1, <1>3, <1>5 DEF ChanOK
<1>7. Only(x)
  BY <1>1, <1>4 DEF Only, Pending
<1>8. ~Pending(x) /\ Pending(x)'
  BY <1>1, <1>2, <1>4 DEF Pending
<1>. QED  BY <1>3, <1>6, <1>7, <1>8

LEMMA Receiving ==
  ASSUME ChanOK, NEW x \in Chan, Recv(x)
  PROVE  ChanOK' /\ Only(x) /\ Pending(x) /\ ~Pending(x)' /\ payload' = payload
<1>1. /\ Len(delivered[x]) < accepted[x] /\ accepted' = accepted /\ payload' = payload
      /\ delivered' = [delivered EXCEPT ![x] = Append(@, Channel!Line(accepted[x]))]
  BY DEF Recv, Channel!Deliver
<1>2. \A c \in Chan : accepted[c] \in Nat /\ Len(delivered[c]) \in Nat
                     /\ delivered[c] \in Seq([{"w"} -> Nat])
  BY DEF ChanOK
<1>3. Channel!Line(accepted[x]) \in [{"w"} -> Nat]
  BY <1>2 DEF Channel!Line
<1>4. /\ Append(delivered[x], Channel!Line(accepted[x])) \in Seq([{"w"} -> Nat])
      /\ Len(Append(delivered[x], Channel!Line(accepted[x]))) = Len(delivered[x]) + 1
  BY <1>2, <1>3
<1>5. delivered' \in [Chan -> Seq([{"w"} -> Nat])]
  BY <1>1, <1>4 DEF ChanOK
<1>6. Len(delivered'[x]) = Len(delivered[x]) + 1
      /\ \A c \in Chan : c # x => delivered'[c] = delivered[c]
  BY <1>1, <1>4 DEF ChanOK
<1>7. accepted[x] = Len(delivered[x]) + 1
  BY <1>1, <1>2 DEF ChanOK
<1>8. \A c \in Chan : accepted'[c] \in {Len(delivered'[c]), Len(delivered'[c]) + 1}
  BY <1>1, <1>2, <1>6, <1>7 DEF ChanOK
<1>9. ChanOK'
  BY <1>1, <1>5, <1>8 DEF ChanOK
<1>10. Only(x)
  BY <1>1, <1>6 DEF Only, Pending
<1>11. Pending(x) /\ ~Pending(x)'
  BY <1>1, <1>2, <1>6, <1>7 DEF Pending
<1>. QED  BY <1>1, <1>9, <1>10, <1>11

(***************************************************************************)
(* Counting what is on its way.                                            *)
(***************************************************************************)
LEMMA CountOne ==
  ASSUME NEW S, S \subseteq Chan, NEW T, T \subseteq Chan, NEW x \in Chan, S \ {x} = T \ {x}
  PROVE  /\ Cardinality(S) \in Nat /\ Cardinality(T) \in Nat
         /\ Cardinality(T) + Bit(x \in S) = Cardinality(S) + Bit(x \in T)
<1>1. ASSUME NEW U, U \subseteq Chan
      PROVE  /\ Cardinality(U) \in Nat /\ Cardinality(U \ {x}) \in Nat
             /\ Cardinality(U) = Cardinality(U \ {x}) + Bit(x \in U)
  <2>1. IsFiniteSet(U)
    BY <1>1, Places, FS_Subset
  <2>2. IsFiniteSet(U \ {x})
    BY <2>1, FS_Subset
  <2>3. Cardinality(U) \in Nat /\ Cardinality(U \ {x}) \in Nat
    BY <2>1, <2>2, FS_CardinalityType
  <2>4. CASE x \in U
    <3>1. Cardinality(U \ {x}) = Cardinality(U) - 1
      BY <2>1, <2>4, FS_RemoveElement
    <3>. QED  BY <2>3, <2>4, <3>1 DEF Bit
  <2>5. CASE x \notin U
    <3>1. U \ {x} = U
      BY <2>5
    <3>. QED  BY <2>3, <2>5, <3>1 DEF Bit
  <2>. QED  BY <2>4, <2>5, <2>3
<1>2. /\ Cardinality(S) \in Nat /\ Cardinality(S) = Cardinality(S \ {x}) + Bit(x \in S)
      /\ Cardinality(S \ {x}) \in Nat
  BY <1>1
<1>3. /\ Cardinality(T) \in Nat /\ Cardinality(T) = Cardinality(S \ {x}) + Bit(x \in T)
  <2>1. Cardinality(T) \in Nat /\ Cardinality(T) = Cardinality(T \ {x}) + Bit(x \in T)
    BY <1>1
  <2>. QED  BY <2>1
<1>4. Bit(x \in S) \in Nat /\ Bit(x \in T) \in Nat
  BY DEF Bit
<1> DEFINE s == Cardinality(S)
<1> DEFINE t == Cardinality(T)
<1> DEFINE r == Cardinality(S \ {x})
<1> DEFINE i == Bit(x \in S)
<1> DEFINE j == Bit(x \in T)
<1>5. s \in Nat /\ t \in Nat /\ r \in Nat /\ i \in Nat /\ j \in Nat /\ s = r + i /\ t = r + j
  BY <1>2, <1>3, <1>4
<1> HIDE DEF s, t, r, i, j
<1>6. s \in Nat /\ t \in Nat /\ t + i = s + j
  BY <1>5
<1>. QED  BY <1>6 DEF s, t, i, j

InGrant(c, d, a) == c[1] = d /\ Pending(c) /\ Granted(payload[c], a)
Grants(d, a) == Cardinality({c \in Chan : InGrant(c, d, a)})

LEMMA Ledger ==
  ASSUME NEW x \in Chan, Only(x), NEW d, NEW a
  PROVE  /\ Deposits(d, a) \in Nat /\ Deposits(d, a)' \in Nat
         /\ Deposits(d, a)' + Bit(InDeposit(x, d, a)) = Deposits(d, a) + Bit(InDeposit(x, d, a)')
         /\ Grants(d, a) \in Nat /\ Grants(d, a)' \in Nat
         /\ Grants(d, a)' + Bit(InGrant(x, d, a)) = Grants(d, a) + Bit(InGrant(x, d, a)')
<1>1. \A c \in Chan : c # x => /\ InDeposit(c, d, a)' <=> InDeposit(c, d, a)
                               /\ InGrant(c, d, a)' <=> InGrant(c, d, a)
  BY DEF Only, InDeposit, InGrant
<1>2. /\ Deposits(d, a) \in Nat /\ Deposits(d, a)' \in Nat
      /\ Deposits(d, a)' + Bit(InDeposit(x, d, a)) = Deposits(d, a) + Bit(InDeposit(x, d, a)')
  <2> DEFINE S == {c \in Chan : InDeposit(c, d, a)}
  <2> DEFINE T == {c \in Chan : InDeposit(c, d, a)'}
  <2>1. S \ {x} = T \ {x} /\ (x \in S <=> InDeposit(x, d, a)) /\ (x \in T <=> InDeposit(x, d, a)')
    BY <1>1
  <2>2. Bit(x \in S) = Bit(InDeposit(x, d, a)) /\ Bit(x \in T) = Bit(InDeposit(x, d, a)')
    BY <2>1 DEF Bit
  <2>3. Deposits(d, a) = Cardinality(S) /\ Deposits(d, a)' = Cardinality(T)
    BY DEF Deposits
  <2>4. S \subseteq Chan /\ T \subseteq Chan
    OBVIOUS
  <2> HIDE DEF S, T
  <2>. QED  BY <2>1, <2>2, <2>3, <2>4, CountOne
<1>3. /\ Grants(d, a) \in Nat /\ Grants(d, a)' \in Nat
      /\ Grants(d, a)' + Bit(InGrant(x, d, a)) = Grants(d, a) + Bit(InGrant(x, d, a)')
  <2> DEFINE S == {c \in Chan : InGrant(c, d, a)}
  <2> DEFINE T == {c \in Chan : InGrant(c, d, a)'}
  <2>1. S \ {x} = T \ {x} /\ (x \in S <=> InGrant(x, d, a)) /\ (x \in T <=> InGrant(x, d, a)')
    BY <1>1
  <2>2. Bit(x \in S) = Bit(InGrant(x, d, a)) /\ Bit(x \in T) = Bit(InGrant(x, d, a)')
    BY <2>1 DEF Bit
  <2>3. Grants(d, a) = Cardinality(S) /\ Grants(d, a)' = Cardinality(T)
    BY DEF Grants
  <2>4. S \subseteq Chan /\ T \subseteq Chan
    OBVIOUS
  <2> HIDE DEF S, T
  <2>. QED  BY <2>1, <2>2, <2>3, <2>4, CountOne
<1>. QED  BY <1>2, <1>3
\* What a step that concerns channel x does to the books of one account.
LEMMA BooksKept ==
  ASSUME NEW x \in Chan, Only(x), NEW d \in Dsl, NEW a \in Accounts, TypeOK, TypeOK', Books(d, a),
         balance'[d][a] + Bit(InDeposit(x, d, a)') + withdrawn'[d][a]
             + Bit(InGrant(x, d, a)') + Bit(Granted(reply[d], a)')
             + deposited[d][a]
           = balance[d][a] + Bit(InDeposit(x, d, a)) + withdrawn[d][a]
             + Bit(InGrant(x, d, a)) + Bit(Granted(reply[d], a))
             + deposited'[d][a]
  PROVE  Books(d, a)'
<1>1. /\ balance[d][a] \in Int /\ deposited[d][a] \in Nat /\ withdrawn[d][a] \in Nat
      /\ balance'[d][a] \in Int /\ deposited'[d][a] \in Nat /\ withdrawn'[d][a] \in Nat
  BY DEF TypeOK
<1>2. \A b : Bit(b) \in Nat
  BY DEF Bit
<1>3. Withdrawals(d, a) = Grants(d, a) + Bit(Granted(reply[d], a))
  BY DEF Withdrawals, Grants, InGrant, Bit
<1>4. Withdrawals(d, a)' = Grants(d, a)' + Bit(Granted(reply[d], a)')
  BY DEF Withdrawals, Grants, InGrant, Bit
<1> DEFINE id == Bit(InDeposit(x, d, a))
<1> DEFINE jd == Bit(InDeposit(x, d, a)')
<1> DEFINE ig == Bit(InGrant(x, d, a))
<1> DEFINE jg == Bit(InGrant(x, d, a)')
<1> DEFINE ir == Bit(Granted(reply[d], a))
<1> DEFINE jr == Bit(Granted(reply[d], a)')
<1> DEFINE dd == Deposits(d, a)
<1> DEFINE ddn == Deposits(d, a)'
<1> DEFINE gr == Grants(d, a)
<1> DEFINE grn == Grants(d, a)'
<1> DEFINE b == balance[d][a]
<1> DEFINE bn == balance'[d][a]
<1> DEFINE u == deposited[d][a]
<1> DEFINE un == deposited'[d][a]
<1> DEFINE w == withdrawn[d][a]
<1> DEFINE wn == withdrawn'[d][a]
<1>5. /\ id \in Nat /\ jd \in Nat /\ ig \in Nat /\ jg \in Nat /\ ir \in Nat /\ jr \in Nat
      /\ b \in Int /\ bn \in Int /\ u \in Nat /\ un \in Nat /\ w \in Nat /\ wn \in Nat
  BY <1>1, <1>2
<1>6. /\ dd \in Nat /\ ddn \in Nat /\ ddn + id = dd + jd
      /\ gr \in Nat /\ grn \in Nat /\ grn + ig = gr + jg
  BY Ledger
<1>7. bn + jd + wn + jg + jr + u = b + id + w + ig + ir + un
  OBVIOUS
<1>8. b = (u - dd) - (w + (gr + ir))
  BY <1>3 DEF Books
<1> HIDE DEF id, jd, ig, jg, ir, jr, dd, ddn, gr, grn, b, bn, u, un, w, wn
<1>9. bn = (un - ddn) - (wn + (grn + jr))
  BY <1>5, <1>6, <1>7, <1>8
<1>10. balance'[d][a] = (deposited'[d][a] - Deposits(d, a)') - (withdrawn'[d][a] + (Grants(d, a)' + Bit(Granted(reply[d], a)')))
  BY <1>9 DEF bn, un, ddn, wn, grn, jr
<1>. QED  BY <1>4, <1>10 DEF Books

(***************************************************************************)
(* The steps.                                                              *)
(***************************************************************************)
Calls == {"bar4", "work", "reply", "bar1a", "exit", "bar1b", "report", "bar0",
          "serve", "answer", "collect", "bar3", "done"}
Live == {"bar4", "serve", "answer"}

\* No process but p changes place, count or partner.
Alone(p) == \A q \in Procs : q # p => pc'[q] = pc[q] /\ idx'[q] = idx[q] /\ peer'[q] = peer[q]

LEMMA Going ==
  ASSUME TypeOK, NEW p \in Procs, NEW at \in Calls, Goto(p, at)
  PROVE  /\ pc' \in [Procs -> Calls] /\ pc'[p] = at /\ \A q \in Procs : q # p => pc'[q] = pc[q]
         /\ entered' \in [{0, 1, 3, 4} -> [Procs -> Nat]]
<1>1. pc' \in [Procs -> Calls] /\ pc'[p] = at /\ \A q \in Procs : q # p => pc'[q] = pc[q]
  BY DEF Goto, TypeOK, Calls
<1>2. entered \in [{0, 1, 3, 4} -> [Procs -> Nat]]
  BY DEF TypeOK
<1>3. CASE at \in {"bar4", "bar1a", "bar1b", "bar0", "bar3"}
  <2>1. Barrier(at) \in {0, 1, 3, 4}
    BY <1>3 DEF Barrier
  <2>2. PICK b \in {0, 1, 3, 4} : b = Barrier(at)
    BY <2>1
  <2>3. [entered[b] EXCEPT ![p] = @ + 1] \in [Procs -> Nat]
    BY <1>2
  <2>4. entered' = [entered EXCEPT ![b] = [entered[b] EXCEPT ![p] = @ + 1]]
    BY <1>3, <2>2 DEF Goto
  <2>. QED  BY <1>1, <1>2, <2>3, <2>4
<1>4. CASE at \notin {"bar4", "bar1a", "bar1b", "bar0", "bar3"}
  BY <1>1, <1>2, <1>4 DEF Goto
<1>. QED  BY <1>3, <1>4

LEMMA ChannelTypes == TypeOK => ChanOK
BY DEF TypeOK, ChanOK

\* A step that sends and answers nothing, and takes nobody to where it waits for or
\* owes an answer.
LEMMA QuietStep ==
  ASSUME IInv, TypeOK', Roles', NEW p \in Procs, Alone(p),
         UNCHANGED <<chans, peer, reply, balance, books>>,
         pc[p] \notin {"reply", "answer"}, pc'[p] \notin {"reply", "answer"},
         p \in Dsl /\ pc'[p] \in Live => pc[p] \in Live
  PROVE  IInv'
<1>1. TypeOK /\ Roles /\ OneUnit /\ Replies /\ AnswersMatch /\ NeverOverdrawn
  BY DEF IInv
<1>2. \A c \in Chan : Pending(c)' <=> Pending(c)
  BY DEF Pending, chans
<1>3. ASSUME NEW q \in App, NEW d \in Dsl PROVE Question(q, d)'
  <2>1. Question(q, d) /\ q \in Procs /\ d \in Procs
    BY Places DEF IInv
  <2>2. <<q, d>> \in Chan /\ <<d, q>> \in Chan
    BY Lines
  <2>3. (Asked(q, d)' <=> Asked(q, d)) /\ (Pending(<<d, q>>)' <=> Pending(<<d, q>>))
    BY <1>2, <2>2 DEF Asked, chans
  <2>4. Answering(d, q)' <=> Answering(d, q)
    BY <2>1 DEF Answering, Alone
  <2>5. \A n : Waits(q, d, n) => Waits(q, d, n)'
    BY <2>1 DEF Waits, Alone
  <2>6. payload' = payload /\ reply' = reply
    BY DEF chans
  <2>. QED  BY <2>1, <2>3, <2>4, <2>5, <2>6 DEF Question
<1>4. OneUnit' /\ NeverOverdrawn'
  BY <1>1 DEF OneUnit, NeverOverdrawn, chans
<1>5. Replies'
  BY <1>1, Places DEF Replies, Alone
<1>6. AnswersMatch'
  <2> SUFFICES ASSUME NEW c \in Chan, c[1] \in Dsl, Pending(c)'
               PROVE  pc'[c[2]] = "reply" /\ peer'[c[2]] = c[1] /\ payload'[c].n = idx'[c[2]] - 1
    BY DEF AnswersMatch
  <2>1. pc[c[2]] = "reply" /\ peer[c[2]] = c[1] /\ payload[c].n = idx[c[2]] - 1 /\ c[2] \in Procs
    BY <1>1, <1>2 DEF AnswersMatch, Chan
  <2>. QED  BY <2>1 DEF Alone, chans
<1>7. ASSUME NEW d \in Dsl, NEW a \in Accounts, pc'[d] \in Live PROVE Books(d, a)'
  <2>1. pc[d] \in Live
    BY <1>7, Places DEF Alone
  <2>2. Books(d, a)
    BY <2>1 DEF IInv, Live
  <2>3. Deposits(d, a)' = Deposits(d, a) /\ Withdrawals(d, a)' = Withdrawals(d, a)
    BY DEF chans, Deposits, InDeposit, Withdrawals, Pending
  <2>. QED  BY <2>2, <2>3 DEF Books, books
<1>. QED  BY <1>3, <1>4, <1>5, <1>6, <1>7 DEF IInv, Live

LEMMA ProceedStep ==
  ASSUME IInv, NEW p \in Procs, NEW next \in {"work", "bar1a", "exit", "bar1b", "report"}, Proceed(p, next)
  PROVE  IInv'
<1>1. TypeOK /\ Roles
  BY DEF IInv
<1>2. /\ p \in App /\ p \notin Dsl /\ Goto(p, next) /\ next \in Calls
      /\ UNCHANGED <<chans, peer, start, reply, balance, books>>
  BY Places DEF Proceed, Calls
<1>3. /\ pc'[p] = next /\ \A q \in Procs : q # p => pc'[q] = pc[q]
      /\ pc' \in [Procs -> Calls] /\ entered' \in [{0, 1, 3, 4} -> [Procs -> Nat]]
  BY <1>1, <1>2, Going
<1>4. \/ pc[p] = "bar4" /\ next = "work" /\ idx' = idx
      \/ pc[p] = "work" /\ next = "bar1a" /\ idx' = [idx EXCEPT ![p] = 0]
      \/ pc[p] = "bar1a" /\ next \in {"exit", "bar1b"} /\ idx' = idx
      \/ pc[p] = "bar1b" /\ next = "report" /\ idx' = idx
  BY DEF Proceed, Passes
<1>5. idx' \in [Procs -> Nat] /\ \A q \in Procs : q # p => idx'[q] = idx[q]
  BY <1>1, <1>4 DEF TypeOK
<1>6. TypeOK'
  BY <1>1, <1>2, <1>3, <1>5 DEF TypeOK, chans, books, Calls
<1>7. Roles'
  <2>1. 0 < Len(dsl_seq)
    BY Sequences
  <2>2. next = "bar1a" => idx'[p] = 0
    BY <1>1, <1>4 DEF TypeOK
  <2>3. next = "exit" => idx'[p] < Len(dsl_seq)
    BY <1>1, <1>4, <2>1 DEF Roles
  <2>4. next # "reply" /\ next # "collect"
    BY <1>4
  <2>. QED  BY <1>1, <1>2, <1>3, <1>4, <1>5, <2>2, <2>3, <2>4 DEF Roles
<1>8. Alone(p) /\ pc[p] \notin {"reply", "answer"} /\ pc'[p] \notin {"reply", "answer"}
  BY <1>2, <1>3, <1>4, <1>5 DEF Alone
<1>. QED  BY <1>2, <1>6, <1>7, <1>8, QuietStep

LEMMA OpenStep ==
  ASSUME IInv, NEW p \in Procs, Open(p)
  PROVE  IInv'
<1>1. TypeOK /\ Roles
  BY DEF IInv
<1>2. /\ p \in Dsl /\ pc[p] = "bar4" /\ Goto(p, "serve") /\ "serve" \in Calls
      /\ UNCHANGED <<chans, idx, peer, start, reply, balance, books>>
  BY DEF Open, Passes, Calls
<1>3. /\ pc'[p] = "serve" /\ \A q \in Procs : q # p => pc'[q] = pc[q]
      /\ pc' \in [Procs -> Calls] /\ entered' \in [{0, 1, 3, 4} -> [Procs -> Nat]]
  BY <1>1, <1>2, Going
<1>4. TypeOK'
  BY <1>1, <1>2, <1>3 DEF TypeOK, chans, books, Calls
<1>5. Roles'
  BY <1>1, <1>2, <1>3 DEF Roles
<1>6. Alone(p)
  BY <1>2, <1>3 DEF Alone
<1>. QED  BY <1>2, <1>3, <1>4, <1>5, <1>6, QuietStep DEF Live

LEMMA ScanMissStep ==
  ASSUME IInv, NEW p \in Dsl, ScanMiss(p)
  PROVE  IInv'
<1>1. TypeOK /\ Roles
  BY DEF IInv
<1>2. /\ pc[p] = "serve" /\ p \in Procs
      /\ UNCHANGED <<chans, entered, pc, idx, peer, reply, balance, books>>
      /\ start' = [start EXCEPT ![p] = (@ % Len(app_seq)) + 1]
  BY Places DEF ScanMiss, Rotate
<1>3. start' \in [Dsl -> 1 .. Len(app_seq)]
  <2>1. (start[p] % Len(app_seq)) + 1 \in 1 .. Len(app_seq)
    BY <1>1, Sequences DEF TypeOK
  <2>. QED  BY <1>1, <1>2, <2>1 DEF TypeOK
<1>4. TypeOK'
  BY <1>1, <1>2, <1>3 DEF TypeOK, chans, books
<1>5. Roles'
  BY <1>1, <1>2 DEF Roles
<1>6. Alone(p)
  BY <1>2 DEF Alone
<1>. QED  BY <1>2, <1>4, <1>5, <1>6, QuietStep

LEMMA LeaveStep ==
  ASSUME IInv, NEW p \in Procs, NEW next \in {"collect", "bar3", "done"}, Leave(p, next)
  PROVE  IInv'
<1>1. TypeOK /\ Roles
  BY DEF IInv
<1>2. /\ Goto(p, next) /\ next \in Calls
      /\ UNCHANGED <<chans, idx, peer, start, reply, balance, books>>
      /\ pc[p] \in {"bar0", "collect", "bar3"} /\ (next = "collect" => p = 0)
  BY DEF Leave, Passes, Calls
<1>3. /\ pc'[p] = next /\ \A q \in Procs : q # p => pc'[q] = pc[q]
      /\ pc' \in [Procs -> Calls] /\ entered' \in [{0, 1, 3, 4} -> [Procs -> Nat]]
  BY <1>1, <1>2, Going
<1>4. TypeOK'
  BY <1>1, <1>2, <1>3 DEF TypeOK, chans, books, Calls
<1>5. Roles'
  BY <1>1, <1>2, <1>3 DEF Roles
<1>6. Alone(p)
  BY <1>2, <1>3 DEF Alone
<1>. QED  BY <1>2, <1>3, <1>4, <1>5, <1>6, QuietStep DEF Live

\* An application sends a message that is no request.
LEMMA NoticeStep ==
  ASSUME IInv, TypeOK', Roles', NEW p \in App, NEW d \in Dsl, NEW m \in Messages,
         m.op \in {"EXIT", "THROUGHPUT"}, Send(<<p, d>>, m), Alone(p),
         UNCHANGED <<peer, reply, balance, books>>,
         pc[p] \notin {"reply", "answer"}, pc'[p] \notin {"reply", "answer"}
  PROVE  IInv'
<1> DEFINE x == <<p, d>>
<1>1. TypeOK /\ Roles /\ OneUnit /\ Replies /\ AnswersMatch /\ NeverOverdrawn /\ ChanOK
  BY ChannelTypes DEF IInv
<1>2. x \in Chan /\ x[1] = p /\ x[2] = d /\ p \in Procs /\ d \in Procs /\ p \notin Dsl
  BY Lines, Places
<1>3. Only(x) /\ ~Pending(x) /\ Pending(x)' /\ payload'[x] = m
  BY <1>1, <1>2, Sending
<1>4. ASSUME NEW q \in App, NEW e \in Dsl PROVE Question(q, e)'
  <2>1. Question(q, e) /\ q \in Procs /\ e \in Procs /\ <<q, e>> \in Chan /\ <<e, q>> \in Chan
        /\ <<e, q>> # x
    BY <1>2, Lines, Places DEF IInv
  <2>2. Asked(q, e)' => Asked(q, e) /\ payload'[<<q, e>>] = payload[<<q, e>>]
    BY <1>3, <2>1 DEF Asked, Only
  <2>3. Pending(<<e, q>>)' <=> Pending(<<e, q>>)
    BY <1>3, <2>1 DEF Only
  <2>4. Answering(e, q)' <=> Answering(e, q)
    BY <1>2, <2>1 DEF Answering, Alone
  <2>5. \A n : Waits(q, e, n) => Waits(q, e, n)'
    BY <2>1 DEF Waits, Alone
  <2>. QED  BY <2>1, <2>2, <2>3, <2>4, <2>5 DEF Question
<1>5. OneUnit'
  <2> SUFFICES ASSUME NEW q \in App, NEW e \in Dsl, payload'[<<q, e>>].op \in {"DEPOSIT", "WITHDRAW"}
               PROVE  payload'[<<q, e>>].w2 = 1
    BY DEF OneUnit
  <2>1. <<q, e>> \in Chan
    BY Lines
  <2>. QED  BY <1>1, <1>3, <2>1 DEF OneUnit, Only
<1>6. NeverOverdrawn'
  BY <1>1 DEF NeverOverdrawn
<1>7. Replies'
  BY <1>1, <1>2, Places DEF Replies, Alone
<1>8. AnswersMatch'
  <2> SUFFICES ASSUME NEW c \in Chan, c[1] \in Dsl, Pending(c)'
               PROVE  pc'[c[2]] = "reply" /\ peer'[c[2]] = c[1] /\ payload'[c].n = idx'[c[2]] - 1
    BY DEF AnswersMatch
  <2>1. c # x
    BY <1>2
  <2>2. pc[c[2]] = "reply" /\ peer[c[2]] = c[1] /\ payload[c].n = idx[c[2]] - 1 /\ c[2] \in Procs
    BY <1>1, <1>3, <2>1 DEF AnswersMatch, Chan, Only
  <2>. QED  BY <1>3, <2>1, <2>2 DEF Alone, Only
<1>9. ASSUME NEW e \in Dsl, NEW a \in Accounts, pc'[e] \in Live PROVE Books(e, a)'
  <2>1. pc[e] \in Live
    BY <1>2, <1>9, Places DEF Alone
  <2>2. Books(e, a)
    BY <2>1 DEF IInv, Live
  <2>3. ~InDeposit(x, e, a) /\ ~InDeposit(x, e, a)' /\ ~InGrant(x, e, a) /\ ~InGrant(x, e, a)'
    BY <1>2, <1>3 DEF InDeposit, InGrant
  <2> HIDE DEF x
  <2>4. /\ Bit(InDeposit(x, e, a)) = 0 /\ Bit(InDeposit(x, e, a)') = 0
        /\ Bit(InGrant(x, e, a)) = 0 /\ Bit(InGrant(x, e, a)') = 0
    BY <2>3 DEF Bit
  <2>5. Bit(Granted(reply[e], a)') = Bit(Granted(reply[e], a))
    OBVIOUS
  <2>6. balance' = balance /\ deposited' = deposited /\ withdrawn' = withdrawn
    BY DEF books
  <2>. QED  BY <1>1, <1>2, <1>3, <2>2, <2>4, <2>5, <2>6, BooksKept
<1>. QED  BY <1>4, <1>5, <1>6, <1>7, <1>8, <1>9 DEF IInv, Live

LEMMA NoAccountType == NoAccount \in Accounts
BY BankAssumption DEF NoAccount

LEMMA SendExitStep ==
  ASSUME IInv, NEW p \in Procs, SendExit(p)
  PROVE  IInv'
<1> DEFINE m == Message("EXIT", NoAccount, 0, 0)
<1>1. TypeOK /\ Roles /\ ChanOK
  BY ChannelTypes DEF IInv
<1>2. pc[p] = "exit" /\ p \in App /\ idx[p] < Len(dsl_seq) /\ idx[p] \in Nat
  BY <1>1 DEF SendExit, Roles, TypeOK
<1>3. idx[p] + 1 \in 1 .. Len(dsl_seq)
  BY <1>2, Sequences
<1>4. PICK d \in Dsl : d = dsl_seq[idx[p] + 1]
  BY <1>3, Sequences
<1>5. m \in Messages /\ m.op = "EXIT"
  BY NoAccountType DEF Message, Messages
<1>6. Send(<<p, d>>, m) /\ UNCHANGED <<peer, start, reply, balance, books>>
  BY <1>4 DEF SendExit
<1>7. ChanOK'
  <2>1. <<p, d>> \in Chan
    BY <1>2, Lines
  <2> HIDE DEF m
  <2>. QED  BY <1>1, <1>5, <1>6, <2>1, Sending
<1>8. \/ idx[p] + 1 = Len(dsl_seq) /\ Goto(p, "bar1b") /\ idx' = [idx EXCEPT ![p] = 0]
      \/ idx[p] + 1 # Len(dsl_seq) /\ idx' = [idx EXCEPT ![p] = @ + 1] /\ pc' = pc /\ entered' = entered
  BY DEF SendExit
<1>9. /\ pc'[p] \in {"bar1b", "exit"} /\ \A q \in Procs : q # p => pc'[q] = pc[q]
      /\ pc' \in [Procs -> Calls] /\ entered' \in [{0, 1, 3, 4} -> [Procs -> Nat]]
  <2>1. "bar1b" \in Calls
    BY DEF Calls
  <2>2. CASE Goto(p, "bar1b")
    BY <1>1, <2>1, <2>2, Going
  <2>3. CASE pc' = pc /\ entered' = entered
    BY <1>1, <1>2, <2>3 DEF TypeOK, Calls
  <2>. QED  BY <1>8, <2>2, <2>3
<1>10. idx' \in [Procs -> Nat] /\ \A q \in Procs : q # p => idx'[q] = idx[q]
  <2>1. idx \in [Procs -> Nat]
    BY <1>1 DEF TypeOK
  <2>2. CASE idx' = [idx EXCEPT ![p] = 0]
    BY <2>1, <2>2
  <2>3. CASE idx' = [idx EXCEPT ![p] = @ + 1]
    BY <2>1, <2>3
  <2>. QED  BY <1>8, <2>2, <2>3
<1>11. pc'[p] = "exit" => idx'[p] < Len(dsl_seq)
  <2>1. CASE Goto(p, "bar1b")
    <3>1. "bar1b" \in Calls
      BY DEF Calls
    <3>. QED  BY <1>1, <2>1, <3>1, Going
  <2>2. CASE idx[p] + 1 # Len(dsl_seq) /\ idx' = [idx EXCEPT ![p] = @ + 1]
    BY <1>1, <1>2, <2>2, Sequences DEF TypeOK
  <2>. QED  BY <1>8, <2>1, <2>2
<1>12. TypeOK'
  BY <1>1, <1>6, <1>7, <1>9, <1>10 DEF TypeOK, ChanOK, books, Calls
<1>13. Roles'
  BY <1>1, <1>2, <1>6, <1>9, <1>10, <1>11 DEF Roles
<1>14. Alone(p)
  BY <1>6, <1>9, <1>10 DEF Alone
<1> HIDE DEF m
<1>. QED  BY <1>2, <1>5, <1>6, <1>9, <1>12, <1>13, <1>14, NoticeStep

LEMMA ReportStep ==
  ASSUME IInv, NEW p \in Procs, Report(p)
  PROVE  IInv'
<1> DEFINE m == Message("THROUGHPUT", NoAccount, 0, 0)
<1>1. TypeOK /\ Roles /\ ChanOK
  BY ChannelTypes DEF IInv
<1>2. /\ pc[p] = "report" /\ p \in App /\ 0 \in Dsl /\ Send(<<p, 0>>, m) /\ Goto(p, "bar0")
      /\ UNCHANGED <<idx, peer, start, reply, balance, books>> /\ "bar0" \in Calls
  BY <1>1, Places DEF Report, Roles, Calls
<1>3. m \in Messages /\ m.op = "THROUGHPUT"
  BY NoAccountType DEF Message, Messages
<1>4. ChanOK'
  BY <1>1, <1>2, <1>3, Sending, Lines
<1>5. /\ pc'[p] = "bar0" /\ \A q \in Procs : q # p => pc'[q] = pc[q]
      /\ pc' \in [Procs -> Calls] /\ entered' \in [{0, 1, 3, 4} -> [Procs -> Nat]]
  BY <1>1, <1>2, Going
<1>6. TypeOK'
  BY <1>1, <1>2, <1>4, <1>5 DEF TypeOK, ChanOK, books, Calls
<1>7. Roles'
  BY <1>1, <1>2, <1>5 DEF Roles
<1>8. Alone(p)
  BY <1>2, <1>5 DEF Alone
<1> HIDE DEF m
<1>. QED  BY <1>2, <1>3, <1>5, <1>6, <1>7, <1>8, NoticeStep

LEMMA RequestStep ==
  ASSUME IInv, NEW p \in App, NEW op \in Ops, NEW d \in Dsl, NEW acc \in Accounts, Request(p, op, d, acc)
  PROVE  IInv'
<1> DEFINE x == <<p, d>>
<1> DEFINE m == Message(op, acc, idx[p], 1)
<1>1. TypeOK /\ Roles /\ OneUnit /\ Replies /\ AnswersMatch /\ NeverOverdrawn /\ ChanOK
  BY ChannelTypes DEF IInv
<1>2. x \in Chan /\ x[1] = p /\ x[2] = d /\ p \in Procs /\ d \in Procs /\ p \notin Dsl /\ d # p
  BY Lines, Places
<1>3. /\ op \in {"DEPOSIT", "WITHDRAW", "CHECK"} /\ idx[p] \in Nat
      /\ pc[p] = "work" /\ Send(x, m) /\ idx' = [idx EXCEPT ![p] = @ + 1]
      /\ UNCHANGED <<start, reply, balance, withdrawn>>
  BY <1>1, <1>2, BankAssumption DEF Request, TypeOK
<1>4. m \in Messages /\ m.op = op /\ m.acc = acc /\ m.n = idx[p] /\ m.w2 = 1
  BY <1>3 DEF Message, Messages
<1>5. \/ op = "DEPOSIT" /\ deposited' = [deposited EXCEPT ![d][acc] = @ + 1]
         /\ UNCHANGED <<pc, entered, peer>>
      \/ op # "DEPOSIT" /\ Goto(p, "reply") /\ peer' = [peer EXCEPT ![p] = d] /\ UNCHANGED deposited
  BY DEF Request
<1> HIDE DEF m
<1>6. ChanOK' /\ Only(x) /\ ~Pending(x) /\ Pending(x)' /\ payload'[x] = m
  BY <1>1, <1>2, <1>3, <1>4, Sending
<1> HIDE DEF x
<1>7. idx' \in [Procs -> Nat] /\ idx'[p] = idx[p] + 1 /\ \A q \in Procs : q # p => idx'[q] = idx[q]
  <2>1. idx \in [Procs -> Nat]
    BY <1>1 DEF TypeOK
  <2>2. idx' = [idx EXCEPT ![p] = @ + 1]
    BY <1>3
  <2>. QED  BY <1>2, <2>1, <2>2
<1>8. /\ pc' \in [Procs -> Calls] /\ entered' \in [{0, 1, 3, 4} -> [Procs -> Nat]]
      /\ pc'[p] = IF op = "DEPOSIT" THEN "work" ELSE "reply"
      /\ \A q \in Procs : q # p => pc'[q] = pc[q]
  <2>1. "reply" \in Calls
    BY DEF Calls
  <2>2. CASE op = "DEPOSIT"
    BY <1>1, <1>3, <1>5, <2>2 DEF TypeOK, Calls
  <2>3. CASE op # "DEPOSIT"
    BY <1>1, <1>2, <1>5, <2>1, <2>3, Going
  <2>. QED  BY <2>2, <2>3
<1>9. /\ peer' \in [Procs -> Procs] /\ (op # "DEPOSIT" => peer'[p] = d)
      /\ \A q \in Procs : q # p => peer'[q] = peer[q]
  BY <1>1, <1>2, <1>5 DEF TypeOK
<1>10. /\ deposited' \in [Dsl -> [Accounts -> Nat]]
       /\ \A e \in Dsl, a \in Accounts :
            deposited'[e][a] = deposited[e][a] + Bit(op = "DEPOSIT" /\ e = d /\ a = acc)
  <2>1. deposited \in [Dsl -> [Accounts -> Nat]]
    BY <1>1 DEF TypeOK
  <2>2. CASE op = "DEPOSIT"
    <3>1. [deposited[d] EXCEPT ![acc] = @ + 1] \in [Accounts -> Nat]
      BY <2>1
    <3>2. deposited' = [deposited EXCEPT ![d] = [deposited[d] EXCEPT ![acc] = @ + 1]]
      BY <1>5, <2>2
    <3>. QED  BY <2>1, <2>2, <3>1, <3>2 DEF Bit
  <2>3. CASE op # "DEPOSIT"
    BY <1>5, <2>1, <2>3 DEF Bit
  <2>. QED  BY <2>2, <2>3
<1>11. TypeOK'
  BY <1>1, <1>3, <1>6, <1>7, <1>8, <1>9, <1>10 DEF TypeOK, ChanOK, Calls
<1>12. Roles'
  BY <1>1, <1>2, <1>7, <1>8, <1>9 DEF Roles
<1>13. Alone(p)
  BY <1>7, <1>8, <1>9 DEF Alone
<1>14. \A e \in Dsl : ~Asked(p, e) /\ ~Answering(e, p) /\ ~Pending(<<e, p>>)
  <2> SUFFICES ASSUME NEW e \in Dsl PROVE ~Asked(p, e) /\ ~Answering(e, p) /\ ~Pending(<<e, p>>)
    OBVIOUS
  <2>1. <<e, p>> \in Chan /\ <<e, p>>[1] = e /\ <<e, p>>[2] = p /\ Question(p, e)
    BY Lines DEF IInv
  <2>2. ~Pending(<<e, p>>)
    BY <1>1, <1>3, <2>1 DEF AnswersMatch
  <2>. QED  BY <1>3, <2>1, <2>2 DEF Question, Waits
<1>15. ASSUME NEW q \in App, NEW e \in Dsl PROVE Question(q, e)'
  <2>1. Question(q, e) /\ q \in Procs /\ e \in Procs /\ <<q, e>> \in Chan /\ <<e, q>> \in Chan
        /\ <<e, q>> # x /\ (<<q, e>> = x => q = p /\ e = d) /\ e # p
    BY <1>2, Lines, Places DEF IInv, x
  <2>2. Pending(<<e, q>>)' <=> Pending(<<e, q>>)
    BY <1>6, <2>1 DEF Only
  <2>3. Answering(e, q)' <=> Answering(e, q)
    BY <1>2, <1>13, <2>1 DEF Answering, Alone
  <2>4. CASE q # p
    <3>1. (Asked(q, e)' <=> Asked(q, e)) /\ payload'[<<q, e>>] = payload[<<q, e>>]
      BY <1>6, <2>1, <2>4 DEF Asked, Only
    <3>2. \A n : Waits(q, e, n) => Waits(q, e, n)'
      BY <1>13, <2>1, <2>4 DEF Waits, Alone
    <3>. QED  BY <1>3, <2>1, <2>2, <2>3, <3>1, <3>2 DEF Question
  <2>5. CASE q = p /\ e # d
    <3>1. ~Asked(p, e)'
      BY <1>6, <1>14, <2>1, <2>5 DEF Asked, Only, x
    <3>. QED  BY <1>14, <2>2, <2>3, <2>5, <3>1 DEF Question
  <2>6. CASE q = p /\ e = d
    <3>1. Asked(p, d)' => Waits(p, d, payload[<<p, d>>].n)'
      BY <1>3, <1>4, <1>6, <1>7, <1>8, <1>9 DEF Asked, Waits, x
    <3>. QED  BY <1>14, <2>2, <2>3, <2>6, <3>1 DEF Question
  <2>. QED  BY <2>4, <2>5, <2>6
<1>16. OneUnit'
  <2> SUFFICES ASSUME NEW q \in App, NEW e \in Dsl, payload'[<<q, e>>].op \in {"DEPOSIT", "WITHDRAW"}
               PROVE  payload'[<<q, e>>].w2 = 1
    BY DEF OneUnit
  <2>1. <<q, e>> \in Chan
    BY Lines
  <2>. QED  BY <1>1, <1>4, <1>6, <2>1 DEF OneUnit, Only
<1>17. NeverOverdrawn'
  BY <1>1, <1>3 DEF NeverOverdrawn
<1>18. Replies'
  BY <1>1, <1>2, <1>3, <1>13, Places DEF Replies, Alone
<1>19. AnswersMatch'
  <2> SUFFICES ASSUME NEW c \in Chan, c[1] \in Dsl, Pending(c)'
               PROVE  pc'[c[2]] = "reply" /\ peer'[c[2]] = c[1] /\ payload'[c].n = idx'[c[2]] - 1
    BY DEF AnswersMatch
  <2>1. c # x
    BY <1>2
  <2>2. pc[c[2]] = "reply" /\ peer[c[2]] = c[1] /\ payload[c].n = idx[c[2]] - 1 /\ c[2] \in Procs
    BY <1>1, <1>6, <2>1 DEF AnswersMatch, Chan, Only
  <2>3. c[2] # p
    BY <1>3, <2>2
  <2>. QED  BY <1>6, <1>13, <2>1, <2>2, <2>3 DEF Alone, Only
<1>20. ASSUME NEW e \in Dsl, NEW a \in Accounts, pc'[e] \in Live PROVE Books(e, a)'
  <2>1. pc[e] \in Live
    BY <1>2, <1>13, <1>20, Places DEF Alone
  <2>2. Books(e, a)
    BY <2>1 DEF IInv, Live
  <2>3. ~InDeposit(x, e, a) /\ ~InGrant(x, e, a) /\ ~InGrant(x, e, a)'
    BY <1>2, <1>6 DEF InDeposit, InGrant
  <2>4. InDeposit(x, e, a)' <=> op = "DEPOSIT" /\ e = d /\ a = acc
    BY <1>2, <1>4, <1>6 DEF InDeposit
  <2>5. /\ Bit(InDeposit(x, e, a)) = 0 /\ Bit(InGrant(x, e, a)) = 0 /\ Bit(InGrant(x, e, a)') = 0
        /\ Bit(InDeposit(x, e, a)') = Bit(op = "DEPOSIT" /\ e = d /\ a = acc)
    BY <2>3, <2>4 DEF Bit
  <2>6. Bit(Granted(reply[e], a)') = Bit(Granted(reply[e], a)) /\ Bit(Granted(reply[e], a)) \in Nat
        /\ Bit(op = "DEPOSIT" /\ e = d /\ a = acc) \in Nat
    BY <1>3 DEF Bit
  <2>7. balance[e][a] \in Int /\ withdrawn[e][a] \in Nat /\ deposited[e][a] \in Nat
    BY <1>1 DEF TypeOK
  <2>8. balance'[e][a] + Bit(InDeposit(x, e, a)') + withdrawn'[e][a]
             + Bit(InGrant(x, e, a)') + Bit(Granted(reply[e], a)') + deposited[e][a]
           = balance[e][a] + Bit(InDeposit(x, e, a)) + withdrawn[e][a]
             + Bit(InGrant(x, e, a)) + Bit(Granted(reply[e], a)) + deposited'[e][a]
    <3> DEFINE k == Bit(op = "DEPOSIT" /\ e = d /\ a = acc)
    <3> DEFINE r == Bit(Granted(reply[e], a))
    <3>1. /\ balance'[e][a] = balance[e][a] /\ withdrawn'[e][a] = withdrawn[e][a]
          /\ deposited'[e][a] = deposited[e][a] + k /\ k \in Nat /\ r \in Nat
      BY <1>3, <1>10, <2>6
    <3>2. Bit(InDeposit(x, e, a)') = k /\ Bit(Granted(reply[e], a)') = r
      BY <2>5, <2>6
    <3> HIDE DEF k, r
    <3>3. Bit(Granted(reply[e], a)) = r
      BY DEF r
    <3>. QED  BY <2>5, <2>7, <3>1, <3>2, <3>3
  <2>. QED  BY <1>1, <1>2, <1>6, <1>11, <2>2, <2>8, BooksKept
<1>. QED  BY <1>11, <1>12, <1>15, <1>16, <1>17, <1>18, <1>19, <1>20 DEF IInv, Live

LEMMA ReplyStep ==
  ASSUME IInv, NEW p \in Procs, Reply(p)
  PROVE  IInv'
<1>1. TypeOK /\ Roles /\ OneUnit /\ Replies /\ AnswersMatch /\ NeverOverdrawn /\ ChanOK
  BY ChannelTypes DEF IInv
<1>2. PICK d \in Dsl : d = peer[p]
  BY <1>1 DEF Reply, Roles
<1> DEFINE x == <<d, p>>
<1>3. pc[p] = "reply" /\ p \in App
  BY <1>1 DEF Reply, Roles
<1>4. x \in Chan /\ x[1] = d /\ x[2] = p /\ d \in Procs /\ p \notin Dsl /\ d # p
  BY <1>3, Lines, Places
<1>5. /\ Recv(x) /\ Goto(p, "work") /\ peer' = [peer EXCEPT ![p] = p]
      /\ withdrawn' = IF payload[x].op = "WITHDRAW" /\ payload[x].w2 = 1
                      THEN [withdrawn EXCEPT ![d][payload[x].acc] = @ + 1] ELSE withdrawn
      /\ UNCHANGED <<idx, start, reply, balance, deposited>>
  BY <1>2 DEF Reply
<1> HIDE DEF x
<1>6. ChanOK' /\ Only(x) /\ Pending(x) /\ ~Pending(x)' /\ payload' = payload
  BY <1>1, <1>4, <1>5, Receiving
<1>7. /\ pc' \in [Procs -> Calls] /\ entered' \in [{0, 1, 3, 4} -> [Procs -> Nat]]
      /\ pc'[p] = "work" /\ \A q \in Procs : q # p => pc'[q] = pc[q]
  <2>1. "work" \in Calls
    BY DEF Calls
  <2>. QED  BY <1>1, <1>5, <2>1, Going
<1>8. peer' \in [Procs -> Procs] /\ \A q \in Procs : q # p => peer'[q] = peer[q]
  BY <1>1, <1>5 DEF TypeOK
<1>9. PICK m \in Messages : m = payload[x]
  BY <1>1, <1>4 DEF TypeOK
<1>10. /\ withdrawn' \in [Dsl -> [Accounts -> Nat]]
       /\ \A e \in Dsl, a \in Accounts :
            withdrawn'[e][a] = withdrawn[e][a] + Bit(e = d /\ Granted(m, a))
  <2>1. withdrawn \in [Dsl -> [Accounts -> Nat]] /\ m.acc \in Accounts
    BY <1>1 DEF TypeOK, Messages
  <2>2. CASE m.op = "WITHDRAW" /\ m.w2 = 1
    <3>1. [withdrawn[d] EXCEPT ![m.acc] = @ + 1] \in [Accounts -> Nat]
      BY <2>1
    <3>2. withdrawn' = [withdrawn EXCEPT ![d] = [withdrawn[d] EXCEPT ![m.acc] = @ + 1]]
      BY <1>5, <1>9, <2>2
    <3>. QED  BY <2>1, <2>2, <3>1, <3>2 DEF Bit, Granted
  <2>3. CASE ~(m.op = "WITHDRAW" /\ m.w2 = 1)
    BY <1>5, <1>9, <2>1, <2>3 DEF Bit, Granted
  <2>. QED  BY <2>2, <2>3
<1>11. TypeOK'
  BY <1>1, <1>5, <1>6, <1>7, <1>8, <1>10 DEF TypeOK, ChanOK, Calls
<1>12. Roles'
  BY <1>1, <1>3, <1>5, <1>7, <1>8 DEF Roles
<1>13. Alone(p)
  BY <1>5, <1>7, <1>8 DEF Alone
<1>14. \A e \in Dsl : ~Asked(p, e) /\ ~Answering(e, p) /\ (Pending(<<e, p>>) => <<e, p>> = x)
  <2> SUFFICES ASSUME NEW e \in Dsl
               PROVE  ~Asked(p, e) /\ ~Answering(e, p) /\ (Pending(<<e, p>>) => <<e, p>> = x)
    OBVIOUS
  <2>1. <<e, p>> \in Chan /\ <<e, p>>[1] = e /\ <<e, p>>[2] = p /\ Question(p, e)
    BY <1>3, Lines DEF IInv
  <2>2. Pending(<<e, p>>) => e = d
    BY <1>1, <1>2, <2>1 DEF AnswersMatch
  <2>3. e = d => Pending(<<e, p>>)
    BY <1>6 DEF x
  <2>. QED  BY <1>2, <2>1, <2>2, <2>3 DEF Question, Waits, x
<1>15. ASSUME NEW q \in App, NEW e \in Dsl PROVE Question(q, e)'
  <2>1. Question(q, e) /\ q \in Procs /\ e \in Procs /\ <<q, e>> \in Chan /\ <<e, q>> \in Chan
        /\ <<q, e>> # x /\ (<<e, q>> = x => q = p) /\ e # p
    BY <1>3, <1>4, Lines, Places DEF IInv, x
  <2>2. Asked(q, e)' <=> Asked(q, e)
    BY <1>6, <2>1 DEF Asked, Only
  <2>3. Answering(e, q)' <=> Answering(e, q)
    BY <1>13, <2>1 DEF Answering, Alone
  <2>4. CASE q # p
    <3>1. Pending(<<e, q>>)' <=> Pending(<<e, q>>)
      BY <1>6, <2>1, <2>4 DEF Only
    <3>2. \A n : Waits(q, e, n) => Waits(q, e, n)'
      BY <1>13, <2>1, <2>4 DEF Waits, Alone
    <3>. QED  BY <1>5, <1>6, <2>1, <2>2, <2>3, <3>1, <3>2 DEF Question
  <2>5. CASE q = p
    BY <1>14, <2>2, <2>3, <2>5 DEF Question
  <2>. QED  BY <2>4, <2>5
<1>16. OneUnit' /\ NeverOverdrawn'
  BY <1>1, <1>5, <1>6 DEF OneUnit, NeverOverdrawn
<1>17. Replies'
  BY <1>1, <1>3, <1>4, <1>5, <1>13, Places DEF Replies, Alone
<1>18. AnswersMatch'
  <2> SUFFICES ASSUME NEW c \in Chan, c[1] \in Dsl, Pending(c)'
               PROVE  pc'[c[2]] = "reply" /\ peer'[c[2]] = c[1] /\ payload'[c].n = idx'[c[2]] - 1
    BY DEF AnswersMatch
  <2>1. c # x /\ Pending(c)
    BY <1>6 DEF Only
  <2>2. pc[c[2]] = "reply" /\ peer[c[2]] = c[1] /\ payload[c].n = idx[c[2]] - 1 /\ c[2] \in Procs
        /\ c = <<c[1], c[2]>>
    BY <1>1, <2>1 DEF AnswersMatch, Chan
  <2>3. c[2] # p
    BY <1>14, <2>1, <2>2
  <2>. QED  BY <1>6, <1>13, <2>2, <2>3 DEF Alone
<1>19. ASSUME NEW e \in Dsl, NEW a \in Accounts, pc'[e] \in Live PROVE Books(e, a)'
  <2>1. pc[e] \in Live
    BY <1>4, <1>13, <1>19, Places DEF Alone
  <2>2. Books(e, a)
    BY <2>1 DEF IInv, Live
  <2>3. ~InDeposit(x, e, a) /\ ~InDeposit(x, e, a)' /\ ~InGrant(x, e, a)'
    BY <1>4, <1>6 DEF InDeposit, InGrant
  <2>4. InGrant(x, e, a) <=> e = d /\ Granted(m, a)
    BY <1>4, <1>6, <1>9 DEF InGrant
  <2>5. /\ Bit(InDeposit(x, e, a)) = 0 /\ Bit(InDeposit(x, e, a)') = 0 /\ Bit(InGrant(x, e, a)') = 0
        /\ Bit(InGrant(x, e, a)) = Bit(e = d /\ Granted(m, a))
    BY <2>3, <2>4 DEF Bit
  <2>6. Bit(Granted(reply[e], a)') = Bit(Granted(reply[e], a)) /\ Bit(Granted(reply[e], a)) \in Nat
        /\ Bit(e = d /\ Granted(m, a)) \in Nat
    BY <1>5 DEF Bit
  <2>7. balance[e][a] \in Int /\ withdrawn[e][a] \in Nat /\ deposited[e][a] \in Nat
    BY <1>1 DEF TypeOK
  <2>8. balance'[e][a] + Bit(InDeposit(x, e, a)') + withdrawn'[e][a]
             + Bit(InGrant(x, e, a)') + Bit(Granted(reply[e], a)') + deposited[e][a]
           = balance[e][a] + Bit(InDeposit(x, e, a)) + withdrawn[e][a]
             + Bit(InGrant(x, e, a)) + Bit(Granted(reply[e], a)) + deposited'[e][a]
    <3> DEFINE k == Bit(e = d /\ Granted(m, a))
    <3> DEFINE r == Bit(Granted(reply[e], a))
    <3>1. /\ balance'[e][a] = balance[e][a] /\ deposited'[e][a] = deposited[e][a]
          /\ withdrawn'[e][a] = withdrawn[e][a] + k /\ k \in Nat /\ r \in Nat
      BY <1>5, <1>10, <2>6
    <3>2. Bit(InGrant(x, e, a)) = k /\ Bit(Granted(reply[e], a)') = r
      BY <2>5, <2>6
    <3> HIDE DEF k, r
    <3>3. Bit(Granted(reply[e], a)) = r
      BY DEF r
    <3>. QED  BY <2>5, <2>7, <3>1, <3>2, <3>3
  <2>. QED  BY <1>1, <1>4, <1>6, <1>11, <2>2, <2>8, BooksKept
<1>. QED  BY <1>11, <1>12, <1>15, <1>16, <1>17, <1>18, <1>19 DEF IInv, Live

LEMMA BlankType == Blank \in Messages /\ \A a : ~Granted(Blank, a)
BY NoAccountType DEF Blank, Message, Messages, Granted

LEMMA AnswerStep ==
  ASSUME IInv, NEW d \in Dsl, Answer(d)
  PROVE  IInv'
<1>1. TypeOK /\ Roles /\ OneUnit /\ Replies /\ AnswersMatch /\ NeverOverdrawn /\ ChanOK
  BY ChannelTypes DEF IInv
<1>2. PICK p \in App : p = peer[d]
  BY <1>1 DEF Answer, Replies
<1> DEFINE x == <<d, p>>
<1>3. PICK m \in Messages : m = reply[d]
  BY <1>1 DEF TypeOK
<1>4. x \in Chan /\ x[1] = d /\ x[2] = p /\ p \in Procs /\ d \in Procs /\ p \notin Dsl /\ d # p
  BY Lines, Places
<1>5. /\ pc[d] = "answer" /\ Send(x, m) /\ Goto(d, "serve")
      /\ reply' = [reply EXCEPT ![d] = Blank] /\ peer' = [peer EXCEPT ![d] = d]
      /\ UNCHANGED <<idx, start, balance, books>>
  BY <1>2, <1>3 DEF Answer
<1>6. Waits(p, d, m.n) /\ ~Asked(p, d)
  <2>1. Question(p, d) /\ Answering(d, p)
    BY <1>2, <1>5 DEF IInv, Answering
  <2>. QED  BY <1>3, <2>1 DEF Question
<1> HIDE DEF x
<1>7. ChanOK' /\ Only(x) /\ ~Pending(x) /\ Pending(x)' /\ payload'[x] = m
  BY <1>1, <1>4, <1>5, Sending
<1>8. /\ pc' \in [Procs -> Calls] /\ entered' \in [{0, 1, 3, 4} -> [Procs -> Nat]]
      /\ pc'[d] = "serve" /\ \A q \in Procs : q # d => pc'[q] = pc[q]
  <2>1. "serve" \in Calls
    BY DEF Calls
  <2>. QED  BY <1>1, <1>4, <1>5, <2>1, Going
<1>9. peer' \in [Procs -> Procs] /\ \A q \in Procs : q # d => peer'[q] = peer[q]
  BY <1>1, <1>4, <1>5 DEF TypeOK
<1>10. reply' \in [Dsl -> Messages] /\ reply'[d] = Blank /\ \A e \in Dsl : e # d => reply'[e] = reply[e]
  BY <1>1, <1>5, BlankType DEF TypeOK
<1>11. TypeOK'
  BY <1>1, <1>5, <1>7, <1>8, <1>9, <1>10 DEF TypeOK, ChanOK, Calls, books
<1>12. Roles'
  BY <1>1, <1>5, <1>8, <1>9 DEF Roles
<1>13. Alone(d)
  BY <1>5, <1>8, <1>9 DEF Alone
<1>14. ASSUME NEW q \in App, NEW e \in Dsl PROVE Question(q, e)'
  <2>1. Question(q, e) /\ q \in Procs /\ e \in Procs /\ <<q, e>> \in Chan /\ <<e, q>> \in Chan
        /\ <<q, e>> # x /\ (<<e, q>> = x => q = p /\ e = d) /\ q # d
    BY <1>4, Lines, Places DEF IInv, x
  <2>2. (Asked(q, e)' <=> Asked(q, e)) /\ payload'[<<q, e>>] = payload[<<q, e>>]
    BY <1>7, <2>1 DEF Asked, Only
  <2>3. \A n : Waits(q, e, n) => Waits(q, e, n)'
    BY <1>13, <2>1 DEF Waits, Alone
  <2>4. CASE e = d
    <3>1. ~Answering(d, q)'
      BY <1>8 DEF Answering
    <3>2. CASE q = p
      BY <1>6, <2>2, <2>4, <3>1, <3>2 DEF Question
    <3>3. CASE q # p
      <4>1. Pending(<<e, q>>)' <=> Pending(<<e, q>>)
        BY <1>7, <2>1, <3>3 DEF Only
      <4>. QED  BY <2>1, <2>2, <2>3, <2>4, <3>1, <4>1 DEF Question
    <3>. QED  BY <3>2, <3>3
  <2>5. CASE e # d
    <3>1. Pending(<<e, q>>)' <=> Pending(<<e, q>>)
      BY <1>7, <2>1, <2>5 DEF Only
    <3>2. (Answering(e, q)' <=> Answering(e, q)) /\ reply'[e] = reply[e]
      BY <1>10, <1>13, <2>1, <2>5 DEF Answering, Alone
    <3>. QED  BY <2>1, <2>2, <2>3, <3>1, <3>2 DEF Question
  <2>. QED  BY <2>4, <2>5
<1>15. OneUnit'
  <2> SUFFICES ASSUME NEW q \in App, NEW e \in Dsl, payload'[<<q, e>>].op \in {"DEPOSIT", "WITHDRAW"}
               PROVE  payload'[<<q, e>>].w2 = 1
    BY DEF OneUnit
  <2>1. <<q, e>> \in Chan /\ <<q, e>> # x
    BY <1>4, Lines DEF x
  <2>. QED  BY <1>1, <1>7, <2>1 DEF OneUnit, Only
<1>16. NeverOverdrawn'
  BY <1>1, <1>5 DEF NeverOverdrawn
<1>17. Replies'
  BY <1>1, <1>8, <1>10, <1>13, Places DEF Replies, Alone
<1>18. AnswersMatch'
  <2> SUFFICES ASSUME NEW c \in Chan, c[1] \in Dsl, Pending(c)'
               PROVE  pc'[c[2]] = "reply" /\ peer'[c[2]] = c[1] /\ payload'[c].n = idx'[c[2]] - 1
    BY DEF AnswersMatch
  <2>1. CASE c = x
    BY <1>4, <1>5, <1>6, <1>7, <1>13, <2>1 DEF Waits, Alone
  <2>2. CASE c # x
    <3>1. pc[c[2]] = "reply" /\ peer[c[2]] = c[1] /\ payload[c].n = idx[c[2]] - 1 /\ c[2] \in Procs
      BY <1>1, <1>7, <2>2 DEF AnswersMatch, Chan, Only
    <3>2. c[2] # d
      BY <1>5, <3>1
    <3>. QED  BY <1>7, <1>13, <2>2, <3>1, <3>2 DEF Alone, Only
  <2>. QED  BY <2>1, <2>2
<1>19. ASSUME NEW e \in Dsl, NEW a \in Accounts, pc'[e] \in Live PROVE Books(e, a)'
  <2>1. pc[e] \in Live
    BY <1>5, <1>13, <1>19, Places DEF Alone, Live
  <2>2. Books(e, a)
    BY <2>1 DEF IInv, Live
  <2>3. ~InDeposit(x, e, a) /\ ~InDeposit(x, e, a)' /\ ~InGrant(x, e, a)
    BY <1>4, <1>7 DEF InDeposit, InGrant
  <2>4. InGrant(x, e, a)' <=> e = d /\ Granted(m, a)
    BY <1>4, <1>7 DEF InGrant
  <2>5. Bit(InDeposit(x, e, a)) = 0 /\ Bit(InDeposit(x, e, a)') = 0 /\ Bit(InGrant(x, e, a)) = 0
    BY <2>3 DEF Bit
  <2>6. Bit(InGrant(x, e, a)') + Bit(Granted(reply[e], a)') = Bit(Granted(reply[e], a))
    <3>1. CASE e = d
      BY <1>3, <1>10, <2>4, <3>1, BlankType DEF Bit
    <3>2. CASE e # d
      BY <1>10, <2>4, <3>2 DEF Bit
    <3>. QED  BY <3>1, <3>2
  <2>7. balance[e][a] \in Int /\ withdrawn[e][a] \in Nat /\ deposited[e][a] \in Nat
    BY <1>1 DEF TypeOK
  <2>8. balance'[e][a] + Bit(InDeposit(x, e, a)') + withdrawn'[e][a]
             + Bit(InGrant(x, e, a)') + Bit(Granted(reply[e], a)') + deposited[e][a]
           = balance[e][a] + Bit(InDeposit(x, e, a)) + withdrawn[e][a]
             + Bit(InGrant(x, e, a)) + Bit(Granted(reply[e], a)) + deposited'[e][a]
    <3> DEFINE g == Bit(InGrant(x, e, a)')
    <3> DEFINE r == Bit(Granted(reply[e], a)')
    <3> DEFINE s == Bit(Granted(reply[e], a))
    <3>1. g \in Nat /\ r \in Nat /\ s \in Nat /\ g + r = s
      BY <2>6 DEF Bit
    <3>2. balance' = balance /\ withdrawn' = withdrawn /\ deposited' = deposited
      BY <1>5 DEF books
    <3> DEFINE b == balance[e][a]
    <3> DEFINE w == withdrawn[e][a]
    <3> DEFINE u == deposited[e][a]
    <3>3. b \in Int /\ w \in Nat /\ u \in Nat
      BY <2>7
    <3>4. balance'[e][a] = b /\ withdrawn'[e][a] = w /\ deposited'[e][a] = u
      BY <3>2
    <3> HIDE DEF g, r, s, b, w, u
    <3>5. b + 0 + w + g + r + u = b + 0 + w + 0 + s + u
      BY <3>1, <3>3
    <3>. QED  BY <2>5, <3>4, <3>5 DEF g, r, s, b, w, u
  <2>. QED  BY <1>1, <1>4, <1>7, <1>11, <2>2, <2>8, BooksKept
<1>. QED  BY <1>11, <1>12, <1>14, <1>15, <1>16, <1>17, <1>18, <1>19 DEF IInv, Live

LEMMA CollectedStep ==
  ASSUME IInv, NEW p \in Procs, Collected(p)
  PROVE  IInv'
<1>1. TypeOK /\ Roles /\ OneUnit /\ Replies /\ AnswersMatch /\ NeverOverdrawn /\ ChanOK
  BY ChannelTypes DEF IInv
<1>2. pc[p] = "collect" /\ p = 0 /\ p \in Dsl /\ idx[p] \in Nat /\ idx[p] < Len(app_seq)
  BY <1>1, Places DEF Collected, Roles, TypeOK
<1>3. idx[p] + 1 \in 1 .. Len(app_seq)
  BY <1>2, Sequences
<1>4. PICK q \in App : q = app_seq[idx[p] + 1]
  BY <1>3, Sequences
<1> DEFINE x == <<q, p>>
<1>5. x \in Chan /\ x[1] = q /\ x[2] = p /\ q \notin Dsl
  BY <1>2, Lines, Places
<1>6. Recv(x) /\ idx' = [idx EXCEPT ![p] = @ + 1] /\ UNCHANGED <<entered, pc, peer, start, reply, balance, books>>
  BY <1>4 DEF Collected
<1> HIDE DEF x
<1>7. ChanOK' /\ Only(x) /\ Pending(x) /\ ~Pending(x)' /\ payload' = payload
  BY <1>1, <1>5, <1>6, Receiving
<1>8. idx' \in [Procs -> Nat] /\ \A r \in Procs : r # p => idx'[r] = idx[r]
  BY <1>1, <1>2, <1>6 DEF TypeOK
<1>9. TypeOK'
  BY <1>1, <1>6, <1>7, <1>8 DEF TypeOK, ChanOK, books
<1>10. Roles'
  BY <1>1, <1>2, <1>6, <1>8 DEF Roles
<1>11. Alone(p)
  BY <1>6, <1>8 DEF Alone
<1>12. ASSUME NEW r \in App, NEW e \in Dsl PROVE Question(r, e)'
  <2>1. Question(r, e) /\ r \in Procs /\ e \in Procs /\ <<r, e>> \in Chan /\ <<e, r>> \in Chan
        /\ <<e, r>> # x /\ r # p
    BY <1>2, <1>5, Lines, Places DEF IInv, x
  <2>2. Asked(r, e)' => Asked(r, e)
    BY <1>7, <2>1 DEF Asked, Only
  <2>3. Answering(e, r)' <=> Answering(e, r)
    BY <1>6 DEF Answering
  <2>4. Pending(<<e, r>>)' <=> Pending(<<e, r>>)
    BY <1>7, <2>1 DEF Only
  <2>5. \A n : Waits(r, e, n) => Waits(r, e, n)'
    BY <1>11, <2>1 DEF Waits, Alone
  <2>. QED  BY <1>6, <1>7, <2>1, <2>2, <2>3, <2>4, <2>5 DEF Question
<1>13. OneUnit' /\ NeverOverdrawn' /\ Replies'
  BY <1>1, <1>6, <1>7 DEF OneUnit, NeverOverdrawn, Replies
<1>14. AnswersMatch'
  <2> SUFFICES ASSUME NEW c \in Chan, c[1] \in Dsl, Pending(c)'
               PROVE  pc'[c[2]] = "reply" /\ peer'[c[2]] = c[1] /\ payload'[c].n = idx'[c[2]] - 1
    BY DEF AnswersMatch
  <2>1. c # x
    BY <1>5
  <2>2. pc[c[2]] = "reply" /\ peer[c[2]] = c[1] /\ payload[c].n = idx[c[2]] - 1 /\ c[2] \in Procs
    BY <1>1, <1>7, <2>1 DEF AnswersMatch, Chan, Only
  <2>3. c[2] # p
    BY <1>2, <2>2
  <2>. QED  BY <1>7, <1>11, <2>2, <2>3 DEF Alone
<1>15. ASSUME NEW e \in Dsl, NEW a \in Accounts, pc'[e] \in Live PROVE Books(e, a)'
  <2>1. pc[e] \in Live /\ e # p
    BY <1>2, <1>6, <1>15 DEF Live
  <2>2. Books(e, a)
    BY <2>1 DEF IInv, Live
  <2>3. ~InDeposit(x, e, a) /\ ~InDeposit(x, e, a)' /\ ~InGrant(x, e, a) /\ ~InGrant(x, e, a)'
    BY <1>5, <2>1 DEF InDeposit, InGrant
  <2>4. /\ Bit(InDeposit(x, e, a)) = 0 /\ Bit(InDeposit(x, e, a)') = 0
        /\ Bit(InGrant(x, e, a)) = 0 /\ Bit(InGrant(x, e, a)') = 0
    BY <2>3 DEF Bit
  <2>5. Bit(Granted(reply[e], a)') = Bit(Granted(reply[e], a))
    BY <1>6
  <2>6. balance' = balance /\ deposited' = deposited /\ withdrawn' = withdrawn
    BY <1>6 DEF books
  <2>. QED  BY <1>1, <1>5, <1>7, <1>9, <2>2, <2>4, <2>5, <2>6, BooksKept
<1>. QED  BY <1>9, <1>10, <1>12, <1>13, <1>14, <1>15 DEF IInv, Live

\* What a server has done to the account, the answer and itself after a message m of
\* application p.
Served(d, p, m) ==
  /\ pc' \in [Procs -> Calls] /\ entered' \in [{0, 1, 3, 4} -> [Procs -> Nat]]
  /\ peer' \in [Procs -> Procs] /\ reply' \in [Dsl -> Messages] /\ balance' \in [Dsl -> [Accounts -> Int]]
  /\ pc'[d] \in {"serve", "answer", "bar0"} /\ Alone(d)
  /\ \A e \in Dsl : e # d => reply'[e] = reply[e] /\ balance'[e] = balance[e]
  /\ \A a \in Accounts : balance'[d][a] >= 0
  /\ IF pc'[d] = "answer"
     THEN m.op \in {"WITHDRAW", "CHECK"} /\ peer'[d] = p /\ reply'[d].n = m.n
     ELSE reply'[d] = Blank
  /\ pc'[d] # "bar0" => \A a \in Accounts :
       balance'[d][a] + Bit(Granted(reply'[d], a)) = balance[d][a] + Bit(m.op = "DEPOSIT" /\ m.acc = a)

LEMMA ServeOutcome ==
  ASSUME IInv, NEW d \in Dsl, Serve(d), NEW p \in App, Scanned(d) = <<p, d>>,
         NEW m \in Messages, m = payload[<<p, d>>]
  PROVE  Served(d, p, m)
<1>1. TypeOK /\ Roles /\ OneUnit /\ Replies /\ NeverOverdrawn
  BY DEF IInv
<1>2. d \in Procs /\ p \in Procs /\ d # p /\ pc[d] = "serve" /\ UNCHANGED idx
  BY Places DEF Serve
<1>3. reply[d] = Blank /\ \A a : Bit(Granted(Blank, a)) = 0
  BY <1>1, <1>2, BlankType DEF Replies, Bit
<1>4. /\ m.acc \in Accounts /\ m.n \in Nat /\ m.w2 \in Nat
      /\ m.op \in {"DEPOSIT", "WITHDRAW"} => m.w2 = 1
  BY <1>1 DEF Messages, OneUnit
<1>5. /\ balance \in [Dsl -> [Accounts -> Int]] /\ reply \in [Dsl -> Messages]
      /\ peer \in [Procs -> Procs] /\ pc \in [Procs -> Calls]
      /\ entered \in [{0, 1, 3, 4} -> [Procs -> Nat]]
      /\ \A a \in Accounts : balance[d][a] \in Int /\ balance[d][a] >= 0
  BY <1>1 DEF TypeOK, NeverOverdrawn, Calls
<1>6. \/ m.op = "DEPOSIT" /\ Credit(d, m) /\ UNCHANGED <<pc, entered, peer, reply>>
      \/ /\ m.op = "WITHDRAW"
         /\ balance' = [balance EXCEPT ![d][m.acc] = IF Covered(d, m) THEN @ - m.w2 ELSE @]
         /\ reply' = [reply EXCEPT ![d] = [m EXCEPT !.w2 = IF Covered(d, m) THEN 1 ELSE 0]]
         /\ peer' = [peer EXCEPT ![d] = p]
         /\ Goto(d, "answer")
      \/ /\ m.op = "CHECK"
         /\ reply' = [reply EXCEPT ![d] = [m EXCEPT !.w2 = balance[d][m.acc]]]
         /\ peer' = [peer EXCEPT ![d] = p]
         /\ Goto(d, "answer")
         /\ UNCHANGED balance
      \/ m.op \in {"EXIT", "THROUGHPUT"} /\ Goto(d, "bar0") /\ UNCHANGED <<peer, reply, balance>>
  BY DEF Serve
<1>7. CASE m.op = "DEPOSIT" /\ Credit(d, m) /\ UNCHANGED <<pc, entered, peer, reply>>
  <2>1. balance' = [balance EXCEPT ![d] = [balance[d] EXCEPT ![m.acc] = @ + 1]]
    BY <1>4, <1>7 DEF Credit
  <2>2. [balance[d] EXCEPT ![m.acc] = @ + 1] \in [Accounts -> Int]
    BY <1>4, <1>5
  <2>3. /\ balance' \in [Dsl -> [Accounts -> Int]] /\ \A e \in Dsl : e # d => balance'[e] = balance[e]
        /\ \A a \in Accounts : balance'[d][a] = IF a = m.acc THEN balance[d][a] + 1 ELSE balance[d][a]
    BY <1>4, <1>5, <2>1, <2>2
  <2>4. \A a \in Accounts : balance'[d][a] >= 0
    BY <1>5, <2>3
  <2>5. \A a \in Accounts :
          balance'[d][a] + Bit(Granted(reply'[d], a)) = balance[d][a] + Bit(m.op = "DEPOSIT" /\ m.acc = a)
    <3> SUFFICES ASSUME NEW a \in Accounts
                 PROVE  balance'[d][a] + Bit(Granted(reply'[d], a)) = balance[d][a] + Bit(m.op = "DEPOSIT" /\ m.acc = a)
      OBVIOUS
    <3>1. Bit(Granted(reply'[d], a)) = 0 /\ balance[d][a] \in Int
      BY <1>3, <1>5, <1>7
    <3>2. Bit(m.op = "DEPOSIT" /\ m.acc = a) = IF a = m.acc THEN 1 ELSE 0
      BY <1>7 DEF Bit
    <3>. QED  BY <2>3, <3>1, <3>2
  <2>. QED  BY <1>2, <1>3, <1>5, <1>7, <2>3, <2>4, <2>5 DEF Served, Alone
<1>8. CASE /\ m.op = "WITHDRAW"
           /\ balance' = [balance EXCEPT ![d][m.acc] = IF Covered(d, m) THEN @ - m.w2 ELSE @]
           /\ reply' = [reply EXCEPT ![d] = [m EXCEPT !.w2 = IF Covered(d, m) THEN 1 ELSE 0]]
           /\ peer' = [peer EXCEPT ![d] = p]
           /\ Goto(d, "answer")
  <2> DEFINE r == [m EXCEPT !.w2 = IF Covered(d, m) THEN 1 ELSE 0]
  <2>1. /\ r \in Messages /\ r.op = "WITHDRAW" /\ r.n = m.n /\ r.acc = m.acc
        /\ r.w2 = IF Covered(d, m) THEN 1 ELSE 0
    BY <1>8 DEF Messages
  <2> HIDE DEF r
  <2>2. /\ reply' \in [Dsl -> Messages] /\ reply'[d] = r /\ \A e \in Dsl : e # d => reply'[e] = reply[e]
        /\ peer' \in [Procs -> Procs] /\ peer'[d] = p /\ \A q \in Procs : q # d => peer'[q] = peer[q]
    BY <1>2, <1>5, <1>8, <2>1 DEF r
  <2>3. /\ pc' \in [Procs -> Calls] /\ entered' \in [{0, 1, 3, 4} -> [Procs -> Nat]]
        /\ pc'[d] = "answer" /\ \A q \in Procs : q # d => pc'[q] = pc[q]
    <3>1. "answer" \in Calls
      BY DEF Calls
    <3>. QED  BY <1>1, <1>2, <1>8, <3>1, Going
  <2>4. balance' = [balance EXCEPT ![d] = [balance[d] EXCEPT ![m.acc] = IF Covered(d, m) THEN @ - 1 ELSE @]]
    BY <1>4, <1>8
  <2>5. [balance[d] EXCEPT ![m.acc] = IF Covered(d, m) THEN @ - 1 ELSE @] \in [Accounts -> Int]
    BY <1>4, <1>5
  <2>6. /\ balance' \in [Dsl -> [Accounts -> Int]] /\ \A e \in Dsl : e # d => balance'[e] = balance[e]
        /\ \A a \in Accounts : balance'[d][a] = IF a = m.acc /\ Covered(d, m) THEN balance[d][a] - 1
                                                ELSE balance[d][a]
    BY <1>4, <1>5, <2>4, <2>5
  <2>7. \A a \in Accounts : balance'[d][a] >= 0
    BY <1>4, <1>5, <1>8, <2>6 DEF Covered
  <2>8. \A a \in Accounts :
          balance'[d][a] + Bit(Granted(reply'[d], a)) = balance[d][a] + Bit(m.op = "DEPOSIT" /\ m.acc = a)
    <3>1. \A a : Granted(reply'[d], a) <=> a = m.acc /\ Covered(d, m)
      BY <2>1, <2>2 DEF Granted
    <3> SUFFICES ASSUME NEW a \in Accounts
                 PROVE  balance'[d][a] + Bit(Granted(reply'[d], a)) = balance[d][a] + Bit(m.op = "DEPOSIT" /\ m.acc = a)
      OBVIOUS
    <3>2. Bit(Granted(reply'[d], a)) = (IF a = m.acc /\ Covered(d, m) THEN 1 ELSE 0) /\ balance[d][a] \in Int
      BY <1>5, <3>1 DEF Bit
    <3>3. Bit(m.op = "DEPOSIT" /\ m.acc = a) = 0
      BY <1>8 DEF Bit
    <3>. QED  BY <2>6, <3>2, <3>3
  <2>. QED  BY <1>2, <1>8, <2>1, <2>2, <2>3, <2>6, <2>7, <2>8 DEF Served, Alone
<1>9. CASE /\ m.op = "CHECK"
           /\ reply' = [reply EXCEPT ![d] = [m EXCEPT !.w2 = balance[d][m.acc]]]
           /\ peer' = [peer EXCEPT ![d] = p]
           /\ Goto(d, "answer")
           /\ UNCHANGED balance
  <2> DEFINE r == [m EXCEPT !.w2 = balance[d][m.acc]]
  <2>1. r \in Messages /\ r.op = "CHECK" /\ r.n = m.n
    <3>1. balance[d][m.acc] \in Nat
      BY <1>4, <1>5
    <3>. QED  BY <1>9, <3>1 DEF Messages
  <2> HIDE DEF r
  <2>2. /\ reply' \in [Dsl -> Messages] /\ reply'[d] = r /\ \A e \in Dsl : e # d => reply'[e] = reply[e]
        /\ peer' \in [Procs -> Procs] /\ peer'[d] = p /\ \A q \in Procs : q # d => peer'[q] = peer[q]
    BY <1>2, <1>5, <1>9, <2>1 DEF r
  <2>3. /\ pc' \in [Procs -> Calls] /\ entered' \in [{0, 1, 3, 4} -> [Procs -> Nat]]
        /\ pc'[d] = "answer" /\ \A q \in Procs : q # d => pc'[q] = pc[q]
    <3>1. "answer" \in Calls
      BY DEF Calls
    <3>. QED  BY <1>1, <1>2, <1>9, <3>1, Going
  <2>4. \A a : ~Granted(reply'[d], a)
    BY <2>1, <2>2 DEF Granted
  <2>5. \A a \in Accounts :
          balance'[d][a] + Bit(Granted(reply'[d], a)) = balance[d][a] + Bit(m.op = "DEPOSIT" /\ m.acc = a)
    BY <1>5, <1>9, <2>4 DEF Bit
  <2>. QED  BY <1>2, <1>5, <1>9, <2>1, <2>2, <2>3, <2>5 DEF Served, Alone
<1>10. CASE m.op \in {"EXIT", "THROUGHPUT"} /\ Goto(d, "bar0") /\ UNCHANGED <<peer, reply, balance>>
  <2>1. /\ pc' \in [Procs -> Calls] /\ entered' \in [{0, 1, 3, 4} -> [Procs -> Nat]]
        /\ pc'[d] = "bar0" /\ \A q \in Procs : q # d => pc'[q] = pc[q]
    <3>1. "bar0" \in Calls
      BY DEF Calls
    <3>. QED  BY <1>1, <1>2, <1>10, <3>1, Going
  <2>. QED  BY <1>2, <1>3, <1>5, <1>10, <2>1 DEF Served, Alone
<1>. QED  BY <1>6, <1>7, <1>8, <1>9, <1>10

LEMMA ServeStep ==
  ASSUME IInv, NEW d \in Dsl, Serve(d)
  PROVE  IInv'
<1>1. TypeOK /\ Roles /\ OneUnit /\ Replies /\ AnswersMatch /\ NeverOverdrawn /\ ChanOK
  BY ChannelTypes DEF IInv
<1>2. PICK p \in App : p = app_seq[start[d]]
  BY <1>1, Sequences DEF TypeOK
<1> DEFINE x == <<p, d>>
<1>3. Scanned(d) = x
  BY <1>2 DEF Scanned
<1>4. x \in Chan /\ x[1] = p /\ x[2] = d /\ p \in Procs /\ d \in Procs /\ p \notin Dsl /\ d # p
  BY Lines, Places
<1>5. pc[d] = "serve" /\ Recv(x) /\ Rotate(d) /\ UNCHANGED <<idx, books>>
  BY <1>3 DEF Serve
<1>6. PICK m \in Messages : m = payload[x]
  BY <1>1, <1>4 DEF TypeOK
<1>7. Served(d, p, m)
  BY <1>3, <1>6, ServeOutcome
<1> HIDE DEF x
<1>8. ChanOK' /\ Only(x) /\ Pending(x) /\ ~Pending(x)' /\ payload' = payload
  BY <1>1, <1>4, <1>5, Receiving
<1>9. start' \in [Dsl -> 1 .. Len(app_seq)]
  <2>1. (start[d] % Len(app_seq)) + 1 \in 1 .. Len(app_seq)
    BY <1>1, Sequences DEF TypeOK
  <2>. QED  BY <1>1, <1>5, <2>1 DEF TypeOK, Rotate
<1>10. TypeOK'
  BY <1>1, <1>5, <1>7, <1>8, <1>9 DEF TypeOK, ChanOK, Calls, books, Served
<1>11. Roles'
  <2>1. /\ pc'[d] \in {"serve", "answer", "bar0"}
        /\ \A q \in Procs : q # d => pc'[q] = pc[q] /\ idx'[q] = idx[q] /\ peer'[q] = peer[q]
    BY <1>7 DEF Served, Alone
  <2>. QED  BY <1>1, <1>4, <2>1 DEF Roles
<1>12. ASSUME NEW q \in App, NEW e \in Dsl PROVE Question(q, e)'
  <2>1. Question(q, e) /\ q \in Procs /\ e \in Procs /\ <<q, e>> \in Chan /\ <<e, q>> \in Chan
        /\ <<e, q>> # x /\ q # d
    <3>1. q \in Procs /\ e \in Procs /\ q # d
      BY Places
    <3>2. <<q, e>> \in Chan /\ <<e, q>> \in Chan
      BY Lines
    <3>3. <<e, q>> # x
      BY <3>1 DEF x
    <3>. QED  BY <3>1, <3>2, <3>3 DEF IInv
  <2>2. (Asked(q, e)' => Asked(q, e)) /\ payload'[<<q, e>>] = payload[<<q, e>>]
    BY <1>8, <2>1 DEF Asked, Only
  <2>3. \A n : Waits(q, e, n) => Waits(q, e, n)'
    BY <1>5, <1>7, <2>1 DEF Waits, Alone, Served
  <2>4. Pending(<<e, q>>)' <=> Pending(<<e, q>>)
    BY <1>8, <2>1 DEF Only
  <2>5. CASE e # d
    <3>1. (Answering(e, q)' <=> Answering(e, q)) /\ reply'[e] = reply[e]
      BY <1>7, <2>1, <2>5 DEF Answering, Alone, Served
    <3>. QED  BY <2>1, <2>2, <2>3, <2>4, <3>1 DEF Question
  <2>6. CASE e = d /\ ~Answering(d, q)'
    BY <2>1, <2>2, <2>3, <2>4, <2>6 DEF Question
  <2>7. CASE e = d /\ Answering(d, q)'
    <3>1. q = p /\ m.op \in {"WITHDRAW", "CHECK"} /\ reply'[d].n = m.n
      BY <1>7, <2>7 DEF Answering, Served
    <3>2. Asked(p, d)
      BY <1>6, <1>8, <3>1 DEF Asked, x
    <3>3. Waits(p, d, m.n) /\ ~Pending(<<d, p>>)
      BY <1>6, <2>1, <2>7, <3>1, <3>2 DEF Question, x
    <3>4. ~Asked(p, d)'
      BY <1>8 DEF Asked, x
    <3>. QED  BY <2>3, <2>4, <2>7, <3>1, <3>3, <3>4 DEF Question
  <2>. QED  BY <2>5, <2>6, <2>7
<1>13. OneUnit'
  BY <1>1, <1>8 DEF OneUnit
<1>14. NeverOverdrawn'
  BY <1>1, <1>7 DEF NeverOverdrawn, Served
<1>15. Replies'
  <2> SUFFICES ASSUME NEW e \in Dsl
               PROVE  IF pc'[e] = "answer" THEN peer'[e] \in App ELSE reply'[e] = Blank
    BY DEF Replies
  <2>1. CASE e = d
    BY <1>7, <2>1 DEF Served
  <2>2. CASE e # d
    BY <1>1, <1>7, <2>2, Places DEF Replies, Served, Alone
  <2>. QED  BY <2>1, <2>2
<1>16. AnswersMatch'
  <2> SUFFICES ASSUME NEW c \in Chan, c[1] \in Dsl, Pending(c)'
               PROVE  pc'[c[2]] = "reply" /\ peer'[c[2]] = c[1] /\ payload'[c].n = idx'[c[2]] - 1
    BY DEF AnswersMatch
  <2>1. c # x
    BY <1>4
  <2>2. pc[c[2]] = "reply" /\ peer[c[2]] = c[1] /\ payload[c].n = idx[c[2]] - 1 /\ c[2] \in Procs
    BY <1>1, <1>8, <2>1 DEF AnswersMatch, Chan, Only
  <2>3. c[2] # d
    BY <1>5, <2>2
  <2>. QED  BY <1>7, <1>8, <2>2, <2>3 DEF Alone, Served
<1>17. ASSUME NEW e \in Dsl, NEW a \in Accounts, pc'[e] \in Live PROVE Books(e, a)'
  <2>1. pc[e] \in Live
    BY <1>5, <1>7, <1>17, Places DEF Alone, Served, Live
  <2>2. Books(e, a)
    BY <2>1 DEF IInv, Live
  <2>3. ~InDeposit(x, e, a)' /\ ~InGrant(x, e, a) /\ ~InGrant(x, e, a)'
    BY <1>4, <1>8 DEF InDeposit, InGrant
  <2>4. InDeposit(x, e, a) <=> e = d /\ m.op = "DEPOSIT" /\ m.acc = a
    BY <1>4, <1>6, <1>8 DEF InDeposit
  <2>5. Bit(InDeposit(x, e, a)') = 0 /\ Bit(InGrant(x, e, a)') = 0 /\ Bit(InGrant(x, e, a)) = 0
    BY <2>3 DEF Bit
  <2>6. balance'[e][a] + Bit(Granted(reply[e], a)') = balance[e][a] + Bit(InDeposit(x, e, a)) + Bit(Granted(reply[e], a))
    <3>1. CASE e = d
      <4>1. Bit(InDeposit(x, e, a)) = Bit(m.op = "DEPOSIT" /\ m.acc = a) /\ Bit(InDeposit(x, e, a)) \in Nat
        BY <2>4, <3>1 DEF Bit
      <4>2. reply[d] = Blank /\ Bit(Granted(reply[d], a)) = 0
        BY <1>1, <1>5, BlankType DEF Replies, Bit
      <4>3. pc'[d] # "bar0"
        BY <1>17, <3>1 DEF Live
      <4>4. balance'[d][a] + Bit(Granted(reply'[d], a)) = balance[d][a] + Bit(m.op = "DEPOSIT" /\ m.acc = a)
        BY <1>7, <4>3 DEF Served
      <4>5. balance[d][a] \in Int
        BY <1>1 DEF TypeOK
      <4>. QED  BY <3>1, <4>1, <4>2, <4>4, <4>5
    <3>2. CASE e # d
      <4>1. Bit(InDeposit(x, e, a)) = 0 /\ balance'[e] = balance[e] /\ reply'[e] = reply[e]
        BY <1>7, <2>4, <3>2 DEF Bit, Served
      <4>2. balance[e][a] \in Int /\ Bit(Granted(reply[e], a)) \in Nat
        BY <1>1 DEF TypeOK, Bit
      <4>. QED  BY <4>1, <4>2
    <3>. QED  BY <3>1, <3>2
  <2>7. /\ balance[e][a] \in Int /\ withdrawn[e][a] \in Nat /\ deposited[e][a] \in Nat
        /\ balance'[e][a] \in Int
    BY <1>1, <1>10 DEF TypeOK
  <2>8. balance'[e][a] + Bit(InDeposit(x, e, a)') + withdrawn'[e][a]
             + Bit(InGrant(x, e, a)') + Bit(Granted(reply[e], a)') + deposited[e][a]
           = balance[e][a] + Bit(InDeposit(x, e, a)) + withdrawn[e][a]
             + Bit(InGrant(x, e, a)) + Bit(Granted(reply[e], a)) + deposited'[e][a]
    <3> DEFINE i == Bit(InDeposit(x, e, a))
    <3> DEFINE r == Bit(Granted(reply[e], a)')
    <3> DEFINE s == Bit(Granted(reply[e], a))
    <3> DEFINE b == balance[e][a]
    <3> DEFINE bn == balance'[e][a]
    <3> DEFINE w == withdrawn[e][a]
    <3> DEFINE u == deposited[e][a]
    <3>1. /\ b \in Int /\ bn \in Int /\ w \in Nat /\ u \in Nat /\ i \in Nat /\ r \in Nat /\ s \in Nat
          /\ bn + r = b + i + s
      BY <2>6, <2>7 DEF Bit
    <3>2. withdrawn'[e][a] = w /\ deposited'[e][a] = u
      BY <1>5 DEF books
    <3> HIDE DEF i, r, s, b, bn, w, u
    <3>3. bn + 0 + w + 0 + r + u = b + i + w + 0 + s + u
      BY <3>1
    <3>. QED  BY <2>5, <3>2, <3>3 DEF i, r, s, b, bn, w, u
  <2>. QED  BY <1>1, <1>4, <1>8, <1>10, <2>2, <2>8, BooksKept
<1>. QED  BY <1>10, <1>11, <1>12, <1>13, <1>14, <1>15, <1>16, <1>17 DEF IInv, Live

LEMMA InitInv == Init => IInv
<1> SUFFICES ASSUME Init PROVE IInv
  OBVIOUS
<1>1. \A c \in Chan : accepted[c] = 0 /\ delivered[c] = << >> /\ payload[c] = Blank /\ ~Pending(c)
  BY DEF Init, Channel!Init, Pending
<1>2. TypeOK
  <2>1. accepted \in [Chan -> Nat] /\ delivered \in [Chan -> Seq([{"w"} -> Nat])]
        /\ \A c \in Chan : accepted[c] \in {Len(delivered[c]), Len(delivered[c]) + 1}
    <3>1. Len(<< >>) = 0 /\ << >> \in Seq([{"w"} -> Nat])
      OBVIOUS
    <3>. QED  BY <1>1, <3>1 DEF Init, Channel!Init
  <2>2. start \in [Dsl -> 1 .. Len(app_seq)]
    <3>1. 1 \in 1 .. Len(app_seq)
      BY Sequences
    <3>. QED  BY <3>1 DEF Init
  <2>3. payload \in [Chan -> Messages] /\ reply \in [Dsl -> Messages]
    BY BlankType DEF Init
  <2>4. Zero \in [Dsl -> [Accounts -> Nat]] /\ Zero \in [Dsl -> [Accounts -> Int]]
    BY DEF Zero
  <2>5. entered \in [{0, 1, 3, 4} -> [Procs -> Nat]]
    BY DEF Init
  <2>. QED  BY <2>1, <2>2, <2>3, <2>4, <2>5 DEF Init, TypeOK
<1>3. \A p \in Procs : pc[p] = "bar4"
  BY DEF Init
<1>4. Roles
  BY <1>3 DEF Roles
<1>5. \A p \in App, d \in Dsl : Question(p, d)
  BY <1>1, <1>3, Lines, Places DEF Question, Asked, Answering
<1>6. OneUnit
  <2>1. Blank.op = "NONE"
    BY DEF Blank, Message
  <2>. QED  BY <1>1, <2>1, Lines DEF OneUnit
<1>7. Replies
  BY <1>3, Places DEF Init, Replies
<1>8. AnswersMatch
  BY <1>1 DEF AnswersMatch
<1>9. \A d \in Dsl, a \in Accounts : balance[d][a] = 0 /\ deposited[d][a] = 0 /\ withdrawn[d][a] = 0
  BY DEF Init, Zero
<1>10. NeverOverdrawn
  BY <1>9 DEF NeverOverdrawn
<1>11. ASSUME NEW d \in Dsl, NEW a \in Accounts PROVE Books(d, a)
  <2>1. {c \in Chan : InDeposit(c, d, a)} = {}
    BY <1>1 DEF InDeposit
  <2>2. {c \in Chan : c[1] = d /\ Pending(c) /\ Granted(payload[c], a)} = {}
    BY <1>1
  <2>3. ~Granted(reply[d], a)
    BY BlankType DEF Init
  <2>4. Cardinality({}) = 0
    BY FS_EmptySet
  <2>5. Deposits(d, a) = 0 /\ Withdrawals(d, a) = 0
    <3>1. Deposits(d, a) = Cardinality({})
      BY <2>1 DEF Deposits
    <3>2. Withdrawals(d, a) = Cardinality({}) + 0
      BY <2>2, <2>3 DEF Withdrawals
    <3>. QED  BY <2>4, <3>1, <3>2
  <2>. QED  BY <1>9, <2>5 DEF Books
<1>. QED  BY <1>2, <1>4, <1>5, <1>6, <1>7, <1>8, <1>10, <1>11 DEF IInv

LEMMA InductiveStep == IInv /\ [Next]_vars => IInv'
<1> SUFFICES ASSUME IInv, [Next]_vars PROVE IInv'
  OBVIOUS
<1>1. ASSUME NEW p \in Procs, Step(p) PROVE IInv'
  BY <1>1, RequestStep, ReplyStep, ProceedStep, SendExitStep, ReportStep, OpenStep, ScanMissStep,
     ServeStep, AnswerStep, CollectedStep, LeaveStep DEF Step
<1>2. CASE UNCHANGED vars
  <2>1. UNCHANGED <<accepted, delivered, payload, entered, pc, idx, peer, start, reply, balance,
                    deposited, withdrawn>>
    BY <1>2 DEF vars, chans, books
  <2>2. (TypeOK' <=> TypeOK) /\ (Roles' <=> Roles) /\ (OneUnit' <=> OneUnit) /\ (Replies' <=> Replies)
        /\ (AnswersMatch' <=> AnswersMatch) /\ (NeverOverdrawn' <=> NeverOverdrawn)
    BY <2>1 DEF TypeOK, Roles, OneUnit, Replies, AnswersMatch, NeverOverdrawn, Pending
  <2>3. \A p \in App, d \in Dsl : Question(p, d)' <=> Question(p, d)
    BY <2>1 DEF Question, Asked, Answering, Waits, Pending
  <2>4. \A d \in Dsl, a \in Accounts : Books(d, a)' <=> Books(d, a)
    BY <2>1 DEF Books, Deposits, Withdrawals, InDeposit, Pending
  <2>. QED  BY <2>1, <2>2, <2>3, <2>4 DEF IInv
<1>. QED  BY <1>1, <1>2 DEF Next

\* The inductive invariant, for any number of processes, servers, accounts and
\* operations (benchmarks/bank.c: bank_app, bank_dsl and the end of main).
THEOREM InvariantHolds == Spec => []IInv
BY InitInv, InductiveStep, PTL DEF Spec

\* A running server's books agree with what the applications were told, however many
\* applications send it requests and in whatever order it scans them (bank_dsl).
THEOREM BooksConserved == Spec => []Conserved
<1>1. IInv => Conserved
  BY DEF IInv, Conserved
<1>. QED  BY <1>1, InvariantHolds, PTL

\* No account is overdrawn (bank_dsl, WITHDRAW).
THEOREM NobodyOverdraws == Spec => []NeverOverdrawn
<1>1. IInv => NeverOverdrawn
  BY DEF IInv
<1>. QED  BY <1>1, InvariantHolds, PTL

\* An answer on its way answers the request its receiver waits on: bank_app cannot take
\* another server's answer, nor the answer to an earlier request, for it.
THEOREM AnswersAreMatched == Spec => []AnswersMatch
<1>1. IInv => AnswersMatch
  BY DEF IInv
<1>. QED  BY <1>1, InvariantHolds, PTL
=============================================================================
