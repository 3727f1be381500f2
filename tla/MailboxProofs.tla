--------------------------- MODULE MailboxProofs ---------------------------
(***************************************************************************)
(* For every number of processes, every color buffer and every choice of   *)
(* calls: synchronised sends and a memcpy that stores the state byte last  *)
(* give exactly-once, in-order, whole messages over one line per pair; and *)
(* with no condition at all, no receiver is ever taken back.  Niagara's    *)
(* functions implement the mailboxes, and inherit what is proved of them   *)
(* with no assumption on the build's memcpy.                               *)
(***************************************************************************)
EXTENDS Niagara, TLAPS

\* The one-line names of Mailbox are expanded everywhere.
USE DEF Free, Full, BroadcastDone, NextCore, Resumed

\* A process of the model is not outside its own scan: the scanned core exists.
LEMMA ScanCoreType ==
  ASSUME TypeOK, NEW p \in Procs, InCall(p), Scanning(p)
  PROVE  ScanCore(p) \in Procs /\ ScanLen(p) \in Nat \ {0}
<1> USE MailboxAssumption
<1>1. CASE call[p] = "recv"
  BY <1>1 DEF Scanning, ScanCore, ScanLen, InCall, TypeOK, Procs
<1>2. CASE call[p] = "recv_color"
  <2>1. CBuf[p] \in Seq(Procs) /\ Len(CBuf[p]) > 0
    BY <1>2 DEF Scanning, ScanLen, TypeOK
  <2>2. idx[p] + 1 \in 1 .. Len(CBuf[p])
    BY <1>2, <2>1 DEF InCall, TypeOK
  <2> QED BY <1>2, <2>1, <2>2 DEF ScanCore, ScanPos, ScanLen
<1>3. CASE call[p] = "recv_color_start"
  <2>1. CBuf[p] \in Seq(Procs) /\ Len(CBuf[p]) > 0
    BY <1>3 DEF Scanning, ScanLen, TypeOK
  <2>2. start[p] + 1 \in 1 .. Len(CBuf[p])
    BY <1>3, <2>1 DEF InCall, TypeOK
  <2> QED BY <1>3, <2>1, <2>2 DEF ScanCore, ScanPos, ScanLen
<1> QED BY <1>1, <1>2, <1>3 DEF Scanning, RecvCalls

\* Initially nobody is in a call, every line is empty, nothing was sent.
LEMMA InitInv == Init => IInv
<1> SUFFICES ASSUME Init PROVE IInv
  OBVIOUS
<1> USE MailboxAssumption DEF Init
<1>1. TypeOK
  BY DEF TypeOK, BufStates, EMPTY, Procs
<1>2. ASSUME NEW p \in Procs PROVE ProcOK(p)
  BY <1>2 DEF ProcOK, InCall, SendCalls, RecvCalls
<1>3. ASSUME NEW c \in Chan PROVE ChanOK(c)
  <2>1. c[1] \in Procs /\ c[2] \in Procs
    BY <1>3 DEF Chan
  <2>2. ~Writing(c) /\ ~Reading(c) /\ state[c] = EMPTY /\ state[c] # MESSG
    BY <1>3, <2>1 DEF Writing, Reading, EMPTY, MESSG
  <2>3. got[c] = << >> /\ sent[c] = 0
    BY <1>3
  <2> QED BY <2>2, <2>3 DEF ChanOK
<1> QED BY <1>1, <1>2, <1>3 DEF IInv

\* A process that sends has a channel, and so has one that copies a line out.
LEMMA OutIsChan ==
  ASSUME TypeOK, NEW p \in Procs, InCall(p),
         pc[p] = "copy" \/ (pc[p] = "test" /\ call[p] \in {"send", "broadcast", "recv_from"})
  PROVE  Out(p) \in Chan /\ In(p) \in Chan
<1>1. peer[p] # p /\ peer[p] \in Procs
  BY DEF InCall, TypeOK
<1> QED BY <1>1 DEF Out, In, Chan

(***************************************************************************)
(* Type correctness.  The actions share two facts: a value put into one    *)
(* field keeps a function's type, and Return's results are well typed.     *)
(***************************************************************************)
LEMMA TypeNext ==
  ASSUME TypeOK, \A q \in Procs : InCall(q), [Next]_vars
  PROVE  TypeOK'
<1> USE MailboxAssumption
<1>1. CASE UNCHANGED vars
  BY <1>1 DEF TypeOK, vars, shared, local
<1>2. ASSUME NEW p \in Procs, NEW q \in Procs, CallSend(p, q) PROVE TypeOK'
  BY <1>2 DEF CallSend, Enter, TypeOK, shared, SendCalls
<1>3. ASSUME NEW p \in Procs, NEW q \in Procs, CallSendNoSync(p, q) PROVE TypeOK'
  <2>1. <<p, q>> \in Chan
    BY <1>3 DEF CallSendNoSync, Chan
  <2>2. sent' \in [Chan -> Nat]
    BY <1>3, <2>1 DEF CallSendNoSync, ClaimLine, TypeOK
  <2> QED BY <1>3, <2>2 DEF CallSendNoSync, ClaimLine, TypeOK, shared, SendCalls
<1>4. ASSUME NEW p \in Procs, NEW q \in Procs, CallRecvFrom(p, q) PROVE TypeOK'
  BY <1>4 DEF CallRecvFrom, Enter, TypeOK, shared, RecvCalls
<1>5. ASSUME NEW p \in Procs, NEW f \in RecvCalls, CallRecv(p, f) PROVE TypeOK'
  BY <1>5 DEF CallRecv, Enter, TypeOK, shared, RecvCalls
<1>6. ASSUME NEW p \in Procs, CallBroadcast(p) PROVE TypeOK'
  BY <1>6 DEF CallBroadcast, Enter, TypeOK, shared, SendCalls
<1>7. ASSUME NEW p \in Procs, SendTest(p) PROVE TypeOK'
  <2>1. Out(p) \in Chan
    BY <1>7, OutIsChan DEF SendTest
  <2>2. sent' \in [Chan -> Nat] /\ state' \in [Chan -> BufStates]
    BY <1>7, <2>1 DEF SendTest, ClaimLine, Claimed, TypeOK, BufStates, EMPTY, LOCKD
  <2> QED BY <1>7, <2>2 DEF SendTest, ClaimLine, TypeOK
<1>8. ASSUME NEW p \in Procs, NEW x \in Words \cup {Flag}, SendCopy(p, x) PROVE TypeOK'
  <2>1. state' \in [Chan -> BufStates]
    BY <1>8 DEF SendCopy, TypeOK, BufStates, MESSG
  <2>2. sent[Out(p)] \in Nat
    <3>1. Out(p) \in Chan
      BY <1>8, OutIsChan DEF SendCopy
    <3> QED BY <3>1 DEF TypeOK
  <2>3. line' \in [Chan -> [Words -> Nat]]
    <3>1. line' = line \/ (x \in Words /\ line' = [line EXCEPT ![Out(p)][x] = sent[Out(p)]])
      BY <1>8 DEF SendCopy
    <3>2. Out(p) \in Chan => [line[Out(p)] EXCEPT ![x] = sent[Out(p)]] \in [Words -> Nat]
      BY <2>2 DEF TypeOK
    <3>3. line \in [Chan -> [Words -> Nat]]
      BY DEF TypeOK
    <3> QED BY <3>1, <3>2, <3>3
  <2>4. /\ call' \in [Procs -> SendCalls \cup RecvCalls \cup {"none"}]
        /\ pc' \in [Procs -> {"idle", "test", "copy", "loop"}]
        /\ peer' \in [Procs -> Procs]
    <3>1. \/ call' = call /\ pc' = pc /\ peer' = peer
          \/ call' = call /\ pc' = [pc EXCEPT ![p] = "loop"] /\ peer' = peer
          \/ /\ call' = [call EXCEPT ![p] = "none"]
             /\ pc' = [pc EXCEPT ![p] = "idle"]
             /\ peer' = [peer EXCEPT ![p] = p]
      BY <1>8 DEF SendCopy, Return
    <3>2. /\ call \in [Procs -> SendCalls \cup RecvCalls \cup {"none"}]
          /\ pc \in [Procs -> {"idle", "test", "copy", "loop"}]
          /\ peer \in [Procs -> Procs]
      BY DEF TypeOK
    <3>3. pc' \in [Procs -> {"idle", "test", "copy", "loop"}]
      BY <3>1, <3>2
    <3>4. peer' \in [Procs -> Procs]
      BY <3>1, <3>2
    <3>5. call' \in [Procs -> SendCalls \cup RecvCalls \cup {"none"}]
      BY <3>1, <3>2
    <3> QED BY <3>3, <3>4, <3>5
  <2>5. todo' \in [Procs -> SUBSET (Words \cup {Flag})]
    BY <1>8 DEF SendCopy, TypeOK
  <2> QED BY <1>8, <2>1, <2>3, <2>4, <2>5 DEF SendCopy, TypeOK
<1>9. ASSUME NEW p \in Procs, BroadcastNext(p) PROVE TypeOK'
  <2>1. CASE idx[p] = N
    <3>1. Return(p) /\ idx' = [idx EXCEPT ![p] = 0] /\ UNCHANGED <<state, line, start, msg, todo, sent, got>>
      BY <1>9, <2>1 DEF BroadcastNext, shared
    <3> QED BY <3>1 DEF Return, TypeOK
  <2>2. CASE idx[p] # N
    <3>1. idx[p] \in Procs
      BY <1>9, <2>2 DEF BroadcastNext, TypeOK, Procs, InCall
    <3>2. /\ idx' = [idx EXCEPT ![p] = @ + 1]
          /\ \/ pc' = pc /\ peer' = peer
             \/ pc' = [pc EXCEPT ![p] = "test"] /\ peer' = [peer EXCEPT ![p] = idx[p]]
          /\ UNCHANGED <<state, line, call, start, msg, todo, sent, got>>
      BY <1>9, <2>2 DEF BroadcastNext, shared
    <3>3. /\ pc' \in [Procs -> {"idle", "test", "copy", "loop"}]
          /\ peer' \in [Procs -> Procs]
      BY <3>1, <3>2 DEF TypeOK
    <3>4. idx' \in [Procs -> Nat]
      BY <3>2 DEF TypeOK
    <3> QED BY <3>2, <3>3, <3>4 DEF TypeOK
  <2> QED BY <2>1, <2>2
<1>10. ASSUME NEW p \in Procs, RecvFromTest(p) PROVE TypeOK'
  BY <1>10 DEF RecvFromTest, TakeLine, Claimed, TypeOK, BufStates, LOCKD, MESSG
<1>11. ASSUME NEW p \in Procs, ScanHit(p) PROVE TypeOK'
  <2>1. ScanCore(p) \in Procs
    BY <1>11, ScanCoreType DEF ScanHit
  <2> QED BY <1>11, <2>1 DEF ScanHit, TakeLine, Claimed, TypeOK, BufStates, LOCKD, MESSG
<1>12. ASSUME NEW p \in Procs, ScanMiss(p) PROVE TypeOK'
  <2>1. ScanLen(p) \in Nat \ {0}
    BY <1>12, ScanCoreType DEF ScanMiss
  <2>2. \A k \in Nat : (k + 1) % ScanLen(p) \in Nat
    BY <2>1
  <2>3. /\ \/ start' = Advanced(start, p) /\ idx' = idx
           \/ idx' = Advanced(idx, p) /\ start' = start
        /\ UNCHANGED <<state, line, call, pc, peer, msg, todo, sent, got>>
    BY <1>12 DEF ScanMiss, shared
  <2>4. Advanced(start, p) \in [Procs -> Nat] /\ Advanced(idx, p) \in [Procs -> Nat]
    BY <2>2 DEF Advanced, TypeOK
  <2> QED BY <2>3, <2>4 DEF TypeOK
<1>13. ASSUME NEW p \in Procs, NEW w \in Words, RecvCopy(p, w) PROVE TypeOK'
  <2>1. In(p) \in Chan
    BY <1>13, OutIsChan DEF RecvCopy
  <2>2. line[In(p)][w] \in Nat
    BY <2>1 DEF TypeOK
  <2> QED BY <1>13, <2>2 DEF RecvCopy, TypeOK, shared
<1>14. ASSUME NEW p \in Procs, RecvRelease(p) PROVE TypeOK'
  <2>1. /\ call' \in [Procs -> SendCalls \cup RecvCalls \cup {"none"}]
        /\ pc' \in [Procs -> {"idle", "test", "copy", "loop"}]
        /\ peer' \in [Procs -> Procs]
    BY <1>14 DEF RecvRelease, Return, TypeOK
  <2>2. got' \in [Chan -> Seq([Words -> Nat])]
    <3>1. got \in [Chan -> Seq([Words -> Nat])] /\ msg[p] \in [Words -> Nat]
      BY DEF TypeOK
    <3>2. \A c \in Chan : Append(got[c], msg[p]) \in Seq([Words -> Nat])
      BY <3>1
    <3>3. got' = [got EXCEPT ![<<Reported(p), p>>] = Append(@, msg[p])]
      BY <1>14 DEF RecvRelease
    <3> QED BY <3>1, <3>2, <3>3
  <2>3. start' \in [Procs -> Nat]
    <3>1. CASE call[p] = "recv_color_start"
      <4>1. Len(CBuf[p]) \in Nat \ {0}
        BY <1>14, <3>1 DEF RecvRelease, InCall
      <4>3. (start[p] + 1) % ScanLen(p) \in Nat
        BY <3>1, <4>1 DEF ScanLen, TypeOK
      <4> QED BY <1>14, <4>3 DEF RecvRelease, Advanced, TypeOK
    <3>2. CASE call[p] # "recv_color_start"
      BY <1>14, <3>2 DEF RecvRelease, TypeOK
    <3> QED BY <3>1, <3>2
  <2> QED BY <1>14, <2>1, <2>2, <2>3 DEF RecvRelease, TypeOK, BufStates, EMPTY
<1> QED
  BY <1>1, <1>2, <1>3, <1>4, <1>5, <1>6, <1>7, <1>8, <1>9, <1>10, <1>11, <1>12, <1>13, <1>14
  DEF Next, Called, Step

(***************************************************************************)
(* Each process stays where its call may be.                               *)
(***************************************************************************)
KeepsPlace(q) == /\ call'[q] = call[q]
                 /\ pc'[q] = pc[q]
                 /\ peer'[q] = peer[q]
                 /\ idx'[q] = idx[q]
                 /\ start'[q] = start[q]
                 /\ todo'[q] = todo[q]
                 /\ msg'[q] = msg[q]

LEMMA ProcFrame ==
  ASSUME NEW q \in Procs, KeepsPlace(q)
  PROVE  /\ InCall(q) => InCall(q)'
         /\ ProcOK(q) => ProcOK(q)'
BY DEF KeepsPlace, ProcOK, InCall, Reported, ScanCore, ScanPos

\* A step of one process leaves the locals of the others alone.
LEMMA OthersKeepPlace ==
  ASSUME TypeOK, NEW p \in Procs, NEW q \in Procs, p # q, Called(p) \/ Step(p)
  PROVE  KeepsPlace(q)
<1> USE DEF TypeOK, KeepsPlace
<1>1. ASSUME NEW r \in Procs, CallSend(p, r) PROVE KeepsPlace(q)
  BY <1>1 DEF CallSend, Enter, shared
<1>2. ASSUME NEW r \in Procs, CallSendNoSync(p, r) PROVE KeepsPlace(q)
  BY <1>2 DEF CallSendNoSync, ClaimLine, shared
<1>3. ASSUME NEW r \in Procs, CallRecvFrom(p, r) PROVE KeepsPlace(q)
  BY <1>3 DEF CallRecvFrom, Enter, shared
<1>4. ASSUME NEW f \in RecvCalls, CallRecv(p, f) PROVE KeepsPlace(q)
  BY <1>4 DEF CallRecv, Enter, shared
<1>5. ASSUME CallBroadcast(p) PROVE KeepsPlace(q)
  BY <1>5 DEF CallBroadcast, Enter, shared
<1>6. ASSUME SendTest(p) PROVE KeepsPlace(q)
  BY <1>6 DEF SendTest, ClaimLine
<1>7. ASSUME NEW x \in Words \cup {Flag}, SendCopy(p, x) PROVE KeepsPlace(q)
  BY <1>7 DEF SendCopy, Return
<1>8. ASSUME BroadcastNext(p) PROVE KeepsPlace(q)
  BY <1>8 DEF BroadcastNext, Return, shared
<1>9. ASSUME RecvFromTest(p) PROVE KeepsPlace(q)
  BY <1>9 DEF RecvFromTest, TakeLine
<1>10. ASSUME ScanHit(p) PROVE KeepsPlace(q)
  BY <1>10 DEF ScanHit, TakeLine
<1>11. ASSUME ScanMiss(p) PROVE KeepsPlace(q)
  BY <1>11 DEF ScanMiss, Advanced, shared
<1>12. ASSUME NEW w \in Words, RecvCopy(p, w) PROVE KeepsPlace(q)
  BY <1>12 DEF RecvCopy, shared
<1>13. ASSUME RecvRelease(p) PROVE KeepsPlace(q)
  BY <1>13 DEF RecvRelease, Return, Advanced
<1> QED
  BY <1>1, <1>2, <1>3, <1>4, <1>5, <1>6, <1>7, <1>8, <1>9, <1>10, <1>11, <1>12, <1>13 DEF Called, Step

\* A scan that moves on stays on a position of its scan.
LEMMA AdvancedIn ==
  ASSUME NEW L \in Nat \ {0}, NEW k \in Nat
  PROVE  (k + 1) % L \in Nat /\ (k + 1) % L < L
OBVIOUS

\* A process's own steps keep it inside its call.
LEMMA InCallStep ==
  ASSUME TypeOK, NEW p \in Procs, InCall(p), Called(p) \/ Step(p)
  PROVE  InCall(p)'
<1> USE MailboxAssumption DEF TypeOK, InCall, Reported, ScanCore, ScanPos, SendCalls, RecvCalls
<1>1. ASSUME NEW r \in Procs, CallSend(p, r) PROVE InCall(p)'
  BY <1>1 DEF CallSend, Enter, shared
<1>2. ASSUME NEW r \in Procs, CallRecvFrom(p, r) PROVE InCall(p)'
  BY <1>2 DEF CallRecvFrom, Enter, shared
<1>3. ASSUME NEW f \in RecvCalls, CallRecv(p, f) PROVE InCall(p)'
  <2>1. /\ f \in {"recv", "recv_color", "recv_color_start"}
        /\ pc'[p] = "test" /\ call'[p] = f /\ idx'[p] = 0 /\ start'[p] = start[p]
    BY <1>3 DEF CallRecv, Enter
  <2>2. 0 < N
    BY DEF Procs
  <2> QED BY <2>1, <2>2
<1>4. ASSUME CallBroadcast(p) PROVE InCall(p)'
  BY <1>4 DEF CallBroadcast, Enter, shared
<1>5. ASSUME SendTest(p) PROVE InCall(p)'
  BY <1>5 DEF SendTest, ClaimLine
<1>6. ASSUME NEW x \in Words \cup {Flag}, SendCopy(p, x) PROVE InCall(p)'
  BY <1>6 DEF SendCopy, Return
<1>7. ASSUME BroadcastNext(p) PROVE InCall(p)'
  BY <1>7 DEF BroadcastNext, Return, shared
<1>8. ASSUME RecvFromTest(p) PROVE InCall(p)'
  BY <1>8 DEF RecvFromTest, TakeLine
<1>9. ASSUME ScanHit(p) PROVE InCall(p)'
  BY <1>9 DEF ScanHit, TakeLine, Scanning, ScanLen
<1>10. ASSUME ScanMiss(p) PROVE InCall(p)'
  <2>1. /\ pc[p] = "test" /\ pc' = pc /\ call' = call
        /\ call[p] \in {"recv", "recv_color", "recv_color_start"}
        /\ IF call[p] = "recv_color_start"
           THEN start'[p] = (start[p] + 1) % ScanLen(p) /\ idx'[p] = idx[p]
           ELSE idx'[p] = (idx[p] + 1) % ScanLen(p) /\ start'[p] = start[p]
    BY <1>10 DEF ScanMiss, Scanning, Advanced
  <2>2. ScanLen(p) \in Nat \ {0} /\ ScanLen(p) = IF call[p] = "recv" THEN N ELSE Len(CBuf[p])
    BY <1>10, ScanCoreType DEF ScanMiss, ScanLen
  <2>3. /\ (start[p] + 1) % ScanLen(p) \in Nat /\ (start[p] + 1) % ScanLen(p) < ScanLen(p)
        /\ (idx[p] + 1) % ScanLen(p) \in Nat /\ (idx[p] + 1) % ScanLen(p) < ScanLen(p)
    BY <2>2, AdvancedIn
  <2> QED BY <2>1, <2>2, <2>3
<1>11. ASSUME NEW w \in Words, RecvCopy(p, w) PROVE InCall(p)'
  BY <1>11 DEF RecvCopy, shared
<1>12. ASSUME RecvRelease(p) PROVE InCall(p)'
  <2>1. /\ pc'[p] = "idle" /\ call'[p] = "none" /\ idx'[p] = 0
        /\ start'[p] = IF call[p] = "recv_color_start" THEN (start[p] + 1) % Len(CBuf[p]) ELSE start[p]
    BY <1>12 DEF RecvRelease, Return, Advanced, ScanLen
  <2>2. call[p] = "recv_color_start" => Len(CBuf[p]) \in Nat \ {0}
    BY <1>12 DEF RecvRelease
  <2>3. call[p] = "recv_color_start" => (start[p] + 1) % Len(CBuf[p]) < Len(CBuf[p])
    BY <2>2, AdvancedIn
  <2> QED BY <2>1, <2>3
<1>13. ASSUME NEW r \in Procs, CallSendNoSync(p, r) PROVE InCall(p)'
  BY <1>13 DEF CallSendNoSync, ClaimLine, shared
<1> QED
  BY <1>1, <1>2, <1>3, <1>4, <1>5, <1>6, <1>7, <1>8, <1>9, <1>10, <1>11, <1>12, <1>13 DEF Called, Step

\* Synchronised, a process that copies a line out has the state byte still to copy.
LEMMA ProcStep ==
  ASSUME TypeOK, Synchronised, NEW p \in Procs, ProcOK(p), Called(p) \/ Step(p)
  PROVE  ProcOK(p)'
<1>1. InCall(p)'
  BY InCallStep DEF ProcOK
<1> DEFINE Kept == /\ call'[p] # "send_no_sync"
                   /\ pc'[p] = "copy" /\ call'[p] \in SendCalls => Flag \in todo'[p]
<1> USE MailboxAssumption DEF TypeOK, ProcOK, SendCalls, RecvCalls
<1>2. ASSUME NEW r \in Procs PROVE ~CallSendNoSync(p, r)
  BY DEF Synchronised, CallSendNoSync
<1>3. ASSUME Called(p) PROVE Kept
  BY <1>2, <1>3 DEF Called, CallSend, CallRecvFrom, CallRecv, CallBroadcast, Enter
<1>4. ASSUME SendTest(p) PROVE Kept
  BY <1>4 DEF SendTest, ClaimLine
<1>5. ASSUME NEW x \in Words \cup {Flag}, SendCopy(p, x) PROVE Kept
  BY <1>5 DEF SendCopy, Return, Synchronised
<1>6. ASSUME BroadcastNext(p) PROVE Kept
  BY <1>6 DEF BroadcastNext, Return
<1>7. ASSUME RecvFromTest(p) \/ ScanHit(p) PROVE Kept
  BY <1>7 DEF RecvFromTest, ScanHit, Scanning, TakeLine
<1>8. ASSUME ScanMiss(p) PROVE Kept
  BY <1>8 DEF ScanMiss
<1>9. ASSUME NEW w \in Words, RecvCopy(p, w) PROVE Kept
  BY <1>9 DEF RecvCopy
<1>10. ASSUME RecvRelease(p) PROVE Kept
  BY <1>10 DEF RecvRelease, Return
<1>11. Kept
  BY <1>3, <1>4, <1>5, <1>6, <1>7, <1>8, <1>9, <1>10 DEF Step
<1> QED BY <1>1, <1>11

(***************************************************************************)
(* Every line stays owned by one side.                                     *)
(***************************************************************************)
LEMMA ChanEnds ==
  ASSUME NEW c \in Chan
  PROVE  c[1] \in Procs /\ c[2] \in Procs /\ c[1] # c[2] /\ c = <<c[1], c[2]>>
BY DEF Chan

KeepsLine(c) == /\ state'[c] = state[c]
                /\ line'[c] = line[c]
                /\ sent'[c] = sent[c]
                /\ got'[c] = got[c]

\* A step of p keeps a line that p neither writes nor reads before or after it.
LEMMA Bystander ==
  ASSUME TypeOK, NEW p \in Procs, Called(p) \/ Step(p),
         NEW c \in Chan, ChanOK(c), KeepsLine(c),
         c[1] = p => ~Writing(c) /\ ~Writing(c)',
         c[2] = p => ~Reading(c) /\ ~Reading(c)'
  PROVE  ChanOK(c)'
<1>1. c[1] # p => KeepsPlace(c[1])
  BY ChanEnds, OthersKeepPlace
<1>2. c[2] # p => KeepsPlace(c[2])
  BY ChanEnds, OthersKeepPlace
<1>3. Writing(c)' <=> Writing(c)
  BY <1>1 DEF Writing, KeepsPlace
<1>4. Reading(c)' <=> Reading(c)
  BY <1>2 DEF Reading, KeepsPlace
<1>5. Writing(c) => todo'[c[1]] = todo[c[1]]
  BY <1>1 DEF KeepsPlace
<1>6. Reading(c) => todo'[c[2]] = todo[c[2]] /\ msg'[c[2]] = msg[c[2]]
  BY <1>2 DEF KeepsPlace
<1> QED
  BY <1>3, <1>4, <1>5, <1>6 DEF ChanOK, KeepsLine, Line

\* Steps outside memcpy and outside a claim touch no line.
LEMMA QuietStep ==
  ASSUME TypeOK, NEW p \in Procs, Called(p) \/ Step(p), pc[p] # "copy", pc'[p] # "copy",
         UNCHANGED <<state, line, sent, got>>, NEW c \in Chan, ChanOK(c)
  PROVE  ChanOK(c)'
BY Bystander DEF Writing, Reading, KeepsLine

LEMMA SendTestKeeps ==
  ASSUME TypeOK, NEW p \in Procs, ProcOK(p), SendTest(p), NEW c \in Chan, ChanOK(c)
  PROVE  ChanOK(c)'
<1> USE DEF SendTest, ClaimLine
<1>1. Called(p) \/ Step(p)
  BY DEF Step
<1>2. Out(p) \in Chan
  BY OutIsChan DEF ProcOK
<1>3. CASE c # Out(p)
  <2>1. KeepsLine(c)
    BY <1>2, <1>3 DEF KeepsLine, TypeOK
  <2>2. c[1] = p => ~Writing(c) /\ ~Writing(c)'
    BY <1>3, ChanEnds DEF Writing, Out
  <2>3. c[2] = p => ~Reading(c) /\ ~Reading(c)'
    BY ChanEnds DEF Reading, RecvCalls, TypeOK
  <2> QED BY <1>1, <2>1, <2>2, <2>3, Bystander
<1>4. CASE c = Out(p)
  <2>1. c[1] = p /\ c[2] # p /\ c[2] = peer[p]
    BY <1>4, ChanEnds DEF Out
  <2>2. ~Writing(c) /\ ~Reading(c) /\ state[c] = EMPTY
    BY <1>4, <2>1 DEF Writing, ChanOK, Claimed, EMPTY, MESSG, LOCKD
  <2>3. sent[c] = Len(got[c])
    BY <2>2 DEF ChanOK, EMPTY, MESSG
  <2>4. KeepsPlace(c[2])
    BY <1>1, <2>1, ChanEnds, OthersKeepPlace
  <2>5. ~Reading(c)'
    BY <2>2, <2>4 DEF Reading, KeepsPlace
  <2>6. Writing(c)' /\ todo'[c[1]] = Words \cup {Flag}
    BY <2>1 DEF Writing, SendCalls, TypeOK
  <2>7. state'[c] \in {EMPTY, LOCKD} /\ state'[c] # MESSG
    BY <1>2, <1>4 DEF TypeOK, Claimed, EMPTY, MESSG, LOCKD
  <2>8. sent'[c] = Len(got[c]) + 1 /\ got'[c] = got[c]
    BY <1>2, <1>4, <2>3 DEF TypeOK
  <2> QED BY <2>5, <2>6, <2>7, <2>8 DEF ChanOK
<1> QED BY <1>3, <1>4

LEMMA SendCopyKeeps ==
  ASSUME TypeOK, Synchronised, NEW p \in Procs, ProcOK(p), ProcOK(p)',
         NEW x \in Words \cup {Flag}, SendCopy(p, x), NEW c \in Chan, ChanOK(c)
  PROVE  ChanOK(c)'
<1> USE MailboxAssumption
<1>1. Called(p) \/ Step(p)
  BY DEF Step
<1>2. Out(p) \in Chan
  BY OutIsChan DEF SendCopy, ProcOK
<1>3. /\ pc[p] = "copy" /\ call[p] \in SendCalls
      /\ x \in todo[p] /\ (x = Flag => todo[p] = {Flag})
      /\ todo' = [todo EXCEPT ![p] = @ \ {x}]
      /\ UNCHANGED <<msg, sent, got>>
  BY DEF SendCopy, Synchronised
<1>4. /\ x = Flag => state' = [state EXCEPT ![Out(p)] = MESSG] /\ line' = line
      /\ x # Flag => line' = [line EXCEPT ![Out(p)][x] = sent[Out(p)]] /\ state' = state
  BY DEF SendCopy
<1>5. IF x = Flag
      THEN pc'[p] # "copy"
      ELSE pc'[p] = pc[p] /\ call'[p] = call[p] /\ peer'[p] = peer[p]
  <2>1. Flag \in todo[p]
    BY <1>3 DEF ProcOK, InCall
  <2>2. x = Flag => todo[p] = {x}
    BY <1>3
  <2>3. x # Flag => todo[p] # {x}
    BY <2>1
  <2>4. todo[p] = {x} => pc'[p] # "copy"
    BY DEF SendCopy, Return, TypeOK
  <2>5. todo[p] # {x} => pc' = pc /\ call' = call /\ peer' = peer
    BY DEF SendCopy
  <2> QED BY <2>2, <2>3, <2>4, <2>5
<1>6. SendCalls \cap RecvCalls = {}
  BY DEF SendCalls, RecvCalls
<1>7. CASE c # Out(p)
  <2>1. KeepsLine(c)
    BY <1>2, <1>3, <1>4, <1>7 DEF KeepsLine, TypeOK
  <2>2. c[1] = p => ~Writing(c) /\ ~Writing(c)'
    BY <1>5, <1>7, ChanEnds DEF Writing, Out
  <2>3. c[2] = p => ~Reading(c) /\ ~Reading(c)'
    BY <1>3, <1>5, <1>6 DEF Reading
  <2> QED BY <1>1, <2>1, <2>2, <2>3, Bystander
<1>8. CASE c = Out(p)
  <2>1. c[1] = p /\ c[2] # p /\ c[2] = peer[p]
    BY <1>8, ChanEnds DEF Out
  <2>2. Writing(c)
    BY <1>3, <2>1 DEF Writing
  <2>3. ~Reading(c)
    BY <2>2 DEF ChanOK
  <2>4. KeepsPlace(c[2])
    BY <1>1, <2>1, ChanEnds, OthersKeepPlace
  <2>5. ~Reading(c)'
    BY <2>3, <2>4 DEF Reading, KeepsPlace
  <2>6. sent'[c] = Len(got[c]) + 1 /\ sent'[c] = sent[c] /\ got'[c] = got[c]
    BY <1>3, <2>2 DEF ChanOK
  <2>7. state[c] \in {EMPTY, LOCKD} /\ state[c] # MESSG
    BY <2>2 DEF ChanOK, Claimed, EMPTY, MESSG, LOCKD
  <2>8. \A w \in Words \ todo[p] : line[c][w] = sent[c]
    BY <2>1, <2>2 DEF ChanOK
  <2>9. line[c] \in [Words -> Nat]
    BY DEF TypeOK
  <2>10. CASE x = Flag
    <3>1. ~Writing(c)'
      BY <1>5, <2>1, <2>10 DEF Writing
    <3>2. state'[c] = MESSG
      BY <1>2, <1>4, <1>8, <2>10 DEF TypeOK
    <3>3. line'[c] = Line(sent'[c])
      <4>1. todo[p] \cap Words = {}
        BY <1>3, <2>10
      <4>2. \A w \in Words : line[c][w] = sent[c]
        BY <2>8, <4>1
      <4> QED BY <1>4, <2>6, <2>9, <2>10, <4>2 DEF Line
    <3> QED BY <2>5, <2>6, <3>1, <3>2, <3>3 DEF ChanOK, Line
  <2>11. CASE x # Flag
    <3>1. Writing(c)'
      BY <1>5, <2>1, <2>2, <2>11 DEF Writing
    <3>2. state'[c] = state[c]
      BY <1>4, <2>11
    <3>3. x \in Words /\ line'[c] = [line[c] EXCEPT ![x] = sent[c]]
      BY <1>2, <1>4, <1>8, <2>11 DEF TypeOK
    <3>4. \A w \in Words \ todo'[c[1]] : line'[c][w] = sent'[c]
      <4>1. todo'[c[1]] = todo[p] \ {x}
        BY <1>3, <2>1 DEF TypeOK
      <4> QED BY <2>6, <2>8, <2>9, <3>3, <4>1
    <3> QED BY <2>5, <2>6, <2>7, <3>1, <3>2, <3>4 DEF ChanOK, Claimed, Line
  <2> QED BY <2>10, <2>11
<1> QED BY <1>7, <1>8

\* RecvFromTest and ScanHit alike.
LEMMA TakeLineKeeps ==
  ASSUME TypeOK, NEW p \in Procs, NEW q \in Procs, p # q, ProcOK(p), pc[p] = "test",
         call[p] \in RecvCalls, TakeLine(p, q), Called(p) \/ Step(p), NEW c \in Chan, ChanOK(c)
  PROVE  ChanOK(c)'
<1> DEFINE d == <<q, p>>
<1>1. d \in Chan
  BY DEF Chan
<1>2. /\ state[d] = MESSG
      /\ state' = [state EXCEPT ![d] = Claimed(MESSG, p, q)]
      /\ peer' = [peer EXCEPT ![p] = q]
      /\ pc' = [pc EXCEPT ![p] = "copy"]
      /\ todo' = [todo EXCEPT ![p] = Words]
      /\ UNCHANGED <<line, call, msg, sent, got>>
  BY DEF TakeLine
<1>3. SendCalls \cap RecvCalls = {}
  BY DEF SendCalls, RecvCalls
<1>4. CASE c # d
  <2>1. KeepsLine(c)
    BY <1>1, <1>2, <1>4 DEF KeepsLine, TypeOK
  <2>2. c[1] = p => ~Writing(c) /\ ~Writing(c)'
    BY <1>2, <1>3 DEF Writing
  <2>3. c[2] = p => ~Reading(c) /\ ~Reading(c)'
    BY <1>2, <1>4, ChanEnds DEF Reading, TypeOK
  <2> QED BY <2>1, <2>2, <2>3, Bystander
<1>5. CASE c = d
  <2>1. c[1] = q /\ c[2] = p
    BY <1>5
  <2>2. ~Writing(c)
    BY <1>2, <1>5 DEF ChanOK, Claimed, EMPTY, MESSG, LOCKD
  <2>3. KeepsPlace(q)
    BY OthersKeepPlace
  <2>4. ~Writing(c)'
    BY <2>1, <2>2, <2>3 DEF Writing, KeepsPlace
  <2>5. Reading(c)' /\ todo'[c[2]] = Words
    BY <1>2, <2>1 DEF Reading, TypeOK
  <2>6. state'[c] \in {MESSG, LOCKD}
    BY <1>1, <1>2, <1>5 DEF TypeOK, Claimed, MESSG, LOCKD
  <2>7. sent[c] = Len(got[c]) + 1 /\ line[c] = Line(sent[c])
    BY <1>2, <1>5 DEF ChanOK
  <2>8. sent'[c] = sent[c] /\ got'[c] = got[c] /\ line'[c] = line[c]
    BY <1>2
  <2> QED BY <2>4, <2>5, <2>6, <2>7, <2>8 DEF ChanOK, Line
<1> QED BY <1>4, <1>5

LEMMA RecvCopyKeeps ==
  ASSUME TypeOK, NEW p \in Procs, ProcOK(p), NEW w \in Words, RecvCopy(p, w),
         NEW c \in Chan, ChanOK(c)
  PROVE  ChanOK(c)'
<1>1. Called(p) \/ Step(p)
  BY DEF Step
<1>2. In(p) \in Chan
  BY OutIsChan DEF RecvCopy, ProcOK
<1>3. /\ pc[p] = "copy" /\ call[p] \in RecvCalls
      /\ msg' = [msg EXCEPT ![p][w] = line[In(p)][w]]
      /\ todo' = [todo EXCEPT ![p] = @ \ {w}]
      /\ UNCHANGED <<state, line, call, pc, peer, sent, got>>
  BY DEF RecvCopy, shared
<1>4. SendCalls \cap RecvCalls = {}
  BY DEF SendCalls, RecvCalls
<1>5. CASE c # In(p)
  <2>1. KeepsLine(c)
    BY <1>3 DEF KeepsLine
  <2>2. c[1] = p => ~Writing(c) /\ ~Writing(c)'
    BY <1>3, <1>4 DEF Writing
  <2>3. c[2] = p => ~Reading(c) /\ ~Reading(c)'
    BY <1>3, <1>5, ChanEnds DEF Reading, In
  <2> QED BY <1>1, <2>1, <2>2, <2>3, Bystander
<1>6. CASE c = In(p)
  <2>1. c[2] = p /\ c[1] # p /\ c[1] = peer[p]
    BY <1>6, ChanEnds DEF In
  <2>2. Reading(c) /\ Reading(c)'
    BY <1>3, <2>1 DEF Reading
  <2>3. ~Writing(c)
    BY <2>2 DEF ChanOK
  <2>4. KeepsPlace(c[1])
    BY <1>1, <2>1, ChanEnds, OthersKeepPlace
  <2>5. ~Writing(c)'
    BY <2>3, <2>4 DEF Writing, KeepsPlace
  <2>6. line[c] = Line(sent[c]) /\ \A v \in Words \ todo[p] : msg[p][v] = sent[c]
    BY <2>1, <2>2 DEF ChanOK
  <2>7. todo'[p] = todo[p] \ {w} /\ msg'[p] = [msg[p] EXCEPT ![w] = sent[c]]
    BY <1>3, <1>6, <2>6 DEF TypeOK, Line
  <2>8. \A v \in Words \ todo'[c[2]] : msg'[c[2]][v] = sent'[c]
    BY <1>3, <2>1, <2>6, <2>7 DEF TypeOK
  <2> QED BY <1>3, <2>2, <2>5, <2>8 DEF ChanOK, Line
<1> QED BY <1>5, <1>6

LEMMA RecvReleaseKeeps ==
  ASSUME TypeOK, NEW p \in Procs, ProcOK(p), RecvRelease(p), NEW c \in Chan, ChanOK(c)
  PROVE  ChanOK(c)'
<1>1. Called(p) \/ Step(p)
  BY DEF Step
<1>2. In(p) \in Chan
  BY OutIsChan DEF RecvRelease, ProcOK
<1>3. <<Reported(p), p>> = In(p)
  BY DEF RecvRelease, ProcOK, InCall, In
<1>4. /\ pc[p] = "copy" /\ call[p] \in RecvCalls /\ todo[p] = {}
      /\ state' = [state EXCEPT ![In(p)] = EMPTY]
      /\ got' = [got EXCEPT ![In(p)] = Append(@, msg[p])]
      /\ pc' = [pc EXCEPT ![p] = "idle"]
      /\ UNCHANGED <<line, sent>>
  BY <1>3 DEF RecvRelease, Return
<1>5. SendCalls \cap RecvCalls = {} /\ pc'[p] # "copy"
  BY <1>4 DEF SendCalls, RecvCalls, TypeOK
<1>6. CASE c # In(p)
  <2>1. KeepsLine(c)
    BY <1>2, <1>4, <1>6 DEF KeepsLine, TypeOK
  <2>2. c[1] = p => ~Writing(c) /\ ~Writing(c)'
    BY <1>4, <1>5 DEF Writing
  <2>3. c[2] = p => ~Reading(c) /\ ~Reading(c)'
    BY <1>5, <1>6, ChanEnds DEF Reading, In
  <2> QED BY <1>1, <2>1, <2>2, <2>3, Bystander
<1>7. CASE c = In(p)
  <2>1. c[2] = p /\ c[1] # p /\ c[1] = peer[p]
    BY <1>7, ChanEnds DEF In
  <2>2. Reading(c) /\ ~Reading(c)'
    BY <1>4, <1>5, <2>1 DEF Reading
  <2>3. ~Writing(c)
    BY <2>2 DEF ChanOK
  <2>4. KeepsPlace(c[1])
    BY <1>1, <2>1, ChanEnds, OthersKeepPlace
  <2>5. ~Writing(c)'
    BY <2>3, <2>4 DEF Writing, KeepsPlace
  <2>6. state'[c] = EMPTY /\ state'[c] # MESSG
    BY <1>2, <1>4, <1>7 DEF TypeOK, EMPTY, MESSG
  <2>7. sent[c] = Len(got[c]) + 1 /\ got[c] = [k \in 1 .. Len(got[c]) |-> Line(k)]
    BY <2>2 DEF ChanOK
  <2>8. msg[p] = Line(sent[c])
    <3>1. \A w \in Words : msg[p][w] = sent[c]
      BY <1>4, <2>1, <2>2 DEF ChanOK
    <3> QED BY <3>1 DEF Line, TypeOK
  <2>9. got'[c] = Append(got[c], Line(Len(got[c]) + 1))
    BY <1>2, <1>4, <1>7, <2>7, <2>8 DEF TypeOK
  <2>10. got[c] \in Seq([Words -> Nat]) /\ Line(Len(got[c]) + 1) \in [Words -> Nat]
    <3>1. Len(got[c]) \in Nat
      BY DEF TypeOK
    <3> QED BY <3>1 DEF TypeOK, Line
  <2>11. Len(got'[c]) = Len(got[c]) + 1
    BY <2>9, <2>10
  <2>12. got'[c] = [k \in 1 .. Len(got'[c]) |-> Line(k)]
    <3> DEFINE n == Len(got[c])
    <3>1. n \in Nat /\ DOMAIN got'[c] = 1 .. n + 1
      BY <2>9, <2>10
    <3>2. \A k \in 1 .. n + 1 : got'[c][k] = IF k = n + 1 THEN Line(n + 1) ELSE got[c][k]
      BY <2>9, <2>10
    <3>3. \A k \in 1 .. n : got[c][k] = Line(k)
      BY <2>7
    <3>4. \A k \in 1 .. n + 1 : got'[c][k] = Line(k)
      BY <3>1, <3>2, <3>3
    <3>5. got'[c] \in Seq([Words -> Nat])
      BY <2>9, <2>10
    <3> QED BY <2>11, <3>1, <3>4, <3>5
  <2> QED BY <1>4, <2>2, <2>5, <2>6, <2>7, <2>11, <2>12 DEF ChanOK, Line
<1> QED BY <1>6, <1>7

(***************************************************************************)
(* The invariant is inductive.                                             *)
(***************************************************************************)
LEMMA ChanNext ==
  ASSUME IInv, Synchronised, \A q \in Procs : ProcOK(q)', NEW p \in Procs, Called(p) \/ Step(p),
         NEW c \in Chan
  PROVE  ChanOK(c)'
<1> USE MailboxAssumption
<1>1. TypeOK /\ ProcOK(p) /\ ProcOK(p)' /\ ChanOK(c)
  BY DEF IInv
<1>2. ASSUME NEW q \in Procs, CallSend(p, q) \/ CallRecvFrom(p, q) PROVE ChanOK(c)'
  <2>1. pc[p] # "copy" /\ pc'[p] # "copy" /\ UNCHANGED <<state, line, sent, got>>
    BY <1>1, <1>2 DEF CallSend, CallRecvFrom, Enter, shared, TypeOK
  <2> QED BY <1>1, <2>1, QuietStep
<1>3. ASSUME NEW f \in RecvCalls, CallRecv(p, f) PROVE ChanOK(c)'
  <2>1. pc[p] # "copy" /\ pc'[p] # "copy" /\ UNCHANGED <<state, line, sent, got>>
    BY <1>1, <1>3 DEF CallRecv, Enter, shared, TypeOK
  <2> QED BY <1>1, <2>1, QuietStep
<1>4. ASSUME CallBroadcast(p) PROVE ChanOK(c)'
  <2>1. pc[p] # "copy" /\ pc'[p] # "copy" /\ UNCHANGED <<state, line, sent, got>>
    BY <1>1, <1>4 DEF CallBroadcast, Enter, shared, TypeOK
  <2> QED BY <1>1, <2>1, QuietStep
<1>5. ASSUME BroadcastNext(p) PROVE ChanOK(c)'
  <2>1. pc[p] # "copy" /\ pc'[p] # "copy" /\ UNCHANGED <<state, line, sent, got>>
    BY <1>1, <1>5 DEF BroadcastNext, Return, shared, TypeOK
  <2> QED BY <1>1, <2>1, QuietStep
<1>6. ASSUME ScanMiss(p) PROVE ChanOK(c)'
  <2>1. pc[p] # "copy" /\ pc'[p] # "copy" /\ UNCHANGED <<state, line, sent, got>>
    BY <1>1, <1>6 DEF ScanMiss, Scanning, shared, TypeOK
  <2> QED BY <1>1, <2>1, QuietStep
<1>7. ASSUME NEW q \in Procs PROVE ~CallSendNoSync(p, q)
  BY DEF Synchronised, CallSendNoSync
<1>8. ASSUME SendTest(p) PROVE ChanOK(c)'
  BY <1>1, <1>8, SendTestKeeps
<1>9. ASSUME NEW x \in Words \cup {Flag}, SendCopy(p, x) PROVE ChanOK(c)'
  BY <1>1, <1>9, SendCopyKeeps
<1>10. ASSUME RecvFromTest(p) PROVE ChanOK(c)'
  <2>1. /\ pc[p] = "test" /\ call[p] \in RecvCalls /\ TakeLine(p, peer[p])
        /\ peer[p] \in Procs /\ peer[p] # p
    BY <1>1, <1>10 DEF RecvFromTest, RecvCalls, ProcOK, InCall, TypeOK
  <2> QED BY <1>1, <2>1, TakeLineKeeps
<1>11. ASSUME ScanHit(p) PROVE ChanOK(c)'
  <2>1. ScanCore(p) \in Procs /\ ScanCore(p) # p
    BY <1>1, <1>11, ScanCoreType DEF ScanHit, ProcOK
  <2>2. pc[p] = "test" /\ call[p] \in RecvCalls /\ TakeLine(p, ScanCore(p))
    BY <1>11 DEF ScanHit, Scanning
  <2> QED BY <1>1, <2>1, <2>2, TakeLineKeeps
<1>12. ASSUME NEW w \in Words, RecvCopy(p, w) PROVE ChanOK(c)'
  BY <1>1, <1>12, RecvCopyKeeps
<1>13. ASSUME RecvRelease(p) PROVE ChanOK(c)'
  BY <1>1, <1>13, RecvReleaseKeeps
<1> QED
  BY <1>2, <1>3, <1>4, <1>5, <1>6, <1>7, <1>8, <1>9, <1>10, <1>11, <1>12, <1>13 DEF Called, Step

LEMMA Inductive ==
  ASSUME IInv, Synchronised, [Next]_vars
  PROVE  IInv'
<1>1. TypeOK /\ (\A p \in Procs : ProcOK(p)) /\ (\A c \in Chan : ChanOK(c))
  BY DEF IInv
<1>2. TypeOK'
  BY <1>1, TypeNext DEF ProcOK
<1>3. CASE UNCHANGED vars
  <2>1. /\ call' = call /\ pc' = pc /\ peer' = peer /\ idx' = idx /\ start' = start
        /\ msg' = msg /\ todo' = todo /\ state' = state /\ line' = line /\ sent' = sent /\ got' = got
    BY <1>3 DEF vars, shared, local
  <2>2. ASSUME NEW p \in Procs PROVE ProcOK(p)'
    <3>1. KeepsPlace(p)
      BY <2>1 DEF KeepsPlace
    <3>2. ProcOK(p)
      BY <1>1
    <3> QED BY <3>1, <3>2, ProcFrame
  <2>3. ASSUME NEW c \in Chan PROVE ChanOK(c)'
    <3>1. ChanOK(c) /\ (Writing(c)' <=> Writing(c)) /\ (Reading(c)' <=> Reading(c))
      BY <1>1, <2>1 DEF Writing, Reading
    <3> QED BY <2>1, <3>1 DEF ChanOK, Line
  <2> QED BY <1>2, <2>2, <2>3 DEF IInv
<1>4. ASSUME NEW p \in Procs, Called(p) \/ Step(p) PROVE IInv'
  <2>1. ASSUME NEW q \in Procs PROVE ProcOK(q)'
    <3>1. CASE q = p
      BY <1>1, <1>4, <3>1, ProcStep
    <3>2. CASE q # p
      BY <1>1, <1>4, <3>2, OthersKeepPlace, ProcFrame
    <3> QED BY <3>1, <3>2
  <2>2. ASSUME NEW c \in Chan PROVE ChanOK(c)'
    BY <1>4, <2>1, ChanNext
  <2> QED BY <1>2, <2>1, <2>2 DEF IInv
<1> QED BY <1>3, <1>4 DEF Next

\* The inductive invariant of the mailboxes holds of every behaviour.
THEOREM InvariantHolds == Synchronised => (Spec => []IInv)
<1> SUFFICES ASSUME Synchronised PROVE Spec => []IInv
  OBVIOUS
<1>1. Init => IInv
  BY InitInv
<1>2. IInv /\ [Next]_vars => IInv'
  BY Inductive
<1> QED BY <1>1, <1>2, PTL DEF Spec

\* Type correctness of the mailboxes, for every instance with synchronised sends.
THEOREM TypeCorrect == Synchronised => (Spec => []TypeOK)
<1>1. IInv => TypeOK
  BY DEF IInv
<1> QED BY <1>1, InvariantHolds, PTL

\* Every receive returns the sender's next message, whole: nothing is torn,
\* repeated, reordered or credited to the wrong sender.
THEOREM DeliversExactlyOnce == Synchronised => (Spec => []ExactlyOnce)
<1>1. IInv => ExactlyOnce
  BY DEF IInv, ChanOK, ExactlyOnce
<1> QED BY <1>1, InvariantHolds, PTL

\* Every message handed over is on its way or has been received.
THEOREM LosesNothing == Synchronised => (Spec => []NothingLost)
<1>1. IInv => NothingLost
  BY DEF IInv, ChanOK, NothingLost
<1> QED BY <1>1, InvariantHolds, PTL

\* The two sides of a line are never in memcpy on it together.
THEOREM NeverOverlaps == Synchronised => (Spec => []NoOverlap)
<1>1. IInv => NoOverlap
  BY DEF IInv, ChanOK, NoOverlap
<1> QED BY <1>1, InvariantHolds, PTL

(***************************************************************************)
(* The mailboxes implement the abstract channels: claiming an empty line   *)
(* accepts a message, emptying a line delivers it, the rest is invisible.  *)
(***************************************************************************)
LEMMA PromisedStep ==
  ASSUME IInv, Synchronised, [Next]_vars
  PROVE  [Promised!Next]_<<sent, got>>
<1> USE MailboxAssumption
<1>1. TypeOK /\ (\A p \in Procs : ProcOK(p)) /\ (\A c \in Chan : ChanOK(c))
  BY DEF IInv
<1>2. CASE UNCHANGED vars
  BY <1>2 DEF vars
<1>3. ASSUME NEW p \in Procs, SendTest(p) PROVE Promised!Next
  <2>1. Out(p) \in Chan
    BY <1>1, <1>3, OutIsChan DEF SendTest, ProcOK
  <2>2. state[Out(p)] = EMPTY /\ sent' = [sent EXCEPT ![Out(p)] = @ + 1] /\ got' = got /\ pc[p] = "test"
    BY <1>3 DEF SendTest, ClaimLine
  <2>3. ~Writing(Out(p)) /\ ~Reading(Out(p))
    BY <1>1, <2>1, <2>2 DEF Writing, Out, ChanOK, Claimed, EMPTY, MESSG, LOCKD
  <2>4. sent[Out(p)] = Len(got[Out(p)])
    BY <1>1, <2>1, <2>2, <2>3 DEF ChanOK, EMPTY, MESSG
  <2>5. Promised!Accept(Out(p))
    BY <2>2, <2>4 DEF Promised!Accept
  <2> QED BY <2>1, <2>5 DEF Promised!Next
<1>4. ASSUME NEW p \in Procs, RecvRelease(p) PROVE Promised!Next
  <2>1. In(p) \in Chan
    BY <1>1, <1>4, OutIsChan DEF RecvRelease, ProcOK
  <2>2. <<Reported(p), p>> = In(p) /\ pc[p] = "copy" /\ call[p] \in RecvCalls /\ todo[p] = {}
    BY <1>1, <1>4 DEF RecvRelease, ProcOK, InCall, In
  <2>3. got' = [got EXCEPT ![In(p)] = Append(@, msg[p])] /\ sent' = sent
    BY <1>4, <2>2 DEF RecvRelease
  <2>4. Reading(In(p))
    BY <2>2 DEF Reading, In
  <2>5. sent[In(p)] = Len(got[In(p)]) + 1 /\ \A w \in Words : msg[p][w] = sent[In(p)]
    BY <1>1, <2>1, <2>2, <2>4 DEF ChanOK, In
  <2>6. msg[p] = Promised!Line(sent[In(p)])
    BY <1>1, <2>5 DEF Promised!Line, TypeOK
  <2>7. Len(got[In(p)]) < sent[In(p)]
    <3>1. Len(got[In(p)]) \in Nat
      BY <1>1, <2>1 DEF TypeOK
    <3> QED BY <2>5, <3>1
  <2>8. Promised!Deliver(In(p))
    BY <2>3, <2>6, <2>7 DEF Promised!Deliver
  <2> QED BY <2>1, <2>8 DEF Promised!Next
<1>5. ASSUME NEW p \in Procs, Called(p) \/ Step(p), ~SendTest(p), ~RecvRelease(p)
      PROVE  UNCHANGED <<sent, got>>
  <2>1. ASSUME NEW q \in Procs PROVE ~CallSendNoSync(p, q)
    BY DEF Synchronised, CallSendNoSync
  <2> QED BY <1>5, <2>1 DEF Called, Step, CallSend, CallRecvFrom, CallRecv, CallBroadcast, SendCopy,
        BroadcastNext, RecvFromTest, ScanHit, TakeLine, ScanMiss, RecvCopy
<1> QED BY <1>2, <1>3, <1>4, <1>5 DEF Next

\* The generic mailboxes implement one-message channels that deliver every
\* message exactly once, whole and in order.
THEOREM ImplementsChannels == Synchronised => (Spec => PromisedSpec)
<1> SUFFICES ASSUME Synchronised PROVE Spec => PromisedSpec
  OBVIOUS
<1>1. Init => Promised!Init
  BY DEF Init, Promised!Init
<1>2. IInv /\ [Next]_vars => [Promised!Next]_<<sent, got>>
  BY PromisedStep
<1> QED BY <1>1, <1>2, InvariantHolds, PTL DEF Spec, PromisedSpec, Promised!Spec

(***************************************************************************)
(* Fairness of ssmp_recv_color_start: the distance from the scan to a      *)
(* waiting message's sender, counted around the color buffer, shrinks.     *)
(***************************************************************************)
LEMMA AroundOnce ==
  ASSUME NEW L \in Nat \ {0}, NEW x \in Int
  PROVE  /\ x \in 0 .. L - 1 => x % L = x
         /\ x \in -L .. -1 => x % L = x + L
         /\ x = L => x % L = 0
  OBVIOUS

\* A step forward from anywhere but the goal brings the goal nearer.
LEMMA StepForward ==
  ASSUME NEW L \in Nat \ {0}, NEW from \in 0 .. L - 1, NEW goal \in 0 .. L - 1, from # goal
  PROVE  (goal - ((from + 1) % L)) % L < (goal - from) % L
<1>1. (goal - from) % L = IF goal > from THEN goal - from ELSE goal - from + L
  <2>1. CASE goal > from
    BY <2>1, AroundOnce
  <2>2. CASE goal < from
    BY <2>2, AroundOnce
  <2> QED BY <2>1, <2>2
<1>2. CASE from + 1 < L
  <2>1. (from + 1) % L = from + 1
    BY <1>2, AroundOnce
  <2>2. (goal - (from + 1)) % L = IF goal > from THEN goal - (from + 1) ELSE goal - (from + 1) + L
    <3>1. CASE goal > from
      BY <3>1, AroundOnce
    <3>2. CASE goal < from
      BY <3>2, AroundOnce
    <3> QED BY <3>1, <3>2
  <2> QED BY <1>1, <2>1, <2>2
<1>3. CASE from + 1 = L
  <2>1. (from + 1) % L = 0
    BY <1>3, AroundOnce
  <2>2. (goal - 0) % L = goal
    BY AroundOnce
  <2> QED BY <1>1, <1>3, <2>1, <2>2
<1> QED BY <1>2, <1>3

\* Where the scan and the goal are, and how far apart.
LEMMA AheadIs ==
  ASSUME NEW c \in Chan, \E k \in DOMAIN CBuf[c[2]] : CBuf[c[2]][k] = c[1]
  PROVE  \E goal \in 0 .. Len(CBuf[c[2]]) - 1 :
           /\ CBuf[c[2]][goal + 1] = c[1]
           /\ Ahead(c) = (goal - start[c[2]]) % Len(CBuf[c[2]])
           /\ Ahead(c)' = (goal - start'[c[2]]) % Len(CBuf[c[2]])
<1> DEFINE pos == CHOOSE k \in DOMAIN CBuf[c[2]] : CBuf[c[2]][k] = c[1]
<1>1. pos \in DOMAIN CBuf[c[2]] /\ CBuf[c[2]][pos] = c[1]
  OBVIOUS
<1>2. CBuf[c[2]] \in Seq(Procs)
  BY MailboxAssumption DEF Chan
<1>3. pos \in 1 .. Len(CBuf[c[2]])
  BY <1>1, <1>2
<1>4. Ahead(c) = (pos - 1 - start[c[2]]) % Len(CBuf[c[2]])
  BY DEF Ahead
<1>5. Ahead(c)' = (pos - 1 - start'[c[2]]) % Len(CBuf[c[2]])
  BY DEF Ahead
<1> HIDE DEF pos
<1>6. pos - 1 \in 0 .. Len(CBuf[c[2]]) - 1 /\ (pos - 1) + 1 = pos
  BY <1>2, <1>3
<1> QED BY <1>1, <1>4, <1>5, <1>6

\* A step that leaves a process's scan where it is does not serve a fair scan.
LEMMA ScanRests ==
  ASSUME IInv, NEW p \in Procs, NEW q \in Procs, Called(q) \/ Step(q),
         ~(q = p /\ call[p] = "recv_color_start" /\ (ScanMiss(p) \/ RecvRelease(p)))
  PROVE  start'[p] = start[p] /\ ~Served(p)
<1> USE MailboxAssumption
<1>1. TypeOK /\ ProcOK(p)
  BY DEF IInv
<1>2. CASE q # p
  <2>1. KeepsPlace(p)
    BY <1>1, <1>2, OthersKeepPlace
  <2> QED BY <1>1, <2>1 DEF KeepsPlace, Served, ProcOK, InCall
<1>3. CASE q = p /\ (ScanMiss(p) \/ RecvRelease(p)) /\ call[p] # "recv_color_start"
  BY <1>1, <1>3 DEF ScanMiss, RecvRelease, Served
<1>4. CASE q = p /\ Called(p)
  BY <1>1, <1>4 DEF TypeOK, ProcOK, InCall, Served, Called, CallSend, CallSendNoSync, CallRecvFrom,
        CallRecv, CallBroadcast, Enter, ClaimLine
<1>5. CASE q = p /\ Step(p) /\ ~ScanMiss(p) /\ ~RecvRelease(p)
  BY <1>1, <1>5 DEF TypeOK, ProcOK, InCall, Served, Step, SendTest, ClaimLine, SendCopy, BroadcastNext,
        RecvFromTest, ScanHit, Scanning, TakeLine, RecvCopy, SendCalls, Return
<1> QED BY <1>2, <1>3, <1>4, <1>5

\* A step that moves the scan moves it one position, and not away from a
\* message that waits before and after the step.
LEMMA ScanMoves ==
  ASSUME IInv, NEW p \in Procs, call[p] = "recv_color_start", ScanMiss(p) \/ RecvRelease(p)
  PROVE  /\ Len(CBuf[p]) \in Nat \ {0}
         /\ start[p] \in 0 .. Len(CBuf[p]) - 1
         /\ start'[p] = (start[p] + 1) % Len(CBuf[p])
         /\ LET c == <<CBuf[p][start[p] + 1], p>>
            IN  c \in Chan /\ ~(state[c] = MESSG /\ state'[c] = MESSG)
<1> USE MailboxAssumption
<1>1. TypeOK /\ ProcOK(p) /\ CBuf[p] \in Seq(Procs)
  BY DEF IInv
<1>2. Len(CBuf[p]) \in Nat \ {0}
  BY <1>1 DEF ScanMiss, Scanning, ScanLen, RecvRelease, ProcOK, InCall
<1>3. start[p] \in 0 .. Len(CBuf[p]) - 1
  BY <1>1, <1>2 DEF TypeOK, ProcOK, InCall
<1>4. start'[p] = (start[p] + 1) % Len(CBuf[p])
  BY <1>1 DEF ScanMiss, RecvRelease, Advanced, ScanLen, TypeOK
<1>5. start[p] + 1 \in DOMAIN CBuf[p]
  BY <1>1, <1>3
<1>6. CBuf[p][start[p] + 1] \in Procs /\ CBuf[p][start[p] + 1] # p
  BY <1>1, <1>5
<1>7. <<CBuf[p][start[p] + 1], p>> \in Chan
  BY <1>6 DEF Chan
<1>8. ScanCore(p) = CBuf[p][start[p] + 1]
  BY DEF ScanCore, ScanPos
<1> DEFINE Waits == LET c == <<CBuf[p][start[p] + 1], p>> IN state[c] = MESSG /\ state'[c] = MESSG
<1>9. ASSUME ScanMiss(p) PROVE ~Waits
  BY <1>6, <1>8, <1>9 DEF ScanMiss
<1>10. ASSUME RecvRelease(p) PROVE ~Waits
  <2>1. In(p) = <<CBuf[p][start[p] + 1], p>>
    BY <1>1, <1>8, <1>10 DEF RecvRelease, ProcOK, InCall, Reported, In
  <2>2. state'[In(p)] = EMPTY
    BY <1>1, <1>7, <1>10, <2>1 DEF RecvRelease, TypeOK
  <2> QED BY <2>1, <2>2 DEF EMPTY, MESSG
<1> QED BY <1>2, <1>3, <1>4, <1>7, <1>9, <1>10

\* While a message waits, the fair scan never turns away from it.
LEMMA FairStep ==
  ASSUME IInv, [Next]_vars, NEW c \in Chan, state[c] = MESSG, state'[c] = MESSG,
         \E k \in DOMAIN CBuf[c[2]] : CBuf[c[2]][k] = c[1]
  PROVE  Ahead(c)' <= Ahead(c) /\ (Served(c[2]) => Ahead(c)' < Ahead(c))
<1> DEFINE p == c[2]
           L == Len(CBuf[p])
<1>1. p \in Procs /\ c = <<c[1], p>> /\ CBuf[p] \in Seq(Procs)
  BY ChanEnds, MailboxAssumption
<1>2. PICK goal \in 0 .. L - 1 : /\ CBuf[p][goal + 1] = c[1]
                                 /\ Ahead(c) = (goal - start[p]) % L
                                 /\ Ahead(c)' = (goal - start'[p]) % L
  BY AheadIs
<1>3. L \in Nat \ {0} /\ start[p] \in Nat
  BY <1>1, <1>2 DEF IInv, TypeOK
<1>4. ASSUME start'[p] = start[p], ~Served(p) PROVE Ahead(c)' <= Ahead(c) /\ ~Served(p)
  <2>1. (goal - start[p]) % L \in Int
    BY <1>3
  <2> QED BY <1>2, <1>4, <2>1
<1>5. CASE UNCHANGED vars
  <2>1. start' = start /\ ~Served(p)
    BY <1>1, <1>5 DEF vars, local, Served, IInv, ProcOK, InCall
  <2> QED BY <1>4, <2>1
<1>6. ASSUME NEW q \in Procs, Called(q) \/ Step(q)
      PROVE  Ahead(c)' <= Ahead(c) /\ (Served(p) => Ahead(c)' < Ahead(c))
  <2>1. CASE ~(q = p /\ call[p] = "recv_color_start" /\ (ScanMiss(p) \/ RecvRelease(p)))
    <3>1. start'[p] = start[p] /\ ~Served(p)
      BY <1>1, <1>6, <2>1, ScanRests
    <3> QED BY <1>4, <3>1
  <2>2. CASE call[p] = "recv_color_start" /\ (ScanMiss(p) \/ RecvRelease(p))
    <3>1. /\ start[p] \in 0 .. L - 1
          /\ start'[p] = (start[p] + 1) % L
          /\ ~(LET d == <<CBuf[p][start[p] + 1], p>> IN state[d] = MESSG /\ state'[d] = MESSG)
      BY <1>1, <2>2, ScanMoves
    <3>2. start[p] # goal
      BY <1>1, <1>2, <3>1
    <3>3. (goal - ((start[p] + 1) % L)) % L < (goal - start[p]) % L
      BY <1>3, <3>1, <3>2, StepForward
    <3>4. Ahead(c)' < Ahead(c) /\ Ahead(c) \in Int /\ Ahead(c)' \in Int
      <4>1. (goal - start[p]) % L \in Int /\ start'[p] \in Int
        BY <1>3, <3>1
      <4>2. (goal - start'[p]) % L \in Int
        BY <1>3, <4>1
      <4> QED BY <1>2, <3>1, <3>3, <4>1, <4>2
    <3> QED BY <3>4
  <2> QED BY <2>1, <2>2
<1> QED BY <1>5, <1>6 DEF Next

\* A receiver that polls with ssmp_recv_color_start lets each other sender
\* overtake a waiting message at most once, for every color buffer.
THEOREM ScansFairly == Synchronised => (Spec => FairScan)
<1> SUFFICES ASSUME Synchronised PROVE Spec => FairScan
  OBVIOUS
<1>1. ASSUME IInv, [Next]_vars, NEW c \in Used, state[c] = MESSG, state'[c] = MESSG,
             \E k \in DOMAIN CBuf[c[2]] : CBuf[c[2]][k] = c[1]
      PROVE  Ahead(c)' <= Ahead(c) /\ (Served(c[2]) => Ahead(c)' < Ahead(c))
  <2>1. c \in Chan
    BY DEF Used
  <2> QED BY <1>1, <2>1, FairStep
<1>2. IInv /\ [Next]_vars =>
        [\A c \in Used :
           (state[c] = MESSG /\ state'[c] = MESSG /\ \E k \in DOMAIN CBuf[c[2]] : CBuf[c[2]][k] = c[1])
           => Ahead(c)' <= Ahead(c) /\ (Served(c[2]) => Ahead(c)' < Ahead(c))]_vars
  BY <1>1
<1> QED BY <1>2, InvariantHolds, PTL DEF Spec, FairScan

(***************************************************************************)
(* Without synchronisation: the words of a line only grow, and so do those *)
(* a receiver gets, whatever memcpy's order and whoever overwrites whom.   *)
(***************************************************************************)

\* Every step leaves each word of a line as it is or makes it the last message's.
LEMMA LineGrows ==
  ASSUME TypeOK, TypeOK', \A q \in Procs : InCall(q), NEW p \in Procs, Called(p) \/ Step(p),
         NEW c \in Chan, NEW w \in Words, line[c][w] <= sent[c]
  PROVE  line[c][w] <= line'[c][w] /\ line'[c][w] <= sent'[c]
<1>1. /\ line[c][w] \in Nat /\ sent[c] \in Nat /\ sent'[c] \in Nat
      /\ line \in [Chan -> [Words -> Nat]] /\ sent \in [Chan -> Nat] /\ state \in [Chan -> BufStates]
  BY DEF TypeOK
<1>2. ASSUME line'[c] = line[c], sent'[c] = sent[c] \/ sent'[c] = sent[c] + 1
      PROVE  line[c][w] <= line'[c][w] /\ line'[c][w] <= sent'[c]
  BY <1>1, <1>2
<1>3. ASSUME NEW x \in Words \cup {Flag}, SendCopy(p, x)
      PROVE  line[c][w] <= line'[c][w] /\ line'[c][w] <= sent'[c]
  <2>1. Out(p) \in Chan
    BY <1>3, OutIsChan DEF SendCopy
  <2>2. sent' = sent /\ (line' = line \/ line' = [line EXCEPT ![Out(p)][x] = sent[Out(p)]])
    BY <1>3 DEF SendCopy
  <2>3. line'[c][w] = line[c][w] \/ line'[c][w] = sent[c]
    BY <1>1, <2>1, <2>2
  <2> QED BY <1>1, <2>2, <2>3
<1>4. ASSUME NEW d \in Chan, ClaimLine(p, d), line' = line
      PROVE  line[c][w] <= line'[c][w] /\ line'[c][w] <= sent'[c]
  <2>1. sent'[c] = sent[c] \/ sent'[c] = sent[c] + 1
    BY <1>1, <1>4 DEF ClaimLine
  <2> QED BY <1>2, <1>4, <2>1
<1>5. ASSUME SendTest(p) PROVE line[c][w] <= line'[c][w] /\ line'[c][w] <= sent'[c]
  <2>1. Out(p) \in Chan
    BY <1>5, OutIsChan DEF SendTest
  <2> QED BY <1>4, <1>5, <2>1 DEF SendTest
<1>6. ASSUME NEW q \in Procs, CallSendNoSync(p, q)
      PROVE  line[c][w] <= line'[c][w] /\ line'[c][w] <= sent'[c]
  <2>1. <<p, q>> \in Chan
    BY <1>6 DEF CallSendNoSync, Chan
  <2> QED BY <1>4, <1>6, <2>1 DEF CallSendNoSync, shared
<1>7. CASE line' = line /\ sent' = sent
  BY <1>2, <1>7
<1> QED BY <1>3, <1>5, <1>6, <1>7 DEF Called, Step, CallSend, CallRecvFrom, CallRecv, CallBroadcast,
          BroadcastNext, RecvFromTest, ScanHit, TakeLine, ScanMiss, RecvCopy, RecvRelease, shared

\* What a reader has copied so far, a step that copies nothing for it leaves alone.
LEMMA ReaderKept ==
  ASSUME TypeOK, TypeOK', \A q \in Procs : InCall(q), NEW p \in Procs, Called(p) \/ Step(p),
         NEW c \in Chan, \A w \in Words : ~(c[2] = p /\ RecvCopy(p, w)), Reading(c)',
         NEW w \in Words \ todo'[c[2]]
  PROVE  Reading(c) /\ w \notin todo[c[2]] /\ msg'[c[2]] = msg[c[2]]
<1>1. CASE c[2] # p
  <2>1. KeepsPlace(c[2])
    BY <1>1, ChanEnds, OthersKeepPlace
  <2> QED BY <2>1 DEF KeepsPlace, Reading
<1>2. CASE c[2] = p
  <2>1. pc'[p] = "copy" /\ call'[p] \in RecvCalls /\ w \notin todo'[p]
    BY <1>2 DEF Reading
  <2>2. SendCalls \cap RecvCalls = {}
    BY DEF SendCalls, RecvCalls
  <2>3. ~Called(p)
    BY <2>1, <2>2 DEF Called, CallSend, CallSendNoSync, ClaimLine, CallRecvFrom, CallRecv, CallBroadcast,
          Enter, TypeOK, SendCalls
  <2>4. ~SendTest(p)
    BY <2>1 DEF SendTest, TypeOK, RecvCalls
  <2>5. ASSUME NEW x \in Words \cup {Flag} PROVE ~SendCopy(p, x)
    BY <2>1, <2>2 DEF SendCopy, Return, TypeOK
  <2>6. ~BroadcastNext(p) /\ ~RecvRelease(p)
    BY <2>1 DEF BroadcastNext, RecvRelease, Return, TypeOK
  <2>7. ~RecvFromTest(p) /\ ~ScanHit(p)
    BY <2>1 DEF RecvFromTest, ScanHit, TakeLine, TypeOK
  <2>8. ~ScanMiss(p)
    BY <2>1 DEF ScanMiss, Scanning, TypeOK
  <2> QED BY <1>2, <2>3, <2>4, <2>5, <2>6, <2>7, <2>8 DEF Step
<1> QED BY <1>1, <1>2

\* A step that delivers nothing on a channel, and copies nothing out of it.
LEMMA ForwardFrame ==
  ASSUME TypeOK, TypeOK', \A q \in Procs : InCall(q), NEW p \in Procs, Called(p) \/ Step(p),
         NEW c \in Chan, Forward(c), got'[c] = got[c], \A w \in Words : ~(c[2] = p /\ RecvCopy(p, w))
  PROVE  Forward(c)'
<1>1. ASSUME NEW w \in Words
      PROVE  /\ line[c][w] <= line'[c][w] /\ line'[c][w] <= sent'[c]
             /\ line[c][w] \in Nat /\ line'[c][w] \in Nat
  BY LineGrows DEF Forward, TypeOK
<1>2. ASSUME NEW k \in DOMAIN got[c], NEW w \in Words PROVE got[c][k][w] \in Nat
  BY DEF TypeOK
<1>3. ASSUME NEW k \in DOMAIN got'[c], NEW w \in Words
      PROVE  got'[c][k][w] <= line'[c][w] /\ (k > 1 => got'[c][k - 1][w] <= got'[c][k][w])
  <2>1. got[c][k][w] <= line[c][w] /\ (k > 1 => got[c][k - 1][w] <= got[c][k][w])
    BY DEF Forward
  <2> QED BY <1>1, <1>2, <2>1
<1>4. ASSUME Reading(c)', NEW w \in Words \ todo'[c[2]]
      PROVE  msg'[c[2]][w] <= line'[c][w] /\ \A k \in DOMAIN got'[c] : got'[c][k][w] <= msg'[c[2]][w]
  <2>1. Reading(c) /\ w \notin todo[c[2]] /\ msg'[c[2]] = msg[c[2]]
    BY <1>4, ReaderKept
  <2>2. msg[c[2]][w] <= line[c][w] /\ \A k \in DOMAIN got[c] : got[c][k][w] <= msg[c[2]][w]
    BY <2>1 DEF Forward
  <2>3. msg[c[2]][w] \in Nat
    BY ChanEnds DEF TypeOK
  <2> QED BY <1>1, <2>1, <2>2, <2>3
<1> QED BY <1>1, <1>3, <1>4 DEF Forward

\* The word a reader copies is at least what it got before.
LEMMA RecvCopyForward ==
  ASSUME TypeOK, TypeOK', NEW p \in Procs, InCall(p), NEW w \in Words, RecvCopy(p, w), Forward(In(p)),
         NEW c \in Chan, c = In(p)
  PROVE  Forward(c)'
<1>1. Forward(c)
  OBVIOUS
<1>2. /\ c[2] = p /\ Reading(c)
      /\ UNCHANGED <<line, sent, got>>
      /\ todo'[p] = todo[p] \ {w}
      /\ msg'[p] = [msg[p] EXCEPT ![w] = line[c][w]]
  BY DEF RecvCopy, shared, Reading, In, TypeOK
<1>3. msg[p] \in [Words -> Nat] /\ line[c] \in [Words -> Nat]
  BY DEF TypeOK
<1>4. ASSUME NEW v \in Words \ todo'[p]
      PROVE  msg'[p][v] <= line[c][v] /\ \A k \in DOMAIN got[c] : got[c][k][v] <= msg'[p][v]
  <2>1. CASE v = w
    <3>1. msg'[p][v] = line[c][v] /\ line[c][v] \in Nat
      BY <1>2, <1>3, <2>1
    <3> QED BY <1>1, <1>2, <3>1 DEF Forward
  <2>2. CASE v # w
    <3>1. msg'[p][v] = msg[p][v] /\ v \in Words \ todo[p]
      BY <1>2, <1>3, <2>2
    <3> QED BY <1>1, <1>2, <3>1 DEF Forward
  <2> QED BY <2>1, <2>2
<1> QED BY <1>1, <1>2, <1>4 DEF Forward

\* The message a reader returns is at least the one it returned before.
LEMMA ReleaseForward ==
  ASSUME TypeOK, TypeOK', NEW p \in Procs, InCall(p), RecvRelease(p), Forward(In(p)), NEW c \in Chan, c = In(p)
  PROVE  Forward(c)'
<1>1. /\ c[2] = p /\ Reading(c) /\ todo[p] = {} /\ <<Reported(p), p>> = c /\ Forward(c)
      /\ line' = line /\ sent' = sent
  BY DEF RecvRelease, Reading, In, InCall
<1>2. ~Reading(c)'
  BY <1>1 DEF RecvRelease, Return, Reading, TypeOK
<1>3. got'[c] = Append(got[c], msg[p])
  BY <1>1 DEF RecvRelease, TypeOK
<1>4. got[c] \in Seq([Words -> Nat]) /\ msg[p] \in [Words -> Nat]
  BY DEF TypeOK
<1>5. ASSUME NEW w \in Words
      PROVE  msg[p][w] <= line[c][w] /\ \A k \in DOMAIN got[c] : got[c][k][w] <= msg[p][w]
  BY <1>1 DEF Forward
<1>6. ASSUME NEW k \in DOMAIN got'[c], NEW w \in Words
      PROVE  got'[c][k][w] <= line[c][w] /\ (k > 1 => got'[c][k - 1][w] <= got'[c][k][w])
  <2> DEFINE n == Len(got[c])
  <2>1. n \in Nat /\ k \in 1 .. n + 1 /\ DOMAIN got[c] = 1 .. n
    BY <1>3, <1>4
  <2>2. CASE k \in 1 .. n
    <3>1. got'[c][k] = got[c][k] /\ (k > 1 => got'[c][k - 1] = got[c][k - 1])
      BY <1>3, <1>4, <2>1, <2>2
    <3> QED BY <1>1, <2>1, <2>2, <3>1 DEF Forward
  <2>3. CASE k = n + 1
    <3>1. got'[c][k] = msg[p]
      BY <1>3, <1>4, <2>1, <2>3
    <3>2. k > 1 => k - 1 \in DOMAIN got[c] /\ got'[c][k - 1] = got[c][k - 1]
      BY <1>3, <1>4, <2>1, <2>3
    <3> QED BY <1>5, <3>1, <3>2
  <2> QED BY <2>1, <2>2, <2>3
<1> QED BY <1>1, <1>2, <1>6 DEF Forward

LEMMA ForwardNext ==
  ASSUME ForwardInv, [Next]_vars
  PROVE  ForwardInv'
<1>1. TypeOK /\ (\A p \in Procs : InCall(p)) /\ (\A c \in Chan : Forward(c))
  BY DEF ForwardInv
<1>2. TypeOK'
  BY <1>1, TypeNext
<1>3. CASE UNCHANGED vars
  <2>1. /\ call' = call /\ pc' = pc /\ peer' = peer /\ idx' = idx /\ start' = start
        /\ msg' = msg /\ todo' = todo /\ line' = line /\ sent' = sent /\ got' = got
    BY <1>3 DEF vars, shared, local
  <2>2. ASSUME NEW p \in Procs PROVE InCall(p)'
    <3>1. KeepsPlace(p)
      BY <2>1 DEF KeepsPlace
    <3> QED BY <1>1, <3>1, ProcFrame
  <2>3. ASSUME NEW c \in Chan PROVE Forward(c)'
    <3>1. Forward(c) /\ (Reading(c)' <=> Reading(c))
      BY <1>1, <2>1 DEF Reading
    <3> QED BY <2>1, <3>1 DEF Forward
  <2> QED BY <1>2, <2>2, <2>3 DEF ForwardInv
<1>4. ASSUME NEW p \in Procs, Called(p) \/ Step(p) PROVE ForwardInv'
  <2>1. ASSUME NEW q \in Procs PROVE InCall(q)'
    <3>1. CASE q = p
      BY <1>1, <1>4, <3>1, InCallStep
    <3>2. CASE q # p
      BY <1>1, <1>4, <3>2, OthersKeepPlace, ProcFrame
    <3> QED BY <3>1, <3>2
  <2>2. ASSUME NEW c \in Chan PROVE Forward(c)'
    <3>1. CASE c = In(p) /\ \E w \in Words : RecvCopy(p, w)
      BY <1>1, <1>2, <3>1, RecvCopyForward
    <3>2. CASE c = In(p) /\ RecvRelease(p)
      BY <1>1, <1>2, <3>2, ReleaseForward
    <3>3. CASE ~(c = In(p) /\ RecvRelease(p)) /\ ~(c = In(p) /\ \E w \in Words : RecvCopy(p, w))
      <4>1. got'[c] = got[c]
        <5>1. RecvRelease(p) => In(p) \in Chan /\ got' = [got EXCEPT ![In(p)] = Append(@, msg[p])]
          BY <1>1, OutIsChan DEF RecvRelease, InCall, In
        <5>2. RecvRelease(p) \/ got' = got
          BY <1>4 DEF Called, Step, CallSend, CallSendNoSync, ClaimLine, CallRecvFrom, CallRecv, CallBroadcast,
             SendTest, SendCopy, BroadcastNext, RecvFromTest, ScanHit, TakeLine, ScanMiss, RecvCopy
        <5> QED BY <1>1, <3>3, <5>1, <5>2 DEF TypeOK
      <4>2. CASE \A w \in Words : ~(c[2] = p /\ RecvCopy(p, w))
        BY <1>1, <1>2, <1>4, <4>1, <4>2, ForwardFrame
      <4>3. CASE \E w \in Words : c[2] = p /\ RecvCopy(p, w)
        <5>1. PICK w \in Words : c[2] = p /\ RecvCopy(p, w)
          BY <4>3
        <5>2. ~Reading(c)' /\ UNCHANGED <<line, sent, got>>
          BY <3>3, <5>1, ChanEnds DEF RecvCopy, Reading, In, shared
        <5>3. Forward(c)
          BY <1>1
        <5> QED BY <5>2, <5>3 DEF Forward
      <4> QED BY <4>2, <4>3
    <3> QED BY <3>1, <3>2, <3>3
  <2> QED BY <1>2, <2>1, <2>2 DEF ForwardInv
<1> QED BY <1>3, <1>4 DEF Next

\* A line's words only grow and what is received lags behind them: for every mix
\* of calls, unsynchronised sends included, and every order of memcpy's stores.
THEOREM LinesGoForward == Spec => []ForwardInv
<1>1. Init => ForwardInv
  <2> SUFFICES ASSUME Init PROVE ForwardInv
    OBVIOUS
  <2>1. TypeOK /\ \A p \in Procs : InCall(p)
    BY InitInv DEF IInv, ProcOK
  <2>2. ASSUME NEW c \in Chan PROVE Forward(c)
    <3>1. ~Reading(c) /\ got[c] = << >> /\ sent[c] = 0 /\ line[c] = [w \in Words |-> 0]
      BY ChanEnds DEF Init, Reading
    <3> QED BY <3>1 DEF Forward
  <2> QED BY <2>1, <2>2 DEF ForwardInv
<1>2. ForwardInv /\ [Next]_vars => ForwardInv'
  BY ForwardNext
<1> QED BY <1>1, <1>2, PTL DEF Spec

\* No receiver is ever taken back: no word it gets is older than the one it got
\* before, and none was never sent.  This needs no synchronisation.
THEOREM NeverGoesBack == Spec => []WordsMonotone
<1>1. ForwardInv => WordsMonotone
  <2> SUFFICES ASSUME ForwardInv, NEW c \in Chan, NEW k \in DOMAIN got[c], NEW w \in Words
               PROVE  got[c][k][w] <= sent[c] /\ (k > 1 => got[c][k - 1][w] <= got[c][k][w])
    BY DEF WordsMonotone
  <2>1. got[c][k][w] <= line[c][w] /\ line[c][w] <= sent[c] /\ (k > 1 => got[c][k - 1][w] <= got[c][k][w])
    BY DEF ForwardInv, Forward
  <2>2. got[c][k][w] \in Nat /\ line[c][w] \in Nat /\ sent[c] \in Nat
    BY DEF ForwardInv, TypeOK
  <2> QED BY <2>1, <2>2
<1> QED BY <1>1, LinesGoForward, PTL

(***************************************************************************)
(* Niagara.                                                                *)
(***************************************************************************)
\* Every step of Niagara's functions is a step of the generic protocol: the order
\* of memcpy64 and the separate store of the state byte (platform/niagara) only
\* take choices away.
THEOREM NiagaraImplementsMailbox == NiagaraSpec => Spec
<1>1. ASSUME NEW p \in Procs, NiagaraStep(p)
      PROVE  Step(p)
  <2>1. ASSUME memcpy64_out(p) PROVE Step(p)
    BY <2>1 DEF memcpy64_out, Step
  <2>2. ASSUME StoreState(p) PROVE Step(p)
    BY <2>2 DEF StoreState, Step
  <2>3. ASSUME memcpy64_in(p) PROVE Step(p)
    BY <2>3 DEF memcpy64_in, Step
  <2>4. CASE ssmp_send_platf(p)
    BY <2>1, <2>2, <2>4 DEF ssmp_send_platf, Step
  <2>5. CASE ssmp_send_no_sync_platf(p)
    BY <2>1, <2>2, <2>5 DEF ssmp_send_no_sync_platf
  <2>6. CASE BroadcastNext(p)
    BY <2>6 DEF Step
  <2>7. CASE ssmp_recv_from_platf(p)
    BY <2>3, <2>7 DEF ssmp_recv_from_platf, Step
  <2>8. CASE ssmp_recv_platf(p)
    BY <2>3, <2>8 DEF ssmp_recv_platf, Step
  <2>9. CASE ssmp_recv_color_platf(p)
    BY <2>3, <2>9 DEF ssmp_recv_color_platf, Step
  <2>10. CASE ssmp_recv_color_start_platf(p)
    BY <2>3, <2>10 DEF ssmp_recv_color_start_platf, Step
  <2>. QED
    BY <1>1, <2>4, <2>5, <2>6, <2>7, <2>8, <2>9, <2>10 DEF NiagaraStep
<1>2. [NiagaraNext]_vars => [Next]_vars
  BY <1>1 DEF NiagaraNext, Next
<1>. QED  BY <1>2, PTL DEF NiagaraSpec, Spec

\* On niagara nothing is assumed of the build: programs that do not call
\* ssmp_send_no_sync get every message whole, in order, exactly once.
THEOREM NiagaraDelivers ==
  NiagaraBuild /\ (\A p \in Procs : "send_no_sync" \notin Calls[p])
    => (NiagaraSpec => []ExactlyOnce)
<1> SUFFICES ASSUME NiagaraBuild, \A p \in Procs : "send_no_sync" \notin Calls[p]
             PROVE  NiagaraSpec => []ExactlyOnce
  OBVIOUS
<1>1. Synchronised
  BY DEF NiagaraBuild, Synchronised
<1>. QED  BY <1>1, NiagaraImplementsMailbox, DeliversExactlyOnce, PTL

\* The same for the loss of messages, and for the two ends being in memcpy64 on
\* one line together.
THEOREM NiagaraLosesNothing ==
  NiagaraBuild /\ (\A p \in Procs : "send_no_sync" \notin Calls[p])
    => (NiagaraSpec => [](NothingLost /\ NoOverlap))
<1> SUFFICES ASSUME NiagaraBuild, \A p \in Procs : "send_no_sync" \notin Calls[p]
             PROVE  NiagaraSpec => [](NothingLost /\ NoOverlap)
  OBVIOUS
<1>1. Synchronised
  BY DEF NiagaraBuild, Synchronised
<1>. QED  BY <1>1, NiagaraImplementsMailbox, LosesNothing, NeverOverlaps, PTL
=============================================================================
