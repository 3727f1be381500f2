--------------------------- MODULE StartupProofs ---------------------------
(***************************************************************************)
(* The shared memory on x86, for any number of processes or threads and of *)
(* runs that end or crash anywhere: whoever has left ssmp_mem_init sends   *)
(* to the lines the receiver polls, no message is erased by a process that *)
(* is still starting, and nothing that an earlier run left is received.    *)
(* (sparc has no barrier between the resets and the first message: there   *)
(* the run StartupStale finds a message erased.)                           *)
(***************************************************************************)
EXTENDS Startup, TLAPS

(***************************************************************************)
(* The addresses, of x86 and of sparc: sender and receiver of a channel    *)
(* agree on its line, and no two channels share one.                       *)
(***************************************************************************)
\* The line a sender computes is the one its receiver polls (arch/x86
\* ssmp_arch.c:188 and :240, arch/sparc ssmp_arch.c:163 and :166).
THEOREM SameLine == \A c \in Chan : SendBuf(c[1], c[2]) = RecvBuf(c[2], c[1])
<1> SUFFICES ASSUME NEW s \in Procs, NEW r \in Procs, s # r
             PROVE  SendBuf(s, r) = RecvBuf(r, s)
  BY DEF Chan
<1>1. s \in Int /\ r \in Int
  BY LayoutAssumption DEF Procs
<1>2. r < s \/ s < r
  BY <1>1
<1>. QED
  BY <1>1, <1>2 DEF SendBuf, RecvBuf

\* Rows of the square do not overlap.
LEMMA RowsApart ==
  ASSUME NEW n \in Nat, NEW i \in Nat, NEW j \in Nat, NEW a \in Nat, NEW b \in Nat,
         a < n, b < n, i * n + a = j * n + b
  PROVE  i = j /\ a = b
<1>1. ASSUME NEW x \in Nat, NEW y \in Nat, x < y
      PROVE  x * n + n <= y * n
  <2>1. PICK d \in Nat : y = x + 1 + d
    <3>1. y - x - 1 \in Nat /\ y = x + 1 + (y - x - 1)
      BY <1>1
    <3>. QED  BY <3>1
  <2>2. y * n = x * n + n + d * n
    BY <2>1
  <2>3. d * n \in Nat /\ x * n \in Nat
    OBVIOUS
  <2>. QED  BY <2>2, <2>3
<1>2. i * n \in Nat /\ j * n \in Nat
  OBVIOUS
<1>3. ~(i < j)
  <2>. SUFFICES ASSUME i < j PROVE FALSE
    OBVIOUS
  <2>1. i * n + n <= j * n
    BY <1>1
  <2>. QED  BY <2>1, <1>2
<1>4. ~(j < i)
  <2>. SUFFICES ASSUME j < i PROVE FALSE
    OBVIOUS
  <2>1. j * n + n <= i * n
    BY <1>1
  <2>. QED  BY <2>1, <1>2
<1>5. i = j
  BY <1>3, <1>4
<1>. QED  BY <1>5, <1>2

\* Two channels never share a line: what is sent on one is not found, and not
\* overwritten, on another.
THEOREM LinesApart ==
  \A c, d \in Chan : RecvBuf(c[2], c[1]) = RecvBuf(d[2], d[1]) => c = d
<1> SUFFICES ASSUME NEW c \in Chan, NEW d \in Chan,
                    RecvBuf(c[2], c[1]) = RecvBuf(d[2], d[1])
             PROVE  c = d
  OBVIOUS
<1>1. /\ c = <<c[1], c[2]>> /\ d = <<d[1], d[2]>>
      /\ c[1] \in Nat /\ c[2] \in Nat /\ d[1] \in Nat /\ d[2] \in Nat
      /\ c[1] < N /\ c[2] < N /\ d[1] < N /\ d[2] < N
      /\ c[1] # c[2] /\ d[1] # d[2]
  BY LayoutAssumption DEF Chan, Procs
<1>2. CASE Arch = "x86"
  <2>1. c[2] = d[2]
    BY <1>2 DEF RecvBuf
  <2>2. (IF c[1] > c[2] THEN c[1] - 1 ELSE c[1]) = (IF d[1] > d[2] THEN d[1] - 1 ELSE d[1])
    BY <1>2 DEF RecvBuf
  <2>3. c[1] = d[1]
    BY <1>1, <2>1, <2>2
  <2>. QED  BY <1>1, <2>1, <2>3
<1>3. CASE Arch # "x86"
  <2>1. c[2] * N + c[1] = d[2] * N + d[1]
    BY <1>3 DEF RecvBuf
  <2>2. N \in Nat
    BY LayoutAssumption
  <2>3. c[2] = d[2] /\ c[1] = d[1]
    BY <1>1, <2>1, <2>2, RowsApart
  <2>. QED  BY <1>1, <2>3
<1>. QED  BY <1>2, <1>3

\* Every line is inside the shared object that holds it.
THEOREM LinesInside == \A c \in Chan : RecvBuf(c[2], c[1]) \in Lines
<1> SUFFICES ASSUME NEW s \in Procs, NEW r \in Procs, s # r
             PROVE  RecvBuf(r, s) \in Lines
  BY DEF Chan
<1>1. s \in Nat /\ r \in Nat /\ N \in Nat /\ s < N /\ r < N
  BY LayoutAssumption DEF Procs
<1>2. CASE Arch = "x86"
  <2>1. (IF s > r THEN s - 1 ELSE s) \in 0 .. N - 2
    BY <1>1
  <2>. QED  BY <1>2, <2>1 DEF RecvBuf, Lines
<1>3. CASE Arch # "x86"
  <2>1. PICK e \in Nat : N = r + 1 + e
    <3>1. N - r - 1 \in Nat /\ N = r + 1 + (N - r - 1)
      BY <1>1
    <3>. QED  BY <3>1
  <2>2. N * N = r * N + N + e * N
    BY <1>1, <2>1
  <2>3. e * N \in Nat /\ r * N \in Nat
    BY <1>1
  <2>4. r * N + s \in 0 .. N * N - 1
    BY <1>1, <2>2, <2>3
  <2>. QED  BY <1>3, <2>4 DEF RecvBuf, Lines
<1>. QED  BY <1>2, <1>3

(***************************************************************************)
(* The life of the shared memory on x86.                                   *)
(***************************************************************************)

X86 == Arch = "x86"

PCs == {"none", "open", "reset", "barrier", "map", "announce", "await", "run", "ended"}

(***************************************************************************)
(* Names and lines.                                                        *)
(***************************************************************************)
LEMMA NameFacts == Procs \subseteq Names /\ MEM \in Names /\ MEM \notin Procs /\ Procs \subseteq Nat
BY StartupAssumption DEF Names, MEM, Procs

\* Opening a name that exists changes nothing, else makes a new object.
LEMMA OpenFacts ==
  ASSUME TypeOK, NEW x \in Names, named[x] <= made[x], Open(x)
  PROVE  /\ named' \in [Names -> Nat] /\ made' \in [Names -> Nat]
         /\ named'[x] # None /\ named'[x] <= made'[x]
         /\ named[x] # None => named' = named /\ made' = made
         /\ named[x] = None => named'[x] = made[x] + 1 /\ made'[x] = made[x] + 1
         /\ \A y \in Names : y # x => named'[y] = named[y] /\ made'[y] = made[y]
<1>1. named \in [Names -> Nat] /\ made \in [Names -> Nat]
  BY DEF TypeOK
<1>2. named[x] \in Nat /\ made[x] \in Nat
  BY <1>1
<1>3. CASE named[x] # None
  BY <1>1, <1>2, <1>3 DEF Open, None, objects
<1>4. CASE named[x] = None
  BY <1>1, <1>2, <1>4 DEF Open, None
<1>. QED  BY <1>3, <1>4

\* The line of a channel: known to both ends, and nobody else's.
LEMMA LineFacts ==
  ASSUME NEW p \in Procs, NEW q \in Procs, p # q
  PROVE  /\ RecvBuf(p, q) \in Lines
         /\ SendBuf(q, p) = RecvBuf(p, q)
         /\ \A r, s \in Procs : r # s /\ RecvBuf(r, s) = RecvBuf(p, q) => r = p /\ s = q
<1>1. <<q, p>> \in Chan /\ \A r, s \in Procs : r # s => <<s, r>> \in Chan
  BY DEF Chan
<1>2. \A a, b : <<a, b>>[1] = a /\ <<a, b>>[2] = b
  OBVIOUS
<1>3. RecvBuf(p, q) \in Lines /\ SendBuf(q, p) = RecvBuf(p, q)
  BY <1>1, <1>2, LinesInside, SameLine
<1>4. ASSUME NEW r \in Procs, NEW s \in Procs, r # s, RecvBuf(r, s) = RecvBuf(p, q)
      PROVE  r = p /\ s = q
  <2>1. <<s, r>> = <<q, p>>
    BY <1>1, <1>2, <1>4, LinesApart
  <2>. QED  BY <2>1, <1>2
<1>. QED  BY <1>3, <1>4

LEMMA EmptyFacts ==
  /\ Empty \in Messages
  /\ \A p, q \in Procs : \A r \in 0 .. MaxRuns : <<r, p, q>> \in Messages /\ <<r, p, q>> # Empty
BY DEF Messages, Empty

(***************************************************************************)
(* Types.                                                                  *)
(***************************************************************************)
LEMMA InitType == Init => TypeOK
<1> SUFFICES ASSUME Init PROVE TypeOK
  OBVIOUS
<1>1. Empty \in Messages /\ None \in Nat /\ 0 \in 0 .. MaxRuns /\ 0 \in 0 .. N
  BY StartupAssumption, LayoutAssumption, EmptyFacts DEF None
<1>2. named \in [Names -> Nat] /\ made \in [Names -> Nat]
  BY <1>1 DEF Init
<1>3. ues_initialized \in [Objects -> [Procs -> {0, 1}]] /\ chunk \in [Objects -> [Procs -> Messages]]
  BY <1>1 DEF Init
<1>4. map \in [Objects -> [Procs -> Nat \X Nat]] /\ line \in [Objects -> [Lines -> Messages]]
  BY <1>1 DEF Init
<1>5. mem \in Nat /\ own \in [Procs -> Nat] /\ out \in [Procs -> [Procs -> Nat]]
  BY <1>1 DEF Init
<1>6. core \in [Procs -> 0 .. N]
  BY <1>1 DEF Init
<1>. QED  BY <1>1, <1>2, <1>3, <1>4, <1>5, <1>6 DEF Init, TypeOK

LEMMA EmptiedType ==
  ASSUME TypeOK, NEW o, NEW l, NEW m \in Messages,
         line' = line \/ line' = [line EXCEPT ![o][l] = m]
  PROVE  line' \in [Objects -> [Lines -> Messages]]
<1>1. line \in [Objects -> [Lines -> Messages]]
  BY DEF TypeOK
<1>2. o \in Objects => [line[o] EXCEPT ![l] = m] \in [Lines -> Messages]
  BY <1>1
<1>. QED  BY <1>1, <1>2

LEMMA ChunkType ==
  ASSUME TypeOK, NEW o, NEW q, NEW m \in Messages, chunk' = [chunk EXCEPT ![o][q] = m]
  PROVE  chunk' \in [Objects -> [Procs -> Messages]]
<1>1. chunk \in [Objects -> [Procs -> Messages]]
  BY DEF TypeOK
<1>2. o \in Objects => [chunk[o] EXCEPT ![q] = m] \in [Procs -> Messages]
  BY <1>1
<1>. QED  BY <1>1, <1>2

LEMMA GotoType ==
  ASSUME TypeOK, NEW p \in Procs, NEW at \in PCs, Goto(p, at)
  PROVE  pc' \in [Procs -> PCs]
BY DEF Goto, TypeOK, PCs

LEMMA StartingType ==
  ASSUME X86, TypeOK, MemKept, NEW p \in Procs, NamesKept(p), \A q \in Procs : named[q] <= made[q],
         Starting(p)
  PROVE  TypeOK'
<1>0. p \in Names /\ N \in Nat /\ run \in Nat
  BY NameFacts, LayoutAssumption DEF TypeOK
<1>1. CASE OpenOwn(p)
  <2>1. named' \in [Names -> Nat] /\ made' \in [Names -> Nat]
    BY <1>0, <1>1, OpenFacts DEF OpenOwn
  <2>2. named'[p] \in Nat
    BY <1>0, <2>1
  <2>3. own' \in [Procs -> Nat]
    BY <1>1, <2>2 DEF OpenOwn, TypeOK
  <2>4. map' \in [Objects -> [Procs -> Nat \X Nat]]
    <3>1. map' = map \/ map' = [map EXCEPT ![mem][p] = <<run, named'[p]>>]
      BY <1>1 DEF OpenOwn
    <3>2. map \in [Objects -> [Procs -> Nat \X Nat]]
      BY DEF TypeOK
    <3>3. mem \in Objects
      BY <1>1 DEF OpenOwn, MemKept
    <3>4. [map[mem] EXCEPT ![p] = <<run, named'[p]>>] \in [Procs -> Nat \X Nat]
      BY <1>0, <2>2, <3>2, <3>3
    <3>. QED  BY <3>1, <3>2, <3>3, <3>4
  <2>5. pc' \in [Procs -> PCs]
    BY <1>1, GotoType DEF OpenOwn, PCs
  <2>. QED  BY <1>1, <2>1, <2>3, <2>4, <2>5 DEF OpenOwn, TypeOK, history, PCs
<1>2. CASE Reset(p)
  <2>1. line' = line \/ line' = [line EXCEPT ![RecvObject(p)][RecvBuf(p, core[p])] = Empty]
    BY <1>2 DEF Reset, Emptied
  <2>2. line' \in [Objects -> [Lines -> Messages]]
    BY <2>1, EmptiedType, EmptyFacts
  <2>3. chunk' \in [Objects -> [Procs -> Messages]]
    BY <1>2, EmptyFacts DEF Reset, TypeOK
  <2>4. core' \in [Procs -> 0 .. N]
    BY <1>0, <1>2 DEF Reset, TypeOK
  <2>. QED  BY <1>2, <2>2, <2>3, <2>4 DEF Reset, TypeOK, history, tables, objects
<1>3. CASE ResetDone(p)
  <2>1. pc' \in [Procs -> PCs]
    BY <1>3, GotoType DEF ResetDone, PCs, AfterReset
  <2>2. chunk' = chunk
    BY <1>3 DEF ResetDone, X86
  <2>3. core' \in [Procs -> 0 .. N]
    BY <1>0, <1>3 DEF ResetDone, TypeOK
  <2>. QED  BY <1>3, <2>1, <2>2, <2>3 DEF ResetDone, TypeOK, history, tables, objects, PCs
<1>4. CASE Barrier(p)
  <2>1. pc' \in [Procs -> PCs]
    BY <1>4, GotoType DEF Barrier, PCs
  <2>. QED  BY <1>4, <2>1 DEF Barrier, TypeOK, history, tables, objects, memory, PCs
<1>5. CASE Map(p)
  <2>1. core[p] \in Procs /\ core[p] \in Names
    BY <1>0, <1>5, NameFacts DEF Map, TypeOK, Procs
  <2>2. named' \in [Names -> Nat] /\ made' \in [Names -> Nat] /\ out' \in [Procs -> [Procs -> Nat]]
    <3>1. CASE UNCHANGED <<objects, out>>
      BY <3>1 DEF TypeOK, objects
    <3>2. CASE MapThread(p, core[p])
      <4>1. map[mem][core[p]][1] = run => map[mem][core[p]][2] \in Nat
        <5>1. pc[p] # "none"
          BY <1>5 DEF Map
        <5>2. mem \in Objects
          BY <5>1 DEF MemKept
        <5>3. map[mem][core[p]] \in Nat \X Nat
          BY <2>1, <5>2 DEF TypeOK
        <5>. QED  BY <5>3
      <4>2. out' \in [Procs -> [Procs -> Nat]]
        BY <3>2, <4>1 DEF MapThread, TypeOK, None
      <4>. QED  BY <3>2, <4>2 DEF MapThread, objects, TypeOK
    <3>3. CASE MapProcess(p, core[p])
      <4>1. named' \in [Names -> Nat] /\ made' \in [Names -> Nat]
        BY <2>1, <3>3, OpenFacts DEF MapProcess
      <4>2. named'[core[p]] \in Nat
        BY <2>1, <4>1
      <4>3. out' \in [Procs -> [Procs -> Nat]]
        BY <3>3, <4>2 DEF MapProcess, TypeOK
      <4>. QED  BY <4>1, <4>3
    <3>. QED  BY <1>5, <3>1, <3>2, <3>3 DEF Map
  <2>3. core' \in [Procs -> 0 .. N]
    BY <1>0, <1>5 DEF Map, TypeOK
  <2>. QED  BY <1>5, <2>2, <2>3 DEF Map, TypeOK, history, memory
<1>6. CASE MapDone(p)
  <2>1. pc' \in [Procs -> PCs]
    BY <1>6, GotoType DEF MapDone, PCs
  <2>2. core' \in [Procs -> 0 .. N]
    BY <1>0, <1>6 DEF MapDone, TypeOK
  <2>. QED  BY <1>6, <2>1, <2>2 DEF MapDone, TypeOK, history, tables, objects, memory, PCs
<1>7. CASE Announce(p)
  <2>1. pc' \in [Procs -> PCs]
    BY <1>7, GotoType DEF Announce, PCs
  <2>2. ues_initialized' \in [Objects -> [Procs -> {0, 1}]]
    BY <1>7 DEF Announce, Announced, TypeOK
  <2>. QED  BY <1>7, <2>1, <2>2 DEF Announce, TypeOK, history, tables, objects, PCs
<1>8. CASE Await(p)
  <2>1. core' \in [Procs -> 0 .. N]
    BY <1>0, <1>8 DEF Await, TypeOK
  <2>. QED  BY <1>8, <2>1 DEF Await, TypeOK, history, tables, objects, memory
<1>9. CASE AwaitDone(p)
  <2>1. pc' \in [Procs -> PCs]
    BY <1>9, GotoType DEF AwaitDone, PCs
  <2>2. core' \in [Procs -> 0 .. N]
    BY <1>0, <1>9 DEF AwaitDone, TypeOK
  <2>. QED  BY <1>9, <2>1, <2>2 DEF AwaitDone, TypeOK, history, tables, objects, memory, PCs
<1>. QED
  BY <1>1, <1>2, <1>3, <1>4, <1>5, <1>6, <1>7, <1>8, <1>9 DEF Starting

LEMMA ReceivesType ==
  ASSUME TypeOK, NEW p \in Procs, NEW c \in Procs \X Procs, NEW what, Receives(p, c, what),
         chunk' \in [Objects -> [Procs -> Messages]], line' \in [Objects -> [Lines -> Messages]]
  PROVE  TypeOK'
<1>1. ghosts' \in Nat /\ got' \subseteq Procs \X Procs
  BY DEF Receives, TypeOK
<1>. QED  BY <1>1 DEF Receives, TypeOK, objects, tables

LEMMA RunningType ==
  ASSUME X86, TypeOK, NEW p \in Procs, Running(p)
  PROVE  TypeOK'
<1>0. run \in 0 .. MaxRuns /\ \A q, r \in Procs : <<run, q, r>> \in Messages
  BY EmptyFacts DEF TypeOK
<1>1. ASSUME NEW q \in Procs, Send(p, q) PROVE TypeOK'
  <2>1. line' = [line EXCEPT ![SendObject(p, q)][SendBuf(p, q)] = <<run, p, q>>]
    BY <1>1 DEF Send
  <2>2. line' \in [Objects -> [Lines -> Messages]]
    BY <1>0, <2>1, EmptiedType
  <2>3. sent' \subseteq Procs \X Procs /\ got' \subseteq Procs \X Procs
    BY <1>1 DEF Send, Sends, TypeOK
  <2>. QED  BY <1>1, <2>2, <2>3 DEF Send, Sends, TypeOK, objects, tables
<1>2. CASE SendBig(p)
  <2>1. chunk' \in [Objects -> [Procs -> Messages]]
    BY <1>0, <1>2, ChunkType DEF SendBig
  <2>2. sent' \subseteq Procs \X Procs /\ got' \subseteq Procs \X Procs
    BY <1>2 DEF SendBig, Sends, TypeOK
  <2>. QED  BY <1>2, <2>1, <2>2 DEF SendBig, Sends, TypeOK, objects, tables
<1>3. ASSUME NEW q \in Procs, Recv(p, q) PROVE TypeOK'
  <2>1. line' = [line EXCEPT ![RecvObject(p)][RecvBuf(p, q)] = Empty]
    BY <1>3 DEF Recv, Emptied
  <2>2. line' \in [Objects -> [Lines -> Messages]]
    BY <2>1, EmptiedType, EmptyFacts
  <2>3. Receives(p, <<q, p>>, line[RecvObject(p)][RecvBuf(p, q)]) /\ chunk' = chunk
    BY <1>3 DEF Recv
  <2>. QED  BY <2>2, <2>3, ReceivesType DEF TypeOK
<1>4. ASSUME NEW q \in Procs, RecvBig(p, q) PROVE TypeOK'
  <2>1. chunk' \in [Objects -> [Procs -> Messages]]
    BY <1>4, ChunkType, EmptyFacts DEF RecvBig
  <2>2. Receives(p, <<q, q>>, chunk[mem][q]) /\ line' = line
    BY <1>4 DEF RecvBig
  <2>. QED  BY <2>1, <2>2, ReceivesType DEF TypeOK
<1>5. CASE ssmp_term(p)
  <2>1. pc' \in [Procs -> PCs]
    BY <1>5, GotoType DEF ssmp_term, PCs
  <2>2. named' \in [Names -> Nat]
    BY <1>5 DEF ssmp_term, Unlink, TypeOK, None
  <2>. QED  BY <1>5, <2>1, <2>2 DEF ssmp_term, TypeOK, tables, memory, history, PCs
<1>. QED  BY <1>1, <1>2, <1>3, <1>4, <1>5 DEF Running

LEMMA InitStepType ==
  ASSUME X86, TypeOK, \A x \in Names : named[x] <= made[x], ssmp_init
  PROVE  TypeOK'
<1>1. run' \in 0 .. MaxRuns
  BY StartupAssumption DEF ssmp_init, TypeOK
<1>2. named' \in [Names -> Nat] /\ made' \in [Names -> Nat] /\ mem' \in Nat
  BY NameFacts, OpenFacts DEF ssmp_init
<1>3. own' \in [Procs -> Nat] /\ out' \in [Procs -> [Procs -> Nat]]
  BY DEF ssmp_init, None
<1>4. pc' \in [Procs -> PCs] /\ core' \in [Procs -> 0 .. N]
  BY LayoutAssumption DEF ssmp_init, FirstStep, PCs
<1>. QED  BY <1>1, <1>2, <1>3, <1>4 DEF ssmp_init, TypeOK, memory, BarriersReset, PCs

LEMMA CrashType == TypeOK /\ Crash => TypeOK'
BY DEF Crash, TypeOK, objects, memory, tables

(***************************************************************************)
(* Names and objects.                                                      *)
(***************************************************************************)
LEMMA NamesInit ==
  ASSUME X86, IInv, ssmp_init
  PROVE  MemKept' /\ \A p \in Procs : NamesKept(p)'
<1>0. /\ TypeOK /\ MemKept /\ MEM \in Names /\ Procs \subseteq Names /\ MEM \notin Procs
      /\ run \in Nat /\ MaxRuns \in Nat /\ run' = run + 1 /\ run < MaxRuns
  BY NameFacts, StartupAssumption DEF IInv, TypeOK, ssmp_init
<1>1. /\ named'[MEM] # None /\ named'[MEM] <= made'[MEM]
      /\ named[MEM] # None => named' = named /\ made' = made
      /\ named[MEM] = None => named'[MEM] = made[MEM] + 1 /\ made'[MEM] = made[MEM] + 1
      /\ \A p \in Procs : named'[p] = named[p] /\ made'[p] = made[p]
      /\ named' \in [Names -> Nat] /\ made' \in [Names -> Nat]
  BY <1>0, OpenFacts DEF ssmp_init, MemKept
<1>2. \A p \in Procs : pc'[p] = "open"
  BY DEF ssmp_init, FirstStep, X86
<1>3. made'[MEM] <= run' /\ made'[MEM] \in Nat /\ named'[MEM] \in Nat
  BY <1>0, <1>1 DEF MemKept, TypeOK
<1>4. mem' \in Objects /\ run' > 0
  BY <1>0, <1>1, <1>3 DEF ssmp_init, Objects, None
<1>5. MemKept'
  BY <1>1, <1>2, <1>3, <1>4 DEF MemKept
<1>6. ASSUME NEW p \in Procs PROVE NamesKept(p)'
  <2>1. made[p] <= 2 * run /\ named[p] <= made[p] /\ made[p] \in Nat
    BY <1>0 DEF IInv, NamesKept, TypeOK
  <2>2. made'[p] <= 2 * run' - 2 /\ made'[p] <= 2 * run' /\ named'[p] <= made'[p]
    BY <1>0, <1>1, <2>1
  <2>. QED  BY <1>2, <2>2 DEF NamesKept
<1>. QED  BY <1>5, <1>6

LEMMA NamesCrash ==
  ASSUME IInv, Crash
  PROVE  MemKept' /\ \A p \in Procs : NamesKept(p)'
<1>1. \A p \in Procs : pc'[p] = "none"
  BY DEF Crash
<1>2. named' = named /\ made' = made /\ run' = run
  BY DEF Crash, objects
<1>. QED  BY <1>1, <1>2 DEF IInv, MemKept, NamesKept

\* An object of p is not replaced while p lives: only p takes its name away.
LEMMA OwnKept ==
  ASSUME IInv, NEW x \in Procs, Open(x), pc[x] \notin {"none", "open", "ended"}
  PROVE  named' = named /\ made' = made /\ named[x] = own[x]
<1>1. named[x] = own[x] /\ own[x] # None
  BY DEF IInv, NamesKept, Objects, None
<1>. QED  BY <1>1 DEF Open, objects

\* Most steps of a process leave names and objects alone.
LEMMA NamesQuiet ==
  ASSUME IInv, NEW p \in Procs, UNCHANGED <<threads, run, objects, map, mem, own>>,
         pc[p] \notin {"none", "open", "ended"}, pc'[p] \notin {"none", "open", "ended"},
         \A q \in Procs : q # p => pc'[q] = pc[q]
  PROVE  MemKept' /\ \A q \in Procs : NamesKept(q)'
<1>1. MemKept /\ UNCHANGED <<named, made>>
  BY DEF IInv, objects
<1>2. MemKept'
  BY <1>1 DEF MemKept
<1>3. ASSUME NEW q \in Procs PROVE NamesKept(q)'
  <2>1. NamesKept(q) /\ NamesKept(p)
    BY DEF IInv
  <2>2. CASE q = p
    BY <1>1, <2>1, <2>2 DEF NamesKept
  <2>3. CASE q # p
    BY <1>1, <2>1, <2>3 DEF NamesKept
  <2>. QED  BY <2>2, <2>3
<1>. QED  BY <1>2, <1>3

\* A process acts at one place and goes to another, the others stay where they are.
LEMMA Moves ==
  ASSUME X86, TypeOK, NEW p \in Procs, Starting(p) \/ Running(p)
  PROVE  /\ \A q \in Procs : q # p => pc'[q] = pc[q] /\ core'[q] = core[q]
         /\ pc[p] \notin {"none", "ended"} /\ pc'[p] \notin {"none", "open"}
<1>1. pc \in [Procs -> PCs] /\ core \in [Procs -> 0 .. N]
  BY DEF TypeOK, PCs
<1>2. CASE OpenOwn(p)
  BY <1>1, <1>2 DEF OpenOwn, Goto
<1>3. CASE Reset(p)
  BY <1>1, <1>3 DEF Reset
<1>4. CASE ResetDone(p)
  BY <1>1, <1>4 DEF ResetDone, Goto, AfterReset
<1>5. CASE Barrier(p)
  BY <1>1, <1>5 DEF Barrier, Goto
<1>6. CASE Map(p)
  BY <1>1, <1>6 DEF Map
<1>7. CASE MapDone(p)
  BY <1>1, <1>7 DEF MapDone, Goto
<1>8. CASE Announce(p)
  BY <1>1, <1>8 DEF Announce, Goto
<1>9. CASE Await(p)
  BY <1>1, <1>9 DEF Await
<1>10. CASE AwaitDone(p)
  BY <1>1, <1>10 DEF AwaitDone, Goto
<1>11. CASE Running(p)
  BY <1>1, <1>11 DEF Running, Send, SendBig, Sends, Recv, RecvBig, Receives, ssmp_term, Goto
<1>. QED
  BY <1>2, <1>3, <1>4, <1>5, <1>6, <1>7, <1>8, <1>9, <1>10, <1>11 DEF Starting

LEMMA NamesStep ==
  ASSUME X86, IInv, NEW p \in Procs, Starting(p) \/ Running(p)
  PROVE  MemKept' /\ \A q \in Procs : NamesKept(q)'
<1>0. /\ TypeOK /\ MemKept /\ InPhase /\ \A q \in Procs : NamesKept(q)
      /\ MEM \in Names /\ Procs \subseteq Names /\ MEM \notin Procs
      /\ run \in Nat /\ MaxRuns \in Nat /\ run <= MaxRuns
  BY NameFacts, StartupAssumption DEF IInv, TypeOK
<1>1. /\ \A q \in Procs : q # p => pc'[q] = pc[q]
      /\ pc[p] \notin {"none", "ended"} /\ pc'[p] \notin {"none", "open"}
  BY <1>0, Moves
<1>2. pc \in [Procs -> PCs] /\ named \in [Names -> Nat] /\ made \in [Names -> Nat]
  BY <1>0 DEF TypeOK, PCs
<1>3. CASE OpenOwn(p)
  <2>1. /\ named'[p] # None /\ named'[p] <= made'[p]
        /\ named[p] # None => named' = named /\ made' = made
        /\ named[p] = None => named'[p] = made[p] + 1 /\ made'[p] = made[p] + 1
        /\ \A y \in Names : y # p => named'[y] = named[y] /\ made'[y] = made[y]
        /\ named' \in [Names -> Nat] /\ made' \in [Names -> Nat]
    BY <1>0, <1>3, OpenFacts DEF OpenOwn, NamesKept
  <2>2. made[p] <= 2 * run - 2 /\ run > 0
    BY <1>0, <1>3 DEF OpenOwn, NamesKept, MemKept
  <2>3. made[p] \in Nat /\ made'[p] \in Nat /\ named'[p] \in Nat
    BY <1>0, <1>2, <2>1
  <2>4. made'[p] <= 2 * run - 1 /\ named'[p] \in Objects
    BY <1>0, <2>1, <2>2, <2>3 DEF Objects, None
  <2>5. /\ own' = [own EXCEPT ![p] = named'[p]] /\ pc'[p] = "reset"
        /\ UNCHANGED <<threads, run, mem>>
        /\ map' = IF threads THEN [map EXCEPT ![mem][p] = <<run, named'[p]>>] ELSE map
    BY <1>2, <1>3 DEF OpenOwn, Goto
  <2>6. MemKept'
    BY <1>0, <1>1, <2>1, <2>5 DEF MemKept
  <2>7. mem \in Objects
    BY <1>0, <1>1 DEF MemKept
  <2>8. own'[p] = named'[p] /\ (threads => map'[mem][p] = <<run, named'[p]>>)
    BY <2>5, <2>7, <1>0 DEF TypeOK
  <2>9. NamesKept(p)'
    BY <1>0, <2>1, <2>3, <2>4, <2>5, <2>8 DEF NamesKept
  <2>10. ASSUME NEW q \in Procs, q # p PROVE NamesKept(q)'
    <3>1. own'[q] = own[q] /\ map'[mem][q] = map[mem][q]
      BY <2>5, <2>7, <2>10, <1>0 DEF TypeOK
    <3>2. named'[q] = named[q] /\ made'[q] = made[q] /\ pc'[q] = pc[q]
      BY <1>0, <1>1, <2>1, <2>10
    <3>. QED  BY <1>0, <2>5, <3>1, <3>2 DEF NamesKept
  <2>. QED  BY <2>6, <2>9, <2>10
<1>4. CASE Map(p)
  <2>1. /\ core[p] \in Procs /\ pc' = pc /\ pc[p] = "map"
        /\ UNCHANGED <<threads, run, map, mem, own>>
    <3>1. core[p] \in 0 .. N /\ core[p] < N /\ N \in Nat
      BY <1>0, <1>4, LayoutAssumption DEF Map, TypeOK
    <3>. QED  BY <1>4, <3>1 DEF Map, memory, Procs
  <2>2. CASE UNCHANGED objects
    BY <1>1, <2>1, <2>2, NamesQuiet
  <2>3. ASSUME NEW x \in Procs, x = core[p], MapProcess(p, x)
        PROVE  MemKept' /\ \A q \in Procs : NamesKept(q)'
    <3>1. pc[x] \notin {"none", "open", "reset"}
      BY <1>0, <2>1 DEF InPhase, MemKept
    <3>2. CASE pc[x] # "ended"
      <4>1. named' = named /\ made' = made
        BY <2>1, <2>3, <3>1, <3>2, OwnKept DEF MapProcess
      <4>. QED  BY <1>1, <2>1, <4>1, NamesQuiet DEF objects
    <3>3. CASE pc[x] = "ended"
      <4>1. /\ named'[x] # None /\ named'[x] <= made'[x]
            /\ named[x] # None => named' = named /\ made' = made
            /\ named[x] = None => named'[x] = made[x] + 1 /\ made'[x] = made[x] + 1
            /\ \A y \in Names : y # x => named'[y] = named[y] /\ made'[y] = made[y]
            /\ named' \in [Names -> Nat] /\ made' \in [Names -> Nat]
        BY <1>0, <2>1, <2>3, OpenFacts DEF MapProcess, NamesKept
      <4>2. made[x] <= 2 * run /\ (named[x] = None => made[x] <= 2 * run - 1) /\ made[x] \in Nat
        BY <1>0, <1>2, <2>1, <3>3 DEF NamesKept
      <4>3. made'[x] <= 2 * run
        BY <1>0, <4>1, <4>2
      <4>4. MemKept'
        BY <1>0, <2>1, <4>1 DEF MemKept
      <4>5. NamesKept(x)'
        BY <1>0, <2>1, <3>3, <4>1, <4>3 DEF NamesKept
      <4>6. ASSUME NEW q \in Procs, q # x PROVE NamesKept(q)'
        BY <1>0, <2>1, <4>1, <4>6 DEF NamesKept
      <4>. QED  BY <4>4, <4>5, <4>6
    <3>. QED  BY <3>2, <3>3
  <2>4. UNCHANGED objects \/ MapProcess(p, core[p])
    BY <1>4 DEF Map, MapThread
  <2>. QED  BY <2>1, <2>2, <2>3, <2>4
<1>5. CASE ssmp_term(p)
  <2>1. /\ \A x \in Procs : x # p => named'[x] = named[x]
        /\ named'[p] = None /\ named'[MEM] \in {named[MEM], None}
        /\ UNCHANGED <<threads, run, made, map, mem, own>>
        /\ pc[p] = "run" /\ pc'[p] = "ended"
    BY <1>0, <1>2, <1>5 DEF ssmp_term, Unlink, memory, tables, Goto, X86
  <2>2. MemKept'
    BY <1>0, <1>1, <1>2, <2>1 DEF MemKept, None
  <2>3. NamesKept(p)'
    BY <1>0, <1>2, <2>1 DEF NamesKept, None
  <2>4. ASSUME NEW q \in Procs, q # p PROVE NamesKept(q)'
    BY <1>0, <1>1, <2>1, <2>4 DEF NamesKept
  <2>. QED  BY <2>2, <2>3, <2>4
<1>6. CASE ~(OpenOwn(p) \/ Map(p) \/ ssmp_term(p))
  <2>1. /\ UNCHANGED <<threads, run, objects, map, mem, own>>
        /\ pc[p] \notin {"none", "open", "ended"} /\ pc'[p] \notin {"none", "open", "ended"}
    BY <1>2, <1>6 DEF Starting, Running, Reset, ResetDone, AfterReset, Barrier, MapDone, Announce, Await, AwaitDone,
      Send, SendBig, Sends, Recv, RecvBig, Receives, Goto, tables, memory
  <2>. QED  BY <1>1, <2>1, NamesQuiet
<1>. QED  BY <1>3, <1>4, <1>5, <1>6

(***************************************************************************)
(* Barrier 0.                                                              *)
(***************************************************************************)
\* What is unread is received as what it is.
LEMMA ReceivesFacts ==
  ASSUME NEW p, NEW c, NEW what, Unread(what, c), Receives(p, c, what)
  PROVE  /\ what = <<run, c[1], c[2]>> /\ c \in sent \ got
         /\ got' = got \cup {c} /\ ghosts' = ghosts
         /\ pc[p] = "run" /\ pc' = pc /\ core' = core
         /\ UNCHANGED <<threads, run, named, made, map, mem, own, out, arrived, sent>>
BY DEF Unread, Receives, objects, tables

LEMMA RecvFacts ==
  ASSUME X86, IInv, NEW p \in Procs, NEW q \in Procs, Recv(p, q)
  PROVE  /\ p # q /\ <<q, p>> \in sent \ got
         /\ got' = got \cup {<<q, p>>} /\ ghosts' = ghosts
         /\ line' = [line EXCEPT ![own[p]][RecvBuf(p, q)] = Empty]
         /\ pc[p] = "run" /\ pc' = pc /\ core' = core
         /\ UNCHANGED <<chunk, threads, run, named, made, map, mem, own, out, arrived, sent>>
<1> DEFINE what == line[own[p]][RecvBuf(p, q)]
<1>1. p # q /\ Receives(p, <<q, p>>, what) /\ pc[p] = "run"
  BY DEF Recv, Receives, RecvObject, X86
<1>2. Unread(what, <<q, p>>)
  BY <1>1 DEF IInv, Clean, HasReset
<1>3. line' = [line EXCEPT ![own[p]][RecvBuf(p, q)] = Empty] /\ chunk' = chunk
  BY DEF Recv, Emptied, RecvObject, X86
<1> HIDE DEF what
<1>. QED  BY <1>1, <1>2, <1>3, ReceivesFacts

LEMMA RecvBigFacts ==
  ASSUME X86, IInv, NEW p \in Procs, NEW q \in Procs, RecvBig(p, q)
  PROVE  /\ <<q, q>> \in sent \ got
         /\ got' = got \cup {<<q, q>>} /\ ghosts' = ghosts
         /\ chunk' = [chunk EXCEPT ![mem][q] = Empty]
         /\ pc[p] = "run" /\ pc' = pc /\ core' = core
         /\ UNCHANGED <<line, threads, run, named, made, map, mem, own, out, arrived, sent>>
<1> DEFINE what == chunk[mem][q]
<1>1. Receives(p, <<q, q>>, what) /\ pc[p] = "run"
  BY DEF RecvBig, Receives
<1>2. Unread(what, <<q, q>>)
  BY <1>1 DEF IInv, Clean, HasReset
<1>3. chunk' = [chunk EXCEPT ![mem][q] = Empty] /\ line' = line
  BY DEF RecvBig
<1> HIDE DEF what
<1>. QED  BY <1>1, <1>2, <1>3, ReceivesFacts

LEMMA PhaseStep ==
  ASSUME X86, IInv, NEW p \in Procs, Starting(p) \/ Running(p)
  PROVE  InPhase'
<1>0. TypeOK /\ InPhase /\ MemKept
  BY DEF IInv
<1>1. /\ \A q \in Procs : q # p => pc'[q] = pc[q] /\ core'[q] = core[q]
      /\ pc[p] \notin {"none", "ended"} /\ pc'[p] \notin {"none", "open"}
  BY <1>0, Moves
<1>2. pc \in [Procs -> PCs] /\ core \in [Procs -> 0 .. N] /\ arrived \subseteq Procs
  BY <1>0 DEF TypeOK, PCs
<1>3. CASE OpenOwn(p)
  <2>1. pc[p] = "open" /\ pc'[p] = "reset" /\ UNCHANGED <<arrived, sent, got>>
    BY <1>2, <1>3 DEF OpenOwn, Goto, history
  <2>. QED  BY <1>0, <1>1, <1>2, <2>1 DEF InPhase
<1>4. CASE Reset(p)
  <2>1. pc[p] = "reset" /\ pc' = pc /\ UNCHANGED <<arrived, sent, got>>
    BY <1>4 DEF Reset, history
  <2>. QED  BY <1>0, <1>1, <2>1 DEF InPhase
<1>5. CASE ResetDone(p)
  <2>1. /\ pc[p] = "reset" /\ pc'[p] = "barrier" /\ core'[p] = 0
        /\ arrived' = arrived \cup {p} /\ UNCHANGED <<sent, got>>
    BY <1>2, <1>5 DEF ResetDone, AfterReset, Goto, history, X86
  <2>. QED  BY <1>0, <1>1, <1>2, <2>1 DEF InPhase
<1>6. CASE Barrier(p)
  <2>1. pc[p] = "barrier" /\ pc'[p] = "map" /\ arrived = Procs /\ UNCHANGED <<arrived, core, sent, got>>
    BY <1>2, <1>6 DEF Barrier, Goto, history
  <2>. QED  BY <1>0, <1>1, <2>1 DEF InPhase
<1>7. CASE Map(p) \/ MapDone(p) \/ Announce(p) \/ Await(p) \/ AwaitDone(p) \/ ssmp_term(p)
  <2>1. /\ pc[p] \in {"map", "announce", "await", "run"} /\ UNCHANGED <<arrived, sent, got>>
        /\ pc'[p] \in {"map", "announce", "await", "run", "ended"}
    BY <1>2, <1>7 DEF Map, MapDone, Announce, Await, AwaitDone, ssmp_term, Goto, history
  <2>. QED  BY <1>0, <1>1, <2>1 DEF InPhase
<1>8. ASSUME NEW c, Sends(p, c) PROVE InPhase'
  <2>1. pc[p] = "run" /\ UNCHANGED <<pc, core, arrived, got>> /\ sent' = sent \cup {c}
    BY <1>8 DEF Sends
  <2>2. \A q \in Procs : pc[q] # "none"
    BY <1>0, <2>1 DEF MemKept
  <2>. QED  BY <1>0, <2>1, <2>2 DEF InPhase
<1>9. ASSUME NEW c \in sent, got' = got \cup {c}, UNCHANGED <<pc, core, arrived, sent>> PROVE InPhase'
  BY <1>0, <1>9 DEF InPhase
<1>10. ASSUME NEW q \in Procs, Recv(p, q) PROVE InPhase'
  BY <1>9, <1>10, RecvFacts
<1>11. ASSUME NEW q \in Procs, RecvBig(p, q) PROVE InPhase'
  BY <1>9, <1>11, RecvBigFacts
<1>. QED
  BY <1>3, <1>4, <1>5, <1>6, <1>7, <1>8, <1>10, <1>11 DEF Starting, Running, Send, SendBig

(***************************************************************************)
(* The lines a process sends to.                                           *)
(***************************************************************************)
LEMMA MappedStep ==
  ASSUME X86, IInv, NEW p \in Procs, Starting(p) \/ Running(p), NEW r \in Procs, NEW s \in Procs
  PROVE  Mapped(r, s)'
<1> SUFFICES ASSUME HasMapped(r, s)', r # s
             PROVE  out'[r][s] \in Objects /\ (pc'[s] # "ended" => out'[r][s] = own'[s])
  BY DEF Mapped
<1>0. TypeOK /\ InPhase /\ MemKept /\ Mapped(r, s) /\ \A q \in Procs : NamesKept(q) /\ NamesKept(q)'
  BY NamesStep DEF IInv
<1>1. /\ \A q \in Procs : q # p => pc'[q] = pc[q] /\ core'[q] = core[q]
      /\ pc[p] \notin {"none", "ended"} /\ pc'[p] \notin {"none", "open"}
  BY <1>0, Moves
<1>2. pc \in [Procs -> PCs] /\ core \in [Procs -> 0 .. N] /\ out \in [Procs -> [Procs -> Nat]]
  BY <1>0 DEF TypeOK, PCs
<1>3. \A q \in Procs : q < N /\ q \in Nat
  BY LayoutAssumption DEF Procs
<1>4. CASE Map(p)
  <2>0. PICK x \in Procs : x = core[p]
    <3>1. core[p] \in 0 .. N /\ core[p] < N /\ N \in Nat
      BY <1>2, <1>4, LayoutAssumption DEF Map
    <3>. QED  BY <3>1 DEF Procs
  <2>1. pc' = pc /\ pc[p] = "map" /\ core' = [core EXCEPT ![p] = @ + 1] /\ UNCHANGED <<own, run, mem, map, threads>>
    BY <1>4 DEF Map, memory
  <2>2. out' = out \/ (x # p /\ MapThread(p, x) /\ threads) \/ (x # p /\ MapProcess(p, x))
    BY <1>4, <2>0 DEF Map
  <2>3. CASE r = p /\ s = x
    <3>1. out'[p][x] = IF threads /\ MapThread(p, x)
                       THEN IF map[mem][x][1] = run THEN map[mem][x][2] ELSE None
                       ELSE named'[x]
      BY <1>2, <1>4, <2>0, <2>3 DEF Map, MapThread, MapProcess
    <3>2. pc[x] \notin {"none", "open", "reset"}
      BY <1>0, <2>1 DEF InPhase, MemKept
    <3>3. CASE threads /\ MapThread(p, x)
      <4>1. map[mem][x] = <<run, own[x]>> /\ own[x] \in Objects
        BY <1>0, <3>2, <3>3 DEF NamesKept
      <4>. QED  BY <2>1, <2>3, <3>1, <3>3, <4>1
    <3>4. CASE ~(threads /\ MapThread(p, x))
      <4>1. MapProcess(p, x)
        BY <1>4, <2>0, <2>3, <3>4 DEF Map
      <4>2. named'[x] # None /\ named'[x] \in Nat
        <5>1. x \in Names /\ named[x] <= made[x]
          BY <1>0, NameFacts DEF NamesKept
        <5>2. named' \in [Names -> Nat] /\ named'[x] # None
          BY <1>0, <4>1, <5>1, OpenFacts DEF MapProcess
        <5>. QED  BY <5>1, <5>2
      <4>3. named'[x] \in Objects
        <5>1. named'[x] <= made'[x] /\ made'[x] <= 2 * run
          BY <1>0, <2>1 DEF NamesKept
        <5>2. run \in 0 .. MaxRuns /\ MaxRuns \in Nat /\ made'[x] \in Nat
          <6>1. made' \in [Names -> Nat]
            BY <1>0, <4>1, OpenFacts, NameFacts DEF MapProcess, NamesKept
          <6>. QED  BY <1>0, <6>1, NameFacts, StartupAssumption DEF TypeOK
        <5>. QED  BY <4>2, <5>1, <5>2 DEF Objects, None
      <4>4. pc[x] # "ended" => named'[x] = own[x]
        BY <1>0, <2>1, <3>2 DEF NamesKept
      <4>. QED  BY <2>1, <2>3, <3>1, <3>4, <4>3, <4>4
    <3>. QED  BY <3>3, <3>4
  <2>4. CASE ~(r = p /\ s = x)
    <3>1. out'[r][s] = out[r][s]
      BY <1>2, <2>2, <2>4 DEF MapThread, MapProcess
    <3>2. HasMapped(r, s)
      BY <1>1, <1>2, <1>3, <2>0, <2>1, <2>4 DEF HasMapped
    <3>. QED  BY <1>0, <2>1, <3>1, <3>2 DEF Mapped
  <2>. QED  BY <2>3, <2>4
<1>5. CASE OpenOwn(p)
  <2>1. pc[p] = "open" /\ pc'[p] = "reset" /\ out' = out /\ own' = [own EXCEPT ![p] = named'[p]]
    BY <1>2, <1>5 DEF OpenOwn, Goto
  <2>2. r # p /\ HasMapped(r, s)
    BY <1>1, <2>1 DEF HasMapped
  <2>3. s # p
    BY <1>0, <2>1, <2>2 DEF HasMapped, InPhase
  <2>4. own'[s] = own[s]
    BY <1>0, <2>1, <2>3 DEF TypeOK
  <2>. QED  BY <1>0, <1>1, <2>1, <2>2, <2>3, <2>4 DEF Mapped
<1>6. CASE ~(Map(p) \/ OpenOwn(p))
  <2>1. UNCHANGED <<out, own>>
    BY <1>6 DEF Starting, Running, Reset, ResetDone, Barrier, MapDone, Announce, Await, AwaitDone,
      Send, SendBig, Sends, Recv, RecvBig, Receives, ssmp_term, tables
  <2>2. HasMapped(r, s)
    <3>1. CASE r # p
      BY <1>1, <3>1 DEF HasMapped
    <3>2. CASE r = p /\ Starting(p)
      <4>2. CASE Reset(p) \/ ResetDone(p)
        BY <1>2, <3>2, <4>2 DEF Reset, ResetDone, AfterReset, Goto, HasMapped, X86
      <4>3. CASE Barrier(p)
        <5>1. core'[p] = 0 /\ pc'[p] = "map"
          BY <1>0, <1>2, <4>3 DEF Barrier, Goto, InPhase
        <5>. QED  BY <1>3, <3>2, <5>1 DEF HasMapped
      <4>4. CASE MapDone(p)
        BY <1>3, <3>2, <4>4 DEF MapDone, HasMapped
      <4>5. CASE Announce(p) \/ Await(p) \/ AwaitDone(p)
        BY <3>2, <4>5 DEF Announce, Await, AwaitDone, HasMapped
      <4>. QED  BY <1>6, <3>2, <4>2, <4>3, <4>4, <4>5 DEF Starting
    <3>3. CASE r = p /\ Running(p)
      <4>1. pc[p] = "run"
        BY <3>3 DEF Running, Send, SendBig, Sends, Recv, RecvBig, Receives, ssmp_term
      <4>. QED  BY <3>3, <4>1 DEF HasMapped
    <3>. QED  BY <3>1, <3>2, <3>3
  <2>3. pc'[s] # "ended" => pc[s] # "ended"
    BY <1>1
  <2>. QED  BY <1>0, <2>1, <2>2, <2>3 DEF Mapped
<1>. QED  BY <1>4, <1>5, <1>6

(***************************************************************************)
(* What lines and chunk buffers hold.                                      *)
(***************************************************************************)
\* Emptied or left alone, what is unread stays so if nothing is received.
LEMMA UnreadKept ==
  ASSUME NEW c, NEW what, NEW after, Unread(what, c), after \in {what, Empty}, run' = run,
         sent \ got \subseteq sent' \ got'
  PROVE  Unread(after, c)'
BY DEF Unread, Empty

LEMMA CleanStep ==
  ASSUME X86, IInv, NEW p \in Procs, Starting(p) \/ Running(p), NEW r \in Procs, NEW s \in Procs
  PROVE  Clean(r, s)'
<1> SUFFICES ASSUME HasReset(r, s)'
             PROVE  /\ Unread(chunk[mem][s], <<s, s>>)'
                    /\ r # s => Unread(line[own[r]][RecvBuf(r, s)], <<s, r>>)'
  BY DEF Clean
<1>0. TypeOK /\ InPhase /\ MemKept /\ Clean(r, s) /\ \A q \in Procs : NamesKept(q)
  BY DEF IInv
<1>1. /\ \A q \in Procs : q # p => pc'[q] = pc[q] /\ core'[q] = core[q]
      /\ pc[p] \notin {"none", "ended"} /\ pc'[p] \notin {"none", "open"}
  BY <1>0, Moves
<1>2. /\ pc \in [Procs -> PCs] /\ core \in [Procs -> 0 .. N]
      /\ line \in [Objects -> [Lines -> Messages]] /\ chunk \in [Objects -> [Procs -> Messages]]
      /\ mem \in Objects
  BY <1>0, <1>1 DEF TypeOK, PCs, MemKept
<1>3. \A q \in Procs : q < N /\ q \in Nat
  BY LayoutAssumption DEF Procs
<1>4. own[r] \in Objects \/ (r = p /\ pc[p] = "open")
  BY <1>0, <1>1 DEF NamesKept, HasReset
<1>5. got \subseteq sent
  BY <1>0 DEF InPhase
<1>6. CASE OpenOwn(p)
  <2>1. pc[p] = "open" /\ pc'[p] = "reset" /\ core' = core /\ own' = [own EXCEPT ![p] = named'[p]]
        /\ UNCHANGED <<line, chunk, run, sent, got, mem>>
    BY <1>2, <1>6 DEF OpenOwn, Goto, history
  <2>2. core[p] = 0
    BY <1>0, <2>1 DEF InPhase
  <2>3. r # p /\ HasReset(r, s)
    BY <1>1, <1>3, <2>1, <2>2 DEF HasReset
  <2>4. own'[r] = own[r]
    BY <1>0, <2>1, <2>3 DEF TypeOK
  <2>. QED  BY <1>0, <2>1, <2>3, <2>4 DEF Clean, Unread
<1>7. CASE Reset(p)
  <2>1. /\ pc[p] = "reset" /\ pc' = pc /\ core' = [core EXCEPT ![p] = @ + 1]
        /\ UNCHANGED <<own, mem, run, sent, got>>
        /\ chunk' = [chunk EXCEPT ![mem][core[p]] = Empty]
        /\ line' = IF core[p] = p THEN line ELSE [line EXCEPT ![own[p]][RecvBuf(p, core[p])] = Empty]
    BY <1>7 DEF Reset, history, tables, Emptied, RecvObject, X86
  <2>2. CASE HasReset(r, s)
    <3>1. chunk'[mem][s] \in {chunk[mem][s], Empty}
      BY <1>2, <2>1
    <3>2. r # s => line'[own[r]][RecvBuf(r, s)] \in {line[own[r]][RecvBuf(r, s)], Empty}
      <4>1. own[r] \in Objects
        BY <1>4, <2>1
      <4>2. r # s => RecvBuf(r, s) \in Lines
        BY LineFacts
      <4>. QED  BY <1>2, <2>1, <4>1, <4>2
    <3>. QED  BY <1>0, <2>1, <2>2, <3>1, <3>2, UnreadKept DEF Clean
  <2>3. CASE ~HasReset(r, s)
    <3>1. r = p /\ s = core[p]
      <4>1. r = p
        BY <1>1, <2>1, <2>3 DEF HasReset
      <4>2. core'[p] = core[p] + 1 /\ core[p] \in Nat /\ s \in Nat
        BY <1>2, <1>3, <2>1
      <4>3. core'[p] > s /\ ~(core[p] > s)
        BY <2>1, <2>3, <4>1 DEF HasReset
      <4>. QED  BY <4>1, <4>2, <4>3
    <3>2. chunk'[mem][s] = Empty
      BY <1>2, <2>1, <3>1
    <3>3. r # s => line'[own[r]][RecvBuf(r, s)] = Empty
      <4>1. own[r] \in Objects
        BY <1>4, <2>1
      <4>2. r # s => RecvBuf(r, s) \in Lines
        BY LineFacts
      <4>. QED  BY <1>2, <2>1, <3>1, <4>1, <4>2
    <3>. QED  BY <2>1, <3>2, <3>3 DEF Unread
  <2>. QED  BY <2>2, <2>3
<1>8. ASSUME NEW q \in Procs, Send(p, q)
      PROVE  /\ Unread(chunk[mem][s], <<s, s>>)'
             /\ r # s => Unread(line[own[r]][RecvBuf(r, s)], <<s, r>>)'
  <2>1. /\ UNCHANGED <<own, mem, run, got, chunk, pc, core>> /\ p # q
        /\ line' = [line EXCEPT ![out[p][q]][RecvBuf(q, p)] = <<run, p, q>>]
        /\ sent' = sent \cup {<<p, q>>} /\ <<p, q>> \notin sent
    BY <1>8, LineFacts DEF Send, Sends, tables, SendObject, X86
  <2>2. HasReset(r, s) /\ own[r] \in Objects
    BY <1>1, <1>4, <1>8, <2>1 DEF HasReset, Send, Sends
  <2>3. Unread(chunk[mem][s], <<s, s>>)'
    BY <1>0, <2>1, <2>2, UnreadKept DEF Clean
  <2>4. ASSUME r # s PROVE Unread(line[own[r]][RecvBuf(r, s)], <<s, r>>)'
    <3>1. RecvBuf(r, s) \in Lines
      BY <2>4, LineFacts
    <3>2. CASE line'[own[r]][RecvBuf(r, s)] = line[own[r]][RecvBuf(r, s)]
      BY <1>0, <2>1, <2>2, <2>4, <3>2, UnreadKept DEF Clean
    <3>3. CASE line'[own[r]][RecvBuf(r, s)] # line[own[r]][RecvBuf(r, s)]
      <4>1. RecvBuf(r, s) = RecvBuf(q, p) /\ line'[own[r]][RecvBuf(r, s)] = <<run, p, q>>
        BY <1>2, <2>1, <2>2, <3>1, <3>3
      <4>2. r = q /\ s = p
        BY <2>1, <2>4, <4>1, LineFacts
      <4>. QED  BY <1>5, <2>1, <4>1, <4>2 DEF Unread
    <3>. QED  BY <3>2, <3>3
  <2>. QED  BY <2>3, <2>4
<1>9. CASE SendBig(p)
  <2>1. /\ UNCHANGED <<own, mem, run, got, line, pc, core>>
        /\ chunk' = [chunk EXCEPT ![mem][p] = <<run, p, p>>] /\ pc[p] = "run"
        /\ sent' = sent \cup {<<p, p>>} /\ <<p, p>> \notin sent
    BY <1>9 DEF SendBig, Sends, tables
  <2>2. HasReset(r, s)
    BY <2>1 DEF HasReset
  <2>3. r # s => Unread(line[own[r]][RecvBuf(r, s)], <<s, r>>)'
    BY <1>0, <2>1, <2>2, UnreadKept DEF Clean
  <2>4. CASE s = p
    <3>1. chunk'[mem][s] = <<run, p, p>>
      BY <1>2, <2>1, <2>4
    <3>. QED  BY <1>5, <2>1, <2>3, <2>4, <3>1 DEF Unread
  <2>5. CASE s # p
    <3>1. chunk'[mem][s] = chunk[mem][s]
      BY <1>2, <2>1, <2>5
    <3>. QED  BY <1>0, <2>1, <2>2, <2>3, <3>1, UnreadKept DEF Clean
  <2>. QED  BY <2>4, <2>5
<1>10. ASSUME NEW q \in Procs, Recv(p, q)
       PROVE  /\ Unread(chunk[mem][s], <<s, s>>)'
              /\ r # s => Unread(line[own[r]][RecvBuf(r, s)], <<s, r>>)'
  <2>1. /\ p # q /\ got' = got \cup {<<q, p>>} /\ pc[p] = "run"
        /\ line' = [line EXCEPT ![own[p]][RecvBuf(p, q)] = Empty]
        /\ UNCHANGED <<chunk, run, mem, own, sent, pc, core>>
    BY <1>10, RecvFacts
  <2>2. HasReset(r, s) /\ own[r] \in Objects
    BY <1>1, <1>4, <2>1 DEF HasReset
  <2>3. Unread(chunk[mem][s], <<s, s>>)'
    BY <1>0, <2>1, <2>2 DEF Clean, Unread
  <2>4. ASSUME r # s PROVE Unread(line[own[r]][RecvBuf(r, s)], <<s, r>>)'
    <3>1. RecvBuf(r, s) \in Lines
      BY <2>4, LineFacts
    <3>2. CASE r = p /\ s = q
      <4>1. line'[own[r]][RecvBuf(r, s)] = Empty
        BY <1>2, <2>1, <2>2, <3>1, <3>2
      <4>. QED  BY <2>1, <4>1 DEF Unread
    <3>3. CASE ~(r = p /\ s = q)
      <4>1. line'[own[r]][RecvBuf(r, s)] \in {line[own[r]][RecvBuf(r, s)], Empty}
        BY <1>2, <2>1, <2>2, <3>1
      <4>2. <<s, r>> # <<q, p>>
        BY <3>3
      <4>. QED  BY <1>0, <2>1, <2>2, <2>4, <4>1, <4>2 DEF Clean, Unread
    <3>. QED  BY <3>2, <3>3
  <2>. QED  BY <2>3, <2>4
<1>11. ASSUME NEW q \in Procs, RecvBig(p, q)
       PROVE  /\ Unread(chunk[mem][s], <<s, s>>)'
              /\ r # s => Unread(line[own[r]][RecvBuf(r, s)], <<s, r>>)'
  <2>1. /\ got' = got \cup {<<q, q>>} /\ pc[p] = "run"
        /\ chunk' = [chunk EXCEPT ![mem][q] = Empty]
        /\ UNCHANGED <<line, run, mem, own, sent, pc, core>>
    BY <1>11, RecvBigFacts
  <2>2. HasReset(r, s)
    BY <2>1 DEF HasReset
  <2>3. r # s => Unread(line[own[r]][RecvBuf(r, s)], <<s, r>>)'
    BY <1>0, <2>1, <2>2 DEF Clean, Unread
  <2>4. CASE s = q
    <3>1. chunk'[mem][s] = Empty
      BY <1>2, <2>1, <2>4
    <3>. QED  BY <2>1, <2>3, <3>1 DEF Unread
  <2>5. CASE s # q
    <3>1. chunk'[mem][s] = chunk[mem][s] /\ <<s, s>> # <<q, q>>
      BY <1>2, <2>1, <2>5
    <3>. QED  BY <1>0, <2>1, <2>2, <2>3, <3>1 DEF Clean, Unread
  <2>. QED  BY <2>4, <2>5
<1>12. CASE ResetDone(p) \/ Barrier(p) \/ Map(p) \/ MapDone(p) \/ Announce(p) \/ Await(p)
            \/ AwaitDone(p) \/ ssmp_term(p)
  <2>1. UNCHANGED <<line, chunk, run, sent, got, mem, own>>
    BY <1>12 DEF ResetDone, Barrier, Map, MapDone, Announce, Await, AwaitDone, ssmp_term,
      tables, memory, history, X86
  <2>2. HasReset(r, s)
    <3>1. CASE r # p
      BY <1>1, <3>1 DEF HasReset
    <3>2. CASE r = p /\ ResetDone(p)
      BY <1>3, <3>2 DEF ResetDone, HasReset
    <3>3. CASE r = p /\ ~ResetDone(p)
      BY <1>2, <1>12, <3>3 DEF Barrier, Map, MapDone, Announce, Await, AwaitDone, ssmp_term, Goto, HasReset
    <3>. QED  BY <3>1, <3>2, <3>3
  <2>. QED  BY <1>0, <2>1, <2>2 DEF Clean, Unread
<1>. QED
  BY <1>6, <1>7, <1>8, <1>9, <1>10, <1>11, <1>12 DEF Starting, Running

\* What is sent stays until it is received.
LEMMA ErasedStep ==
  ASSUME X86, IInv, NEW p \in Procs, Starting(p) \/ Running(p)
  PROVE  NothingErased' /\ NoGhosts'
<1>0. TypeOK /\ InPhase /\ MemKept /\ NothingErased /\ NoGhosts /\ \A q \in Procs : NamesKept(q)
  BY DEF IInv
<1>1. /\ \A q \in Procs : q # p => pc'[q] = pc[q] /\ core'[q] = core[q]
      /\ pc[p] \notin {"none", "ended"} /\ pc'[p] \notin {"none", "open"}
  BY <1>0, Moves
<1>2. /\ line \in [Objects -> [Lines -> Messages]] /\ chunk \in [Objects -> [Procs -> Messages]]
      /\ mem \in Objects
  BY <1>0, <1>1 DEF TypeOK, MemKept
<1>3. \A c \in sent : c \in Procs \X Procs /\ c = <<c[1], c[2]>> /\ c[1] \in Procs /\ c[2] \in Procs
  BY <1>0 DEF TypeOK
\* The lines of a channel with a receiver that lives, and those it is in.
<1>4. \A c \in sent : pc[c[2]] # "ended" => own[c[2]] \in Objects /\ own[c[2]] # None
  BY <1>0, <1>3 DEF InPhase, NamesKept, Objects, None
<1>5. \A c \in sent : c[1] # c[2] => RecvBuf(c[2], c[1]) \in Lines
  BY <1>3, LineFacts
<1>6. \A c \in sent : c \in got \/ pc[c[2]] = "ended" \/
        IF c[1] = c[2] THEN chunk[mem][c[1]] = <<run, c[1], c[2]>>
        ELSE line[own[c[2]]][RecvBuf(c[2], c[1])] = <<run, c[1], c[2]>>
  BY <1>0 DEF NothingErased, Waiting, RecvObject, X86
<1> DEFINE Kept(c) == \/ c \in got' \/ pc'[c[2]] = "ended"
                      \/ IF c[1] = c[2] THEN chunk'[mem'][c[1]] = <<run', c[1], c[2]>>
                         ELSE own'[c[2]] # None /\ line'[own'[c[2]]][RecvBuf(c[2], c[1])] = <<run', c[1], c[2]>>
<1>7. SUFFICES ghosts' = 0 /\ \A c \in sent' : Kept(c)
  BY DEF NothingErased, Waiting, RecvObject, X86, NoGhosts
<1>8. CASE OpenOwn(p) \/ Reset(p)
  <2>1. arrived # Procs
    BY <1>0, <1>8 DEF InPhase, OpenOwn, Reset
  <2>2. sent' = {} /\ ghosts' = ghosts
    BY <1>0, <1>8, <2>1 DEF InPhase, OpenOwn, Reset, history
  <2>. QED  BY <1>0, <2>2 DEF NoGhosts
<1>9. CASE ResetDone(p) \/ Barrier(p) \/ Map(p) \/ MapDone(p) \/ Announce(p) \/ Await(p)
            \/ AwaitDone(p) \/ ssmp_term(p)
  <2>1. UNCHANGED <<line, chunk, run, sent, got, mem, own, ghosts>>
    BY <1>9 DEF ResetDone, Barrier, Map, MapDone, Announce, Await, AwaitDone, ssmp_term,
      tables, memory, history, X86
  <2>2. \A q \in Procs : pc[q] = "ended" => pc'[q] = "ended"
    BY <1>1
  <2>3. \A c \in sent : Kept(c)
    BY <1>3, <1>4, <1>6, <2>1, <2>2
  <2>. QED  BY <1>0, <2>1, <2>3 DEF NoGhosts
<1>10. ASSUME NEW q \in Procs, Send(p, q) PROVE ghosts' = 0 /\ \A c \in sent' : Kept(c)
  <2>1. /\ UNCHANGED <<own, mem, run, got, chunk, pc, ghosts>> /\ p # q /\ pc[p] = "run"
        /\ line' = [line EXCEPT ![out[p][q]][RecvBuf(q, p)] = <<run, p, q>>]
        /\ sent' = sent \cup {<<p, q>>} /\ <<p, q>> \notin sent
    BY <1>10, LineFacts DEF Send, Sends, tables, SendObject, X86
  <2>2. pc[q] # "ended" => own[q] = out[p][q] /\ own[q] \in Objects /\ own[q] # None
    BY <2>1 DEF IInv, Mapped, HasMapped, Objects, None
  <2>3. Kept(<<p, q>>)
    <3>1. RecvBuf(q, p) \in Lines
      BY <2>1, LineFacts
    <3>2. pc[q] # "ended" => line'[own[q]][RecvBuf(q, p)] = <<run, p, q>>
      BY <1>2, <2>1, <2>2, <3>1
    <3>. QED  BY <2>1, <2>2, <3>2
  <2>4. ASSUME NEW c \in sent PROVE Kept(c)
    <3>1. CASE c[1] = c[2] \/ c \in got \/ pc[c[2]] = "ended"
      BY <1>6, <2>1, <3>1
    <3>2. CASE c[1] # c[2] /\ c \notin got /\ pc[c[2]] # "ended"
      <4>1. RecvBuf(c[2], c[1]) # RecvBuf(q, p)
        <5>1. ~(c[2] = q /\ c[1] = p)
          BY <1>3, <2>1
        <5>. QED  BY <1>3, <2>1, <3>2, <5>1, LineFacts
      <4>2. line'[own[c[2]]][RecvBuf(c[2], c[1])] = line[own[c[2]]][RecvBuf(c[2], c[1])]
        BY <1>2, <1>4, <1>5, <2>1, <3>2, <4>1
      <4>. QED  BY <1>4, <1>6, <2>1, <3>2, <4>2
    <3>. QED  BY <3>1, <3>2
  <2>. QED  BY <1>0, <2>1, <2>3, <2>4 DEF NoGhosts
<1>11. CASE SendBig(p)
  <2>1. /\ UNCHANGED <<own, mem, run, got, line, pc, ghosts>>
        /\ chunk' = [chunk EXCEPT ![mem][p] = <<run, p, p>>]
        /\ sent' = sent \cup {<<p, p>>} /\ <<p, p>> \notin sent
    BY <1>11 DEF SendBig, Sends, tables
  <2>2. Kept(<<p, p>>)
    BY <1>2, <2>1
  <2>3. ASSUME NEW c \in sent PROVE Kept(c)
    <3>1. c[1] = c[2] => chunk'[mem][c[1]] = chunk[mem][c[1]]
      BY <1>2, <1>3, <2>1
    <3>. QED  BY <1>4, <1>6, <2>1, <3>1
  <2>. QED  BY <1>0, <2>1, <2>2, <2>3 DEF NoGhosts
<1>12. ASSUME NEW q \in Procs, Recv(p, q) PROVE ghosts' = 0 /\ \A c \in sent' : Kept(c)
  <2>1. /\ p # q /\ got' = got \cup {<<q, p>>} /\ ghosts' = ghosts
        /\ line' = [line EXCEPT ![own[p]][RecvBuf(p, q)] = Empty]
        /\ UNCHANGED <<chunk, run, mem, own, sent, pc>>
    BY <1>12, RecvFacts
  <2>2. ASSUME NEW c \in sent PROVE Kept(c)
    <3>1. CASE c[1] = c[2] \/ c \in got' \/ pc[c[2]] = "ended"
      BY <1>6, <2>1, <3>1
    <3>2. CASE c[1] # c[2] /\ c \notin got' /\ pc[c[2]] # "ended"
      <4>1. RecvBuf(c[2], c[1]) # RecvBuf(p, q)
        <5>1. ~(c[2] = p /\ c[1] = q)
          BY <1>3, <2>1, <3>2
        <5>. QED  BY <1>3, <2>1, <3>2, <5>1, LineFacts
      <4>2. line'[own[c[2]]][RecvBuf(c[2], c[1])] = line[own[c[2]]][RecvBuf(c[2], c[1])]
        BY <1>2, <1>4, <1>5, <2>1, <3>2, <4>1
      <4>. QED  BY <1>4, <1>6, <2>1, <3>2, <4>2
    <3>. QED  BY <3>1, <3>2
  <2>. QED  BY <1>0, <2>1, <2>2 DEF NoGhosts
<1>13. ASSUME NEW q \in Procs, RecvBig(p, q) PROVE ghosts' = 0 /\ \A c \in sent' : Kept(c)
  <2>1. /\ got' = got \cup {<<q, q>>} /\ ghosts' = ghosts
        /\ chunk' = [chunk EXCEPT ![mem][q] = Empty]
        /\ UNCHANGED <<line, run, mem, own, sent, pc>>
    BY <1>13, RecvBigFacts
  <2>2. ASSUME NEW c \in sent PROVE Kept(c)
    <3>1. c[1] = c[2] /\ c \notin got' => chunk'[mem][c[1]] = chunk[mem][c[1]]
      BY <1>2, <1>3, <2>1
    <3>. QED  BY <1>4, <1>6, <2>1, <3>1
  <2>. QED  BY <1>0, <2>1, <2>2 DEF NoGhosts
<1>. QED
  BY <1>8, <1>9, <1>10, <1>11, <1>12, <1>13 DEF Starting, Running

(***************************************************************************)
(* The invariant.                                                          *)
(***************************************************************************)
LEMMA InitInv == Init => IInv
<1> SUFFICES ASSUME Init PROVE IInv
  OBVIOUS
<1>1. TypeOK
  BY InitType
<1>2. \A p \in Procs : pc[p] = "none"
  BY DEF Init
<1>3. run = 0 /\ \A x \in Names : named[x] = 0 /\ made[x] = 0
  BY DEF Init, None
<1>4. MemKept
  BY <1>2, <1>3, NameFacts DEF MemKept
<1>5. InPhase
  BY <1>2 DEF Init, InPhase
<1>6. \A p \in Procs : NamesKept(p)
  BY <1>2, <1>3, NameFacts DEF NamesKept
<1>7. \A p, q \in Procs : Mapped(p, q) /\ Clean(p, q)
  BY <1>2 DEF Mapped, HasMapped, Clean, HasReset
<1>8. NothingErased /\ NoGhosts
  BY DEF Init, NothingErased, NoGhosts
<1>. QED  BY <1>1, <1>4, <1>5, <1>6, <1>7, <1>8 DEF IInv

\* A run that starts, or is killed.
LEMMA RunStep ==
  ASSUME X86, IInv, ssmp_init \/ Crash
  PROVE  IInv'
<1>1. \A p \in Procs : pc'[p] \in {"none", "open"}
  BY DEF ssmp_init, Crash, FirstStep, X86
<1>2. sent' = {} /\ got' = {} /\ ghosts' = ghosts
  BY DEF ssmp_init, Crash
<1>3. TypeOK'
  <2>1. \A x \in Names : named[x] <= made[x]
    BY DEF IInv, MemKept, NamesKept, Names
  <2>. QED  BY <2>1, InitStepType, CrashType DEF IInv
<1>4. MemKept' /\ \A p \in Procs : NamesKept(p)'
  BY NamesInit, NamesCrash
<1>5. InPhase'
  <2>1. CASE ssmp_init
    <3>1. arrived' = {} /\ \A p \in Procs : core'[p] = 0
      BY <2>1 DEF ssmp_init, BarriersReset
    <3>. QED  BY <1>1, <1>2, <3>1 DEF InPhase
  <2>2. CASE Crash
    <3>1. \A p \in Procs : pc'[p] = "none"
      BY <2>2 DEF Crash
    <3>2. arrived' \subseteq Procs
      BY <1>3 DEF TypeOK
    <3>. QED  BY <1>2, <3>1, <3>2 DEF InPhase
  <2>. QED  BY <2>1, <2>2
<1>6. \A p, q \in Procs : Mapped(p, q)' /\ Clean(p, q)'
  BY <1>1 DEF Mapped, HasMapped, Clean, HasReset
<1>7. NothingErased' /\ NoGhosts'
  BY <1>2 DEF IInv, NothingErased, NoGhosts
<1>. QED  BY <1>3, <1>4, <1>5, <1>6, <1>7 DEF IInv

LEMMA InductiveStep == X86 /\ IInv /\ [Next]_vars => IInv'
<1> SUFFICES ASSUME X86, IInv, [Next]_vars PROVE IInv'
  OBVIOUS
<1>1. CASE UNCHANGED vars
  <2>1. TypeOK' /\ MemKept' /\ InPhase'
    BY <1>1 DEF IInv, TypeOK, MemKept, InPhase, vars, objects, memory, tables, history
  <2>2. \A p \in Procs : NamesKept(p)'
    BY <1>1 DEF IInv, NamesKept, vars, objects, memory, tables
  <2>3. \A p, q \in Procs : Mapped(p, q)' /\ Clean(p, q)'
    BY <1>1 DEF IInv, Mapped, HasMapped, Clean, HasReset, Unread, vars, memory, tables, history
  <2>4. NothingErased' /\ NoGhosts'
    BY <1>1 DEF IInv, NothingErased, Waiting, RecvObject, NoGhosts, vars, memory, tables, history
  <2>. QED  BY <2>1, <2>2, <2>3, <2>4 DEF IInv
<1>2. CASE ssmp_init \/ Crash
  BY <1>2, RunStep
<1>3. ASSUME NEW p \in Procs, Starting(p) \/ Running(p) PROVE IInv'
  <2>1. TypeOK'
    <3>1. TypeOK /\ MemKept /\ NamesKept(p) /\ \A q \in Procs : named[q] <= made[q]
      BY DEF IInv, NamesKept
    <3>. QED  BY <1>3, <3>1, StartingType, RunningType
  <2>2. MemKept' /\ \A q \in Procs : NamesKept(q)'
    BY <1>3, NamesStep
  <2>3. InPhase'
    BY <1>3, PhaseStep
  <2>4. \A q, r \in Procs : Mapped(q, r)' /\ Clean(q, r)'
    BY <1>3, MappedStep, CleanStep
  <2>5. NothingErased' /\ NoGhosts'
    BY <1>3, ErasedStep
  <2>. QED  BY <2>1, <2>2, <2>3, <2>4, <2>5 DEF IInv
<1>. QED  BY <1>1, <1>2, <1>3 DEF Next

\* The inductive invariant holds of every execution on x86: any number of processes
\* or threads, any number of runs, each of which may be killed at any step.
THEOREM InvariantHolds == X86 => (Spec => []IInv)
<1> SUFFICES ASSUME X86 PROVE Spec => []IInv
  OBVIOUS
<1>1. Init => IInv
  BY InitInv
<1>2. IInv /\ [Next]_vars => IInv'
  BY InductiveStep
<1>. QED  BY <1>1, <1>2, PTL DEF Spec

\* Nobody's initialisation erases a message (the resets and barrier 0 of
\* ssmp_mem_init, arch/x86): what was sent to a process that lives is received, or
\* is where that process looks.
THEOREM ErasesNothing == X86 => (Spec => []NothingErased)
<1> SUFFICES ASSUME X86 PROVE Spec => []NothingErased
  OBVIOUS
<1>1. IInv => NothingErased
  BY DEF IInv
<1>. QED  BY <1>1, InvariantHolds, PTL

\* No message of a crashed run, and no message of another channel, is ever received.
THEOREM ReceivesNoGhosts == X86 => (Spec => []NoGhosts)
<1> SUFFICES ASSUME X86 PROVE Spec => []NoGhosts
  OBVIOUS
<1>1. IInv => NoGhosts
  BY DEF IInv
<1>. QED  BY <1>1, InvariantHolds, PTL

\* Whoever has left ssmp_mem_init sends through the object its receiver polls,
\* although objects are found by names that come and go.
THEOREM ConnectsAll == X86 => (Spec => []Connected)
<1> SUFFICES ASSUME X86 PROVE Spec => []Connected
  OBVIOUS
<1>1. IInv => Connected
  BY DEF IInv, Connected, Mapped, HasMapped, SendObject, RecvObject, X86
<1>. QED  BY <1>1, InvariantHolds, PTL
=============================================================================
