------------------------------ MODULE Startup ------------------------------
(***************************************************************************)
(* The life of the shared memory: ssmp_init, before the processes are      *)
(* forked (or the threads created), ssmp_mem_init and ssmp_term in each of *)
(* them, and what the next run finds after a run that ended or crashed.    *)
(*                                                                         *)
(* A shared object has a name; shm_unlink takes the name away, who has     *)
(* mapped the object keeps it, and the next shm_open creates another one   *)
(* full of zeros.  An object whose name still exists is used as it is      *)
(* ("this time it is ok if it already exists").                            *)
(*                                                                         *)
(* arch/x86: one object per process for its lines, and between the resets  *)
(* and the first use barrier 0, which ssmp_init resets.  Processes map the *)
(* objects of the others by name, threads find them in map[].  arch/sparc: *)
(* all lines in one object, no barrier.  Addresses are Layout's.           *)
(***************************************************************************)
EXTENDS Layout, FiniteSets

CONSTANTS
  MaxRuns,     \* bound: runs, one after the other
  MaxSent      \* bound: messages in a run

ASSUME StartupAssumption == N > 1 /\ MaxRuns \in Nat /\ MaxSent \in Nat

\* Names: SSMP_MEM_NAME and, on x86, "/ssmp_core%03d".
MEM == 0 - 1
Names == Procs \cup {MEM}

None == 0                          \* no object
Objects == 1 .. 2 * MaxRuns        \* the objects that a name may stand for in turn

\* What a line or a chunk buffer holds: nothing, or the message of a channel, with
\* its run.  <<p, p>> is the channel of p's chunk buffer, which has no receiver.
Empty == << >>

VARIABLES
  threads,   \* the library is ssmpthread.h's
  run,       \* the number of the run
  named,     \* named[x]: the object that the name x stands for
  made,      \* made[x]: how many objects have been created under the name x
  mem,       \* the object ssmp_init mapped: ssmp_mem
  ues_initialized, chunk, map,   \* in the object mem: per process
  line,      \* line[o][l]: the line at address l, if its object is o
  own,       \* own[p]: the object p's receive lines are in
  out,       \* out[p][q]: the object p sends to q through
  pc,        \* pc[p]: where p is; "none": not running
  core,      \* core[p]: the loop counter over the processes
  arrived,   \* the processes that have come to barrier 0
  sent, got, \* history: the channels used in this run, and those received from
  ghosts     \* history: messages received that nobody sent so in this run

objects == <<named, made>>
memory  == <<ues_initialized, chunk, map, line>>
tables  == <<mem, own, out>>
history == <<sent, got, ghosts>>
vars    == <<threads, run, objects, memory, tables, pc, core, arrived, history>>

Init == /\ threads \in IF Arch = "x86" THEN BOOLEAN ELSE {FALSE}
        /\ run = 0
        /\ named = [x \in Names |-> None]
        /\ made = [x \in Names |-> 0]
        /\ ues_initialized = [o \in Objects |-> [p \in Procs |-> 0]]
        /\ chunk = [o \in Objects |-> [p \in Procs |-> Empty]]
        /\ map = [o \in Objects |-> [p \in Procs |-> <<0, None>>]]
        /\ line = [o \in Objects |-> [l \in Lines |-> Empty]]
        /\ mem = None
        /\ own = [p \in Procs |-> None]
        /\ out = [p \in Procs |-> [q \in Procs |-> None]]
        /\ pc = [p \in Procs |-> "none"]
        /\ core = [p \in Procs |-> 0]
        /\ arrived = {}
        /\ sent = {} /\ got = {} /\ ghosts = 0

Goto(p, at) == pc' = [pc EXCEPT ![p] = at]

\* shm_open(O_CREAT | O_EXCL) and ftruncate, or shm_open of what exists.
Open(x) == IF named[x] # None
           THEN UNCHANGED objects
           ELSE /\ made' = [made EXCEPT ![x] = @ + 1]
                /\ named' = [named EXCEPT ![x] = made[x] + 1]

Unlink(xs) == named' = [x \in Names |-> IF x \in xs THEN None ELSE named[x]]

(***************************************************************************)
(* ssmp_init, called by one process, which then forks the others.          *)
(***************************************************************************)
FirstStep == IF Arch = "x86" THEN "open" ELSE "reset"

BarriersKept == arrived                              \* mutation: of a crashed run
BarriersReset == {}

ssmp_init ==
  /\ \A p \in Procs : pc[p] \in {"none", "ended"}
  /\ run < MaxRuns
  /\ run' = run + 1
  /\ Open(MEM)
  /\ mem' = named'[MEM]
  /\ arrived' = BarriersReset
  /\ own' = [p \in Procs |-> None]
  /\ out' = [p \in Procs |-> [q \in Procs |-> None]]
  /\ pc' = [p \in Procs |-> FirstStep]
  /\ core' = [p \in Procs |-> 0]
  /\ sent' = {} /\ got' = {}
  /\ UNCHANGED <<threads, memory, ghosts>>

(***************************************************************************)
(* ssmp_mem_init, called by everyone.                                      *)
(***************************************************************************)
\* The object of the process's own receive lines.
OpenOwn(p) ==
  /\ pc[p] = "open"
  /\ Open(p)
  /\ own' = [own EXCEPT ![p] = named'[p]]
  /\ map' = IF threads THEN [map EXCEPT ![mem][p] = <<run, named'[p]>>] ELSE map
  /\ Goto(p, "reset")
  /\ UNCHANGED <<threads, run, ues_initialized, chunk, line, mem, out, core, arrived, history>>

\* Which object a line is in: that of the receiver, or the only one.
RecvObject(p)    == IF Arch = "x86" THEN own[p] ELSE mem
SendObject(p, q) == IF Arch = "x86" THEN out[p][q] ELSE mem

EmptiedKept(p, q) == line                            \* mutation: the state is left as found
Emptied(p, q) == [line EXCEPT ![RecvObject(p)][RecvBuf(p, q)] = Empty]

\* ssmp_recv_buf[core]->state = 0; x86 has no line to oneself, and empties the
\* chunk buffers of everyone.
Reset(p) ==
  /\ pc[p] = "reset"
  /\ core[p] < N
  /\ line' = IF Arch = "x86" /\ core[p] = p THEN line ELSE Emptied(p, core[p])
  /\ chunk' = IF Arch = "x86" THEN [chunk EXCEPT ![mem][core[p]] = Empty] ELSE chunk
  /\ core' = [core EXCEPT ![p] = @ + 1]
  /\ UNCHANGED <<threads, run, objects, ues_initialized, map, tables, pc, arrived, history>>

AfterResetNow == "map"                               \* mutation: no barrier on x86
AfterReset == IF Arch = "x86" THEN "barrier" ELSE "announce"

\* The end of the loop; sparc empties the process's own chunk buffer here.
ResetDone(p) ==
  /\ pc[p] = "reset"
  /\ core[p] = N
  /\ chunk' = IF Arch = "x86" THEN chunk ELSE [chunk EXCEPT ![mem][p] = Empty]
  /\ core' = [core EXCEPT ![p] = 0]
  /\ arrived' = arrived \cup {p}
  /\ Goto(p, AfterReset)
  /\ UNCHANGED <<threads, run, objects, ues_initialized, map, line, tables, history>>

\* ssmp_barrier_wait(0): as Rendezvous promises.
Barrier(p) ==
  /\ pc[p] = "barrier"
  /\ arrived = Procs
  /\ Goto(p, "map")
  /\ UNCHANGED <<threads, run, objects, memory, tables, core, arrived, history>>

\* The object of another one's lines: by its name; threads by map[core], where a
\* pointer that an earlier run left points nowhere.
MapProcess(p, q) ==
  /\ Open(q)
  /\ out' = [out EXCEPT ![p][q] = named'[q]]

MapThread(p, q) ==
  /\ out' = [out EXCEPT ![p][q] = IF map[mem][q][1] = run THEN map[mem][q][2] ELSE None]
  /\ UNCHANGED objects

Map(p) ==
  /\ pc[p] = "map"
  /\ core[p] < N
  /\ \/ core[p] = p /\ UNCHANGED <<objects, out>>
     \/ core[p] # p /\ threads /\ MapThread(p, core[p])
     \/ core[p] # p /\ ~threads /\ MapProcess(p, core[p])
  /\ core' = [core EXCEPT ![p] = @ + 1]
  /\ UNCHANGED <<threads, run, memory, mem, own, pc, arrived, history>>

MapDone(p) ==
  /\ pc[p] = "map"
  /\ core[p] = N
  /\ core' = [core EXCEPT ![p] = 0]
  /\ Goto(p, "announce")
  /\ UNCHANGED <<threads, run, objects, memory, tables, arrived, history>>

AnnouncedNot(p) == ues_initialized                   \* mutation
Announced(p) == [ues_initialized EXCEPT ![mem][p] = 1]

Announce(p) ==
  /\ pc[p] = "announce"
  /\ ues_initialized' = Announced(p)
  /\ Goto(p, "await")
  /\ UNCHANGED <<threads, run, objects, chunk, map, line, tables, core, arrived, history>>

\* while (!ues_initialized[ue]), for each ue.
Await(p) ==
  /\ pc[p] = "await"
  /\ core[p] < N
  /\ ues_initialized[mem][core[p]] = 1
  /\ core' = [core EXCEPT ![p] = @ + 1]
  /\ UNCHANGED <<threads, run, objects, memory, tables, pc, arrived, history>>

AwaitDone(p) ==
  /\ pc[p] = "await"
  /\ core[p] = N
  /\ core' = [core EXCEPT ![p] = 0]
  /\ Goto(p, "run")
  /\ UNCHANGED <<threads, run, objects, memory, tables, arrived, history>>

(***************************************************************************)
(* The application (Mailbox and BigMessage, one step per message; at most  *)
(* one message per channel and run).                                       *)
(***************************************************************************)
Sends(p, c) ==
  /\ pc[p] = "run"
  /\ c \notin sent
  /\ Cardinality(sent) < MaxSent
  /\ sent' = sent \cup {c}
  /\ UNCHANGED <<threads, run, objects, ues_initialized, map, tables, pc, core, arrived, got, ghosts>>

Send(p, q) ==
  LET o == SendObject(p, q)
      l == SendBuf(p, q)
  IN  /\ p # q
      /\ Sends(p, <<p, q>>)
      /\ o # None
      /\ line[o][l] = Empty
      /\ line' = [line EXCEPT ![o][l] = <<run, p, q>>]
      /\ UNCHANGED chunk

SendBig(p) ==
  /\ Sends(p, <<p, p>>)
  /\ chunk[mem][p] = Empty
  /\ chunk' = [chunk EXCEPT ![mem][p] = <<run, p, p>>]
  /\ UNCHANGED line

\* What p receives is the message of channel c, or something else.
Receives(p, c, what) ==
  /\ pc[p] = "run"
  /\ what # Empty
  /\ IF what = <<run, c[1], c[2]>> /\ c \notin got
     THEN got' = got \cup {c} /\ UNCHANGED ghosts
     ELSE ghosts' = ghosts + 1 /\ UNCHANGED got
  /\ UNCHANGED <<threads, run, objects, ues_initialized, map, tables, pc, core, arrived, sent>>

Recv(p, q) ==
  /\ p # q
  /\ Receives(p, <<q, p>>, line[RecvObject(p)][RecvBuf(p, q)])
  /\ line' = Emptied(p, q)
  /\ UNCHANGED chunk

RecvBig(p, q) ==
  /\ p # q
  /\ Receives(p, <<q, q>>, chunk[mem][q])
  /\ chunk' = [chunk EXCEPT ![mem][q] = Empty]
  /\ UNCHANGED line

(***************************************************************************)
(* The end: ssmp_term in each process, or a crash of all.                  *)
(***************************************************************************)
ssmp_term(p) ==
  /\ pc[p] = "run"
  /\ Unlink((IF p = 0 THEN {MEM} ELSE {}) \cup (IF Arch = "x86" THEN {p} ELSE {}))
  /\ Goto(p, "ended")
  /\ UNCHANGED <<threads, run, made, memory, tables, core, arrived, history>>

\* Everyone is killed (a process that dies alone leaves the others waiting, until
\* they are killed too); the objects stay.
Crash ==
  /\ run < MaxRuns
  /\ \E p \in Procs : pc[p] \notin {"none", "ended"}
  /\ pc' = [p \in Procs |-> "none"]
  /\ sent' = {} /\ got' = {}
  /\ UNCHANGED <<threads, run, objects, memory, tables, core, arrived, ghosts>>

Starting(p) == \/ OpenOwn(p) \/ Reset(p) \/ ResetDone(p) \/ Barrier(p) \/ Map(p) \/ MapDone(p)
               \/ Announce(p) \/ Await(p) \/ AwaitDone(p)

Running(p) == \/ \E q \in Procs : Send(p, q) \/ Recv(p, q) \/ RecvBig(p, q)
              \/ SendBig(p)
              \/ ssmp_term(p)

Next == ssmp_init \/ Crash \/ \E p \in Procs : Starting(p) \/ Running(p)

Spec == Init /\ [][Next]_vars
FairSpec == Spec /\ \A p \in Procs : WF_vars(Starting(p))

(***************************************************************************)
(* Properties.                                                             *)
(***************************************************************************)
\* No message is erased by somebody's initialisation: while its receiver lives,
\* what was sent has arrived or is where the receiver looks, although processes
\* start at different times, over memory of any age, and compute their addresses
\* separately.
Waiting(c) ==
  IF c[1] = c[2] THEN chunk[mem][c[1]] = <<run, c[1], c[2]>>
  ELSE /\ RecvObject(c[2]) # None
       /\ line[RecvObject(c[2])][RecvBuf(c[2], c[1])] = <<run, c[1], c[2]>>
NothingErased == \A c \in sent : c \in got \/ pc[c[2]] = "ended" \/ Waiting(c)

\* A process receives under a sender's name only what that sender sent to it in
\* this run, once: nothing that a crashed run left in shared memory, nothing that
\* belongs to another pair of processes.
NoGhosts == ghosts = 0

\* Two processes that have left ssmp_mem_init have the same object in their hands
\* for the lines of each, in whatever order names were given, taken away and
\* given again, in this run and the ones before.
Connected ==
  \A p, q \in Procs : pc[p] = "run" /\ pc[q] = "run" /\ p # q => SendObject(p, q) = RecvObject(q)

\* The inductive invariant of x86.  Every variable has its type.
Messages == {Empty} \cup ((0 .. MaxRuns) \X Procs \X Procs)
TypeOK ==
  /\ threads \in BOOLEAN
  /\ run \in 0 .. MaxRuns
  /\ named \in [Names -> Nat] /\ made \in [Names -> Nat]
  /\ ues_initialized \in [Objects -> [Procs -> {0, 1}]]
  /\ chunk \in [Objects -> [Procs -> Messages]]
  /\ map \in [Objects -> [Procs -> Nat \X Nat]]
  /\ line \in [Objects -> [Lines -> Messages]]
  /\ mem \in Nat /\ own \in [Procs -> Nat] /\ out \in [Procs -> [Procs -> Nat]]
  /\ pc \in [Procs -> {"none", "open", "reset", "barrier", "map", "announce", "await", "run", "ended"}]
  /\ core \in [Procs -> 0 .. N]
  /\ arrived \subseteq Procs
  /\ sent \subseteq Procs \X Procs /\ got \subseteq Procs \X Procs
  /\ ghosts \in Nat

\* A name stands for at most two objects a run: the process's own, and one that a
\* process creates by mapping it after it has ended, which the next run finds.
NamesKept(p) ==
  /\ named[p] <= made[p] /\ made[p] <= 2 * run
  /\ pc[p] = "open" => made[p] <= 2 * run - 2
  /\ pc[p] = "ended" /\ named[p] = None => made[p] <= 2 * run - 1
  /\ pc[p] \notin {"none", "open"} => own[p] \in Objects
  /\ pc[p] \notin {"none", "open", "ended"} => named[p] = own[p] /\ made[p] <= 2 * run - 1
  /\ threads /\ pc[p] \notin {"none", "open"} => map[mem][p] = <<run, own[p]>>

\* The object ssmp_init mapped, for everyone alike.
MemKept ==
  /\ named[MEM] <= made[MEM] /\ made[MEM] <= run
  /\ \A p \in Procs : pc[p] # "none" => run > 0 /\ mem \in Objects
  /\ \A p, q \in Procs : pc[p] = "none" => pc[q] = "none"

\* Nobody passes barrier 0 before everyone has reset its lines; nothing is sent
\* before that.
InPhase ==
  /\ \A p \in Procs : pc[p] \in {"open", "barrier"} => core[p] = 0
  /\ \A p \in arrived : pc[p] \notin {"open", "reset"}
  /\ \A p \in Procs : pc[p] \in {"map", "announce", "await", "run", "ended"} => arrived = Procs
  /\ sent # {} => arrived = Procs /\ \A p \in Procs : pc[p] # "none"
  /\ got \subseteq sent

\* p has mapped q's lines: those that q polls.
HasMapped(p, q) == pc[p] \in {"announce", "await", "run"} \/ (pc[p] = "map" /\ core[p] > q)
Mapped(p, q) ==
  HasMapped(p, q) /\ p # q => out[p][q] \in Objects /\ (pc[q] # "ended" => out[p][q] = own[q])

\* What p has reset holds only what was sent in this run and not received yet.
HasReset(p, q) == pc[p] \in {"barrier", "map", "announce", "await", "run"} \/ (pc[p] = "reset" /\ core[p] > q)
Unread(what, c) == what = Empty \/ (what = <<run, c[1], c[2]>> /\ c \in sent \ got)
Clean(p, q) ==
  HasReset(p, q) => /\ Unread(chunk[mem][q], <<q, q>>)
                    /\ p # q => Unread(line[own[p]][RecvBuf(p, q)], <<q, p>>)

IInv == /\ TypeOK /\ MemKept /\ InPhase
        /\ \A p \in Procs : NamesKept(p)
        /\ \A p, q \in Procs : Mapped(p, q) /\ Clean(p, q)
        /\ NothingErased /\ NoGhosts

\* Every process gets through ssmp_mem_init, unless the run crashes.
Starts == \A p \in Procs : (pc[p] = FirstStep) ~> (pc[p] \in {"run", "ended", "none"})
=============================================================================
