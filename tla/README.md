# A TLA+ model of ssmp

ssmp ("simple synchronous message passing") lets the processes, or threads, of
one machine exchange messages through shared memory.  There are no locks and no
system calls on the message path: a message occupies one cache line, which
belongs to one sender and one receiver, and a byte of that line says whose turn
it is.  Everything that can go wrong therefore lies in the order of single loads
and stores of several processes.  These modules model that level, show that it
implements what `ssmp.h` promises on every platform of the repository, follow the
shared memory over the life of several runs, and check two programs on top of
the promise.

Paths below are relative to the repository.

## 1. Inventory

| component | code | state | operations |
|---|---|---|---|
| small messages | `src/platform/{generic,opteron,xeon,niagara}/ssmp*_platf.c`, `src/ssmp*_{send,recv,broadcast}.c` | one 64-byte line per ordered pair of processes with a state byte (`SSMP_BUF_EMPTY`, `MESSG`, `LOCKD`); `start_recv_from`, static in each process | `ssmp_send`, `ssmp_send_no_sync`, `ssmp_broadcast`, `ssmp_recv_from`, `ssmp_recv`, `ssmp_recv_color`, `ssmp_recv_color_start` |
| big messages | same files | one chunk buffer per *sender*, whose last byte is its state | `ssmp_send_big`, `ssmp_recv_from_big` |
| color buffers | `src/arch/*/ssmp*_arch.c` | the cores, lines and state pointers a scan visits | `ssmp_color_buf_init`, `ssmp_color_buf_free` |
| barriers | `src/arch/{x86,sparc}/ssmp*_arch.c` | per barrier: participants, `ticket`, `cleared` | `ssmp_barrier_init`, `ssmp_barrier_wait` |
| initialisation and end | `src/arch/{x86,sparc}/ssmp*_arch.c` | the shared objects and their names, `ues_initialized`, `map[]` of the threads, the address tables of each process | `ssmp_init`, `ssmp_mem_init`, `ssmp_term` |
| tilera | `src/platform/tilera`, `src/arch/tile` | the hardware's message network, `udn_header`, tmc barriers | the same API on library calls; no big messages |
| bank | `benchmarks/bank.c`, `threadbank.c` | accounts in server processes | deposit, withdraw, check, the end of the program |
| client/server | `benchmarks/client_server.c`, `threadclient_server.c` | counters of the clients and servers | one way and round trip messages, the end |
| other drivers | `benchmarks/{one2one,one2one_big,barrier_test,cs,mainthread}.c` | - | call the library in fixed sequences |
| profiler, clocks, placement, scripts | `prof/`, `measurements.h`, `set_cpu`, `*.sh` | - | no effect on messages |

Every library file exists twice: for processes (`ssmp_*.c`) and for threads
(`ssmpthread_*.c`).  The two versions of a platform file are the same code, with
`__thread` before the variables that are static in a process; the map names one
or the other for the same definition, and spreads over the platforms' copies what
they share.

**How the parts interact.**  `ssmp_mem_init` gives a process its address tables
and (on x86) waits on barrier 0.  From then on processes meet only in lines,
chunk buffers and barriers.  A color buffer holds pointers into the receive
lines.  The programs use `ssmp_recv_color_start` in servers, `ssmp_send` and
`ssmp_recv_from` in clients, and barriers between their phases.  Nothing calls
back and nothing times out: every wait is a polling loop.

**What is hard.**

* A line is handed over without a lock, between two processes, by a copy that
  carries data and state byte together.
* A scan stands somewhere in the color buffer when messages arrive.  It must miss
  nobody, serve nobody twice while another waits, and report the sender it
  really found although the position has moved on.
* A barrier is used again at once, by processes that may be a whole round apart.
* Initialisation of different processes overlaps, over memory that an earlier run
  ended, or crashed, in; names of shared objects are taken away and given again.
* On tilera all senders share one bounded queue per receiving cpu, and a packet for
  a process that is not attached is gone.
* A chunk buffer is not addressed, and its state byte is also data.
* A program with servers has to end although servers only wait for requests.

**What makes each component correct**: small messages: every message once, whole,
in order, under its sender's name, and calls return; fair scan: bounded
overtaking; big messages: chunks in order, ends take turns, both ends finish;
barriers: nobody leaves early, everybody leaves; initialisation: nothing sent is
erased, nothing old is received, two processes hold the same object for a line;
tilera: everything sent arrives under its sender's name from start to end; bank:
books and answers agree, it ends;
client/server: answers match, nothing stays unserved, it ends.  `PROJECT.json`
lists the hazards line by line, with the properties that watch them.

## 2. Modules

```
 Channels   <-- implemented by --  Mailbox      one line per pair, step by step
                                     |- MailboxProofs    theorems of Mailbox and Niagara
                                     |- Xeon, Opteron   who claims by compare-and-swap
                                     `- Niagara         memcpy64 and the flag's own store
 ColorBuffer                       what a scan visits, and the programs' lists of cores
   `- ColorBufferProofs
 Rendezvous <-- implemented by --  Barrier      ticket and flag
                                     `- BarrierProofs
 Layout (addresses)  <-- used by --  Startup    ssmp_init ... ssmp_term
                                     `- StartupProofs   both modules' theorems
 BigMessage                        chunk buffers
   `- BigMessageProofs
 Tilera                            packets and library barriers
   `- TileraProofs
 Bank, ClientServer                programs on Channels (and on barriers as in Rendezvous)
   `- BankProofs, ClientServerProofs
 MCMailbox, MCPlatforms, MCBarrier, MCBigMessage, MCTilera     instances for TLC
```

### Mailbox (generic platform)

| model | code |
|---|---|
| `state[c]`, `line[c]` | the state byte and the data of the line of channel `c = <<sender, receiver>>` |
| `call`, `pc`, `peer`, `idx`, `msg`, `todo` | which ssmp function a process is in, where, and its locals; `todo` is what its memcpy has still to copy |
| `start[p]` | `start_recv_from` |
| `CallSend`, `CallRecv`, ... | the application calls the function |
| `SendTest`, `RecvFromTest`, `ScanHit`, `ScanMiss` | one evaluation of the polling condition (and, with a compare-and-swap, the claim) |
| `SendCopy`, `RecvCopy` | one piece of memcpy |
| `RecvRelease` | `msg->sender = ...; tmpm->state = SSMP_BUF_EMPTY; return` |
| `BroadcastNext` | one turn of `ssmp_broadcast`'s loop |

The data of the `k`-th message of a channel is a line whose words are all `k`: a
mixed, repeated, skipped or misattributed message is visible and nothing else
matters.  `sent` and `got` are histories.  The sender's count goes up when it
leaves the polling loop, because from then on the line is its own.

*memcpy.*  C leaves the order of its stores open.  `SendCopy` copies the pieces in
any order; the constant `FlagLast` restricts it to builds whose memcpy stores the
piece with the state byte last.  This is the one thing the protocol needs and the
code does not state.  It is not automatic: the state byte is at the end of the
line, in the last 16-byte piece, and a memcpy that stores the two ends of a block
before its middle (as some vectorised ones do for 64 bytes) stores that piece
before another one.  `MailboxTorn` shows the consequence.  Within a piece, stores
are taken to be atomic, and stores and loads are sequentially consistent: on x86
stores are not reordered with stores or loads with loads, and no property here
relates a store to a later load of the same process from another line.

*Compare-and-swap.*  `Cas[p][f]` is the set of keys for which function `f` of `p`
claims by compare-and-swap, leaving `LOCKD`.  It is empty where nothing is claimed
so.  For the color functions the key is the position in the color buffer.

### Xeon, Opteron, Niagara

`Xeon` computes `Cas` as that platform does: by socket, except that `ssmp_recv`
follows `USE_ATOMIC` and the color functions compare the socket of the *position*.
`Opteron` claims everything or nothing, as `USE_ATOMIC` says; the prefetches it
otherwise does have no effect.  Both are sets per function; the steps are
Mailbox's.

`Niagara` is built differently: `memcpy64` copies double words in the order of their
addresses, and the state byte is a store of its own.  Each of its functions is
spelled out as the steps it takes (`memcpy64_out`, `StoreState`, `memcpy64_in`), so
that `FlagLast`, which elsewhere is an assumption about the build, is here what the
code says.

`MCPlatforms` runs one program (a collector that uses every receive, a sender, a
broadcaster) on each of the four: the variable `platform` chooses the next-state
relation once, and the properties are the same formulas for all.

### Barrier

One variable for `ticket`, one for `cleared`; each statement of
`ssmp_barrier_wait_platf` that touches them is an action.  `NumPart` is the loop
that counts participants, with the 64 one bits `ssmp_barrier_init_platf` really
stores.  Participation is `Weight(p) # 0` as in the code, and `NumPart` sums the
weights, as in the code.  The abstract specification `Rendezvous` has only the
numbers of waits entered and left.

### BigMessage

One process fills its chunk buffer, another drains it, by pieces; the piece
`LastByte` of a whole chunk is the state byte itself.  `LastBytes` are the values
the data may have there.

### Layout and Startup

`Layout` gives the address of a line as sender and receiver compute it, on x86
(an object per receiver, indexes that skip the owner) and sparc (a square in one
object).  `Startup` uses these addresses.

| model | code |
|---|---|
| `named[x]`, `Open`, `Unlink` | `shm_open` with and without `O_EXCL`, `shm_unlink`: a name stands for an object; who has mapped an object keeps it |
| `run`, `ssmp_init`, `Crash`, `ssmp_term` | the memory's life: one run after the other, each of which ends by `ssmp_term` in every process, or is killed at any step |
| `threads` | whether the library is `ssmpthread.h`'s: threads find each other's lines in `map[]` in the shared object, processes by name |
| `OpenOwn`, `Reset`, `ResetDone`, `Barrier`, `Map`, `Announce`, `Await` | `ssmp_mem_init`, each reset and each look at `ues_initialized` a step |
| `Send`, `Recv`, `SendBig`, `RecvBig` | one message, through a line or the sender's chunk buffer |

A message carries its run and channel, so what an earlier run left is told from what
this one sent.  Barrier 0 is taken as `Rendezvous` promises it.  A pointer that an
earlier run's thread left in `map[]` points to nothing.

### Tilera

The message network and the `tmc_sync` barriers are external, modelled from how
`src/` uses them: each cpu has a queue of `Room` packets for all senders, a sender
waits for room, packets of one sender stay in order, and a packet for a cpu that
is not attached to the network is lost.  Everything of `platform/tilera` and
`arch/tile` on top of it is there: `set_cpu`, `udn_header`, the signing of the
message in the sender's own buffer, the broadcast, receives that take the next
packet, and barriers that count whoever calls.  A process initialises, waits on
barrier 0, works, and waits on another barrier before `ssmp_term`, as the programs
of the repository do.  `Accounts(s, p, q)` compares what `q` got from `p` and what
waits in `s` with what `p` has sent.

### ColorBuffer

`in_order` is the loop over the cores that `ssmp_color_buf_init_platf` and both
programs have: it puts the cores of a set into an array, one after the other.
`ssmp_color_buf_init` is that loop on the other cores of a color; `dsl_seq` and
`app_seq` of the programs are the same loop on servers and clients.

### Bank and ClientServer

The programs' loops with `ssmp_send` and `ssmp_recv_*` as `Accept` and `Deliver`
of `Channels`, and barrier waits as `Rendezvous` promises them.  The scan of the
servers' `ssmp_recv_color_start` is kept (`start`, `ScanMiss`), because which
message a server sees next is what the end of both programs depends on.
`Bank` has at least one account, since `bank_app` divides by their number.
`ssmp_send_no_sync` does not follow `Channels`; `ClientServer` models it as an
overwrite.  `defined` is the set of macros a client/server program is built
with, chosen once.

## 3. Runs

| run | module | question | distinct states |
|---|---|---|---|
| `MailboxCollect` | MCPlatforms | On generic, opteron, xeon and niagara: does a process that uses every receive collect whole messages, in order, exactly once, none lost, and do the lines implement `Channels`? | 269737 |
| `MailboxPolling` | MCMailbox | A scan that serves others comes nearer to a waiting message; ready calls return; a broadcast ends unless one core never empties its line; even unsynchronised sends, in any order of stores, never take a receiver back, with the inductive invariant `ForwardInv` of that | 72143 |
| `MailboxTorn` | MCMailbox | *violated*: the same with a memcpy that stores the state byte early | - |
| `BarrierAll` | MCBarrier | Nobody leaves early, everybody leaves, the spinning loops never wait for each other, three rounds, `Rendezvous` implemented | 21486 |
| `BigInOrder` | MCBigMessage | Chunks arrive in order, ends take turns, messages complete; `IInv`, from which the first two are proved | 37236 |
| `BigOrder` | MCBigMessage | *violated*: chunks arrive in order when a whole chunk ends in a byte other than 0 | - |
| `StartupX86` | Startup | Over two runs, the first of which may crash anywhere, of processes or threads: nothing is erased, nothing of the other run is received, pairs hold the same objects, initialisation ends; `IInv`, from which the first three are proved | 337318 |
| `StartupStale` | Startup | *violated*: nothing is erased on sparc, where no barrier follows the resets, after a crash | - |
| `Tilera` | MCTilera | Everything sent is received once, in order, under its sender's name, from start to end; barriers hold everybody and let everybody go | 233088 |
| `BankBooks` | Bank | Books agree with what clients were told; answers match; `IInv`, from which both are proved | 680663 |
| `BankRace` | Bank | *violated*: the bank reaches its end with two applications | - |
| `ClientServer` | ClientServer | Answers match, nothing stays unserved, servers stop by counting, everyone ends; `IInv`, from which the first two are proved | 12362 |

Bounds, and why they are enough:

* `MailboxCollect`: three processes, so that a scan passes its own position, an empty
  line and a full one, and xeon's two sockets both occur; opteron with `USE_ATOMIC`
  (without, it is generic); two words, so that a
  line can be mixed; two messages per channel, so that a line is used again while
  the receiver may still read it.
* `MailboxPolling`: a scan of two positions with a sender (by `ssmp_send` and
  `ssmp_broadcast`) that sends twice while the other waits; one word and the state
  byte in either order; two unsynchronised messages on one channel.
* `BarrierAll`: six participants of nine, the last process among them; three waits
  each, since a process can be ahead of another by one round at most and the third
  starts from a flag that has gone up and down.
* `BigInOrder`: a message is two whole chunks and a rest, so every succession of
  chunks occurs, also from the end of a message to the next; a process sends and
  receives with two others.
* `StartupX86`: three processes, the least with an index before and after the owner;
  two runs, one that leaves things and one that finds them; one message per run is
  enough to be erased, or to be left behind.
* `Tilera`: three processes, so that one receives from two; cpus with gaps, so that
  ids and cpus differ; queues of two packets and two messages, so that packets of
  two senders wait together; two rounds on a barrier whose color function is, in
  half of the behaviours, one with values above 1.
* `BankBooks`, `ClientServer`: two servers and two clients; in `ClientServer` four
  messages, more than there are servers, as the program requires (with fewer a
  server ends too late: the first two messages of a client both go to server 0).

The bounds are `MaxSend`, `MaxRounds`, `MaxSends`, `MaxSent`, `MaxRuns`, `Room`,
`NumOps` and `NumMsgs`; only the last two are parameters of the code, and
`Room` stands for the size of a hardware queue.  `CHECK_DEADLOCK FALSE`
is set where a process may wait for a message nobody sends, or where the
processes stop.

**Fairness.**  `WF_vars(Step(p))` for each process: a process that is inside an ssmp
call (or inside a program) and can take a step eventually takes one.  The
operating system's scheduler gives that; nothing more is assumed: no fairness of
the calls an application may make, none between messages, none of any lock.  A
polling loop that finds nothing is a stuttering step (or `ScanMiss`), so it may
go round for ever while others act.

### Findings

1. `MailboxTorn`: one memcpy publishes data and state byte together.
2. `BigOrder`: the last byte of a whole chunk is copied over the state byte.
3. `StartupStale`: on sparc nothing separates the resets from the first use, and
   `ues_initialized` is never set back: after a crash a fast process does not wait.
4. `BankRace`: any message that is no request ends a bank server, the throughput of
   another application included.  Scanned before the EXIT of application 1, that of
   application 2 leaves application 1 waiting for its line to process 0.

More follows from the code without a run: the last byte of every whole chunk is
replaced by the flag; the parameter `to` of `ssmp_send_big` is ignored, so a chunk
goes to whoever receives from that sender; `ssmp_barrier_init` ignores the bitmap
that `ssmp.h` describes (the stored mask is 64 ones whatever is passed, as
`StoredBitmap` says); on tilera `ssmp_recv_from` ignores `from`, a barrier counts a
process that does not participate, and a color function that is NULL is called.

## 4. Proofs

Every theorem is about all values of the constants: any number of processes, words,
messages, chunks, runs, accounts and rounds.  What a theorem needs beyond the assumptions
that a module states about its constants is a hypothesis of the theorem:

| hypothesis | says | why |
|---|---|---|
| `Synchronised` (Mailbox) | no `ssmp_send_no_sync`, and memcpy stores the state byte last | otherwise messages are overwritten, or torn (`MailboxTorn`) |
| `CountsParticipants` (Barrier) | the loop of `ssmp_barrier_wait` returns the number of participants; `ZeroOrOne`, a color function with those values, implies it | with other weights the code waits for tickets that nobody takes |
| `OneReceiver`, `ZeroEnds` (BigMessage) | a chunk buffer has one reader; the last byte of a whole chunk is 0 | chunks are not addressed; `BigOrder` |
| `X86` (Startup) | the architecture is x86, where barrier 0 follows the resets | `StartupStale` |
| `NiagaraBuild` (Niagara) | the state byte's store is one of its own after those of all words, nothing is claimed by compare-and-swap | what `platform/niagara` says; for theorems about that platform only |
| `Enough` (ClientServer) | more messages than servers | a client's first two messages go to server 0; with fewer messages server 0 gets two low numbers of a client and others none |

The safety properties are not inductive by themselves.  Each proof has an invariant that
is (`IInv`, in the component's own module; a run checks it too), a lemma that a step
keeps it, action by action, and theorems for what follows from it.

**Mailbox** (`MailboxProofs`; all color buffers, all sets of compare-and-swap claims):

* `InvariantHolds`.  That a line is not overwritten depends on who holds it.  `ChanOK(c)`
  says, for each channel, who holds the line (writer, reader, nobody with a message
  in it, nobody), what the state byte then is, and which words of the line and of
  the reader's copy are already those of the current message; `ProcOK(p)` ties the
  program counter to the scan position and keeps the reported sender equal to the
  line that was claimed.  A step of a process disturbs at most the two channels it
  works on, `Bystander` and `OthersKeepPlace` deal with all others.
* `TypeCorrect`, `DeliversExactlyOnce`, `LosesNothing`, `NeverOverlaps`: consequences.
* `ScansFairly`: `FairScan`, from the same invariant and the arithmetic of going round
  the color buffer (`StepForward`): a step either leaves the scan of
  `ssmp_recv_color_start` where it is or moves it one position, and it cannot stand
  on the sender of a message that waits before and after the move.
* `ImplementsChannels`: the step that leaves the sender's polling loop is `Accept`,
  the receiver's release is `Deliver`, every other step stutters.
* `LinesGoForward`, `NeverGoesBack`: `WordsMonotone` without `Synchronised`, whatever order
  memcpy has and however often `ssmp_send_no_sync` overwrites a line while it is read.
  The invariant is another one, `ForwardInv`: each word of a line only grows and is no
  newer than what was sent, and what a reader has copied, or received, is no newer than
  the line and no older than what it received before.

**Niagara** (also in `MailboxProofs`; no assumption about memcpy): `NiagaraImplementsMailbox`: every
step of niagara's functions is the step of `Mailbox` with the order of the copies added
to its guard (the state byte is stored when no word is left, so `FlagLast` holds by the
code); `NiagaraDelivers` and `NiagaraLosesNothing`: by that, from the mailboxes', for
programs without `ssmp_send_no_sync`.

**Color buffers** (`ColorBufferProofs`): `InOrderHolds`: the loop over the cores yields
every core of a set once, in ascending order; `ColorBufferHolds`: so does the color
buffer, for any values of the color function.  The loop is a recursive function of the
number of turns.  No induction theorem can be used here, so the proofs take the least
number for which the claim fails: existence of the function, and what it computes.

**Barrier** (`BarrierProofs`):

* `CountingLoop`: the sum of the weights is the number of participants if weights are 0
  or 1; again by least counterexample.
* `InvariantHolds`: tickets equal the processes that hold one; the flag is down only
  if nobody is on the way out and up only if nobody is on the way in; each
  participant's numbers of waits follow from the flag and the round.  `FlagComes`:
  when all tickets are out somebody is about to raise the flag, when all are back
  somebody is about to lower it.
* `NeverStuckHolds`: the safety half of `Released`.  If nobody inside could go on, all
  would spin at one loop, and then no ticket or every ticket is held: the flag comes.
* `NobodyEarly`, `FlagChangesBetweenRounds`, `ImplementsRendezvous`: consequences.

**Tilera** (`TileraProofs`; from what the model assumes of the network and the tmc
barriers, for any cpus, color functions and queue sizes):

* `CpuExists`, `CpusApart`: every process has a cpu of its own, by least counterexample.
* `InvariantHolds`: `Counted`, a barrier's count is the number of those who wait in it, and
  all participants have been let out of it equally often (`Passed`): the last to come
  finds all others waiting, since sets of equal size, one in the other, are equal.
  `Phased` and `Bound` tie the waits on the first and the last barrier, the cpu and
  the network to the program counter; hence, when anyone sends, everyone is attached
  (`EverybodyThere`), and no packet is lost.
* `DeliversAll`: every queue accounts for what was sent (`Accounts`): a packet taken from
  its head is, among its sender's, the next.  `NobodyEarly`: from `Passed`.

**Initialisation** (`StartupProofs`):

* `SameLine`: sender and receiver compute the same address; `LinesApart`: different
  channels never share a line; `LinesInside`: every line is inside its object (both
  architectures).
* `InvariantHolds`, for processes and threads and any number of runs, each of which may be
  killed at any step.  `NamesKept` counts the objects a name has stood for (at most two a
  run: a process's own, and one that another creates by mapping it after it has ended),
  so that an object in somebody's hands is told from one that has the name now;
  `MemKept` says that all have the same shared object; `InPhase` that nobody is past
  barrier 0 before everyone has reset its lines; `Mapped(p, q)` that what `p` has mapped
  for `q` is what `q` polls, until `q` ends; `Clean(p, q)` that what has been reset
  holds nothing but what this run has sent and not received.
* `ErasesNothing`, `ReceivesNoGhosts`, `ConnectsAll`: consequences.

**Big messages** (`BigMessageProofs`): `TypeCorrect` needs no hypothesis: lengths never go
below zero.  `InvariantHolds`: the sender has begun one chunk more than its receiver has
taken while it fills the buffer or the state byte is up, and as many otherwise; what is
filled, or drained, so far is of the chunk begun last (`HandedOver`).  `ChunksInOrder`
and `EndsTakeTurns` follow.  The state byte is itself one of the bytes that are copied:
`ZeroEnds` is used where the copy writes it.

**Bank** (`BankProofs`; no hypothesis): `InvariantHolds`: besides types and roles, a question
is in one place at a time (`Question`: on its way, with the server that is about to
answer, or on its way back as an answer), and the books hold from the first wait on
(`Books`), where deposits and granted withdrawals on their way are counted by
`Cardinality` of sets of channels.  `BooksConserved`, `NobodyOverdraws`,
`AnswersAreMatched` follow.

**Client/server** (`ClientServerProofs`): the invariant has two parts.

* `TripsHold` (every build, any number of messages): types; `Phase`: nobody reports before
  everyone has come to the first report, from the numbers of waits; `Question`: as in
  the bank, and a message that is not a question is a throughput, sent when all have
  stopped.  `PingPongHolds` and `AnswersFindFree` follow; with the second, an
  unsynchronised answer is a send like any other.
* `InvariantHolds` (with `Enough`) adds `Counts`: which servers a client still has a low
  number for follows from its place in the ring of the servers and the messages it has
  left (`Still`, `Distance`); a number on its way is low exactly when it is its client's
  last for that server (`LastIsLow`); and a server's count is the number of clients whose
  low number it has not counted (`Uncounted`).  `NothingStaysUnserved` follows: a server
  stops at zero, when no client has a message for it any more.

**Only model-checked**: liveness (`Released`, `Completes`, `Starts`, `Finishes`,
`RecvFromReturns`, `ScanReturns`, `SendReturns`, `BroadcastReturns`), which needs fairness and ENABLED; and, by
running them, that `Xeon` and `Opteron` are instances of `Mailbox` (their claims are values of `Cas`, for
which the theorems hold).

## 5. Not modelled

* Failing system calls (`shm_open`, `mmap`, `memalign`: they end the process); sizes of
  objects, which matter when a run has more processes than the one whose objects it
  finds, or after a crash between `shm_open` and `ftruncate`; runs that overlap; a
  process that dies alone (everyone who polls its lines then waits for ever).
* opteron's prefetches, memory fences, cache line alignment.
* The drivers `one2one`, `one2one_big`, `barrier_test`, `cs` and `mainthread`: straight
  sequences of library calls, which the modules of the library allow already.
* Timing: `wait_cycles`, clocks, `set_cpu`, the profiler; the throughput figures.
  `Bank` takes the bits of a throughput to be none of the operation codes.
* Memory management of the programs (a bank server frees `msg` when it stops and
  process 0 receives into it afterwards).

## 6. Plan

1. Compositions: `barrier_test` on `Barrier`, `one2one` on `Mailbox`, where a driver's
   own loop relates the two.
2. Proofs: for the programs, the safety half of `Finishes`, as `NeverStuck` is for the
   barrier: while somebody is not done, somebody can go on.
