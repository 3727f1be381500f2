------------------------------ MODULE Niagara ------------------------------
(***************************************************************************)
(* platform/niagara: small messages with memcpy64, a loop over the double  *)
(* words of the line, and a store of the state byte that is a statement of *)
(* its own.  Nothing is left to the build: the words are stored, and read, *)
(* in their order, and the state byte after them (sparc's TSO keeps it so).*)
(* Each function is the steps of Mailbox that it takes, with memcpy64's    *)
(* order; MailboxProofs shows that it implements Mailbox.                  *)
(***************************************************************************)
EXTENDS Mailbox

CONSTANT Dwords    \* the pieces of a line in the order of their addresses

\* How niagara is built: nothing about the copies of a line is left open.
NiagaraBuild ==
  /\ FlagLast
  /\ Dwords \in Seq(Words)
  /\ \A w \in Words : \E k \in DOMAIN Dwords : Dwords[k] = w
  /\ \A p \in Procs : \A f \in SendCalls \cup RecvCalls : Cas[p][f] = {}

\* memcpy64: a piece is copied when all before it are.
InTurn(p, w) ==
  \E k \in DOMAIN Dwords : Dwords[k] = w /\ \A j \in 1 .. k - 1 : Dwords[j] \notin todo[p]

memcpy64_out(p) == \E w \in Words : InTurn(p, w) /\ SendCopy(p, w)
memcpy64_in(p)  == \E w \in Words : InTurn(p, w) /\ RecvCopy(p, w)

\* tmpm->state = SSMP_BUF_MESSG, when the words are copied.
StoreState(p) == todo[p] = {Flag} /\ SendCopy(p, Flag)

ssmp_send_platf(p) ==
  /\ call[p] \in {"send", "broadcast"}
  /\ SendTest(p) \/ memcpy64_out(p) \/ StoreState(p)

ssmp_send_no_sync_platf(p) ==
  /\ call[p] = "send_no_sync"
  /\ memcpy64_out(p) \/ StoreState(p)

ssmp_recv_from_platf(p) ==
  /\ call[p] = "recv_from"
  /\ RecvFromTest(p) \/ memcpy64_in(p) \/ RecvRelease(p)

ssmp_recv_platf(p) ==
  /\ call[p] = "recv"
  /\ ScanHit(p) \/ ScanMiss(p) \/ memcpy64_in(p) \/ RecvRelease(p)

ssmp_recv_color_platf(p) ==
  /\ call[p] = "recv_color"
  /\ ScanHit(p) \/ ScanMiss(p) \/ memcpy64_in(p) \/ RecvRelease(p)

\* start_recv_from moves on after the release: it is the process's own.
ssmp_recv_color_start_platf(p) ==
  /\ call[p] = "recv_color_start"
  /\ ScanHit(p) \/ ScanMiss(p) \/ memcpy64_in(p) \/ RecvRelease(p)

NiagaraStep(p) ==
  \/ ssmp_send_platf(p)
  \/ ssmp_send_no_sync_platf(p)
  \/ BroadcastNext(p)
  \/ ssmp_recv_from_platf(p)
  \/ ssmp_recv_platf(p)
  \/ ssmp_recv_color_platf(p)
  \/ ssmp_recv_color_start_platf(p)

NiagaraNext == \E p \in Procs : Called(p) \/ NiagaraStep(p)

NiagaraSpec == Init /\ [][NiagaraNext]_vars
=============================================================================
