------------------------------ MODULE Opteron ------------------------------
(***************************************************************************)
(* platform/opteron: how its functions claim a line.  Everything else they *)
(* do is what Mailbox says: with USE_ATOMIC every synchronised function    *)
(* claims with a compare-and-swap, whoever the peer is; without it every   *)
(* one tests the state byte and prefetches the line for writing, which     *)
(* changes nothing.  Only the polls of recv_color and recv_color_start go  *)
(* through cbuf->buf_state, the positions of which are the keys here.      *)
(***************************************************************************)
EXTENDS Integers

CONSTANTS
  N,         \* ssmp_num_ues_
  UseAtomic  \* USE_ATOMIC == 1

Procs == 0 .. N - 1

\* The peers (or positions) that a function claims with a compare-and-swap.
Atomically == IF UseAtomic THEN Procs ELSE {}

ssmp_send_platf             == Atomically
ssmp_send_no_sync_platf     == {}
ssmp_recv_from_platf        == Atomically
ssmp_recv_platf             == Atomically
ssmp_recv_color_platf       == Atomically
ssmp_recv_color_start_platf == Atomically

Claims == [p \in Procs |-> [send |-> ssmp_send_platf, broadcast |-> ssmp_send_platf,
                            send_no_sync |-> ssmp_send_no_sync_platf,
                            recv_from |-> ssmp_recv_from_platf, recv |-> ssmp_recv_platf,
                            recv_color |-> ssmp_recv_color_platf,
                            recv_color_start |-> ssmp_recv_color_start_platf]]
=============================================================================
