-------------------------------- MODULE Xeon --------------------------------
(***************************************************************************)
(* platform/xeon: how its functions claim a line.  Everything else they do *)
(* is what Mailbox says.  A line shared with a core of another socket is   *)
(* claimed with a compare-and-swap, one of the own socket with a test; but *)
(* ssmp_recv looks at USE_ATOMIC instead, and the color functions compare  *)
(* the socket of the position in the color buffer, as if it were a core.   *)
(***************************************************************************)
EXTENDS Integers

CONSTANTS
  N,         \* ssmp_num_ues_
  Socket,    \* id_to_node[id_to_core[.]], per process
  UseAtomic  \* USE_ATOMIC == 1

Procs == 0 .. N - 1

ssmp_cores_on_same_socket(core1, core2) == Socket[core1] = Socket[core2]

OtherSocket(p) == {k \in Procs : ~ssmp_cores_on_same_socket(p, k)}

send(p)             == OtherSocket(p)
send_no_sync(p)     == {}
recv_from(p)        == OtherSocket(p)
recv(p)             == IF UseAtomic THEN Procs ELSE {}
recv_color(p)       == OtherSocket(p)
recv_color_start(p) == OtherSocket(p)

\* The peers (for the color functions: positions) claimed with a compare-and-swap.
Claims == [p \in Procs |-> [send |-> send(p), send_no_sync |-> send_no_sync(p),
                            broadcast |-> send(p), recv_from |-> recv_from(p),
                            recv |-> recv(p), recv_color |-> recv_color(p),
                            recv_color_start |-> recv_color_start(p)]]
=============================================================================
