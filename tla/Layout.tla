------------------------------- MODULE Layout -------------------------------
(***************************************************************************)
(* Where the line of a channel is in shared memory.  Receiver and sender   *)
(* compute it each on its own in ssmp_mem_init_platf.  On x86 (arch/x86)   *)
(* each process has an object of its own ("/ssmp_core%03d", or map[id] for *)
(* threads) with one line per other process; on sparc (arch/sparc) all     *)
(* lines are a square in one object.                                       *)
(***************************************************************************)
EXTENDS Integers

CONSTANTS
  N,     \* num_ues
  Arch   \* "x86" or "sparc"

Procs == 0 .. N - 1
Chan == {c \in Procs \X Procs : c[1] # c[2]}    \* <<sender, receiver>>

ASSUME LayoutAssumption == N \in Nat /\ Arch \in {"x86", "sparc"}

\* A line: its object (the owner's id; 0 for the only one), its index in it.
\* ssmp_recv_buf[core] of process id.
RecvBuf(id, core) ==
  IF Arch = "x86" THEN <<id, IF core > id THEN core - 1 ELSE core>>
                  ELSE <<0, id * N + core>>

\* ssmp_send_buf[core] of process id.
SendBuf(id, core) ==
  IF Arch = "x86" THEN <<core, IF core < id THEN id - 1 ELSE id>>
                  ELSE <<0, core * N + id>>

\* The lines that the objects have room for (size).
Lines == IF Arch = "x86" THEN Procs \X (0 .. N - 2) ELSE {0} \X (0 .. N * N - 1)
=============================================================================
