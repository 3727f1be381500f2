----------------------------- MODULE MCMailbox -----------------------------
(* Small instances of Mailbox for TLC. *)
EXTENDS Mailbox, ColorBuffer

\* Color buffers of everyone else.
AllOthers == [p \in Procs |-> ssmp_color_buf_init(p, N, [q \in Procs |-> color_all(q)])]

\* platform/opteron without USE_ATOMIC, which claims as platform/generic does.
Platform == INSTANCE Opteron WITH UseAtomic <- FALSE
PlainClaims == Platform!Claims

\* Process 0 polls the others fairly, and receives from one of them; 1 sends and
\* broadcasts; 2 sends without looking.
PollCalls == [p \in Procs |-> CASE p = 0 -> {"recv_color_start", "recv_from"}
                                [] p = 1 -> {"send", "broadcast"}
                                [] OTHER -> {"send_no_sync"}]

\* Processes 1, 2, ... send, process 0 polls them with every kind of receive.
FunnelCalls == [p \in Procs |-> IF p = 0 THEN RecvCalls ELSE {"send"}]

\* Bounds: a few messages for PollCalls; two per channel towards process 0.
FewSends == [c \in Chan |-> CASE c \in {<<1, 0>>, <<2, 0>>} -> 2
                              [] c = <<1, 2>> -> 1
                              [] OTHER -> 0]
ToZero2 == [c \in Chan |-> IF c[2] = 0 THEN 2 ELSE 0]
=============================================================================
