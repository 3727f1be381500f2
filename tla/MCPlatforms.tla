---------------------------- MODULE MCPlatforms ----------------------------
(* One program on every platform that keeps messages in shared memory.     *)
EXTENDS Niagara, ColorBuffer

ASSUME NiagaraAssumption == NiagaraBuild

VARIABLE platform    \* what the library was built for

\* Color buffers of everyone else; niagara has no compare-and-swap.
AllOthers == [p \in Procs |-> ssmp_color_buf_init(p, N, [q \in Procs |-> color_all(q)])]
NoCas == [p \in Procs |-> [f \in SendCalls \cup RecvCalls |-> {}]]
TwoDwords == <<"w0w1", "w2w3">>

\* Process 0 collects from the others; 1 sends, 2 broadcasts.
CollectCalls == [p \in Procs |-> CASE p = 0 -> RecvCalls
                                   [] p = 1 -> {"send", "recv_from"}
                                   [] OTHER -> {"broadcast"}]

\* Bound: two messages per channel to a process that receives.
ToReceivers2 == [c \in Chan |-> IF c[2] = 2 THEN 0 ELSE 2]

\* opteron with USE_ATOMIC; xeon without, processes 0 and 1 on one socket and 2 on
\* another.  generic, and opteron without USE_ATOMIC, claim as niagara does.
OpteronClaims == INSTANCE Opteron WITH UseAtomic <- TRUE
XeonClaims == INSTANCE Xeon WITH Socket <- [p \in Procs |-> p \div 2], UseAtomic <- FALSE

OnGeneric == INSTANCE Mailbox
OnOpteron == INSTANCE Mailbox WITH Cas <- OpteronClaims!Claims
OnXeon    == INSTANCE Mailbox WITH Cas <- XeonClaims!Claims

PlatformsInit == Init /\ platform \in {"generic", "opteron", "xeon", "niagara"}

PlatformsNext ==
  /\ UNCHANGED platform
  /\ \/ platform = "generic" /\ OnGeneric!Next
     \/ platform = "opteron" /\ OnOpteron!Next
     \/ platform = "xeon" /\ OnXeon!Next
     \/ platform = "niagara" /\ NiagaraNext

PlatformsSpec == PlatformsInit /\ [][PlatformsNext]_<<vars, platform>>
=============================================================================
