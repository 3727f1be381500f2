----------------------------- MODULE MCBarrier -----------------------------
(* Small instances of Barrier for TLC. *)
EXTENDS Barrier, ColorBuffer

\* The participants are those of ssmp_color_app.
ColorApp == [p \in Procs |-> ssmp_color_app(p)]
=============================================================================
