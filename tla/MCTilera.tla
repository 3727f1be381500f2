----------------------------- MODULE MCTilera -----------------------------
(* An instance of Tilera for TLC. *)
EXTENDS Tilera, ColorBuffer

\* The color functions of ssmp.c: ssmp_color_app, and color, which returns 10 * id.
LibraryColors == {[p \in Procs |-> ssmp_color_app(p)], [p \in Procs |-> color_10(p)]}
=============================================================================
