---------------------------- MODULE ColorBuffer ----------------------------
(* The cores a color buffer makes its receives scan. *)
EXTENDS Integers, Sequences

\* Process id's participants: the other cores, with what the color function says.
participants(id, num_ues, color) ==
  [ue \in 0 .. num_ues - 1 |-> IF ue = id THEN 0 ELSE color[ue]]

\* The loop over the cores that puts those of S into an array, one after the other
\* (buf_num counts them).
in_order(S, num_ues) ==
  LET from[n \in 0 .. num_ues] ==
        IF n = 0 THEN << >>
        ELSE IF n - 1 \in S THEN Append(from[n - 1], n - 1) ELSE from[n - 1]
  IN  from[num_ues]

\* ssmp_color_buf_init by process id: cbuf->from.
ssmp_color_buf_init(id, num_ues, color) ==
  in_order({ue \in 0 .. num_ues - 1 : participants(id, num_ues, color)[ue] # 0}, num_ues)

\* Color functions: bank.c's color_all, ssmp.c's ssmp_color_app and color.
color_all(id) == 1
ssmp_color_app(id) == IF id % 3 # 0 THEN 1 ELSE 0
color_10(id) == 10 * id
=============================================================================
