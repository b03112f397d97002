------------------------------- MODULE MCIvf -------------------------------
(* The inverted lists over vectors whose means are exact: the components   *)
(* of stored vectors are multiples of Scale, hence of every 1 .. 4.        *)
EXTENDS Ivf, Metric

Scale == 12

(* Vectors of which four may have the sum zero, and all means of four.     *)
Compass == {<<Scale, 0>>, <<0, Scale>>, <<-3 * Scale, 0>>}
Asks    == {<<Scale, 0>>, <<0, Scale>>, <<Scale, Scale>>}

Share   == {c \in -3 * Scale .. Scale : c % 3 = 0 \/ c % 4 = 0}
Plane   == {<<x, y>> : x \in Share, y \in Share \cap Nat} \ {<<0, 0>>}
=============================================================================
