-------------------------------- MODULE MCPq --------------------------------
(* The product-quantized index over points of the plane whose components   *)
(* are multiples of 144, so that means of means over up to four rows are   *)
(* integers.  The middle one of three is their mean, so that a centroid    *)
(* may end where a row is.                                                 *)
EXTENDS Pq, Metric

Scale == 144

Points == {<<-Scale, -Scale>>, <<0, 0>>, <<Scale, 0>>, <<Scale, Scale>>}
Asks   == {<<-Scale, -Scale>>, <<Scale, 0>>}

Component == {c \in -Scale .. Scale : c % 12 = 0 /\ (c % 36 = 0 \/ c % 48 = 0)}
Plane     == {<<x, y>> : x, y \in Component}
=============================================================================
