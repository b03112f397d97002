------------------------------- MODULE Metric -------------------------------
(***************************************************************************)
(* Metric::distance (vector-db/core/src/metric.rs) on vectors with integer *)
(* components, as an integer that orders vectors the way the distance      *)
(* does.  The rounding of the result to f32 is left out.                   *)
(***************************************************************************)
EXTENDS Integers, FiniteSetsExt

InnerProduct(u, v) == MapThenSumSet(LAMBDA i : u[i] * v[i], DOMAIN u)

(* The square root is monotone and is left out.                            *)
Euclidean(u, v) ==
  MapThenSumSet(LAMBDA i : (u[i] - v[i]) * (u[i] - v[i]), DOMAIN u)

Dot(u, v) == -InnerProduct(u, v)

(* 1 - cos orders vectors as -cos does, and so does -cos * |cos|, which is *)
(* a quotient of integers: it is rounded to multiples of 1 / CosineScale,  *)
(* as the code rounds 1 - cos to a multiple of the f32 precision.          *)
CosineScale == 1000

Cosine(u, v) ==
  LET dot   == InnerProduct(u, v)
      share == (dot * dot * CosineScale) \div (InnerProduct(u, u) * InnerProduct(v, v))
  IN  IF dot > 0 THEN -share ELSE share
=============================================================================
