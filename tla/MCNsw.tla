------------------------------- MODULE MCNsw -------------------------------
(* The graph index over rows on a line.                                    *)
EXTENDS Nsw, Metric

Points == {<<p>> : p \in {0, 1, 3}}
=============================================================================
