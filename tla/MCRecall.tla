------------------------------ MODULE MCRecall ------------------------------
(* Four rows on a line, two of them equally far from a query; three        *)
(* queries; three indexes.  One truth file is right, one has the right     *)
(* rows in another order, and in one a row is not among the nearest.       *)
EXTENDS Recall, Metric

Points == {<<p>> : p \in 0 .. 3}
Bases  == << <<0>>, <<2>>, <<3>>, <<1>> >>
Asked  == << <<1>>, <<0>>, <<3>> >>

CommandLines ==
  {<<"sift">>, <<"--smoke", "sift">>, <<"--smoke">>, <<>>, <<"-x", "sift">>}
Dashed == {"--smoke", "-x"}

Names  == <<"flat", "ivf_flat", "nsw">>
Right  == << <<3, 0, 1>>, <<0, 3, 1>>, <<2, 1, 3>> >>
Truths == {Right, [Right EXCEPT ![1] = <<3, 1, 0>>], [Right EXCEPT ![2] = <<0, 3, 2>>]}

Ranks  == <<1, 2, 3>>
Times  == {[i \in Indexes |-> <<<<1, 2, 3>>, <<2, 2, 1>>, <<3, 1, 2>>>>[i + 1]]}
=============================================================================
