---------------------------- MODULE MCVectorTopK ----------------------------
(* Three rows in two or three batches, one of them empty, with a vector    *)
(* column x and another one, y; one attachable index that is exact for     *)
(* each of two metrics, one approximate one, and one on y.  Components     *)
(* beyond 4 lose their last bit when they are narrowed.                    *)
EXTENDS VectorTopK, Metric

Small == 0 .. 7

Xs == {<<0, 1>>, <<2, 1>>, <<4, 3>>, <<0, 0>>, <<NonFinite, 1>>, Null}
Ys == << <<1, 0>>, <<0, 2>>, <<3, 3>> >>

Row(id, vector) == [id |-> id, x |-> vector, y |-> Ys[id]]
Batched == {<< <<Row(1, a), Row(2, b)>>, <<>>, <<Row(3, c)>> >> : a \in Xs, b \in Xs, c \in Xs}
Short   == {<<>>, << <<>> >>, << <<>>, <<Row(3, <<2, 1>>)>> >>}
Loaded  == Batched \cup Short

Indexes ==
  {[column |-> "x", metric |-> "euclidean", kind |-> "flat"],
   [column |-> "x", metric |-> "dot", kind |-> "flat"],
   [column |-> "x", metric |-> "cosine", kind |-> "hnsw"],
   [column |-> "y", metric |-> "euclidean", kind |-> "flat"]}

HalfPrecision(n) == IF n > 4 THEN 2 * (n \div 2) ELSE n

Apart(metric, u, v) ==
  CASE metric = "euclidean" -> Euclidean(u, v)
    [] metric = "cosine" -> Cosine(u, v)
    [] metric = "dot" -> Dot(u, v)

(* Sorts by the distance of x from a literal.                              *)
Literal(item, values) == [kind |-> "literal", list |-> TRUE, item |-> item, values |-> values]
Column(n)   == [kind |-> "column", index |-> n]
Cast(n, to) == [kind |-> "cast", index |-> n, to |-> to]

Key(function, descending, a, b) ==
  [function |-> function, descending |-> descending, args |-> <<a, b>>]

ByKey(key) ==
  [operator |-> "sort", fetch |-> 2, input |-> "memory",
   projection |-> <<"id", "x", "y">>, keys |-> <<key>>]

Wide == Cast(2, "List<Float64>")
Near == Literal("Float64", <<1, 1>>)
Usual == ByKey(Key("array_distance", FALSE, Wide, Near))

Functions ==
  {ByKey(Key(f, d, Wide, Near)) :
     f \in {"array_distance", "cosine_distance", "inner_product", "array_sum"}, d \in BOOLEAN}

Operands ==
  {ByKey(Key("list_distance", FALSE, a, b)) :
     a \in {Near, Wide, Column(2), Cast(2, "List<Utf8>")}, b \in {Near, Cast(3, "List<Float64>")}}

Literals ==
  {ByKey(Key(f, f = "dot_product", Wide, Literal(item, v))) :
     f \in {"array_distance", "dot_product", "cosine_distance"},
     item \in {"Float32", "Float64", "Utf8"},
     v \in {<<2, 0>>, <<4, Null>>, <<NonFinite, 1>>, <<1>>, <<0, 0>>}} \cup
  {ByKey(Key("array_distance", FALSE, Wide, Literal("Float64", v))) :
     v \in {<<5, 0>>, <<1, 7>>}} \cup
  {ByKey(Key("array_distance", FALSE, Wide, Literal("Int64", <<1, 0>>))),
   ByKey(Key("array_distance", FALSE, Wide, [Near EXCEPT !.list = FALSE]))}

Shapes ==
  {[Usual EXCEPT !.fetch = f] : f \in {0, 1, 5}} \cup
  {[Usual EXCEPT !.operator = "limit"], [Usual EXCEPT !.input = "filter"],
   [Usual EXCEPT !.keys = Append(@, Key("array_distance", TRUE, Wide, Near))],
   [Usual EXCEPT !.projection = <<"id", "y", "x">>],
   [Usual EXCEPT !.projection = <<"x", "id">>]}

Asked == Functions \cup Operands \cup Literals \cup Shapes
=============================================================================
