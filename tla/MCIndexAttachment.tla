------------------------- MODULE MCIndexAttachment -------------------------
(* Two tables of two partitions; the second shares the buffers of the      *)
(* first, or is empty.  Each name has a schema of its own.                 *)
EXTENDS IndexAttachment

CONSTANTS t, u, a, b

First  == << <<1>>, <<2>> >>
Tables == {t, u}
Shared == {[p \in Tables |-> First]}
Apart  == {[p \in Tables |-> IF p = t THEN First ELSE << <<>>, <<>> >>]}
Either == Shared \cup Apart
=============================================================================
