------------------------ MODULE MCReaderWriterQueue ------------------------
(***************************************************************************)
(* Small instances of ReaderWriterQueue: a queue made for one element that *)
(* grows to three blocks of two slots; one made for three elements, which  *)
(* starts with a block of four slots that it can just fill, and grows to   *)
(* two; and one made for four, which starts with all its five blocks of    *)
(* two slots.                                                              *)
(***************************************************************************)
EXTENDS ReaderWriterQueue, FiniteSets

CONSTANTS v1, v2

MCPowers == {1, 2, 4, 8, 16}

MCLimits == [n \in {1, 3, 4} |-> CASE n = 1 -> 3 [] n = 3 -> 2 [] n = 4 -> 5]

\* How many elements may be v2: nothing looks at an element, so that one that
\* differs from the others tells its place in the order.
Marks(n) == CASE n = 1 -> 3 [] n = 3 -> 1 [] n = 4 -> 0

Marked(k) == {i \in DOMAIN block[k].data : block[k].data[i] = v2}

FewMarked ==
  Cardinality(UNION {{k} \X Marked(k) : k \in DOMAIN block}) <= Marks(maxSize)

\* A queue that is destroyed is the end.
Destroyed == consumer = "destroyed" /\ UNCHANGED vars

InstanceSpec == Init /\ [][(Next /\ FewMarked') \/ Destroyed]_vars
=============================================================================
