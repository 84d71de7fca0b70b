--------------------------- MODULE MCVtaDelegate ---------------------------
(* Additions on a device with vectors of two lanes and eight accumulators: *)
(* four elements to a chunk.  With 7 and with 15 elements the padding runs *)
(* past the memory, with 11 over the chunk of the other thread: for that   *)
(* see VtaPadding.cfg.                                                     *)
EXTENDS VtaDelegate

Add(n, t) == [n1 |-> n, n2 |-> n, no |-> n, type |-> t]

OneAdd == {<<Add(n, "int8")>> : n \in (1..16) \ {11}}
Others == {<<Add(4, "uint8")>>, <<Add(5, "int32"), Add(9, "int8")>>,
           <<Add(12, "int8"), [n1 |-> 4, n2 |-> 5, no |-> 4, type |-> "int8"]>>}
Fitting == OneAdd \cup Others
Padded == {<<Add(11, "int8")>>}

Operand1 == [e \in 0..15 |-> ((37 * e) % 256) - 128]
Operand2 == [e \in 0..15 |-> 127 - ((29 * e) % 256)]
QIn1 == [offset |-> 3, multiplier |-> 16384, shift |-> 0]
QIn2 == [offset |-> -5, multiplier |-> 24576, shift |-> -1]
QOut == [offset |-> 7, multiplier |-> 20000, shift |-> -6]
=============================================================================
