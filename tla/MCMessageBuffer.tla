--------------------------- MODULE MCMessageBuffer ---------------------------
(* A small instance of MessageBuffer: bytes of four values, unsigned ints  *)
(* of two bytes, values at the ends of their ranges, and integers that a   *)
(* readString in their place takes for lengths that wrap.                  *)
EXTENDS MessageBuffer

IntType(w, s) == [kind |-> "int", width |-> w, signed |-> s]

SomeTypes == {IntType(1, TRUE), IntType(1, FALSE), IntType(2, TRUE), IntType(2, FALSE)}

SomeItems ==
    { [type |-> IntType(1, TRUE),  value |-> -2],
      [type |-> IntType(2, FALSE), value |-> 14],
      [type |-> StringType, value |-> <<>>],
      [type |-> StringType, value |-> <<3, 2>>],
      [type |-> BytesType,  value |-> <<1, 0, 3>>] }

=============================================================================
