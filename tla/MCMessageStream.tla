--------------------------- MODULE MCMessageStream ---------------------------
(* Small instances of MessageStream: an empty message, and contents that   *)
(* could be taken for a msg_struct by a reader out of step.                *)
EXTENDS MessageStream

SomeMessages ==
    { [header |-> 1, content |-> <<>>],
      [header |-> 0, content |-> <<1>>],
      [header |-> 1, content |-> <<0, 1, 0>>] }

=============================================================================
