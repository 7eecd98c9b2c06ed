--------------------------- MODULE MessageChannel ---------------------------
(***************************************************************************)
(* What a MessageConnection promises: messages arrive whole, unchanged, in *)
(* the order they were written and at most once; when either end has       *)
(* failed, what arrived is a prefix of what was written.                   *)
(***************************************************************************)
EXTENDS Naturals, Sequences

CONSTANT Messages

VARIABLES sent,       \* messages whose writeMessage has been called
          delivered,  \* messages readMessage has returned
          writerUp,
          readerUp

channelVars == <<sent, delivered, writerUp, readerUp>>

Init ==
    /\ sent = <<>>
    /\ delivered = <<>>
    /\ writerUp = TRUE
    /\ readerUp = TRUE

Write(m) ==
    /\ writerUp
    /\ sent' = Append(sent, m)
    /\ UNCHANGED <<delivered, writerUp, readerUp>>

Deliver ==
    /\ readerUp
    /\ Len(delivered) < Len(sent)
    /\ delivered' = Append(delivered, sent[Len(delivered) + 1])
    /\ UNCHANGED <<sent, writerUp, readerUp>>

(* Either end closes, for good.                                            *)
Close ==
    /\ \/ writerUp' = FALSE /\ UNCHANGED readerUp
       \/ readerUp' = FALSE /\ UNCHANGED writerUp
    /\ UNCHANGED <<sent, delivered>>

Next == Deliver \/ Close \/ \E m \in Messages : Write(m)

Spec == Init /\ [][Next]_channelVars

=============================================================================
