---------------------------- MODULE MessageStream ----------------------------
(***************************************************************************)
(* MessageConnection over a byte stream: one end writes messages, the      *)
(* other reads them (comm/bknd/MessageConnection.cpp over connection.cpp   *)
(* and UdpConnection.cpp; the guest's comm/ftnd has the same classes).     *)
(*                                                                         *)
(* A message is sent as an eight-byte msg_struct (header and length) and,  *)
(* unless it is empty, its content, each by an IConnection::send of its    *)
(* own.  A cell of the stream stands for a byte of content or for one of   *)
(* the two integers of a msg_struct, and header, length and content draw   *)
(* from the same values: only the position tells them apart, as on the     *)
(* wire.  The network may deliver the cells in pieces of any size and, at  *)
(* the end of a connection, lose a suffix of them.                         *)
(***************************************************************************)
EXTENDS Naturals, Sequences, SequencesExt

CONSTANTS
    Messages,      \* messages: [header, content]
    Window,        \* cells the network holds: TCP_WINDOW_SIZE, UDT's buffer
    MaxMessages    \* bound: messages written

ASSUME WindowAssumption == Window \in Nat \ {0}
ASSUME MessagesAssumption == Messages \subseteq [header : Nat, content : Seq(Nat)]

VARIABLES
    (* the writing end *)
    writerOpen,    \* Connection::open
    writerPc,      \* "idle", or the send writeMessage is in: "struct", "content"
    unsent,        \* what is left of that send
    writing,       \* writeMessage's argument
    (* the network *)
    stream,
    (* the reading end *)
    readerOpen,
    readerPc,      \* "idle", or the receive readMessage is in
    buffer,        \* what that receive has got so far
    needed,        \* the size it was asked for
    header,        \* msg.msg_header, once received
    (* history *)
    sent, delivered,
    wire,          \* the cells of the messages in sent, one after the other
    ends           \* where each of them ends in wire

history    == <<sent, wire, ends>>
writerVars == <<writerOpen, writerPc, unsent, writing, history>>
readerVars == <<readerOpen, readerPc, buffer, needed, header, delivered>>
vars       == <<writerVars, stream, readerVars>>

MsgStruct(m) == <<m.header, Len(m.content)>>
StructSize   == 2
Encode(m)    == MsgStruct(m) \o m.content
NoMessage    == [header |-> 0, content |-> <<>>]

Init ==
    /\ writerOpen = TRUE /\ writerPc = "idle" /\ unsent = <<>> /\ writing = NoMessage
    /\ stream = <<>>
    /\ readerOpen = TRUE /\ readerPc = "idle" /\ buffer = <<>> /\ needed = 0
    /\ header = 0
    /\ sent = <<>> /\ delivered = <<>> /\ wire = <<>> /\ ends = <<>>

(***************************************************************************)
(* writeMessage                                                            *)
(***************************************************************************)
(* On a closed connection send throws at once, which changes nothing.      *)
writeMessage(m) ==
    /\ writerOpen /\ writerPc = "idle"
    /\ Len(sent) < MaxMessages
    /\ writing' = m
    /\ sent' = Append(sent, m)
    /\ wire' = wire \o Encode(m)
    /\ ends' = Append(ends, Len(wire) + Len(Encode(m)))
    /\ unsent' = MsgStruct(m)
    /\ writerPc' = "struct"
    /\ UNCHANGED <<writerOpen, stream, readerVars>>

(* The kernel (or UDT) takes some of what ::send was given; a blocking     *)
(* send waits for room in the window.                                      *)
SendSome(n) ==
    /\ writerOpen /\ writerPc # "idle"
    /\ n \in 1..Len(unsent)
    /\ Len(stream) + n <= Window
    /\ stream' = stream \o SubSeq(unsent, 1, n)
    /\ unsent' = SubSeq(unsent, n + 1, Len(unsent))
    /\ UNCHANGED <<writerOpen, writerPc, writing, history, readerVars>>

(* Variant: the content of a one-byte message is not sent.                 *)
OneByteNotSent ==
    /\ writerOpen /\ writerPc # "idle"
    /\ unsent = <<>>
    /\ IF writerPc = "struct" /\ Len(writing.content) > 1
       THEN unsent' = writing.content /\ writerPc' = "content"
       ELSE unsent' = <<>> /\ writerPc' = "idle"
    /\ UNCHANGED <<writerOpen, writing, history, stream, readerVars>>

(* ::send returned the full size: the content follows the msg_struct.      *)
SendReturns ==
    /\ writerOpen /\ writerPc # "idle"
    /\ unsent = <<>>
    /\ IF writerPc = "struct" /\ Len(writing.content) > 0
       THEN unsent' = writing.content /\ writerPc' = "content"
       ELSE unsent' = <<>> /\ writerPc' = "idle"
    /\ UNCHANGED <<writerOpen, writing, history, stream, readerVars>>

(* Variant: a short send throws without closing the connection.            *)
ShortSendKeepsOpen ==
    /\ writerOpen
    /\ writerPc' = "idle"
    /\ unsent' = <<>>
    /\ UNCHANGED <<writerOpen, writing, history, stream, readerVars>>

(* ::send failed or was short: sendDirect closes and throws out of         *)
(* writeMessage.  An idle writer may close too (its destructor).           *)
WriterCloses ==
    /\ writerOpen
    /\ writerOpen' = FALSE
    /\ writerPc' = "idle"
    /\ unsent' = <<>>
    /\ UNCHANGED <<writing, history, stream, readerVars>>

(* A closed writer's last cells may never arrive.                          *)
LoseSuffix(n) ==
    /\ ~writerOpen
    /\ n \in 0..Len(stream) - 1
    /\ stream' = SubSeq(stream, 1, n)
    /\ UNCHANGED <<writerVars, readerVars>>

(***************************************************************************)
(* readMessage                                                             *)
(***************************************************************************)
(* On a closed connection receive throws at once, which changes nothing.   *)
readMessage ==
    /\ readerOpen /\ readerPc = "idle"
    /\ readerPc' = "struct"
    /\ needed' = StructSize
    /\ buffer' = <<>>
    /\ UNCHANGED <<writerVars, stream, readerOpen, header, delivered>>

(* recv returns some of the cells, at most what is still needed: the loop  *)
(* of receiveDirect, or the kernel's own under MSG_WAITALL.                *)
ReceiveSome(n) ==
    /\ readerOpen /\ readerPc # "idle"
    /\ n \in 1..Len(stream)
    /\ Len(buffer) + n <= needed
    /\ buffer' = buffer \o SubSeq(stream, 1, n)
    /\ stream' = SubSeq(stream, n + 1, Len(stream))
    /\ UNCHANGED <<writerVars, readerOpen, readerPc, needed, header, delivered>>

(* The msg_struct is complete: receive the content, if there is any.       *)
StructReceived ==
    /\ readerOpen /\ readerPc = "struct"
    /\ Len(buffer) = needed
    /\ header' = buffer[1]
    /\ buffer' = <<>>
    /\ IF buffer[2] > 0
       THEN needed' = buffer[2] /\ readerPc' = "content" /\ UNCHANGED delivered
       ELSE /\ needed' = 0 /\ readerPc' = "idle"
            /\ delivered' = Append(delivered, [header |-> buffer[1], content |-> <<>>])
    /\ UNCHANGED <<writerVars, stream, readerOpen>>

ContentReceived ==
    /\ readerOpen /\ readerPc = "content"
    /\ Len(buffer) = needed
    /\ delivered' = Append(delivered, [header |-> header, content |-> buffer])
    /\ readerPc' = "idle" /\ needed' = 0 /\ buffer' = <<>>
    /\ UNCHANGED <<writerVars, stream, readerOpen, header>>

(* Variant: a failed receive throws without closing the connection.        *)
ReceiveErrorKeepsOpen ==
    /\ readerOpen
    /\ readerPc' = "idle" /\ needed' = 0 /\ buffer' = <<>>
    /\ UNCHANGED <<writerVars, stream, readerOpen, header, delivered>>

(* recv failed, or the peer closed and the stream has run dry: the         *)
(* connection is closed and a half received message is forgotten.          *)
(* An idle reader may close too.                                           *)
ReaderCloses ==
    /\ readerOpen
    /\ readerOpen' = FALSE
    /\ readerPc' = "idle" /\ needed' = 0 /\ buffer' = <<>>
    /\ stream' = <<>>
    /\ UNCHANGED <<writerVars, header, delivered>>

WriterNext ==
    \/ \E m \in Messages : writeMessage(m)
    \/ \E n \in 1..Window : SendSome(n)
    \/ SendReturns \/ WriterCloses

ReaderNext ==
    \/ readMessage \/ StructReceived \/ ContentReceived \/ ReaderCloses
    \/ \E n \in 1..Window : ReceiveSome(n)

Next == WriterNext \/ ReaderNext \/ \E n \in 0..Window : LoseSuffix(n)

Spec == Init /\ [][Next]_vars

(* A blocking send or receive returns once the network lets it, the        *)
(* receiving side sits in a loop of readMessage, and TCP and UDT tell an   *)
(* end that is in a send or receive of the other's close.  Nothing makes a *)
(* connection fail, and nothing makes a client write or close.             *)
Fairness ==
    /\ WF_vars(\E n \in 1..Window : SendSome(n))
    /\ WF_vars(SendReturns)
    /\ WF_vars(WriterCloses /\ ~readerOpen /\ writerPc # "idle")
    /\ WF_vars(readMessage)
    /\ WF_vars(\E n \in 1..Window : ReceiveSome(n))
    /\ WF_vars(StructReceived)
    /\ WF_vars(ContentReceived)
    /\ WF_vars(ReaderCloses /\ ~writerOpen /\ stream = <<>> /\ readerPc # "idle")

FairSpec == Spec /\ Fairness

(***************************************************************************)
(* Properties                                                              *)
(***************************************************************************)
Cells == Nat

(* The two ends' state has the shape the code gives it; the network holds  *)
(* no more than its window, and a receive never takes more than it was     *)
(* asked for (receiveDirect passes buf + received, size - received).       *)
TypeOK ==
    /\ writerOpen \in BOOLEAN /\ readerOpen \in BOOLEAN
    /\ writerPc \in {"idle", "struct", "content"}
    /\ readerPc \in {"idle", "struct", "content"}
    /\ unsent \in Seq(Cells) /\ stream \in Seq(Cells) /\ buffer \in Seq(Cells)
    /\ writing \in Messages \union {NoMessage}
    /\ needed \in Nat /\ header \in Nat
    /\ Len(stream) <= Window
    /\ Len(buffer) <= needed
    /\ sent \in Seq(Messages)

(* Where the i-th message ends on the wire.                                *)
EndOf(i) == IF i = 0 THEN 0 ELSE ends[i]

(* What readMessage has taken of a message it has not yet returned.        *)
TakenPart == IF readerPc = "content" THEN <<header, needed>> \o buffer ELSE buffer

(* What writeMessage has still to hand to the network.                     *)
RestToSend == unsent \o IF writerPc = "struct" THEN writing.content ELSE <<>>

(* Every cell is accounted for.  The messages readMessage has returned are *)
(* the first of those written, and from the end of the last of them on,    *)
(* what readMessage has half read, what is in the network and what         *)
(* writeMessage has still to send are, in this order, the rest of what was *)
(* written; after the writer's failure, a prefix of it.  The reader is     *)
(* never out of step with the writer, so a msg_struct is never read from   *)
(* the middle of a content.                                                *)
InStep ==
    LET found == TakenPart \o stream \o RestToSend
        owed  == SubSeq(wire, EndOf(Len(delivered)) + 1, Len(wire))
    IN readerOpen =>
         /\ IsPrefix(delivered, sent)
         /\ IsPrefix(found, owed)
         /\ writerOpen => found = owed

Channel == INSTANCE MessageChannel
             WITH writerUp <- writerOpen, readerUp <- readerOpen

(* The connection implements the message channel: readMessage returns      *)
(* exactly the messages given to writeMessage, whole, in order and once,   *)
(* however send and recv split them and wherever the connection breaks.    *)
ImplementsChannel == Channel!Spec

(* Unless the connection fails, every message given to writeMessage is     *)
(* returned by the other end's readMessage.                                *)
Delivery ==
    \A n \in 1..MaxMessages :
        Len(sent) >= n ~> Len(delivered) >= n \/ ~writerOpen \/ ~readerOpen

(* No end is left waiting in send or receive for an end that is gone: the  *)
(* receiver, always in readMessage, closes; a writeMessage returns or      *)
(* closes, also when the message does not fit the window.                  *)
NoEndWaits ==
    /\ ~writerOpen ~> ~readerOpen
    /\ ~readerOpen /\ writerPc # "idle" ~> writerPc = "idle"

=============================================================================
