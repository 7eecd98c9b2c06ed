------------------------- MODULE MessageStreamProofs -------------------------
(***************************************************************************)
(* Proofs about MessageStream, for any messages, any window and any number *)
(* of messages: the reader is never out of step with the writer, and the   *)
(* connection implements MessageChannel.                                   *)
(*                                                                         *)
(* The argument is about positions on the wire.  Every message lies on the *)
(* wire between the ends of its predecessor and of itself; what            *)
(* readMessage has half read, the stream and what writeMessage has still   *)
(* to send lie there one after the other from the end of the last          *)
(* delivered message.  So the two cells readMessage takes for a msg_struct *)
(* are the msg_struct of the next message.                                 *)
(***************************************************************************)
EXTENDS MessageStream, SequenceTheorems, TLAPS

(* The cells s lie on the wire w after position k.                         *)
At(s, w, k) ==
    /\ k + Len(s) <= Len(w)
    /\ \A j \in 1..Len(s) : s[j] = w[k + j]

MessageType == [header : Nat, content : Seq(Nat)]

(* The messages written lie on the wire one after the other.               *)
WireInv ==
    /\ wire \in Seq(Nat) /\ ends \in Seq(Nat) /\ sent \in Seq(Messages)
    /\ Len(ends) = Len(sent)
    /\ EndOf(Len(sent)) = Len(wire)
    /\ \A i \in 1..Len(sent) :
         /\ ends[i] = EndOf(i - 1) + Len(Encode(sent[i]))
         /\ At(Encode(sent[i]), wire, EndOf(i - 1))

(* What writeMessage has still to send is the end of the wire.             *)
WriterInv ==
    /\ writerOpen \in BOOLEAN
    /\ writerPc \in {"idle", "struct", "content"}
    /\ unsent \in Seq(Nat) /\ writing \in MessageType
    /\ writing \in Messages \union {NoMessage}
    /\ writerPc = "idle" => unsent = <<>>
    /\ ~writerOpen => writerPc = "idle"
    /\ writerOpen => /\ Len(RestToSend) <= Len(wire)
                     /\ At(RestToSend, wire, Len(wire) - Len(RestToSend))

ReaderType ==
    /\ readerOpen \in BOOLEAN
    /\ readerPc \in {"idle", "struct", "content"}
    /\ buffer \in Seq(Nat) /\ stream \in Seq(Nat)
    /\ needed \in Nat /\ header \in Nat
    /\ Len(buffer) <= needed /\ Len(stream) <= Window
    /\ readerPc = "idle" => needed = 0
    /\ readerPc = "struct" => needed = StructSize

(* The messages delivered are the first ones sent.                         *)
PrefixInv ==
    /\ delivered \in Seq(MessageType)
    /\ Len(delivered) <= Len(sent)
    /\ \A i \in 1..Len(delivered) : delivered[i] = sent[i]

(* The end of the last delivered message, and of what has been received.   *)
Base  == EndOf(Len(delivered))
Taken == Base + Len(TakenPart)

(* What has been received, the stream and what is to be sent follow each   *)
(* other on the wire.                                                      *)
StepInv ==
    readerOpen => /\ At(TakenPart, wire, Base)
                  /\ At(stream, wire, Taken)
                  /\ writerOpen => Taken + Len(stream) + Len(RestToSend) = Len(wire)

StreamInv == WireInv /\ WriterInv /\ ReaderType /\ PrefixInv /\ StepInv

(***************************************************************************)
(* Lemmas about cells on a wire                                            *)
(***************************************************************************)
(* Sequences that agree as far as the shorter one goes.                    *)
LEMMA PrefixOf ==
    ASSUME NEW S, NEW s \in Seq(S), NEW t \in Seq(S),
           Len(s) <= Len(t), \A i \in 1..Len(s) : s[i] = t[i]
    PROVE  IsPrefix(s, t)
<1>1. Len(s) \in Nat /\ Len(t) \in Nat /\ \A i \in 1..Len(t) : t[i] \in S
  BY ElementOfSeq
<1>2. SubSeq(s, 1, Len(s)) = s
  BY SubSeqFull
<1> DEFINE u == SubSeq(t, 1, Len(s))
<1>3. u \in Seq(S) /\ Len(u) = Len(s) /\ \A i \in 1..Len(s) : u[i] = t[i]
  <2>1. \A i \in 1..Len(s) : t[i] \in S
    BY <1>1
  <2>2. /\ u \in Seq(S) /\ Len(u) = IF 1 <= Len(s) THEN Len(s) - 1 + 1 ELSE 0
        /\ \A i \in 1 .. Len(s) - 1 + 1 : u[i] = t[1 + i - 1]
    BY <1>1, <2>1, SubSeqProperties
  <2>3. Len(u) = Len(s)
    BY <1>1, <2>2
  <2>4. \A i \in 1..Len(s) : i \in 1..Len(s) - 1 + 1 /\ 1 + i - 1 = i
    BY <1>1
  <2> QED BY <2>2, <2>3, <2>4
<1> HIDE DEF u
<1>4. u = s
  <2>1. \A i \in 1..Len(u) : u[i] = s[i]
    BY <1>3
  <2> QED BY <1>3, <2>1, SeqEqual
<1> QED BY <1>2, <1>4 DEF IsPrefix, u

(* Nothing lies anywhere.                                                  *)
LEMMA AtEmpty ==
    ASSUME NEW w \in Seq(Nat), NEW k \in 0..Len(w)
    PROVE  At(<<>>, w, k)
BY DEF At

(* A concatenation lies where its parts lie one after the other.           *)
LEMMA AtConcat ==
    ASSUME NEW s \in Seq(Nat), NEW t \in Seq(Nat), NEW w \in Seq(Nat), NEW k \in Nat
    PROVE  At(s \o t, w, k) <=> At(s, w, k) /\ At(t, w, k + Len(s))
<1>1. /\ Len(s \o t) = Len(s) + Len(t)
      /\ \A i \in 1 .. Len(s) + Len(t) :
            (s \o t)[i] = IF i <= Len(s) THEN s[i] ELSE t[i - Len(s)]
  BY ConcatProperties
<1>2. Len(s) \in Nat /\ Len(t) \in Nat /\ Len(w) \in Nat
  OBVIOUS
<1> DEFINE st == s \o t
<1> HIDE DEF st
<1>3. ASSUME At(s, w, k), At(t, w, k + Len(s)) PROVE At(st, w, k)
  <2> SUFFICES ASSUME NEW j \in 1..Len(s) + Len(t) PROVE st[j] = w[k + j]
    BY <1>1, <1>2, <1>3 DEF At, st
  <2>1. CASE j <= Len(s)
    BY <1>1, <1>2, <1>3, <2>1 DEF At, st
  <2>2. CASE j > Len(s)
    <3>1. j - Len(s) \in 1..Len(t) /\ (k + Len(s)) + (j - Len(s)) = k + j
      BY <1>2, <2>2
    <3>2. t[j - Len(s)] = w[k + j]
      BY <1>3, <3>1 DEF At
    <3> QED BY <1>1, <1>2, <2>2, <3>2 DEF st
  <2> QED BY <1>2, <2>1, <2>2
<1>4. ASSUME At(st, w, k) PROVE At(s, w, k)
  <2> SUFFICES ASSUME NEW j \in 1..Len(s) PROVE s[j] = w[k + j]
    BY <1>1, <1>2, <1>4 DEF At, st
  <2>1. j \in 1..Len(st) /\ st[j] = s[j]
    BY <1>1, <1>2 DEF st
  <2> QED BY <1>4, <2>1 DEF At
<1>5. ASSUME At(st, w, k) PROVE At(t, w, k + Len(s))
  <2> SUFFICES ASSUME NEW j \in 1..Len(t) PROVE t[j] = w[k + Len(s) + j]
    <3>1. k + Len(s) + Len(t) <= Len(w)
      BY <1>1, <1>2, <1>5 DEF At, st
    <3> QED BY <3>1 DEF At
  <2>1. Len(s) + j \in 1..Len(st) /\ k + (Len(s) + j) = k + Len(s) + j
    BY <1>1, <1>2 DEF st
  <2>2. st[Len(s) + j] = w[k + Len(s) + j]
    BY <1>5, <2>1 DEF At
  <2>3. st[Len(s) + j] = t[j]
    BY <1>1, <1>2 DEF st
  <2> QED BY <2>2, <2>3
<1> QED BY <1>3, <1>4, <1>5 DEF st

(* A sequence cut in two.                                                  *)
LEMMA CutSeq ==
    ASSUME NEW s \in Seq(Nat), NEW n \in 0..Len(s)
    PROVE  /\ SubSeq(s, 1, n) \in Seq(Nat) /\ Len(SubSeq(s, 1, n)) = n
           /\ SubSeq(s, n + 1, Len(s)) \in Seq(Nat)
           /\ Len(SubSeq(s, n + 1, Len(s))) = Len(s) - n
           /\ SubSeq(s, 1, n) \o SubSeq(s, n + 1, Len(s)) = s
<1>1. \A i \in 1..Len(s) : s[i] \in Nat
  OBVIOUS
<1>2. SubSeq(s, 1, n) \in Seq(Nat) /\ Len(SubSeq(s, 1, n)) = n
  <2>1. \A i \in 1..n : s[i] \in Nat
    BY <1>1
  <2> QED BY <2>1, SubSeqProperties
<1>3. SubSeq(s, n + 1, Len(s)) \in Seq(Nat) /\ Len(SubSeq(s, n + 1, Len(s))) = Len(s) - n
  <2>1. \A i \in n + 1..Len(s) : s[i] \in Nat
    BY <1>1
  <2> QED BY <2>1, SubSeqProperties
<1>4. SubSeq(s, 1, n) \o SubSeq(s, n + 1, Len(s)) = s
  <2>1. SubSeq(s, 1, n) \o SubSeq(s, n + 1, Len(s)) = SubSeq(s, 1, Len(s))
    <3>1. 1 \in 1..Len(s) + 1 /\ n \in 1 - 1..Len(s) /\ Len(s) \in n..Len(s)
      OBVIOUS
    <3> QED BY <3>1, ConcatAdjacentSubSeq, Zenon
  <2> QED BY <2>1, SubSeqFull, Zenon
<1> QED BY <1>2, <1>3, <1>4, Zenon

(* A sequence that lies on the wire lies there in two parts, too.          *)
LEMMA AtCut ==
    ASSUME NEW s \in Seq(Nat), NEW w \in Seq(Nat), NEW k \in Nat, NEW n \in 0..Len(s),
           At(s, w, k)
    PROVE  /\ At(SubSeq(s, 1, n), w, k)
           /\ At(SubSeq(s, n + 1, Len(s)), w, k + n)
<1> DEFINE a == SubSeq(s, 1, n)
           b == SubSeq(s, n + 1, Len(s))
<1>1. a \in Seq(Nat) /\ b \in Seq(Nat) /\ Len(a) = n /\ a \o b = s
  BY CutSeq, Zenon
<1> HIDE DEF a, b
<1>2. At(a, w, k) /\ At(b, w, k + Len(a))
  BY <1>1, AtConcat, Zenon
<1> QED BY <1>1, <1>2 DEF a, b

(* Writing more moves nothing.                                             *)
LEMMA AtGrows ==
    ASSUME NEW s \in Seq(Nat), NEW w \in Seq(Nat), NEW u \in Seq(Nat), NEW k \in Nat,
           At(s, w, k)
    PROVE  At(s, w \o u, k)
<1>1. /\ Len(w \o u) = Len(w) + Len(u)
      /\ \A i \in 1..Len(w) : (w \o u)[i] = w[i]
  BY ConcatProperties
<1>2. Len(s) \in Nat /\ Len(u) \in Nat /\ Len(w) \in Nat
  OBVIOUS
<1> DEFINE wu == w \o u
<1> HIDE DEF wu
<1>3. \A j \in 1..Len(s) : k + j \in 1..Len(w)
  BY <1>2 DEF At
<1> QED BY <1>1, <1>2, <1>3 DEF At, wu

(* What is appended to the wire lies at its old end.                       *)
LEMMA AtEnd ==
    ASSUME NEW w \in Seq(Nat), NEW u \in Seq(Nat)
    PROVE  At(u, w \o u, Len(w))
<1>1. /\ Len(w \o u) = Len(w) + Len(u)
      /\ \A i \in 1 .. Len(w) + Len(u) :
            (w \o u)[i] = IF i <= Len(w) THEN w[i] ELSE u[i - Len(w)]
  BY ConcatProperties
<1>2. Len(u) \in Nat /\ Len(w) \in Nat
  OBVIOUS
<1> SUFFICES ASSUME NEW j \in 1..Len(u) PROVE u[j] = (w \o u)[Len(w) + j]
  BY <1>1 DEF At
<1>3. Len(w) + j \in 1..Len(w) + Len(u) /\ (Len(w) + j) - Len(w) = j /\ ~(Len(w) + j <= Len(w))
  BY <1>2
<1> QED BY <1>1, <1>3

(* What lies on the wire is the part of the wire it lies on.               *)
LEMMA AtIsSubSeq ==
    ASSUME NEW s \in Seq(Nat), NEW w \in Seq(Nat), NEW k \in Nat, At(s, w, k)
    PROVE  s = SubSeq(w, k + 1, k + Len(s))
<1> DEFINE t == SubSeq(w, k + 1, k + Len(s))
<1>1. Len(s) \in Nat /\ Len(w) \in Nat /\ k + Len(s) <= Len(w)
  BY DEF At
<1>2. \A i \in k + 1 .. k + Len(s) : w[i] \in Nat
  BY <1>1
<1>3. /\ t \in Seq(Nat) /\ Len(t) = Len(s)
      /\ \A i \in 1..Len(s) : t[i] = w[k + 1 + i - 1]
  <2>1. k + 1 \in Int /\ k + Len(s) \in Int
    BY <1>1
  <2>2. (k + Len(s)) - (k + 1) + 1 = Len(s)
    BY <1>1
  <2> QED BY <1>1, <1>2, <2>1, <2>2, SubSeqProperties
<1>4. \A i \in 1..Len(s) : s[i] = t[i]
  <2> TAKE i \in 1..Len(s)
  <2>1. k + 1 + i - 1 = k + i
    BY <1>1
  <2> QED BY <1>3, <2>1 DEF At
<1> HIDE DEF t
<1> QED BY <1>3, <1>4, SeqEqual, Zenon DEF t

(* What lies on the wire begins the wire from there on.                    *)
LEMMA AtIsPrefix ==
    ASSUME NEW s \in Seq(Nat), NEW w \in Seq(Nat), NEW k \in Nat, At(s, w, k)
    PROVE  IsPrefix(s, SubSeq(w, k + 1, Len(w)))
<1> DEFINE t == SubSeq(w, k + 1, Len(w))
<1>1. Len(s) \in Nat /\ Len(w) \in Nat /\ k + Len(s) <= Len(w)
  BY DEF At
<1>2. \A i \in k + 1 .. Len(w) : w[i] \in Nat
  BY <1>1
<1>3. /\ t \in Seq(Nat) /\ Len(t) = Len(w) - k
      /\ \A i \in 1..Len(w) - k : t[i] = w[k + i]
  <2>1. /\ t \in Seq(Nat) /\ Len(t) = IF k + 1 <= Len(w) THEN Len(w) - (k + 1) + 1 ELSE 0
        /\ \A i \in 1..Len(w) - (k + 1) + 1 : t[i] = w[(k + 1) + i - 1]
    BY <1>1, <1>2, SubSeqProperties
  <2>2. Len(t) = Len(w) - k
    BY <1>1, <2>1
  <2>3. \A i \in 1..Len(w) - k : i \in 1..Len(w) - (k + 1) + 1 /\ (k + 1) + i - 1 = k + i
    BY <1>1
  <2> QED BY <2>1, <2>2, <2>3
<1> HIDE DEF t
<1>4. Len(s) <= Len(t) /\ \A i \in 1..Len(s) : s[i] = t[i]
  BY <1>1, <1>3 DEF At
<1> QED BY <1>3, <1>4, PrefixOf, Zenon DEF t

(***************************************************************************)
(* Lemmas about messages                                                   *)
(***************************************************************************)
(* A message on the wire is its header, its length and its content.        *)
LEMMA EncodeType ==
    ASSUME NEW m \in MessageType
    PROVE  /\ MsgStruct(m) \in Seq(Nat) /\ Len(MsgStruct(m)) = 2
           /\ m.content \in Seq(Nat) /\ Len(m.content) \in Nat
           /\ Encode(m) \in Seq(Nat)
           /\ Len(Encode(m)) = 2 + Len(m.content)
<1>1. m.header \in Nat /\ m.content \in Seq(Nat) /\ Len(m.content) \in Nat
  BY DEF MessageType
<1>2. MsgStruct(m) \in Seq(Nat) /\ Len(MsgStruct(m)) = 2
  BY <1>1 DEF MsgStruct
<1>3. MsgStruct(m) \o m.content \in Seq(Nat)
  BY <1>1, <1>2, ConcatProperties
<1>4. Len(MsgStruct(m) \o m.content) = Len(MsgStruct(m)) + Len(m.content)
  BY <1>1, <1>2, ConcatProperties, Zenon
<1> QED BY <1>1, <1>2, <1>3, <1>4 DEF Encode

(* Where a message lies, its header, its length and its content lie.       *)
LEMMA EncodeAt ==
    ASSUME NEW m \in MessageType, NEW w \in Seq(Nat), NEW k \in Nat, At(Encode(m), w, k)
    PROVE  /\ w[k + 1] = m.header
           /\ w[k + 2] = Len(m.content)
           /\ At(m.content, w, k + 2)
<1>1. At(MsgStruct(m), w, k) /\ At(m.content, w, k + 2)
  <2>1. MsgStruct(m) \in Seq(Nat) /\ m.content \in Seq(Nat) /\ Len(MsgStruct(m)) = 2
    BY EncodeType
  <2>2. At(MsgStruct(m) \o m.content, w, k)
    BY DEF Encode
  <2> QED BY <2>1, <2>2, AtConcat, Zenon
<1>2. MsgStruct(m)[1] = m.header /\ MsgStruct(m)[2] = Len(m.content)
  BY DEF MsgStruct
<1>3. 1 \in 1..Len(MsgStruct(m)) /\ 2 \in 1..Len(MsgStruct(m))
  <2>1. Len(MsgStruct(m)) = 2
    BY EncodeType
  <2> QED BY <2>1
<1> QED BY <1>1, <1>2, <1>3, Zenon DEF At

(***************************************************************************)
(* The invariant                                                           *)
(***************************************************************************)
(* The parts of a message that are in the reader's and the writer's hands. *)
LEMMA TakenType ==
    ASSUME ReaderType
    PROVE  /\ TakenPart \in Seq(Nat)
           /\ Len(TakenPart) = IF readerPc = "content" THEN 2 + Len(buffer) ELSE Len(buffer)
<1>1. buffer \in Seq(Nat) /\ Len(buffer) \in Nat
  BY DEF ReaderType
<1>2. <<header, needed>> \in Seq(Nat) /\ Len(<<header, needed>>) = 2
  BY DEF ReaderType
<1>3. /\ <<header, needed>> \o buffer \in Seq(Nat)
      /\ Len(<<header, needed>> \o buffer) = Len(<<header, needed>>) + Len(buffer)
  BY <1>1, <1>2, ConcatProperties
<1> QED BY <1>1, <1>2, <1>3 DEF TakenPart

(* What is left to send: the rest of the struct and, until that is sent,   *)
(* the content.                                                            *)
LEMMA RestType ==
    ASSUME WriterInv
    PROVE  /\ RestToSend \in Seq(Nat)
           /\ Len(RestToSend) =
                Len(unsent) + IF writerPc = "struct" THEN Len(writing.content) ELSE 0
<1> DEFINE c == IF writerPc = "struct" THEN writing.content ELSE <<>>
<1>1. unsent \in Seq(Nat)
  BY DEF WriterInv
<1>2. writing.content \in Seq(Nat)
  BY DEF WriterInv, MessageType
<1>3. c \in Seq(Nat) /\ Len(c) = IF writerPc = "struct" THEN Len(writing.content) ELSE 0
  BY <1>2
<1> HIDE DEF c
<1>4. unsent \o c \in Seq(Nat) /\ Len(unsent \o c) = Len(unsent) + Len(c)
  BY <1>1, <1>3, ConcatProperties, Zenon
<1> QED BY <1>3, <1>4 DEF RestToSend, c

(* The delivered messages end on the wire.                                 *)
LEMMA BaseType ==
    ASSUME WireInv, NEW n \in 0..Len(sent)
    PROVE  EndOf(n) \in 0..Len(wire)
<1>1. Len(sent) \in Nat /\ Len(wire) \in Nat
  BY DEF WireInv
<1>2. CASE n = 0
  BY <1>1, <1>2 DEF EndOf
<1>3. CASE n # 0
  <2>1. n \in 1..Len(sent) /\ n \in 1..Len(ends) /\ sent[n] \in MessageType
    BY <1>1, <1>3, MessagesAssumption DEF WireInv, MessageType
  <2>2. ends[n] \in Nat /\ EndOf(n) = ends[n]
    BY <1>3, <2>1 DEF WireInv, EndOf
  <2>3. /\ ends[n] = EndOf(n - 1) + Len(Encode(sent[n]))
        /\ EndOf(n - 1) + Len(Encode(sent[n])) <= Len(wire)
    BY <2>1 DEF WireInv, At
  <2> QED BY <1>1, <2>2, <2>3
<1> QED BY <1>2, <1>3

(* The next message lies on the wire after the last delivered one.         *)
LEMMA NextMessage ==
    ASSUME WireInv, NEW n \in 0..Len(sent), EndOf(n) < Len(wire)
    PROVE  /\ n + 1 \in 1..Len(sent) /\ sent[n + 1] \in MessageType
           /\ wire[EndOf(n) + 1] = sent[n + 1].header
           /\ wire[EndOf(n) + 2] = Len(sent[n + 1].content)
           /\ At(sent[n + 1].content, wire, EndOf(n) + 2)
           /\ EndOf(n + 1) = EndOf(n) + 2 + Len(sent[n + 1].content)
<1>1. Len(sent) \in Nat /\ Len(wire) \in Nat /\ wire \in Seq(Nat)
  BY DEF WireInv
<1>2. EndOf(n) \in Nat
  BY BaseType, <1>1
<1>3. n # Len(sent)
  BY <1>1, <1>2 DEF WireInv
<1>4. n + 1 \in 1..Len(sent) /\ (n + 1) - 1 = n /\ n + 1 # 0
  BY <1>1, <1>3
<1>5. sent[n + 1] \in MessageType
  BY <1>4, MessagesAssumption DEF WireInv, MessageType
<1>6. /\ ends[n + 1] = EndOf(n) + Len(Encode(sent[n + 1]))
      /\ At(Encode(sent[n + 1]), wire, EndOf(n))
  BY <1>4 DEF WireInv
<1>7. Len(Encode(sent[n + 1])) = 2 + Len(sent[n + 1].content)
      /\ Len(sent[n + 1].content) \in Nat
  BY <1>5, EncodeType
<1>8. EndOf(n + 1) = ends[n + 1]
  BY <1>4 DEF EndOf
<1>9. EndOf(n + 1) = EndOf(n) + 2 + Len(sent[n + 1].content)
  <2>1. ends[n + 1] = EndOf(n) + (2 + Len(sent[n + 1].content))
    BY <1>6, <1>7
  <2>2. \A b, l \in Nat : b + (2 + l) = b + 2 + l
    OBVIOUS
  <2> QED BY <1>2, <1>7, <1>8, <2>1, <2>2, Zenon
<1> QED BY <1>1, <1>2, <1>4, <1>5, <1>6, <1>9, EncodeAt, SMTT(20)

(* The two ends start with nothing written.                                *)
LEMMA InitStream == Init => StreamInv
<1> SUFFICES ASSUME Init PROVE StreamInv
  OBVIOUS
<1>1. Len(<<>>) = 0 /\ <<>> \in Seq(Nat) /\ <<>> \in Seq(Messages) /\ <<>> \in Seq(MessageType)
  OBVIOUS
<1>2. /\ wire = <<>> /\ ends = <<>> /\ sent = <<>> /\ delivered = <<>> /\ stream = <<>>
      /\ unsent = <<>> /\ buffer = <<>> /\ needed = 0 /\ header = 0
      /\ writerPc = "idle" /\ readerPc = "idle" /\ writing = NoMessage
  BY DEF Init
<1>3. writerOpen \in BOOLEAN /\ readerOpen \in BOOLEAN
  BY DEF Init
<1>4. NoMessage \in MessageType
  BY <1>1 DEF NoMessage, MessageType
<1>5. TakenPart = <<>> /\ Base = 0
  BY <1>1, <1>2 DEF TakenPart, Base, EndOf
<1>6. RestToSend = <<>>
  <2>1. <<>> \o <<>> = <<>>
    BY <1>1, ConcatEmptySeq
  <2> QED BY <1>2, <2>1 DEF RestToSend
<1>7. At(<<>>, <<>>, 0)
  BY <1>1 DEF At
<1>8. WireInv
  BY <1>1, <1>2 DEF WireInv, EndOf
<1>9. WriterInv
  BY <1>1, <1>2, <1>3, <1>4, <1>6, <1>7 DEF WriterInv
<1>10. ReaderType /\ PrefixInv
  BY <1>1, <1>2, <1>3, WindowAssumption DEF ReaderType, PrefixInv
<1>11. StepInv
  BY <1>1, <1>2, <1>5, <1>6, <1>7 DEF StepInv, Taken
<1> QED BY <1>8, <1>9, <1>10, <1>11 DEF StreamInv

(* A new message lies at the end of the wire, all of it still to be sent.  *)
LEMMA WriteStep ==
    ASSUME StreamInv, NEW m \in Messages, writeMessage(m)
    PROVE  StreamInv'
<1> USE DEF StreamInv
<1>1. m \in MessageType
  BY MessagesAssumption DEF MessageType
<1> DEFINE e == Encode(m)
<1>2. e \in Seq(Nat) /\ Len(e) \in Nat /\ MsgStruct(m) \in Seq(Nat) /\ m.content \in Seq(Nat)
      /\ Len(MsgStruct(m)) = 2 /\ Len(e) = 2 + Len(m.content)
  BY <1>1, EncodeType
<1>3. /\ sent' = Append(sent, m) /\ wire' = wire \o e /\ ends' = Append(ends, Len(wire) + Len(e))
      /\ unsent' = MsgStruct(m) /\ writing' = m /\ writerPc' = "struct"
      /\ writerOpen /\ writerPc = "idle"
      /\ UNCHANGED <<writerOpen, stream, readerOpen, readerPc, buffer, needed, header, delivered>>
  BY DEF writeMessage, readerVars
<1> HIDE DEF e
<1>4. /\ wire \in Seq(Nat) /\ Len(wire) \in Nat /\ ends \in Seq(Nat) /\ sent \in Seq(Messages)
      /\ Len(sent) \in Nat /\ Len(ends) = Len(sent)
  BY DEF WireInv
<1>5. wire' \in Seq(Nat) /\ Len(wire') = Len(wire) + Len(e)
  BY <1>2, <1>3, <1>4, ConcatProperties, Zenon
<1>6. /\ sent' \in Seq(Messages) /\ Len(sent') = Len(sent) + 1 /\ sent'[Len(sent) + 1] = m
      /\ \A i \in 1..Len(sent) : sent'[i] = sent[i]
  BY <1>3, <1>4, AppendProperties
<1>7. /\ ends' \in Seq(Nat) /\ Len(ends') = Len(ends) + 1
      /\ ends'[Len(ends) + 1] = Len(wire) + Len(e)
      /\ \A i \in 1..Len(ends) : ends'[i] = ends[i]
  <2>1. Len(wire) + Len(e) \in Nat
    BY <1>2, <1>4
  <2> QED BY <1>3, <1>4, <2>1, AppendProperties
<1>8. ASSUME NEW i \in 0..Len(sent) PROVE EndOf(i)' = EndOf(i) /\ EndOf(i) \in Nat
  <2>1. i # 0 => ends'[i] = ends[i]
    BY <1>4, <1>7
  <2>2. EndOf(i) \in 0..Len(wire)
    BY BaseType
  <2> QED BY <1>4, <2>1, <2>2 DEF EndOf
<1>10. WireInv'
  <2>1. EndOf(Len(sent))' = Len(wire')
    BY <1>3, <1>4, <1>5, <1>6, <1>7 DEF EndOf
  <2>2. ASSUME NEW i \in 1..Len(sent')
        PROVE  /\ ends'[i] = EndOf(i - 1)' + Len(Encode(sent'[i]))
               /\ At(Encode(sent'[i]), wire', EndOf(i - 1)')
    <3>0. i - 1 \in 0..Len(sent)
      BY <1>4, <1>6
    <3>1. CASE i = Len(sent) + 1
      <4>1. i - 1 = Len(sent) /\ EndOf(Len(sent)) = Len(wire)
        BY <1>4, <3>1 DEF WireInv
      <4>2. EndOf(i - 1)' = Len(wire)
        BY <3>0, <4>1, <1>8
      <4>3. sent'[i] = m /\ ends'[i] = Len(wire) + Len(e)
        BY <1>4, <1>6, <1>7, <3>1
      <4>4. At(e, wire', Len(wire))
        BY <1>2, <1>3, <1>4, AtEnd
      <4> QED BY <4>2, <4>3, <4>4 DEF e
    <3>2. CASE i # Len(sent) + 1
      <4>1. i \in 1..Len(sent)
        BY <1>4, <1>6, <3>2
      <4>2. /\ ends[i] = EndOf(i - 1) + Len(Encode(sent[i]))
            /\ At(Encode(sent[i]), wire, EndOf(i - 1))
        BY <4>1 DEF WireInv
      <4>3. sent'[i] = sent[i] /\ ends'[i] = ends[i]
        BY <1>4, <1>6, <1>7, <4>1
      <4>4. EndOf(i - 1)' = EndOf(i - 1) /\ EndOf(i - 1) \in Nat
        BY <3>0, <1>8
      <4>5. Encode(sent[i]) \in Seq(Nat)
        <5>1. sent[i] \in MessageType
          BY <1>4, <4>1, MessagesAssumption DEF MessageType
        <5> QED BY <5>1, EncodeType
      <4>6. At(Encode(sent[i]), wire', EndOf(i - 1))
        BY <1>2, <1>3, <1>4, <4>2, <4>4, <4>5, AtGrows
      <4> QED BY <4>2, <4>3, <4>4, <4>6
    <3> QED BY <3>1, <3>2
  <2> QED BY <1>4, <1>5, <1>6, <1>7, <2>1, <2>2 DEF WireInv
<1>11. RestToSend = <<>> /\ RestToSend' = e
  <2>1. unsent = <<>>
    BY <1>3 DEF WriterInv
  <2>2. <<>> \o <<>> = <<>>
    BY ConcatEmptySeq
  <2> QED BY <1>3, <2>1, <2>2 DEF RestToSend, Encode, e
<1>12. WriterInv'
  <2>1. At(e, wire', Len(wire)) /\ Len(wire') - Len(e) = Len(wire) /\ Len(e) <= Len(wire')
    BY <1>2, <1>3, <1>4, <1>5, AtEnd
  <2> QED BY <1>1, <1>2, <1>3, <1>11, <2>1 DEF WriterInv
<1>13. ReaderType'
  BY <1>3 DEF ReaderType
<1>14. PrefixInv'
  <2>1. Len(delivered) \in Nat /\ Len(delivered) <= Len(sent)
    BY DEF PrefixInv
  <2> QED BY <1>3, <1>4, <1>6, <2>1 DEF PrefixInv
<1>15. StepInv'
  <2> SUFFICES ASSUME readerOpen
               PROVE  /\ At(TakenPart', wire', Base') /\ At(stream', wire', Taken')
                      /\ writerOpen => Taken' + Len(stream') + Len(RestToSend') = Len(wire')
    BY <1>3 DEF StepInv
  <2>1. TakenPart' = TakenPart /\ TakenPart \in Seq(Nat) /\ stream \in Seq(Nat)
    BY <1>3, TakenType DEF TakenPart, ReaderType
  <2>2. Len(delivered) \in 0..Len(sent)
    BY DEF PrefixInv
  <2>3. Base' = Base /\ Base \in Nat
    BY <1>3, <1>8, <2>2 DEF Base
  <2>4. Taken' = Taken /\ Taken \in Nat
    BY <2>1, <2>3 DEF Taken
  <2>5. At(TakenPart, wire', Base) /\ At(stream, wire', Taken)
    BY <1>2, <1>3, <1>4, <2>1, <2>3, <2>4, AtGrows DEF StepInv
  <2>6. writerOpen => Taken + Len(stream) = Len(wire)
    <3>1. Len(RestToSend) = 0 /\ Len(stream) \in Nat
      BY <1>11, <2>1
    <3> QED BY <2>4, <3>1 DEF StepInv
  <2> QED BY <1>3, <1>5, <1>11, <2>1, <2>3, <2>4, <2>5, <2>6, Zenon
<1> QED BY <1>10, <1>12, <1>13, <1>14, <1>15

(* A step that writes no message keeps the wire, and where messages end.   *)
LEMMA WireSame ==
    ASSUME StreamInv, UNCHANGED history
    PROVE  /\ WireInv' /\ wire' = wire /\ sent' = sent /\ ends' = ends
           /\ UNCHANGED delivered => Base' = Base /\ PrefixInv'
           /\ Base \in 0..Len(wire) /\ wire \in Seq(Nat) /\ Len(wire) \in Nat
           /\ Len(delivered) \in 0..Len(sent)
<1> USE DEF StreamInv
<1>1. wire' = wire /\ sent' = sent /\ ends' = ends
  BY DEF history
<1>2. WireInv'
  BY <1>1 DEF WireInv, EndOf
<1>3. Len(delivered) \in 0..Len(sent) /\ wire \in Seq(Nat) /\ Len(wire) \in Nat
  BY DEF PrefixInv, WireInv
<1>4. Base \in 0..Len(wire)
  BY <1>3, BaseType DEF Base
<1>5. ASSUME UNCHANGED delivered PROVE Base' = Base /\ PrefixInv'
  BY <1>1, <1>5 DEF Base, EndOf, PrefixInv
<1> QED BY <1>1, <1>2, <1>3, <1>4, <1>5

(* A step of the reader or the network keeps what is left to send.         *)
LEMMA WriterSame ==
    ASSUME StreamInv, UNCHANGED writerVars
    PROVE  /\ WriterInv' /\ RestToSend' = RestToSend /\ UNCHANGED <<history, writerOpen>>
           /\ RestToSend \in Seq(Nat) /\ Len(RestToSend) \in Nat
<1>1. UNCHANGED <<writerOpen, writerPc, unsent, writing, history, wire>>
  BY DEF writerVars, history
<1>2. RestToSend' = RestToSend
  BY <1>1 DEF RestToSend
<1>3. WriterInv'
  BY <1>1, <1>2 DEF StreamInv, WriterInv
<1>4. RestToSend \in Seq(Nat)
  BY RestType DEF StreamInv
<1> QED BY <1>1, <1>2, <1>3, <1>4

(* A step of the writer keeps what the reader has taken.                   *)
LEMMA ReaderSame ==
    ASSUME StreamInv, UNCHANGED readerVars
    PROVE  /\ TakenPart' = TakenPart /\ UNCHANGED <<readerOpen, delivered>>
           /\ TakenPart \in Seq(Nat) /\ Len(TakenPart) \in Nat
           /\ stream' \in Seq(Nat) /\ Len(stream') <= Window => ReaderType'
           /\ stream \in Seq(Nat) /\ Len(stream) \in Nat
<1>1. UNCHANGED <<readerOpen, readerPc, buffer, needed, header, delivered>>
  BY DEF readerVars
<1>2. TakenPart' = TakenPart
  BY <1>1 DEF TakenPart
<1>3. ASSUME stream' \in Seq(Nat), Len(stream') <= Window PROVE ReaderType'
  BY <1>1, <1>3 DEF StreamInv, ReaderType
<1>4. TakenPart \in Seq(Nat) /\ stream \in Seq(Nat)
  BY TakenType DEF StreamInv, ReaderType
<1> QED BY <1>1, <1>2, <1>3, <1>4

(* Cells that move from writeMessage into the network stay where they lie. *)
LEMMA SendStep ==
    ASSUME StreamInv, NEW n \in 1..Window, SendSome(n)
    PROVE  StreamInv'
<1> USE DEF StreamInv
<1> DEFINE a == SubSeq(unsent, 1, n)
           b == SubSeq(unsent, n + 1, Len(unsent))
           c == IF writerPc = "struct" THEN writing.content ELSE <<>>
<1>1. /\ stream' = stream \o a /\ unsent' = b
      /\ writerOpen /\ n \in 1..Len(unsent) /\ Len(stream) + n <= Window
      /\ writerPc # "idle"
      /\ UNCHANGED <<writerOpen, writerPc, writing, history, readerVars>>
  BY DEF SendSome
<1>2. unsent \in Seq(Nat) /\ Len(unsent) \in Nat /\ n \in 0..Len(unsent)
  BY <1>1, WindowAssumption DEF WriterInv
<1>3. /\ a \in Seq(Nat) /\ Len(a) = n /\ b \in Seq(Nat) /\ Len(b) = Len(unsent) - n
      /\ a \o b = unsent
  BY <1>2, CutSeq
<1>4. c \in Seq(Nat) /\ Len(c) \in Nat
  <2>1. writing.content \in Seq(Nat)
    BY DEF WriterInv, MessageType
  <2> QED BY <2>1
<1>5. RestToSend = unsent \o c /\ RestToSend' = b \o c
  BY <1>1 DEF RestToSend
<1> HIDE DEF a, b, c
<1>6. /\ Len(RestToSend) = Len(unsent) + Len(c)
      /\ Len(RestToSend') = Len(RestToSend) - n
      /\ RestToSend' \in Seq(Nat)
  <2>1. Len(unsent \o c) = Len(unsent) + Len(c) /\ Len(b \o c) = Len(b) + Len(c)
        /\ b \o c \in Seq(Nat)
    BY <1>2, <1>3, <1>4, ConcatProperties, Zenon
  <2> QED BY <1>1, <1>2, <1>3, <1>4, <1>5, <2>1
<1>7. /\ WireInv' /\ wire' = wire /\ wire \in Seq(Nat) /\ Len(wire) \in Nat
      /\ Base' = Base /\ PrefixInv' /\ Base \in 0..Len(wire)
  BY <1>1, WireSame, ReaderSame
<1>8. /\ TakenPart' = TakenPart /\ UNCHANGED readerOpen /\ TakenPart \in Seq(Nat)
      /\ Len(TakenPart) \in Nat /\ stream \in Seq(Nat) /\ Len(stream) \in Nat
  BY <1>1, ReaderSame
<1>9. stream' \in Seq(Nat) /\ Len(stream') = Len(stream) + n
  BY <1>1, <1>3, <1>8, ConcatProperties, Zenon
<1>10. ReaderType'
  BY <1>1, <1>9, ReaderSame
<1> DEFINE k == Len(wire) - Len(RestToSend)
<1>11. k \in Nat /\ At(RestToSend, wire, k)
  <2>1. Len(RestToSend) \in Nat
    BY <1>2, <1>4, <1>6
  <2> QED BY <1>1, <1>7, <2>1 DEF WriterInv
<1>12. At(a, wire, k) /\ At(b, wire, k + n) /\ At(c, wire, k + Len(unsent))
  <2>1. At(unsent, wire, k) /\ At(c, wire, k + Len(unsent))
    BY <1>2, <1>4, <1>5, <1>7, <1>11, AtConcat
  <2>2. At(a, wire, k) /\ At(b, wire, k + n)
    BY <1>2, <1>7, <1>11, <2>1, AtCut DEF a, b
  <2> QED BY <2>1, <2>2
<1>13. At(RestToSend', wire, k + n) /\ k + n = Len(wire) - Len(RestToSend')
  <2>1. k + n + Len(b) = k + Len(unsent)
    BY <1>2, <1>3, <1>11
  <2>2. At(b \o c, wire, k + n)
    <3>1. k + n \in Nat
      BY <1>2, <1>11
    <3>2. At(c, wire, k + n + Len(b))
      BY <1>12, <2>1
    <3> QED BY <1>3, <1>4, <1>7, <1>12, <3>1, <3>2, AtConcat, Zenon
  <2> QED BY <1>2, <1>4, <1>5, <1>6, <1>7, <2>2
<1>14. WriterInv'
  <2>1. Len(RestToSend') <= Len(wire)
    BY <1>2, <1>6, <1>7, <1>11
  <2> QED BY <1>1, <1>3, <1>7, <1>13, <2>1, Zenon DEF WriterInv
<1>15. StepInv'
  <2> SUFFICES ASSUME readerOpen
               PROVE  /\ At(TakenPart, wire, Base) /\ At(stream', wire, Taken)
                      /\ Taken + Len(stream') + Len(RestToSend') = Len(wire)
    BY <1>7, <1>8 DEF StepInv, Taken
  <2>1. Taken \in Nat
    BY <1>7, <1>8 DEF Taken
  <2>2. /\ At(TakenPart, wire, Base) /\ At(stream, wire, Taken)
        /\ Taken + Len(stream) + Len(RestToSend) = Len(wire)
    BY <1>1 DEF StepInv
  <2>3. Taken + Len(stream) = k
    BY <1>2, <1>4, <1>6, <1>7, <1>8, <2>1, <2>2
  <2>4. At(stream', wire, Taken)
    BY <1>1, <1>3, <1>7, <1>8, <1>12, <2>1, <2>2, <2>3, AtConcat, Zenon
  <2>5. \A t, l, r \in Nat : t + (l + n) + (r - n) = t + l + r
    BY <1>2
  <2>6. Len(RestToSend) \in Nat
    BY <1>2, <1>4, <1>6
  <2>7. Taken + (Len(stream) + n) + (Len(RestToSend) - n) = Taken + Len(stream) + Len(RestToSend)
    BY <1>8, <2>1, <2>5, <2>6
  <2>8. Taken + Len(stream') + Len(RestToSend') = Len(wire)
    BY <1>6, <1>9, <2>2, <2>7
  <2> QED BY <2>2, <2>4, <2>8
<1> QED BY <1>7, <1>10, <1>14, <1>15

(* The content follows the msg_struct; what is left to send is the same.   *)
LEMMA SendReturnsStep ==
    ASSUME StreamInv, SendReturns
    PROVE  StreamInv'
<1> USE DEF StreamInv
<1>1. /\ writerOpen /\ writerPc # "idle" /\ unsent = <<>>
      /\ UNCHANGED <<writerOpen, writing, history, stream, readerVars>>
  BY DEF SendReturns
<1>2. writing \in MessageType /\ writing.content \in Seq(Nat)
  BY DEF WriterInv, MessageType
<1>3. writerPc \in {"struct", "content"}
  BY <1>1 DEF WriterInv
<1>4. <<>> \in Seq(Nat) /\ <<>> \o <<>> = <<>>
      /\ <<>> \o writing.content = writing.content /\ writing.content \o <<>> = writing.content
  BY <1>2, ConcatEmptySeq
<1>5. /\ RestToSend' = RestToSend /\ unsent' \in Seq(Nat)
      /\ writerPc' \in {"idle", "content"} /\ (writerPc' = "idle" => unsent' = <<>>)
  <2>1. CASE writerPc = "struct" /\ Len(writing.content) > 0
    <3>1. unsent' = writing.content /\ writerPc' = "content"
      BY <2>1 DEF SendReturns
    <3> QED BY <1>1, <1>2, <1>4, <2>1, <3>1 DEF RestToSend
  <2>2. CASE ~(writerPc = "struct" /\ Len(writing.content) > 0)
    <3>1. unsent' = <<>> /\ writerPc' = "idle"
      BY <2>2 DEF SendReturns
    <3>2. writerPc = "struct" => writing.content = <<>>
      BY <1>2, <2>2, EmptySeq
    <3> QED BY <1>1, <1>3, <1>4, <3>1, <3>2 DEF RestToSend
  <2> QED BY <2>1, <2>2
<1>6. WireInv' /\ wire' = wire /\ Base' = Base /\ PrefixInv'
  BY <1>1, WireSame, ReaderSame
<1>7. TakenPart' = TakenPart /\ UNCHANGED readerOpen /\ ReaderType'
  BY <1>1, ReaderSame DEF ReaderType
<1>8. WriterInv'
  BY <1>1, <1>5, <1>6 DEF WriterInv
<1>9. StepInv'
  BY <1>1, <1>5, <1>6, <1>7 DEF StepInv, Taken
<1> QED BY <1>6, <1>7, <1>8, <1>9

(* A writer that fails leaves what it has sent where it lies.              *)
LEMMA WriterClosesStep ==
    ASSUME StreamInv, WriterCloses
    PROVE  StreamInv'
<1> USE DEF StreamInv
<1>1. /\ writerOpen' = FALSE /\ writerPc' = "idle" /\ unsent' = <<>>
      /\ UNCHANGED <<writing, history, stream, readerVars>>
  BY DEF WriterCloses
<1>2. WireInv' /\ wire' = wire /\ Base' = Base /\ PrefixInv'
  BY <1>1, WireSame, ReaderSame
<1>3. TakenPart' = TakenPart /\ UNCHANGED readerOpen /\ ReaderType'
  BY <1>1, ReaderSame DEF ReaderType
<1>4. WriterInv'
  BY <1>1, EmptySeq, Zenon DEF WriterInv
<1>5. StepInv'
  BY <1>1, <1>2, <1>3 DEF StepInv, Taken
<1> QED BY <1>2, <1>3, <1>4, <1>5

(* What is lost at the end of a connection is a suffix of the stream.      *)
LEMMA LoseStep ==
    ASSUME StreamInv, NEW n \in 0..Window, LoseSuffix(n)
    PROVE  StreamInv'
<1> USE DEF StreamInv
<1>1. /\ ~writerOpen /\ stream' = SubSeq(stream, 1, n) /\ n \in 0..Len(stream) - 1
      /\ UNCHANGED <<writerVars, readerVars>>
  BY DEF LoseSuffix
<1>2. WriterInv' /\ UNCHANGED <<history, writerOpen>>
  BY <1>1, WriterSame
<1>3. /\ WireInv' /\ wire' = wire /\ Base' = Base /\ PrefixInv'
      /\ wire \in Seq(Nat) /\ Base \in 0..Len(wire)
  BY <1>1, <1>2, WireSame, ReaderSame
<1>4. stream \in Seq(Nat) /\ Len(stream) \in Nat /\ n \in 0..Len(stream) /\ Len(stream) <= Window
  BY <1>1, WindowAssumption DEF ReaderType
<1>5. stream' \in Seq(Nat) /\ Len(stream') <= Window
  BY <1>1, <1>4, CutSeq, WindowAssumption
<1>6. /\ TakenPart' = TakenPart /\ UNCHANGED readerOpen /\ ReaderType'
      /\ Len(TakenPart) \in Nat
  BY <1>1, <1>5, ReaderSame
<1>7. Taken \in Nat /\ Taken' = Taken
  BY <1>3, <1>6 DEF Taken
<1>8. readerOpen => At(stream', wire, Taken)
  BY <1>1, <1>3, <1>4, <1>7, AtCut DEF StepInv
<1>9. StepInv'
  BY <1>1, <1>2, <1>3, <1>6, <1>7, <1>8 DEF StepInv
<1> QED BY <1>2, <1>3, <1>6, <1>9

(* readMessage starts with nothing taken; a reader that closes takes       *)
(* nothing any more.                                                       *)
LEMMA ReadStep ==
    ASSUME StreamInv, readMessage \/ ReaderCloses
    PROVE  StreamInv'
<1> USE DEF StreamInv
<1>1. UNCHANGED writerVars /\ UNCHANGED delivered /\ UNCHANGED header /\ buffer' = <<>>
  BY DEF readMessage, ReaderCloses
<1>2. WriterInv' /\ RestToSend' = RestToSend /\ UNCHANGED <<history, writerOpen>>
  BY <1>1, WriterSame
<1>3. WireInv' /\ wire' = wire /\ Base' = Base /\ PrefixInv' /\ Base \in Nat
  BY <1>1, <1>2, WireSame
<1>4. <<>> \in Seq(Nat) /\ Len(<<>>) = 0
  OBVIOUS
<1>5. CASE readMessage
  <2>1. /\ readerPc = "idle" /\ readerPc' = "struct" /\ needed' = StructSize
        /\ UNCHANGED <<stream, readerOpen>>
    BY <1>5 DEF readMessage
  <2>2. buffer = <<>>
    BY <2>1, EmptySeq DEF ReaderType
  <2>3. TakenPart' = TakenPart
    BY <1>1, <2>1, <2>2 DEF TakenPart
  <2>4. ReaderType'
    BY <1>1, <1>4, <2>1 DEF ReaderType, StructSize
  <2>5. StepInv'
    BY <1>2, <1>3, <2>1, <2>3 DEF StepInv, Taken
  <2> QED BY <1>2, <1>3, <2>4, <2>5
<1>6. CASE ReaderCloses
  <2>1. readerOpen' = FALSE /\ readerPc' = "idle" /\ needed' = 0 /\ stream' = <<>>
    BY <1>6 DEF ReaderCloses
  <2>2. StepInv'
    BY <2>1 DEF StepInv
  <2>3. readerOpen' \in BOOLEAN
    BY <2>1, Zenon
  <2>4. ReaderType'
    BY <1>1, <1>4, <2>1, <2>3, WindowAssumption DEF ReaderType
  <2> QED BY <1>2, <1>3, <2>2, <2>4
<1> QED BY <1>5, <1>6

(* Cells that move from the network into the buffer stay where they lie.   *)
LEMMA ReceiveStep ==
    ASSUME StreamInv, NEW n \in 1..Window, ReceiveSome(n)
    PROVE  StreamInv'
<1> USE DEF StreamInv
<1> DEFINE a == SubSeq(stream, 1, n)
           b == SubSeq(stream, n + 1, Len(stream))
           p == IF readerPc = "content" THEN <<header, needed>> ELSE <<>>
<1>1. /\ readerOpen /\ readerPc # "idle" /\ n \in 1..Len(stream) /\ Len(buffer) + n <= needed
      /\ buffer' = buffer \o a /\ stream' = b
      /\ UNCHANGED <<writerVars, readerOpen, readerPc, needed, header, delivered>>
  BY DEF ReceiveSome
<1>2. WriterInv' /\ RestToSend' = RestToSend /\ UNCHANGED <<history, writerOpen>>
      /\ Len(RestToSend) \in Nat
  BY <1>1, WriterSame
<1>3. /\ WireInv' /\ wire' = wire /\ Base' = Base /\ PrefixInv'
      /\ wire \in Seq(Nat) /\ Len(wire) \in Nat /\ Base \in Nat
  BY <1>1, <1>2, WireSame
<1>4. /\ stream \in Seq(Nat) /\ Len(stream) \in Nat /\ n \in 0..Len(stream) /\ n \in Nat
      /\ Len(stream) <= Window /\ buffer \in Seq(Nat) /\ Len(buffer) \in Nat
  BY <1>1, WindowAssumption DEF ReaderType
<1>5. a \in Seq(Nat) /\ Len(a) = n /\ b \in Seq(Nat) /\ Len(b) = Len(stream) - n
  BY <1>4, CutSeq
<1>6. p \in Seq(Nat)
  BY DEF ReaderType
<1>7. TakenPart = p \o buffer /\ TakenPart' = p \o (buffer \o a)
  <2>1. <<>> \o buffer = buffer
    BY <1>4, ConcatEmptySeq
  <2>2. buffer \o a \in Seq(Nat)
    BY <1>4, <1>5, ConcatProperties
  <2>3. <<>> \o (buffer \o a) = buffer \o a
    BY <2>2, ConcatEmptySeq
  <2> QED BY <1>1, <2>1, <2>3, Zenon DEF TakenPart
<1>8. TakenPart \in Seq(Nat) /\ Len(TakenPart) \in Nat
  BY TakenType
<1> HIDE DEF a, b, p
<1>9. buffer' \in Seq(Nat) /\ Len(buffer') = Len(buffer) + n
  BY <1>1, <1>4, <1>5, ConcatProperties, Zenon
<1>10. TakenPart' = TakenPart \o a /\ Len(TakenPart') = Len(TakenPart) + n
  <2>1. (p \o buffer) \o a = p \o (buffer \o a)
    <3>1. p \in Seq(Nat) /\ buffer \in Seq(Nat) /\ a \in Seq(Nat)
      BY <1>4, <1>5, <1>6
    <3>2. \A x, y, z \in Seq(Nat) : (x \o y) \o z = x \o (y \o z)
      BY ConcatAssociative, SMTT(20)
    <3> QED BY <3>1, <3>2, Zenon
  <2>2. Len(TakenPart \o a) = Len(TakenPart) + Len(a)
    BY <1>5, <1>8, ConcatProperties, Zenon
  <2> QED BY <1>5, <1>7, <2>1, <2>2
<1>11. ReaderType'
  BY <1>1, <1>4, <1>5, <1>9, WindowAssumption DEF ReaderType
<1>12. StepInv'
  <2>1. Taken \in Nat /\ Taken' = Taken + n
    BY <1>3, <1>4, <1>8, <1>10 DEF Taken
  <2>2. At(TakenPart, wire, Base) /\ At(stream, wire, Taken) /\ Taken = Base + Len(TakenPart)
    BY <1>1 DEF StepInv, Taken
  <2>3. At(a, wire, Taken) /\ At(b, wire, Taken + n)
    BY <1>3, <1>4, <2>1, <2>2, AtCut DEF a, b
  <2>4. At(TakenPart \o a, wire, Base)
    BY <1>3, <1>5, <1>8, <2>2, <2>3, AtConcat
  <2>5. ASSUME writerOpen
        PROVE  Taken' + Len(stream') + Len(RestToSend') = Len(wire)
    <3>1. Taken + Len(stream) + Len(RestToSend) = Len(wire)
      BY <1>1, <2>5 DEF StepInv
    <3>2. \A t, l, r \in Nat : (t + n) + (l - n) + r = t + l + r
      BY <1>4
    <3>3. (Taken + n) + (Len(stream) - n) + Len(RestToSend) = Taken + Len(stream) + Len(RestToSend)
      BY <1>2, <1>4, <2>1, <3>2
    <3> QED BY <1>1, <1>2, <1>5, <2>1, <3>1, <3>3, Zenon
  <2> QED BY <1>1, <1>2, <1>3, <1>10, <2>1, <2>3, <2>4, <2>5 DEF StepInv
<1> QED BY <1>2, <1>3, <1>11, <1>12

(* A reader that has a message of which cells are taken has its beginning. *)
LEMMA ReaderAt ==
    ASSUME StreamInv, readerOpen, Len(TakenPart) > 0
    PROVE  /\ EndOf(Len(delivered)) < Len(wire) /\ Len(delivered) \in 0..Len(sent)
           /\ Base + Len(TakenPart) <= Len(wire)
           /\ At(TakenPart, wire, Base) /\ At(stream, wire, Taken)
           /\ Base \in Nat /\ wire \in Seq(Nat) /\ Len(wire) \in Nat
<1> USE DEF StreamInv
<1>1. Base \in 0..Len(wire) /\ Len(delivered) \in 0..Len(sent) /\ wire \in Seq(Nat)
      /\ Len(wire) \in Nat
  <2>1. Len(delivered) \in 0..Len(sent) /\ wire \in Seq(Nat) /\ Len(wire) \in Nat
    BY DEF PrefixInv, WireInv
  <2> QED BY <2>1, BaseType DEF Base
<1>2. Len(TakenPart) \in Nat
  BY TakenType
<1>3. At(TakenPart, wire, Base) /\ At(stream, wire, Taken)
  BY DEF StepInv
<1>4. Base + Len(TakenPart) <= Len(wire)
  BY <1>3 DEF At
<1>5. Base < Len(wire)
  BY <1>1, <1>2, <1>4
<1> QED BY <1>1, <1>3, <1>4, <1>5 DEF Base

(* A delivery appends the next message sent.                               *)
LEMMA DeliverStep ==
    ASSUME StreamInv, UNCHANGED writerVars,
           Len(delivered) + 1 \in 1..Len(sent), sent[Len(delivered) + 1] \in MessageType,
           delivered' = Append(delivered, sent[Len(delivered) + 1])
    PROVE  /\ PrefixInv' /\ WireInv' /\ wire' = wire /\ Base' = EndOf(Len(delivered) + 1)
<1> USE DEF StreamInv
<1>1. UNCHANGED <<sent, ends, wire>>
  BY DEF writerVars, history
<1>2. delivered \in Seq(MessageType) /\ Len(delivered) \in Nat
  BY DEF PrefixInv
<1>3. /\ delivered' \in Seq(MessageType) /\ Len(delivered') = Len(delivered) + 1
      /\ \A i \in 1..Len(delivered) : delivered'[i] = delivered[i]
      /\ delivered'[Len(delivered) + 1] = sent[Len(delivered) + 1]
  BY <1>2, AppendProperties
<1>4. \A i \in 1..Len(delivered') : delivered'[i] = sent[i]
  <2> TAKE i \in 1..Len(delivered')
  <2>1. i \in 1..Len(delivered) \/ i = Len(delivered) + 1
    BY <1>2, <1>3
  <2> QED BY <1>3, <2>1 DEF PrefixInv
<1>5. PrefixInv'
  <2>1. Len(delivered') <= Len(sent)
    BY <1>3
  <2> QED BY <1>1, <1>3, <1>4, <2>1 DEF PrefixInv
<1>6. Base' = EndOf(Len(delivered) + 1)
  BY <1>1, <1>3 DEF Base, EndOf
<1>7. WireInv'
  BY <1>1 DEF WireInv, EndOf
<1> QED BY <1>1, <1>5, <1>6, <1>7

(* The cells of a msg_struct are the header and the length of the next     *)
(* message: an empty one is delivered, of any other the content follows.   *)
LEMMA StructStep ==
    ASSUME StreamInv, StructReceived
    PROVE  /\ StreamInv'
           /\ \/ UNCHANGED delivered
              \/ /\ Len(delivered) < Len(sent)
                 /\ delivered' = Append(delivered, sent[Len(delivered) + 1])
<1> USE DEF StreamInv
<1> DEFINE m == sent[Len(delivered) + 1]
<1>1. /\ readerOpen /\ readerPc = "struct" /\ Len(buffer) = needed /\ header' = buffer[1]
      /\ buffer' = <<>> /\ UNCHANGED <<writerVars, stream, readerOpen>>
  BY DEF StructReceived
<1>2. /\ buffer \in Seq(Nat) /\ Len(buffer) = 2 /\ TakenPart = buffer
      /\ stream \in Seq(Nat) /\ Len(stream) \in Nat /\ Len(stream) <= Window
  BY <1>1 DEF ReaderType, TakenPart, StructSize
<1>3. buffer[1] \in Nat /\ buffer[2] \in Nat
  <2>1. 1 \in 1..Len(buffer) /\ 2 \in 1..Len(buffer)
    BY <1>2
  <2> QED BY <1>2, <2>1, ElementOfSeq, Zenon
<1>4. /\ EndOf(Len(delivered)) < Len(wire) /\ Len(delivered) \in 0..Len(sent)
      /\ At(buffer, wire, Base) /\ At(stream, wire, Taken)
      /\ Base \in Nat /\ wire \in Seq(Nat) /\ Len(wire) \in Nat /\ Base + 2 <= Len(wire)
  <2>1. Len(TakenPart) > 0
    BY <1>2
  <2> QED BY <1>1, <1>2, <2>1, ReaderAt, Zenon
<1>5. /\ Len(delivered) + 1 \in 1..Len(sent) /\ m \in MessageType
      /\ wire[Base + 1] = m.header /\ wire[Base + 2] = Len(m.content)
      /\ EndOf(Len(delivered) + 1) = Base + 2 + Len(m.content)
  <2> DEFINE n == Len(delivered)
  <2>1. n \in 0..Len(sent) /\ EndOf(n) < Len(wire) /\ Base = EndOf(n)
    BY <1>4 DEF Base
  <2> HIDE DEF n
  <2>2. /\ n + 1 \in 1..Len(sent) /\ sent[n + 1] \in MessageType
        /\ wire[EndOf(n) + 1] = sent[n + 1].header
        /\ wire[EndOf(n) + 2] = Len(sent[n + 1].content)
        /\ EndOf(n + 1) = EndOf(n) + 2 + Len(sent[n + 1].content)
    BY <2>1, NextMessage
  <2> QED BY <2>1, <2>2 DEF n
<1>6. buffer[1] = m.header /\ buffer[2] = Len(m.content) /\ m.content \in Seq(Nat)
  <2>1. 1 \in 1..Len(buffer) /\ 2 \in 1..Len(buffer)
    BY <1>2
  <2>2. buffer[1] = wire[Base + 1] /\ buffer[2] = wire[Base + 2]
    BY <1>4, <2>1 DEF At
  <2> QED BY <1>5, <2>2 DEF MessageType
<1> HIDE DEF m
<1>7. WriterInv' /\ RestToSend' = RestToSend /\ UNCHANGED <<history, writerOpen>>
  BY <1>1, WriterSame
<1>8. Taken = Base + 2
  BY <1>2, Zenon DEF Taken
<1>9. <<>> \in Seq(Nat) /\ Len(<<>>) = 0
  OBVIOUS
<1>10. CASE buffer[2] > 0
  <2>1. needed' = buffer[2] /\ readerPc' = "content" /\ UNCHANGED delivered
    BY <1>10 DEF StructReceived
  <2>2. WireInv' /\ wire' = wire /\ Base' = Base /\ PrefixInv'
    BY <1>7, <2>1, WireSame
  <2>3. ReaderType'
    BY <1>1, <1>2, <1>3, <1>9, <2>1 DEF ReaderType
  <2>4. TakenPart' = <<buffer[1], buffer[2]>>
    <3>1. <<buffer[1], buffer[2]>> \in Seq(Nat)
      BY <1>3
    <3>2. <<buffer[1], buffer[2]>> \o <<>> = <<buffer[1], buffer[2]>>
      BY <3>1, ConcatEmptySeq
    <3> QED BY <1>1, <2>1, <3>2 DEF TakenPart
  <2>5. TakenPart' = TakenPart
    <3>1. buffer = <<buffer[1], buffer[2]>>
      BY <1>2
    <3> QED BY <1>2, <2>4, <3>1
  <2>6. StepInv'
    BY <1>1, <1>7, <2>2, <2>5 DEF StepInv, Taken
  <2> QED BY <1>7, <2>1, <2>2, <2>3, <2>6
<1>11. CASE ~(buffer[2] > 0)
  <2>1. /\ needed' = 0 /\ readerPc' = "idle"
        /\ delivered' = Append(delivered, [header |-> buffer[1], content |-> <<>>])
    BY <1>11 DEF StructReceived
  <2>2. Len(m.content) = 0 /\ m.content = <<>>
    BY <1>3, <1>6, <1>11, EmptySeq
  <2>3. m = [header |-> buffer[1], content |-> <<>>]
    BY <1>5, <1>6, <2>2 DEF MessageType
  <2>4. /\ PrefixInv' /\ WireInv' /\ wire' = wire /\ Base' = Base + 2
    <3>1. delivered' = Append(delivered, m)
      BY <2>1, <2>3
    <3>2. PrefixInv' /\ WireInv' /\ wire' = wire /\ Base' = EndOf(Len(delivered) + 1)
      BY <1>1, <1>5, <3>1, DeliverStep DEF m
    <3> QED BY <1>4, <1>5, <2>2, <3>2
  <2>5. ReaderType'
    BY <1>1, <1>2, <1>3, <1>9, <2>1 DEF ReaderType
  <2>6. TakenPart' = <<>> /\ Taken' = Taken
    <3>1. TakenPart' = <<>>
      BY <1>1, <2>1 DEF TakenPart
    <3> QED BY <1>4, <1>8, <1>9, <2>4, <3>1 DEF Taken
  <2>7. At(<<>>, wire, Base + 2)
    BY <1>4, AtEmpty
  <2>8. StepInv'
    BY <1>1, <1>7, <2>4, <2>6, <2>7 DEF StepInv
  <2>9. Len(delivered) < Len(sent)
    BY <1>4, <1>5
  <2> QED BY <1>7, <2>1, <2>3, <2>4, <2>5, <2>8, <2>9, SMTT(20) DEF m
<1> QED BY <1>10, <1>11

(* The cells of a content are the content of the next message.             *)
LEMMA ContentStep ==
    ASSUME StreamInv, ContentReceived
    PROVE  /\ StreamInv'
           /\ Len(delivered) < Len(sent)
           /\ delivered' = Append(delivered, sent[Len(delivered) + 1])
<1> USE DEF StreamInv
<1> DEFINE m == sent[Len(delivered) + 1]
<1>1. /\ readerOpen /\ readerPc = "content" /\ Len(buffer) = needed
      /\ delivered' = Append(delivered, [header |-> header, content |-> buffer])
      /\ readerPc' = "idle" /\ needed' = 0 /\ buffer' = <<>>
      /\ UNCHANGED <<writerVars, stream, readerOpen, header>>
  BY DEF ContentReceived
<1>2. /\ buffer \in Seq(Nat) /\ Len(buffer) \in Nat /\ header \in Nat /\ needed \in Nat
      /\ TakenPart = <<header, needed>> \o buffer /\ Len(TakenPart) = 2 + Len(buffer)
  BY <1>1, TakenType DEF ReaderType, TakenPart
<1>3. /\ EndOf(Len(delivered)) < Len(wire) /\ Len(delivered) \in 0..Len(sent)
      /\ At(TakenPart, wire, Base) /\ At(stream, wire, Taken)
      /\ Base \in Nat /\ wire \in Seq(Nat) /\ Len(wire) \in Nat
      /\ Base + Len(TakenPart) <= Len(wire)
  <2>1. Len(TakenPart) > 0
    BY <1>2
  <2> QED BY <1>1, <2>1, ReaderAt
<1>4. /\ Len(delivered) + 1 \in 1..Len(sent) /\ m \in MessageType
      /\ wire[Base + 1] = m.header /\ wire[Base + 2] = Len(m.content)
      /\ At(m.content, wire, Base + 2)
      /\ EndOf(Len(delivered) + 1) = Base + 2 + Len(m.content)
  <2> DEFINE n == Len(delivered)
  <2>1. n \in 0..Len(sent) /\ EndOf(n) < Len(wire) /\ Base = EndOf(n)
    BY <1>3 DEF Base
  <2> HIDE DEF n
  <2>2. /\ n + 1 \in 1..Len(sent) /\ sent[n + 1] \in MessageType
        /\ wire[EndOf(n) + 1] = sent[n + 1].header
        /\ wire[EndOf(n) + 2] = Len(sent[n + 1].content)
        /\ At(sent[n + 1].content, wire, EndOf(n) + 2)
        /\ EndOf(n + 1) = EndOf(n) + 2 + Len(sent[n + 1].content)
    BY <2>1, NextMessage
  <2> QED BY <2>1, <2>2 DEF n
<1> HIDE DEF m
<1>5. m.content \in Seq(Nat) /\ m.header \in Nat
  BY <1>4 DEF MessageType
<1>6. header = m.header /\ needed = Len(m.content) /\ At(buffer, wire, Base + 2)
  <2> DEFINE h == <<header, needed>>
  <2>1. h \in Seq(Nat) /\ Len(h) = 2 /\ h[1] = header /\ h[2] = needed
    BY <1>2
  <2>2. TakenPart = h \o buffer
    BY <1>2
  <2> HIDE DEF h
  <2>3. At(h, wire, Base) /\ At(buffer, wire, Base + 2)
    BY <1>2, <1>3, <2>1, <2>2, AtConcat, ZenonT(30)
  <2>4. 1 \in 1..Len(h) /\ 2 \in 1..Len(h)
    BY <2>1
  <2>5. h[1] = wire[Base + 1] /\ h[2] = wire[Base + 2]
    BY <2>3, <2>4 DEF At
  <2> QED BY <1>4, <2>1, <2>3, <2>5
<1>7. buffer = m.content
  <2>1. Len(buffer) = Len(m.content)
    BY <1>1, <1>6
  <2>2. \A i \in 1..Len(buffer) : buffer[i] = m.content[i]
    BY <1>4, <1>6, <2>1 DEF At
  <2> QED BY <1>2, <1>5, <2>1, <2>2, SeqEqual
<1>8. m = [header |-> header, content |-> buffer]
  BY <1>4, <1>6, <1>7 DEF MessageType
<1>9. WriterInv' /\ RestToSend' = RestToSend /\ UNCHANGED <<history, writerOpen>>
  BY <1>1, WriterSame
<1>10. PrefixInv' /\ WireInv' /\ wire' = wire /\ Base' = Base + 2 + Len(buffer)
  <2>1. delivered' = Append(delivered, m)
    BY <1>1, <1>8
  <2>2. PrefixInv' /\ WireInv' /\ wire' = wire /\ Base' = EndOf(Len(delivered) + 1)
    BY <1>1, <1>4, <2>1, DeliverStep DEF m
  <2> QED BY <1>4, <1>7, <2>2
<1>11. <<>> \in Seq(Nat) /\ Len(<<>>) = 0
  OBVIOUS
<1>12. ReaderType'
  BY <1>1, <1>11 DEF ReaderType
<1>13. TakenPart' = <<>> /\ Taken' = Taken /\ Base' = Taken /\ Taken \in 0..Len(wire)
  <2>1. TakenPart' = <<>>
    BY <1>1 DEF TakenPart
  <2>2. Taken = Base + 2 + Len(buffer) /\ Taken \in 0..Len(wire)
    BY <1>2, <1>3 DEF Taken
  <2> QED BY <1>3, <1>10, <1>11, <2>1, <2>2 DEF Taken
<1>14. At(<<>>, wire, Taken)
  BY <1>3, <1>13, AtEmpty
<1>15. StepInv'
  BY <1>1, <1>9, <1>10, <1>13, <1>14, SMTT(20) DEF StepInv
<1>16. Len(delivered) < Len(sent)
  BY <1>3, <1>4
<1> QED BY <1>1, <1>8, <1>9, <1>10, <1>12, <1>15, <1>16 DEF m

(* Every step keeps the invariant.                                         *)
LEMMA StreamNext == StreamInv /\ [Next]_vars => StreamInv'
<1> SUFFICES ASSUME StreamInv, [Next]_vars PROVE StreamInv'
  OBVIOUS
<1>1. CASE UNCHANGED vars
  <2>1. UNCHANGED <<writerVars, stream, readerVars>>
    BY <1>1 DEF vars
  <2>2. WriterInv' /\ RestToSend' = RestToSend /\ UNCHANGED <<history, writerOpen>>
    BY <2>1, WriterSame
  <2>3. WireInv' /\ wire' = wire /\ Base' = Base /\ PrefixInv'
    BY <2>1, <2>2, WireSame, ReaderSame
  <2>4. TakenPart' = TakenPart /\ UNCHANGED readerOpen /\ ReaderType'
    BY <2>1, ReaderSame DEF StreamInv, ReaderType
  <2>5. StepInv'
    BY <2>1, <2>2, <2>3, <2>4 DEF StreamInv, StepInv, Taken
  <2> QED BY <2>2, <2>3, <2>4, <2>5 DEF StreamInv
<1>2. CASE WriterNext
  BY <1>2, WriteStep, SendStep, SendReturnsStep, WriterClosesStep DEF WriterNext
<1>3. CASE ReaderNext
  BY <1>3, ReadStep, ReceiveStep, StructStep, ContentStep, SMTT(20) DEF ReaderNext
<1>4. CASE \E n \in 0..Window : LoseSuffix(n)
  BY <1>4, LoseStep
<1> QED BY <1>1, <1>2, <1>3, <1>4 DEF Next

(***************************************************************************)
(* Theorems                                                                *)
(***************************************************************************)
(* Where every cell of the connection lies on the wire, at all times.      *)
THEOREM StreamInvariant == Spec => []StreamInv
BY InitStream, StreamNext, PTL DEF Spec

(* A receive never takes more than it was asked for, and the network never *)
(* holds more than its window.                                             *)
THEOREM StreamTypeOK == Spec => []TypeOK
<1>1. StreamInv => TypeOK
  BY DEF StreamInv, WireInv, WriterInv, ReaderType, TypeOK, Cells
<1> QED BY <1>1, StreamInvariant, PTL

(* readMessage and writeMessage are never out of step: every cell written  *)
(* after the last delivered message is, in its place, in the reader's      *)
(* hands, in the network or still to be sent, however send and recv cut    *)
(* the messages into pieces.                                               *)
THEOREM StreamInStep == Spec => []InStep
<1>1. StreamInv => InStep
  <2> SUFFICES ASSUME StreamInv, readerOpen
               PROVE  LET found == TakenPart \o stream \o RestToSend
                          owed  == SubSeq(wire, EndOf(Len(delivered)) + 1, Len(wire))
                      IN  /\ IsPrefix(delivered, sent)
                          /\ IsPrefix(found, owed)
                          /\ writerOpen => found = owed
    BY Zenon DEF InStep
  <2> USE DEF StreamInv
  <2> DEFINE rest  == RestToSend
             taken == TakenPart
             found == taken \o stream \o rest
  <2>1. IsPrefix(delivered, sent)
    <3>1. sent \in Seq(MessageType)
      <4>1. sent \in Seq(Messages) /\ Messages \subseteq MessageType
        BY MessagesAssumption DEF WireInv, MessageType
      <4> QED BY <4>1, SeqMonotonic
    <3> QED BY <3>1, PrefixOf DEF PrefixInv
  <2>2. /\ taken \in Seq(Nat) /\ Len(taken) \in Nat /\ rest \in Seq(Nat) /\ Len(rest) \in Nat
        /\ stream \in Seq(Nat) /\ Len(stream) \in Nat
    BY TakenType, RestType DEF ReaderType
  <2>3. Base \in Nat /\ wire \in Seq(Nat) /\ Len(wire) \in Nat
    <3>1. Len(delivered) \in 0..Len(sent) /\ wire \in Seq(Nat) /\ Len(wire) \in Nat
      BY DEF PrefixInv, WireInv
    <3>2. Base \in 0..Len(wire)
      BY <3>1, BaseType DEF Base
    <3> QED BY <3>1, <3>2
  <2>4. At(taken, wire, Base) /\ At(stream, wire, Base + Len(taken))
    BY DEF StepInv, Taken
  <2>5. /\ At(rest, wire, Base + Len(taken) + Len(stream))
        /\ writerOpen => Base + Len(taken) + Len(stream) + Len(rest) = Len(wire)
    <3>1. CASE writerOpen
      <4>1. At(rest, wire, Len(wire) - Len(rest))
        BY <3>1 DEF WriterInv
      <4>2. Base + Len(taken) + Len(stream) + Len(rest) = Len(wire)
        BY <3>1 DEF StepInv, Taken
      <4>3. Len(wire) - Len(rest) = Base + Len(taken) + Len(stream)
        BY <2>2, <2>3, <4>2
      <4> QED BY <4>1, <4>2, <4>3
    <3>2. CASE ~writerOpen
      <4>1. <<>> \o <<>> = <<>>
        BY ConcatEmptySeq
      <4>2. rest = <<>>
        BY <3>2, <4>1 DEF WriterInv, RestToSend
      <4>3. Base + Len(taken) + Len(stream) \in 0..Len(wire)
        BY <2>2, <2>3, <2>4 DEF At
      <4> QED BY <2>3, <3>2, <4>2, <4>3, AtEmpty
    <3> QED BY <3>1, <3>2
  <2> HIDE DEF rest, taken
  <2>6. taken \o stream \in Seq(Nat) /\ Len(taken \o stream) = Len(taken) + Len(stream)
    BY <2>2, ConcatProperties
  <2>7. found \in Seq(Nat) /\ Len(found) = Len(taken) + Len(stream) + Len(rest)
    BY <2>2, <2>6, ConcatProperties
  <2>8. At(taken \o stream, wire, Base)
    BY <2>2, <2>3, <2>4, AtConcat
  <2>9. At(found, wire, Base)
    <3>1. Base + Len(taken \o stream) = Base + Len(taken) + Len(stream)
      BY <2>2, <2>3, <2>6
    <3>2. At(rest, wire, Base + Len(taken \o stream))
      BY <2>5, <3>1
    <3> QED BY <2>2, <2>3, <2>6, <2>8, <3>2, AtConcat, Zenon
  <2> HIDE DEF found
  <2>10. IsPrefix(found, SubSeq(wire, Base + 1, Len(wire)))
    BY <2>3, <2>7, <2>9, AtIsPrefix
  <2>11. writerOpen => found = SubSeq(wire, Base + 1, Len(wire))
    <3>1. found = SubSeq(wire, Base + 1, Base + Len(found))
      BY <2>3, <2>7, <2>9, AtIsSubSeq, Zenon
    <3>2. writerOpen => Base + Len(found) = Len(wire)
      BY <2>2, <2>3, <2>5, <2>7
    <3> QED BY <3>1, <3>2
  <2> QED BY <2>1, <2>10, <2>11, Zenon DEF Base, found, taken, rest
<1> QED BY <1>1, StreamInvariant, PTL

(* The connection implements the message channel: every step of the two    *)
(* ends or the network is a step of MessageChannel or leaves it alone.     *)
THEOREM StreamImplementsChannel == Spec => ImplementsChannel
<1>1. Init => Channel!Init
  BY DEF Init, Channel!Init
<1>2. StreamInv /\ [Next]_vars => [Channel!Next]_(Channel!channelVars)
  <2> SUFFICES ASSUME StreamInv, [Next]_vars
               PROVE  Channel!Next \/ UNCHANGED Channel!channelVars
    OBVIOUS
  <2> USE DEF Channel!channelVars, writerVars, readerVars, history
  <2>1. CASE UNCHANGED vars
    BY <2>1 DEF vars
  <2>2. ASSUME NEW m \in Messages, writeMessage(m) PROVE Channel!Write(m)
    BY <2>2 DEF writeMessage, Channel!Write
  <2>3. ASSUME NEW n \in 1..Window, SendSome(n) PROVE UNCHANGED Channel!channelVars
    BY <2>3 DEF SendSome
  <2>4. CASE SendReturns
    BY <2>4 DEF SendReturns
  <2>5. CASE WriterCloses
    BY <2>5, Zenon DEF WriterCloses, Channel!Next, Channel!Close
  <2>6. CASE readMessage
    BY <2>6 DEF readMessage
  <2>7. ASSUME NEW n \in 1..Window, ReceiveSome(n) PROVE UNCHANGED Channel!channelVars
    BY <2>7 DEF ReceiveSome
  <2>8. CASE StructReceived
    <3>1. readerOpen /\ UNCHANGED <<sent, writerOpen, readerOpen>>
      BY <2>8 DEF StructReceived
    <3> QED BY <2>8, <3>1, StructStep DEF Channel!Next, Channel!Deliver
  <2>9. CASE ContentReceived
    <3>1. readerOpen /\ UNCHANGED <<sent, writerOpen, readerOpen>>
      BY <2>9 DEF ContentReceived
    <3> QED BY <2>9, <3>1, ContentStep DEF Channel!Next, Channel!Deliver
  <2>10. CASE ReaderCloses
    BY <2>10, Zenon DEF ReaderCloses, Channel!Next, Channel!Close
  <2>11. ASSUME NEW n \in 0..Window, LoseSuffix(n) PROVE UNCHANGED Channel!channelVars
    BY <2>11 DEF LoseSuffix
  <2> QED BY <2>1, <2>2, <2>3, <2>4, <2>5, <2>6, <2>7, <2>8, <2>9, <2>10, <2>11
          DEF Next, WriterNext, ReaderNext, Channel!Next
<1> QED BY <1>1, <1>2, StreamInvariant, PTL DEF Spec, ImplementsChannel, Channel!Spec

=============================================================================
