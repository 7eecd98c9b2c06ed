-------------------------- MODULE MigrationProofs ---------------------------
(***************************************************************************)
(* Theorems about Migration for any size of a block, of the socket and of  *)
(* the guest's memory, and any limits.                                     *)
(***************************************************************************)
EXTENDS Migration, SequenceTheorems, TLAPS

(* s holds the bytes of the stream that come after the first n.            *)
Follows(s, n) == \A i \in 1 .. Len(s) : s[i] = n + i

FileType == [open : BOOLEAN, has_error : BOOLEAN, freeze_output : BOOLEAN,
             bytes_xfer : Nat, xfer_limit : Nat, buffer : Seq(Nat),
             f_error : BOOLEAN, f_buf : Seq(Nat), written : Nat]
SockType == [sent : Seq(Nat), room : Nat, gone : BOOLEAN]
Buffereds == [file : FileType, sock : SockType, handler : {"none", "connect", "notify"}]

(* The first n bytes have been put: those not sent are in the buffer,      *)
(* unless the peer is gone.                                                *)
PutInv(b, n) ==
    /\ Follows(b.sock.sent, 0)
    /\ b.file.has_error => b.sock.gone
    /\ ~b.file.has_error => /\ Follows(b.file.buffer, Len(b.sock.sent))
                            /\ Len(b.sock.sent) + Len(b.file.buffer) = n

(* Frozen output has the handler that thaws it.                            *)
Thaws(b) == b.file.freeze_output /\ ~b.file.has_error => b.handler = "notify"

(* What flushes and puts leave alone                                       *)
SameFile(b, c) ==
    /\ c.file.open = b.file.open /\ c.file.f_buf = b.file.f_buf
    /\ c.file.written = b.file.written
    /\ c.handler \in {b.handler, "notify"}

-----------------------------------------------------------------------------
(* A stretch of the stream followed by the next one                        *)
LEMMA FollowsConcat ==
    ASSUME NEW s \in Seq(Nat), NEW t \in Seq(Nat), NEW n \in Nat,
           Follows(s, n), Follows(t, n + Len(s))
    PROVE  /\ s \o t \in Seq(Nat) /\ Len(s \o t) = Len(s) + Len(t)
           /\ Follows(s \o t, n)
<1>1. /\ s \o t \in Seq(Nat) /\ Len(s \o t) = Len(s) + Len(t)
      /\ \A i \in 1 .. Len(s) + Len(t) :
           (s \o t)[i] = IF i <= Len(s) THEN s[i] ELSE t[i - Len(s)]
  BY ConcatProperties
<1>2. Len(s) \in Nat /\ Len(t) \in Nat
  OBVIOUS
<1>3. ASSUME NEW i \in 1 .. Len(s) + Len(t) PROVE (s \o t)[i] = n + i
  <2>1. CASE i <= Len(s)
    BY <2>1, <1>1, <1>2 DEF Follows
  <2>2. CASE ~(i <= Len(s))
    <3>1. i - Len(s) \in 1 .. Len(t)
      BY <2>2, <1>2
    <3>2. t[i - Len(s)] = n + Len(s) + (i - Len(s))
      BY <3>1 DEF Follows
    <3> QED
      BY <2>2, <3>2, <1>1, <1>2
  <2> QED
    BY <2>1, <2>2
<1> QED
  BY <1>1, <1>3 DEF Follows

(* A stretch of the stream cut in two                                      *)
LEMMA FollowsCut ==
    ASSUME NEW s \in Seq(Nat), NEW n \in Nat, NEW k \in 0 .. Len(s), Follows(s, n)
    PROVE  /\ SubSeq(s, 1, k) \in Seq(Nat) /\ Len(SubSeq(s, 1, k)) = k
           /\ Follows(SubSeq(s, 1, k), n)
           /\ SubSeq(s, k + 1, Len(s)) \in Seq(Nat)
           /\ Len(SubSeq(s, k + 1, Len(s))) = Len(s) - k
           /\ Follows(SubSeq(s, k + 1, Len(s)), n + k)
<1>1. Len(s) \in Nat /\ k \in Nat /\ k <= Len(s)
  OBVIOUS
<1>2. /\ SubSeq(s, 1, k) \in Seq(Nat) /\ Len(SubSeq(s, 1, k)) = k
      /\ \A i \in 1 .. k : SubSeq(s, 1, k)[i] = s[i]
  BY <1>1
<1>3. /\ SubSeq(s, k + 1, Len(s)) \in Seq(Nat)
      /\ Len(SubSeq(s, k + 1, Len(s))) = Len(s) - k
      /\ \A i \in 1 .. Len(s) - k : SubSeq(s, k + 1, Len(s))[i] = s[k + i]
  BY <1>1
<1>4. Follows(SubSeq(s, 1, k), n)
  BY <1>1, <1>2 DEF Follows
<1>5. Follows(SubSeq(s, k + 1, Len(s)), n + k)
  <2>1. ASSUME NEW i \in 1 .. Len(s) - k
        PROVE  SubSeq(s, k + 1, Len(s))[i] = (n + k) + i
    <3>1. k + i \in 1 .. Len(s) /\ n + (k + i) = (n + k) + i
      BY <1>1
    <3> QED
      BY <3>1, <1>3 DEF Follows
  <2> QED
    BY <2>1, <1>3 DEF Follows
<1> QED
  BY <1>2, <1>3, <1>4, <1>5

(* How much of the data the socket takes                                   *)
LEMMA SendableBounds ==
    ASSUME NEW b \in Buffereds, NEW data \in Seq(Nat)
    PROVE  /\ Sendable(b, data) \in 0 .. Len(data)
           /\ b.sock.room - Sendable(b, data) \in Nat
<1> DEFINE l == Len(data)
           r == b.sock.room
<1>1. l \in Nat /\ r \in Nat
  BY DEF Buffereds, SockType
<1> HIDE DEF l, r
<1>2. Min({l, r}) \in {l, r} /\ Min({l, r}) <= l /\ Min({l, r}) <= r
  <2>1. \E x \in {l, r} : \A y \in {l, r} : x <= y
    BY <1>1
  <2> QED
    BY <2>1 DEF Min
<1> QED
  BY <1>1, <1>2 DEF Sendable, l, r

(* What the socket takes of the next bytes goes out in order, and the rest *)
(* follows it.                                                             *)
LEMMA SentFollows ==
    ASSUME NEW b \in Buffereds, NEW data \in Seq(Nat),
           Follows(b.sock.sent, 0), Follows(data, Len(b.sock.sent))
    PROVE  /\ Sent(b, data) = [b EXCEPT !.sock = Sent(b, data).sock]
           /\ Sent(b, data).sock \in SockType
           /\ Sent(b, data).sock.gone = b.sock.gone
           /\ Follows(Sent(b, data).sock.sent, 0)
           /\ Len(Sent(b, data).sock.sent) = Len(b.sock.sent) + Sendable(b, data)
           /\ Rest(b, data) \in Seq(Nat)
           /\ Follows(Rest(b, data), Len(Sent(b, data).sock.sent))
           /\ Len(Rest(b, data)) = Len(data) - Sendable(b, data)
<1> DEFINE k == Sendable(b, data)
           s == b.sock.sent
           t == s \o SubSeq(data, 1, k)
           c == [b.sock EXCEPT !.sent = t, !.room = @ - k]
<1>1. k \in 0 .. Len(data) /\ b.sock.room - k \in Nat
  BY SendableBounds
<1>2. s \in Seq(Nat) /\ b.sock \in SockType
  BY DEF Buffereds, SockType
<1>3. Sent(b, data) = [b EXCEPT !.sock = c]
  BY Zenon DEF Sent, Buffereds, SockType
<1>4. Rest(b, data) = SubSeq(data, k + 1, Len(data))
  BY DEF Rest
<1>5. Sent(b, data).sock = c
  BY <1>3 DEF Buffereds
<1> HIDE DEF k, s
<1>6. Len(s) \in Nat /\ Follows(s, 0) /\ Follows(data, Len(s))
  BY <1>2 DEF s
<1>7. /\ SubSeq(data, 1, k) \in Seq(Nat) /\ Len(SubSeq(data, 1, k)) = k
      /\ Follows(SubSeq(data, 1, k), Len(s))
      /\ SubSeq(data, k + 1, Len(data)) \in Seq(Nat)
      /\ Len(SubSeq(data, k + 1, Len(data))) = Len(data) - k
      /\ Follows(SubSeq(data, k + 1, Len(data)), Len(s) + k)
  BY <1>1, <1>6, FollowsCut
<1>8. t \in Seq(Nat) /\ Len(t) = Len(s) + k /\ Follows(t, 0)
  <2>1. 0 + Len(s) = Len(s)
    BY <1>6
  <2> QED
    BY <2>1, <1>2, <1>6, <1>7, FollowsConcat, Zenon
<1> HIDE DEF t
<1>9. c \in SockType /\ c.gone = b.sock.gone /\ c.sent = t
  BY <1>1, <1>2, <1>8, Zenon DEF SockType
<1> HIDE DEF c
<1> QED
  BY <1>3, <1>4, <1>5, <1>7, <1>8, <1>9, Zenon DEF k, s

(* buffered_flush, and with it the timer and the handler, changes nothing  *)
(* in what has been put; what it leaves in the buffer waits for the        *)
(* handler.                                                                *)
LEMMA FlushPut ==
    ASSUME NEW b \in Buffereds, NEW n \in Nat, PutInv(b, n)
    PROVE  /\ buffered_flush(b) \in Buffereds
           /\ PutInv(buffered_flush(b), n)
           /\ Thaws(b) => Thaws(buffered_flush(b))
           /\ SameFile(b, buffered_flush(b))
           /\ LET c == buffered_flush(b)
              IN  c.file.has_error \/ c.file.freeze_output \/ c.file.buffer = <<>>
<1> DEFINE f == buffered_flush(b)
<1>1. CASE b.file.has_error \/ b.file.buffer = <<>>
  <2>1. f = b
    BY <1>1 DEF buffered_flush
  <2> QED
    BY <1>1, <2>1 DEF SameFile
<1>2. CASE ~(b.file.has_error \/ b.file.buffer = <<>>) /\ b.sock.gone
  <2>1. f = [b EXCEPT !.file.has_error = TRUE]
    BY <1>2 DEF buffered_flush
  <2>2. /\ f \in Buffereds /\ f.file.has_error /\ f.sock = b.sock
        /\ f.file.open = b.file.open /\ f.file.f_buf = b.file.f_buf
        /\ f.file.written = b.file.written /\ f.handler = b.handler
    <3> DEFINE g == [b.file EXCEPT !.has_error = TRUE]
    <3>1. /\ g \in FileType /\ g.has_error /\ g.open = b.file.open
          /\ g.f_buf = b.file.f_buf /\ g.written = b.file.written
      <4>1. b.file \in FileType
        BY DEF Buffereds
      <4> QED
        BY <4>1, Zenon DEF FileType
    <3>2. f = [b EXCEPT !.file = g]
      BY <2>1
    <3> HIDE DEF g
    <3>3. f \in Buffereds /\ f.file = g /\ f.sock = b.sock /\ f.handler = b.handler
      BY <3>1, <3>2 DEF Buffereds
    <3> QED
      BY <3>1, <3>3
  <2> QED
    BY <1>2, <2>2 DEF PutInv, Thaws, SameFile
<1>3. CASE ~(b.file.has_error \/ b.file.buffer = <<>>) /\ ~b.sock.gone
  <2> DEFINE data == b.file.buffer
             rest == Rest(b, data)
             s == Sent(b, data)
             c == [s EXCEPT !.file.buffer = rest]
  <2>1. f = IF rest = <<>> THEN c ELSE Frozen(c)
    BY <1>3 DEF buffered_flush
  <2>2. data \in Seq(Nat) /\ Follows(b.sock.sent, 0) /\ Follows(data, Len(b.sock.sent))
        /\ Len(b.sock.sent) + Len(data) = n /\ Len(b.sock.sent) \in Nat
    <3>1. data \in Seq(Nat) /\ Len(b.sock.sent) \in Nat
      BY DEF Buffereds, FileType, SockType
    <3> QED
      BY <1>3, <3>1, Zenon DEF PutInv
  <2>s. s = [b EXCEPT !.sock = s.sock] /\ s.sock \in SockType
    BY <2>2, SentFollows
  <2>3. /\ s.sock \in SockType
        /\ s.sock.gone = b.sock.gone /\ Follows(s.sock.sent, 0)
        /\ Len(s.sock.sent) = Len(b.sock.sent) + Sendable(b, data)
        /\ rest \in Seq(Nat) /\ Follows(rest, Len(s.sock.sent))
        /\ Len(rest) = Len(data) - Sendable(b, data)
    BY <2>2, SentFollows
  <2>4. Sendable(b, data) \in 0 .. Len(data)
    BY <2>2, SendableBounds
  <2>5. Len(s.sock.sent) + Len(rest) = n
    <3> DEFINE p == Len(b.sock.sent)
               q == Len(data)
               k == Sendable(b, data)
               x == Len(s.sock.sent)
               y == Len(rest)
    <3>1. x = p + k /\ y = q - k
      BY <2>3, Zenon
    <3>2. p + q = n /\ p \in Nat
      BY <2>2, Zenon
    <3>3. q \in Nat /\ k \in Nat
      BY <2>2, <2>4
    <3> HIDE DEF p, q, k, x, y
    <3>4. x + y = n
      BY <3>1, <3>2, <3>3
    <3> QED
      BY <3>4, Zenon DEF x, y
  <2>6. s \in Buffereds /\ s.file = b.file /\ s.handler = b.handler
    <3> HIDE DEF s
    <3> QED
      BY <2>s DEF Buffereds
  <2> HIDE DEF rest, s, data
  <2>7. /\ c \in Buffereds /\ c.sock = s.sock /\ c.file.buffer = rest
        /\ ~c.file.has_error /\ c.file.freeze_output = b.file.freeze_output
        /\ c.file.open = b.file.open /\ c.file.f_buf = b.file.f_buf
        /\ c.file.written = b.file.written /\ c.handler = b.handler
    BY <1>3, <2>3, <2>6, Zenon DEF Buffereds, FileType
  <2>8. PutInv(c, n)
    BY <2>3, <2>5, <2>7, Zenon DEF PutInv
  <2> HIDE DEF c
  <2>9. /\ Frozen(c) \in Buffereds /\ Frozen(c).sock = c.sock
        /\ Frozen(c).file.freeze_output = TRUE /\ Frozen(c).handler = "notify"
        /\ Frozen(c).file.buffer = c.file.buffer
        /\ Frozen(c).file.has_error = c.file.has_error
        /\ Frozen(c).file.open = c.file.open /\ Frozen(c).file.f_buf = c.file.f_buf
        /\ Frozen(c).file.written = c.file.written
    BY <2>7, Zenon DEF Frozen, Buffereds, FileType
  <2>10. CASE rest = <<>>
    <3>1. f = c
      BY <2>1, <2>10
    <3> QED
      BY <1>3, <2>7, <2>8, <2>10, <3>1 DEF SameFile, Thaws
  <2>11. CASE rest # <<>>
    <3>1. f = Frozen(c)
      BY <2>1, <2>11
    <3> QED
      BY <2>7, <2>8, <2>9, <3>1, Zenon DEF SameFile, Thaws, PutInv
  <2> QED
    BY <2>10, <2>11
<1> QED
  BY <1>1, <1>2, <1>3

(* Another file with the same socket                                       *)
LEMMA WithFile ==
    ASSUME NEW b \in Buffereds, NEW g \in FileType
    PROVE  LET c == [b EXCEPT !.file = g]
           IN  c \in Buffereds /\ c.file = g /\ c.sock = b.sock /\ c.handler = b.handler
BY DEF Buffereds

(* The loop of buffered_put_buffer: the data goes behind what has been put *)
(* so far, to the socket or to the buffer.                                 *)
LEMMA PutRestPut ==
    ASSUME NEW b \in Buffereds, NEW n \in Nat, NEW data \in Seq(Nat),
           PutInv(b, n), Follows(data, n), Thaws(b),
           b.file.has_error \/ b.file.freeze_output \/ b.file.buffer = <<>>
    PROVE  /\ PutRest(b, data) \in Buffereds
           /\ PutInv(PutRest(b, data), n + Len(data)) /\ Thaws(PutRest(b, data))
           /\ SameFile(b, PutRest(b, data))
<1> DEFINE f == PutRest(b, data)
           keep == b.file.freeze_output \/ data = <<>> \/ b.file.bytes_xfer > b.file.xfer_limit
<1>0. /\ b.file \in FileType /\ b.sock \in SockType /\ b.sock.sent \in Seq(Nat)
      /\ b.file.buffer \in Seq(Nat) /\ Len(b.sock.sent) \in Nat
      /\ Len(b.file.buffer) \in Nat /\ Len(data) \in Nat
  BY DEF Buffereds, FileType, SockType
<1>1. CASE keep
  <2> DEFINE s == b.file.buffer \o data
             g == [b.file EXCEPT !.buffer = s]
  <2>1. f = [b EXCEPT !.file = g]
    BY <1>1 DEF PutRest
  <2>2. s \in Seq(Nat)
    BY <1>0
  <2>3. ASSUME ~b.file.has_error
        PROVE  /\ Follows(s, Len(b.sock.sent))
               /\ Len(b.sock.sent) + Len(s) = n + Len(data)
    <3>1. /\ Follows(b.file.buffer, Len(b.sock.sent))
          /\ Len(b.sock.sent) + Len(b.file.buffer) = n
      BY <2>3, Zenon DEF PutInv
    <3>2. Follows(data, Len(b.sock.sent) + Len(b.file.buffer))
      BY <3>1, Zenon
    <3>3. Follows(s, Len(b.sock.sent)) /\ Len(s) = Len(b.file.buffer) + Len(data)
      BY <1>0, <3>1, <3>2, FollowsConcat, Zenon
    <3> DEFINE x == Len(b.sock.sent)
               y == Len(b.file.buffer)
               z == Len(data)
    <3>4. x + y = n /\ x \in Nat /\ y \in Nat /\ z \in Nat /\ Len(s) = y + z
      BY <1>0, <3>1, <3>3, Zenon
    <3> HIDE DEF s, x, y, z
    <3>5. x + Len(s) = n + z
      BY <3>4
    <3> QED
      BY <3>3, <3>5, Zenon DEF x, z
  <2> HIDE DEF s
  <2>4. /\ g \in FileType /\ g.buffer = s /\ g.has_error = b.file.has_error
        /\ g.freeze_output = b.file.freeze_output /\ g.open = b.file.open
        /\ g.f_buf = b.file.f_buf /\ g.written = b.file.written
    BY <1>0, <2>2, Zenon DEF FileType
  <2>g. g \in FileType
    BY <2>4
  <2> HIDE DEF g, f
  <2>5. f \in Buffereds /\ f.file = g /\ f.sock = b.sock /\ f.handler = b.handler
    BY <2>1, <2>g, WithFile, Zenon
  <2>6. PutInv(f, n + Len(data)) /\ Thaws(f) /\ SameFile(b, f)
    BY <2>3, <2>4, <2>5, Zenon DEF PutInv, Thaws, SameFile
  <2> QED
    BY <2>5, <2>6 DEF f
<1>2. CASE ~keep /\ b.sock.gone
  <2> DEFINE g == [b.file EXCEPT !.has_error = TRUE, !.f_error = TRUE]
  <2>1. f = [b EXCEPT !.file = g]
    BY <1>2, Zenon DEF PutRest
  <2>2. /\ g \in FileType /\ g.has_error /\ g.open = b.file.open
        /\ g.f_buf = b.file.f_buf /\ g.written = b.file.written
    BY <1>0, Zenon DEF FileType
  <2> HIDE DEF g
  <2>3. f \in Buffereds /\ f.file = g /\ f.sock = b.sock /\ f.handler = b.handler
    BY <2>1, <2>2, WithFile, Zenon
  <2> HIDE DEF f
  <2> QED
    BY <1>2, <2>2, <2>3, Zenon DEF PutInv, Thaws, SameFile, f
<1>3. CASE ~keep /\ ~b.sock.gone
  <2> DEFINE rest == Rest(b, data)
             s == Sent(b, data)
             k == Sendable(b, data)
             g == [b.file EXCEPT !.buffer = @ \o rest, !.bytes_xfer = @ + k]
             c == [s EXCEPT !.file.buffer = @ \o rest, !.file.bytes_xfer = @ + k]
  <2>1. f = IF rest = <<>> \/ c.file.bytes_xfer > c.file.xfer_limit THEN c ELSE Frozen(c)
    BY <1>3 DEF PutRest
  <2>2. ~b.file.has_error /\ ~b.file.freeze_output /\ b.file.buffer = <<>>
    BY <1>3 DEF PutInv
  <2>3. Follows(b.sock.sent, 0) /\ Len(b.sock.sent) = n
    BY <1>0, <2>2 DEF PutInv
  <2>4. Follows(data, Len(b.sock.sent))
    BY <2>3
  <2>5. s = [b EXCEPT !.sock = s.sock] /\ s.sock \in SockType
    BY <2>3, <2>4, SentFollows
  <2>6. /\ s.sock.gone = b.sock.gone /\ Follows(s.sock.sent, 0)
        /\ Len(s.sock.sent) = Len(b.sock.sent) + k
        /\ rest \in Seq(Nat) /\ Follows(rest, Len(s.sock.sent))
        /\ Len(rest) = Len(data) - k
    BY <2>3, <2>4, SentFollows
  <2>7. k \in Nat
    BY SendableBounds
  <2> HIDE DEF s, rest, k
  <2>8. s \in Buffereds /\ s.file = b.file /\ s.handler = b.handler
    BY <2>5 DEF Buffereds
  <2>9. <<>> \o rest = rest
    BY <2>6
  <2>10. Len(s.sock.sent) + Len(rest) = n + Len(data)
    <3>1. Len(s.sock.sent) = n + k
      BY <2>3, <2>6
    <3> QED
      BY <3>1, <2>6, <2>7, <1>0
  <2>11. c = [s EXCEPT !.file = g]
    BY <2>8, Zenon
  <2>12. /\ g \in FileType /\ g.buffer = rest /\ ~g.has_error /\ ~g.freeze_output
         /\ g.open = b.file.open /\ g.f_buf = b.file.f_buf /\ g.written = b.file.written
    <3> DEFINE q == b.file.buffer \o rest
               j == b.file.bytes_xfer + k
    <3>1. q = rest /\ q \in Seq(Nat) /\ j \in Nat
      BY <1>0, <2>2, <2>6, <2>7, <2>9 DEF FileType
    <3>2. g = [b.file EXCEPT !.buffer = q, !.bytes_xfer = j]
      OBVIOUS
    <3> HIDE DEF q, j, g
    <3> QED
      BY <1>0, <2>2, <3>1, <3>2, Zenon DEF FileType
  <2> HIDE DEF g
  <2>13. c \in Buffereds /\ c.file = g /\ c.sock = s.sock /\ c.handler = b.handler
    BY <2>8, <2>11, <2>12, WithFile, ZenonT(30)
  <2> HIDE DEF c
  <2>14. PutInv(c, n + Len(data)) /\ Thaws(c) /\ SameFile(b, c)
    BY <2>6, <2>10, <2>12, <2>13, Zenon DEF PutInv, Thaws, SameFile
  <2>15. /\ Frozen(c) \in Buffereds /\ Frozen(c).sock = c.sock
         /\ Frozen(c).handler = "notify"
         /\ Frozen(c).file.buffer = c.file.buffer
         /\ Frozen(c).file.has_error = c.file.has_error
         /\ Frozen(c).file.open = c.file.open /\ Frozen(c).file.f_buf = c.file.f_buf
         /\ Frozen(c).file.written = c.file.written
    BY <2>13, Zenon DEF Frozen, Buffereds, FileType
  <2>16. PutInv(Frozen(c), n + Len(data)) /\ Thaws(Frozen(c)) /\ SameFile(b, Frozen(c))
    BY <2>14, <2>15, Zenon DEF PutInv, Thaws, SameFile
  <2>17. f \in {c, Frozen(c)}
    BY <2>1
  <2> QED
    BY <2>13, <2>14, <2>15, <2>16, <2>17
<1> QED
  BY <1>1, <1>2, <1>3

(* buffered_put_buffer: whatever is frozen, flushed or refused, the stream *)
(* is continued by the data, or the peer is gone.                          *)
LEMMA BufferedPut ==
    ASSUME NEW b \in Buffereds, NEW n \in Nat, NEW data \in Seq(Nat),
           PutInv(b, n), Follows(data, n)
    PROVE  /\ buffered_put_buffer(b, data) \in Buffereds
           /\ PutInv(buffered_put_buffer(b, data), n + Len(data))
           /\ Thaws(buffered_put_buffer(b, data))
           /\ SameFile(b, buffered_put_buffer(b, data))
<1>0. b.file \in FileType
  BY DEF Buffereds
<1>1. CASE b.file.has_error
  <2> DEFINE p == b.file.f_error \/ data # <<>>
             g == [b.file EXCEPT !.f_error = p]
             f == buffered_put_buffer(b, data)
  <2>1. f = [b EXCEPT !.file = g]
    BY <1>1 DEF buffered_put_buffer
  <2>2. p \in BOOLEAN
    BY Zenon
  <2> HIDE DEF p
  <2>3. /\ g \in FileType /\ g.has_error = b.file.has_error /\ g.open = b.file.open
        /\ g.f_buf = b.file.f_buf /\ g.written = b.file.written
    BY <1>0, <2>2, Zenon DEF FileType
  <2> HIDE DEF g
  <2>4. f \in Buffereds /\ f.file = g /\ f.sock = b.sock /\ f.handler = b.handler
    BY <2>1, <2>3, WithFile, ZenonT(30)
  <2> HIDE DEF f
  <2>5. PutInv(f, n + Len(data)) /\ Thaws(f) /\ SameFile(b, f)
    BY <1>1, <2>3, <2>4, Zenon DEF PutInv, Thaws, SameFile
  <2> QED
    BY <2>4, <2>5 DEF f
<1>2. CASE ~b.file.has_error
  <2> DEFINE g == [b.file EXCEPT !.freeze_output = FALSE]
             a == [b EXCEPT !.file = g]
             c == buffered_flush(a)
  <2>1. buffered_put_buffer(b, data) = PutRest(c, data)
    BY <1>2 DEF buffered_put_buffer
  <2>2. /\ g \in FileType /\ g.buffer = b.file.buffer /\ g.has_error = b.file.has_error
        /\ ~g.freeze_output /\ g.open = b.file.open
        /\ g.f_buf = b.file.f_buf /\ g.written = b.file.written
    BY <1>0, Zenon DEF FileType
  <2> HIDE DEF g
  <2>3. a \in Buffereds /\ a.file = g /\ a.sock = b.sock /\ a.handler = b.handler
    BY <2>2, WithFile, Zenon
  <2> HIDE DEF a
  <2>4. PutInv(a, n) /\ Thaws(a) /\ SameFile(b, a)
    BY <2>2, <2>3, Zenon DEF PutInv, Thaws, SameFile
  <2>5. /\ c \in Buffereds /\ PutInv(c, n) /\ Thaws(c) /\ SameFile(a, c)
        /\ c.file.has_error \/ c.file.freeze_output \/ c.file.buffer = <<>>
    BY <2>3, <2>4, FlushPut
  <2> HIDE DEF c
  <2>6. /\ PutRest(c, data) \in Buffereds /\ PutInv(PutRest(c, data), n + Len(data))
        /\ Thaws(PutRest(c, data)) /\ SameFile(c, PutRest(c, data))
    BY <2>5, PutRestPut
  <2>7. SameFile(b, PutRest(c, data))
    BY <2>4, <2>5, <2>6 DEF SameFile
  <2> QED
    BY <2>1, <2>6, <2>7
<1> QED
  BY <1>1, <1>2

-----------------------------------------------------------------------------
(* Errors: at most n bytes were sent of n that have been put, and less if  *)
(* the QEMUFile has been told of an error.                                 *)
Short(b, n) ==
    /\ Len(b.sock.sent) <= n
    /\ b.file.f_error => b.file.has_error /\ Len(b.sock.sent) < n

(* What becomes of errors: a peer that is gone gets nothing more, and the  *)
(* QEMUFile is told of an error only with data.                            *)
Errs(b, c, told) ==
    /\ c.sock.gone = b.sock.gone
    /\ b.sock.gone => c.sock = b.sock
    /\ b.file.has_error => c.file.has_error
    /\ b.file.f_error => c.file.f_error
    /\ c.file.f_error => b.file.f_error \/ (told /\ c.file.has_error)

(* Frozen output changes neither.                                          *)
LEMMA FrozenErrs ==
    ASSUME NEW b \in Buffereds, NEW c \in Buffereds, NEW told, Errs(b, c, told)
    PROVE  Errs(b, Frozen(c), told)
<1>1. /\ Frozen(c).sock = c.sock /\ Frozen(c).file.has_error = c.file.has_error
      /\ Frozen(c).file.f_error = c.file.f_error
  BY Zenon DEF Frozen, Buffereds, FileType
<1> QED
  BY <1>1, Zenon DEF Errs

(* The socket after it took something                                      *)
LEMMA SentGone ==
    ASSUME NEW b \in Buffereds, NEW data \in Seq(Nat)
    PROVE  /\ Sent(b, data).file = b.file
           /\ Sent(b, data).sock.gone = b.sock.gone
           /\ Sent(b, data) = [b EXCEPT !.sock = Sent(b, data).sock]
           /\ Sent(b, data).sock \in SockType
<1> DEFINE k == Sendable(b, data)
           t == b.sock.sent \o SubSeq(data, 1, k)
           r == b.sock.room - k
           c == [b.sock EXCEPT !.sent = t, !.room = r]
<1>1. Sent(b, data) = [b EXCEPT !.sock = c]
  BY Zenon DEF Sent, Buffereds, SockType
<1>2. k \in 0 .. Len(data) /\ r \in Nat
  BY SendableBounds
<1>3. b.sock \in SockType /\ b.sock.sent \in Seq(Nat)
  BY DEF Buffereds, SockType
<1> HIDE DEF k
<1>4. SubSeq(data, 1, k) \in Seq(Nat)
  BY <1>2, SubSeqProperties
<1>5. t \in Seq(Nat)
  BY <1>3, <1>4
<1> HIDE DEF t, r
<1>6. c \in SockType /\ c.gone = b.sock.gone
  BY <1>2, <1>3, <1>5, Zenon DEF SockType
<1> HIDE DEF c
<1>7. Sent(b, data).sock = c /\ Sent(b, data).file = b.file
  BY <1>1 DEF Buffereds
<1> QED
  BY <1>1, <1>6, <1>7

(* buffered_flush                                                          *)
LEMMA FlushErrs ==
    ASSUME NEW b \in Buffereds
    PROVE  Errs(b, buffered_flush(b), FALSE)
<1> DEFINE f == buffered_flush(b)
<1>0. b.file \in FileType /\ b.file.buffer \in Seq(Nat)
  BY DEF Buffereds, FileType
<1>1. CASE b.file.has_error \/ b.file.buffer = <<>>
  <2>1. f = b
    BY <1>1 DEF buffered_flush
  <2> QED
    BY <2>1 DEF Errs
<1>2. CASE ~(b.file.has_error \/ b.file.buffer = <<>>) /\ b.sock.gone
  <2> DEFINE g == [b.file EXCEPT !.has_error = TRUE]
  <2>1. f = [b EXCEPT !.file = g]
    BY <1>2 DEF buffered_flush
  <2>2. g \in FileType /\ g.has_error /\ g.f_error = b.file.f_error
    BY <1>0, Zenon DEF FileType
  <2> HIDE DEF g
  <2>3. f.file = g /\ f.sock = b.sock
    BY <2>1, <2>2, WithFile, ZenonT(30)
  <2> QED
    BY <2>2, <2>3, Zenon DEF Errs
<1>3. CASE ~(b.file.has_error \/ b.file.buffer = <<>>) /\ ~b.sock.gone
  <2> DEFINE data == b.file.buffer
             rest == Rest(b, data)
             s == Sent(b, data)
             g == [s.file EXCEPT !.buffer = rest]
             c == [s EXCEPT !.file.buffer = rest]
  <2>1. f = IF rest = <<>> THEN c ELSE Frozen(c)
    BY <1>3 DEF buffered_flush
  <2>2. /\ s.file = b.file /\ s.sock.gone = b.sock.gone /\ s = [b EXCEPT !.sock = s.sock]
        /\ s.sock \in SockType
    BY <1>0, SentGone
  <2>3. rest \in Seq(Nat)
    <3>1. Sendable(b, data) \in 0 .. Len(data)
      BY <1>0, SendableBounds
    <3> QED
      BY <1>0, <3>1, SubSeqProperties DEF Rest
  <2> HIDE DEF s, rest
  <2>4. s \in Buffereds
    BY <2>2 DEF Buffereds
  <2>5. g \in FileType /\ g.has_error = b.file.has_error /\ g.f_error = b.file.f_error
    BY <1>0, <2>2, <2>3, Zenon DEF FileType
  <2>6. c = [s EXCEPT !.file = g]
    OBVIOUS
  <2>g. g \in FileType
    BY <2>5
  <2> HIDE DEF g
  <2>7. c \in Buffereds /\ c.file = g /\ c.sock = s.sock
    BY <2>4, <2>6, <2>g, WithFile, ZenonT(30)
  <2> HIDE DEF c
  <2>8. Errs(b, c, FALSE)
    BY <1>3, <2>2, <2>5, <2>7, Zenon DEF Errs
  <2>9. f \in {c, Frozen(c)}
    BY <2>1
  <2> QED
    BY <2>7, <2>8, <2>9, FrozenErrs, Zenon
<1> QED
  BY <1>1, <1>2, <1>3, Zenon

(* The loop of buffered_put_buffer                                         *)
LEMMA PutRestErrs ==
    ASSUME NEW b \in Buffereds, NEW data \in Seq(Nat)
    PROVE  Errs(b, PutRest(b, data), data # <<>>)
<1> DEFINE f == PutRest(b, data)
           keep == b.file.freeze_output \/ data = <<>> \/ b.file.bytes_xfer > b.file.xfer_limit
<1>0. b.file \in FileType /\ b.file.buffer \in Seq(Nat) /\ b.file.bytes_xfer \in Nat
  BY DEF Buffereds, FileType
<1>1. CASE keep
  <2> DEFINE s == b.file.buffer \o data
             g == [b.file EXCEPT !.buffer = s]
  <2>1. f = [b EXCEPT !.file = g]
    BY <1>1 DEF PutRest
  <2>2. s \in Seq(Nat)
    BY <1>0
  <2> HIDE DEF s
  <2>3. g \in FileType /\ g.has_error = b.file.has_error /\ g.f_error = b.file.f_error
    BY <1>0, <2>2, Zenon DEF FileType
  <2>g. g \in FileType
    BY <2>3
  <2> HIDE DEF g
  <2>4. f.file = g /\ f.sock = b.sock
    BY <2>1, <2>g, WithFile
  <2> QED
    BY <2>3, <2>4, Zenon DEF Errs
<1>2. CASE ~keep /\ b.sock.gone
  <2> DEFINE g == [b.file EXCEPT !.has_error = TRUE, !.f_error = TRUE]
  <2>1. f = [b EXCEPT !.file = g]
    BY <1>2, Zenon DEF PutRest
  <2>2. g \in FileType /\ g.has_error /\ g.f_error
    BY <1>0, Zenon DEF FileType
  <2> HIDE DEF g
  <2>3. f.file = g /\ f.sock = b.sock
    BY <2>1, <2>2, WithFile, ZenonT(30)
  <2> QED
    BY <1>2, <2>2, <2>3, Zenon DEF Errs
<1>3. CASE ~keep /\ ~b.sock.gone
  <2> DEFINE rest == Rest(b, data)
             s == Sent(b, data)
             k == Sendable(b, data)
             q == b.file.buffer \o rest
             j == b.file.bytes_xfer + k
             g == [b.file EXCEPT !.buffer = q, !.bytes_xfer = j]
             c == [s EXCEPT !.file.buffer = @ \o rest, !.file.bytes_xfer = @ + k]
  <2>1. f = IF rest = <<>> \/ c.file.bytes_xfer > c.file.xfer_limit THEN c ELSE Frozen(c)
    BY <1>3 DEF PutRest
  <2>2. /\ s.file = b.file /\ s.sock.gone = b.sock.gone /\ s = [b EXCEPT !.sock = s.sock]
        /\ s.sock \in SockType
    BY SentGone
  <2>3. k \in 0 .. Len(data)
    BY SendableBounds
  <2>4. rest \in Seq(Nat)
    BY <2>3, SubSeqProperties DEF Rest
  <2> HIDE DEF s, rest, k
  <2>5. s \in Buffereds
    BY <2>2 DEF Buffereds
  <2>6. q \in Seq(Nat) /\ j \in Nat
    BY <1>0, <2>3, <2>4
  <2>7. c = [s EXCEPT !.file = g]
    BY <2>2, Zenon
  <2> HIDE DEF q, j
  <2>8. g \in FileType /\ g.has_error = b.file.has_error /\ g.f_error = b.file.f_error
    BY <1>0, <2>6, Zenon DEF FileType
  <2>g. g \in FileType
    BY <2>8
  <2> HIDE DEF g, c
  <2>9. c \in Buffereds /\ c.file = g /\ c.sock = s.sock
    BY <2>5, <2>7, <2>g, WithFile, Zenon
  <2>10. Errs(b, c, data # <<>>)
    BY <1>3, <2>2, <2>8, <2>9, Zenon DEF Errs
  <2>11. f \in {c, Frozen(c)}
    BY <2>1
  <2>12. Errs(b, Frozen(c), data # <<>>)
    BY <2>9, <2>10, FrozenErrs, Zenon
  <2> QED
    BY <2>10, <2>11, <2>12
<1> QED
  BY <1>1, <1>2, <1>3

(* buffered_put_buffer                                                     *)
LEMMA PutErrs ==
    ASSUME NEW b \in Buffereds, NEW n \in Nat, PutInv(b, n), NEW data \in Seq(Nat)
    PROVE  Errs(b, buffered_put_buffer(b, data), data # <<>>)
<1>0. b.file \in FileType
  BY DEF Buffereds
<1>1. CASE b.file.has_error
  <2> DEFINE p == b.file.f_error \/ data # <<>>
             g == [b.file EXCEPT !.f_error = p]
             f == buffered_put_buffer(b, data)
  <2>1. f = [b EXCEPT !.file = g]
    BY <1>1 DEF buffered_put_buffer
  <2>2. p \in BOOLEAN /\ (p => b.file.f_error \/ data # <<>>) /\ (b.file.f_error => p)
    BY Zenon
  <2> HIDE DEF p
  <2>3. g \in FileType /\ g.has_error = b.file.has_error /\ g.f_error = p
    BY <1>0, <2>2, Zenon DEF FileType
  <2>g. g \in FileType
    BY <2>3
  <2> HIDE DEF g, f
  <2>4. f.file = g /\ f.sock = b.sock
    BY <2>1, <2>g, WithFile, ZenonT(30)
  <2> QED
    BY <1>1, <2>2, <2>3, <2>4, Zenon DEF Errs, f
<1>2. CASE ~b.file.has_error
  <2> DEFINE g == [b.file EXCEPT !.freeze_output = FALSE]
             a == [b EXCEPT !.file = g]
             c == buffered_flush(a)
  <2>1. buffered_put_buffer(b, data) = PutRest(c, data)
    BY <1>2 DEF buffered_put_buffer
  <2>2. /\ g \in FileType /\ g.has_error = b.file.has_error /\ g.f_error = b.file.f_error
        /\ g.buffer = b.file.buffer
    BY <1>0, Zenon DEF FileType
  <2>g. g \in FileType
    BY <2>2
  <2> HIDE DEF g
  <2>3. a \in Buffereds /\ a.file = g /\ a.sock = b.sock
    BY <2>g, WithFile, Zenon
  <2> HIDE DEF a
  <2>4. PutInv(a, n)
    BY <2>2, <2>3, Zenon DEF PutInv
  <2>5. c \in Buffereds /\ Errs(a, c, FALSE)
    BY <2>3, <2>4, FlushPut, FlushErrs, Zenon
  <2> HIDE DEF c
  <2> DEFINE e == PutRest(c, data)
  <2>6. Errs(c, e, data # <<>>)
    BY <2>5, PutRestErrs
  <2> HIDE DEF e
  <2>7. /\ e.sock.gone = b.sock.gone /\ (b.sock.gone => e.sock = b.sock)
        /\ (b.file.has_error => e.file.has_error) /\ (b.file.f_error => e.file.f_error)
    BY <2>2, <2>3, <2>5, <2>6 DEF Errs
  <2>8. e.file.f_error => b.file.f_error \/ (data # <<>> /\ e.file.has_error)
    BY <2>2, <2>3, <2>5, <2>6 DEF Errs
  <2> QED
    BY <2>1, <2>7, <2>8, Zenon DEF Errs, e
<1> QED
  BY <1>1, <1>2

(* From errors to numbers of bytes                                         *)
LEMMA ErrsShort ==
    ASSUME NEW b \in Buffereds, NEW c \in Buffereds, NEW n \in Nat, NEW k \in Nat,
           NEW told, Errs(b, c, told), told => k # 0,
           Short(b, n), PutInv(c, n + k)
    PROVE  Short(c, n + k)
<1>1. Len(b.sock.sent) \in Nat /\ Len(c.sock.sent) \in Nat /\ Len(c.file.buffer) \in Nat
  <2>1. b.sock.sent \in Seq(Nat) /\ c.sock.sent \in Seq(Nat) /\ c.file.buffer \in Seq(Nat)
    BY DEF Buffereds, SockType, FileType
  <2> QED
    BY <2>1
<1>2. CASE ~c.file.has_error
  <2>1. Len(c.sock.sent) + Len(c.file.buffer) = n + k
    BY <1>2, Zenon DEF PutInv
  <2> DEFINE x == Len(c.sock.sent)
             y == Len(c.file.buffer)
  <2>x. x \in Nat /\ y \in Nat /\ x + y = n + k
    BY <1>1, <2>1, Zenon
  <2> HIDE DEF x, y
  <2>y. x <= n + k
    BY <2>x
  <2>2. Len(c.sock.sent) <= n + k
    BY <2>y, Zenon DEF x
  <2>3. ~c.file.f_error
    BY <1>2, Zenon DEF Errs, Short
  <2> QED
    BY <2>2, <2>3 DEF Short
<1>3. CASE c.file.has_error
  <2>1. c.sock = b.sock
    BY <1>3, Zenon DEF PutInv, Errs
  <2>2. Len(b.sock.sent) <= n /\ (b.file.f_error => Len(b.sock.sent) < n)
    BY DEF Short
  <2>3. c.file.f_error => b.file.f_error \/ told
    BY DEF Errs
  <2> QED
    BY <1>1, <1>3, <2>1, <2>2, <2>3 DEF Short
<1> QED
  BY <1>2, <1>3

-----------------------------------------------------------------------------
(* The QEMUFile holds the bytes after those it has handed over, and less   *)
(* than a block of them between two stages.                                *)
StreamInv(b) ==
    /\ PutInv(b, b.file.written) /\ Short(b, b.file.written)
    /\ Follows(b.file.f_buf, b.file.written) /\ Len(b.file.f_buf) < Block

(* What a change of the QEMUFile's buffer leaves alone                     *)
SameButBuf(b, c) ==
    /\ c.file.open = b.file.open /\ c.file.has_error = b.file.has_error
    /\ c.file.freeze_output = b.file.freeze_output /\ c.file.buffer = b.file.buffer
    /\ c.file.f_error = b.file.f_error /\ c.file.written = b.file.written
    /\ c.file.xfer_limit = b.file.xfer_limit
    /\ c.sock = b.sock /\ c.handler = b.handler

(* The numbers of a file                                                   *)
LEMMA FileNumbers ==
    ASSUME NEW b \in Buffereds
    PROVE  /\ b.file \in FileType /\ b.file.f_buf \in Seq(Nat) /\ b.file.written \in Nat
           /\ Len(b.file.f_buf) \in Nat /\ Total(b) \in Nat
           /\ Total(b) = b.file.written + Len(b.file.f_buf)
<1>1. b.file \in FileType /\ b.file.f_buf \in Seq(Nat) /\ b.file.written \in Nat
  BY DEF Buffereds, FileType
<1>2. Len(b.file.f_buf) \in Nat
  BY <1>1
<1> QED
  BY <1>1, <1>2 DEF Total

(* The next bytes of the stream                                            *)
LEMMA FilledFollows ==
    ASSUME NEW b \in Buffereds, NEW n \in Nat, Follows(b.file.f_buf, b.file.written)
    PROVE  /\ Filled(b, n) \in Buffereds /\ SameButBuf(b, Filled(b, n))
           /\ Follows(Filled(b, n).file.f_buf, b.file.written)
           /\ Len(Filled(b, n).file.f_buf) = Len(b.file.f_buf) + n
           /\ Total(Filled(b, n)) = Total(b) + n
<1> DEFINE w == Total(b)
           s == [i \in 1 .. n |-> w + i]
           t == b.file.f_buf \o s
           g == [b.file EXCEPT !.f_buf = t]
           c == Filled(b, n)
<1>1. /\ b.file \in FileType /\ b.file.f_buf \in Seq(Nat) /\ b.file.written \in Nat
      /\ w \in Nat /\ w = b.file.written + Len(b.file.f_buf) /\ Len(b.file.f_buf) \in Nat
  BY FileNumbers
<1>2. c = [b EXCEPT !.file = g]
  BY DEF Filled
<1> HIDE DEF w
<1>3. s \in Seq(Nat) /\ Len(s) = n /\ Follows(s, w)
  <2>1. \A i \in 1 .. n : w + i \in Nat
    BY <1>1
  <2>2. s \in Seq(Nat) /\ Len(s) = n /\ \A i \in 1 .. n : s[i] = w + i
    BY <2>1
  <2> QED
    BY <2>2 DEF Follows
<1> HIDE DEF s
<1>4. t \in Seq(Nat) /\ Len(t) = Len(b.file.f_buf) + n /\ Follows(t, b.file.written)
  BY <1>1, <1>3, FollowsConcat, Zenon
<1> HIDE DEF t
<1>5. /\ g \in FileType /\ g.f_buf = t
      /\ g.open = b.file.open /\ g.has_error = b.file.has_error
      /\ g.freeze_output = b.file.freeze_output /\ g.buffer = b.file.buffer
      /\ g.f_error = b.file.f_error /\ g.written = b.file.written
      /\ g.xfer_limit = b.file.xfer_limit
  BY <1>1, <1>4, Zenon DEF FileType
<1>g. g \in FileType
  BY <1>5
<1> HIDE DEF g, c
<1>6. c \in Buffereds /\ c.file = g /\ c.sock = b.sock /\ c.handler = b.handler
  BY <1>2, <1>g, WithFile, Zenon
<1>7. SameButBuf(b, c)
  BY <1>5, <1>6, Zenon DEF SameButBuf
<1>8. Total(c) = Total(b) + n
  <2>1. Total(c) = b.file.written + (Len(b.file.f_buf) + n)
    BY <1>4, <1>5, <1>6, Zenon DEF Total
  <2>2. Total(c) = w + n
    BY <1>1, <2>1
  <2> QED
    BY <2>2 DEF w
<1> QED
  BY <1>4, <1>5, <1>6, <1>7, <1>8, Zenon DEF c

(* qemu_fflush hands over what the QEMUFile holds, or the peer is gone.    *)
LEMMA FflushPut ==
    ASSUME NEW b \in Buffereds, PutInv(b, b.file.written), Short(b, b.file.written),
           Follows(b.file.f_buf, b.file.written)
    PROVE  /\ qemu_fflush(b) \in Buffereds /\ StreamInv(qemu_fflush(b))
           /\ Thaws(b) => Thaws(qemu_fflush(b))
           /\ qemu_fflush(b).file.f_buf = <<>>
           /\ qemu_fflush(b).file.written = Total(b)
           /\ Total(qemu_fflush(b)) = Total(b)
           /\ qemu_fflush(b).file.open = b.file.open
           /\ b.file.f_error => qemu_fflush(b).file.f_error
           /\ qemu_fflush(b).handler \in {b.handler, "notify"}
<1> DEFINE w == Total(b)
           d == b.file.f_buf
           g == [b.file EXCEPT !.written = w]
           a == [b EXCEPT !.file = g]
           c == buffered_put_buffer(a, d)
           h == [c.file EXCEPT !.f_buf = <<>>]
           e == [c EXCEPT !.file = h]
           f == qemu_fflush(b)
<1>0. /\ b.file \in FileType /\ d \in Seq(Nat) /\ b.file.written \in Nat /\ Len(d) \in Nat
      /\ w \in Nat /\ w = b.file.written + Len(d)
  BY FileNumbers
<1>1. Follows(<<>>, w) /\ Len(<<>>) = 0 /\ 0 < Block
  BY MigrationAssumption DEF Follows
<1>2. CASE d = <<>>
  <2>1. f = b
    BY <1>2 DEF qemu_fflush
  <2>2. w = b.file.written
    BY <1>0, <1>1, <1>2
  <2> HIDE DEF w, d, f
  <2>3. StreamInv(b)
    BY <1>0, <1>1, <1>2, <2>2, Zenon DEF StreamInv, d
  <2> QED
    BY <1>2, <2>1, <2>2, <2>3, Zenon DEF f, w, d
<1>3. CASE d # <<>>
  <2>1. f = e
    BY <1>3, Zenon DEF qemu_fflush
  <2> HIDE DEF w
  <2>2. /\ g \in FileType /\ g.written = w /\ g.buffer = b.file.buffer
        /\ g.has_error = b.file.has_error /\ g.open = b.file.open /\ g.f_buf = b.file.f_buf
        /\ g.f_error = b.file.f_error
    BY <1>0, Zenon DEF FileType
  <2>g. g \in FileType
    BY <2>2
  <2> HIDE DEF g, f, d
  <2>3. a \in Buffereds /\ a.file = g /\ a.sock = b.sock /\ a.handler = b.handler
    BY <2>g, WithFile, Zenon
  <2> HIDE DEF a
  <2>4. PutInv(a, b.file.written) /\ Short(a, b.file.written)
    BY <2>2, <2>3, Zenon DEF PutInv, Short
  <2>5. Follows(d, b.file.written)
    BY DEF d
  <2>6. c \in Buffereds /\ PutInv(c, b.file.written + Len(d)) /\ Thaws(c) /\ SameFile(a, c)
    BY <1>0, <2>3, <2>4, <2>5, BufferedPut, Zenon
  <2>7. Errs(a, c, d # <<>>)
    BY <1>0, <2>3, <2>4, PutErrs, Zenon
  <2> HIDE DEF c
  <2>8. Len(d) # 0
    BY <1>0, <1>3
  <2>9. Short(c, b.file.written + Len(d))
    BY <1>0, <2>3, <2>4, <2>6, <2>7, <2>8, ErrsShort, Zenon
  <2>10. /\ c.file \in FileType /\ c.file.written = w /\ c.file.open = b.file.open
         /\ c.handler \in {b.handler, "notify"} /\ (b.file.f_error => c.file.f_error)
    BY <2>2, <2>3, <2>6, <2>7, Zenon DEF SameFile, Buffereds, Errs
  <2>11. /\ h \in FileType /\ h.f_buf = <<>> /\ h.written = w /\ h.open = b.file.open
         /\ h.buffer = c.file.buffer /\ h.has_error = c.file.has_error
         /\ h.f_error = c.file.f_error /\ h.freeze_output = c.file.freeze_output
    <3> DEFINE q == <<>>
    <3>1. q \in Seq(Nat) /\ h = [c.file EXCEPT !.f_buf = q]
      OBVIOUS
    <3>2. q = <<>>
      OBVIOUS
    <3> HIDE DEF q, h
    <3> QED
      BY <2>10, <3>1, <3>2, Zenon DEF FileType
  <2>h. h \in FileType
    BY <2>11
  <2> HIDE DEF h
  <2>12. e \in Buffereds /\ e.file = h /\ e.sock = c.sock /\ e.handler = c.handler
    BY <2>6, <2>h, WithFile, Zenon
  <2> HIDE DEF e
  <2>13. PutInv(e, w) /\ Short(e, w) /\ Thaws(e)
    BY <1>0, <2>6, <2>9, <2>11, <2>12, Zenon DEF PutInv, Short, Thaws
  <2>14. StreamInv(e)
    BY <1>1, <2>11, <2>12, <2>13, Zenon DEF StreamInv
  <2>15. Total(e) = w
    BY <1>0, <1>1, <2>11, <2>12 DEF Total
  <2> QED
    BY <2>1, <2>10, <2>11, <2>12, <2>13, <2>14, <2>15, Zenon DEF f, w
<1> QED
  BY <1>2, <1>3

(* A stage of savevm continues the stream.                                 *)
LEMMA StagePut ==
    ASSUME NEW b \in Buffereds, StreamInv(b), NEW i \in Stage(b)
    PROVE  /\ i \in Buffereds /\ StreamInv(i) /\ (Thaws(b) => Thaws(i))
           /\ i.file.open = b.file.open /\ i.handler \in {b.handler, "notify"}
           /\ Total(i) <= Total(b) + Block
<1>1. PICK n \in Puts : i = qemu_put_buffer(b, n)
  BY Zenon DEF Stage
<1> DEFINE m == Len(b.file.f_buf)
           l == Min({n, Block - m})
           a == Filled(b, l)
           c == qemu_fflush(a)
           e == Filled(c, n - l)
<1>2. /\ n \in Nat /\ n <= Block /\ Block \in Nat /\ m \in Nat /\ m < Block
      /\ Total(b) \in Nat
  BY FileNumbers, MigrationAssumption DEF StreamInv
<1>3. l \in Nat /\ n - l \in Nat /\ n - l < Block
  <2> DEFINE r == Block - m
  <2>1. r \in Nat /\ r > 0 /\ r <= Block /\ n > 0
    BY <1>2, MigrationAssumption
  <2> HIDE DEF r
  <2>2. Min({n, r}) \in {n, r} /\ Min({n, r}) <= n /\ Min({n, r}) <= r
    <3>1. \E x \in {n, r} : \A y \in {n, r} : x <= y
      BY <1>2, <2>1
    <3> QED
      BY <3>1 DEF Min
  <2>3. l = Min({n, r})
    BY DEF r
  <2> QED
    BY <1>2, <2>1, <2>2, <2>3
<1>4. \/ i = b
      \/ m + n < Block /\ i = Filled(b, n)
      \/ i = c
      \/ i = e
  BY <1>1, Zenon DEF qemu_put_buffer
<1> HIDE DEF m, l
<1>5. /\ PutInv(b, b.file.written) /\ Short(b, b.file.written)
      /\ Follows(b.file.f_buf, b.file.written)
  BY DEF StreamInv
<1>6. /\ a \in Buffereds /\ SameButBuf(b, a) /\ Follows(a.file.f_buf, b.file.written)
      /\ Total(a) = Total(b) + l
  BY <1>3, <1>5, FilledFollows
<1> HIDE DEF a
<1>7. /\ PutInv(a, a.file.written) /\ Short(a, a.file.written)
      /\ Follows(a.file.f_buf, a.file.written) /\ (Thaws(b) => Thaws(a))
      /\ a.file.open = b.file.open /\ a.handler = b.handler
  BY <1>5, <1>6, Zenon DEF SameButBuf, PutInv, Short, Thaws
<1>8. /\ c \in Buffereds /\ StreamInv(c) /\ (Thaws(a) => Thaws(c))
      /\ c.file.f_buf = <<>> /\ Total(c) = Total(a)
      /\ c.file.open = a.file.open /\ c.handler \in {a.handler, "notify"}
  BY <1>6, <1>7, FflushPut
<1> HIDE DEF c
<1>9. CASE i = b
  BY <1>2, <1>9
<1>10. CASE m + n < Block /\ i = Filled(b, n)
  <2>1. /\ i \in Buffereds /\ SameButBuf(b, i) /\ Follows(i.file.f_buf, b.file.written)
        /\ Len(i.file.f_buf) = m + n /\ Total(i) = Total(b) + n
    BY <1>2, <1>5, <1>10, FilledFollows DEF m
  <2>2. StreamInv(i) /\ (Thaws(b) => Thaws(i)) /\ i.file.open = b.file.open
        /\ i.handler = b.handler
    BY <1>5, <1>10, <2>1, Zenon DEF SameButBuf, PutInv, Short, Thaws, StreamInv
  <2>3. Total(i) <= Total(b) + Block
    BY <1>2, <2>1
  <2> QED
    BY <2>1, <2>2, <2>3
<1>11. CASE i = c
  <2>1. Total(i) <= Total(b) + Block
    BY <1>2, <1>3, <1>6, <1>8, <1>11
  <2> QED
    BY <1>7, <1>8, <1>11, <2>1
<1>12. CASE i = e
  <2>1. /\ PutInv(c, c.file.written) /\ Short(c, c.file.written)
        /\ Follows(c.file.f_buf, c.file.written)
    BY <1>8 DEF StreamInv
  <2>2. /\ i \in Buffereds /\ SameButBuf(c, i) /\ Follows(i.file.f_buf, c.file.written)
        /\ Len(i.file.f_buf) = Len(c.file.f_buf) + (n - l) /\ Total(i) = Total(c) + (n - l)
    BY <1>3, <1>8, <1>12, <2>1, FilledFollows
  <2>3. Len(i.file.f_buf) < Block
    BY <1>3, <1>8, <2>2
  <2>4. StreamInv(i) /\ (Thaws(c) => Thaws(i)) /\ i.file.open = c.file.open
        /\ i.handler = c.handler
    BY <2>1, <2>2, <2>3, Zenon DEF SameButBuf, PutInv, Short, Thaws, StreamInv
  <2>5. Total(i) <= Total(b) + Block
    BY <1>2, <1>3, <1>6, <1>8, <2>2
  <2> QED
    BY <1>7, <1>8, <2>2, <2>4, <2>5
<1> QED
  BY <1>4, <1>9, <1>10, <1>11, <1>12

(* The stream: without a file there is nothing left of an earlier one.     *)
FileInv ==
    /\ file \in FileType /\ sock \in SockType
    /\ handler \in {"none", "connect", "notify"}
    /\ ~file.open => file = NoFile
    /\ file.open => StreamInv(buffered)
    /\ Follows(sock.sent, 0)

(* The file, its socket, its timer and handlers, and the migration they    *)
(* belong to                                                               *)
ControlInv ==
    /\ state \in {"none", "active"} \cup Ended /\ closing \in {"no"} \cup Ended
    /\ fd \in BOOLEAN /\ timer \in BOOLEAN /\ mon \in BOOLEAN
    /\ fd <=> state = "active"
    /\ file.open => fd
    /\ handler # "none" => fd
    /\ handler = "connect" => ~file.open /\ sock.sent = <<>>
    /\ handler = "notify" => file.open
    /\ timer => file.open
    /\ closing # "no" => file.open /\ file.f_buf = <<>>
    /\ closing = "error" => file.f_error
    /\ MainLoop => Thaws(buffered)

MonitorInv == suspended \in {0, 1} /\ (mon => suspended = 1)

(* The machine runs as wanted, but not while a migration completes.        *)
RunsRight == vm_running = (wanted /\ closing # "completed")

MigrationInv == FileInv /\ ControlInv /\ MonitorInv /\ RunsRight

(* What a handler that works on an open file leaves                        *)
Continues(s) ==
    /\ FileInv' /\ file'.open /\ handler' # "connect" /\ closing' \in s
    /\ closing' = "no" => Thaws(buffered)'
    /\ closing' # "no" => file'.f_buf = <<>>
    /\ closing' = "error" => file'.f_error

(* No file                                                                 *)
LEMMA NoFileType ==
    /\ NoFile \in FileType /\ ~NoFile.open /\ ~NoFile.has_error /\ ~NoFile.freeze_output
    /\ NoFile.buffer = <<>> /\ NoFile.f_buf = <<>> /\ NoFile.written = 0 /\ ~NoFile.f_error
<1> DEFINE q == <<>>
<1>1. q \in Seq(Nat) /\ q = <<>>
  OBVIOUS
<1>2. NoFile = [open |-> FALSE, has_error |-> FALSE, freeze_output |-> FALSE,
                bytes_xfer |-> 0, xfer_limit |-> 0, buffer |-> q, f_error |-> FALSE,
                f_buf |-> q, written |-> 0]
  BY DEF NoFile
<1> HIDE DEF q
<1> QED
  BY <1>1, <1>2 DEF FileType

(* The variables of the file as a record                                   *)
LEMMA BufferedFields ==
    ASSUME FileInv
    PROVE  /\ buffered \in Buffereds
           /\ buffered.file = file /\ buffered.sock = sock /\ buffered.handler = handler
BY DEF FileInv, buffered, Buffereds

(* The variables after a step that ends with the record c                  *)
LEMMA BecomesBuffered ==
    ASSUME NEW c \in Buffereds, c.file.open, StreamInv(c),
           file' = c.file, sock' = c.sock, handler' = c.handler
    PROVE  FileInv' /\ file'.open /\ (Thaws(c) => Thaws(buffered)')
<1>1. /\ buffered'.file = c.file /\ buffered'.sock = c.sock
      /\ buffered'.handler = c.handler
  BY DEF buffered
<1>2. c.file \in FileType /\ c.sock \in SockType /\ c.handler \in {"none", "connect", "notify"}
  BY DEF Buffereds
<1>3. StreamInv(buffered)'
  BY <1>1, Zenon DEF StreamInv, PutInv, Short
<1>4. Follows(sock.sent, 0)'
  BY DEF StreamInv, PutInv
<1> QED
  BY <1>1, <1>2, <1>3, <1>4 DEF FileInv, Thaws

(* A flush or a put of nothing leaves the QEMUFile and what it handed over.*)
LEMMA FlushStream ==
    ASSUME NEW b \in Buffereds, StreamInv(b), NEW c,
           c = buffered_flush(b) \/ c = buffered_put_buffer(b, <<>>)
    PROVE  /\ c \in Buffereds /\ StreamInv(c) /\ (Thaws(b) => Thaws(c))
           /\ c = buffered_put_buffer(b, <<>>) => Thaws(c)
           /\ SameFile(b, c) /\ (b.file.f_error => c.file.f_error)
           /\ Total(c) = Total(b)
<1> DEFINE n == b.file.written
           q == <<>>
<1>1. n \in Nat /\ PutInv(b, n) /\ Short(b, n)
  BY FileNumbers DEF StreamInv
<1>2. q \in Seq(Nat) /\ Follows(q, n) /\ n + Len(q) = n /\ Len(q) = 0 /\ n + 0 = n /\ q = <<>>
  BY <1>1 DEF Follows
<1> HIDE DEF q
<1>3. /\ c \in Buffereds /\ PutInv(c, n) /\ (Thaws(b) => Thaws(c)) /\ SameFile(b, c)
      /\ (c = buffered_put_buffer(b, <<>>) => Thaws(c)) /\ Errs(b, c, FALSE)
  <2>1. CASE c = buffered_put_buffer(b, q)
    <3>1. c \in Buffereds /\ PutInv(c, n) /\ Thaws(c) /\ SameFile(b, c)
      <4>1. /\ c \in Buffereds /\ PutInv(c, n + Len(q)) /\ Thaws(c) /\ SameFile(b, c)
        BY <1>1, <1>2, <2>1, BufferedPut, Zenon
      <4> QED
        BY <1>2, <4>1
    <3>2. Errs(b, c, q # <<>>)
      BY <1>1, <1>2, <2>1, PutErrs, Zenon
    <3>3. Errs(b, c, FALSE)
      BY <1>2, <3>2, Zenon DEF Errs
    <3> QED
      BY <3>1, <3>3, Zenon
  <2>2. CASE c = buffered_flush(b) /\ c # buffered_put_buffer(b, q)
    BY <1>1, <1>2, <2>2, FlushPut, FlushErrs, Zenon
  <2> QED
    BY <1>2, <2>1, <2>2, Zenon
<1>4. Short(c, n)
  <2> DEFINE k == 0
             told == FALSE
  <2>0. k \in Nat /\ n + k = n
    <3> HIDE DEF n
    <3> QED
      BY <1>1
  <2>1. (told => k # 0) /\ Errs(b, c, told)
    BY <1>3, Zenon
  <2> HIDE DEF k, told
  <2>2. PutInv(c, n + k)
    BY <1>3, <2>0, Zenon
  <2>3. Short(c, n + k)
    BY <1>1, <1>3, <2>0, <2>1, <2>2, ErrsShort, Zenon
  <2> QED
    BY <2>0, <2>3, Zenon
<1>5. c.file.written = n /\ c.file.f_buf = b.file.f_buf
  BY <1>3 DEF SameFile
<1>6. StreamInv(c) /\ Total(c) = Total(b)
  BY <1>3, <1>4, <1>5, Zenon DEF StreamInv, Total
<1>7. b.file.f_error => c.file.f_error
  BY <1>3 DEF Errs
<1> QED
  BY <1>3, <1>6, <1>7

(* migrate_fd_cleanup puts what the QEMUFile still has behind the rest.    *)
LEMMA CleanupContinues ==
    ASSUME NEW b \in Buffereds, b.file.open, b.handler # "connect", StreamInv(b),
           NEW s \in Ended, s = "error" => b.file.f_error, migrate_fd_cleanup(b, s)
    PROVE  Continues({s}) /\ Total(buffered)' = Total(b)
<1> DEFINE a == [b EXCEPT !.handler = "none"]
           c == qemu_fflush(a)
<1>1. file' = c.file /\ sock' = c.sock /\ handler' = c.handler /\ closing' = s
  BY Zenon DEF migrate_fd_cleanup
<1>2. a \in Buffereds /\ a.file = b.file /\ a.sock = b.sock /\ a.handler = "none"
  BY DEF Buffereds
<1> HIDE DEF a
<1>3. /\ PutInv(a, a.file.written) /\ Short(a, a.file.written)
      /\ Follows(a.file.f_buf, a.file.written)
  BY <1>2, Zenon DEF StreamInv, PutInv, Short
<1>4. /\ c \in Buffereds /\ StreamInv(c) /\ c.file.f_buf = <<>>
      /\ c.file.open = a.file.open /\ (a.file.f_error => c.file.f_error)
      /\ c.handler \in {a.handler, "notify"} /\ Total(c) = Total(a)
  BY <1>2, <1>3, FflushPut
<1> HIDE DEF c
<1>5. FileInv' /\ file'.open
  BY <1>1, <1>2, <1>4, BecomesBuffered, Zenon
<1>6. closing' # "no"
  BY <1>1 DEF Ended
<1>7. /\ handler' # "connect" /\ file'.f_buf = <<>>
      /\ (closing' = "error" => file'.f_error)
  BY <1>1, <1>2, <1>4
<1>8. Total(buffered)' = Total(c) /\ Total(a) = Total(b)
  BY <1>1, <1>2 DEF buffered, Total
<1> QED
  BY <1>1, <1>4, <1>5, <1>6, <1>7, <1>8 DEF Continues

(* The peer goes between two stages.                                       *)
LEMMA GoneStream ==
    ASSUME NEW i \in Buffereds, StreamInv(i), NEW p \in {i, [i EXCEPT !.sock.gone = TRUE]}
    PROVE  /\ p \in Buffereds /\ StreamInv(p) /\ p.file = i.file /\ p.handler = i.handler
           /\ Total(p) = Total(i) /\ p.sock.sent = i.sock.sent /\ p.sock.room = i.sock.room
<1>1. CASE p = i
  BY <1>1
<1>2. CASE p = [i EXCEPT !.sock.gone = TRUE]
  <2> DEFINE k == [i.sock EXCEPT !.gone = TRUE]
  <2>1. i.sock \in SockType
    BY DEF Buffereds
  <2>2. /\ k \in SockType /\ k.gone /\ k.sent = i.sock.sent /\ k.room = i.sock.room
    BY <2>1, Zenon DEF SockType
  <2>3. p = [i EXCEPT !.sock = k]
    BY <1>2
  <2>k. k \in SockType
    BY <2>2
  <2> HIDE DEF k
  <2>4. p \in Buffereds /\ p.sock = k /\ p.file = i.file /\ p.handler = i.handler
    BY <2>3, <2>k DEF Buffereds
  <2>5. StreamInv(p) /\ Total(p) = Total(i)
    BY <2>2, <2>4, Zenon DEF StreamInv, PutInv, Short, Total
  <2> QED
    BY <2>2, <2>4, <2>5
<1> QED
  BY <1>1, <1>2

(* migrate_fd_put_ready: another iteration, or the last stage and the end  *)
LEMMA PutReadyContinues ==
    ASSUME NEW b \in Buffereds, b.file.open, b.handler # "connect", StreamInv(b), Thaws(b),
           migrate_fd_put_ready(b), RunsRight, closing = "no", UNCHANGED wanted
    PROVE  Continues({closing} \cup Ended) /\ RunsRight'
<1>1. PICK i \in Stage(b) :
        \/ /\ file' = i.file /\ sock' = i.sock /\ handler' = i.handler
           /\ UNCHANGED <<closing, vm_running>>
        \/ \E p \in {i, [i EXCEPT !.sock.gone = TRUE]} : \E l \in Stage(p) :
              /\ VmAfter(l.file.f_error)
              /\ migrate_fd_cleanup(l, IF l.file.f_error THEN "error" ELSE "completed")
  BY Zenon DEF migrate_fd_put_ready
<1>2. /\ i \in Buffereds /\ StreamInv(i) /\ Thaws(i) /\ i.file.open
      /\ i.handler # "connect"
  BY StagePut
<1>3. CASE /\ file' = i.file /\ sock' = i.sock /\ handler' = i.handler
           /\ UNCHANGED <<closing, vm_running>>
  <2>1. FileInv' /\ file'.open /\ Thaws(buffered)'
    BY <1>2, <1>3, BecomesBuffered, Zenon
  <2> QED
    BY <2>1, <1>2, <1>3 DEF Continues, RunsRight
<1>4. CASE \E p \in {i, [i EXCEPT !.sock.gone = TRUE]} : \E l \in Stage(p) :
              /\ VmAfter(l.file.f_error)
              /\ migrate_fd_cleanup(l, IF l.file.f_error THEN "error" ELSE "completed")
  <2>0. PICK p \in {i, [i EXCEPT !.sock.gone = TRUE]} : \E l \in Stage(p) :
              /\ VmAfter(l.file.f_error)
              /\ migrate_fd_cleanup(l, IF l.file.f_error THEN "error" ELSE "completed")
    BY <1>4, Zenon
  <2>1. PICK l \in Stage(p) :
              /\ VmAfter(l.file.f_error)
              /\ migrate_fd_cleanup(l, IF l.file.f_error THEN "error" ELSE "completed")
    BY <2>0, Zenon
  <2>2. /\ p \in Buffereds /\ StreamInv(p) /\ p.file.open /\ p.handler # "connect"
    BY <1>2, <2>0, GoneStream, Zenon
  <2>3. /\ l \in Buffereds /\ StreamInv(l) /\ l.file.open /\ l.handler # "connect"
    BY <2>1, <2>2, StagePut
  <2> DEFINE s == IF l.file.f_error THEN "error" ELSE "completed"
  <2>4. /\ s \in Ended /\ (s = "error" <=> l.file.f_error) /\ s # "no"
        /\ (s = "completed" <=> ~l.file.f_error)
    BY DEF Ended
  <2>5. migrate_fd_cleanup(l, s)
    BY <2>1
  <2> HIDE DEF s
  <2>6. Continues({s})
    BY <2>3, <2>4, <2>5, CleanupContinues, Zenon
  <2>7. closing' = s
    BY <2>6 DEF Continues
  <2>8. RunsRight'
    BY <2>1, <2>4, <2>7, Zenon DEF VmAfter, RunsRight
  <2> QED
    BY <2>4, <2>6, <2>8 DEF Continues
<1> QED
  BY <1>1, <1>3, <1>4, Zenon

(* An empty file of a stream that begins                                   *)
LEMMA NewStream ==
    ASSUME NEW b \in Buffereds, b.sock.sent = <<>>, NEW limit \in Limits
    PROVE  LET a == qemu_fopen_ops_buffered(b, limit)
           IN  /\ a \in Buffereds /\ StreamInv(a) /\ Thaws(a) /\ a.file.open
               /\ a.handler = b.handler /\ a.sock = b.sock /\ Total(a) = 0
               /\ a.file.buffer = <<>> /\ a.file.f_buf = <<>> /\ a.file.xfer_limit = limit
<1> DEFINE g == [NoFile EXCEPT !.open = TRUE, !.xfer_limit = limit]
           a == qemu_fopen_ops_buffered(b, limit)
<1>1. limit \in Nat /\ 0 < Block
  BY MigrationAssumption
<1>2. /\ g \in FileType /\ g.open /\ ~g.has_error /\ g.buffer = <<>> /\ g.f_buf = <<>>
      /\ g.written = 0 /\ ~g.f_error /\ ~g.freeze_output /\ g.xfer_limit = limit
  BY <1>1, NoFileType, Zenon DEF FileType
<1> DEFINE e == [b EXCEPT !.file = g]
<1>g. g \in FileType /\ a = e
  BY <1>2 DEF qemu_fopen_ops_buffered
<1> HIDE DEF g, a
<1>e. e \in Buffereds /\ e.file = g /\ e.sock = b.sock /\ e.handler = b.handler
  BY <1>g, WithFile, Zenon
<1> HIDE DEF e
<1>3. a \in Buffereds /\ a.file = g /\ a.sock = b.sock /\ a.handler = b.handler
  BY <1>g, <1>e
<1>4. Follows(<<>>, 0) /\ Len(<<>>) = 0 /\ 0 + 0 = 0 /\ 0 <= 0
  BY DEF Follows
<1>5. PutInv(a, 0) /\ Short(a, 0) /\ Thaws(a) /\ Total(a) = 0
  BY <1>2, <1>3, <1>4, Zenon DEF PutInv, Short, Thaws, Total
<1>6. StreamInv(a)
  BY <1>1, <1>2, <1>3, <1>4, <1>5, Zenon DEF StreamInv
<1> QED
  BY <1>2, <1>3, <1>5, <1>6 DEF a

(* migrate_fd_connect begins the stream.                                   *)
LEMMA ConnectContinues ==
    ASSUME NEW b \in Buffereds, b.handler # "connect", b.sock.sent = <<>>,
           NEW limit \in Limits, migrate_fd_connect(b, limit), RunsRight, closing = "no",
           UNCHANGED wanted
    PROVE  Continues({closing} \cup Ended) /\ RunsRight'
<1> DEFINE a == qemu_fopen_ops_buffered(b, limit)
<1>1. PICK i \in Stage(a) :
        \/ ~i.file.f_error /\ migrate_fd_put_ready(i)
        \/ i.file.f_error /\ migrate_fd_cleanup(i, "error") /\ UNCHANGED vm_running
  BY DEF migrate_fd_connect
<1>2. /\ a \in Buffereds /\ StreamInv(a) /\ Thaws(a) /\ a.file.open
      /\ a.handler # "connect"
  <2>1. /\ a \in Buffereds /\ StreamInv(a) /\ Thaws(a) /\ a.file.open
        /\ a.handler = b.handler
    BY NewStream
  <2> QED
    BY <2>1
<1> HIDE DEF a
<1>3. /\ i \in Buffereds /\ StreamInv(i) /\ Thaws(i) /\ i.file.open
      /\ i.handler # "connect"
  BY <1>2, StagePut
<1>4. CASE migrate_fd_put_ready(i)
  BY <1>3, <1>4, PutReadyContinues, Zenon
<1>5. CASE i.file.f_error /\ migrate_fd_cleanup(i, "error") /\ UNCHANGED vm_running
  <2>1. "error" \in Ended
    BY DEF Ended
  <2>2. Continues({"error"})
    BY <1>3, <1>5, <2>1, CleanupContinues
  <2> QED
    BY <1>5, <2>1, <2>2 DEF Continues, RunsRight
<1> QED
  BY <1>1, <1>4, <1>5

-----------------------------------------------------------------------------
(* Before the first migration                                              *)
LEMMA MigrationInit ==
    ASSUME Init PROVE MigrationInv
<1>1. <<>> \in Seq(Nat) /\ Follows(<<>>, 0)
  BY DEF Follows
<1>2. sock \in SockType /\ sock.sent = <<>>
  <2> DEFINE q == <<>>
  <2>1. sock = [sent |-> q, room |-> SockRoom, gone |-> FALSE] /\ q \in Seq(Nat) /\ q = <<>>
    BY <1>1 DEF Init
  <2> HIDE DEF q
  <2> QED
    BY <2>1, MigrationAssumption DEF SockType
<1>3. file = NoFile /\ handler = "none"
  BY DEF Init
<1>4. FileInv
  BY <1>1, <1>2, <1>3, NoFileType DEF FileInv
<1>5. buffered.file = NoFile
  BY <1>3 DEF buffered
<1>6. ControlInv
  BY <1>3, <1>5, NoFileType, Zenon DEF Init, ControlInv, Thaws, Ended
<1> QED
  BY <1>4, <1>6 DEF MigrationInv, Init, MonitorInv, RunsRight

(* migrate, and the connection made at once or not                         *)
LEMMA MigrateStep ==
    ASSUME MigrationInv, NEW detach \in BOOLEAN, do_migrate(detach)
    PROVE  MigrationInv'
<1> USE DEF MigrationInv
<1>1. ~file.open /\ file = NoFile /\ closing = "no" /\ ~mon /\ ~fd
  BY DEF do_migrate, MainLoop, ControlInv, FileInv, MonitorInv
<1>2. NewSock \in SockType /\ NewSock.sent = <<>> /\ Follows(<<>>, 0)
  <2> DEFINE q == <<>>
  <2>1. NewSock = [sent |-> q, room |-> SockRoom, gone |-> FALSE] /\ q \in Seq(Nat) /\ q = <<>>
    BY DEF NewSock
  <2>2. Follows(<<>>, 0)
    BY DEF Follows
  <2> HIDE DEF q
  <2> QED
    BY <2>1, <2>2, MigrationAssumption DEF SockType
<1>3. suspended' = IF detach THEN 0 ELSE 1
  BY DEF do_migrate
<1>4. CASE /\ handler' = "connect" /\ fd' = TRUE /\ state' = "active" /\ mon' = ~detach
           /\ sock' = NewSock
           /\ UNCHANGED <<file, timer, closing, vm_running, wanted>>
  <2>1. FileInv'
    BY <1>1, <1>2, <1>4, NoFileType DEF FileInv
  <2>2. buffered'.file = NoFile
    BY <1>1, <1>4 DEF buffered
  <2>3. ControlInv'
    BY <1>1, <1>2, <1>4, <2>2, NoFileType DEF ControlInv, Thaws
  <2>4. MonitorInv'
    BY <1>3, <1>4, Zenon DEF MonitorInv
  <2> QED
    BY <1>4, <2>1, <2>3, <2>4 DEF RunsRight
<1>5. CASE /\ fd' = TRUE /\ state' = "active" /\ mon' = ~detach /\ timer' = TRUE
           /\ \E limit \in Limits :
                 migrate_fd_connect([buffered EXCEPT !.sock = NewSock], limit)
           /\ UNCHANGED wanted
  <2> DEFINE b == [buffered EXCEPT !.sock = NewSock]
  <2>1. PICK limit \in Limits : migrate_fd_connect(b, limit)
    BY <1>5
  <2>2. /\ buffered \in Buffereds /\ buffered.handler = handler
    BY BufferedFields
  <2>3. b \in Buffereds /\ b.sock = NewSock /\ b.handler = handler
    BY <1>2, <2>2 DEF Buffereds
  <2> HIDE DEF b
  <2>4. handler # "connect"
    BY <1>1 DEF ControlInv
  <2>5. Continues({closing} \cup Ended) /\ RunsRight'
    BY <1>1, <1>2, <1>5, <2>1, <2>3, <2>4, ConnectContinues, Zenon
  <2>6. ControlInv'
    <3>1. handler' \in {"none", "notify"}
      BY <2>5 DEF Continues, FileInv
    <3> QED
      BY <1>1, <1>5, <2>5, <3>1 DEF ControlInv, Continues, MainLoop
  <2>7. MonitorInv'
    BY <1>3, <1>5, Zenon DEF MonitorInv
  <2> QED
    BY <2>5, <2>6, <2>7 DEF Continues
<1>6. CASE UNCHANGED <<handler, fd, state, mon, sock, file, timer, closing, vm_running, wanted>>
  <2>1. UNCHANGED buffered
    BY <1>6 DEF buffered
  <2>2. MonitorInv'
    BY <1>1, <1>3, <1>6 DEF MonitorInv
  <2> QED
    BY <1>6, <2>1, <2>2 DEF FileInv, ControlInv, RunsRight, MainLoop
<1> QED
  BY <1>4, <1>5, <1>6, Zenon DEF do_migrate

(* A handler that leaves an open file, in a migration that goes on         *)
LEMMA ContinuesStep ==
    ASSUME MigrationInv, Continues({closing} \cup Ended), RunsRight', fd,
           UNCHANGED <<state, fd, mon, suspended>>, timer' \in BOOLEAN
    PROVE  MigrationInv'
<1> USE DEF MigrationInv
<1>1. handler' \in {"none", "notify"} /\ FileInv' /\ file'.open
  BY DEF Continues, FileInv
<1>2. closing' \in {"no"} \cup Ended
  BY DEF Continues, ControlInv
<1>3. ControlInv'
  BY <1>1, <1>2 DEF ControlInv, Continues, MainLoop
<1>4. MonitorInv'
  BY DEF MonitorInv
<1> QED
  BY <1>1, <1>3, <1>4

(* migrate_fd_cleanup before there is a file                               *)
LEMMA NoFileStep ==
    ASSUME MigrationInv, NEW s \in Ended, CleanupNoFile(s), ~file.open
    PROVE  MigrationInv'
<1> USE DEF MigrationInv
<1>1. file = NoFile /\ closing = "no" /\ ~timer
  BY DEF FileInv, ControlInv
<1>2. /\ handler' = "none" /\ fd' = FALSE /\ state' = s /\ mon' = FALSE
      /\ suspended' = IF mon THEN suspended - 1 ELSE suspended
      /\ UNCHANGED <<file, timer, closing, sock, vm_running, wanted>>
  BY DEF CleanupNoFile, MonitorResume
<1>3. FileInv'
  BY <1>1, <1>2, NoFileType DEF FileInv
<1>4. buffered'.file = NoFile
  BY <1>1, <1>2 DEF buffered
<1>5. ControlInv'
  BY <1>1, <1>2, <1>4, NoFileType, Zenon DEF ControlInv, Thaws, Ended
<1>6. MonitorInv'
  BY <1>2 DEF MonitorInv
<1> QED
  BY <1>2, <1>3, <1>5, <1>6 DEF RunsRight

(* The connection is made or refused.                                      *)
LEMMA ConnectStep ==
    ASSUME MigrationInv, tcp_wait_for_connect
    PROVE  MigrationInv'
<1> USE DEF MigrationInv
<1>1. ~file.open /\ sock.sent = <<>> /\ fd
  BY DEF tcp_wait_for_connect, ControlInv
<1>2. CASE CleanupNoFile("error")
  BY <1>1, <1>2, NoFileStep DEF Ended
<1>3. CASE /\ timer' = TRUE
           /\ \E limit \in Limits :
                 migrate_fd_connect([buffered EXCEPT !.handler = "none"], limit)
           /\ UNCHANGED <<state, fd, mon, suspended, wanted>>
  <2> DEFINE b == [buffered EXCEPT !.handler = "none"]
  <2>1. PICK limit \in Limits : migrate_fd_connect(b, limit)
    BY <1>3
  <2>2. buffered \in Buffereds /\ buffered.sock = sock
    BY BufferedFields
  <2>3. b \in Buffereds /\ b.sock = sock /\ b.handler = "none"
    BY <2>2 DEF Buffereds
  <2> HIDE DEF b
  <2>4. Continues({closing} \cup Ended) /\ RunsRight'
    <3>1. closing = "no" /\ UNCHANGED wanted /\ b.sock.sent = <<>> /\ b.handler # "connect"
      BY <1>1, <1>3, <2>3 DEF tcp_wait_for_connect, MainLoop
    <3> QED
      BY <2>1, <2>3, <3>1, ConnectContinues, Zenon
  <2>5. timer' \in BOOLEAN
    BY <1>3
  <2> QED
    BY <1>1, <1>3, <2>4, <2>5, ContinuesStep
<1> QED
  BY <1>2, <1>3, Zenon DEF tcp_wait_for_connect

(* There is room again: the buffer is flushed and nothing is put.          *)
LEMMA NotifyStep ==
    ASSUME MigrationInv, migrate_fd_put_notify
    PROVE  MigrationInv'
<1> USE DEF MigrationInv
<1> DEFINE a == [buffered EXCEPT !.handler = "none"]
           c == buffered_put_buffer(a, <<>>)
<1>1. file.open /\ fd /\ closing = "no" /\ StreamInv(buffered)
  BY DEF migrate_fd_put_notify, ControlInv, FileInv, MainLoop
<1>2. /\ file' = c.file /\ sock' = c.sock /\ handler' = c.handler
      /\ UNCHANGED <<state, fd, timer, closing, mon, suspended, vm_running, wanted>>
  BY DEF migrate_fd_put_notify
<1>3. buffered \in Buffereds /\ buffered.sock = sock /\ buffered.file = file
  BY BufferedFields
<1>4. /\ a \in Buffereds /\ a.sock = buffered.sock /\ a.file = buffered.file
      /\ a.handler = "none"
  BY <1>3 DEF Buffereds
<1> HIDE DEF a
<1>5. StreamInv(a)
  BY <1>1, <1>4, Zenon DEF StreamInv, PutInv, Short
<1>6. c \in Buffereds /\ StreamInv(c) /\ Thaws(c) /\ SameFile(a, c)
  BY <1>4, <1>5, FlushStream
<1> HIDE DEF c
<1>7. c.file.open /\ c.handler \in {"none", "notify"}
  BY <1>1, <1>3, <1>4, <1>6 DEF SameFile
<1>8. FileInv' /\ file'.open /\ Thaws(buffered)'
  BY <1>2, <1>6, <1>7, BecomesBuffered
<1>9. Continues({closing} \cup Ended) /\ RunsRight'
  BY <1>1, <1>2, <1>7, <1>8 DEF Continues, RunsRight
<1>10. timer' \in BOOLEAN
  BY <1>2 DEF ControlInv
<1> QED
  BY <1>1, <1>2, <1>9, <1>10, ContinuesStep

(* The timer: a new period, with what the limit held back                  *)
LEMMA TickStep ==
    ASSUME MigrationInv, buffered_rate_tick
    PROVE  MigrationInv'
<1> USE DEF MigrationInv
<1>1. /\ file.open /\ fd /\ closing = "no" /\ StreamInv(buffered)
      /\ UNCHANGED <<state, fd, mon, suspended, wanted>>
  BY DEF buffered_rate_tick, ControlInv, FileInv, MainLoop
<1>2. CASE timer' = FALSE /\ UNCHANGED <<file, sock, handler, closing, vm_running>>
  <2>1. UNCHANGED buffered
    BY <1>2 DEF buffered
  <2>2. timer' \in BOOLEAN
    BY <1>2, Zenon
  <2> QED
    BY <1>1, <1>2, <2>1, <2>2 DEF FileInv, ControlInv, MonitorInv, RunsRight, MainLoop
<1>3. CASE /\ UNCHANGED timer
           /\ \E b \in {buffered_flush([buffered EXCEPT !.file.bytes_xfer = 0])} :
                 migrate_fd_put_ready(b)
  <2> DEFINE g == [file EXCEPT !.bytes_xfer = 0]
             a == [buffered EXCEPT !.file = g]
             c == buffered_flush(a)
  <2>1. /\ buffered \in Buffereds /\ buffered.sock = sock /\ buffered.file = file
        /\ buffered.handler = handler
    BY BufferedFields
  <2>2. migrate_fd_put_ready(c)
    <3>1. [buffered EXCEPT !.file.bytes_xfer = 0] = a
      BY <2>1
    <3> QED
      BY <1>3, <3>1
  <2>3. /\ g \in FileType /\ g.buffer = file.buffer /\ g.has_error = file.has_error
        /\ g.freeze_output = file.freeze_output /\ g.open = file.open
        /\ g.f_buf = file.f_buf /\ g.written = file.written /\ g.f_error = file.f_error
    BY ZenonT(30) DEF FileInv, FileType
  <2>g. g \in FileType
    BY <2>3
  <2> HIDE DEF g
  <2>4. a \in Buffereds /\ a.file = g /\ a.sock = sock /\ a.handler = handler
    <3>1. a \in Buffereds /\ a.file = g /\ a.sock = buffered.sock /\ a.handler = buffered.handler
      BY <2>1, <2>g, WithFile, Zenon
    <3> QED
      BY <2>1, <3>1
  <2> HIDE DEF a
  <2>5. Thaws(buffered)
    BY <1>1 DEF ControlInv, MainLoop
  <2>6. StreamInv(a) /\ Thaws(a)
    BY <1>1, <2>1, <2>3, <2>4, <2>5, ZenonT(30) DEF StreamInv, PutInv, Short, Thaws
  <2>7. c \in Buffereds /\ StreamInv(c) /\ Thaws(c) /\ SameFile(a, c)
    BY <2>4, <2>6, FlushStream
  <2> HIDE DEF c
  <2>8. c.file.open /\ c.handler # "connect"
    BY <1>1, <2>3, <2>4, <2>7 DEF SameFile, ControlInv
  <2>9. Continues({closing} \cup Ended) /\ RunsRight'
    BY <1>1, <2>2, <2>7, <2>8, PutReadyContinues, Zenon
  <2>10. timer' \in BOOLEAN
    BY <1>3 DEF ControlInv
  <2> QED
    BY <1>1, <2>9, <2>10, ContinuesStep
<1> QED
  BY <1>2, <1>3, Zenon DEF buffered_rate_tick

(* A round of the loop of buffered_close, or its end                       *)
LEMMA CloseStep ==
    ASSUME MigrationInv, buffered_close
    PROVE  MigrationInv'
<1> USE DEF MigrationInv
<1>1. /\ file.open /\ fd /\ closing \in Ended /\ StreamInv(buffered)
      /\ file.f_buf = <<>> /\ UNCHANGED vm_running
  BY DEF buffered_close, ControlInv, FileInv
<1>2. CASE migrate_fd_close
  <2>1. /\ handler' = "none" /\ fd' = FALSE /\ timer' = FALSE /\ file' = NoFile
        /\ state' = closing /\ closing' = "no" /\ mon' = FALSE /\ UNCHANGED sock
        /\ suspended' = IF mon THEN suspended - 1 ELSE suspended
        /\ wanted' = (wanted /\ closing # "completed")
    BY <1>2 DEF migrate_fd_close, MonitorResume
  <2>2. FileInv'
    BY <2>1, NoFileType DEF FileInv
  <2>3. buffered'.file = NoFile
    BY <2>1 DEF buffered
  <2>4. ControlInv'
    BY <1>1, <2>1, <2>3, NoFileType, Zenon DEF ControlInv, Thaws, Ended
  <2>5. MonitorInv'
    BY <2>1 DEF MonitorInv
  <2>6. RunsRight'
    BY <1>1, <2>1, Zenon DEF RunsRight
  <2> QED
    BY <2>2, <2>4, <2>5, <2>6
<1>3. CASE LET b == buffered_flush(buffered)
           IN  /\ file' = b.file /\ sock' = b.sock /\ handler' = b.handler
               /\ UNCHANGED <<state, fd, timer, closing, mon, suspended, wanted>>
  <2> DEFINE c == buffered_flush(buffered)
  <2>1. /\ buffered \in Buffereds /\ buffered.sock = sock /\ buffered.file = file
        /\ buffered.handler = handler
    BY BufferedFields
  <2>2. handler # "connect"
    BY <1>1 DEF ControlInv
  <2>3. /\ c \in Buffereds /\ StreamInv(c) /\ SameFile(buffered, c)
        /\ (buffered.file.f_error => c.file.f_error)
    BY <1>1, <2>1, FlushStream
  <2>5. /\ file' = c.file /\ sock' = c.sock /\ handler' = c.handler
        /\ UNCHANGED <<state, fd, timer, closing, mon, suspended, wanted>>
    BY <1>3
  <2> HIDE DEF c
  <2>4. c.file.open /\ c.file.f_buf = <<>> /\ c.handler # "connect"
    BY <1>1, <2>1, <2>2, <2>3 DEF SameFile
  <2>6. FileInv' /\ file'.open
    BY <2>3, <2>4, <2>5, BecomesBuffered
  <2>9. closing = "error" => c.file.f_error
    BY <2>1, <2>3 DEF ControlInv
  <2>7. Continues({closing} \cup Ended) /\ RunsRight'
    BY <1>1, <2>4, <2>5, <2>6, <2>9 DEF Continues, RunsRight, Ended
  <2>8. timer' \in BOOLEAN
    BY <2>5 DEF ControlInv
  <2> QED
    BY <1>1, <2>5, <2>7, <2>8, ContinuesStep
<1> QED
  BY <1>2, <1>3 DEF buffered_close

(* migrate_cancel, with a file or before there is one                      *)
LEMMA CancelStep ==
    ASSUME MigrationInv, migrate_fd_cancel
    PROVE  MigrationInv'
<1> USE DEF MigrationInv
<1>1. "cancelled" \in Ended /\ fd
  BY DEF Ended, migrate_fd_cancel, ControlInv
<1>2. CASE ~file.open /\ CleanupNoFile("cancelled")
  BY <1>1, <1>2, NoFileStep
<1>3. CASE /\ file.open
           /\ migrate_fd_cleanup(buffered, "cancelled")
           /\ UNCHANGED <<state, fd, timer, mon, suspended, vm_running, wanted>>
  <2>1. /\ buffered \in Buffereds /\ buffered.sock = sock /\ buffered.file = file
        /\ buffered.handler = handler
    BY BufferedFields
  <2>2. StreamInv(buffered) /\ handler # "connect" /\ closing = "no"
    BY <1>3 DEF FileInv, ControlInv, migrate_fd_cancel, MainLoop
  <2>3. Continues({"cancelled"})
    BY <1>1, <1>3, <2>1, <2>2, CleanupContinues
  <2>4. closing' = "cancelled"
    BY <2>3 DEF Continues
  <2>5. Continues({closing} \cup Ended) /\ RunsRight'
    BY <1>1, <1>3, <2>2, <2>3, <2>4 DEF Continues, RunsRight
  <2>6. timer' \in BOOLEAN
    BY <1>3 DEF ControlInv
  <2> QED
    BY <1>1, <1>3, <2>5, <2>6, ContinuesStep, SMTT(20)
<1> QED
  BY <1>2, <1>3 DEF migrate_fd_cancel

(* The monitor's other commands, and the peer                              *)
LEMMA OtherStep ==
    ASSUME MigrationInv,
           \/ \E limit \in Limits : do_migrate_set_speed(limit)
           \/ \E run \in BOOLEAN : StopOrCont(run)
           \/ PeerReads \/ PeerGoes \/ UNCHANGED vars
    PROVE  MigrationInv'
<1> USE DEF MigrationInv
<1>1. ASSUME NEW limit \in Limits, do_migrate_set_speed(limit) PROVE MigrationInv'
  <2>1. /\ file.open /\ file' = [file EXCEPT !.xfer_limit = limit]
        /\ UNCHANGED <<state, fd, handler, timer, closing, mon, suspended, vm_running,
                       wanted, sock>>
    BY <1>1 DEF do_migrate_set_speed
  <2>2. limit \in Nat
    BY MigrationAssumption
  <2>3. /\ file' \in FileType /\ file'.buffer = file.buffer /\ file'.has_error = file.has_error
        /\ file'.freeze_output = file.freeze_output /\ file'.open = file.open
        /\ file'.f_buf = file.f_buf /\ file'.written = file.written
        /\ file'.f_error = file.f_error
    BY <2>1, <2>2, Zenon DEF FileInv, FileType
  <2>4. /\ buffered.file = file /\ buffered.sock = sock /\ buffered.handler = handler
        /\ buffered'.file = file' /\ buffered'.sock = sock /\ buffered'.handler = handler
    BY <2>1 DEF buffered
  <2>5. FileInv'
    BY <2>1, <2>3, <2>4, ZenonT(30) DEF FileInv, StreamInv, PutInv, Short
  <2>6. ControlInv'
    BY <2>1, <2>3, <2>4 DEF ControlInv, Thaws, MainLoop
  <2> QED
    BY <2>1, <2>5, <2>6 DEF MonitorInv, RunsRight
<1>2. CASE (\E run \in BOOLEAN : StopOrCont(run)) \/ UNCHANGED vars
  <2>1. UNCHANGED <<state, fd, handler, file, timer, closing, mon, suspended, sock>>
    BY <1>2 DEF StopOrCont, vars
  <2>2. UNCHANGED buffered
    BY <2>1 DEF buffered
  <2>3. RunsRight'
    <3>1. CASE \E run \in BOOLEAN : StopOrCont(run)
      <4>1. PICK run \in BOOLEAN : StopOrCont(run)
        BY <3>1
      <4>2. vm_running' = run /\ wanted' = run /\ closing' # "completed"
        BY <2>1, <4>1 DEF StopOrCont, MainLoop
      <4>3. CASE run = TRUE
        BY <4>2, <4>3, Zenon DEF RunsRight
      <4>4. CASE run = FALSE
        BY <4>2, <4>4, Zenon DEF RunsRight
      <4> QED
        BY <4>3, <4>4, Zenon
    <3>2. CASE UNCHANGED vars
      BY <3>2 DEF RunsRight, vars
    <3> QED
      BY <1>2, <3>1, <3>2
  <2> QED
    BY <2>1, <2>2, <2>3 DEF FileInv, ControlInv, MonitorInv, MainLoop
<1>3. CASE PeerReads \/ PeerGoes
  <2>1. UNCHANGED <<state, fd, handler, file, timer, closing, mon, suspended, vm_running, wanted>>
    BY <1>3 DEF PeerReads, PeerGoes
  <2>2. /\ sock' \in SockType /\ sock'.sent = sock.sent
        /\ sock.gone => sock'.gone
    <3>1. CASE PeerReads
      BY <3>1, MigrationAssumption DEF PeerReads, FileInv, SockType
    <3>2. CASE PeerGoes
      BY <3>2, Zenon DEF PeerGoes, FileInv, SockType
    <3> QED
      BY <1>3, <3>1, <3>2
  <2>3. /\ buffered.file = file /\ buffered.sock = sock /\ buffered.handler = handler
        /\ buffered'.file = file /\ buffered'.sock = sock' /\ buffered'.handler = handler
    BY <2>1 DEF buffered
  <2>4. FileInv'
    BY <2>1, <2>2, <2>3, Zenon DEF FileInv, StreamInv, PutInv, Short
  <2>5. ControlInv'
    BY <2>1, <2>2, <2>3 DEF ControlInv, Thaws, MainLoop
  <2> QED
    BY <2>1, <2>4, <2>5 DEF MonitorInv, RunsRight
<1> QED
  BY <1>1, <1>2, <1>3

(* The invariant is preserved by every step.                               *)
LEMMA MigrationNext ==
    ASSUME MigrationInv, [Next]_vars
    PROVE  MigrationInv'
BY MigrateStep, ConnectStep, NotifyStep, TickStep, CloseStep, CancelStep, OtherStep, Zenon
DEF Next

(* The stream, the handlers and the file of a migration belong together,   *)
(* in whatever order the timer, the socket and the monitor come.           *)
THEOREM MigrationInvariant == Spec => []MigrationInv
<1>1. Init => MigrationInv
  BY MigrationInit
<1>2. MigrationInv /\ [Next]_vars => MigrationInv'
  BY MigrationNext
<1> QED
  BY <1>1, <1>2, PTL DEF Spec

(* What reaches the socket is the stream from its first byte on, and       *)
(* without an error the rest of it is in the buffer, for any sizes.        *)
THEOREM MigrationStreamInOrder == Spec => []StreamInOrder
<1>1. ASSUME MigrationInv PROVE StreamInOrder
  <2> USE <1>1 DEF MigrationInv
  <2> DEFINE s == sock.sent
             t == file.buffer
             u == file.f_buf
             w == file.written
             n == Total(buffered)
  <2>1. /\ s \in Seq(Nat) /\ t \in Seq(Nat) /\ u \in Seq(Nat) /\ w \in Nat
        /\ Follows(s, 0)
    BY DEF FileInv, FileType, SockType
  <2>2. n = w + Len(u)
    BY DEF Total, buffered
  <2>3. ASSUME file.open, ~file.has_error
        PROVE  Follows(t, Len(s)) /\ Len(s) + Len(t) = w /\ Follows(u, w)
    <3>1. buffered.file = file /\ buffered.sock = sock
      BY DEF buffered
    <3> QED
      BY <2>3, <3>1, Zenon DEF FileInv, StreamInv, PutInv
  <2> HIDE DEF s, t, u, w, n
  <2>4. \A i \in DOMAIN s : s[i] = i
    <3>1. DOMAIN s = 1 .. Len(s) /\ \A i \in 1 .. Len(s) : s[i] = 0 + i
      BY <2>1 DEF Follows
    <3> QED
      BY <3>1
  <2>5. ASSUME file.open, ~file.has_error
        PROVE  s \o t \o u = [i \in 1 .. n |-> i]
    <3> DEFINE v == s \o t
    <3>1. v \in Seq(Nat) /\ Len(v) = w /\ Follows(v, 0)
      <4>1. 0 + Len(s) = Len(s)
        BY <2>1
      <4>2. v \in Seq(Nat) /\ Len(v) = Len(s) + Len(t) /\ Follows(v, 0)
        BY <2>1, <2>3, <2>5, <4>1, FollowsConcat
      <4> QED
        BY <2>3, <2>5, <4>2
    <3> HIDE DEF v
    <3> DEFINE x == v \o u
    <3>2. x \in Seq(Nat) /\ Len(x) = n /\ Follows(x, 0)
      <4>1. 0 + Len(v) = w
        BY <2>1, <3>1
      <4>2. x \in Seq(Nat) /\ Len(x) = Len(v) + Len(u) /\ Follows(x, 0)
        BY <2>1, <2>3, <2>5, <3>1, <4>1, FollowsConcat, Zenon
      <4> QED
        BY <2>2, <3>1, <4>2
    <3> HIDE DEF x
    <3>3. x \in Seq(Nat) /\ Len(x) = n /\ \A i \in 1 .. n : x[i] = i
      BY <3>2 DEF Follows
    <3>4. x = [i \in 1 .. n |-> i]
      BY <3>3
    <3> QED
      BY <3>4 DEF x, v
  <2> QED
    BY <2>1, <2>4, <2>5, Zenon DEF StreamInOrder, s, t, u, n
<1> QED
  BY <1>1, MigrationInvariant, PTL

(* No handler is left on a closed socket nor a timer on a freed file, and  *)
(* frozen output has the handler that thaws it.                            *)
THEOREM MigrationHandlersRight == Spec => []HandlersRight
<1>1. ASSUME MigrationInv PROVE HandlersRight
  <2>1. buffered.file = file /\ buffered.handler = handler
    BY DEF buffered
  <2> QED
    BY <1>1, <2>1 DEF MigrationInv, ControlInv, Thaws, HandlersRight
<1> QED
  BY <1>1, MigrationInvariant, PTL

(* The machine runs here exactly when the user wants it to, on every path  *)
(* of an error, of a cancel and of the last stage, and when it runs on     *)
(* after an error the peer has not got the whole stream.                   *)
THEOREM MigrationVmKept == Spec => []VmKept
<1>1. ASSUME MigrationInv PROVE VmKept
  <2> USE <1>1 DEF MigrationInv
  <2>1. ASSUME closing = "error" PROVE Len(sock.sent) < Total(buffered)
    <3>1. file.open /\ file.f_error /\ StreamInv(buffered)
      BY <2>1 DEF ControlInv, FileInv
    <3>2. /\ buffered \in Buffereds /\ buffered.file = file /\ buffered.sock = sock
      BY BufferedFields
    <3>3. Len(sock.sent) < file.written
      BY <3>1, <3>2 DEF StreamInv, Short
    <3>4. /\ file.written \in Nat /\ Len(file.f_buf) \in Nat
          /\ Total(buffered) = file.written + Len(file.f_buf)
      BY <3>2, FileNumbers
    <3>5. Len(sock.sent) \in Nat
      <4>1. sock.sent \in Seq(Nat)
        BY DEF FileInv, SockType
      <4> QED
        BY <4>1
    <3> QED
      BY <3>3, <3>4, <3>5
  <2> QED
    BY <2>1 DEF VmKept, RunsRight
<1> QED
  BY <1>1, MigrationInvariant, PTL

(* A completed migration has sent all of its stream or lost its peer, and  *)
(* the monitor is resumed only when the buffer has been flushed.           *)
THEOREM MigrationFlushedAtEnd == Spec => FlushedAtEnd
<1> DEFINE Flushed ==
             /\ closing = "completed" /\ closing' = "no" =>
                   Len(sock.sent) = Total(buffered) \/ sock.gone
             /\ suspended' < suspended => file.buffer = <<>> \/ file.has_error
<1>1. ASSUME MigrationInv, Next PROVE Flushed
  <2> USE <1>1 DEF MigrationInv
  <2>1. suspended \in Nat /\ ~(suspended < suspended)
    BY DEF MonitorInv
  <2>2. ASSUME UNCHANGED <<closing, suspended>> PROVE Flushed
    BY <2>1, <2>2
  <2>3. ASSUME UNCHANGED suspended, MainLoop PROVE Flushed
    BY <2>1, <2>3 DEF MainLoop
  <2>4. ASSUME NEW detach \in BOOLEAN, do_migrate(detach) PROVE Flushed
    BY <2>4 DEF do_migrate, MainLoop
  <2>5. ASSUME NEW s, CleanupNoFile(s), ~file.open PROVE Flushed
    <3>1. UNCHANGED closing /\ file.buffer = <<>>
      BY <2>5, NoFileType DEF CleanupNoFile, FileInv
    <3> QED
      BY <3>1
  <2>6. CASE tcp_wait_for_connect
    <3>1. ~file.open /\ MainLoop
      BY <2>6 DEF tcp_wait_for_connect, ControlInv
    <3> QED
      BY <2>3, <2>5, <2>6, <3>1 DEF tcp_wait_for_connect
  <2>7. CASE migrate_fd_cancel
    BY <2>3, <2>5, <2>7 DEF migrate_fd_cancel
  <2>8. CASE buffered_close
    <3>1. CASE file.has_error \/ file.buffer = <<>>
      <4>1. file.open /\ PutInv(buffered, file.written) /\ file.f_buf = <<>>
        BY <2>8 DEF buffered_close, ControlInv, FileInv, StreamInv, buffered
      <4>2. buffered.file = file /\ buffered.sock = sock
        BY DEF buffered
      <4>3. sock.sent \in Seq(Nat)
        BY DEF FileInv, SockType
      <4>4. Len(sock.sent) \in Nat /\ Len(<<>>) = 0
        BY <4>3
      <4>5. file.has_error => sock.gone
        BY <4>1, <4>2 DEF PutInv
      <4>6. ~file.has_error => Len(sock.sent) + Len(<<>>) = file.written
        BY <3>1, <4>1, <4>2, Zenon DEF PutInv
      <4>7. ~file.has_error => Len(sock.sent) = file.written
        BY <4>4, <4>6
      <4>8. Total(buffered) = file.written
        BY <4>1, <4>2 DEF Total, FileInv, FileType
      <4> QED
        BY <3>1, <4>5, <4>7, <4>8, SMTT(20)
    <3>2. CASE ~(file.has_error \/ file.buffer = <<>>)
      BY <2>2, <2>8, <3>2 DEF buffered_close
    <3> QED
      BY <3>1, <3>2
  <2>9. CASE \/ migrate_fd_put_notify \/ buffered_rate_tick
             \/ \E run \in BOOLEAN : StopOrCont(run)
    BY <2>3, <2>9 DEF migrate_fd_put_notify, buffered_rate_tick, StopOrCont
  <2>10. CASE (\E limit \in Limits : do_migrate_set_speed(limit)) \/ PeerReads \/ PeerGoes
    BY <2>2, <2>10 DEF do_migrate_set_speed, PeerReads, PeerGoes
  <2> QED
    BY <2>4, <2>6, <2>7, <2>8, <2>9, <2>10, SMTT(20) DEF Next
<1>2. MigrationInv /\ [Next]_vars => [Flushed]_vars
  BY <1>1
<1> QED
  BY <1>2, MigrationInvariant, PTL DEF Spec, FlushedAtEnd

-----------------------------------------------------------------------------
(* How much is put: what is in the socket and in the buffer is of the      *)
(* stream, the socket's room and the limit are possible ones.              *)
Bounded(b) ==
    /\ b.file.buffer \in Seq(Bytes) /\ b.sock.sent \in Seq(Bytes)
    /\ b.sock.room <= SockRoom /\ b.file.xfer_limit \in Limits \cup {0}

(* The same, and what is in the QEMUFile                                   *)
StreamBounded(b) == Bounded(b) /\ b.file.f_buf \in Seq(Bytes)

(* No handler of the main loop finds a file to which all was put, unless   *)
(* there was an error.                                                     *)
BoundInv ==
    /\ StreamBounded(buffered)
    /\ Total(buffered) <= MaxBytes + 3 * Block
    /\ file.open /\ MainLoop /\ ~file.has_error => Total(buffered) < MaxBytes

(* Bytes are numbers.                                                      *)
LEMMA BytesNat ==
    ASSUME NEW s \in Seq(Bytes)
    PROVE  s \in Seq(Nat) /\ Len(s) \in Nat
<1>1. Bytes \subseteq Nat
  BY MigrationAssumption DEF Bytes
<1>2. Len(s) \in Nat /\ s \in [1 .. Len(s) -> Bytes]
  OBVIOUS
<1>3. s \in [1 .. Len(s) -> Nat]
  BY <1>1, <1>2, Zenon
<1> QED
  BY <1>2, <1>3

(* What the socket takes, and what it leaves                               *)
LEMMA SentBounded ==
    ASSUME NEW b \in Buffereds, NEW data \in Seq(Bytes), Bounded(b)
    PROVE  /\ Sent(b, data).file = b.file /\ Sent(b, data).handler = b.handler
           /\ Sent(b, data) = [b EXCEPT !.sock = Sent(b, data).sock]
           /\ Sent(b, data).sock \in SockType
           /\ Bounded(Sent(b, data)) /\ Rest(b, data) \in Seq(Bytes)
<1> DEFINE k == Sendable(b, data)
           t == b.sock.sent \o SubSeq(data, 1, k)
           r == b.sock.room - k
           c == [b.sock EXCEPT !.sent = t, !.room = r]
<1>1. data \in Seq(Nat) /\ Len(data) \in Nat
  BY BytesNat
<1>2. k \in 0 .. Len(data) /\ r \in Nat
  BY <1>1, SendableBounds
<1>3. b.sock \in SockType /\ b.sock.sent \in Seq(Bytes) /\ b.sock.room \in Nat
  BY DEF Bounded, Buffereds, SockType
<1>4. Sent(b, data) = [b EXCEPT !.sock = c]
  BY Zenon DEF Sent, Buffereds, SockType
<1>5. Rest(b, data) = SubSeq(data, k + 1, Len(data))
  BY DEF Rest
<1> HIDE DEF k
<1>6. r <= SockRoom
  BY <1>2, <1>3, MigrationAssumption DEF Bounded
<1>7. SubSeq(data, 1, k) \in Seq(Bytes) /\ SubSeq(data, k + 1, Len(data)) \in Seq(Bytes)
  <2>1. SubSeq(data, 1, k) \in Seq(Bytes)
    BY <1>1, <1>2, SubSeqProperties
  <2> QED
    BY <1>1, <1>2, <2>1, SubSeqProperties
<1>8. t \in Seq(Bytes)
  BY <1>3, <1>7
<1> HIDE DEF t, r
<1>9. t \in Seq(Nat)
  BY <1>8, BytesNat
<1>10. c \in SockType /\ c.sent = t /\ c.room = r
  BY <1>2, <1>3, <1>9, Zenon DEF SockType
<1> HIDE DEF c
<1>11. /\ Sent(b, data).sock = c /\ Sent(b, data).file = b.file
       /\ Sent(b, data).handler = b.handler
  BY <1>4 DEF Buffereds
<1> QED
  BY <1>4, <1>5, <1>6, <1>7, <1>8, <1>10, <1>11, Zenon DEF Bounded

(* A change of the file that leaves its bytes                              *)
LEMMA FrozenBounded ==
    ASSUME NEW c \in Buffereds, Bounded(c)
    PROVE  Bounded(Frozen(c))
<1>1. /\ Frozen(c).sock = c.sock /\ Frozen(c).file.buffer = c.file.buffer
      /\ Frozen(c).file.xfer_limit = c.file.xfer_limit
  BY Zenon DEF Frozen, Buffereds, FileType
<1> QED
  BY <1>1, Zenon DEF Bounded

(* buffered_flush                                                          *)
LEMMA FlushBounded ==
    ASSUME NEW b \in Buffereds, Bounded(b)
    PROVE  Bounded(buffered_flush(b))
<1> DEFINE f == buffered_flush(b)
<1>0. b.file \in FileType
  BY DEF Buffereds
<1>1. CASE b.file.has_error \/ b.file.buffer = <<>>
  <2>1. f = b
    BY <1>1 DEF buffered_flush
  <2> QED
    BY <2>1
<1>2. CASE ~(b.file.has_error \/ b.file.buffer = <<>>) /\ b.sock.gone
  <2> DEFINE g == [b.file EXCEPT !.has_error = TRUE]
  <2>1. f = [b EXCEPT !.file = g]
    BY <1>2 DEF buffered_flush
  <2>2. g \in FileType /\ g.buffer = b.file.buffer /\ g.xfer_limit = b.file.xfer_limit
    BY <1>0, Zenon DEF FileType
  <2> HIDE DEF g
  <2>3. f.file = g /\ f.sock = b.sock
    BY <2>1, <2>2, WithFile, ZenonT(30)
  <2> QED
    BY <2>2, <2>3, Zenon DEF Bounded
<1>3. CASE ~(b.file.has_error \/ b.file.buffer = <<>>) /\ ~b.sock.gone
  <2> DEFINE data == b.file.buffer
             rest == Rest(b, data)
             s == Sent(b, data)
             g == [s.file EXCEPT !.buffer = rest]
             c == [s EXCEPT !.file.buffer = rest]
  <2>1. f = IF rest = <<>> THEN c ELSE Frozen(c)
    BY <1>3 DEF buffered_flush
  <2>2. data \in Seq(Bytes)
    BY DEF Bounded
  <2>3. /\ s.file = b.file /\ s.handler = b.handler /\ s = [b EXCEPT !.sock = s.sock]
        /\ s.sock \in SockType /\ Bounded(s) /\ rest \in Seq(Bytes)
    BY <2>2, SentBounded
  <2> HIDE DEF s, rest
  <2>4. s \in Buffereds
    BY <2>3 DEF Buffereds
  <2>5. rest \in Seq(Nat)
    BY <2>3, BytesNat
  <2>6. g \in FileType /\ g.buffer = rest /\ g.xfer_limit = b.file.xfer_limit
    BY <1>0, <2>3, <2>5, Zenon DEF FileType
  <2>7. c = [s EXCEPT !.file = g]
    OBVIOUS
  <2> HIDE DEF g
  <2>8. c \in Buffereds /\ c.file = g /\ c.sock = s.sock
    BY <2>4, <2>6, <2>7, WithFile, ZenonT(30)
  <2> HIDE DEF c
  <2>9. Bounded(c)
    BY <2>3, <2>6, <2>8, Zenon DEF Bounded
  <2>10. f \in {c, Frozen(c)}
    BY <2>1
  <2> QED
    BY <2>8, <2>9, <2>10, FrozenBounded
<1> QED
  BY <1>1, <1>2, <1>3

(* The loop of buffered_put_buffer                                         *)
LEMMA PutRestBounded ==
    ASSUME NEW b \in Buffereds, NEW data \in Seq(Bytes), Bounded(b)
    PROVE  Bounded(PutRest(b, data))
<1> DEFINE f == PutRest(b, data)
           keep == b.file.freeze_output \/ data = <<>> \/ b.file.bytes_xfer > b.file.xfer_limit
<1>0. /\ b.file \in FileType /\ b.file.buffer \in Seq(Bytes) /\ Bytes \subseteq Nat
      /\ b.file.bytes_xfer \in Nat
  BY MigrationAssumption DEF Buffereds, Bounded, Bytes, FileType
<1>1. CASE keep
  <2> DEFINE s == b.file.buffer \o data
             g == [b.file EXCEPT !.buffer = s]
  <2>1. f = [b EXCEPT !.file = g]
    BY <1>1 DEF PutRest
  <2>2. s \in Seq(Bytes)
    BY <1>0
  <2> HIDE DEF s
  <2>3. s \in Seq(Nat)
    BY <2>2, BytesNat
  <2>4. g \in FileType /\ g.buffer = s /\ g.xfer_limit = b.file.xfer_limit
    BY <1>0, <2>3, Zenon DEF FileType
  <2>g. g \in FileType
    BY <2>4
  <2> HIDE DEF g
  <2>5. f.file = g /\ f.sock = b.sock
    BY <2>1, <2>g, WithFile
  <2> QED
    BY <2>2, <2>4, <2>5, Zenon DEF Bounded
<1>2. CASE ~keep /\ b.sock.gone
  <2> DEFINE g == [b.file EXCEPT !.has_error = TRUE, !.f_error = TRUE]
  <2>1. f = [b EXCEPT !.file = g]
    BY <1>2, Zenon DEF PutRest
  <2>2. g \in FileType /\ g.buffer = b.file.buffer /\ g.xfer_limit = b.file.xfer_limit
    BY <1>0, Zenon DEF FileType
  <2> HIDE DEF g
  <2>3. f.file = g /\ f.sock = b.sock
    BY <2>1, <2>2, WithFile, ZenonT(30)
  <2> QED
    BY <2>2, <2>3, Zenon DEF Bounded
<1>3. CASE ~keep /\ ~b.sock.gone
  <2> DEFINE rest == Rest(b, data)
             s == Sent(b, data)
             k == Sendable(b, data)
             q == b.file.buffer \o rest
             j == b.file.bytes_xfer + k
             g == [b.file EXCEPT !.buffer = q, !.bytes_xfer = j]
             c == [s EXCEPT !.file.buffer = @ \o rest, !.file.bytes_xfer = @ + k]
  <2>1. f = IF rest = <<>> \/ c.file.bytes_xfer > c.file.xfer_limit THEN c ELSE Frozen(c)
    BY <1>3 DEF PutRest
  <2>2. data \in Seq(Nat)
    BY BytesNat
  <2>3. /\ s.file = b.file /\ s.handler = b.handler /\ s = [b EXCEPT !.sock = s.sock]
        /\ s.sock \in SockType /\ Bounded(s) /\ rest \in Seq(Bytes)
    BY SentBounded
  <2>4. k \in Nat
    BY <2>2, SendableBounds
  <2> HIDE DEF s, rest, k
  <2>5. s \in Buffereds
    BY <2>3 DEF Buffereds
  <2>6. q \in Seq(Bytes) /\ j \in Nat
    BY <1>0, <2>3, <2>4
  <2>8. c = [s EXCEPT !.file = g]
    BY <2>3, Zenon
  <2> HIDE DEF q, j
  <2>7. q \in Seq(Nat)
    BY <2>6, BytesNat
  <2>9. g \in FileType /\ g.buffer = q /\ g.xfer_limit = b.file.xfer_limit
    BY <1>0, <2>6, <2>7, Zenon DEF FileType
  <2>g. g \in FileType
    BY <2>9
  <2> HIDE DEF g, c
  <2>10. c \in Buffereds /\ c.file = g /\ c.sock = s.sock
    BY <2>5, <2>8, <2>g, WithFile, Zenon
  <2>11. Bounded(c)
    BY <2>3, <2>6, <2>9, <2>10, Zenon DEF Bounded
  <2>12. f \in {c, Frozen(c)}
    BY <2>1
  <2> QED
    BY <2>10, <2>11, <2>12, FrozenBounded
<1> QED
  BY <1>1, <1>2, <1>3

(* buffered_put_buffer                                                     *)
LEMMA PutBounded ==
    ASSUME NEW b \in Buffereds, NEW n \in Nat, PutInv(b, n),
           NEW data \in Seq(Bytes), Bounded(b)
    PROVE  Bounded(buffered_put_buffer(b, data))
<1>0. b.file \in FileType
  BY DEF Buffereds
<1>1. CASE b.file.has_error
  <2> DEFINE p == b.file.f_error \/ data # <<>>
             g == [b.file EXCEPT !.f_error = p]
             f == buffered_put_buffer(b, data)
  <2>1. f = [b EXCEPT !.file = g]
    BY <1>1 DEF buffered_put_buffer
  <2>2. p \in BOOLEAN
    BY Zenon
  <2> HIDE DEF p
  <2>3. g \in FileType /\ g.buffer = b.file.buffer /\ g.xfer_limit = b.file.xfer_limit
    BY <1>0, <2>2, Zenon DEF FileType
  <2> HIDE DEF g
  <2>4. f.file = g /\ f.sock = b.sock
    BY <2>1, <2>3, WithFile, ZenonT(30)
  <2> QED
    BY <2>3, <2>4, Zenon DEF Bounded
<1>2. CASE ~b.file.has_error
  <2> DEFINE g == [b.file EXCEPT !.freeze_output = FALSE]
             a == [b EXCEPT !.file = g]
             c == buffered_flush(a)
  <2>1. buffered_put_buffer(b, data) = PutRest(c, data)
    BY <1>2 DEF buffered_put_buffer
  <2>2. /\ g \in FileType /\ g.buffer = b.file.buffer /\ g.has_error = b.file.has_error
        /\ g.xfer_limit = b.file.xfer_limit
    BY <1>0, Zenon DEF FileType
  <2> HIDE DEF g
  <2>3. a \in Buffereds /\ a.file = g /\ a.sock = b.sock /\ a.handler = b.handler
    BY <2>2, WithFile, Zenon
  <2> HIDE DEF a
  <2>4. PutInv(a, n) /\ Bounded(a)
    BY <2>2, <2>3, Zenon DEF PutInv, Bounded
  <2>5. c \in Buffereds /\ Bounded(c)
    BY <2>3, <2>4, FlushPut, FlushBounded
  <2> HIDE DEF c
  <2> QED
    BY <2>1, <2>5, PutRestBounded
<1> QED
  BY <1>1, <1>2

(* The next bytes of the stream                                            *)
LEMMA FilledBounded ==
    ASSUME NEW b \in Buffereds, NEW n \in Nat, Follows(b.file.f_buf, b.file.written),
           StreamBounded(b), Total(b) + n <= MaxBytes + 3 * Block
    PROVE  StreamBounded(Filled(b, n))
<1> DEFINE w == Total(b)
           s == [i \in 1 .. n |-> w + i]
           t == b.file.f_buf \o s
           g == [b.file EXCEPT !.f_buf = t]
           c == Filled(b, n)
<1>1. b.file \in FileType /\ w \in Nat /\ b.file.f_buf \in Seq(Bytes)
  BY FileNumbers DEF StreamBounded
<1>2. c = [b EXCEPT !.file = g]
  BY DEF Filled
<1>b. w + n <= MaxBytes + 3 * Block
  OBVIOUS
<1> HIDE DEF w
<1>3. s \in Seq(Bytes)
  <2>1. MaxBytes \in Nat /\ Block \in Nat
    BY MigrationAssumption
  <2>2. \A i \in 1 .. n : w + i \in Bytes
    BY <1>1, <1>b, <2>1 DEF Bytes
  <2> QED
    BY <2>2
<1> HIDE DEF s
<1>4. t \in Seq(Bytes)
  BY <1>1, <1>3
<1> HIDE DEF t
<1>5. t \in Seq(Nat)
  BY <1>4, BytesNat
<1>6. g \in FileType /\ g.f_buf = t
  BY <1>1, <1>5, Zenon DEF FileType
<1>g. g \in FileType
  BY <1>6
<1> HIDE DEF g, c
<1>7. c.file = g
  BY <1>2, <1>g, WithFile, Zenon
<1>8. SameButBuf(b, c)
  BY FilledFollows DEF c
<1> QED
  BY <1>4, <1>6, <1>7, <1>8, Zenon DEF StreamBounded, Bounded, SameButBuf, c

(* qemu_fflush                                                             *)
LEMMA FflushBounded ==
    ASSUME NEW b \in Buffereds, PutInv(b, b.file.written),
           Follows(b.file.f_buf, b.file.written), StreamBounded(b)
    PROVE  StreamBounded(qemu_fflush(b))
<1> DEFINE w == Total(b)
           d == b.file.f_buf
           g == [b.file EXCEPT !.written = w]
           a == [b EXCEPT !.file = g]
           c == buffered_put_buffer(a, d)
           h == [c.file EXCEPT !.f_buf = <<>>]
           e == [c EXCEPT !.file = h]
           f == qemu_fflush(b)
<1>0. b.file \in FileType /\ w \in Nat /\ d \in Seq(Nat) /\ d \in Seq(Bytes)
      /\ b.file.written \in Nat
  BY FileNumbers DEF StreamBounded
<1>2. CASE d = <<>>
  <2>1. f = b
    BY <1>2 DEF qemu_fflush
  <2> QED
    BY <2>1
<1>3. CASE d # <<>>
  <2>1. f = e
    BY <1>3, Zenon DEF qemu_fflush
  <2> HIDE DEF w
  <2>2. /\ g \in FileType /\ g.buffer = b.file.buffer /\ g.has_error = b.file.has_error
        /\ g.xfer_limit = b.file.xfer_limit
    BY <1>0, Zenon DEF FileType
  <2>g. g \in FileType
    BY <2>2
  <2> HIDE DEF g, f
  <2>3. a \in Buffereds /\ a.file = g /\ a.sock = b.sock
    BY <2>g, WithFile, Zenon
  <2> HIDE DEF a
  <2>4. PutInv(a, b.file.written) /\ Bounded(a)
    BY <2>2, <2>3, Zenon DEF PutInv, Bounded, StreamBounded
  <2>5. Follows(d, b.file.written)
    OBVIOUS
  <2> HIDE DEF d
  <2>6. c \in Buffereds
    BY <1>0, <2>3, <2>4, <2>5, BufferedPut, Zenon
  <2>7. Bounded(c)
    BY <1>0, <2>3, <2>4, PutBounded, Zenon
  <2> HIDE DEF c
  <2>8. /\ h \in FileType /\ h.f_buf = <<>> /\ h.buffer = c.file.buffer
        /\ h.xfer_limit = c.file.xfer_limit
    <3> DEFINE q == <<>>
    <3>1. q \in Seq(Nat) /\ h = [c.file EXCEPT !.f_buf = q] /\ q = <<>>
      OBVIOUS
    <3>2. c.file \in FileType
      BY <2>6 DEF Buffereds
    <3> HIDE DEF q, h
    <3> QED
      BY <3>1, <3>2, Zenon DEF FileType
  <2>h. h \in FileType
    BY <2>8
  <2> HIDE DEF h
  <2>9. e.file = h /\ e.sock = c.sock
    BY <2>6, <2>h, WithFile, Zenon
  <2> HIDE DEF e
  <2>10. <<>> \in Seq(Bytes)
    OBVIOUS
  <2>11. StreamBounded(e)
    BY <2>7, <2>8, <2>9, <2>10, Zenon DEF StreamBounded, Bounded
  <2> QED
    BY <2>1, <2>11, Zenon DEF f
<1> QED
  BY <1>2, <1>3

(* A stage of savevm                                                       *)
LEMMA StageBounded ==
    ASSUME NEW b \in Buffereds, StreamInv(b), StreamBounded(b), NEW i \in Stage(b),
           Total(b) + Block <= MaxBytes + 3 * Block
    PROVE  StreamBounded(i)
<1>1. PICK n \in Puts : i = qemu_put_buffer(b, n)
  BY Zenon DEF Stage
<1> DEFINE m == Len(b.file.f_buf)
           l == Min({n, Block - m})
           a == Filled(b, l)
           c == qemu_fflush(a)
           e == Filled(c, n - l)
<1>2. /\ n \in Nat /\ n <= Block /\ Block \in Nat /\ m \in Nat /\ m < Block
      /\ Total(b) \in Nat /\ MaxBytes \in Nat
  BY FileNumbers, MigrationAssumption DEF StreamInv
<1>3. l \in Nat /\ n - l \in Nat
  <2> DEFINE r == Block - m
  <2>1. r \in Nat
    BY <1>2
  <2> HIDE DEF r
  <2>2. Min({n, r}) \in {n, r} /\ Min({n, r}) <= n
    <3>1. \E x \in {n, r} : \A y \in {n, r} : x <= y
      BY <1>2, <2>1
    <3> QED
      BY <3>1 DEF Min
  <2>3. l = Min({n, r})
    BY DEF r
  <2> QED
    BY <1>2, <2>1, <2>2, <2>3
<1>4. i = b \/ i = Filled(b, n) \/ i = c \/ i = e
  BY <1>1, Zenon DEF qemu_put_buffer
<1> HIDE DEF m, l
<1>5. /\ PutInv(b, b.file.written) /\ Short(b, b.file.written)
      /\ Follows(b.file.f_buf, b.file.written)
  BY DEF StreamInv
<1>6. /\ Total(b) + n <= MaxBytes + 3 * Block /\ Total(b) + l <= MaxBytes + 3 * Block
      /\ (Total(b) + l) + (n - l) <= MaxBytes + 3 * Block
  BY <1>2, <1>3
<1>7. /\ a \in Buffereds /\ SameButBuf(b, a) /\ Follows(a.file.f_buf, b.file.written)
      /\ Total(a) = Total(b) + l
  BY <1>3, <1>5, FilledFollows
<1>8. StreamBounded(a)
  BY <1>3, <1>5, <1>6, FilledBounded
<1> HIDE DEF a
<1>9. /\ PutInv(a, a.file.written) /\ Short(a, a.file.written)
      /\ Follows(a.file.f_buf, a.file.written)
  BY <1>5, <1>7, Zenon DEF SameButBuf, PutInv, Short
<1>10. c \in Buffereds /\ StreamInv(c) /\ Total(c) = Total(a)
  BY <1>7, <1>9, FflushPut
<1>11. StreamBounded(c)
  BY <1>7, <1>8, <1>9, FflushBounded
<1> HIDE DEF c
<1>12. StreamBounded(Filled(b, n))
  BY <1>2, <1>5, <1>6, FilledBounded
<1>13. StreamBounded(e)
  <2>1. Follows(c.file.f_buf, c.file.written)
    BY <1>10 DEF StreamInv
  <2>2. Total(c) + (n - l) <= MaxBytes + 3 * Block
    BY <1>6, <1>7, <1>10
  <2> QED
    BY <1>3, <1>10, <1>11, <2>1, <2>2, FilledBounded, SMTT(20)
<1> QED
  BY <1>4, <1>11, <1>12, <1>13

(* The variables after a step that ends with the record c                  *)
LEMMA BecomesBounded ==
    ASSUME NEW c, StreamBounded(c), Total(c) <= MaxBytes + 3 * Block,
           c.file.open /\ MainLoop' /\ ~c.file.has_error => Total(c) < MaxBytes,
           file' = c.file, sock' = c.sock
    PROVE  BoundInv'
<1>1. buffered'.file = c.file /\ buffered'.sock = c.sock
  BY DEF buffered
<1>2. Total(buffered)' = Total(c)
  BY <1>1, Zenon DEF Total
<1> QED
  BY <1>1, <1>2, Zenon DEF BoundInv, StreamBounded, Bounded

(* migrate_fd_cleanup                                                      *)
LEMMA CleanupBounded ==
    ASSUME NEW b \in Buffereds, StreamInv(b), StreamBounded(b),
           Total(b) <= MaxBytes + 3 * Block,
           NEW s \in Ended, migrate_fd_cleanup(b, s)
    PROVE  BoundInv'
<1> DEFINE a == [b EXCEPT !.handler = "none"]
           c == qemu_fflush(a)
<1>1. file' = c.file /\ sock' = c.sock /\ closing' = s
  BY Zenon DEF migrate_fd_cleanup
<1>2. a \in Buffereds /\ a.file = b.file /\ a.sock = b.sock
  BY DEF Buffereds
<1> HIDE DEF a
<1>3. /\ PutInv(a, a.file.written) /\ Short(a, a.file.written)
      /\ Follows(a.file.f_buf, a.file.written) /\ StreamBounded(a) /\ Total(a) = Total(b)
  BY <1>2, Zenon DEF StreamInv, PutInv, Short, StreamBounded, Bounded, Total
<1>4. c \in Buffereds /\ Total(c) = Total(a)
  BY <1>2, <1>3, FflushPut
<1>5. StreamBounded(c)
  BY <1>2, <1>3, FflushBounded
<1> HIDE DEF c
<1>6. ~MainLoop'
  BY <1>1 DEF MainLoop, Ended
<1>7. Total(c) <= MaxBytes + 3 * Block
  BY <1>3, <1>4
<1> QED
  BY <1>1, <1>5, <1>6, <1>7, BecomesBounded, Zenon

(* migrate_fd_put_ready                                                    *)
LEMMA PutReadyBounded ==
    ASSUME NEW b \in Buffereds, StreamInv(b), migrate_fd_put_ready(b), StreamBounded(b),
           Total(b) + 2 * Block <= MaxBytes + 3 * Block
    PROVE  BoundInv'
<1>0. Total(b) \in Nat /\ Block \in Nat /\ MaxBytes \in Nat
  BY FileNumbers, MigrationAssumption
<1>1. PICK i \in Stage(b) :
        \/ /\ Total(i) < MaxBytes \/ i.file.f_error
           /\ file' = i.file /\ sock' = i.sock
        \/ \E p \in {i, [i EXCEPT !.sock.gone = TRUE]} : \E l \in Stage(p) :
              migrate_fd_cleanup(l, IF l.file.f_error THEN "error" ELSE "completed")
  BY Zenon DEF migrate_fd_put_ready
<1>2. i \in Buffereds /\ StreamInv(i) /\ Total(i) <= Total(b) + Block
  BY StagePut
<1>3. Total(b) + Block <= MaxBytes + 3 * Block
  BY <1>0
<1>4. StreamBounded(i) /\ Total(i) \in Nat
  BY <1>2, <1>3, StageBounded, FileNumbers
<1>5. CASE /\ Total(i) < MaxBytes \/ i.file.f_error
           /\ file' = i.file /\ sock' = i.sock
  <2>1. Total(i) <= MaxBytes + 3 * Block
    BY <1>0, <1>2, <1>4
  <2>2. i.file.f_error => i.file.has_error
    BY <1>2 DEF StreamInv, Short
  <2> QED
    BY <1>4, <1>5, <2>1, <2>2, BecomesBounded, Zenon
<1>6. CASE \E p \in {i, [i EXCEPT !.sock.gone = TRUE]} : \E l \in Stage(p) :
              migrate_fd_cleanup(l, IF l.file.f_error THEN "error" ELSE "completed")
  <2>1. PICK p \in {i, [i EXCEPT !.sock.gone = TRUE]} : \E l \in Stage(p) :
              migrate_fd_cleanup(l, IF l.file.f_error THEN "error" ELSE "completed")
    BY <1>6, Zenon
  <2>2. PICK l \in Stage(p) :
              migrate_fd_cleanup(l, IF l.file.f_error THEN "error" ELSE "completed")
    BY <2>1, Zenon
  <2>3. /\ p \in Buffereds /\ StreamInv(p) /\ p.file = i.file /\ Total(p) = Total(i)
        /\ p.sock.sent = i.sock.sent /\ p.sock.room = i.sock.room
    BY <1>2, <2>1, GoneStream, Zenon
  <2>4. StreamBounded(p)
    BY <1>4, <2>3, Zenon DEF StreamBounded, Bounded
  <2>5. l \in Buffereds /\ StreamInv(l) /\ Total(l) <= Total(p) + Block
    BY <2>2, <2>3, StagePut
  <2>6. Total(p) + Block <= MaxBytes + 3 * Block
    BY <1>0, <1>2, <1>4, <2>3
  <2>7. StreamBounded(l)
    BY <2>2, <2>3, <2>4, <2>6, StageBounded
  <2>8. Total(l) <= MaxBytes + 3 * Block
    <3>1. Total(l) \in Nat /\ Total(p) \in Nat
      BY <2>3, <2>5, FileNumbers
    <3> QED
      BY <1>0, <2>5, <2>6, <3>1
  <2> DEFINE s == IF l.file.f_error THEN "error" ELSE "completed"
  <2>9. s \in Ended /\ migrate_fd_cleanup(l, s)
    BY <2>2 DEF Ended
  <2> HIDE DEF s
  <2> QED
    BY <2>5, <2>7, <2>8, <2>9, CleanupBounded, Zenon
<1> QED
  BY <1>1, <1>5, <1>6, Zenon

(* migrate_fd_connect                                                      *)
LEMMA ConnectBounded ==
    ASSUME NEW b \in Buffereds, b.sock.sent = <<>>, b.sock.room <= SockRoom,
           NEW limit \in Limits, migrate_fd_connect(b, limit)
    PROVE  BoundInv'
<1> DEFINE a == qemu_fopen_ops_buffered(b, limit)
<1>0. Block \in Nat /\ MaxBytes \in Nat
  BY MigrationAssumption
<1>1. PICK i \in Stage(a) : migrate_fd_put_ready(i) \/ migrate_fd_cleanup(i, "error")
  BY DEF migrate_fd_connect
<1>2. /\ a \in Buffereds /\ StreamInv(a) /\ a.sock = b.sock /\ Total(a) = 0
      /\ a.file.buffer = <<>> /\ a.file.f_buf = <<>> /\ a.file.xfer_limit = limit
  BY NewStream
<1> HIDE DEF a
<1>3. StreamBounded(a)
  <2>1. <<>> \in Seq(Bytes) /\ limit \in Limits \cup {0}
    OBVIOUS
  <2> QED
    BY <1>2, <2>1, Zenon DEF StreamBounded, Bounded
<1>4. i \in Buffereds /\ StreamInv(i) /\ Total(i) <= Total(a) + Block
  BY <1>2, StagePut
<1>5. StreamBounded(i)
  <2>1. Total(a) + Block <= MaxBytes + 3 * Block
    BY <1>0, <1>2
  <2> QED
    BY <1>2, <1>3, <2>1, StageBounded
<1>6. Total(i) + 2 * Block <= MaxBytes + 3 * Block /\ Total(i) <= MaxBytes + 3 * Block
  <2>1. Total(i) \in Nat
    BY <1>4, FileNumbers
  <2> QED
    BY <1>0, <1>2, <1>4, <2>1
<1>7. CASE migrate_fd_put_ready(i)
  BY <1>4, <1>5, <1>6, <1>7, PutReadyBounded, Zenon
<1>8. CASE migrate_fd_cleanup(i, "error")
  <2>1. "error" \in Ended
    BY DEF Ended
  <2> QED
    BY <1>4, <1>5, <1>6, <1>8, <2>1, CleanupBounded, Zenon
<1> QED
  BY <1>1, <1>7, <1>8

(* Without a file                                                          *)
LEMMA NoFileBounded ==
    ASSUME file' = NoFile, sock'.sent \in Seq(Bytes), sock'.room <= SockRoom
    PROVE  BoundInv'
<1>1. /\ buffered'.file = NoFile /\ buffered'.sock = sock'
  BY DEF buffered
<1>2. <<>> \in Seq(Bytes) /\ NoFile.xfer_limit = 0 /\ 0 <= MaxBytes + 3 * Block
  BY MigrationAssumption DEF NoFile
<1>3. StreamBounded(buffered)'
  BY <1>1, <1>2, NoFileType, Zenon DEF StreamBounded, Bounded
<1>4. Total(buffered)' = 0
  BY <1>1, NoFileType DEF Total
<1> QED
  BY <1>2, <1>3, <1>4, NoFileType, Zenon DEF BoundInv

(* A step that leaves the bytes of the file and the socket                 *)
LEMMA SameBounded ==
    ASSUME BoundInv, UNCHANGED <<file, sock>>, MainLoop' => MainLoop
    PROVE  BoundInv'
<1>1. /\ buffered'.file = buffered.file /\ buffered'.sock = buffered.sock
  BY DEF buffered
<1> QED
  BY <1>1, Zenon DEF BoundInv, StreamBounded, Bounded, Total

(* migrate and the connection                                              *)
LEMMA ConnectsBounded ==
    ASSUME MigrationInv, BoundInv,
           tcp_wait_for_connect \/ \E detach \in BOOLEAN : do_migrate(detach)
    PROVE  BoundInv'
<1>1. /\ buffered \in Buffereds /\ buffered.sock = sock /\ buffered.file = file
      /\ buffered.handler = handler /\ sock.room <= SockRoom /\ sock.sent \in Seq(Bytes)
  BY BufferedFields DEF MigrationInv, BoundInv, StreamBounded, Bounded
<1>2. CASE tcp_wait_for_connect
  <2> DEFINE b == [buffered EXCEPT !.handler = "none"]
  <2>1. ~file.open /\ sock.sent = <<>> /\ file = NoFile
    BY <1>2 DEF MigrationInv, tcp_wait_for_connect, ControlInv, FileInv
  <2>2. CASE \E limit \in Limits : migrate_fd_connect(b, limit)
    <3>1. PICK limit \in Limits : migrate_fd_connect(b, limit)
      BY <2>2
    <3>2. b \in Buffereds /\ b.sock = sock
      BY <1>1 DEF Buffereds
    <3> HIDE DEF b
    <3> QED
      BY <1>1, <2>1, <3>1, <3>2, ConnectBounded, Zenon
  <2>3. CASE CleanupNoFile("error")
    BY <1>1, <2>1, <2>3, NoFileBounded, Zenon DEF CleanupNoFile
  <2> QED
    BY <1>2, <2>2, <2>3, Zenon DEF tcp_wait_for_connect
<1>3. ASSUME NEW detach \in BOOLEAN, do_migrate(detach) PROVE BoundInv'
  <2> DEFINE b == [buffered EXCEPT !.sock = NewSock]
  <2>1. file = NoFile
    BY <1>3 DEF MigrationInv, do_migrate, ControlInv, FileInv
  <2>2. /\ NewSock \in SockType /\ NewSock.sent = <<>> /\ NewSock.room <= SockRoom
        /\ NewSock.sent \in Seq(Bytes)
    <3> DEFINE q == <<>>
    <3>1. /\ NewSock = [sent |-> q, room |-> SockRoom, gone |-> FALSE]
          /\ q \in Seq(Nat) /\ q \in Seq(Bytes) /\ q = <<>>
      BY DEF NewSock
    <3> HIDE DEF q
    <3> QED
      BY <3>1, MigrationAssumption DEF SockType
  <2>3. CASE \E limit \in Limits : migrate_fd_connect(b, limit)
    <3>1. PICK limit \in Limits : migrate_fd_connect(b, limit)
      BY <2>3
    <3>2. b \in Buffereds /\ b.sock = NewSock
      BY <1>1, <2>2 DEF Buffereds
    <3> HIDE DEF b
    <3> QED
      BY <2>2, <3>1, <3>2, ConnectBounded, Zenon
  <2>4. CASE sock' = NewSock /\ UNCHANGED file
    BY <2>1, <2>2, <2>4, NoFileBounded, Zenon
  <2>5. CASE UNCHANGED <<sock, file, closing>>
    BY <2>5, SameBounded DEF MainLoop
  <2> QED
    BY <1>3, <2>3, <2>4, <2>5, Zenon DEF do_migrate
<1> QED
  BY <1>2, <1>3

(* The handler of the socket, the timer, and the loop of buffered_close    *)
LEMMA HandlersBounded ==
    ASSUME MigrationInv, BoundInv,
           migrate_fd_put_notify \/ buffered_rate_tick \/ buffered_close
    PROVE  BoundInv'
<1>1. /\ buffered \in Buffereds /\ buffered.sock = sock /\ buffered.file = file
      /\ buffered.handler = handler /\ StreamBounded(buffered) /\ Bounded(buffered)
      /\ sock.room <= SockRoom /\ sock.sent \in Seq(Bytes)
      /\ Total(buffered) <= MaxBytes + 3 * Block /\ file \in FileType
  BY BufferedFields DEF MigrationInv, BoundInv, StreamBounded, Bounded, FileInv
<1>2. file.open /\ MainLoop /\ ~file.has_error => Total(buffered) < MaxBytes
  BY DEF BoundInv
<1>3. CASE migrate_fd_put_notify
  <2> DEFINE a == [buffered EXCEPT !.handler = "none"]
             q == <<>>
             c == buffered_put_buffer(a, q)
  <2>1. file.open /\ MainLoop /\ StreamInv(buffered)
    BY <1>3 DEF MigrationInv, migrate_fd_put_notify, ControlInv, FileInv
  <2>2. file' = c.file /\ sock' = c.sock
    BY <1>3 DEF migrate_fd_put_notify
  <2>3. a \in Buffereds /\ a.sock = buffered.sock /\ a.file = buffered.file
    BY <1>1 DEF Buffereds
  <2> HIDE DEF a
  <2>4. StreamInv(a) /\ Bounded(a) /\ Total(a) = Total(buffered) /\ PutInv(a, a.file.written)
    BY <1>1, <2>1, <2>3, Zenon DEF StreamInv, PutInv, Short, Bounded, Total
  <2>5. /\ c \in Buffereds /\ SameFile(a, c) /\ Total(c) = Total(a)
        /\ StreamInv(c)
    BY <2>3, <2>4, FlushStream
  <2>6. q \in Seq(Bytes) /\ a.file.written \in Nat
    BY <2>3, FileNumbers
  <2> HIDE DEF q
  <2>7. Bounded(c)
    BY <2>3, <2>4, <2>6, PutBounded, Zenon
  <2>8. ~c.file.has_error => ~file.has_error
    <3>1. Errs(a, c, q # <<>>)
      <4>1. q \in Seq(Nat)
        BY DEF q
      <4> QED
        BY <2>3, <2>4, <2>6, <4>1, PutErrs, Zenon
    <3> QED
      BY <1>1, <2>3, <3>1 DEF Errs
  <2> HIDE DEF c
  <2>9. StreamBounded(c)
    BY <1>1, <2>3, <2>5, <2>7, Zenon DEF StreamBounded, SameFile
  <2>10. /\ Total(c) <= MaxBytes + 3 * Block
         /\ c.file.open /\ MainLoop' /\ ~c.file.has_error => Total(c) < MaxBytes
    BY <1>1, <1>2, <2>1, <2>4, <2>5, <2>8, SMTT(20)
  <2> QED
    BY <2>2, <2>9, <2>10, BecomesBounded, Zenon
<1>4. CASE buffered_rate_tick
  <2>1. file.open /\ MainLoop /\ StreamInv(buffered)
    BY <1>4 DEF MigrationInv, buffered_rate_tick, ControlInv, FileInv
  <2>2. CASE UNCHANGED <<file, sock, closing>>
    BY <2>2, SameBounded DEF MainLoop
  <2>3. CASE /\ ~file.has_error
             /\ \E b \in {buffered_flush([buffered EXCEPT !.file.bytes_xfer = 0])} :
                   migrate_fd_put_ready(b)
    <3> DEFINE g == [file EXCEPT !.bytes_xfer = 0]
               a == [buffered EXCEPT !.file = g]
               c == buffered_flush(a)
    <3>1. migrate_fd_put_ready(c)
      <4>1. [buffered EXCEPT !.file.bytes_xfer = 0] = a
        BY <1>1
      <4> QED
        BY <2>3, <4>1
    <3>2. /\ g \in FileType /\ g.buffer = file.buffer /\ g.has_error = file.has_error
          /\ g.f_buf = file.f_buf /\ g.written = file.written
          /\ g.xfer_limit = file.xfer_limit /\ g.f_error = file.f_error
      BY <1>1, ZenonT(30) DEF FileType
    <3>g. g \in FileType
      BY <3>2
    <3> HIDE DEF g
    <3>3. a \in Buffereds /\ a.file = g /\ a.sock = buffered.sock
      BY <1>1, <3>g, WithFile, Zenon
    <3> HIDE DEF a
    <3>4. StreamInv(a) /\ StreamBounded(a) /\ Bounded(a) /\ Total(a) = Total(buffered)
      BY <1>1, <2>1, <3>2, <3>3, ZenonT(30)
      DEF StreamInv, PutInv, Short, StreamBounded, Bounded, Total
    <3>5. c \in Buffereds /\ StreamInv(c) /\ SameFile(a, c) /\ Total(c) = Total(a)
      BY <3>3, <3>4, FlushStream
    <3>6. Bounded(c)
      BY <3>3, <3>4, FlushBounded
    <3> HIDE DEF c
    <3>7. StreamBounded(c)
      BY <3>4, <3>5, <3>6, Zenon DEF StreamBounded, SameFile
    <3>8. Total(c) + 2 * Block <= MaxBytes + 3 * Block
      <4>1. Total(c) < MaxBytes /\ Total(c) \in Nat
        BY <1>2, <2>1, <2>3, <3>4, <3>5, FileNumbers, SMTT(20)
      <4> QED
        BY <4>1, MigrationAssumption
    <3> QED
      BY <3>1, <3>5, <3>7, <3>8, PutReadyBounded, Zenon
  <2> QED
    BY <1>4, <2>2, <2>3, Zenon DEF buffered_rate_tick
<1>5. CASE buffered_close
  <2> DEFINE c == buffered_flush(buffered)
  <2>1. file.open /\ closing # "no" /\ StreamInv(buffered)
    BY <1>5 DEF MigrationInv, buffered_close, ControlInv, FileInv
  <2>2. CASE migrate_fd_close
    BY <1>1, <2>2, NoFileBounded DEF migrate_fd_close
  <2>3. CASE file' = c.file /\ sock' = c.sock /\ UNCHANGED closing
    <3>1. SameFile(buffered, c) /\ Total(c) = Total(buffered)
      BY <1>1, <2>1, FlushStream
    <3>2. Bounded(c)
      BY <1>1, FlushBounded
    <3> HIDE DEF c
    <3>3. StreamBounded(c) /\ Total(c) <= MaxBytes + 3 * Block
      BY <1>1, <3>1, <3>2, Zenon DEF StreamBounded, SameFile
    <3>4. ~MainLoop'
      BY <2>1, <2>3 DEF MainLoop
    <3> QED
      BY <2>3, <3>3, <3>4, BecomesBounded, Zenon
  <2> QED
    BY <1>5, <2>2, <2>3, SMTT(20) DEF buffered_close
<1> QED
  BY <1>3, <1>4, <1>5, SMTT(20)

(* The monitor and the peer                                                *)
LEMMA OthersBounded ==
    ASSUME MigrationInv, BoundInv,
           \/ migrate_fd_cancel
           \/ \E limit \in Limits : do_migrate_set_speed(limit)
           \/ \E run \in BOOLEAN : StopOrCont(run)
           \/ PeerReads \/ PeerGoes \/ UNCHANGED vars
    PROVE  BoundInv'
<1>1. /\ buffered \in Buffereds /\ buffered.sock = sock /\ buffered.file = file
      /\ StreamBounded(buffered) /\ sock.room <= SockRoom /\ sock.sent \in Seq(Bytes)
      /\ Total(buffered) <= MaxBytes + 3 * Block
      /\ file \in FileType /\ sock \in SockType
  BY BufferedFields DEF MigrationInv, BoundInv, StreamBounded, Bounded, FileInv
<1>2. CASE migrate_fd_cancel
  <2>1. CASE ~file.open /\ CleanupNoFile("cancelled")
    <3>1. file = NoFile
      BY <2>1 DEF MigrationInv, FileInv
    <3> QED
      BY <1>1, <2>1, <3>1, NoFileBounded DEF CleanupNoFile
  <2>2. CASE file.open /\ migrate_fd_cleanup(buffered, "cancelled")
    <3>1. StreamInv(buffered)
      BY <2>2 DEF MigrationInv, FileInv
    <3>2. "cancelled" \in Ended
      BY DEF Ended
    <3> QED
      BY <1>1, <2>2, <3>1, <3>2, CleanupBounded, Zenon
  <2> QED
    BY <1>2, <2>1, <2>2 DEF migrate_fd_cancel
<1>3. ASSUME NEW limit \in Limits, do_migrate_set_speed(limit) PROVE BoundInv'
  <2>1. /\ file' = [file EXCEPT !.xfer_limit = limit] /\ sock' = sock /\ closing' = closing
    BY <1>3 DEF do_migrate_set_speed
  <2>2. /\ file'.buffer = file.buffer /\ file'.written = file.written
        /\ file'.open = file.open /\ file'.xfer_limit = limit
        /\ file'.f_buf = file.f_buf /\ file'.has_error = file.has_error
    BY <1>1, <2>1, Zenon DEF FileType
  <2>3. buffered'.file = file' /\ buffered'.sock = sock
    BY <2>1 DEF buffered
  <2>4. limit \in Limits \cup {0}
    OBVIOUS
  <2> QED
    BY <1>1, <2>1, <2>2, <2>3, <2>4, ZenonT(30) DEF BoundInv, StreamBounded, Bounded, Total, MainLoop
<1>4. CASE (\E run \in BOOLEAN : StopOrCont(run)) \/ UNCHANGED vars
  <2>1. UNCHANGED <<file, sock, closing>>
    BY <1>4 DEF StopOrCont, vars
  <2> QED
    BY <2>1, SameBounded DEF MainLoop
<1>5. CASE PeerReads \/ PeerGoes
  <2>1. UNCHANGED <<file, closing>> /\ sock'.sent = sock.sent /\ sock'.room <= SockRoom
    <3>1. CASE PeerReads
      BY <1>1, <3>1, MigrationAssumption DEF PeerReads, SockType
    <3>2. CASE PeerGoes
      BY <1>1, <3>2, Zenon DEF PeerGoes, SockType
    <3> QED
      BY <1>5, <3>1, <3>2
  <2>2. buffered'.file = file /\ buffered'.sock = sock'
    BY <2>1 DEF buffered
  <2> QED
    BY <1>1, <2>1, <2>2, ZenonT(30) DEF BoundInv, StreamBounded, Bounded, Total, MainLoop
<1> QED
  BY <1>2, <1>3, <1>4, <1>5, SMTT(20)

(* The run state is the user's last word, combined with outcomes.          *)
VmInv == wanted \in BOOLEAN

LEMMA VmStep ==
    ASSUME VmInv, [Next]_vars
    PROVE  VmInv'
<1>1. ASSUME NEW run \in BOOLEAN, StopOrCont(run) PROVE VmInv'
  BY <1>1 DEF StopOrCont, VmInv
<1>2. CASE UNCHANGED wanted
  BY <1>2 DEF VmInv
<1>3. CASE buffered_close
  BY <1>2, <1>3, Zenon DEF buffered_close, migrate_fd_close, VmInv
<1>4. ASSUME \/ \E detach \in BOOLEAN : do_migrate(detach)
             \/ tcp_wait_for_connect \/ migrate_fd_put_notify \/ buffered_rate_tick
             \/ migrate_fd_cancel \/ \E limit \in Limits : do_migrate_set_speed(limit)
             \/ PeerReads \/ PeerGoes \/ UNCHANGED vars
      PROVE  VmInv'
  <2>1. UNCHANGED wanted
    BY <1>4 DEF do_migrate, tcp_wait_for_connect, migrate_fd_put_notify, buffered_rate_tick,
                migrate_fd_cancel, CleanupNoFile, do_migrate_set_speed, PeerReads, PeerGoes,
                vars
  <2> QED
    BY <1>2, <2>1
<1> QED
  BY <1>1, <1>3, <1>4, Zenon DEF Next

(* All variables keep their types; with it, the stages put at most three   *)
(* blocks more than MaxBytes (migrate_fd_put_ready), and no byte that is   *)
(* not of the stream is ever buffered or sent.                             *)
THEOREM MigrationTyped == Spec => []TypeOK
<1>1. Init => BoundInv
  <2> SUFFICES ASSUME Init PROVE BoundInv
    OBVIOUS
  <2>1. file = NoFile /\ sock = [sent |-> <<>>, room |-> SockRoom, gone |-> FALSE]
    BY DEF Init
  <2>2. <<>> \in Seq(Bytes) /\ NoFile.xfer_limit = 0 /\ 0 <= MaxBytes + 3 * Block
        /\ SockRoom <= SockRoom /\ sock.sent = <<>> /\ sock.room = SockRoom
    BY <2>1, MigrationAssumption DEF NoFile
  <2>3. buffered.file = NoFile /\ buffered.sock = sock
    BY <2>1 DEF buffered
  <2>4. Total(buffered) = 0
    BY <2>3, NoFileType DEF Total
  <2> QED
    BY <2>1, <2>2, <2>3, <2>4, NoFileType, Zenon DEF BoundInv, StreamBounded, Bounded
<1>2. MigrationInv /\ BoundInv /\ [Next]_vars => BoundInv'
  BY ConnectsBounded, HandlersBounded, OthersBounded, Zenon DEF Next
<1>3. Init => VmInv
  BY DEF Init, VmInv
<1>4. VmInv /\ [Next]_vars => VmInv'
  BY VmStep
<1>5. MigrationInv /\ BoundInv /\ VmInv => TypeOK
  <2> SUFFICES ASSUME MigrationInv, BoundInv, VmInv PROVE TypeOK
    OBVIOUS
  <2>1. /\ file \in FileType /\ sock \in SockType
        /\ handler \in {"none", "connect", "notify"}
    BY DEF MigrationInv, FileInv
  <2>2. /\ file.buffer \in Seq(Bytes) /\ sock.sent \in Seq(Bytes)
        /\ sock.room <= SockRoom /\ file.xfer_limit \in Limits \cup {0}
        /\ file.f_buf \in Seq(Bytes)
    BY DEF BoundInv, StreamBounded, Bounded, buffered
  <2>3. file.written <= MaxBytes + 3 * Block
    <3>1. /\ buffered \in Buffereds /\ buffered.file = file
      BY BufferedFields DEF MigrationInv
    <3>2. /\ file.written \in Nat /\ Len(file.f_buf) \in Nat
          /\ Total(buffered) = file.written + Len(file.f_buf)
      BY <3>1, FileNumbers
    <3>3. Total(buffered) <= MaxBytes + 3 * Block
      BY DEF BoundInv
    <3> QED
      BY <3>2, <3>3, MigrationAssumption
  <2>4. file.written \in Bytes \cup {0} /\ sock.room \in 0 .. SockRoom
    BY <2>1, <2>2, <2>3, MigrationAssumption DEF FileType, SockType, Bytes
  <2>5. file \in [open : BOOLEAN, has_error : BOOLEAN, freeze_output : BOOLEAN,
                  bytes_xfer : Nat, xfer_limit : Limits \cup {0}, buffer : Seq(Bytes),
                  f_error : BOOLEAN, f_buf : Seq(Bytes), written : Bytes \cup {0}]
    BY <2>1, <2>2, <2>4, Zenon DEF FileType
  <2>6. sock \in [sent : Seq(Bytes), room : 0 .. SockRoom, gone : BOOLEAN]
    BY <2>1, <2>2, <2>4, Zenon DEF SockType
  <2>7. suspended \in 0 .. 1
    BY DEF MigrationInv, MonitorInv
  <2>8. vm_running \in BOOLEAN /\ wanted \in BOOLEAN
    BY Zenon DEF VmInv, MigrationInv, RunsRight
  <2> QED
    BY <2>1, <2>5, <2>6, <2>7, <2>8, SMTT(20) DEF TypeOK, MigrationInv, ControlInv
<1> QED
  BY <1>1, <1>2, <1>3, <1>4, <1>5, MigrationInvariant, PTL DEF Spec

=============================================================================
