--------------------------- MODULE NetQueueProofs ---------------------------
(***************************************************************************)
(* NetQueue, for any list of clients and any room: the packets of a sender *)
(* with callbacks stay in order, and it is owed a callback exactly while   *)
(* it waits.                                                               *)
(***************************************************************************)
EXTENDS NetQueue, FiniteSetTheorems, WellFoundedInduction, TLAPS

(* A sender with callbacks has a packet in the queue q just while it is in *)
(* st, waiting: one, its last, which will call it back.                    *)
Held(q, st, n) ==
    /\ \A i \in DOMAIN q : q[i].cb <=> q[i].sender \in Callbacks
    /\ \A i \in DOMAIN q : q[i].cb => q[i].sender \in st /\ q[i].id = n[q[i].sender]
    /\ \A i, j \in DOMAIN q : q[i].cb /\ q[i].sender = q[j].sender => i = j
    /\ \A s \in st : \E i \in DOMAIN q : q[i].cb /\ q[i].sender = s

(* No client has a packet that was not sent.                               *)
NoneAhead(n) == \A c \in All, s \in Callbacks : n.last[c][s] <= sent[s]

(* Some client keeps p from being delivered, and will ask for it.          *)
Awaited(n, p) == \E c \in Refusers \ {p.sender} : c \in n.disabled \/ n.room[c] = 0

NetInv ==
    /\ TypeOK
    /\ Held(packets, stopped, sent)
    /\ NoneAhead(net)
    /\ packets # <<>> /\ flushes = <<>> => Awaited(net, Head(packets))
    /\ InOrder

(* A non-empty set of numbers has a least element ...                      *)
LEMMA LeastNatural ==
    ASSUME NEW T \in SUBSET Nat, T # {}
    PROVE  \E x \in T : \A y \in T : x <= y
<1> DEFINE R == OpToRel(<, Nat)
<1>1. IsWellFoundedOn(R, Nat)
  BY NatLessThanWellFounded, Zenon
<1>2. \A y, x \in T : <<y, x>> \in R <=> y < x
  BY DEF OpToRel
<1> HIDE DEF R
<1>3. PICK x \in T : \A y \in T : ~(<<y, x>> \in R)
  BY <1>1, WFMin, Zenon
<1>4. \A y \in T : ~(y < x)
  BY <1>2, <1>3, Zenon
<1> QED BY <1>4

(* so one that has 0 and the successor of each of its elements has all.    *)
LEMMA Induction ==
    ASSUME NEW S \in SUBSET Nat, 0 \in S, \A n \in S : n + 1 \in S
    PROVE  S = Nat
<1> SUFFICES ASSUME S # Nat PROVE FALSE
  OBVIOUS
<1>1. PICK x \in Nat \ S : \A y \in Nat \ S : x <= y
  BY LeastNatural, Zenon
<1>2. x - 1 \in S
  BY <1>1
<1> QED BY <1>1, <1>2

-----------------------------------------------------------------------------
Nets == [disabled : SUBSET Refusers, room : [Refusers -> 0 .. Room],
         last : [All -> [All -> Nat]], late : SUBSET All]

(* What the loop over the clients has made of net after some turns: it     *)
(* forgets no refusal, a return of 0 has a client that refused, only the   *)
(* sender's entries change, and none comes late if none was ahead.         *)
Carries(d, p) ==
    /\ d \in [ret : {-1, 0, 1}, net : Nets]
    /\ net.disabled \subseteq d.net.disabled
    /\ \A r \in Refusers : net.room[r] = 0 => d.net.room[r] = 0
    /\ d.ret = 0 => Awaited(d.net, p)
    /\ \A x, s \in All : \/ d.net.last[x][s] = net.last[x][s]
                         \/ s = p.sender /\ d.net.last[x][s] = p.id
    /\ d.net.late \subseteq net.late \cup {p.sender}
    /\ (\A x \in All : net.last[x][p.sender] <= p.id) => d.net.late = net.late

(* The length that a receive handler returns.                              *)
LEMMA LengthTyped ==
    ASSUME NEW c, NEW n, NEW drop
    PROVE  /\ Length(c, n, drop) \in {-1, 0, 1}
           /\ Length(c, n, drop) = 0 => c \in Refusers /\ n.room[c] = 0
           /\ Length(c, n, drop) = 1 /\ c \in Refusers => n.room[c] # 0
  BY DEF Length

(* What a receive handler leaves.                                          *)
LEMMA ReceivedTyped ==
    ASSUME NEW c \in All, NEW n \in Nets, NEW p \in Packets, NEW iov, NEW len,
           len = 0 => c \in Refusers, len = 1 /\ c \in Refusers => n.room[c] # 0
    PROVE  LET m == Received(c, n, p, iov, len)
           IN  /\ m \in Nets
               /\ n.disabled \subseteq m.disabled
               /\ \A r \in Refusers : n.room[r] = 0 => m.room[r] = 0
               /\ len = 0 => m.room = n.room
               /\ \A x, s \in All : \/ m.last[x][s] = n.last[x][s]
                                    \/ s = p.sender /\ m.last[x][s] = p.id
               /\ m.late \subseteq n.late \cup {p.sender}
               /\ n.last[c][p.sender] <= p.id => m.late = n.late
<1> DEFINE m == Received(c, n, p, iov, len)
<1>1. /\ m.disabled = n.disabled \cup IF len = 0 /\ ~iov THEN {c} ELSE {}
      /\ m.room = IF len = 1 /\ c \in Refusers THEN [n.room EXCEPT ![c] = @ - 1] ELSE n.room
      /\ m.last = IF len = 1 THEN [n.last EXCEPT ![c][p.sender] = p.id] ELSE n.last
      /\ m.late = n.late \cup IF len = 1 /\ p.id < n.last[c][p.sender]
                              THEN {p.sender} ELSE {}
      /\ m = [disabled |-> m.disabled, room |-> m.room, last |-> m.last, late |-> m.late]
  BY Zenon DEF Received
<1>2. /\ n.disabled \in SUBSET Refusers /\ n.room \in [Refusers -> 0 .. Room]
      /\ n.last \in [All -> [All -> Nat]] /\ n.late \in SUBSET All
      /\ p.sender \in All /\ p.id \in Nat
  BY DEF Nets, Packets
<1> HIDE DEF m
<1>3. m.disabled \in SUBSET Refusers /\ n.disabled \subseteq m.disabled
  BY <1>1, <1>2
<1>4. /\ m.room \in [Refusers -> 0 .. Room]
      /\ \A r \in Refusers : n.room[r] = 0 => m.room[r] = 0
      /\ len = 0 => m.room = n.room
  <2>1. CASE len = 1 /\ c \in Refusers
    <3>1. m.room = [n.room EXCEPT ![c] = n.room[c] - 1]
      BY <1>1, <2>1, Zenon
    <3>2. n.room[c] - 1 \in 0 .. Room
      BY <1>2, <2>1, NetAssumption
    <3> QED BY <1>2, <2>1, <3>1, <3>2
  <2>2. CASE ~(len = 1 /\ c \in Refusers)
    BY <1>1, <1>2, <2>2, Zenon
  <2> QED BY <2>1, <2>2
<1>5. /\ m.last \in [All -> [All -> Nat]]
      /\ \A x, s \in All : \/ m.last[x][s] = n.last[x][s]
                           \/ s = p.sender /\ m.last[x][s] = p.id
  BY <1>1, <1>2
<1>6. /\ m.late \in SUBSET All /\ m.late \subseteq n.late \cup {p.sender}
      /\ n.last[c][p.sender] <= p.id => m.late = n.late
  <2>1. n.last[c][p.sender] \in Nat
    BY <1>2
  <2>2. n.last[c][p.sender] <= p.id => ~(p.id < n.last[c][p.sender])
    BY <1>2, <2>1
  <2> QED BY <1>1, <1>2, <2>2, Zenon
<1>7. m \in Nets
  BY <1>1, <1>3, <1>4, <1>5, <1>6, Zenon DEF Nets
<1> QED BY <1>3, <1>4, <1>5, <1>6, <1>7, Zenon DEF m

(* One turn of the loop.                                                   *)
LEMMA OfferCarries ==
    ASSUME NEW d, NEW c \in All, NEW p \in Packets, NEW iov \in BOOLEAN, NEW drop,
           net \in Nets, Carries(d, p)
    PROVE  Carries(Offer(d, c, p, iov, drop), p)
<1> DEFINE e == Offer(d, c, p, iov, drop)
<1>1. d.ret \in {-1, 0, 1} /\ d.net \in Nets /\ d = [ret |-> d.ret, net |-> d.net]
  BY DEF Carries
<1>2. CASE c = p.sender
  <2>1. e = d
    BY <1>2, Zenon DEF Offer
  <2> QED BY <2>1, Zenon
<1>3. CASE c # p.sender /\ c \in link_down
  <2>1. e = [d EXCEPT !.ret = 1]
    BY <1>3, Zenon DEF Offer
  <2>2. e.ret = 1 /\ e.net = d.net /\ e \in [ret : {-1, 0, 1}, net : Nets]
    BY <1>1, <2>1
  <2> HIDE DEF e
  <2>3. e.ret # 0
    BY <2>2
  <2> QED BY <2>2, <2>3 DEF Carries, e
<1>4. CASE c # p.sender /\ c \notin link_down /\ ~iov /\ c \in d.net.disabled
  <2>1. e = [d EXCEPT !.ret = 0]
    BY <1>4, Zenon DEF Offer
  <2>2. e.ret = 0 /\ e.net = d.net /\ e \in [ret : {-1, 0, 1}, net : Nets]
    BY <1>1, <2>1
  <2>3. Awaited(e.net, p)
    BY <1>1, <1>4, <2>2 DEF Awaited, Nets
  <2> HIDE DEF e
  <2> QED BY <2>2, <2>3 DEF Carries, e
<1>5. CASE c # p.sender /\ c \notin link_down /\ ~(~iov /\ c \in d.net.disabled)
  <2> DEFINE len == Length(c, d.net, drop)
             m == Received(c, d.net, p, iov, len)
  <2>1. e = [ret |-> IF d.ret >= 0 THEN d.ret ELSE len, net |-> m]
    BY <1>5, Zenon DEF Offer
  <2>2. /\ len \in {-1, 0, 1}
        /\ len = 0 => c \in Refusers /\ d.net.room[c] = 0
        /\ len = 1 /\ c \in Refusers => d.net.room[c] # 0
    BY LengthTyped
  <2> HIDE DEF len
  <2>3. /\ m \in Nets
        /\ d.net.disabled \subseteq m.disabled
        /\ \A r \in Refusers : d.net.room[r] = 0 => m.room[r] = 0
        /\ len = 0 => m.room = d.net.room
        /\ \A x, s \in All : \/ m.last[x][s] = d.net.last[x][s]
                             \/ s = p.sender /\ m.last[x][s] = p.id
        /\ m.late \subseteq d.net.late \cup {p.sender}
        /\ d.net.last[c][p.sender] <= p.id => m.late = d.net.late
    BY <1>1, <2>2, ReceivedTyped
  <2> HIDE DEF m, e
  <2>4. e.ret = (IF d.ret >= 0 THEN d.ret ELSE len) /\ e.net = m
        /\ e \in [ret : {-1, 0, 1}, net : Nets]
    BY <1>1, <2>1, <2>2, <2>3
  <2>5. e.ret = 0 => Awaited(m, p)
    <3>1. CASE d.ret = 0
      <4>1. PICK r \in Refusers \ {p.sender} : r \in d.net.disabled \/ d.net.room[r] = 0
        BY <3>1 DEF Carries, Awaited
      <4> QED BY <2>3, <4>1 DEF Awaited
    <3>2. CASE len = 0
      BY <1>5, <2>2, <2>3, <3>2 DEF Awaited
    <3> QED BY <1>1, <2>2, <2>4, <3>1, <3>2
  <2>6. \A x, s \in All : \/ m.last[x][s] = net.last[x][s]
                          \/ s = p.sender /\ m.last[x][s] = p.id
    BY <2>3 DEF Carries
  <2>7. (\A x \in All : net.last[x][p.sender] <= p.id) => m.late = net.late
    <3> SUFFICES ASSUME \A x \in All : net.last[x][p.sender] <= p.id
                 PROVE  m.late = net.late
      OBVIOUS
    <3>1. p.sender \in All /\ p.id \in Nat
      BY DEF Packets
    <3>2. d.net.last[c][p.sender] <= p.id
      BY <3>1 DEF Carries
    <3> QED BY <2>3, <3>2, Zenon DEF Carries
  <2>8. /\ net.disabled \subseteq m.disabled
        /\ \A r \in Refusers : net.room[r] = 0 => m.room[r] = 0
        /\ m.late \subseteq net.late \cup {p.sender}
    BY <2>3, Zenon DEF Carries
  <2> QED BY <2>4, <2>5, <2>6, <2>7, <2>8, Zenon DEF Carries, e
<1> QED BY <1>2, <1>3, <1>4, <1>5, Zenon

(* The loop starts with net and leaves something that it may leave.        *)
LEMMA DeliveryCarries ==
    ASSUME NEW p \in Packets, NEW iov \in BOOLEAN, NEW drop, net \in Nets
    PROVE  Carries(qemu_vlan_deliver_packet(p, iov, drop), p)
<1> DEFINE N == Len(Clients)
           start == [ret |-> -1, net |-> net]
           Is(n, f) == f = [i \in 0 .. n |-> IF i = 0 THEN start
                                    ELSE Offer(f[i - 1], Clients[i], p, iov, drop)]
<1>1. N \in Nat /\ \A i \in 1..N : Clients[i] \in All
  BY NetAssumption
<1>2. Carries(start, p)
  <2>1. start.ret = -1 /\ start.net = net /\ start \in [ret : {-1, 0, 1}, net : Nets]
    OBVIOUS
  <2> HIDE DEF start
  <2> QED BY <2>1 DEF Carries
<1> HIDE DEF start, N
<1>3. \A n \in Nat : \E f : Is(n, f)
  <2> DEFINE S == {n \in Nat : \E f : Is(n, f)}
  <2>1. 0 \in S
    <3>1. Is(0, [i \in 0 .. 0 |-> start])
      OBVIOUS
    <3> HIDE DEF Is
    <3> QED BY <3>1
  <2>2. ASSUME NEW n \in S PROVE n + 1 \in S
    <3>1. PICK f : Is(n, f)
      OBVIOUS
    <3> DEFINE g == [i \in 0 .. n + 1 |-> IF i = n + 1
                       THEN Offer(f[n], Clients[n + 1], p, iov, drop) ELSE f[i]]
    <3>2. Is(n + 1, g)
      <4> SUFFICES ASSUME NEW i \in 0 .. n + 1
                   PROVE  g[i] = IF i = 0 THEN start
                                 ELSE Offer(g[i - 1], Clients[i], p, iov, drop)
        BY Zenon
      <4>1. CASE i = n + 1
        BY <4>1
      <4>2. CASE i # n + 1
        BY <3>1, <4>2
      <4> QED BY <4>1, <4>2
    <3> HIDE DEF Is, g
    <3> QED BY <3>2
  <2> HIDE DEF Is
  <2>3. S = Nat
    <3>1. S \in SUBSET Nat
      OBVIOUS
    <3> HIDE DEF S
    <3> QED BY <2>1, <2>2, <3>1, Induction
  <2> QED BY <2>3
<1>4. PICK f : Is(N, f) /\ qemu_vlan_deliver_packet(p, iov, drop) = f[N]
  <2> DEFINE t == CHOOSE f : Is(N, f)
  <2>1. qemu_vlan_deliver_packet(p, iov, drop) = t[N]
    BY Zenon DEF qemu_vlan_deliver_packet, N, start
  <2> HIDE DEF Is
  <2>2. Is(N, t)
    BY <1>1, <1>3, Zenon
  <2> QED BY <2>1, <2>2, Zenon
<1>5. \A i \in 0..N : Carries(f[i], p)
  <2> DEFINE S == {i \in Nat : i <= N => Carries(f[i], p)}
  <2>1. 0 \in S
    BY <1>1, <1>2, <1>4
  <2>2. ASSUME NEW i \in S PROVE i + 1 \in S
    <3> SUFFICES ASSUME i + 1 <= N PROVE Carries(f[i + 1], p)
      OBVIOUS
    <3>1. f[i + 1] = Offer(f[i], Clients[i + 1], p, iov, drop)
      BY <1>1, <1>4
    <3>2. Carries(f[i], p) /\ Clients[i + 1] \in All
      BY <1>1
    <3> QED BY <3>1, <3>2, OfferCarries, Zenon
  <2>3. S = Nat
    <3>1. S \in SUBSET Nat
      OBVIOUS
    <3> HIDE DEF S
    <3> QED BY <2>1, <2>2, <3>1, Induction
  <2> QED BY <1>1, <2>3
<1> QED BY <1>1, <1>4, <1>5

-----------------------------------------------------------------------------
(* Packets without a callback join the queue.                              *)
LEMMA HeldAppend ==
    ASSUME NEW q \in Seq(Packets), NEW st \in SUBSET Callbacks, NEW n, NEW m,
           NEW rs \in Seq(Packets), Held(q, st, n),
           \A i \in DOMAIN rs : ~rs[i].cb /\ rs[i].sender \notin Callbacks,
           \A s \in st : m[s] = n[s]
    PROVE  Held(q \o rs, st, m)
<1> DEFINE t == q \o rs
<1>1. /\ DOMAIN q \subseteq DOMAIN t /\ \A i \in DOMAIN q : t[i] = q[i]
      /\ \A i \in DOMAIN t : i \in DOMAIN q \/ \E j \in DOMAIN rs : t[i] = rs[j]
  <2>1. /\ DOMAIN q = 1..Len(q) /\ DOMAIN rs = 1..Len(rs) /\ DOMAIN t = 1..(Len(q) + Len(rs))
        /\ Len(q) \in Nat /\ Len(rs) \in Nat
    OBVIOUS
  <2>2. \A i \in 1..(Len(q) + Len(rs)) : t[i] = IF i <= Len(q) THEN q[i] ELSE rs[i - Len(q)]
    OBVIOUS
  <2> HIDE DEF t
  <2>3. ASSUME NEW i \in DOMAIN t, i \notin DOMAIN q PROVE \E j \in DOMAIN rs : t[i] = rs[j]
    <3>1. i - Len(q) \in DOMAIN rs /\ t[i] = rs[i - Len(q)]
      BY <2>1, <2>2, <2>3
    <3> QED BY <3>1
  <2> QED BY <2>1, <2>2, <2>3
<1>2. \A i \in DOMAIN t : t[i].cb => i \in DOMAIN q
  BY <1>1, Zenon
<1>3. \A i \in DOMAIN t : t[i].sender \in Callbacks => i \in DOMAIN q
  BY <1>1, Zenon
<1> HIDE DEF t
<1>4. \A i \in DOMAIN t : t[i].cb <=> t[i].sender \in Callbacks
  BY <1>1, <1>2, <1>3, Zenon DEF Held
<1>5. ASSUME NEW i \in DOMAIN t, t[i].cb
      PROVE  t[i].sender \in st /\ t[i].id = m[t[i].sender]
  <2>1. i \in DOMAIN q /\ t[i] = q[i]
    BY <1>1, <1>2, <1>5, Zenon
  <2>2. t[i].sender \in st /\ t[i].id = n[t[i].sender]
    BY <1>5, <2>1, Zenon DEF Held
  <2> QED BY <2>2, Zenon
<1>6. \A i, j \in DOMAIN t : t[i].cb /\ t[i].sender = t[j].sender => i = j
  <2> SUFFICES ASSUME NEW i \in DOMAIN t, NEW j \in DOMAIN t, t[i].cb,
                      t[i].sender = t[j].sender
               PROVE  i = j
    OBVIOUS
  <2>1. i \in DOMAIN q /\ j \in DOMAIN q
    BY <1>2, <1>3, <1>4, Zenon
  <2>2. q[i].cb /\ q[i].sender = q[j].sender
    BY <1>1, <2>1, Zenon
  <2> QED BY <2>1, <2>2, Zenon DEF Held
<1>7. ASSUME NEW s \in st PROVE \E i \in DOMAIN t : t[i].cb /\ t[i].sender = s
  <2>1. PICK i \in DOMAIN q : q[i].cb /\ q[i].sender = s
    BY Zenon DEF Held
  <2>2. i \in DOMAIN t /\ t[i] = q[i]
    BY <1>1, Zenon
  <2> QED BY <2>1, <2>2, Zenon
<1> QED BY <1>4, <1>5, <1>6, <1>7, Zenon DEF Held, t

(* A packet with one joins it, and its sender waits.                       *)
LEMMA HeldStop ==
    ASSUME NEW q \in Seq(Packets), NEW st \in SUBSET Callbacks, NEW n,
           NEW x \in Packets, Held(q, st, n),
           x.cb, x.sender \in Callbacks \ st, x.id = n[x.sender]
    PROVE  Held(q \o <<x>>, st \cup {x.sender}, n)
<1> DEFINE t == q \o <<x>>
           k == Len(q) + 1
<1>1. /\ DOMAIN t = DOMAIN q \cup {k} /\ k \notin DOMAIN q
      /\ t[k] = x /\ \A i \in DOMAIN q : t[i] = q[i]
  OBVIOUS
<1> HIDE DEF t, k
<1>2. \A i \in DOMAIN q : q[i].sender # x.sender
  BY Zenon DEF Held
<1>3. \A i \in DOMAIN t : t[i].cb <=> t[i].sender \in Callbacks
  BY <1>1, Zenon DEF Held
<1>4. ASSUME NEW i \in DOMAIN t, t[i].cb
      PROVE  t[i].sender \in st \cup {x.sender} /\ t[i].id = n[t[i].sender]
  <2>1. CASE i = k
    BY <1>1, <2>1, Zenon
  <2>2. CASE i # k
    <3>1. i \in DOMAIN q /\ t[i] = q[i]
      BY <1>1, <2>2, Zenon
    <3> QED BY <1>4, <3>1, Zenon DEF Held
  <2> QED BY <2>1, <2>2
<1>5. \A i, j \in DOMAIN t : t[i].cb /\ t[i].sender = t[j].sender => i = j
  <2> SUFFICES ASSUME NEW i \in DOMAIN t, NEW j \in DOMAIN t, t[i].cb,
                      t[i].sender = t[j].sender
               PROVE  i = j
    OBVIOUS
  <2>1. CASE i \in DOMAIN q /\ j \in DOMAIN q
    <3>1. q[i].cb /\ q[i].sender = q[j].sender
      BY <1>1, <2>1, Zenon
    <3> QED BY <2>1, <3>1, Zenon DEF Held
  <2>2. CASE ~(i \in DOMAIN q /\ j \in DOMAIN q)
    BY <1>1, <1>2, <2>2, Zenon
  <2> QED BY <2>1, <2>2
<1>6. ASSUME NEW s \in st \cup {x.sender}
      PROVE  \E i \in DOMAIN t : t[i].cb /\ t[i].sender = s
  <2>1. CASE s = x.sender
    BY <1>1, <2>1, Zenon
  <2>2. CASE s \in st
    <3>1. PICK i \in DOMAIN q : q[i].cb /\ q[i].sender = s
      BY <2>2, Zenon DEF Held
    <3>2. i \in DOMAIN t /\ t[i] = q[i]
      BY <1>1, Zenon
    <3> QED BY <3>1, <3>2, Zenon
  <2> QED BY <2>1, <2>2
<1> QED BY <1>3, <1>4, <1>5, <1>6, Zenon DEF Held, t

(* The first packet leaves the queue and, with a callback, resumes its     *)
(* sender.                                                                 *)
LEMMA HeldTail ==
    ASSUME NEW q \in Seq(Packets), NEW st \in SUBSET Callbacks, NEW n,
           q # <<>>, Held(q, st, n)
    PROVE  /\ Tail(q) \in Seq(Packets)
           /\ Held(Tail(q), IF Head(q).cb THEN st \ {Head(q).sender} ELSE st, n)
<1> DEFINE t == Tail(q)
           x == Head(q)
           u == IF x.cb THEN st \ {x.sender} ELSE st
<1>1. /\ t \in Seq(Packets) /\ x = q[1] /\ 1 \in DOMAIN q
      /\ \A i \in DOMAIN t : i + 1 \in DOMAIN q /\ i + 1 # 1 /\ t[i] = q[i + 1]
      /\ \A i \in DOMAIN q : i # 1 => i - 1 \in DOMAIN t /\ q[i] = t[i - 1]
      /\ DOMAIN t \subseteq Nat
  OBVIOUS
<1> HIDE DEF t, x
<1>2. ASSUME NEW i \in DOMAIN t PROVE t[i].cb <=> t[i].sender \in Callbacks
  <2>1. i + 1 \in DOMAIN q /\ t[i] = q[i + 1]
    BY <1>1, Zenon
  <2>2. q[i + 1].cb <=> q[i + 1].sender \in Callbacks
    BY <2>1, Zenon DEF Held
  <2> QED BY <2>1, <2>2, Zenon
<1>3. ASSUME NEW i \in DOMAIN t, t[i].cb
      PROVE  t[i].sender \in u /\ t[i].id = n[t[i].sender]
  <2>1. i + 1 \in DOMAIN q /\ i + 1 # 1 /\ t[i] = q[i + 1]
    BY <1>1, Zenon
  <2>2. t[i].sender \in st /\ t[i].id = n[t[i].sender]
    BY <1>3, <2>1, Zenon DEF Held
  <2>3. x.cb => t[i].sender # x.sender
    <3> SUFFICES ASSUME x.cb, t[i].sender = x.sender PROVE FALSE
      OBVIOUS
    <3>1. q[1].cb /\ q[1].sender = q[i + 1].sender
      BY <1>1, <2>1, Zenon
    <3>2. 1 = i + 1
      BY <1>1, <2>1, <3>1, Zenon DEF Held
    <3> QED BY <2>1, <3>2, Zenon
  <2> QED BY <2>2, <2>3, Zenon
<1>4. ASSUME NEW i \in DOMAIN t, NEW j \in DOMAIN t, t[i].cb, t[i].sender = t[j].sender
      PROVE  i = j
  <2>0. i + 1 \in DOMAIN q /\ j + 1 \in DOMAIN q /\ t[i] = q[i + 1] /\ t[j] = q[j + 1]
    BY <1>1, Zenon
  <2>1. i + 1 = j + 1
    <3>1. q[i + 1].cb /\ q[i + 1].sender = q[j + 1].sender
      BY <1>4, <2>0, Zenon
    <3> QED BY <2>0, <3>1, Zenon DEF Held
  <2>2. i \in Nat /\ j \in Nat
    BY <1>1, Zenon
  <2> QED BY <2>1, <2>2
<1>5. ASSUME NEW s \in u PROVE \E i \in DOMAIN t : t[i].cb /\ t[i].sender = s
  <2>1. PICK i \in DOMAIN q : q[i].cb /\ q[i].sender = s
    BY Zenon DEF Held
  <2>2. i # 1
    BY <1>1, <2>1, Zenon
  <2> QED BY <1>1, <2>1, <2>2, Zenon
<1> QED BY <1>1, <1>2, <1>3, <1>4, <1>5, Zenon DEF Held, t, x

(* The packets that a receive handler may send.                            *)
LEMMA RepliesTyped ==
    ASSUME TypeOK, NEW p, NEW rs \in Replies(p)
    PROVE  /\ rs \in Seq(Packets)
           /\ \A i \in DOMAIN rs : /\ ~rs[i].cb /\ rs[i].sender \notin Callbacks
                                   /\ rs[i].sender \notin Refusers
           /\ IsFiniteSet(DOMAIN rs)
<1>1. CASE rs = <<>>
  <2>1. DOMAIN rs = {} /\ rs \in Seq(Packets)
    BY <1>1
  <2> QED BY <2>1, FS_EmptySet
<1>2. CASE \E r \in Repliers : rs = <<Packet(r, FALSE)>>
  <2>1. PICK r \in Repliers : rs = <<Packet(r, FALSE)>>
    BY <1>2, Zenon
  <2>2. r \in All /\ r \notin Callbacks /\ r \notin Refusers /\ sent[r] + 1 \in Nat \ {0}
    BY NetAssumption DEF TypeOK
  <2>3. Packet(r, FALSE) \in Packets /\ ~Packet(r, FALSE).cb /\ Packet(r, FALSE).sender = r
    BY <2>2 DEF Packet, Packets
  <2> DEFINE x == Packet(r, FALSE)
  <2> HIDE DEF x
  <2>4. rs \in Seq(Packets) /\ DOMAIN rs = {1} /\ rs[1] = x
    <3>1. x \in Packets /\ rs = <<x>>
      BY <2>1, <2>3, Zenon DEF x
    <3> QED BY <3>1
  <2>5. ~x.cb /\ x.sender \notin Callbacks /\ x.sender \notin Refusers
    BY <2>2, <2>3, Zenon DEF x
  <2>6. IsFiniteSet(DOMAIN rs)
    BY <2>4, FS_Singleton, Zenon
  <2> QED BY <2>4, <2>5, <2>6, Zenon
<1> QED BY <1>1, <1>2, Zenon DEF Replies

(* A reply is no packet of a sender with callbacks.                        *)
LEMMA CountedTyped ==
    ASSUME TypeOK, NEW s, NEW rs, IsFiniteSet(DOMAIN rs),
           \A i \in DOMAIN rs : rs[i].sender \notin Callbacks
    PROVE  /\ Counted(s, rs) \in [All -> Nat]
           /\ \A c \in Callbacks :
                Counted(s, rs)[c] = sent[c] + (IF c = s THEN 1 ELSE 0)
<1> DEFINE Of(c) == {i \in DOMAIN rs : rs[i].sender = c}
<1>1. \A c : Cardinality(Of(c)) \in Nat
  <2> SUFFICES ASSUME NEW c PROVE Cardinality(Of(c)) \in Nat
    BY Zenon
  <2>1. Of(c) \in SUBSET DOMAIN rs
    OBVIOUS
  <2> HIDE DEF Of
  <2>2. IsFiniteSet(Of(c))
    BY <2>1, FS_Subset
  <2> QED BY <2>2, FS_CardinalityType
<1>2. \A c \in Callbacks : Cardinality(Of(c)) = 0
  <2> SUFFICES ASSUME NEW c \in Callbacks PROVE Cardinality(Of(c)) = 0
    OBVIOUS
  <2>1. Of(c) = {}
    OBVIOUS
  <2> HIDE DEF Of
  <2> QED BY <2>1, FS_EmptySet
<1>3. Counted(s, rs) = [c \in All |-> sent[c] + (IF c = s THEN 1 ELSE 0) + Cardinality(Of(c))]
  BY Zenon DEF Counted
<1> HIDE DEF Of
<1>4. sent \in [All -> Nat] /\ Callbacks \subseteq All
  BY NetAssumption DEF TypeOK
<1> QED BY <1>1, <1>2, <1>3, <1>4

(* A delivery of a packet that is no older than the ones of its sender     *)
(* that came before.                                                       *)
LEMMA Delivered ==
    ASSUME NetInv, NEW p \in Packets, NEW iov \in BOOLEAN, NEW drop,
           p.sender \in Callbacks => \A x \in All : net.last[x][p.sender] <= p.id
    PROVE  LET d == qemu_vlan_deliver_packet(p, iov, drop)
           IN  /\ d.net \in Nets
               /\ d.net.late \cap Callbacks = {}
               /\ d.ret = 0 => Awaited(d.net, p)
               /\ \A q : Awaited(net, q) => Awaited(d.net, q)
               /\ \A x, s \in All : \/ d.net.last[x][s] = net.last[x][s]
                                    \/ s = p.sender /\ d.net.last[x][s] = p.id
<1> DEFINE d == qemu_vlan_deliver_packet(p, iov, drop)
<1>1. net \in Nets
  BY DEF NetInv, TypeOK, Nets
<1>2. Carries(d, p)
  BY <1>1, DeliveryCarries
<1> HIDE DEF d
<1>3. d.net \in Nets
  BY <1>2 DEF Carries
<1>4. d.net.late \cap Callbacks = {}
  <2>1. net.late \cap Callbacks = {}
    BY DEF NetInv, InOrder
  <2>2. CASE p.sender \in Callbacks
    <3>1. d.net.late = net.late
      BY <1>2, <2>2, Zenon DEF Carries
    <3> QED BY <2>1, <3>1
  <2>3. CASE p.sender \notin Callbacks
    <3>1. d.net.late \subseteq net.late \cup {p.sender}
      BY <1>2, Zenon DEF Carries
    <3> QED BY <2>1, <2>3, <3>1
  <2> QED BY <2>2, <2>3
<1>5. \A q : Awaited(net, q) => Awaited(d.net, q)
  <2> SUFFICES ASSUME NEW q, Awaited(net, q) PROVE Awaited(d.net, q)
    OBVIOUS
  <2>1. PICK c \in Refusers \ {q.sender} : c \in net.disabled \/ net.room[c] = 0
    BY DEF Awaited
  <2>2. c \in d.net.disabled \/ d.net.room[c] = 0
    BY <1>2, <2>1, Zenon DEF Carries
  <2> QED BY <2>2 DEF Awaited
<1> QED BY <1>2, <1>3, <1>4, <1>5, Zenon DEF Carries, d

(* A send: the packet has the number after the last, and is kept with the  *)
(* sender waiting, or delivered.                                           *)
LEMMA SendStep ==
    ASSUME NetInv, NEW s \in All, NEW drop, qemu_net_queue_send(s, drop)
    PROVE  NetInv'
<1> DEFINE p == Packet(s, s \in Callbacks)
           iov == s \in Vectors
           d == qemu_vlan_deliver_packet(p, iov, drop)
<1>1. /\ packets \in Seq(Packets) /\ net \in Nets /\ sent \in [All -> Nat]
      /\ stopped \in SUBSET Callbacks /\ flushes \in Seq(All \cup {None}) /\ Callbacks \subseteq All
      /\ link_down \in SUBSET All /\ TypeOK
  BY NetAssumption, SMTT(20) DEF NetInv, TypeOK, Nets
<1>2. s \notin stopped /\ link_down' = link_down
  BY DEF qemu_net_queue_send
<1>3. /\ p \in Packets /\ p.sender = s /\ p.id = sent[s] + 1
      /\ p.cb = (s \in Callbacks) /\ iov \in BOOLEAN
  BY <1>1 DEF Packet, Packets
<1>4. NoneAhead(net) /\ Held(packets, stopped, sent) /\ InOrder
      /\ (packets # <<>> /\ flushes = <<>> => Awaited(net, Head(packets)))
  BY DEF NetInv
<1>5. CASE s \in link_down
  <2>1. sent' = Counted(s, <<>>) /\ UNCHANGED <<packets, net, stopped, flushes>>
    BY <1>5, Zenon DEF qemu_net_queue_send
  <2>2. DOMAIN <<>> = {} /\ <<>> \in Seq(Packets) /\ packets \o <<>> = packets
    BY <1>1
  <2>3. /\ sent' \in [All -> Nat]
        /\ \A c \in Callbacks : sent'[c] = sent[c] + (IF c = s THEN 1 ELSE 0)
    <3> DEFINE none == <<>>
    <3>1. DOMAIN none = {}
      OBVIOUS
    <3>2. sent' = Counted(s, none)
      BY <2>1
    <3> HIDE DEF none
    <3>3. IsFiniteSet(DOMAIN none) /\ \A i \in DOMAIN none : none[i].sender \notin Callbacks
      BY <3>1, FS_EmptySet
    <3> QED BY <1>1, <3>2, <3>3, CountedTyped
  <2>4. \A c \in stopped : sent'[c] = sent[c]
    BY <1>1, <1>2, <2>3
  <2>5. Held(packets, stopped, sent')
    BY <1>1, <1>4, <2>2, <2>4, HeldAppend, Zenon
  <2>6. \A c \in All, b \in Callbacks : net.last[c][b] <= sent'[b]
    <3> SUFFICES ASSUME NEW c \in All, NEW b \in Callbacks PROVE net.last[c][b] <= sent'[b]
      OBVIOUS
    <3>1. net.last[c][b] <= sent[b] /\ net.last[c][b] \in Nat /\ sent[b] \in Nat
      BY <1>1, <1>4 DEF NoneAhead, Nets
    <3> QED BY <2>3, <3>1
  <2>7. TypeOK'
    BY <1>1, <1>2, <2>1, <2>3, Zenon DEF TypeOK, Nets
  <2> QED BY <1>4, <2>1, <2>5, <2>6, <2>7, Zenon DEF NetInv, NoneAhead, Awaited, InOrder
<1>6. CASE s \notin link_down
  <2>1. PICK rs \in Replies(p) :
          /\ net' = d.net
          /\ sent' = Counted(s, rs)
          /\ IF d.ret = 0
             THEN /\ qemu_net_queue_append(s, rs)
                  /\ Stops(s)
                  /\ UNCHANGED flushes
             ELSE /\ packets' = packets \o rs
                  /\ flushes' = <<None>> \o flushes
                  /\ UNCHANGED stopped
    BY <1>6, Zenon DEF qemu_net_queue_send
  <2> HIDE DEF p, iov
  <2>2. /\ rs \in Seq(Packets) /\ IsFiniteSet(DOMAIN rs)
        /\ \A i \in DOMAIN rs : /\ ~rs[i].cb /\ rs[i].sender \notin Callbacks
                                /\ rs[i].sender \notin Refusers
    BY <1>1, RepliesTyped, Zenon
  <2>3. /\ sent' \in [All -> Nat]
        /\ \A c \in Callbacks : sent'[c] = sent[c] + (IF c = s THEN 1 ELSE 0)
    <3>1. \A i \in DOMAIN rs : rs[i].sender \notin Callbacks
      BY <2>2, Zenon
    <3> QED BY <1>1, <2>1, <2>2, <3>1, CountedTyped
  <2>4. \A c \in stopped : sent'[c] = sent[c]
    BY <1>1, <1>2, <2>3
  <2>5. p.sender \in Callbacks => \A x \in All : net.last[x][p.sender] <= p.id
    <3> SUFFICES ASSUME s \in Callbacks, NEW x \in All PROVE net.last[x][s] <= sent[s] + 1
      BY <1>3, Zenon
    <3>1. net.last[x][s] <= sent[s] /\ net.last[x][s] \in Nat /\ sent[s] \in Nat
      BY <1>1, <1>4 DEF NoneAhead, Nets
    <3> QED BY <3>1
  <2>6. /\ d.net \in Nets
        /\ d.net.late \cap Callbacks = {}
        /\ d.ret = 0 => Awaited(d.net, p)
        /\ \A q : Awaited(net, q) => Awaited(d.net, q)
        /\ \A x, b \in All : \/ d.net.last[x][b] = net.last[x][b]
                             \/ b = p.sender /\ d.net.last[x][b] = p.id
    <3>1. p \in Packets /\ iov \in BOOLEAN
      BY <1>3, Zenon
    <3> QED BY <2>5, <3>1, Delivered
  <2> HIDE DEF d
  <2>7. Held(packets \o rs, stopped, sent') /\ packets \o rs \in Seq(Packets)
    <3>1. packets \o rs \in Seq(Packets)
      BY <1>1, <2>2
    <3> QED BY <1>1, <1>4, <2>2, <2>4, <3>1, HeldAppend, Zenon
  <2>8. \A c \in All, b \in Callbacks : net'.last[c][b] <= sent'[b]
    <3> SUFFICES ASSUME NEW c \in All, NEW b \in Callbacks PROVE net'.last[c][b] <= sent'[b]
      OBVIOUS
    <3>1. net.last[c][b] <= sent[b] /\ net.last[c][b] \in Nat /\ sent[b] \in Nat
      BY <1>1, <1>4 DEF NoneAhead, Nets
    <3>2. \/ net'.last[c][b] = net.last[c][b]
          \/ b = s /\ net'.last[c][b] = sent[s] + 1
      BY <1>1, <1>3, <2>1, <2>6, Zenon
    <3> QED BY <2>3, <3>1, <3>2
  <2>9. CASE d.ret = 0
    <3>1. /\ packets' = packets \o rs \o <<p>> /\ flushes' = flushes
          /\ stopped' = stopped \cup ({s} \cap Callbacks)
      BY <2>1, <2>9, Zenon DEF qemu_net_queue_append, Stops, p
    <3> DEFINE q == packets \o rs
               one == <<p>>
    <3>2. packets' \in Seq(Packets) /\ stopped' \in SUBSET Callbacks
      <4>1. q \in Seq(Packets) /\ one \in Seq(Packets) /\ packets' = q \o one
        BY <1>3, <2>7, <3>1
      <4> HIDE DEF q, one
      <4>2. packets' \in Seq(Packets)
        BY <4>1
      <4>3. stopped' \in SUBSET Callbacks
        BY <1>1, <3>1
      <4> QED BY <4>2, <4>3
    <3>3. Held(packets', stopped', sent')
      <4>1. CASE s \in Callbacks
        <5>1. stopped' = stopped \cup {p.sender} /\ p.cb /\ p.sender \in Callbacks \ stopped
          BY <1>2, <1>3, <3>1, <4>1, Zenon
        <5>2. p.id = sent'[p.sender]
          BY <1>3, <2>3, <4>1
        <5>3. q \in Seq(Packets) /\ Held(q, stopped, sent') /\ packets' = q \o <<p>>
          BY <2>7, <3>1, Zenon
        <5> HIDE DEF q
        <5> QED BY <1>1, <1>3, <5>1, <5>2, <5>3, HeldStop, Zenon
      <4>2. CASE s \notin Callbacks
        <5>0. ~p.cb /\ p.sender \notin Callbacks /\ stopped' = stopped
          BY <1>3, <3>1, <4>2, Zenon
        <5>1. /\ one \in Seq(Packets)
              /\ \A i \in DOMAIN one : ~one[i].cb /\ one[i].sender \notin Callbacks
          BY <1>3, <5>0
        <5>2. packets' = (packets \o rs) \o one
          BY <3>1
        <5> HIDE DEF one
        <5> QED BY <1>1, <2>7, <5>0, <5>1, <5>2, HeldAppend, Zenon
      <4> QED BY <4>1, <4>2
    <3>4. packets' # <<>> /\ flushes' = <<>> => Awaited(net', Head(packets'))
      <4> SUFFICES ASSUME flushes = <<>> PROVE Awaited(net', Head(packets'))
        BY <3>1
      <4>1. CASE packets # <<>>
        <5>1. Head(packets') = Head(packets)
          BY <1>1, <1>3, <2>2, <3>1, <4>1
        <5> QED BY <1>4, <2>1, <2>6, <4>1, <5>1, Zenon
      <4>2. CASE packets = <<>> /\ rs = <<>>
        <5>1. Head(packets') = p
          BY <3>1, <4>2
        <5> QED BY <2>1, <2>6, <2>9, <5>1, Zenon
      <4>3. CASE packets = <<>> /\ rs # <<>>
        <5>1. Head(packets') = rs[1] /\ 1 \in DOMAIN rs
          BY <1>3, <2>2, <3>1, <4>3
        <5>2. rs[1].sender \notin Refusers
          BY <2>2, <5>1, Zenon
        <5>3. PICK c \in Refusers \ {p.sender} : c \in net'.disabled \/ net'.room[c] = 0
          BY <2>1, <2>6, <2>9, Zenon DEF Awaited
        <5> QED BY <5>1, <5>2, <5>3 DEF Awaited
      <4> QED BY <4>1, <4>2, <4>3
    <3>5. TypeOK'
      BY <1>1, <1>2, <2>1, <2>3, <2>6, <3>1, <3>2, Zenon DEF TypeOK, Nets
    <3> QED BY <2>1, <2>6, <2>8, <3>3, <3>4, <3>5, Zenon DEF NetInv, NoneAhead, Awaited, InOrder
  <2>10. CASE d.ret # 0
    <3>1. packets' = packets \o rs /\ flushes' = <<None>> \o flushes /\ stopped' = stopped
      BY <2>1, <2>10, Zenon
    <3>2. flushes' \in Seq(All \cup {None}) /\ flushes' # <<>>
      <4> DEFINE S == All \cup {None}
      <4>1. None \in S /\ flushes \in Seq(S)
        BY <1>1
      <4> HIDE DEF S
      <4>2. flushes' \in Seq(S) /\ flushes' # <<>>
        BY <3>1, <4>1
      <4> QED BY <4>2 DEF S
    <3>3. TypeOK'
      BY <1>1, <1>2, <2>1, <2>3, <2>6, <2>7, <3>1, <3>2, Zenon DEF TypeOK, Nets
    <3> QED BY <2>1, <2>6, <2>7, <2>8, <3>1, <3>2, <3>3, Zenon DEF NetInv, NoneAhead, InOrder
  <2> QED BY <2>9, <2>10
<1> QED BY <1>5, <1>6

(* A turn of a flush: the first packet is delivered and leaves the queue,  *)
(* resuming its sender, or stays the first.                                *)
LEMMA FlushStep ==
    ASSUME NetInv, NEW drop, qemu_net_queue_flush(drop)
    PROVE  NetInv'
<1>1. /\ packets \in Seq(Packets) /\ net \in Nets /\ sent \in [All -> Nat]
      /\ stopped \in SUBSET Callbacks /\ flushes \in Seq(All \cup {None}) /\ Callbacks \subseteq All
      /\ link_down \in SUBSET All /\ TypeOK
  BY NetAssumption DEF NetInv, TypeOK, Nets
<1>2. flushes # <<>> /\ link_down' = link_down
  BY DEF qemu_net_queue_flush
<1>3. NoneAhead(net) /\ Held(packets, stopped, sent) /\ InOrder
  BY DEF NetInv
<1>4. Tail(flushes) \in Seq(All \cup {None})
  BY <1>1, <1>2
<1>5. CASE packets = <<>>
  <2>1. /\ flushes' = Tail(flushes)
        /\ UNCHANGED <<packets, net, stopped, sent>>
    BY <1>5, Zenon DEF qemu_net_queue_flush, EndOfFlush
  <2>2. TypeOK'
    BY <1>1, <1>2, <1>4, <2>1, Zenon DEF TypeOK, Nets
  <2> QED BY <1>3, <1>5, <2>1, <2>2, Zenon DEF NetInv, NoneAhead, InOrder
<1>6. CASE packets # <<>>
  <2> DEFINE p == Head(packets)
             d == qemu_vlan_deliver_packet(p, FALSE, drop)
  <2>1. PICK rs \in Replies(p) :
          /\ net' = d.net
          /\ sent' = Counted(None, rs)
          /\ IF d.ret = 0
             THEN KeepFirst(p, rs) /\ EndOfFlush /\ UNCHANGED stopped
             ELSE /\ packets' = Tail(packets) \o rs
                  /\ stopped' = IF p.cb THEN stopped \ {p.sender} ELSE stopped
                  /\ flushes' = <<IF p.cb THEN p.sender ELSE None>> \o Tail(flushes)
    BY <1>6, Zenon DEF qemu_net_queue_flush
  <2>2. p \in Packets /\ p = packets[1] /\ 1 \in DOMAIN packets /\ p.sender \in All
    <3>1. p \in Packets /\ p = packets[1] /\ 1 \in DOMAIN packets
      BY <1>1, <1>6
    <3> QED BY <3>1 DEF Packets
  <2>3. /\ rs \in Seq(Packets) /\ IsFiniteSet(DOMAIN rs)
        /\ \A i \in DOMAIN rs : ~rs[i].cb /\ rs[i].sender \notin Callbacks
    <3> HIDE DEF p
    <3> QED BY <1>1, RepliesTyped, Zenon
  <2>4. sent' \in [All -> Nat] /\ \A c \in Callbacks : sent'[c] = sent[c]
    <3>1. \A i \in DOMAIN rs : rs[i].sender \notin Callbacks
      BY <2>3, Zenon
    <3>2. /\ sent' \in [All -> Nat]
          /\ \A c \in Callbacks : sent'[c] = sent[c] + (IF c = None THEN 1 ELSE 0)
      BY <1>1, <2>1, <2>3, <3>1, CountedTyped
    <3>3. ASSUME NEW c \in Callbacks PROVE sent'[c] = sent[c]
      <4>1. c # None /\ sent[c] \in Nat
        BY <1>1, NetAssumption
      <4>2. sent'[c] = sent[c] + 0
        BY <3>2, <4>1, Zenon
      <4> QED BY <4>1, <4>2
    <3> QED BY <3>2, <3>3, Zenon
  <2> HIDE DEF p
  <2>5. p.sender \in Callbacks => /\ p.id = sent[p.sender]
                                  /\ \A x \in All : net.last[x][p.sender] <= p.id
    <3> SUFFICES ASSUME p.sender \in Callbacks
                 PROVE  /\ p.id = sent[p.sender]
                        /\ \A x \in All : net.last[x][p.sender] <= p.id
      OBVIOUS
    <3>1. p.cb
      BY <1>3, <2>2, Zenon DEF Held
    <3>2. p.id = sent[p.sender]
      BY <1>3, <2>2, <3>1, Zenon DEF Held
    <3> QED BY <1>3, <3>2, Zenon DEF NoneAhead
  <2>6. /\ d.net \in Nets
        /\ d.net.late \cap Callbacks = {}
        /\ d.ret = 0 => Awaited(d.net, p)
        /\ \A x, b \in All : \/ d.net.last[x][b] = net.last[x][b]
                             \/ b = p.sender /\ d.net.last[x][b] = p.id
    <3> DEFINE iov == FALSE
    <3>1. iov \in BOOLEAN
      OBVIOUS
    <3>2. p.sender \in Callbacks => \A x \in All : net.last[x][p.sender] <= p.id
      BY <2>5, Zenon
    <3>3. d = qemu_vlan_deliver_packet(p, iov, drop)
      OBVIOUS
    <3> HIDE DEF iov, d
    <3> QED BY <2>2, <3>1, <3>2, <3>3, Delivered
  <2> HIDE DEF d
  <2>7. \A c \in All, b \in Callbacks : net'.last[c][b] <= sent'[b]
    <3> SUFFICES ASSUME NEW c \in All, NEW b \in Callbacks PROVE net'.last[c][b] <= sent'[b]
      OBVIOUS
    <3>1. net.last[c][b] <= sent[b] /\ sent[b] \in Nat /\ sent'[b] = sent[b]
      BY <1>1, <1>3, <2>4 DEF NoneAhead, Nets
    <3>2. net'.last[c][b] = net.last[c][b] \/ net'.last[c][b] = sent[b]
      BY <1>1, <2>1, <2>5, <2>6, ZenonT(30)
    <3> QED BY <3>1, <3>2
  <2>8. CASE d.ret = 0
    <3>1. /\ packets' = <<p>> \o Tail(packets) \o rs /\ flushes' = Tail(flushes)
          /\ stopped' = stopped
      BY <2>1, <2>8, Zenon DEF KeepFirst, EndOfFlush
    <3>2. packets' = packets \o rs /\ packets' \in Seq(Packets) /\ Head(packets') = p
      <4>1. <<p>> \o Tail(packets) = packets
        BY <1>1, <1>6, <2>2
      <4>2. packets' = packets \o rs
        BY <3>1, <4>1, Zenon
      <4> QED BY <1>1, <1>6, <2>2, <2>3, <4>2
    <3>3. Held(packets', stopped', sent')
      <4>1. \A c \in stopped : sent'[c] = sent[c]
        BY <1>1, <2>4
      <4> QED BY <1>1, <1>3, <2>3, <3>1, <3>2, <4>1, HeldAppend, Zenon
    <3>4. TypeOK'
      BY <1>1, <1>2, <1>4, <2>1, <2>4, <2>6, <3>1, <3>2, Zenon DEF TypeOK, Nets
    <3>5. Awaited(net', Head(packets'))
      BY <2>1, <2>6, <2>8, <3>2, Zenon
    <3> QED BY <2>1, <2>6, <2>7, <3>3, <3>4, <3>5, Zenon DEF NetInv, NoneAhead, Awaited, InOrder
  <2>9. CASE d.ret # 0
    <3> DEFINE t == Tail(packets)
               u == IF p.cb THEN stopped \ {p.sender} ELSE stopped
    <3>1. packets' = t \o rs /\ stopped' = u
          /\ flushes' = <<IF p.cb THEN p.sender ELSE None>> \o Tail(flushes)
      BY <2>1, <2>9, Zenon
    <3>2. t \in Seq(Packets) /\ Held(t, u, sent) /\ u \in SUBSET Callbacks
      <4>1. u \in SUBSET Callbacks
        BY <1>1
      <4> QED BY <1>1, <1>3, <1>6, <4>1, HeldTail, Zenon DEF p
    <3>3. \A c \in u : sent'[c] = sent[c]
      BY <1>1, <2>4
    <3> HIDE DEF t, u
    <3>4. Held(packets', stopped', sent')
      BY <2>3, <3>1, <3>2, <3>3, HeldAppend, Zenon
    <3>5. packets' \in Seq(Packets)
      BY <2>3, <3>1, <3>2
    <3>6. flushes' \in Seq(All \cup {None}) /\ flushes' # <<>>
      <4> DEFINE S == All \cup {None}
                 x == IF p.cb THEN p.sender ELSE None
                 r == Tail(flushes)
      <4>1. x \in S /\ r \in Seq(S) /\ flushes' = <<x>> \o r
        BY <1>4, <2>2, <3>1
      <4> HIDE DEF S, x, r
      <4>2. flushes' \in Seq(S) /\ flushes' # <<>>
        BY <4>1
      <4> QED BY <4>2 DEF S
    <3>7. TypeOK'
      BY <1>1, <1>2, <2>1, <2>4, <2>6, <3>1, <3>2, <3>5, <3>6, Zenon DEF TypeOK, Nets
    <3> QED BY <2>1, <2>6, <2>7, <3>4, <3>6, <3>7, Zenon DEF NetInv, NoneAhead, InOrder
  <2> QED BY <2>8, <2>9
<1> QED BY <1>5, <1>6

(* A client that asks for packets starts a flush; the monitor changes no   *)
(* queue.                                                                  *)
LEMMA OtherStep ==
    ASSUME NetInv,
           \/ \E c \in Refusers : qemu_flush_queued_packets(c)
           \/ \E c \in All : do_set_link(c)
           \/ UNCHANGED vars
    PROVE  NetInv'
<1>1. ASSUME NEW c \in Refusers, qemu_flush_queued_packets(c) PROVE NetInv'
  <2>1. /\ net' = [net EXCEPT !.room[c] = Room, !.disabled = @ \ {c}]
        /\ flushes' = <<None>> /\ UNCHANGED <<packets, link_down, stopped, sent>>
    BY <1>1, Zenon DEF qemu_flush_queued_packets
  <2>2. net \in Nets /\ Room \in Nat
    BY NetAssumption, Zenon DEF NetInv, TypeOK, Nets
  <2>3. net' \in Nets /\ net'.last = net.last /\ net'.late = net.late
    <3>1. net' = [disabled |-> net.disabled \ {c}, room |-> [net.room EXCEPT ![c] = Room],
                  last |-> net.last, late |-> net.late]
      BY <2>1, <2>2, Zenon DEF Nets
    <3>2. /\ net.disabled \in SUBSET Refusers /\ net.room \in [Refusers -> 0 .. Room]
          /\ net.last \in [All -> [All -> Nat]] /\ net.late \in SUBSET All
      BY <2>2 DEF Nets
    <3>3. /\ net.disabled \ {c} \in SUBSET Refusers
          /\ [net.room EXCEPT ![c] = Room] \in [Refusers -> 0 .. Room]
      BY <2>2, <3>2
    <3> QED BY <3>1, <3>2, <3>3, Zenon DEF Nets
  <2>4. flushes' # <<>> /\ flushes' \in Seq(All \cup {None})
    BY <2>1
  <2>5. TypeOK'
    BY <2>1, <2>3, <2>4, Zenon DEF NetInv, TypeOK, Nets
  <2> QED BY <2>1, <2>3, <2>4, <2>5, Zenon DEF NetInv, NoneAhead, InOrder
<1>2. ASSUME NEW c \in All, do_set_link(c) PROVE NetInv'
  <2>1. /\ link_down' = IF c \in link_down THEN link_down \ {c} ELSE link_down \cup {c}
        /\ UNCHANGED <<packets, net, stopped, sent, flushes>>
    BY <1>2 DEF do_set_link
  <2>2. link_down' \in SUBSET All
    BY <2>1 DEF NetInv, TypeOK
  <2>3. TypeOK'
    BY <2>1, <2>2, Zenon DEF NetInv, TypeOK
  <2> QED BY <2>1, <2>3, Zenon DEF NetInv, NoneAhead, InOrder, Awaited
<1>3. CASE UNCHANGED vars
  BY <1>3, Zenon DEF vars, NetInv, TypeOK, NoneAhead, InOrder, Awaited
<1> QED BY <1>1, <1>2, <1>3

(* An empty queue.                                                         *)
LEMMA InitNet == Init => NetInv
<1> SUFFICES ASSUME Init PROVE NetInv
  OBVIOUS
<1>1. /\ packets = <<>> /\ stopped = {} /\ sent = [c \in All |-> 0] /\ link_down = {}
      /\ net = [disabled |-> {}, room |-> [c \in Refusers |-> Room],
                last |-> [c \in All |-> [s \in All |-> 0]], late |-> {}]
      /\ flushes = <<>>
  BY DEF Init
<1>2. TypeOK
  BY <1>1, NetAssumption DEF TypeOK
<1>3. DOMAIN packets = {}
  BY <1>1
<1>4. Held(packets, stopped, sent)
  BY <1>1, <1>3, Zenon DEF Held
<1>5. NoneAhead(net)
  BY <1>1, NetAssumption DEF NoneAhead
<1>6. InOrder
  BY <1>1 DEF InOrder
<1> QED BY <1>1, <1>2, <1>4, <1>5, <1>6, Zenon DEF NetInv

(* NetInv is inductive.                                                    *)
THEOREM NetInvariance == Spec => []NetInv
<1>1. NetInv /\ [Next]_vars => NetInv'
  BY SendStep, FlushStep, OtherStep DEF Next
<1> QED BY <1>1, InitNet, PTL DEF Spec

(* The variables of NetQueue keep their types.                             *)
THEOREM NetTyped == Spec => []TypeOK
<1>1. NetInv => TypeOK
  BY DEF NetInv
<1> QED BY <1>1, NetInvariance, PTL

(* Packets of a sender with callbacks come to every client in the order    *)
(* sent, however refusals, replies from receive handlers, sends from       *)
(* callbacks and link changes interleave (qemu_net_queue_send, _flush).    *)
THEOREM NetInOrder == Spec => []InOrder
<1>1. NetInv => InOrder
  BY DEF NetInv
<1> QED BY <1>1, NetInvariance, PTL

(* A sender that waits has one packet in the queue that calls it back, one *)
(* that does not has none; and some client will ask for the first packet   *)
(* of a queue that no one flushes (qemu_net_queue_append, sent_cb).        *)
THEOREM NetCallbackOwed == Spec => []CallbackOwed
<1>1. NetInv => CallbackOwed
  <2> SUFFICES ASSUME NetInv PROVE CallbackOwed
    OBVIOUS
  <2>1. ASSUME NEW s \in Callbacks
        PROVE  Cardinality({i \in DOMAIN packets : packets[i].sender = s /\ packets[i].cb})
                 = IF s \in stopped THEN 1 ELSE 0
    <3> DEFINE Owed == {i \in DOMAIN packets : packets[i].sender = s /\ packets[i].cb}
    <3>1. Held(packets, stopped, sent)
      BY DEF NetInv
    <3>2. CASE s \in stopped
      <4>1. PICK i \in DOMAIN packets : packets[i].cb /\ packets[i].sender = s
        BY <3>1, <3>2, Zenon DEF Held
      <4>2. \A j \in DOMAIN packets : packets[j].sender = s => j = i
        BY <3>1, <4>1, Zenon DEF Held
      <4>3. Owed = {i}
        BY <4>1, <4>2, Zenon
      <4> HIDE DEF Owed
      <4>4. Cardinality(Owed) = 1
        BY <4>3, FS_Singleton
      <4> QED BY <3>2, <4>4, Zenon DEF Owed
    <3>3. CASE s \notin stopped
      <4>1. ASSUME NEW i \in Owed PROVE FALSE
        <5>1. i \in DOMAIN packets /\ packets[i].cb /\ packets[i].sender = s
          OBVIOUS
        <5>2. packets[i].sender \in stopped
          BY <3>1, <5>1, Zenon DEF Held
        <5> QED BY <3>3, <5>1, <5>2, Zenon
      <4> HIDE DEF Owed
      <4>2. Cardinality(Owed) = 0
        BY <4>1, FS_EmptySet, Zenon
      <4> QED BY <3>3, <4>2, Zenon DEF Owed
    <3> QED BY <3>2, <3>3
  <2>2. packets # <<>> /\ flushes = <<>> => Awaited(net, Head(packets))
    BY DEF NetInv
  <2> QED BY <2>1, <2>2, Zenon DEF CallbackOwed, Awaited
<1> QED BY <1>1, NetInvariance, PTL

=============================================================================
