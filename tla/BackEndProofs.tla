---------------------------- MODULE BackEndProofs ----------------------------
(***************************************************************************)
(* Proofs about the back end library, comm/bknd: who owns the buffers of   *)
(* messages (MessageMemory), what is written to them and read back         *)
(* (MessageBuffer), and the sockets of the server that the listener is     *)
(* made for (ConsoleServer).  The three specifications share no state.     *)
(***************************************************************************)
EXTENDS MessageMemory, MessageBuffer, ConsoleServer,
        FiniteSetTheorems, WellFoundedInduction, TLAPS

(* Every set of natural numbers has a least element,                       *)
LEMMA LeastNatural ==
    ASSUME NEW T \in SUBSET Nat, T # {}
    PROVE  \E x \in T : \A y \in T : x <= y
<1> DEFINE R == OpToRel(<, Nat)
<1>1. IsWellFoundedOn(R, Nat)
  BY NatLessThanWellFounded, Zenon
<1>2. \A y, x \in T : <<y, x>> \in R <=> y < x
  BY DEF OpToRel
<1> HIDE DEF R
<1>3. PICK x \in T : \A y \in T : ~(<<y, x>> \in R)
  BY <1>1, WFMin, Zenon
<1>4. \A y \in T : ~(y < x)
  BY <1>2, <1>3, Zenon
<1> QED BY <1>4

(* so one that has 0 and the successor of each of its elements has all.    *)
LEMMA Induction ==
    ASSUME NEW S \in SUBSET Nat, 0 \in S, \A n \in S : n + 1 \in S
    PROVE  S = Nat
<1> SUFFICES ASSUME S # Nat PROVE FALSE
  OBVIOUS
<1>1. PICK x \in Nat \ S : \A y \in Nat \ S : x <= y
  BY LeastNatural, Zenon
<1>2. x - 1 \in S
  BY <1>1
<1> QED BY <1>1, <1>2

(***************************************************************************)
(* MessageMemory, for any finite number of objects and any set of          *)
(* addresses.  The conjunction of the properties is inductive: the         *)
(* count tells dec when no other Message holds the buffer (RefcountExact), *)
(* and no builder does (BuilderUnshared), so deleting it leaves no         *)
(* dangling pointer (MemoryTypeOK, ReaderPointerLive).                     *)
(***************************************************************************)
MemoryInv ==
    /\ MemoryTypeOK
    /\ RefcountExact
    /\ NothingLeaked
    /\ BuilderUnshared
    /\ ReaderPointerLive
    /\ NoFault

(* There are finitely many holders of a buffer.                            *)
LEMMA HoldersFinite ==
    ASSUME NEW a
    PROVE  IsFiniteSet(HoldersOf(a)) /\ Cardinality(HoldersOf(a)) \in Nat
<1>1. IsFiniteSet(Holders)
  BY FS_Union, ObjectsAssumption, Zenon DEF Holders
<1> QED BY <1>1, FS_Subset, FS_CardinalityType DEF HoldersOf

(* Pointing a holder away from a buffer leaves it one holder less,         *)
LEMMA HoldersLess ==
    ASSUME NEW a, NEW x \in Holders, content[x] = a, content'[x] # a,
           \A h \in Holders \ {x} : content'[h] = content[h]
    PROVE  Cardinality(HoldersOf(a)') = Cardinality(HoldersOf(a)) - 1
<1>1. HoldersOf(a)' = HoldersOf(a) \ {x} /\ x \in HoldersOf(a)
  BY DEF HoldersOf
<1> QED BY <1>1, HoldersFinite, FS_RemoveElement, Zenon

(* pointing one to it gives it one more,                                   *)
LEMMA HoldersMore ==
    ASSUME NEW a, NEW x \in Holders, content[x] # a, content'[x] = a,
           \A h \in Holders \ {x} : content'[h] = content[h]
    PROVE  Cardinality(HoldersOf(a)') = Cardinality(HoldersOf(a)) + 1
<1>1. HoldersOf(a)' = HoldersOf(a) \union {x} /\ x \notin HoldersOf(a)
  BY DEF HoldersOf
<1> QED BY <1>1, HoldersFinite, FS_AddElement

(* and the holders of other buffers stay the same.                         *)
LEMMA HoldersSame ==
    ASSUME NEW a, NEW x \in Holders, content[x] = a <=> content'[x] = a,
           \A h \in Holders \ {x} : content'[h] = content[h]
    PROVE  HoldersOf(a)' = HoldersOf(a)
  BY DEF HoldersOf

(* A buffer with a holder has a positive number of them, and if that is    *)
(* one, no other.                                                          *)
LEMMA HoldersSome ==
    ASSUME NEW a, NEW x \in Holders, content[x] = a
    PROVE  /\ Cardinality(HoldersOf(a)) > 0
           /\ Cardinality(HoldersOf(a)) = 1 => \A h \in Holders \ {x} : content[h] # a
<1>1. x \in HoldersOf(a)
  BY DEF HoldersOf
<1>2. Cardinality(HoldersOf(a)) > 0
  BY <1>1, HoldersFinite, FS_EmptySet
<1>3. ASSUME Cardinality(HoldersOf(a)) = 1, NEW h \in Holders \ {x} PROVE content[h] # a
  <2>1. PICK y : HoldersOf(a) = {y}
    BY <1>3, HoldersFinite, FS_Singleton, Zenon
  <2>2. HoldersOf(a) = {x}
    BY <1>1, <2>1
  <2> QED BY <2>2, <1>3 DEF HoldersOf
<1> QED BY <1>2, <1>3

(* Refbuf::inc on a live buffer counts one more and touches nothing else.  *)
LEMMA IncMemory ==
    ASSUME MemoryTypeOK, NEW a \in heap, MemoryBecomes(inc(Memory, a))
    PROVE  /\ heap' = heap
           /\ refcount' = [refcount EXCEPT ![a] = refcount[a] + 1]
           /\ fault' = fault
  BY DEF MemoryBecomes, inc, Memory, MemoryTypeOK

(* Refbuf::dec on a live buffer counts one less, and deletes the buffer if *)
(* the count was one.                                                      *)
LEMMA DecMemory ==
    ASSUME MemoryTypeOK, NEW a \in heap, MemoryBecomes(dec(Memory, a))
    PROVE  /\ heap' = IF refcount[a] = 1 THEN heap \ {a} ELSE heap
           /\ refcount' = [refcount EXCEPT ![a] = refcount[a] - 1]
           /\ fault' = fault
  BY DEF MemoryBecomes, dec, Memory, MemoryTypeOK

(* The two together, as operator= calls them: on two buffers, or on one    *)
(* that has other holders.                                                 *)
LEMMA DecIncMemory ==
    ASSUME MemoryTypeOK, NEW a \in heap, NEW b \in heap, a # b \/ refcount[a] # 1,
           MemoryBecomes(inc(dec(Memory, a), b))
    PROVE  /\ heap' = IF refcount[a] = 1 THEN heap \ {a} ELSE heap
           /\ refcount' = IF a = b THEN refcount
                          ELSE [refcount EXCEPT ![a] = refcount[a] - 1,
                                                ![b] = refcount[b] + 1]
           /\ fault' = fault
<1> DEFINE m == dec(Memory, a)
<1>1. /\ m.heap = IF refcount[a] = 1 THEN heap \ {a} ELSE heap
      /\ m.refcount = [refcount EXCEPT ![a] = refcount[a] - 1]
      /\ m.fault = fault
  BY DEF dec, Memory, MemoryTypeOK
<1>2. b \in m.heap
  BY <1>1
<1>3. inc(m, b) = [m EXCEPT !.refcount[b] = @ + 1]
  BY <1>2 DEF inc
<1>4. m = [heap |-> m.heap, refcount |-> m.refcount, fault |-> m.fault]
  BY Zenon DEF dec, Memory
<1>5. MemoryBecomes(inc(m, b))
  OBVIOUS
<1> HIDE DEF m
<1>6. /\ inc(m, b).heap = m.heap /\ inc(m, b).fault = m.fault
      /\ inc(m, b).refcount = [m.refcount EXCEPT ![b] = @ + 1]
  BY <1>3, <1>4
<1>7. heap' = m.heap /\ refcount' = [m.refcount EXCEPT ![b] = @ + 1] /\ fault' = m.fault
  BY <1>5, <1>6 DEF MemoryBecomes
<1>8. CASE a = b
  <2>1. refcount' = refcount
    BY <1>1, <1>7, <1>8 DEF MemoryTypeOK
  <2> QED BY <1>1, <1>7, <1>8, <2>1
<1>9. CASE a # b
  <2>1. refcount' = [refcount EXCEPT ![a] = refcount[a] - 1, ![b] = refcount[b] + 1]
    BY <1>1, <1>7, <1>9, Zenon DEF MemoryTypeOK
  <2> QED BY <1>1, <1>7, <1>9, <2>1, Zenon
<1> QED BY <1>8, <1>9

(* Before any object is constructed the invariant holds.                   *)
LEMMA InitMemory == MemoryInit => MemoryInv
<1> SUFFICES ASSUME MemoryInit PROVE MemoryInv
  OBVIOUS
<1>1. MemoryTypeOK
  BY Zenon DEF MemoryInit, MemoryTypeOK
<1>2. RefcountExact
  <2> SUFFICES ASSUME NEW a \in Buffers PROVE refcount[a] = Cardinality(HoldersOf(a))
    BY DEF RefcountExact
  <2>1. HoldersOf(a) = {}
    BY ObjectsAssumption DEF MemoryInit, HoldersOf
  <2> QED BY <2>1, FS_EmptySet DEF MemoryInit
<1>3. NothingLeaked /\ BuilderUnshared /\ NoFault
  BY DEF Owned, MemoryInit, NothingLeaked, BuilderUnshared, NoFault
<1>4. ReaderPointerLive
  BY DEF MemoryInit, ReaderPointerLive, Holders
<1> QED BY <1>1, <1>2, <1>3, <1>4 DEF MemoryInv

(* A holder that did not exist takes a reference to the buffer of another: *)
(* the copy constructors of Message and MessageReader.                     *)
LEMMA TakeStep ==
    ASSUME MemoryInv, NEW x \in Holders, NEW y \in Holders,
           content[x] = NULL, content[y] # NULL,
           content' = [content EXCEPT ![x] = content[y]],
           MemoryBecomes(inc(Memory, content[y])),
           UNCHANGED <<built, lost>>,
           IF x \in Readers THEN raw' = [raw EXCEPT ![x] = content[y]] ELSE UNCHANGED raw
    PROVE  MemoryInv'
<1> USE DEF MemoryInv
<1> DEFINE b == content[y]
<1>1. b \in heap /\ b # NULL /\ DOMAIN content = Holders /\ b \in Buffers
  BY DEF MemoryTypeOK
<1>2. /\ heap' = heap
      /\ refcount' = [refcount EXCEPT ![b] = refcount[b] + 1]
      /\ fault' = fault
  BY <1>1, IncMemory
<1>3. MemoryTypeOK'
  <2>1. content' \in [Holders -> heap' \union {NULL}]
    BY <1>1, <1>2 DEF MemoryTypeOK
  <2>2. raw' \in [Readers -> Buffers \union {NULL}]
    BY <1>1 DEF MemoryTypeOK
  <2>3. refcount' \in [Buffers -> Nat]
    BY <1>2 DEF MemoryTypeOK
  <2> QED BY <1>2, <2>1, <2>2, <2>3, Zenon DEF MemoryTypeOK
<1>4. RefcountExact'
  <2> SUFFICES ASSUME NEW a \in Buffers PROVE refcount'[a] = Cardinality(HoldersOf(a)')
    BY DEF RefcountExact
  <2>1. refcount[a] = Cardinality(HoldersOf(a)) /\ refcount[a] \in Nat
    BY DEF RefcountExact, MemoryTypeOK
  <2>2. content'[x] = b /\ \A h \in Holders \ {x} : content'[h] = content[h]
    BY <1>1
  <2>3. content[x] # a
    BY ObjectsAssumption
  <2>4. CASE a = b
    <3>1. Cardinality(HoldersOf(a)') = Cardinality(HoldersOf(a)) + 1
      BY <2>2, <2>3, <2>4, HoldersMore
    <3> QED BY <1>2, <2>1, <2>4, <3>1 DEF MemoryTypeOK
  <2>5. CASE a # b
    <3>1. HoldersOf(a)' = HoldersOf(a)
      BY <2>2, <2>3, <2>5, HoldersSame
    <3> QED BY <1>2, <2>1, <2>5, <3>1 DEF MemoryTypeOK
  <2> QED BY <2>4, <2>5
<1>5. NothingLeaked'
  <2>1. refcount[b] > 0
    BY <1>1, HoldersSome DEF RefcountExact
  <2> QED BY <1>1, <1>2, <2>1 DEF NothingLeaked, Owned, MemoryTypeOK
<1>6. BuilderUnshared'
  BY <1>1 DEF BuilderUnshared, HoldersOf
<1>7. ReaderPointerLive'
  BY <1>1 DEF ReaderPointerLive, MemoryTypeOK, Holders
<1>8. NoFault'
  BY <1>2 DEF NoFault
<1> QED BY <1>3, <1>4, <1>5, <1>6, <1>7, <1>8

(* A holder gives up its reference: the destructors of Message and         *)
(* MessageReader.  If the buffer goes, nobody else pointed to it.          *)
LEMMA DropStep ==
    ASSUME MemoryInv, NEW x \in Holders, content[x] # NULL,
           content' = [content EXCEPT ![x] = NULL],
           MemoryBecomes(dec(Memory, content[x])),
           UNCHANGED <<built, lost>>,
           IF x \in Readers THEN raw' = [raw EXCEPT ![x] = NULL] ELSE UNCHANGED raw
    PROVE  MemoryInv'
<1> USE DEF MemoryInv
<1> DEFINE a == content[x]
<1>1. a \in heap /\ a \in Buffers /\ DOMAIN content = Holders /\ NULL \notin heap
  BY ObjectsAssumption DEF MemoryTypeOK
<1>2. /\ heap' = IF refcount[a] = 1 THEN heap \ {a} ELSE heap
      /\ refcount' = [refcount EXCEPT ![a] = refcount[a] - 1]
      /\ fault' = fault
  BY <1>1, DecMemory
<1>3. content'[x] = NULL /\ \A h \in Holders \ {x} : content'[h] = content[h]
  BY <1>1
<1>4. /\ refcount[a] \in Nat /\ refcount[a] > 0
      /\ refcount[a] = 1 => \A h \in Holders \ {x} : content[h] # a
  BY <1>1, HoldersSome DEF RefcountExact, MemoryTypeOK
<1>5. \A b \in Builders : built[b] # a
  BY <1>1 DEF BuilderUnshared, HoldersOf
<1>6. MemoryTypeOK'
  <2>1. content' \in [Holders -> heap' \union {NULL}]
    BY <1>1, <1>2, <1>4 DEF MemoryTypeOK
  <2>2. raw' \in [Readers -> Buffers \union {NULL}]
    BY DEF MemoryTypeOK
  <2>3. built' \in [Builders -> heap' \union {NULL}]
    BY <1>2, <1>5 DEF MemoryTypeOK
  <2>4. refcount' \in [Buffers -> Nat]
    BY <1>2, <1>4 DEF MemoryTypeOK
  <2>5. heap' \subseteq Buffers /\ lost' \subseteq heap'
    BY <1>1, <1>2, <1>4 DEF MemoryTypeOK, NothingLeaked, Owned
  <2> QED BY <1>2, <2>1, <2>2, <2>3, <2>4, <2>5, Zenon DEF MemoryTypeOK
<1>7. RefcountExact'
  <2> SUFFICES ASSUME NEW c \in Buffers PROVE refcount'[c] = Cardinality(HoldersOf(c)')
    BY DEF RefcountExact
  <2>1. refcount[c] = Cardinality(HoldersOf(c)) /\ refcount[c] \in Nat
    BY DEF RefcountExact, MemoryTypeOK
  <2>2. content'[x] # c
    BY <1>3, ObjectsAssumption
  <2>3. CASE c = a
    <3>1. Cardinality(HoldersOf(c)') = Cardinality(HoldersOf(c)) - 1
      BY <1>3, <2>2, <2>3, HoldersLess
    <3> QED BY <1>2, <2>1, <2>3, <3>1 DEF MemoryTypeOK
  <2>4. CASE c # a
    <3>1. HoldersOf(c)' = HoldersOf(c)
      BY <1>3, <2>2, <2>4, HoldersSame
    <3> QED BY <1>2, <2>1, <2>4, <3>1 DEF MemoryTypeOK
  <2> QED BY <2>3, <2>4
<1>8. NothingLeaked'
  BY <1>1, <1>2, <1>4 DEF NothingLeaked, Owned, MemoryTypeOK
<1>9. BuilderUnshared'
  BY <1>3 DEF BuilderUnshared, HoldersOf
<1>10. ReaderPointerLive'
  BY <1>1 DEF ReaderPointerLive, MemoryTypeOK, Holders
<1>11. NoFault'
  BY <1>2 DEF NoFault
<1> QED BY <1>6, <1>7, <1>8, <1>9, <1>10, <1>11

(* operator=: from one buffer to another, or within the same one.          *)
LEMMA AssignStep ==
    ASSUME MemoryInv, NEW x \in Holders, NEW y \in Holders, Assign(x, y),
           UNCHANGED <<built, lost>>,
           IF x \in Readers THEN raw' = [raw EXCEPT ![x] = content[y]] ELSE UNCHANGED raw
    PROVE  MemoryInv'
<1> USE DEF MemoryInv
<1> DEFINE a == content[x]
           b == content[y]
<1>1. a \in heap /\ a \in Buffers /\ b \in heap /\ b \in Buffers
  BY DEF Assign, MemoryTypeOK
<1>2. content'[x] = b /\ \A h \in Holders \ {x} : content'[h] = content[h]
  BY DEF Assign, MemoryTypeOK
<1>3. /\ refcount[a] \in Nat /\ refcount[a] > 0
      /\ refcount[a] = 1 => \A h \in Holders \ {x} : content[h] # a
  BY <1>1, HoldersSome DEF RefcountExact, MemoryTypeOK
<1>4. /\ refcount[b] \in Nat /\ refcount[b] > 0
  BY <1>1, HoldersSome DEF RefcountExact, MemoryTypeOK
<1>5. /\ heap' = IF x # y /\ refcount[a] = 1 THEN heap \ {a} ELSE heap
      /\ refcount' = IF a = b THEN refcount
                     ELSE [refcount EXCEPT ![a] = refcount[a] - 1, ![b] = refcount[b] + 1]
      /\ fault' = fault
  <2>1. CASE x = y
    BY <2>1 DEF Assign, MemoryBecomes, Memory
  <2>2. CASE x # y
    <3>1. a # b \/ refcount[a] # 1
      BY <1>3, <2>2
    <3>2. MemoryBecomes(inc(dec(Memory, a), b))
      BY <2>2 DEF Assign
    <3> QED BY <1>1, <2>2, <3>1, <3>2, DecIncMemory
  <2> QED BY <2>1, <2>2
<1>6. \A c \in Builders : built[c] # a /\ built[c] # b
  BY DEF BuilderUnshared, HoldersOf, Assign
<1>7. x # y /\ refcount[a] = 1 => a # b /\ \A h \in Holders : content'[h] # a
  BY <1>2, <1>3
<1>8. MemoryTypeOK'
  <2>1. content' \in [Holders -> heap' \union {NULL}]
    BY <1>1, <1>5, <1>7 DEF MemoryTypeOK, Assign
  <2>2. raw' \in [Readers -> Buffers \union {NULL}]
    BY <1>1 DEF MemoryTypeOK
  <2>3. built' \in [Builders -> heap' \union {NULL}]
    BY <1>5, <1>6 DEF MemoryTypeOK
  <2>4. refcount' \in [Buffers -> Nat]
    <3>1. refcount[a] - 1 \in Nat /\ refcount[b] + 1 \in Nat
      BY <1>3, <1>4
    <3> QED BY <1>1, <1>5, <3>1 DEF MemoryTypeOK
  <2>5. heap' \subseteq Buffers /\ lost' \subseteq heap'
    BY <1>1, <1>3, <1>5 DEF MemoryTypeOK, NothingLeaked, Owned
  <2> QED BY <1>5, <2>1, <2>2, <2>3, <2>4, <2>5, Zenon DEF MemoryTypeOK
<1>9. RefcountExact'
  <2> SUFFICES ASSUME NEW c \in Buffers PROVE refcount'[c] = Cardinality(HoldersOf(c)')
    BY DEF RefcountExact
  <2>1. refcount[c] = Cardinality(HoldersOf(c)) /\ refcount[c] \in Nat
    BY DEF RefcountExact, MemoryTypeOK
  <2>2. CASE a # b /\ c = a
    <3>1. Cardinality(HoldersOf(c)') = Cardinality(HoldersOf(c)) - 1
      BY <1>2, <2>2, HoldersLess
    <3> QED BY <1>5, <2>1, <2>2, <3>1 DEF MemoryTypeOK
  <2>3. CASE a # b /\ c = b
    <3>1. Cardinality(HoldersOf(c)') = Cardinality(HoldersOf(c)) + 1
      BY <1>2, <2>3, HoldersMore
    <3> QED BY <1>5, <2>1, <2>3, <3>1 DEF MemoryTypeOK
  <2>4. CASE a = b \/ (c # a /\ c # b)
    <3>1. HoldersOf(c)' = HoldersOf(c)
      BY <1>2, <2>4, HoldersSame
    <3> QED BY <1>5, <2>1, <2>4, <3>1 DEF MemoryTypeOK
  <2> QED BY <2>2, <2>3, <2>4
<1>10. NothingLeaked'
  <2> SUFFICES ASSUME NEW c \in heap' PROVE Owned(c)' <=> c \notin lost
    BY DEF NothingLeaked
  <2>1. c \in heap /\ c \in Buffers
    BY <1>5 DEF MemoryTypeOK
  <2>2. refcount[c] > 0 <=> refcount'[c] > 0
    BY <1>1, <1>3, <1>4, <1>5, <1>7, <2>1 DEF MemoryTypeOK
  <2> QED BY <2>1, <2>2 DEF NothingLeaked, Owned
<1>11. BuilderUnshared'
  BY <1>2, <1>6 DEF BuilderUnshared, HoldersOf
<1>12. ReaderPointerLive'
  BY <1>2 DEF ReaderPointerLive, MemoryTypeOK, Holders
<1>13. NoFault'
  BY <1>5 DEF NoFault
<1> QED BY <1>8, <1>9, <1>10, <1>11, <1>12, <1>13

(* The steps that allocate, hand over or free a builder's buffer, and the  *)
(* construction of a Message on a new one.                                 *)
LEMMA BuilderStep ==
    ASSUME MemoryInv, NEW b \in Builders, NewBuilder(b) \/ builderReserve(b) \/ DestroyBuilder(b)
    PROVE  MemoryInv'
<1> USE DEF MemoryInv
<1>1. UNCHANGED <<content, raw, refcount, fault, lost>>
  BY DEF NewBuilder, builderReserve, DestroyBuilder
<1>2. /\ heap' \subseteq Buffers
      /\ \A h \in Holders : content[h] # NULL => content[h] \in heap'
      /\ built' \in [Builders -> heap' \union {NULL}]
      /\ lost \subseteq heap'
  <2>1. CASE NewBuilder(b)
    BY <2>1 DEF NewBuilder, MemoryTypeOK
  <2>2. CASE builderReserve(b)
    <3>1. PICK a \in Buffers \ heap :
             /\ built' = [built EXCEPT ![b] = a]
             /\ heap' = (heap \union {a}) \ {built[b]}
      BY <2>2, Zenon DEF builderReserve
    <3>2. built[b] \in heap /\ built[b] # NULL
      BY <2>2 DEF builderReserve, MemoryTypeOK
    <3>3. \A h \in Holders : content[h] # built[b]
      BY <3>2 DEF BuilderUnshared, HoldersOf
    <3>4. \A c \in Builders \ {b} : built[c] # built[b]
      BY <3>2 DEF BuilderUnshared
    <3>5. built[b] \notin lost
      BY <3>2 DEF NothingLeaked, Owned
    <3> QED BY <3>1, <3>2, <3>3, <3>4, <3>5 DEF MemoryTypeOK
  <2>3. CASE DestroyBuilder(b)
    <3>1. built[b] # NULL /\ built' = [built EXCEPT ![b] = NULL] /\ heap' = heap \ {built[b]}
      BY <2>3 DEF DestroyBuilder
    <3>2. \A h \in Holders : content[h] # built[b]
      BY <3>1 DEF BuilderUnshared, HoldersOf
    <3>3. \A c \in Builders \ {b} : built[c] # built[b]
      BY <3>1 DEF BuilderUnshared
    <3>4. built[b] \notin lost
      BY <3>1 DEF NothingLeaked, Owned, MemoryTypeOK
    <3> QED BY <3>1, <3>2, <3>3, <3>4 DEF MemoryTypeOK
  <2> QED BY <2>1, <2>2, <2>3
<1>3. MemoryTypeOK'
  <2>1. content' \in [Holders -> heap' \union {NULL}]
    BY <1>1, <1>2 DEF MemoryTypeOK
  <2> QED BY <1>1, <1>2, <2>1, Zenon DEF MemoryTypeOK
<1>4. RefcountExact'
  BY <1>1 DEF RefcountExact, HoldersOf
<1>5. NothingLeaked'
  <2>1. \A c \in heap' : Owned(c)' <=> c \notin lost
    <3>1. \A c \in Builders : built[c] # NULL => built[c] \in heap
      BY DEF MemoryTypeOK
    <3>2. CASE NewBuilder(b) \/ builderReserve(b)
      <4>1. PICK a \in Buffers \ heap :
               /\ built' = [built EXCEPT ![b] = a]
               /\ heap' \subseteq (heap \ {built[b]}) \union {a}
        BY <3>2, ObjectsAssumption DEF NewBuilder, builderReserve, MemoryTypeOK
      <4>2. Owned(a)' /\ a \notin lost
        BY <4>1 DEF Owned, MemoryTypeOK
      <4>3. ASSUME NEW c \in heap, c # built[b], c # a PROVE Owned(c)' <=> Owned(c)
        BY <1>1, <4>1, <4>3 DEF Owned, MemoryTypeOK
      <4> QED BY <4>1, <4>2, <4>3 DEF NothingLeaked
    <3>3. CASE DestroyBuilder(b)
      <4>1. built' = [built EXCEPT ![b] = NULL] /\ heap' = heap \ {built[b]}
        BY <3>3 DEF DestroyBuilder
      <4>2. ASSUME NEW c \in heap, c # built[b] PROVE Owned(c)' <=> Owned(c)
        BY <1>1, <4>1, <4>2, ObjectsAssumption DEF Owned, MemoryTypeOK
      <4> QED BY <4>1, <4>2 DEF NothingLeaked
    <3> QED BY <3>2, <3>3
  <2> QED BY <1>1, <2>1 DEF NothingLeaked
<1>6. BuilderUnshared'
  <2>1. \A h \in Holders : content[h] # NULL => content[h] \in heap
    BY DEF MemoryTypeOK
  <2>2. CASE DestroyBuilder(b)
    BY <1>1, <2>2 DEF DestroyBuilder, BuilderUnshared, HoldersOf, MemoryTypeOK
  <2>3. CASE NewBuilder(b) \/ builderReserve(b)
    <3>1. PICK a \in Buffers \ heap : built' = [built EXCEPT ![b] = a]
      BY <2>3 DEF NewBuilder, builderReserve
    <3>2. a # NULL
      BY ObjectsAssumption
    <3>3. \A c \in Builders : built[c] # a
      BY <3>1, <3>2 DEF MemoryTypeOK
    <3>4. \A h \in Holders : content[h] # a
      BY <2>1, <3>1, <3>2
    <3> QED BY <1>1, <3>1, <3>3, <3>4 DEF BuilderUnshared, HoldersOf, MemoryTypeOK
  <2> QED BY <2>2, <2>3
<1>7. ReaderPointerLive' /\ NoFault'
  BY <1>1 DEF ReaderPointerLive, NoFault
<1> QED BY <1>3, <1>4, <1>5, <1>6, <1>7

(* A buffer without holders becomes a new Message's.                       *)
LEMMA ConstructStep ==
    ASSUME MemoryInv, NEW x \in Messages, NEW b,
           NewMessage(x) \/ (b \in Builders /\ builderToMessage(b, x))
    PROVE  MemoryInv'
<1> USE DEF MemoryInv
<1> USE DEF Holders
<1>1. PICK a \in Buffers :
        /\ content[x] = NULL
        /\ content' = [content EXCEPT ![x] = a]
        /\ refcount' = [refcount EXCEPT ![a] = 1]
        /\ \A h \in Holders : content[h] # a
        /\ \/ a \notin heap /\ heap' = heap \union {a} /\ built' = built
           \/ /\ b \in Builders /\ built[b] = a
              /\ \E e \in Buffers \ heap :
                    built' = [built EXCEPT ![b] = e] /\ heap' = heap \union {e}
  <2>1. CASE NewMessage(x)
    BY <2>1, ObjectsAssumption, ZenonT(30) DEF NewMessage, MemoryTypeOK
  <2>2. CASE b \in Builders /\ builderToMessage(b, x)
    <3>1. built[b] # NULL /\ built[b] \in Buffers
      BY <2>2 DEF builderToMessage, MemoryTypeOK
    <3>2. \A h \in Holders : content[h] # built[b]
      BY <2>2, <3>1 DEF BuilderUnshared, HoldersOf
    <3> QED BY <2>2, <3>1, <3>2, Zenon DEF builderToMessage
  <2> QED BY <2>1, <2>2
<1>2. UNCHANGED <<raw, fault, lost>>
  BY DEF NewMessage, builderToMessage
<1>3. a # NULL /\ a \in heap' /\ heap \subseteq heap' /\ heap' \subseteq Buffers
  BY <1>1, ObjectsAssumption DEF MemoryTypeOK
<1>4. content'[x] = a /\ \A h \in Holders \ {x} : content'[h] = content[h]
  BY <1>1 DEF MemoryTypeOK
<1>5. MemoryTypeOK'
  <2>1. content' \in [Holders -> heap' \union {NULL}]
    BY <1>1, <1>3 DEF MemoryTypeOK
  <2>2. built' \in [Builders -> heap' \union {NULL}]
    BY <1>1, <1>3 DEF MemoryTypeOK
  <2>3. refcount' \in [Buffers -> Nat]
    BY <1>1 DEF MemoryTypeOK
  <2> QED BY <1>2, <1>3, <2>1, <2>2, <2>3, Zenon DEF MemoryTypeOK
<1>6. RefcountExact'
  <2> SUFFICES ASSUME NEW c \in Buffers PROVE refcount'[c] = Cardinality(HoldersOf(c)')
    BY DEF RefcountExact
  <2>1. refcount[c] = Cardinality(HoldersOf(c))
    BY DEF RefcountExact
  <2>2. content[x] # c
    BY <1>1, ObjectsAssumption
  <2>3. CASE c = a
    <3>1. Cardinality(HoldersOf(c)') = Cardinality(HoldersOf(c)) + 1
      BY <1>4, <2>2, <2>3, HoldersMore
    <3>2. HoldersOf(c) = {}
      BY <1>1, <2>3 DEF HoldersOf
    <3> QED BY <1>1, <2>3, <3>1, <3>2, FS_EmptySet DEF MemoryTypeOK
  <2>4. CASE c # a
    <3>1. HoldersOf(c)' = HoldersOf(c)
      BY <1>4, <2>2, <2>4, HoldersSame
    <3> QED BY <1>1, <2>1, <2>4, <3>1 DEF MemoryTypeOK
  <2> QED BY <2>3, <2>4
<1>7. NothingLeaked'
  <2> SUFFICES ASSUME NEW c \in heap' PROVE Owned(c)' <=> c \notin lost
    BY <1>2 DEF NothingLeaked
  <2>1. CASE c = a
    <3>1. refcount'[a] > 0
      BY <1>1 DEF MemoryTypeOK
    <3>2. a \notin lost
      BY <1>1, <1>3 DEF NothingLeaked, Owned, MemoryTypeOK
    <3> QED BY <2>1, <3>1, <3>2 DEF Owned
  <2>2. CASE c # a
    <3>1. refcount'[c] = refcount[c]
      BY <1>1, <1>3, <2>2 DEF MemoryTypeOK
    <3>2. CASE c \in heap
      <4>1. (\E d \in Builders : built'[d] = c) <=> (\E d \in Builders : built[d] = c)
        BY <1>1, <2>2, <3>2 DEF MemoryTypeOK
      <4> QED BY <3>1, <3>2, <4>1 DEF NothingLeaked, Owned
    <3>3. CASE c \notin heap
      <4>1. b \in Builders /\ built'[b] = c
        BY <1>1, <2>2, <3>3 DEF MemoryTypeOK
      <4> QED BY <3>3, <4>1 DEF Owned, MemoryTypeOK
    <3> QED BY <3>2, <3>3
  <2> QED BY <2>1, <2>2
<1>8. BuilderUnshared'
  <2>1. \A h \in Holders : content[h] # NULL => content[h] \in heap
    BY DEF MemoryTypeOK
  <2>2. \A c \in Builders : built[c] # NULL => built[c] \in heap
    BY DEF MemoryTypeOK
  <2>3. CASE a \notin heap /\ built' = built
    BY <1>3, <1>4, <2>2, <2>3 DEF BuilderUnshared, HoldersOf
  <2>4. CASE /\ b \in Builders /\ built[b] = a
             /\ \E e \in Buffers \ heap : built' = [built EXCEPT ![b] = e]
    <3>1. PICK e \in Buffers \ heap : built' = [built EXCEPT ![b] = e]
      BY <2>4, Zenon
    <3>2. e # NULL /\ e # a /\ a \in heap
      BY <1>3, <2>2, <2>4, ObjectsAssumption
    <3>3. \A c \in Builders : built[c] # e
      BY <2>2, <3>1, <3>2
    <3>4. \A h \in Holders : content[h] # e /\ content'[h] # e
      BY <1>4, <2>1, <3>1, <3>2
    <3>5. \A c \in Builders \ {b} : built[c] # a
      BY <1>3, <2>4 DEF BuilderUnshared
    <3> QED BY <1>4, <3>1, <3>3, <3>4, <3>5 DEF BuilderUnshared, HoldersOf, MemoryTypeOK
  <2> QED BY <1>1, <2>3, <2>4
<1>9. ReaderPointerLive'
  BY <1>2, <1>4, ObjectsAssumption DEF ReaderPointerLive
<1>10. NoFault'
  BY <1>2 DEF NoFault
<1> QED BY <1>5, <1>6, <1>7, <1>8, <1>9, <1>10

(* A buffer that no Message holds and no builder has any more is lost.     *)
LEMMA LoseStep ==
    ASSUME MemoryInv, NewMessageFails \/ \E b \in Builders : builderToMessageFails(b)
    PROVE  MemoryInv'
<1> USE DEF MemoryInv
<1>1. UNCHANGED <<content, raw, refcount, fault>>
  BY DEF NewMessageFails, builderToMessageFails
<1>2. PICK a \in Buffers, e \in Buffers \ heap :
        /\ heap' = heap \union {e} /\ lost' = lost \union {a}
        /\ \/ a = e /\ built' = built
           \/ \E b \in Builders : built[b] = a /\ a \in heap /\ built' = [built EXCEPT ![b] = e]
  BY DEF NewMessageFails, builderToMessageFails, MemoryTypeOK
<1>3. /\ \A h \in Holders : content[h] # NULL => content[h] \in heap
      /\ \A c \in Builders : built[c] # NULL => built[c] \in heap
      /\ a # NULL /\ e # NULL /\ NULL \notin heap
  BY ObjectsAssumption DEF MemoryTypeOK
<1>4. \A h \in Holders : content[h] # a /\ content[h] # e
  BY <1>2, <1>3 DEF BuilderUnshared, HoldersOf
<1>5. \A c \in Builders : built[c] # e /\ built'[c] # a
  BY <1>2, <1>3 DEF BuilderUnshared, MemoryTypeOK
<1>6. MemoryTypeOK'
  <2>1. content' \in [Holders -> heap' \union {NULL}] /\ heap' \subseteq Buffers
    BY <1>1, <1>2 DEF MemoryTypeOK
  <2>2. built' \in [Builders -> heap' \union {NULL}] /\ lost' \subseteq heap'
    BY <1>2 DEF MemoryTypeOK
  <2> QED BY <1>1, <2>1, <2>2, Zenon DEF MemoryTypeOK
<1>7. RefcountExact'
  BY <1>1 DEF RefcountExact, HoldersOf
<1>8. NothingLeaked'
  <2> SUFFICES ASSUME NEW c \in heap' PROVE Owned(c)' <=> c \notin lost'
    BY DEF NothingLeaked
  <2>1. CASE c = a
    <3>1. HoldersOf(a) = {}
      BY <1>4 DEF HoldersOf
    <3>2. refcount[a] = 0
      BY <3>1, FS_EmptySet DEF RefcountExact
    <3> QED BY <1>1, <1>2, <1>5, <2>1, <3>2 DEF Owned
  <2>2. CASE c # a /\ c = e
    BY <1>2, <2>2 DEF Owned, MemoryTypeOK
  <2>3. CASE c # a /\ c # e
    <3>1. (\E d \in Builders : built'[d] = c) <=> (\E d \in Builders : built[d] = c)
      BY <1>2, <2>3 DEF MemoryTypeOK
    <3> QED BY <1>1, <1>2, <2>3, <3>1 DEF Owned, NothingLeaked
  <2> QED BY <2>1, <2>2, <2>3
<1>9. BuilderUnshared'
  BY <1>1, <1>2, <1>4, <1>5 DEF BuilderUnshared, HoldersOf, MemoryTypeOK
<1>10. ReaderPointerLive' /\ NoFault'
  BY <1>1 DEF ReaderPointerLive, NoFault
<1> QED BY <1>6, <1>7, <1>8, <1>9, <1>10

(* Every step preserves the invariant.                                     *)
LEMMA NextMemory == MemoryInv /\ [MemoryNext]_memoryVars => MemoryInv'
<1> SUFFICES ASSUME MemoryInv, [MemoryNext]_memoryVars PROVE MemoryInv'
  OBVIOUS
<1>1. ASSUME NEW x \in Messages, NewMessage(x) PROVE MemoryInv'
  BY <1>1, ConstructStep
<1>2. ASSUME NEW b \in Builders, NEW x \in Messages, builderToMessage(b, x) PROVE MemoryInv'
  BY <1>2, ConstructStep
<1>3. ASSUME NEW x \in Messages, DestroyMessage(x) PROVE MemoryInv'
  BY <1>3, DropStep, ObjectsAssumption, Zenon DEF DestroyMessage, Holders
<1>4. ASSUME NEW x \in Messages, NEW y \in Messages, CopyMessage(x, y) PROVE MemoryInv'
  BY <1>4, TakeStep, ObjectsAssumption, Zenon DEF CopyMessage, Holders
<1>5. ASSUME NEW x \in Messages, NEW y \in Messages, AssignMessage(x, y) PROVE MemoryInv'
  BY <1>5, AssignStep, ObjectsAssumption DEF AssignMessage, Holders
<1>6. ASSUME NEW r \in Readers, NEW h \in Holders, NewReader(r, h) PROVE MemoryInv'
  BY <1>6, TakeStep, Zenon DEF NewReader, Holders
<1>7. ASSUME NEW r \in Readers, NEW q \in Readers, AssignReader(r, q) PROVE MemoryInv'
  <2>1. raw[q] = content[q]
    BY DEF MemoryInv, ReaderPointerLive
  <2> QED BY <1>7, <2>1, AssignStep, Zenon DEF AssignReader, Holders
<1>8. ASSUME NEW r \in Readers, DestroyReader(r) PROVE MemoryInv'
  BY <1>8, DropStep, Zenon DEF DestroyReader, Holders
<1>9. ASSUME NEW b \in Builders, NewBuilder(b) \/ builderReserve(b) \/ DestroyBuilder(b)
      PROVE  MemoryInv'
  BY <1>9, BuilderStep
<1>10. CASE UNCHANGED memoryVars
  BY <1>10 DEF memoryVars, MemoryInv, MemoryTypeOK, RefcountExact, NothingLeaked, Owned,
               BuilderUnshared, ReaderPointerLive, NoFault, HoldersOf
<1>11. ASSUME NewMessageFails \/ \E b \in Builders : builderToMessageFails(b) PROVE MemoryInv'
  BY <1>11, LoseStep
<1> QED BY <1>1, <1>2, <1>3, <1>4, <1>5, <1>6, <1>7, <1>8, <1>9, <1>10, <1>11
        DEF MemoryNext, Holders

(* All of it holds throughout, for any number of objects and buffers.      *)
THEOREM MemoryInvariance == MemorySpec => []MemoryInv
  BY InitMemory, NextMemory, PTL DEF MemorySpec

(* The state is well formed, and no constructed Message, MessageReader or  *)
(* MessageBuilder points to a freed buffer.                                *)
THEOREM MemoryTyped == MemorySpec => []MemoryTypeOK
<1>1. MemoryInv => MemoryTypeOK
  BY DEF MemoryInv
<1> QED BY <1>1, MemoryInvariance, PTL

(* Refbuf::refcount always is the number of Messages sharing the buffer.   *)
THEOREM CountExact == MemorySpec => []RefcountExact
<1>1. MemoryInv => RefcountExact
  BY DEF MemoryInv
<1> QED BY <1>1, MemoryInvariance, PTL

(* No buffer is leaked by a copy, an assignment, a hand-over or a          *)
(* destruction; those that are leaked are the ones an exception left in    *)
(* readMessage or toMessage.                                               *)
THEOREM LeakFree == MemorySpec => []NothingLeaked
<1>1. MemoryInv => NothingLeaked
  BY DEF MemoryInv
<1> QED BY <1>1, MemoryInvariance, PTL

(* A builder's writes never reach a Message it has built: toMessage hands  *)
(* its buffer over.                                                        *)
THEOREM ZeroCopySafe == MemorySpec => []BuilderUnshared
<1>1. MemoryInv => BuilderUnshared
  BY DEF MemoryInv
<1> QED BY <1>1, MemoryInvariance, PTL

(* A MessageReader's plain pointer is valid as long as the reader exists.  *)
THEOREM ReadersLive == MemorySpec => []ReaderPointerLive
<1>1. MemoryInv => ReaderPointerLive
  BY DEF MemoryInv
<1> QED BY <1>1, MemoryInvariance, PTL

(* Refbuf::inc and dec are never called on a deleted Refbuf.               *)
THEOREM MemoryFaultFree == MemorySpec => []NoFault
<1>1. MemoryInv => NoFault
  BY DEF MemoryInv
<1> QED BY <1>1, MemoryInvariance, PTL

(***************************************************************************)
(* MessageBuffer, for any byte and word size, any types and any values     *)
(* written.  The sums that could wrap are those of the builder (size and   *)
(* the length of a write) and of the reader (position and the length asked *)
(* for); the address space (SizesAssumption) keeps all of them below 2^32  *)
(* except the one with a string length that was read, and std::string      *)
(* refuses every length for which that one wraps.                          *)
(***************************************************************************)
(* Power is what its recursive definition says.                            *)
LEMMA PowerDefined ==
    Power = [k \in Nat |-> IF k = 0 THEN 1 ELSE Base * Power[k - 1]]
<1> DEFINE Upto(n, g) == \A k \in 0..n : g[k] = IF k = 0 THEN 1 ELSE Base * g[k - 1]
           Is(f) == f = [k \in Nat |-> IF k = 0 THEN 1 ELSE Base * f[k - 1]]
           f0 == [k \in Nat |-> (CHOOSE g : Upto(k, g))[k]]
<1>1. \A n \in Nat : \E g : Upto(n, g)
  <2> DEFINE S == {n \in Nat : \E g : Upto(n, g)}
  <2>1. 0 \in S
    <3>1. Upto(0, [k \in {0} |-> 1])
      OBVIOUS
    <3> HIDE DEF Upto
    <3> QED BY <3>1
  <2>2. ASSUME NEW n \in S PROVE n + 1 \in S
    <3>1. PICK g : Upto(n, g)
      OBVIOUS
    <3> DEFINE h == [k \in 0..n + 1 |-> IF k = n + 1 THEN Base * g[n] ELSE g[k]]
    <3>2. Upto(n + 1, h)
      <4> SUFFICES ASSUME NEW k \in 0..n + 1
                   PROVE  h[k] = IF k = 0 THEN 1 ELSE Base * h[k - 1]
        OBVIOUS
      <4>1. CASE k = n + 1
        BY <4>1
      <4>2. CASE k # n + 1
        BY <3>1, <4>2
      <4> QED BY <4>1, <4>2
    <3> HIDE DEF Upto, h
    <3> QED BY <3>2
  <2> HIDE DEF Upto
  <2>3. S = Nat
    <3>1. S \in SUBSET Nat
      OBVIOUS
    <3> HIDE DEF S
    <3> QED BY <2>1, <2>2, <3>1, Induction
  <2> QED BY <2>3
<1>2. ASSUME NEW n \in Nat, NEW g, NEW h, Upto(n, g), Upto(n + 1, h)
      PROVE  g[n] = h[n]
  <2> DEFINE S == {k \in Nat : k <= n => g[k] = h[k]}
  <2>1. 0 \in S
    BY <1>2
  <2>2. ASSUME NEW k \in S PROVE k + 1 \in S
    <3> SUFFICES ASSUME k + 1 <= n PROVE g[k + 1] = h[k + 1]
      OBVIOUS
    <3>1. g[k] = h[k]
      OBVIOUS
    <3>2. g[k + 1] = Base * g[k] /\ h[k + 1] = Base * h[k]
      BY <1>2
    <3> QED BY <3>1, <3>2
  <2>3. S \in SUBSET Nat
    OBVIOUS
  <2> HIDE DEF S, Upto
  <2>4. S = Nat
    BY <2>1, <2>2, <2>3, Induction
  <2> QED BY <2>4 DEF S
<1>3. \A k \in Nat : Upto(k, CHOOSE g : Upto(k, g))
  <2> HIDE DEF Upto
  <2> QED BY <1>1, Zenon
<1>4. Is(f0)
  <2> SUFFICES ASSUME NEW k \in Nat
               PROVE  f0[k] = IF k = 0 THEN 1 ELSE Base * f0[k - 1]
    OBVIOUS
  <2> DEFINE g == CHOOSE gg : Upto(k, gg)
             h == CHOOSE gg : Upto(k - 1, gg)
  <2>1. f0[k] = g[k] /\ Upto(k, g)
    BY <1>3
  <2>2. CASE k = 0
    BY <2>1, <2>2
  <2>3. CASE k # 0
    <3>1. k - 1 \in Nat /\ k - 1 + 1 = k
      BY <2>3
    <3>2. f0[k - 1] = h[k - 1] /\ Upto(k - 1, h)
      BY <1>3, <3>1
    <3>3. g[k] = Base * g[k - 1]
      BY <2>1, <2>3
    <3> HIDE DEF Upto, g, h, f0
    <3>4. h[k - 1] = g[k - 1]
      BY <1>2, <2>1, <3>1, <3>2
    <3> QED BY <2>1, <2>3, <3>2, <3>3, <3>4
  <2> QED BY <2>2, <2>3
<1>5. Power = CHOOSE f : Is(f)
  BY Zenon DEF Power
<1>6. Is(Power)
  <2> HIDE DEF Is, f0
  <2> QED BY <1>4, <1>5, Zenon
<1> QED BY <1>6

(* The powers of Base.                                                     *)
LEMMA Powers ==
    /\ Power[0] = 1
    /\ \A k \in Nat : Power[k] \in Nat \ {0} /\ Power[k + 1] = Base * Power[k]
<1>1. Power[0] = 1 /\ \A k \in Nat : Power[k + 1] = Base * Power[k]
  BY PowerDefined
<1> DEFINE S == {k \in Nat : Power[k] \in Nat \ {0}}
<1>2. 0 \in S
  BY <1>1
<1>3. ASSUME NEW k \in S PROVE k + 1 \in S
  <2>1. ASSUME NEW a \in Nat \ {0}, NEW b \in Nat \ {0} PROVE a * b \in Nat \ {0}
    OBVIOUS
  <2>2. Base * Power[k] \in Nat \ {0}
    BY <2>1, SizesAssumption
  <2> QED BY <1>1, <2>2
<1>4. S \in SUBSET Nat
  OBVIOUS
<1>5. S = Nat
  <2> HIDE DEF S
  <2> QED BY <1>2, <1>3, <1>4, Induction
<1> QED BY <1>1, <1>5

(* Division with remainder.                                                *)
LEMMA Division ==
    ASSUME NEW v \in Int, NEW a \in Nat \ {0}
    PROVE  /\ v \div a \in Int /\ v % a \in 0..a - 1
           /\ v = a * (v \div a) + (v % a)
  OBVIOUS

(* Dividing twice.                                                         *)
LEMMA DivisionTwice ==
    ASSUME NEW v \in Int, NEW a \in Nat \ {0}, NEW b \in Nat \ {0}
    PROVE  v \div (b * a) = (v \div a) \div b
<1> DEFINE q == v \div a
           r == v % a
           p == q \div b
           s == q % b
<1>1. q \in Int /\ r \in 0..a - 1 /\ v = a * q + r
  BY Division
<1>2. p \in Int /\ s \in 0..b - 1 /\ q = b * p + s
  BY <1>1, Division
<1> HIDE DEF q, r, p, s
<1>3. v = (b * a) * p + (a * s + r)
  BY <1>1, <1>2
<1>4. a * s + r \in Int /\ 0 <= a * s + r /\ a * s + r < b * a
  <2>1. a * s \in Int /\ 0 <= a * s
    BY <1>2
  <2>2. a * s <= a * (b - 1)
    BY <1>2
  <2>3. a * (b - 1) = b * a - a
    OBVIOUS
  <2> QED BY <1>1, <2>1, <2>2, <2>3
<1>5. b * a \in Nat /\ b * a > 0
  OBVIOUS
<1>6. ASSUME NEW c \in Nat, c > 0, NEW x \in Int, NEW y \in Int, v = c * x + y, 0 <= y, y < c
      PROVE  v \div c = x
  BY <1>6
<1> QED BY <1>2, <1>3, <1>4, <1>5, <1>6, Zenon DEF q, p

(* Two numbers with the same last n digits differ by a multiple of the     *)
(* n-th power.                                                             *)
LEMMA SameDigits ==
    ASSUME NEW v \in Int, NEW w \in Int, NEW n \in Nat,
           \A i \in 1..n : (v \div Power[i - 1]) % Base = (w \div Power[i - 1]) % Base
    PROVE  v - w = Power[n] * ((v \div Power[n]) - (w \div Power[n]))
<1> DEFINE D(k) == v - w = Power[k] * ((v \div Power[k]) - (w \div Power[k]))
           S == {k \in Nat : k <= n => D(k)}
<1>1. 0 \in S
  <2>1. Power[0] = 1
    BY Powers
  <2>2. v \div 1 = v /\ w \div 1 = w
    OBVIOUS
  <2> QED BY <2>1, <2>2
<1>2. ASSUME NEW k \in S PROVE k + 1 \in S
  <2> SUFFICES ASSUME k + 1 <= n PROVE D(k + 1)
    OBVIOUS
  <2> DEFINE a == Power[k]
             x == v \div a
             y == w \div a
  <2>1. k \in Nat /\ v - w = a * (x - y) /\ k + 1 \in 1..n /\ k + 1 - 1 = k
    OBVIOUS
  <2>2. a \in Nat \ {0} /\ Power[k + 1] = Base * a
    BY <2>1, Powers
  <2>3. x \in Int /\ y \in Int
    BY <2>2, Division, Zenon
  <2>4. x % Base = y % Base
    <3>1. (v \div Power[(k + 1) - 1]) % Base = (w \div Power[(k + 1) - 1]) % Base
      BY <2>1, Zenon
    <3>2. Power[(k + 1) - 1] = a
      BY <2>1
    <3> HIDE DEF a
    <3> QED BY <3>1, <3>2, Zenon
  <2> DEFINE p == x \div Base
             q == y \div Base
             r == x % Base
  <2>5. /\ p \in Int /\ q \in Int /\ r \in Int
        /\ x = Base * p + r /\ y = Base * q + r
    <3>1. ASSUME NEW u \in Int
          PROVE  u \div Base \in Int /\ u % Base \in Int /\ u = Base * (u \div Base) + (u % Base)
      BY Division, SizesAssumption
    <3> HIDE DEF x, y
    <3> QED BY <2>3, <2>4, <3>1
  <2>6. v \div Power[k + 1] = x \div Base /\ w \div Power[k + 1] = y \div Base
    BY <2>2, DivisionTwice, SizesAssumption
  <2> HIDE DEF x, y, a, p, q, r
  <2>7. x - y = Base * (p - q) /\ Base \in Int
    BY <2>5, SizesAssumption
  <2>8. a * (x - y) = (Base * a) * (p - q)
    BY <2>2, <2>5, <2>7
  <2>9. v \div Power[k + 1] = p /\ w \div Power[k + 1] = q
    BY <2>6 DEF p, q
  <2> QED BY <2>1, <2>2, <2>8, <2>9
<1>3. S \in SUBSET Nat
  OBVIOUS
<1>4. S = Nat
  <2> HIDE DEF S
  <2> QED BY <1>1, <1>2, <1>3, Induction
<1> QED BY <1>4

(* The sizes that the address space bounds.                                *)
LEMMA Sizes ==
    /\ Base \in Nat \ {0} /\ Word \in Nat /\ Modulus \in Nat \ {0}
    /\ MaxAlloc \in Nat /\ MaxString \in Nat /\ MaxWrite \in Nat
    /\ MaxAlloc + MaxWrite < Modulus
    /\ MaxAlloc + MaxString < Modulus
    /\ MaxAlloc + Word < Modulus
    /\ InitCaps \subseteq 0..MaxAlloc
<1>1. Modulus \in Nat \ {0}
  BY SizesAssumption, Powers DEF Modulus
<1> QED BY <1>1, SizesAssumption

(* A representation has as many bytes as its type is wide.                 *)
LEMMA RepresentTyped ==
    ASSUME NEW v \in Int, NEW t, t.width \in Nat
    PROVE  Represent(v, t) \in Seq(Nat) /\ Len(Represent(v, t)) = t.width
<1>1. \A i \in 1..t.width : (v \div Power[i - 1]) % Base \in Nat
  <2> SUFFICES ASSUME NEW i \in 1..t.width PROVE (v \div Power[i - 1]) % Base \in Nat
    OBVIOUS
  <2>1. Power[i - 1] \in Nat \ {0}
    BY Powers
  <2>2. v \div Power[i - 1] \in Int
    BY <2>1, Division, Zenon
  <2>3. \A u \in Int : u % Base \in Nat
    BY Division, SizesAssumption
  <2> QED BY <2>2, <2>3, Zenon
<1> QED BY <1>1 DEF Represent

(* The integer types, with the one that a string's length has.             *)
LEMMA IntTyped ==
    ASSUME NEW t \in IntTypes \union {UIntType}
    PROVE  /\ t.kind = "int" /\ t.width \in Nat /\ t.signed \in BOOLEAN
           /\ \A v, w \in ValuesOf(t) :
                 v \in Int /\ w \in Int /\ v - w < Power[t.width] /\ w - v < Power[t.width]
<1>1. t.kind = "int" /\ t.width \in Nat /\ t.signed \in BOOLEAN
  <2>1. /\ UIntType.kind = "int" /\ UIntType.width \in Nat /\ UIntType.signed \in BOOLEAN
    BY SizesAssumption DEF UIntType
  <2> QED BY <2>1, TypesAssumption, Zenon
<1> DEFINE n == Power[t.width]
<1>2. n \in Nat \ {0}
  BY <1>1, Powers
<1>3. ValuesOf(t) = IF t.signed THEN -(n \div 2)..(n \div 2) - 1 ELSE 0..n - 1
  BY DEF ValuesOf
<1> HIDE DEF n
<1>4. n \div 2 \in Int /\ (n \div 2) + (n \div 2) <= n
  BY <1>2
<1>5. \A v, w \in ValuesOf(t) : v \in Int /\ w \in Int /\ v - w < n /\ w - v < n
  BY <1>1, <1>2, <1>3, <1>4
<1> QED BY <1>1, <1>5 DEF n

(* No two values of a type are represented alike: a multiple of the power  *)
(* that is less than it is 0.                                              *)
LEMMA RepresentInjective ==
    ASSUME NEW t \in IntTypes \union {UIntType}, NEW v \in ValuesOf(t), NEW w \in ValuesOf(t),
           Represent(v, t) = Represent(w, t)
    PROVE  v = w
<1> DEFINE n == Power[t.width]
           d == (v \div n) - (w \div n)
<1>1. v \in Int /\ w \in Int /\ v - w < n /\ w - v < n /\ t.width \in Nat
  BY IntTyped
<1>2. n \in Nat \ {0}
  BY <1>1, Powers
<1>3. \A i \in 1..t.width : (v \div Power[i - 1]) % Base = (w \div Power[i - 1]) % Base
  <2> SUFFICES ASSUME NEW i \in 1..t.width
               PROVE  (v \div Power[i - 1]) % Base = (w \div Power[i - 1]) % Base
    OBVIOUS
  <2>1. /\ Represent(v, t)[i] = (v \div Power[i - 1]) % Base
        /\ Represent(w, t)[i] = (w \div Power[i - 1]) % Base
    BY DEF Represent
  <2> QED BY <2>1, Zenon
<1>4. v - w = n * d
  BY <1>1, <1>3, SameDigits, Zenon
<1>5. d \in Int
  BY <1>1, <1>2, Division
<1> HIDE DEF n, d
<1>6. d = 0
  <2>1. ~(d >= 1)
    <3> SUFFICES ASSUME d >= 1 PROVE FALSE
      OBVIOUS
    <3>1. n * d >= n
      BY <1>2, <1>5
    <3> QED BY <1>1, <1>2, <1>4, <3>1
  <2>2. ~(d <= -1)
    <3> SUFFICES ASSUME d <= -1 PROVE FALSE
      OBVIOUS
    <3>1. n * d <= -n
      BY <1>2, <1>5
    <3> QED BY <1>1, <1>2, <1>4, <3>1
  <2> QED BY <1>5, <2>1, <2>2
<1> QED BY <1>1, <1>2, <1>4, <1>6

(* The types of what is written are told apart by their kind.              *)
LEMMA Kinds ==
    /\ StringType.kind = "string" /\ BytesType.kind = "bytes"
    /\ UIntType.kind = "int" /\ UIntType.width = Word /\ UIntType.signed = FALSE
    /\ ValuesOf(UIntType) = UInt
  BY DEF StringType, BytesType, UIntType, ValuesOf, UInt, Modulus

(* What a write appends, by the type of the value.                         *)
LEMMA WrittenAs ==
    ASSUME NEW item \in Items
    PROVE  /\ Written(item) \in Seq(Nat) /\ Len(Written(item)) <= MaxWrite
           /\ item.type \in IntTypes =>
                 /\ item.value \in ValuesOf(item.type)
                 /\ Written(item) = Represent(item.value, item.type)
                 /\ Len(Written(item)) = item.type.width
           /\ item.type = StringType =>
                 /\ item.value \in Seq(Nat) /\ Len(item.value) <= MaxString
                 /\ Len(item.value) \in UInt
                 /\ Written(item) = Represent(Len(item.value), UIntType) \o item.value
                 /\ Represent(Len(item.value), UIntType) \in Seq(Nat)
                 /\ Len(Represent(Len(item.value), UIntType)) = Word
           /\ item.type = BytesType => item.value \in Seq(Nat) /\ Written(item) = item.value
<1>1. Len(Written(item)) <= MaxWrite
  BY ItemsAssumption
<1>2. CASE item.type \in IntTypes /\ item.value \in ValuesOf(item.type)
  <2>1. item.type.kind = "int" /\ item.value \in Int /\ item.type.width \in Nat
    BY <1>2, IntTyped
  <2>2. Written(item) = Represent(item.value, item.type)
    BY <2>1 DEF Written
  <2>3. item.type # StringType /\ item.type # BytesType
    BY <2>1, Kinds
  <2> QED BY <1>1, <1>2, <2>1, <2>2, <2>3, RepresentTyped, Zenon
<1>3. CASE item.type = StringType /\ item.value \in Seq(Nat) /\ Len(item.value) <= MaxString
  <2>1. item.type.kind = "string" /\ item.type \notin IntTypes /\ item.type # BytesType
    BY <1>3, Kinds, TypesAssumption
  <2>2. Len(item.value) \in UInt /\ Len(item.value) \in Int
    BY <1>3, Sizes DEF UInt
  <2>3. Written(item) = Represent(Len(item.value), UIntType) \o item.value
    BY <2>1, Zenon DEF Written
  <2>4. /\ Represent(Len(item.value), UIntType) \in Seq(Nat)
        /\ Len(Represent(Len(item.value), UIntType)) = Word
    BY <2>2, RepresentTyped, Kinds, SizesAssumption
  <2>5. Written(item) \in Seq(Nat)
    BY <1>3, <2>3, <2>4
  <2> QED BY <1>1, <1>3, <2>1, <2>2, <2>3, <2>4, <2>5, Zenon
<1>4. CASE item.type = BytesType /\ item.value \in Seq(Nat)
  <2>1. item.type.kind = "bytes" /\ item.type \notin IntTypes /\ item.type # StringType
    BY <1>4, Kinds, TypesAssumption
  <2>2. Written(item) = item.value
    BY <2>1 DEF Written
  <2> QED BY <1>1, <1>4, <2>1, <2>2, Zenon
<1> QED BY <1>2, <1>3, <1>4, ItemsAssumption, Zenon

(* The strengthening: a buffer never is smaller than init_cap, which is    *)
(* what makes the capacity that a failed toMessage leaves behind a true    *)
(* one.                                                                    *)
BufferInv ==
    /\ BufferTypeOK
    /\ init_cap <= capacity
    /\ BuilderFits
    /\ PositionInside
    /\ InBounds

(* An unsigned int sum below 2^32 is the sum; any other is still an        *)
(* unsigned int.                                                           *)
LEMMA WrapSum ==
    ASSUME NEW n \in Nat
    PROVE  Wrap(n) \in UInt /\ (n < Modulus => Wrap(n) = n)
<1>1. Modulus \in Nat /\ Modulus > 0
  BY Sizes
<1> HIDE DEF Modulus
<1> QED BY <1>1 DEF Wrap, UInt

(* reserve asks for enough.                                                *)
LEMMA GrownEnough ==
    ASSUME capacity \in UInt, NEW n \in UInt
    PROVE  /\ Grown(n) \in UInt
           /\ Grown(n) >= n
           /\ capacity >= n => Grown(n) = capacity
<1>1. Wrap(2 * capacity) \in UInt
  BY WrapSum DEF UInt
<1> QED BY <1>1, Sizes DEF Grown, UInt

(* An empty builder and an empty message satisfy the invariant.            *)
LEMMA InitBuffer == BufferInit => BufferInv
<1> SUFFICES ASSUME BufferInit PROVE BufferInv
  OBVIOUS
<1>1. init_cap \in 0..MaxAlloc /\ 0 \in UInt /\ init_cap \in UInt
  BY Sizes DEF BufferInit, UInt
<1>2. InBounds
  BY DEF BufferInit, InBounds
<1>3. BufferTypeOK
  <2>1. failed \in BOOLEAN /\ cut \in BOOLEAN /\ stray \in BOOLEAN
    BY Zenon DEF BufferInit
  <2>2. Len(<<>>) = 0 /\ <<>> \in Seq(Nat)
    OBVIOUS
  <2> QED BY <1>1, <2>1, <2>2, Sizes DEF BufferInit, BufferTypeOK
<1> QED BY <1>1, <1>2, <1>3, Sizes
        DEF BufferInit, BufferInv, BuilderFits, PositionInside, getSize

(* A write of any value stays in the buffer reserve has made.              *)
LEMMA WriteStep ==
    ASSUME BufferInv, NEW item \in Items, write(item)
    PROVE  BufferInv'
<1> DEFINE n == Len(Written(item))
<1> USE DEF BufferInv
<1>1. Written(item) \in Seq(Nat) /\ n \in Nat /\ n <= MaxWrite
  <2>1. Written(item) \in Seq(Nat) /\ n <= MaxWrite
    BY WrittenAs, Zenon
  <2> QED BY <2>1
<1>2. /\ size \in Nat /\ size <= MaxAlloc /\ capacity \in Nat
      /\ room \in Nat /\ room <= MaxAlloc /\ capacity <= room
  BY Sizes DEF BufferTypeOK, BuilderFits, UInt
<1>3. size + n \in UInt /\ Wrap(size + n) = size + n
  BY <1>1, <1>2, WrapSum, Sizes DEF UInt
<1> DEFINE g == Grown(size + n)
<1>4. /\ capacity' = g /\ g <= MaxAlloc /\ g \in UInt /\ g >= size + n
      /\ room' = IF capacity < size + n THEN g ELSE room
      /\ capacity >= size + n => g = capacity
  BY <1>3, GrownEnough DEF write, Reserved, BufferTypeOK
<1>5. size' = size + n /\ cells' = cells \o Written(item)
  BY <1>3 DEF write
<1>6. UNCHANGED <<init_cap, cut, message, seek_pos>> /\ failed' = FALSE
  BY DEF write, reader
<1>7. /\ size' <= room' /\ capacity' <= room' /\ room' \in 0..MaxAlloc
      /\ size' \in 0..MaxAlloc /\ size' <= capacity'
  BY <1>1, <1>2, <1>3, <1>4, <1>5, Sizes DEF UInt
<1>8. InBounds' /\ stray' \in BOOLEAN
  <2>1. ~(size + n > room') /\ size <= room'
    BY <1>1, <1>2, <1>5, <1>7
  <2>2. stray' = (stray \/ ~CopyInside(size + n) \/ FALSE)
    BY <1>3, <2>1, Zenon DEF write
  <2>3. CopyInside(size + n) \/ cut
    BY <1>2, <1>7, <2>1 DEF CopyInside, Copied, BuilderFits
  <2> QED BY <1>6, <2>2, <2>3, Zenon DEF InBounds
<1>9. cells' \in Seq(Nat) /\ Len(cells') = size'
  <2>1. cells \in Seq(Nat) /\ Len(cells) = size
    BY DEF BufferTypeOK
  <2> HIDE DEF BufferInv
  <2>2. cells \o Written(item) \in Seq(Nat)
    BY <1>1, <2>1
  <2>3. Len(cells \o Written(item)) = Len(cells) + Len(Written(item))
    BY <1>1, <2>1
  <2> QED BY <1>5, <2>1, <2>2, <2>3
<1>10. BufferTypeOK'
  <2>1. capacity' \in UInt
    BY <1>4
  <2> QED BY <1>6, <1>7, <1>8, <1>9, <2>1, Zenon DEF BufferTypeOK
<1>11. init_cap' <= capacity'
  BY <1>2, <1>3, <1>4, <1>6, Sizes DEF BufferTypeOK, UInt
<1> QED BY <1>6, <1>7, <1>8, <1>10, <1>11 DEF BuilderFits, PositionInside, getSize

(* reserve called from outside: what it copies fits in the new allocation  *)
(* unless less than what is written was asked for while the capacity was   *)
(* less too, which BuilderFits says it is only after a failed toMessage.   *)
LEMMA ReserveStep ==
    ASSUME BufferInv, NEW n \in Reserves, reserve(n)
    PROVE  BufferInv'
<1> USE DEF BufferInv
<1>1. n \in UInt /\ n \in Nat
  BY Sizes, SizesAssumption DEF UInt
<1>2. /\ size \in Nat /\ size <= MaxAlloc /\ capacity \in Nat /\ capacity \in UInt
      /\ room \in Nat /\ room <= MaxAlloc /\ capacity <= room /\ init_cap \in Nat
  BY Sizes DEF BufferTypeOK, BuilderFits, UInt
<1> DEFINE g == Grown(n)
<1>3. /\ capacity' = g /\ g <= MaxAlloc /\ g \in UInt /\ g \in Nat /\ g >= n
      /\ room' = IF capacity < n THEN g ELSE room
      /\ capacity >= n => g = capacity
  BY <1>1, <1>2, GrownEnough DEF reserve, Reserved, UInt
<1>4. UNCHANGED <<init_cap, size, cells, failed, message, seek_pos>>
  BY DEF reserve, reader
<1>5. cut' = (cut \/ (failed /\ n < size)) /\ stray' = (stray \/ ~CopyInside(n))
  BY DEF reserve
<1> HIDE DEF g
<1>6. ASSUME ~cut'
      PROVE  ~cut /\ size <= room' /\ (size <= capacity' \/ failed)
  <2>1. ~cut /\ (~failed \/ n >= size)
    BY <1>1, <1>2, <1>5, <1>6 DEF BufferTypeOK
  <2>2. size <= room /\ (size <= capacity \/ failed)
    BY <2>1 DEF BuilderFits
  <2> QED BY <1>1, <1>2, <1>3, <2>1, <2>2
<1>7. BuilderFits'
  <2>1. capacity' <= room'
    BY <1>1, <1>2, <1>3
  <2> QED BY <1>4, <1>6, <2>1 DEF BuilderFits
<1>8. InBounds'
  <2>1. ~cut' => CopyInside(n)
    BY <1>2, <1>6, <1>3 DEF CopyInside, Copied, BuilderFits
  <2>2. ~cut' => ~stray
    BY <1>6 DEF InBounds
  <2> QED BY <1>5, <2>1, <2>2, Zenon DEF InBounds
<1>9. BufferTypeOK'
  <2>1. cut' \in BOOLEAN /\ stray' \in BOOLEAN
    BY <1>5, Zenon
  <2>2. capacity' \in UInt /\ room' \in 0..MaxAlloc
    BY <1>2, <1>3
  <2> QED BY <1>4, <2>1, <2>2, Zenon DEF BufferTypeOK
<1>10. init_cap' <= capacity'
  BY <1>1, <1>2, <1>3, <1>4
<1> QED BY <1>4, <1>7, <1>8, <1>9, <1>10 DEF PositionInside, getSize

(* toMessage, whole or failing.                                            *)
LEMMA ToMessageStep ==
    ASSUME BufferInv, toMessage \/ toMessageFails
    PROVE  BufferInv'
<1> USE DEF BufferInv
<1>1. init_cap \in 0..MaxAlloc /\ init_cap \in UInt /\ 0 \in 0..MaxAlloc
  BY Sizes DEF BufferTypeOK, UInt
<1>2. CASE Emptied /\ (StartReading(cells, items) \/ UNCHANGED <<message, seek_pos>>)
  <2>1. /\ UNCHANGED <<init_cap, cut, stray>> /\ capacity' = init_cap /\ room' = init_cap
        /\ size' = 0 /\ cells' = <<>> /\ failed' = FALSE
        /\ (message' = cells /\ seek_pos' = 0) \/ UNCHANGED <<message, seek_pos>>
    BY <1>2 DEF Emptied, StartReading
  <2>2. /\ cells \in Seq(Nat) /\ Len(cells) <= MaxAlloc /\ Len(cells) \in Nat
        /\ message \in Seq(Nat) /\ Len(message) <= MaxAlloc
    BY Sizes DEF BufferTypeOK, UInt
  <2>3. BuilderFits'
    BY <1>1, <2>1 DEF BuilderFits
  <2>4. PositionInside' /\ message' \in Seq(Nat) /\ Len(message') <= MaxAlloc /\ seek_pos' \in UInt
    BY <2>1, <2>2, Sizes DEF PositionInside, getSize, BufferTypeOK, UInt
  <2>5. BufferTypeOK'
    <3>1. Len(<<>>) = 0 /\ <<>> \in Seq(Nat)
      OBVIOUS
    <3>2. failed' \in BOOLEAN /\ cut' \in BOOLEAN /\ stray' \in BOOLEAN
      BY <2>1, Zenon DEF BufferTypeOK
    <3> QED BY <1>1, <2>1, <2>4, <3>1, <3>2 DEF BufferTypeOK
  <2> QED BY <1>1, <2>1, <2>3, <2>4, <2>5 DEF InBounds
<1>3. CASE /\ capacity' = init_cap /\ failed' = TRUE
           /\ UNCHANGED <<init_cap, size, room, cells, items, cut, message, contents, reader, stray>>
  <2>1. UNCHANGED <<init_cap, size, room, cells, cut, message, seek_pos, stray>>
    BY <1>3 DEF reader
  <2>2. BufferTypeOK'
    BY <1>1, <1>3, <2>1, Zenon DEF BufferTypeOK
  <2>3. BuilderFits'
    BY <1>1, <1>3, <2>1, Sizes DEF BuilderFits, BufferTypeOK, UInt
  <2> QED BY <1>1, <1>3, <2>1, <2>2, <2>3 DEF PositionInside, InBounds, getSize
<1> QED BY <1>2, <1>3, Zenon DEF toMessage, toMessageFails, reader

(* A step that leaves the builder and the message alone and the position   *)
(* inside the message.                                                     *)
LEMMA ReaderStep ==
    ASSUME BufferInv, UNCHANGED <<builder, message>>,
           seek_pos' \in UInt, seek_pos' <= getSize, stray' = stray
    PROVE  BufferInv'
<1> USE DEF BufferInv
<1>1. UNCHANGED <<init_cap, capacity, size, room, cells, failed, cut, message>>
  BY DEF builder
<1>2. BufferTypeOK'
  BY <1>1, Zenon DEF BufferTypeOK
<1> QED BY <1>1, <1>2 DEF BuilderFits, PositionInside, InBounds, getSize

(* Asking for n bytes at a position inside the message, n so small that    *)
(* the sum does not wrap.                                                  *)
LEMMA AssuredInside ==
    ASSUME BufferInv, NEW pos \in UInt, pos <= getSize,
           NEW n \in Nat, n + MaxAlloc < Modulus
    PROVE  /\ Wrap(pos + n) = pos + n
           /\ Wrap(pos + n) \in UInt
           /\ assureSize(pos, n) <=> Inside(pos, n)
<1>1. getSize \in Nat /\ getSize <= MaxAlloc /\ pos \in Nat
  BY Sizes DEF BufferInv, BufferTypeOK, getSize, UInt
<1>2. pos + n \in Nat /\ pos + n < Modulus
  BY <1>1, Sizes
<1>3. Wrap(pos + n) = pos + n /\ Wrap(pos + n) \in UInt
  BY <1>2, WrapSum
<1> QED BY <1>3 DEF assureSize, Inside

(* readSByte to readUInt64 stay inside the message.                        *)
LEMMA ReadIntStep ==
    ASSUME BufferInv, NEW t \in IntTypes, readInt(t)
    PROVE  BufferInv'
<1>1. seek_pos \in UInt /\ seek_pos <= getSize
  BY DEF BufferInv, BufferTypeOK, PositionInside
<1>2. /\ Wrap(seek_pos + t.width) = seek_pos + t.width
      /\ Wrap(seek_pos + t.width) \in UInt
      /\ assureSize(seek_pos, t.width) <=> Inside(seek_pos, t.width)
  BY <1>1, AssuredInside, TypesAssumption
<1>3. UNCHANGED <<builder, message>>
  BY DEF readInt
<1>4. CASE ~assureSize(seek_pos, t.width)
  BY <1>1, <1>3, <1>4, ReaderStep DEF readInt
<1>5. CASE assureSize(seek_pos, t.width)
  <2>1. seek_pos' = seek_pos + t.width /\ stray' = (stray \/ FALSE)
    BY <1>2, <1>5, Zenon DEF readInt
  <2>2. seek_pos' \in UInt /\ seek_pos' <= getSize
    BY <1>2, <1>5, <2>1 DEF Inside
  <2> QED BY <1>3, <2>1, <2>2, ReaderStep DEF BufferInv, BufferTypeOK
<1> QED BY <1>4, <1>5

(* readBytes stays inside the message.                                     *)
LEMMA ReadBytesStep ==
    ASSUME BufferInv, NEW n \in 0..MaxWrite, readBytes(n)
    PROVE  BufferInv'
<1>1. seek_pos \in UInt /\ seek_pos <= getSize
  BY DEF BufferInv, BufferTypeOK, PositionInside
<1>2. n \in Nat /\ n + MaxAlloc < Modulus
  BY Sizes
<1>3. /\ Wrap(seek_pos + n) = seek_pos + n
      /\ Wrap(seek_pos + n) \in UInt
      /\ assureSize(seek_pos, n) <=> Inside(seek_pos, n)
  BY <1>1, <1>2, AssuredInside
<1>4. UNCHANGED <<builder, message>>
  BY DEF readBytes
<1>5. CASE ~assureSize(seek_pos, n)
  BY <1>1, <1>4, <1>5, ReaderStep DEF readBytes
<1>6. CASE assureSize(seek_pos, n)
  <2>1. seek_pos' = seek_pos + n /\ stray' = (stray \/ FALSE)
    BY <1>3, <1>6, Zenon DEF readBytes
  <2>2. seek_pos' \in UInt /\ seek_pos' <= getSize
    BY <1>3, <1>6, <2>1 DEF Inside
  <2> QED BY <1>4, <2>1, <2>2, ReaderStep DEF BufferInv, BufferTypeOK
<1> QED BY <1>5, <1>6

(* readString stays inside the message, whatever length it finds there.    *)
LEMMA ReadStringStep ==
    ASSUME BufferInv, readString
    PROVE  BufferInv'
<1> DEFINE start == Wrap(seek_pos + Word)
<1>1. seek_pos \in UInt /\ seek_pos <= getSize
  BY DEF BufferInv, BufferTypeOK, PositionInside
<1>2. /\ start = seek_pos + Word /\ start \in UInt
      /\ assureSize(seek_pos, Word) <=> Inside(seek_pos, Word)
  BY <1>1, AssuredInside, Sizes
<1>3. UNCHANGED <<builder, message>>
  BY DEF readString
<1>4. CASE ~assureSize(seek_pos, Word)
  BY <1>1, <1>3, <1>4, ReaderStep DEF readString
<1>5. CASE assureSize(seek_pos, Word)
  <2>1. start <= getSize
    BY <1>2, <1>5 DEF Inside
  <2>2. PICK n \in UInt :
          /\ seek_pos' = IF assureSize(start, n) THEN Wrap(start + n) ELSE start
          /\ stray' = \/ stray
                      \/ ~Inside(seek_pos, Word)
                      \/ assureSize(start, n) /\ n <= MaxString /\ ~Inside(start, n)
    BY <1>5, Zenon DEF readString
  <2>3. n \in Nat /\ start \in Nat
    BY <1>2, Sizes DEF UInt
  <2>4. seek_pos' \in UInt /\ seek_pos' <= getSize
    BY <1>2, <2>1, <2>2, <2>3, WrapSum DEF assureSize
  <2>5. ~(assureSize(start, n) /\ n <= MaxString /\ ~Inside(start, n))
    <3> SUFFICES ASSUME assureSize(start, n), n <= MaxString PROVE Inside(start, n)
      OBVIOUS
    <3>1. n + MaxAlloc < Modulus
      BY <2>3, Sizes
    <3> QED BY <1>2, <2>1, <2>3, <3>1, AssuredInside
  <2>6. stray' = (stray \/ FALSE)
    BY <1>2, <1>5, <2>2, <2>5, Zenon
  <2> QED BY <1>3, <2>4, <2>6, ReaderStep DEF BufferInv, BufferTypeOK
<1> QED BY <1>4, <1>5

(* seek goes nowhere outside the message.                                  *)
LEMMA SeekStep ==
    ASSUME BufferInv, NEW pos \in UInt, seek(pos)
    PROVE  BufferInv'
<1>1. seek_pos \in UInt /\ seek_pos <= getSize /\ getSize \in Nat /\ pos \in Nat
  BY Sizes DEF BufferInv, BufferTypeOK, PositionInside, getSize, UInt
<1>2. UNCHANGED <<builder, message>> /\ stray' = stray
  BY DEF seek
<1>3. seek_pos' \in UInt /\ seek_pos' <= getSize
  BY <1>1 DEF seek
<1> QED BY <1>2, <1>3, ReaderStep

(* Every step preserves the invariant.                                     *)
LEMMA NextBuffer == BufferInv /\ [BufferNext]_bufferVars => BufferInv'
<1> SUFFICES ASSUME BufferInv, [BufferNext]_bufferVars PROVE BufferInv'
  OBVIOUS
<1>1. CASE UNCHANGED bufferVars
  <2>1. UNCHANGED <<builder, message, seek_pos, stray>>
    BY <1>1 DEF bufferVars, reader
  <2> QED BY <2>1, ReaderStep DEF BufferInv, BufferTypeOK, PositionInside
<1> QED BY <1>1, WriteStep, ReserveStep, ToMessageStep, ReadIntStep, ReadBytesStep,
           ReadStringStep, SeekStep DEF BufferNext

(* The invariant holds throughout.                                         *)
THEOREM BufferInvariance == BufferSpec => []BufferInv
  BY InitBuffer, NextBuffer, PTL DEF BufferSpec

(* The builder's size is the number of bytes written; nothing wraps.       *)
THEOREM BufferTyped == BufferSpec => []BufferTypeOK
<1>1. BufferInv => BufferTypeOK
  BY DEF BufferInv
<1> QED BY <1>1, BufferInvariance, PTL

(* What reserve believes to be allocated is allocated, also after an       *)
(* exception in toMessage, and what is written fits in it as long as no    *)
(* call of reserve after such an exception has cut the buffer.             *)
THEOREM ReserveCorrect == BufferSpec => []BuilderFits
<1>1. BufferInv => BuilderFits
  BY DEF BufferInv
<1> QED BY <1>1, BufferInvariance, PTL

(* A reader never gets past the end of its message.                        *)
THEOREM PositionCorrect == BufferSpec => []PositionInside
<1>1. BufferInv => PositionInside
  BY DEF BufferInv
<1> QED BY <1>1, BufferInvariance, PTL

(* No store, no copy of a reserve and no read of either class leaves its   *)
(* buffer, unless reserve was called for less than is written after a      *)
(* toMessage that failed.                                                  *)
THEOREM AccessCorrect == BufferSpec => []InBounds
<1>1. BufferInv => InBounds
  BY DEF BufferInv
<1> QED BY <1>1, BufferInvariance, PTL

(* f gives the positions in the bytes m where the values its begin, one    *)
(* after the other, and at last the end of m.                              *)
Marks(m, its, f) ==
    /\ f[Len(its) + 1] = Len(m)
    /\ \A i \in 1..Len(its) :
          /\ f[i + 1] = f[i] + Len(Written(its[i]))
          /\ \A j \in 1..Len(Written(its[i])) : m[f[i] + j] = Written(its[i])[j]

(* The bytes m from position pos on are what writing its appends.          *)
Spells(m, pos, its) ==
    \E f \in [1..Len(its) + 1 -> 0..Len(m)] : Marks(m, its, f) /\ f[1] = pos

(* The strengthening for RoundTrip: the builder's bytes and the message    *)
(* are the values written to them, and what an in-order reading has still  *)
(* to read begins at the position.                                         *)
RoundInv ==
    /\ items \in Seq(Items) /\ contents \in Seq(Items) /\ rest \in Seq(Items)
    /\ Spells(cells, 0, items)
    /\ Spells(message, 0, contents)
    /\ rest # <<>> => Spells(message, seek_pos, rest)
    /\ want # <<>> => got = want

(* Nothing is written in no bytes.                                         *)
LEMMA SpellsEmpty == Spells(<<>>, 0, <<>>)
<1> DEFINE f == [i \in 1..1 |-> 0]
<1>1. Len(<<>>) = 0 /\ f \in [1..Len(<<>>) + 1 -> 0..Len(<<>>)] /\ f[1] = 0
  OBVIOUS
<1>2. Marks(<<>>, <<>>, f)
  BY <1>1 DEF Marks
<1> HIDE DEF f
<1> QED BY <1>1, <1>2 DEF Spells

(* A write appends to the bytes what it appends to the values.             *)
LEMMA SpellsAppend ==
    ASSUME NEW m \in Seq(Nat), NEW its \in Seq(Items), NEW item \in Items, Spells(m, 0, its)
    PROVE  Spells(m \o Written(item), 0, Append(its, item))
<1> DEFINE w == Written(item)
           k == Len(its)
           mm == m \o w
           ii == Append(its, item)
<1>1. w \in Seq(Nat) /\ Len(w) \in Nat /\ k \in Nat
  <2>1. w \in Seq(Nat)
    BY WrittenAs, Zenon
  <2> QED BY <2>1
<1>2. PICK f \in [1..k + 1 -> 0..Len(m)] : Marks(m, its, f) /\ f[1] = 0
  BY DEF Spells
<1>3. /\ Len(mm) = Len(m) + Len(w) /\ Len(m) \in Nat
      /\ \A j \in 1..Len(m) : mm[j] = m[j]
      /\ \A j \in 1..Len(w) : mm[Len(m) + j] = w[j]
  BY <1>1
<1>4. Len(ii) = k + 1 /\ ii[k + 1] = item /\ \A i \in 1..k : ii[i] = its[i]
  BY <1>1
<1> HIDE DEF w, k, mm, ii
<1> DEFINE g == [i \in 1..k + 1 + 1 |-> IF i = k + 1 + 1 THEN Len(mm) ELSE f[i]]
<1>5. g \in [1..Len(ii) + 1 -> 0..Len(mm)] /\ g[1] = 0
  BY <1>1, <1>2, <1>3, <1>4
<1>6. f[k + 1] = Len(m)
  BY <1>2 DEF Marks, k
<1>7. ASSUME NEW i \in 1..k + 1
      PROVE  /\ g[i + 1] = g[i] + Len(Written(ii[i]))
             /\ \A j \in 1..Len(Written(ii[i])) : mm[g[i] + j] = Written(ii[i])[j]
  <2>1. CASE i = k + 1
    <3>1. Written(ii[i]) = w /\ g[i] = Len(m) /\ g[i + 1] = Len(mm)
      BY <1>1, <1>4, <1>6, <2>1 DEF w
    <3> HIDE DEF g
    <3> QED BY <1>3, <3>1, Zenon
  <2>2. CASE i # k + 1
    <3>1. i \in 1..k /\ ii[i] = its[i] /\ g[i] = f[i] /\ g[i + 1] = f[i + 1]
      BY <1>1, <1>4, <2>2
    <3>2. /\ f[i + 1] = f[i] + Len(Written(its[i]))
          /\ \A j \in 1..Len(Written(its[i])) : m[f[i] + j] = Written(its[i])[j]
      BY <1>2, <3>1, Zenon DEF Marks, k
    <3>3. /\ Written(its[i]) \in Seq(Nat) /\ f[i] \in 0..Len(m) /\ f[i + 1] \in 0..Len(m)
      <4>1. its[i] \in Items
        BY <3>1 DEF k
      <4>2. Written(its[i]) \in Seq(Nat)
        BY <4>1, WrittenAs, Zenon
      <4> QED BY <1>1, <1>2, <3>1, <4>2
    <3>4. \A j \in 1..Len(Written(its[i])) : mm[f[i] + j] = Written(its[i])[j]
      <4> DEFINE n == Len(Written(its[i]))
      <4>1. n \in Nat /\ f[i] + n <= Len(m) /\ f[i] \in Nat
        BY <1>3, <3>2, <3>3
      <4>2. \A j \in 1..n : f[i] + j \in 1..Len(m)
        BY <1>3, <4>1
      <4> QED BY <1>3, <3>2, <4>2, Zenon
    <3> HIDE DEF g
    <3> QED BY <3>1, <3>2, <3>4, Zenon
  <2> QED BY <2>1, <2>2, Zenon
<1>8. Marks(mm, ii, g)
  <2>1. g[Len(ii) + 1] = Len(mm)
    BY <1>1, <1>4
  <2> HIDE DEF g
  <2> QED BY <1>4, <1>7, <2>1 DEF Marks
<1> HIDE DEF g
<1>9. Spells(mm, 0, ii)
  BY <1>5, <1>8, Zenon DEF Spells
<1> QED BY <1>9 DEF mm, ii, w

(* The first of the values is at the position, the others follow it.       *)
LEMMA SpellsHead ==
    ASSUME NEW m \in Seq(Nat), NEW its \in Seq(Items), its # <<>>, NEW pos, Spells(m, pos, its)
    PROVE  LET w == Written(Head(its))
           IN  /\ Head(its) \in Items
               /\ pos \in Nat /\ pos + Len(w) <= Len(m)
               /\ \A j \in 1..Len(w) : m[pos + j] = w[j]
               /\ Tail(its) \in Seq(Items)
               /\ Spells(m, pos + Len(w), Tail(its))
<1> DEFINE w == Written(Head(its))
           k == Len(its)
           tt == Tail(its)
<1>1. /\ Head(its) \in Items /\ tt \in Seq(Items) /\ k \in Nat /\ k >= 1
      /\ Head(its) = its[1] /\ Len(tt) = k - 1
      /\ \A i \in 1..k - 1 : tt[i] = its[i + 1]
  OBVIOUS
<1>2. w \in Seq(Nat) /\ Len(w) \in Nat
  <2>1. w \in Seq(Nat)
    BY <1>1, WrittenAs, Zenon
  <2> QED BY <2>1
<1>3. PICK f \in [1..k + 1 -> 0..Len(m)] : Marks(m, its, f) /\ f[1] = pos
  BY DEF Spells
<1>4. /\ f[k + 1] = Len(m)
      /\ \A i \in 1..k : /\ f[i + 1] = f[i] + Len(Written(its[i]))
                         /\ \A j \in 1..Len(Written(its[i])) : m[f[i] + j] = Written(its[i])[j]
  BY <1>3, Zenon DEF Marks
<1> HIDE DEF k, tt, w
<1>5. /\ f[2] = pos + Len(w) /\ \A j \in 1..Len(w) : m[pos + j] = w[j]
      /\ f[1] \in 0..Len(m) /\ f[2] \in 0..Len(m)
  <2>1. 1 \in 1..k /\ 1 + 1 = 2 /\ f[1] \in 0..Len(m) /\ f[2] \in 0..Len(m)
    BY <1>1, <1>3
  <2>2. /\ f[1 + 1] = f[1] + Len(Written(its[1]))
        /\ \A j \in 1..Len(Written(its[1])) : m[f[1] + j] = Written(its[1])[j]
    BY <1>4, <2>1, Zenon
  <2> QED BY <1>1, <1>3, <2>1, <2>2, Zenon DEF w
<1> DEFINE g == [i \in 1..k |-> f[i + 1]]
<1>6. g \in [1..Len(tt) + 1 -> 0..Len(m)] /\ g[1] = pos + Len(w)
  BY <1>1, <1>3, <1>5
<1>7. Marks(m, tt, g)
  <2>1. g[Len(tt) + 1] = Len(m)
    BY <1>1, <1>4
  <2>2. ASSUME NEW i \in 1..Len(tt)
        PROVE  /\ g[i + 1] = g[i] + Len(Written(tt[i]))
               /\ \A j \in 1..Len(Written(tt[i])) : m[g[i] + j] = Written(tt[i])[j]
    <3>1. i + 1 \in 1..k /\ tt[i] = its[i + 1] /\ g[i] = f[i + 1] /\ g[i + 1] = f[i + 1 + 1]
      BY <1>1
    <3> HIDE DEF g
    <3> QED BY <1>4, <3>1, Zenon
  <2> HIDE DEF g
  <2> QED BY <2>1, <2>2, Zenon DEF Marks
<1> HIDE DEF g
<1>8. Spells(m, pos + Len(w), tt)
  BY <1>6, <1>7, Zenon DEF Spells
<1>9. pos \in Nat /\ pos + Len(w) <= Len(m)
  BY <1>2, <1>3, <1>5
<1> QED BY <1>1, <1>5, <1>8, <1>9, Zenon DEF w, tt

(* Bytes that agree with w one by one are w.                               *)
LEMMA BytesAre ==
    ASSUME NEW m \in Seq(Nat), NEW w \in Seq(Nat), NEW pos \in Nat, NEW n, n = Len(w),
           pos + Len(w) <= Len(m), \A j \in 1..Len(w) : m[pos + j] = w[j]
    PROVE  SubSeq(m, pos + 1, pos + n) = w
<1> DEFINE s == SubSeq(m, pos + 1, pos + n)
<1>1. /\ s \in Seq(Nat) /\ Len(s) = Len(w)
      /\ \A j \in 1..Len(w) : s[j] = m[pos + j]
  OBVIOUS
<1> HIDE DEF s
<1>2. \A j \in 1..Len(w) : s[j] = w[j]
  BY <1>1
<1>3. s \in [1..Len(w) -> Nat] /\ w \in [1..Len(w) -> Nat]
  BY <1>1, SMTT(20)
<1>4. s = [j \in 1..Len(w) |-> s[j]] /\ w = [j \in 1..Len(w) |-> w[j]]
  BY <1>3, Zenon
<1>5. [j \in 1..Len(w) |-> s[j]] = [j \in 1..Len(w) |-> w[j]]
  BY <1>2, Zenon
<1> QED BY <1>4, <1>5, Zenon DEF s

(* An empty message.                                                       *)
LEMMA InitRound == BufferInit => RoundInv
<1>1. <<>> \in Seq(Items)
  OBVIOUS
<1> QED BY <1>1, SpellsEmpty, Zenon DEF BufferInit, RoundInv

(* A write, and toMessage, which hands out what was written.               *)
LEMMA BuilderRound ==
    ASSUME BufferInv, RoundInv,
           \/ toMessage \/ toMessageFails
           \/ \E n \in Reserves : reserve(n)
           \/ \E item \in Items : write(item)
    PROVE  RoundInv'
<1> USE DEF RoundInv
<1>1. CASE toMessageFails \/ \E n \in Reserves : reserve(n)
  <2>1. /\ UNCHANGED <<message, contents, seek_pos, rest, got, want>>
        /\ UNCHANGED <<cells, items>> \/ (cells' = <<>> /\ items' = <<>>)
    BY <1>1 DEF toMessageFails, reserve, Emptied, reader
  <2>2. <<>> \in Seq(Items)
    OBVIOUS
  <2> QED BY <2>1, <2>2, SpellsEmpty, Zenon
<1>2. CASE toMessage
  <2>1. /\ message' = cells /\ contents' = items /\ cells' = <<>> /\ items' = <<>>
        /\ seek_pos' = 0 /\ rest' = items /\ want' = <<>>
    BY <1>2 DEF toMessage, Emptied, StartReading
  <2>2. <<>> \in Seq(Items)
    OBVIOUS
  <2> QED BY <2>1, <2>2, SpellsEmpty, Zenon
<1>3. ASSUME NEW item \in Items, write(item) PROVE RoundInv'
  <2>1. /\ cells' = cells \o Written(item) /\ items' = Append(items, item)
        /\ UNCHANGED <<message, contents, seek_pos, rest, got, want>>
    BY <1>3 DEF write, reader
  <2>2. cells \in Seq(Nat)
    BY DEF BufferInv, BufferTypeOK
  <2>3. Spells(cells', 0, items')
    BY <2>1, <2>2, SpellsAppend
  <2>4. items' \in Seq(Items)
    BY <2>1
  <2> QED BY <2>1, <2>3, <2>4, Zenon
<1> QED BY <1>1, <1>2, <1>3

(* A read that an in-order reading does not demand.                        *)
LEMMA OutOfOrder ==
    ASSUME RoundInv, UNCHANGED <<builder, message, contents>>, rest' = <<>>, want' = <<>>
    PROVE  RoundInv'
<1>1. <<>> \in Seq(Items) /\ UNCHANGED <<cells, items, message, contents>>
  BY DEF builder
<1> QED BY <1>1, Zenon DEF RoundInv

(* A read that it does demand, of the value next in the message, if the    *)
(* outcome is that value and the position the one behind it.               *)
LEMMA ReadInOrder ==
    ASSUME RoundInv, UNCHANGED <<builder, message, contents>>, rest # <<>>,
           BufferInv,
           rest' = Tail(rest), got' = want',
           seek_pos' = seek_pos + Len(Written(Head(rest)))
    PROVE  RoundInv'
<1>1. UNCHANGED <<cells, items, message, contents>>
  BY DEF builder
<1>2. message \in Seq(Nat) /\ rest \in Seq(Items) /\ Spells(message, seek_pos, rest)
  BY DEF BufferInv, BufferTypeOK, RoundInv
<1>3. Tail(rest) \in Seq(Items)
      /\ Spells(message, seek_pos + Len(Written(Head(rest))), Tail(rest))
  BY <1>2, SpellsHead, Zenon
<1> QED BY <1>1, <1>3, Zenon DEF RoundInv

(* What an in-order reading finds at the position.                         *)
LEMMA NextValue ==
    ASSUME BufferInv, RoundInv, rest # <<>>
    PROVE  LET item == Head(rest)
               w == Written(item)
           IN  /\ item \in Items /\ message \in Seq(Nat) /\ seek_pos \in Nat
               /\ w \in Seq(Nat)
               /\ seek_pos + Len(w) <= getSize
               /\ \A j \in 1..Len(w) : message[seek_pos + j] = w[j]
               /\ Bytes(seek_pos, Len(w)) = w
<1> DEFINE item == Head(rest)
           w == Written(item)
<1>1. message \in Seq(Nat) /\ rest \in Seq(Items) /\ Spells(message, seek_pos, rest)
  BY DEF BufferInv, BufferTypeOK, RoundInv
<1>2. /\ item \in Items /\ seek_pos \in Nat /\ seek_pos + Len(w) <= Len(message)
      /\ \A j \in 1..Len(w) : message[seek_pos + j] = w[j]
  BY <1>1, SpellsHead, Zenon
<1>3. w \in Seq(Nat)
  BY <1>2, WrittenAs, Zenon
<1> HIDE DEF w, item
<1>4. Bytes(seek_pos, Len(w)) = w
  BY <1>1, <1>2, <1>3, BytesAre, Zenon DEF Bytes
<1> QED BY <1>1, <1>2, <1>3, <1>4, Zenon DEF getSize, w, item

(* readSByte to readUInt64 return the integer that was written.            *)
LEMMA ReadIntRound ==
    ASSUME BufferInv, RoundInv, NEW t \in IntTypes, readInt(t)
    PROVE  RoundInv'
<1>1. UNCHANGED <<builder, message, contents>>
  BY DEF readInt
<1>2. CASE ~(rest # <<>> /\ Head(rest).type = t)
  <2>1. rest' = <<>> /\ want' = <<>>
    BY <1>2, Zenon DEF readInt, Outcome
  <2> QED BY <1>1, <2>1, OutOfOrder
<1>3. CASE rest # <<>> /\ Head(rest).type = t
  <2> DEFINE item == Head(rest)
             w == Written(item)
  <2>1. /\ item \in Items /\ seek_pos \in Nat /\ seek_pos + Len(w) <= getSize
        /\ Bytes(seek_pos, Len(w)) = w
    BY <1>3, NextValue, Zenon
  <2>2. /\ item.value \in ValuesOf(t) /\ w = Represent(item.value, t)
        /\ Len(w) = t.width /\ t.width \in Nat /\ t.width + MaxAlloc < Modulus
    BY <1>3, <2>1, WrittenAs, TypesAssumption, Zenon
  <2>3. Inside(seek_pos, t.width)
    BY <2>1, <2>2 DEF Inside
  <2>4. assureSize(seek_pos, t.width) /\ Wrap(seek_pos + t.width) = seek_pos + t.width
    BY <2>2, <2>3, AssuredInside DEF BufferInv, BufferTypeOK, PositionInside
  <2>5. PICK v \in ValuesOf(t) : /\ Represent(v, t) = Bytes(seek_pos, t.width)
                                 /\ Outcome(t, <<v>>)
    BY <2>3, <2>4, Zenon DEF readInt
  <2>6. seek_pos' = seek_pos + Len(w)
    BY <2>2, <2>4, Zenon DEF readInt
  <2>7. v = item.value
    BY <2>1, <2>2, <2>5, RepresentInjective, Zenon
  <2>8. got' = <<item.value>> /\ want' = <<item.value>> /\ rest' = Tail(rest)
    BY <1>3, <2>5, <2>7, Zenon DEF Outcome
  <2> QED BY <1>1, <1>3, <2>6, <2>8, ReadInOrder, Zenon
<1> QED BY <1>2, <1>3

(* readBytes returns the bytes that were written.                          *)
LEMMA ReadBytesRound ==
    ASSUME BufferInv, RoundInv, NEW n \in 0..MaxWrite, readBytes(n)
    PROVE  RoundInv'
<1> DEFINE item == Head(rest)
           w == Written(item)
           inOrder == rest # <<>> /\ item.type = BytesType /\ Len(item.value) = n
<1>1. UNCHANGED <<builder, message, contents>>
  BY DEF readBytes
<1>2. CASE ~inOrder
  <2>1. rest' = <<>> /\ want' = <<>>
    BY <1>2, Zenon DEF readBytes
  <2> QED BY <1>1, <2>1, OutOfOrder
<1>3. CASE inOrder
  <2>1. /\ item \in Items /\ seek_pos \in Nat /\ seek_pos + Len(w) <= getSize
        /\ Bytes(seek_pos, Len(w)) = w
    BY <1>3, NextValue, Zenon
  <2>2. w = item.value /\ Len(w) = n
    BY <1>3, <2>1, WrittenAs, Zenon
  <2>3. Inside(seek_pos, n) /\ n \in Nat /\ n + MaxAlloc < Modulus
    BY <2>1, <2>2, Sizes DEF Inside
  <2>4. assureSize(seek_pos, n) /\ Wrap(seek_pos + n) = seek_pos + n
    BY <2>3, AssuredInside DEF BufferInv, BufferTypeOK, PositionInside
  <2>5. got' = <<Bytes(seek_pos, n)>> /\ seek_pos' = seek_pos + n
    BY <2>4, Zenon DEF readBytes
  <2>6. want' = <<item.value>> /\ rest' = Tail(rest)
    BY <1>3, Zenon DEF readBytes
  <2>7. got' = want' /\ seek_pos' = seek_pos + Len(w)
    BY <2>1, <2>2, <2>5, <2>6, Zenon
  <2> QED BY <1>1, <1>3, <2>6, <2>7, ReadInOrder, Zenon
<1> QED BY <1>2, <1>3, SMTT(20)

(* readString finds the length that was written, which is one that         *)
(* std::string takes, and behind it the string.                            *)
LEMMA ReadStringRound ==
    ASSUME BufferInv, RoundInv, readString
    PROVE  RoundInv'
<1> DEFINE item == Head(rest)
           w == Written(item)
           inOrder == rest # <<>> /\ item.type = StringType
           start == Wrap(seek_pos + Word)
<1>1. UNCHANGED <<builder, message, contents>>
  BY DEF readString
<1>2. CASE ~inOrder
  <2>1. rest' = <<>> /\ want' = <<>>
    BY <1>2, Zenon DEF readString, Outcome
  <2> QED BY <1>1, <2>1, OutOfOrder
<1>3. CASE inOrder
  <2> DEFINE s == item.value
             h == Represent(Len(s), UIntType)
  <2>1. /\ item \in Items /\ message \in Seq(Nat) /\ seek_pos \in Nat
        /\ seek_pos + Len(w) <= getSize
        /\ \A j \in 1..Len(w) : message[seek_pos + j] = w[j]
    BY <1>3, NextValue, Zenon
  <2>2. /\ s \in Seq(Nat) /\ Len(s) <= MaxString /\ Len(s) \in UInt
        /\ w = h \o s /\ h \in Seq(Nat) /\ Len(h) = Word
    BY <1>3, <2>1, WrittenAs, Zenon
  <2> HIDE DEF item, w, s, h
  <2>3. /\ Len(w) = Word + Len(s) /\ Word \in Nat /\ Len(s) \in Nat
        /\ \A j \in 1..Word : j \in 1..Len(w) /\ w[j] = h[j]
        /\ \A j \in 1..Len(s) : Word + j \in 1..Len(w) /\ w[Word + j] = s[j]
    <3>0. Len(w) = Len(h) + Len(s) /\ Len(s) \in Nat /\ Len(h) \in Nat
      <4>1. h \in Seq(Nat) /\ s \in Seq(Nat)
        BY <2>2, Zenon
      <4>2. Len(h \o s) = Len(h) + Len(s) /\ Len(s) \in Nat /\ Len(h) \in Nat
        BY <4>1
      <4> QED BY <2>2, <4>2, Zenon
    <3>1. Word \in Nat /\ Len(s) \in Nat /\ Len(w) = Word + Len(s)
      BY <2>2, <3>0, Zenon
    <3>2. \A j \in 1..Word : j \in 1..Len(w) /\ w[j] = h[j]
      BY <2>2, <3>1
    <3>3. ASSUME NEW j \in 1..Len(s)
          PROVE  Word + j \in 1..Len(w) /\ w[Word + j] = s[j]
      <4>1. Word + j \in 1..Len(w) /\ ~(Word + j <= Word) /\ (Word + j) - Word = j
        BY <3>1
      <4> QED BY <2>2, <3>1, <4>1
    <3> QED BY <3>1, <3>2, <3>3
  <2>4. Inside(seek_pos, Word) /\ Inside(seek_pos + Word, Len(s))
    BY <2>1, <2>3 DEF Inside, getSize
  <2>5. /\ Bytes(seek_pos, Word) = h
        /\ Bytes(seek_pos + Word, Len(s)) = s
    <3>1. \A j \in 1..Word : message[seek_pos + j] = h[j]
      BY <2>1, <2>3
    <3>2. \A j \in 1..Len(s) : message[(seek_pos + Word) + j] = s[j]
      BY <2>1, <2>3
    <3>3. /\ seek_pos + Word \in Nat
          /\ seek_pos + Word <= Len(message) /\ (seek_pos + Word) + Len(s) <= Len(message)
      BY <2>1, <2>3 DEF getSize
    <3>4. Bytes(seek_pos, Word) = h
      BY <2>1, <2>2, <3>1, <3>3, BytesAre, ZenonT(30) DEF Bytes
    <3> QED BY <2>1, <2>2, <2>3, <3>2, <3>3, <3>4, BytesAre DEF Bytes
  <2>6. seek_pos \in UInt /\ seek_pos <= getSize /\ MaxAlloc \in Nat /\ getSize \in Nat
        /\ getSize <= MaxAlloc /\ Word + MaxAlloc < Modulus /\ Len(s) + MaxAlloc < Modulus
    BY <2>1, <2>2, <2>3, Sizes DEF BufferInv, BufferTypeOK, PositionInside, getSize
  <2>7. assureSize(seek_pos, Word) /\ start = seek_pos + Word /\ start \in UInt
    BY <2>3, <2>4, <2>6, AssuredInside
  <2>8. assureSize(start, Len(s)) /\ Wrap(start + Len(s)) = start + Len(s)
    <3>1. start <= getSize
      BY <2>4, <2>6, <2>7 DEF Inside
    <3> QED BY <2>3, <2>4, <2>6, <2>7, <3>1, AssuredInside
  <2>9. PICK n \in UInt :
          /\ Represent(n, UIntType) = Bytes(seek_pos, Word)
          /\ seek_pos' = IF assureSize(start, n) THEN Wrap(start + n) ELSE start
          /\ Outcome(StringType, IF assureSize(start, n) /\ n <= MaxString
                                 THEN <<Bytes(start, n)>> ELSE <<>>)
    BY <2>4, <2>7, Zenon DEF readString
  <2>10. n = Len(s)
    <3>1. n \in ValuesOf(UIntType) /\ Len(s) \in ValuesOf(UIntType)
      BY <2>2, Kinds, Zenon
    <3>2. Represent(n, UIntType) = Represent(Len(s), UIntType)
      BY <2>5, <2>9, Zenon DEF h
    <3> QED BY <3>1, <3>2, RepresentInjective
  <2>11. seek_pos' = seek_pos + Len(w)
    <3>1. seek_pos' = start + Len(s)
      BY <2>8, <2>9, <2>10, Zenon
    <3> QED BY <2>1, <2>3, <2>7, <3>1
  <2>12. Outcome(StringType, <<s>>)
    BY <2>2, <2>5, <2>7, <2>8, <2>9, <2>10, Zenon
  <2>13. got' = <<s>> /\ want' = <<s>> /\ rest' = Tail(rest)
    BY <1>3, <2>12, Zenon DEF Outcome, s, item
  <2> QED BY <1>1, <1>3, <2>11, <2>13, ReadInOrder, Zenon DEF w, item
<1> QED BY <1>2, <1>3

(* seek(0) starts an in-order reading again, any other place ends it.      *)
LEMMA SeekRound ==
    ASSUME RoundInv, NEW pos \in UInt, seek(pos)
    PROVE  RoundInv'
<1>1. UNCHANGED <<cells, items, message, contents>> /\ want' = <<>>
  BY DEF seek, builder
<1>2. \/ UNCHANGED <<seek_pos, rest>>
      \/ seek_pos' = 0 /\ rest' = contents
      \/ rest' = <<>>
  BY Zenon DEF seek
<1>3. <<>> \in Seq(Items)
  OBVIOUS
<1> QED BY <1>1, <1>2, <1>3, Zenon DEF RoundInv

(* Every step preserves it.                                                *)
LEMMA NextRound == BufferInv /\ RoundInv /\ [BufferNext]_bufferVars => RoundInv'
<1> SUFFICES ASSUME BufferInv, RoundInv, [BufferNext]_bufferVars PROVE RoundInv'
  OBVIOUS
<1>1. CASE UNCHANGED bufferVars
  BY <1>1, Zenon DEF bufferVars, builder, reader, RoundInv
<1> QED BY <1>1, BuilderRound, ReadIntRound, ReadBytesRound, ReadStringRound, SeekRound
        DEF BufferNext

(* Reading the types that were written, in order, returns the values that  *)
(* were written, for every byte and word size, all integer types and all   *)
(* sequences of values (MessageBuilder::write, MessageReader::read...).    *)
THEOREM ReadsWhatWasWritten == BufferSpec => []RoundTrip
<1>1. RoundInv => RoundTrip
  BY DEF RoundInv, RoundTrip
<1> QED BY <1>1, BufferInvariance, InitRound, NextRound, PTL DEF BufferSpec

(***************************************************************************)
(* ConsoleServer, for any number of children and clients, any backlog and  *)
(* any limit on descriptors.                                               *)
(***************************************************************************)
(* Only the server is in the loop of main, and only children serve.        *)
Roles ==
    /\ pc[Server] \in {"accept", "fork", "close", "exit", "gone"}
    /\ \A k \in Children : pc[k] \in {"unborn", "service", "deleted", "exit", "gone"}

(* A process has a Connection between accept and the end of service, and   *)
(* none while it waits in accept.                                          *)
Connected ==
    \A p \in Processes :
        /\ pc[p] \in {"fork", "close", "service"} => conn[p] \in Clients
        /\ pc[p] = "accept" => conn[p] = None

(* A connection is in one place: once in the queue, or with the server     *)
(* before it forks, or with those it was given to.                         *)
InOnePlace ==
    /\ \A i, j \in DOMAIN backlog : i # j => backlog[i] # backlog[j]
    /\ \A i \in DOMAIN backlog, p \in Processes : conn[p] # backlog[i]
    /\ pc[Server] = "fork" => \A k \in Children : conn[k] # conn[Server]

(* The two halves of FilesAccounted: what a process has, and that no two   *)
(* processes serve the same connection.                                    *)
Accounted ==
    \A p \in Processes :
        pc[p] \in {"accept", "fork", "close", "service"} =>
            files[p] = (IF listening[p] THEN {"listener"} ELSE {}) \union ({conn[p]} \ {None})

ServedOnce ==
    \A p, q \in Processes :
        p # q /\ pc[p] = "service" /\ pc[q] = "service" => conn[p] # conn[q]

(* The strengthening: two children serve different clients because a       *)
(* connection is in one place until the server forks.                      *)
ServerInv ==
    /\ ServerTypeOK
    /\ Roles
    /\ Connected
    /\ InOnePlace
    /\ ServedOnce
    /\ Accounted

(* The invariant gives FilesAccounted: only the server is ever in accept.  *)
LEMMA InvAccounted == ServerInv => FilesAccounted
<1> SUFFICES ASSUME ServerInv PROVE FilesAccounted
  OBVIOUS
<1>1. \A p \in Processes : pc[p] = "accept" => p = Server
  BY DEF ServerInv, Roles, Processes
<1> QED BY <1>1, Zenon DEF ServerInv, FilesAccounted, ServedOnce, Accounted

(* One process before listen.                                              *)
LEMMA InitServer == ServerInit => ServerInv
<1> SUFFICES ASSUME ServerInit PROVE ServerInv
  OBVIOUS
<1>1. ServerTypeOK
  BY ServerAssumption DEF ServerInit, ServerTypeOK, Processes, Sockets
<1>2. Roles
  BY ServerAssumption DEF ServerInit, Roles, Processes
<1>3. Connected
  BY DEF ServerInit, Connected
<1>4. InOnePlace
  BY ServerAssumption DEF ServerInit, InOnePlace, Processes
<1>5. ServedOnce /\ Accounted
  BY DEF ServerInit, ServedOnce, Accounted
<1> QED BY <1>1, <1>2, <1>3, <1>4, <1>5 DEF ServerInv

(* A listener that could be set up is accounted for, and one that could    *)
(* not takes the process out of the loop.                                  *)
LEMMA ListenStep ==
    ASSUME ServerInv, listen \/ listenFails
    PROVE  ServerInv'
<1> USE DEF ServerInv
<1>1. Server \in Processes /\ {"listener", "unbound"} \subseteq Sockets
  BY SMTT(20) DEF Processes, Sockets
<1>2. conn[Server] = None /\ ~listening[Server] /\ UNCHANGED <<conn, backlog, left>>
      /\ pc[Server] = "accept"
  BY <1>1 DEF listen, listenFails, Connected
<1>3. CASE listen
  <2>1. /\ files' = [files EXCEPT ![Server] = @ \union {"listener"}]
        /\ listening' = [listening EXCEPT ![Server] = TRUE] /\ pc' = pc
    BY <1>3 DEF listen
  <2>2. ServerTypeOK'
    BY <1>1, <1>2, <2>1 DEF ServerTypeOK
  <2>3. Roles' /\ Connected' /\ InOnePlace' /\ ServedOnce'
    BY <1>2, <2>1 DEF Roles, Connected, InOnePlace, ServedOnce
  <2>4. Accounted'
    BY <1>1, <1>2, <2>1, SMTT(20) DEF ServerTypeOK, Accounted
  <2> QED BY <2>2, <2>3, <2>4
<1>4. CASE listenFails
  <2>1. /\ pc' = [pc EXCEPT ![Server] = "exit"] /\ listening' = listening
        /\ files' = files \/ files' = [files EXCEPT ![Server] = @ \union {"unbound"}]
    BY <1>4, Zenon DEF listenFails, Goto
  <2>2. ServerTypeOK'
    BY <1>1, <1>2, <2>1 DEF ServerTypeOK
  <2>3. Roles' /\ Connected' /\ InOnePlace' /\ ServedOnce'
    BY <1>1, <1>2, <2>1 DEF ServerTypeOK, Roles, Connected, InOnePlace, ServedOnce
  <2>4. Accounted'
    BY <1>1, <1>2, <2>1 DEF ServerTypeOK, Accounted
  <2> QED BY <2>2, <2>3, <2>4
<1> QED BY <1>3, <1>4

(* acceptConnection takes a connection out of the queue, where no process  *)
(* had it; a failing one ends the server.                                  *)
LEMMA AcceptStep ==
    ASSUME ServerInv, acceptConnection \/ acceptFails
    PROVE  ServerInv'
<1> USE DEF ServerInv
<1>1. /\ Server \in Processes /\ Clients \subseteq Sockets
      /\ \A k \in Children : k \in Processes /\ k # Server
      /\ None \notin Clients
  BY ServerAssumption, SMTT(20) DEF Processes, Sockets
<1>2. pc[Server] = "accept" /\ conn[Server] = None
  BY <1>1 DEF acceptConnection, acceptFails, Connected
<1>3. CASE acceptConnection
  <2> DEFINE c == Head(backlog)
  <2>1. /\ files' = [files EXCEPT ![Server] = @ \union {c}]
        /\ conn' = [conn EXCEPT ![Server] = c]
        /\ backlog' = Tail(backlog) /\ backlog # <<>>
        /\ pc' = [pc EXCEPT ![Server] = "fork"]
        /\ UNCHANGED <<listening, left>>
    BY <1>3, Zenon DEF acceptConnection, Goto
  <2>2. /\ c \in Clients /\ c = backlog[1] /\ 1 \in DOMAIN backlog
        /\ Tail(backlog) \in Seq(Clients) /\ Len(Tail(backlog)) <= Backlog
        /\ \A i \in DOMAIN Tail(backlog) :
              /\ i + 1 \in DOMAIN backlog /\ i + 1 # 1
              /\ Tail(backlog)[i] = backlog[i + 1]
    BY <2>1, ServerAssumption DEF ServerTypeOK
  <2> HIDE DEF c
  <2>3. ServerTypeOK'
    BY <1>1, <2>1, <2>2 DEF ServerTypeOK
  <2>4. Roles'
    BY <1>1, <2>1 DEF Roles, ServerTypeOK
  <2>5. Connected'
    BY <1>1, <2>1, <2>2 DEF Connected, ServerTypeOK
  <2>6. /\ \A p \in Processes \ {Server} : conn'[p] = conn[p] /\ conn[p] # c
        /\ conn'[Server] = c /\ pc'[Server] = "fork"
    BY <1>1, <2>1, <2>2 DEF InOnePlace, ServerTypeOK
  <2>7. InOnePlace'
    <3>1. \A i, j \in DOMAIN backlog' : i # j => backlog'[i] # backlog'[j]
      BY <2>1, <2>2 DEF InOnePlace, ServerTypeOK
    <3>2. \A i \in DOMAIN backlog', p \in Processes : conn'[p] # backlog'[i]
      BY <2>1, <2>2, <2>6, SMTT(20) DEF InOnePlace, ServerTypeOK
    <3>3. \A k \in Children : conn'[k] # conn'[Server]
      BY <1>1, <2>6
    <3> QED BY <3>1, <3>2, <3>3 DEF InOnePlace
  <2>8. ServedOnce'
    BY <1>1, <2>1, <2>6 DEF ServedOnce, ServerTypeOK
  <2>9. Accounted'
    <3>1. files[Server] = (IF listening[Server] THEN {"listener"} ELSE {})
      BY <1>1, <1>2 DEF Accounted
    <3>2. /\ files'[Server] = files[Server] \union {c} /\ listening'[Server] = listening[Server]
          /\ {conn'[Server]} \ {None} = {c}
      BY <1>1, <2>1, <2>2, <2>6 DEF ServerTypeOK
    <3>3. \A p \in Processes \ {Server} :
             /\ files'[p] = files[p] /\ conn'[p] = conn[p]
             /\ listening'[p] = listening[p] /\ pc'[p] = pc[p]
      BY <1>1, <2>1 DEF ServerTypeOK
    <3> QED BY <3>1, <3>2, <3>3, Zenon DEF Accounted
  <2> QED BY <2>3, <2>4, <2>5, <2>7, <2>8, <2>9, SMTT(20)
<1>4. CASE acceptFails
  <2>1. pc' = [pc EXCEPT ![Server] = "exit"] /\ UNCHANGED <<listening, files, conn, backlog, left>>
    BY <1>4 DEF acceptFails, Goto
  <2>2. ServerTypeOK'
    BY <1>1, <2>1, SMTT(20) DEF ServerTypeOK
  <2>3. Roles' /\ Connected' /\ InOnePlace' /\ ServedOnce'
    BY <1>1, <2>1 DEF ServerTypeOK, Roles, Connected, InOnePlace, ServedOnce
  <2>4. Accounted'
    BY <2>1 DEF Accounted, ServerTypeOK
  <2> QED BY <2>2, <2>3, <2>4
<1> QED BY <1>3, <1>4

(* fork gives the child what the server has, which no other child has; if  *)
(* it fails the server goes on to close the connection.                    *)
LEMMA ForkStep ==
    ASSUME ServerInv, forkFails \/ \E k \in Children : fork(k)
    PROVE  ServerInv'
<1> USE DEF ServerInv
<1>1. Server \in Processes /\ \A k \in Children : k \in Processes /\ k # Server
  BY ServerAssumption DEF Processes
<1>2. pc[Server] = "fork" /\ conn[Server] \in Clients
  BY <1>1 DEF forkFails, fork, Connected
<1>3. CASE forkFails
  <2>1. pc' = [pc EXCEPT ![Server] = "close"] /\ UNCHANGED <<listening, files, conn, backlog, left>>
    BY <1>3 DEF forkFails, Goto
  <2>2. ServerTypeOK'
    BY <1>1, <2>1 DEF ServerTypeOK
  <2>3. Roles' /\ Connected' /\ InOnePlace' /\ ServedOnce'
    BY <1>1, <1>2, <2>1
       DEF ServerTypeOK, Roles, Connected, InOnePlace, ServedOnce
  <2>4. Accounted'
    BY <1>2, <2>1 DEF Accounted, ServerTypeOK
  <2> QED BY <2>2, <2>3, <2>4
<1>4. ASSUME NEW k \in Children, fork(k) PROVE ServerInv'
  <2>1. /\ pc' = [pc EXCEPT ![Server] = "close", ![k] = "service"]
        /\ files' = [files EXCEPT ![k] = files[Server]]
        /\ listening' = [listening EXCEPT ![k] = listening[Server]]
        /\ conn' = [conn EXCEPT ![k] = conn[Server]]
        /\ UNCHANGED <<backlog, left>> /\ k \in Processes /\ k # Server
    BY <1>1, <1>4 DEF fork
  <2>2. ServerTypeOK'
    BY <1>1, <2>1 DEF ServerTypeOK
  <2>3. /\ \A p \in Processes \ {k} : /\ conn'[p] = conn[p] /\ files'[p] = files[p]
                                      /\ listening'[p] = listening[p]
        /\ conn'[k] = conn[Server] /\ files'[k] = files[Server]
        /\ listening'[k] = listening[Server]
        /\ pc'[k] = "service" /\ pc'[Server] = "close"
        /\ \A p \in Processes \ {k, Server} : pc'[p] = pc[p]
    BY <1>1, <2>1 DEF ServerTypeOK
  <2>4. Roles'
    BY <1>1, <2>3 DEF Roles
  <2>5. Connected'
    BY <1>1, <1>2, <2>3 DEF Connected
  <2>6. InOnePlace'
    BY <1>1, <2>1, <2>3, SMTT(20) DEF InOnePlace
  <2>7. ServedOnce'
    <3>1. \A p \in Processes \ {k, Server} : conn[p] # conn[Server]
      BY <1>2 DEF InOnePlace, Processes
    <3> SUFFICES ASSUME NEW p \in Processes, NEW q \in Processes, p # q,
                        pc'[p] = "service", pc'[q] = "service"
                 PROVE  conn'[p] # conn'[q]
      BY Zenon DEF ServedOnce
    <3>2. p # Server /\ q # Server
      BY <2>3, Zenon
    <3>3. CASE p = k
      BY <2>3, <3>1, <3>2, <3>3
    <3>4. CASE q = k
      BY <2>3, <3>1, <3>2, <3>4
    <3>5. CASE p # k /\ q # k
      BY <2>3, <3>2, <3>5 DEF ServedOnce
    <3> QED BY <3>3, <3>4, <3>5, Zenon
  <2>8. Accounted'
    BY <1>1, <1>2, <2>3, Zenon DEF Accounted
  <2> QED BY <2>2, <2>4, <2>5, <2>6, <2>7, <2>8
<1> QED BY <1>3, <1>4

(* A step of one process that drops its Connection and closes what it      *)
(* refers to, or everything it has.                                        *)
LEMMA DropConnectionStep ==
    ASSUME ServerInv, NEW p \in Processes, NEW l, NEW fs \in SUBSET Sockets, NEW b \in BOOLEAN,
           pc[p] \in {"close", "deleted", "exit"},
           l \in {"exit", "gone"} \/ (p = Server /\ l = "accept"),
           pc' = [pc EXCEPT ![p] = l],
           conn' = [conn EXCEPT ![p] = None],
           files' = [files EXCEPT ![p] = fs],
           listening' = [listening EXCEPT ![p] = b],
           l = "accept" => fs = (IF b THEN {"listener"} ELSE {}),
           backlog' = backlog \/ backlog' = <<>>,
           left' = left
    PROVE  ServerInv'
<1> USE DEF ServerInv
<1>1. /\ Server \in Processes /\ \A k \in Children : k \in Processes /\ k # Server
      /\ None \notin Clients
  BY ServerAssumption DEF Processes
<1>2. /\ pc'[p] = l /\ conn'[p] = None /\ files'[p] = fs /\ listening'[p] = b
      /\ \A q \in Processes \ {p} : /\ pc'[q] = pc[q] /\ conn'[q] = conn[q]
                                    /\ files'[q] = files[q] /\ listening'[q] = listening[q]
  BY DEF ServerTypeOK
<1>3. ServerTypeOK'
  <2>1. backlog' \in Seq(Clients) /\ Len(backlog') <= Backlog
    <3>1. <<>> \in Seq(Clients) /\ Len(<<>>) = 0
      OBVIOUS
    <3>2. CASE backlog' = <<>>
      BY <3>1, <3>2, ServerAssumption
    <3>3. CASE backlog' = backlog
      BY <3>3 DEF ServerTypeOK
    <3> QED BY <3>2, <3>3
  <2>2. pc[p] \in {"close", "deleted", "exit"} /\ l \in {"exit", "gone", "accept"}
    OBVIOUS
  <2> QED BY <2>1, <2>2 DEF ServerTypeOK
<1>4. Roles'
  BY <1>1, <1>2 DEF Roles
<1>5. Connected'
  BY <1>1, <1>2 DEF Connected
<1>6. InOnePlace'
  <2>1. backlog \in Seq(Clients) /\ \A i \in DOMAIN backlog : backlog[i] # None
    BY <1>1 DEF ServerTypeOK
  <2>2. \A i \in DOMAIN backlog' : i \in DOMAIN backlog /\ backlog'[i] = backlog[i]
    BY <2>1
  <2>3. pc'[Server] = "fork" => \A k \in Children : conn'[k] # conn'[Server]
    <3>1. pc'[Server] = "fork" => p # Server /\ conn[Server] \in Clients
      BY <1>1, <1>2 DEF Connected
    <3> QED BY <1>1, <1>2, <3>1 DEF InOnePlace
  <2> QED BY <1>2, <2>1, <2>2, <2>3 DEF InOnePlace
<1>7. ServedOnce'
  BY <1>2 DEF ServedOnce
<1>8. Accounted'
  BY <1>2 DEF Accounted
<1> QED BY <1>3, <1>4, <1>5, <1>6, <1>7, <1>8

(* The server closes its copy and goes back to accept; a child goes on     *)
(* after the second delete or dies of it; a process ends.                  *)
LEMMA ServeStep ==
    ASSUME ServerInv, NEW p \in Processes, Serve(p)
    PROVE  ServerInv'
<1> USE DEF ServerInv
<1>1. files[p] \in SUBSET Sockets /\ listening[p] \in BOOLEAN
  BY DEF ServerTypeOK
<1>2. CASE closeAndDelete(p)
  <2>1. /\ pc[p] = "close" /\ pc' = [pc EXCEPT ![p] = "accept"]
        /\ files' = [files EXCEPT ![p] = files[p] \ {conn[p]}]
        /\ conn' = [conn EXCEPT ![p] = None]
        /\ UNCHANGED <<listening, backlog, left>>
    BY <1>2 DEF closeAndDelete, Goto
  <2>2. p = Server /\ conn[p] \in Clients
    BY <2>1, SMTT(20) DEF Roles, Connected, Processes
  <2>3. files[p] = (IF listening[p] THEN {"listener"} ELSE {}) \union ({conn[p]} \ {None})
    BY <2>1 DEF Accounted
  <2>4. files[p] \ {conn[p]} = (IF listening[p] THEN {"listener"} ELSE {})
    BY <2>2, <2>3, ServerAssumption
  <2>5. listening' = [listening EXCEPT ![p] = listening[p]]
    BY <2>1 DEF ServerTypeOK
  <2> QED BY <1>1, <2>1, <2>2, <2>4, <2>5, DropConnectionStep, Zenon
<1>3. ASSUME Ends(p), UNCHANGED left, pc[p] \in {"deleted", "exit"} PROVE ServerInv'
  <2>1. /\ pc' = [pc EXCEPT ![p] = "gone"] /\ files' = [files EXCEPT ![p] = {}]
        /\ conn' = [conn EXCEPT ![p] = None] /\ listening' = [listening EXCEPT ![p] = FALSE]
        /\ backlog' = backlog \/ backlog' = <<>>
    BY <1>3 DEF Ends, Goto
  <2>2. {} \in SUBSET Sockets /\ FALSE \in BOOLEAN /\ "gone" \in {"exit", "gone"} /\ "gone" # "accept"
    OBVIOUS
  <2> QED BY <1>3, <2>1, <2>2, DropConnectionStep, Zenon
<1>4. CASE deleteAgain(p) /\ ~Ends(p)
  <2>1. /\ pc[p] = "deleted" /\ pc' = [pc EXCEPT ![p] = "exit"]
        /\ conn' = [conn EXCEPT ![p] = None]
        /\ UNCHANGED <<files, listening, backlog, left>>
    BY <1>4 DEF deleteAgain, Goto
  <2>2. /\ files' = [files EXCEPT ![p] = files[p]]
        /\ listening' = [listening EXCEPT ![p] = listening[p]]
    BY <2>1 DEF ServerTypeOK
  <2>3. "exit" \in {"exit", "gone"} /\ "exit" # "accept" /\ pc[p] \in {"close", "deleted", "exit"}
    BY <2>1
  <2> QED BY <1>1, <2>1, <2>2, <2>3, DropConnectionStep, Zenon
<1> QED BY <1>2, <1>3, <1>4 DEF Serve, deleteAgain, exit

(* service ends with the connection closed and the object deleted.         *)
LEMMA ServiceStep ==
    ASSUME ServerInv, NEW p \in Processes, service(p)
    PROVE  ServerInv'
<1> USE DEF ServerInv
<1>1. /\ pc[p] = "service" /\ pc' = [pc EXCEPT ![p] = "deleted"]
      /\ files' = [files EXCEPT ![p] = files[p] \ {conn[p]}]
      /\ UNCHANGED <<listening, conn, backlog, left>>
  BY DEF service, Goto
<1>2. p # Server /\ Server \in Processes
  BY <1>1 DEF Roles, Processes
<1>3. ServerTypeOK'
  BY <1>1 DEF ServerTypeOK
<1>4. Roles' /\ Connected' /\ InOnePlace' /\ ServedOnce'
  BY <1>1, <1>2 DEF ServerTypeOK, Roles, Connected, InOnePlace, ServedOnce
<1>5. Accounted'
  BY <1>1 DEF Accounted, ServerTypeOK
<1> QED BY <1>3, <1>4, <1>5

(* A client that connects is new to the queue and to every process.        *)
LEMMA ClientStep ==
    ASSUME ServerInv, NEW c \in Clients, Connect(c) \/ Leave(c)
    PROVE  ServerInv'
<1> USE DEF ServerInv
<1>1. UNCHANGED <<pc, listening, files, conn>>
  BY Zenon DEF Connect, Leave
<1>2. Roles' /\ Connected' /\ ServedOnce' /\ Accounted'
  BY <1>1, Zenon DEF Roles, Connected, ServedOnce, Accounted
<1>3. ServerTypeOK' /\ InOnePlace'
  <2>1. CASE Leave(c)
    BY <1>1, <2>1, SMTT(20) DEF Leave, ServerTypeOK, InOnePlace
  <2>2. CASE Connect(c)
    <3>1. /\ backlog' = Append(backlog, c) /\ left' = left /\ Len(backlog) < Backlog
          /\ \A i \in DOMAIN backlog : backlog[i] # c
          /\ \A p \in Processes : conn[p] # c
      BY <2>2 DEF Connect, Reached
    <3>2. backlog \in Seq(Clients)
      BY DEF ServerTypeOK
    <3>3. /\ backlog' \in Seq(Clients) /\ Len(backlog') <= Backlog
          /\ \A i \in DOMAIN backlog' :
                \/ backlog'[i] = c /\ i = Len(backlog) + 1
                \/ i \in DOMAIN backlog /\ backlog'[i] = backlog[i]
      BY <3>1, <3>2, ServerAssumption
    <3>4. InOnePlace'
      <4>1. \A i, j \in DOMAIN backlog' : i # j => backlog'[i] # backlog'[j]
        BY <3>1, <3>3 DEF InOnePlace
      <4>2. \A i \in DOMAIN backlog', p \in Processes : conn'[p] # backlog'[i]
        BY <1>1, <3>1, <3>3, ZenonT(30) DEF InOnePlace
      <4> QED BY <1>1, <4>1, <4>2, Zenon DEF InOnePlace
    <3> QED BY <1>1, <3>1, <3>3, <3>4, ZenonT(30) DEF ServerTypeOK
  <2> QED BY <2>1, <2>2
<1> QED BY <1>2, <1>3, Zenon

(* Every step preserves the invariant.                                     *)
LEMMA NextServer == ServerInv /\ [ServerNext]_serverVars => ServerInv'
<1> SUFFICES ASSUME ServerInv, [ServerNext]_serverVars PROVE ServerInv'
  OBVIOUS
<1>1. CASE UNCHANGED serverVars
  BY <1>1 DEF serverVars, ServerInv, ServerTypeOK, Roles, Connected, InOnePlace, ServedOnce, Accounted
<1> QED BY <1>1, ListenStep, AcceptStep, ForkStep, ServeStep, ServiceStep, ClientStep
        DEF ServerNext

(* The invariant holds throughout.                                         *)
THEOREM ServerInvariance == ServerSpec => []ServerInv
  BY InitServer, NextServer, PTL DEF ServerSpec

(* The processes of the server are where their part in main takes them,    *)
(* and the queue of connections is never longer than BACKLOG.              *)
THEOREM ServerTyped == ServerSpec => []ServerTypeOK
<1>1. ServerInv => ServerTypeOK
  BY DEF ServerInv
<1> QED BY <1>1, ServerInvariance, PTL

(* A process that goes on has exactly the sockets it still refers to, and  *)
(* no connection is served twice (acceptConnection, fork, close).          *)
THEOREM ServerFiles == ServerSpec => []FilesAccounted
  BY InvAccounted, ServerInvariance, PTL

=============================================================================
