---------------------------- MODULE MessageMemory ----------------------------
(***************************************************************************)
(* Who owns the content buffers of messages (comm/bknd/Message.cpp,        *)
(* MessageBuilder.cpp, MessageReader.cpp).                                 *)
(*                                                                         *)
(* A Message shares its buffer with its copies through a Refbuf, which     *)
(* counts them and deletes the buffer with the last one.  A MessageBuilder *)
(* has a buffer of its own, which toMessage hands to a Message without     *)
(* copying it.  A MessageReader holds a copy of a Message and, beside it,  *)
(* a plain pointer to its bytes.  Any sequence of constructions, copies,   *)
(* assignments and destructions of such objects is a behaviour; a freed    *)
(* buffer's address may be handed out again.                               *)
(*                                                                         *)
(* A buffer and the Refbuf that owns it live and die together from the     *)
(* Message constructor on, and are one address here.                       *)
(***************************************************************************)
EXTENDS Naturals, FiniteSets

CONSTANTS
    Messages,   \* C++ Message objects
    Readers,    \* MessageReader objects
    Builders,   \* MessageBuilder objects
    Buffers,    \* addresses of heap buffers
    NULL        \* content of an object that is not constructed

ASSUME ObjectsAssumption ==
    /\ IsFiniteSet(Messages) /\ IsFiniteSet(Readers)
    /\ Messages \intersect Readers = {}
    /\ NULL \notin Buffers

(* A reader's member "message" is a Message as well.                       *)
Holders == Messages \union Readers

VARIABLES
    content,    \* Message::content, the Refbuf
    raw,        \* MessageReader::content, the plain pointer
    built,      \* MessageBuilder::content
    heap,       \* buffers that are allocated
    refcount,   \* Refbuf::refcount; 0 where there is no Refbuf
    fault,      \* a freed buffer's count was touched
    lost        \* ghost: buffers an exception left without a Message

memoryVars == <<content, raw, built, heap, refcount, fault, lost>>

MemoryInit ==
    /\ content = [h \in Holders |-> NULL]
    /\ raw = [r \in Readers |-> NULL]
    /\ built = [b \in Builders |-> NULL]
    /\ heap = {}
    /\ refcount = [a \in Buffers |-> 0]
    /\ fault = FALSE
    /\ lost = {}

(***************************************************************************)
(* Refbuf: what inc and dec make of the memory m.                          *)
(***************************************************************************)
Memory == [heap |-> heap, refcount |-> refcount, fault |-> fault]

inc(m, a) ==
    IF a \in m.heap
    THEN [m EXCEPT !.refcount[a] = @ + 1]
    ELSE [m EXCEPT !.fault = TRUE]

(* Variant: the last reference does not delete the buffer.                 *)
DecNeverDeletes(m, a) ==
    IF a \in m.heap
    THEN [m EXCEPT !.refcount[a] = @ - 1]
    ELSE [m EXCEPT !.fault = TRUE]

dec(m, a) ==
    IF a \in m.heap
    THEN [m EXCEPT !.refcount[a] = @ - 1,
                   !.heap = IF m.refcount[a] = 1 THEN @ \ {a} ELSE @]
    ELSE [m EXCEPT !.fault = TRUE]

MemoryBecomes(m) == heap' = m.heap /\ refcount' = m.refcount /\ fault' = m.fault

(***************************************************************************)
(* Message                                                                 *)
(***************************************************************************)
(* Message(header, length, buf) on a buffer just allocated, as by          *)
(* MessageConnection::readMessage.                                         *)
NewMessage(x) ==
    /\ content[x] = NULL
    /\ \E a \in Buffers \ heap :
         /\ content' = [content EXCEPT ![x] = a]
         /\ heap' = heap \union {a}
         /\ refcount' = [refcount EXCEPT ![a] = 1]
    /\ UNCHANGED <<raw, built, fault, lost>>

(* readMessage has the buffer, but receiving its content or the new of the *)
(* Refbuf throws: nothing frees the buffer.                                *)
NewMessageFails ==
    /\ \E a \in Buffers \ heap :
         heap' = heap \union {a} /\ lost' = lost \union {a}
    /\ UNCHANGED <<content, raw, built, refcount, fault>>

(* Variant: the compiler's copy constructor, which does not count.         *)
CopyUncounted(x, y) ==
    /\ content[x] = NULL /\ content[y] # NULL
    /\ content' = [content EXCEPT ![x] = content[y]]
    /\ UNCHANGED <<heap, refcount, fault, raw, built, lost>>

CopyMessage(x, y) ==
    /\ content[x] = NULL /\ content[y] # NULL
    /\ content' = [content EXCEPT ![x] = content[y]]
    /\ MemoryBecomes(inc(Memory, content[y]))
    /\ UNCHANGED <<raw, built, lost>>

(* operator=: the old buffer's count goes down before the new one's goes   *)
(* up, also when they are the same buffer.                                 *)
Assign(x, y) ==
    /\ content[x] # NULL /\ content[y] # NULL
    /\ content' = [content EXCEPT ![x] = content[y]]
    /\ MemoryBecomes(IF x = y THEN Memory
                     ELSE inc(dec(Memory, content[x]), content[y]))

AssignMessage(x, y) == Assign(x, y) /\ UNCHANGED <<raw, built, lost>>

DestroyMessage(x) ==
    /\ content[x] # NULL
    /\ content' = [content EXCEPT ![x] = NULL]
    /\ MemoryBecomes(dec(Memory, content[x]))
    /\ UNCHANGED <<raw, built, lost>>

(***************************************************************************)
(* MessageReader; its copy and assignment are the compiler's.              *)
(***************************************************************************)
NewReader(r, x) ==
    /\ content[r] = NULL /\ content[x] # NULL
    /\ content' = [content EXCEPT ![r] = content[x]]
    /\ raw' = [raw EXCEPT ![r] = content[x]]
    /\ MemoryBecomes(inc(Memory, content[x]))
    /\ UNCHANGED <<built, lost>>

(* Variant: an assignment that forgets the plain pointer.                  *)
AssignMessageOnly(r, q) == Assign(r, q) /\ UNCHANGED <<raw, built, lost>>

AssignReader(r, q) ==
    /\ Assign(r, q)
    /\ raw' = [raw EXCEPT ![r] = raw[q]]
    /\ UNCHANGED <<built, lost>>

DestroyReader(r) ==
    /\ content[r] # NULL
    /\ content' = [content EXCEPT ![r] = NULL]
    /\ raw' = [raw EXCEPT ![r] = NULL]
    /\ MemoryBecomes(dec(Memory, content[r]))
    /\ UNCHANGED <<built, lost>>

(***************************************************************************)
(* MessageBuilder, which cannot be copied.                                 *)
(***************************************************************************)
NewBuilder(b) ==
    /\ built[b] = NULL
    /\ \E a \in Buffers \ heap :
         built' = [built EXCEPT ![b] = a] /\ heap' = heap \union {a}
    /\ UNCHANGED <<content, raw, refcount, fault, lost>>

(* reserve, when it grows: a new buffer takes the old one's place.         *)
builderReserve(b) ==
    /\ built[b] # NULL
    /\ \E a \in Buffers \ heap :
         /\ built' = [built EXCEPT ![b] = a]
         /\ heap' = (heap \union {a}) \ {built[b]}
    /\ UNCHANGED <<content, raw, refcount, fault, lost>>

(* Variant: the builder goes on in the buffer it has handed out.           *)
ToMessageKeepsBuffer(b, x) ==
    /\ built[b] # NULL /\ content[x] = NULL
    /\ content' = [content EXCEPT ![x] = built[b]]
    /\ refcount' = [refcount EXCEPT ![built[b]] = 1]
    /\ UNCHANGED <<built, heap, raw, fault, lost>>

(* toMessage: a new buffer for the builder, the old one to the Message.    *)
builderToMessage(b, x) ==
    /\ built[b] # NULL /\ content[x] = NULL
    /\ \E a \in Buffers \ heap :
         built' = [built EXCEPT ![b] = a] /\ heap' = heap \union {a}
    /\ content' = [content EXCEPT ![x] = built[b]]
    /\ refcount' = [refcount EXCEPT ![built[b]] = 1]
    /\ UNCHANGED <<raw, fault, lost>>

(* toMessage when the new of the Refbuf throws: the builder has its new    *)
(* buffer already and nothing has the old one.                             *)
builderToMessageFails(b) ==
    /\ built[b] # NULL
    /\ \E a \in Buffers \ heap :
         built' = [built EXCEPT ![b] = a] /\ heap' = heap \union {a}
    /\ lost' = lost \union {built[b]}
    /\ UNCHANGED <<content, raw, refcount, fault>>

DestroyBuilder(b) ==
    /\ built[b] # NULL
    /\ built' = [built EXCEPT ![b] = NULL]
    /\ heap' = heap \ {built[b]}
    /\ UNCHANGED <<content, raw, refcount, fault, lost>>

MemoryNext ==
    \/ \E x \in Messages : NewMessage(x) \/ DestroyMessage(x)
    \/ NewMessageFails
    \/ \E x, y \in Messages : CopyMessage(x, y) \/ AssignMessage(x, y)
    \/ \E r \in Readers, h \in Messages : NewReader(r, h)
    \/ \E r, q \in Readers : NewReader(r, q) \/ AssignReader(r, q)
    \/ \E r \in Readers : DestroyReader(r)
    \/ \E b \in Builders : NewBuilder(b) \/ builderReserve(b) \/ DestroyBuilder(b)
    \/ \E b \in Builders : builderToMessageFails(b)
    \/ \E b \in Builders, x \in Messages : builderToMessage(b, x)

MemorySpec == MemoryInit /\ [][MemoryNext]_memoryVars

(***************************************************************************)
(* Properties                                                              *)
(***************************************************************************)
(* The state has the shape the code gives it, and a constructed object     *)
(* points to an allocated buffer.                                          *)
MemoryTypeOK ==
    /\ heap \subseteq Buffers
    /\ content \in [Holders -> heap \union {NULL}]
    /\ raw \in [Readers -> Buffers \union {NULL}]
    /\ built \in [Builders -> heap \union {NULL}]
    /\ refcount \in [Buffers -> Nat]
    /\ fault \in BOOLEAN
    /\ lost \subseteq heap

HoldersOf(a) == {h \in Holders : content[h] = a}

(* Refbuf::refcount is the number of Messages that share the buffer, those *)
(* inside readers included, after any sequence of copies, assignments      *)
(* (also of an object to itself or to a copy of itself) and destructions.  *)
RefcountExact == \A a \in Buffers : refcount[a] = Cardinality(HoldersOf(a))

Owned(a) == refcount[a] > 0 \/ \E b \in Builders : built[b] = a

(* Every allocated buffer is owned, by Messages through a positive count   *)
(* or by a builder, and will be freed, but for exactly those that an       *)
(* exception took from readMessage or from toMessage between allocating    *)
(* the buffer and making the Refbuf: no copy, assignment, hand-over or     *)
(* destruction leaks one, and none of those is used again.                 *)
NothingLeaked == \A a \in heap : Owned(a) <=> a \notin lost

(* "Ensure ZERO-Copy construction": although toMessage copies nothing, no  *)
(* Message shares the buffer a builder writes to and reallocates, and no   *)
(* two builders share one.                                                 *)
BuilderUnshared ==
    \A b \in Builders :
        built[b] # NULL =>
            /\ HoldersOf(built[b]) = {}
            /\ \A c \in Builders \ {b} : built[c] # built[b]

(* A reader's plain pointer is that of the Message it holds, so the bytes  *)
(* it reads from are alive as long as the reader is.                       *)
ReaderPointerLive == \A r \in Readers : raw[r] = content[r]

(* inc and dec never touch a Refbuf that has deleted itself.               *)
NoFault == ~fault

=============================================================================
