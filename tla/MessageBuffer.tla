---------------------------- MODULE MessageBuffer ----------------------------
(***************************************************************************)
(* Writing typed values into a message and reading them back               *)
(* (comm/bknd/MessageBuilder.cpp, MessageReader.cpp).                      *)
(*                                                                         *)
(* A MessageBuilder appends values to a buffer that grows by doubling;     *)
(* toMessage takes the buffer away.  A MessageReader reads values off a    *)
(* message at a position of its own, and may be asked for any type         *)
(* anywhere.  Sizes and positions are unsigned ints, so their sums wrap;   *)
(* operator new may fail.  A byte has Base values and an unsigned int Word *)
(* bytes: 256 and 4 in the code, smaller where TLC enumerates.             *)
(***************************************************************************)
EXTENDS Integers, Sequences

CONSTANTS
    Base, Word,
    IntTypes,      \* integer types: [kind |-> "int", width, signed]
    Items,         \* what is written: [type, value]
    InitCaps,      \* init_cap of a builder
    Reserves,      \* arguments of reserve when the user calls it
    MaxAlloc,      \* operator new gives no more
    MaxString,     \* std::string::max_size()
    MaxWrite,      \* longest single write
    MaxItems       \* bound: values written to one message

Power[k \in Nat] == IF k = 0 THEN 1 ELSE Base * Power[k - 1]
Modulus    == Power[Word]
Wrap(n)    == n % Modulus
StringType == [kind |-> "string", width |-> 0, signed |-> FALSE]
BytesType  == [kind |-> "bytes", width |-> 0, signed |-> FALSE]
UIntType   == [kind |-> "int", width |-> Word, signed |-> FALSE]
UInt       == 0..Modulus - 1

(* The machine's representation: little endian, two's complement.          *)
Represent(v, t) == [i \in 1..t.width |-> (v \div Power[i - 1]) % Base]
ValuesOf(t) ==
    LET n == Power[t.width]
    IN IF t.signed THEN -(n \div 2)..(n \div 2) - 1 ELSE 0..n - 1

(* What a write appends: a string is preceded by its length.  A float or a *)
(* double appends its representation; no read returns one, and it is bytes *)
(* here.                                                                   *)
Written(item) ==
    CASE item.type.kind = "int"    -> Represent(item.value, item.type)
      [] item.type.kind = "string" -> Represent(Len(item.value), UIntType) \o item.value
      [] item.type.kind = "bytes"  -> item.value

(* A buffer in memory, the bytes being added to it and the std::string     *)
(* being made from it leave room below 2^32: they share an address space.  *)
ASSUME SizesAssumption ==
    /\ Base \in Nat \ {0} /\ Word \in Nat
    /\ MaxAlloc \in Nat /\ MaxString \in Nat /\ MaxWrite \in Nat /\ MaxItems \in Nat
    /\ MaxAlloc + MaxWrite < Modulus
    /\ MaxAlloc + MaxString < Modulus
    /\ MaxAlloc + Word < Modulus
    /\ InitCaps \subseteq 0..MaxAlloc /\ Reserves \subseteq UInt
ASSUME TypesAssumption ==
    \A t \in IntTypes :
        /\ t.kind = "int" /\ t.width \in Nat /\ t.signed \in BOOLEAN
        /\ t.width + MaxAlloc < Modulus
(* A value written is one of its type; a string is a std::string.          *)
ASSUME ItemsAssumption ==
    \A item \in Items :
        /\ \/ item.type \in IntTypes /\ item.value \in ValuesOf(item.type)
           \/ /\ item.type = StringType /\ item.value \in Seq(Nat)
              /\ Len(item.value) <= MaxString
           \/ item.type = BytesType /\ item.value \in Seq(Nat)
        /\ Len(Written(item)) <= MaxWrite

VARIABLES
    (* MessageBuilder *)
    init_cap, capacity, size,
    room,       \* true length of the allocation content points to
    cells,      \* the bytes written to it
    (* the last message built *)
    message,
    (* MessageReader *)
    seek_pos,
    (* ghosts *)
    items,      \* values written since the last message
    contents,   \* the values in message
    rest,       \* those an in-order reading has still to read
    got, want,  \* outcome of the last read, <<value>> or <<>> for an
                \* exception, and <<value>> if an in-order reading demands it
    failed,     \* toMessage has failed and nothing was written since
    cut,        \* reserve was then called with less than has been written
    stray       \* there was an access outside a buffer

builder == <<init_cap, capacity, size, room, cells, items, failed, cut>>
reader  == <<seek_pos, rest, got, want>>
bufferVars == <<builder, message, contents, reader, stray>>

BufferInit ==
    /\ init_cap \in InitCaps
    /\ capacity = init_cap /\ room = init_cap
    /\ size = 0 /\ cells = <<>> /\ items = <<>>
    /\ message = <<>> /\ contents = <<>>
    /\ seek_pos = 0 /\ rest = <<>> /\ got = <<>> /\ want = <<>>
    /\ failed = FALSE /\ cut = FALSE /\ stray = FALSE

(***************************************************************************)
(* MessageBuilder                                                          *)
(***************************************************************************)
(* reserve(n): the capacity it asks operator new for.                      *)
Grown(n) ==
    IF capacity < n
    THEN IF Wrap(2 * capacity) < n THEN n ELSE Wrap(2 * capacity)
    ELSE capacity

(* Variant: all that was allocated is copied.                              *)
CopiedAll(n) == IF capacity < n THEN room ELSE 0

(* The bytes reserve(n) copies from the old allocation to the new one.     *)
Copied(n) == IF capacity < n THEN size ELSE 0

(* reserve(n), called by a write or by the user of the builder.  If        *)
(* operator new fails nothing has changed.                                 *)
Reserved(n) ==
    /\ Grown(n) <= MaxAlloc
    /\ capacity' = Grown(n)
    /\ room' = IF capacity < n THEN Grown(n) ELSE room

CopyInside(n) == Copied(n) <= room /\ Copied(n) <= room'

reserve(n) ==
    /\ Reserved(n)
    /\ stray' = (stray \/ ~CopyInside(n))
    /\ cut' = (cut \/ (failed /\ n < size))
    /\ UNCHANGED <<init_cap, size, cells, items, failed, message, contents, reader>>

(* Every write reserves, stores and advances.                              *)
write(item) ==
    LET n    == Len(Written(item))
        need == Wrap(size + n)
    IN /\ Len(items) < MaxItems
       /\ Reserved(need)
       /\ stray' = (stray \/ ~CopyInside(need) \/ size + n > room')
       /\ cells' = cells \o Written(item)
       /\ size' = need
       /\ items' = Append(items, item)
       /\ failed' = FALSE
       /\ UNCHANGED <<init_cap, cut, message, contents, reader>>

(* A new MessageReader on the message just built.                          *)
StartReading(m, its) ==
    /\ message' = m /\ contents' = its
    /\ seek_pos' = 0 /\ rest' = its /\ got' = <<>> /\ want' = <<>>

(* The builder begins again with a buffer of init_cap bytes.               *)
Emptied ==
    /\ capacity' = init_cap /\ room' = init_cap
    /\ size' = 0 /\ cells' = <<>> /\ items' = <<>> /\ failed' = FALSE
    /\ UNCHANGED <<init_cap, cut, stray>>

toMessage == StartReading(cells, items) /\ Emptied

(* operator new fails in toMessage for the new buffer: capacity is already *)
(* reset, the buffer and its size are the old ones.  Or it fails for the   *)
(* Refbuf of the Message: the builder is empty, what was written is lost.  *)
toMessageFails ==
    \/ /\ capacity' = init_cap /\ failed' = TRUE
       /\ UNCHANGED <<init_cap, size, room, cells, items, cut, message, contents, reader, stray>>
    \/ Emptied /\ UNCHANGED <<message, contents, reader>>

(***************************************************************************)
(* MessageReader                                                           *)
(***************************************************************************)
getSize == Len(message)

(* assureSize(n) at pos does not throw.                                    *)
assureSize(pos, n) == Wrap(pos + n) <= getSize

Inside(pos, n) == pos + n <= getSize
Bytes(pos, n)  == SubSeq(message, pos + 1, pos + n)

(* The ghosts of a read of type t whose outcome is res: what an in-order   *)
(* reading demands of it.                                                  *)
Outcome(t, res) ==
    LET inOrder == rest # <<>> /\ Head(rest).type = t
    IN /\ got' = res
       /\ want' = IF inOrder THEN <<Head(rest).value>> ELSE <<>>
       /\ rest' = IF inOrder THEN Tail(rest) ELSE <<>>

readInt(t) ==
    /\ IF ~assureSize(seek_pos, t.width)
       THEN Outcome(t, <<>>) /\ UNCHANGED <<seek_pos, stray>>
       ELSE /\ seek_pos' = Wrap(seek_pos + t.width)
            /\ stray' = (stray \/ ~Inside(seek_pos, t.width))
            /\ \E v \in ValuesOf(t) :
                 /\ Inside(seek_pos, t.width) =>
                      Represent(v, t) = Bytes(seek_pos, t.width)
                 /\ Outcome(t, <<v>>)
    /\ UNCHANGED <<builder, message, contents>>

(* Variant: the string is not stepped over.                                *)
ReadStringStays ==
    /\ assureSize(seek_pos, Word)
    /\ seek_pos' = Wrap(seek_pos + Word)
    /\ \E n \in UInt :
         /\ Represent(n, UIntType) = Bytes(seek_pos, Word)
         /\ Outcome(StringType, IF assureSize(seek_pos', n) /\ n <= MaxString
                                THEN <<Bytes(seek_pos', n)>> ELSE <<>>)
    /\ UNCHANGED <<builder, message, contents, stray>>

(* The length is read first, and stays read if the rest fails.  A length   *)
(* so large that the sum wraps passes assureSize and moves the position;   *)
(* std::string then refuses it.                                            *)
readString ==
    /\ IF ~assureSize(seek_pos, Word)
       THEN Outcome(StringType, <<>>) /\ UNCHANGED <<seek_pos, stray>>
       ELSE LET start == Wrap(seek_pos + Word)
            IN \E n \in UInt :
                 /\ Inside(seek_pos, Word) =>
                      Represent(n, UIntType) = Bytes(seek_pos, Word)
                 /\ LET passes  == assureSize(start, n)
                        returns == passes /\ n <= MaxString
                    IN /\ seek_pos' = IF passes THEN Wrap(start + n) ELSE start
                       /\ stray' = \/ stray
                                   \/ ~Inside(seek_pos, Word)
                                   \/ returns /\ ~Inside(start, n)
                       /\ Outcome(StringType, IF returns THEN <<Bytes(start, n)>> ELSE <<>>)
    /\ UNCHANGED <<builder, message, contents>>

(* readBytes(bytes, n) into a caller's buffer of n bytes.                  *)
readBytes(n) ==
    /\ IF ~assureSize(seek_pos, n)
       THEN UNCHANGED <<seek_pos, stray>> /\ got' = <<>>
       ELSE /\ seek_pos' = Wrap(seek_pos + n)
            /\ stray' = (stray \/ ~Inside(seek_pos, n))
            /\ got' = <<Bytes(seek_pos, n)>>
    /\ LET inOrder == rest # <<>> /\ Head(rest).type = BytesType /\ Len(Head(rest).value) = n
       IN /\ want' = IF inOrder THEN <<Head(rest).value>> ELSE <<>>
          /\ rest' = IF inOrder THEN Tail(rest) ELSE <<>>
    /\ UNCHANGED <<builder, message, contents>>

(* seek(pos); back at the start, an in-order reading may begin again.      *)
seek(pos) ==
    /\ IF pos > getSize
       THEN UNCHANGED <<seek_pos, rest>>
       ELSE seek_pos' = pos /\ rest' = IF pos = 0 THEN contents ELSE <<>>
    /\ got' = <<>> /\ want' = <<>>
    /\ UNCHANGED <<builder, message, contents, stray>>

BufferNext ==
    \/ \E item \in Items : write(item)
    \/ \E n \in Reserves : reserve(n)
    \/ toMessage \/ toMessageFails
    \/ \E t \in IntTypes : readInt(t)
    \/ readString
    \/ \E n \in 0..MaxWrite : readBytes(n)
    \/ \E pos \in UInt : seek(pos)

BufferSpec == BufferInit /\ [][BufferNext]_bufferVars

(***************************************************************************)
(* Properties                                                              *)
(***************************************************************************)
(* The state has the shape the code gives it, and size is the number of    *)
(* bytes written: no sum has wrapped in the builder.  A message is no      *)
(* longer than a buffer can be.                                            *)
BufferTypeOK ==
    /\ init_cap \in InitCaps
    /\ capacity \in UInt /\ size \in 0..MaxAlloc /\ room \in 0..MaxAlloc
    /\ cells \in Seq(Nat) /\ Len(cells) = size
    /\ message \in Seq(Nat)
    /\ Len(message) <= MaxAlloc
    /\ seek_pos \in UInt
    /\ failed \in BOOLEAN /\ cut \in BOOLEAN /\ stray \in BOOLEAN

(* All that reserve takes to be there is allocated, and what has been      *)
(* written fits, also after operator new has failed halfway through        *)
(* toMessage, when capacity is less than size.  Only then is the capacity  *)
(* less than what is written, and a call of reserve for less than what is  *)
(* written moves it to an allocation in which it need not fit.             *)
BuilderFits ==
    /\ capacity <= room
    /\ size <= room \/ cut
    /\ size <= capacity \/ failed \/ cut

(* The position of a reader never passes the end of the message, whatever  *)
(* is read where, and also after a length that wraps.                      *)
PositionInside == seek_pos <= getSize

(* No store of a write, no copy of a reserve and no read of a message is   *)
(* outside its buffer: for any order of writes, calls of reserve and       *)
(* failing allocations, except that after a toMessage that failed reserve  *)
(* was called for less than has been written.  The copy then does not fit  *)
(* (MessageBuilder.cpp, 43), and what follows is undefined.                *)
InBounds == stray => cut

(* Reading the types that were written, in order, returns the values that  *)
(* were written (what testMsg of bkndtest tries for one sequence), wherever*)
(* the buffer was grown, as long as no access was outside a buffer.        *)
RoundTrip == want # <<>> /\ ~stray => got = want

=============================================================================
