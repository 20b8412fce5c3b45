---------------------------- MODULE GuestMemory ----------------------------
(***************************************************************************)
(* The memory of a guest: the stack, the data region and .text are three   *)
(* buffers of the host.  A load or a store finds its buffer by the tests   *)
(* that x86_cg_emit_mem_access compiles in front of it; the m and M        *)
(* packets of the debugger find theirs by gdb_translate_guest, which       *)
(* tests in another order.  Addresses and lengths are words of the         *)
(* machine, and wrap.                                                      *)
(***************************************************************************)
EXTENDS Integers, Sequences

CONSTANTS
  Word,        \* 2^64
  Guard,       \* RISCV_STACK_GUARD_BYTES: the low end of the stack is not for the guest
  Layouts,     \* where the sections of a program and the stack may be
  AccessSizes, \* x86_mem_type_size: 1, 2, 4, 8
  Lengths,     \* what a client asks for
  PacketCap,   \* GDB_PACKET_CAP
  Byte

Regions == {"stack", "data", "text"}
Words == 0..Word - 1

(* A range of addresses that does not wrap and that does not end below the *)
(* largest access, so that its last possible address is not negative.      *)
Sound(addr, size) == addr + size < Word /\ \A n \in AccessSizes : n <= addr + size

ASSUME GuestMemoryAssumption ==
  /\ Word \in Nat /\ Guard \in Nat
  /\ PacketCap \in Nat /\ PacketCap >= 3  \* a reply has room for a byte
  /\ Byte \subseteq Nat
  /\ AccessSizes \subseteq Nat \ {0}
  /\ Lengths \subseteq Words
  /\ Layouts \subseteq [stackSize : Nat, textAddr : Nat, textSize : Nat, dataAddr : Nat, dataSize : Nat]
  /\ \A l \in Layouts : /\ Sound(0, l.stackSize) /\ Sound(l.textAddr, l.textSize)
                        /\ l.dataSize # 0 => Sound(l.dataAddr, l.dataSize)

VARIABLES
  layout,  \* stack_size, elf.text_addr, ...: fixed when the program is loaded
  mem,     \* mem[region][offset]: the contents of stack_mem, elf.data_mem and elf.text_data
  reply    \* the last access: the place it was given, the length used, and what was read

vars == <<layout, mem, reply>>

TextEnd == layout.textAddr + layout.textSize
DataEnd == layout.dataAddr + layout.dataSize

Size(r) == CASE r = "stack" -> layout.stackSize
             [] r = "data"  -> layout.dataSize
             [] r = "text"  -> layout.textSize

Garbage == -1  \* what is read behind a buffer: no byte of the guest
-----------------------------------------------------------------------------
At(r, off) == [region |-> r, off |-> off]
Nowhere == At("none", 0)

(* Subtraction of 64-bit words *)
Minus(x, n) == IF x >= n THEN x - n ELSE x - n + Word

(* Seeded fault: only the first byte of an access is tested *)
DataHoldsFirstByte(a, n) == layout.dataSize # 0 /\ a >= layout.dataAddr /\ a < DataEnd

(* The tests of x86_cg_emit_mem_access: the first that holds decides *)
StackHolds(a, n) == a >= Guard /\ Minus(layout.stackSize, n) >= a
DataHolds(a, n) == layout.dataSize # 0 /\ a >= layout.dataAddr /\ Minus(DataEnd, n) >= a
TextHolds(a, n) == a >= layout.textAddr /\ Minus(TextEnd, n) >= a

(* Seeded fault: a store is compiled like a load, and reaches .text *)
GuestPlaceNoStoreTest(a, n, store) ==
  IF StackHolds(a, n) THEN At("stack", a)
  ELSE IF DataHolds(a, n) THEN At("data", a - layout.dataAddr)
  ELSE IF TextHolds(a, n) THEN At("text", a - layout.textAddr)
  ELSE Nowhere

GuestPlace(a, n, store) ==
  IF StackHolds(a, n) THEN At("stack", a)
  ELSE IF DataHolds(a, n) THEN At("data", a - layout.dataAddr)
  ELSE IF ~store /\ TextHolds(a, n) THEN At("text", a - layout.textAddr)
  ELSE Nowhere

(* gdb_translate_guest, for a length that is not 0: the first region that  *)
(* the address is in decides, whether the whole range is in it or not.     *)
InRange(lo, hi, a, n, r) == IF n <= hi - a THEN At(r, a - lo) ELSE Nowhere

ClientPlace(a, n) ==
  IF a >= layout.textAddr /\ a < TextEnd THEN InRange(layout.textAddr, TextEnd, a, n, "text")
  ELSE IF a < layout.stackSize THEN InRange(0, layout.stackSize, a, n, "stack")
  ELSE IF layout.dataSize # 0 /\ a >= layout.dataAddr /\ a < DataEnd
       THEN InRange(layout.dataAddr, DataEnd, a, n, "data")
  ELSE Nowhere
-----------------------------------------------------------------------------
Peek(p, n) ==
  [i \in 1..n |-> IF p.off + i - 1 \in DOMAIN mem[p.region] THEN mem[p.region][p.off + i - 1] ELSE Garbage]

(* The host's buffers when the bytes v are written at p; what lies behind *)
(* them is not modelled.                                                   *)
Poke(p, v) ==
  [mem EXCEPT ![p.region] =
     [o \in DOMAIN mem[p.region] |->
        IF o - p.off + 1 \in DOMAIN v THEN v[o - p.off + 1] ELSE mem[p.region][o]]]

Answer(ok, p, n, bytes) == reply' = [ok |-> ok, place |-> p, len |-> n, bytes |-> bytes]
NoReply == [ok |-> FALSE, place |-> Nowhere, len |-> 0, bytes |-> <<>>]
Refuse == reply' = NoReply

Init ==
  /\ layout \in Layouts
  /\ \E s \in [0..layout.stackSize - 1 -> Byte],
        d \in [0..layout.dataSize - 1 -> Byte],
        t \in [0..layout.textSize - 1 -> Byte] :
       mem = [r \in Regions |-> IF r = "stack" THEN s ELSE IF r = "data" THEN d ELSE t]
  /\ reply = NoReply

Load(a, n) ==
  /\ LET p == GuestPlace(a, n, FALSE)
     IN IF p = Nowhere THEN Refuse ELSE Answer(TRUE, p, n, Peek(p, n))
  /\ UNCHANGED <<layout, mem>>

Store(a, n, v) ==
  /\ LET p == GuestPlace(a, n, TRUE)
     IN IF p = Nowhere
        THEN Refuse /\ UNCHANGED mem
        ELSE Answer(TRUE, p, n, <<>>) /\ mem' = Poke(p, v)
  /\ UNCHANGED layout

(* The m packet: two digits per byte have to fit the reply *)
Clamped(n) == IF ((2 * n) % Word) + 1 > PacketCap THEN (PacketCap - 1) \div 2 ELSE n

Read(a, n) ==
  /\ LET k == Clamped(n)
         p == ClientPlace(a, k)
     IN \/ n = 0 /\ Answer(TRUE, Nowhere, 0, <<>>)
        \/ n # 0 /\ p = Nowhere /\ Refuse
        \/ n # 0 /\ p # Nowhere /\ Answer(TRUE, p, k, Peek(p, k))
  /\ UNCHANGED <<layout, mem>>

(* Seeded fault: the value of what is no digit is stored like any other *)
WriteUnread(a, n, v, bad) ==
  /\ LET p == ClientPlace(a, n)
     IN IF 2 * Len(v) < ((2 * n) % Word) \/ n = 0 \/ p \in {Nowhere, At("text", p.off)}
        THEN Refuse /\ UNCHANGED mem
        ELSE /\ mem' = Poke(p, SubSeq([i \in DOMAIN v |-> IF i >= bad THEN Garbage ELSE v[i]], 1, n))
             /\ Answer(TRUE, p, n, <<>>)
  /\ UNCHANGED layout

(* The M packet with the bytes v, of which the digits from `bad` on cannot  *)
(* be read: what is before them has been written when the error is sent.    *)
Write(a, n, v, bad) ==
  /\ LET p == ClientPlace(a, n)
         k == IF bad <= n THEN bad - 1 ELSE n
     IN IF 2 * Len(v) < ((2 * n) % Word) \/ n = 0 \/ p \in {Nowhere, At("text", p.off)}
        THEN Refuse /\ UNCHANGED mem
        ELSE /\ mem' = Poke(p, SubSeq(v, 1, k))
             /\ Answer(k = n, p, k, <<>>)
  /\ UNCHANGED layout

(* MaxSent bounds the bytes in a packet *)
MaxSent == 2
Sent == UNION {[1..k -> Byte] : k \in 0..MaxSent}

(* The guest goes on to its next instruction, the client to its next packet *)
Accept ==
  /\ reply # NoReply /\ Refuse
  /\ UNCHANGED <<layout, mem>>

Access(a) ==
  \/ \E n \in AccessSizes : Load(a, n) \/ \E v \in [1..n -> Byte] : Store(a, n, v)
  \/ \E n \in Lengths : Read(a, n) \/ \E v \in Sent : \E bad \in 1..Len(v) + 1 : Write(a, n, v, bad)

Next ==
  \/ Accept
  \/ reply = NoReply /\ \E a \in Words : Access(a)

Spec == Init /\ [][Next]_vars
-----------------------------------------------------------------------------
MemTypeOK ==
  /\ layout \in Layouts
  /\ DOMAIN mem = Regions
  /\ \A r \in Regions : mem[r] \in [0..Size(r) - 1 -> Byte]
  /\ reply.place.region \in Regions \cup {"none"}

(* No access that is let through leaves the buffer it was given a place in, *)
(* wherever the sections of the program are: no byte of the host is read or *)
(* written (examples/sandbox_demo).                                         *)
InBounds ==
  reply.place # Nowhere =>
    /\ reply.place.off \in Nat
    /\ reply.place.off + reply.len <= Size(reply.place.region)

(* The host code was compiled from .text once: neither the guest nor the    *)
(* client changes what a reader of .text sees.                              *)
TextIsConstant == [][mem'["text"] = mem["text"]]_vars
-----------------------------------------------------------------------------
(* When stack, data and .text do not overlap, they are one flat memory: a   *)
(* program and its debugger see the same bytes at the same addresses,       *)
(* though they look for them in a different order.                          *)
DataRanges == IF layout.dataSize = 0 THEN {} ELSE {<<layout.dataAddr, DataEnd>>}
TextRange == <<layout.textAddr, TextEnd>>

OpenRanges ==
  [load  |-> {<<Guard, layout.stackSize>>, TextRange} \cup DataRanges,
   store |-> {<<Guard, layout.stackSize>>} \cup DataRanges,
   read  |-> {<<0, layout.stackSize>>, TextRange} \cup DataRanges,
   write |-> {<<0, layout.stackSize>>} \cup DataRanges]

Backed == {a \in Words : \E r \in OpenRanges["read"] : r[1] <= a /\ a < r[2]}

ByteAt(a) ==
  IF a < layout.stackSize THEN mem["stack"][a]
  ELSE IF a \in layout.textAddr..TextEnd - 1 THEN mem["text"][a - layout.textAddr]
  ELSE mem["data"][a - layout.dataAddr]

Flat == INSTANCE FlatMemory
          WITH Addrs <- Words, Sizes <- AccessSizes,
               ranges <- OpenRanges,
               mem <- [a \in Backed |-> ByteAt(a)],
               reply <- [ok |-> reply.ok, bytes |-> reply.bytes]

(* layout never changes: the refinement is asked of the layouts without an *)
(* overlap, step by step.                                                  *)
Apart(lo1, hi1, lo2, hi2) == hi1 <= lo2 \/ hi2 <= lo1

IsDisjoint ==
  /\ Apart(0, layout.stackSize, layout.textAddr, TextEnd)
  /\ layout.dataSize # 0 => /\ Apart(0, layout.stackSize, layout.dataAddr, DataEnd)
                            /\ Apart(layout.textAddr, TextEnd, layout.dataAddr, DataEnd)

FlatInit == IsDisjoint => Flat!Init
FlatStep == IsDisjoint => [Flat!Next]_(Flat!vars)
FlatWhereDisjoint == FlatInit /\ [][FlatStep]_vars
=============================================================================
