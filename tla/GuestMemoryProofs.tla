------------------------- MODULE GuestMemoryProofs -------------------------
(***************************************************************************)
(* For every size of a word, every layout of the sections (also where they *)
(* overlap) and every access: no access that is let through leaves its     *)
(* buffer, and .text does not change.  Where stack, data and .text do not  *)
(* overlap, they are one flat memory for guest and debugger alike:         *)
(* GuestMemory implements FlatMemory.                                      *)
(***************************************************************************)
EXTENDS GuestMemory, SequenceTheorems, TLAPS

(* Everything the steps need of a layout: its sizes are numbers, and the    *)
(* last address at which an access of n bytes fits is not negative.         *)
LEMMA LayoutFacts ==
  ASSUME layout \in Layouts
  PROVE  /\ layout.stackSize \in Nat /\ layout.textAddr \in Nat /\ layout.textSize \in Nat
         /\ layout.dataAddr \in Nat /\ layout.dataSize \in Nat
         /\ \A n \in AccessSizes :
              /\ n \in Nat
              /\ n <= layout.stackSize
              /\ n <= layout.textAddr + layout.textSize
              /\ layout.dataSize # 0 => n <= layout.dataAddr + layout.dataSize
<1>1. /\ layout \in [stackSize : Nat, textAddr : Nat, textSize : Nat, dataAddr : Nat, dataSize : Nat]
      /\ Sound(0, layout.stackSize) /\ Sound(layout.textAddr, layout.textSize)
      /\ layout.dataSize # 0 => Sound(layout.dataAddr, layout.dataSize)
      /\ AccessSizes \subseteq Nat
  BY GuestMemoryAssumption
<1> QED
  BY <1>1 DEF Sound

LEMMA SizeOf ==
  /\ Size("stack") = layout.stackSize
  /\ Size("data") = layout.dataSize
  /\ Size("text") = layout.textSize
BY Zenon DEF Size

LEMMA Fields == \A r, o : At(r, o).region = r /\ At(r, o).off = o
BY DEF At

(* What the compiled tests let through lies in one buffer, and a store is   *)
(* never given a place in .text.                                            *)
LEMMA GuestPlaceInBounds ==
  ASSUME layout \in Layouts, NEW a \in Words, NEW n \in AccessSizes, NEW store \in BOOLEAN,
         GuestPlace(a, n, store) # Nowhere
  PROVE  LET p == GuestPlace(a, n, store)
         IN /\ p.off \in Nat /\ p.off + n <= Size(p.region)
            /\ p.region \in Regions /\ (store => p.region # "text")
<1> DEFINE p == GuestPlace(a, n, store)
<1>1. a \in Nat /\ n \in Nat
  BY LayoutFacts, GuestMemoryAssumption DEF Words
<1>2. CASE StackHolds(a, n)
  <2>1. p = At("stack", a)
    BY <1>2 DEF GuestPlace
  <2>2. a + n <= layout.stackSize
    BY <1>1, <1>2, LayoutFacts DEF StackHolds, Minus
  <2> QED
    BY <1>1, <2>1, <2>2 DEF At, Size, Regions
<1>3. CASE ~StackHolds(a, n) /\ DataHolds(a, n)
  <2>1. p = At("data", a - layout.dataAddr)
    BY <1>3 DEF GuestPlace
  <2>2. a >= layout.dataAddr /\ a + n <= layout.dataAddr + layout.dataSize
    BY <1>1, <1>3, LayoutFacts DEF DataHolds, Minus, DataEnd
  <2>3. a - layout.dataAddr \in Nat /\ (a - layout.dataAddr) + n <= layout.dataSize
    BY <1>1, <2>2, LayoutFacts
  <2> QED
    BY <2>1, <2>3 DEF At, Size, Regions
<1>4. CASE ~StackHolds(a, n) /\ ~DataHolds(a, n)
  <2>1. p = At("text", a - layout.textAddr) /\ ~store /\ TextHolds(a, n)
    BY <1>4 DEF GuestPlace
  <2>2. a >= layout.textAddr /\ a + n <= layout.textAddr + layout.textSize
    BY <1>1, <2>1, LayoutFacts DEF TextHolds, Minus, TextEnd
  <2>3. a - layout.textAddr \in Nat /\ (a - layout.textAddr) + n <= layout.textSize
    BY <1>1, <2>2, LayoutFacts
  <2> QED
    BY <2>1, <2>3 DEF At, Size, Regions
<1> QED
  BY <1>2, <1>3, <1>4

(* What gdb_translate_guest lets through lies in one buffer, for any length *)
LEMMA ClientPlaceInBounds ==
  ASSUME layout \in Layouts, NEW a \in Words, NEW n \in Nat, ClientPlace(a, n) # Nowhere
  PROVE  LET p == ClientPlace(a, n)
         IN /\ p.off \in Nat /\ p.off + n <= Size(p.region) /\ p.region \in Regions
            /\ Size(p.region) \in Nat /\ p = At(p.region, p.off)
<1> DEFINE p == ClientPlace(a, n)
<1>1. a \in Nat
  BY GuestMemoryAssumption DEF Words
<1>2. CASE a >= layout.textAddr /\ a < TextEnd
  <2>1. p = At("text", a - layout.textAddr) /\ n <= TextEnd - a
    BY <1>2 DEF ClientPlace, InRange
  <2>2. a - layout.textAddr \in Nat /\ (a - layout.textAddr) + n <= layout.textSize
    BY <1>1, <1>2, <2>1, LayoutFacts DEF TextEnd
  <2> QED
    BY <2>1, <2>2, LayoutFacts, SizeOf, Fields DEF Regions
<1>3. CASE ~(a >= layout.textAddr /\ a < TextEnd) /\ a < layout.stackSize
  <2>1. p = At("stack", a - 0) /\ n <= layout.stackSize - a
    BY <1>3 DEF ClientPlace, InRange
  <2>2. a - 0 \in Nat /\ (a - 0) + n <= layout.stackSize
    BY <1>1, <2>1, LayoutFacts
  <2> QED
    BY <2>1, <2>2, LayoutFacts, SizeOf, Fields DEF Regions
<1>4. CASE ~(a >= layout.textAddr /\ a < TextEnd) /\ ~(a < layout.stackSize)
  <2>1. /\ p = At("data", a - layout.dataAddr) /\ n <= DataEnd - a
        /\ a >= layout.dataAddr
    BY <1>4 DEF ClientPlace, InRange
  <2>2. a - layout.dataAddr \in Nat /\ (a - layout.dataAddr) + n <= layout.dataSize
    BY <1>1, <2>1, LayoutFacts DEF DataEnd
  <2> QED
    BY <2>1, <2>2, LayoutFacts, SizeOf, Fields DEF Regions
<1> QED
  BY <1>2, <1>3, <1>4
-----------------------------------------------------------------------------
(* Writing bytes at a place leaves the regions and their sizes as they are, *)
(* and every region but that one unchanged.                                 *)
LEMMA PokeKeepsMemory ==
  ASSUME DOMAIN mem = Regions, \A r \in Regions : mem[r] \in [0..Size(r) - 1 -> Byte],
         NEW p, p.region \in Regions, NEW v, \A i \in DOMAIN v : v[i] \in Byte
  PROVE  /\ DOMAIN Poke(p, v) = Regions
         /\ \A r \in Regions : Poke(p, v)[r] \in [0..Size(r) - 1 -> Byte]
         /\ \A r \in Regions \ {p.region} : Poke(p, v)[r] = mem[r]
<1> DEFINE R == [o \in DOMAIN mem[p.region] |->
                   IF o - p.off + 1 \in DOMAIN v THEN v[o - p.off + 1] ELSE mem[p.region][o]]
<1>1. Poke(p, v) = [mem EXCEPT ![p.region] = R]
  BY Zenon DEF Poke
<1>2. R \in [0..Size(p.region) - 1 -> Byte]
  <2> DEFINE S == 0..Size(p.region) - 1
  <2>1. mem[p.region] \in [S -> Byte]
    OBVIOUS
  <2>2. \A o \in S : R[o] \in Byte
    BY <2>1, Zenon
  <2> QED
    BY <2>1, <2>2, Zenon
<1> HIDE DEF R
<1> QED
  BY <1>1, <1>2, Zenon

(* The inductive invariant; reply may name no place, or one in its buffer *)
IInv == MemTypeOK /\ InBounds

(* The step of every access, with what it does to .text *)
LEMMA AccessStep ==
  ASSUME IInv, NEW a \in Words, Access(a)
  PROVE  IInv' /\ mem'["text"] = mem["text"]
<1> USE DEF IInv
<1>1. layout' = layout
  BY DEF Access, Load, Store, Read, Write
<1>2. \A r : Size(r)' = Size(r)
  BY <1>1 DEF Size
<1>3. ASSUME NEW p, p.off \in Nat, p.region \in Regions, NEW k, p.off + k <= Size(p.region),
             reply'.place = p, reply'.len = k
      PROVE  InBounds' /\ reply'.place.region \in Regions \cup {"none"}
  BY <1>2, <1>3 DEF InBounds
<1>4. ASSUME reply'.place = Nowhere
      PROVE  InBounds' /\ reply'.place.region \in Regions \cup {"none"}
  BY <1>4 DEF InBounds, Nowhere, At
<1>5. ASSUME DOMAIN mem' = Regions, \A r \in Regions : mem'[r] \in [0..Size(r) - 1 -> Byte],
             mem'["text"] = mem["text"],
             InBounds', reply'.place.region \in Regions \cup {"none"}
      PROVE  IInv' /\ mem'["text"] = mem["text"]
  BY <1>1, <1>2, <1>5, Zenon DEF MemTypeOK
<1>6. mem' = mem => /\ DOMAIN mem' = Regions /\ mem'["text"] = mem["text"]
                    /\ \A r \in Regions : mem'[r] \in [0..Size(r) - 1 -> Byte]
  BY Zenon DEF MemTypeOK
<1>11. "text" \in Regions /\ MemTypeOK
  BY DEF Regions
<1>7. ASSUME NEW n \in AccessSizes, Load(a, n)
      PROVE  IInv' /\ mem'["text"] = mem["text"]
  <2> DEFINE p == GuestPlace(a, n, FALSE)
  <2>1. mem' = mem
    BY <1>7 DEF Load
  <2>2. CASE p = Nowhere
    <3>1. reply'.place = Nowhere
      BY <1>7, <2>2 DEF Load, Refuse, NoReply
    <3>2. InBounds' /\ reply'.place.region \in Regions \cup {"none"}
      BY <1>4, <3>1
    <3> QED
      BY <1>5, <1>6, <2>1, <3>2
  <2>3. CASE p # Nowhere
    <3>0. reply' = [ok |-> TRUE, place |-> p, len |-> n, bytes |-> Peek(p, n)]
      BY <1>7, <2>3, Zenon DEF Load, Answer
    <3>1. reply'.place = p /\ reply'.len = n
      BY <3>0
    <3>2. p.off \in Nat /\ p.off + n <= Size(p.region) /\ p.region \in Regions
      BY <2>3, GuestPlaceInBounds, Zenon DEF MemTypeOK
    <3> HIDE DEF p
    <3>3. InBounds' /\ reply'.place.region \in Regions \cup {"none"}
      BY <1>3, <3>1, <3>2
    <3> QED
      BY <1>5, <1>6, <2>1, <3>3
  <2> QED
    BY <2>2, <2>3
<1>8. ASSUME NEW n \in AccessSizes, NEW v \in [1..n -> Byte], Store(a, n, v)
      PROVE  IInv' /\ mem'["text"] = mem["text"]
  <2> DEFINE p == GuestPlace(a, n, TRUE)
  <2>1. CASE p = Nowhere
    <3>1. mem' = mem /\ reply'.place = Nowhere
      BY <1>8, <2>1 DEF Store, Refuse, NoReply
    <3>2. InBounds' /\ reply'.place.region \in Regions \cup {"none"}
      BY <1>4, <3>1
    <3> QED
      BY <1>5, <1>6, <3>1, <3>2
  <2>2. CASE p # Nowhere
    <3>0. /\ reply' = [ok |-> TRUE, place |-> p, len |-> n, bytes |-> <<>>]
          /\ mem' = Poke(p, v)
      BY <1>8, <2>2, Zenon DEF Store, Answer
    <3>1. mem' = Poke(p, v) /\ reply'.place = p /\ reply'.len = n
      BY <3>0
    <3>2. /\ p.off \in Nat /\ p.off + n <= Size(p.region) /\ p.region \in Regions
          /\ p.region # "text"
      BY <2>2, GuestPlaceInBounds, Zenon DEF MemTypeOK
    <3> HIDE DEF p
    <3>3. \A i \in DOMAIN v : v[i] \in Byte
      OBVIOUS
    <3>4. /\ DOMAIN mem' = Regions /\ mem'["text"] = mem["text"]
          /\ \A r \in Regions : mem'[r] \in [0..Size(r) - 1 -> Byte]
      BY <3>1, <3>2, <3>3, <1>11, PokeKeepsMemory, Zenon DEF MemTypeOK
    <3>5. InBounds' /\ reply'.place.region \in Regions \cup {"none"}
      BY <1>3, <3>1, <3>2
    <3> QED
      BY <1>5, <3>4, <3>5
  <2> QED
    BY <2>1, <2>2
<1>9. ASSUME NEW n \in Lengths, Read(a, n)
      PROVE  IInv' /\ mem'["text"] = mem["text"]
  <2> DEFINE k == Clamped(n)
             p == ClientPlace(a, k)
  <2>1. mem' = mem
    BY <1>9 DEF Read
  <2>2. CASE reply'.place = Nowhere
    <3>1. InBounds' /\ reply'.place.region \in Regions \cup {"none"}
      BY <1>4, <2>2
    <3> QED
      BY <1>5, <1>6, <2>1, <3>1
  <2>3. CASE reply'.place # Nowhere
    <3>1. n # 0 /\ p # Nowhere /\ reply'.place = p /\ reply'.len = k
      BY <1>9, <2>3 DEF Read, Answer, Refuse, NoReply
    <3>2. k \in Nat
      BY <3>1, GuestMemoryAssumption DEF Words, Clamped
    <3> HIDE DEF k
    <3>3. p.off \in Nat /\ p.off + k <= Size(p.region) /\ p.region \in Regions
      BY <3>1, <3>2, ClientPlaceInBounds, Zenon DEF MemTypeOK
    <3> HIDE DEF p
    <3>4. InBounds' /\ reply'.place.region \in Regions \cup {"none"}
      BY <1>3, <3>1, <3>3
    <3> QED
      BY <1>5, <1>6, <2>1, <3>4
  <2> QED
    BY <2>2, <2>3
<1>10. ASSUME NEW n \in Lengths, NEW v \in Sent, NEW bad \in 1..Len(v) + 1, Write(a, n, v, bad)
       PROVE  IInv' /\ mem'["text"] = mem["text"]
  <2> DEFINE p == ClientPlace(a, n)
             k == IF bad <= n THEN bad - 1 ELSE n
             w == SubSeq(v, 1, k)
  <2>1. CASE 2 * Len(v) < ((2 * n) % Word) \/ n = 0 \/ p \in {Nowhere, At("text", p.off)}
    <3>1. mem' = mem /\ reply'.place = Nowhere
      BY <1>10, <2>1 DEF Write, Refuse, NoReply
    <3>2. InBounds' /\ reply'.place.region \in Regions \cup {"none"}
      BY <1>4, <3>1
    <3> QED
      BY <1>5, <1>6, <3>1, <3>2
  <2>2. CASE ~(2 * Len(v) < ((2 * n) % Word) \/ n = 0 \/ p \in {Nowhere, At("text", p.off)})
    <3>1. mem' = Poke(p, w) /\ reply'.place = p /\ reply'.len = k
      BY <1>10, <2>2 DEF Write, Answer, Refuse, NoReply
    <3>2. n \in Nat /\ k \in Nat /\ k <= n
      BY GuestMemoryAssumption DEF Words, Sent
    <3>3. /\ p.off \in Nat /\ p.off + n <= Size(p.region) /\ p.region \in Regions
          /\ Size(p.region) \in Nat /\ p = At(p.region, p.off)
      BY <2>2, <3>2, ClientPlaceInBounds, Zenon DEF MemTypeOK
    <3>4. p.region # "text"
      BY <2>2, <3>3, Zenon
    <3>5. \A i \in DOMAIN w : w[i] \in Byte
      <4>1. PICK m \in 0..MaxSent : v \in [1..m -> Byte]
        BY DEF Sent
      <4>2. m \in Nat /\ Len(v) = m /\ k <= m /\ v \in Seq(Byte)
        BY <3>2, <4>1 DEF MaxSent
      <4> QED
        BY <3>2, <4>2
    <3> HIDE DEF p, k, w
    <3>6. /\ DOMAIN mem' = Regions /\ mem'["text"] = mem["text"]
          /\ \A r \in Regions : mem'[r] \in [0..Size(r) - 1 -> Byte]
      <4>1. p.region \in Regions /\ mem' = Poke(p, w)
        BY <3>1, <3>3
      <4> QED
        BY <4>1, <3>4, <3>5, <1>11, PokeKeepsMemory, Zenon DEF MemTypeOK
    <3>7. InBounds' /\ reply'.place.region \in Regions \cup {"none"}
      BY <1>3, <3>1, <3>2, <3>3
    <3> QED
      BY <1>5, <3>6, <3>7
  <2> QED
    BY <2>1, <2>2
<1> QED
  BY <1>7, <1>8, <1>9, <1>10 DEF Access
-----------------------------------------------------------------------------
(* Types, and places inside of their buffers, in every state *)
THEOREM MemInductive == Spec => []IInv
<1>1. ASSUME Init PROVE IInv
  <2>1. layout \in Layouts
    BY <1>1 DEF Init
  <2>2. \A r \in Regions : mem[r] \in [0..Size(r) - 1 -> Byte]
    <3>1. PICK s \in [0..layout.stackSize - 1 -> Byte],
               d \in [0..layout.dataSize - 1 -> Byte],
               t \in [0..layout.textSize - 1 -> Byte] :
                 mem = [r \in Regions |-> IF r = "stack" THEN s ELSE IF r = "data" THEN d ELSE t]
      BY <1>1, Zenon DEF Init
    <3>2. mem["stack"] = s /\ mem["data"] = d /\ mem["text"] = t
      BY <3>1 DEF Regions
    <3> QED
      BY <3>2, SizeOf, Zenon DEF Regions
  <2>3. DOMAIN mem = Regions
    BY <1>1 DEF Init
  <2>4. reply.place = Nowhere
    BY <1>1 DEF Init, NoReply
  <2> QED
    BY <2>1, <2>2, <2>3, <2>4 DEF IInv, MemTypeOK, InBounds, Nowhere, At
<1>2. ASSUME IInv, [Next]_vars PROVE IInv'
  <2>1. CASE Next /\ ~Accept
    BY <1>2, <2>1, AccessStep DEF Next
  <2>2. ASSUME layout' = layout, mem' = mem, reply' = reply \/ reply'.place = Nowhere
        PROVE  IInv'
    <3>1. \A r : Size(r)' = Size(r)
      BY <2>2 DEF Size
    <3>2. /\ layout' \in Layouts /\ DOMAIN mem' = Regions
          /\ \A r \in Regions : mem'[r] \in [0..Size(r)' - 1 -> Byte]
      BY <1>2, <2>2, <3>1, Zenon DEF IInv, MemTypeOK
    <3>3. InBounds' /\ reply'.place.region \in Regions \cup {"none"}
      BY <1>2, <2>2, <3>1 DEF IInv, MemTypeOK, InBounds, Nowhere, At
    <3> QED
      BY <3>2, <3>3, Zenon DEF IInv, MemTypeOK
  <2>3. CASE Accept
    BY <2>2, <2>3 DEF Accept, Refuse, NoReply
  <2>4. CASE UNCHANGED vars
    BY <2>2, <2>4 DEF vars
  <2> QED
    BY <1>2, <2>1, <2>3, <2>4
<1> QED
  BY <1>1, <1>2, PTL DEF Spec

(* The buffers keep their sizes, and hold bytes *)
THEOREM SpecMemTypeOK == Spec => []MemTypeOK
BY MemInductive, PTL DEF IInv

(* No load, store, m or M packet that is let through touches a byte behind  *)
(* the buffer it was given a place in, wherever a program's sections are.   *)
THEOREM SpecInBounds == Spec => []InBounds
BY MemInductive, PTL DEF IInv

(* No guest and no client ever changes a byte of .text *)
THEOREM SpecTextIsConstant == Spec => TextIsConstant
<1>1. ASSUME IInv, [Next]_vars PROVE [mem'["text"] = mem["text"]]_vars
  <2>1. CASE Next /\ ~Accept
    BY <1>1, <2>1, AccessStep DEF Next
  <2> QED
    BY <1>1, <2>1 DEF Accept, vars
<1> QED
  BY <1>1, MemInductive, PTL DEF Spec, TextIsConstant
-----------------------------------------------------------------------------
(* Where a region begins in the guest's address space, and what lies in it *)
Base(r) == CASE r = "stack" -> 0
             [] r = "data"  -> layout.dataAddr
             [] r = "text"  -> layout.textAddr
In(b, r) == Base(r) <= b /\ b < Base(r) + Size(r)

LEMMA BaseOf ==
  /\ Base("stack") = 0
  /\ Base("data") = layout.dataAddr
  /\ Base("text") = layout.textAddr
BY Zenon DEF Base

LEMMA RegionFacts ==
  ASSUME layout \in Layouts, NEW r \in Regions
  PROVE  Base(r) \in Nat /\ Size(r) \in Nat /\ (Size(r) # 0 => Base(r) + Size(r) < Word)
<1>1. /\ Sound(0, layout.stackSize) /\ Sound(layout.textAddr, layout.textSize)
      /\ layout.dataSize # 0 => Sound(layout.dataAddr, layout.dataSize)
  BY GuestMemoryAssumption
<1>2. /\ layout.stackSize < Word /\ layout.textAddr + layout.textSize < Word
      /\ layout.dataSize # 0 => layout.dataAddr + layout.dataSize < Word
  BY <1>1, LayoutFacts DEF Sound
<1> QED
  BY <1>2, LayoutFacts, BaseOf, SizeOf DEF Regions

(* The backed addresses are those that lie in a region. *)
LEMMA BackedIs ==
  ASSUME layout \in Layouts, NEW b \in Words
  PROVE  b \in Backed <=> \E r \in Regions : In(b, r)
<1>1. b \in Nat
  BY GuestMemoryAssumption DEF Words
<1>2. (\E r \in Regions : In(b, r))
        <=> In(b, "stack") \/ In(b, "data") \/ In(b, "text")
  BY DEF Regions
<1> DEFINE Covers(rg) == rg[1] <= b /\ b < rg[2]
<1>3. b \in Backed <=> \E rg \in OpenRanges["read"] : Covers(rg)
  BY DEF Backed
<1>4. OpenRanges["read"] = {<<0, layout.stackSize>>, <<layout.textAddr, TextEnd>>} \cup DataRanges
  BY DEF OpenRanges, TextRange
<1>5. \A lo, hi : Covers(<<lo, hi>>) <=> lo <= b /\ b < hi
  OBVIOUS
<1> HIDE DEF Covers
<1>6. b \in Backed <=> \/ Covers(<<0, layout.stackSize>>)
                       \/ Covers(<<layout.textAddr, TextEnd>>)
                       \/ layout.dataSize # 0 /\ Covers(<<layout.dataAddr, DataEnd>>)
  BY <1>3, <1>4, Zenon DEF DataRanges
<1>7. /\ In(b, "stack") <=> 0 <= b /\ b < layout.stackSize
      /\ In(b, "text") <=> layout.textAddr <= b /\ b < TextEnd
      /\ In(b, "data") <=> layout.dataSize # 0 /\ layout.dataAddr <= b /\ b < DataEnd
  BY <1>1, LayoutFacts, BaseOf, SizeOf DEF In, TextEnd, DataEnd
<1> QED
  BY <1>2, <1>5, <1>6, <1>7

(* The byte at an address, with these contents of the regions *)
ByteIn(m, b) ==
  IF b < layout.stackSize THEN m["stack"][b]
  ELSE IF b \in layout.textAddr..TextEnd - 1 THEN m["text"][b - layout.textAddr]
  ELSE m["data"][b - layout.dataAddr]

(* In a layout without an overlap an address lies in one region at most,    *)
(* and the byte there is the one that the region holds.                     *)
LEMMA ByteAtIs ==
  ASSUME layout \in Layouts, IsDisjoint, NEW b \in Words, NEW r \in Regions, In(b, r)
  PROVE  /\ \A m : ByteIn(m, b) = m[r][b - Base(r)]
         /\ \A q \in Regions : In(b, q) => q = r
         /\ b - Base(r) \in 0..Size(r) - 1
<1>1. b \in Nat
  BY GuestMemoryAssumption DEF Words
<1>2. \A q \in Regions : In(b, q) => q = r
  BY <1>1, LayoutFacts, BaseOf, SizeOf DEF Regions, In, IsDisjoint, Apart, TextEnd, DataEnd
<1>3. b - Base(r) \in 0..Size(r) - 1
  BY <1>1, RegionFacts DEF In
<1>4. In(b, "stack") <=> b < layout.stackSize
  BY <1>1, LayoutFacts, BaseOf, SizeOf DEF In
<1>5. In(b, "text") <=> b \in layout.textAddr..TextEnd - 1
  BY <1>1, LayoutFacts, BaseOf, SizeOf DEF In, TextEnd
<1>6. b - 0 = b
  BY <1>1
<1>7. CASE r = "stack"
  BY <1>4, <1>6, <1>7, <1>2, <1>3, BaseOf DEF ByteIn
<1>8. CASE r = "text"
  BY <1>4, <1>5, <1>8, <1>2, <1>3, BaseOf DEF ByteIn, Regions
<1>9. CASE r = "data"
  BY <1>4, <1>5, <1>9, <1>2, <1>3, BaseOf DEF ByteIn, Regions
<1> QED
  BY <1>7, <1>8, <1>9 DEF Regions

(* A place for n bytes at the address a: the region they lie in *)
IsPlace(p, a, n) ==
  /\ p.region \in Regions
  /\ p.off = a - Base(p.region)
  /\ Base(p.region) <= a /\ a + n <= Base(p.region) + Size(p.region)

(* What the flat memory is, and what it sees of a reply *)
FlatMem == [b \in Backed |-> ByteAt(b)]
FlatReply == [ok |-> reply.ok, bytes |-> reply.bytes]

LEMMA Replies ==
  /\ reply' = NoReply => FlatReply' = Flat!NoReply
  /\ \A ok, p, n, bytes : Answer(ok, p, n, bytes) => FlatReply' = [ok |-> ok, bytes |-> bytes]
<1>1. reply' = NoReply => reply'.ok = FALSE /\ reply'.bytes = <<>>
  BY DEF NoReply
<1>2. ASSUME NEW ok, NEW p, NEW n, NEW bytes, Answer(ok, p, n, bytes)
      PROVE  reply'.ok = ok /\ reply'.bytes = bytes
  BY <1>2 DEF Answer
<1> QED
  BY <1>1, <1>2, Zenon DEF FlatReply, Flat!NoReply

(* What is read at a place is what the flat memory holds at the address. *)
LEMMA PeekIsContents ==
  ASSUME MemTypeOK, IsDisjoint, NEW a \in Words, NEW n \in Nat \ {0}, NEW p, IsPlace(p, a, n)
  PROVE  Peek(p, n) = Flat!Contents(a, n)
<1>1. layout \in Layouts /\ DOMAIN mem[p.region] = 0..Size(p.region) - 1
  BY Zenon DEF MemTypeOK, IsPlace
<1>2. ASSUME NEW i \in 1..n
      PROVE  /\ a + i - 1 \in Backed
             /\ p.off + i - 1 \in DOMAIN mem[p.region]
             /\ ByteAt(a + i - 1) = mem[p.region][p.off + i - 1]
  <2>1. a \in Nat /\ Base(p.region) \in Nat /\ Size(p.region) \in Nat /\ Size(p.region) # 0
        /\ Base(p.region) + Size(p.region) < Word
    BY <1>1, RegionFacts, GuestMemoryAssumption DEF IsPlace, Words
  <2>2. a + i - 1 \in Words /\ In(a + i - 1, p.region)
    BY <2>1, GuestMemoryAssumption DEF IsPlace, In, Words
  <2>3. (a + i - 1) - Base(p.region) = p.off + i - 1
    BY <2>1 DEF IsPlace
  <2>4. p.region \in Regions
    BY DEF IsPlace
  <2>5. a + i - 1 \in Backed
    BY <1>1, <2>2, <2>4, BackedIs
  <2>6. ByteAt(a + i - 1) = mem[p.region][(a + i - 1) - Base(p.region)]
        /\ (a + i - 1) - Base(p.region) \in 0..Size(p.region) - 1
    BY <1>1, <2>2, <2>4, ByteAtIs DEF ByteAt, ByteIn
  <2> QED
    BY <1>1, <2>3, <2>5, <2>6
<1>3. \A i \in 1..n : [b \in Backed |-> ByteAt(b)][a + i - 1] = ByteAt(a + i - 1)
  BY <1>2
<1> QED
  BY <1>2, <1>3 DEF Peek, Flat!Contents

(* Bytes that are poked at a place are written at the address. *)
LEMMA PokeIsWritten ==
  ASSUME MemTypeOK, IsDisjoint, layout' = layout, NEW a \in Words, NEW n \in Nat, NEW p, IsPlace(p, a, n),
         NEW k \in 0..n, NEW v \in [1..k -> Byte], mem' = Poke(p, v)
  PROVE  FlatMem' = Flat!Written(a, v)
<1>1. layout \in Layouts /\ DOMAIN mem = Regions /\ \A r \in Regions : DOMAIN mem[r] = 0..Size(r) - 1
  BY Zenon DEF MemTypeOK
<1>2. Backed' = Backed
  BY DEF Backed, OpenRanges, TextRange, DataRanges, TextEnd, DataEnd
<1>3. ASSUME NEW b \in Backed
      PROVE  ByteAt(b)' = IF b - a + 1 \in DOMAIN v THEN v[b - a + 1] ELSE ByteAt(b)
  <2>1. b \in Words
    BY DEF Backed
  <2>2. PICK r \in Regions : In(b, r)
    BY <1>1, <2>1, BackedIs
  <2>3. /\ \A m : ByteIn(m, b) = m[r][b - Base(r)]
        /\ b - Base(r) \in 0..Size(r) - 1 /\ \A q \in Regions : In(b, q) => q = r
    BY <1>1, <2>1, <2>2, ByteAtIs
  <2>4. ByteAt(b) = ByteIn(mem, b) /\ ByteAt(b)' = ByteIn(mem', b)
    BY Zenon DEF ByteAt, ByteIn, TextEnd
  <2>5. ByteAt(b) = mem[r][b - Base(r)] /\ ByteAt(b)' = mem'[r][b - Base(r)]
    BY <2>3, <2>4
  <2>6. a \in Nat /\ b \in Nat /\ Base(r) \in Nat /\ Base(p.region) \in Nat
    BY <1>1, <2>1, RegionFacts, GuestMemoryAssumption DEF Words, IsPlace
  <2>7. CASE r = p.region
    <3>1. mem'[r][b - Base(r)] =
            IF (b - Base(r)) - p.off + 1 \in DOMAIN v THEN v[(b - Base(r)) - p.off + 1] ELSE mem[r][b - Base(r)]
      BY <1>1, <2>3, <2>7 DEF Poke
    <3>2. (b - Base(r)) - p.off + 1 = b - a + 1
      BY <2>6, <2>7 DEF IsPlace
    <3> QED
      BY <2>5, <3>1, <3>2
  <2>8. CASE r # p.region
    <3>1. mem'[r] = mem[r]
      BY <1>1, <2>8 DEF Poke
    <3>2. b - a + 1 \notin 1..k
      <4>1. ~In(b, p.region)
        BY <2>2, <2>3, <2>8 DEF IsPlace
      <4>2. Size(p.region) \in Nat
        BY <1>1, RegionFacts DEF IsPlace
      <4> QED
        BY <2>6, <4>1, <4>2 DEF In, IsPlace
    <3> QED
      BY <2>5, <3>1, <3>2
  <2> QED
    BY <2>7, <2>8
<1> QED
  BY <1>2, <1>3 DEF Flat!Written, FlatMem
-----------------------------------------------------------------------------
(* When n bytes at the address a lie in one of the ranges open to an access *)
LEMMA WithinIs ==
  ASSUME NEW a, NEW n
  PROVE  /\ Flat!Within("load", a, n) <=> \/ Guard <= a /\ a + n <= layout.stackSize
                                          \/ layout.textAddr <= a /\ a + n <= TextEnd
                                          \/ layout.dataSize # 0 /\ layout.dataAddr <= a /\ a + n <= DataEnd
         /\ Flat!Within("store", a, n) <=> \/ Guard <= a /\ a + n <= layout.stackSize
                                           \/ layout.dataSize # 0 /\ layout.dataAddr <= a /\ a + n <= DataEnd
         /\ Flat!Within("read", a, n) <=> \/ 0 <= a /\ a + n <= layout.stackSize
                                          \/ layout.textAddr <= a /\ a + n <= TextEnd
                                          \/ layout.dataSize # 0 /\ layout.dataAddr <= a /\ a + n <= DataEnd
         /\ Flat!Within("write", a, n) <=> \/ 0 <= a /\ a + n <= layout.stackSize
                                           \/ layout.dataSize # 0 /\ layout.dataAddr <= a /\ a + n <= DataEnd
<1> DEFINE Holds(rg) == rg[1] <= a /\ a + n <= rg[2]
           Stack(lo) == <<lo, layout.stackSize>>
           Text == <<layout.textAddr, TextEnd>>
           Data == <<layout.dataAddr, DataEnd>>
<1>1. \A lo, hi : Holds(<<lo, hi>>) <=> lo <= a /\ a + n <= hi
  OBVIOUS
<1>2. \A kind : Flat!Within(kind, a, n) <=> \E rg \in OpenRanges[kind] : Holds(rg)
  BY Zenon DEF Flat!Within
<1>3. /\ OpenRanges["load"] = {Stack(Guard), Text} \cup DataRanges
      /\ OpenRanges["store"] = {Stack(Guard)} \cup DataRanges
      /\ OpenRanges["read"] = {Stack(0), Text} \cup DataRanges
      /\ OpenRanges["write"] = {Stack(0)} \cup DataRanges
  BY DEF OpenRanges, TextRange
<1> HIDE DEF Holds
<1>4. /\ Flat!Within("load", a, n) <=> Holds(Stack(Guard)) \/ Holds(Text) \/ (layout.dataSize # 0 /\ Holds(Data))
      /\ Flat!Within("store", a, n) <=> Holds(Stack(Guard)) \/ (layout.dataSize # 0 /\ Holds(Data))
      /\ Flat!Within("read", a, n) <=> Holds(Stack(0)) \/ Holds(Text) \/ (layout.dataSize # 0 /\ Holds(Data))
      /\ Flat!Within("write", a, n) <=> Holds(Stack(0)) \/ (layout.dataSize # 0 /\ Holds(Data))
  BY <1>2, <1>3, Zenon DEF DataRanges
<1> QED
  BY <1>1, <1>4

(* The tests in front of a load or store find a place exactly for what lies *)
(* in a range that is open to it, and it is the right one.                  *)
LEMMA GuestPlaceIs ==
  ASSUME layout \in Layouts, NEW a \in Words, NEW n \in AccessSizes, NEW store \in BOOLEAN
  PROVE  LET p == GuestPlace(a, n, store)
         IN /\ p # Nowhere => IsPlace(p, a, n)
            /\ p # Nowhere <=> Flat!Within(IF store THEN "store" ELSE "load", a, n)
<1> DEFINE p == GuestPlace(a, n, store)
<1>1. a \in Nat /\ n \in Nat
  BY LayoutFacts, GuestMemoryAssumption DEF Words
<1>2. /\ StackHolds(a, n) <=> Guard <= a /\ a + n <= layout.stackSize
      /\ DataHolds(a, n) <=> layout.dataSize # 0 /\ layout.dataAddr <= a /\ a + n <= DataEnd
      /\ TextHolds(a, n) <=> layout.textAddr <= a /\ a + n <= TextEnd
  BY <1>1, LayoutFacts, GuestMemoryAssumption DEF StackHolds, DataHolds, TextHolds, Minus, DataEnd, TextEnd
<1>3. p # Nowhere <=> StackHolds(a, n) \/ DataHolds(a, n) \/ (~store /\ TextHolds(a, n))
  BY DEF GuestPlace, Nowhere, At
<1>4. p # Nowhere <=> Flat!Within(IF store THEN "store" ELSE "load", a, n)
  BY <1>2, <1>3, WithinIs
<1>5. ASSUME p # Nowhere PROVE IsPlace(p, a, n)
  <2>1. CASE StackHolds(a, n)
    <3>1. p.region = "stack" /\ p.off = a
      BY <2>1 DEF GuestPlace, At
    <3> QED
      BY <1>1, <1>2, <2>1, <3>1, BaseOf, SizeOf, LayoutFacts DEF IsPlace, Regions
  <2>2. CASE ~StackHolds(a, n) /\ DataHolds(a, n)
    <3>1. p.region = "data" /\ p.off = a - layout.dataAddr
      BY <2>2 DEF GuestPlace, At
    <3> QED
      BY <1>1, <1>2, <2>2, <3>1, BaseOf, SizeOf, LayoutFacts DEF IsPlace, Regions, DataEnd
  <2>3. CASE ~StackHolds(a, n) /\ ~DataHolds(a, n)
    <3>1. p.region = "text" /\ p.off = a - layout.textAddr /\ TextHolds(a, n)
      BY <1>3, <1>5, <2>3 DEF GuestPlace, At
    <3> QED
      BY <1>1, <1>2, <3>1, BaseOf, SizeOf, LayoutFacts DEF IsPlace, Regions, TextEnd
  <2> QED
    BY <2>1, <2>2, <2>3
<1> QED
  BY <1>4, <1>5

(* gdb_translate_guest finds the same, in its own order, where the regions  *)
(* do not overlap; what is in .text is not open to a write.                 *)
LEMMA ClientPlaceIs ==
  ASSUME layout \in Layouts, IsDisjoint, NEW a \in Words, NEW n \in Nat \ {0}
  PROVE  LET p == ClientPlace(a, n)
         IN /\ p # Nowhere => IsPlace(p, a, n)
            /\ p # Nowhere <=> Flat!Within("read", a, n)
            /\ p \notin {Nowhere, At("text", p.off)} => Flat!Within("write", a, n)
<1> DEFINE p == ClientPlace(a, n)
<1>1. a \in Nat
  BY GuestMemoryAssumption DEF Words
<1>2. CASE a >= layout.textAddr /\ a < TextEnd
  <2>1. p = IF n <= TextEnd - a THEN At("text", a - layout.textAddr) ELSE Nowhere
    BY <1>2 DEF ClientPlace, InRange
  <2>2. ~(a + 1 <= layout.stackSize) /\ (layout.dataSize # 0 => ~(layout.dataAddr <= a /\ a + 1 <= DataEnd))
    BY <1>1, <1>2, LayoutFacts DEF IsDisjoint, Apart, TextEnd, DataEnd
  <2>3. Flat!Within("read", a, n) <=> n <= TextEnd - a
    BY <1>1, <1>2, <2>2, WithinIs, LayoutFacts DEF TextEnd, DataEnd
  <2>4. p # Nowhere => p = At("text", p.off)
    BY <2>1, Fields
  <2>5. p # Nowhere <=> n <= TextEnd - a
    BY <2>1 DEF At, Nowhere
  <2>6. n <= TextEnd - a => IsPlace(p, a, n)
    BY <1>1, <1>2, <2>1, Fields, BaseOf, SizeOf, LayoutFacts DEF IsPlace, Regions, TextEnd
  <2> QED
    BY <2>3, <2>4, <2>5, <2>6
<1>3. CASE ~(a >= layout.textAddr /\ a < TextEnd) /\ a < layout.stackSize
  <2>1. p = IF n <= layout.stackSize - a THEN At("stack", a - 0) ELSE Nowhere
    BY <1>3 DEF ClientPlace, InRange
  <2>2. layout.dataSize # 0 => ~(layout.dataAddr <= a /\ a + 1 <= DataEnd)
    BY <1>1, <1>3, LayoutFacts DEF IsDisjoint, Apart, TextEnd, DataEnd
  <2>3. /\ Flat!Within("read", a, n) <=> n <= layout.stackSize - a
        /\ n <= layout.stackSize - a => Flat!Within("write", a, n)
    BY <1>1, <1>3, <2>2, WithinIs, LayoutFacts DEF TextEnd, DataEnd
  <2>5. p # Nowhere <=> n <= layout.stackSize - a
    BY <2>1 DEF At, Nowhere
  <2>6. n <= layout.stackSize - a => IsPlace(p, a, n)
    BY <1>1, <1>3, <2>1, Fields, BaseOf, SizeOf, LayoutFacts DEF IsPlace, Regions
  <2> QED
    BY <2>3, <2>5, <2>6
<1>4. CASE ~(a >= layout.textAddr /\ a < TextEnd) /\ ~(a < layout.stackSize)
  <2> DEFINE inData == layout.dataSize # 0 /\ a >= layout.dataAddr /\ a < DataEnd
  <2>1. p = IF inData /\ n <= DataEnd - a THEN At("data", a - layout.dataAddr) ELSE Nowhere
    BY <1>4 DEF ClientPlace, InRange
  <2>3. /\ Flat!Within("read", a, n) <=> inData /\ n <= DataEnd - a
        /\ inData /\ n <= DataEnd - a => Flat!Within("write", a, n)
    BY <1>1, <1>4, WithinIs, LayoutFacts DEF TextEnd, DataEnd
  <2>5. p # Nowhere <=> inData /\ n <= DataEnd - a
    BY <2>1 DEF At, Nowhere
  <2>6. inData /\ n <= DataEnd - a => IsPlace(p, a, n)
    BY <1>1, <2>1, Fields, BaseOf, SizeOf, LayoutFacts DEF IsPlace, Regions, DataEnd
  <2> QED
    BY <2>3, <2>5, <2>6
<1> QED
  BY <1>2, <1>3, <1>4
-----------------------------------------------------------------------------
(* The layout is fixed, and with it the ranges; memory that is not written  *)
(* stays as it is.                                                          *)
LEMMA SameLayout ==
  ASSUME layout' = layout
  PROVE  OpenRanges' = OpenRanges /\ (mem' = mem => FlatMem' = FlatMem)
<1>1. TextEnd' = TextEnd /\ DataEnd' = DataEnd /\ TextRange' = TextRange /\ DataRanges' = DataRanges
  BY DEF TextEnd, DataEnd, TextRange, DataRanges
<1>2. OpenRanges' = OpenRanges
  BY <1>1 DEF OpenRanges
<1>3. Backed' = Backed
  BY <1>2, Zenon DEF Backed
<1>4. mem' = mem => \A b : ByteAt(b)' = ByteAt(b)
  BY <1>1 DEF ByteAt
<1> QED
  BY <1>2, <1>3, <1>4 DEF FlatMem

(* Loads and stores of the guest *)
LEMMA LoadIsFlat ==
  ASSUME MemTypeOK, IsDisjoint, NEW a \in Words, NEW n \in AccessSizes, Load(a, n)
  PROVE  Flat!Load(a, n)
<1> DEFINE p == GuestPlace(a, n, FALSE)
<1>1. layout \in Layouts /\ layout' = layout /\ mem' = mem
  BY DEF MemTypeOK, Load
<1>2. FlatMem' = FlatMem
  BY <1>1, SameLayout
<1>3. n \in Nat \ {0}
  BY GuestMemoryAssumption
<1>4. (p # Nowhere => IsPlace(p, a, n)) /\ (p # Nowhere <=> Flat!Within("load", a, n))
  BY <1>1, GuestPlaceIs
<1>5. CASE p = Nowhere
  <2>1. FlatReply' = Flat!NoReply
    <3>1. reply' = NoReply
      BY <1>5 DEF Load, Refuse
    <3> QED
      BY <3>1, Replies
  <2> QED
    BY <1>2, <1>4, <1>5, <2>1 DEF Flat!Load, Flat!Refused, FlatMem, FlatReply
<1>6. CASE p # Nowhere
  <2>1. Peek(p, n) = Flat!Contents(a, n)
    BY <1>3, <1>4, <1>6, PeekIsContents
  <2>2. FlatReply' = [ok |-> TRUE, bytes |-> Flat!Contents(a, n)]
    <3>1. Answer(TRUE, p, n, Flat!Contents(a, n))
      BY <1>6, <2>1 DEF Load
    <3> QED
      BY <3>1, Replies, Zenon
  <2> QED
    BY <1>2, <1>4, <1>6, <2>2 DEF Flat!Load, Flat!Done, FlatMem, FlatReply
<1> QED
  BY <1>5, <1>6

LEMMA StoreIsFlat ==
  ASSUME MemTypeOK, IsDisjoint, NEW a \in Words, NEW n \in AccessSizes, NEW v \in [1..n -> Byte], Store(a, n, v)
  PROVE  Flat!Store(a, n)
<1> DEFINE p == GuestPlace(a, n, TRUE)
<1>1. layout \in Layouts /\ layout' = layout
  BY DEF MemTypeOK, Store
<1>3. n \in Nat \ {0}
  BY GuestMemoryAssumption
<1>4. (p # Nowhere => IsPlace(p, a, n)) /\ (p # Nowhere <=> Flat!Within("store", a, n))
  BY <1>1, GuestPlaceIs
<1>5. CASE p = Nowhere
  <2>1. FlatReply' = Flat!NoReply
    <3>1. reply' = NoReply
      BY <1>5 DEF Store, Refuse
    <3> QED
      BY <3>1, Replies
  <2>2. FlatMem' = FlatMem
    BY <1>1, <1>5, SameLayout DEF Store
  <2> QED
    BY <1>4, <1>5, <2>1, <2>2 DEF Flat!Store, Flat!Refused, FlatMem, FlatReply
<1>6. CASE p # Nowhere
  <2>1. mem' = Poke(p, v)
    BY <1>6 DEF Store
  <2>2. FlatMem' = Flat!Written(a, v)
    <3>1. IsPlace(p, a, n)
      BY <1>4, <1>6, Zenon
    <3>2. n \in 0..n
      BY <1>3
    <3> HIDE DEF p
    <3> QED
      BY <1>1, <1>3, <2>1, <3>1, <3>2, PokeIsWritten
  <2>3. FlatReply' = [ok |-> TRUE, bytes |-> <<>>]
    <3>1. Answer(TRUE, p, n, <<>>)
      BY <1>6 DEF Store
    <3> QED
      BY <3>1, Replies, Zenon
  <2> QED
    BY <1>4, <1>6, <2>2, <2>3 DEF Flat!Store, Flat!Done, FlatMem, FlatReply
<1> QED
  BY <1>5, <1>6

(* The m packet: the reply is cut to the size of a packet, never to nothing. *)
LEMMA ClampedIs ==
  ASSUME NEW n \in Words, n # 0
  PROVE  Clamped(n) \in 1..n
<1>1. n \in Nat /\ PacketCap \in Nat /\ PacketCap >= 3 /\ n < Word /\ Word \in Nat
  BY GuestMemoryAssumption DEF Words
<1>2. (2 * n) % Word \in Nat /\ (2 * n) % Word <= 2 * n
  <2>1. 2 * n < Word => (2 * n) % Word = 2 * n
    BY <1>1
  <2>2. (2 * n) % Word \in 0..Word - 1
    BY <1>1
  <2> QED
    BY <1>1, <2>1, <2>2
<1>3. CASE ((2 * n) % Word) + 1 > PacketCap
  <2>1. PacketCap <= 2 * n
    BY <1>1, <1>2, <1>3
  <2>2. (PacketCap - 1) \div 2 >= 1 /\ (PacketCap - 1) \div 2 <= n /\ (PacketCap - 1) \div 2 \in Int
    BY <1>1, <2>1
  <2> QED
    BY <1>1, <1>3, <2>2 DEF Clamped
<1>4. CASE ~(((2 * n) % Word) + 1 > PacketCap)
  BY <1>1, <1>4 DEF Clamped
<1> QED
  BY <1>3, <1>4

LEMMA ReadIsFlat ==
  ASSUME MemTypeOK, IsDisjoint, NEW a \in Words, NEW n \in Lengths, Read(a, n)
  PROVE  Flat!Read(a, n)
<1> DEFINE k == Clamped(n)
           p == ClientPlace(a, k)
<1>1. layout \in Layouts /\ layout' = layout /\ mem' = mem
  BY DEF MemTypeOK, Read
<1>2. FlatMem' = FlatMem
  BY <1>1, SameLayout
<1>3. n \in Words /\ n \in Nat
  BY GuestMemoryAssumption DEF Words
<1>4. CASE n = 0 /\ Answer(TRUE, Nowhere, 0, <<>>)
  <2>1. FlatReply' = [ok |-> TRUE, bytes |-> <<>>]
    BY <1>4, Replies, Zenon
  <2> QED
    BY <1>2, <1>4, <2>1 DEF Flat!Read, Flat!Done, FlatMem, FlatReply
<1>5. CASE n # 0
  <2>1. k \in 1..n /\ k \in Nat \ {0}
    BY <1>3, <1>5, ClampedIs
  <2> HIDE DEF k
  <2>2. (p # Nowhere => IsPlace(p, a, k)) /\ (p # Nowhere <=> Flat!Within("read", a, k))
    BY <1>1, <2>1, ClientPlaceIs
  <2>3. CASE p = Nowhere
    <3>1. FlatReply' = Flat!NoReply
      <4>1. reply' = NoReply
        BY <1>5, <2>3 DEF Read, Refuse, Answer, k
      <4> QED
        BY <4>1, Replies
    <3>2. ~Flat!Within("read", a, n)
      BY <1>1, <1>3, <2>1, <2>2, <2>3, WithinIs, LayoutFacts, GuestMemoryAssumption DEF Words, TextEnd, DataEnd
    <3> QED
      BY <1>2, <1>3, <1>5, <3>1, <3>2 DEF Flat!Read, Flat!Refused, FlatMem, FlatReply
  <2>4. CASE p # Nowhere
    <3>1. Peek(p, k) = Flat!Contents(a, k)
      BY <2>1, <2>2, <2>4, PeekIsContents
    <3>2. FlatReply' = [ok |-> TRUE, bytes |-> Flat!Contents(a, k)]
      <4>1. Answer(TRUE, p, k, Flat!Contents(a, k))
        BY <1>5, <2>4, <3>1 DEF Read, k
      <4> QED
        BY <4>1, Replies, Zenon
    <3> QED
      BY <1>2, <2>1, <2>2, <2>4, <3>2 DEF Flat!Read, Flat!Done, FlatMem, FlatReply
  <2> QED
    BY <2>3, <2>4
<1> QED
  BY <1>4, <1>5 DEF Read

(* The M packet: all of it, or what is in front of the first bad digit *)
LEMMA WriteIsFlat ==
  ASSUME MemTypeOK, IsDisjoint, NEW a \in Words, NEW n \in Lengths,
         NEW v \in Sent, NEW bad \in 1..Len(v) + 1, Write(a, n, v, bad)
  PROVE  Flat!Write(a, n)
<1> DEFINE p == ClientPlace(a, n)
           k == IF bad <= n THEN bad - 1 ELSE n
           w == SubSeq(v, 1, k)
           refused == 2 * Len(v) < ((2 * n) % Word) \/ n = 0 \/ p \in {Nowhere, At("text", p.off)}
<1>1. layout \in Layouts /\ layout' = layout
  BY DEF MemTypeOK, Write
<1>2. n \in Nat /\ Word \in Nat /\ n < Word
  BY GuestMemoryAssumption DEF Words
<1>3. CASE refused
  <2>1. FlatReply' = Flat!NoReply
    <3>1. reply' = NoReply
      BY <1>3 DEF Write, Refuse
    <3> QED
      BY <3>1, Replies
  <2>2. FlatMem' = FlatMem
    BY <1>1, <1>3, SameLayout DEF Write
  <2> QED
    BY <2>1, <2>2 DEF Flat!Write, Flat!Refused, FlatMem, FlatReply
<1>4. CASE ~refused
  <2>1. mem' = Poke(p, w) /\ n # 0 /\ FlatReply' = [ok |-> k = n, bytes |-> <<>>]
    <3>1. mem' = Poke(p, w) /\ n # 0 /\ Answer(k = n, p, k, <<>>)
      BY <1>4, Zenon DEF Write
    <3> HIDE DEF p, k, w
    <3> QED
      BY <3>1, Replies
  <2>2. IsPlace(p, a, n) /\ Flat!Within("write", a, n)
    BY <1>1, <1>2, <1>4, ClientPlaceIs
  <2>3. k \in 0..n /\ w \in [1..k -> Byte]
    <3>1. PICK m \in 0..MaxSent : v \in [1..m -> Byte]
      BY DEF Sent
    <3>2. m \in Nat /\ Len(v) = m /\ v \in Seq(Byte)
      BY <3>1 DEF MaxSent
    <3>3. k \in Nat /\ k <= n /\ (bad <= n => k <= m)
      BY <1>2, <3>2
    <3>4. ~(bad <= n) => n <= m
      BY <1>2, <3>2
    <3>5. k <= m
      BY <3>3, <3>4
    <3> HIDE DEF k
    <3>6. w \in Seq(Byte) /\ Len(w) = k
      <4>1. \A i \in 1..k : v[i] \in Byte
        BY <3>2, <3>3, <3>5
      <4> QED
        BY <3>3, <4>1, SubSeqProperties
    <3> HIDE DEF w
    <3>7. w \in [1..k -> Byte]
      BY <3>6
    <3> QED
      BY <3>3, <3>7, <1>2
  <2> HIDE DEF p, k, w
  <2>4. FlatMem' = Flat!Written(a, w)
    BY <1>1, <1>2, <2>1, <2>2, <2>3, PokeIsWritten
  <2>5. CASE k = n
    <3>1. \E x \in [1..n -> Byte] : FlatMem' = Flat!Written(a, x)
      BY <2>3, <2>4, <2>5, Zenon
    <3>2. n > 0 /\ (k = n) = TRUE
      BY <1>2, <2>1, <2>5
    <3> QED
      BY <2>1, <2>2, <3>1, <3>2, Zenon DEF Flat!Write, Flat!Done, FlatMem, FlatReply
  <2>6. CASE k # n
    <3>1. \E j \in 0..n : \E x \in [1..j -> Byte] : FlatMem' = Flat!Written(a, x)
      BY <2>3, <2>4, Zenon
    <3>2. n > 0 /\ (k = n) = FALSE
      BY <1>2, <2>1, <2>6
    <3> QED
      BY <2>1, <2>2, <3>1, <3>2, Zenon DEF Flat!Write, Flat!Refused, Flat!NoReply, FlatMem, FlatReply
  <2> QED
    BY <2>5, <2>6
<1> QED
  BY <1>3, <1>4

(* Every access of the guest or of the client is one of the flat memory. *)
LEMMA AccessIsFlat ==
  ASSUME MemTypeOK, IsDisjoint, NEW a \in Words, Access(a)
  PROVE  Flat!Access(a) /\ layout' = layout
<1>1. ASSUME NEW n \in AccessSizes, Load(a, n) PROVE Flat!Access(a) /\ layout' = layout
  BY <1>1, LoadIsFlat, Zenon DEF Flat!Access, Load
<1>2. ASSUME NEW n \in AccessSizes, NEW v \in [1..n -> Byte], Store(a, n, v)
      PROVE  Flat!Access(a) /\ layout' = layout
  BY <1>2, StoreIsFlat, Zenon DEF Flat!Access, Store
<1>3. ASSUME NEW n \in Lengths, Read(a, n) PROVE Flat!Access(a) /\ layout' = layout
  BY <1>3, ReadIsFlat, Zenon DEF Flat!Access, Read
<1>4. ASSUME NEW n \in Lengths, NEW v \in Sent, NEW bad \in 1..Len(v) + 1, Write(a, n, v, bad)
      PROVE  Flat!Access(a) /\ layout' = layout
  BY <1>4, WriteIsFlat, Zenon DEF Flat!Access, Write
<1> QED
  BY <1>1, <1>2, <1>3, <1>4, Zenon DEF Access

(* In the layouts without an overlap, a program and its debugger are the    *)
(* users of one flat memory: whatever tests find the buffer, the same bytes *)
(* are at the same addresses for both, and every access that the flat       *)
(* memory refuses is refused.                                               *)
THEOREM SpecFlatWhereDisjoint == Spec => FlatWhereDisjoint
<1>1. ASSUME Init PROVE FlatInit
  <2>1. reply.ok = FALSE /\ reply.bytes = <<>>
    BY <1>1 DEF Init, NoReply
  <2> QED
    BY <2>1 DEF FlatInit, Flat!Init, Flat!NoReply
<1>2. ASSUME IInv, [Next]_vars PROVE [FlatStep]_vars
  <2> SUFFICES ASSUME IsDisjoint, Next
               PROVE  [Flat!Next]_(Flat!vars)
    BY <1>2, Zenon DEF FlatStep
  <2>1. CASE Accept
    <3>1. layout' = layout /\ mem' = mem /\ reply' = NoReply
      BY <2>1 DEF Accept, Refuse
    <3>2. OpenRanges' = OpenRanges /\ FlatMem' = FlatMem /\ FlatReply' = Flat!NoReply
      BY <3>1, SameLayout, Replies
    <3>3. CASE FlatReply # Flat!NoReply
      <4>1. Flat!Accept
        BY <3>2, <3>3, Zenon DEF Flat!Accept, Flat!Refused, FlatMem, FlatReply
      <4> QED
        BY <3>2, <4>1, Zenon DEF Flat!Next
    <3>4. CASE FlatReply = Flat!NoReply
      BY <3>2, <3>4 DEF Flat!vars, FlatMem, FlatReply
    <3> QED
      BY <3>3, <3>4
  <2>2. CASE reply = NoReply /\ \E a \in Words : Access(a)
    <3>1. PICK a \in Words : Access(a)
      BY <2>2
    <3>2. Flat!Access(a) /\ layout' = layout
      BY <1>2, <3>1, AccessIsFlat DEF IInv
    <3>3. OpenRanges' = OpenRanges
      BY <3>2, SameLayout
    <3>4. FlatReply = Flat!NoReply
      BY <2>2 DEF NoReply, FlatReply, Flat!NoReply
    <3> QED
      BY <3>2, <3>3, <3>4, Zenon DEF Flat!Next, FlatReply
  <2> QED
    BY <2>1, <2>2 DEF Next
<1> QED
  BY <1>1, <1>2, MemInductive, PTL DEF Spec, FlatWhereDisjoint
=============================================================================
