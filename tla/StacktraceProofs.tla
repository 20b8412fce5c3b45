-------------------------- MODULE StacktraceProofs --------------------------
(***************************************************************************)
(* For every depth, every size of the stack and whatever the guest has     *)
(* left on it: riscv_jit_get_stacktrace reads inside of the stack only,    *)
(* and the trace of a whole chain of frames is its call stack.  And for    *)
(* every table of lines: the line of a frame is that of its row.           *)
(*                                                                         *)
(* The second part runs the programs of the table: what one operation does *)
(* to the registers, what the operations of a row lead to, those of a      *)
(* sequence and of a unit, and what is left after all units.               *)
(***************************************************************************)
EXTENDS Stacktrace, Induction, FiniteSetTheorems

Lower(S, x) == {y \in S : y < x}

(* The order of the numbers, for provers without arithmetic *)
LEMMA Transitive == \A x, y, z \in Nat : /\ ~(x < x) /\ (x < y /\ y < z => x < z)
                                          /\ (x < y \/ x = y \/ y < x) /\ (x <= y <=> ~(y < x))
OBVIOUS

(* There are finitely many below *)
LEMMA LowerIs ==
  ASSUME NEW S, IsFiniteSet(S), NEW x
  PROVE  IsFiniteSet(Lower(S, x)) /\ Cardinality(Lower(S, x)) \in Nat
BY FS_Subset, FS_CardinalityType DEF Lower

(* The higher of two elements has more of them below *)
LEMMA LowerGrows ==
  ASSUME NEW S \in SUBSET Nat, IsFiniteSet(S), NEW x \in S, NEW y \in S, x < y
  PROVE  Cardinality(Lower(S, x)) < Cardinality(Lower(S, y))
<1>0. S \subseteq Nat /\ x \in Nat /\ y \in Nat
  OBVIOUS
<1>1. x \notin Lower(S, x) /\ Lower(S, x) \cup {x} \subseteq Lower(S, y)
  <2>1. ~(x < x) /\ \A w \in S : w < x => w < y
    BY <1>0, Transitive, Zenon
  <2> QED
    BY <2>1 DEF Lower
<1>2. Cardinality(Lower(S, x) \cup {x}) = Cardinality(Lower(S, x)) + 1
  BY <1>1, LowerIs, FS_AddElement
<1>3. Cardinality(Lower(S, x) \cup {x}) <= Cardinality(Lower(S, y))
  BY <1>1, LowerIs, FS_Subset
<1> QED
  BY <1>2, <1>3, LowerIs

(* For every number there is the element with as many below *)
LEMMA LowerAll ==
  ASSUME NEW S \in SUBSET Nat, IsFiniteSet(S), NEW n \in Nat, n < Cardinality(S)
  PROVE  \E x \in S : Cardinality(Lower(S, x)) = n
<1> DEFINE Reached == {i \in Nat : i < Cardinality(S) => \E x \in S : Cardinality(Lower(S, x)) = i}
<1>0. S \subseteq Nat
  OBVIOUS
<1>1. Cardinality(S) \in Nat
  BY FS_CardinalityType
<1>2. 0 \in Reached
  <2> SUFFICES ASSUME 0 < Cardinality(S)
               PROVE  \E x \in S : Cardinality(Lower(S, x)) = 0
    OBVIOUS
  <2>1. S # {}
    BY FS_EmptySet
  <2>2. PICK x \in S : \A y \in S : x <= y
    BY <2>1, LeastElement
  <2>3. Lower(S, x) = {}
    <3>1. \A y \in S : ~(y < x)
      BY <1>0, <2>2, Transitive, Zenon
    <3> QED
      BY <3>1 DEF Lower
  <2> QED
    BY <2>3, FS_EmptySet
<1>3. ASSUME NEW i \in Nat, i \in Reached
      PROVE  i + 1 \in Reached
  <2> SUFFICES ASSUME i + 1 < Cardinality(S)
               PROVE  \E x \in S : Cardinality(Lower(S, x)) = i + 1
    OBVIOUS
  <2>1. PICK x \in S : Cardinality(Lower(S, x)) = i
    BY <1>1, <1>3
  <2>2. Cardinality(Lower(S, x) \cup {x}) = i + 1
    <3>1. x \notin Lower(S, x)
      BY DEF Lower
    <3> QED
      BY <2>1, <3>1, LowerIs, FS_AddElement
  <2> DEFINE Above == {y \in S : x < y}
  <2>3. Above # {}
    <3> SUFFICES ASSUME Above = {}
                 PROVE  FALSE
      OBVIOUS
    <3>1. S = Lower(S, x) \cup {x}
      <4>1. \A y \in S : y < x \/ y = x
        BY <1>0, Transitive, Zenon
      <4> QED
        BY <4>1 DEF Lower
    <3> QED
      BY <1>1, <2>2, <3>1
  <2>4. PICK z \in Above : \A y \in Above : z <= y
    BY <2>3, LeastElement
  <2>5. Lower(S, z) = Lower(S, x) \cup {x}
    <3>1. z \in S /\ x < z /\ \A y \in S : x < y => ~(y < z)
      BY <1>0, <2>4, Transitive, Zenon
    <3>2. \A y \in S : y < z <=> y < x \/ y = x
      BY <1>0, <3>1, Transitive, Zenon
    <3> QED
      BY <3>2 DEF Lower
  <2> QED
    BY <2>2, <2>4, <2>5
<1> HIDE DEF Reached
<1>4. n \in Reached
  BY <1>2, <1>3, SetInduction
<1> QED
  BY <1>4 DEF Reached

(* A set in order: the i-th has i - 1 below it *)
LEMMA AscendingIs ==
  ASSUME NEW S \in SUBSET Nat, IsFiniteSet(S)
  PROVE  LET c == Ascending(S)
         IN /\ Len(c) = Cardinality(S) /\ Len(c) \in Nat /\ DOMAIN c = 1..Len(c)
            /\ \A i \in 1..Len(c) : c[i] \in S /\ Cardinality(Lower(S, c[i])) = i - 1
            /\ \A i, j \in 1..Len(c) : i < j => c[i] < c[j]
<1> DEFINE c == Ascending(S)
<1>0. S \subseteq Nat
  OBVIOUS
<1>1. Cardinality(S) \in Nat
  BY FS_CardinalityType
<1>2. c = [i \in 1..Cardinality(S) |-> CHOOSE x \in S : Cardinality(Lower(S, x)) = i - 1]
  BY DEF Ascending, Lower
<1>3. Len(c) = Cardinality(S) /\ DOMAIN c = 1..Cardinality(S)
  BY <1>1, <1>2
<1> HIDE DEF c
<1>4. ASSUME NEW i \in 1..Cardinality(S)
      PROVE  c[i] \in S /\ Cardinality(Lower(S, c[i])) = i - 1
  <2>1. \E x \in S : Cardinality(Lower(S, x)) = i - 1
    BY <1>1, LowerAll
  <2>2. c[i] = CHOOSE x \in S : Cardinality(Lower(S, x)) = i - 1
    BY <1>2
  <2> QED
    BY <2>1, <2>2
<1>5. ASSUME NEW i \in 1..Cardinality(S), NEW j \in 1..Cardinality(S), i < j
      PROVE  c[i] < c[j]
  <2>1. c[i] \in S /\ c[j] \in S /\ Cardinality(Lower(S, c[i])) < Cardinality(Lower(S, c[j]))
    BY <1>1, <1>4, <1>5
  <2>2. c[i] # c[j] /\ ~(c[j] < c[i])
    <3>1. c[j] < c[i] => Cardinality(Lower(S, c[j])) < Cardinality(Lower(S, c[i]))
      BY <2>1, LowerGrows, Zenon
    <3>2. Cardinality(Lower(S, c[i])) \in Nat /\ Cardinality(Lower(S, c[j])) \in Nat
      BY LowerIs, Zenon
    <3> QED
      BY <2>1, <3>1, <3>2
  <2> QED
    BY <1>0, <2>1, <2>2, Transitive, Zenon
<1> QED
  BY <1>1, <1>3, <1>4, <1>5 DEF c
-----------------------------------------------------------------------------
(* A chain starts at the frame pointer of the guest and climbs inside of    *)
(* the stack.                                                               *)
LEMMA ChainIs ==
  ASSUME guest \in Inputs, NEW c \in Chains
  PROVE  /\ IsFrame(guest.fp) /\ IsChain(c)
         /\ Len(c) \in Nat \ {0} /\ DOMAIN c = 1..Len(c)
         /\ c[1] = guest.fp
         /\ \A i \in 1..Len(c) : c[i] \in guest.fp..StackSize
         /\ \A i, j \in 1..Len(c) : i < j => c[i] < c[j]
<1>0. guest.fp \in Nat /\ StackSize \in Nat
  BY StacktraceAssumption
<1>1. IsFrame(guest.fp) /\ IsChain(c)
  BY DEF Chains
<1>2. PICK s \in SUBSET (guest.fp + 1..StackSize) : c = Ascending({guest.fp} \cup s)
  BY <1>1 DEF Chains
<1> DEFINE S == {guest.fp} \cup s
<1>3. S \subseteq guest.fp..StackSize /\ guest.fp \in S
  <2>1. guest.fp <= StackSize
    BY <1>1 DEF IsFrame
  <2>2. guest.fp + 1..StackSize \subseteq guest.fp..StackSize /\ guest.fp \in guest.fp..StackSize
    BY <1>0, <2>1
  <2> QED
    BY <2>2
<1>4. S \in SUBSET Nat /\ IsFiniteSet(S)
  <2>1. IsFiniteSet(guest.fp..StackSize)
    BY <1>0, FS_Interval
  <2> QED
    BY <1>0, <1>3, <2>1, FS_Subset
<1> HIDE DEF S
<1>5. c = Ascending(S)
  BY <1>2 DEF S
<1>6. /\ Len(c) = Cardinality(S) /\ Len(c) \in Nat /\ DOMAIN c = 1..Len(c)
      /\ \A i \in 1..Len(c) : c[i] \in S /\ Cardinality(Lower(S, c[i])) = i - 1
      /\ \A i, j \in 1..Len(c) : i < j => c[i] < c[j]
  BY <1>4, <1>5, AscendingIs
<1>7. Len(c) # 0
  BY <1>3, <1>4, <1>6, FS_EmptySet
<1>8. c[1] = guest.fp
  <2>1. c[1] \in S /\ Cardinality(Lower(S, c[1])) = 0
    BY <1>6, <1>7
  <2>2. Lower(S, c[1]) = {}
    BY <1>4, <2>1, LowerIs, FS_EmptySet
  <2>3. ~(guest.fp < c[1])
    BY <1>3, <2>2 DEF Lower
  <2>4. c[1] \in guest.fp..StackSize
    BY <1>3, <2>1
  <2> QED
    BY <1>0, <2>3, <2>4
<1> QED
  BY <1>1, <1>3, <1>6, <1>7, <1>8

(* The words of the stack that a chain lies in *)
LEMMA ChainWords ==
  ASSUME guest \in Inputs, NEW c \in Chains, NEW i \in 1..Len(c)
  PROVE  /\ IsFrame(c[i])
         /\ Word(c[i] - 1) = At(c[i] - 1) /\ Word(c[i] - 2) = At(c[i] - 2)
<1>1. guest.fp \in Nat /\ StackSize \in Nat /\ DOMAIN guest.stack = 0..StackSize - 1
  BY StacktraceAssumption
<1>2. IsFrame(guest.fp) /\ c[i] \in guest.fp..StackSize
  BY ChainIs
<1> QED
  BY <1>1, <1>2 DEF IsFrame, LinkSize, Word, At

(* A word read from the stack is a number *)
LEMMA WordIs ==
  ASSUME guest \in Inputs, NEW k \in Int
  PROVE  Word(k) \in Nat
BY StacktraceAssumption DEF Word

(* ... and so is the address before a return address *)
LEMMA AfterModulo == \A w \in Nat : (w - InstrBytes) % AddressEnd \in Nat
BY StacktraceAssumption DEF InstrBytes

(* The call stack of a chain has one address for every frame *)
LEMMA CallStackIs ==
  ASSUME guest \in Inputs, NEW c \in Chains
  PROVE  /\ Len(CallStack(c)) = Len(c) /\ CallStack(c) \in Seq(Nat)
         /\ CallStack(c)[1] = guest.pc
         /\ \A i \in 1..Len(c) - 1 :
              CallStack(c)[i + 1] = (At(c[i] - 1) - InstrBytes) % AddressEnd
<1> DEFINE callers == [i \in 1..Len(c) - 1 |-> (At(c[i] - 1) - InstrBytes) % AddressEnd]
<1>1. Len(c) \in Nat \ {0}
  BY ChainIs
<1>2. ASSUME NEW i \in 1..Len(c) - 1
      PROVE  (At(c[i] - 1) - InstrBytes) % AddressEnd \in Nat
  <2>1. At(c[i] - 1) = Word(c[i] - 1) /\ c[i] \in Int
    <3>1. i \in 1..Len(c) /\ guest.fp \in Nat /\ StackSize \in Nat
      BY <1>1, StacktraceAssumption
    <3> QED
      <4>1. c[i] \in guest.fp..StackSize
        BY <3>1, ChainIs
      <4>2. At(c[i] - 1) = Word(c[i] - 1)
        BY <3>1, ChainWords
      <4> QED
        BY <3>1, <4>1, <4>2
  <2>2. c[i] - 1 \in Int
    BY <2>1
  <2>3. At(c[i] - 1) \in Nat
    BY <2>1, <2>2, WordIs, Zenon
  <2> QED
    BY <2>3, AfterModulo, Zenon
<1>3. callers \in Seq(Nat) /\ Len(callers) = Len(c) - 1
  BY <1>1, <1>2
<1>4. guest.pc \in Nat
  BY StacktraceAssumption
<1>5. <<guest.pc>> \in Seq(Nat) /\ Len(<<guest.pc>>) = 1
  BY <1>4
<1>6. CallStack(c) = <<guest.pc>> \o callers
  BY DEF CallStack
<1>7. \A i \in 1..Len(c) - 1 : callers[i] = (At(c[i] - 1) - InstrBytes) % AddressEnd
  OBVIOUS
<1> HIDE DEF callers
<1>8. Len(CallStack(c)) = Len(c) /\ CallStack(c) \in Seq(Nat) /\ CallStack(c)[1] = guest.pc
  BY <1>1, <1>3, <1>4, <1>5, <1>6
<1>9. \A i \in 1..Len(c) - 1 : CallStack(c)[i + 1] = callers[i]
  BY <1>1, <1>3, <1>4, <1>5, <1>6
<1> QED
  BY <1>7, <1>8, <1>9
-----------------------------------------------------------------------------
FrameAt(g, p) == [pc |-> p, func |-> LookupFunc(Syms, p), loc |-> LookupPc(g.lines, p)]
Frames == {FrameAt(g, p) : g \in Inputs, p \in Nat}

StackTypeOK ==
  /\ guest \in Inputs
  /\ pc \in Nat /\ fp \in Nat
  /\ trace \in Seq(Frames) /\ Len(trace) <= MaxDepth
  /\ reads \subseteq 0..StackSize - 1
  /\ done \in BOOLEAN

(* The frames found so far are the first of the call stack *)
Begins(t, stack) == \A i \in 1..Len(t) : t[i].pc = stack[i]

(* While it walks, it stands on the frame after those it has reported; and  *)
(* it stops at the last one or when it has reported enough.                 *)
OnChain(c, n) == n < Len(c) /\ fp = c[n + 1] /\ pc = CallStack(c)[n + 1]
Whole(c, n) == n <= Len(c) /\ (n = Len(c) \/ n = MaxDepth)

WalkInv ==
  \A c \in Chains : /\ Begins(trace, CallStack(c))
                    /\ ~done => OnChain(c, Len(trace))
                    /\ done => Whole(c, Len(trace))

StackInv == StackTypeOK /\ WalkInv

(* The walk starts at the registers *)
LEMMA InitStack == Init => StackInv
<1> SUFFICES ASSUME Init
             PROVE  StackInv
  OBVIOUS
<1>1. guest \in Inputs /\ guest.pc \in Nat /\ guest.fp \in Nat
  BY StacktraceAssumption DEF Init
<1>2. StackTypeOK
  <2>1. trace = <<>> /\ pc = guest.pc /\ fp = guest.fp /\ reads = {} /\ done = FALSE
    BY DEF Init
  <2>2. trace \in Seq(Frames) /\ Len(trace) = 0 /\ 0 <= MaxDepth
    <3> HIDE DEF Frames
    <3> QED
      BY <2>1, StacktraceAssumption
  <2> QED
    BY <1>1, <2>1, <2>2 DEF StackTypeOK
<1>3. ASSUME NEW c \in Chains
      PROVE  Begins(trace, CallStack(c)) /\ OnChain(c, Len(trace)) /\ ~done
  <2>1. Len(c) \in Nat \ {0} /\ c[1] = guest.fp
    BY <1>1, ChainIs
  <2>2. CallStack(c)[1] = guest.pc
    BY <1>1, CallStackIs
  <2>3. trace = <<>> /\ fp = guest.fp /\ pc = guest.pc /\ ~done
    BY DEF Init
  <2>4. Len(trace) = 0
    BY <2>3
  <2> QED
    BY <2>1, <2>2, <2>3, <2>4 DEF Begins, OnChain
<1> QED
  BY <1>2, <1>3 DEF StackInv, WalkInv

(* The trace after a frame has been added *)
LEMMA PushFrameIs ==
  ASSUME StackTypeOK, PushFrame
  PROVE  /\ guest' = guest /\ guest' \in Inputs /\ ~done
         /\ trace' \in Seq(Frames) /\ Len(trace') = Len(trace) + 1 /\ Len(trace') <= MaxDepth
         /\ trace'[Len(trace) + 1].pc = pc
         /\ \A i \in 1..Len(trace) : trace'[i] = trace[i]
<1>1. trace' = Append(trace, FrameAt(guest, pc)) /\ guest' = guest /\ ~done /\ Len(trace) < MaxDepth
  BY DEF PushFrame, FrameAt
<1>2. FrameAt(guest, pc) \in Frames
  BY DEF Frames, StackTypeOK
<1>3. FrameAt(guest, pc).pc = pc
  BY DEF FrameAt
<1> HIDE DEF FrameAt, Frames
<1>4. trace \in Seq(Frames) /\ guest \in Inputs
  BY DEF StackTypeOK
<1>5. trace' \in Seq(Frames) /\ Len(trace') = Len(trace) + 1 /\ trace'[Len(trace) + 1] = FrameAt(guest, pc)
  BY <1>1, <1>2, <1>4
<1>6. \A i \in 1..Len(trace) : trace'[i] = trace[i]
  BY <1>1, <1>2, <1>4
<1>7. Len(trace') <= MaxDepth
  BY <1>1, <1>4, <1>5, StacktraceAssumption
<1> QED
  BY <1>1, <1>3, <1>4, <1>5, <1>6, <1>7

(* A frame lies inside of the stack *)
LEMMA FrameWords ==
  ASSUME fp \in Nat, IsFrame(fp), reads \subseteq 0..StackSize - 1, Reads
  PROVE  reads' \subseteq 0..StackSize - 1
BY StacktraceAssumption DEF IsFrame, LinkSize, Reads

(* Types *)
LEMMA StackTypeStep == StackTypeOK /\ [Next]_vars => StackTypeOK'
<1> SUFFICES ASSUME StackTypeOK, [Next]_vars
             PROVE  StackTypeOK'
  OBVIOUS
<1> USE DEF StackTypeOK
<1>1. CASE NoFrame
  BY <1>1, PushFrameIs DEF NoFrame
<1>2. CASE Outermost
  BY <1>2, PushFrameIs, FrameWords DEF Outermost
<1>a. CallerPc \in Nat /\ Previous \in Nat
  <2>1. fp - 1 \in Int /\ fp - 2 \in Int
    OBVIOUS
  <2>2. ReturnAddress \in Nat /\ Previous \in Nat
    BY <2>1, WordIs DEF ReturnAddress, Previous
  <2> QED
    BY <2>2, AfterModulo DEF CallerPc
<1>3. CASE EndOfChain
  BY <1>3, <1>a, PushFrameIs, FrameWords DEF EndOfChain
<1>4. CASE Follow
  BY <1>4, <1>a, PushFrameIs, FrameWords DEF Follow
<1>5. CASE DepthReached
  BY <1>5 DEF DepthReached
<1>6. CASE UNCHANGED vars
  BY <1>6 DEF vars
<1> QED
  BY <1>1, <1>2, <1>3, <1>4, <1>5, <1>6 DEF Next

(* What the walk finds in the frame it stands on *)
LEMMA OnChainIs ==
  ASSUME StackTypeOK, NEW c \in Chains, OnChain(c, Len(trace))
  PROVE  LET n == Len(trace) + 1
         IN /\ n \in 1..Len(c) /\ fp = c[n] /\ IsFrame(fp)
            /\ n = Len(c) => ReturnAddress = 0
            /\ n < Len(c) => /\ ReturnAddress # 0 /\ Previous = c[n + 1] /\ Continues
                             /\ CallerPc = CallStack(c)[n + 1]
<1> DEFINE n == Len(trace) + 1
<1>1. guest \in Inputs /\ Len(trace) \in Nat /\ Len(c) \in Nat
  BY ChainIs DEF StackTypeOK
<1>2. n \in 1..Len(c) /\ fp = c[n] /\ n \in Nat
  BY <1>1 DEF OnChain
<1> HIDE DEF n
<1>3. IsFrame(fp) /\ ReturnAddress = At(c[n] - 1) /\ Previous = At(c[n] - 2)
  BY <1>1, <1>2, ChainWords DEF ReturnAddress, Previous
<1>4. IsChain(c)
  BY <1>1, ChainIs
<1>5. n = Len(c) => ReturnAddress = 0
  BY <1>3, <1>4 DEF IsChain
<1>6. ASSUME n < Len(c)
      PROVE  /\ ReturnAddress # 0 /\ Previous = c[n + 1] /\ Continues
             /\ CallerPc = CallStack(c)[n + 1]
  <2>1. n \in 1..Len(c) - 1 /\ n + 1 \in 1..Len(c)
    BY <1>1, <1>2, <1>6
  <2>2. ReturnAddress # 0 /\ Previous = c[n + 1]
    BY <1>3, <1>4, <2>1 DEF IsChain
  <2>3. CallerPc = CallStack(c)[n + 1]
    BY <1>1, <1>3, <2>1, CallStackIs DEF CallerPc
  <2>4. c[n] < c[n + 1] /\ c[n + 1] \in guest.fp..StackSize /\ guest.fp \in Nat /\ StackSize \in Nat
    <3>1. \A i, j \in 1..Len(c) : i < j => c[i] < c[j]
      BY <1>1, ChainIs
    <3>2. \A i \in 1..Len(c) : c[i] \in guest.fp..StackSize
      BY <1>1, ChainIs
    <3> QED
      BY <1>1, <1>2, <2>1, <3>1, <3>2, StacktraceAssumption
  <2>5. IsFrame(guest.fp)
    BY <1>1, ChainIs
  <2>6. Continues
    BY <1>2, <2>2, <2>4, <2>5 DEF Continues, IsFrame, LinkSize
  <2> QED
    BY <2>2, <2>3, <2>6
<1> QED
  BY <1>2, <1>3, <1>5, <1>6 DEF n

(* The stack does not change under the walk *)
LEMMA ChainsStay ==
  ASSUME guest' = guest
  PROVE  Chains' = Chains /\ \A c : CallStack(c)' = CallStack(c)
BY DEF Chains, CallStack, IsChain, At

(* Each step goes on to the next frame of the chain, or ends *)
LEMMA WalkStep == StackInv /\ [Next]_vars => WalkInv'
<1> SUFFICES ASSUME StackInv, [Next]_vars
             PROVE  WalkInv'
  OBVIOUS
<1>1. guest' = guest
  BY DEF Next, NoFrame, Outermost, EndOfChain, Follow, DepthReached, PushFrame, vars
<1>2. Chains' = Chains /\ \A c : CallStack(c)' = CallStack(c)
  BY <1>1, ChainsStay
<1> SUFFICES ASSUME NEW c \in Chains
             PROVE  /\ Begins(trace', CallStack(c))
                    /\ ~done' => /\ Len(trace') < Len(c) /\ fp' = c[Len(trace') + 1]
                                 /\ pc' = CallStack(c)[Len(trace') + 1]
                    /\ done' => Whole(c, Len(trace'))
  BY <1>2 DEF WalkInv, OnChain, Whole
<1>3. /\ StackTypeOK /\ Begins(trace, CallStack(c))
      /\ ~done => OnChain(c, Len(trace))
      /\ done => Whole(c, Len(trace))
  BY DEF StackInv, WalkInv
<1>4. Len(trace) \in Nat /\ Len(c) \in Nat /\ Len(trace) <= MaxDepth /\ MaxDepth \in Nat
  <2>1. guest \in Inputs /\ trace \in Seq(Frames) /\ Len(trace) <= MaxDepth
    BY <1>3 DEF StackTypeOK
  <2>2. Len(c) \in Nat
    BY <2>1, ChainIs
  <2> HIDE DEF Frames
  <2> QED
    BY <2>1, <2>2, StacktraceAssumption
<1> DEFINE n == Len(trace) + 1
<1>5. ASSUME PushFrame
      PROVE  /\ Begins(trace', CallStack(c)) /\ Len(trace') = n /\ ~done
             /\ n \in 1..Len(c) /\ IsFrame(fp)
             /\ n = Len(c) => ReturnAddress = 0
             /\ n < Len(c) => /\ ReturnAddress # 0 /\ Previous = c[n + 1] /\ Continues
                              /\ CallerPc = CallStack(c)[n + 1]
  <2>1. /\ ~done /\ Len(trace') = n /\ trace'[n].pc = pc
        /\ \A i \in 1..Len(trace) : trace'[i] = trace[i]
    BY <1>3, <1>5, PushFrameIs
  <2>2. OnChain(c, Len(trace))
    BY <1>3, <2>1
  <2>3. pc = CallStack(c)[n]
    BY <2>2 DEF OnChain
  <2>4. Begins(trace', CallStack(c))
    <3> SUFFICES ASSUME NEW i \in 1..n
                 PROVE  trace'[i].pc = CallStack(c)[i]
      BY <2>1 DEF Begins
    <3>1. CASE i = n
      BY <2>1, <2>3, <3>1
    <3>2. CASE i # n
      <4>1. i \in 1..Len(trace)
        BY <1>4, <3>2
      <4> QED
        BY <1>3, <2>1, <4>1 DEF Begins
    <3> QED
      BY <3>1, <3>2
  <2> QED
    BY <1>3, <2>1, <2>2, <2>4, OnChainIs
<1> HIDE DEF n
<1>6. CASE NoFrame
  BY <1>5, <1>6 DEF NoFrame
<1>7. CASE Outermost
  <2>1. PushFrame /\ ReturnAddress = 0 /\ done'
    BY <1>7 DEF Outermost
  <2>2. n = Len(c)
    BY <1>4, <1>5, <2>1
  <2> QED
    BY <1>4, <1>5, <2>1, <2>2 DEF Whole
<1>8. CASE EndOfChain
  <2>1. PushFrame /\ ReturnAddress # 0 /\ ~Continues
    BY <1>8 DEF EndOfChain
  <2> QED
    BY <1>4, <1>5, <2>1
<1>9. CASE Follow
  <2>1. PushFrame /\ ReturnAddress # 0 /\ done' = done /\ fp' = Previous /\ pc' = CallerPc
    BY <1>9 DEF Follow
  <2>2. n < Len(c)
    BY <1>4, <1>5, <2>1
  <2> QED
    BY <1>5, <2>1, <2>2
<1>10. CASE DepthReached
  <2>1. ~done /\ done' /\ Len(trace) = MaxDepth /\ trace' = trace
    BY <1>10 DEF DepthReached
  <2> QED
    BY <1>3, <1>4, <2>1 DEF Whole, OnChain
<1>11. CASE UNCHANGED vars
  BY <1>3, <1>11 DEF vars, OnChain
<1> QED
  BY <1>6, <1>7, <1>8, <1>9, <1>10, <1>11 DEF Next

(* The walk never leaves the stack of a guest, and it stands on the call    *)
(* stack of every whole chain.                                              *)
THEOREM SpecStackInv == Spec => []StackInv
<1>1. StackInv /\ [Next]_vars => StackInv'
  BY StackTypeStep, WalkStep DEF StackInv
<1> QED
  BY InitStack, <1>1, PTL DEF Spec

(* The shorter of two lengths *)
LEMMA MinOfTwo ==
  ASSUME NEW a \in Nat, NEW b \in Nat
  PROVE  Min({a, b}) = IF a <= b THEN a ELSE b
BY DEF Min

(* At the end of the walk the trace is whole *)
LEMMA StackInvImplies == StackInv => TraceIsTheCallStack
<1> SUFFICES ASSUME StackInv
             PROVE  TraceIsTheCallStack
  OBVIOUS
<1>1. /\ guest \in Inputs /\ trace \in Seq(Frames) /\ Len(trace) <= MaxDepth
      /\ reads \subseteq 0..StackSize - 1
  BY DEF StackInv, StackTypeOK
<1>2. ASSUME done, NEW c \in Chains
      PROVE  Pcs = SubSeq(CallStack(c), 1, Min({MaxDepth, Len(c)}))
  <2>1. Begins(trace, CallStack(c)) /\ Whole(c, Len(trace))
    BY <1>2 DEF StackInv, WalkInv
  <2>2. Len(trace) \in Nat /\ Len(c) \in Nat /\ MaxDepth \in Nat /\ DOMAIN trace = 1..Len(trace)
    <3>1. Len(c) \in Nat
      BY <1>1, ChainIs
    <3> HIDE DEF Frames
    <3> QED
      BY <1>1, <3>1, StacktraceAssumption
  <2>3. Min({MaxDepth, Len(c)}) = Len(trace)
    BY <1>1, <2>1, <2>2, MinOfTwo DEF Whole
  <2>4. Pcs = [i \in 1..Len(trace) |-> CallStack(c)[i]]
    BY <2>1, <2>2 DEF Pcs, Begins
  <2>5. CallStack(c) \in Seq(Nat) /\ Len(trace) <= Len(CallStack(c))
    BY <1>1, <2>1, CallStackIs DEF Whole
  <2>6. SubSeq(CallStack(c), 1, Len(trace)) = [i \in 1..Len(trace) |-> CallStack(c)[i]]
    BY <2>2, <2>5
  <2> QED
    BY <2>3, <2>4, <2>6
<1> QED
  BY <1>1, <1>2 DEF TraceIsTheCallStack

(* Whatever the guest has left on its stack and in its registers, of a     *)
(* stack of any size: riscv_jit_get_stacktrace reads inside of the stack,  *)
(* and of a whole chain of frames it gives the call stack, innermost       *)
(* first, up to the depth there is room for.                               *)
THEOREM SpecTraceIsTheCallStack == Spec => []TraceIsTheCallStack
BY SpecStackInv, StackInvImplies, PTL
-----------------------------------------------------------------------------
Match == [diff : Int, unit : STRING \cup {"none"}, file : Int, line : Int]
Machine == [addr : Int, file : Int, line : Int, ended : BOOLEAN, best : Match]
OpNames == {"special", "copy", "end_sequence", "set_address", "advance_pc", "advance_line", "set_file",
            "const_add_pc", "fixed_advance", "skip"}
LineOps == [op : OpNames, arg : Int]
Registers(best) == [addr |-> 0, file |-> 1, line |-> 1, ended |-> FALSE, best |-> best]

Advance(u, t, m, o) == IF m.ended THEN m ELSE Perform(u, t, m, o)
IsExec(f, u, t, s, ops) ==
  f = [n \in 0..Len(ops) |-> IF n = 0 THEN s ELSE Advance(u, t, f[n - 1], ops[n])]
Steps(u, t, s, ops) == CHOOSE f : IsExec(f, u, t, s, ops)
Exec(u, t, s, ops) == Steps(u, t, s, ops)[Len(ops)]

(* The numbers and the name of a unit *)
LEMMA UnitIs ==
  ASSUME NEW u, IsUnit(u)
  PROVE  /\ u.name \in STRING /\ u.files \in Nat /\ u.minInstrLen = 1
         /\ u.lineBase \in Int /\ u.lineRange \in Nat \ {0} /\ u.opcodeBase \in 1..255
BY DEF IsUnit, MaxSpecialOpcode

(* Remembering a row keeps the registers well-formed *)
LEMMA RememberType ==
  ASSUME NEW u, IsUnit(u), NEW t \in Nat, NEW m \in Machine
  PROVE  Remember(u, t, m) \in Machine
<1>1. CASE m.addr > t \/ t - m.addr >= m.best.diff \/ m.file > u.files
  BY <1>1 DEF Remember
<1>2. CASE ~(m.addr > t \/ t - m.addr >= m.best.diff \/ m.file > u.files)
  <2> DEFINE b == [diff |-> t - m.addr, unit |-> u.name, file |-> m.file, line |-> m.line]
  <2>1. b \in Match
    BY UnitIs DEF Match, Machine
  <2>2. Remember(u, t, m) = [m EXCEPT !.best = b]
    BY <1>2 DEF Remember
  <2> HIDE DEF b
  <2> QED
    BY <2>1, <2>2 DEF Machine
<1> QED
  BY <1>1, <1>2

(* So does every operation *)
LEMMA AdvanceType ==
  ASSUME NEW u, IsUnit(u), NEW t \in Nat, NEW m \in Machine, NEW o \in LineOps
  PROVE  Advance(u, t, m, o) \in Machine
<1>1. CASE m.ended
  BY <1>1 DEF Advance
<1>2. CASE ~m.ended
  <2>1. Advance(u, t, m, o) = Perform(u, t, m, o)
    BY <1>2 DEF Advance
  <2>2. /\ u.lineBase \in Int /\ u.lineRange \in Nat \ {0} /\ u.opcodeBase \in Int /\ u.minInstrLen = 1
        /\ o.arg \in Int
    BY UnitIs DEF LineOps
  <2>3. /\ o.arg % u.lineRange \in Int /\ o.arg \div u.lineRange \in Int
        /\ (MaxSpecialOpcode - u.opcodeBase) \div u.lineRange \in Int
    BY <2>2 DEF MaxSpecialOpcode
  <2>4. CASE o.op = "special"
    <3> DEFINE n == [m EXCEPT !.line = @ + u.lineBase + (o.arg % u.lineRange),
                              !.addr = @ + (o.arg \div u.lineRange) * u.minInstrLen]
    <3>1. n \in Machine
      <4>1. (o.arg \div u.lineRange) * u.minInstrLen = o.arg \div u.lineRange
        BY <2>2, <2>3
      <4> DEFINE q == o.arg \div u.lineRange
                 r == o.arg % u.lineRange
      <4>2. n = [m EXCEPT !.line = @ + u.lineBase + r, !.addr = @ + q] /\ q \in Int /\ r \in Int
        BY <2>3, <4>1
      <4> HIDE DEF n, q, r
      <4> QED
        <5>1. m.addr + q \in Int /\ m.line + u.lineBase + r \in Int
          BY <2>2, <4>2 DEF Machine
        <5>2. n = [[m EXCEPT !.line = m.line + u.lineBase + r] EXCEPT !.addr = m.addr + q]
          BY <4>2 DEF Machine
        <5> QED
          BY <5>1, <5>2 DEF Machine
    <3>2. Perform(u, t, m, o) = Remember(u, t, n)
      BY <2>4 DEF Perform
    <3> HIDE DEF n
    <3> QED
      BY <2>1, <3>1, <3>2, RememberType
  <2>5. CASE o.op = "copy"
    BY <2>1, <2>5, RememberType DEF Perform
  <2>6. CASE o.op = "end_sequence"
    <3>1. Perform(u, t, m, o) = [Remember(u, t, m) EXCEPT !.ended = TRUE]
      BY <2>6 DEF Perform
    <3>2. Remember(u, t, m) \in Machine
      BY RememberType
    <3> QED
      BY <2>1, <3>1, <3>2 DEF Machine
  <2>7. CASE o.op = "set_address"
    BY <2>1, <2>2, <2>7 DEF Perform, Machine
  <2>8. CASE o.op = "advance_pc"
    BY <2>1, <2>2, <2>8 DEF Perform, Machine
  <2>9. CASE o.op = "advance_line"
    BY <2>1, <2>2, <2>9 DEF Perform, Machine
  <2>10. CASE o.op = "set_file"
    BY <2>1, <2>2, <2>10 DEF Perform, Machine
  <2>11. CASE o.op = "const_add_pc"
    BY <2>1, <2>2, <2>3, <2>11 DEF Perform, Machine
  <2>12. CASE o.op = "fixed_advance"
    BY <2>1, <2>2, <2>12 DEF Perform, Machine
  <2>13. CASE o.op = "skip"
    BY <2>1, <2>13 DEF Perform
  <2> QED
    BY <2>4, <2>5, <2>6, <2>7, <2>8, <2>9, <2>10, <2>11, <2>12, <2>13 DEF LineOps, OpNames
<1> QED
  BY <1>1, <1>2

(* The registers after each operation *)
LEMMA StepsAre ==
  ASSUME NEW u, IsUnit(u), NEW t \in Nat, NEW s \in Machine, NEW ops \in Seq(LineOps)
  PROVE  /\ Steps(u, t, s, ops) \in [0..Len(ops) -> Machine]
         /\ Steps(u, t, s, ops)[0] = s
         /\ \A n \in 1..Len(ops) : Steps(u, t, s, ops)[n] = Advance(u, t, Steps(u, t, s, ops)[n - 1], ops[n])
<1> DEFINE step == [n \in Nat |-> [m \in Machine |-> IF n < Len(ops) THEN Advance(u, t, m, ops[n + 1]) ELSE m]]
<1>1. \A n \in Nat, m \in Machine : n < Len(ops) => Advance(u, t, m, ops[n + 1]) \in Machine
  <2> SUFFICES ASSUME NEW n \in Nat, NEW m \in Machine, n < Len(ops)
               PROVE  Advance(u, t, m, ops[n + 1]) \in Machine
    OBVIOUS
  <2>1. ops[n + 1] \in LineOps
    <3> HIDE DEF LineOps
    <3> QED
      OBVIOUS
  <2> QED
    BY <2>1, AdvanceType
<1> HIDE DEF Machine, LineOps, Advance
<1>2. step \in Stepping(Machine)
  BY <1>1 DEF Stepping
<1>3. \A n \in Nat, m \in Machine : n < Len(ops) => step[n][m] = Advance(u, t, m, ops[n + 1])
  OBVIOUS
<1> HIDE DEF step
<1>4. PICK g : Recurs(g, Machine, s, step)
  BY <1>2, Recursion, Zenon
<1> DEFINE f == [n \in 0..Len(ops) |-> g[n]]
<1>5. g \in [Nat -> Machine] /\ g[0] = s /\ Len(ops) \in Nat
  BY <1>4 DEF Recurs
<1>6. f \in [0..Len(ops) -> Machine] /\ f[0] = s
  BY <1>5
<1>7. ASSUME NEW n \in 1..Len(ops)
      PROVE  f[n] = Advance(u, t, f[n - 1], ops[n])
  <2>1. n - 1 \in Nat /\ n - 1 < Len(ops) /\ (n - 1) + 1 = n /\ n \in 0..Len(ops) /\ n - 1 \in 0..Len(ops)
    BY <1>5
  <2>2. g[n] = step[n - 1][g[n - 1]] /\ g[n - 1] \in Machine
    BY <1>4, <1>5, <2>1 DEF Recurs
  <2>3. g[n] = Advance(u, t, g[n - 1], ops[n])
    BY <1>3, <2>1, <2>2
  <2> QED
    BY <2>1, <2>3
<1> HIDE DEF f
<1>8. IsExec(f, u, t, s, ops)
  <2>1. f = [n \in 0..Len(ops) |-> f[n]]
    BY <1>6
  <2>2. \A n \in 0..Len(ops) : f[n] = IF n = 0 THEN s ELSE Advance(u, t, f[n - 1], ops[n])
    BY <1>5, <1>6, <1>7
  <2> QED
    BY <2>1, <2>2 DEF IsExec
<1> DEFINE h == Steps(u, t, s, ops)
<1>9. IsExec(h, u, t, s, ops)
  BY <1>8, Zenon DEF Steps
<1> HIDE DEF h
<1>10. DOMAIN h = 0..Len(ops) /\ h = [n \in 0..Len(ops) |-> h[n]] /\ h[0] = s
       /\ \A n \in 1..Len(ops) : h[n] = Advance(u, t, h[n - 1], ops[n])
  BY <1>5, <1>9 DEF IsExec
<1>11. \A n \in 0..Len(ops) : h[n] \in Machine
  <2> DEFINE Typed == {n \in Nat : n <= Len(ops) => h[n] \in Machine}
  <2>1. 0 \in Typed
    BY <1>10
  <2>2. ASSUME NEW n \in Nat, n \in Typed
        PROVE  n + 1 \in Typed
    <3> SUFFICES ASSUME n + 1 <= Len(ops)
                 PROVE  h[n + 1] \in Machine
      OBVIOUS
    <3>1. n + 1 \in 1..Len(ops) /\ (n + 1) - 1 = n /\ n < Len(ops) /\ n <= Len(ops)
      BY <1>5
    <3>2. h[n + 1] = Advance(u, t, h[n], ops[n + 1])
      BY <1>10, <3>1
    <3> QED
      BY <1>1, <2>2, <3>1, <3>2
  <2> HIDE DEF Typed
  <2>3. Nat \subseteq Typed
    BY <2>1, <2>2, SetInduction
  <2> QED
    BY <1>5, <2>3 DEF Typed
<1> QED
  BY <1>10, <1>11 DEF h

(* Two programs one after the other *)
LEMMA ExecConcat ==
  ASSUME NEW u, IsUnit(u), NEW t \in Nat, NEW s \in Machine, NEW a \in Seq(LineOps), NEW b \in Seq(LineOps)
  PROVE  /\ Exec(u, t, s, a) \in Machine
         /\ Exec(u, t, s, a \o b) = Exec(u, t, Exec(u, t, s, a), b)
<1> HIDE DEF Machine, LineOps, Advance
<1> DEFINE ab == a \o b
           f == Steps(u, t, s, a)
           h == Steps(u, t, s, ab)
           g == Steps(u, t, f[Len(a)], b)
<1>0. /\ ab \in Seq(LineOps) /\ Len(ab) = Len(a) + Len(b) /\ Len(a) \in Nat /\ Len(b) \in Nat
      /\ \A n \in 1..Len(a) : ab[n] = a[n]
      /\ \A n \in 1..Len(b) : ab[Len(a) + n] = b[n]
  OBVIOUS
<1> HIDE DEF ab
<1>1. /\ f \in [0..Len(a) -> Machine] /\ f[0] = s
      /\ \A n \in 1..Len(a) : f[n] = Advance(u, t, f[n - 1], a[n])
  BY StepsAre
<1>2. f[Len(a)] \in Machine
  <2> HIDE DEF f
  <2> QED
    BY <1>0, <1>1
<1>3. /\ g[0] = f[Len(a)] /\ \A n \in 1..Len(b) : g[n] = Advance(u, t, g[n - 1], b[n])
  <2> HIDE DEF f
  <2> QED
    BY <1>2, StepsAre
<1>4. /\ h[0] = s
      /\ \A n \in 1..Len(a) + Len(b) : h[n] = Advance(u, t, h[n - 1], ab[n])
  <2>0. ab \in Seq(LineOps)
    BY <1>0
  <2>1. h[0] = s /\ \A n \in 1..Len(ab) : h[n] = Advance(u, t, h[n - 1], ab[n])
    BY <2>0, StepsAre
  <2> HIDE DEF h
  <2> QED
    BY <1>0, <2>1
<1> HIDE DEF f, g, h
<1>5. h[Len(a)] = f[Len(a)]
  <2> DEFINE Same == {n \in Nat : n <= Len(a) => h[n] = f[n]}
  <2>1. 0 \in Same
    BY <1>1, <1>4
  <2>2. ASSUME NEW n \in Nat, n \in Same
        PROVE  n + 1 \in Same
    <3> SUFFICES ASSUME n + 1 <= Len(a)
                 PROVE  h[n + 1] = f[n + 1]
      OBVIOUS
    <3>1. n + 1 \in 1..Len(a) /\ n + 1 \in 1..Len(a) + Len(b) /\ (n + 1) - 1 = n /\ n <= Len(a)
      BY <1>0
    <3>2. h[n + 1] = Advance(u, t, h[n], a[n + 1]) /\ f[n + 1] = Advance(u, t, f[n], a[n + 1])
      BY <1>0, <1>1, <1>4, <3>1
    <3> QED
      BY <2>2, <3>1, <3>2
  <2> HIDE DEF Same
  <2>3. Nat \subseteq Same
    BY <2>1, <2>2, SetInduction
  <2> QED
    BY <1>0, <2>3 DEF Same
<1>6. h[Len(a) + Len(b)] = g[Len(b)]
  <2> DEFINE Same == {n \in Nat : n <= Len(b) => h[Len(a) + n] = g[n]}
  <2>1. 0 \in Same
    BY <1>0, <1>3, <1>5
  <2>2. ASSUME NEW n \in Nat, n \in Same
        PROVE  n + 1 \in Same
    <3> SUFFICES ASSUME n + 1 <= Len(b)
                 PROVE  h[Len(a) + (n + 1)] = g[n + 1]
      OBVIOUS
    <3>1. /\ n + 1 \in 1..Len(b) /\ Len(a) + (n + 1) \in 1..Len(a) + Len(b) /\ (n + 1) - 1 = n /\ n <= Len(b)
          /\ (Len(a) + (n + 1)) - 1 = Len(a) + n
      BY <1>0
    <3>2. g[n + 1] = Advance(u, t, g[n], b[n + 1])
      BY <1>3, <3>1
    <3>3. h[Len(a) + (n + 1)] = Advance(u, t, h[Len(a) + n], b[n + 1])
      BY <1>0, <1>4, <3>1
    <3> QED
      BY <2>2, <3>1, <3>2, <3>3
  <2> HIDE DEF Same
  <2>3. Nat \subseteq Same
    BY <2>1, <2>2, SetInduction
  <2> QED
    BY <1>0, <2>3 DEF Same
<1>7. Exec(u, t, s, a) = f[Len(a)]
  BY DEF Exec, f
<1>8. Exec(u, t, s, a \o b) = h[Len(a) + Len(b)]
  BY <1>0 DEF Exec, h, ab
<1>9. Exec(u, t, f[Len(a)], b) = g[Len(b)]
  BY DEF Exec, g
<1> QED
  BY <1>2, <1>5, <1>6, <1>7, <1>8, <1>9

(* One operation, and none *)
LEMMA ExecOne ==
  ASSUME NEW u, IsUnit(u), NEW t \in Nat, NEW s \in Machine, NEW o \in LineOps
  PROVE  /\ Exec(u, t, s, <<o>>) = Advance(u, t, s, o)
         /\ Exec(u, t, s, <<>>) = s
<1> HIDE DEF Machine, LineOps, Advance
<1> DEFINE one == <<o>>
           none == <<>>
<1>1. one \in Seq(LineOps) /\ Len(one) = 1 /\ one[1] = o
  OBVIOUS
<1>2. none \in Seq(LineOps) /\ Len(none) = 0
  OBVIOUS
<1> HIDE DEF one, none
<1>3. Steps(u, t, s, one)[0] = s /\ Steps(u, t, s, one)[1] = Advance(u, t, s, o)
  <2>1. /\ Steps(u, t, s, one)[0] = s
        /\ \A n \in 1..Len(one) : Steps(u, t, s, one)[n] = Advance(u, t, Steps(u, t, s, one)[n - 1], one[n])
    BY <1>1, StepsAre
  <2> HIDE DEF Steps
  <2> QED
    BY <1>1, <2>1
<1>4. Steps(u, t, s, none)[0] = s
  BY <1>2, StepsAre
<1> QED
  BY <1>1, <1>2, <1>3, <1>4 DEF Exec, one, none

(* An ended machine stays as it is *)
LEMMA ExecEnded ==
  ASSUME NEW u, IsUnit(u), NEW t \in Nat, NEW s \in Machine, s.ended, NEW ops \in Seq(LineOps)
  PROVE  Exec(u, t, s, ops) = s
<1> DEFINE f == Steps(u, t, s, ops)
<1>1. f[0] = s /\ \A n \in 1..Len(ops) : f[n] = Advance(u, t, f[n - 1], ops[n])
  BY StepsAre
<1>2. Len(ops) \in Nat
  OBVIOUS
<1> HIDE DEF Machine, LineOps, f
<1> DEFINE Same == {n \in Nat : n <= Len(ops) => f[n] = s}
<1>3. 0 \in Same
  BY <1>1
<1>4. ASSUME NEW n \in Nat, n \in Same
      PROVE  n + 1 \in Same
  <2> SUFFICES ASSUME n + 1 <= Len(ops)
               PROVE  f[n + 1] = s
    OBVIOUS
  <2>1. n + 1 \in 1..Len(ops) /\ (n + 1) - 1 = n /\ n <= Len(ops)
    BY <1>2
  <2>2. f[n + 1] = Advance(u, t, s, ops[n + 1])
    BY <1>1, <1>4, <2>1
  <2> QED
    BY <2>2 DEF Advance
<1> HIDE DEF Same
<1>5. Nat \subseteq Same
  BY <1>3, <1>4, SetInduction
<1> QED
  BY <1>2, <1>5 DEF Same, Exec, f

(* The registers at a row *)
Regs(a, f, l, b) == [addr |-> a, file |-> f, line |-> l, ended |-> FALSE, best |-> b]

(* The nearest of what was found and one row more *)
Closer(u, t, row, b) ==
  IF row.addr > t \/ t - row.addr >= b.diff \/ row.file > u.files THEN b
  ELSE [diff |-> t - row.addr, unit |-> u.name, file |-> row.file, line |-> row.line]

Rows == [addr : Nat, file : Nat, line : Nat]
RowAt(a, f, l) == [addr |-> a, file |-> f, line |-> l]

(* Registers with these values are registers *)
LEMMA RegsType ==
  ASSUME NEW a \in Int, NEW f \in Int, NEW l \in Int, NEW b \in Match
  PROVE  Regs(a, f, l, b) \in Machine
BY DEF Regs, Machine

(* What is remembered is the nearer of the row and what was known *)
LEMMA RememberIs ==
  ASSUME NEW u, IsUnit(u), NEW t \in Nat, NEW a \in Int, NEW f \in Int, NEW l \in Int, NEW b \in Match
  PROVE  /\ Remember(u, t, Regs(a, f, l, b)) = Regs(a, f, l, Closer(u, t, RowAt(a, f, l), b))
         /\ Closer(u, t, RowAt(a, f, l), b) \in Match
<1>1. CASE a > t \/ t - a >= b.diff \/ f > u.files
  BY <1>1 DEF Remember, Regs, Closer, RowAt
<1>2. CASE ~(a > t \/ t - a >= b.diff \/ f > u.files)
  <2>1. Remember(u, t, Regs(a, f, l, b)) =
          [Regs(a, f, l, b) EXCEPT !.best = [diff |-> t - a, unit |-> u.name, file |-> f, line |-> l]]
    BY <1>2 DEF Remember, Regs
  <2>2. Closer(u, t, RowAt(a, f, l), b) = [diff |-> t - a, unit |-> u.name, file |-> f, line |-> l]
    BY <1>2 DEF Closer, RowAt
  <2>3. Closer(u, t, RowAt(a, f, l), b) \in Match
    BY <2>2, UnitIs DEF Match
  <2> QED
    BY <2>1, <2>2, <2>3 DEF Regs
<1> QED
  BY <1>1, <1>2

(* An operation with its quotient and remainder *)
LEMMA Quotient ==
  ASSUME NEW d \in Nat \ {0}, NEW q \in Nat, NEW r \in 0..d - 1
  PROVE  (r + d * q) % d = r /\ (r + d * q) \div d = q
OBVIOUS

(* What each operation does to the registers *)
LEMMA SetFileIs ==
  ASSUME NEW u, IsUnit(u), NEW t \in Nat, NEW a \in Int, NEW f \in Int, NEW l \in Int, NEW b \in Match, NEW x \in Int
  PROVE  Advance(u, t, Regs(a, f, l, b), Operation("set_file", x)) = Regs(a, x, l, b)
<1> DEFINE m == Regs(a, f, l, b)
<1>0. m.addr = a /\ m.file = f /\ m.line = l /\ m.ended = FALSE /\ m.best = b
  BY DEF Regs
<1>1. Advance(u, t, m, Operation("set_file", x)) = Perform(u, t, m, Operation("set_file", x))
  BY <1>0 DEF Advance
<1>3. Perform(u, t, m, Operation("set_file", x)) = Regs(a, x, l, b)
  BY <1>0 DEF Perform, Operation, Regs
<1> QED
  BY <1>1, <1>3

(* DW_LNE_set_address *)
LEMMA SetAddressIs ==
  ASSUME NEW u, IsUnit(u), NEW t \in Nat, NEW a \in Int, NEW f \in Int, NEW l \in Int, NEW b \in Match, NEW x \in Int
  PROVE  Advance(u, t, Regs(a, f, l, b), Operation("set_address", x)) = Regs(x, f, l, b)
<1> DEFINE m == Regs(a, f, l, b)
<1>0. m.addr = a /\ m.file = f /\ m.line = l /\ m.ended = FALSE /\ m.best = b
  BY DEF Regs
<1>1. Advance(u, t, m, Operation("set_address", x)) = Perform(u, t, m, Operation("set_address", x))
  BY <1>0 DEF Advance
<1>3. Perform(u, t, m, Operation("set_address", x)) = Regs(x, f, l, b)
  BY <1>0 DEF Perform, Operation, Regs
<1> QED
  BY <1>1, <1>3

(* DW_LNS_advance_line *)
LEMMA AdvanceLineIs ==
  ASSUME NEW u, IsUnit(u), NEW t \in Nat, NEW a \in Int, NEW f \in Int, NEW l \in Int, NEW b \in Match, NEW x \in Int
  PROVE  Advance(u, t, Regs(a, f, l, b), Operation("advance_line", x)) = Regs(a, f, l + x, b)
<1> DEFINE m == Regs(a, f, l, b)
<1>0. m.addr = a /\ m.file = f /\ m.line = l /\ m.ended = FALSE /\ m.best = b
  BY DEF Regs
<1>1. Advance(u, t, m, Operation("advance_line", x)) = Perform(u, t, m, Operation("advance_line", x))
  BY <1>0 DEF Advance
<1>3. Perform(u, t, m, Operation("advance_line", x)) = Regs(a, f, l + x, b)
  BY <1>0 DEF Perform, Operation, Regs
<1> QED
  BY <1>1, <1>3

(* DW_LNS_fixed_advance_pc *)
LEMMA FixedAdvanceIs ==
  ASSUME NEW u, IsUnit(u), NEW t \in Nat, NEW a \in Int, NEW f \in Int, NEW l \in Int, NEW b \in Match, NEW x \in Int
  PROVE  Advance(u, t, Regs(a, f, l, b), Operation("fixed_advance", x)) = Regs(a + x, f, l, b)
<1> DEFINE m == Regs(a, f, l, b)
<1>0. m.addr = a /\ m.file = f /\ m.line = l /\ m.ended = FALSE /\ m.best = b
  BY DEF Regs
<1>1. Advance(u, t, m, Operation("fixed_advance", x)) = Perform(u, t, m, Operation("fixed_advance", x))
  BY <1>0 DEF Advance
<1>3. Perform(u, t, m, Operation("fixed_advance", x)) = Regs(a + x, f, l, b)
  BY <1>0 DEF Perform, Operation, Regs
<1> QED
  BY <1>1, <1>3

(* DW_LNS_advance_pc: an instruction has one byte *)
LEMMA AdvancePcIs ==
  ASSUME NEW u, IsUnit(u), NEW t \in Nat, NEW a \in Int, NEW f \in Int, NEW l \in Int, NEW b \in Match, NEW x \in Int
  PROVE  Advance(u, t, Regs(a, f, l, b), Operation("advance_pc", x)) = Regs(a + x, f, l, b)
<1> DEFINE m == Regs(a, f, l, b)
<1>0. m.addr = a /\ m.file = f /\ m.line = l /\ m.ended = FALSE /\ m.best = b
  BY DEF Regs
<1>1. Advance(u, t, m, Operation("advance_pc", x)) = Perform(u, t, m, Operation("advance_pc", x))
  BY <1>0 DEF Advance
<1>2. u.minInstrLen = 1 /\ x * 1 = x
  BY UnitIs
<1>3. Perform(u, t, m, Operation("advance_pc", x)) = Regs(a + x, f, l, b)
  BY <1>0, <1>2 DEF Perform, Operation, Regs
<1> QED
  BY <1>1, <1>3

(* The step of DW_LNS_const_add_pc is a number *)
LEMMA ConstType ==
  ASSUME NEW u, IsUnit(u)
  PROVE  Const(u) \in Int
<1>1. MaxSpecialOpcode - u.opcodeBase \in Int /\ u.lineRange \in Nat \ {0}
  BY UnitIs DEF MaxSpecialOpcode
<1> QED
  BY <1>1 DEF Const

(* DW_LNS_const_add_pc *)
LEMMA ConstAddPcIs ==
  ASSUME NEW u, IsUnit(u), NEW t \in Nat, NEW a \in Int, NEW f \in Int, NEW l \in Int, NEW b \in Match, NEW x \in Int
  PROVE  Advance(u, t, Regs(a, f, l, b), Operation("const_add_pc", x)) = Regs(a + Const(u), f, l, b)
<1> DEFINE m == Regs(a, f, l, b)
<1>0. m.addr = a /\ m.file = f /\ m.line = l /\ m.ended = FALSE /\ m.best = b
  BY DEF Regs
<1>1. Advance(u, t, m, Operation("const_add_pc", x)) = Perform(u, t, m, Operation("const_add_pc", x))
  BY <1>0 DEF Advance
<1>2. u.minInstrLen = 1 /\ Const(u) \in Int /\ Const(u) * 1 = Const(u)
  BY UnitIs, ConstType
<1>3. Perform(u, t, m, Operation("const_add_pc", x)) = Regs(a + Const(u), f, l, b)
  <2>1. Perform(u, t, m, Operation("const_add_pc", x)) = [m EXCEPT !.addr = @ + Const(u) * u.minInstrLen]
    BY DEF Perform, Operation, Const
  <2> HIDE DEF Const
  <2> QED
    BY <1>0, <1>2, <2>1 DEF Regs
<1> QED
  BY <1>1, <1>3

(* An operation that is passed over *)
LEMMA SkipIs ==
  ASSUME NEW u, IsUnit(u), NEW t \in Nat, NEW a \in Int, NEW f \in Int, NEW l \in Int, NEW b \in Match, NEW x \in Int
  PROVE  Advance(u, t, Regs(a, f, l, b), Operation("skip", x)) = Regs(a, f, l, b)
BY DEF Advance, Perform, Operation, Regs

(* DW_LNS_copy *)
LEMMA CopyIs ==
  ASSUME NEW u, IsUnit(u), NEW t \in Nat, NEW a \in Int, NEW f \in Int, NEW l \in Int, NEW b \in Match, NEW x \in Int
  PROVE  Advance(u, t, Regs(a, f, l, b), Operation("copy", x)) = Regs(a, f, l, Closer(u, t, RowAt(a, f, l), b))
<1>1. Advance(u, t, Regs(a, f, l, b), Operation("copy", x)) = Remember(u, t, Regs(a, f, l, b))
  BY DEF Advance, Perform, Operation, Regs
<1> QED
  BY <1>1, RememberIs

(* The end of a sequence is a row too *)
LEMMA EndIs ==
  ASSUME NEW u, IsUnit(u), NEW t \in Nat, NEW a \in Int, NEW f \in Int, NEW l \in Int, NEW b \in Match, NEW x \in Int,
         NEW k, k = Advance(u, t, Regs(a, f, l, b), Operation("end_sequence", x))
  PROVE  k \in Machine /\ k.ended /\ k.best = Closer(u, t, RowAt(a, f, l), b)
<1> DEFINE m == Regs(a, f, l, b)
           r == Regs(a, f, l, Closer(u, t, RowAt(a, f, l), b))
           n == [r EXCEPT !.ended = TRUE]
<1>1. Advance(u, t, m, Operation("end_sequence", x)) = [Remember(u, t, m) EXCEPT !.ended = TRUE]
  BY DEF Perform, Operation, Advance, Regs
<1>2. Remember(u, t, m) = r /\ Closer(u, t, RowAt(a, f, l), b) \in Match
  BY RememberIs
<1>3. r \in Machine /\ r.best = Closer(u, t, RowAt(a, f, l), b)
  BY <1>2, RegsType DEF Regs
<1>4. Advance(u, t, m, Operation("end_sequence", x)) = n
  BY <1>1, <1>2, Zenon
<1> HIDE DEF r
<1>5. n \in Machine /\ n.ended = TRUE /\ n.best = r.best
  BY <1>3 DEF Machine
<1> QED
  BY <1>3, <1>4, <1>5, Zenon

(* A special operation gives the row it was made for *)
LEMMA SpecialIs ==
  ASSUME NEW u, IsUnit(u), NEW t \in Nat, NEW a \in Int, NEW f \in Int, NEW l \in Int, NEW b \in Match,
         NEW d \in Nat, NEW e \in Int, HasSpecial(u, d, e)
  PROVE  /\ Advance(u, t, Regs(a, f, l, b), Operation("special", Special(u, d, e))) =
              Regs(a + d, f, l + e, Closer(u, t, RowAt(a + d, f, l + e), b))
         /\ Special(u, d, e) \in Int
<1> DEFINE m == Regs(a, f, l, b)
           r == e - u.lineBase
<1>0. m.addr = a /\ m.file = f /\ m.line = l /\ m.ended = FALSE /\ m.best = b
  BY DEF Regs
<1>1. u.lineBase \in Int /\ u.lineRange \in Nat \ {0} /\ u.minInstrLen = 1
  BY UnitIs
<1>2. r \in 0..u.lineRange - 1 /\ u.lineBase + r = e
  BY <1>1 DEF HasSpecial
<1>3. Special(u, d, e) = r + u.lineRange * d
  BY DEF Special
<1>4. Special(u, d, e) \in Int
  BY <1>1, <1>2, <1>3
<1>5. Special(u, d, e) % u.lineRange = r /\ Special(u, d, e) \div u.lineRange = d
  <2> DEFINE q == u.lineRange
  <2>1. q \in Nat \ {0} /\ r \in 0..q - 1
    BY <1>1, <1>2
  <2> HIDE DEF r, q
  <2>2. (r + q * d) % q = r /\ (r + q * d) \div q = d
    BY <2>1, Quotient
  <2>3. Special(u, d, e) = r + q * d
    BY <1>3 DEF q
  <2>4. Special(u, d, e) % q = r /\ Special(u, d, e) \div q = d
    BY <2>2, <2>3
  <2> QED
    BY <2>4 DEF q
<1> DEFINE x == Special(u, d, e)
           v == (x \div u.lineRange) * u.minInstrLen
           w == x % u.lineRange
<1>6. Perform(u, t, m, Operation("special", x)) =
        Remember(u, t, [m EXCEPT !.line = @ + u.lineBase + w, !.addr = @ + v])
  BY DEF Perform, Operation
<1>7. [m EXCEPT !.line = @ + u.lineBase + w, !.addr = @ + v] = Regs(a + d, f, l + e, b)
  <2>1. v = d /\ w = r
    <3> HIDE DEF r, x
    <3> QED
      BY <1>1, <1>5 DEF x
  <2>2. l + u.lineBase + w = l + e
    BY <1>1, <1>2, <2>1
  <2> DEFINE n == [m EXCEPT !.line = @ + u.lineBase + w, !.addr = @ + v]
  <2>3. n = [Regs(a, f, l, b) EXCEPT !.line = l + e, !.addr = a + d]
    <3> HIDE DEF v, w, r
    <3> QED
      BY <1>0, <2>1, <2>2
  <2> HIDE DEF n
  <2>4. n = Regs(a + d, f, l + e, b)
    BY <2>3 DEF Regs
  <2> QED
    BY <2>4 DEF n
<1> HIDE DEF v, w
<1>8. Advance(u, t, m, Operation("special", Special(u, d, e))) = Remember(u, t, Regs(a + d, f, l + e, b))
  BY <1>0, <1>6, <1>7 DEF Advance
<1>9. a + d \in Int /\ l + e \in Int
  OBVIOUS
<1> QED
  BY <1>4, <1>8, <1>9, RememberIs

(* An operation the programs are made of *)
LEMMA OpType ==
  ASSUME NEW op \in OpNames, NEW x \in Int
  PROVE  Operation(op, x) \in LineOps
BY DEF Operation, LineOps

(* The first operations of a program *)
LEMMA ExecFirst ==
  ASSUME NEW u, IsUnit(u), NEW t \in Nat, NEW s \in Machine, NEW ops \in Seq(LineOps)
  PROVE  LET m1 == Advance(u, t, s, ops[1])
             m2 == Advance(u, t, m1, ops[2])
             m3 == Advance(u, t, m2, ops[3])
             m4 == Advance(u, t, m3, ops[4])
         IN /\ Len(ops) = 1 => Exec(u, t, s, ops) = m1
            /\ Len(ops) = 2 => Exec(u, t, s, ops) = m2
            /\ Len(ops) = 3 => Exec(u, t, s, ops) = m3
            /\ Len(ops) = 4 => Exec(u, t, s, ops) = m4
<1> DEFINE f == Steps(u, t, s, ops)
<1>1. f[0] = s /\ \A n \in 1..Len(ops) : f[n] = Advance(u, t, f[n - 1], ops[n])
  BY StepsAre
<1>2. Exec(u, t, s, ops) = f[Len(ops)]
  BY DEF Exec
<1> HIDE DEF f, Advance
<1>3. /\ Len(ops) >= 1 => f[1] = Advance(u, t, f[0], ops[1])
      /\ Len(ops) >= 2 => f[2] = Advance(u, t, f[1], ops[2])
      /\ Len(ops) >= 3 => f[3] = Advance(u, t, f[2], ops[3])
      /\ Len(ops) >= 4 => f[4] = Advance(u, t, f[3], ops[4])
  <2>1. Len(ops) \in Nat
    OBVIOUS
  <2> QED
    BY <1>1, <2>1
<1> QED
  BY <1>1, <1>2, <1>3

(* Two, three and four operations in a row *)
LEMMA ExecFew ==
  ASSUME NEW u, IsUnit(u), NEW t \in Nat, NEW s \in Machine,
         NEW o1 \in LineOps, NEW o2 \in LineOps, NEW o3 \in LineOps, NEW o4 \in LineOps
  PROVE  LET m1 == Advance(u, t, s, o1)
             m2 == Advance(u, t, m1, o2)
             m3 == Advance(u, t, m2, o3)
             m4 == Advance(u, t, m3, o4)
         IN /\ Exec(u, t, s, <<o1>>) = m1
            /\ Exec(u, t, s, <<o1, o2>>) = m2
            /\ Exec(u, t, s, <<o1, o2, o3>>) = m3
            /\ Exec(u, t, s, <<o1, o2, o3, o4>>) = m4
<1> HIDE DEF Machine, LineOps, Advance
<1> DEFINE w1 == <<o1>>
<1>1. w1 \in Seq(LineOps) /\ Len(w1) = 1 /\ w1[1] = o1
  OBVIOUS
<1> DEFINE w2 == <<o1, o2>>
<1>2. w2 \in Seq(LineOps) /\ Len(w2) = 2 /\ w2[1] = o1 /\ w2[2] = o2
  OBVIOUS
<1> DEFINE w3 == <<o1, o2, o3>>
<1>3. w3 \in Seq(LineOps) /\ Len(w3) = 3 /\ w3[1] = o1 /\ w3[2] = o2 /\ w3[3] = o3
  OBVIOUS
<1> DEFINE w4 == <<o1, o2, o3, o4>>
<1>4. w4 \in Seq(LineOps) /\ Len(w4) = 4 /\ w4[1] = o1 /\ w4[2] = o2 /\ w4[3] = o3 /\ w4[4] = o4
  OBVIOUS
<1> HIDE DEF w1, w2, w3, w4
<1>5. Exec(u, t, s, w1) = Advance(u, t, s, o1)
  BY <1>1, ExecFirst
<1>6. Exec(u, t, s, w2) = Advance(u, t, Advance(u, t, s, o1), o2)
  BY <1>2, ExecFirst
<1>7. Exec(u, t, s, w3) = Advance(u, t, Advance(u, t, Advance(u, t, s, o1), o2), o3)
  BY <1>3, ExecFirst
<1>8. Exec(u, t, s, w4) = Advance(u, t, Advance(u, t, Advance(u, t, Advance(u, t, s, o1), o2), o3), o4)
  BY <1>4, ExecFirst
<1> QED
  BY <1>5, <1>6, <1>7, <1>8, Zenon DEF w1, w2, w3, w4

(* The nearer of two is a match *)
LEMMA CloserOf ==
  ASSUME NEW u, IsUnit(u), NEW t \in Nat, NEW b \in Match, NEW row \in Rows
  PROVE  /\ Closer(u, t, RowAt(row.addr, row.file, row.line), b) = Closer(u, t, row, b)
         /\ Closer(u, t, row, b) \in Match
<1>1. Closer(u, t, RowAt(row.addr, row.file, row.line), b) = Closer(u, t, row, b)
  BY DEF Closer, RowAt
<1>2. row.addr \in Int /\ row.file \in Int /\ row.line \in Int
  BY DEF Rows
<1> QED
  BY <1>1, <1>2, RememberIs

(* A program that leads from some registers to others *)
LeadsTo(u, t, m, ops, n) == ops \in Seq(LineOps) /\ Exec(u, t, m, ops) = n

(* An operation at a time *)
LEMMA LeadsOne ==
  ASSUME NEW u, IsUnit(u), NEW t \in Nat, NEW m \in Machine,
         NEW o1 \in LineOps, NEW o2 \in LineOps, NEW o3 \in LineOps, NEW o4 \in LineOps,
         NEW m1, NEW m2, NEW m3, NEW m4,
         Advance(u, t, m, o1) = m1, Advance(u, t, m1, o2) = m2, Advance(u, t, m2, o3) = m3,
         Advance(u, t, m3, o4) = m4
  PROVE  /\ LeadsTo(u, t, m, <<o1>>, m1) /\ LeadsTo(u, t, m, <<o1, o2>>, m2)
         /\ LeadsTo(u, t, m, <<o1, o2, o3>>, m3) /\ LeadsTo(u, t, m, <<o1, o2, o3, o4>>, m4)
<1>1. /\ Exec(u, t, m, <<o1>>) = m1 /\ Exec(u, t, m, <<o1, o2>>) = m2
      /\ Exec(u, t, m, <<o1, o2, o3>>) = m3 /\ Exec(u, t, m, <<o1, o2, o3, o4>>) = m4
  <2>1. /\ Exec(u, t, m, <<o1>>) = Advance(u, t, m, o1)
        /\ Exec(u, t, m, <<o1, o2>>) = Advance(u, t, Advance(u, t, m, o1), o2)
        /\ Exec(u, t, m, <<o1, o2, o3>>) = Advance(u, t, Advance(u, t, Advance(u, t, m, o1), o2), o3)
        /\ Exec(u, t, m, <<o1, o2, o3, o4>>) =
             Advance(u, t, Advance(u, t, Advance(u, t, Advance(u, t, m, o1), o2), o3), o4)
    BY ExecFew
  <2> QED
    BY <2>1, Zenon
<1> HIDE DEF LineOps
<1>2. /\ <<o1>> \in Seq(LineOps) /\ <<o1, o2>> \in Seq(LineOps) /\ <<o1, o2, o3>> \in Seq(LineOps)
      /\ <<o1, o2, o3, o4>> \in Seq(LineOps)
  OBVIOUS
<1> QED
  BY <1>1, <1>2, Zenon DEF LeadsTo

(* The operations of a row lead from the row before to it, however it is encoded *)
LEMMA RowEncodings ==
  ASSUME NEW u, IsUnit(u), NEW t \in Nat, NEW a \in Int, NEW f \in Int, NEW l \in Int, NEW b \in Match,
         NEW d \in Nat, NEW e \in Int, NEW a2 \in Int, NEW l2 \in Int, a2 = a + d, l2 = l + e,
         NEW m, m = Regs(a, f, l, b), NEW n, n = Regs(a2, f, l2, Closer(u, t, RowAt(a2, f, l2), b))
  PROVE  /\ HasSpecial(u, d, e) => LeadsTo(u, t, m, <<Operation("special", Special(u, d, e))>>, n)
         /\ d >= Const(u) /\ HasSpecial(u, d - Const(u), e) =>
              LeadsTo(u, t, m, <<Operation("const_add_pc", 0), Operation("special", Special(u, d - Const(u), e))>>, n)
         /\ LeadsTo(u, t, m, <<Operation("advance_line", e), Operation("fixed_advance", d), Operation("copy", 0)>>, n)
         /\ LeadsTo(u, t, m, <<Operation("advance_line", e), Operation("skip", 0), Operation("advance_pc", d),
                               Operation("copy", 0)>>, n)
<1>0. d \in Int /\ 0 \in Int
  OBVIOUS
<1>1. m \in Machine
  BY RegsType
<1>2. ASSUME HasSpecial(u, d, e)
      PROVE  LeadsTo(u, t, m, <<Operation("special", Special(u, d, e))>>, n)
  <2> DEFINE o1 == Operation("special", Special(u, d, e))
  <2>1. Special(u, d, e) \in Int /\ Advance(u, t, m, o1) = n
    BY <1>2, SpecialIs
  <2>2. o1 \in LineOps
    BY <2>1, OpType DEF OpNames
  <2> HIDE DEF o1
  <2>3. LeadsTo(u, t, m, <<o1>>, n)
    BY <1>1, <2>1, <2>2, LeadsOne, Zenon
  <2> QED
    BY <2>3 DEF o1
<1>3. ASSUME d >= Const(u), HasSpecial(u, d - Const(u), e)
      PROVE  LeadsTo(u, t, m, <<Operation("const_add_pc", 0), Operation("special", Special(u, d - Const(u), e))>>, n)
  <2> DEFINE c == a + Const(u)
             g == d - Const(u)
             k == Regs(c, f, l, b)
             o1 == Operation("const_add_pc", 0)
             o2 == Operation("special", Special(u, g, e))
  <2>0. Const(u) \in Int
    BY ConstType
  <2>1. c \in Int /\ g \in Nat /\ c + g = a2
    BY <1>3, <2>0
  <2>2. Advance(u, t, m, o1) = k
    <3>1. Advance(u, t, Regs(a, f, l, b), Operation("const_add_pc", 0)) = Regs(a + Const(u), f, l, b)
      BY <1>0, ConstAddPcIs
    <3> QED
      BY <3>1, Zenon
  <2>3. HasSpecial(u, g, e)
    BY <1>3
  <2> HIDE DEF c, g
  <2>4. Special(u, g, e) \in Int /\ Advance(u, t, k, o2) = n
    <3>1. /\ Advance(u, t, Regs(c, f, l, b), Operation("special", Special(u, g, e))) =
                Regs(c + g, f, l + e, Closer(u, t, RowAt(c + g, f, l + e), b))
          /\ Special(u, g, e) \in Int
      BY <2>1, <2>3, SpecialIs
    <3> QED
      BY <2>1, <3>1, Zenon
  <2>5. o1 \in LineOps /\ o2 \in LineOps
    BY <1>0, <2>4, OpType DEF OpNames
  <2> HIDE DEF o1, o2, k
  <2>6. LeadsTo(u, t, m, <<o1, o2>>, n)
    BY <1>1, <2>2, <2>4, <2>5, LeadsOne, Zenon
  <2> QED
    BY <2>6 DEF o1, o2, g
<1> DEFINE o1 == Operation("advance_line", e)
           o2 == Operation("fixed_advance", d)
           o3 == Operation("copy", 0)
           o4 == Operation("skip", 0)
           o5 == Operation("advance_pc", d)
           p == Regs(a, f, l2, b)
           q == Regs(a2, f, l2, b)
<1>4. Advance(u, t, m, o1) = p /\ Advance(u, t, p, o2) = q /\ Advance(u, t, q, o3) = n
      /\ Advance(u, t, p, o4) = p /\ Advance(u, t, p, o5) = q
  <2>1. Advance(u, t, Regs(a, f, l, b), o1) = Regs(a, f, l + e, b)
    BY AdvanceLineIs
  <2>2. Advance(u, t, Regs(a, f, l2, b), o2) = Regs(a + d, f, l2, b)
    BY <1>0, FixedAdvanceIs
  <2>4. Advance(u, t, Regs(a, f, l2, b), o5) = Regs(a + d, f, l2, b)
    BY <1>0, AdvancePcIs
  <2>3. /\ Advance(u, t, Regs(a2, f, l2, b), o3) = Regs(a2, f, l2, Closer(u, t, RowAt(a2, f, l2), b))
        /\ Advance(u, t, Regs(a, f, l2, b), o4) = Regs(a, f, l2, b)
    BY <1>0, CopyIs, SkipIs
  <2> QED
    BY <2>1, <2>2, <2>3, <2>4, Zenon
<1>5. o1 \in LineOps /\ o2 \in LineOps /\ o3 \in LineOps /\ o4 \in LineOps /\ o5 \in LineOps
  BY <1>0, OpType DEF OpNames
<1> HIDE DEF o1, o2, o3, o4, o5, p, q
<1>6. LeadsTo(u, t, m, <<o1, o2, o3>>, n) /\ LeadsTo(u, t, m, <<o1, o4, o5, o3>>, n)
  BY <1>1, <1>4, <1>5, LeadsOne, Zenon
<1> QED
  BY <1>2, <1>3, <1>6 DEF o1, o2, o3, o4, o5

(* One program after the other leads to the end of both *)
LEMMA LeadsBoth ==
  ASSUME NEW u, IsUnit(u), NEW t \in Nat, NEW m \in Machine, NEW k, NEW n, NEW v, NEW w,
         LeadsTo(u, t, m, v, k), LeadsTo(u, t, k, w, n)
  PROVE  LeadsTo(u, t, m, v \o w, n)
<1>1. v \in Seq(LineOps) /\ w \in Seq(LineOps) /\ Exec(u, t, m, v) = k /\ Exec(u, t, k, w) = n
  BY DEF LeadsTo
<1>2. Exec(u, t, m, v \o w) = n
  BY <1>1, ExecConcat, Zenon
<1> HIDE DEF LineOps
<1>3. v \o w \in Seq(LineOps)
  BY <1>1
<1> QED
  BY <1>2, <1>3, Zenon DEF LeadsTo

(* However a row is encoded, its operations lead to it *)
LEMMA RowIs ==
  ASSUME NEW u, IsUnit(u), NEW t \in Nat, NEW b \in Match, NEW style,
         NEW from \in Rows, NEW row \in Rows, from.addr <= row.addr
  PROVE  LeadsTo(u, t, Regs(from.addr, from.file, from.line, b), Row(u, style, from, row),
                 Regs(row.addr, row.file, row.line, Closer(u, t, row, b)))
<1> DEFINE d == row.addr - from.addr
           e == row.line - from.line
           file == IF row.file = from.file THEN <<>> ELSE <<Operation("set_file", row.file)>>
           rest ==
             CASE style = "special" /\ HasSpecial(u, d, e) -> <<Operation("special", Special(u, d, e))>>
               [] style = "special" /\ d >= Const(u) /\ HasSpecial(u, d - Const(u), e) ->
                    <<Operation("const_add_pc", 0), Operation("special", Special(u, d - Const(u), e))>>
               [] style = "fixed" ->
                    <<Operation("advance_line", e), Operation("fixed_advance", d), Operation("copy", 0)>>
               [] OTHER ->
                    <<Operation("advance_line", e), Operation("skip", 0), Operation("advance_pc", d),
                      Operation("copy", 0)>>
           m == Regs(from.addr, from.file, from.line, b)
           k == Regs(from.addr, row.file, from.line, b)
           n == Regs(row.addr, row.file, row.line, Closer(u, t, row, b))
<1>0. /\ from.addr \in Int /\ from.file \in Int /\ from.line \in Int
      /\ row.addr \in Int /\ row.file \in Int /\ row.line \in Int
      /\ d \in Nat /\ e \in Int /\ row.addr = from.addr + d /\ row.line = from.line + e
  BY DEF Rows
<1>1. Row(u, style, from, row) = file \o rest
  BY DEF Row
<1>2. m \in Machine /\ k \in Machine
  BY <1>0, RegsType
<1>3. n = Regs(row.addr, row.file, row.line, Closer(u, t, RowAt(row.addr, row.file, row.line), b))
  BY CloserOf
<1>4. LeadsTo(u, t, k, rest, n)
  <2> DEFINE A == <<Operation("special", Special(u, d, e))>>
             B == <<Operation("const_add_pc", 0), Operation("special", Special(u, d - Const(u), e))>>
             C == <<Operation("advance_line", e), Operation("fixed_advance", d), Operation("copy", 0)>>
             D == <<Operation("advance_line", e), Operation("skip", 0), Operation("advance_pc", d),
                    Operation("copy", 0)>>
  <2>1. /\ HasSpecial(u, d, e) => LeadsTo(u, t, k, A, n)
        /\ d >= Const(u) /\ HasSpecial(u, d - Const(u), e) => LeadsTo(u, t, k, B, n)
        /\ LeadsTo(u, t, k, C, n) /\ LeadsTo(u, t, k, D, n)
    <3> HIDE DEF n, d, e
    <3>1. /\ from.addr \in Int /\ row.file \in Int /\ from.line \in Int /\ row.addr \in Int /\ row.line \in Int
          /\ d \in Nat /\ e \in Int /\ row.addr = from.addr + d /\ row.line = from.line + e
      BY <1>0
    <3>2. k = Regs(from.addr, row.file, from.line, b)
      OBVIOUS
    <3> HIDE DEF k
    <3> QED
      BY <1>3, <3>1, <3>2, RowEncodings, Zenon
  <2> HIDE DEF A, B, C, D, n, k, d, e
  <2>2. rest = CASE style = "special" /\ HasSpecial(u, d, e) -> A
                 [] style = "special" /\ d >= Const(u) /\ HasSpecial(u, d - Const(u), e) -> B
                 [] style = "fixed" -> C
                 [] OTHER -> D
    BY Zenon DEF A, B, C, D
  <2>3. \/ rest = A /\ HasSpecial(u, d, e)
        \/ rest = B /\ d >= Const(u) /\ HasSpecial(u, d - Const(u), e)
        \/ rest = C
        \/ rest = D
    <3> HIDE DEF rest
    <3>1. CASE style = "special" /\ HasSpecial(u, d, e)
      BY <2>2, <3>1
    <3>2. CASE ~(style = "special" /\ HasSpecial(u, d, e)) /\ style = "special" /\ d >= Const(u)
               /\ HasSpecial(u, d - Const(u), e)
      BY <2>2, <3>2
    <3>3. CASE ~(style = "special" /\ HasSpecial(u, d, e)) /\ style = "fixed"
      BY <2>2, <3>3
    <3>4. CASE /\ ~(style = "special" /\ HasSpecial(u, d, e)) /\ style # "fixed"
               /\ ~(style = "special" /\ d >= Const(u) /\ HasSpecial(u, d - Const(u), e))
      BY <2>2, <3>4
    <3> QED
      BY <3>1, <3>2, <3>3, <3>4
  <2> HIDE DEF rest
  <2> QED
    BY <2>1, <2>3, Zenon
<1>5. LeadsTo(u, t, m, file, k)
  <2> HIDE DEF d, e, rest, n
  <2>0. <<>> \in Seq(LineOps)
    <3> HIDE DEF LineOps
    <3> QED
      OBVIOUS
  <2>1. CASE row.file = from.file
    <3>1. file = <<>> /\ m = k
      BY <2>1
    <3>2. Exec(u, t, m, <<>>) = m
      <4>1. Operation("skip", 0) \in LineOps
        BY OpType DEF OpNames
      <4> HIDE DEF m
      <4> QED
        BY <1>2, <4>1, ExecOne, Zenon
    <3> HIDE DEF file, m, k
    <3> QED
      BY <2>0, <3>1, <3>2, Zenon DEF LeadsTo
  <2>2. CASE row.file # from.file
    <3> DEFINE o == Operation("set_file", row.file)
    <3>1. file = <<o>>
      BY <2>2
    <3>2. o \in LineOps
      BY <1>0, OpType DEF OpNames
    <3>3. Advance(u, t, m, o) = k
      BY <1>0, SetFileIs
    <3> HIDE DEF file, m, k, o
    <3>4. LeadsTo(u, t, m, <<o>>, k)
      BY <1>2, <3>2, <3>3, LeadsOne, Zenon
    <3> QED
      BY <3>1, <3>4, Zenon
  <2> QED
    BY <2>1, <2>2
<1> HIDE DEF m, k, n, file, rest
<1>6. LeadsTo(u, t, m, file \o rest, n)
  BY <1>2, <1>4, <1>5, LeadsBoth
<1> QED
  BY <1>1, <1>6, Zenon DEF m, n

(* The best row after some of them *)
Nearest(u, t, rows, b0, B) ==
  /\ B \in [0..Len(rows) -> Match] /\ B[0] = b0
  /\ \A k \in 1..Len(rows) : B[k] = Closer(u, t, rows[k], B[k - 1])

(* For every sequence of rows there are the nearest so far *)
LEMMA NearestExists ==
  ASSUME NEW u, IsUnit(u), NEW t \in Nat, NEW rows \in Seq(Rows), NEW b0 \in Match
  PROVE  \E B : Nearest(u, t, rows, b0, B)
<1> DEFINE N == Len(rows)
           step == [n \in Nat |-> [b \in Match |-> IF n < N THEN Closer(u, t, rows[n + 1], b) ELSE b]]
<1>0. N \in Nat
  OBVIOUS
<1>1. \A n \in Nat, b \in Match : n < N => Closer(u, t, rows[n + 1], b) \in Match
  <2> SUFFICES ASSUME NEW n \in Nat, NEW b \in Match, n < N
               PROVE  Closer(u, t, rows[n + 1], b) \in Match
    OBVIOUS
  <2>1. rows[n + 1] \in Rows
    <3> HIDE DEF Rows
    <3> QED
      BY <1>0
  <2> QED
    BY <2>1, CloserOf
<1> HIDE DEF Match, Rows, Closer
<1>2. step \in Stepping(Match)
  BY <1>1 DEF Stepping
<1>3. \A n \in Nat, b \in Match : n < N => step[n][b] = Closer(u, t, rows[n + 1], b)
  OBVIOUS
<1> HIDE DEF step
<1>4. PICK g : Recurs(g, Match, b0, step)
  BY <1>2, Recursion, Zenon
<1> DEFINE B == [n \in 0..N |-> g[n]]
<1>5. g \in [Nat -> Match] /\ g[0] = b0 /\ \A n \in Nat : g[n + 1] = step[n][g[n]]
  BY <1>4 DEF Recurs
<1>6. B \in [0..N -> Match] /\ B[0] = b0
  BY <1>0, <1>5
<1>7. ASSUME NEW k \in 1..N
      PROVE  B[k] = Closer(u, t, rows[k], B[k - 1])
  <2>1. k - 1 \in Nat /\ k - 1 < N /\ (k - 1) + 1 = k /\ k \in 0..N /\ k - 1 \in 0..N
    BY <1>0
  <2>2. g[k] = step[k - 1][g[k - 1]] /\ g[k - 1] \in Match
    <3>1. g[(k - 1) + 1] = step[k - 1][g[k - 1]] /\ g[k - 1] \in Match
      BY <1>5, <2>1
    <3> QED
      BY <2>1, <3>1
  <2>3. step[k - 1][g[k - 1]] = Closer(u, t, rows[(k - 1) + 1], g[k - 1])
    BY <1>3, <2>1, <2>2
  <2> QED
    BY <2>1, <2>2, <2>3
<1> HIDE DEF B
<1> QED
  BY <1>6, <1>7 DEF Nearest

(* The rows of a sequence, up to any of them *)
RowFrom(rows, k) == IF k = 1 THEN RowAt(rows[1].addr, 1, 1) ELSE rows[k - 1]
RowOps(u, style, rows) == [k \in DOMAIN rows |-> Row(u, style, RowFrom(rows, k), rows[k])]
AtRow(row, b) == Regs(row.addr, row.file, row.line, b)

IsRows(rows) ==
  /\ rows \in Seq(Rows) /\ Len(rows) \in Nat \ {0}
  /\ \A k \in 1..Len(rows) : rows[k] \in Rows
  /\ \A i, j \in 1..Len(rows) : i <= j => rows[i].addr <= rows[j].addr

(* The row before lies no higher *)
LEMMA RowFromIs ==
  ASSUME NEW rows, IsRows(rows), NEW k \in 1..Len(rows)
  PROVE  RowFrom(rows, k) \in Rows /\ RowFrom(rows, k).addr <= rows[k].addr
<1>1. Len(rows) \in Nat \ {0} /\ rows[k] \in Rows
  BY DEF IsRows
<1>2. CASE k = 1
  <2>1. RowFrom(rows, k) = RowAt(rows[1].addr, 1, 1) /\ rows[1] \in Rows
    BY <1>1, <1>2 DEF RowFrom
  <2>2. rows[1].addr \in Nat
    BY <2>1 DEF Rows
  <2> QED
    BY <1>2, <2>1, <2>2 DEF RowAt, Rows
<1>3. CASE k # 1
  <2>1. k - 1 \in 1..Len(rows) /\ k - 1 <= k
    BY <1>1, <1>3
  <2>2. RowFrom(rows, k) = rows[k - 1]
    BY <1>3 DEF RowFrom
  <2> QED
    BY <2>1, <2>2 DEF IsRows
<1> QED
  BY <1>2, <1>3

(* The operations of all rows lead through all of them *)
LEMMA RowsLead ==
  ASSUME NEW u, IsUnit(u), NEW t \in Nat, NEW style, NEW rows, IsRows(rows), NEW b0 \in Match,
         NEW B, Nearest(u, t, rows, b0, B)
  PROVE  LeadsTo(u, t, Regs(rows[1].addr, 1, 1, b0), FlattenSeq(RowOps(u, style, rows)),
                 AtRow(rows[Len(rows)], B[Len(rows)]))
<1> DEFINE N == Len(rows)
           ss == RowOps(u, style, rows)
           s == Regs(rows[1].addr, 1, 1, b0)
<1>0. N \in Nat \ {0} /\ Len(ss) = N /\ \A k \in 1..N : ss[k] = Row(u, style, RowFrom(rows, k), rows[k])
  <2>1. DOMAIN rows = 1..N
    BY DEF IsRows
  <2> QED
    BY <2>1 DEF RowOps, IsRows
<1>1. /\ B[0] = b0 /\ \A k \in 0..N : B[k] \in Match
      /\ \A k \in 1..N : B[k] = Closer(u, t, rows[k], B[k - 1])
  BY DEF Nearest
<1>2. s \in Machine
  <2>1. rows[1] \in Rows
    BY <1>0 DEF IsRows
  <2>2. rows[1].addr \in Int
    BY <2>1 DEF Rows
  <2> QED
    BY <2>2, RegsType
<1> HIDE DEF ss
<1>3. ASSUME NEW k \in 1..N
      PROVE  LeadsTo(u, t, AtRow(RowFrom(rows, k), B[k - 1]), ss[k], AtRow(rows[k], B[k]))
  <2>1. RowFrom(rows, k) \in Rows /\ RowFrom(rows, k).addr <= rows[k].addr
    BY RowFromIs
  <2>2. rows[k] \in Rows /\ k - 1 \in 0..N
    BY <1>0 DEF IsRows
  <2>3. B[k - 1] \in Match
    BY <1>1, <2>2
  <2>4. LeadsTo(u, t, AtRow(RowFrom(rows, k), B[k - 1]), Row(u, style, RowFrom(rows, k), rows[k]),
                AtRow(rows[k], Closer(u, t, rows[k], B[k - 1])))
    BY <2>1, <2>2, <2>3, RowIs DEF AtRow
  <2> QED
    BY <1>0, <1>1, <2>4
<1>4. \A k \in 1..N : ss[k] \in Seq(LineOps)
  BY <1>3 DEF LeadsTo
<1>5. PICK f : /\ f[1] = ss[1] /\ \A i \in 1..N : f[i] \in Seq(LineOps)
               /\ \A i \in 1..N - 1 : f[i + 1] = f[i] \o ss[i + 1]
               /\ FlattenSeq(ss) = f[N]
  <2>1. Len(ss) \in Nat \ {0} /\ \A i \in 1..Len(ss) : ss[i] \in Seq(LineOps)
    BY <1>0, <1>4
  <2> HIDE DEF LineOps, N
  <2>2. \E f : /\ f[1] = ss[1] /\ \A i \in 1..Len(ss) : f[i] \in Seq(LineOps)
               /\ \A i \in 1..Len(ss) - 1 : f[i + 1] = f[i] \o ss[i + 1]
               /\ FlattenSeq(ss) = f[Len(ss)]
    BY <2>1, FlattenIs, Zenon
  <2>3. Len(ss) = N
    BY <1>0
  <2> QED
    BY <2>2, <2>3, Zenon
<1> DEFINE Led == {n \in Nat : n + 1 <= N => LeadsTo(u, t, s, f[n + 1], AtRow(rows[n + 1], B[n + 1]))}
<1>6. 0 \in Led
  <2>1. 1 \in 1..N
    BY <1>0
  <2>2. AtRow(RowFrom(rows, 1), B[0]) = s
    BY <1>1 DEF AtRow, RowFrom, RowAt
  <2>3. LeadsTo(u, t, AtRow(RowFrom(rows, 1), B[1 - 1]), ss[1], AtRow(rows[1], B[1]))
    BY <1>3, <2>1
  <2> HIDE DEF s
  <2>4. LeadsTo(u, t, s, f[0 + 1], AtRow(rows[0 + 1], B[0 + 1]))
    BY <1>5, <2>2, <2>3
  <2> QED
    BY <2>4
<1>7. ASSUME NEW n \in Nat, n \in Led
      PROVE  n + 1 \in Led
  <2> SUFFICES ASSUME (n + 1) + 1 <= N
               PROVE  LeadsTo(u, t, s, f[(n + 1) + 1], AtRow(rows[(n + 1) + 1], B[(n + 1) + 1]))
    OBVIOUS
  <2> DEFINE k == n + 1
  <2>1. k \in 1..N - 1 /\ k + 1 \in 1..N /\ k + 1 # 1 /\ (k + 1) - 1 = k
    BY <1>0
  <2>2. LeadsTo(u, t, s, f[k], AtRow(rows[k], B[k]))
    BY <1>7, <2>1
  <2> HIDE DEF s, k
  <2>3. RowFrom(rows, k + 1) = rows[k]
    BY <2>1 DEF RowFrom
  <2>4. LeadsTo(u, t, AtRow(rows[k], B[k]), ss[k + 1], AtRow(rows[k + 1], B[k + 1]))
    BY <1>3, <2>1, <2>3
  <2>5. LeadsTo(u, t, s, f[k] \o ss[k + 1], AtRow(rows[k + 1], B[k + 1]))
    BY <1>2, <2>2, <2>4, LeadsBoth
  <2>6. f[k + 1] = f[k] \o ss[k + 1]
    BY <1>5, <2>1
  <2> QED
    BY <2>5, <2>6, Zenon DEF k
<1> HIDE DEF Led, s
<1>8. Nat \subseteq Led
  BY <1>6, <1>7, SetInduction
<1>9. N - 1 \in Nat /\ (N - 1) + 1 = N
  BY <1>0
<1>10. LeadsTo(u, t, s, f[N], AtRow(rows[N], B[N]))
  <2> DEFINE n == N - 1
  <2>1. n \in Nat /\ n + 1 = N /\ n + 1 <= N
    BY <1>9
  <2> HIDE DEF n, N
  <2>2. n \in Led
    BY <1>8, <2>1
  <2>3. LeadsTo(u, t, s, f[n + 1], AtRow(rows[n + 1], B[n + 1]))
    BY <2>1, <2>2 DEF Led
  <2> QED
    BY <2>1, <2>3, Zenon
<1>11. FlattenSeq(ss) = f[N]
  BY <1>5
<1>12. LeadsTo(u, t, s, FlattenSeq(ss), AtRow(rows[N], B[N]))
  <2> HIDE DEF N
  <2> QED
    BY <1>10, <1>11, Zenon
<1> QED
  BY <1>12, Zenon DEF s, ss

(* The end of a sequence counts as a row *)
EndRow(seq) == RowAt(seq.end, seq.rows[Len(seq.rows)].file, seq.rows[Len(seq.rows)].line)

(* The rows of a sequence, its end among them *)
LEMMA SequenceRows ==
  ASSUME NEW seq, IsSequence(seq)
  PROVE  IsRows(seq.rows) /\ EndRow(seq) \in Rows
<1>1. seq.rows \in Seq(Rows) /\ seq.rows # <<>>
  BY DEF IsSequence, Rows
<1>2. Len(seq.rows) \in Nat \ {0} /\ DOMAIN seq.rows = 1..Len(seq.rows) /\ \A k \in 1..Len(seq.rows) : seq.rows[k] \in Rows
  <2> DEFINE q == seq.rows
  <2> HIDE DEF q, Rows
  <2>1. q \in Seq(Rows) /\ q # <<>>
    BY <1>1 DEF q
  <2>2. Len(q) \in Nat \ {0} /\ DOMAIN q = 1..Len(q) /\ \A k \in 1..Len(q) : q[k] \in Rows
    BY <2>1
  <2> QED
    BY <2>2 DEF q
<1>3. IsRows(seq.rows)
  BY <1>1, <1>2 DEF IsRows, IsSequence
<1>4. seq.rows[Len(seq.rows)] \in Rows /\ seq.end \in Nat
  BY <1>2 DEF IsSequence
<1>5. EndRow(seq) \in Rows
  BY <1>4 DEF EndRow, RowAt, Rows
<1> QED
  BY <1>3, <1>5

(* The program of a sequence shows its rows and its end, and ends there *)
LEMMA SequenceLeads ==
  ASSUME NEW u, IsUnit(u), NEW t \in Nat, NEW style, NEW seq, IsSequence(seq), NEW b0 \in Match,
         NEW B, Nearest(u, t, seq.rows, b0, B)
  PROVE  \E m \in Machine : /\ LeadsTo(u, t, Registers(b0), AssembledSequence(u, style, seq), m)
                            /\ m.ended
                            /\ m.best = Closer(u, t, EndRow(seq), B[Len(seq.rows)])
<1> DEFINE rows == seq.rows
           N == Len(rows)
           last == rows[N]
           o1 == Operation("set_address", rows[1].addr)
           o2 == Operation("advance_pc", seq.end - last.addr)
           o3 == Operation("end_sequence", 0)
           m1 == Regs(rows[1].addr, 1, 1, b0)
           m2 == AtRow(last, B[N])
           m3 == Regs(seq.end, last.file, last.line, B[N])
           m4 == Advance(u, t, m3, o3)
           body == FlattenSeq(RowOps(u, style, rows))
<1>0. IsRows(rows)
  BY SequenceRows
<1>1. N \in Nat \ {0} /\ rows[1] \in Rows /\ last \in Rows /\ seq.end \in Nat /\ B[N] \in Match
  <2>1. N \in Nat \ {0} /\ 1 \in 1..N /\ N \in 1..N /\ N \in 0..N
    BY <1>0 DEF IsRows
  <2>2. rows[1] \in Rows /\ last \in Rows
    BY <1>0, <2>1 DEF IsRows
  <2>3. B[N] \in Match
    BY <2>1 DEF Nearest
  <2>4. seq.end \in Nat
    BY DEF IsSequence
  <2> QED
    BY <2>1, <2>2, <2>3, <2>4
<1>2. /\ rows[1].addr \in Int /\ last.addr \in Int /\ last.file \in Int /\ last.line \in Int /\ seq.end \in Int
      /\ seq.end - last.addr \in Int /\ last.addr + (seq.end - last.addr) = seq.end /\ 0 \in Int /\ 1 \in Int
  <2>1. rows[1].addr \in Nat /\ last.addr \in Nat /\ last.file \in Nat /\ last.line \in Nat
    <3> HIDE DEF rows, last
    <3> QED
      BY <1>1 DEF Rows
  <2> HIDE DEF rows, last
  <2> QED
    BY <1>1, <2>1
<1>3. o1 \in LineOps /\ o2 \in LineOps /\ o3 \in LineOps
  <2> HIDE DEF rows, last
  <2> QED
    BY <1>2, OpType DEF OpNames
<1>4. LeadsTo(u, t, m1, body, m2)
  BY <1>0, RowsLead
<1>5. Advance(u, t, Registers(b0), o1) = m1
  <2>1. Registers(b0) = Regs(0, 1, 1, b0)
    BY DEF Registers, Regs
  <2>2. Advance(u, t, Regs(0, 1, 1, b0), o1) = Regs(rows[1].addr, 1, 1, b0)
    <3> DEFINE x == rows[1].addr
    <3>1. x \in Int
      BY <1>2
    <3> HIDE DEF x
    <3>2. Advance(u, t, Regs(0, 1, 1, b0), Operation("set_address", x)) = Regs(x, 1, 1, b0)
      BY <1>2, <3>1, SetAddressIs
    <3> QED
      BY <3>2 DEF x
  <2> QED
    BY <2>1, <2>2
<1>6. Advance(u, t, m2, o2) = m3
  <2> DEFINE a == last.addr
             f == last.file
             l == last.line
             x == seq.end - last.addr
             b == B[N]
  <2>1. a \in Int /\ f \in Int /\ l \in Int /\ x \in Int /\ a + x = seq.end /\ b \in Match
    BY <1>1, <1>2
  <2> HIDE DEF a, f, l, x, b
  <2>2. Advance(u, t, Regs(a, f, l, b), Operation("advance_pc", x)) = Regs(a + x, f, l, b)
    BY <2>1, AdvancePcIs
  <2>3. Advance(u, t, Regs(a, f, l, b), Operation("advance_pc", x)) = Regs(seq.end, f, l, b)
    BY <2>1, <2>2, Zenon
  <2> QED
    BY <2>3, Zenon DEF a, f, l, x, b, AtRow
<1>7. m4 \in Machine /\ m4.ended /\ m4.best = Closer(u, t, EndRow(seq), B[N])
  <2> DEFINE f == last.file
             l == last.line
             b == B[N]
             e == seq.end
  <2>1. f \in Int /\ l \in Int /\ b \in Match /\ e \in Int
    BY <1>1, <1>2
  <2>2. EndRow(seq) = RowAt(e, f, l)
    BY DEF EndRow
  <2> HIDE DEF f, l, b, e
  <2> DEFINE k == Advance(u, t, Regs(e, f, l, b), Operation("end_sequence", 0))
  <2>3. k = Advance(u, t, Regs(e, f, l, b), Operation("end_sequence", 0)) /\ 0 \in Int
    OBVIOUS
  <2>4. m4 = k
    BY Zenon DEF f, l, b, e
  <2> HIDE DEF k, m4
  <2>5. k \in Machine /\ k.ended /\ k.best = Closer(u, t, RowAt(e, f, l), b)
    BY <2>1, <2>3, EndIs
  <2> QED
    BY <2>2, <2>4, <2>5, Zenon DEF b
<1>8. Registers(b0) \in Machine /\ m1 \in Machine /\ m2 \in Machine
  <2>1. Registers(b0) = Regs(0, 1, 1, b0)
    BY DEF Registers, Regs
  <2>2. 0 \in Int /\ 1 \in Int
    OBVIOUS
  <2>3. Registers(b0) \in Machine
    BY <2>1, <2>2, RegsType
  <2> DEFINE x == rows[1].addr
             a == last.addr
             f == last.file
             l == last.line
             b == B[N]
  <2>4. x \in Int /\ a \in Int /\ f \in Int /\ l \in Int /\ b \in Match
    BY <1>1, <1>2
  <2> HIDE DEF x, a, f, l, b
  <2>5. Regs(x, 1, 1, b0) \in Machine /\ Regs(a, f, l, b) \in Machine
    BY <2>2, <2>4, RegsType
  <2> QED
    BY <2>3, <2>5, Zenon DEF x, a, f, l, b, AtRow
<1>9. AssembledSequence(u, style, seq) = (<<o1>> \o body) \o <<o2, o3>>
  BY Zenon DEF AssembledSequence, RowOps, RowFrom, RowAt
<1> HIDE DEF o1, o2, o3, m1, m2, m3, body, LineOps, Machine
<1>10. LeadsTo(u, t, Registers(b0), <<o1>>, m1)
  BY <1>3, <1>5, <1>8, LeadsOne
<1>11. LeadsTo(u, t, m2, <<o2, o3>>, m4)
  BY <1>3, <1>6, <1>8, LeadsOne
<1> HIDE DEF m4
<1>12. LeadsTo(u, t, Registers(b0), <<o1>> \o body, m2)
  BY <1>4, <1>8, <1>10, LeadsBoth
<1>13. LeadsTo(u, t, Registers(b0), (<<o1>> \o body) \o <<o2, o3>>, m4)
  BY <1>8, <1>11, <1>12, LeadsBoth
<1> QED
  BY <1>7, <1>9, <1>13, Zenon

(* The sequences of a unit *)
LEMMA UnitSequence ==
  ASSUME NEW u, IsUnit(u), NEW k \in 1..Len(u.seqs)
  PROVE  IsSequence(u.seqs[k]) /\ 1 \in 1..Len(u.seqs)
BY DEF IsUnit

(* The program of a unit shows the rows of its first sequence, and its end *)
LEMMA UnitRun ==
  ASSUME NEW u, IsUnit(u), NEW t \in Nat, NEW b0 \in Match, NEW B, Nearest(u, t, SequenceOf(u).rows, b0, B)
  PROVE  Run(u, t, b0) = Closer(u, t, EndRow(SequenceOf(u)), B[Len(SequenceOf(u).rows)])
<1>1. PICK style : u.program = Program(u, style, u.seqs)
  BY DEF IsUnit
<1> DEFINE ss == [k \in DOMAIN u.seqs |-> AssembledSequence(u, style, u.seqs[k])]
           N == Len(u.seqs)
           s == Registers(b0)
<1>2. /\ N \in Nat \ {0} /\ Len(ss) = N
      /\ \A k \in 1..N : ss[k] = AssembledSequence(u, style, u.seqs[k]) /\ IsSequence(u.seqs[k])
  <2>1. N \in Nat \ {0} /\ DOMAIN u.seqs = 1..N /\ \A k \in 1..N : IsSequence(u.seqs[k])
    BY DEF IsUnit
  <2> HIDE DEF N
  <2>2. Len(ss) = N /\ \A k \in 1..N : ss[k] = AssembledSequence(u, style, u.seqs[k])
    BY <2>1
  <2> QED
    BY <2>1, <2>2
<1>3. s \in Machine
  <2>1. s = Regs(0, 1, 1, b0) /\ 0 \in Int /\ 1 \in Int
    BY DEF Registers, Regs
  <2> QED
    BY <2>1, RegsType
<1>4. PICK m \in Machine : /\ LeadsTo(u, t, s, ss[1], m) /\ m.ended
                           /\ m.best = Closer(u, t, EndRow(SequenceOf(u)), B[Len(SequenceOf(u).rows)])
  <2>1. 1 \in 1..N
    BY <1>2
  <2>2. ss[1] = AssembledSequence(u, style, SequenceOf(u)) /\ IsSequence(SequenceOf(u))
    BY <1>2, <2>1 DEF SequenceOf
  <2> HIDE DEF s, ss
  <2>3. \E m \in Machine : /\ LeadsTo(u, t, Registers(b0), AssembledSequence(u, style, SequenceOf(u)), m)
                           /\ m.ended
                           /\ m.best = Closer(u, t, EndRow(SequenceOf(u)), B[Len(SequenceOf(u).rows)])
    BY <2>2, SequenceLeads
  <2> QED
    BY <2>2, <2>3, Zenon DEF s
<1>5. ASSUME NEW k \in 1..N
      PROVE  ss[k] \in Seq(LineOps)
  <2>1. IsSequence(u.seqs[k]) /\ ss[k] = AssembledSequence(u, style, u.seqs[k])
    BY <1>2
  <2>2. u.seqs[k].rows \in Seq(Rows)
    BY <2>1, SequenceRows DEF IsRows
  <2>3. PICK C : Nearest(u, t, u.seqs[k].rows, b0, C)
    BY <2>2, NearestExists
  <2> HIDE DEF ss
  <2>4. \E n \in Machine : LeadsTo(u, t, Registers(b0), AssembledSequence(u, style, u.seqs[k]), n)
    BY <2>1, <2>3, SequenceLeads
  <2> QED
    BY <2>1, <2>4 DEF LeadsTo
<1> HIDE DEF ss, s, N
<1>6. PICK f : /\ f[1] = ss[1] /\ \A i \in 1..N : f[i] \in Seq(LineOps)
               /\ \A i \in 1..N - 1 : f[i + 1] = f[i] \o ss[i + 1]
               /\ FlattenSeq(ss) = f[N]
  <2>1. Len(ss) \in Nat \ {0} /\ \A i \in 1..Len(ss) : ss[i] \in Seq(LineOps)
    BY <1>2, <1>5
  <2> HIDE DEF LineOps
  <2>2. \E f : /\ f[1] = ss[1] /\ \A i \in 1..Len(ss) : f[i] \in Seq(LineOps)
               /\ \A i \in 1..Len(ss) - 1 : f[i + 1] = f[i] \o ss[i + 1]
               /\ FlattenSeq(ss) = f[Len(ss)]
    BY <2>1, FlattenIs, Zenon
  <2>3. Len(ss) = N
    BY <1>2
  <2> QED
    BY <2>2, <2>3, Zenon
<1> DEFINE Led == {n \in Nat : n + 1 <= N => LeadsTo(u, t, s, f[n + 1], m)}
<1>7. 0 \in Led
  <2>1. LeadsTo(u, t, s, f[0 + 1], m)
    BY <1>4, <1>6
  <2> QED
    BY <2>1
<1>8. ASSUME NEW n \in Nat, n \in Led
      PROVE  n + 1 \in Led
  <2> SUFFICES ASSUME (n + 1) + 1 <= N
               PROVE  LeadsTo(u, t, s, f[(n + 1) + 1], m)
    OBVIOUS
  <2> DEFINE k == n + 1
  <2>1. k \in 1..N - 1 /\ k + 1 \in 1..N /\ k <= N
    BY <1>2
  <2>2. LeadsTo(u, t, s, f[k], m)
    BY <1>8, <2>1
  <2> HIDE DEF k
  <2>3. ss[k + 1] \in Seq(LineOps)
    BY <1>5, <2>1
  <2>4. LeadsTo(u, t, m, ss[k + 1], m)
    BY <1>4, <2>3, ExecEnded DEF LeadsTo
  <2>5. LeadsTo(u, t, s, f[k] \o ss[k + 1], m)
    BY <1>3, <2>2, <2>4, LeadsBoth
  <2>6. f[k + 1] = f[k] \o ss[k + 1]
    BY <1>6, <2>1
  <2> QED
    BY <2>5, <2>6, Zenon DEF k
<1> HIDE DEF Led
<1>9. Nat \subseteq Led
  BY <1>7, <1>8, SetInduction
<1>10. LeadsTo(u, t, s, f[N], m)
  <2> DEFINE n == N - 1
  <2>1. n \in Nat /\ n + 1 = N /\ n + 1 <= N
    BY <1>2
  <2> HIDE DEF n
  <2>2. LeadsTo(u, t, s, f[n + 1], m)
    BY <1>9, <2>1 DEF Led
  <2> QED
    BY <2>1, <2>2, Zenon
<1>11. u.program = f[N]
  <2>1. FlattenSeq(ss) = f[N]
    BY <1>6
  <2> QED
    BY <1>1, <2>1, Zenon DEF Program, ss
<1>12. Run(u, t, b0) = Exec(u, t, Registers(b0), u.program).best
  BY Zenon DEF Run, Exec, Steps, IsExec, Advance, Registers
<1>13. Exec(u, t, s, f[N]) = m
  BY <1>10 DEF LeadsTo
<1> QED
  BY <1>4, <1>11, <1>12, <1>13, Zenon DEF s

(* A row behind the target by less than d *)
Nearer(u, t, row, d) == row.addr <= t /\ t - row.addr < d /\ row.file <= u.files

(* A row that is not nearer changes nothing; and what is farther than d *)
(* stays farther when the row is                                          *)
LEMMA CloserIs ==
  ASSUME NEW u, IsUnit(u), NEW t \in Nat, NEW row \in Rows, NEW b \in Match
  PROVE  /\ ~Nearer(u, t, row, b.diff) => Closer(u, t, row, b) = b
         /\ Nearer(u, t, row, b.diff) =>
              Closer(u, t, row, b) = [diff |-> t - row.addr, unit |-> u.name, file |-> row.file, line |-> row.line]
         /\ \A d \in Int : d < b.diff /\ ~Nearer(u, t, row, d + 1) => d < Closer(u, t, row, b).diff
<1>1. /\ row.addr \in Int /\ row.file \in Int /\ u.files \in Int /\ b.diff \in Int
  BY UnitIs DEF Rows, Match
<1>2. CASE ~Nearer(u, t, row, b.diff)
  <2>1. Closer(u, t, row, b) = b
    BY <1>1, <1>2 DEF Nearer, Closer
  <2> QED
    BY <1>2, <2>1
<1>3. CASE Nearer(u, t, row, b.diff)
  <2>1. Closer(u, t, row, b) = [diff |-> t - row.addr, unit |-> u.name, file |-> row.file, line |-> row.line]
    BY <1>1, <1>3 DEF Nearer, Closer
  <2>2. Closer(u, t, row, b).diff = t - row.addr
    BY <2>1
  <2>3. ASSUME NEW d \in Int, ~Nearer(u, t, row, d + 1)
        PROVE  d < t - row.addr
    BY <1>1, <1>3, <2>3 DEF Nearer
  <2> QED
    BY <1>3, <2>1, <2>2, <2>3
<1> QED
  BY <1>2, <1>3

(* Rows that are farther than d leave a best that is farther than d *)
LEMMA NearestFar ==
  ASSUME NEW u, IsUnit(u), NEW t \in Nat, NEW rows, IsRows(rows), NEW b0 \in Match,
         NEW B, Nearest(u, t, rows, b0, B), NEW d \in Int, d < b0.diff,
         NEW m \in 0..Len(rows), \A k \in 1..m : ~Nearer(u, t, rows[k], d + 1)
  PROVE  d < B[m].diff
<1> DEFINE N == Len(rows)
           Far == {n \in Nat : n <= m => d < B[n].diff}
<1>0. /\ N \in Nat /\ m \in Nat /\ m <= N
      /\ B[0] = b0 /\ \A k \in 0..N : B[k] \in Match
      /\ \A k \in 1..N : rows[k] \in Rows /\ B[k] = Closer(u, t, rows[k], B[k - 1])
  <2>1. N \in Nat /\ \A k \in 1..N : rows[k] \in Rows
    BY DEF IsRows
  <2>2. B \in [0..N -> Match] /\ B[0] = b0 /\ \A k \in 1..N : B[k] = Closer(u, t, rows[k], B[k - 1])
    BY DEF Nearest
  <2>3. m \in Nat /\ m <= N
    BY <2>1
  <2> HIDE DEF N, Match, Rows, Closer
  <2> QED
    BY <2>1, <2>2, <2>3
<1> HIDE DEF N, Match, Rows
<1>1. 0 \in Far
  BY <1>0
<1>2. ASSUME NEW n \in Nat, n \in Far
      PROVE  n + 1 \in Far
  <2> SUFFICES ASSUME n + 1 <= m
               PROVE  d < B[n + 1].diff
    OBVIOUS
  <2> DEFINE row == rows[n + 1]
             b == B[n]
  <2>1. n + 1 \in 1..N /\ n + 1 \in 1..m /\ n \in 0..N /\ (n + 1) - 1 = n /\ n <= m
    BY <1>0
  <2>2. row \in Rows /\ b \in Match /\ B[n + 1] = Closer(u, t, row, b) /\ d < b.diff /\ ~Nearer(u, t, row, d + 1)
    BY <1>0, <1>2, <2>1
  <2> HIDE DEF row, b
  <2>3. d < Closer(u, t, row, b).diff
    BY <2>2, CloserIs
  <2> QED
    BY <2>2, <2>3
<1> HIDE DEF Far
<1>3. Nat \subseteq Far
  BY <1>1, <1>2, SetInduction
<1> QED
  BY <1>0, <1>3 DEF Far

(* Rows that are not nearer change nothing *)
LEMMA NearestKept ==
  ASSUME NEW u, IsUnit(u), NEW t \in Nat, NEW rows, IsRows(rows), NEW b0 \in Match,
         NEW B, Nearest(u, t, rows, b0, B), NEW c \in 0..Len(rows),
         \A k \in c + 1..Len(rows) : ~Nearer(u, t, rows[k], B[c].diff)
  PROVE  B[Len(rows)] = B[c]
<1> DEFINE N == Len(rows)
           best == B[c]
           Kept == {n \in Nat : c <= n /\ n <= N => B[n] = best}
<1>0. /\ N \in Nat /\ c \in Nat /\ c <= N
      /\ \A k \in 0..N : B[k] \in Match
      /\ \A k \in 1..N : rows[k] \in Rows /\ B[k] = Closer(u, t, rows[k], B[k - 1])
      /\ \A k \in c + 1..N : ~Nearer(u, t, rows[k], best.diff)
      /\ best = B[c]
  <2>1. N \in Nat /\ \A k \in 1..N : rows[k] \in Rows
    BY DEF IsRows
  <2>2. B \in [0..N -> Match] /\ \A k \in 1..N : B[k] = Closer(u, t, rows[k], B[k - 1])
    BY DEF Nearest
  <2>3. c \in Nat /\ c <= N
    BY <2>1
  <2>4. \A k \in c + 1..N : ~Nearer(u, t, rows[k], best.diff)
    OBVIOUS
  <2> HIDE DEF N, Match, Rows, Closer
  <2> QED
    BY <2>1, <2>2, <2>3, <2>4
<1> HIDE DEF N, Match, Rows, Closer, best
<1>1. 0 \in Kept
  BY <1>0
<1>2. ASSUME NEW n \in Nat, n \in Kept
      PROVE  n + 1 \in Kept
  <2> SUFFICES ASSUME c <= n + 1, n + 1 <= N
               PROVE  B[n + 1] = best
    OBVIOUS
  <2>1. CASE c = n + 1
    BY <1>0, <2>1
  <2>2. CASE c # n + 1
    <3> DEFINE row == rows[n + 1]
    <3>1. n + 1 \in 1..N /\ n + 1 \in c + 1..N /\ n \in 0..N /\ (n + 1) - 1 = n /\ n <= N /\ c <= n
      BY <1>0, <2>2
    <3>2. B[n] = best
      BY <1>2, <3>1
    <3>3. row \in Rows /\ best \in Match /\ B[n + 1] = Closer(u, t, row, best) /\ ~Nearer(u, t, row, best.diff)
      BY <1>0, <3>1, <3>2
    <3> HIDE DEF row
    <3>4. Closer(u, t, row, best) = best
      BY <3>3, CloserIs
    <3> QED
      BY <3>3, <3>4
  <2> QED
    BY <2>1, <2>2
<1> HIDE DEF Kept
<1>3. Nat \subseteq Kept
  BY <1>1, <1>2, SetInduction
<1>4. N \in Kept /\ c <= N /\ N <= N
  BY <1>0, <1>3
<1>5. B[N] = best
  BY <1>4 DEF Kept
<1> QED
  BY <1>5 DEF N, best

(* The rows of the first sequence of a unit *)
LEMMA UnitRows ==
  ASSUME NEW u, IsUnit(u), NEW t \in Nat, NEW b0 \in Match
  PROVE  /\ IsSequence(SequenceOf(u)) /\ IsRows(SequenceOf(u).rows) /\ EndRow(SequenceOf(u)) \in Rows
         /\ \E B : Nearest(u, t, SequenceOf(u).rows, b0, B)
<1>1. IsSequence(SequenceOf(u))
  BY DEF IsUnit, SequenceOf
<1>2. IsRows(SequenceOf(u).rows) /\ EndRow(SequenceOf(u)) \in Rows
  BY <1>1, SequenceRows
<1>3. SequenceOf(u).rows \in Seq(Rows)
  BY <1>2 DEF IsRows
<1> QED
  BY <1>1, <1>2, <1>3, NearestExists

(* At first nothing is known *)
LEMMA NoMatchIs == NoMatch \in Match /\ NoMatch.diff = Farthest /\ Farthest \in Int
<1>1. Farthest \in Int
  BY DEF Farthest
<1> HIDE DEF Farthest
<1> QED
  BY <1>1 DEF NoMatch, Match

(* The rows of the first sequence lie between its start and its end *)
LEMMA UnitStops ==
  ASSUME NEW u, IsUnit(u)
  PROVE  /\ Stops(u) \in Nat /\ Stops(u) < Farthest /\ IsRows(SequenceOf(u).rows)
         /\ EndRow(SequenceOf(u)).addr = Stops(u)
         /\ \A k \in 1..Len(SequenceOf(u).rows) :
              /\ SequenceOf(u).rows[k].addr \in Nat
              /\ Starts(u) <= SequenceOf(u).rows[k].addr /\ SequenceOf(u).rows[k].addr <= Stops(u)
         /\ Starts(u) \in Nat /\ Starts(u) <= Stops(u)
<1> DEFINE seq == SequenceOf(u)
           rows == seq.rows
           N == Len(rows)
<1>1. IsSequence(seq)
  BY DEF IsUnit, SequenceOf
<1>2. IsRows(rows)
  BY <1>1, SequenceRows
<1>3. Stops(u) = seq.end /\ seq.end \in Nat /\ seq.end < Farthest /\ rows[N].addr <= seq.end
  BY <1>1 DEF IsSequence, Stops
<1>4. Starts(u) = rows[1].addr /\ EndRow(seq).addr = seq.end
  BY DEF Starts, EndRow, RowAt
<1> HIDE DEF seq, rows
<1>5. /\ N \in Nat \ {0} /\ \A k \in 1..N : rows[k].addr \in Nat
      /\ \A i, j \in 1..N : i <= j => rows[i].addr <= rows[j].addr
  BY <1>2 DEF IsRows, Rows
<1>6. 1 \in 1..N /\ N \in 1..N /\ \A k \in 1..N : 1 <= k /\ k <= N
  BY <1>5
<1> HIDE DEF N
<1>7. \A k \in 1..N : rows[k].addr \in Nat /\ rows[1].addr <= rows[k].addr /\ rows[k].addr <= seq.end
  BY <1>3, <1>5, <1>6
<1> QED
  BY <1>2, <1>3, <1>4, <1>6, <1>7 DEF N, rows, seq

(* A unit with rows that are farther than d only *)
IsFar(u, t, d) ==
  /\ \A k \in 1..Len(SequenceOf(u).rows) : ~Nearer(u, t, SequenceOf(u).rows[k], d)
  /\ ~Nearer(u, t, EndRow(SequenceOf(u)), d)

(* Such a unit leaves a best that is farther than d *)
LEMMA RunFar ==
  ASSUME NEW u, IsUnit(u), NEW t \in Nat, NEW b0 \in Match, NEW d \in Int, d < b0.diff, IsFar(u, t, d + 1)
  PROVE  Run(u, t, b0) \in Match /\ d < Run(u, t, b0).diff
<1> DEFINE rows == SequenceOf(u).rows
           e == EndRow(SequenceOf(u))
           N == Len(rows)
<1>1. IsRows(rows) /\ e \in Rows
  BY UnitRows
<1>2. PICK B : Nearest(u, t, rows, b0, B)
  BY UnitRows
<1>3. Run(u, t, b0) = Closer(u, t, e, B[N])
  BY <1>2, UnitRun
<1>4. (\A k \in 1..N : ~Nearer(u, t, rows[k], d + 1)) /\ ~Nearer(u, t, e, d + 1)
  BY DEF IsFar
<1> HIDE DEF rows, e
<1>5. N \in 0..N /\ B[N] \in Match
  BY <1>1, <1>2 DEF IsRows, Nearest
<1>6. d < B[N].diff
  BY <1>1, <1>2, <1>4, <1>5, NearestFar
<1> HIDE DEF N
<1>7. Closer(u, t, e, B[N]) \in Match
  BY <1>1, <1>5, CloserOf
<1>8. d < Closer(u, t, e, B[N]).diff
  BY <1>1, <1>4, <1>5, <1>6, CloserIs
<1> QED
  BY <1>3, <1>7, <1>8

(* A unit that is not nearer anywhere changes nothing *)
LEMMA RunKeeps ==
  ASSUME NEW u, IsUnit(u), NEW t \in Nat, NEW b0 \in Match, IsFar(u, t, b0.diff)
  PROVE  Run(u, t, b0) = b0
<1> DEFINE rows == SequenceOf(u).rows
           e == EndRow(SequenceOf(u))
           N == Len(rows)
<1>1. IsRows(rows) /\ e \in Rows
  BY UnitRows
<1>2. PICK B : Nearest(u, t, rows, b0, B)
  BY UnitRows
<1>3. Run(u, t, b0) = Closer(u, t, e, B[N])
  BY <1>2, UnitRun
<1>4. (\A k \in 1..N : ~Nearer(u, t, rows[k], b0.diff)) /\ ~Nearer(u, t, e, b0.diff)
  BY DEF IsFar
<1> HIDE DEF rows, e
<1>5. 0 \in 0..N /\ B[0] = b0 /\ 0 + 1 = 1
  BY <1>1, <1>2 DEF IsRows, Nearest
<1>6. B[N] = B[0]
  BY <1>1, <1>2, <1>4, <1>5, NearestKept
<1>7. Closer(u, t, e, b0) = b0
  BY <1>1, <1>4, CloserIs
<1> QED
  BY <1>3, <1>5, <1>6, <1>7

(* A row that is nearer than all before it and not farther than any behind *)
IsNearest(u, t, c) ==
  LET rows == SequenceOf(u).rows
      d    == t - rows[c].addr
  IN /\ c \in 1..Len(rows) /\ rows[c].addr <= t
     /\ \A k \in 1..c - 1 : ~Nearer(u, t, rows[k], d + 1)
     /\ \A k \in c + 1..Len(rows) : ~Nearer(u, t, rows[k], d)
     /\ ~Nearer(u, t, EndRow(SequenceOf(u)), d)

MatchOf(u, t, row) == [diff |-> t - row.addr, unit |-> u.name, file |-> row.file, line |-> row.line]

(* Such a row is what the program of its unit finds *)
LEMMA RunFinds ==
  ASSUME NEW u, IsUnit(u), NEW t \in Nat, NEW b0 \in Match, NEW c, IsNearest(u, t, c),
         NEW row, row = SequenceOf(u).rows[c], row.file <= u.files, t - row.addr < b0.diff
  PROVE  Run(u, t, b0) = MatchOf(u, t, row) /\ MatchOf(u, t, row) \in Match
<1> DEFINE rows == SequenceOf(u).rows
           e == EndRow(SequenceOf(u))
           N == Len(rows)
           d == t - row.addr
           best == MatchOf(u, t, row)
<1>1. IsRows(rows) /\ e \in Rows
  BY UnitRows
<1>2. PICK B : Nearest(u, t, rows, b0, B)
  BY UnitRows
<1>3. Run(u, t, b0) = Closer(u, t, e, B[N])
  BY <1>2, UnitRun
<1>4. /\ c \in 1..N /\ row.addr <= t
      /\ \A k \in 1..c - 1 : ~Nearer(u, t, rows[k], d + 1)
      /\ \A k \in c + 1..N : ~Nearer(u, t, rows[k], d)
      /\ ~Nearer(u, t, e, d)
  BY DEF IsNearest
<1>5. row = rows[c]
  OBVIOUS
<1> HIDE DEF rows, e
<1>6. /\ row \in Rows /\ N \in Nat /\ c \in Nat /\ c - 1 \in 0..N /\ c \in 0..N
      /\ B[c - 1] \in Match /\ B[c] = Closer(u, t, row, B[c - 1])
  <2>1. N \in Nat /\ c \in Nat /\ c - 1 \in 0..N /\ c \in 0..N
    BY <1>1, <1>4 DEF IsRows
  <2>2. row \in Rows
    BY <1>1, <1>4, <1>5 DEF IsRows
  <2>3. B[c - 1] \in Match /\ B[c] = Closer(u, t, rows[c], B[c - 1])
    BY <1>2, <1>4, <2>1 DEF Nearest
  <2> QED
    BY <1>5, <2>1, <2>2, <2>3
<1>7. row.addr \in Int /\ row.file \in Int /\ row.line \in Int /\ u.name \in STRING /\ d \in Int
  BY <1>6, UnitIs DEF Rows
<1>8. best \in Match /\ best.diff = d
  BY <1>7 DEF Match, MatchOf
<1>9. d < B[c - 1].diff
  <2> HIDE DEF d
  <2> DEFINE m == c - 1
  <2>1. m \in 0..N /\ \A k \in 1..m : ~Nearer(u, t, rows[k], d + 1)
    BY <1>4, <1>6
  <2>2. d < b0.diff
    BY DEF d
  <2> HIDE DEF m, N
  <2>3. d < B[m].diff
    BY <1>1, <1>2, <1>7, <2>1, <2>2, NearestFar DEF N
  <2> QED
    BY <2>3 DEF m
<1>10. B[c] = best
  <2>1. Nearer(u, t, row, B[c - 1].diff)
    BY <1>4, <1>9 DEF Nearer
  <2> DEFINE b == B[c - 1]
  <2>2. b \in Match /\ Nearer(u, t, row, b.diff) /\ B[c] = Closer(u, t, row, b)
    BY <1>6, <2>1
  <2> HIDE DEF b
  <2>3. Closer(u, t, row, b) = [diff |-> t - row.addr, unit |-> u.name, file |-> row.file, line |-> row.line]
    BY <1>6, <2>2, CloserIs
  <2> QED
    BY <2>2, <2>3 DEF MatchOf
<1> HIDE DEF best, d
<1>11. B[N] = B[c]
  <2>1. \A k \in c + 1..N : ~Nearer(u, t, rows[k], B[c].diff)
    BY <1>4, <1>8, <1>10
  <2> QED
    BY <1>1, <1>2, <1>6, <2>1, NearestKept
<1>12. Closer(u, t, e, best) = best
  BY <1>1, <1>4, <1>8, CloserIs
<1> QED
  BY <1>3, <1>8, <1>10, <1>11, <1>12 DEF best

(* The greatest of a bounded set of numbers *)
LEMMA MaxIs ==
  ASSUME NEW S \in SUBSET Nat, S # {}, NEW a \in Nat, \A x \in S : x <= a
  PROVE  Max(S) \in S /\ \A x \in S : x <= Max(S)
<1> DEFINE T == {n \in Nat : \E x \in S : n = a - x}
<1>1. T \in SUBSET Nat /\ T # {}
  <2>1. PICK x \in S : TRUE
    OBVIOUS
  <2>2. a - x \in T
    BY <2>1
  <2> QED
    BY <2>2
<1>2. PICK y \in T : \A z \in T : y <= z
  BY <1>1, LeastElement
<1>3. PICK x \in S : y = a - x
  BY <1>2
<1>4. \A z \in S : x >= z
  <2> TAKE z \in S
  <2>1. a - z \in T /\ z \in Nat /\ x \in Nat
    OBVIOUS
  <2>2. a - x <= a - z
    BY <1>2, <1>3, <2>1
  <2> QED
    BY <2>1, <2>2
<1>5. Max(S) \in S /\ \A z \in S : Max(S) >= z
  <2> DEFINE IsMax(w) == \A z \in S : w >= z
  <2>1. IsMax(x)
    BY <1>4
  <2>2. Max(S) = CHOOSE w \in S : IsMax(w)
    BY DEF Max
  <2> HIDE DEF IsMax
  <2>3. Max(S) \in S /\ IsMax(Max(S))
    BY <2>1, <2>2, Zenon
  <2> QED
    BY <2>3 DEF IsMax
<1> QED
  BY <1>5

(* The least of a set of numbers *)
LEMMA MinIs ==
  ASSUME NEW S \in SUBSET Nat, S # {}
  PROVE  Min(S) \in S /\ \A x \in S : Min(S) <= x
<1> DEFINE IsMin(w) == \A z \in S : w <= z
<1>1. PICK x \in S : IsMin(x)
  BY LeastElement
<1>2. Min(S) = CHOOSE w \in S : IsMin(w)
  BY DEF Min
<1> HIDE DEF IsMin
<1>3. Min(S) \in S /\ IsMin(Min(S))
  BY <1>1, <1>2, Zenon
<1> QED
  BY <1>3 DEF IsMin

(* The row of an address inside of a sequence *)
LEMMA RowForIs ==
  ASSUME NEW u, IsUnit(u), NEW a \in Nat, Starts(u) <= a, a < Stops(u)
  PROVE  \E c \in 1..Len(SequenceOf(u).rows) :
           /\ RowFor(u, a) = SequenceOf(u).rows[c] /\ IsNearest(u, a, c)
           /\ Starts(u) <= RowFor(u, a).addr /\ RowFor(u, a).addr <= a /\ RowFor(u, a) \in Rows
<1> DEFINE rows == SequenceOf(u).rows
           N == Len(rows)
           e == EndRow(SequenceOf(u))
           before == {k \in DOMAIN rows : rows[k].addr <= a}
           S == {rows[k].addr : k \in before}
           last == Max(S)
           T == {k \in before : rows[k].addr = last}
           c == Min(T)
<1>1. IsRows(rows)
  BY UnitStops
<1>2. /\ N \in Nat \ {0} /\ DOMAIN rows = 1..N
      /\ \A k \in 1..N : rows[k] \in Rows /\ rows[k].addr \in Nat
      /\ \A i, j \in 1..N : i <= j => rows[i].addr <= rows[j].addr
  <2>1. \A k \in 1..N : rows[k] \in Rows
    BY <1>1 DEF IsRows
  <2>2. \A k \in 1..N : rows[k].addr \in Nat
    <3> HIDE DEF rows
    <3> QED
      BY <2>1 DEF Rows
  <2>3. N \in Nat \ {0} /\ \A i, j \in 1..N : i <= j => rows[i].addr <= rows[j].addr
    BY <1>1 DEF IsRows
  <2>4. rows \in Seq(Rows)
    BY <1>1 DEF IsRows
  <2> HIDE DEF rows, Rows
  <2>5. DOMAIN rows = 1..N
    BY <2>4
  <2> QED
    BY <2>1, <2>2, <2>3, <2>5
<1>3. RowFor(u, a) = rows[c]
  BY Zenon DEF RowFor
<1>4. rows[1].addr = Starts(u) /\ e.addr = Stops(u)
  BY DEF Starts, Stops, EndRow, RowAt
<1> HIDE DEF rows, N, e
<1>5. before \in SUBSET Nat /\ 1 \in before
  BY <1>2, <1>4
<1>6. S \in SUBSET Nat /\ S # {} /\ \A x \in S : x <= a
  BY <1>2, <1>5
<1> HIDE DEF S
<1>7. last \in S /\ \A x \in S : x <= last
  BY <1>6, MaxIs
<1> HIDE DEF last
<1>8. T \in SUBSET Nat /\ T # {}
  BY <1>5, <1>7 DEF S
<1> HIDE DEF T
<1>9. c \in T /\ \A x \in T : c <= x
  BY <1>8, MinIs
<1> HIDE DEF c
<1>10. c \in 1..N /\ rows[c].addr = last /\ last <= a /\ last \in Nat
  BY <1>2, <1>6, <1>7, <1>9 DEF T
<1>11. ASSUME NEW k \in 1..N, rows[k].addr <= a
       PROVE  rows[k].addr <= last
  <2>1. rows[k].addr \in S
    BY <1>2, <1>11 DEF S
  <2> QED
    BY <1>7, <2>1
<1>12. ASSUME NEW k \in 1..N, k < c
       PROVE  rows[k].addr < last
  <2>1. rows[k].addr <= last
    BY <1>2, <1>10, <1>12
  <2>2. rows[k].addr # last
    <3> SUFFICES ASSUME rows[k].addr = last
                 PROVE  FALSE
      OBVIOUS
    <3>1. k \in T
      BY <1>2, <1>10 DEF T
    <3> QED
      BY <1>2, <1>9, <1>10, <1>12, <3>1
  <2> QED
    BY <1>2, <1>10, <2>1, <2>2
<1>13. IsNearest(u, a, c)
  <2>1. \A k \in 1..c - 1 : ~Nearer(u, a, rows[k], a - rows[c].addr + 1)
    <3> TAKE k \in 1..c - 1
    <3>1. k \in 1..N /\ k < c
      BY <1>2, <1>10
    <3> QED
      BY <1>2, <1>10, <1>12, <3>1 DEF Nearer
  <2>2. \A k \in c + 1..N : ~Nearer(u, a, rows[k], a - rows[c].addr)
    <3> TAKE k \in c + 1..N
    <3>1. k \in 1..N
      BY <1>2, <1>10
    <3> QED
      BY <1>2, <1>10, <1>11, <3>1 DEF Nearer
  <2>3. ~Nearer(u, a, e, a - rows[c].addr)
    <3>1. Stops(u) \in Nat
      BY UnitStops
    <3> QED
      BY <1>4, <3>1 DEF Nearer
  <2> QED
    BY <1>10, <2>1, <2>2, <2>3 DEF IsNearest, rows, N, e
<1>14. Starts(u) <= last
  BY <1>2, <1>4, <1>10
<1> QED
  BY <1>2, <1>3, <1>10, <1>13, <1>14 DEF rows, N

(* A unit that lies apart has no row that is nearer *)
LEMMA ApartFar ==
  ASSUME NEW u, IsUnit(u), NEW v, IsUnit(v), Apart(u, v), NEW a \in Nat, a < Stops(u),
         NEW r \in Nat, Starts(u) <= r, r <= a
  PROVE  IsFar(v, a, a - r) /\ (Stops(v) # r => IsFar(v, a, (a - r) + 1))
<1> DEFINE rows == SequenceOf(v).rows
           N == Len(rows)
           e == EndRow(SequenceOf(v))
<1>1. /\ Stops(v) \in Nat /\ e.addr = Stops(v) /\ Starts(v) \in Nat /\ Starts(v) <= Stops(v)
      /\ \A k \in 1..N : rows[k].addr \in Nat /\ Starts(v) <= rows[k].addr /\ rows[k].addr <= Stops(v)
  BY UnitStops
<1>2. Stops(u) \in Nat /\ Starts(u) \in Nat
  BY UnitStops
<1> HIDE DEF rows, e, N
<1>3. Stops(u) <= Starts(v) \/ Stops(v) <= Starts(u)
  BY DEF Apart
<1>4. ASSUME NEW row, row.addr \in Nat, Starts(v) <= row.addr, row.addr <= Stops(v)
      PROVE  ~Nearer(v, a, row, a - r) /\ (Stops(v) # r => ~Nearer(v, a, row, (a - r) + 1))
  BY <1>1, <1>2, <1>3, <1>4 DEF Nearer
<1>5. ~Nearer(v, a, e, a - r) /\ (Stops(v) # r => ~Nearer(v, a, e, (a - r) + 1))
  BY <1>1, <1>4
<1>6. \A k \in 1..N : ~Nearer(v, a, rows[k], a - r) /\ (Stops(v) # r => ~Nearer(v, a, rows[k], (a - r) + 1))
  BY <1>1, <1>4
<1> QED
  BY <1>5, <1>6 DEF IsFar, rows, N, e

(* The best match after each unit *)
Visit(target, best, unit) == IF unit.version > MaxVersion THEN best ELSE Run(unit, target, best)
IsSearch(f, units, t) ==
  f = [n \in 0..Len(units) |-> IF n = 0 THEN NoMatch ELSE Visit(t, f[n - 1], units[n])]
Search(units, t) == CHOOSE f : IsSearch(f, units, t)

IsTable(units) == /\ Len(units) \in Nat /\ DOMAIN units = 1..Len(units)
                  /\ \A j \in 1..Len(units) : IsUnit(units[j])

(* A unit that has been searched gives a match *)
LEMMA VisitType ==
  ASSUME NEW u, IsUnit(u), NEW t \in Nat, NEW b \in Match
  PROVE  Visit(t, b, u) \in Match
<1>1. PICK B : Nearest(u, t, SequenceOf(u).rows, b, B)
  BY UnitRows
<1>2. Run(u, t, b) = Closer(u, t, EndRow(SequenceOf(u)), B[Len(SequenceOf(u).rows)])
  BY <1>1, UnitRun
<1>3. IsRows(SequenceOf(u).rows) /\ EndRow(SequenceOf(u)) \in Rows
  BY UnitRows
<1> DEFINE N == Len(SequenceOf(u).rows)
           c == B[N]
<1>4. N \in 0..N
  BY <1>3 DEF IsRows
<1>5. c \in Match
  BY <1>1, <1>4 DEF Nearest
<1> HIDE DEF c, N, Match
<1>6. Closer(u, t, EndRow(SequenceOf(u)), c) \in Match
  BY <1>3, <1>5, CloserOf
<1> QED
  BY <1>2, <1>6 DEF Visit, c, N

(* The matches, from none on, one unit after the other *)
LEMMA SearchIs ==
  ASSUME NEW units, IsTable(units), NEW t \in Nat
  PROVE  /\ Search(units, t)[0] = NoMatch
         /\ \A n \in 0..Len(units) : Search(units, t)[n] \in Match
         /\ \A n \in 1..Len(units) : Search(units, t)[n] = Visit(t, Search(units, t)[n - 1], units[n])
<1> DEFINE N == Len(units)
           step == [n \in Nat |-> [b \in Match |-> IF n < N THEN Visit(t, b, units[n + 1]) ELSE b]]
<1>0. N \in Nat /\ \A j \in 1..N : IsUnit(units[j])
  BY DEF IsTable
<1> HIDE DEF N
<1>1. \A n \in Nat, b \in Match : n < N => Visit(t, b, units[n + 1]) \in Match
  BY <1>0, VisitType
<1>2. NoMatch \in Match
  BY NoMatchIs
<1> HIDE DEF Match, Visit, NoMatch
<1>3. step \in Stepping(Match)
  BY <1>1 DEF Stepping
<1>4. \A n \in Nat, b \in Match : n < N => step[n][b] = Visit(t, b, units[n + 1])
  OBVIOUS
<1> HIDE DEF step
<1>5. PICK g : Recurs(g, Match, NoMatch, step)
  BY <1>2, <1>3, Recursion, Zenon
<1> DEFINE f == [n \in 0..N |-> g[n]]
<1>6. g \in [Nat -> Match] /\ g[0] = NoMatch /\ \A n \in Nat : g[n + 1] = step[n][g[n]]
  BY <1>5 DEF Recurs
<1>7. f \in [0..N -> Match] /\ f[0] = NoMatch
  BY <1>0, <1>6
<1>8. ASSUME NEW n \in 1..N
      PROVE  f[n] = Visit(t, f[n - 1], units[n])
  <2>1. n - 1 \in Nat /\ n - 1 < N /\ (n - 1) + 1 = n /\ n \in 0..N /\ n - 1 \in 0..N
    BY <1>0
  <2>2. g[(n - 1) + 1] = step[n - 1][g[n - 1]] /\ g[n - 1] \in Match
    BY <1>6, <2>1
  <2>3. step[n - 1][g[n - 1]] = Visit(t, g[n - 1], units[(n - 1) + 1])
    BY <1>4, <2>1, <2>2
  <2> QED
    BY <2>1, <2>2, <2>3
<1> HIDE DEF f
<1>9. IsSearch(f, units, t)
  <2>1. f = [n \in 0..N |-> f[n]]
    BY <1>7
  <2>2. \A n \in 0..N : f[n] = IF n = 0 THEN NoMatch ELSE Visit(t, f[n - 1], units[n])
    BY <1>0, <1>7, <1>8
  <2> QED
    BY <2>1, <2>2 DEF IsSearch, N
<1> DEFINE h == Search(units, t)
<1>10. IsSearch(h, units, t)
  BY <1>9, Zenon DEF Search
<1> HIDE DEF h
<1>11. h[0] = NoMatch /\ \A n \in 1..N : h[n] = Visit(t, h[n - 1], units[n])
  BY <1>0, <1>10 DEF IsSearch, N
<1>12. \A n \in 0..N : h[n] \in Match
  <2> DEFINE Typed == {n \in Nat : n <= N => h[n] \in Match}
  <2>1. 0 \in Typed
    BY <1>2, <1>11
  <2>2. ASSUME NEW n \in Nat, n \in Typed
        PROVE  n + 1 \in Typed
    <3> SUFFICES ASSUME n + 1 <= N
                 PROVE  h[n + 1] \in Match
      OBVIOUS
    <3>1. n + 1 \in 1..N /\ (n + 1) - 1 = n /\ n < N /\ n <= N
      BY <1>0
    <3>2. h[n + 1] = Visit(t, h[n], units[n + 1])
      BY <1>11, <3>1
    <3> QED
      BY <1>1, <2>2, <3>1, <3>2
  <2> HIDE DEF Typed
  <2>3. Nat \subseteq Typed
    BY <2>1, <2>2, SetInduction
  <2> QED
    BY <1>0, <2>3 DEF Typed
<1> QED
  BY <1>11, <1>12 DEF h, N

(* The result of the search is the match after the last unit *)
LEMMA LookupIs ==
  ASSUME NEW units, NEW t, ~\E i \in DOMAIN units : units[i].format = 64
  PROVE  LookupPc(units, t) = Search(units, t)[Len(units)]
BY Zenon DEF LookupPc, Search, IsSearch, Visit

UnitIsKnown(u) == ~(u.version > MaxVersion)

(* A unit is passed over exactly when its version is not known *)
LEMMA KnownIs ==
  ASSUME NEW u, IsUnit(u)
  PROVE  Known(u) <=> UnitIsKnown(u)
BY DEF Known, UnitIsKnown, IsUnit, MaxVersion

(* The row of an address is what the search for it finds *)
LEMMA LookupFinds ==
  ASSUME NEW units, IsTable(units), NEW t \in Nat, NEW j \in 1..Len(units),
         NEW u, u = units[j], Covers(u, t),
         NEW row, row = RowFor(u, t), row.file <= u.files,
         \A k \in 1..j - 1 : Known(units[k]) => Stops(units[k]) # row.addr,
         \A k \in 1..Len(units) : k # j /\ Known(units[k]) => Apart(u, units[k]),
         ~\E i \in DOMAIN units : units[i].format = 64
  PROVE  LookupPc(units, t) = MatchOf(u, t, row)
<1> DEFINE N == Len(units)
           h == Search(units, t)
           d == t - row.addr
           best == MatchOf(u, t, row)
<1>0. N \in Nat /\ \A k \in 1..N : IsUnit(units[k])
  BY DEF IsTable
<1>1. IsUnit(u) /\ j \in 1..N
  BY <1>0
<1>2. /\ h[0] = NoMatch /\ \A n \in 0..N : h[n] \in Match
      /\ \A n \in 1..N : h[n] = Visit(t, h[n - 1], units[n])
  BY SearchIs
<1>3. LookupPc(units, t) = h[N]
  BY LookupIs
<1> HIDE DEF h, N
<1>4. Known(u) /\ Starts(u) <= t /\ t < Stops(u)
  BY DEF Covers
<1>5. PICK c \in 1..Len(SequenceOf(u).rows) :
        /\ row = SequenceOf(u).rows[c] /\ IsNearest(u, t, c)
        /\ Starts(u) <= row.addr /\ row.addr <= t /\ row \in Rows
  BY <1>1, <1>4, RowForIs
<1>6. row.addr \in Nat
  BY <1>5 DEF Rows
<1>7. d \in Int /\ Stops(u) \in Nat /\ Stops(u) < Farthest /\ Farthest \in Int /\ d < Farthest
  <2>1. Stops(u) \in Nat /\ Stops(u) < Farthest
    BY <1>1, UnitStops
  <2>2. Farthest \in Int
    BY NoMatchIs
  <2> HIDE DEF Farthest
  <2> QED
    BY <1>4, <1>6, <2>1, <2>2
<1> HIDE DEF d, best, Farthest, NoMatch, Match
<1> DEFINE Before == {n \in Nat : n <= j - 1 => d < h[n].diff}
<1>8. 0 \in Before
  BY <1>2, <1>7, NoMatchIs
<1>9. ASSUME NEW n \in Nat, n \in Before
      PROVE  n + 1 \in Before
  <2> SUFFICES ASSUME n + 1 <= j - 1
               PROVE  d < h[n + 1].diff
    OBVIOUS
  <2> DEFINE v == units[n + 1]
             b == h[n]
  <2>1. n + 1 \in 1..N /\ n + 1 \in 1..j - 1 /\ n \in 0..N /\ (n + 1) - 1 = n /\ n <= j - 1 /\ n + 1 # j
    BY <1>0, <1>1
  <2>2. IsUnit(v) /\ b \in Match /\ d < b.diff /\ h[n + 1] = Visit(t, b, v)
    BY <1>0, <1>2, <1>9, <2>1
  <2>3. Known(v) => Apart(u, v) /\ Stops(v) # row.addr
    BY <2>1 DEF N
  <2> HIDE DEF v, b
  <2>4. CASE Known(v)
    <3>1. IsFar(v, t, d + 1)
      BY <1>1, <1>4, <1>5, <1>6, <2>2, <2>3, <2>4, ApartFar DEF d
    <3>2. d < Run(v, t, b).diff
      BY <1>7, <2>2, <3>1, RunFar
    <3>3. UnitIsKnown(v)
      BY <2>2, <2>4, KnownIs
    <3> QED
      BY <2>2, <3>2, <3>3 DEF Visit, UnitIsKnown
  <2>5. CASE ~Known(v)
    <3>1. ~UnitIsKnown(v)
      BY <2>2, <2>5, KnownIs
    <3> QED
      BY <2>2, <3>1 DEF Visit, UnitIsKnown
  <2> QED
    BY <2>4, <2>5
<1> HIDE DEF Before
<1>10. Nat \subseteq Before
  BY <1>8, <1>9, SetInduction
<1>11. h[j] = best /\ best \in Match /\ best.diff = d
  <2> DEFINE m == j - 1
             b == h[m]
  <2>1. m \in Nat /\ m \in 0..N /\ m <= j - 1 /\ j \in 1..N
    BY <1>0, <1>1
  <2>2. b \in Match /\ h[j] = Visit(t, b, u)
    BY <1>2, <2>1 DEF N
  <2>3. d < b.diff
    BY <1>10, <2>1 DEF Before
  <2> HIDE DEF b
  <2>4. h[j] = Run(u, t, b)
    <3>1. UnitIsKnown(u)
      BY <1>1, <1>4, KnownIs
    <3> QED
      BY <2>2, <3>1 DEF Visit, UnitIsKnown
  <2>5. Run(u, t, b) = MatchOf(u, t, row) /\ MatchOf(u, t, row) \in Match
    BY <1>1, <1>5, <2>2, <2>3, RunFinds DEF d
  <2>6. MatchOf(u, t, row).diff = t - row.addr
    BY DEF MatchOf
  <2> QED
    BY <2>4, <2>5, <2>6 DEF best, d
<1> DEFINE After == {n \in Nat : j <= n /\ n <= N => h[n] = best}
<1>12. 0 \in After
  BY <1>1
<1>13. ASSUME NEW n \in Nat, n \in After
       PROVE  n + 1 \in After
  <2> SUFFICES ASSUME j <= n + 1, n + 1 <= N
               PROVE  h[n + 1] = best
    OBVIOUS
  <2>1. CASE j = n + 1
    BY <1>11, <2>1
  <2>2. CASE j # n + 1
    <3> DEFINE v == units[n + 1]
    <3>1. n + 1 \in 1..N /\ (n + 1) - 1 = n /\ j <= n /\ n <= N /\ n + 1 # j
      BY <1>0, <1>1, <2>2
    <3>2. h[n] = best
      BY <1>13, <3>1
    <3>3. IsUnit(v) /\ h[n + 1] = Visit(t, best, v)
      BY <1>0, <1>2, <3>1, <3>2
    <3>4. Known(v) => Apart(u, v)
      BY <3>1 DEF N
    <3> HIDE DEF v
    <3>5. CASE Known(v)
      <4>1. IsFar(v, t, best.diff)
        BY <1>1, <1>4, <1>5, <1>6, <1>11, <3>3, <3>4, <3>5, ApartFar DEF d
      <4>2. Run(v, t, best) = best
        BY <1>11, <3>3, <4>1, RunKeeps
      <4>3. UnitIsKnown(v)
        BY <3>3, <3>5, KnownIs
      <4> QED
        BY <3>3, <4>2, <4>3 DEF Visit, UnitIsKnown
    <3>6. CASE ~Known(v)
      <4>1. ~UnitIsKnown(v)
        BY <3>3, <3>6, KnownIs
      <4> QED
        BY <3>3, <4>1 DEF Visit, UnitIsKnown
    <3> QED
      BY <3>5, <3>6
  <2> QED
    BY <2>1, <2>2
<1> HIDE DEF After
<1>14. Nat \subseteq After
  BY <1>12, <1>13, SetInduction
<1>15. h[N] = best
  <2>1. N \in After /\ j <= N /\ N <= N
    BY <1>0, <1>1, <1>14
  <2> QED
    BY <2>1 DEF After
<1> QED
  BY <1>3, <1>15 DEF best
-----------------------------------------------------------------------------
(* Every frame that was reported has the line of its address *)
Located == \A i \in 1..Len(trace) : trace[i].pc \in Nat /\ trace[i] = FrameAt(guest, trace[i].pc)

(* A frame is looked up when it is added, and the guest stays as it is *)
LEMMA LocatedStep == StackTypeOK /\ Located /\ [Next]_vars => Located'
<1> SUFFICES ASSUME StackTypeOK, Located, [Next]_vars
             PROVE  Located'
  OBVIOUS
<1>1. CASE PushFrame
  <2> DEFINE new == FrameAt(guest, pc)
             n == Len(trace)
  <2>1. trace' = Append(trace, new) /\ guest' = guest
    BY <1>1 DEF PushFrame, FrameAt
  <2>2. new.pc = pc /\ pc \in Nat /\ new = FrameAt(guest, new.pc)
    BY DEF FrameAt, StackTypeOK
  <2>3. Len(trace') = n + 1 /\ n \in Nat /\ \A i \in 1..n : trace'[i] = trace[i]
    <3>1. Len(trace') = Len(trace) + 1 /\ \A i \in 1..Len(trace) : trace'[i] = trace[i]
      BY <1>1, PushFrameIs
    <3>2. trace \in Seq(Frames)
      BY DEF StackTypeOK
    <3> HIDE DEF Frames
    <3> QED
      BY <3>1, <3>2
  <2>4. trace'[n + 1] = new
    <3>1. trace \in Seq(Frames)
      BY DEF StackTypeOK
    <3> HIDE DEF Frames, new
    <3> QED
      BY <2>1, <3>1
  <2> HIDE DEF new, n
  <2>5. ASSUME NEW i \in 1..n + 1
        PROVE  trace'[i].pc \in Nat /\ trace'[i] = FrameAt(guest, trace'[i].pc)
    <3>1. CASE i = n + 1
      BY <2>2, <2>4, <3>1
    <3>2. CASE i # n + 1
      <4>1. i \in 1..Len(trace) /\ trace'[i] = trace[i]
        BY <2>3, <3>2 DEF n
      <4> QED
        BY <4>1 DEF Located
    <3> QED
      BY <3>1, <3>2
  <2>6. \A i \in 1..Len(trace') : trace'[i].pc \in Nat /\ trace'[i] = FrameAt(guest', trace'[i].pc)
    BY <2>1, <2>3, <2>5 DEF FrameAt
  <2> QED
    BY <2>6 DEF Located, FrameAt
<1>2. CASE UNCHANGED <<guest, trace>>
  BY <1>2 DEF Located, FrameAt
<1>3. PushFrame \/ UNCHANGED <<guest, trace>>
  BY DEF Next, NoFrame, Outermost, EndOfChain, Follow, DepthReached, vars
<1> QED
  BY <1>1, <1>2, <1>3

(* The table of every guest is one *)
LEMMA InputTable ==
  ASSUME NEW g \in Inputs
  PROVE  IsTable(g.lines)
<1>1. Len(g.lines) \in Nat /\ DOMAIN g.lines = 1..Len(g.lines)
  BY LinesAssumption
<1>2. ASSUME NEW j \in 1..Len(g.lines)
      PROVE  IsUnit(g.lines[j])
  <2>1. g.lines[j] \in UNION {{h.lines[k] : k \in DOMAIN h.lines} : h \in Inputs}
    BY <1>1
  <2> HIDE DEF IsUnit
  <2> QED
    BY <2>1, LinesAssumption
<1> QED
  BY <1>1, <1>2 DEF IsTable

(* What was looked up is the row *)
LEMMA LocatedImplies == StackTypeOK /\ Located => LocationIsTheRow
<1> SUFFICES ASSUME StackTypeOK, Located
             PROVE  LocationIsTheRow
  OBVIOUS
<1>1. ASSUME NEW i \in DOMAIN trace, NEW j \in DOMAIN guest.lines,
             Covers(guest.lines[j], trace[i].pc),
             RowFor(guest.lines[j], trace[i].pc).file <= guest.lines[j].files,
             ~\E k \in 1..j - 1 : /\ Known(guest.lines[k])
                                  /\ Stops(guest.lines[k]) = RowFor(guest.lines[j], trace[i].pc).addr,
             \A k \in DOMAIN guest.lines :
               /\ guest.lines[k].format = 32
               /\ k # j /\ Known(guest.lines[k]) => Apart(guest.lines[j], guest.lines[k])
      PROVE  trace[i].loc = MatchOf(guest.lines[j], trace[i].pc, RowFor(guest.lines[j], trace[i].pc))
  <2> DEFINE units == guest.lines
             u == units[j]
             a == trace[i].pc
             row == RowFor(u, a)
  <2>1. IsTable(units)
    BY InputTable DEF StackTypeOK
  <2>2. DOMAIN units = 1..Len(units)
    BY <2>1 DEF IsTable
  <2>3. a \in Nat /\ trace[i].loc = LookupPc(units, a)
    <3>1. i \in 1..Len(trace)
      <4>1. trace \in Seq(Frames)
        BY DEF StackTypeOK
      <4> HIDE DEF Frames
      <4> QED
        BY <4>1
    <3>2. a \in Nat /\ trace[i] = FrameAt(guest, a)
      BY <3>1 DEF Located
    <3> QED
      BY <3>2 DEF FrameAt
  <2>4. /\ ~\E k \in DOMAIN units : units[k].format = 64
        /\ \A k \in 1..j - 1 : Known(units[k]) => Stops(units[k]) # row.addr
        /\ \A k \in 1..Len(units) : k # j /\ Known(units[k]) => Apart(u, units[k])
        /\ Covers(u, a) /\ row.file <= u.files
    <3>1. ~\E k \in DOMAIN units : units[k].format = 64
      BY <1>1
    <3>2. \A k \in 1..j - 1 : Known(units[k]) => Stops(units[k]) # row.addr
      BY <1>1
    <3>3. \A k \in 1..Len(units) : k # j /\ Known(units[k]) => Apart(u, units[k])
      BY <1>1, <2>2
    <3>4. Covers(u, a) /\ row.file <= u.files
      BY <1>1
    <3> QED
      BY <3>1, <3>2, <3>3, <3>4
  <2>5. j \in 1..Len(units) /\ u = units[j] /\ row = RowFor(u, a)
    BY <2>2
  <2> HIDE DEF units, u, a, row
  <2>6. LookupPc(units, a) = MatchOf(u, a, row)
    BY <2>1, <2>3, <2>4, <2>5, LookupFinds
  <2> QED
    BY <2>3, <2>6, Zenon DEF units, u, a, row
<1> QED
  BY <1>1, Zenon DEF LocationIsTheRow, MatchOf

(* For every table an assembler writes, however it encodes the rows: the    *)
(* line given for a frame is that of the last row at or before its address, *)
(* of the unit whose first sequence it lies in, when no other known unit    *)
(* overlaps that sequence and none listed before ends at the row.           *)
THEOREM SpecLocationIsTheRow == Spec => []LocationIsTheRow
<1>1. Init => Located
  <2>1. Init => Len(trace) = 0
    BY DEF Init
  <2> QED
    BY <2>1 DEF Located
<1>2. StackInv => StackTypeOK
  BY DEF StackInv
<1> QED
  BY <1>1, <1>2, LocatedStep, LocatedImplies, SpecStackInv, PTL DEF Spec
=============================================================================
