--------------------------- MODULE CompileProofs ---------------------------
(***************************************************************************)
(* Theorems about the walk over .text and the emission of the code, for    *)
(* every size of .text, every program in it and all sizes of host code.    *)
(* The walk never has more operations than bytes behind it, so that the    *)
(* builder has room for each instruction that lies in .text; the code      *)
(* generator never has more places to patch than operations behind it.     *)
(* What is emitted is the program in .text; each operation lies where the  *)
(* ones before it end; and the branches, the faults and the fuel checks    *)
(* lead where they should.                                                 *)
(***************************************************************************)
EXTENDS CodeBuffer, Induction, SequenceTheorems, FunctionTheorems, FiniteSetTheorems, TLAPS

Ops == [kind : Kinds, target : Int, pc : Halfwords]
PatchPlaces == [at : Int, pc : Halfwords, target : Int]

(* The walk: no more operations than bytes *)
WalkInv ==
  /\ phase \in {"map", "walk", "translated"}
  /\ text \in [Halfwords -> Forms]
  /\ pc \in 0..TextSize + 2
  /\ pc % 2 = 0
  /\ ir \in Seq(Ops)
  /\ Len(ir) <= pc

(* The emission: no more places than operations emitted *)
EmitInv ==
  /\ stage \in {"idle", "body", "ok", "oom"}
  /\ stage = "idle" => next = 1
  /\ stage # "idle" => phase = "translated"
  /\ next \in 1..Len(ir) + 1
  /\ codeSize \in 0..Cap
  /\ pcMap \in [0..TextSize - 1 -> {Junk} \cup 0..Cap]
  /\ patches \in [Patched -> Seq(PatchPlaces)]
  /\ \A kind \in Patched : Len(patches[kind]) <= next - 1

IInv == WalkInv /\ EmitInv

(* The size of the buffer *)
LEMMA CapType == Cap \in Nat
BY CodeBufferAssumption, IrTranslateAssumption DEF Cap

(* x86_cg_emit8 never leaves the buffer *)
LEMMA GrownType ==
  ASSUME codeSize \in 0..Cap, NEW n \in Nat
  PROVE  Grown(n) \in 0..Cap
BY CapType DEF Grown

(* The operations of an instruction take no more places than it has bytes *)
LEMMA EmittedFits ==
  ASSUME text \in [Halfwords -> Forms], NEW a \in Halfwords
  PROVE  /\ Emitted(a) \in Seq(Ops)
         /\ Len(Emitted(a)) <= Width(a)
         /\ Len(Emitted(a)) \in Nat
         /\ Width(a) \in {2, 4}
<1> DEFINE ops == text[a].ops
           behind == [i \in 1..Len(ops) |-> AtPc(ops[i], a)]
<1>1. text[a] \in Forms
  OBVIOUS
<1>2. /\ text[a].wide \in BOOLEAN /\ ops \in Seq(IrOp)
      /\ Len(ops) <= IF text[a].wide THEN 2 ELSE 1
  BY <1>1, IrTranslateAssumption
<1>3. ASSUME NEW i \in 1..Len(ops)
      PROVE  AtPc(ops[i], a) \in Ops
  <2>1. ops[i] \in IrOp
    BY <1>2
  <2>2. QED
    BY <2>1 DEF IrOp, AtPc, Ops
<1>4. behind \in Seq(Ops) /\ Len(behind) = Len(ops)
  BY <1>2, <1>3
<1>5. AtPc(FuelCheck, a) \in Ops
  BY DEF AtPc, FuelCheck, Ops, Kinds, NoTarget
<1>6. <<AtPc(FuelCheck, a)>> \in Seq(Ops) /\ Len(<<AtPc(FuelCheck, a)>>) = 1
  BY <1>5
<1>7. Emitted(a) = <<AtPc(FuelCheck, a)>> \o behind
  BY DEF Emitted
<1>8. Emitted(a) \in Seq(Ops) /\ Len(Emitted(a)) = 1 + Len(ops)
  <2> HIDE DEF behind
  <2> QED
    BY <1>4, <1>6, <1>7
<1>9. Len(ops) \in Nat
  BY <1>2
<1>10. Width(a) = IF text[a].wide THEN 4 ELSE 2
  BY DEF Width
<1> HIDE DEF ops
<1>11. Width(a) \in {2, 4} /\ 1 + Len(ops) <= Width(a)
  BY <1>2, <1>9, <1>10
<1> QED
  BY <1>8, <1>9, <1>11

(* ir_builder_push keeps a sequence that fits and never lengthens one *)
LEMMA PushedFits ==
  ASSUME NEW q \in Seq(Ops)
  PROVE  /\ Pushed(q) \in Seq(Ops)
         /\ Len(Pushed(q)) <= Len(q)
         /\ Len(q) <= TextSize => Pushed(q) = q
<1>1. TextSize \in Nat /\ Len(q) \in Nat
  BY IrTranslateAssumption
<1>2. CASE Len(q) <= TextSize
  BY <1>1, <1>2 DEF Pushed
<1>3. CASE ~(Len(q) <= TextSize)
  <2>1. Pushed(q) = SubSeq(q, 1, TextSize)
    BY <1>3 DEF Pushed
  <2>2. \A i \in 1..TextSize : q[i] \in Ops
    BY <1>1, <1>3
  <2>3. SubSeq(q, 1, TextSize) \in Seq(Ops) /\ Len(SubSeq(q, 1, TextSize)) = TextSize
    BY <1>1, <1>3, <2>2
  <2> QED
    BY <1>1, <1>3, <2>1, <2>3
<1> QED
  BY <1>2, <1>3

(* What Translate appends, and that it fits *)
LEMMA TranslateFits ==
  ASSUME WalkInv, Translate
  PROVE  /\ ir' \in Seq(Ops)
         /\ Len(ir') <= pc'
         /\ pc + Width(pc) <= TextSize => ir' = ir \o Emitted(pc)
         /\ pc' \in 0..TextSize + 2 /\ pc' % 2 = 0
<1> DEFINE q == ir \o Emitted(pc)
<1>1. TextSize \in Nat /\ TextSize % 2 = 0
  BY IrTranslateAssumption
<1>2. pc \in Halfwords
  BY <1>1 DEF WalkInv, Translate, Halfwords
<1>3. /\ Emitted(pc) \in Seq(Ops) /\ Len(Emitted(pc)) <= Width(pc)
      /\ Len(Emitted(pc)) \in Nat /\ Width(pc) \in {2, 4}
  BY <1>2, EmittedFits DEF WalkInv
<1>4. ir \in Seq(Ops) /\ Len(ir) \in Nat /\ Len(ir) <= pc
  BY DEF WalkInv
<1>5. q \in Seq(Ops) /\ Len(q) = Len(ir) + Len(Emitted(pc))
  BY <1>3, <1>4
<1>6. ir' = Pushed(q) /\ pc' = pc + Width(pc)
  BY DEF Translate
<1> HIDE DEF q
<1>7. Pushed(q) \in Seq(Ops) /\ Len(Pushed(q)) <= Len(q) /\ Len(Pushed(q)) \in Nat
  BY <1>5, PushedFits
<1>8. Len(q) <= TextSize => Pushed(q) = q
  BY <1>5, PushedFits
<1>9. pc \in Nat /\ pc < TextSize /\ pc % 2 = 0
  BY DEF WalkInv, Translate
<1>10. Len(q) <= pc + Width(pc) /\ Len(q) \in Nat
  BY <1>3, <1>4, <1>5, <1>9
<1>11. ir' \in Seq(Ops) /\ Len(ir') <= pc'
  BY <1>3, <1>6, <1>7, <1>9, <1>10
<1>12. pc + Width(pc) <= TextSize => ir' = q
  BY <1>1, <1>3, <1>6, <1>8, <1>9, <1>10
<1>13. pc' \in 0..TextSize + 2 /\ pc' % 2 = 0
  BY <1>1, <1>3, <1>6, <1>9
<1> QED
  BY <1>11, <1>12, <1>13 DEF q
-----------------------------------------------------------------------------
(* Nothing is emitted at first *)
LEMMA InitInv == Init => IInv
<1> SUFFICES ASSUME Init
             PROVE  IInv
  OBVIOUS
<1> USE DEF Init, IrInit
<1>1. TextSize \in Nat /\ Cap \in Nat
  BY IrTranslateAssumption, CapType
<1>2. WalkInv
  BY <1>1 DEF WalkInv
<1>3. patches \in [Patched -> Seq(PatchPlaces)] /\ \A kind \in Patched : Len(patches[kind]) = 0
  OBVIOUS
<1>4. EmitInv
  BY <1>1, <1>2, <1>3 DEF EmitInv, WalkInv
<1> QED
  BY <1>2, <1>4 DEF IInv

(* The walk ends before the code generator starts *)
LEMMA WalkStep ==
  ASSUME IInv, IrNext, UNCHANGED codeVars
  PROVE  IInv'
<1> USE DEF codeVars
<1>1. stage = "idle" /\ next = 1
  BY DEF IInv, EmitInv, IrNext, BuildDataMap, SkipData, Translate, FinishWalk
<1>2. ASSUME WalkInv'
      PROVE  EmitInv'
  <2>1. Len(ir') \in Nat
    BY <1>2 DEF WalkInv
  <2>2. next' \in 1..Len(ir') + 1
    BY <1>1, <2>1
  <2> QED
    BY <1>1, <2>2 DEF IInv, EmitInv, Cap
<1>3. CASE BuildDataMap
  BY <1>2, <1>3 DEF IInv, WalkInv, BuildDataMap
<1>4. CASE SkipData
  <2>1. TextSize \in Nat /\ TextSize % 2 = 0
    BY IrTranslateAssumption
  <2>2. pc \in Nat /\ pc % 2 = 0 /\ pc < TextSize /\ pc' = pc + 2
    BY <1>4 DEF IInv, WalkInv, SkipData
  <2>3. pc' \in 0..TextSize + 2 /\ pc' % 2 = 0
    BY <2>1, <2>2
  <2>4. Len(ir) \in Nat
    BY DEF IInv, WalkInv
  <2>5. Len(ir') <= pc'
    BY <1>4, <2>2, <2>4 DEF IInv, WalkInv, SkipData
  <2> QED
    BY <1>2, <1>4, <2>3, <2>5 DEF IInv, WalkInv, SkipData
<1>5. CASE Translate
  BY <1>2, <1>5, TranslateFits DEF IInv, WalkInv, Translate
<1>6. CASE FinishWalk
  BY <1>2, <1>6 DEF IInv, WalkInv, FinishWalk
<1> QED
  BY <1>3, <1>4, <1>5, <1>6 DEF IrNext

(* The code generator leaves the operations alone *)
LEMMA WalkKept ==
  ASSUME IInv, UNCHANGED irVars
  PROVE  WalkInv'
BY DEF IInv, WalkInv, irVars

(* A failure leaves what is there *)
LEMMA GiveUpStep ==
  ASSUME IInv, UNCHANGED irVars, phase = "translated", GiveUp
  PROVE  IInv'
<1>1. WalkInv'
  BY WalkKept
<1>2. EmitInv'
  BY DEF IInv, EmitInv, GiveUp, irVars, Cap
<1> QED
  BY <1>1, <1>2 DEF IInv

(* The code generator starts with empty lists *)
LEMMA BeginStep ==
  ASSUME IInv, Begin
  PROVE  IInv'
<1>1. UNCHANGED irVars /\ phase = "translated"
  BY DEF Begin
<1>2. CASE GiveUp
  BY <1>1, <1>2, GiveUpStep
<1>3. CASE ~GiveUp
  <2>1. /\ stage' = "body" /\ codeSize' = Grown(TrampolineBytes)
        /\ UNCHANGED <<next, pcMap, patches, epilogue, links, stubs>>
    BY <1>3 DEF Begin
  <2>2. codeSize' \in 0..Cap
    <3>1. TrampolineBytes \in Nat
      BY CodeBufferAssumption
    <3> QED
      BY <2>1, <3>1, GrownType DEF IInv, EmitInv
  <2>3. EmitInv'
    BY <1>1, <2>1, <2>2 DEF IInv, EmitInv, irVars, Cap
  <2> QED
    BY <1>1, <2>3, WalkKept DEF IInv
<1> QED
  BY <1>2, <1>3

(* One operation adds at most one place, to one list *)
LEMMA EmitStep ==
  ASSUME IInv, Emit
  PROVE  IInv'
<1> DEFINE op == ir[next]
           place == [at |-> codeSize, pc |-> op.pc, target |-> op.target]
<1>1. UNCHANGED irVars /\ phase = "translated" /\ stage = "body"
  BY DEF Emit, IInv, EmitInv
<1>2. CASE GiveUp
  BY <1>1, <1>2, GiveUpStep
<1>3. CASE ~GiveUp
  <2>1. /\ pcMap' = IF FirstOfInstr(next) THEN [pcMap EXCEPT ![op.pc] = codeSize] ELSE pcMap
        /\ codeSize' = Grown(Bytes[op.kind])
        /\ patches' = IF op.kind \in Patched
                      THEN [patches EXCEPT ![op.kind] = Append(@, place)]
                      ELSE patches
        /\ next' = next + 1
        /\ UNCHANGED <<stage, epilogue, links, stubs>>
    BY <1>3 DEF Emit
  <2>2. ir \in Seq(Ops) /\ Len(ir) \in Nat /\ next \in 1..Len(ir)
    BY DEF IInv, WalkInv, EmitInv, Emit
  <2>3. op \in Ops
    BY <2>2
  <2>4. op.kind \in Kinds /\ op.pc \in Halfwords /\ op.target \in Int
    BY <2>3 DEF Ops
  <2>5. codeSize \in 0..Cap /\ Cap \in Nat
    BY CapType DEF IInv, EmitInv
  <2> HIDE DEF op
  <2>6. codeSize' \in 0..Cap
    <3>1. Bytes[op.kind] \in Nat
      BY <2>4, CodeBufferAssumption
    <3> QED
      BY <2>1, <2>5, <3>1, GrownType
  <2>7. pcMap' \in [0..TextSize - 1 -> {Junk} \cup 0..Cap]
    BY <2>1, <2>5 DEF IInv, EmitInv
  <2>8. place \in PatchPlaces
    BY <2>4, <2>5 DEF PatchPlaces
  <2> HIDE DEF place
  <2>9. patches \in [Patched -> Seq(PatchPlaces)]
    BY DEF IInv, EmitInv
  <2>10. ASSUME NEW kind \in Patched
         PROVE  /\ patches'[kind] \in Seq(PatchPlaces)
                /\ Len(patches'[kind]) <= next
    <3>1. patches[kind] \in Seq(PatchPlaces) /\ Len(patches[kind]) <= next - 1
      BY DEF IInv, EmitInv
    <3>2. patches'[kind] = patches[kind] \/ patches'[kind] = Append(patches[kind], place)
      BY <2>1, <2>9
    <3>3. /\ Append(patches[kind], place) \in Seq(PatchPlaces)
          /\ Len(Append(patches[kind], place)) = Len(patches[kind]) + 1
      BY <2>8, <3>1
    <3>4. Len(patches[kind]) \in Nat /\ next \in Nat
      BY <2>2, <3>1
    <3>5. patches'[kind] \in Seq(PatchPlaces)
      BY <3>1, <3>2, <3>3, Zenon
    <3>6. \/ Len(patches'[kind]) = Len(patches[kind])
          \/ Len(patches'[kind]) = Len(patches[kind]) + 1
      BY <3>2, <3>3, Zenon
    <3> QED
      BY <3>1, <3>4, <3>5, <3>6
  <2>11. patches' \in [Patched -> Seq(PatchPlaces)]
    <3>1. patches' = [kind \in Patched |-> patches'[kind]]
      BY <2>1, <2>9
    <3> QED
      BY <2>10, <3>1
  <2>12. next' \in 1..Len(ir') + 1 /\ next' - 1 = next
    BY <1>1, <2>1, <2>2 DEF irVars
  <2>13. EmitInv'
    BY <1>1, <2>1, <2>6, <2>7, <2>10, <2>11, <2>12 DEF EmitInv, irVars, Cap
  <2> QED
    BY <1>1, <2>13, WalkKept DEF IInv
<1> QED
  BY <1>2, <1>3

(* The end of the code adds no place *)
LEMMA FinishStep ==
  ASSUME IInv, Finish
  PROVE  IInv'
<1>1. UNCHANGED irVars /\ phase = "translated" /\ stage = "body"
  BY DEF Finish, IInv, EmitInv
<1>2. CASE GiveUp
  BY <1>1, <1>2, GiveUpStep
<1>3. CASE ~GiveUp
  <2>1. /\ codeSize' = Grown(EpilogueBytes + Len(Faults) * StubBytes)
        /\ stage' = "ok"
        /\ UNCHANGED <<next, pcMap, patches>>
    BY <1>3 DEF Finish
  <2>2. Len(Faults) \in Nat
    <3>1. /\ patches["load"] \in Seq(PatchPlaces)
          /\ patches["store"] \in Seq(PatchPlaces)
          /\ patches["fuel"] \in Seq(PatchPlaces)
      BY DEF IInv, EmitInv, Patched
    <3> DEFINE Of(kind) == [i \in 1..Len(patches[kind]) |->
                     [at |-> patches[kind][i].at, pc |-> patches[kind][i].pc, fault |-> kind]]
               Some == [at : Int, pc : Halfwords, fault : {"load", "store", "fuel"}]
    <3>2. ASSUME NEW kind \in {"load", "store", "fuel"}
          PROVE  Of(kind) \in Seq(Some)
      <4>1. patches[kind] \in Seq(PatchPlaces)
        BY <3>1
      <4>2. ASSUME NEW i \in 1..Len(patches[kind])
            PROVE  [at |-> patches[kind][i].at, pc |-> patches[kind][i].pc, fault |-> kind] \in Some
        <5>1. patches[kind][i] \in PatchPlaces
          BY <4>1
        <5> QED
          BY <5>1 DEF PatchPlaces
      <4> HIDE DEF Some
      <4> QED
        BY <4>1, <4>2
    <3>3. Faults = Of("load") \o Of("store") \o Of("fuel")
      BY DEF Faults
    <3> HIDE DEF Of, Some
    <3>4. Faults \in Seq(Some)
      BY <3>2, <3>3
    <3> QED
      BY <3>4
  <2>3. EpilogueBytes \in Nat /\ StubBytes \in Nat
    BY CodeBufferAssumption
  <2>4. EpilogueBytes + Len(Faults) * StubBytes \in Nat
    BY <2>2, <2>3
  <2>5. codeSize' \in 0..Cap
    BY <2>1, <2>4, GrownType DEF IInv, EmitInv
  <2>6. EmitInv'
    BY <1>1, <2>1, <2>5 DEF IInv, EmitInv, irVars, Cap
  <2> QED
    BY <1>1, <2>6, WalkKept DEF IInv
<1> QED
  BY <1>2, <1>3

(* Walk and emission keep the builder and the patch lists within their room *)
THEOREM CompileInductive == IInv /\ [Next]_vars => IInv'
<1> SUFFICES ASSUME IInv, [Next]_vars
             PROVE  IInv'
  OBVIOUS
<1>1. CASE IrNext /\ UNCHANGED codeVars
  BY <1>1, WalkStep
<1>2. CASE Begin
  BY <1>2, BeginStep
<1>3. CASE Emit
  BY <1>3, EmitStep
<1>4. CASE Finish
  BY <1>4, FinishStep
<1>5. CASE UNCHANGED vars
  BY <1>5 DEF IInv, WalkInv, EmitInv, vars, irVars, codeVars, Cap
<1> QED
  BY <1>1, <1>2, <1>3, <1>4, <1>5 DEF Next

(* ... in every state of riscv_jit_compile *)
THEOREM SpecCompileInv == Spec => []IInv
<1>1. Init => IInv
  BY InitInv
<1>2. IInv /\ [Next]_vars => IInv'
  BY CompileInductive
<1> QED
  BY <1>1, <1>2, PTL DEF Spec
-----------------------------------------------------------------------------
(* Types: what is entered in pc_map is an offset in the buffer, the walk    *)
(* ends at most two bytes behind .text.                                     *)
THEOREM SpecTypeOK == Spec => []TypeOK
<1>1. ASSUME IInv
      PROVE  TypeOK
  <2>1. \A k \in 1..Len(ir) : ir[k].pc \in Halfwords /\ ir[k].kind \in Kinds
    <3>1. \A k \in 1..Len(ir) : ir[k] \in Ops
      BY <1>1 DEF IInv, WalkInv
    <3> QED
      BY <3>1 DEF Ops
  <2> QED
    BY <1>1, <2>1 DEF IInv, WalkInv, EmitInv, TypeOK
<1> QED
  BY <1>1, SpecCompileInv, PTL

(* No list of places is written beyond the room allocated for it, however   *)
(* many operations an instruction has and whatever they are.                *)
THEOREM SpecPatchesFit == Spec => []PatchesFit
<1>1. ASSUME IInv
      PROVE  PatchesFit
  <2>1. Len(ir) \in Nat /\ next \in 1..Len(ir) + 1
    BY <1>1 DEF IInv, WalkInv, EmitInv
  <2>2. ASSUME NEW kind \in Patched
        PROVE  Len(patches[kind]) <= Len(ir)
    <3>1. Len(patches[kind]) \in Nat /\ Len(patches[kind]) <= next - 1
      BY <1>1 DEF IInv, EmitInv
    <3> QED
      BY <2>1, <3>1
  <2> QED
    BY <2>2 DEF PatchesFit, Capacity
<1> QED
  BY <1>1, SpecCompileInv, PTL

(* The builder drops no operation of an instruction that lies in .text *)
THEOREM SpecNothingDropped == Spec => NothingDropped
<1>1. ASSUME IInv, [Next]_vars
      PROVE  [ir' # ir /\ pc + Width(pc) <= TextSize => ir' = ir \o Emitted(pc)]_irVars
  <2>1. CASE IrNext
    <3>1. CASE Translate
      BY <1>1, <3>1, TranslateFits DEF IInv
    <3>2. CASE BuildDataMap \/ SkipData \/ FinishWalk
      BY <3>2 DEF BuildDataMap, SkipData, FinishWalk
    <3> QED
      BY <2>1, <3>1, <3>2 DEF IrNext
  <2>2. CASE UNCHANGED irVars
    BY <2>2
  <2> QED
    BY <1>1, <2>1, <2>2 DEF Next, Begin, Emit, Finish, vars
<1> QED
  BY <1>1, SpecCompileInv, PTL DEF Spec, NothingDropped
-----------------------------------------------------------------------------
(* What the program in .text is, as a function of .text alone *)
EmittedOf(tx, a) ==
  <<AtPc(FuelCheck, a)>> \o [i \in 1..Len(tx[a].ops) |-> AtPc(tx[a].ops[i], a)]
WidthOf(tx, a) == IF tx[a].wide THEN 4 ELSE 2

IsProgram(p, tx, data) ==
  p = [a \in WalkAddrs |->
         IF a >= TextSize THEN <<>>
         ELSE IF a \in data THEN p[a + 2]
         ELSE EmittedOf(tx, a) \o p[a + WidthOf(tx, a)]]

Program(tx, data) == CHOOSE p : IsProgram(p, tx, data)

(* ProgramFrom is the program of the current text *)
LEMMA ProgramIs == \A data : ProgramFrom(data) = Program(text, data)
BY DEF ProgramFrom, Program, IsProgram, Emitted, EmittedOf, Width, WidthOf

(* The walk stays among WalkAddrs *)
LEMMA NextAddr ==
  ASSUME text \in [Halfwords -> Forms], NEW a \in WalkAddrs, a < TextSize
  PROVE  /\ a \in Halfwords
         /\ a + 2 \in WalkAddrs /\ a + WidthOf(text, a) \in WalkAddrs
         /\ a < a + 2 /\ a < a + WidthOf(text, a)
         /\ EmittedOf(text, a) \in Seq(Ops)
<1>1. TextSize \in Nat /\ TextSize % 2 = 0
  BY IrTranslateAssumption
<1>2. a \in Halfwords
  BY <1>1 DEF WalkAddrs, Halfwords
<1>3. Width(a) \in {2, 4} /\ Emitted(a) \in Seq(Ops)
  BY <1>2, EmittedFits
<1>4. WidthOf(text, a) \in {2, 4} /\ EmittedOf(text, a) \in Seq(Ops)
  BY <1>3 DEF Width, WidthOf, Emitted, EmittedOf
<1>5. a \in Nat /\ a % 2 = 0 /\ a + 4 <= TextSize + 2
  BY <1>1 DEF WalkAddrs
<1>6. a + 2 \in WalkAddrs /\ a + 4 \in WalkAddrs
  BY <1>1, <1>5 DEF WalkAddrs
<1> QED
  BY <1>2, <1>4, <1>5, <1>6

(* What p has at a if it is the program behind a *)
Value(p, tx, data, a) ==
  IF a >= TextSize THEN <<>>
  ELSE IF a \in data THEN p[a + 2]
  ELSE EmittedOf(tx, a) \o p[a + WidthOf(tx, a)]

(* An instruction in front of operations makes operations *)
LEMMA ValueType ==
  ASSUME text \in [Halfwords -> Forms], NEW data, NEW p \in [WalkAddrs -> Seq(Ops)], NEW a \in WalkAddrs
  PROVE  Value(p, text, data, a) \in Seq(Ops)
<1>1. CASE a >= TextSize
  BY <1>1 DEF Value
<1>2. CASE a < TextSize
  <2>1. /\ a + 2 \in WalkAddrs /\ a + WidthOf(text, a) \in WalkAddrs
        /\ EmittedOf(text, a) \in Seq(Ops)
    BY <1>2, NextAddr
  <2>2. p[a + 2] \in Seq(Ops) /\ p[a + WidthOf(text, a)] \in Seq(Ops)
    BY <2>1
  <2>3. EmittedOf(text, a) \o p[a + WidthOf(text, a)] \in Seq(Ops)
    BY <2>1, <2>2
  <2>4. ~(a >= TextSize)
    BY <1>2, IrTranslateAssumption DEF WalkAddrs
  <2> QED
    BY <2>2, <2>3, <2>4 DEF Value
<1> QED
  BY <1>1, <1>2, IrTranslateAssumption DEF WalkAddrs

(* It depends on what is behind a only *)
LEMMA ValueBehind ==
  ASSUME text \in [Halfwords -> Forms], NEW data, NEW p, NEW r, NEW a \in WalkAddrs,
         \A b \in WalkAddrs : a < b => p[b] = r[b]
  PROVE  Value(p, text, data, a) = Value(r, text, data, a)
<1>1. CASE a >= TextSize
  BY <1>1 DEF Value
<1>2. CASE a < TextSize
  <2>1. /\ a + 2 \in WalkAddrs /\ a + WidthOf(text, a) \in WalkAddrs
        /\ a < a + 2 /\ a < a + WidthOf(text, a)
    BY <1>2, NextAddr
  <2>2. p[a + 2] = r[a + 2] /\ p[a + WidthOf(text, a)] = r[a + WidthOf(text, a)]
    BY <2>1
  <2> QED
    BY <2>2 DEF Value
<1> QED
  BY <1>1, <1>2, IrTranslateAssumption DEF WalkAddrs

(* The program is defined: from its end backwards, address by address *)
LEMMA ProgramExists ==
  ASSUME text \in [Halfwords -> Forms], NEW data
  PROVE  \E p \in [WalkAddrs -> Seq(Ops)] : IsProgram(p, text, data)
<1> DEFINE top == TextSize + 2
           At(n) == top - 2 * n
           S == [WalkAddrs -> Seq(Ops)]
           Put(n, p) == [p EXCEPT ![At(n)] = Value(p, text, data, At(n))]
           step == [n \in Nat |-> [p \in S |-> Put(n, p)]]
           empty == [a \in WalkAddrs |-> <<>>]
<1>1. TextSize \in Nat /\ top \in Nat /\ top % 2 = 0
  BY IrTranslateAssumption
<1>2. empty \in S
  OBVIOUS
<1>3. ASSUME NEW n \in Nat, NEW p \in S
      PROVE  Put(n, p) \in S
  <2>1. CASE At(n) \in WalkAddrs
    <3>1. Value(p, text, data, At(n)) \in Seq(Ops)
      BY <2>1, ValueType
    <3> HIDE DEF At
    <3> QED
      BY <3>1
  <2>2. CASE At(n) \notin WalkAddrs
    <3> HIDE DEF At
    <3> QED
      BY <2>2
  <2> QED
    BY <2>1, <2>2
<1> HIDE DEF empty
<1>4. step \in Stepping(S)
  <2> HIDE DEF S, Put
  <2> QED
    BY <1>3 DEF Stepping
<1>5. \A n \in Nat : \A p \in S : step[n][p] = Put(n, p)
  <2> HIDE DEF S, Put
  <2> QED
    OBVIOUS
<1> HIDE DEF step, S
<1>6. PICK G : Recurs(G, S, empty, step)
  BY <1>2, <1>4, Recursion, Zenon
<1>7. \A n \in Nat : G[n] \in S /\ G[n + 1] = Put(n, G[n])
  <2> HIDE DEF Put
  <2> QED
    BY <1>5, <1>6 DEF Recurs
<1> DEFINE Right == {n \in Nat : \A a \in WalkAddrs : a > At(n) => G[n][a] = Value(G[n], text, data, a)}
<1>8. 0 \in Right
  BY <1>1 DEF WalkAddrs
<1>9. ASSUME NEW n \in Nat, n \in Right
      PROVE  n + 1 \in Right
  <2> SUFFICES ASSUME NEW a \in WalkAddrs, a > At(n + 1)
               PROVE  G[n + 1][a] = Value(G[n + 1], text, data, a)
    OBVIOUS
  <2>1. a \in Nat /\ a % 2 = 0 /\ At(n) \in Int /\ At(n) % 2 = 0 /\ At(n + 1) = At(n) - 2
    BY <1>1 DEF WalkAddrs
  <2>2. a >= At(n)
    BY <2>1
  <2>3. G[n] \in [WalkAddrs -> Seq(Ops)] /\ G[n + 1] = Put(n, G[n])
    BY <1>7 DEF S
  <2>4. \A b \in WalkAddrs : b # At(n) => G[n + 1][b] = G[n][b]
    <3> HIDE DEF At
    <3> QED
      BY <2>3
  <2>5. \A b \in WalkAddrs : a < b => G[n + 1][b] = G[n][b]
    <3>1. \A b \in WalkAddrs : b \in Int
      BY DEF WalkAddrs
    <3> HIDE DEF At
    <3> QED
      BY <2>1, <2>2, <2>4, <3>1
  <2>6. Value(G[n + 1], text, data, a) = Value(G[n], text, data, a)
    BY <2>5, ValueBehind
  <2>7. CASE a = At(n)
    <3> HIDE DEF At
    <3>1. G[n + 1][a] = Value(G[n], text, data, a)
      BY <2>3, <2>7
    <3> QED
      BY <2>6, <3>1
  <2>8. CASE a > At(n)
    <3>1. G[n][a] = Value(G[n], text, data, a)
      BY <1>9, <2>8
    <3>2. a # At(n)
      BY <2>1, <2>8
    <3> QED
      BY <2>4, <2>6, <3>1, <3>2
  <2> QED
    BY <2>1, <2>2, <2>7, <2>8
<1>10. Nat \subseteq Right
  <2> HIDE DEF Right
  <2> QED
    BY <1>8, <1>9, SetInduction
<1> DEFINE m == TextSize + 2
           p == G[m]
<1>11. m \in Nat /\ \A a \in WalkAddrs : a > At(m)
  BY <1>1 DEF WalkAddrs
<1>12. p \in [WalkAddrs -> Seq(Ops)]
  BY <1>7, <1>11 DEF S
<1>13. \A a \in WalkAddrs : p[a] = Value(p, text, data, a)
  <2>1. m \in Right
    BY <1>10, <1>11
  <2> QED
    BY <1>11, <2>1
<1> HIDE DEF p
<1>14. IsProgram(p, text, data)
  BY <1>12, <1>13 DEF IsProgram, Value
<1> QED
  BY <1>12, <1>14

(* There is one program: what holds of the one found holds of any *)
LEMMA ProgramUnique ==
  ASSUME text \in [Halfwords -> Forms], NEW data, NEW p, NEW r,
         IsProgram(p, text, data), IsProgram(r, text, data)
  PROVE  p = r
<1> DEFINE top == TextSize + 2
           At(n) == top - 2 * n
           Same == {n \in Nat : \A a \in WalkAddrs : a > At(n) => p[a] = r[a]}
<1>1. TextSize \in Nat /\ top \in Nat /\ top % 2 = 0
  BY IrTranslateAssumption
<1>2. \A a \in WalkAddrs : p[a] = Value(p, text, data, a) /\ r[a] = Value(r, text, data, a)
  BY DEF IsProgram, Value
<1>3. 0 \in Same
  BY <1>1 DEF WalkAddrs
<1>4. ASSUME NEW n \in Nat, n \in Same
      PROVE  n + 1 \in Same
  <2> SUFFICES ASSUME NEW a \in WalkAddrs, a > At(n + 1)
               PROVE  p[a] = r[a]
    OBVIOUS
  <2>1. a \in Nat /\ a % 2 = 0 /\ At(n) \in Int /\ At(n) % 2 = 0 /\ At(n + 1) = At(n) - 2
    BY <1>1 DEF WalkAddrs
  <2>2. a >= At(n)
    BY <2>1
  <2>3. \A b \in WalkAddrs : a < b => p[b] = r[b]
    <3>1. \A b \in WalkAddrs : b \in Int
      BY DEF WalkAddrs
    <3>2. \A b \in WalkAddrs : b > At(n) => p[b] = r[b]
      BY <1>4
    <3> HIDE DEF At
    <3> QED
      BY <2>1, <2>2, <3>1, <3>2
  <2>4. Value(p, text, data, a) = Value(r, text, data, a)
    BY <2>3, ValueBehind
  <2> QED
    BY <1>2, <2>4
<1>5. Nat \subseteq Same
  <2> HIDE DEF Same
  <2> QED
    BY <1>3, <1>4, SetInduction
<1>6. TextSize + 2 \in Same /\ \A a \in WalkAddrs : a > At(TextSize + 2)
  <2> HIDE DEF Same
  <2> QED
    BY <1>1, <1>5 DEF WalkAddrs
<1>7. \A a \in WalkAddrs : p[a] = r[a]
  BY <1>6
<1>8. p = [a \in WalkAddrs |-> p[a]] /\ r = [a \in WalkAddrs |-> r[a]]
  BY DEF IsProgram
<1> QED
  BY <1>7, <1>8

(* So that the program is what its definition says *)
LEMMA ProgramFound ==
  ASSUME text \in [Halfwords -> Forms], NEW data
  PROVE  /\ Program(text, data) \in [WalkAddrs -> Seq(Ops)]
         /\ \A a \in WalkAddrs : Program(text, data)[a] = Value(Program(text, data), text, data, a)
<1> DEFINE p == Program(text, data)
<1>1. PICK r \in [WalkAddrs -> Seq(Ops)] : IsProgram(r, text, data)
  BY ProgramExists
<1>2. IsProgram(p, text, data)
  <2> HIDE DEF IsProgram
  <2> QED
    BY <1>1, Zenon DEF Program
<1>3. p = r
  <2> HIDE DEF p
  <2> QED
    BY <1>1, <1>2, ProgramUnique
<1> HIDE DEF p
<1>4. \A a \in WalkAddrs : p[a] = Value(p, text, data, a)
  BY <1>2 DEF IsProgram, Value
<1> QED
  BY <1>1, <1>3, <1>4 DEF p
-----------------------------------------------------------------------------
AddressesDiffer == \A s, t \in syms : s.addr = t.addr => s = t

(* Whatever order qsort chooses, the map is what the symbols say *)
LEMMA SortedSaysTheSame ==
  ASSUME syms \in SymbolSets, AddressesDiffer, NEW s \in Sorted
  PROVE  DataBytes(s) = DataBySymbols
<1> DEFINE n == Cardinality(syms)
<1>1. /\ syms \subseteq [addr : 0..TextSize - 1, data : BOOLEAN] /\ IsFiniteSet(syms)
      /\ TextSize \in Nat
  BY IrTranslateAssumption
<1>2. n \in Nat
  BY <1>1, FS_CardinalityType
<1>3. /\ s \in [1..n -> syms]
      /\ \A i, j \in 1..n : s[i] = s[j] => i = j
      /\ \A i, j \in 1..n : i < j => s[i].addr <= s[j].addr
  BY DEF Sorted
<1> HIDE DEF n
<1>4. s \in Injection(1..n, syms)
  BY <1>3, Fun_IsInj
<1>5. Cardinality(1..n) = n
  BY <1>2, FS_Interval
<1>6. s \in Surjection(1..n, syms)
  BY <1>1, <1>4, <1>5, FS_Injection DEF n
<1>7. \A t \in syms : \E i \in 1..n : s[i] = t
  BY <1>6 DEF Surjection
<1>8. \A t \in syms : t.addr \in Int
  BY <1>1
<1>9. Len(s) = n /\ DOMAIN s = 1..n
  <2>1. s \in Seq(syms)
    BY <1>2, <1>3
  <2> QED
    BY <1>2, <1>3, <2>1
<1>10. \A i \in 1..n : s[i] \in syms
  BY <1>3
<1>11. ASSUME NEW a \in 0..TextSize - 1, NEW i \in 1..n, s[i].data, s[i].addr <= a,
              i < n => a < s[i + 1].addr
       PROVE  \E u \in syms : /\ u.data /\ u.addr <= a
                              /\ \A t \in syms : t.addr <= a => t.addr <= u.addr
  <2>1. ASSUME NEW t \in syms, t.addr <= a
        PROVE  t.addr <= s[i].addr
    <3>1. PICK j \in 1..n : s[j] = t
      BY <1>7
    <3>2. CASE j <= i
      <4>1. j = i \/ j < i
        BY <3>2
      <4>2. s[i].addr \in Int
        BY <1>8, <1>10
      <4> QED
        BY <1>3, <3>1, <4>1, <4>2
    <3>3. CASE i < j
      <4>1. i < n /\ i + 1 \in 1..n /\ (i + 1 = j \/ i + 1 < j)
        BY <1>2, <3>3
      <4>2. a < s[i + 1].addr
        BY <1>11, <4>1
      <4>3. s[i + 1].addr <= s[j].addr
        <5>1. s[j].addr \in Int
          BY <1>8, <1>10
        <5> QED
          BY <1>3, <4>1, <5>1
      <4>4. s[i + 1].addr \in Int /\ s[j].addr \in Int
        BY <1>8, <1>10, <4>1
      <4> QED
        BY <2>1, <3>1, <4>2, <4>3, <4>4
    <3> QED
      BY <3>2, <3>3
  <2> QED
    BY <1>10, <1>11, <2>1
<1>12. ASSUME NEW a \in 0..TextSize - 1, NEW u \in syms, u.data, u.addr <= a,
              \A t \in syms : t.addr <= a => t.addr <= u.addr
       PROVE  \E i \in 1..n : s[i].data /\ s[i].addr <= a /\ (i < n => a < s[i + 1].addr)
  <2>1. PICK i \in 1..n : s[i] = u
    BY <1>7
  <2>2. ASSUME i < n, ~(a < s[i + 1].addr)
        PROVE  FALSE
    <3>1. i + 1 \in 1..n /\ s[i + 1] \in syms
      BY <1>2, <1>10, <2>2
    <3>2. s[i + 1].addr <= u.addr
      BY <1>8, <1>12, <2>2, <3>1
    <3>3. u.addr <= s[i + 1].addr
      BY <1>3, <2>1, <3>1
    <3>4. s[i + 1] = u
      BY <1>8, <3>1, <3>2, <3>3 DEF AddressesDiffer
    <3>5. i + 1 = i
      BY <1>3, <2>1, <3>1, <3>4
    <3> QED
      BY <3>5
  <2> QED
    BY <1>12, <2>1, <2>2
<1> QED
  BY <1>9, <1>11, <1>12 DEF DataBytes, DataBySymbols

(* The addresses the walk takes for data *)
Data == IF hasMap THEN DataBySymbols ELSE {}

LastIsWhole == TextSize > 0 => ~text[TextSize - 2].wide

(* What is left to emit is what the program is from pc on *)
ProgramInv ==
  /\ syms \in SymbolSets
  /\ phase = "map" => pc = 0 /\ ir = <<>>
  /\ phase # "map" /\ hasMap /\ AddressesDiffer => dataMap = DataBySymbols
  /\ phase # "map" /\ AddressesDiffer /\ LastIsWhole =>
        ir \o Program(text, Data)[pc] = Program(text, Data)[0]

(* Before the walk nothing is emitted *)
LEMMA ProgramInit == Init => ProgramInv
BY DEF Init, IrInit, ProgramInv

(* Concatenation is associative *)
LEMMA OpsConcat == \A x, y, z \in Seq(Ops) : (x \o y) \o z = x \o (y \o z)
BY ConcatAssociative, SMTT(60)

(* One instruction moves from what is left to what is emitted *)
LEMMA ProgramTranslate ==
  ASSUME IInv, ProgramInv, AddressesDiffer, LastIsWhole, Translate
  PROVE  ir' \o Program(text, Data)[pc'] = Program(text, Data)[0]
<1> DEFINE p == Program(text, Data)
           E == EmittedOf(text, pc)
           next_pc == pc + WidthOf(text, pc)
<1>1. TextSize \in Nat /\ TextSize % 2 = 0
  BY IrTranslateAssumption
<1>2. text \in [Halfwords -> Forms] /\ ir \in Seq(Ops) /\ phase # "map" /\ pc < TextSize
  BY DEF IInv, WalkInv, Translate
<1>3. pc \in Nat /\ pc % 2 = 0 /\ pc \in WalkAddrs
  BY <1>1 DEF IInv, WalkInv, WalkAddrs
<1>4. pc + Width(pc) <= TextSize
  <2>1. CASE pc = TextSize - 2
    <3>1. TextSize > 0
      BY <1>1, <1>2, <1>3
    <3>2. ~text[pc].wide
      BY <2>1, <3>1, Zenon DEF LastIsWhole
    <3>3. Width(pc) = 2
      BY <3>2, Zenon DEF Width
    <3> QED
      BY <1>1, <2>1, <3>3
  <2>2. CASE pc # TextSize - 2
    <3>1. pc + 4 <= TextSize
      BY <1>1, <1>2, <1>3, <2>2
    <3>2. Width(pc) \in {2, 4}
      BY DEF Width
    <3> QED
      BY <1>1, <1>3, <3>1, <3>2
  <2> QED
    BY <2>1, <2>2
<1>5. ir' = ir \o Emitted(pc) /\ pc' = pc + Width(pc)
  BY <1>4, TranslateFits DEF IInv, Translate
<1>6. ir' = ir \o E /\ pc' = next_pc
  BY <1>5 DEF Emitted, EmittedOf, Width, WidthOf
<1>7. next_pc \in WalkAddrs /\ E \in Seq(Ops)
  BY <1>2, <1>3, NextAddr
<1>8. p \in [WalkAddrs -> Seq(Ops)] /\ \A a \in WalkAddrs : p[a] = Value(p, text, Data, a)
  BY <1>2, ProgramFound
<1>9. pc \notin Data
  BY <1>2 DEF ProgramInv, Data, Translate, IsData
<1>10. ir \o p[pc] = p[0]
  BY <1>2 DEF ProgramInv
<1> HIDE DEF p
<1>11. p[pc] = E \o p[next_pc]
  <2>1. p[pc] = Value(p, text, Data, pc)
    BY <1>3, <1>8
  <2>2. ~(pc >= TextSize)
    BY <1>1, <1>2, <1>3
  <2> QED
    BY <1>9, <2>1, <2>2 DEF Value
<1> HIDE DEF E, next_pc
<1>12. p[next_pc] \in Seq(Ops)
  BY <1>7, <1>8
<1>13. (ir \o E) \o p[next_pc] = ir \o (E \o p[next_pc])
  BY <1>2, <1>7, <1>12, OpsConcat, Zenon
<1>14. ir' \o p[pc'] = p[0]
  BY <1>6, <1>10, <1>11, <1>13
<1> QED
  BY <1>14 DEF p

(* Each action keeps what is emitted and what is left the program *)
LEMMA ProgramStep ==
  ASSUME IInv, ProgramInv, [Next]_vars
  PROVE  ProgramInv'
<1>1. TextSize \in Nat /\ TextSize % 2 = 0 /\ pc \in Nat /\ pc % 2 = 0
  BY IrTranslateAssumption DEF IInv, WalkInv
<1>2. text \in [Halfwords -> Forms]
  BY DEF IInv, WalkInv
<1>3. CASE UNCHANGED irVars
  <2>1. AddressesDiffer' = AddressesDiffer /\ LastIsWhole' = LastIsWhole
    BY <1>3 DEF AddressesDiffer, LastIsWhole, irVars
  <2>2. DataBySymbols' = DataBySymbols
    BY <1>3 DEF DataBySymbols, irVars
  <2>3. Program(text, Data)' = Program(text, Data)
    BY <1>3, <2>2 DEF Data, irVars
  <2> QED
    BY <1>3, <2>1, <2>2, <2>3 DEF ProgramInv, irVars
<1>4. CASE BuildDataMap
  <2>1. UNCHANGED <<text, syms, pc, ir>> /\ phase = "map" /\ phase' = "walk"
    BY <1>4 DEF BuildDataMap
  <2>2. pc = 0 /\ ir = <<>>
    BY <2>1 DEF ProgramInv
  <2>3. AddressesDiffer' = AddressesDiffer /\ DataBySymbols' = DataBySymbols
    BY <2>1 DEF AddressesDiffer, DataBySymbols
  <2>4. hasMap' /\ AddressesDiffer => dataMap' = DataBySymbols
    BY <1>4, SortedSaysTheSame DEF BuildDataMap, ProgramInv
  <2>5. Program(text', Data')[0] \in Seq(Ops)
    <3>1. \A data : Program(text, data) \in [WalkAddrs -> Seq(Ops)]
      BY <1>2, ProgramFound
    <3>2. 0 \in WalkAddrs
      BY <1>1 DEF WalkAddrs
    <3> QED
      BY <2>1, <3>1, <3>2
  <2>6. ir' \o Program(text', Data')[pc'] = Program(text', Data')[0]
    BY <2>1, <2>2, <2>5, ConcatEmptySeq
  <2> QED
    BY <2>1, <2>3, <2>4, <2>6 DEF ProgramInv
<1>5. CASE SkipData \/ Translate \/ FinishWalk
  <2>1. UNCHANGED <<text, syms, hasMap, dataMap>> /\ phase # "map" /\ phase' # "map"
    BY <1>5 DEF SkipData, Translate, FinishWalk
  <2>2. AddressesDiffer' = AddressesDiffer /\ DataBySymbols' = DataBySymbols /\ LastIsWhole' = LastIsWhole
    BY <2>1 DEF AddressesDiffer, DataBySymbols, LastIsWhole
  <2>3. Data' = Data
    BY <2>1, <2>2 DEF Data
  <2>4. ASSUME AddressesDiffer, LastIsWhole
        PROVE  ir' \o Program(text, Data)[pc'] = Program(text, Data)[0]
    <3>1. CASE Translate
      BY <2>4, <3>1, ProgramTranslate
    <3>2. CASE FinishWalk
      BY <2>1, <2>4, <3>2 DEF FinishWalk, ProgramInv
    <3>3. CASE SkipData
      <4>1. pc \in WalkAddrs /\ pc < TextSize /\ pc \in Data /\ pc' = pc + 2 /\ ir' = ir
        BY <1>1, <2>1, <2>4, <3>3 DEF SkipData, IsData, Data, ProgramInv, WalkAddrs
      <4>2. Program(text, Data)[pc] = Value(Program(text, Data), text, Data, pc)
        BY <1>2, <4>1, ProgramFound
      <4>3. Program(text, Data)[pc] = Program(text, Data)[pc']
        BY <1>1, <4>1, <4>2 DEF Value
      <4> QED
        BY <2>1, <2>4, <4>1, <4>3 DEF ProgramInv
    <3> QED
      BY <1>5, <3>1, <3>2, <3>3
  <2> QED
    BY <2>1, <2>2, <2>3, <2>4 DEF ProgramInv
<1> QED
  BY <1>3, <1>4, <1>5 DEF Next, IrNext, Begin, Emit, Finish, vars

(* riscv_ir_translate emits each instruction of .text once, in the order of
   the addresses, and none of the bytes that the mapping symbols call data *)
THEOREM SpecIrIsTheProgram == Spec => []IrIsTheProgram
<1>1. Init => ProgramInv
  BY ProgramInit
<1>2. IInv /\ ProgramInv /\ [Next]_vars => ProgramInv'
  BY ProgramStep
<1>3. ProgramInv => IrIsTheProgram
  BY ProgramIs, Zenon DEF ProgramInv, IrIsTheProgram, Data, AddressesDiffer, LastIsWhole
<1> QED
  BY <1>1, <1>2, <1>3, SpecCompileInv, PTL DEF Spec
-----------------------------------------------------------------------------
(* f[k] is where operation k of q starts: behind the trampoline and the      *)
(* operations before it                                                      *)
IsSite(f, q) ==
  f = [k \in 1..Len(q) + 1 |->
         IF k = 1 THEN TrampolineBytes ELSE f[k - 1] + Bytes[q[k - 1].kind]]

(* Every operation takes at least one byte *)
LEMMA BytesType ==
  ASSUME NEW q \in Seq(Ops), NEW k \in 1..Len(q)
  PROVE  Bytes[q[k].kind] \in 1..InstrMax
<1>1. q[k] \in Ops
  OBVIOUS
<1>2. q[k].kind \in Kinds
  BY <1>1 DEF Ops
<1> QED
  BY <1>2, CodeBufferAssumption

(* The sizes can be added up *)
LEMMA SiteExists ==
  ASSUME NEW q \in Seq(Ops)
  PROVE  \E f : IsSite(f, q)
<1> DEFINE step == [n \in Nat |-> [s \in Nat |->
                      IF n + 1 \in 1..Len(q) THEN s + Bytes[q[n + 1].kind] ELSE s]]
<1>1. ASSUME NEW n \in Nat, NEW s \in Nat
      PROVE  (IF n + 1 \in 1..Len(q) THEN s + Bytes[q[n + 1].kind] ELSE s) \in Nat
  <2>1. CASE n + 1 \in 1..Len(q)
    <3>1. Bytes[q[n + 1].kind] \in Nat
      BY <2>1, BytesType, CodeBufferAssumption
    <3> QED
      BY <2>1, <3>1
  <2>2. CASE ~(n + 1 \in 1..Len(q))
    BY <2>2
  <2> QED
    BY <2>1, <2>2
<1>2. step \in Stepping(Nat)
  BY <1>1 DEF Stepping
<1>3. TrampolineBytes \in Nat /\ Len(q) \in Nat
  BY CodeBufferAssumption
<1>9. ASSUME NEW n \in Nat, NEW s \in Nat, n + 1 \in 1..Len(q)
      PROVE  step[n][s] = s + Bytes[q[n + 1].kind]
  BY <1>9
<1> HIDE DEF step
<1>4. PICK g : Recurs(g, Nat, TrampolineBytes, step)
  BY <1>2, <1>3, Recursion, Zenon
<1> DEFINE f == [k \in 1..Len(q) + 1 |-> g[k - 1]]
<1>5. ASSUME NEW k \in 1..Len(q) + 1, k # 1
      PROVE  f[k] = f[k - 1] + Bytes[q[k - 1].kind]
  <2>1. k - 1 \in 1..Len(q) /\ k - 2 \in Nat /\ k - 1 = (k - 2) + 1 /\ k - 1 \in 1..Len(q) + 1
    BY <1>3, <1>5
  <2>2. g[k - 1] = step[k - 2][g[k - 2]]
    BY <1>4, <2>1 DEF Recurs
  <2>3. step[k - 2][g[k - 2]] = g[k - 2] + Bytes[q[k - 1].kind]
    <3>1. g[k - 2] \in Nat
      BY <1>4, <2>1 DEF Recurs
    <3>2. step[k - 2][g[k - 2]] = g[k - 2] + Bytes[q[(k - 2) + 1].kind]
      BY <1>9, <2>1, <3>1
    <3> QED
      BY <2>1, <3>2
  <2>4. f[k] = g[k - 1] /\ f[k - 1] = g[k - 2]
    BY <2>1
  <2> QED
    BY <2>2, <2>3, <2>4
<1>6. f[1] = TrampolineBytes
  BY <1>3, <1>4 DEF Recurs
<1>7. f = [k \in 1..Len(q) + 1 |-> f[k]]
  OBVIOUS
<1> HIDE DEF f
<1>8. IsSite(f, q)
  BY <1>5, <1>6, <1>7 DEF IsSite
<1> QED
  BY <1>8

(* Such an f grows with k, by the bytes of operation k *)
LEMMA SiteSum ==
  ASSUME NEW q \in Seq(Ops), NEW f, IsSite(f, q)
  PROVE  /\ f[1] = TrampolineBytes
         /\ \A k \in 1..Len(q) : f[k + 1] = f[k] + Bytes[q[k].kind]
         /\ \A k \in 1..Len(q) + 1 : f[k] \in Nat \ {0}
         /\ \A j, k \in 1..Len(q) + 1 : j < k => f[j] < f[k]
<1>1. Len(q) \in Nat /\ TrampolineBytes \in Nat \ {0}
  BY CodeBufferAssumption
<1>2. f[1] = TrampolineBytes
  BY <1>1 DEF IsSite
<1>3. ASSUME NEW k \in 1..Len(q)
      PROVE  f[k + 1] = f[k] + Bytes[q[k].kind]
  <2>1. k + 1 \in 1..Len(q) + 1 /\ k + 1 # 1 /\ (k + 1) - 1 = k
    BY <1>1
  <2> QED
    BY <2>1 DEF IsSite
<1>4. \A k \in 1..Len(q) : Bytes[q[k].kind] \in Nat \ {0}
  BY BytesType, CodeBufferAssumption
<1> DEFINE Positive == {n \in Nat : n <= Len(q) => f[n + 1] \in Nat \ {0}}
<1>5. 0 \in Positive
  BY <1>1, <1>2
<1>6. ASSUME NEW n \in Nat, n \in Positive
      PROVE  n + 1 \in Positive
  <2> SUFFICES ASSUME n + 1 <= Len(q)
               PROVE  f[(n + 1) + 1] \in Nat \ {0}
    OBVIOUS
  <2>1. n + 1 \in 1..Len(q) /\ f[n + 1] \in Nat \ {0}
    BY <1>1, <1>6
  <2>2. f[(n + 1) + 1] = f[n + 1] + Bytes[q[n + 1].kind]
    BY <1>3, <2>1
  <2>3. Bytes[q[n + 1].kind] \in Nat \ {0}
    BY <1>4, <2>1
  <2> QED
    BY <2>1, <2>2, <2>3
<1>7. Nat \subseteq Positive
  <2> HIDE DEF Positive
  <2> QED
    BY <1>5, <1>6, SetInduction
<1>8. ASSUME NEW k \in 1..Len(q) + 1
      PROVE  f[k] \in Nat \ {0}
  <2>1. k - 1 \in Nat /\ k - 1 <= Len(q) /\ (k - 1) + 1 = k
    BY <1>1
  <2>2. k - 1 \in Positive
    BY <1>7, <2>1
  <2> QED
    BY <2>1, <2>2
<1> DEFINE Rising == {n \in Nat : \A j \in 1..Len(q) + 1 : j < n + 1 /\ n <= Len(q) => f[j] < f[n + 1]}
<1>9. 0 \in Rising
  OBVIOUS
<1>10. ASSUME NEW n \in Nat, n \in Rising
       PROVE  n + 1 \in Rising
  <2> SUFFICES ASSUME NEW j \in 1..Len(q) + 1, j < (n + 1) + 1, n + 1 <= Len(q)
               PROVE  f[j] < f[(n + 1) + 1]
    OBVIOUS
  <2>1. n + 1 \in 1..Len(q) /\ n + 1 \in 1..Len(q) + 1
    BY <1>1
  <2>2. f[(n + 1) + 1] = f[n + 1] + Bytes[q[n + 1].kind]
    BY <1>3, <2>1
  <2>3. Bytes[q[n + 1].kind] \in Nat \ {0} /\ f[n + 1] \in Nat /\ f[j] \in Nat
    BY <1>4, <1>8, <2>1
  <2>4. f[j] <= f[n + 1]
    <3>1. CASE j = n + 1
      BY <2>3, <3>1
    <3>2. CASE j < n + 1
      BY <1>1, <1>10, <2>3, <3>2
    <3> QED
      BY <3>1, <3>2
  <2> QED
    BY <2>2, <2>3, <2>4
<1>11. Nat \subseteq Rising
  <2> HIDE DEF Rising
  <2> QED
    BY <1>9, <1>10, SetInduction
<1>12. ASSUME NEW j \in 1..Len(q) + 1, NEW k \in 1..Len(q) + 1, j < k
       PROVE  f[j] < f[k]
  <2>1. k - 1 \in Nat /\ k - 1 <= Len(q) /\ (k - 1) + 1 = k
    BY <1>1
  <2>2. k - 1 \in Rising
    BY <1>11, <2>1
  <2> QED
    BY <1>12, <2>1, <2>2
<1> QED
  BY <1>2, <1>3, <1>8, <1>12

(* Site is such an f *)
LEMMA SiteIs ==
  ASSUME ir \in Seq(Ops)
  PROVE  IsSite(Site, ir)
BY SiteExists DEF Site, IsSite

(* The places change only with the operations *)
LEMMA SiteKept ==
  ASSUME ir' = ir
  PROVE  Site' = Site
BY DEF Site
-----------------------------------------------------------------------------
(* The operations lie in the order of their addresses, all behind pc *)
OrderInv ==
  /\ \A i, j \in 1..Len(ir) : i <= j => ir[i].pc <= ir[j].pc
  /\ \A i \in 1..Len(ir) : ir[i].pc < pc

(* All that is emitted for the instruction at a carries the address a *)
LEMMA EmittedAt ==
  ASSUME text \in [Halfwords -> Forms], NEW a \in Halfwords, NEW i \in 1..Len(Emitted(a))
  PROVE  Emitted(a)[i].pc = a
<1> DEFINE ops == text[a].ops
           behind == [k \in 1..Len(ops) |-> AtPc(ops[k], a)]
<1>1. ops \in Seq(IrOp)
  BY IrTranslateAssumption
<1>2. behind \in Seq({AtPc(ops[k], a) : k \in 1..Len(ops)}) /\ Len(behind) = Len(ops) /\ Len(ops) \in Nat
  BY <1>1
<1>3. \A k \in 1..Len(ops) : behind[k].pc = a
  BY DEF AtPc
<1>4. Emitted(a) = <<AtPc(FuelCheck, a)>> \o behind
  BY DEF Emitted
<1>5. AtPc(FuelCheck, a).pc = a
  BY DEF AtPc
<1> HIDE DEF behind, ops
<1>6. /\ Len(Emitted(a)) = 1 + Len(behind)
      /\ Emitted(a)[1] = AtPc(FuelCheck, a)
      /\ i # 1 => Emitted(a)[i] = behind[i - 1]
  BY <1>2, <1>4
<1>7. i # 1 => i - 1 \in 1..Len(ops)
  BY <1>2, <1>6
<1> QED
  BY <1>3, <1>5, <1>6, <1>7

(* The builder drops operations only from the end *)
LEMMA PushedAt ==
  ASSUME NEW q \in Seq(Ops), NEW i \in 1..Len(Pushed(q))
  PROVE  i \in 1..Len(q) /\ Pushed(q)[i] = q[i]
<1>1. TextSize \in Nat /\ Len(q) \in Nat
  BY IrTranslateAssumption
<1>2. CASE Len(q) <= TextSize
  BY <1>1, <1>2, PushedFits
<1>3. CASE ~(Len(q) <= TextSize)
  <2>1. Pushed(q) = SubSeq(q, 1, TextSize)
    BY <1>3 DEF Pushed
  <2>2. Len(SubSeq(q, 1, TextSize)) = TextSize
    BY <1>1, <1>3
  <2> QED
    BY <1>1, <1>3, <2>1, <2>2
<1> QED
  BY <1>2, <1>3

(* The walk goes forward only *)
LEMMA OrderStep ==
  ASSUME IInv, OrderInv, [Next]_vars
  PROVE  OrderInv'
<1>1. CASE UNCHANGED irVars
  BY <1>1 DEF OrderInv, irVars
<1>2. CASE Translate
  <2> DEFINE q == ir \o Emitted(pc)
  <2>1. pc \in Halfwords /\ pc \in Nat
    BY <1>2, IrTranslateAssumption DEF IInv, WalkInv, Translate, Halfwords
  <2>2. text \in [Halfwords -> Forms] /\ ir \in Seq(Ops) /\ Len(ir) \in Nat
    BY DEF IInv, WalkInv
  <2>3. /\ Emitted(pc) \in Seq(Ops) /\ Len(Emitted(pc)) \in Nat /\ Width(pc) \in {2, 4}
        /\ \A i \in 1..Len(Emitted(pc)) : Emitted(pc)[i].pc = pc
    BY <2>1, <2>2, EmittedFits, EmittedAt
  <2>4. q \in Seq(Ops) /\ Len(q) = Len(ir) + Len(Emitted(pc))
    BY <2>2, <2>3
  <2>5. ASSUME NEW i \in 1..Len(q)
        PROVE  q[i].pc = IF i <= Len(ir) THEN ir[i].pc ELSE pc
    <3>1. CASE i <= Len(ir)
      BY <2>2, <2>3, <3>1
    <3>2. CASE ~(i <= Len(ir))
      <4>1. q[i] = Emitted(pc)[i - Len(ir)] /\ i - Len(ir) \in 1..Len(Emitted(pc))
        BY <2>2, <2>3, <2>4, <3>2
      <4> QED
        BY <2>3, <3>2, <4>1
    <3> QED
      BY <3>1, <3>2
  <2>6. \A i \in 1..Len(ir) : ir[i].pc \in Nat
    <3>1. \A i \in 1..Len(ir) : ir[i] \in Ops
      BY <2>2
    <3> QED
      BY <3>1, IrTranslateAssumption DEF Ops, Halfwords
  <2>7. ir' = Pushed(q) /\ pc' = pc + Width(pc)
    BY <1>2 DEF Translate
  <2> HIDE DEF q
  <2>8. ASSUME NEW i \in 1..Len(ir')
        PROVE  i \in 1..Len(q) /\ ir'[i] = q[i]
    BY <2>4, <2>7, PushedAt
  <2>9. ASSUME NEW i \in 1..Len(ir'), NEW j \in 1..Len(ir'), i <= j
        PROVE  ir'[i].pc <= ir'[j].pc
    <3>1. i \in 1..Len(q) /\ ir'[i] = q[i] /\ j \in 1..Len(q) /\ ir'[j] = q[j]
      BY <2>8
    <3>2. CASE j <= Len(ir)
      <4>1. i \in 1..Len(ir) /\ j \in 1..Len(ir)
        BY <2>2, <2>9, <3>1, <3>2
      <4>2. q[i].pc = ir[i].pc /\ q[j].pc = ir[j].pc
        BY <2>5, <3>1, <4>1
      <4> QED
        BY <2>9, <3>1, <4>1, <4>2 DEF OrderInv
    <3>3. CASE ~(j <= Len(ir))
      <4>1. q[j].pc = pc
        BY <2>5, <3>1, <3>3
      <4>2. CASE i <= Len(ir)
        <5>1. i \in 1..Len(ir) /\ q[i].pc = ir[i].pc
          BY <2>2, <2>5, <3>1, <4>2
        <5> QED
          BY <2>1, <2>6, <3>1, <4>1, <5>1 DEF OrderInv
      <4>3. CASE ~(i <= Len(ir))
        BY <2>1, <2>5, <3>1, <4>1, <4>3
      <4> QED
        BY <4>2, <4>3
    <3> QED
      BY <3>2, <3>3
  <2>10. ASSUME NEW i \in 1..Len(ir')
         PROVE  ir'[i].pc < pc'
    <3>1. i \in 1..Len(q) /\ ir'[i] = q[i]
      BY <2>8
    <3>2. CASE i <= Len(ir)
      <4>1. i \in 1..Len(ir) /\ q[i].pc = ir[i].pc
        BY <2>2, <2>5, <3>1, <3>2
      <4> QED
        BY <2>1, <2>3, <2>6, <2>7, <3>1, <4>1 DEF OrderInv
    <3>3. CASE ~(i <= Len(ir))
      BY <2>1, <2>3, <2>5, <2>7, <3>1, <3>3
    <3> QED
      BY <3>2, <3>3
  <2> QED
    BY <2>9, <2>10 DEF OrderInv
<1>3. CASE SkipData
  <2>1. \A i \in 1..Len(ir) : ir[i].pc \in Nat
    <3>1. \A i \in 1..Len(ir) : ir[i] \in Ops
      BY DEF IInv, WalkInv
    <3> QED
      BY <3>1, IrTranslateAssumption DEF Ops, Halfwords
  <2>2. pc \in Nat /\ pc' = pc + 2 /\ ir' = ir
    BY <1>3, IrTranslateAssumption DEF IInv, WalkInv, SkipData
  <2> QED
    BY <2>1, <2>2 DEF OrderInv
<1>4. CASE BuildDataMap \/ FinishWalk
  BY <1>4 DEF OrderInv, BuildDataMap, FinishWalk
<1> QED
  BY <1>1, <1>2, <1>3, <1>4 DEF Next, IrNext, Begin, Emit, Finish, vars
-----------------------------------------------------------------------------
(* The place that operation k leaves to be patched *)
PlaceOf(q, k, s) == [at |-> s[k], pc |-> q[k].pc, target |-> q[k].target]

(* The lists hold the places of the first n operations, each once *)
PlacesAre(q, n, lists, s) ==
  /\ \A kind \in Patched : \A i \in 1..Len(lists[kind]) :
        \E k \in 1..n : q[k].kind = kind /\ lists[kind][i] = PlaceOf(q, k, s)
  /\ \A k \in 1..n : q[k].kind \in Patched =>
        \E i \in 1..Len(lists[q[k].kind]) : lists[q[k].kind][i] = PlaceOf(q, k, s)
  /\ \A kind \in Patched : \A i, j \in 1..Len(lists[kind]) :
        i < j => lists[kind][i].at < lists[kind][j].at

PlacesInv(s) == PlacesAre(ir, next - 1, patches, s)

EnteredInv(s) ==
  \A k \in 1..next - 1 : IsEntry(k, ir[k].pc) => pcMap[ir[k].pc] = s[k]

CodeInv(s) ==
  /\ stage = "idle" => codeSize = 0
  /\ stage = "body" => codeSize = s[next]
  /\ EnteredInv(s)
  /\ PlacesInv(s)

(* One operation is appended where the ones before it end *)
LEMMA EmitExact ==
  ASSUME IInv, Emit, ~GiveUp, IsSite(Site, ir), CodeInv(Site)
  PROVE  /\ codeSize = Site[next]
         /\ codeSize' = Site[next + 1]
<1>1. ir \in Seq(Ops) /\ Len(ir) \in Nat /\ next \in 1..Len(ir)
  BY DEF IInv, WalkInv, EmitInv, Emit
<1>2. codeSize = Site[next] /\ codeSize \in Nat
  BY CapType DEF CodeInv, Emit, IInv, EmitInv
<1>3. HasRoom(InstrMax) /\ codeSize' = Grown(Bytes[ir[next].kind])
  BY DEF Emit
<1>4. Bytes[ir[next].kind] \in 1..InstrMax /\ InstrMax \in Nat
  BY <1>1, BytesType, CodeBufferAssumption
<1>5. codeSize + Bytes[ir[next].kind] <= Cap
  BY <1>2, <1>3, <1>4, CapType DEF HasRoom
<1>6. codeSize' = codeSize + Bytes[ir[next].kind]
  BY <1>3, <1>5 DEF Grown
<1>7. Site[next + 1] = Site[next] + Bytes[ir[next].kind]
  BY <1>1, SiteSum
<1> QED
  BY <1>2, <1>6, <1>7

(* pc_map is written for the first operation at an address only *)
LEMMA EmitEntered ==
  ASSUME IInv, OrderInv, Emit, ~GiveUp, IsSite(Site, ir), CodeInv(Site)
  PROVE  \A k \in 1..next : IsEntry(k, ir[k].pc) => pcMap'[ir[k].pc] = Site[k]
<1>1. ir \in Seq(Ops) /\ Len(ir) \in Nat /\ next \in 1..Len(ir)
  BY DEF IInv, WalkInv, EmitInv, Emit
<1>2. \A k \in 1..Len(ir) : ir[k].pc \in 0..TextSize - 1
  <2>1. \A k \in 1..Len(ir) : ir[k] \in Ops
    BY <1>1
  <2> QED
    BY <2>1 DEF Ops, Halfwords
<1>3. codeSize = Site[next]
  BY EmitExact
<1>4. pcMap' = IF FirstOfInstr(next) THEN [pcMap EXCEPT ![ir[next].pc] = codeSize] ELSE pcMap
  BY DEF Emit
<1>5. pcMap \in [0..TextSize - 1 -> {Junk} \cup 0..Cap]
  BY DEF IInv, EmitInv
<1> SUFFICES ASSUME NEW k \in 1..next, IsEntry(k, ir[k].pc)
             PROVE  pcMap'[ir[k].pc] = Site[k]
  OBVIOUS
<1>6. k \in 1..Len(ir)
  BY <1>1
<1>7. CASE k = next
  <2>1. FirstOfInstr(next)
    <3> SUFFICES ASSUME next # 1, ir[next - 1].pc = ir[next].pc
                 PROVE  FALSE
      BY DEF FirstOfInstr
    <3>1. next - 1 \in 1..Len(ir) /\ ~(next <= next - 1)
      BY <1>1
    <3> QED
      BY <1>7, <3>1 DEF IsEntry
  <2> QED
    BY <1>2, <1>3, <1>4, <1>5, <1>6, <1>7, <2>1
<1>8. CASE k # next
  <2>1. k \in 1..next - 1 /\ pcMap[ir[k].pc] = Site[k]
    BY <1>1, <1>8 DEF CodeInv, EnteredInv
  <2>2. CASE ~FirstOfInstr(next)
    BY <1>4, <2>1, <2>2
  <2>3. CASE FirstOfInstr(next)
    <3>1. ir[k].pc # ir[next].pc
      <4> SUFFICES ASSUME ir[k].pc = ir[next].pc
                   PROVE  FALSE
        OBVIOUS
      <4>1. next # 1 /\ next - 1 \in 1..Len(ir) /\ k <= next - 1 /\ next - 1 <= next
        BY <1>1, <2>1
      <4>2. ir[k].pc <= ir[next - 1].pc /\ ir[next - 1].pc <= ir[next].pc
        BY <1>1, <1>6, <4>1 DEF OrderInv
      <4>3. ir[next - 1].pc = ir[next].pc
        BY <1>1, <1>2, <1>6, <4>1, <4>2
      <4> QED
        BY <2>3, <4>1, <4>3 DEF FirstOfInstr
    <3> QED
      BY <1>2, <1>4, <1>5, <1>6, <2>1, <2>3, <3>1
  <2> QED
    BY <2>2, <2>3
<1> QED
  BY <1>7, <1>8

(* The place appended is the only new one, and lies behind the others *)
LEMMA EmitPlaces ==
  ASSUME IInv, Emit, ~GiveUp, IsSite(Site, ir), CodeInv(Site)
  PROVE  PlacesAre(ir, next, patches', Site)
<1> DEFINE op == ir[next]
           place == [at |-> codeSize, pc |-> op.pc, target |-> op.target]
<1>1. ir \in Seq(Ops) /\ Len(ir) \in Nat /\ next \in 1..Len(ir)
  BY DEF IInv, WalkInv, EmitInv, Emit
<1>2. place = PlaceOf(ir, next, Site)
  BY EmitExact DEF PlaceOf
<1>3. patches' = IF op.kind \in Patched THEN [patches EXCEPT ![op.kind] = Append(@, place)] ELSE patches
  BY DEF Emit
<1>4. patches \in [Patched -> Seq(PatchPlaces)]
  BY DEF IInv, EmitInv
<1>5. place \in PatchPlaces
  <2>1. op \in Ops /\ codeSize \in Int
    BY <1>1, CapType DEF IInv, EmitInv
  <2> QED
    BY <2>1 DEF Ops, PatchPlaces
<1>6. /\ \A k \in 1..Len(ir) + 1 : Site[k] \in Nat
      /\ \A j, k \in 1..Len(ir) + 1 : j < k => Site[j] < Site[k]
  BY <1>1, SiteSum
<1> HIDE DEF place, op
<1>7. ASSUME NEW kind \in Patched
      PROVE  /\ patches[kind] \in Seq(PatchPlaces)
             /\ kind # op.kind => patches'[kind] = patches[kind]
             /\ kind = op.kind => patches'[kind] = Append(patches[kind], place)
  BY <1>3, <1>4
<1>8. ASSUME NEW kind \in Patched, NEW i \in 1..Len(patches'[kind])
      PROVE  \/ i \in 1..Len(patches[kind]) /\ patches'[kind][i] = patches[kind][i]
             \/ kind = op.kind /\ i = Len(patches[kind]) + 1 /\ patches'[kind][i] = place
  <2>1. CASE kind # op.kind
    BY <1>7, <2>1
  <2>2. CASE kind = op.kind
    <3>1. patches[kind] \in Seq(PatchPlaces) /\ patches'[kind] = Append(patches[kind], place)
      BY <1>7, <2>2
    <3> QED
      BY <1>5, <2>2, <3>1
  <2> QED
    BY <2>1, <2>2
<1>9. ASSUME NEW kind \in Patched, NEW i \in 1..Len(patches[kind])
      PROVE  i \in 1..Len(patches'[kind]) /\ patches'[kind][i] = patches[kind][i]
  <2>1. CASE kind # op.kind
    BY <1>7, <2>1
  <2>2. CASE kind = op.kind
    <3>1. patches[kind] \in Seq(PatchPlaces) /\ patches'[kind] = Append(patches[kind], place)
      BY <1>7, <2>2
    <3> QED
      BY <1>5, <3>1
  <2> QED
    BY <2>1, <2>2
<1>10. ASSUME NEW kind \in Patched, NEW i \in 1..Len(patches'[kind])
       PROVE  \E k \in 1..next : ir[k].kind = kind /\ patches'[kind][i] = PlaceOf(ir, k, Site)
  <2>1. CASE i \in 1..Len(patches[kind]) /\ patches'[kind][i] = patches[kind][i]
    <3>1. PICK k \in 1..next - 1 : ir[k].kind = kind /\ patches[kind][i] = PlaceOf(ir, k, Site)
      BY <2>1 DEF CodeInv, PlacesInv, PlacesAre
    <3>2. k \in 1..next
      BY <1>1, <3>1
    <3> QED
      BY <2>1, <3>1, <3>2
  <2>2. CASE kind = op.kind /\ patches'[kind][i] = place
    BY <1>1, <1>2, <2>2 DEF op
  <2> QED
    BY <1>8, <2>1, <2>2
<1>11. ASSUME NEW k \in 1..next, ir[k].kind \in Patched
       PROVE  \E i \in 1..Len(patches'[ir[k].kind]) : patches'[ir[k].kind][i] = PlaceOf(ir, k, Site)
  <2>1. CASE k # next
    <3>1. k \in 1..next - 1
      BY <1>1, <2>1
    <3>2. PICK i \in 1..Len(patches[ir[k].kind]) : patches[ir[k].kind][i] = PlaceOf(ir, k, Site)
      BY <1>11, <3>1 DEF CodeInv, PlacesInv, PlacesAre
    <3> QED
      BY <1>9, <1>11, <3>2
  <2>2. CASE k = next
    <3>1. patches[op.kind] \in Seq(PatchPlaces) /\ patches'[op.kind] = Append(patches[op.kind], place)
      BY <1>7, <1>11, <2>2 DEF op
    <3>2. /\ Len(patches[op.kind]) + 1 \in 1..Len(patches'[op.kind])
          /\ patches'[op.kind][Len(patches[op.kind]) + 1] = place
      BY <1>5, <3>1
    <3> QED
      BY <1>2, <2>2, <3>2 DEF op
  <2> QED
    BY <2>1, <2>2
<1>12. ASSUME NEW kind \in Patched, NEW i \in 1..Len(patches'[kind]),
              NEW j \in 1..Len(patches'[kind]), i < j
       PROVE  patches'[kind][i].at < patches'[kind][j].at
  <2>1. CASE j \in 1..Len(patches[kind]) /\ patches'[kind][j] = patches[kind][j]
    <3>1. i \in 1..Len(patches[kind])
      BY <1>12, <2>1
    <3>2. patches'[kind][i] = patches[kind][i]
      BY <1>9, <3>1
    <3> QED
      BY <1>12, <2>1, <3>1, <3>2 DEF CodeInv, PlacesInv, PlacesAre
  <2>2. CASE kind = op.kind /\ j = Len(patches[kind]) + 1 /\ patches'[kind][j] = place
    <3>1. patches[kind] \in Seq(PatchPlaces)
      BY <1>7
    <3>2. i \in 1..Len(patches[kind])
      BY <1>12, <2>2, <3>1
    <3>3. PICK k \in 1..next - 1 : ir[k].kind = kind /\ patches[kind][i] = PlaceOf(ir, k, Site)
      BY <3>2 DEF CodeInv, PlacesInv, PlacesAre
    <3>4. patches'[kind][i].at = Site[k]
      BY <1>9, <3>2, <3>3 DEF PlaceOf
    <3>5. patches'[kind][j].at = Site[next]
      BY <1>2, <2>2 DEF PlaceOf
    <3>6. k \in 1..Len(ir) + 1 /\ next \in 1..Len(ir) + 1 /\ k < next
      BY <1>1, <3>3
    <3> QED
      BY <1>6, <3>4, <3>5, <3>6
  <2> QED
    BY <1>8, <2>1, <2>2
<1> QED
  BY <1>10, <1>11, <1>12 DEF PlacesAre

(* Before the first byte nothing is claimed *)
LEMMA CodeInit == Init => CodeInv(Site)
BY DEF Init, CodeInv, EnteredInv, PlacesInv, PlacesAre

(* What is said of the places is said of these four *)
LEMMA PlacesKept ==
  ASSUME UNCHANGED <<ir, next, pcMap, patches>>
  PROVE  /\ EnteredInv(Site) => EnteredInv(Site)'
         /\ PlacesInv(Site) => PlacesInv(Site)'
<1>1. Site' = Site
  BY SiteKept
<1>2. ir' = ir /\ next' = next /\ pcMap' = pcMap /\ patches' = patches
  OBVIOUS
<1>3. EnteredInv(Site) => EnteredInv(Site)'
  BY <1>1, <1>2, Zenon DEF EnteredInv, IsEntry
<1>4. PlacesInv(Site) => PlacesInv(Site)'
  BY <1>1, <1>2, Zenon DEF PlacesInv
<1> QED
  BY <1>3, <1>4

(* Each action keeps the code where Site says *)
LEMMA CodeStep ==
  ASSUME IInv, OrderInv, CodeInv(Site), [Next]_vars
  PROVE  CodeInv(Site)'
<1>1. ir \in Seq(Ops) /\ Len(ir) \in Nat /\ next \in 1..Len(ir) + 1
  BY DEF IInv, WalkInv, EmitInv
<1>2. IsSite(Site, ir)
  BY <1>1, SiteIs
<1>3. CASE IrNext /\ UNCHANGED codeVars
  <2>1. stage = "idle" /\ next = 1
    BY <1>3 DEF IInv, EmitInv, IrNext, BuildDataMap, SkipData, Translate, FinishWalk
  <2>2. UNCHANGED <<stage, next, patches>>
    BY <1>3 DEF codeVars
  <2>3. \A kind \in Patched : Len(patches[kind]) = 0
    <3>1. \A kind \in Patched : Len(patches[kind]) \in Nat /\ Len(patches[kind]) <= next - 1
      BY DEF IInv, EmitInv
    <3> QED
      BY <2>1, <3>1
  <2> QED
    BY <1>3, <2>1, <2>2, <2>3 DEF CodeInv, EnteredInv, PlacesInv, PlacesAre, codeVars
<1>4. CASE UNCHANGED <<ir, next, pcMap, patches>> 
           /\ (stage' = "body" => stage = "body" /\ codeSize' = codeSize)
           /\ (stage' = "idle" => stage = "idle" /\ codeSize' = codeSize)
  <2>1. EnteredInv(Site)' /\ PlacesInv(Site)'
    BY <1>4, PlacesKept DEF CodeInv
  <2>2. Site' = Site /\ next' = next
    BY <1>4, SiteKept
  <2> QED
    BY <1>4, <2>1, <2>2 DEF CodeInv
<1>5. CASE Begin /\ stage' = "body"
  <2>1. UNCHANGED <<ir, next, pcMap, patches>> /\ next = 1 /\ HasRoom(TrampolineMax)
        /\ codeSize' = Grown(TrampolineBytes)
    BY <1>5 DEF Begin, GiveUp, irVars, IInv, EmitInv
  <2>2. Site' = Site
    BY <2>1, SiteKept
  <2>3. Site[1] = TrampolineBytes
    BY <1>1, <1>2, SiteSum
  <2>4. codeSize = 0
    BY <1>5 DEF Begin, CodeInv
  <2>5. codeSize' = TrampolineBytes
    BY <2>1, <2>4, CapType, CodeBufferAssumption DEF HasRoom, Grown
  <2>6. EnteredInv(Site)' /\ PlacesInv(Site)'
    BY <2>1, PlacesKept DEF CodeInv
  <2> QED
    BY <1>5, <2>1, <2>2, <2>3, <2>5, <2>6 DEF CodeInv
<1>6. CASE Emit /\ ~GiveUp
  <2>1. UNCHANGED <<ir, stage>> /\ next' = next + 1 /\ next' - 1 = next
    BY <1>1, <1>6 DEF Emit, irVars
  <2>2. Site' = Site
    BY <2>1, SiteKept
  <2>3. codeSize' = Site[next']
    BY <1>2, <1>6, <2>1, EmitExact
  <2>4. EnteredInv(Site)'
    <3>1. \A k \in 1..next : IsEntry(k, ir[k].pc) => pcMap'[ir[k].pc] = Site[k]
      BY <1>2, <1>6, EmitEntered
    <3> QED
      BY <2>1, <2>2, <3>1 DEF EnteredInv, IsEntry
  <2>5. PlacesInv(Site)'
    <3>1. PlacesAre(ir, next, patches', Site)
      BY <1>2, <1>6, EmitPlaces
    <3> QED
      BY <2>1, <2>2, <3>1, Zenon DEF PlacesInv
  <2> QED
    BY <1>6, <2>1, <2>2, <2>3, <2>4, <2>5 DEF CodeInv, Emit
<1> QED
  BY <1>3, <1>4, <1>5, <1>6 DEF Next, Begin, Emit, Finish, GiveUp, vars, irVars, codeVars
-----------------------------------------------------------------------------
FaultOf(kind, i) == [at |-> patches[kind][i].at, pc |-> patches[kind][i].pc, fault |-> kind]
Faulting == {"load", "store", "fuel"}

(* Two sequences behind each other *)
LEMMA Concatenated ==
  ASSUME NEW S, NEW x \in Seq(S), NEW y \in Seq(S)
  PROVE  /\ x \o y \in Seq(S)
         /\ Len(x) \in Nat /\ Len(y) \in Nat
         /\ Len(x \o y) = Len(x) + Len(y)
         /\ \A m \in 1..Len(x) : (x \o y)[m] = x[m]
         /\ \A m \in 1..Len(y) : (x \o y)[Len(x) + m] = y[m]
OBVIOUS

(* The stubs are those of the three lists, one list behind the other *)
LEMMA FaultsAre ==
  ASSUME patches \in [Patched -> Seq(PatchPlaces)]
  PROVE  LET a == Len(patches["load"])
             b == Len(patches["store"])
             c == Len(patches["fuel"])
         IN /\ a \in Nat /\ b \in Nat /\ c \in Nat
            /\ Len(Faults) = a + b + c
            /\ \A m \in 1..a : Faults[m] = FaultOf("load", m)
            /\ \A m \in 1..b : Faults[a + m] = FaultOf("store", m)
            /\ \A m \in 1..c : Faults[a + b + m] = FaultOf("fuel", m)
<1> DEFINE Of(kind) == [i \in 1..Len(patches[kind]) |-> FaultOf(kind, i)]
           Some == {FaultOf(kind, i) : kind \in Faulting, i \in Nat}
           a == Len(patches["load"])
           b == Len(patches["store"])
           c == Len(patches["fuel"])
<1>1. /\ patches["load"] \in Seq(PatchPlaces)
      /\ patches["store"] \in Seq(PatchPlaces)
      /\ patches["fuel"] \in Seq(PatchPlaces)
  BY DEF Patched
<1>2. a \in Nat /\ b \in Nat /\ c \in Nat
  BY <1>1
<1>3. ASSUME NEW kind \in Faulting
      PROVE  /\ Of(kind) \in Seq(Some) /\ Len(Of(kind)) = Len(patches[kind])
             /\ \A i \in 1..Len(patches[kind]) : Of(kind)[i] = FaultOf(kind, i)
  <2>1. Len(patches[kind]) \in Nat
    BY <1>2 DEF Faulting
  <2>2. \A i \in 1..Len(patches[kind]) : FaultOf(kind, i) \in Some
    BY <2>1
  <2> HIDE DEF Some
  <2> QED
    BY <2>1, <2>2
<1>4. Faults = Of("load") \o Of("store") \o Of("fuel")
  BY DEF Faults, FaultOf
<1>5. "load" \in Faulting /\ "store" \in Faulting /\ "fuel" \in Faulting
  BY DEF Faulting
<1> DEFINE x == Of("load")
           y == Of("store")
           z == Of("fuel")
<1>6. /\ x \in Seq(Some) /\ Len(x) = a /\ \A m \in 1..a : x[m] = FaultOf("load", m)
      /\ y \in Seq(Some) /\ Len(y) = b /\ \A m \in 1..b : y[m] = FaultOf("store", m)
      /\ z \in Seq(Some) /\ Len(z) = c /\ \A m \in 1..c : z[m] = FaultOf("fuel", m)
  <2> HIDE DEF Of, Some
  <2> QED
    BY <1>3, <1>5
<1>7. Faults = x \o y \o z
  BY <1>4
<1> HIDE DEF x, y, z, Some, a, b, c
<1> DEFINE w == x \o y
<1>8. w \in Seq(Some) /\ Len(w) = a + b
  BY <1>6, Concatenated
<1>9. /\ \A m \in 1..a : w[m] = x[m]
      /\ \A m \in 1..b : w[a + m] = y[m]
  BY <1>6, Concatenated
<1>10. Faults = w \o z
  BY <1>7
<1> HIDE DEF w
<1>11. /\ Len(w \o z) = a + b + c
       /\ \A m \in 1..a + b : (w \o z)[m] = w[m]
       /\ \A m \in 1..c : (w \o z)[a + b + m] = z[m]
  BY <1>6, <1>8, Concatenated
<1>12. /\ a \in Nat /\ b \in Nat /\ c \in Nat
       /\ Len(Faults) = a + b + c
       /\ \A m \in 1..a : Faults[m] = FaultOf("load", m)
       /\ \A m \in 1..b : Faults[a + m] = FaultOf("store", m)
       /\ \A m \in 1..c : Faults[a + b + m] = FaultOf("fuel", m)
  <2>1. \A m \in 1..a : m \in 1..a + b
    BY <1>2
  <2>2. \A m \in 1..b : a + m \in 1..a + b
    BY <1>2
  <2>3. \A m \in 1..a : Faults[m] = FaultOf("load", m)
    BY <1>6, <1>9, <1>10, <1>11, <2>1, Zenon
  <2>4. \A m \in 1..b : Faults[a + m] = FaultOf("store", m)
    BY <1>6, <1>9, <1>10, <1>11, <2>2, Zenon
  <2>5. \A m \in 1..c : Faults[a + b + m] = FaultOf("fuel", m)
    BY <1>6, <1>10, <1>11, Zenon
  <2> QED
    BY <1>2, <1>10, <1>11, <2>3, <2>4, <2>5, Zenon
<1> QED
  BY <1>12 DEF a, b, c

(* Where in Faults the place i of a list is *)
FaultAt(kind, i) ==
  CASE kind = "load" -> i
    [] kind = "store" -> Len(patches["load"]) + i
    [] kind = "fuel" -> Len(patches["load"]) + Len(patches["store"]) + i

(* FaultAt finds every fault of every list *)
LEMMA FaultsFound ==
  ASSUME patches \in [Patched -> Seq(PatchPlaces)]
  PROVE  /\ Len(Faults) \in Nat
         /\ \A kind \in Faulting : \A i \in 1..Len(patches[kind]) :
              FaultAt(kind, i) \in 1..Len(Faults) /\ Faults[FaultAt(kind, i)] = FaultOf(kind, i)
         /\ \A m \in 1..Len(Faults) : \E kind \in Faulting : \E i \in 1..Len(patches[kind]) :
              m = FaultAt(kind, i)
<1> DEFINE a == Len(patches["load"])
           b == Len(patches["store"])
           c == Len(patches["fuel"])
<1>1. /\ a \in Nat /\ b \in Nat /\ c \in Nat
      /\ Len(Faults) = a + b + c
      /\ \A m \in 1..a : Faults[m] = FaultOf("load", m)
      /\ \A m \in 1..b : Faults[a + m] = FaultOf("store", m)
      /\ \A m \in 1..c : Faults[a + b + m] = FaultOf("fuel", m)
  BY FaultsAre
<1>2. \A i : FaultAt("load", i) = i /\ FaultAt("store", i) = a + i /\ FaultAt("fuel", i) = a + b + i
  BY DEF FaultAt
<1> HIDE DEF a, b, c
<1>3. ASSUME NEW i \in 1..a
      PROVE  FaultAt("load", i) \in 1..Len(Faults) /\ Faults[FaultAt("load", i)] = FaultOf("load", i)
  BY <1>1, <1>2
<1>4. ASSUME NEW i \in 1..b
      PROVE  FaultAt("store", i) \in 1..Len(Faults) /\ Faults[FaultAt("store", i)] = FaultOf("store", i)
  BY <1>1, <1>2
<1>5. ASSUME NEW i \in 1..c
      PROVE  FaultAt("fuel", i) \in 1..Len(Faults) /\ Faults[FaultAt("fuel", i)] = FaultOf("fuel", i)
  BY <1>1, <1>2
<1>6. ASSUME NEW m \in 1..Len(Faults)
      PROVE  \E kind \in Faulting : \E i \in 1..Len(patches[kind]) : m = FaultAt(kind, i)
  <2>1. CASE m <= a
    <3>1. m \in 1..a /\ m = FaultAt("load", m)
      BY <1>1, <1>2, <2>1
    <3> QED
      BY <3>1 DEF a, Faulting
  <2>2. CASE m > a /\ m <= a + b
    <3>1. m - a \in 1..b /\ m = FaultAt("store", m - a)
      BY <1>1, <1>2, <2>2
    <3> QED
      BY <3>1 DEF b, Faulting
  <2>3. CASE m > a + b
    <3>1. m - a - b \in 1..c /\ m = FaultAt("fuel", m - a - b)
      BY <1>1, <1>2, <2>3
    <3> QED
      BY <3>1 DEF c, Faulting
  <2> QED
    BY <1>1, <2>1, <2>2, <2>3
<1>7. Len(Faults) \in Nat
  BY <1>1
<1> QED
  BY <1>3, <1>4, <1>5, <1>6, <1>7 DEF a, b, c, Faulting

(* What a place in the buffer is linked with *)
LinkedTo(L, a) == {l.to : l \in {l \in L : l.at = a}}

(* LinksAreRight, of given operations, sites, links, stubs and epilogue *)
RightLinks(q, s, L, st, ep) ==
  \A k \in 1..Len(q) :
    /\ q[k].kind = "branch" =>
         IF q[k].target \in 0..TextSize - 1
         THEN \A j \in 1..Len(q) :
                (q[j].pc = q[k].target /\ \A n \in 1..Len(q) : q[n].pc = q[k].target => j <= n)
                  => LinkedTo(L, s[k]) = {s[j]}
         ELSE LinkedTo(L, s[k]) = {ep}
    /\ q[k].kind = "indirect" => LinkedTo(L, s[k]) = {ep}
    /\ q[k].kind \in {"load", "store", "fuel"} =>
         \E i \in 1..Len(st) :
           LinkedTo(L, s[k]) = {st[i].at} /\ st[i].pc = q[k].pc /\ st[i].fault = q[k].kind

(* RightLinks is what LinksAreRight says of the finished code *)
LEMMA RightLinksAre ==
  LinksAreRight <=> (stage = "ok" => RightLinks(ir, Site, links, stubs, epilogue))
BY Zenon DEF LinksAreRight, RightLinks, LinkedTo, IsEntry

(* The same of the next state *)
LEMMA RightLinksAreNext ==
  LinksAreRight' <=> (stage' = "ok" => RightLinks(ir', Site', links', stubs', epilogue'))
BY Zenon DEF LinksAreRight, RightLinks, LinkedTo, IsEntry

(* A place that all links from it agree on leads to one place *)
LEMMA LinkedOnce ==
  ASSUME NEW L, NEW a, NEW t,
         \A l \in L : l.at = a => l.to = t,
         \E l \in L : l.at = a
  PROVE  LinkedTo(L, a) = {t}
BY DEF LinkedTo

(* Every place of every list has its link *)
LEMMA LinksHold ==
  /\ \A i \in 1..Len(patches["branch"]) :
       [at |-> patches["branch"][i].at, to |-> BranchTarget(patches["branch"][i])] \in Links
  /\ \A i \in 1..Len(patches["indirect"]) :
       [at |-> patches["indirect"][i].at, to |-> codeSize] \in Links
  /\ \A m \in 1..Len(Faults) : [at |-> Faults[m].at, to |-> StubAt(m)] \in Links
  /\ \A l \in Links :
       \/ \E i \in 1..Len(patches["branch"]) :
            l.at = patches["branch"][i].at /\ l.to = BranchTarget(patches["branch"][i])
       \/ \E i \in 1..Len(patches["indirect"]) :
            l.at = patches["indirect"][i].at /\ l.to = codeSize
       \/ \E m \in 1..Len(Faults) : l.at = Faults[m].at /\ l.to = StubAt(m)
<1>1. ASSUME NEW i \in 1..Len(patches["branch"])
      PROVE  [at |-> patches["branch"][i].at, to |-> BranchTarget(patches["branch"][i])] \in Links
  BY DEF Links, Places
<1>2. ASSUME NEW i \in 1..Len(patches["indirect"])
      PROVE  [at |-> patches["indirect"][i].at, to |-> codeSize] \in Links
  BY DEF Links, Places
<1>3. ASSUME NEW m \in 1..Len(Faults)
      PROVE  [at |-> Faults[m].at, to |-> StubAt(m)] \in Links
  BY DEF Links
<1>4. ASSUME NEW l \in Links
      PROVE  \/ \E i \in 1..Len(patches["branch"]) :
                  l.at = patches["branch"][i].at /\ l.to = BranchTarget(patches["branch"][i])
             \/ \E i \in 1..Len(patches["indirect"]) :
                  l.at = patches["indirect"][i].at /\ l.to = codeSize
             \/ \E m \in 1..Len(Faults) : l.at = Faults[m].at /\ l.to = StubAt(m)
  <2>1. CASE l \in {[at |-> p.at, to |-> BranchTarget(p)] : p \in Places("branch")}
    BY <2>1 DEF Places
  <2>2. CASE l \in {[at |-> p.at, to |-> codeSize] : p \in Places("indirect")}
    BY <2>2 DEF Places
  <2>3. CASE l \in {[at |-> Faults[i].at, to |-> StubAt(i)] : i \in 1..Len(Faults)}
    BY <2>3
  <2> QED
    BY <2>1, <2>2, <2>3 DEF Links
<1> QED
  BY <1>1, <1>2, <1>3, <1>4

(* Each kind of operation has places in its own list, and there one *)
LEMMA PlacesApart ==
  ASSUME ir \in Seq(Ops), IsSite(Site, ir), PlacesAre(ir, Len(ir), patches, Site),
         patches \in [Patched -> Seq(PatchPlaces)],
         NEW kind \in Patched, NEW i \in 1..Len(patches[kind]),
         NEW k \in 1..Len(ir), patches[kind][i].at = Site[k]
  PROVE  /\ ir[k].kind = kind
         /\ patches[kind][i] = PlaceOf(ir, k, Site)
         /\ \A j \in 1..Len(patches[kind]) : patches[kind][j].at = Site[k] => j = i
<1>1. PICK n \in 1..Len(ir) : ir[n].kind = kind /\ patches[kind][i] = PlaceOf(ir, n, Site)
  BY DEF PlacesAre
<1>2. Site[n] = Site[k]
  BY <1>1 DEF PlaceOf
<1>3. /\ \A j \in 1..Len(ir) + 1 : Site[j] \in Nat
      /\ \A j, m \in 1..Len(ir) + 1 : j < m => Site[j] < Site[m]
  BY SiteSum
<1>4. n \in 1..Len(ir) + 1 /\ k \in 1..Len(ir) + 1 /\ n \in Int /\ k \in Int
  OBVIOUS
<1>5. n = k
  BY <1>2, <1>3, <1>4
<1>6. ASSUME NEW j \in 1..Len(patches[kind]), patches[kind][j].at = Site[k], j # i
      PROVE  FALSE
  <2>1. j \in Int /\ i \in Int /\ (j < i \/ i < j)
    BY <1>6
  <2>2. Site[k] < Site[k]
    BY <1>6, <2>1 DEF PlacesAre
  <2> QED
    BY <1>3, <1>4, <2>2
<1> QED
  BY <1>1, <1>5, <1>6

(* emit_exit_stub, emit_epilogue and the patching at the end of
   riscv_jit_cg_x86 leave every place leading where it should *)
LEMMA FinishLinks ==
  ASSUME IInv, OrderInv, CodeInv(Site), Finish, ~GiveUp
  PROVE  LinksAreRight'
<1>1. ir \in Seq(Ops) /\ Len(ir) \in Nat /\ next = Len(ir) + 1 /\ next - 1 = Len(ir)
  BY DEF IInv, WalkInv, EmitInv, Finish
<1>2. IsSite(Site, ir)
  BY <1>1, SiteIs
<1>3. PlacesAre(ir, Len(ir), patches, Site)
  BY <1>1, Zenon DEF CodeInv, PlacesInv
<1>4. patches \in [Patched -> Seq(PatchPlaces)]
  BY DEF IInv, EmitInv
<1>5. /\ ir' = ir /\ Site' = Site /\ epilogue' = codeSize /\ links' = Links
      /\ stubs' = [i \in 1..Len(Faults) |->
                     [at |-> StubAt(i), pc |-> Faults[i].pc, fault |-> Faults[i].fault]]
  BY SiteKept DEF Finish, irVars
<1>6. Len(Faults) \in Nat
  BY <1>4, FaultsFound
<1>7. Len(stubs') = Len(Faults)
  BY <1>5, <1>6
(* the place of operation k is in no list but that of its kind *)
<1>8. ASSUME NEW k \in 1..Len(ir), NEW kind \in Patched, NEW i \in 1..Len(patches[kind]),
             patches[kind][i].at = Site[k]
      PROVE  /\ ir[k].kind = kind
             /\ patches[kind][i] = PlaceOf(ir, k, Site)
             /\ \A j \in 1..Len(patches[kind]) : patches[kind][j].at = Site[k] => j = i
  BY <1>1, <1>2, <1>3, <1>4, <1>8, PlacesApart
<1>9. ASSUME NEW k \in 1..Len(ir), NEW m \in 1..Len(Faults), Faults[m].at = Site[k]
      PROVE  /\ ir[k].kind \in Faulting
             /\ \E i \in 1..Len(patches[ir[k].kind]) :
                  patches[ir[k].kind][i].at = Site[k] /\ m = FaultAt(ir[k].kind, i)
  <2>1. PICK kind \in Faulting : \E i \in 1..Len(patches[kind]) : m = FaultAt(kind, i)
    BY <1>4, FaultsFound
  <2>2. PICK i \in 1..Len(patches[kind]) : m = FaultAt(kind, i)
    BY <2>1
  <2>3. Faults[m] = FaultOf(kind, i)
    BY <1>4, <2>2, FaultsFound
  <2>4. patches[kind][i].at = Site[k] /\ kind \in Patched
    BY <1>9, <2>3 DEF FaultOf, Faulting, Patched
  <2> QED
    BY <1>8, <2>2, <2>4
<1>10. ASSUME NEW k \in 1..Len(ir), ir[k].kind \in Patched
       PROVE  \E i \in 1..Len(patches[ir[k].kind]) : patches[ir[k].kind][i] = PlaceOf(ir, k, Site)
  BY <1>3, <1>10 DEF PlacesAre
<1>11. ASSUME NEW k \in 1..Len(ir), ir[k].kind = "branch"
       PROVE  LinkedTo(Links, Site[k]) = {BranchTarget(PlaceOf(ir, k, Site))}
  <2>1. ASSUME NEW l \in Links, l.at = Site[k]
        PROVE  l.to = BranchTarget(PlaceOf(ir, k, Site))
    <3>1. CASE \E i \in 1..Len(patches["branch"]) :
                 l.at = patches["branch"][i].at /\ l.to = BranchTarget(patches["branch"][i])
      BY <1>8, <2>1, <3>1 DEF Patched
    <3>2. CASE \E i \in 1..Len(patches["indirect"]) : l.at = patches["indirect"][i].at
      BY <1>8, <1>11, <2>1, <3>2 DEF Patched
    <3>3. CASE \E m \in 1..Len(Faults) : l.at = Faults[m].at
      BY <1>9, <1>11, <2>1, <3>3 DEF Faulting
    <3> QED
      BY <3>1, <3>2, <3>3, LinksHold
  <2>2. \E l \in Links : l.at = Site[k]
    <3>1. PICK i \in 1..Len(patches["branch"]) : patches["branch"][i] = PlaceOf(ir, k, Site)
      BY <1>10, <1>11 DEF Patched
    <3>2. patches["branch"][i].at = Site[k]
      BY <3>1 DEF PlaceOf
    <3>3. [at |-> patches["branch"][i].at, to |-> BranchTarget(patches["branch"][i])] \in Links
      BY LinksHold
    <3> QED
      BY <3>2, <3>3
  <2> QED
    BY <2>1, <2>2, LinkedOnce
<1>12. ASSUME NEW k \in 1..Len(ir), ir[k].kind = "indirect"
       PROVE  LinkedTo(Links, Site[k]) = {codeSize}
  <2>1. ASSUME NEW l \in Links, l.at = Site[k]
        PROVE  l.to = codeSize
    <3>1. CASE \E i \in 1..Len(patches["branch"]) : l.at = patches["branch"][i].at
      BY <1>8, <1>12, <2>1, <3>1 DEF Patched
    <3>2. CASE \E m \in 1..Len(Faults) : l.at = Faults[m].at
      BY <1>9, <1>12, <2>1, <3>2 DEF Faulting
    <3> QED
      BY <3>1, <3>2, LinksHold
  <2>2. \E l \in Links : l.at = Site[k]
    <3>1. PICK i \in 1..Len(patches["indirect"]) : patches["indirect"][i] = PlaceOf(ir, k, Site)
      BY <1>10, <1>12 DEF Patched
    <3>2. patches["indirect"][i].at = Site[k]
      BY <3>1 DEF PlaceOf
    <3>3. [at |-> patches["indirect"][i].at, to |-> codeSize] \in Links
      BY LinksHold
    <3> QED
      BY <3>2, <3>3
  <2> QED
    BY <2>1, <2>2, LinkedOnce
<1>13. ASSUME NEW k \in 1..Len(ir), ir[k].kind \in Faulting
       PROVE  \E m \in 1..Len(Faults) :
                /\ LinkedTo(Links, Site[k]) = {StubAt(m)}
                /\ Faults[m].pc = ir[k].pc /\ Faults[m].fault = ir[k].kind
  <2> DEFINE kind == ir[k].kind
  <2>1. kind \in Patched /\ kind # "branch" /\ kind # "indirect"
    BY <1>13 DEF Faulting, Patched
  <2>2. PICK i \in 1..Len(patches[kind]) : patches[kind][i] = PlaceOf(ir, k, Site)
    BY <1>10, <2>1
  <2> DEFINE m == FaultAt(kind, i)
  <2>3. m \in 1..Len(Faults) /\ Faults[m] = FaultOf(kind, i)
    BY <1>4, <1>13, FaultsFound
  <2>4. Faults[m].at = Site[k] /\ Faults[m].pc = ir[k].pc /\ Faults[m].fault = kind
    BY <2>2, <2>3 DEF FaultOf, PlaceOf
  <2>5. ASSUME NEW l \in Links, l.at = Site[k]
        PROVE  l.to = StubAt(m)
    <3>1. CASE \E j \in 1..Len(patches["branch"]) : l.at = patches["branch"][j].at
      BY <1>8, <2>1, <2>5, <3>1 DEF Patched
    <3>2. CASE \E j \in 1..Len(patches["indirect"]) : l.at = patches["indirect"][j].at
      BY <1>8, <2>1, <2>5, <3>2 DEF Patched
    <3>3. CASE \E n \in 1..Len(Faults) : l.at = Faults[n].at /\ l.to = StubAt(n)
      <4>1. PICK n \in 1..Len(Faults) : l.at = Faults[n].at /\ l.to = StubAt(n)
        BY <3>3
      <4>2. PICK j \in 1..Len(patches[kind]) : patches[kind][j].at = Site[k] /\ n = FaultAt(kind, j)
        BY <1>9, <2>5, <4>1
      <4>3. patches[kind][i].at = Site[k]
        BY <2>2 DEF PlaceOf
      <4>4. j = i
        BY <1>8, <2>1, <4>2, <4>3
      <4> QED
        BY <4>1, <4>2, <4>4
    <3> QED
      BY <3>1, <3>2, <3>3, LinksHold
  <2>6. \E l \in Links : l.at = Site[k]
    <3>1. [at |-> Faults[m].at, to |-> StubAt(m)] \in Links
      BY <2>3, LinksHold
    <3> QED
      BY <2>4, <3>1
  <2>7. LinkedTo(Links, Site[k]) = {StubAt(m)}
    BY <2>5, <2>6, LinkedOnce
  <2> QED
    BY <2>3, <2>4, <2>7
<1>14. ASSUME NEW k \in 1..Len(ir), ir[k].kind = "branch"
       PROVE  IF ir[k].target \in 0..TextSize - 1
              THEN \A j \in 1..Len(ir) : IsEntry(j, ir[k].target) => LinkedTo(Links, Site[k]) = {Site[j]}
              ELSE LinkedTo(Links, Site[k]) = {codeSize}
  <2>1. BranchTarget(PlaceOf(ir, k, Site)) =
          IF ir[k].target \in 0..TextSize - 1 THEN pcMap[ir[k].target] ELSE codeSize
    BY DEF BranchTarget, PlaceOf
  <2>2. ASSUME NEW j \in 1..Len(ir), IsEntry(j, ir[k].target)
        PROVE  pcMap[ir[k].target] = Site[j]
    <3>1. ir[j].pc = ir[k].target
      BY <2>2 DEF IsEntry
    <3> QED
      BY <1>1, <2>2, <3>1 DEF CodeInv, EnteredInv
  <2> QED
    BY <1>11, <1>14, <2>1, <2>2
<1>15. ASSUME NEW k \in 1..Len(ir), ir[k].kind \in Faulting
       PROVE  \E i \in 1..Len(stubs') :
                /\ LinkedTo(Links, Site[k]) = {stubs'[i].at}
                /\ stubs'[i].pc = ir[k].pc /\ stubs'[i].fault = ir[k].kind
  <2>1. PICK m \in 1..Len(Faults) :
                /\ LinkedTo(Links, Site[k]) = {StubAt(m)}
                /\ Faults[m].pc = ir[k].pc /\ Faults[m].fault = ir[k].kind
    BY <1>13, <1>15
  <2>2. stubs'[m] = [at |-> StubAt(m), pc |-> Faults[m].pc, fault |-> Faults[m].fault]
    BY <1>5
  <2>3. m \in 1..Len(stubs')
    BY <1>7
  <2> QED
    BY <2>1, <2>2, <2>3
<1>16. RightLinks(ir, Site, Links, stubs', codeSize)
  BY <1>12, <1>14, <1>15 DEF RightLinks, IsEntry, Faulting
<1> QED
  BY <1>5, <1>16, RightLinksAreNext, Zenon
-----------------------------------------------------------------------------
(* LinksAreRight is inductive together with where the operations lie *)
LinkInv == IInv /\ OrderInv /\ CodeInv(Site) /\ LinksAreRight

(* What has been returned is not changed afterwards *)
LEMMA LinksKept ==
  ASSUME IInv, LinksAreRight, [Next]_vars, ~(Finish /\ ~GiveUp)
  PROVE  LinksAreRight'
<1>1. CASE stage' # "ok"
  BY <1>1 DEF LinksAreRight
<1>2. CASE stage' = "ok"
  <2>1. UNCHANGED <<ir, stage, links, stubs, epilogue>>
    BY <1>2 DEF Next, IrNext, BuildDataMap, SkipData, Translate, FinishWalk, Begin, Emit, Finish,
                GiveUp, vars, irVars, codeVars, IInv, EmitInv
  <2>2. Site' = Site
    BY <2>1, SiteKept
  <2> QED
    BY <1>2, <2>1, <2>2, RightLinksAre, RightLinksAreNext, Zenon
<1> QED
  BY <1>1, <1>2

(* What the emission keeps true up to every byte, and the patching needs *)
THEOREM SpecLinkInv == Spec => []LinkInv
<1>1. Init => LinkInv
  BY InitInv, CodeInit DEF LinkInv, OrderInv, LinksAreRight, Init, IrInit
<1>2. LinkInv /\ [Next]_vars => LinkInv'
  <2> SUFFICES ASSUME LinkInv, [Next]_vars
               PROVE  LinkInv'
    OBVIOUS
  <2>1. IInv'
    BY CompileInductive DEF LinkInv
  <2>2. OrderInv'
    BY OrderStep DEF LinkInv
  <2>3. CodeInv(Site)'
    BY CodeStep DEF LinkInv
  <2>4. LinksAreRight'
    BY FinishLinks, LinksKept DEF LinkInv
  <2> QED
    BY <2>1, <2>2, <2>3, <2>4 DEF LinkInv
<1> QED
  BY <1>1, <1>2, PTL DEF Spec

(* The host code of riscv_jit_cg_x86 holds each operation where the bytes of
   the ones before it end, and pc_map leads to the first of each instruction *)
THEOREM SpecBodyIsWhole == Spec => []BodyIsWhole
<1>1. LinkInv => BodyIsWhole
  <2> SUFFICES ASSUME LinkInv
               PROVE  BodyIsWhole
    OBVIOUS
  <2>1. ir \in Seq(Ops) /\ Len(ir) \in Nat /\ next \in 1..Len(ir) + 1
    BY DEF LinkInv, IInv, WalkInv, EmitInv
  <2>2. \A k \in 1..Len(ir) + 1 : Site[k] \in Nat \ {0}
    BY <2>1, SiteIs, SiteSum
  <2>3. \A k \in 1..next - 1 : Site[k] > 0
    BY <2>1, <2>2
  <2> QED
    BY <2>3 DEF LinkInv, CodeInv, EnteredInv, BodyIsWhole
<1> QED
  BY <1>1, SpecLinkInv, PTL

(* In code that riscv_jit_cg_x86 returned, each branch, fault and fuel check
   leads to the one place it should: its target, its own exit stub, or the
   epilogue *)
THEOREM SpecLinksAreRight == Spec => []LinksAreRight
<1>1. LinkInv => LinksAreRight
  BY DEF LinkInv
<1> QED
  BY <1>1, SpecLinkInv, PTL
=============================================================================
