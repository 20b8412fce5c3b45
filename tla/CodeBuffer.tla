----------------------------- MODULE CodeBuffer -----------------------------
(***************************************************************************)
(* riscv_jit_cg_x86_compile: the operations are emitted into a buffer of   *)
(* fixed size, between a trampoline and an epilogue.  Jumps are linked at  *)
(* the end from lists of places to patch; the stubs that report faults     *)
(* come last.  x86_cg_emit8 drops what does not fit, so that there must be *)
(* room before anything is emitted.                                        *)
(***************************************************************************)
EXTENDS IrTranslate

CONSTANTS
  ExecBytesPerByte, MinExecSize,           \* what sizes the buffer
  TrampolineMax, InstrMax, EpilogueMax,    \* the room asked for
  TrampolineBytes, EpilogueBytes,          \* the bytes that are emitted
  StubBytes, Bytes                         \* Bytes[kind] for an operation

(* A place to patch is at least the four bytes of a displacement behind the *)
(* start of its operation, so every operation has bytes.                    *)
ASSUME CodeBufferAssumption ==
  /\ {ExecBytesPerByte, MinExecSize, TrampolineMax, InstrMax, EpilogueMax, StubBytes} \subseteq Nat
  /\ TrampolineBytes \in 1..TrampolineMax
  /\ EpilogueBytes \in 1..EpilogueMax
  /\ Bytes \in [Kinds -> 1..InstrMax]

VARIABLES
  stage,     \* "idle", "body", "ok" (RISCV_OK) or "oom" (RISCV_JIT_ERR_OOM)
  next,      \* the operation that is emitted next
  codeSize,
  pcMap,     \* pc_map; Junk where nothing was written
  patches,   \* for each kind that needs one, the places to patch
  epilogue,  \* epilogue_offset
  links,     \* the places patched: [at, to]
  stubs      \* the fault stubs: [at, pc, fault]

codeVars == <<stage, next, codeSize, pcMap, patches, epilogue, links, stubs>>
vars == <<irVars, codeVars>>

Junk == -1
Patched == {"fuel", "load", "store", "branch", "indirect"}

Cap ==
  IF TextSize * ExecBytesPerByte < MinExecSize THEN MinExecSize ELSE TextSize * ExecBytesPerByte

Init ==
  /\ IrInit
  /\ stage = "idle" /\ next = 1 /\ codeSize = 0
  /\ pcMap = [a \in 0..TextSize - 1 |-> Junk]
  /\ patches = [k \in Patched |-> <<>>]
  /\ epilogue = Junk /\ links = {} /\ stubs = <<>>
-----------------------------------------------------------------------------
(* Seeded fault: room for the bytes that are there, not for the largest *)
HasSomeRoom(n) == codeSize < Cap

HasRoom(n) == codeSize + n < Cap

(* Seeded fault: bytes are counted that are not there *)
GrownFreely(n) == codeSize + n

(* x86_cg_emit8, n times *)
Grown(n) == IF codeSize + n <= Cap THEN codeSize + n ELSE Cap

(* Seeded fault: one place per instruction, of which each has two operations *)
HalfCapacity == Len(ir) \div 2

(* allocate_codegen_buffers: the places each list has room for *)
Capacity == Len(ir)

GiveUp ==
  /\ stage' = "oom"
  /\ UNCHANGED <<next, codeSize, pcMap, patches, epilogue, links, stubs>>

Begin ==
  /\ phase = "translated" /\ stage = "idle"
  /\ \/ GiveUp  \* a malloc failed, or there is no room
     \/ /\ HasRoom(TrampolineMax)
        /\ stage' = "body" /\ codeSize' = Grown(TrampolineBytes)
        /\ UNCHANGED <<next, pcMap, patches, epilogue, links, stubs>>
  /\ UNCHANGED irVars

FirstOfInstr(k) == k = 1 \/ ir[k - 1].pc # ir[k].pc

Emit ==
  /\ stage = "body" /\ next <= Len(ir)
  /\ LET op == ir[next]
     IN \/ ~HasRoom(InstrMax) /\ GiveUp
        \/ /\ HasRoom(InstrMax)
           /\ pcMap' = IF FirstOfInstr(next) THEN [pcMap EXCEPT ![op.pc] = codeSize] ELSE pcMap
           /\ codeSize' = Grown(Bytes[op.kind])
           /\ patches' = IF op.kind \in Patched
                         THEN [patches EXCEPT ![op.kind] =
                                 Append(@, [at |-> codeSize, pc |-> op.pc, target |-> op.target])]
                         ELSE patches
           /\ next' = next + 1
           /\ UNCHANGED <<stage, epilogue, links, stubs>>
  /\ UNCHANGED irVars

(* patch_guest_branches *)
BranchTarget(p) == IF p.target \in 0..TextSize - 1 THEN pcMap[p.target] ELSE codeSize

(* Seeded fault: the stubs' program counters are those of the first list *)
FaultsByFuel ==
  LET Of(kind) == [i \in 1..Len(patches[kind]) |->
                     [at |-> patches[kind][i].at, pc |-> patches["fuel"][i].pc, fault |-> kind]]
  IN Of("load") \o Of("store") \o Of("fuel")

(* The three loops of emit_fault_stubs, one stub for each place *)
Faults ==
  LET Of(kind) == [i \in 1..Len(patches[kind]) |->
                     [at |-> patches[kind][i].at, pc |-> patches[kind][i].pc, fault |-> kind]]
  IN Of("load") \o Of("store") \o Of("fuel")

StubAt(i) == Grown(EpilogueBytes + (i - 1) * StubBytes)

Places(kind) == {patches[kind][i] : i \in 1..Len(patches[kind])}

Links ==
  LET faults == Faults
  IN {[at |-> p.at, to |-> BranchTarget(p)] : p \in Places("branch")}
     \cup {[at |-> p.at, to |-> codeSize] : p \in Places("indirect")}
     \cup {[at |-> faults[i].at, to |-> StubAt(i)] : i \in 1..Len(faults)}

(* The epilogue, all patches and all stubs *)
Finish ==
  /\ stage = "body" /\ next > Len(ir)
  /\ \/ ~HasRoom(EpilogueMax) /\ GiveUp
     \/ /\ HasRoom(EpilogueMax)
        /\ epilogue' = codeSize
        /\ links' = Links
        /\ stubs' = [i \in 1..Len(Faults) |->
                       [at |-> StubAt(i), pc |-> Faults[i].pc, fault |-> Faults[i].fault]]
        /\ codeSize' = Grown(EpilogueBytes + Len(Faults) * StubBytes)
        /\ stage' = "ok"
        /\ UNCHANGED <<next, pcMap, patches>>
  /\ UNCHANGED irVars

Next == (IrNext /\ UNCHANGED codeVars) \/ Begin \/ Emit \/ Finish

Spec == Init /\ [][Next]_vars
-----------------------------------------------------------------------------
TypeOK ==
  /\ phase \in {"map", "walk", "translated"} /\ pc \in 0..TextSize + 2
  /\ \A k \in 1..Len(ir) : ir[k].pc \in Halfwords /\ ir[k].kind \in Kinds
  /\ stage \in {"idle", "body", "ok", "oom"}
  /\ next \in 1..Len(ir) + 1 /\ codeSize \in 0..Cap
  /\ pcMap \in [0..TextSize - 1 -> {Junk} \cup 0..Cap]
  /\ DOMAIN patches = Patched

(* None of the lists, which are written without a test, is ever written     *)
(* beyond the room that was allocated for it.                               *)
PatchesFit == \A kind \in Patched : Len(patches[kind]) <= Capacity

(* Operation k is the one that control enters to execute the code at a *)
IsEntry(k, a) == ir[k].pc = a /\ \A j \in 1..Len(ir) : ir[j].pc = a => k <= j

(* Where the code of operation k begins when no byte has been dropped *)
Site[k \in 1..Len(ir) + 1] ==
  IF k = 1 THEN TrampolineBytes ELSE Site[k - 1] + Bytes[ir[k - 1].kind]

(* Up to the epilogue no byte is dropped: everything is where the sizes     *)
(* before it put it, and pc_map leads to the first byte of an instruction   *)
(* (and is never 0, which stands for no instruction).                       *)
BodyIsWhole ==
  /\ stage = "body" => codeSize = Site[next]
  /\ \A k \in 1..next - 1 : IsEntry(k, ir[k].pc) => pcMap[ir[k].pc] = Site[k] /\ Site[k] > 0

(* When RISCV_OK is returned every jump is linked: a branch with the        *)
(* instruction it names, or the epilogue where it leaves .text, and each    *)
(* test that may fault with a stub that reports that fault at that pc.      *)
LinksAreRight ==
  stage = "ok" =>
    \A k \in 1..Len(ir) :
      LET op == ir[k]
          to == {l.to : l \in {l \in links : l.at = Site[k]}}
      IN /\ op.kind = "branch" =>
              IF op.target \in 0..TextSize - 1
              THEN \A j \in 1..Len(ir) : IsEntry(j, op.target) => to = {Site[j]}
              ELSE to = {epilogue}
         /\ op.kind = "indirect" => to = {epilogue}
         /\ op.kind \in {"load", "store", "fuel"} =>
              \E i \in 1..Len(stubs) :
                to = {stubs[i].at} /\ stubs[i].pc = op.pc /\ stubs[i].fault = op.kind

(* RISCV_OK is "no error": all of the code is in the buffer *)
OkMeansWhole ==
  stage = "ok" => \A i \in 1..Len(stubs) : stubs[i].at + StubBytes <= Cap
=============================================================================
