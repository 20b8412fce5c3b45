---------------------------- MODULE Breakpoints ----------------------------
(***************************************************************************)
(* The software breakpoints of the gdb stub (riscv_gdb.c).                 *)
(*                                                                         *)
(* A breakpoint overwrites the first five bytes of the host code that was  *)
(* compiled for a guest instruction with a jump to a trap stub.  A stub    *)
(* has the guest pc burnt into it, stores it in cpu.pc, raises             *)
(* RISCV_FAULT_DEBUG and leaves through the epilogue.  The bytes that were *)
(* overwritten are kept in the table entry and put back when the entry is  *)
(* removed, when the debugger steps over it, and when the session closes.  *)
(*                                                                         *)
(* The host code of one guest instruction is abstracted to what decides    *)
(* its behaviour: Orig, the compiled bytes, or the slot of the stub it     *)
(* jumps to.  The table is 1-based here, and NoBp (0) stands for the -1 of *)
(* gdb_temp_unpatched_bp.                                                  *)
(***************************************************************************)
EXTENDS Integers, FiniteSets

CONSTANTS
  Pcs,        \* the guest addresses a debugger may name
  Mapped,     \* those that start an instruction: pc_map has their host code
  MaxBps,     \* GDB_MAX_BREAKPTS, the length of gdb_bp
  StubSlots,  \* GDB_STUB_RESERVE / GDB_STUB_SLOT, the stubs that fit the reserve
  StubRoom    \* exec_size >= code_size + GDB_STUB_RESERVE

ASSUME BreakpointsAssumption ==
  /\ Pcs # {} /\ Mapped \subseteq Pcs
  /\ MaxBps \in Nat \ {0}
  /\ StubSlots \in Nat \ {0}
  /\ StubRoom \in BOOLEAN

VARIABLES
  attached,  \* gdb_attached
  code,      \* code[pc]: the first bytes of the host code of pc, Orig or a stub
  stub,      \* stub[k]: the guest pc burnt into stub k
  stubUsed,  \* gdb_stub_used, in slots; 0 also stands for a null gdb_stub_buf
  bp,        \* gdb_bp
  bpCount,   \* gdb_bp_count
  temp       \* gdb_temp_unpatched_bp

bpVars == <<attached, code, stub, stubUsed, bp, bpCount, temp>>

Orig  == 0
NoBp  == 0
Slots == 1..StubSlots
Idx   == 1..MaxBps

Entry == [pc: Pcs, slot: Slots, saved: Slots \cup {Orig}, used: BOOLEAN]

TypeOK ==
  /\ attached \in BOOLEAN
  /\ code \in [Mapped -> Slots \cup {Orig}]
  /\ stub \in [Slots -> Pcs]
  /\ stubUsed \in 0..StubSlots
  /\ bp \in [Idx -> Entry]
  /\ bpCount \in 0..MaxBps
  /\ temp \in 0..MaxBps
-----------------------------------------------------------------------------
(* The entries gdb_bp_find can return: used ones below gdb_bp_count. *)
Live == {i \in 1..bpCount : bp[i].used}

(* gdb_bp_find *)
Found(pc) == \E i \in Live : bp[i].pc = pc

(* An entry that is not used, and a stub that no entry owns, hold nothing  *)
(* that is read before it is written: one value stands for all of them.    *)
AnyPc == CHOOSE pc \in Pcs : TRUE
Blank == [pc |-> AnyPc, slot |-> 1, saved |-> Orig, used |-> FALSE]

(* memset(jit, 0) in init, and the code as it was compiled *)
BpInit ==
  /\ attached = FALSE
  /\ code = [pc \in Mapped |-> Orig]
  /\ stub = [k \in Slots |-> AnyPc]
  /\ stubUsed = 0
  /\ bp = [i \in Idx |-> Blank]
  /\ bpCount = 0
  /\ temp = NoBp

(* riscv_jit_gdb_wait_for_client, once accept has returned a client *)
Attach ==
  /\ ~attached
  /\ attached' = TRUE
  /\ bpCount' = 0
  /\ temp' = NoBp
  /\ UNCHANGED <<code, stub, stubUsed, bp>>

(* Seeded fault: the bound of the table is off by one *)
HasRoomOffByOne == bpCount <= MaxBps /\ (stubUsed = 0 => StubRoom) /\ stubUsed < StubSlots

(* A free entry at the end of the table, and a free stub *)
HasRoom ==
  /\ bpCount < MaxBps
  /\ stubUsed = 0 => StubRoom
  /\ stubUsed < StubSlots

(* Seeded fault: setting a breakpoint twice is not noticed *)
CanInstallTwice(pc) == pc \in Mapped /\ HasRoom

CanInstall(pc) == ~Found(pc) /\ pc \in Mapped /\ HasRoom

(* Seeded fault: every stub is written at the start of the stub area *)
InstallAtFirstStub(pc) ==
  /\ attached /\ CanInstall(pc)
  /\ stub' = [stub EXCEPT ![1] = pc]
  /\ bpCount' = bpCount + 1 /\ stubUsed' = stubUsed + 1
  /\ bp' = [bp EXCEPT ![bpCount'] = [pc |-> pc, slot |-> stubUsed', saved |-> code[pc], used |-> TRUE]]
  /\ code' = [code EXCEPT ![pc] = stubUsed']
  /\ UNCHANGED <<attached, temp>>

(* gdb_bp_install: idempotent, and without effect when it fails.  A stub *)
(* slot is taken for good: only closing the session gives slots back.    *)
Install(pc) ==
  /\ attached
  /\ IF CanInstall(pc)
     THEN LET i == bpCount + 1
              k == stubUsed + 1
          IN /\ stub' = [stub EXCEPT ![k] = pc]
             /\ bp' = [bp EXCEPT ![i] = [pc |-> pc, slot |-> k, saved |-> code[pc], used |-> TRUE]]
             /\ code' = [code EXCEPT ![pc] = k]
             /\ bpCount' = i
             /\ stubUsed' = k
     ELSE UNCHANGED <<stub, bp, code, bpCount, stubUsed>>
  /\ UNCHANGED <<attached, temp>>

(* Seeded faults: the entry is freed before it is unpatched, which then    *)
(* does nothing; the stub of a removed breakpoint is given back.            *)
RemoveFreesFirst(pc) ==
  /\ attached
  /\ \E i \in Live : bp[i].pc = pc /\ bp' = [bp EXCEPT ![i] = Blank]
  /\ UNCHANGED <<attached, code, stub, stubUsed, bpCount, temp>>

RemoveReclaims(pc) ==
  /\ attached
  /\ \E i \in Live :
       /\ bp[i].pc = pc
       /\ code' = [code EXCEPT ![pc] = bp[i].saved]
       /\ bp' = [bp EXCEPT ![i] = Blank]
       /\ stubUsed' = stubUsed - 1
  /\ UNCHANGED <<attached, stub, bpCount, temp>>

(* gdb_bp_remove: unpatch, free the entry, pop the free entries at the end *)
Remove(pc) ==
  /\ attached
  /\ \/ /\ ~Found(pc)
        /\ UNCHANGED <<code, bp, bpCount>>
     \/ \E i \in Live :
          /\ bp[i].pc = pc
          /\ code' = [code EXCEPT ![pc] = bp[i].saved]
          /\ bp' = [bp EXCEPT ![i] = Blank]
          /\ bpCount' \in 0..bpCount
          /\ \A j \in bpCount' + 1 .. bpCount : j \in Live => j = i
          /\ bpCount' > 0 => bpCount' \in Live \ {i}
  /\ UNCHANGED <<attached, stub, stubUsed, temp>>

(* riscv_gdb_temp_unpatch *)
TempUnpatch(pc) ==
  /\ \/ /\ ~Found(pc)
        /\ UNCHANGED <<code, temp>>
     \/ \E i \in Live :
          /\ bp[i].pc = pc
          /\ code' = [code EXCEPT ![pc] = bp[i].saved]
          /\ temp' = i
  /\ UNCHANGED <<attached, stub, stubUsed, bp, bpCount>>

(* riscv_gdb_repatch *)
Repatch(pc) ==
  /\ \/ /\ ~Found(pc)
        /\ UNCHANGED <<code, temp>>
     \/ \E i \in Live :
          /\ bp[i].pc = pc
          /\ code' = [code EXCEPT ![pc] = bp[i].slot]
          /\ temp' = NoBp
  /\ UNCHANGED <<attached, stub, stubUsed, bp, bpCount>>

(* Seeded fault: the index is reset without patching the code again *)
RearmTempForgets ==
  /\ attached
  /\ temp' = NoBp
  /\ UNCHANGED <<attached, code, stub, stubUsed, bp, bpCount>>

(* The head of riscv_gdb_on_stop: whatever was unpatched is patched again *)
(* before the client is talked to.                                        *)
RearmTemp ==
  /\ attached
  /\ IF temp # NoBp /\ temp \in Live
     THEN code' = [code EXCEPT ![bp[temp].pc] = bp[temp].slot]
     ELSE UNCHANGED code
  /\ temp' = NoBp
  /\ UNCHANGED <<attached, stub, stubUsed, bp, bpCount>>

(* Seeded fault: the table is cleared before the code is restored *)
CloseClearsFirst ==
  /\ attached
  /\ attached' = FALSE
  /\ stubUsed' = 0 /\ bpCount' = 0
  /\ stub' = [k \in Slots |-> AnyPc]
  /\ bp' = [i \in Idx |-> Blank]
  /\ UNCHANGED <<code, temp>>

(* riscv_jit_gdb_close: the stubs are dropped, every entry is unpatched in *)
(* table order and freed.  gdb_temp_unpatched_bp keeps its value.          *)
Close ==
  /\ attached
  /\ attached' = FALSE
  /\ stubUsed' = 0
  /\ code' = [pc \in Mapped |->
                IF Found(pc)
                THEN bp[CHOOSE i \in Live : bp[i].pc = pc /\ \A j \in Live : bp[j].pc = pc => j <= i].saved
                ELSE code[pc]]
  /\ stub' = [k \in Slots |-> AnyPc]
  /\ bp' = [i \in Idx |-> IF i <= bpCount THEN Blank ELSE bp[i]]
  /\ bpCount' = 0
  /\ UNCHANGED temp

(* The order in which riscv_jit_call and the packet loop use these: the   *)
(* client edits the table only when nothing is temporarily unpatched, one *)
(* breakpoint is unpatched at a time, and that one is patched back.  The  *)
(* module JitCall is shown to keep to it.                                 *)
BpNext ==
  \/ Attach
  \/ \E pc \in Pcs :
       \/ temp = NoBp /\ Install(pc)
       \/ temp = NoBp /\ Remove(pc)
       \/ attached /\ temp = NoBp /\ TempUnpatch(pc)
       \/ temp \in Live /\ bp[temp].pc = pc /\ Repatch(pc)
  \/ RearmTemp
  \/ Close

BpSpec == BpInit /\ [][BpNext]_bpVars
-----------------------------------------------------------------------------
(* The host code is what the table says: the code of an instruction jumps  *)
(* to the stub of its breakpoint, unless that is the one being stepped     *)
(* over, and is the compiled code when no breakpoint is set on it.  Wrong  *)
(* saved bytes, a slot given twice or a lost entry would all show here.    *)
CodeIntegrity ==
  /\ \A i \in Live : code[bp[i].pc] = IF i = temp THEN Orig ELSE bp[i].slot
  /\ \A pc \in Mapped : ~Found(pc) => code[pc] = Orig

(* A trap reports the breakpoint that was hit: the stub a breakpoint jumps *)
(* to has the pc of that breakpoint burnt into it.                         *)
StubReportsItsPc ==
  \A i \in Live : stub[bp[i].slot] = bp[i].pc

(* "restore any patched code so a later non-debug run works normally"      *)
(* (riscv_gdb.c:1139): without a session all code is the compiled code.    *)
CleanWhenDetached ==
  ~attached => \A pc \in Mapped : code[pc] = Orig

(* A stub that host code jumps to is not rewritten under it. *)
KeepsStubsInUse == \A pc \in Mapped, k \in Slots : code[pc] = k /\ code'[pc] = k => stub'[k] = stub[k]
StubsInUseAreStable == [][KeepsStubsInUse]_bpVars

(* The table never outruns the stub area: with as many stubs as entries,   *)
(* the area is what runs out first, also after holes were left in the      *)
(* table by removals in any order.                                         *)
TableFitsStubs == bpCount <= stubUsed

(* At most one entry per instruction, every entry has a stub of its own    *)
(* and the compiled bytes in `saved` (never those of another patch), and   *)
(* during a session gdb_temp_unpatched_bp is an entry that exists.         *)
TableIsConsistent ==
  /\ \A i \in Live : /\ bp[i].pc \in Mapped
                     /\ bp[i].saved = Orig
                     /\ bp[i].slot <= stubUsed
  /\ \A i, j \in Live : i # j => bp[i].pc # bp[j].pc /\ bp[i].slot # bp[j].slot
  /\ attached /\ temp # NoBp => temp \in Live
  /\ ~attached => bpCount = 0

BpInv == TypeOK /\ TableIsConsistent /\ CodeIntegrity /\ StubReportsItsPc /\ TableFitsStubs
=============================================================================
