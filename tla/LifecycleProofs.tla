--------------------------- MODULE LifecycleProofs ---------------------------
(***************************************************************************)
(* Memory is misused in three cases only, and none is lost, for every set  *)
(* of files and every number of inits, destroys, sessions and calls; and   *)
(* the data of the guest is what its file says.                            *)
(***************************************************************************)
EXTENDS Lifecycle, Induction, TLAPS

(* Pointers of different fields, a socket, the builder and a buffer of the  *)
(* host are different blocks.                                               *)
LEMMA BlocksDiffer ==
  ASSUME LifeTypeOK, NEW f \in Fields, field[f] # Null
  PROVE  /\ field[f] \notin Open /\ field[f] # Mine("builder")
         /\ \A g \in Fields : g # f => field[g] # field[f]
         /\ f # "data" => \A n : field[f] # Block("buffer", n)
  BY DEF LifeTypeOK, NamedWell, Open, Mine, Block, Fields, Sockets, Null

(* {0} owns nothing. *)
LEMMA InitLifeInv == Init => LifeInv
<1> SUFFICES ASSUME Init PROVE LifeInv
  OBVIOUS
<1>1. DOMAIN field = Fields /\ \A f \in Fields : field[f] = Null
  BY DEF Init, NullFields
<1>2. LifeTypeOK
  BY <1>1 DEF Init, LifeTypeOK, NamedWell
<1>3. MemoryIsSound
  BY DEF Init, MemoryIsSound
<1>5. LifeFlagsOK
  BY Zenon DEF Init, LifeFlagsOK
<1>4. PointersAreValid
  BY <1>1 DEF Init, PointersAreValid, Unfreed
<1> QED
  BY <1>2, <1>3, <1>4, <1>5 DEF LifeInv, BlocksInv

(* No step makes a flag anything but true or false. *)
LEMMA NextLifeFlagsOK == LifeFlagsOK /\ [Next]_vars => LifeFlagsOK'
<1> SUFFICES ASSUME LifeFlagsOK, [Next]_vars PROVE LifeFlagsOK'
  OBVIOUS
<1>1. CASE UNCHANGED vars
  BY <1>1, Zenon DEF LifeFlagsOK, vars, elfVars, sessionVars
<1>2. CASE InitSteps
  BY <1>2, Zenon DEF LifeFlagsOK, InitSteps, Parse, AllocExec, AllocStack, AllocPcMap, Translate, Compile, Fail,
                     Allocate, elfVars, sessionVars
<1>3. CASE Host
  BY <1>3, Zenon DEF LifeFlagsOK, Host, Start, LoadFails, FreeBuffer, Call, WaitForClient, SetBreakpoint, GdbClose,
                     Destroy, elfVars, sessionVars
<1> QED
  BY <1>1, <1>2, <1>3 DEF Next

(* An init that fails at this step leaves what it had, but for what it      *)
(* frees: the buffers of the stack and pc_map steps, the builder, the file. *)
LEMMA FailBlocksInv ==
  ASSUME BlocksInv, NEW step \in Steps, at = step, NEW why, NEW freed, Fail(step, why, freed),
         freed = {} \/ step \in {"stack", "pc_map"} \/ freed = {Mine("builder")}
  PROVE  BlocksInv'
<1>1. LifeTypeOK' /\ MemoryIsSound'
  BY DEF BlocksInv, LifeTypeOK, MemoryIsSound, Fail, elfVars, NamedWell, Steps
<1>2. at # "dead" /\ at # "idle" /\ instance = "failed"
  BY DEF Steps, BlocksInv, PointersAreValid
<1>3. ASSUME step \notin {"stack", "pc_map"}, NEW f \in Fields \ {"data"}, field[f] # Null
      PROVE  field[f] \in heap'
  <2>1. field[f] \in heap
    BY <1>2, <1>3 DEF BlocksInv, PointersAreValid, Unfreed
  <2>2. field[f] # field["data"] /\ field[f] # Mine("builder")
    BY <1>3, BlocksDiffer DEF BlocksInv, Fields
  <2> QED
    BY <1>3, <2>1, <2>2 DEF Fail
<1>4. PointersAreValid'
  BY <1>2, <1>3 DEF BlocksInv, PointersAreValid, Unfreed, Fail, sessionVars
<1> QED
  BY <1>1, <1>4 DEF BlocksInv

(* A block that is allocated for a field is in the heap, as are the others. *)
LEMMA AllocateBlocksInv ==
  ASSUME BlocksInv, NEW name \in Fields \ {"data"}, NEW next \in Steps, Allocate(name, next), at \in Steps,
         next = "exec" \/ name = "exec_mem" \/ field["exec_mem"] # Null
  PROVE  BlocksInv'
<1>1. Mine(name) # Null /\ Mine(name).name = name
  BY DEF Mine, Block, Null, NamedWell, BlocksInv, LifeTypeOK, Fields
<1>2. LifeTypeOK' /\ MemoryIsSound'
  BY <1>1 DEF BlocksInv, LifeTypeOK, MemoryIsSound, Allocate, sessionVars, NamedWell, Steps
<1>3. PointersAreValid
  BY DEF BlocksInv, Steps
<1>4. PointersAreValid'
  BY <1>1, <1>3 DEF BlocksInv, LifeTypeOK, PointersAreValid, Unfreed, Allocate, sessionVars, Steps, Fields
<1> QED
  BY <1>2, <1>4 DEF BlocksInv

(* Init, one step after the other *)
LEMMA InitStepsBlocksInv == BlocksInv /\ InitSteps => BlocksInv'
<1> SUFFICES ASSUME BlocksInv, InitSteps PROVE BlocksInv'
  OBVIOUS
<1>1. CASE Parse
  <2>1. CASE Parsed(file) # "ok" \/ (Parsed(file) = "ok" /\ HasData(file) /\ Fail("parse", "oom", {}))
    BY <1>1, <2>1, FailBlocksInv DEF Parse, Steps
  <2>2. CASE Parsed(file) = "ok" /\ HasData(file) /\ Allocate("data_mem", "exec")
    BY <1>1, <2>2, AllocateBlocksInv DEF Parse, Steps, Fields
  <2>3. CASE Parsed(file) = "ok" /\ ~HasData(file) /\ at' = "exec"
    <3>1. /\ instance' = instance /\ heap' = heap /\ field' = field /\ owned' = owned /\ attached' = attached
          /\ failedAt' = failedAt /\ misuses' = misuses /\ inits' = inits /\ at' = "exec" /\ at = "parse"
      BY <1>1, <2>3 DEF Parse, Fail, Allocate, sessionVars, elfVars
    <3>2. LifeTypeOK' /\ MemoryIsSound'
      BY <3>1 DEF BlocksInv, LifeTypeOK, MemoryIsSound, NamedWell, Steps
    <3>3. PointersAreValid
      BY <3>1 DEF BlocksInv
    <3>4. PointersAreValid'
      BY <3>1, <3>3, Zenon DEF PointersAreValid, Unfreed
    <3> QED
      BY <3>2, <3>4 DEF BlocksInv
  <2> QED
    BY <1>1, <2>1, <2>2, <2>3 DEF Parse
<1>2. CASE AllocExec
  BY <1>2, FailBlocksInv, AllocateBlocksInv DEF AllocExec, elfVars, Steps, Fields
<1>3. CASE AllocStack
  BY <1>3, FailBlocksInv, AllocateBlocksInv DEF AllocStack, elfVars, Steps, Fields, BlocksInv, PointersAreValid
<1>4. CASE AllocPcMap
  BY <1>4, FailBlocksInv, AllocateBlocksInv DEF AllocPcMap, elfVars, Steps, Fields, BlocksInv, PointersAreValid
<1>5. CASE Translate
  BY <1>5 DEF Translate, Misuse, BlocksInv, LifeTypeOK, PointersAreValid, MemoryIsSound, Unfreed, NamedWell, Steps,
              elfVars, sessionVars
<1>6. CASE Compile
  <2>1. CASE Fail("compile", "oom", {Mine("builder")})
    BY <1>6, <2>1, FailBlocksInv DEF Compile, Steps
  <2>2. CASE instance' = "ready" /\ heap' = heap \ {Mine("builder")} /\ owned' = fromFile
    <3>1. /\ instance' = "ready" /\ heap' = heap \ {Mine("builder")} /\ field' = field
          /\ failedAt' = failedAt /\ misuses' = misuses /\ inits' = inits /\ at' = "idle" /\ at = "compile"
      BY <1>6, <2>2 DEF Compile, Fail, sessionVars, elfVars
    <3>2. LifeTypeOK' /\ MemoryIsSound'
      BY <3>1 DEF BlocksInv, LifeTypeOK, MemoryIsSound, NamedWell, Steps
    <3>3. field["exec_mem"] # Null /\ \A f \in Fields : Unfreed(f)
      BY <3>1 DEF BlocksInv, PointersAreValid
    <3>4. \A f \in Fields : Unfreed(f)'
      BY <3>1, <3>3, BlocksDiffer DEF BlocksInv, Unfreed
    <3>5. PointersAreValid'
      BY <3>1, <3>3, <3>4 DEF PointersAreValid
    <3> QED
      BY <3>2, <3>5 DEF BlocksInv
  <2> QED
    BY <1>6, <2>1, <2>2 DEF Compile
<1> QED
  BY <1>1, <1>2, <1>3, <1>4, <1>5, <1>6 DEF InitSteps

(* Init again: only the file's pointer is not null, and the file is there. *)
LEMMA StartBlocksInv ==
  ASSUME BlocksInv, NEW f \in Files, NEW isFile \in BOOLEAN, Start(f, isFile)
  PROVE  BlocksInv'
<1>1. PICK data : /\ data.name \in {"data", "buffer"} /\ data \in heap'
                  /\ field' = [NullFields EXCEPT !["data"] = data]
  <2>1. Block(IF isFile THEN "data" ELSE "buffer", inits').name \in {"data", "buffer"}
    BY DEF Block
  <2> QED
    BY <2>1 DEF Start, Cleared
<1>2. /\ at' = "parse" /\ instance' = "failed" /\ failedAt' = "none" /\ misuses' = misuses
      /\ ~owned' /\ ~attached'
  BY DEF Start
<1>3. DOMAIN field' = Fields /\ field'["data"] = data /\ \A g \in Fields \ {"data"} : field'[g] = Null
  BY <1>1 DEF NullFields, Fields
<1>4. LifeTypeOK' /\ MemoryIsSound'
  BY <1>1, <1>2, <1>3 DEF BlocksInv, LifeTypeOK, MemoryIsSound, NamedWell, Steps
<1>5. PointersAreValid'
  BY <1>1, <1>2, <1>3 DEF PointersAreValid, Unfreed
<1> QED
  BY <1>4, <1>5 DEF BlocksInv

(* What the host does between inits without a destroy changes no pointer,   *)
(* and frees no block that the instance points to, but for its own buffer   *)
(* under an instance that does not work.                                    *)
LEMMA UntouchedBlocksInv ==
  ASSUME BlocksInv, at = "idle", UNCHANGED <<at, instance, field, failedAt, misuses>>,
         owned' => owned, attached' => instance = "ready",
         \A f \in Fields : field[f] \in heap => field[f] \in heap' \/ (f = "data" /\ instance # "ready")
  PROVE  BlocksInv'
<1>1. LifeTypeOK' /\ MemoryIsSound'
  BY DEF BlocksInv, LifeTypeOK, MemoryIsSound, NamedWell
<1>2. PointersAreValid
  BY DEF BlocksInv
<1>3. instance = "ready" => \A f \in Fields : Unfreed(f)'
  BY <1>2 DEF PointersAreValid, Unfreed
<1>4. instance = "failed" /\ failedAt \notin {"stack", "pc_map"} => \A f \in Fields \ {"data"} : Unfreed(f)'
  BY <1>2 DEF PointersAreValid, Unfreed
<1>5. owned' => instance = "ready"
  BY <1>2 DEF PointersAreValid
<1>6. PointersAreValid'
  BY <1>2, <1>3, <1>4, <1>5 DEF PointersAreValid
<1> QED
  BY <1>1, <1>6 DEF BlocksInv

(* The pointers of an instance that works, and of one that is zero, are     *)
(* valid; only an instance that works has a session or owns its file.       *)
LEMMA IdlePointers ==
  ASSUME BlocksInv, at = "idle"
  PROVE  /\ attached \/ owned => instance = "ready"
         /\ instance # "failed" => UsesSoundly(Fields)
         /\ instance = "ready" => field["exec_mem"] \in heap
         /\ CloseIsSound
         /\ ~(Freed \subseteq heap) => failedAt \in {"stack", "pc_map"}
<1>1. PointersAreValid /\ LifeTypeOK
  BY DEF BlocksInv
<1>2. attached \/ owned => instance = "ready"
  BY <1>1 DEF PointersAreValid
<1>3. instance = "zero" => \A f \in Fields : field[f] = Null
  BY <1>1 DEF PointersAreValid, NullFields
<1>4. instance # "failed" => UsesSoundly(Fields)
  BY <1>1, <1>3 DEF PointersAreValid, LifeTypeOK, UsesSoundly, Unfreed
<1>5. instance = "ready" => field["exec_mem"] \in heap
  BY <1>1 DEF PointersAreValid, Unfreed, Fields
<1>6. ASSUME failedAt \notin {"stack", "pc_map"}, NEW g \in Fields, field[g] # Null, g = "data" => owned
      PROVE  field[g] \in heap
  <2>1. CASE instance = "failed"
    BY <1>1, <1>2, <1>6, <2>1 DEF PointersAreValid, Unfreed
  <2>2. CASE instance # "failed"
    BY <1>4, <1>6, <2>2 DEF UsesSoundly
  <2> QED
    BY <2>1, <2>2
<1>7. ~(Freed \subseteq heap) => failedAt \in {"stack", "pc_map"}
  BY <1>6 DEF Freed
<1> QED
  BY <1>2, <1>4, <1>5, <1>7 DEF CloseIsSound

(* Closing the session frees its sockets, which no pointer names. *)
LEMMA ClosedKeepsFields ==
  ASSUME LifeTypeOK, NEW f \in Fields, field[f] \in heap, field[f] # Null
  PROVE  field[f] \in Closed
  BY BlocksDiffer DEF Closed

(* Destroy leaves a zero instance; it frees twice only what an init that    *)
(* failed for the stack or the pc_map had freed.                            *)
LEMMA DestroyBlocksInv == BlocksInv /\ Destroy => BlocksInv'
<1> SUFFICES ASSUME BlocksInv, Destroy PROVE BlocksInv'
  OBVIOUS
<1>1. /\ at = "idle" /\ field' = NullFields /\ instance' = "zero" /\ failedAt' = failedAt
      /\ ~owned' /\ ~attached'
  BY DEF Destroy
<1>2. \/ at' = at /\ misuses' = misuses
      \/ failedAt \in {"stack", "pc_map"} /\ Misuse("double free", failedAt)
  BY <1>1, IdlePointers DEF Destroy
<1>3. at' \in {"idle", "dead"} /\ MemoryIsSound'
  BY <1>1, <1>2 DEF BlocksInv, MemoryIsSound, Misuse
<1>4. DOMAIN field' = Fields /\ \A f \in Fields : field'[f] = Null
  BY <1>1 DEF NullFields
<1>5. LifeTypeOK'
  BY <1>1, <1>3, <1>4 DEF BlocksInv, LifeTypeOK, NamedWell
<1>6. at' # "dead" => PointersAreValid'
  BY <1>1, <1>3 DEF PointersAreValid
<1> QED
  BY <1>3, <1>5, <1>6 DEF BlocksInv

(* What the host does, one operation after the other *)
LEMMA HostBlocksInv == BlocksInv /\ Host => BlocksInv'
<1> SUFFICES ASSUME BlocksInv, Host PROVE BlocksInv'
  OBVIOUS
<1> USE DEF BlocksInv
<1>1. CASE \E f \in Files, isFile \in BOOLEAN : Start(f, isFile)
  BY <1>1, StartBlocksInv
<1>2. CASE LoadFails
  <2>1. UNCHANGED <<at, misuses, instance, field, failedAt, heap, owned, attached>> /\ at = "idle"
    BY <1>2 DEF LoadFails, sessionVars
  <2>2. attached' => instance = "ready"
    BY <2>1, IdlePointers
  <2> QED
    BY <2>1, <2>2, UntouchedBlocksInv
<1>3. CASE FreeBuffer
  <2>1. PICK n : heap' = heap \ {Block("buffer", n)} /\ (instance = "ready" => field["data"] # Block("buffer", n))
    BY <1>3 DEF FreeBuffer
  <2>2. at = "idle" /\ UNCHANGED <<at, instance, field, failedAt, misuses, owned, attached>>
    BY <1>3 DEF FreeBuffer, sessionVars
  <2>3. ASSUME NEW f \in Fields, field[f] \in heap, ~(f = "data" /\ instance # "ready")
        PROVE  field[f] # Block("buffer", n)
    <3>1. CASE f = "data"
      BY <2>1, <2>3, <3>1
    <3>2. CASE f # "data" /\ field[f] # Null
      BY <3>2, BlocksDiffer
    <3>3. CASE field[f] = Null
      BY <3>3 DEF Null, Block
    <3> QED
      BY <3>1, <3>2, <3>3
  <2>4. \A f \in Fields : field[f] \in heap => field[f] \in heap' \/ (f = "data" /\ instance # "ready")
    BY <2>1, <2>3
  <2>5. attached' => instance = "ready"
    BY <2>2, IdlePointers
  <2> QED
    BY <2>2, <2>4, <2>5, UntouchedBlocksInv
<1>4. CASE \E name \in {"main", "missing"} : Call(name)
  <2>1. UNCHANGED <<at, misuses, instance, field, failedAt, heap, owned, attached>> /\ at = "idle"
    BY <1>4, IdlePointers DEF Call, sessionVars
  <2>2. attached' => instance = "ready"
    BY <2>1, IdlePointers
  <2> QED
    BY <2>1, <2>2, UntouchedBlocksInv
<1>5. CASE WaitForClient
  <2>1. /\ UNCHANGED <<at, misuses, instance, field, failedAt, owned>> /\ at = "idle" /\ instance = "ready"
        /\ heap \subseteq heap'
    BY <1>5 DEF WaitForClient
  <2> QED
    BY <2>1, UntouchedBlocksInv
<1>6. CASE SetBreakpoint
  <2>1. UNCHANGED <<at, misuses, instance, field, failedAt, heap, owned, attached>> /\ at = "idle"
    BY <1>6 DEF SetBreakpoint
  <2>2. attached' => instance = "ready"
    BY <2>1, IdlePointers
  <2> QED
    BY <2>1, <2>2, UntouchedBlocksInv
<1>7. CASE GdbClose
  <2>1. /\ UNCHANGED <<at, misuses, instance, field, failedAt, owned>> /\ at = "idle" /\ instance = "ready"
        /\ heap' = Closed
    BY <1>7, IdlePointers DEF GdbClose
  <2>2. \A f \in Fields : field[f] \in heap /\ field[f] # Null => field[f] \in heap'
    BY <2>1, ClosedKeepsFields
  <2>3. \A f \in Fields : field[f] = Null /\ Null \in heap => Null \in heap'
    BY <2>1 DEF Closed, Open, Null, Mine, Block, Sockets
  <2>4. \A f \in Fields : field[f] \in heap => field[f] \in heap'
    BY <2>2, <2>3
  <2> QED
    BY <2>1, <2>4, UntouchedBlocksInv
<1>8. CASE Destroy
  BY <1>8, DestroyBlocksInv
<1> QED
  BY <1>1, <1>2, <1>3, <1>4, <1>5, <1>6, <1>7, <1>8 DEF Host

(* Nothing that the invariant speaks of changes. *)
LEMMA StutterBlocksInv == BlocksInv /\ UNCHANGED vars => BlocksInv'
<1> SUFFICES ASSUME BlocksInv, UNCHANGED vars PROVE BlocksInv'
  OBVIOUS
<1>1. UNCHANGED <<at, instance, heap, field, owned, attached, failedAt, misuses>>
  BY DEF vars, sessionVars
<1>2. LifeTypeOK' /\ MemoryIsSound'
  BY <1>1 DEF BlocksInv, LifeTypeOK, MemoryIsSound, NamedWell
<1>3. (at # "dead" => PointersAreValid)'
  BY <1>1, Zenon DEF BlocksInv, PointersAreValid, Unfreed
<1> QED
  BY <1>2, <1>3 DEF BlocksInv

(* The invariant holds whatever init fails at, and whatever the host does. *)
THEOREM SpecLifeInv == Spec => []LifeInv
<1>1. Init => LifeInv
  BY InitLifeInv
<1>2. LifeInv /\ [Next]_vars => LifeInv'
  BY NextLifeFlagsOK, InitStepsBlocksInv, HostBlocksInv, StutterBlocksInv, Zenon DEF LifeInv, Next
<1> QED
  BY <1>1, <1>2, PTL DEF Spec

(* Memory is never freed twice, used after it is freed or written through a *)
(* null pointer, but for the three cases that MemoryIsSound names: after a  *)
(* failed riscv_jit_init_from_elf_mem or _file (riscv_jit.c) as after a     *)
(* destroy, however often.                                                  *)
THEOREM SpecMemoryIsSound == Spec => []MemoryIsSound
<1>1. LifeInv => MemoryIsSound
  BY DEF LifeInv, BlocksInv
<1> QED
  BY <1>1, SpecLifeInv, PTL
-----------------------------------------------------------------------------
(* What NothingIsLost rests on: every block is one that the instance points *)
(* to, the host's, abandoned, a socket of the session or the builder of a   *)
(* compilation; and a file that nobody owns is freed or the host's.         *)
IsAccounted(b) ==
  \/ \E f \in Fields : b = field[f]
  \/ b \in HostsBlocks
  \/ b \in lost
  \/ attached /\ b \in Open
  \/ at = "compile" /\ b = Mine("builder")
Accounted == \A b \in heap : IsAccounted(b)

FileIsHosts == field["data"].name = "buffer"
LossTypeOK == inits \in Nat /\ Null \notin heap /\ (FileIsHosts => field["data"] \in HostsBlocks)
FileIsSettled ==
  /\ instance = "failed" /\ failedAt = "parse" => at = "idle" /\ \A f \in Fields \ {"data"} : field[f] = Null
  /\ at # "idle" => fromFile \/ FileIsHosts
  /\ at = "idle" /\ ~owned => FileIsHosts \/ field["data"] \notin heap
(* While init runs, the pointers it has not come to are null. *)
NotYetAllocated ==
  /\ at = "parse" => field["data_mem"] = Null
  /\ at \in {"parse", "exec"} => field["exec_mem"] = Null
  /\ at \in {"parse", "exec", "stack"} => field["stack_mem"] = Null
  /\ at \in {"parse", "exec", "stack", "pc_map"} => field["pc_map"] = Null

LossInv == LossTypeOK /\ (at # "dead" => Accounted /\ FileIsSettled /\ NotYetAllocated)

LEMMA InitLossInv == Init => LossInv
<1> SUFFICES ASSUME Init PROVE LossInv
  OBVIOUS
<1>1. field = NullFields /\ heap = {} /\ inits = 0
  BY DEF Init
<1>2. field["data"] = Null /\ Null.name # "buffer" /\ \A f \in Fields : field[f] = Null
  BY <1>1 DEF NullFields, Null, Block, Fields
<1> QED
  BY <1>1, <1>2 DEF LossInv, LossTypeOK, Accounted, FileIsSettled, FileIsHosts, NotYetAllocated, Init, Fields

(* No block that is allocated is null. *)
LEMMA BlocksAreNotNull ==
  /\ \A name \in Fields \cup Sockets \cup {"builder", "buffer"} : \A n : Block(name, n) # Null /\ Block(name, n).name = name
  /\ Null.name = "null"
BY DEF Block, Null, Fields, Sockets

(* A step that allocates nothing and frees a socket or the builder where it *)
(* ceases to be in use leaves all blocks accounted for.                     *)
LEMMA FreedAreAccounted ==
  ASSUME Accounted, heap' \subseteq heap, UNCHANGED <<field, inits, lost>>,
         attached => attached' \/ heap' \cap Open = {},
         at = "compile" => at' = "compile" \/ Mine("builder") \notin heap'
  PROVE  Accounted'
<1> SUFFICES ASSUME NEW b \in heap' PROVE IsAccounted(b)'
  BY DEF Accounted
<1>1. IsAccounted(b)
  BY DEF Accounted
<1>2. HostsBlocks' = HostsBlocks /\ Open' = Open /\ Mine("builder")' = Mine("builder")
  BY DEF HostsBlocks, Open, Mine
<1> QED
  BY <1>1, <1>2 DEF IsAccounted

(* A failing init frees blocks, that of a file also the file. *)
LEMMA FailLossInv ==
  ASSUME LifeInv, LossInv, NEW step \in Steps, at = step, NEW why, NEW freed, Fail(step, why, freed),
         step = "compile" => Mine("builder") \in freed
  PROVE  LossInv'
<1>1. /\ heap' = heap \ (freed \cup IF fromFile THEN {field["data"]} ELSE {})
      /\ UNCHANGED <<field, inits, lost, owned, attached>> /\ at' = "idle" /\ instance' = "failed" /\ failedAt' = step
  BY DEF Fail, elfVars, sessionVars
<1>2. at # "dead" /\ at # "idle" /\ ~attached
  BY DEF Steps, LifeInv, BlocksInv, PointersAreValid
<1>3. Accounted'
  BY <1>1, <1>2, FreedAreAccounted DEF LossInv
<1>4. fromFile => field["data"] \notin heap'
  BY <1>1
<1>5. step = "parse" => \A f \in Fields \ {"data"} : field[f] = Null
  BY <1>2 DEF LossInv, NotYetAllocated, Fields
<1>6. FileIsSettled' /\ NotYetAllocated'
  BY <1>1, <1>2, <1>4, <1>5 DEF LossInv, FileIsSettled, FileIsHosts, NotYetAllocated
<1> QED
  BY <1>1, <1>3, <1>6 DEF LossInv, LossTypeOK, FileIsHosts, HostsBlocks

(* The step of init after each; "translate" allocates nothing for a field *)
Follows(name, step, next) ==
  \/ name = "data_mem" /\ step = "parse" /\ next = "exec"
  \/ name = "exec_mem" /\ step = "exec" /\ next = "stack"
  \/ name = "stack_mem" /\ step = "stack" /\ next = "pc_map"
  \/ name = "pc_map" /\ step = "pc_map" /\ next = "translate"

LEMMA AllocateLossInv ==
  ASSUME LifeInv, LossInv, NEW name, NEW next, Allocate(name, next), Follows(name, at, next), UNCHANGED <<inits, fromFile>>
  PROVE  LossInv'
<1>1. /\ heap' = heap \cup {Mine(name)} /\ field' = [field EXCEPT ![name] = Mine(name)] /\ at' = next
      /\ UNCHANGED <<instance, owned, attached, failedAt, lost>>
  BY DEF Allocate, sessionVars
<1>2. DOMAIN field = Fields /\ "data" \in Fields /\ name \in Fields \ {"data"}
  BY DEF LifeInv, BlocksInv, LifeTypeOK, Fields, Follows
<1>3. field'[name] = Mine(name) /\ \A f \in Fields \ {name} : field'[f] = field[f]
  BY <1>1, <1>2
<1>4. HostsBlocks' = HostsBlocks /\ Open' = Open
  BY <1>1 DEF HostsBlocks, Open, Mine
<1>5. Mine(name) # Null
  BY <1>2, BlocksAreNotNull DEF Mine
<1>6. at \notin {"dead", "idle", "compile"} /\ next \notin {"idle", "dead"} /\ field[name] = Null
  BY DEF Follows, LossInv, NotYetAllocated
<1>7. ASSUME NEW b \in heap' PROVE IsAccounted(b)'
  <2>1. CASE b = Mine(name)
    BY <1>2, <1>3, <2>1 DEF IsAccounted
  <2>2. CASE b \in heap /\ b # Null
    <3>1. IsAccounted(b)
      BY <1>6, <2>2 DEF LossInv, Accounted
    <3> QED
      BY <1>1, <1>3, <1>4, <1>6, <2>2, <3>1 DEF IsAccounted
  <2> QED
    BY <1>1, <2>1, <2>2 DEF LossInv, LossTypeOK
<1>8. field'["data"] = field["data"]
  BY <1>2, <1>3
<1>9. FileIsSettled'
  BY <1>1, <1>6, <1>8 DEF LossInv, FileIsSettled, FileIsHosts
<1>10. NotYetAllocated'
  BY <1>1, <1>2, <1>6 DEF LossInv, NotYetAllocated, Follows, Fields
<1> QED
  BY <1>1, <1>4, <1>5, <1>7, <1>8, <1>9, <1>10 DEF LossInv, LossTypeOK, FileIsHosts, Accounted

(* Init, one step after the other *)
LEMMA InitStepsLossInv == LifeInv /\ LossInv /\ InitSteps => LossInv'
<1> SUFFICES ASSUME LifeInv, LossInv, InitSteps PROVE LossInv'
  OBVIOUS
<1>1. CASE Parse
  <2>1. CASE Parsed(file) = "ok" /\ ~HasData(file)
    <3>1. /\ UNCHANGED <<instance, heap, field, owned, attached, failedAt, inits, fromFile, lost>>
          /\ at' = "exec" /\ at = "parse"
      BY <1>1, <2>1 DEF Parse, sessionVars, elfVars
    <3>2. Accounted'
      BY <3>1, FreedAreAccounted DEF LossInv
    <3>3. FileIsSettled' /\ NotYetAllocated'
      BY <3>1 DEF LossInv, FileIsSettled, FileIsHosts, NotYetAllocated
    <3> QED
      BY <3>1, <3>2, <3>3 DEF LossInv, LossTypeOK, FileIsHosts, HostsBlocks
  <2>2. CASE Parsed(file) = "ok" /\ HasData(file) /\ Allocate("data_mem", "exec") /\ UNCHANGED <<inits, fromFile>>
    BY <1>1, <2>2, AllocateLossInv DEF Parse, Follows
  <2>3. CASE \E why : Fail("parse", why, {})
    BY <1>1, <2>3, FailLossInv DEF Parse, Steps
  <2> QED
    BY <1>1, <2>1, <2>2, <2>3 DEF Parse
<1>2. CASE AllocExec
  BY <1>2, FailLossInv, AllocateLossInv DEF AllocExec, elfVars, Steps, Follows
<1>3. CASE AllocStack
  BY <1>3, FailLossInv, AllocateLossInv DEF AllocStack, elfVars, Steps, Follows
<1>4. CASE AllocPcMap
  BY <1>4, FailLossInv, AllocateLossInv DEF AllocPcMap, elfVars, Steps, Follows
<1>5. CASE Translate
  <2>1. /\ UNCHANGED <<instance, field, owned, attached, inits, fromFile, lost>> /\ at = "translate"
        /\ heap' \in {heap, heap \cup {Mine("builder")}} /\ at' \in {"compile", "dead"}
        /\ (at' # "dead" => failedAt' = failedAt)
    BY <1>5 DEF Translate, Misuse, sessionVars, elfVars
  <2>2. HostsBlocks' = HostsBlocks /\ Open' = Open /\ Mine("builder")' = Mine("builder") /\ Mine("builder") # Null
    BY <2>1, BlocksAreNotNull DEF HostsBlocks, Open, Mine
  <2>3. LossTypeOK'
    BY <2>1, <2>2 DEF LossInv, LossTypeOK, FileIsHosts
  <2>4. ASSUME at' = "compile", NEW b \in heap' PROVE IsAccounted(b)'
    <3>1. CASE b = Mine("builder")
      BY <2>2, <2>4, <3>1 DEF IsAccounted
    <3>2. CASE b \in heap
      BY <2>1, <2>2, <3>2 DEF LossInv, Accounted, IsAccounted
    <3> QED
      BY <2>1, <3>1, <3>2
  <2>5. at' = "compile" => FileIsSettled' /\ NotYetAllocated'
    BY <2>1 DEF LossInv, FileIsSettled, FileIsHosts, NotYetAllocated
  <2> QED
    BY <2>1, <2>3, <2>4, <2>5 DEF LossInv, Accounted
<1>6. CASE Compile
  <2>1. CASE Fail("compile", "oom", {Mine("builder")})
    BY <1>6, <2>1, FailLossInv DEF Compile, Steps
  <2>2. CASE instance' = "ready" /\ heap' = heap \ {Mine("builder")} /\ owned' = fromFile
    <3>1. /\ UNCHANGED <<field, inits, lost, attached>> /\ at' = "idle" /\ at = "compile"
      BY <1>6, <2>2 DEF Compile, Fail, sessionVars, elfVars
    <3>2. Accounted'
      BY <2>2, <3>1, FreedAreAccounted DEF LossInv
    <3>3. FileIsSettled' /\ NotYetAllocated'
      BY <2>2, <3>1 DEF LossInv, FileIsSettled, FileIsHosts, NotYetAllocated
    <3> QED
      BY <2>2, <3>1, <3>2, <3>3 DEF LossInv, LossTypeOK, FileIsHosts, HostsBlocks
  <2> QED
    BY <1>6, <2>1, <2>2 DEF Compile
<1> QED
  BY <1>1, <1>2, <1>3, <1>4, <1>5, <1>6 DEF InitSteps

(* Between two inits the host allocates nothing but a session. *)
LEMMA UntouchedLossInv ==
  ASSUME LossInv, at = "idle", heap' \subseteq heap,
         UNCHANGED <<at, instance, field, inits, fromFile, lost, owned, failedAt>>,
         attached => attached' \/ heap' \cap Open = {}
  PROVE  LossInv'
<1>1. Accounted'
  BY FreedAreAccounted DEF LossInv
<1>2. FileIsSettled' /\ NotYetAllocated'
  BY DEF LossInv, FileIsSettled, FileIsHosts, NotYetAllocated
<1> QED
  BY <1>1, <1>2 DEF LossInv, LossTypeOK, FileIsHosts, HostsBlocks

(* What a failed init has left is abandoned by the next one. *)
LEMMA StartLossInv ==
  ASSUME LifeInv, LossInv, NEW f \in Files, NEW isFile \in BOOLEAN, Start(f, isFile)
  PROVE  LossInv'
<1> DEFINE data == Block(IF isFile THEN "data" ELSE "buffer", inits')
<1>1. /\ at = "idle" /\ instance # "ready" /\ inits' = inits + 1 /\ fromFile' = isFile /\ ~owned'
      /\ heap' = heap \cup {data} /\ field' = Cleared(data) /\ lost' = lost \cup Abandoned
      /\ at' = "parse" /\ instance' = "failed" /\ failedAt' = "none" /\ ~attached'
  BY DEF Start
<1>2. inits \in Nat /\ Null \notin heap /\ LifeTypeOK /\ ~attached
  BY <1>1 DEF LossInv, LossTypeOK, LifeInv, BlocksInv, PointersAreValid
<1>3. /\ field'["data"] = data /\ \A g \in Fields \ {"data"} : field'[g] = Null
  BY <1>1 DEF Cleared, NullFields, Fields
<1>4. HostsBlocks \subseteq HostsBlocks' /\ Block("buffer", inits') \in HostsBlocks'
  BY <1>1, <1>2 DEF HostsBlocks
<1>5. data # Null /\ data.name = (IF isFile THEN "data" ELSE "buffer")
  BY BlocksAreNotNull, Zenon DEF Fields
<1> HIDE DEF data
<1>6. ASSUME NEW b \in heap' PROVE IsAccounted(b)'
  <2>1. CASE b = data
    BY <1>3, <2>1 DEF IsAccounted, Fields
  <2>2. CASE b \in heap
    <3>1. IsAccounted(b)
      BY <1>1, <2>2 DEF LossInv, Accounted
    <3>2. CASE b \in {field[g] : g \in Fields}
      <4>1. PICK g \in Fields : b = field[g]
        BY <3>2
      <4>2. CASE b.name = "buffer"
        <5>1. g = "data"
          BY <1>2, <2>2, <4>1, <4>2 DEF LifeTypeOK, NamedWell, Fields
        <5> QED
          BY <1>4, <4>1, <4>2, <5>1 DEF LossInv, LossTypeOK, FileIsHosts, IsAccounted
      <4>3. CASE b.name # "buffer"
        BY <1>1, <2>2, <4>1, <4>3 DEF Abandoned, IsAccounted
      <4> QED
        BY <4>2, <4>3
    <3> QED
      BY <1>1, <1>2, <1>4, <3>1, <3>2 DEF IsAccounted
  <2> QED
    BY <1>1, <2>1, <2>2
<1>7. FileIsSettled' /\ NotYetAllocated'
  BY <1>1, <1>3, <1>5 DEF FileIsSettled, FileIsHosts, NotYetAllocated, Fields
<1>8. inits' \in Nat /\ Null \notin heap'
  BY <1>1, <1>2, <1>5
<1>9. FileIsHosts' => field'["data"] \in HostsBlocks'
  <2>1. ~isFile => data = Block("buffer", inits')
    BY DEF data
  <2> QED
    BY <1>3, <1>4, <1>5, <2>1 DEF FileIsHosts
<1> QED
  BY <1>6, <1>7, <1>8, <1>9 DEF LossInv, LossTypeOK, Accounted

(* Destroy leaves what is the host's or was abandoned. *)
LEMMA DestroyLossInv == LifeInv /\ LossInv /\ Destroy => LossInv'
<1> SUFFICES ASSUME LifeInv, LossInv, Destroy PROVE LossInv'
  OBVIOUS
<1>1. /\ at = "idle" /\ heap' = Closed \ Freed /\ field' = NullFields /\ instance' = "zero" /\ ~owned' /\ ~attached'
      /\ UNCHANGED <<inits, fromFile, lost>> /\ at' \in {"idle", "dead"}
  BY DEF Destroy, Misuse
<1>2. heap' \subseteq heap /\ HostsBlocks' = HostsBlocks
  BY <1>1 DEF Closed, HostsBlocks
<1>3. field'["data"] = Null
  BY <1>1 DEF NullFields, Fields
<1>4. LossTypeOK'
  BY <1>1, <1>2, <1>3, BlocksAreNotNull DEF LossInv, LossTypeOK, FileIsHosts
<1>5. ASSUME NEW b \in heap' PROVE IsAccounted(b)'
  <2>1. IsAccounted(b) /\ b # Null
    BY <1>1, <1>2, <1>5 DEF LossInv, Accounted, LossTypeOK
  <2>2. ~(attached /\ b \in Open)
    BY <1>1 DEF Closed
  <2>3. ASSUME NEW f \in Fields, b = field[f] PROVE b \in HostsBlocks
    <3>1. f = "data" /\ ~owned
      BY <1>1, <2>1, <2>3 DEF Freed
    <3>2. FileIsHosts
      BY <1>1, <1>2, <2>3, <3>1 DEF LossInv, FileIsSettled
    <3> QED
      BY <2>3, <3>1, <3>2 DEF LossInv, LossTypeOK
  <2> QED
    BY <1>1, <1>2, <2>1, <2>2, <2>3 DEF IsAccounted
<1>6. at' # "dead" => FileIsSettled' /\ NotYetAllocated'
  BY <1>1, <1>2, <1>3 DEF LossInv, LossTypeOK, FileIsSettled, NotYetAllocated
<1> QED
  BY <1>4, <1>5, <1>6 DEF LossInv, Accounted

(* What the host does, one operation after the other *)
LEMMA HostLossInv == LifeInv /\ LossInv /\ Host => LossInv'
<1> SUFFICES ASSUME LifeInv, LossInv, Host PROVE LossInv'
  OBVIOUS
<1> DEFINE Others == UNCHANGED <<at, instance, field, inits, fromFile, lost, owned, failedAt>> /\ at = "idle"
<1>1. CASE \E f \in Files, isFile \in BOOLEAN : Start(f, isFile)
  BY <1>1, StartLossInv
<1>2. CASE LoadFails
  BY <1>2, UntouchedLossInv DEF LoadFails, elfVars, sessionVars
<1>3. CASE FreeBuffer
  <2>1. Others /\ heap' \subseteq heap /\ attached' = attached
    BY <1>3 DEF FreeBuffer, elfVars, sessionVars
  <2> QED
    BY <2>1, UntouchedLossInv
<1>4. CASE \E name \in {"main", "missing"} : Call(name)
  <2>1. Others /\ heap' = heap /\ attached' = attached
    BY <1>4, IdlePointers DEF Call, elfVars, sessionVars, LifeInv
  <2> QED
    BY <2>1, UntouchedLossInv
<1>5. CASE WaitForClient
  <2>1. /\ Others
        /\ \/ heap' = heap /\ attached' = attached
           \/ heap' = heap \cup Open /\ attached'
    <3>1. Others
      BY <1>5 DEF WaitForClient, elfVars
    <3>2. \/ heap' = heap /\ attached' = attached
          \/ heap' = heap \cup Open /\ attached'
      BY <1>5, Zenon DEF WaitForClient
    <3> QED
      BY <3>1, <3>2
  <2>2. CASE heap' = heap /\ attached' = attached
    BY <2>1, <2>2, UntouchedLossInv
  <2>3. CASE heap' = heap \cup Open /\ attached'
    <3>1. HostsBlocks' = HostsBlocks /\ Open' = Open /\ Null \notin Open
      BY <2>1, BlocksAreNotNull DEF HostsBlocks, Open, Mine
    <3>2. Accounted'
      BY <2>1, <2>3, <3>1 DEF LossInv, Accounted, IsAccounted
    <3>3. owned \/ FileIsHosts \/ field["data"] \notin heap'
      <4>1. field["data"] \in Open => FileIsHosts
        <5>1. \A b \in Open : b.name \in Sockets
          BY BlocksAreNotNull DEF Open, Mine
        <5>2. field["data"] = Null \/ field["data"].name \in {"data", "buffer"}
          BY DEF LifeInv, BlocksInv, LifeTypeOK, NamedWell, Fields
        <5> QED
          BY <5>1, <5>2, BlocksAreNotNull DEF Sockets
      <4> QED
        BY <2>1, <2>3, <4>1 DEF LossInv, FileIsSettled
    <3>4. FileIsSettled' /\ NotYetAllocated'
      BY <2>1, <3>3 DEF LossInv, FileIsSettled, FileIsHosts, NotYetAllocated
    <3> QED
      BY <2>1, <2>3, <3>1, <3>2, <3>4 DEF LossInv, LossTypeOK, FileIsHosts
  <2> QED
    BY <2>1, <2>2, <2>3
<1>6. CASE SetBreakpoint
  BY <1>6, UntouchedLossInv DEF SetBreakpoint, elfVars, sessionVars
<1>7. CASE GdbClose
  <2>1. Others /\ heap' = Closed
    BY <1>7, IdlePointers DEF GdbClose, elfVars, LifeInv
  <2>2. heap' \subseteq heap /\ (attached => heap' \cap Open = {})
    BY <2>1 DEF Closed
  <2> QED
    BY <2>1, <2>2, UntouchedLossInv
<1>8. CASE Destroy
  BY <1>8, DestroyLossInv
<1> QED
  BY <1>1, <1>2, <1>3, <1>4, <1>5, <1>6, <1>7, <1>8 DEF Host

LEMMA StutterLossInv == LossInv /\ UNCHANGED vars => LossInv'
<1> SUFFICES ASSUME LossInv, UNCHANGED vars PROVE LossInv'
  OBVIOUS
<1>1. UNCHANGED <<at, instance, heap, field, owned, attached, failedAt, inits, fromFile, lost>>
  BY DEF vars, elfVars, sessionVars
<1>2. at # "dead" => Accounted'
  BY <1>1, FreedAreAccounted DEF LossInv
<1>3. at # "dead" => FileIsSettled' /\ NotYetAllocated'
  BY <1>1 DEF LossInv, FileIsSettled, FileIsHosts, NotYetAllocated
<1>4. LossTypeOK'
  BY <1>1 DEF LossInv, LossTypeOK, FileIsHosts, HostsBlocks
<1> QED
  BY <1>1, <1>2, <1>3, <1>4 DEF LossInv

(* Nothing is allocated that nobody will free, whatever init fails at and   *)
(* however often: riscv_jit_destroy frees all that riscv_jit_init_from_* of *)
(* this instance has allocated, a file that is refused leaves nothing, and  *)
(* an instance that works has all of its memory.                            *)
THEOREM SpecNothingIsLost == Spec => []NothingIsLost
<1>1. Init => LossInv
  BY InitLossInv
<1>2. LifeInv /\ LossInv /\ [Next]_vars => LossInv'
  BY InitStepsLossInv, HostLossInv, StutterLossInv, Zenon DEF Next
<1>3. LifeInv /\ LossInv => NothingIsLost
  <2> SUFFICES ASSUME LifeInv, LossInv, at = "idle"
               PROVE  /\ instance = "zero" \/ (instance = "failed" /\ failedAt = "parse")
                           => heap \subseteq HostsBlocks \cup lost
                      /\ instance = "ready" => /\ Kept \ {Null} \subseteq heap
                                               /\ heap \subseteq Kept \cup Open \cup HostsBlocks \cup lost
                      /\ instance = "failed" => heap \subseteq Kept \cup HostsBlocks \cup lost
    BY DEF NothingIsLost
  <2>1. PointersAreValid /\ Accounted /\ FileIsSettled /\ LossTypeOK
    BY DEF LifeInv, BlocksInv, LossInv
  <2>2. \A b \in heap : b \in Kept \cup HostsBlocks \cup lost \/ (instance = "ready" /\ b \in Open)
    BY <2>1 DEF PointersAreValid, Accounted, IsAccounted, Kept
  <2>3. instance = "ready" => Kept \ {Null} \subseteq heap
    BY <2>1 DEF PointersAreValid, Unfreed, Kept
  <2>4. ASSUME instance = "zero" \/ (instance = "failed" /\ failedAt = "parse"), NEW b \in heap, NEW f \in Fields, b = field[f]
        PROVE  b \in HostsBlocks
    <3>1. instance # "zero" /\ f = "data" /\ ~owned
      BY <2>1, <2>4 DEF PointersAreValid, NullFields, FileIsSettled, LossTypeOK
    <3> QED
      BY <2>1, <2>4, <3>1 DEF FileIsSettled, LossTypeOK
  <2>5. instance = "zero" \/ (instance = "failed" /\ failedAt = "parse") => heap \subseteq HostsBlocks \cup lost
    BY <2>2, <2>4 DEF Kept
  <2> QED
    BY <2>2, <2>3, <2>5
<1> QED
  BY <1>1, <1>2, <1>3, SpecLifeInv, PTL DEF Spec
-----------------------------------------------------------------------------
(* What the copy of the writable sections holds: of the sections of a file *)
(* this is used                                                             *)
SectionsOK(ff) ==
  /\ DOMAIN ff.sections = 1..Len(ff.sections) /\ Len(ff.sections) \in Nat
  /\ \A i \in 1..Len(ff.sections) :
       ff.sections[i].addr \in Nat /\ ff.sections[i].size \in Nat /\ ff.sections[i].offset \in Nat

LEMMA FilesAreOK ==
  ASSUME NEW ff \in Files
  PROVE  SectionsOK(ff)
<1>1. ff.sections \in Seq(ToSet(ff.sections))
  BY LifecycleAssumption
<1>2. \A s \in ToSet(ff.sections) : s.addr \in Nat /\ s.size \in Nat /\ s.offset \in Nat
  BY LifecycleAssumption
<1>3. DOMAIN ff.sections = 1..Len(ff.sections) /\ Len(ff.sections) \in Nat
  BY <1>1
<1> QED
  BY <1>2, <1>3 DEF ToSet, SectionsOK

(* The first and the last address of the copy *)
LEMMA LowestIs ==
  ASSUME NEW T \in SUBSET Nat, NEW x \in T
  PROVE  Min(T) \in T /\ Min(T) <= x
<1>1. \E y \in T : \A z \in T : y <= z
  BY LeastElement
<1> QED
  BY <1>1, Zenon DEF Min

LEMMA HighestIs ==
  ASSUME NEW T \in SUBSET Nat, NEW x \in T, NEW b \in Nat, \A z \in T : z <= b
  PROVE  Max(T) \in T /\ x <= Max(T)
<1> DEFINE U == {n \in Nat : b - n \in T}
<1>1. b - x \in U
  OBVIOUS
<1>2. PICK u \in U : \A n \in U : u <= n
  BY <1>1, LeastElement
<1>3. b - u \in T /\ \A z \in T : z <= b - u
  <2>1. \A z \in T : b - z \in U
    OBVIOUS
  <2> QED
    BY <1>2, <2>1
<1>4. \E y \in T : \A z \in T : z <= y
  BY <1>3
<1> QED
  BY <1>4, Zenon DEF Max

(* The sections of a file end somewhere *)
EndsBelow(ff, k) == \E b \in Nat : \A i \in 1..k : i \in 1..Len(ff.sections) => Ends(ff.sections[i]) <= b

LEMMA SectionsEnd ==
  ASSUME NEW ff, SectionsOK(ff)
  PROVE  \E b \in Nat : \A i \in 1..Len(ff.sections) : Ends(ff.sections[i]) <= b
<1> DEFINE Has == {k \in Nat : EndsBelow(ff, k)}
<1>1. 0 \in Has
  BY DEF EndsBelow
<1>2. ASSUME NEW k \in Nat, k \in Has
      PROVE  k + 1 \in Has
  <2> DEFINE Bounds == \E b \in Nat : \A i \in 1..k + 1 : i \in 1..Len(ff.sections) => Ends(ff.sections[i]) <= b
  <2>1. PICK b \in Nat : \A i \in 1..k : i \in 1..Len(ff.sections) => Ends(ff.sections[i]) <= b
    BY <1>2 DEF EndsBelow
  <2>2. ASSUME k + 1 \in 1..Len(ff.sections)
        PROVE  Bounds
    <3> DEFINE e == Ends(ff.sections[k + 1])
    <3>1. e \in Nat /\ \A i \in 1..Len(ff.sections) : Ends(ff.sections[i]) \in Nat
      BY <2>2 DEF SectionsOK, Ends
    <3> HIDE DEF e
    <3>2. \A i \in 1..k + 1 : i \in 1..Len(ff.sections) => Ends(ff.sections[i]) <= b + e
      <4> SUFFICES ASSUME NEW i \in 1..k + 1, i \in 1..Len(ff.sections)
                   PROVE  Ends(ff.sections[i]) <= b + e
        OBVIOUS
      <4>1. CASE i \in 1..k
        BY <2>1, <3>1, <4>1
      <4>2. CASE i = k + 1
        BY <3>1, <4>2 DEF e
      <4> QED
        BY <4>1, <4>2
    <3>3. b + e \in Nat
      BY <3>1
    <3> DEFINE c == b + e
    <3>4. c \in Nat /\ \A i \in 1..k + 1 : i \in 1..Len(ff.sections) => Ends(ff.sections[i]) <= c
      BY <3>2, <3>3
    <3> HIDE DEF c
    <3> QED
      BY <3>4
  <2>3. ASSUME ~(k + 1 \in 1..Len(ff.sections))
        PROVE  Bounds
    <3>1. \A i \in 1..k + 1 : i \in 1..Len(ff.sections) => i \in 1..k
      BY <2>3
    <3> QED
      BY <2>1, <3>1
  <2>4. EndsBelow(ff, k + 1)
    BY <2>2, <2>3 DEF EndsBelow
  <2> QED
    BY <2>4
<1> HIDE DEF Has
<1>3. Len(ff.sections) \in Has
  BY <1>1, <1>2, SetInduction DEF SectionsOK
<1> QED
  BY <1>3 DEF Has, EndsBelow

(* Every address of a gathered section is one of the copy. *)
LEMMA RegionCovers ==
  ASSUME NEW ff, SectionsOK(ff), NEW i \in Gathered(ff)
  PROVE  /\ Lowest(ff) \in Nat /\ Highest(ff) \in Nat
         /\ Lowest(ff) <= ff.sections[i].addr /\ Ends(ff.sections[i]) <= Highest(ff)
<1> DEFINE L == {ff.sections[j].addr : j \in Gathered(ff)}
           H == {Ends(ff.sections[j]) : j \in Gathered(ff)}
<1>1. Gathered(ff) \subseteq 1..Len(ff.sections)
  BY DEF Gathered, SectionsOK
<1>2. \A j \in Gathered(ff) : ff.sections[j].addr \in Nat /\ Ends(ff.sections[j]) \in Nat
  BY <1>1 DEF SectionsOK, Ends
<1>3. L \in SUBSET Nat /\ H \in SUBSET Nat /\ ff.sections[i].addr \in L /\ Ends(ff.sections[i]) \in H
  BY <1>2
<1>4. PICK b \in Nat : \A z \in H : z <= b
  BY <1>1, SectionsEnd
<1>5. Lowest(ff) = Min(L) /\ Highest(ff) = Max(H)
  BY DEF Lowest, Highest
<1> HIDE DEF L, H
<1>6. Min(L) \in L /\ Min(L) <= ff.sections[i].addr
  BY <1>3, LowestIs
<1>7. Max(H) \in H /\ Ends(ff.sections[i]) <= Max(H)
  BY <1>3, <1>4, HighestIs
<1> QED
  BY <1>3, <1>5, <1>6, <1>7

(* The copy as it grows, section after section *)
Unfilled(ff) == [a \in Lowest(ff)..Highest(ff) - 1 |-> Zeroed]
Regions(ff) == [Lowest(ff)..Highest(ff) - 1 -> Int]
Grown(ff, k, region) == IF k \in Gathered(ff) THEN Copied(region, ff.sections[k]) ELSE region
IsFilled(g, ff) ==
  g = [k \in 0..Len(ff.sections) |->
         IF k = 0 THEN [a \in Lowest(ff)..Highest(ff) - 1 |-> Zeroed]
         ELSE IF k \in Gathered(ff) THEN Copied(g[k - 1], ff.sections[k])
         ELSE g[k - 1]]

LEMMA GrownType ==
  ASSUME NEW ff, SectionsOK(ff), NEW k \in Nat, NEW region \in Regions(ff),
         \A i \in Gathered(ff) : Lowest(ff) \in Nat
  PROVE  Grown(ff, k, region) \in Regions(ff)
<1>1. CASE k \in Gathered(ff)
  <2> DEFINE s == ff.sections[k]
  <2>1. s.addr \in Nat /\ s.offset \in Nat /\ Lowest(ff) \in Nat
    BY <1>1 DEF Gathered, SectionsOK
  <2> HIDE DEF s
  <2>2. Copied(region, s) \in Regions(ff)
    BY <2>1 DEF Copied, Regions
  <2> QED
    BY <1>1, <2>2 DEF Grown, s
<1>2. CASE k \notin Gathered(ff)
  BY <1>2 DEF Grown
<1> QED
  BY <1>1, <1>2

LEMMA FilledExists ==
  ASSUME NEW ff, SectionsOK(ff)
  PROVE  \E g : IsFilled(g, ff)
<1> DEFINE step == [n \in Nat |-> [r \in Regions(ff) |-> Grown(ff, n + 1, r)]]
<1>1. Len(ff.sections) \in Nat /\ \A i \in Gathered(ff) : Lowest(ff) \in Nat
  BY RegionCovers DEF SectionsOK
<1>2. \A n \in Nat : \A r \in Regions(ff) : Grown(ff, n + 1, r) \in Regions(ff)
  BY <1>1, GrownType
<1>3. step \in Stepping(Regions(ff))
  BY <1>2 DEF Stepping
<1>4. Unfilled(ff) \in Regions(ff)
  BY DEF Unfilled, Regions, Zeroed
<1>5. \A n \in Nat : \A r \in Regions(ff) : step[n][r] = Grown(ff, n + 1, r)
  OBVIOUS
<1> HIDE DEF step
<1>6. PICK h : Recurs(h, Regions(ff), Unfilled(ff), step)
  BY <1>3, <1>4, Recursion, Zenon
<1> DEFINE g == [k \in 0..Len(ff.sections) |-> h[k]]
<1>7. ASSUME NEW k \in 0..Len(ff.sections), k # 0
      PROVE  g[k] = Grown(ff, k, g[k - 1])
  <2>1. k - 1 \in Nat /\ k = (k - 1) + 1 /\ k - 1 \in 0..Len(ff.sections)
    BY <1>1, <1>7
  <2>2. h[k] = step[k - 1][h[k - 1]] /\ h[k - 1] \in Regions(ff)
    BY <1>6, <2>1 DEF Recurs
  <2>3. h[k] = Grown(ff, k, h[k - 1])
    BY <1>5, <2>1, <2>2
  <2> QED
    BY <2>1, <2>3
<1>8. g[0] = Unfilled(ff)
  BY <1>1, <1>6 DEF Recurs
<1>9. g = [k \in 0..Len(ff.sections) |-> g[k]]
  OBVIOUS
<1> HIDE DEF g
<1>10. IsFilled(g, ff)
  BY <1>7, <1>8, <1>9 DEF IsFilled, Grown, Unfilled
<1> QED
  BY <1>10

LEMMA DataRegionIs ==
  ASSUME NEW ff, SectionsOK(ff), HasData(ff)
  PROVE  \E g : IsFilled(g, ff) /\ DataRegion(ff) = g[Len(ff.sections)]
<1>1. IsFilled(CHOOSE g : IsFilled(g, ff), ff)
  <2> HIDE DEF IsFilled
  <2> QED
    BY FilledExists, Zenon
<1>2. DataRegion(ff) = (CHOOSE g : IsFilled(g, ff))[Len(ff.sections)]
  BY Zenon DEF DataRegion, IsFilled
<1> QED
  BY <1>1, <1>2, Zenon

(* What the first n sections have left at address a of the copy *)
Holds(s, a) == s.type # "nobits" /\ s.addr <= a /\ a < Ends(s)
Covering(ff, a, n) == {j \in Gathered(ff) : j <= n /\ Holds(ff.sections[j], a)}
Content(ff, j, a) == ff.sections[j].offset + (a - ff.sections[j].addr)
IsCopyAt(ff, n, region, a) ==
  /\ Covering(ff, a, n) = {} => region[a] = Zeroed
  /\ \A j \in Covering(ff, a, n) :
       (\A m \in Covering(ff, a, n) : m <= j) => region[a] = Content(ff, j, a)
IsCopy(ff, n, region) ==
  DOMAIN region = Lowest(ff)..Highest(ff) - 1 /\ \A a \in DOMAIN region : IsCopyAt(ff, n, region, a)

LEMMA GrownIsCopy ==
  ASSUME NEW ff, SectionsOK(ff), NEW n \in Nat, n + 1 \in 1..Len(ff.sections),
         NEW region, IsCopy(ff, n, region)
  PROVE  IsCopy(ff, n + 1, Grown(ff, n + 1, region))
<1> DEFINE s == ff.sections[n + 1]
           new == Grown(ff, n + 1, region)
<1>1. Gathered(ff) \subseteq Nat
  BY DEF Gathered, SectionsOK
<1>2. \A j \in Gathered(ff) : j <= n + 1 <=> j <= n \/ j = n + 1
  BY <1>1
<1>3. ASSUME NEW a, ~(n + 1 \in Gathered(ff) /\ Holds(s, a))
      PROVE  Covering(ff, a, n + 1) = Covering(ff, a, n)
  BY <1>2, <1>3 DEF Covering
<1>4. DOMAIN new = DOMAIN region
  BY DEF Grown, Copied
<1>5. ASSUME NEW a \in DOMAIN region
      PROVE  IsCopyAt(ff, n + 1, new, a)
  <2>1. CASE n + 1 \in Gathered(ff) /\ Holds(s, a)
    <3>1. new[a] = Content(ff, n + 1, a)
      BY <2>1 DEF Grown, Copied, Holds, Content
    <3>2. n + 1 \in Covering(ff, a, n + 1)
      BY <2>1 DEF Covering
    <3>3. ASSUME NEW j \in Covering(ff, a, n + 1), \A m \in Covering(ff, a, n + 1) : m <= j
          PROVE  j = n + 1
      <4>1. n + 1 <= j /\ j <= n + 1 /\ j \in Nat
        BY <1>1, <3>2, <3>3 DEF Covering
      <4> QED
        BY <4>1
    <3> HIDE DEF new
    <3> QED
      BY <3>1, <3>2, <3>3 DEF IsCopyAt
  <2>2. CASE ~(n + 1 \in Gathered(ff) /\ Holds(s, a))
    <3>1. new[a] = region[a]
      BY <2>2 DEF Grown, Copied, Holds
    <3>2. IsCopyAt(ff, n, region, a)
      BY DEF IsCopy
    <3> HIDE DEF new
    <3> QED
      BY <1>3, <2>2, <3>1, <3>2 DEF IsCopyAt
  <2> QED
    BY <2>1, <2>2
<1> HIDE DEF new
<1>6. IsCopy(ff, n + 1, new)
  BY <1>4, <1>5 DEF IsCopy
<1> QED
  BY <1>6 DEF new

LEMMA DataRegionIsCopy ==
  ASSUME NEW ff, SectionsOK(ff), HasData(ff)
  PROVE  IsCopy(ff, Len(ff.sections), DataRegion(ff))
<1>1. PICK g : IsFilled(g, ff) /\ DataRegion(ff) = g[Len(ff.sections)]
  BY DataRegionIs
<1>2. Len(ff.sections) \in Nat
  BY DEF SectionsOK
<1> DEFINE Good == {n \in Nat : n <= Len(ff.sections) => IsCopy(ff, n, g[n])}
<1>3. 0 \in Good
  <2>1. g[0] = Unfilled(ff)
    BY <1>1, <1>2 DEF IsFilled, Unfilled
  <2>2. \A a : Covering(ff, a, 0) = {}
    BY DEF Covering, Gathered, SectionsOK
  <2> QED
    BY <2>1, <2>2 DEF IsCopy, IsCopyAt, Unfilled
<1>4. ASSUME NEW n \in Nat, n \in Good
      PROVE  n + 1 \in Good
  <2> SUFFICES ASSUME n + 1 <= Len(ff.sections)
               PROVE  IsCopy(ff, n + 1, g[n + 1])
    OBVIOUS
  <2>1. n + 1 \in 1..Len(ff.sections) /\ n + 1 \in 0..Len(ff.sections) /\ n <= Len(ff.sections) /\ n + 1 # 0
        /\ (n + 1) - 1 = n
    BY <1>2
  <2>2. g[n + 1] = Grown(ff, n + 1, g[n])
    BY <1>1, <2>1 DEF IsFilled, Grown
  <2> QED
    BY <1>4, <2>1, <2>2, GrownIsCopy
<1> HIDE DEF Good
<1>5. Len(ff.sections) \in Good
  BY <1>2, <1>3, <1>4, SetInduction
<1> QED
  BY <1>1, <1>2, <1>5 DEF Good
-----------------------------------------------------------------------------
(* From the time that the file has been parsed, data_mem holds its copy. *)
ImageInv ==
  /\ at \in Steps => file \in Files
  /\ at = "parse" => image = NoData
  /\ at \in Steps \ {"parse"} => image = DataRegion(file)
  /\ at = "idle" /\ instance = "ready" => file \in Files /\ image = DataRegion(file)

LEMMA InitImage == Init => ImageInv
BY DEF Init, ImageInv, Steps

LEMMA InitStepsImage == ImageInv /\ InitSteps => ImageInv'
<1> SUFFICES ASSUME ImageInv, InitSteps
             PROVE  ImageInv'
  OBVIOUS
<1> USE DEF Steps
<1>1. ASSUME NEW step, NEW why, NEW freed, Fail(step, why, freed)
      PROVE  ImageInv'
  BY <1>1 DEF Fail, ImageInv
<1>2. CASE Parse
  <2>1. ASSUME Parsed(file) = "ok", HasData(file), Allocate("data_mem", "exec"),
               image' = DataRegion(file), UNCHANGED <<file, fromFile, inits>>, at = "parse"
        PROVE  ImageInv'
    BY <2>1 DEF Allocate, ImageInv
  <2>2. ASSUME ~HasData(file), at = "parse", at' = "exec", UNCHANGED elfVars
        PROVE  ImageInv'
    BY <2>2 DEF ImageInv, elfVars, DataRegion
  <2> QED
    BY <1>1, <1>2, <2>1, <2>2 DEF Parse
<1>3. CASE AllocExec
  BY <1>1, <1>3 DEF AllocExec, Allocate, ImageInv, elfVars
<1>4. CASE AllocStack
  BY <1>1, <1>4 DEF AllocStack, Allocate, ImageInv, elfVars
<1>5. CASE AllocPcMap
  BY <1>1, <1>5 DEF AllocPcMap, Allocate, ImageInv, elfVars
<1>6. CASE Translate
  BY <1>6 DEF Translate, Misuse, ImageInv, elfVars
<1>7. CASE Compile
  BY <1>1, <1>7 DEF Compile, ImageInv, elfVars
<1> QED
  BY <1>2, <1>3, <1>4, <1>5, <1>6, <1>7 DEF InitSteps

LEMMA HostImage == ImageInv /\ Host => ImageInv'
<1> SUFFICES ASSUME ImageInv, Host
             PROVE  ImageInv'
  OBVIOUS
<1> USE DEF Steps
<1>1. ASSUME at = "idle", at' \in {"idle", "dead"}, instance' = instance, UNCHANGED elfVars
      PROVE  ImageInv'
  BY <1>1 DEF ImageInv, elfVars
<1>2. ASSUME at = "idle", at' \in {"idle", "dead"}, instance' = "zero"
      PROVE  ImageInv'
  BY <1>2 DEF ImageInv
<1>3. CASE \E f \in Files, isFile \in BOOLEAN : Start(f, isFile)
  BY <1>3 DEF Start, ImageInv
<1>4. CASE LoadFails
  BY <1>1, <1>4 DEF LoadFails
<1>5. CASE FreeBuffer
  BY <1>1, <1>5 DEF FreeBuffer
<1>6. CASE \E name \in {"main", "missing"} : Call(name)
  BY <1>1, <1>6 DEF Call, Misuse
<1>7. CASE WaitForClient
  BY <1>1, <1>7 DEF WaitForClient
<1>8. CASE SetBreakpoint
  BY <1>1, <1>8 DEF SetBreakpoint
<1>9. CASE GdbClose
  BY <1>1, <1>9 DEF GdbClose, Misuse
<1>10. CASE Destroy
  BY <1>2, <1>10 DEF Destroy, Misuse
<1> QED
  BY <1>3, <1>4, <1>5, <1>6, <1>7, <1>8, <1>9, <1>10 DEF Host

LEMMA ImageInvImplies == ImageInv => ImageIsTheFile
<1> SUFFICES ASSUME ImageInv, at = "idle", instance = "ready",
                    NEW i \in Gathered(file), NEW a \in file.sections[i].addr..Ends(file.sections[i]) - 1
             PROVE  LET Of(s) == s.type # "nobits" /\ s.addr <= a /\ a < Ends(s)
                        from == {j \in Gathered(file) : Of(file.sections[j])}
                    IN /\ a \in DOMAIN image
                       /\ from = {} => image[a] = Zeroed
                       /\ \A j \in from : (\A m \in from : m <= j) =>
                            image[a] = file.sections[j].offset + (a - file.sections[j].addr)
  BY DEF ImageIsTheFile
<1>1. SectionsOK(file) /\ image = DataRegion(file) /\ HasData(file)
  BY FilesAreOK DEF ImageInv, HasData
<1>2. IsCopy(file, Len(file.sections), image)
  BY <1>1, DataRegionIsCopy
<1>3. Covering(file, a, Len(file.sections)) = {j \in Gathered(file) : Holds(file.sections[j], a)}
  <2>1. \A j \in Gathered(file) : j <= Len(file.sections)
    BY <1>1 DEF Gathered, SectionsOK
  <2> QED
    BY <2>1 DEF Covering
<1>4. a \in DOMAIN image
  <2>1. /\ Lowest(file) \in Nat /\ Highest(file) \in Nat
        /\ Lowest(file) <= file.sections[i].addr /\ Ends(file.sections[i]) <= Highest(file)
    BY <1>1, RegionCovers
  <2>2. file.sections[i].addr \in Nat /\ Ends(file.sections[i]) \in Nat
    BY <1>1 DEF Gathered, SectionsOK, Ends
  <2>3. a \in Lowest(file)..Highest(file) - 1
    BY <2>1, <2>2
  <2> QED
    BY <1>2, <2>3 DEF IsCopy
<1>5. IsCopyAt(file, Len(file.sections), image, a)
  BY <1>2, <1>4 DEF IsCopy
<1> QED
  BY <1>3, <1>4, <1>5 DEF IsCopyAt, Holds, Content

(* Of every file that riscv_jit_init_from_elf_mem or _file takes, whatever  *)
(* its sections: data_mem holds their contents at their addresses and zero  *)
(* elsewhere, for as long as the instance works.                            *)
THEOREM SpecImageIsTheFile == Spec => []ImageIsTheFile
<1>1. ImageInv /\ UNCHANGED vars => ImageInv'
  BY DEF ImageInv, vars, elfVars
<1>2. ImageInv /\ [Next]_vars => ImageInv'
  BY <1>1, InitStepsImage, HostImage, Zenon DEF Next
<1> QED
  BY <1>2, InitImage, ImageInvImplies, PTL DEF Spec
=============================================================================
