------------------------------ MODULE Lifecycle ------------------------------
(***************************************************************************)
(* What a riscv_jit owns: riscv_jit_init_from_elf_mem and _file with every *)
(* way they fail, riscv_jit_destroy, and the sockets of a session.  Memory *)
(* is a set of blocks; a pointer that is not null need not point to one.   *)
(*                                                                         *)
(* The host program has one instance.  It destroys a working instance      *)
(* before it makes another, and keeps the buffer of an instance made from  *)
(* memory until then.  After an init that failed it destroys, or does not: *)
(* nothing written says which is right.                                    *)
(***************************************************************************)
EXTENDS ElfLoad

CONSTANTS
  Files,    \* the files there are
  MaxInits  \* bound: calls of an init function

ASSUME LifecycleAssumption ==
  /\ MaxInits \in Nat
  /\ \A f \in Files :
       /\ f.sections \in Seq(ToSet(f.sections))
       /\ \A s \in ToSet(f.sections) : s.addr \in Nat /\ s.size \in Nat /\ s.offset \in Nat

VARIABLES
  at,        \* where init is, "idle" outside of it, "dead" after a misuse of memory
  instance,  \* "zero" (= {0}, or destroyed), "ready" or "failed"
  file,      \* what it was made from
  fromFile,  \* by riscv_jit_init_from_elf_file
  inits,     \* counts the inits
  heap,      \* the blocks that are allocated, and the descriptors that are open
  field,     \* the pointers of the riscv_jit
  owned,     \* elf.owned
  attached,  \* gdb_attached
  patched,   \* a breakpoint is in the code
  image,     \* what is in data_mem, by address
  result,    \* of the latest call
  failedAt,  \* the step the latest init failed at
  lost,      \* blocks a failed init had left, when the host made another without a destroy
  misuses    \* what has been done wrong with memory

elfVars == <<file, fromFile, inits, image>>
sessionVars == <<attached, patched>>
vars == <<at, instance, elfVars, heap, field, owned, sessionVars, result, failedAt, lost, misuses>>

Fields == {"data", "data_mem", "exec_mem", "stack_mem", "pc_map"}
Locals == {"buffer", "builder"}
Sockets == {"listen_fd", "client_fd"}
Steps == {"parse", "exec", "stack", "pc_map", "translate", "compile"}

(* The block that the n-th init allocates for this *)
Block(name, n) == [name |-> name, n |-> n]
Null == Block("null", 0)
NullFields == [f \in Fields |-> Null]
NoFile == [sections |-> <<>>, syms |-> <<>>, code |-> FALSE]

Mine(name) == Block(name, inits)
Open == {Mine(s) : s \in Sockets}

Init ==
  /\ at = "idle" /\ instance = "zero" /\ result = "none" /\ failedAt = "none"
  /\ file = NoFile /\ fromFile = FALSE /\ inits = 0 /\ image = NoData
  /\ heap = {} /\ field = NullFields /\ owned = FALSE
  /\ attached = FALSE /\ patched = FALSE
  /\ lost = {} /\ misuses = {}

(* Something was done with memory that must not be; it is noted with the    *)
(* step that init had failed at, and what follows is not specified.         *)
Misuse(what, step) == misuses' = misuses \cup {<<what, step>>} /\ at' = "dead"

(* The memory in use is read or written *)
UsesSoundly(fields) == \A f \in fields : field[f] # Null => field[f] \in heap
-----------------------------------------------------------------------------
(* Init: the structure is cleared, whatever it pointed to *)
Cleared(data) == [NullFields EXCEPT !["data"] = data]
Abandoned == {b \in heap : b.name # "buffer" /\ b \in {field[f] : f \in Fields}}

Start(f, isFile) ==
  /\ at = "idle" /\ instance # "ready" /\ inits < MaxInits
  /\ inits' = inits + 1
  /\ file' = f /\ fromFile' = isFile /\ image' = NoData
  /\ LET data == Block(IF isFile THEN "data" ELSE "buffer", inits')
     IN heap' = heap \cup {data} /\ field' = Cleared(data)
  /\ lost' = lost \cup Abandoned
  /\ at' = "parse" /\ instance' = "failed" /\ failedAt' = "none"
  /\ owned' = FALSE /\ attached' = FALSE /\ patched' = FALSE
  /\ UNCHANGED <<result, misuses>>

(* riscv_mem_load_file fails, and has closed and freed what it had *)
LoadFails ==
  /\ at = "idle" /\ instance # "ready"
  /\ result' = "io"
  /\ UNCHANGED <<at, instance, elfVars, heap, field, owned, sessionVars, failedAt, lost, misuses>>

(* Seeded fault: the file is left to riscv_jit_destroy *)
FailKeepsFile(step, why, freed) ==
  /\ heap' = heap \ freed
  /\ result' = why /\ failedAt' = step
  /\ at' = "idle" /\ instance' = "failed"
  /\ UNCHANGED <<elfVars, field, owned, sessionVars, lost, misuses>>

(* An init that fails frees some blocks, and that of a file also the file; *)
(* no pointer of the structure is cleared.                                  *)
Fail(step, why, freed) ==
  /\ heap' = heap \ (freed \cup IF fromFile THEN {field["data"]} ELSE {})
  /\ result' = why /\ failedAt' = step
  /\ at' = "idle" /\ instance' = "failed"
  /\ UNCHANGED <<elfVars, field, owned, sessionVars, lost, misuses>>

Allocate(name, next) ==
  /\ heap' = heap \cup {Mine(name)}
  /\ field' = [field EXCEPT ![name] = Mine(name)]
  /\ at' = next
  /\ UNCHANGED <<instance, owned, sessionVars, result, failedAt, lost, misuses>>

(* riscv_elf_init_from_mem *)
Parse ==
  /\ at = "parse"
  /\ \/ Parsed(file) # "ok" /\ Fail("parse", Parsed(file), {})
     \/ /\ Parsed(file) = "ok" /\ HasData(file)
        /\ \/ /\ Allocate("data_mem", "exec")
              /\ image' = DataRegion(file) /\ UNCHANGED <<file, fromFile, inits>>
           \/ Fail("parse", "oom", {})
     \/ /\ Parsed(file) = "ok" /\ ~HasData(file)
        /\ at' = "exec"
        /\ UNCHANGED <<instance, elfVars, heap, field, owned, sessionVars, result, failedAt, lost, misuses>>

AllocExec ==
  /\ at = "exec"
  /\ \/ Allocate("exec_mem", "stack") /\ UNCHANGED elfVars
     \/ Fail("exec", "io", {})

AllocStack ==
  /\ at = "stack"
  /\ \/ Allocate("stack_mem", "pc_map") /\ UNCHANGED elfVars
     \/ Fail("stack", "oom", {field["exec_mem"]})

AllocPcMap ==
  /\ at = "pc_map"
  /\ \/ Allocate("pc_map", "translate") /\ UNCHANGED elfVars
     \/ Fail("pc_map", "oom", {field["stack_mem"], field["exec_mem"]})

(* The builder has its full capacity, also when there was no memory for its *)
(* array: then the first operation is written through a null pointer.       *)
Translate ==
  /\ at = "translate"
  /\ \/ heap' = heap \cup {Mine("builder")} /\ at' = "compile" /\ UNCHANGED <<misuses, failedAt>>
     \/ file.code /\ failedAt' = "translate" /\ Misuse("null write", "translate") /\ UNCHANGED heap
     \/ ~file.code /\ at' = "compile" /\ UNCHANGED <<heap, misuses, failedAt>>
  /\ UNCHANGED <<instance, elfVars, field, owned, sessionVars, result, lost>>

(* Compilation frees its buffers on every path; it fails for want of memory *)
(* or of room for code.                                                     *)
Compile ==
  /\ at = "compile"
  /\ \/ /\ heap' = heap \ {Mine("builder")}
        /\ at' = "idle" /\ instance' = "ready" /\ result' = "ok" /\ owned' = fromFile
        /\ UNCHANGED <<elfVars, field, sessionVars, failedAt, lost, misuses>>
     \/ Fail("compile", "oom", {Mine("builder")})
-----------------------------------------------------------------------------
(* riscv_jit_call reads the file and runs the code *)
Call(name) ==
  /\ at = "idle" /\ instance # "failed"
  /\ IF UsesSoundly(Fields) THEN UNCHANGED <<at, misuses>> ELSE Misuse("use after free", failedAt)
  /\ result' = IF instance = "ready" /\ FindSym(file.syms, name) # 0 THEN "ok" ELSE "bad_pc"
  /\ UNCHANGED <<instance, elfVars, heap, field, owned, sessionVars, failedAt, lost>>

(* riscv_jit_gdb_wait_for_client closes what it had opened when it fails *)
WaitForClient ==
  /\ at = "idle" /\ instance = "ready"
  /\ \/ attached /\ result' = "ok" /\ UNCHANGED <<heap, attached>>
     \/ ~attached /\ result' = "ok" /\ attached' = TRUE /\ heap' = heap \cup Open
     \/ ~attached /\ result' = "io" /\ UNCHANGED <<heap, attached>>
  /\ UNCHANGED <<at, instance, elfVars, field, owned, patched, failedAt, lost, misuses>>

(* A client sets a breakpoint, or removes the last one: see Breakpoints *)
SetBreakpoint ==
  /\ at = "idle" /\ attached
  /\ patched' = ~patched
  /\ UNCHANGED <<at, instance, elfVars, heap, field, owned, attached, result, failedAt, lost, misuses>>

(* riscv_jit_gdb_close writes the compiled bytes back into exec_mem *)
CloseIsSound == attached /\ patched => field["exec_mem"] \in heap
Closed == IF attached THEN heap \ Open ELSE heap

GdbClose ==
  /\ at = "idle" /\ instance = "ready"
  /\ IF CloseIsSound THEN UNCHANGED <<at, misuses>> ELSE Misuse("use after free", failedAt)
  /\ heap' = Closed /\ attached' = FALSE /\ patched' = FALSE
  /\ UNCHANGED <<instance, elfVars, field, owned, result, failedAt, lost>>

(* What riscv_jit_destroy frees: a pointer that is not null, and the file   *)
(* only when it is owned                                                    *)
Freed == {field[f] : f \in {g \in Fields : field[g] # Null /\ (g = "data" => owned)}}

(* Seeded fault: the memory is freed before the session is closed *)
DestroyFreesFirst ==
  /\ at = "idle"
  /\ IF ~(Freed \subseteq heap) THEN Misuse("double free", failedAt)
     ELSE IF attached /\ patched THEN Misuse("use after free", failedAt)
     ELSE UNCHANGED <<at, misuses>>
  /\ heap' = Closed \ Freed
  /\ field' = NullFields /\ owned' = FALSE /\ image' = NoData
  /\ instance' = "zero" /\ attached' = FALSE /\ patched' = FALSE
  /\ UNCHANGED <<file, fromFile, inits, result, failedAt, lost>>

Destroy ==
  /\ at = "idle"
  /\ IF ~CloseIsSound THEN Misuse("use after free", failedAt)
     ELSE IF ~(Freed \subseteq heap) THEN Misuse("double free", failedAt)
     ELSE UNCHANGED <<at, misuses>>
  /\ heap' = Closed \ Freed
  /\ field' = NullFields /\ owned' = FALSE /\ image' = NoData
  /\ instance' = "zero" /\ attached' = FALSE /\ patched' = FALSE
  /\ UNCHANGED <<file, fromFile, inits, result, failedAt, lost>>

(* The host frees its buffer, when no working instance reads it *)
FreeBuffer ==
  /\ at = "idle"
  /\ \E n \in 1..inits :
       LET b == Block("buffer", n)
       IN b \in heap /\ (instance = "ready" => field["data"] # b) /\ heap' = heap \ {b}
  /\ UNCHANGED <<at, instance, elfVars, field, owned, sessionVars, result, failedAt, lost, misuses>>
-----------------------------------------------------------------------------
InitSteps == Parse \/ AllocExec \/ AllocStack \/ AllocPcMap \/ Translate \/ Compile
Host ==
  \/ \E f \in Files, isFile \in BOOLEAN : Start(f, isFile)
  \/ LoadFails \/ FreeBuffer
  \/ \E name \in {"main", "missing"} : Call(name)
  \/ WaitForClient \/ SetBreakpoint \/ GdbClose \/ Destroy

Next == InitSteps \/ Host

Spec == Init /\ [][Next]_vars
-----------------------------------------------------------------------------
(* Memory is never freed twice, used after it is freed or written through a *)
(* null pointer, wherever init fails and whatever the host does next, with  *)
(* three exceptions: destroying an instance that had no memory for its stack *)
(* or its pc_map, and having none for the builder.                          *)
MemoryIsSound ==
  misuses \subseteq {<<"double free", "stack">>, <<"double free", "pc_map">>,
                     <<"null write", "translate">>}

(* The inductive invariant behind it: a pointer is null or names a block of *)
(* its own kind, and all of them are valid while init runs and while the    *)
(* instance works; after an init that failed all but the file's may be.     *)
NamedWell(f) == field[f] = Null \/ field[f].name \in IF f = "data" THEN {"data", "buffer"} ELSE {f}

LifeTypeOK ==
  /\ at \in Steps \cup {"idle", "dead"} /\ instance \in {"zero", "ready", "failed"}
  /\ failedAt \in Steps \cup {"none"}
  /\ DOMAIN field = Fields /\ \A f \in Fields : NamedWell(f)

LifeFlagsOK == fromFile \in BOOLEAN /\ attached \in BOOLEAN /\ owned \in BOOLEAN

Unfreed(f) == field[f] # Null => field[f] \in heap
PointersAreValid ==
  /\ attached \/ owned => instance = "ready" /\ at = "idle"
  /\ at # "idle" => instance = "failed" /\ \A f \in Fields : Unfreed(f)
  /\ at \in {"stack", "pc_map", "translate", "compile"} => field["exec_mem"] # Null
  /\ instance = "zero" => field = NullFields
  /\ instance = "ready" => field["exec_mem"] # Null /\ \A f \in Fields : Unfreed(f)
  /\ instance = "failed" /\ failedAt \notin {"stack", "pc_map"} => \A f \in Fields \ {"data"} : Unfreed(f)

BlocksInv == LifeTypeOK /\ MemoryIsSound /\ (at # "dead" => PointersAreValid)
LifeInv == LifeFlagsOK /\ BlocksInv

(* Nothing is allocated that nobody will free: after a destroy, and after a *)
(* file that is refused, only what the host had and what it abandoned is    *)
(* left ("always owned/freed by the riscv_elf!", riscv_elf.h:32); a working *)
(* instance has all of its memory, and a failed one points to what it kept. *)
HostsBlocks == {Block("buffer", n) : n \in 1..inits}
Kept == {field[f] : f \in Fields}
NothingIsLost ==
  at = "idle" =>
    /\ instance = "zero" \/ (instance = "failed" /\ failedAt = "parse") => heap \subseteq HostsBlocks \cup lost
    /\ instance = "ready" => /\ Kept \ {Null} \subseteq heap
                             /\ heap \subseteq Kept \cup Open \cup HostsBlocks \cup lost
    /\ instance = "failed" => heap \subseteq Kept \cup HostsBlocks \cup lost

(* The guest finds in data_mem what the file says: the contents of every    *)
(* section at its addresses, zero for .bss and between sections, whatever   *)
(* the order of the sections in the file.  Where contents overlap, those of *)
(* the last section in the file count.                                      *)
ImageIsTheFile ==
  at = "idle" /\ instance = "ready" =>
    \A i \in Gathered(file) : \A a \in file.sections[i].addr..Ends(file.sections[i]) - 1 :
      LET Of(s) == s.type # "nobits" /\ s.addr <= a /\ a < Ends(s)
          from == {j \in Gathered(file) : Of(file.sections[j])}
      IN /\ a \in DOMAIN image
         /\ from = {} => image[a] = Zeroed
         /\ \A j \in from : (\A m \in from : m <= j) =>
              image[a] = file.sections[j].offset + (a - file.sections[j].addr)

(* RISCV_ELF_ERR_OOB stands for a "corrupt ELF file (out of bounds)"        *)
(* (riscv_result.h:25): a file that is not corrupt, because its .bss needs  *)
(* no contents, is not refused with it                                      *)
OutOfBoundsIsCorrupt ==
  at = "idle" /\ failedAt = "parse" /\ result = "oob" => ~WellFormed(file)
=============================================================================
