# A verification model of riscv-jit

This directory models the RISC-V JIT in `src/` in TLA+, model-checks it with TLC
on small instances, and proves its central properties with TLAPS for every
instance.

## The system

A host program loads a 64-bit RISC-V ELF file, which is translated to x86-64
once, and calls guest functions by name. A gdb client may be attached between
calls and then holds every call. The library has no threads: the interleavings
are those of the guest's instructions, the host's calls and ecall handlers, and
the client at the other end of a socket.

| Component | Source | State | Operations | Module |
|---|---|---|---|---|
| Call dispatcher | `riscv_jit.c` 196-332 | `cpu` (pc, fuel, fault), the locals `offset`, `debugging`, `gdb_saved_fuel`, `gdb_stepping`, `gdb_should_detach` | `riscv_jit_call`: enters host code, asks `riscv_gdb_on_stop` and `riscv_gdb_poll_async`, calls the fault handler | `JitCall` |
| Software breakpoints | `riscv_gdb.c` 391-611 | `gdb_bp`, `gdb_bp_count`, the stub area, `gdb_temp_unpatched_bp`, patched bytes in `exec_mem` | install, remove, temporary unpatch, repatch | `Breakpoints` |
| Debug session | `riscv_gdb.c` 661-1148 | sockets, `gdb_attached`, flags | wait for client, packet loop, poll, close | `JitCall`, `GdbWire` |
| Remote protocol framing | `riscv_gdb.c` 31-343 | the byte stream, `gdb_no_ack` | read and send packet, acknowledge, poll | `GdbWire`, `RequestReply` |
| Guest memory access | cg 620-730, gdb 346-388 | stack, text, data region | bounds tests of loads and stores, debugger reads and writes | `GuestMemory`, `FlatMemory` |
| IR translation | `riscv_ir.c`, `riscv_instr.h` | the IR buffer | walk of `.text`, decoding of RV64IMC | `IrTranslate`, `Decode`, `Isa` |
| Compiled code | `riscv_jit_cg_x86.c` | `exec_mem`, `pc_map`, patch lists | layout, room, links; per operation its host instructions and their bytes | `CodeBuffer`, `HostCode`, `Encoder`, `Host`, `Instruction` |
| ELF loader | `riscv_elf.c` | section pointers, data copy | parse, find symbol, look up function | `ElfLoad` |
| Lifecycle | `riscv_jit.c` 113-194 | ownership of mappings, buffers and sockets | init from memory or a file, destroy | `Lifecycle` |
| DWARF lines | `riscv_dwarf.c` | line machine | pc to line | `DwarfLine` |
| Stack trace | `riscv_jit.c` 75-111 | reads the guest's frame chain | walk | `Stacktrace` |
| Test runner, examples, build files | | | drive the library | none |

What makes it hard:

* breakpoints patch code that is about to run, are taken out while one is
  stepped over, and must be back in on *every* way out of that step;
* single-stepping borrows the fuel counter, and has to give it back on every exit;
* an ecall handler may end the session in the middle of a slice;
* the client may send `^C`, repeat itself or vanish at any moment, and packets may
  be damaged in both directions;
* state outlives its purpose: a flag of a former session, `cpu.pc` of an earlier
  exit, an `offset` computed before the client changed the pc, an entry of
  `pc_map` that was never written, a pointer that a failed init has freed;
* one encoder, one decoder and some eighty operations are right or wrong bit by
  bit, at boundaries that tests sample;
* files, stacks and line tables are whatever the guest's tools or the guest made
  of them.

What makes each component correct: the table, the stubs and the patched bytes
agree in every state, and without a session the code is as compiled
(breakpoints); every fault is consumed or reported, fuel bounds every call,
`RISCV_OK` means what it says (dispatcher); a breakpoint stops the guest, a step
runs one instruction, a lost client does not block the host (session); requests
and answers take turns (framing); the guest's memory is one flat array (memory);
an encoding is the instruction the manual defines, and its host code has that
effect (translation); every jump is linked with the right place and no byte is
lost without an error (layout); the guest finds the file's contents, and nothing
is leaked or freed twice (loader, lifecycle); a trace is the call stack with the
line of each call (stack trace).

## Modules

* `Breakpoints` models `gdb_bp_*`, the temporary unpatch, and the start and end
  of a session. The first five bytes of the host code of an instruction are
  abstracted to `code[pc]`: `Orig`, or the stub jumped to; `stub[k]` is the pc
  burnt into a stub, `bp` the table (from 1, so `NoBp = 0` stands for -1). The
  module states the *discipline* under which the table is sound: edits only
  while nothing is unpatched, one entry unpatched at a time. `BpSpec` is the
  abstract specification the dispatcher has to meet.
* `JitCall` extends it with the dispatcher, the guest and the client. A guest
  program is its control flow: `Kind[pc]` says how the host code of an
  instruction behaves (`direct`: linked at compile time; `memory`: may fault;
  `ecall`: calls the host; `indirect`: leaves through the epilogue), `Flow[pc]`
  where control may go. `mode` is where the host thread is: `idle` (outside
  `riscv_jit_call`), `prompt` (in `riscv_gdb_on_stop`; `site` is the call it
  serves), `loop` (head of the loop), `guest` (host code), `exit` (back from the
  trampoline) and `wild` (host code entered or patched at an address that
  nothing wrote: no statement is made about what follows). Between two guest
  instructions the client may act; the body of the loop after the trampoline is
  one action per branch, as nothing can interleave there. Variables that are
  dead in a mode are given one value. Registers and memory are left out, so a
  `memory` instruction may fault or not. The five bytes a patch overwrites always
  belong to one guest instruction, because its host code begins with a 10-byte
  `movabs`. Calls are not nested (an ecall handler does not call
  `riscv_jit_call`), and a session is started between calls only.
* `GdbWire` is the same session seen from the socket. A stream is a sequence of
  tokens (`+`, `-`, `^C`, the `$` of a packet, the rest of it); a request carries
  its number and kind, an answer the number of its request; a packet may be
  damaged on its way. `host` is where the host thread is: at the prompt reading a
  packet, waiting in `gdb_send_packet` for an acknowledgement (where it drops
  every other byte), running with the poll that takes one byte between slices,
  `idle`, or `killed` by `SIGPIPE`. The client is one that keeps to the protocol:
  it repeats a request when `+` is late or `-` comes, and acknowledges what it
  reads. `inStep` turns false where the two part company, and says how.
  `RequestReply` is the promise: ask, handle, answer, take, in turns.
* `GuestMemory` is the data path: the tests `x86_cg_emit_mem_access` compiles in
  front of a load or store (`GuestPlace`: stack, data, and for loads `.text`, in
  this order) and `gdb_translate_guest` (`ClientPlace`: `.text`, stack, data), in
  64-bit arithmetic that wraps, down to the buffer and offset an access reaches.
  `reply` is what the access found; `Accept` lets the guest or client go on.
  `FlatMemory` is what both are promised: one array of bytes.
* `IrTranslate` is the walk of `ir_translate`: `text[a]` says what the half-word
  at `a` begins (its width and the operations its handler emits), `syms` the
  mapping symbols, `dataMap` the bytes they mark, `ir` what the builder holds.
  `CodeBuffer` extends it with `riscv_jit_cg_x86_compile`: an operation is the
  number of bytes it emits (`Bytes`) and the place it leaves to be patched. Every
  check for room and the silent loss of bytes in `x86_cg_emit8` are there.
* `Decode` is the decoder, from the word to the operations its handler pushes, with
  every field and immediate; `Isa` is RV64IMC as the manual lays it out, taken from
  the manual and not from the decoder: tables of fixed fields, and immediates as
  the lists of bits the manual draws (`a ++ b` appends a bit). `HostCode` is
  `emit_instruction`: the host instructions of each operation, with the fuel check,
  the loads and stores with their bounds tests, multiplication, division and jumps.
  `Encoder` is the `x86_cg_` functions: prefixes, ModRM, SIB, displacements,
  immediates and the displacements of local jumps. `Host` is an x86-64 processor:
  it reads bytes back into instructions and, with narrowed registers, executes
  them. `Instruction` puts them together: decode a word, write its operations down,
  execute them. There the bounds tests of `HostCode`, executed, must reach the
  place that `GuestMemory` computes.
* `ElfLoad` has the checks of `riscv_elf_init_from_mem` in their order, the private
  copy of the writable sections and the look-ups. `Lifecycle` runs it inside the
  init functions, which may fail at every allocation, and adds destroy, sessions,
  calls and the host's own buffer. The heap is a set of blocks; a pointer that is
  not null need not point to one. After a misuse of memory nothing is specified
  (`at = "dead"`).
* `DwarfLine` runs line number programs (every opcode that moves a register, as
  operations with their argument); `Stacktrace` walks a stack of any contents and
  asks `ElfLoad` and `DwarfLine` for each pc.
* `MCBreakpoints`, `MCJitCall`, `MCGdbWire`, `MCGuestMemory`, `MCCompile`,
  `MCInstruction`, `MCLifecycle` and `MCStacktrace` instantiate them.
* `JitCallProofs` (with those of `Breakpoints`), `GuestMemoryProofs`,
  `CompileProofs`, `InstructionProofs`, `LifecycleProofs`, `GdbWireProofs` and
  `StacktraceProofs` hold the theorems; `Induction` the facts about the natural
  numbers and sequences that several of them use.

Operators commented *seeded fault* are plausible bugs in the operation that
follows them. They belong to no specification; exchanging one for the operation
makes a named property fail, which shows that the property depends on it.

## Runs

| Run | Shows |
|---|---|
| `breakpoints` | three instructions, an address that is none, three entries, four stubs: table, stubs and code agree after every order of operations; both the table and the stubs run out, and holes occur |
| `jit_call` | a program of a load, an ecall that may loop or leave `.text`, and an indirect jump back, to itself, to a word of data in `.text` or home; two breakpoints, fuel 5, ecall handlers that close the session: the safety of breakpoints, faults, fuel and results, `JitCall` implements `BpSpec`, and under fairness undebugged calls end and a client that has disconnected leaves the host free |
| `gdb_wire` | sessions of four requests of every kind, two damaged packets, one repetition, two `^C`, a client that may leave at any time: `GdbWire` implements `RequestReply` while it is in step, only two things get it out of step, and neither side waits for ever |
| `guest_memory` | four disjoint layouts, one without data, and three overlapping ones: every load, store, `m` and `M` at every address, lengths up to the end of the word; no access leaves its buffer, `.text` stays as it is, and where nothing overlaps the memory implements `FlatMemory` |
| `compile` | every text of four half-words over eight forms, with seven symbol tables, data map or none: the operations are those of the program, none is dropped, code and `pc_map` are where the sizes put them, every jump and fault stub is linked right; each check for room fails for some text |
| `instruction` | all 49152 compressed encodings and 13719 wide ones are decoded to what the instruction set defines; the bytes of each operation are read back as they were meant and fit the room that is asked for; executed, they have the effect of the operation |
| `lifecycle` | seventeen files, good and bad, two inits that fail anywhere, sessions, calls and destroys in every order: memory is misused in three named cases only, nothing is lost, and the guest finds the file's contents |
| `stacktrace` | every stack of six words over six values with four frame pointers, and tables of one or two units in three encodings: the walk reads inside the stack only, finds the calls of a whole chain, and names the line of each |
| `step_runs_on`, `stub_overflow`, `c_jalr`, `bss_refused` | four statements of comments and documents that the code does not keep, each with a counterexample (PROJECT.json, findings) |

The bounds are the smallest in which the cases meet.

* Three instructions allow a breakpoint at, before and behind the current one;
  two table entries allow one to be stepped over while another is set, three a
  hole in the middle; fuel 5 lets a loop be entered twice and then run out in
  every position. A counter of completed instructions (`ran`) stops at 2.
* In `gdb_wire` two damages let a packet be damaged again when it is sent again;
  two `^C` let one cross a stop while the other is answered. One repetition: of
  three copies of a request with a `+` in its text the host carries out two (see
  below), which `RequestReply` does not allow.
* In `GuestMemory` a word has 16 values, the buffers two or three bytes, accesses
  one or two, and lengths reach 15, so that every sum and difference of the code
  wraps for some input; `2 * len` of the packets wraps at 8.
* In `compile` a text of four half-words has every pair of forms next to each
  other, forward and backward branches, data before, between and behind code; the
  buffer's 32 bytes are too few for some of the texts at each check.
* In `instruction` the wide words take every funct3, every funct7 with at most two
  bits set, and for each opcode all bits above it zero, one, one set, two
  neighbours, one clear, so that each bit of each immediate is told from its
  neighbours. Every register is encoded in every place and immediates at the ends
  of one byte, in two environments. Execution is in registers of 8 bits with words
  of 4: 25 operands at the ends of each width, all 256 addresses, three programs
  whose sections are apart, missing, or overlap. The narrowing keeps what the
  properties tell apart (sign, carry, overflow, upper half, truncation), not the
  literal 64.
* In `lifecycle` a second init follows one that failed, was destroyed or neither;
  there is a file for every check of the loader.
* In `stacktrace` rows are equal, adjacent and far apart, the second unit lies below,
  at or above the first and is listed before or after it.

`CHECK_DEADLOCK FALSE` stands where the system really stops: a compilation, an
instruction and a walk end; a session ends when the client has left; a program of
`lifecycle` ends at a misuse, of `jit_call` in mode `wild`.

Fairness. In `JitCall` the host thread executes guest code and dispatcher without
waiting (`WF(Guest)`, `WF(Dispatcher)`), and a read from a closed socket returns,
so that the prompt is left (`WF(inbox = "eof" /\ LeavePrompt)`). In `GdbWire` the
host reads what has arrived (`WF(Host)`), its slices end by fuel if by nothing else
(`WF(Guest)`), and the client reads what it waits for (`WF(Receive)`). Nothing is
assumed of what the client sends, which may stay silent for ever, or of when the
host program calls.

## Proofs

`JitCallProofs` begins with the breakpoint table. `BpSpec => []BpInv` (`BpSpecInv`) is proved for any set of addresses, any table
size and any number of stubs. `CodeIntegrity` alone is not inductive: a removal
restores `saved`, so the invariant says that `saved` is the compiled code; that
needs at most one entry per address (`TableIsConsistent`). A new stub must not
be one in use, hence `slot <= stubUsed`. `gdb_temp_unpatched_bp` keeps its
value when a session closes, so that it is only constrained while attached. All
invariants of the run `breakpoints` and its action property `StubsInUseAreStable`
follow from it.

It then shows that every step of the dispatcher, the guest and the
client is a step of `BpNext` or leaves the table alone (`NextIsBpStep`), that
patched code leads to the stub of an existing breakpoint (`PatchedCodeTraps`),
and that `JitInv` is inductive. Its control part says that a prompt has a client
and nothing unpatched, and that full speed with a client has nothing unpatched.
From it follow the refinement `Spec => BpSpec`, all invariants of the run
`jit_call` and its action properties (`BreakpointsStop`, `OkMeansReturned`,
`FuelOnlyBurns`), for every program, fuel and table. The assumptions are
`BreakpointsAssumption` and `JitCallAssumption`: only types, and that mapped
addresses lie in `.text`.

`GuestMemoryProofs` shows for every word size and layout that what
`GuestPlace` and `ClientPlace` let through lies in one buffer
(`GuestPlaceInBounds`, `ClientPlaceInBounds`), hence `InBounds`, and that a place
in `.text` is never written, hence `TextIsConstant`. It assumes of a layout
(`Sound`) that no section wraps round the end of the address space and that none
ends below the size of an access: with `data_addr + data_size < 8` the code's
`data_hi` would wrap. A linker places neither, and the stack has 1 MiB.

It also shows the refinement: in every layout without an overlap each
step is a step of `FlatMemory` or leaves it alone (`SpecFlatWhereDisjoint`). An
address then lies in one region at most (`ByteAtIs`), so that what is read or written
at a place is what the flat memory has at the address (`PeekIsContents`,
`PokeIsWritten`); the two orders of tests both find a place exactly for what lies in
an open range (`GuestPlaceIs`, `ClientPlaceIs`); and an `m` reply is never cut to
nothing (`ClampedIs`, which needs a packet of three bytes).

`CompileProofs` shows for every program, every size of `.text` and all sizes of
host code that the builder has no more operations than there are bytes behind the
walk (`WalkInv`: a compressed instruction has at most two, a long one three), so
that it drops nothing of an instruction that lies in `.text`; and that no patch
list has more places than operations are emitted (`EmitInv`), so that the writes
without a test stay in their allocation. The assumptions are the types of the
sizes, that an operation keeps to `X86_GUEST_INSTR_MAX_BYTES`, and that handlers of
compressed instructions emit at most one operation, others two. Both are what
`InstructionProofs` proves.

`InstructionProofs` shows `Spec => []FitsTheRoom` for every set of encodings and every
program, where the run has samples. An instruction is translated to at most one
operation if it is compressed and to at most two if not (`TranslateOps`, handler by
handler; the fields of any integer are in their ranges). The host code of an
operation, with any registers, immediate and environment, is at most 224 bytes, the
trampoline 160, the epilogue 256 (`HostCodeFits`). A host instruction takes no more
than its form does (`BytesShort`), and `Takes(code, n, T, L)` says that a piece of
code takes at most `n` bytes, jumps to labels of `T` only and has those of `L`; pieces
add their bounds (`TakesBoth`), up to 193 bytes for a load, the longest operation, and 19
for the clearing of `x0`. Since every jump finds its label in the same operation
(`T = L`), linking takes the labels out and gives each jump a place inside
(`LinkedIs`), and the bytes of the whole are those of its parts (`AssembledFits`).
The bound of 193 is that of the forms; the longest operation that the run writes
has 176. The assumptions are types (`InstructionAssumption`): an encoding is a
half-word or a word, an environment has addresses and sizes.

Its second part shows `Spec => []DecodedAsDefined`: every half-word and every word
that the manual defines is translated to what it means (`TranslateMeans`), where the
run has samples. The decoder cuts an immediate into fields by shifts and masks, the
manual writes it bit by bit; the lemmas `From3` to `From30` and `RunIs` say that a
run of bits written after a number is a field added to its multiple, and the lemmas
`ImmediateI` to `ImmediateSDSP` use them for each of the 18 forms. `WideIs` and
`TableOfOpcode` read the manual's tables off for an opcode, so that each handler is
compared with the few entries it can meet (`LoadIs` to `SystemIs`). The compressed
instructions go by quadrant (`Quadrant0Means`, `Quadrant1Means`, `Quadrant2Means`).
There the two need not agree word for word: the decoder drops what writes `x0` or
changes nothing and has its own forms for moves and branches on zero, so that what is
compared is `Effect` (`EffectOfOne`, `SameShown`, `NoDestination`, `NoChange`).
`c.jalr` is left out, since it is a finding, and so are the words in which the
decoder looks at fewer bits than the manual fixes (`Lenient`, see Known deviations).
`TranslatedFrom`, the inductive invariant, says that what is there has been made by
`Translate` from an encoding of the text.

`IrIsTheProgram` compares the walk, which runs forward and hops over data by the
map, with a program defined backward from the end of `.text` and by the mapping
symbols. That program exists and is unique (`ProgramExists`, `ProgramUnique`, by
induction over the bytes that are left), and `ProgramInv` says that what is
emitted so far, followed by the program from here on, is the whole. For
`BodyIsWhole` and `LinksAreRight` the place of an operation is the sum of the sizes
before it (`SiteSum`). `CodeInv` says that what is emitted ends at the place of the
next operation, that `pc_map` has the place of each instruction entered, and that
the patch lists hold the places of the branches, faults and checks so far, each
once. At the end the lists are patched in one pass, and each place is found
exactly once in them (`PlacesApart`, `FinishLinks`), which is what makes a link
right and no patch overwrite another.

`Induction` is there because the induction theorems of the library take a
predicate as a parameter, which the installed provers do not instantiate. `SetInduction` has
a set in its place and is proved from the well-foundedness of `<` on the naturals;
`Recursion` says that a function defined by steps exists and satisfies its
definition.

`LifecycleProofs` shows `Spec => []MemoryIsSound` for every set of files and any
number of inits, calls, sessions and destroys. What is inductive is which pointers
are valid (`PointersAreValid`): all of them while init runs and while the instance
works; none when it is zero; after a failed init all but the file's, unless the
failure was at the stack or the `pc_map`, whose error paths free `exec_mem` and
`stack_mem` and leave their pointers. A session or an owned file implies a working
instance, so that closing a session writes into memory that is there. `Spec =>
[]NothingIsLost` needs in addition that every block is accounted for (`Accounted`:
it is pointed to, the host's, abandoned, a socket of the session or the builder of a
compilation), that init allocates for a pointer that is still null
(`NotYetAllocated`), and that a file nobody owns is freed or the host's
(`FileIsSettled`). The one assumption of these two is that pointers of different
fields are different blocks, which the naming of blocks gives (`BlocksDiffer`).

`Spec => []ImageIsTheFile` rests on what the loop over the sections leaves
(`DataRegionIsCopy`, by induction over the sections copied): every byte of a
section is the file's, and where sections overlap the later one's. Its invariant
(`ImageInv`) is that from the gathering on the region is the one of the file the
instance was made from. It assumes that addresses, sizes and offsets in the headers are
natural numbers.

`GdbWireProofs` shows `Spec => []OnlyTheseConfuse` for any number of requests,
damaged packets, repetitions and `^C`. That `c`, `s` or `k` are never carried out
twice unless a request was repeated is not inductive; `WireInv` adds, for as
long as nothing is repeated, that there is one copy of the latest request on its way, or a `-` that
asks for it, or it has been carried out (`OneInv`); that requests under way have
numbers that were not handled (`NewInv`); and that host and client agree when
acknowledgements end (`AgreeInv`): the host stops when its answer to
`QStartNoAckMode` is acknowledged, the client when it takes it, and nothing that needs
an acknowledgement is on its way between the two.

The same module proves the refinement of `RequestReply` for as long as no request
has been repeated: every such step is a step of `RequestReply` or leaves its
variables alone (`SpecTurnsUntilRepeated`), for any number of requests, damaged packets
and `^C`. Where the client repeats nothing at all (`MaxRepeated = 0`, which is
gdb with packets that are never late) that is `Spec => TakesTurns`
(`SpecTakesTurns`). Its invariant is `TurnInv`. `Counts` relates the client's state to what was
asked, answered and taken; `ReplyInv`: the one answer under way is that to the latest
request; `AwaitInv`: the host waits for an acknowledgement exactly as long as an
answer, a `+` or a `-` is under way, and what it drops while it waits is not the request
(a `+` is ahead of every request, so that no byte of its text is taken for one);
`ClientInv`: a client gets the `+` of its request before the answer, and its `^C` goes
ahead of the `+` that ends the host's waiting; `ModeInv`: when each of the two stops acknowledging.
`RepeatCounts` shows that a step after which nothing was repeated is no repetition, so
that the hypothesis is about the past of the behaviour and not about the step.

`StacktraceProofs` shows `Spec => []TraceIsTheCallStack` for every depth, size and
content of the stack. `StackInv` says that the walk has read inside of the stack
only and, where the words form a whole chain, that what it has reported is the first part of it
and that it stands on the frame after that; a chain's addresses ascend, so
that no frame is met twice and the chain is its set in order (`AscendingIs`). It
assumes that the words of the stack and the registers are natural numbers
(`StacktraceAssumption`).

Its second part shows `Spec => []LocationIsTheRow` for tables of any number of units,
sequences and rows, in every encoding. `Exec` runs a list of operations one by one;
running two lists is running the second after the first (`ExecConcat`), and a
machine that has ended stays (`ExecEnded`). The operations of one row, in each of
its four forms, lead from the row before to this one (`RowIs`; a special opcode's quotient
and remainder give back the steps it was made of, `SpecialIs`), hence those of a
unit through the rows of its first sequence and its end (`UnitRun`). What is kept is
then a matter of distances: the row wanted is nearer than all before it and not
farther than any behind it (`RowForIs`, `RunFinds`), and a unit that lies apart has
nothing that is nearer (`ApartFar`), so that units listed before leave a farther
match and units listed behind change nothing (`LookupFinds`). It assumes
(`LinesAssumption`) that the table is an assembler's: rows in the order of their
addresses, none behind the end of the sequence, programs made of the operations of
those rows, `minimum_instruction_length` 1 as on RISC-V, addresses below the
distance that means "none".

Only model-checked: that the bytes of host code are read back as the instructions
they were made from (`HostCodeIsRead`), and that executed they compute what an
operation means, bit operations of any width included (`ResultIsTheMeaning`); the
refinement of `RequestReply` after a request was repeated, which holds for the one
repetition of the run `gdb_wire` and not for more (see Known deviations); the
liveness properties `UndebuggedCallsEnd`, `DisconnectFreesHost` and `Answered`, which
are out of the provers' reach; and the four counterexamples.

## Known deviations

Besides the four findings, the modelling met the following. The models behave as
the code does; no property forbids it.

Calls and sessions:

* A slice that was lent fuel gives all of it back (`riscv_jit.c:239`; the comment
  above it says "minus what we actually spent"): a guest that is only stepped never
  times out.
* A branch out of `.text` reaches the dispatcher with the `cpu.pc` of an earlier exit
  and the guest goes on there; an entry of `pc_map` that was never written is read as
  an offset, so that a jump into data enters host code anywhere (mode `wild`).
* `riscv_gdb_rearm_breakpoints` (`riscv_gdb.h:21`) has no caller; what a step over an
  indirect jump took out of the code is back one slice late, for the same reason as
  in `step_runs_on`.
* After `k` or `D` the session stays attached, and later calls stop at a prompt.
* A `^C` that crosses a stop gets a stop reply of its own; a client without
  acknowledgements takes it for its next answer, and from then on the poll may eat
  the `$` of a request.
* While it waits for an acknowledgement `gdb_send_packet` takes a `+` in the text of a
  packet for one (`qSupported` has one): a repeated request can so acknowledge a
  damaged answer, or be carried out twice. A `c`, `s` or `k` repeated late is carried
  out by the next call.
* A guest function that returns tells the client nothing; the next call waits at the
  prompt just as silently, and only a `^C` frees the two.
* Writing to a client that is gone raises `SIGPIPE`, whose disposition is the host
  program's.
* Packets longer than `GDB_PACKET_CAP` are refused; without acknowledgements they end
  the session.

Translation:

* Fields that the manual fixes are not all tested: the upper bits of SLLI, funct3 of
  JALR and FENCE, registers of ECALL and EBREAK. Reserved compressed encodings are
  taken some way. `c.jr` does not clear bit 0 of its target.
* A load to `x0` is dropped, so that it never faults.
* Loads and stores of floating point end the guest (UD2).
* `x86_cg_setcc_r8` and byte stores drop the bare REX prefix for RSP to RDI; only RAX is
  used there, so that it is not reached.

Memory, files and traces:

* Destroying an instance whose init failed for want of a stack or `pc_map` frees twice;
  the examples and the test runner never destroy after a failure, so that other
  failures leak. A builder without memory is written through a null pointer.
* `find_sym` takes the first symbol of a name, of any kind or binding.
* Of several line rows at one address the first is kept (`riscv_dwarf.c:353`); the end
  row of a unit listed earlier hides the first row of a unit that it touches; only the
  first sequence of a unit is run (`riscv_dwarf.c:458`); a pc behind a sequence gets its
  last line; units of DWARF 5 are skipped, a 64-bit unit ends the look-up.
* The outermost caller, whose own frame pointer is zero, is not reported.

## Plan

What is left, in the order of its worth:

1. Nested calls from an ecall handler, and an ecall handler that destroys the
   instance: the repository does not say whether either is allowed.
2. Texts whose last instruction is cut off, and sections that wrap.
3. Proofs: the refinement of `RequestReply` with one repetition.

## Not modelled

The parsing of LEB128 and of `.debug_info`, the joining of paths and the cache of source
files; register packets, which copy values; setters and accessors, which store what
they are given. The host code of an ecall, the pushes and pops of the trampoline and the
fuel check are read back as bytes but executed only as the abstract steps of `JitCall`.
The test runner forks one process per test file and compares results; the examples and the
build files use the library. None of them adds state to it.
