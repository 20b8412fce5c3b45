----------------------------- MODULE Stacktrace -----------------------------
(***************************************************************************)
(* riscv_jit_get_stacktrace: the walk along the frame pointers of a guest  *)
(* that has stopped, which may have left anything on its stack.            *)
(*                                                                         *)
(* Addresses of the stack are counted in words: a frame pointer fp has the *)
(* return address in word fp - 1 and the caller's frame pointer in fp - 2. *)
(***************************************************************************)
EXTENDS ElfLoad, DwarfLine

CONSTANTS
  StackSize,   \* in words
  MaxDepth,    \* RISCV_MAX_STACKTRACE_DEPTH
  AddressEnd,  \* 2^64: addresses wrap here
  Inputs,      \* stopped guests: stack, pc, fp and table of lines
  Syms         \* the symbol table

ASSUME StacktraceAssumption ==
  /\ StackSize \in Nat /\ MaxDepth \in Nat \ {0} /\ AddressEnd \in Nat \ {0}
  /\ \A g \in Inputs : g.stack \in [0..StackSize - 1 -> Nat] /\ g.pc \in Nat /\ g.fp \in Nat

(* The lines come from an assembler *)
ASSUME LinesAssumption ==
  /\ \A g \in Inputs : Len(g.lines) \in Nat /\ DOMAIN g.lines = 1..Len(g.lines)
  /\ \A unit \in UNION {{g.lines[j] : j \in DOMAIN g.lines} : g \in Inputs} : IsUnit(unit)

LinkSize == 2    \* RISCV_FRAME_LINK_SIZE
InstrBytes == 4  \* RV_INSTR_BYTES

VARIABLES
  guest,  \* the guest that has stopped
  pc, fp, \* current_pc, fp
  trace,  \* the frames found
  reads,  \* the words of the stack that were read
  done

vars == <<guest, pc, fp, trace, reads, done>>

Init ==
  /\ guest \in Inputs
  /\ pc = guest.pc /\ fp = guest.fp
  /\ trace = <<>> /\ reads = {} /\ done = FALSE

PushFrame ==
  /\ ~done /\ Len(trace) < MaxDepth
  /\ trace' = Append(trace, [pc |-> pc, func |-> LookupFunc(Syms, pc), loc |-> LookupPc(guest.lines, pc)])
  /\ UNCHANGED guest

(* Seeded fault: a frame pointer is only tested at its upper end *)
IsFrameUpTo(p) == p > 0 /\ p <= StackSize

IsFrame(p) == p >= LinkSize /\ p <= StackSize

Word(k) == IF k \in DOMAIN guest.stack THEN guest.stack[k] ELSE 0
ReturnAddress == Word(fp - 1)
Previous == Word(fp - 2)
Reads == reads' = reads \cup {fp - 1, fp - 2}
CallerPc == (ReturnAddress - InstrBytes) % AddressEnd

NoFrame ==
  /\ PushFrame /\ ~IsFrame(fp)
  /\ done' = TRUE
  /\ UNCHANGED <<pc, fp, reads>>

(* A return address of zero: the host has called this function *)
Outermost ==
  /\ PushFrame /\ IsFrame(fp) /\ ReturnAddress = 0
  /\ Reads /\ done' = TRUE
  /\ UNCHANGED <<pc, fp>>

(* Frames lie at ever higher addresses.  When the next one does not, the    *)
(* return address that was read is not reported any more.                   *)
Continues == Previous # 0 /\ Previous > fp /\ Previous <= StackSize

EndOfChain ==
  /\ PushFrame /\ IsFrame(fp) /\ ReturnAddress # 0 /\ ~Continues
  /\ Reads /\ pc' = CallerPc /\ done' = TRUE
  /\ UNCHANGED fp

Follow ==
  /\ PushFrame /\ IsFrame(fp) /\ ReturnAddress # 0 /\ Continues
  /\ Reads /\ pc' = CallerPc /\ fp' = Previous
  /\ UNCHANGED done

DepthReached ==
  /\ ~done /\ Len(trace) = MaxDepth
  /\ done' = TRUE
  /\ UNCHANGED <<guest, pc, fp, trace, reads>>

Next == NoFrame \/ Outermost \/ EndOfChain \/ Follow \/ DepthReached

Spec == Init /\ [][Next]_vars
-----------------------------------------------------------------------------
(* The frame pointers of a whole chain of calls: each frame points to that  *)
(* of its caller, higher up, and only the outermost, which the host called, *)
(* has no return address.                                                   *)
At(k) == guest.stack[k]
IsChain(fps) ==
  /\ \A i \in 1..Len(fps) - 1 : At(fps[i] - 2) = fps[i + 1] /\ At(fps[i] - 1) # 0
  /\ At(fps[Len(fps)] - 1) = 0

Ascending(S) == [i \in 1..Cardinality(S) |-> CHOOSE x \in S : Cardinality({y \in S : y < x}) = i - 1]

Chains ==
  IF IsFrame(guest.fp)
  THEN {c \in {Ascending({guest.fp} \cup s) : s \in SUBSET (guest.fp + 1..StackSize)} : IsChain(c)}
  ELSE {}

(* The instructions that are being executed: the current one, and every     *)
(* call whose function has not returned, which is the four bytes before its *)
(* return address.                                                          *)
CallStack(fps) ==
  <<guest.pc>> \o [i \in 1..Len(fps) - 1 |-> (At(fps[i] - 1) - InstrBytes) % AddressEnd]

Pcs == [i \in DOMAIN trace |-> trace[i].pc]

(* The trace of a whole chain is its call stack, innermost first, cut off   *)
(* at 32 frames; and whatever the guest has left on its stack or in its     *)
(* frame pointer, the walk reads inside of the stack only.                  *)
TraceIsTheCallStack ==
  /\ reads \subseteq 0..StackSize - 1
  /\ done => \A fps \in Chains : Pcs = SubSeq(CallStack(fps), 1, Min({MaxDepth, Len(fps)}))

(* The line given for an address is that of the last row at or before it,   *)
(* of the sequence it lies in, however the rows are encoded.  Promised for  *)
(* the first sequence of a unit and for sequences that do not overlap.  Of  *)
(* several rows at one address the first counts, and the end of a sequence  *)
(* that is listed before hides the row it touches.                          *)
Known(u) == u.version <= MaxVersion
SequenceOf(u) == u.seqs[1]
Starts(u) == SequenceOf(u).rows[1].addr
Stops(u) == SequenceOf(u).end
Covers(u, a) == Known(u) /\ Starts(u) <= a /\ a < Stops(u)
Apart(u, v) == Stops(u) <= Starts(v) \/ Stops(v) <= Starts(u)

RowFor(u, a) ==
  LET rows   == SequenceOf(u).rows
      before == {k \in DOMAIN rows : rows[k].addr <= a}
      last   == Max({rows[k].addr : k \in before})
  IN rows[Min({k \in before : rows[k].addr = last})]

LocationIsTheRow ==
  \A i \in DOMAIN trace, j \in DOMAIN guest.lines :
    LET u   == guest.lines[j]
        a   == trace[i].pc
        row == RowFor(u, a)
        Hidden == \E k \in 1..j - 1 : Known(guest.lines[k]) /\ Stops(guest.lines[k]) = row.addr
    IN /\ Covers(u, a) /\ row.file <= u.files /\ ~Hidden
       /\ \A k \in DOMAIN guest.lines :
            guest.lines[k].format = 32 /\ (k # j /\ Known(guest.lines[k]) => Apart(u, guest.lines[k]))
       => trace[i].loc = [diff |-> a - row.addr, unit |-> u.name, file |-> row.file, line |-> row.line]
=============================================================================
