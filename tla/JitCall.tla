------------------------------ MODULE JitCall ------------------------------
(***************************************************************************)
(* One JIT instance: riscv_jit_call (riscv_jit.c), the host code it enters *)
(* (riscv_jit_cg_x86.c) and the debugger that may hold it (riscv_gdb.c).   *)
(*                                                                         *)
(* The library is single-threaded: what interleaves is the guest, which    *)
(* runs one instruction per step, and the gdb client behind its socket.    *)
(* The program is abstracted to its control flow.  Registers and memory    *)
(* are left out: a load or a store is an instruction that may fault.       *)
(***************************************************************************)
EXTENDS Breakpoints

CONSTANTS
  Text,         \* the addresses jit_pc_is_in_text accepts
  Symbols,      \* what riscv_elf_find_sym may return, 0 when there is no symbol
  Kind,         \* Kind[pc]: "direct", "memory", "ecall" or "indirect"
  Flow,         \* Flow[pc]: where control may go after the instruction at pc
  InitialFuel,  \* JIT_INITIAL_FUEL
  HostMayClose  \* whether an ecall handler may call riscv_jit_gdb_close

Halt == 0       \* cpu.pc when the guest has returned to its caller: ra is 0 at the call
DebugFuel == 2  \* the fuel of a slice that runs one instruction (riscv_jit.c:232)

Kinds == {"direct", "memory", "ecall", "indirect"}

ASSUME JitCallAssumption ==
  /\ Mapped \subseteq Text /\ Text \subseteq Pcs
  /\ Halt \notin Pcs
  /\ Symbols \subseteq Pcs \cup {Halt}
  /\ Kind \in [Mapped -> Kinds]
  /\ Flow \in [Mapped -> SUBSET (Pcs \cup {Halt})]
  /\ \A pc \in Mapped : Kind[pc] # "indirect" => Flow[pc] \subseteq Pcs
  /\ InitialFuel \in Nat \ {0}
  /\ HostMayClose \in BOOLEAN

VARIABLES
  mode,          \* where the host thread is, see Modes
  site,          \* at the prompt: which call of riscv_gdb_on_stop it serves
  at,            \* the guest instruction whose host code runs next
  offset,        \* the local `offset`, as the guest pc whose host code it is
  pc,            \* cpu.pc
  fuel,          \* cpu.fuel
  fault,         \* cpu.fault
  debugging,     \* the local `debugging`
  savedFuel,     \* gdb_saved_fuel
  stepping,      \* gdb_stepping
  shouldDetach,  \* gdb_should_detach
  inbox,         \* what the client's socket has for the poll: nothing, ^C, end of file
  result,        \* what the last riscv_jit_call returned
  handled,       \* the fault it gave to the fault handler
  ran            \* history: instructions completed since the guest was resumed, 2 for more

runVars  == <<mode, site, at, offset, pc, fuel, fault, debugging, savedFuel,
              stepping, shouldDetach, inbox, result, handled, ran>>
vars == <<bpVars, runVars>>

Modes  == {"idle", "prompt", "loop", "guest", "exit", "wild"}
Sites  == {"entry", "trap", "step", "fault", "async"}
Faults == {"none", "timeout", "access", "debug"}

JitTypeOK ==
  /\ TypeOK
  /\ mode \in Modes /\ site \in Sites
  /\ at \in Pcs \cup {Halt} /\ offset \in Pcs \cup {Halt} /\ pc \in Pcs \cup {Halt}
  /\ mode = "guest" => at \in Mapped
  /\ mode = "loop" => offset \in Mapped
  /\ fuel \in Nat /\ savedFuel \in Nat
  /\ fault \in Faults /\ handled \in Faults
  /\ debugging \in BOOLEAN /\ stepping \in BOOLEAN /\ shouldDetach \in BOOLEAN
  /\ inbox \in {"quiet", "intr", "eof"}
  /\ result \in {"none", "ok", "badpc"}
  /\ ran \in 0..2

Init ==
  /\ BpInit
  /\ mode = "idle" /\ site = "entry"
  /\ at = Halt /\ offset = Halt /\ pc = Halt
  /\ fuel = 0 /\ savedFuel = 0
  /\ fault = "none" /\ handled = "none"
  /\ debugging = FALSE /\ stepping = FALSE /\ shouldDetach = FALSE
  /\ inbox = "quiet" /\ result = "none" /\ ran = 0
-----------------------------------------------------------------------------
(* riscv_jit_call returns *)
Return(r) == mode' = "idle" /\ result' = r /\ offset' = Halt

(* Seeded fault: the offset that was looked up is not checked *)
DispatchUnchecked(p) ==
  /\ mode' = "loop" /\ offset' = p
  /\ UNCHANGED result

(* Control reaches the host code that pc_map gives for p.  pc_map is        *)
(* malloc'ed and filled for instruction starts only: for another address    *)
(* of .text it holds whatever the allocator left there.  A zero is noticed  *)
(* by the dispatcher, anything else sends the host into the middle of code. *)
Dispatch(p) ==
  \/ /\ p \in Mapped
     /\ mode' = "loop" /\ offset' = p
     /\ UNCHANGED result
  \/ /\ p \notin Mapped
     /\ Return("badpc")
  \/ /\ p \in Text \ Mapped
     /\ mode' = "wild" /\ offset' = p
     /\ UNCHANGED result

(* Seeded fault: the client is talked to without rearming *)
StopUnarmed(s) ==
  /\ mode' = "prompt" /\ site' = s
  /\ UNCHANGED <<bpVars, result>>

(* riscv_gdb_on_stop up to its packet loop, when a client is attached *)
Stop(s) ==
  /\ RearmTemp
  /\ mode' = "prompt" /\ site' = s
  /\ UNCHANGED result
-----------------------------------------------------------------------------
(* riscv_jit_gdb_wait_for_client, which is called between calls *)
WaitForClient ==
  /\ mode = "idle"
  /\ Attach
  /\ stepping' = FALSE /\ shouldDetach' = FALSE
  /\ inbox' = "quiet"
  /\ UNCHANGED <<mode, site, at, offset, pc, fuel, fault, debugging, savedFuel, result, handled, ran>>

(* riscv_jit_gdb_close, between calls *)
GdbClose ==
  /\ mode = "idle"
  /\ Close
  /\ inbox' = "quiet"
  /\ UNCHANGED <<mode, site, at, offset, pc, fuel, fault, debugging, savedFuel, stepping,
                 shouldDetach, result, handled, ran>>

(* riscv_jit_call down to its loop *)
Call(sym) ==
  /\ mode = "idle"
  /\ handled' = "none"
  /\ \/ /\ sym \notin Mapped
        /\ Return("badpc")
        /\ UNCHANGED <<bpVars, site, pc, fuel, fault, ran>>
     \/ /\ sym \in Text
        /\ pc' = sym /\ offset' = sym
        /\ fuel' = InitialFuel /\ fault' = "none"
        /\ ran' = 0
        /\ result' = "none"
        /\ \/ attached /\ RearmTemp /\ mode' = "prompt" /\ site' = "entry"
           \/ /\ ~attached
              /\ mode' = IF sym \in Mapped THEN "loop" ELSE "wild"
              /\ UNCHANGED <<bpVars, site>>
  /\ UNCHANGED <<at, debugging, savedFuel, stepping, shouldDetach, inbox>>

(* Seeded faults: stepping over a breakpoint is not a debugged slice; every *)
(* slice starts with the initial fuel.                                      *)
EnterOnlyStepping ==
  /\ mode = "loop"
  /\ debugging' = (attached /\ stepping)
  /\ IF debugging'
     THEN savedFuel' = fuel /\ fuel' = DebugFuel
     ELSE UNCHANGED <<savedFuel, fuel>>
  /\ mode' = "guest" /\ at' = offset /\ offset' = Halt
  /\ UNCHANGED <<bpVars, site, pc, fault, stepping, shouldDetach, inbox, result, handled, ran>>

EnterRefuels ==
  /\ mode = "loop"
  /\ debugging' = (attached /\ (stepping \/ temp # NoBp))
  /\ savedFuel' = IF debugging' THEN fuel ELSE savedFuel
  /\ fuel' = IF debugging' THEN DebugFuel ELSE InitialFuel
  /\ mode' = "guest" /\ at' = offset /\ offset' = Halt
  /\ UNCHANGED <<bpVars, site, pc, fault, stepping, shouldDetach, inbox, result, handled, ran>>

(* The head of the loop: one slice of host code is entered at `offset` *)
Enter ==
  /\ mode = "loop"
  /\ debugging' = (attached /\ (stepping \/ temp # NoBp))
  /\ IF debugging'
     THEN savedFuel' = fuel /\ fuel' = DebugFuel
     ELSE UNCHANGED <<savedFuel, fuel>>
  /\ mode' = "guest" /\ at' = offset /\ offset' = Halt
  /\ UNCHANGED <<bpVars, site, pc, fault, stepping, shouldDetach, inbox, result, handled, ran>>
-----------------------------------------------------------------------------
(* Host code. *)

(* The instruction is patched: its trap stub runs *)
Trap ==
  /\ mode = "guest" /\ code[at] # Orig
  /\ pc' = stub[code[at]] /\ fault' = "debug"
  /\ mode' = "exit"
  /\ UNCHANGED <<bpVars, site, at, offset, fuel, debugging, savedFuel, stepping,
                 shouldDetach, inbox, result, handled, ran>>

(* The fuel check in front of every instruction sends it to its timeout stub *)
OutOfFuel ==
  /\ mode = "guest" /\ code[at] = Orig
  /\ fuel <= 1
  /\ fuel' = 0
  /\ pc' = at /\ fault' = "timeout"
  /\ mode' = "exit"
  /\ UNCHANGED <<bpVars, site, at, offset, debugging, savedFuel, stepping,
                 shouldDetach, inbox, result, handled, ran>>

(* The compiled instruction at `at` passes its fuel check *)
Executes ==
  /\ mode = "guest" /\ code[at] = Orig
  /\ fuel > 1
  /\ fuel' = fuel - 1
  /\ UNCHANGED <<site, offset, debugging, savedFuel, stepping, shouldDetach, result, handled>>

Completes == ran' = IF ran < 2 THEN ran + 1 ELSE 2

(* A load or store outside the guest's memory: its fault stub runs *)
MemoryFault ==
  /\ Executes
  /\ Kind[at] = "memory"
  /\ pc' = at /\ fault' = "access"
  /\ mode' = "exit"
  /\ UNCHANGED <<bpVars, at, inbox, ran>>

(* Fall-through and direct branches are linked at compile time: to the host *)
(* code of the target, or to the epilogue when the target is outside .text. *)
(* cpu.pc is not written.  An ecall handler may end the debug session.      *)
RunDirect(target) ==
  /\ Executes
  /\ Kind[at] # "indirect"
  /\ target \in Flow[at]
  /\ at' = target
  /\ mode' = IF target \in Mapped THEN "guest" ELSE IF target \in Text THEN "wild" ELSE "exit"
  /\ \/ UNCHANGED <<bpVars, inbox>>
     \/ HostMayClose /\ Kind[at] = "ecall" /\ Close /\ inbox' = "quiet"
  /\ Completes
  /\ UNCHANGED <<pc, fault>>

(* JALR and JMP_REG store the target and leave through the epilogue *)
RunIndirect(target) ==
  /\ Executes
  /\ Kind[at] = "indirect"
  /\ target \in Flow[at]
  /\ pc' = target
  /\ mode' = "exit"
  /\ Completes
  /\ UNCHANGED <<bpVars, at, fault, inbox>>
-----------------------------------------------------------------------------
(* The rest of the loop body, after the trampoline has returned. *)

(* Every branch starts by restoring "the fuel we borrowed", all of it.  The *)
(* locals of the slice, and gdb_saved_fuel, are dead from here on.          *)
RestoreFuel ==
  /\ fuel' = IF debugging THEN savedFuel ELSE fuel
  /\ debugging' = FALSE /\ savedFuel' = 0 /\ at' = Halt

(* Seeded fault: the fault of a trap is not cleared *)
ExitTrapKeepsFault ==
  /\ mode = "exit" /\ fault = "debug"
  /\ RestoreFuel
  /\ \/ attached /\ Stop("trap") /\ UNCHANGED <<offset, handled>>
     \/ ~attached /\ handled' = "debug" /\ Return("ok") /\ UNCHANGED <<bpVars, site>>
  /\ UNCHANGED <<pc, fault, stepping, shouldDetach, inbox, ran>>

(* RISCV_FAULT_DEBUG: a breakpoint *)
ExitTrap ==
  /\ mode = "exit" /\ fault = "debug"
  /\ RestoreFuel
  /\ fault' = "none"
  /\ \/ attached /\ Stop("trap") /\ UNCHANGED <<offset, handled>>
     \/ /\ ~attached /\ handled' = "debug" /\ Return("ok")
        /\ UNCHANGED <<bpVars, site>>
  /\ UNCHANGED <<pc, stepping, shouldDetach, inbox, ran>>

(* RISCV_FAULT_TIMEOUT of a debugged slice: the borrowed fuel ran out, one  *)
(* instruction later.  The breakpoint that was stepped over is armed again, *)
(* so that riscv_gdb_on_stop finds nothing left to rearm.                   *)
ExitStep ==
  /\ mode = "exit" /\ fault = "timeout" /\ debugging
  /\ RestoreFuel
  /\ fault' = "none"
  /\ stepping' = FALSE
  /\ IF temp # NoBp THEN Repatch(bp[temp].pc) ELSE UNCHANGED bpVars
  /\ \/ /\ stepping /\ attached
        /\ mode' = "prompt" /\ site' = "step"
        /\ UNCHANGED <<offset, result>>
     \/ /\ ~(stepping /\ attached)
        /\ Dispatch(pc)
        /\ UNCHANGED site
  /\ UNCHANGED <<pc, shouldDetach, inbox, handled, ran>>

(* Any other fault ends the call, under a debugger after one more prompt *)
ExitFault ==
  /\ mode = "exit"
  /\ fault = "access" \/ (fault = "timeout" /\ ~debugging)
  /\ RestoreFuel
  /\ \/ attached /\ Stop("fault") /\ UNCHANGED <<offset, handled>>
     \/ ~attached /\ handled' = fault /\ Return("ok") /\ UNCHANGED <<bpVars, site>>
  /\ UNCHANGED <<pc, fault, stepping, shouldDetach, inbox, ran>>

(* The guest function has returned *)
ExitReturn ==
  /\ mode = "exit" /\ fault = "none" /\ pc = Halt
  /\ RestoreFuel
  /\ Return("ok")
  /\ UNCHANGED <<bpVars, site, pc, fault, stepping, shouldDetach,
                 inbox, handled, ran>>

(* riscv_gdb_poll_async sees a byte or an end of file *)
AsyncStop == attached /\ inbox # "quiet"

(* Seeded fault: gdb_should_detach is honoured without a session *)
ExitIndirectStaleDetach ==
  /\ mode = "exit" /\ fault = "none" /\ pc # Halt
  /\ RestoreFuel
  /\ IF shouldDetach THEN Return("ok") ELSE Dispatch(pc)
  /\ UNCHANGED <<bpVars, site, pc, fault, stepping, shouldDetach, inbox, handled, ran>>

(* The host code left with another pc: the loop goes on there, unless the *)
(* client has asked for a stop or has gone                                *)
ExitIndirect ==
  /\ mode = "exit" /\ fault = "none" /\ pc # Halt
  /\ RestoreFuel
  /\ \/ /\ AsyncStop /\ pc \in Text
        /\ offset' = pc
        /\ Stop("async")
        /\ shouldDetach' = (shouldDetach \/ inbox = "eof")
        /\ inbox' = IF inbox = "intr" THEN "quiet" ELSE inbox
     \/ /\ AsyncStop /\ pc \notin Mapped
        /\ Return("badpc")
        /\ UNCHANGED <<bpVars, site, shouldDetach, inbox>>
     \/ /\ ~AsyncStop
        /\ IF attached /\ shouldDetach /\ pc \in Text
           THEN Return("ok") \/ (pc \notin Mapped /\ Return("badpc"))
           ELSE Dispatch(pc)
        /\ UNCHANGED <<bpVars, site, shouldDetach, inbox>>
  /\ UNCHANGED <<pc, fault, stepping, handled, ran>>
-----------------------------------------------------------------------------
(* The packet loop of riscv_gdb_on_stop: a packet is one step. *)

AtPrompt == mode = "prompt" /\ inbox = "quiet"

(* Z0.  At an address of .text that starts no instruction the jump is       *)
(* written wherever pc_map happens to point: all bets are off.              *)
InsertBreakpoint(p) ==
  /\ AtPrompt
  /\ \/ Install(p) /\ UNCHANGED mode
     \/ /\ p \in Text \ Mapped /\ HasRoom
        /\ mode' = "wild"
        /\ UNCHANGED bpVars
  /\ UNCHANGED <<site, at, offset, pc, fuel, fault, debugging, savedFuel,
                 stepping, shouldDetach, inbox, result, handled, ran>>

RemoveBreakpoint(p) ==
  /\ AtPrompt
  /\ Remove(p)
  /\ UNCHANGED runVars

(* P and G *)
WritePc(p) ==
  /\ AtPrompt
  /\ pc' = p
  /\ UNCHANGED <<bpVars, mode, site, at, offset, fuel, fault, debugging, savedFuel, stepping,
                 shouldDetach, inbox, result, handled, ran>>

(* Seeded fault: a failing read of the next packet is tried again *)
LeavePromptOnRequest ==
  /\ AtPrompt
  /\ shouldDetach' = TRUE
  /\ Return("ok")
  /\ site' = "entry"
  /\ UNCHANGED <<bpVars, at, pc, fuel, fault, debugging, savedFuel, stepping, inbox, handled, ran>>

(* k, D, or the end of file the client leaves behind *)
LeavePrompt ==
  /\ mode = "prompt" /\ inbox # "intr"
  /\ shouldDetach' = TRUE
  /\ Return("ok")
  /\ site' = "entry"
  /\ UNCHANGED <<bpVars, at, pc, fuel, fault, debugging, savedFuel, stepping, inbox, handled, ran>>

(* A ^C that arrives at the prompt is answered and changes nothing *)
IgnoreInterrupt ==
  /\ mode = "prompt" /\ inbox = "intr"
  /\ inbox' = "quiet"
  /\ UNCHANGED <<bpVars, mode, site, at, offset, pc, fuel, fault, debugging, savedFuel,
                 stepping, shouldDetach, result, handled, ran>>

(* c, s and vCont, with p the address given or cpu.pc: riscv_gdb_on_stop     *)
(* returns true.  What riscv_jit_call does next depends on where it stopped. *)
Resume(step, p) ==
  /\ AtPrompt
  /\ stepping' = step
  /\ pc' = p
  /\ ran' = 0
  /\ \/ /\ site = "entry"
        /\ mode' = IF offset \in Mapped THEN "loop" ELSE "wild"
        /\ UNCHANGED <<bpVars, offset, result>>
     \/ site = "trap" /\ TempUnpatch(p) /\ Dispatch(p)
     \/ site = "step" /\ Dispatch(p) /\ UNCHANGED bpVars
     \/ site = "fault" /\ Return("ok") /\ UNCHANGED bpVars
     \/ /\ site = "async"
        /\ IF shouldDetach
           THEN Return("ok")
           ELSE /\ mode' = IF offset \in Mapped THEN "loop" ELSE "wild"
                /\ UNCHANGED <<offset, result>>
        /\ UNCHANGED bpVars
  /\ site' = "entry"
  /\ UNCHANGED <<at, fuel, fault, debugging, savedFuel, shouldDetach, inbox, handled>>

(* The client's side of the socket *)
ClientSends(b) ==
  /\ attached /\ inbox = "quiet"
  /\ inbox' = b
  /\ UNCHANGED <<bpVars, mode, site, at, offset, pc, fuel, fault, debugging, savedFuel,
                 stepping, shouldDetach, result, handled, ran>>
-----------------------------------------------------------------------------
Host ==
  \/ WaitForClient
  \/ GdbClose
  \/ \E sym \in Symbols : Call(sym)

Guest ==
  \/ Trap
  \/ OutOfFuel
  \/ MemoryFault
  \/ \E target \in Pcs \cup {Halt} : RunDirect(target) \/ RunIndirect(target)

Dispatcher == Enter \/ ExitTrap \/ ExitStep \/ ExitFault \/ ExitReturn \/ ExitIndirect

Client ==
  \/ \E p \in Pcs : InsertBreakpoint(p) \/ RemoveBreakpoint(p)
  \/ \E p \in Pcs \cup {Halt} : WritePc(p)
  \/ \E step \in BOOLEAN, p \in Pcs \cup {pc} : Resume(step, p)
  \/ \E b \in {"intr", "eof"} : ClientSends(b)
  \/ LeavePrompt
  \/ IgnoreInterrupt

Next == Host \/ Guest \/ Dispatcher \/ Client

Spec == Init /\ [][Next]_vars

(* The host thread runs the guest and the dispatcher without waiting for    *)
(* anyone, and a closed socket is read as an end of file.  Neither the host *)
(* program nor the client has to do anything.                               *)
Fairness ==
  /\ WF_vars(Guest)
  /\ WF_vars(Dispatcher)
  /\ WF_vars(inbox = "eof" /\ LeavePrompt)

FairSpec == Spec /\ Fairness
-----------------------------------------------------------------------------
(* A RISCV_FAULT_DEBUG is never given to the fault handler ("this is        *)
(* swallowed and is actually never sent to your handler!", riscv_jit.h:85): *)
(* the branch of riscv_jit_call that would do it is dead, whenever the      *)
(* session is closed.                                                       *)
DebugNeverHandled == handled # "debug"

(* Every trap is a breakpoint that is set, reported with its own address *)
TrapIsABreakpoint ==
  mode = "exit" /\ fault = "debug" => attached /\ at \in Mapped /\ pc = at /\ Found(pc)

(* While the client is talked to, every breakpoint is in the code: nothing  *)
(* is left unpatched by the step that led to the stop.                      *)
PromptIsArmed ==
  mode = "prompt" => /\ attached /\ temp = NoBp
                     /\ \A i \in Live : code[bp[i].pc] = bp[i].slot

(* The guest runs at full speed only with every breakpoint in the code: a   *)
(* breakpoint is out of the code in slices of one instruction only.         *)
FullSpeedIsArmed ==
  mode = "guest" /\ ~debugging => \A i \in Live : code[bp[i].pc] = bp[i].slot

(* A fault is consumed before the guest runs on: no slice is entered, and   *)
(* no stop but the one that reports it is made, with a fault still set.     *)
FaultIsConsumed ==
  /\ mode \in {"loop", "guest"} => fault = "none"
  /\ mode = "prompt" /\ site # "fault" => fault = "none"
  /\ mode = "prompt" => fault # "debug"

(* The inductive invariant behind them: that of the breakpoint table, and  *)
(* where a breakpoint may be out of the code.                              *)
PromptUnpatchesNothing == mode = "prompt" => attached /\ temp = NoBp
FullSpeedUnpatchesNothing == mode = "guest" /\ ~debugging /\ attached => temp = NoBp

ControlInv ==
  /\ TrapIsABreakpoint /\ FaultIsConsumed /\ DebugNeverHandled
  /\ PromptUnpatchesNothing /\ FullSpeedUnpatchesNothing

JitInv == BpInv /\ JitTypeOK /\ ControlInv

(* Without a debugger the fuel of a call only goes down: no path of the    *)
(* dispatcher refills it, also when the session ends in the middle of it.  *)
FuelOnlyBurns ==
  [][mode # "idle" /\ mode' # "idle" /\ ~attached /\ ~debugging => fuel' <= fuel]_vars

(* A call that nobody debugs and that hands over no fault returns RISCV_OK  *)
(* only because the guest function has returned: nothing a former session  *)
(* left behind (gdb_should_detach, gdb_stepping) cuts it short.            *)
OkMeansReturned ==
  [][mode = "exit" /\ mode' = "idle" /\ ~attached /\ result' = "ok" /\ handled' = "none"
       => fault = "none" /\ pc = Halt]_vars

(* The guest never executes an instruction that a breakpoint is set on,     *)
(* except the one breakpoint that was just reported and is stepped over.    *)
Executing == mode = "guest" /\ code[at] = Orig /\ fuel > 1 /\ fuel' = fuel - 1
BreakpointsStop ==
  [][Executing => \A i \in Live : bp[i].pc = at => i = temp /\ debugging]_vars

(* Without a debugger every call ends, whatever the guest does: the fuel    *)
(* stops it, loops of direct and of indirect jumps alike.  Only a jump into *)
(* the middle of host code takes it where nothing can be promised.          *)
UndebuggedCallsEnd == (mode = "guest" /\ ~attached) ~> (mode \in {"idle", "wild"})

(* A client that goes away does not leave the host in the prompt for ever *)
DisconnectFreesHost == (inbox = "eof") ~> (mode \in {"idle", "wild"})
-----------------------------------------------------------------------------
(* What a comment in the code says of the debugger and the code does not do: *)
(* "single step then re-enter" (riscv_gdb.c:655), a step runs one instruction *)
StepRunsOneInstruction == mode # "idle" /\ attached /\ stepping => ran <= 1
=============================================================================
