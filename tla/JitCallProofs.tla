---------------------------- MODULE JitCallProofs ----------------------------
(***************************************************************************)
(* The invariant of the breakpoint table, for every set of addresses and   *)
(* every size of the table and of the stub area.  Then that the dispatcher *)
(* uses the table as Breakpoints says it does, and what follows from that, *)
(* for every guest program and every fuel.                                 *)
(***************************************************************************)
EXTENDS JitCall, TLAPS


(* One blank value is a possible entry. *)
LEMMA BlankIsEntry == AnyPc \in Pcs /\ Blank \in Entry
<1>1. AnyPc \in Pcs
  BY BreakpointsAssumption DEF AnyPc
<1> QED
  BY <1>1, BreakpointsAssumption DEF Blank, Entry, Slots, Orig

(* The state that init leaves behind satisfies the invariant. *)
LEMMA InitBpInv == BpInit => BpInv
<1> SUFFICES ASSUME BpInit PROVE BpInv
  OBVIOUS
<1>1. TypeOK
  <2>1. code \in [Mapped -> Slots \cup {Orig}] /\ stub \in [Slots -> Pcs] /\ bp \in [Idx -> Entry]
    BY BlankIsEntry DEF BpInit
  <2>2. stubUsed \in 0..StubSlots /\ bpCount \in 0..MaxBps /\ temp \in 0..MaxBps
    BY BreakpointsAssumption DEF BpInit, NoBp
  <2>3. attached \in BOOLEAN
    BY Zenon DEF BpInit
  <2> QED
    BY <2>1, <2>2, <2>3 DEF TypeOK
<1>2. Live = {}
  BY DEF BpInit, Live
<1> QED
  BY <1>1, <1>2 DEF BpInit, BpInv, TableIsConsistent, CodeIntegrity, StubReportsItsPc,
                    TableFitsStubs, Found, NoBp, Orig

(* Accepting a client starts from an empty table. *)
LEMMA AttachBpInv == BpInv /\ Attach => BpInv'
<1> SUFFICES ASSUME BpInv, Attach PROVE BpInv'
  OBVIOUS
<1>1. bpCount = 0 /\ bpCount' = 0 /\ Live = {} /\ Live' = {} /\ temp' = NoBp
  BY DEF BpInv, TypeOK, TableIsConsistent, Live, Attach
<1>2. TypeOK'
  <2>1. attached' \in BOOLEAN
    BY Zenon DEF Attach
  <2> QED
    BY <1>1, <2>1, BreakpointsAssumption DEF TypeOK, NoBp, Attach, BpInv
<1>3. TableIsConsistent'
  BY <1>1 DEF TableIsConsistent, NoBp, Attach
<1> QED
  BY <1>1, <1>2, <1>3 DEF BpInv, Attach, TypeOK, CodeIntegrity, StubReportsItsPc, TableFitsStubs, Found

(* A breakpoint that is set saves compiled bytes, for nothing else patches *)
(* the same instruction, and takes a stub that no other entry has.         *)
LEMMA InstallBpInv ==
  ASSUME NEW q \in Pcs
  PROVE  BpInv /\ temp = NoBp /\ Install(q) => BpInv'
<1> SUFFICES ASSUME BpInv, temp = NoBp, Install(q) PROVE BpInv'
  OBVIOUS
<1>1. CASE ~CanInstall(q)
  BY <1>1 DEF Install, BpInv, TypeOK, TableIsConsistent, CodeIntegrity, StubReportsItsPc,
              TableFitsStubs, Live, Found
<1>2. CASE CanInstall(q)
  <2> DEFINE i == bpCount + 1
             k == stubUsed + 1
             e == [pc |-> q, slot |-> k, saved |-> code[q], used |-> TRUE]
  <2>1. /\ ~Found(q) /\ q \in Mapped
        /\ i \in Idx /\ k \in Slots /\ i \in 1..MaxBps
        /\ bpCount \in Nat /\ stubUsed \in Nat
    <3>1. ~Found(q) /\ q \in Mapped /\ bpCount < MaxBps /\ stubUsed < StubSlots
      BY <1>2, Zenon DEF CanInstall, HasRoom
    <3>2. bpCount \in 0..MaxBps /\ stubUsed \in 0..StubSlots
      BY DEF BpInv, TypeOK
    <3> QED
      BY <3>1, <3>2, BreakpointsAssumption, SMT DEF Idx, Slots
  <2>2. code[q] = Orig
    BY <2>1 DEF BpInv, CodeIntegrity
  <2>3. /\ stub' = [stub EXCEPT ![k] = q]
        /\ bp' = [bp EXCEPT ![i] = e]
        /\ code' = [code EXCEPT ![q] = k]
        /\ bpCount' = i /\ stubUsed' = k
        /\ attached' = attached /\ temp' = NoBp
    BY <1>2 DEF Install
  <2>4. attached
    BY DEF Install
  <2> HIDE DEF i, k, e
  <2>5. e \in Entry /\ e.pc = q /\ e.slot = k /\ e.saved = Orig /\ e.used
    BY <2>1, <2>2 DEF e, Entry, Slots, Orig
  <2>6. TypeOK'
    <3>1. bp' \in [Idx -> Entry] /\ stub' \in [Slots -> Pcs] /\ code' \in [Mapped -> Slots \cup {Orig}]
      BY <2>1, <2>3, <2>5 DEF BpInv, TypeOK
    <3>2. stubUsed' \in 0..StubSlots /\ bpCount' \in 0..MaxBps /\ temp' \in 0..MaxBps
      BY <2>1, <2>3, BreakpointsAssumption DEF Idx, Slots, NoBp
    <3>3. attached' \in BOOLEAN
      BY <2>3 DEF BpInv, TypeOK
    <3> QED
      BY <3>1, <3>2, <3>3 DEF TypeOK
  <2>7. /\ i \notin Live /\ Live' = Live \cup {i}
        /\ bp'[i] = e
        /\ \A j \in Live : bp'[j] = bp[j] /\ bp[j].pc # q /\ bp[j].slot # k /\ bp[j] \in Entry
    <3>1. i \notin Live /\ \A j \in Live : j \in Idx /\ j # i /\ bp[j].pc # q /\ bp[j].slot # k
      <4>1. i \notin Live /\ \A j \in Live : j \in Idx /\ j # i
        BY <2>1, BreakpointsAssumption DEF Live, Idx, i
      <4>2. \A j \in Live : bp[j].pc # q
        BY <2>1 DEF Found
      <4>3. \A j \in Live : bp[j].slot <= stubUsed /\ bp[j].slot \in Slots
        BY <4>1 DEF BpInv, TableIsConsistent, TypeOK, Entry
      <4>4. \A n \in Slots : n <= stubUsed => n # k
        BY <2>1 DEF k, Slots
      <4> QED
        BY <4>1, <4>2, <4>3, <4>4
    <3>2. bp'[i] = e /\ \A j \in Idx \ {i} : bp'[j] = bp[j] /\ bp[j] \in Entry
      BY <2>1, <2>3 DEF BpInv, TypeOK
    <3>3. Live' = Live \cup {i}
      BY <2>1, <2>3, <2>5, <3>1, <3>2 DEF Live, i, Idx, BpInv, TypeOK
    <3> QED
      BY <3>1, <3>2, <3>3
  <2>8. TableIsConsistent'
    <3>1. \A j \in Live : bp[j].slot <= stubUsed => bp[j].slot <= k
      BY <2>1, <2>7 DEF k, Entry, Slots
    <3>2. k <= k
      BY <2>1 DEF k
    <3> QED
      BY <2>1, <2>3, <2>4, <2>5, <2>7, <3>1, <3>2 DEF BpInv, TableIsConsistent
  <2>9. CodeIntegrity'
    <3>1. NoBp \notin Live'
      BY DEF NoBp, Live
    <3>2. \A j \in Live' : code'[bp'[j].pc] = bp'[j].slot
      <4>1. \A j \in Live : code[bp[j].pc] = bp[j].slot /\ bp[j].pc \in Mapped
        BY DEF BpInv, CodeIntegrity, TableIsConsistent, NoBp, Live
      <4> QED
        BY <2>1, <2>3, <2>5, <2>7, <4>1 DEF BpInv, TypeOK
    <3>3. \A p \in Mapped : ~Found(p)' => code'[p] = Orig
      <4>1. Found(q)'
        BY <2>5, <2>7 DEF Found
      <4>2. \A p \in Mapped : Found(p) => Found(p)'
        BY <2>7 DEF Found
      <4> QED
        BY <2>1, <2>3, <4>1, <4>2 DEF BpInv, CodeIntegrity, TypeOK
    <3> QED
      BY <2>3, <3>1, <3>2, <3>3 DEF CodeIntegrity
  <2>10. StubReportsItsPc'
    BY <2>1, <2>3, <2>5, <2>7 DEF StubReportsItsPc, BpInv, TypeOK, Entry
  <2>11. TableFitsStubs'
    BY <2>1, <2>3 DEF TableFitsStubs, BpInv, i, k
  <2> QED
    BY <2>6, <2>8, <2>9, <2>10, <2>11 DEF BpInv
<1> QED
  BY <1>1, <1>2

(* A removed breakpoint gives the instruction its compiled bytes back, and *)
(* popping free entries loses no breakpoint that is set.                   *)
LEMMA RemoveBpInv ==
  ASSUME NEW q \in Pcs
  PROVE  BpInv /\ temp = NoBp /\ Remove(q) => BpInv'
<1> SUFFICES ASSUME BpInv, temp = NoBp, Remove(q) PROVE BpInv'
  OBVIOUS
<1>1. CASE ~Found(q) /\ UNCHANGED <<code, bp, bpCount>>
  BY <1>1 DEF Remove, BpInv, TypeOK, TableIsConsistent, CodeIntegrity, StubReportsItsPc,
              TableFitsStubs, Live, Found
<1>2. ASSUME NEW i \in Live,
             bp[i].pc = q,
             code' = [code EXCEPT ![q] = bp[i].saved],
             bp' = [bp EXCEPT ![i] = Blank],
             bpCount' \in 0..bpCount,
             \A j \in bpCount' + 1 .. bpCount : j \in Live => j = i
      PROVE  BpInv'
  <2>1. /\ bpCount \in 0..MaxBps /\ i \in Idx /\ i \in 1..bpCount /\ bp[i].used
        /\ bp \in [Idx -> Entry]
    BY <1>2, BreakpointsAssumption DEF BpInv, TypeOK, Live, Idx
  <2>2. /\ UNCHANGED <<attached, stub, stubUsed, temp>> /\ attached
        /\ bp[i].saved = Orig /\ q \in Mapped
    BY <1>2 DEF Remove, BpInv, TableIsConsistent
  <2>3. bp'[i] = Blank /\ \A j \in Idx \ {i} : bp'[j] = bp[j]
    BY <1>2, <2>1
  <2>4. ~Blank.used
    BY DEF Blank
  <2>5. Live' = Live \ {i}
    <3>1. \A j \in Live' : j \in Live /\ j # i
      BY <1>2, <2>1, <2>3, <2>4, BreakpointsAssumption DEF Live, Idx
    <3> DEFINE n == bpCount'
    <3> HIDE DEF n
    <3>2. ASSUME NEW j \in Live, j # i PROVE j \in 1..n
      <4>1. MaxBps \in Nat
        BY BreakpointsAssumption
      <4>2. bpCount \in Nat
        BY <2>1, <4>1
      <4>3. n \in Nat
        BY <1>2, <4>2 DEF n
      <4>4. j \in 1..bpCount /\ j \notin n + 1 .. bpCount
        BY <1>2, <3>2 DEF Live, n
      <4> QED
        BY <4>2, <4>3, <4>4
    <3>3. \A j \in Live : j # i => j \in Live'
      BY <2>1, <2>3, <3>2, BreakpointsAssumption DEF Live, Idx, n
    <3> QED
      BY <3>1, <3>3
  <2>6. \A j \in Live' : j \in Live /\ j # i /\ bp'[j] = bp[j] /\ bp[j].pc # q
    <3>1. Live \subseteq Idx
      BY <2>1, BreakpointsAssumption DEF Live, Idx
    <3> QED
      BY <1>2, <2>3, <2>5, <3>1 DEF BpInv, TableIsConsistent
  <2>7. TypeOK'
    <3>1. bp' \in [Idx -> Entry]
      BY <1>2, <2>1, BlankIsEntry
    <3>2. code' \in [Mapped -> Slots \cup {Orig}]
      BY <1>2, <2>2 DEF BpInv, TypeOK
    <3>3. bpCount' \in 0..MaxBps
      BY <1>2, <2>1, BreakpointsAssumption
    <3> QED
      BY <2>2, <3>1, <3>2, <3>3 DEF BpInv, TypeOK
  <2>8. TableIsConsistent'
    BY <2>2, <2>6 DEF BpInv, TableIsConsistent
  <2>9. CodeIntegrity'
    <3>1. \A j \in Live' : code'[bp'[j].pc] = bp'[j].slot
      <4>1. \A j \in Live' : code[bp[j].pc] = bp[j].slot /\ bp[j].pc \in Mapped
        BY <2>6 DEF BpInv, CodeIntegrity, TableIsConsistent, NoBp, Live
      <4> QED
        BY <1>2, <2>6, <4>1 DEF BpInv, TypeOK
    <3>2. \A p \in Mapped : ~Found(p)' => code'[p] = Orig
      <4>1. \A p \in Mapped : Found(p) /\ p # q => Found(p)'
        BY <1>2, <2>5, <2>6 DEF Found
      <4> QED
        BY <1>2, <2>2, <4>1 DEF BpInv, CodeIntegrity, TypeOK
    <3>3. NoBp \notin Live'
      BY DEF NoBp, Live
    <3> QED
      BY <2>2, <3>1, <3>2, <3>3 DEF CodeIntegrity
  <2>10. StubReportsItsPc'
    BY <2>2, <2>6 DEF BpInv, StubReportsItsPc
  <2>11. TableFitsStubs'
    BY <1>2, <2>1, <2>2 DEF BpInv, TableFitsStubs, TypeOK
  <2> QED
    BY <2>7, <2>8, <2>9, <2>10, <2>11 DEF BpInv
<1> QED
  BY <1>1, <1>2 DEF Remove

(* Patching and unpatching change the code of one instruction only, and    *)
(* gdb_temp_unpatched_bp with it.                                          *)
LEMMA PatchBpInv ==
  ASSUME NEW i \in Live, BpInv,
         temp \in {NoBp, i},
         temp' \in {NoBp, i},
         code' = [code EXCEPT ![bp[i].pc] = IF temp' = i THEN Orig ELSE bp[i].slot],
         UNCHANGED <<attached, stub, stubUsed, bp, bpCount>>
  PROVE  BpInv'
<1>1. /\ Live' = Live /\ NoBp \notin Live /\ Live \subseteq Idx
      /\ bp \in [Idx -> Entry] /\ bp[i].pc \in Mapped /\ bp[i].slot \in Slots
      /\ \A q : Found(q)' <=> Found(q)
  <2>1. Live' = Live /\ NoBp \notin Live /\ Live \subseteq Idx
    BY BreakpointsAssumption DEF Live, NoBp, BpInv, TypeOK, Idx
  <2>2. bp \in [Idx -> Entry] /\ bp[i].pc \in Mapped
    BY DEF BpInv, TypeOK, TableIsConsistent
  <2>3. bp[i].slot \in Slots
    BY <2>1, <2>2 DEF Entry
  <2>4. \A q : Found(q)' <=> Found(q)
    BY <2>1 DEF Found
  <2> QED
    BY <2>1, <2>2, <2>3, <2>4
<1>2. TypeOK'
  <2>1. temp' \in 0..MaxBps
    BY <1>1, BreakpointsAssumption DEF NoBp, Idx
  <2>2. code' \in [Mapped -> Slots \cup {Orig}]
    BY <1>1 DEF BpInv, TypeOK
  <2> QED
    BY <2>1, <2>2 DEF BpInv, TypeOK
<1>3. TableIsConsistent'
  BY <1>1 DEF BpInv, TableIsConsistent
<1>4. CodeIntegrity'
  <2>1. \A j \in Live : j # i => bp[j].pc # bp[i].pc /\ j # temp /\ j # temp' /\ bp[j].pc \in Mapped
    BY <1>1 DEF BpInv, TableIsConsistent
  <2>2. \A j \in Live : code'[bp[j].pc] = IF j = temp' THEN Orig ELSE bp[j].slot
    BY <1>1, <2>1 DEF BpInv, CodeIntegrity, TypeOK
  <2>3. \A q \in Mapped : ~Found(q) => code'[q] = Orig
    BY <1>1 DEF BpInv, CodeIntegrity, TypeOK, Found
  <2> QED
    BY <1>1, <2>2, <2>3 DEF CodeIntegrity
<1> QED
  BY <1>1, <1>2, <1>3, <1>4 DEF BpInv, StubReportsItsPc, TableFitsStubs

(* The table does not depend on a gdb_temp_unpatched_bp that names nothing. *)
LEMMA UnchangedBpInv == BpInv /\ UNCHANGED bpVars => BpInv'
  BY DEF bpVars, BpInv, TypeOK, TableIsConsistent, CodeIntegrity, StubReportsItsPc, TableFitsStubs, Live, Found

(* A breakpoint is taken out of the code to step over it. *)
LEMMA TempUnpatchBpInv ==
  ASSUME NEW q \in Pcs
  PROVE  BpInv /\ temp = NoBp /\ TempUnpatch(q) => BpInv'
<1> SUFFICES ASSUME BpInv, temp = NoBp, TempUnpatch(q) PROVE BpInv'
  OBVIOUS
<1>1. CASE UNCHANGED <<code, temp>>
  BY <1>1, UnchangedBpInv DEF TempUnpatch, bpVars
<1>2. ASSUME NEW i \in Live, bp[i].pc = q, code' = [code EXCEPT ![q] = bp[i].saved], temp' = i
      PROVE  BpInv'
  <2>1. bp[i].saved = Orig
    BY DEF BpInv, TableIsConsistent
  <2> QED
    BY <1>2, <2>1, PatchBpInv DEF TempUnpatch
<1> QED
  BY <1>1, <1>2 DEF TempUnpatch

(* It is put back after the step. *)
LEMMA RepatchBpInv ==
  ASSUME NEW q \in Pcs
  PROVE  BpInv /\ temp \in Live /\ bp[temp].pc = q /\ Repatch(q) => BpInv'
<1> SUFFICES ASSUME BpInv, temp \in Live, bp[temp].pc = q, Repatch(q) PROVE BpInv'
  OBVIOUS
<1>1. temp # NoBp
  BY DEF Live, NoBp
<1>2. PICK i \in Live : bp[i].pc = q /\ code' = [code EXCEPT ![q] = bp[i].slot] /\ temp' = NoBp
  BY DEF Repatch, Found
<1>3. i = temp
  BY <1>2 DEF BpInv, TableIsConsistent
<1> QED
  BY <1>1, <1>2, <1>3, PatchBpInv DEF Repatch

(* Or when the guest stops before that. *)
LEMMA RearmTempBpInv == BpInv /\ RearmTemp => BpInv'
<1> SUFFICES ASSUME BpInv, RearmTemp PROVE BpInv'
  OBVIOUS
<1>1. CASE temp = NoBp
  BY <1>1, UnchangedBpInv DEF RearmTemp, bpVars
<1>2. CASE temp # NoBp
  <2>1. temp \in Live
    BY <1>2 DEF RearmTemp, BpInv, TableIsConsistent
  <2>2. code' = [code EXCEPT ![bp[temp].pc] = bp[temp].slot] /\ temp' = NoBp
    BY <1>2, <2>1 DEF RearmTemp
  <2> QED
    BY <1>2, <2>1, <2>2, PatchBpInv DEF RearmTemp
<1> QED
  BY <1>1, <1>2

(* Closing the session leaves no breakpoint in the code, neither an armed  *)
(* one nor the one that is being stepped over.                             *)
LEMMA CloseBpInv == BpInv /\ Close => BpInv'
<1> SUFFICES ASSUME BpInv, Close PROVE BpInv'
  OBVIOUS
<1>1. Live' = {} /\ bpCount' = 0 /\ stubUsed' = 0 /\ attached' = FALSE /\ temp' = temp
  BY DEF Close, Live
<1>2. \A q \in Mapped : code'[q] = Orig
  <2> TAKE q \in Mapped
  <2>1. CASE ~Found(q)
    BY <2>1 DEF Close, BpInv, CodeIntegrity
  <2>2. CASE Found(q)
    <3> DEFINE Last(i) == i \in Live /\ bp[i].pc = q /\ \A j \in Live : bp[j].pc = q => j <= i
    <3>1. PICK i \in Live : bp[i].pc = q
      BY <2>2 DEF Found
    <3>2. Last(i)
      <4>1. \A j \in Live : bp[j].pc = q => j = i
        BY <3>1 DEF BpInv, TableIsConsistent
      <4>2. i <= i
        BY DEF Live, BpInv, TypeOK
      <4> QED
        BY <3>1, <4>1, <4>2
    <3>3. \A j \in Live : Last(j) => bp[j].saved = Orig
      BY DEF BpInv, TableIsConsistent
    <3>4. bp[CHOOSE j \in Live : bp[j].pc = q /\ \A l \in Live : bp[l].pc = q => l <= j].saved = Orig
      BY <3>2, <3>3
    <3> QED
      BY <2>2, <3>4 DEF Close
  <2> QED
    BY <2>1, <2>2
<1>3. TypeOK'
  <2>1. code' \in [Mapped -> Slots \cup {Orig}]
    BY <1>2 DEF Close
  <2>2. bp' \in [Idx -> Entry] /\ stub' \in [Slots -> Pcs]
    BY BlankIsEntry DEF Close, BpInv, TypeOK
  <2>3. stubUsed' \in 0..StubSlots /\ bpCount' \in 0..MaxBps /\ temp' \in 0..MaxBps
    BY <1>1, BreakpointsAssumption DEF BpInv, TypeOK
  <2>4. attached' \in BOOLEAN
    BY <1>1, Zenon
  <2> QED
    BY <2>1, <2>2, <2>3, <2>4 DEF TypeOK
<1>4. TableIsConsistent'
  BY <1>1 DEF TableIsConsistent
<1> QED
  BY <1>1, <1>2, <1>3, <1>4 DEF BpInv, CodeIntegrity, StubReportsItsPc, TableFitsStubs

(* Every operation of the stub on breakpoints keeps the invariant. *)
LEMMA NextBpInv == BpInv /\ [BpNext]_bpVars => BpInv'
<1> SUFFICES ASSUME BpInv, [BpNext]_bpVars PROVE BpInv'
  OBVIOUS
<1> QED
  BY AttachBpInv, InstallBpInv, RemoveBpInv, TempUnpatchBpInv, RepatchBpInv, RearmTempBpInv,
     CloseBpInv, UnchangedBpInv DEF BpNext

(* The table, the stubs and the patched code agree in every state: see the *)
(* conjuncts of BpInv.                                                     *)
THEOREM BpSpecInv == BpSpec => []BpInv
  BY InitBpInv, NextBpInv, PTL DEF BpSpec

(* The patched code is what the table says, in every state. *)
THEOREM BpSpecCodeIntegrity == BpSpec => []CodeIntegrity
<1>1. BpInv => CodeIntegrity
  BY DEF BpInv
<1> QED
  BY <1>1, BpSpecInv, PTL

(* After gdb_close, and before any client, the code is as it was compiled. *)
THEOREM BpSpecCleanWhenDetached == BpSpec => []CleanWhenDetached
<1>1. BpInv => CleanWhenDetached
  <2> SUFFICES ASSUME BpInv, ~attached, NEW q \in Mapped PROVE code[q] = Orig
    BY DEF CleanWhenDetached
  <2>1. Live = {}
    BY DEF BpInv, TableIsConsistent, Live
  <2> QED
    BY <2>1 DEF BpInv, CodeIntegrity, Found
<1> QED
  BY <1>1, BpSpecInv, PTL

(* Every field keeps to its values: the table, the stubs and the code never *)
(* name an entry or a stub that is not there, whatever the sizes are.       *)
THEOREM BpSpecTypeOK == BpSpec => []TypeOK
<1>1. BpInv => TypeOK
  BY DEF BpInv
<1> QED
  BY <1>1, BpSpecInv, PTL

(* At most one entry for an instruction, each with compiled bytes and with  *)
(* a stub of its own, also when entries are freed in the middle.            *)
THEOREM BpSpecTableIsConsistent == BpSpec => []TableIsConsistent
<1>1. BpInv => TableIsConsistent
  BY DEF BpInv
<1> QED
  BY <1>1, BpSpecInv, PTL

(* The stub that a breakpoint jumps to reports that breakpoint. *)
THEOREM BpSpecStubReportsItsPc == BpSpec => []StubReportsItsPc
<1>1. BpInv => StubReportsItsPc
  BY DEF BpInv
<1> QED
  BY <1>1, BpSpecInv, PTL

(* A stub that code jumps to is not rewritten: stubs are written behind     *)
(* those in use, and dropped together with the jumps to them.               *)
THEOREM BpSpecStubsInUseAreStable == BpSpec => StubsInUseAreStable
<1>1. ASSUME BpInv, [BpNext]_bpVars PROVE [KeepsStubsInUse]_bpVars
  <2> SUFFICES ASSUME BpNext, NEW p \in Mapped, NEW k \in Slots, code[p] = k, code'[p] = k
               PROVE  stub'[k] = stub[k]
    BY <1>1 DEF KeepsStubsInUse
  <2>1. PICK i \in Live : bp[i].pc = p /\ bp[i].slot = k
    <3>1. k # Orig
      BY DEF Slots, Orig
    <3> QED
      BY <1>1, <3>1 DEF BpInv, CodeIntegrity, Found
  <2>2. attached /\ k <= stubUsed
    BY <1>1, <2>1 DEF BpInv, TableIsConsistent, Live
  <2>3. CASE stub' = stub
    BY <2>3
  <2>4. ASSUME NEW q \in Pcs, Install(q) PROVE stub'[k] = stub[k]
    <3>1. k # stubUsed + 1
      BY <1>1, <2>2 DEF BpInv, TypeOK, Slots
    <3> QED
      BY <2>4, <3>1, <1>1 DEF Install, BpInv, TypeOK
  <2>5. ASSUME Close PROVE FALSE
    <3> DEFINE last == CHOOSE j \in Live : bp[j].pc = p /\ \A h \in Live : bp[h].pc = p => h <= j
    <3>1. Found(p)
      BY <2>1 DEF Found
    <3>2. code'[p] = bp[last].saved
      BY <2>5, <3>1 DEF Close
    <3>3. \A h \in Live : bp[h].pc = p => h = i
      BY <1>1, <2>1 DEF BpInv, TableIsConsistent
    <3>4. i <= i
      BY DEF Live
    <3>5. last = i
      BY <2>1, <3>3, <3>4
    <3>6. bp[i].saved = Orig
      BY <1>1, <2>1 DEF BpInv, TableIsConsistent
    <3>7. k # Orig
      BY DEF Slots, Orig
    <3> HIDE DEF last
    <3> QED
      BY <3>2, <3>5, <3>6, <3>7
  <2>6. stub' = stub \/ Close \/ \E q \in Pcs : Install(q)
    BY <1>1 DEF BpNext, Attach, Remove, TempUnpatch, Repatch, RearmTemp
  <2> QED
    BY <2>3, <2>4, <2>5, <2>6
<1> QED
  BY <1>1, BpSpecInv, PTL DEF BpSpec, StubsInUseAreStable
-----------------------------------------------------------------------------
(* A step of the dispatcher, the guest or the client is at most one         *)
(* operation on the breakpoint table, in the order the table relies on.     *)
LEMMA NextIsBpStep == JitInv /\ [Next]_vars => [BpNext]_bpVars
<1> SUFFICES ASSUME JitInv, [Next]_vars PROVE [BpNext]_bpVars
  OBVIOUS
<1> USE DEF JitInv, ControlInv, PromptUnpatchesNothing
<1>1. CASE UNCHANGED vars
  BY <1>1 DEF vars
<1>2. CASE Host
  BY <1>2 DEF Host, WaitForClient, GdbClose, Call, BpNext
<1>3. CASE Guest
  BY <1>3 DEF Guest, Trap, OutOfFuel, MemoryFault, RunDirect, RunIndirect, BpNext
<1>4. ASSUME ExitStep PROVE [BpNext]_bpVars
  <2>1. CASE temp = NoBp
    BY <1>4, <2>1 DEF ExitStep
  <2>2. CASE temp \in Live
    <3>1. bp[temp].pc \in Pcs
      BY <2>2, BreakpointsAssumption DEF BpInv, TableIsConsistent
    <3> QED
      BY <1>4, <2>2, <3>1 DEF ExitStep, BpNext
  <2>3. CASE temp # NoBp /\ temp \notin Live
    <3>1. Live = {}
      BY <2>3 DEF BpInv, TableIsConsistent, Live
    <3> QED
      BY <1>4, <2>3, <3>1 DEF ExitStep, Repatch, Found, bpVars
  <2> QED
    BY <2>1, <2>2, <2>3
<1>5. CASE Dispatcher
  BY <1>4, <1>5 DEF Dispatcher, Enter, ExitTrap, ExitFault, ExitReturn, ExitIndirect, Stop, BpNext
<1>6. ASSUME NEW step \in BOOLEAN, NEW p \in Pcs \cup {pc}, Resume(step, p)
      PROVE  [BpNext]_bpVars
  <2>1. CASE UNCHANGED bpVars
    BY <2>1
  <2>2. CASE TempUnpatch(p)
    <3>1. attached /\ temp = NoBp
      BY <1>6 DEF Resume, AtPrompt
    <3>2. CASE p \in Pcs
      BY <2>2, <3>1, <3>2 DEF BpNext
    <3>3. CASE p \notin Pcs
      <4>1. ~Found(p)
        BY <3>3, BreakpointsAssumption DEF Found, BpInv, TableIsConsistent
      <4> QED
        BY <2>2, <4>1 DEF TempUnpatch, Found, bpVars
    <3> QED
      BY <3>2, <3>3
  <2> QED
    BY <1>6, <2>1, <2>2 DEF Resume
<1>7. CASE Client
  <2>1. ASSUME NEW p \in Pcs, InsertBreakpoint(p) \/ RemoveBreakpoint(p)
        PROVE  [BpNext]_bpVars
    BY <2>1 DEF InsertBreakpoint, RemoveBreakpoint, AtPrompt, BpNext
  <2> QED
    BY <1>6, <1>7, <2>1 DEF Client, WritePc, ClientSends, LeavePrompt, IgnoreInterrupt
<1> QED
  BY <1>1, <1>2, <1>3, <1>5, <1>7 DEF Next

(* Host code that is patched belongs to a breakpoint, and jumps to the stub *)
(* that reports it.                                                         *)
LEMMA PatchedCodeTraps ==
  ASSUME BpInv, NEW p \in Mapped, code[p] # Orig
  PROVE  attached /\ Found(p) /\ stub[code[p]] = p
<1>1. PICK i \in Live : bp[i].pc = p
  BY DEF BpInv, CodeIntegrity, Found
<1>2. code[p] = bp[i].slot
  BY <1>1 DEF BpInv, CodeIntegrity
<1>3. attached
  BY <1>1 DEF BpInv, TableIsConsistent, Live
<1> QED
  BY <1>1, <1>2, <1>3 DEF BpInv, StubReportsItsPc, Found

(* The types of the dispatcher's state, in three parts.  Counters: *)
CountersOK == fuel \in Nat /\ savedFuel \in Nat /\ ran \in 0..2

LEMMA NextCountersOK == CountersOK /\ [Next]_vars => CountersOK'
<1> SUFFICES ASSUME CountersOK, [Next]_vars PROVE CountersOK'
  OBVIOUS
<1> USE DEF CountersOK
<1>1. CASE UNCHANGED vars
  BY <1>1 DEF vars, runVars
<1>2. CASE Host
  <2>1. InitialFuel \in Nat
    BY JitCallAssumption
  <2> QED
    BY <1>2, <2>1 DEF Host, WaitForClient, GdbClose, Call
<1>3. CASE Guest
  BY <1>3 DEF Guest, Trap, OutOfFuel, MemoryFault, RunDirect, RunIndirect, Executes, Completes
<1>4. CASE Dispatcher
  BY <1>4 DEF Dispatcher, Enter, ExitTrap, ExitStep, ExitFault, ExitReturn, ExitIndirect,
              RestoreFuel, DebugFuel
<1>5. CASE Client
  BY <1>5 DEF Client, InsertBreakpoint, RemoveBreakpoint, WritePc, Resume, ClientSends,
              LeavePrompt, IgnoreInterrupt, runVars
<1> QED
  BY <1>1, <1>2, <1>3, <1>4, <1>5 DEF Next

(* Flags: *)
FlagsOK == debugging \in BOOLEAN /\ stepping \in BOOLEAN /\ shouldDetach \in BOOLEAN

LEMMA NextFlagsOK == FlagsOK /\ [Next]_vars => FlagsOK'
<1> SUFFICES ASSUME FlagsOK, [Next]_vars PROVE FlagsOK'
  OBVIOUS
<1> USE DEF FlagsOK
<1>1. CASE UNCHANGED vars
  BY <1>1 DEF vars, runVars
<1>2. CASE Host
  BY <1>2 DEF Host, WaitForClient, GdbClose, Call
<1>3. CASE Guest
  BY <1>3 DEF Guest, Trap, OutOfFuel, MemoryFault, RunDirect, RunIndirect, Executes
<1>4. CASE Dispatcher
  BY <1>4 DEF Dispatcher, Enter, ExitTrap, ExitStep, ExitFault, ExitReturn, ExitIndirect, RestoreFuel
<1>5. CASE Client
  BY <1>5 DEF Client, InsertBreakpoint, RemoveBreakpoint, WritePc, Resume, ClientSends,
              LeavePrompt, IgnoreInterrupt, runVars
<1> QED
  BY <1>1, <1>2, <1>3, <1>4, <1>5 DEF Next

(* And where control is: *)
ControlOK ==
  /\ mode \in Modes /\ site \in Sites
  /\ at \in Pcs \cup {Halt} /\ offset \in Pcs \cup {Halt} /\ pc \in Pcs \cup {Halt}
  /\ mode = "guest" => at \in Mapped
  /\ mode = "loop" => offset \in Mapped
  /\ fault \in Faults /\ handled \in Faults
  /\ inbox \in {"quiet", "intr", "eof"}
  /\ result \in {"none", "ok", "badpc"}

LEMMA NextControlOK == JitInv /\ [Next]_vars => ControlOK'
<1> SUFFICES ASSUME JitInv, [Next]_vars PROVE ControlOK'
  OBVIOUS
<1>0. /\ ControlOK /\ BpInv
      /\ Mapped \subseteq Text /\ Text \subseteq Pcs
      /\ Symbols \subseteq Pcs \cup {Halt}
  BY JitCallAssumption DEF JitInv, JitTypeOK, ControlOK
<1> USE <1>0 DEF ControlOK, Modes, Sites, Faults
<1>1. CASE UNCHANGED vars
  BY <1>1 DEF vars, runVars
<1>2. CASE Host
  BY <1>2 DEF Host, WaitForClient, GdbClose, Call, Return
<1>3. CASE Guest
  <2>1. CASE Trap
    <3>1. stub[code[at]] \in Pcs
      BY <2>1, PatchedCodeTraps DEF Trap
    <3> QED
      BY <2>1, <3>1 DEF Trap
  <2>2. CASE OutOfFuel \/ MemoryFault
    BY <2>2 DEF OutOfFuel, MemoryFault, Executes
  <2>3. ASSUME NEW target \in Pcs \cup {Halt}, RunDirect(target) PROVE ControlOK'
    BY <2>3 DEF RunDirect, Executes
  <2>4. ASSUME NEW target \in Pcs \cup {Halt}, RunIndirect(target) PROVE ControlOK'
    BY <2>4 DEF RunIndirect, Executes
  <2> QED
    BY <1>3, <2>1, <2>2, <2>3, <2>4 DEF Guest
<1>4. CASE Dispatcher
  <2>1. CASE Enter
    BY <2>1 DEF Enter
  <2>2. CASE ExitTrap \/ ExitFault \/ ExitReturn
    BY <2>2 DEF ExitTrap, ExitFault, ExitReturn, RestoreFuel, Stop, Return
  <2>3. CASE ExitStep
    BY <2>3 DEF ExitStep, RestoreFuel, Dispatch, Return
  <2>4. CASE ExitIndirect
    BY <2>4 DEF ExitIndirect, RestoreFuel, Stop, Dispatch, Return
  <2> QED
    BY <1>4, <2>1, <2>2, <2>3, <2>4 DEF Dispatcher
<1>5. CASE Client
  <2>1. ASSUME NEW p \in Pcs, InsertBreakpoint(p) \/ RemoveBreakpoint(p) PROVE ControlOK'
    BY <2>1 DEF InsertBreakpoint, RemoveBreakpoint, runVars
  <2>2. ASSUME NEW p \in Pcs \cup {Halt}, WritePc(p) PROVE ControlOK'
    BY <2>2 DEF WritePc, AtPrompt
  <2>3. ASSUME NEW step \in BOOLEAN, NEW p \in Pcs \cup {pc}, Resume(step, p) PROVE ControlOK'
    BY <2>3 DEF Resume, Dispatch, Return
  <2>4. ASSUME NEW b \in {"intr", "eof"}, ClientSends(b) PROVE ControlOK'
    BY <2>4 DEF ClientSends
  <2>5. CASE LeavePrompt \/ IgnoreInterrupt
    BY <2>5 DEF LeavePrompt, IgnoreInterrupt, Return
  <2> QED
    BY <1>5, <2>1, <2>2, <2>3, <2>4, <2>5 DEF Client
<1> QED
  BY <1>1, <1>2, <1>3, <1>4, <1>5 DEF Next

LEMMA NextTypeOK == JitInv /\ [Next]_vars => JitTypeOK'
<1> SUFFICES ASSUME JitInv, [Next]_vars PROVE JitTypeOK'
  OBVIOUS
<1>1. TypeOK'
  <2>1. BpInv /\ [BpNext]_bpVars
    BY NextIsBpStep DEF JitInv
  <2> QED
    BY <2>1, NextBpInv DEF BpInv
<1>2. CountersOK'
  BY NextCountersOK DEF JitInv, JitTypeOK, CountersOK
<1>3. FlagsOK'
  BY NextFlagsOK DEF JitInv, JitTypeOK, FlagsOK
<1> QED
  BY <1>1, <1>2, <1>3, NextControlOK, Zenon DEF JitTypeOK, CountersOK, FlagsOK, ControlOK

(* The step that reports a breakpoint or a completed step finds the table   *)
(* with nothing unpatched, or puts back what is.                            *)
LEMMA StepRepatches ==
  ASSUME BpInv, attached, IF temp # NoBp THEN Repatch(bp[temp].pc) ELSE UNCHANGED bpVars
  PROVE  attached' /\ temp' = NoBp
<1>1. CASE temp = NoBp
  BY <1>1 DEF bpVars
<1>2. CASE temp # NoBp
  <2>1. temp \in Live
    BY <1>2 DEF BpInv, TableIsConsistent
  <2> QED
    BY <1>2, <2>1 DEF Repatch, Found
<1> QED
  BY <1>1, <1>2

(* Control stays where the invariant allows it. *)
LEMMA NextControlInv == JitInv /\ [Next]_vars => ControlInv'
<1> SUFFICES ASSUME JitInv, [Next]_vars PROVE ControlInv'
  OBVIOUS
<1>0. BpInv /\ JitTypeOK /\ ControlInv
  BY DEF JitInv
<1> USE <1>0 DEF ControlInv, TrapIsABreakpoint, FaultIsConsumed, DebugNeverHandled,
                 PromptUnpatchesNothing, FullSpeedUnpatchesNothing
<1>1. CASE UNCHANGED vars
  BY <1>1 DEF vars, runVars, bpVars, Found, Live
<1>2. CASE Host
  BY <1>2 DEF Host, WaitForClient, GdbClose, Call, Return, RearmTemp
<1>3. CASE Guest
  <2>1. CASE Trap
    <3>1. at \in Mapped /\ code[at] # Orig
      BY <2>1 DEF Trap, JitTypeOK
    <3>2. attached /\ Found(at) /\ stub[code[at]] = at
      BY <3>1, PatchedCodeTraps
    <3>3. Found(at)' = Found(at)
      BY <2>1 DEF Trap, bpVars, Found, Live
    <3> QED
      BY <2>1, <3>1, <3>2, <3>3 DEF Trap, bpVars, Found, Live
  <2>2. CASE OutOfFuel \/ MemoryFault
    BY <2>2 DEF OutOfFuel, MemoryFault, Executes
  <2>3. ASSUME NEW target \in Pcs \cup {Halt}, RunDirect(target) PROVE ControlInv'
    BY <2>3 DEF RunDirect, Executes, Close, bpVars
  <2>4. ASSUME NEW target \in Pcs \cup {Halt}, RunIndirect(target) PROVE ControlInv'
    BY <2>4 DEF RunIndirect, Executes
  <2> QED
    BY <1>3, <2>1, <2>2, <2>3, <2>4 DEF Guest
<1>4. CASE Dispatcher
  <2>1. CASE Enter
    <3>1. debugging' = (attached /\ (stepping \/ temp # NoBp))
      BY <2>1 DEF Enter
    <3>2. attached' = attached /\ temp' = temp
      BY <2>1 DEF Enter, bpVars
    <3>3. mode = "loop" /\ mode' = "guest" /\ fault' = fault /\ handled' = handled
      BY <2>1 DEF Enter
    <3> QED
      BY <3>1, <3>2, <3>3
  <2>2. CASE ExitTrap
    BY <2>2 DEF ExitTrap, Stop, RearmTemp, Return
  <2>3. CASE ExitFault
    BY <2>3 DEF ExitFault, Stop, RearmTemp, Return
  <2>4. CASE ExitReturn
    BY <2>4 DEF ExitReturn, Return
  <2>5. CASE ExitStep
    <3>1. mode' = "prompt" => attached' /\ temp' = NoBp
      BY <2>5, StepRepatches DEF ExitStep, Dispatch, Return
    <3> QED
      BY <2>5, <3>1 DEF ExitStep, Dispatch, Return
  <2>6. CASE ExitIndirect
    BY <2>6 DEF ExitIndirect, Stop, RearmTemp, Dispatch, Return
  <2> QED
    BY <1>4, <2>1, <2>2, <2>3, <2>4, <2>5, <2>6 DEF Dispatcher
<1>5. CASE Client
  <2>1. ASSUME NEW p \in Pcs, InsertBreakpoint(p) \/ RemoveBreakpoint(p) PROVE ControlInv'
    BY <2>1 DEF InsertBreakpoint, RemoveBreakpoint, AtPrompt, Install, Remove, runVars
  <2>2. ASSUME NEW p \in Pcs \cup {Halt}, WritePc(p) PROVE ControlInv'
    BY <2>2 DEF WritePc, AtPrompt, bpVars
  <2>3. ASSUME NEW step \in BOOLEAN, NEW p \in Pcs \cup {pc}, Resume(step, p) PROVE ControlInv'
    BY <2>3 DEF Resume, AtPrompt, Dispatch, Return, TempUnpatch
  <2>4. ASSUME NEW b \in {"intr", "eof"}, ClientSends(b) PROVE ControlInv'
    BY <2>4 DEF ClientSends, bpVars, Found, Live
  <2>5. CASE LeavePrompt \/ IgnoreInterrupt
    BY <2>5 DEF LeavePrompt, IgnoreInterrupt, Return, bpVars
  <2> QED
    BY <1>5, <2>1, <2>2, <2>3, <2>4, <2>5 DEF Client
<1> QED
  BY <1>1, <1>2, <1>3, <1>4, <1>5 DEF Next

LEMMA InitJitInv == Init => JitInv
<1> SUFFICES ASSUME Init PROVE JitInv
  OBVIOUS
<1>1. BpInv
  BY InitBpInv DEF Init
<1>2. ControlOK /\ ControlInv
  BY DEF Init, ControlOK, Modes, Sites, Faults, ControlInv, TrapIsABreakpoint, FaultIsConsumed,
         DebugNeverHandled, PromptUnpatchesNothing, FullSpeedUnpatchesNothing
<1>3. CountersOK
  BY DEF Init, CountersOK
<1>4. FlagsOK
  BY Zenon DEF Init, FlagsOK
<1>5. TypeOK
  BY <1>1 DEF BpInv
<1>6. JitTypeOK
  BY <1>2, <1>3, <1>4, <1>5, Zenon DEF JitTypeOK, CountersOK, FlagsOK, ControlOK
<1> QED
  BY <1>1, <1>2, <1>6 DEF JitInv

(* The inductive invariant of the dispatcher holds in every state, for      *)
(* every program, fuel and size of the breakpoint table.                    *)
THEOREM SpecJitInv == Spec => []JitInv
<1>1. Init => JitInv
  BY InitJitInv
<1>2. JitInv /\ [Next]_vars => JitInv'
  <2> SUFFICES ASSUME JitInv, [Next]_vars PROVE JitInv'
    OBVIOUS
  <2>1. BpInv /\ [BpNext]_bpVars
    BY NextIsBpStep DEF JitInv
  <2> QED
    BY <2>1, NextBpInv, NextTypeOK, NextControlInv DEF JitInv
<1> QED
  BY <1>1, <1>2, PTL DEF Spec

(* The types of the dispatcher's variables, its part of the invariant. *)
THEOREM SpecJitTypeOK == Spec => []JitTypeOK
<1>1. JitInv => JitTypeOK
  BY DEF JitInv
<1> QED
  BY <1>1, SpecJitInv, PTL

(* riscv_jit_call and the packet loop drive the breakpoint table in the     *)
(* order that Breakpoints is specified with: every theorem about BpSpec     *)
(* holds of a running program.                                              *)
THEOREM SpecImplementsBpSpec == Spec => BpSpec
<1>1. Init => BpInit
  BY DEF Init
<1>2. JitInv /\ [Next]_vars => [BpNext]_bpVars
  BY NextIsBpStep
<1> QED
  BY <1>1, <1>2, SpecJitInv, PTL DEF Spec, BpSpec

(* "this is swallowed and is actually never sent to your handler!"         *)
(* (riscv_jit.h:85), and every trap is reported with the address of a       *)
(* breakpoint that is set.                                                  *)
THEOREM SpecDebugNeverHandled == Spec => []DebugNeverHandled
<1>1. JitInv => DebugNeverHandled
  BY DEF JitInv, ControlInv
<1> QED
  BY <1>1, SpecJitInv, PTL

(* Every trap is a breakpoint that is set, reported with its own address *)
THEOREM SpecTrapIsABreakpoint == Spec => []TrapIsABreakpoint
<1>1. JitInv => TrapIsABreakpoint
  BY DEF JitInv, ControlInv
<1> QED
  BY <1>1, SpecJitInv, PTL

(* The guest never runs on with a fault that nobody has taken, and no stop  *)
(* but the one that reports it is made with a fault still set.              *)
THEOREM SpecFaultIsConsumed == Spec => []FaultIsConsumed
<1>1. JitInv => FaultIsConsumed
  BY DEF JitInv, ControlInv
<1> QED
  BY <1>1, SpecJitInv, PTL

(* The client is only talked to with every breakpoint in the code. *)
THEOREM SpecPromptIsArmed == Spec => []PromptIsArmed
<1>1. JitInv => PromptIsArmed
  BY DEF JitInv, ControlInv, PromptUnpatchesNothing, PromptIsArmed, BpInv, CodeIntegrity,
         Live, NoBp
<1> QED
  BY <1>1, SpecJitInv, PTL

(* At full speed every breakpoint is in the code; without a session there   *)
(* is none.                                                                 *)
THEOREM SpecFullSpeedIsArmed == Spec => []FullSpeedIsArmed
<1>1. ASSUME JitInv PROVE FullSpeedIsArmed
  <2>1. ~attached => Live = {}
    BY <1>1 DEF JitInv, BpInv, TableIsConsistent, Live
  <2>2. \A i \in Live : i # NoBp
    BY DEF Live, NoBp
  <2> QED
    BY <1>1, <2>1, <2>2 DEF JitInv, ControlInv, FullSpeedUnpatchesNothing, FullSpeedIsArmed,
                            BpInv, CodeIntegrity
<1> QED
  BY <1>1, SpecJitInv, PTL

(* No instruction with a breakpoint on it is executed, but the one that is  *)
(* stepped over in a slice of its own.                                      *)
THEOREM SpecBreakpointsStop == Spec => BreakpointsStop
<1> DEFINE A == Executing => \A i \in Live : bp[i].pc = at => i = temp /\ debugging
<1>1. ASSUME JitInv, [Next]_vars PROVE [A]_vars
  <2> SUFFICES ASSUME Executing, NEW i \in Live, bp[i].pc = at
               PROVE  i = temp /\ debugging
    OBVIOUS
  <2>1. mode = "guest" /\ code[at] = Orig
    BY DEF Executing
  <2>2. bp[i].slot # Orig
    <3>1. i \in Idx /\ bp \in [Idx -> Entry]
      BY <1>1, BreakpointsAssumption DEF Live, Idx, JitInv, BpInv, TypeOK
    <3> QED
      BY <3>1 DEF Entry, Slots, Orig
  <2>3. i = temp
    BY <1>1, <2>1, <2>2 DEF JitInv, BpInv, CodeIntegrity
  <2>4. attached /\ temp # NoBp
    BY <1>1, <2>3 DEF JitInv, BpInv, TableIsConsistent, Live, NoBp
  <2>5. debugging
    BY <1>1, <2>1, <2>4 DEF JitInv, ControlInv, FullSpeedUnpatchesNothing
  <2> QED
    BY <2>3, <2>5
<1> QED
  BY <1>1, SpecJitInv, PTL DEF Spec, BreakpointsStop

(* Nothing a former session left behind cuts an undebugged call short and   *)
(* reports success.                                                         *)
THEOREM SpecOkMeansReturned == Spec => OkMeansReturned
<1> DEFINE A == mode = "exit" /\ mode' = "idle" /\ ~attached /\ result' = "ok" /\ handled' = "none"
                  => fault = "none" /\ pc = Halt
<1>1. ASSUME [Next]_vars PROVE [A]_vars
  <2> SUFFICES ASSUME mode = "exit", mode' = "idle", ~attached, result' = "ok", handled' = "none", Next
               PROVE  fault = "none" /\ pc = Halt
    BY <1>1
  <2>1. ~Host /\ ~Guest
    BY DEF Host, WaitForClient, GdbClose, Call, Guest, Trap, OutOfFuel, MemoryFault, RunDirect,
           RunIndirect, Executes
  <2>2. ~Client
    BY DEF Client, InsertBreakpoint, RemoveBreakpoint, WritePc, Resume, AtPrompt, ClientSends,
           LeavePrompt, IgnoreInterrupt
  <2>3. ~Enter /\ ~ExitTrap /\ ~ExitFault /\ ~ExitIndirect /\ ~ExitStep
    BY DEF Enter, ExitTrap, ExitFault, ExitIndirect, ExitStep, Stop, Dispatch, Return, AsyncStop
  <2> QED
    BY <2>1, <2>2, <2>3 DEF Next, Dispatcher, ExitReturn
<1> QED
  BY <1>1, PTL DEF Spec, OkMeansReturned

(* An undebugged call is never given more fuel than it has left. *)
THEOREM SpecFuelOnlyBurns == Spec => FuelOnlyBurns
<1> DEFINE A == mode # "idle" /\ mode' # "idle" /\ ~attached /\ ~debugging => fuel' <= fuel
<1>1. ASSUME JitInv, [Next]_vars PROVE [A]_vars
  <2> SUFFICES ASSUME mode # "idle", mode' # "idle", ~attached, ~debugging, Next
               PROVE  fuel' <= fuel
    BY <1>1
  <2>1. fuel \in Nat
    BY <1>1 DEF JitInv, JitTypeOK
  <2>2. CASE fuel' = fuel
    BY <2>1, <2>2
  <2>3. CASE Host
    BY <2>3 DEF Host, WaitForClient, GdbClose, Call
  <2>4. CASE Guest
    BY <2>1, <2>4 DEF Guest, Trap, OutOfFuel, MemoryFault, RunDirect, RunIndirect, Executes
  <2>5. ASSUME Dispatcher PROVE fuel' = fuel
    BY <2>5 DEF Dispatcher, Enter, ExitTrap, ExitStep, ExitFault, ExitReturn, ExitIndirect, RestoreFuel
  <2>6. ASSUME Client PROVE fuel' = fuel
    BY <2>6 DEF Client, InsertBreakpoint, RemoveBreakpoint, WritePc, Resume, ClientSends,
                LeavePrompt, IgnoreInterrupt, runVars
  <2> QED
    BY <2>2, <2>3, <2>4, <2>5, <2>6 DEF Next
<1> QED
  BY <1>1, SpecJitInv, PTL DEF Spec, FuelOnlyBurns
=============================================================================
