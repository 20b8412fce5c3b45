------------------------------- MODULE ElfLoad -------------------------------
(***************************************************************************)
(* riscv_elf_init_from_mem: which files are taken, and the private copy of *)
(* their writable sections; and the look-ups in the symbol table.          *)
(*                                                                         *)
(* A file has a size, what its identification says, and its sections in    *)
(* the order of the section table.  A byte of it is known by its offset.   *)
(* No section wraps round the end of the address space.                    *)
(***************************************************************************)
EXTENDS Integers, Sequences, FiniteSetsExt, SequencesExt

HeaderSize == 2  \* sizeof(Elf64_Ehdr), in a unit that makes the files small
EntrySize == 1   \* shentsize

(* elf_range_fits; elf_section_fits *)
RangeFits(file, offset, bytes) == offset <= file.size /\ bytes <= file.size - offset
SectionFits(file, s) == RangeFits(file, s.offset, s.size)

(* The entry with this index, which counts from 0 in the file *)
IsEntry(file, k) == k < Len(file.sections)
Entry(file, k) == file.sections[k + 1]

(* A section is refused when its name is not in the table of names, when it *)
(* does not lie in the file, or when it is a symbol table without names.    *)
Refused(file, s) ==
  \/ s.nameAt >= Entry(file, file.shstrndx).size
  \/ ~SectionFits(file, s)
  \/ /\ s.name # ".text" /\ s.type = "symtab"
     /\ ~IsEntry(file, s.link) \/ ~SectionFits(file, Entry(file, s.link))

FindSections(file) ==
  CASE ~IsEntry(file, file.shstrndx) -> "oob"
    [] IsEntry(file, file.shstrndx) /\ ~SectionFits(file, Entry(file, file.shstrndx)) -> "oob"
    [] OTHER ->
         IF \E i \in DOMAIN file.sections : Refused(file, file.sections[i]) THEN "oob"
         ELSE IF \E i \in DOMAIN file.sections : file.sections[i].name = ".text" THEN "ok"
         ELSE "no_text"

(* The tests in front of it *)
Parsed(file) ==
  CASE file.size < HeaderSize -> "too_small"
    [] file.size >= HeaderSize /\ file.ident # "ok" -> file.ident
    [] OTHER ->
         IF ~RangeFits(file, file.shoff, EntrySize * Len(file.sections)) THEN "oob"
         ELSE FindSections(file)

(* elf_build_data_region: the sections that are allocated and writable, by  *)
(* their index                                                              *)
Gathered(file) == {i \in DOMAIN file.sections : file.sections[i].writable /\ file.sections[i].size # 0}
Ends(s) == s.addr + s.size
HasData(file) == Gathered(file) # {}
Lowest(file) == Min({file.sections[i].addr : i \in Gathered(file)})
Highest(file) == Max({Ends(file.sections[i]) : i \in Gathered(file)})

Zeroed == -1
NoData == <<>>

(* Seeded fault: a section without contents is copied like the others *)
CopiedNobits(region, s) ==
  [a \in DOMAIN region |-> IF s.addr <= a /\ a < Ends(s) THEN s.offset + (a - s.addr) ELSE region[a]]

(* One section into the region; .bss and the like stay zero *)
Copied(region, s) ==
  IF s.type = "nobits" THEN region
  ELSE [a \in DOMAIN region |->
          IF s.addr <= a /\ a < Ends(s) THEN s.offset + (a - s.addr) ELSE region[a]]

DataRegion(file) ==
  LET Filled[k \in 0..Len(file.sections)] ==
        IF k = 0 THEN [a \in Lowest(file)..Highest(file) - 1 |-> Zeroed]
        ELSE IF k \in Gathered(file) THEN Copied(Filled[k - 1], file.sections[k])
        ELSE Filled[k - 1]
  IN IF HasData(file) THEN Filled[Len(file.sections)] ELSE NoData
-----------------------------------------------------------------------------
(* Look-ups in a symbol table, a sequence of [name, func, value, size]; the *)
(* first match is taken.                                                    *)
First(syms, Test(_)) == SelectInSeq(syms, Test)

(* riscv_elf_find_sym: of any kind and binding; 0 is "not found" *)
FindSym(syms, name) ==
  LET k == First(syms, LAMBDA s : s.name = name) IN IF k = 0 THEN 0 ELSE syms[k].value

Unknown == "??"

(* riscv_elf_lookup_func_by_pc *)
LookupFunc(syms, pc) ==
  LET k == First(syms, LAMBDA s : s.func /\ s.value <= pc /\ pc < s.value + s.size)
  IN IF k = 0 THEN [name |-> Unknown, offset |-> 0]
     ELSE [name |-> syms[k].name, offset |-> pc - syms[k].value]
-----------------------------------------------------------------------------
(* What the format says of a file: every section has its contents in the   *)
(* file, one of type SHT_NOBITS has none.                                   *)
WellFormed(file) ==
  /\ file.ident = "ok"
  /\ RangeFits(file, file.shoff, EntrySize * Len(file.sections))
  /\ IsEntry(file, file.shstrndx)
  /\ \A i \in DOMAIN file.sections :
       LET s == file.sections[i]
       IN /\ s.nameAt < Entry(file, file.shstrndx).size
          /\ s.type # "nobits" => SectionFits(file, s)
          /\ s.type = "symtab" => IsEntry(file, s.link)
=============================================================================
