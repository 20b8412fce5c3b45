----------------------------- MODULE MCLifecycle -----------------------------
EXTENDS Lifecycle

(* A section; contents of two units are at an offset *)
Section(name, type, writable, addr, offset, size) ==
  [name |-> name, type |-> type, writable |-> writable, addr |-> addr, offset |-> offset,
   size |-> size, nameAt |-> 0, link |-> 0]

Names == Section(".shstrtab", "strtab", FALSE, 0, 2, 1)
Text == Section(".text", "progbits", FALSE, 20, 3, 2)
Symtab == Section(".symtab", "symtab", FALSE, 0, 9, 1)
Data == Section(".data", "progbits", TRUE, 12, 5, 2)
Rodata == Section(".data.rel.ro", "progbits", TRUE, 8, 7, 2)
Bss == Section(".bss", "nobits", TRUE, 14, 7, 3)
Tbss == Section(".tbss", "nobits", TRUE, 8, 5, 3)  \* takes up no addresses
LargeBss == Section(".bss", "nobits", TRUE, 14, 7, 9)

Elf(sections) ==
  [size |-> 15, ident |-> "ok", shoff |-> 15 - Len(sections), sections |-> sections, shstrndx |-> 0,
   code |-> TRUE,
   syms |-> <<[name |-> "main", func |-> TRUE, value |-> 20, size |-> 2]>>]

(* Files with their data in order, out of order, or without any; one with a *)
(* .bss that is larger than the rest of the file; one whose .text is data;  *)
(* and one for every way to be refused                                      *)
Loadable ==
  {Elf(<<Names, Text, Symtab, Rodata, Data, Bss>>),
   Elf(<<Names, Bss, Data, Text, Tbss, Rodata>>),
   Elf(<<Names, Text, Tbss, Rodata, Data>>),
   Elf(<<Names, Text>>),
   [Elf(<<Names, Text, Data>>) EXCEPT !.code = FALSE, !.syms = <<>>]}
BadFiles ==
  {Elf(<<Names, Text, Data, LargeBss>>),
   Elf(<<Names, Data>>),
   [Elf(<<Names, Text>>) EXCEPT !.size = 1],
   [Elf(<<Names, Text>>) EXCEPT !.ident = "bad_magic"],
   [Elf(<<Names, Text>>) EXCEPT !.ident = "not_64bit"],
   [Elf(<<Names, Text>>) EXCEPT !.ident = "not_riscv"],
   [Elf(<<Names, Text>>) EXCEPT !.shoff = 14],
   [Elf(<<Names, Text>>) EXCEPT !.shstrndx = 2],
   Elf(<<[Names EXCEPT !.size = 14], Text>>),
   Elf(<<Names, [Text EXCEPT !.nameAt = 1]>>),
   Elf(<<Names, Text, [Data EXCEPT !.offset = 14]>>),
   Elf(<<Names, Text, [Symtab EXCEPT !.link = 3]>>)}
AllFiles == Loadable \cup BadFiles
=============================================================================
