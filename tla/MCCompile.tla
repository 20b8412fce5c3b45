----------------------------- MODULE MCCompile -----------------------------
(***************************************************************************)
(* Instances of CodeBuffer: short texts of every form with sizes that make *)
(* each room test fail for some of them, and a long text of loads with the *)
(* sizes of the code.                                                      *)
(***************************************************************************)
EXTENDS CodeBuffer

Op(kind) == [kind |-> kind, target |-> NoTarget]
To(a) == [kind |-> "branch", target |-> a]
Form(wide, ops) == [wide |-> wide, ops |-> ops]

(* An unknown one, addi with rd = 0, c.ld, sd, c.j into and out of .text,   *)
(* jalr, jal                                                                *)
SmallForms ==
  {Form(FALSE, <<>>), Form(FALSE, <<Op("none")>>), Form(FALSE, <<Op("load")>>),
   Form(TRUE, <<Op("store")>>),
   Form(FALSE, <<To(0)>>), Form(FALSE, <<To(100)>>), Form(TRUE, <<Op("indirect")>>),
   Form(TRUE, <<Op("plain"), To(4)>>)}

Sym(a, d) == [addr |-> a, data |-> d]

(* None; data at the front, in the middle, at the end; two at one address;  *)
(* one datum behind another; a datum of odd length                          *)
SmallSymbolSets ==
  {{}, {Sym(0, TRUE), Sym(2, FALSE)}, {Sym(0, FALSE), Sym(2, TRUE), Sym(4, FALSE)},
   {Sym(4, TRUE)}, {Sym(2, TRUE), Sym(2, FALSE)}, {Sym(0, TRUE), Sym(2, TRUE), Sym(4, FALSE)},
   {Sym(0, TRUE), Sym(3, FALSE)}}

SmallBytes ==
  [k \in Kinds |-> CASE k \in {"load", "store"} -> 6 [] k = "fuel" -> 4 [] k = "none" -> 1 [] OTHER -> 2]

(* A text of c.ld *)
LoadsOnly == {Form(FALSE, <<Op("load")>>)}
NoSymbols == {{}}

(* Bytes emitted when there is .data and displacements take one byte *)
RealBytes ==
  [k \in Kinds |->
     CASE k = "fuel" -> 41 [] k = "none" -> 14 [] k = "plain" -> 26 [] k = "load" -> 167
       [] k = "store" -> 130 [] k = "branch" -> 19 [] k = "indirect" -> 30]
=============================================================================
