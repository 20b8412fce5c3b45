----------------------------- MODULE FlatMemory -----------------------------
(***************************************************************************)
(* What a guest and its debugger are promised of memory: one flat array of *)
(* bytes.  An access that lies inside one of the ranges open to its kind   *)
(* reaches exactly the bytes it names, whoever makes it; any other access  *)
(* is refused and reads nothing.  Only the client's write may be cut off   *)
(* in the middle.                                                          *)
(***************************************************************************)
EXTENDS Integers, Sequences

CONSTANTS
  Addrs, Byte,
  Sizes,   \* of the guest's accesses
  Lengths  \* of the client's

VARIABLES
  ranges,  \* ranges[kind]: the ranges <<lo, hi>>, hi excluded, open to a kind of access
  mem,     \* mem[a] for every backed address a
  reply    \* what the last access was answered: whether it was done, and the bytes read

vars == <<ranges, mem, reply>>

Within(kind, a, n) == \E r \in ranges[kind] : r[1] <= a /\ a + n <= r[2]
Contents(a, n) == [i \in 1..n |-> mem[a + i - 1]]
Written(a, v) == [b \in DOMAIN mem |-> IF b - a + 1 \in DOMAIN v THEN v[b - a + 1] ELSE mem[b]]

Done(bytes) == reply' = [ok |-> TRUE, bytes |-> bytes]
NoReply == [ok |-> FALSE, bytes |-> <<>>]  \* nothing was asked, or it was refused
Refused == reply' = NoReply

Init == reply = NoReply

Load(a, n) ==
  /\ IF Within("load", a, n) THEN Done(Contents(a, n)) ELSE Refused
  /\ UNCHANGED mem

Store(a, n) ==
  IF Within("store", a, n)
  THEN (\E v \in [1..n -> Byte] : mem' = Written(a, v)) /\ Done(<<>>)
  ELSE UNCHANGED mem /\ Refused

(* A reply may be shorter than what was asked for, but not empty *)
Read(a, n) ==
  /\ \/ n = 0 /\ Done(<<>>)
     \/ \E k \in 1..n : Within("read", a, k) /\ Done(Contents(a, k))
     \/ n > 0 /\ ~Within("read", a, n) /\ Refused
  /\ UNCHANGED mem

Write(a, n) ==
  \/ n > 0 /\ Within("write", a, n) /\ (\E v \in [1..n -> Byte] : mem' = Written(a, v)) /\ Done(<<>>)
  \/ n > 0 /\ Within("write", a, n) /\ (\E k \in 0..n : \E v \in [1..k -> Byte] : mem' = Written(a, v)) /\ Refused
  \/ UNCHANGED mem /\ Refused

Accept == reply # NoReply /\ Refused /\ UNCHANGED mem

Access(a) ==
  \/ \E n \in Sizes : Load(a, n) \/ Store(a, n)
  \/ \E n \in Lengths : Read(a, n) \/ Write(a, n)

Next ==
  /\ UNCHANGED ranges
  /\ \/ Accept
     \/ reply = NoReply /\ \E a \in Addrs : Access(a)

Spec == Init /\ [][Next]_vars
=============================================================================
