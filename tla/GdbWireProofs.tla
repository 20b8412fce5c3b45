--------------------------- MODULE GdbWireProofs ---------------------------
(***************************************************************************)
(* For every set of kinds of requests, and any number of requests, damaged *)
(* packets, repetitions and interrupts: the host and the client get out of *)
(* step by a ^C that crosses a stop without acknowledgements, or by a      *)
(* request that was repeated, and by nothing else; and until a request is  *)
(* repeated they take turns.                                               *)
(***************************************************************************)
EXTENDS GdbWire, SequenceTheorems, TLAPS

Tokens == {"ack", "nak", "intr", "open", "nothing", "body", "reply"}
Msgs == [token : Tokens, n : Nat, kind : AllKinds \cup {"none"}, ok : BOOLEAN]

WireTypeOK ==
  /\ up \in Seq(Msgs) /\ down \in Seq(Msgs)
  /\ sent \in Msgs /\ request \in Msgs
  /\ noAck \in BOOLEAN /\ cNoAck \in BOOLEAN /\ inStep \in BOOLEAN
  /\ asked \in Nat /\ handled \in Nat /\ answered \in Nat
  /\ repeated \in Nat /\ interrupts \in Nat
  /\ host = "await" => sent.token = "reply"
  /\ client = "sent" => request.token = "body"

(* What is on its way of the kind *)
Bodies(u) == {i \in 1..Len(u) : u[i].token = "body"}
Controls(d) == {i \in 1..Len(d) : d[i].token \in {"ack", "nak"}}
Naks(d) == {i \in 1..Len(d) : d[i].token = "nak"}
Intrs(u) == {i \in 1..Len(u) : u[i].token = "intr"}

(* A ^C was typed, and a resumed guest owes a stop *)
StopInv ==
  /\ Intrs(up) # {} => interrupts > 0
  /\ answered <= handled
  /\ host = "guest" => answered < handled

Single(S) == \A i, j \in S : i = j

(* Requests under way are new, and in the order they were made *)
Ahead(u, h, a) ==
  /\ \A i \in Bodies(u) : u[i].ok => h < u[i].n /\ u[i].n <= a
  /\ \A i, j \in Bodies(u) : i < j /\ u[i].ok /\ u[j].ok => u[i].n < u[j].n
Sound(u) == \A i \in Bodies(u) : u[i].ok
Current(u, a, k) == \A i \in Bodies(u) : u[i].ok => u[i].n = a /\ u[i].kind = k

NewInv == handled <= asked /\ Ahead(up, handled, asked)

(* The client waits for '+': its request is under way, or refused, or        *)
(* acknowledged, or lost                                                     *)
SentInv ==
  /\ client = "sent" => ~cNoAck /\ request.ok /\ request.n = asked
  /\ cNoAck => Sound(up)
OneInv ==
  ~cNoAck =>
    /\ Single(Bodies(up)) /\ Single(Controls(down))
    /\ Bodies(up) = {} \/ Controls(down) = {}
    /\ client \in {"idle", "wait"} => Bodies(up) = {} /\ Controls(down) = {}
    /\ Bodies(up) # {} \/ Naks(down) # {} => handled < asked
    /\ Current(up, asked, request.kind)

(* The host stops acknowledging when the client has, or will before it asks *)
AgreeInv ==
  ~cNoAck /\ (noAck \/ serving = "noack") =>
    /\ Bodies(up) = {} /\ Naks(down) = {}
    /\ client # "idle" /\ request.kind = "noack"

DialogueInv == NewInv /\ SentInv /\ OneInv /\ AgreeInv
OnceInv == repeated = 0 => DialogueInv

WireInv == WireTypeOK /\ StopInv /\ OnceInv /\ OnlyTheseConfuse
-----------------------------------------------------------------------------
(* What a stream holds when its first token is taken *)
LEMMA Taken ==
  ASSUME NEW u \in Seq(Msgs), u # <<>>
  PROVE  /\ Head(u) = u[1] /\ Head(u) \in Msgs /\ Len(u) \in Nat \ {0}
         /\ Tail(u) \in Seq(Msgs) /\ Len(Tail(u)) = Len(u) - 1
         /\ \A i \in 1..Len(u) - 1 : Tail(u)[i] = u[i + 1] /\ i + 1 \in 1..Len(u)
OBVIOUS

(* No body, ^C or control is added to a stream by taking its first token *)
LEMMA TakenUp ==
  ASSUME NEW u \in Seq(Msgs), u # <<>>
  PROVE  /\ \A i \in Bodies(Tail(u)) : i + 1 \in Bodies(u) /\ Tail(u)[i] = u[i + 1] /\ i \in Nat
         /\ Intrs(u) = {} => Intrs(Tail(u)) = {}
         /\ Head(u).token = "body" <=> 1 \in Bodies(u)
         /\ Head(u).token = "intr" => Intrs(u) # {}
<1>1. \A i \in 1..Len(Tail(u)) : i \in 1..Len(u) - 1 /\ i \in Nat
  BY Taken
<1>2. ASSUME NEW i \in Bodies(Tail(u))
      PROVE  i + 1 \in Bodies(u) /\ Tail(u)[i] = u[i + 1] /\ i \in Nat
  BY <1>1, Taken DEF Bodies
<1>3. ASSUME NEW i \in Intrs(Tail(u))
      PROVE  i + 1 \in Intrs(u)
  BY <1>1, Taken DEF Intrs
<1>4. 1 \in 1..Len(u)
  BY Taken
<1> QED
  BY <1>2, <1>3, <1>4, Taken DEF Bodies, Intrs

(* What is ahead of a body stays ahead of it *)
LEMMA TakenAhead ==
  ASSUME NEW u \in Seq(Msgs), u # <<>>, NEW h \in Nat, NEW a \in Nat
  PROVE  /\ Ahead(u, h, a) => Ahead(Tail(u), h, a)
         /\ Sound(u) => Sound(Tail(u))
         /\ Single(Bodies(u)) => Single(Bodies(Tail(u)))
         /\ Bodies(u) = {} => Bodies(Tail(u)) = {}
         /\ \A k : Current(u, a, k) => Current(Tail(u), a, k)
<1>1. \A i \in Bodies(Tail(u)) : i + 1 \in Bodies(u) /\ Tail(u)[i] = u[i + 1] /\ i \in Nat
  BY TakenUp
<1>2. \A i, j \in Bodies(Tail(u)) : (i < j => i + 1 < j + 1) /\ (i + 1 = j + 1 => i = j)
  BY <1>1
<1>3. Ahead(u, h, a) => Ahead(Tail(u), h, a)
  BY <1>1, <1>2, Zenon DEF Ahead
<1>4. Sound(u) => Sound(Tail(u))
  BY <1>1, Zenon DEF Sound
<1>5. Single(Bodies(u)) => Single(Bodies(Tail(u)))
  BY <1>1, <1>2, Zenon DEF Single
<1>6. Bodies(u) = {} => Bodies(Tail(u)) = {}
  BY <1>1
<1>7. \A k : Current(u, a, k) => Current(Tail(u), a, k)
  BY <1>1, Zenon DEF Current
<1> QED
  BY <1>3, <1>4, <1>5, <1>6, <1>7

(* The request itself is taken *)
LEMMA TakenRequest ==
  ASSUME NEW u \in Seq(Msgs), u # <<>>, Head(u).token = "body", NEW h \in Nat, NEW a \in Nat
  PROVE  /\ Single(Bodies(u)) => Bodies(Tail(u)) = {}
         /\ Bodies(u) # {}
         /\ Sound(u) => Head(u).ok
         /\ \A k : Current(u, a, k) /\ Head(u).ok => Head(u).n = a /\ Head(u).kind = k
         /\ Ahead(u, h, a) /\ Head(u).ok =>
              /\ h < Head(u).n /\ Head(u).n <= a
              /\ Ahead(Tail(u), h + 1, a)
<1>1. 1 \in Bodies(u) /\ Head(u) = u[1] /\ Head(u) \in Msgs
  BY TakenUp, Taken
<1>2. \A i \in Bodies(Tail(u)) : i + 1 \in Bodies(u) /\ Tail(u)[i] = u[i + 1] /\ i \in Nat
  BY TakenUp
<1>3. \A i \in Bodies(Tail(u)) : i \in Nat \ {0}
  BY <1>2 DEF Bodies
<1>4. Single(Bodies(u)) => Bodies(Tail(u)) = {}
  <2>1. \A i \in Bodies(Tail(u)) : i + 1 # 1
    BY <1>3
  <2> QED
    BY <1>1, <1>2, <2>1 DEF Single
<1>5. Sound(u) => Head(u).ok
  BY <1>1, Zenon DEF Sound
<1>6. \A k : Current(u, a, k) /\ Head(u).ok => Head(u).n = a /\ Head(u).kind = k
  BY <1>1, Zenon DEF Current
<1>7. ASSUME Ahead(u, h, a), Head(u).ok
      PROVE  h < Head(u).n /\ Head(u).n <= a /\ Ahead(Tail(u), h + 1, a)
  <2>1. u[1].ok
    BY <1>1, <1>7, Zenon
  <2>2. h < u[1].n /\ u[1].n <= a
    BY <1>1, <1>7, <2>1, Zenon DEF Ahead
  <2>3. \A m \in Msgs : m.n \in Nat
    BY DEF Msgs
  <2>4. \A i \in Bodies(u) : u[i] \in Msgs
    BY DEF Bodies
  <2>5. \A i \in Bodies(Tail(u)) : 1 < i + 1 /\ u[i + 1].n \in Nat
    BY <1>2, <1>3, <2>3, <2>4
  <2>6. ASSUME NEW i \in Bodies(Tail(u)), Tail(u)[i].ok
        PROVE  h + 1 < Tail(u)[i].n /\ Tail(u)[i].n <= a
    <3>1. i + 1 \in Bodies(u) /\ Tail(u)[i] = u[i + 1] /\ u[i + 1].ok
      BY <1>2, <2>6, Zenon
    <3>2. u[1].n < u[i + 1].n /\ u[i + 1].n <= a
      BY <1>1, <1>7, <2>1, <2>5, <3>1, Zenon DEF Ahead
    <3>3. u[1].n \in Nat /\ u[i + 1].n \in Nat
      BY <1>1, <2>3, <2>5
    <3>4. \A x, y \in Nat : h < x /\ x < y => h + 1 < y
      OBVIOUS
    <3>5. h + 1 < u[i + 1].n
      BY <2>2, <3>2, <3>3, <3>4, Zenon
    <3> QED
      BY <3>1, <3>2, <3>5, Zenon
  <2>7. Ahead(Tail(u), h, a)
    BY <1>7, TakenAhead
  <2> QED
    BY <1>1, <2>2, <2>6, <2>7, Zenon DEF Ahead
<1> QED
  BY <1>1, <1>4, <1>5, <1>6, <1>7

(* A token that is neither a body nor a control changes neither *)
LEMMA PutOther ==
  ASSUME NEW u \in Seq(Msgs), NEW t \in Msgs
  PROVE  /\ Append(u, t) \in Seq(Msgs)
         /\ \A i \in 1..Len(u) : Append(u, t)[i] = u[i]
         /\ t.token # "body" => Bodies(Append(u, t)) = Bodies(u)
         /\ t.token # "intr" => Intrs(Append(u, t)) = Intrs(u)
         /\ t.token # "nak" => Naks(Append(u, t)) = Naks(u)
         /\ t.token \notin {"ack", "nak"} => Controls(Append(u, t)) = Controls(u)
         /\ t.token \in {"ack", "nak"} => Controls(Append(u, t)) = Controls(u) \cup {Len(u) + 1}
<1>1. /\ Len(u) \in Nat /\ Len(Append(u, t)) = Len(u) + 1
      /\ Append(u, t) \in Seq(Msgs)
      /\ \A i \in 1..Len(u) : Append(u, t)[i] = u[i]
      /\ Append(u, t)[Len(u) + 1] = t
  OBVIOUS
<1>2. 1..Len(u) + 1 = 1..Len(u) \cup {Len(u) + 1}
  BY <1>1
<1> QED
  BY <1>1, <1>2, Zenon DEF Bodies, Intrs, Naks, Controls

(* A token behind a body is not ahead of it *)
LEMMA OtherAhead ==
  ASSUME NEW u \in Seq(Msgs), NEW t \in Msgs, t.token # "body", NEW h, NEW a
  PROVE  /\ Ahead(u, h, a) => Ahead(Append(u, t), h, a)
         /\ Sound(u) => Sound(Append(u, t))
         /\ \A k : Current(u, a, k) => Current(Append(u, t), a, k)
<1>1. Bodies(Append(u, t)) = Bodies(u) /\ \A i \in Bodies(u) : Append(u, t)[i] = u[i]
  <2>1. \A i \in Bodies(u) : i \in 1..Len(u)
    BY DEF Bodies
  <2> QED
    BY <2>1, PutOther
<1> QED
  BY <1>1, Zenon DEF Ahead, Sound, Current

(* A request is put behind what is there *)
LEMMA PutRequest ==
  ASSUME NEW u \in Seq(Msgs), NEW q \in Msgs, q.token = "body"
  PROVE  /\ u \o <<Open, q>> \in Seq(Msgs)
         /\ Bodies(u \o <<Open, q>>) = Bodies(u) \cup {Len(u) + 2}
         /\ (u \o <<Open, q>>)[Len(u) + 2] = q
         /\ \A i \in Bodies(u) : (u \o <<Open, q>>)[i] = u[i] /\ i < Len(u) + 2 /\ i \in Nat
         /\ Intrs(u \o <<Open, q>>) = Intrs(u)
<1> DEFINE w == u \o <<Open, q>>
<1>1. Open \in Msgs /\ Open.token = "open"
  BY DEF Open, Token, Msgs, Tokens
<1>2. <<Open, q>> \in Seq(Msgs) /\ Len(<<Open, q>>) = 2
  BY <1>1
<1>3. /\ Len(u) \in Nat /\ Len(w) = Len(u) + 2
      /\ w \in Seq(Msgs)
      /\ \A i \in 1..Len(u) : w[i] = u[i]
      /\ w[Len(u) + 1] = Open /\ w[Len(u) + 2] = q
  <2> HIDE DEF Open
  <2> QED
    BY <1>1, <1>2
<1>4. 1..Len(u) + 2 = 1..Len(u) \cup {Len(u) + 1, Len(u) + 2}
  BY <1>3
<1> HIDE DEF w
<1>5. Bodies(w) = Bodies(u) \cup {Len(u) + 2}
  BY <1>1, <1>3, <1>4, Zenon DEF Bodies
<1>6. Intrs(w) = Intrs(u)
  BY <1>1, <1>3, <1>4, Zenon DEF Intrs
<1>7. \A i \in Bodies(u) : w[i] = u[i] /\ i < Len(u) + 2 /\ i \in Nat
  BY <1>3 DEF Bodies
<1> QED
  BY <1>3, <1>5, <1>6, <1>7 DEF w

(* The other way: acknowledgements that the client takes *)
LEMMA TakenDown ==
  ASSUME NEW d \in Seq(Msgs), d # <<>>
  PROVE  /\ Single(Controls(d)) => Single(Controls(Tail(d)))
         /\ Controls(d) = {} => Controls(Tail(d)) = {}
         /\ Naks(d) = {} => Naks(Tail(d)) = {}
         /\ Head(d).token \in {"ack", "nak"} =>
              Controls(d) # {} /\ (Single(Controls(d)) => Controls(Tail(d)) = {})
         /\ Head(d).token = "nak" => Naks(d) # {}
<1>1. \A i \in 1..Len(Tail(d)) : i \in 1..Len(d) - 1 /\ i \in Nat
  BY Taken
<1>2. \A i \in Controls(Tail(d)) : i + 1 \in Controls(d) /\ i \in Nat \ {0}
  BY <1>1, Taken DEF Controls
<1>3. \A i \in Naks(Tail(d)) : i + 1 \in Naks(d)
  BY <1>1, Taken DEF Naks
<1>4. 1 \in 1..Len(d)
  BY Taken
<1>5. Head(d).token \in {"ack", "nak"} => 1 \in Controls(d)
  BY <1>4, Taken DEF Controls
<1>6. Head(d).token = "nak" => 1 \in Naks(d)
  BY <1>4, Taken DEF Naks
<1>7. \A i, j \in Controls(Tail(d)) : (i + 1 = j + 1 => i = j) /\ i + 1 # 1
  BY <1>2
<1>8. Single(Controls(d)) => Single(Controls(Tail(d)))
  BY <1>2, <1>7, Zenon DEF Single
<1>9. 1 \in Controls(d) /\ Single(Controls(d)) => Controls(Tail(d)) = {}
  BY <1>2, <1>7, Zenon DEF Single
<1> QED
  BY <1>2, <1>3, <1>5, <1>6, <1>8, <1>9

(* Without controls there is no '-' *)
LEMMA NaksAreControls ==
  ASSUME NEW d
  PROVE  Controls(d) = {} => Naks(d) = {}
BY DEF Controls, Naks
-----------------------------------------------------------------------------
(* The tokens of the two ends are messages of their kinds *)
LEMMA Tokens7 ==
  /\ Ack \in Msgs /\ Ack.token = "ack"
  /\ Nak \in Msgs /\ Nak.token = "nak"
  /\ Intr \in Msgs /\ Intr.token = "intr"
  /\ Nothing \in Msgs /\ Nothing.token = "nothing"
  /\ \A n \in Nat : Reply(n) \in Msgs /\ Reply(n).token = "reply"
  /\ \A n \in Nat, kind \in AllKinds :
       /\ Body(n, kind) \in Msgs /\ Body(n, kind).token = "body" /\ Body(n, kind).ok
       /\ Body(n, kind).n = n /\ Body(n, kind).kind = kind
BY DEF Ack, Nak, Intr, Nothing, Reply, Body, Token, Msgs, Tokens

(* What arrives is of the same token *)
LEMMA Damaged ==
  ASSUME NEW p \in Msgs
  PROVE  LET q == [p EXCEPT !.n = 0, !.ok = FALSE]
         IN q \in Msgs /\ q.token = p.token /\ ~q.ok
BY DEF Msgs

(* gdb_send_packet puts an answer, perhaps damaged, behind what is there *)
LEMMA SendPacketIs ==
  ASSUME WireTypeOK, NEW p \in Msgs, p.token = "reply", NEW before \in {<<>>, <<Ack>>}, NEW kind,
         SendPacket(before, p, kind)
  PROVE  /\ down' \in Seq(Msgs)
         /\ before = <<>> => Controls(down') = Controls(down) /\ Naks(down') = Naks(down)
         /\ before = <<Ack>> => /\ Naks(down') = Naks(down)
                                /\ Controls(down) = {} => Single(Controls(down'))
         /\ noAck' = noAck /\ sent' \in Msgs
         /\ host' \in {"idle", "read", "await"}
         /\ host' = "await" => sent'.token = "reply"
         /\ serving' \in {kind, "none"}
<1>1. PICK q \in Msgs : q.token = "reply" /\ down' = down \o before \o <<q>>
  BY Damaged DEF SendPacket
<1>2. /\ noAck' = noAck /\ sent' \in Msgs
      /\ host' \in {"idle", "read", "await"}
      /\ host' = "await" => sent'.token = "reply"
      /\ serving' \in {kind, "none"}
  BY Tokens7 DEF SendPacket, Proceed, WireTypeOK
<1>3. CASE before = <<>>
  <2>1. down' = Append(down, q)
    BY <1>1, <1>3 DEF WireTypeOK
  <2>2. <<>> # <<Ack>>
    OBVIOUS
  <2> QED
    BY <1>1, <1>2, <1>3, <2>1, <2>2, PutOther DEF WireTypeOK
<1>4. CASE before = <<Ack>>
  <2> DEFINE d == Append(down, Ack)
  <2>1. down' = Append(d, q)
    BY <1>1, <1>4 DEF WireTypeOK
  <2>2. /\ d \in Seq(Msgs) /\ Naks(d) = Naks(down)
        /\ Controls(d) = Controls(down) \cup {Len(down) + 1}
    BY Tokens7, PutOther DEF WireTypeOK
  <2> HIDE DEF d
  <2>3. down' \in Seq(Msgs) /\ Naks(down') = Naks(d) /\ Controls(down') = Controls(d)
    BY <1>1, <2>1, <2>2, PutOther
  <2>4. Controls(down) = {} => Single(Controls(down'))
    BY <2>2, <2>3 DEF Single
  <2>5. <<>> # <<Ack>>
    OBVIOUS
  <2> QED
    BY <1>2, <1>4, <2>2, <2>3, <2>4, <2>5
<1> QED
  BY <1>3, <1>4

(* A stop, whoever has caused it *)
LEMMA SendStopIs ==
  ASSUME WireTypeOK, SendStop
  PROVE  /\ UNCHANGED <<client, cNoAck, request, asked, handled, noAck, repeated, interrupts>>
         /\ down' \in Seq(Msgs) /\ sent' \in Msgs
         /\ Controls(down') = Controls(down) /\ Naks(down') = Naks(down)
         /\ host' \in {"idle", "read", "await", "killed"}
         /\ host' = "await" => sent'.token = "reply"
         /\ serving' = "noack" => serving = "noack"
         /\ answered' \in Nat /\ (answered <= handled => answered' <= handled)
         /\ inStep' \in BOOLEAN /\ (inStep /\ ~inStep' => noAck /\ ~(answered < handled))
<1>1. CASE SendPacket(<<>>, Reply(handled), "stop") /\ UNCHANGED handled
             /\ answered' = (IF answered < handled THEN answered + 1 ELSE answered)
             /\ inStep' = (inStep /\ (noAck => answered < handled))
  <2>1. Reply(handled) \in Msgs /\ Reply(handled).token = "reply"
    BY Tokens7 DEF WireTypeOK
  <2>2. /\ down' \in Seq(Msgs) /\ sent' \in Msgs /\ noAck' = noAck
        /\ Controls(down') = Controls(down) /\ Naks(down') = Naks(down)
        /\ host' \in {"idle", "read", "await"}
        /\ host' = "await" => sent'.token = "reply"
        /\ serving' \in {"stop", "none"}
    BY <1>1, <2>1, SendPacketIs
  <2>3. answered' \in Nat /\ (answered <= handled => answered' <= handled)
    BY <1>1 DEF WireTypeOK
  <2>4. inStep' \in BOOLEAN /\ (inStep /\ ~inStep' => noAck /\ ~(answered < handled))
    BY <1>1, Zenon
  <2>5. UNCHANGED <<client, cNoAck, request, asked, repeated, interrupts>>
    BY DEF SendStop, clientVars
  <2> QED
    BY <1>1, <2>2, <2>3, <2>4, <2>5
<1>2. CASE BrokenPipe
  BY <1>2 DEF SendStop, BrokenPipe, WireTypeOK, clientVars
<1> QED
  BY <1>1, <1>2 DEF SendStop

(* The client puts a request, perhaps damaged, behind what is there *)
LEMMA PutsIs ==
  ASSUME NEW p \in Msgs, p.token = "body", Puts(p)
  PROVE  \E q \in Msgs : /\ q.token = "body" /\ up' = up \o <<Open, q>>
                         /\ q = p \/ (~q.ok /\ ~cNoAck)
BY Damaged DEF Puts, Travels

(* The types, under the steps of the host and of the guest *)
LEMMA HostType ==
  ASSUME WireTypeOK, Host \/ Guest \/ Call
  PROVE  WireTypeOK'
<1>1. up # <<>> => Tail(up) \in Seq(Msgs) /\ Head(up) \in Msgs
  BY Taken DEF WireTypeOK
<1>2. \A t : Reads(t) => up' \in Seq(Msgs)
  BY <1>1 DEF Reads
<1>3. CASE SendStop /\ up' \in Seq(Msgs)
  <2>1. UNCHANGED <<client, request, cNoAck, noAck, asked, handled, repeated, interrupts>>
    BY <1>3, SendStopIs
  <2>2. /\ down' \in Seq(Msgs) /\ sent' \in Msgs
        /\ host' = "await" => sent'.token = "reply"
        /\ answered' \in Nat /\ inStep' \in BOOLEAN
    BY <1>3, SendStopIs
  <2> QED
    BY <1>3, <2>1, <2>2 DEF WireTypeOK
<1>4. CASE UNCHANGED <<down, hostVars, clientVars, inStep, budgets>> /\ up' \in Seq(Msgs)
  BY <1>4 DEF WireTypeOK, hostVars, clientVars, budgets
<1>5. CASE Call \/ GuestReturns
  BY <1>5 DEF Call, GuestReturns, WireTypeOK, clientVars, budgets
<1>6. CASE OpenPacket
  BY <1>2, <1>6 DEF OpenPacket, WireTypeOK, clientVars, budgets
<1>7. CASE LoseClient
  <2>1. <<>> \in Seq(Msgs) /\ Nothing \in Msgs
    BY Tokens7
  <2>2. noAck' \in BOOLEAN
    BY <1>7, Zenon DEF LoseClient
  <2> QED
    BY <1>7, <2>1, <2>2 DEF LoseClient, WireTypeOK, clientVars, budgets
<1>8. CASE Refuse
  <2>1. Append(down, Nak) \in Seq(Msgs)
    BY Tokens7 DEF WireTypeOK
  <2>2. up' \in Seq(Msgs) /\ UNCHANGED <<client, request, cNoAck, asked, repeated, interrupts>>
    BY <1>2, <1>8 DEF Refuse, clientVars
  <2>3. CASE BrokenPipe
    BY <2>2, <2>3 DEF BrokenPipe, WireTypeOK
  <2>4. CASE /\ host' = (IF noAck THEN "idle" ELSE "read")
             /\ down' = (IF noAck THEN down ELSE Append(down, Nak))
             /\ UNCHANGED <<noAck, sent, serving, handled, answered, inStep, damaged>>
    BY <2>1, <2>2, <2>4 DEF WireTypeOK
  <2> QED
    BY <1>8, <2>3, <2>4 DEF Refuse
<1>9. CASE Handle
  <2> DEFINE p == Head(up)
             ack == IF noAck THEN <<>> ELSE <<Ack>>
  <2>1. p \in Msgs /\ up' \in Seq(Msgs)
    BY <1>1, <1>2, <1>9 DEF Handle, Reads
  <2>2. Reply(p.n) \in Msgs /\ Reply(p.n).token = "reply" /\ ack \in {<<>>, <<Ack>>}
    BY <2>1, Tokens7 DEF Msgs
  <2>3. down \o ack \in Seq(Msgs)
    BY Tokens7 DEF WireTypeOK
  <2>4. UNCHANGED <<client, cNoAck, request, asked, repeated, interrupts>>
    BY <1>9 DEF Handle, clientVars
  <2>5. CASE SendPacket(ack, Reply(p.n), p.kind) /\ handled' = handled + 1
               /\ answered' = answered + 1 /\ UNCHANGED inStep
    <3>1. /\ down' \in Seq(Msgs) /\ sent' \in Msgs /\ noAck' = noAck
          /\ host' = "await" => sent'.token = "reply"
      BY <2>2, <2>5, SendPacketIs
    <3> QED
      BY <2>1, <2>4, <2>5, <3>1 DEF WireTypeOK
  <2>6. CASE /\ host' = (IF p.kind = "resume" THEN "guest" ELSE "idle")
             /\ down' = down \o ack
             /\ handled' = handled + 1
             /\ inStep' = (inStep /\ p.n > handled)
             /\ UNCHANGED <<noAck, sent, serving, answered, damaged>>
    BY <2>1, <2>3, <2>4, <2>6 DEF WireTypeOK
  <2>7. CASE BrokenPipe
    BY <2>1, <2>4, <2>7 DEF BrokenPipe, WireTypeOK
  <2> QED
    BY <1>9, <2>5, <2>6, <2>7 DEF Handle
<1>10. CASE AwaitAck
  <2>1. up' \in Seq(Msgs) /\ UNCHANGED <<client, cNoAck, request, asked, repeated, interrupts>>
    BY <1>1, <1>10 DEF AwaitAck, clientVars
  <2>2. CASE Proceed(serving) /\ UNCHANGED <<down, handled, answered, inStep, damaged>>
    <3>1. noAck' \in BOOLEAN
      BY <2>2, Zenon DEF Proceed
    <3> QED
      BY <2>1, <2>2, <3>1, Tokens7 DEF Proceed, WireTypeOK
  <2>3. CASE SendPacket(<<>>, sent, serving) /\ UNCHANGED <<handled, answered, inStep>>
    <3>1. sent \in Msgs /\ sent.token = "reply"
      BY <1>10 DEF AwaitAck, WireTypeOK
    <3>2. /\ down' \in Seq(Msgs) /\ sent' \in Msgs /\ noAck' = noAck
          /\ host' = "await" => sent'.token = "reply"
      BY <2>3, <3>1, SendPacketIs
    <3> QED
      BY <2>1, <2>3, <3>2 DEF WireTypeOK
  <2>4. CASE BrokenPipe
    BY <1>10, <2>1, <2>4 DEF BrokenPipe, WireTypeOK
  <2>5. CASE UNCHANGED <<down, host, noAck, sent, serving, handled, answered, inStep, damaged>>
    BY <2>1, <2>5 DEF WireTypeOK
  <2> QED
    BY <1>10, <2>2, <2>3, <2>4, <2>5 DEF AwaitAck
<1> QED
  BY <1>2, <1>3, <1>4, <1>5, <1>8, <1>9, <1>10, <1>6, <1>7
     DEF Host, Guest, Skip, InterruptAtPrompt, Poll, GuestStops, WireTypeOK

(* The types, under the steps of the client *)
LEMMA ClientType ==
  ASSUME WireTypeOK, Receive \/ User
  PROVE  WireTypeOK'
<1>1. \A t : Gets(t) => down' \in Seq(Msgs) /\ Head(down) \in Msgs
  BY Taken DEF Gets, WireTypeOK
<1>2. Append(up, Ack) \in Seq(Msgs) /\ Append(up, Nak) \in Seq(Msgs) /\ Append(up, Intr) \in Seq(Msgs)
  BY Tokens7 DEF WireTypeOK
<1>3. ASSUME NEW p \in Msgs, p.token = "body", Puts(p)
      PROVE  up' \in Seq(Msgs)
  <2>1. PICK q \in Msgs : q.token = "body" /\ up' = up \o <<Open, q>>
    BY <1>3, PutsIs
  <2> QED
    BY <2>1, PutRequest DEF WireTypeOK
<1>4. CASE TakeAck
  <2>1. down' \in Seq(Msgs) /\ client' # "sent"
    BY <1>1, <1>4 DEF TakeAck, LetGo
  <2> QED
    BY <1>4, <2>1 DEF TakeAck, WireTypeOK, hostVars, budgets
<1>5. CASE DropReply \/ Leave
  BY <1>1, <1>2, <1>5 DEF DropReply, Leave, WireTypeOK, hostVars, clientVars, budgets
<1>6. CASE TakeReply
  <2>1. cNoAck' \in BOOLEAN
    BY <1>6, Zenon DEF TakeReply, WireTypeOK
  <2>2. down' \in Seq(Msgs) /\ up' \in Seq(Msgs)
    BY <1>1, <1>2, <1>6 DEF TakeReply, WireTypeOK
  <2>3. client' # "sent" /\ UNCHANGED <<hostVars, request, asked, inStep, budgets>>
    BY <1>6 DEF TakeReply
  <2> QED
    BY <2>1, <2>2, <2>3 DEF WireTypeOK, hostVars, budgets
<1>7. CASE Interrupt
  BY <1>2, <1>7 DEF Interrupt, WireTypeOK, hostVars, clientVars
<1>8. CASE TakeNak
  <2>1. down' \in Seq(Msgs) /\ up' \in Seq(Msgs)
    BY <1>1, <1>3, <1>8 DEF TakeNak, WireTypeOK
  <2>2. client' = "sent" => client = "sent"
    BY <1>8 DEF TakeNak
  <2>3. UNCHANGED <<hostVars, cNoAck, request, asked, taken, inStep, repeated, interrupts>>
    BY <1>8 DEF TakeNak
  <2> QED
    BY <2>1, <2>2, <2>3 DEF WireTypeOK, hostVars
<1>9. CASE Repeat
  BY <1>3, <1>9 DEF Repeat, WireTypeOK, hostVars, clientVars
<1>10. ASSUME NEW kind \in Kinds, Ask(kind)
      PROVE  WireTypeOK'
  <2>1. asked' = asked + 1 /\ asked' \in Nat /\ kind \in AllKinds
    BY <1>10, GdbWireAssumption DEF Ask, WireTypeOK
  <2>2. request' = Body(asked', kind) /\ request' \in Msgs /\ request'.token = "body"
    BY <1>10, <2>1, Tokens7 DEF Ask
  <2>3. up' \in Seq(Msgs)
    BY <1>3, <1>10, <2>2 DEF Ask
  <2>4. UNCHANGED <<down, hostVars, cNoAck, inStep, repeated, interrupts>>
    BY <1>10 DEF Ask
  <2> QED
    BY <2>1, <2>2, <2>3, <2>4 DEF WireTypeOK, hostVars
<1> QED
  BY <1>4, <1>6, <1>7, <1>8, <1>9, <1>10, <1>5 DEF Receive, User

(* The types, under every step *)
LEMMA TypeStep ==
  ASSUME WireTypeOK, [Next]_vars
  PROVE  WireTypeOK'
<1>1. CASE UNCHANGED vars
  BY <1>1 DEF WireTypeOK, vars, hostVars, clientVars, budgets
<1> QED
  BY <1>1, HostType, ClientType DEF Next
-----------------------------------------------------------------------------
(* Nobody but the user types a ^C *)
LEMMA NoIntr ==
  ASSUME WireTypeOK, Intrs(up) = {}, [Next]_vars, ~Interrupt
  PROVE  Intrs(up') = {}
<1>1. up # <<>> => Intrs(Tail(up)) = {}
  BY TakenUp DEF WireTypeOK
<1>2. Intrs(Append(up, Ack)) = {} /\ Intrs(Append(up, Nak)) = {}
  BY Tokens7, PutOther DEF WireTypeOK
<1>3. Intrs(<<>>) = {}
  BY DEF Intrs
<1>4. ASSUME NEW p \in Msgs, p.token = "body", Puts(p)
      PROVE  Intrs(up') = {}
  <2>1. PICK q \in Msgs : q.token = "body" /\ up' = up \o <<Open, q>>
    BY <1>4, PutsIs
  <2> QED
    BY <2>1, PutRequest DEF WireTypeOK
<1>5. CASE UNCHANGED vars
  BY <1>5 DEF vars
<1>6. CASE Host \/ Guest \/ Call
  BY <1>1, <1>3, <1>6
     DEF Host, Skip, InterruptAtPrompt, OpenPacket, Refuse, Handle, AwaitAck, LoseClient, Reads,
         Guest, Poll, GuestStops, GuestReturns, Call
<1>7. CASE Receive
  <2>1. TakeNak => up' = up \/ (Puts(request) /\ request \in Msgs /\ request.token = "body")
    BY DEF TakeNak, WireTypeOK
  <2>2. TakeAck \/ DropReply \/ TakeReply => up' \in {up, Append(up, Ack), Append(up, Nak)}
    BY DEF TakeAck, DropReply, TakeReply
  <2> QED
    BY <1>2, <1>4, <1>7, <2>1, <2>2 DEF Receive
<1>8. CASE Repeat \/ Leave
  BY <1>4, <1>8 DEF Repeat, Leave, WireTypeOK
<1>9. ASSUME NEW kind \in Kinds, Ask(kind)
      PROVE  Intrs(up') = {}
  <2>1. request' \in Msgs /\ request'.token = "body"
    BY <1>9, Tokens7, GdbWireAssumption DEF Ask, WireTypeOK
  <2> QED
    BY <1>4, <1>9, <2>1 DEF Ask
<1> QED
  BY <1>5, <1>6, <1>7, <1>8, <1>9 DEF Next, User

(* A resume is open while the guest runs, as long as they are in step *)
LEMMA StopStep ==
  ASSUME WireTypeOK, StopInv, [Next]_vars
  PROVE  StopInv'
<1>1. Intrs(up)' # {} => interrupts' > 0
  <2>1. CASE Interrupt
    BY <2>1 DEF Interrupt, WireTypeOK
  <2>2. CASE ~Interrupt
    <3>1. interrupts' = interrupts
      BY <2>2, SendStopIs
         DEF Next, Host, Skip, InterruptAtPrompt, OpenPacket, Refuse, Handle, AwaitAck, LoseClient,
             Guest, Poll, GuestStops, GuestReturns, Call, Receive, TakeAck, TakeNak, DropReply, TakeReply,
             User, Ask, Repeat, Leave, vars, budgets
    <3> QED
      BY <2>2, <3>1, NoIntr DEF StopInv
  <2> QED
    BY <2>1, <2>2
<1>2. CASE UNCHANGED <<host, answered, handled>>
  BY <1>1, <1>2 DEF StopInv
<1>3. CASE SendStop
  BY <1>1, <1>3, SendStopIs DEF StopInv
<1>4. CASE Handle
  <2>1. CASE handled' = handled + 1 /\ answered' = answered + 1 /\ host' # "guest"
    BY <1>1, <2>1 DEF StopInv, WireTypeOK
  <2>2. CASE handled' = handled + 1 /\ answered' = answered
    BY <1>1, <2>2 DEF StopInv, WireTypeOK
  <2>3. CASE BrokenPipe
    BY <1>1, <2>3 DEF StopInv, BrokenPipe
  <2>4. ASSUME NEW before, NEW p, NEW kind, SendPacket(before, p, kind)
        PROVE  host' # "guest"
    BY <2>4 DEF SendPacket, Proceed
  <2> QED
    BY <1>4, <2>1, <2>2, <2>3, <2>4 DEF Handle
<1>5. CASE AwaitAck
  <2>1. UNCHANGED <<handled, answered>> /\ host' # "guest"
    BY <1>5 DEF AwaitAck, SendPacket, Proceed, BrokenPipe
  <2> QED
    BY <1>1, <2>1 DEF StopInv
<1>6. CASE OpenPacket \/ Refuse \/ LoseClient \/ GuestReturns \/ Call
  BY <1>1, <1>6 DEF StopInv, OpenPacket, Refuse, BrokenPipe, LoseClient, GuestReturns, Call
<1>7. CASE Receive \/ User
  BY <1>2, <1>7 DEF Receive, TakeAck, TakeNak, DropReply, TakeReply, User, Ask, Repeat, Interrupt, Leave, hostVars
<1> QED
  BY <1>2, <1>3, <1>4, <1>5, <1>6, <1>7
     DEF Next, Host, Skip, InterruptAtPrompt, Guest, Poll, GuestStops, vars, hostVars
-----------------------------------------------------------------------------
(* The host reads, drops or answers; no request is carried out *)
LEMMA Passes ==
  ASSUME WireTypeOK, DialogueInv,
         up' = up \/ (up # <<>> /\ up' = Tail(up)) \/ up' = <<>>,
         handled' = handled, Controls(down') = Controls(down), Naks(down') = Naks(down),
         UNCHANGED <<client, cNoAck, request, asked>>,
         noAck' \/ serving' = "noack" => noAck \/ serving = "noack"
  PROVE  DialogueInv'
<1>1. /\ Ahead(up', handled, asked)
      /\ Sound(up) => Sound(up')
      /\ Single(Bodies(up)) => Single(Bodies(up'))
      /\ Bodies(up) = {} => Bodies(up') = {}
      /\ Current(up, asked, request.kind) => Current(up', asked, request.kind)
  <2>1. Ahead(up, handled, asked)
    BY DEF DialogueInv, NewInv
  <2>2. CASE up' = up
    BY <2>1, <2>2
  <2>3. CASE up # <<>> /\ up' = Tail(up)
    BY <2>1, <2>3, TakenAhead DEF WireTypeOK
  <2>4. CASE up' = <<>>
    <3>1. Bodies(<<>>) = {}
      BY DEF Bodies
    <3> QED
      BY <2>4, <3>1 DEF Ahead, Sound, Single, Current
  <2> QED
    BY <2>2, <2>3, <2>4
<1>2. NewInv'
  BY <1>1 DEF DialogueInv, NewInv
<1>3. SentInv'
  BY <1>1, Zenon DEF DialogueInv, SentInv
<1>4. OneInv'
  BY <1>1 DEF DialogueInv, OneInv
<1>5. AgreeInv'
  BY <1>1 DEF DialogueInv, AgreeInv
<1> QED
  BY <1>2, <1>3, <1>4, <1>5 DEF DialogueInv

(* The host asks for a request again: the '-' is under way instead of it *)
LEMMA RefuseOnce ==
  ASSUME WireTypeOK, DialogueInv, Refuse
  PROVE  DialogueInv'
<1>1. up # <<>> /\ up' = Tail(up) /\ Head(up).token = "body" /\ UNCHANGED <<client, cNoAck, request, asked>>
  BY DEF Refuse, Reads, clientVars
<1>2. CASE BrokenPipe \/ noAck
  BY <1>1, <1>2, Passes DEF Refuse, BrokenPipe
<1>3. CASE ~BrokenPipe /\ ~noAck
  <2>1. down' = Append(down, Nak) /\ UNCHANGED <<noAck, serving, handled>>
    BY <1>3 DEF Refuse
  <2>2. Controls(down') = Controls(down) \cup {Len(down) + 1}
    BY <2>1, Tokens7, PutOther DEF WireTypeOK
  <2>3. /\ Ahead(up', handled, asked)
        /\ Sound(up) => Sound(up')
        /\ Single(Bodies(up)) => Bodies(up') = {}
        /\ Bodies(up) # {}
    BY <1>1, TakenAhead, TakenRequest DEF WireTypeOK, DialogueInv, NewInv
  <2>4. NewInv'
    BY <1>1, <2>1, <2>3 DEF DialogueInv, NewInv
  <2>5. SentInv'
    BY <1>1, <2>3, Zenon DEF DialogueInv, SentInv
  <2>6. OneInv'
    <3> SUFFICES ASSUME ~cNoAck
                 PROVE  /\ Bodies(up') = {} /\ Single(Controls(down'))
                        /\ client \notin {"idle", "wait"} /\ handled < asked
      BY <1>1, <2>1 DEF OneInv, Single, Current
    <3>1. Bodies(up') = {} /\ Controls(down) = {} /\ client \notin {"idle", "wait"} /\ handled < asked
      BY <2>3 DEF DialogueInv, OneInv
    <3> QED
      BY <2>2, <3>1 DEF Single
  <2>7. AgreeInv'
    BY <1>1, <1>3, <2>1, <2>3 DEF DialogueInv, AgreeInv
  <2> QED
    BY <2>4, <2>5, <2>6, <2>7 DEF DialogueInv
<1> QED
  BY <1>2, <1>3

(* The host carries a request out: it is the client's latest *)
LEMMA HandleOnce ==
  ASSUME WireTypeOK, DialogueInv, Handle
  PROVE  /\ DialogueInv'
         /\ ~BrokenPipe => Head(up).n > handled
<1> DEFINE p == Head(up)
           ack == IF noAck THEN <<>> ELSE <<Ack>>
<1>1. /\ up # <<>> /\ up' = Tail(up) /\ p.token = "body" /\ p \in Msgs
      /\ noAck \/ p.ok
      /\ UNCHANGED <<client, cNoAck, request, asked>>
  BY Taken DEF Handle, Reads, Accepts, clientVars, WireTypeOK
<1>2. /\ Sound(up) => Sound(up') /\ p.ok
      /\ Single(Bodies(up)) => Bodies(up') = {}
      /\ Bodies(up) # {}
      /\ Current(up, asked, request.kind) /\ p.ok => p.n = asked /\ p.kind = request.kind
      /\ Ahead(up, handled, asked) /\ p.ok =>
           handled < p.n /\ p.n <= asked /\ Ahead(up', handled + 1, asked)
  BY <1>1, TakenAhead, TakenRequest DEF WireTypeOK
<1>3. p.ok
  <2>1. CASE cNoAck
    BY <1>2, <2>1, Zenon DEF DialogueInv, SentInv
  <2>2. CASE ~cNoAck
    BY <1>1, <1>2, <2>2, Zenon DEF DialogueInv, AgreeInv
  <2> QED
    BY <2>1, <2>2
<1>4. handled < p.n /\ p.n <= asked /\ Ahead(up', handled + 1, asked)
  BY <1>2, <1>3, Zenon DEF DialogueInv, NewInv
<1>5. CASE BrokenPipe
  BY <1>1, <1>5, Passes DEF BrokenPipe
<1>6. CASE ~BrokenPipe
  <2>1. /\ handled' = handled + 1 /\ noAck' = noAck
        /\ Controls(down) = {} => Single(Controls(down'))
        /\ Naks(down') = Naks(down)
        /\ serving' = "noack" => serving = "noack" \/ p.kind = "noack"
    <3>1. CASE SendPacket(ack, Reply(p.n), p.kind) /\ handled' = handled + 1
      <4>1. Reply(p.n) \in Msgs /\ Reply(p.n).token = "reply" /\ ack \in {<<>>, <<Ack>>}
        BY <1>1, Tokens7 DEF Msgs
      <4>2. /\ ack = <<>> => Controls(down') = Controls(down) /\ Naks(down') = Naks(down)
            /\ ack = <<Ack>> => /\ Naks(down') = Naks(down)
                                /\ Controls(down) = {} => Single(Controls(down'))
            /\ noAck' = noAck /\ serving' \in {p.kind, "none"}
        BY <3>1, <4>1, SendPacketIs
      <4> QED
        BY <3>1, <4>1, <4>2 DEF Single
    <3>2. CASE down' = down \o ack /\ handled' = handled + 1 /\ UNCHANGED <<noAck, serving>>
      <4>1. CASE noAck
        BY <3>2, <4>1 DEF WireTypeOK, Single
      <4>2. CASE ~noAck
        <5>1. down' = Append(down, Ack)
          BY <3>2, <4>2 DEF WireTypeOK
        <5>2. Naks(down') = Naks(down) /\ Controls(down') = Controls(down) \cup {Len(down) + 1}
          BY <5>1, Tokens7, PutOther DEF WireTypeOK
        <5> QED
          BY <3>2, <5>2 DEF Single
      <4> QED
        BY <4>1, <4>2
    <3> QED
      BY <1>6, <3>1, <3>2 DEF Handle
  <2>2. NewInv'
    BY <1>1, <1>4, <2>1 DEF NewInv, WireTypeOK, Msgs
  <2>3. SentInv'
    BY <1>1, <1>2, Zenon DEF DialogueInv, SentInv
  <2>4. ~cNoAck => /\ Bodies(up') = {} /\ Controls(down) = {} /\ Naks(down) = {} /\ ~noAck /\ serving # "noack"
                   /\ client \notin {"idle", "wait"}
                   /\ p.kind = request.kind
    BY <1>2, <1>3, NaksAreControls DEF DialogueInv, OneInv, AgreeInv
  <2>5. OneInv'
    BY <1>1, <2>1, <2>4 DEF OneInv, Single, Current
  <2>6. AgreeInv'
    BY <1>1, <2>1, <2>4 DEF AgreeInv
  <2> QED
    BY <1>4, <2>2, <2>3, <2>5, <2>6 DEF DialogueInv, WireTypeOK, Msgs
<1> QED
  BY <1>5, <1>6

(* Requests are under way once, under the steps of the host and the guest *)
LEMMA HostOnce ==
  ASSUME WireTypeOK, DialogueInv, Host \/ Guest \/ Call
  PROVE  DialogueInv'
<1>1. CASE SendStop /\ (up' = up \/ (up # <<>> /\ up' = Tail(up)))
  BY <1>1, SendStopIs, Passes
<1>2. CASE Skip \/ OpenPacket \/ (Poll /\ ~SendStop)
  <2>1. up # <<>> /\ up' = Tail(up) /\ UNCHANGED <<down, noAck, serving, handled, client, cNoAck, request, asked>>
    BY <1>2 DEF Skip, OpenPacket, Poll, Reads, hostVars, clientVars
  <2> QED
    BY <2>1, Passes
<1>3. CASE AwaitAck
  <2>1. up # <<>> /\ up' = Tail(up) /\ UNCHANGED <<client, cNoAck, request, asked>>
    BY <1>3 DEF AwaitAck, clientVars
  <2>2. /\ Controls(down') = Controls(down) /\ Naks(down') = Naks(down) /\ handled' = handled
        /\ noAck' \/ serving' = "noack" => noAck \/ serving = "noack"
    <3>1. CASE SendPacket(<<>>, sent, serving) /\ UNCHANGED handled
      <4>1. sent \in Msgs /\ sent.token = "reply"
        BY <1>3 DEF AwaitAck, WireTypeOK
      <4> QED
        BY <3>1, <4>1, SendPacketIs
    <3>2. CASE Proceed(serving) /\ UNCHANGED <<down, handled>>
      BY <3>2 DEF Proceed
    <3>3. CASE BrokenPipe
      BY <3>3 DEF BrokenPipe
    <3>4. CASE UNCHANGED <<down, noAck, serving, handled>>
      BY <3>4
    <3> QED
      BY <1>3, <3>1, <3>2, <3>3, <3>4 DEF AwaitAck
  <2> QED
    BY <2>1, <2>2, Passes
<1>4. CASE LoseClient
  <2>1. up' = <<>> /\ UNCHANGED <<down, handled, client, cNoAck, request, asked>>
    BY <1>4 DEF LoseClient, clientVars
  <2>2. noAck' \/ serving' = "noack" => noAck \/ serving = "noack"
    BY <1>4 DEF LoseClient
  <2> QED
    BY <2>1, <2>2, Passes
<1>5. CASE GuestReturns \/ Call
  <2>1. UNCHANGED <<up, down, noAck, serving, handled, client, cNoAck, request, asked>>
    BY <1>5 DEF GuestReturns, Call, clientVars
  <2> QED
    BY <2>1, Passes
<1>6. InterruptAtPrompt \/ GuestStops \/ (Poll /\ SendStop) =>
        SendStop /\ (up' = up \/ (up # <<>> /\ up' = Tail(up)))
  BY DEF InterruptAtPrompt, GuestStops, Poll, Reads
<1> QED
  BY <1>1, <1>2, <1>3, <1>4, <1>5, <1>6, RefuseOnce, HandleOnce DEF Host, Guest

(* A request that was asked, or was refused, is under way *)
LEMMA PutOnce ==
  ASSUME WireTypeOK, NEW p \in Msgs, p.token = "body", p.ok, Puts(p),
         NEW a \in Nat, NEW h \in Nat, NEW old \in Nat, Ahead(up, h, old), old <= a, p.n = a, h < a,
         \A i \in Bodies(up) : old < a
  PROVE  /\ Ahead(up', h, a)
         /\ cNoAck /\ Sound(up) => Sound(up')
         /\ Bodies(up) = {} => Single(Bodies(up')) /\ \A k : k = p.kind => Current(up', a, k)
<1>1. PICK q \in Msgs : q.token = "body" /\ up' = up \o <<Open, q>> /\ (q = p \/ (~q.ok /\ ~cNoAck))
  BY PutsIs
<1> DEFINE new == Len(up) + 2
<1>2. /\ Bodies(up') = Bodies(up) \cup {new}
      /\ up'[new] = q
      /\ \A i \in Bodies(up) : up'[i] = up[i] /\ i < new /\ i \in Nat
  BY <1>1, PutRequest DEF WireTypeOK
<1>3. new \in Nat /\ \A i \in Bodies(up) : up[i].n \in Nat
  <2>1. Len(up) \in Nat /\ \A i \in 1..Len(up) : up[i] \in Msgs
    BY DEF WireTypeOK
  <2>2. \A m \in Msgs : m.n \in Nat
    BY DEF Msgs
  <2> QED
    BY <2>1, <2>2 DEF Bodies
<1> HIDE DEF new
<1>4. q.ok => q = p
  BY <1>1, Zenon
<1>5. cNoAck /\ Sound(up) => Sound(up')
  BY <1>1, <1>2, Zenon DEF Sound
<1>6. Bodies(up) = {} => Single(Bodies(up')) /\ \A k : k = p.kind => Current(up', a, k)
  BY <1>2, <1>4, Zenon DEF Single, Current
<1>7. ASSUME NEW i \in Bodies(up'), up'[i].ok
      PROVE  h < up'[i].n /\ up'[i].n <= a
  <2>1. CASE i = new
    BY <1>2, <1>4, <1>7, <2>1
  <2>2. CASE i # new
    <3>1. i \in Bodies(up) /\ up'[i] = up[i] /\ up[i].ok
      BY <1>2, <1>7, <2>2, Zenon
    <3>2. h < up[i].n /\ up[i].n <= old
      BY <3>1, Zenon DEF Ahead
    <3> QED
      BY <1>3, <3>1, <3>2
  <2> QED
    BY <2>1, <2>2
<1>8. ASSUME NEW i \in Bodies(up'), NEW j \in Bodies(up'), i < j, up'[i].ok, up'[j].ok
      PROVE  up'[i].n < up'[j].n
  <2>1. i \in Bodies(up)
    BY <1>2, <1>3, <1>8
  <2>2. up'[i] = up[i] /\ up[i].ok
    BY <1>2, <1>8, <2>1, Zenon
  <2>3. CASE j = new
    <3>1. up'[j].n = a
      BY <1>2, <1>4, <1>8, <2>3
    <3>2. up[i].n <= old /\ old < a
      BY <2>1, <2>2, Zenon DEF Ahead
    <3> QED
      BY <1>3, <2>1, <2>2, <3>1, <3>2
  <2>4. CASE j # new
    <3>1. j \in Bodies(up) /\ up'[j] = up[j] /\ up[j].ok
      BY <1>2, <1>8, <2>4, Zenon
    <3> QED
      BY <1>8, <2>1, <2>2, <3>1, Zenon DEF Ahead
  <2> QED
    BY <2>3, <2>4
<1>9. Ahead(up', h, a)
  BY <1>7, <1>8, Zenon DEF Ahead
<1> QED
  BY <1>5, <1>6, <1>9

(* The client takes what has come; it asks nothing *)
LEMMA ClientPasses ==
  ASSUME WireTypeOK, DialogueInv,
         down' = down \/ (down # <<>> /\ down' = Tail(down)),
         up' \in {up, Append(up, Ack), Append(up, Nak), Append(up, Intr)},
         UNCHANGED <<hostVars, request, asked>>,
         client' = "sent" => client = "sent" /\ cNoAck' = cNoAck,
         cNoAck => cNoAck', ~cNoAck /\ cNoAck' => client = "wait",
         client' \in {"idle", "wait"} /\ ~cNoAck' => Bodies(up) = {} /\ Controls(down') = {},
         client' = "idle" => client = "idle" \/ request.kind # "noack" \/ cNoAck'
  PROVE  DialogueInv'
<1>1. /\ Bodies(up') = Bodies(up)
      /\ Ahead(up, handled, asked) => Ahead(up', handled, asked)
      /\ Sound(up) => Sound(up')
      /\ Current(up, asked, request.kind) => Current(up', asked, request.kind)
  <2>1. CASE up' = up
    BY <2>1
  <2>2. ASSUME NEW t \in {Ack, Nak, Intr}, up' = Append(up, t)
        PROVE  /\ Bodies(up') = Bodies(up)
               /\ Ahead(up, handled, asked) => Ahead(up', handled, asked)
               /\ Sound(up) => Sound(up')
               /\ Current(up, asked, request.kind) => Current(up', asked, request.kind)
    <3>1. t \in Msgs /\ t.token # "body"
      BY Tokens7
    <3> QED
      BY <2>2, <3>1, PutOther, OtherAhead DEF WireTypeOK
  <2> QED
    BY <2>1, <2>2
<1>2. /\ Single(Controls(down)) => Single(Controls(down'))
      /\ Controls(down) = {} => Controls(down') = {}
      /\ Naks(down) = {} => Naks(down') = {}
  BY TakenDown DEF WireTypeOK
<1>3. UNCHANGED <<noAck, serving, handled>>
  BY DEF hostVars
<1>4. NewInv'
  BY <1>1, <1>3 DEF DialogueInv, NewInv
<1>5. Bodies(up) = {} => Sound(up')
  BY <1>1 DEF Sound
<1>6. SentInv'
  <2>1. cNoAck' => Sound(up')
    <3>1. CASE cNoAck
      BY <1>1, <3>1, Zenon DEF DialogueInv, SentInv
    <3>2. CASE ~cNoAck /\ cNoAck'
      BY <1>5, <3>2, Zenon DEF DialogueInv, OneInv
    <3> QED
      BY <3>1, <3>2
  <2>2. client' = "sent" => ~cNoAck' /\ request.ok /\ request.n = asked
    BY Zenon DEF DialogueInv, SentInv
  <2> QED
    BY <2>1, <2>2, Zenon DEF SentInv
<1>7. OneInv'
  <2> SUFFICES ASSUME ~cNoAck'
               PROVE  /\ Single(Bodies(up')) /\ Single(Controls(down'))
                      /\ Bodies(up') = {} \/ Controls(down') = {}
                      /\ client' \in {"idle", "wait"} => Bodies(up') = {} /\ Controls(down') = {}
                      /\ Bodies(up') # {} \/ Naks(down') # {} => handled < asked
                      /\ Current(up', asked, request.kind)
    BY <1>3 DEF OneInv
  <2>1. ~cNoAck
    OBVIOUS
  <2> QED
    BY <1>1, <1>2, <2>1 DEF DialogueInv, OneInv
<1>8. AgreeInv'
  BY <1>1, <1>2, <1>3 DEF DialogueInv, AgreeInv
<1> QED
  BY <1>4, <1>6, <1>7, <1>8 DEF DialogueInv

(* ... of the client that receives *)
LEMMA ReceiveOnce ==
  ASSUME WireTypeOK, DialogueInv, Receive
  PROVE  DialogueInv'
<1>1. down # <<>> /\ down' = Tail(down)
  BY DEF Receive, TakeAck, TakeNak, DropReply, TakeReply, Gets
<1>2. Controls(down) = {} => Controls(down') = {}
  BY <1>1, TakenDown DEF WireTypeOK
<1>3. ~cNoAck /\ client \in {"idle", "wait"} => Bodies(up) = {} /\ Controls(down) = {}
  BY DEF DialogueInv, OneInv
<1>4. CASE TakeAck
  <2>1. Head(down).token = "ack" /\ client' \in {"wait", "gone"}
    BY <1>4 DEF TakeAck, LetGo, Gets
  <2>2. Controls(down) # {} /\ (Single(Controls(down)) => Controls(down') = {})
    BY <1>1, <2>1, TakenDown DEF WireTypeOK
  <2>3. ~cNoAck => Bodies(up) = {} /\ Controls(down') = {}
    BY <2>2 DEF DialogueInv, OneInv
  <2> QED
    BY <1>1, <1>4, <2>1, <2>3, ClientPasses DEF TakeAck
<1>5. CASE DropReply
  <2>1. client' = client /\ client = "sent" /\ UNCHANGED <<hostVars, request, asked, cNoAck>>
    BY <1>5 DEF DropReply, clientVars
  <2> QED
    BY <1>1, <1>5, <2>1, ClientPasses DEF DropReply
<1>6. CASE TakeReply
  <2>1. client = "wait" /\ client' \in {"wait", "gone", "idle"} /\ UNCHANGED <<hostVars, request, asked>>
    BY <1>6 DEF TakeReply
  <2>2. cNoAck => cNoAck'
    BY <1>6, Zenon DEF TakeReply
  <2>3. client' = "idle" => request.kind # "noack" \/ cNoAck'
    BY <1>6, <2>1, Zenon DEF TakeReply
  <2>4. up' \in {up, Append(up, Ack), Append(up, Nak), Append(up, Intr)}
    BY <1>6 DEF TakeReply
  <2> QED
    BY <1>1, <1>2, <1>3, <2>1, <2>2, <2>3, <2>4, ClientPasses
<1>7. CASE TakeNak
  <2>1. UNCHANGED <<hostVars, cNoAck, request, asked>>
    BY <1>7 DEF TakeNak
  <2>2. CASE up' = up /\ (client' = "gone" \/ (client = "wait" /\ client' = client))
    BY <1>1, <1>2, <1>3, <2>1, <2>2, ClientPasses
  <2>3. CASE client = "sent" /\ Puts(request) /\ client' = client
    <3>1. /\ Controls(down) # {} /\ Naks(down) # {}
          /\ Single(Controls(down)) => Controls(down') = {}
      BY <1>1, <1>7, TakenDown DEF TakeNak, Gets, WireTypeOK
    <3>2. /\ ~cNoAck /\ request.ok /\ request.n = asked
          /\ Bodies(up) = {} /\ Controls(down') = {} /\ handled < asked
          /\ Ahead(up, handled, asked)
      BY <2>3, <3>1 DEF DialogueInv, SentInv, OneInv, NewInv
    <3>3. request \in Msgs /\ request.token = "body"
      BY <2>3 DEF WireTypeOK
    <3>4. /\ Ahead(up', handled, asked)
          /\ Single(Bodies(up')) /\ Current(up', asked, request.kind)
      BY <2>3, <3>2, <3>3, PutOnce DEF WireTypeOK
    <3>5. NewInv'
      BY <2>1, <3>4 DEF DialogueInv, NewInv, hostVars
    <3>6. SentInv'
      BY <2>1, <2>3, <3>2 DEF SentInv
    <3>7. OneInv'
      BY <2>1, <2>3, <3>2, <3>4 DEF OneInv, Single, hostVars
    <3>8. AgreeInv'
      BY <2>1, <3>1, <3>2 DEF DialogueInv, AgreeInv, hostVars
    <3> QED
      BY <3>5, <3>6, <3>7, <3>8 DEF DialogueInv
  <2> QED
    BY <1>7, <2>2, <2>3 DEF TakeNak
<1> QED
  BY <1>4, <1>5, <1>6, <1>7 DEF Receive

(* ... of its user *)
LEMMA UserOnce ==
  ASSUME WireTypeOK, DialogueInv, User, ~Repeat
  PROVE  DialogueInv'
<1>1. CASE Interrupt \/ Leave
  <2>1. UNCHANGED <<down, hostVars, cNoAck, request, asked>> /\ (client' = client \/ client' = "gone")
    BY <1>1 DEF Interrupt, Leave, clientVars
  <2>2. up' \in {up, Append(up, Ack), Append(up, Nak), Append(up, Intr)}
    BY <1>1 DEF Interrupt, Leave
  <2>3. ~cNoAck /\ client \in {"idle", "wait"} => Bodies(up) = {} /\ Controls(down) = {}
    BY DEF DialogueInv, OneInv
  <2> QED
    BY <2>1, <2>2, <2>3, ClientPasses
<1>2. ASSUME NEW kind \in Kinds, Ask(kind)
      PROVE  DialogueInv'
  <2>1. /\ asked' = asked + 1 /\ asked' \in Nat /\ request' = Body(asked', kind)
        /\ client = "idle" /\ client' = (IF cNoAck THEN LetGo ELSE "sent")
        /\ Puts(request') /\ UNCHANGED <<down, hostVars, cNoAck>>
    BY <1>2 DEF Ask, WireTypeOK
  <2>2. /\ request' \in Msgs /\ request'.token = "body" /\ request'.ok /\ request'.n = asked'
    BY <2>1, Tokens7, GdbWireAssumption
  <2>3. handled <= asked /\ Ahead(up, handled, asked) /\ handled \in Nat /\ asked \in Nat
    BY DEF DialogueInv, NewInv, WireTypeOK
  <2>4. /\ Ahead(up', handled, asked')
        /\ cNoAck /\ Sound(up) => Sound(up')
        /\ Bodies(up) = {} => Single(Bodies(up')) /\ Current(up', asked', request'.kind)
    <3>1. handled < asked' /\ asked <= asked' /\ asked < asked'
      BY <2>1, <2>3
    <3> QED
      BY <2>1, <2>2, <2>3, <3>1, PutOnce
  <2>5. ~cNoAck => Bodies(up) = {} /\ Controls(down) = {} /\ ~noAck /\ serving # "noack"
    BY <2>1 DEF DialogueInv, OneInv, AgreeInv
  <2>6. NewInv'
    BY <2>1, <2>3, <2>4 DEF NewInv, hostVars
  <2>7. SentInv'
    <3>1. cNoAck => client' # "sent"
      BY <2>1 DEF LetGo
    <3> QED
      BY <2>1, <2>2, <2>4, <3>1, Zenon DEF DialogueInv, SentInv
  <2>8. OneInv'
    <3>1. ~cNoAck => client' = "sent" /\ handled < asked'
      BY <2>1, <2>3
    <3> QED
      BY <2>1, <2>4, <2>5, <3>1 DEF OneInv, Single, hostVars
  <2>9. AgreeInv'
    BY <2>1, <2>5 DEF AgreeInv, hostVars
  <2> QED
    BY <2>6, <2>7, <2>8, <2>9 DEF DialogueInv
<1> QED
  BY <1>1, <1>2 DEF User

(* ... and of every one, for as long as no request is repeated *)
LEMMA OnceStep ==
  ASSUME WireTypeOK, OnceInv, [Next]_vars
  PROVE  OnceInv'
<1> SUFFICES ASSUME repeated' = 0
             PROVE  DialogueInv'
  BY DEF OnceInv
<1>1. CASE Repeat
  BY <1>1 DEF Repeat, WireTypeOK
<1>2. CASE UNCHANGED vars
  <2>1. DialogueInv
    BY <1>2 DEF OnceInv, vars, budgets
  <2> QED
    BY <1>2, <2>1
       DEF DialogueInv, NewInv, SentInv, OneInv, AgreeInv, vars, hostVars, clientVars, budgets
<1>3. CASE Next /\ ~Repeat
  <2>1. repeated' = repeated
    BY <1>3, SendStopIs
       DEF Next, Host, Skip, InterruptAtPrompt, OpenPacket, Refuse, Handle, AwaitAck, LoseClient,
           Guest, Poll, GuestStops, GuestReturns, Call, Receive, TakeAck, TakeNak, DropReply, TakeReply,
           User, Ask, Interrupt, Leave, vars, budgets
  <2>2. DialogueInv
    BY <2>1 DEF OnceInv
  <2> QED
    BY <1>3, <2>2, HostOnce, ReceiveOnce, UserOnce DEF Next
<1> QED
  BY <1>1, <1>2, <1>3

(* Only the bounds' own actions count *)
LEMMA CountedStep ==
  ASSUME WireTypeOK, [Next]_vars
  PROVE  interrupts' >= interrupts /\ repeated' >= repeated
<1>1. CASE Interrupt \/ Repeat
  BY <1>1 DEF Interrupt, Repeat, WireTypeOK
<1>2. CASE ~(Interrupt \/ Repeat)
  <2>1. UNCHANGED <<repeated, interrupts>>
    BY <1>2, SendStopIs
       DEF Next, Host, Skip, InterruptAtPrompt, OpenPacket, Refuse, Handle, AwaitAck, LoseClient,
           Guest, Poll, GuestStops, GuestReturns, Call, Receive, TakeAck, TakeNak, DropReply, TakeReply,
           User, Ask, Leave, vars, budgets
  <2> QED
    BY <2>1 DEF WireTypeOK
<1> QED
  BY <1>1, <1>2

(* Acknowledgements, once given up, are never taken up again *)
LEMMA NoAckStep ==
  ASSUME WireTypeOK, [Next]_vars, noAck
  PROVE  noAck'
<1>1. CASE SendStop
  BY <1>1, SendStopIs
<1>2. ASSUME NEW before, NEW p, NEW kind, SendPacket(before, p, kind)
      PROVE  noAck'
  BY <1>2 DEF SendPacket, Proceed
<1>3. CASE Handle
  BY <1>2, <1>3 DEF Handle, BrokenPipe
<1>4. CASE AwaitAck
  BY <1>2, <1>4 DEF AwaitAck, Proceed, BrokenPipe
<1>5. CASE LoseClient \/ Refuse
  BY <1>5 DEF LoseClient, Refuse, BrokenPipe
<1> QED
  BY <1>1, <1>3, <1>4, <1>5
     DEF Next, Host, Skip, InterruptAtPrompt, OpenPacket,
         Guest, Poll, GuestStops, GuestReturns, Call, Receive, TakeAck, TakeNak, DropReply, TakeReply,
         User, Ask, Repeat, Interrupt, Leave, vars, hostVars

(* What gets them out of step *)
LEMMA ConfuseStep ==
  ASSUME WireInv, [Next]_vars
  PROVE  OnlyTheseConfuse'
<1>1. /\ WireTypeOK
      /\ interrupts > 0 => interrupts' > 0
      /\ repeated # 0 => repeated' > 0
      /\ noAck => noAck'
  <2>1. WireTypeOK /\ WireTypeOK'
    BY TypeStep DEF WireInv
  <2>2. interrupts' >= interrupts /\ repeated' >= repeated /\ (noAck => noAck')
    BY <2>1, CountedStep, NoAckStep
  <2>3. interrupts \in Nat /\ interrupts' \in Nat /\ repeated \in Nat /\ repeated' \in Nat
    BY <2>1 DEF WireTypeOK
  <2> QED
    BY <2>1, <2>2, <2>3
<1>2. CASE ~inStep
  <2>1. (noAck /\ interrupts > 0) \/ repeated > 0
    BY <1>2 DEF WireInv, OnlyTheseConfuse
  <2>2. repeated > 0 => repeated # 0
    OBVIOUS
  <2> QED
    BY <1>1, <2>1, <2>2, Zenon DEF OnlyTheseConfuse
<1>3. CASE inStep /\ inStep' = inStep
  BY <1>3 DEF OnlyTheseConfuse
<1>4. CASE inStep /\ ~inStep' /\ Handle
  <2>1. CASE repeated = 0
    <3>1. DialogueInv
      BY <2>1 DEF WireInv, OnceInv
    <3>2. ~BrokenPipe => Head(up).n > handled
      BY <1>1, <1>4, <3>1, HandleOnce
    <3>3. inStep'
      BY <1>4, <3>2, Zenon DEF Handle, BrokenPipe
    <3> QED
      BY <1>4, <3>3
  <2>2. CASE repeated # 0
    <3>1. repeated' > 0
      BY <1>1, <2>2
    <3> QED
      BY <3>1 DEF OnlyTheseConfuse
  <2> QED
    BY <2>1, <2>2
<1>5. CASE inStep /\ ~inStep' /\ SendStop
  <2>1. noAck' /\ ~(answered < handled)
    BY <1>1, <1>5, SendStopIs
  <2>2. CASE InterruptAtPrompt
    <3>1. up # <<>> /\ Head(up).token = "intr"
      BY <2>2 DEF InterruptAtPrompt, Reads
    <3>2. interrupts > 0
      BY <3>1, TakenUp DEF WireInv, WireTypeOK, StopInv
    <3>3. interrupts' > 0
      BY <1>1, <3>2
    <3> QED
      BY <2>1, <3>3 DEF OnlyTheseConfuse
  <2>3. CASE host = "guest"
    BY <2>1, <2>3 DEF WireInv, StopInv
  <2>4. CASE host # "guest" /\ ~InterruptAtPrompt
    <3>1. inStep' = inStep \/ Handle
      BY <2>4 DEF Next, Host, Skip, OpenPacket, Refuse, BrokenPipe, AwaitAck, LoseClient,
         Guest, Poll, GuestStops, GuestReturns, Call, Receive, TakeAck, TakeNak, DropReply, TakeReply,
         User, Ask, Repeat, Interrupt, Leave, vars
    <3> QED
      BY <1>5, <1>4, <3>1
  <2> QED
    BY <2>2, <2>3, <2>4
<1>6. CASE AwaitAck
  <2>1. inStep' = inStep
    BY <1>6 DEF AwaitAck, BrokenPipe
  <2> QED
    BY <1>2, <1>3, <2>1
<1> QED
  BY <1>2, <1>3, <1>4, <1>5, <1>6
     DEF Next, Host, Skip, InterruptAtPrompt, OpenPacket, Refuse, BrokenPipe, LoseClient,
         Guest, Poll, GuestStops, GuestReturns, Call, Receive, TakeAck, TakeNak, DropReply, TakeReply,
         User, Ask, Repeat, Interrupt, Leave, vars

(* The inductive invariant: in step, and while nothing is repeated, there   *)
(* is one copy of the latest request on its way, or a '-' that asks for it, *)
(* or it has been carried out.                                              *)
THEOREM SpecWireInv == Spec => []WireInv
<1>1. Init => WireInv
  <2> SUFFICES ASSUME Init
               PROVE  WireInv
    OBVIOUS
  <2>1. WireTypeOK
    <3>1. Nothing \in Msgs /\ <<>> \in Seq(Msgs)
      BY Tokens7
    <3>2. up = <<>> /\ down = <<>> /\ sent = Nothing /\ request = Nothing /\ host = "idle" /\ client = "idle"
      BY DEF Init
    <3>3. noAck \in BOOLEAN /\ cNoAck \in BOOLEAN /\ inStep \in BOOLEAN
      BY Zenon DEF Init
    <3>4. asked \in Nat /\ handled \in Nat /\ answered \in Nat /\ repeated \in Nat /\ interrupts \in Nat
      BY DEF Init
    <3> QED
      BY <3>1, <3>2, <3>3, <3>4 DEF WireTypeOK
  <2>2. Bodies(<<>>) = {} /\ Controls(<<>>) = {} /\ Naks(<<>>) = {} /\ Intrs(<<>>) = {}
    BY DEF Bodies, Controls, Naks, Intrs
  <2>3. StopInv
    BY <2>2 DEF Init, StopInv
  <2>4. OnceInv
    <3>1. Ahead(up, handled, asked) /\ NewInv
      BY <2>2 DEF Init, NewInv, Ahead
    <3>2. SentInv /\ AgreeInv
      BY <2>2 DEF Init, SentInv, AgreeInv, Sound
    <3>3. OneInv
      BY <2>2 DEF Init, OneInv, Single, Current
    <3> QED
      BY <3>1, <3>2, <3>3 DEF OnceInv, DialogueInv
  <2>5. OnlyTheseConfuse
    BY DEF Init, OnlyTheseConfuse
  <2> QED
    BY <2>1, <2>3, <2>4, <2>5 DEF WireInv
<1>2. WireInv /\ [Next]_vars => WireInv'
  BY TypeStep, StopStep, OnceStep, ConfuseStep DEF WireInv
<1> QED
  BY <1>1, <1>2, PTL DEF Spec

(* What gets gdb and riscv_gdb.c out of step is a ^C, when nothing is       *)
(* acknowledged, or a repeated request; no damaged packet, no '+' or '-'    *)
(* in the text of a request and no poll of the guest does.                  *)
THEOREM SpecOnlyTheseConfuse == Spec => []OnlyTheseConfuse
<1>1. WireInv => OnlyTheseConfuse
  BY DEF WireInv
<1> QED
  BY <1>1, SpecWireInv, PTL
-----------------------------------------------------------------------------
(* What the two streams hold, by token *)
Of(u, t) == {i \in 1..Len(u) : u[i].token = t}
None(u, t) == Of(u, t) = {}
One(u, t) == Single(Of(u, t))
(* Before each t there is an s *)
Guarded(u, s, t) == \A i \in Of(u, t) : \E j \in Of(u, s) : j < i
(* No t comes after an s *)
Follows(u, t, s) == \A i \in Of(u, t), j \in Of(u, s) : i < j
RepliesAre(d, a) == \A i \in Of(d, "reply") : d[i].ok => d[i].n = a

(* Where the tokens of a stream are when its first one is taken *)
LEMMA TailIs ==
  ASSUME NEW u \in Seq(Msgs), u # <<>>
  PROVE  /\ \A t : \A i \in Of(Tail(u), t) : i + 1 \in Of(u, t) /\ i \in Nat \ {0} /\ Tail(u)[i] = u[i + 1]
         /\ \A t : \A i \in Of(u, t) : i # 1 => i - 1 \in Of(Tail(u), t) /\ i \in Nat
         /\ \A t : Head(u).token = t <=> 1 \in Of(u, t)
         /\ \A t : \A i \in Of(u, t) : i \in Nat \ {0}
<1>1. \A i \in 1..Len(Tail(u)) : i \in 1..Len(u) - 1 /\ i \in Nat \ {0} /\ i + 1 \in 1..Len(u) /\ Tail(u)[i] = u[i + 1]
  BY Taken
<1>2. ASSUME NEW i \in 1..Len(u), i # 1
      PROVE  i - 1 \in 1..Len(Tail(u)) /\ i \in Nat /\ Tail(u)[i - 1] = u[i]
  <2>1. i - 1 \in 1..Len(u) - 1 /\ (i - 1) + 1 = i
    BY <1>2, Taken
  <2> QED
    BY <2>1, Taken
<1>3. Head(u) = u[1] /\ 1 \in 1..Len(u) /\ \A i \in 1..Len(u) : i \in Nat \ {0}
  BY Taken
<1> QED
  BY <1>1, <1>2, <1>3 DEF Of

(* The first token is taken *)
LEMMA TailStream ==
  ASSUME NEW u \in Seq(Msgs), u # <<>>
  PROVE  LET h == Head(u).token
         IN /\ ~None(u, h)
            /\ \A t : None(u, t) => None(Tail(u), t)
            /\ \A t : t # h /\ None(Tail(u), t) => None(u, t)
            /\ \A t : One(u, t) => One(Tail(u), t)
            /\ One(u, h) => None(Tail(u), h)
            /\ \A s, t : Guarded(u, s, t) => h # t /\ (h # s => Guarded(Tail(u), s, t))
            /\ \A s, t : Follows(u, t, s) => Follows(Tail(u), t, s)
            /\ \A t : Follows(u, t, h) => None(u, t)
            /\ \A a : RepliesAre(u, a) => RepliesAre(Tail(u), a) /\ (h = "reply" /\ Head(u).ok => Head(u).n = a)
<1> DEFINE h == Head(u).token
           w == Tail(u)
<1>1. /\ \A t : \A i \in Of(w, t) : i + 1 \in Of(u, t) /\ i \in Nat \ {0} /\ w[i] = u[i + 1]
      /\ \A t : \A i \in Of(u, t) : i # 1 => i - 1 \in Of(w, t) /\ i \in Nat
      /\ \A t : h = t <=> 1 \in Of(u, t)
      /\ \A t : \A i \in Of(u, t) : i \in Nat \ {0}
  BY TailIs
<1>2. Head(u) = u[1]
  BY Taken
<1> HIDE DEF w, h
<1>3. ~None(u, h)
  BY <1>1 DEF None
<1>4. ASSUME NEW t
      PROVE  /\ None(u, t) => None(w, t)
             /\ t # h /\ None(w, t) => None(u, t)
             /\ One(u, t) => One(w, t)
  <2>1. None(u, t) => None(w, t)
    BY <1>1 DEF None
  <2>2. t # h /\ None(w, t) => None(u, t)
    BY <1>1 DEF None
  <2>3. ASSUME One(u, t), NEW i \in Of(w, t), NEW j \in Of(w, t)
        PROVE  i = j
    <3>1. i + 1 = j + 1 /\ i \in Nat /\ j \in Nat
      BY <1>1, <2>3 DEF One, Single
    <3> QED
      BY <3>1
  <2>4. One(u, t) => One(w, t)
    BY <2>3 DEF One, Single
  <2> QED
    BY <2>1, <2>2, <2>4
<1>5. One(u, h) => None(w, h)
  <2> SUFFICES ASSUME One(u, h), NEW i \in Of(w, h)
               PROVE  FALSE
    BY DEF None
  <2>1. i + 1 \in Of(u, h) /\ i \in Nat \ {0} /\ 1 \in Of(u, h)
    BY <1>1
  <2>2. i + 1 = 1
    BY <2>1 DEF One, Single
  <2> QED
    BY <2>1, <2>2
<1>6. ASSUME NEW s, NEW t, Guarded(u, s, t)
      PROVE  h # t /\ (h # s => Guarded(w, s, t))
  <2>1. h # t
    <3> SUFFICES ASSUME 1 \in Of(u, t)
                 PROVE  FALSE
      BY <1>1
    <3>1. PICK j \in Of(u, s) : j < 1
      BY <1>6 DEF Guarded
    <3> QED
      BY <1>1, <3>1
  <2>2. ASSUME h # s, NEW i \in Of(w, t)
        PROVE  \E j \in Of(w, s) : j < i
    <3>1. i + 1 \in Of(u, t) /\ i \in Nat
      BY <1>1
    <3>2. PICK j \in Of(u, s) : j < i + 1
      BY <1>6, <3>1 DEF Guarded
    <3>3. j # 1
      BY <1>1, <2>2, <3>2
    <3>4. j - 1 \in Of(w, s) /\ j \in Nat
      BY <1>1, <3>2, <3>3
    <3>5. j - 1 < i
      BY <3>1, <3>2, <3>4
    <3> QED
      BY <3>4, <3>5
  <2> QED
    BY <2>1, <2>2 DEF Guarded
<1>7. ASSUME NEW s, NEW t, Follows(u, t, s)
      PROVE  Follows(w, t, s)
  <2> SUFFICES ASSUME NEW i \in Of(w, t), NEW j \in Of(w, s)
               PROVE  i < j
    BY DEF Follows
  <2>1. i + 1 < j + 1 /\ i \in Nat /\ j \in Nat
    BY <1>1, <1>7 DEF Follows
  <2> QED
    BY <2>1
<1>8. ASSUME NEW t, Follows(u, t, h)
      PROVE  None(u, t)
  <2> SUFFICES ASSUME NEW i \in Of(u, t)
               PROVE  FALSE
    BY DEF None
  <2>1. i < 1 /\ i \in Nat \ {0}
    BY <1>1, <1>8 DEF Follows
  <2> QED
    BY <2>1
<1>9. ASSUME NEW a, RepliesAre(u, a)
      PROVE  RepliesAre(w, a) /\ (h = "reply" /\ Head(u).ok => Head(u).n = a)
  <2>1. RepliesAre(w, a)
    BY <1>1, <1>9, Zenon DEF RepliesAre
  <2>2. h = "reply" /\ Head(u).ok => Head(u).n = a
    BY <1>1, <1>2, <1>9, Zenon DEF RepliesAre
  <2> QED
    BY <2>1, <2>2
<1>10. /\ \A t : None(u, t) => None(w, t)
       /\ \A t : t # h /\ None(w, t) => None(u, t)
       /\ \A t : One(u, t) => One(w, t)
  BY <1>4, Zenon
<1>11. \A s, t : Guarded(u, s, t) => h # t /\ (h # s => Guarded(w, s, t))
  BY <1>6, Zenon
<1>12. \A s, t : Follows(u, t, s) => Follows(w, t, s)
  BY <1>7, Zenon
<1>13. \A t : Follows(u, t, h) => None(u, t)
  BY <1>8, Zenon
<1>14. \A a : RepliesAre(u, a) => RepliesAre(w, a) /\ (h = "reply" /\ Head(u).ok => Head(u).n = a)
  BY <1>9, Zenon
<1> QED
  BY <1>3, <1>5, <1>10, <1>11, <1>12, <1>13, <1>14, Zenon DEF h, w

(* ... and when a message is put behind it *)
LEMMA AppendIs ==
  ASSUME NEW u \in Seq(Msgs), NEW m \in Msgs
  PROVE  /\ Append(u, m) \in Seq(Msgs)
         /\ \A t : t # m.token => Of(Append(u, m), t) = Of(u, t)
         /\ Of(Append(u, m), m.token) = Of(u, m.token) \cup {Len(u) + 1}
         /\ Append(u, m)[Len(u) + 1] = m
         /\ \A t : \A i \in Of(u, t) : i \in Nat /\ i < Len(u) + 1 /\ Append(u, m)[i] = u[i]
<1>1. /\ Append(u, m) \in Seq(Msgs) /\ Len(Append(u, m)) = Len(u) + 1 /\ Len(u) \in Nat
      /\ Append(u, m)[Len(u) + 1] = m
      /\ \A i \in 1..Len(u) : Append(u, m)[i] = u[i] /\ i \in Nat /\ i < Len(u) + 1
  OBVIOUS
<1>2. 1..Len(u) + 1 = (1..Len(u)) \cup {Len(u) + 1}
  BY <1>1
<1> DEFINE w == Append(u, m)
<1> HIDE DEF w
<1>3. Len(w) = Len(u) + 1 /\ w[Len(u) + 1] = m /\ \A i \in 1..Len(u) : w[i] = u[i]
  BY <1>1 DEF w
<1>4. ASSUME NEW t
      PROVE  Of(w, t) = IF m.token = t THEN Of(u, t) \cup {Len(u) + 1} ELSE Of(u, t)
  BY <1>2, <1>3 DEF Of
<1>5. \A t : Of(w, t) = IF m.token = t THEN Of(u, t) \cup {Len(u) + 1} ELSE Of(u, t)
  BY <1>4, Zenon
<1>6. \A t : \A i \in Of(u, t) : i \in 1..Len(u)
  BY DEF Of
<1> QED
  BY <1>1, <1>5, <1>6 DEF w

(* A message is put behind what is there *)
LEMMA AppendStream ==
  ASSUME NEW u \in Seq(Msgs), NEW m \in Msgs
  PROVE  LET w == Append(u, m)
         IN /\ w \in Seq(Msgs)
            /\ \A t : t # m.token => (None(w, t) <=> None(u, t)) /\ (One(w, t) <=> One(u, t))
            /\ ~None(w, m.token)
            /\ None(u, m.token) => One(w, m.token)
            /\ \A s, t : Guarded(u, s, t) /\ (t # m.token \/ ~None(u, s)) => Guarded(w, s, t)
            /\ \A s, t : s # t /\ Follows(u, t, s) /\ (t # m.token \/ None(u, s)) => Follows(w, t, s)
            /\ \A s, t : None(u, t) /\ t # m.token => Guarded(w, s, t) /\ Follows(w, t, s)
            /\ \A s, t : None(u, s) /\ s # m.token => Follows(w, t, s)
            /\ \A a : RepliesAre(u, a) /\ (m.token = "reply" /\ m.ok => m.n = a) => RepliesAre(w, a)
<1> DEFINE w == Append(u, m)
           e == Len(u) + 1
<1>1. /\ w \in Seq(Msgs)
      /\ \A t : t # m.token => Of(w, t) = Of(u, t)
      /\ Of(w, m.token) = Of(u, m.token) \cup {e}
      /\ w[e] = m
      /\ \A t : \A i \in Of(u, t) : i \in Nat /\ i < e /\ w[i] = u[i]
  BY AppendIs
<1> HIDE DEF w, e
<1>2. \A t : t # m.token => (None(w, t) <=> None(u, t)) /\ (One(w, t) <=> One(u, t))
  BY <1>1, Zenon DEF None, One
<1>3. ~None(w, m.token)
  BY <1>1 DEF None
<1>4. None(u, m.token) => One(w, m.token)
  BY <1>1 DEF None, One, Single
<1>5. ASSUME NEW s, NEW t, Guarded(u, s, t), t # m.token \/ ~None(u, s)
      PROVE  Guarded(w, s, t)
  <2>1. Of(u, s) \subseteq Of(w, s)
    BY <1>1
  <2> SUFFICES ASSUME NEW i \in Of(w, t)
               PROVE  \E j \in Of(w, s) : j < i
    BY DEF Guarded
  <2>2. CASE i \in Of(u, t)
    BY <1>5, <2>1, <2>2 DEF Guarded
  <2>3. CASE i \notin Of(u, t)
    <3>1. t = m.token /\ i = e
      BY <1>1, <2>3
    <3>2. PICK j : j \in Of(u, s)
      BY <1>5, <3>1 DEF None
    <3> QED
      BY <1>1, <2>1, <3>1, <3>2
  <2> QED
    BY <2>2, <2>3
<1>6. ASSUME NEW s, NEW t, s # t, Follows(u, t, s), t # m.token \/ None(u, s)
      PROVE  Follows(w, t, s)
  <2> SUFFICES ASSUME NEW i \in Of(w, t), NEW j \in Of(w, s)
               PROVE  i < j
    BY DEF Follows
  <2>1. CASE i \in Of(u, t) /\ j \in Of(u, s)
    BY <1>6, <2>1 DEF Follows
  <2>2. CASE i \notin Of(u, t)
    <3>1. t = m.token /\ s # m.token
      BY <1>1, <1>6, <2>2
    <3> QED
      BY <1>1, <1>6, <3>1 DEF None
  <2>3. CASE i \in Of(u, t) /\ j \notin Of(u, s)
    <3>1. j = e
      BY <1>1, <2>3
    <3> QED
      BY <1>1, <2>3, <3>1
  <2> QED
    BY <2>1, <2>2, <2>3
<1>7. ASSUME NEW s, NEW t, None(u, t), t # m.token
      PROVE  Guarded(w, s, t) /\ Follows(w, t, s)
  BY <1>1, <1>7 DEF None, Guarded, Follows
<1>8. ASSUME NEW s, NEW t, None(u, s), s # m.token
      PROVE  Follows(w, t, s)
  BY <1>1, <1>8 DEF None, Follows
<1>9. ASSUME NEW a, RepliesAre(u, a), m.token = "reply" /\ m.ok => m.n = a
      PROVE  RepliesAre(w, a)
  <2> SUFFICES ASSUME NEW i \in Of(w, "reply")
               PROVE  w[i].ok => w[i].n = a
    BY DEF RepliesAre
  <2>1. CASE i \in Of(u, "reply")
    <3>1. w[i] = u[i]
      BY <1>1, <2>1
    <3> QED
      BY <1>9, <2>1, <3>1, Zenon DEF RepliesAre
  <2>2. CASE i \notin Of(u, "reply")
    <3>1. m.token = "reply" /\ w[i] = m
      BY <1>1, <2>2
    <3> QED
      BY <1>9, <3>1, Zenon
  <2> QED
    BY <2>1, <2>2
<1>10. \A s, t : Guarded(u, s, t) /\ (t # m.token \/ ~None(u, s)) => Guarded(w, s, t)
  BY <1>5, Zenon
<1>11. \A s, t : s # t /\ Follows(u, t, s) /\ (t # m.token \/ None(u, s)) => Follows(w, t, s)
  BY <1>6, Zenon
<1>12. \A s, t : None(u, t) /\ t # m.token => Guarded(w, s, t) /\ Follows(w, t, s)
  BY <1>7, Zenon
<1>13. \A s, t : None(u, s) /\ s # m.token => Follows(w, t, s)
  BY <1>8, Zenon
<1>14. \A a : RepliesAre(u, a) /\ (m.token = "reply" /\ m.ok => m.n = a) => RepliesAre(w, a)
  BY <1>9, Zenon
<1> QED
  BY <1>1, <1>2, <1>3, <1>4, <1>10, <1>11, <1>12, <1>13, <1>14, Zenon DEF w
(* Of what is not there, everything holds *)
LEMMA NoneOf ==
  ASSUME NEW u, NEW t, None(u, t)
  PROVE  /\ One(u, t)
         /\ \A s : Guarded(u, s, t) /\ Follows(u, t, s) /\ Follows(u, s, t)
         /\ t = "reply" => \A a : RepliesAre(u, a)
BY DEF None, One, Single, Guarded, Follows, RepliesAre

(* Each request has one answer, and the client takes it before it goes on   *)
Counts ==
  /\ client \in {"idle", "sent", "wait", "gone"} /\ taken \in Nat
  /\ asked <= answered + 1
  /\ client = "idle" => taken = asked /\ answered = asked
  /\ client \in {"sent", "wait"} => taken + 1 = asked

(* When the two stop acknowledging *)
ModeInv ==
  /\ noAck => cNoAck
  /\ cNoAck /\ ~noAck => host = "await" /\ serving = "noack" /\ ~None(up, "ack")
  /\ serving = "noack" /\ ~None(up, "ack") /\ ~noAck => cNoAck

(* The answer under way is that to the latest request *)
ReplyInv ==
  /\ One(down, "reply") /\ RepliesAre(down, asked)
  /\ ~None(down, "reply") => answered = asked /\ client # "idle"

(* The host waits for an acknowledgement as long as there is an answer, a   *)
(* '+' or a '-' under way                                                   *)
AwaitInv ==
  ~noAck =>
    /\ One(up, "ack") /\ One(up, "nak")
    /\ None(up, "ack") \/ None(up, "nak")
    /\ (None(up, "ack") /\ None(up, "nak")) \/ None(down, "reply")
    /\ host = "await" <=> ~(None(up, "ack") /\ None(up, "nak") /\ None(down, "reply"))
    /\ ~None(up, "nak") => client = "wait" /\ answered = asked
    /\ host = "await" /\ None(up, "ack") => sent.n = asked
    /\ host = "await" => answered = handled /\ Guarded(up, "ack", "body")

(* The client has its '+' before the answer, and a ^C before its own '+'    *)
ClientInv ==
  ~cNoAck =>
    /\ ~None(down, "ack") \/ client = "wait" => handled = asked
    /\ client = "sent" => (handled = asked => ~None(down, "ack")) /\ Guarded(down, "ack", "reply")
    /\ client \in {"sent", "wait"} /\ answered = asked => host = "await" /\ None(up, "ack")
    /\ ~None(up, "intr") => answered < handled \/ host = "await"
    /\ host = "await" => Follows(up, "intr", "ack") /\ None(down, "nak")
    /\ host = "await" /\ None(up, "ack") /\ request.kind = "noack" => serving = "noack"
    /\ answered < handled => request.kind # "noack"

LiveInv == ModeInv /\ ReplyInv /\ AwaitInv /\ ClientInv
TurnsInv == Counts /\ (client # "gone" => LiveInv)

(* An acknowledgement is only waited for while they are in use *)
AwaitMode == host = "await" => ~noAck

TurnInv == AwaitMode /\ (repeated = 0 /\ inStep => TurnsInv)
-----------------------------------------------------------------------------
(* What is known of requests and refusals, in the same terms *)
OnceFacts ==
  /\ ~cNoAck =>
       /\ One(up, "body")
       /\ client \in {"idle", "wait"} => None(up, "body") /\ None(down, "ack") /\ None(down, "nak")
       /\ None(up, "body") \/ (None(down, "ack") /\ None(down, "nak"))
       /\ None(down, "ack") \/ None(down, "nak")
       /\ ~None(up, "body") \/ ~None(down, "nak") => handled < asked
       /\ noAck \/ serving = "noack" => None(up, "body") /\ None(down, "nak") /\ request.kind = "noack"
  /\ client = "sent" => ~cNoAck
  /\ handled <= asked /\ answered <= handled
  /\ host = "guest" => answered < handled
  /\ asked \in Nat /\ handled \in Nat /\ answered \in Nat

(* ... which follows from the invariant above *)
LEMMA OnceFactsAre ==
  ASSUME WireTypeOK, StopInv, DialogueInv
  PROVE  OnceFacts
<1>1. Of(up, "body") = Bodies(up)
  BY DEF Of, Bodies
<1>2. Of(down, "ack") \cup Of(down, "nak") = Controls(down)
  BY DEF Of, Controls
<1>3. Of(down, "nak") = Naks(down)
  BY DEF Of, Naks
<1>4. Of(down, "ack") \cap Of(down, "nak") = {}
  BY DEF Of
<1>5. Single(Controls(down)) => None(down, "ack") \/ None(down, "nak")
  BY <1>2, <1>4 DEF Single, None
<1>6. Controls(down) = {} => None(down, "ack") /\ None(down, "nak")
  BY <1>2 DEF None
<1>7. /\ None(up, "body") <=> Bodies(up) = {}
      /\ None(down, "nak") <=> Naks(down) = {}
      /\ One(up, "body") <=> Single(Bodies(up))
  BY <1>1, <1>3 DEF None, One
<1>8. ~cNoAck =>
       /\ One(up, "body")
       /\ client \in {"idle", "wait"} => None(up, "body") /\ None(down, "ack") /\ None(down, "nak")
       /\ None(up, "body") \/ (None(down, "ack") /\ None(down, "nak"))
       /\ None(down, "ack") \/ None(down, "nak")
       /\ ~None(up, "body") \/ ~None(down, "nak") => handled < asked
       /\ noAck \/ serving = "noack" => None(up, "body") /\ None(down, "nak") /\ request.kind = "noack"
  BY <1>5, <1>6, <1>7 DEF DialogueInv, OneInv, AgreeInv
<1>9. /\ client = "sent" => ~cNoAck
      /\ handled <= asked /\ answered <= handled
      /\ host = "guest" => answered < handled
      /\ asked \in Nat /\ handled \in Nat /\ answered \in Nat
  BY DEF DialogueInv, SentInv, NewInv, StopInv, WireTypeOK
<1> QED
  BY <1>8, <1>9 DEF OnceFacts

(* The host or its guest goes on, and reads at most *)
LEMMA GoesOn ==
  ASSUME WireTypeOK, LiveInv, client # "gone",
         up' = up \/ (up # <<>> /\ up' = Tail(up)),
         host # "await", host' # "await",
         UNCHANGED <<down, noAck, sent, serving, handled, answered, client, cNoAck, request, asked>>
  PROVE  LiveInv'
<1>1. \A t : None(up, t) => None(up', t)
  BY TailStream DEF WireTypeOK
<1>2. ModeInv'
  BY <1>1 DEF LiveInv, ModeInv
<1>3. ReplyInv'
  BY DEF LiveInv, ReplyInv
<1>4. AwaitInv'
  <2> SUFFICES ASSUME ~noAck
               PROVE  None(up', "ack") /\ None(up', "nak") /\ None(down, "reply")
    BY NoneOf DEF AwaitInv
  <2> QED
    BY <1>1 DEF LiveInv, AwaitInv
<1>5. ClientInv'
  BY <1>1 DEF LiveInv, ClientInv
<1> QED
  BY <1>2, <1>3, <1>4, <1>5 DEF LiveInv

(* An answer goes behind what is there *)
LEMMA AppendReply ==
  ASSUME NEW u \in Seq(Msgs), NEW q \in Msgs, q.token = "reply", None(u, "reply"),
         NEW a, q.ok => q.n = a
  PROVE  LET w == Append(u, q)
         IN /\ ~None(w, "reply") /\ One(w, "reply") /\ RepliesAre(w, a)
            /\ None(w, "nak") <=> None(u, "nak")
            /\ None(w, "ack") <=> None(u, "ack")
            /\ ~None(w, "ack") => Guarded(w, "ack", "reply")
<1> DEFINE w == Append(u, q)
<1>1. /\ \A t : t # "reply" => (None(w, t) <=> None(u, t))
      /\ ~None(w, "reply") /\ One(w, "reply")
      /\ \A s, t : Guarded(u, s, t) /\ ~None(u, s) => Guarded(w, s, t)
  BY AppendStream
<1>2. \A b : RepliesAre(u, b) /\ (q.token = "reply" /\ q.ok => q.n = b) => RepliesAre(w, b)
  BY AppendStream
<1> HIDE DEF w
<1>3. /\ None(w, "nak") <=> None(u, "nak")
      /\ None(w, "ack") <=> None(u, "ack")
  BY <1>1
<1>4. Guarded(u, "ack", "reply") /\ RepliesAre(u, a)
  BY NoneOf
<1>5. RepliesAre(w, a)
  BY <1>2, <1>4, Zenon
<1> QED
  BY <1>1, <1>3, <1>4, <1>5, Zenon DEF w

(* An answer, perhaps damaged, is put behind what is there *)
LEMMA SendPacketOf ==
  ASSUME WireTypeOK, AwaitMode, NEW n \in Nat, NEW p \in {Reply(n), sent}, p.token = "reply",
         NEW before \in {<<>>, <<Ack>>}, NEW kind,
         SendPacket(before, p, kind), None(down, "reply")
  PROVE  /\ One(down', "reply") /\ ~None(down', "reply")
         /\ RepliesAre(down', p.n)
         /\ None(down', "nak") <=> None(down, "nak")
         /\ before = <<>> => (None(down', "ack") <=> None(down, "ack"))
         /\ before = <<Ack>> => ~None(down', "ack")
         /\ ~None(down', "ack") => Guarded(down', "ack", "reply")
         /\ noAck => host' # "await" /\ noAck'
         /\ ~noAck => host' = "await" /\ ~noAck' /\ sent' = p /\ serving' = kind
<1>1. p \in Msgs
  BY Tokens7 DEF WireTypeOK
<1>2. PICK q \in Msgs : /\ q.token = "reply" /\ (q.ok => q = p)
                        /\ down' = down \o before \o <<q>>
  BY <1>1, Damaged DEF SendPacket
<1> DEFINE d == IF before = <<>> THEN down ELSE Append(down, Ack)
<1>3. <<>> # <<Ack>> /\ Ack \in Msgs /\ Ack.token = "ack"
  BY Tokens7
<1>4. down' = Append(d, q)
  BY <1>2, <1>3 DEF WireTypeOK
<1>5. /\ d \in Seq(Msgs) /\ None(d, "reply")
      /\ None(d, "nak") <=> None(down, "nak")
      /\ before = <<>> => (None(d, "ack") <=> None(down, "ack"))
      /\ before = <<Ack>> => ~None(d, "ack")
  <2>1. down \in Seq(Msgs)
    BY DEF WireTypeOK
  <2> DEFINE e == Append(down, Ack)
  <2>2. e \in Seq(Msgs) /\ ~None(e, "ack") /\ \A t : t # "ack" => (None(e, t) <=> None(down, t))
    BY <1>3, <2>1, AppendStream
  <2> HIDE DEF e
  <2>3. d = IF before = <<>> THEN down ELSE e
    BY DEF e
  <2> HIDE DEF d
  <2>4. CASE before = <<>>
    BY <1>3, <2>1, <2>3, <2>4
  <2>5. CASE before = <<Ack>>
    BY <1>3, <2>2, <2>3, <2>5
  <2> QED
    BY <2>4, <2>5
<1> HIDE DEF d
<1>6. q.ok => q.n = p.n
  BY <1>2, Zenon
<1>7. /\ ~None(down', "reply") /\ One(down', "reply") /\ RepliesAre(down', p.n)
      /\ None(down', "nak") <=> None(d, "nak")
      /\ None(down', "ack") <=> None(d, "ack")
      /\ ~None(down', "ack") => Guarded(down', "ack", "reply")
  <2> DEFINE w == Append(d, q)
  <2>1. /\ ~None(w, "reply") /\ One(w, "reply") /\ RepliesAre(w, p.n)
        /\ None(w, "nak") <=> None(d, "nak")
        /\ None(w, "ack") <=> None(d, "ack")
        /\ ~None(w, "ack") => Guarded(w, "ack", "reply")
    BY <1>2, <1>5, <1>6, AppendReply
  <2> HIDE DEF w
  <2>2. w = down'
    BY <1>4 DEF w
  <2> QED
    BY <2>1, <2>2, SMT
<1>9. /\ noAck => host' # "await" /\ noAck'
      /\ ~noAck => host' = "await" /\ ~noAck' /\ sent' = p /\ serving' = kind
  BY DEF SendPacket, Proceed
<1> QED
  BY <1>3, <1>5, <1>7, <1>9

(* A stop, wherever it comes from, answers the resume that is open *)
LEMMA StopTurns ==
  ASSUME WireTypeOK, OnceFacts, AwaitMode, TurnsInv, client # "gone",
         up' = up \/ (up # <<>> /\ up' = Tail(up)),
         host # "await", host = "guest" \/ (up # <<>> /\ Head(up).token = "intr"),
         SendStop, inStep, inStep'
  PROVE  answered < handled /\ answered' = answered + 1 /\ TurnsInv'
<1>1. /\ SendPacket(<<>>, Reply(handled), "stop") /\ UNCHANGED handled
      /\ answered' = (IF answered < handled THEN answered + 1 ELSE answered)
      /\ inStep' = (inStep /\ (noAck => answered < handled))
      /\ UNCHANGED <<client, cNoAck, request, asked, taken>>
  BY DEF SendStop, BrokenPipe, clientVars
<1>2. answered < handled
  <2>1. CASE host = "guest"
    BY <2>1 DEF OnceFacts
  <2>2. CASE noAck
    BY <1>1, <2>2, Zenon
  <2>3. CASE host # "guest" /\ ~noAck
    <3>1. ~cNoAck
      BY <2>3 DEF TurnsInv, LiveInv, ModeInv
    <3>2. ~None(up, "intr")
      BY <2>3, TailStream DEF WireTypeOK
    <3> QED
      BY <3>1, <3>2 DEF TurnsInv, LiveInv, ClientInv
  <2> QED
    BY <2>1, <2>2, <2>3
<1>3. handled = asked /\ answered' = answered + 1 /\ answered' = asked
  BY <1>1, <1>2 DEF OnceFacts, TurnsInv, Counts
<1>4. Counts'
  BY <1>1, <1>2, <1>3 DEF OnceFacts, TurnsInv, Counts
<1>5. None(down, "reply") /\ client # "idle"
  BY <1>2, <1>3 DEF OnceFacts, TurnsInv, Counts, LiveInv, ReplyInv
<1>6. /\ handled \in Nat /\ Reply(handled).token = "reply" /\ Reply(handled).n = asked
  BY <1>3, Tokens7 DEF OnceFacts, Reply
<1>7. /\ One(down', "reply") /\ ~None(down', "reply")
      /\ RepliesAre(down', asked)
      /\ None(down', "nak") <=> None(down, "nak")
      /\ None(down', "ack") <=> None(down, "ack")
      /\ ~None(down', "ack") => Guarded(down', "ack", "reply")
      /\ noAck => host' # "await" /\ noAck'
      /\ ~noAck => host' = "await" /\ ~noAck' /\ sent' = Reply(handled) /\ serving' = "stop"
  BY <1>1, <1>5, <1>6, SendPacketOf
<1>8. \A t : None(up, t) => None(up', t)
  BY TailStream DEF WireTypeOK
<1>9. ReplyInv'
  BY <1>1, <1>3, <1>5, <1>7 DEF ReplyInv
<1>10. CASE noAck
  <2>1. cNoAck' /\ noAck'
    BY <1>1, <1>7, <1>10 DEF TurnsInv, LiveInv, ModeInv
  <2> QED
    BY <1>2, <1>3, <1>4, <1>9, <2>1 DEF TurnsInv, LiveInv, ModeInv, AwaitInv, ClientInv
<1>11. CASE ~noAck
  <2>1. ~cNoAck
    BY <1>11 DEF TurnsInv, LiveInv, ModeInv
  <2>2. None(up', "ack") /\ None(up', "nak") /\ None(up', "body")
    <3>1. None(up, "ack") /\ None(up, "nak")
      BY <1>11 DEF TurnsInv, LiveInv, AwaitInv
    <3>2. None(up, "body")
      BY <1>3, <2>1 DEF OnceFacts
    <3> QED
      BY <1>8, <3>1, <3>2
  <2>3. ModeInv'
    BY <1>1, <1>7, <1>11, <2>1, <2>2 DEF ModeInv
  <2>4. AwaitInv'
    BY <1>1, <1>3, <1>6, <1>7, <1>11, <2>2, NoneOf DEF AwaitInv
  <2>5. ClientInv'
    <3>1. None(down', "nak")
      BY <1>3, <1>7, <2>1 DEF OnceFacts
    <3>2. client = "sent" => ~None(down', "ack")
      BY <1>3, <1>7, <2>1 DEF TurnsInv, LiveInv, ClientInv
    <3>3. request.kind # "noack"
      BY <1>2, <2>1 DEF TurnsInv, LiveInv, ClientInv
    <3> QED
      BY <1>1, <1>3, <1>7, <1>11, <2>2, <3>1, <3>2, <3>3, NoneOf DEF ClientInv, OnceFacts
  <2> QED
    BY <1>2, <1>3, <1>4, <1>9, <2>3, <2>4, <2>5 DEF TurnsInv, LiveInv
<1> QED
  BY <1>10, <1>11

(* What is carried out is the latest request, and it is the only one open *)
LEMMA HandleLatest ==
  ASSUME WireTypeOK, DialogueInv, OnceFacts, Counts, Handle, ~BrokenPipe
  PROVE  LET p == Head(up)
         IN /\ up # <<>> /\ up' = Tail(up) /\ host = "packet"
            /\ p \in Msgs /\ p.token = "body" /\ p.ok /\ p.n = asked
            /\ answered = handled /\ handled + 1 = asked
<1> DEFINE p == Head(up)
<1>1. /\ up # <<>> /\ up' = Tail(up) /\ host = "packet" /\ p.token = "body" /\ p \in Msgs
      /\ noAck \/ p.ok
  BY Taken DEF Handle, Reads, Accepts, WireTypeOK
<1>2. handled < p.n
  BY HandleOnce
<1>3. p.ok
  <2>1. CASE cNoAck
    <3>1. Sound(up)
      BY <2>1 DEF DialogueInv, SentInv
    <3> QED
      BY <1>1, <3>1, TakenRequest DEF WireTypeOK
  <2>2. CASE ~cNoAck
    <3>1. ~None(up, "body")
      BY <1>1, TailStream DEF WireTypeOK
    <3>2. ~noAck
      BY <2>2, <3>1 DEF OnceFacts
    <3> QED
      BY <1>1, <3>2, Zenon
  <2> QED
    BY <2>1, <2>2
<1>4. p.n <= asked
  <2>1. Ahead(up, handled, asked)
    BY DEF DialogueInv, NewInv
  <2> QED
    BY <1>1, <1>3, <2>1, TakenRequest DEF WireTypeOK
<1>5. p.n = asked /\ answered = handled /\ handled + 1 = asked
  BY <1>1, <1>2, <1>4 DEF OnceFacts, Counts, Msgs
<1> QED
  BY <1>1, <1>3, <1>5

(* While the client is there it waits for just that *)
LEMMA HandleTakes ==
  ASSUME WireTypeOK, DialogueInv, OnceFacts, TurnsInv, client # "gone", Handle
  PROVE  LET p == Head(up)
         IN /\ up # <<>> /\ up' = Tail(up) /\ host = "packet"
            /\ UNCHANGED <<client, cNoAck, request, asked, taken>>
            /\ p \in Msgs /\ p.n = asked
            /\ answered = handled /\ handled + 1 = asked
            /\ client # "idle" /\ None(down, "reply")
            /\ ~noAck => /\ ~cNoAck /\ client = "sent" /\ None(down, "nak")
                         /\ p.kind = request.kind /\ None(up', "body")
            /\ \A t : None(up, t) => None(up', t)
<1> DEFINE p == Head(up)
<1>1. UNCHANGED <<client, cNoAck, request, asked, taken>> /\ ~BrokenPipe
  BY DEF Handle, BrokenPipe, clientVars
<1>2. /\ up # <<>> /\ up' = Tail(up) /\ host = "packet"
      /\ p \in Msgs /\ p.token = "body" /\ p.ok /\ p.n = asked
      /\ answered = handled /\ handled + 1 = asked
  BY <1>1, HandleLatest DEF TurnsInv
<1>3. asked # answered
  BY <1>2 DEF OnceFacts
<1>4. client # "idle" /\ None(down, "reply")
  BY <1>3 DEF TurnsInv, Counts, LiveInv, ReplyInv
<1>5. \A t : None(up, t) => None(up', t)
  BY <1>2, TailStream DEF WireTypeOK
<1>6. ASSUME ~noAck
      PROVE  /\ ~cNoAck /\ client = "sent" /\ None(down, "nak")
             /\ p.kind = request.kind /\ None(up', "body")
  <2>1. ~cNoAck
    BY <1>2, <1>6 DEF TurnsInv, LiveInv, ModeInv
  <2>2. ~None(up, "body")
    BY <1>2, TailStream DEF WireTypeOK
  <2>3. None(down, "nak") /\ client \notin {"idle", "wait"}
    BY <2>1, <2>2 DEF OnceFacts
  <2>4. client = "sent"
    BY <2>3 DEF TurnsInv, Counts
  <2>5. One(up, "body")
    BY <2>1 DEF OnceFacts
  <2>6. None(up', "body")
    BY <1>2, <2>5, TailStream DEF WireTypeOK
  <2>7. Current(up, asked, request.kind)
    BY <2>1 DEF DialogueInv, OneInv
  <2>8. p.kind = request.kind
    BY <1>2, <2>7, TakenRequest DEF WireTypeOK
  <2> QED
    BY <2>1, <2>3, <2>4, <2>6, <2>8
<1> QED
  BY <1>1, <1>2, <1>4, <1>5, <1>6

(* A request is carried out, and answered at once or by the next stop *)
LEMMA HandleTurns ==
  ASSUME WireTypeOK, DialogueInv, OnceFacts, AwaitMode, TurnsInv, client # "gone", Handle
  PROVE  /\ TurnsInv'
         /\ answered = handled /\ handled < asked /\ handled' = handled + 1
         /\ answered' \in {answered, answered + 1}
<1> DEFINE p == Head(up)
           ack == IF noAck THEN <<>> ELSE <<Ack>>
<1>1. /\ up # <<>> /\ up' = Tail(up) /\ host = "packet"
      /\ UNCHANGED <<client, cNoAck, request, asked, taken>>
      /\ p \in Msgs /\ p.n = asked
      /\ answered = handled /\ handled + 1 = asked
      /\ client # "idle" /\ None(down, "reply")
      /\ ~noAck => /\ ~cNoAck /\ client = "sent" /\ None(down, "nak")
                   /\ p.kind = request.kind /\ None(up', "body")
      /\ \A t : None(up, t) => None(up', t)
  BY HandleTakes
<1>2. asked \in Nat /\ handled \in Nat /\ answered \in Nat /\ handled < asked /\ answered # asked
  BY <1>1 DEF OnceFacts
<1>3. /\ LiveInv
      /\ ~noAck => None(up', "ack") /\ None(up', "nak")
      /\ noAck => cNoAck
  BY <1>1 DEF TurnsInv, LiveInv, ModeInv, AwaitInv
<1>4. ack \in {<<>>, <<Ack>>} /\ (noAck => ack = <<>>) /\ (~noAck => ack = <<Ack>>)
  OBVIOUS
<1>5. Reply(p.n).token = "reply" /\ Reply(p.n).n = asked
  BY <1>1, <1>2, Tokens7 DEF Reply
<1>6. CASE SendPacket(ack, Reply(p.n), p.kind) /\ handled' = handled + 1 /\ answered' = answered + 1
  <2>1. /\ One(down', "reply") /\ ~None(down', "reply") /\ RepliesAre(down', asked)
        /\ None(down', "nak") <=> None(down, "nak")
        /\ ack = <<>> => (None(down', "ack") <=> None(down, "ack"))
        /\ ack = <<Ack>> => ~None(down', "ack")
        /\ ~None(down', "ack") => Guarded(down', "ack", "reply")
        /\ noAck => host' # "await" /\ noAck'
        /\ ~noAck => host' = "await" /\ ~noAck' /\ sent' = Reply(p.n) /\ serving' = p.kind
    <3> HIDE DEF ack, p
    <3> QED
      BY <1>1, <1>2, <1>4, <1>5, <1>6, SendPacketOf
  <2> HIDE DEF p, ack
  <2>2. Counts' /\ answered' = asked /\ handled' = asked
    BY <1>1, <1>2, <1>6 DEF TurnsInv, Counts
  <2>3. ReplyInv'
    BY <1>1, <2>1, <2>2 DEF ReplyInv
  <2>4. CASE noAck
    BY <1>1, <1>2, <1>3, <1>6, <2>1, <2>2, <2>3, <2>4 DEF TurnsInv, LiveInv, ModeInv, AwaitInv, ClientInv
  <2>5. CASE ~noAck
    <3>1. ModeInv'
      BY <1>1, <1>3, <2>1, <2>5 DEF ModeInv
    <3>2. AwaitInv'
      BY <1>1, <1>3, <1>5, <2>1, <2>2, <2>5, NoneOf DEF AwaitInv
    <3>3. ClientInv'
      BY <1>1, <1>2, <1>3, <1>4, <2>1, <2>2, <2>5, NoneOf DEF ClientInv
    <3> QED
      BY <1>1, <1>2, <1>6, <2>2, <2>3, <3>1, <3>2, <3>3 DEF TurnsInv, LiveInv
  <2> QED
    BY <2>4, <2>5
<1>7. CASE /\ p.kind \in {"resume", "kill"}
           /\ host' = (IF p.kind = "resume" THEN "guest" ELSE "idle")
           /\ down' = down \o ack
           /\ handled' = handled + 1
           /\ UNCHANGED <<noAck, sent, serving, answered>>
  <2>1. Counts' /\ handled' = asked /\ host' # "await"
    BY <1>1, <1>2, <1>7 DEF TurnsInv, Counts
  <2>2. CASE noAck
    <3>1. down' = down
      BY <1>7, <2>2 DEF WireTypeOK
    <3> QED
      BY <1>1, <1>2, <1>3, <1>7, <2>1, <2>2, <3>1 DEF TurnsInv, LiveInv, ModeInv, ReplyInv, AwaitInv, ClientInv
  <2>3. CASE ~noAck
    <3>1. down' = Append(down, Ack)
      BY <1>7, <2>3 DEF WireTypeOK
    <3>2. /\ down \in Seq(Msgs) /\ Ack \in Msgs /\ Ack.token = "ack"
      BY Tokens7 DEF WireTypeOK
    <3>3. ~None(down', "ack") /\ \A t : t # "ack" => (None(down', t) <=> None(down, t))
      BY <3>1, <3>2, AppendStream
    <3>4. None(down', "reply") /\ None(down', "nak")
      BY <1>1, <2>3, <3>3
    <3> HIDE DEF p, ack
    <3>5. ModeInv'
      BY <1>1, <1>3, <1>7, <2>3 DEF ModeInv
    <3>6. ReplyInv'
      BY <3>4, NoneOf DEF ReplyInv
    <3>7. AwaitInv'
      BY <1>1, <1>3, <2>1, <2>3, <3>4, NoneOf DEF AwaitInv
    <3>8. request.kind # "noack"
      BY <1>1, <1>7, <2>3
    <3>9. ClientInv'
      BY <1>1, <1>2, <1>7, <2>1, <3>3, <3>4, <3>8, NoneOf DEF ClientInv
    <3> QED
      BY <1>1, <1>2, <1>7, <2>1, <3>5, <3>6, <3>7, <3>9 DEF TurnsInv, LiveInv
  <2> QED
    BY <2>2, <2>3
<1>8. ~BrokenPipe
  BY DEF BrokenPipe
<1> QED
  BY <1>6, <1>7, <1>8 DEF Handle

(* The '+' and the '-' that the host takes are those of its answer: before  *)
(* a request there is always a '+'                                          *)
LEMMA AwaitTurns ==
  ASSUME WireTypeOK, OnceFacts, AwaitMode, TurnsInv, client # "gone", AwaitAck
  PROVE  /\ TurnsInv'
         /\ UNCHANGED <<asked, handled, answered, taken, inStep>>
<1> DEFINE h == Head(up).token
<1>1. /\ up # <<>> /\ up' = Tail(up) /\ host = "await"
      /\ UNCHANGED <<client, cNoAck, request, asked, taken>>
      /\ ~noAck
  BY DEF AwaitAck, clientVars, AwaitMode
<1>2. /\ Counts /\ ModeInv /\ ReplyInv /\ AwaitInv /\ ClientInv
      /\ Guarded(up, "ack", "body") /\ answered = handled
  BY <1>1 DEF TurnsInv, LiveInv, AwaitInv
<1>3. /\ ~None(up, h)
      /\ \A t : None(up, t) => None(up', t)
      /\ \A t : t # h /\ None(up', t) => None(up, t)
      /\ \A t : One(up, t) => One(up', t)
      /\ One(up, h) => None(up', h)
  BY <1>1, TailStream DEF WireTypeOK
<1>4. /\ h # "body"
      /\ h # "ack" => Guarded(up', "ack", "body")
      /\ Follows(up, "intr", "ack") => Follows(up', "intr", "ack")
      /\ h = "ack" /\ Follows(up, "intr", "ack") => None(up, "intr")
  BY <1>1, <1>2, TailStream DEF WireTypeOK
<1>5. ~BrokenPipe
  BY DEF BrokenPipe
<1> HIDE DEF h
<1>6. CASE h = "ack"
  <2>1. Proceed(serving) /\ UNCHANGED <<down, handled, answered, inStep>>
    BY <1>6 DEF AwaitAck, Acknowledges, h
  <2>2. host' # "await" /\ (noAck' <=> serving = "noack") /\ serving' = "none"
    BY <1>1, <2>1, Zenon DEF Proceed
  <2>3. None(up', "ack") /\ None(up', "nak") /\ None(down, "reply")
    BY <1>1, <1>2, <1>3, <1>6 DEF AwaitInv
  <2>4. serving = "noack" <=> cNoAck
    BY <1>1, <1>2, <1>3, <1>6 DEF ModeInv
  <2>5. ModeInv' /\ ReplyInv' /\ Counts'
    BY <1>1, <1>2, <2>1, <2>2, <2>4 DEF ModeInv, ReplyInv, Counts
  <2>6. AwaitInv'
    BY <2>1, <2>2, <2>3, NoneOf DEF AwaitInv
  <2>7. ClientInv'
    <3> SUFFICES ASSUME ~cNoAck
                 PROVE  ClientInv'
      BY <1>1 DEF ClientInv
    <3>1. None(up', "intr") /\ ~None(up, "ack")
      BY <1>1, <1>2, <1>3, <1>4, <1>6 DEF ClientInv
    <3> QED
      BY <1>1, <1>2, <2>1, <2>2, <3>1 DEF ClientInv
  <2> QED
    BY <1>1, <2>1, <2>5, <2>6, <2>7 DEF TurnsInv, LiveInv
<1>7. CASE h = "nak"
  <2>1. SendPacket(<<>>, sent, serving) /\ UNCHANGED <<handled, answered, inStep>>
    BY <1>5, <1>7 DEF AwaitAck, Acknowledges, h
  <2>2. /\ None(up, "ack") /\ None(down, "reply") /\ client = "wait" /\ answered = asked
        /\ sent.n = asked /\ None(up', "nak") /\ None(up', "ack")
    BY <1>1, <1>2, <1>3, <1>7 DEF AwaitInv
  <2>3. /\ One(down', "reply") /\ ~None(down', "reply") /\ RepliesAre(down', asked)
        /\ None(down', "nak") <=> None(down, "nak")
        /\ None(down', "ack") <=> None(down, "ack")
        /\ host' = "await" /\ ~noAck' /\ sent' = sent /\ serving' = serving
    <3>1. sent.token = "reply"
      BY <1>1 DEF WireTypeOK
    <3>2. 0 \in Nat /\ sent \in {Reply(0), sent} /\ <<>> \in {<<>>, <<Ack>>}
      OBVIOUS
    <3> QED
      BY <1>1, <2>1, <2>2, <3>1, <3>2, SendPacketOf
  <2>4. ~cNoAck
    BY <1>1, <1>2, <2>2 DEF ModeInv
  <2>5. ModeInv' /\ ReplyInv' /\ Counts'
    BY <1>1, <1>2, <2>1, <2>2, <2>3, <2>4 DEF ModeInv, ReplyInv, Counts
  <2>6. AwaitInv'
    BY <1>1, <1>2, <1>4, <1>7, <2>1, <2>2, <2>3, NoneOf DEF AwaitInv
  <2>7. ClientInv'
    BY <1>1, <1>2, <1>3, <1>4, <2>1, <2>2, <2>3, <2>4 DEF ClientInv
  <2> QED
    BY <1>1, <2>1, <2>5, <2>6, <2>7 DEF TurnsInv, LiveInv
<1>8. CASE h \notin {"ack", "nak"}
  <2>1. UNCHANGED <<down, host, noAck, sent, serving, handled, answered, inStep>>
    BY <1>4, <1>8 DEF AwaitAck, Acknowledges, h
  <2>2. /\ None(up', "ack") <=> None(up, "ack")
        /\ None(up', "nak") <=> None(up, "nak")
        /\ One(up, "ack") => One(up', "ack")
        /\ One(up, "nak") => One(up', "nak")
        /\ None(up, "intr") => None(up', "intr")
        /\ Guarded(up', "ack", "body")
        /\ Follows(up, "intr", "ack") => Follows(up', "intr", "ack")
    BY <1>3, <1>4, <1>8
  <2>3. ModeInv' /\ ReplyInv' /\ Counts'
    BY <1>1, <1>2, <2>1, <2>2 DEF ModeInv, ReplyInv, Counts
  <2>4. AwaitInv'
    BY <1>1, <1>2, <2>1, <2>2 DEF AwaitInv
  <2>5. ClientInv'
    BY <1>1, <1>2, <2>1, <2>2 DEF ClientInv
  <2> QED
    BY <1>1, <2>1, <2>3, <2>4, <2>5 DEF TurnsInv, LiveInv
<1> QED
  BY <1>6, <1>7, <1>8

(* A damaged request is refused: the '-' is under way *)
LEMMA RefuseTurns ==
  ASSUME WireTypeOK, OnceFacts, AwaitMode, TurnsInv, client # "gone", Refuse
  PROVE  /\ TurnsInv'
         /\ UNCHANGED <<asked, handled, answered, taken, inStep>>
<1>1. /\ up # <<>> /\ up' = Tail(up) /\ Head(up).token = "body" /\ host = "packet" /\ host' # "await"
      /\ down' = (IF noAck THEN down ELSE Append(down, Nak))
      /\ UNCHANGED <<client, cNoAck, request, asked, taken, noAck, sent, serving, handled, answered, inStep>>
  BY DEF Refuse, Reads, BrokenPipe, clientVars
<1>2. Counts' /\ LiveInv
  BY <1>1 DEF TurnsInv, Counts
<1>3. CASE noAck
  <2>1. LiveInv'
    BY <1>1, <1>2, <1>3, GoesOn
  <2> QED
    BY <1>1, <1>2, <2>1 DEF TurnsInv
<1>4. CASE ~noAck
  <2>1. ~cNoAck /\ None(up, "ack") /\ None(up, "nak") /\ None(down, "reply")
    BY <1>1, <1>2, <1>4 DEF LiveInv, ModeInv, AwaitInv
  <2>2. ~None(up, "body") /\ \A t : None(up, t) => None(up', t)
    BY <1>1, TailStream DEF WireTypeOK
  <2>3. handled < asked /\ None(down, "ack")
    BY <2>1, <2>2 DEF OnceFacts
  <2>4. Nak \in Msgs /\ Nak.token = "nak" /\ down \in Seq(Msgs) /\ down' = Append(down, Nak)
    BY <1>1, <1>4, Tokens7 DEF WireTypeOK
  <2>5. None(down', "ack") /\ None(down', "reply")
    <3>1. \A t : t # "nak" => (None(down', t) <=> None(down, t))
      BY <2>4, AppendStream
    <3> QED
      BY <2>1, <2>3, <3>1
  <2>6. ModeInv' /\ ReplyInv' /\ AwaitInv'
    BY <1>1, <1>2, <1>4, <2>1, <2>2, <2>5, NoneOf DEF LiveInv, ModeInv, ReplyInv, AwaitInv
  <2>7. ClientInv'
    BY <1>1, <1>2, <2>1, <2>2, <2>3, <2>5, NoneOf DEF LiveInv, ClientInv
  <2> QED
    BY <1>1, <1>2, <2>6, <2>7 DEF TurnsInv, LiveInv
<1> QED
  BY <1>3, <1>4

(* What goes on between the steps of the dialogue; a client that has gone   *)
(* asks for nothing                                                         *)
LEMMA HostTurns ==
  ASSUME WireTypeOK, DialogueInv, OnceFacts, AwaitMode, TurnsInv, Host \/ Guest \/ Call, inStep, inStep'
  PROVE  /\ TurnsInv'
         /\ UNCHANGED <<asked, taken>>
         /\ \/ UNCHANGED <<handled, answered>>
            \/ answered < handled /\ answered' = answered + 1 /\ handled' = handled
            \/ /\ answered = handled /\ handled < asked /\ handled' = handled + 1
               /\ answered' \in {answered, answered + 1}
<1>1. UNCHANGED <<client, cNoAck, request, asked, taken>>
  BY DEF Host, Skip, InterruptAtPrompt, OpenPacket, Refuse, Handle, AwaitAck, LoseClient,
         Guest, Poll, GuestStops, GuestReturns, Call, SendStop, clientVars
<1>2. CASE client = "gone"
  <2>1. \/ UNCHANGED <<handled, answered>>
        \/ answered < handled /\ answered' = answered + 1 /\ handled' = handled
        \/ /\ answered = handled /\ handled < asked /\ handled' = handled + 1
           /\ answered' \in {answered, answered + 1}
    <3>1. CASE SendStop
      <4>1. handled' = handled /\ answered' \in {answered, IF answered < handled THEN answered + 1 ELSE answered}
        BY <3>1 DEF SendStop, BrokenPipe
      <4> QED
        BY <4>1
    <3>2. CASE Handle /\ ~BrokenPipe
      <4>1. answered = handled /\ handled + 1 = asked
        BY <3>2, HandleLatest DEF TurnsInv
      <4>2. handled < asked
        BY <4>1 DEF OnceFacts
      <4>3. handled' = handled + 1 /\ answered' \in {answered, answered + 1}
        BY <3>2 DEF Handle
      <4> QED
        BY <4>1, <4>2, <4>3
    <3>3. CASE ~SendStop /\ (~Handle \/ BrokenPipe)
      <4>1. UNCHANGED <<handled, answered>>
        BY <3>3 DEF Host, Skip, InterruptAtPrompt, OpenPacket, Refuse, Handle, BrokenPipe, AwaitAck, LoseClient,
                    Guest, Poll, GuestStops, GuestReturns, Call, hostVars
      <4> QED
        BY <4>1
    <3> QED
      BY <3>1, <3>2, <3>3
  <2>2. asked <= answered' + 1
    BY <2>1 DEF TurnsInv, Counts, OnceFacts
  <2> QED
    BY <1>1, <1>2, <2>1, <2>2 DEF TurnsInv, Counts
<1>3. CASE client # "gone" /\ (Skip \/ OpenPacket \/ GuestReturns \/ Call \/ (Poll /\ ~SendStop))
  <2>1. /\ up' = up \/ (up # <<>> /\ up' = Tail(up))
        /\ host # "await" /\ host' # "await"
        /\ UNCHANGED <<down, noAck, sent, serving, handled, answered>>
    BY <1>3 DEF Skip, OpenPacket, GuestReturns, Call, Poll, Reads, hostVars
  <2>2. LiveInv'
    BY <1>1, <1>3, <2>1, GoesOn DEF TurnsInv
  <2> QED
    BY <1>1, <1>3, <2>1, <2>2 DEF TurnsInv, Counts
<1>4. CASE client # "gone" /\ (InterruptAtPrompt \/ GuestStops \/ (Poll /\ SendStop))
  <2>1. /\ SendStop /\ host # "await"
        /\ up' = up \/ (up # <<>> /\ up' = Tail(up))
        /\ host = "guest" \/ (up # <<>> /\ Head(up).token = "intr")
    BY <1>4 DEF InterruptAtPrompt, GuestStops, Poll, Reads, Eof
  <2>2. handled' = handled
    BY <2>1, SendStopIs
  <2> QED
    BY <1>1, <1>4, <2>1, <2>2, StopTurns
<1>5. CASE client # "gone" /\ (Handle \/ AwaitAck \/ Refuse)
  <2>1. CASE Handle
    BY <1>1, <1>5, <2>1, HandleTurns
  <2>2. CASE AwaitAck
    BY <1>1, <1>5, <2>2, AwaitTurns
  <2>3. CASE Refuse
    BY <1>1, <1>5, <2>3, RefuseTurns
  <2> QED
    BY <1>5, <2>1, <2>2, <2>3
<1>6. LoseClient => client = "gone"
  BY DEF LoseClient, Eof
<1> QED
  BY <1>2, <1>3, <1>4, <1>5, <1>6 DEF Host, Guest

(* A request goes behind what is there *)
LEMMA PutsOf ==
  ASSUME WireTypeOK, NEW p \in Msgs, p.token = "body", Puts(p)
  PROVE  /\ \A t : t \notin {"open", "body"} => (None(up', t) <=> None(up, t)) /\ (One(up', t) <=> One(up, t))
         /\ ~None(up, "ack") /\ Guarded(up, "ack", "body") => Guarded(up', "ack", "body")
         /\ Follows(up, "intr", "ack") => Follows(up', "intr", "ack")
<1>1. PICK q \in Msgs : q.token = "body" /\ up' = up \o <<Open, q>>
  BY PutsIs
<1>2. up \in Seq(Msgs) /\ Open \in Msgs /\ Open.token = "open"
  BY DEF WireTypeOK, Open, Token, Msgs, Tokens
<1> DEFINE w == Append(up, Open)
<1>3. up' = Append(w, q)
  BY <1>1, <1>2
<1>4. /\ w \in Seq(Msgs)
      /\ \A t : t # "open" => (None(w, t) <=> None(up, t)) /\ (One(w, t) <=> One(up, t))
      /\ Guarded(up, "ack", "body") => Guarded(w, "ack", "body")
      /\ Follows(up, "intr", "ack") => Follows(w, "intr", "ack")
  BY <1>2, AppendStream
<1> HIDE DEF w
<1> DEFINE v == Append(w, q)
<1>5. /\ \A t : t # "body" => (None(v, t) <=> None(w, t)) /\ (One(v, t) <=> One(w, t))
      /\ Guarded(w, "ack", "body") /\ ~None(w, "ack") => Guarded(v, "ack", "body")
      /\ Follows(w, "intr", "ack") => Follows(v, "intr", "ack")
  BY <1>1, <1>4, AppendStream
<1>6. v = up'
  BY <1>3
<1> HIDE DEF v
<1> QED
  BY <1>4, <1>5, <1>6

(* What the client takes leaves the answers, and the '+' before them *)
LEMMA TakesOf ==
  ASSUME WireTypeOK, down # <<>>, down' = Tail(down)
  PROVE  LET h == Head(down).token
         IN /\ ~None(down, h)
            /\ \A t : None(down, t) => None(down', t)
            /\ \A t : t # h => (None(down', t) <=> None(down, t))
            /\ One(down, h) => None(down', h)
            /\ One(down, "reply") => One(down', "reply")
            /\ \A a : RepliesAre(down, a) => RepliesAre(down', a)
            /\ Guarded(down, "ack", "reply") => h # "reply" /\ (h # "ack" => Guarded(down', "ack", "reply"))
<1> DEFINE h == Head(down).token
           w == Tail(down)
<1>1. /\ ~None(down, h)
      /\ \A t : None(down, t) => None(w, t)
      /\ \A t : t # h /\ None(w, t) => None(down, t)
      /\ \A t : One(down, t) => One(w, t)
      /\ One(down, h) => None(w, h)
      /\ \A s, t : Guarded(down, s, t) => h # t /\ (h # s => Guarded(w, s, t))
      /\ \A a : RepliesAre(down, a) => RepliesAre(w, a)
  BY TailStream DEF WireTypeOK
<1> HIDE DEF h
<1>2. w = down'
  OBVIOUS
<1> HIDE DEF w
<1> QED
  BY <1>1, <1>2 DEF h

(* The client asks when it has its answer *)
LEMMA AskTurns ==
  ASSUME WireTypeOK, OnceFacts, AwaitMode, TurnsInv, NEW kind \in Kinds, Ask(kind)
  PROVE  TurnsInv' /\ taken = asked /\ asked' = asked + 1 /\ UNCHANGED <<handled, answered, taken, inStep>>
<1>1. /\ client = "idle" /\ asked' = asked + 1 /\ request' = Body(asked', kind) /\ Puts(request')
      /\ client' = (IF cNoAck THEN LetGo ELSE "sent")
      /\ UNCHANGED <<down, host, noAck, sent, serving, handled, answered, cNoAck, taken, inStep>>
  BY DEF Ask, hostVars
<1>2. /\ taken = asked /\ answered = asked /\ handled = asked
      /\ asked \in Nat /\ asked' = asked + 1 /\ asked < asked'
      /\ LiveInv
  BY <1>1 DEF OnceFacts, TurnsInv, Counts
<1>3. request' \in Msgs /\ request'.token = "body"
  BY <1>1, <1>2, Tokens7, GdbWireAssumption
<1>4. /\ None(up', "ack") <=> None(up, "ack")
      /\ None(up', "nak") <=> None(up, "nak")
      /\ None(up', "intr") <=> None(up, "intr")
      /\ One(up', "ack") <=> One(up, "ack")
      /\ One(up', "nak") <=> One(up, "nak")
      /\ ~None(up, "ack") /\ Guarded(up, "ack", "body") => Guarded(up', "ack", "body")
      /\ Follows(up, "intr", "ack") => Follows(up', "intr", "ack")
  BY <1>1, <1>3, PutsOf
<1>5. client' \in {"sent", "wait", "gone"} /\ (~cNoAck => client' = "sent")
  BY <1>1 DEF LetGo
<1>6. None(down, "reply") /\ (~noAck => None(up, "nak"))
  BY <1>1, <1>2 DEF LiveInv, ReplyInv, AwaitInv
<1>7. Counts'
  BY <1>1, <1>2, <1>5 DEF Counts
<1>8. ModeInv' /\ ReplyInv'
  BY <1>1, <1>2, <1>4, <1>6, NoneOf DEF LiveInv, ModeInv, ReplyInv
<1>9. AwaitInv'
  BY <1>1, <1>2, <1>4, <1>6 DEF LiveInv, AwaitInv
<1>10. ClientInv'
  <2> SUFFICES ASSUME ~cNoAck
               PROVE  ClientInv'
    BY <1>1 DEF ClientInv
  <2>1. None(down, "ack") /\ None(down, "nak") /\ ~noAck
    BY <1>1, <1>2 DEF OnceFacts, LiveInv, ModeInv
  <2>2. host = "await" => ~None(up, "ack")
    BY <1>2, <1>6, <2>1 DEF LiveInv, AwaitInv
  <2> QED
    BY <1>1, <1>2, <1>4, <1>5, <1>6, <2>1, <2>2, NoneOf DEF LiveInv, ClientInv
<1> QED
  BY <1>1, <1>2, <1>7, <1>8, <1>9, <1>10 DEF TurnsInv, LiveInv

(* It takes a '+', or sends a refused request again *)
LEMMA TakeTurns ==
  ASSUME WireTypeOK, OnceFacts, TurnsInv, TakeAck \/ TakeNak
  PROVE  TurnsInv' /\ UNCHANGED <<asked, handled, answered, taken, inStep>>
<1>1. /\ client \in {"sent", "wait"} /\ down # <<>> /\ down' = Tail(down) /\ Head(down).token \in {"ack", "nak"}
      /\ UNCHANGED <<host, noAck, sent, serving, handled, answered, cNoAck, request, asked, taken, inStep>>
  BY DEF TakeAck, TakeNak, Gets, hostVars
<1>2. LiveInv /\ Counts
  BY <1>1 DEF TurnsInv
<1> DEFINE h == Head(down).token
<1>3. /\ ~None(down, h)
      /\ \A t : None(down, t) => None(down', t)
      /\ None(down', "reply") <=> None(down, "reply")
      /\ One(down', "reply") /\ RepliesAre(down', asked)
      /\ Guarded(down, "ack", "reply") /\ h # "ack" => Guarded(down', "ack", "reply")
      /\ h # "ack" => (None(down', "ack") <=> None(down, "ack"))
  BY <1>1, <1>2, TakesOf DEF LiveInv, ReplyInv
<1> HIDE DEF h
<1>4. CASE TakeAck
  <2>1. h = "ack" /\ up' = up /\ client' \in {"wait", "gone"}
    BY <1>4 DEF TakeAck, Gets, LetGo, h
  <2>2. Counts' /\ ModeInv' /\ ReplyInv'
    BY <1>1, <1>2, <1>3, <2>1 DEF Counts, LiveInv, ModeInv, ReplyInv
  <2>3. client' # "gone" => AwaitInv'
    BY <1>1, <1>2, <1>3, <2>1 DEF LiveInv, AwaitInv
  <2>4. client' # "gone" => ClientInv'
    BY <1>1, <1>2, <1>3, <2>1 DEF LiveInv, ClientInv
  <2> QED
    BY <1>1, <2>2, <2>3, <2>4 DEF TurnsInv, LiveInv
<1>5. CASE TakeNak
  <2>1. h = "nak"
    BY <1>5 DEF TakeNak, Gets, h
  <2>2. CASE client' = "gone"
    BY <1>1, <1>2, <2>2 DEF Counts, TurnsInv
  <2>3. CASE client = "wait" /\ client' = client /\ up' = up
    <3>1. cNoAck
      BY <1>3, <2>1, <2>3 DEF OnceFacts
    <3> QED
      BY <1>1, <1>2, <1>3, <2>3, <3>1 DEF Counts, TurnsInv, LiveInv, ModeInv, ReplyInv, AwaitInv, ClientInv
  <2>4. CASE client = "sent" /\ client' = client /\ Puts(request)
    <3>1. ~cNoAck /\ ~noAck
      BY <1>2, <2>4 DEF OnceFacts, LiveInv, ModeInv
    <3>2. host # "await" /\ handled < asked
      BY <1>2, <1>3, <2>1, <3>1 DEF OnceFacts, LiveInv, ClientInv
    <3>3. /\ None(up', "ack") <=> None(up, "ack")
          /\ None(up', "nak") <=> None(up, "nak")
          /\ None(up', "intr") <=> None(up, "intr")
      <4>1. request \in Msgs /\ request.token = "body"
        BY <2>4 DEF WireTypeOK
      <4>2. \A t : t \notin {"open", "body"} => (None(up', t) <=> None(up, t))
        BY <2>4, <4>1, PutsOf, Zenon
      <4> QED
        BY <4>2
    <3>4. None(up, "ack") /\ None(up, "nak") /\ None(down, "reply")
      BY <1>2, <3>1, <3>2 DEF LiveInv, AwaitInv
    <3>5. Counts' /\ ModeInv' /\ ReplyInv'
      BY <1>1, <1>2, <1>3, <2>4, <3>3 DEF Counts, LiveInv, ModeInv, ReplyInv
    <3>6. AwaitInv'
      BY <1>1, <1>3, <3>2, <3>3, <3>4, NoneOf DEF AwaitInv
    <3>7. ClientInv'
      BY <1>1, <1>2, <1>3, <2>1, <2>4, <3>1, <3>2, <3>3, <3>4 DEF LiveInv, ClientInv
    <3> QED
      BY <1>1, <3>5, <3>6, <3>7 DEF TurnsInv, LiveInv
  <2> QED
    BY <1>5, <2>2, <2>3, <2>4 DEF TakeNak
<1> QED
  BY <1>4, <1>5

(* The answer it takes is that to its latest request *)
LEMMA ReplyTurns ==
  ASSUME WireTypeOK, DialogueInv, OnceFacts, AwaitMode, TurnsInv, TakeReply
  PROVE  /\ TurnsInv'
         /\ UNCHANGED <<asked, handled, answered, inStep>>
         /\ taken' = taken \/ (taken < answered /\ taken' = asked)
<1> DEFINE p == Head(down)
<1>1. /\ client = "wait" /\ down # <<>> /\ down' = Tail(down) /\ p.token = "reply"
      /\ UNCHANGED <<host, noAck, sent, serving, handled, answered, request, asked, inStep>>
  BY DEF TakeReply, Gets, hostVars
<1>2. LiveInv /\ Counts
  BY <1>1 DEF TurnsInv
<1>3. /\ ~None(down, "reply") /\ None(down', "reply")
      /\ \A t : None(down, t) => None(down', t)
      /\ p.ok => p.n = asked
  <2>1. RepliesAre(down, asked) /\ One(down, "reply")
    BY <1>2 DEF LiveInv, ReplyInv
  <2>2. ~None(down, "reply") /\ None(down', "reply") /\ \A t : None(down, t) => None(down', t)
    BY <1>1, <2>1, TakesOf
  <2>3. p.ok => p.n = asked
    BY <1>1, <2>1, TailStream DEF WireTypeOK
  <2> QED
    BY <2>2, <2>3
<1>4. answered = asked /\ taken + 1 = asked
  BY <1>1, <1>2, <1>3 DEF LiveInv, ReplyInv, Counts
<1>5. ReplyInv'
  BY <1>3, NoneOf DEF ReplyInv
<1>6. ~noAck => /\ ~cNoAck /\ None(up, "ack") /\ None(up, "nak") /\ host = "await"
                /\ None(down', "ack") /\ None(down', "nak") /\ answered = handled
  BY <1>1, <1>2, <1>3 DEF LiveInv, ModeInv, AwaitInv, OnceFacts
<1> HIDE DEF p
<1>7. CASE ~p.ok /\ up' = Append(up, Nak) /\ UNCHANGED <<client, cNoAck, taken>>
  <2>1. Nak \in Msgs /\ Nak.token = "nak" /\ up \in Seq(Msgs)
    BY Tokens7 DEF WireTypeOK
  <2>2. /\ \A t : t # "nak" => (None(up', t) <=> None(up, t)) /\ (One(up', t) <=> One(up, t))
        /\ ~None(up', "nak")
        /\ None(up, "nak") => One(up', "nak")
        /\ Guarded(up, "ack", "body") => Guarded(up', "ack", "body")
        /\ Follows(up, "intr", "ack") => Follows(up', "intr", "ack")
    BY <1>7, <2>1, AppendStream
  <2>3. Counts' /\ ModeInv'
    BY <1>1, <1>2, <1>7, <2>2 DEF Counts, LiveInv, ModeInv
  <2>4. AwaitInv'
    <3>1. /\ None(up', "ack") <=> None(up, "ack")
          /\ One(up', "ack") <=> One(up, "ack")
      BY <2>2
    <3> QED
      BY <1>1, <1>2, <1>3, <1>4, <1>6, <1>7, <2>2, <3>1 DEF LiveInv, AwaitInv
  <2>5. ClientInv'
    <3>1. /\ None(up', "ack") <=> None(up, "ack")
          /\ None(up', "intr") <=> None(up, "intr")
      BY <2>2
    <3>2. CASE ~noAck
      BY <1>1, <1>2, <1>3, <1>4, <1>6, <1>7, <2>2, <3>1, <3>2 DEF LiveInv, ClientInv
    <3>3. CASE noAck
      BY <1>2, <1>7, <3>3 DEF LiveInv, ModeInv, ClientInv
    <3> QED
      BY <3>2, <3>3
  <2> QED
    BY <1>1, <1>5, <1>7, <2>3, <2>4, <2>5 DEF TurnsInv, LiveInv
<1>8. CASE /\ p.ok
           /\ up' = (IF cNoAck THEN up ELSE Append(up, Ack))
           /\ taken' = p.n
           /\ cNoAck' = (cNoAck \/ request.kind = "noack")
           /\ client' = (IF request.kind = "detach" THEN "gone" ELSE "idle")
  <2>1. taken' = asked /\ taken < answered
    <3>1. taken' = asked
      BY <1>3, <1>8, Zenon
    <3> QED
      BY <1>2, <1>4, <3>1 DEF Counts, OnceFacts
  <2>2. Counts'
    BY <1>1, <1>2, <1>4, <1>8, <2>1 DEF Counts
  <2>3. CASE noAck
    <3>1. cNoAck /\ cNoAck' /\ up' = up
      BY <1>2, <1>8, <2>3, Zenon DEF LiveInv, ModeInv
    <3> QED
      BY <1>1, <1>2, <1>5, <2>1, <2>2, <2>3, <3>1 DEF TurnsInv, LiveInv, ModeInv, AwaitInv, ClientInv
  <2>4. CASE ~noAck
    <3>1. Ack \in Msgs /\ Ack.token = "ack" /\ up \in Seq(Msgs) /\ up' = Append(up, Ack)
      BY <1>6, <1>8, <2>4, Tokens7 DEF WireTypeOK
    <3>2. /\ \A t : t # "ack" => (None(up', t) <=> None(up, t)) /\ (One(up', t) <=> One(up, t))
          /\ ~None(up', "ack")
          /\ None(up, "ack") => One(up', "ack")
          /\ Guarded(up, "ack", "body") => Guarded(up', "ack", "body")
          /\ Follows(up, "intr", "ack") => Follows(up', "intr", "ack")
      BY <3>1, AppendStream
    <3>3. cNoAck' <=> request.kind = "noack"
      BY <1>6, <1>8, <2>4, Zenon
    <3>4. request.kind = "noack" <=> serving = "noack"
      BY <1>2, <1>6, <2>4 DEF LiveInv, ClientInv, OnceFacts
    <3>5. ModeInv'
      BY <1>1, <1>6, <2>4, <3>2, <3>3, <3>4 DEF ModeInv
    <3>6. AwaitInv'
      <4>1. None(up', "nak") /\ One(up', "nak") /\ One(up', "ack")
        BY <1>6, <2>4, <3>2, NoneOf
      <4>2. Guarded(up', "ack", "body")
        BY <1>2, <1>6, <2>4, <3>2 DEF LiveInv, AwaitInv
      <4> QED
        BY <1>1, <1>3, <1>6, <2>4, <3>2, <4>1, <4>2 DEF AwaitInv
    <3>7. ClientInv'
      <4>1. Follows(up', "intr", "ack") /\ client' \notin {"sent", "wait"}
        BY <1>2, <1>6, <1>8, <2>4, <3>2 DEF LiveInv, ClientInv
      <4> QED
        BY <1>1, <1>3, <1>6, <2>4, <3>2, <4>1 DEF ClientInv, OnceFacts
    <3> QED
      BY <1>1, <1>5, <2>1, <2>2, <3>5, <3>6, <3>7 DEF TurnsInv, LiveInv
  <2> QED
    BY <2>3, <2>4
<1> QED
  BY <1>7, <1>8 DEF TakeReply, p

(* The user may type ^C, or leave *)
LEMMA UserTurns ==
  ASSUME WireTypeOK, OnceFacts, AwaitMode, TurnsInv, Interrupt \/ Leave
  PROVE  TurnsInv' /\ UNCHANGED <<asked, handled, answered, taken, inStep>>
<1>1. CASE Leave
  BY <1>1 DEF Leave, hostVars, TurnsInv, Counts
<1>2. CASE Interrupt
  <2>1. /\ client = "wait" /\ up' = Append(up, Intr)
        /\ UNCHANGED <<down, host, noAck, sent, serving, handled, answered,
                       client, cNoAck, request, asked, taken, inStep>>
    BY <1>2 DEF Interrupt, hostVars, clientVars
  <2>2. LiveInv /\ Counts
    BY <2>1 DEF TurnsInv
  <2>3. Intr \in Msgs /\ Intr.token = "intr" /\ up \in Seq(Msgs)
    BY Tokens7 DEF WireTypeOK
  <2>4. /\ \A t : t # "intr" => (None(up', t) <=> None(up, t)) /\ (One(up', t) <=> One(up, t))
        /\ Guarded(up, "ack", "body") => Guarded(up', "ack", "body")
    BY <2>1, <2>3, AppendStream
  <2>5. /\ None(up', "ack") <=> None(up, "ack")
        /\ None(up', "nak") <=> None(up, "nak")
        /\ One(up', "ack") <=> One(up, "ack")
        /\ One(up', "nak") <=> One(up, "nak")
    BY <2>4
  <2>6. Counts' /\ ModeInv' /\ ReplyInv'
    BY <2>1, <2>2, <2>5 DEF Counts, LiveInv, ModeInv, ReplyInv
  <2>7. AwaitInv'
    BY <2>1, <2>2, <2>4, <2>5 DEF LiveInv, AwaitInv
  <2>8. ClientInv'
    <3> SUFFICES ASSUME ~cNoAck
                 PROVE  ClientInv'
      BY <2>1 DEF ClientInv
    <3>1. ~noAck /\ handled = asked
      BY <2>1, <2>2 DEF LiveInv, ModeInv, ClientInv
    <3>2. host = "await" => None(up, "ack")
      BY <2>1, <2>2, <3>1 DEF LiveInv, AwaitInv, ClientInv
    <3>3. answered < handled \/ host = "await"
      BY <2>1, <2>2, <3>1 DEF LiveInv, ClientInv, OnceFacts
    <3>4. host = "await" => Follows(up', "intr", "ack")
      BY <2>5, <3>2, NoneOf
    <3> QED
      BY <2>1, <2>2, <2>5, <3>3, <3>4 DEF LiveInv, ClientInv
  <2> QED
    BY <2>1, <2>6, <2>7, <2>8 DEF TurnsInv, LiveInv
<1> QED
  BY <1>1, <1>2

(* There is no answer where the client waits for '+' *)
LEMMA NothingDropped ==
  ASSUME WireTypeOK, OnceFacts, TurnsInv, DropReply
  PROVE  FALSE
<1>1. client = "sent" /\ down # <<>> /\ Head(down).token = "reply"
  BY DEF DropReply, Gets
<1>2. Guarded(down, "ack", "reply")
  BY <1>1 DEF OnceFacts, TurnsInv, LiveInv, ClientInv
<1> QED
  BY <1>1, <1>2, TailStream DEF WireTypeOK

(* The host only waits in gdb_send_packet while it wants acknowledgements *)
LEMMA AwaitModeStep ==
  ASSUME WireTypeOK, AwaitMode, [Next]_vars
  PROVE  AwaitMode'
<1>1. ASSUME NEW before, NEW q, NEW kind, SendPacket(before, q, kind)
      PROVE  AwaitMode'
  BY <1>1 DEF SendPacket, Proceed, AwaitMode
<1>2. CASE SendStop
  BY <1>1, <1>2 DEF SendStop, BrokenPipe, AwaitMode
<1>3. CASE Handle
  BY <1>1, <1>3 DEF Handle, BrokenPipe, AwaitMode
<1>4. CASE AwaitAck
  <2>1. ASSUME NEW kind, Proceed(kind)
        PROVE  AwaitMode'
    BY <2>1 DEF Proceed, AwaitMode
  <2> QED
    BY <1>1, <1>4, <2>1 DEF AwaitAck, BrokenPipe, AwaitMode
<1>5. CASE OpenPacket \/ Refuse \/ LoseClient \/ GuestReturns \/ Call
  BY <1>5 DEF OpenPacket, Refuse, BrokenPipe, LoseClient, GuestReturns, Call, AwaitMode
<1>6. CASE UNCHANGED <<host, noAck>>
  BY <1>6 DEF AwaitMode
<1> QED
  BY <1>2, <1>3, <1>4, <1>5, <1>6
     DEF Next, Host, Skip, InterruptAtPrompt, Guest, Poll, GuestStops,
         Receive, TakeAck, TakeNak, DropReply, TakeReply,
         User, Ask, Repeat, Interrupt, Leave, vars, hostVars

(* Who is out of step stays so *)
LEMMA ConfusedForGood ==
  ASSUME WireTypeOK, [Next]_vars, inStep'
  PROVE  inStep
<1>1. CASE SendStop
  BY <1>1, Zenon DEF SendStop, BrokenPipe
<1>2. CASE Handle
  BY <1>2, Zenon DEF Handle, BrokenPipe
<1>3. CASE inStep' = inStep
  BY <1>3
<1> QED
  BY <1>1, <1>2, <1>3
     DEF Next, Host, Skip, InterruptAtPrompt, OpenPacket, Refuse, BrokenPipe, AwaitAck, LoseClient,
         Guest, Poll, GuestStops, GuestReturns, Call, Receive, TakeAck, TakeNak, DropReply, TakeReply,
         User, Ask, Repeat, Interrupt, Leave, vars

(* Every step in step keeps the turns, and is one of the dialogue *)
LEMMA TurnsStep ==
  ASSUME WireInv, repeated = 0, AwaitMode, TurnsInv, [Next]_vars, ~Repeat, inStep, inStep'
  PROVE  TurnsInv' /\ [Dialogue!Next]_Dialogue!vars
<1>1. WireTypeOK /\ DialogueInv /\ OnceFacts
  <2>1. WireTypeOK /\ StopInv /\ DialogueInv
    BY DEF WireInv, OnceInv
  <2> QED
    BY <2>1, OnceFactsAre
<1>2. inStep' = inStep
  BY <1>1 DEF WireTypeOK
<1>3. asked \in Nat /\ handled \in Nat /\ answered \in Nat
  BY <1>1 DEF WireTypeOK
<1>4. UNCHANGED <<asked, handled, answered, taken>> => [Dialogue!Next]_Dialogue!vars
  BY <1>2 DEF Dialogue!vars
<1>5. CASE UNCHANGED vars
  <2>1. UNCHANGED <<up, down, host, noAck, sent, serving, handled, answered, client, cNoAck, request, asked, taken>>
    BY <1>5 DEF vars, hostVars, clientVars
  <2>2. TurnsInv'
    BY <2>1 DEF TurnsInv, Counts, LiveInv, ModeInv, ReplyInv, AwaitInv, ClientInv
  <2> QED
    BY <1>4, <2>1, <2>2
<1>6. CASE Host \/ Guest \/ Call
  <2>1. TurnsInv'
    BY <1>1, <1>6, HostTurns
  <2>2. /\ UNCHANGED <<asked, taken>>
        /\ \/ UNCHANGED <<handled, answered>>
           \/ answered < handled /\ answered' = answered + 1 /\ handled' = handled
           \/ /\ answered = handled /\ handled < asked /\ handled' = handled + 1
              /\ answered' \in {answered, answered + 1}
    BY <1>1, <1>6, HostTurns
  <2>3. [Dialogue!Next]_Dialogue!vars
    BY <1>2, <1>4, <2>2
       DEF Dialogue!Next, Dialogue!Answer, Dialogue!Handle, Dialogue!HandleAndAnswer
  <2> QED
    BY <2>1, <2>3
<1>7. CASE TakeAck \/ TakeNak
  BY <1>1, <1>4, <1>7, TakeTurns
<1>8. CASE DropReply
  BY <1>1, <1>8, NothingDropped
<1>9. CASE TakeReply
  <2>1. /\ TurnsInv' /\ UNCHANGED <<asked, handled, answered>>
        /\ taken' = taken \/ (taken < answered /\ taken' = asked)
    BY <1>1, <1>9, ReplyTurns
  <2> QED
    BY <1>2, <1>4, <2>1 DEF Dialogue!Next, Dialogue!Take
<1>10. ASSUME NEW kind \in Kinds, Ask(kind)
       PROVE  TurnsInv' /\ [Dialogue!Next]_Dialogue!vars
  <2>1. /\ TurnsInv' /\ taken = asked /\ asked' = asked + 1
        /\ UNCHANGED <<handled, answered, taken, inStep>>
    BY <1>1, <1>10, AskTurns
  <2> QED
    BY <2>1 DEF Dialogue!Next, Dialogue!Ask
<1>11. CASE Interrupt \/ Leave
  BY <1>1, <1>4, <1>11, UserTurns
<1> QED
  BY <1>5, <1>6, <1>7, <1>8, <1>9, <1>10, <1>11 DEF Next, Receive, User

(* A repetition is counted *)
LEMMA RepeatCounts ==
  ASSUME WireTypeOK, [Next]_vars, repeated' = 0
  PROVE  repeated = 0 /\ ~Repeat
<1>1. CASE Repeat
  BY <1>1 DEF Repeat, WireTypeOK
<1>2. CASE ~Repeat
  <2>1. repeated' = repeated
    BY <1>2, SendStopIs
       DEF Next, Host, Skip, InterruptAtPrompt, OpenPacket, Refuse, Handle, AwaitAck, LoseClient,
           Guest, Poll, GuestStops, GuestReturns, Call, Receive, TakeAck, TakeNak, DropReply, TakeReply,
           User, Ask, Interrupt, Leave, vars, budgets
  <2> QED
    BY <1>2, <2>1
<1> QED
  BY <1>1, <1>2

(* The inductive invariant: in step, and while nothing is repeated, each    *)
(* request has one answer, and what is under way leads to it.               *)
THEOREM SpecTurnInv == Spec => [](WireInv /\ TurnInv)
<1>1. Init => TurnInv
  <2> SUFFICES ASSUME Init
               PROVE  TurnInv
    OBVIOUS
  <2>1. \A t : None(<<>>, t)
    BY DEF None, Of
  <2>2. \A t : None(up, t) /\ None(down, t)
    BY <2>1 DEF Init
  <2>3. host = "idle" /\ ~noAck /\ ~cNoAck /\ client = "idle" /\ serving = "none"
    BY Zenon DEF Init
  <2>4. Counts
    BY DEF Init, Counts
  <2>5. ModeInv /\ ReplyInv
    BY <2>2, <2>3, NoneOf DEF ModeInv, ReplyInv
  <2>6. AwaitInv
    BY <2>2, <2>3, NoneOf DEF AwaitInv
  <2>7. ClientInv
    <3>1. answered = handled /\ handled = asked /\ asked = 0
      BY DEF Init
    <3> QED
      BY <2>2, <2>3, <3>1 DEF ClientInv
  <2> QED
    BY <2>3, <2>4, <2>5, <2>6, <2>7 DEF TurnInv, AwaitMode, TurnsInv, LiveInv
<1>2. WireInv /\ TurnInv /\ [Next]_vars => TurnInv'
  <2> SUFFICES ASSUME WireInv, TurnInv, [Next]_vars
               PROVE  TurnInv'
    OBVIOUS
  <2>1. AwaitMode'
    BY AwaitModeStep DEF WireInv, TurnInv
  <2>2. ASSUME repeated' = 0, inStep'
        PROVE  TurnsInv'
    <3>1. repeated = 0 /\ ~Repeat /\ inStep
      BY <2>2, RepeatCounts, ConfusedForGood DEF WireInv
    <3> QED
      BY <2>2, <3>1, TurnsStep DEF TurnInv
  <2> QED
    BY <2>1, <2>2 DEF TurnInv
<1> QED
  BY <1>1, <1>2, SpecWireInv, PTL DEF Spec

(* A step after which no request has been repeated is a step of RequestReply *)
LEMMA TurnsUntil ==
  ASSUME WireInv, TurnInv, [Next]_vars, repeated' = 0
  PROVE  [Dialogue!Next]_Dialogue!vars
<1>1. repeated = 0 /\ ~Repeat
  BY RepeatCounts DEF WireInv
<1>2. CASE inStep /\ inStep'
  BY <1>1, <1>2, TurnsStep DEF TurnInv
<1>3. CASE ~inStep \/ ~inStep'
  BY <1>3 DEF Dialogue!Next, Dialogue!OutOfStep
<1> QED
  BY <1>2, <1>3

(* What the two do until a request is repeated *)
TurnsUntilRepeated == [][repeated' = 0 => [Dialogue!Next]_Dialogue!vars]_vars

(* gdb and riscv_gdb.c take turns as RequestReply promises, for any number  *)
(* of requests, damaged packets and ^C, until a request is repeated because *)
(* its '+' came too late: each is carried out once and answered once, and   *)
(* the answer that the client takes is that to its latest request.          *)
THEOREM SpecTurnsUntilRepeated == Spec => TurnsUntilRepeated
<1>1. WireInv /\ TurnInv /\ [Next]_vars => [repeated' = 0 => [Dialogue!Next]_Dialogue!vars]_vars
  BY TurnsUntil
<1> QED
  BY <1>1, SpecTurnInv, PTL DEF Spec, TurnsUntilRepeated

(* Where the client does not repeat at all, that is RequestReply *)
THEOREM SpecTakesTurns ==
  ASSUME MaxRepeated = 0
  PROVE  Spec => TakesTurns
<1>1. Init => Dialogue!Init /\ repeated = 0
  BY Zenon DEF Init, Dialogue!Init
<1>2. WireInv /\ repeated = 0 /\ [Next]_vars => (repeated = 0)'
  <2> SUFFICES ASSUME WireInv, repeated = 0, [Next]_vars
               PROVE  repeated' = 0
    OBVIOUS
  <2>1. ~Repeat
    BY DEF Repeat
  <2> QED
    BY <2>1, SendStopIs
       DEF WireInv, Next, Host, Skip, InterruptAtPrompt, OpenPacket, Refuse, Handle, AwaitAck, LoseClient,
           Guest, Poll, GuestStops, GuestReturns, Call, Receive, TakeAck, TakeNak, DropReply, TakeReply,
           User, Ask, Interrupt, Leave, vars, budgets
<1>3. WireInv /\ TurnInv /\ repeated = 0 /\ [Next]_vars => [Dialogue!Next]_Dialogue!vars
  <2> SUFFICES ASSUME WireInv, TurnInv, repeated = 0, [Next]_vars
               PROVE  [Dialogue!Next]_Dialogue!vars
    OBVIOUS
  <2> QED
    BY <1>2, TurnsUntil
<1> QED
  BY <1>1, <1>2, <1>3, SpecTurnInv, PTL DEF Spec, TakesTurns, Dialogue!Spec
=============================================================================
