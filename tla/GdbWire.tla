------------------------------- MODULE GdbWire -------------------------------
(* The remote protocol on the wire (riscv_gdb.c): gdb_read_packet,          *)
(* gdb_send_packet with its acknowledgements, riscv_gdb_poll_async, and the *)
(* client at the other end.                                                 *)
(*                                                                          *)
(* A stream is a sequence of tokens: an acknowledgement, a ^C, the '$' that *)
(* opens a packet, and the rest of a packet with its checksum.  A request   *)
(* carries its number and kind, an answer the number of its request.        *)
EXTENDS Naturals, Sequences

CONSTANTS
  Kinds,         \* the kinds of requests the client makes
  MaxAsked,      \* bound: requests of a session
  MaxDamaged,    \* bound: packets damaged on their way
  MaxRepeated,   \* bound: requests repeated because no '+' came in time
  MaxInterrupts  \* bound: ^C typed by the user

(* A "query" stays at the prompt and is answered; "plus" and "minus" are    *)
(* queries whose text has a '+' (qSupported) or a '-' (Hc-1); "noack" is    *)
(* QStartNoAckMode, "resume" is c, s or vCont, and "long" a packet that     *)
(* does not fit GDB_PACKET_CAP.                                             *)
AllKinds == {"query", "plus", "minus", "noack", "resume", "detach", "kill", "long"}

ASSUME GdbWireAssumption == Kinds \subseteq AllKinds

VARIABLES
  up, down,   \* the streams to the host and to the client
  host,       \* where the host thread is
  noAck,      \* gdb_no_ack
  sent,       \* the packet gdb_send_packet waits with
  serving,    \* the kind of the request it answers
  client,     \* "idle", "sent" (no '+' yet), "wait" (for the answer), "gone"
  cNoAck,     \* the client has stopped acknowledging
  request,    \* the client's latest request
  asked, handled, answered, taken, inStep, \* see RequestReply
  damaged, repeated, interrupts            \* what the bounds count

hostVars == <<host, noAck, sent, serving, handled, answered>>
clientVars == <<client, cNoAck, request, asked, taken>>
budgets == <<damaged, repeated, interrupts>>
vars == <<up, down, hostVars, clientVars, inStep, budgets>>

Token(t) == [token |-> t, n |-> 0, kind |-> "none", ok |-> TRUE]
Ack == Token("ack")
Nak == Token("nak")
Intr == Token("intr")
Open == Token("open")
Nothing == Token("nothing")
Body(n, kind) == [token |-> "body", n |-> n, kind |-> kind, ok |-> TRUE]
Reply(n) == [token |-> "reply", n |-> n, kind |-> "none", ok |-> TRUE]

Init ==
  /\ up = <<>> /\ down = <<>>
  /\ host = "idle" /\ noAck = FALSE /\ sent = Nothing /\ serving = "none"
  /\ client = "idle" /\ cNoAck = FALSE /\ request = Nothing
  /\ asked = 0 /\ handled = 0 /\ answered = 0 /\ taken = 0 /\ inStep = TRUE
  /\ damaged = 0 /\ repeated = 0 /\ interrupts = 0

(* What may become of a packet on its way.  Damage is met only while packets *)
(* are acknowledged, for the two agree to stop that on a reliable link only. *)
Travels(p, q) ==
  \/ q = p /\ UNCHANGED damaged
  \/ /\ ~cNoAck /\ damaged < MaxDamaged
     /\ q = [p EXCEPT !.n = 0, !.ok = FALSE] /\ damaged' = damaged + 1
-----------------------------------------------------------------------------
(* The host. *)

(* gdb_read_byte, a token at a time.  The end of file comes when the client *)
(* has closed its socket, which may also take what is still under way.      *)
Reads(t) == up # <<>> /\ Head(up).token = t /\ up' = Tail(up)
Eof == client = "gone"

(* A write to a client that has gone may raise SIGPIPE *)
BrokenPipe ==
  /\ client = "gone"
  /\ host' = "killed"
  /\ UNCHANGED <<down, noAck, sent, serving, handled, answered, inStep, damaged>>

(* Where the host goes on when its answer is out *)
Proceed(kind) ==
  /\ host' = IF kind = "detach" THEN "idle" ELSE "read"
  /\ noAck' = (noAck \/ kind = "noack")
  /\ sent' = Nothing /\ serving' = "none"

(* gdb_send_packet up to its wait for an acknowledgement *)
SendPacket(before, p, kind) ==
  \E q \in {p, [p EXCEPT !.n = 0, !.ok = FALSE]} :
    /\ Travels(p, q)
    /\ down' = down \o before \o <<q>>
    /\ IF noAck
       THEN Proceed(kind)
       ELSE host' = "await" /\ sent' = p /\ serving' = kind /\ UNCHANGED noAck

(* A stop answers the resume that is open.  When none is, because a stop has *)
(* been reported already, one answer too many goes out: a client that waits  *)
(* for '+' drops it, one that does not takes it for its next answer.         *)
SendStop ==
  /\ \/ /\ SendPacket(<<>>, Reply(handled), "stop")
        /\ answered' = IF answered < handled THEN answered + 1 ELSE answered
        /\ inStep' = (inStep /\ (noAck => answered < handled))
        /\ UNCHANGED handled
     \/ BrokenPipe
  /\ UNCHANGED <<repeated, interrupts, clientVars>>

(* gdb_read_packet outside of a packet: acknowledgements and garbage *)
Skip ==
  /\ host = "read"
  /\ Reads("ack") \/ Reads("nak") \/ Reads("body")
  /\ UNCHANGED <<down, hostVars, clientVars, inStep, budgets>>

(* Seeded fault: a ^C is of no interest while the guest is stopped *)
InterruptAtPromptDropped ==
  /\ host = "read" /\ Reads("intr")
  /\ UNCHANGED <<down, hostVars, clientVars, inStep, budgets>>

InterruptAtPrompt ==
  /\ host = "read" /\ Reads("intr")
  /\ SendStop

OpenPacket ==
  /\ host = "read" /\ Reads("open")
  /\ host' = "packet"
  /\ UNCHANGED <<down, noAck, sent, serving, handled, answered, clientVars, inStep, budgets>>

(* Seeded fault: the checksum is not looked at *)
AcceptsDamaged(p) == p.kind # "long"

(* The checksum counts only while packets are acknowledged *)
Accepts(p) == p.kind # "long" /\ (noAck \/ p.ok)

(* A packet that is not accepted is asked for again; without               *)
(* acknowledgements one that does not fit ends the session.                *)
Refuse ==
  /\ host = "packet" /\ Reads("body") /\ ~Accepts(Head(up))
  /\ \/ /\ host' = IF noAck THEN "idle" ELSE "read"
        /\ down' = IF noAck THEN down ELSE Append(down, Nak)
        /\ UNCHANGED <<noAck, sent, serving, handled, answered, inStep, damaged>>
     \/ ~noAck /\ BrokenPipe
  /\ UNCHANGED <<repeated, interrupts, clientVars>>

(* Seeded fault: a resume is answered at once, like any other request *)
HandleAnswersResume ==
  /\ host = "packet" /\ Reads("body") /\ Accepts(Head(up))
  /\ handled' = handled + 1 /\ answered' = answered + 1
  /\ LET p == Head(up)
         ack == IF noAck THEN <<>> ELSE <<Ack>>
     IN \/ p.kind # "resume" /\ SendPacket(ack, Reply(p.n), p.kind)
        \/ /\ p.kind = "resume"
           /\ host' = "guest" /\ down' = down \o ack \o <<Reply(p.n)>>
           /\ UNCHANGED <<noAck, sent, serving, damaged>>
  /\ UNCHANGED <<inStep, repeated, interrupts, clientVars>>

(* It is acknowledged and gdb_handle_packet carries it out.  A resume is    *)
(* answered by the next stop, k not at all: when the client repeats one of  *)
(* them, the repetition may start or end the next call.                     *)
Handle ==
  /\ host = "packet" /\ Reads("body") /\ Accepts(Head(up))
  /\ LET p == Head(up)
         ack == IF noAck THEN <<>> ELSE <<Ack>>
     IN \/ /\ p.kind \notin {"resume", "kill"}
           /\ SendPacket(ack, Reply(p.n), p.kind)
           /\ handled' = handled + 1 /\ answered' = answered + 1
           /\ UNCHANGED inStep
        \/ /\ p.kind \in {"resume", "kill"}
           /\ host' = IF p.kind = "resume" THEN "guest" ELSE "idle"
           /\ down' = down \o ack
           /\ handled' = handled + 1
           /\ inStep' = (inStep /\ p.n > handled)
           /\ UNCHANGED <<noAck, sent, serving, answered, damaged>>
        \/ BrokenPipe
  /\ UNCHANGED <<repeated, interrupts, clientVars>>

(* gdb_send_packet waits for '+'.  A '-' has the packet sent again, and all *)
(* other bytes are dropped, except that a '+' or a '-' in the text of a     *)
(* request is taken for an acknowledgement.                                 *)
Acknowledges(p, token, kind) == p.token = token \/ (p.token = "body" /\ p.kind = kind)

AwaitAck ==
  /\ host = "await"
  /\ up # <<>> /\ up' = Tail(up)
  /\ \/ /\ Acknowledges(Head(up), "ack", "plus")
        /\ Proceed(serving)
        /\ UNCHANGED <<down, handled, answered, inStep, damaged>>
     \/ /\ Acknowledges(Head(up), "nak", "minus")
        /\ \/ SendPacket(<<>>, sent, serving) /\ UNCHANGED <<handled, answered, inStep>>
           \/ BrokenPipe
     \/ /\ ~Acknowledges(Head(up), "ack", "plus") /\ ~Acknowledges(Head(up), "nak", "minus")
        /\ UNCHANGED <<down, host, noAck, sent, serving, handled, answered, inStep, damaged>>
  /\ UNCHANGED <<repeated, interrupts, clientVars>>

(* The read fails, and so does every later one: riscv_gdb_on_stop gives up *)
LoseClient ==
  /\ host \in {"read", "packet", "await"} /\ Eof
  /\ host' = "idle" /\ up' = <<>>
  /\ noAck' = (noAck \/ serving = "noack")
  /\ sent' = Nothing /\ serving' = "none"
  /\ UNCHANGED <<down, handled, answered, clientVars, inStep, budgets>>

(* Between slices of the guest riscv_gdb_poll_async takes one byte.  A ^C   *)
(* and the end of file stop the guest; any other byte is lost, and what     *)
(* remains of its packet is garbage to gdb_read_packet.                     *)
Poll ==
  /\ host = "guest"
  /\ \/ Reads("intr") /\ SendStop
     \/ Eof /\ SendStop /\ UNCHANGED up
     \/ /\ Reads("ack") \/ Reads("nak") \/ Reads("open") \/ Reads("body")
        /\ UNCHANGED <<down, hostVars, clientVars, inStep, budgets>>

(* A breakpoint, a step or a fault *)
GuestStops == host = "guest" /\ SendStop /\ UNCHANGED up

(* The guest function returns: riscv_jit_call does, and tells the client    *)
(* nothing.  A later call starts at the prompt, just as silently.           *)
GuestReturns ==
  /\ host = "guest"
  /\ host' = "idle"
  /\ UNCHANGED <<up, down, noAck, sent, serving, handled, answered, clientVars, inStep, budgets>>

Call ==
  /\ host = "idle"
  /\ host' = "read"
  /\ UNCHANGED <<up, down, noAck, sent, serving, handled, answered, clientVars, inStep, budgets>>
-----------------------------------------------------------------------------
(* The client, which keeps to the protocol as gdb does: one request at a    *)
(* time, acknowledgements, and patience.                                    *)
LetGo == IF request'.kind = "kill" THEN "gone" ELSE "wait"

Puts(p) ==
  \E q \in {p, [p EXCEPT !.n = 0, !.ok = FALSE]} :
    Travels(p, q) /\ up' = up \o <<Open, q>>

Ask(kind) ==
  /\ client = "idle" /\ asked < MaxAsked
  /\ asked' = asked + 1
  /\ request' = Body(asked', kind)
  /\ Puts(request')
  /\ client' = IF cNoAck THEN LetGo ELSE "sent"
  /\ UNCHANGED <<down, hostVars, cNoAck, taken, inStep, repeated, interrupts>>

(* No '+' in time *)
Repeat ==
  /\ client = "sent" /\ repeated < MaxRepeated
  /\ repeated' = repeated + 1
  /\ Puts(request)
  /\ UNCHANGED <<down, hostVars, clientVars, inStep, interrupts>>

Gets(t) == down # <<>> /\ Head(down).token = t /\ down' = Tail(down)

TakeAck ==
  /\ client \in {"sent", "wait"} /\ Gets("ack")
  /\ UNCHANGED request
  /\ client' = LetGo
  /\ UNCHANGED <<up, hostVars, cNoAck, asked, taken, inStep, budgets>>

(* A request that is refused is sent again, one that never fits given up *)
TakeNak ==
  /\ client \in {"sent", "wait"} /\ Gets("nak")
  /\ \/ client = "sent" /\ request.kind # "long" /\ Puts(request) /\ UNCHANGED client
     \/ client = "sent" /\ request.kind = "long" /\ client' = "gone" /\ UNCHANGED <<up, damaged>>
     \/ client = "wait" /\ UNCHANGED <<client, up, damaged>>
  /\ UNCHANGED <<hostVars, cNoAck, request, asked, taken, inStep, repeated, interrupts>>

(* A packet in place of a '+' is an old one, acknowledged and dropped *)
DropReply ==
  /\ client = "sent" /\ Gets("reply")
  /\ up' = Append(up, Ack)
  /\ UNCHANGED <<hostVars, clientVars, inStep, budgets>>

TakeReply ==
  /\ client = "wait" /\ Gets("reply")
  /\ LET p == Head(down)
     IN \/ /\ ~p.ok
           /\ up' = Append(up, Nak)
           /\ UNCHANGED <<client, cNoAck, taken>>
        \/ /\ p.ok
           /\ up' = IF cNoAck THEN up ELSE Append(up, Ack)
           /\ taken' = p.n
           /\ cNoAck' = (cNoAck \/ request.kind = "noack")
           /\ client' = IF request.kind = "detach" THEN "gone" ELSE "idle"
  /\ UNCHANGED <<hostVars, request, asked, inStep, budgets>>

(* The user types ^C while the guest runs, as far as the client knows *)
Interrupt ==
  /\ client = "wait" /\ request.kind = "resume" /\ interrupts < MaxInterrupts
  /\ interrupts' = interrupts + 1
  /\ up' = Append(up, Intr)
  /\ UNCHANGED <<down, hostVars, clientVars, inStep, damaged, repeated>>

Leave ==
  /\ client # "gone" /\ client' = "gone"
  /\ UNCHANGED <<up, down, hostVars, cNoAck, request, asked, taken, inStep, budgets>>
-----------------------------------------------------------------------------
Host ==
  Skip \/ InterruptAtPrompt \/ OpenPacket \/ Refuse \/ Handle \/ AwaitAck \/ LoseClient
Guest == Poll \/ GuestStops \/ GuestReturns
Receive == TakeAck \/ TakeNak \/ DropReply \/ TakeReply
User == (\E kind \in Kinds : Ask(kind)) \/ Repeat \/ Interrupt \/ Leave

Next == Host \/ Guest \/ Call \/ Receive \/ User

(* The host reads what is there, its slices end by fuel if by nothing else, *)
(* and the client reads what it waits for.                                  *)
Spec == Init /\ [][Next]_vars /\ WF_vars(Host) /\ WF_vars(Guest) /\ WF_vars(Receive)
-----------------------------------------------------------------------------
(* Requests and answers take turns, whatever is damaged, repeated or       *)
(* interrupted: each request is carried out once, and the client never     *)
(* takes the answer to another one.                                        *)
Dialogue == INSTANCE RequestReply
TakesTurns == Dialogue!Spec

(* Only two things get them out of step: a ^C that crosses a stop when      *)
(* nothing is acknowledged, and a c, s or k repeated so late that the next  *)
(* call carries it out again.                                               *)
OnlyTheseConfuse == ~inStep => (noAck /\ interrupts > 0) \/ repeated > 0

(* The host and the client do not wait for each other for ever: a request  *)
(* is answered, and a ^C gives the client its prompt back, also when the    *)
(* function it had resumed has returned and the next call waits silently.   *)
(* The exceptions: once they are out of step the poll may eat the '$' of a  *)
(* request; and the '+' in a repeated request counts as the acknowledgement *)
(* of an answer that was damaged.                                           *)
InterruptUnderWay == \E i \in DOMAIN up : up[i] = Intr
Answered ==
  (/\ client \in {"sent", "wait"}
   /\ request.kind \notin {"resume", "long"} \/ InterruptUnderWay)
    ~> \/ client \in {"idle", "gone"} \/ host \in {"idle", "killed"}
       \/ ~inStep \/ (repeated > 0 /\ damaged > 0)
=============================================================================
