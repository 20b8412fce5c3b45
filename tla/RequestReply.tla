----------------------------- MODULE RequestReply -----------------------------
(* What the framing of the remote protocol promises to the debugger and to   *)
(* the program: requests and answers take turns.  Every request is carried   *)
(* out once, answered once, and the answer the client takes is the answer    *)
(* to its latest request.  When the two get out of step nothing is promised  *)
(* any more; how that can happen is for the detailed specification to say.   *)
EXTENDS Naturals

VARIABLES asked,    \* requests the client has made
          handled,  \* requests the host has carried out
          answered, \* requests the host has answered
          taken,    \* the request whose answer the client has last taken
          inStep    \* nothing has got them out of step

vars == <<asked, handled, answered, taken, inStep>>

Init == asked = 0 /\ handled = 0 /\ answered = 0 /\ taken = 0 /\ inStep = TRUE

Ask ==
  /\ taken = asked
  /\ asked' = asked + 1
  /\ UNCHANGED <<handled, answered, taken, inStep>>

Handle ==
  /\ handled < asked
  /\ handled' = handled + 1
  /\ UNCHANGED <<asked, answered, taken, inStep>>

Answer ==
  /\ answered < handled
  /\ answered' = answered + 1
  /\ UNCHANGED <<asked, handled, taken, inStep>>

(* Most requests are carried out and answered in one go *)
HandleAndAnswer ==
  /\ answered = handled /\ handled < asked
  /\ handled' = handled + 1 /\ answered' = answered + 1
  /\ UNCHANGED <<asked, taken, inStep>>

Take ==
  /\ taken < answered
  /\ taken' = asked
  /\ UNCHANGED <<asked, handled, answered, inStep>>

OutOfStep == ~inStep' \/ ~inStep

Next == Ask \/ Handle \/ Answer \/ HandleAndAnswer \/ Take \/ OutOfStep

Spec == Init /\ [][Next]_vars
=============================================================================
