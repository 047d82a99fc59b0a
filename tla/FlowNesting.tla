------------------------------ MODULE FlowNesting ------------------------------
(***************************************************************************)
(* What the callers of the scanner rely on for flow collections: the       *)
(* events that open and close them are properly nested, whatever the       *)
(* input, and no input is accepted while one is open.  decode.go counts on *)
(* it: array() and object() read events until "their" end event.           *)
(***************************************************************************)
EXTENDS Integers, Sequences

VARIABLES
  open,      \* the flow collections open now, outermost first
  event,     \* the opcode the scanner returned last
  verdict    \* what checkValid has found out so far

vars == <<open, event, verdict>>

Collection == {"object", "array"}

BeginOf == [object |-> "BeginObject", array |-> "BeginArray"]
EndOf   == [object |-> "EndObject",   array |-> "EndArray"]

Init == open = <<>> /\ event = "Continue" /\ verdict = "scanning"

\* The opening event comes with one more open collection ...
Begin(k) ==
  /\ event' = BeginOf[k]
  /\ open' = Append(open, k)
  /\ UNCHANGED verdict

\* ... the closing event with one less, the innermost, which is of its kind ...
End(k) ==
  /\ open # <<>> /\ open[Len(open)] = k
  /\ event' = EndOf[k]
  /\ open' = SubSeq(open, 1, Len(open) - 1)
  /\ UNCHANGED verdict

\* ... and any other event leaves them alone.
Other ==
  /\ \A k \in Collection : event' \notin {BeginOf[k], EndOf[k]}
  /\ UNCHANGED <<open, verdict>>

Scanning == verdict = "scanning" /\ ((\E k \in Collection : Begin(k) \/ End(k)) \/ Other)

\* Input may be rejected at any time, and accepted with everything closed.
Accept == verdict = "scanning" /\ open = <<>> /\ verdict' = "valid" /\ open' = <<>>
Reject == verdict = "scanning" /\ verdict' = "invalid" /\ event' = "Error"

\* The scanner starts on other input.
Restart == verdict # "scanning" /\ verdict' = "scanning" /\ open' = <<>> /\ event' = "Continue"

Next == Scanning \/ Accept \/ Reject \/ Restart

Spec == Init /\ [][Next]_vars
===============================================================================
