--------------------------- MODULE BufferedChannel ---------------------------
(***************************************************************************)
(* What a channel promises its callers, one whole call at a time: a        *)
(* successful push appends one element while the channel is open and has  *)
(* room, a successful pop takes the oldest element while the channel is   *)
(* open, and close marks it closed.  Once closed, the buffer may be       *)
(* dropped: that is what ChannelImpl::close does (std::swap with an empty  *)
(* queue, after closed_ is set), where spec property 7 asks for a drain.  *)
(***************************************************************************)
EXTENDS Naturals, Sequences

CONSTANT Elements

VARIABLES
  capacity,   \* the capacity the channel was built with
  buf,        \* the elements pushed and not yet popped
  isClosed

bcVars == <<capacity, buf, isClosed>>

Init ==
  /\ capacity \in Nat
  /\ buf = <<>>
  /\ isClosed = FALSE

Send(x) ==
  /\ ~isClosed
  /\ Len(buf) < capacity
  /\ buf' = Append(buf, x)
  /\ UNCHANGED <<capacity, isClosed>>

Recv ==
  /\ ~isClosed
  /\ buf # <<>>
  /\ buf' = Tail(buf)
  /\ UNCHANGED <<capacity, isClosed>>

Close ==
  /\ isClosed' = TRUE
  /\ UNCHANGED <<capacity, buf>>

Drop ==
  /\ isClosed
  /\ buf' = <<>>
  /\ UNCHANGED <<capacity, isClosed>>

Next == (\E x \in Elements : Send(x)) \/ Recv \/ Close \/ Drop

Spec == Init /\ [][Next]_bcVars
=============================================================================
