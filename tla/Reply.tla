-------------------------------- MODULE Reply ---------------------------------
(***************************************************************************)
(* What a client is promised of one routed request, whichever surface it   *)
(* came in on and however many upstreams were asked: upstreams are asked   *)
(* one after another while the client has read nothing of theirs; it then  *)
(* reads one stream, all of it from the last one asked, or one error       *)
(* envelope; and nothing follows the end.  Dispatch implements it.         *)
(***************************************************************************)
EXTENDS Naturals, Sequences

VARIABLES asked,   \* upstream calls made
          wire,    \* chunks the client has read
          over     \* the handler has returned

vars == <<asked, wire, over>>

\* The bodies that are a reply of their own.
Whole == {"envelope", "generic", "badGateway"}

\* Chunks the router writes of its own accord belong to no call.
Own(c) == c.call = 0

\* A reply is one stream or one whole body, in the voice of the last call.
Coherent(w, n) ==
  /\ \A k \in DOMAIN w : Own(w[k]) \/ w[k].call = n
  /\ \A k \in DOMAIN w : w[k].kind \in Whole \cup {"start"} => k = 1
  /\ Len(w) > 1 => w[1].kind \notin Whole

Extends(w) == Len(w) <= Len(wire') /\ SubSeq(wire', 1, Len(w)) = w

Init == asked = 0 /\ wire = <<>> /\ over = FALSE

\* Nothing but the router's own greeting has been read.
Ask ==
  /\ ~over /\ \A k \in DOMAIN wire : Own(wire[k]) /\ wire[k].kind = "start"
  /\ asked' = asked + 1
  /\ UNCHANGED <<wire, over>>

\* The client reads more, and the request may end with it.
Say ==
  /\ ~over /\ Extends(wire) /\ Coherent(wire', asked)
  /\ over' \in BOOLEAN
  /\ UNCHANGED asked

Next == Ask \/ Say

Spec == Init /\ [][Next]_vars

=============================================================================
