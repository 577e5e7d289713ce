---------------------------- MODULE BodyPromise ----------------------------
(***************************************************************************)
(* What the reader of a live request body is promised (app/server/http.h,  *)
(* HttpRequest::body_stream): the bytes of the body in their order, then   *)
(* its end if the client sent all of it, and otherwise an error.  A body   *)
(* that was cut short never looks like one that ended.                     *)
(*                                                                         *)
(* A byte of data is named by its place in what the client sends.          *)
(***************************************************************************)
EXTENDS Naturals, Sequences, SequencesExt

VARIABLES
  content,    \* the places of the data, as far as the framing makes sense
  whole,      \* whether the client frames and terminates it properly
  delivered,  \* the data handed to the reader so far
  outcome     \* "open", "eof" or "error"

vars == <<content, whole, delivered, outcome>>

\* The data d is the first of the content, in its order and without a gap.
Begins(d) ==
  /\ \A i, j \in 1..Len(d) : i < j => d[i] < d[j]
  /\ \A i \in 1..Len(d) : d[i] \in content
  /\ \A p \in content : (\E i \in 1..Len(d) : p <= d[i]) => \E i \in 1..Len(d) : p = d[i]

Init ==
  /\ content \in SUBSET Nat
  /\ whole \in BOOLEAN
  /\ delivered = <<>>
  /\ outcome = "open"

Deliver ==
  /\ outcome = "open"
  /\ IsStrictPrefix(delivered, delivered')
  /\ Begins(delivered)'
  /\ UNCHANGED <<content, whole, outcome>>

End ==
  /\ outcome = "open"
  /\ whole
  /\ \A p \in content : \E i \in 1..Len(delivered) : p = delivered[i]
  /\ outcome' = "eof"
  /\ UNCHANGED <<content, whole, delivered>>

Fail ==
  /\ outcome = "open"
  /\ outcome' = "error"
  /\ UNCHANGED <<content, whole, delivered>>

Next == Deliver \/ End \/ Fail

Spec == Init /\ [][Next]_vars
=============================================================================
