----------------------------- MODULE ByteStream ------------------------------
(***************************************************************************)
(* What file_downloader promises of a response body: the bytes of the      *)
(* range, in order and once each, until all of them are written or the     *)
(* connection is given up.                                                 *)
(***************************************************************************)
EXTENDS Integers, Sequences

CONSTANTS
  Request,   \* the requests
  Ranges     \* the byte ranges asked for: [first |-> f, total |-> n]

VARIABLES
  range,  \* the range each request asks for
  wire,   \* the bytes written so far, by their place in the torrent
  fate    \* "open", "complete" or "aborted"

vars == <<range, wire, fate>>

\* The n bytes from byte f on.
Bytes(f, n) == [i \in 1 .. n |-> f + i - 1]

Init ==
  /\ range \in [Request -> Ranges]
  /\ wire = [r \in Request |-> <<>>]
  /\ fate = [r \in Request |-> "open"]

Write(r) ==
  /\ fate[r] = "open"
  /\ \E n \in 1 .. range[r].total - Len(wire[r]) :
       wire'[r] = wire[r] \o Bytes(range[r].first + Len(wire[r]), n)
  /\ UNCHANGED fate[r]

Complete(r) ==
  /\ fate[r] = "open"
  /\ Len(wire[r]) = range[r].total
  /\ fate'[r] = "complete"
  /\ UNCHANGED wire[r]

Abort(r) ==
  /\ fate[r] = "open"
  /\ fate'[r] = "aborted"
  /\ UNCHANGED wire[r]

\* One piece may serve several requests at a time.
Next ==
  /\ UNCHANGED range
  /\ \A r \in Request :
       Write(r) \/ Complete(r) \/ Abort(r) \/ UNCHANGED <<wire[r], fate[r]>>

Spec == Init /\ [][Next]_vars
=============================================================================
