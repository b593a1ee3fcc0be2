----------------------------- MODULE WebCommon -----------------------------
(***************************************************************************)
(* What the modules of the web interface share.  Every one of them models  *)
(* code that runs in one browser tab: a handler runs without interruption  *)
(* up to its next await, so an action is the part of a handler up to an    *)
(* await, or what follows the answer to the request it awaited.  Answers   *)
(* may arrive in any order, and a component that was destroyed may still   *)
(* receive one.                                                            *)
(*                                                                         *)
(* The pages that change the configuration keep their requests in a set.   *)
(* The server acts on a request, and records what it read for the answer;  *)
(* the answer arrives later.  A request can fail before the server acted   *)
(* on it or after: the page cannot tell the two apart.                     *)
(***************************************************************************)
EXTENDS Naturals, FiniteSets

CONSTANTS None,    \* null, undefined, or "nothing is shown"
          Unread   \* the content of a request the server has not read yet

Fresh(net) == CHOOSE n \in 1 .. Cardinality(net) + 1 : \A r \in net : r.n # n

(* The same request twice is two requests.                                 *)
Send(net, op, args) ==
  net \cup {[n |-> Fresh(net), op |-> op, args |-> args, done |-> FALSE, snap |-> Unread]}

Served(net, r, snap) == (net \ {r}) \cup {[r EXCEPT !.done = TRUE, !.snap = snap]}

InFlight(net, ops) == \E r \in net : r.op \in ops
=============================================================================
