----------------------------- MODULE MCWebForms -----------------------------
(* Every page with two or three requests of the administrator.  The lists   *)
(* start with two rows; the users page with one user.                       *)
EXTENDS WebForms, TLC

CONSTANTS oldText, newText, v1, v2, v3

MCFirstList == <<[uid |-> 1, val |-> oldText], [uid |-> 2, val |-> oldText]>>

(* A URL, the same with blanks around it, and something else.               *)
MCUrlOf == v1 :> v1 @@ v2 :> v1 @@ v3 :> None @@ NoValue :> NoValue

MCProviders == {"disabled", "grok"}
=============================================================================
