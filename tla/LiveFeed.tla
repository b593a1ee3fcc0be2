------------------------------ MODULE LiveFeed ------------------------------
(***************************************************************************)
(* What the pages of the web interface that refresh themselves promise:    *)
(* the decision log, the statistics and the activity of a device.          *)
(*                                                                         *)
(* The administrator chooses a subject (a search, a time window, a         *)
(* device).  The page asks the server for one subject at a time, shows an  *)
(* answer only when it is about the subject chosen at that moment, and     *)
(* asks and shows nothing once it is closed.  DecisionLog, Statistics and  *)
(* DeviceActivity implement it (module LivePages).                         *)
(***************************************************************************)
CONSTANTS Subjects,  \* what the page can be about
          Nothing    \* not a subject: nothing is chosen, shown or asked

VARIABLES open,      \* the page is on the screen
          subject,   \* the subject chosen
          shown,     \* the subject of the rows on the screen
          asked      \* the subject of the request whose answer counts

vars == <<open, subject, shown, asked>>

Init ==
  /\ shown = Nothing
  /\ \/ open = FALSE /\ subject = Nothing /\ asked = Nothing
     \/ open = TRUE /\ subject \in Subjects /\ asked = subject

(* The page opens on s, or restarts on s: old rows and requests are gone.  *)
Open(s) ==
  /\ open' = TRUE
  /\ subject' = s
  /\ shown' = Nothing
  /\ asked' = s

(* Another subject is chosen; the rows and the request under way stay, or  *)
(* the new subject is asked for at once when no request is under way.      *)
Choose(s) ==
  /\ open
  /\ subject' = s
  /\ asked' \in {asked} \cup (IF asked = Nothing THEN {s} ELSE {})
  /\ UNCHANGED <<open, shown>>

Ask ==
  /\ open /\ asked = Nothing
  /\ asked' = subject
  /\ UNCHANGED <<open, subject, shown>>

(* An answer, or an error; the next request may follow at once.            *)
Answer ==
  /\ open /\ asked # Nothing
  /\ shown' \in {shown} \cup (IF asked = subject THEN {subject} ELSE {})
  /\ asked' \in {Nothing, subject}
  /\ UNCHANGED <<open, subject>>

Close ==
  /\ open
  /\ open' = FALSE
  /\ subject' = Nothing /\ shown' = Nothing /\ asked' = Nothing

Next ==
  \/ \E s \in Subjects : Open(s) \/ Choose(s)
  \/ Ask
  \/ Answer
  \/ Close

Spec == Init /\ [][Next]_vars
=============================================================================
