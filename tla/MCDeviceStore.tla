---------------------------- MODULE MCDeviceStore ----------------------------
(* Three devices, two of them from an older process: the document is empty,  *)
(* or of version 1 with a bare record and an edited one.                     *)
EXTENDS DeviceStore

CONSTANTS lan, vpn, mac, host, node

Bare == [macs |-> {mac}, names |-> {host}, dns |-> host, label |-> FALSE, persistent |-> FALSE, nodes |-> {}]
Edited == [macs |-> {}, names |-> {}, dns |-> None, label |-> TRUE, persistent |-> TRUE, nodes |-> {}]
MCOldDocs ==
    {[version |-> 2, assignments |-> [id \in Ids |-> None]],
     [version |-> 1, assignments |-> [id \in Ids |-> IF id = 1 THEN Bare ELSE IF id = 2 THEN Edited ELSE None]]}
==============================================================================
