---------------------------- MODULE MCDnsServer -----------------------------
(* Three reloads, two of them at once, and at most two servers.             *)
EXTENDS DnsServer, TLC
=============================================================================
