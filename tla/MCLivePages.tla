---- MODULE MCLivePages ----
EXTENDS LivePages

MCDialogs == 1..2
====
