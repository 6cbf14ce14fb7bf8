---- MODULE MCEventSpool ----
EXTENDS EventSpool
====
