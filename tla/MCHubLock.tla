----------------------------- MODULE MCHubLock -----------------------------
(* Small instances of HubLock for TLC: phone runs in two processes, as its  *)
(* two schedules start it, and laptop in one.                               *)
EXTENDS HubLock, TLC

CONSTANTS phone1, phone2, laptop, phone, desk

MCMachine == [p \in Process |-> IF p = laptop THEN desk ELSE phone]
MCClient  == MCMachine
=============================================================================
