-------------------------- MODULE MCScorecardService --------------------------
(* Small instances of ScorecardService.  Contact "a" fails whenever it is  *)
(* scored, "b" passes at first and fails later (an obligation falls due),  *)
(* and "o" is a catalogue entry whose tenant was left empty.               *)
EXTENDS ScorecardService

CONSTANTS t1, t2

MCContacts == {"a", "b", "o"}
MCTenants == {t1, t2}
MCOwnerOf == [x \in MCContacts |-> CASE x = "a" -> t1 [] x = "b" -> t2 [] OTHER -> NoTenant]
MCFailing == {k \in Cards : k[1] = "a" \/ (k[1] = "b" /\ k[2] > 1)}

(* The managed profile: every record is a service of its own.              *)
ManagedDurable == {"console", "audit", "store", "warehouse"}

(* The first process routes, the next one is started with the switch off.  *)
MCRoutingOn == [process \in 0..MaxRestarts |-> process = 0]

EveryPort == Ports
===============================================================================
