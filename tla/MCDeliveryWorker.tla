-------------------------- MODULE MCDeliveryWorker --------------------------
(* Values of DeliveryWorker's constants for TLC. *)
EXTENDS DeliveryWorker

CONSTANTS n1, n2

Reachable == [email |-> "full", phone |-> "full", token |-> "full"]
NoEmail == [email |-> "empty", phone |-> "full", token |-> "full"]
NoDevice == [email |-> "full", phone |-> "empty", token |-> "empty"]
ShortToken == [email |-> "full", phone |-> "full", token |-> "short"]

EmailOnly == [n \in Notifs |-> "email"]

AllReachable == [n \in Notifs |-> Reachable]
AllShortToken == [n \in Notifs |-> ShortToken]
ReachableAndShort == [n \in Notifs |-> IF n = n1 THEN Reachable ELSE ShortToken]
PartlyReachable == [n \in Notifs |-> IF n = n1 THEN NoEmail ELSE NoDevice]
=============================================================================
