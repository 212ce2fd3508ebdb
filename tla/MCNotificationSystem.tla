------------------------- MODULE MCNotificationSystem -------------------------
(* NotificationSystem with values for its constants. *)
EXTENDS NotificationSystem

AllEmail == [n \in Notifs |-> "email"]
AllReachable == [n \in Notifs |-> [email |-> "full", phone |-> "full", token |-> "full"]]
=============================================================================
