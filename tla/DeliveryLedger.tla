--------------------------- MODULE DeliveryLedger ---------------------------
(***************************************************************************)
(* What the delivery workers promise, whatever the process goes through:   *)
(* a ledger per channel.  An entry is opened for a notification before it  *)
(* is sent, the provider accepts at most one send under it, and it is      *)
(* closed as sent or as failed, truthfully and for good.  An entry that    *)
(* was given up stays pending and is never taken up again.  A channel on   *)
(* which a notification has a sent entry opens no other one for it.        *)
(***************************************************************************)
EXTENDS Integers, Sequences

CONSTANTS Channels, Notifs

VARIABLES
    ledger, \* ledger[ch]: the entries of channel ch, oldest first
    open    \* open[ch]: the last entry of ch is being worked on

vars == <<ledger, open>>

Entries == [notif : Notifs, status : {"pending", "sent", "failed"},
            accepted : BOOLEAN]

Init ==
    /\ ledger = [ch \in Channels |-> <<>>]
    /\ open = [ch \in Channels |-> FALSE]

Last(ch) == ledger[ch][Len(ledger[ch])]

SetLast(ch, entry) ==
    ledger' = [ledger EXCEPT ![ch][Len(ledger[ch])] = entry]

\* b: the entry is worked on, or it is given up at once.
Open(ch, n, b) ==
    /\ ~open[ch]
    /\ \A i \in DOMAIN ledger[ch] :
           ledger[ch][i].notif = n => ledger[ch][i].status # "sent"
    /\ ledger' = [ledger EXCEPT ![ch] = Append(@,
                    [notif |-> n, status |-> "pending", accepted |-> FALSE])]
    /\ open' = [open EXCEPT ![ch] = b]

Accept(ch) ==
    /\ open[ch]
    /\ ~Last(ch).accepted
    /\ SetLast(ch, [Last(ch) EXCEPT !.accepted = TRUE])
    /\ UNCHANGED open

Close(ch) ==
    /\ open[ch]
    /\ SetLast(ch, [Last(ch) EXCEPT
                       !.status = IF Last(ch).accepted THEN "sent" ELSE "failed"])
    /\ open' = [open EXCEPT ![ch] = FALSE]

\* One channel, or all of them, leave their entry as it is.
GiveUp(chs) ==
    /\ open' = [ch \in Channels |-> open[ch] /\ ch \notin chs]
    /\ UNCHANGED ledger

Next ==
    \/ \E ch \in Channels : \/ \E n \in Notifs, b \in BOOLEAN : Open(ch, n, b)
                            \/ Accept(ch) \/ Close(ch) \/ GiveUp({ch})
    \/ GiveUp(Channels)

Spec == Init /\ [][Next]_vars
=============================================================================
