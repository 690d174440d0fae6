---------------------------- MODULE MCMessageTray ---------------------------
(* Two apps: one keeps three notifications in the list, one notifies without keeping. The queue  *)
(* and an app's list hold two.                                                                  *)
EXTENDS MessageTray

CONSTANTS mail, chat, letter, alarm, invite, ping

MCSources == {mail, chat}
MCNotifications == {letter, alarm, invite, ping}
MCSourceOf == [x \in MCNotifications |-> IF x = ping THEN chat ELSE mail]
MCKept == {mail}
MCTransient == {}
MCResident == {letter}
MCUrgencies ==
    [x \in MCNotifications |->
        CASE x = alarm -> {NORMAL, CRITICAL}
          [] x \in {letter, invite} -> {NORMAL}
          [] x = ping -> {LOW, NORMAL}]
=============================================================================
