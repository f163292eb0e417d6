------------------------------- MODULE MCAccounts -------------------------------
(***************************************************************************)
(* An instance of Accounts for TLC: a parent with the app, a student whose *)
(* login uses a browser with two pages, one device.  Session and device    *)
(* requests share no state but the deletions: no behaviour has both kinds. *)
(***************************************************************************)
EXTENDS Accounts

CONSTANTS parent, login, app, browser, student, dev

MCUsers == {parent, login}
MCClients == {app, browser}
MCUserOf == [c \in Clients |-> IF c = app THEN parent ELSE login]
MCTabs == [c \in Clients |-> IF c = browser THEN 2 ELSE 1]
MCBrowsers == {browser}
MCStudents == {student}
MCParentOf == [s \in Students |-> parent]
MCLoginOf == [s \in Students |-> login]
MCDevices == {dev}
MCDeviceOwner == [d \in Devices |-> parent]
=============================================================================
