------------------------------ MODULE MCDigest ------------------------------
(***************************************************************************)
(* Instances of Digest for TLC: one process, two alerts by email, one by   *)
(* SMS, and one digest asked for by hand.                                  *)
(***************************************************************************)
EXTENDS Digest

CONSTANTS w1, alert, text, asked, mum, dad, phone, q1

MCWorkers == {w1}
MCItems == {alert, asked, text}
MCSmsItems == {text}
MCRecipients == {mum, dad, phone}
MCRequests == {q1}
MCRecipient ==
  [i \in Items |-> IF i = text THEN phone ELSE IF i = asked THEN dad ELSE mum]
MCBatch == [q \in Requests |-> {asked}]

AskedOnly == {asked}
OneMinute == {0}
OneHour == {0, 1}
Nothing == {}
=============================================================================
