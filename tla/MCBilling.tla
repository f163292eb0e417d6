------------------------------- MODULE MCBilling -------------------------------
(***************************************************************************)
(* An instance of Billing for TLC: a subscription is started (its charge   *)
(* without a payment id), changed, fails a payment and is lost to a        *)
(* dispute; another one is bought with a payment that two events report.   *)
(***************************************************************************)
EXTENDS Billing

CONSTANTS start, change, fail, lose, buy, renew, r1, r2, c1, c2

MCEvents == {start, change, fail, lose, buy, renew}
MCDeliveries == [e \in Events |-> IF e = start THEN 2 ELSE 1]
MCRefs == {r1, r2}
MCCharges == {c1, c2}
MCReferenced == {c2}
MCKind == [e \in Events |->
  CASE e = lose -> "disputed" [] e = fail -> "failed"
    [] e = change -> "changed" [] OTHER -> "paid"]
MCStatus == [e \in Events |-> "active"]
MCRef == [e \in Events |-> IF e = fail THEN NoRef ELSE IF e \in {buy, renew} THEN r2 ELSE r1]
MCChargeOf == [e \in Events |->
  IF e \in {buy, renew} THEN c2 ELSE IF e = start THEN c1 ELSE NoCharge]
=============================================================================
