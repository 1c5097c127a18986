-------------------------- MODULE MCWebhookEvents --------------------------
(* order creates the subscription, renew1 and renew2 are two renewals,     *)
(* failed is a payment that failed, cancel ends the subscription and       *)
(* refund takes the money back.                                            *)
EXTENDS WebhookEvents, TLC

CONSTANTS order, renew1, renew2, failed, cancel, refund, creem, pro, basic

MCTypeOf ==
    [e \in Events |->
        CASE e = order -> "created"
          [] e = refund -> "refunded"
          [] e = failed -> "payment_failed"
          [] e = cancel -> "cancelled"
          [] OTHER -> "renewed"]

\* Every event carries an order id.
OwnIds == [e \in Events |-> e]

\* Renewals carry none and share subscription_id:event_type.
SharedIds == [e \in Events |-> IF e = renew2 THEN renew1 ELSE e]

\* The default mapping came first.
MCMappings == << [product |-> AnyProduct, plan |-> basic], [product |-> Product, plan |-> pro] >>
MCAdapters == <<creem>>

RequestSymmetry == Permutations(Requests)
=============================================================================
