----------------------------- MODULE PaymentData -----------------------------
(***************************************************************************)
(* Payment attempts.  create_payment holds the order row from the check of *)
(* the deadline to the commit, so payment, expiry and cancellation of one  *)
(* order take turns.  A retry with a known key changes nothing, and with   *)
(* another request it is refused: both are stutters here.                  *)
(***************************************************************************)
EXTENDS CommerceOrderService, OrderData

Attempted(k, o, status) ==
    /\ payment[k] = NoPayment
    /\ payment' = [payment EXCEPT ![k] = [order |-> o, status |-> status]]

\* Mutant: the deadline is not checked.
PayableAnytime(o) == /\ storeOrder[o].status = "placed"
                     /\ storeOrder[o].paymentStatus = "UNPAID"

Payable(o) == /\ storeOrder[o].status = "placed"
              /\ storeOrder[o].paymentStatus = "UNPAID"
              /\ ~Overdue(o)

\* uq_payments_one_success: one SUCCEEDED or REFUNDED payment per order.
NoSuccessYet(o) ==
    \A k \in PaymentKeys : payment[k].order = o => payment[k].status = "DECLINED"

\* A successful attempt consumes the reserved products of a MIXED order; its
\* pets stay reserved until delivery.
PaySucceeded(k, actor, o) ==
    /\ MayModify(actor, o)
    /\ Payable(o)
    /\ NoSuccessYet(o)
    /\ ReservesCover(o)
    /\ Attempted(k, o, "SUCCEEDED")
    /\ product' = ConsumedStock(o)
    /\ Reallocated(o, ReservedProducts(o), "CONSUMED")
    /\ Transitioned(o, "placed", "PAID")
    /\ UNCHANGED <<pet, card, cartVars>>

\* A declined attempt is kept; the order stays payable.
PayDeclined(k, actor, o) ==
    /\ MayModify(actor, o)
    /\ Payable(o)
    /\ Attempted(k, o, "DECLINED")
    /\ UNCHANGED <<orderVars, stockVars, card, cartVars>>

\* A late attempt expires the order, commits that, and then fails with 410.
PayTooLate(k, actor, o) ==
    /\ payment[k] = NoPayment
    /\ MayModify(actor, o)
    /\ IF IsLegacy(o) THEN LegacyExpired(o) ELSE Expired(o)
    /\ UNCHANGED <<payment, card, cartVars>>

\* Mutant: successful attempts can be deleted as well.
DeleteAny(k) ==
    /\ payment[k].status # "none"
    /\ payment' = [payment EXCEPT ![k] = NoPayment]
    /\ UNCHANGED <<orderVars, stockVars, card, cartVars>>

\* delete_declined_payment (administrators only).
DeleteDeclined(k) ==
    /\ payment[k].status = "DECLINED"
    /\ payment' = [payment EXCEPT ![k] = NoPayment]
    /\ UNCHANGED <<orderVars, stockVars, card, cartVars>>

PaymentNext ==
    \/ \E k \in PaymentKeys, actor \in Users, o \in Orders :
          \/ PaySucceeded(k, actor, o)
          \/ PayDeclined(k, actor, o)
          \/ PayTooLate(k, actor, o)
    \/ \E k \in PaymentKeys : DeleteDeclined(k)

=============================================================================
