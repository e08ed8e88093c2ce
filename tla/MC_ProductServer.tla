-------------------------- MODULE MC_ProductServer --------------------------
(* Two events for ProductServer: of both providers, two webhooks about the  *)
(* same Shopify order with the same and with other contents, two events     *)
(* about the same Stripe session, and payloads that make no order.          *)
EXTENDS ProductServer

CONSTANTS e1, e2, obj1, obj2, show

Input(quantity) == [EventID |-> show, Quantity |-> quantity]

Payload(provider, kind, object, quantity) ==
    [provider |-> provider, kind |-> kind, object |-> object, input |-> Input(quantity)]

Inbox(first, second) == [e \in Events |-> IF e = e1 THEN first ELSE second]

(* A retry may overlap a delivery of the first event that was given up. *)
SomeSlots == [e \in Events |-> IF e = e1 THEN {1, 2} ELSE {1}]

SomeInboxes ==
    LET stripe == Payload("stripe", "order", obj1, 1)
        shopify == Payload("shopify", "order", obj1, 1)
    IN  {Inbox(stripe, shopify),
         Inbox(shopify, shopify),
         Inbox(shopify, Payload("shopify", "order", obj1, 2)),
         Inbox(stripe, stripe),
         Inbox(Payload("stripe", "ignored", obj1, 1), Payload("shopify", "invalid", obj2, 1))}

SomeInputs == {Input(1)}
=============================================================================
