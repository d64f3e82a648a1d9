--------------------------- MODULE MCWebhookIntake ---------------------------
(* Deliveries that carry the same event under two delivery ids, a delivery *)
(* id without an event id, blanks, or a payload without either, and, for   *)
(* each check on the way in, one that only this check refuses.             *)
EXTENDS WebhookIntake

CONSTANTS e1, d1, d2, b1, b2

Signed(endpoint, body) ==
  IF Endpoints[endpoint].verifier = None THEN None
  ELSE <<Hmac(Endpoints[endpoint].verifier.secret, body)>>

Delivery(endpoint, id, delivery, body) ==
  [ endpoint |-> endpoint, signature |-> Signed(endpoint, body), content_type |-> "application/json",
    payload |-> "object", type |-> Text("order.created"), id |-> id, delivery |-> delivery, body |-> body ]

Plain == Delivery("example", Text(e1), Text(d1), b1)

MCMessages ==
  { Plain,
    Delivery("example", Number(e1), Text(d2), b2),
    Delivery("example", Text(None), Text(d1), b1),
    Delivery("example", None, Text(None), b1),
    Delivery("signed", Text(e1), Text(d1), b1),
    Delivery("unsigned", None, Text(d1), b1),
    Delivery("unwired", Text(e1), Text(d1), b1),
    Delivery("documented", Text(e1), Text(d1), b1),
    [Plain EXCEPT !.signature = <<"sha256=">> \o Signed("example", b1), !.content_type = None,
                  !.type = Text("customer.updated")],
    [Plain EXCEPT !.signature = Signed("example", b2)],
    [Plain EXCEPT !.signature = None],
    [Plain EXCEPT !.content_type = "text/plain"],
    [Plain EXCEPT !.payload = "array"],
    [Plain EXCEPT !.type = Text("order.refunded")],
    [Plain EXCEPT !.type = Text(None)],
    [Plain EXCEPT !.type = Number("order.created")] }
=============================================================================
