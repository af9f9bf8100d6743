------------------------ MODULE StockCheckoutClaims ------------------------
(***************************************************************************)
(* What a comment of the repository says of the checkout,                  *)
(* stated as a property of StockCheckout. The code does not keep it when   *)
(* checkouts overlap: it is refuted by a run that README.md explains.      *)
(***************************************************************************)
EXTENDS StockCheckout

\* orders/stock-reservation.service.ts:22: a checkout "verifies sufficient available
\* stock (accounting for active reservations)". The reservations that have not lapsed
\* never exceed the stock, as long as no stock is sold under a lapsed one.
NoOversell ==
  (\A q \in lapsed : reservation[q] = "ACTIVE")
    => \A p \in Product : Units[Reserved][p] <= stock[p]
=============================================================================
