------------------------------ MODULE Runners ------------------------------
(***************************************************************************)
(* The runners of Delivery and of OrderFulfilment, whose orders may come   *)
(* to have a delivery order.                                               *)
(***************************************************************************)
CONSTANTS
  Runner,  \* active runners with a payment account
  None     \* null: no runner

ASSUME NoneIsNoRunner == None \notin Runner
=============================================================================
