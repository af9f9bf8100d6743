---------------------------- MODULE StateMachine ----------------------------
(***************************************************************************)
(* The transition tables of backend/src/orders/utils/state-machine.ts and  *)
(* the status enumerations of the Prisma schema they range over.           *)
(***************************************************************************)

\* enum DeliveryStatus: the status of a root Order.
DeliveryStatus == {"PENDING", "CONFIRMED", "READY_FOR_ASSIGNMENT", "ASSIGNED",
                   "IN_TRANSIT", "DELIVERED", "CANCELLED"}

\* enum ProviderOrderStatus.
ProviderOrderStatus == {"PENDING", "PAYMENT_PENDING", "PAYMENT_READY", "PAID",
                        "ACCEPTED", "REJECTED", "PREPARING",
                        "READY_FOR_PICKUP", "PICKED_UP", "DELIVERED",
                        "REJECTED_BY_STORE", "CANCELLED", "EXPIRED"}

\* enum Role, the part of it the tables name.
Role == {"CLIENT", "PROVIDER", "RUNNER", "ADMIN"}

OrderTransitions ==
  {<<"PENDING", "CONFIRMED">>, <<"CONFIRMED", "READY_FOR_ASSIGNMENT">>,
   <<"READY_FOR_ASSIGNMENT", "ASSIGNED">>, <<"ASSIGNED", "IN_TRANSIT">>,
   <<"IN_TRANSIT", "DELIVERED">>}
  \cup {<<from, "CANCELLED">> : from \in DeliveryStatus \ {"DELIVERED", "CANCELLED"}}

canTransitionOrder(current, next) == <<current, next>> \in OrderTransitions

ProviderOrderTransitions ==
  {<<"PENDING", "ACCEPTED", "PROVIDER">>,
   <<"PENDING", "REJECTED_BY_STORE", "PROVIDER">>,
   <<"PENDING", "CANCELLED", "CLIENT">>,
   <<"ACCEPTED", "PREPARING", "PROVIDER">>,
   <<"PREPARING", "READY_FOR_PICKUP", "PROVIDER">>,
   <<"READY_FOR_PICKUP", "PICKED_UP", "RUNNER">>}
  \cup {<<from, "CANCELLED", "ADMIN">> :
          from \in {"PENDING", "ACCEPTED", "PREPARING", "READY_FOR_PICKUP"}}

canTransitionProviderOrder(current, next, role) ==
  <<current, next, role>> \in ProviderOrderTransitions
=============================================================================
