-------------------------- MODULE DemoDatasetClaims -------------------------
(***************************************************************************)
(* What the tests say of the demonstration data and the code does not do.  *)
(***************************************************************************)
EXTENDS DemoDataset

\* Two users, then their roles, and two of the scenarios: one that stays pending, one that
\* goes on to the support artifacts.
TwoScenarios ==
  <<"user", "user", "role", "role", "account", "product",
    "order", "order", "payment", "delivery", "lifecycle">>

\* demo.service.spec.ts:272: a boot that finds part of the data repairs it "instead of
\* leaving a partial seed". No failure of its own is held against it.
RepairLeavesNothingPartial ==
  run = None /\ ended \notin {None, "interrupted", "skipped"} => progress = Len(Seeding)
=============================================================================
