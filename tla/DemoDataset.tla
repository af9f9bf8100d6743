---------------------------- MODULE DemoDataset ----------------------------
(***************************************************************************)
(* The data of the demonstration environment. A boot, or an administrator, *)
(* has it seeded step by step, each step committed on its own, after       *)
(* removing what an earlier run left in one transaction. What is there is  *)
(* always a first part of the steps, as a run starts from nothing.         *)
(***************************************************************************)
EXTENDS Naturals, Sequences, FiniteSets

CONSTANTS
  Seeding,    \* the steps of seedDemoData() after the demo administrator, in their order
  None

Kind == {"user", "role", "account", "product", "order", "payment", "delivery", "lifecycle"}

\* What getDemoDatasetStatus() counts.
Counted == {"user", "product", "order", "delivery"}

StepsAreSeeded == Seeding \in Seq(Kind) /\ \E i \in 1..Len(Seeding) : Seeding[i] \in Counted

VARIABLES
  admin,      \* whether admin.demo@local.test exists
  progress,   \* how many of the steps are in the database
  stale,      \* whether a demo user's password is no longer the shared one
  run,        \* the boot or the request that is seeding
  ended       \* how the last one ended

demoVars == <<admin, progress, stale, run, ended>>

\* The actor is the demo administrator, another one, or one whose row is gone.
Running ==
  [at : {"admin", "judge", "clean", "seed"}, by : {"boot", "seed", "reset"},
   found : {"nothing", "part", "whole"}, actor : {"demo", "other", "gone"}]

Init ==
  /\ admin = FALSE /\ progress = 0 /\ stale = FALSE /\ run = None /\ ended = None

Steps(kind) == {i \in 1..Len(Seeding) : Seeding[i] = kind}
Done(kind) == Cardinality({i \in Steps(kind) : i <= progress})

\* isDemoDatasetComplete()
LooksWhole == admin /\ \A kind \in Counted : Done(kind) >= Cardinality(Steps(kind))

Found ==
  IF LooksWhole THEN "whole"
  ELSE IF ~admin /\ \A kind \in Counted : Done(kind) = 0 THEN "nothing"
  ELSE "part"

At(place) == IF run = None THEN FALSE ELSE run.at = place
End(how) == run' = None /\ ended' = how

-----------------------------------------------------------------------------
(***************************************************************************)
(* onApplicationBootstrap(): the status is read before the administrator   *)
(* is looked up or registered.                                             *)
(***************************************************************************)
Boot ==
  /\ run = None /\ ended' = None
  /\ run' = [at |-> "admin", by |-> "boot", found |-> Found, actor |-> "gone"]
  /\ UNCHANGED <<admin, progress, stale>>

EnsureDemoAdmin ==
  /\ At("admin") /\ admin' = TRUE
  /\ run' = [run EXCEPT !.at = "judge", !.actor = "demo"]
  /\ UNCHANGED <<progress, stale, ended>>

\* Complete, and every demo user still has the shared password.
LeaveAlone ==
  /\ At("judge") /\ run.found = "whole" /\ ~stale
  /\ End("skipped") /\ UNCHANGED <<admin, progress, stale>>

DecideSeeding ==
  /\ At("judge") /\ (run.found = "whole" => stale)
  /\ run' = [run EXCEPT !.at = IF run.found = "nothing" THEN "seed" ELSE "clean"]
  /\ UNCHANGED <<admin, progress, stale, ended>>

\* POST /demo/seed and /demo/reset; the demo administrator has its role by the first step
\* of applyRoleShape().
RequestSeeding(by, actor) ==
  /\ run = None /\ ended' = None
  /\ actor = "demo" => admin /\ Done("role") > 0
  /\ run' = [at |-> IF by = "seed" /\ Found = "nothing" THEN "seed" ELSE "clean",
             by |-> by, found |-> Found, actor |-> actor]
  /\ UNCHANGED <<admin, progress, stale>>

-----------------------------------------------------------------------------
\* Everything of the demo users goes, and they themselves, the actor too if it is one.
CleanupDemoData ==
  /\ At("clean") /\ admin' = FALSE /\ progress' = 0 /\ stale' = FALSE
  /\ run' = [run EXCEPT !.at = "seed", !.actor = IF @ = "demo" THEN "gone" ELSE @]
  /\ UNCHANGED ended

RegisterDemoAdmin ==
  /\ At("seed") /\ ~admin /\ admin' = TRUE /\ UNCHANGED <<progress, stale, run, ended>>

Granting == progress < Len(Seeding) /\ Seeding[progress + 1] = "role"

\* Granting a role records its actor, which must be a user.
SeedStep ==
  /\ At("seed") /\ admin /\ progress < Len(Seeding)
  /\ Granting => run.actor # "gone"
  /\ progress' = progress + 1
  /\ UNCHANGED <<admin, stale, run, ended>>

ActorIsGone ==
  /\ At("seed") /\ admin /\ Granting /\ run.actor = "gone"
  /\ End("refused") /\ UNCHANGED <<admin, progress, stale>>

Seeded ==
  /\ At("seed") /\ admin /\ progress = Len(Seeding)
  /\ End("seeded") /\ UNCHANGED <<admin, progress, stale>>

\* A statement or a service fails, rows that the clean-up does not list still refer to the
\* demo users, or the process dies.
Interrupt ==
  /\ run # None /\ End("interrupted") /\ UNCHANGED <<admin, progress, stale>>

ChangePassword ==
  /\ Done("user") > 0 /\ ~stale /\ stale' = TRUE /\ UNCHANGED <<admin, progress, run, ended>>

Next ==
  \/ Boot \/ EnsureDemoAdmin \/ LeaveAlone \/ DecideSeeding
  \/ \E by \in {"seed", "reset"}, actor \in {"demo", "other"} : RequestSeeding(by, actor)
  \/ CleanupDemoData \/ RegisterDemoAdmin \/ SeedStep \/ ActorIsGone \/ Seeded
  \/ Interrupt \/ ChangePassword

Spec == Init /\ [][Next]_demoVars
-----------------------------------------------------------------------------
TypeOK ==
  /\ admin \in BOOLEAN /\ progress \in 0..Len(Seeding) /\ stale \in BOOLEAN
  /\ run \in Running \cup {None}
  /\ ended \in {"skipped", "seeded", "refused", "interrupted", None}
=============================================================================
