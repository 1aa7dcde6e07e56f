---------------------------- MODULE MCShipments ----------------------------
(***************************************************************************)
(* Instances of Shipments and Seed for TLC. They write rows of different   *)
(* tenants, so one moves while the other is at rest (part). Options, keys, *)
(* requests and executions of the seed are interchangeable.                *)
(***************************************************************************)
EXTENDS Seed

VARIABLE part

MCInit ==
  /\ part \in {"shipments", "seed"}
  /\ Init /\ SeedInit
  /\ part = "shipments" => db["alpha-logistics"] = NoTenant /\ db["beta-transportes"] = NoTenant

MCNext ==
  /\ UNCHANGED part
  /\ \/ part = "shipments" /\ Next /\ UNCHANGED seedVars
     \/ part = "seed" /\ SeedNext /\ UNCHANGED vars

MCSpec == MCInit /\ [][MCNext]_<<vars, seedVars, part>>

Symmetry ==
  Permutations(Options) \cup Permutations(Keys) \cup Permutations(Reqs) \cup Permutations(Runs)
=============================================================================
