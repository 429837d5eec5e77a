----------------------------- MODULE VersionGate -----------------------------
(***************************************************************************)
(* controller/version_gate.py: the agent binary is used only if it can be  *)
(* found, tells its version, is not older than the required one and holds  *)
(* every required feature string.  A binary is a record: found, runs (its  *)
(* --version call returned), version (a triple, or <<>> when none could be *)
(* read) and features.                                                     *)
(***************************************************************************)
EXTENDS Naturals

RequiredVersion  == <<2, 1, 7>>
RequiredFeatures == {"glob", "grep", "non_streaming"}

\* Python's comparison of version tuples.
AtLeast(v, w) ==
  \/ v[1] > w[1]
  \/ v[1] = w[1] /\ v[2] > w[2]
  \/ v[1] = w[1] /\ v[2] = w[2] /\ v[3] >= w[3]

Missing(b) == RequiredFeatures \ b.features

\* The reason check_oco_binary gives; "satisfies" is the only one that passes.
GateReason(b) ==
  CASE ~b.found                               -> "not found"
    [] b.found /\ ~b.runs                     -> "failed to read version"
    [] b.found /\ b.runs /\ b.version = <<>>  -> "could not parse version"
    [] OTHER -> IF ~AtLeast(b.version, RequiredVersion) THEN "older than required"
                ELSE IF Missing(b) # {} THEN "missing features"
                ELSE "satisfies"

GatePasses(b) == GateReason(b) = "satisfies"
============================================================================
