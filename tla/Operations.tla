----------------------------- MODULE Operations -----------------------------
(***************************************************************************)
(* The daemon's operations (bosn-service dispatch.rs, client.rs).          *)
(*                                                                         *)
(* An operation is the sequence of places its handler goes to: the         *)
(* registry, for a read or a write, the job actor, the CI runtime, the     *)
(* container engine; and the code of a good reply.                         *)
(***************************************************************************)
EXTENDS TLC

Op(steps, code) == [steps |-> steps, code |-> code]

ControlOps ==
    "identity" :> Op(<<>>, 10) @@ "status" :> Op(<<"read">>, 20) @@
    "shutdown" :> Op(<<"stop">>, 30) @@
    "stop_if_idle" :> Op(<<"jobs", "ci", "read", "stop">>, 30)
JobOps ==
    "submit" :> Op(<<"submit">>, 40) @@ "job_status" :> Op(<<"jobs">>, 50) @@
    "cancel" :> Op(<<"jobs">>, 60) @@ "job_logs" :> Op(<<"jobs">>, 70)
SetupJobOps == "submit_setup" :> Op(<<"submit">>, 40)
ManifestJobOps == "submit_manifest" :> Op(<<"submit">>, 40)
DiagnosticOps ==
    "resources" :> Op(<<"read">>, 80) @@ "ensure_events" :> Op(<<"read">>, 90) @@
    "doctor" :> Op(<<"read", "docker">>, 100)
AdoptOp == "adopt" :> Op(<<"docker", "write">>, 140)
SetupGcOps ==
    "gc_preview" :> Op(<<"read">>, 110) @@ "gc_apply" :> Op(<<"read", "docker", "write">>, 120) @@
    "done" :> Op(<<"write">>, 130) @@ "stop_retired" :> Op(<<"read", "docker", "write">>, 150)
ReconcileOps ==
    "reconcile" :> Op(<<"read", "docker">>, 160) @@
    "repair" :> Op(<<"read", "docker", "write">>, 170)
VolumeOps ==
    "volume_preview" :> Op(<<"read">>, 180) @@
    "volume_apply" :> Op(<<"read", "docker", "write">>, 190)
EngineOps == "retention" :> Op(<<"docker">>, 230) @@ "unmanaged" :> Op(<<"docker">>, 200)
CiOp == "ci" :> Op(<<"ci">>, 360)

Ops == ControlOps @@ JobOps @@ SetupJobOps @@ ManifestJobOps @@ DiagnosticOps @@ AdoptOp @@
       SetupGcOps @@ ReconcileOps @@ VolumeOps @@ EngineOps @@ CiOp

\* Codes that carry no result.
Unsupported == 1
Failed == 3
OutsideWindow == 5
Busy == 32
CiFailed == 361

\* decode_reply: the kinds of reply a client knows; any other code is an error.
Decoded ==
    {10, 20, 30, Busy, 40, 50, 60, 70, 80, 90, 100, 110, 120, 130, 140, 150, 160, 170, 180, 190,
     200, 220, 230, 360, CiFailed}

\* What each method of the client takes for its answer.
ExpectedOfJobs == "submit" :> {40} @@ "job_status" :> {50} @@ "cancel" :> {60} @@ "job_logs" :> {70}
ExpectedOfSetupJobs == "submit_setup" :> {40}
ExpectedOfManifestJobs == "submit_manifest" :> {40}
ExpectedOfReconcile == "reconcile" :> {160} @@ "repair" :> {170} @@ "gc_apply" :> {120}
ExpectedOfSetup == "stop_retired" :> {150} @@ "done" :> {130} @@ "adopt" :> {140} @@
    "volume_apply" :> {190}
ExpectedOfVolumes == "volume_preview" :> {180} @@ "retention" :> {230} @@ "unmanaged" :> {200}
Expected ==
    "identity" :> {10} @@ "status" :> {20} @@ "shutdown" :> {30} @@
    "stop_if_idle" :> {30, Busy} @@ "resources" :> {80} @@ "ensure_events" :> {90} @@
    "refused" :> {} @@ "doctor" :> {100} @@ "gc_preview" :> {110} @@ "ci" :> {360, CiFailed} @@
    ExpectedOfJobs @@ ExpectedOfSetupJobs @@ ExpectedOfManifestJobs @@ ExpectedOfReconcile @@
    ExpectedOfSetup @@ ExpectedOfVolumes
=============================================================================
