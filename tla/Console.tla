------------------------------- MODULE Console -------------------------------
(***************************************************************************)
(* What the operator's console shows (src/gui/viewModel.ts and the         *)
(* severities of src/gui/presentation.ts), as functions of the record that *)
(* buildGuiView() collects:                                                *)
(*   participation      the state that refresh() returned                  *)
(*   worker             [status, gpu] of the spatial worker                *)
(*   backend, kubo      whether each answered                              *)
(*   desired, pinned, failed   of one snapshot of the state file           *)
(*   publicBytes, privateBytes, repoBytes, maxBytes   storage              *)
(*   enabled, paused    the compute settings                               *)
(*   jobs               the states of the provider's jobs, a sequence      *)
(*   pending, settled   KUB8                                               *)
(* Wording, actions and formats are left out.                              *)
(***************************************************************************)
EXTENDS Integers, FiniteSets, Sequences

SEVERITY_ORDER == [neutral |-> 0, good |-> 1, attention |-> 2, critical |-> 3]

worstSeverity(S) ==
  IF S = {} THEN "neutral"
  ELSE CHOOSE s \in S : \A t \in S : SEVERITY_ORDER[s] >= SEVERITY_ORDER[t]

describeParticipation(state) ==
  CASE state = "CONTRIBUTING" -> "good"
    [] state \in {"DEGRADED", "LOCKED"} -> "attention"
    [] OTHER -> "neutral"

\* Ready without a GPU is malformed, and shown as degraded.
describeWorker(worker) ==
  CASE worker.status = "ready" /\ worker.gpu -> "good"
    [] worker.status \in {"unconfigured", "unsupported"} -> "neutral"
    [] OTHER -> "attention"

\* CapabilityRegistry.detectWorker(): what the answer of the worker's /health,
\* "none" when it did not come, is taken for.
detectWorker(answer) ==
  IF answer.status = "none" THEN [status |-> "unavailable", gpu |-> FALSE]
  ELSE [status |-> IF answer.status \in {"ready", "unsupported"} THEN answer.status ELSE "degraded",
        gpu |-> answer.gpu]

\* buildCapabilities(): which capabilities a heartbeat reports as healthy.
buildCapabilities(worker, kuboHealthy) ==
  LET ready == worker.status = "ready" IN
  (IF kuboHealthy THEN {"archive", "localContentGateway"} ELSE {})
  \cup (IF ready THEN {"spatial.reconstruction", "spatial.optimization", "spatial.gaussianSplat"}
        ELSE {})
  \cup (IF ready /\ worker.gpu THEN {"compute.gpu", "compute.remoteJobs"} ELSE {})

\* Coverage is a ratio, or nothing when nothing is tracked.
buildArchive(i) ==
  [records |-> Cardinality(i.pinned), tracked |-> Cardinality(i.desired),
   coverage |-> IF i.desired = {} THEN <<>> ELSE <<Cardinality(i.pinned), Cardinality(i.desired)>>,
   needsAttention |-> Cardinality(i.failed)]

AtLeastZero(n) == IF n < 0 THEN 0 ELSE n

\* Zero-sized segments are dropped; without a maximum nothing is available.
buildStorage(i) ==
  LET other == AtLeastZero(i.repoBytes - i.publicBytes)
      used == i.publicBytes + other + i.privateBytes
      available == IF i.maxBytes > 0 THEN AtLeastZero(i.maxBytes - used) ELSE 0
      bytes == [public |-> i.publicBytes, private |-> i.privateBytes, other |-> other,
                available |-> available]
  IN [segments |-> [k \in {k \in DOMAIN bytes : bytes[k] > 0} |-> bytes[k]],
      total |-> IF i.maxBytes > 0 THEN i.maxBytes ELSE used]

buildCompute(i) ==
  LET in(states) == Len(SelectSeq(i.jobs, LAMBDA s : s \in states)) IN
  [sharing |-> i.enabled /\ ~i.paused,
   severity |-> IF ~i.enabled THEN "neutral" ELSE IF i.paused THEN "attention" ELSE "good",
   completed |-> in({"COMPLETED"}), queued |-> in({"MATCHED"}),
   active |-> in({"RUNNING", "INPUT_READY", "ACCEPTED"})]

buildContribution(i) == [hasAny |-> i.pending > 0, settlementActive |-> i.settled > 0]

severityRank(severity) == SEVERITY_ORDER[severity]

\* What the operator can act on, of one rank.
alertsOfRank(i, rank) ==
  LET alert(id, severity, shown) ==
        IF shown /\ severityRank(severity) = rank THEN <<[id |-> id, severity |-> severity]>>
        ELSE <<>>
  IN alert("backend", "attention", ~i.backend)
     \o alert("kubo", "critical", ~i.kubo)
     \o alert("participation", describeParticipation(i.participation), TRUE)
     \o alert("spatial", describeWorker(i.worker), TRUE)
     \o alert("pins", "attention", buildArchive(i).needsAttention > 0)

\* The worst first: Array.sort keeps the order of equals, and of the states of
\* the gate and the worker only those that need attention are shown.
buildAlerts(i) == alertsOfRank(i, 3) \o alertsOfRank(i, 2)

\* The severity of each section of the overview.
buildOverview(i) ==
  LET archive == buildArchive(i) IN
  [archive |-> IF archive.needsAttention > 0 THEN "attention"
               ELSE IF archive.records > 0 THEN "good" ELSE "neutral",
   spatial |-> describeWorker(i.worker),
   compute |-> buildCompute(i).severity,
   contribution |-> "neutral"]

buildViewModel(i) ==
  [participation |-> describeParticipation(i.participation), alerts |-> buildAlerts(i),
   overview |-> buildOverview(i), archive |-> buildArchive(i), storage |-> buildStorage(i),
   compute |-> buildCompute(i), contribution |-> buildContribution(i)]

\* The dot in the header.
overallSeverity(model) ==
  IF model.alerts = <<>> THEN model.participation
  ELSE worstSeverity({model.alerts[n].severity : n \in DOMAIN model.alerts})
==============================================================================
