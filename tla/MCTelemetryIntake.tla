-------------------------- MODULE MCTelemetryIntake --------------------------
EXTENDS TelemetryIntake

\* A fault is reported, then the controller is started again.
TwoBoots == <<[boot |-> 1, sequence |-> 1, task |-> "ok"],
              [boot |-> 1, sequence |-> 2, task |-> "fail"],
              [boot |-> 2, sequence |-> 1, task |-> "ok"]>>
=============================================================================
