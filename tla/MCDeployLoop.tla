---------------------------- MODULE MCDeployLoop ----------------------------
(***************************************************************************)
(* Instances of DeployLoop for TLC.                                        *)
(***************************************************************************)
EXTENDS DeployLoop

\* An ArgoCD notification stamped by the receiver, a named generic event from
\* the past, and a request for another application.
MCDeploy == {
  [source |-> "argocd",  key |-> "api-r1", named |-> FALSE, time |-> 0, accepted |-> TRUE],
  [source |-> "generic", key |-> "api-r2", named |-> TRUE,  time |-> 1, accepted |-> TRUE],
  [source |-> "argo-rollouts", key |-> "web-r1", named |-> FALSE, time |-> 0, accepted |-> FALSE]}

\* A Flux alert, which the sender may deliver again.
MCFlux == {
  [source |-> "flux", key |-> "api-r3", named |-> FALSE, time |-> 1, accepted |-> TRUE]}
=============================================================================
