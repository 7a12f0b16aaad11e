------------------------------ MODULE MCManager ------------------------------
(***************************************************************************)
(* An instance of Manager for TLC.                                         *)
(***************************************************************************)
EXTENDS Manager

NoAlerting == [set |-> FALSE, format |-> "", url |-> "", key |-> "", template |-> "", policy |-> ""]

\* The DSN from a Secret of the watch's own cluster; auto-abort on.
Local == [dsn |-> "", secretRef |-> TRUE, remote |-> "none", remoteNamespace |-> "",
          source |-> "collector", prometheus |-> "unset", capturePlans |-> FALSE,
          alerting |-> NoAlerting, slackURL |-> "slack", autoAbort |-> TRUE, periodic |-> FALSE]

\* The DSN from a Secret of a remote cluster.
Remote == [Local EXCEPT !.remote = "cluster", !.autoAbort = FALSE]

\* Samples from Prometheus, with periodic detection and a PagerDuty notifier.
FromPrometheus ==
  [Local EXCEPT !.secretRef = FALSE, !.source = "prometheus", !.prometheus = "ok",
                !.periodic = TRUE,
                !.alerting = [NoAlerting EXCEPT !.set = TRUE, !.format = "pagerduty", !.key = "k"]]

\* The DSN in the spec and alerts through the relay; no DSN at all.
Direct ==
  [Local EXCEPT !.dsn = "db3", !.secretRef = FALSE,
                !.alerting = [NoAlerting EXCEPT !.set = TRUE, !.format = "custom",
                                                !.template = "ok", !.policy = "relay-only"]]
NoDSN == [Local EXCEPT !.secretRef = FALSE]

\* Combinations startWatch refuses.
NoPlans == [FromPrometheus EXCEPT !.capturePlans = TRUE, !.periodic = FALSE]

BadAlerting == [Direct EXCEPT !.alerting.template = "broken"]

MCSpec == {Local, Remote, Direct, NoDSN, FromPrometheus, NoPlans, BadAlerting}

Hook(ref) == [type |-> "argo-rollouts", ref |-> ref, kind |-> ""]
Native(ref, kind) == [type |-> "kubernetes", ref |-> ref, kind |-> kind]

MCSourceSpec == {Hook("w1"), Native("w1", "Deployment"), Native("w2", "Deployment"),
                  Native("w1", "StatefulSet")}

MCWebhookID == {<<"e", "1">>}
MCSlug == [id \in MCWebhookID \cup (Source \X Revision) |-> IF id \in MCWebhookID THEN "n1" ELSE "n2"]

\* What each group of initial states is about, and what may happen in it.
Config == [kinds |-> {"watch", "dsn", "kubeconfig", "client", "crash", "api"}, most |-> 2,
           specs |-> {Absent, Local, Remote, Direct, NoDSN, NoPlans, BadAlerting}]
Routing == [kinds |-> {"watch", "source", "resync", "api"}, most |-> 3,
            specs |-> {Absent, Local, Hook("w1"), Native("w1", "Deployment")}]
Aborting == [kinds |-> {"webhook", "regression", "abort", "watch", "source", "crash", "api"},
             most |-> 3, specs |-> {Absent}]
Rollouts == [kinds |-> {"Deployment", "watch"}, most |-> 2, specs |-> {Local}]
Rollback == [kinds |-> {"StatefulSet", "delete"}, most |-> 3, specs |-> {}]
Replacing == [kinds |-> {"StatefulSet", "dsn", "watch"}, most |-> 2, specs |-> {Absent}]
Recreation == [kinds |-> {"Deployment", "delete"}, most |-> 3, specs |-> {}]
MCRecreation == {Recreation}
MCDisturbances == {Config, Routing, Aborting, Rollouts, Rollback, Replacing}

MCInit ==
  /\ Init
  /\ dsnSecret = "db1" /\ kubeSecret = "k1"
  /\ LET is(w1, w2, s1, s2) == /\ watchSpec["w1"] = w1 /\ watchSpec["w2"] = w2
                               /\ sourceSpec["s1"] = s1 /\ sourceSpec["s2"] = s2
     IN  CASE allowed = Config -> is(Local, Absent, Absent, Absent) \/ is(Remote, Absent, Absent, Absent)
           [] allowed = Routing -> is(Absent, Absent, Hook("w1"), Absent)
           [] allowed = Aborting -> is(Local, Absent, Hook("w1"), Absent) \/ is(FromPrometheus, Absent, Hook("w1"), Absent)
           [] allowed = Rollouts -> is(Local, Absent, Native("w1", "Deployment"), Native("w2", "Deployment"))
           [] allowed = Recreation -> is(Local, Absent, Native("w1", "Deployment"), Absent)
           [] allowed \in {Rollback, Replacing} -> is(Local, Absent, Native("w1", "StatefulSet"), Absent)

MCManagerSpec == MCInit /\ [][Next]_vars /\ Fairness
=============================================================================
