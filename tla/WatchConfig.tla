----------------------------- MODULE WatchConfig -----------------------------
(***************************************************************************)
(* What the manager makes of a PostgresWatch's spec: where its DSN comes   *)
(* from, whether a worker can be built from it, and where its alerts go.   *)
(* Pure: the controllers that call these are in WatchController.           *)
(*                                                                         *)
(* A spec is a record of the fields that decide something:                 *)
(*   dsn, secretRef, remote, remoteNamespace   (where the DSN comes from)  *)
(*   source, prometheus, capturePlans          (the sample source)         *)
(*   alerting, slackURL                        (the notifier)              *)
(*   autoAbort, periodic                       (what the worker runs)      *)
(* A Secret is a value, or one of NoSecret, Unlabelled (its owner has not  *)
(* consented) and Keyless (it lacks the selected key).                     *)
(***************************************************************************)
CONSTANTS
  SecurityProfile,     \* "controlled" | "hardened"
  ClusterNamespace,    \* PostgresRadarCluster.spec.namespace, "" if unset
  BadDSN,              \* DSNs collector.New refuses
  BadKubeconfig,       \* kubeconfigs buildRemoteClient refuses
  GlobalPolicy,        \* --alerting-destination-policy, "" if unset
  RelayURL,            \* --alerting-destination-policy-relay-url
  AllowedDestinations, \* --alerting-allowed-destinations
  InvalidURL           \* URLs validateWebhookURL refuses whatever the list says

\* ValidateDestinationPolicy
ValidDestinationPolicy(policy, relayURL) ==
  policy \in {"permissive", "allowlist", "relay-only", ""} /\ (policy = "relay-only" => relayURL # "")

\* RunManager starts with no other flags.
ASSUME WatchConfigAssumption ==
  /\ ValidDestinationPolicy(GlobalPolicy, RelayURL)
  /\ SecurityProfile \in {"controlled", "hardened"}

NoSecret == "no secret"
Unlabelled == "unlabelled"
Keyless == "keyless"

\* checkSecretConsent and the lookup of the key, on a Secret that was read.
Readable(secret) == secret \notin {NoSecret, Unlabelled, Keyless}
-----------------------------------------------------------------------------
(***************************************************************************)
(* The DSN.                                                                *)
(***************************************************************************)
UsesPrometheus(spec) == spec.source = "prometheus"

\* dsnSecretNamespace
DSNSecretNamespace(spec, own) ==
  IF spec.remote = "none" THEN own
  ELSE IF spec.remoteNamespace # "" THEN spec.remoteNamespace
  ELSE IF spec.remote = "cluster" /\ ClusterNamespace # "" THEN ClusterNamespace
  ELSE own

\* dsnSecretClient up to the cache: a remote client is to be had when the kind of
\* reference is allowed and the kubeconfig Secret can be used
\* (dsnSecretClientFromRegistry, dsnSecretClientFromSecret).
RemoteAllowed(spec) == spec.remote = "cluster" \/ SecurityProfile # "hardened"

\* buildRemoteClient and validateKubeconfigAuth
BuildsClient(kubeconfig) == kubeconfig \notin BadKubeconfig

RemoteClientBuilds(spec, kubeconfig) ==
  RemoteAllowed(spec) /\ Readable(kubeconfig) /\ BuildsClient(kubeconfig)

\* hashPostgresWatchSpec: what a worker depends on.  The DSN's value counts, how
\* it was found does not.
SpecHash(spec, dsn) ==
  [spec EXCEPT !.dsn = dsn, !.secretRef = FALSE, !.remote = "none"]
-----------------------------------------------------------------------------
(***************************************************************************)
(* The notifier.                                                           *)
(***************************************************************************)
Formats == {"slack", "teams", "pagerduty", "custom"}
PagerDutyURL == "pagerduty events"
Refused == "refused"

\* mergeAlertingDestinationPolicy
MergedPolicy(alerting) == IF GlobalPolicy # "" THEN GlobalPolicy ELSE alerting.policy

\* resolveDestinationURL
ResolvedURL(policy, url) ==
  CASE policy = "relay-only" -> IF RelayURL = "" THEN Refused ELSE RelayURL
    [] policy = "allowlist"  -> IF AllowedDestinations = {} THEN Refused ELSE url
    [] policy \in {"permissive", ""} -> url
    [] OTHER -> Refused

MatchesAllowedDestination(url) == url \in AllowedDestinations

ValidWebhookURL(url) ==
  /\ url \notin InvalidURL
  /\ AllowedDestinations # {} => MatchesAllowedDestination(url)

\* The alerting part of startWatch: spec.alerting supersedes the Slack URL.
AlertConfig(spec) ==
  IF spec.alerting.set
  THEN [spec.alerting EXCEPT !.policy = MergedPolicy(spec.alerting)]
  ELSE [set |-> FALSE, format |-> "", url |-> spec.slackURL, key |-> "",
        template |-> "", policy |-> GlobalPolicy]

\* BuildNotifier: the URL alerts go to, "" for a notifier that sends nothing,
\* or Refused.
NotifierURL(cfg) ==
  LET url == ResolvedURL(cfg.policy, cfg.url)
      format == IF cfg.format = "" THEN "slack" ELSE cfg.format
  IN  CASE url = Refused \/ format \notin Formats -> Refused
        [] format = "pagerduty" -> IF cfg.key = "" THEN Refused ELSE PagerDutyURL
        [] url = "" -> ""
        [] format = "custom" /\ cfg.template # "ok" -> Refused
        [] OTHER -> IF ValidWebhookURL(url) THEN url ELSE Refused
-----------------------------------------------------------------------------
\* startWatch up to its first goroutine: the combination of plan capture with a
\* source that has no database connection, the Prometheus settings, the
\* collector, the notifier.
StartRefused(spec, dsn) ==
  \/ spec.capturePlans /\ UsesPrometheus(spec)
  \/ UsesPrometheus(spec) /\ spec.prometheus # "ok"
  \/ ~UsesPrometheus(spec) /\ dsn \in BadDSN
  \/ NotifierURL(AlertConfig(spec)) = Refused
=============================================================================
