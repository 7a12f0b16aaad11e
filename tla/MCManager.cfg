SPECIFICATION MCManagerSpec
CONSTANTS
  SecurityProfile = "controlled"
  ClusterNamespace = "ns"
  BadDSN = {"bad"}
  BadKubeconfig = {}
  GlobalPolicy = ""
  RelayURL = "relay"
  AllowedDestinations = {}
  InvalidURL = {}
  Watch = {"w1", "w2"}
  Source = {"s1", "s2"}
  Spec <- MCSpec
  SourceSpec <- MCSourceSpec
  DSN = {"db1", "db2", "no secret", "unlabelled"}
  Kubeconfig = {"k1", "unlabelled"}
  OwnNamespace = "ns"
  SecretNamespace = "ns"
  HaveAborter = TRUE
  WebhookID <- MCWebhookID
  Revision = {"r1", "r2"}
  FirstRevision = "r1"
  ObjectName = {"n1", "n2", "n3"}
  Slug <- MCSlug
  PeriodicName = "n3"
  TTLSweeps = 1
  Disturbances <- MCDisturbances
  MaxRuntimes = 5
  Kind = {"Deployment", "StatefulSet"}
INVARIANTS
  ManagerTypeOK
  LiveIsRegistered
  AbortIsTold
  NoOrphanRoute
  ReportsMatchRollouts
PROPERTIES
  ConfigIsApplied
  SourceIsServed
  FirstRolloutIsReported
CHECK_DEADLOCK FALSE
