-------------------------- MODULE MCScanPipeline --------------------------
(***************************************************************************)
(* Three services: terraform, a YAML parser with two platforms, and one    *)
(* that only the common queries apply to.  Init tries every set of loaded  *)
(* queries, the empty one (no progress bar) included.                      *)
(***************************************************************************)
EXTENDS ScanPipeline

MCServices == {"terraform", "yaml", "grpc"}
MCQueries == {"bucket", "pod", "secrets"}
MCQueryPlatform == [bucket |-> "terraform", pod |-> "k8s", secrets |-> "common"]
MCServicePlatforms ==
  [terraform |-> {"terraform"}, yaml |-> {"kubernetes", "cloudformation"}, grpc |-> {"grpc"}]
============================================================================
