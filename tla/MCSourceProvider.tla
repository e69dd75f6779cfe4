------------------------- MODULE MCSourceProvider -------------------------
(***************************************************************************)
(* Two services over a directory with a Terraform cache, a chart with a    *)
(* chart inside it, an excluded folder and a dead link, over two files     *)
(* that are scan paths, and over a chart for which the resolver names no   *)
(* file.  The faults: none, a sink that fails twice, two dead links, files *)
(* that cannot be opened, a scan path that is gone.                        *)
(***************************************************************************)
EXTENDS SourceProvider, TLC

MCServices == {"terraform", "yaml"}
MCWalk ==
  << "repo", "repo/.terraform", ".terraform/mod.tf",
     "repo/app", "app/values.yaml", "app/db", "db/pod.yaml",
     "repo/link.tf", "repo/main.tf", "repo/vendor", "vendor/net.tf",
     "more.yaml", "site.tf", "lib", "lib/values.yaml" >>
MCRoots == {"repo", "more.yaml", "site.tf", "lib"}
MCInside ==
  ("repo" :> ToSet(SubSeq(MCWalk, 2, 11))) @@
  ("repo/.terraform" :> {".terraform/mod.tf"}) @@
  ("repo/app" :> ToSet(SubSeq(MCWalk, 5, 7))) @@
  ("app/db" :> {"db/pod.yaml"}) @@
  ("repo/vendor" :> {"vendor/net.tf"}) @@
  ("lib" :> {"lib/values.yaml"})
MCDirs == DOMAIN MCInside
MCCaches == {"repo/.terraform"}
MCNotInCwd == {}
MCCharts == {"repo/app", "app/db", "lib"}
MCRendered ==
  ("repo/app" :> <<"app/values.yaml", "db/pod.yaml">>) @@ ("app/db" :> <<"db/pod.yaml">>) @@
  ("lib" :> <<>>)
MCSupported ==
  [ terraform |-> {".terraform/mod.tf", "repo/link.tf", "repo/main.tf", "vendor/net.tf", "site.tf"},
    yaml |-> {"app/values.yaml", "db/pod.yaml", "more.yaml", "lib/values.yaml"} ]
MCExcludes == {"repo/vendor", "repo/link.tf"}

NoFault == [e \in ToSet(MCWalk) |-> None]
MCFaults ==
  { NoFault,
    [NoFault EXCEPT !["repo/main.tf"] = "sink", !["site.tf"] = "sink"],
    [NoFault EXCEPT !["app/values.yaml"] = "link", !["more.yaml"] = "link"],
    [NoFault EXCEPT !["db/pod.yaml"] = "open", !["repo/main.tf"] = "open"],
    [NoFault EXCEPT !["more.yaml"] = "stat"] }
============================================================================
