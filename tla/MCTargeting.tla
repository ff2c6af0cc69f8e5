---------------------------- MODULE MCTargeting ----------------------------
(* The pods of two Deployments, one of them named so long that its pods'    *)
(* names are cut to what looks like the other's, a pod without owner whose  *)
(* name looks like one of a Deployment, and a short name.                   *)
EXTENDS Targeting

MCRSOf == [p \in Pods |-> CASE p = "web-5f-x1" -> "web-5f"
                            [] p = "web-2-y2"  -> "web-2-3d"
                            [] OTHER -> None]
MCDeploymentOf == [r \in ReplicaSets |-> CASE r = "web-5f"   -> "web"
                                           [] r = "web-2-3d" -> "web-2"]
MCNamedRS == [p \in Pods |-> IF p = "web-5f-x1" THEN "web-5f" ELSE None]
MCNamedDeployment == [p \in Pods |-> CASE p = "web-5f-x1" -> "web"
                                       [] p = "web-2-y2"  -> "web"
                                       [] p = "db-main-0" -> "db"
                                       [] OTHER -> None]

============================================================================
