--------------------------- MODULE MCSystemUpdate ---------------------------
(* SystemUpdate with a dashboard, a shell and three deployments.            *)
EXTENDS SystemUpdate

CONSTANTS w1, c1

Deployment(mode, web, helper, sqlite) ==
  [mode |-> mode, webUpdates |-> web, helper |-> helper, sqlite |-> sqlite]

Deployments ==
  {Deployment("proxmox", TRUE, TRUE, TRUE), Deployment("native", FALSE, FALSE, FALSE),
   Deployment("docker", TRUE, FALSE, TRUE)}

OneWeb  == {w1}
OneCli  == {c1}
=============================================================================
