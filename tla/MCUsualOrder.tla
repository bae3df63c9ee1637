---------------------------- MODULE MCUsualOrder ----------------------------
(* The load balancer of MCOvnLoadBalancer, with its history.               *)
EXTENDS MCOvnLoadBalancer, OvnLoadBalancerHistory
=============================================================================
