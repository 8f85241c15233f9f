---------------------------- MODULE MCDashboard ----------------------------
(* A TLC instance of Dashboard.                                            *)
EXTENDS Dashboard

(* BOUND: no press of a single switch has failed in vain an odd number of  *)
(* times, which would leave the two halves of a demoState different.       *)
DemoWhole ==
  \A p \in Page : demoState[p]["polling"] = demoState[p]["streaming"]
=============================================================================
