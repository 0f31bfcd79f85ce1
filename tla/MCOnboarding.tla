---------------------------- MODULE MCOnboarding ----------------------------
(***************************************************************************)
(* Two services, one of which may fail to start or to stop, a framework    *)
(* whose events may meet a raising subscriber, and two requests for the    *)
(* same identifier that differ in everything else: one asks for a license  *)
(* that is not configured.                                                 *)
(***************************************************************************)
EXTENDS OnboardingProperties

MCServices == <<"Event Bus", "Health Monitor">>
MCFrameworks == <<"AnchorFiber">>
MCUnstable == {"Health Monitor", "AnchorFiber"}
MCRequired == {"Event Bus", "Health Monitor"}

MCRequests ==
  {[id |-> "CO-1", organization |-> "north", identity |-> "n", refusedAt |-> 0,
    frameworks |-> {"AnchorFiber"}],
   [id |-> "CO-1", organization |-> "south", identity |-> "s", refusedAt |-> 4,
    frameworks |-> {"AnchorFiber"}]}
=============================================================================
