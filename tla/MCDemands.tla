----------------------------- MODULE MCDemands -----------------------------
(* One demand and two targets; the operators have a file that registers the demand  *)
(* as active with a target, and one that registers it as a draft with none.         *)
EXTENDS DemandRuntime

CONSTANTS t1, t2

MCTargets == {t1, t2}
MCFiles == {[status |-> "active", targets |-> {t1}], [status |-> "draft", targets |-> {}]}
=============================================================================
