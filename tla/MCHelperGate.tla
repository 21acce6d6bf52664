---------------------------- MODULE MCHelperGate ----------------------------
(* Pages share nothing but the worker and the storage, so one page with    *)
(* every interleaving of its channels stands for all of them.  The safety  *)
(* run starts without a local key; requests and a restart reach the rest.  *)
EXTENDS HelperGate

FirstUse == GateInit /\ local = "absent"
FirstUseSpec == FirstUse /\ [][GateNext]_allVars
=============================================================================
