------------------------------- MODULE MCEdge -------------------------------
(* An instance at its edges: a behaviour follows its start, its connections,  *)
(* its directives, or its cursor bindings.                                    *)
EXTENDS Ingress, MCDirectives, CursorAffinity, MCStartup

Started == boot = [pc |-> "elsewhere", cfg |-> Missing]

Init ==
  \/ IngressInit /\ DirectivesInit /\ setting = Quiet /\ AffinityInit(0) /\ Started
  \/ IngressOff /\ DirectivesInit /\ setting # Quiet /\ AffinityInit(0) /\ Started
  \/ IngressOff /\ DirectivesInit /\ setting = Quiet /\ AffinityInit(2) /\ Started
  \/ IngressOff /\ DirectivesInit /\ setting = Quiet /\ AffinityInit(0) /\ StartupInit

Next ==
  \/ IngressNext /\ UNCHANGED <<dirVars, affinityVars, boot>>
  \/ DirectivesNext /\ UNCHANGED <<ingressVars, affinityVars, boot>>
  \/ AffinityNext /\ UNCHANGED <<ingressVars, setting, log, store, obs, task, boot>>
  \/ StartupNext /\ UNCHANGED <<ingressVars, dirVars, affinityVars>>

Spec == /\ Init /\ [][Next]_<<ingressVars, dirVars, affinityVars, boot>>
        /\ IngressFairness /\ WF_dirVars(WatchTask)
=============================================================================
