--------------------------- MODULE MCRunTimeStats ---------------------------
(* Tasks of the image classifier node, with the priorities createPoolTasks
   gives them: the communication task runs above the two tasks of the default
   priority, the assembler task above all. *)
EXTENDS RunTimeStats

CONSTANTS clock, classifier, communication, assembler

MCPrio ==
  [t \in Tasks |-> CASE t = assembler -> 2
                     [] t = communication -> 1
                     [] OTHER -> 0]

(* The two configurations of .cproject: Debug without optimisation, and
   Release with it. *)
Debug == CountUses
Release == {}
MCBuilds == {Debug, Release}

(* What decides which entries are written: not the times kept in them. *)
Control ==
  <<[s \in Slots |-> registries[s].taskName], currentRegisteredStats, build, pc, i, n>>
=============================================================================
