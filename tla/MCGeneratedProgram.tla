------------------------- MODULE MCGeneratedProgram -------------------------
(***************************************************************************)
(* Scripts with a few blocks made from two MATLAB functions.               *)
(***************************************************************************)
EXTENDS GeneratedProgram

CONSTANTS f, g

\* Sources, blocks and sinks with one port or two; f_0 is also a name that a
\* script may give.
SmallShapes == {<<f, 0, 1>>, <<f, 0, 2>>, <<f, 1, 1>>, <<f, 1, 0>>, <<g, 0, 1>>, <<g, 2, 0>>}
F0          == {<<f, 0>>}

\* Graphs with two sources and two sinks.
EndShapes == {<<f, 0, 1>>, <<f, 1, 0>>, <<g, 0, 1>>, <<g, 1, 0>>}

\* Programs with several sinks and as many sources, where every input port is
\* connected and every name is used once.
SeveralSinks ==
  /\ Len(Sinks) > 1 /\ Len(Sources) = Len(Sinks)
  /\ \A i \in InPorts : inputQueue[i] \in Range(OutputQueue)
  /\ \A i, j \in Indices : names[i] = names[j] => i = j
SeveralSinksSpec == ProgramInit /\ [][ProgramNext /\ (RunGraph => SeveralSinks')]_allVars
=============================================================================
