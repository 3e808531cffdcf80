-------------------------- MODULE GeneratedProgram --------------------------
(***************************************************************************)
(* From the MATLAB script to the running threads: the script and WriteCode *)
(* (GraphGenerator), the main program that it writes, with its connect()   *)
(* calls (Wiring), and the start of the graph (GraphLaunch).               *)
(***************************************************************************)
EXTENDS GraphGenerator, GraphLaunch

W == INSTANCE Wiring

VARIABLES
  call,        \* the connect() call of main() that comes next
  inputQueue   \* the queue behind each input port

programVars == <<call, inputQueue>>
allVars     == <<genVars, launchVars, programVars>>

ProgramInit == GenInit /\ LaunchInit /\ call = 0 /\ inputQueue = <<>>

-----------------------------------------------------------------------------
(* The main program.                                                       *)

Inports  == [i \in DOMAIN blocks |-> blocks[i].inports]
Outports == [i \in DOMAIN blocks |-> blocks[i].outports]

InPorts  == W!Ports(DOMAIN blocks, Inports)
OutPorts == W!Ports(DOMAIN blocks, Outports)

OutputQueue == W!NewOutputQueues(OutPorts)

\* 'pnum' in the place of a port number is no C++ variable.
Compiles == \A c \in Range(connects) : c[4] # NoNumber

\* The constructors of the Workers.
BeginMain ==
  /\ phase = "written" /\ Compiles
  /\ phase' = "connect"
  /\ call' = 1
  /\ inputQueue' = W!NewInputQueues(InPorts)
  /\ UNCHANGED <<blocks, uniqueNames, wb, wc, connected2, connects, asked, launchVars>>

\* Whether the ports of a call are elements of the vectors it indexes.
InRange(c) == <<c[1], c[2]>> \in OutPorts /\ <<c[3], c[4]>> \in InPorts

CallConnect ==
  /\ phase = "connect"
  /\ call <= Len(connects) /\ InRange(connects[call])
  /\ inputQueue' = W!Connect(inputQueue, OutputQueue, connects[call])
  /\ call' = call + 1
  /\ UNCHANGED <<genVars, launchVars>>

\* Behind the end of a vector anything can happen; the program ends here.
ConnectOutOfRange ==
  /\ phase = "connect"
  /\ call <= Len(connects) /\ ~InRange(connects[call])
  /\ phase' = "undefined"
  /\ UNCHANGED <<blocks, uniqueNames, wb, wc, connected2, connects, asked, launchVars, programVars>>

\* What WriteCode makes of a block: its function, and Source, Sink or Block.
LabelOf(block) ==
  <<block.name,
    IF block.inports = 0 THEN "source" ELSE IF block.outports = 0 THEN "sink" ELSE "block">>

\* FlowGraph.run(SimDuration)
RunGraph ==
  /\ phase = "connect"
  /\ call > Len(connects)
  /\ phase' = "run"
  /\ CallRun([i \in DOMAIN blocks |-> LabelOf(blocks[i])])
  /\ UNCHANGED <<blocks, uniqueNames, wb, wc, connected2, connects, asked, programVars>>

Main == BeginMain \/ CallConnect \/ ConnectOutOfRange \/ RunGraph

ProgramNext ==
  \/ GenNext /\ UNCHANGED <<launchVars, programVars>>
  \/ Main
  \/ Launch /\ UNCHANGED <<genVars, programVars>>

ProgramSpec == ProgramInit /\ [][ProgramNext]_allVars

-----------------------------------------------------------------------------
(* Properties of the wiring.                                               *)

\* No queue has two consumers, whatever the script does: what the queues need
\* (WiringAssumption of Worker) although connect() itself checks nothing.
SingleReader ==
  \A i, j \in DOMAIN inputQueue : inputQueue[i] = inputQueue[j] => i = j

DistinctNames ==
  \A i, j \in DOMAIN uniqueNames : uniqueNames[i] = uniqueNames[j] => i = j

\* Where the blocks have different names, the program makes no connection that
\* the script did not ask for: the block that connected2 still holds when a
\* name is not found is never connected.
NoneInvented ==
  DistinctNames =>
    \A i \in DOMAIN inputQueue : \A o \in OutPorts :
      inputQueue[i] = OutputQueue[o] => <<o[1], o[2], i[1], i[2]>> \in asked

\* And it makes every connection the script asked for, unless another one has
\* taken one of its ports.
AsAsked ==
  phase = "run" /\ DistinctNames =>
    \A c \in asked :
      (\A d \in asked \ {c} : <<d[1], d[2]>> # <<c[1], c[2]>> /\ <<d[3], d[4]>> # <<c[3], c[4]>>)
        => inputQueue[<<c[3], c[4]>>] = OutputQueue[<<c[1], c[2]>>]
=============================================================================
