--------------------------- MODULE GraphGenerator ---------------------------
(***************************************************************************)
(* How a MATLAB script describes a graph and what the generator makes of   *)
(* it: class GraphGenerator of src/mfiles/GraphGenerator.m.  AddBlock and  *)
(* Connect fill a table of blocks; WriteCode walks over the table and      *)
(* writes one C++ call of connect() for each entry it finds, looking the   *)
(* blocks up by their unique names.                                        *)
(*                                                                         *)
(* A unique name is a pair <<f, n>>, the string 'f_n'.  What AddBlock and  *)
(* Connect write into atin is never read and left out.                     *)
(***************************************************************************)
EXTENDS Integers, Sequences, FiniteSetsExt, Functions

CONSTANTS
  Shapes,       \* what a script may add: <<function, inports, outports>>
  GivenNames,   \* unique names it may give itself
  MaxBlocks,    \* bounds: blocks and successful connections of a script,
  MaxConnects,
  PortNumbers   \* and the port numbers it tries

\* The script gives no block the name that stands for none.
ASSUME GeneratorAssumption ==
  /\ \A s \in Shapes : s[2] \in Nat /\ s[3] \in Nat
  /\ <<"bname", 0>> \notin GivenNames /\ \A s \in Shapes : s[1] # "bname"
  /\ MaxBlocks \in Nat /\ MaxConnects \in Nat
  /\ PortNumbers \subseteq Nat

VARIABLES
  phase,        \* the script, WriteCode, or how they ended
  blocks,       \* self.blocks
  uniqueNames,  \* self.blocksUniqueNames
  wb, wc,       \* the loop variables b and c of WriteCode
  connected2,   \* connected2 of WriteCode, 0 while undefined
  connects,     \* the connect() calls written: <<block, port, block, port>>
  asked         \* history: the connections asked for, in the same form

genVars == <<phase, blocks, uniqueNames, wb, wc, connected2, connects, asked>>

GenInit ==
  /\ phase = "script"
  /\ blocks = <<>>
  /\ uniqueNames = <<>>
  /\ wb = 1
  /\ wc = 1
  /\ connected2 = 0
  /\ connects = <<>>
  /\ asked = {}

-----------------------------------------------------------------------------
(* The script.                                                             *)

NoNumber == -1

\* Faulty: the placeholder is a port number.
UnsetPortZero == <<<<"bname", 0>>, 0>>

\* {'bname','pnum'}, what a port holds before it is connected.
Unset == <<<<"bname", 0>>, NoNumber>>

\* [], what MATLAB fills a cell array up with.
Gap == <<>>

\* [blockname,'_',num2str(un)] with the first number that is free.
FreshName(f) == <<f, Min({un \in 0 .. Len(uniqueNames) : <<f, un>> \notin Range(uniqueNames)})>>

\* A given name is not compared with the others.
AddBlock(f, inports, outports, name) ==
  /\ phase = "script"
  /\ Len(blocks) < MaxBlocks
  /\ blocks' = Append(blocks, [name |-> f, inports |-> inports, outports |-> outports,
                               atout |-> [c \in 1 .. outports |-> Unset]])
  /\ uniqueNames' = Append(uniqueNames, name)
  /\ UNCHANGED <<phase, wb, wc, connected2, connects, asked>>

\* The last of the blocks of that name, other than block i; 0 if there is none.
LastNamed(name, i) == Max({0} \cup {j \in DOMAIN uniqueNames \ {i} : uniqueNames[j] = name})

\* atout{i} = entry
SetCell(atout, i, entry) ==
  [j \in 1 .. Max({i, Len(atout)}) |->
     IF j = i THEN entry ELSE IF j <= Len(atout) THEN atout[j] ELSE Gap]

\* The last block of the first name, and the last other one of the second:
\* without either the script ends in an error.
Connect(nameA, portA, nameB, portB) ==
  LET out == LastNamed(nameA, 0)
      in  == LastNamed(nameB, out) IN
    /\ phase = "script"
    /\ Cardinality(asked) < MaxConnects
    /\ IF out = 0 \/ in = 0
         THEN phase' = "error" /\ UNCHANGED <<blocks, asked>>
         ELSE /\ blocks' = [blocks EXCEPT ![out].atout = SetCell(@, portA + 1, <<nameB, portB>>)]
              /\ asked' = asked \cup {<<out, portA, in, portB>>}
              /\ UNCHANGED phase
    /\ UNCHANGED <<uniqueNames, wb, wc, connected2, connects>>

-----------------------------------------------------------------------------
(* WriteCode.                                                              *)

StartWriting ==
  /\ phase = "script"
  /\ blocks # <<>>
  /\ phase' = "write"
  /\ UNCHANGED <<blocks, uniqueNames, wb, wc, connected2, connects, asked>>

\* Faulty: blocks are looked up by function, as in the lines 41 and 42 that
\* are commented out.
FoundByFunction(name) ==
  Max({0} \cup {j \in DOMAIN blocks : blocks[j].name = name[1]})

\* Which block a name stands for when the code is written.
Found(name) == LastNamed(name, 0)

\* The entry c of block b.  A name that is not found leaves connected2 as it
\* was; an empty entry and a connected2 that has never been set are errors.
WriteConnection ==
  /\ phase = "write"
  /\ wb <= Len(blocks) /\ wc <= Len(blocks[wb].atout)
  /\ LET ct == blocks[wb].atout[wc] IN
       IF ct = Gap \/ (Found(ct[1]) = 0 /\ connected2 = 0)
         THEN phase' = "error" /\ UNCHANGED <<wc, connected2, connects>>
         ELSE /\ connected2' = IF Found(ct[1]) = 0 THEN connected2 ELSE Found(ct[1])
              /\ connects' = Append(connects, <<wb, wc - 1, connected2', ct[2]>>)
              /\ wc' = wc + 1
              /\ UNCHANGED phase
  /\ UNCHANGED <<blocks, uniqueNames, wb, asked>>

NextBlock ==
  /\ phase = "write"
  /\ wb <= Len(blocks) /\ wc > Len(blocks[wb].atout)
  /\ wb' = wb + 1
  /\ wc' = 1
  /\ UNCHANGED <<phase, blocks, uniqueNames, connected2, connects, asked>>

FileWritten ==
  /\ phase = "write"
  /\ wb > Len(blocks)
  /\ phase' = "written"
  /\ UNCHANGED <<blocks, uniqueNames, wb, wc, connected2, connects, asked>>

Script ==
  \/ \E s \in Shapes : \E name \in GivenNames \cup {FreshName(s[1])} : AddBlock(s[1], s[2], s[3], name)
  \/ \E nameA, nameB \in Range(uniqueNames) \cup GivenNames : \E portA, portB \in PortNumbers :
       Connect(nameA, portA, nameB, portB)

WriteCode == StartWriting \/ WriteConnection \/ NextBlock \/ FileWritten

GenNext == Script \/ WriteCode
=============================================================================
