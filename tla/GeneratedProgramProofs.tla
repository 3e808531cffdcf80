----------------------- MODULE GeneratedProgramProofs -----------------------
(***************************************************************************)
(* What a generated program connects, for scripts of any length, any       *)
(* shapes and any names.                                                   *)
(***************************************************************************)
EXTENDS GeneratedProgram, SequenceTheorems, WellFoundedInduction, TLAPS

-----------------------------------------------------------------------------
(* A queue has one reader.                                                 *)

Calls == 1 .. Len(connects)

\* The output port of a call, and its input port.
From(k) == <<connects[k][1], connects[k][2]>>
To(k)   == <<connects[k][3], connects[k][4]>>

\* WriteCode goes through the output ports in order, so that every call it has
\* written is for a port before the one it is at.
\* The invariant ReaderInv: calls and queues.
Listed == \E S : connects \in Seq(S)

Before ==
  /\ wb \in Nat \ {0} /\ wc \in Nat \ {0}
  /\ \A k \in Calls :
       /\ connects[k][1] \in Nat /\ connects[k][2] \in Int
       /\ connects[k][1] < wb \/ (connects[k][1] = wb /\ connects[k][2] < wc - 1)

Once == \A j, k \in Calls : From(j) = From(k) => j = k

Written == Listed /\ Before /\ Once

\* An input port has its own queue, or that of an output port which a call has
\* connected to it.
Wired ==
  /\ phase = "connect" => call \in Nat \ {0}
  /\ phase \notin {"connect", "undefined", "run"} => inputQueue = <<>>
  /\ \A i \in DOMAIN inputQueue :
       /\ i = <<i[1], i[2]>>
       /\ \/ inputQueue[i] = <<"in", i[1], i[2]>>
          \/ \E k \in Calls : i = To(k) /\ inputQueue[i] = <<"out", connects[k][1], connects[k][2]>>

ReaderInv == Written /\ Wired

LEMMA WiredReads == ReaderInv => SingleReader
<1> SUFFICES ASSUME ReaderInv,
                    NEW i \in DOMAIN inputQueue, NEW j \in DOMAIN inputQueue,
                    inputQueue[i] = inputQueue[j]
             PROVE  i = j
  BY DEF SingleReader
<1>1. i = <<i[1], i[2]>> /\ j = <<j[1], j[2]>>
  BY DEF ReaderInv, Wired
<1>2. CASE inputQueue[i] = <<"in", i[1], i[2]>>
  <2>1. inputQueue[j] = <<"in", j[1], j[2]>>
    <3>1. CASE \E k \in Calls : inputQueue[j] = <<"out", connects[k][1], connects[k][2]>>
      <4>1. PICK k \in Calls : inputQueue[j] = <<"out", connects[k][1], connects[k][2]>>
        BY <3>1
      <4>2. <<"in", i[1], i[2]>> = <<"out", connects[k][1], connects[k][2]>>
        BY <4>1, <1>2
      <4>3. QED
        BY <4>2
    <3>2. QED
      BY <3>1 DEF ReaderInv, Wired
  <2>2. <<"in", i[1], i[2]>> = <<"in", j[1], j[2]>>
    BY <1>2, <2>1
  <2>3. i[1] = j[1] /\ i[2] = j[2]
    BY <2>2
  <2>4. <<i[1], i[2]>> = <<j[1], j[2]>>
    BY <2>3
  <2>5. QED
    BY <1>1, <2>4, Zenon
<1>3. CASE \E k \in Calls : i = To(k) /\ inputQueue[i] = <<"out", connects[k][1], connects[k][2]>>
  <2>1. PICK k \in Calls : i = To(k) /\ inputQueue[i] = <<"out", connects[k][1], connects[k][2]>>
    BY <1>3
  <2>2. PICK l \in Calls : j = To(l) /\ inputQueue[j] = <<"out", connects[l][1], connects[l][2]>>
    BY <2>1, <1>1 DEF ReaderInv, Wired
  <2>3. From(k) = From(l)
    BY <2>1, <2>2 DEF From
  <2>4. QED
    BY <2>1, <2>2, <2>3 DEF ReaderInv, Written, Once
<1>4. QED
  BY <1>2, <1>3 DEF ReaderInv, Wired

\* A call is written for the port WriteCode is at.
LEMMA WrittenStep == ASSUME Written, WriteConnection PROVE Written'
<1>1. CASE UNCHANGED connects /\ UNCHANGED wc
  BY <1>1 DEF Written, Listed, Before, Once, WriteConnection, Calls, From
<1>2. CASE wc' = wc + 1 /\ \E x, y : connects' = Append(connects, <<wb, wc - 1, x, y>>)
  <2>1. PICK x, y : connects' = Append(connects, <<wb, wc - 1, x, y>>)
    BY <1>2
  <2> DEFINE e == <<wb, wc - 1, x, y>>
  <2>2. PICK S : connects \in Seq(S)
    BY DEF Written, Listed
  <2>3. connects \in Seq(S \cup {e})
    BY <2>2, SeqMonotonic
  <2>4. /\ connects' \in Seq(S \cup {e})
        /\ Len(connects') = Len(connects) + 1
        /\ Len(connects) \in Nat
        /\ \A k \in Calls : connects'[k] = connects[k]
        /\ connects'[Len(connects) + 1] = e
    BY <2>1, <2>3 DEF Calls
  <2>5. wb' = wb /\ wb \in Nat \ {0} /\ wc \in Nat \ {0} /\ e[1] = wb /\ e[2] = wc - 1
    BY DEF Written, Before, WriteConnection
  <2>6. Calls' = Calls \cup {Len(connects) + 1}
    BY <2>4 DEF Calls
  <2>7. ASSUME NEW k \in Calls'
        PROVE  /\ connects'[k][1] \in Nat /\ connects'[k][2] \in Int
               /\ connects'[k][1] < wb' \/ (connects'[k][1] = wb' /\ connects'[k][2] < wc' - 1)
    <3>1. CASE k \in Calls
      <4>1. connects'[k] = connects[k]
        BY <3>1, <2>4
      <4>2. /\ connects[k][1] \in Nat /\ connects[k][2] \in Int
            /\ connects[k][1] < wb \/ (connects[k][1] = wb /\ connects[k][2] < wc - 1)
        BY <3>1 DEF Written, Before
      <4>3. QED
        BY <4>1, <4>2, <2>5, <1>2
    <3>2. CASE k = Len(connects) + 1
      BY <3>2, <2>4, <2>5, <1>2
    <3>3. QED
      BY <3>1, <3>2, <2>6
  <2>8. ASSUME NEW j \in Calls', NEW k \in Calls', From(j)' = From(k)'
        PROVE  j = k
    <3>0. connects'[j][1] = connects'[k][1] /\ connects'[j][2] = connects'[k][2]
      BY <2>8 DEF From
    <3>1. CASE j \in Calls /\ k \in Calls
      BY <3>0, <3>1, <2>4 DEF Written, Once, From
    <3>2. CASE j \in Calls /\ k = Len(connects) + 1
      BY <3>0, <3>2, <2>4, <2>5 DEF Written, Before
    <3>3. CASE j = Len(connects) + 1 /\ k \in Calls
      BY <3>0, <3>3, <2>4, <2>5 DEF Written, Before
    <3>4. QED
      BY <3>1, <3>2, <3>3, <2>6
  <2>9. QED
    <3>1. Listed'
      BY <2>4 DEF Listed
    <3>2. Before'
      <4>1. wb' \in Nat \ {0} /\ wc' \in Nat \ {0}
        BY <2>5, <1>2
      <4>2. QED
        BY <4>1, <2>7 DEF Before
    <3>3. Once'
      BY <2>8 DEF Once
    <3>4. QED
      BY <3>1, <3>2, <3>3 DEF Written
<1>3. QED
  BY <1>1, <1>2 DEF WriteConnection

\* The main program connects the ports of the calls that were written.
LEMMA ReaderStep == ASSUME ReaderInv, [ProgramNext]_allVars PROVE ReaderInv'
<1> USE DEF ReaderInv
<1>1. CASE GenNext /\ UNCHANGED <<launchVars, programVars>>
  <2>1. inputQueue = <<>> /\ inputQueue' = <<>> /\ phase' \notin {"connect", "undefined", "run"}
    BY <1>1 DEF GenNext, Script, WriteCode, AddBlock, Connect, StartWriting, WriteConnection,
                NextBlock, FileWritten, Wired, programVars
  <2>2. Wired'
    BY <2>1 DEF Wired
  <2>3. CASE WriteConnection
    BY <2>3, <2>2, WrittenStep
  <2>4. CASE NextBlock
    BY <2>4, <2>2 DEF NextBlock, Written, Listed, Before, Once, Calls, From
  <2>5. CASE Script \/ StartWriting \/ FileWritten
    BY <2>5, <2>2 DEF Script, AddBlock, Connect, StartWriting, FileWritten, Written, Listed,
                   Before, Once, Calls, From
  <2>6. QED
    BY <1>1, <2>3, <2>4, <2>5 DEF GenNext, WriteCode
<1>2. CASE Main
  <2>1. UNCHANGED <<connects, wb, wc>>
    BY <1>2 DEF Main, BeginMain, CallConnect, ConnectOutOfRange, RunGraph, genVars
  <2>2. Written'
    BY <2>1 DEF Written, Listed, Before, Once, Calls, From
  <2>3. CASE BeginMain
    <3>1. DOMAIN inputQueue' = InPorts
          /\ \A i \in InPorts : inputQueue'[i] = <<"in", i[1], i[2]>>
      BY <2>3 DEF BeginMain, W!NewInputQueues
    <3>2. \A i \in InPorts : i = <<i[1], i[2]>>
      BY DEF InPorts, W!Ports
    <3>3. QED
      BY <2>2, <2>3, <3>1, <3>2 DEF BeginMain, Wired
  <2>4. CASE CallConnect
    <3> DEFINE c == connects[call]
    <3>1. call \in Calls /\ phase = "connect" /\ phase' = phase
      BY <2>4 DEF CallConnect, Calls, genVars, Wired, Written, Listed
    <3>2. inputQueue' = [inputQueue EXCEPT ![<<c[3], c[4]>>] = OutputQueue[<<c[1], c[2]>>]]
      BY <2>4 DEF CallConnect, W!Connect
    <3>3. OutputQueue[<<c[1], c[2]>>] = <<"out", c[1], c[2]>>
      BY <2>4 DEF CallConnect, InRange, OutputQueue, W!NewOutputQueues
    <3>4. To(call) = <<c[3], c[4]>> /\ Calls' = Calls /\ connects' = connects
      BY <2>1 DEF To, Calls
    <3>5. call \in Nat \ {0} /\ call' = call + 1
      BY <2>4, <3>1 DEF CallConnect, Wired
    <3>6. ASSUME NEW i \in DOMAIN inputQueue'
          PROVE  /\ i = <<i[1], i[2]>>
                 /\ \/ inputQueue'[i] = <<"in", i[1], i[2]>>
                    \/ \E k \in Calls : i = To(k) /\ inputQueue'[i] = <<"out", connects[k][1], connects[k][2]>>
      <4>1. i \in DOMAIN inputQueue
        BY <3>2
      <4>2. CASE i = To(call)
        BY <4>1, <4>2, <3>1, <3>2, <3>3, <3>4 DEF Wired
      <4>3. CASE i # To(call)
        <5>1. inputQueue'[i] = inputQueue[i]
          BY <4>1, <4>3, <3>2, <3>4
        <5>2. QED
          BY <4>1, <5>1 DEF Wired
      <4>4. QED
        BY <4>2, <4>3
    <3>7. \A k : To(k)' = To(k)
      BY <3>4 DEF To
    <3>8. Wired'
      BY <3>1, <3>4, <3>5, <3>6, <3>7 DEF Wired
    <3>9. QED
      BY <2>2, <3>8
  <2>5. CASE ConnectOutOfRange \/ RunGraph
    BY <2>5, <2>1, <2>2 DEF ConnectOutOfRange, RunGraph, programVars, Wired, Calls, To
  <2>6. QED
    BY <1>2, <2>3, <2>4, <2>5 DEF Main
<1>3. CASE (Launch /\ UNCHANGED <<genVars, programVars>>) \/ UNCHANGED allVars
  <2>1. UNCHANGED <<phase, wb, wc, connects, call, inputQueue>>
    BY <1>3 DEF allVars, genVars, programVars
  <2>2. Written'
    BY <2>1 DEF Written, Listed, Before, Once, Calls, From
  <2>3. Wired'
    BY <2>1 DEF Wired, Calls, To
  <2>4. QED
    BY <2>2, <2>3
<1>4. QED
  BY <1>1, <1>2, <1>3 DEF ProgramNext

LEMMA ReaderInit == ProgramInit => ReaderInv
  BY EmptySeq DEF ProgramInit, GenInit, ReaderInv, Written, Listed, Before, Once, Wired, Calls

\* Whatever a script does, the program written for it never lets two input
\* ports read from one queue.
THEOREM OneReader == ProgramSpec => []SingleReader
<1>1. ReaderInv /\ [ProgramNext]_allVars => ReaderInv'
  BY ReaderStep
<1>2. QED
  BY ReaderInit, WiredReads, <1>1, PTL DEF ProgramSpec

-----------------------------------------------------------------------------
(* No connection is invented.                                              *)

\* What Max finds, for the lookups by name.
LEMMA LeastNumber ==
  ASSUME NEW D, D \subseteq Nat, D # {}
  PROVE  \E x \in D : \A y \in D : x <= y
<1>1. PICK x \in D : \A y \in D : ~ (<<y, x>> \in OpToRel(<, Nat))
  BY WFMin, NatLessThanWellFounded, Zenon
<1>2. \A y \in D : ~ (y < x)
  BY <1>1, Zenon DEF OpToRel
<1>3. QED
  BY <1>2

LEMMA MaxIsElement ==
  ASSUME NEW m \in Nat, NEW T, T \subseteq 1 .. m
  PROVE  Max({0} \cup T) \in {0} \cup T
<1> DEFINE S == {0} \cup T
           D == {m - y : y \in S}
<1>1. S \subseteq 0 .. m
  OBVIOUS
<1>2. D \subseteq Nat /\ m \in D
  BY <1>1
<1>3. PICK x \in D : \A y \in D : x <= y
  BY <1>2, LeastNumber
<1>4. PICK z \in S : x = m - z
  OBVIOUS
<1>5. \A y \in S : z >= y
  BY <1>1, <1>3, <1>4
<1> HIDE DEF S
<1>6. Max(S) \in S
  BY <1>4, <1>5 DEF Max
<1>7. QED
  BY <1>6 DEF S

LEMMA MaxOfTwo ==
  ASSUME NEW x \in Nat, NEW y \in Nat
  PROVE  Max({x, y}) \in Nat
<1>1. \E z \in {x, y} : \A w \in {x, y} : z >= w
  OBVIOUS
<1>2. QED
  BY <1>1 DEF Max

LEMMA MaxOfOne ==
  ASSUME NEW x \in Nat
  PROVE  Max({0} \cup {x}) = x
  BY DEF Max

\* The name of a block that was found is the one that was looked for, and
\* where names differ the block is the only one of that name.
LEMMA LastNamedHasName ==
  ASSUME NEW S, uniqueNames \in Seq(S), NEW name, NEW i, LastNamed(name, i) # 0
  PROVE  /\ LastNamed(name, i) \in DOMAIN uniqueNames
         /\ uniqueNames[LastNamed(name, i)] = name
<1> DEFINE T == {j \in DOMAIN uniqueNames \ {i} : uniqueNames[j] = name}
<1>1. Len(uniqueNames) \in Nat /\ T \subseteq 1 .. Len(uniqueNames)
  BY LenProperties
<1>2. Max({0} \cup T) \in {0} \cup T
  BY <1>1, MaxIsElement
<1>3. QED
  BY <1>2 DEF LastNamed

LEMMA OnlyOneNamed ==
  ASSUME NEW S, uniqueNames \in Seq(S), DistinctNames, NEW i \in DOMAIN uniqueNames
  PROVE  LastNamed(uniqueNames[i], 0) = i
<1>1. i \in Nat /\ i # 0
  BY LenProperties
<1>2. {j \in DOMAIN uniqueNames \ {0} : uniqueNames[j] = uniqueNames[i]} = {i}
  BY <1>1 DEF DistinctNames
<1>3. QED
  BY <1>1, <1>2, MaxOfOne DEF LastNamed

\* An entry of the table is a placeholder, or the connection to a block of
\* that name that the script asked for.
IsEntry(e, out, c) ==
  \/ e = Gap
  \/ e = Unset
  \/ \E in \in DOMAIN uniqueNames :
       /\ e = <<uniqueNames[in], e[2]>>
       /\ <<out, c - 1, in, e[2]>> \in asked

IsList(list) == Len(list) \in Nat /\ DOMAIN list = 1 .. Len(list)

Table ==
  /\ \E S : uniqueNames \in Seq(S)
  /\ \E S : blocks \in Seq(S)
  /\ \A out \in DOMAIN blocks :
       /\ "atout" \in DOMAIN blocks[out]
       /\ IsList(blocks[out].atout)
       /\ \A c \in DOMAIN blocks[out].atout : IsEntry(blocks[out].atout[c], out, c)

\* Calls with a port number to connect to, in programs whose names differ.
CallsAsked ==
  /\ phase = "script" => connects = <<>>
  /\ \A k \in Calls :
       DistinctNames /\ connects[k][4] # NoNumber =>
         <<connects[k][1], connects[k][2], connects[k][3], connects[k][4]>> \in asked
  /\ phase \in {"connect", "undefined", "run"} => Compiles

AskedInv == Table /\ CallsAsked

\* A program with a call that has no port number does not compile, so that what
\* is connected was asked for.
LEMMA AskedIsSafe == ReaderInv /\ AskedInv => NoneInvented
<1> SUFFICES ASSUME ReaderInv, AskedInv, DistinctNames,
                    NEW i \in DOMAIN inputQueue, NEW o \in OutPorts,
                    inputQueue[i] = OutputQueue[o]
             PROVE  <<o[1], o[2], i[1], i[2]>> \in asked
  BY DEF NoneInvented
<1>1. inputQueue[i] = <<"out", o[1], o[2]>>
  BY DEF OutputQueue, W!NewOutputQueues
<1>2. inputQueue[i] # <<"in", i[1], i[2]>>
  BY <1>1
<1>3. PICK k \in Calls : i = To(k) /\ inputQueue[i] = <<"out", connects[k][1], connects[k][2]>>
  BY <1>2 DEF ReaderInv, Wired
<1>4. o[1] = connects[k][1] /\ o[2] = connects[k][2]
  BY <1>1, <1>3
<1>5. i[1] = connects[k][3] /\ i[2] = connects[k][4]
  BY <1>3 DEF To
<1>6. Compiles
  BY DEF ReaderInv, Wired, AskedInv, CallsAsked
<1>7. connects[k][4] # NoNumber
  <2>1. connects[k] \in Range(connects)
    BY DEF ReaderInv, Written, Listed, Calls, Range
  <2>2. QED
    BY <1>6, <2>1 DEF Compiles
<1>8. QED
  BY <1>4, <1>5, <1>7 DEF AskedInv, CallsAsked

\* An entry stays one when blocks are added and connections are asked for.
LEMMA EntryStays ==
  ASSUME Table, NEW e, NEW out, NEW c, IsEntry(e, out, c), asked \subseteq asked',
         (uniqueNames' = uniqueNames) \/ (\E name : uniqueNames' = Append(uniqueNames, name))
  PROVE  IsEntry(e, out, c)'
<1>1. PICK S : uniqueNames \in Seq(S)
  BY DEF Table
<1>2. \A in \in DOMAIN uniqueNames : in \in DOMAIN uniqueNames' /\ uniqueNames'[in] = uniqueNames[in]
  <2>1. CASE uniqueNames' = uniqueNames
    BY <2>1
  <2>2. CASE \E name : uniqueNames' = Append(uniqueNames, name)
    <3>1. PICK name : uniqueNames' = Append(uniqueNames, name)
      BY <2>2
    <3>2. uniqueNames \in Seq(S \cup {name})
      BY <1>1, SeqMonotonic
    <3>3. QED
      BY <3>1, <3>2
  <2>3. QED
    BY <2>1, <2>2
<1>3. CASE e = Gap \/ e = Unset
  BY <1>3 DEF IsEntry
<1>4. CASE \E in \in DOMAIN uniqueNames :
             e = <<uniqueNames[in], e[2]>> /\ <<out, c - 1, in, e[2]>> \in asked
  BY <1>2, <1>4 DEF IsEntry
<1>5. QED
  BY <1>3, <1>4 DEF IsEntry

\* A new block has placeholders only.
LEMMA AddBlockKeepsTable ==
  ASSUME Table, NEW s \in Shapes, NEW name, AddBlock(s[1], s[2], s[3], name)
  PROVE  Table'
<1> DEFINE new == [name |-> s[1], inports |-> s[2], outports |-> s[3],
                   atout |-> [c \in 1 .. s[3] |-> Unset]]
<1>1. blocks' = Append(blocks, new) /\ uniqueNames' = Append(uniqueNames, name) /\ asked' = asked
  BY DEF AddBlock
<1>2. s[3] \in Nat
  BY GeneratorAssumption DEF GeneratorAssumption
<1>3. PICK S : blocks \in Seq(S)
  BY DEF Table
<1>4. PICK U : uniqueNames \in Seq(U)
  BY DEF Table
<1>5. "atout" \in DOMAIN new /\ new.atout = [c \in 1 .. s[3] |-> Unset]
  OBVIOUS
<1>6. IsList(new.atout)
  BY <1>2, <1>5 DEF IsList
<1>7. \A c \in DOMAIN new.atout : new.atout[c] = Unset
  BY <1>5
<1> HIDE DEF new
<1>8. blocks \in Seq(S \cup {new})
  BY <1>3, SeqMonotonic
<1>9. /\ blocks' \in Seq(S \cup {new})
      /\ \A out \in DOMAIN blocks' : \/ out \in DOMAIN blocks /\ blocks'[out] = blocks[out]
                                     \/ blocks'[out] = new
  BY <1>1, <1>8
<1>10. \E V : uniqueNames' \in Seq(V)
  <2>1. uniqueNames \in Seq(U \cup {name})
    BY <1>4, SeqMonotonic
  <2>2. uniqueNames' \in Seq(U \cup {name})
    BY <2>1, <1>1
  <2>3. QED
    BY <2>2
<1>11. ASSUME NEW out \in DOMAIN blocks'
       PROVE  /\ "atout" \in DOMAIN blocks'[out]
              /\ IsList(blocks'[out].atout)
  BY <1>5, <1>6, <1>9 DEF Table
<1>12. ASSUME NEW out \in DOMAIN blocks', NEW c \in DOMAIN blocks'[out].atout,
              NEW e, e = blocks'[out].atout[c]
       PROVE  IsEntry(e, out, c)'
  <2>1. CASE out \in DOMAIN blocks /\ blocks'[out] = blocks[out]
    <3>1. IsEntry(e, out, c)
      BY <2>1, <1>12 DEF Table
    <3>2. QED
      BY <3>1, <1>1, EntryStays
  <2>2. CASE blocks'[out] = new
    BY <2>2, <1>7, <1>12 DEF IsEntry
  <2>3. QED
    BY <1>9, <2>1, <2>2
<1>13. \A out \in DOMAIN blocks' : \A c \in DOMAIN blocks'[out].atout :
         IsEntry(blocks[out].atout[c], out, c)'
  BY <1>12
<1>14. QED
  BY <1>9, <1>10, <1>11, <1>13 DEF Table

\* A cell array with one entry more: the others, and gaps before it.
LEMMA SetCellIsList ==
  ASSUME NEW list, IsList(list), NEW i \in Nat \ {0}, NEW entry
  PROVE  /\ IsList(SetCell(list, i, entry))
         /\ \A j \in DOMAIN SetCell(list, i, entry) :
              LET x == SetCell(list, i, entry)[j] IN
                \/ j = i /\ x = entry
                \/ j \in DOMAIN list /\ x = list[j]
                \/ x = Gap
<1>1. Max({i, Len(list)}) \in Nat
  BY MaxOfTwo DEF IsList
<1> DEFINE m == Max({i, Len(list)})
<1> HIDE DEF m
<1>2. SetCell(list, i, entry) =
        [j \in 1 .. m |-> IF j = i THEN entry ELSE IF j <= Len(list) THEN list[j] ELSE Gap]
  BY DEF SetCell, m
<1>3. m \in Nat
  BY <1>1 DEF m
<1>4. IsList(SetCell(list, i, entry))
  BY <1>2, <1>3 DEF IsList
<1>5. QED
  BY <1>2, <1>3, <1>4 DEF IsList

\* The table after a connection from block out to block in.
LEMMA EntryKeepsTable ==
  ASSUME Table, NEW out, NEW in \in DOMAIN uniqueNames, NEW portA \in PortNumbers, NEW portB,
         blocks' = [blocks EXCEPT ![out].atout =
                      SetCell(@, portA + 1, <<uniqueNames[in], portB>>)],
         asked' = asked \cup {<<out, portA, in, portB>>},
         uniqueNames' = uniqueNames
  PROVE  Table'
<1> DEFINE new   == <<uniqueNames[in], portB>>
           cells == SetCell(blocks[out].atout, portA + 1, new)
<1>1. blocks' = [blocks EXCEPT ![out].atout = cells]
  OBVIOUS
<1>2. portA + 1 \in Nat \ {0} /\ (portA + 1) - 1 = portA
  BY GeneratorAssumption DEF GeneratorAssumption
<1>3. ASSUME NEW e, e = new PROVE IsEntry(e, out, portA + 1)'
  <2>1. e = <<uniqueNames'[in], e[2]>> /\ <<out, portA, in, e[2]>> \in asked'
    BY <1>3
  <2> HIDE DEF new
  <2>2. QED
    BY <2>1, <1>2 DEF IsEntry
<1> HIDE DEF new, cells
<1>4. PICK S : blocks \in Seq(S)
  BY DEF Table
<1>5. \E U : blocks' \in Seq(U)
  <2> DEFINE row == [blocks[out] EXCEPT !.atout = cells]
  <2>1. blocks' = [blocks EXCEPT ![out] = row]
    BY <1>1
  <2> HIDE DEF row
  <2>2. blocks \in Seq(S \cup {row})
    BY <1>4, SeqMonotonic
  <2>3. blocks' \in Seq(S \cup {row})
    <3>1. CASE out \in 1 .. Len(blocks)
      BY <3>1, <2>1, <2>2, ExceptSeq
    <3>2. CASE out \notin 1 .. Len(blocks)
      <4>1. blocks \in [1 .. Len(blocks) -> S \cup {row}]
        BY <2>2, LenProperties
      <4>2. blocks' = blocks
        BY <3>2, <4>1, <2>1
      <4>3. QED
        BY <4>2, <2>2
    <3>3. QED
      BY <3>1, <3>2
  <2>4. QED
    BY <2>3
<1>6. DOMAIN blocks' = DOMAIN blocks
  BY <1>1
<1>7. ASSUME NEW k \in DOMAIN blocks, k # out
      PROVE  blocks'[k] = blocks[k]
  BY <1>7, <1>1
<1>8. ASSUME out \in DOMAIN blocks
      PROVE  "atout" \in DOMAIN blocks'[out] /\ blocks'[out].atout = cells
  BY <1>8, <1>1 DEF Table
<1>9. ASSUME NEW k \in DOMAIN blocks'
      PROVE  "atout" \in DOMAIN blocks'[k] /\ IsList(blocks'[k].atout)
  <2>1. CASE k = out
    BY <2>1, <1>2, <1>6, <1>8, SetCellIsList DEF Table, cells
  <2>2. CASE k # out
    BY <2>2, <1>6, <1>7 DEF Table
  <2>3. QED
    BY <2>1, <2>2
<1>10. ASSUME NEW k \in DOMAIN blocks', NEW c \in DOMAIN blocks'[k].atout,
              NEW e, e = blocks'[k].atout[c]
       PROVE  IsEntry(e, k, c)'
  <2>1. ASSUME IsEntry(e, k, c) PROVE IsEntry(e, k, c)'
    BY <2>1, EntryStays
  <2>2. CASE k # out
    <3>1. IsEntry(e, k, c)
      BY <2>2, <1>6, <1>7, <1>10 DEF Table
    <3>2. QED
      BY <3>1, <2>1
  <2>3. CASE k = out
    <3>1. e = cells[c] /\ c \in DOMAIN cells /\ IsList(blocks[out].atout)
      BY <2>3, <1>6, <1>8, <1>10 DEF Table
    <3>2. \/ c = portA + 1 /\ e = new
          \/ c \in DOMAIN blocks[out].atout /\ e = blocks[out].atout[c]
          \/ e = Gap
      BY <3>1, <1>2, SetCellIsList DEF cells
    <3>3. CASE c = portA + 1 /\ e = new
      BY <3>3, <2>3, <1>3
    <3>4. CASE c \in DOMAIN blocks[out].atout /\ e = blocks[out].atout[c]
      BY <3>4, <2>1, <2>3, <1>6 DEF Table
    <3>5. CASE e = Gap
      BY <3>5 DEF IsEntry
    <3>6. QED
      BY <3>2, <3>3, <3>4, <3>5
  <2>4. QED
    BY <2>2, <2>3
<1>11. \A k \in DOMAIN blocks' : \A c \in DOMAIN blocks'[k].atout :
         IsEntry(blocks[k].atout[c], k, c)'
  BY <1>10
<1>12. QED
  BY <1>5, <1>9, <1>11 DEF Table

\* Connect finds the blocks by their names.
LEMMA ConnectKeepsTable ==
  ASSUME Table, NEW nameA, NEW nameB, NEW portA \in PortNumbers, NEW portB,
         Connect(nameA, portA, nameB, portB)
  PROVE  Table'
<1>1. CASE UNCHANGED <<blocks, uniqueNames, asked>>
  BY <1>1 DEF Table, IsEntry
<1>2. ASSUME NEW out, NEW in, out = LastNamed(nameA, 0), in = LastNamed(nameB, out),
             out # 0, in # 0,
             blocks' = [blocks EXCEPT ![out].atout = SetCell(@, portA + 1, <<nameB, portB>>)],
             asked' = asked \cup {<<out, portA, in, portB>>}
      PROVE  Table'
  <2>1. in \in DOMAIN uniqueNames /\ uniqueNames[in] = nameB
    BY <1>2, LastNamedHasName DEF Table
  <2>2. uniqueNames' = uniqueNames
    BY DEF Connect
  <2>3. QED
    BY <1>2, <2>1, <2>2, EntryKeepsTable
<1>3. QED
  BY <1>1, <1>2 DEF Connect

\* A call is written for an entry of the table, and to the block of that name.
LEMMA CallsAskedStep == ASSUME Written, AskedInv, WriteConnection PROVE CallsAsked'
<1> DEFINE ct == blocks[wb].atout[wc]
<1>1. UNCHANGED <<blocks, uniqueNames, wb, asked>> /\ phase' \in {"write", "error"}
  BY DEF WriteConnection
<1>2. DistinctNames' <=> DistinctNames
  BY <1>1 DEF DistinctNames
<1>3. CASE UNCHANGED connects
  BY <1>1, <1>2, <1>3 DEF AskedInv, CallsAsked, Calls
<1>4. CASE /\ ct # Gap
           /\ connects' = Append(connects, <<wb, wc - 1, connected2', ct[2]>>)
           /\ connected2' = IF Found(ct[1]) = 0 THEN connected2 ELSE Found(ct[1])
  <2> DEFINE to == connected2'
             new == <<wb, wc - 1, to, ct[2]>>
  <2>1. wb \in Nat \ {0} /\ wc \in Nat \ {0}
    BY DEF Written, Before
  <2>2. wb \in DOMAIN blocks /\ wc \in DOMAIN blocks[wb].atout
    <3>1. wb \in DOMAIN blocks
      BY <2>1 DEF WriteConnection, AskedInv, Table
    <3>2. IsList(blocks[wb].atout)
      BY <3>1 DEF AskedInv, Table
    <3>3. QED
      BY <2>1, <3>1, <3>2 DEF IsList, WriteConnection
  <2>3. IsEntry(ct, wb, wc)
    BY <2>2 DEF AskedInv, Table
  <2>4. ASSUME DistinctNames, ct[2] # NoNumber
        PROVE  <<wb, wc - 1, to, ct[2]>> \in asked
    <3>1. ct # Unset
      BY <2>4 DEF Unset
    <3>2. PICK in \in DOMAIN uniqueNames :
            ct = <<uniqueNames[in], ct[2]>> /\ <<wb, wc - 1, in, ct[2]>> \in asked
      BY <1>4, <2>3, <3>1 DEF IsEntry
    <3>3. ct[1] = uniqueNames[in]
      BY <3>2
    <3>4. Found(ct[1]) = in
      BY <2>4, <3>3, OnlyOneNamed DEF Found, AskedInv, Table
    <3>5. in # 0
      BY LenProperties DEF AskedInv, Table
    <3>6. to = in
      BY <1>4, <3>4, <3>5
    <3>7. QED
      BY <3>2, <3>6
  <2> HIDE DEF ct, to
  <2>5. PICK S : connects \in Seq(S)
    BY DEF Written, Listed
  <2>6. connects \in Seq(S \cup {new})
    BY <2>5, SeqMonotonic
  <2>7. /\ Len(connects) \in Nat
        /\ Len(connects') = Len(connects) + 1
        /\ \A k \in Calls : connects'[k] = connects[k]
        /\ connects'[Len(connects) + 1] = new
    BY <1>4, <2>6 DEF Calls, to
  <2>8. Calls' = Calls \cup {Len(connects) + 1}
    BY <2>7 DEF Calls
  <2>9. ASSUME NEW k \in Calls', DistinctNames, connects'[k][4] # NoNumber
        PROVE  <<connects'[k][1], connects'[k][2], connects'[k][3], connects'[k][4]>> \in asked
    <3>1. CASE k \in Calls
      BY <3>1, <2>7, <2>9 DEF AskedInv, CallsAsked
    <3>2. CASE k = Len(connects) + 1
      <4>1. connects'[k] = new
        BY <3>2, <2>7
      <4>2. QED
        BY <4>1, <2>4, <2>9
    <3>3. QED
      BY <3>1, <3>2, <2>8
  <2>10. QED
    BY <1>1, <1>2, <2>9 DEF CallsAsked
<1>5. QED
  BY <1>3, <1>4 DEF WriteConnection

LEMMA ScriptKeepsTable == ASSUME Table, Script PROVE Table'
<1>1. CASE \E s \in Shapes : \E name \in GivenNames \cup {FreshName(s[1])} :
             AddBlock(s[1], s[2], s[3], name)
  BY <1>1, AddBlockKeepsTable
<1>2. CASE \E nameA, nameB \in Range(uniqueNames) \cup GivenNames :
             \E portA, portB \in PortNumbers : Connect(nameA, portA, nameB, portB)
  BY <1>2, ConnectKeepsTable
<1>3. QED
  BY <1>1, <1>2 DEF Script

\* The table follows the script, the calls follow the table.
LEMMA AskedStep == ASSUME ReaderInv, AskedInv, [ProgramNext]_allVars PROVE AskedInv'
<1>0. /\ phase' = "script" => phase = "script"
      /\ phase' \in {"connect", "undefined", "run"} =>
           phase \in {"connect", "undefined", "run"} \/ Compiles
  BY DEF ProgramNext, GenNext, Script, AddBlock, Connect, WriteCode, StartWriting,
         WriteConnection, NextBlock, FileWritten, Main, BeginMain, CallConnect,
         ConnectOutOfRange, RunGraph, allVars, genVars
<1>1. CASE Script
  <2>1. Table'
    BY <1>1, ScriptKeepsTable DEF AskedInv
  <2>2. connects = <<>> /\ connects' = <<>> /\ phase' \in {"script", "error"}
    BY <1>1 DEF Script, AddBlock, Connect, AskedInv, CallsAsked
  <2>3. Calls' = {}
    BY <2>2 DEF Calls
  <2>4. QED
    BY <2>1, <2>2, <2>3 DEF AskedInv, CallsAsked
<1>2. CASE UNCHANGED <<blocks, uniqueNames, asked>>
  <2>1. Table'
    BY <1>2 DEF AskedInv, Table, IsEntry
  <2>2. CASE WriteConnection
    BY <2>1, <2>2, CallsAskedStep DEF ReaderInv, AskedInv
  <2>3. CASE UNCHANGED connects
    BY <1>0, <1>2, <2>1, <2>3 DEF AskedInv, CallsAsked, Calls, DistinctNames, Compiles
  <2>4. QED
    BY <1>0, <1>2, <2>2, <2>3
       DEF ProgramNext, GenNext, Script, AddBlock, Connect, WriteCode, StartWriting, NextBlock,
           FileWritten, Main, BeginMain, CallConnect, ConnectOutOfRange, RunGraph, allVars, genVars
<1>3. QED
  BY <1>1, <1>2
     DEF ProgramNext, GenNext, WriteCode, StartWriting, WriteConnection, NextBlock, FileWritten,
         Main, BeginMain, CallConnect, ConnectOutOfRange, RunGraph, Launch, allVars, genVars

LEMMA AskedInit == ProgramInit => AskedInv
  BY EmptySeq DEF ProgramInit, GenInit, AskedInv, Table, CallsAsked, Calls

\* Whatever a script does whose names differ, the program written for it makes
\* no connection that the script did not ask for.
THEOREM NothingInvented == ProgramSpec => []NoneInvented
<1>1. ReaderInv /\ AskedInv /\ [ProgramNext]_allVars => (ReaderInv /\ AskedInv)'
  BY ReaderStep, AskedStep
<1>2. QED
  BY ReaderInit, AskedInit, AskedIsSafe, <1>1, PTL DEF ProgramSpec

-----------------------------------------------------------------------------
(* Every connection is made.                                               *)

\* No other connection takes the output port of c; none takes either port.
OwnOutput(c) == \A d \in asked \ {c} : <<d[1], d[2]>> # <<c[1], c[2]>>
OwnPorts(c)  ==
  \A d \in asked \ {c} : <<d[1], d[2]>> # <<c[1], c[2]>> /\ <<d[3], d[4]>> # <<c[3], c[4]>>

\* What was asked for, and nobody else's port was, is in the table.
InTable(c) ==
  /\ c = <<c[1], c[2], c[3], c[4]>>
  /\ c[1] \in DOMAIN blocks /\ c[2] \in Nat /\ c[3] \in DOMAIN uniqueNames
  /\ OwnOutput(c) =>
       /\ c[2] + 1 \in DOMAIN blocks[c[1]].atout
       /\ blocks[c[1]].atout[c[2] + 1] = <<uniqueNames[c[3]], c[4]>>

AllInTable ==
  /\ Len(blocks) = Len(uniqueNames)
  /\ \A c \in asked : InTable(c)

\* WriteCode has been at the entry of c.
Visited(c) == c[1] < wb \/ (c[1] = wb /\ c[2] + 1 < wc)

\* Where it has been, there is a call.
AllCalled ==
  /\ phase = "script" => wb = 1 /\ wc = 1
  /\ phase \in {"written", "connect", "undefined", "run"} => wb > Len(blocks)
  /\ DistinctNames =>
       \A c \in asked : OwnOutput(c) /\ Visited(c) => \E k \in Calls : connects[k] = c

\* A call that has been made has its effect, and no later one undoes it.
Connected(c) ==
  /\ <<c[1], c[2]>> \in OutPorts /\ <<c[3], c[4]>> \in DOMAIN inputQueue
  /\ inputQueue[<<c[3], c[4]>>] = <<"out", c[1], c[2]>>

AllConnected ==
  /\ phase \in {"connect", "run"} => call \in Nat /\ DOMAIN inputQueue = InPorts
  /\ phase = "run" => call > Len(connects)
  /\ phase \in {"connect", "run"} /\ DistinctNames =>
       \A c \in asked : \A k \in Calls :
         OwnPorts(c) /\ k < call /\ connects[k] = c => Connected(c)

MadeInv == AllInTable /\ AllCalled /\ AllConnected

LEMMA MaxIsAbove ==
  ASSUME NEW x \in Nat, NEW y \in Nat
  PROVE  Max({x, y}) >= x /\ Max({x, y}) >= y
<1>1. \E z \in {x, y} : \A w \in {x, y} : z >= w
  OBVIOUS
<1>2. QED
  BY <1>1 DEF Max

\* The entry is where it was put, and the others stay.
LEMMA SetCellSets ==
  ASSUME NEW list, IsList(list), NEW i \in Nat \ {0}, NEW entry
  PROVE  /\ i \in DOMAIN SetCell(list, i, entry) /\ SetCell(list, i, entry)[i] = entry
         /\ \A j \in DOMAIN list :
              /\ j \in DOMAIN SetCell(list, i, entry)
              /\ j # i => SetCell(list, i, entry)[j] = list[j]
<1> DEFINE m == Max({i, Len(list)})
<1>1. PICK l \in Nat : l = Len(list) /\ DOMAIN list = 1 .. l
  BY DEF IsList
<1>2. m \in Nat /\ m >= i /\ m >= l
  BY <1>1, MaxOfTwo, MaxIsAbove
<1> HIDE DEF m
<1>3. SetCell(list, i, entry) =
        [j \in 1 .. m |-> IF j = i THEN entry ELSE IF j <= l THEN list[j] ELSE Gap]
  BY <1>1 DEF SetCell, m
<1>4. QED
  BY <1>1, <1>2, <1>3

\* A program that runs has come past every call, and every entry.
LEMMA MadeIsAsAsked == ReaderInv /\ AskedInv /\ MadeInv => AsAsked
<1> SUFFICES ASSUME ReaderInv, AskedInv, MadeInv, phase = "run", DistinctNames,
                    NEW c \in asked, OwnPorts(c)
             PROVE  inputQueue[<<c[3], c[4]>>] = OutputQueue[<<c[1], c[2]>>]
  BY DEF AsAsked, OwnPorts
<1>1. InTable(c) /\ OwnOutput(c)
  BY DEF MadeInv, AllInTable, OwnPorts, OwnOutput
<1>2. Visited(c)
  <2>1. Len(blocks) \in Nat /\ DOMAIN blocks = 1 .. Len(blocks)
    BY LenProperties DEF AskedInv, Table
  <2>2. c[1] \in 1 .. Len(blocks)
    BY <1>1, <2>1 DEF InTable
  <2>3. wb > Len(blocks) /\ wb \in Nat
    BY DEF MadeInv, AllCalled, ReaderInv, Written, Before
  <2>4. QED
    BY <2>1, <2>2, <2>3 DEF Visited
<1>3. PICK k \in Calls : connects[k] = c
  BY <1>1, <1>2 DEF MadeInv, AllCalled
<1>4. k < call
  <2>1. Len(connects) \in Nat
    BY LenProperties DEF ReaderInv, Written, Listed
  <2>2. call > Len(connects)
    BY DEF MadeInv, AllConnected
  <2>3. call \in Nat
    BY DEF MadeInv, AllConnected
  <2>4. QED
    BY <2>1, <2>2, <2>3 DEF Calls
<1>5. Connected(c)
  BY <1>3, <1>4 DEF MadeInv, AllConnected
<1>6. QED
  BY <1>5 DEF Connected, OutputQueue, W!NewOutputQueues

-----------------------------------------------------------------------------
(* The table holds what was asked for.                                     *)

LEMMA AddBlockInTable ==
  ASSUME Table, AllInTable, NEW s \in Shapes, NEW name, AddBlock(s[1], s[2], s[3], name)
  PROVE  AllInTable'
<1> DEFINE new == [name |-> s[1], inports |-> s[2], outports |-> s[3],
                   atout |-> [c \in 1 .. s[3] |-> Unset]]
<1>1. blocks' = Append(blocks, new) /\ uniqueNames' = Append(uniqueNames, name) /\ asked' = asked
  BY DEF AddBlock
<1> HIDE DEF new
<1>2. PICK S : blocks \in Seq(S)
  BY DEF Table
<1>3. PICK U : uniqueNames \in Seq(U)
  BY DEF Table
<1>4. blocks \in Seq(S \cup {new}) /\ uniqueNames \in Seq(U \cup {name})
  BY <1>2, <1>3, SeqMonotonic
<1>5. /\ Len(blocks') = Len(blocks) + 1
      /\ \A k \in DOMAIN blocks : k \in DOMAIN blocks' /\ blocks'[k] = blocks[k]
  BY <1>1, <1>4
<1>6. /\ Len(uniqueNames') = Len(uniqueNames) + 1
      /\ \A k \in DOMAIN uniqueNames : k \in DOMAIN uniqueNames' /\ uniqueNames'[k] = uniqueNames[k]
  BY <1>1, <1>4
<1>7. ASSUME NEW c \in asked PROVE InTable(c)'
  <2>1. InTable(c)
    BY DEF AllInTable
  <2>2. OwnOutput(c)' <=> OwnOutput(c)
    BY <1>1 DEF OwnOutput
  <2>3. QED
    BY <2>1, <2>2, <1>5, <1>6 DEF InTable
<1>8. QED
  BY <1>1, <1>5, <1>6, <1>7 DEF AllInTable

\* A connection between existing blocks overwrites the entry of its output port
\* and no other.
LEMMA EntryInTable ==
  ASSUME Table, AllInTable, NEW out \in DOMAIN blocks, NEW in \in DOMAIN uniqueNames,
         NEW portA \in PortNumbers, NEW portB,
         blocks' = [blocks EXCEPT ![out].atout =
                      SetCell(@, portA + 1, <<uniqueNames[in], portB>>)],
         asked' = asked \cup {<<out, portA, in, portB>>},
         uniqueNames' = uniqueNames
  PROVE  AllInTable'
<1> DEFINE e     == <<out, portA, in, portB>>
           new   == <<uniqueNames[in], portB>>
           cells == SetCell(blocks[out].atout, portA + 1, new)
<1>1. blocks' = [blocks EXCEPT ![out].atout = cells]
  OBVIOUS
<1>2. portA \in Nat /\ portA + 1 \in Nat \ {0}
  BY GeneratorAssumption DEF GeneratorAssumption
<1>3. "atout" \in DOMAIN blocks[out] /\ IsList(blocks[out].atout)
  BY DEF Table
<1>4. /\ portA + 1 \in DOMAIN cells /\ cells[portA + 1] = new
      /\ \A j \in DOMAIN blocks[out].atout :
           j \in DOMAIN cells /\ (j # portA + 1 => cells[j] = blocks[out].atout[j])
  BY <1>2, <1>3, SetCellSets
<1>5. e[1] = out /\ e[2] = portA /\ e[3] = in /\ e[4] = portB /\ e = <<e[1], e[2], e[3], e[4]>>
  OBVIOUS
<1> HIDE DEF cells, e
<1>6. DOMAIN blocks' = DOMAIN blocks /\ Len(blocks') = Len(blocks)
  <2>1. DOMAIN blocks' = DOMAIN blocks
    BY <1>1
  <2>2. PICK S : blocks \in Seq(S)
    BY DEF Table
  <2>3. Len(blocks) \in Nat /\ DOMAIN blocks = 1 .. Len(blocks)
    BY <2>2
  <2>4. QED
    BY <2>1, <2>3, LenProperties
<1>7. blocks'[out].atout = cells
  BY <1>1, <1>3
<1>8. ASSUME NEW k \in DOMAIN blocks, k # out PROVE blocks'[k] = blocks[k]
  BY <1>1, <1>8
<1>9. asked' = asked \cup {e}
  BY DEF e
<1>10. ASSUME NEW c \in asked' PROVE InTable(c)'
  <2>1. CASE c = e
    <3>1. blocks'[c[1]].atout[c[2] + 1] = <<uniqueNames'[c[3]], c[4]>>
      BY <2>1, <1>4, <1>5, <1>7 DEF new
    <3>2. c[2] + 1 \in DOMAIN blocks'[c[1]].atout
      BY <2>1, <1>4, <1>5, <1>7
    <3>3. /\ c = <<c[1], c[2], c[3], c[4]>>
          /\ c[1] \in DOMAIN blocks' /\ c[2] \in Nat /\ c[3] \in DOMAIN uniqueNames'
      BY <2>1, <1>2, <1>5, <1>6
    <3>4. QED
      BY <3>1, <3>2, <3>3 DEF InTable
  <2>2. CASE c # e
    <3>1. c \in asked /\ InTable(c)
      BY <2>2, <1>9 DEF AllInTable
    <3>2. ASSUME OwnOutput(c)'
          PROVE  /\ c[2] + 1 \in DOMAIN blocks'[c[1]].atout
                 /\ blocks'[c[1]].atout[c[2] + 1] = <<uniqueNames'[c[3]], c[4]>>
      <4>1. OwnOutput(c)
        BY <3>2, <1>9 DEF OwnOutput
      <4>2. <<e[1], e[2]>> # <<c[1], c[2]>>
        BY <2>2, <3>2, <1>9 DEF OwnOutput
      <4>3. c[1] # out \/ c[2] # portA
        BY <4>2, <1>5
      <4>4. /\ c[1] \in DOMAIN blocks /\ c[2] \in Nat
            /\ c[2] + 1 \in DOMAIN blocks[c[1]].atout
            /\ blocks[c[1]].atout[c[2] + 1] = <<uniqueNames[c[3]], c[4]>>
        BY <3>1, <4>1 DEF InTable
      <4>5. CASE c[1] # out
        <5>1. blocks'[c[1]] = blocks[c[1]]
          BY <4>4, <4>5, <1>8
        <5>2. QED
          BY <4>4, <5>1
      <4>6. CASE c[1] = out
        <5>1. c[2] + 1 # portA + 1
          BY <4>3, <4>4, <4>6, <1>2
        <5>2. QED
          BY <4>4, <4>6, <5>1, <1>4, <1>7
      <4>7. QED
        BY <4>5, <4>6
    <3>3. QED
      BY <3>1, <3>2, <1>6 DEF InTable
  <2>3. QED
    BY <2>1, <2>2
<1>11. QED
  BY <1>6, <1>10 DEF AllInTable

LEMMA ConnectInTable ==
  ASSUME Table, AllInTable, NEW nameA, NEW nameB, NEW portA \in PortNumbers, NEW portB,
         Connect(nameA, portA, nameB, portB)
  PROVE  AllInTable'
<1>1. CASE UNCHANGED <<blocks, uniqueNames, asked>>
  BY <1>1 DEF AllInTable, InTable, OwnOutput
<1>2. ASSUME NEW out, NEW in, out = LastNamed(nameA, 0), in = LastNamed(nameB, out),
             out # 0, in # 0,
             blocks' = [blocks EXCEPT ![out].atout = SetCell(@, portA + 1, <<nameB, portB>>)],
             asked' = asked \cup {<<out, portA, in, portB>>}
      PROVE  AllInTable'
  <2>1. in \in DOMAIN uniqueNames /\ uniqueNames[in] = nameB /\ out \in DOMAIN uniqueNames
    BY <1>2, LastNamedHasName DEF Table
  <2>2. uniqueNames' = uniqueNames
    BY DEF Connect
  <2>3. DOMAIN blocks = DOMAIN uniqueNames
    <3>1. PICK S, U : blocks \in Seq(S) /\ uniqueNames \in Seq(U)
      BY DEF Table
    <3>2. QED
      BY <3>1 DEF AllInTable
  <2>4. QED
    BY <1>2, <2>1, <2>2, <2>3, EntryInTable
<1>3. QED
  BY <1>1, <1>2 DEF Connect

LEMMA InTableStep ==
  ASSUME Table, AllInTable, [ProgramNext]_allVars
  PROVE  AllInTable'
<1>1. CASE Script
  <2>1. CASE \E s \in Shapes : \E name \in GivenNames \cup {FreshName(s[1])} :
               AddBlock(s[1], s[2], s[3], name)
    BY <2>1, AddBlockInTable
  <2>2. CASE \E nameA, nameB \in Range(uniqueNames) \cup GivenNames :
               \E portA, portB \in PortNumbers : Connect(nameA, portA, nameB, portB)
    BY <2>2, ConnectInTable
  <2>3. QED
    BY <1>1, <2>1, <2>2 DEF Script
<1>2. CASE UNCHANGED <<blocks, uniqueNames, asked>>
  BY <1>2 DEF AllInTable, InTable, OwnOutput
<1>3. QED
  BY <1>1, <1>2
     DEF ProgramNext, GenNext, WriteCode, StartWriting, WriteConnection, NextBlock, FileWritten,
         Main, BeginMain, CallConnect, ConnectOutOfRange, RunGraph, Launch, allVars, genVars

-----------------------------------------------------------------------------
(* WriteCode writes a call for every entry.                                *)

\* A list of calls with one more.
LEMMA OneCallMore ==
  ASSUME Listed, NEW e, connects' = Append(connects, e)
  PROVE  /\ \A k \in Calls : k \in Calls' /\ connects'[k] = connects[k]
         /\ \E k \in Calls' : connects'[k] = e
<1>1. PICK S : connects \in Seq(S)
  BY DEF Listed
<1>2. connects \in Seq(S \cup {e})
  BY <1>1, SeqMonotonic
<1>3. /\ Len(connects) \in Nat /\ Len(connects') = Len(connects) + 1
      /\ \A k \in Calls : connects'[k] = connects[k]
      /\ connects'[Len(connects) + 1] = e
  BY <1>2 DEF Calls
<1>4. Calls' = Calls \cup {Len(connects) + 1}
  BY <1>3 DEF Calls
<1>5. QED
  BY <1>3, <1>4

LEMMA CalledStep ==
  ASSUME Written, Table, AllInTable, AllCalled, [ProgramNext]_allVars
  PROVE  AllCalled'
<1>0. /\ Len(blocks) \in Nat /\ DOMAIN blocks = 1 .. Len(blocks)
      /\ wb \in Nat \ {0} /\ wc \in Nat \ {0} /\ Len(uniqueNames) \in Nat
      /\ DOMAIN uniqueNames = 1 .. Len(uniqueNames)
  <2>1. PICK S, U : blocks \in Seq(S) /\ uniqueNames \in Seq(U)
    BY DEF Table
  <2>2. QED
    BY <2>1 DEF Written, Before
<1>1. CASE Script
  <2>1. /\ phase = "script" /\ phase' \in {"script", "error"}
        /\ UNCHANGED <<wb, wc, connects>>
    BY <1>1 DEF Script, AddBlock, Connect
  <2>2. wb' = 1 /\ wc' = 1
    BY <2>1 DEF AllCalled
  <2>3. AllInTable'
    BY <1>1, InTableStep
  <2>4. \A c \in asked' : ~ Visited(c)'
    <3> SUFFICES ASSUME NEW c \in asked' PROVE ~ Visited(c)'
      OBVIOUS
    <3>1. c[1] \in DOMAIN blocks' /\ c[2] \in Nat
      BY <2>3 DEF AllInTable, InTable
    <3>2. c[1] \in Nat \ {0}
      <4>1. Table'
        BY <1>1, ScriptKeepsTable
      <4>2. QED
        BY <3>1, <4>1, LenProperties DEF Table
    <3>3. QED
      BY <2>2, <3>1, <3>2 DEF Visited
  <2>5. QED
    BY <2>1, <2>2, <2>4 DEF AllCalled
<1>2. CASE WriteConnection
  <2>1. /\ UNCHANGED <<blocks, uniqueNames, wb, asked>> /\ phase = "write"
        /\ phase' \in {"write", "error"}
        /\ wb <= Len(blocks) /\ wc <= Len(blocks[wb].atout)
    BY <1>2 DEF WriteConnection
  <2>2. /\ DistinctNames' <=> DistinctNames
        /\ \A c : OwnOutput(c)' <=> OwnOutput(c)
    BY <2>1 DEF DistinctNames, OwnOutput
  <2>3. CASE UNCHANGED <<wc, connects>>
    BY <2>1, <2>2, <2>3 DEF AllCalled, Visited, Calls
  <2>4. ASSUME NEW ct, ct = blocks[wb].atout[wc], NEW to,
               to = IF Found(ct[1]) = 0 THEN connected2 ELSE Found(ct[1]),
               connects' = Append(connects, <<wb, wc - 1, to, ct[2]>>), wc' = wc + 1
        PROVE  AllCalled'
    <3> DEFINE new == <<wb, wc - 1, to, ct[2]>>
    <3>1. /\ \A k \in Calls : k \in Calls' /\ connects'[k] = connects[k]
          /\ \E k \in Calls' : connects'[k] = new
      BY <2>4, OneCallMore DEF Written
    <3>2. ASSUME DistinctNames, NEW c \in asked, OwnOutput(c), Visited(c)'
          PROVE  \E k \in Calls' : connects'[k] = c
      <4>1. InTable(c)
        BY DEF AllInTable
      <4>2. c[1] \in Nat /\ c[2] \in Nat
        BY <4>1, <1>0 DEF InTable
      <4>3. Visited(c) \/ (c[1] = wb /\ c[2] = wc - 1)
        BY <1>0, <2>1, <2>4, <3>2, <4>2 DEF Visited
      <4>4. CASE Visited(c)
        BY <3>1, <3>2, <4>4 DEF AllCalled
      <4>5. CASE c[1] = wb /\ c[2] = wc - 1
        <5>1. c[2] + 1 = wc
          BY <1>0, <4>5
        <5>2. ct = <<uniqueNames[c[3]], c[4]>> /\ c[3] \in DOMAIN uniqueNames
          BY <2>4, <3>2, <4>1, <4>5, <5>1 DEF InTable
        <5>3. ct[1] = uniqueNames[c[3]] /\ ct[2] = c[4]
          BY <5>2
        <5>4. Found(ct[1]) = c[3]
          BY <3>2, <5>2, <5>3, OnlyOneNamed DEF Found, Table
        <5>5. to = c[3]
          BY <5>2, <5>4, <1>0, <2>4
        <5>6. new = <<c[1], c[2], c[3], c[4]>>
          BY <4>5, <5>3, <5>5
        <5>7. new = c
          BY <4>1, <5>6 DEF InTable
        <5>8. QED
          BY <3>1, <5>7
      <4>6. QED
        BY <4>3, <4>4, <4>5
    <3>3. QED
      BY <2>1, <2>2, <3>2 DEF AllCalled
  <2>5. QED
    BY <1>2, <2>3, <2>4 DEF WriteConnection
<1>3. CASE NextBlock
  <2>1. /\ UNCHANGED <<blocks, uniqueNames, asked, connects, phase>> /\ phase = "write"
        /\ wb <= Len(blocks) /\ wc > Len(blocks[wb].atout) /\ wb' = wb + 1 /\ wc' = 1
    BY <1>3 DEF NextBlock
  <2>2. /\ DistinctNames' <=> DistinctNames
        /\ \A c : OwnOutput(c)' <=> OwnOutput(c)
    BY <2>1 DEF DistinctNames, OwnOutput
  <2>3. ASSUME NEW c \in asked, OwnOutput(c), Visited(c)' PROVE Visited(c)
    <3>1. InTable(c)
      BY DEF AllInTable
    <3>2. c[1] \in Nat /\ c[2] \in Nat /\ c[1] \in DOMAIN blocks
      BY <3>1, <1>0 DEF InTable
    <3>3. CASE c[1] < wb
      BY <3>3 DEF Visited
    <3>4. CASE ~(c[1] < wb)
      <4>1. c[1] = wb
        BY <1>0, <2>1, <2>3, <3>2, <3>4 DEF Visited
      <4>2. c[2] + 1 \in DOMAIN blocks[wb].atout
        BY <2>3, <3>1, <4>1 DEF InTable
      <4>3. IsList(blocks[wb].atout)
        BY <3>2, <4>1 DEF Table
      <4>4. c[2] + 1 < wc
        BY <1>0, <2>1, <3>2, <4>2, <4>3 DEF IsList
      <4>5. QED
        BY <4>1, <4>4 DEF Visited
    <3>5. QED
      BY <3>3, <3>4
  <2>4. QED
    BY <2>1, <2>2, <2>3 DEF AllCalled, Calls
<1>4. CASE UNCHANGED <<blocks, uniqueNames, asked, connects, wb, wc>> /\ ~WriteConnection /\ ~Script
  <2>1. /\ phase' = "script" => phase = "script"
        /\ phase' \in {"written", "connect", "undefined", "run"} =>
             phase \in {"written", "connect", "undefined", "run"} \/ wb > Len(blocks)
    BY <1>4 DEF ProgramNext, GenNext, WriteCode, StartWriting, NextBlock, FileWritten, Main,
                BeginMain, CallConnect, ConnectOutOfRange, RunGraph, allVars, genVars
  <2>2. QED
    BY <1>4, <2>1 DEF AllCalled, Visited, OwnOutput, DistinctNames, Calls
<1>5. QED
  BY <1>1, <1>2, <1>3, <1>4
     DEF ProgramNext, GenNext, WriteCode, StartWriting, FileWritten, Main, BeginMain, CallConnect,
         ConnectOutOfRange, RunGraph, Launch, allVars, genVars

-----------------------------------------------------------------------------
(* The main program makes every call, and none undoes another.             *)

LEMMA ConnectedStep ==
  ASSUME ReaderInv, AskedInv, AllInTable, AllConnected, [ProgramNext]_allVars
  PROVE  AllConnected'
<1>1. CASE CallConnect
  <2> DEFINE e == connects[call]
  <2>1. /\ UNCHANGED <<blocks, uniqueNames, asked, connects, phase>> /\ phase = "connect"
        /\ call \in Nat \ {0} /\ call <= Len(connects) /\ call' = call + 1
        /\ <<e[1], e[2]>> \in OutPorts /\ <<e[3], e[4]>> \in InPorts
    BY <1>1 DEF CallConnect, genVars, InRange, ReaderInv, Wired
  <2>2. inputQueue' = [inputQueue EXCEPT ![<<e[3], e[4]>>] = <<"out", e[1], e[2]>>]
    BY <1>1, <2>1 DEF CallConnect, W!Connect, OutputQueue, W!NewOutputQueues
  <2>3. /\ DistinctNames' <=> DistinctNames
        /\ \A c : OwnPorts(c)' <=> OwnPorts(c)
        /\ OutPorts' = OutPorts /\ InPorts' = InPorts /\ Calls' = Calls
    BY <2>1 DEF DistinctNames, OwnPorts, OutPorts, Outports, InPorts, Inports, Calls
  <2>4. DOMAIN inputQueue = InPorts /\ call \in Calls
    BY <2>1 DEF AllConnected, Calls, ReaderInv, Written, Listed
  <2>5. ASSUME DistinctNames, NEW c \in asked, NEW k \in Calls, OwnPorts(c), k < call',
               connects[k] = c
        PROVE  Connected(c)'
    <3>1. CASE k = call
      <4>1. c = e
        BY <3>1, <2>5
      <4>2. QED
        BY <4>1, <2>1, <2>2, <2>3, <2>4 DEF Connected
    <3>2. CASE k # call
      <4>1. k < call
        BY <3>2, <2>1, <2>5 DEF Calls
      <4>2. Connected(c)
        BY <4>1, <2>1, <2>5 DEF AllConnected
      <4>3. CASE <<c[3], c[4]>> # <<e[3], e[4]>>
        BY <4>2, <4>3, <2>2, <2>3 DEF Connected
      <4>4. CASE <<c[3], c[4]>> = <<e[3], e[4]>>
        <5> DEFINE d == <<e[1], e[2], e[3], e[4]>>
        <5>1. e[4] # NoNumber
          <6>1. Compiles
            BY <2>1 DEF AskedInv, CallsAsked
          <6>2. e \in Range(connects)
            BY <2>4 DEF ReaderInv, Written, Listed, Calls, Range
          <6>3. QED
            BY <6>1, <6>2 DEF Compiles
        <5>2. d \in asked
          BY <2>4, <2>5, <5>1 DEF AskedInv, CallsAsked
        <5>3. d[3] = e[3] /\ d[4] = e[4] /\ d[1] = e[1] /\ d[2] = e[2]
          OBVIOUS
        <5> HIDE DEF d
        <5>4. d = c
          BY <2>5, <4>4, <5>2, <5>3 DEF OwnPorts
        <5>5. e[1] = c[1] /\ e[2] = c[2]
          BY <5>3, <5>4
        <5>6. QED
          BY <4>2, <4>4, <5>5, <2>2, <2>3 DEF Connected
      <4>5. QED
        BY <4>3, <4>4
    <3>3. QED
      BY <3>1, <3>2
  <2>6. phase' = "connect" /\ call' \in Nat /\ DOMAIN inputQueue' = InPorts'
    BY <2>1, <2>2, <2>3, <2>4
  <2>7. QED
    BY <2>1, <2>3, <2>5, <2>6 DEF AllConnected
<1>2. CASE BeginMain
  <2>1. call' = 1 /\ phase' = "connect" /\ UNCHANGED <<blocks, connects>>
    BY <1>2 DEF BeginMain
  <2>2. DOMAIN inputQueue' = InPorts /\ InPorts' = InPorts
    BY <1>2, <2>1 DEF BeginMain, W!NewInputQueues, InPorts, Inports
  <2>3. \A k \in Calls' : ~(k < call')
    BY <2>1 DEF Calls, ReaderInv, Written, Listed
  <2>4. QED
    BY <2>1, <2>2, <2>3 DEF AllConnected
<1>3. CASE RunGraph
  <2>1. /\ UNCHANGED <<blocks, uniqueNames, asked, connects, call, inputQueue>>
        /\ phase = "connect" /\ call > Len(connects) /\ phase' = "run"
    BY <1>3 DEF RunGraph, programVars
  <2>2. QED
    BY <2>1 DEF AllConnected, Connected, OwnPorts, DistinctNames, Calls, OutPorts, InPorts,
                Outports, Inports
<1>4. CASE phase' \notin {"connect", "run"}
  BY <1>4 DEF AllConnected
<1>5. CASE UNCHANGED <<genVars, programVars>>
  BY <1>5 DEF AllConnected, Connected, OwnPorts, DistinctNames, Calls, OutPorts, InPorts,
              Outports, Inports, genVars, programVars
<1>6. QED
  BY <1>1, <1>2, <1>3, <1>4, <1>5
     DEF ProgramNext, GenNext, Script, AddBlock, Connect, WriteCode, StartWriting,
         WriteConnection, NextBlock, FileWritten, Main, ConnectOutOfRange, Launch, allVars

LEMMA MadeInit == ProgramInit => MadeInv
<1> SUFFICES ASSUME ProgramInit PROVE MadeInv
  OBVIOUS
<1>1. /\ asked = {} /\ phase = "script" /\ wb = 1 /\ wc = 1
      /\ blocks = <<>> /\ uniqueNames = <<>>
  BY DEF ProgramInit, GenInit
<1>2. QED
  BY <1>1 DEF MadeInv, AllInTable, AllCalled, AllConnected

\* Whatever a script does whose names differ: once its program runs, every
\* connection asked for has been made, unless another one took one of its ports.
THEOREM EverythingConnected == ProgramSpec => []AsAsked
<1>1. ReaderInv /\ AskedInv /\ MadeInv /\ [ProgramNext]_allVars =>
        (ReaderInv /\ AskedInv /\ MadeInv)'
  BY ReaderStep, AskedStep, InTableStep, CalledStep, ConnectedStep
     DEF MadeInv, ReaderInv, AskedInv
<1>2. QED
  BY ReaderInit, AskedInit, MadeInit, MadeIsAsAsked, <1>1, PTL DEF ProgramSpec
=============================================================================
