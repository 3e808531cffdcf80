---------------------------- MODULE LaunchProofs ----------------------------
(***************************************************************************)
(* Which threads Graph::run starts, for generated graphs of any size.      *)
(***************************************************************************)
EXTENDS GeneratedProgramProofs

-----------------------------------------------------------------------------
(* Sources and Sinks hold the names with their label and no others.        *)

\* f is the list of the names of that kind, as it grows with each of the
\* first m constructors.
Grows(f, kind, m) ==
  f = [k \in 0 .. m |->
         IF k = 0 THEN <<>>
         ELSE IF names[k][2] = kind THEN Append(f[k - 1], names[k]) ELSE f[k - 1]]

LEMMA GrowsAt ==
  ASSUME NEW f, NEW kind, NEW m, Grows(f, kind, m), NEW k \in 0 .. m
  PROVE  f[k] = IF k = 0 THEN <<>>
                ELSE IF names[k][2] = kind THEN Append(f[k - 1], names[k]) ELSE f[k - 1]
  BY Zenon DEF Grows

LEMMA GrowsExists ==
  ASSUME NEW kind, NEW m \in Nat
  PROVE  \E f : Grows(f, kind, m)
<1> DEFINE D == {x \in Nat : ~ \E f : Grows(f, kind, x)}
<1>1. ASSUME NEW x \in D PROVE \E y \in D : y < x
  <2>1. CASE x = 0
    <3> DEFINE f == [k \in {0} |-> <<>>]
    <3>1. 0 .. x = {0}
      BY <2>1
    <3>2. f = [k \in 0 .. x |->
                 IF k = 0 THEN <<>>
                 ELSE IF names[k][2] = kind THEN Append(f[k - 1], names[k]) ELSE f[k - 1]]
      BY <3>1
    <3>3. QED
      BY <3>2 DEF Grows
  <2>2. CASE x # 0
    <3>1. x - 1 \in Nat /\ x - 1 < x
      BY <2>2
    <3>2. CASE \E f : Grows(f, kind, x - 1)
      <4>1. PICK f : Grows(f, kind, x - 1)
        BY <3>2
      <4> DEFINE g == [k \in 0 .. x |->
                         IF k = 0 THEN <<>>
                         ELSE IF names[k][2] = kind THEN Append(f[k - 1], names[k]) ELSE f[k - 1]]
      <4>2. \A k \in 0 .. x - 1 : g[k] = f[k]
        <5>1. ASSUME NEW k \in 0 .. x - 1
              PROVE  /\ k \in 0 .. x
                     /\ f[k] = IF k = 0 THEN <<>>
                               ELSE IF names[k][2] = kind THEN Append(f[k - 1], names[k]) ELSE f[k - 1]
          BY <3>1, <4>1, GrowsAt
        <5>2. QED
          BY <5>1
      <4>3. \A k \in 0 .. x : k # 0 => g[k - 1] = f[k - 1]
        <5>1. \A k \in 0 .. x : k # 0 => k - 1 \in 0 .. x - 1
          BY <3>1
        <5> HIDE DEF g
        <5>2. QED
          BY <5>1, <4>2
      <4>4. g = [k \in 0 .. x |->
                   IF k = 0 THEN <<>>
                   ELSE IF names[k][2] = kind THEN Append(g[k - 1], names[k]) ELSE g[k - 1]]
        BY <4>3
      <4>5. QED
        BY <4>4 DEF Grows
    <3>3. QED
      BY <3>1, <3>2
  <2>3. QED
    BY <2>1, <2>2
<1>2. D = {}
  <2>1. D \subseteq Nat
    OBVIOUS
  <2> HIDE DEF D
  <2>2. SUFFICES ASSUME D # {} PROVE FALSE
    OBVIOUS
  <2>3. PICK x \in D : \A y \in D : x <= y
    BY <2>1, <2>2, LeastNumber
  <2>4. PICK y \in D : y < x
    BY <1>1
  <2>5. QED
    BY <2>1, <2>3, <2>4
<1>3. QED
  BY <1>2

\* What the list holds after k constructors.
Lists(s, kind, k) ==
  /\ \E S : s \in Seq(S)
  /\ \A m \in DOMAIN s : s[m][2] = kind /\ \E j \in 1 .. k : s[m] = names[j]
  /\ \A j \in 1 .. k : names[j][2] = kind => \E m \in DOMAIN s : s[m] = names[j]

LEMMA AppendLists ==
  ASSUME NEW s, NEW kind, NEW k \in Nat, Lists(s, kind, k), names[k + 1][2] = kind
  PROVE  Lists(Append(s, names[k + 1]), kind, k + 1)
<1> DEFINE e == names[k + 1]
<1>1. PICK S : s \in Seq(S)
  BY DEF Lists
<1> HIDE DEF e
<1>2. s \in Seq(S \cup {e})
  BY <1>1, SeqMonotonic
<1>3. /\ Append(s, e) \in Seq(S \cup {e})
      /\ Len(s) \in Nat
      /\ DOMAIN s = 1 .. Len(s)
      /\ DOMAIN Append(s, e) = 1 .. Len(s) + 1
      /\ \A m \in DOMAIN s : Append(s, e)[m] = s[m]
      /\ Append(s, e)[Len(s) + 1] = e
  BY <1>2
<1>4. ASSUME NEW m \in DOMAIN Append(s, e)
      PROVE  /\ Append(s, e)[m][2] = kind
             /\ \E j \in 1 .. k + 1 : Append(s, e)[m] = names[j]
  <2>1. CASE m = Len(s) + 1
    BY <2>1, <1>3 DEF e
  <2>2. CASE m \in DOMAIN s
    BY <2>2, <1>3 DEF Lists
  <2>3. QED
    BY <2>1, <2>2, <1>3
<1>5. ASSUME NEW j \in 1 .. k + 1, names[j][2] = kind
      PROVE  \E m \in DOMAIN Append(s, e) : Append(s, e)[m] = names[j]
  <2>1. CASE j = k + 1
    BY <2>1, <1>3 DEF e
  <2>2. CASE j \in 1 .. k
    <3>1. PICK m \in DOMAIN s : s[m] = names[j]
      BY <2>2, <1>5 DEF Lists
    <3>2. m \in DOMAIN Append(s, e) /\ Append(s, e)[m] = names[j]
      BY <3>1, <1>3
    <3>3. QED
      BY <3>2
  <2>3. QED
    BY <2>1, <2>2
<1>6. QED
  BY <1>3, <1>4, <1>5 DEF Lists, e

LEMMA LabelledLists ==
  ASSUME NEW S, names \in Seq(S), NEW kind
  PROVE  Lists(Labelled(kind), kind, Len(names))
<1> DEFINE f == CHOOSE f : Grows(f, kind, Len(names))
<1>0. Len(names) \in Nat
  BY LenProperties
<1>1. Labelled(kind) = f[Len(names)]
  BY DEF Labelled, Grows
<1>2. Grows(f, kind, Len(names))
  BY <1>0, GrowsExists
<1> HIDE DEF f
<1> DEFINE D == {x \in 0 .. Len(names) : ~ Lists(f[x], kind, x)}
<1>3. ASSUME NEW x \in D PROVE \E y \in D : y < x
  <2>0. x \in 0 .. Len(names)
    OBVIOUS
  <2>1. f[x] = IF x = 0 THEN <<>>
               ELSE IF names[x][2] = kind THEN Append(f[x - 1], names[x]) ELSE f[x - 1]
    BY <1>2, <2>0, GrowsAt
  <2>2. CASE x = 0
    <3>1. f[x] = <<>> /\ \A S1 : <<>> \in Seq(S1)
      BY <2>1, <2>2
    <3>2. Lists(<<>>, kind, 0)
      BY <3>1 DEF Lists
    <3>3. QED
      BY <3>1, <3>2, <2>2
  <2>3. CASE x # 0
    <3>1. x - 1 \in 0 .. Len(names) /\ x - 1 < x /\ x - 1 \in Nat /\ (x - 1) + 1 = x
      BY <2>0, <2>3, <1>0
    <3>2. CASE Lists(f[x - 1], kind, x - 1)
      <4>1. CASE names[x][2] = kind
        <5>1. f[x] = Append(f[x - 1], names[x])
          BY <2>1, <2>3, <4>1
        <5>2. Lists(f[x], kind, x)
          BY <5>1, <4>1, <3>1, <3>2, AppendLists
        <5>3. QED
          BY <5>2
      <4>2. CASE names[x][2] # kind
        <5>1. f[x] = f[x - 1]
          BY <2>1, <2>3, <4>2
        <5>2. \A j \in 1 .. x : j \in 1 .. x - 1 \/ j = x
          BY <3>1
        <5>3. Lists(f[x], kind, x)
          BY <5>1, <5>2, <4>2, <3>2 DEF Lists
        <5>4. QED
          BY <5>3
      <4>3. QED
        BY <4>1, <4>2
    <3>3. QED
      BY <3>1, <3>2
  <2>4. QED
    BY <2>2, <2>3
<1>4. D = {}
  <2>1. D \subseteq Nat
    BY <1>0
  <2> HIDE DEF D
  <2>2. SUFFICES ASSUME D # {} PROVE FALSE
    OBVIOUS
  <2>3. PICK x \in D : \A y \in D : x <= y
    BY <2>1, <2>2, LeastNumber
  <2>4. PICK y \in D : y < x
    BY <1>3
  <2>5. QED
    BY <2>1, <2>3, <2>4
<1>5. QED
  BY <1>0, <1>1, <1>4

\* What the loops need of the two lists.
LEMMA ListsOfNames ==
  ASSUME NEW S, names \in Seq(S)
  PROVE  /\ Len(Sinks) \in Nat /\ DOMAIN Sinks = 1 .. Len(Sinks)
         /\ Len(Sources) \in Nat /\ DOMAIN Sources = 1 .. Len(Sources)
         /\ \A m \in DOMAIN Sinks : Sinks[m][2] = "sink"
         /\ \A m \in DOMAIN Sources : Sources[m][2] = "source"
         /\ \A k \in Indices : names[k][2] = "sink" => \E m \in DOMAIN Sinks : Sinks[m] = names[k]
         /\ \A k \in Indices : names[k][2] = "source" => \E m \in DOMAIN Sources : Sources[m] = names[k]
<1>1. Indices = 1 .. Len(names)
  BY DEF Indices
<1>2. Lists(Sinks, "sink", Len(names)) /\ Lists(Sources, "source", Len(names))
  BY LabelledLists DEF Sinks, Sources
<1>3. PICK U : Sinks \in Seq(U)
  BY <1>2 DEF Lists
<1>4. PICK V : Sources \in Seq(V)
  BY <1>2 DEF Lists
<1>5. /\ Len(Sinks) \in Nat /\ DOMAIN Sinks = 1 .. Len(Sinks)
      /\ Len(Sources) \in Nat /\ DOMAIN Sources = 1 .. Len(Sources)
  BY <1>3, <1>4
<1>6. /\ \A m \in DOMAIN Sinks : Sinks[m][2] = "sink"
      /\ \A m \in DOMAIN Sources : Sources[m][2] = "source"
  BY <1>2 DEF Lists
<1>7. /\ \A k \in Indices : names[k][2] = "sink" => \E m \in DOMAIN Sinks : Sinks[m] = names[k]
      /\ \A k \in Indices : names[k][2] = "source" => \E m \in DOMAIN Sources : Sources[m] = names[k]
  BY <1>1, <1>2 DEF Lists
<1>8. QED
  BY <1>5, <1>6, <1>7

\* What holds of them in every state.
ListsFit ==
  (\E X : names \in Seq(X)) =>
    /\ Len(Sinks) \in Nat /\ Len(Sources) \in Nat
    /\ Indices = 1 .. Len(names) /\ Len(names) \in Nat
    /\ Sinks # <<>> => 1 <= Len(Sinks) /\ 1 <= Len(names)

LEMMA ListsAlwaysFit == ListsFit
<1> SUFFICES ASSUME NEW S, names \in Seq(S)
             PROVE  /\ Len(Sinks) \in Nat /\ Len(Sources) \in Nat
                    /\ Indices = 1 .. Len(names) /\ Len(names) \in Nat
                    /\ Sinks # <<>> => 1 <= Len(Sinks) /\ 1 <= Len(names)
  BY DEF ListsFit
<1>1. Indices = 1 .. Len(names) /\ Len(names) \in Nat
  BY DEF Indices
<1>2. Lists(Sinks, "sink", Len(names))
  BY LabelledLists DEF Sinks
<1>3. ASSUME Sinks # <<>> PROVE 1 <= Len(Sinks) /\ 1 <= Len(names)
  <2>1. PICK U : Sinks \in Seq(U)
    BY <1>2 DEF Lists
  <2>2. 1 <= Len(Sinks) /\ 1 \in DOMAIN Sinks
    BY <1>3, <2>1
  <2>3. \E j \in 1 .. Len(names) : Sinks[1] = names[j]
    BY <1>2, <2>2 DEF Lists
  <2>4. QED
    BY <1>1, <2>2, <2>3
<1>4. QED
  BY <1>1, <1>3, ListsOfNames

LEMMA SameLists == ASSUME names' = names PROVE Sinks' = Sinks /\ Sources' = Sources
  BY DEF Sinks, Sources, Labelled

-----------------------------------------------------------------------------
(* The double loops.                                                       *)

Kinds == {"source", "block", "sink"}
Loops == {"sinks", "blocks", "sources"}

\* The names are labelled, and a loop variable is within its bound.
InLoops ==
  /\ \E S : names \in Seq(S)
  /\ \A k \in Indices : names[k][2] \in Kinds
  /\ loop \in Loops \cup {"off", "sim", "crashed"}
  /\ phase # "run" => loop = "off"
  /\ loop = "off" => names = <<>> /\ b = 1 /\ n = 1
  /\ b \in Nat \ {0} /\ n \in Nat \ {0}
  /\ loop \in Loops /\ Sinks # <<>> => b \in Indices /\ n <= Len(Sinks)
  /\ loop = "crashed" => Len(Sources) < Len(Sinks)

\* In a graph with one sink and at least one source: the thread a Worker gets,
\* and whether its loop has come past it.
OneSink == Len(Sinks) = 1 /\ Len(Sources) >= 1

KindOf(k) ==
  IF names[k][2] = "sink" THEN "sink" ELSE IF names[k] = Sources[1] THEN "source" ELSE "block"

Reached(kind, k) ==
  \/ kind = "sink"   /\ ((loop = "sinks" /\ k < b) \/ loop \in {"blocks", "sources", "sim"})
  \/ kind = "block"  /\ ((loop = "blocks" /\ k < b) \/ loop \in {"sources", "sim"})
  \/ kind = "source" /\ ((loop = "sources" /\ k < b) \/ loop = "sim")

Started ==
  loop # "off" /\ OneSink =>
    /\ DOMAIN threads = Indices
    /\ \A k \in Indices : threads[k] = IF Reached(KindOf(k), k) THEN <<KindOf(k)>> ELSE <<>>

LaunchInv == InLoops /\ Started

\* Comparing with the one sink, or with the first source, tells the kind.
LEMMA OneSinkTells ==
  ASSUME InLoops, OneSink, NEW k \in Indices
  PROVE  /\ names[k] = Sinks[1] <=> KindOf(k) = "sink"
         /\ names[k] = Sources[1] <=> KindOf(k) = "source"
         /\ KindOf(k) \in Kinds
<1>1. PICK S : names \in Seq(S)
  BY DEF InLoops
<1>2. Sinks[1][2] = "sink" /\ Sources[1][2] = "source"
  BY <1>1, ListsOfNames DEF OneSink
<1>3. names[k][2] = "sink" => names[k] = Sinks[1]
  BY <1>1, ListsOfNames DEF OneSink
<1>4. QED
  BY <1>2, <1>3 DEF KindOf, Kinds

\* One round of a double loop, or its last.
LEMMA RoundKeepsInLoops ==
  ASSUME InLoops, NEW l \in Loops, InLoop(l), NEW next \in Loops \cup {"sim"}, NextRound(next),
         phase' = phase
  PROVE  /\ InLoops'
         /\ OneSink => IF b < Len(names) THEN b' = b + 1 /\ loop' = loop
                       ELSE b' = 1 /\ loop' = next
<1>1. PICK S : names \in Seq(S)
  BY DEF InLoops
<1>2. Len(names) \in Nat /\ Len(Sinks) \in Nat /\ Indices = 1 .. Len(names)
  BY <1>1, ListsOfNames DEF Indices
<1>3. names' = names /\ Sinks' = Sinks /\ Sources' = Sources /\ Indices' = Indices /\ Sinks # <<>>
  BY SameLists DEF InLoop, Indices
<1>4. b \in Indices /\ n \in Nat \ {0} /\ n <= Len(Sinks) /\ loop \in Loops /\ phase = "run"
  BY <1>3 DEF InLoops, InLoop, Loops
<1>5. \/ n < Len(Sinks) /\ n' = n + 1 /\ b' = b /\ loop' = loop
      \/ b < Len(names) /\ ~(n < Len(Sinks)) /\ n' = 1 /\ b' = b + 1 /\ loop' = loop
      \/ ~(b < Len(names)) /\ ~(n < Len(Sinks)) /\ n' = 1 /\ b' = 1 /\ loop' = next
  BY DEF NextRound
<1>6. /\ b' \in Indices /\ n' \in Nat \ {0} /\ n' <= Len(Sinks)
      /\ loop' \in Loops \cup {"sim"}
  BY <1>2, <1>4, <1>5
<1>7. InLoops'
  BY <1>2, <1>3, <1>4, <1>6 DEF InLoops, Loops
<1>8. OneSink => ~(n < Len(Sinks))
  BY <1>4 DEF OneSink
<1>9. QED
  BY <1>5, <1>7, <1>8

\* The loop over one kind starts the threads of that kind.
Follows(kind, l, next) ==
  \/ kind = "sink" /\ l = "sinks" /\ next = "blocks"
  \/ kind = "block" /\ l = "blocks" /\ next = "sources"
  \/ kind = "source" /\ l = "sources" /\ next = "sim"

LEMMA RoundKeepsStarted ==
  ASSUME InLoops, Started, OneSink, NEW kind \in Kinds, NEW l, NEW next,
         Follows(kind, l, next), InLoop(l),
         threads' = IF KindOf(b) = kind THEN [threads EXCEPT ![b] = Append(@, kind)] ELSE threads,
         IF b < Len(names) THEN b' = b + 1 /\ loop' = loop ELSE b' = 1 /\ loop' = next
  PROVE  Started'
<1>1. PICK S : names \in Seq(S)
  BY DEF InLoops
<1>2. Len(names) \in Nat /\ Indices = 1 .. Len(names)
  BY <1>1 DEF Indices
<1>3. /\ names' = names /\ Sinks' = Sinks /\ Sources' = Sources /\ Indices' = Indices
      /\ loop = l /\ loop # "off" /\ b \in Indices
  BY SameLists DEF InLoop, Indices, InLoops, Follows, Loops
<1>4. \A k \in Indices : KindOf(k)' = KindOf(k) /\ KindOf(k) \in Kinds
  BY <1>3, OneSinkTells DEF KindOf
<1>5. \A k \in Indices : Reached(KindOf(k), k)' <=> Reached(KindOf(k), k) \/ (k = b /\ KindOf(k) = kind)
  <2> SUFFICES ASSUME NEW k \in Indices
               PROVE  Reached(KindOf(k), k)' <=> Reached(KindOf(k), k) \/ (k = b /\ KindOf(k) = kind)
    OBVIOUS
  <2>1. k \in Nat /\ b \in Nat /\ k <= Len(names)
    BY <1>2, <1>3
  <2>2. KindOf(k)' = KindOf(k) /\ KindOf(k) \in Kinds
    BY <1>4
  <2>3. CASE b < Len(names)
    BY <1>3, <2>1, <2>2, <2>3 DEF Reached, Follows, Kinds
  <2>4. CASE ~(b < Len(names))
    BY <1>2, <1>3, <2>1, <2>2, <2>4 DEF Reached, Follows, Kinds
  <2>5. QED
    BY <2>3, <2>4
<1>6. DOMAIN threads = Indices
      /\ \A k \in Indices : threads[k] = IF Reached(KindOf(k), k) THEN <<KindOf(k)>> ELSE <<>>
  BY <1>3 DEF Started
<1>7. ~ Reached(KindOf(b), b) \/ KindOf(b) # kind
  BY <1>2, <1>3 DEF Reached, Follows
<1>8. DOMAIN threads' = Indices
  BY <1>6
<1>9. ASSUME NEW k \in Indices
      PROVE  threads'[k] = IF Reached(KindOf(k), k)' THEN <<KindOf(k)>> ELSE <<>>
  <2>1. CASE k = b /\ KindOf(b) = kind
    <3>1. threads[k] = <<>>
      BY <2>1, <1>6, <1>7
    <3>2. threads'[k] = <<kind>>
      BY <2>1, <3>1, <1>6
    <3>3. QED
      BY <2>1, <3>2, <1>5
  <2>2. CASE ~(k = b /\ KindOf(b) = kind)
    <3>1. threads'[k] = threads[k]
      BY <2>2, <1>6
    <3>2. QED
      BY <2>2, <3>1, <1>5, <1>6
  <2>3. QED
    BY <2>1, <2>2
<1>10. QED
  BY <1>3, <1>4, <1>8, <1>9 DEF Started

-----------------------------------------------------------------------------
(* The steps of run().                                                     *)

\* With one sink no comparison reads behind the end of a list.
LEMMA Compared ==
  ASSUME InLoops, OneSink, NEW l \in Loops, InLoop(l)
  PROVE  /\ IsNamed(Sinks) = {names[b] = Sinks[1]}
         /\ IsNamed(Sources) = {names[b] = Sources[1]}
<1>1. PICK S : names \in Seq(S)
  BY DEF InLoops
<1>2. Len(Sources) \in Nat
  BY <1>1, ListsOfNames
<1>3. n = 1
  BY DEF InLoops, InLoop, OneSink, Loops
<1>4. n <= Len(Sinks) /\ n <= Len(Sources)
  BY <1>2, <1>3 DEF OneSink
<1>5. QED
  BY <1>3, <1>4 DEF IsNamed

LEMMA StartStep ==
  ASSUME LaunchInv, StartSinks \/ StartBlocks \/ StartSources, phase' = phase
  PROVE  LaunchInv'
<1>1. PICK kind \in Kinds, l \in Loops, next \in Loops \cup {"sim"} :
        /\ Follows(kind, l, next) /\ InLoop(l) /\ NextRound(next)
        /\ OneSink =>
             threads' = IF KindOf(b) = kind THEN [threads EXCEPT ![b] = Append(@, kind)] ELSE threads
  <2>0. ASSUME OneSink, NEW l \in Loops, InLoop(l)
        PROVE  /\ IsNamed(Sinks) = {names[b] = Sinks[1]}
               /\ IsNamed(Sources) = {names[b] = Sources[1]}
               /\ names[b] = Sinks[1] <=> KindOf(b) = "sink"
               /\ names[b] = Sources[1] <=> KindOf(b) = "source"
               /\ KindOf(b) \in {"source", "block", "sink"}
    <3>1. b \in Indices
      BY <2>0 DEF LaunchInv, InLoops, InLoop
    <3>2. QED
      BY <2>0, <3>1, Compared, OneSinkTells DEF LaunchInv, Kinds
  <2>1. CASE StartSinks
    <3>1. InLoop("sinks") /\ NextRound("blocks") /\ \E t \in IsNamed(Sinks) : RunIf(t, "sink")
      BY <2>1 DEF StartSinks
    <3>2. ASSUME OneSink
          PROVE  threads' = IF KindOf(b) = "sink" THEN [threads EXCEPT ![b] = Append(@, "sink")] ELSE threads
      <4>1. RunIf(names[b] = Sinks[1], "sink")
        BY <2>0, <3>1, <3>2 DEF Loops
      <4>2. QED
        BY <2>0, <3>1, <3>2, <4>1 DEF Loops, RunIf
    <3>3. QED
      BY <3>1, <3>2 DEF Follows, Kinds, Loops
  <2>2. CASE StartBlocks
    <3>1. /\ InLoop("blocks") /\ NextRound("sources")
          /\ \E t \in IsNamed(Sinks), u \in IsNamed(Sources) : RunIf(~t /\ ~u, "block")
      BY <2>2 DEF StartBlocks
    <3>2. ASSUME OneSink
          PROVE  threads' = IF KindOf(b) = "block" THEN [threads EXCEPT ![b] = Append(@, "block")] ELSE threads
      <4>1. RunIf(~(names[b] = Sinks[1]) /\ ~(names[b] = Sources[1]), "block")
        <5>1. /\ IsNamed(Sinks) = {names[b] = Sinks[1]}
              /\ IsNamed(Sources) = {names[b] = Sources[1]}
          BY <2>0, <3>1, <3>2 DEF Loops
        <5>2. PICK t \in {names[b] = Sinks[1]}, u \in {names[b] = Sources[1]} :
                RunIf(~t /\ ~u, "block")
          BY <3>1, <5>1, Zenon
        <5>3. t = (names[b] = Sinks[1]) /\ u = (names[b] = Sources[1])
          BY Zenon
        <5>4. QED
          BY <5>2, <5>3, Zenon
      <4>2. KindOf(b) = "block" <=> ~(names[b] = Sinks[1]) /\ ~(names[b] = Sources[1])
        BY <2>0, <3>1, <3>2 DEF Loops
      <4>3. QED
        BY <4>1, <4>2 DEF RunIf
    <3>3. QED
      BY <3>1, <3>2 DEF Follows, Kinds, Loops
  <2>3. CASE StartSources
    <3>1. InLoop("sources") /\ NextRound("sim") /\ \E t \in IsNamed(Sources) : RunIf(t, "source")
      BY <2>3 DEF StartSources
    <3>2. ASSUME OneSink
          PROVE  threads' = IF KindOf(b) = "source" THEN [threads EXCEPT ![b] = Append(@, "source")] ELSE threads
      <4>1. RunIf(names[b] = Sources[1], "source")
        BY <2>0, <3>1, <3>2 DEF Loops
      <4>2. QED
        BY <2>0, <3>1, <3>2, <4>1 DEF Loops, RunIf
    <3>3. QED
      BY <3>1, <3>2 DEF Follows, Kinds, Loops
  <2>4. QED
    BY <2>1, <2>2, <2>3
<1>2. /\ InLoops'
      /\ OneSink => IF b < Len(names) THEN b' = b + 1 /\ loop' = loop
                    ELSE b' = 1 /\ loop' = next
  BY <1>1, RoundKeepsInLoops DEF LaunchInv
<1>3. OneSink' <=> OneSink
  BY <1>1, SameLists DEF InLoop, OneSink
<1>4. Started'
  <2>1. CASE OneSink
    BY <1>1, <1>2, <2>1, RoundKeepsStarted DEF LaunchInv
  <2>2. CASE ~OneSink
    BY <1>3, <2>2 DEF Started
  <2>3. QED
    BY <2>1, <2>2
<1>5. QED
  BY <1>2, <1>4 DEF LaunchInv

\* A comparison behind the end of Sources is only made where Sinks is longer.
LEMMA CrashStep ==
  ASSUME LaunchInv, Crash \/ SkipLoops, phase' = phase
  PROVE  LaunchInv'
<1>1. PICK S : names \in Seq(S)
  BY DEF LaunchInv, InLoops
<1>2. Len(Sources) \in Nat /\ Len(Sinks) \in Nat
  BY <1>1, ListsOfNames
<1>3. names' = names /\ Sinks' = Sinks /\ Sources' = Sources /\ Indices' = Indices /\ b' = b /\ n' = n
  BY SameLists DEF Crash, SkipLoops, InLoop, Indices
<1>4. CASE Crash
  <2>1. /\ loop' = "crashed" /\ n > Len(Sources) /\ n <= Len(Sinks) /\ n \in Nat /\ phase = "run"
        /\ loop \in Loops
    BY <1>4 DEF Crash, InLoop, LaunchInv, InLoops, Loops
  <2>2. Len(Sources) < Len(Sinks)
    BY <1>2, <2>1
  <2>3. InLoops'
    BY <1>3, <2>1, <2>2 DEF LaunchInv, InLoops, Loops
  <2>4. ~OneSink'
    <3>1. PICK x \in Nat, y \in Nat : x = Len(Sources) /\ y = Len(Sinks)
      BY <1>2
    <3>2. ~(y = 1 /\ x >= 1)
      BY <2>2, <3>1
    <3>3. QED
      BY <1>3, <3>1, <3>2 DEF OneSink
  <2>5. QED
    BY <2>3, <2>4 DEF LaunchInv, Started
<1>5. CASE SkipLoops
  <2>1. loop' = "sim" /\ loop = "sinks" /\ Sinks = <<>> /\ phase = "run"
    BY <1>5 DEF SkipLoops, LaunchInv, InLoops
  <2>2. InLoops'
    BY <1>3, <2>1 DEF LaunchInv, InLoops, Loops
  <2>3. ~OneSink'
    BY <1>3, <2>1 DEF OneSink
  <2>4. QED
    BY <2>2, <2>3 DEF LaunchInv, Started
<1>6. QED
  BY <1>4, <1>5

\* The constructors give each Worker the label of its kind.
LEMMA CallRunStep ==
  ASSUME Table, LaunchInv, RunGraph
  PROVE  LaunchInv'
<1>1. PICK S : blocks \in Seq(S)
  BY DEF Table
<1>2. /\ names' = [i \in DOMAIN blocks |-> LabelOf(blocks[i])]
      /\ loop' = "sinks" /\ threads' = [k \in DOMAIN names' |-> <<>>] /\ phase' = "run"
      /\ b' = b /\ n' = n /\ phase = "connect"
  BY DEF RunGraph, CallRun
<1>3. b' = 1 /\ n' = 1
  BY <1>2 DEF LaunchInv, InLoops
<1>4. \E U : names' \in Seq(U)
  <2>1. Len(blocks) \in Nat /\ DOMAIN blocks = 1 .. Len(blocks)
    BY <1>1
  <2>2. names' \in Seq({LabelOf(blocks[i]) : i \in DOMAIN blocks})
    BY <1>2, <2>1
  <2>3. QED
    BY <2>2
<1>5. \A k \in Indices' : names'[k][2] \in Kinds
  BY <1>2 DEF Indices, LabelOf, Kinds
<1>6. /\ Len(Sinks)' \in Nat /\ Len(Sources)' \in Nat
      /\ Indices' = 1 .. Len(names)' /\ Len(names)' \in Nat
      /\ Sinks' # <<>> => 1 <= Len(Sinks)' /\ 1 <= Len(names)'
  <2>1. ListsFit'
    BY ListsAlwaysFit, PTL
  <2>2. QED
    BY <1>4, <2>1 DEF ListsFit
<1>7. InLoops'
  <2>1. Sinks' # <<>> => b' \in Indices' /\ n' <= Len(Sinks)'
    BY <1>3, <1>6
  <2>2. QED
    BY <1>2, <1>3, <1>4, <1>5, <2>1 DEF InLoops, Loops
<1>8. \A k \in Indices' : ~ Reached(KindOf(k), k)'
  BY <1>2, <1>3, <1>6 DEF Reached
<1>9. Started'
  BY <1>2, <1>8 DEF Started, Indices
<1>10. QED
  BY <1>7, <1>9 DEF LaunchInv

LEMMA LaunchStep == ASSUME Table, LaunchInv, [ProgramNext]_allVars PROVE LaunchInv'
<1>1. CASE UNCHANGED launchVars /\ (phase' = "run" <=> phase = "run")
  <2>1. UNCHANGED <<names, loop, b, n, threads, Sinks, Sources>>
    BY <1>1, SameLists DEF launchVars
  <2>2. InLoops'
    <3>1. /\ names' = names /\ loop' = loop /\ b' = b /\ n' = n /\ Sinks' = Sinks
          /\ Sources' = Sources /\ Indices' = Indices
      BY <2>1 DEF Indices
    <3>2. QED
      BY <1>1, <3>1 DEF LaunchInv, InLoops
  <2>3. Started'
    BY <2>1 DEF LaunchInv, Started, Indices, OneSink, KindOf, Reached
  <2>4. QED
    BY <2>2, <2>3 DEF LaunchInv
<1>2. CASE RunGraph
  BY <1>2, CallRunStep
<1>3. CASE Launch /\ UNCHANGED <<genVars, programVars>>
  BY <1>3, StartStep, CrashStep DEF Launch, genVars
<1>4. CASE GenNext /\ UNCHANGED <<launchVars, programVars>>
  <2>1. phase' # "run" /\ phase # "run"
    BY <1>4 DEF GenNext, Script, WriteCode, AddBlock, Connect, StartWriting, WriteConnection,
                NextBlock, FileWritten
  <2>2. QED
    BY <1>1, <1>4, <2>1
<1>5. CASE BeginMain \/ CallConnect \/ ConnectOutOfRange \/ UNCHANGED allVars
  BY <1>1, <1>5 DEF BeginMain, CallConnect, ConnectOutOfRange, allVars, genVars
<1>6. QED
  BY <1>2, <1>3, <1>4, <1>5 DEF ProgramNext, Main

LEMMA LaunchInitInv == ProgramInit => LaunchInv
<1> SUFFICES ASSUME ProgramInit PROVE LaunchInv
  OBVIOUS
<1>1. names = <<>> /\ loop = "off" /\ b = 1 /\ n = 1 /\ phase = "script"
  BY DEF ProgramInit, LaunchInit, GenInit
<1>2. names \in Seq({}) /\ Indices = {}
  BY <1>1 DEF Indices
<1>3. QED
  BY <1>1, <1>2 DEF LaunchInv, InLoops, Started, Loops

LEMMA Launched == ProgramSpec => []LaunchInv
<1>1. ReaderInv /\ AskedInv /\ LaunchInv /\ [ProgramNext]_allVars =>
        (ReaderInv /\ AskedInv /\ LaunchInv)'
  BY ReaderStep, AskedStep, LaunchStep DEF AskedInv
<1>2. QED
  BY ReaderInit, AskedInit, LaunchInitInv, <1>1, PTL DEF ProgramSpec

-----------------------------------------------------------------------------
(* The theorems.                                                           *)

\* In every generated graph with one sink and at least one source, however
\* many Workers share a name, run() starts exactly one thread per Worker.
THEOREM OneThread == ProgramSpec => []OneThreadEach
<1>1. LaunchInv => OneThreadEach
  <2> SUFFICES ASSUME LaunchInv, loop = "sim", Len(Sinks) = 1, Len(Sources) >= 1,
                      NEW k \in Indices
               PROVE  Len(threads[k]) = 1
    BY DEF OneThreadEach
  <2>1. KindOf(k) \in Kinds
    BY OneSinkTells DEF LaunchInv, OneSink
  <2>2. threads[k] = <<KindOf(k)>>
    BY <2>1 DEF LaunchInv, Started, OneSink, Reached, Kinds
  <2>3. QED
    BY <2>2
<1>2. QED
  BY Launched, <1>1, PTL

\* With one source and one sink each thread runs the function of its Worker's
\* label.
THEOREM RightFunction == ProgramSpec => []RightThread
<1>1. LaunchInv => RightThread
  <2> SUFFICES ASSUME LaunchInv, loop = "sim", Len(Sinks) = 1, Len(Sources) = 1,
                      NEW k \in Indices
               PROVE  threads[k] = <<names[k][2]>>
    BY DEF RightThread
  <2>1. KindOf(k) \in Kinds /\ OneSink
    BY OneSinkTells DEF LaunchInv, OneSink
  <2>2. threads[k] = <<KindOf(k)>>
    BY <2>1 DEF LaunchInv, Started, Reached, Kinds
  <2>3. KindOf(k) = names[k][2]
    <3>1. PICK S : names \in Seq(S)
      BY DEF LaunchInv, InLoops
    <3>2. DOMAIN Sources = {1} /\ Sources[1][2] = "source"
      BY <3>1, ListsOfNames
    <3>3. names[k][2] = "source" => names[k] = Sources[1]
      BY <3>1, <3>2, ListsOfNames
    <3>4. names[k][2] \in Kinds
      BY DEF LaunchInv, InLoops
    <3>5. QED
      BY <3>2, <3>3, <3>4 DEF KindOf, Kinds
  <2>4. QED
    BY <2>2, <2>3
<1>2. QED
  BY Launched, <1>1, PTL

\* run() never looks behind the end of Sources in a graph with at least as many
\* sources as sinks.
THEOREM StaysInRange == ProgramSpec => []IndexInRange
<1>1. LaunchInv => IndexInRange
  <2> SUFFICES ASSUME LaunchInv, Len(Sources) >= Len(Sinks), loop = "crashed" PROVE FALSE
    BY DEF IndexInRange
  <2>1. PICK S : names \in Seq(S)
    BY DEF LaunchInv, InLoops
  <2>2. PICK x \in Nat, y \in Nat : x = Len(Sources) /\ y = Len(Sinks)
    BY <2>1, ListsOfNames
  <2>3. x < y /\ x >= y
    BY <2>2 DEF LaunchInv, InLoops
  <2>4. QED
    BY <2>3
<1>2. QED
  BY Launched, <1>1, PTL

\* With one source and one sink, whoever consumes has its thread before the
\* source starts to produce.
THEOREM SourceStartsLast == ProgramSpec => []SourcesLast
<1>1. LaunchInv => SourcesLast
  <2> SUFFICES ASSUME LaunchInv, Len(Sinks) = 1, Len(Sources) = 1,
                      NEW k \in Indices, NEW j \in Indices,
                      threads[k] = <<"source">>, names[j][2] # "source"
               PROVE  threads[j] # <<>>
    BY DEF SourcesLast
  <2>1. OneSink /\ loop # "off"
    BY DEF OneSink, LaunchInv, InLoops, Indices
  <2>2. \A i \in Indices : threads[i] = IF Reached(KindOf(i), i) THEN <<KindOf(i)>> ELSE <<>>
    BY <2>1 DEF LaunchInv, Started
  <2>3. Reached(KindOf(k), k) /\ KindOf(k) = "source"
    <3>1. <<>> # <<"source">>
      OBVIOUS
    <3>2. threads[k] = IF Reached(KindOf(k), k) THEN <<KindOf(k)>> ELSE <<>>
      BY <2>2
    <3>3. Reached(KindOf(k), k)
      BY <3>1, <3>2
    <3>4. <<KindOf(k)>> = <<"source">>
      BY <3>2, <3>3
    <3>5. QED
      BY <3>3, <3>4
  <2>4. loop \in {"sources", "sim"}
    BY <2>3 DEF Reached
  <2>5. KindOf(j) \in {"sink", "block"}
    <3>1. PICK S : names \in Seq(S)
      BY DEF LaunchInv, InLoops
    <3>2. Sources[1][2] = "source"
      BY <3>1, ListsOfNames
    <3>3. QED
      BY <3>2 DEF KindOf
  <2>6. Reached(KindOf(j), j)
    BY <2>4, <2>5 DEF Reached
  <2>7. threads[j] = <<KindOf(j)>>
    BY <2>2, <2>6
  <2>8. QED
    BY <2>7
<1>2. QED
  BY Launched, <1>1, PTL
=============================================================================
