------------------------------- MODULE Wiring -------------------------------
(***************************************************************************)
(* Which queue stands behind which port: what the constructor of Worker    *)
(* makes and what connect() of src/src/flowMP.cpp does to it.  The         *)
(* constructor gives every port, input or output, a queue of its own;      *)
(* connect(a, outport, b, inport) makes the input port of b share the      *)
(* queue, and with it the counter, of the output port of a.                *)
(*                                                                         *)
(* A port is a pair <<worker, number>>.                                    *)
(***************************************************************************)
EXTENDS Integers, Sequences, SequencesExt

Ports(workers, count) == UNION {{w} \X (0 .. count[w] - 1) : w \in workers}

\* The queues the constructors make.
NewInputQueues(inports)   == [i \in inports |-> <<"in", i[1], i[2]>>]
NewOutputQueues(outports) == [o \in outports |-> <<"out", o[1], o[2]>>]

\* Faulty: always the first queue of the block.
ConnectPortZero(in, out, c) == [in EXCEPT ![<<c[3], c[4]>>] = out[c[1], 0]]

\* One call of connect(), c = <<a, outport, b, inport>>.
Connect(in, out, c) == [in EXCEPT ![<<c[3], c[4]>>] = out[c[1], c[2]]]

\* The input side after a sequence of calls; the output side never changes.
ConnectAll(in, out, calls) == FoldLeft(LAMBDA i, c : Connect(i, out, c), in, calls)
=============================================================================
