--------------------------------- MODULE Fifo ---------------------------------
(***************************************************************************)
(* The ring of src/lib/cotask/Fifo.h, in which the scheduler pool keeps    *)
(* the handles that wait for a thread.                                     *)
(***************************************************************************)
EXTENDS Integers, SequencesExt

CONSTANT Nothing  \* a default-constructed element

NewFifo(capacity) ==
  [head |-> 0, tail |-> 0, size |-> 0, storage |-> [i \in 1 .. capacity |-> Nothing]]

Following(f, i) == IF i + 1 = Len(f.storage) THEN 0 ELSE i + 1

Pop(f) == [value |-> f.storage[f.head + 1],
           fifo |-> [f EXCEPT !.head = Following(f, f.head), !.size = @ - 1]]

\* reserve(): everything is popped and pushed again, into twice what there is.
NoReserve(f) == f  \* a mutant
Reserve(f) ==
  LET item(i) == f.storage[((f.head + i - 1) % Len(f.storage)) + 1]
  IN  [f EXCEPT !.head = 0, !.tail = f.size,
                !.storage = [i \in 1 .. 2 * f.size |-> IF i =< f.size THEN item(i) ELSE Nothing]]

Push(f, value) ==
  LET g == IF f.size = Len(f.storage) THEN Reserve(f) ELSE f
  IN  [g EXCEPT !.storage[g.tail + 1] = value, !.tail = Following(g, g.tail), !.size = @ + 1]

\* clear(): pop until it is empty.
Clear(f) == [f EXCEPT !.head = (f.head + f.size) % Len(f.storage), !.size = 0]
=============================================================================
