--------------------------- MODULE MCParallelFor ----------------------------
(***************************************************************************)
(* Two workers.  Loops in which the tasks are shared out evenly, one is    *)
(* left over, the chunk is doubled, there are fewer tasks than workers,    *)
(* and static ones with and without a grain.                               *)
(***************************************************************************)
EXTENDS ParallelFor

ALoop(first, last, step, chunk, nw) ==
  [start |-> first, stop |-> last, step |-> step, chunk |-> chunk, nw |-> nw]

MCThreads == 0..MaxWorkers
MCIndices == 0..6

MCLoops == {ALoop(0, 4, 1, 1, 2),       \* 2 + 2 tasks
            ALoop(1, 6, 1, 1, 2),       \* 2 + 3: one is left over
            ALoop(0, 7, 3, 1, 2),       \* 1 + 1, with doubled chunks
            ALoop(1, 6, 2, 2, 2),       \* 2 tasks, the last one short
            ALoop(3, 5, 1, 3, 2),       \* one task: the main thread alone
            ALoop(0, 3, 1, 0, 2),       \* shares of 2 and 1
            ALoop(0, 1, 1, 0, 2),       \* an empty share
            ALoop(0, 6, 1, -1, 2)}      \* round robin

\* A loop on two workers and one on three.
MCTeams == {ALoop(0, 2, 1, 0, 2), ALoop(0, 3, 1, 0, 3)}

\* A static loop with a grain over every other index.
MCStrided == {ALoop(0, 8, 2, -1, 2)}
MCStridedIndices == 0..8

\* Piece is the closed form of the loops in init_data() and init_data_static(), which
\* lay three ranges one after the other.
ASSUME
  \A l \in [start : {0, 2}, stop : 3..7, step : 1..3], size \in [0..2 -> 0..3] :
    LET start[i \in 0..3] == IF i = 0 THEN l.start
                             ELSE EndOf(l, start[i - 1], size[i - 1]) - 1 + l.step
        before[i \in 0..3] == IF i = 0 THEN 0 ELSE before[i - 1] + size[i - 1]
    IN  \A i \in 0..2 : Piece(l, before[i], size[i]) =
                        [start |-> start[i], end |-> EndOf(l, start[i], size[i])]
=============================================================================
