----------------------------- MODULE Partition -----------------------------
(***************************************************************************)
(* How map.cpp and fastflow_map.cpp split the rows of a photo of height h  *)
(* among n workers.  The loop starts with h / n + 1 rows per portion, and  *)
(* takes one row off when it reaches portion number h % n, so the first    *)
(* h % n portions are one row longer than the others, and portions may be  *)
(* empty when there are fewer rows than workers.                           *)
(***************************************************************************)
EXTENDS Integers

Share(h, n, i) == (h \div n) + (IF i < h % n THEN 1 ELSE 0)

\* The rows given to the portions before portion i
Start(h, n, i) == i * (h \div n) + (IF i < h % n THEN i ELSE h % n)

\* The rows of portion i
RowsOf(h, n, i) == Start(h, n, i) .. (Start(h, n, i) + Share(h, n, i) - 1)
=============================================================================
