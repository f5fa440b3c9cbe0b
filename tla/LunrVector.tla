----------------------------- MODULE LunrVector -----------------------------
(***************************************************************************)
(* lunr.Vector: a sparse vector kept as a sequence of pairs <<index,       *)
(* value>> that a binary search keeps sorted whatever order they come in.  *)
(* (The source keeps the pairs flat in one array.)                         *)
(***************************************************************************)
EXTENDS Naturals, Sequences, SequencesExt

\* Faulty variant: the half of the last pivot is always the right one.
PositionAfterPivot(v, index) ==
  LET search[slice \in (0 .. Len(v)) \X (0 .. Len(v))] ==
        LET start == slice[1]
            end == slice[2]
            pivot == start + (end - start) \div 2
            at == v[pivot + 1][1]
        IN  IF end - start > 1 /\ at # index
              THEN IF at < index THEN search[<<pivot, end>>] ELSE search[<<start, pivot>>]
              ELSE IF at = index THEN pivot ELSE pivot + 1
  IN  IF v = <<>> THEN 0 ELSE search[<<0, Len(v)>>]

\* How many pairs come before index.
PositionForIndex(v, index) ==
  LET search[slice \in (0 .. Len(v)) \X (0 .. Len(v))] ==
        LET start == slice[1]
            end == slice[2]
            pivot == start + (end - start) \div 2
            at == v[pivot + 1][1]
        IN  IF end - start > 1 /\ at # index
              THEN IF at < index THEN search[<<pivot, end>>] ELSE search[<<start, pivot>>]
              ELSE IF at < index THEN pivot + 1 ELSE pivot
  IN  IF v = <<>> THEN 0 ELSE search[<<0, Len(v)>>]

\* upsert with an addition.  insert is upsert with a function that throws "duplicate
\* index": createFieldVectors calls it for different terms, which have indexes of
\* their own, and never gets there.
Upsert(v, index, value) ==
  LET p == PositionForIndex(v, index) + 1
  IN  IF p \in DOMAIN v /\ v[p][1] = index
        THEN [v EXCEPT ![p][2] = @ + value]
        ELSE InsertAt(v, p, <<index, value>>)

\* The merge of two sorted sequences.
Dot(a, b) ==
  LET dot[at \in (1 .. Len(a) + 1) \X (1 .. Len(b) + 1)] ==
        LET i == at[1]
            j == at[2]
        IN  IF i > Len(a) \/ j > Len(b) THEN 0
            ELSE IF a[i][1] < b[j][1] THEN dot[<<i + 1, j>>]
            ELSE IF a[i][1] > b[j][1] THEN dot[<<i, j + 1>>]
            ELSE a[i][2] * b[j][2] + dot[<<i + 1, j + 1>>]
  IN  dot[<<1, 1>>]
=============================================================================
