----------------------------- MODULE GapSearch -----------------------------
(***************************************************************************)
(* The searches of src/db/mod.rs for the block numbers that blockheaders   *)
(* does not hold, as functions of the stored numbers: each is one SELECT,  *)
(* except for the search in chunks, which is one per chunk.                *)
(***************************************************************************)
EXTENDS Integers, Sequences, FiniteSetsExt

(* ORDER BY of numbers, or of the first column of rows that differ there.  *)
ascending(S) ==
  CHOOSE s \in [1 .. Cardinality(S) -> S] :
    \A i, j \in 1 .. Cardinality(S) : i < j => s[i] < s[j]

(* number_series: the recursive query starts with $1 whatever $2 is.       *)
number_series(start, end) == {start} \cup (start .. end)

missing_numbers(stored, start, end) ==
  number_series(start, end) \ (stored \cap (start .. end))

(* LIMIT 1: the first missing number in the order the recursion yields     *)
(* them, which is ascending (PostgreSQL filters the rows of a recursive    *)
(* query in place; the SQL has no ORDER BY that would demand it); or none. *)
find_first_gap(stored, start, end, none) ==
  LET missing == missing_numbers(stored, start, end)
  IN  IF missing = {} THEN none ELSE Min(missing)

(* Bug: the numbers are grouped by their difference to the numbers stored. *)
gap_group_ByStored(missing, stored, n) ==
  n - Cardinality({m \in stored : m <= n})

(* grp: n - ROW_NUMBER() OVER (ORDER BY n)                                 *)
gap_group(missing, stored, n) ==
  n - Cardinality({m \in missing : m <= n})

(* The first and the last number of each group, in the order of the first. *)
find_missing_block_ranges(stored, start, end) ==
  LET missing == missing_numbers(stored, start, end)
      group(n) == {m \in missing : gap_group(missing, stored, m)
                                     = gap_group(missing, stored, n)}
      range_start == ascending({Min(group(n)) : n \in missing})
  IN  [i \in DOMAIN range_start |-> <<range_start[i], Max(group(range_start[i]))>>]

find_missing_blocks_in_range(stored, start, end) ==
  ascending((start .. end) \ stored)

(* Bug: the end of a chunk is taken for exclusive.                         *)
next_chunk_Gap(current_end) == current_end + 2

(* current_start of the next chunk.                                        *)
next_chunk(current_end) == current_end + 1

find_missing_blocks_chunked(stored, start, end, chunk_size) ==
  LET current_end(n) == Min({n + chunk_size - 1, end})
      missing_from[n \in start .. end + 1] ==
        IF n > end THEN <<>>
        ELSE find_missing_blocks_in_range(stored, n, current_end(n))
               \o missing_from[next_chunk(current_end(n))]
  IN  missing_from[start]

(* find_null_data: the stored numbers whose header has a NULL column.      *)
find_null_data(incomplete, start, end) == incomplete \cap (start .. end)

-----------------------------------------------------------------------------
(* The ranges of find_missing_block_ranges are what is missing, each as    *)
(* long as it can be, and in order.                                        *)
RangesExact(stored, start, end) ==
  LET ranges == find_missing_block_ranges(stored, start, end)
  IN  /\ UNION {ranges[i][1] .. ranges[i][2] : i \in DOMAIN ranges}
           = (start .. end) \ stored
      /\ \A i \in DOMAIN ranges : ranges[i][1] <= ranges[i][2]
      /\ \A i \in 1 .. Len(ranges) - 1 : ranges[i][2] + 1 < ranges[i + 1][1]

(* Searching in chunks finds what one search finds, and the first of them  *)
(* is what find_first_gap finds.                                           *)
ChunksAgree(stored, start, end, none) ==
  LET missing == find_missing_blocks_in_range(stored, start, end)
  IN  /\ \A size \in 1 .. end - start + 2 :
           find_missing_blocks_chunked(stored, start, end, size) = missing
      /\ find_first_gap(stored, start, end, none)
           = IF missing = <<>> THEN none ELSE missing[1]
=============================================================================
