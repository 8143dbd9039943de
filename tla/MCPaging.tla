------------------------------ MODULE MCPaging ------------------------------
(* Stores of up to five lines in chunks of one to three lines. *)
EXTENDS Paging

CONSTANTS Sizes,      \* the chunk sizes of each layout
          Filters,    \* the sets of lines a filter may match
          WarmSizes   \* lengths of the warm buffer, 0 for none

Layout(sizes) ==
  LET start[n \in 1..Len(sizes)] == IF n = 1 THEN 0 ELSE start[n - 1] + sizes[n - 1]
  IN  [n \in 1..Len(sizes) |-> [start |-> start[n], lines |-> sizes[n]]]

MCSizes == {<<>>, <<1>>, <<3>>, <<2, 1>>, <<1, 3>>, <<2, 2, 1>>, <<1, 1, 3>>}
MCFilters == {{}, {0, 1, 2, 3, 4}, {0, 2, 4}, {1, 3}, {0, 3, 4}, {4}}
MCTerms == {{0, 1, 2, 3, 4}, {1, 4}, {2}}

(* The estimate is above what is merged; the warm buffer is the newest     *)
(* part of the file, or is there before the file is.                       *)
MCStores ==
  {st \in [chunks : {Layout(sizes) : sizes \in Sizes}, missing : {{}, {1}, {2}},
           hint : {0, 6}, warm : WarmSizes, open : BOOLEAN,
           filtered : BOOLEAN, matched : Filters] :
     /\ st.missing \subseteq DOMAIN st.chunks
     /\ ~st.open => st.chunks = <<>> /\ st.hint = 0
     /\ st.hint > 0 => Len(st.chunks) \in {0, 3}
     /\ ~st.filtered => st.matched = {}}

=============================================================================
