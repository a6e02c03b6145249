------------------------- MODULE CallGraphTransfer -------------------------
(***************************************************************************)
(* The call graph on its way to the appraiser: each graph that comes about *)
(* is sent in both of the forms of MeasurementData, of which functions are *)
(* the names that it knows.                                                *)
(***************************************************************************)
EXTENDS CallGraph

Data == INSTANCE MeasurementData

\* gdb's names are C strings, none of them empty; a frame without one has NULL.
ASSUME NamesAreTexts ==
  Functions \subseteq Seq(STRING) \ {<<>>} /\ NoFunction = Data!Null

Complete == pc = "running" /\ graph # Null

\* A callstack arrives as its outermost function: ME_CG_fromJSON looks for
\* "json_children" and ME_CG_toJSON writes "children"; a function without a name
\* stays without one, nothing else is in the table that arrives, and what is
\* listed before and after it stays in its place.
OutermostFunctionArrives ==
  Complete =>
    LET name  == Data!FT_get(ft, heap[graph].symbol)
        one   == IF name = Data!Null THEN Data!Callstack(Data!Node(-1, Data!Null, Data!Null), <<>>)
                                     ELSE Data!Callstack(Data!Node(1, Data!Null, Data!Null), <<name>>)
        x     == Data!String("x")
        y     == Data!String("y")
        sent  == <<x, Data!Sent(graph, heap, ft), y>>
    IN Data!measurement_fromJSON(Data!measurement_toJSON(sent)) = <<x, one, y>>

BlankFree(i) == \A c \in DOMAIN ft[i] : ft[i][c] # Data!Blank

\* The flat form gives back a graph of any shape and fills the buffer that
\* ME_CG_encode allocates for it exactly; the text of its table is split back
\* into names up to the first one with a blank in it, so that symbols keep
\* their names up to there.  A table without names has no text.
FlatFormIsReadBack ==
  Complete =>
    LET flat == Data!CG_encode(heap)[graph][0]
        text == Data!FT_encode(ft)
    IN /\ Data!CG_decode(flat)[0] = Data!CG(heap)[graph]
       /\ Len(flat) = 3 * Data!CG_count(heap)[graph]
       /\ ft # <<>> /\ (\A i \in DOMAIN ft : BlankFree(i)) =>
            Data!SplitAsserts(text) /\ Data!FT_decode(text) = ft
       /\ \A i \in DOMAIN ft :
            (\A j \in 1 .. i : BlankFree(j)) => Data!FT_get(Data!FT_decode(text), i) = ft[i]
=============================================================================
