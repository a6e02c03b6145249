-------------------------- MODULE MeasurementData --------------------------
(***************************************************************************)
(* Measurements as values, and the two forms in which they travel: the     *)
(* JSON that BE_get_request answers with and DI_send_request reads, and    *)
(* the flat form (numbers for the call graph, one text for the feature     *)
(* table) of the dynamic-length protocol.  A name is a sequence of         *)
(* characters because names of C++ have blanks in them and the table's     *)
(* text is split at blanks.                                                *)
(***************************************************************************)
EXTENDS Integers, Sequences

Blank == " "
Null  == <<>>    \* a NULL pointer, or a member that a JSON object has not

Node(symbol, child, sibling) == [symbol |-> symbol, child |-> child, sibling |-> sibling]

-----------------------------------------------------------------------------
(* The feature table: the entries behind "root", from 1 on.                *)

FT_get(ft, i) == IF i \in 1 .. Len(ft) THEN ft[i] ELSE Null

FT_get_index(ft, name) ==
  IF \E i \in 1 .. Len(ft) : ft[i] = name
    THEN CHOOSE i \in 1 .. Len(ft) : ft[i] = name /\ \A j \in 1 .. i - 1 : ft[j] # name
    ELSE -1

\* Mutant: the counter is not advanced for the new entry
FT_addShort(ft, name) ==
  IF name = Null THEN [ft |-> ft, index |-> -1]
  ELSE IF FT_get_index(ft, name) # -1 THEN [ft |-> ft, index |-> FT_get_index(ft, name)]
  ELSE [ft |-> Append(ft, name), index |-> Len(ft)]

FT_add(ft, name) ==
  IF name = Null THEN [ft |-> ft, index |-> -1]
  ELSE IF FT_get_index(ft, name) # -1 THEN [ft |-> ft, index |-> FT_get_index(ft, name)]
  ELSE [ft |-> Append(ft, name), index |-> Len(ft) + 1]

\* What is in memory that nobody wrote
Undefined == "undefined"

\* The names with a blank behind each, the last one of which becomes the end of the
\* text; of no names there is none, the end is written in front of the buffer, and
\* there is no text in it.
FT_encode(ft) ==
  LET written[k \in 0 .. Len(ft)] ==
        IF k = 0 THEN <<>> ELSE written[k - 1] \o Append(ft[k], Blank)
  IN IF ft = <<>> THEN Undefined
     ELSE SubSeq(written[Len(ft)], 1, Len(written[Len(ft)]) - 1)

\* strtok: the runs of other characters, each up to a blank or the end
Pieces(text) ==
  LET Ends(i) == i = Len(text) + 1 \/ text[i] = Blank
      cut[i \in 0 .. Len(text) + 1] ==
        IF i = 0 THEN [pieces |-> <<>>, piece |-> <<>>]
        ELSE IF ~Ends(i) THEN [cut[i - 1] EXCEPT !.piece = Append(@, text[i])]
        ELSE IF cut[i - 1].piece = <<>> THEN cut[i - 1]
        ELSE [pieces |-> Append(cut[i - 1].pieces, cut[i - 1].piece), piece |-> <<>>]
  IN cut[Len(text) + 1].pieces

\* How many strings str_split expects: one for each delimiter, and one behind the
\* last one unless that ends the text
Expects(text) ==
  LET blanks[i \in 0 .. Len(text)] ==
        IF i = 0 THEN 0 ELSE blanks[i - 1] + IF text[i] = Blank THEN 1 ELSE 0
  IN blanks[Len(text)] + IF text # <<>> /\ text[Len(text)] = Blank THEN 0 ELSE 1

\* assert(idx == count - 1); with idx <= count - 1 the other one holds
SplitAsserts(text) == Len(Pieces(text)) = Expects(text)

\* ME_FT_decode of a text that str_split can split
FT_decode(text) ==
  LET names == Pieces(text)
      ft[k \in 0 .. Len(names)] == IF k = 0 THEN <<>> ELSE FT_add(ft[k - 1], names[k]).ft
  IN ft[Len(names)]

-----------------------------------------------------------------------------
(* Graphs on a heap h, a function from the addresses of nodes, and as the  *)
(* values that are read.                                                   *)

NULL == 0    \* the address of no node
Links(h) == DOMAIN h \cup {NULL}

CG(h) ==
  LET value[cg \in Links(h)] ==
        IF cg = NULL THEN Null
        ELSE Node(h[cg].symbol, value[h[cg].child], value[h[cg].sibling])
  IN value

(* The flat form of a call graph: three numbers for a node, its symbol and *)
(* where its child and its sibling begin, or -1.                           *)

CG_count(h) ==
  LET count[cg \in Links(h)] ==
        IF cg = NULL THEN 0 ELSE 1 + count[h[cg].sibling] + count[h[cg].child]
  IN count

\* Mutant: the sibling is said to begin where the child does
CG_encodeOver(h) ==
  LET flat[cg \in Links(h)] == [next \in Nat |->
        IF cg = NULL THEN <<>>
        ELSE LET child   == flat[h[cg].child][next + 3]
                 sibling == flat[h[cg].sibling][next + 3 + Len(child)]
             IN <<h[cg].symbol, IF h[cg].child = NULL THEN -1 ELSE next + 3,
                  IF h[cg].sibling = NULL THEN -1 ELSE next + 3>> \o child \o sibling]
  IN flat

\* What ME_CG_encode_h writes of a node from "next" on
CG_encode(h) ==
  LET flat[cg \in Links(h)] == [next \in Nat |->
        IF cg = NULL THEN <<>>
        ELSE LET child   == flat[h[cg].child][next + 3]
                 sibling == flat[h[cg].sibling][next + 3 + Len(child)]
             IN <<h[cg].symbol, IF h[cg].child = NULL THEN -1 ELSE next + 3,
                  IF h[cg].sibling = NULL THEN -1 ELSE next + 3 + Len(child)>> \o child \o sibling]
  IN flat

\* What ME_CG_decode_h reads from each place where a node may begin
CG_decode(a) ==
  LET cg[i \in {3 * k : k \in 0 .. Len(a) - 1} \cap 0 .. Len(a) - 1] ==
        Node(a[i + 1], IF a[i + 2] = -1 THEN Null ELSE cg[a[i + 2]],
                       IF a[i + 3] = -1 THEN Null ELSE cg[a[i + 3]])
  IN cg

-----------------------------------------------------------------------------
(* JSON: an object has a reference, and an array is a list of references.  *)
(* A member whose value is NULL is not set.                                *)

Member(json, key) == IF key \in DOMAIN json THEN json[key] ELSE Null

\* ME_CG_toJSON_h makes an object of each node, and lists it with its siblings.
CG_toJSON(h, ft) ==
  LET siblings[cg \in Links(h)] ==
        IF cg = NULL THEN <<>> ELSE <<cg>> \o siblings[h[cg].sibling]
  IN [cg \in DOMAIN h |-> [symbol   |-> FT_get(ft, h[cg].symbol),
                              children |-> siblings[h[cg].child]]]

\* ME_CG_add_child of a list of nodes
Linked(nodes) ==
  LET from[k \in 1 .. Len(nodes) + 1] ==
        IF k > Len(nodes) THEN Null ELSE [nodes[k] EXCEPT !.sibling = from[k + 1]]
  IN from[1]

\* The children of a node, read one after the other
ReadAll(read, js, ft) ==
  LET all[k \in 0 .. Len(js)] ==
        IF k = 0 THEN [nodes |-> <<>>, ft |-> ft]
        ELSE LET one == read[js[k]][all[k - 1].ft]
             IN [nodes |-> Append(all[k - 1].nodes, one.cg), ft |-> one.ft]
  IN all[Len(js)]

\* The node of an object and the table after it; names are added in the order of
\* reading.
CG_fromJSON(json) ==
  LET read[o \in DOMAIN json] == [ft \in Seq(Seq(STRING)) |->
        LET added    == FT_add(ft, Member(json[o], "symbol"))
            children == ReadAll(read, Member(json[o], "json_children"), added.ft)
        IN [cg |-> Node(added.index, Linked(children.nodes), Null), ft |-> children.ft]]
  IN read

\* A list of measurements, linked by "next"; NULL is the empty one.  A graph that
\* is sent is on a heap.
Callstack(cg, ft)  == [type |-> "callstack", cg |-> cg, ft |-> ft]
Sent(cg, h, ft)    == [type |-> "callstack", cg |-> cg, heap |-> h, ft |-> ft]
String(s)          == [type |-> "string", value |-> s]

measurement_toJSON(ms) ==
  [i \in 1 .. Len(ms) |->
     IF ms[i].type = "callstack"
       THEN [type |-> "callstack", data |-> ms[i].cg, json |-> CG_toJSON(ms[i].heap, ms[i].ft)]
       ELSE [type |-> "string", data |-> ms[i].value]]

measurement_fromJSON(json) ==
  [i \in 1 .. Len(json) |->
     IF json[i].type = "callstack"
       THEN LET read == CG_fromJSON(json[i].json)[json[i].data][<<>>] IN Callstack(read.cg, read.ft)
       ELSE String(json[i].data)]
=============================================================================
