--------------------------- MODULE MCCatalogCore ---------------------------
(***************************************************************************)
(* An instance of CatalogCore for TLC: three rows, requests that move,      *)
(* create, refer, mark, delete and replace lines.                           *)
(***************************************************************************)
EXTENDS CatalogCore

CONSTANTS a, b, c

Save(kind, row) == [kind |-> kind, row |-> row, parent |-> Keep, ref |-> Keep,
                    key |-> FALSE, lines |-> Keep, related |-> None, rr |-> FALSE]
Move(row, parent)   == [Save("update", row) EXCEPT !.parent = parent]
Direct(row, parent, rr) == [Save("direct", row) EXCEPT !.parent = parent, !.rr = rr]

MCRequests ==
  {Move(a, b), Move(b, a), Move(b, None), Move(c, a),
   Direct(b, a, FALSE), Direct(a, b, TRUE), Direct(b, c, TRUE),
   [Save("create", c) EXCEPT !.parent = b], [Save("create", c) EXCEPT !.lines = {"l"}],
   [Save("update", a) EXCEPT !.ref = b, !.lines = {"l"}],
   [Save("update", b) EXCEPT !.ref = a, !.key = TRUE],
   [Save("update", b) EXCEPT !.lines = {"l"}, !.related = a],
   [Save("update", a) EXCEPT !.lines = {}],
   Save("mark", a), Save("mark", b), Save("delete", a)}

Plain       == [hierarchy |-> TRUE, lockAlways |-> FALSE, deletable |-> FALSE]
Handler     == [hierarchy |-> TRUE, lockAlways |-> TRUE, deletable |-> FALSE]
Assignments == [hierarchy |-> FALSE, lockAlways |-> FALSE, deletable |-> TRUE]
MCContracts == {Plain, Handler, Assignments}

Root == [Absent EXCEPT !.ver = 1]
\* c is not there yet; b is below c.
MCTables == {[r \in Rows |-> IF r = c THEN Absent ELSE Root],
             [r \in Rows |-> IF r = b THEN [Root EXCEPT !.parent = c] ELSE Root]}
=============================================================================
