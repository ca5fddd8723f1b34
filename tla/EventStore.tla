----------------------------- MODULE EventStore -----------------------------
(***************************************************************************)
(* The event store (store.EventStore) as its callers see it: a table of    *)
(* rows in the order of their ids, asked for its newest rows by time. The  *)
(* rows of a query are a set here: Newer says which comes first.           *)
(***************************************************************************)
EXTENDS Naturals, FiniteSets, FiniteSetsExt

CONSTANTS
  Units,     \* what rows are about: (name, scope) pairs
  Cap,       \* the most rows a query returns: 1000 in the code
  MaxRows,   \* bound: the model keeps this many rows and drops later ones
  MaxTime    \* bound on the clock

ASSUME CapAssumption == Cap \in Nat \ {0}

\* "healed" and "handed_back" are the autofix rows: a restart that held; a failure that
\* was told or did not go away. A "note" stands for the kinds that no reader picks out
\* (explanations, journals, monitor events, questions). The others are named as in KINDS.
Autofix == {"healed", "handed_back"}
Kind == {"failure_observed", "failure_cleared", "restart", "note"} \cup Autofix
Row  == [id : 1..MaxRows, at : 0..MaxTime, kind : Kind, unit : Units]

Newer(r, s) == r.at > s.at \/ (r.at = s.at /\ r.id > s.id)

Clamp(limit) == IF limit < 1 THEN 1 ELSE IF limit > Cap THEN Cap ELSE limit

\* The newest rows of a selection, as many as asked for and the cap allows.
Recent(selection, limit) ==
  {r \in selection : Cardinality({s \in selection : Newer(s, r)}) < Clamp(limit)}

OfKind(rows, kinds) == {r \in rows : r.kind \in kinds}

\* The time of the newest and of the oldest row, 0 when there is none.
Latest(rows)   == Max({r.at : r \in rows} \cup {0})
Earliest(rows) == IF rows = {} THEN 0 ELSE Min({r.at : r \in rows})

\* Mutant: the id is counted from the rows there are.
InsertCounting(rows, last, at, kind, unit) ==
  IF last = MaxRows THEN rows
  ELSE rows \cup {[id |-> Cardinality(rows) + 1, at |-> at, kind |-> kind, unit |-> unit]}

\* Ids only grow: the table's autoincrement does not reuse those of deleted rows.
Insert(rows, last, at, kind, unit) ==
  IF last = MaxRows THEN rows
  ELSE rows \cup {[id |-> last + 1, at |-> at, kind |-> kind, unit |-> unit]}
NextId(last) == IF last = MaxRows THEN last ELSE last + 1

Expired(rows, before) == {r \in rows : r.at < before}
=============================================================================
