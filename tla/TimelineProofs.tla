--------------------------- MODULE TimelineProofs ---------------------------
(***************************************************************************)
(* Proofs about Timeline, for any units, clients, page lengths, retention  *)
(* and bounds: what the timeline says of a unit alternates, a client that  *)
(* follows the cursor misses nothing, and the streak is not flattered.     *)
(* Each of the three has an invariant of its own; they meet only in the    *)
(* table, which a step leaves alone, adds a row to or prunes.              *)
(***************************************************************************)
EXTENDS Timeline, TLAPS, FiniteSetTheorems

Transition == {"failure_observed", "failure_cleared"}

-----------------------------------------------------------------------------
(* The invariant.                                                          *)

TableIsFinite == IsFiniteSet(rows)

\* While the clock only goes forward, ids and times agree.
Chronological ==
  ~stepped =>
    /\ \A r \in rows : r.at <= now
    /\ \A r, s \in rows : r.id < s.id => r.at <= s.at

\* One task at a time compares and writes, and it writes what changed.
Writers ==
  /\ \A c, d \in Clients : pc[c] = "writing" /\ pc[d] = "writing" => c = d
  /\ \A c \in Clients :
       todo[c] \subseteq IF pc[c] = "writing" THEN SymDiff(listing[c], seen) ELSE {}

\* What the timeline should say last of a unit: what was seen of it, unless the task
\* that writes has already written that it changed.
Recorded(u) ==
  IF \E c \in Clients : u \in Written(c) THEN u \notin seen ELSE u \in seen
LastWord(u) == IF Recorded(u) THEN "failure_observed" ELSE "failure_cleared"

\* A row that says otherwise is followed by one that says so.
RecordFollows ==
  \A u \in Units \ blemished :
    ~stepped /\ last < MaxRows =>
      \A r \in OfKind(rows, Transition) :
        r.unit = u /\ r.kind # LastWord(u) =>
          \E t \in rows : t.unit = u /\ t.kind = LastWord(u) /\ r.id < t.id

\* A client that pages back has every row from its cursor on, none of them twice.
WalkIsComplete ==
  /\ walk.at = "none" => walk = NoWalk
  /\ \A r \in walk.first : r.id <= last
  /\ walk.missed => walk.at = "end"
  /\ ~stepped /\ walk.at # "none" /\ walk.limit < Cap =>
       /\ ~walk.again
       /\ ~walk.missed =>
            /\ walk.at = "end" <=> walk.cursor = 0
            /\ \A r \in walk.got : r.id >= walk.cursor
            /\ \A r \in walk.first \cap rows : r.id >= walk.cursor => r \in walk.got
       /\ walk.missed =>
            \A r \in walk.first \cap rows : \A s \in walk.got : r.id >= s.id => r \in walk.got

\* The query that reads a row that counts.
ReadBy(r) == IF r.kind = "handed_back" THEN "autofix" ELSE "restart"

\* A row that was due and is still there was counted by the query that reads it.
TallyIsHonest ==
  /\ \A r \in tally.due : r.id <= last /\ r.kind \in {"handed_back", "restart"}
  /\ tally.at = "asked" /\ ~tally.short =>
       \A r \in tally.due \cap rows : ReadBy(r) \notin tally.left => tally.attention >= r.at

IInv ==
  /\ TypeOK /\ TableIsFinite /\ Chronological /\ Writers
  /\ RecordFollows /\ TransitionsAlternate /\ WalkIsComplete /\ TallyIsHonest

-----------------------------------------------------------------------------
(* Finite sets have first elements.                                        *)

\* A finite set has an element with none before it, whatever the order.
LEMMA SomethingIsFirst ==
  ASSUME NEW S, IsFiniteSet(S), S # {}, NEW R,
         \A x \in S : <<x, x>> \notin R,
         \A x, y, z \in S : <<x, y>> \in R /\ <<y, z>> \in R => <<x, z>> \in R
  PROVE  \E x \in S : \A y \in S : <<y, x>> \notin R
  <1> DEFINE Below(x) == {y \in S : <<y, x>> \in R}
             T == {Below(x) : x \in S}
  <1>1. T \subseteq FiniteSubsetsOf(S) /\ T # {}
    <2>1. T \subseteq SUBSET S
      OBVIOUS
    <2>2. PICK x \in S : TRUE
      OBVIOUS
    <2>3. Below(x) \in T
      OBVIOUS
    <2> QED
      BY <2>1, <2>3, FS_FiniteSubsetsOfFinite
  <1>2. PICK U \in T : \A V \in T : <<V, U>> \notin StrictSubsetOrdering(S)
    BY <1>1, FS_StrictSubsetOrderingWellFounded, WFMin
  <1>3. PICK x \in S : U = Below(x)
    OBVIOUS
  <1>4. ASSUME NEW y \in S, <<y, x>> \in R PROVE FALSE
    <2>1. Below(y) \subseteq Below(x)
      BY <1>4
    <2>2. y \in Below(x) /\ y \notin Below(y)
      BY <1>4
    <2>3. <<Below(y), Below(x)>> \in StrictSubsetOrdering(S)
      BY <2>1, <2>2 DEF StrictSubsetOrdering
    <2> QED
      BY <1>2, <1>3, <2>3
  <1> QED
    BY <1>4

\* The maximum of a finite set of numbers is in it.
LEMMA MaxIsIn ==
  ASSUME NEW S \in SUBSET Nat, IsFiniteSet(S), S # {}
  PROVE  Max(S) \in S /\ \A y \in S : Max(S) >= y
  <1> DEFINE R == {p \in S \X S : p[1] > p[2]}
  <1>1. \A x, y \in S : <<x, y>> \in R <=> x > y
    OBVIOUS
  <1> HIDE DEF R
  <1>2. /\ \A x \in S : <<x, x>> \notin R
        /\ \A x, y, z \in S : <<x, y>> \in R /\ <<y, z>> \in R => <<x, z>> \in R
    BY <1>1
  <1>3. PICK x \in S : \A y \in S : <<y, x>> \notin R
    BY <1>2, SomethingIsFirst
  <1>4. \A y \in S : x >= y
    <2> TAKE y \in S
    <2>1. x \in Nat /\ y \in Nat
      OBVIOUS
    <2>2. ~(y > x)
      BY <1>1, <1>3
    <2> QED
      BY <2>1, <2>2
  <1> QED
    BY <1>4 DEF Max

\* So is the minimum.
LEMMA MinIsIn ==
  ASSUME NEW S \in SUBSET Nat, IsFiniteSet(S), S # {}
  PROVE  Min(S) \in S /\ \A y \in S : Min(S) <= y
  <1> DEFINE R == {p \in S \X S : p[1] < p[2]}
  <1>1. \A x, y \in S : <<x, y>> \in R <=> x < y
    OBVIOUS
  <1> HIDE DEF R
  <1>2. /\ \A x \in S : <<x, x>> \notin R
        /\ \A x, y, z \in S : <<x, y>> \in R /\ <<y, z>> \in R => <<x, z>> \in R
    BY <1>1
  <1>3. PICK x \in S : \A y \in S : <<y, x>> \notin R
    BY <1>2, SomethingIsFirst
  <1>4. \A y \in S : x <= y
    <2> TAKE y \in S
    <2>1. x \in Nat /\ y \in Nat
      OBVIOUS
    <2>2. ~(y < x)
      BY <1>1, <1>3
    <2> QED
      BY <2>1, <2>2
  <1> QED
    BY <1>4 DEF Min

\* Rows have numbers for ids and times.
LEMMA RowsHaveNumbers ==
  \A r \in Row : /\ r.id \in Nat /\ r.at \in Nat /\ r.at \in 0..MaxTime /\ r.id \in 1..MaxRows
                 /\ r.kind \in Kind /\ r.unit \in Units
  BY BoundsAssumption DEF Row

\* Of finitely many rows one is the newest, and one the oldest.
LEMMA NewestAndOldest ==
  ASSUME NEW S \in SUBSET Row, IsFiniteSet(S), S # {}
  PROVE  /\ \E r \in S : \A s \in S : ~Newer(s, r)
         /\ \E r \in S : \A s \in S : ~Newer(r, s)
  <1>0. \A r \in S : r.id \in Nat /\ r.at \in Nat
    BY RowsHaveNumbers
  <1>1. /\ \A r \in S : ~Newer(r, r)
        /\ \A r, s, t \in S : Newer(r, s) /\ Newer(s, t) => Newer(r, t)
    BY <1>0 DEF Newer
  <1>2. \E r \in S : \A s \in S : ~Newer(s, r)
    <2> DEFINE R == {p \in S \X S : Newer(p[1], p[2])}
    <2>1. \A x, y \in S : <<x, y>> \in R <=> Newer(x, y)
      OBVIOUS
    <2> HIDE DEF R
    <2>2. /\ \A x \in S : <<x, x>> \notin R
          /\ \A x, y, z \in S : <<x, y>> \in R /\ <<y, z>> \in R => <<x, z>> \in R
      BY <1>1, <2>1
    <2>3. \E x \in S : \A y \in S : <<y, x>> \notin R
      BY <2>2, SomethingIsFirst
    <2> QED
      BY <2>1, <2>3
  <1>3. \E r \in S : \A s \in S : ~Newer(r, s)
    <2> DEFINE R == {p \in S \X S : Newer(p[2], p[1])}
    <2>1. \A x, y \in S : <<x, y>> \in R <=> Newer(y, x)
      OBVIOUS
    <2> HIDE DEF R
    <2>2. /\ \A x \in S : <<x, x>> \notin R
          /\ \A x, y, z \in S : <<x, y>> \in R /\ <<y, z>> \in R => <<x, z>> \in R
      BY <1>1, <2>1
    <2>3. \E x \in S : \A y \in S : <<y, x>> \notin R
      BY <2>2, SomethingIsFirst
    <2> QED
      BY <2>1, <2>3
  <1> QED
    BY <1>2, <1>3

\* What a query returns: rows of its selection, every row that is newer than one
\* of them, some row if there is any, and as many as asked for if it leaves one out.
LEMMA RecentReturns ==
  ASSUME NEW S \in SUBSET Row, IsFiniteSet(S), NEW k \in Nat
  PROVE  /\ Recent(S, k) \subseteq S /\ IsFiniteSet(Recent(S, k))
         /\ \A r \in Recent(S, k) : \A s \in S : Newer(s, r) => s \in Recent(S, k)
         /\ S # {} => Recent(S, k) # {}
         /\ Recent(S, k) # S => Cardinality(Recent(S, k)) >= Clamp(k)
  <1> DEFINE Ahead(r) == {s \in S : Newer(s, r)}
  <1>0. \A r \in S : r.id \in Nat /\ r.at \in Nat
    BY RowsHaveNumbers
  <1>1. Clamp(k) \in Nat \ {0}
    BY CapAssumption DEF Clamp
  <1>2. \A r \in S : IsFiniteSet(Ahead(r)) /\ Cardinality(Ahead(r)) \in Nat
    <2> TAKE r \in S
    <2>1. Ahead(r) \in SUBSET S
      OBVIOUS
    <2> QED
      BY <2>1, FS_Subset, FS_CardinalityType
  <1>3. Recent(S, k) = {r \in S : Cardinality(Ahead(r)) < Clamp(k)}
    BY DEF Recent
  <1>4. Recent(S, k) \subseteq S /\ IsFiniteSet(Recent(S, k))
    <2>1. Recent(S, k) \in SUBSET S
      BY <1>3
    <2> QED
      BY <2>1, FS_Subset
  <1>5. ASSUME NEW r \in Recent(S, k), NEW s \in S, Newer(s, r)
        PROVE  s \in Recent(S, k)
    <2>1. r \in S /\ Cardinality(Ahead(r)) < Clamp(k)
      BY <1>3
    <2>2. Ahead(s) \in SUBSET Ahead(r)
      BY <1>0, <1>5, <2>1 DEF Newer
    <2>3. Cardinality(Ahead(s)) <= Cardinality(Ahead(r))
      BY <1>2, <2>1, <2>2, FS_Subset
    <2> HIDE DEF Ahead
    <2> QED
      BY <1>1, <1>2, <1>3, <2>1, <2>3
  <1>6. ASSUME S # {} PROVE Recent(S, k) # {}
    <2>1. PICK r \in S : \A s \in S : ~Newer(s, r)
      BY <1>6, NewestAndOldest
    <2>2. Ahead(r) = {}
      BY <2>1
    <2>3. Cardinality(Ahead(r)) = 0
      BY <2>2, FS_EmptySet
    <2> HIDE DEF Ahead
    <2> QED
      BY <1>1, <1>3, <2>1, <2>3
  <1>7. ASSUME Recent(S, k) # S PROVE Cardinality(Recent(S, k)) >= Clamp(k)
    <2> DEFINE Rest == S \ Recent(S, k)
    <2>1. Rest # {} /\ Rest \in SUBSET Row /\ IsFiniteSet(Rest)
      BY <1>4, <1>7, FS_Difference
    <2> HIDE DEF Rest
    <2>2. PICK r \in Rest : \A s \in Rest : ~Newer(s, r)
      BY <2>1, NewestAndOldest
    <2> USE DEF Rest
    <2>3. r \in S /\ ~(Cardinality(Ahead(r)) < Clamp(k))
      BY <1>3
    <2>4. Ahead(r) \in SUBSET Recent(S, k)
      BY <2>2
    <2>5. Cardinality(Ahead(r)) <= Cardinality(Recent(S, k))
      BY <1>4, <2>4, FS_Subset
    <2>6. Cardinality(Recent(S, k)) \in Nat /\ Cardinality(Ahead(r)) \in Nat
      BY <1>2, <1>4, <2>3, FS_CardinalityType
    <2> HIDE DEF Ahead
    <2> QED
      BY <1>1, <2>3, <2>5, <2>6
  <1> QED
    BY <1>4, <1>5, <1>6, <1>7

\* The newest and the oldest time of finitely many rows: a time the clock can show.
LEMMA TimesAreRead ==
  ASSUME NEW S \in SUBSET Row, IsFiniteSet(S)
  PROVE  /\ Latest(S) \in 0..MaxTime /\ \A r \in S : Latest(S) >= r.at
         /\ Earliest(S) \in 0..MaxTime
  <1> DEFINE Times == {r.at : r \in S}
  <1>0. Times \in SUBSET (0..MaxTime) /\ MaxTime \in Nat /\ 0..MaxTime \in SUBSET Nat
    BY BoundsAssumption, RowsHaveNumbers
  <1>1. IsFiniteSet(0..MaxTime)
    BY <1>0, FS_Interval
  <1>2. \A T \in SUBSET (0..MaxTime) : IsFiniteSet(T)
    BY <1>1, FS_Subset
  <1>3. /\ Max(Times \cup {0}) \in Times \cup {0}
        /\ \A t \in Times \cup {0} : Max(Times \cup {0}) >= t
    <2> HIDE DEF Times
    <2>1. Times \cup {0} \in SUBSET (0..MaxTime) /\ Times \cup {0} # {}
      BY <1>0
    <2>2. Times \cup {0} \in SUBSET Nat /\ IsFiniteSet(Times \cup {0})
      BY <1>0, <1>2, <2>1
    <2> QED
      BY <2>1, <2>2, MaxIsIn
  <1>4. ASSUME S # {} PROVE Min(Times) \in Times
    <2>1. Times # {}
      BY <1>4
    <2> HIDE DEF Times
    <2>2. Times \in SUBSET Nat /\ IsFiniteSet(Times)
      BY <1>0, <1>2
    <2> QED
      BY <2>1, <2>2, MinIsIn
  <1>5. /\ Latest(S) = Max(Times \cup {0})
        /\ Earliest(S) = IF S = {} THEN 0 ELSE Min(Times)
    BY DEF Latest, Earliest
  <1>6. \A r \in S : r.at \in Times
    OBVIOUS
  <1> HIDE DEF Times
  <1>7. Latest(S) \in 0..MaxTime /\ \A r \in S : Latest(S) >= r.at
    <2>1. Latest(S) \in Times \cup {0}
      BY <1>3, <1>5
    <2>2. \A t \in Times \cup {0} : Latest(S) >= t
      BY <1>3, <1>5
    <2>3. \A t \in Times \cup {0} : t \in 0..MaxTime
      BY <1>0
    <2> QED
      BY <1>6, <2>1, <2>2, <2>3
  <1>8. Earliest(S) \in 0..MaxTime
    <2>1. CASE S = {}
      BY <1>0, <1>5, <2>1
    <2>2. CASE S # {}
      <3>1. Earliest(S) \in Times
        BY <1>4, <1>5, <2>2
      <3> QED
        BY <1>0, <3>1
    <2> QED
      BY <2>1, <2>2
  <1> QED
    BY <1>7, <1>8

-----------------------------------------------------------------------------
(* The table.                                                              *)

TableOK ==
  /\ rows \in SUBSET Row /\ last \in 0..MaxRows
  /\ \A r, s \in rows : r.id <= last /\ (r.id = s.id => r = s)

\* What every step leaves of the rows a reader has seen: nothing appears among them.
OnlyNewerRows ==
  /\ last <= last'
  /\ \A r \in rows' : r \in rows \/ r.id > last

\* The bounds are numbers.
LEMMA BoundsAreNumbers ==
  /\ Retention \in Nat /\ MaxRows \in Nat /\ MaxChanges \in Nat /\ MaxFaults \in Nat
  /\ MaxTime \in Nat \ {0} /\ Cap \in Nat \ {0}
  BY BoundsAssumption, CapAssumption

\* An append adds one row, with an id above all others and the time of the clock, or
\* none at all when the model's table is full.
LEMMA AppendAdds ==
  ASSUME TypeOK, TableIsFinite, NEW kind \in Kind, NEW u \in Units, Append(kind, u)
  PROVE  /\ TableOK' /\ TableIsFinite' /\ OnlyNewerRows /\ rows \subseteq rows'
         /\ \A r \in rows' \ rows : r.id > last /\ r.at = now /\ r.kind = kind /\ r.unit = u
         /\ last' < MaxRows =>
              \E r \in rows' : r.id > last /\ r.kind = kind /\ r.unit = u
         /\ rows' # rows => last < MaxRows
  <1> DEFINE row == [id |-> last + 1, at |-> now, kind |-> kind, unit |-> u]
  <1>0. /\ rows \in SUBSET Row /\ last \in 0..MaxRows /\ now \in 1..MaxTime
        /\ \A r, s \in rows : r.id <= last /\ (r.id = s.id => r = s)
        /\ MaxRows \in Nat /\ MaxTime \in Nat
    BY BoundsAreNumbers DEF TypeOK
  <1>1. \A r \in rows : r.id \in Nat
    BY <1>0, RowsHaveNumbers
  <1>2. CASE last = MaxRows
    <2>1. rows' = rows /\ last' = last
      BY <1>2 DEF Append, Insert, NextId
    <2> QED
      BY <1>0, <1>1, <1>2, <2>1 DEF TableOK, TableIsFinite, OnlyNewerRows
  <1>3. CASE last # MaxRows
    <2>1. rows' = rows \cup {row} /\ last' = last + 1
      BY <1>3 DEF Append, Insert, NextId
    <2>2. row \in Row /\ last + 1 \in 0..MaxRows /\ last < MaxRows
      BY <1>0, <1>3 DEF Row
    <2>3. row.id = last + 1 /\ row.at = now /\ row.kind = kind /\ row.unit = u
      OBVIOUS
    <2> HIDE DEF row
    <2>4. IsFiniteSet(rows')
      BY <2>1, FS_AddElement DEF TableIsFinite
    <2>5. \A r, s \in rows' : r.id <= last' /\ (r.id = s.id => r = s)
      BY <1>0, <1>1, <2>1, <2>3
    <2>6. TableOK'
      BY <1>0, <2>1, <2>2, <2>5 DEF TableOK
    <2>7. OnlyNewerRows
      BY <1>0, <2>1, <2>3 DEF OnlyNewerRows
    <2>8. row \in rows' /\ row.id > last
      BY <1>0, <2>1, <2>3
    <2>9. \A r \in rows' \ rows : r = row
      BY <2>1
    <2> QED
      BY <2>1, <2>2, <2>3, <2>4, <2>6, <2>7, <2>8, <2>9 DEF TableIsFinite
  <1> QED
    BY <1>2, <1>3

\* Rows that go leave the others as they were.
LEMMA PruneRemoves ==
  ASSUME TypeOK, TableIsFinite, Prune
  PROVE  /\ TableOK' /\ TableIsFinite' /\ OnlyNewerRows /\ rows' \subseteq rows
         /\ last' = last
         /\ \A r \in rows', t \in rows : r.at <= t.at => t \in rows'
  <1>0. /\ rows \in SUBSET Row /\ last \in 0..MaxRows /\ now \in 1..MaxTime
        /\ \A r, s \in rows : r.id <= last /\ (r.id = s.id => r = s)
        /\ MaxRows \in Nat /\ MaxTime \in Nat /\ Retention \in Nat
    BY BoundsAreNumbers DEF TypeOK
  <1>1. /\ rows' = {r \in rows : ~(r.at < now - Retention)} /\ last' = last
    BY DEF Prune, Expired
  <1>2. \A r \in rows : r.at \in Nat
    BY <1>0, RowsHaveNumbers
  <1>3. rows' \in SUBSET rows
    BY <1>1
  <1>4. TableIsFinite'
    BY <1>3, FS_Subset DEF TableIsFinite
  <1>5. TableOK' /\ OnlyNewerRows
    BY <1>0, <1>1, <1>3 DEF TableOK, OnlyNewerRows
  <1>6. \A r \in rows', t \in rows : r.at <= t.at => t \in rows'
    BY <1>0, <1>1, <1>2
  <1> QED
    BY <1>1, <1>3, <1>4, <1>5, <1>6

-----------------------------------------------------------------------------
(* Types.                                                                  *)

WalkOK ==
  walk \in [at : {"none", "more", "end"}, limit : 1..Cap, cursor : 0..MaxRows,
            got : SUBSET Row, first : SUBSET Row, again : BOOLEAN, missed : BOOLEAN]
TallyOK ==
  tally \in [at : {"none", "asked"}, left : SUBSET Queries, attention : 0..MaxTime,
             floor : 0..MaxTime, down : BOOLEAN, due : SUBSET Row, short : BOOLEAN]

\* What a step keeps of types and table.
Kept == TypeOK' /\ TableIsFinite' /\ OnlyNewerRows /\ (stepped => stepped')

\* A step that leaves the table alone has only the types of the rest to keep.
LEMMA TableLeftAlone ==
  ASSUME TypeOK, TableIsFinite, UNCHANGED table, TypeOK', stepped => stepped'
  PROVE  Kept
  <1>1. last \in Nat /\ last' = last /\ rows' = rows
    BY BoundsAreNumbers DEF TypeOK, table
  <1> QED
    BY <1>1 DEF Kept, TableIsFinite, OnlyNewerRows

\* The idle readers are typed.
LEMMA IdleReaders ==
  /\ NoWalk \in [at : {"none", "more", "end"}, limit : 1..Cap, cursor : 0..MaxRows,
                 got : SUBSET Row, first : SUBSET Row, again : BOOLEAN, missed : BOOLEAN]
  /\ NoTally \in [at : {"none", "asked"}, left : SUBSET Queries, attention : 0..MaxTime,
                  floor : 0..MaxTime, down : BOOLEAN, due : SUBSET Row, short : BOOLEAN]
  BY BoundsAreNumbers DEF NoWalk, NoTally

\* The clock keeps the types.
LEMMA ClockKeeps ==
  ASSUME TypeOK, TableIsFinite, Tick \/ StepBack
  PROVE  Kept
  <1> USE DEF clock, table, tasks, counts, Fault
  <1>1. CASE Tick
    <2>1. TypeOK' /\ UNCHANGED table /\ (stepped => stepped')
      BY <1>1, BoundsAreNumbers DEF TypeOK, Tick
    <2> QED
      BY <2>1, TableLeftAlone
  <1>2. CASE StepBack
    <2>1. TypeOK' /\ UNCHANGED table /\ (stepped => stepped')
      BY <1>2, BoundsAreNumbers DEF TypeOK, StepBack
    <2> QED
      BY <2>1, TableLeftAlone
  <1> QED
    BY <1>1, <1>2

\* So do the units, whatever happens to them.
LEMMA WorldKeeps ==
  ASSUME TypeOK, TableIsFinite, NEW u \in Units,
         Fails(u) \/ Recovers(u) \/ RestartByHand(u) \/ RestartByQuery(u)
  PROVE  Kept
  <1> USE DEF clock, table, tasks, counts, Change, Fault
  <1>0. UNCHANGED table
    BY DEF Fails, Recovers, RestartByHand, RestartByQuery
  <1>1. TypeOK' /\ (stepped => stepped')
    <2>1. CASE Fails(u)
      BY <2>1, BoundsAreNumbers DEF TypeOK, Fails
    <2>2. CASE Recovers(u)
      BY <2>2, BoundsAreNumbers DEF TypeOK, Recovers
    <2>3. CASE RestartByHand(u)
      BY <2>3, BoundsAreNumbers DEF TypeOK, RestartByHand, Outcome
    <2>4. CASE RestartByQuery(u)
      BY <2>4, BoundsAreNumbers DEF TypeOK, RestartByQuery, Outcome
    <2> QED
      BY <2>1, <2>2, <2>3, <2>4
  <1> QED
    BY <1>0, <1>1, TableLeftAlone

\* The steps that append a row about anything but a transition.
LEMMA OthersAppend ==
  ASSUME NEW u \in Units, AutofixActs(u) \/ Note(u) \/ RecordRestart(u)
  PROVE  /\ \E kind \in Kind \ {"failure_observed", "failure_cleared"} : Append(kind, u)
         /\ UNCHANGED <<clock, tasks, walk, tally, blemished>>
  <1>1. {"healed", "handed_back", "note", "restart"} \subseteq
          Kind \ {"failure_observed", "failure_cleared"}
    BY DEF Kind, Autofix
  <1>2. CASE AutofixActs(u)
    BY <1>1, <1>2 DEF AutofixActs
  <1>3. CASE Note(u)
    BY <1>1, <1>3 DEF Note
  <1>4. CASE RecordRestart(u)
    BY <1>1, <1>4 DEF RecordRestart
  <1> QED
    BY <1>2, <1>3, <1>4

\* They keep the types.
LEMMA OthersKeep ==
  ASSUME TypeOK, TableIsFinite, NEW u \in Units,
         AutofixActs(u) \/ Note(u) \/ RecordRestart(u)
  PROVE  Kept
  <1> USE DEF clock, tasks, counts, Change, Calm
  <1>1. PICK kind \in Kind : Append(kind, u)
    BY OthersAppend
  <1>2. TableOK' /\ TableIsFinite' /\ OnlyNewerRows
    BY <1>1, AppendAdds
  <1>3. UNCHANGED <<clock, tasks, walk, tally, blemished>>
    BY OthersAppend
  <1>4. /\ failing' \in SUBSET Units /\ restarted' \in SUBSET Units
        /\ changes' \in 0..MaxChanges /\ faults' \in 0..MaxFaults
    BY BoundsAreNumbers DEF TypeOK, AutofixActs, Note, RecordRestart
  <1>5. TypeOK'
    BY <1>2, <1>3, <1>4 DEF TypeOK, TableOK
  <1> QED
    BY <1>2, <1>3, <1>5 DEF Kept

\* A transition is appended as a row of its kind.
LEMMA TransitionIsAppended ==
  ASSUME NEW c \in Clients, NEW u \in Units, AppendTransition(c, u)
  PROVE  \E kind \in {"failure_observed", "failure_cleared"} :
           /\ Append(kind, u) /\ kind \in Kind
           /\ kind = IF u \in listing[c] THEN "failure_observed" ELSE "failure_cleared"
  BY DEF AppendTransition, Kind

\* The tasks that record transitions keep the types.
LEMMA TasksKeep ==
  ASSUME TypeOK, TableIsFinite, NEW c \in Clients, Poll(c) \/ CutOff(c)
  PROVE  Kept
  <1> USE DEF clock, counts, Calm, Fault
  <1>1. CASE List(c)
    <2>1. TypeOK' /\ UNCHANGED <<table, stepped>>
      BY <1>1, BoundsAreNumbers DEF TypeOK, List, table
    <2> QED
      BY <2>1, TableLeftAlone
  <1>2. CASE Compare(c)
    <2>1. SymDiff(listing[c], seen) \in SUBSET Units
      BY DEF TypeOK, SymDiff
    <2>2. TypeOK' /\ UNCHANGED <<table, stepped>>
      BY <1>2, <2>1, BoundsAreNumbers DEF TypeOK, Compare, table
    <2> QED
      BY <2>2, TableLeftAlone
  <1>3. CASE Finish(c)
    <2>1. TypeOK' /\ UNCHANGED <<table, stepped>>
      BY <1>3, BoundsAreNumbers DEF TypeOK, Finish, table
    <2> QED
      BY <2>1, TableLeftAlone
  <1>4. ASSUME NEW u \in Units, Write(c, u) PROVE Kept
    <2>1. TableOK' /\ TableIsFinite' /\ OnlyNewerRows
      BY <1>4, TransitionIsAppended, AppendAdds DEF Write
    <2>2. TypeOK'
      BY <1>4, <2>1 DEF TypeOK, TableOK, Write
    <2> QED
      BY <1>4, <2>1, <2>2 DEF Kept, Write
  <1>5. ASSUME NEW u \in Units, LoseRow(c, u) PROVE Kept
    <2>1. TypeOK' /\ UNCHANGED <<table, stepped>>
      BY <1>5, BoundsAreNumbers DEF TypeOK, LoseRow, table
    <2> QED
      BY <2>1, TableLeftAlone
  <1>6. CASE CutOff(c)
    <2>1. /\ pc' = [pc EXCEPT ![c] = "idle"]
          /\ listing' = [listing EXCEPT ![c] = {}] /\ todo' = [todo EXCEPT ![c] = {}]
          /\ UNCHANGED <<failing, clock, seen, restarted, walk, tally>>
          /\ faults' \in 0..MaxFaults /\ changes' = changes
      BY <1>6, BoundsAreNumbers DEF TypeOK, CutOff, DropTask
    <2>2. Written(c) \in SUBSET Units
      BY DEF TypeOK, Written, SymDiff
    <2>3. CASE blemished' = blemished \cup Written(c) /\ UNCHANGED table
      <3>1. TypeOK'
        BY <2>1, <2>2, <2>3 DEF TypeOK, table
      <3> QED
        BY <2>1, <2>3, <3>1, TableLeftAlone
    <2>4. ASSUME NEW u \in Units, AppendTransition(c, u),
                 blemished' = blemished \cup Written(c) \cup {u}
          PROVE  Kept
      <3>1. TableOK' /\ TableIsFinite' /\ OnlyNewerRows
        BY <2>4, TransitionIsAppended, AppendAdds
      <3>2. TypeOK'
        BY <2>1, <2>2, <2>4, <3>1 DEF TypeOK, TableOK
      <3> QED
        BY <2>1, <3>1, <3>2 DEF Kept
    <2> QED
      BY <1>6, <2>3, <2>4 DEF CutOff
  <1> QED
    BY <1>1, <1>2, <1>3, <1>4, <1>5, <1>6 DEF Poll

\* So do a restart of the daemon and the pruning of old rows.
LEMMA RestartKeeps ==
  ASSUME TypeOK, TableIsFinite, DaemonRestarts
  PROVE  Kept
  <1>1. \A c \in Clients : Written(c) \in SUBSET Units
    BY DEF TypeOK, Written, SymDiff
  <1>2. blemished' \in SUBSET Units
    BY <1>1 DEF DaemonRestarts, TypeOK
  <1>3. TypeOK' /\ UNCHANGED <<table, stepped>>
    BY <1>2, IdleReaders, BoundsAreNumbers DEF TypeOK, DaemonRestarts, table, clock, Fault
  <1> QED
    BY <1>3, TableLeftAlone

\* Pruning keeps the types.
LEMMA PruneKeeps ==
  ASSUME TypeOK, TableIsFinite, Prune
  PROVE  Kept
  <1>1. TableOK' /\ TableIsFinite' /\ OnlyNewerRows
    BY PruneRemoves
  <1>2. TypeOK'
    BY <1>1 DEF TypeOK, TableOK, Prune, clock, tasks, counts, Calm
  <1> QED
    BY <1>1, <1>2 DEF Kept, Prune, clock

-----------------------------------------------------------------------------
(* Pages.                                                                  *)

\* The oldest row of a page: every other row of the page is newer.
LEMMA OldestIsLast ==
  ASSUME TypeOK, NEW P \in SUBSET rows, IsFiniteSet(P), P # {}
  PROVE  OldestOf(P) \in P /\ \A s \in P \ {OldestOf(P)} : Newer(s, OldestOf(P))
  <1>0. /\ P \in SUBSET Row /\ \A r, s \in P : r.id = s.id => r = s
        /\ \A r \in P : r.id \in Nat /\ r.at \in Nat
    BY RowsHaveNumbers DEF TypeOK
  <1>1. PICK r \in P : \A s \in P : ~Newer(r, s)
    BY <1>0, NewestAndOldest
  <1>2. \A s \in P \ {r} : Newer(s, r)
    BY <1>0, <1>1 DEF Newer
  <1> QED
    BY <1>2 DEF OldestOf

\* What a page holds and where the next one goes on. While the clock only goes forward
\* the page has every row from the new cursor on, and the last page every row that was
\* left, since one more was asked for than it shows.
LEMMA PageIsCut ==
  ASSUME TypeOK, TableIsFinite, NEW limit \in 1..Cap, NEW cursor \in 0..MaxRows,
         NEW got, got = Recent(Before(cursor), limit + 1),
         NEW page, page = Recent(got, limit)
  PROVE  /\ page \subseteq Before(cursor) /\ page \subseteq Row
         /\ Cursor(got, limit) \in 0..MaxRows
         /\ cursor # 0 => Cursor(got, limit) < cursor
         /\ Chronological /\ ~stepped /\ Cursor(got, limit) # 0 =>
              /\ \A r \in page : r.id >= Cursor(got, limit)
              /\ \A r \in Before(cursor) : r.id >= Cursor(got, limit) => r \in page
         /\ Cursor(got, limit) = 0 /\ limit < Cap => page = Before(cursor)
  <1>0. /\ Before(cursor) \in SUBSET rows /\ Before(cursor) \in SUBSET Row
        /\ IsFiniteSet(Before(cursor)) /\ limit \in Nat /\ limit + 1 \in Nat
    <2>1. Before(cursor) \in SUBSET rows
      BY DEF Before
    <2>2. IsFiniteSet(Before(cursor))
      BY <2>1, FS_Subset DEF TableIsFinite
    <2> QED
      BY <2>1, <2>2, BoundsAreNumbers DEF TypeOK
  <1>1. /\ got \subseteq Before(cursor) /\ IsFiniteSet(got)
        /\ \A r \in got : \A s \in Before(cursor) : Newer(s, r) => s \in got
        /\ got # Before(cursor) => Cardinality(got) >= Clamp(limit + 1)
    BY <1>0, RecentReturns
  <1>2. /\ page \subseteq got /\ IsFiniteSet(page)
        /\ \A r \in page : \A s \in got : Newer(s, r) => s \in page
        /\ got # {} => page # {}
        /\ page # got => Cardinality(page) >= Clamp(limit)
    <2>1. got \in SUBSET Row
      BY <1>0, <1>1
    <2> QED
      BY <1>0, <1>1, <2>1, RecentReturns
  <1>3. Cardinality(got) \in Nat /\ Cardinality(page) \in Nat
    BY <1>1, <1>2, FS_CardinalityType
  <1>4. CASE Cardinality(got) > limit
    <2> DEFINE o == OldestOf(page)
    <2>1. got # {}
      BY <1>0, <1>4, FS_EmptySet
    <2>2. page \in SUBSET rows /\ page # {}
      BY <1>0, <1>1, <1>2, <2>1
    <2>3. o \in page /\ \A s \in page \ {o} : Newer(s, o)
      BY <1>2, <2>2, OldestIsLast
    <2>4. Cursor(got, limit) = o.id
      BY <1>4 DEF Cursor
    <2> HIDE DEF o
    <2>5. \A r \in rows : r.id \in 1..MaxRows /\ r.id \in Nat /\ r.at \in Nat
      BY RowsHaveNumbers DEF TypeOK
    <2>6. o.id \in 1..MaxRows /\ o \in rows
      BY <2>2, <2>3, <2>5
    <2>7. ASSUME Chronological, ~stepped, NEW r \in page PROVE r.id >= o.id
      <3>1. r \in rows
        BY <2>2
      <3>2. r.id < o.id => r.at <= o.at
        BY <2>6, <2>7, <3>1 DEF Chronological
      <3>3. r # o => Newer(r, o)
        BY <2>3
      <3> QED
        BY <2>5, <2>6, <3>1, <3>2, <3>3 DEF Newer
    <2>8. ASSUME Chronological, ~stepped, NEW r \in Before(cursor), r.id >= o.id
          PROVE  r \in page
      <3>1. r \in rows
        BY <1>0
      <3>2. o.id < r.id => o.at <= r.at
        BY <2>6, <2>8, <3>1 DEF Chronological
      <3>3. r = o \/ o.id < r.id
        BY <2>5, <2>6, <2>8, <3>1 DEF TypeOK
      <3>4. r = o \/ Newer(r, o)
        BY <2>5, <2>6, <3>1, <3>2, <3>3 DEF Newer
      <3>5. o \in got
        BY <1>2, <2>3
      <3> QED
        BY <1>1, <1>2, <2>3, <3>4, <3>5
    <2>9. cursor # 0 => o.id < cursor
      <3>1. o \in Before(cursor)
        BY <1>1, <1>2, <2>3
      <3> QED
        BY <3>1 DEF Before
    <2> QED
      BY <1>0, <1>1, <1>2, <2>4, <2>6, <2>7, <2>8, <2>9
  <1>5. CASE ~(Cardinality(got) > limit)
    <2>1. Cursor(got, limit) = 0
      BY <1>5 DEF Cursor
    <2>2. ASSUME limit < Cap PROVE page = Before(cursor)
      <3>1. Clamp(limit + 1) = limit + 1 /\ Clamp(limit) = limit
        BY <2>2, BoundsAreNumbers DEF Clamp
      <3>2. got = Before(cursor)
        BY <1>0, <1>1, <1>3, <1>5, <3>1
      <3>3. page # got => Cardinality(page) < Cardinality(got)
        <4>1. page \in SUBSET got
          BY <1>2
        <4>2. /\ Cardinality(page) <= Cardinality(got)
              /\ Cardinality(got) = Cardinality(page) => got = page
          BY <1>1, <4>1, FS_Subset
        <4> QED
          BY <1>3, <4>2
      <3> QED
        BY <1>0, <1>2, <1>3, <1>5, <3>1, <3>2, <3>3
    <2> QED
      BY <1>0, <1>1, <1>2, <2>1, <2>2, BoundsAreNumbers
  <1> QED
    BY <1>4, <1>5

\* Turning a page keeps the client's record typed.
LEMMA TurnIsTyped ==
  ASSUME TypeOK, TableIsFinite, NEW start \in SUBSET Row, NEW first \in SUBSET Row,
         NEW limit \in 1..Cap, NEW cursor \in 0..MaxRows, Turn(start, limit, cursor, first)
  PROVE  WalkOK'
  <1> DEFINE got == Recent(Before(cursor), limit + 1)
             page == Recent(got, limit)
             older == Cursor(got, limit)
  <1>1. page \subseteq Row /\ older \in 0..MaxRows
    BY PageIsCut
  <1>2. walk' = [at |-> IF older = 0 THEN "end" ELSE "more", limit |-> limit,
                 cursor |-> older, got |-> start \cup page, first |-> first,
                 again |-> walk.again \/ start \cap page # {}, missed |-> FALSE]
    BY DEF Turn
  <1>3. (walk.again \/ start \cap page # {}) \in BOOLEAN
    BY DEF TypeOK
  <1> HIDE DEF page, older
  <1> QED
    BY <1>1, <1>2, <1>3 DEF WalkOK

\* So does a page that comes back empty.
LEMMA EmptyPageIsTyped ==
  ASSUME TypeOK, NEW start \in SUBSET Row, NEW first \in SUBSET Row,
         NEW limit \in 1..Cap, EmptyPage(start, limit, first)
  PROVE  WalkOK'
  <1>1. 0 \in 0..MaxRows /\ walk.again \in BOOLEAN
    BY BoundsAreNumbers DEF TypeOK
  <1> QED
    BY <1>1 DEF EmptyPage, WalkOK

\* Turning a page from where all is told so far leaves all told so far.
LEMMA TurnIsComplete ==
  ASSUME TypeOK, TableIsFinite, Chronological, ~stepped,
         NEW start \in SUBSET Row, NEW first \in SUBSET Row,
         NEW limit \in 1..Cap, limit < Cap, NEW cursor \in 0..MaxRows,
         Turn(start, limit, cursor, first),
         ~walk.again, cursor = 0 => start = {}, \A r \in start : r.id >= cursor,
         \A r \in first \cap rows : cursor # 0 /\ r.id >= cursor => r \in start
  PROVE  /\ walk'.limit = limit /\ walk'.first = first
         /\ ~walk'.again /\ (walk'.at = "end" <=> walk'.cursor = 0)
         /\ walk'.at \in {"more", "end"}
         /\ \A r \in walk'.got : r.id >= walk'.cursor
         /\ \A r \in walk'.first \cap rows : r.id >= walk'.cursor => r \in walk'.got
  <1> DEFINE got == Recent(Before(cursor), limit + 1)
             page == Recent(got, limit)
             older == Cursor(got, limit)
  <1>1. /\ page \subseteq Before(cursor) /\ page \subseteq Row /\ older \in 0..MaxRows
        /\ cursor # 0 => older < cursor
        /\ older # 0 => /\ \A r \in page : r.id >= older
                        /\ \A r \in Before(cursor) : r.id >= older => r \in page
        /\ older = 0 => page = Before(cursor)
    BY PageIsCut
  <1>2. walk' = [at |-> IF older = 0 THEN "end" ELSE "more", limit |-> limit,
                 cursor |-> older, got |-> start \cup page, first |-> first,
                 again |-> walk.again \/ start \cap page # {}, missed |-> FALSE]
    BY DEF Turn
  <1> HIDE DEF page, older
  <1>3. /\ \A r \in rows : r.id \in Nat
        /\ \A r \in start : r.id \in Nat
        /\ \A r \in page : r.id \in Nat
        /\ older \in Nat /\ cursor \in Nat
    BY <1>1, RowsHaveNumbers, BoundsAreNumbers DEF TypeOK
  <1>4. start \cap page = {}
    BY <1>1, <1>3 DEF Before
  <1>5. \A r \in start \cup page : r.id >= older
    BY <1>1, <1>3
  <1>6. ASSUME NEW r \in first \cap rows, r.id >= older PROVE r \in start \cup page
    <2>1. CASE cursor # 0 /\ r.id >= cursor
      BY <2>1
    <2>2. CASE cursor = 0 \/ ~(r.id >= cursor)
      <3>1. r \in Before(cursor)
        BY <1>3, <2>2 DEF Before
      <3> QED
        BY <1>1, <1>6, <3>1
    <2> QED
      BY <2>1, <2>2
  <1> QED
    BY <1>2, <1>4, <1>5, <1>6

\* The reader that pages back keeps the types.
LEMMA WalkKeepsTypes ==
  ASSUME TypeOK, TableIsFinite, OpenTimeline \/ Older \/ CloseTimeline
  PROVE  Kept
  <1>1. UNCHANGED <<failing, clock, table, tasks, restarted, tally, blemished>>
    BY DEF OpenTimeline, Older, CloseTimeline
  <1>2. changes' \in 0..MaxChanges /\ faults' \in 0..MaxFaults
    BY BoundsAreNumbers DEF TypeOK, OpenTimeline, Older, CloseTimeline, Calm, Fault, counts
  <1>3. WalkOK'
    <2>1. CASE OpenTimeline
      <3>1. PICK limit \in Limits : Turn({}, limit, 0, rows) \/ EmptyPage({}, limit, rows)
        BY <2>1 DEF OpenTimeline
      <3>2. limit \in 1..Cap /\ rows \in SUBSET Row /\ {} \in SUBSET Row /\ 0 \in 0..MaxRows
        BY LimitsAssumption, BoundsAreNumbers DEF TypeOK
      <3> QED
        BY <3>1, <3>2, TurnIsTyped, EmptyPageIsTyped
    <2>2. CASE Older /\ Turn(walk.got, walk.limit, walk.cursor, walk.first)
      <3>1. /\ walk.got \in SUBSET Row /\ walk.first \in SUBSET Row
            /\ walk.limit \in 1..Cap /\ walk.cursor \in 0..MaxRows
        BY DEF TypeOK
      <3> QED
        BY <2>2, <3>1, TurnIsTyped
    <2>3. CASE Older /\ EmptyPage(walk.got, walk.limit, walk.first)
      <3>1. /\ walk.got \in SUBSET Row /\ walk.first \in SUBSET Row /\ walk.limit \in 1..Cap
        BY DEF TypeOK
      <3> QED
        BY <2>3, <3>1, EmptyPageIsTyped
    <2>4. CASE CloseTimeline
      BY <2>4, IdleReaders DEF CloseTimeline, WalkOK
    <2> QED
      BY <2>1, <2>2, <2>3, <2>4 DEF Older
  <1>4. TypeOK'
    BY <1>1, <1>2, <1>3 DEF TypeOK, WalkOK, clock, table, tasks
  <1> QED
    BY <1>1, <1>4, TableLeftAlone DEF clock

-----------------------------------------------------------------------------
(* The ledger's reads.                                                     *)

\* A query by kind that succeeds finds rows of the table whose newest times are times.
LEMMA KindsAreFound ==
  ASSUME TypeOK, TableIsFinite, NEW kinds, NEW found, found = Recent(OfKind(rows, kinds), Cap)
  PROVE  /\ found \subseteq rows /\ Latest(Attention(found)) \in 0..MaxTime
         /\ \A r \in Attention(found) : Latest(Attention(found)) >= r.at
  <1>1. OfKind(rows, kinds) \in SUBSET rows /\ rows \in SUBSET Row
    BY DEF OfKind, TypeOK
  <1>2. OfKind(rows, kinds) \in SUBSET Row /\ IsFiniteSet(OfKind(rows, kinds)) /\ Cap \in Nat
    BY <1>1, FS_Subset, BoundsAreNumbers DEF TableIsFinite
  <1>3. found \subseteq OfKind(rows, kinds) /\ IsFiniteSet(found)
    BY <1>2, RecentReturns
  <1>4. Attention(found) \in SUBSET found
    BY DEF Attention, OfKind
  <1>5. Attention(found) \in SUBSET Row /\ IsFiniteSet(Attention(found))
    BY <1>2, <1>3, <1>4, FS_Subset
  <1> QED
    BY <1>1, <1>3, <1>5, TimesAreRead

\* The larger of two times is one of them.
LEMMA LaterOfTwo ==
  ASSUME NEW a \in 0..MaxTime, NEW b \in 0..MaxTime
  PROVE  Max({a, b}) \in 0..MaxTime /\ Max({a, b}) >= a /\ Max({a, b}) >= b
  <1>1. {a, b} \in SUBSET Nat /\ {a, b} # {}
    BY BoundsAreNumbers
  <1>2. IsFiniteSet({a, b})
    <2>1. {a, b} = {a} \cup {b} /\ IsFiniteSet({a})
      BY FS_Singleton
    <2> QED
      BY <2>1, FS_AddElement
  <1>3. Max({a, b}) \in {a, b} /\ \A y \in {a, b} : Max({a, b}) >= y
    BY <1>1, <1>2, MaxIsIn
  <1> QED
    BY <1>3

\* What a query by kind makes of the tally: typed, and one query less to come.
LEMMA KindsAreRead ==
  ASSUME TypeOK, TableIsFinite, NEW query, NEW kinds, ReadKinds(query, kinds)
  PROVE  /\ TallyOK' /\ tally'.at = tally.at /\ tally'.due = tally.due
         /\ tally'.left = tally.left \ {query}
         /\ UNCHANGED <<failing, clock, table, tasks, restarted, walk, blemished>>
         /\ changes' \in 0..MaxChanges /\ faults' \in 0..MaxFaults
         /\ ~tally'.short =>
              /\ ~tally.short /\ tally'.attention >= tally.attention
              /\ \A r \in Attention(OfKind(rows, kinds)) : tally'.attention >= r.at
  <1> DEFINE found == Recent(OfKind(rows, kinds), Cap)
             newest == Latest(Attention(found))
             top == Max({tally.attention, newest})
  <1>0. TallyOK
    BY DEF TypeOK, TallyOK
  <1>1. /\ UNCHANGED <<failing, clock, table, tasks, restarted, walk, blemished>>
        /\ changes' \in 0..MaxChanges /\ faults' \in 0..MaxFaults
    BY BoundsAreNumbers DEF ReadKinds, TypeOK, Calm, Fault, counts
  <1>2. CASE tally' = [tally EXCEPT !.left = @ \ {query},
                         !.attention = top, !.short = @ \/ found # OfKind(rows, kinds)]
    <2>1. newest \in 0..MaxTime /\ \A r \in Attention(found) : newest >= r.at
      BY KindsAreFound
    <2>2. tally.attention \in 0..MaxTime
      BY <1>0 DEF TallyOK
    <2> HIDE DEF newest
    <2>3. top \in 0..MaxTime /\ top >= tally.attention /\ top >= newest
      BY <2>1, <2>2, LaterOfTwo
    <2> HIDE DEF top, found
    <2>4. TallyOK' /\ tally'.at = tally.at /\ tally'.due = tally.due
          /\ tally'.left = tally.left \ {query}
          /\ tally'.attention = top
          /\ tally'.short = (tally.short \/ found # OfKind(rows, kinds))
      <3>1. (tally.short \/ found # OfKind(rows, kinds)) \in BOOLEAN
        BY <1>0 DEF TallyOK
      <3> QED
        BY <1>0, <1>2, <2>3, <3>1 DEF TallyOK
    <2>5. ASSUME ~tally'.short, NEW r \in Attention(OfKind(rows, kinds))
          PROVE  top >= r.at
      <3>1. r \in Attention(found)
        BY <2>4, <2>5
      <3>2. newest >= r.at
        BY <2>1, <3>1
      <3>3. r.at \in Nat
        BY RowsHaveNumbers DEF Attention, OfKind, TypeOK
      <3> QED
        BY <2>1, <2>3, <3>2, <3>3, BoundsAreNumbers
    <2> QED
      BY <1>1, <2>3, <2>4, <2>5
  <1>3. CASE tally' = [tally EXCEPT !.left = @ \ {query}, !.short = TRUE]
    BY <1>0, <1>1, <1>3 DEF TallyOK
  <1> QED
    BY <1>2, <1>3 DEF ReadKinds

\* The ledger's steps keep the types.
LEMMA LedgerKeepsTypes ==
  ASSUME TypeOK, TableIsFinite,
         AskLedger \/ ReadAutofix \/ ReadRestarts \/ ReadEarliest \/ ReadFailures \/ ReplyLedger
  PROVE  Kept
  <1>0. TallyOK
    BY DEF TypeOK, TallyOK
  <1>1. /\ UNCHANGED <<failing, clock, table, tasks, restarted, walk, blemished>>
        /\ changes' \in 0..MaxChanges /\ faults' \in 0..MaxFaults
    <2>1. /\ UNCHANGED <<failing, clock, table, tasks, restarted, walk, blemished>>
          /\ Calm \/ Fault
      BY DEF AskLedger, ReadAutofix, ReadRestarts, ReadKinds, ReadEarliest, ReadFailures,
             ReplyLedger
    <2> QED
      BY <2>1, BoundsAreNumbers DEF TypeOK, Calm, Fault, counts
  <1>2. TallyOK'
    <2>1. CASE AskLedger
      <3>1. OfKind(rows, {"handed_back", "restart"}) \in SUBSET Row
        BY DEF OfKind, TypeOK
      <3>2. NoTally \in [at : {"none", "asked"}, left : SUBSET Queries, attention : 0..MaxTime,
                         floor : 0..MaxTime, down : BOOLEAN, due : SUBSET Row, short : BOOLEAN]
        BY IdleReaders
      <3> QED
        BY <2>1, <3>1, <3>2 DEF AskLedger, TallyOK
    <2>2. CASE ReadAutofix \/ ReadRestarts
      BY <2>2, KindsAreRead DEF ReadAutofix, ReadRestarts
    <2>3. CASE ReadEarliest
      <3>1. \A r \in rows : r.at \in 0..MaxTime
        BY RowsHaveNumbers, BoundsAreNumbers DEF TypeOK, Row
      <3>2. PICK at \in {0} \cup {r.at : r \in rows} :
               tally' = [tally EXCEPT !.left = @ \ {"earliest"}, !.floor = at]
        BY <2>3 DEF ReadEarliest
      <3>3. at \in 0..MaxTime
        BY <3>1, BoundsAreNumbers
      <3> QED
        BY <1>0, <3>2, <3>3 DEF TallyOK
    <2>4. CASE ReadFailures
      BY <1>0, <2>4 DEF ReadFailures, TallyOK
    <2>5. CASE ReplyLedger
      BY <2>5, IdleReaders DEF ReplyLedger, TallyOK
    <2> QED
      BY <2>1, <2>2, <2>3, <2>4, <2>5
  <1>3. TypeOK'
    BY <1>1, <1>2 DEF TypeOK, TallyOK, clock, table, tasks
  <1> QED
    BY <1>1, <1>3, TableLeftAlone DEF clock

\* Every step keeps the types and shows readers nothing new among the rows they saw.
LEMMA StepKeeps ==
  ASSUME TypeOK, TableIsFinite, [Next]_vars
  PROVE  Kept
  <1>1. CASE UNCHANGED vars
    <2>1. TypeOK' /\ UNCHANGED <<table, stepped>>
      BY <1>1 DEF TypeOK, vars, clock, table, tasks, counts
    <2> QED
      BY <2>1, TableLeftAlone
  <1>2. CASE Next
    <2>1. ASSUME NEW u \in Units,
                 \/ Fails(u) \/ Recovers(u) \/ AutofixActs(u)
                 \/ RestartByHand(u) \/ RestartByQuery(u) \/ RecordRestart(u) \/ Note(u)
          PROVE  Kept
      BY <2>1, WorldKeeps, OthersKeep
    <2>2. CASE Tick \/ StepBack
      BY <2>2, ClockKeeps
    <2>3. CASE \E c \in Clients : Poll(c) \/ CutOff(c)
      BY <2>3, TasksKeep
    <2>4. CASE Prune \/ DaemonRestarts
      BY <2>4, PruneKeeps, RestartKeeps
    <2>5. CASE OpenTimeline \/ Older \/ CloseTimeline
      BY <2>5, WalkKeepsTypes
    <2>6. CASE \/ AskLedger \/ ReadAutofix \/ ReadRestarts
               \/ ReadEarliest \/ ReadFailures \/ ReplyLedger
      BY <2>6, LedgerKeepsTypes
    <2> QED
      BY <1>2, <2>1, <2>2, <2>3, <2>4, <2>5, <2>6 DEF Next
  <1> QED
    BY <1>1, <1>2

-----------------------------------------------------------------------------
(* Ids and times.                                                          *)

\* A step leaves the table alone while the clock goes on, adds a row or prunes.
LEMMA StepOnTable ==
  ASSUME TypeOK, [Next]_vars
  PROVE  \/ UNCHANGED table /\ (~stepped' => ~stepped /\ now' >= now)
         \/ UNCHANGED clock /\ \E kind \in Kind, u \in Units : Append(kind, u)
         \/ UNCHANGED clock /\ Prune
  <1>0. now \in Nat
    BY BoundsAreNumbers DEF TypeOK
  <1>1. CASE UNCHANGED vars
    BY <1>0, <1>1 DEF vars, clock, table
  <1>2. ASSUME NEW u \in Units,
               Fails(u) \/ Recovers(u) \/ RestartByHand(u) \/ RestartByQuery(u)
        PROVE  UNCHANGED <<table, clock>>
    BY <1>2 DEF Fails, Recovers, RestartByHand, RestartByQuery
  <1>3. ASSUME NEW u \in Units, AutofixActs(u) \/ Note(u) \/ RecordRestart(u)
        PROVE  UNCHANGED clock /\ \E kind \in Kind : Append(kind, u)
    BY <1>3, OthersAppend
  <1>4. CASE Tick \/ StepBack
    BY <1>0, <1>4 DEF Tick, StepBack
  <1>5. ASSUME NEW c \in Clients, Poll(c) \/ CutOff(c)
        PROVE  /\ UNCHANGED clock
               /\ UNCHANGED table \/ \E kind \in Kind, u \in Units : Append(kind, u)
    <2>1. ASSUME NEW u \in Units, Write(c, u) PROVE UNCHANGED clock /\ AppendTransition(c, u)
      BY <2>1 DEF Write
    <2>2. CASE List(c) \/ Compare(c) \/ Finish(c) \/ \E u \in Units : LoseRow(c, u)
      BY <2>2 DEF List, Compare, Finish, LoseRow
    <2>3. CASE CutOff(c)
      BY <2>3, TransitionIsAppended DEF CutOff
    <2> QED
      BY <1>5, <2>1, <2>2, <2>3, TransitionIsAppended DEF Poll
  <1>6. ASSUME DaemonRestarts \/ OpenTimeline \/ Older \/ CloseTimeline
        PROVE  UNCHANGED <<table, clock>>
    BY <1>6 DEF DaemonRestarts, OpenTimeline, Older, CloseTimeline
  <1>7. ASSUME AskLedger \/ ReadEarliest \/ ReadFailures \/ ReplyLedger
        PROVE  UNCHANGED <<table, clock>>
    BY <1>7 DEF AskLedger, ReadEarliest, ReadFailures, ReplyLedger
  <1>8. ASSUME ReadAutofix \/ ReadRestarts
        PROVE  UNCHANGED <<table, clock>>
    BY <1>8 DEF ReadAutofix, ReadRestarts, ReadKinds
  <1>9. CASE Prune
    BY <1>9 DEF Prune
  <1>10. UNCHANGED <<table, clock>> => UNCHANGED table /\ (~stepped' => ~stepped /\ now' >= now)
    BY <1>0 DEF clock
  <1> QED
    BY <1>1, <1>2, <1>3, <1>4, <1>5, <1>6, <1>7, <1>8, <1>9, <1>10 DEF Next

\* While the clock only goes forward a later id never has an earlier time.
LEMMA StaysChronological ==
  ASSUME TypeOK, TableIsFinite, Chronological, [Next]_vars
  PROVE  Chronological'
  <1> SUFFICES ASSUME ~stepped'
               PROVE  /\ \A r \in rows' : r.at <= now'
                      /\ \A r, s \in rows' : r.id < s.id => r.at <= s.at
    BY DEF Chronological
  <1>0. /\ now \in Nat /\ last \in Nat /\ now' \in Nat
        /\ \A r \in rows : r.at \in Nat /\ r.id \in Nat /\ r.id <= last
    BY StepKeeps, RowsHaveNumbers, BoundsAreNumbers DEF TypeOK, Kept
  <1>1. CASE UNCHANGED table /\ (~stepped' => ~stepped /\ now' >= now)
    BY <1>0, <1>1 DEF table, Chronological
  <1>2. ASSUME UNCHANGED clock, NEW kind \in Kind, NEW u \in Units, Append(kind, u)
        PROVE  /\ \A r \in rows' : r.at <= now'
               /\ \A r, s \in rows' : r.id < s.id => r.at <= s.at
    <2>1. \A r \in rows' \ rows : r.id > last /\ r.at = now
      BY <1>2, AppendAdds
    <2>2. now' = now /\ ~stepped
      BY <1>2 DEF clock
    <2>3. /\ \A r \in rows : r.at <= now
          /\ \A r, s \in rows : r.id < s.id => r.at <= s.at
      BY <2>2 DEF Chronological
    <2>4. \A r \in rows' : r.at <= now'
      BY <1>0, <2>1, <2>2, <2>3
    <2>5. ASSUME NEW r \in rows', NEW s \in rows', r.id < s.id PROVE r.at <= s.at
      <3>1. CASE s \in rows
        <4>1. r \in rows
          <5>1. r \notin rows => r.id > last
            BY <2>1
          <5>2. r.id \in Nat
            BY RowsHaveNumbers, StepKeeps DEF Kept, TypeOK
          <5> QED
            BY <1>0, <2>5, <3>1, <5>1, <5>2
        <4> QED
          BY <2>3, <2>5, <3>1, <4>1
      <3>2. CASE s \notin rows
        BY <2>1, <2>2, <2>4, <3>2
      <3> QED
        BY <3>1, <3>2
    <2> QED
      BY <2>4, <2>5
  <1>3. CASE UNCHANGED clock /\ Prune
    <2>1. rows' \subseteq rows
      BY <1>3, PruneRemoves
    <2> QED
      BY <1>3, <2>1 DEF clock, Chronological
  <1> QED
    BY <1>1, <1>2, <1>3, StepOnTable

-----------------------------------------------------------------------------
(* Transitions alternate.                                                  *)

\* Whoever is not a task that records transitions, nor the end of the daemon, leaves
\* those tasks alone and adds no transition to the table.
LEMMA OthersLeaveTheRecord ==
  ASSUME [Next]_vars, ~(\E c \in Clients : Poll(c) \/ CutOff(c)), ~DaemonRestarts
  PROVE  /\ UNCHANGED <<tasks, blemished>>
         /\ \/ UNCHANGED table
            \/ Prune
            \/ \E kind \in Kind \ Transition, u \in Units : Append(kind, u)
  <1>1. CASE UNCHANGED vars
    BY <1>1 DEF vars
  <1>2. ASSUME NEW u \in Units,
               Fails(u) \/ Recovers(u) \/ RestartByHand(u) \/ RestartByQuery(u)
        PROVE  UNCHANGED <<tasks, blemished, table>>
    BY <1>2 DEF Fails, Recovers, RestartByHand, RestartByQuery
  <1>3. ASSUME NEW u \in Units, AutofixActs(u) \/ RecordRestart(u) \/ Note(u)
        PROVE  /\ UNCHANGED <<tasks, blemished>>
               /\ \E kind \in Kind \ Transition : Append(kind, u)
    BY <1>3, OthersAppend DEF Transition
  <1>4. ASSUME Tick \/ StepBack \/ OpenTimeline \/ Older \/ CloseTimeline
        PROVE  UNCHANGED <<tasks, blemished, table>>
    BY <1>4 DEF Tick, StepBack, OpenTimeline, Older, CloseTimeline
  <1>5. ASSUME \/ AskLedger \/ ReadAutofix \/ ReadRestarts
               \/ ReadEarliest \/ ReadFailures \/ ReplyLedger
        PROVE  UNCHANGED <<tasks, blemished, table>>
    BY <1>5 DEF AskLedger, ReadAutofix, ReadRestarts, ReadKinds, ReadEarliest,
                ReadFailures, ReplyLedger
  <1>6. CASE Prune
    BY <1>6 DEF Prune
  <1> QED
    BY <1>1, <1>2, <1>3, <1>4, <1>5, <1>6 DEF Next

\* Who compares and writes has the lock, and writes what is new in its listing.
LEMMA WritersStay ==
  ASSUME TypeOK, Writers, [Next]_vars
  PROVE  Writers'
  <1>0. /\ pc \in [Clients -> {"idle", "listed", "writing"}]
        /\ listing \in [Clients -> SUBSET Units] /\ todo \in [Clients -> SUBSET Units]
    BY DEF TypeOK
  <1>1. CASE UNCHANGED tasks
    BY <1>1 DEF Writers, tasks
  <1>2. ASSUME NEW c \in Clients, Poll(c) \/ CutOff(c) PROVE Writers'
    <2>1. CASE List(c)
      BY <1>0, <2>1 DEF Writers, List
    <2>2. CASE Compare(c)
      BY <1>0, <2>2 DEF Writers, Compare, LockFree
    <2>3. CASE Finish(c)
      BY <1>0, <2>3 DEF Writers, Finish
    <2>4. ASSUME NEW u \in Units, Write(c, u) \/ LoseRow(c, u) PROVE Writers'
      BY <1>0, <2>4 DEF Writers, Write, LoseRow
    <2>5. CASE CutOff(c)
      BY <1>0, <2>5 DEF Writers, CutOff, DropTask
    <2> QED
      BY <1>2, <2>1, <2>2, <2>3, <2>4, <2>5 DEF Poll
  <1>3. CASE DaemonRestarts
    BY <1>3 DEF Writers, DaemonRestarts
  <1> QED
    BY <1>1, <1>2, <1>3, OthersLeaveTheRecord

\* A step that flips no record, appends no transition of a unit whose record is whole
\* and takes no row without those before it keeps both facts about the record.
LEMMA RecordIsKept ==
  ASSUME RecordFollows, TransitionsAlternate, stepped => stepped', last <= last',
         last \in 0..MaxRows, last' \in 0..MaxRows, blemished \subseteq blemished',
         \A u \in Units \ blemished' : LastWord(u)' = LastWord(u),
         \A r \in rows' \ rows : r.kind \notin Transition \/ r.unit \in blemished',
         ~stepped => \A r \in rows \cap rows', t \in rows : r.id < t.id => t \in rows'
  PROVE  RecordFollows' /\ TransitionsAlternate'
  <1>0. MaxRows \in Nat
    BY BoundsAreNumbers
  <1>1. ASSUME NEW u \in Units \ blemished', ~stepped', last' < MaxRows,
               NEW r \in OfKind(rows', Transition), r.unit = u, r.kind # LastWord(u)'
        PROVE  \E t \in rows' : t.unit = u /\ t.kind = LastWord(u)' /\ r.id < t.id
    <2>1. r \in rows' /\ r \in rows /\ r \in OfKind(rows, Transition) /\ r.kind # LastWord(u)
      BY <1>1 DEF OfKind
    <2>2. last < MaxRows /\ ~stepped /\ u \in Units \ blemished
      BY <1>0, <1>1
    <2>3. PICK t \in rows : t.unit = u /\ t.kind = LastWord(u) /\ r.id < t.id
      BY <1>1, <2>1, <2>2 DEF RecordFollows
    <2>4. t \in rows'
      BY <2>1, <2>2, <2>3
    <2> QED
      BY <1>1, <2>3, <2>4
  <1>2. ASSUME NEW r \in OfKind(rows', Transition), NEW s \in OfKind(rows', Transition),
               r.unit = s.unit, r.unit \notin blemished', ~stepped',
               r.kind = s.kind, r.id < s.id
        PROVE  \E t \in rows' : /\ t.unit = r.unit /\ r.id < t.id /\ t.id < s.id
                                /\ t.kind \in Transition \ {r.kind}
    <2>1. /\ r \in OfKind(rows, Transition) /\ s \in OfKind(rows, Transition)
          /\ r \in rows \cap rows' /\ ~stepped /\ r.unit \notin blemished
      BY <1>2 DEF OfKind
    <2>2. PICK t \in rows : /\ t.unit = r.unit /\ r.id < t.id /\ t.id < s.id
                            /\ t.kind \in Transition \ {r.kind}
      BY <1>2, <2>1 DEF TransitionsAlternate, Transition
    <2> QED
      BY <2>1, <2>2
  <1>3. RecordFollows'
    BY <1>1 DEF RecordFollows
  <1>4. TransitionsAlternate'
    BY <1>2 DEF TransitionsAlternate, Transition
  <1> QED
    BY <1>3, <1>4

\* A task that writes a transition says what the record did not say last.
LEMMA WriteAlternates ==
  ASSUME TypeOK, TableIsFinite, Writers, RecordFollows, TransitionsAlternate,
         NEW c \in Clients, NEW u \in Units, Write(c, u)
  PROVE  RecordFollows' /\ TransitionsAlternate'
  <1>0. /\ pc \in [Clients -> {"idle", "listed", "writing"}]
        /\ listing \in [Clients -> SUBSET Units] /\ todo \in [Clients -> SUBSET Units]
        /\ last \in 0..MaxRows /\ MaxRows \in Nat
        /\ \A r \in rows : r.id \in Nat /\ r.id <= last /\ r.unit \in Units
    BY BoundsAreNumbers, RowsHaveNumbers DEF TypeOK
  <1>1. PICK kind \in {"failure_observed", "failure_cleared"} :
          /\ Append(kind, u) /\ kind \in Kind
          /\ kind = IF u \in listing[c] THEN "failure_observed" ELSE "failure_cleared"
    BY TransitionIsAppended DEF Write
  <1>2. /\ pc[c] = "writing" /\ u \in todo[c] /\ todo' = [todo EXCEPT ![c] = @ \ {u}]
        /\ UNCHANGED <<failing, clock, seen, pc, listing, blemished>>
    BY DEF Write, MayWrite
  <1>3. /\ TableOK' /\ OnlyNewerRows /\ rows \subseteq rows'
        /\ \A r \in rows' \ rows : r.id > last /\ r.kind = kind /\ r.unit = u
        /\ last' < MaxRows => \E r \in rows' : r.id > last /\ r.kind = kind /\ r.unit = u
        /\ rows' # rows => last < MaxRows
    BY <1>1, AppendAdds
  <1>4. u \in SymDiff(listing[c], seen) /\ \A d \in Clients \ {c} : pc[d] # "writing"
    BY <1>0, <1>2 DEF Writers
  <1>5. /\ \A d \in Clients : u \notin Written(d)
        /\ u \in Written(c)'
        /\ \A v \in Units \ {u} : \A d \in Clients : v \in Written(d)' <=> v \in Written(d)
    BY <1>0, <1>2, <1>4 DEF Written
  <1>6. /\ LastWord(u)' = kind /\ LastWord(u) # kind
        /\ \A v \in Units \ {u} : LastWord(v)' = LastWord(v)
    <2>0. seen' = seen
      BY <1>2
    <2>1. Recorded(u) <=> u \in seen
      <3>1. ~\E d \in Clients : u \in Written(d)
        BY <1>5
      <3> QED
        BY <3>1 DEF Recorded
    <2>3. Recorded(u)' <=> u \notin seen
      <3>1. \E d \in Clients : u \in Written(d)'
        BY <1>5
      <3> QED
        BY <2>0, <3>1 DEF Recorded
    <2>4. \A v \in Units \ {u} : Recorded(v)' = Recorded(v)
      <3> TAKE v \in Units \ {u}
      <3>1. (\E d \in Clients : v \in Written(d)') <=> (\E d \in Clients : v \in Written(d))
        BY <1>5
      <3> QED
        BY <2>0, <3>1 DEF Recorded
    <2>2. u \in listing[c] <=> u \notin seen
      BY <1>4 DEF SymDiff
    <2> QED
      BY <1>1, <2>1, <2>2, <2>3, <2>4 DEF LastWord
  <1>7. LastWord(u) \in Transition /\ kind \in Transition
    BY <1>1 DEF LastWord, Transition
  <1>8. ASSUME NEW v \in Units \ blemished', ~stepped', last' < MaxRows,
               NEW r \in OfKind(rows', Transition), r.unit = v, r.kind # LastWord(v)'
        PROVE  \E t \in rows' : t.unit = v /\ t.kind = LastWord(v)' /\ r.id < t.id
    <2>1. r \in rows'
      BY <1>8 DEF OfKind
    <2>2. CASE v = u
      <3>1. r \in rows
        BY <1>3, <1>6, <1>8, <2>1, <2>2
      <3>2. PICK t \in rows' : t.id > last /\ t.kind = kind /\ t.unit = u
        BY <1>3, <1>8
      <3>3. r.id <= last /\ r.id \in Nat /\ t.id \in Nat
        BY <1>0, <1>3, <3>1, RowsHaveNumbers DEF TableOK
      <3> QED
        BY <1>0, <1>6, <2>2, <3>2, <3>3
    <2>3. CASE v # u
      <3>1. r \in OfKind(rows, Transition) /\ r.kind # LastWord(v)
        BY <1>3, <1>6, <1>8, <2>1, <2>3 DEF OfKind
      <3>2. last < MaxRows /\ ~stepped /\ v \in Units \ blemished
        BY <1>0, <1>2, <1>3, <1>8 DEF OnlyNewerRows, TableOK, clock
      <3>3. PICK t \in rows : t.unit = v /\ t.kind = LastWord(v) /\ r.id < t.id
        BY <1>8, <3>1, <3>2 DEF RecordFollows
      <3> QED
        BY <1>3, <1>6, <2>3, <3>3
    <2> QED
      BY <2>2, <2>3
  <1>9. ASSUME NEW r \in OfKind(rows', Transition), NEW s \in OfKind(rows', Transition),
               r.unit = s.unit, r.unit \notin blemished', ~stepped',
               r.kind = s.kind, r.id < s.id
        PROVE  \E t \in rows' : /\ t.unit = r.unit /\ r.id < t.id /\ t.id < s.id
                                /\ t.kind \in Transition \ {r.kind}
    <2>1. /\ r \in rows' /\ s \in rows' /\ r.id \in Nat /\ s.id \in Nat
          /\ ~stepped /\ r.unit \notin blemished
      BY <1>2, <1>3, <1>9, RowsHaveNumbers DEF OfKind, TableOK, clock
    <2>2. CASE s \in rows
      <3>1. r \in rows
        BY <1>0, <1>3, <1>9, <2>1, <2>2
      <3>2. r \in OfKind(rows, Transition) /\ s \in OfKind(rows, Transition)
        BY <1>9, <2>2, <3>1 DEF OfKind
      <3>3. PICK t \in rows : /\ t.unit = r.unit /\ r.id < t.id /\ t.id < s.id
                              /\ t.kind \in Transition \ {r.kind}
        BY <1>9, <2>1, <3>2 DEF TransitionsAlternate, Transition
      <3> QED
        BY <1>3, <3>3
    <2>3. CASE s \notin rows
      <3>1. s.id > last /\ s.kind = kind /\ s.unit = u /\ last < MaxRows
        BY <1>3, <2>1, <2>3
      <3>2. r \in rows
        <4>1. r \notin rows => r = s
          BY <1>3, <2>1, <2>3, <1>1 DEF Append, Insert
        <4> QED
          BY <1>9, <2>1, <4>1
      <3>3. r \in OfKind(rows, Transition) /\ r.unit = u /\ r.kind # LastWord(u)
        BY <1>6, <1>9, <3>1, <3>2 DEF OfKind
      <3>4. PICK t \in rows : t.unit = u /\ t.kind = LastWord(u) /\ r.id < t.id
        BY <1>9, <2>1, <3>1, <3>3 DEF RecordFollows
      <3>5. t.id \in Nat /\ t.id <= last /\ t.id < s.id
        BY <1>0, <2>1, <3>1
      <3> QED
        BY <1>3, <1>6, <1>7, <1>9, <3>1, <3>4, <3>5
    <2> QED
      BY <2>2, <2>3
  <1>10. RecordFollows'
    BY <1>8 DEF RecordFollows
  <1>11. TransitionsAlternate'
    BY <1>9 DEF TransitionsAlternate, Transition
  <1> QED
    BY <1>10, <1>11

\* A unit's last word changes only with what was seen of it and who has written of it.
LEMMA SameLastWord ==
  ASSUME NEW u, u \in seen' <=> u \in seen,
         \A d \in Clients : u \in Written(d)' <=> u \in Written(d)
  PROVE  LastWord(u)' = LastWord(u)
  <1>1. (\E d \in Clients : u \in Written(d)') <=> (\E d \in Clients : u \in Written(d))
    OBVIOUS
  <1>2. Recorded(u)' <=> Recorded(u)
    BY <1>1 DEF Recorded
  <1> QED
    BY <1>2 DEF LastWord

\* The other steps of a task flip no record of a unit that stays whole.
LEMMA TaskKeepsTheWord ==
  ASSUME TypeOK, Writers, NEW c \in Clients,
         \/ List(c) \/ Compare(c) \/ Finish(c) \/ CutOff(c)
         \/ \E u \in Units : LoseRow(c, u)
  PROVE  /\ blemished \subseteq blemished'
         /\ \A v \in Units \ blemished' : LastWord(v)' = LastWord(v)
  <1>0. /\ pc \in [Clients -> {"idle", "listed", "writing"}]
        /\ listing \in [Clients -> SUBSET Units] /\ todo \in [Clients -> SUBSET Units]
    BY DEF TypeOK
  <1>1. CASE List(c)
    <2>1. blemished' = blemished /\ seen' = seen /\ \A d \in Clients : Written(d)' = Written(d)
      BY <1>0, <1>1 DEF List, Written
    <2> QED
      BY <2>1, SameLastWord
  <1>2. CASE Compare(c)
    <2>1. blemished' = blemished /\ seen' = seen /\ \A d \in Clients : Written(d)' = Written(d)
      BY <1>0, <1>2 DEF Compare, Written
    <2> QED
      BY <2>1, SameLastWord
  <1>3. CASE Finish(c)
    <2>1. /\ pc[c] = "writing" /\ todo[c] = {} /\ seen' = listing[c] /\ blemished' = blemished
          /\ pc' = [pc EXCEPT ![c] = "idle"]
      BY <1>3 DEF Finish
    <2>2. \A d \in Clients \ {c} : pc[d] # "writing"
      BY <2>1 DEF Writers
    <2>3. /\ Written(c) = SymDiff(listing[c], seen)
          /\ \A d \in Clients \ {c} : Written(d) = {}
          /\ \A d \in Clients : Written(d)' = {}
      BY <1>0, <2>1, <2>2 DEF Written
    <2>4. ASSUME NEW v \in Units PROVE Recorded(v)' <=> Recorded(v)
      <3>1. (\E d \in Clients : v \in Written(d)) <=> v \in SymDiff(listing[c], seen)
        BY <2>3
      <3>2. ~\E d \in Clients : v \in Written(d)'
        BY <2>3
      <3>3. Recorded(v) <=> v \in listing[c]
        BY <3>1 DEF Recorded, SymDiff
      <3>4. Recorded(v)' <=> v \in listing[c]
        BY <2>1, <3>2 DEF Recorded
      <3> QED
        BY <3>3, <3>4
    <2> QED
      BY <2>1, <2>4 DEF LastWord
  <1>4. ASSUME NEW u \in Units, LoseRow(c, u)
        PROVE  /\ blemished \subseteq blemished'
               /\ \A v \in Units \ blemished' : LastWord(v)' = LastWord(v)
    <2>1. blemished' = blemished \cup {u} /\ seen' = seen
      BY <1>4 DEF LoseRow
    <2>2. \A v \in Units \ {u} : \A d \in Clients : v \in Written(d)' <=> v \in Written(d)
      BY <1>0, <1>4 DEF LoseRow, Written
    <2> QED
      BY <2>1, <2>2, SameLastWord
  <1>5. CASE CutOff(c)
    <2>1. seen' = seen /\ blemished \cup Written(c) \subseteq blemished'
      BY <1>5 DEF CutOff
    <2>2. Written(c)' = {} /\ \A d \in Clients \ {c} : Written(d)' = Written(d)
      BY <1>0, <1>5 DEF CutOff, DropTask, Written
    <2> QED
      BY <2>1, <2>2, SameLastWord
  <1> QED
    BY <1>1, <1>2, <1>3, <1>4, <1>5

\* Whatever the step, the record of a whole unit follows and its transitions alternate.
LEMMA RecordStaysTrue ==
  ASSUME TypeOK, TableIsFinite, Chronological, Writers, RecordFollows,
         TransitionsAlternate, [Next]_vars
  PROVE  RecordFollows' /\ TransitionsAlternate'
  <1>0. /\ stepped => stepped'
        /\ last <= last' /\ last \in 0..MaxRows /\ last' \in 0..MaxRows
    BY StepKeeps DEF Kept, OnlyNewerRows, TypeOK
  <1>1. CASE ~(\E c \in Clients : Poll(c) \/ CutOff(c)) /\ ~DaemonRestarts
    <2>1. /\ UNCHANGED <<tasks, blemished>>
          /\ \/ UNCHANGED table
             \/ Prune
             \/ \E kind \in Kind \ Transition, u \in Units : Append(kind, u)
      BY <1>1, OthersLeaveTheRecord
    <2>2. \A d \in Clients : Written(d)' = Written(d)
      BY <2>1 DEF tasks, Written
    <2>3. /\ blemished \subseteq blemished'
          /\ \A u \in Units \ blemished' : LastWord(u)' = LastWord(u)
      BY <2>1, <2>2, SameLastWord DEF tasks
    <2>4. CASE UNCHANGED table
      <3>1. rows' = rows
        BY <2>4 DEF table
      <3> QED
        BY <1>0, <2>3, <3>1, RecordIsKept
    <2>5. CASE Prune
      <3>1. /\ rows' \subseteq rows
            /\ \A r \in rows', t \in rows : r.at <= t.at => t \in rows'
        BY <2>5, PruneRemoves
      <3>2. ~stepped => \A r \in rows \cap rows', t \in rows : r.id < t.id => t \in rows'
        BY <3>1 DEF Chronological
      <3> QED
        BY <1>0, <2>3, <3>1, <3>2, RecordIsKept
    <2>6. ASSUME NEW kind \in Kind \ Transition, NEW u \in Units, Append(kind, u)
          PROVE  RecordFollows' /\ TransitionsAlternate'
      <3>1. rows \subseteq rows' /\ \A r \in rows' \ rows : r.kind = kind
        BY <2>6, AppendAdds
      <3> QED
        BY <1>0, <2>3, <2>6, <3>1, RecordIsKept
    <2> QED
      BY <2>1, <2>4, <2>5, <2>6
  <1>2. ASSUME NEW c \in Clients,
               \/ List(c) \/ Compare(c) \/ Finish(c) \/ CutOff(c)
               \/ \E u \in Units : LoseRow(c, u)
        PROVE  RecordFollows' /\ TransitionsAlternate'
    <2>1. /\ blemished \subseteq blemished'
          /\ \A v \in Units \ blemished' : LastWord(v)' = LastWord(v)
      BY <1>2, TaskKeepsTheWord
    <2>2. CASE rows' = rows
      BY <1>0, <2>1, <2>2, RecordIsKept
    <2>3. ASSUME NEW u \in Units, AppendTransition(c, u), u \in blemished'
          PROVE  RecordFollows' /\ TransitionsAlternate'
      <3>1. rows \subseteq rows' /\ \A r \in rows' \ rows : r.unit = u
        BY <2>3, TransitionIsAppended, AppendAdds
      <3> QED
        BY <1>0, <2>1, <2>3, <3>1, RecordIsKept
    <2>4. \/ rows' = rows
          \/ \E u \in Units : AppendTransition(c, u) /\ u \in blemished'
      BY <1>2 DEF List, Compare, Finish, LoseRow, CutOff, table
    <2> QED
      BY <2>2, <2>3, <2>4
  <1>3. ASSUME NEW c \in Clients, NEW u \in Units, Write(c, u)
        PROVE  RecordFollows' /\ TransitionsAlternate'
    BY <1>3, WriteAlternates
  <1>4. CASE DaemonRestarts
    <2>1. /\ seen' = {} /\ pc' = [c \in Clients |-> "idle"] /\ rows' = rows
          /\ blemished' = blemished \cup seen \cup UNION {Written(c) : c \in Clients}
      BY <1>4 DEF DaemonRestarts, table
    <2>2. ASSUME NEW u \in Units \ blemished' PROVE LastWord(u)' = LastWord(u)
      <3>1. u \notin seen /\ \A c \in Clients : u \notin Written(c)
        BY <2>1
      <3>2. \A c \in Clients : Written(c)' = {}
        BY <2>1 DEF Written
      <3> QED
        BY <2>1, <3>1, <3>2, SameLastWord
    <2> QED
      BY <1>0, <2>1, <2>2, RecordIsKept
  <1> QED
    BY <1>1, <1>2, <1>3, <1>4 DEF Poll

-----------------------------------------------------------------------------
(* The two readers.                                                        *)

\* The steps that move the client that pages back.
WalkStep == OpenTimeline \/ Older \/ CloseTimeline \/ DaemonRestarts

\* The steps that move the ledger's tally.
TallyStep ==
  \/ AskLedger \/ ReadAutofix \/ ReadRestarts \/ ReadEarliest \/ ReadFailures
  \/ ReplyLedger \/ DaemonRestarts

\* No other step moves the readers.
LEMMA ReadersMoveThemselves ==
  ASSUME [Next]_vars
  PROVE  (~WalkStep => UNCHANGED walk) /\ (~TallyStep => UNCHANGED tally)
  <1>1. CASE UNCHANGED vars
    BY <1>1 DEF vars
  <1>2. ASSUME NEW u \in Units,
               \/ Fails(u) \/ Recovers(u) \/ AutofixActs(u)
               \/ RestartByHand(u) \/ RestartByQuery(u) \/ RecordRestart(u) \/ Note(u)
        PROVE  UNCHANGED <<walk, tally>>
    BY <1>2 DEF Fails, Recovers, AutofixActs, RestartByHand, RestartByQuery,
                RecordRestart, Note
  <1>3. ASSUME NEW c \in Clients, Poll(c) \/ CutOff(c) PROVE UNCHANGED <<walk, tally>>
    BY <1>3 DEF Poll, List, Compare, Finish, Write, LoseRow, CutOff
  <1>4. ASSUME Tick \/ StepBack \/ Prune PROVE UNCHANGED <<walk, tally>>
    BY <1>4 DEF Tick, StepBack, Prune
  <1>5. ASSUME OpenTimeline \/ Older \/ CloseTimeline PROVE UNCHANGED tally
    BY <1>5 DEF OpenTimeline, Older, CloseTimeline
  <1>6. ASSUME \/ AskLedger \/ ReadAutofix \/ ReadRestarts
               \/ ReadEarliest \/ ReadFailures \/ ReplyLedger
        PROVE  UNCHANGED walk
    BY <1>6 DEF AskLedger, ReadAutofix, ReadRestarts, ReadKinds, ReadEarliest,
                ReadFailures, ReplyLedger
  <1> QED
    BY <1>1, <1>2, <1>3, <1>4, <1>5, <1>6 DEF Next, WalkStep, TallyStep

\* The client that pages back misses nothing, whatever happens between its pages.
LEMMA WalkStaysComplete ==
  ASSUME TypeOK, TableIsFinite, Chronological, WalkIsComplete, [Next]_vars
  PROVE  WalkIsComplete'
  <1>0. /\ stepped => stepped'
        /\ last \in Nat /\ last' \in Nat /\ last <= last'
        /\ \A r \in rows' : r \in rows \/ r.id > last
        /\ WalkOK /\ \A r \in Row : r.id \in Nat
        /\ \A r \in rows : r \in Row /\ r.id <= last
    BY StepKeeps, BoundsAreNumbers, RowsHaveNumbers DEF Kept, OnlyNewerRows, TypeOK, WalkOK
  <1>1. CASE UNCHANGED walk
    <2>1. \A r \in walk.first : r.id \in Nat /\ r.id <= last
      BY <1>0 DEF WalkOK, WalkIsComplete
    <2>2. walk.first \cap rows' \subseteq walk.first \cap rows
      BY <1>0, <2>1
    <2>3. \A r \in walk.first : r.id <= last'
      BY <1>0, <2>1
    <2> QED
      BY <1>0, <1>1, <2>2, <2>3 DEF WalkIsComplete
  <1>2. CASE OpenTimeline
    <2>1. PICK limit \in Limits : Turn({}, limit, 0, rows) \/ EmptyPage({}, limit, rows)
      BY <1>2 DEF OpenTimeline
    <2>2. limit \in 1..Cap /\ rows \in SUBSET Row /\ 0 \in 0..MaxRows
      BY LimitsAssumption, BoundsAreNumbers DEF TypeOK
    <2>3. walk = NoWalk /\ rows' = rows /\ last' = last /\ stepped' = stepped
      BY <1>2 DEF OpenTimeline, NoReader, WalkIsComplete, clock, table
    <2>4. ~walk.again
      BY <2>3 DEF NoWalk
    <2>5. CASE Turn({}, limit, 0, rows)
      <3>1. walk'.limit = limit /\ walk'.first = rows /\ walk'.at # "none" /\ ~walk'.missed
        BY <2>5 DEF Turn
      <3>2. ASSUME ~stepped, limit < Cap
            PROVE  /\ ~walk'.again /\ (walk'.at = "end" <=> walk'.cursor = 0)
                   /\ \A r \in walk'.got : r.id >= walk'.cursor
                   /\ \A r \in walk'.first \cap rows : r.id >= walk'.cursor => r \in walk'.got
        BY <2>2, <2>4, <2>5, <3>2, TurnIsComplete
      <3> QED
        BY <1>0, <2>3, <3>1, <3>2 DEF WalkIsComplete
    <2>6. CASE EmptyPage({}, limit, rows)
      <3>1. /\ walk'.first = rows /\ walk'.at = "end" /\ walk'.missed
            /\ ~walk'.again /\ walk'.got = {}
        BY <2>4, <2>6 DEF EmptyPage
      <3> QED
        BY <1>0, <2>3, <3>1 DEF WalkIsComplete
    <2> QED
      BY <2>1, <2>5, <2>6
  <1>3. CASE Older /\ Turn(walk.got, walk.limit, walk.cursor, walk.first)
    <2>1. /\ walk.got \in SUBSET Row /\ walk.first \in SUBSET Row
          /\ walk.limit \in 1..Cap /\ walk.cursor \in 0..MaxRows
      BY <1>0 DEF WalkOK
    <2>2. walk.at = "more" /\ rows' = rows /\ last' = last /\ stepped' = stepped
      BY <1>3 DEF Older, clock, table
    <2>3. /\ walk'.limit = walk.limit /\ walk'.first = walk.first
          /\ walk'.at # "none" /\ ~walk'.missed
      BY <1>3 DEF Turn
    <2>4. ASSUME ~stepped, walk.limit < Cap
          PROVE  /\ ~walk'.again /\ (walk'.at = "end" <=> walk'.cursor = 0)
                 /\ \A r \in walk'.got : r.id >= walk'.cursor
                 /\ \A r \in walk'.first \cap rows : r.id >= walk'.cursor => r \in walk'.got
      <3>1. /\ ~walk.again /\ walk.cursor # 0 /\ \A r \in walk.got : r.id >= walk.cursor
            /\ \A r \in walk.first \cap rows : r.id >= walk.cursor => r \in walk.got
        BY <2>2, <2>4 DEF WalkIsComplete
      <3> QED
        BY <1>3, <2>1, <2>4, <3>1, TurnIsComplete
    <2> QED
      BY <2>2, <2>3, <2>4 DEF WalkIsComplete
  <1>4. CASE Older /\ EmptyPage(walk.got, walk.limit, walk.first)
    <2>1. /\ walk'.at = "end" /\ walk'.missed /\ walk'.limit = walk.limit
          /\ walk'.first = walk.first /\ walk'.got = walk.got /\ walk'.again = walk.again
      BY <1>4 DEF EmptyPage
    <2>2. walk.at = "more" /\ rows' = rows /\ last' = last /\ stepped' = stepped
      BY <1>4 DEF Older, clock, table
    <2>3. ASSUME ~stepped, walk.limit < Cap
          PROVE  /\ ~walk.again
                 /\ \A r \in walk.first \cap rows :
                      \A s \in walk.got : r.id >= s.id => r \in walk.got
      <3>1. /\ ~walk.again /\ \A r \in walk.got : r.id >= walk.cursor
            /\ \A r \in walk.first \cap rows : r.id >= walk.cursor => r \in walk.got
        BY <2>2, <2>3 DEF WalkIsComplete
      <3>2. /\ \A r \in walk.first \cap rows : r.id \in Nat
            /\ \A s \in walk.got : s.id \in Nat
            /\ walk.cursor \in Nat
        BY <1>0, BoundsAreNumbers DEF WalkOK
      <3> QED
        BY <3>1, <3>2
    <2> QED
      BY <2>1, <2>2, <2>3 DEF WalkIsComplete
  <1>5. CASE CloseTimeline \/ DaemonRestarts
    BY <1>5 DEF CloseTimeline, DaemonRestarts, WalkIsComplete, NoWalk
  <1> QED
    BY <1>1, <1>2, <1>3, <1>4, <1>5, ReadersMoveThemselves DEF WalkStep, Older

\* The tally counts what was due, whatever happens between its reads.
LEMMA TallyStaysHonest ==
  ASSUME TypeOK, TableIsFinite, TallyIsHonest, [Next]_vars
  PROVE  TallyIsHonest'
  <1>0. /\ last \in Nat /\ last' \in Nat /\ last <= last'
        /\ \A r \in rows' : r \in rows \/ r.id > last
        /\ TallyOK /\ \A r \in Row : r.id \in Nat /\ r.at \in Nat
        /\ \A r \in rows : r \in Row /\ r.id <= last
    BY StepKeeps, BoundsAreNumbers, RowsHaveNumbers DEF Kept, OnlyNewerRows, TypeOK, TallyOK
  <1>1. CASE UNCHANGED tally
    <2>1. \A r \in tally.due : r.id \in Nat /\ r.id <= last
      BY <1>0 DEF TallyOK, TallyIsHonest
    <2>2. tally.due \cap rows' \subseteq tally.due \cap rows
      BY <1>0, <2>1
    <2>3. \A r \in tally.due : r.id <= last'
      BY <1>0, <2>1
    <2> QED
      BY <1>1, <2>2, <2>3 DEF TallyIsHonest
  <1>2. CASE AskLedger
    <2>1. /\ tally'.left = Queries /\ tally'.due = OfKind(rows, {"handed_back", "restart"})
          /\ last' = last
      BY <1>2 DEF AskLedger, NoTally, table
    <2>2. \A r \in tally'.due : r \in rows /\ r.kind \in {"handed_back", "restart"}
      BY <2>1 DEF OfKind
    <2>3. \A r : ReadBy(r) \in Queries
      BY DEF ReadBy, Queries
    <2> QED
      BY <1>0, <2>1, <2>2, <2>3 DEF TallyIsHonest
  <1>3. ASSUME NEW query, NEW kinds, ReadKinds(query, kinds),
               \A r \in tally.due : ReadBy(r) = query => r.kind \in kinds
        PROVE  TallyIsHonest'
    <2>1. /\ TallyOK' /\ tally'.at = tally.at /\ tally'.due = tally.due
          /\ tally'.left = tally.left \ {query} /\ rows' = rows /\ last' = last
          /\ ~tally'.short =>
               /\ ~tally.short /\ tally'.attention >= tally.attention
               /\ \A r \in Attention(OfKind(rows, kinds)) : tally'.attention >= r.at
      BY <1>3, KindsAreRead DEF table
    <2>2. \A r \in tally.due : r.kind \in {"handed_back", "restart"} /\ r \in Row
      BY <1>0 DEF TallyIsHonest, TallyOK
    <2>3. ASSUME tally.at = "asked", ~tally'.short, NEW r \in tally.due \cap rows,
                 ReadBy(r) \notin tally'.left
          PROVE  tally'.attention >= r.at
      <3>1. CASE ReadBy(r) = query
        <4>1. r \in Attention(OfKind(rows, kinds))
          BY <1>3, <2>2, <3>1 DEF Attention, OfKind
        <4> QED
          BY <2>1, <2>3, <4>1
      <3>2. CASE ReadBy(r) # query
        <4>1. tally.attention >= r.at
          BY <2>1, <2>3, <3>2 DEF TallyIsHonest
        <4>2. tally'.attention \in Nat /\ tally.attention \in Nat /\ r.at \in Nat
          BY <1>0, <2>1, <2>2, BoundsAreNumbers DEF TallyOK
        <4> QED
          BY <2>1, <2>3, <4>1, <4>2
      <3> QED
        BY <3>1, <3>2
    <2> QED
      BY <2>1, <2>3 DEF TallyIsHonest
  <1>4. CASE ReadAutofix
    <2>1. \A r : ReadBy(r) = "autofix" => r.kind \in Autofix
      BY DEF ReadBy, Autofix
    <2> QED
      BY <1>3, <1>4, <2>1 DEF ReadAutofix
  <1>5. CASE ReadRestarts
    <2>1. \A r \in tally.due : ReadBy(r) = "restart" => r.kind \in {"restart"}
      BY DEF ReadBy, TallyIsHonest
    <2> QED
      BY <1>3, <1>5, <2>1 DEF ReadRestarts
  <1>6. ASSUME NEW q \in {"earliest", "failures"}, tally'.left = tally.left \ {q},
               tally'.at = tally.at, tally'.due = tally.due, tally'.short = tally.short,
               tally'.attention = tally.attention, UNCHANGED table
        PROVE  TallyIsHonest'
    <2>1. \A r : ReadBy(r) # q
      BY DEF ReadBy
    <2> QED
      BY <1>6, <2>1 DEF TallyIsHonest, table
  <1>7. CASE ReadEarliest
    <2>0. PICK at : tally' = [tally EXCEPT !.left = @ \ {"earliest"}, !.floor = at]
      BY <1>7 DEF ReadEarliest
    <2>1. /\ tally'.left = tally.left \ {"earliest"} /\ tally'.at = tally.at
          /\ tally'.due = tally.due /\ tally'.short = tally.short
          /\ tally'.attention = tally.attention /\ UNCHANGED table
      BY <1>0, <1>7, <2>0 DEF ReadEarliest, TallyOK
    <2> QED
      BY <1>6, <2>1
  <1>8. CASE ReadFailures
    <2>1. /\ tally'.left = tally.left \ {"failures"} /\ tally'.at = tally.at
          /\ tally'.due = tally.due /\ tally'.short = tally.short
          /\ tally'.attention = tally.attention /\ UNCHANGED table
      BY <1>0, <1>8 DEF ReadFailures, TallyOK
    <2> QED
      BY <1>6, <2>1
  <1>9. CASE ReplyLedger \/ DaemonRestarts
    BY <1>9 DEF ReplyLedger, DaemonRestarts, TallyIsHonest, NoTally
  <1> QED
    BY <1>1, <1>2, <1>4, <1>5, <1>7, <1>8, <1>9, ReadersMoveThemselves DEF TallyStep

-----------------------------------------------------------------------------
(* The theorems.                                                           *)

\* The invariant holds when the daemon has just started.
LEMMA InitHolds == Init => IInv
  <1> SUFFICES ASSUME Init PROVE IInv
    OBVIOUS
  <1>1. TypeOK
    <2>1. WalkOK /\ TallyOK
      BY IdleReaders DEF Init, WalkOK, TallyOK
    <2>2. /\ rows \in SUBSET Row /\ last \in 0..MaxRows /\ now \in 1..MaxTime
          /\ changes \in 0..MaxChanges /\ faults \in 0..MaxFaults
      BY BoundsAreNumbers DEF Init
    <2> QED
      BY <2>1, <2>2 DEF Init, TypeOK, WalkOK, TallyOK
  <1>2. rows = {} /\ todo = [c \in Clients |-> {}] /\ pc = [c \in Clients |-> "idle"]
    BY DEF Init
  <1>3. TableIsFinite
    BY <1>2, FS_EmptySet DEF TableIsFinite
  <1>4. Chronological /\ Writers /\ RecordFollows /\ TransitionsAlternate
    BY <1>2 DEF Chronological, Writers, RecordFollows, TransitionsAlternate, OfKind
  <1>5. WalkIsComplete /\ TallyIsHonest
    BY DEF Init, WalkIsComplete, TallyIsHonest, NoWalk, NoTally
  <1> QED
    BY <1>1, <1>3, <1>4, <1>5 DEF IInv

\* Every step keeps it.
LEMMA StepHolds == IInv /\ [Next]_vars => IInv'
  <1> SUFFICES ASSUME IInv, [Next]_vars PROVE IInv'
    OBVIOUS
  <1>1. TypeOK' /\ TableIsFinite'
    BY StepKeeps DEF IInv, Kept
  <1>2. Chronological' /\ Writers'
    BY StaysChronological, WritersStay DEF IInv
  <1>3. RecordFollows' /\ TransitionsAlternate'
    BY RecordStaysTrue DEF IInv
  <1>4. WalkIsComplete' /\ TallyIsHonest'
    BY WalkStaysComplete, TallyStaysHonest DEF IInv
  <1> QED
    BY <1>1, <1>2, <1>3, <1>4 DEF IInv

\* The invariant says that the last page completes the client's record.
LEMMA LastPageCompletes == IInv => PagesAreComplete
  <1> SUFFICES ASSUME IInv, walk.at = "end", ~stepped, walk.limit < Cap
               PROVE  /\ ~walk.again
                      /\ \A r \in (walk.first \cap rows) \ walk.got :
                           walk.missed /\ \A s \in walk.got : r.id < s.id
    BY DEF PagesAreComplete
  <1>1. /\ \A r \in rows : r.id \in Nat
        /\ \A s \in walk.got : s.id \in Nat
    BY RowsHaveNumbers, BoundsAreNumbers DEF IInv, TypeOK
  <1>2. ~walk.again
    BY DEF IInv, WalkIsComplete
  <1>3. CASE walk.missed
    <2>1. \A r \in walk.first \cap rows : \A s \in walk.got : r.id >= s.id => r \in walk.got
      BY <1>3 DEF IInv, WalkIsComplete
    <2> QED
      BY <1>1, <1>2, <1>3, <2>1
  <1>4. CASE ~walk.missed
    <2>1. /\ walk.cursor = 0
          /\ \A r \in walk.first \cap rows : r.id >= walk.cursor => r \in walk.got
      BY <1>4 DEF IInv, WalkIsComplete
    <2> QED
      BY <1>1, <1>2, <2>1
  <1> QED
    BY <1>3, <1>4

\* The invariant says that an answered ledger starts the streak late enough.
LEMMA AnswerIsHonest == IInv => StreakIsNotFlattered
  <1> SUFFICES ASSUME IInv, Answered, ~tally.short, ~tally.down,
                      NEW r \in tally.due \cap rows
               PROVE  Since >= r.at
    BY DEF StreakIsNotFlattered
  <1>1. tally.attention >= r.at
    BY DEF IInv, TallyIsHonest, Answered
  <1>2. r.at \in Nat /\ tally.attention \in Nat /\ tally.floor \in Nat
    BY RowsHaveNumbers, BoundsAreNumbers DEF IInv, TypeOK
  <1>3. Since = IF tally.attention # 0 THEN tally.attention ELSE tally.floor
    BY DEF Since
  <1> QED
    BY <1>1, <1>2, <1>3

\* The invariant holds in every reachable state.
LEMMA InvariantHolds == Spec => []IInv
  BY InitHolds, StepHolds, PTL DEF Spec

\* Every state of the timeline, its writers and its readers is of the declared type:
\* ids are given once and never above the newest.
THEOREM TypeCorrect == Spec => []TypeOK
  <1>1. IInv => TypeOK
    BY DEF IInv
  <1> QED
    BY <1>1, InvariantHolds, PTL

\* For any number of clients and units, failures and recoveries of a unit alternate in
\* the timeline, unless rows were lost or a task was cut off (timeline.record_transitions).
THEOREM RecordAlternates == Spec => []TransitionsAlternate
  <1>1. IInv => TransitionsAlternate
    BY DEF IInv
  <1> QED
    BY <1>1, InvariantHolds, PTL

\* A client that follows the cursor to the end has every row once, for any page length
\* below the cap and however long the table (server._get_timeline); a query of its own
\* that fails looks like the end and costs it the rows that are older than those it has.
THEOREM NothingIsSkipped == Spec => []PagesAreComplete
  BY LastPageCompletes, InvariantHolds, PTL

\* When every query of a ledger answers in full, below the cap and without failing, the
\* streak does not start before a moment the user was needed that is on record
\* (server._get_ledger).
THEOREM NothingIsHidden == Spec => []StreakIsNotFlattered
  BY AnswerIsHonest, InvariantHolds, PTL
=============================================================================
