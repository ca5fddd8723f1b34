--------------------------- MODULE AutofixProofs ----------------------------
(***************************************************************************)
(* Proofs about the autofix engine, for any units, names and limits.       *)
(*                                                                         *)
(* LoopGuard is not inductive: a row that ages out may bring a name's rows *)
(* back under Limit.  What is inductive is the count the engine itself     *)
(* takes, of the restarts among the newest Limit rows of a name, with the  *)
(* restart it is about to record counted in, against the limit and what    *)
(* was decided on failed reads.                                            *)
(***************************************************************************)
EXTENDS Autofix, FiniteSetTheorems, SequenceTheorems, TLAPS

RowType == Names \X {"restart", "inform"}

\* The rows of s that the engine counts as attempts on n.
From(s, i, n) == {j \in i..Len(s) : s[j][1] = n}
Counted(s, n) ==
  {i \in DOMAIN s : s[i] = <<n, "restart">> /\ Cardinality(From(s, i, n)) <= Limit}

-----------------------------------------------------------------------------
(* What a new row and an ageing one do to the count.                       *)

\* The counted rows are finitely many.
LEMMA CountedAreFinite ==
  ASSUME NEW s \in Seq(RowType), NEW n
  PROVE  IsFiniteSet(Counted(s, n)) /\ Cardinality(Counted(s, n)) \in Nat
  <1>1. Len(s) \in Nat /\ DOMAIN s = 1..Len(s)
    BY LenProperties
  <1>2. IsFiniteSet(1..Len(s))
    BY <1>1, FS_Interval
  <1>3. Counted(s, n) \in SUBSET (1..Len(s))
    BY <1>1 DEF Counted
  <1> QED
    BY <1>2, <1>3, FS_Subset, FS_CardinalityType

\* So are the rows of a name from any one on.
LEMMA FromAreFinite ==
  ASSUME NEW s \in Seq(RowType), NEW n, NEW i \in Nat
  PROVE  IsFiniteSet(From(s, i, n)) /\ Cardinality(From(s, i, n)) \in Nat
  <1>1. Len(s) \in Nat
    BY LenProperties
  <1>2. IsFiniteSet(i..Len(s))
    BY <1>1, FS_Interval
  <1>3. From(s, i, n) \in SUBSET (i..Len(s))
    BY DEF From
  <1> QED
    BY <1>2, <1>3, FS_Subset, FS_CardinalityType

\* One more element makes a finite set at most one larger.
LEMMA OneMore ==
  ASSUME NEW S, IsFiniteSet(S), NEW x
  PROVE  IsFiniteSet(S \cup {x}) /\ Cardinality(S \cup {x}) <= Cardinality(S) + 1
  <1>1. Cardinality(S) \in Nat
    BY FS_CardinalityType
  <1>2. CASE x \in S
    <2>1. S \cup {x} = S
      BY <1>2
    <2>2. Cardinality(S) <= Cardinality(S) + 1
      BY <1>1
    <2> QED
      BY <2>1, <2>2, Zenon
  <1>3. CASE x \notin S
    <2>1. IsFiniteSet(S \cup {x}) /\ Cardinality(S \cup {x}) = Cardinality(S) + 1
      BY <1>3, FS_AddElement, Zenon
    <2> QED
      BY <1>1, <2>1
  <1> QED
    BY <1>2, <1>3

\* A new row adds at most itself to the count, and only as a restart of that name.
LEMMA NewRowCounts ==
  ASSUME NEW s \in Seq(RowType), NEW row \in RowType, NEW n
  PROVE  /\ Cardinality(Counted(Append(s, row), n)) <= Cardinality(Counted(s, n)) + 1
         /\ row # <<n, "restart">> =>
              Cardinality(Counted(Append(s, row), n)) <= Cardinality(Counted(s, n))
  <1> DEFINE t == Append(s, row)
             last == Len(s) + 1
  <1>1. /\ t \in Seq(RowType) /\ Len(s) \in Nat /\ Len(t) = last
        /\ DOMAIN s = 1..Len(s) /\ DOMAIN t = 1..last
        /\ t[last] = row /\ \A i \in 1..Len(s) : t[i] = s[i]
    BY AppendProperties, LenProperties
  <1> HIDE DEF t, last
  <1>2. ASSUME NEW i \in Counted(t, n), i # last PROVE i \in Counted(s, n)
    <2>1. i \in 1..Len(s) /\ s[i] = <<n, "restart">>
      BY <1>1, <1>2 DEF Counted, last
    <2>2. From(s, i, n) \in SUBSET From(t, i, n)
      BY <1>1, <2>1 DEF From, last
    <2>3. /\ IsFiniteSet(From(t, i, n)) /\ Cardinality(From(t, i, n)) \in Nat
          /\ Cardinality(From(s, i, n)) \in Nat
      BY <1>1, <2>1, FromAreFinite
    <2>4. Cardinality(From(s, i, n)) <= Cardinality(From(t, i, n))
      BY <2>2, <2>3, FS_Subset
    <2>5. Cardinality(From(t, i, n)) <= Limit
      BY DEF Counted
    <2> QED
      BY <1>1, <2>1, <2>3, <2>4, <2>5, PolicyAssumption DEF Counted
  <1>3. Counted(t, n) \in SUBSET (Counted(s, n) \cup {last})
    BY <1>2
  <1>4. /\ IsFiniteSet(Counted(s, n)) /\ Cardinality(Counted(s, n)) \in Nat
        /\ IsFiniteSet(Counted(t, n)) /\ Cardinality(Counted(t, n)) \in Nat
    BY <1>1, CountedAreFinite
  <1>5. /\ IsFiniteSet(Counted(s, n) \cup {last})
        /\ Cardinality(Counted(s, n) \cup {last}) <= Cardinality(Counted(s, n)) + 1
    BY <1>4, OneMore
  <1>6. Cardinality(Counted(t, n)) <= Cardinality(Counted(s, n) \cup {last})
    BY <1>3, <1>5, FS_Subset
  <1>7. Cardinality(Counted(s, n) \cup {last}) \in Nat
    BY <1>5, FS_CardinalityType
  <1>8. ASSUME row # <<n, "restart">>
        PROVE  Cardinality(Counted(t, n)) <= Cardinality(Counted(s, n))
    <2>1. last \notin Counted(t, n)
      BY <1>1, <1>8 DEF Counted
    <2>2. Counted(t, n) \in SUBSET Counted(s, n)
      BY <1>3, <2>1
    <2> QED
      BY <1>4, <2>2, FS_Subset
  <1>9. Cardinality(Counted(t, n)) <= Cardinality(Counted(s, n)) + 1
    BY <1>4, <1>5, <1>6, <1>7
  <1> QED
    BY <1>8, <1>9 DEF t

\* A row that ages out adds nothing to the count.
LEMMA AgeingCounts ==
  ASSUME NEW s \in Seq(RowType), s # <<>>, NEW n
  PROVE  Cardinality(Counted(Tail(s), n)) <= Cardinality(Counted(s, n))
  <1> DEFINE t == Tail(s)
  <1>1. /\ t \in Seq(RowType) /\ Len(s) \in Nat \ {0} /\ Len(t) = Len(s) - 1
        /\ DOMAIN s = 1..Len(s) /\ DOMAIN t = 1..Len(t)
        /\ \A i \in 1..Len(t) : t[i] = s[i + 1]
    BY HeadTailProperties, LenProperties, EmptySeq
  <1> HIDE DEF t
  <1>2. ASSUME NEW i \in 1..Len(t)
        PROVE  Cardinality(From(s, i + 1, n)) <= Cardinality(From(t, i, n))
    <2> DEFINE back == [j \in From(s, i + 1, n) |-> j - 1]
    <2>1. \A j \in From(s, i + 1, n) : j - 1 \in From(t, i, n)
      BY <1>1 DEF From
    <2>2. \A j, k \in From(s, i + 1, n) : j - 1 = k - 1 => j = k
      BY <1>1 DEF From
    <2>3. back \in Injection(From(s, i + 1, n), From(t, i, n))
      BY <2>1, <2>2 DEF Injection, IsInjective
    <2>4. IsFiniteSet(From(t, i, n))
      BY <1>1, FromAreFinite
    <2> HIDE DEF back
    <2> QED
      BY <2>3, <2>4, FS_Injection
  <1>3. ASSUME NEW i \in Counted(t, n) PROVE i + 1 \in Counted(s, n)
    <2>1. i \in 1..Len(t) /\ i + 1 \in 1..Len(s) /\ s[i + 1] = <<n, "restart">>
      BY <1>1 DEF Counted
    <2>2. Cardinality(From(s, i + 1, n)) \in Nat /\ Cardinality(From(t, i, n)) \in Nat
      BY <1>1, <2>1, FromAreFinite
    <2>3. Cardinality(From(t, i, n)) <= Limit
      BY DEF Counted
    <2> QED
      BY <1>1, <1>2, <2>1, <2>2, <2>3, PolicyAssumption DEF Counted
  <1> DEFINE on == [i \in Counted(t, n) |-> i + 1]
  <1>4. \A i, k \in Counted(t, n) : i + 1 = k + 1 => i = k
    BY <1>1 DEF Counted
  <1>5. on \in Injection(Counted(t, n), Counted(s, n))
    BY <1>3, <1>4 DEF Injection, IsInjective
  <1>6. IsFiniteSet(Counted(s, n))
    BY CountedAreFinite
  <1> HIDE DEF on
  <1> QED
    BY <1>5, <1>6, FS_Injection DEF t

-----------------------------------------------------------------------------
(* The invariant.                                                          *)

Handling == {"decide", "restart", "check", "record", "tell"}

\* Between ticks nothing is left to handle; the unit in hand has been seen.
Stages ==
  /\ pc \notin Handling \cup {"each"} => todo = {}
  /\ pc \in Handling => unit \in seen

\* A restart is under way that Record will count.
Owed == pc \in {"restart", "check"} \/ (pc = "record" /\ verdict # "inform")

CountHolds ==
  \A n \in Names :
    /\ Cardinality(Counted(rows, n)) <= MaxAttempts + blind[n]
    /\ Owed /\ NameOf[unit] = n => Cardinality(Counted(rows, n)) < MaxAttempts + blind[n]

\* A failed unit has been seen, or is armed: half-way through a listing the system
\* units are told by what was listed of them.
Known(k) == Failed(k) => k \in seen \cup armed

KnownSoFar(k) ==
  Failed(k) /\ k \in InScope("system") =>
    \/ k \in armed
    \/ k \in listed /\ (pc = "list" => k \in seen)

FailuresAreKnown ==
  /\ pc \notin {"down", "seed"} => \A k \in Units : Known(k)
  /\ pc \in {"seed", "list"} => \A k \in Units : KnownSoFar(k)
  /\ pc = "list" => listed \ seen \subseteq armed
  /\ todo \subseteq armed

IInv == TypeOK /\ Stages /\ CountHolds /\ FailuresAreKnown

\* The invariant holds before the daemon starts.
LEMMA InitInvariant == Init => IInv
  <1> SUFFICES ASSUME Init PROVE IInv
    OBVIOUS
  <1>1. TypeOK /\ Stages
    <2>1. rows \in Seq(Names \X {"restart", "inform"})
      BY EmptySeq DEF Init
    <2>2. told \in [Units -> {"nothing", "healthy", "attention", "dropped"}]
      BY DEF Init
    <2>3. failures \in 0..MaxFailures /\ faults \in 0..MaxFaults
      BY BoundsAssumption DEF Init
    <2> QED
      BY <2>1, <2>2, <2>3 DEF Init, TypeOK, Stages, Handling
  <1>2. CountHolds
    <2>1. DOMAIN rows = {}
      BY DEF Init
    <2>2. \A n : Counted(rows, n) = {}
      BY <2>1 DEF Counted
    <2>3. MaxAttempts \in Nat /\ ~Owed /\ \A n \in Names : blind[n] = 0
      BY PolicyAssumption DEF Init, Owed
    <2> QED
      BY <2>2, <2>3, FS_EmptySet DEF CountHolds
  <1>3. FailuresAreKnown
    BY DEF Init, FailuresAreKnown
  <1> QED
    BY <1>1, <1>2, <1>3 DEF IInv

-----------------------------------------------------------------------------
(* Types.                                                                  *)

\* What a listing finds is in its scope, and failed; what it misses is armed.
LEMMA ListingFinds ==
  ASSUME NEW scope, NEW found, Listing(scope, found), TypeOK
  PROVE  /\ found \subseteq InScope(scope)
         /\ armed \subseteq armed' /\ armed' \subseteq Units
         /\ faults' \in 0..MaxFaults
         /\ \A k \in InScope(scope) : Failed(k) => k \in found \/ k \in armed'
         /\ \A k \in found : Failed(k)
  BY BoundsAssumption DEF Listing, InScope, Fault, NoFault, TypeOK

\* A call that fails, or does not, keeps within the bound on those that do.
LEMMA FaultsAreBounded ==
  ASSUME TypeOK, Fault \/ NoFault
  PROVE  faults' \in 0..MaxFaults
  BY BoundsAssumption DEF TypeOK, Fault, NoFault

\* Each step of the engine keeps the types and the stages of a tick.
LEMMA TypeStep ==
  ASSUME TypeOK, Stages, [Next]_vars
  PROVE  TypeOK' /\ Stages'
  <1> USE DEF Stages, Handling
  <1>0. Fault \/ NoFault => faults' \in 0..MaxFaults
    BY FaultsAreBounded
  <1>u. pc \in Handling => unit \in Units
    BY DEF TypeOK
  <1>1. ASSUME NEW from, NEW to \in {"seed", "list"}, ListSystem(from, to),
               from \in {"down", "idle"}
        PROVE  TypeOK' /\ Stages'
    BY <1>1, ListingFinds DEF ListSystem, TypeOK, InScope
  <1>2. CASE Seed
    <2>1. PICK found \in SUBSET InScope("user") :
             Listing("user", found) /\ seen' = listed \cup found
      BY <1>2 DEF Seed
    <2>2. seen' \subseteq Units /\ armed' \subseteq Units /\ faults' \in 0..MaxFaults
      BY <2>1, ListingFinds DEF TypeOK, InScope
    <2> QED
      BY <1>2, <2>2 DEF Seed, TypeOK
  <1>3. CASE Poll
    <2>1. PICK found \in SUBSET InScope("user") :
             /\ Listing("user", found)
             /\ seen' = seen \cap (listed \cup found)
             /\ todo' = NewlyFailed(listed \cup found)
      BY <1>3 DEF Poll
    <2>2. /\ seen' \subseteq Units /\ todo' \subseteq Units \ seen'
          /\ armed' \subseteq Units /\ faults' \in 0..MaxFaults
      BY <2>1, ListingFinds DEF TypeOK, InScope, NewlyFailed
    <2> QED
      BY <1>3, <2>2 DEF Poll, TypeOK
  <1>4. CASE PollRaises
    BY <1>0, <1>4 DEF PollRaises, TypeOK
  <1>5. ASSUME NEW k \in Units, Take(k) PROVE TypeOK' /\ Stages'
    BY <1>5 DEF Take, TypeOK
  <1>6. CASE TickEnds
    BY <1>6 DEF TickEnds, TypeOK
  <1>7. CASE Decide
    <2>1. faults' \in 0..MaxFaults
      BY <1>0, <1>7 DEF Decide, Reads
    <2>2. blind' = blind \/ blind' = [blind EXCEPT ![NameOf[unit]] = @ + 1]
      BY <1>7 DEF Decide
    <2>3. blind' \in [Names -> Nat]
      BY <2>2 DEF TypeOK
    <2> QED
      BY <1>7, <2>1, <2>3 DEF Decide, TypeOK
  <1>8. CASE Restart
    BY <1>8 DEF Restart, TypeOK
  <1>9. CASE RestartRaises
    BY <1>0, <1>9 DEF RestartRaises, TypeOK
  <1>10. CASE Check
    BY <1>0, <1>10 DEF Check, TypeOK
  <1>11. CASE CheckRaises
    BY <1>0, <1>11 DEF CheckRaises, TypeOK
  <1>12. CASE Record
    <2>1. Row \in Names \X {"restart", "inform"}
      BY <1>12, <1>u DEF Record, Row, Names
    <2>2. rows' = rows \/ rows' = Append(rows, Row)
      BY <1>12 DEF Record
    <2>4. rows' \in Seq(Names \X {"restart", "inform"})
      <3>1. rows \in Seq(Names \X {"restart", "inform"})
        BY DEF TypeOK
      <3>2. Append(rows, Row) \in Seq(Names \X {"restart", "inform"})
        BY <2>1, <3>1, AppendProperties
      <3> QED
        BY <2>2, <3>1, <3>2
    <2>3. faults' \in 0..MaxFaults
      BY <1>0, <1>12 DEF Record
    <2> QED
      BY <1>12, <2>4, <2>3 DEF Record, TypeOK
  <1>13. CASE Tell
    BY <1>13 DEF Tell, TypeOK
  <1>14. ASSUME NEW k \in Units, Fails(k) PROVE TypeOK' /\ Stages'
    BY <1>14, BoundsAssumption DEF Fails, engine, TypeOK
  <1>15. ASSUME NEW k \in Units, Recovers(k) PROVE TypeOK' /\ Stages'
    BY <1>15 DEF Recovers, engine, TypeOK
  <1>16. CASE Age
    <2>1. rows' \in Seq(Names \X {"restart", "inform"})
      BY <1>16, HeadTailProperties DEF Age, TypeOK
    <2> QED
      BY <1>16, <2>1 DEF Age, engine, TypeOK
  <1>17. CASE Crash
    <2>1. told' \in [Units -> {"nothing", "healthy", "attention", "dropped"}]
      BY <1>17 DEF Crash, TypeOK
    <2> QED
      BY <1>0, <1>17, <2>1 DEF Crash, TypeOK
  <1>18. CASE UNCHANGED vars
    BY <1>18 DEF vars, engine, TypeOK
  <1> QED
    BY <1>1, <1>2, <1>3, <1>4, <1>5, <1>6, <1>7, <1>8, <1>9, <1>10, <1>11, <1>12, <1>13,
       <1>14, <1>15, <1>16, <1>17, <1>18
    DEF Next, EngineStep, StartSeed, StartPoll

-----------------------------------------------------------------------------
(* The count.                                                              *)

\* A step that writes no row and promises no restart.
LEMMA NoRowNoPromise ==
  ASSUME CountHolds, UNCHANGED <<rows, blind>>, Owed' => Owed /\ unit' = unit
  PROVE  CountHolds'
  BY DEF CountHolds

\* The engine promises a restart only below the limit, and records no other.
LEMMA CountStep ==
  ASSUME TypeOK, Stages, CountHolds, [Next]_vars
  PROVE  CountHolds'
  <1>1. CASE StartSeed \/ StartPoll \/ Seed \/ Poll \/ PollRaises \/ TickEnds
    BY <1>1, NoRowNoPromise
    DEF StartSeed, StartPoll, ListSystem, Seed, Poll, PollRaises, TickEnds, Owed
  <1>2. ASSUME NEW k \in Units, Take(k) PROVE CountHolds'
    BY <1>2, NoRowNoPromise DEF Take, Owed
  <1>3. CASE Decide
    <2>1. PICK attempts \in 0..Len(rows) :
             /\ Reads(attempts)
             /\ \/ /\ DecideRestart(unit, attempts)
                   /\ pc' = "restart"
                   /\ blind' = IF attempts = RecordedAttempts(NameOf[unit]) THEN blind
                               ELSE [blind EXCEPT ![NameOf[unit]] = @ + 1]
                \/ pc' = "record" /\ verdict' = "inform" /\ UNCHANGED blind
      BY <1>3 DEF Decide
    <2>2. CASE pc' = "record" /\ verdict' = "inform" /\ UNCHANGED blind
      BY <1>3, <2>2, NoRowNoPromise DEF Decide, Owed
    <2> DEFINE name == NameOf[unit]
    <2>3. pc' = "restart" =>
             rows' = rows /\ unit' = unit /\ name \in Names /\ attempts < MaxAttempts
      BY <1>3, <2>1 DEF Decide, DecideRestart, TypeOK, Stages, Handling, Names
    <2>4. pc' = "restart" => Cardinality(Counted(rows, name)) \in Nat /\ blind[name] \in Nat
      BY <2>3, CountedAreFinite DEF TypeOK, RowType
    <2>5. CASE pc' = "restart" /\ blind' = blind /\ attempts = RecordedAttempts(name)
      <3>1. Cardinality(Counted(rows, name)) < MaxAttempts
        BY <2>3, <2>5 DEF RecordedAttempts, Counted, From
      <3> QED
        BY <2>3, <2>4, <2>5, <3>1, PolicyAssumption DEF CountHolds
    <2>6. CASE pc' = "restart" /\ blind' = [blind EXCEPT ![name] = @ + 1]
      <3>1. /\ blind'[name] = blind[name] + 1
            /\ \A n \in Names : n # name => blind'[n] = blind[n]
        BY <2>3, <2>6 DEF TypeOK
      <3>2. Cardinality(Counted(rows, name)) < MaxAttempts + blind'[name]
        BY <2>3, <2>4, <2>6, <3>1, PolicyAssumption DEF CountHolds
      <3> QED
        BY <2>3, <2>4, <2>6, <3>1, <3>2, PolicyAssumption DEF CountHolds
    <2> QED
      BY <2>1, <2>2, <2>5, <2>6
  <1>4. CASE Restart \/ RestartRaises \/ Check \/ CheckRaises
    BY <1>4, NoRowNoPromise DEF Restart, RestartRaises, Check, CheckRaises, Owed
  <1>5. CASE Record
    <2>1. ~Owed' /\ blind' = blind
      BY <1>5 DEF Record, Owed
    <2>2. CASE rows' = rows
      BY <2>1, <2>2, NoRowNoPromise
    <2>3. CASE rows' = Append(rows, Row)
      <3>1. Row \in RowType /\ rows \in Seq(RowType)
        BY <1>5 DEF Record, Row, RowType, Names, TypeOK, Stages, Handling
      <3>2. ASSUME NEW n \in Names
            PROVE  Cardinality(Counted(rows', n)) <= MaxAttempts + blind[n]
        <4>1. /\ Cardinality(Counted(rows', n)) <= Cardinality(Counted(rows, n)) + 1
              /\ Row # <<n, "restart">> =>
                   Cardinality(Counted(rows', n)) <= Cardinality(Counted(rows, n))
          BY <2>3, <3>1, NewRowCounts
        <4>2. Cardinality(Counted(rows, n)) \in Nat /\ blind[n] \in Nat
          BY <3>1, CountedAreFinite DEF TypeOK
        <4>3. rows' \in Seq(RowType)
          BY <2>3, <3>1, AppendProperties
        <4>4. Cardinality(Counted(rows', n)) \in Nat
          BY <4>3, CountedAreFinite
        <4>5. CASE Row = <<n, "restart">>
          <5>1. NameOf[unit] = n /\ Owed
            BY <1>5, <4>5 DEF Row, Record, Owed
          <5> QED
            BY <4>1, <4>2, <4>4, <5>1, PolicyAssumption DEF CountHolds
        <4>6. CASE Row # <<n, "restart">>
          BY <4>1, <4>2, <4>4, <4>6, PolicyAssumption DEF CountHolds
        <4> QED
          BY <4>5, <4>6
      <3> QED
        BY <2>1, <3>2 DEF CountHolds
    <2> QED
      BY <1>5, <2>2, <2>3 DEF Record
  <1>6. CASE Tell
    BY <1>6, NoRowNoPromise DEF Tell, Owed
  <1>7. ASSUME NEW k \in Units, Fails(k) \/ Recovers(k) PROVE CountHolds'
    BY <1>7, NoRowNoPromise DEF Fails, Recovers, engine, Owed
  <1>8. CASE Age
    <2>1. rows \in Seq(RowType) /\ rows # <<>> /\ rows' = Tail(rows)
      BY <1>8 DEF Age, TypeOK, RowType
    <2>2. Owed' = Owed /\ unit' = unit /\ blind' = blind
      BY <1>8 DEF Age, engine, Owed
    <2>3. rows' \in Seq(RowType)
      BY <2>1, HeadTailProperties
    <2>4. ASSUME NEW n
          PROVE  /\ Cardinality(Counted(rows', n)) <= Cardinality(Counted(rows, n))
                 /\ Cardinality(Counted(rows', n)) \in Nat
                 /\ Cardinality(Counted(rows, n)) \in Nat
      BY <2>1, <2>3, AgeingCounts, CountedAreFinite
    <2> QED
      BY <2>2, <2>4, PolicyAssumption DEF CountHolds, TypeOK
  <1>9. CASE Crash
    BY <1>9, NoRowNoPromise DEF Crash, Owed
  <1>10. CASE UNCHANGED vars
    BY <1>10, NoRowNoPromise DEF vars, engine, Owed
  <1> QED
    BY <1>1, <1>2, <1>3, <1>4, <1>5, <1>6, <1>7, <1>8, <1>9, <1>10 DEF Next, EngineStep

-----------------------------------------------------------------------------
(* What the engine deals with.                                             *)

\* Outside a listing, a step that forgets neither what was seen nor what is armed, and
\* fails nothing else, keeps the failures known.
LEMMA NothingIsMissed ==
  ASSUME TypeOK, FailuresAreKnown, pc' \notin {"seed", "list"},
         pc' = "down" \/ pc \notin {"down", "seed"},
         seen \subseteq seen', armed \subseteq armed' \cup seen',
         \A k \in Units : Failed(k)' => Failed(k) \/ k \in seen \cup armed',
         todo' \subseteq todo, todo' \subseteq armed'
  PROVE  FailuresAreKnown'
  BY DEF FailuresAreKnown, Known

\* Listing the system units: each failed one is listed, or armed.
LEMMA SystemListed ==
  ASSUME TypeOK, Stages, FailuresAreKnown, NEW from, NEW to, ListSystem(from, to),
         <<from, to>> \in {<<"down", "seed">>, <<"idle", "list">>}
  PROVE  FailuresAreKnown'
  <1>1. PICK found \in SUBSET InScope("system") : Listing("system", found) /\ listed' = found
    BY DEF ListSystem
  <1>2. /\ armed \subseteq armed'
        /\ \A k \in InScope("system") : Failed(k) => k \in listed' \/ k \in armed'
        /\ \A k \in listed' : Failed(k) /\ k \in Units
    BY <1>1, ListingFinds DEF InScope
  <1>3. /\ pc = from /\ pc' = to /\ UNCHANGED <<seen, todo, state>> /\ todo = {}
    BY DEF ListSystem, Stages, Handling
  <1>4. CASE from = "down" /\ to = "seed"
    BY <1>2, <1>3, <1>4 DEF FailuresAreKnown, KnownSoFar, Failed
  <1>5. CASE from = "idle" /\ to = "list"
    BY <1>2, <1>3, <1>5 DEF FailuresAreKnown, Known, KnownSoFar, Failed, InScope
  <1> QED
    BY <1>4, <1>5

\* Listing the user units completes the picture.
LEMMA UserListed ==
  ASSUME TypeOK, Stages, FailuresAreKnown, Seed \/ Poll
  PROVE  FailuresAreKnown'
  <1>1. PICK found \in SUBSET InScope("user") :
          /\ Listing("user", found)
          /\ Seed => seen' = listed \cup found
          /\ Poll => seen' = seen \cap (listed \cup found) /\ todo' = (listed \cup found) \ seen
    BY DEF Seed, Poll, NewlyFailed
  <1>2. /\ armed \subseteq armed'
        /\ \A k \in InScope("user") : Failed(k) => k \in found \/ k \in armed'
        /\ \A k \in found : Failed(k) /\ k \in Units
    BY <1>1, ListingFinds DEF InScope
  <1>3. \A k \in Units : k \in InScope("system") \/ k \in InScope("user")
    BY ScopeAssumption DEF InScope
  <1>4. CASE Seed
    <2>1. pc = "seed" /\ pc' = "idle" /\ state' = state /\ todo' = {}
      BY <1>4 DEF Seed, Stages, Handling
    <2> QED
      BY <1>1, <1>2, <1>3, <1>4, <2>1 DEF FailuresAreKnown, Known, KnownSoFar, Failed
  <1>5. CASE Poll
    <2>1. pc = "list" /\ pc' = "each" /\ state' = state
      BY <1>5 DEF Poll
    <2>2. ASSUME NEW k \in Units, Failed(k) PROVE k \in seen' \cup armed'
      <3>1. k \in seen \cup armed
        BY <2>1, <2>2 DEF FailuresAreKnown, Known
      <3>2. k \in listed \/ k \in found \/ k \in armed'
        BY <1>2, <1>3, <2>1, <2>2 DEF FailuresAreKnown, KnownSoFar
      <3> QED
        BY <1>1, <1>2, <1>5, <3>1, <3>2
    <2>3. todo' \subseteq armed'
      BY <1>1, <1>2, <1>5, <2>1 DEF FailuresAreKnown, Known
    <2> QED
      BY <2>1, <2>2, <2>3 DEF FailuresAreKnown, Known, Failed
  <1> QED
    BY <1>4, <1>5

\* No step loses a failure that autofix has yet to deal with.
LEMMA KnownStep ==
  ASSUME TypeOK, Stages, FailuresAreKnown, [Next]_vars
  PROVE  FailuresAreKnown'
  <1>1. CASE StartSeed \/ StartPoll
    BY <1>1, SystemListed DEF StartSeed, StartPoll
  <1>2. CASE Seed \/ Poll
    BY <1>2, UserListed
  <1>3. CASE PollRaises \/ TickEnds \/ Decide
    BY <1>3, NothingIsMissed DEF PollRaises, TickEnds, Decide, Failed, FailuresAreKnown
  <1>4. ASSUME NEW k \in Units, Take(k) PROVE FailuresAreKnown'
    <2>1. todo' \subseteq armed'
      BY <1>4 DEF Take, FailuresAreKnown
    <2> QED
      BY <1>4, <2>1, NothingIsMissed DEF Take, Failed
  <1>5. CASE Restart \/ RestartRaises
    <2>1. unit \in seen /\ pc \in Handling
      BY <1>5 DEF Restart, RestartRaises, Stages, Handling
    <2>2. \A k \in Units : Failed(k)' => Failed(k) \/ k \in seen
      BY <1>5, <2>1 DEF Restart, RestartRaises, Failed, TypeOK
    <2> QED
      BY <1>5, <2>2, NothingIsMissed DEF Restart, RestartRaises, FailuresAreKnown
  <1>6. CASE Check \/ CheckRaises \/ Record \/ Tell
    BY <1>6, NothingIsMissed
    DEF Check, CheckRaises, Record, Tell, Failed, FailuresAreKnown
  <1>7. ASSUME NEW k \in Units, Fails(k) PROVE FailuresAreKnown'
    BY <1>7 DEF Fails, engine, Failed, FailuresAreKnown, Known, KnownSoFar, TypeOK
  <1>8. ASSUME NEW k \in Units, Recovers(k) PROVE FailuresAreKnown'
    BY <1>8 DEF Recovers, engine, Failed, FailuresAreKnown, Known, KnownSoFar, TypeOK
  <1>9. CASE Age \/ UNCHANGED vars
    BY <1>9 DEF Age, vars, engine, Failed, FailuresAreKnown, Known, KnownSoFar
  <1>10. CASE Crash
    BY <1>10 DEF Crash, FailuresAreKnown
  <1> QED
    BY <1>1, <1>2, <1>3, <1>4, <1>5, <1>6, <1>7, <1>8, <1>9, <1>10 DEF Next, EngineStep

-----------------------------------------------------------------------------
(* The theorems.                                                           *)

\* Every step of the engine, the units and the daemon's death keeps the invariant.
LEMMA NextInvariant == IInv /\ [Next]_vars => IInv'
  BY TypeStep, CountStep, KnownStep DEF IInv

\* The count the engine takes is the whole count while it can read the window back.
LEMMA WholeWindow ==
  ASSUME IInv, NEW n \in Names, Cardinality(RowsOf(n)) <= Limit
  PROVE  Cardinality(RestartsOf(n)) <= MaxAttempts + blind[n]
  <1>1. /\ rows \in Seq(RowType) /\ Len(rows) \in Nat /\ DOMAIN rows = 1..Len(rows)
    BY LenProperties DEF IInv, TypeOK, RowType
  <1>2. IsFiniteSet(RowsOf(n))
    <2>1. IsFiniteSet(1..Len(rows)) /\ RowsOf(n) \in SUBSET (1..Len(rows))
      BY <1>1, FS_Interval DEF RowsOf
    <2> QED
      BY <2>1, FS_Subset
  <1>3. ASSUME NEW i \in RestartsOf(n) PROVE i \in Counted(rows, n)
    <2>1. i \in 1..Len(rows) /\ rows[i] = <<n, "restart">>
      BY <1>1 DEF RestartsOf
    <2>2. From(rows, i, n) \in SUBSET RowsOf(n)
      BY <1>1, <2>1 DEF From, RowsOf
    <2>3. Cardinality(From(rows, i, n)) <= Cardinality(RowsOf(n))
      BY <1>2, <2>2, FS_Subset
    <2>4. Cardinality(From(rows, i, n)) \in Nat /\ Cardinality(RowsOf(n)) \in Nat
      BY <1>1, <1>2, <2>1, FromAreFinite, FS_CardinalityType
    <2> QED
      BY <1>1, <2>1, <2>3, <2>4, PolicyAssumption DEF Counted
  <1>4. Counted(rows, n) \in SUBSET RestartsOf(n)
    BY DEF Counted, RestartsOf
  <1>5. RestartsOf(n) = Counted(rows, n)
    BY <1>3, <1>4
  <1> QED
    BY <1>5 DEF IInv, CountHolds

\* The engine's states are typed; in particular what a tick has left to handle it has
\* not seen.
THEOREM TypeCorrect == Spec => []TypeOK
  <1>1. IInv => TypeOK
    BY DEF IInv
  <1> QED
    BY <1>1, InitInvariant, NextInvariant, PTL DEF Spec

\* Whatever units fail and recover, and whenever the daemon crashes: while the engine's
\* query spans the window, the restarts recorded for a name are at most max_attempts, and
\* one more for each that was decided on a failed query.
THEOREM NeverLoops == Spec => []LoopGuard
  <1>1. IInv => LoopGuard
    BY WholeWindow DEF LoopGuard
  <1> QED
    BY <1>1, InitInvariant, NextInvariant, PTL DEF Spec

\* Autofix deals only with what failed since it started and last dealt with it.
THEOREM ActsOnNewFailures == Spec => OnlyNewFailuresAreHandled
  <1>1. IInv /\ [Next]_vars => \A k \in Units : unit # k /\ unit' = k => k \in armed
    <2> SUFFICES ASSUME IInv, [Next]_vars, NEW k \in Units, unit # k, unit' = k
                 PROVE  k \in armed
      OBVIOUS
    <2>1. unit' # NoUnit
      BY NoUnitAssumption
    <2>2. \E u \in Units : Take(u)
      BY <2>1
      DEF Next, EngineStep, StartSeed, StartPoll, ListSystem, Seed, Poll, PollRaises, TickEnds,
          Decide, Restart, RestartRaises, Check, CheckRaises, Record, Tell, Fails, Recovers,
          Age, Crash, engine, vars
    <2> QED
      BY <2>2 DEF Take, IInv, FailuresAreKnown
  <1> QED
    BY <1>1, InitInvariant, NextInvariant, PTL DEF Spec, OnlyNewFailuresAreHandled
=============================================================================
