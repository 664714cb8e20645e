----------------------------- MODULE FiringsProofs -----------------------------
(***************************************************************************)
(* Proofs about Firings for any triggers, desks, codes, schedules and      *)
(* bounds: the types, that a pass serves each due trigger once, and the    *)
(* safety properties of schedules, approvals and executions.               *)
(***************************************************************************)
EXTENDS Firings, SequenceTheorems, FiniteSetTheorems, WellFoundedInduction, TLAPS

-------------------------------------------------------------------------------
(* The order in which a pass accepts *)

\* The place of a trigger among those a pass accepts.
Place(T, t) == Cardinality({s \in T : Sooner(s, t)})

\* Those due are ordered by their instant and then by their id: each has a place of its own,
\* so that the i-th is well defined, and no two are the same.
LEMMA EachOnce ==
  ASSUME NEW T, T \subseteq Triggers, \A t \in T : triggers[t].next \in Nat
  PROVE  /\ IsFiniteSet(T)
         /\ \A i \in 1..Cardinality(T) : Nth(T, i) \in T
         /\ \A i, j \in 1..Cardinality(T) : Nth(T, i) = Nth(T, j) => i = j
<1> DEFINE n == Cardinality(T)
           Before(t) == {s \in T : Sooner(s, t)}
           place == [t \in T |-> Place(T, t)]
<1>1. IsFiniteSet(T) /\ n \in Nat /\ T \subseteq Nat
  BY FiringsAssumption, FS_Subset, FS_CardinalityType
<1>2. \A t \in T : IsFiniteSet(Before(t)) /\ Place(T, t) \in Nat
  BY <1>1, FS_Subset, FS_CardinalityType DEF Place
<1>3. ASSUME NEW s \in T, NEW t \in T, s # t
      PROVE  Sooner(s, t) \/ Sooner(t, s)
  BY <1>1, <1>3 DEF Sooner
<1>4. ASSUME NEW s \in T, NEW t \in T, Sooner(s, t)
      PROVE  Place(T, s) < Place(T, t)
  <2>0. ASSUME NEW r \in T, Sooner(r, s) PROVE Sooner(r, t)
    <3>1. /\ triggers[r].next \in Nat /\ triggers[s].next \in Nat /\ triggers[t].next \in Nat
          /\ r \in Nat /\ s \in Nat /\ t \in Nat
      BY <1>1
    <3> QED BY <1>4, <2>0, <3>1 DEF Sooner
  <2>1. Before(s) \subseteq Before(t) /\ s \in Before(t) /\ s \notin Before(s)
    <3>1. ~Sooner(s, s) BY <1>1 DEF Sooner
    <3> QED BY <1>4, <2>0, <3>1
  <2>2. Cardinality(Before(s)) <= Cardinality(Before(t))
        /\ (Cardinality(Before(s)) = Cardinality(Before(t)) => Before(s) = Before(t))
    BY <1>2, <2>1, FS_Subset
  <2> QED BY <1>2, <2>1, <2>2 DEF Place
<1>5. \A t \in T : Place(T, t) \in 0..n - 1
  <2> SUFFICES ASSUME NEW t \in T PROVE Place(T, t) \in 0..n - 1 OBVIOUS
  <2>1. Before(t) \subseteq T /\ t \notin Before(t) BY <1>1 DEF Sooner
  <2>2. Cardinality(Before(t)) <= n /\ (Cardinality(Before(t)) = n => Before(t) = T)
    BY <1>1, <2>1, FS_Subset
  <2> QED BY <1>1, <1>2, <2>1, <2>2 DEF Place
<1>6. place \in Injection(T, 0..n - 1)
  <2>1. place \in [T -> 0..n - 1] BY <1>5
  <2>2. \A s, t \in T : Place(T, s) = Place(T, t) => s = t
    <3> SUFFICES ASSUME NEW s \in T, NEW t \in T, s # t PROVE Place(T, s) # Place(T, t) OBVIOUS
    <3>1. Place(T, s) \in Nat /\ Place(T, t) \in Nat BY <1>2
    <3>2. Place(T, s) < Place(T, t) \/ Place(T, t) < Place(T, s) BY <1>3, <1>4
    <3> QED BY <3>1, <3>2
  <2>3. \A s, t \in T : place[s] = place[t] => s = t BY <2>2
  <2> QED BY <2>1, <2>3 DEF Injection, IsInjective
<1>7. IsFiniteSet(0..n - 1) /\ Cardinality(0..n - 1) = n
  <2>1. 0 \in Int /\ n - 1 \in Int /\ (0 > n - 1 => n = 0) /\ (n - 1) - 0 + 1 = n BY <1>1
  <2> QED BY <2>1, FS_Interval, Zenon
<1>8. place \in Surjection(T, 0..n - 1) BY <1>6, <1>7, FS_Injection
<1>9. ASSUME NEW i \in 1..n
      PROVE  Nth(T, i) \in T /\ Place(T, Nth(T, i)) = i - 1
  <2>1. i - 1 \in 0..n - 1 BY <1>1
  <2>2. \E t \in T : place[t] = i - 1 BY <1>8, <2>1 DEF Surjection
  <2>3. \E t \in T : Cardinality({s \in T : Sooner(s, t)}) = i - 1 BY <2>2 DEF Place
  <2> QED BY <2>3 DEF Nth, Place
<1> QED BY <1>1, <1>9

-------------------------------------------------------------------------------
(* The projection *)

\* A set of numbers has a least one.
LEMMA Least ==
  ASSUME NEW S \in SUBSET Nat, S # {}
  PROVE  \E x \in S : \A y \in S : x <= y
<1> DEFINE R == {ss \in Nat \X Nat : ss[1] < ss[2]}
<1>0. IsWellFoundedOn(R, Nat) BY NatLessThanWellFounded DEF OpToRel
<1> HIDE DEF R
<1>1. PICK x \in S : \A y \in S : ~(<<y, x>> \in R)
  BY <1>0, WFMin
<1>2. \A y \in Nat, z \in Nat : y < z => <<y, z>> \in R BY DEF R
<1>3. ASSUME NEW y \in S PROVE x <= y
  <2>1. y \in Nat /\ x \in Nat OBVIOUS
  <2>2. <<y, x>> \notin R BY <1>1
  <2>3. ~(y < x) BY <1>2, <2>1, <2>2
  <2> QED BY <2>1, <2>3
<1> QED BY <1>3

\* The next occurrence is a number, and 0 when there is none.
LEMMA NextType ==
  ASSUME NEW schedule \in Schedule, NEW reference \in Nat
  PROVE  NextAfter(schedule, reference) \in Nat
<1> DEFINE S == {c \in IF schedule.rule THEN Candidates ELSE {schedule.at} : c > reference}
<1>1. S \in SUBSET Nat BY FiringsAssumption DEF Schedule
<1>2. CASE S = {} BY <1>2 DEF NextAfter, Null
<1>3. CASE S # {}
  <2>1. \E c \in S : \A b \in S : c <= b BY <1>1, <1>3, Least
  <2>2. (CHOOSE c \in S : \A b \in S : c <= b) \in S BY <2>1
  <2> HIDE DEF S
  <2>3. (CHOOSE c \in S : \A b \in S : c <= b) \in Nat BY <1>1, <2>2
  <2>4. NextAfter(schedule, reference) = CHOOSE c \in S : \A b \in S : c <= b
    BY <1>3 DEF NextAfter, S
  <2> QED BY <2>3, <2>4
<1> QED BY <1>2, <1>3

LEMMA ProjectionType ==
  ASSUME NEW enabled, NEW approval, NEW candidate \in Nat
  PROVE  /\ Projection(enabled, approval, candidate) \in Nat
         /\ Projection(enabled, approval, candidate) # Null => approval \notin {"PENDING", "DENIED"}
BY DEF Projection, Null

LEMMA ParsableType == \A at : Parsable(at) \subseteq Schedule
<1>1. NoSchedule \in Schedule /\ Rule \in Schedule BY DEF NoSchedule, Rule, Schedule, Null
<1>2. \A i \in Instants : OneOff(i) \in Schedule BY FiringsAssumption DEF OneOff, Schedule
<1> QED BY <1>1, <1>2, Zenon DEF Parsable

-------------------------------------------------------------------------------
(* Sequences of rows *)

\* A row is added at the end.
LEMMA Added ==
  ASSUME NEW S, NEW s \in Seq(S), NEW new \in S, NEW g, g = Append(s, new)
  PROVE  /\ g \in Seq(S) /\ Len(s) \in Nat /\ Len(g) = Len(s) + 1
         /\ DOMAIN g = DOMAIN s \cup {Len(s) + 1} /\ Len(s) + 1 \notin DOMAIN s
         /\ \A i \in DOMAIN s : g[i] = s[i]
         /\ g[Len(s) + 1] = new
<1>1. /\ g \in Seq(S) /\ Len(g) = Len(s) + 1
      /\ \A i \in 1..Len(s) : g[i] = s[i]
      /\ g[Len(s) + 1] = new
  BY AppendProperties
<1>2. DOMAIN s = 1..Len(s) /\ DOMAIN g = 1..Len(s) + 1 /\ Len(s) \in Nat
  BY <1>1, LenProperties
<1> QED BY <1>1, <1>2

\* Every row is rewritten where it is.
LEMMA Rewritten ==
  ASSUME NEW S, NEW s \in Seq(S), NEW f, DOMAIN f = DOMAIN s, \A i \in DOMAIN s : f[i] \in S,
         f = [i \in DOMAIN s |-> f[i]]
  PROVE  f \in Seq(S) /\ Len(f) = Len(s)
<1>1. DOMAIN s = 1..Len(s) /\ Len(s) \in Nat BY LenProperties
<1>2. f \in [1..Len(s) -> S] BY <1>1
<1>3. f \in Seq(S) BY <1>1, <1>2, SeqDef
<1>4. DOMAIN f = 1..Len(f) /\ Len(f) \in Nat BY <1>3, LenProperties
<1> QED BY <1>1, <1>3, <1>4

\* Several rows are added at the end.
LEMMA Extended ==
  ASSUME NEW S, NEW s \in Seq(S), NEW n \in Nat, NEW f \in [1..n -> S]
  PROVE  /\ s \o f \in Seq(S) /\ DOMAIN s \subseteq DOMAIN (s \o f)
         /\ \A i \in DOMAIN s : (s \o f)[i] = s[i]
         /\ \A i \in DOMAIN (s \o f) \ DOMAIN s : i - Len(s) \in 1..n /\ (s \o f)[i] = f[i - Len(s)]
         /\ \A i \in 1..n : Len(s) + i \in DOMAIN (s \o f) /\ (s \o f)[Len(s) + i] = f[i]
<1>1. f \in Seq(S) BY SeqDef
<1>2. Len(f) = n BY <1>1, LenProperties
<1>3. /\ s \o f \in Seq(S) /\ Len(s \o f) = Len(s) + n
      /\ \A i \in 1..Len(s) + n : (s \o f)[i] = IF i <= Len(s) THEN s[i] ELSE f[i - Len(s)]
  BY <1>1, <1>2, ConcatProperties
<1>4. DOMAIN s = 1..Len(s) /\ DOMAIN (s \o f) = 1..Len(s) + n /\ Len(s) \in Nat
  BY <1>3, LenProperties
<1> QED BY <1>3, <1>4

-------------------------------------------------------------------------------
(* What is inductive about definitions *)

Cleared(snapshot) == Approval(snapshot) \notin {"PENDING", "DENIED"}

\* A trigger is projected only while its code is cleared, and is still to fire when enabled.
Gated(t) == triggers[t].next # Null => Cleared(triggers[t].snapshot)
Armed(t) == /\ shots[t] <= 1
            /\ triggers[t].enabled \/ triggers[t].state = "ABSENT" => shots[t] = 0
Defined == \A t \in Triggers : Gated(t) /\ Armed(t)

\* A firing is of cleared code; a desk's rows, tasks and children agree.
Fired == ApprovedOnly /\ OccurrenceOnce
Booked == \A f \in DOMAIN firings :
  /\ firings[f].results =
       IF firings[f].snapshot = Null \/ firings[f].execution = "COMPLETE" THEN 1 ELSE 0
  /\ firings[f].snapshot = Null => firings[f].execution = "NONE"
Working == \A run \in runs :
  /\ firings[run.firing].execution = "RUNNING"
  /\ run.stage = "launch" => \A i \in DOMAIN launched : launched[i] # run.firing
  /\ \A other \in runs : other.firing = run.firing => other = run
Started == \A i \in DOMAIN launched :
  /\ launched[i] \in DOMAIN firings /\ firings[launched[i]].execution # "NONE"
  /\ \A j \in DOMAIN launched : launched[i] = launched[j] => i = j
Served ==
  /\ \A f, g \in DOMAIN firings :
       /\ firings[f].execution = "RUNNING" /\ firings[g].execution = "RUNNING"
       /\ Home[firings[f].trigger] = Home[firings[g].trigger]
       => f = g
  /\ phase # "down" => \A f \in DOMAIN firings :
       firings[f].execution = "RUNNING" => \E run \in runs : run.firing = f
  /\ phase = "down" => runs = {}
Executed == Booked /\ Working /\ Started /\ Served

\* Snapshots are added, and decided only once.
Kept ==
  /\ Len(snapshots) \in Nat /\ Len(snapshots') \in Nat /\ Len(snapshots) <= Len(snapshots')
  /\ \A s \in 0..Len(snapshots) : Cleared(s) => Cleared(s)'

-------------------------------------------------------------------------------
(* Types *)

ClockOK ==
  /\ now \in Nat /\ started \in Nat /\ deaths \in Nat /\ phase \in {"up", "quitting", "down"}
  /\ entered \in [Routes -> Nat]
DefOK ==
  /\ policy \in {"ALWAYS_ALLOW", "REQUIRE_APPROVAL"} /\ triggers \in [Triggers -> TriggerRow]
  /\ snapshots \in Seq(Snapshot) /\ missed \subseteq [trigger : Triggers, from : Nat, through : Nat]
  /\ shots \in [Triggers -> Nat]
  /\ \A t \in Triggers : triggers[t].snapshot \in 0..Len(snapshots)
FireOK == firings \in Seq(Firing) /\ \A f \in DOMAIN firings : firings[f].snapshot \in 0..Len(snapshots)
RunsOK == runs \subseteq Run /\ \A run \in runs : run.firing \in DOMAIN firings
ProcOK == wake \in BOOLEAN /\ children \subseteq Nat /\ file \subseteq Nat /\ launched \in Seq(Nat)
TypeInv == ClockOK /\ DefOK /\ FireOK /\ RunsOK /\ ProcOK

Inv == TypeInv /\ Defined /\ Fired /\ Executed

LEMMA TypeParts == TypeInv <=> TypeOK
BY DEF TypeInv, TypeOK, ClockOK, DefOK, FireOK, RunsOK, ProcOK

LEMMA SameClock == ASSUME ClockOK, UNCHANGED <<now, started, phase, deaths, entered>> PROVE ClockOK'
BY DEF ClockOK
LEMMA SameDefs == ASSUME DefOK, UNCHANGED definitions PROVE DefOK'
BY DEF DefOK, definitions
LEMMA SameFirings == ASSUME FireOK, UNCHANGED <<firings, snapshots>> PROVE FireOK'
BY DEF FireOK
LEMMA SameRuns == ASSUME RunsOK, UNCHANGED runs, DOMAIN firings \subseteq DOMAIN firings' PROVE RunsOK'
BY DEF RunsOK
LEMMA SameProcs == ASSUME ProcOK, UNCHANGED <<wake, children, file, launched>> PROVE ProcOK'
BY DEF ProcOK

LEMMA InitTypes == Init => TypeInv
<1> SUFFICES ASSUME Init PROVE TypeInv OBVIOUS
<1>1. ClockOK BY DEF Init, ClockOK
<1>2. DefOK
  <2>1. Absent \in TriggerRow BY DEF Absent, TriggerRow, NoSchedule, Schedule, Null
  <2>2. snapshots = <<>> /\ Len(snapshots) = 0 /\ snapshots \in Seq(Snapshot)
    BY EmptySeq DEF Init
  <2>3. \A t \in Triggers : triggers[t] = Absent BY DEF Init
  <2>4. Absent.snapshot = 0 BY DEF Absent, Null
  <2>5. triggers \in [Triggers -> TriggerRow] BY <2>1 DEF Init
  <2> QED BY <2>2, <2>3, <2>4, <2>5 DEF Init, DefOK
<1>3. FireOK BY EmptySeq DEF Init, FireOK
<1>4. RunsOK /\ ProcOK BY EmptySeq DEF Init, RunsOK, ProcOK
<1> QED BY <1>1, <1>2, <1>3, <1>4 DEF TypeInv

\* Attaching code adds its snapshot, stamped by the policy, after those that were there.
LEMMA Attached ==
  ASSUME TypeInv, NEW code \in Codes \cup {NoCode}, NEW grown, grown = Attach(code)
  PROVE  /\ grown \in Seq(Snapshot) /\ Len(snapshots) \in Nat /\ Len(grown) \in Nat
         /\ \A s \in 1..Len(snapshots) : grown[s] = snapshots[s]
         /\ code = NoCode => grown = snapshots
         /\ code # NoCode => Len(grown) = Len(snapshots) + 1 /\ grown[Len(grown)].approval = Stamp
<1>1. snapshots \in Seq(Snapshot) /\ Len(snapshots) \in Nat /\ DOMAIN snapshots = 1..Len(snapshots)
  BY LenProperties DEF TypeInv, DefOK
<1>2. CASE code = NoCode BY <1>1, <1>2 DEF Attach
<1>3. CASE code # NoCode
  <2>1. \A new : new = [code |-> code, approval |-> Stamp] =>
          new \in Snapshot /\ new.approval = Stamp
    BY <1>3 DEF Snapshot, Stamp
  <2>2. PICK new \in Snapshot : new.approval = Stamp /\ grown = Append(snapshots, new)
    BY <1>3, <2>1 DEF Attach
  <2>3. /\ grown \in Seq(Snapshot) /\ Len(grown) = Len(snapshots) + 1
        /\ \A s \in DOMAIN snapshots : grown[s] = snapshots[s]
        /\ grown[Len(snapshots) + 1] = new
    BY <1>1, <2>2, Added
  <2>4. Len(grown) \in Nat /\ grown[Len(grown)].approval = Stamp BY <1>1, <2>2, <2>3
  <2> HIDE <2>2
  <2> QED BY <1>1, <1>3, <2>3, <2>4
<1> QED BY <1>2, <1>3

\* What was cleared stays so, whether or not something is attached.
LEMMA AttachKeeps ==
  ASSUME TypeInv, NEW code \in Codes \cup {NoCode}, snapshots' = Attach(code) \/ UNCHANGED snapshots
  PROVE  snapshots' \in Seq(Snapshot) /\ Kept /\ \A s \in 0..Len(snapshots) : Approval(s)' = Approval(s)
<1>1. /\ snapshots' \in Seq(Snapshot) /\ Len(snapshots) \in Nat /\ Len(snapshots') \in Nat
      /\ Len(snapshots) <= Len(snapshots')
      /\ \A s \in 1..Len(snapshots) : snapshots'[s] = snapshots[s]
  <2>1. CASE snapshots' = Attach(code) BY <2>1, Attached
  <2>2. CASE UNCHANGED snapshots BY <2>2, LenProperties DEF TypeInv, DefOK
  <2> QED BY <2>1, <2>2
<1>2. \A s \in 0..Len(snapshots) : Approval(s)' = Approval(s) BY <1>1 DEF Approval, Null
<1> QED BY <1>1, <1>2 DEF Kept, Cleared

\* References stay valid when snapshots are only added.
LEMMA KeptFirings == ASSUME FireOK, UNCHANGED firings, Kept PROVE FireOK'
BY DEF FireOK, Kept

\* One row is rewritten: it, and it alone, has to be looked at.
LEMMA RowRewritten ==
  ASSUME TypeInv, Defined, NEW t \in Triggers, NEW row \in TriggerRow,
         triggers' = [triggers EXCEPT ![t] = row],
         snapshots' \in Seq(Snapshot), Kept, row.snapshot \in 0..Len(snapshots'),
         row.next # Null => Cleared(row.snapshot)',
         shots' \in [Triggers -> Nat], \A u \in Triggers \ {t} : shots'[u] = shots[u],
         shots'[t] <= 1, row.enabled \/ row.state = "ABSENT" => shots'[t] = 0,
         UNCHANGED <<policy, missed>>
  PROVE  DefOK' /\ Defined'
<1>1. triggers' \in [Triggers -> TriggerRow] BY DEF TypeInv, DefOK
<1>2. /\ triggers'[t] = row /\ \A u \in Triggers \ {t} : triggers'[u] = triggers[u]
      /\ \A u \in Triggers : triggers[u].snapshot \in 0..Len(snapshots)
  BY DEF TypeInv, DefOK
<1>3. DefOK' BY <1>1, <1>2 DEF TypeInv, DefOK, Kept
<1>4. \A u \in Triggers : Gated(u)' BY <1>2 DEF Defined, Gated, Kept, Cleared
<1>5. \A u \in Triggers : Armed(u)' BY <1>2 DEF Defined, Armed
<1> QED BY <1>3, <1>4, <1>5 DEF Defined

\* What every route does besides.
LEMMA RouteRest ==
  ASSUME TypeInv, NEW r \in Routes, Leaves(r), Kept, UNCHANGED <<now, firings, executor, daemon>>
  PROVE  ClockOK' /\ FireOK' /\ RunsOK' /\ ProcOK'
<1>1. ClockOK' BY DEF Leaves, TypeInv, ClockOK, daemon
<1> QED BY <1>1, KeptFirings, SameRuns, SameProcs DEF TypeInv, executor

LEMMA CreateDefs ==
  ASSUME TypeInv, Defined, NEW r \in Routes, NEW t \in Triggers, Create(r, t)
  PROVE  TypeInv' /\ Defined' /\ Kept
<1>1. PICK schedule \in Parsable(entered[r]), code \in Codes \cup {NoCode} :
        LET approval == IF code = NoCode THEN "NONE" ELSE Stamp IN
        /\ snapshots' = Attach(code)
        /\ triggers' = [triggers EXCEPT ![t] =
             [state |-> "LIVE", recurrence |-> Recurrence(schedule, "RECURRING"),
              schedule |-> schedule, enabled |-> TRUE,
              snapshot |-> IF code = NoCode THEN Null ELSE Len(snapshots'),
              next |-> Projection(TRUE, approval, NextAfter(schedule, entered[r])),
              revision |-> 1]]
  BY DEF Create
<1>2. PICK approval, next, snapshot, recurrence, row :
        /\ approval = IF code = NoCode THEN "NONE" ELSE Stamp
        /\ next = Projection(TRUE, approval, NextAfter(schedule, entered[r]))
        /\ snapshot = IF code = NoCode THEN Null ELSE Len(snapshots')
        /\ recurrence = Recurrence(schedule, "RECURRING")
        /\ row = [state |-> "LIVE", recurrence |-> recurrence, schedule |-> schedule,
                  enabled |-> TRUE, snapshot |-> snapshot, next |-> next, revision |-> 1]
  OBVIOUS
<1>3. triggers' = [triggers EXCEPT ![t] = row] BY <1>1, <1>2
<1>4. schedule \in Schedule /\ entered[r] \in Nat BY ParsableType DEF TypeInv, ClockOK
<1>5. next \in Nat /\ (next # Null => approval \notin {"PENDING", "DENIED"})
  BY <1>2, <1>4, NextType, ProjectionType
<1>6. snapshots' \in Seq(Snapshot) /\ Kept BY <1>1, AttachKeeps
<1>7. code # NoCode => Len(snapshots') = Len(snapshots) + 1 /\ snapshots'[Len(snapshots')].approval = Stamp
  BY <1>1, Attached
<1>8. snapshot \in 0..Len(snapshots') /\ snapshot \in Nat BY <1>2, <1>6 DEF Null, Kept
<1>9. Approval(snapshot)' = approval BY <1>2, <1>6, <1>7 DEF Approval, Null, Kept
<1>10. row \in TriggerRow
  <2>1. recurrence \in {"ONE_OFF", "RECURRING"} BY <1>2 DEF Recurrence
  <2> QED BY <1>2, <1>4, <1>5, <1>8, <2>1 DEF TriggerRow
<1>11. row.snapshot = snapshot /\ row.next = next /\ row.state = "LIVE" BY <1>2
<1>12. row.next # Null => Cleared(row.snapshot)' BY <1>5, <1>9, <1>11 DEF Cleared
<1>13. shots' = shots /\ triggers[t].state = "ABSENT" /\ UNCHANGED <<policy, missed>> BY DEF Create
<1>14. /\ shots' \in [Triggers -> Nat] /\ \A u \in Triggers \ {t} : shots'[u] = shots[u]
       /\ shots'[t] <= 1 /\ (row.enabled \/ row.state = "ABSENT" => shots'[t] = 0)
  BY <1>13 DEF TypeInv, DefOK, Defined, Armed
<1>15. row.snapshot \in 0..Len(snapshots') BY <1>8, <1>11
<1>16. DefOK' /\ Defined'
  BY <1>3, <1>6, <1>10, <1>12, <1>13, <1>14, <1>15, RowRewritten
<1> QED BY <1>6, <1>16, RouteRest DEF Create, TypeInv

LEMMA PatchDefs ==
  ASSUME TypeInv, Defined, NEW r \in Routes, NEW t \in Triggers, Patch(r, t)
  PROVE  TypeInv' /\ Defined' /\ Kept
<1> DEFINE old == triggers[t]
<1>2. /\ old \in TriggerRow /\ old.snapshot \in 0..Len(snapshots) /\ entered[r] \in Nat
      /\ Gated(t) /\ Armed(t) /\ shots \in [Triggers -> Nat] /\ old.state = "LIVE"
  BY DEF TypeInv, DefOK, ClockOK, Defined, Patch
<1>3. PICK schedule \in Parsable(entered[r]) \cup {old.schedule}, enabled \in BOOLEAN,
           code \in Codes \cup {NoCode} :
       LET same == \/ old.snapshot = Null /\ code = NoCode
                   \/ old.snapshot # Null /\ snapshots[old.snapshot].code = code
           snapshot == IF same THEN old.snapshot ELSE IF code = NoCode THEN Null
                       ELSE Len(snapshots) + 1
           approval == IF same THEN Approval(old.snapshot) ELSE IF code = NoCode THEN "NONE"
                       ELSE Stamp
       IN
       /\ snapshots' = IF same THEN snapshots ELSE Attach(code)
       /\ triggers' = [triggers EXCEPT ![t] =
            [old EXCEPT !.recurrence = Recurrence(schedule, @), !.schedule = schedule,
                        !.enabled = enabled, !.snapshot = snapshot, !.revision = @ + 1,
                        !.next = Projection(enabled, approval, NextAfter(schedule, entered[r]))]]
       /\ shots' = IF enabled /\ ~old.enabled THEN [shots EXCEPT ![t] = 0] ELSE shots
  BY DEF Patch
<1>t. old = triggers[t] OBVIOUS
<1> HIDE DEF old
<1>s. PICK same \in BOOLEAN :
        same = (\/ old.snapshot = Null /\ code = NoCode
                \/ old.snapshot # Null /\ snapshots[old.snapshot].code = code)
  OBVIOUS
<1>4. PICK snapshot, approval, next, recurrence, row :
        /\ snapshots' = IF same THEN snapshots ELSE Attach(code)
        /\ snapshot = IF same THEN old.snapshot ELSE IF code = NoCode THEN Null
                      ELSE Len(snapshots) + 1
        /\ approval = IF same THEN Approval(old.snapshot) ELSE IF code = NoCode THEN "NONE"
                      ELSE Stamp
        /\ next = Projection(enabled, approval, NextAfter(schedule, entered[r]))
        /\ recurrence = Recurrence(schedule, old.recurrence)
        /\ row = [old EXCEPT !.recurrence = recurrence, !.schedule = schedule,
                  !.enabled = enabled, !.snapshot = snapshot, !.revision = @ + 1, !.next = next]
        /\ triggers' = [triggers EXCEPT ![t] = row]
  BY <1>3, <1>s, Zenon
<1>5. schedule \in Schedule BY <1>2, ParsableType DEF TriggerRow
<1>6. next \in Nat /\ (next # Null => approval \notin {"PENDING", "DENIED"})
  BY <1>2, <1>4, <1>5, NextType, ProjectionType
<1>7. /\ snapshots' \in Seq(Snapshot) /\ Kept
      /\ \A s \in 0..Len(snapshots) : Approval(s)' = Approval(s)
  BY <1>4, AttachKeeps
<1>8. ~same /\ code # NoCode =>
        Len(snapshots') = Len(snapshots) + 1 /\ snapshots'[Len(snapshots')].approval = Stamp
  BY <1>4, Attached
<1>9. snapshot \in 0..Len(snapshots') /\ snapshot \in Nat BY <1>2, <1>4, <1>7, <1>8 DEF Null, Kept
<1>10. Approval(snapshot)' = approval
  <2>1. CASE same BY <1>2, <1>4, <1>7, <2>1
  <2>2. CASE ~same BY <1>4, <1>7, <1>8, <2>2 DEF Approval, Null, Kept
  <2> QED BY <2>1, <2>2
<1>11. row \in TriggerRow
  <2>1. recurrence \in {"ONE_OFF", "RECURRING"} BY <1>2, <1>4 DEF Recurrence, TriggerRow
  <2>2. old.revision + 1 \in Nat BY <1>2 DEF TriggerRow
  <2> QED BY <1>2, <1>4, <1>5, <1>6, <1>9, <2>1, <2>2 DEF TriggerRow
<1>12. /\ row.snapshot = snapshot /\ row.next = next /\ row.state = "LIVE"
       /\ row.enabled = enabled
  BY <1>2, <1>4 DEF TriggerRow
<1>13. row.next # Null => Cleared(row.snapshot)' BY <1>6, <1>10, <1>12 DEF Cleared
<1>14. /\ shots' \in [Triggers -> Nat] /\ \A u \in Triggers \ {t} : shots'[u] = shots[u]
       /\ shots'[t] <= 1 /\ (row.enabled \/ row.state = "ABSENT" => shots'[t] = 0)
  BY <1>t, <1>2, <1>3, <1>12 DEF Armed
<1>15. row.snapshot \in 0..Len(snapshots') BY <1>9, <1>12
<1>16. DefOK' /\ Defined'
  BY <1>4, <1>7, <1>11, <1>13, <1>14, <1>15, RowRewritten DEF Patch
<1> QED BY <1>7, <1>16, RouteRest DEF Patch, TypeInv

LEMMA DeleteDefs ==
  ASSUME TypeInv, Defined, NEW r \in Routes, NEW t \in Triggers, Delete(r, t)
  PROVE  TypeInv' /\ Defined' /\ Kept
<1>1. PICK row : row = [triggers[t] EXCEPT !.state = "DELETED", !.next = Null] OBVIOUS
<1>2. triggers' = [triggers EXCEPT ![t] = row] BY <1>1 DEF Delete, TypeInv, DefOK
<1>3. /\ row \in TriggerRow /\ row.snapshot \in 0..Len(snapshots') /\ row.next = Null
      /\ row.state = "DELETED" /\ row.enabled = triggers[t].enabled
  BY <1>1 DEF Delete, TypeInv, DefOK, TriggerRow, Null
<1>4. UNCHANGED <<policy, snapshots, missed, shots>> BY DEF Delete
<1>5. snapshots' \in Seq(Snapshot) /\ Kept
  BY <1>4, LenProperties DEF TypeInv, DefOK, Kept, Cleared, Approval
<1>6. /\ shots' \in [Triggers -> Nat] /\ \A u \in Triggers \ {t} : shots'[u] = shots[u]
      /\ shots'[t] <= 1 /\ (row.enabled \/ row.state = "ABSENT" => shots'[t] = 0)
  BY <1>3, <1>4 DEF TypeInv, DefOK, Defined, Armed
<1>7. DefOK' /\ Defined'
  BY <1>2, <1>3, <1>4, <1>5, <1>6, RowRewritten
<1> QED BY <1>5, <1>7, RouteRest DEF Delete, TypeInv

LEMMA DecideDefs ==
  ASSUME TypeInv, Defined, NEW r \in Routes, NEW s \in DOMAIN snapshots, Decide(r, s)
  PROVE  TypeInv' /\ Defined' /\ Kept
<1>1. PICK decision \in {"APPROVED", "DENIED"} :
       /\ snapshots' = [snapshots EXCEPT ![s].approval = decision]
       /\ triggers' = [t \in Triggers |-> IF triggers[t].snapshot # s THEN triggers[t] ELSE
            [triggers[t] EXCEPT !.next =
               Projection(triggers[t].enabled /\ triggers[t].state = "LIVE", decision,
                          NextAfter(triggers[t].schedule, entered[r]))]]
  BY DEF Decide
<1>2. /\ snapshots' \in Seq(Snapshot) /\ Len(snapshots') = Len(snapshots) /\ Len(snapshots) \in Nat
      /\ DOMAIN snapshots = 1..Len(snapshots) /\ snapshots'[s].approval = decision
      /\ \A i \in DOMAIN snapshots \ {s} : snapshots'[i] = snapshots[i]
  <2>1. snapshots' = [snapshots EXCEPT ![s] = [snapshots[s] EXCEPT !.approval = decision]]
    BY <1>1, Zenon
  <2>2. snapshots \in Seq(Snapshot) /\ snapshots[s] \in Snapshot BY ElementOfSeq DEF TypeInv, DefOK
  <2>3. [snapshots[s] EXCEPT !.approval = decision] \in Snapshot BY <2>2 DEF Snapshot
  <2>4. snapshots' \in Seq(Snapshot) /\ Len(snapshots') = Len(snapshots)
    BY <2>1, <2>2, <2>3, ExceptSeq
  <2>5. [snapshots[s] EXCEPT !.approval = decision].approval = decision BY <2>2 DEF Snapshot
  <2> QED BY <2>1, <2>2, <2>4, <2>5, LenProperties
<1>3. /\ \A i \in 0..Len(snapshots) \ {s} : Approval(i)' = Approval(i)
      /\ Approval(s)' = decision /\ Approval(s) = "PENDING"
  BY <1>2 DEF Approval, Null, Decide
<1>4. Kept BY <1>2, <1>3 DEF Kept, Cleared
<1>5. ASSUME NEW t \in Triggers
      PROVE  /\ triggers'[t] \in TriggerRow /\ triggers'[t].snapshot = triggers[t].snapshot
             /\ triggers'[t].enabled = triggers[t].enabled /\ triggers'[t].state = triggers[t].state
             /\ triggers[t].snapshot # s => triggers'[t] = triggers[t]
             /\ triggers[t].snapshot = s /\ triggers'[t].next # Null => decision = "APPROVED"
  <2>1. /\ triggers[t] \in TriggerRow /\ triggers[t].schedule \in Schedule /\ entered[r] \in Nat
        /\ triggers[t].snapshot \in Nat
    BY DEF TypeInv, DefOK, TriggerRow, ClockOK
  <2>2. PICK next : next = Projection(triggers[t].enabled /\ triggers[t].state = "LIVE", decision,
                   NextAfter(triggers[t].schedule, entered[r]))
    OBVIOUS
  <2>3. next \in Nat /\ (next # Null => decision \notin {"PENDING", "DENIED"})
    BY <2>1, <2>2, NextType, ProjectionType
  <2>4. triggers'[t] = IF triggers[t].snapshot # s THEN triggers[t] ELSE [triggers[t] EXCEPT !.next = next]
    BY <1>1, <2>2
  <2> QED BY <2>1, <2>3, <2>4 DEF TriggerRow
<1>6. UNCHANGED <<policy, missed, shots>> BY DEF Decide
<1>7. DefOK'
  <2>1. triggers' \in [Triggers -> TriggerRow] BY <1>1, <1>5
  <2> QED BY <1>2, <1>5, <1>6, <2>1 DEF TypeInv, DefOK
<1>8. ASSUME NEW t \in Triggers PROVE Gated(t)'
  <2>1. triggers[t].snapshot \in 0..Len(snapshots) /\ Gated(t) BY DEF TypeInv, DefOK, Defined
  <2> QED BY <1>3, <1>5, <2>1 DEF Gated, Cleared
<1>9. Defined' BY <1>5, <1>6, <1>8 DEF Defined, Armed
<1> QED BY <1>4, <1>7, <1>9, RouteRest DEF Decide, TypeInv

-------------------------------------------------------------------------------
(* Acceptance *)

\* Rows that are added: they are new occurrences of cleared code, which nobody runs yet.
LEMMA AddedFirings ==
  ASSUME Inv, NEW n \in Nat, NEW added \in [1..n -> Firing], firings' = firings \o added,
         \A i \in 1..n :
           /\ added[i].snapshot \in 0..Len(snapshots) /\ Cleared(added[i].snapshot)
           /\ added[i].execution = "NONE"
           /\ added[i].results = IF added[i].snapshot = Null THEN 1 ELSE 0,
         \A i \in 1..n : added[i].request = NoRequest =>
           /\ \A f \in DOMAIN firings :
                ~ /\ firings[f].trigger = added[i].trigger /\ firings[f].request = NoRequest
                  /\ firings[f].occurrence = added[i].occurrence
           /\ \A j \in 1..n : added[j].trigger = added[i].trigger => i = j,
         UNCHANGED <<snapshots, runs, launched, phase>>
  PROVE  FireOK' /\ RunsOK' /\ Fired' /\ Executed'
<1> USE DEF Inv, TypeInv, FireOK
<1>1. /\ firings' \in Seq(Firing) /\ DOMAIN firings \subseteq DOMAIN firings'
      /\ \A f \in DOMAIN firings : firings'[f] = firings[f]
      /\ \A f \in DOMAIN firings' \ DOMAIN firings :
           f - Len(firings) \in 1..n /\ firings'[f] = added[f - Len(firings)]
      /\ DOMAIN firings' \subseteq Nat /\ Len(firings) \in Nat
  BY Extended, LenProperties
<1>2. \A f \in DOMAIN firings' : f \in DOMAIN firings \/ \E i \in 1..n : firings'[f] = added[i]
  BY <1>1
<1>3. FireOK' BY <1>1, <1>2
<1>4. ApprovedOnly' BY <1>1, <1>2 DEF Fired, ApprovedOnly, Cleared, Approval
<1>5. OccurrenceOnce'
  <2> SUFFICES ASSUME NEW f \in DOMAIN firings', NEW g \in DOMAIN firings',
                      firings'[f].trigger = firings'[g].trigger,
                      firings'[f].occurrence = firings'[g].occurrence,
                      firings'[f].request = NoRequest, firings'[g].request = NoRequest
               PROVE  f = g
    BY DEF OccurrenceOnce
  <2>1. CASE f \in DOMAIN firings /\ g \in DOMAIN firings
    BY <1>1, <2>1 DEF Fired, OccurrenceOnce
  <2>2. CASE f \in DOMAIN firings /\ g \notin DOMAIN firings
    <3>1. PICK i \in 1..n : firings'[g] = added[i] BY <1>2, <2>2
    <3>2. /\ firings[f].trigger = added[i].trigger /\ firings[f].request = NoRequest
          /\ firings[f].occurrence = added[i].occurrence /\ added[i].request = NoRequest
      BY <1>1, <2>2, <3>1
    <3> QED BY <2>2, <3>2, Zenon
  <2>3. CASE f \notin DOMAIN firings /\ g \in DOMAIN firings
    <3>1. PICK i \in 1..n : firings'[f] = added[i] BY <1>2, <2>3
    <3>2. /\ firings[g].trigger = added[i].trigger /\ firings[g].request = NoRequest
          /\ firings[g].occurrence = added[i].occurrence /\ added[i].request = NoRequest
      BY <1>1, <2>3, <3>1
    <3> QED BY <2>3, <3>2, Zenon
  <2>4. CASE f \notin DOMAIN firings /\ g \notin DOMAIN firings
    <3>1. f - Len(firings) = g - Len(firings) BY <1>1, <2>4
    <3> QED BY <1>1, <3>1
  <2> QED BY <2>1, <2>2, <2>3, <2>4
<1>6. \A run \in runs : run.firing \in DOMAIN firings BY DEF RunsOK
<1>7. RunsOK' BY <1>1 DEF RunsOK
<1>8. Booked' BY <1>1, <1>2 DEF Executed, Booked
<1>9. Working' BY <1>1, <1>6 DEF Executed, Working
<1>10. Started' BY <1>1 DEF Executed, Started
<1>11. Served'
  <2>1. \A f \in DOMAIN firings' : firings'[f].execution = "RUNNING" => f \in DOMAIN firings
    BY <1>2, <1>1
  <2>2. \A f, g \in DOMAIN firings' :
          /\ firings'[f].execution = "RUNNING" /\ firings'[g].execution = "RUNNING"
          /\ Home[firings'[f].trigger] = Home[firings'[g].trigger]
          => f = g
    <3> SUFFICES ASSUME NEW f \in DOMAIN firings', NEW g \in DOMAIN firings',
                        firings'[f].execution = "RUNNING", firings'[g].execution = "RUNNING",
                        Home[firings'[f].trigger] = Home[firings'[g].trigger]
                 PROVE  f = g
      OBVIOUS
    <3>1. f \in DOMAIN firings /\ g \in DOMAIN firings BY <2>1
    <3> QED BY <1>1, <3>1 DEF Executed, Served
  <2>3. phase' # "down" => \A f \in DOMAIN firings' :
          firings'[f].execution = "RUNNING" => \E run \in runs' : run.firing = f
    BY <1>1, <2>1 DEF Executed, Served
  <2> QED BY <2>2, <2>3 DEF Executed, Served
<1> QED BY <1>3, <1>4, <1>5, <1>7, <1>8, <1>9, <1>10, <1>11 DEF Fired, Executed

\* What a firing of a trigger looks like.
LEMMA NewFiringType ==
  ASSUME TypeInv, NEW t \in Triggers, NEW occurrence \in Nat, NEW accepted \in Nat,
         NEW request \in Requests \cup {NoRequest},
         NEW new, new = NewFiring(t, occurrence, accepted, request)
  PROVE  /\ new \in Firing /\ new.snapshot = triggers[t].snapshot
         /\ new.snapshot \in 0..Len(snapshots) /\ new.execution = "NONE"
         /\ new.results = IF new.snapshot = Null THEN 1 ELSE 0
         /\ new.trigger = t /\ new.occurrence = occurrence /\ new.request = request
<1>1. triggers[t].snapshot \in Nat /\ triggers[t].snapshot \in 0..Len(snapshots)
  BY DEF TypeInv, DefOK, TriggerRow
<1> QED BY <1>1 DEF NewFiring, Firing, Outcomes, Null

\* A shot of an enabled trigger is its first, and it is not enabled any more.
LEMMA ShotArmed ==
  ASSUME TypeInv, Defined, NEW T, shots' = Shot(T),
         \A t \in T : triggers[t].enabled
  PROVE  /\ shots' \in [Triggers -> Nat]
         /\ \A t \in Triggers : IF t \in T /\ IsOneOff(t) THEN shots'[t] = 1 ELSE shots'[t] = shots[t]
<1>1. \A t \in Triggers : shots[t] \in Nat /\ (t \in T => shots[t] = 0)
  BY DEF TypeInv, DefOK, Defined, Armed
<1> QED BY <1>1 DEF Shot

LEMMA InvokeInv ==
  ASSUME Inv, NEW r \in Routes, NEW t \in Triggers, NEW q \in Requests, Invoke(r, t, q)
  PROVE  Inv'
<1> USE DEF Inv
<1>1. PICK new : new = NewFiring(t, entered[r], entered[r], q) OBVIOUS
<1>2. entered[r] \in Nat BY DEF TypeInv, ClockOK
<1>3. /\ new \in Firing /\ new.snapshot = triggers[t].snapshot
      /\ new.snapshot \in 0..Len(snapshots) /\ new.execution = "NONE"
      /\ new.results = (IF new.snapshot = Null THEN 1 ELSE 0) /\ new.request = q
  BY <1>1, <1>2, NewFiringType
<1>4. /\ Leaves(r) /\ triggers[t].enabled /\ triggers[t].state = "LIVE" /\ Cleared(triggers[t].snapshot)
      /\ firings' = Append(firings, new) /\ shots' = Shot({t})
      /\ triggers' = IF IsOneOff(t)
           THEN [triggers EXCEPT ![t].enabled = FALSE, ![t].next = Null] ELSE triggers
      /\ wake' = (wake \/ triggers[t].snapshot # Null)
      /\ UNCHANGED <<now, policy, snapshots, missed, runs, children, file, launched, daemon>>
  BY <1>1 DEF Invoke, Cleared
<1>5. PICK added \in [1..1 -> Firing] : added = [i \in 1..1 |-> new] BY <1>3
<1>6. firings' = firings \o added
  <2>1. firings \in Seq(Firing) BY DEF TypeInv, FireOK
  <2>2. added = <<new>> BY <1>5
  <2> QED BY <1>3, <1>4, <2>1, <2>2, AppendIsConcat
<1>7. q # NoRequest BY NullAssumption
<1>8. FireOK' /\ RunsOK' /\ Fired' /\ Executed'
  <2>1. \A i \in 1..1 :
          /\ added[i].snapshot \in 0..Len(snapshots) /\ Cleared(added[i].snapshot)
          /\ added[i].execution = "NONE"
          /\ added[i].results = (IF added[i].snapshot = Null THEN 1 ELSE 0)
          /\ added[i].request # NoRequest
    BY <1>3, <1>4, <1>5, <1>7
  <2>2. UNCHANGED <<snapshots, runs, launched, phase>> BY <1>4 DEF daemon
  <2> QED BY <1>6, <2>1, <2>2, AddedFirings
<1>9. DefOK' /\ Defined'
  <2>1. /\ shots' \in [Triggers -> Nat]
        /\ \A u \in Triggers : IF u = t /\ IsOneOff(u) THEN shots'[u] = 1 ELSE shots'[u] = shots[u]
    <3>1. \A u \in {t} : triggers[u].enabled BY <1>4
    <3>2. \A u \in Triggers : u \in {t} <=> u = t OBVIOUS
    <3> QED BY <1>4, <3>1, <3>2, ShotArmed
  <2>2. /\ snapshots' \in Seq(Snapshot) /\ Kept
    BY <1>4, LenProperties DEF TypeInv, DefOK, Kept, Cleared, Approval
  <2>3. CASE IsOneOff(t)
    <3>1. PICK row : row = [triggers[t] EXCEPT !.enabled = FALSE, !.next = Null] OBVIOUS
    <3>2. triggers' = [triggers EXCEPT ![t] = row] BY <1>4, <2>3, <3>1 DEF TypeInv, DefOK
    <3>3. /\ row \in TriggerRow /\ row.snapshot \in 0..Len(snapshots') /\ row.next = Null
          /\ row.state = "LIVE" /\ ~row.enabled
      BY <1>4, <3>1 DEF TypeInv, DefOK, TriggerRow, Null
    <3>4. shots'[t] <= 1 /\ \A u \in Triggers \ {t} : shots'[u] = shots[u] BY <2>1, <2>3
    <3> QED BY <1>4, <2>1, <2>2, <3>2, <3>3, <3>4, RowRewritten
  <2>4. CASE ~IsOneOff(t)
    <3>1. shots' = shots BY <2>1, <2>4 DEF TypeInv, DefOK
    <3> QED BY <1>4, <2>4, <3>1 DEF TypeInv, DefOK, Defined, Gated, Armed, Cleared, Approval
  <2> QED BY <2>3, <2>4
<1>10. ClockOK' /\ ProcOK' BY <1>4 DEF Leaves, TypeInv, ClockOK, ProcOK, daemon
<1> QED BY <1>8, <1>9, <1>10 DEF TypeInv

LEMMA PassInv == ASSUME Inv, SchedulerPass PROVE Inv'
<1> USE DEF Inv
<1>1. PICK accepted : accepted = {t \in Due : InTime(t) /\ ~AlreadyFired(t)} OBVIOUS
<1>2. /\ firings' = firings \o [i \in 1..Cardinality(accepted) |->
           LET t == Nth(accepted, i) IN NewFiring(t, triggers[t].next, now, NoRequest)]
      /\ triggers' = [t \in Triggers |-> IF t \notin Due THEN triggers[t] ELSE
           [triggers[t] EXCEPT
              !.next = IF IsOneOff(t) THEN Null
                       ELSE Projection(TRUE, Approval(triggers[t].snapshot),
                              NextAfter(triggers[t].schedule, IF InTime(t) THEN @ ELSE now)),
              !.enabled = ~(InTime(t) /\ IsOneOff(t))]]
      /\ missed' = missed \cup
           {[trigger |-> t, from |-> triggers[t].next, through |-> now] : t \in {u \in Due : ~InTime(u)}}
      /\ shots' = Shot(accepted)
      /\ wake' = (wake \/ \E t \in accepted : triggers[t].snapshot # Null)
      /\ UNCHANGED <<now, policy, snapshots, entered, runs, children, file, launched, daemon>>
  BY <1>1 DEF SchedulerPass
<1>3. /\ accepted \subseteq Due /\ Due \subseteq Triggers
      /\ \A t \in Due : /\ triggers[t] \in TriggerRow /\ triggers[t].next \in Nat
                        /\ triggers[t].next # Null /\ triggers[t].enabled
      /\ now \in Nat
  BY <1>1 DEF Due, TypeInv, DefOK, ClockOK, TriggerRow, Null
<1>4. PICK n, added : /\ n = Cardinality(accepted)
        /\ added = [i \in 1..n |->
             LET t == Nth(accepted, i) IN NewFiring(t, triggers[t].next, now, NoRequest)]
  OBVIOUS
<1>5. /\ n \in Nat /\ \A i \in 1..n : Nth(accepted, i) \in accepted
      /\ \A i, j \in 1..n : Nth(accepted, i) = Nth(accepted, j) => i = j
  BY <1>3, <1>4, EachOnce, FS_CardinalityType
<1>6. ASSUME NEW i \in 1..n
      PROVE  /\ added[i] \in Firing /\ added[i].trigger = Nth(accepted, i)
             /\ added[i].snapshot \in 0..Len(snapshots) /\ Cleared(added[i].snapshot)
             /\ added[i].execution = "NONE"
             /\ added[i].results = (IF added[i].snapshot = Null THEN 1 ELSE 0)
             /\ added[i].occurrence = triggers[Nth(accepted, i)].next
  <2>1. PICK t \in accepted : t = Nth(accepted, i) BY <1>5
  <2>2. added[i] = NewFiring(t, triggers[t].next, now, NoRequest) BY <1>4, <2>1
  <2>3. NoRequest \in Requests \cup {NoRequest} /\ t \in Triggers /\ triggers[t].next \in Nat /\ now \in Nat
    BY <1>3
  <2>4. /\ added[i] \in Firing /\ added[i].snapshot = triggers[t].snapshot
        /\ added[i].snapshot \in 0..Len(snapshots) /\ added[i].execution = "NONE"
        /\ added[i].results = (IF added[i].snapshot = Null THEN 1 ELSE 0)
        /\ added[i].trigger = t /\ added[i].occurrence = triggers[t].next
    BY <2>2, <2>3, NewFiringType
  <2>5. Cleared(triggers[t].snapshot) BY <1>3 DEF Defined, Gated
  <2> QED BY <2>1, <2>4, <2>5
<1>7. FireOK' /\ RunsOK' /\ Fired' /\ Executed'
  <2>1. added \in [1..n -> Firing] BY <1>4, <1>6
  <2>2. firings' = firings \o added BY <1>2, <1>4
  <2>3. ASSUME NEW i \in 1..n
        PROVE  /\ \A f \in DOMAIN firings :
                    ~ /\ firings[f].trigger = added[i].trigger /\ firings[f].request = NoRequest
                      /\ firings[f].occurrence = added[i].occurrence
               /\ \A j \in 1..n : added[j].trigger = added[i].trigger => i = j
    <3>1. ~AlreadyFired(Nth(accepted, i)) BY <1>1, <1>5
    <3>2. \A f \in DOMAIN firings :
            ~ /\ firings[f].trigger = added[i].trigger /\ firings[f].request = NoRequest
              /\ firings[f].occurrence = added[i].occurrence
      BY <1>6, <3>1 DEF AlreadyFired
    <3>3. \A j \in 1..n : added[j].trigger = added[i].trigger => i = j
      BY <1>5, <1>6
    <3> QED BY <3>2, <3>3
  <2>4. UNCHANGED <<snapshots, runs, launched, phase>> BY <1>2 DEF daemon
  <2> QED BY <1>5, <1>6, <2>1, <2>2, <2>3, <2>4, AddedFirings
<1>8. /\ shots' \in [Triggers -> Nat]
      /\ \A t \in Triggers :
           IF t \in accepted /\ IsOneOff(t) THEN shots'[t] = 1 ELSE shots'[t] = shots[t]
  <2>1. \A t \in accepted : triggers[t].enabled BY <1>3
  <2> QED BY <1>2, <2>1, ShotArmed
<1>9. ASSUME NEW t \in Due
      PROVE  /\ triggers'[t] \in TriggerRow /\ triggers'[t].snapshot = triggers[t].snapshot
             /\ triggers'[t].state = triggers[t].state
             /\ triggers'[t].next # Null => Cleared(triggers[t].snapshot)
             /\ triggers'[t].enabled = ~(InTime(t) /\ IsOneOff(t))
  <2>1. PICK next, enabled :
          /\ next = IF IsOneOff(t) THEN Null
                    ELSE Projection(TRUE, Approval(triggers[t].snapshot),
                           NextAfter(triggers[t].schedule, IF InTime(t) THEN triggers[t].next ELSE now))
          /\ enabled = ~(InTime(t) /\ IsOneOff(t)) /\ enabled \in BOOLEAN
    OBVIOUS
  <2>2. triggers[t].schedule \in Schedule /\ (IF InTime(t) THEN triggers[t].next ELSE now) \in Nat
    BY <1>3 DEF TriggerRow
  <2>3. next \in Nat /\ (next # Null => Cleared(triggers[t].snapshot))
    BY <2>1, <2>2, NextType, ProjectionType DEF Cleared, Null
  <2>4. triggers'[t] = [triggers[t] EXCEPT !.next = next, !.enabled = enabled]
    BY <1>2, <1>3, <2>1, Zenon
  <2>5. /\ triggers'[t] \in TriggerRow /\ triggers'[t].snapshot = triggers[t].snapshot
        /\ triggers'[t].state = triggers[t].state /\ triggers'[t].next = next
        /\ triggers'[t].enabled = enabled
    <3>1. enabled \in BOOLEAN /\ next \in Nat BY <2>1, <2>3
    <3>2. PICK old \in TriggerRow : old = triggers[t] BY <1>3
    <3>3. PICK row : row = [old EXCEPT !.next = next, !.enabled = enabled] OBVIOUS
    <3>4. /\ row \in TriggerRow /\ row.snapshot = old.snapshot /\ row.state = old.state
          /\ row.next = next /\ row.enabled = enabled
      BY <3>1, <3>3 DEF TriggerRow
    <3> QED BY <2>4, <3>2, <3>3, <3>4
  <2> QED BY <2>1, <2>3, <2>5, Zenon
<1>10. \A t \in Triggers \ Due : triggers'[t] = triggers[t] BY <1>2
<1>11. DefOK'
  <2>1. triggers' \in [Triggers -> TriggerRow] BY <1>2, <1>9, <1>10 DEF TypeInv, DefOK
  <2>2. missed' \subseteq [trigger : Triggers, from : Nat, through : Nat]
    <3>1. \A t \in Due : [trigger |-> t, from |-> triggers[t].next, through |-> now]
                         \in [trigger : Triggers, from : Nat, through : Nat]
      BY <1>3
    <3>2. \A m \in missed' : m \in missed \/ \E t \in Due :
            m = [trigger |-> t, from |-> triggers[t].next, through |-> now]
      BY <1>2
    <3> QED BY <3>1, <3>2 DEF TypeInv, DefOK
  <2> QED BY <1>2, <1>8, <1>9, <1>10, <2>1, <2>2 DEF TypeInv, DefOK
<1>12. ASSUME NEW t \in Triggers PROVE Gated(t)'
  <2>1. triggers'[t].next # Null => Cleared(triggers'[t].snapshot)
    BY <1>9, <1>10 DEF Defined, Gated
  <2> QED BY <1>2, <2>1 DEF Gated, Cleared, Approval
<1>13. ASSUME NEW t \in Triggers PROVE Armed(t)'
  <2>1. CASE t \in Due
    <3>1. triggers[t].enabled /\ triggers[t].state = "LIVE" BY <2>1 DEF Due
    <3>2. t \in accepted => InTime(t) BY <1>1
    <3>3. t \in accepted /\ IsOneOff(t) => ~triggers'[t].enabled BY <1>9, <2>1, <3>2
    <3>4. triggers'[t].state = "LIVE" /\ shots[t] = 0 BY <1>9, <2>1, <3>1 DEF Defined, Armed
    <3>5. IF t \in accepted /\ IsOneOff(t) THEN shots'[t] = 1 ELSE shots'[t] = 0
      BY <1>8, <3>4
    <3> QED BY <3>3, <3>4, <3>5 DEF Armed
  <2>2. CASE t \notin Due BY <1>3, <1>8, <1>10, <2>2 DEF Defined, Armed
  <2> QED BY <2>1, <2>2
<1>14. ClockOK' /\ ProcOK' BY <1>2 DEF TypeInv, ClockOK, ProcOK, daemon
<1> QED BY <1>7, <1>11, <1>12, <1>13, <1>14 DEF TypeInv, Defined

-------------------------------------------------------------------------------
(* Execution *)

\* Rows move on without new ones: what was accepted stays what it was.
LEMMA ExecutionOnly ==
  ASSUME Inv, firings' \in Seq(Firing), DOMAIN firings' = DOMAIN firings,
         \A f \in DOMAIN firings :
           /\ firings'[f].trigger = firings[f].trigger /\ firings'[f].occurrence = firings[f].occurrence
           /\ firings'[f].request = firings[f].request /\ firings'[f].snapshot = firings[f].snapshot,
         UNCHANGED snapshots
  PROVE  FireOK' /\ Fired'
<1>1. FireOK' BY DEF Inv, TypeInv, FireOK
<1>2. ApprovedOnly' BY DEF Inv, Fired, ApprovedOnly, Approval
<1>3. OccurrenceOnce' BY DEF Inv, Fired, OccurrenceOnce
<1> QED BY <1>1, <1>2, <1>3 DEF Fired

LEMMA SameFired == ASSUME Fired, UNCHANGED <<firings, snapshots>> PROVE Fired'
BY DEF Fired, ApprovedOnly, OccurrenceOnce, Approval
LEMMA SameDefined == ASSUME Defined, UNCHANGED definitions PROVE Defined'
BY DEF Defined, Gated, Armed, Cleared, Approval, definitions
LEMMA SameExecuted == ASSUME Executed, UNCHANGED <<firings, runs, launched, phase>> PROVE Executed'
BY DEF Executed, Booked, Working, Started, Served

\* A run moves to a later stage; only a spawn starts a child, and it is its first.
LEMMA MovesInv ==
  ASSUME Inv, NEW run \in runs, phase # "down",
         NEW stage \in {"record", "recording", "wait", "forget", "forgetting", "complete"},
         NEW outcome \in Outcomes \cup {"none"}, NEW seen \in SUBSET Nat,
         Moves(run, stage, outcome, seen), UNCHANGED <<firings, phase>>,
         \/ UNCHANGED launched
         \/ run.stage = "launch" /\ launched' = Append(launched, run.firing)
  PROVE  RunsOK' /\ Executed' /\ launched' \in Seq(Nat)
<1> USE DEF Inv, Executed
<1>1. PICK moved : moved = [run EXCEPT !.stage = stage, !.outcome = outcome, !.seen = seen] OBVIOUS
<1>2. /\ moved \in Run /\ moved.firing = run.firing /\ moved.stage = stage
      /\ run.firing \in DOMAIN firings /\ run.firing \in Nat /\ runs \subseteq Run
  BY <1>1 DEF TypeInv, RunsOK, Run
<1>3. runs' = (runs \ {run}) \cup {moved} BY <1>1 DEF Moves
<1>4. RunsOK' BY <1>2, <1>3 DEF TypeInv, RunsOK
<1>5. /\ launched' \in Seq(Nat) /\ DOMAIN launched \subseteq DOMAIN launched'
      /\ \A i \in DOMAIN launched : launched'[i] = launched[i]
      /\ \A i \in DOMAIN launched' \ DOMAIN launched :
           /\ launched'[i] = run.firing /\ run.stage = "launch"
           /\ \A j \in DOMAIN launched' \ DOMAIN launched : i = j
  <2>1. launched \in Seq(Nat) BY DEF TypeInv, ProcOK
  <2>2. CASE UNCHANGED launched BY <2>1, <2>2
  <2>3. CASE run.stage = "launch" /\ launched' = Append(launched, run.firing)
    BY <1>2, <2>1, <2>3, Added
  <2> QED BY <2>2, <2>3
<1>6. /\ \A r \in runs : r.firing = run.firing => r = run
      /\ firings[run.firing].execution = "RUNNING"
      /\ run.stage = "launch" => \A i \in DOMAIN launched : launched[i] # run.firing
  BY DEF Working
<1>7. Working'
  <2>1. \A r \in runs' : r = moved \/ (r \in runs /\ r.firing # run.firing) BY <1>3, <1>6
  <2>2. \A r \in runs' : r.stage = "launch" => r \in runs /\ r.firing # run.firing BY <1>2, <2>1
  <2>3. ASSUME NEW r \in runs', r.stage = "launch", NEW i \in DOMAIN launched'
        PROVE  launched'[i] # r.firing
    BY <1>5, <2>2, <2>3 DEF Working
  <2>4. \A r \in runs' : firings'[r.firing].execution = "RUNNING" BY <1>2, <1>6, <2>1 DEF Working
  <2>5. \A r, other \in runs' : other.firing = r.firing => other = r BY <1>2, <2>1 DEF Working
  <2> QED BY <2>3, <2>4, <2>5 DEF Working
<1>8. Started'
  <2>1. \A i \in DOMAIN launched' :
          launched'[i] \in DOMAIN firings /\ firings[launched'[i]].execution # "NONE"
    BY <1>2, <1>5, <1>6 DEF Started
  <2>2. ASSUME NEW i \in DOMAIN launched', NEW j \in DOMAIN launched', launched'[i] = launched'[j]
        PROVE  i = j
    <3>1. CASE i \in DOMAIN launched /\ j \in DOMAIN launched BY <1>5, <2>2, <3>1 DEF Started
    <3>2. CASE i \in DOMAIN launched /\ j \notin DOMAIN launched BY <1>5, <1>6, <2>2, <3>2
    <3>3. CASE i \notin DOMAIN launched /\ j \in DOMAIN launched BY <1>5, <1>6, <2>2, <3>3
    <3>4. CASE i \notin DOMAIN launched /\ j \notin DOMAIN launched BY <1>5, <3>4
    <3> QED BY <3>1, <3>2, <3>3, <3>4
  <2> QED BY <2>1, <2>2 DEF Started
<1>9. Served'
  <2>1. \A r \in runs : \E x \in runs' : x.firing = r.firing BY <1>2, <1>3
  <2>2. \A f \in DOMAIN firings' :
          firings'[f].execution = "RUNNING" => \E r \in runs' : r.firing = f
    BY <2>1 DEF Served
  <2> QED BY <2>2 DEF Served
<1> QED BY <1>4, <1>5, <1>7, <1>8, <1>9 DEF Booked

\* What the steps of a run leave alone.
LEMMA RunRest ==
  ASSUME Inv, OnlyRuns, children' \subseteq Nat, file' \subseteq Nat, launched' \in Seq(Nat),
         RunsOK', Executed'
  PROVE  Inv'
<1>1. ClockOK' /\ DefOK' /\ FireOK'
  BY SameClock, SameDefs, SameFirings DEF Inv, TypeInv, OnlyRuns, daemon, definitions
<1>2. ProcOK' BY DEF Inv, TypeInv, ProcOK, OnlyRuns
<1>3. Defined' /\ Fired' BY SameDefined, SameFired DEF Inv, OnlyRuns, definitions
<1> QED BY <1>1, <1>2, <1>3 DEF Inv, TypeInv

\* A running execution that is completed has the firing's only result.
LEMMA CompletedType ==
  ASSUME Inv, NEW f \in DOMAIN firings, firings[f].execution = "RUNNING",
         NEW outcome \in Outcomes \cup {"none", "DAEMON_LOST"}, NEW new, new = Completed(f, outcome)
  PROVE  /\ new \in Firing /\ new.results = 1 /\ new.execution = "COMPLETE"
         /\ new.trigger = firings[f].trigger /\ new.occurrence = firings[f].occurrence
         /\ new.request = firings[f].request /\ new.snapshot = firings[f].snapshot
         /\ new.snapshot # Null
<1>1. PICK old \in Firing : old = firings[f] BY ElementOfSeq DEF Inv, TypeInv, FireOK
<1>2. old.snapshot # Null /\ old.results = 0 BY <1>1 DEF Inv, Executed, Booked
<1>3. PICK results : results = old.results + 1 OBVIOUS
<1>4. results = 1 /\ results \in Nat BY <1>2, <1>3
<1>5. new = [old EXCEPT !.execution = "COMPLETE", !.outcome = outcome, !.results = results]
  BY <1>1, <1>3 DEF Completed
<1>6. new \in Firing
  <2>1. \A o \in Firing, x \in Outcomes \cup {"none", "DAEMON_LOST"}, n \in Nat :
          [o EXCEPT !.execution = "COMPLETE", !.outcome = x, !.results = n] \in Firing
    BY DEF Firing
  <2>2. [old EXCEPT !.execution = "COMPLETE", !.outcome = outcome, !.results = results] \in Firing
    BY <1>4, <2>1
  <2> QED BY <1>5, <2>2, Zenon
<1>7. /\ new.results = results /\ new.execution = "COMPLETE"
      /\ new.trigger = old.trigger /\ new.occurrence = old.occurrence
      /\ new.request = old.request /\ new.snapshot = old.snapshot
  BY <1>5 DEF Firing
<1> QED BY <1>1, <1>2, <1>4, <1>6, <1>7

LEMMA CompleteInv == ASSUME Inv, NEW run \in runs, Complete(run) PROVE Inv'
<1> USE DEF Inv, Executed
<1>1. /\ run \in Run /\ run.firing \in DOMAIN firings /\ firings \in Seq(Firing)
      /\ firings[run.firing].execution = "RUNNING"
      /\ run.outcome \in Outcomes \cup {"none", "DAEMON_LOST"}
  BY DEF TypeInv, FireOK, RunsOK, Working, Run
<1>2. PICK old, new : old = firings[run.firing] /\ new = Completed(run.firing, run.outcome) OBVIOUS
<1>3. /\ firings' = [firings EXCEPT ![run.firing] = new] /\ runs' = runs \ {run} /\ wake' = TRUE
      /\ phase # "down"
      /\ UNCHANGED <<now, definitions, entered, children, launched, file, daemon>>
  BY <1>2 DEF Complete, Executing
<1>4. old.snapshot # Null /\ old.results = 0 BY <1>1, <1>2 DEF Booked
<1>5. /\ new \in Firing /\ new.results = 1 /\ new.execution = "COMPLETE"
      /\ new.trigger = old.trigger /\ new.occurrence = old.occurrence
      /\ new.request = old.request /\ new.snapshot = old.snapshot
  BY <1>1, <1>2, <1>4, CompletedType
<1>6. /\ firings' \in Seq(Firing) /\ DOMAIN firings' = DOMAIN firings
      /\ firings'[run.firing] = new
      /\ \A f \in DOMAIN firings \ {run.firing} : firings'[f] = firings[f]
  BY <1>1, <1>3, <1>5, ExceptSeq
<1>7. FireOK' /\ Fired'
  BY <1>2, <1>3, <1>5, <1>6, ExecutionOnly DEF definitions
<1>8. RunsOK' BY <1>3, <1>6 DEF TypeInv, RunsOK
<1>9. \A r \in runs' : r \in runs /\ r.firing # run.firing BY <1>3 DEF Working
<1>10. Booked'
  <2>1. new.snapshot # Null BY <1>4, <1>5
  <2>2. ASSUME NEW f \in DOMAIN firings
        PROVE  /\ firings'[f].results =
                    IF firings'[f].snapshot = Null \/ firings'[f].execution = "COMPLETE" THEN 1 ELSE 0
               /\ firings'[f].snapshot = Null => firings'[f].execution = "NONE"
    <3>1. CASE f = run.firing BY <1>5, <1>6, <2>1, <3>1
    <3>2. CASE f # run.firing BY <1>6, <3>2 DEF Booked
    <3> QED BY <3>1, <3>2
  <2> QED BY <1>6, <2>2 DEF Booked
<1>11. Working'
  <2>1. \A r \in runs : r.firing \in DOMAIN firings BY DEF TypeInv, RunsOK
  <2> QED BY <1>3, <1>6, <1>9, <2>1 DEF Working
<1>12. Started' BY <1>3, <1>5, <1>6 DEF Started
<1>13. Served'
  <2>1. \A f \in DOMAIN firings' : firings'[f].execution = "RUNNING" =>
          f # run.firing /\ firings'[f] = firings[f] /\ f \in DOMAIN firings
    BY <1>5, <1>6
  <2>2. ASSUME NEW f \in DOMAIN firings', firings'[f].execution = "RUNNING"
        PROVE  \E r \in runs' : r.firing = f
    <3>1. PICK r \in runs : r.firing = f BY <1>3, <2>1, <2>2 DEF Served
    <3> QED BY <1>3, <2>1, <2>2, <3>1
  <2>3. \A f, g \in DOMAIN firings' :
          /\ firings'[f].execution = "RUNNING" /\ firings'[g].execution = "RUNNING"
          /\ Home[firings'[f].trigger] = Home[firings'[g].trigger]
          => f = g
    <3> SUFFICES ASSUME NEW f \in DOMAIN firings', NEW g \in DOMAIN firings',
                        firings'[f].execution = "RUNNING", firings'[g].execution = "RUNNING",
                        Home[firings'[f].trigger] = Home[firings'[g].trigger]
                 PROVE  f = g
      OBVIOUS
    <3>1. /\ f \in DOMAIN firings /\ g \in DOMAIN firings
          /\ firings'[f] = firings[f] /\ firings'[g] = firings[g]
      BY <2>1
    <3> QED BY <3>1 DEF Served
  <2>4. phase' # "down" BY <1>3 DEF daemon
  <2> QED BY <2>2, <2>3, <2>4 DEF Served
<1>14. ClockOK' /\ DefOK' /\ ProcOK' /\ Defined'
  BY <1>3, SameClock, SameDefs, SameDefined DEF TypeInv, ProcOK, daemon
<1> QED BY <1>7, <1>8, <1>10, <1>11, <1>12, <1>13, <1>14 DEF TypeInv

LEMMA RunStepInv == ASSUME Inv, NEW run \in runs, RunStep(run) PROVE Inv'
<1> USE DEF Inv
<1>1. /\ run \in Run /\ run.firing \in Nat /\ run.outcome \in Outcomes \cup {"none"}
      /\ run.seen \in SUBSET Nat /\ {} \in SUBSET Nat /\ file \in SUBSET Nat
      /\ children \subseteq Nat /\ launched \in Seq(Nat)
  BY DEF TypeInv, RunsOK, ProcOK, Run
<1>2. CASE SpawnChild(run)
  <2>1. /\ Moves(run, "record", "none", {}) /\ phase # "down" /\ run.stage = "launch"
        /\ launched' = Append(launched, run.firing) /\ children' = children \cup {run.firing}
        /\ UNCHANGED file /\ OnlyRuns
    BY <1>2 DEF SpawnChild, Executing
  <2> QED BY <1>1, <2>1, MovesInv, RunRest DEF OnlyRuns, daemon
<1>3. CASE SpawnFailed(run)
  <2>1. /\ Moves(run, "complete", "SPAWN_FAILED", {}) /\ phase # "down"
        /\ UNCHANGED <<children, launched, file>> /\ OnlyRuns
    BY <1>3 DEF SpawnFailed, Executing
  <2>2. "SPAWN_FAILED" \in Outcomes \cup {"none"} BY DEF Outcomes
  <2> QED BY <1>1, <2>1, <2>2, MovesInv, RunRest DEF OnlyRuns, daemon
<1>4. CASE RecordReads(run)
  <2>1. /\ Moves(run, "recording", "none", file) /\ phase # "down"
        /\ UNCHANGED <<children, launched, file>> /\ OnlyRuns
    BY <1>4 DEF RecordReads, Executing
  <2> QED BY <1>1, <2>1, MovesInv, RunRest DEF OnlyRuns, daemon
<1>5. CASE RecordWrites(run)
  <2>1. /\ Moves(run, "wait", "none", {}) /\ phase # "down" /\ file' = run.seen \cup {run.firing}
        /\ UNCHANGED <<children, launched>> /\ OnlyRuns
    BY <1>5 DEF RecordWrites, Executing
  <2> QED BY <1>1, <2>1, MovesInv, RunRest DEF OnlyRuns, daemon
<1>6. CASE Ends(run)
  <2>1. PICK outcome \in Outcomes \cup {"none"} : Moves(run, "forget", outcome, {})
    BY <1>6 DEF Ends, Outcomes
  <2>2. /\ phase # "down" /\ children' = children \ {run.firing}
        /\ UNCHANGED <<launched, file>> /\ OnlyRuns
    BY <1>6 DEF Ends, Executing
  <2> QED BY <1>1, <2>1, <2>2, MovesInv, RunRest DEF OnlyRuns, daemon
<1>7. CASE ForgetReads(run)
  <2>1. /\ Moves(run, "forgetting", run.outcome, file) /\ phase # "down"
        /\ UNCHANGED <<children, launched, file>> /\ OnlyRuns
    BY <1>7 DEF ForgetReads, Executing
  <2> QED BY <1>1, <2>1, MovesInv, RunRest DEF OnlyRuns, daemon
<1>8. CASE ForgetWrites(run)
  <2>1. /\ Moves(run, "complete", run.outcome, {}) /\ phase # "down"
        /\ file' = run.seen \ {run.firing}
        /\ UNCHANGED <<children, launched>> /\ OnlyRuns
    BY <1>8 DEF ForgetWrites, Executing
  <2> QED BY <1>1, <2>1, MovesInv, RunRest DEF OnlyRuns, daemon
<1>9. CASE Complete(run) BY <1>9, CompleteInv
<1> QED BY <1>2, <1>3, <1>4, <1>5, <1>6, <1>7, <1>8, <1>9 DEF RunStep

LEMMA ClaimInv == ASSUME Inv, Claim PROVE Inv'
<1> USE DEF Inv, Executed
<1>1. PICK first : first = {f \in DOMAIN firings :
           LET own == Claimable(Home[firings[f].trigger]) IN
           f \in own /\ \A g \in own :
             firings[f].accepted < firings[g].accepted
               \/ (firings[f].accepted = firings[g].accepted /\ f <= g)}
  OBVIOUS
<1>2. /\ firings' = [f \in DOMAIN firings |->
           IF f \in first THEN [firings[f] EXCEPT !.execution = "RUNNING"] ELSE firings[f]]
      /\ runs' = runs \cup {[firing |-> f, stage |-> "launch", outcome |-> "none", seen |-> {}] :
                            f \in first}
      /\ wake' = FALSE /\ phase = "up"
      /\ UNCHANGED <<now, definitions, entered, children, file, launched, daemon>>
  BY <1>1 DEF Claim
<1>3. ASSUME NEW f \in DOMAIN firings
      PROVE  /\ f \in Nat /\ firings[f] \in Firing /\ firings[f].accepted \in Nat
  <2>1. firings \in Seq(Firing) BY DEF TypeInv, FireOK
  <2>2. DOMAIN firings = 1..Len(firings) /\ Len(firings) \in Nat /\ firings[f] \in Firing
    BY <2>1, LenProperties, ElementOfSeq
  <2> QED BY <2>2 DEF Firing
<1>4. ASSUME NEW f \in first
      PROVE  /\ f \in DOMAIN firings /\ firings[f].snapshot # Null /\ firings[f].execution = "NONE"
             /\ Running(Home[firings[f].trigger]) = {}
             /\ \A g \in first : Home[firings[g].trigger] = Home[firings[f].trigger] => g = f
  <2>1. /\ f \in DOMAIN firings /\ f \in Claimable(Home[firings[f].trigger])
        /\ \A g \in Claimable(Home[firings[f].trigger]) :
             firings[f].accepted < firings[g].accepted
               \/ (firings[f].accepted = firings[g].accepted /\ f <= g)
    BY <1>1
  <2>2. ASSUME NEW g \in first, Home[firings[g].trigger] = Home[firings[f].trigger] PROVE g = f
    <3>1. /\ g \in DOMAIN firings /\ g \in Claimable(Home[firings[f].trigger])
          /\ firings[g].accepted < firings[f].accepted
               \/ (firings[g].accepted = firings[f].accepted /\ g <= f)
      BY <1>1, <2>1, <2>2
    <3> QED BY <1>3, <2>1, <3>1
  <2> QED BY <2>1, <2>2 DEF Claimable, Unclaimed
<1>5. ASSUME NEW f \in DOMAIN firings
      PROVE  /\ firings'[f] \in Firing /\ firings'[f].trigger = firings[f].trigger
             /\ firings'[f].occurrence = firings[f].occurrence
             /\ firings'[f].request = firings[f].request /\ firings'[f].snapshot = firings[f].snapshot
             /\ firings'[f].results = firings[f].results
             /\ firings'[f].execution = IF f \in first THEN "RUNNING" ELSE firings[f].execution
  <2>1. PICK old \in Firing : old = firings[f] BY <1>3
  <2>2. firings'[f] = IF f \in first THEN [old EXCEPT !.execution = "RUNNING"] ELSE old
    BY <1>2, <2>1
  <2> QED BY <2>1, <2>2 DEF Firing
<1>6. DOMAIN firings' = DOMAIN firings /\ firings' \in Seq(Firing)
  <2>1. DOMAIN firings' = DOMAIN firings /\ firings' = [f \in DOMAIN firings |-> firings'[f]]
    BY <1>2
  <2> QED BY <1>5, <2>1, Rewritten DEF TypeInv, FireOK
<1>7. FireOK' /\ Fired' BY <1>2, <1>5, <1>6, ExecutionOnly DEF definitions
<1>8. ASSUME NEW r \in runs'
      PROVE  \/ /\ r \in runs /\ r.firing \in DOMAIN firings /\ r.firing \notin first
                /\ firings[r.firing].execution = "RUNNING"
             \/ /\ r \in Run /\ r.firing \in first
                /\ r = [firing |-> r.firing, stage |-> "launch", outcome |-> "none", seen |-> {}]
  <2>1. CASE r \in runs BY <1>4, <2>1 DEF Working, TypeInv, RunsOK
  <2>2. CASE r \notin runs
    <3>1. PICK f \in first : r = [firing |-> f, stage |-> "launch", outcome |-> "none", seen |-> {}]
      BY <1>2, <2>2
    <3>2. f \in Nat BY <1>3, <1>4
    <3> QED BY <3>1, <3>2 DEF Run
  <2> QED BY <2>1, <2>2
<1>9. RunsOK' BY <1>4, <1>6, <1>8 DEF TypeInv, RunsOK
<1>10. Booked' BY <1>4, <1>5, <1>6 DEF Booked
<1>11. Working'
  <2>1. \A r \in runs' : firings'[r.firing].execution = "RUNNING" BY <1>4, <1>5, <1>8
  <2>2. \A r, other \in runs' : other.firing = r.firing => other = r
    <3> SUFFICES ASSUME NEW r \in runs', NEW other \in runs', other.firing = r.firing
                 PROVE  other = r
      OBVIOUS
    <3>1. CASE r.firing \in first BY <1>8, <3>1
    <3>2. CASE r.firing \notin first
      <4>1. r \in runs /\ other \in runs BY <1>8, <3>2
      <4> QED BY <4>1 DEF Working
    <3> QED BY <3>1, <3>2
  <2>3. ASSUME NEW r \in runs', r.stage = "launch", NEW i \in DOMAIN launched'
        PROVE  launched'[i] # r.firing
    <3>1. CASE r \in runs BY <1>2, <2>3, <3>1 DEF Working
    <3>2. CASE r \notin runs
      <4>1. r.firing \in first BY <1>8, <3>2
      <4>2. firings[r.firing].execution = "NONE" BY <1>4, <4>1
      <4> QED BY <1>2, <2>3, <4>2 DEF Started
    <3> QED BY <3>1, <3>2
  <2> QED BY <2>1, <2>2, <2>3 DEF Working
<1>12. Started' BY <1>2, <1>5, <1>6 DEF Started
<1>13. Served'
  <2>1. ASSUME NEW f \in DOMAIN firings', firings'[f].execution = "RUNNING"
        PROVE  /\ f \in DOMAIN firings /\ firings'[f].trigger = firings[f].trigger
               /\ f \in first \/ firings[f].execution = "RUNNING"
    BY <1>5, <1>6, <2>1
  <2>2. ASSUME NEW f \in DOMAIN firings', NEW g \in DOMAIN firings',
               firings'[f].execution = "RUNNING", firings'[g].execution = "RUNNING",
               Home[firings'[f].trigger] = Home[firings'[g].trigger]
        PROVE  f = g
    <3>1. /\ f \in DOMAIN firings /\ (f \in first \/ firings[f].execution = "RUNNING")
          /\ g \in DOMAIN firings /\ (g \in first \/ firings[g].execution = "RUNNING")
          /\ Home[firings[f].trigger] = Home[firings[g].trigger]
      BY <2>1, <2>2
    <3>2. CASE f \in first /\ g \in first BY <1>4, <3>1, <3>2
    <3>3. CASE f \in first /\ g \notin first BY <1>4, <3>1, <3>3 DEF Running
    <3>4. CASE f \notin first /\ g \in first BY <1>4, <3>1, <3>4 DEF Running
    <3>5. CASE f \notin first /\ g \notin first BY <3>1, <3>5 DEF Served
    <3> QED BY <3>2, <3>3, <3>4, <3>5
  <2>3. ASSUME NEW f \in DOMAIN firings', firings'[f].execution = "RUNNING"
        PROVE  \E r \in runs' : r.firing = f
    <3>1. CASE f \in first
      <4>1. PICK r : r = [firing |-> f, stage |-> "launch", outcome |-> "none", seen |-> {}] OBVIOUS
      <4> QED BY <1>2, <3>1, <4>1
    <3>2. CASE f \notin first
      <4>1. PICK r \in runs : r.firing = f BY <1>2, <2>1, <2>3, <3>2 DEF Served
      <4> QED BY <1>2, <4>1
    <3> QED BY <3>1, <3>2
  <2>4. phase' # "down" BY <1>2 DEF daemon
  <2> QED BY <2>2, <2>3, <2>4 DEF Served
<1>14. ClockOK' /\ DefOK' /\ ProcOK' /\ Defined'
  BY <1>2, SameClock, SameDefs, SameDefined DEF TypeInv, ProcOK, daemon
<1> QED BY <1>7, <1>9, <1>10, <1>11, <1>12, <1>13, <1>14 DEF TypeInv

-------------------------------------------------------------------------------
(* The clock and the daemon's life *)

\* A dead daemon has no tasks; its rows are as it left them.
LEMMA GoneInv == ASSUME Inv, NEW left, left \subseteq Nat, Gone(left) PROVE Inv'
<1> USE DEF Inv
<1>1. /\ phase' = "down" /\ deaths' = deaths + 1
      /\ entered' = [r \in Routes |-> 0] /\ runs' = {} /\ wake' = FALSE /\ children' = left
      /\ UNCHANGED <<now, started, definitions, firings, file, launched>>
  BY DEF Gone
<1>2. ClockOK' /\ RunsOK' /\ ProcOK'
  <2>1. deaths + 1 \in Nat /\ [r \in Routes |-> 0] \in [Routes -> Nat] BY DEF TypeInv, ClockOK
  <2>2. ClockOK' BY <1>1, <2>1 DEF TypeInv, ClockOK
  <2>3. RunsOK' BY <1>1 DEF RunsOK
  <2>4. ProcOK' BY <1>1 DEF TypeInv, ProcOK
  <2> QED BY <2>2, <2>3, <2>4
<1>3. DefOK' /\ FireOK' BY <1>1, SameDefs, SameFirings DEF TypeInv, definitions
<1>4. Defined' /\ Fired' BY <1>1, SameDefined, SameFired DEF definitions
<1>5. Executed' BY <1>1 DEF Executed, Booked, Working, Started, Served
<1> QED BY <1>2, <1>3, <1>4, <1>5 DEF TypeInv

\* The recovery completes what nobody runs any more.
LEMMA BootInv == ASSUME Inv, Boot PROVE Inv'
<1> USE DEF Inv, Executed
<1>1. /\ phase = "down" /\ phase' = "up" /\ started' = now
      /\ children' = children \ file /\ file' = {} /\ wake' = TRUE
      /\ firings' = [f \in DOMAIN firings |->
           IF firings[f].execution = "RUNNING" THEN Completed(f, "DAEMON_LOST") ELSE firings[f]]
      /\ UNCHANGED <<now, deaths, definitions, entered, runs, launched>>
  BY DEF Boot
<1>2. ASSUME NEW f \in DOMAIN firings
      PROVE  /\ firings'[f] \in Firing /\ firings'[f].trigger = firings[f].trigger
             /\ firings'[f].occurrence = firings[f].occurrence
             /\ firings'[f].request = firings[f].request /\ firings'[f].snapshot = firings[f].snapshot
             /\ firings'[f].execution # "RUNNING"
             /\ firings[f].execution # "NONE" => firings'[f].execution # "NONE"
             /\ firings'[f].results =
                  IF firings'[f].snapshot = Null \/ firings'[f].execution = "COMPLETE" THEN 1 ELSE 0
             /\ firings'[f].snapshot = Null => firings'[f].execution = "NONE"
  <2>1. CASE firings[f].execution = "RUNNING"
    <3>1. firings'[f] = Completed(f, "DAEMON_LOST") BY <1>1, <2>1
    <3>2. "DAEMON_LOST" \in Outcomes \cup {"none", "DAEMON_LOST"} OBVIOUS
    <3> QED BY <2>1, <3>1, <3>2, CompletedType
  <2>2. CASE firings[f].execution # "RUNNING"
    <3>1. firings'[f] = firings[f] BY <1>1, <2>2
    <3>2. firings[f] \in Firing BY ElementOfSeq DEF TypeInv, FireOK
    <3> QED BY <2>2, <3>1, <3>2 DEF Booked
  <2> QED BY <2>1, <2>2
<1>3. DOMAIN firings' = DOMAIN firings /\ firings' \in Seq(Firing)
  <2>1. DOMAIN firings' = DOMAIN firings /\ firings' = [f \in DOMAIN firings |-> firings'[f]]
    BY <1>1
  <2> QED BY <1>2, <2>1, Rewritten DEF TypeInv, FireOK
<1>4. FireOK' /\ Fired' BY <1>1, <1>2, <1>3, ExecutionOnly DEF definitions
<1>5. runs' = {} BY <1>1 DEF Served
<1>6. Booked' BY <1>2, <1>3 DEF Booked
<1>7. Working' /\ RunsOK' BY <1>5 DEF Working, RunsOK
<1>8. Started' BY <1>1, <1>2, <1>3 DEF Started
<1>9. Served' BY <1>1, <1>2, <1>3 DEF Served
<1>10. ClockOK' /\ ProcOK' BY <1>1 DEF TypeInv, ClockOK, ProcOK
<1>11. DefOK' /\ Defined' BY <1>1, SameDefs, SameDefined DEF TypeInv
<1> QED BY <1>4, <1>6, <1>7, <1>8, <1>9, <1>10, <1>11 DEF TypeInv

LEMMA LifeInv == ASSUME Inv, Life PROVE Inv'
<1> USE DEF Inv
<1>1. CASE Tick
  <2>1. now' = now + 1 /\ UNCHANGED <<definitions, firings, entered, executor, daemon>>
    BY <1>1 DEF Tick
  <2>2. ClockOK' BY <2>1 DEF TypeInv, ClockOK, daemon
  <2> QED BY <2>1, <2>2, SameDefs, SameFirings, SameRuns, SameProcs, SameFired, SameDefined, SameExecuted
          DEF TypeInv, executor, definitions, daemon
<1>2. CASE BeginQuit
  <2>1. /\ phase = "up" /\ phase' = "quitting"
        /\ UNCHANGED <<now, started, deaths, definitions, firings, entered, executor>>
    BY <1>2 DEF BeginQuit
  <2>2. ClockOK' BY <2>1 DEF TypeInv, ClockOK
  <2>3. Executed' BY <2>1 DEF Executed, Booked, Working, Started, Served, executor
  <2> QED BY <2>1, <2>2, <2>3, SameDefs, SameFirings, SameRuns, SameProcs, SameFired, SameDefined
          DEF TypeInv, executor, definitions
<1>3. CASE EndQuit BY <1>3, GoneInv DEF EndQuit
<1>4. CASE Crash
  <2>1. children \subseteq Nat BY DEF TypeInv, ProcOK
  <2> QED BY <1>4, <2>1, GoneInv DEF Crash
<1>5. CASE Boot BY <1>5, BootInv
<1> QED BY <1>1, <1>2, <1>3, <1>4, <1>5 DEF Life

LEMMA RouteInv == ASSUME Inv, NEW r \in Routes, Route(r) PROVE Inv'
<1> USE DEF Inv
<1>1. CASE Enter(r) \/ Refused(r)
  <2>1. /\ entered' = [entered EXCEPT ![r] = now] \/ entered' = [entered EXCEPT ![r] = 0]
        /\ UNCHANGED <<now, definitions, firings, executor, daemon>>
    BY <1>1 DEF Enter, Refused, Leaves
  <2>2. ClockOK' BY <2>1 DEF TypeInv, ClockOK, daemon
  <2> QED BY <2>1, <2>2, SameDefs, SameFirings, SameRuns, SameProcs, SameFired, SameDefined, SameExecuted
          DEF TypeInv, executor, definitions, daemon
<1>2. ASSUME NEW t \in Triggers, NEW q \in Requests, Invoke(r, t, q) PROVE Inv'
  BY <1>2, InvokeInv
<1>3. ASSUME TypeInv', Defined', Kept, UNCHANGED <<firings, executor, daemon>> PROVE Inv'
  <2>1. Fired'
    <3>1. ApprovedOnly'
      BY <1>3 DEF Fired, ApprovedOnly, Kept, Cleared, TypeInv, FireOK
    <3> QED BY <1>3, <3>1 DEF Fired, OccurrenceOnce
  <2> QED BY <1>3, <2>1, SameExecuted DEF executor, daemon
<1>4. ASSUME NEW t \in Triggers, Create(r, t) PROVE Inv'
  BY <1>3, <1>4, CreateDefs DEF Create
<1>5. ASSUME NEW t \in Triggers, Patch(r, t) PROVE Inv'
  BY <1>3, <1>5, PatchDefs DEF Patch
<1>6. ASSUME NEW t \in Triggers, Delete(r, t) PROVE Inv'
  BY <1>3, <1>6, DeleteDefs DEF Delete
<1>7. ASSUME NEW s \in DOMAIN snapshots, Decide(r, s) PROVE Inv'
  BY <1>3, <1>7, DecideDefs DEF Decide
<1> QED BY <1>1, <1>2, <1>4, <1>5, <1>6, <1>7 DEF Route

LEMMA NextInv == Inv /\ [Next]_vars => Inv'
<1> SUFFICES ASSUME Inv, [Next]_vars PROVE Inv' OBVIOUS
<1>1. ASSUME NEW r \in Routes, Route(r) PROVE Inv' BY <1>1, RouteInv
<1>2. CASE SetPolicy
  <2>1. /\ policy' \in {"ALWAYS_ALLOW", "REQUIRE_APPROVAL"}
        /\ UNCHANGED <<now, triggers, snapshots, missed, shots, firings, entered, executor, daemon>>
    BY <1>2 DEF SetPolicy
  <2>2. DefOK' BY <2>1 DEF Inv, TypeInv, DefOK
  <2>3. Defined' BY <2>1 DEF Inv, Defined, Gated, Armed, Cleared, Approval
  <2> QED BY <2>1, <2>2, <2>3, SameClock, SameFirings, SameRuns, SameProcs, SameFired, SameExecuted
          DEF Inv, TypeInv, executor, daemon
<1>3. CASE SchedulerPass BY <1>3, PassInv
<1>4. CASE Claim BY <1>4, ClaimInv
<1>5. ASSUME NEW run \in runs, RunStep(run) PROVE Inv' BY <1>5, RunStepInv
<1>6. ASSUME NEW f \in children, ChildEnds(f) PROVE Inv'
  <2>1. /\ children' = children \ {f} /\ UNCHANGED <<runs, launched, file>> /\ OnlyRuns
    BY <1>6 DEF ChildEnds
  <2>2. RunsOK' /\ Executed' /\ children' \subseteq Nat /\ file' \subseteq Nat /\ launched' \in Seq(Nat)
    BY <2>1, SameRuns, SameExecuted DEF Inv, TypeInv, ProcOK, OnlyRuns, daemon
  <2> QED BY <2>1, <2>2, RunRest
<1>7. CASE Life BY <1>7, LifeInv
<1>8. CASE UNCHANGED vars
  BY <1>8, SameClock, SameDefs, SameFirings, SameRuns, SameProcs, SameFired, SameDefined, SameExecuted
     DEF vars, Inv, TypeInv, definitions
<1> QED BY <1>1, <1>2, <1>3, <1>4, <1>5, <1>6, <1>7, <1>8 DEF Next

LEMMA InitInv == Init => Inv
<1> SUFFICES ASSUME Init PROVE Inv OBVIOUS
<1>1. TypeInv BY InitTypes
<1>2. firings = <<>> /\ DOMAIN firings = {} /\ launched = <<>> /\ DOMAIN launched = {} /\ runs = {}
  BY EmptySeq DEF Init
<1>3. Fired BY <1>2 DEF Fired, ApprovedOnly, OccurrenceOnce
<1>4. Executed BY <1>2 DEF Executed, Booked, Working, Started, Served
<1>5. Defined BY DEF Init, Defined, Gated, Armed, Absent, Null
<1> QED BY <1>1, <1>3, <1>4, <1>5 DEF Inv

LEMMA Inductive == Spec => []Inv
BY InitInv, NextInv, PTL DEF Spec

-------------------------------------------------------------------------------
(* The theorems *)

\* Every variable keeps its kind; snapshots and runs name rows that exist.
THEOREM Typing == Spec => []TypeOK
BY Inductive, TypeParts, PTL DEF Inv

\* Code runs only when it was decided in its favour.
THEOREM OnlyApproved == Spec => []ApprovedOnly
BY Inductive, PTL DEF Inv, Fired

\* One occurrence of a schedule is one firing.
THEOREM OneFiringAnOccurrence == Spec => []OccurrenceOnce
BY Inductive, PTL DEF Inv, Fired

\* A one-off fires once each time it is enabled.
THEOREM OneShot == Spec => []SingleShot
<1>1. Inv => SingleShot BY DEF Inv, Defined, Armed, SingleShot
<1> QED BY <1>1, Inductive, PTL

\* A firing's code is started at most once, and a firing has one result when it has one.
THEOREM RunsOnce == Spec => []RunOnce
<1>1. Inv => RunOnce BY DEF Inv, Executed, Booked, Started, RunOnce
<1> QED BY <1>1, Inductive, PTL

\* A desk has at most one execution, with its task while the daemon lives.
THEOREM DesksServed == Spec => []DeskServed
<1>1. ASSUME Inv PROVE DeskServed
  <2> SUFFICES ASSUME NEW d \in Desks
               PROVE  /\ Cardinality(Running(d)) <= 1
                      /\ phase # "down" => \A f \in Running(d) : \E run \in runs : run.firing = f
    BY DEF DeskServed
  <2>1. \A f, g \in Running(d) : f = g BY <1>1 DEF Running, Inv, Executed, Served
  <2>2. CASE Running(d) = {}
    <3>1. Cardinality(Running(d)) = 0 BY <2>2, FS_EmptySet
    <3> QED BY <2>2, <3>1
  <2>3. CASE Running(d) # {}
    <3>1. PICK f : Running(d) = {f} BY <2>1, <2>3
    <3>2. Cardinality(Running(d)) = 1 BY <3>1, FS_Singleton
    <3> QED BY <1>1, <3>2 DEF Running, Inv, Executed, Served
  <2> QED BY <2>2, <2>3
<1> QED BY <1>1, Inductive, PTL
================================================================================
