----------------------------- MODULE LedgerProofs ------------------------------
(***************************************************************************)
(* What is proved of OrderLedger, for any orders, lots and bounds          *)
(***************************************************************************)
EXTENDS OrderLedger, FiniteSetTheorems, SequenceTheorems, TLAPS

-------------------------------------------------------------------------------
(* The invariant *)

\* An order's chain: announced, submitted and accepted in this order, each event
\* after those before it, and from there on fills and repeated acceptances.
ChainOK(s) ==
  /\ \A i \in DOMAIN s : s[i].n = i - 1
  /\ \A i, j \in DOMAIN s : i < j => s[i].life <= s[j].life
  /\ \A i \in DOMAIN s : s[i].kind = "OrderInitialized" <=> i = 1
  /\ \A i \in DOMAIN s : s[i].kind = "OrderSubmitted" <=> i = 2
  /\ 3 \in DOMAIN s => s[3].kind = "OrderAccepted"

\* The chain without the acceptances restoration repeats
Kept(s) == {s[i] : i \in {j \in DOMAIN s : j <= 3 \/ s[j].kind = "OrderFilled"}}

\* Its first k events
First(s, k) == {s[i] : i \in 1 .. k}

\* Every order's chain is one, and none of its events is ahead of this life.
Sound(chains, life) ==
  \A o \in Orders : ChainOK(chains[o]) /\ \A i \in DOMAIN chains[o] : chains[o][i].life <= life

\* The cached and the restorable chains
Chains ==
  /\ Sound(chain, crashes) /\ Sound(snapshot.orders, crashes)
  /\ \A o \in Orders : snapshot.orders[o] # <<>> => IsOpen(ToSet(snapshot.orders[o]))
  /\ ~up => \A o \in Orders : chain[o] = <<>>

\* Until the node dies an order's rows are the first events of its chain: what
\* failed units left out is at its end.
Whole ==
  crashes = 0 =>
    /\ up /\ rehand = {}
    /\ \A o \in Orders :
         /\ \A i \in DOMAIN chain[o] : i > 3 => chain[o][i].kind = "OrderFilled"
         /\ \E k \in 0 .. Len(chain[o]) : BagToSet(stored[o]) = First(chain[o], k)

\* The rows hold a chain's events, or lack the two of an order that is marketable
\* on arrival and has not been filled yet.
Holds(rows, s) == rows = Kept(s) \/ (Len(s) = 3 /\ rows = {s[1]})

\* While no unit fails the rows hold every chain that is cached or restorable.
Behind ==
  failures = 0 =>
    \A o \in Orders :
      /\ chain[o] # <<>> => Holds(BagToSet(stored[o]), chain[o])
      /\ snapshot.orders[o] # <<>> => Holds(BagToSet(stored[o]), snapshot.orders[o])
      /\ up /\ chain[o] = <<>> => snapshot.orders[o] = <<>>

Inv == /\ TypeOK /\ Chains /\ Whole /\ Behind
       /\ HistoryReplays /\ SnapshotMatchesHistory /\ StoredOnce
-------------------------------------------------------------------------------
(* Chains *)

\* No event is in a chain twice.
LEMMA Distinct ==
  ASSUME NEW s \in Seq(Events), ChainOK(s), NEW i \in DOMAIN s, NEW j \in DOMAIN s, s[i] = s[j]
  PROVE  i = j
<1>1. i \in Nat /\ j \in Nat BY DEF Seq
<1> QED BY <1>1 DEF ChainOK

\* The events of a chain, by kind
LEMMA KindAt ==
  ASSUME NEW s \in Seq(Events), ChainOK(s), NEW i \in DOMAIN s
  PROVE  /\ i \in Nat /\ 1 <= i /\ i <= Len(s) /\ s[i] \in Events /\ s[i].n = i - 1 /\ s[i].life \in Nat
         /\ s[i].kind = "OrderInitialized" <=> i = 1
         /\ s[i].kind = "OrderSubmitted" <=> i = 2
         /\ i = 3 => s[i].kind = "OrderAccepted"
         /\ i > 3 => s[i].kind \in {"OrderAccepted", "OrderFilled"}
<1>1. DOMAIN s = 1 .. Len(s) /\ Len(s) \in Nat BY LenProperties
<1>2. s[i] \in Events BY <1>1, ElementOfSeq
<1>3. s[i].kind \in EventKinds /\ s[i].life \in 0 .. MaxCrashes BY <1>2 DEF Events
<1>4. MaxCrashes \in Nat BY LedgerAssumption
<1> QED BY <1>1, <1>2, <1>3, <1>4 DEF ChainOK, EventKinds

\* Where two events of a chain stand is when they occurred.
LEMMA ChainOrder ==
  ASSUME NEW s \in Seq(Events), ChainOK(s), NEW i \in DOMAIN s, NEW j \in DOMAIN s
  PROVE  Before(s[i], s[j]) <=> i < j
<1>1. /\ i \in Nat /\ s[i].n = i - 1 /\ s[i].life \in Nat
      /\ j \in Nat /\ s[j].n = j - 1 /\ s[j].life \in Nat
  BY KindAt
<1>2. i < j => s[i].life <= s[j].life BY DEF ChainOK
<1>3. j < i => s[j].life <= s[i].life BY DEF ChainOK
<1> QED BY <1>1, <1>2, <1>3 DEF Before

\* Which events of a chain can be replayed without the others: with any event the
\* announcement, with an acceptance the submission, and of what follows the fills.
LEMMA PartReplays ==
  ASSUME NEW s \in Seq(Events), ChainOK(s), NEW I \in SUBSET DOMAIN s,
         I # {} => 1 \in I,
         3 \in I => 2 \in I,
         \A i \in I : i > 3 => 3 \in I /\ s[i].kind = "OrderFilled"
  PROVE  Replays({s[i] : i \in I})
<1> DEFINE E == {s[i] : i \in I}
<1>1. \A i \in I : /\ i \in Nat /\ 1 <= i
                   /\ s[i].kind = "OrderInitialized" <=> i = 1
                   /\ s[i].kind = "OrderSubmitted" <=> i = 2
                   /\ s[i].kind = "OrderAccepted" <=> i = 3
                   /\ s[i].kind = "OrderFilled" <=> i > 3
  <2> TAKE i \in I
  <2>1. /\ i \in Nat /\ 1 <= i
        /\ s[i].kind = "OrderInitialized" <=> i = 1
        /\ s[i].kind = "OrderSubmitted" <=> i = 2
        /\ i = 3 => s[i].kind = "OrderAccepted"
        /\ i > 3 => s[i].kind \in {"OrderAccepted", "OrderFilled"}
    BY KindAt
  <2>2. i > 3 => s[i].kind = "OrderFilled" OBVIOUS
  <2> QED BY <2>1, <2>2
<1>2. \A i \in I, j \in I : Before(s[i], s[j]) <=> i < j BY ChainOrder
<1>3. E # {} => \E e \in E : e.kind = "OrderInitialized" /\ \A f \in E \ {e} : Before(e, f)
  <2> SUFFICES ASSUME E # {} PROVE \E e \in E : e.kind = "OrderInitialized" /\ \A f \in E \ {e} : Before(e, f)
    OBVIOUS
  <2>1. 1 \in I OBVIOUS
  <2>2. \A f \in E \ {s[1]} : Before(s[1], f)
    <3> TAKE f \in E \ {s[1]}
    <3>1. PICK j \in I : f = s[j] OBVIOUS
    <3>2. j # 1 BY <3>1
    <3>3. 1 < j BY <3>2, <1>1
    <3> QED BY <3>1, <3>3, <2>1, <1>2
  <2> QED BY <2>1, <2>2, <1>1
<1>4. \A e, f \in E : e.kind = f.kind => e = f \/ e.kind = "OrderFilled"
  <2> SUFFICES ASSUME NEW i \in I, NEW j \in I, s[i].kind = s[j].kind
               PROVE  i = j \/ s[i].kind = "OrderFilled"
    OBVIOUS
  <2>1. s[i].kind \in EventKinds BY KindAt DEF Events
  <2> QED BY <1>1, <2>1 DEF EventKinds
<1>5. \A e \in E : e.kind = "OrderAccepted" =>
        \E x \in E : /\ x.kind = "OrderSubmitted" /\ Before(x, e)
                     /\ \A f \in E : ~(Before(x, f) /\ Before(f, e))
  <2> TAKE e \in E
  <2> HAVE e.kind = "OrderAccepted"
  <2>0. PICK i \in I : e = s[i] OBVIOUS
  <2>1. i = 3 /\ 2 \in I BY <2>0, <1>1
  <2>2. \A f \in E : ~(Before(s[2], f) /\ Before(f, e))
    <3> SUFFICES ASSUME NEW j \in I PROVE ~(Before(s[2], s[j]) /\ Before(s[j], e))
      OBVIOUS
    <3> QED BY <2>0, <2>1, <1>1, <1>2
  <2>3. Before(s[2], e) BY <2>0, <2>1, <1>2
  <2>4. s[2] \in E /\ s[2].kind = "OrderSubmitted" BY <2>1, <1>1
  <2> QED BY <2>2, <2>3, <2>4
<1>6. \A e \in E : e.kind = "OrderFilled" => \E a \in E : a.kind = "OrderAccepted" /\ Before(a, e)
  <2> SUFFICES ASSUME NEW i \in I, s[i].kind = "OrderFilled"
               PROVE  \E a \in E : a.kind = "OrderAccepted" /\ Before(a, s[i])
    OBVIOUS
  <2>1. i > 3 /\ 3 \in I BY <1>1
  <2>2. Before(s[3], s[i]) BY <2>1, <1>2
  <2>3. s[3] \in E /\ s[3].kind = "OrderAccepted" BY <2>1, <1>1
  <2> QED BY <2>2, <2>3
<1> HIDE DEF E
<1>7. Replays(E) BY <1>3, <1>4, <1>5, <1>6 DEF Replays
<1> QED BY <1>7 DEF E

LEMMA FirstReplays ==
  ASSUME NEW s \in Seq(Events), ChainOK(s), NEW k \in 0 .. Len(s),
         \A i \in DOMAIN s : i > 3 => s[i].kind = "OrderFilled"
  PROVE  Replays(First(s, k))
<1>1. DOMAIN s = 1 .. Len(s) /\ Len(s) \in Nat BY LenProperties
<1>2. 1 .. k \in SUBSET DOMAIN s BY <1>1
<1>3. /\ 1 .. k # {} => 1 \in 1 .. k
      /\ 3 \in 1 .. k => 2 \in 1 .. k
      /\ \A i \in 1 .. k : i > 3 => 3 \in 1 .. k /\ s[i].kind = "OrderFilled"
  BY <1>1
<1>4. Replays({s[i] : i \in 1 .. k}) BY <1>2, <1>3, PartReplays
<1> QED BY <1>4 DEF First

LEMMA KeptReplays ==
  ASSUME NEW s \in Seq(Events), ChainOK(s)
  PROVE  Replays(Kept(s))
<1> DEFINE I == {j \in DOMAIN s : j <= 3 \/ s[j].kind = "OrderFilled"}
<1>1. DOMAIN s = 1 .. Len(s) /\ Len(s) \in Nat BY LenProperties
<1>2. /\ I # {} => 1 \in I
      /\ 3 \in I => 2 \in I
      /\ \A i \in I : i > 3 => 3 \in I /\ s[i].kind = "OrderFilled"
  BY <1>1
<1>3. I \in SUBSET DOMAIN s OBVIOUS
<1> HIDE DEF I
<1>4. Replays({s[i] : i \in I}) BY <1>2, <1>3, PartReplays
<1> QED BY <1>4 DEF I, Kept

LEMMA HeldReplays ==
  ASSUME NEW s \in Seq(Events), ChainOK(s), NEW R, Holds(R, s)
  PROVE  Replays(R)
<1>1. CASE R = Kept(s) BY <1>1, KeptReplays
<1>2. CASE Len(s) = 3 /\ R = {s[1]}
  <2>1. DOMAIN s = 1 .. 3 BY <1>2, LenProperties
  <2>2. {1} \in SUBSET DOMAIN s BY <2>1
  <2>3. 1 \in {1} /\ ~(3 \in {1}) /\ \A i \in {1} : ~(i > 3) OBVIOUS
  <2> DEFINE I == {1}
  <2>5. I \in SUBSET DOMAIN s /\ 1 \in I /\ ~(3 \in I) /\ \A i \in I : ~(i > 3) BY <2>2, <2>3
  <2> HIDE DEF I
  <2>6. Replays({s[i] : i \in I}) BY <2>5, PartReplays
  <2>4. {s[i] : i \in {1}} = {s[1]} OBVIOUS
  <2> QED BY <1>2, <2>6, <2>4 DEF I
<1> QED BY <1>1, <1>2 DEF Holds

\* Leaving the repeats out changes neither the fills nor the kinds.
LEMMA KeptSame ==
  ASSUME NEW s \in Seq(Events), ChainOK(s)
  PROVE  /\ Fills(Kept(s)) = Fills(ToSet(s))
         /\ Kinds(Kept(s)) = Kinds(ToSet(s))
         /\ IsOpen(Kept(s)) <=> IsOpen(ToSet(s))
<1>1. DOMAIN s = 1 .. Len(s) /\ Len(s) \in Nat BY LenProperties
<1>2. Kept(s) \subseteq ToSet(s) BY DEF Kept, ToSet
<1>3. \A i \in DOMAIN s : s[i].kind = "OrderFilled" => s[i] \in Kept(s) BY DEF Kept
<1>4. Fills(Kept(s)) = Fills(ToSet(s)) BY <1>2, <1>3 DEF Fills, ToSet
<1>5. \A i \in DOMAIN s : s[i].kind \in Kinds(Kept(s))
  <2> TAKE i \in DOMAIN s
  <2>1. CASE i <= 3 \/ s[i].kind = "OrderFilled" BY <2>1 DEF Kept, Kinds
  <2>2. CASE ~(i <= 3 \/ s[i].kind = "OrderFilled")
    <3>1. i > 3 /\ s[i].kind = "OrderAccepted" BY <2>2, KindAt
    <3>2. 3 \in DOMAIN s BY <1>1, <3>1
    <3>3. s[3].kind = "OrderAccepted" /\ s[3] \in Kept(s) BY <3>2 DEF ChainOK, Kept
    <3> QED BY <3>1, <3>3 DEF Kinds
  <2> QED BY <2>1, <2>2
<1>6. Kinds(Kept(s)) = Kinds(ToSet(s)) BY <1>2, <1>5 DEF Kinds, ToSet
<1> QED BY <1>4, <1>6 DEF IsOpen, Filled
-------------------------------------------------------------------------------
(* What a capture inserts *)

\* The events of a chain that a capture finds missing
New(s, R) == {e \in ToSet(s) : /\ ~(e.kind \in AcceptedOnce /\ e.kind \in Kinds(R))
                               /\ e \notin R}

\* A captured chain adds what is missing of it, each event once.
LEMMA Inserted ==
  ASSUME NEW s \in Seq(Events), ChainOK(s), NEW rows,
         IsABag(rows), \A e \in BagToSet(rows) : rows[e] = 1
  PROVE  LET after == rows (+) Unstored(s, rows) IN
         /\ IsABag(after)
         /\ BagToSet(after) = BagToSet(rows) \cup New(s, BagToSet(rows))
         /\ \A e \in BagToSet(after) : after[e] = 1
<1> DEFINE R == BagToSet(rows)
           N == New(s, R)
           more == Unstored(s, rows)
           after == rows (+) more
<1>1. more = RowsOf(s, N) BY DEF Unstored, New, Repeats, BagIn
<1>2. \A e \in N : Cardinality({i \in DOMAIN s : s[i] = e}) = 1
  <2> TAKE e \in N
  <2>1. PICK i \in DOMAIN s : s[i] = e BY DEF New, ToSet
  <2>2. {j \in DOMAIN s : s[j] = e} = {i} BY <2>1, Distinct
  <2> QED BY <2>2, FS_Singleton
<1>3. DOMAIN more = N /\ \A e \in N : more[e] = 1 BY <1>1, <1>2 DEF RowsOf
<1>4. DOMAIN rows = R BY DEF BagToSet
<1>5. N \cap R = {} BY DEF New
<1> HIDE DEF N, R, more
<1>6. after = [e \in R \cup N |-> (IF e \in R THEN rows[e] ELSE 0) + (IF e \in N THEN more[e] ELSE 0)]
  BY <1>3, <1>4 DEF (+)
<1>7. \A e \in R : rows[e] = 1 BY DEF R
<1>8. \A e \in R \cup N : after[e] = 1
  <2> TAKE e \in R \cup N
  <2>1. CASE e \in R
    <3>1. e \notin N BY <2>1, <1>5
    <3>2. after[e] = rows[e] + 0 BY <2>1, <3>1, <1>6
    <3> QED BY <3>2, <2>1, <1>7
  <2>2. CASE e \notin R
    <3>1. e \in N BY <2>2
    <3>2. after[e] = 0 + more[e] BY <2>2, <3>1, <1>6
    <3> QED BY <3>1, <3>2, <1>3
  <2> QED BY <2>1, <2>2
<1>9. DOMAIN after = R \cup N BY <1>6
<1>10. after = [e \in R \cup N |-> after[e]] BY <1>6
<1> HIDE DEF after
<1>11. after \in [R \cup N -> {n \in Nat : n > 0}]
  <2>1. 1 \in {n \in Nat : n > 0} OBVIOUS
  <2> QED BY <2>1, <1>8, <1>10
<1>12. IsABag(after) BY <1>9, <1>11 DEF IsABag
<1>13. BagToSet(after) = R \cup N BY <1>9 DEF BagToSet
<1> QED BY <1>8, <1>12, <1>13 DEF N, R, after, more

\* What failed units left out at the end of a chain, the next one stores.
LEMMA FirstCaptured ==
  ASSUME NEW s \in Seq(Events), ChainOK(s), NEW k \in 0 .. Len(s),
         \A i \in DOMAIN s : i > 3 => s[i].kind = "OrderFilled"
  PROVE  First(s, k) \cup New(s, First(s, k)) = First(s, Len(s))
<1>1. DOMAIN s = 1 .. Len(s) /\ Len(s) \in Nat BY LenProperties
<1>2. ToSet(s) = First(s, Len(s)) BY <1>1 DEF ToSet, First
<1>3. First(s, k) \subseteq ToSet(s) BY <1>1 DEF ToSet, First
<1>4. \A i \in DOMAIN s : i > k => s[i] \in New(s, First(s, k))
  <2> TAKE i \in DOMAIN s
  <2> HAVE i > k
  <2>1. s[i] \notin First(s, k)
    <3> SUFFICES ASSUME NEW j \in 1 .. k, s[i] = s[j] PROVE FALSE BY DEF First
    <3>1. j \in DOMAIN s /\ j # i BY <1>1
    <3> QED BY <3>1, Distinct
  <2>2. ASSUME s[i].kind \in AcceptedOnce, NEW j \in 1 .. k, s[j].kind = s[i].kind PROVE FALSE
    <3>1. j \in DOMAIN s /\ j < i BY <1>1
    <3>2. i <= 3 BY <2>2, <1>1 DEF AcceptedOnce
    <3>3. /\ s[i].kind = "OrderSubmitted" <=> i = 2
          /\ s[i].kind = "OrderInitialized" <=> i = 1
      BY KindAt
    <3>4. /\ s[j].kind = "OrderSubmitted" <=> j = 2
          /\ s[j].kind = "OrderInitialized" <=> j = 1
      BY <3>1, KindAt
    <3> QED BY <2>2, <3>1, <3>2, <3>3, <3>4, <1>1
  <2>3. ~(s[i].kind \in AcceptedOnce /\ s[i].kind \in Kinds(First(s, k)))
    BY <2>2 DEF Kinds, First
  <2> QED BY <2>1, <2>3 DEF New, ToSet
<1>5. ToSet(s) \subseteq First(s, k) \cup New(s, First(s, k))
  BY <1>1, <1>4 DEF ToSet, First
<1> QED BY <1>2, <1>3, <1>5 DEF New

\* Rows that hold a chain hold it again once its next event is captured, whether
\* that is stored or a repeat.
LEMMA HeldCaptured ==
  ASSUME NEW s \in Seq(Events), ChainOK(s), NEW e \in Events,
         NEW t, t = Append(s, e), ChainOK(t),
         NEW R, s # <<>> => Holds(R, s), s = <<>> => R = {},
         e.kind = "OrderAccepted" /\ Len(s) >= 3 => Fills(ToSet(s)) # {}
  PROVE  R \cup New(t, R) = Kept(t)
<1>1. DOMAIN s = 1 .. Len(s) /\ Len(s) \in Nat BY LenProperties
<1>2. /\ t \in Seq(Events) /\ DOMAIN t = 1 .. Len(s) + 1
      /\ \A i \in DOMAIN s : t[i] = s[i]
      /\ t[Len(s) + 1] = e
  BY AppendProperties, <1>1, LenProperties
<1>n. PICK n \in Nat : n = Len(s) + 1 BY <1>1
<1>e. /\ e.kind = "OrderInitialized" <=> n = 1
      /\ e.kind = "OrderSubmitted" <=> n = 2
      /\ n = 3 => e.kind = "OrderAccepted"
      /\ n > 3 => e.kind \in {"OrderAccepted", "OrderFilled"}
  <2>1. n \in DOMAIN t /\ t[n] = e BY <1>1, <1>2, <1>n
  <2>2. /\ t[n].kind = "OrderInitialized" <=> n = 1
        /\ t[n].kind = "OrderSubmitted" <=> n = 2
        /\ n = 3 => t[n].kind = "OrderAccepted"
        /\ n > 3 => t[n].kind \in {"OrderAccepted", "OrderFilled"}
    <3>1. t \in Seq(Events) /\ ChainOK(t) BY <1>2
    <3>2. \A i \in DOMAIN t : /\ t[i].kind = "OrderInitialized" <=> i = 1
                              /\ t[i].kind = "OrderSubmitted" <=> i = 2
                              /\ i = 3 => t[i].kind = "OrderAccepted"
                              /\ i > 3 => t[i].kind \in {"OrderAccepted", "OrderFilled"}
      BY <3>1, KindAt
    <3> QED BY <2>1, <3>2
  <2> QED BY <2>1, <2>2
<1>3. ToSet(t) = ToSet(s) \cup {e} BY <1>1, <1>2 DEF ToSet
<1>4. e \notin ToSet(s)
  <2> SUFFICES ASSUME NEW i \in DOMAIN s, s[i] = e PROVE FALSE BY DEF ToSet
  <2>1. i \in DOMAIN t /\ Len(s) + 1 \in DOMAIN t /\ i # Len(s) + 1 BY <1>1, <1>2
  <2> QED BY <2>1, <1>2, Distinct
<1>5. Kept(t) = Kept(s) \cup (IF Len(s) < 3 \/ e.kind = "OrderFilled" THEN {e} ELSE {})
  <2>1. ASSUME NEW i \in DOMAIN t PROVE i \in DOMAIN s \/ i = Len(s) + 1 BY <1>1, <1>2
  <2>2. Len(s) + 1 \in DOMAIN t /\ \A i \in DOMAIN s : i \in DOMAIN t BY <1>1, <1>2
  <2>3. Len(s) + 1 <= 3 <=> Len(s) < 3 BY <1>1
  <2> QED BY <2>1, <2>2, <2>3, <1>2 DEF Kept
<1>6. Kept(s) \subseteq ToSet(s) BY DEF Kept, ToSet
<1>7. CASE R = Kept(s)
  <2>1. \A f \in ToSet(s) : f \notin New(t, R)
    <3> SUFFICES ASSUME NEW i \in DOMAIN s, s[i] \in New(t, R) PROVE FALSE BY DEF ToSet
    <3>1. s[i] \notin Kept(s) BY <1>7 DEF New
    <3>2. i > 3 /\ s[i].kind = "OrderAccepted" BY <3>1, KindAt DEF Kept
    <3>3. 3 \in DOMAIN s BY <3>2, <1>1
    <3>4. s[3].kind = "OrderAccepted" /\ s[3] \in Kept(s) BY <3>3 DEF ChainOK, Kept
    <3> QED BY <1>7, <3>2, <3>4 DEF New, Kinds, AcceptedOnce
  <2>2. e \in New(t, R) <=> Len(s) < 3 \/ e.kind = "OrderFilled"
    <3>1. e \notin R BY <1>4, <1>6, <1>7
    <3>2. CASE e.kind = "OrderFilled"
      BY <3>1, <3>2, <1>3 DEF New, AcceptedOnce
    <3>3. CASE Len(s) < 3
      <4>1. Len(s) + 1 \in DOMAIN t BY <1>1, <1>2
      <4>2. ASSUME NEW i \in DOMAIN s, s[i].kind = e.kind, e.kind \in AcceptedOnce PROVE FALSE
        <5>1. i \in DOMAIN t /\ i <= Len(s) BY <1>1, <1>2
        <5>2. /\ t[i].kind = "OrderInitialized" <=> i = 1
              /\ t[i].kind = "OrderSubmitted" <=> i = 2
          BY <5>1, <1>2, KindAt
        <5>3. /\ e.kind = "OrderInitialized" <=> n = 1
              /\ e.kind = "OrderSubmitted" <=> n = 2
          BY <1>e
        <5>4. t[i].kind = e.kind BY <4>2, <1>2
        <5> QED BY <5>1, <5>2, <5>3, <5>4, <4>2, <3>3, <1>1, <1>n, <1>e DEF AcceptedOnce
      <4>3. ~(e.kind \in AcceptedOnce /\ e.kind \in Kinds(R))
        BY <4>2, <1>6, <1>7 DEF Kinds, ToSet
      <4> QED BY <3>1, <3>3, <4>3, <1>3 DEF New
    <3>4. CASE Len(s) >= 3 /\ e.kind # "OrderFilled"
      <4>1. n > 3 BY <3>4, <1>1, <1>n
      <4>2. e.kind = "OrderAccepted" BY <3>4, <4>1, <1>e
      <4>3. 3 \in DOMAIN s BY <3>4, <1>1
      <4>4. s[3].kind = "OrderAccepted" /\ s[3] \in Kept(s) BY <4>3 DEF ChainOK, Kept
      <4>5. e \notin New(t, R) BY <1>7, <4>2, <4>4 DEF New, Kinds, AcceptedOnce
      <4> QED BY <4>5, <3>4, <1>1
    <3> QED BY <3>2, <3>3, <3>4, <1>1
  <2>3. New(t, R) = IF Len(s) < 3 \/ e.kind = "OrderFilled" THEN {e} ELSE {}
    BY <2>1, <2>2, <1>3 DEF New
  <2> QED BY <2>3, <1>5, <1>7
<1>8. CASE Len(s) = 3 /\ R = {s[1]}
  <2>1. DOMAIN s = 1 .. 3 /\ DOMAIN t = 1 .. 4 BY <1>8, <1>1, <1>2
  <2>2. /\ s[1].kind = "OrderInitialized" /\ s[2].kind = "OrderSubmitted"
        /\ s[3].kind = "OrderAccepted" /\ s[1] # s[2] /\ s[1] # s[3]
    BY <2>1 DEF ChainOK
  <2>3. Fills(ToSet(s)) = {} BY <2>1, <2>2 DEF Fills, ToSet
  <2>4. e.kind \in {"OrderAccepted", "OrderFilled"} BY <1>8, <1>n, <1>e
  <2>5. e.kind = "OrderFilled" BY <2>3, <2>4, <1>8
  <2>6. Kept(t) = {s[1], s[2], s[3], e}
    <3>1. Kept(s) = {s[1], s[2], s[3]} BY <2>1 DEF Kept
    <3> QED BY <3>1, <2>5, <1>5
  <2>7. Kinds(R) = {"OrderInitialized"} BY <1>8, <2>2 DEF Kinds
  <2>8. ToSet(s) = {s[1], s[2], s[3]} BY <2>1 DEF ToSet
  <2>9. s[2] \in New(t, R) /\ s[3] \in New(t, R) /\ e \in New(t, R)
    BY <1>3, <1>4, <1>8, <2>2, <2>5, <2>7, <2>8 DEF New, AcceptedOnce
  <2> QED BY <2>6, <2>8, <2>9, <1>3, <1>8 DEF New
<1>9. CASE s = <<>>
  <2>1. Kept(s) = {} BY <1>9 DEF Kept
  <2> QED BY <1>7, <1>9, <2>1
<1> QED BY <1>7, <1>8, <1>9 DEF Holds
-------------------------------------------------------------------------------
(* How a chain grows *)

\* What the guards of the sandbox's events say of the chain's length
LEMMA Lengths ==
  ASSUME NEW s \in Seq(Events), ChainOK(s)
  PROVE  /\ Kinds(ToSet(s)) = {"OrderInitialized"} => Len(s) = 1
         /\ Kinds(ToSet(s)) = {"OrderInitialized", "OrderSubmitted"} => Len(s) = 2
         /\ "OrderAccepted" \in Kinds(ToSet(s)) => Len(s) >= 3
<1>1. DOMAIN s = 1 .. Len(s) /\ Len(s) \in Nat BY LenProperties
<1>2. \A i \in DOMAIN s : s[i].kind \in Kinds(ToSet(s)) BY DEF Kinds, ToSet
<1>3. Len(s) >= 2 => "OrderSubmitted" \in Kinds(ToSet(s)) BY <1>1, <1>2 DEF ChainOK
<1>4. Len(s) >= 3 => "OrderAccepted" \in Kinds(ToSet(s)) BY <1>1, <1>2 DEF ChainOK
<1>5. "OrderSubmitted" \in Kinds(ToSet(s)) => Len(s) >= 2
  BY <1>1 DEF ChainOK, Kinds, ToSet
<1>6. "OrderInitialized" \in Kinds(ToSet(s)) => Len(s) >= 1
  BY <1>1 DEF ChainOK, Kinds, ToSet
<1>7. ASSUME "OrderAccepted" \in Kinds(ToSet(s)) PROVE Len(s) >= 3
  <2>1. PICK i \in DOMAIN s : s[i].kind = "OrderAccepted" BY <1>7 DEF Kinds, ToSet
  <2>2. i # 1 /\ i # 2 BY <2>1 DEF ChainOK
  <2> QED BY <1>1, <2>2
<1> QED BY <1>1, <1>3, <1>4, <1>5, <1>6, <1>7

\* The next event of a chain, as the guards let it be
NextEvent(s, e) ==
  /\ e.n = Len(s)
  /\ e.kind = "OrderInitialized" <=> Len(s) = 0
  /\ e.kind = "OrderSubmitted" <=> Len(s) = 1
  /\ Len(s) = 2 => e.kind = "OrderAccepted"

LEMMA ChainGrows ==
  ASSUME NEW s \in Seq(Events), ChainOK(s), NEW e \in Events, NextEvent(s, e),
         \A i \in DOMAIN s : s[i].life <= e.life
  PROVE  LET t == Append(s, e) IN
         /\ t \in Seq(Events) /\ Len(t) = Len(s) + 1
         /\ t[Len(s) + 1] = e /\ \A i \in DOMAIN s : t[i] = s[i]
         /\ ChainOK(t) /\ \A i \in DOMAIN t : t[i].life <= e.life
         /\ ToSet(t) = ToSet(s) \cup {e}
<1>1. DOMAIN s = 1 .. Len(s) /\ Len(s) \in Nat BY LenProperties
<1>2. PICK t : t = Append(s, e) OBVIOUS
<1>3. /\ t \in Seq(Events) /\ DOMAIN t = 1 .. Len(s) + 1 /\ Len(t) = Len(s) + 1
      /\ \A i \in DOMAIN s : t[i] = s[i]
      /\ t[Len(s) + 1] = e
  BY AppendProperties, <1>1, <1>2, LenProperties
<1>4. ToSet(t) = ToSet(s) \cup {e} BY <1>1, <1>3 DEF ToSet
<1>5. \A i \in DOMAIN t : i \in DOMAIN s \/ i = Len(s) + 1 BY <1>1, <1>3
<1>6. e.life \in Nat
  <2>1. e.life \in 0 .. MaxCrashes BY DEF Events
  <2> QED BY <2>1, LedgerAssumption
<1>7. \A i \in DOMAIN t : t[i].life <= e.life
  <2> TAKE i \in DOMAIN t
  <2>1. CASE i \in DOMAIN s BY <2>1, <1>3
  <2>2. CASE i = Len(s) + 1 BY <2>2, <1>3, <1>6
  <2> QED BY <2>1, <2>2, <1>5
<1>8. \A i \in DOMAIN t : t[i].n = i - 1
  <2> TAKE i \in DOMAIN t
  <2>1. CASE i \in DOMAIN s BY <2>1, <1>3 DEF ChainOK
  <2>2. CASE i = Len(s) + 1 BY <2>2, <1>1, <1>3 DEF NextEvent
  <2> QED BY <2>1, <2>2, <1>5
<1>9. \A i, j \in DOMAIN t : i < j => t[i].life <= t[j].life
  <2> TAKE i \in DOMAIN t, j \in DOMAIN t
  <2> HAVE i < j
  <2>1. i \in DOMAIN s BY <1>1, <1>3
  <2>2. CASE j \in DOMAIN s BY <2>1, <2>2, <1>3 DEF ChainOK
  <2>3. CASE j = Len(s) + 1 BY <2>1, <2>3, <1>3
  <2> QED BY <2>2, <2>3, <1>5
<1>10. \A i \in DOMAIN t : /\ t[i].kind = "OrderInitialized" <=> i = 1
                           /\ t[i].kind = "OrderSubmitted" <=> i = 2
  <2> TAKE i \in DOMAIN t
  <2>1. CASE i \in DOMAIN s BY <2>1, <1>3 DEF ChainOK
  <2>2. CASE i = Len(s) + 1 BY <2>2, <1>1, <1>3 DEF NextEvent
  <2> QED BY <2>1, <2>2, <1>5
<1>11. 3 \in DOMAIN t => t[3].kind = "OrderAccepted"
  <2> HAVE 3 \in DOMAIN t
  <2>1. CASE 3 \in DOMAIN s BY <2>1, <1>3 DEF ChainOK
  <2>2. CASE 3 = Len(s) + 1
    <3>1. Len(s) = 2 BY <2>2, <1>1
    <3> QED BY <3>1, <2>2, <1>3 DEF NextEvent
  <2> QED BY <2>1, <2>2, <1>5
<1>12. ChainOK(t) BY <1>8, <1>9, <1>10, <1>11 DEF ChainOK
<1> QED BY <1>2, <1>3, <1>4, <1>7, <1>12

\* The snapshot's chains are the cached chains of open orders.
LEMMA Booked ==
  ASSUME NEW c \in [Orders -> Seq(Events)], NEW life \in Nat, Sound(c, life), NEW lots \in Nat,
         NEW b, b = Book(c, lots)
  PROVE  /\ b \in [orders : [Orders -> Seq(Events)], position : Nat]
         /\ Sound(b.orders, life)
         /\ \A o \in Orders : /\ b.orders[o] = c[o] \/ b.orders[o] = <<>>
                              /\ b.orders[o] # <<>> => IsOpen(ToSet(b.orders[o]))
                              /\ IsOpen(ToSet(c[o])) => b.orders[o] = c[o]
<1>2. PICK f : f = [o \in Orders |-> IF IsOpen(ToSet(c[o])) THEN c[o] ELSE <<>>] OBVIOUS
<1>3. b = [orders |-> f, position |-> lots] BY <1>2 DEF Book
<1>4. <<>> \in Seq(Events) OBVIOUS
<1>5. \A o \in Orders : f[o] = IF IsOpen(ToSet(c[o])) THEN c[o] ELSE <<>> BY <1>2
<1>6. f \in [Orders -> Seq(Events)]
  <2>1. \A o \in Orders : f[o] \in Seq(Events) BY <1>4, <1>5
  <2> QED BY <2>1, <1>2
<1>7. ChainOK(<<>>) BY DEF ChainOK
<1>8. Sound(f, life) BY <1>5, <1>7 DEF Sound
<1>9. b.orders = f BY <1>3
<1>10. b \in [orders : [Orders -> Seq(Events)], position : Nat] BY <1>3, <1>6
<1> QED BY <1>5, <1>8, <1>9, <1>10

\* Of rows that hold every cached chain, what the snapshot made of it agrees with them.
LEMMA BookAgrees ==
  ASSUME NEW c \in [Orders -> Seq(Events)], NEW life \in Nat, Sound(c, life), NEW lots \in Nat,
         NEW R, NEW o \in Orders, c[o] # <<>>, Holds(R, c[o]),
         NEW b, b = Book(c, lots)
  PROVE  /\ b.orders[o] # <<>> => Holds(R, b.orders[o])
         /\ IsOpen(R) => Fills(ToSet(b.orders[o])) = Fills(R)
<1>1. /\ b.orders[o] = c[o] \/ b.orders[o] = <<>>
      /\ IsOpen(ToSet(c[o])) => b.orders[o] = c[o]
  BY Booked
<1>2. ChainOK(c[o]) /\ c[o] \in Seq(Events) BY DEF Sound
<1>3. CASE R = Kept(c[o]) BY <1>1, <1>2, <1>3, KeptSame
<1>4. CASE Len(c[o]) = 3 /\ R = {c[o][1]}
  <2>1. 1 \in DOMAIN c[o] BY <1>2, <1>4, LenProperties
  <2>2. c[o][1].kind = "OrderInitialized" BY <1>2, <2>1 DEF ChainOK
  <2>3. ~IsOpen(R) BY <1>4, <2>2 DEF IsOpen, Kinds
  <2> QED BY <1>1, <2>3
<1> QED BY <1>1, <1>3, <1>4 DEF Holds
-------------------------------------------------------------------------------
(* The steps *)

\* One event of an order is published and its unit commits or fails: what handing
\* over, submission, acceptance, fills and repeated acceptances have in common.
Publishes(o, e) ==
  /\ up /\ up' = up /\ crashes' = crashes
  /\ e.life = crashes /\ NextEvent(chain[o], e)
  /\ chain' = [chain EXCEPT ![o] = Append(@, e)]
  /\ \E lots \in Nat : CaptureOrder(o, chain', lots)
  /\ rehand' \subseteq rehand \ {o} \/ (o \notin rehand /\ rehand' = rehand)
  /\ Len(chain[o]) = 0 => stored[o] = EmptyBag
  /\ e.kind = "OrderAccepted" /\ Len(chain[o]) >= 3 =>
       Fills(ToSet(chain[o])) # {} /\ crashes # 0

LEMMA RowsTyped ==
  ASSUME TypeOK, StoredOnce, Chains, NEW o \in Orders
  PROVE  /\ IsABag(stored[o]) /\ \A e \in BagToSet(stored[o]) : stored[o][e] = 1
         /\ BagToSet(stored[o]) \subseteq Events
         /\ chain[o] \in Seq(Events) /\ ChainOK(chain[o])
         /\ snapshot.orders[o] \in Seq(Events) /\ ChainOK(snapshot.orders[o])
BY DEF TypeOK, StoredOnce, Chains, Sound

LEMMA PublishStep ==
  ASSUME Inv, NEW o \in Orders, NEW e \in Events, Publishes(o, e)
  PROVE  /\ chain' \in [Orders -> Seq(Events)]
         /\ stored' = [p \in Orders |-> stored'[p]]
         /\ \A p \in Orders : IsABag(stored'[p]) /\ BagToSet(stored'[p]) \subseteq Events
         /\ rehand' \subseteq {p \in Orders : IsOpen(ToSet(chain'[p]))}
         /\ snapshot' \in [orders : [Orders -> Seq(Events)], position : Nat]
         /\ failures' \in 0 .. MaxFailures
         /\ Chains' /\ Whole' /\ Behind' /\ HistoryReplays' /\ SnapshotMatchesHistory' /\ StoredOnce'
<1>1. /\ chain \in [Orders -> Seq(Events)] /\ rehand \subseteq {p \in Orders : IsOpen(ToSet(chain[p]))}
      /\ snapshot \in [orders : [Orders -> Seq(Events)], position : Nat]
      /\ crashes \in Nat /\ failures \in 0 .. MaxFailures /\ MaxFailures \in Nat
      /\ stored = [p \in Orders |-> stored[p]]
      /\ \A p \in Orders : IsABag(stored[p]) /\ BagToSet(stored[p]) \subseteq Events
  BY LedgerAssumption DEF Inv, TypeOK
<1>2. /\ ChainOK(chain[o]) /\ chain[o] \in Seq(Events)
      /\ \A i \in DOMAIN chain[o] : chain[o][i].life <= e.life
  BY <1>1 DEF Inv, Chains, Sound, Publishes
<1>3. PICK s : s = chain[o] OBVIOUS
<1>4. PICK t : t = Append(s, e) OBVIOUS
<1>5. chain' = [chain EXCEPT ![o] = t] BY <1>3, <1>4 DEF Publishes
<1>6. DOMAIN s = 1 .. Len(s) /\ Len(s) \in Nat BY <1>2, <1>3, LenProperties
<1>7. /\ t \in Seq(Events) /\ Len(t) = Len(s) + 1
      /\ t[Len(s) + 1] = e /\ \A i \in DOMAIN s : t[i] = s[i]
      /\ ChainOK(t) /\ \A i \in DOMAIN t : t[i].life <= crashes
      /\ ToSet(t) = ToSet(s) \cup {e}
  BY <1>2, <1>3, <1>4, ChainGrows DEF Publishes
<1>8. t # <<>> /\ DOMAIN t = 1 .. Len(t)
  <2>1. Len(t) # 0 BY <1>6, <1>7
  <2> QED BY <2>1, <1>7, LenProperties
<1>9. /\ chain' \in [Orders -> Seq(Events)] /\ chain'[o] = t
      /\ \A p \in Orders : p # o => chain'[p] = chain[p]
  BY <1>1, <1>5, <1>7
<1>10. Sound(chain', crashes) BY <1>7, <1>9 DEF Inv, Chains, Sound
<1>11. rehand' \subseteq {p \in Orders : IsOpen(ToSet(chain'[p]))}
  BY <1>1, <1>9 DEF Publishes
<1>12. PICK lots \in Nat : CaptureOrder(o, chain', lots) BY DEF Publishes
<1>13. /\ up /\ up' /\ crashes' = crashes
       /\ Chains /\ Whole /\ Behind /\ HistoryReplays /\ SnapshotMatchesHistory /\ StoredOnce /\ TypeOK
  BY DEF Publishes, Inv
<1>14. crashes = 0 => \A p \in Orders : \A i \in DOMAIN chain'[p] : i > 3 => chain'[p][i].kind = "OrderFilled"
  <2> SUFFICES ASSUME crashes = 0, NEW p \in Orders, NEW i \in DOMAIN chain'[p], i > 3
               PROVE  chain'[p][i].kind = "OrderFilled"
    OBVIOUS
  <2>1. CASE p # o BY <2>1, <1>9, <1>13 DEF Whole
  <2>2. CASE p = o /\ i \in DOMAIN s BY <2>2, <1>3, <1>7, <1>9, <1>13 DEF Whole
  <2>3. CASE p = o /\ i \notin DOMAIN s
    <3>1. i = Len(s) + 1 /\ t[i] = e BY <2>3, <1>6, <1>7, <1>8, <1>9
    <3>2. t[i].kind \in {"OrderAccepted", "OrderFilled"}
      <4>1. i \in DOMAIN t BY <2>3, <1>9
      <4> QED BY <4>1, <1>7, KindAt
    <3>3. Len(s) >= 3 BY <3>1, <1>6
    <3>4. e.kind # "OrderAccepted" BY <3>3, <1>3 DEF Publishes
    <3> QED BY <3>1, <3>2, <3>4, <2>3, <1>9
  <2> QED BY <2>1, <2>2, <2>3
<1>15. crashes = 0 => rehand' = {} BY <1>13 DEF Whole, Publishes
<1>16. ASSUME NEW k \in 0 .. Len(s) PROVE First(t, k) = First(s, k)
  <2>1. \A i \in 1 .. k : i \in DOMAIN s BY <1>6
  <2> QED BY <2>1, <1>7 DEF First
<1>17. CASE failures < MaxFailures /\ failures' = failures + 1 /\ UNCHANGED <<stored, snapshot>>
  <2>1. stored' = stored /\ snapshot' = snapshot /\ failures' \in 0 .. MaxFailures /\ failures' # 0
    BY <1>1, <1>17
  <2>2. Chains' BY <2>1, <1>10, <1>13 DEF Chains
  <2>3. Whole'
    <3> SUFFICES ASSUME crashes = 0 PROVE Whole' BY <1>13 DEF Whole
    <3>1. \A p \in Orders : \E k \in 0 .. Len(chain'[p]) : BagToSet(stored[p]) = First(chain'[p], k)
      <4> TAKE p \in Orders
      <4>1. PICK k \in 0 .. Len(chain[p]) : BagToSet(stored[p]) = First(chain[p], k) BY <1>13 DEF Whole
      <4>2. CASE p # o BY <4>1, <4>2, <1>9
      <4>3. CASE p = o
        <5>1. k \in 0 .. Len(t) /\ First(t, k) = First(s, k) BY <4>1, <4>3, <1>3, <1>6, <1>7, <1>16
        <5> QED BY <4>1, <4>3, <5>1, <1>3, <1>9
      <4> QED BY <4>2, <4>3
    <3> QED BY <3>1, <2>1, <1>13, <1>14, <1>15 DEF Whole
  <2>4. Behind' /\ SnapshotMatchesHistory' BY <2>1 DEF Behind, SnapshotMatchesHistory
  <2>5. HistoryReplays' BY <2>1, <1>13 DEF HistoryReplays
  <2>6. StoredOnce' BY <2>1, <1>13 DEF StoredOnce
  <2> QED BY <2>1, <2>2, <2>3, <2>4, <2>5, <2>6, <1>1, <1>9, <1>11
<1>18. CASE /\ stored' = [stored EXCEPT ![o] = @ (+) Unstored(chain'[o], @)]
            /\ snapshot' = Book(chain', lots)
            /\ UNCHANGED failures
  <2>1. PICK rows : rows = stored[o] OBVIOUS
  <2>2. PICK R : R = BagToSet(rows) OBVIOUS
  <2>3. IsABag(rows) /\ R \subseteq Events /\ \A f \in R : rows[f] = 1
    BY <2>1, <2>2, <1>13, RowsTyped
  <2>4. PICK after : after = rows (+) Unstored(t, rows) OBVIOUS
  <2>5. /\ IsABag(after) /\ BagToSet(after) = R \cup New(t, R)
        /\ \A f \in BagToSet(after) : after[f] = 1
    BY <2>2, <2>3, <2>4, <1>7, Inserted
  <2>6. stored' = [p \in Orders |-> stored'[p]] BY <1>1, <1>18
  <2>7. stored'[o] = after /\ \A p \in Orders : p # o => stored'[p] = stored[p]
    BY <2>1, <2>4, <1>1, <1>9, <1>18
  <2>8. BagToSet(after) \subseteq Events
    <3>1. ToSet(t) \subseteq Events BY <1>7, <1>8, ElementOfSeq DEF ToSet
    <3> QED BY <3>1, <2>3, <2>5 DEF New
  <2>9. failures' = failures BY <1>18
  <2>10. /\ snapshot' \in [orders : [Orders -> Seq(Events)], position : Nat]
         /\ Sound(snapshot'.orders, crashes)
         /\ \A p \in Orders : /\ snapshot'.orders[p] = chain'[p] \/ snapshot'.orders[p] = <<>>
                              /\ snapshot'.orders[p] # <<>> => IsOpen(ToSet(snapshot'.orders[p]))
    <3>1. PICK c : c = chain' OBVIOUS
    <3>2. PICK b : b = snapshot' OBVIOUS
    <3>3. c \in [Orders -> Seq(Events)] /\ Sound(c, crashes) /\ b = Book(c, lots) /\ crashes \in Nat
      BY <3>1, <3>2, <1>1, <1>9, <1>10, <1>18
    <3>4. b \in [orders : [Orders -> Seq(Events)], position : Nat] BY <3>3, Booked
    <3>5. Sound(b.orders, crashes) BY <3>3, Booked
    <3>6. \A p \in Orders : b.orders[p] = c[p] \/ b.orders[p] = <<>> BY <3>3, Booked
    <3>7. \A p \in Orders : b.orders[p] # <<>> => IsOpen(ToSet(b.orders[p])) BY <3>3, Booked
    <3> QED BY <3>1, <3>2, <3>4, <3>5, <3>6, <3>7
  <2>11. Chains' BY <2>10, <1>10, <1>13 DEF Chains
  <2>12. StoredOnce' BY <2>5, <2>7, <1>13 DEF StoredOnce
  <2>13. crashes = 0 => BagToSet(after) = First(t, Len(t))
    <3> HAVE crashes = 0
    <3>1. PICK k \in 0 .. Len(s) : R = First(s, k) BY <1>3, <1>13, <2>1, <2>2 DEF Whole
    <3>2. k \in 0 .. Len(t) /\ First(t, k) = R BY <3>1, <1>6, <1>7, <1>16
    <3>3. \A i \in DOMAIN t : i > 3 => t[i].kind = "OrderFilled" BY <1>9, <1>14
    <3> QED BY <3>2, <3>3, <2>5, <1>7, FirstCaptured
  <2>14. Whole'
    <3> SUFFICES ASSUME crashes = 0 PROVE Whole' BY <1>13 DEF Whole
    <3>1. \A p \in Orders : \E k \in 0 .. Len(chain'[p]) : BagToSet(stored'[p]) = First(chain'[p], k)
      <4> TAKE p \in Orders
      <4>1. CASE p # o BY <4>1, <2>7, <1>9, <1>13 DEF Whole
      <4>2. CASE p = o
        <5>1. Len(t) \in 0 .. Len(t) BY <1>6, <1>7
        <5> QED BY <4>2, <5>1, <2>7, <2>13, <1>9
      <4> QED BY <4>1, <4>2
    <3> QED BY <3>1, <1>13, <1>14, <1>15 DEF Whole
  <2>15. failures = 0 => BagToSet(after) = Kept(t)
    <3> HAVE failures = 0
    <3>1. s # <<>> => Holds(R, s) BY <1>3, <1>13, <2>1, <2>2 DEF Behind
    <3>2. s = <<>> => R = {}
      <4> HAVE s = <<>>
      <4>0. Len(s) = 0 OBVIOUS
      <4>1. rows = EmptyBag BY <4>0, <1>3, <2>1 DEF Publishes
      <4> QED BY <4>1, <2>2 DEF EmptyBag, SetToBag, BagToSet
    <3>3. e.kind = "OrderAccepted" /\ Len(s) >= 3 => Fills(ToSet(s)) # {} BY <1>3 DEF Publishes
    <3>4. s \in Seq(Events) /\ ChainOK(s) BY <1>2, <1>3
    <3>5. ChainOK(t) BY <1>7
    <3>6. R \cup New(t, R) = Kept(t) BY <3>1, <3>2, <3>3, <3>4, <3>5, <1>4, HeldCaptured
    <3> QED BY <3>6, <2>5
  <2>16. failures = 0 => \A p \in Orders : chain'[p] # <<>> => Holds(BagToSet(stored'[p]), chain'[p])
    <3> SUFFICES ASSUME failures = 0, NEW p \in Orders, chain'[p] # <<>>
                 PROVE  Holds(BagToSet(stored'[p]), chain'[p])
      OBVIOUS
    <3>1. CASE p = o BY <3>1, <2>7, <2>15, <1>9 DEF Holds
    <3>2. CASE p # o BY <3>2, <2>7, <1>9, <1>13 DEF Behind
    <3> QED BY <3>1, <3>2
  <2>17. failures = 0 => \A p \in Orders : snapshot'.orders[p] # <<>> => Holds(BagToSet(stored'[p]), snapshot'.orders[p])
    BY <2>10, <2>16
  <2>18. Behind'
    <3>1. \A p \in Orders : chain'[p] = <<>> => snapshot'.orders[p] = <<>> BY <2>10
    <3> QED BY <3>1, <2>9, <2>16, <2>17 DEF Behind
  <2>19. HistoryReplays'
    <3> SUFFICES ASSUME failures = 0 \/ crashes = 0, NEW p \in Orders
                 PROVE  Replays(BagToSet(stored'[p]))
      BY <2>9, <1>13 DEF HistoryReplays
    <3>1. CASE p # o BY <3>1, <2>7, <1>13 DEF HistoryReplays
    <3>2. CASE p = o /\ failures = 0 BY <3>2, <2>7, <2>15, <1>7, KeptReplays
    <3>3. CASE p = o /\ crashes = 0
      <4>1. \A i \in DOMAIN t : i > 3 => t[i].kind = "OrderFilled" BY <3>3, <1>9, <1>14
      <4>2. Len(t) \in 0 .. Len(t) BY <1>6, <1>7
      <4>3. Replays(First(t, Len(t))) BY <4>1, <4>2, <1>7, FirstReplays
      <4> QED BY <4>3, <3>3, <2>7, <2>13
    <3> QED BY <3>1, <3>2, <3>3
  <2>20. SnapshotMatchesHistory'
    <3> SUFFICES ASSUME failures = 0, NEW p \in Orders, IsOpen(BagToSet(stored'[p]))
                 PROVE  Fills(ToSet(snapshot'.orders[p])) = Fills(BagToSet(stored'[p]))
      BY <2>9 DEF SnapshotMatchesHistory
    <3>1. CASE chain'[p] # <<>>
      <4>1. PICK c : c = chain' OBVIOUS
      <4>2. PICK b : b = snapshot' OBVIOUS
      <4>3. PICK Q : Q = BagToSet(stored'[p]) OBVIOUS
      <4>4. /\ c \in [Orders -> Seq(Events)] /\ Sound(c, crashes) /\ b = Book(c, lots)
            /\ crashes \in Nat /\ c[p] # <<>> /\ Holds(Q, c[p])
        BY <4>1, <4>2, <4>3, <3>1, <2>16, <1>1, <1>9, <1>10, <1>18
      <4>5. IsOpen(Q) => Fills(ToSet(b.orders[p])) = Fills(Q) BY <4>4, BookAgrees
      <4> QED BY <4>2, <4>3, <4>5
    <3>2. CASE chain'[p] = <<>>
      <4>1. p # o BY <3>2, <1>8, <1>9
      <4>2. snapshot.orders[p] = <<>> /\ snapshot'.orders[p] = <<>>
        BY <3>2, <4>1, <2>10, <1>9, <1>13 DEF Behind
      <4> QED BY <4>1, <4>2, <2>7, <1>13 DEF SnapshotMatchesHistory
    <3> QED BY <3>1, <3>2
  <2>21. \A p \in Orders : IsABag(stored'[p]) /\ BagToSet(stored'[p]) \subseteq Events
    BY <2>5, <2>7, <2>8, <1>1
  <2> QED BY <2>6, <2>9, <2>10, <2>11, <2>12, <2>14, <2>18, <2>19, <2>20, <2>21, <1>1, <1>9, <1>11
<1> QED BY <1>12, <1>17, <1>18 DEF CaptureOrder
\* The new event is one, and it goes where the guards say.
LEMMA NewEvent ==
  ASSUME TypeOK, NEW o \in Orders, NEW kind \in EventKinds, NEW n \in Nat
  PROVE  LET e == Event(kind, o, n) IN
         e \in Events /\ e.kind = kind /\ e.n = n /\ e.life = crashes
BY DEF TypeOK, Event, Events

\* An action that publishes keeps the invariant, whatever it does beside it to the
\* position, its event and the cycles.
LEMMA PublishKeeps ==
  ASSUME Inv, NEW o \in Orders, NEW e \in Events, Publishes(o, e),
         position' \in Nat, due' \in [position : Nat, fill : Seq(Events)], cycles' = cycles
  PROVE  Inv'
<1>1. /\ chain' \in [Orders -> Seq(Events)]
      /\ stored' = [p \in Orders |-> stored'[p]]
      /\ \A p \in Orders : IsABag(stored'[p]) /\ BagToSet(stored'[p]) \subseteq Events
      /\ rehand' \subseteq {p \in Orders : IsOpen(ToSet(chain'[p]))}
      /\ snapshot' \in [orders : [Orders -> Seq(Events)], position : Nat]
      /\ failures' \in 0 .. MaxFailures
      /\ Chains' /\ Whole' /\ Behind' /\ HistoryReplays' /\ SnapshotMatchesHistory' /\ StoredOnce'
  BY PublishStep
<1>2. up' \in BOOLEAN /\ crashes' \in 0 .. MaxCrashes /\ cycles' \in Seq(SUBSET Events)
  BY DEF Inv, TypeOK, Publishes
<1>3. TypeOK' BY <1>1, <1>2 DEF TypeOK
<1> QED BY <1>1, <1>3 DEF Inv

\* The events the node's thread captures outside a fill, with their guards
Applies(o, kind) ==
  /\ up /\ kind \in EventKinds /\ Apply(o, kind)
  /\ kind = "OrderInitialized" <=> Len(chain[o]) = 0
  /\ kind = "OrderSubmitted" <=> Len(chain[o]) = 1
  /\ Len(chain[o]) = 2 => kind = "OrderAccepted"
  /\ rehand' \subseteq rehand \ {o} \/ (o \notin rehand /\ rehand' = rehand)
  /\ Len(chain[o]) = 0 => stored[o] = EmptyBag
  /\ kind = "OrderAccepted" /\ Len(chain[o]) >= 3 =>
       Fills(ToSet(chain[o])) # {} /\ crashes # 0
  /\ UNCHANGED <<up, position, due, cycles, crashes>>

LEMMA ApplyKeeps ==
  ASSUME Inv, NEW o \in Orders, NEW kind, Applies(o, kind)
  PROVE  Inv'
<1>1. TypeOK BY DEF Inv
<1>2. Len(chain[o]) \in Nat BY <1>1, LenProperties DEF TypeOK
<1>3. PICK e : e = Event(kind, o, Len(chain[o])) OBVIOUS
<1>4. e \in Events /\ e.kind = kind /\ e.n = Len(chain[o]) /\ e.life = crashes
  BY <1>1, <1>2, <1>3, NewEvent DEF Applies
<1>5. position \in Nat /\ due \in [position : Nat, fill : Seq(Events)] BY <1>1 DEF TypeOK
<1>6. NextEvent(chain[o], e) BY <1>4 DEF NextEvent, Applies
<1>7. chain' = [chain EXCEPT ![o] = Append(@, e)] /\ CaptureOrder(o, chain', position)
  BY <1>3 DEF Apply, Applies
<1>8. Publishes(o, e) BY <1>4, <1>5, <1>6, <1>7 DEF Publishes, Applies
<1> QED BY <1>4, <1>5, <1>8, PublishKeeps DEF Applies

\* No order whose chain has three events or more is still being announced.
LEMMA NotShort ==
  ASSUME NEW s, Len(s) \in Nat, Len(s) >= 3
  PROVE  Len(s) # 0 /\ Len(s) # 1 /\ Len(s) # 2
<1>1. \A n \in Nat : n >= 3 => n # 0 /\ n # 1 /\ n # 2 OBVIOUS
<1> QED BY <1>1, Zenon

LEMMA GuardLengths ==
  ASSUME Inv, NEW o \in Orders
  PROVE  /\ chain[o] \in Seq(Events) /\ ChainOK(chain[o]) /\ Len(chain[o]) \in Nat
         /\ Len(chain[o]) = 0 => o \notin rehand
         /\ Kinds(ToSet(chain[o])) = {"OrderInitialized"} => Len(chain[o]) = 1 /\ o \notin rehand
         /\ Kinds(ToSet(chain[o])) = {"OrderInitialized", "OrderSubmitted"} =>
              Len(chain[o]) = 2 /\ o \notin rehand
         /\ IsOpen(ToSet(chain[o])) => Len(chain[o]) >= 3
         /\ o \in rehand => IsOpen(ToSet(chain[o])) /\ crashes # 0
<1>1. chain[o] \in Seq(Events) /\ ChainOK(chain[o])
  BY DEF Inv, TypeOK, Chains, Sound
<1>2. o \in rehand => IsOpen(ToSet(chain[o])) BY DEF Inv, TypeOK
<1>3. o \in rehand => crashes # 0 BY DEF Inv, Whole
<1>4. IsOpen(ToSet(chain[o])) => "OrderAccepted" \in Kinds(ToSet(chain[o])) BY DEF IsOpen
<1>5. Len(chain[o]) \in Nat BY <1>1, LenProperties
<1>6. IsOpen(ToSet(chain[o])) => Len(chain[o]) >= 3 BY <1>1, <1>4, Lengths
<1>7. Len(chain[o]) = 0 => o \notin rehand BY <1>2, <1>5, <1>6, NotShort
<1>8. /\ Kinds(ToSet(chain[o])) = {"OrderInitialized"} => Len(chain[o]) = 1
      /\ Kinds(ToSet(chain[o])) = {"OrderInitialized", "OrderSubmitted"} => Len(chain[o]) = 2
  BY <1>1, Lengths
<1>9. Len(chain[o]) = 1 \/ Len(chain[o]) = 2 => o \notin rehand BY <1>2, <1>5, <1>6, NotShort
<1> QED BY <1>1, <1>2, <1>3, <1>5, <1>6, <1>7, <1>8, <1>9

LEMMA HandToNodeKeeps ==
  ASSUME Inv, NEW o \in Orders, HandToNode(o)
  PROVE  Inv'
<1>1. /\ up /\ chain[o] = <<>> /\ stored[o] = EmptyBag /\ Apply(o, "OrderInitialized")
      /\ UNCHANGED <<up, position, due, rehand, cycles, crashes>>
  BY DEF HandToNode, Idle
<1>2. Len(chain[o]) = 0 /\ o \notin rehand
  <2>1. Len(chain[o]) = 0 BY <1>1
  <2> QED BY <2>1, GuardLengths
<1>3. "OrderInitialized" \in EventKinds BY DEF EventKinds
<1>4. Applies(o, "OrderInitialized") BY <1>1, <1>2, <1>3 DEF Applies
<1> QED BY <1>4, ApplyKeeps

LEMMA SubmittedKeeps ==
  ASSUME Inv, NEW o \in Orders, Submitted(o)
  PROVE  Inv'
<1>1. /\ up /\ Kinds(ToSet(chain[o])) = {"OrderInitialized"} /\ Apply(o, "OrderSubmitted")
      /\ UNCHANGED <<up, position, due, rehand, cycles, crashes>>
  BY DEF Submitted, Idle
<1>2. Len(chain[o]) = 1 /\ o \notin rehand
  BY <1>1, GuardLengths
<1>3. "OrderSubmitted" \in EventKinds BY DEF EventKinds
<1>4. Applies(o, "OrderSubmitted") BY <1>1, <1>2, <1>3 DEF Applies
<1> QED BY <1>4, ApplyKeeps

LEMMA AcceptedKeeps ==
  ASSUME Inv, NEW o \in Orders, Accepted(o)
  PROVE  Inv'
<1>1. /\ up /\ Kinds(ToSet(chain[o])) = {"OrderInitialized", "OrderSubmitted"}
      /\ Apply(o, "OrderAccepted")
      /\ UNCHANGED <<up, position, due, rehand, cycles, crashes>>
  BY DEF Accepted, Idle
<1>2. Len(chain[o]) = 2 /\ o \notin rehand
  BY <1>1, GuardLengths
<1>3. "OrderAccepted" \in EventKinds BY DEF EventKinds
<1>4. Applies(o, "OrderAccepted") BY <1>1, <1>2, <1>3 DEF Applies
<1> QED BY <1>4, ApplyKeeps

LEMMA FillKeeps ==
  ASSUME Inv, NEW o \in Orders, Fill(o)
  PROVE  Inv'
<1>1. TypeOK BY DEF Inv
<1>2. PICK after : after = IF o \in Buys THEN position + 1 ELSE position - 1 OBVIOUS
<1>3. PICK e : e = Event("OrderFilled", o, Len(chain[o])) OBVIOUS
<1>4. /\ up /\ IsOpen(ToSet(chain[o])) /\ o \notin rehand
      /\ o \in Sells => position > 0
      /\ chain' = [chain EXCEPT ![o] = Append(@, e)]
      /\ due' = [position |-> after, fill |-> <<e>>]
      /\ UNCHANGED <<up, rehand, cycles, crashes>>
  BY <1>2, <1>3 DEF Fill, Idle
<1>5. PICK lots \in {position, after} : position' = lots /\ CaptureOrder(o, chain', lots)
  BY <1>2, <1>3 DEF Fill
<1>6. position \in Nat /\ o \in Buys \cup Sells BY <1>1 DEF TypeOK, Orders
<1>7. after \in Nat BY <1>2, <1>4, <1>6
<1>8. lots \in Nat BY <1>5, <1>6, <1>7
<1>9. Len(chain[o]) >= 3 /\ Len(chain[o]) \in Nat BY <1>4, GuardLengths
<1>10. e \in Events /\ e.kind = "OrderFilled" /\ e.n = Len(chain[o]) /\ e.life = crashes
  <2>1. "OrderFilled" \in EventKinds BY DEF EventKinds
  <2> QED BY <2>1, <1>1, <1>3, <1>9, NewEvent
<1>11. NextEvent(chain[o], e)
  <2>1. Len(chain[o]) # 0 /\ Len(chain[o]) # 1 /\ Len(chain[o]) # 2 BY <1>9, NotShort
  <2> QED BY <2>1, <1>10 DEF NextEvent
<1>12. Publishes(o, e) BY <1>4, <1>5, <1>8, <1>9, <1>10, <1>11 DEF Publishes
<1>13. <<e>> \in Seq(Events) BY <1>10
<1>14. due' \in [position : Nat, fill : Seq(Events)] BY <1>4, <1>7, <1>13
<1> QED BY <1>4, <1>5, <1>8, <1>10, <1>12, <1>14, PublishKeeps

LEMMA ReacceptedKeeps ==
  ASSUME Inv, NEW o \in Orders, Reaccepted(o)
  PROVE  Inv'
<1>1. /\ up /\ o \in rehand /\ rehand' = rehand \ {o}
      /\ UNCHANGED <<up, position, due, cycles, crashes>>
  BY DEF Reaccepted, Idle
<1>2. /\ Len(chain[o]) >= 3 /\ Len(chain[o]) \in Nat /\ crashes # 0
  BY <1>1, GuardLengths
<1>3. CASE Filled(ToSet(chain[o])) > 0
  <2>1. Fills(ToSet(chain[o])) # {} BY <1>3, FS_EmptySet DEF Filled
  <2>2. Apply(o, "OrderAccepted") BY <1>3 DEF Reaccepted
  <2>3. "OrderAccepted" \in EventKinds BY DEF EventKinds
  <2>4. Len(chain[o]) # 0 /\ Len(chain[o]) # 1 BY <1>2, NotShort
  <2>5. Applies(o, "OrderAccepted") BY <1>1, <1>2, <2>1, <2>2, <2>3, <2>4 DEF Applies
  <2> QED BY <2>5, ApplyKeeps
<1>4. CASE ~(Filled(ToSet(chain[o])) > 0)
  <2>1. UNCHANGED <<chain, stored, snapshot, failures>> BY <1>4 DEF Reaccepted
  <2>2. chain' = chain /\ stored' = stored /\ snapshot' = snapshot /\ failures' = failures /\ up' = up
        /\ position' = position /\ due' = due /\ cycles' = cycles /\ crashes' = crashes
    BY <1>1, <2>1
  <2>3. TypeOK' BY <1>1, <2>2 DEF Inv, TypeOK
  <2>4. Chains' BY <2>2 DEF Inv, Chains
  <2>5. Whole' BY <1>1, <1>2, <2>2 DEF Whole
  <2>6. Behind' BY <2>2 DEF Inv, Behind
  <2>7. HistoryReplays' /\ SnapshotMatchesHistory' /\ StoredOnce'
    BY <2>2 DEF Inv, HistoryReplays, SnapshotMatchesHistory, StoredOnce
  <2> QED BY <2>3, <2>4, <2>5, <2>6, <2>7 DEF Inv
<1> QED BY <1>3, <1>4
\* The two events no capture sees: the rows are those of the announcement alone.
LEMMA MatchedKeeps ==
  ASSUME Inv, NEW o \in Orders, Matched(o)
  PROVE  Inv'
<1>1. /\ TypeOK /\ Chains /\ Whole /\ Behind
      /\ HistoryReplays /\ SnapshotMatchesHistory /\ StoredOnce
  BY DEF Inv
<1>2. /\ Kinds(ToSet(chain[o])) = {"OrderInitialized"}
      /\ up' = up /\ position' = position /\ due' = due /\ rehand' = rehand /\ stored' = stored
      /\ snapshot' = snapshot /\ cycles' = cycles /\ crashes' = crashes /\ failures' = failures
  BY DEF Matched
<1>3. PICK s : s = chain[o] OBVIOUS
<1>4. s \in Seq(Events) /\ ChainOK(s) /\ Len(s) = 1 /\ o \notin rehand
  BY <1>2, <1>3, GuardLengths
<1>5. \A i \in DOMAIN s : s[i].life <= crashes BY <1>1, <1>3 DEF Chains, Sound
<1>6. PICK e : e = Event("OrderSubmitted", o, 1) OBVIOUS
<1>7. PICK f : f = Event("OrderAccepted", o, 2) OBVIOUS
<1>8. /\ e \in Events /\ e.kind = "OrderSubmitted" /\ e.n = 1 /\ e.life = crashes
      /\ f \in Events /\ f.kind = "OrderAccepted" /\ f.n = 2 /\ f.life = crashes
  <2>1. "OrderSubmitted" \in EventKinds /\ "OrderAccepted" \in EventKinds BY DEF EventKinds
  <2> QED BY <2>1, <1>1, <1>6, <1>7, NewEvent
<1>9. PICK u : u = Append(s, e) OBVIOUS
<1>10. PICK t : t = Append(u, f) OBVIOUS
<1>11. /\ u \in Seq(Events) /\ Len(u) = 2 /\ ChainOK(u)
       /\ u[2] = e /\ \A i \in DOMAIN s : u[i] = s[i]
       /\ \A i \in DOMAIN u : u[i].life <= crashes
  <2>1. NextEvent(s, e) BY <1>4, <1>8 DEF NextEvent
  <2> QED BY <2>1, <1>4, <1>5, <1>8, <1>9, ChainGrows
<1>12. /\ t \in Seq(Events) /\ Len(t) = 3 /\ ChainOK(t)
       /\ t[3] = f /\ \A i \in DOMAIN u : t[i] = u[i]
       /\ \A i \in DOMAIN t : t[i].life <= crashes
  <2>1. NextEvent(u, f) BY <1>8, <1>11 DEF NextEvent
  <2> QED BY <2>1, <1>8, <1>10, <1>11, ChainGrows
<1>13. chain' = [chain EXCEPT ![o] = t]
  <2>1. s \o <<e, f>> = t BY <1>4, <1>8, <1>9, <1>10, <1>11, <1>12
  <2>2. chain' = [chain EXCEPT ![o] = s \o <<Event("OrderSubmitted", o, Len(s)),
                                             Event("OrderAccepted", o, Len(s) + 1)>>]
    BY <1>3 DEF Matched
  <2>3. Len(s) = 1 /\ Len(s) + 1 = 2 BY <1>4
  <2>4. chain' = [chain EXCEPT ![o] = s \o <<e, f>>] BY <2>2, <2>3, <1>6, <1>7, Zenon
  <2> QED BY <2>1, <2>4
<1>14. /\ chain' \in [Orders -> Seq(Events)] /\ chain'[o] = t
       /\ \A p \in Orders : p # o => chain'[p] = chain[p]
  BY <1>1, <1>12, <1>13 DEF TypeOK
<1>15. DOMAIN s = 1 .. 1 /\ DOMAIN u = 1 .. 2 /\ DOMAIN t = 1 .. 3
  BY <1>4, <1>11, <1>12, LenProperties
<1>16. TypeOK'
  <2>1. rehand \subseteq {p \in Orders : IsOpen(ToSet(chain'[p]))}
    BY <1>1, <1>4, <1>14 DEF TypeOK
  <2> QED BY <2>1, <1>1, <1>2, <1>14 DEF TypeOK
<1>17. Chains'
  <2>1. Sound(chain', crashes) BY <1>1, <1>12, <1>14 DEF Chains, Sound
  <2>2. up BY DEF Matched, Idle
  <2> QED BY <2>1, <2>2, <1>1, <1>2 DEF Chains
<1>18. Whole'
  <2> SUFFICES ASSUME crashes = 0 PROVE Whole' BY <1>2 DEF Whole
  <2>1. \A p \in Orders : \A i \in DOMAIN chain'[p] : i > 3 => chain'[p][i].kind = "OrderFilled"
    <3> TAKE p \in Orders
    <3>1. CASE p = o BY <3>1, <1>14, <1>15
    <3>2. CASE p # o BY <3>2, <1>1, <1>14 DEF Whole
    <3> QED BY <3>1, <3>2
  <2>2. \A p \in Orders : \E k \in 0 .. Len(chain'[p]) : BagToSet(stored[p]) = First(chain'[p], k)
    <3> TAKE p \in Orders
    <3>1. PICK k \in 0 .. Len(chain[p]) : BagToSet(stored[p]) = First(chain[p], k) BY <1>1 DEF Whole
    <3>2. CASE p # o BY <3>1, <3>2, <1>14
    <3>3. CASE p = o
      <4>1. k \in 0 .. 1 BY <3>1, <3>3, <1>3, <1>4
      <4>2. k \in 0 .. Len(t) BY <4>1, <1>12
      <4>3. First(t, k) = First(s, k)
        <5>1. \A i \in 1 .. k : i \in DOMAIN s /\ i \in DOMAIN u BY <4>1, <1>15
        <5> QED BY <5>1, <1>11, <1>12 DEF First
      <4> QED BY <4>2, <4>3, <3>1, <3>3, <1>3, <1>14
    <3> QED BY <3>2, <3>3
  <2> QED BY <2>1, <2>2, <1>1, <1>2 DEF Whole
<1>19. Behind'
  <2> SUFFICES ASSUME failures = 0 PROVE Behind' BY <1>2 DEF Behind
  <2>1. Holds(BagToSet(stored[o]), t)
    <3>1. s # <<>> BY <1>15
    <3>2. Holds(BagToSet(stored[o]), s) BY <3>1, <1>1, <1>3 DEF Behind
    <3>3. BagToSet(stored[o]) = Kept(s) BY <3>2, <1>4 DEF Holds
    <3>4. Kept(s) = {s[1]}
      <4>1. {j \in DOMAIN s : j <= 3 \/ s[j].kind = "OrderFilled"} = {1} BY <1>15
      <4> QED BY <4>1 DEF Kept
    <3>5. t[1] = s[1] BY <1>11, <1>12, <1>15
    <3> QED BY <3>3, <3>4, <3>5, <1>12 DEF Holds
  <2>2. \A p \in Orders : chain'[p] # <<>> => Holds(BagToSet(stored[p]), chain'[p])
    BY <2>1, <1>1, <1>14 DEF Behind
  <2>3. \A p \in Orders : chain'[p] = <<>> => chain[p] = <<>>
    <3>1. t # <<>> BY <1>15
    <3> QED BY <3>1, <1>14
  <2>4. \A p \in Orders : /\ snapshot.orders[p] # <<>> => Holds(BagToSet(stored[p]), snapshot.orders[p])
                          /\ up /\ chain[p] = <<>> => snapshot.orders[p] = <<>>
    BY <1>1 DEF Behind
  <2> QED BY <2>2, <2>3, <2>4, <1>2 DEF Behind
<1>20. HistoryReplays' /\ SnapshotMatchesHistory' /\ StoredOnce'
  BY <1>1, <1>2 DEF HistoryReplays, SnapshotMatchesHistory, StoredOnce
<1> QED BY <1>16, <1>17, <1>18, <1>19, <1>20 DEF Inv

LEMMA CapturePositionKeeps ==
  ASSUME Inv, CapturePosition
  PROVE  Inv'
<1>1. /\ TypeOK /\ Chains /\ Whole /\ Behind
      /\ HistoryReplays /\ SnapshotMatchesHistory /\ StoredOnce
  BY DEF Inv
<1>2. /\ up /\ up' = up /\ chain' = chain /\ rehand' = rehand /\ stored' = stored /\ crashes' = crashes
      /\ position' = due.position /\ due' = NotDue
  BY DEF CapturePosition
<1>3. /\ chain \in [Orders -> Seq(Events)] /\ crashes \in Nat /\ Sound(chain, crashes)
      /\ due \in [position : Nat, fill : Seq(Events)] /\ cycles \in Seq(SUBSET Events)
      /\ failures \in 0 .. MaxFailures /\ MaxFailures \in Nat
  BY <1>1, LedgerAssumption DEF TypeOK, Chains
<1>4. NotDue \in [position : Nat, fill : Seq(Events)]
  <2>1. <<>> \in Seq(Events) OBVIOUS
  <2> QED BY <2>1 DEF NotDue
<1>5. Whole' /\ StoredOnce' BY <1>1, <1>2 DEF Whole, StoredOnce
<1>6. CASE /\ cycles' = IF due.position = 0
                        THEN Append(cycles, ToSet(due.fill) \cap BagToSet(stored[due.fill[1].order]))
                        ELSE cycles
           /\ snapshot' = Book(chain, due.position)
           /\ UNCHANGED failures
  <2>1. cycles' \in Seq(SUBSET Events)
    <3>1. ToSet(due.fill) \cap BagToSet(stored[due.fill[1].order]) \in SUBSET Events
      <4>1. due.fill \in Seq(Events) BY <1>3
      <4>2. DOMAIN due.fill = 1 .. Len(due.fill) BY <4>1, LenProperties
      <4>3. ToSet(due.fill) \subseteq Events BY <4>1, <4>2, ElementOfSeq DEF ToSet
      <4> QED BY <4>3
    <3>2. PICK c : c = ToSet(due.fill) \cap BagToSet(stored[due.fill[1].order]) OBVIOUS
    <3>3. Append(cycles, c) \in Seq(SUBSET Events) BY <3>1, <3>2, <1>3, AppendProperties
    <3> QED BY <3>2, <3>3, <1>3, <1>6
  <2>2. PICK b : b = snapshot' OBVIOUS
  <2>3. due.position \in Nat BY <1>3
  <2>4. b = Book(chain, due.position) BY <2>2, <1>6
  <2>5. b \in [orders : [Orders -> Seq(Events)], position : Nat] BY <2>3, <2>4, <1>3, Booked
  <2>6. Sound(b.orders, crashes) BY <2>3, <2>4, <1>3, Booked
  <2>7. \A p \in Orders : b.orders[p] = chain[p] \/ b.orders[p] = <<>> BY <2>3, <2>4, <1>3, Booked
  <2>8. \A p \in Orders : b.orders[p] # <<>> => IsOpen(ToSet(b.orders[p])) BY <2>3, <2>4, <1>3, Booked
  <2>9. failures' = failures BY <1>6
  <2>10. TypeOK'
    <3>1. /\ up' \in BOOLEAN /\ chain' \in [Orders -> Seq(Events)]
          /\ stored' = [p \in Orders |-> stored'[p]]
          /\ \A p \in Orders : IsABag(stored'[p]) /\ BagToSet(stored'[p]) \subseteq Events
          /\ rehand' \subseteq {p \in Orders : IsOpen(ToSet(chain'[p]))}
          /\ crashes' \in 0 .. MaxCrashes /\ failures' \in 0 .. MaxFailures
      BY <1>1, <1>2, <2>9 DEF TypeOK
    <3>2. position' \in Nat /\ due' \in [position : Nat, fill : Seq(Events)]
      BY <1>2, <1>4, <2>3
    <3> QED BY <3>1, <3>2, <2>1, <2>2, <2>5 DEF TypeOK
  <2>11. Chains'
    <3>1. Sound(chain', crashes') /\ (~up' => \A p \in Orders : chain'[p] = <<>>) BY <1>2, <1>3
    <3>2. Sound(snapshot'.orders, crashes') BY <1>2, <2>2, <2>6
    <3>3. \A p \in Orders : snapshot'.orders[p] # <<>> => IsOpen(ToSet(snapshot'.orders[p])) BY <2>2, <2>8
    <3> QED BY <3>1, <3>2, <3>3 DEF Chains
  <2>12. Behind'
    <3> SUFFICES ASSUME failures = 0 PROVE Behind' BY <2>9 DEF Behind
    <3>1. \A p \in Orders : chain[p] # <<>> => Holds(BagToSet(stored[p]), chain[p]) BY <1>1 DEF Behind
    <3>2. \A p \in Orders : b.orders[p] # <<>> => Holds(BagToSet(stored[p]), b.orders[p]) BY <3>1, <2>7
    <3>3. \A p \in Orders : chain[p] = <<>> => b.orders[p] = <<>> BY <2>7
    <3> QED BY <3>1, <3>2, <3>3, <1>2, <2>2 DEF Behind
  <2>13. HistoryReplays' BY <1>1, <1>2, <2>9 DEF HistoryReplays
  <2>14. SnapshotMatchesHistory'
    <3> SUFFICES ASSUME failures = 0, NEW p \in Orders, IsOpen(BagToSet(stored[p]))
                 PROVE  Fills(ToSet(b.orders[p])) = Fills(BagToSet(stored[p]))
      BY <1>2, <2>2, <2>9 DEF SnapshotMatchesHistory
    <3>1. CASE chain[p] # <<>>
      <4>1. Holds(BagToSet(stored[p]), chain[p]) BY <3>1, <1>1 DEF Behind
      <4> QED BY <3>1, <4>1, <2>3, <2>4, <1>3, BookAgrees
    <3>2. CASE chain[p] = <<>>
      <4>1. snapshot.orders[p] = <<>> /\ b.orders[p] = <<>> BY <3>2, <2>7, <1>1, <1>2 DEF Behind
      <4> QED BY <4>1, <1>1 DEF SnapshotMatchesHistory
    <3> QED BY <3>1, <3>2
  <2> QED BY <2>10, <2>11, <2>12, <2>13, <2>14, <1>5 DEF Inv
<1>7. CASE failures < MaxFailures /\ failures' = failures + 1 /\ UNCHANGED <<cycles, snapshot>>
  <2>1. failures' \in 0 .. MaxFailures /\ failures' # 0 /\ cycles' = cycles /\ snapshot' = snapshot
    BY <1>3, <1>7
  <2>2. position' \in Nat /\ due' \in [position : Nat, fill : Seq(Events)] BY <1>2, <1>3, <1>4
  <2>3. TypeOK' BY <2>1, <2>2, <1>1, <1>2 DEF TypeOK
  <2>4. Chains' BY <2>1, <1>1, <1>2 DEF Chains
  <2>5. Behind' /\ SnapshotMatchesHistory' BY <2>1 DEF Behind, SnapshotMatchesHistory
  <2>6. HistoryReplays' BY <2>1, <1>1, <1>2 DEF HistoryReplays
  <2> QED BY <2>3, <2>4, <2>5, <2>6, <1>5 DEF Inv
<1> QED BY <1>6, <1>7 DEF CapturePosition

LEMMA CrashKeeps ==
  ASSUME Inv, Crash
  PROVE  Inv'
<1>1. /\ TypeOK /\ Chains /\ Whole /\ Behind
      /\ HistoryReplays /\ SnapshotMatchesHistory /\ StoredOnce
  BY DEF Inv
<1>2. /\ up' = FALSE /\ crashes < MaxCrashes /\ crashes' = crashes + 1
      /\ chain' = [p \in Orders |-> <<>>] /\ position' = 0 /\ due' = NotDue /\ rehand' = {}
      /\ stored' = stored /\ snapshot' = snapshot /\ cycles' = cycles /\ failures' = failures
  BY DEF Crash
<1>3. crashes \in 0 .. MaxCrashes /\ MaxCrashes \in Nat BY <1>1, LedgerAssumption DEF TypeOK
<1>4. crashes' \in 0 .. MaxCrashes /\ crashes' # 0 /\ crashes <= crashes' BY <1>2, <1>3
<1>5. <<>> \in Seq(Events) /\ ChainOK(<<>>) BY DEF ChainOK
<1>6. /\ chain' \in [Orders -> Seq(Events)] /\ \A p \in Orders : chain'[p] = <<>>
      /\ NotDue \in [position : Nat, fill : Seq(Events)]
  BY <1>2, <1>5 DEF NotDue
<1>7. TypeOK' BY <1>1, <1>2, <1>4, <1>6 DEF TypeOK
<1>8. Chains'
  <2>1. Sound(chain', crashes') BY <1>5, <1>6 DEF Sound
  <2>2. Sound(snapshot.orders, crashes')
    <3> SUFFICES ASSUME NEW p \in Orders, NEW i \in DOMAIN snapshot.orders[p]
                 PROVE  snapshot.orders[p][i].life <= crashes'
      BY <1>1 DEF Chains, Sound
    <3>1. snapshot.orders[p] \in Seq(Events) BY <1>1 DEF TypeOK
    <3>2. snapshot.orders[p][i] \in Events BY <3>1, LenProperties, ElementOfSeq
    <3>3. snapshot.orders[p][i].life \in 0 .. MaxCrashes BY <3>2 DEF Events
    <3>4. snapshot.orders[p][i].life <= crashes BY <1>1 DEF Chains, Sound
    <3> QED BY <3>3, <3>4, <1>3, <1>4
  <2> QED BY <2>1, <2>2, <1>1, <1>2, <1>6 DEF Chains
<1>9. Whole' BY <1>4 DEF Whole
<1>10. Behind' BY <1>1, <1>2, <1>6 DEF Behind
<1>11. HistoryReplays' BY <1>1, <1>2, <1>4 DEF HistoryReplays
<1>12. SnapshotMatchesHistory' /\ StoredOnce'
  BY <1>1, <1>2 DEF SnapshotMatchesHistory, StoredOnce
<1> QED BY <1>7, <1>8, <1>9, <1>10, <1>11, <1>12 DEF Inv

LEMMA RestoreKeeps ==
  ASSUME Inv, Restore
  PROVE  Inv'
<1>1. /\ TypeOK /\ Chains /\ Whole /\ Behind
      /\ HistoryReplays /\ SnapshotMatchesHistory /\ StoredOnce
  BY DEF Inv
<1>2. /\ ~up /\ up' = TRUE /\ chain' = snapshot.orders /\ position' = snapshot.position
      /\ rehand' = {o \in Orders : snapshot.orders[o] # <<>>}
      /\ due' = due /\ stored' = stored /\ snapshot' = snapshot /\ cycles' = cycles
      /\ crashes' = crashes /\ failures' = failures
  BY DEF Restore
<1>3. snapshot.orders \in [Orders -> Seq(Events)] /\ snapshot.position \in Nat
  BY <1>1 DEF TypeOK
<1>4. rehand' \subseteq {o \in Orders : IsOpen(ToSet(chain'[o]))}
  BY <1>1, <1>2 DEF Chains
<1>5. TypeOK' BY <1>1, <1>2, <1>3, <1>4 DEF TypeOK
<1>6. Chains' BY <1>1, <1>2 DEF Chains
<1>7. Whole' BY <1>1, <1>2 DEF Whole
<1>8. Behind' BY <1>1, <1>2 DEF Behind
<1>9. HistoryReplays' /\ SnapshotMatchesHistory' /\ StoredOnce'
  BY <1>1, <1>2 DEF HistoryReplays, SnapshotMatchesHistory, StoredOnce
<1> QED BY <1>5, <1>6, <1>7, <1>8, <1>9 DEF Inv

LEMMA InitInv == ASSUME Init PROVE Inv
<1>1. PICK c : c = [o \in Orders |-> <<>>] OBVIOUS
<1>2. /\ up = TRUE /\ chain = c /\ position = 0 /\ due = NotDue /\ rehand = {}
      /\ stored = [o \in Orders |-> EmptyBag] /\ snapshot = Book(c, 0) /\ cycles = <<>>
      /\ crashes = 0 /\ failures = 0
  BY <1>1 DEF Init
<1>3. <<>> \in Seq(Events) /\ ChainOK(<<>>) BY DEF ChainOK
<1>4. c \in [Orders -> Seq(Events)] /\ Sound(c, 0) /\ \A o \in Orders : c[o] = <<>>
  BY <1>1, <1>3 DEF Sound
<1>5. EmptyBag = [e \in {} |-> 1] /\ BagToSet(EmptyBag) = {} BY DEF EmptyBag, SetToBag, BagToSet
<1>6. IsABag(EmptyBag) BY <1>5 DEF IsABag
<1>7. \A o \in Orders : stored[o] = EmptyBag BY <1>2
<1>8. snapshot \in [orders : [Orders -> Seq(Events)], position : Nat] BY <1>2, <1>4, Booked
<1>9. Sound(snapshot.orders, 0) BY <1>2, <1>4, Booked
<1>10. \A o \in Orders : snapshot.orders[o] = <<>>
  <2>1. \A o \in Orders : snapshot.orders[o] = c[o] \/ snapshot.orders[o] = <<>> BY <1>2, <1>4, Booked
  <2> QED BY <2>1, <1>4
<1>11. TypeOK
  <2>1. NotDue \in [position : Nat, fill : Seq(Events)] BY <1>3 DEF NotDue
  <2>2. cycles \in Seq(SUBSET Events) BY <1>2
  <2>3. crashes \in 0 .. MaxCrashes /\ failures \in 0 .. MaxFailures BY <1>2, LedgerAssumption
  <2>4. stored = [o \in Orders |-> stored[o]] BY <1>2
  <2> QED BY <2>1, <2>2, <2>3, <2>4, <1>2, <1>4, <1>5, <1>6, <1>7, <1>8 DEF TypeOK
<1>12. Chains BY <1>2, <1>4, <1>9, <1>10 DEF Chains
<1>13. Whole
  <2>1. \A o \in Orders : BagToSet(stored[o]) = First(chain[o], 0) /\ 0 \in 0 .. Len(chain[o])
    <3>1. \A s : First(s, 0) = {} BY DEF First
    <3> QED BY <3>1, <1>2, <1>4, <1>5, <1>7
  <2> QED BY <2>1, <1>2, <1>4 DEF Whole
<1>14. Behind BY <1>2, <1>4, <1>10 DEF Behind
<1>15. HistoryReplays BY <1>5, <1>7 DEF HistoryReplays, Replays
<1>16. SnapshotMatchesHistory BY <1>5, <1>7 DEF SnapshotMatchesHistory, IsOpen, Kinds
<1>17. StoredOnce BY <1>5, <1>7 DEF StoredOnce
<1> QED BY <1>11, <1>12, <1>13, <1>14, <1>15, <1>16, <1>17 DEF Inv

LEMMA StepInv == ASSUME Inv, [Next]_vars PROVE Inv'
<1>1. ASSUME NEW o \in Orders, HandToNode(o) PROVE Inv' BY <1>1, HandToNodeKeeps
<1>2. ASSUME NEW o \in Orders, Submitted(o) PROVE Inv' BY <1>2, SubmittedKeeps
<1>3. ASSUME NEW o \in Orders, Accepted(o) PROVE Inv' BY <1>3, AcceptedKeeps
<1>4. ASSUME NEW o \in Orders, Matched(o) PROVE Inv' BY <1>4, MatchedKeeps
<1>5. ASSUME NEW o \in Orders, Fill(o) PROVE Inv' BY <1>5, FillKeeps
<1>6. ASSUME NEW o \in Orders, Reaccepted(o) PROVE Inv' BY <1>6, ReacceptedKeeps
<1>7. CASE CapturePosition BY <1>7, CapturePositionKeeps
<1>8. CASE Crash BY <1>8, CrashKeeps
<1>9. CASE Restore BY <1>9, RestoreKeeps
<1>10. CASE UNCHANGED vars
  <2>1. /\ up' = up /\ chain' = chain /\ position' = position /\ due' = due /\ rehand' = rehand
        /\ stored' = stored /\ snapshot' = snapshot /\ cycles' = cycles /\ crashes' = crashes
        /\ failures' = failures
    BY <1>10 DEF vars
  <2>2. TypeOK' /\ Chains' /\ Whole' /\ Behind' BY <2>1 DEF Inv, TypeOK, Chains, Whole, Behind
  <2>3. HistoryReplays' /\ SnapshotMatchesHistory' /\ StoredOnce'
    BY <2>1 DEF Inv, HistoryReplays, SnapshotMatchesHistory, StoredOnce
  <2> QED BY <2>2, <2>3 DEF Inv
<1> QED BY <1>1, <1>2, <1>3, <1>4, <1>5, <1>6, <1>7, <1>8, <1>9, <1>10 DEF Next

LEMMA Invariance == Spec => []Inv
BY InitInv, StepInv, PTL DEF Spec

-------------------------------------------------------------------------------
(* What follows of it *)

\* The variables have their types; of the rows that each order's are a bag of its
\* events, and of rehand that only open orders are handed back.
THEOREM Typing == Spec => []TypeOK
<1>1. Inv => TypeOK BY DEF Inv
<1> QED BY <1>1, Invariance, PTL

\* Whatever the sandbox publishes, which units fail or where the node dies, the
\* rows of an order are a history OrderAny::from_events replays, short of a failed
\* unit and a restoration together.
THEOREM HistoryRebuilt == Spec => []HistoryReplays
<1>1. Inv => HistoryReplays BY DEF Inv
<1> QED BY <1>1, Invariance, PTL

\* The book a restart reads has the fills the history has of every open order.
THEOREM BookMatches == Spec => []SnapshotMatchesHistory
<1>1. Inv => SnapshotMatchesHistory BY DEF Inv
<1> QED BY <1>1, Invariance, PTL

\* However often an order's chain is captured again, no event is stored twice, and
\* so no trade has two fills rows: failures and restorations together included.
THEOREM EventsStoredOnce == Spec => []StoredOnce
<1>1. Inv => StoredOnce BY DEF Inv
<1> QED BY <1>1, Invariance, PTL
===============================================================================
