------------------------------ MODULE TailProofs -------------------------------
(***************************************************************************)
(* What is proved of EventTail, for any clients, instants and bounds       *)
(***************************************************************************)
EXTENDS EventTail, SequenceTheorems, FiniteSetTheorems, WellFoundedInduction, TLAPS

-------------------------------------------------------------------------------
(* Pages *)

\* A set of numbers has a least one, which is its Min.
LEMMA Least ==
  ASSUME NEW S \in SUBSET Nat, S # {}
  PROVE  Min(S) \in S /\ \A y \in S : Min(S) <= y
<1> DEFINE R == {ss \in Nat \X Nat : ss[1] < ss[2]}
<1>0. IsWellFoundedOn(R, Nat) BY NatLessThanWellFounded DEF OpToRel
<1> HIDE DEF R
<1>1. PICK x \in S : \A y \in S : ~(<<y, x>> \in R) BY <1>0, WFMin
<1>2. \A y \in Nat, z \in Nat : y < z => <<y, z>> \in R BY DEF R
<1>3. ASSUME NEW y \in S PROVE x <= y
  <2>1. y \in Nat /\ x \in Nat OBVIOUS
  <2>2. ~(y < x) BY <1>1, <1>2, <2>1
  <2> QED BY <2>1, <2>2
<1> QED BY <1>3 DEF Min

\* A bounded set of numbers has a greatest one.
LEMMA Greatest ==
  ASSUME NEW n \in Nat, NEW S \in SUBSET (0 .. n), S # {}
  PROVE  \E x \in S : \A y \in S : y <= x
<1> DEFINE D == {n - y : y \in S}
<1>1. D \in SUBSET Nat /\ D # {}
  <2>1. ASSUME NEW y \in S PROVE n - y \in Nat
    <3>1. y \in Nat /\ y <= n OBVIOUS
    <3> QED BY <3>1
  <2> QED BY <2>1
<1>2. PICK d \in D : \A e \in D : d <= e BY <1>1, Least
<1>3. PICK x \in S : d = n - x OBVIOUS
<1>4. ASSUME NEW y \in S PROVE y <= x
  <2>1. n - y \in D OBVIOUS
  <2>2. n - x <= n - y BY <1>2, <1>3, <2>1
  <2>3. x \in 0 .. n /\ y \in 0 .. n OBVIOUS
  <2> QED BY <2>2, <2>3
<1> QED BY <1>4

LEMMA RowsFinite ==
  ASSUME NEW S \in SUBSET Rows
  PROVE  IsFiniteSet(S) /\ Cardinality(S) \in Nat
<1>1. IsFiniteSet(Rows)
  <2>1. 1 \in Int /\ MaxInstant \in Int BY TailAssumption
  <2> QED BY <2>1, FS_Interval DEF Rows
<1> QED BY <1>1, FS_Subset, FS_CardinalityType

\* What a page holds: the rows behind a position up to some row, all of them when it is
\* short, and no more than Page.
LEMMA PageFacts ==
  ASSUME NEW after \in Nat, NEW among \in SUBSET Rows
  PROVE  LET p == PageOf(after, among) IN
         /\ p \subseteq among /\ \A r \in p : after < r
         /\ \A r \in p, s \in among : after < s /\ s <= r => s \in p
         /\ Cardinality(p) < Page => \A r \in among : after < r => r \in p
         /\ Cardinality(p) <= Page
<1> DEFINE Ahead(r) == {s \in among : after < s /\ s < r}
<1>1. PICK p : p = PageOf(after, among) OBVIOUS
<1>2. p = {r \in among : after < r /\ Cardinality(Ahead(r)) < Page} BY <1>1 DEF PageOf
<1>3. among \subseteq Nat /\ Page \in Nat \ {0} BY TailAssumption DEF Rows
<1>4. \A r : IsFiniteSet(Ahead(r)) /\ Cardinality(Ahead(r)) \in Nat
  <2> TAKE r
  <2>1. Ahead(r) \in SUBSET Rows OBVIOUS
  <2> QED BY <2>1, RowsFinite
<1>5. p \in SUBSET Rows /\ IsFiniteSet(p) /\ Cardinality(p) \in Nat BY <1>2, RowsFinite
<1> HIDE DEF Ahead
<1>6. ASSUME NEW r \in p, NEW s \in among, after < s, s <= r PROVE s \in p
  <2>1. r \in Nat /\ s \in Nat /\ r \in among BY <1>2, <1>3
  <2>2. Ahead(s) \in SUBSET Ahead(r)
    <3> USE DEF Ahead
    <3> SUFFICES ASSUME NEW x \in Ahead(s) PROVE x \in Ahead(r) OBVIOUS
    <3>1. x \in among /\ x \in Nat /\ after < x /\ x < s BY <1>3
    <3> QED BY <1>6, <2>1, <3>1
  <2>3. Cardinality(Ahead(s)) <= Cardinality(Ahead(r)) BY <1>4, <2>2, FS_Subset
  <2>4. Cardinality(Ahead(r)) < Page BY <1>2
  <2>5. Cardinality(Ahead(s)) < Page BY <1>3, <1>4, <2>3, <2>4
  <2> QED BY <1>2, <1>6, <2>5
<1>7. ASSUME Cardinality(p) < Page, NEW r \in among, after < r PROVE r \in p
  <2> DEFINE M == {s \in among : after < s /\ s \notin p}
  <2>1. SUFFICES ASSUME M # {} PROVE FALSE BY <1>7
  <2>2. M \in SUBSET Nat BY <1>3
  <2>3. PICK m \in M : \A s \in M : m <= s BY <2>1, <2>2, Least
  <2>4. Ahead(m) \subseteq p
    <3> USE DEF Ahead
    <3> SUFFICES ASSUME NEW s \in Ahead(m) PROVE s \in p OBVIOUS
    <3>1. s \in among /\ after < s /\ s < m /\ s \in Nat /\ m \in Nat BY <1>3
    <3>2. ~(m <= s) BY <3>1
    <3> QED BY <2>3, <3>1, <3>2
  <2>5. Cardinality(Ahead(m)) <= Cardinality(p) BY <1>5, <2>4, FS_Subset
  <2>6. Cardinality(Ahead(m)) < Page BY <1>3, <1>4, <1>5, <1>7, <2>5
  <2> QED BY <1>2, <2>3, <2>6
<1>8. Cardinality(p) <= Page
  <2>1. CASE p = {} BY <1>3, <2>1, FS_EmptySet
  <2>2. CASE p # {}
    <3>1. p \in SUBSET (0 .. MaxInstant) /\ MaxInstant \in Nat BY <1>5, TailAssumption DEF Rows
    <3>2. PICK m \in p : \A s \in p : s <= m BY <2>2, <3>1, Greatest
    <3>3. p \ {m} \in SUBSET Ahead(m)
      <4> USE DEF Ahead
      <4> SUFFICES ASSUME NEW s \in p, s # m PROVE s \in Ahead(m) OBVIOUS
      <4>1. s \in among /\ after < s BY <1>2
      <4>2. s <= m /\ s \in Nat /\ m \in Nat BY <1>2, <1>3, <3>2
      <4>3. s < m BY <4>2
      <4> QED BY <4>1, <4>3
    <3>4. Cardinality(p \ {m}) <= Cardinality(Ahead(m)) BY <1>4, <3>3, FS_Subset
    <3>5. Cardinality(p \ {m}) = Cardinality(p) - 1 BY <1>5, FS_RemoveElement
    <3>6. Cardinality(Ahead(m)) < Page BY <1>2
    <3> QED BY <1>3, <1>4, <1>5, <3>4, <3>5, <3>6
  <2> QED BY <2>1, <2>2
<1>9. \A r \in p : after < r BY <1>2
<1>10. p \subseteq among BY <1>2
<1> QED BY <1>1, <1>6, <1>7, <1>8, <1>9, <1>10
-------------------------------------------------------------------------------
(* Frames one behind the other: on a socket's wire, and in its queue. *)

Spots  == {None} \cup Rows
Events == [kind : {"event"}, at : Rows]
Frames == [kind : {"event", "tail", "start"}, at : Rows] \cup {Frame("close", None)}

\* A frame goes on from a position: an event of the rows T leaves out none of them, the
\* tail none at all; only a start may.
Follows(T, lo, f) ==
  /\ lo <= f.at /\ (f.kind = "event" => lo < f.at)
  /\ f.kind # "start" => \A r \in T : lo < r /\ r <= f.at => f.kind = "event" /\ r = f.at

Before(lo, s, i) == IF i = 1 THEN lo ELSE s[i - 1].at
End(lo, s)       == IF Len(s) = 0 THEN lo ELSE s[Len(s)].at

\* From position lo on, up to top: each frame goes on from the one before it, and the
\* close is the last one.
Chain(T, lo, s, top) ==
  \A i \in 1 .. Len(s) :
    IF s[i].kind = "close" THEN i = Len(s) ELSE Follows(T, Before(lo, s, i), s[i]) /\ s[i].at <= top

Unclosed(s) == \A i \in 1 .. Len(s) : s[i].kind # "close"

LEMMA FrameFacts ==
  /\ Events \subseteq Frames /\ Rows \subseteq Nat /\ Spots \subseteq Nat /\ Rows \subseteq Spots /\ None \in Spots
  /\ \A f \in Frames : f.at \in Spots /\ (f.kind # "close" => f.at \in Rows)
  /\ \A f \in Events : f.kind = "event" /\ f.at \in Rows
BY DEF Events, Frames, Rows, Spots, None, Frame

LEMMA ChainEmpty ==
  ASSUME NEW T, NEW lo, NEW top
  PROVE  Chain(T, lo, <<>>, top) /\ Unclosed(<<>>) /\ End(lo, <<>>) = lo
<1>1. Len(<<>>) = 0 OBVIOUS
<1>2. 1 .. 0 = {} OBVIOUS
<1> QED BY <1>1, <1>2 DEF Chain, Unclosed, End

LEMMA ChainAppend ==
  ASSUME NEW T, NEW lo, NEW top, NEW s \in Seq(Frames), NEW f \in Frames,
         Chain(T, lo, s, top), Unclosed(s),
         f.kind # "close" => Follows(T, End(lo, s), f) /\ f.at <= top
  PROVE  /\ Chain(T, lo, Append(s, f), top)
         /\ f.kind # "close" => Unclosed(Append(s, f)) /\ End(lo, Append(s, f)) = f.at
<1>1. PICK u : u = Append(s, f) OBVIOUS
<1>2. PICK n \in Nat : n = Len(s) BY LenProperties
<1>3. Len(u) = n + 1 /\ (\A i \in 1 .. n : u[i] = s[i]) /\ u[n + 1] = f
  BY <1>1, <1>2, AppendProperties
<1>4. \A i \in 1 .. n : Before(lo, u, i) = Before(lo, s, i) BY <1>2, <1>3 DEF Before
<1>5. Before(lo, u, n + 1) = End(lo, s)
  <2>1. CASE n = 0 BY <1>2, <2>1 DEF Before, End
  <2>2. CASE n # 0
    <3>1. n + 1 # 1 /\ (n + 1) - 1 = n /\ n \in 1 .. n BY <2>2
    <3> QED BY <1>2, <1>3, <2>2, <3>1 DEF Before, End
  <2> QED BY <2>1, <2>2
<1>6. ASSUME NEW i \in 1 .. n
      PROVE  u[i].kind # "close" /\ Follows(T, Before(lo, u, i), u[i]) /\ u[i].at <= top
  BY <1>2, <1>3, <1>4 DEF Chain, Unclosed
<1>7. \A i \in 1 .. n + 1 : i \in 1 .. n \/ i = n + 1 OBVIOUS
<1>8. Chain(T, lo, u, top) BY <1>3, <1>5, <1>6, <1>7 DEF Chain
<1>9. f.kind # "close" => Unclosed(u) BY <1>3, <1>6, <1>7 DEF Unclosed
<1>10. End(lo, u) = f.at
  <2>1. n + 1 # 0 OBVIOUS
  <2> QED BY <1>3, <2>1 DEF End
<1> QED BY <1>1, <1>8, <1>9, <1>10

LEMMA ChainTail ==
  ASSUME NEW T, NEW lo, NEW top, NEW s \in Seq(Frames), s # <<>>, Chain(T, lo, s, top)
  PROVE  /\ Head(s) \in Frames /\ Tail(s) \in Seq(Frames)
         /\ Head(s).kind = "close" => Tail(s) = <<>>
         /\ Head(s).kind # "close" =>
              /\ Follows(T, lo, Head(s)) /\ Head(s).at <= top
              /\ Chain(T, Head(s).at, Tail(s), top)
              /\ End(Head(s).at, Tail(s)) = End(lo, s)
         /\ Unclosed(s) => Unclosed(Tail(s)) /\ Head(s).kind # "close"
<1>1. PICK u : u = Tail(s) OBVIOUS
<1>2. PICK n \in Nat : n = Len(s) BY LenProperties
<1>3. /\ n # 0 /\ Head(s) = s[1] /\ Head(s) \in Frames /\ u \in Seq(Frames) /\ Len(u) = n - 1
      /\ \A i \in 1 .. n - 1 : u[i] = s[i + 1]
  <2>1. n # 0 BY <1>2, EmptySeq
  <2>2. Head(s) = s[1] OBVIOUS
  <2>3. Head(s) \in Frames /\ u \in Seq(Frames) /\ Len(u) = n - 1 /\ \A i \in 1 .. Len(u) : u[i] = s[i + 1]
    BY <1>1, <1>2, HeadTailProperties
  <2> QED BY <2>1, <2>2, <2>3
<1>4. 1 \in 1 .. n BY <1>3
<1>5. CASE s[1].kind = "close"
  <2>1. n = 1 BY <1>2, <1>4, <1>5 DEF Chain
  <2>2. Len(u) = 0 BY <1>3, <2>1
  <2>3. u = <<>> BY <1>3, <2>2, EmptySeq
  <2>4. ~Unclosed(s) BY <1>2, <1>4, <1>5 DEF Unclosed
  <2> QED BY <1>1, <1>3, <1>5, <2>3, <2>4
<1>6. CASE s[1].kind # "close"
  <2>1. Follows(T, lo, s[1]) /\ s[1].at <= top BY <1>2, <1>4, <1>6 DEF Chain, Before
  <2>2. PICK b : b = s[1].at OBVIOUS
  <2>3. ASSUME NEW i \in 1 .. n - 1
        PROVE  i + 1 \in 1 .. n /\ u[i] = s[i + 1] /\ Before(b, u, i) = Before(lo, s, i + 1)
               /\ (i = n - 1 <=> i + 1 = n)
    <3>1. i \in Nat /\ i + 1 \in 1 .. n /\ i + 1 # 1 /\ (i + 1) - 1 = i /\ (i = n - 1 <=> i + 1 = n) OBVIOUS
    <3>2. CASE i = 1 BY <1>3, <2>2, <3>1, <3>2 DEF Before
    <3>3. CASE i # 1
      <4>1. i - 1 \in 1 .. n - 1 /\ (i - 1) + 1 = i BY <3>1, <3>3
      <4>2. u[i - 1] = s[i] BY <1>3, <4>1
      <4> QED BY <1>3, <3>1, <3>3, <4>2 DEF Before
    <3> QED BY <3>2, <3>3
  <2>4. Chain(T, b, u, top)
    <3> SUFFICES ASSUME NEW i \in 1 .. n - 1
                 PROVE  IF u[i].kind = "close" THEN i = n - 1
                        ELSE Follows(T, Before(b, u, i), u[i]) /\ u[i].at <= top
      BY <1>3 DEF Chain
    <3>1. IF s[i + 1].kind = "close" THEN i + 1 = n
          ELSE Follows(T, Before(lo, s, i + 1), s[i + 1]) /\ s[i + 1].at <= top
      BY <1>2, <2>3 DEF Chain
    <3> QED BY <2>3, <3>1
  <2>5. End(b, u) = End(lo, s)
    <3>1. CASE n = 1 BY <1>2, <1>3, <2>2, <3>1 DEF End
    <3>2. CASE n # 1
      <4>1. n - 1 # 0 /\ n - 1 \in 1 .. n - 1 /\ (n - 1) + 1 = n BY <1>3, <3>2
      <4> QED BY <1>2, <1>3, <4>1 DEF End
    <3> QED BY <3>1, <3>2
  <2>6. Unclosed(s) => Unclosed(u) BY <1>2, <1>3, <2>3 DEF Unclosed
  <2> QED BY <1>1, <1>3, <1>6, <2>1, <2>2, <2>4, <2>5, <2>6
<1> QED BY <1>5, <1>6

\* A chain remains one when rows are deleted or are new beyond it.
LEMMA ChainKept ==
  ASSUME NEW T, NEW U, NEW lo, NEW s \in Seq(Frames), NEW top \in Nat, NEW up \in Nat, top <= up,
         \A r \in U : r \in Nat /\ (r \in T \/ top < r), Chain(T, lo, s, top)
  PROVE  Chain(U, lo, s, up)
<1> SUFFICES ASSUME NEW i \in 1 .. Len(s), s[i].kind # "close"
             PROVE  Follows(U, Before(lo, s, i), s[i]) /\ s[i].at <= up
  BY DEF Chain
<1>1. Follows(T, Before(lo, s, i), s[i]) /\ s[i].at <= top BY DEF Chain
<1>2. s[i].at \in Nat
  <2>1. s[i] \in Frames BY ElementOfSeq
  <2> QED BY <2>1, FrameFacts
<1>3. ASSUME NEW r \in U, r <= s[i].at PROVE r \in T
  <2>1. ~(top < r) BY <1>1, <1>2, <1>3
  <2> QED BY <2>1
<1>4. s[i].at <= up BY <1>1, <1>2
<1> QED BY <1>1, <1>3, <1>4 DEF Follows
-------------------------------------------------------------------------------
(* The invariant *)

Subs  == [open : BOOLEAN, queue : Seq(Events)]
Conns == [pc : {"closed", "hello", "subscribe", "replay", "send", "tail", "live"},
          after : Spots, tail : Spots, at : Spots, batch : SUBSET Rows, short : BOOLEAN]
Streaming(c) == conn[c].pc \in {"replay", "send", "tail", "live"}

StoreOK ==
  /\ clock \in Rows /\ units \subseteq Rows /\ rows \subseteq Rows /\ late \subseteq Rows
  /\ cursor \in Rows /\ page \subseteq Rows /\ Cardinality(page) <= Page /\ pushing \in BOOLEAN
TablesOK ==
  /\ sub \in [Clients -> Subs] /\ conn \in [Clients -> Conns] /\ wire \in [Clients -> Seq(Frames)]
  /\ client \in [Clients -> Spots] /\ seen \in [Clients -> Seq(Rows)] /\ base \in [Clients -> Rows]

\* the events that are owed to somebody who is behind them
Told == rows \ late

\* No unit waits with an instant that was published or is about to be, and none is ahead
\* of the clock.
Instants ==
  /\ units \cap (rows \cup page \cup {cursor}) = {}
  /\ \A t \in rows \cup units \cup page \cup {cursor} : t <= clock

\* A page goes on from the cursor and leaves out nothing up to its end.
Paged == \A p \in page : cursor < p /\ \A r \in Told : cursor < r /\ r <= p => r \in page

\* where the last frame on the way leaves the client, and where the queue goes on from
Reach(c) == End(client[c], wire[c])
From(c)  == IF At(c, "live") THEN Reach(c) ELSE conn[c].tail

Fits(c) ==
  /\ Len(sub[c].queue) <= Queue /\ Len(wire[c]) <= Wire
  /\ conn[c].pc = "send" <=> conn[c].batch # {}
  /\ Streaming(c) => conn[c].tail \in Rows

\* The events s come in order and end at `at`; behind `from`, none of T is left out.
UpTo(T, from, s, at) ==
  /\ \A i \in 1 .. Len(s) : s[i] <= at
  /\ \A i, j \in 1 .. Len(s) : i < j => s[i] < s[j]
  /\ \A r \in T : from < r /\ r <= at => \E i \in 1 .. Len(s) : s[i] = r

\* A client has handled, in order, all that is told up to where it is.
Handled(c) == client[c] <= cursor /\ UpTo(Told, base[c], seen[c], client[c])

Wired(c) ==
  /\ Chain(Told, client[c], wire[c], cursor)
  /\ ~At(c, "closed") => Unclosed(wire[c])

\* A socket's task: before its subscription nothing was sent; a replay goes on from what
\* was sent last, and the tail follows when it is through.
Tasked(c) ==
  /\ ~Streaming(c) => sub[c] = NoSub
  /\ conn[c].pc \in {"hello", "subscribe"} => wire[c] = <<>> /\ conn[c].after \in {client[c], None}
  /\ Streaming(c) => conn[c].tail <= cursor
  /\ conn[c].pc \in {"replay", "send"} => Reach(c) = conn[c].at /\ conn[c].at <= conn[c].tail
  /\ conn[c].pc = "send" =>
       /\ \A b \in conn[c].batch : conn[c].at < b /\ b <= conn[c].tail
       /\ \A r \in Told : conn[c].at < r /\ r <= conn[c].tail =>
            r \in conn[c].batch \/ (~conn[c].short /\ \A b \in conn[c].batch : b < r)
  /\ conn[c].pc = "tail" =>
       Follows(Told, Reach(c), Frame(IF conn[c].after = None THEN "start" ELSE "tail", conn[c].tail))

\* The queue goes on from the tail, and up to the cursor while its sender is held.
Queued(c) ==
  /\ Chain(Told, From(c), sub[c].queue, cursor)
  /\ sub[c].open => \A r \in Told : End(From(c), sub[c].queue) < r => cursor < r

Served(c) == Fits(c) /\ Handled(c) /\ Wired(c) /\ Tasked(c) /\ Queued(c)

Inv == StoreOK /\ TablesOK /\ Instants /\ Paged /\ \A c \in Clients : Served(c)

-------------------------------------------------------------------------------
(* Who a step leaves alone *)

Same(c) ==
  /\ sub'[c] = sub[c] /\ conn'[c] = conn[c] /\ wire'[c] = wire[c]
  /\ client'[c] = client[c] /\ seen'[c] = seen[c] /\ base'[c] = base[c]
Still == UNCHANGED <<clock, units, rows, late, cursor, page, pushing>>

LEMMA EventChain == ASSUME NEW s \in Seq(Events) PROVE s \in Seq(Frames) /\ Unclosed(s)
<1>1. \A i \in 1 .. Len(s) : s[i] \in Events /\ s[i].kind = "event" BY FrameFacts, ElementOfSeq
<1>2. s \in [1 .. Len(s) -> Frames] /\ Len(s) \in Nat
  <2>1. s \in [1 .. Len(s) -> Events] /\ Len(s) \in Nat BY LenProperties
  <2> QED BY <2>1, FrameFacts
<1>3. s \in Seq(Frames) BY <1>2, SeqDef
<1> QED BY <1>1, <1>3 DEF Unclosed

LEMMA SubFacts ==
  ASSUME NEW s \in Subs
  PROVE  s.open \in BOOLEAN /\ s.queue \in Seq(Events) /\ s.queue \in Seq(Frames) /\ Unclosed(s.queue)
BY EventChain DEF Subs

\* What is known of a client stays true when rows are deleted or added beyond the cursor.
LEMMA SameServed ==
  ASSUME StoreOK, StoreOK', TablesOK, NEW c \in Clients, Served(c), Same(c), cursor' = cursor,
         \A r \in Told' : r \in Told \/ cursor < r
  PROVE  Served(c)'
<1>1. cursor \in Nat /\ cursor <= cursor /\ Told' \subseteq Nat /\ Told \subseteq Nat
  BY FrameFacts DEF StoreOK, Told
<1>2. \A r \in Told' : r \in Nat /\ (r \in Told \/ cursor < r) BY <1>1
<1>3. /\ wire[c] \in Seq(Frames) /\ sub[c] \in Subs /\ sub[c].queue \in Seq(Frames)
      /\ conn[c].tail \in Nat /\ client[c] \in Nat /\ conn[c].at \in Nat
  BY FrameFacts, SubFacts DEF TablesOK, Conns
<1>4. Fits(c)' BY DEF Same, Fits, Streaming, Served
<1>5. Reach(c)' = Reach(c) /\ From(c)' = From(c) BY DEF Same, Reach, From, At
<1>6. Handled(c)'
  <2>0. client[c] <= cursor BY DEF Served, Handled
  <2>1. ASSUME NEW r \in Told', r <= client[c] PROVE r \in Told
    <3>1. r \in Nat /\ (r \in Told \/ cursor < r) BY <1>2
    <3>2. ~(cursor < r) BY <1>1, <1>3, <2>0, <2>1, <3>1
    <3> QED BY <3>1, <3>2
  <2> QED BY <2>1 DEF Same, Served, Handled, UpTo
<1>7. Wired(c)'
  <2>1. Chain(Told', client[c], wire[c], cursor) BY <1>1, <1>2, <1>3, ChainKept DEF Served, Wired
  <2> QED BY <2>1 DEF Same, Served, Wired, At
<1>8. Tasked(c)'
  <2>1. Streaming(c) => \A r \in Told' : r <= conn[c].tail => r \in Told
    BY <1>1, <1>3 DEF Served, Tasked
  <2>2. conn[c].pc = "tail" =>
          Follows(Told', Reach(c), Frame(IF conn[c].after = None THEN "start" ELSE "tail", conn[c].tail))
    BY <2>1 DEF Served, Tasked, Follows, Frame, Streaming
  <2>3. conn[c].pc = "send" =>
          \A r \in Told' : conn[c].at < r /\ r <= conn[c].tail =>
            r \in conn[c].batch \/ (~conn[c].short /\ \A b \in conn[c].batch : b < r)
    BY <2>1 DEF Served, Tasked, Streaming
  <2> QED BY <1>5, <2>2, <2>3 DEF Same, Served, Tasked, Streaming
<1>9. Queued(c)'
  <2>1. Chain(Told', From(c), sub[c].queue, cursor) BY <1>1, <1>2, <1>3, ChainKept DEF Served, Queued
  <2>2. sub[c].open => \A r \in Told' : End(From(c), sub[c].queue) < r => cursor < r
    BY <1>2 DEF Served, Queued
  <2> QED BY <1>5, <2>1, <2>2 DEF Same, Queued
<1> QED BY <1>4, <1>6, <1>7, <1>8, <1>9 DEF Served

\* A step of one client's.
LEMMA OneClient ==
  ASSUME Inv, NEW c \in Clients, Still, TablesOK', Served(c)', \A d \in Clients : d # c => Same(d)
  PROVE  Inv'
<1>1. StoreOK' /\ Told' = Told /\ cursor' = cursor BY DEF Inv, StoreOK, Still, Told
<1>2. Instants' /\ Paged' BY <1>1 DEF Inv, Instants, Paged, Still
<1>3. ASSUME NEW d \in Clients, d # c PROVE Served(d)'
  BY <1>1, <1>3, SameServed DEF Inv
<1> QED BY <1>1, <1>2, <1>3 DEF Inv
-------------------------------------------------------------------------------
(* The steps of a socket's task *)

LEMMA ClientTypes ==
  ASSUME Inv, NEW c \in Clients
  PROVE  /\ sub[c] \in Subs /\ conn[c] \in Conns /\ wire[c] \in Seq(Frames)
         /\ client[c] \in Spots /\ seen[c] \in Seq(Rows) /\ base[c] \in Rows
         /\ client[c] \in Nat /\ conn[c].at \in Nat /\ conn[c].tail \in Nat /\ cursor \in Nat
         /\ Told \subseteq Rows /\ Told \subseteq Nat /\ NoSub \in Subs /\ Closed \in Conns
<1>1. NoSub \in Subs
  <2>1. <<>> \in Seq(Events) OBVIOUS
  <2> QED BY <2>1 DEF NoSub, Subs
<1>2. Closed \in Conns BY FrameFacts DEF Closed, Conns
<1> QED BY <1>1, <1>2, FrameFacts DEF Inv, TablesOK, StoreOK, Told, Conns

LEMMA HandshakeServed == ASSUME Inv, NEW c \in Clients, Handshake(c) PROVE Inv'
<1>1. PICK x \in Conns : x = conn[c] BY ClientTypes
<1>2. PICK a \in Spots : a = IF x.after \in rows THEN x.after ELSE None BY <1>1, FrameFacts DEF Conns
<1>3. PICK y : y = [x EXCEPT !.pc = "subscribe", !.after = a] OBVIOUS
<1>4. conn' = [conn EXCEPT ![c] = y] /\ x.pc = "hello" BY <1>1, <1>2, <1>3 DEF Handshake, At
<1>5. y \in Conns /\ y.pc = "subscribe" /\ y.after = a /\ y.batch = x.batch BY <1>3 DEF Conns
<1>6. /\ conn' \in [Clients -> Conns] /\ conn'[c] = y /\ \A d \in Clients : d # c => conn'[d] = conn[d]
  BY <1>4, <1>5 DEF Inv, TablesOK
<1>7. /\ Still /\ sub' = sub /\ wire' = wire /\ client' = client /\ seen' = seen /\ base' = base
  BY DEF Handshake, Still, publisher, store
<1>8. TablesOK' /\ \A d \in Clients : d # c => Same(d) BY <1>6, <1>7 DEF Inv, TablesOK, Same
<1>9. Served(c) BY DEF Inv
<1>10. Fits(c)' BY <1>1, <1>4, <1>5, <1>6, <1>7, <1>9 DEF Served, Fits, Streaming
<1>11. Handled(c)' BY <1>7, <1>9 DEF Served, Handled, Told, Still
<1>12. Wired(c)' BY <1>1, <1>4, <1>5, <1>6, <1>7, <1>9 DEF Served, Wired, Told, Still, At
<1>13. sub[c] = NoSub /\ wire[c] = <<>> /\ x.after \in {client[c], None}
  BY <1>1, <1>4, <1>9 DEF Served, Tasked, Streaming
<1>14. Tasked(c)' BY <1>2, <1>5, <1>6, <1>7, <1>13 DEF Tasked, Streaming
<1>15. Queued(c)'
  <2>1. sub'[c].queue = <<>> /\ sub'[c].open = FALSE BY <1>7, <1>13 DEF NoSub
  <2> QED BY <2>1, ChainEmpty DEF Queued
<1> QED BY <1>7, <1>8, <1>10, <1>11, <1>12, <1>14, <1>15, OneClient DEF Served

LEMMA SubscribeServed == ASSUME Inv, NEW c \in Clients, Subscribe(c) PROVE Inv'
<1>1. PICK x \in Conns : x = conn[c] BY ClientTypes
<1>2. PICK p : p = IF x.after = None THEN "tail" ELSE "replay" OBVIOUS
<1>3. PICK y : y = [x EXCEPT !.tail = cursor, !.at = x.after, !.pc = p] OBVIOUS
<1>4. conn' = [conn EXCEPT ![c] = y] /\ x.pc = "subscribe" BY <1>1, <1>2, <1>3 DEF Subscribe, At
<1>5. /\ y \in Conns /\ y.pc = p /\ y.after = x.after /\ y.at = x.after /\ y.tail = cursor /\ y.batch = x.batch
      /\ cursor \in Rows /\ p \in {"tail", "replay"}
  BY <1>2, <1>3, FrameFacts DEF Conns, Inv, StoreOK
<1>6. /\ conn' \in [Clients -> Conns] /\ conn'[c] = y /\ \A d \in Clients : d # c => conn'[d] = conn[d]
  BY <1>4, <1>5 DEF Inv, TablesOK
<1>7. /\ Still /\ wire' = wire /\ client' = client /\ seen' = seen /\ base' = base
  BY DEF Subscribe, Still, publisher, store
<1>71. PICK z : z = [open |-> TRUE, queue |-> <<>>] OBVIOUS
<1>72. z \in Subs /\ z.queue = <<>>
  <2>1. <<>> \in Seq(Events) OBVIOUS
  <2> QED BY <1>71, <2>1 DEF Subs
<1>73. sub' \in [Clients -> Subs] /\ sub'[c] = z /\ \A d \in Clients : d # c => sub'[d] = sub[d]
  BY <1>71, <1>72 DEF Subscribe, Inv, TablesOK
<1>8. TablesOK' /\ \A d \in Clients : d # c => Same(d) BY <1>6, <1>7, <1>73 DEF Inv, TablesOK, Same
<1>9. Served(c) BY DEF Inv
<1>13. wire[c] = <<>> /\ x.after \in {client[c], None} /\ client[c] <= cursor
  BY <1>1, <1>4, <1>9 DEF Served, Tasked, Handled
<1>10. Fits(c)'
  <2>1. Len(<<>>) = 0 /\ Queue \in Nat BY TailAssumption
  <2> QED BY <1>1, <1>4, <1>5, <1>6, <1>7, <1>72, <1>73, <1>9, <2>1 DEF Served, Fits, Streaming
<1>11. Handled(c)' BY <1>7, <1>9 DEF Served, Handled, Told, Still
<1>12. Wired(c)' BY <1>1, <1>4, <1>5, <1>6, <1>7, <1>9 DEF Served, Wired, Told, Still, At
<1>14. Tasked(c)'
  <2>1. Reach(c)' = client[c] /\ cursor' = cursor /\ Told' = Told
    BY <1>7, <1>13, ChainEmpty DEF Reach, Still, Told
  <2>2. cursor \in Nat /\ client[c] \in Nat BY ClientTypes
  <2>3. y.pc = "replay" => x.after = client[c] /\ x.after # None BY <1>2, <1>5, <1>13
  <2>4. y.pc = "tail" => x.after = None BY <1>2, <1>5
  <2>5. Follows(Told, client[c], Frame("start", cursor)) BY <1>13, <2>2 DEF Follows, Frame
  <2> QED BY <1>5, <1>6, <1>7, <1>13, <1>73, <2>1, <2>2, <2>3, <2>4, <2>5 DEF Tasked, Streaming
<1>15. Queued(c)'
  <2>1. From(c)' = cursor /\ cursor' = cursor BY <1>5, <1>6, <1>7 DEF From, At, Still
  <2> QED BY <1>72, <1>73, <2>1, ChainEmpty DEF Queued
<1> QED BY <1>7, <1>8, <1>10, <1>11, <1>12, <1>14, <1>15, OneClient DEF Served

LEMMA ReplayServed == ASSUME Inv, NEW c \in Clients, ReadReplay(c) PROVE Inv'
<1>1. PICK x \in Conns : x = conn[c] BY ClientTypes
<1>2. PICK b : b = PageOf(x.at, Replayable(c)) OBVIOUS
<1>3. PICK p : p = IF b = {} THEN "tail" ELSE "send" OBVIOUS
<1>4. PICK q : q = (Cardinality(b) < Page) OBVIOUS
<1>5. PICK y : y = [x EXCEPT !.batch = b, !.short = q, !.pc = p] OBVIOUS
<1>6. conn' = [conn EXCEPT ![c] = y] /\ x.pc = "replay" BY <1>1, <1>2, <1>3, <1>4, <1>5 DEF ReadReplay, At
<1>7. /\ Still /\ sub' = sub /\ wire' = wire /\ client' = client /\ seen' = seen /\ base' = base
  BY DEF ReadReplay, Still, publisher, store
<1>8. /\ b \subseteq Rows /\ \A r \in b : x.at < r /\ r <= x.tail
      /\ q => \A r \in Told : x.at < r /\ r <= x.tail => r \in b
      /\ b = {} => q
      /\ \A r \in Told : x.at < r /\ r <= x.tail => r \in b \/ \A s \in b : s < r
  <2>1. Replayable(c) = {r \in rows : r <= x.tail} /\ rows \subseteq Rows /\ x.at \in Nat
    BY <1>1, ClientTypes DEF Replayable, Inv, StoreOK
  <2>2. Replayable(c) \in SUBSET Rows BY <2>1
  <2>3. /\ b \subseteq Replayable(c) /\ \A r \in b : x.at < r
        /\ \A r \in b, s \in Replayable(c) : x.at < s /\ s <= r => s \in b
        /\ q => \A r \in Replayable(c) : x.at < r => r \in b
    BY <1>2, <1>4, <2>1, <2>2, PageFacts
  <2>4. ASSUME NEW r \in Told, x.at < r, r <= x.tail, r \notin b, NEW s \in b PROVE s < r
    <3>1. r \in Replayable(c) /\ r \in Nat /\ s \in Nat BY <2>1, <2>3, <2>4, FrameFacts DEF Told
    <3>2. ~(r <= s) BY <2>3, <2>4, <3>1
    <3> QED BY <3>1, <3>2
  <2>5. b = {} => q
    <3>1. Cardinality({}) = 0 BY FS_EmptySet
    <3>2. Page \in Nat \ {0} BY TailAssumption
    <3>3. 0 < Page BY <3>2
    <3> QED BY <1>4, <3>1, <3>3
  <2>6. \A r \in b : r \in Rows /\ x.at < r /\ r <= x.tail BY <2>1, <2>3
  <2>7. \A r \in Told : r <= x.tail => r \in Replayable(c) BY <2>1 DEF Told
  <2>8. q => \A r \in Told : x.at < r /\ r <= x.tail => r \in b BY <2>3, <2>7
  <2> QED BY <2>4, <2>5, <2>6, <2>8
<1>9. /\ y \in Conns /\ y.pc = p /\ y.batch = b /\ y.short = q /\ y.at = x.at /\ y.tail = x.tail
      /\ y.after = x.after /\ p \in {"tail", "send"} /\ (p = "send" <=> b # {})
  <2>1. q \in BOOLEAN /\ b \in SUBSET Rows BY <1>4, <1>8
  <2>2. p \in {"tail", "send"} /\ (p = "send" <=> b # {}) BY <1>3
  <2>3. y \in Conns BY <1>5, <2>1, <2>2 DEF Conns
  <2>4. /\ y.pc = p /\ y.batch = b /\ y.short = q /\ y.at = x.at /\ y.tail = x.tail
        /\ y.after = x.after
    BY <1>5 DEF Conns
  <2> QED BY <2>2, <2>3, <2>4
<1>10. /\ conn' \in [Clients -> Conns] /\ conn'[c] = y /\ \A d \in Clients : d # c => conn'[d] = conn[d]
  BY <1>6, <1>9 DEF Inv, TablesOK
<1>11. TablesOK' /\ \A d \in Clients : d # c => Same(d) BY <1>7, <1>10 DEF Inv, TablesOK, Same
<1>12. Served(c) BY DEF Inv
<1>13. Fits(c)' BY <1>1, <1>6, <1>7, <1>9, <1>10, <1>12 DEF Served, Fits, Streaming
<1>14. Handled(c)' BY <1>7, <1>12 DEF Served, Handled, Told, Still
<1>15. Wired(c)' BY <1>1, <1>6, <1>7, <1>9, <1>10, <1>12 DEF Served, Wired, Told, Still, At
<1>16. Reach(c) = x.at /\ x.at <= x.tail /\ x.tail <= cursor
  BY <1>1, <1>6, <1>12 DEF Served, Tasked, Streaming
<1>17. Reach(c)' = Reach(c) /\ From(c)' = From(c) /\ Told' = Told /\ cursor' = cursor
  BY <1>1, <1>6, <1>7, <1>9, <1>10 DEF Reach, From, At, Told, Still
<1>18. Tasked(c)'
  <2>1. y.pc = "tail" => Follows(Told, x.at, Frame(IF y.after = None THEN "start" ELSE "tail", y.tail))
    <3> SUFFICES ASSUME y.pc = "tail" PROVE Follows(Told, x.at, Frame(IF y.after = None THEN "start" ELSE "tail", y.tail))
      OBVIOUS
    <3>1. \A r \in Told : ~(x.at < r /\ r <= x.tail) BY <1>8, <1>9
    <3> QED BY <1>9, <1>16, <3>1 DEF Follows, Frame
  <2>2. \A r \in Told : y.at < r /\ r <= y.tail => r \in y.batch \/ (~y.short /\ \A s \in y.batch : s < r)
    BY <1>8, <1>9
  <2> QED BY <1>8, <1>9, <1>10, <1>16, <1>17, <2>1, <2>2 DEF Tasked, Streaming
<1>19. Queued(c)' BY <1>7, <1>12, <1>17 DEF Served, Queued
<1> QED BY <1>7, <1>11, <1>13, <1>14, <1>15, <1>18, <1>19, OneClient DEF Served

\* A frame put on the wire goes on from what was sent before it.
LEMMA Sending ==
  ASSUME Inv, NEW c \in Clients, NEW f \in Frames, Room(c), Send(c, f), Unclosed(wire[c]),
         Still, client' = client,
         f.kind # "close" => Follows(Told, Reach(c), f) /\ f.at <= cursor
  PROVE  /\ wire' \in [Clients -> Seq(Frames)] /\ \A d \in Clients : d # c => wire'[d] = wire[d]
         /\ Len(wire'[c]) <= Wire
         /\ Chain(Told', client'[c], wire'[c], cursor')
         /\ f.kind # "close" => Unclosed(wire'[c]) /\ Reach(c)' = f.at
<1>1. wire[c] \in Seq(Frames) BY ClientTypes
<1>2. PICK w : w = Append(wire[c], f) OBVIOUS
<1>3. w \in Seq(Frames) /\ Len(w) = Len(wire[c]) + 1 /\ Len(wire[c]) \in Nat
  BY <1>1, <1>2, AppendProperties, LenProperties
<1>4. wire' = [wire EXCEPT ![c] = w] BY <1>2 DEF Send
<1>5. wire' \in [Clients -> Seq(Frames)] /\ wire'[c] = w /\ \A d \in Clients : d # c => wire'[d] = wire[d]
  BY <1>3, <1>4 DEF Inv, TablesOK
<1>6. Len(wire[c]) < Wire /\ Wire \in Nat BY TailAssumption DEF Room
<1>7. Len(w) <= Wire BY <1>3, <1>6
<1>8. Chain(Told, client[c], wire[c], cursor) BY DEF Inv, Served, Wired
<1>9. /\ Chain(Told, client[c], w, cursor)
      /\ f.kind # "close" => Unclosed(w) /\ End(client[c], w) = f.at
  BY <1>1, <1>2, <1>8, ChainAppend DEF Reach
<1>10. Told' = Told /\ cursor' = cursor BY DEF Still, Told
<1> QED BY <1>5, <1>7, <1>9, <1>10 DEF Reach

LEMMA SendReplayServed == ASSUME Inv, NEW c \in Clients, SendReplay(c) PROVE Inv'
<1>1. PICK x \in Conns : x = conn[c] BY ClientTypes
<1>2. PICK m : m = Min(x.batch) OBVIOUS
<1>3. PICK b : b = x.batch \ {m} OBVIOUS
<1>4. PICK p : p = IF b # {} THEN "send" ELSE IF x.short THEN "tail" ELSE "replay" OBVIOUS
<1>5. PICK y : y = [x EXCEPT !.at = m, !.batch = b, !.pc = p] OBVIOUS
<1>6. /\ conn' = [conn EXCEPT ![c] = y] /\ x.pc = "send" /\ Room(c)
      /\ Send(c, Frame("event", m))
  BY <1>1, <1>2, <1>3, <1>4, <1>5 DEF SendReplay, At
<1>7. /\ Still /\ sub' = sub /\ client' = client /\ seen' = seen /\ base' = base
  BY DEF SendReplay, Still, publisher, store
<1>8. Served(c) BY DEF Inv
<1>9. /\ x.batch # {} /\ Reach(c) = x.at /\ x.tail <= cursor /\ x.tail \in Rows
      /\ \A r \in x.batch : x.at < r /\ r <= x.tail
      /\ \A r \in Told : x.at < r /\ r <= x.tail =>
           r \in x.batch \/ (~x.short /\ \A s \in x.batch : s < r)
  BY <1>1, <1>6, <1>8 DEF Served, Tasked, Fits, Streaming
<1>10. /\ x.batch \subseteq Rows /\ x.batch \in SUBSET Nat /\ x.at \in Nat /\ x.tail \in Nat /\ cursor \in Nat
       /\ Told \subseteq Nat /\ x.short \in BOOLEAN
  BY <1>1, FrameFacts, ClientTypes DEF Conns
<1>11. m \in x.batch /\ m \in Nat /\ m \in Rows /\ \A r \in x.batch : m <= r
  BY <1>2, <1>9, <1>10, Least
<1>12. x.at < m /\ m <= x.tail BY <1>9, <1>11
<1>13. PICK f : f = Frame("event", m) OBVIOUS
<1>14. f \in Frames /\ f.kind = "event" /\ f.at = m BY <1>11, <1>13 DEF Frame, Frames
<1>15. ASSUME NEW r \in Told, x.at < r, r <= m PROVE r = m
  <2>1. r \in Nat /\ r <= x.tail BY <1>10, <1>11, <1>12, <1>15
  <2>2. ~(m < r) BY <1>11, <1>15, <2>1
  <2>3. r \in x.batch BY <1>9, <1>11, <1>15, <2>1, <2>2
  <2> QED BY <1>11, <1>15, <2>1, <2>3
<1>16. Follows(Told, Reach(c), f) /\ f.at <= cursor
  <2>1. x.at <= m /\ m <= cursor BY <1>9, <1>10, <1>11, <1>12
  <2> QED BY <1>9, <1>12, <1>14, <1>15, <2>1 DEF Follows
<1>17. Unclosed(wire[c]) BY <1>1, <1>6, <1>8 DEF Served, Wired, At
<1>18. /\ wire' \in [Clients -> Seq(Frames)] /\ \A d \in Clients : d # c => wire'[d] = wire[d]
       /\ Len(wire'[c]) <= Wire /\ Chain(Told', client'[c], wire'[c], cursor')
       /\ Unclosed(wire'[c]) /\ Reach(c)' = m
  BY <1>6, <1>7, <1>13, <1>14, <1>16, <1>17, Sending
<1>19. /\ y \in Conns /\ y.pc = p /\ y.batch = b /\ y.short = x.short /\ y.at = m /\ y.tail = x.tail
       /\ y.after = x.after /\ p \in {"tail", "send", "replay"} /\ (p = "send" <=> b # {})
  <2>1. b \in SUBSET Rows /\ m \in Spots BY <1>3, <1>10, <1>11, FrameFacts
  <2>2. p \in {"tail", "send", "replay"} /\ (p = "send" <=> b # {}) BY <1>4
  <2>3. y \in Conns BY <1>5, <2>1, <2>2 DEF Conns
  <2>4. /\ y.pc = p /\ y.batch = b /\ y.short = x.short /\ y.at = m /\ y.tail = x.tail /\ y.after = x.after
    BY <1>5 DEF Conns
  <2> QED BY <2>2, <2>3, <2>4
<1>20. /\ conn' \in [Clients -> Conns] /\ conn'[c] = y /\ \A d \in Clients : d # c => conn'[d] = conn[d]
  BY <1>6, <1>19 DEF Inv, TablesOK
<1>21. TablesOK' /\ \A d \in Clients : d # c => Same(d) BY <1>7, <1>18, <1>20 DEF Inv, TablesOK, Same
<1>22. Fits(c)' BY <1>7, <1>8, <1>9, <1>18, <1>19, <1>20 DEF Served, Fits, Streaming
<1>23. Handled(c)' BY <1>7, <1>8 DEF Served, Handled, Told, Still
<1>24. Wired(c)' BY <1>18 DEF Wired
<1>25. Told' = Told /\ cursor' = cursor BY <1>7 DEF Told, Still
<1>26. Tasked(c)'
  <2>1. ASSUME NEW r \in Told, m < r, r <= x.tail PROVE r \in b \/ (~x.short /\ \A s \in b : s < r)
    <3>1. r \in Nat /\ x.at < r BY <1>10, <1>11, <1>12, <2>1
    <3>2. r \in x.batch \/ (~x.short /\ \A s \in x.batch : s < r) BY <1>9, <2>1, <3>1
    <3>3. r # m BY <1>11, <2>1, <3>1
    <3> QED BY <1>3, <3>2, <3>3
  <2>2. ASSUME NEW s \in b PROVE m < s /\ s <= x.tail
    <3>1. s \in Nat /\ s \in x.batch /\ s # m BY <1>3, <1>10
    <3> QED BY <1>9, <1>11, <3>1
  <2>3. p = "tail" => Follows(Told, m, Frame(IF y.after = None THEN "start" ELSE "tail", x.tail))
    <3> SUFFICES ASSUME p = "tail" PROVE Follows(Told, m, Frame(IF y.after = None THEN "start" ELSE "tail", x.tail))
      OBVIOUS
    <3>1. b = {} /\ x.short = TRUE BY <1>4, <1>10
    <3>2. \A r \in Told : ~(m < r /\ r <= x.tail) BY <2>1, <3>1
    <3> QED BY <1>12, <3>2 DEF Follows, Frame
  <2> QED BY <1>7, <1>9, <1>12, <1>18, <1>19, <1>20, <1>25, <2>1, <2>2, <2>3 DEF Tasked, Streaming
<1>27. Queued(c)'
  <2>1. From(c)' = From(c) BY <1>1, <1>6, <1>19, <1>20 DEF From, At
  <2> QED BY <1>7, <1>8, <1>25, <2>1 DEF Served, Queued
<1> QED BY <1>7, <1>21, <1>22, <1>23, <1>24, <1>26, <1>27, OneClient DEF Served

LEMMA SendTailServed == ASSUME Inv, NEW c \in Clients, SendTail(c) PROVE Inv'
<1>1. PICK x \in Conns : x = conn[c] BY ClientTypes
<1>2. PICK f : f = Frame(IF x.after = None THEN "start" ELSE "tail", x.tail) OBVIOUS
<1>3. PICK y : y = [x EXCEPT !.pc = "live"] OBVIOUS
<1>4. conn' = [conn EXCEPT ![c] = y] /\ x.pc = "tail" /\ Room(c) /\ Send(c, f)
  BY <1>1, <1>2, <1>3 DEF SendTail, At
<1>5. /\ Still /\ sub' = sub /\ client' = client /\ seen' = seen /\ base' = base
  BY DEF SendTail, Still, publisher, store
<1>6. Served(c) BY DEF Inv
<1>7. x.tail <= cursor /\ x.tail \in Rows /\ Follows(Told, Reach(c), f) /\ x.batch = {}
  BY <1>1, <1>2, <1>4, <1>6 DEF Served, Tasked, Fits, Streaming
<1>8. f \in Frames /\ f.kind # "close" /\ f.at = x.tail BY <1>2, <1>7 DEF Frame, Frames
<1>9. Unclosed(wire[c]) BY <1>1, <1>4, <1>6 DEF Served, Wired, At
<1>10. /\ wire' \in [Clients -> Seq(Frames)] /\ \A d \in Clients : d # c => wire'[d] = wire[d]
       /\ Len(wire'[c]) <= Wire /\ Chain(Told', client'[c], wire'[c], cursor')
       /\ Unclosed(wire'[c]) /\ Reach(c)' = x.tail
  BY <1>4, <1>5, <1>7, <1>8, <1>9, Sending
<1>11. y \in Conns /\ y.pc = "live" /\ y.tail = x.tail /\ y.batch = {} BY <1>3, <1>7 DEF Conns
<1>12. /\ conn' \in [Clients -> Conns] /\ conn'[c] = y /\ \A d \in Clients : d # c => conn'[d] = conn[d]
  BY <1>4, <1>11 DEF Inv, TablesOK
<1>13. TablesOK' /\ \A d \in Clients : d # c => Same(d) BY <1>5, <1>10, <1>12 DEF Inv, TablesOK, Same
<1>14. Fits(c)' BY <1>5, <1>6, <1>7, <1>10, <1>11, <1>12 DEF Served, Fits, Streaming
<1>15. Handled(c)' BY <1>5, <1>6 DEF Served, Handled, Told, Still
<1>16. Wired(c)' BY <1>10 DEF Wired
<1>17. Told' = Told /\ cursor' = cursor BY <1>5 DEF Told, Still
<1>18. Tasked(c)' BY <1>7, <1>11, <1>12, <1>17 DEF Tasked, Streaming
<1>19. Queued(c)'
  <2>1. From(c)' = x.tail /\ From(c) = x.tail BY <1>1, <1>4, <1>10, <1>11, <1>12 DEF From, At
  <2> QED BY <1>5, <1>6, <1>17, <2>1 DEF Served, Queued
<1> QED BY <1>5, <1>13, <1>14, <1>15, <1>16, <1>18, <1>19, OneClient DEF Served

LEMMA SendLiveServed == ASSUME Inv, NEW c \in Clients, SendLive(c) PROVE Inv'
<1>1. PICK x \in Subs : x = sub[c] BY ClientTypes
<1>2. PICK q : q = Tail(x.queue) OBVIOUS
<1>3. PICK f : f = Head(x.queue) OBVIOUS
<1>4. PICK y : y = [x EXCEPT !.queue = q] OBVIOUS
<1>5. sub' = [sub EXCEPT ![c] = y] /\ At(c, "live") /\ Room(c) /\ Send(c, f) /\ x.queue # <<>>
  BY <1>1, <1>2, <1>3, <1>4 DEF SendLive
<1>6. /\ Still /\ conn' = conn /\ client' = client /\ seen' = seen /\ base' = base
  BY DEF SendLive, Still, publisher, store
<1>7. Served(c) BY DEF Inv
<1>8. From(c) = Reach(c) BY <1>5 DEF From
<1>9. x.queue \in Seq(Events) /\ x.queue \in Seq(Frames) /\ Unclosed(x.queue) /\ x.open \in BOOLEAN
  BY <1>1, SubFacts
<1>10. Chain(Told, From(c), x.queue, cursor) BY <1>1, <1>7 DEF Served, Queued
<1>11. /\ f \in Frames /\ f.kind # "close" /\ Follows(Told, Reach(c), f) /\ f.at <= cursor
       /\ Chain(Told, f.at, q, cursor) /\ End(f.at, q) = End(From(c), x.queue)
  BY <1>2, <1>3, <1>5, <1>8, <1>9, <1>10, ChainTail
<1>12. q \in Seq(Events) /\ Len(q) = Len(x.queue) - 1 /\ Len(x.queue) \in Nat
  BY <1>2, <1>5, <1>9, HeadTailProperties, LenProperties
<1>13. Unclosed(wire[c]) BY <1>5, <1>7 DEF Served, Wired, At
<1>14. /\ wire' \in [Clients -> Seq(Frames)] /\ \A d \in Clients : d # c => wire'[d] = wire[d]
       /\ Len(wire'[c]) <= Wire /\ Chain(Told', client'[c], wire'[c], cursor')
       /\ Unclosed(wire'[c]) /\ Reach(c)' = f.at
  BY <1>5, <1>6, <1>11, <1>13, Sending
<1>15. y \in Subs /\ y.queue = q /\ y.open = x.open BY <1>4, <1>9, <1>12 DEF Subs
<1>16. /\ sub' \in [Clients -> Subs] /\ sub'[c] = y /\ \A d \in Clients : d # c => sub'[d] = sub[d]
  BY <1>5, <1>15 DEF Inv, TablesOK
<1>17. TablesOK' /\ \A d \in Clients : d # c => Same(d) BY <1>6, <1>14, <1>16 DEF Inv, TablesOK, Same
<1>18. Fits(c)'
  <2>1. Len(x.queue) <= Queue /\ Queue \in Nat BY <1>1, <1>7, TailAssumption DEF Served, Fits
  <2>2. Len(q) <= Queue BY <1>12, <2>1
  <2> QED BY <1>6, <1>7, <1>14, <1>15, <1>16, <2>2 DEF Served, Fits, Streaming
<1>19. Handled(c)' BY <1>6, <1>7 DEF Served, Handled, Told, Still
<1>20. Wired(c)' BY <1>14 DEF Wired
<1>21. Told' = Told /\ cursor' = cursor BY <1>6 DEF Told, Still
<1>22. Tasked(c)' BY <1>5, <1>6, <1>7, <1>21 DEF Served, Tasked, Streaming, At
<1>23. Queued(c)'
  <2>1. From(c)' = f.at BY <1>5, <1>6, <1>14 DEF From, At
  <2>2. x.open => \A r \in Told : End(From(c), x.queue) < r => cursor < r
    BY <1>1, <1>7 DEF Served, Queued
  <2> QED BY <1>11, <1>15, <1>16, <1>21, <2>1, <2>2 DEF Queued
<1> QED BY <1>6, <1>17, <1>18, <1>19, <1>20, <1>22, <1>23, OneClient DEF Served

LEMMA CloseSlowServed == ASSUME Inv, NEW c \in Clients, CloseSlow(c) PROVE Inv'
<1>1. PICK f : f = Frame("close", None) OBVIOUS
<1>2. f \in Frames /\ f.kind = "close" BY <1>1 DEF Frame, Frames
<1>3. /\ conn' = [conn EXCEPT ![c] = Closed] /\ At(c, "live") /\ Room(c) /\ sub[c] = NoSub /\ Send(c, f)
  BY <1>1 DEF CloseSlow
<1>4. /\ Still /\ sub' = sub /\ client' = client /\ seen' = seen /\ base' = base
  BY DEF CloseSlow, Still, publisher, store
<1>5. Served(c) BY DEF Inv
<1>6. Unclosed(wire[c]) BY <1>3, <1>5 DEF Served, Wired, At
<1>7. /\ wire' \in [Clients -> Seq(Frames)] /\ \A d \in Clients : d # c => wire'[d] = wire[d]
      /\ Len(wire'[c]) <= Wire /\ Chain(Told', client'[c], wire'[c], cursor')
  BY <1>2, <1>3, <1>4, <1>6, Sending
<1>8. Closed \in Conns /\ Closed.pc = "closed" /\ Closed.batch = {} BY ClientTypes DEF Closed
<1>9. /\ conn' \in [Clients -> Conns] /\ conn'[c] = Closed /\ \A d \in Clients : d # c => conn'[d] = conn[d]
  BY <1>3, <1>8 DEF Inv, TablesOK
<1>10. TablesOK' /\ \A d \in Clients : d # c => Same(d) BY <1>4, <1>7, <1>9 DEF Inv, TablesOK, Same
<1>11. Fits(c)' BY <1>4, <1>5, <1>7, <1>8, <1>9 DEF Served, Fits, Streaming
<1>12. Handled(c)' BY <1>4, <1>5 DEF Served, Handled, Told, Still
<1>13. Wired(c)' BY <1>7, <1>8, <1>9 DEF Wired, At
<1>14. Tasked(c)' BY <1>3, <1>4, <1>8, <1>9 DEF Tasked, Streaming
<1>15. Queued(c)'
  <2>1. sub'[c].queue = <<>> /\ sub'[c].open = FALSE BY <1>3, <1>4 DEF NoSub
  <2> QED BY <2>1, ChainEmpty DEF Queued
<1> QED BY <1>4, <1>10, <1>11, <1>12, <1>13, <1>14, <1>15, OneClient DEF Served

-------------------------------------------------------------------------------
(* The steps of a client *)

LEMMA OpenServed == ASSUME Inv, NEW c \in Clients, Open(c) PROVE Inv'
<1>1. PICK y : y = [Closed EXCEPT !.pc = "hello", !.after = client[c]] OBVIOUS
<1>2. /\ conn' = [conn EXCEPT ![c] = y] /\ At(c, "closed") /\ wire[c] = <<>>
      /\ Still /\ sub' = sub /\ wire' = wire /\ client' = client /\ seen' = seen /\ base' = base
  BY <1>1 DEF Open, Still, publisher, store
<1>3. y \in Conns /\ y.pc = "hello" /\ y.after = client[c] /\ y.batch = {}
  <2>1. client[c] \in Spots /\ {} \in SUBSET Rows BY ClientTypes
  <2> QED BY <1>1, <2>1, FrameFacts DEF Closed, Conns
<1>4. /\ conn' \in [Clients -> Conns] /\ conn'[c] = y /\ \A d \in Clients : d # c => conn'[d] = conn[d]
  BY <1>2, <1>3 DEF Inv, TablesOK
<1>5. TablesOK' /\ \A d \in Clients : d # c => Same(d) BY <1>2, <1>4 DEF Inv, TablesOK, Same
<1>6. Served(c) BY DEF Inv
<1>7. Fits(c)' BY <1>2, <1>3, <1>4, <1>6 DEF Served, Fits, Streaming
<1>8. Handled(c)' BY <1>2, <1>6 DEF Served, Handled, Told, Still
<1>9. Wired(c)' BY <1>2, ChainEmpty DEF Wired
<1>10. sub[c] = NoSub BY <1>2, <1>6 DEF Served, Tasked, Streaming, At
<1>11. Tasked(c)' BY <1>2, <1>3, <1>4, <1>10 DEF Tasked, Streaming
<1>12. Queued(c)'
  <2>1. sub'[c].queue = <<>> /\ sub'[c].open = FALSE BY <1>2, <1>10 DEF NoSub
  <2> QED BY <2>1, ChainEmpty DEF Queued
<1> QED BY <1>2, <1>5, <1>7, <1>8, <1>9, <1>11, <1>12, OneClient DEF Served

LEMMA DropServed == ASSUME Inv, NEW c \in Clients, Drop(c) PROVE Inv'
<1>1. /\ conn' = [conn EXCEPT ![c] = Closed] /\ wire' = [wire EXCEPT ![c] = <<>>]
      /\ sub' = [sub EXCEPT ![c] = NoSub]
      /\ Still /\ client' = client /\ seen' = seen /\ base' = base
  BY DEF Drop, Still, publisher, store
<1>2. Closed \in Conns /\ Closed.pc = "closed" /\ Closed.batch = {} BY ClientTypes DEF Closed
<1>3. NoSub \in Subs /\ NoSub.queue = <<>> /\ NoSub.open = FALSE BY ClientTypes DEF NoSub
<1>4. <<>> \in Seq(Frames) /\ Len(<<>>) = 0 /\ Wire \in Nat /\ Queue \in Nat BY TailAssumption
<1>5. /\ conn' \in [Clients -> Conns] /\ conn'[c] = Closed /\ \A d \in Clients : d # c => conn'[d] = conn[d]
      /\ sub' \in [Clients -> Subs] /\ sub'[c] = NoSub /\ \A d \in Clients : d # c => sub'[d] = sub[d]
      /\ wire' \in [Clients -> Seq(Frames)] /\ wire'[c] = <<>> /\ \A d \in Clients : d # c => wire'[d] = wire[d]
  BY <1>1, <1>2, <1>3, <1>4 DEF Inv, TablesOK
<1>6. TablesOK' /\ \A d \in Clients : d # c => Same(d) BY <1>1, <1>5 DEF Inv, TablesOK, Same
<1>7. Served(c) BY DEF Inv
<1>8. Fits(c)' BY <1>2, <1>3, <1>4, <1>5 DEF Fits, Streaming
<1>9. Handled(c)' BY <1>1, <1>7 DEF Served, Handled, Told, Still
<1>10. Wired(c)' BY <1>5, ChainEmpty DEF Wired
<1>11. Tasked(c)' BY <1>2, <1>5 DEF Tasked, Streaming
<1>12. Queued(c)' BY <1>3, <1>5, ChainEmpty DEF Queued
<1> QED BY <1>1, <1>6, <1>8, <1>9, <1>10, <1>11, <1>12, OneClient DEF Served

\* An event is handled behind everything handled before it.
LEMMA HandledOn ==
  ASSUME NEW T \in SUBSET Nat, NEW s \in Seq(Rows), NEW at \in Nat, NEW f \in Rows, NEW from \in Nat, at < f,
         \A r \in T : at < r /\ r <= f => r = f, UpTo(T, from, s, at)
  PROVE  UpTo(T, from, Append(s, f), f)
<1>1. PICK u : u = Append(s, f) OBVIOUS
<1>2. PICK n \in Nat : n = Len(s) BY LenProperties
<1>3. u \in Seq(Rows) /\ Len(u) = n + 1 /\ (\A i \in 1 .. n : u[i] = s[i]) /\ u[n + 1] = f
  BY <1>1, <1>2, AppendProperties
<1>4. f \in Nat /\ \A i \in 1 .. n : u[i] \in Nat /\ u[i] <= at
  <2>1. \A i \in 1 .. n : s[i] \in Rows BY <1>2, ElementOfSeq
  <2>2. \A i \in 1 .. n : s[i] <= at BY <1>2 DEF UpTo
  <2> QED BY <1>3, <2>1, <2>2, FrameFacts
<1>5. ASSUME NEW i \in 1 .. n PROVE u[i] < f BY <1>4
<1>6. \A i \in 1 .. n + 1 : i \in 1 .. n \/ i = n + 1 OBVIOUS
<1>7. \A i \in 1 .. n + 1 : u[i] <= f
  <2> TAKE i \in 1 .. n + 1
  <2>1. CASE i \in 1 .. n BY <1>4, <1>5, <2>1
  <2>2. CASE i = n + 1 BY <1>3, <1>4, <2>2
  <2> QED BY <1>6, <2>1, <2>2
<1>8. ASSUME NEW i \in 1 .. n + 1, NEW j \in 1 .. n + 1, i < j PROVE u[i] < u[j]
  <2>1. i \in 1 .. n BY <1>8
  <2>2. CASE j \in 1 .. n BY <1>2, <1>3, <1>8, <2>1, <2>2 DEF UpTo
  <2>3. CASE j = n + 1 BY <1>3, <1>5, <2>1, <2>3
  <2> QED BY <1>6, <2>2, <2>3
<1>9. ASSUME NEW r \in T, from < r, r <= f PROVE \E i \in 1 .. n + 1 : u[i] = r
  <2>1. CASE r <= at
    <3>1. PICK i \in 1 .. n : s[i] = r BY <1>2, <1>9, <2>1 DEF UpTo
    <3>2. i \in 1 .. n + 1 OBVIOUS
    <3> QED BY <1>3, <3>1, <3>2
  <2>2. CASE ~(r <= at)
    <3>1. r \in Nat /\ at < r BY <2>2
    <3>2. r = f BY <1>9, <3>1
    <3>3. n + 1 \in 1 .. n + 1 OBVIOUS
    <3> QED BY <1>3, <3>2, <3>3
  <2> QED BY <2>1, <2>2
<1> QED BY <1>1, <1>3, <1>7, <1>8, <1>9 DEF UpTo

LEMMA ReceiveServed == ASSUME Inv, NEW c \in Clients, Receive(c) PROVE Inv'
<1>1. PICK f : f = Head(wire[c]) OBVIOUS
<1>2. PICK w : w = Tail(wire[c]) OBVIOUS
<1>3. PICK p : p = Position(c, f) OBVIOUS
<1>4. /\ wire[c] # <<>> /\ wire' = [wire EXCEPT ![c] = w] /\ client' = [client EXCEPT ![c] = p]
      /\ seen' = IF f.kind = "event" THEN [seen EXCEPT ![c] = Append(seen[c], f.at)] ELSE seen
      /\ base' = IF f.kind = "start" THEN [base EXCEPT ![c] = f.at] ELSE base
      /\ Still /\ sub' = sub /\ conn' = conn
  BY <1>1, <1>2, <1>3 DEF Receive, Still, publisher, store
<1>5. Served(c) BY DEF Inv
<1>6. wire[c] \in Seq(Frames) /\ Chain(Told, client[c], wire[c], cursor) BY <1>5, ClientTypes DEF Served, Wired
<1>7. /\ f \in Frames /\ w \in Seq(Frames)
      /\ f.kind = "close" => w = <<>>
      /\ f.kind # "close" =>
           /\ Follows(Told, client[c], f) /\ f.at <= cursor
           /\ Chain(Told, f.at, w, cursor) /\ End(f.at, w) = End(client[c], wire[c])
      /\ Unclosed(wire[c]) => Unclosed(w) /\ f.kind # "close"
  BY <1>1, <1>2, <1>4, <1>6, ChainTail
<1>8. p = (IF f.kind = "close" THEN client[c] ELSE f.at) BY <1>3 DEF Position
<1>9. /\ client[c] \in Spots /\ client[c] \in Nat /\ seen[c] \in Seq(Rows) /\ base[c] \in Rows /\ base[c] \in Nat
      /\ Told \in SUBSET Nat /\ cursor \in Nat
  BY ClientTypes, FrameFacts
<1>10. p \in Spots /\ (f.kind # "close" => f.at \in Rows /\ f.at \in Nat) BY <1>7, <1>8, <1>9, FrameFacts
<1>11. Len(w) <= Wire
  <2>1. Len(w) = Len(wire[c]) - 1 /\ Len(wire[c]) \in Nat BY <1>2, <1>4, <1>6, HeadTailProperties, LenProperties
  <2>2. Len(wire[c]) <= Wire /\ Wire \in Nat BY <1>5, TailAssumption DEF Served, Fits
  <2> QED BY <2>1, <2>2
<1>12. PICK s : s = IF f.kind = "event" THEN Append(seen[c], f.at) ELSE seen[c] OBVIOUS
<1>13. PICK b : b = IF f.kind = "start" THEN f.at ELSE base[c] OBVIOUS
<1>14. s \in Seq(Rows) /\ b \in Rows
  <2>1. f.kind = "event" => Append(seen[c], f.at) \in Seq(Rows) BY <1>9, <1>10, AppendProperties
  <2> QED BY <1>9, <1>10, <1>12, <1>13, <2>1
<1>15. /\ seen' \in [Clients -> Seq(Rows)] /\ seen'[c] = s /\ \A d \in Clients : d # c => seen'[d] = seen[d]
  <2>1. CASE f.kind = "event" BY <1>4, <1>12, <1>14, <2>1 DEF Inv, TablesOK
  <2>2. CASE f.kind # "event" BY <1>4, <1>12, <1>14, <2>2 DEF Inv, TablesOK
  <2> QED BY <2>1, <2>2
<1>16. /\ base' \in [Clients -> Rows] /\ base'[c] = b /\ \A d \in Clients : d # c => base'[d] = base[d]
  <2>1. CASE f.kind = "start" BY <1>4, <1>13, <1>14, <2>1 DEF Inv, TablesOK
  <2>2. CASE f.kind # "start" BY <1>4, <1>13, <1>14, <2>2 DEF Inv, TablesOK
  <2> QED BY <2>1, <2>2
<1>17. /\ wire' \in [Clients -> Seq(Frames)] /\ wire'[c] = w /\ \A d \in Clients : d # c => wire'[d] = wire[d]
       /\ client' \in [Clients -> Spots] /\ client'[c] = p /\ \A d \in Clients : d # c => client'[d] = client[d]
  BY <1>4, <1>7, <1>10 DEF Inv, TablesOK
<1>18. TablesOK' /\ \A d \in Clients : d # c => Same(d) BY <1>4, <1>15, <1>16, <1>17 DEF Inv, TablesOK, Same
<1>19. Told' = Told /\ cursor' = cursor BY <1>4 DEF Told, Still
<1>20. f.kind # "close" => Reach(c)' = Reach(c) BY <1>7, <1>8, <1>17 DEF Reach
<1>21. f.kind = "close" => At(c, "closed") BY <1>5, <1>7 DEF Served, Wired
<1>22. Fits(c)' BY <1>4, <1>5, <1>11, <1>17 DEF Served, Fits, Streaming
<1>23. Handled(c)'
  <2>1. client[c] <= cursor /\ UpTo(Told, base[c], seen[c], client[c]) BY <1>5 DEF Served, Handled
  <2>2. f.kind # "close" =>
          /\ client[c] <= f.at /\ (f.kind = "event" => client[c] < f.at)
          /\ f.kind # "start" => \A r \in Told : client[c] < r /\ r <= f.at => f.kind = "event" /\ r = f.at
    BY <1>7 DEF Follows
  <2>3. p <= cursor BY <1>7, <1>8, <2>1
  <2>4. UpTo(Told, b, s, p)
    <3>1. CASE f.kind = "event"
      <4>1. s = Append(seen[c], f.at) /\ b = base[c] /\ p = f.at BY <1>8, <1>12, <1>13, <3>1
      <4>2. f.at \in Rows /\ client[c] < f.at /\ \A r \in Told : client[c] < r /\ r <= f.at => r = f.at
        BY <1>10, <2>2, <3>1
      <4> QED BY <1>9, <2>1, <4>1, <4>2, HandledOn
    <3>2. CASE f.kind # "event"
      <4>1. s = seen[c] /\ client[c] <= p BY <1>8, <1>9, <1>12, <2>2, <3>2
      <4>2. \A i \in 1 .. Len(s) : s[i] \in Nat
        <5>1. \A i \in 1 .. Len(s) : s[i] \in Rows BY <1>14, ElementOfSeq
        <5> QED BY <5>1, FrameFacts
      <4>3. p \in Nat BY <1>10, FrameFacts
      <4>4. \A i \in 1 .. Len(s) : s[i] <= client[c] BY <2>1, <4>1 DEF UpTo
      <4>5. \A i \in 1 .. Len(s) : s[i] <= p BY <1>9, <4>1, <4>2, <4>3, <4>4
      <4>6. ASSUME NEW r \in Told, b < r, r <= p PROVE base[c] < r /\ r <= client[c]
        <5>1. r \in Nat BY <1>9
        <5>2. CASE f.kind = "start" BY <1>8, <1>10, <1>13, <4>6, <5>1, <5>2
        <5>3. CASE f.kind = "close" BY <1>8, <1>13, <4>6, <5>3
        <5>4. CASE f.kind \notin {"start", "close"}
          <6>1. b = base[c] /\ p = f.at BY <1>8, <1>13, <5>4
          <6>2. ~(client[c] < r) BY <2>2, <3>2, <4>6, <5>4, <6>1
          <6> QED BY <1>9, <4>6, <5>1, <6>1, <6>2
        <5> QED BY <5>2, <5>3, <5>4
      <4> QED BY <2>1, <4>1, <4>5, <4>6 DEF UpTo
    <3> QED BY <3>1, <3>2
  <2> QED BY <1>15, <1>16, <1>17, <1>19, <2>3, <2>4 DEF Handled
<1>24. Wired(c)'
  <2>1. Chain(Told, p, w, cursor) BY <1>7, <1>8, ChainEmpty
  <2>2. ~At(c, "closed") => Unclosed(w) BY <1>5, <1>7 DEF Served, Wired
  <2> QED BY <1>4, <1>17, <1>19, <2>1, <2>2 DEF Wired, At
<1>25. Tasked(c)'
  <2>1. ~(conn[c].pc \in {"hello", "subscribe"}) BY <1>4, <1>5 DEF Served, Tasked
  <2>2. f.kind = "close" => conn[c].pc = "closed" BY <1>21 DEF At
  <2> QED BY <1>4, <1>5, <1>19, <1>20, <2>1, <2>2 DEF Served, Tasked, Streaming
<1>26. Queued(c)'
  <2>1. From(c)' = From(c) BY <1>4, <1>20, <1>21 DEF From, At
  <2> QED BY <1>4, <1>5, <1>19, <2>1 DEF Served, Queued
<1> QED BY <1>4, <1>18, <1>22, <1>23, <1>24, <1>25, <1>26, OneClient DEF Served

-------------------------------------------------------------------------------
(* The steps of the store *)

LEMMA EveryClient ==
  ASSUME Inv, StoreOK', Instants', Paged', cursor' = cursor, \A r \in Told' : r \in Told \/ cursor < r,
         UNCHANGED <<sub, conn, wire, client, seen, base>>
  PROVE  Inv'
<1>1. TablesOK' BY DEF Inv, TablesOK
<1>2. ASSUME NEW c \in Clients PROVE Served(c)'
  <2>1. Same(c) BY DEF Same
  <2> QED BY <2>1, SameServed DEF Inv
<1> QED BY <1>1, <1>2 DEF Inv

LEMMA ReadsClockKeeps == ASSUME Inv, ReadsClock PROVE Inv'
<1>1. /\ clock < MaxInstant /\ clock' = clock + 1 /\ units' = units \cup {clock + 1}
      /\ rows' = rows /\ late' = late /\ cursor' = cursor /\ page' = page /\ pushing' = pushing
      /\ UNCHANGED <<sub, conn, wire, client, seen, base>>
  BY DEF ReadsClock, publisher
<1>2. StoreOK /\ MaxInstant \in Nat BY TailAssumption DEF Inv
<1>3. clock + 1 \in Rows BY <1>1, <1>2 DEF StoreOK, Rows
<1>4. StoreOK' BY <1>1, <1>2, <1>3 DEF StoreOK
<1>5. Instants'
  <2>1. \A t \in rows \cup units \cup page \cup {cursor} : t <= clock BY DEF Inv, Instants
  <2>2. \A t \in rows \cup units \cup page \cup {cursor} : t \in Nat /\ clock \in Nat
    BY <1>2, FrameFacts DEF StoreOK
  <2>3. \A t \in rows \cup units \cup page \cup {cursor} : t <= clock + 1 /\ t # clock + 1 BY <2>1, <2>2
  <2>4. units \cap (rows \cup page \cup {cursor}) = {} BY DEF Inv, Instants
  <2>5. clock + 1 <= clock + 1 BY <2>2
  <2> QED BY <1>1, <2>3, <2>4, <2>5 DEF Instants
<1>6. Told' = Told BY <1>1 DEF Told
<1>7. Paged' BY <1>1, <1>6 DEF Inv, Paged
<1> QED BY <1>1, <1>4, <1>5, <1>6, <1>7, EveryClient

\* A row that commits behind a position is late there.
LEMMA CommitKeeps == ASSUME Inv, NEW t \in units, Commit(t) PROVE Inv'
<1>1. /\ units' = units \ {t} /\ rows' = rows \cup {t} /\ clock' = clock
      /\ late' = IF \E r \in {cursor} \cup page : t < r THEN late \cup {t} ELSE late
      /\ cursor' = cursor /\ page' = page /\ pushing' = pushing
      /\ UNCHANGED <<sub, conn, wire, client, seen, base>>
  BY DEF Commit, publisher
<1>2. StoreOK /\ t \in Rows BY DEF Inv, StoreOK
<1>3. StoreOK' BY <1>1, <1>2 DEF StoreOK
<1>4. units \cap (rows \cup page \cup {cursor}) = {} /\ \A r \in rows \cup units \cup page \cup {cursor} : r <= clock
  BY DEF Inv, Instants
<1>5. Instants' BY <1>1, <1>4 DEF Instants
<1>6. \A r \in {cursor} \cup page : r \in Nat /\ t \in Nat /\ r # t BY <1>2, <1>4, FrameFacts DEF StoreOK
<1>7. ASSUME t \in Told' PROVE \A r \in {cursor} \cup page : r < t
  <2>1. ~ \E r \in {cursor} \cup page : t < r BY <1>1, <1>7 DEF Told
  <2> QED BY <1>6, <2>1
<1>8. \A r \in Told' : r = t \/ r \in Told BY <1>1 DEF Told
<1>9. Paged'
  <2> SUFFICES ASSUME NEW p \in page PROVE cursor < p /\ \A r \in Told' : cursor < r /\ r <= p => r \in page
    BY <1>1 DEF Paged
  <2>1. cursor < p /\ \A r \in Told : cursor < r /\ r <= p => r \in page BY DEF Inv, Paged
  <2>2. t \in Told' => ~(t <= p) BY <1>6, <1>7
  <2> QED BY <1>8, <2>1, <2>2
<1> QED BY <1>1, <1>3, <1>5, <1>7, <1>8, <1>9, EveryClient

LEMMA DeleteDeskKeeps == ASSUME Inv, DeleteDesk PROVE Inv'
<1>1. /\ units' = units \ DeskRows /\ rows' = rows \ DeskRows /\ clock' = clock /\ late' = late
      /\ cursor' = cursor /\ page' = page /\ pushing' = pushing
      /\ UNCHANGED <<sub, conn, wire, client, seen, base>>
  BY DEF DeleteDesk, publisher
<1>2. StoreOK' BY <1>1 DEF Inv, StoreOK
<1>3. Instants' BY <1>1 DEF Inv, Instants
<1>4. \A r \in Told' : r \in Told BY <1>1 DEF Told
<1>5. Paged' BY <1>1, <1>4 DEF Inv, Paged
<1> QED BY <1>1, <1>2, <1>3, <1>4, <1>5, EveryClient

-------------------------------------------------------------------------------
(* The steps of the publisher *)

LEMMA ReadPageKeeps == ASSUME Inv, ReadPage PROVE Inv'
<1>1. /\ page' = PageOf(cursor, rows) /\ clock' = clock /\ units' = units /\ rows' = rows /\ late' = late
      /\ cursor' = cursor /\ pushing' = pushing
      /\ UNCHANGED <<sub, conn, wire, client, seen, base>>
  BY DEF ReadPage, store
<1>2. StoreOK /\ cursor \in Nat /\ rows \in SUBSET Rows BY FrameFacts DEF Inv, StoreOK
<1>3. /\ page' \subseteq rows /\ \A r \in page' : cursor < r
      /\ \A r \in page', s \in rows : cursor < s /\ s <= r => s \in page'
      /\ Cardinality(page') <= Page
  BY <1>1, <1>2, PageFacts
<1>4. StoreOK' BY <1>1, <1>2, <1>3 DEF StoreOK
<1>5. Instants' BY <1>1, <1>3 DEF Inv, Instants
<1>6. Told' = Told /\ Told \subseteq rows BY <1>1 DEF Told
<1>7. Paged' BY <1>1, <1>3, <1>6 DEF Paged
<1> QED BY <1>1, <1>4, <1>5, <1>6, <1>7, EveryClient

\* A chain that does not close ends within its bound.
LEMMA EndBelow ==
  ASSUME NEW T, NEW lo \in Nat, NEW top \in Nat, lo <= top, NEW s \in Seq(Frames), Chain(T, lo, s, top), Unclosed(s)
  PROVE  End(lo, s) <= top /\ End(lo, s) \in Nat
<1>1. PICK n \in Nat : n = Len(s) BY LenProperties
<1>2. CASE n = 0 BY <1>1, <1>2 DEF End
<1>3. CASE n # 0
  <2>1. n \in 1 .. n BY <1>3
  <2>2. s[n] \in Frames /\ s[n].kind # "close" /\ s[n].at <= top
    BY <1>1, <2>1, ElementOfSeq DEF Chain, Unclosed
  <2> QED BY <1>1, <1>3, <2>2, FrameFacts DEF End
<1> QED BY <1>2, <1>3

\* The page's first row goes on from every queue whose sender is held.
LEMMA OfferedServed ==
  ASSUME Inv, NEW c \in Clients, page # {}, NEW m \in page, \A p \in page : m <= p
  PROVE  LET o == Offered(sub[c], m) IN
         /\ o \in Subs /\ Len(o.queue) <= Queue /\ (sub[c] = NoSub => o = NoSub)
         /\ Chain(Told, From(c), o.queue, m)
         /\ o.open => \A r \in Told : End(From(c), o.queue) < r => m < r
<1>1. PICK s \in Subs : s = sub[c] BY ClientTypes
<1>2. Served(c) BY DEF Inv
<1>3. /\ s.open \in BOOLEAN /\ s.queue \in Seq(Events) /\ s.queue \in Seq(Frames) /\ Unclosed(s.queue)
      /\ Len(s.queue) \in Nat /\ Queue \in Nat
  BY SubFacts, LenProperties, TailAssumption
<1>4. /\ Chain(Told, From(c), s.queue, cursor) /\ Len(s.queue) <= Queue
      /\ s.open => \A r \in Told : End(From(c), s.queue) < r => cursor < r
  BY <1>1, <1>2 DEF Served, Queued, Fits
<1>5. m \in Rows /\ m \in Nat /\ cursor < m /\ cursor \in Nat /\ Told \subseteq Nat
      /\ \A r \in Told : cursor < r /\ r <= m => r \in page
  BY FrameFacts, ClientTypes DEF Inv, StoreOK, Paged
<1>6. Chain(Told, From(c), s.queue, m)
  <2>1. \A r \in Told : r \in Nat /\ (r \in Told \/ cursor < r) BY <1>5
  <2>2. cursor <= m BY <1>5
  <2> QED BY <1>3, <1>4, <1>5, <2>1, <2>2, ChainKept
<1>7. NoSub.open = FALSE BY DEF NoSub
<1>8. CASE ~s.open
  <2>1. Offered(sub[c], m) = s BY <1>1, <1>8 DEF Offered
  <2> QED BY <1>1, <1>4, <1>6, <1>8, <2>1
<1>9. CASE s.open /\ ~(Len(s.queue) < Queue)
  <2>1. PICK o : o = [s EXCEPT !.open = FALSE] OBVIOUS
  <2>2. Offered(sub[c], m) = o BY <1>1, <1>9, <2>1 DEF Offered
  <2>3. o \in Subs /\ o.open = FALSE /\ o.queue = s.queue BY <2>1 DEF Subs
  <2> QED BY <1>1, <1>4, <1>6, <1>7, <1>9, <2>2, <2>3
<1>10. CASE s.open /\ Len(s.queue) < Queue
  <2>1. PICK f : f = Frame("event", m) OBVIOUS
  <2>2. f \in Events /\ f \in Frames /\ f.kind = "event" /\ f.at = m BY <1>5, <2>1 DEF Frame, Frames, Events
  <2>3. PICK q : q = Append(s.queue, f) OBVIOUS
  <2>4. q \in Seq(Events) /\ Len(q) = Len(s.queue) + 1 BY <1>3, <2>2, <2>3, AppendProperties
  <2>5. Len(q) <= Queue BY <1>3, <1>10, <2>4
  <2>6. PICK o : o = [s EXCEPT !.queue = q] OBVIOUS
  <2>7. Offered(sub[c], m) = o BY <1>1, <1>10, <2>1, <2>3, <2>6 DEF Offered
  <2>8. o \in Subs /\ o.open = s.open /\ o.queue = q BY <2>4, <2>6 DEF Subs
  <2>9. From(c) \in Nat /\ From(c) <= cursor
    <3>1. Streaming(c) BY <1>1, <1>2, <1>7, <1>10 DEF Served, Tasked
    <3>2. CASE At(c, "live")
      <4>1. Unclosed(wire[c]) /\ Chain(Told, client[c], wire[c], cursor) /\ client[c] <= cursor
        BY <1>2, <3>2 DEF Served, Wired, Handled, At
      <4>2. Reach(c) <= cursor /\ Reach(c) \in Nat BY <4>1, ClientTypes, EndBelow DEF Reach
      <4> QED BY <3>2, <4>2 DEF From
    <3>3. CASE ~At(c, "live") BY <1>2, <3>1, <3>3, ClientTypes DEF Served, Tasked, From
    <3> QED BY <3>2, <3>3
  <2>10. End(From(c), s.queue) <= cursor /\ End(From(c), s.queue) \in Nat BY <1>3, <1>4, <1>5, <2>9, EndBelow
  <2>11. ASSUME NEW r \in Told, End(From(c), s.queue) < r, r <= m PROVE r = m
    <3>1. cursor < r BY <1>4, <1>10, <2>11
    <3>2. r \in page /\ r \in Nat BY <1>5, <2>11, <3>1
    <3> QED BY <1>5, <2>11, <3>2
  <2>12. Follows(Told, End(From(c), s.queue), f) /\ f.at <= m
    <3>1. End(From(c), s.queue) < m /\ End(From(c), s.queue) <= m /\ m <= m BY <1>5, <2>10
    <3> QED BY <2>2, <2>11, <3>1 DEF Follows
  <2>13. Chain(Told, From(c), q, m) /\ End(From(c), q) = m
    BY <1>3, <1>6, <2>2, <2>3, <2>12, ChainAppend
  <2> QED BY <1>1, <1>7, <1>10, <2>5, <2>7, <2>8, <2>13
<1> QED BY <1>3, <1>8, <1>9, <1>10

LEMMA PushKeeps == ASSUME Inv, Push PROVE Inv'
<1>1. PICK m : m = Min(page) OBVIOUS
<1>2. /\ page # {} /\ cursor' = m /\ sub' = [c \in Clients |-> Offered(sub[c], m)] /\ page' = page \ {m}
      /\ pushing' = (page' # {})
      /\ clock' = clock /\ units' = units /\ rows' = rows /\ late' = late
      /\ UNCHANGED <<conn, wire, client, seen, base>>
  BY <1>1 DEF Push, store
<1>3. StoreOK /\ page \in SUBSET Rows /\ page \in SUBSET Nat BY FrameFacts DEF Inv, StoreOK
<1>4. m \in page /\ \A p \in page : m <= p BY <1>1, <1>2, <1>3, Least
<1>5. m \in Rows /\ m \in Nat /\ cursor \in Nat /\ cursor < m BY <1>3, <1>4, ClientTypes, FrameFacts DEF Inv, Paged, StoreOK
<1>6. Told' = Told /\ Told \subseteq Nat BY <1>2, <1>3, FrameFacts DEF Told, StoreOK
<1>7. StoreOK'
  <2>1. IsFiniteSet(page) /\ Cardinality(page) \in Nat BY <1>3, RowsFinite
  <2>2. Cardinality(page \ {m}) = Cardinality(page) - 1 BY <1>4, <2>1, FS_RemoveElement
  <2>3. Cardinality(page) <= Page /\ Page \in Nat BY <1>3, TailAssumption DEF StoreOK
  <2>4. Cardinality(page') <= Page BY <1>2, <2>1, <2>2, <2>3
  <2>5. pushing' \in BOOLEAN BY <1>2
  <2> QED BY <1>2, <1>3, <1>5, <2>4, <2>5 DEF StoreOK
<1>8. Instants' BY <1>2, <1>4 DEF Inv, Instants
<1>9. Paged'
  <2> SUFFICES ASSUME NEW p \in page, p # m PROVE m < p /\ \A r \in Told : m < r /\ r <= p => r \in page /\ r # m
    BY <1>2, <1>6 DEF Paged
  <2>1. m < p BY <1>3, <1>4, <1>5
  <2>2. \A r \in Told : cursor < r /\ r <= p => r \in page BY DEF Inv, Paged
  <2>3. \A r \in Told : m < r => cursor < r /\ r # m BY <1>5, <1>6
  <2> QED BY <2>1, <2>2, <2>3
<1>10. ASSUME NEW c \in Clients
       PROVE  /\ sub'[c] \in Subs /\ Len(sub'[c].queue) <= Queue /\ (sub[c] = NoSub => sub'[c] = NoSub)
              /\ Chain(Told, From(c), sub'[c].queue, m)
              /\ sub'[c].open => \A r \in Told : End(From(c), sub'[c].queue) < r => m < r
  <2>1. sub'[c] = Offered(sub[c], m) BY <1>2
  <2> QED BY <1>2, <1>4, <2>1, OfferedServed
<1>11. TablesOK'
  <2>1. sub' \in [Clients -> Subs] BY <1>2, <1>10
  <2> QED BY <1>2, <2>1 DEF Inv, TablesOK
<1>12. ASSUME NEW c \in Clients PROVE Served(c)'
  <2>1. Served(c) BY DEF Inv
  <2>2. Fits(c)' BY <1>2, <1>10, <2>1 DEF Served, Fits, Streaming
  <2>3. Handled(c)'
    <3>1. client[c] <= m BY <1>5, <2>1, ClientTypes DEF Served, Handled
    <3> QED BY <1>2, <1>6, <2>1, <3>1 DEF Served, Handled
  <2>4. Wired(c)'
    <3>1. \A r \in Told : r \in Nat /\ (r \in Told \/ cursor < r) BY <1>6
    <3>2. cursor <= m /\ wire[c] \in Seq(Frames) /\ Chain(Told, client[c], wire[c], cursor)
      BY <1>5, <2>1, ClientTypes DEF Served, Wired
    <3>3. Chain(Told, client[c], wire[c], m) BY <1>5, <3>1, <3>2, ChainKept
    <3> QED BY <1>2, <1>6, <2>1, <3>3 DEF Served, Wired, At
  <2>5. Reach(c)' = Reach(c) /\ From(c)' = From(c) BY <1>2 DEF Reach, From, At
  <2>6. Tasked(c)'
    <3>1. conn[c].tail <= cursor => conn[c].tail <= m BY <1>5, ClientTypes
    <3> QED BY <1>2, <1>6, <1>10, <2>1, <2>5, <3>1 DEF Served, Tasked, Streaming
  <2>7. Queued(c)' BY <1>2, <1>6, <1>10, <2>5 DEF Queued
  <2> QED BY <2>2, <2>3, <2>4, <2>6, <2>7 DEF Served
<1> QED BY <1>7, <1>8, <1>9, <1>11, <1>12 DEF Inv

-------------------------------------------------------------------------------
(* The start, and starting again *)

\* A client without a connection is served by what it handled.
LEMMA Disconnected ==
  ASSUME NEW c \in Clients, sub[c] = NoSub, conn[c] = Closed, wire[c] = <<>>, Handled(c)
  PROVE  Served(c)
<1>1. Len(<<>>) = 0 /\ Wire \in Nat /\ Queue \in Nat BY TailAssumption
<1>2. Closed.pc = "closed" /\ Closed.batch = {} BY DEF Closed
<1>3. NoSub.queue = <<>> /\ NoSub.open = FALSE BY DEF NoSub
<1>4. Fits(c) BY <1>1, <1>2, <1>3 DEF Fits, Streaming
<1>5. Wired(c) BY <1>2, ChainEmpty DEF Wired, At
<1>6. Tasked(c) BY <1>2 DEF Tasked, Streaming
<1>7. Queued(c) BY <1>3, ChainEmpty DEF Queued
<1> QED BY <1>4, <1>5, <1>6, <1>7 DEF Served

LEMMA EmptyTypes == <<>> \in Seq(Frames) /\ <<>> \in Seq(Rows) /\ NoSub \in Subs /\ Closed \in Conns
<1>1. <<>> \in Seq(Events) OBVIOUS
<1>2. NoSub \in Subs BY <1>1 DEF NoSub, Subs
<1>3. Closed \in Conns BY FrameFacts DEF Closed, Conns
<1> QED BY <1>2, <1>3

LEMMA InvInit == Init => Inv
<1> SUFFICES ASSUME Init PROVE Inv OBVIOUS
<1>1. MaxInstant \in Nat \ {0} /\ Page \in Nat BY TailAssumption
<1>2. 1 \in Rows /\ MaxInstant \in Rows BY <1>1 DEF Rows
<1>3. Cardinality({}) = 0 BY FS_EmptySet
<1>4. StoreOK
  <2>1. page = {} /\ 0 <= Page BY <1>1 DEF Init
  <2>2. Cardinality(page) <= Page BY <1>3, <2>1
  <2>3. pushing \in BOOLEAN BY DEF Init
  <2> QED BY <1>2, <2>2, <2>3 DEF Init, StoreOK
<1>5. TablesOK BY <1>2, EmptyTypes, FrameFacts DEF Init, TablesOK
<1>6. Instants BY DEF Init, Instants
<1>7. Paged BY DEF Init, Paged
<1>8. ASSUME NEW c \in Clients PROVE Served(c)
  <2>1. client[c] = 0 /\ base[c] = MaxInstant /\ seen[c] = <<>> /\ cursor = 1 BY DEF Init, None
  <2>2. 1 .. Len(<<>>) = {} OBVIOUS
  <2>3. \A r \in Told : ~(base[c] < r /\ r <= client[c]) BY <1>1, <1>4, <2>1, FrameFacts DEF StoreOK, Told
  <2>4. Handled(c) BY <2>1, <2>2, <2>3 DEF Handled, UpTo
  <2> QED BY <2>4, Disconnected DEF Init
<1> QED BY <1>4, <1>5, <1>6, <1>7, <1>8 DEF Inv

LEMMA RestartKeeps == ASSUME Inv, Restart PROVE Inv'
<1>1. PICK n : n = clock + 1 OBVIOUS
<1>2. /\ clock < MaxInstant /\ clock' = n /\ units' = {} /\ rows' = rows \cup {n} /\ late' = late
      /\ cursor' = Max(rows \cup {n}) /\ page' = {} /\ pushing' = FALSE
      /\ conn' = [c \in Clients |-> Closed] /\ wire' = [c \in Clients |-> <<>>]
      /\ sub' = [c \in Clients |-> NoSub] /\ UNCHANGED <<client, seen, base>>
  BY <1>1 DEF Restart
<1>3. StoreOK /\ MaxInstant \in Nat /\ Page \in Nat BY TailAssumption DEF Inv
<1>4. n \in Rows /\ n \in Nat /\ clock < n /\ clock \in Nat BY <1>1, <1>2, <1>3 DEF StoreOK, Rows
<1>5. \A r \in rows \cup {cursor} : r \in Nat /\ r < n
  <2>1. \A r \in rows \cup {cursor} : r <= clock BY DEF Inv, Instants
  <2>2. \A r \in rows \cup {cursor} : r \in Nat BY <1>3, FrameFacts DEF StoreOK
  <2> QED BY <1>4, <2>1, <2>2
<1>6. cursor' = n
  <2>1. \A y \in rows \cup {n} : n >= y /\ y \in Nat BY <1>4, <1>5
  <2>2. ASSUME NEW x \in rows \cup {n}, \A y \in rows \cup {n} : x >= y PROVE x = n BY <1>4, <2>1, <2>2
  <2> QED BY <1>2, <2>1, <2>2 DEF Max
<1>7. StoreOK'
  <2>1. Cardinality({}) = 0 /\ 0 <= Page BY <1>3, FS_EmptySet
  <2>2. Cardinality(page') <= Page BY <1>2, <2>1
  <2>3. pushing' \in BOOLEAN BY <1>2
  <2> QED BY <1>2, <1>3, <1>4, <1>6, <2>2, <2>3 DEF StoreOK
<1>8. TablesOK' BY <1>2, EmptyTypes DEF Inv, TablesOK
<1>9. Instants'
  <2>1. \A r \in rows \cup {n} : r <= n BY <1>4, <1>5
  <2> QED BY <1>2, <1>6, <2>1 DEF Instants
<1>10. Paged' BY <1>2 DEF Paged
<1>11. ASSUME NEW c \in Clients PROVE Served(c)'
  <2>1. client[c] <= cursor /\ UpTo(Told, base[c], seen[c], client[c]) BY DEF Inv, Served, Handled
  <2>2. client[c] \in Nat /\ client[c] < n BY <1>4, <1>5, <2>1, ClientTypes
  <2>3. \A r \in Told' : r \in Told \/ r = n BY <1>2 DEF Told
  <2>4. UpTo(Told', base[c], seen[c], client[c])
    <3>1. \A r \in Told' : r <= client[c] => r \in Told BY <1>4, <2>2, <2>3
    <3> QED BY <2>1, <3>1 DEF UpTo
  <2>5. client[c] <= n BY <1>4, <2>2
  <2>6. Handled(c)' BY <1>2, <1>6, <2>4, <2>5 DEF Handled
  <2>7. sub'[c] = NoSub /\ conn'[c] = Closed /\ wire'[c] = <<>> BY <1>2
  <2>8. Len(<<>>) = 0 /\ Wire \in Nat /\ Queue \in Nat BY TailAssumption
  <2>9. Closed.pc = "closed" /\ Closed.batch = {} /\ NoSub.queue = <<>> /\ NoSub.open = FALSE
    BY DEF Closed, NoSub
  <2>10. Fits(c)' BY <2>7, <2>8, <2>9 DEF Fits, Streaming
  <2>11. Wired(c)' BY <2>7, <2>9, ChainEmpty DEF Wired, At
  <2>12. Tasked(c)' BY <2>7, <2>9 DEF Tasked, Streaming
  <2>13. Queued(c)' BY <2>7, <2>9, ChainEmpty DEF Queued
  <2> QED BY <2>6, <2>10, <2>11, <2>12, <2>13 DEF Served
<1> QED BY <1>7, <1>8, <1>9, <1>10, <1>11 DEF Inv

-------------------------------------------------------------------------------
(* The theorems *)

LEMMA InvStep == Inv /\ [Next]_vars => Inv'
<1> SUFFICES ASSUME Inv, [Next]_vars PROVE Inv' OBVIOUS
<1>1. CASE ReadsClock BY <1>1, ReadsClockKeeps
<1>2. CASE DeleteDesk BY <1>2, DeleteDeskKeeps
<1>3. CASE ReadPage BY <1>3, ReadPageKeeps
<1>4. CASE Push BY <1>4, PushKeeps
<1>5. CASE Restart BY <1>5, RestartKeeps
<1>6. CASE \E t \in units : Commit(t) BY <1>6, CommitKeeps
<1>7. CASE \E c \in Clients : Serves(c) \/ Open(c) \/ Receive(c) \/ Drop(c)
  <2>1. PICK c \in Clients : Serves(c) \/ Open(c) \/ Receive(c) \/ Drop(c) BY <1>7
  <2>2. CASE Serves(c)
    BY <2>2, HandshakeServed, SubscribeServed, ReplayServed, SendReplayServed, SendTailServed, SendLiveServed,
       CloseSlowServed DEF Serves
  <2>3. CASE Open(c) BY <2>3, OpenServed
  <2>4. CASE Receive(c) BY <2>4, ReceiveServed
  <2>5. CASE Drop(c) BY <2>5, DropServed
  <2> QED BY <2>1, <2>2, <2>3, <2>4, <2>5
<1>8. CASE UNCHANGED vars
  <2>1. /\ clock' = clock /\ units' = units /\ rows' = rows /\ late' = late
        /\ cursor' = cursor /\ page' = page /\ pushing' = pushing
        /\ UNCHANGED <<sub, conn, wire, client, seen, base>>
    BY <1>8 DEF vars, store, publisher
  <2>2. StoreOK' /\ Told' = Told BY <2>1 DEF Inv, StoreOK, Told
  <2>3. Instants' /\ Paged' BY <2>1, <2>2 DEF Inv, Instants, Paged
  <2> QED BY <2>1, <2>2, <2>3, EveryClient
<1> QED BY <1>1, <1>2, <1>3, <1>4, <1>5, <1>6, <1>7, <1>8 DEF Next

LEMMA Always == Spec => []Inv
BY InvInit, InvStep, PTL DEF Spec

\* Tables, frames and positions have their types, no queue or wire is over its limit, no
\* page is over Page rows, and a batch waits exactly while its rows are being sent.
THEOREM Typing == Spec => []TypeOK
<1>1. Inv => TypeOK
  <2> SUFFICES ASSUME Inv PROVE TypeOK OBVIOUS
  <2>1. StoreOK BY DEF Inv
  <2>2. ASSUME NEW c \in Clients
        PROVE  /\ sub[c].open \in BOOLEAN /\ Len(sub[c].queue) <= Queue
               /\ \A i \in DOMAIN sub[c].queue : sub[c].queue[i] \in {Frame("event", r) : r \in Rows}
               /\ conn[c].pc \in {"closed", "hello", "subscribe", "replay", "send", "tail", "live"}
               /\ conn[c].pc = "send" <=> conn[c].batch # {}
               /\ {conn[c].after, conn[c].tail, conn[c].at} \subseteq {None} \cup Rows
               /\ \A i \in DOMAIN wire[c] :
                    wire[c][i].kind \in {"event", "tail", "start", "close"} /\ wire[c][i].at \in {None} \cup Rows
               /\ Len(wire[c]) <= Wire
               /\ client[c] \in {None} \cup Rows /\ seen[c] \in Seq(Rows) /\ base[c] \in Rows
    <3>1. /\ Len(sub[c].queue) <= Queue /\ Len(wire[c]) <= Wire /\ (conn[c].pc = "send" <=> conn[c].batch # {})
      BY DEF Inv, Served, Fits
    <3>2. /\ sub[c] \in Subs /\ conn[c] \in Conns /\ wire[c] \in Seq(Frames)
          /\ client[c] \in Spots /\ seen[c] \in Seq(Rows) /\ base[c] \in Rows
      BY ClientTypes
    <3>3. sub[c].open \in BOOLEAN /\ sub[c].queue \in Seq(Events) BY <3>2, SubFacts
    <3>4. ASSUME NEW i \in DOMAIN sub[c].queue PROVE sub[c].queue[i] \in {Frame("event", r) : r \in Rows}
      <4>1. i \in 1 .. Len(sub[c].queue) BY <3>3, LenProperties
      <4>2. PICK f \in Events : f = sub[c].queue[i] BY <3>3, <4>1, ElementOfSeq
      <4>3. f = Frame("event", f.at) /\ f.at \in Rows BY DEF Events, Frame
      <4> QED BY <4>2, <4>3
    <3>5. ASSUME NEW i \in DOMAIN wire[c]
          PROVE wire[c][i].kind \in {"event", "tail", "start", "close"} /\ wire[c][i].at \in {None} \cup Rows
      <4>1. i \in 1 .. Len(wire[c]) BY <3>2, LenProperties
      <4>2. PICK f \in Frames : f = wire[c][i] BY <3>2, <4>1, ElementOfSeq
      <4>3. f.kind \in {"event", "tail", "start", "close"} BY DEF Frames, Frame
      <4>4. f.at \in {None} \cup Rows BY FrameFacts DEF Spots
      <4> QED BY <4>2, <4>3, <4>4
    <3>6. conn[c].pc \in {"closed", "hello", "subscribe", "replay", "send", "tail", "live"} BY <3>2 DEF Conns
    <3>7. conn[c].after \in Spots /\ conn[c].tail \in Spots /\ conn[c].at \in Spots BY <3>2 DEF Conns
    <3> QED BY <3>1, <3>2, <3>3, <3>4, <3>5, <3>6, <3>7 DEF Spots
  <2> QED BY <2>1, <2>2 DEF StoreOK, TypeOK
<1> QED BY <1>1, Always, PTL

\* No client handles an event twice, over any number of reconnects, full queues, lost
\* sockets, restarts and deletions: a replay ends at the tail its subscription was given,
\* and the queue goes on from there.
THEOREM Once == Spec => []SeenOnce
<1>1. Inv => SeenOnce
  <2> SUFFICES ASSUME Inv, NEW c \in Clients, NEW a \in DOMAIN seen[c], NEW b \in DOMAIN seen[c],
                      seen[c][a] = seen[c][b]
               PROVE  a = b
    BY DEF SeenOnce, IsInjective
  <2>1. UpTo(Told, base[c], seen[c], client[c]) BY DEF Inv, Served, Handled
  <2>2. seen[c] \in Seq(Rows) BY ClientTypes
  <2>3. a \in 1 .. Len(seen[c]) /\ b \in 1 .. Len(seen[c]) BY <2>2, LenProperties
  <2>4. seen[c][a] \in Nat /\ seen[c][b] \in Nat BY <2>2, <2>3, ElementOfSeq, FrameFacts
  <2>5. a < b => seen[c][a] < seen[c][b] BY <2>1, <2>3 DEF UpTo
  <2>6. b < a => seen[c][b] < seen[c][a] BY <2>1, <2>3 DEF UpTo
  <2>7. ~(a < b) /\ ~(b < a) BY <2>4, <2>5, <2>6
  <2> QED BY <2>3, <2>7
<1> QED BY <1>1, Always, PTL

\* Between where a client was told to start and where it is, it has handled every event
\* that the publisher had not passed when it committed.
THEOREM WithoutGaps == Spec => []Gapless
<1>1. Inv => Gapless
  <2> SUFFICES ASSUME Inv, NEW c \in Clients, NEW r \in rows \ late, base[c] < r, r <= client[c]
               PROVE  r \in ToSet(seen[c])
    BY DEF Gapless
  <2>1. PICK i \in 1 .. Len(seen[c]) : seen[c][i] = r BY DEF Inv, Served, Handled, UpTo, Told
  <2>2. seen[c] \in Seq(Rows) BY ClientTypes
  <2>3. i \in DOMAIN seen[c] BY <2>1, <2>2, LenProperties
  <2> QED BY <2>1, <2>3 DEF ToSet
<1> QED BY <1>1, Always, PTL

===============================================================================
