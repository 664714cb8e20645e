------------------------------- MODULE CnProofs --------------------------------
(***************************************************************************)
(* What is proved of CnExecution, for any orders, prices, times and bounds *)
(***************************************************************************)
EXTENDS CnExecution, FiniteSetTheorems, SequenceTheorems, TLAPS

-------------------------------------------------------------------------------
(* Types *)

Statuses == {"Trading", "Pause", "Close"}
Lasts    == {0} \cup Prices
Volumes  == 0 .. MaxVolume
Prevs    == {NoVolume} \cup Volumes
Days     == {Day(t) : t \in Times}
Wants    == Orders \cup {"poll", "none"}
Gates    == [kind : {"status"}, status : Statuses]
Quotes   == [kind : {"quote"}, last : Lasts, bid : BOOLEAN, ask : BOOLEAN, want : Wants,
             known : SUBSET Orders]
Items    == Gates \cup Quotes
Bases    == UNION {[S -> Volumes] : S \in SUBSET Limits}
Insts    == [busy : BOOLEAN, ready : BOOLEAN, day : Days, status : Statuses \cup {"none"}, last : Lasts,
             prev : Prevs, base : Bases]
Engines  == [status : Statuses, book : Quotes]
Rows     == [st : {"NEW", "HANDED", "RESTING", "FILLED", "CANCELED", "REJECTED"}, day : Days]
Snaps    == [volume : Volumes, last : Lasts, ok : BOOLEAN, known : SUBSET Orders]
Polls    == [pc : {"idle", "held", "crossing", "restoring"}, snap : Snaps, released : SUBSET Orders,
             books : Seq({"BUY", "SELL"})]
Reqs     == [pc : {"idle", "confirm", "place", "settle", "restoring", "failed", "done"}, lost : BOOLEAN]

Shapes ==
  /\ now \in Times /\ alert \in BOOLEAN
  /\ boot \in [on : BOOLEAN, at : Times] /\ overslept \in BOOLEAN
  /\ inst \in Insts /\ wire \in Seq(Items) /\ engine \in Engines
  /\ order \in [Orders -> Rows] /\ cancels \subseteq Orders
  /\ poll \in Polls /\ req \in [Orders -> Reqs]
  /\ \A o \in Orders : req[o].pc \notin {"idle", "done"} => o \in Markets
  /\ bought \in Nat /\ sold \in Nat /\ opening \in Int
  /\ peak = inst.prev /\ early \subseteq Limits \X BOOLEAN
  /\ torn \in BOOLEAN /\ crowded \in BOOLEAN /\ restarts \in Nat

LEMMA Sides ==
  /\ Buys \cap Sells = {} /\ IsFiniteSet(Orders) /\ Markets \subseteq Orders
  /\ Buys \subseteq Orders /\ Sells \subseteq Orders /\ Limits \subseteq Orders
  /\ Limits \cap Markets = {} /\ Limits \cup Markets = Orders
  /\ "poll" \notin Orders /\ "none" \notin Orders
BY CnAssumption DEF Orders, Limits

LEMMA Bounds ==
  /\ 0 \in Volumes /\ 0 \in Lasts /\ Prices \subseteq Nat /\ Volumes \subseteq Nat /\ 0 \in Days
  /\ NoVolume \in Prevs /\ Volumes \subseteq Prevs /\ Prevs \subseteq Int
  /\ \A v \in Volumes : v > NoVolume /\ v # NoVolume
<1>1. Day(0) = 0 BY DEF Day
<1>2. 0 \in Volumes /\ Volumes \subseteq Nat BY CnAssumption DEF Volumes
<1>3. NoVolume \in Int /\ \A v \in Nat : v > NoVolume /\ v # NoVolume BY DEF NoVolume
<1>4. 0 \in Lasts /\ Prices \subseteq Nat /\ 0 \in Days BY <1>1, CnAssumption DEF Lasts, Days
<1> QED BY <1>2, <1>3, <1>4 DEF Prevs

LEMMA Ids == {"poll", "none"} \subseteq Wants /\ Orders \subseteq Wants BY DEF Wants

\* A publication is put behind what is on the way, and clears what its stamp overtakes.
LEMMA UnwantedType ==
  ASSUME NEW w \in Wants, NEW q \in Items
  PROVE  /\ Unwanted(w, q) \in Items /\ Unwanted(w, q).kind = q.kind
         /\ q.kind = "status" => Unwanted(w, q) = q
         /\ q.kind = "quote" =>
              /\ Unwanted(w, q).last = q.last /\ Unwanted(w, q).bid = q.bid
              /\ Unwanted(w, q).ask = q.ask /\ Unwanted(w, q).known = q.known
              /\ Unwanted(w, q).want = IF q.want = w THEN "none" ELSE q.want
         /\ q \in Quotes => Unwanted(w, q) \in Quotes
<1>1. CASE q \in Gates BY <1>1 DEF Gates, Items, Unwanted, Quotes
<1>2. CASE q \in Quotes
  <2>1. PICK u : u = [q EXCEPT !.want = "none"] OBVIOUS
  <2>2. u \in Quotes /\ u.kind = "quote" /\ u.last = q.last /\ u.bid = q.bid /\ u.ask = q.ask
        /\ u.known = q.known /\ u.want = "none"
    BY <1>2, <2>1, Ids DEF Quotes
  <2>3. q.kind = "quote" BY <1>2 DEF Quotes
  <2> QED BY <1>2, <2>1, <2>2, <2>3 DEF Unwanted, Items
<1> QED BY <1>1, <1>2 DEF Items

LEMMA PublishType ==
  ASSUME wire \in Seq(Items), engine \in Engines, NEW w \in Wants, NEW items \in Seq(Items),
         Publish(items, w)
  PROVE  /\ wire' \in Seq(Items) /\ Len(wire') = Len(wire) + Len(items)
         /\ \A i \in 1 .. Len(wire) : wire'[i] = Unwanted(w, wire[i])
         /\ \A i \in 1 .. Len(items) : wire'[Len(wire) + i] = items[i]
         /\ engine' \in Engines /\ engine'.status = engine.status
         /\ engine'.book = Unwanted(w, engine.book)
<1> DEFINE old == [i \in DOMAIN wire |-> Unwanted(w, wire[i])]
<1>1. DOMAIN wire = 1 .. Len(wire) /\ Len(wire) \in Nat /\ Len(items) \in Nat BY LenProperties
<1>2. \A i \in 1 .. Len(wire) : old[i] = Unwanted(w, wire[i]) /\ old[i] \in Items
  BY <1>1, UnwantedType, ElementOfSeq
<1>3. old \in [1 .. Len(wire) -> Items] BY <1>1, <1>2
<1>4. old \in Seq(Items) /\ Len(old) = Len(wire)
  <2>1. old \in Seq(Items) BY <1>1, <1>3, SeqDef
  <2> QED BY <1>1, <2>1, LenProperties
<1>5. wire' = old \o items BY DEF Publish
<1>6. /\ wire' \in Seq(Items) /\ Len(wire') = Len(wire) + Len(items)
      /\ \A i \in 1 .. Len(wire) + Len(items) :
           wire'[i] = IF i <= Len(wire) THEN old[i] ELSE items[i - Len(wire)]
  <2>1. /\ old \o items \in Seq(Items) /\ Len(old \o items) = Len(old) + Len(items)
        /\ \A i \in 1 .. Len(old) + Len(items) :
             (old \o items)[i] = IF i <= Len(old) THEN old[i] ELSE items[i - Len(old)]
    BY <1>4, ConcatProperties
  <2> QED BY <1>4, <1>5, <2>1
<1>7. \A i \in 1 .. Len(wire) : old[i] = Unwanted(w, wire[i]) BY <1>2
<1> HIDE DEF old
<1>71. \A i \in 1 .. Len(wire) : wire'[i] = Unwanted(w, wire[i])
  BY <1>1, <1>6, <1>7
<1>72. ASSUME NEW i \in 1 .. Len(items) PROVE wire'[Len(wire) + i] = items[i]
  <2>1. PICK k : k = Len(wire) + i OBVIOUS
  <2>2. k \in 1 .. Len(wire) + Len(items) /\ ~(k <= Len(wire)) /\ k - Len(wire) = i BY <1>1, <2>1
  <2> QED BY <1>6, <2>1, <2>2
<1>8. engine.book \in Quotes BY DEF Engines
<1>9. PICK b : b = Unwanted(w, engine.book) OBVIOUS
<1>10. b \in Quotes BY <1>8, <1>9, UnwantedType DEF Items
<1>11. engine' = [engine EXCEPT !.book = b] BY <1>9 DEF Publish
<1>12. engine' \in Engines /\ engine'.status = engine.status /\ engine'.book = b
  BY <1>10, <1>11 DEF Engines
<1> QED BY <1>6, <1>71, <1>72, <1>9, <1>12

LEMMA GateType == ASSUME NEW s \in Statuses PROVE <<Gate(s)>> \in Seq(Items) /\ StatusChange(s) \in Seq(Items)
<1>1. Gate(s) \in Items BY DEF Gate, Gates, Items
<1> QED BY <1>1 DEF StatusChange

LEMMA QuoteType ==
  ASSUME NEW last \in Lasts, NEW bid \in BOOLEAN, NEW ask \in BOOLEAN, NEW w \in Wants
  PROVE  Quote(last, bid, ask, w) \in Quotes
BY DEF Quote, Quotes, Admitted

LEMMA IdleType ==
  ASSUME NEW w \in Wants
  PROVE  /\ IdleQuote(w) \in Quotes /\ IdleQuote(w).want = w
         /\ IdleQuote(w).bid = FALSE /\ IdleQuote(w).ask = FALSE
<1>1. PICK q : q = Quote(0, FALSE, FALSE, w) OBVIOUS
<1>2. q \in Quotes /\ q.want = w /\ q.bid = FALSE /\ q.ask = FALSE
  BY <1>1, Bounds, QuoteType DEF Quote
<1>3. PICK i : i = [q EXCEPT !.known = {}] OBVIOUS
<1>4. i \in Quotes /\ i.want = w /\ i.bid = FALSE /\ i.ask = FALSE BY <1>2, <1>3 DEF Quotes
<1> QED BY <1>1, <1>3, <1>4 DEF IdleQuote

LEMMA NoInstType ==
  ASSUME NEW s \in Statuses
  PROVE  /\ [NoInst EXCEPT !.status = s] \in Insts /\ [NoInst EXCEPT !.status = s].prev = NoVolume
         /\ [NoInst EXCEPT !.status = s].busy = FALSE /\ [NoInst EXCEPT !.status = s].ready = FALSE
         /\ NoInst \in Insts /\ NoInst.prev = NoVolume /\ NoInst.busy = FALSE /\ NoInst.ready = FALSE
<1>1. [o \in {} |-> 0] \in Bases
  <2>1. [o \in {} |-> 0] \in [{} -> Volumes] OBVIOUS
  <2> QED BY <2>1 DEF Bases
<1>2. NoInst \in [busy : {FALSE}, ready : {FALSE}, day : Days, status : {"none"}, last : Lasts,
                  prev : {NoVolume}, base : Bases]
  BY <1>1, Bounds DEF NoInst
<1> QED BY <1>2, Bounds DEF Insts

LEMMA NowTypes ==
  ASSUME now \in Times
  PROVE  /\ Day(now) \in Days /\ \A r \in BOOLEAN : StatusFor(now, r) \in Statuses
         /\ StatusFor(boot.at, FALSE) \in Statuses
BY DEF Days, StatusFor, Statuses

LEMMA ForgottenType ==
  ASSUME NEW i \in Insts
  PROVE  /\ Forgotten(i) \in Insts /\ Forgotten(i).prev = NoVolume /\ Forgotten(i).busy = i.busy
         /\ Forgotten(i).ready = i.ready
<1>1. [o \in {} |-> 0] \in Bases
  <2>1. [o \in {} |-> 0] \in [{} -> Volumes] OBVIOUS
  <2> QED BY <2>1 DEF Bases
<1>2. PICK e : e = [o \in {} |-> 0] OBVIOUS
<1>3. PICK f : f = [i EXCEPT !.prev = NoVolume, !.base = e] OBVIOUS
<1>4. f \in Insts /\ f.prev = NoVolume /\ f.busy = i.busy /\ f.ready = i.ready
  BY <1>1, <1>2, <1>3, Bounds DEF Insts
<1>5. Forgotten(i) = f BY <1>2, <1>3 DEF Forgotten
<1> QED BY <1>4, <1>5

LEMMA EstablishedType ==
  ASSUME inst \in Insts, poll \in Polls, now \in Times
  PROVE  /\ Established \in Insts /\ Established.prev = inst.prev
         /\ Established.busy = inst.busy /\ Established.ready = TRUE
<1>1. PICK d : d = Day(now) OBVIOUS
<1>2. PICK l : l = poll.snap.last OBVIOUS
<1>3. d \in Days /\ l \in Lasts BY <1>1, <1>2, NowTypes DEF Polls, Snaps
<1>4. PICK e : e = [inst EXCEPT !.ready = TRUE, !.day = d, !.last = l] OBVIOUS
<1>5. e \in Insts /\ e.prev = inst.prev /\ e.busy = inst.busy /\ e.ready = TRUE
  BY <1>3, <1>4 DEF Insts
<1>6. Established = e BY <1>1, <1>2, <1>4 DEF Established
<1> QED BY <1>5, <1>6

LEMMA AcceptedType ==
  ASSUME inst \in Insts, poll \in Polls, now \in Times
  PROVE  /\ Accepted \in Insts /\ Accepted.prev = poll.snap.volume
         /\ Accepted.busy = inst.busy /\ Accepted.ready = TRUE
<1>1. PICK v : v = poll.snap.volume OBVIOUS
<1>2. v \in Volumes BY <1>1 DEF Polls, Snaps
<1>3. PICK b : b = [o \in Resting |-> IF o \in DOMAIN inst.base THEN inst.base[o] ELSE v] OBVIOUS
<1>4. b \in Bases
  <2>1. PICK S \in SUBSET Limits : inst.base \in [S -> Volumes] BY DEF Insts, Bases
  <2>2. b \in [Resting -> Volumes] BY <1>2, <1>3, <2>1
  <2>3. Resting \in SUBSET Limits BY DEF Resting
  <2> QED BY <2>2, <2>3 DEF Bases
<1>5. PICK e : e = Established OBVIOUS
<1>6. e \in Insts /\ e.busy = inst.busy /\ e.ready = TRUE BY <1>5, EstablishedType
<1>7. PICK a : a = [e EXCEPT !.status = "Trading", !.prev = v, !.base = b] OBVIOUS
<1>8. a \in Insts /\ a.prev = v /\ a.busy = inst.busy /\ a.ready = TRUE
  <2>1. v \in Prevs BY <1>2, Bounds
  <2> QED BY <2>1, <1>4, <1>6, <1>7 DEF Insts, Statuses
<1>9. Accepted = a BY <1>1, <1>3, <1>5, <1>7 DEF Accepted
<1> QED BY <1>1, <1>8, <1>9

LEMMA FailType ==
  ASSUME inst \in Insts, wire \in Seq(Items), engine \in Engines, FailLocal
  PROVE  /\ inst' \in Insts /\ inst'.busy = FALSE /\ inst'.ready = FALSE /\ inst'.prev = NoVolume /\ peak' = NoVolume
         /\ wire' \in Seq(Items) /\ engine' \in Engines
<1>1. PICK i : i = [inst EXCEPT !.ready = FALSE, !.busy = FALSE, !.status = "Pause"] OBVIOUS
<1>2. i \in Insts /\ i.busy = FALSE /\ i.ready = FALSE BY <1>1 DEF Insts, Statuses
<1>3. inst' = Forgotten(i) BY <1>1 DEF FailLocal
<1>4. StatusChange("Pause") \in Seq(Items) BY GateType DEF Statuses
<1>5. wire' \in Seq(Items) /\ engine' \in Engines BY <1>4, PublishType, Ids DEF FailLocal
<1> QED BY <1>2, <1>3, <1>5, ForgottenType DEF FailLocal

LEMMA BaseType ==
  ASSUME inst \in Insts, NEW o \in Limits
  PROVE  /\ Baselined(o) \in Insts /\ Baselined(o).prev = inst.prev
         /\ Baselined(o).busy = inst.busy /\ Baselined(o).ready = inst.ready
<1>1. PICK S \in SUBSET Limits : inst.base \in [S -> Volumes] BY DEF Insts, Bases
<1>10. PICK v : v = IF inst.prev = NoVolume THEN 0 ELSE inst.prev OBVIOUS
<1>11. v \in Volumes BY <1>10, Bounds DEF Insts, Prevs
<1>2. PICK b : b = [l \in DOMAIN inst.base \cup {o} |-> IF l = o THEN v ELSE inst.base[l]] OBVIOUS
<1>3. b \in [S \cup {o} -> Volumes] BY <1>1, <1>11, <1>2
<1>4. b \in Bases BY <1>3 DEF Bases
<1>5. PICK i : i = [inst EXCEPT !.base = b] OBVIOUS
<1>6. i \in Insts /\ i.prev = inst.prev /\ i.busy = inst.busy /\ i.ready = inst.ready
  BY <1>4, <1>5 DEF Insts
<1>7. Baselined(o) = i BY <1>10, <1>2, <1>5 DEF Baselined
<1> QED BY <1>6, <1>7

LEMMA RowEdits ==
  ASSUME order \in [Orders -> Rows], now \in Times, NEW o \in Orders
  PROVE  /\ Handed(o) \in [Orders -> Rows]
         /\ \A st \in {"FILLED", "CANCELED", "REJECTED", "RESTING"} :
              [order EXCEPT ![o].st = st] \in [Orders -> Rows]
<1>1. PICK r : r = [st |-> "HANDED", day |-> Day(now)] OBVIOUS
<1>2. r \in Rows BY <1>1, NowTypes DEF Rows
<1>3. Handed(o) \in [Orders -> Rows] BY <1>1, <1>2 DEF Handed
<1>4. ASSUME NEW st \in {"FILLED", "CANCELED", "REJECTED", "RESTING"}
      PROVE  [order EXCEPT ![o].st = st] \in [Orders -> Rows]
  <2>1. PICK x : x = [order[o] EXCEPT !.st = st] OBVIOUS
  <2>2. x \in Rows BY <2>1 DEF Rows
  <2> QED BY <2>1, <2>2
<1> QED BY <1>3, <1>4

\* Requests only move within their states; a MARKET's are a MARKET's.
ReqsOK(r) == r \in [Orders -> Reqs] /\ \A o \in Orders : r[o].pc \notin {"idle", "done"} => o \in Markets

LEMMA LosingType ==
  ASSUME ReqsOK(req)
  PROVE  /\ ReqsOK(Losing)
         /\ \A x \in Orders : /\ Losing[x].pc = req[x].pc
                              /\ Losing[x].lost = (req[x].lost \/ req[x].pc \in Section)
<1> USE DEF ReqsOK
<1>1. ASSUME NEW x \in Orders
      PROVE  /\ [req[x] EXCEPT !.lost = (@ \/ req[x].pc \in Section)] \in Reqs
             /\ [req[x] EXCEPT !.lost = (@ \/ req[x].pc \in Section)].pc = req[x].pc
             /\ [req[x] EXCEPT !.lost = (@ \/ req[x].pc \in Section)].lost = (req[x].lost \/ req[x].pc \in Section)
  BY DEF Reqs
<1> QED BY <1>1 DEF Losing

LEMMA ReqEdits ==
  ASSUME ReqsOK(req), NEW o \in Orders
  PROVE  /\ ReqsOK(Losing) /\ ReqsOK([req EXCEPT ![o] = Done]) /\ ReqsOK([Losing EXCEPT ![o] = Done])
         /\ o \in Markets =>
              /\ ReqsOK([req EXCEPT ![o] = [pc |-> "confirm", lost |-> FALSE]])
              /\ \A pc \in {"place", "settle", "restoring", "failed"} : ReqsOK([req EXCEPT ![o].pc = pc])
<1> USE DEF ReqsOK
<1>1. PICK d : d = Done OBVIOUS
<1>2. d \in Reqs /\ d.pc = "done" BY <1>1 DEF Done, Reqs
<1>3. ReqsOK([req EXCEPT ![o] = Done]) BY <1>1, <1>2
<1>4. ReqsOK(Losing) BY LosingType
<1>5. ReqsOK([Losing EXCEPT ![o] = Done]) BY <1>1, <1>2, <1>4
<1>6. PICK c : c = [pc |-> "confirm", lost |-> FALSE] OBVIOUS
<1>7. c \in Reqs BY <1>6 DEF Reqs
<1>8. o \in Markets => ReqsOK([req EXCEPT ![o] = c]) BY <1>7
<1>9. ASSUME o \in Markets, NEW pc \in {"place", "settle", "restoring", "failed"}
      PROVE  ReqsOK([req EXCEPT ![o].pc = pc])
  <2>1. PICK x : x = [req[o] EXCEPT !.pc = pc] OBVIOUS
  <2>2. x \in Reqs BY <2>1 DEF Reqs
  <2>3. [req EXCEPT ![o].pc = pc] = [req EXCEPT ![o] = x] BY <2>1
  <2> QED BY <1>9, <2>2, <2>3
<1> QED BY <1>3, <1>4, <1>5, <1>6, <1>8, <1>9

LEMMA NoPoll == Idling \in Polls /\ Idling.pc = "idle" /\ Idling.books = <<>>
<1>1. NoSnapshot \in Snaps BY Bounds DEF NoSnapshot, Snaps
<1>2. <<>> \in Seq({"BUY", "SELL"}) BY EmptySeq
<1> QED BY <1>1, <1>2 DEF Idling, Polls

LEMMA PollEdits ==
  ASSUME poll \in Polls
  PROVE  /\ Idling \in Polls /\ Idling.pc = "idle"
         /\ [Idling EXCEPT !.pc = "held"] \in Polls /\ [Idling EXCEPT !.pc = "held"].pc = "held"
         /\ \A pc \in {"crossing", "restoring"} : [poll EXCEPT !.pc = pc] \in Polls
<1>1. NoSnapshot \in Snaps BY Bounds DEF NoSnapshot, Snaps
<1>2. Idling \in Polls /\ Idling.pc = "idle" BY <1>1 DEF Idling, Polls
<1> QED BY <1>2 DEF Polls

LEMMA ReceivedType ==
  ASSUME order \in [Orders -> Rows], NEW v \in 0 .. MaxVolume, NEW last \in Prices,
         poll' = [Idling EXCEPT !.pc = "held",
                   !.snap = [volume |-> v, last |-> last, ok |-> TRUE, known |-> Admitted]]
  PROVE  poll' \in Polls /\ poll'.pc = "held"
<1>1. PICK n : n = [volume |-> v, last |-> last, ok |-> TRUE, known |-> Admitted] OBVIOUS
<1>2. n \in Snaps
  <2>1. v \in Volumes BY CnAssumption DEF Volumes
  <2> QED BY <1>1, <2>1 DEF Snaps, Lasts, Admitted
<1>3. poll' = [Idling EXCEPT !.pc = "held", !.snap = n] BY <1>1
<1>4. Idling \in Polls
  <2>1. NoSnapshot \in Snaps BY Bounds DEF NoSnapshot, Snaps
  <2> QED BY <2>1 DEF Idling, Polls
<1> QED BY <1>2, <1>3, <1>4 DEF Polls

LEMMA CrossingsType ==
  ASSUME poll \in Polls
  PROVE  /\ Crossings \in Seq({"BUY", "SELL"})
         /\ \A b \in Seq({"BUY", "SELL"}) : b # <<>> =>
               /\ Tail(b) \in Seq({"BUY", "SELL"}) /\ Crossing(Head(b)) \in Quotes
               /\ Crossing(Head(b)).want = "poll"
<1>1. PICK buy : buy = IF poll.snap.last # Upper /\ Released \cap Buys # {} THEN <<"BUY">> ELSE <<>> OBVIOUS
<1>11. PICK sell : sell = IF poll.snap.last # Lower /\ Released \cap Sells # {} THEN <<"SELL">> ELSE <<>>
  OBVIOUS
<1>12. buy \in Seq({"BUY", "SELL"}) /\ sell \in Seq({"BUY", "SELL"})
  <2>1. <<>> \in Seq({"BUY", "SELL"}) BY EmptySeq
  <2>2. <<"BUY">> \in Seq({"BUY", "SELL"}) OBVIOUS
  <2>3. <<"SELL">> \in Seq({"BUY", "SELL"}) OBVIOUS
  <2>4. buy \in {<<>>, <<"BUY">>} BY <1>1
  <2>5. sell \in {<<>>, <<"SELL">>} BY <1>11
  <2> QED BY <2>1, <2>2, <2>3, <2>4, <2>5
<1>2. Crossings \in Seq({"BUY", "SELL"})
  <2>1. Crossings = buy \o sell BY <1>1, <1>11 DEF Crossings
  <2> QED BY <1>12, <2>1, ConcatProperties
<1>3. ASSUME NEW b \in Seq({"BUY", "SELL"}), b # <<>>
      PROVE  Tail(b) \in Seq({"BUY", "SELL"}) /\ Crossing(Head(b)) \in Quotes
             /\ Crossing(Head(b)).want = "poll"
  <2>1. Tail(b) \in Seq({"BUY", "SELL"}) BY <1>3, HeadTailProperties
  <2>2. poll.snap.last \in Lasts BY DEF Polls, Snaps
  <2> QED BY <2>1, <2>2, Ids, QuoteType DEF Crossing, Quote
<1> QED BY <1>2, <1>3

\* What goes out: at most one quote, and the gate.
LEMMA OutgoingType ==
  ASSUME inst \in Insts, poll \in Polls, NEW s \in Statuses, NEW w \in Wants
  PROVE  /\ <<IdleQuote(w)>> \in Seq(Items) /\ <<IdleQuote(w)>> \o StatusChange(s) \in Seq(Items)
         /\ \A q \in Quotes : <<q>> \in Seq(Items) /\ StatusChange(s) \o <<q>> \in Seq(Items)
<1>1. StatusChange(s) \in Seq(Items) BY GateType
<1>2. ASSUME NEW q \in Quotes
      PROVE  /\ <<q>> \in Seq(Items) /\ StatusChange(s) \o <<q>> \in Seq(Items)
             /\ <<q>> \o StatusChange(s) \in Seq(Items)
  <2>1. <<q>> \in Seq(Items) BY DEF Items
  <2> QED BY <1>1, <2>1, ConcatProperties
<1>3. IdleQuote(w) \in Quotes BY IdleType
<1> QED BY <1>2, <1>3

LEMMA OneQuote == ASSUME NEW q \in Quotes PROVE <<q>> \in Seq(Items)
BY DEF Items

LEMMA SizedType ==
  ASSUME inst \in Insts, NEW o \in Orders
  PROVE  SizedBook(o) \in Quotes /\ SizedBook(o).want = o
<1>1. inst.last \in Lasts BY DEF Insts
<1> QED BY <1>1, Ids, QuoteType DEF SizedBook, Quote

\* What the clock and the numbers are.
NumbersOK ==
  /\ now \in Times /\ alert \in BOOLEAN /\ bought \in Nat /\ sold \in Nat /\ opening \in Int
  /\ boot \in [on : BOOLEAN, at : Times] /\ overslept \in BOOLEAN
  /\ torn \in BOOLEAN /\ crowded \in BOOLEAN /\ restarts \in Nat
MovesOK == inst \in Insts /\ peak = inst.prev
CarriedOK == wire \in Seq(Items) /\ engine \in Engines
OrdersOK == order \in [Orders -> Rows] /\ cancels \subseteq Orders /\ early \subseteq Limits \X BOOLEAN

LEMMA ShapesParts == Shapes <=> NumbersOK /\ MovesOK /\ CarriedOK /\ OrdersOK /\ poll \in Polls /\ ReqsOK(req)
BY DEF Shapes, NumbersOK, MovesOK, CarriedOK, OrdersOK, ReqsOK

LEMMA ShapesNext ==
  NumbersOK' /\ MovesOK' /\ CarriedOK' /\ OrdersOK' /\ poll' \in Polls /\ ReqsOK(req') => Shapes'
BY DEF Shapes, NumbersOK, MovesOK, CarriedOK, OrdersOK, ReqsOK

LEMMA FillNumbers ==
  ASSUME NumbersOK, OrdersOK, NEW os \in SUBSET Orders, NEW book \in Quotes, Fill(os, book)
  PROVE  bought' \in Nat /\ sold' \in Nat /\ early' \subseteq Limits \X BOOLEAN
<1>1. IsFiniteSet(os \cap Buys) /\ IsFiniteSet(os \cap Sells) BY Sides, FS_Subset
<1>2. Cardinality(os \cap Buys) \in Nat /\ Cardinality(os \cap Sells) \in Nat BY <1>1, FS_CardinalityType
<1>3. bought' \in Nat /\ sold' \in Nat BY <1>2 DEF Fill, NumbersOK
<1>4. torn \/ crowded \in BOOLEAN BY DEF NumbersOK
<1>5. ((os \cap Limits) \ book.known) \X {torn \/ crowded} \subseteq Limits \X BOOLEAN BY <1>4
<1> QED BY <1>3, <1>5 DEF Fill, OrdersOK

-------------------------------------------------------------------------------
(* Every step keeps the types. *)

LEMMA ShapesInit == Init => Shapes
<1> SUFFICES ASSUME Init PROVE Shapes OBVIOUS
<1> USE DEF Init
<1>1. NumbersOK
  <2>1. /\ now = 0 /\ alert = FALSE /\ bought = 0 /\ sold = 0 /\ opening = Held
        /\ torn = FALSE /\ crowded = FALSE /\ restarts = 0
        /\ boot = [on |-> FALSE, at |-> 0] /\ overslept = FALSE
    OBVIOUS
  <2> HIDE DEF Init
  <2>2. 0 \in Times /\ Held \in Nat BY CnAssumption
  <2>3. alert \in BOOLEAN /\ torn \in BOOLEAN /\ crowded \in BOOLEAN /\ overslept \in BOOLEAN BY <2>1
  <2>5. boot \in [on : BOOLEAN, at : Times] BY <2>1, <2>2
  <2>4. /\ now \in Times /\ bought \in Nat /\ sold \in Nat /\ opening \in Int /\ restarts \in Nat
    BY <2>1, <2>2
  <2> QED BY <2>3, <2>4, <2>5 DEF NumbersOK
<1>2. MovesOK
  <2>1. inst \in Insts BY NoInstType DEF Statuses
  <2>2. inst.prev = NoVolume BY NoInstType DEF Statuses
  <2> QED BY <2>1, <2>2 DEF MovesOK
<1>3. CarriedOK
  <2>1. wire \in Seq(Items) BY GateType DEF Statuses
  <2>2. IdleQuote("none") \in Quotes BY IdleType, Ids
  <2> QED BY <2>1, <2>2 DEF CarriedOK, Engines, Statuses
<1>4. OrdersOK BY Bounds DEF OrdersOK, Rows
<1>5. poll \in Polls BY NoPoll
<1>6. ReqsOK(req) BY DEF ReqsOK, NoReq, Reqs
<1> QED BY <1>1, <1>2, <1>3, <1>4, <1>5, <1>6, ShapesParts

LEMMA Carries ==
  ASSUME CarriedOK, NEW w \in Wants, NEW items \in Seq(Items), Publish(items, w)
  PROVE  CarriedOK'
BY PublishType DEF CarriedOK

LEMMA Fails == ASSUME MovesOK, CarriedOK, FailLocal PROVE MovesOK' /\ CarriedOK'
BY FailType DEF MovesOK, CarriedOK

LEMMA StatusMoves ==
  ASSUME inst \in Insts, NEW s \in Statuses, NEW b \in BOOLEAN
  PROVE  /\ [inst EXCEPT !.status = s] \in Insts /\ [inst EXCEPT !.status = s].prev = inst.prev
         /\ [inst EXCEPT !.ready = FALSE, !.status = s] \in Insts
         /\ [inst EXCEPT !.busy = b] \in Insts /\ [inst EXCEPT !.busy = b].prev = inst.prev
BY DEF Insts

\* The clock and the alert.
LEMMA ClockShapes == Shapes /\ (Tick \/ Boundary \/ Armed) => Shapes'
<1> SUFFICES ASSUME Shapes, Tick \/ Boundary \/ Armed PROVE Shapes' OBVIOUS
<1>0. NumbersOK /\ MovesOK /\ CarriedOK /\ OrdersOK /\ poll \in Polls /\ ReqsOK(req) BY ShapesParts
<1>1. CASE Tick
  <2>1. NumbersOK'
    <3>1. alert' \in BOOLEAN /\ overslept' \in BOOLEAN /\ boot' = boot BY <1>0, <1>1 DEF Tick, NumbersOK
    <3>2. now' \in Times /\ bought' \in Nat /\ sold' \in Nat /\ opening' \in Int
          /\ torn' = torn /\ crowded' = crowded /\ restarts' = restarts
      BY <1>0, <1>1 DEF Tick, NumbersOK, position
    <3> QED BY <1>0, <3>1, <3>2 DEF NumbersOK
  <2>2. MovesOK' /\ CarriedOK' /\ OrdersOK' /\ poll' \in Polls /\ ReqsOK(req')
    BY <1>0, <1>1 DEF Tick, MovesOK, CarriedOK, OrdersOK, ReqsOK
  <2> QED BY <2>1, <2>2, ShapesNext
<1>2. CASE Boundary
  <2>1. PICK s : s = StatusFor(now, ReadyAt) OBVIOUS
  <2>2. s \in Statuses
    <3>1. ReadyAt \in BOOLEAN BY <1>0 DEF ReadyAt, MovesOK, Insts
    <3> QED BY <1>0, <2>1, <3>1, NowTypes DEF NumbersOK
  <2>3. NumbersOK' BY <1>0, <1>2 DEF Boundary, NumbersOK, position
  <2>4. MovesOK' BY <1>0, <1>2, <2>1, <2>2, StatusMoves DEF Boundary, MovesOK
  <2>5. CarriedOK' BY <1>0, <1>2, <2>1, <2>2, Carries, GateType, Ids DEF Boundary
  <2>6. OrdersOK' BY <1>0, <1>2 DEF Boundary, OrdersOK, Unclosed
  <2>7. poll' \in Polls /\ ReqsOK(req') BY <1>0, <1>2 DEF Boundary, ReqsOK
  <2> QED BY <2>3, <2>4, <2>5, <2>6, <2>7, ShapesNext
<1>3. CASE Armed
  <2>1. PICK s : s = StatusFor(boot.at, FALSE) OBVIOUS
  <2>2. s \in Statuses BY <1>0, <2>1, NowTypes DEF NumbersOK
  <2>3. NumbersOK'
    <3>1. boot' = [boot EXCEPT !.on = FALSE] /\ UNCHANGED <<now, alert, overslept, position, torn, crowded, restarts>>
      BY <1>3 DEF Armed
    <3>2. boot' \in [on : BOOLEAN, at : Times] BY <1>0, <3>1 DEF NumbersOK
    <3> QED BY <1>0, <3>1, <3>2 DEF NumbersOK, position
  <2>4. MovesOK' BY <1>0, <1>3, <2>1, <2>2, StatusMoves DEF Armed, MovesOK
  <2>5. CarriedOK' BY <1>0, <1>3, <2>1, <2>2, Carries, GateType, Ids DEF Armed
  <2>6. OrdersOK' /\ poll' \in Polls /\ ReqsOK(req') BY <1>0, <1>3 DEF Armed, OrdersOK, ReqsOK
  <2> QED BY <2>3, <2>4, <2>5, <2>6, ShapesNext
<1> QED BY <1>1, <1>2, <1>3

\* The polling task, up to the observation.
LEMMA PollShapes ==
  Shapes /\ (Receive \/ FeedFailed \/ SitOut \/ ObserveUnready \/ ObserveDecrease \/ ObserveOutside) => Shapes'
<1> SUFFICES ASSUME Shapes, Receive \/ FeedFailed \/ SitOut \/ ObserveUnready \/ ObserveDecrease \/ ObserveOutside
             PROVE  Shapes'
  OBVIOUS
<1>0. NumbersOK /\ MovesOK /\ CarriedOK /\ OrdersOK /\ poll \in Polls /\ ReqsOK(req) BY ShapesParts
<1>00. inst \in Insts /\ now \in Times /\ order \in [Orders -> Rows] /\ "Pause" \in Statuses
  BY <1>0 DEF MovesOK, NumbersOK, OrdersOK, Statuses
<1>1. CASE Receive
  <2>1. poll' \in Polls BY <1>0, <1>00, <1>1, NoPoll, PollEdits, ReceivedType DEF Receive
  <2>2. NumbersOK' /\ MovesOK' /\ CarriedOK' /\ OrdersOK' /\ ReqsOK(req')
    BY <1>0, <1>1 DEF Receive, NumbersOK, MovesOK, CarriedOK, OrdersOK, ReqsOK, clock, position
  <2> QED BY <2>1, <2>2, ShapesNext
<1>2. CASE FeedFailed
  <2>1. MovesOK' /\ CarriedOK' BY <1>0, <1>2, Fails DEF FeedFailed
  <2>2. ReqsOK(req')
    <3>1. PICK r : r = Losing OBVIOUS
    <3>2. ReqsOK(r) BY <1>0, <3>1, LosingType
    <3> QED BY <1>2, <3>1, <3>2 DEF FeedFailed, ReqsOK
  <2>3. NumbersOK' /\ OrdersOK' /\ poll' \in Polls
    BY <1>0, <1>2 DEF FeedFailed, NumbersOK, OrdersOK, clock, position
  <2> QED BY <2>1, <2>2, <2>3, ShapesNext
<1>3. CASE SitOut
  <2>1. poll' \in Polls BY <1>3, NoPoll DEF SitOut
  <2>2. NumbersOK' /\ MovesOK' /\ CarriedOK' /\ OrdersOK' /\ ReqsOK(req')
    BY <1>0, <1>3 DEF SitOut, NumbersOK, MovesOK, CarriedOK, OrdersOK, ReqsOK, clock, position
  <2> QED BY <2>1, <2>2, ShapesNext
<1>4. CASE ObserveUnready
  <2>1. PICK s : s = StatusFor(now, FALSE) OBVIOUS
  <2>2. s \in Statuses BY <1>00, <2>1, NowTypes
  <2>3. PICK i : i = [inst EXCEPT !.ready = FALSE, !.status = s] OBVIOUS
  <2>4. i \in Insts BY <1>00, <2>2, <2>3, StatusMoves
  <2>5. inst' = Forgotten(i) /\ peak' = NoVolume BY <1>4, <2>1, <2>3 DEF ObserveUnready
  <2>6. MovesOK' BY <2>4, <2>5, ForgottenType DEF MovesOK
  <2>7. CarriedOK' BY <1>0, <1>4, <2>1, <2>2, Carries, GateType, Ids DEF ObserveUnready
  <2>8. NumbersOK' /\ OrdersOK' /\ ReqsOK(req')
    BY <1>0, <1>4 DEF ObserveUnready, NumbersOK, OrdersOK, ReqsOK, clock, position
  <2>9. poll' \in Polls BY <1>4, NoPoll DEF ObserveUnready
  <2> QED BY <2>6, <2>7, <2>8, <2>9, ShapesNext
<1>5. CASE ObserveDecrease
  <2>1. PICK e : e = Established OBVIOUS
  <2>2. e \in Insts BY <1>0, <1>00, <2>1, EstablishedType
  <2>3. PICK i : i = [e EXCEPT !.status = "Pause"] OBVIOUS
  <2>4. i \in Insts BY <1>00, <2>2, <2>3 DEF Insts
  <2>5. inst' = Forgotten(i) /\ peak' = NoVolume BY <1>5, <2>1, <2>3 DEF ObserveDecrease
  <2>6. MovesOK' BY <2>4, <2>5, ForgottenType DEF MovesOK
  <2>7. CarriedOK'
    BY <1>0, <1>00, <1>5, Carries, OutgoingType, Ids DEF ObserveDecrease
  <2>8. NumbersOK' /\ OrdersOK' /\ ReqsOK(req')
    BY <1>0, <1>5 DEF ObserveDecrease, NumbersOK, OrdersOK, ReqsOK, clock, position
  <2>9. poll' \in Polls BY <1>5, NoPoll DEF ObserveDecrease
  <2> QED BY <2>6, <2>7, <2>8, <2>9, ShapesNext
<1>6. CASE ObserveOutside
  <2>1. PICK e : e = Established OBVIOUS
  <2>2. e \in Insts /\ e.prev = inst.prev BY <1>0, <1>00, <2>1, EstablishedType
  <2>3. PICK s : s = StatusFor(now, TRUE) OBVIOUS
  <2>4. s \in Statuses BY <1>00, <2>3, NowTypes
  <2>5. inst' = [e EXCEPT !.status = s] /\ peak' = peak BY <1>6, <2>1, <2>3 DEF ObserveOutside
  <2>6. MovesOK' BY <1>0, <2>2, <2>4, <2>5 DEF MovesOK, Insts
  <2>7. CarriedOK'
    BY <1>0, <1>00, <1>6, <2>3, <2>4, Carries, OutgoingType, Ids DEF ObserveOutside
  <2>8. NumbersOK' /\ OrdersOK' /\ ReqsOK(req')
    BY <1>0, <1>6 DEF ObserveOutside, NumbersOK, OrdersOK, ReqsOK, clock, position
  <2>9. poll' \in Polls BY <1>6, NoPoll DEF ObserveOutside
  <2> QED BY <2>6, <2>7, <2>8, <2>9, ShapesNext
<1> QED BY <1>1, <1>2, <1>3, <1>4, <1>5, <1>6

\* The observation that may cross, and what follows it.
LEMMA CrossShapes == Shapes /\ (Observe \/ CrossingLanded \/ IdleLanded \/ CrossingLost) => Shapes'
<1> SUFFICES ASSUME Shapes, Observe \/ CrossingLanded \/ IdleLanded \/ CrossingLost PROVE Shapes' OBVIOUS
<1>0. NumbersOK /\ MovesOK /\ CarriedOK /\ OrdersOK /\ poll \in Polls /\ ReqsOK(req) BY ShapesParts
<1>00. inst \in Insts /\ now \in Times /\ "Trading" \in Statuses /\ "poll" \in Wants
  BY <1>0, Ids DEF MovesOK, NumbersOK, Statuses
<1>1. CASE Observe
  <2>1. PICK a : a = Accepted OBVIOUS
  <2>2. a \in Insts /\ a.prev = poll.snap.volume BY <1>0, <1>00, <2>1, AcceptedType
  <2>3. MovesOK'
    <3>1. inst' = a \/ inst' = [a EXCEPT !.busy = TRUE] BY <1>1, <2>1 DEF Observe
    <3>2. inst' \in Insts /\ inst'.prev = poll.snap.volume BY <2>2, <3>1 DEF Insts
    <3>3. poll.snap.volume \in Volumes /\ peak \in Prevs /\ peak = inst.prev
      BY <1>0 DEF Polls, Snaps, MovesOK, Insts
    <3>6. poll.snap.volume \in Int /\ peak \in Int /\ poll.snap.volume > NoVolume BY <3>3, Bounds
    <3>4. poll.snap.volume >= inst.prev
      <4>1. CASE inst.prev = NoVolume BY <3>3, <3>6, <4>1
      <4>2. CASE inst.prev # NoVolume BY <1>1, <3>3, <3>6, <4>2 DEF Observe, Decreased
      <4> QED BY <4>1, <4>2
    <3>5. peak' = poll.snap.volume BY <1>1, <3>3, <3>4, <3>6 DEF Observe
    <3> QED BY <3>2, <3>5 DEF MovesOK
  <2>4. Crossings \in Seq({"BUY", "SELL"}) BY <1>0, CrossingsType
  <2>5. CarriedOK'
    <3>1. CASE Crossings = <<>>
      BY <1>0, <1>00, <1>1, <3>1, Carries, OutgoingType DEF Observe
    <3>2. CASE Crossings # <<>>
      <4>1. Crossing(Head(Crossings)) \in Quotes BY <1>0, <2>4, <3>2, CrossingsType
      <4> QED BY <1>0, <1>00, <1>1, <3>2, <4>1, Carries, OutgoingType DEF Observe
    <3> QED BY <3>1, <3>2
  <2>6. poll' \in Polls
    <3>1. CASE Crossings = <<>> BY <1>1, <3>1, NoPoll DEF Observe
    <3>2. CASE Crossings # <<>>
      <4>1. PICK b : b = Tail(Crossings) OBVIOUS
      <4>2. b \in Seq({"BUY", "SELL"}) BY <1>0, <2>4, <3>2, <4>1, CrossingsType
      <4>3. PICK R : R = Released OBVIOUS
      <4>4. R \in SUBSET Orders BY <4>3 DEF Released, Resting, Unclosed
      <4>5. poll' = [poll EXCEPT !.pc = "crossing", !.released = R, !.books = b]
        BY <1>1, <3>2, <4>1, <4>3 DEF Observe
      <4> QED BY <1>0, <4>2, <4>4, <4>5 DEF Polls
    <3> QED BY <3>1, <3>2
  <2>7. crowded' \in BOOLEAN
    <3>1. CASE Crossings = <<>> BY <1>0, <1>1, <3>1 DEF Observe, NumbersOK
    <3>2. CASE Crossings # <<>> BY <1>1, <3>2 DEF Observe, Taken
    <3> QED BY <3>1, <3>2
  <2>8. NumbersOK' BY <1>0, <1>1, <2>7 DEF Observe, NumbersOK, clock, position
  <2>9. OrdersOK' /\ ReqsOK(req') BY <1>0, <1>1 DEF Observe, OrdersOK, ReqsOK
  <2> QED BY <2>3, <2>5, <2>6, <2>8, <2>9, ShapesNext
<1>2. CASE CrossingLanded
  <2>1. CarriedOK' BY <1>0, <1>00, <1>2, Carries, OutgoingType DEF CrossingLanded
  <2>2. poll' \in Polls BY <1>0, <1>2, PollEdits DEF CrossingLanded
  <2>3. NumbersOK' /\ MovesOK' /\ OrdersOK' /\ ReqsOK(req')
    BY <1>0, <1>2 DEF CrossingLanded, NumbersOK, MovesOK, OrdersOK, ReqsOK, clock, position
  <2> QED BY <2>1, <2>2, <2>3, ShapesNext
<1>3. CASE IdleLanded
  <2>1. NumbersOK' /\ OrdersOK' /\ ReqsOK(req')
    BY <1>0, <1>3 DEF IdleLanded, NumbersOK, OrdersOK, ReqsOK, clock, position
  <2>2. CASE poll.books = <<>>
    <3>1. inst' = [inst EXCEPT !.busy = FALSE] /\ peak' = peak BY <1>3, <2>2 DEF IdleLanded
    <3>2. MovesOK' BY <1>0, <1>00, <3>1, StatusMoves DEF MovesOK
    <3>3. CarriedOK' BY <1>0, <1>3, <2>2 DEF IdleLanded, CarriedOK
    <3>4. poll' \in Polls BY <1>3, <2>2, NoPoll DEF IdleLanded
    <3> QED BY <2>1, <3>2, <3>3, <3>4, ShapesNext
  <2>3. CASE poll.books # <<>>
    <3>1. poll.books \in Seq({"BUY", "SELL"}) BY <1>0 DEF Polls
    <3>2. Tail(poll.books) \in Seq({"BUY", "SELL"}) /\ Crossing(Head(poll.books)) \in Quotes
      BY <1>0, <2>3, <3>1, CrossingsType
    <3>3. CarriedOK' BY <1>0, <1>00, <1>3, <2>3, <3>2, Carries, OutgoingType DEF IdleLanded
    <3>4. MovesOK' BY <1>0, <1>3, <2>3 DEF IdleLanded, MovesOK
    <3>5. poll' \in Polls
      <4>1. PICK b : b = Tail(poll.books) OBVIOUS
      <4>2. poll' = [poll EXCEPT !.pc = "crossing", !.books = b] BY <1>3, <2>3, <4>1 DEF IdleLanded
      <4> QED BY <1>0, <3>2, <4>1, <4>2 DEF Polls
    <3> QED BY <2>1, <3>3, <3>4, <3>5, ShapesNext
  <2> QED BY <2>2, <2>3
<1>4. CASE CrossingLost
  <2>1. MovesOK' /\ CarriedOK' BY <1>0, <1>4, Fails DEF CrossingLost
  <2>2. NumbersOK' /\ OrdersOK' /\ ReqsOK(req')
    BY <1>0, <1>4 DEF CrossingLost, NumbersOK, OrdersOK, ReqsOK, clock, position
  <2>3. poll' \in Polls BY <1>4, NoPoll DEF CrossingLost
  <2> QED BY <2>1, <2>2, <2>3, ShapesNext
<1> QED BY <1>1, <1>2, <1>3, <1>4

\* Admissions, and the way of a MARKET.
LEMMA PlacingShapes ==
  ASSUME Shapes, NEW o \in Orders, AdmitLimit(o) \/ AdmitMarket(o) \/ Placing(o)
  PROVE  Shapes'
<1>0. NumbersOK /\ MovesOK /\ CarriedOK /\ OrdersOK /\ poll \in Polls /\ ReqsOK(req) BY ShapesParts
<1>00. inst \in Insts /\ now \in Times /\ order \in [Orders -> Rows] BY <1>0 DEF MovesOK, NumbersOK, OrdersOK
<1>01. req[o].pc \notin {"idle", "done"} => o \in Markets BY <1>0 DEF ReqsOK
<1>1. CASE AdmitLimit(o)
  <2>1. MovesOK' BY <1>0, <1>00, <1>1, BaseType DEF AdmitLimit, MovesOK
  <2>2. OrdersOK' BY <1>0, <1>00, <1>1, RowEdits DEF AdmitLimit, OrdersOK
  <2>3. ReqsOK(req') BY <1>0, <1>1, ReqEdits DEF AdmitLimit
  <2>4. NumbersOK' BY <1>0, <1>1 DEF AdmitLimit, NumbersOK, Taken, clock, position
  <2>5. CarriedOK' /\ poll' \in Polls BY <1>0, <1>1 DEF AdmitLimit, CarriedOK
  <2> QED BY <2>1, <2>2, <2>3, <2>4, <2>5, ShapesNext
<1>2. CASE AdmitMarket(o)
  <2>1. MovesOK'
    <3>1. inst' = [inst EXCEPT !.busy = TRUE] /\ peak' = peak BY <1>2 DEF AdmitMarket
    <3> QED BY <1>0, <1>00, <3>1 DEF MovesOK, Insts
  <2>2. SizedBook(o) \in Quotes /\ o \in Wants BY <1>00, SizedType, Ids
  <2>3. CarriedOK' BY <1>0, <1>00, <1>2, <2>2, Carries, OneQuote DEF AdmitMarket
  <2>4. ReqsOK(req') BY <1>0, <1>2, ReqEdits DEF AdmitMarket
  <2>5. NumbersOK' BY <1>0, <1>2 DEF AdmitMarket, NumbersOK, Taken, clock, position
  <2>6. OrdersOK' /\ poll' \in Polls BY <1>0, <1>2 DEF AdmitMarket, OrdersOK
  <2> QED BY <2>1, <2>3, <2>4, <2>5, <2>6, ShapesNext
<1>3. CASE SizedLanded(o)
  <2>1. ReqsOK(req') BY <1>0, <1>01, <1>3, ReqEdits DEF SizedLanded
  <2>2. NumbersOK' /\ MovesOK' /\ CarriedOK' /\ OrdersOK' /\ poll' \in Polls
    BY <1>0, <1>3 DEF SizedLanded, NumbersOK, MovesOK, CarriedOK, OrdersOK, clock, position
  <2> QED BY <2>1, <2>2, ShapesNext
<1>4. CASE SizedLost(o)
  <2>1. MovesOK' /\ CarriedOK' BY <1>0, <1>4, Fails DEF SizedLost
  <2>2. ReqsOK(req') BY <1>0, <1>4, ReqEdits DEF SizedLost
  <2>3. NumbersOK' /\ OrdersOK' /\ poll' \in Polls
    BY <1>0, <1>4 DEF SizedLost, NumbersOK, OrdersOK, clock, position
  <2> QED BY <2>1, <2>2, <2>3, ShapesNext
<1>5. CASE PlaceMarket(o)
  <2>1. ReqsOK(req') BY <1>0, <1>01, <1>5, ReqEdits DEF PlaceMarket
  <2>2. OrdersOK' BY <1>0, <1>00, <1>5, RowEdits DEF PlaceMarket, OrdersOK
  <2>3. NumbersOK' /\ MovesOK' /\ CarriedOK' /\ poll' \in Polls
    BY <1>0, <1>5 DEF PlaceMarket, NumbersOK, MovesOK, CarriedOK, clock, position
  <2> QED BY <2>1, <2>2, <2>3, ShapesNext
<1>6. CASE RestoreIdle(o)
  <2>1. ReqsOK(req') BY <1>0, <1>01, <1>6, ReqEdits DEF RestoreIdle
  <2>2. CarriedOK'
    <3>1. o \in Wants /\ IdleQuote(o) \in Quotes BY Ids, IdleType
    <3> QED BY <1>0, <1>6, <3>1, Carries, OneQuote DEF RestoreIdle
  <2>3. NumbersOK' /\ MovesOK' /\ OrdersOK' /\ poll' \in Polls
    BY <1>0, <1>6 DEF RestoreIdle, NumbersOK, MovesOK, OrdersOK, clock, position
  <2> QED BY <2>1, <2>2, <2>3, ShapesNext
<1>7. CASE Release(o)
  <2>1. MovesOK'
    <3>1. inst' = [inst EXCEPT !.busy = FALSE] /\ peak' = peak BY <1>7 DEF Release
    <3> QED BY <1>0, <1>00, <3>1 DEF MovesOK, Insts
  <2>2. ReqsOK(req')
    <3>1. CASE Landed(o) BY <1>0, <1>7, <3>1, ReqEdits DEF Release
    <3>2. CASE ~Landed(o)
      <4>1. req' = [req EXCEPT ![o].pc = "failed"] BY <1>7, <3>2 DEF Release
      <4>2. o \in Markets BY <1>01, <1>7 DEF Release
      <4> QED BY <1>0, <4>1, <4>2, ReqEdits
    <3> QED BY <3>1, <3>2
  <2>3. NumbersOK' /\ CarriedOK' /\ OrdersOK' /\ poll' \in Polls
    BY <1>0, <1>7 DEF Release, NumbersOK, CarriedOK, OrdersOK, clock, position
  <2> QED BY <2>1, <2>2, <2>3, ShapesNext
<1>8. CASE MarkFailed(o)
  <2>1. MovesOK' /\ CarriedOK' BY <1>0, <1>8, Fails DEF MarkFailed
  <2>2. ReqsOK(req') BY <1>0, <1>8, ReqEdits DEF MarkFailed
  <2>3. NumbersOK' /\ OrdersOK' /\ poll' \in Polls
    BY <1>0, <1>8 DEF MarkFailed, NumbersOK, OrdersOK, clock, position
  <2> QED BY <2>1, <2>2, <2>3, ShapesNext
<1> QED BY <1>1, <1>2, <1>3, <1>4, <1>5, <1>6, <1>7, <1>8 DEF Placing

\* The sandbox, and a new one.
LEMMA SandboxShapes ==
  Shapes /\ (Deliver \/ Restart \/ \E o \in Orders : Arrive(o) \/ CancelArrives(o)) => Shapes'
<1> SUFFICES ASSUME Shapes, Deliver \/ Restart \/ \E o \in Orders : Arrive(o) \/ CancelArrives(o)
             PROVE  Shapes'
  OBVIOUS
<1>0. NumbersOK /\ MovesOK /\ CarriedOK /\ OrdersOK /\ poll \in Polls /\ ReqsOK(req) BY ShapesParts
<1>00. now \in Times /\ order \in [Orders -> Rows] /\ engine \in Engines /\ wire \in Seq(Items)
  BY <1>0 DEF NumbersOK, OrdersOK, CarriedOK
<1>1. CASE Deliver
  <2>1. PICK item : item = Head(wire) OBVIOUS
  <2>2. item \in Items /\ Tail(wire) \in Seq(Items) BY <1>00, <1>1, <2>1, HeadTailProperties DEF Deliver
  <2>3. MovesOK' /\ poll' \in Polls /\ ReqsOK(req') BY <1>0, <1>1 DEF Deliver, MovesOK, ReqsOK
  <2>4. wire' \in Seq(Items) /\ now' = now /\ alert' = alert /\ opening' = opening /\ crowded' = crowded
        /\ restarts' = restarts /\ cancels' = cancels /\ boot' = boot /\ overslept' = overslept
    BY <1>1, <2>2 DEF Deliver, clock
  <2>5. CASE item.kind = "status" /\ engine' = [engine EXCEPT !.status = item.status]
             /\ UNCHANGED <<order, bought, sold, early, torn>>
    <3>1. item.status \in Statuses BY <2>2, <2>5 DEF Items, Gates, Quotes
    <3>2. engine' \in Engines BY <1>00, <2>5, <3>1 DEF Engines
    <3>3. CarriedOK' /\ NumbersOK' /\ OrdersOK'
      BY <1>0, <2>4, <2>5, <3>2 DEF CarriedOK, NumbersOK, OrdersOK
    <3> QED BY <2>3, <3>3, ShapesNext
  <2>6. CASE item.kind = "quote" /\ torn' = (torn \/ ~(item.bid \/ item.ask))
             /\ UNCHANGED <<engine, order, bought, sold, early>>
    <3>1. torn' \in BOOLEAN BY <2>6
    <3>2. CarriedOK' /\ NumbersOK' /\ OrdersOK'
      BY <1>0, <2>4, <2>6, <3>1 DEF CarriedOK, NumbersOK, OrdersOK
    <3> QED BY <2>3, <3>2, ShapesNext
  <2>7. ASSUME item.kind = "quote", torn' = FALSE, engine' = [engine EXCEPT !.book = item],
               NEW filled \in SUBSET Limits,
               order' = [o \in Orders |-> IF o \in filled THEN [order[o] EXCEPT !.st = "FILLED"] ELSE order[o]],
               Fill(filled, item)
        PROVE  Shapes'
    <3>1. item \in Quotes BY <2>2, <2>7 DEF Items, Gates
    <3>2. engine' \in Engines BY <1>00, <2>7, <3>1 DEF Engines
    <3>3. order' \in [Orders -> Rows]
      <4>1. \A o \in Orders : order[o] \in Rows /\ [order[o] EXCEPT !.st = "FILLED"] \in Rows
        BY <1>00 DEF Rows
      <4> QED BY <2>7, <4>1
    <3>4. filled \subseteq Orders BY <2>7, Sides
    <3>5. bought' \in Nat /\ sold' \in Nat /\ early' \subseteq Limits \X BOOLEAN
      BY <1>0, <2>7, <3>1, <3>4, FillNumbers
    <3>6. CarriedOK' BY <2>4, <3>2 DEF CarriedOK
    <3>7. NumbersOK' BY <1>0, <2>4, <2>7, <3>5 DEF NumbersOK
    <3>8. OrdersOK' BY <1>0, <2>4, <3>3, <3>5 DEF OrdersOK
    <3> QED BY <2>3, <3>6, <3>7, <3>8, ShapesNext
  <2>8. PICK F : F = {o \in Limits : /\ engine.status = "Trading" /\ order[o].st = "RESTING"
                                     /\ Takes(o, item)}
    OBVIOUS
  <2>9. F \in SUBSET Limits BY <2>8
  <2> QED BY <1>1, <2>1, <2>5, <2>6, <2>7, <2>8, <2>9 DEF Deliver
<1>2. ASSUME NEW o \in Orders, Arrive(o) PROVE Shapes'
  <2>1. MovesOK' /\ CarriedOK' /\ poll' \in Polls /\ ReqsOK(req')
    BY <1>0, <1>2 DEF Arrive, MovesOK, CarriedOK, ReqsOK
  <2>2. order' \in [Orders -> Rows]
    <3>1. PICK st \in {"FILLED", "REJECTED", "RESTING"} : order' = [order EXCEPT ![o].st = st]
      BY <1>2 DEF Arrive
    <3> QED BY <1>00, <3>1, RowEdits
  <2>3. bought' \in Nat /\ sold' \in Nat /\ early' \subseteq Limits \X BOOLEAN
    <3>1. CASE UNCHANGED <<bought, sold, early>> BY <1>0, <3>1 DEF NumbersOK, OrdersOK
    <3>2. CASE Fill({o}, engine.book)
      <4>1. engine.book \in Quotes BY <1>00 DEF Engines
      <4>2. {o} \in SUBSET Orders OBVIOUS
      <4> QED BY <1>0, <3>2, <4>1, <4>2, FillNumbers
    <3> QED BY <1>2, <3>1, <3>2 DEF Arrive
  <2>4. NumbersOK' BY <1>0, <1>2, <2>3 DEF Arrive, NumbersOK, clock
  <2>5. OrdersOK' BY <1>0, <1>2, <2>2, <2>3 DEF Arrive, OrdersOK
  <2> QED BY <2>1, <2>4, <2>5, ShapesNext
<1>3. ASSUME NEW o \in Orders, CancelArrives(o) PROVE Shapes'
  <2>1. order' \in [Orders -> Rows] BY <1>00, <1>3, RowEdits DEF CancelArrives
  <2>2. NumbersOK' /\ MovesOK' /\ CarriedOK' /\ poll' \in Polls /\ ReqsOK(req')
    BY <1>0, <1>3 DEF CancelArrives, NumbersOK, MovesOK, CarriedOK, ReqsOK, clock, position
  <2>3. OrdersOK' BY <1>0, <1>3, <2>1 DEF CancelArrives, OrdersOK
  <2> QED BY <2>1, <2>2, <2>3, ShapesNext
<1>4. CASE Restart
  <2>3. MovesOK' BY <1>4, NoInstType DEF Restart, MovesOK, Statuses
  <2>4. CarriedOK'
    <3>1. wire' \in Seq(Items)
      <4>1. wire' = <<>> BY <1>4 DEF Restart
      <4> QED BY <4>1, EmptySeq
    <3>2. IdleQuote("none") \in Quotes BY IdleType, Ids
    <3>3. engine' = [status |-> "Trading", book |-> IdleQuote("none")] BY <1>4 DEF Restart
    <3>4. engine' \in Engines BY <3>2, <3>3 DEF Engines, Statuses
    <3> QED BY <3>1, <3>4 DEF CarriedOK
  <2>5. OrdersOK'
    <3>1. \A o \in Orders : order[o] \in Rows /\ [order[o] EXCEPT !.st = "CANCELED"] \in Rows
      BY <1>00 DEF Rows
    <3>2. order' \in [Orders -> Rows] BY <1>4, <3>1 DEF Restart
    <3>3. cancels' \subseteq Orders /\ early' = early BY <1>4 DEF Restart
    <3> QED BY <1>0, <3>2, <3>3 DEF OrdersOK
  <2>6. ReqsOK(req')
    <3>1. NoReq \in Reqs /\ Done \in Reqs /\ NoReq.pc = "idle" /\ Done.pc = "done" BY DEF NoReq, Done, Reqs
    <3>2. PICK n, d : n = NoReq /\ d = Done OBVIOUS
    <3>3. req' = [o \in Orders |-> IF req[o].pc = "idle" THEN n ELSE d] BY <1>4, <3>2 DEF Restart
    <3> QED BY <3>1, <3>2, <3>3 DEF ReqsOK
  <2>7. NumbersOK'
    <3>1. alert' = FALSE /\ torn' = FALSE /\ crowded' = crowded /\ now' = now /\ bought' = bought
          /\ sold' = sold /\ opening' = opening
      BY <1>4 DEF Restart, position
    <3>2. restarts' \in Nat BY <1>0, <1>4 DEF Restart, NumbersOK
    <3>3. alert' \in BOOLEAN /\ torn' \in BOOLEAN BY <3>1
    <3>4. boot' = [on |-> TRUE, at |-> now] /\ overslept' = FALSE BY <1>4 DEF Restart
    <3>5. boot' \in [on : BOOLEAN, at : Times] /\ overslept' \in BOOLEAN BY <1>00, <3>4
    <3> QED BY <1>0, <3>1, <3>2, <3>3, <3>5 DEF NumbersOK
  <2>8. poll' \in Polls BY <1>4, NoPoll DEF Restart
  <2> QED BY <2>3, <2>4, <2>5, <2>6, <2>7, <2>8, ShapesNext
<1> QED BY <1>1, <1>2, <1>3, <1>4

LEMMA ShapesStep == Shapes /\ [Next]_vars => Shapes'
<1> SUFFICES ASSUME Shapes, [Next]_vars PROVE Shapes' OBVIOUS
<1>1. CASE UNCHANGED vars BY <1>1 DEF vars, Shapes, clock, position
<1>2. CASE Next
  BY <1>2, ClockShapes, PollShapes, CrossShapes, PlacingShapes, SandboxShapes DEF Next, Polling
<1> QED BY <1>1, <1>2

\* Every value the model holds is of its kind: what the instrument, the publications,
\* the sandbox, the orders and the route calls of cn.rs and node.rs may be.
THEOREM Typing == Spec => []TypeOK
<1>1. Shapes => TypeOK
  <2>1. ASSUME Shapes PROVE DOMAIN inst.base \subseteq Limits
    <3>1. PICK S \in SUBSET Limits : inst.base \in [S -> Volumes] BY <2>1 DEF Shapes, Insts, Bases
    <3> QED BY <3>1
  <2>2. ASSUME Shapes PROVE inst.prev \in NoVolume .. MaxVolume /\ peak \in NoVolume .. MaxVolume
    <3>1. inst.prev \in Prevs /\ peak = inst.prev BY <2>2 DEF Shapes, Insts
    <3>2. Prevs \subseteq NoVolume .. MaxVolume BY CnAssumption DEF Prevs, Volumes, NoVolume
    <3> QED BY <3>1, <3>2
  <2> QED BY <2>1, <2>2 DEF Shapes, TypeOK, Insts, Engines, Rows, Polls, Reqs, Statuses, Lasts, Days
<1>2. Spec => []Shapes BY ShapesInit, ShapesStep, PTL DEF Spec
<1> QED BY <1>1, <1>2, PTL
-------------------------------------------------------------------------------
(* The evidence a crossing needs. *)

LEMMA Reached ==
  ASSUME Shapes, Next, poll.pc = "held", poll'.pc = "crossing"
  PROVE  Observe /\ Crossings # <<>>
<1>1. poll \in Polls BY DEF Shapes
<1>2. Idling.pc # "crossing" BY NoPoll
<1>3. ~Receive /\ ~CrossingLanded /\ ~IdleLanded /\ ~CrossingLost BY DEF Receive, CrossingLanded, IdleLanded, CrossingLost
<1>4. poll' # poll OBVIOUS
<1>5. ~ObserveUnready /\ ~ObserveDecrease /\ ~ObserveOutside /\ ~SitOut /\ ~Restart
  BY <1>2 DEF ObserveUnready, ObserveDecrease, ObserveOutside, SitOut, Restart
<1>6. ~Tick /\ ~Boundary /\ ~Armed /\ ~FeedFailed /\ ~Deliver
  BY <1>4 DEF Tick, Boundary, Armed, FeedFailed, Deliver
<1>7. ASSUME NEW o \in Orders PROVE ~(AdmitLimit(o) \/ AdmitMarket(o) \/ Placing(o) \/ Arrive(o) \/ CancelArrives(o))
  BY <1>4 DEF AdmitLimit, AdmitMarket, Placing, SizedLanded, SizedLost, PlaceMarket, RestoreIdle, Release,
              MarkFailed, Arrive, CancelArrives
<1>8. Observe BY <1>3, <1>5, <1>6, <1>7 DEF Next, Polling
<1> QED BY <1>2, <1>8 DEF Observe

LEMMA GrowthStep == Shapes /\ [Next]_vars => (poll.pc = "held" /\ poll'.pc = "crossing"
                                              => peak # NoVolume /\ poll.snap.volume > peak)
<1> SUFFICES ASSUME Shapes, [Next]_vars, poll.pc = "held", poll'.pc = "crossing"
             PROVE  peak # NoVolume /\ poll.snap.volume > peak
  OBVIOUS
<1>1. Next BY DEF vars
<1>2. Crossings # <<>> BY <1>1, Reached
<1>3. Released # {}
  <2>1. SUFFICES ASSUME Released = {} PROVE FALSE OBVIOUS
  <2>2. Released \cap Buys = {} /\ Released \cap Sells = {} BY <2>1
  <2>3. Crossings = <<>> \o <<>> BY <2>2 DEF Crossings
  <2>4. <<>> \o <<>> = <<>> OBVIOUS
  <2> QED BY <1>2, <2>3, <2>4
<1>4. inst.prev # NoVolume /\ poll.snap.volume > inst.prev BY <1>3 DEF Released
<1> QED BY <1>4 DEF Shapes

\* A crossing book is published for more volume than everything accepted since the
\* evidence was discarded, for any prices and volumes: the previous observation the rule
\* of cn.rs compares with is that volume.
THEOREM Growth == Spec => CrossesOnGrowth
<1>1. Spec => []Shapes BY ShapesInit, ShapesStep, PTL DEF Spec
<1>2. Shapes /\ [Next]_vars => [poll.pc = "held" /\ poll'.pc = "crossing"
                                => peak # NoVolume /\ poll.snap.volume > peak]_vars
  BY GrowthStep
<1> QED BY <1>1, <1>2, PTL DEF Spec, CrossesOnGrowth
-------------------------------------------------------------------------------
(* The end of the day. *)

LEMMA DayKept ==
  ASSUME DayEnds, now' = now, alert' = alert, overslept' = overslept, cancels \subseteq cancels',
         \A o \in Limits : order'[o].st \in {"HANDED", "RESTING"} =>
           order[o].st \in {"HANDED", "RESTING"} /\ order'[o].day = order[o].day
  PROVE  DayEnds'
<1> SUFFICES ASSUME NEW o \in Resting', Expired(o, now)' PROVE alert' \/ o \in cancels' \/ overslept' BY DEF DayEnds
<1>1. o \in Limits /\ o \in Orders /\ order'[o].st \in {"HANDED", "RESTING"} BY DEF Resting, Unclosed
<1>2. o \in Resting /\ order'[o].day = order[o].day BY <1>1 DEF Resting, Unclosed
<1>3. Expired(o, now) BY <1>2 DEF Expired
<1> QED BY <1>2, <1>3 DEF DayEnds

LEMMA DayStep == Shapes /\ DayEnds /\ [Next]_vars => DayEnds'
<1> SUFFICES ASSUME Shapes, DayEnds, [Next]_vars PROVE DayEnds' OBVIOUS
<1>0. order \in [Orders -> Rows] /\ now \in Times /\ Limits \subseteq Orders /\ Limits \cap Markets = {}
  BY Sides DEF Shapes
<1>1. CASE UNCHANGED <<now, alert, overslept, order, cancels>> BY <1>1, DayKept
<1>2. CASE Tick
  <2>1. alert' \/ overslept' BY <1>2 DEF Tick, Shapes
  <2> QED BY <2>1 DEF DayEnds
<1>3. CASE Boundary
  <2>1. cancels' = cancels \cup {o \in Unclosed : Expired(o, now)} /\ now' = now /\ order' = order
    BY <1>3 DEF Boundary
  <2> SUFFICES ASSUME NEW o \in Resting', Expired(o, now)' PROVE o \in cancels' BY DEF DayEnds
  <2>2. o \in Unclosed /\ Expired(o, now) BY <2>1 DEF Resting, Unclosed, Expired
  <2> QED BY <2>1, <2>2
<1>4. ASSUME NEW l \in Orders, AdmitLimit(l) PROVE DayEnds'
  <2>1. order' = Handed(l) /\ now' = now /\ alert' = alert /\ cancels' = cancels /\ InSession(now)
        /\ overslept' = overslept
    BY <1>4 DEF AdmitLimit, Admissible, clock
  <2> SUFFICES ASSUME NEW o \in Resting', Expired(o, now)' PROVE alert' \/ o \in cancels' \/ overslept' BY DEF DayEnds
  <2>2. o \in Orders /\ o \in Limits /\ order'[o].st \in {"HANDED", "RESTING"} BY DEF Resting, Unclosed
  <2>3. CASE o = l
    <3>1. order'[o].day = Day(now) BY <1>0, <2>1, <2>3 DEF Handed
    <3>2. Day(now) \in Int BY <1>0, CnAssumption DEF Day
    <3>3. order'[o].day < Day(now) \/ Phase(now) = "CLOSED" BY <2>1 DEF Expired
    <3> QED BY <2>1, <3>1, <3>2, <3>3 DEF InSession
  <2>4. CASE o # l
    <3>1. order'[o] = order[o] BY <1>0, <2>1, <2>2, <2>4 DEF Handed
    <3>2. o \in Resting /\ Expired(o, now) BY <2>1, <2>2, <3>1 DEF Resting, Unclosed, Expired
    <3> QED BY <2>1, <3>2 DEF DayEnds
  <2> QED BY <2>3, <2>4
<1>5. ASSUME NEW m \in Orders, PlaceMarket(m) PROVE DayEnds'
  <2>1. m \in Markets BY <1>5 DEF PlaceMarket, Shapes
  <2>2. \A o \in Limits : order'[o] = order[o] BY <1>0, <1>5, <2>1 DEF PlaceMarket, Handed
  <2> QED BY <1>5, <2>2, DayKept DEF PlaceMarket, clock
<1>6. CASE Deliver
  <2>1. \A o \in Limits : order'[o].st \in {"HANDED", "RESTING"} =>
           order[o].st \in {"HANDED", "RESTING"} /\ order'[o].day = order[o].day
    <3>1. CASE order' = order BY <3>1
    <3>2. ASSUME NEW filled \in SUBSET Limits,
                 order' = [o \in Orders |-> IF o \in filled THEN [order[o] EXCEPT !.st = "FILLED"] ELSE order[o]],
                 NEW o \in Limits, order'[o].st \in {"HANDED", "RESTING"}
          PROVE  order'[o] = order[o]
      <4>1. [order[o] EXCEPT !.st = "FILLED"].st = "FILLED" BY <1>0 DEF Rows
      <4> QED BY <1>0, <3>2, <4>1
    <3>3. order' = order \/ \E filled \in SUBSET Limits :
            order' = [o \in Orders |-> IF o \in filled THEN [order[o] EXCEPT !.st = "FILLED"] ELSE order[o]]
      <4>1. PICK F : F = {o \in Limits : /\ engine.status = "Trading" /\ order[o].st = "RESTING"
                                         /\ Takes(o, Head(wire))}
        OBVIOUS
      <4>2. F \in SUBSET Limits BY <4>1
      <4> QED BY <1>6, <4>1, <4>2 DEF Deliver
    <3> QED BY <3>1, <3>2, <3>3
  <2> QED BY <1>6, <2>1, DayKept DEF Deliver, clock
<1>7. ASSUME NEW x \in Orders, Arrive(x) PROVE DayEnds'
  <2>1. PICK st : order' = [order EXCEPT ![x].st = st] BY <1>7 DEF Arrive
  <2>2. \A o \in Limits : order'[o].st \in {"HANDED", "RESTING"} =>
           order[o].st \in {"HANDED", "RESTING"} /\ order'[o].day = order[o].day
    BY <1>0, <1>7, <2>1 DEF Arrive, Rows
  <2> QED BY <1>7, <2>2, DayKept DEF Arrive, clock
<1>8. ASSUME NEW x \in Orders, CancelArrives(x) PROVE DayEnds'
  <2>1. cancels' = cancels \ {x} /\ now' = now /\ alert' = alert /\ overslept' = overslept /\ order[x].st # "HANDED"
    BY <1>8 DEF CancelArrives, clock
  <2>2. order'[x].st \notin {"HANDED", "RESTING"} /\ \A o \in Orders : o # x => order'[o] = order[o]
    BY <1>0, <1>8 DEF CancelArrives, Rows
  <2> SUFFICES ASSUME NEW o \in Resting', Expired(o, now)' PROVE alert' \/ o \in cancels' \/ overslept' BY DEF DayEnds
  <2>3. o \in Orders /\ o \in Limits /\ order'[o].st \in {"HANDED", "RESTING"} BY DEF Resting, Unclosed
  <2>4. o # x /\ order'[o] = order[o] BY <2>2, <2>3
  <2>5. o \in Resting /\ Expired(o, now) BY <2>1, <2>3, <2>4 DEF Resting, Unclosed, Expired
  <2> QED BY <2>1, <2>4, <2>5 DEF DayEnds
<1>9. CASE Restart
  <2>1. now' = now BY <1>9 DEF Restart
  <2>2. order' = [o \in Orders |-> IF order[o].st = "HANDED" THEN [order[o] EXCEPT !.st = "CANCELED"] ELSE order[o]]
        /\ cancels' = {o \in Orders : order[o].st = "RESTING" /\ Expired(o, now)}
    BY <1>9 DEF Restart
  <2> SUFFICES ASSUME NEW o \in Resting', Expired(o, now)' PROVE o \in cancels' BY DEF DayEnds
  <2>3. o \in Orders /\ order'[o].st \in {"HANDED", "RESTING"} BY DEF Resting, Unclosed
  <2>4. [order[o] EXCEPT !.st = "CANCELED"].st = "CANCELED" BY <1>0, <2>3 DEF Rows
  <2>5. order'[o] = order[o] /\ order[o].st = "RESTING" BY <2>2, <2>3, <2>4
  <2>6. Expired(o, now) BY <2>1, <2>5 DEF Expired
  <2> QED BY <2>2, <2>3, <2>5, <2>6
<1>10. CASE UNCHANGED vars BY <1>1, <1>10 DEF vars
<1>11. CASE Armed \/ Receive \/ FeedFailed \/ Polling
  BY <1>1, <1>11 DEF Armed, Receive, FeedFailed, Polling, SitOut, ObserveUnready, ObserveDecrease, ObserveOutside,
     Observe, CrossingLanded, IdleLanded, CrossingLost, clock
<1>12. ASSUME NEW o \in Orders, AdmitMarket(o) \/ Placing(o) PROVE DayEnds'
  BY <1>1, <1>5, <1>12 DEF AdmitMarket, Placing, SizedLanded, SizedLost, RestoreIdle, Release, MarkFailed, clock
<1> QED BY <1>2, <1>3, <1>4, <1>6, <1>7, <1>8, <1>9, <1>10, <1>11, <1>12 DEF Next

\* An order that outlived its day is on its way out, whatever boundaries were skipped, unless
\* one of them passed while the node was starting and none has fired since: boundary of
\* cn.rs and reconcile_cn of node.rs, for any clock and any orders.
THEOREM DaysEnd == Spec => []DayEnds
<1>1. Init => DayEnds
  <2>1. Init => Resting = {}
    <3>1. Init => \A o \in Orders : order[o].st = "NEW" BY DEF Init
    <3> QED BY <3>1 DEF Resting, Unclosed
  <2> QED BY <2>1 DEF DayEnds
<1>2. Spec => []Shapes BY ShapesInit, ShapesStep, PTL DEF Spec
<1> QED BY <1>1, <1>2, DayStep, PTL DEF Spec
-------------------------------------------------------------------------------
(* The critical section: who is in it. *)

InSection(m) == req[m].pc \in Section
Crossed == poll.pc \in {"crossing", "restoring"}
Holding == Crossed \/ \E m \in Markets : InSection(m)

\* The flag is one's who is in the section; and until it is crowded the section is
\* one's, a MARKET that leaves it to another has lost it.
Exclusive ==
  /\ \A m, n \in Markets : InSection(m) /\ InSection(n) => m = n
  /\ Crossed => (inst.busy \/ ~inst.ready) /\ \A m \in Markets : ~InSection(m)
  /\ \A m \in Markets : InSection(m) /\ ~req[m].lost => inst.busy
Owned == (inst.busy => Holding) /\ (~crowded => Exclusive)

LEMMA QuietOwned ==
  ASSUME Owned, ~crowded' => ~crowded, inst'.busy = inst.busy, Crossed' = Crossed,
         Crossed => inst'.ready = inst.ready,
         \A m \in Markets : InSection(m)' = InSection(m) /\ (InSection(m) => req'[m].lost = req[m].lost)
  PROVE  Owned'
BY DEF Owned, Holding, Exclusive

LEMMA FailedOwned ==
  ASSUME Owned, ~crowded' => ~crowded, inst'.busy = FALSE, inst'.ready = FALSE, Crossed' => Crossed,
         \A m \in Markets : InSection(m)' => InSection(m) /\ req'[m].lost
  PROVE  Owned'
BY DEF Owned, Holding, Exclusive

LEMMA Kinds ==
  ASSUME Shapes
  PROVE  /\ inst \in Insts /\ poll \in Polls /\ now \in Times /\ order \in [Orders -> Rows]
         /\ wire \in Seq(Items) /\ engine \in Engines /\ req \in [Orders -> Reqs]
         /\ Markets \subseteq Orders /\ \A o \in Orders : req[o].pc \notin {"idle", "done"} => o \in Markets
         /\ ReqsOK(req) /\ NumbersOK /\ CarriedOK /\ OrdersOK /\ MovesOK
BY Sides, ShapesParts DEF Shapes

\* The statuses, the observations without a crossing and the sandbox leave it alone.
LEMMA SameOwned ==
  ASSUME Shapes, Owned,
         Tick \/ Boundary \/ Armed \/ Receive \/ SitOut \/ ObserveUnready \/ ObserveDecrease \/ ObserveOutside
           \/ (Observe /\ Crossings = <<>>) \/ CrossingLanded \/ (IdleLanded /\ poll.books # <<>>) \/ Deliver
  PROVE  Owned'
<1>0. inst \in Insts /\ poll \in Polls /\ now \in Times /\ Idling.pc = "idle"
      /\ [Idling EXCEPT !.pc = "held"].pc = "held"
  BY Kinds, NoPoll, PollEdits
<1>1. CASE Tick \/ Deliver BY <1>1, QuietOwned DEF Tick, Deliver, Crossed, InSection
<1>2. CASE Boundary \/ Armed
  <2>2. inst'.busy = inst.busy /\ inst'.ready = inst.ready
    <3>1. PICK s : s = StatusFor(now, ReadyAt) OBVIOUS
    <3>2. PICK r : r = StatusFor(boot.at, FALSE) OBVIOUS
    <3>3. inst' = [inst EXCEPT !.status = s] \/ inst' = [inst EXCEPT !.status = r]
      BY <1>2, <3>1, <3>2 DEF Boundary, Armed
    <3> QED BY <1>0, <3>3 DEF Insts
  <2>3. poll' = poll /\ req' = req /\ crowded' = crowded BY <1>2 DEF Boundary, Armed
  <2> QED BY <2>2, <2>3, QuietOwned DEF Crossed, InSection
<1>3. CASE Receive
  <2>1. poll'.pc = "held"
    <3>1. order \in [Orders -> Rows] BY Kinds
    <3> QED BY <1>0, <1>3, <3>1, ReceivedType DEF Receive
  <2>2. poll.pc = "idle" /\ inst' = inst /\ req' = req /\ crowded' = crowded BY <1>3 DEF Receive
  <2>3. Crossed' = Crossed BY <2>1, <2>2 DEF Crossed
  <2> QED BY <2>2, <2>3, QuietOwned DEF InSection
<1>4. CASE SitOut
  <2>1. poll.pc = "held" /\ poll' = Idling /\ inst' = inst /\ req' = req /\ crowded' = crowded
    BY <1>4 DEF SitOut
  <2>2. Crossed' = Crossed BY <1>0, <2>1 DEF Crossed
  <2> QED BY <2>1, <2>2, QuietOwned DEF InSection
<1>5. CASE ObserveUnready
  <2>1. PICK i : i = [inst EXCEPT !.ready = FALSE, !.status = StatusFor(now, FALSE)] OBVIOUS
  <2>2. i \in Insts /\ i.busy = inst.busy
    <3>1. PICK s : s = StatusFor(now, FALSE) OBVIOUS
    <3>2. s \in Statuses BY <1>0, <3>1, NowTypes
    <3> QED BY <1>0, <2>1, <3>1, <3>2 DEF Insts
  <2>3. inst' = Forgotten(i) BY <1>5, <2>1 DEF ObserveUnready
  <2>4. inst'.busy = inst.busy BY <2>2, <2>3, ForgottenType
  <2> QED BY <1>0, <1>5, <2>4, QuietOwned DEF ObserveUnready, MayObserve, Crossed, InSection
<1>6. CASE ObserveDecrease
  <2>1. PICK e : e = Established OBVIOUS
  <2>2. e \in Insts /\ e.busy = inst.busy BY <1>0, <2>1, EstablishedType
  <2>3. PICK i : i = [e EXCEPT !.status = "Pause"] OBVIOUS
  <2>4. i \in Insts /\ i.busy = inst.busy BY <2>2, <2>3 DEF Insts, Statuses
  <2>5. inst' = Forgotten(i) BY <1>6, <2>1, <2>3 DEF ObserveDecrease
  <2>6. inst'.busy = inst.busy BY <2>4, <2>5, ForgottenType
  <2> QED BY <1>0, <1>6, <2>6, QuietOwned DEF ObserveDecrease, MayObserve, Crossed, InSection
<1>7. CASE ObserveOutside
  <2>1. PICK e : e = Established OBVIOUS
  <2>2. e \in Insts /\ e.busy = inst.busy BY <1>0, <2>1, EstablishedType
  <2>3. PICK s : inst' = [e EXCEPT !.status = s] BY <1>7, <2>1 DEF ObserveOutside
  <2>4. inst'.busy = inst.busy BY <2>2, <2>3 DEF Insts
  <2> QED BY <1>0, <1>7, <2>4, QuietOwned DEF ObserveOutside, MayObserve, Crossed, InSection
<1>8. CASE Observe /\ Crossings = <<>>
  <2>1. inst' = Accepted BY <1>8 DEF Observe
  <2>2. inst'.busy = inst.busy BY <1>0, <2>1, AcceptedType
  <2> QED BY <1>0, <1>8, <2>2, QuietOwned DEF Observe, MayObserve, Crossed, InSection
<1>9. CASE CrossingLanded
  <2>1. poll'.pc = "restoring" BY <1>0, <1>9 DEF CrossingLanded, Polls
  <2> QED BY <1>9, <2>1, QuietOwned DEF CrossingLanded, Crossed, InSection
<1>10. CASE IdleLanded /\ poll.books # <<>>
  <2>1. PICK b : b = Tail(poll.books) OBVIOUS
  <2>2. poll' = [poll EXCEPT !.pc = "crossing", !.books = b] BY <1>10, <2>1 DEF IdleLanded
  <2>3. poll'.pc = "crossing" BY <1>0, <2>2 DEF Polls
  <2> QED BY <1>10, <2>3, QuietOwned DEF IdleLanded, Crossed, InSection
<1> QED BY <1>1, <1>2, <1>3, <1>4, <1>5, <1>6, <1>7, <1>8, <1>9, <1>10

\* Failures, crossings and the end of one, and a new node.
LEMMA CycleOwned ==
  ASSUME Shapes, Owned,
         FeedFailed \/ (Observe /\ Crossings # <<>>) \/ (IdleLanded /\ poll.books = <<>>) \/ CrossingLost \/ Restart
  PROVE  Owned'
<1>0. /\ inst \in Insts /\ poll \in Polls /\ now \in Times /\ Idling.pc = "idle" /\ CarriedOK
      /\ ReqsOK(req) /\ wire \in Seq(Items) /\ engine \in Engines /\ Markets \subseteq Orders
      /\ req \in [Orders -> Reqs] /\ crowded \in BOOLEAN
  BY Kinds, NoPoll DEF NumbersOK
<1>1. CASE FeedFailed
  <2>1. inst'.busy = FALSE /\ inst'.ready = FALSE BY <1>0, <1>1, FailType DEF FeedFailed
  <2>2. \A m \in Markets : InSection(m)' => InSection(m) /\ req'[m].lost
    BY <1>0, <1>1, LosingType DEF FeedFailed, InSection
  <2> QED BY <1>1, <2>1, <2>2, FailedOwned DEF FeedFailed, Crossed
<1>2. CASE Observe /\ Crossings # <<>>
  <2>1. PICK a : a = Accepted OBVIOUS
  <2>2. a \in Insts BY <1>0, <2>1, AcceptedType
  <2>3. inst' = [a EXCEPT !.busy = TRUE] BY <1>2, <2>1 DEF Observe
  <2>4. inst'.busy = TRUE BY <2>2, <2>3 DEF Insts
  <2>5. PICK R, b : R = Released /\ b = Tail(Crossings) OBVIOUS
  <2>6. poll' = [poll EXCEPT !.pc = "crossing", !.released = R, !.books = b] BY <1>2, <2>5 DEF Observe
  <2>7. Crossed' BY <1>0, <2>6 DEF Polls, Crossed
  <2>8. Taken /\ ~inst.busy /\ req' = req BY <1>2 DEF Observe, MayObserve
  <2>9. ~crowded' => ~crowded /\ \A m \in Markets : ~InSection(m)
    BY <1>0, <2>8 DEF Taken, InSection, Owned, Exclusive
  <2> QED BY <2>4, <2>7, <2>8, <2>9 DEF Owned, Holding, Exclusive, InSection
<1>3. CASE IdleLanded /\ poll.books = <<>>
  <2>1. inst' = [inst EXCEPT !.busy = FALSE] /\ poll' = Idling /\ req' = req /\ crowded' = crowded /\ Crossed
    BY <1>3 DEF IdleLanded, Crossed
  <2>2. inst'.busy = FALSE BY <1>0, <2>1 DEF Insts
  <2> QED BY <1>0, <2>1, <2>2 DEF Owned, Holding, Exclusive, InSection, Crossed
<1>4. CASE CrossingLost
  <2>1. inst'.busy = FALSE /\ inst'.ready = FALSE BY <1>0, <1>4, FailType DEF CrossingLost
  <2>2. poll' = Idling /\ req' = req /\ crowded' = crowded /\ Crossed BY <1>4 DEF CrossingLost, Crossed
  <2> QED BY <1>0, <2>1, <2>2 DEF Owned, Holding, Exclusive, InSection, Crossed
<1>5. CASE Restart
  <2>2. inst' = NoInst /\ poll' = Idling BY <1>5 DEF Restart
  <2>4. inst'.busy = FALSE BY <2>2, NoInstType DEF Statuses
  <2>5. NoReq.pc = "idle" /\ Done.pc = "done" BY DEF NoReq, Done
  <2>6. req' = [o \in Orders |-> IF req[o].pc = "idle" THEN NoReq ELSE Done] BY <1>5 DEF Restart
  <2>7. \A m \in Markets : ~InSection(m)' BY <1>0, <2>5, <2>6 DEF InSection, Section
  <2> QED BY <1>0, <2>2, <2>4, <2>7 DEF Owned, Holding, Exclusive, Crossed
<1> QED BY <1>1, <1>2, <1>3, <1>4, <1>5

\* The orders.
LEMMA OrderOwned ==
  ASSUME Shapes, Owned, NEW o \in Orders,
         AdmitLimit(o) \/ AdmitMarket(o) \/ Placing(o) \/ Arrive(o) \/ CancelArrives(o)
  PROVE  Owned'
<1>0. /\ inst \in Insts /\ CarriedOK /\ ReqsOK(req) /\ wire \in Seq(Items) /\ engine \in Engines
      /\ Markets \subseteq Orders /\ req \in [Orders -> Reqs] /\ crowded \in BOOLEAN
      /\ (req[o].pc \notin {"idle", "done"} => o \in Markets) /\ Done.pc = "done" /\ Limits \cap Markets = {}
  BY Kinds, Sides DEF NumbersOK, Done
<1>1. CASE AdmitLimit(o)
  <2>1. inst' = Baselined(o) /\ poll' = poll /\ req' = [req EXCEPT ![o] = Done] /\ o \in Limits
        /\ (~crowded' => ~crowded)
    BY <1>0, <1>1 DEF AdmitLimit, Taken
  <2>2. inst'.busy = inst.busy /\ inst'.ready = inst.ready BY <1>0, <2>1, BaseType
  <2>3. \A m \in Markets : req'[m] = req[m] BY <1>0, <2>1
  <2> QED BY <2>1, <2>2, <2>3, QuietOwned DEF Crossed, InSection
<1>2. CASE AdmitMarket(o)
  <2>1. inst' = [inst EXCEPT !.busy = TRUE] /\ poll' = poll /\ Taken /\ ~inst.busy /\ inst.ready /\ o \in Markets
        /\ req' = [req EXCEPT ![o] = [pc |-> "confirm", lost |-> FALSE]]
    BY <1>2 DEF AdmitMarket, Admissible, ReadyAt
  <2>2. inst'.busy = TRUE BY <1>0, <2>1 DEF Insts
  <2>3. req'[o].pc = "confirm" /\ \A m \in Markets : m # o => req'[m] = req[m] BY <1>0, <2>1
  <2>4. ~crowded' => ~crowded /\ \A m \in Markets : ~InSection(m)
    BY <1>0, <2>1 DEF Taken, InSection, Owned, Exclusive
  <2>5. ~crowded' => ~Crossed BY <1>0, <2>1, <2>4 DEF Owned, Exclusive
  <2> QED BY <2>1, <2>2, <2>3, <2>4, <2>5 DEF Owned, Holding, Exclusive, InSection, Section, Crossed
<1>3. CASE SizedLanded(o) \/ PlaceMarket(o) \/ RestoreIdle(o)
  <2>1. PICK pc \in {"place", "settle", "restoring"} : req' = [req EXCEPT ![o].pc = pc]
    BY <1>3 DEF SizedLanded, PlaceMarket, RestoreIdle
  <2>2. InSection(o) /\ inst' = inst /\ poll' = poll /\ crowded' = crowded
    BY <1>3 DEF SizedLanded, PlaceMarket, RestoreIdle, InSection, Section
  <2>3. req'[o].pc \in Section /\ req'[o].lost = req[o].lost /\ \A m \in Markets : m # o => req'[m] = req[m]
    BY <1>0, <2>1 DEF Reqs, Section
  <2> QED BY <2>2, <2>3, QuietOwned DEF Crossed, InSection
<1>4. CASE SizedLost(o) \/ MarkFailed(o)
  <2>1. FailLocal /\ req' = [Losing EXCEPT ![o] = Done] /\ poll' = poll /\ crowded' = crowded
    BY <1>4 DEF SizedLost, MarkFailed
  <2>2. inst'.busy = FALSE /\ inst'.ready = FALSE BY <1>0, <2>1, FailType
  <2>3. \A m \in Markets : InSection(m)' => InSection(m) /\ req'[m].lost
    <3>1. PICK L : L = Losing OBVIOUS
    <3>2. ReqsOK(L) /\ \A x \in Orders : /\ L[x].pc = req[x].pc
                                         /\ L[x].lost = (req[x].lost \/ req[x].pc \in Section)
      BY <1>0, <3>1, LosingType
    <3>3. req' = [L EXCEPT ![o] = Done] BY <2>1, <3>1
    <3>4. req'[o].pc = "done" /\ \A m \in Orders : m # o => req'[m] = L[m] BY <1>0, <3>2, <3>3 DEF ReqsOK
    <3> QED BY <1>0, <3>2, <3>4 DEF InSection, Section
  <2> QED BY <2>1, <2>2, <2>3, FailedOwned DEF Crossed
<1>5. CASE Release(o)
  <2>1. inst' = [inst EXCEPT !.busy = FALSE] /\ poll' = poll /\ crowded' = crowded
        /\ InSection(o) /\ o \in Markets
    BY <1>0, <1>5 DEF Release, InSection, Section
  <2>2. inst'.busy = FALSE BY <1>0, <2>1 DEF Insts
  <2>3. req'[o].pc \in {"done", "failed"} /\ \A m \in Markets : m # o => req'[m] = req[m]
    <3>1. CASE Landed(o) BY <1>0, <1>5, <3>1 DEF Release
    <3>2. CASE ~Landed(o)
      <4>1. req' = [req EXCEPT ![o].pc = "failed"] BY <1>5, <3>2 DEF Release
      <4> QED BY <1>0, <4>1 DEF Reqs
    <3> QED BY <3>1, <3>2
  <2> QED BY <2>1, <2>2, <2>3 DEF Owned, Holding, Exclusive, InSection, Section, Crossed
<1>6. CASE Arrive(o) \/ CancelArrives(o)
  BY <1>6, QuietOwned DEF Arrive, CancelArrives, Crossed, InSection
<1> QED BY <1>1, <1>2, <1>3, <1>4, <1>5, <1>6 DEF Placing

LEMMA OwnedStep == Shapes /\ Owned /\ [Next]_vars => Owned'
<1> SUFFICES ASSUME Shapes, Owned, [Next]_vars PROVE Owned' OBVIOUS
<1>1. CASE Next
  <2>1. ASSUME NEW o \in Orders, AdmitLimit(o) \/ AdmitMarket(o) \/ Placing(o) \/ Arrive(o) \/ CancelArrives(o)
        PROVE  Owned'
    BY <2>1, OrderOwned
  <2>2. CASE Observe BY <2>2, SameOwned, CycleOwned
  <2>3. CASE IdleLanded BY <2>3, SameOwned, CycleOwned
  <2>4. CASE FeedFailed \/ CrossingLost \/ Restart BY <2>4, CycleOwned
  <2>5. CASE Tick \/ Boundary \/ Armed \/ Receive \/ SitOut \/ ObserveUnready \/ ObserveDecrease \/ ObserveOutside
             \/ CrossingLanded \/ Deliver
    BY <2>5, SameOwned
  <2> QED BY <1>1, <2>1, <2>2, <2>3, <2>4, <2>5 DEF Next, Polling
<1>2. CASE UNCHANGED vars
  <2>1. inst' = inst /\ poll' = poll /\ req' = req /\ crowded' = crowded BY <1>2 DEF vars
  <2> QED BY <2>1, QuietOwned DEF Crossed, InSection
<1> QED BY <1>1, <1>2

LEMMA OwnedInit == Init => Owned
<1> SUFFICES ASSUME Init PROVE Owned OBVIOUS
<1>1. inst.busy = FALSE
  <2>1. inst = [NoInst EXCEPT !.status = "Pause"] BY DEF Init
  <2> QED BY <2>1, NoInstType DEF Statuses
<1>2. poll.pc = "idle" /\ \A o \in Orders : req[o].pc = "idle" BY NoPoll DEF Init, NoReq
<1> QED BY <1>1, <1>2, Sides DEF Owned, Holding, Exclusive, InSection, Section, Crossed
-------------------------------------------------------------------------------
(* What the day may still sell. *)

Sized == {m \in Markets : req[m].pc \in {"confirm", "place"}}

\* What is sold, and what the day's open sells may still take: what stands or is on its
\* way, and the sells a book has been sized for.
Committed == Sells \cap (Unclosed \cup Sized)
Unplaced  == \A m \in Sized : order[m].st = "NEW"
Covered   == ~crowded => sold + Cardinality(Committed) <= opening

LEMMA Committing ==
  ASSUME Shapes
  PROVE  /\ IsFiniteSet(Committed) /\ Cardinality(Committed) \in Nat
         /\ sold \in Nat /\ bought \in Nat /\ opening \in Int /\ crowded \in BOOLEAN
<1>1. Committed \in SUBSET Orders BY Sides DEF Committed
<1>2. IsFiniteSet(Committed) BY <1>1, Sides, FS_Subset
<1> QED BY <1>2, FS_CardinalityType DEF Shapes

\* A step that commits nothing more.
LEMMA Fewer ==
  ASSUME Shapes, Covered, ~crowded' => ~crowded, sold' = sold, opening' = opening, Committed' \subseteq Committed
  PROVE  Covered'
<1>1. PICK C : C = Committed OBVIOUS
<1>2. PICK D : D = Committed' OBVIOUS
<1>3. IsFiniteSet(C) /\ Cardinality(C) \in Nat /\ D \in SUBSET C /\ sold \in Nat /\ opening \in Int
  BY <1>1, <1>2, Committing
<1>4. IsFiniteSet(D) /\ Cardinality(D) <= Cardinality(C) BY <1>3, FS_Subset
<1>5. Cardinality(D) \in Nat BY <1>4, FS_CardinalityType
<1>6. ~crowded => sold + Cardinality(C) <= opening BY <1>1 DEF Covered
<1>7. ~crowded' => sold + Cardinality(D) <= opening BY <1>3, <1>4, <1>5, <1>6
<1> QED BY <1>2, <1>7 DEF Covered

\* A fill moves from what is committed to what is sold.
LEMMA Filling ==
  ASSUME Shapes, Covered, crowded' = crowded, opening' = opening, NEW os \in SUBSET Unclosed,
         sold' = sold + Cardinality(os \cap Sells), Committed' \subseteq Committed \ os
  PROVE  Covered'
<1>1. PICK C : C = Committed OBVIOUS
<1>2. PICK D : D = Committed' OBVIOUS
<1>3. PICK F : F = os \cap Sells OBVIOUS
<1>4. IsFiniteSet(C) /\ Cardinality(C) \in Nat /\ sold \in Nat /\ opening \in Int BY <1>1, Committing
<1>5. F \in SUBSET C /\ C \cap F = F BY <1>1, <1>3 DEF Committed
<1>6. IsFiniteSet(F) BY <1>4, <1>5, FS_Subset
<1>7. Cardinality(F) \in Nat BY <1>6, FS_CardinalityType
<1>8. IsFiniteSet(C \ F) /\ Cardinality(C \ F) = Cardinality(C) - Cardinality(C \cap F)
  BY <1>4, FS_Difference
<1>81. Cardinality(C \ F) = Cardinality(C) - Cardinality(F) BY <1>5, <1>8
<1>9. D \in SUBSET (C \ F) BY <1>1, <1>2, <1>3
<1>10. IsFiniteSet(D) /\ Cardinality(D) <= Cardinality(C \ F) BY <1>8, <1>9, FS_Subset
<1>11. Cardinality(D) \in Nat BY <1>10, FS_CardinalityType
<1>12. ~crowded => sold + Cardinality(C) <= opening BY <1>1 DEF Covered
<1>13. sold' = sold + Cardinality(F) BY <1>3
<1>14. ~crowded' => sold' + Cardinality(D) <= opening' BY <1>4, <1>7, <1>81, <1>10, <1>11, <1>12, <1>13
<1> QED BY <1>2, <1>14 DEF Covered

\* An admission sees everything committed: with the section free no sell is sized.
LEMMA Admitting ==
  ASSUME Shapes, Covered, Owned, NEW o \in Orders, Admissible(o), Taken, sold' = sold, opening' = opening,
         Committed' \subseteq Committed \cup ({o} \cap Sells)
  PROVE  Covered'
<1>0. ~crowded' => ~crowded BY Committing DEF Taken
<1>1. CASE o \notin Sells BY <1>0, <1>1, Fewer
<1>2. CASE o \in Sells
  <2> SUFFICES ASSUME ~crowded' PROVE (sold + Cardinality(Committed) <= opening)' BY DEF Covered
  <2>1. ~crowded /\ \A m \in Markets : ~(req[m].lost /\ req[m].pc \in Section)
    BY <1>0 DEF Taken
  <2>2. Sized = {} BY <2>1 DEF Sized, Section, InSection, Owned, Exclusive, Admissible
  <2>3. Committed = Reserved BY <2>2 DEF Committed, Reserved
  <2>4. PICK C : C = Committed OBVIOUS
  <2>5. PICK D : D = Committed' OBVIOUS
  <2>6. IsFiniteSet(C) /\ Cardinality(C) \in Nat /\ sold \in Nat /\ opening \in Int BY <2>4, Committing
  <2>7. opening - sold > Cardinality(C) BY <1>2, <2>3, <2>4 DEF Admissible, Sellable
  <2>8. IsFiniteSet(C \cup {o}) /\ Cardinality(C \cup {o}) <= Cardinality(C) + 1
        /\ Cardinality(C \cup {o}) \in Nat
    <3>1. IsFiniteSet(C \cup {o})
          /\ Cardinality(C \cup {o}) = IF o \in C THEN Cardinality(C) ELSE Cardinality(C) + 1
      BY <2>6, FS_AddElement
    <3> QED BY <2>6, <3>1
  <2>9. D \in SUBSET (C \cup {o}) BY <2>4, <2>5
  <2>10. IsFiniteSet(D) /\ Cardinality(D) <= Cardinality(C \cup {o}) BY <2>8, <2>9, FS_Subset
  <2>11. Cardinality(D) \in Nat BY <2>10, FS_CardinalityType
  <2>12. sold' + Cardinality(D) <= opening' BY <2>6, <2>7, <2>8, <2>10, <2>11
  <2> QED BY <2>5, <2>12
<1> QED BY <1>1, <1>2

CoverInv == Unplaced /\ Covered

LEMMA CoverStep == Shapes /\ Owned /\ CoverInv /\ [Next]_vars => CoverInv'
<1> SUFFICES ASSUME Shapes, Owned, CoverInv, [Next]_vars PROVE CoverInv' OBVIOUS
<1>0. /\ order \in [Orders -> Rows] /\ req \in [Orders -> Reqs] /\ ReqsOK(req) /\ Markets \subseteq Orders
      /\ Limits \cap Markets = {} /\ Limits \subseteq Orders /\ Unplaced /\ Covered
      /\ Done.pc = "done" /\ NoReq.pc = "idle"
      /\ sold \in Nat /\ bought \in Nat /\ opening \in Int /\ crowded \in BOOLEAN
      /\ \A o \in Orders : req[o].pc \notin {"idle", "done"} => o \in Markets
  BY Kinds, Sides, Committing DEF CoverInv, Done, NoReq
<1>1. ASSUME UNCHANGED <<order, sold, opening>>, ~crowded' => ~crowded, Sized' \subseteq Sized
      PROVE  CoverInv'
  <2>1. Committed' \subseteq Committed BY <1>1 DEF Committed, Unclosed
  <2>2. Unplaced' BY <1>0, <1>1 DEF Unplaced
  <2> QED BY <1>0, <1>1, <2>1, <2>2, Fewer DEF CoverInv
<1>2. CASE Tick
  <2>1. order' = order /\ req' = req /\ crowded' = crowded BY <1>2 DEF Tick
  <2>2. \/ sold' = sold /\ opening' = opening
        \/ sold' = 0 /\ opening' = opening + bought - sold
    BY <1>2 DEF Tick, position
  <2>3. Sized' = Sized /\ Committed' = Committed BY <2>1 DEF Sized, Committed, Unclosed
  <2>4. Unplaced' BY <1>0, <2>1, <2>3 DEF Unplaced
  <2>5. Cardinality(Committed) \in Nat BY Committing
  <2>6. ~crowded' => sold' + Cardinality(Committed) <= opening' BY <1>0, <2>1, <2>2, <2>5 DEF Covered
  <2> QED BY <2>3, <2>4, <2>6 DEF CoverInv, Covered
<1>3. ASSUME NEW l \in Orders, AdmitLimit(l) PROVE CoverInv'
  <2>1. order' = Handed(l) /\ req' = [req EXCEPT ![l] = Done] /\ l \in Limits /\ Admissible(l) /\ Taken
        /\ sold' = sold /\ opening' = opening
    BY <1>3 DEF AdmitLimit, position
  <2>2. \A o \in Orders : o # l => order'[o] = order[o] /\ req'[o] = req[o] BY <1>0, <2>1 DEF Handed
  <2>3. Sized' = Sized /\ l \notin Sized BY <1>0, <2>1, <2>2 DEF Sized
  <2>4. Unplaced' BY <1>0, <2>2, <2>3 DEF Unplaced, Sized
  <2>5. Committed' \subseteq Committed \cup ({l} \cap Sells) BY <2>2, <2>3 DEF Committed, Unclosed
  <2> QED BY <1>0, <2>1, <2>4, <2>5, Admitting DEF CoverInv
<1>4. ASSUME NEW m \in Orders, AdmitMarket(m) PROVE CoverInv'
  <2>1. order' = order /\ req' = [req EXCEPT ![m] = [pc |-> "confirm", lost |-> FALSE]] /\ m \in Markets
        /\ Admissible(m) /\ Taken /\ sold' = sold /\ opening' = opening /\ order[m].st = "NEW"
    BY <1>4 DEF AdmitMarket, position
  <2>2. \A o \in Orders : o # m => req'[o] = req[o] BY <1>0, <2>1
  <2>3. Sized' \subseteq Sized \cup {m} BY <1>0, <2>2 DEF Sized
  <2>4. Unplaced' BY <1>0, <2>1, <2>3 DEF Unplaced
  <2>5. Committed' \subseteq Committed \cup ({m} \cap Sells) BY <2>1, <2>3 DEF Committed, Unclosed
  <2> QED BY <1>0, <2>1, <2>4, <2>5, Admitting DEF CoverInv
<1>5. ASSUME NEW m \in Orders, PlaceMarket(m) PROVE CoverInv'
  <2>1. order' = Handed(m) /\ req' = [req EXCEPT ![m].pc = "settle"] /\ req[m].pc = "place"
        /\ sold' = sold /\ opening' = opening /\ crowded' = crowded
    BY <1>5 DEF PlaceMarket, position
  <2>2. \A o \in Orders : o # m => order'[o] = order[o] /\ req'[o] = req[o] BY <1>0, <2>1 DEF Handed
  <2>3. m \in Sized /\ req'[m].pc = "settle" BY <1>0, <2>1 DEF Sized, Reqs
  <2>4. Sized' \subseteq Sized \ {m} BY <1>0, <2>2, <2>3 DEF Sized
  <2>5. Unplaced' BY <1>0, <2>2, <2>4 DEF Unplaced, Sized
  <2>6. Committed' \subseteq Committed BY <2>2, <2>3, <2>4 DEF Committed, Unclosed
  <2> QED BY <1>0, <2>1, <2>5, <2>6, Fewer DEF CoverInv
<1>6. ASSUME NEW m \in Orders, SizedLanded(m) PROVE CoverInv'
  <2>1. req' = [req EXCEPT ![m].pc = "place"] /\ req[m].pc = "confirm" /\ crowded' = crowded
        /\ UNCHANGED <<order, sold, opening>>
    BY <1>6 DEF SizedLanded, position
  <2>2. Sized' \subseteq Sized BY <1>0, <2>1 DEF Sized
  <2> QED BY <1>1, <2>1, <2>2
<1>7. ASSUME NEW m \in Orders, RestoreIdle(m) \/ Release(m) PROVE CoverInv'
  <2>1. crowded' = crowded /\ UNCHANGED <<order, sold, opening>> BY <1>7 DEF RestoreIdle, Release, position
  <2>2. req' = [req EXCEPT ![m].pc = "restoring"] \/ req' = [req EXCEPT ![m] = Done]
        \/ req' = [req EXCEPT ![m].pc = "failed"]
    <3>1. CASE RestoreIdle(m) BY <3>1 DEF RestoreIdle
    <3>2. CASE Release(m) /\ Landed(m) BY <3>2 DEF Release
    <3>3. CASE Release(m) /\ ~Landed(m) BY <3>3 DEF Release
    <3> QED BY <1>7, <3>1, <3>2, <3>3
  <2>3. req'[m].pc \in {"restoring", "done", "failed"} /\ \A o \in Orders : o # m => req'[o] = req[o]
    BY <1>0, <2>2 DEF Reqs
  <2>4. Sized' \subseteq Sized BY <1>0, <2>3 DEF Sized
  <2> QED BY <1>1, <2>1, <2>4
<1>8. ASSUME NEW m \in Orders, SizedLost(m) \/ MarkFailed(m) PROVE CoverInv'
  <2>1. crowded' = crowded /\ UNCHANGED <<order, sold, opening>> /\ req' = [Losing EXCEPT ![m] = Done]
    BY <1>8 DEF SizedLost, MarkFailed, position
  <2>2. PICK L : L = Losing OBVIOUS
  <2>3. ReqsOK(L) /\ \A x \in Orders : L[x].pc = req[x].pc BY <1>0, <2>2, LosingType
  <2>4. req' = [L EXCEPT ![m] = Done] BY <2>1, <2>2
  <2>5. req'[m].pc = "done" /\ \A o \in Orders : o # m => req'[o].pc = req[o].pc
    BY <1>0, <2>3, <2>4 DEF ReqsOK
  <2>6. Sized' \subseteq Sized BY <1>0, <2>5 DEF Sized
  <2> QED BY <1>1, <2>1, <2>6
<1>9. CASE FeedFailed
  <2>1. crowded' = crowded /\ UNCHANGED <<order, sold, opening>> /\ req' = Losing
    BY <1>9 DEF FeedFailed, position
  <2>2. PICK L : L = Losing OBVIOUS
  <2>3. \A x \in Orders : L[x].pc = req[x].pc BY <1>0, <2>2, LosingType
  <2>4. Sized' = Sized BY <1>0, <2>1, <2>2, <2>3 DEF Sized
  <2> QED BY <1>1, <2>1, <2>4
<1>10. ASSUME NEW os \in SUBSET Unclosed, NEW book, Fill(os, book), opening' = opening, crowded' = crowded,
              req' = req, \A o \in Orders : o \notin os => order'[o] = order[o],
              \A o \in os : order'[o].st = "FILLED"
       PROVE  CoverInv'
  <2>1. Sized' = Sized BY <1>10 DEF Sized
  <2>2. \A m \in Sized : m \notin os BY <1>0, <1>10 DEF Unplaced, Unclosed
  <2>3. Unplaced' BY <1>0, <1>10, <2>1, <2>2 DEF Unplaced, Sized
  <2>4. Committed' \subseteq Committed \ os BY <1>10, <2>1, <2>2 DEF Committed, Unclosed
  <2>5. sold' = sold + Cardinality(os \cap Sells) BY <1>10 DEF Fill
  <2> QED BY <1>0, <1>10, <2>3, <2>4, <2>5, Filling DEF CoverInv
<1>11. ASSUME NEW o \in Orders, order[o].st # "NEW", order'[o].st \in {"HANDED", "RESTING"} => o \in Unclosed,
              \A x \in Orders : x # o => order'[x] = order[x], req' = req,
              sold' = sold, opening' = opening, crowded' = crowded
       PROVE  CoverInv'
  <2>1. Sized' = Sized /\ o \notin Sized BY <1>0, <1>11 DEF Sized, Unplaced
  <2>2. Unplaced' BY <1>0, <1>11, <2>1 DEF Unplaced, Sized
  <2>3. Committed' \subseteq Committed BY <1>11, <2>1 DEF Committed, Unclosed
  <2> QED BY <1>0, <1>11, <2>2, <2>3, Fewer DEF CoverInv
<1>12. CASE Deliver
  <2>1. PICK F : F = {o \in Limits : /\ engine.status = "Trading" /\ order[o].st = "RESTING"
                                     /\ Takes(o, Head(wire))}
    OBVIOUS
  <2>2. req' = req /\ crowded' = crowded /\ opening' = opening BY <1>12 DEF Deliver
  <2>3. CASE UNCHANGED <<order, sold>>
    <3>1. Sized' = Sized BY <2>2 DEF Sized
    <3> QED BY <1>1, <2>2, <2>3, <3>1
  <2>4. CASE /\ order' = [o \in Orders |-> IF o \in F THEN [order[o] EXCEPT !.st = "FILLED"] ELSE order[o]]
             /\ Fill(F, Head(wire))
    <3>1. F \in SUBSET Unclosed BY <1>0, <2>1 DEF Unclosed
    <3>2. \A o \in Orders : [order[o] EXCEPT !.st = "FILLED"].st = "FILLED" BY <1>0 DEF Rows
    <3>3. F \subseteq Orders BY <1>0, <2>1
    <3>4. \A o \in F : order'[o].st = "FILLED" BY <2>4, <3>2, <3>3
    <3>5. \A o \in Orders : o \notin F => order'[o] = order[o] BY <2>4
    <3> QED BY <1>10, <2>2, <2>4, <3>1, <3>4, <3>5
  <2> QED BY <1>12, <2>1, <2>3, <2>4 DEF Deliver
<1>13. ASSUME NEW o \in Orders, Arrive(o) PROVE CoverInv'
  <2>1. PICK st \in {"FILLED", "REJECTED", "RESTING"} : order' = [order EXCEPT ![o].st = st]
    BY <1>13 DEF Arrive
  <2>2. order'[o].st = st /\ \A x \in Orders : x # o => order'[x] = order[x] BY <1>0, <2>1 DEF Rows
  <2>3. req' = req /\ crowded' = crowded /\ opening' = opening /\ order[o].st = "HANDED" /\ o \in Unclosed
    BY <1>13 DEF Arrive, Unclosed
  <2>4. CASE UNCHANGED <<bought, sold, early>> BY <1>11, <2>2, <2>3, <2>4
  <2>5. CASE order' = [order EXCEPT ![o].st = "FILLED"] /\ Fill({o}, engine.book)
    <3>1. order'[o].st = "FILLED" BY <1>0, <2>5 DEF Rows
    <3>2. {o} \in SUBSET Unclosed /\ \A x \in Orders : x \notin {o} => order'[x] = order[x] BY <2>2, <2>3
    <3> QED BY <1>10, <2>3, <2>5, <3>1, <3>2
  <2> QED BY <1>13, <2>4, <2>5 DEF Arrive
<1>14. ASSUME NEW o \in Orders, CancelArrives(o) PROVE CoverInv'
  <2>1. req' = req /\ crowded' = crowded /\ opening' = opening /\ sold' = sold
    BY <1>14 DEF CancelArrives, position
  <2>2. CASE order[o].st = "RESTING"
    <3>1. order' = [order EXCEPT ![o].st = "CANCELED"] BY <1>14, <2>2 DEF CancelArrives
    <3>2. order'[o].st = "CANCELED" /\ \A x \in Orders : x # o => order'[x] = order[x]
      BY <1>0, <3>1 DEF Rows
    <3> QED BY <1>11, <2>1, <2>2, <3>2
  <2>3. CASE order[o].st # "RESTING"
    <3>1. order' = order BY <1>14, <2>3 DEF CancelArrives
    <3>2. Sized' = Sized BY <2>1 DEF Sized
    <3> QED BY <1>1, <2>1, <3>1, <3>2
  <2> QED BY <2>2, <2>3
<1>15. CASE Restart
  <2>1. req' = [o \in Orders |-> IF req[o].pc = "idle" THEN NoReq ELSE Done] /\ crowded' = crowded
        /\ sold' = sold /\ opening' = opening
    BY <1>15 DEF Restart, position
  <2>2. Sized' = {} BY <1>0, <2>1 DEF Sized
  <2>3. \A o \in Orders : order'[o].st \in {"HANDED", "RESTING"} => order'[o] = order[o]
    <3>1. \A o \in Orders : [order[o] EXCEPT !.st = "CANCELED"].st = "CANCELED" BY <1>0 DEF Rows
    <3>2. order' = [o \in Orders |-> IF order[o].st = "HANDED" THEN [order[o] EXCEPT !.st = "CANCELED"] ELSE order[o]]
      BY <1>15 DEF Restart
    <3> QED BY <3>1, <3>2
  <2>4. Unplaced' BY <2>2 DEF Unplaced
  <2>5. Committed' \subseteq Committed BY <2>2, <2>3 DEF Committed, Unclosed
  <2> QED BY <1>0, <2>1, <2>4, <2>5, Fewer DEF CoverInv
<1>16. CASE Observe
  <2>1. req' = req /\ order' = order /\ sold' = sold /\ opening' = opening BY <1>16 DEF Observe, position
  <2>2. ~crowded' => ~crowded
    <3>1. CASE Crossings = <<>> BY <1>16, <3>1 DEF Observe
    <3>2. CASE Crossings # <<>> BY <1>0, <1>16, <3>2 DEF Observe, Taken
    <3> QED BY <3>1, <3>2
  <2>3. Sized' = Sized BY <2>1 DEF Sized
  <2> QED BY <1>1, <2>1, <2>2, <2>3
<1>17. CASE Boundary \/ Armed \/ Receive \/ SitOut \/ ObserveUnready \/ ObserveDecrease \/ ObserveOutside
            \/ CrossingLanded \/ IdleLanded \/ CrossingLost
  <2>1. req' = req /\ order' = order /\ sold' = sold /\ opening' = opening /\ crowded' = crowded
    BY <1>17 DEF Boundary, Armed, Receive, SitOut, ObserveUnready, ObserveDecrease, ObserveOutside, CrossingLanded,
       IdleLanded, CrossingLost, position
  <2>2. Sized' = Sized BY <2>1 DEF Sized
  <2> QED BY <1>1, <2>1, <2>2
<1>18. CASE UNCHANGED vars
  <2>1. req' = req /\ order' = order /\ sold' = sold /\ opening' = opening /\ crowded' = crowded
    BY <1>18 DEF vars
  <2>2. Sized' = Sized BY <2>1 DEF Sized
  <2> QED BY <1>1, <2>1, <2>2
<1>19. ASSUME NEW o \in Orders, Placing(o) PROVE CoverInv'
  BY <1>5, <1>6, <1>7, <1>8, <1>19 DEF Placing
<1> QED BY <1>2, <1>3, <1>4, <1>9, <1>12, <1>13, <1>14, <1>15, <1>16, <1>17, <1>18, <1>19 DEF Next, Polling

\* T+1, for any number of sells racing each other, the sandbox and the fills: a day never
\* sells more than it opened with, unless the section was taken from a MARKET that had
\* lost it (sellable, check and size_for_market of cn.rs).
THEOREM NeverOversold == Spec => []NothingBoughtTodayIsSold
<1>1. Init => CoverInv
  <2> SUFFICES ASSUME Init PROVE CoverInv OBVIOUS
  <2>1. \A o \in Orders : order[o].st = "NEW" /\ req[o].pc = "idle" BY DEF Init, NoReq
  <2>2. Committed = {} /\ Sized = {} BY <2>1, Sides DEF Committed, Sized, Unclosed
  <2>3. Cardinality(Committed) = 0 BY <2>2, FS_EmptySet
  <2>4. sold = 0 /\ opening = Held BY DEF Init
  <2> QED BY <2>2, <2>3, <2>4, CnAssumption DEF CoverInv, Covered, Unplaced
<1>2. Shapes /\ CoverInv => NothingBoughtTodayIsSold
  BY Committing DEF CoverInv, Covered, NothingBoughtTodayIsSold
<1>3. Spec => []Shapes BY ShapesInit, ShapesStep, PTL DEF Spec
<1>4. Spec => []Owned BY <1>3, OwnedInit, OwnedStep, PTL DEF Spec
<1> QED BY <1>1, <1>2, <1>3, <1>4, CoverStep, PTL DEF Spec
-------------------------------------------------------------------------------
(* Publications: what a step does to the quotes on the way and to the one that *)
(* stands.                                                                     *)

Hot(q)    == q.bid \/ q.ask
Quoted    == {i \in DOMAIN wire : wire[i].kind = "quote"}
Wanted(w) == {i \in Quoted : wire[i].want = w}
Waiters   == Orders \cup {"poll"}

\* no quote is published
Kept == /\ Quoted' = Quoted /\ \A i \in Quoted : wire'[i] = wire[i]
        /\ engine'.book = engine.book
\* one is, behind the others
Sent(q) ==
  \E k \in Nat : /\ \A i \in Quoted : i < k
                 /\ Quoted' = Quoted \cup {k} /\ wire'[k] = q
                 /\ \A i \in Quoted : wire'[i] = Unwanted(q.want, wire[i])
                 /\ engine'.book = Unwanted(q.want, engine.book)

LEMMA QuoteFacts ==
  ASSUME Shapes
  PROVE  /\ Quoted \subseteq Nat \ {0} /\ Quoted \subseteq 1 .. Len(wire) /\ DOMAIN wire = 1 .. Len(wire)
         /\ Len(wire) \in Nat
         /\ \A i \in Quoted : wire[i] \in Quotes /\ wire[i] \in Items
         /\ engine.book \in Quotes /\ engine.book.kind = "quote" /\ engine.book \in Items
<1>1. wire \in Seq(Items) /\ engine \in Engines BY DEF Shapes
<1>2. DOMAIN wire = 1 .. Len(wire) /\ Len(wire) \in Nat BY <1>1, LenProperties
<1>3. \A i \in 1 .. Len(wire) : wire[i] \in Items BY <1>1, ElementOfSeq
<1>4. \A i \in Quoted : wire[i] \in Quotes BY <1>2, <1>3 DEF Quoted, Items, Gates
<1>5. engine.book \in Quotes BY <1>1 DEF Engines
<1> QED BY <1>2, <1>3, <1>4, <1>5 DEF Quoted, Quotes, Items

\* A publication that is nobody's ("none") clears nothing.
LEMMA SameQuote ==
  ASSUME NEW q \in Quotes
  PROVE  Unwanted("none", q) = q
<1>1. CASE q.want = "none"
  <2>1. [q EXCEPT !.want = "none"] = q BY <1>1 DEF Quotes
  <2> QED BY <2>1 DEF Unwanted
<1>2. CASE q.want # "none" BY <1>2 DEF Unwanted
<1> QED BY <1>1, <1>2

LEMMA GateKept ==
  ASSUME Shapes, NEW s \in Statuses, NEW items \in {StatusChange(s), <<Gate(s)>>}, Publish(items, "none")
  PROVE  Kept
<1>0. /\ wire \in Seq(Items) /\ engine \in Engines /\ "none" \in Wants /\ items \in Seq(Items)
  BY GateType, Ids DEF Shapes
<1>2. /\ wire' \in Seq(Items) /\ Len(wire') = Len(wire) + Len(items)
      /\ \A i \in 1 .. Len(wire) : wire'[i] = Unwanted("none", wire[i])
      /\ \A i \in 1 .. Len(items) : wire'[Len(wire) + i] = items[i]
      /\ engine'.book = Unwanted("none", engine.book)
  BY <1>0, PublishType
<1>3. Len(items) \in Nat /\ \A i \in 1 .. Len(items) : items[i].kind # "quote"
  BY DEF StatusChange, Gate
<1>4. DOMAIN wire' = 1 .. Len(wire') BY <1>2, LenProperties
<1>5. \A i \in 1 .. Len(wire) : wire[i] \in Items BY <1>0, ElementOfSeq
<1>6. \A i \in 1 .. Len(wire) : wire'[i].kind = wire[i].kind BY <1>0, <1>2, <1>5, UnwantedType
<1>7. ASSUME NEW i \in 1 .. Len(wire'), ~(i \in 1 .. Len(wire)) PROVE wire'[i].kind # "quote"
  <2>1. PICK j : j = i - Len(wire) OBVIOUS
  <2>2. j \in 1 .. Len(items) /\ Len(wire) + j = i BY <1>2, <1>3, <1>7, <2>1, QuoteFacts
  <2> QED BY <1>2, <1>3, <2>2
<1>8. Quoted' = Quoted
  <2>1. 1 .. Len(wire) \subseteq 1 .. Len(wire') BY <1>2, <1>3, QuoteFacts
  <2> QED BY <1>4, <1>6, <1>7, <2>1, QuoteFacts DEF Quoted
<1>9. \A i \in Quoted : wire'[i] = wire[i] BY <1>2, SameQuote, QuoteFacts
<1>10. engine'.book = engine.book BY <1>2, SameQuote, QuoteFacts
<1> QED BY <1>8, <1>9, <1>10 DEF Kept

LEMMA FailKept == ASSUME Shapes, FailLocal PROVE Kept
BY GateKept DEF FailLocal, Statuses

LEMMA QuoteSent ==
  ASSUME Shapes, NEW q \in Quotes, NEW items \in Seq(Items), Publish(items, q.want),
         NEW j \in 1 .. Len(items), items[j] = q, \A i \in 1 .. Len(items) : i # j => items[i].kind # "quote"
  PROVE  Sent(q)
<1>0. wire \in Seq(Items) /\ engine \in Engines /\ q.want \in Wants /\ q.kind = "quote" BY DEF Shapes, Quotes
<1>1. PICK w : w = q.want OBVIOUS
<1>2. /\ wire' \in Seq(Items) /\ Len(wire') = Len(wire) + Len(items)
      /\ \A i \in 1 .. Len(wire) : wire'[i] = Unwanted(w, wire[i])
      /\ \A i \in 1 .. Len(items) : wire'[Len(wire) + i] = items[i]
      /\ engine'.book = Unwanted(w, engine.book)
  BY <1>0, <1>1, PublishType
<1>3. Len(items) \in Nat BY LenProperties
<1>4. DOMAIN wire' = 1 .. Len(wire') BY <1>2, LenProperties
<1>5. \A i \in 1 .. Len(wire) : wire[i] \in Items BY <1>0, ElementOfSeq
<1>6. \A i \in 1 .. Len(wire) : wire'[i].kind = wire[i].kind BY <1>0, <1>1, <1>2, <1>5, UnwantedType
<1>7. PICK k : k = Len(wire) + j OBVIOUS
<1>8. k \in Nat /\ k \in 1 .. Len(wire') /\ wire'[k] = q /\ \A i \in 1 .. Len(wire) : i < k
  BY <1>2, <1>3, <1>7, QuoteFacts
<1>9. ASSUME NEW i \in 1 .. Len(wire'), ~(i \in 1 .. Len(wire)), i # k PROVE wire'[i].kind # "quote"
  <2>1. PICK h : h = i - Len(wire) OBVIOUS
  <2>2. h \in 1 .. Len(items) /\ Len(wire) + h = i /\ h # j BY <1>2, <1>3, <1>7, <1>9, <2>1, QuoteFacts
  <2> QED BY <1>2, <2>2
<1>10. Quoted' = Quoted \cup {k}
  <2>1. 1 .. Len(wire) \subseteq 1 .. Len(wire') BY <1>2, <1>3, QuoteFacts
  <2> QED BY <1>0, <1>4, <1>6, <1>8, <1>9, <2>1, QuoteFacts DEF Quoted
<1> QED BY <1>1, <1>2, <1>8, <1>10, QuoteFacts DEF Sent

LEMMA OneSent == ASSUME Shapes, NEW q \in Quotes, Publish(<<q>>, q.want) PROVE Sent(q)
<1>1. <<q>> \in Seq(Items) /\ Len(<<q>>) = 1 /\ <<q>>[1] = q BY DEF Items
<1>2. PICK items : items = <<q>> OBVIOUS
<1>3. items \in Seq(Items) /\ Len(items) = 1 /\ items[1] = q /\ 1 \in 1 .. Len(items)
      /\ \A i \in 1 .. Len(items) : i # 1 => items[i].kind # "quote"
  BY <1>1, <1>2
<1>4. Publish(items, q.want) BY <1>2
<1> QED BY <1>3, <1>4, QuoteSent

\* with the gate after it, or before it
LEMMA GateSent ==
  ASSUME Shapes, NEW q \in Quotes, NEW s \in Statuses,
         Publish(<<q>> \o StatusChange(s), q.want) \/ Publish(StatusChange(s) \o <<q>>, q.want)
  PROVE  Sent(q)
<1>1. PICK c : c = StatusChange(s) OBVIOUS
<1>2. /\ c \in Seq(Items) /\ Len(c) \in Nat
      /\ \A i \in 1 .. Len(c) : c[i].kind # "quote"
  <2>1. c \in Seq(Items) BY <1>1, GateType
  <2>2. \A i \in 1 .. Len(c) : c[i].kind # "quote" BY <1>1 DEF StatusChange, Gate
  <2> QED BY <2>1, <2>2, LenProperties
<1>3. PICK u : u = <<q>> OBVIOUS
<1>4. u \in Seq(Items) /\ Len(u) = 1 /\ u[1] = q BY <1>3 DEF Items
<1>5. CASE Publish(<<q>> \o StatusChange(s), q.want)
  <2>1. PICK items : items = u \o c OBVIOUS
  <2>2. /\ items \in Seq(Items) /\ Len(items) = Len(u) + Len(c)
        /\ \A i \in 1 .. Len(u) + Len(c) : items[i] = IF i <= Len(u) THEN u[i] ELSE c[i - Len(u)]
    BY <1>2, <1>4, <2>1, ConcatProperties
  <2>3. 1 \in 1 .. Len(items) /\ items[1] = q BY <1>2, <1>4, <2>2
  <2>4. \A i \in 1 .. Len(items) : i # 1 => items[i].kind # "quote"
    <3>1. \A i \in 1 .. Len(items) : i # 1 => i - 1 \in 1 .. Len(c) /\ items[i] = c[i - 1]
      BY <1>2, <1>4, <2>2
    <3> QED BY <1>2, <3>1
  <2>5. Publish(items, q.want) BY <1>1, <1>3, <1>5, <2>1
  <2> QED BY <2>2, <2>3, <2>4, <2>5, QuoteSent
<1>6. CASE Publish(StatusChange(s) \o <<q>>, q.want)
  <2>1. PICK items : items = c \o u OBVIOUS
  <2>2. /\ items \in Seq(Items) /\ Len(items) = Len(c) + Len(u)
        /\ \A i \in 1 .. Len(c) + Len(u) : items[i] = IF i <= Len(c) THEN c[i] ELSE u[i - Len(c)]
    BY <1>2, <1>4, <2>1, ConcatProperties
  <2>3. PICK j : j = Len(c) + 1 OBVIOUS
  <2>4. j \in 1 .. Len(items) /\ items[j] = q BY <1>2, <1>4, <2>2, <2>3
  <2>5. \A i \in 1 .. Len(items) : i # j => items[i].kind # "quote"
    <3>1. \A i \in 1 .. Len(items) : i # j => i \in 1 .. Len(c) /\ items[i] = c[i]
      BY <1>2, <1>4, <2>2, <2>3
    <3> QED BY <1>2, <3>1
  <2>6. Publish(items, q.want) BY <1>1, <1>3, <1>6, <2>1
  <2> QED BY <2>2, <2>4, <2>5, <2>6, QuoteSent
<1> QED BY <1>5, <1>6

\* What a step that publishes nothing leaves, and what one quote changes: only its own
\* waiter's.
LEMMA KeptFacts ==
  ASSUME Kept
  PROVE  \A w : Wanted(w)' = Wanted(w) /\ (Landed(w)' <=> Landed(w))
BY DEF Kept, Wanted, Landed

LEMMA SentFacts ==
  ASSUME Shapes, NEW q \in Quotes, q.want \in Waiters, Sent(q)
  PROVE  /\ (Hot(engine.book)' <=> Hot(engine.book)) /\ engine'.book.known = engine.book.known
         /\ \A w \in Waiters : w # q.want => Wanted(w)' = Wanted(w) /\ (Landed(w)' <=> Landed(w))
         /\ ~Landed(q.want)'
         /\ \E k \in Nat :
              /\ Quoted' = Quoted \cup {k} /\ k \notin Quoted /\ wire'[k] = q /\ Wanted(q.want)' = {k}
              /\ \A i \in Quoted : /\ i < k
                                   /\ (Hot(wire'[i]) <=> Hot(wire[i])) /\ wire'[i].known = wire[i].known
                                   /\ wire[i].want # q.want => wire'[i].want = wire[i].want
<1>0. PICK w : w = q.want OBVIOUS
<1>1. w \in Waiters /\ w \in Wants /\ w # "none" /\ "none" \notin Waiters
  BY <1>0, Sides, Ids DEF Waiters, Wants
<1>2. PICK k \in Nat : /\ \A i \in Quoted : i < k
                       /\ Quoted' = Quoted \cup {k} /\ wire'[k] = q
                       /\ \A i \in Quoted : wire'[i] = Unwanted(w, wire[i])
                       /\ engine'.book = Unwanted(w, engine.book)
  BY <1>0 DEF Sent
<1>3. k \notin Quoted BY <1>2, QuoteFacts
<1>4. \A i \in Quoted : /\ wire'[i].bid = wire[i].bid /\ wire'[i].ask = wire[i].ask
                        /\ wire'[i].known = wire[i].known
                        /\ wire'[i].want = IF wire[i].want = w THEN "none" ELSE wire[i].want
  BY <1>1, <1>2, QuoteFacts, UnwantedType DEF Quoted
<1>5. /\ engine'.book.bid = engine.book.bid /\ engine'.book.ask = engine.book.ask
      /\ engine'.book.known = engine.book.known
      /\ engine'.book.want = IF engine.book.want = w THEN "none" ELSE engine.book.want
  BY <1>1, <1>2, QuoteFacts, UnwantedType
<1>6. \A v \in Waiters : v # w => Wanted(v)' = Wanted(v)
  BY <1>0, <1>1, <1>2, <1>3, <1>4 DEF Wanted
<1>7. \A v \in Waiters : v # w => (Landed(v)' <=> Landed(v)) BY <1>1, <1>5 DEF Landed
<1>8. Wanted(w)' = {k} BY <1>0, <1>1, <1>2, <1>3, <1>4 DEF Wanted
<1>9. ~Landed(w)' BY <1>1, <1>5 DEF Landed
<1>10. /\ Hot(engine.book)' <=> Hot(engine.book)
       /\ \A i \in Quoted : Hot(wire'[i]) <=> Hot(wire[i])
  BY <1>4, <1>5 DEF Hot
<1> QED BY <1>0, <1>2, <1>3, <1>4, <1>5, <1>6, <1>7, <1>8, <1>9, <1>10

LEMMA KeptSteps ==
  ASSUME Shapes,
         \/ Tick \/ Boundary \/ Armed \/ Receive \/ FeedFailed \/ SitOut \/ ObserveUnready \/ CrossingLost
         \/ (IdleLanded /\ poll.books = <<>>) \/ UNCHANGED vars
         \/ \E o \in Orders : \/ AdmitLimit(o) \/ SizedLanded(o) \/ SizedLost(o) \/ PlaceMarket(o)
                              \/ Release(o) \/ MarkFailed(o) \/ Arrive(o) \/ CancelArrives(o)
  PROVE  Kept
<1>1. CASE UNCHANGED <<wire, engine>> BY <1>1 DEF Kept, Quoted
<1>2. CASE Boundary
  <2>1. PICK s : s = StatusFor(now, ReadyAt) OBVIOUS
  <2>2. s \in Statuses
    <3>1. ReadyAt \in BOOLEAN /\ now \in Times BY DEF ReadyAt, Shapes, Insts
    <3> QED BY <2>1, <3>1, NowTypes
  <2> QED BY <1>2, <2>1, <2>2, GateKept DEF Boundary
<1>9. CASE Armed
  <2>1. PICK s : s = StatusFor(boot.at, FALSE) OBVIOUS
  <2>2. s \in Statuses BY <2>1, NowTypes DEF Shapes
  <2> QED BY <1>9, <2>1, <2>2, GateKept DEF Armed
<1>3. CASE ObserveUnready
  <2>1. PICK s : s = StatusFor(now, FALSE) OBVIOUS
  <2>2. s \in Statuses BY <2>1, NowTypes DEF Shapes
  <2> QED BY <1>3, <2>1, <2>2, GateKept DEF ObserveUnready
<1>4. CASE FailLocal BY <1>4, FailKept
<1>5. CASE Tick \/ Receive \/ SitOut \/ (IdleLanded /\ poll.books = <<>>)
  BY <1>1, <1>5 DEF Tick, Receive, SitOut, IdleLanded
<1>6. CASE FeedFailed \/ CrossingLost BY <1>4, <1>6 DEF FeedFailed, CrossingLost
<1>7. CASE UNCHANGED vars BY <1>1, <1>7 DEF vars
<1>8. ASSUME NEW o \in Orders, \/ AdmitLimit(o) \/ SizedLanded(o) \/ SizedLost(o) \/ PlaceMarket(o)
                               \/ Release(o) \/ MarkFailed(o) \/ Arrive(o) \/ CancelArrives(o)
      PROVE  Kept
  BY <1>1, <1>4, <1>8 DEF AdmitLimit, SizedLanded, SizedLost, PlaceMarket, Release, MarkFailed, Arrive, CancelArrives
<1> QED BY <1>2, <1>3, <1>5, <1>6, <1>7, <1>8, <1>9

LEMMA Books ==
  ASSUME Shapes
  PROVE  /\ \A w \in Wants : IdleQuote(w) \in Quotes /\ IdleQuote(w).want = w /\ ~Hot(IdleQuote(w))
         /\ \A b \in Seq({"BUY", "SELL"}) : b # <<>> =>
              /\ Crossing(Head(b)) \in Quotes /\ Crossing(Head(b)).want = "poll"
              /\ Crossing(Head(b)).known = Admitted
         /\ \A o \in Orders : SizedBook(o) \in Quotes /\ SizedBook(o).want = o /\ SizedBook(o).known = Admitted
         /\ Crossings \in Seq({"BUY", "SELL"}) /\ poll.books \in Seq({"BUY", "SELL"}) /\ "poll" \in Wants
<1>1. inst \in Insts /\ poll \in Polls /\ poll.books \in Seq({"BUY", "SELL"}) BY DEF Shapes, Polls
<1>2. \A w \in Wants : IdleQuote(w) \in Quotes /\ IdleQuote(w).want = w /\ ~Hot(IdleQuote(w))
  BY IdleType DEF Hot
<1>3. \A b \in Seq({"BUY", "SELL"}) : b # <<>> =>
        /\ Crossing(Head(b)) \in Quotes /\ Crossing(Head(b)).want = "poll"
        /\ Crossing(Head(b)).known = Admitted
  BY <1>1, CrossingsType DEF Crossing, Quote
<1>4. \A o \in Orders : SizedBook(o) \in Quotes /\ SizedBook(o).want = o /\ SizedBook(o).known = Admitted
  BY <1>1, SizedType DEF SizedBook, Quote
<1> QED BY <1>1, <1>2, <1>3, <1>4, CrossingsType, Ids

LEMMA SentSteps ==
  ASSUME Shapes
  PROVE  /\ ObserveDecrease \/ ObserveOutside \/ (Observe /\ Crossings = <<>>) \/ CrossingLanded
              => Sent(IdleQuote("poll"))
         /\ Observe /\ Crossings # <<>> => Sent(Crossing(Head(Crossings)))
         /\ IdleLanded /\ poll.books # <<>> => Sent(Crossing(Head(poll.books)))
         /\ \A o \in Orders : /\ AdmitMarket(o) => Sent(SizedBook(o))
                              /\ RestoreIdle(o) => Sent(IdleQuote(o))
<1>0. /\ now \in Times /\ "Pause" \in Statuses /\ "Trading" \in Statuses
      /\ \A r \in BOOLEAN : StatusFor(now, r) \in Statuses
  BY NowTypes DEF Shapes, Statuses
<1>1. PICK q : q = IdleQuote("poll") OBVIOUS
<1>2. q \in Quotes /\ q.want = "poll" BY <1>1, Books
<1>3. ASSUME ObserveDecrease PROVE Sent(IdleQuote("poll"))
  BY <1>0, <1>1, <1>2, <1>3, GateSent DEF ObserveDecrease
<1>4. ASSUME ObserveOutside PROVE Sent(IdleQuote("poll"))
  BY <1>0, <1>1, <1>2, <1>4, GateSent DEF ObserveOutside
<1>5. ASSUME Observe /\ Crossings = <<>> PROVE Sent(IdleQuote("poll"))
  BY <1>0, <1>1, <1>2, <1>5, GateSent DEF Observe
<1>6. ASSUME CrossingLanded PROVE Sent(IdleQuote("poll"))
  BY <1>1, <1>2, <1>6, OneSent DEF CrossingLanded
<1>7. ASSUME Observe, Crossings # <<>> PROVE Sent(Crossing(Head(Crossings)))
  <2>1. PICK c : c = Crossing(Head(Crossings)) OBVIOUS
  <2>2. c \in Quotes /\ c.want = "poll" BY <1>7, <2>1, Books
  <2> QED BY <1>0, <1>7, <2>1, <2>2, GateSent DEF Observe
<1>8. ASSUME IdleLanded, poll.books # <<>> PROVE Sent(Crossing(Head(poll.books)))
  <2>1. PICK c : c = Crossing(Head(poll.books)) OBVIOUS
  <2>2. c \in Quotes /\ c.want = "poll" BY <1>8, <2>1, Books
  <2> QED BY <1>8, <2>1, <2>2, OneSent DEF IdleLanded
<1>9. ASSUME NEW o \in Orders, AdmitMarket(o) PROVE Sent(SizedBook(o))
  <2>1. SizedBook(o) \in Quotes /\ SizedBook(o).want = o BY Books
  <2> QED BY <1>9, <2>1, OneSent DEF AdmitMarket
<1>10. ASSUME NEW o \in Orders, RestoreIdle(o) PROVE Sent(IdleQuote(o))
  <2>1. IdleQuote(o) \in Quotes /\ IdleQuote(o).want = o BY Books, Ids
  <2> QED BY <1>10, <2>1, OneSent DEF RestoreIdle
<1> QED BY <1>1, <1>3, <1>4, <1>5, <1>6, <1>7, <1>8, <1>9, <1>10

\* The runner delivers the first of them.
LEMMA Delivered ==
  ASSUME Shapes, Deliver
  PROVE  /\ \A i \in Quoted' : i \in Nat /\ i + 1 \in Quoted /\ wire'[i] = wire[i + 1]
         /\ \A j \in Quoted : j # 1 => j - 1 \in Quoted' /\ wire'[j - 1] = wire[j]
         /\ wire[1] = Head(wire) /\ (Head(wire).kind = "quote" <=> 1 \in Quoted)
<1>0. wire \in Seq(Items) /\ wire # <<>> /\ wire' = Tail(wire) BY DEF Shapes, Deliver
<1>1. Len(wire) \in Nat \ {0} /\ wire[1] = Head(wire) BY <1>0, EmptySeq
<1>2. /\ wire' \in Seq(Items) /\ Len(wire') = Len(wire) - 1
      /\ \A i \in 1 .. Len(wire) - 1 : wire'[i] = wire[i + 1]
  BY <1>0, <1>1, HeadTailProperties
<1>3. DOMAIN wire' = 1 .. Len(wire') /\ DOMAIN wire = 1 .. Len(wire) BY <1>0, <1>2, LenProperties
<1>4. \A i \in Quoted' : i \in Nat /\ i + 1 \in Quoted /\ wire'[i] = wire[i + 1]
  <2>1. ASSUME NEW i \in Quoted' PROVE i \in Nat /\ i + 1 \in Quoted /\ wire'[i] = wire[i + 1]
    <3>1. i \in 1 .. Len(wire) - 1 /\ wire'[i].kind = "quote" BY <1>2, <1>3 DEF Quoted
    <3>2. wire'[i] = wire[i + 1] /\ i + 1 \in 1 .. Len(wire) /\ i \in Nat BY <1>1, <1>2, <3>1
    <3> QED BY <1>3, <3>1, <3>2 DEF Quoted
  <2> QED BY <2>1
<1>5. ASSUME NEW j \in Quoted, j # 1 PROVE j - 1 \in Quoted' /\ wire'[j - 1] = wire[j]
  <2>1. j \in 1 .. Len(wire) /\ wire[j].kind = "quote" BY <1>3 DEF Quoted
  <2>2. PICK i : i = j - 1 OBVIOUS
  <2>3. i \in 1 .. Len(wire) - 1 /\ i + 1 = j BY <1>1, <1>5, <2>1, <2>2
  <2>4. wire'[i] = wire[j] BY <1>2, <2>3
  <2>5. i \in Quoted' BY <1>2, <1>3, <2>1, <2>3, <2>4 DEF Quoted
  <2> QED BY <2>2, <2>4, <2>5
<1>6. Head(wire).kind = "quote" <=> 1 \in Quoted BY <1>1, <1>3 DEF Quoted
<1> QED BY <1>1, <1>4, <1>5, <1>6

\* The route call an action moves, and what becomes of the others.
Others(o) == \A x \in Orders : x # o => req'[x] = req[x]
Lost(o)   == \A x \in Orders : x # o => /\ req'[x].pc = req[x].pc
                                        /\ ~req'[x].lost => ~req[x].lost /\ req[x].pc \notin Section

LEMMA Routes ==
  ASSUME Shapes, NEW o \in Orders
  PROVE  /\ AdmitLimit(o) => req[o].pc = "idle" /\ req'[o].pc = "done" /\ Others(o)
         /\ AdmitMarket(o) => req[o].pc = "idle" /\ req'[o].pc = "confirm" /\ Others(o)
         /\ SizedLanded(o) => req[o].pc = "confirm" /\ req'[o].pc = "place" /\ req'[o].lost = req[o].lost /\ Others(o)
         /\ PlaceMarket(o) => req[o].pc = "place" /\ req'[o].pc = "settle" /\ req'[o].lost = req[o].lost /\ Others(o)
         /\ RestoreIdle(o) => req[o].pc = "settle" /\ req'[o].pc = "restoring" /\ Others(o)
         /\ Release(o) => req[o].pc = "restoring" /\ req'[o].pc \in {"done", "failed"} /\ Others(o)
         /\ SizedLost(o) => req[o].pc = "confirm" /\ req'[o].pc = "done" /\ Lost(o)
         /\ MarkFailed(o) => req[o].pc = "failed" /\ req'[o].pc = "done" /\ Lost(o)
         /\ FeedFailed => \A x \in Orders : /\ req'[x].pc = req[x].pc
                                            /\ ~req'[x].lost => ~req[x].lost /\ req[x].pc \notin Section
         /\ Restart => \A x \in Orders : req'[x].pc = IF req[x].pc = "idle" THEN "idle" ELSE "done"
<1>0. req \in [Orders -> Reqs] /\ ReqsOK(req) BY Kinds
<1>1. PICK d, n, c : d = Done /\ n = NoReq /\ c = [pc |-> "confirm", lost |-> FALSE] OBVIOUS
<1>2. d.pc = "done" /\ n.pc = "idle" /\ c.pc = "confirm" BY <1>1 DEF Done, NoReq
<1>3. AdmitLimit(o) => req[o].pc = "idle" /\ req'[o].pc = "done" /\ Others(o)
  BY <1>0, <1>1, <1>2 DEF AdmitLimit, Others
<1>4. AdmitMarket(o) => req[o].pc = "idle" /\ req'[o].pc = "confirm" /\ Others(o)
  BY <1>0, <1>1, <1>2 DEF AdmitMarket, Others
<1>5. ASSUME NEW pc, req' = [req EXCEPT ![o].pc = pc]
      PROVE  req'[o].pc = pc /\ req'[o].lost = req[o].lost /\ Others(o)
  BY <1>0, <1>5 DEF Others, Reqs
<1>6. /\ SizedLanded(o) => req[o].pc = "confirm" /\ req'[o].pc = "place" /\ req'[o].lost = req[o].lost /\ Others(o)
      /\ PlaceMarket(o) => req[o].pc = "place" /\ req'[o].pc = "settle" /\ req'[o].lost = req[o].lost /\ Others(o)
      /\ RestoreIdle(o) => req[o].pc = "settle" /\ req'[o].pc = "restoring" /\ Others(o)
  BY <1>5 DEF SizedLanded, PlaceMarket, RestoreIdle
<1>7. ASSUME Release(o) PROVE req[o].pc = "restoring" /\ req'[o].pc \in {"done", "failed"} /\ Others(o)
  <2>1. CASE Landed(o)
    <3>1. req' = [req EXCEPT ![o] = d] BY <1>1, <1>7, <2>1 DEF Release
    <3> QED BY <1>0, <1>2, <1>7, <3>1 DEF Release, Others
  <2>2. CASE ~Landed(o)
    <3>1. req' = [req EXCEPT ![o].pc = "failed"] BY <1>7, <2>2 DEF Release
    <3> QED BY <1>5, <1>7, <3>1 DEF Release
  <2> QED BY <2>1, <2>2
<1>8. PICK L : L = Losing OBVIOUS
<1>9. ReqsOK(L) /\ \A x \in Orders : /\ L[x].pc = req[x].pc
                                     /\ L[x].lost = (req[x].lost \/ req[x].pc \in Section)
  BY <1>0, <1>8, LosingType
<1>10. ASSUME req' = [Losing EXCEPT ![o] = Done] PROVE req'[o].pc = "done" /\ Lost(o)
  <2>1. req' = [L EXCEPT ![o] = d] BY <1>1, <1>8, <1>10
  <2> QED BY <1>2, <1>9, <2>1 DEF ReqsOK, Lost
<1>11. /\ SizedLost(o) => req[o].pc = "confirm" /\ req'[o].pc = "done" /\ Lost(o)
       /\ MarkFailed(o) => req[o].pc = "failed" /\ req'[o].pc = "done" /\ Lost(o)
  BY <1>10 DEF SizedLost, MarkFailed
<1>12. FeedFailed => \A x \in Orders : /\ req'[x].pc = req[x].pc
                                       /\ ~req'[x].lost => ~req[x].lost /\ req[x].pc \notin Section
  BY <1>8, <1>9 DEF FeedFailed
<1>13. Restart => \A x \in Orders : req'[x].pc = IF req[x].pc = "idle" THEN "idle" ELSE "done"
  BY <1>1, <1>2 DEF Restart
<1> QED BY <1>3, <1>4, <1>6, <1>7, <1>11, <1>12, <1>13
-------------------------------------------------------------------------------
(* Who waits for which quote. *)

\* One quote at most is waited for by each, and an order that was not admitted waits for
\* none.
Waits ==
  /\ \A w \in Waiters : \A i, j \in Wanted(w) : i = j
  /\ \A w \in Waiters : Landed(w) => Wanted(w) = {}
  /\ \A o \in Orders : req[o].pc = "idle" => Wanted(o) = {} /\ ~Landed(o)

LEMMA WaitsKept ==
  ASSUME Waits, Kept, \A o \in Orders : req'[o].pc = "idle" => req[o].pc = "idle"
  PROVE  Waits'
<1>1. \A w : Wanted(w)' = Wanted(w) /\ (Landed(w)' <=> Landed(w)) BY KeptFacts
<1> QED BY <1>1 DEF Waits

LEMMA WaitsSent ==
  ASSUME Shapes, Waits, NEW q \in Quotes, q.want \in Waiters, Sent(q),
         \A o \in Orders : req'[o].pc = "idle" => req[o].pc = "idle" /\ o # q.want
  PROVE  Waits'
<1>1. PICK w : w = q.want OBVIOUS
<1>2. /\ \A v \in Waiters : v # w => Wanted(v)' = Wanted(v) /\ (Landed(v)' <=> Landed(v))
      /\ ~Landed(w)' /\ \E k \in Nat : Wanted(w)' = {k}
  BY <1>1, SentFacts
<1>3. \A v \in Waiters : \A i, j \in Wanted(v)' : i = j
  <2>1. SUFFICES ASSUME NEW v \in Waiters, NEW i \in Wanted(v)', NEW j \in Wanted(v)' PROVE i = j OBVIOUS
  <2>2. CASE v = w BY <1>2, <2>2
  <2>3. CASE v # w BY <1>2, <2>3 DEF Waits
  <2> QED BY <2>2, <2>3
<1>4. \A v \in Waiters : Landed(v)' => Wanted(v)' = {} BY <1>2 DEF Waits
<1>5. \A o \in Orders : req'[o].pc = "idle" => Wanted(o)' = {} /\ ~Landed(o)'
  BY <1>1, <1>2 DEF Waits, Waiters
<1> QED BY <1>3, <1>4, <1>5 DEF Waits

LEMMA WaitsDelivered == ASSUME Shapes, Waits, Deliver PROVE Waits'
<1>1. /\ \A i \in Quoted' : i \in Nat /\ i + 1 \in Quoted /\ wire'[i] = wire[i + 1]
      /\ wire[1] = Head(wire) /\ (Head(wire).kind = "quote" <=> 1 \in Quoted)
  BY Delivered
<1>2. \A w : \A i \in Wanted(w)' : i \in Nat /\ i + 1 \in Wanted(w) BY <1>1 DEF Wanted
<1>3. \A w \in Waiters : \A i, j \in Wanted(w)' : i = j
  <2>1. SUFFICES ASSUME NEW w \in Waiters, NEW i \in Wanted(w)', NEW j \in Wanted(w)' PROVE i = j OBVIOUS
  <2>2. i \in Nat /\ j \in Nat /\ i + 1 \in Wanted(w) /\ j + 1 \in Wanted(w) BY <1>2
  <2>3. i + 1 = j + 1 BY <2>2 DEF Waits
  <2> QED BY <2>2, <2>3
<1>4. engine'.book = engine.book \/ (1 \in Quoted /\ engine'.book = wire[1])
  <2>1. engine \in Engines BY DEF Shapes
  <2>2. PICK h : h = Head(wire) OBVIOUS
  <2>3. \/ h.kind = "status" /\ engine' = [engine EXCEPT !.status = h.status]
        \/ engine' = engine
        \/ h.kind = "quote" /\ engine' = [engine EXCEPT !.book = h]
    BY <2>2 DEF Deliver
  <2> QED BY <1>1, <2>1, <2>2, <2>3 DEF Engines
<1>5. \A w \in Waiters : Landed(w)' => Wanted(w)' = {}
  <2>1. SUFFICES ASSUME NEW w \in Waiters, engine'.book.want = w, NEW i \in Wanted(w)' PROVE FALSE BY DEF Landed
  <2>2. i \in Nat /\ i + 1 \in Wanted(w) BY <1>2
  <2>3. CASE engine'.book = engine.book BY <2>1, <2>2, <2>3 DEF Waits, Landed
  <2>4. CASE 1 \in Quoted /\ engine'.book = wire[1]
    <3>1. 1 \in Wanted(w) BY <2>1, <2>4 DEF Wanted
    <3>2. i + 1 = 1 /\ i # 0
      <4>1. i \in Quoted' BY DEF Wanted
      <4>2. i # 0
        <5>1. Shapes' BY SandboxShapes
        <5>2. wire' \in Seq(Items) BY <5>1 DEF Shapes
        <5>3. DOMAIN wire' = 1 .. Len(wire') BY <5>2, LenProperties
        <5> QED BY <4>1, <5>3 DEF Quoted
      <4> QED BY <2>2, <3>1, <4>2 DEF Waits
    <3> QED BY <2>2, <3>2
  <2> QED BY <1>4, <2>3, <2>4
<1>6. \A o \in Orders : req'[o].pc = "idle" => Wanted(o)' = {} /\ ~Landed(o)'
  <2>1. SUFFICES ASSUME NEW o \in Orders, req'[o].pc = "idle" PROVE Wanted(o)' = {} /\ ~Landed(o)' OBVIOUS
  <2>2. Wanted(o) = {} /\ ~Landed(o) BY <2>1 DEF Waits, Deliver
  <2>3. Wanted(o)' = {} BY <1>2, <2>2
  <2>4. ~Landed(o)' BY <1>4, <2>2 DEF Landed, Wanted
  <2> QED BY <2>3, <2>4
<1> QED BY <1>3, <1>5, <1>6 DEF Waits

LEMMA WaitsStep == Shapes /\ Waits /\ [Next]_vars => Waits'
<1> SUFFICES ASSUME Shapes, Waits, [Next]_vars PROVE Waits' OBVIOUS
<1>1. CASE Tick \/ Boundary \/ Armed \/ Receive \/ SitOut \/ ObserveUnready \/ CrossingLost \/ UNCHANGED vars
           \/ (IdleLanded /\ poll.books = <<>>)
  <2>1. Kept BY <1>1, KeptSteps
  <2>2. req' = req
    BY <1>1 DEF Tick, Boundary, Armed, Receive, SitOut, ObserveUnready, CrossingLost, IdleLanded, vars
  <2> QED BY <2>1, <2>2, WaitsKept
<1>2. CASE FeedFailed
  <2>1. Kept BY <1>2, KeptSteps
  <2>2. \A x \in Orders : req'[x].pc = req[x].pc
    <3>1. SUFFICES ASSUME NEW x \in Orders PROVE req'[x].pc = req[x].pc OBVIOUS
    <3> QED BY <1>2, <3>1, Routes
  <2> QED BY <2>1, <2>2, WaitsKept
<1>3. CASE ObserveDecrease \/ ObserveOutside \/ Observe \/ CrossingLanded \/ (IdleLanded /\ poll.books # <<>>)
  <2>1. req' = req BY <1>3 DEF ObserveDecrease, ObserveOutside, Observe, CrossingLanded, IdleLanded
  <2>2. PICK q \in Quotes : q.want = "poll" /\ Sent(q)
    <3>1. IdleQuote("poll") \in Quotes /\ IdleQuote("poll").want = "poll" BY Books
    <3>2. Crossings # <<>> => Crossing(Head(Crossings)) \in Quotes /\ Crossing(Head(Crossings)).want = "poll"
      BY Books
    <3>3. poll.books # <<>> => Crossing(Head(poll.books)) \in Quotes /\ Crossing(Head(poll.books)).want = "poll"
      BY Books
    <3> QED BY <1>3, <3>1, <3>2, <3>3, SentSteps
  <2>3. "poll" \in Waiters /\ "poll" \notin Orders BY Sides DEF Waiters
  <2> QED BY <2>1, <2>2, <2>3, WaitsSent
<1>4. ASSUME NEW o \in Orders, \/ AdmitLimit(o) \/ SizedLanded(o) \/ SizedLost(o) \/ PlaceMarket(o)
                               \/ Release(o) \/ MarkFailed(o)
      PROVE  Waits'
  <2>1. Kept BY <1>4, KeptSteps
  <2>2. \A x \in Orders : req'[x].pc = "idle" => req[x].pc = "idle" BY <1>4, Routes DEF Others, Lost
  <2> QED BY <2>1, <2>2, WaitsKept
<1>5. ASSUME NEW o \in Orders, Arrive(o) \/ CancelArrives(o) PROVE Waits'
  <2>1. Kept BY <1>5, KeptSteps
  <2>2. req' = req BY <1>5 DEF Arrive, CancelArrives
  <2> QED BY <2>1, <2>2, WaitsKept
<1>6. ASSUME NEW o \in Orders, AdmitMarket(o) \/ RestoreIdle(o) PROVE Waits'
  <2>1. \A x \in Orders : req'[x].pc = "idle" => req[x].pc = "idle" /\ x # o
    BY <1>6, Routes DEF Others
  <2>2. PICK q \in Quotes : q.want = o /\ Sent(q) BY <1>6, Books, Ids, SentSteps
  <2> QED BY <2>1, <2>2, WaitsSent DEF Waiters
<1>7. CASE Deliver BY <1>7, WaitsDelivered
<1>8. CASE Restart
  <2>2. wire' = <<>> /\ engine'.book = IdleQuote("none") BY <1>8 DEF Restart
  <2>3. Quoted' = {} BY <2>2 DEF Quoted
  <2>4. engine'.book.want = "none" BY <2>2, Books, Ids
  <2>5. "none" \notin Waiters /\ Orders \subseteq Waiters BY Sides DEF Waiters
  <2> QED BY <2>3, <2>4, <2>5 DEF Waits, Wanted, Landed
<1> QED BY <1>1, <1>2, <1>3, <1>4, <1>5, <1>6, <1>7, <1>8 DEF Next, Polling, Placing
-------------------------------------------------------------------------------
(* The books a MARKET and a crossing put up, and what still rests on them. *)

Submitted == Limits \cap Admitted
Cold == torn \/ ~Hot(engine.book)

\* Until its section is lost, the last quote published is the one sized for the MARKET,
\* from its admission until its order is settled.
SizedLast ==
  \A m \in Markets : ~req[m].lost =>
    /\ req[m].pc = "confirm" => \A i \in Wanted(m), j \in Quoted : j <= i
    /\ req[m].pc = "confirm" /\ Landed(m) => Quoted = {}
    /\ req[m].pc \in {"place", "settle"} => Landed(m) /\ Quoted = {}

\* An executable book on its way is waited for, and knows every LIMIT.
HotWanted ==
  \A i \in Quoted : Hot(wire[i]) =>
    /\ \/ \E m \in Markets : wire[i].want = m /\ req[m].pc = "confirm"
       \/ wire[i].want = "poll" /\ poll.pc = "crossing"
    /\ Submitted \subseteq wire[i].known

\* The one that stands knows every LIMIT; it is up while somebody is in the section and
\* has waited for it, and gone, or known to be lost, when he leaves.
Standing ==
  /\ Cold \/ Submitted \subseteq engine.book.known
  /\ ~Holding => Cold
  /\ \A m \in Markets : /\ req[m].pc = "confirm" => Landed(m) \/ Cold
                        /\ req[m].pc = "restoring" => Cold \/ Wanted(m) # {}
  /\ poll.pc = "crossing" => Landed("poll") \/ Cold
  /\ poll.pc = "restoring" => Cold \/ Wanted("poll") # {}

Safe == SizedLast /\ HotWanted /\ Standing

\* Nothing is published, nobody moves.
LEMMA SafeSame ==
  ASSUME Safe, Kept, \A x \in Markets : req'[x].pc = req[x].pc /\ (~req'[x].lost => ~req[x].lost),
         \A pc \in {"crossing", "restoring"} : poll'.pc = pc <=> poll.pc = pc,
         torn' = torn, Submitted' = Submitted
  PROVE  Safe'
<1>1. \A w : Wanted(w)' = Wanted(w) /\ (Landed(w)' <=> Landed(w)) BY KeptFacts
<1>2. SizedLast' BY <1>1 DEF Safe, SizedLast, Kept
<1>3. HotWanted' BY DEF Safe, HotWanted, Kept, Hot
<1>4. Cold' <=> Cold BY DEF Cold, Kept, Hot
<1>5. Holding' <=> Holding BY DEF Holding, Crossed, InSection
<1>6. Standing' BY <1>1, <1>4, <1>5 DEF Safe, Standing, Kept
<1> QED BY <1>2, <1>3, <1>6 DEF Safe

\* Nothing is published, and a MARKET moves.
LEMMA SafeMoved ==
  ASSUME Safe, Kept, NEW o \in Orders, poll' = poll, torn' = torn, Submitted' = Submitted,
         \A x \in Orders : x # o => req'[x].pc = req[x].pc /\ (~req'[x].lost => ~req[x].lost),
         req'[o].pc \notin {"confirm", "restoring"},
         req'[o].pc \in {"place", "settle"} /\ ~req'[o].lost => Landed(o) /\ Quoted = {},
         req[o].pc = "confirm" => \A i \in Wanted(o) : ~Hot(wire[i]),
         Holding /\ ~Holding' => Cold
  PROVE  Safe'
<1>1. \A w : Wanted(w)' = Wanted(w) /\ (Landed(w)' <=> Landed(w)) BY KeptFacts
<1>2. SizedLast'
  <2>1. ASSUME NEW m \in Markets, ~req'[m].lost
        PROVE  /\ req'[m].pc = "confirm" => \A i \in Wanted(m)', j \in Quoted' : j <= i
               /\ req'[m].pc = "confirm" /\ Landed(m)' => Quoted' = {}
               /\ req'[m].pc \in {"place", "settle"} => Landed(m)' /\ Quoted' = {}
    <3>1. CASE m = o BY <1>1, <2>1, <3>1 DEF Kept
    <3>2. CASE m # o
      <4>1. m \in Orders BY Sides
      <4>2. req'[m].pc = req[m].pc /\ ~req[m].lost BY <2>1, <3>2, <4>1
      <4> QED BY <1>1, <2>1, <4>2 DEF Kept, Safe, SizedLast
    <3> QED BY <3>1, <3>2
  <2> QED BY <2>1 DEF SizedLast
<1>3. HotWanted'
  <2>1. SUFFICES ASSUME NEW i \in Quoted', Hot(wire'[i])
                 PROVE  /\ \/ \E m \in Markets : wire'[i].want = m /\ req'[m].pc = "confirm"
                           \/ wire'[i].want = "poll" /\ poll'.pc = "crossing"
                        /\ Submitted' \subseteq wire'[i].known
    BY DEF HotWanted, Hot
  <2>2. i \in Quoted /\ wire'[i] = wire[i] /\ Hot(wire[i]) BY <2>1 DEF Kept
  <2>3. CASE \E m \in Markets : wire[i].want = m /\ req[m].pc = "confirm"
    <3>1. PICK m \in Markets : wire[i].want = m /\ req[m].pc = "confirm" BY <2>3
    <3>2. m # o BY <2>2, <3>1 DEF Wanted
    <3>3. req'[m].pc = "confirm" BY <3>1, <3>2, Sides
    <3> QED BY <2>2, <3>1, <3>3 DEF Safe, HotWanted
  <2>4. CASE ~ \E m \in Markets : wire[i].want = m /\ req[m].pc = "confirm"
    BY <2>2, <2>4 DEF Safe, HotWanted
  <2> QED BY <2>3, <2>4
<1>4. Cold' <=> Cold BY DEF Cold, Kept, Hot
<1>5. Standing'
  <2>1. ~Holding' => Cold' BY <1>4 DEF Safe, Standing
  <2>2. \A m \in Markets : /\ req'[m].pc = "confirm" => Landed(m)' \/ Cold'
                           /\ req'[m].pc = "restoring" => Cold' \/ Wanted(m)' # {}
    <3>1. SUFFICES ASSUME NEW m \in Markets, req'[m].pc \in {"confirm", "restoring"}
                   PROVE  /\ req'[m].pc = "confirm" => Landed(m)' \/ Cold'
                          /\ req'[m].pc = "restoring" => Cold' \/ Wanted(m)' # {}
      OBVIOUS
    <3>2. m # o /\ m \in Orders BY <3>1, Sides
    <3>3. req'[m].pc = req[m].pc BY <3>2
    <3> QED BY <1>1, <1>4, <3>3 DEF Safe, Standing
  <2>3. Cold' \/ Submitted' \subseteq engine'.book.known BY <1>4 DEF Safe, Standing, Kept
  <2>4. /\ poll'.pc = "crossing" => Landed("poll")' \/ Cold'
        /\ poll'.pc = "restoring" => Cold' \/ Wanted("poll")' # {}
    BY <1>1, <1>4 DEF Safe, Standing
  <2> QED BY <2>1, <2>2, <2>3, <2>4 DEF Standing
<1> QED BY <1>2, <1>3, <1>5 DEF Safe

\* An idle book is published by one who is not waiting for an executable one.
LEMMA SafeIdle ==
  ASSUME Shapes, Waits, Safe, NEW w \in Waiters, Sent(IdleQuote(w)), torn' = torn, Submitted' = Submitted,
         \A m \in Markets : /\ req'[m].pc = "confirm" => req[m].pc = "confirm" /\ m # w
                            /\ req'[m].pc = "restoring" => req[m].pc = "restoring" \/ m = w
                            /\ req[m].pc = "confirm" => req'[m].pc = "confirm",
         \A m \in Markets : ~req'[m].lost /\ req'[m].pc \in {"confirm", "place", "settle"} => FALSE,
         ~Holding' => Cold,
         poll'.pc # "crossing",
         poll'.pc = "restoring" => w = "poll",
         poll.pc = "crossing" => w = "poll" /\ Wanted("poll") = {}
  PROVE  Safe'
<1>1. PICK q : q = IdleQuote(w) OBVIOUS
<1>2. w \in Wants /\ q \in Quotes /\ q.want = w /\ ~Hot(q)
  <2>1. w \in Wants BY Ids DEF Waiters
  <2> QED BY <1>1, <2>1, Books
<1>3. /\ (Hot(engine.book)' <=> Hot(engine.book)) /\ engine'.book.known = engine.book.known
      /\ \A v \in Waiters : v # w => Wanted(v)' = Wanted(v) /\ (Landed(v)' <=> Landed(v))
      /\ ~Landed(w)'
  BY <1>1, <1>2, SentFacts
<1>4. PICK k \in Nat :
         /\ Quoted' = Quoted \cup {k} /\ k \notin Quoted /\ wire'[k] = q /\ Wanted(w)' = {k}
         /\ \A i \in Quoted : /\ i < k
                              /\ (Hot(wire'[i]) <=> Hot(wire[i])) /\ wire'[i].known = wire[i].known
                              /\ wire[i].want # w => wire'[i].want = wire[i].want
  BY <1>1, <1>2, SentFacts
<1>5. SizedLast' BY DEF SizedLast
<1>6. HotWanted'
  <2>1. SUFFICES ASSUME NEW i \in Quoted', Hot(wire'[i])
                 PROVE  /\ \E m \in Markets : wire'[i].want = m /\ req'[m].pc = "confirm"
                        /\ Submitted' \subseteq wire'[i].known
    BY DEF HotWanted, Hot
  <2>2. i # k /\ i \in Quoted /\ Hot(wire[i]) /\ wire'[i].known = wire[i].known
    BY <1>2, <1>4, <2>1
  <2>3. Submitted' \subseteq wire'[i].known BY <2>2 DEF Safe, HotWanted
  <2>4. ~(wire[i].want = "poll" /\ poll.pc = "crossing") BY <2>2 DEF Wanted
  <2>5. PICK m \in Markets : wire[i].want = m /\ req[m].pc = "confirm" BY <2>2, <2>4 DEF Safe, HotWanted
  <2>6. req'[m].pc = "confirm" /\ m # w BY <2>5
  <2>7. wire'[i].want = m BY <1>4, <2>2, <2>5, <2>6
  <2> QED BY <2>3, <2>6, <2>7
<1>7. Cold' <=> Cold BY <1>3 DEF Cold, Hot
<1>8. Standing'
  <2>1. Cold' \/ Submitted' \subseteq engine'.book.known BY <1>3, <1>7 DEF Safe, Standing
  <2>2. \A m \in Markets : /\ req'[m].pc = "confirm" => Landed(m)' \/ Cold'
                           /\ req'[m].pc = "restoring" => Cold' \/ Wanted(m)' # {}
    <3>1. SUFFICES ASSUME NEW m \in Markets
                   PROVE  /\ req'[m].pc = "confirm" => Landed(m)' \/ Cold'
                          /\ req'[m].pc = "restoring" => Cold' \/ Wanted(m)' # {}
      OBVIOUS
    <3>2. m \in Waiters BY Sides DEF Waiters
    <3>3. CASE m = w BY <1>4, <3>3
    <3>4. CASE m # w BY <1>3, <1>7, <3>2, <3>4 DEF Safe, Standing
    <3> QED BY <3>3, <3>4
  <2>3. poll'.pc = "restoring" => Cold' \/ Wanted("poll")' # {} BY <1>4
  <2> QED BY <1>7, <2>1, <2>2, <2>3 DEF Standing
<1> QED BY <1>5, <1>6, <1>8 DEF Safe

\* An executable book is published while nothing of the kind stands or is on its way.
LEMMA SafeHot ==
  ASSUME Shapes, Waits, Safe, NEW q \in Quotes, NEW w \in Waiters, q.want = w, Sent(q), q.known = Admitted,
         torn' = torn, Submitted' = Submitted, Cold,
         \A i \in Quoted : ~Hot(wire[i]),
         \/ w = "poll" /\ poll'.pc = "crossing" /\ \A m \in Markets : ~InSection(m)'
         \/ /\ w \in Markets /\ req'[w].pc = "confirm" /\ poll'.pc \notin {"crossing", "restoring"}
            /\ \A m \in Markets : m # w => ~InSection(m)'
  PROVE  Safe'
<1>3. /\ (Hot(engine.book)' <=> Hot(engine.book)) /\ engine'.book.known = engine.book.known
      /\ ~Landed(w)'
  BY SentFacts
<1>4. PICK k \in Nat :
         /\ Quoted' = Quoted \cup {k} /\ k \notin Quoted /\ wire'[k] = q /\ Wanted(w)' = {k}
         /\ \A i \in Quoted : /\ i < k
                              /\ (Hot(wire'[i]) <=> Hot(wire[i])) /\ wire'[i].known = wire[i].known
                              /\ wire[i].want # w => wire'[i].want = wire[i].want
  BY SentFacts
<1>5. SizedLast'
  <2>1. \A m \in Markets : req'[m].pc \in {"confirm", "place", "settle"} => m = w /\ req'[m].pc = "confirm"
    BY Sides DEF InSection, Section
  <2>2. \A j \in Quoted' : j <= k BY <1>4, QuoteFacts
  <2> QED BY <1>3, <1>4, <2>1, <2>2 DEF SizedLast
<1>6. HotWanted'
  <2>1. SUFFICES ASSUME NEW i \in Quoted', Hot(wire'[i])
                 PROVE  /\ \/ \E m \in Markets : wire'[i].want = m /\ req'[m].pc = "confirm"
                           \/ wire'[i].want = "poll" /\ poll'.pc = "crossing"
                        /\ Submitted' \subseteq wire'[i].known
    BY DEF HotWanted, Hot
  <2>2. i = k BY <1>4, <2>1
  <2>3. wire'[i].want = w /\ wire'[i].known = Admitted BY <1>4, <2>2
  <2>4. Submitted' \subseteq wire'[i].known BY <2>3 DEF Submitted
  <2> QED BY <2>3, <2>4
<1>7. Cold' BY <1>3 DEF Cold, Hot
<1>8. Standing' BY <1>7 DEF Standing
<1> QED BY <1>5, <1>6, <1>8 DEF Safe

\* The runner delivers: the quote at the head becomes the one that stands, or is lost.
LEMMA DeliverCases ==
  ASSUME Shapes, Deliver
  PROVE  /\ poll' = poll /\ req' = req /\ Submitted' = Submitted
         /\ \/ 1 \notin Quoted /\ engine'.book = engine.book /\ torn' = torn
            \/ 1 \in Quoted /\ engine'.book = engine.book /\ (torn' <=> (torn \/ ~Hot(wire[1])))
            \/ 1 \in Quoted /\ engine'.book = wire[1] /\ torn' = FALSE
<1>0. /\ engine \in Engines /\ order \in [Orders -> Rows] /\ wire[1] = Head(wire)
      /\ (Head(wire).kind = "quote" <=> 1 \in Quoted)
  BY Kinds, Delivered
<1>1. PICK h : h = Head(wire) OBVIOUS
<1>2. \/ h.kind = "status" /\ engine' = [engine EXCEPT !.status = h.status] /\ torn' = torn
      \/ h.kind = "quote" /\ engine' = engine /\ torn' = (torn \/ ~(h.bid \/ h.ask))
      \/ h.kind = "quote" /\ engine' = [engine EXCEPT !.book = h] /\ torn' = FALSE
  BY <1>1 DEF Deliver
<1>3. \/ 1 \notin Quoted /\ engine'.book = engine.book /\ torn' = torn
      \/ 1 \in Quoted /\ engine'.book = engine.book /\ (torn' <=> (torn \/ ~Hot(wire[1])))
      \/ 1 \in Quoted /\ engine'.book = wire[1] /\ torn' = FALSE
  <2>1. CASE h.kind = "status" /\ engine' = [engine EXCEPT !.status = h.status] /\ torn' = torn
    BY <1>0, <1>1, <2>1 DEF Engines
  <2>2. CASE h.kind = "quote" /\ engine' = engine /\ torn' = (torn \/ ~(h.bid \/ h.ask))
    BY <1>0, <1>1, <2>2 DEF Hot
  <2>3. CASE h.kind = "quote" /\ engine' = [engine EXCEPT !.book = h] /\ torn' = FALSE
    BY <1>0, <1>1, <2>3 DEF Engines
  <2> QED BY <1>2, <2>1, <2>2, <2>3
<1>4. Submitted' = Submitted
  <2>1. CASE order' = order BY <2>1 DEF Submitted, Admitted
  <2>2. PICK F : F = {o \in Limits : /\ engine.status = "Trading" /\ order[o].st = "RESTING"
                                     /\ Takes(o, Head(wire))}
    OBVIOUS
  <2>3. CASE order' = [o \in Orders |-> IF o \in F THEN [order[o] EXCEPT !.st = "FILLED"] ELSE order[o]]
    <3>1. \A o \in Orders : [order[o] EXCEPT !.st = "FILLED"].st = "FILLED" BY <1>0 DEF Rows
    <3>2. \A o \in Orders : order'[o].st # "NEW" <=> order[o].st # "NEW" BY <2>2, <2>3, <3>1
    <3> QED BY <3>2 DEF Submitted, Admitted
  <2> QED BY <2>1, <2>2, <2>3 DEF Deliver
<1> QED BY <1>3, <1>4 DEF Deliver

LEMMA SafeDelivered ==
  ASSUME Shapes, Waits, Exclusive, Safe, Deliver
  PROVE  Safe'
<1>1. /\ \A i \in Quoted' : i \in Nat /\ i + 1 \in Quoted /\ wire'[i] = wire[i + 1]
      /\ \A j \in Quoted : j # 1 => j - 1 \in Quoted' /\ wire'[j - 1] = wire[j]
      /\ Quoted \subseteq Nat \ {0}
  BY Delivered, QuoteFacts
<1>2. /\ poll' = poll /\ req' = req /\ Submitted' = Submitted
      /\ \/ 1 \notin Quoted /\ engine'.book = engine.book /\ torn' = torn
         \/ 1 \in Quoted /\ engine'.book = engine.book /\ (torn' <=> (torn \/ ~Hot(wire[1])))
         \/ 1 \in Quoted /\ engine'.book = wire[1] /\ torn' = FALSE
  BY DeliverCases
<1>3. (Holding' <=> Holding) /\ \A m : InSection(m)' <=> InSection(m) BY <1>2 DEF Holding, Crossed, InSection
<1>4. \A w : \A i \in Wanted(w)' : i \in Nat /\ i + 1 \in Wanted(w) BY <1>1 DEF Wanted
<1>5. \A w : \A j \in Wanted(w) : j # 1 => Wanted(w)' # {} BY <1>1 DEF Wanted
<1>6. SizedLast'
  <2>1. SUFFICES ASSUME NEW m \in Markets, ~req[m].lost
                 PROVE  /\ req[m].pc = "confirm" => \A i \in Wanted(m)', j \in Quoted' : j <= i
                        /\ req[m].pc = "confirm" /\ Landed(m)' => Quoted' = {}
                        /\ req[m].pc \in {"place", "settle"} => Landed(m)' /\ Quoted' = {}
    BY <1>2 DEF SizedLast
  <2>2. ASSUME req[m].pc = "confirm", NEW i \in Wanted(m)', NEW j \in Quoted' PROVE j <= i
    <3>1. i \in Nat /\ j \in Nat /\ i + 1 \in Wanted(m) /\ j + 1 \in Quoted BY <1>1, <1>4
    <3>2. j + 1 <= i + 1 BY <2>1, <2>2, <3>1 DEF Safe, SizedLast
    <3> QED BY <3>1, <3>2
  <2>3. ASSUME req[m].pc = "confirm", Landed(m)' PROVE Quoted' = {}
    <3>1. CASE engine'.book = engine.book
      <4>1. Quoted = {} BY <2>1, <2>3, <3>1 DEF Safe, SizedLast, Landed
      <4> QED BY <1>1, <4>1
    <3>2. CASE 1 \in Quoted /\ engine'.book = wire[1]
      <4>1. 1 \in Wanted(m) BY <2>3, <3>2 DEF Wanted, Landed
      <4>2. \A j \in Quoted : j <= 1 BY <2>1, <2>3, <4>1 DEF Safe, SizedLast
      <4>3. SUFFICES ASSUME NEW i \in Quoted' PROVE FALSE OBVIOUS
      <4>4. i \in Nat /\ i + 1 \in Quoted BY <1>1
      <4>5. i = 0 BY <4>2, <4>4
      <4>6. 0 \notin Quoted'
        <5>1. Shapes' BY SandboxShapes
        <5>2. wire' \in Seq(Items) BY <5>1 DEF Shapes
        <5>3. DOMAIN wire' = 1 .. Len(wire') BY <5>2, LenProperties
        <5> QED BY <5>3 DEF Quoted
      <4> QED BY <4>5, <4>6
    <3> QED BY <1>2, <3>1, <3>2
  <2>4. ASSUME req[m].pc \in {"place", "settle"} PROVE Landed(m)' /\ Quoted' = {}
    <3>1. Landed(m) /\ Quoted = {} BY <2>1, <2>4 DEF Safe, SizedLast
    <3>2. engine'.book = engine.book /\ Quoted' = {} BY <1>1, <1>2, <3>1
    <3> QED BY <3>1, <3>2 DEF Landed
  <2> QED BY <2>2, <2>3, <2>4
<1>7. HotWanted' BY <1>1, <1>2 DEF Safe, HotWanted, Hot
<1>8. ASSUME 1 \in Quoted, Hot(wire[1])
      PROVE  \/ \E m \in Markets : 1 \in Wanted(m) /\ req[m].pc = "confirm" /\ InSection(m)
             \/ 1 \in Wanted("poll") /\ poll.pc = "crossing" /\ Crossed
  BY <1>8 DEF Safe, HotWanted, Wanted, InSection, Section, Crossed
<1>9. Standing'
  <2>1. CASE 1 \notin Quoted /\ engine'.book = engine.book /\ torn' = torn
    <3>1. Cold' <=> Cold BY <2>1 DEF Cold, Hot
    <3>2. \A w : (Landed(w)' <=> Landed(w)) /\ (Wanted(w) # {} => Wanted(w)' # {})
      BY <1>5, <2>1 DEF Landed, Wanted
    <3> QED BY <1>2, <1>3, <2>1, <3>1, <3>2 DEF Safe, Standing
  <2>2. CASE 1 \in Quoted /\ engine'.book = engine.book /\ (torn' <=> (torn \/ ~Hot(wire[1])))
    <3>1. CASE ~Hot(wire[1])
      <4>1. Cold' BY <2>2, <3>1 DEF Cold
      <4> QED BY <4>1 DEF Standing
    <3>2. CASE Hot(wire[1])
      <4>1. Cold' <=> Cold BY <2>2, <3>2 DEF Cold, Hot
      <4>2. \A w : Landed(w)' <=> Landed(w) BY <2>2 DEF Landed
      <4>3. \A m \in Markets : req[m].pc = "restoring" => FALSE
        BY <1>8, <2>2, <3>2 DEF Exclusive, InSection, Section
      <4>4. poll.pc = "restoring" => FALSE BY <1>8, <2>2, <3>2 DEF Exclusive, Crossed
      <4> QED BY <1>2, <1>3, <2>2, <4>1, <4>2, <4>3, <4>4 DEF Safe, Standing
    <3> QED BY <3>1, <3>2
  <2>3. CASE 1 \in Quoted /\ engine'.book = wire[1] /\ torn' = FALSE
    <3>1. CASE ~Hot(wire[1])
      <4>1. Cold' BY <2>3, <3>1 DEF Cold, Hot
      <4> QED BY <4>1 DEF Standing
    <3>2. CASE Hot(wire[1])
      <4>1. Submitted' \subseteq engine'.book.known BY <1>2, <2>3, <3>2 DEF Safe, HotWanted
      <4>2. CASE 1 \in Wanted("poll") /\ poll.pc = "crossing" /\ Crossed
        <5>1. Landed("poll")' BY <2>3, <4>2 DEF Landed, Wanted
        <5>2. \A m \in Markets : req[m].pc \notin {"confirm", "restoring"}
          BY <4>2 DEF Exclusive, InSection, Section
        <5>3. Holding' /\ poll'.pc = "crossing" BY <1>2, <1>3, <4>2 DEF Holding
        <5> QED BY <1>2, <4>1, <5>1, <5>2, <5>3 DEF Standing
      <4>3. CASE \E m \in Markets : 1 \in Wanted(m) /\ req[m].pc = "confirm" /\ InSection(m)
        <5>1. PICK m \in Markets : 1 \in Wanted(m) /\ req[m].pc = "confirm" /\ InSection(m) BY <4>3
        <5>2. Landed(m)' BY <2>3, <5>1 DEF Landed, Wanted
        <5>3. ~Crossed BY <5>1 DEF Exclusive
        <5>4. \A n \in Markets : req[n].pc \in {"confirm", "restoring"} => n = m
          BY <5>1 DEF Exclusive, InSection, Section
        <5>5. Holding' BY <1>3, <5>1 DEF Holding
        <5>6. poll'.pc \notin {"crossing", "restoring"} BY <1>2, <5>3 DEF Crossed
        <5> QED BY <1>2, <4>1, <5>1, <5>2, <5>4, <5>5, <5>6 DEF Standing
      <4> QED BY <1>8, <2>3, <3>2, <4>2, <4>3
    <3> QED BY <3>1, <3>2
  <2> QED BY <1>2, <2>1, <2>2, <2>3
<1> QED BY <1>6, <1>7, <1>9 DEF Safe

\* Whoever takes the section finds it free, or crowds it.
LEMMA TakenFree ==
  ASSUME Shapes, Owned, Taken, ~crowded', ~inst.busy
  PROVE  ~crowded /\ \A m \in Markets : ~InSection(m)
BY Kinds DEF NumbersOK, Taken, Owned, Exclusive, InSection

LEMMA ColdWire ==
  ASSUME Safe, ~Holding
  PROVE  Cold /\ \A i \in Quoted : ~Hot(wire[i])
BY DEF Safe, Standing, HotWanted, Holding, Crossed, InSection, Section

\* The section is left, or a LIMIT admitted while it is free.
LEMMA SafeFree ==
  ASSUME Safe, Kept, Cold, torn' = torn, ~Holding', \A i \in Quoted : ~Hot(wire[i])
  PROVE  Safe'
<1>1. \A m \in Markets : req'[m].pc \notin {"confirm", "place", "settle", "restoring"}
  BY DEF Holding, InSection, Section
<1>2. poll'.pc \notin {"crossing", "restoring"} BY DEF Holding, Crossed
<1>3. SizedLast' BY <1>1 DEF SizedLast
<1>4. HotWanted' BY DEF HotWanted, Kept, Hot
<1>5. Cold' BY DEF Cold, Kept, Hot
<1> QED BY <1>1, <1>2, <1>3, <1>4, <1>5 DEF Safe, Standing

LEMMA SafeSilent ==
  ASSUME Shapes, Safe,
         \/ Tick \/ Boundary \/ Armed \/ Receive \/ SitOut \/ ObserveUnready \/ FeedFailed
         \/ \E o \in Orders : Arrive(o) \/ CancelArrives(o)
  PROVE  Safe'
<1>0. Idling.pc = "idle" /\ [Idling EXCEPT !.pc = "held"].pc = "held" /\ order \in [Orders -> Rows]
  BY NoPoll, PollEdits, Kinds
<1>1. Kept BY KeptSteps
<1>2. \A x \in Orders : req'[x].pc = req[x].pc /\ (~req'[x].lost => ~req[x].lost)
  <2>1. CASE req' = req BY <2>1
  <2>2. CASE FeedFailed
    <3>1. SUFFICES ASSUME NEW x \in Orders PROVE req'[x].pc = req[x].pc /\ (~req'[x].lost => ~req[x].lost)
      OBVIOUS
    <3> QED BY <2>2, Routes
  <2> QED BY <2>1, <2>2 DEF Tick, Boundary, Armed, Receive, SitOut, ObserveUnready, Arrive, CancelArrives
<1>3. \A pc \in {"crossing", "restoring"} : poll'.pc = pc <=> poll.pc = pc
  <2>1. CASE Receive
    <3>1. poll'.pc = "held" /\ poll.pc = "idle" BY <1>0, <2>1, ReceivedType DEF Receive
    <3> QED BY <3>1
  <2>2. CASE SitOut \/ ObserveUnready BY <1>0, <2>2 DEF SitOut, ObserveUnready, MayObserve
  <2>3. CASE poll' = poll BY <2>3
  <2> QED BY <2>1, <2>2, <2>3 DEF Tick, Boundary, Armed, FeedFailed, Arrive, CancelArrives
<1>4. torn' = torn
  BY DEF Tick, Boundary, Armed, Receive, SitOut, ObserveUnready, FeedFailed, Arrive, CancelArrives
<1>5. Submitted' = Submitted
  <2>1. CASE order' = order BY <2>1 DEF Submitted, Admitted
  <2>2. ASSUME NEW o \in Orders, Arrive(o) PROVE Submitted' = Submitted
    <3>1. PICK st \in {"FILLED", "REJECTED", "RESTING"} : order' = [order EXCEPT ![o].st = st]
      BY <2>2 DEF Arrive
    <3>2. \A x \in Orders : order'[x].st # "NEW" <=> order[x].st # "NEW" BY <1>0, <2>2, <3>1 DEF Arrive, Rows
    <3> QED BY <3>2 DEF Submitted, Admitted
  <2>3. ASSUME NEW o \in Orders, CancelArrives(o), order[o].st = "RESTING" PROVE Submitted' = Submitted
    <3>1. order' = [order EXCEPT ![o].st = "CANCELED"] BY <2>3 DEF CancelArrives
    <3>2. \A x \in Orders : order'[x].st # "NEW" <=> order[x].st # "NEW" BY <1>0, <2>3, <3>1 DEF Rows
    <3> QED BY <3>2 DEF Submitted, Admitted
  <2> QED BY <2>1, <2>2, <2>3 DEF Tick, Boundary, Armed, Receive, SitOut, ObserveUnready, FeedFailed, CancelArrives
<1> QED BY <1>1, <1>2, <1>3, <1>4, <1>5, SafeSame, Sides

LEMMA SafePolled ==
  ASSUME Shapes, Owned, Waits, Exclusive, Safe, ~crowded',
         ObserveDecrease \/ ObserveOutside \/ Observe \/ CrossingLanded \/ IdleLanded \/ CrossingLost
  PROVE  Safe'
<1>0. /\ Idling.pc = "idle" /\ poll \in Polls /\ "poll" \in Waiters /\ "poll" \notin Orders /\ Markets \subseteq Orders
  BY NoPoll, Kinds, Sides DEF Waiters
<1>1. torn' = torn /\ req' = req /\ Submitted' = Submitted
  BY DEF ObserveDecrease, ObserveOutside, Observe, CrossingLanded, IdleLanded, CrossingLost, Submitted, Admitted
<1>2. CASE ObserveDecrease \/ ObserveOutside \/ (Observe /\ Crossings = <<>>)
  <2>1. Sent(IdleQuote("poll")) BY <1>2, SentSteps
  <2>2. poll.pc = "held" /\ ~inst.busy /\ poll' = Idling
    BY <1>2 DEF ObserveDecrease, ObserveOutside, Observe, MayObserve
  <2>3. \A m \in Markets : ~req[m].lost => ~InSection(m) BY <2>2 DEF Exclusive
  <2>4. ~Holding' => Cold BY <1>0, <1>1, <2>2 DEF Safe, Standing, Holding, Crossed, InSection
  <2> QED BY <1>0, <1>1, <2>1, <2>2, <2>3, <2>4, SafeIdle DEF InSection, Section
<1>3. CASE Observe /\ Crossings # <<>>
  <2>1. PICK q : q = Crossing(Head(Crossings)) OBVIOUS
  <2>2. q \in Quotes /\ q.want = "poll" /\ q.known = Admitted /\ Sent(q) BY <1>3, <2>1, Books, SentSteps
  <2>3. poll.pc = "held" /\ ~inst.busy /\ Taken BY <1>3 DEF Observe, MayObserve
  <2>4. \A m \in Markets : ~InSection(m) BY <2>3, TakenFree
  <2>5. Cold /\ \A i \in Quoted : ~Hot(wire[i]) BY <2>3, <2>4, ColdWire DEF Holding, Crossed
  <2>6. poll'.pc = "crossing"
    <3>1. PICK R, b : R = Released /\ b = Tail(Crossings) OBVIOUS
    <3>2. poll' = [poll EXCEPT !.pc = "crossing", !.released = R, !.books = b] BY <1>3, <3>1 DEF Observe
    <3> QED BY <1>0, <3>2 DEF Polls
  <2>7. \A m \in Markets : ~InSection(m)' BY <1>1, <2>4 DEF InSection
  <2> QED BY <1>0, <1>1, <2>2, <2>5, <2>6, <2>7, SafeHot
<1>4. CASE CrossingLanded
  <2>1. Sent(IdleQuote("poll")) BY <1>4, SentSteps
  <2>2. poll.pc = "crossing" /\ poll'.pc = "restoring" /\ Landed("poll") BY <1>0, <1>4 DEF CrossingLanded, Polls
  <2>3. Wanted("poll") = {} BY <1>0, <2>2 DEF Waits
  <2>4. \A m \in Markets : ~InSection(m) BY <2>2 DEF Exclusive, Crossed
  <2>5. Holding' BY <2>2 DEF Holding, Crossed
  <2> QED BY <1>0, <1>1, <2>1, <2>2, <2>3, <2>4, <2>5, SafeIdle DEF InSection, Section
<1>5. CASE IdleLanded
  <2>1. poll.pc = "restoring" /\ Landed("poll") /\ Wanted("poll") = {} /\ Crossed
    BY <1>0, <1>5 DEF IdleLanded, Waits, Crossed
  <2>2. Cold /\ \A m \in Markets : ~InSection(m) BY <2>1 DEF Safe, Standing, Exclusive
  <2>3. \A i \in Quoted : ~Hot(wire[i]) BY <2>1, <2>2 DEF Safe, HotWanted, InSection, Section
  <2>4. CASE poll.books = <<>>
    <3>1. Kept /\ poll' = Idling BY <1>5, <2>4, KeptSteps DEF IdleLanded
    <3>2. ~Holding' BY <1>0, <1>1, <2>2, <3>1 DEF Holding, Crossed, InSection
    <3> QED BY <1>1, <2>2, <2>3, <3>1, <3>2, SafeFree
  <2>5. CASE poll.books # <<>>
    <3>1. PICK q : q = Crossing(Head(poll.books)) OBVIOUS
    <3>2. q \in Quotes /\ q.want = "poll" /\ q.known = Admitted /\ Sent(q) BY <1>5, <2>5, <3>1, Books, SentSteps
    <3>3. poll'.pc = "crossing"
      <4>1. PICK b : b = Tail(poll.books) OBVIOUS
      <4>2. poll' = [poll EXCEPT !.pc = "crossing", !.books = b] BY <1>5, <2>5, <4>1 DEF IdleLanded
      <4> QED BY <1>0, <4>2 DEF Polls
    <3>4. \A m \in Markets : ~InSection(m)' BY <1>1, <2>2 DEF InSection
    <3> QED BY <1>0, <1>1, <2>2, <2>3, <3>2, <3>3, <3>4, SafeHot
  <2> QED BY <2>4, <2>5
<1>6. CASE CrossingLost
  <2>1. Kept /\ poll' = Idling /\ Crossed /\ ~Landed("poll") /\ wire = <<>>
    BY <1>6, KeptSteps DEF CrossingLost, Crossed, TimedOut
  <2>2. Quoted = {} BY <2>1 DEF Quoted
  <2>3. Cold /\ \A m \in Markets : ~InSection(m)
    BY <2>1, <2>2 DEF Safe, Standing, Exclusive, Crossed, Wanted
  <2>4. ~Holding' BY <1>0, <1>1, <2>1, <2>3 DEF Holding, Crossed, InSection
  <2> QED BY <1>1, <2>1, <2>2, <2>3, <2>4, SafeFree
<1> QED BY <1>2, <1>3, <1>4, <1>5, <1>6

LEMMA SafePlaced ==
  ASSUME Shapes, Owned, Waits, Exclusive, Safe, ~crowded', NEW o \in Orders,
         AdmitLimit(o) \/ AdmitMarket(o) \/ Placing(o)
  PROVE  Safe'
<1>0. /\ Markets \subseteq Orders /\ Limits \cap Markets = {} /\ o \in Waiters
      /\ (req[o].pc \notin {"idle", "done"} => o \in Markets) /\ order \in [Orders -> Rows]
  BY Kinds, Sides DEF Waiters
<1>1. CASE AdmitLimit(o)
  <2>1. Kept /\ poll' = poll /\ torn' = torn /\ Taken /\ ~inst.busy /\ inst.ready /\ o \in Limits
    BY <1>1, KeptSteps DEF AdmitLimit, Admissible, ReadyAt
  <2>2. ~Holding BY <2>1, TakenFree DEF Holding, Exclusive
  <2>3. Cold /\ \A i \in Quoted : ~Hot(wire[i]) BY <2>2, ColdWire
  <2>4. \A m \in Markets : req'[m] = req[m] BY <1>0, <1>1, <2>1, Routes DEF Others
  <2>5. ~Holding' BY <2>1, <2>2, <2>4 DEF Holding, Crossed, InSection
  <2> QED BY <2>1, <2>3, <2>5, SafeFree
<1>2. CASE AdmitMarket(o)
  <2>1. PICK q : q = SizedBook(o) OBVIOUS
  <2>2. q \in Quotes /\ q.want = o /\ q.known = Admitted /\ Sent(q) BY <1>2, <2>1, Books, SentSteps
  <2>3. poll' = poll /\ torn' = torn /\ order' = order /\ Taken /\ ~inst.busy /\ inst.ready /\ o \in Markets
    BY <1>2 DEF AdmitMarket, Admissible, ReadyAt
  <2>4. ~Holding BY <2>3, TakenFree DEF Holding, Exclusive
  <2>5. Cold /\ \A i \in Quoted : ~Hot(wire[i]) BY <2>4, ColdWire
  <2>6. req'[o].pc = "confirm" /\ \A m \in Markets : m # o => req'[m] = req[m]
    BY <1>0, <1>2, Routes DEF Others
  <2>7. /\ poll'.pc \notin {"crossing", "restoring"}
        /\ \A m \in Markets : m # o => ~InSection(m)'
    BY <2>3, <2>4, <2>6 DEF Holding, Crossed, InSection
  <2>8. Submitted' = Submitted BY <2>3 DEF Submitted, Admitted
  <2> QED BY <1>0, <2>2, <2>3, <2>5, <2>6, <2>7, <2>8, SafeHot
<1>3. CASE SizedLanded(o)
  <2>1. Kept /\ poll' = poll /\ torn' = torn /\ order' = order /\ Landed(o) /\ req[o].pc = "confirm"
    BY <1>3, KeptSteps DEF SizedLanded
  <2>2. Wanted(o) = {} BY <1>0, <2>1 DEF Waits
  <2>3. req'[o].pc = "place" /\ req'[o].lost = req[o].lost /\ \A x \in Orders : x # o => req'[x] = req[x]
    BY <1>3, Routes DEF Others
  <2>4. o \in Markets /\ Holding'
    BY <1>0, <2>1, <2>3 DEF Holding, InSection, Section
  <2>5. ~req[o].lost => Quoted = {} BY <2>1, <2>4 DEF Safe, SizedLast
  <2>6. Submitted' = Submitted BY <2>1 DEF Submitted, Admitted
  <2> QED BY <2>1, <2>2, <2>3, <2>4, <2>5, <2>6, SafeMoved
<1>4. CASE PlaceMarket(o)
  <2>1. Kept /\ poll' = poll /\ torn' = torn /\ req[o].pc = "place" /\ order' = Handed(o)
    BY <1>4, KeptSteps DEF PlaceMarket
  <2>2. req'[o].pc = "settle" /\ req'[o].lost = req[o].lost /\ \A x \in Orders : x # o => req'[x] = req[x]
    BY <1>4, Routes DEF Others
  <2>3. o \in Markets /\ Holding'
    BY <1>0, <2>1, <2>2 DEF Holding, InSection, Section
  <2>4. ~req[o].lost => Landed(o) /\ Quoted = {} BY <2>1, <2>3 DEF Safe, SizedLast
  <2>5. Submitted' = Submitted
    <3>1. \A x \in Limits : order'[x] = order[x] BY <1>0, <2>1, <2>3 DEF Handed, Limits
    <3> QED BY <3>1 DEF Submitted, Admitted
  <2> QED BY <2>1, <2>2, <2>3, <2>4, <2>5, SafeMoved
<1>5. CASE RestoreIdle(o)
  <2>1. Sent(IdleQuote(o)) BY <1>5, SentSteps
  <2>2. poll' = poll /\ torn' = torn /\ order' = order /\ req[o].pc = "settle" BY <1>5 DEF RestoreIdle
  <2>3. req'[o].pc = "restoring" /\ \A x \in Orders : x # o => req'[x] = req[x] BY <1>5, Routes DEF Others
  <2>4. o \in Markets /\ InSection(o) /\ Holding'
    BY <1>0, <2>2, <2>3 DEF Holding, InSection, Section
  <2>5. ~Crossed /\ \A m \in Markets : InSection(m) => m = o BY <2>4 DEF Exclusive
  <2>6. poll'.pc \notin {"crossing", "restoring"} /\ poll.pc # "crossing" BY <2>2, <2>5 DEF Crossed
  <2>7. \A m \in Markets : /\ req'[m].pc = "confirm" => req[m].pc = "confirm" /\ m # o
                           /\ req'[m].pc = "restoring" => req[m].pc = "restoring" \/ m = o
                           /\ req[m].pc = "confirm" => req'[m].pc = "confirm"
    BY <1>0, <2>2, <2>3
  <2>8. \A m \in Markets : req'[m].pc \notin {"confirm", "place", "settle"}
    BY <1>0, <2>3, <2>5 DEF InSection, Section
  <2>9. Submitted' = Submitted BY <2>2 DEF Submitted, Admitted
  <2> QED BY <1>0, <2>1, <2>2, <2>4, <2>6, <2>7, <2>8, <2>9, SafeIdle
<1>6. CASE Release(o)
  <2>1. Kept /\ poll' = poll /\ torn' = torn /\ order' = order /\ req[o].pc = "restoring"
        /\ (Landed(o) \/ wire = <<>>)
    BY <1>6, KeptSteps DEF Release, TimedOut
  <2>2. req'[o].pc \in {"done", "failed"} /\ \A x \in Orders : x # o => req'[x] = req[x]
    BY <1>6, Routes DEF Others
  <2>3. wire = <<>> => Quoted = {} BY DEF Quoted
  <2>4. Wanted(o) = {} BY <1>0, <2>1, <2>3 DEF Waits, Wanted
  <2>5. o \in Markets /\ Cold BY <1>0, <2>1, <2>4 DEF Safe, Standing
  <2>6. Submitted' = Submitted BY <2>1 DEF Submitted, Admitted
  <2> QED BY <2>1, <2>2, <2>5, <2>6, SafeMoved
<1>7. CASE SizedLost(o)
  <2>1. Kept /\ poll' = poll /\ torn' = torn /\ order' = order /\ req[o].pc = "confirm"
        /\ ~Landed(o) /\ wire = <<>>
    BY <1>7, KeptSteps DEF SizedLost, TimedOut
  <2>2. req'[o].pc = "done" /\ \A x \in Orders : x # o => req'[x].pc = req[x].pc /\ (~req'[x].lost => ~req[x].lost)
    BY <1>7, Routes DEF Lost
  <2>3. Quoted = {} BY <2>1 DEF Quoted
  <2>4. o \in Markets /\ Cold BY <1>0, <2>1 DEF Safe, Standing
  <2>5. Submitted' = Submitted BY <2>1 DEF Submitted, Admitted
  <2> QED BY <2>1, <2>2, <2>3, <2>4, <2>5, SafeMoved DEF Wanted
<1>8. CASE MarkFailed(o)
  <2>1. Kept /\ poll' = poll /\ torn' = torn /\ order' = order /\ req[o].pc = "failed"
    BY <1>8, KeptSteps DEF MarkFailed
  <2>2. req'[o].pc = "done" /\ \A x \in Orders : x # o => req'[x].pc = req[x].pc /\ (~req'[x].lost => ~req[x].lost)
    BY <1>8, Routes DEF Lost
  <2>3. Holding' <=> Holding
    <3>1. \A m \in Markets : InSection(m)' <=> InSection(m)
      BY <1>0, <2>1, <2>2 DEF InSection, Section
    <3> QED BY <2>1, <3>1 DEF Holding, Crossed
  <2>4. Submitted' = Submitted BY <2>1 DEF Submitted, Admitted
  <2> QED BY <2>1, <2>2, <2>3, <2>4, SafeMoved
<1> QED BY <1>1, <1>2, <1>3, <1>4, <1>5, <1>6, <1>7, <1>8 DEF Placing

LEMMA SafeRestart == Shapes /\ Restart => Safe'
<1> SUFFICES ASSUME Shapes, Restart PROVE Safe' OBVIOUS
<1>2. wire' = <<>> /\ engine'.book = IdleQuote("none") /\ poll'.pc = "idle"
  BY NoPoll DEF Restart
<1>3. Quoted' = {} BY <1>2 DEF Quoted
<1>4. Cold' BY <1>2, Books, Ids DEF Cold, Hot
<1>5. \A m \in Markets : req'[m].pc \in {"idle", "done"}
  <2>1. SUFFICES ASSUME NEW m \in Markets PROVE req'[m].pc \in {"idle", "done"} OBVIOUS
  <2>2. m \in Orders BY Sides
  <2> QED BY <2>2, Routes
<1> QED BY <1>2, <1>3, <1>4, <1>5 DEF Safe, SizedLast, HotWanted, Standing

LEMMA SafeStep == Shapes /\ Owned /\ Waits /\ (~crowded => Safe) /\ [Next]_vars => (~crowded' => Safe')
<1> SUFFICES ASSUME Shapes, Owned, Waits, ~crowded => Safe, [Next]_vars, ~crowded' PROVE Safe' OBVIOUS
<1>1. CASE Restart BY <1>1, SafeRestart
<1>2. ASSUME ~Restart PROVE ~crowded
  <2>1. CASE Observe /\ Crossings # <<>> BY <2>1, Kinds DEF Observe, Taken, NumbersOK
  <2>2. ASSUME NEW o \in Orders, AdmitLimit(o) \/ AdmitMarket(o) PROVE ~crowded
    BY <2>2, Kinds DEF AdmitLimit, AdmitMarket, Taken, NumbersOK
  <2>3. CASE UNCHANGED vars BY <2>3 DEF vars
  <2>4. CASE Tick \/ Boundary \/ Armed \/ Receive \/ FeedFailed \/ Deliver
    BY <2>4 DEF Tick, Boundary, Armed, Receive, FeedFailed, Deliver
  <2>5. CASE Polling /\ ~(Observe /\ Crossings # <<>>)
    BY <2>5 DEF Polling, SitOut, ObserveUnready, ObserveDecrease, ObserveOutside, Observe, CrossingLanded,
       IdleLanded, CrossingLost
  <2>6. ASSUME NEW o \in Orders, Placing(o) \/ Arrive(o) \/ CancelArrives(o) PROVE ~crowded
    BY <2>6 DEF Placing, SizedLanded, SizedLost, PlaceMarket, RestoreIdle, Release, MarkFailed, Arrive, CancelArrives
  <2>7. CASE Polling /\ (Observe /\ Crossings # <<>>) BY <2>1, <2>7
  <2> QED BY <1>2, <2>2, <2>3, <2>4, <2>5, <2>6, <2>7 DEF Next
<1>3. CASE ~Restart
  <2>1. Safe /\ Exclusive BY <1>2, <1>3 DEF Owned
  <2>2. CASE UNCHANGED vars
    <3>1. Kept BY <2>2, KeptSteps
    <3>2. req' = req /\ poll' = poll /\ torn' = torn /\ order' = order BY <2>2 DEF vars
    <3>3. Submitted' = Submitted BY <3>2 DEF Submitted, Admitted
    <3> QED BY <2>1, <3>1, <3>2, <3>3, SafeSame
  <2>3. CASE Deliver BY <2>1, <2>3, SafeDelivered
  <2>4. CASE ObserveDecrease \/ ObserveOutside \/ Observe \/ CrossingLanded \/ IdleLanded \/ CrossingLost
    BY <2>1, <2>4, SafePolled
  <2>5. CASE Tick \/ Boundary \/ Armed \/ Receive \/ SitOut \/ ObserveUnready \/ FeedFailed BY <2>1, <2>5, SafeSilent
  <2>6. ASSUME NEW o \in Orders, Arrive(o) \/ CancelArrives(o) PROVE Safe' BY <2>1, <2>6, SafeSilent
  <2>7. ASSUME NEW o \in Orders, AdmitLimit(o) \/ AdmitMarket(o) \/ Placing(o) PROVE Safe'
    BY <2>1, <2>7, SafePlaced
  <2> QED BY <1>3, <2>2, <2>3, <2>4, <2>5, <2>6, <2>7 DEF Next, Polling
<1> QED BY <1>1, <1>3

Sound == Shapes /\ Owned /\ Waits /\ (~crowded => Safe)

LEMMA SoundAlways == Spec => []Sound
<1>1. Init => Waits /\ Safe
  <2> SUFFICES ASSUME Init PROVE Waits /\ Safe OBVIOUS
  <2>1. wire = <<Gate("Pause")>> /\ engine.book = IdleQuote("none") BY DEF Init
  <2>2. Quoted = {} BY <2>1 DEF Quoted, Gate
  <2>3. engine.book.want = "none" /\ ~Hot(engine.book) BY <2>1, Ids, IdleType DEF Hot
  <2>4. \A o \in Orders : req[o].pc = "idle" BY DEF Init, NoReq
  <2>5. poll.pc = "idle" BY NoPoll DEF Init
  <2>6. Waits BY <2>2, <2>3, Sides DEF Waits, Waiters, Wanted, Landed
  <2>7. Safe
    BY <2>2, <2>3, <2>4, <2>5, Sides DEF Safe, SizedLast, HotWanted, Standing, Cold
  <2> QED BY <2>6, <2>7
<1> QED BY <1>1, ShapesInit, OwnedInit, ShapesStep, OwnedStep, WaitsStep, SafeStep, PTL DEF Spec, Sound

\* The critical section of admit, execute and size_for_market, for any number of LIMITs and
\* MARKETs: until its section is lost to a failure, or was taken from a MARKET that had
\* lost it, the book a MARKET was sized for is the one it meets; and the flag that shuts
\* admission out is always somebody's to clear.
THEOREM SectionKept == Spec => []SectionOwned
<1>1. Sound => SectionOwned
  <2> SUFFICES ASSUME Sound PROVE SectionOwned OBVIOUS
  <2>1. ASSUME ~crowded, NEW m \in Markets, req[m].pc \in {"place", "settle"}, ~req[m].lost
        PROVE  Landed(m) /\ \A i \in DOMAIN wire : wire[i].kind # "quote"
    BY <2>1 DEF Sound, Safe, SizedLast, Quoted
  <2>2. inst.busy => \/ poll.pc \in {"crossing", "restoring"}
                     \/ \E m \in Markets : req[m].pc \in Section
    BY DEF Sound, Owned, Holding, Crossed, InSection
  <2> QED BY <2>1, <2>2 DEF SectionOwned
<1> QED BY <1>1, SoundAlways, PTL

\* A fill that is not excused is of an order the book knew.
LEMMA Filled ==
  ASSUME Shapes, NEW os \in SUBSET Submitted, NEW book \in Quotes, Fill(os, book),
         RestsAtSubmission, torn \/ crowded \/ os \subseteq book.known
  PROVE  RestsAtSubmission'
<1>1. early' = early \cup ((os \cap Limits) \ book.known) \X {torn \/ crowded} BY DEF Fill
<1>2. ASSUME NEW e \in early' PROVE e[2]
  <2>1. CASE e \in early BY <2>1 DEF RestsAtSubmission
  <2>2. CASE e \in ((os \cap Limits) \ book.known) \X {torn \/ crowded}
    <3>1. PICK x \in (os \cap Limits) \ book.known, v \in {torn \/ crowded} : e = <<x, v>> BY <2>2
    <3>2. torn \/ crowded BY <3>1
    <3> QED BY <3>1, <3>2
  <2> QED BY <1>1, <2>1, <2>2
<1> QED BY <1>2 DEF RestsAtSubmission

LEMMA RestsStep == Sound /\ RestsAtSubmission /\ [Next]_vars => RestsAtSubmission'
<1> SUFFICES ASSUME Sound, RestsAtSubmission, [Next]_vars PROVE RestsAtSubmission' OBVIOUS
<1>0. Shapes /\ (~crowded => Safe) /\ Limits \subseteq Orders BY Sides DEF Sound
<1>1. CASE early' = early BY <1>1 DEF RestsAtSubmission
<1>2. ASSUME Deliver, early' # early PROVE RestsAtSubmission'
  <2>1. PICK F : F = {o \in Limits : /\ engine.status = "Trading" /\ order[o].st = "RESTING"
                                     /\ Takes(o, Head(wire))}
    OBVIOUS
  <2>2. Fill(F, Head(wire)) /\ Head(wire).kind = "quote" BY <1>2, <2>1 DEF Deliver
  <2>3. F \in SUBSET Submitted BY <1>0, <2>1 DEF Submitted, Admitted
  <2>4. 1 \in Quoted /\ wire[1] = Head(wire) BY <1>0, <1>2, <2>2, Delivered
  <2>5. Head(wire) \in Quotes BY <1>0, <2>4, QuoteFacts
  <2>6. ~crowded => F \subseteq Head(wire).known
    <3>1. SUFFICES ASSUME ~crowded, NEW o \in F PROVE o \in Head(wire).known OBVIOUS
    <3>2. Hot(wire[1]) BY <2>1, <2>4, <3>1 DEF Takes, Hot
    <3>3. Submitted \subseteq wire[1].known BY <1>0, <2>4, <3>1, <3>2 DEF Safe, HotWanted
    <3> QED BY <2>3, <2>4, <3>1, <3>3
  <2> QED BY <1>0, <2>2, <2>3, <2>5, <2>6, Filled
<1>3. ASSUME NEW o \in Orders, Arrive(o), early' # early PROVE RestsAtSubmission'
  <2>1. Fill({o}, engine.book) /\ Takes(o, engine.book) /\ order[o].st = "HANDED" BY <1>3 DEF Arrive
  <2>2. engine.book \in Quotes BY <1>0, QuoteFacts
  <2>3. CASE o \notin Limits
    <3>1. early' = early BY <2>1, <2>3 DEF Fill
    <3> QED BY <1>3, <3>1
  <2>4. CASE o \in Limits
    <3>1. {o} \in SUBSET Submitted BY <2>1, <2>4 DEF Submitted, Admitted
    <3>2. ~torn /\ ~crowded => {o} \subseteq engine.book.known
      <4>1. Hot(engine.book) BY <2>1 DEF Takes, Hot
      <4> QED BY <1>0, <3>1, <4>1 DEF Safe, Standing, Cold
    <3> QED BY <1>0, <2>1, <2>2, <3>1, <3>2, Filled
  <2> QED BY <2>3, <2>4
<1>4. CASE UNCHANGED vars BY <1>1, <1>4 DEF vars
<1>5. CASE Tick \/ Boundary \/ Armed \/ Receive \/ FeedFailed \/ Polling \/ Restart
  BY <1>1, <1>5 DEF Tick, Boundary, Armed, Receive, FeedFailed, Restart, Polling, SitOut, ObserveUnready, ObserveDecrease,
     ObserveOutside, Observe, CrossingLanded, IdleLanded, CrossingLost
<1>6. ASSUME NEW o \in Orders, AdmitLimit(o) \/ AdmitMarket(o) \/ Placing(o) \/ CancelArrives(o)
      PROVE  RestsAtSubmission'
  BY <1>1, <1>6 DEF AdmitLimit, AdmitMarket, Placing, SizedLanded, SizedLost, PlaceMarket, RestoreIdle, Release,
     MarkFailed, CancelArrives
<1> QED BY <1>1, <1>2, <1>3, <1>4, <1>5, <1>6 DEF Next

\* AE-9, for any orders, prices and clock: no LIMIT is filled by a book published before it
\* was admitted, unless the idle book that was to replace that one was lost or the section
\* was taken from a MARKET that had lost it.
THEOREM Rests == Spec => []RestsAtSubmission
<1>1. Init => RestsAtSubmission BY DEF Init, RestsAtSubmission
<1> QED BY <1>1, SoundAlways, RestsStep, PTL DEF Spec
===============================================================================
