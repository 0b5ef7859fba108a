---------------------------- MODULE LiveBoardProofs ----------------------------
(***************************************************************************)
(* When requests are answered in order, the page of a board never skips an  *)
(* item.                                                                   *)
(*                                                                         *)
(* The page holds an initial segment of the board's items, and so does     *)
(* every answer on its way.  A delta only carries what is newer than the   *)
(* page was when it asked, so that there is a gap as soon as the page goes  *)
(* back meanwhile.  It does not: an answer that is still to come was given  *)
(* later than any the page has taken (Behind), and a full view that was    *)
(* asked for after the delta makes it stale (FreshDeltas).                 *)
(***************************************************************************)
EXTENDS LiveBoard, SequenceTheorems, TLAPS

InitialSegment(S) == \E k \in Nat : S = 1..k

Views == {v \in [board : Board, items : SUBSET Nat, read : SUBSET Nat,
                 nodes : SUBSET Node, header : Nat] : InitialSegment(v.items)}

Requests == [kind : {"full", "delta"}, board : Board, after : Nat,
             stale : BOOLEAN, reply : Views \cup {NoView, Error}]

\* What an answer brought, if it brought a view.
Answered(q) == q.reply \notin {NoView, Error}

-----------------------------------------------------------------------------
(* The inductive invariant *)

\* The requests, answered in the order they were made, each with at least what
\* earlier ones for the board were answered with.
QueueInv(rs, srv) ==
  /\ rs \in Seq(Requests)
  /\ \A i, j \in DOMAIN rs : i < j /\ rs[j].reply # NoView => rs[i].reply # NoView
  /\ \A i \in DOMAIN rs : Answered(rs[i]) =>
       /\ rs[i].reply.board = rs[i].board
       /\ rs[i].reply.items \subseteq srv[rs[i].board].items
  /\ \A i, j \in DOMAIN rs :
       i < j /\ Answered(rs[i]) /\ Answered(rs[j]) /\ rs[i].board = rs[j].board
         => rs[i].reply.items \subseteq rs[j].reply.items

\* View v is no newer than any answer that is still to arrive.
Behind(v, rs, srv) ==
  /\ v \in Views
  /\ v.items \subseteq srv[v.board].items
  /\ \A i \in DOMAIN rs :
       Answered(rs[i]) /\ rs[i].board = v.board => v.items \subseteq rs[i].reply.items

\* A delta that will be merged continues what the page holds.
Continues(q, v, h) ==
  q.kind = "delta" /\ ~q.stale =>
    /\ v # NoView /\ q.board = h /\ v.board = h
    /\ 1..q.after \subseteq v.items

Fresh(rs, v, h) == \A i \in DOMAIN rs : Continues(rs[i], v, h)

ServerInv == server \in [Board -> Views] /\ \A b \in Board : server[b].board = b

PInv ==
  /\ ServerInv /\ here \in Board
  /\ QueueInv(requests, server)
  /\ view # NoView => Behind(view, requests, server)
  /\ \A b \in Board :
       cache[b] # NoView => cache[b].board = b /\ Behind(cache[b], requests, server)
  /\ cache \in [Board -> Views \cup {NoView}]
  /\ Fresh(requests, view, here)

-----------------------------------------------------------------------------
(* Initial segments, and merging *)

LEMMA MaxOfSegment ==
  ASSUME NEW k \in Nat, k > 0
  PROVE  Max(1..k) = k
<1>1. k \in 1..k /\ \A y \in 1..k : k >= y
  OBVIOUS
<1>2. PICK x \in 1..k : x = Max(1..k) /\ \A y \in 1..k : x >= y
  BY <1>1 DEF Max
<1> QED
  BY <1>1, <1>2

LEMMA NewestOfView ==
  ASSUME NEW v \in Views
  PROVE  maxThreadItemId(v) \in Nat /\ v.items = 1..maxThreadItemId(v)
<1>1. PICK k \in Nat : v.items = 1..k
  BY DEF Views, InitialSegment
<1>2. CASE k = 0
  BY <1>1, <1>2 DEF maxThreadItemId
<1>3. CASE k > 0
  BY <1>1, <1>3, MaxOfSegment DEF maxThreadItemId
<1> QED
  BY <1>2, <1>3

\* Of two initial segments one contains the other.
LEMMA SegmentsUnion ==
  ASSUME NEW S, NEW T, InitialSegment(S), InitialSegment(T)
  PROVE  InitialSegment(S \cup T)
<1>1. PICK k \in Nat : S = 1..k
  BY DEF InitialSegment
<1>2. PICK l \in Nat : T = 1..l
  BY DEF InitialSegment
<1>3. S \cup T = 1..k \/ S \cup T = 1..l
  BY <1>1, <1>2
<1> QED
  BY <1>3 DEF InitialSegment

\* A delta that continues what the page holds adds all that the broker has.
LEMMA MergeFillsUp ==
  ASSUME NEW v \in Views, NEW d \in Views, NEW after \in Nat, 1..after \subseteq v.items
  PROVE  /\ mergeBoardDelta(v, d, after) \in Views
         /\ mergeBoardDelta(v, d, after).board = v.board
         /\ mergeBoardDelta(v, d, after).items = v.items \cup d.items
<1> DEFINE new  == {i \in d.items : i > after}
           seen == IF new = {} THEN after ELSE Max(new)
           all  == v.items \cup new
           m    == [v EXCEPT !.items = all,
                       !.read = {i \in all : IF i > seen THEN i \in v.read ELSE i \in d.read},
                       !.header = d.header]
<1>1. m = mergeBoardDelta(v, d, after)
  BY DEF mergeBoardDelta
<1>2. PICK k \in Nat : d.items = 1..k
  BY DEF Views, InitialSegment
<1>3. all = v.items \cup d.items
  BY <1>2
<1>4. all \subseteq Nat /\ InitialSegment(all)
  BY <1>3, SegmentsUnion DEF Views
<1>5. m.items = all /\ m.board = v.board
  BY DEF Views
<1>6. m \in [board : Board, items : SUBSET Nat, read : SUBSET Nat,
             nodes : SUBSET Node, header : Nat]
  <2> HIDE DEF seen, new
  <2>1. v \in [board : Board, items : SUBSET Nat, read : SUBSET Nat,
               nodes : SUBSET Node, header : Nat] /\ d.header \in Nat
    BY DEF Views
  <2>2. {i \in all : IF i > seen THEN i \in v.read ELSE i \in d.read} \in SUBSET Nat
    BY <1>4
  <2> QED
    BY <1>4, <2>1, <2>2
<1> QED
  BY <1>1, <1>3, <1>4, <1>5, <1>6 DEF Views

-----------------------------------------------------------------------------
(* The queue of requests *)

LEMMA FirstRemoved ==
  ASSUME NEW S, NEW rs \in Seq(S), 1 \in DOMAIN rs
  PROVE  /\ RemoveAt(rs, 1) \in Seq(S)
         /\ Len(RemoveAt(rs, 1)) = Len(rs) - 1
         /\ \A i \in 1..(Len(rs) - 1) : RemoveAt(rs, 1)[i] = rs[i + 1]
<1>1. SubSeq(rs, 1, 1 - 1) = << >>
  OBVIOUS
<1>2. Len(rs) \in Nat /\ Len(rs) >= 1
  OBVIOUS
<1>3. /\ SubSeq(rs, 2, Len(rs)) \in Seq(S)
      /\ Len(SubSeq(rs, 2, Len(rs))) = Len(rs) - 1
      /\ \A i \in 1..(Len(rs) - 1) : SubSeq(rs, 2, Len(rs))[i] = rs[i + 1]
  <2>1. \A i \in 2..Len(rs) : rs[i] \in S
    BY <1>2
  <2>2. /\ SubSeq(rs, 2, Len(rs)) \in Seq(S)
        /\ Len(SubSeq(rs, 2, Len(rs))) = IF 2 <= Len(rs) THEN Len(rs) - 2 + 1 ELSE 0
        /\ \A i \in 1..(Len(rs) - 2 + 1) : SubSeq(rs, 2, Len(rs))[i] = rs[2 + i - 1]
    BY <1>2, <2>1, SubSeqProperties
  <2>3. \A i \in 1..(Len(rs) - 1) : 2 + i - 1 = i + 1
    BY <1>2
  <2>4. Len(rs) - 2 + 1 = Len(rs) - 1
    BY <1>2
  <2> QED
    BY <1>2, <2>2, <2>3, <2>4
<1>4. << >> \o SubSeq(rs, 2, Len(rs)) = SubSeq(rs, 2, Len(rs))
  BY <1>3
<1> QED
  BY <1>1, <1>3, <1>4 DEF RemoveAt

\* What lands was the first request; nothing that is older follows.
LEMMA QueueShrinks ==
  ASSUME NEW rs, NEW srv, QueueInv(rs, srv), 1 \in DOMAIN rs
  PROVE  /\ QueueInv(RemoveAt(rs, 1), srv)
         /\ \A v : Behind(v, rs, srv) => Behind(v, RemoveAt(rs, 1), srv)
         /\ \A v, h : Fresh(rs, v, h) => Fresh(RemoveAt(rs, 1), v, h)
<1> DEFINE rt == RemoveAt(rs, 1)
<1>1. /\ rt \in Seq(Requests) /\ Len(rt) = Len(rs) - 1 /\ Len(rs) \in Nat
      /\ \A i \in 1..(Len(rs) - 1) : rt[i] = rs[i + 1]
  BY FirstRemoved DEF QueueInv
<1> HIDE DEF rt
<1>2. DOMAIN rt = 1..(Len(rs) - 1) /\ DOMAIN rs = 1..Len(rs)
  BY <1>1 DEF QueueInv
<1>3. \A i \in DOMAIN rt : i + 1 \in DOMAIN rs /\ rt[i] = rs[i + 1]
  BY <1>1, <1>2
<1>4. \A i, j \in DOMAIN rt : i < j => i + 1 < j + 1
  BY <1>1, <1>2
<1>5. QueueInv(rt, srv)
  <2>1. ASSUME NEW i \in DOMAIN rt, NEW j \in DOMAIN rt, i < j, rt[j].reply # NoView
        PROVE  rt[i].reply # NoView
    BY <1>3, <1>4, <2>1 DEF QueueInv
  <2>2. ASSUME NEW i \in DOMAIN rt, Answered(rt[i])
        PROVE  /\ rt[i].reply.board = rt[i].board
               /\ rt[i].reply.items \subseteq srv[rt[i].board].items
    BY <1>3, <2>2 DEF QueueInv
  <2>3. ASSUME NEW i \in DOMAIN rt, NEW j \in DOMAIN rt, i < j, Answered(rt[i]),
               Answered(rt[j]), rt[i].board = rt[j].board
        PROVE  rt[i].reply.items \subseteq rt[j].reply.items
    BY <1>3, <1>4, <2>3 DEF QueueInv
  <2> QED
    BY <1>1, <2>1, <2>2, <2>3 DEF QueueInv
<1>6. ASSUME NEW v, Behind(v, rs, srv)  PROVE Behind(v, rt, srv)
  BY <1>3, <1>6 DEF Behind
<1>7. ASSUME NEW v, NEW h, Fresh(rs, v, h)  PROVE Fresh(rt, v, h)
  BY <1>3, <1>7 DEF Fresh
<1> QED
  BY <1>5, <1>6, <1>7 DEF rt

\* What is first in the queue was answered before the rest.
LEMMA FirstIsBehind ==
  ASSUME NEW rs, NEW srv, QueueInv(rs, srv), 1 \in DOMAIN rs, Answered(rs[1])
  PROVE  Behind(rs[1].reply, RemoveAt(rs, 1), srv)
<1> DEFINE rt == RemoveAt(rs, 1)
<1>1. /\ Len(rt) = Len(rs) - 1 /\ Len(rs) \in Nat /\ rt \in Seq(Requests)
      /\ \A i \in 1..(Len(rs) - 1) : rt[i] = rs[i + 1]
  BY FirstRemoved DEF QueueInv
<1>2. rs[1] \in Requests
  BY DEF QueueInv
<1>3. rs[1].reply \in Views /\ rs[1].reply.board = rs[1].board
      /\ rs[1].reply.items \subseteq srv[rs[1].board].items
  BY <1>2 DEF QueueInv, Requests, Answered
<1> HIDE DEF rt
<1>4. ASSUME NEW i \in DOMAIN rt, Answered(rt[i]), rt[i].board = rs[1].board
      PROVE  rs[1].reply.items \subseteq rt[i].reply.items
  <2>1. i + 1 \in DOMAIN rs /\ rt[i] = rs[i + 1] /\ 1 < i + 1
    BY <1>1, DOMAIN rt = 1..(Len(rs) - 1) DEF QueueInv
  <2> QED
    BY <1>4, <2>1 DEF QueueInv
<1> QED
  BY <1>3, <1>4 DEF Behind, rt

\* A new request is the last one, and nobody has answered it yet.
LEMMA QueueGrows ==
  ASSUME NEW rs, NEW srv, QueueInv(rs, srv), NEW rt \in Seq(Requests),
         Len(rt) = Len(rs) + 1, rt[Len(rt)].reply = NoView,
         \A i \in DOMAIN rs : rt[i].board = rs[i].board /\ rt[i].reply = rs[i].reply
  PROVE  /\ QueueInv(rt, srv)
         /\ \A v : Behind(v, rs, srv) => Behind(v, rt, srv)
<1>1. Len(rs) \in Nat /\ DOMAIN rs = 1..Len(rs) /\ DOMAIN rt = 1..(Len(rs) + 1)
  BY DEF QueueInv
<1>2. \A i \in DOMAIN rt : rt[i].reply # NoView => i \in DOMAIN rs
  BY <1>1
<1>3. \A i, j \in DOMAIN rt : i < j /\ j \in DOMAIN rs => i \in DOMAIN rs
  BY <1>1
<1>4. \A i \in DOMAIN rt : Answered(rt[i]) => i \in DOMAIN rs /\ Answered(rs[i])
  BY <1>2 DEF Answered
<1>5. QueueInv(rt, srv)
  <2>1. ASSUME NEW i \in DOMAIN rt, NEW j \in DOMAIN rt, i < j, rt[j].reply # NoView
        PROVE  rt[i].reply # NoView
    BY <1>2, <1>3, <2>1 DEF QueueInv
  <2>2. ASSUME NEW i \in DOMAIN rt, Answered(rt[i])
        PROVE  /\ rt[i].reply.board = rt[i].board
               /\ rt[i].reply.items \subseteq srv[rt[i].board].items
    BY <1>4, <2>2 DEF QueueInv
  <2>3. ASSUME NEW i \in DOMAIN rt, NEW j \in DOMAIN rt, i < j, Answered(rt[i]),
               Answered(rt[j]), rt[i].board = rt[j].board
        PROVE  rt[i].reply.items \subseteq rt[j].reply.items
    BY <1>4, <2>3 DEF QueueInv
  <2> QED
    BY <2>1, <2>2, <2>3 DEF QueueInv
<1>6. ASSUME NEW v, Behind(v, rs, srv)  PROVE Behind(v, rt, srv)
  BY <1>4, <1>6 DEF Behind
<1> QED
  BY <1>5, <1>6

\* fetchBoard: every delta under way is stale from now on.
LEMMA FullAsked ==
  ASSUME NEW rs, NEW srv, QueueInv(rs, srv), NEW b \in Board
  PROVE  /\ QueueInv(WithFull(rs, b), srv)
         /\ \A v : Behind(v, rs, srv) => Behind(v, WithFull(rs, b), srv)
         /\ \A i \in DOMAIN WithFull(rs, b) :
              WithFull(rs, b)[i].kind = "delta" => WithFull(rs, b)[i].stale
<1> DEFINE st == [i \in DOMAIN rs |-> [rs[i] EXCEPT !.stale = @ \/ rs[i].kind = "delta"]]
           rt == WithFull(rs, b)
<1>1. rs \in Seq(Requests) /\ Len(rs) \in Nat /\ DOMAIN rs = 1..Len(rs)
      /\ \A i \in DOMAIN rs : rs[i] \in Requests
  BY DEF QueueInv
<1>2. FullOf(b) \in Requests /\ FullOf(b).reply = NoView /\ FullOf(b).kind = "full"
  BY DEF FullOf, Requests
<1>3. ASSUME NEW i \in DOMAIN rs
      PROVE  st[i] \in Requests /\ st[i].board = rs[i].board /\ st[i].reply = rs[i].reply
             /\ (st[i].kind = "delta" => st[i].stale)
  <2>1. rs[i] \in Requests /\ (rs[i].stale \/ rs[i].kind = "delta") \in BOOLEAN
    BY <1>1
  <2> QED
    BY <2>1 DEF Requests
<1>4. st \in Seq(Requests) /\ Len(st) = Len(rs)
  <2>1. st \in [1..Len(rs) -> Requests]
    <3>1. st = [i \in 1..Len(rs) |-> st[i]]
      BY <1>1
    <3> QED
      BY <1>1, <1>3, <3>1
  <2>2. st \in Seq(Requests)
    BY <1>1, <2>1, SeqDef
  <2> HIDE DEF st
  <2>3. DOMAIN st = 1..Len(rs) /\ DOMAIN st = 1..Len(st) /\ Len(st) \in Nat
    BY <2>1, <2>2
  <2> QED
    BY <1>1, <2>2, <2>3
<1> HIDE DEF st
<1>5. /\ Append(st, FullOf(b)) \in Seq(Requests)
      /\ Len(Append(st, FullOf(b))) = Len(rs) + 1
      /\ Append(st, FullOf(b))[Len(rs) + 1] = FullOf(b)
      /\ \A i \in 1..Len(rs) : Append(st, FullOf(b))[i] = st[i]
  BY <1>2, <1>4
<1>6. rt = Append(st, FullOf(b))
  BY DEF WithFull, st
<1> HIDE DEF rt
<1>7. QueueInv(rt, srv) /\ \A v : Behind(v, rs, srv) => Behind(v, rt, srv)
  <2>1. rt \in Seq(Requests) /\ Len(rt) = Len(rs) + 1 /\ rt[Len(rt)].reply = NoView
    BY <1>2, <1>5, <1>6
  <2>2. \A i \in DOMAIN rs : rt[i].board = rs[i].board /\ rt[i].reply = rs[i].reply
    BY <1>1, <1>3, <1>5, <1>6
  <2> QED
    BY <2>1, <2>2, QueueGrows
<1>8. ASSUME NEW i \in DOMAIN rt, rt[i].kind = "delta"  PROVE rt[i].stale
  <2>1. i \in 1..Len(rs)
    BY <1>1, <1>2, <1>5, <1>6, <1>8
  <2> QED
    BY <1>1, <1>3, <1>5, <1>6, <1>8, <2>1
<1> QED
  BY <1>7, <1>8 DEF rt

\* No delta is merged that was asked for before the last full view.
LEMMA StaleIsFresh ==
  ASSUME NEW rs, NEW v, NEW h, \A i \in DOMAIN rs : rs[i].kind = "delta" => rs[i].stale
  PROVE  Fresh(rs, v, h)
BY DEF Fresh, Continues

\* A delta continues what the page holds when it is asked for.
LEMMA DeltaAsked ==
  ASSUME NEW rs, NEW srv, QueueInv(rs, srv), NEW v \in Views, v # NoView,
         v.board = here, here \in Board, Fresh(rs, v, here)
  PROVE  /\ QueueInv(Append(rs, DeltaOf(v)), srv)
         /\ \A w : Behind(w, rs, srv) => Behind(w, Append(rs, DeltaOf(v)), srv)
         /\ Fresh(Append(rs, DeltaOf(v)), v, here)
<1> DEFINE d  == DeltaOf(v)
           rt == Append(rs, d)
<1>1. maxThreadItemId(v) \in Nat /\ v.items = 1..maxThreadItemId(v)
  BY NewestOfView
<1>2. d \in Requests /\ d.reply = NoView /\ d.board = here /\ d.after = maxThreadItemId(v)
  BY <1>1 DEF DeltaOf, Requests
<1>3. Continues(d, v, here)
  BY <1>1, <1>2 DEF Continues
<1> HIDE DEF d
<1>4. rs \in Seq(Requests) /\ Len(rs) \in Nat /\ DOMAIN rs = 1..Len(rs)
  BY DEF QueueInv
<1>5. /\ rt \in Seq(Requests) /\ Len(rt) = Len(rs) + 1 /\ rt[Len(rs) + 1] = d
      /\ DOMAIN rt = 1..(Len(rs) + 1)
      /\ \A i \in 1..Len(rs) : rt[i] = rs[i]
  BY <1>2, <1>4
<1> HIDE DEF rt
<1>6. QueueInv(rt, srv) /\ \A w : Behind(w, rs, srv) => Behind(w, rt, srv)
  BY <1>2, <1>4, <1>5, QueueGrows
<1>7. ASSUME NEW i \in DOMAIN rt  PROVE Continues(rt[i], v, here)
  <2>1. CASE i = Len(rs) + 1
    BY <1>3, <1>5, <2>1
  <2>2. CASE i \in DOMAIN rs
    BY <1>4, <1>5, <2>2 DEF Fresh
  <2> QED
    BY <1>4, <1>5, <2>1, <2>2
<1> QED
  BY <1>6, <1>7 DEF Fresh, rt, d

-----------------------------------------------------------------------------
(* The steps *)

\* The new queue rt keeps what was known of the old one, and of a page that
\* shows v.
Passed(rs, rt, v) ==
  /\ QueueInv(rt, server)
  /\ \A w : Behind(w, rs, server) => Behind(w, rt, server)
  /\ Fresh(rt, v, here)

\* The page shows what it did, and asks for more.
LEMMA AskedMore ==
  ASSUME PInv, Passed(requests, requests', view),
         UNCHANGED <<server, here, view, cache>>
  PROVE  PInv'
BY DEF PInv, Passed, ServerInv

LEMMA PassedWithFull ==
  ASSUME NEW rs, QueueInv(rs, server), NEW b \in Board, NEW v
  PROVE  Passed(rs, WithFull(rs, b), v)
BY FullAsked, StaleIsFresh DEF Passed

LEMMA PassedRound ==
  ASSUME NEW rs, QueueInv(rs, server), NEW v \in Views \cup {NoView}, Fresh(rs, v, here),
         here \in Board, Round(v, rs)
  PROVE  Passed(rs, requests', v)
<1>1. CASE v # NoView /\ v.board = here
  <2>1. requests' = Append(rs, DeltaOf(v))
    BY <1>1 DEF Round
  <2> QED
    BY <1>1, <2>1, DeltaAsked DEF Passed
<1>2. CASE ~(v # NoView /\ v.board = here)
  <2>1. requests' = WithFull(rs, here)
    BY <1>2 DEF Round
  <2> QED
    BY <2>1, PassedWithFull
<1> QED
  BY <1>1, <1>2

LEMMA PassedContinue ==
  ASSUME NEW rs, QueueInv(rs, server), NEW v \in Views \cup {NoView}, Fresh(rs, v, here),
         here \in Board, Continue(v, rs) \/ Finish(rs) \/ Finish(WithFull(rs, here))
  PROVE  Passed(rs, requests', v)
<1>1. CASE Round(v, rs)
  BY <1>1, PassedRound
<1>2. CASE requests' = rs
  BY <1>2 DEF Passed
<1>3. CASE requests' = WithFull(rs, here)
  BY <1>3, PassedWithFull
<1> QED
  BY <1>1, <1>2, <1>3 DEF Continue, Finish

LEMMA InitHolds ==
  PInit => PInv
<1> SUFFICES ASSUME PInit  PROVE PInv
  OBVIOUS
<1>1. InitialSegment({})
  <2>1. {} = 1..0
    OBVIOUS
  <2> QED
    BY <2>1 DEF InitialSegment
<1>2. here \in Board
  BY HomeAssumption DEF PInit
<1>3. ServerInv
  <2>1. ASSUME NEW b \in Board  PROVE server[b] \in Views
    <3>1. PICK c \in Board : server[b] = [board |-> c, items |-> {}, read |-> {},
                                          nodes |-> {}, header |-> 0]
      BY DEF PInit
    <3> QED
      BY <1>1, <3>1 DEF Views
  <2> QED
    BY <2>1 DEF PInit, ServerInv
<1>4. /\ requests \in Seq(Requests) /\ Len(requests) = 1
      /\ requests[1].reply = NoView /\ requests[1].kind = "full"
  <2>1. FullOf(here) \in Requests /\ FullOf(here).reply = NoView /\ FullOf(here).kind = "full"
    BY <1>2 DEF FullOf, Requests
  <2> QED
    BY <2>1 DEF PInit
<1>5. \A i \in DOMAIN requests : i = 1
  BY <1>4
<1>6. QueueInv(requests, server)
  BY <1>4, <1>5 DEF QueueInv, Answered
<1>7. Fresh(requests, view, here)
  BY <1>4, <1>5 DEF Fresh, Continues
<1> QED
  BY <1>2, <1>3, <1>6, <1>7 DEF PInit, PInv

\* A board only gains items.
LEMMA ChangeKeeps ==
  ASSUME PInv, NEW b \in Board, NEW new \in Views, new.board = b,
         server[b].items \subseteq new.items, NEW frame, Change(b, new, frame)
  PROVE  PInv'
<1>1. server' = [server EXCEPT ![b] = new]
      /\ UNCHANGED <<here, view, cache, requests>>
  BY DEF Change, fetching
<1>2. ServerInv'
  BY <1>1 DEF PInv, ServerInv
<1>3. \A c \in Board : server[c].items \subseteq server'[c].items
  BY <1>1 DEF PInv, ServerInv
<1>4. QueueInv(requests, server')
  <2>1. \A i \in DOMAIN requests : requests[i].board \in Board
    <3>1. \A i \in DOMAIN requests : requests[i] \in Requests
      BY DEF PInv, QueueInv
    <3> QED
      BY <3>1 DEF Requests
  <2>2. \A i \in DOMAIN requests : Answered(requests[i]) =>
          requests[i].reply.items \subseteq server'[requests[i].board].items
    BY <1>3, <2>1 DEF PInv, QueueInv
  <2> QED
    BY <2>2 DEF PInv, QueueInv
<1>5. ASSUME NEW v, Behind(v, requests, server)  PROVE Behind(v, requests, server')
  <2>1. v.board \in Board
    BY <1>5 DEF Behind, Views
  <2>2. v.items \subseteq server'[v.board].items
    BY <1>3, <1>5, <2>1 DEF Behind
  <2> QED
    BY <1>5, <2>2 DEF Behind
<1> QED
  BY <1>1, <1>2, <1>4, <1>5 DEF PInv

LEMMA ServerSteps ==
  ASSUME PInv, NEW b \in Board,
         \/ handlePostToNode(b) \/ handleMarkBoardRead(b) \/ handleSetNodeStatus(b)
         \/ \E n \in Node : restructure(b, n)
  PROVE  PInv'
<1> DEFINE v == server[b]
<1>1. v \in Views /\ v.board = b
  BY DEF PInv, ServerInv
<1>2. /\ v \in [board : Board, items : SUBSET Nat, read : SUBSET Nat,
                 nodes : SUBSET Node, header : Nat]
      /\ InitialSegment(v.items)
  BY <1>1 DEF Views
<1>3. CASE handlePostToNode(b)
  <2> DEFINE k   == maxThreadItemId(v)
             new == [v EXCEPT !.items = @ \cup {k + 1}]
  <2>1. k \in Nat /\ v.items = 1..k
    BY <1>1, NewestOfView
  <2>2. v.items \cup {k + 1} = 1..(k + 1) /\ k + 1 \in Nat
    BY <2>1
  <2>3. InitialSegment(v.items \cup {k + 1}) /\ v.items \cup {k + 1} \subseteq Nat
    BY <2>2 DEF InitialSegment
  <2> HIDE DEF k
  <2>4. new \in Views /\ new.board = b /\ v.items \subseteq new.items
    BY <1>1, <1>2, <2>3 DEF Views
  <2>5. Change(b, new, "thread-update")
    BY <1>3 DEF handlePostToNode, k
  <2> QED
    BY <2>4, <2>5, ChangeKeeps
<1>4. CASE handleMarkBoardRead(b)
  <2> DEFINE new == [v EXCEPT !.read = v.items]
  <2>1. new \in Views /\ new.board = b /\ v.items \subseteq new.items
    BY <1>1, <1>2 DEF Views
  <2>2. Change(b, new, "thread-update")
    BY <1>4 DEF handleMarkBoardRead
  <2> QED
    BY <2>1, <2>2, ChangeKeeps
<1>5. CASE handleSetNodeStatus(b)
  <2> DEFINE new == [v EXCEPT !.header = @ + 1]
  <2>1. v.header + 1 \in Nat
    BY <1>2
  <2>2. new \in Views /\ new.board = b /\ v.items \subseteq new.items
    BY <1>1, <1>2, <2>1 DEF Views
  <2>3. Change(b, new, "thread-update")
    BY <1>5 DEF handleSetNodeStatus
  <2> QED
    BY <2>2, <2>3, ChangeKeeps
<1>6. CASE \E n \in Node : restructure(b, n)
  <2>1. PICK n \in Node : restructure(b, n)
    BY <1>6
  <2> DEFINE ns  == IF n \in v.nodes THEN v.nodes \ {n} ELSE v.nodes \cup {n}
             new == [v EXCEPT !.nodes = ns]
  <2>2. ns \in SUBSET Node
    BY <1>2
  <2>3. [v EXCEPT !.nodes = IF n \in @ THEN @ \ {n} ELSE @ \cup {n}] = new
    BY <1>2
  <2>4. Change(b, new, "structure-update")
    BY <2>1, <2>3 DEF restructure
  <2> HIDE DEF ns
  <2>5. new \in Views /\ new.board = b /\ v.items \subseteq new.items
    BY <1>1, <1>2, <2>2 DEF Views
  <2> QED
    BY <2>4, <2>5, ChangeKeeps
<1> QED
  BY <1>3, <1>4, <1>5, <1>6

LEMMA AnswerKeeps ==
  ASSUME PInv, "overtake" \notin Env, NEW i \in DOMAIN requests, answer(i)
  PROVE  PInv'
<1> DEFINE rs == requests
           b  == rs[i].board
<1>1. rs \in Seq(Requests) /\ Len(rs) \in Nat /\ DOMAIN rs = 1..Len(rs)
      /\ \A j \in DOMAIN rs : rs[j] \in Requests
  BY DEF PInv, QueueInv
<1>2. b \in Board /\ server[b] \in Views /\ server[b].board = b
  BY <1>1 DEF PInv, ServerInv, Requests
<1>3. PICK a \in {server[b], Error} : requests' = [rs EXCEPT ![i].reply = a]
  BY DEF answer
<1>4. /\ rs[i].reply = NoView
      /\ \A j \in 1..(i - 1) : rs[j].reply # NoView
      /\ UNCHANGED <<server, here, view, cache>>
  BY DEF answer
<1>5. /\ requests' \in Seq(Requests) /\ DOMAIN requests' = DOMAIN rs
      /\ requests'[i] = [rs[i] EXCEPT !.reply = a]
      /\ \A j \in DOMAIN rs : j # i => requests'[j] = rs[j]
  <2>1. [rs[i] EXCEPT !.reply = a] \in Requests
    <3>1. a \in Views \cup {NoView, Error}
      BY <1>2
    <3>2. rs[i] \in Requests
      BY <1>1
    <3> QED
      BY <3>1, <3>2 DEF Requests
  <2>2. i \in 1..Len(rs)
    BY <1>1
  <2>3. requests' = [rs EXCEPT ![i] = [rs[i] EXCEPT !.reply = a]]
    BY <1>3
  <2> HIDE DEF b
  <2>4. requests' \in Seq(Requests)
    BY <1>1, <2>1, <2>2, <2>3, ExceptSeq
  <2> QED
    BY <1>1, <2>1, <2>3, <2>4
<1>6. /\ requests'[i].reply = a
      /\ requests'[i].board = b
      /\ requests'[i].kind = rs[i].kind /\ requests'[i].stale = rs[i].stale
      /\ requests'[i].after = rs[i].after
  <2>1. rs[i] \in Requests
    BY <1>1
  <2> QED
    BY <1>5, <2>1 DEF Requests
<1>7. \A j \in DOMAIN rs : rs[j].reply # NoView => j # i /\ ~(i < j)
  BY <1>1, <1>4 DEF PInv, QueueInv
<1>8. \A j \in DOMAIN rs : j < i => rs[j].reply # NoView
  BY <1>1, <1>4
<1>9. QueueInv(requests', server)
  <2>1. ASSUME NEW j \in DOMAIN rs, NEW k \in DOMAIN rs, j < k, requests'[k].reply # NoView
        PROVE  requests'[j].reply # NoView
    <3>1. CASE k = i
      BY <1>1, <1>5, <1>8, <2>1, <3>1
    <3>2. CASE k # i
      <4>1. rs[k].reply # NoView /\ rs[j].reply # NoView
        BY <1>5, <2>1, <3>2 DEF PInv, QueueInv
      <4> QED
        BY <1>5, <1>7, <4>1
    <3> QED
      BY <3>1, <3>2
  <2>2. ASSUME NEW j \in DOMAIN rs, Answered(requests'[j])
        PROVE  /\ requests'[j].reply.board = requests'[j].board
               /\ requests'[j].reply.items \subseteq server[requests'[j].board].items
    <3>1. CASE j = i
      BY <1>2, <1>3, <1>6, <2>2, <3>1 DEF Answered
    <3>2. CASE j # i
      BY <1>5, <2>2, <3>2 DEF PInv, QueueInv
    <3> QED
      BY <3>1, <3>2
  <2>3. ASSUME NEW j \in DOMAIN rs, NEW k \in DOMAIN rs, j < k, Answered(requests'[j]),
               Answered(requests'[k]), requests'[j].board = requests'[k].board
        PROVE  requests'[j].reply.items \subseteq requests'[k].reply.items
    <3>1. CASE k = i
      <4>1. j # i
        BY <1>1, <2>3, <3>1
      <4>2. Answered(rs[j]) /\ rs[j] = requests'[j] /\ rs[j].board = b
        BY <1>5, <1>6, <2>3, <3>1, <4>1
      <4>3. rs[j].reply.items \subseteq server[b].items
        BY <4>2 DEF PInv, QueueInv
      <4>4. requests'[k].reply = server[b]
        BY <1>3, <1>6, <2>3, <3>1 DEF Answered
      <4> QED
        BY <4>2, <4>3, <4>4
    <3>2. CASE k # i
      <4>1. requests'[k] = rs[k] /\ rs[k].reply # NoView
        BY <1>5, <2>3, <3>2 DEF Answered
      <4>2. j # i
        BY <1>7, <2>3, <4>1
      <4> QED
        BY <1>5, <2>3, <4>1, <4>2 DEF PInv, QueueInv
    <3> QED
      BY <3>1, <3>2
  <2> QED
    BY <1>5, <2>1, <2>2, <2>3 DEF QueueInv
<1>10. ASSUME NEW v, Behind(v, rs, server)  PROVE Behind(v, requests', server)
  <2>1. ASSUME NEW j \in DOMAIN rs, Answered(requests'[j]), requests'[j].board = v.board
        PROVE  v.items \subseteq requests'[j].reply.items
    <3>1. CASE j = i
      BY <1>3, <1>6, <1>10, <2>1, <3>1 DEF Behind, Answered
    <3>2. CASE j # i
      BY <1>5, <1>10, <2>1, <3>2 DEF Behind
    <3> QED
      BY <3>1, <3>2
  <2> QED
    BY <1>5, <1>10, <2>1 DEF Behind
<1>11. Fresh(requests', view, here)
  <2>1. ASSUME NEW j \in DOMAIN rs  PROVE Continues(requests'[j], view, here)
    <3>1. Continues(rs[j], view, here)
      BY DEF PInv, Fresh
    <3>2. CASE j = i
      BY <1>6, <3>1, <3>2 DEF Continues
    <3>3. CASE j # i
      BY <1>5, <3>1, <3>3
    <3> QED
      BY <3>2, <3>3
  <2> QED
    BY <1>5, <2>1 DEF Fresh
<1> QED
  BY <1>4, <1>9, <1>10, <1>11, AskedMore DEF Passed

\* What lands is the first request.
LEMMA FirstArrives ==
  ASSUME PInv, "overtake" \notin Env, NEW i \in DOMAIN requests, NEW kind, Arrives(i, kind)
  PROVE  /\ i = 1 /\ requests[1] \in Requests /\ requests[1].reply # NoView
         /\ requests[1].kind = kind
         /\ QueueInv(RemoveAt(requests, 1), server)
         /\ \A v : Behind(v, requests, server) => Behind(v, RemoveAt(requests, 1), server)
         /\ Fresh(RemoveAt(requests, 1), view, here)
         /\ Answered(requests[1]) => Behind(requests[1].reply, RemoveAt(requests, 1), server)
<1>1. i = 1 /\ requests[1].reply # NoView /\ requests[1].kind = kind
  BY DEF Arrives
<1>2. QueueInv(requests, server) /\ Fresh(requests, view, here)
  BY DEF PInv
<1>3. requests[1] \in Requests
  BY <1>1, <1>2 DEF QueueInv
<1> QED
  BY <1>1, <1>2, <1>3, QueueShrinks, FirstIsBehind

LEMMA LandFullKeeps ==
  ASSUME PInv, "overtake" \notin Env, NEW i \in DOMAIN requests, landFull(i)
  PROVE  PInv'
<1> DEFINE r    == requests[1]
           rest == RemoveAt(requests, 1)
<1>1. Arrives(i, "full")
  BY DEF landFull
<1>2. /\ i = 1 /\ r \in Requests /\ r.reply # NoView
      /\ QueueInv(rest, server)
      /\ \A v : Behind(v, requests, server) => Behind(v, rest, server)
      /\ Fresh(rest, view, here)
      /\ Answered(r) => Behind(r.reply, rest, server)
  BY <1>1, FirstArrives
<1>3. /\ requests' = rest /\ UNCHANGED <<server, here, cache>>
      /\ view' = IF r.board = here /\ r.reply # Error THEN r.reply ELSE view
  BY <1>2 DEF landFull
<1>4. 1 \in DOMAIN requests
  BY <1>2
<1> HIDE DEF rest
<1>5. CASE r.board = here /\ r.reply # Error
  <2>1. Answered(r) /\ view' = r.reply
    BY <1>2, <1>3, <1>5 DEF Answered
  <2>2. Behind(view', rest, server) /\ r.reply.board = here
    BY <1>2, <1>4, <1>5, <2>1 DEF PInv, QueueInv
  <2>3. ASSUME NEW q, Continues(q, view, here)  PROVE Continues(q, r.reply, here)
    <3>1. CASE q.kind = "delta" /\ ~q.stale
      <4>1. view # NoView /\ q.board = here /\ view.board = here /\ 1..q.after \subseteq view.items
        BY <2>3, <3>1 DEF Continues
      <4>2. view.items \subseteq r.reply.items
        BY <1>4, <1>5, <2>1, <4>1 DEF PInv, Behind
      <4> QED
        BY <1>2, <2>2, <4>1, <4>2 DEF Continues
    <3> QED
      BY <3>1 DEF Continues
  <2>4. Fresh(rest, r.reply, here)
    BY <1>2, <2>3 DEF Fresh
  <2> QED
    BY <1>2, <1>3, <2>1, <2>2, <2>4 DEF PInv, ServerInv
<1>6. CASE ~(r.board = here /\ r.reply # Error)
  BY <1>2, <1>3, <1>6 DEF PInv, ServerInv
<1> QED
  BY <1>5, <1>6

LEMMA LandDeltaKeeps ==
  ASSUME PInv, "overtake" \notin Env, NEW i \in DOMAIN requests, landDelta(i)
  PROVE  PInv'
<1> DEFINE r    == requests[1]
           rest == RemoveAt(requests, 1)
           new  == mergeBoardDelta(view, r.reply, r.after)
<1>1. Arrives(i, "delta")
  BY DEF landDelta
<1>2. /\ i = 1 /\ r \in Requests /\ r.reply # NoView /\ r.kind = "delta"
      /\ QueueInv(rest, server)
      /\ \A v : Behind(v, requests, server) => Behind(v, rest, server)
      /\ Fresh(rest, view, here)
      /\ Answered(r) => Behind(r.reply, rest, server)
  BY <1>1, FirstArrives
<1>3. UNCHANGED <<server, here, cache>> /\ here \in Board /\ 1 \in DOMAIN requests
  BY <1>2 DEF landDelta, PInv
<1>4. view \in Views \cup {NoView}
  BY DEF PInv, Behind
<1>5. \/ /\ UNCHANGED view
         /\ Continue(view, rest) \/ Finish(rest) \/ Finish(WithFull(rest, here))
      \/ /\ r.board = here /\ r.reply # Error /\ ~r.stale /\ view # NoView /\ view.board = here
         /\ view' = new /\ Continue(new, rest)
  BY <1>2 DEF landDelta
<1> HIDE DEF rest, new
<1>6. CASE /\ UNCHANGED view
           /\ Continue(view, rest) \/ Finish(rest) \/ Finish(WithFull(rest, here))
  <2>1. Passed(rest, requests', view)
    BY <1>2, <1>3, <1>4, <1>6, PassedContinue
  <2>2. Passed(requests, requests', view)
    BY <1>2, <2>1 DEF Passed
  <2> QED
    BY <1>3, <1>6, <2>2, AskedMore
<1>7. CASE /\ r.board = here /\ r.reply # Error /\ ~r.stale /\ view # NoView /\ view.board = here
           /\ view' = new /\ Continue(new, rest)
  <2>1. Answered(r) /\ r.reply \in Views /\ r.after \in Nat
    BY <1>2, <1>7 DEF Answered, Requests
  <2>2. 1..r.after \subseteq view.items
    BY <1>2, <1>3, <1>7 DEF PInv, Fresh, Continues
  <2>3. view \in Views
    BY <1>4, <1>7
  <2>4. new \in Views /\ new.board = view.board /\ new.items = view.items \cup r.reply.items
    BY <2>1, <2>2, <2>3, MergeFillsUp DEF new
  <2>5. r.reply.board = here /\ Behind(r.reply, rest, server) /\ Behind(view, rest, server)
    BY <1>2, <1>3, <1>7, <2>1 DEF PInv, QueueInv
  <2>6. Behind(new, rest, server)
    BY <1>7, <2>4, <2>5 DEF Behind
  <2>7. ASSUME NEW q, Continues(q, view, here)  PROVE Continues(q, new, here)
    <3>1. new # NoView
      BY <2>4, NoViewAssumption DEF Views
    <3> QED
      BY <1>7, <2>4, <2>7, <3>1 DEF Continues
  <2>8. Fresh(rest, new, here)
    BY <1>2, <2>7 DEF Fresh
  <2>9. Passed(rest, requests', new)
    BY <1>2, <1>3, <1>7, <2>4, <2>8, PassedContinue
  <2> QED
    BY <1>2, <1>3, <1>7, <2>6, <2>9 DEF PInv, Passed, ServerInv
<1> QED
  BY <1>5, <1>6, <1>7

LEMMA PageSteps ==
  ASSUME PInv, readBoardCache \/ onopen \/ onmessage \/ connect \/ drop
  PROVE  PInv'
<1>0. QueueInv(requests, server) /\ here \in Board /\ view \in Views \cup {NoView}
      /\ Fresh(requests, view, here)
  BY DEF PInv, Behind
<1>1. CASE readBoardCache
  <2>1. UNCHANGED <<server, here, cache, requests>>
    BY <1>1 DEF readBoardCache, fetching
  <2>2. CASE UNCHANGED view
    BY <2>1, <2>2 DEF PInv, ServerInv
  <2>3. CASE ~UNCHANGED view
    <3>1. /\ view' = cache[here] /\ cache[here] # NoView
          /\ view = NoView \/ view.board # here
      BY <1>1, <2>3 DEF readBoardCache
    <3>2. Fresh(requests, cache[here], here)
      BY <1>0, <3>1 DEF Fresh, Continues
    <3> QED
      BY <1>0, <2>1, <3>1, <3>2 DEF PInv, ServerInv
  <2> QED
    BY <2>2, <2>3
<1>2. CASE onopen
  <2>1. requests' = WithFull(requests, here) /\ UNCHANGED <<server, here, view, cache>>
    BY <1>2 DEF onopen
  <2> QED
    BY <1>0, <2>1, PassedWithFull, AskedMore
<1>3. CASE onmessage
  <2>1. UNCHANGED <<server, here, view, cache>>
    BY <1>3 DEF onmessage
  <2>2. \/ Round(view, requests) \/ requests' = requests
        \/ requests' = WithFull(requests, here)
    BY <1>3 DEF onmessage, syncDelta
  <2>3. Passed(requests, requests', view)
    <3>1. CASE Round(view, requests)
      BY <1>0, <3>1, PassedRound
    <3>2. CASE requests' = requests
      BY <1>0, <3>2 DEF Passed
    <3>3. CASE requests' = WithFull(requests, here)
      BY <1>0, <3>3, PassedWithFull
    <3> QED
      BY <2>2, <3>1, <3>2, <3>3
  <2> QED
    BY <2>1, <2>3, AskedMore
<1>4. CASE connect \/ drop
  <2>1. UNCHANGED <<server, here, view, cache, requests>>
    BY <1>4 DEF connect, drop, fetching
  <2> QED
    BY <2>1 DEF PInv, ServerInv
<1> QED
  BY <1>1, <1>2, <1>3, <1>4

LEMMA NavigateKeeps ==
  ASSUME PInv, NEW b \in Board, navigate(b)
  PROVE  PInv'
<1>1. /\ here' = b /\ requests' = WithFull(requests, b) /\ UNCHANGED <<server, view>>
      /\ cache' \in {cache} \cup {[cache EXCEPT ![v.board] = v] : v \in {view} \ {NoView}}
  BY DEF navigate
<1>2. /\ QueueInv(requests', server)
      /\ \A v : Behind(v, requests, server) => Behind(v, requests', server)
      /\ Fresh(requests', view, b)
  BY <1>1, FullAsked, StaleIsFresh DEF PInv
<1>3. /\ cache' \in [Board -> Views \cup {NoView}]
      /\ \A c \in Board :
           cache'[c] # NoView => cache'[c].board = c /\ Behind(cache'[c], requests, server)
  <2>1. CASE cache' = cache
    BY <2>1 DEF PInv
  <2>2. CASE view # NoView /\ cache' = [cache EXCEPT ![view.board] = view]
    <3>1. Behind(view, requests, server) /\ view \in Views /\ view.board \in Board
      BY <2>2 DEF PInv, Behind, Views
    <3>2. cache' \in [Board -> Views \cup {NoView}]
      BY <2>2, <3>1 DEF PInv
    <3>3. ASSUME NEW c \in Board, cache'[c] # NoView
          PROVE  cache'[c].board = c /\ Behind(cache'[c], requests, server)
      <4>1. cache'[c] = IF c = view.board THEN view ELSE cache[c]
        BY <2>2 DEF PInv
      <4> QED
        BY <3>1, <3>3, <4>1 DEF PInv
    <3> QED
      BY <3>2, <3>3
  <2> QED
    BY <1>1, <2>1, <2>2
<1> QED
  BY <1>1, <1>2, <1>3 DEF PInv, ServerInv

LEMMA NextKeeps ==
  ASSUME PInv, "overtake" \notin Env, [PNext]_pvars
  PROVE  PInv'
<1>1. CASE UNCHANGED pvars
  BY <1>1 DEF PInv, ServerInv, pvars
<1>2. ASSUME NEW b \in Board,
             \/ handlePostToNode(b) \/ handleMarkBoardRead(b) \/ handleSetNodeStatus(b)
             \/ \E n \in Node : restructure(b, n)
      PROVE  PInv'
  BY <1>2, ServerSteps
<1>3. ASSUME NEW b \in Board, navigate(b)  PROVE PInv'
  BY <1>3, NavigateKeeps
<1>4. ASSUME NEW i \in DOMAIN requests, answer(i) \/ landFull(i) \/ landDelta(i)  PROVE PInv'
  BY <1>4, AnswerKeeps, LandFullKeeps, LandDeltaKeeps
<1>5. CASE readBoardCache \/ connect \/ onopen \/ onmessage \/ drop
  BY <1>5, PageSteps
<1> QED
  BY <1>1, <1>2, <1>3, <1>4, <1>5 DEF PNext

\* For any boards, any number of changes, lost connections, failed requests and
\* navigations: as long as requests are answered in order, the page holds every
\* item up to the newest it holds (mergeBoardDelta, syncDelta in BoardApp.tsx).
THEOREM NoItemIsSkipped ==
  ASSUME "overtake" \notin Env
  PROVE  PSpec => []NoGaps
<1>1. PInit => PInv
  BY InitHolds
<1>2. PInv /\ [PNext]_pvars => PInv'
  BY NextKeeps
<1>3. PInv => NoGaps
  BY NewestOfView DEF PInv, Behind, NoGaps
<1> QED
  BY <1>1, <1>2, <1>3, PTL DEF PSpec
=============================================================================
