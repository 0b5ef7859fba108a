------------------------------ MODULE PageProofs ------------------------------
(***************************************************************************)
(* Proofs about the parts of Page that are mostly the page's: Usage,       *)
(* Slash, Unread, Diagrams, Tracker and MapCanvas, for all values of their *)
(* constants.  Each part has an inductive invariant in its own module, the *)
(* canvas one for each of its properties; the lemmas of a part say that it *)
(* holds at the start, that a step of the part keeps it and what it shows, *)
(* and the theorem of the part carries that to PageSpec.                   *)
(***************************************************************************)
EXTENDS Page, SequenceTheorems, FiniteSetTheorems, TLAPS

\* The slots of Page by the names they have in the parts.
env == v1
extra == v1
kind == v1
map == v1
account == v2
bounds == v2
page == v2
pane == v2
tab == v2
asks == v3
drag == v3
line == v3
now == v3
meter == v4
ran == v4
steps == v4
view == v4
changes == v5
diagram == v5
ledger == v5
undo == v5
uses == v5
watch == v5
alive == v6
read == v6
saved == v6
toast == v6
upserts == v6
file == v7
lastPick == v7
news == v7
notFound == v7
told == v7
onScreen == v8
own == v8
posts == v8
queued == v8
reports == v8
svg == v8
dwell == v9
error == v9
limits == v9
stage == v9
waits == v9
canvas == v10
frame == v10
had == v10
marks == v10
turn == v10
busy == v11
confirm == v11
renders == v11
up == v11
count == v12
fetches == v12
mcp == v12
sock == v12
amiss == v13
lists == v13
queue == v13
nudge == v14
transit == v14
list == v15
looked == v15
acks == v16
seen == v16
acked == v17
swept == v17
forgot == v18
chip == v19
USE DEF env, extra, kind, map, account, bounds, page, pane, tab, asks, drag,
        line, now, meter, ran, steps, view, changes, diagram, ledger, undo,
        uses, watch, alive, read, saved, toast, upserts, file, lastPick,
        news, notFound, told, onScreen, own, posts, queued, reports, svg,
        dwell, error, limits, stage, waits, canvas, frame, had, marks, turn,
        busy, confirm, renders, up, count, fetches, mcp, sock, amiss, lists,
        queue, nudge, transit, list, looked, acks, seen, acked, swept,
        forgot, chip

-----------------------------------------------------------------------------
(* Sequences and sets *)

\* A sequence without its i-th element.
Without(s, i) == SubSeq(s, 1, i - 1) \o SubSeq(s, i + 1, Len(s))

LEMMA RowsRemoved ==
  ASSUME NEW A, NEW s \in Seq(A), NEW i \in DOMAIN s, NEW r, r = Without(s, i)
  PROVE  /\ r \in Seq(A)
         /\ Len(r) = Len(s) - 1 /\ Len(s) \in Nat
         /\ \A k \in 1 .. Len(s) - 1 : r[k] = IF k < i THEN s[k] ELSE s[k + 1]
<1> DEFINE a == SubSeq(s, 1, i-1) b == SubSeq(s, i+1, Len(s))
<1>1. i \in 1 .. Len(s) /\ Len(s) \in Nat OBVIOUS
<1>2. a \in Seq(A) /\ Len(a) = i-1 /\ \A k \in 1 .. i-1 : a[k] = s[k]
  BY <1>1, SubSeqProperties
<1>3. b \in Seq(A) /\ Len(b) = Len(s) - i /\ \A k \in 1 .. Len(s) - i : b[k] = s[i+k]
  BY <1>1, SubSeqProperties
<1> HIDE DEF a, b
<1>4. r = a \o b BY DEF Without, a, b
<1>5. Len(r) = Len(s) - 1 /\ r \in Seq(A) BY <1>1, <1>2, <1>3, <1>4, ConcatProperties
<1>c. \A k \in 1 .. Len(a) + Len(b) : r[k] = IF k <= Len(a) THEN a[k] ELSE b[k - Len(a)]
  <2>1. \A k \in 1 .. Len(a) + Len(b) :
          (a \o b)[k] = IF k <= Len(a) THEN a[k] ELSE b[k - Len(a)]
    BY <1>2, <1>3, ConcatProperties, Zenon
  <2> QED BY <1>4, <2>1
<1>6. \A k \in 1 .. Len(s)-1 : r[k] = IF k <= i-1 THEN a[k] ELSE b[k - (i-1)]
  <2>1. Len(a) + Len(b) = Len(s) - 1 BY <1>1, <1>2, <1>3
  <2> QED BY <1>2, <1>c, <2>1
<1>7. ASSUME NEW k \in 1 .. Len(s) - 1 PROVE r[k] = IF k < i THEN s[k] ELSE s[k + 1]
  <2>1. CASE k < i BY <1>1, <1>2, <1>6, <2>1
  <2>2. CASE ~(k < i)
    <3>1. k - (i-1) \in 1 .. Len(s) - i /\ i + (k - (i-1)) = k + 1 BY <1>1, <2>2
    <3> QED BY <1>1, <1>3, <1>6, <2>2, <3>1
  <2> QED BY <2>1, <2>2
<1> QED BY <1>1, <1>5, <1>7

\* The instance counts as this module does.
LEMMA CountsAgree ==
  ASSUME NEW X
  PROVE  R!Cardinality(X) = Cardinality(X)
BY DEF R!Cardinality, Cardinality

-----------------------------------------------------------------------------
(* Usage *)

UsageConstants ==
  /\ Length \in Nat /\ MaxUsageTime \in Nat /\ MaxUses \in Nat
  /\ None \notin Nat

\* A set of indices that is not empty has a last one.
LEMMA LastIndex ==
  ASSUME NEW n \in Nat, NEW X \in SUBSET (1 .. n), X # {}
  PROVE  U!Max(X) \in X
<1> DEFINE left == {n - i : i \in X}
<1>0. \A i \in X : n - i \in Nat /\ n - i \in left OBVIOUS
<1>1. left \in SUBSET Nat /\ left # {} BY <1>0
<1>2. PICK m \in left : \A k \in left : ~(<<k, m>> \in OpToRel(<, Nat))
  BY <1>1, NatLessThanWellFounded, WFMin, Zenon
<1>3. ASSUME NEW k \in left PROVE k >= m
  <2>1. <<k, m>> \in Nat \X Nat BY <1>1
  <2>2. ~(<<k, m>>[1] < <<k, m>>[2]) BY <1>2, <2>1, Zenon DEF OpToRel
  <2> QED BY <1>1, <2>2
<1>4. PICK i \in X : m = n - i OBVIOUS
<1>5. \A j \in X : i >= j
  <2> TAKE j \in X
  <2>1. n - j >= n - i BY <1>3, <1>4
  <2>2. i \in 1 .. n /\ j \in 1 .. n OBVIOUS
  <2> QED BY <2>1, <2>2
<1> QED BY <1>5 DEF U!Max

LEMMA UsageStarts == ASSUME UsageConstants, U!UsageInit PROVE U!UsageInv
<1> USE DEF UsageConstants
<1>1. U!UsageTypeOK
  <2>1. U!Nothing \in U!Window BY DEF U!Nothing, U!Window
  <2>2. limits \in Seq(U!Report) BY DEF U!UsageInit
  <2> QED BY <2>1, <2>2 DEF U!UsageInit, U!UsageTypeOK, U!Used
<1>2. U!MeterIsHad BY DEF U!UsageInit, U!MeterIsHad
<1>3. U!NumbersAreHad BY DEF U!UsageInit, U!NumbersAreHad, U!Of, U!Nothing
<1> QED BY <1>1, <1>2, <1>3 DEF U!UsageInv

\* What is in use stays had, as long as a meter only moves on.
LEMMA StillHad ==
  ASSUME UsageConstants, U!UsageTypeOK, NEW a \in Account, NEW w \in U!Window, U!Of(a, w),
         now' \in Nat, now' >= now,
         meter'[a].ends \in Nat, meter'[a].ends >= meter[a].ends,
         now' < meter[a].ends => had[a] \subseteq had'[a]
  PROVE  U!Of(a, w)'
<1>1. now \in Nat /\ meter[a].ends \in Nat /\ w.ends \in Nat
  BY DEF U!UsageTypeOK, UsageConstants, U!Window
<1> QED BY <1>1 DEF U!Of

LEMMA UsageStep == ASSUME UsageConstants, U!UsageInv, U!UsageNext PROVE U!UsageInv'
<1> USE DEF UsageConstants
<1>0. U!UsageTypeOK /\ U!MeterIsHad /\ U!NumbersAreHad BY DEF U!UsageInv
<1>t. /\ now \in Nat /\ uses \in Nat
      /\ \A a \in Account : /\ meter[a] \in [used : U!Used, ends : 0 .. MaxUsageTime + Length]
                            /\ meter[a].ends \in Nat /\ meter[a].used \in Nat
      /\ \A s \in Session : account[s] \in Account /\ file[s] \in U!Window
      /\ \A r \in reports : r.session \in Session /\ r.window \in U!Window
      /\ \A i \in DOMAIN limits : limits[i].session \in Session /\ limits[i].window \in U!Window
  <2>1. \A i \in DOMAIN limits : limits[i] \in U!Report BY <1>0 DEF U!UsageTypeOK
  <2>2. now \in Nat /\ uses \in Nat BY <1>0 DEF U!UsageTypeOK, U!Used
  <2>3. \A a \in Account : /\ meter[a] \in [used : U!Used, ends : 0 .. MaxUsageTime + Length]
                           /\ meter[a].ends \in Nat /\ meter[a].used \in Nat
    BY <1>0 DEF U!UsageTypeOK, U!Used
  <2>4. \A s \in Session : account[s] \in Account /\ file[s] \in U!Window
    BY <1>0 DEF U!UsageTypeOK
  <2>5. \A r \in reports : r \in U!Report BY <1>0 DEF U!UsageTypeOK
  <2> QED BY <2>1, <2>2, <2>3, <2>4, <2>5 DEF U!Report
\* Steps after which every number is one that was there.
<1>1. ASSUME UNCHANGED <<extra, account, now, meter, uses, had>>, U!UsageTypeOK',
             \A s \in Session : file'[s] \in {file[s], U!Nothing},
             \A r \in reports' : \/ r \in reports
                                 \/ r.session \in Session /\ r.window = file[r.session],
             \A i \in DOMAIN limits' : \/ \E j \in DOMAIN limits : limits'[i] = limits[j]
                                       \/ limits'[i] \in reports
      PROVE  U!UsageInv'
  <2>1. U!MeterIsHad' BY <1>0, <1>1 DEF U!MeterIsHad
  <2>2. \A a \in Account : U!Of(a, U!Nothing) BY <1>t DEF U!Of, U!Nothing
  <2>3. ASSUME NEW s \in Session PROVE U!Of(account[s], file[s])'
    <3>1. CASE file'[s] = file[s] BY <1>0, <1>1, <3>1 DEF U!NumbersAreHad, U!Of
    <3>2. CASE file'[s] = U!Nothing BY <1>t, <1>1, <2>2, <3>2 DEF U!Of
    <3> QED BY <1>1, <3>1, <3>2
  <2>4. ASSUME NEW r \in reports' PROVE U!Of(account[r.session], r.window)'
    <3>1. CASE r \in reports BY <1>0, <1>1, <3>1 DEF U!NumbersAreHad, U!Of
    <3>2. CASE r.session \in Session /\ r.window = file[r.session]
      BY <1>0, <1>1, <3>2 DEF U!NumbersAreHad, U!Of
    <3> QED BY <1>1, <3>1, <3>2
  <2>5. ASSUME NEW i \in DOMAIN limits' PROVE U!Of(account[limits[i].session], limits[i].window)'
    <3>1. CASE \E j \in DOMAIN limits : limits'[i] = limits[j]
      BY <1>0, <1>1, <3>1 DEF U!NumbersAreHad, U!Of
    <3>2. CASE limits'[i] \in reports BY <1>0, <1>1, <3>2 DEF U!NumbersAreHad, U!Of
    <3> QED BY <1>1, <3>1, <3>2
  <2> QED BY <1>1, <2>1, <2>3, <2>4, <2>5 DEF U!UsageInv, U!NumbersAreHad
<1>2. ASSUME NEW s \in Session, U!respond(s) PROVE U!UsageInv'
  <2> DEFINE a == account[s]
  <2>p. a \in Account BY <1>t
  <2>a. /\ a \in Account /\ uses' = uses + 1 /\ uses < MaxUses
        /\ meter' = [meter EXCEPT ![a] = IF now >= meter[a].ends
                                         THEN [used |-> 1, ends |-> now + Length]
                                         ELSE [meter[a] EXCEPT !.used = meter[a].used + 1]]
        /\ file' = [file EXCEPT ![s] = [pct |-> meter'[a].used, ends |-> meter'[a].ends]]
        /\ had' = [had EXCEPT ![a] = (IF now >= meter[a].ends THEN {0} ELSE had[a])
                                       \cup {meter'[a].used}]
        /\ UNCHANGED <<extra, account, now, alive, reports, limits>>
    BY <1>2, <2>p DEF U!respond
  <2>b. /\ meter'[a].used \in 1 .. uses + 1
        /\ meter'[a].ends \in 0 .. MaxUsageTime + Length /\ meter'[a].ends >= meter[a].ends
        /\ meter'[a] \in [used : U!Used, ends : 0 .. MaxUsageTime + Length]
    <3>1. CASE now >= meter[a].ends
      <4>1. meter'[a] = [used |-> 1, ends |-> now + Length] BY <1>0, <2>a, <3>1 DEF U!UsageTypeOK
      <4> QED BY <1>0, <1>t, <2>a, <3>1, <4>1 DEF U!UsageTypeOK, U!Used
    <3>2. CASE ~(now >= meter[a].ends)
      <4>1. meter'[a] = [meter[a] EXCEPT !.used = meter[a].used + 1] BY <1>0, <2>a, <3>2 DEF U!UsageTypeOK
      <4>2. meter'[a].used = meter[a].used + 1 /\ meter'[a].ends = meter[a].ends BY <1>t, <2>a, <4>1
      <4>3. meter[a].used =< uses BY <1>0, <2>a DEF U!MeterIsHad
      <4>4. meter[a].ends \in 0 .. MaxUsageTime + Length BY <1>t, <2>a
      <4>5. meter'[a].used \in U!Used BY <1>t, <2>a, <4>2, <4>3 DEF U!Used
      <4> QED BY <1>t, <2>a, <4>1, <4>2, <4>3, <4>4, <4>5
    <3> QED BY <3>1, <3>2
  <2>c. \A b \in Account : b # a => meter'[b] = meter[b] /\ had'[b] = had[b]
    BY <1>0, <2>a DEF U!UsageTypeOK
  <2>d. had'[a] = (IF now >= meter[a].ends THEN {0} ELSE had[a]) \cup {meter'[a].used}
    BY <1>0, <2>a DEF U!UsageTypeOK
  <2>w. [pct |-> meter'[a].used, ends |-> meter'[a].ends] \in U!Window
    BY <2>b, <1>0, <2>a DEF U!Window, U!UsageTypeOK, U!Used
  <2> HIDE DEF a
  <2>1. U!UsageTypeOK'
    <3>1. meter' \in [Account -> [used : U!Used, ends : 0 .. MaxUsageTime + Length]]
      BY <1>0, <2>a, <2>b, <2>c DEF U!UsageTypeOK
    <3>2. file' \in [Session -> U!Window] BY <1>0, <2>a, <2>w DEF U!UsageTypeOK
    <3>3. uses' \in U!Used BY <1>0, <1>t, <2>a DEF U!Used
    <3>4. had' \in [Account -> SUBSET U!Used]
      <4>1. meter'[a].used \in U!Used BY <1>t, <2>a, <2>b DEF U!Used
      <4>2. had'[a] \subseteq U!Used BY <1>0, <2>a, <2>d, <4>1 DEF U!UsageTypeOK, U!Used
      <4> QED BY <1>0, <2>a, <2>d, <4>2 DEF U!UsageTypeOK
    <3> QED BY <1>0, <2>a, <3>1, <3>2, <3>3, <3>4 DEF U!UsageTypeOK
  <2>2. U!MeterIsHad'
    <3>1. ASSUME NEW b \in Account
          PROVE  /\ 0 \in had'[b] /\ meter'[b].used =< uses'
                 /\ now' < meter'[b].ends => meter'[b].used \in had'[b]
      <4>1. CASE b = a BY <1>0, <1>t, <2>a, <2>b, <2>d, <4>1 DEF U!MeterIsHad
      <4>2. CASE b # a BY <1>0, <1>t, <2>a, <2>c, <4>2 DEF U!MeterIsHad
      <4> QED BY <4>1, <4>2
    <3> QED BY <3>1 DEF U!MeterIsHad
  <2>3. ASSUME NEW b \in Account, NEW w \in U!Window, U!Of(b, w) PROVE U!Of(b, w)'
    <3>1. now' \in Nat /\ now' >= now BY <1>t, <2>a
    <3>2. meter'[b].ends \in Nat /\ meter'[b].ends >= meter[b].ends
      BY <1>t, <2>a, <2>b, <2>c, <2>3
    <3>3. now' < meter[b].ends => had[b] \subseteq had'[b]
      BY <1>t, <2>a, <2>c, <2>d
    <3> QED BY <1>0, <2>3, <3>1, <3>2, <3>3, StillHad
  <2>4. ASSUME NEW x \in Session PROVE U!Of(account[x], file[x])'
    <3>1. CASE x # s
      <4>1. file'[x] = file[x] BY <1>0, <2>a, <3>1 DEF U!UsageTypeOK
      <4>2. U!Of(account[x], file[x]) BY <1>0 DEF U!NumbersAreHad
      <4> QED BY <1>t, <2>3, <2>a, <4>1, <4>2 DEF U!Of
    <3>2. CASE x = s
      <4>1. file'[s].pct = meter'[a].used /\ file'[s].ends = meter'[a].ends
        BY <1>0, <2>a DEF U!UsageTypeOK
      <4>2. meter'[a].used \in had'[a] BY <2>d
      <4> QED BY <1>t, <2>a, <2>b, <3>2, <4>1, <4>2 DEF U!Of, a
    <3> QED BY <3>1, <3>2
  <2>5. (\A r \in reports : U!Of(account[r.session], r.window))'
    BY <1>0, <1>t, <2>3, <2>a DEF U!NumbersAreHad
  <2>6. (\A i \in DOMAIN limits : U!Of(account[limits[i].session], limits[i].window))'
    BY <1>0, <1>t, <2>3, <2>a DEF U!NumbersAreHad
  <2> QED BY <2>1, <2>2, <2>4, <2>5, <2>6, <2>a DEF U!UsageInv, U!NumbersAreHad
<1>3. ASSUME NEW s \in Session, U!start(s) PROVE U!UsageInv'
  <2>1. U!Nothing \in U!Window BY DEF U!Nothing, U!Window
  <2>2. U!UsageTypeOK' BY <1>0, <1>3, <2>1 DEF U!start, U!UsageTypeOK
  <2> QED BY <1>0, <1>1, <1>3, <2>2 DEF U!start, U!UsageTypeOK
<1>4. ASSUME NEW s \in Session, U!runContextReport(s) PROVE U!UsageInv'
  <2>1. [session |-> s, window |-> file[s]] \in U!Report BY <1>t DEF U!Report
  <2>2. U!UsageTypeOK' BY <1>0, <1>4, <2>1 DEF U!runContextReport, U!UsageTypeOK
  <2> QED BY <1>0, <1>1, <1>4, <2>2 DEF U!runContextReport
<1>5. ASSUME NEW s \in Session, U!gone(s) PROVE U!UsageInv'
  <2>2. U!UsageTypeOK' BY <1>0, <1>5 DEF U!gone, U!UsageTypeOK
  <2> QED BY <1>0, <1>1, <1>5, <2>2 DEF U!gone
<1>6. CASE U!Tick
  <2>a. /\ now' = now + 1 /\ now < MaxUsageTime
        /\ had' = [b \in Account |-> IF now' = meter[b].ends THEN {0} ELSE had[b]]
        /\ UNCHANGED <<extra, account, meter, uses, alive, file, reports, limits>>
    BY <1>6 DEF U!Tick
  <2>1. U!UsageTypeOK' BY <1>0, <1>t, <2>a DEF U!UsageTypeOK, U!Used
  <2>2. U!MeterIsHad' BY <1>0, <1>t, <2>a DEF U!MeterIsHad
  <2>3. ASSUME NEW b \in Account, NEW w \in U!Window, U!Of(b, w) PROVE U!Of(b, w)'
    <3>1. now' \in Nat /\ now' >= now /\ meter'[b].ends \in Nat BY <1>t, <2>a
    <3>3. now' < meter[b].ends => had[b] \subseteq had'[b] BY <1>t, <2>a
    <3> QED BY <1>0, <1>t, <2>3, <2>a, <3>1, <3>3, StillHad
  <2>4. (\A x \in Session : U!Of(account[x], file[x]))' BY <1>0, <1>t, <2>3, <2>a DEF U!NumbersAreHad
  <2>5. (\A r \in reports : U!Of(account[r.session], r.window))'
    BY <1>0, <1>t, <2>3, <2>a DEF U!NumbersAreHad
  <2>6. (\A i \in DOMAIN limits : U!Of(account[limits[i].session], limits[i].window))'
    BY <1>0, <1>t, <2>3, <2>a DEF U!NumbersAreHad
  <2> QED BY <2>1, <2>2, <2>4, <2>5, <2>6, <2>a DEF U!UsageInv, U!NumbersAreHad
<1>7. ASSUME NEW r \in reports, U!handleReportUsageLimits(r) PROVE U!UsageInv'
  <2>1. CASE r.session \in alive
    <3>1. PICK rest \in Seq(U!Report) :
            /\ limits' = Append(rest, r)
            /\ \A k \in DOMAIN rest : \E j \in DOMAIN limits : rest[k] = limits[j]
      <4>1. CASE U!RowOf(r.session) = {}
        BY <1>0, <1>7, <2>1, <4>1 DEF U!handleReportUsageLimits, U!Without, U!UsageTypeOK
      <4>2. CASE U!RowOf(r.session) # {}
        <5>1. limits \in Seq(U!Report) BY <1>0 DEF U!UsageTypeOK
        <5>2. U!Max(U!RowOf(r.session)) \in DOMAIN limits
          <6>1. U!RowOf(r.session) \in SUBSET (1 .. Len(limits)) /\ Len(limits) \in Nat
            BY <5>1 DEF U!RowOf
          <6>2. U!Max(U!RowOf(r.session)) \in U!RowOf(r.session) BY <4>2, <6>1, LastIndex, Zenon
          <6> QED BY <5>1, <6>2 DEF U!RowOf
        <5> HIDE DEF UsageConstants
        <5>3. /\ U!Without(r.session) \in Seq(U!Report)
              /\ \A k \in DOMAIN U!Without(r.session) :
                   \E j \in DOMAIN limits : U!Without(r.session)[k] = limits[j]
          <6> DEFINE left == U!Without(r.session)
          <6>1. /\ left \in Seq(U!Report) /\ Len(left) = Len(limits) - 1 /\ Len(limits) \in Nat
                /\ \A k \in 1 .. Len(limits) - 1 : left[k] = IF k < U!Max(U!RowOf(r.session)) THEN limits[k] ELSE limits[k + 1]
            BY <4>2, <5>1, <5>2, RowsRemoved DEF U!Without, U!RemoveAt, Without
          <6> HIDE DEF left
          <6>2. DOMAIN left = 1 .. Len(limits) - 1 /\ DOMAIN limits = 1 .. Len(limits) BY <6>1, <5>1, LenProperties
          <6>3. \A k \in DOMAIN left : k \in DOMAIN limits /\ k + 1 \in DOMAIN limits BY <6>1, <6>2
          <6>4. \A k \in DOMAIN left : left[k] = limits[k] \/ left[k] = limits[k + 1] BY <6>1, <6>2
          <6> QED BY <6>1, <6>3, <6>4 DEF left
        <5> QED BY <1>7, <2>1, <5>3 DEF U!handleReportUsageLimits
      <4> QED BY <4>1, <4>2
    <3>2. r \in U!Report BY <1>0 DEF U!UsageTypeOK
    <3>3. /\ limits' \in Seq(U!Report)
          /\ \A k \in DOMAIN limits' : \/ limits'[k] = r
                                       \/ k \in DOMAIN rest /\ limits'[k] = rest[k]
      BY <3>1, <3>2
    <3>4. U!UsageTypeOK' BY <1>0, <1>7, <3>3 DEF U!handleReportUsageLimits, U!UsageTypeOK
    <3> QED BY <1>1, <1>7, <3>1, <3>3, <3>4 DEF U!handleReportUsageLimits
  <2>2. CASE r.session \notin alive
    <3>1. U!UsageTypeOK' BY <1>0, <1>7, <2>2 DEF U!handleReportUsageLimits, U!UsageTypeOK
    <3> QED BY <1>1, <1>7, <2>2, <3>1 DEF U!handleReportUsageLimits
  <2> QED BY <2>1, <2>2
<1>8. ASSUME NEW r \in reports, U!lose(r) PROVE U!UsageInv'
  <2>2. U!UsageTypeOK' BY <1>0, <1>8 DEF U!lose, U!UsageTypeOK
  <2> QED BY <1>0, <1>1, <1>8, <2>2 DEF U!lose
<1> QED BY <1>2, <1>3, <1>4, <1>5, <1>6, <1>7, <1>8 DEF U!UsageNext

LEMMA UsageShows == ASSUME UsageConstants, U!UsageInv PROVE U!OwnWindow
<1> SUFFICES ASSUME NEW s \in Session, U!usage_limits(s) # None
             PROVE  U!usage_limits(s) \in had[account[s]]
  BY DEF U!OwnWindow
<1> DEFINE a == account[s]
           with == {i \in U!Entries(a) : limits[i].window.pct # None}
           w == limits[U!Max(with)].window
<1>0. U!UsageTypeOK /\ U!MeterIsHad /\ U!NumbersAreHad BY DEF U!UsageInv
<1>1. U!usage_limits(s) = IF with = {} THEN None
                        ELSE IF extra THEN U!liveExtraWindow(w)
                             ELSE IF now >= w.ends THEN 0 ELSE w.pct
  BY DEF U!usage_limits, U!combineLimits
<1>2. with # {} BY <1>1
<1>3. U!Max(with) \in with
  <2>1. with \in SUBSET (1 .. Len(limits)) /\ Len(limits) \in Nat
    BY <1>0 DEF U!Entries, U!UsageTypeOK
  <2> HIDE DEF with
  <2> QED BY <1>2, <2>1, LastIndex
<1>4. /\ U!Max(with) \in DOMAIN limits
      /\ account[limits[U!Max(with)].session] = a /\ w.pct # None
  BY <1>3 DEF U!Entries
<1>5. U!Of(a, w) BY <1>0, <1>4 DEF U!NumbersAreHad
<1>6. 0 \in had[a]
  BY <1>0 DEF U!MeterIsHad, U!UsageTypeOK
<1>7. w \in U!Window /\ now \in Nat /\ w.ends \in Nat
  <2>1. limits[U!Max(with)] \in U!Report BY <1>0, <1>4 DEF U!UsageTypeOK
  <2>2. w \in U!Window BY <2>1 DEF U!Report
  <2> QED BY <1>0, <2>2 DEF U!Window, U!UsageTypeOK, UsageConstants
<1> HIDE DEF a, w, with
<1> QED BY <1>1, <1>2, <1>4, <1>5, <1>6, <1>7 DEF U!Of, U!liveExtraWindow, a

\* A page never shows the usage of another subscription or of a window that is
\* over, whatever is reported late, lost or out of order (combineLimits,
\* getUsageLimitsForAccount).
THEOREM UsageIsOwn ==
  ASSUME UsageConstants
  PROVE  PageSpec => []OwnWindow
<1> DEFINE Inv == part = "usage" => U!UsageInv
<1>1. PageInit => Inv BY UsageStarts DEF PageInit
<1>2. Inv /\ [PageNext]_<<part, slots>> => Inv'
  <2> SUFFICES ASSUME Inv, [PageNext]_<<part, slots>>, part' = "usage" PROVE U!UsageInv' OBVIOUS
  <2>1. CASE PageNext BY <2>1, UsageStep DEF PageNext
  <2>2. CASE UNCHANGED <<part, slots>>
    <3>1. U!UsageInv /\ UNCHANGED slots BY <2>2
    <3> QED BY <3>1 DEF slots, U!UsageInv, U!UsageTypeOK, U!MeterIsHad, U!NumbersAreHad, U!Of
  <2> QED BY <2>1, <2>2
<1>3. Inv => OwnWindow BY UsageShows DEF OwnWindow
<1> QED BY <1>1, <1>2, <1>3, PTL DEF PageSpec

-----------------------------------------------------------------------------
(* Slash *)

SlashConstants == Settings \subseteq [queued : BOOLEAN, env : SUBSET STRING]

LEMMA SlashStarts == ASSUME SlashConstants, S!Init PROVE S!SlashInv /\ S!ShownInv
<1>0. PICK c \in Settings : queued = c.queued /\ env = c.env BY DEF S!Init
<1>c. c = [queued |-> queued, env |-> env] BY <1>0 DEF SlashConstants
<1>a. transit = None /\ list = <<>> /\ queue = <<>> /\ line = <<>> BY DEF S!Init
<1>b. stage = [s \in Send |-> "idle"] BY DEF S!Init
<1>1. S!SlTypeOK
  <2>1. [queued |-> queued, env |-> env] \in Settings BY <1>c, <1>0
  <2>2. stage \in [Send -> S!Stages] /\ ran \in [Send -> Nat] /\ told \in [Send -> SUBSET S!Told] BY DEF S!Init, S!Stages
  <2>3. line \in Seq(Send) /\ list \in Seq(Send) /\ queue \in Seq(Send) BY <1>a
  <2>4. pane = "claude" /\ turn = FALSE /\ busy = FALSE /\ mcp = TRUE /\ alive = TRUE BY DEF S!Init
  <2>5. acks = {} /\ acked = {} /\ watch = {} /\ forgot = {} /\ chip = {} BY DEF S!Init
  <2> QED BY <2>1, <2>2, <2>3, <2>4, <2>5, <1>a DEF S!SlTypeOK
<1>2. S!PlacesKept BY <1>a, <1>b DEF S!PlacesKept
<1>3. S!LineIsFresh BY DEF S!Init, S!LineIsFresh
<1>4. S!OneTypes BY DEF S!Init, S!OneTypes, S!Typing
<1>5. S!ShownInv BY DEF S!Init, S!ShownInv, S!OutcomeShown, S!Typing
<1> QED BY <1>1, <1>2, <1>3, <1>4, <1>5 DEF S!SlashInv

\* What stands behind the head of a list.
LEMMA TailOf ==
  ASSUME NEW Y, NEW q \in Seq(Y), q # <<>>, \A i, j \in DOMAIN q : q[i] = q[j] => i = j
  PROVE  /\ Head(q) \in Y /\ Tail(q) \in Seq(Y) /\ S!Contains(q, Head(q))
         /\ \A i \in DOMAIN Tail(q) : i + 1 \in DOMAIN q /\ Tail(q)[i] = q[i + 1] /\ Tail(q)[i] # Head(q)
         /\ \A i, j \in DOMAIN Tail(q) : Tail(q)[i] = Tail(q)[j] => i = j
         /\ \A o : o # Head(q) => (S!Contains(q, o) <=> S!Contains(Tail(q), o))
<1>1. Tail(q) \in Seq(Y) /\ Len(Tail(q)) = Len(q) - 1 /\ Head(q) = q[1] /\ Len(q) \in Nat /\ Len(q) > 0
  BY HeadTailProperties, LenProperties, EmptySeq
<1>2. DOMAIN q = 1 .. Len(q) /\ DOMAIN Tail(q) = 1 .. (Len(q) - 1) BY <1>1, LenProperties
<1>3. \A i \in DOMAIN Tail(q) : Tail(q)[i] = q[i + 1] BY <1>1, <1>2, HeadTailProperties
<1>4. \A i \in DOMAIN Tail(q) : i + 1 \in DOMAIN q /\ Tail(q)[i] # Head(q) BY <1>1, <1>2, <1>3
<1>5. \A i, j \in DOMAIN Tail(q) : Tail(q)[i] = Tail(q)[j] => i = j
  <2> TAKE i, j \in DOMAIN Tail(q)
  <2>1. i \in Int /\ j \in Int /\ i + 1 \in DOMAIN q /\ j + 1 \in DOMAIN q BY <1>1, <1>2, <1>4
  <2> QED BY <2>1, <1>3
<1>6. ASSUME NEW o, o # Head(q) PROVE S!Contains(q, o) <=> S!Contains(Tail(q), o)
  <2>1. ASSUME NEW i \in 1 .. Len(q), q[i] = o PROVE i - 1 \in DOMAIN Tail(q) /\ Tail(q)[i - 1] = o
    <3>1. i # 1 BY <2>1, <1>1, <1>6
    <3>2. i - 1 \in DOMAIN Tail(q) /\ (i - 1) + 1 = i BY <3>1, <1>1, <1>2
    <3> QED BY <3>2, <1>3, <2>1
  <2>2. S!Contains(q, o) => S!Contains(Tail(q), o) BY <2>1, <1>1, <1>2 DEF S!Contains
  <2>3. S!Contains(Tail(q), o) => S!Contains(q, o) BY <1>1, <1>2, <1>3, <1>4 DEF S!Contains
  <2> QED BY <2>2, <2>3
<1>7. Head(q) \in Y /\ S!Contains(q, Head(q)) BY <1>1, <1>2, ElementOfSeq DEF S!Contains
<1> QED BY <1>1, <1>3, <1>4, <1>5, <1>6, <1>7

\* A list that one more is appended to.
LEMMA Appended ==
  ASSUME NEW Y, NEW q \in Seq(Y), NEW e \in Y, \A i \in DOMAIN q : q[i] # e,
         \A i, j \in DOMAIN q : q[i] = q[j] => i = j
  PROVE  /\ Append(q, e) \in Seq(Y)
         /\ \A i \in DOMAIN Append(q, e) : Append(q, e)[i] = e \/ (i \in DOMAIN q /\ Append(q, e)[i] = q[i])
         /\ \A i, j \in DOMAIN Append(q, e) : Append(q, e)[i] = Append(q, e)[j] => i = j
<1> DEFINE r == Append(q, e)
<1>1. r \in Seq(Y) /\ Len(r) = Len(q) + 1 /\ (\A i \in 1 .. Len(q) : r[i] = q[i]) /\ r[Len(q) + 1] = e
  BY AppendProperties
<1>2. Len(q) \in Nat /\ DOMAIN q = 1 .. Len(q) BY LenProperties
<1>3. DOMAIN r = 1 .. Len(r) BY <1>1, LenProperties
<1> HIDE DEF r
<1>4. \A i \in DOMAIN r : i \in DOMAIN q \/ i = Len(q) + 1 BY <1>1, <1>2, <1>3
<1>5. \A i \in DOMAIN r : r[i] = e \/ (i \in DOMAIN q /\ r[i] = q[i]) BY <1>1, <1>2, <1>4
<1>6. \A i, j \in DOMAIN r : r[i] = r[j] => i = j BY <1>1, <1>2, <1>4
<1> QED BY <1>1, <1>5, <1>6 DEF r

LEMMA FinishMoves ==
  ASSUME S!SlTypeOK, S!PlacesKept, NEW s \in Send, S!Acts(s), NEW ok \in BOOLEAN, S!Finish(s, ok), UNCHANGED S!Rest
  PROVE  /\ stage' \in [Send -> S!Stages] /\ \A o \in Send : stage'[o] = IF o = s THEN "over" ELSE stage[o]
         /\ list' \in Seq(Send) /\ acks' \subseteq S!Ack /\ chip' \subseteq Send /\ told' \in [Send -> SUBSET S!Told]
         /\ S!PlacesKept'
         /\ (queued => /\ list # <<>> /\ mcp /\ s = Head(list)
                       /\ \A o \in Send : o # s => (S!Contains(list, o) <=> S!Contains(list', o))
                       /\ \A a \in acks' : a \in acks \/ (a.send = s /\ a.ok = ok)
                       /\ chip' = chip /\ told' = told)
         /\ (~queued => /\ acks' = acks
                        /\ \A o \in chip' : o \in chip \/ (o = s /\ ok)
                        /\ \A o \in Send : o # s => told'[o] = told[o])
<1> USE DEF S!Rest, S!shown, S!world
<1>s. stage' = [stage EXCEPT ![s] = "over"] /\ stage \in [Send -> S!Stages] BY DEF S!Finish, S!SlTypeOK
<1>1. stage' \in [Send -> S!Stages] /\ \A o \in Send : stage'[o] = IF o = s THEN "over" ELSE stage[o]
  BY <1>s DEF S!Stages
<1>t. list \in Seq(Send) /\ told \in [Send -> SUBSET S!Told] /\ chip \subseteq Send /\ acks \subseteq S!Ack BY DEF S!SlTypeOK
<1>g. stage[s] \in S!Typing BY DEF S!Acts
<1>q. queue \in Seq(Send) /\ (transit # None => transit \in Seq(Send)) BY DEF S!SlTypeOK
<1>u. \A i \in DOMAIN queue : queue[i] \in Send BY <1>q, ElementOfSeq
<1>v. transit # None => \A i \in DOMAIN transit : transit[i] \in Send BY <1>q, ElementOfSeq
<1>2. CASE queued
  <2>1. list # <<>> /\ mcp /\ s = Head(list) BY <1>2 DEF S!Acts
  <2>2. \A i, j \in DOMAIN list : list[i] = list[j] => i = j BY DEF S!PlacesKept
  <2> DEFINE rest == Tail(list)
  <2>3. /\ rest \in Seq(Send)
        /\ \A i \in DOMAIN rest : i + 1 \in DOMAIN list /\ rest[i] = list[i + 1] /\ rest[i] # s
        /\ \A i, j \in DOMAIN rest : rest[i] = rest[j] => i = j
        /\ \A o : o # s => (S!Contains(list, o) <=> S!Contains(rest, o))
    BY <2>1, <2>2, <1>t, TailOf
  <2>4. list' = rest /\ acks' = acks \cup {[send |-> s, ok |-> ok]} /\ chip' = chip /\ told' = told
    BY <1>2 DEF S!Finish
  <2>w. \A i \in DOMAIN rest : rest[i] \in Send BY <2>3, ElementOfSeq
  <2> HIDE DEF rest
  <2>5. acks' \subseteq S!Ack BY <2>4, <1>t DEF S!Ack
  <2>6. \A a \in acks' : a \in acks \/ (a.send = s /\ a.ok = ok) BY <2>4
  <2>7. S!PlacesKept'
    <3>1. \A i \in DOMAIN list' : stage'[list'[i]] \in S!Typing BY <2>3, <2>4, <2>w, <1>1 DEF S!PlacesKept
    <3>2. \A i \in DOMAIN queue : stage'[queue[i]] = "row"
      BY <1>1, <1>u, <1>g DEF S!PlacesKept, S!Typing
    <3>3. transit = None BY <2>1 DEF S!PlacesKept
    <3> QED BY <3>1, <3>2, <3>3, <2>3, <2>4, <1>2 DEF S!PlacesKept
  <2> QED BY <1>1, <1>2, <1>t, <2>1, <2>3, <2>4, <2>5, <2>6, <2>7
<1>3. CASE ~queued
  <2>1. list' = list /\ acks' = acks /\ told' = [told EXCEPT ![s] = @ \cup {IF ok THEN "sent" ELSE "failed"}]
        /\ chip' = IF ok THEN chip \cup {s} ELSE chip
    BY <1>3 DEF S!Finish, S!Tell
  <2>2. told' \in [Send -> SUBSET S!Told] /\ \A o \in Send : o # s => told'[o] = told[o] BY <2>1, <1>t DEF S!Told
  <2>3. S!PlacesKept' BY <2>1, <1>3 DEF S!PlacesKept
  <2> QED BY <2>1, <2>2, <2>3, <1>1, <1>t, <1>3
<1> QED BY <1>2, <1>3
LEMMA SlashStep == ASSUME SlashConstants, S!SlashInv, S!ShownInv, S!Next PROVE S!SlashInv' /\ S!ShownInv'
<1>0. S!SlTypeOK /\ S!PlacesKept /\ S!LineIsFresh /\ (S!Alone => S!OneTypes) BY DEF S!SlashInv
<1> USE DEF S!world, S!claude, S!shown, S!Rest
<1>t. /\ stage \in [Send -> S!Stages] /\ ran \in [Send -> Nat] /\ told \in [Send -> SUBSET S!Told]
      /\ line \in Seq(Send) /\ list \in Seq(Send) /\ queue \in Seq(Send)
      /\ (transit # None => transit \in Seq(Send))
  BY <1>0 DEF S!SlTypeOK
<1>l. /\ \A i \in DOMAIN line : line[i] \in Send
      /\ \A i \in DOMAIN list : list[i] \in Send
      /\ \A i \in DOMAIN queue : queue[i] \in Send
      /\ (transit # None => \A i \in DOMAIN transit : transit[i] \in Send)
  BY <1>t, ElementOfSeq
\* A typing step that ends the send.
<1>f. ASSUME NEW s \in Send, NEW ok \in BOOLEAN, S!Acts(s), S!Finish(s, ok), UNCHANGED S!Rest,
             \/ line' = line /\ ran' = ran /\ ~ok
             \/ pane # "gone" /\ ok /\ stage[s] = "enter" /\ line' = <<>>
                /\ ran' = IF S!Runs THEN [ran EXCEPT ![Head(line)] = @ + 1] ELSE ran,
             S!Alone => ok
      PROVE  S!SlashInv' /\ S!ShownInv'
  <2>1. /\ stage' \in [Send -> S!Stages] /\ \A o \in Send : stage'[o] = IF o = s THEN "over" ELSE stage[o]
        /\ list' \in Seq(Send) /\ acks' \subseteq S!Ack /\ chip' \subseteq Send /\ told' \in [Send -> SUBSET S!Told]
        /\ S!PlacesKept'
        /\ (queued => /\ list # <<>> /\ mcp /\ s = Head(list)
                      /\ \A o \in Send : o # s => (S!Contains(list, o) <=> S!Contains(list', o))
                      /\ \A a \in acks' : a \in acks \/ (a.send = s /\ a.ok = ok)
                      /\ chip' = chip /\ told' = told)
        /\ (~queued => /\ acks' = acks
                       /\ \A o \in chip' : o \in chip \/ (o = s /\ ok)
                       /\ \A o \in Send : o # s => told'[o] = told[o])
    BY <1>0, <1>f, FinishMoves
  <2>2. S!Runs => /\ Len(line) = 1 /\ DOMAIN line = {1} /\ Head(line) = line[1] /\ Head(line) \in Send
                /\ ran[Head(line)] = 0 /\ stage[Head(line)] \in {"enter", "over"}
    <3>0. Len(line) = 1 => line # <<>> BY EmptySeq
    <3>1. Len(line) = 1 => DOMAIN line = 1 .. 1 /\ line # <<>> BY <1>t, <3>0, LenProperties
    <3>2. Len(line) = 1 => Head(line) = line[1] /\ 1 \in DOMAIN line BY <3>1, <1>t, HeadTailProperties
    <3> QED BY <3>1, <3>2, <1>l, <1>0 DEF S!Runs, S!LineIsFresh
  <2>3. (line' = line \/ line' = <<>>) /\ <<>> \in Seq(Send) BY <1>f, EmptySeq
  <2>3s. line' \in Seq(Send) BY <2>3, <1>t
  <2>4. ran' \in [Send -> Nat] BY <1>f, <1>t, <2>2
  <2>5. \A o \in Send : ran'[o] = IF ok /\ S!Runs /\ o = Head(line) THEN 1 ELSE ran[o] BY <1>f, <1>t, <2>2
  <2>6. S!SlTypeOK'
    BY <1>0, <1>f, <2>1, <2>3s, <2>4 DEF S!SlTypeOK
  <2>7. S!LineIsFresh'
    <3>1. \A i \in DOMAIN line' : line' = line /\ line[i] \in Send BY <2>3, <1>l
    <3>2. \A i \in DOMAIN line' : ran'[line'[i]] = 0 /\ stage'[line'[i]] \in {"enter", "over"}
      BY <3>1, <1>f, <2>1, <1>0 DEF S!LineIsFresh
    <3>3. \A o \in Send : stage'[o] \notin {"enter", "over"} => ran'[o] = 0 BY <2>1, <2>2, <2>5, <1>0 DEF S!LineIsFresh
    <3>4. \A o \in Send : ran'[o] =< 1 BY <2>5, <1>0 DEF S!LineIsFresh
    <3> QED BY <3>1, <3>2, <3>3, <3>4, <1>0 DEF S!LineIsFresh
  <2>8. ASSUME S!Alone, S!OneTypes PROVE S!OneTypes'
    <3>1. ok /\ stage[s] = "enter" /\ line' = <<>> /\ line = <<s>> /\ pane = "claude" /\ ~turn BY <1>f, <2>8 DEF S!OneTypes
    <3>2. S!Runs /\ Head(line) = s BY <3>1 DEF S!Runs
    <3>3. ran'[s] = 1 BY <3>1, <3>2, <2>5
    <3>4. \A o \in Send : ran[o] = 1 => ran'[o] = 1 BY <2>5
    <3>5. \A a \in acks' : a.ok => ran'[a.send] = 1
      <4>1. \A a \in acks : a.send \in Send BY <1>0 DEF S!SlTypeOK, S!Ack
      <4> QED BY <4>1, <3>3, <3>4, <2>1, <2>8 DEF S!OneTypes
    <3>6. \A o \in chip' : ran'[o] = 1
      <4>1. \A o \in chip' : o \in chip \/ o = s BY <2>1
      <4> QED BY <4>1, <3>3, <3>4, <2>1, <2>8, <1>0 DEF S!OneTypes, S!SlTypeOK
    <3>7. \A o \in Send : stage'[o] \in S!Typing => o # s /\ stage'[o] = stage[o] BY <2>1 DEF S!Typing
    <3>q. queued => mcp /\ \A o \in Send : o # s /\ stage[o] \in S!Typing => S!Contains(list', o) /\ stage[o] = "probe"
      BY <2>1, <2>8 DEF S!OneTypes
    <3>n. ~queued => \A o \in Send : stage[o] \in S!Typing => o = s
      BY <2>8, <1>f DEF S!OneTypes, S!Acts
    <3>8. \A o \in Send : stage'[o] \in S!Typing =>
            IF queued THEN /\ mcp /\ S!Contains(list', o) /\ stage'[o] = "probe" ELSE FALSE
      BY <3>7, <3>q, <3>n
    <3>9. \A o \in Send : stage'[o] \notin {"paste", "enter"} BY <3>8 DEF S!Typing
    <3> QED BY <3>1, <3>5, <3>6, <3>8, <3>9, <1>f DEF S!OneTypes
  <2>9. S!ShownInv'
    BY <2>1, <1>f, <1>0, <1>t DEF S!ShownInv, S!OutcomeShown, S!Acts, S!Finish, S!Tell, S!Typing
  <2>10. S!Alone' => S!Alone BY <1>f DEF S!Alone
  <2> QED BY <1>0, <2>1, <2>6, <2>7, <2>8, <2>9, <2>10 DEF S!SlashInv
\* A typing step after which the send goes on.
<1>g. ASSUME NEW s \in Send, NEW next \in {"clear", "paste", "enter"}, S!Acts(s), S!Goes(s, next), UNCHANGED S!Rest, ran' = ran,
             \/ next = "clear" /\ line' = line
             \/ next = "paste" /\ line' = <<>>
             \/ next = "enter" /\ line' = Append(line, s) /\ stage[s] = "paste",
             stage[s] # "enter"
      PROVE  S!SlashInv' /\ S!ShownInv'
  <2>1. stage' \in [Send -> S!Stages] /\ \A o \in Send : stage'[o] = IF o = s THEN next ELSE stage[o]
    BY <1>g, <1>t DEF S!Goes, S!Stages, S!Typing
  <2>2. stage[s] \in S!Typing /\ next \in S!Typing /\ ran[s] = 0 BY <1>g, <1>0 DEF S!Acts, S!Typing, S!LineIsFresh
  <2>u. UNCHANGED <<queued, env, pane, turn, busy, ran, mcp, alive, queue, transit, list, acks, acked, watch, forgot, chip, told>>
    BY <1>g DEF S!Goes
  <2>3. /\ line' \in Seq(Send)
        /\ \A i \in DOMAIN line' : (line'[i] = s /\ next = "enter") \/ (i \in DOMAIN line /\ line'[i] = line[i])
        /\ \A i, j \in DOMAIN line' : line'[i] = line'[j] => i = j
    <3>1. CASE next = "enter"
      <4>1. line' = Append(line, s) /\ stage[s] = "paste" BY <3>1, <1>g
      <4>2. \A i \in DOMAIN line : line[i] # s BY <4>1, <1>0 DEF S!LineIsFresh
      <4>3. \A i, j \in DOMAIN line : line[i] = line[j] => i = j BY <1>0 DEF S!LineIsFresh
      <4> QED BY <4>1, <4>2, <4>3, <3>1, <1>t, Appended
    <3>2. CASE line' = line BY <3>2, <1>t, <1>0 DEF S!LineIsFresh
    <3>3. CASE line' = <<>> BY <3>3
    <3> QED BY <3>1, <3>2, <3>3, <1>g
  <2>4. S!SlTypeOK' BY <1>0, <2>1, <2>3, <2>u DEF S!SlTypeOK
  <2>5. S!PlacesKept'
    <3>1. \A i \in DOMAIN queue : stage'[queue[i]] = "row" BY <2>1, <2>2, <1>l, <1>0 DEF S!PlacesKept, S!Typing
    <3>2. \A i \in DOMAIN list : stage'[list[i]] \in S!Typing BY <2>1, <2>2, <1>l, <1>0 DEF S!PlacesKept
    <3>3. transit # None => \A i \in DOMAIN transit : stage'[transit[i]] = "drained" BY <2>1, <2>2, <1>l, <1>0 DEF S!PlacesKept, S!Typing
    <3> QED BY <3>1, <3>2, <3>3, <2>u, <1>0 DEF S!PlacesKept
  <2>6. S!LineIsFresh'
    <3>a. stage[s] \notin {"enter", "over"} BY <2>2, <1>g DEF S!Typing
    <3>b. \A i \in DOMAIN line : ran[line[i]] = 0 /\ stage[line[i]] \in {"enter", "over"} /\ line[i] # s
      BY <3>a, <1>0 DEF S!LineIsFresh
    <3>c. \A i \in DOMAIN line : stage'[line[i]] = stage[line[i]] BY <3>b, <2>1, <1>l
    <3>1. \A i \in DOMAIN line' : ran[line'[i]] = 0 /\ stage'[line'[i]] \in {"enter", "over"}
      BY <3>b, <3>c, <2>1, <2>2, <2>3
    <3> QED BY <3>1, <2>1, <2>2, <2>3, <2>u, <1>0 DEF S!LineIsFresh
  <2>7. ASSUME S!Alone, S!OneTypes PROVE S!OneTypes'
    <3>1. queued => Head(list) = s /\ \A o \in Send : o # s => stage[o] \notin {"clear", "paste", "enter"}
      BY <1>g, <2>7 DEF S!OneTypes, S!Acts, S!Typing
    <3>2. ~queued => \A o \in Send : o # s => stage[o] \notin S!Typing BY <2>2, <2>7 DEF S!OneTypes
    <3>3. \A o \in Send : o # s => stage'[o] \notin {"clear", "paste", "enter"} BY <3>1, <3>2, <2>1 DEF S!Typing
    <3>4. \A o \in Send : stage'[o] \in S!Typing =>
             IF queued THEN /\ mcp /\ S!Contains(list, o) /\ (Head(list) # o => stage'[o] = "probe")
                       ELSE \A p \in Send : stage'[p] \in S!Typing => p = o
      BY <3>1, <3>2, <2>1, <2>2, <2>7 DEF S!OneTypes
    <3>5. next = "enter" => line = <<>> BY <1>g, <2>7 DEF S!OneTypes
    <3>6. next = "enter" => line' = <<s>> BY <3>5, <1>g
    <3>7. next = "paste" => line' = <<>> BY <1>g
    <3>8. \A o \in Send : (stage'[o] = "paste" => line' = <<>>) /\ (stage'[o] = "enter" => line' = <<o>>)
      BY <3>3, <3>6, <3>7, <2>1
    <3> QED BY <3>4, <3>8, <2>u, <2>7 DEF S!OneTypes
  <2>8. S!ShownInv' BY <2>1, <2>2, <2>u DEF S!ShownInv, S!OutcomeShown
  <2>9. S!Alone' => S!Alone BY <2>u DEF S!Alone
  <2> QED BY <1>0, <2>4, <2>5, <2>6, <2>7, <2>8, <2>9 DEF S!SlashInv
<1>1. ASSUME NEW s \in Send, S!handleCliSend(s) PROVE S!SlashInv' /\ S!ShownInv'
  <2>1. PICK x \in {"over", "row", "probe"} :
          /\ stage' = [stage EXCEPT ![s] = x]
          /\ x = "over" => told' = [told EXCEPT ![s] = @ \cup {"refused"}] /\ queue' = queue
          /\ x = "row" => queued /\ told' = [told EXCEPT ![s] = @ \cup {"queued"}] /\ queue' = Append(queue, s)
          /\ x = "probe" => ~queued /\ told' = told /\ queue' = queue
    BY <1>1 DEF S!handleCliSend, S!Tell
  <2>2. stage' \in [Send -> S!Stages] /\ stage[s] = "idle" /\ \A o \in Send : stage'[o] = IF o = s THEN x ELSE stage[o]
    BY <2>1, <1>1, <1>t DEF S!handleCliSend, S!Stages, S!Typing
  <2>3. told' \in [Send -> SUBSET S!Told] /\ \A o \in Send : told[o] \subseteq told'[o] BY <2>1, <1>t DEF S!Told
  <2>4. x = "over" => "refused" \in told'[s] BY <2>1, <1>t
  <2>5. /\ queue' \in Seq(Send)
        /\ \A i \in DOMAIN queue' : (queue'[i] = s /\ x = "row") \/ (i \in DOMAIN queue /\ queue'[i] = queue[i])
        /\ \A i, j \in DOMAIN queue' : queue'[i] = queue'[j] => i = j
    <3>1. CASE x = "row"
      <4>1. queue' = Append(queue, s) BY <3>1, <2>1
      <4>2. \A i \in DOMAIN queue : queue[i] # s BY <2>2, <1>0 DEF S!PlacesKept
      <4>3. \A i, j \in DOMAIN queue : queue[i] = queue[j] => i = j BY <1>0 DEF S!PlacesKept
      <4> QED BY <4>1, <4>2, <4>3, <3>1, <1>t, Appended
    <3>2. CASE x # "row" BY <3>2, <2>1, <1>t, <1>0 DEF S!PlacesKept
    <3> QED BY <3>1, <3>2
  <2>u. UNCHANGED <<queued, env, pane, turn, busy, line, ran, mcp, alive, transit, list, acks, acked, watch, forgot, chip>>
    BY <1>1 DEF S!handleCliSend
  <2>6. S!SlTypeOK' BY <1>0, <2>2, <2>3, <2>5, <2>u DEF S!SlTypeOK
  <2>7. S!PlacesKept'
    <3>1. \A i \in DOMAIN queue' : stage'[queue'[i]] = "row" BY <2>2, <2>5, <1>l, <1>0 DEF S!PlacesKept
    <3>2. \A i \in DOMAIN list : stage'[list[i]] \in S!Typing BY <2>2, <1>l, <1>0 DEF S!PlacesKept, S!Typing
    <3>3. transit # None => \A i \in DOMAIN transit : stage'[transit[i]] = "drained" BY <2>2, <1>l, <1>0 DEF S!PlacesKept
    <3>4. ~queued => queue' = <<>> BY <2>1, <1>0 DEF S!PlacesKept
    <3> QED BY <3>1, <3>2, <3>3, <3>4, <2>5, <2>u, <1>0 DEF S!PlacesKept
  <2>8. S!LineIsFresh'
    <3>1. \A i \in DOMAIN line : stage'[line[i]] = stage[line[i]] BY <2>2, <1>l, <1>0 DEF S!LineIsFresh
    <3>2. ran[s] = 0 BY <2>2, <1>0 DEF S!LineIsFresh
    <3> QED BY <3>1, <3>2, <2>2, <2>u, <1>0 DEF S!LineIsFresh
  <2>9. ASSUME S!Alone, S!OneTypes PROVE S!OneTypes'
    <3>1. queued => x # "probe" BY <2>1
    <3>2. x = "probe" => \A o \in Send : stage[o] \notin S!Typing BY <2>1, <2>9, <1>1 DEF S!handleCliSend, S!MaySend, S!Alone
    <3>3. \A o \in Send : stage'[o] \in S!Typing =>
             IF queued THEN /\ mcp /\ S!Contains(list, o) /\ (Head(list) # o => stage'[o] = "probe")
                       ELSE \A p \in Send : stage'[p] \in S!Typing => p = o
      BY <3>1, <3>2, <2>2, <2>9 DEF S!OneTypes, S!Typing
    <3>4. \A o \in Send : stage'[o] \in {"paste", "enter"} => stage'[o] = stage[o] BY <2>2
    <3> QED BY <3>3, <3>4, <2>u, <2>9 DEF S!OneTypes
  <2>10. S!ShownInv'
    <3>1. x # "drained" /\ (x \in S!Typing => ~queued) BY <2>1 DEF S!Typing
    <3>2. S!OutcomeShown' BY <3>1, <2>2, <2>3, <2>4, <2>u DEF S!ShownInv, S!OutcomeShown, S!Typing
    <3> QED BY <3>2, <2>3, <2>u, <1>0 DEF S!ShownInv, S!SlTypeOK
  <2>11. S!Alone' => S!Alone BY <2>u DEF S!Alone
  <2> QED BY <1>0, <2>6, <2>7, <2>8, <2>9, <2>10, <2>11 DEF S!SlashInv
<1>3. ASSUME NEW s \in Send, S!probePane(s) PROVE S!SlashInv' /\ S!ShownInv'
  <2>1. CASE pane # "claude"
    <3>1. S!Finish(s, FALSE) /\ ~S!Alone BY <2>1, <1>3, <1>0 DEF S!probePane, S!OneTypes
    <3> QED BY <3>1, <1>3, <1>f DEF S!probePane
  <2>2. CASE pane = "claude"
    <3>1. S!Goes(s, "clear") /\ line' = line /\ ran' = ran BY <2>2, <1>3 DEF S!probePane
    <3> QED BY <3>1, <1>3, <1>g DEF S!probePane
  <2> QED BY <2>1, <2>2
<1>4. ASSUME NEW s \in Send, S!clear(s) PROVE S!SlashInv' /\ S!ShownInv'
  <2>1. CASE pane = "gone"
    <3>1. S!Finish(s, FALSE) /\ ~S!Alone BY <2>1, <1>4, <1>0 DEF S!clear, S!OneTypes
    <3> QED BY <3>1, <2>1, <1>4, <1>f DEF S!clear
  <2>2. CASE pane # "gone"
    <3>1. S!Goes(s, "paste") /\ line' = <<>> BY <2>2, <1>4 DEF S!clear
    <3> QED BY <3>1, <1>4, <1>g DEF S!clear
  <2> QED BY <2>1, <2>2
<1>5. ASSUME NEW s \in Send, S!paste(s) PROVE S!SlashInv' /\ S!ShownInv'
  <2>1. CASE pane = "gone"
    <3>1. S!Finish(s, FALSE) /\ ~S!Alone BY <2>1, <1>5, <1>0 DEF S!paste, S!OneTypes
    <3> QED BY <3>1, <2>1, <1>5, <1>f DEF S!paste
  <2>2. CASE pane # "gone"
    <3>1. S!Goes(s, "enter") /\ line' = Append(line, s) BY <2>2, <1>5 DEF S!paste
    <3> QED BY <3>1, <1>5, <1>g DEF S!paste
  <2> QED BY <2>1, <2>2
<1>6. ASSUME NEW s \in Send, S!enter(s) PROVE S!SlashInv' /\ S!ShownInv'
  <2>1. CASE pane = "gone"
    <3>1. S!Finish(s, FALSE) /\ ~S!Alone BY <2>1, <1>6, <1>0 DEF S!enter, S!OneTypes
    <3> QED BY <3>1, <2>1, <1>6, <1>f DEF S!enter
  <2>2. CASE pane # "gone" BY <2>2, <1>6, <1>f DEF S!enter
  <2> QED BY <2>1, <2>2
<1>2. ASSUME NEW s \in Send, S!watchCliInjectAck(s) PROVE S!SlashInv' /\ S!ShownInv'
  <2>u. UNCHANGED <<queued, env, stage, pane, turn, busy, line, ran, mcp, alive, queue, transit, list, acks, acked, forgot, chip>>
    BY <1>2 DEF S!watchCliInjectAck
  <2>1. told' \in [Send -> SUBSET S!Told] /\ \A o \in Send : told[o] \subseteq told'[o] BY <1>2, <1>t DEF S!watchCliInjectAck, S!Tell, S!Told
  <2>2. watch' = watch \ {s} /\ (s \notin acked => "no_ack" \in told'[s]) BY <1>2, <1>t DEF S!watchCliInjectAck, S!Tell
  <2>3. S!SlTypeOK' BY <2>u, <2>1, <2>2, <1>0 DEF S!SlTypeOK
  <2>4. S!PlacesKept' /\ S!LineIsFresh' /\ (S!OneTypes => S!OneTypes') /\ (S!Alone' => S!Alone)
    BY <2>u, <1>0 DEF S!PlacesKept, S!LineIsFresh, S!OneTypes, S!Alone
  <2>5. \A o \in Send : queued /\ stage[o] \in {"drained", "over"} \cup S!Typing =>
          o \in chip \cup watch' \cup forgot \/ told'[o] \cap {"refused", "failed", "no_ack"} # {}
    <3> TAKE o \in Send
    <3>1. CASE o = s BY <3>1, <2>1, <2>2 DEF S!ShownInv
    <3>2. CASE o # s BY <3>2, <2>1, <2>2 DEF S!ShownInv, S!OutcomeShown
    <3> QED BY <3>1, <3>2
  <2>6. S!ShownInv' BY <2>5, <2>1, <2>u, <1>0 DEF S!ShownInv, S!OutcomeShown, S!SlTypeOK
  <2> QED BY <2>3, <2>4, <2>6, <1>0 DEF S!SlashInv
<1>7. ASSUME NEW a \in S!Ack, S!handleCliInjectAcked(a) PROVE S!SlashInv' /\ S!ShownInv'
  <2>u. UNCHANGED <<queued, env, stage, pane, turn, busy, line, ran, mcp, alive, queue, transit, list, forgot>>
    BY <1>7 DEF S!handleCliInjectAcked
  <2>s. a.send \in Send /\ a.ok \in BOOLEAN BY DEF S!Ack
  <2>1. told' \in [Send -> SUBSET S!Told] /\ \A o \in Send : told[o] \subseteq told'[o]
    BY <1>7, <1>t, <2>s DEF S!handleCliInjectAcked, S!Tell, S!Told
  <2>2. a \in acks /\ acks' = acks \ {a} /\ acked' = acked \cup {a.send} /\ watch' = watch \ {a.send} BY <1>7 DEF S!handleCliInjectAcked
  <2>3. IF a.ok THEN chip' = chip \cup {a.send} ELSE chip' = chip /\ "failed" \in told'[a.send]
    BY <1>7, <1>t, <2>s DEF S!handleCliInjectAcked, S!Tell
  <2>4. S!SlTypeOK' BY <2>u, <2>s, <2>1, <2>2, <2>3, <1>0 DEF S!SlTypeOK
  <2>5. S!PlacesKept' /\ S!LineIsFresh' /\ (S!Alone' => S!Alone) BY <2>u, <1>0 DEF S!PlacesKept, S!LineIsFresh, S!Alone
  <2>6. ASSUME S!OneTypes PROVE S!OneTypes'
    <3>1. \A o \in chip' : ran[o] = 1 BY <2>6, <2>2, <2>3 DEF S!OneTypes
    <3>2. \A b \in acks' : b.ok => ran[b.send] = 1 BY <2>6, <2>2 DEF S!OneTypes
    <3> QED BY <3>1, <3>2, <2>6, <2>u DEF S!OneTypes
  <2>7. \A o \in Send : queued /\ stage[o] \in {"drained", "over"} \cup S!Typing =>
          o \in chip' \cup watch' \cup forgot \/ told'[o] \cap {"refused", "failed", "no_ack"} # {}
    <3> TAKE o \in Send
    <3>1. CASE o = a.send BY <3>1, <2>3
    <3>2. CASE o # a.send BY <3>2, <2>1, <2>2, <2>3 DEF S!ShownInv, S!OutcomeShown
    <3> QED BY <3>1, <3>2
  <2>8. queued => \A o \in acked' : o \in chip' \/ "failed" \in told'[o]
    <3>1. \A o \in acked : o \in Send BY <1>0 DEF S!SlTypeOK
    <3> QED BY <3>1, <2>1, <2>2, <2>3 DEF S!ShownInv
  <2> QED BY <2>4, <2>5, <2>6, <2>7, <2>8, <2>u, <1>0 DEF S!SlashInv, S!ShownInv, S!OutcomeShown
<1>8. ASSUME NEW a \in S!Ack, S!ackLost(a) PROVE S!SlashInv' /\ S!ShownInv'
  BY <1>0, <1>8 DEF S!ackLost, S!SlashInv, S!Alone, S!SlTypeOK, S!PlacesKept, S!LineIsFresh, S!OneTypes, S!ShownInv, S!OutcomeShown
<1>9. ASSUME S!handlePollMessages PROVE S!SlashInv' /\ S!ShownInv'
  <2>u. UNCHANGED <<queued, env, pane, turn, busy, line, ran, mcp, alive, list, acks, acked, forgot, chip, told>>
    BY <1>9 DEF S!handlePollMessages
  <2>1. /\ mcp /\ transit = None /\ list = <<>> /\ queue # <<>> /\ queue' = <<>> /\ transit' = queue
        /\ watch' = watch \cup S!ToSet(queue)
    BY <1>9 DEF S!handlePollMessages, S!Watching
  <2>2. /\ stage' \in [Send -> S!Stages]
        /\ \A o \in Send : stage'[o] = IF \E i \in DOMAIN queue : queue[i] = o THEN "drained" ELSE stage[o]
    <3>1. DOMAIN queue = 1 .. Len(queue) BY <1>t, LenProperties
    <3> QED BY <3>1, <1>9, <1>t DEF S!handlePollMessages, S!Contains, S!Stages
  <2>3. \A i \in DOMAIN queue : stage[queue[i]] = "row" BY <1>0 DEF S!PlacesKept
  <2>4. \A o \in Send : stage[o] # "row" => stage'[o] = stage[o] BY <2>2, <2>3
  <2>5. \A o \in Send : stage'[o] # stage[o] => stage[o] = "row" /\ stage'[o] = "drained" /\ o \in watch'
    <3>1. \A o \in Send : (\E i \in DOMAIN queue : queue[i] = o) => o \in watch' BY <2>1 DEF S!ToSet
    <3> QED BY <3>1, <2>2, <2>3
  <2>6. watch' \subseteq Send BY <2>1, <1>l, <1>0 DEF S!ToSet, S!SlTypeOK
  <2>7. S!SlTypeOK'
    <3>1. queue' \in Seq(Send) /\ transit' \in Seq(Send) BY <2>1, <1>t
    <3> QED BY <3>1, <2>u, <2>2, <2>6, <1>0 DEF S!SlTypeOK
  <2>8. S!PlacesKept'
    <3>1. \A i \in DOMAIN transit' : stage'[transit'[i]] = "drained" BY <2>1, <2>2, <1>l
    <3>2. \A i, j \in DOMAIN transit' : transit'[i] = transit'[j] => i = j BY <2>1, <1>0 DEF S!PlacesKept
    <3>3. queued BY <2>1, <1>0 DEF S!PlacesKept
    <3>4. transit' \in Seq(Send) BY <2>1, <1>t
    <3> QED BY <3>1, <3>2, <3>3, <3>4, <2>1, <2>u DEF S!PlacesKept
  <2>9. S!LineIsFresh' /\ (S!OneTypes => S!OneTypes') /\ (S!Alone' => S!Alone)
    <3>1. S!LineIsFresh' BY <2>4, <2>5, <2>u, <1>l, <1>0 DEF S!LineIsFresh
    <3>2. \A o \in Send : stage'[o] \in S!Typing <=> stage[o] \in S!Typing BY <2>5 DEF S!Typing
    <3>3. \A o \in Send : stage'[o] \in {"probe", "paste", "enter"} \/ stage'[o] \in S!Typing => stage'[o] = stage[o] BY <2>5 DEF S!Typing
    <3> QED BY <3>1, <3>2, <3>3, <2>u DEF S!OneTypes, S!Alone
  <2>10. S!ShownInv' BY <2>1, <2>4, <2>5, <2>u DEF S!ShownInv, S!OutcomeShown
  <2> QED BY <2>7, <2>8, <2>9, <2>10, <1>0 DEF S!SlashInv
<1>10. ASSUME S!pollAnswered PROVE S!SlashInv' /\ S!ShownInv'
  <2>u. UNCHANGED <<queued, env, pane, turn, busy, line, ran, mcp, alive, queue, acks, acked, watch, forgot, chip, told>>
    BY <1>10 DEF S!pollAnswered
  <2>1. transit # None /\ mcp /\ list' = transit /\ transit' = None /\ transit \in Seq(Send) /\ list = <<>> /\ queued
    BY <1>10, <1>0, <1>t DEF S!pollAnswered, S!PlacesKept
  <2>2. /\ stage' \in [Send -> S!Stages]
        /\ \A o \in Send : stage'[o] = IF \E i \in DOMAIN transit : transit[i] = o THEN "probe" ELSE stage[o]
    <3>1. DOMAIN transit = 1 .. Len(transit) BY <2>1, LenProperties
    <3> QED BY <3>1, <1>10, <1>t DEF S!pollAnswered, S!Contains, S!Stages, S!Typing
  <2>3. \A i \in DOMAIN transit : stage[transit[i]] = "drained" BY <2>1, <1>0 DEF S!PlacesKept
  <2>4. \A o \in Send : stage'[o] # stage[o] => stage[o] = "drained" /\ stage'[o] = "probe" /\ S!Contains(list', o)
    <3>1. DOMAIN transit = 1 .. Len(transit) BY <2>1, LenProperties
    <3> QED BY <3>1, <2>1, <2>2, <2>3 DEF S!Contains
  <2>5. S!SlTypeOK' BY <2>1, <2>2, <2>u, <1>0 DEF S!SlTypeOK
  <2>6. S!PlacesKept'
    <3>1. \A i \in DOMAIN list' : stage'[list'[i]] = "probe" BY <2>1, <2>2, <1>l
    <3>2. \A i, j \in DOMAIN list' : list'[i] = list'[j] => i = j BY <2>1, <1>0 DEF S!PlacesKept
    <3>3. \A i \in DOMAIN queue : stage'[queue[i]] = "row" BY <2>4, <1>l, <1>0 DEF S!PlacesKept
    <3> QED BY <3>1, <3>2, <3>3, <2>1, <2>u, <1>0 DEF S!PlacesKept, S!Typing
  <2>7. S!LineIsFresh'
    <3>1. \A i \in DOMAIN line : stage'[line[i]] = stage[line[i]] BY <2>4, <1>l, <1>0 DEF S!LineIsFresh
    <3> QED BY <3>1, <2>4, <2>u, <1>0 DEF S!LineIsFresh
  <2>8. ASSUME S!OneTypes PROVE S!OneTypes'
    <3>1. \A o \in Send : stage[o] \notin S!Typing
      <4>1. \A o : ~S!Contains(list, o) BY <2>1, EmptySeq, LenProperties DEF S!Contains
      <4> QED BY <4>1, <2>1, <2>8 DEF S!OneTypes
    <3>2. \A o \in Send : stage'[o] \in S!Typing => S!Contains(list', o) /\ stage'[o] = "probe" BY <3>1, <2>4
    <3>3. \A o \in Send : stage'[o] \notin {"paste", "enter"} BY <3>2 DEF S!Typing
    <3> QED BY <3>2, <3>3, <2>1, <2>8, <2>u DEF S!OneTypes
  <2>9. S!Alone' => S!Alone BY <2>u DEF S!Alone
  <2>10. S!ShownInv' BY <2>4, <2>u DEF S!ShownInv, S!OutcomeShown, S!Typing
  <2> QED BY <2>5, <2>6, <2>7, <2>8, <2>9, <2>10, <1>0 DEF S!SlashInv
<1>11. ASSUME S!pollLost PROVE S!SlashInv' /\ S!ShownInv'
  BY <1>0, <1>11 DEF S!pollLost, S!SlashInv, S!Alone, S!SlTypeOK, S!PlacesKept, S!LineIsFresh, S!OneTypes, S!ShownInv, S!OutcomeShown
<1>12. ASSUME S!turns PROVE S!SlashInv' /\ S!ShownInv'
  <2>1. turn' \in BOOLEAN BY <1>12 DEF S!turns
  <2>2. ~S!Alone' BY <1>12 DEF S!turns, S!Alone
  <2> QED BY <1>0, <1>12, <2>1, <2>2 DEF S!turns, S!SlashInv, S!SlTypeOK, S!PlacesKept, S!LineIsFresh, S!ShownInv, S!OutcomeShown
<1>13. ASSUME S!reportActivity PROVE S!SlashInv' /\ S!ShownInv'
  <2>1. busy' \in BOOLEAN BY <1>0, <1>13 DEF S!reportActivity, S!SlTypeOK
  <2> QED BY <1>0, <1>13, <2>1 DEF S!reportActivity, S!SlashInv, S!Alone, S!SlTypeOK, S!PlacesKept, S!LineIsFresh, S!OneTypes, S!ShownInv, S!OutcomeShown
<1>14. ASSUME S!exits PROVE S!SlashInv' /\ S!ShownInv'
  <2>u. UNCHANGED <<queued, env, turn, busy, ran, alive, queue, transit, acks, acked, watch, forgot, chip, told>>
    BY <1>14 DEF S!exits
  <2>1. /\ mcp' = FALSE /\ list' = <<>> /\ pane' \in {"claude", "shell", "gone"}
        /\ (S!Alone => pane' = pane /\ line' = line) /\ (line' = line \/ line' = <<>>)
    BY <1>14, <1>0 DEF S!exits, S!Alone, S!SlTypeOK
  <2>2. /\ stage' \in [Send -> S!Stages]
        /\ \A o \in Send : stage'[o] = IF S!Contains(list, o) THEN "over" ELSE stage[o]
    BY <1>14, <1>t DEF S!exits, S!Stages
  <2>3. \A o \in Send : S!Contains(list, o) => stage[o] \in S!Typing /\ queued
    <3>1. DOMAIN list = 1 .. Len(list) BY <1>t, LenProperties
    <3>2. list = <<>> => ~\E i \in 1 .. Len(list) : TRUE BY <3>1
    <3> QED BY <3>1, <3>2, <1>0 DEF S!Contains, S!PlacesKept
  <2>e. <<>> \in Seq(Send) BY EmptySeq
  <2>4. line' \in Seq(Send) /\ (\A i \in DOMAIN line' : line' = line)
    <3>1. CASE line' = line BY <3>1, <1>t
    <3>2. CASE line' = <<>> BY <3>2, <2>e
    <3> QED BY <3>1, <3>2, <2>1
  <2>5. S!SlTypeOK'
    <3>1. list' \in Seq(Send) BY <2>1
    <3> QED BY <3>1, <2>1, <2>2, <2>4, <2>u, <1>0 DEF S!SlTypeOK
  <2>6. S!PlacesKept'
    <3>1. \A i \in DOMAIN queue : stage'[queue[i]] = "row" BY <2>2, <2>3, <1>l, <1>0 DEF S!PlacesKept, S!Typing
    <3>2. transit # None => \A i \in DOMAIN transit : stage'[transit[i]] = "drained" BY <2>2, <2>3, <1>l, <1>0 DEF S!PlacesKept, S!Typing
    <3> QED BY <3>1, <3>2, <2>1, <2>u, <1>0 DEF S!PlacesKept
  <2>7. S!LineIsFresh'
    <3>1. \A o \in Send : stage[o] \in {"enter", "over"} => stage'[o] \in {"enter", "over"} BY <2>2
    <3> QED BY <3>1, <2>4, <2>u, <1>l, <1>0 DEF S!LineIsFresh
  <2>8. ASSUME S!Alone, S!OneTypes PROVE S!OneTypes'
    <3>1. \A o \in Send : stage'[o] \in S!Typing => ~queued /\ stage'[o] = stage[o] BY <2>2, <2>8 DEF S!OneTypes, S!Typing
    <3>2. \A o \in Send : stage'[o] \in {"paste", "enter"} => stage'[o] = stage[o] BY <2>2
    <3> QED BY <3>1, <3>2, <2>1, <2>8, <2>u DEF S!OneTypes
  <2>9. S!Alone' => S!Alone BY <2>u DEF S!Alone
  <2>10. S!ShownInv' BY <2>2, <2>3, <2>u DEF S!ShownInv, S!OutcomeShown
  <2> QED BY <2>5, <2>6, <2>7, <2>8, <2>9, <2>10, <1>0 DEF S!SlashInv
<1>15. ASSUME S!cleanStaleSessions PROVE S!SlashInv' /\ S!ShownInv'
  BY <1>0, <1>15 DEF S!cleanStaleSessions, S!SlashInv, S!Alone, S!SlTypeOK, S!PlacesKept, S!LineIsFresh, S!OneTypes, S!ShownInv, S!OutcomeShown
<1>16. ASSUME S!brokerRestart PROVE S!SlashInv' /\ S!ShownInv'
  <2> DEFINE cut == {s \in Send : ~queued /\ stage[s] \in S!Typing}
  <2>u. UNCHANGED <<queued, env, pane, turn, busy, line, ran, mcp, alive, queue, transit, list, acks, acked, chip>>
    BY <1>16 DEF S!brokerRestart
  <2>1. forgot = {} /\ forgot' = watch \cup cut /\ watch' = {} BY <1>16 DEF S!brokerRestart
  <2>2. /\ stage' \in [Send -> S!Stages] /\ told' \in [Send -> SUBSET S!Told]
        /\ \A o \in Send : stage'[o] = IF o \in cut THEN "over" ELSE stage[o]
        /\ \A o \in Send : told[o] \subseteq told'[o]
    BY <1>16, <1>t DEF S!brokerRestart, S!Stages, S!Told
  <2>3. S!SlTypeOK' BY <2>1, <2>2, <2>u, <1>0 DEF S!SlTypeOK
  <2>4. S!PlacesKept'
    <3>1. \A i \in DOMAIN queue : stage'[queue[i]] = "row" BY <2>2, <1>l, <1>0 DEF S!PlacesKept, S!Typing
    <3>2. transit # None => \A i \in DOMAIN transit : stage'[transit[i]] = "drained" BY <2>2, <1>l, <1>0 DEF S!PlacesKept, S!Typing
    <3>3. \A i \in DOMAIN list : stage'[list[i]] \in S!Typing BY <2>2, <1>l, <1>0 DEF S!PlacesKept
    <3> QED BY <3>1, <3>2, <3>3, <2>u, <1>0 DEF S!PlacesKept
  <2>5. S!LineIsFresh'
    <3>1. \A o \in Send : stage[o] \in {"enter", "over"} => stage'[o] \in {"enter", "over"} BY <2>2
    <3> QED BY <3>1, <2>u, <1>l, <2>2, <1>0 DEF S!LineIsFresh
  <2>6. ASSUME S!OneTypes PROVE S!OneTypes'
    <3>1. \A o \in Send : stage'[o] \in S!Typing => queued /\ stage'[o] = stage[o] BY <2>2 DEF S!Typing
    <3>2. \A o \in Send : stage'[o] \in {"paste", "enter"} => stage'[o] = stage[o] BY <2>2
    <3> QED BY <3>1, <3>2, <2>u, <2>6 DEF S!OneTypes
  <2>7. S!Alone' => S!Alone BY <2>u DEF S!Alone
  <2>8. queued => cut = {} OBVIOUS
  <2>9. S!ShownInv'
    <3>1. queued => \A o \in Send : stage'[o] = stage[o] BY <2>8, <2>2
    <3>2. acked \subseteq Send BY <1>0 DEF S!SlTypeOK
    <3> QED BY <3>1, <3>2, <2>1, <2>2, <2>u DEF S!ShownInv, S!OutcomeShown
  <2> QED BY <2>3, <2>4, <2>5, <2>6, <2>7, <2>9, <1>0 DEF S!SlashInv
<1> QED BY <1>1, <1>2, <1>3, <1>4, <1>5, <1>6, <1>7, <1>8, <1>9, <1>10, <1>11, <1>12, <1>13, <1>14, <1>15, <1>16 DEF S!Next

LEMMA SlashShows == ASSUME S!SlashInv, S!ShownInv PROVE S!ChipMeansRun /\ S!OutcomeShown
BY DEF S!SlashInv, S!ShownInv, S!SlTypeOK, S!LineIsFresh, S!OneTypes, S!ChipMeansRun

LEMMA SlashKept ==
  ASSUME SlashConstants, part = "slash" => S!SlashInv /\ S!ShownInv,
         [PageNext]_<<part, slots>>, part' = "slash"
  PROVE  S!SlashInv' /\ S!ShownInv'
<1>1. CASE PageNext BY <1>1, SlashStep DEF PageNext
<1>2. CASE UNCHANGED <<part, slots>>
  <2>1. S!SlashInv /\ S!ShownInv /\ UNCHANGED slots BY <1>2
  <2>2. S!SlTypeOK' BY <2>1 DEF slots, S!SlashInv, S!SlTypeOK
  <2>3. S!PlacesKept' /\ S!LineIsFresh' BY <2>1 DEF slots, S!SlashInv, S!PlacesKept, S!LineIsFresh
  <2>4. S!Alone' => S!OneTypes' BY <2>1 DEF slots, S!SlashInv, S!OneTypes, S!Alone, S!Contains
  <2>5. S!ShownInv' BY <2>1 DEF slots, S!ShownInv, S!OutcomeShown
  <2> QED BY <2>2, <2>3, <2>4, <2>5 DEF S!SlashInv
<1> QED BY <1>1, <1>2

\* No slash command runs twice; and as long as Claude Code neither exits nor
\* starts a turn while one is typed (and, without a queue, no two are), the note on the default board names
\* a command that did run (sendToPane, handleCliSend, handleCliInjectAck).
THEOREM CommandsRunOnce ==
  ASSUME SlashConstants
  PROVE  PageSpec => []ChipMeansRun
<1> DEFINE Inv == part = "slash" => S!SlashInv /\ S!ShownInv
<1>1. PageInit => Inv BY SlashStarts DEF PageInit
<1>2. Inv /\ [PageNext]_<<part, slots>> => Inv' BY SlashKept
<1>3. Inv => ChipMeansRun BY SlashShows DEF ChipMeansRun
<1> QED BY <1>1, <1>2, <1>3, PTL DEF PageSpec

\* Once a queued command was handed over, the user hears how it went, whoever
\* exits or restarts (the acknowledgement, or the timer that runs until then).
THEOREM OutcomeReachesUser ==
  ASSUME SlashConstants
  PROVE  PageSpec => []OutcomeShown
<1> DEFINE Inv == part = "slash" => S!SlashInv /\ S!ShownInv
<1>1. PageInit => Inv BY SlashStarts DEF PageInit
<1>2. Inv /\ [PageNext]_<<part, slots>> => Inv' BY SlashKept
<1>3. Inv => OutcomeShown BY SlashShows DEF OutcomeShown
<1> QED BY <1>1, <1>2, <1>3, PTL DEF PageSpec

-----------------------------------------------------------------------------
(* Unread *)

UnreadConstants ==
  /\ Kinds \subseteq {"thread", "checklist"} /\ Overtake \in BOOLEAN
  /\ Dwell \in Nat \ {0} /\ MaxPosts \in Nat /\ MaxLooks \in Nat /\ MaxMarks \in Nat

LEMMA UnreadCount ==
  ASSUME NEW n \in Nat, NEW X \in SUBSET (1 .. n)
  PROVE  Cardinality(X) \in 0 .. n
<1>1. IsFiniteSet(1 .. n) /\ Cardinality(1 .. n) = n BY FS_Interval
<1>2. Cardinality(X) =< n /\ IsFiniteSet(X) BY <1>1, FS_Subset
<1>3. Cardinality(X) \in Nat BY <1>2, FS_CardinalityType
<1> QED BY <1>2, <1>3

LEMMA UnreadStarts == ASSUME UnreadConstants, R!Init PROVE R!UnreadInv
<1> USE DEF UnreadConstants, R!Init
<1>1. Cardinality(R!Unread(R!Server)) = 0
  <2>1. R!Unread(R!Server) = {} BY DEF R!Unread, R!Server
  <2> QED BY <2>1, FS_EmptySet
<1>2. R!UnreadTypeOK
  <2>1. view \in R!View BY DEF R!View
  <2>2. asks \in Seq(R!View) /\ lists \in Seq(0 .. MaxPosts) BY EmptySeq
  <2>3. changes = 0 /\ read = {} /\ marks = {} /\ seen = {} /\ swept = {} /\ count = 0 /\ dwell = 0 OBVIOUS
  <2>4. looked \in [R!Change -> 0 .. Dwell] /\ bounds \in [looks : 0 .. MaxLooks, marks : 0 .. MaxMarks] OBVIOUS
  <2>5. kind \in Kinds /\ news = FALSE /\ onScreen = FALSE /\ confirm = FALSE /\ nudge = FALSE OBVIOUS
  <2>6. 0 \in 0 .. MaxPosts /\ 0 \in 0 .. Dwell OBVIOUS
  <2> HIDE DEF R!Init
  <2> QED BY <2>1, <2>2, <2>3, <2>4, <2>5, <2>6 DEF R!UnreadTypeOK
<1>3. R!Unread(view) = {} /\ asks = <<>> BY DEF R!Unread
<1> QED BY <1>1, <1>2, <1>3, CountsAgree DEF R!UnreadInv, R!ViewsBehind, R!DwellIsLooked, R!MarksWereShown, R!ReadWasShown, R!SidebarFollows

LEMMA UnreadStep == ASSUME UnreadConstants, R!UnreadInv, R!Next PROVE R!UnreadInv'
<1> USE DEF UnreadConstants, R!broker, R!reading, R!sidebar, R!page
<1>0. /\ R!UnreadTypeOK /\ R!ViewsBehind /\ R!DwellIsLooked /\ R!MarksWereShown /\ R!ReadWasShown /\ R!SidebarFollows
  BY DEF R!UnreadInv
<1>t. /\ kind \in {"thread", "checklist"} /\ changes \in 0 .. MaxPosts /\ changes \in Nat
      /\ read \subseteq 1 .. changes /\ view \in R!View /\ asks \in Seq(R!View) /\ lists \in Seq(0 .. MaxPosts)
      /\ dwell \in 0 .. Dwell /\ looked \in [R!Change -> 0 .. Dwell] /\ marks \subseteq SUBSET R!Change
      /\ seen \subseteq R!Change /\ swept \subseteq R!Change /\ bounds \in [looks : 0 .. MaxLooks, marks : 0 .. MaxMarks]
      /\ Kinds \subseteq {"thread", "checklist"}
  BY <1>0 DEF R!UnreadTypeOK
<1>v. view.held \in 0 .. MaxPosts /\ view.held \in Nat /\ view.read \subseteq R!Change BY <1>t DEF R!View
<1>h. view.held =< changes BY <1>0 DEF R!ViewsBehind
<1>c. 1 .. changes \subseteq R!Change /\ 1 .. view.held \subseteq 1 .. changes BY <1>t, <1>v, <1>h DEF R!Change
<1>s. R!Server \in R!View /\ R!Server.held = changes BY <1>t, <1>c DEF R!Server, R!View
<1>n. Cardinality(R!Unread(R!Server)) \in 0 .. MaxPosts
  <2>1. R!Unread(R!Server) \in SUBSET (1 .. MaxPosts) BY <1>t, <1>c DEF R!Unread, R!Server, R!Change
  <2> QED BY <2>1, UnreadCount
\* Spending one of the bounds.
<1>b. R!Spend("looks", MaxLooks) \/ R!Spend("marks", MaxMarks) => bounds' \in [looks : 0 .. MaxLooks, marks : 0 .. MaxMarks]
  <2>1. bounds.looks \in 0 .. MaxLooks /\ bounds.marks \in 0 .. MaxMarks /\ bounds = [looks |-> bounds.looks, marks |-> bounds.marks] BY <1>t
  <2>2. ASSUME R!Spend("looks", MaxLooks) PROVE bounds' \in [looks : 0 .. MaxLooks, marks : 0 .. MaxMarks]
    <3>1. bounds.looks < MaxLooks /\ bounds' = [bounds EXCEPT !["looks"] = bounds.looks + 1] BY <2>2 DEF R!Spend
    <3>2. bounds.looks + 1 \in 0 .. MaxLooks BY <3>1, <2>1
    <3> QED BY <3>1, <3>2, <1>t
  <2>3. ASSUME R!Spend("marks", MaxMarks) PROVE bounds' \in [looks : 0 .. MaxLooks, marks : 0 .. MaxMarks]
    <3>1. bounds.marks < MaxMarks /\ bounds' = [bounds EXCEPT !["marks"] = bounds.marks + 1] BY <2>3 DEF R!Spend
    <3>2. bounds.marks + 1 \in 0 .. MaxMarks BY <3>1, <2>1
    <3> QED BY <3>1, <3>2, <1>t
  <2> QED BY <2>2, <2>3
<1>1. CASE R!handlePost
  <2>u. /\ changes' = changes + 1 /\ changes' \in 0 .. MaxPosts /\ news' = TRUE /\ nudge' = (nudge \/ kind = "thread")
        /\ UNCHANGED <<kind, read, swept, view, asks, onScreen, dwell, looked, seen, marks, confirm, count, lists, bounds>>
    BY <1>1, <1>t DEF R!handlePost, R!Announce
  <2>1. 1 .. changes \subseteq 1 .. changes' BY <2>u, <1>t
  <2>2. nudge' \in BOOLEAN BY <1>0, <2>u DEF R!UnreadTypeOK
  <2>3. R!UnreadTypeOK' BY <2>u, <2>1, <2>2, <1>0, <1>t DEF R!UnreadTypeOK
  <2>4. R!ViewsBehind'
    <3>a. \A i \in DOMAIN asks : asks[i] \in R!View BY <1>t, ElementOfSeq
    <3>1. \A i \in DOMAIN asks : asks[i].held \in Nat BY <3>a DEF R!View
    <3> QED BY <3>1, <2>u, <1>0, <1>t, <1>v DEF R!ViewsBehind
  <2>5. R!DwellIsLooked' BY <2>u, <1>0 DEF R!DwellIsLooked, R!Counted, R!Unread
  <2>6. R!MarksWereShown'
    <3> SUFFICES ASSUME NEW m \in marks
                 PROVE  IF kind = "thread" THEN m \subseteq seen \cap (1 .. changes')
                        ELSE \E h \in 1 .. changes' : m = {h} /\ 1 .. h \subseteq seen
      BY <2>u DEF R!MarksWereShown
    <3> QED BY <2>1, <1>0 DEF R!MarksWereShown
  <2>7. R!ReadWasShown' /\ R!SidebarFollows' BY <2>u, <1>0 DEF R!ReadWasShown, R!SidebarFollows
  <2> QED BY <2>3, <2>4, <2>5, <2>6, <2>7 DEF R!UnreadInv
<1>2. CASE R!handleMarkBoardRead
  <2>u. /\ swept' = swept \cup ((1 .. changes) \ read) /\ read' = 1 .. changes
        /\ confirm' = FALSE /\ news' = TRUE /\ nudge' = (nudge \/ kind = "thread")
        /\ UNCHANGED <<kind, changes, view, asks, onScreen, dwell, looked, seen, marks, count, lists, bounds>>
    BY <1>2 DEF R!handleMarkBoardRead, R!Announce
  <2>2. nudge' \in BOOLEAN BY <1>0, <2>u DEF R!UnreadTypeOK
  <2>3. R!UnreadTypeOK' BY <2>u, <2>2, <1>0, <1>t, <1>c DEF R!UnreadTypeOK
  <2>4. R!ViewsBehind' /\ R!DwellIsLooked' /\ R!MarksWereShown' BY <2>u, <1>0 DEF R!ViewsBehind, R!DwellIsLooked, R!Counted, R!Unread, R!MarksWereShown
  <2>5. R!ReadWasShown' BY <2>u, <1>0 DEF R!ReadWasShown
  <2>6. R!SidebarFollows' BY <2>u, <1>0 DEF R!SidebarFollows
  <2> QED BY <2>3, <2>4, <2>5, <2>6 DEF R!UnreadInv
<1>3. CASE R!fetchView
  <2>u. /\ news' = FALSE /\ asks' = Append(asks, R!Server)
        /\ UNCHANGED <<kind, changes, read, swept, view, onScreen, dwell, looked, seen, marks, confirm, count, lists, nudge, bounds>>
    BY <1>3 DEF R!fetchView
  <2>1. asks' \in Seq(R!View) /\ \A i \in DOMAIN asks' : asks'[i] = R!Server \/ (i \in DOMAIN asks /\ asks'[i] = asks[i])
    <3>1. asks' \in Seq(R!View) /\ Len(asks') = Len(asks) + 1 /\ Len(asks) \in Nat /\ asks'[Len(asks) + 1] = R!Server
          /\ \A i \in 1 .. Len(asks) : asks'[i] = asks[i]
      BY <2>u, <1>t, <1>s, AppendProperties, LenProperties
    <3>2. DOMAIN asks' = 1 .. Len(asks') /\ DOMAIN asks = 1 .. Len(asks) BY <3>1, <1>t, LenProperties
    <3>3. \A i \in DOMAIN asks' : i = Len(asks) + 1 \/ i \in DOMAIN asks BY <3>1, <3>2
    <3> QED BY <3>1, <3>2, <3>3
  <2>3. R!UnreadTypeOK' BY <2>u, <2>1, <1>0 DEF R!UnreadTypeOK
  <2>4. R!ViewsBehind' BY <2>u, <2>1, <1>0, <1>s, <1>t DEF R!ViewsBehind
  <2>5. R!DwellIsLooked' /\ R!MarksWereShown' /\ R!ReadWasShown' BY <2>u, <1>0 DEF R!DwellIsLooked, R!Counted, R!Unread, R!MarksWereShown, R!ReadWasShown
  <2>6. R!SidebarFollows' BY <2>u, <1>0 DEF R!SidebarFollows, R!Unread, R!Server
  <2> QED BY <2>3, <2>4, <2>5, <2>6 DEF R!UnreadInv
<1>4. CASE R!look
  <2>u. /\ onScreen' = ~onScreen /\ dwell' \in {0} \cup ({Dwell} \cap {dwell}) /\ looked' = [c \in R!Change |-> 0]
        /\ UNCHANGED <<kind, changes, read, swept, view, asks, news, seen, marks, confirm, count, lists, nudge>>
    BY <1>4 DEF R!look
  <2>1. bounds' \in [looks : 0 .. MaxLooks, marks : 0 .. MaxMarks] BY <1>4, <1>b, <1>t DEF R!look
  <2>2. onScreen' \in BOOLEAN BY <2>u
  <2>3. R!UnreadTypeOK' BY <2>u, <2>1, <2>2, <1>0 DEF R!UnreadTypeOK
  <2>4. R!DwellIsLooked'
    <3>1. \A c \in R!Counted' : c \in R!Change BY <2>u, <1>v, <1>c, <1>t DEF R!Counted, R!Unread
    <3> QED BY <3>1, <2>u DEF R!DwellIsLooked
  <2>5. R!ViewsBehind' /\ R!MarksWereShown' /\ R!ReadWasShown' BY <2>u, <1>0 DEF R!ViewsBehind, R!MarksWereShown, R!ReadWasShown
  <2>6. R!SidebarFollows' BY <2>u, <1>0 DEF R!SidebarFollows, R!Unread, R!Server
  <2> QED BY <2>3, <2>4, <2>5, <2>6 DEF R!UnreadInv
<1>5. CASE R!tick
  <2>u. /\ onScreen /\ R!Unread(view) # {}
        /\ looked' = [c \in R!Change |-> IF c <= view.held /\ looked[c] < Dwell THEN looked[c] + 1 ELSE looked[c]]
        /\ seen' = seen \cup {c \in R!Change : looked'[c] = Dwell}
        /\ dwell' = IF dwell < Dwell THEN dwell + 1 ELSE Dwell
        /\ marks' = IF dwell = Dwell - 1 THEN marks \cup {R!Dep(view)} ELSE marks
        /\ UNCHANGED <<kind, changes, read, swept, view, asks, news, onScreen, confirm, count, lists, nudge, bounds>>
    BY <1>5 DEF R!tick
  <2>1. R!Counted \subseteq 1 .. view.held /\ R!Counted \subseteq R!Change BY <1>c DEF R!Counted, R!Unread
  <2>2. \A c \in R!Change : looked[c] \in 0 .. Dwell BY <1>t
  <2>3. \A c \in R!Change : looked'[c] \in 0 .. Dwell /\ (c <= view.held /\ looked[c] < Dwell => looked'[c] = looked[c] + 1)
                          /\ (looked[c] = Dwell => looked'[c] = Dwell)
    <3> TAKE c \in R!Change
    <3>1. looked'[c] = IF c <= view.held /\ looked[c] < Dwell THEN looked[c] + 1 ELSE looked[c] BY <2>u
    <3> QED BY <3>1, <2>2
  <2>4. looked' \in [R!Change -> 0 .. Dwell] BY <2>u, <2>3
  <2>5. dwell < Dwell => \A c \in R!Counted : looked'[c] >= dwell + 1
    <3> SUFFICES ASSUME dwell < Dwell, NEW c \in R!Counted PROVE looked'[c] >= dwell + 1 OBVIOUS
    <3>1. looked[c] >= dwell /\ looked[c] \in 0 .. Dwell /\ c <= view.held /\ c \in R!Change
      BY <2>1, <2>2, <2>u, <1>0, <1>v DEF R!DwellIsLooked
    <3>2. CASE looked[c] < Dwell BY <3>1, <3>2, <2>3, <1>t
    <3>3. CASE looked[c] = Dwell BY <3>1, <3>3, <2>3, <1>t
    <3> QED BY <3>1, <3>2, <3>3
  <2>6. dwell' \in 0 .. Dwell /\ (dwell' < Dwell => dwell < Dwell /\ dwell' = dwell + 1) BY <2>u, <1>t
  <2>7. R!DwellIsLooked' BY <2>5, <2>6, <2>u DEF R!DwellIsLooked, R!Counted, R!Unread
  <2>8. dwell = Dwell - 1 => R!Counted \subseteq seen'
    <3> SUFFICES ASSUME dwell = Dwell - 1, NEW c \in R!Counted PROVE c \in seen' OBVIOUS
    <3>1. looked'[c] >= Dwell /\ looked'[c] \in 0 .. Dwell /\ c \in R!Change BY <2>5, <2>3, <2>1, <1>t
    <3> QED BY <3>1, <2>u
  <2>9. seen \subseteq seen' /\ seen' \subseteq R!Change BY <2>u, <1>t
  <2>10. kind = "thread" => R!Dep(view) = R!Unread(view) /\ R!Counted = R!Unread(view) BY DEF R!Dep, R!Counted
  <2>11. kind # "thread" => R!Dep(view) = {view.held} /\ R!Counted = 1 .. view.held /\ view.held \in 1 .. changes
    <3>1. view.held >= 1 BY <2>u, <1>v DEF R!Unread
    <3> QED BY <3>1, <2>u, <1>h, <1>t, <1>v DEF R!Dep, R!Counted
  <2>12. R!Dep(view) \subseteq R!Change BY <2>10, <2>11, <2>1, <1>c, <1>t
  <2>13. R!MarksWereShown'
    <3> SUFFICES ASSUME NEW m \in marks'
                 PROVE  IF kind = "thread" THEN m \subseteq seen' \cap (1 .. changes)
                        ELSE \E h \in 1 .. changes : m = {h} /\ 1 .. h \subseteq seen'
      BY <2>u DEF R!MarksWereShown
    <3>1. CASE m \in marks BY <3>1, <2>9, <1>0 DEF R!MarksWereShown
    <3>2. CASE m \notin marks
      <4>1. dwell = Dwell - 1 /\ m = R!Dep(view) BY <3>2, <2>u
      <4>2. CASE kind = "thread" BY <4>1, <4>2, <2>8, <2>10, <2>1, <1>c
      <4>3. CASE kind # "thread" BY <4>1, <4>3, <2>8, <2>11
      <4> QED BY <4>2, <4>3
    <3> QED BY <3>1, <3>2
  <2>14. marks' \subseteq SUBSET R!Change BY <2>12, <2>u, <1>t
  <2>15. R!UnreadTypeOK' BY <2>u, <2>4, <2>6, <2>9, <2>14, <1>0 DEF R!UnreadTypeOK
  <2>16. R!ViewsBehind' /\ R!ReadWasShown' BY <2>u, <2>9, <1>0 DEF R!ViewsBehind, R!ReadWasShown
  <2>17. R!SidebarFollows' BY <2>u, <1>0 DEF R!SidebarFollows, R!Unread, R!Server
  <2> QED BY <2>7, <2>13, <2>15, <2>16, <2>17 DEF R!UnreadInv
<1>6. CASE R!readDeliberately
  <2>u. /\ R!Unread(view) # {} /\ marks' = marks \cup {R!Dep(view)} /\ seen' = seen \cup 1 .. view.held
        /\ UNCHANGED <<kind, changes, read, swept, view, asks, news, onScreen, dwell, looked, confirm, count, lists, nudge>>
    BY <1>6 DEF R!readDeliberately
  <2>1. bounds' \in [looks : 0 .. MaxLooks, marks : 0 .. MaxMarks] BY <1>6, <1>b DEF R!readDeliberately
  <2>2. kind = "thread" => R!Dep(view) \subseteq 1 .. view.held BY DEF R!Dep, R!Unread
  <2>3. kind # "thread" => R!Dep(view) = {view.held} /\ view.held \in 1 .. changes
    <3>1. view.held >= 1 BY <2>u, <1>v DEF R!Unread
    <3> QED BY <3>1, <2>u, <1>h, <1>t, <1>v DEF R!Dep
  <2>4. R!Dep(view) \subseteq R!Change BY <2>2, <2>3, <1>c
  <2>5. seen \subseteq seen' /\ seen' \subseteq R!Change /\ 1 .. view.held \subseteq seen' BY <2>u, <1>t, <1>c
  <2>6. R!MarksWereShown'
    <3> SUFFICES ASSUME NEW m \in marks'
                 PROVE  IF kind = "thread" THEN m \subseteq seen' \cap (1 .. changes)
                        ELSE \E h \in 1 .. changes : m = {h} /\ 1 .. h \subseteq seen'
      BY <2>u DEF R!MarksWereShown
    <3>1. CASE m \in marks BY <3>1, <2>5, <1>0 DEF R!MarksWereShown
    <3>2. CASE m \notin marks
      <4>1. m = R!Dep(view) BY <3>2, <2>u
      <4>2. CASE kind = "thread" BY <4>1, <4>2, <2>2, <2>5, <1>c
      <4>3. CASE kind # "thread" BY <4>1, <4>3, <2>3, <2>5
      <4> QED BY <4>2, <4>3
    <3> QED BY <3>1, <3>2
  <2>7. R!UnreadTypeOK' BY <2>u, <2>1, <2>4, <2>5, <1>0, <1>t DEF R!UnreadTypeOK
  <2>8. R!ViewsBehind' /\ R!DwellIsLooked' /\ R!ReadWasShown' BY <2>u, <2>5, <1>0 DEF R!ViewsBehind, R!DwellIsLooked, R!Counted, R!Unread, R!ReadWasShown
  <2>9. R!SidebarFollows' BY <2>u, <1>0 DEF R!SidebarFollows, R!Unread, R!Server
  <2> QED BY <2>6, <2>7, <2>8, <2>9 DEF R!UnreadInv
<1>7. CASE R!askMarkAll
  <2>1. bounds' \in [looks : 0 .. MaxLooks, marks : 0 .. MaxMarks] BY <1>7, <1>b DEF R!askMarkAll
  <2>u. confirm' = TRUE /\ UNCHANGED <<kind, changes, read, swept, view, asks, news, onScreen, dwell, looked, seen, marks, count, lists, nudge>>
    BY <1>7 DEF R!askMarkAll
  <2>2. R!UnreadTypeOK' BY <2>u, <2>1, <1>0 DEF R!UnreadTypeOK
  <2>3. R!ViewsBehind' /\ R!DwellIsLooked' /\ R!MarksWereShown' /\ R!ReadWasShown'
    BY <2>u, <1>0 DEF R!ViewsBehind, R!DwellIsLooked, R!Counted, R!Unread, R!MarksWereShown, R!ReadWasShown
  <2>4. R!SidebarFollows' BY <2>u, <1>0 DEF R!SidebarFollows, R!Unread, R!Server
  <2> QED BY <2>2, <2>3, <2>4 DEF R!UnreadInv
\* An answer with the session list as it is now is appended.
<1>a. ASSUME R!handleListSessions, nudge' \in BOOLEAN,
             UNCHANGED <<kind, changes, read, swept, view, asks, news, onScreen, dwell, looked, seen, marks, confirm, count, bounds>>
      PROVE  R!UnreadInv'
  <2>1. lists' = Append(lists, Cardinality(R!Unread(R!Server))) BY <1>a, CountsAgree DEF R!handleListSessions
  <2>2. /\ lists' \in Seq(0 .. MaxPosts) /\ lists' # <<>> /\ Len(lists') = Len(lists) + 1
        /\ lists'[Len(lists) + 1] = Cardinality(R!Unread(R!Server))
    BY <2>1, <1>n, <1>t, AppendProperties
  <2>3. R!UnreadTypeOK' BY <2>2, <1>a, <1>0 DEF R!UnreadTypeOK
  <2>4. R!ViewsBehind' /\ R!DwellIsLooked' /\ R!MarksWereShown' /\ R!ReadWasShown'
    BY <1>a, <1>0 DEF R!ViewsBehind, R!DwellIsLooked, R!Counted, R!Unread, R!MarksWereShown, R!ReadWasShown
  <2>5. R!Unread(R!Server)' = R!Unread(R!Server) BY <1>a DEF R!Unread, R!Server
  <2>6. R!SidebarFollows' BY <2>2, <2>5, CountsAgree DEF R!SidebarFollows
  <2> QED BY <2>3, <2>4, <2>6 DEF R!UnreadInv
<1>8. CASE R!refresh BY <1>8, <1>a DEF R!refresh
<1>9. CASE R!poll
  <2>1. nudge' \in BOOLEAN BY <1>9, <1>0 DEF R!poll, R!UnreadTypeOK
  <2> QED BY <1>9, <2>1, <1>a DEF R!poll
<1>10. ASSUME NEW m \in marks, R!handleMarkRead(m) PROVE R!UnreadInv'
  <2>u. /\ marks' = marks \ {m} /\ read' = read \cup R!Marked(m) /\ news' = TRUE /\ nudge' = (nudge \/ kind = "thread")
        /\ UNCHANGED <<kind, changes, swept, view, asks, onScreen, dwell, looked, seen, confirm, count, lists, bounds>>
    BY <1>10 DEF R!handleMarkRead, R!Announce
  <2>1. nudge' \in BOOLEAN BY <1>0, <2>u DEF R!UnreadTypeOK
  <2>2. R!Marked(m) \subseteq seen \cap (1 .. changes)
    <3>1. CASE kind = "thread" BY <3>1, <1>0 DEF R!Marked, R!MarksWereShown
    <3>2. CASE kind # "thread"
      <4>1. PICK h \in 1 .. changes : m = {h} /\ 1 .. h \subseteq seen BY <3>2, <1>0 DEF R!MarksWereShown
      <4>2. R!Max(m) = h BY <4>1, <1>t DEF R!Max
      <4>3. 1 .. h \subseteq 1 .. changes BY <1>t
      <4> QED BY <4>1, <4>2, <4>3, <3>2 DEF R!Marked
    <3> QED BY <3>1, <3>2
  <2>3. R!UnreadTypeOK' BY <2>u, <2>1, <2>2, <1>0, <1>t DEF R!UnreadTypeOK
  <2>4. R!ViewsBehind' /\ R!DwellIsLooked' /\ R!MarksWereShown'
    BY <2>u, <1>0 DEF R!ViewsBehind, R!DwellIsLooked, R!Counted, R!Unread, R!MarksWereShown
  <2>5. R!ReadWasShown' BY <2>u, <2>2, <1>0 DEF R!ReadWasShown
  <2>6. R!SidebarFollows' BY <2>u, <1>0 DEF R!SidebarFollows
  <2> QED BY <2>3, <2>4, <2>5, <2>6 DEF R!UnreadInv
<1>11. ASSUME NEW m \in marks, R!lost(m) PROVE R!UnreadInv'
  <2>1. bounds' \in [looks : 0 .. MaxLooks, marks : 0 .. MaxMarks] BY <1>11, <1>b DEF R!lost
  <2>u. marks' = marks \ {m} /\ UNCHANGED <<kind, changes, read, swept, view, asks, news, onScreen, dwell, looked, seen, confirm, count, lists, nudge>>
    BY <1>11 DEF R!lost
  <2>2. R!UnreadTypeOK' BY <2>u, <2>1, <1>0 DEF R!UnreadTypeOK
  <2>3. R!ViewsBehind' /\ R!DwellIsLooked' /\ R!MarksWereShown' /\ R!ReadWasShown'
    BY <2>u, <1>0 DEF R!ViewsBehind, R!DwellIsLooked, R!Counted, R!Unread, R!MarksWereShown, R!ReadWasShown
  <2>4. R!SidebarFollows' BY <2>u, <1>0 DEF R!SidebarFollows, R!Unread, R!Server
  <2> QED BY <2>2, <2>3, <2>4 DEF R!UnreadInv
<1>12. ASSUME NEW i \in DOMAIN asks, R!landView(i) PROVE R!UnreadInv'
  <2>u. /\ view' = asks[i] /\ asks' = R!RemoveAt(asks, i) /\ dwell' = R!Rearmed(asks[i])
        /\ UNCHANGED <<kind, changes, read, swept, news, onScreen, looked, seen, marks, confirm, count, lists, nudge, bounds>>
    BY <1>12 DEF R!landView
  <2>1. asks' \in Seq(R!View) /\ (\A k \in DOMAIN asks' : asks'[k] \in R!View /\ asks'[k].held =< changes)
    <3>a. asks \in Seq(R!View) /\ asks' = Without(asks, i) /\ i \in DOMAIN asks
      BY <2>u, <1>t, <1>12 DEF R!RemoveAt, Without
    <3>1. /\ asks' \in Seq(R!View) /\ Len(asks') = Len(asks) - 1 /\ Len(asks) \in Nat
          /\ \A k \in 1 .. Len(asks) - 1 : asks'[k] = IF k < i THEN asks[k] ELSE asks[k + 1]
      BY <3>a, RowsRemoved
    <3>2. DOMAIN asks' = 1 .. Len(asks) - 1 /\ DOMAIN asks = 1 .. Len(asks) BY <3>1, <1>t, LenProperties
    <3>3. \A k \in DOMAIN asks' : k \in DOMAIN asks /\ k + 1 \in DOMAIN asks BY <3>1, <3>2
    <3>4. \A k \in DOMAIN asks' : asks'[k] \in R!View BY <3>1, ElementOfSeq
    <3> QED BY <3>1, <3>2, <3>3, <3>4, <1>0 DEF R!ViewsBehind
  <2>2. view' \in R!View /\ view'.held =< changes BY <2>u, <1>t, <1>0, ElementOfSeq DEF R!ViewsBehind
  <2>3. dwell' \in 0 .. Dwell /\ (dwell' = 0 \/ (dwell' = dwell /\ R!Dep(asks[i]) = R!Dep(view))) BY <2>u, <1>t DEF R!Rearmed
  <2>4. R!UnreadTypeOK' BY <2>u, <2>1, <2>2, <2>3, <1>0 DEF R!UnreadTypeOK
  <2>5. R!ViewsBehind' BY <2>u, <2>1, <2>2 DEF R!ViewsBehind
  <2>6. R!Counted' \subseteq R!Change
    <3>1. view'.held \in 0 .. MaxPosts BY <2>2 DEF R!View
    <3>2. 1 .. view'.held \subseteq R!Change BY <3>1 DEF R!Change
    <3> QED BY <3>2 DEF R!Counted, R!Unread
  <2>7. R!DwellIsLooked'
    <3> SUFFICES ASSUME dwell' < Dwell, R!Unread(view') # {}, NEW c \in R!Counted' PROVE looked[c] >= dwell'
      BY <2>u DEF R!DwellIsLooked, R!Counted, R!Unread
    <3>1. looked[c] \in 0 .. Dwell BY <2>6, <1>t
    <3>2. CASE dwell' = 0 BY <3>1, <3>2
    <3>3. CASE dwell' = dwell /\ R!Dep(view') = R!Dep(view)
      <4>1. CASE kind = "thread"
        <5>1. R!Unread(view') = R!Unread(view) BY <3>3, <4>1 DEF R!Dep
        <5> QED BY <5>1, <4>1, <3>3, <2>u, <1>0 DEF R!DwellIsLooked, R!Counted, R!Unread
      <4>2. CASE kind # "thread"
        <5>1. R!Dep(view') = {view'.held} BY <4>2 DEF R!Dep
        <5>2. R!Unread(view) # {} /\ view.held = view'.held BY <5>1, <3>3, <4>2 DEF R!Dep
        <5>3. R!Counted' = R!Counted BY <5>2, <4>2, <2>u DEF R!Counted
        <5> QED BY <5>2, <5>3, <3>3, <1>0 DEF R!DwellIsLooked
      <4> QED BY <4>1, <4>2
    <3> QED BY <3>2, <3>3, <2>3, <2>u
  <2>8. R!MarksWereShown' /\ R!ReadWasShown' BY <2>u, <1>0 DEF R!MarksWereShown, R!ReadWasShown
  <2>9. R!SidebarFollows' BY <2>u, <1>0 DEF R!SidebarFollows, R!Unread, R!Server
  <2> QED BY <2>4, <2>5, <2>7, <2>8, <2>9 DEF R!UnreadInv
<1>13. ASSUME NEW i \in DOMAIN lists, R!landList(i) PROVE R!UnreadInv'
  <2>u. /\ i = 1 \/ Overtake
        /\ count' = lists[i] /\ lists' = R!RemoveAt(lists, i)
        /\ UNCHANGED <<kind, changes, read, swept, view, asks, news, onScreen, dwell, looked, seen, marks, confirm, nudge, bounds>>
    BY <1>13 DEF R!landList
  <2>1. /\ lists' \in Seq(0 .. MaxPosts) /\ Len(lists') = Len(lists) - 1 /\ Len(lists) \in Nat
        /\ \A k \in 1 .. Len(lists) - 1 : lists'[k] = IF k < i THEN lists[k] ELSE lists[k + 1]
    <3> DEFINE Counts == 0 .. MaxPosts
    <3>1. lists \in Seq(Counts) /\ lists' = Without(lists, i) /\ i \in DOMAIN lists
      BY <2>u, <1>t, <1>13 DEF R!RemoveAt, Without
    <3> HIDE DEF Counts
    <3>2. /\ lists' \in Seq(Counts) /\ Len(lists') = Len(lists) - 1 /\ Len(lists) \in Nat
          /\ \A k \in 1 .. Len(lists) - 1 : lists'[k] = IF k < i THEN lists[k] ELSE lists[k + 1]
      BY <3>1, RowsRemoved
    <3> QED BY <3>2 DEF Counts
  <2>2. count' \in 0 .. MaxPosts BY <2>u, <1>t, ElementOfSeq
  <2>3. R!UnreadTypeOK' BY <2>u, <2>1, <2>2, <1>0 DEF R!UnreadTypeOK
  <2>4. R!ViewsBehind' /\ R!DwellIsLooked' /\ R!MarksWereShown' /\ R!ReadWasShown'
    BY <2>u, <1>0 DEF R!ViewsBehind, R!DwellIsLooked, R!Counted, R!Unread, R!MarksWereShown, R!ReadWasShown
  <2>5. R!Unread(R!Server)' = R!Unread(R!Server) BY <2>u DEF R!Unread, R!Server
  <2>6. ASSUME kind = "thread", ~nudge, ~Overtake
        PROVE  (IF lists' = <<>> THEN count' ELSE lists'[Len(lists')]) = Cardinality(R!Unread(R!Server))
    <3>1. i = 1 /\ lists # <<>> /\ Len(lists) >= 1 BY <2>u, <2>6, <1>t, LenProperties, EmptySeq
    <3>2. lists[Len(lists)] = Cardinality(R!Unread(R!Server)) BY <3>1, <2>6, <1>0, CountsAgree DEF R!SidebarFollows
    <3>3. lists' = <<>> <=> Len(lists') = 0 BY <2>1, EmptySeq
    <3>4. CASE Len(lists) = 1 BY <3>1, <3>2, <3>3, <3>4, <2>1, <2>u
    <3>5. CASE Len(lists) > 1
      <4>1. Len(lists) - 1 \in 1 .. Len(lists) - 1 /\ ~(Len(lists) - 1 < 1) BY <3>5, <2>1
      <4>2. lists'[Len(lists')] = lists[Len(lists)] BY <4>1, <3>1, <2>1
      <4> QED BY <4>2, <3>2, <3>3, <3>5, <2>1
    <3> QED BY <3>1, <3>4, <3>5, <2>1
  <2>7. R!SidebarFollows' BY <2>5, <2>6, <2>u, CountsAgree DEF R!SidebarFollows
  <2> QED BY <2>3, <2>4, <2>7 DEF R!UnreadInv
<1> QED BY <1>1, <1>2, <1>3, <1>4, <1>5, <1>6, <1>7, <1>8, <1>9, <1>10, <1>11, <1>12, <1>13 DEF R!Next

LEMMA UnreadShows == ASSUME R!UnreadInv PROVE R!ReadWasShown /\ R!DotIsTrue
BY DEF R!UnreadInv, R!SidebarFollows, R!DotIsTrue, R!Quiet

\* Nothing is read that the user had no chance to read, and once nothing is
\* under way the sidebar counts what is unread (useVisibleDwell,
\* handleMarkThreadRead, the refresh of the sidebar).
THEOREM ReadMeansShown ==
  ASSUME UnreadConstants
  PROVE  PageSpec => []UnreadIsHonest
<1> DEFINE Inv == part = "unread" => R!UnreadInv
<1>1. PageInit => Inv BY UnreadStarts DEF PageInit
<1>2. Inv /\ [PageNext]_<<part, slots>> => Inv'
  <2> SUFFICES ASSUME Inv, [PageNext]_<<part, slots>>, part' = "unread" PROVE R!UnreadInv' OBVIOUS
  <2>1. CASE PageNext BY <2>1, UnreadStep DEF PageNext
  <2>2. CASE UNCHANGED <<part, slots>>
    <3>1. R!UnreadInv /\ UNCHANGED slots BY <2>2
    <3>2. R!UnreadTypeOK' BY <3>1 DEF slots, R!UnreadInv, R!UnreadTypeOK
    <3>3. R!ViewsBehind' /\ R!DwellIsLooked' /\ R!MarksWereShown'
      BY <3>1 DEF slots, R!UnreadInv, R!ViewsBehind, R!DwellIsLooked, R!Counted, R!Unread, R!MarksWereShown
    <3>4. R!ReadWasShown' BY <3>1 DEF slots, R!UnreadInv, R!ReadWasShown
    <3>5. R!Unread(R!Server)' = R!Unread(R!Server) BY <3>1 DEF slots, R!Unread, R!Server
    <3>6. R!SidebarFollows' BY <3>1, <3>5 DEF slots, R!UnreadInv, R!SidebarFollows
    <3> QED BY <3>2, <3>3, <3>4, <3>6 DEF R!UnreadInv
  <2> QED BY <2>1, <2>2
<1>3. Inv => UnreadIsHonest BY UnreadShows DEF UnreadIsHonest
<1> QED BY <1>1, <1>2, <1>3, PTL DEF PageSpec

-----------------------------------------------------------------------------
(* Diagrams *)

DiagramConstants ==
  /\ None \notin D!Row /\ None \notin Source /\ "unmounted" \notin Source
  /\ MaxEvents \in Nat /\ MaxDiagramFaults \in Nat

\* One connection that keeps the order of what it carries; fetches that are
\* answered while it is open; and no diagram created under the id of another.
OneWire == \A e \in DiagramEnvs : {"recreate", "fail", "overtake"} \cap e = {}

LEMMA DiagramStarts == ASSUME DiagramConstants, D!DiagramInit PROVE D!DiagramInv
<1>1. /\ line = <<D!Asked>> /\ diagram \in D!Row /\ bounds = [events |-> 0, faults |-> 0]
      /\ view = None /\ notFound = FALSE /\ svg = None /\ error = None
      /\ canvas = "unmounted" /\ renders = {} /\ sock = "down" /\ env \in DiagramEnvs
      /\ upserts = [u \in Upsert |-> [of |-> None, at |-> "new"]]
  <2>1. 0 \in 0 .. MaxEvents BY DEF DiagramConstants
  <2> QED BY <2>1 DEF D!DiagramInit, D!Row
<1>2. D!Asked \in D!Answer \cup D!Event BY DEF D!Asked, D!Event
<1>3. bounds \in [events : 0 .. MaxEvents, faults : 0 .. MaxDiagramFaults]
  BY <1>1 DEF DiagramConstants
<1>4. line \in Seq(D!Answer \cup D!Event) BY <1>1, <1>2
<1>5. upserts \in [Upsert -> [of : Source \cup {None}, at : {"new", "checking", "done", "refused"}]]
  BY <1>1
<1>6. D!DiagramTypeOK BY <1>1, <1>3, <1>4, <1>5 DEF D!DiagramTypeOK
<1>7. D!GoneIsGone
  <2>1. \A i \in DOMAIN line : line[i].is = "asked" BY <1>1 DEF D!Asked
  <2> QED BY <1>1, <2>1 DEF D!GoneIsGone, D!StaysGone, D!Gone
<1>8. D!RendersFollow BY <1>1 DEF D!RendersFollow
<1>9. \A u \in Upsert : upserts[u].at = "new" BY <1>1
<1> QED BY <1>1, <1>6, <1>7, <1>8, <1>9 DEF D!DiagramInv

\* What is taken from the line leaves the rest in order.
LEMMA LineTaken ==
  ASSUME D!DiagramInv, NEW i \in DOMAIN line, NEW s, s = D!RemoveAt(line, i)
  PROVE  /\ s \in Seq(D!Answer \cup D!Event) /\ Len(line) \in Nat
         /\ Len(s) = Len(line) - 1
         /\ \A k \in 1 .. Len(line) - 1 : s[k] = IF k < i THEN line[k] ELSE line[k + 1]
         /\ D!StaysGone(s)
         /\ \A k \in DOMAIN s : \E m \in DOMAIN line : s[k] = line[m]
<1>1. line \in Seq(D!Answer \cup D!Event) BY DEF D!DiagramInv, D!DiagramTypeOK
<1>2. s = Without(line, i) BY DEF D!RemoveAt, Without
<1>3. /\ s \in Seq(D!Answer \cup D!Event) /\ Len(line) \in Nat /\ Len(s) = Len(line) - 1
      /\ \A k \in 1 .. Len(line) - 1 : s[k] = IF k < i THEN line[k] ELSE line[k + 1]
  BY <1>1, <1>2, RowsRemoved
<1>4. i \in 1 .. Len(line) /\ DOMAIN s = 1 .. Len(line) - 1 /\ DOMAIN line = 1 .. Len(line)
  BY <1>1, <1>3
<1> DEFINE at(k) == IF k < i THEN k ELSE k + 1
<1>5. \A k \in DOMAIN s : at(k) \in DOMAIN line /\ s[k] = line[at(k)] BY <1>3, <1>4
<1>6. \A k, m \in DOMAIN s : m > k => at(m) > at(k) BY <1>3, <1>4
<1> HIDE DEF at
<1>7. D!StaysGone(s)
  <2>1. D!StaysGone(line) BY DEF D!DiagramInv, D!GoneIsGone
  <2> QED BY <1>5, <1>6, <2>1 DEF D!StaysGone
<1> QED BY <1>3, <1>5, <1>7

\* What is put at its end does too, if it does not bring back what is gone.
LEMMA LinePut ==
  ASSUME NEW s \in Seq(D!Answer \cup D!Event), NEW x \in D!Answer \cup D!Event
  PROVE  /\ Append(s, x) \in Seq(D!Answer \cup D!Event) /\ Append(s, x) # <<>>
         /\ Append(s, x)[Len(Append(s, x))] = x
         /\ DOMAIN Append(s, x) = DOMAIN s \cup {Len(s) + 1}
         /\ Append(s, x)[Len(s) + 1] = x /\ Len(s) + 1 \notin DOMAIN s
         /\ \A k \in DOMAIN s : Append(s, x)[k] = s[k]
         /\ D!Refetches(s) => D!Refetches(Append(s, x))
         /\ D!StaysGone(s) /\ x.is # "diagram-deleted" /\ (x.is = "answer" => x.of = diagram)
              => D!StaysGone(Append(s, x))
<1> DEFINE t == Append(s, x)
<1>1. /\ t \in Seq(D!Answer \cup D!Event) /\ Len(t) = Len(s) + 1 /\ Len(s) \in Nat
      /\ \A k \in 1 .. Len(s) : t[k] = s[k]
      /\ t[Len(s) + 1] = x
  BY AppendProperties
<1>2. /\ DOMAIN s = 1 .. Len(s) /\ DOMAIN t = 1 .. Len(s) + 1
      /\ DOMAIN t = DOMAIN s \cup {Len(s) + 1} /\ Len(s) + 1 \notin DOMAIN s
  BY <1>1
<1>3. t # <<>> BY <1>1
<1>4. \A k \in DOMAIN s : t[k] = s[k] BY <1>1, <1>2
<1>5. \A k \in DOMAIN s : ~ (k > Len(s) + 1) BY <1>1, <1>2
<1> HIDE DEF t
<1>6. D!Refetches(s) => D!Refetches(t) BY <1>2, <1>4 DEF D!Refetches
<1>7. ASSUME D!StaysGone(s), x.is # "diagram-deleted", x.is = "answer" => x.of = diagram
      PROVE  D!StaysGone(t)
  <2>1. ~ (Len(s) + 1 > Len(s) + 1) BY <1>1
  <2>2. D!Gone(x) => diagram = None BY <1>7 DEF D!Gone
  <2> SUFFICES ASSUME NEW k \in DOMAIN t, D!Gone(t[k])
               PROVE  diagram = None /\ \A j \in DOMAIN t : j > k /\ t[j].is = "answer" => t[j].of = None
    BY DEF D!StaysGone
  <2>3. CASE k \in DOMAIN s
    <3>1. diagram = None /\ \A j \in DOMAIN s : j > k /\ t[j].is = "answer" => t[j].of = None
      BY <1>4, <1>7, <2>3 DEF D!StaysGone
    <3>2. t[Len(s) + 1].is = "answer" => t[Len(s) + 1].of = None BY <1>1, <1>7, <3>1
    <3> QED BY <1>2, <3>1, <3>2
  <2>4. CASE k = Len(s) + 1
    <3>1. diagram = None BY <1>1, <2>2, <2>4
    <3> QED BY <1>2, <1>5, <2>1, <2>4, <3>1
  <2> QED BY <1>2, <2>3, <2>4
<1> QED BY <1>1, <1>2, <1>3, <1>4, <1>6, <1>7 DEF t

\* The line the broker leaves, and what it says of the diagram.
LEMMA ToldChange ==
  ASSUME DiagramConstants, D!DiagramInv, diagram # None, NEW type \in {"diagram-update", "thread-update"},
         D!broadcast(type), diagram' \in D!Row, UNCHANGED <<view, notFound, sock>>
  PROVE  /\ line' \in Seq(D!Answer \cup D!Event)
         /\ D!GoneIsGone' /\ (sock' = "open" => D!CatchesUp')
<1>1. line \in Seq(D!Answer \cup D!Event) /\ D!GoneIsGone BY DEF D!DiagramInv, D!DiagramTypeOK
<1>2. ~ notFound /\ \A i \in DOMAIN line : ~ D!Gone(line[i]) BY <1>1 DEF D!GoneIsGone, D!StaysGone
<1> DEFINE x == [is |-> type]
<1>3. x \in D!Answer \cup D!Event /\ x.is = type BY DEF D!Event
<1>4. ~ D!Gone(x) BY <1>3 DEF D!Gone
<1>5. CASE sock \in {"accepted", "open"}
  <2>1. line' = Append(line, x) BY <1>5 DEF D!broadcast
  <2> HIDE DEF x
  <2>2. /\ line' \in Seq(D!Answer \cup D!Event) /\ DOMAIN line' = DOMAIN line \cup {Len(line) + 1}
        /\ line'[Len(line) + 1] = x /\ \A k \in DOMAIN line : line'[k] = line[k]
    BY <1>1, <1>3, <2>1, LinePut
  <2>3. \A i \in DOMAIN line' : ~ D!Gone(line'[i]) BY <1>2, <1>4, <2>2
  <2>4. D!GoneIsGone' BY <1>2, <2>3 DEF D!GoneIsGone, D!StaysGone, D!Gone
  <2>5. D!CatchesUp' BY <1>3, <2>2 DEF D!CatchesUp, D!Refetches
  <2> QED BY <2>2, <2>4, <2>5
<1>6. CASE sock \notin {"accepted", "open"}
  <2>1. line' = line BY <1>6 DEF D!broadcast
  <2>2. D!GoneIsGone' BY <1>2, <2>1 DEF D!GoneIsGone, D!StaysGone, D!Gone
  <2> QED BY <1>1, <1>6, <2>1, <2>2
<1> QED BY <1>5, <1>6

\* A commit of the page keeps the renders with what is in view, if it shows
\* the notice, or a diagram that no notice was shown for.
LEMMA Committed ==
  ASSUME DiagramConstants, D!DiagramInv, NEW v \in D!Row \cup {None}, NEW nf \in BOOLEAN,
         D!Commit(v, nf), (v = view /\ nf) \/ (v # None /\ ~ notFound)
  PROVE  /\ view' = v /\ notFound' = nf
         /\ view' \in D!Row \cup {None} /\ notFound' \in BOOLEAN
         /\ {svg', error'} \subseteq Source \cup {None}
         /\ canvas' \in Source \cup {None, "unmounted"}
         /\ renders' \subseteq D!Cut
         /\ D!RendersFollow'
<1>1. /\ view \in D!Row \cup {None} /\ notFound \in BOOLEAN /\ {svg, error} \subseteq Source \cup {None}
      /\ canvas \in Source \cup {None, "unmounted"} /\ renders \subseteq D!Cut
      /\ D!RendersFollow
  BY DEF D!DiagramInv, D!DiagramTypeOK, D!Cut
<1>2. view' = v /\ notFound' = nf /\ svg' = svg /\ error' = error BY DEF D!Commit
<1>3. canvas' = IF ~ (v # None /\ ~ nf /\ error = None) THEN "unmounted"
                ELSE IF canvas = "unmounted" THEN None ELSE canvas
  BY DEF D!Commit
<1>4. canvas' \in Source \cup {None, "unmounted"} BY <1>1, <1>3
<1>5. CASE v # None /\ (view = None \/ v.source # view.source)
  <2> DEFINE old == {[r EXCEPT !.current = FALSE] : r \in renders}
             new == [source |-> v.source, current |-> TRUE]
  <2>1. renders' = old \cup {new} BY <1>5 DEF D!Commit
  <2>2. old \subseteq D!Cut /\ \A r \in old : ~ r.current BY <1>1 DEF D!Cut
  <2>3. new \in D!Cut /\ new.current /\ new.source = v.source BY <1>5 DEF D!Cut, D!Row
  <2> HIDE DEF old, new
  <2>4. D!RendersFollow' BY <1>2, <1>5, <2>1, <2>2, <2>3 DEF D!RendersFollow
  <2> QED BY <1>1, <1>2, <1>4, <2>1, <2>2, <2>3, <2>4
<1>6. CASE ~ (v # None /\ (view = None \/ v.source # view.source))
  <2>1. renders' = renders BY <1>6 DEF D!Commit
  <2>2. v # None => view # None /\ v.source = view.source BY <1>6
  <2>3. view # None => v # None OBVIOUS
  <2>4. ASSUME v # None, ~ \E r \in renders : r.current PROVE D!Drawn'
    <3>1. D!Drawn BY <1>1, <2>2, <2>4 DEF D!RendersFollow
    <3>2. D!Parses(v.source)' = D!Parses(view.source) BY <2>2, <2>4 DEF D!Parses
    <3>3. CASE D!Parses(view.source)
      <4>1. error' = None BY <1>2, <3>1, <3>3 DEF D!Drawn
      <4>2. ASSUME ~ nf PROVE canvas' = v.source
        <5>1. canvas = view.source BY <2>4, <3>1, <3>3, <4>2 DEF D!Drawn
        <5>2. canvas # "unmounted" BY <1>1, <2>2, <2>4, <5>1 DEF DiagramConstants, D!Row
        <5> QED BY <1>2, <1>3, <2>2, <2>4, <4>1, <4>2, <5>1, <5>2
      <4> QED BY <1>2, <3>2, <3>3, <4>1, <4>2 DEF D!Drawn
    <3>4. CASE ~ D!Parses(view.source)
      <4>1. error' = v.source BY <1>2, <2>2, <2>4, <3>1, <3>4 DEF D!Drawn
      <4> QED BY <1>2, <2>2, <2>4, <3>2, <3>4, <4>1 DEF D!Drawn
    <3> QED BY <3>3, <3>4
  <2>5. D!RendersFollow' BY <1>1, <1>2, <2>1, <2>2, <2>3, <2>4 DEF D!RendersFollow
  <2> QED BY <1>1, <1>2, <1>4, <2>1, <2>5
<1> QED BY <1>5, <1>6

\* Nothing the page has changed, or nothing it is to have.
LEMMA ViewKept ==
  ASSUME D!DiagramInv, UNCHANGED <<view, notFound, svg, error, canvas, renders>>
  PROVE  D!RendersFollow'
<1>1. D!RendersFollow BY DEF D!DiagramInv
<1>2. D!Drawn' = D!Drawn BY DEF D!Drawn, D!Parses
<1> QED BY <1>1, <1>2 DEF D!RendersFollow

LEMMA WireKept ==
  ASSUME D!DiagramInv, UNCHANGED <<diagram, view, notFound, line>>
  PROVE  D!GoneIsGone' /\ (sock = "open" => D!CatchesUp')
<1>1. D!GoneIsGone /\ (sock = "open" => D!CatchesUp) BY DEF D!DiagramInv
<1>2. D!GoneIsGone' BY <1>1 DEF D!GoneIsGone, D!StaysGone, D!Gone
<1>3. ASSUME D!CatchesUp PROVE D!CatchesUp'
  BY <1>3 DEF D!CatchesUp, D!Refetches, D!Brings, D!IsHere
<1> QED BY <1>1, <1>2, <1>3

\* When something arrives that is no news, what the page will know stays ahead
\* of it, or it is itself the last word.
LEMMA LandedLast ==
  ASSUME D!DiagramInv, D!CatchesUp, NEW i \in DOMAIN line, NEW s, s = D!RemoveAt(line, i),
         \A j \in 1 .. i - 1 : line[j] = D!Asked,
         line[i].is \notin {"asked", "diagram-update", "thread-update"}
  PROVE  \/ D!Refetches(s)
         \/ s # <<>> /\ D!Brings(s[Len(s)])
         \/ s = <<>> /\ D!Brings(line[i])
<1>1. /\ s \in Seq(D!Answer \cup D!Event) /\ Len(line) \in Nat /\ Len(s) = Len(line) - 1
      /\ \A k \in 1 .. Len(line) - 1 : s[k] = IF k < i THEN line[k] ELSE line[k + 1]
      /\ DOMAIN s = 1 .. Len(line) - 1 /\ DOMAIN line = 1 .. Len(line) /\ line # <<>>
  <2>1. line \in Seq(D!Answer \cup D!Event) BY DEF D!DiagramInv, D!DiagramTypeOK
  <2> QED BY <2>1, LineTaken
<1>2. CASE D!Refetches(line)
  <2>1. PICK m \in DOMAIN line : line[m].is \in {"asked", "diagram-update", "thread-update"}
    BY <1>2 DEF D!Refetches
  <2>2. m # i BY <2>1
  <2>3. CASE m < i
    <3>1. m \in DOMAIN s /\ s[m] = line[m] BY <1>1, <2>3
    <3> QED BY <2>1, <3>1 DEF D!Refetches
  <2>4. CASE m > i
    <3>1. m - 1 \in DOMAIN s /\ s[m - 1] = line[m] BY <1>1, <2>4
    <3> QED BY <2>1, <3>1 DEF D!Refetches
  <2> QED BY <1>1, <2>2, <2>3, <2>4
<1>3. CASE ~ D!Refetches(line)
  <2>1. D!Brings(line[Len(line)]) BY <1>1, <1>3 DEF D!CatchesUp
  <2>2. i = 1
    <3> SUFFICES ASSUME i # 1 PROVE FALSE OBVIOUS
    <3>1. 1 \in DOMAIN line /\ 1 \in 1 .. i - 1 BY <1>1
    <3>2. line[1].is = "asked" BY <3>1 DEF D!Asked
    <3> QED BY <1>3, <3>1, <3>2 DEF D!Refetches
  <2>3. CASE Len(line) = 1 BY <1>1, <2>1, <2>2, <2>3
  <2>4. CASE Len(line) # 1
    <3>1. Len(line) - 1 \in 1 .. Len(line) - 1 BY <1>1, <2>2, <2>4
    <3>2. ~ (Len(line) - 1 < i) /\ Len(line) - 1 + 1 = Len(line) BY <1>1, <2>2, <3>1
    <3>3. s[Len(s)] = line[Len(line)] BY <1>1, <3>1, <3>2
    <3>4. s # <<>> BY <1>1, <3>1
    <3> QED BY <2>1, <3>3, <3>4
  <2> QED BY <2>3, <2>4
<1> QED BY <1>2, <1>3

LEMMA GoneLands ==
  ASSUME D!DiagramInv, NEW i \in DOMAIN line, NEW s, s = D!RemoveAt(line, i),
         \A j \in 1 .. i - 1 : line[j] = D!Asked, D!Gone(line[i])
  PROVE  diagram = None /\ \A k \in DOMAIN s : s[k].is = "answer" => s[k].of = None
<1>1. /\ Len(line) \in Nat
      /\ \A k \in 1 .. Len(line) - 1 : s[k] = IF k < i THEN line[k] ELSE line[k + 1]
      /\ DOMAIN s = 1 .. Len(line) - 1 /\ DOMAIN line = 1 .. Len(line)
  <2>1. line \in Seq(D!Answer \cup D!Event) BY DEF D!DiagramInv, D!DiagramTypeOK
  <2> QED BY <2>1, LineTaken
<1>2. diagram = None /\ \A j \in DOMAIN line : j > i /\ line[j].is = "answer" => line[j].of = None
  BY DEF D!DiagramInv, D!GoneIsGone, D!StaysGone
<1>3. ASSUME NEW k \in DOMAIN s, s[k].is = "answer" PROVE s[k].of = None
  <2>1. CASE k < i
    <3>1. s[k] = D!Asked BY <1>1, <2>1
    <3> QED BY <1>3, <3>1 DEF D!Asked
  <2>2. CASE ~ (k < i)
    <3>1. s[k] = line[k + 1] /\ k + 1 \in DOMAIN line /\ k + 1 > i BY <1>1, <2>2
    <3> QED BY <1>2, <1>3, <3>1
  <2> QED BY <2>1, <2>2
<1> QED BY <1>2, <1>3

LEMMA DiagramStep ==
  ASSUME DiagramConstants, OneWire, D!DiagramInv, D!DiagramNext PROVE D!DiagramInv'
<1>0. /\ D!GoneIsGone /\ D!RendersFollow /\ (sock = "open" => D!CatchesUp)
      /\ \A u \in Upsert : /\ upserts[u].at # "new" => upserts[u].of \in Source
                           /\ upserts[u].at = "checking" => diagram # None
  BY DEF D!DiagramInv
<1>t. /\ env \in DiagramEnvs /\ diagram \in D!Row \cup {None} /\ view \in D!Row \cup {None}
      /\ notFound \in BOOLEAN
      /\ upserts \in [Upsert -> [of : Source \cup {None}, at : {"new", "checking", "done", "refused"}]]
      /\ {svg, error} \subseteq Source \cup {None} /\ canvas \in Source \cup {None, "unmounted"}
      /\ renders \subseteq D!Cut /\ line \in Seq(D!Answer \cup D!Event)
      /\ sock \in {"down", "accepted", "open"}
      /\ bounds \in [events : 0 .. MaxEvents, faults : 0 .. MaxDiagramFaults]
  BY DEF D!DiagramInv, D!DiagramTypeOK, D!Cut
<1>e. "recreate" \notin env /\ "fail" \notin env /\ "overtake" \notin env BY <1>t DEF OneWire
<1>a. D!Asked \in D!Answer \cup D!Event /\ D!Asked.is = "asked" BY DEF D!Asked, D!Event
<1>1. ASSUME NEW u \in Upsert, NEW s \in Source, D!handleUpsertDiagram(u, s) PROVE D!DiagramInv'
  <2>1. /\ diagram # None /\ upserts' = [upserts EXCEPT ![u] = [of |-> s, at |-> "checking"]]
        /\ UNCHANGED <<env, diagram, view, notFound, svg, error, canvas, renders, line, sock, bounds>>
    BY <1>1, <1>e DEF D!handleUpsertDiagram, D!page
  <2>2. D!DiagramTypeOK' BY <1>t, <2>1 DEF D!DiagramTypeOK, D!Cut
  <2>3. \A o \in Upsert : /\ upserts'[o].at # "new" => upserts'[o].of \in Source
                          /\ upserts'[o].at = "checking" => diagram' # None
    BY <1>0, <1>t, <2>1
  <2> QED BY <2>1, <2>2, <2>3, ViewKept, WireKept DEF D!DiagramInv
<1>2. ASSUME NEW u \in Upsert, D!refuse(u) PROVE D!DiagramInv'
  <2>1. /\ upserts[u].at = "checking" /\ upserts' = [upserts EXCEPT ![u].at = "refused"]
        /\ UNCHANGED <<env, diagram, view, notFound, svg, error, canvas, renders, line, sock, bounds>>
    BY <1>2 DEF D!refuse, D!page
  <2>2. D!DiagramTypeOK' BY <1>t, <2>1 DEF D!DiagramTypeOK, D!Cut
  <2>3. \A o \in Upsert : /\ upserts'[o].at # "new" => upserts'[o].of \in Source
                          /\ upserts'[o].at = "checking" => diagram' # None
    BY <1>0, <1>t, <2>1
  <2> QED BY <2>1, <2>2, <2>3, ViewKept, WireKept DEF D!DiagramInv
<1>3. ASSUME NEW u \in Upsert, D!store(u) PROVE D!DiagramInv'
  <2>1. /\ upserts[u].at = "checking" /\ upserts' = [upserts EXCEPT ![u].at = "done"]
        /\ UNCHANGED <<env, view, notFound, svg, error, canvas, renders, sock, bounds>>
        /\ diagram # None /\ diagram' = [diagram EXCEPT !.source = upserts[u].of]
        /\ D!broadcast("diagram-update")
    BY <1>3, <1>0 DEF D!store, D!page
  <2>2. diagram' \in D!Row BY <1>0, <1>t, <2>1 DEF D!Row
  <2>3. line' \in Seq(D!Answer \cup D!Event) /\ D!GoneIsGone' /\ (sock' = "open" => D!CatchesUp')
    BY <2>1, <2>2, ToldChange
  <2>4. D!DiagramTypeOK' BY <1>t, <2>1, <2>2, <2>3 DEF D!DiagramTypeOK, D!Cut
  <2>5. \A o \in Upsert : upserts'[o].at # "new" => upserts'[o].of \in Source
    BY <1>0, <1>t, <2>1
  <2>6. diagram' # None BY <2>2 DEF DiagramConstants
  <2> QED BY <2>1, <2>3, <2>4, <2>5, <2>6, ViewKept DEF D!DiagramInv
<1>4. ASSUME NEW type \in {"diagram-update", "thread-update"}, D!Amend(type) PROVE D!DiagramInv'
  <2>1. /\ diagram # None /\ D!broadcast(type) /\ diagram' = [diagram EXCEPT !.other = bounds'.events]
        /\ bounds.events < MaxEvents /\ bounds' = [bounds EXCEPT !["events"] = @ + 1]
        /\ UNCHANGED <<env, upserts, view, notFound, svg, error, canvas, renders, sock>>
    BY <1>4 DEF D!Amend, D!Spend, D!page
  <2>2. bounds' \in [events : 0 .. MaxEvents, faults : 0 .. MaxDiagramFaults]
    BY <1>t, <2>1 DEF DiagramConstants
  <2>3. diagram' \in D!Row BY <1>t, <2>1, <2>2 DEF D!Row
  <2>4. line' \in Seq(D!Answer \cup D!Event) /\ D!GoneIsGone' /\ (sock' = "open" => D!CatchesUp')
    BY <2>1, <2>3, ToldChange
  <2>5. D!DiagramTypeOK' BY <1>t, <2>1, <2>2, <2>3, <2>4 DEF D!DiagramTypeOK, D!Cut
  <2>6. diagram' # None BY <2>3 DEF DiagramConstants
  <2> QED BY <1>0, <2>1, <2>4, <2>5, <2>6, ViewKept DEF D!DiagramInv
<1>5. CASE D!handleDeleteDiagram
  <2>1. /\ diagram # None /\ diagram' = None /\ D!broadcast("diagram-deleted")
        /\ \A u \in Upsert : upserts[u].at # "checking"
        /\ UNCHANGED <<env, upserts, view, notFound, svg, error, canvas, renders, sock, bounds>>
    BY <1>5, <1>e DEF D!handleDeleteDiagram, D!page
  <2>2. ~ notFound /\ \A i \in DOMAIN line : ~ D!Gone(line[i])
    BY <1>0, <2>1 DEF D!GoneIsGone, D!StaysGone
  <2> DEFINE x == [is |-> "diagram-deleted"]
  <2>3. x \in D!Answer \cup D!Event /\ x.is = "diagram-deleted" BY DEF D!Event
  <2>4. line' \in Seq(D!Answer \cup D!Event) /\ D!GoneIsGone' /\ (sock' = "open" => D!CatchesUp')
    <3>1. CASE sock \in {"accepted", "open"}
      <4>1. line' = Append(line, x) BY <2>1, <3>1 DEF D!broadcast
      <4> HIDE DEF x
      <4>2. /\ line' \in Seq(D!Answer \cup D!Event) /\ DOMAIN line' = DOMAIN line \cup {Len(line) + 1}
            /\ line' # <<>> /\ line'[Len(line')] = x
            /\ line'[Len(line) + 1] = x /\ \A k \in DOMAIN line : line'[k] = line[k]
        BY <1>t, <2>3, <4>1, LinePut
      <4>3. \A k \in DOMAIN line : ~ (k > Len(line) + 1) BY <1>t
      <4>4. ~ (Len(line) + 1 > Len(line) + 1) BY <1>t
      <4>5. \A k \in DOMAIN line' : D!Gone(line'[k]) => \A j \in DOMAIN line' : ~ (j > k)
        <5> TAKE k \in DOMAIN line'
        <5> HAVE D!Gone(line'[k])
        <5>1. k = Len(line) + 1 BY <2>2, <4>2
        <5> QED BY <4>2, <4>3, <4>4, <5>1
      <4>6. D!GoneIsGone' BY <2>1, <2>2, <4>5 DEF D!GoneIsGone, D!StaysGone, D!Gone
      <4>7. D!CatchesUp' BY <2>1, <2>3, <4>2 DEF D!CatchesUp, D!Brings
      <4> QED BY <4>2, <4>6, <4>7
    <3>2. CASE sock \notin {"accepted", "open"}
      <4>1. line' = line BY <2>1, <3>2 DEF D!broadcast
      <4>2. D!GoneIsGone' BY <2>1, <2>2, <4>1 DEF D!GoneIsGone, D!StaysGone, D!Gone
      <4> QED BY <1>t, <2>1, <3>2, <4>1, <4>2
    <3> QED BY <3>1, <3>2
  <2>5. D!DiagramTypeOK' BY <1>t, <2>1, <2>4 DEF D!DiagramTypeOK, D!Cut
  <2> QED BY <1>0, <2>1, <2>4, <2>5, ViewKept DEF D!DiagramInv
<1>6. CASE D!getDiagramView
  <2> DEFINE x == [is |-> "answer", of |-> diagram]
  <2>1. PICK i \in DOMAIN line : line[i] = D!Asked /\ line' = Append(D!RemoveAt(line, i), x)
    BY <1>6, <1>e DEF D!getDiagramView
  <2>2. UNCHANGED <<env, diagram, upserts, view, notFound, svg, error, canvas, renders, sock, bounds>>
    BY <1>6 DEF D!getDiagramView, D!page
  <2> DEFINE s == D!RemoveAt(line, i)
  <2>3. s \in Seq(D!Answer \cup D!Event) /\ D!StaysGone(s) /\ \A k \in DOMAIN s : \E m \in DOMAIN line : s[k] = line[m]
    BY LineTaken
  <2>4. x \in D!Answer \cup D!Event /\ x.is = "answer" /\ x.of = diagram BY <1>t DEF D!Answer
  <2> HIDE DEF s, x
  <2>5. line' = Append(s, x) BY <2>1 DEF s
  <2>6. /\ line' \in Seq(D!Answer \cup D!Event) /\ line' # <<>> /\ line'[Len(line')] = x
        /\ DOMAIN line' = DOMAIN s \cup {Len(s) + 1} /\ line'[Len(s) + 1] = x
        /\ \A k \in DOMAIN s : line'[k] = s[k]
        /\ D!StaysGone(line')
    BY <2>3, <2>4, <2>5, LinePut
  <2>7. D!GoneIsGone'
    <3>1. D!StaysGone(line)' BY <2>2, <2>6 DEF D!StaysGone, D!Gone
    <3>2. ASSUME notFound PROVE diagram = None /\ \A k \in DOMAIN line' : line'[k].is = "answer" => line'[k].of = None
      <4>1. diagram = None /\ \A m \in DOMAIN line : line[m].is = "answer" => line[m].of = None
        BY <1>0, <3>2 DEF D!GoneIsGone
      <4> QED BY <2>3, <2>4, <2>6, <4>1
    <3> QED BY <2>2, <3>1, <3>2 DEF D!GoneIsGone
  <2>8. D!CatchesUp' BY <2>2, <2>4, <2>6 DEF D!CatchesUp, D!Brings
  <2>9. D!DiagramTypeOK' BY <1>t, <2>2, <2>6 DEF D!DiagramTypeOK, D!Cut
  <2> QED BY <1>0, <2>2, <2>7, <2>8, <2>9, ViewKept DEF D!DiagramInv
<1>7. CASE D!landDiagram \/ D!onMessage
  <2>1. UNCHANGED <<env, diagram, upserts, sock, bounds>> BY <1>7 DEF D!landDiagram, D!onMessage
  <2>2. PICK i \in D!Arriving :
          \/ /\ line[i].is \in {"answer", "lost"} /\ line' = D!RemoveAt(line, i)
             /\ IF line[i] = D!Lost THEN UNCHANGED D!page
                ELSE IF line[i].of = None THEN D!Commit(view, TRUE)
                ELSE D!Commit(line[i].of, FALSE)
          \/ /\ line[i].is \notin {"answer", "lost"}
             /\ IF line[i].is = "diagram-deleted"
                THEN line' = D!RemoveAt(line, i) /\ D!Commit(view, TRUE)
                ELSE line' = Append(D!RemoveAt(line, i), D!Asked) /\ UNCHANGED D!page
    BY <1>7 DEF D!landDiagram, D!onMessage, D!fetchDiagram
  <2>3. i \in DOMAIN line /\ line[i] # D!Asked /\ \A j \in 1 .. i - 1 : line[j] = D!Asked
    BY <1>e, <2>2 DEF D!Arriving
  <2> DEFINE s == D!RemoveAt(line, i)
  <2>4. /\ s \in Seq(D!Answer \cup D!Event) /\ D!StaysGone(s)
        /\ \A k \in DOMAIN s : \E m \in DOMAIN line : s[k] = line[m]
    BY <2>3, LineTaken
  <2>5. line[i] \in D!Answer \cup D!Event BY <1>t, <2>3
  <2>6. ASSUME notFound
        PROVE  diagram = None /\ \A k \in DOMAIN s : s[k].is = "answer" => s[k].of = None
    <3>1. diagram = None /\ \A m \in DOMAIN line : line[m].is = "answer" => line[m].of = None
      BY <1>0, <2>6 DEF D!GoneIsGone
    <3> QED BY <2>4, <3>1
  <2>7. ASSUME D!CatchesUp, line[i].is \notin {"asked", "diagram-update", "thread-update"}
        PROVE  D!Refetches(s) \/ (s # <<>> /\ D!Brings(s[Len(s)])) \/ (s = <<>> /\ D!Brings(line[i]))
    BY <2>3, <2>7, LandedLast
  <2>8. D!Gone(line[i]) => diagram = None /\ \A k \in DOMAIN s : s[k].is = "answer" => s[k].of = None
    BY <2>3, GoneLands
  <2> HIDE DEF s
  <2>9. CASE line[i] = D!Lost
    <3>1. line[i].is = "lost" BY <2>9 DEF D!Lost
    <3>2. line' = s /\ UNCHANGED <<view, notFound, svg, error, canvas, renders>>
      BY <2>2, <2>9, <3>1 DEF D!page, s
    <3>3. D!GoneIsGone'
      <4>1. D!StaysGone(line)' BY <2>1, <2>4, <3>2 DEF D!StaysGone, D!Gone
      <4> QED BY <2>1, <2>6, <3>2, <4>1 DEF D!GoneIsGone
    <3>4. ~ D!Brings(line[i]) BY <3>1 DEF D!Brings
    <3>5. sock = "open" => D!CatchesUp' BY <1>0, <2>1, <2>7, <3>1, <3>2, <3>4 DEF D!CatchesUp, D!Refetches, D!Brings
    <3>6. D!DiagramTypeOK' BY <1>t, <2>1, <2>4, <3>2 DEF D!DiagramTypeOK, D!Cut
    <3> QED BY <1>0, <2>1, <3>2, <3>3, <3>5, <3>6, ViewKept DEF D!DiagramInv
  <2>10. CASE D!Gone(line[i])
    <3>1. line' = s /\ D!Commit(view, TRUE)
      <4>1. CASE line[i].is = "answer"
        <5>1. line[i] # D!Lost /\ line[i].of = None BY <2>10, <4>1 DEF D!Lost, D!Gone
        <5> QED BY <2>2, <4>1, <5>1 DEF s
      <4>2. CASE line[i].is = "diagram-deleted" BY <2>2, <4>2 DEF s
      <4>3. line[i].is = "answer" \/ line[i].is = "diagram-deleted" BY <2>10 DEF D!Gone
      <4> QED BY <4>1, <4>2, <4>3
    <3>2. /\ view' = view /\ notFound' = TRUE /\ {svg', error'} \subseteq Source \cup {None}
          /\ canvas' \in Source \cup {None, "unmounted"} /\ renders' \subseteq D!Cut /\ D!RendersFollow'
      BY <1>t, <3>1, Committed
    <3>3. D!GoneIsGone'
      <4>1. D!StaysGone(line)' BY <2>1, <2>4, <3>1 DEF D!StaysGone, D!Gone
      <4> QED BY <2>1, <2>8, <2>10, <3>1, <3>2, <4>1 DEF D!GoneIsGone
    <3>4. line[i].is \notin {"asked", "diagram-update", "thread-update"} BY <2>10 DEF D!Gone
    <3>5. D!IsHere' BY <2>1, <2>8, <2>10, <3>2 DEF D!IsHere
    <3>6. sock = "open" => D!CatchesUp'
      BY <1>0, <2>1, <2>7, <3>1, <3>4, <3>5 DEF D!CatchesUp, D!Refetches, D!Brings
    <3>7. D!DiagramTypeOK' BY <1>t, <2>1, <2>4, <3>1, <3>2 DEF D!DiagramTypeOK, D!Cut
    <3> QED BY <1>0, <2>1, <3>2, <3>3, <3>6, <3>7 DEF D!DiagramInv
  <2>11. CASE line[i].is = "answer" /\ line[i].of # None
    <3>1. line[i] # D!Lost BY <2>11 DEF D!Lost
    <3>2. line' = s /\ D!Commit(line[i].of, FALSE) BY <2>2, <2>11, <3>1 DEF s
    <3>3. line[i].of \in D!Row BY <2>5, <2>11 DEF D!Answer, D!Event
    <3>4. ~ notFound BY <1>0, <2>3, <2>11 DEF D!GoneIsGone
    <3>5. /\ view' = line[i].of /\ notFound' = FALSE /\ {svg', error'} \subseteq Source \cup {None}
          /\ canvas' \in Source \cup {None, "unmounted"} /\ renders' \subseteq D!Cut /\ D!RendersFollow'
      BY <2>11, <3>2, <3>3, <3>4, Committed
    <3>6. D!GoneIsGone'
      <4>1. D!StaysGone(line)' BY <2>1, <2>4, <3>2 DEF D!StaysGone, D!Gone
      <4> QED BY <3>5, <4>1 DEF D!GoneIsGone
    <3>7. D!Brings(line[i]) => D!IsHere' BY <2>1, <2>11, <3>5 DEF D!IsHere, D!Brings
    <3>8. sock = "open" => D!CatchesUp'
      BY <1>0, <2>1, <2>7, <2>11, <3>2, <3>7 DEF D!CatchesUp, D!Refetches, D!Brings
    <3>9. D!DiagramTypeOK' BY <1>t, <2>1, <2>4, <3>2, <3>3, <3>5 DEF D!DiagramTypeOK, D!Cut
    <3> QED BY <1>0, <2>1, <3>5, <3>6, <3>8, <3>9 DEF D!DiagramInv
  <2>12. CASE line[i].is \notin {"answer", "lost", "diagram-deleted"}
    <3>1. line' = Append(s, D!Asked) /\ UNCHANGED <<view, notFound, svg, error, canvas, renders>>
      BY <2>2, <2>12 DEF D!page, s
    <3>2. /\ line' \in Seq(D!Answer \cup D!Event) /\ D!StaysGone(line')
          /\ DOMAIN line' = DOMAIN s \cup {Len(s) + 1} /\ line'[Len(s) + 1] = D!Asked
          /\ \A k \in DOMAIN s : line'[k] = s[k]
      BY <1>a, <2>4, <3>1, LinePut
    <3>3. D!GoneIsGone'
      <4>1. D!StaysGone(line)' BY <2>1, <3>2 DEF D!StaysGone, D!Gone
      <4>2. notFound => diagram = None /\ \A k \in DOMAIN line' : line'[k].is = "answer" => line'[k].of = None
        BY <1>a, <2>6, <3>2
      <4> QED BY <2>1, <3>1, <4>1, <4>2 DEF D!GoneIsGone
    <3>4. D!CatchesUp' BY <1>a, <3>2 DEF D!CatchesUp, D!Refetches
    <3>5. D!DiagramTypeOK' BY <1>t, <2>1, <3>1, <3>2 DEF D!DiagramTypeOK, D!Cut
    <3> QED BY <1>0, <2>1, <3>1, <3>3, <3>4, <3>5, ViewKept DEF D!DiagramInv
  <2>13. line[i].is = "lost" => line[i] = D!Lost BY <2>5 DEF D!Answer, D!Event, D!Lost
  <2> QED BY <2>9, <2>10, <2>11, <2>12, <2>13 DEF D!Gone
<1>8. CASE D!Accepted
  <2>1. sock' = "accepted" /\ UNCHANGED <<env, diagram, upserts, view, notFound, svg, error, canvas, renders, line, bounds>>
    BY <1>8 DEF D!Accepted, D!page
  <2>2. D!DiagramTypeOK' BY <1>t, <2>1 DEF D!DiagramTypeOK, D!Cut
  <2> QED BY <1>0, <2>1, <2>2, ViewKept, WireKept DEF D!DiagramInv
<1>9. CASE D!onopen
  <2>1. /\ sock' = "open" /\ line' = Append(line, D!Asked)
        /\ UNCHANGED <<env, diagram, upserts, view, notFound, svg, error, canvas, renders, bounds>>
    BY <1>9 DEF D!onopen, D!page, D!fetchDiagram
  <2>2. D!StaysGone(line) BY <1>0 DEF D!GoneIsGone
  <2>3. /\ line' \in Seq(D!Answer \cup D!Event) /\ D!StaysGone(line')
        /\ DOMAIN line' = DOMAIN line \cup {Len(line) + 1} /\ line'[Len(line) + 1] = D!Asked
        /\ \A k \in DOMAIN line : line'[k] = line[k]
    BY <1>a, <1>t, <2>1, <2>2, LinePut
  <2>4. D!GoneIsGone'
    <3>1. D!StaysGone(line)' BY <2>1, <2>3 DEF D!StaysGone, D!Gone
    <3>2. notFound => diagram = None /\ \A k \in DOMAIN line' : line'[k].is = "answer" => line'[k].of = None
      BY <1>0, <1>a, <2>3 DEF D!GoneIsGone
    <3> QED BY <2>1, <3>1, <3>2 DEF D!GoneIsGone
  <2>5. D!CatchesUp' BY <1>a, <2>3 DEF D!CatchesUp, D!Refetches
  <2>6. D!DiagramTypeOK' BY <1>t, <2>1, <2>3 DEF D!DiagramTypeOK, D!Cut
  <2> QED BY <1>0, <2>1, <2>4, <2>5, <2>6, ViewKept DEF D!DiagramInv
<1>10. CASE D!drop
  <2>1. /\ sock' = "down" /\ bounds.faults < MaxDiagramFaults /\ bounds' = [bounds EXCEPT !["faults"] = @ + 1]
        /\ line' = [i \in DOMAIN line |-> IF line[i].is \in {"asked", "answer"} THEN line[i] ELSE D!Lost]
        /\ UNCHANGED <<env, diagram, upserts, view, notFound, svg, error, canvas, renders>>
    BY <1>10 DEF D!drop, D!Spend, D!page
  <2>2. bounds' \in [events : 0 .. MaxEvents, faults : 0 .. MaxDiagramFaults]
    BY <1>t, <2>1 DEF DiagramConstants
  <2>3. D!Lost \in D!Answer \cup D!Event /\ D!Lost.is = "lost" BY DEF D!Lost, D!Event
  <2>4. /\ DOMAIN line' = DOMAIN line
        /\ \A k \in DOMAIN line : line'[k] = line[k] \/ line'[k] = D!Lost
    BY <2>1
  <2>5. line' \in Seq(D!Answer \cup D!Event)
    <3>1. DOMAIN line = 1 .. Len(line) /\ Len(line) \in Nat /\ \A k \in DOMAIN line : line[k] \in D!Answer \cup D!Event
      BY <1>t
    <3> DEFINE f(i) == IF line[i].is \in {"asked", "answer"} THEN line[i] ELSE D!Lost
    <3>2. \A k \in 1 .. Len(line) : f(k) \in D!Answer \cup D!Event BY <2>3, <3>1
    <3>3. line' = [k \in 1 .. Len(line) |-> f(k)] BY <2>1, <3>1
    <3> HIDE DEF f
    <3> QED BY <3>1, <3>2, <3>3, SeqDef
  <2>6. \A k \in DOMAIN line : line'[k].is = "lost" \/ line'[k] = line[k] BY <2>3, <2>4
  <2>7. D!GoneIsGone' BY <1>0, <2>1, <2>4, <2>6 DEF D!GoneIsGone, D!StaysGone, D!Gone
  <2>8. D!DiagramTypeOK' BY <1>t, <2>1, <2>2, <2>5 DEF D!DiagramTypeOK, D!Cut
  <2> QED BY <1>0, <2>1, <2>7, <2>8, ViewKept DEF D!DiagramInv
<1>11. ASSUME NEW r \in renders, D!renderEnds(r) PROVE D!DiagramInv'
  <2>1. renders' = renders \ {r} /\ UNCHANGED <<env, diagram, upserts, view, notFound, line, sock, bounds>>
    BY <1>11 DEF D!renderEnds
  <2>2. r \in D!Cut BY <1>t
  <2>3. /\ {svg', error'} \subseteq Source \cup {None} /\ canvas' \in Source \cup {None, "unmounted"}
        /\ D!RendersFollow'
    <3>1. CASE ~ r.current
      <4>1. UNCHANGED <<svg, error, canvas>> BY <1>11, <3>1 DEF D!renderEnds
      <4>2. D!Drawn' = D!Drawn BY <2>1, <4>1 DEF D!Drawn, D!Parses
      <4> QED BY <1>0, <1>t, <2>1, <3>1, <4>1, <4>2 DEF D!RendersFollow
    <3>2. CASE r.current
      <4>1. view # None /\ r.source = view.source BY <1>0, <3>2 DEF D!RendersFollow
      <4>2. \A o \in renders' : ~ o.current
        <5> SUFFICES ASSUME NEW o \in renders, o # r, o.current PROVE FALSE BY <2>1
        <5>1. o \in D!Cut /\ o.source = r.source BY <1>0, <1>t, <4>1 DEF D!RendersFollow
        <5> QED BY <2>2, <3>2, <5>1 DEF D!Cut
      <4>3. CASE D!Parses(r.source)
        <5>1. svg' = r.source /\ error' = None /\ canvas' = IF view # None /\ ~ notFound THEN r.source ELSE "unmounted"
          BY <1>11, <3>2, <4>3 DEF D!renderEnds
        <5>2. D!Drawn' BY <2>1, <4>1, <4>3, <5>1 DEF D!Drawn, D!Parses
        <5> QED BY <2>1, <2>2, <4>2, <5>1, <5>2 DEF D!RendersFollow, D!Cut
      <4>4. CASE ~ D!Parses(r.source)
        <5>1. svg' = None /\ error' = r.source /\ canvas' = "unmounted"
          BY <1>11, <3>2, <4>4 DEF D!renderEnds
        <5>2. D!Drawn' BY <2>1, <4>1, <4>4, <5>1 DEF D!Drawn, D!Parses
        <5> QED BY <2>1, <2>2, <4>2, <5>1, <5>2 DEF D!RendersFollow, D!Cut
      <4> QED BY <4>3, <4>4
    <3> QED BY <3>1, <3>2
  <2>4. D!DiagramTypeOK' BY <1>t, <2>1, <2>3 DEF D!DiagramTypeOK, D!Cut
  <2> QED BY <1>0, <2>1, <2>3, <2>4, WireKept DEF D!DiagramInv
<1> QED
  BY <1>1, <1>2, <1>3, <1>4, <1>5, <1>6, <1>7, <1>8, <1>9, <1>10, <1>11
  DEF D!DiagramNext, D!handleRenameDiagram, D!handlePostDiagramChat

LEMMA DiagramShows == ASSUME DiagramConstants, D!DiagramInv PROVE D!PageShowsDiagram
<1> SUFFICES ASSUME D!AtRest
             PROVE  IF diagram = None THEN notFound
                    ELSE /\ ~ notFound /\ view = diagram
                         /\ IF D!Parses(diagram.source) THEN canvas = diagram.source /\ error = None
                            ELSE error = diagram.source
  BY DEF D!PageShowsDiagram
<1>1. line = <<>> /\ sock = "open" /\ ~ \E r \in renders : r.current BY DEF D!AtRest
<1>2. D!CatchesUp /\ D!RendersFollow BY <1>1 DEF D!DiagramInv
<1>3. ~ D!Refetches(line) BY <1>1 DEF D!Refetches
<1>4. D!IsHere BY <1>1, <1>2, <1>3 DEF D!CatchesUp
<1>5. view # None => D!Drawn BY <1>1, <1>2 DEF D!RendersFollow
<1> QED BY <1>4, <1>5 DEF D!IsHere, D!Drawn

\* Over one connection that keeps the order of what it carries, and may go down
\* at any time: a page at rest shows the diagram as it is, its latest source
\* drawn, the parse error of that source, or that it is gone (DiagramView).
THEOREM DiagramIsShown ==
  ASSUME DiagramConstants, OneWire
  PROVE  PageSpec => []PageShowsDiagram
<1> DEFINE Inv == part = "diagram" => D!DiagramInv
<1>1. PageInit => Inv BY DiagramStarts DEF PageInit
<1>2. Inv /\ [PageNext]_<<part, slots>> => Inv'
  <2> SUFFICES ASSUME Inv, [PageNext]_<<part, slots>>, part' = "diagram" PROVE D!DiagramInv' OBVIOUS
  <2>1. CASE PageNext BY <2>1, DiagramStep DEF PageNext
  <2>2. CASE UNCHANGED <<part, slots>>
    <3>1. D!DiagramInv /\ UNCHANGED slots BY <2>2
    <3>2. D!DiagramTypeOK' BY <3>1 DEF slots, D!DiagramInv, D!DiagramTypeOK
    <3>3. D!GoneIsGone' BY <3>1 DEF slots, D!DiagramInv, D!GoneIsGone, D!StaysGone, D!Gone
    <3>4. D!RendersFollow' BY <3>1 DEF slots, D!DiagramInv, D!RendersFollow, D!Drawn
    <3>5. sock' = "open" => D!CatchesUp'
      BY <3>1 DEF slots, D!DiagramInv, D!CatchesUp, D!Refetches, D!Brings, D!IsHere
    <3> QED BY <3>1, <3>2, <3>3, <3>4, <3>5 DEF slots, D!DiagramInv
  <2> QED BY <2>1, <2>2
<1>3. Inv => PageShowsDiagram BY DiagramShows DEF PageShowsDiagram
<1> QED BY <1>1, <1>2, <1>3, PTL DEF PageSpec

-----------------------------------------------------------------------------
(* Tracker *)

TrackerConstants ==
  /\ None \notin BOOLEAN /\ None \notin T!Filters /\ None \notin [Issue -> T!Row]
  /\ Pick \subseteq T!Filters /\ DEFAULT_FILTERS \in T!Filters
  /\ MaxPicks \in Nat /\ MaxIssueChanges \in Nat /\ MaxOpens \in Nat /\ MaxAsks \in Nat

\* Calls are answered, those of a tab in order; the user waits for what was
\* begun; and saved filters that load slowly are not loaded a second time.
Patient == \A e \in TrackerEnvs : /\ {"blip", "reorder", "hasty"} \cap e = {}
                                  /\ ~ ({"slow", "reopen"} \subseteq e)

LEMMA TrackerStarts == ASSUME TrackerConstants, T!TrackerInit PROVE T!TrackerInv
<1>1. /\ env \in TrackerEnvs
      /\ ledger \in [Issue -> [owner : T!Owner, state : {"todo"}, session : Slice,
                               approved : {FALSE}, deleted : {FALSE}, ver : {0}]]
      /\ saved \in {None, DEFAULT_FILTERS} /\ lastPick = DEFAULT_FILTERS
      /\ tab = [t \in Tab |-> [open |-> FALSE, loading |-> FALSE, loaded |-> FALSE,
                               filters |-> DEFAULT_FILTERS, timer |-> None,
                               rows |-> ledger, all |-> FALSE, fetched |-> FALSE,
                               after |-> None]]
      /\ asks = [t \in Tab |-> <<>>]
      /\ own = [t \in Tab |-> [i \in Issue |-> 0]]
      /\ steps = [picks |-> 0, changes |-> 0, opens |-> 0]
  BY DEF T!TrackerInit
<1>2. ledger \in [Issue -> T!Row] /\ \A i \in Issue : ledger[i].ver = 0
  <2> DEFINE New == [owner : T!Owner, state : {"todo"}, session : Slice, approved : {FALSE},
                     deleted : {FALSE}, ver : {0}]
  <2>1. ASSUME NEW r \in New PROVE r \in T!Row
    <3>1. 0 \in 0 .. MaxIssueChanges BY DEF TrackerConstants
    <3> QED BY <3>1 DEF T!Row, T!State
  <2>2. ledger \in [Issue -> New] BY <1>1
  <2>3. ASSUME NEW i \in Issue PROVE ledger[i].ver = 0
    <3>1. ledger[i] \in New BY <2>2
    <3>2. ledger[i].ver \in {0} BY <3>1
    <3> QED BY <3>2
  <2> HIDE DEF New
  <2> QED BY <2>1, <2>2, <2>3
<1>3. tab \in [Tab -> T!Modal] BY <1>1, <1>2 DEF T!Modal, TrackerConstants
<1>4. own \in [Tab -> [Issue -> 0 .. MaxIssueChanges]] BY <1>1 DEF TrackerConstants
<1>5. steps \in [picks : 0 .. MaxPicks, changes : 0 .. MaxIssueChanges, opens : 0 .. MaxOpens]
  BY <1>1 DEF TrackerConstants
<1>6. asks \in [Tab -> Seq(T!Ask)] /\ \A t \in Tab : Len(asks[t]) =< MaxAsks
  BY <1>1 DEF TrackerConstants
<1>7. T!TrackerTypeOK BY <1>1, <1>2, <1>3, <1>4, <1>5, <1>6 DEF T!TrackerTypeOK, TrackerConstants
<1>8. T!PicksInTurn BY <1>1 DEF T!PicksInTurn, T!Busy, T!savedFilters
<1>9. \A t \in Tab : T!ListFollows(t) /\ T!Holds(t, ledger)
  <2>1. \A t \in Tab, i \in Issue : own[t][i] = 0 BY <1>1
  <2>2. \A t \in Tab : T!Holds(t, ledger) BY <1>2, <2>1 DEF T!Holds
  <2>3. \A t \in Tab : /\ tab[t].after = None /\ asks[t] = <<>>
                       /\ tab[t].rows = ledger /\ tab[t].fetched = FALSE
    BY <1>1
  <2> QED BY <2>2, <2>3 DEF T!ListFollows
<1> QED BY <1>1, <1>2, <1>7, <1>8, <1>9 DEF T!TrackerInv

LEMMA ModalEffect ==
  ASSUME NEW m \in T!Modal, NEW x, x = T!effect(m)
  PROVE  /\ x \in T!Modal
         /\ x.open = m.open /\ x.loading = m.loading /\ x.loaded = m.loaded
         /\ x.filters = m.filters /\ x.rows = m.rows /\ x.all = m.all
         /\ x.fetched = m.fetched /\ x.after = m.after
         /\ x.timer = IF m.open /\ m.loaded THEN m.filters ELSE None
<1> DEFINE v == IF m.open /\ m.loaded THEN m.filters ELSE None
<1>1. v \in T!Filters \cup {None} BY DEF T!Modal
<1>2. x = [m EXCEPT !.timer = v] BY DEF T!effect
<1> HIDE DEF v
<1>3. x \in T!Modal /\ x.timer = v BY <1>1, <1>2 DEF T!Modal
<1>4. /\ x.open = m.open /\ x.loading = m.loading /\ x.loaded = m.loaded
      /\ x.filters = m.filters /\ x.rows = m.rows /\ x.all = m.all
      /\ x.fetched = m.fetched /\ x.after = m.after
  BY <1>2 DEF T!Modal
<1> QED BY <1>3, <1>4 DEF v

LEMMA ListAsked ==
  ASSUME TrackerConstants, T!TrackerTypeOK, NEW t \in Tab, NEW all \in BOOLEAN, T!refetch(t, all)
  PROVE  /\ asks' \in [Tab -> Seq(T!Ask)] /\ \A u \in Tab : Len(asks'[u]) =< MaxAsks
         /\ \A u \in Tab : u # t => asks'[u] = asks[u]
         /\ asks'[t] # <<>> /\ T!Last(asks'[t]).all = all /\ T!Last(asks'[t]).rows = None
<1> DEFINE a == [all |-> all, rows |-> None]
<1>1. asks[t] \in Seq(T!Ask) /\ Len(asks[t]) < MaxAsks /\ asks \in [Tab -> Seq(T!Ask)]
  BY DEF T!TrackerTypeOK, T!refetch
<1>2. a \in T!Ask /\ a.all = all /\ a.rows = None BY DEF T!Ask
<1>3. asks' = [asks EXCEPT ![t] = Append(asks[t], a)] BY DEF T!refetch
<1> HIDE DEF a
<1> DEFINE s == Append(asks[t], a)
<1>4. s \in Seq(T!Ask) /\ Len(s) = Len(asks[t]) + 1 /\ s[Len(asks[t]) + 1] = a /\ s # <<>>
  BY <1>1, <1>2, AppendProperties
<1> HIDE DEF s
<1>5. asks' \in [Tab -> Seq(T!Ask)] /\ asks'[t] = s /\ \A u \in Tab : u # t => asks'[u] = asks[u]
  BY <1>1, <1>3, <1>4 DEF s
<1>6. Len(s) =< MaxAsks
  <2>1. Len(asks[t]) \in Nat BY <1>1
  <2> QED BY <1>1, <1>4, <2>1 DEF TrackerConstants
<1>7. T!Last(s) = a BY <1>4 DEF T!Last
<1> QED BY <1>2, <1>4, <1>5, <1>6, <1>7 DEF T!TrackerTypeOK

\* A tab that nothing happened to.
LEMMA ListStays ==
  ASSUME NEW u \in Tab, T!ListFollows(u), tab'[u] = tab[u], asks'[u] = asks[u], own'[u] = own[u]
  PROVE  T!ListFollows(u)'
BY DEF T!ListFollows, T!Holds, T!Last

\* Nothing that bears on the filters.
LEMMA PicksStay ==
  ASSUME T!PicksInTurn, UNCHANGED <<env, saved, lastPick>>,
         \A u \in Tab : /\ tab'[u].loading = tab[u].loading /\ tab'[u].timer = tab[u].timer
                        /\ tab'[u].loaded = tab[u].loaded /\ (tab'[u].open => tab[u].open)
  PROVE  T!PicksInTurn'
BY DEF T!PicksInTurn, T!Busy, T!savedFilters

\* One tab gets another modal.
LEMMA ModalMoves ==
  ASSUME NEW t \in Tab, NEW x \in T!Modal, tab \in [Tab -> T!Modal], tab' = [tab EXCEPT ![t] = x]
  PROVE  tab' \in [Tab -> T!Modal] /\ tab'[t] = x /\ \A u \in Tab : u # t => tab'[u] = tab[u]
OBVIOUS

\* An edit of a row by a tab: the row is one, and the tab has its edit in hand.
LEMMA TrackerEdits ==
  ASSUME TrackerConstants, Patient, T!TrackerInv,
         NEW t \in Tab, NEW i \in Issue, NEW r \in T!Row, T!edited(t, i, r)
  PROVE  T!TrackerInv'
<1>1. /\ tab \in [Tab -> T!Modal] /\ ledger \in [Issue -> T!Row] /\ env \in TrackerEnvs
      /\ own \in [Tab -> [Issue -> 0 .. MaxIssueChanges]]
      /\ steps \in [picks : 0 .. MaxPicks, changes : 0 .. MaxIssueChanges, opens : 0 .. MaxOpens]
      /\ T!PicksInTurn /\ \A i0 \in Issue : ledger[i0].ver =< steps.changes
      /\ \A u \in Tab : T!ListFollows(u) /\ T!Holds(u, ledger)
  BY DEF T!TrackerInv, T!TrackerTypeOK
<1> DEFINE c == steps.changes + 1
<1>2. /\ steps.changes < MaxIssueChanges /\ tab[t].after = None /\ ~ tab[t].loading
      /\ ledger' = [ledger EXCEPT ![i] = [r EXCEPT !.ver = c]]
      /\ own' = [own EXCEPT ![t][i] = c]
      /\ steps' = [steps EXCEPT !.changes = c]
      /\ tab' = [tab EXCEPT ![t].after = tab[t].filters.showDeleted]
      /\ UNCHANGED <<env, saved, lastPick, asks>>
  <2>1. "hasty" \notin env BY <1>1 DEF Patient
  <2> QED BY <2>1 DEF T!edited, T!Stamped
<1>3. c \in 0 .. MaxIssueChanges /\ steps.changes \in Nat BY <1>1, <1>2 DEF TrackerConstants
<1>4. [r EXCEPT !.ver = c] \in T!Row /\ [r EXCEPT !.ver = c].ver = c BY <1>3 DEF T!Row
<1>5. /\ ledger' \in [Issue -> T!Row] /\ ledger'[i].ver = c
      /\ \A j \in Issue : j # i => ledger'[j] = ledger[j]
  BY <1>1, <1>2, <1>4
<1>6. /\ own' \in [Tab -> [Issue -> 0 .. MaxIssueChanges]] /\ own'[t][i] = c
      /\ \A u \in Tab, j \in Issue : u # t \/ j # i => own'[u][j] = own[u][j]
  BY <1>1, <1>2, <1>3
<1>7. /\ steps' \in [picks : 0 .. MaxPicks, changes : 0 .. MaxIssueChanges, opens : 0 .. MaxOpens]
      /\ steps'.changes = c
  BY <1>1, <1>2, <1>3
<1> HIDE DEF c
<1>8. tab[t].filters.showDeleted \in BOOLEAN BY <1>1 DEF T!Modal, T!Filters
<1>9. /\ tab' \in [Tab -> T!Modal] /\ \A u \in Tab : u # t => tab'[u] = tab[u]
      /\ tab'[t].after = tab[t].filters.showDeleted /\ tab'[t].filters = tab[t].filters
      /\ tab'[t].loading = tab[t].loading /\ tab'[t].timer = tab[t].timer
      /\ tab'[t].loaded = tab[t].loaded /\ tab'[t].open = tab[t].open
  <2> DEFINE x == [tab[t] EXCEPT !.after = tab[t].filters.showDeleted]
  <2>1. tab' = [tab EXCEPT ![t] = x] BY <1>2
  <2>2. /\ x \in T!Modal /\ x.after = tab[t].filters.showDeleted /\ x.filters = tab[t].filters
        /\ x.loading = tab[t].loading /\ x.timer = tab[t].timer
        /\ x.loaded = tab[t].loaded /\ x.open = tab[t].open
    BY <1>1, <1>8 DEF T!Modal
  <2> HIDE DEF x
  <2> QED BY <1>1, <2>1, <2>2, ModalMoves
<1>10. T!TrackerTypeOK' BY <1>2, <1>5, <1>6, <1>7, <1>9 DEF T!TrackerInv, T!TrackerTypeOK
<1>11. T!PicksInTurn' BY <1>1, <1>2, <1>9, PicksStay
<1>12. \A j \in Issue : ledger'[j].ver =< steps'.changes
  <2> SUFFICES ASSUME NEW j \in Issue PROVE ledger'[j].ver =< steps'.changes OBVIOUS
  <2>1. ledger[j].ver \in Nat BY <1>1 DEF T!Row
  <2> QED BY <1>1, <1>3, <1>5, <1>7, <2>1 DEF c
<1>13. ASSUME NEW u \in Tab PROVE T!ListFollows(u)' /\ T!Holds(u, ledger)'
  <2>1. T!Holds(u, ledger)'
    <3> SUFFICES ASSUME NEW j \in Issue PROVE ledger'[j].ver >= own'[u][j] BY DEF T!Holds
    <3>1. ledger[j].ver >= own[u][j] /\ ledger[j].ver =< steps.changes /\ ledger[j].ver \in Nat /\ own[u][j] \in Nat
      BY <1>1 DEF T!Holds, T!Row
    <3> QED BY <1>3, <1>5, <1>6, <3>1 DEF c
  <2>2. CASE u = t
    <3>1. tab'[t].after # None BY <1>8, <1>9 DEF TrackerConstants
    <3> QED BY <1>2, <1>9, <2>1, <2>2, <3>1 DEF T!ListFollows
  <2>3. CASE u # t
    <3>1. own[u] \in [Issue -> 0 .. MaxIssueChanges] /\ own'[u] \in [Issue -> 0 .. MaxIssueChanges]
      BY <1>1, <1>6
    <3>2. own'[u] = own[u] BY <1>1, <1>2, <2>3
    <3> QED BY <1>1, <1>2, <1>9, <2>1, <2>3, <3>2, ListStays
  <2> QED BY <2>2, <2>3
<1> QED BY <1>10, <1>11, <1>12, <1>13 DEF T!TrackerInv

\* What the user does with the tracker and its filters, and what loads and saves them.
LEMMA TrackerPicks ==
  ASSUME TrackerConstants, Patient, T!TrackerInv, NEW t \in Tab,
         \/ T!openTracker(t) \/ T!filtersLoaded(t) \/ T!filtersNotLoaded(t) \/ T!saveFilters(t)
         \/ T!closeTracker(t) \/ \E f \in Pick : T!setFilters(t, f)
  PROVE  T!TrackerInv'
<1>1. /\ T!TrackerTypeOK /\ tab \in [Tab -> T!Modal] /\ env \in TrackerEnvs
      /\ steps \in [picks : 0 .. MaxPicks, changes : 0 .. MaxIssueChanges, opens : 0 .. MaxOpens]
      /\ saved \in T!Filters \cup {None} /\ lastPick \in T!Filters /\ asks \in [Tab -> Seq(T!Ask)]
      /\ T!PicksInTurn /\ \A i \in Issue : ledger[i].ver =< steps.changes
      /\ \A u \in Tab : T!ListFollows(u) /\ T!Holds(u, ledger)
  BY DEF T!TrackerInv, T!TrackerTypeOK
<1>2. /\ "blip" \notin env /\ "hasty" \notin env /\ ("slow" \in env => "reopen" \notin env)
      /\ lastPick # None
  BY <1>1 DEF Patient, TrackerConstants
<1>3. T!Quiet => \A u \in Tab : ~ tab[u].loading /\ tab[u].timer = None /\ tab[u].after = None
  BY <1>2 DEF T!Quiet, T!Settled
<1>4. UNCHANGED <<ledger, own>> =>
        (\A u \in Tab : T!Holds(u, ledger)') /\ (\A u \in Tab, rows \in [Issue -> T!Row] : T!Holds(u, rows) => T!Holds(u, rows)')
  BY <1>1 DEF T!Holds
<1>5. T!savedFilters \in T!Filters BY <1>1 DEF T!savedFilters, TrackerConstants
<1>6. CASE T!openTracker(t)
  <2> DEFINE m == [tab[t] EXCEPT !.open = TRUE, !.loading = TRUE]
             x == T!effect(m)
  <2>1. /\ steps.opens < MaxOpens /\ steps' = [steps EXCEPT !.opens = steps.opens + 1]
        /\ (tab[t].loaded => "reopen" \in env)
        /\ \A u \in Tab : ~ tab[u].loading /\ tab[u].timer = None /\ tab[u].after = None
        /\ tab' = [tab EXCEPT ![t] = x]
        /\ UNCHANGED <<env, ledger, saved, lastPick, asks, own>>
    BY <1>3, <1>6 DEF T!openTracker
  <2>2. /\ m \in T!Modal /\ m.loading = TRUE /\ m.open = TRUE /\ m.loaded = tab[t].loaded
        /\ m.filters = tab[t].filters /\ m.rows = tab[t].rows /\ m.all = tab[t].all
        /\ m.fetched = tab[t].fetched /\ m.after = tab[t].after
    BY <1>1 DEF T!Modal
  <2> HIDE DEF m
  <2>3. /\ x \in T!Modal /\ x.loading = TRUE /\ x.rows = tab[t].rows /\ x.after = tab[t].after
        /\ x.fetched = tab[t].fetched /\ (~ tab[t].loaded => x.timer = None)
    BY <2>2, ModalEffect
  <2> HIDE DEF x
  <2>4. tab' \in [Tab -> T!Modal] /\ tab'[t] = x /\ \A u \in Tab : u # t => tab'[u] = tab[u]
    BY <1>1, <2>1, <2>3, ModalMoves
  <2>5. steps' \in [picks : 0 .. MaxPicks, changes : 0 .. MaxIssueChanges, opens : 0 .. MaxOpens]
        /\ steps'.changes = steps.changes
    <3>1. steps.opens + 1 \in 0 .. MaxOpens BY <1>1, <2>1 DEF TrackerConstants
    <3> QED BY <1>1, <2>1, <3>1
  <2>6. T!TrackerTypeOK' BY <1>1, <2>1, <2>4, <2>5 DEF T!TrackerTypeOK
  <2>7. T!savedFilters' = lastPick'
    BY <1>1, <2>1 DEF T!PicksInTurn, T!Busy, T!savedFilters
  <2>8. T!PicksInTurn'
    <3>1. \A u \in Tab : T!Busy(u)' => u = t BY <2>1, <2>4 DEF T!Busy
    <3>2. tab'[t].loading /\ (tab'[t].timer = None \/ "slow" \notin env') BY <1>2, <2>1, <2>3, <2>4
    <3>3. \A u \in Tab : u # t => tab'[u] = tab[u] /\ ~ tab[u].loading /\ tab[u].timer = None BY <2>1, <2>4
    <3>4. \A u \in Tab : tab[u].open => tab[u].loading \/ tab[u].loaded BY <1>1 DEF T!PicksInTurn
    <3> QED BY <2>7, <3>1, <3>2, <3>3, <3>4 DEF T!PicksInTurn
  <2>9. ASSUME NEW u \in Tab PROVE T!ListFollows(u)'
    <3>1. CASE u # t BY <1>1, <2>1, <2>4, <3>1, ListStays
    <3>2. CASE u = t
      <4>1. T!ListFollows(t)' BY <1>1, <2>1, <2>3, <2>4 DEF T!ListFollows, T!Holds, T!Last
      <4> QED BY <3>2, <4>1
    <3> QED BY <3>1, <3>2
  <2> QED BY <1>1, <1>4, <2>1, <2>5, <2>6, <2>8, <2>9 DEF T!TrackerInv
<1>7. CASE T!filtersLoaded(t)
  <2> DEFINE f == T!savedFilters
             m == [tab[t] EXCEPT !.loading = FALSE, !.loaded = TRUE, !.filters = f]
             x == T!effect(m)
  <2>1. /\ tab[t].loading /\ tab' = [tab EXCEPT ![t] = x] /\ T!refetch(t, f.showDeleted)
        /\ UNCHANGED <<env, ledger, saved, lastPick, own, steps>>
    BY <1>7 DEF T!filtersLoaded
  <2>2. /\ m \in T!Modal /\ m.loading = FALSE /\ m.loaded = TRUE /\ m.filters = f
        /\ m.after = tab[t].after
    BY <1>1, <1>5 DEF T!Modal
  <2>3. f = lastPick /\ f \in T!Filters /\ f.showDeleted \in BOOLEAN
    BY <1>1, <2>1, <1>5 DEF T!PicksInTurn, T!Filters
  <2> HIDE DEF m, f
  <2>4. /\ x \in T!Modal /\ x.loading = FALSE /\ x.loaded = TRUE /\ x.filters = f
        /\ x.after = tab[t].after /\ x.timer \in {None, f}
    BY <2>2, ModalEffect
  <2> HIDE DEF x
  <2>5. tab' \in [Tab -> T!Modal] /\ tab'[t] = x /\ \A u \in Tab : u # t => tab'[u] = tab[u]
    BY <1>1, <2>1, <2>4, ModalMoves
  <2>6. /\ asks' \in [Tab -> Seq(T!Ask)] /\ \A u \in Tab : Len(asks'[u]) =< MaxAsks
        /\ \A u \in Tab : u # t => asks'[u] = asks[u]
        /\ asks'[t] # <<>> /\ T!Last(asks'[t]).all = f.showDeleted /\ T!Last(asks'[t]).rows = None
    BY <1>1, <2>1, <2>3, ListAsked
  <2>7. T!TrackerTypeOK' BY <1>1, <2>1, <2>5, <2>6 DEF T!TrackerTypeOK
  <2>8. T!PicksInTurn'
    <3>1. \A u \in Tab : u # t => ~ T!Busy(u) BY <1>1, <2>1 DEF T!PicksInTurn, T!Busy
    <3>2. \A u \in Tab : u # t => tab'[u] = tab[u] /\ ~ tab[u].loading /\ tab[u].timer = None
      BY <2>5, <3>1 DEF T!Busy
    <3>3. T!savedFilters' = lastPick' BY <2>1, <2>3 DEF T!savedFilters, f
    <3>4. \A u \in Tab : tab[u].open => tab[u].loading \/ tab[u].loaded BY <1>1 DEF T!PicksInTurn
    <3> QED BY <2>1, <2>3, <2>4, <2>5, <3>2, <3>3, <3>4 DEF T!PicksInTurn, T!Busy
  <2>9. ASSUME NEW u \in Tab PROVE T!ListFollows(u)'
    <3>1. CASE u # t BY <1>1, <2>1, <2>5, <2>6, <3>1, ListStays
    <3>2. CASE u = t
      <4>1. tab[t].after = None BY <1>1, <2>1 DEF T!ListFollows
      <4>2. T!ListFollows(t)' BY <2>4, <2>5, <2>6, <4>1 DEF T!ListFollows
      <4> QED BY <3>2, <4>2
    <3> QED BY <3>1, <3>2
  <2> QED BY <1>1, <1>4, <2>1, <2>7, <2>8, <2>9 DEF T!TrackerInv
<1>8. CASE T!filtersNotLoaded(t) BY <1>2, <1>8 DEF T!filtersNotLoaded
<1>9. CASE T!saveFilters(t)
  <2> DEFINE x == [tab[t] EXCEPT !.timer = None]
  <2>1. /\ tab[t].timer # None /\ (tab[t].loading => "slow" \in env) /\ saved' = tab[t].timer
        /\ tab' = [tab EXCEPT ![t] = x]
        /\ UNCHANGED <<env, ledger, lastPick, asks, own, steps>>
    BY <1>9 DEF T!saveFilters
  <2>2. ~ tab[t].loading /\ tab[t].timer = lastPick BY <1>1, <2>1 DEF T!PicksInTurn
  <2>3. /\ x \in T!Modal /\ x.timer = None /\ x.loading = tab[t].loading /\ x.loaded = tab[t].loaded
        /\ x.open = tab[t].open /\ x.after = tab[t].after /\ x.filters = tab[t].filters
        /\ x.rows = tab[t].rows /\ x.all = tab[t].all /\ x.fetched = tab[t].fetched
    BY <1>1 DEF T!Modal
  <2> HIDE DEF x
  <2>4. tab' \in [Tab -> T!Modal] /\ tab'[t] = x /\ \A u \in Tab : u # t => tab'[u] = tab[u]
    BY <1>1, <2>1, <2>3, ModalMoves
  <2>5. T!TrackerTypeOK' BY <1>1, <2>1, <2>2, <2>4 DEF T!TrackerTypeOK
  <2>6. T!PicksInTurn'
    <3>1. \A u \in Tab : u # t => ~ T!Busy(u) BY <1>1, <2>1 DEF T!PicksInTurn, T!Busy
    <3>2. \A u \in Tab : ~ T!Busy(u)' BY <2>2, <2>3, <2>4, <3>1 DEF T!Busy
    <3>3. T!savedFilters' = lastPick' BY <1>2, <2>1, <2>2 DEF T!savedFilters
    <3>4. \A u \in Tab : tab'[u].open => tab'[u].loading \/ tab'[u].loaded
      BY <1>1, <2>3, <2>4 DEF T!PicksInTurn
    <3> QED BY <3>2, <3>3, <3>4 DEF T!PicksInTurn, T!Busy
  <2>7. ASSUME NEW u \in Tab PROVE T!ListFollows(u)'
    <3>1. CASE u # t BY <1>1, <2>1, <2>4, <3>1, ListStays
    <3>2. CASE u = t
      <4>1. T!ListFollows(t)' BY <1>1, <2>1, <2>3, <2>4 DEF T!ListFollows, T!Holds, T!Last
      <4> QED BY <3>2, <4>1
    <3> QED BY <3>1, <3>2
  <2> QED BY <1>1, <1>4, <2>1, <2>5, <2>6, <2>7 DEF T!TrackerInv
<1>10. CASE T!closeTracker(t)
  <2> DEFINE m == [tab[t] EXCEPT !.open = FALSE]
             x == T!effect(m)
  <2>1. /\ ~ tab[t].loading /\ tab[t].timer = None /\ tab[t].after = None
        /\ tab' = [tab EXCEPT ![t] = x]
        /\ UNCHANGED <<env, ledger, saved, lastPick, asks, own, steps>>
    BY <1>2, <1>10 DEF T!closeTracker, T!Settled
  <2>2. /\ m \in T!Modal /\ m.loading = tab[t].loading /\ m.open = FALSE /\ m.loaded = tab[t].loaded
        /\ m.filters = tab[t].filters /\ m.rows = tab[t].rows /\ m.all = tab[t].all
        /\ m.fetched = tab[t].fetched /\ m.after = tab[t].after
    BY <1>1 DEF T!Modal
  <2> HIDE DEF m
  <2>3. /\ x \in T!Modal /\ x.timer = None /\ x.loading = tab[t].loading /\ x.loaded = tab[t].loaded
        /\ x.open = FALSE /\ x.after = tab[t].after /\ x.filters = tab[t].filters
        /\ x.rows = tab[t].rows /\ x.all = tab[t].all /\ x.fetched = tab[t].fetched
    BY <2>2, ModalEffect
  <2> HIDE DEF x
  <2>4. tab' \in [Tab -> T!Modal] /\ tab'[t] = x /\ \A u \in Tab : u # t => tab'[u] = tab[u]
    BY <1>1, <2>1, <2>3, ModalMoves
  <2>5. T!TrackerTypeOK' BY <1>1, <2>1, <2>4 DEF T!TrackerTypeOK
  <2>6. T!PicksInTurn' BY <1>1, <2>1, <2>3, <2>4, PicksStay
  <2>7. ASSUME NEW u \in Tab PROVE T!ListFollows(u)'
    <3>1. CASE u # t BY <1>1, <2>1, <2>4, <3>1, ListStays
    <3>2. CASE u = t
      <4>1. T!ListFollows(t)' BY <1>1, <2>1, <2>3, <2>4 DEF T!ListFollows, T!Holds, T!Last
      <4> QED BY <3>2, <4>1
    <3> QED BY <3>1, <3>2
  <2> QED BY <1>1, <1>4, <2>1, <2>5, <2>6, <2>7 DEF T!TrackerInv
<1>11. ASSUME NEW f \in Pick, T!setFilters(t, f) PROVE T!TrackerInv'
  <2> DEFINE m == [tab[t] EXCEPT !.filters = f]
             x == T!effect(m)
  <2>1. /\ tab[t].open /\ steps.picks < MaxPicks /\ steps' = [steps EXCEPT !.picks = steps.picks + 1]
        /\ \A u \in Tab : ~ tab[u].loading /\ tab[u].timer = None /\ tab[u].after = None
        /\ tab' = [tab EXCEPT ![t] = x] /\ lastPick' = f
        /\ UNCHANGED <<env, saved, ledger, own>>
        /\ T!refetch(t, f.showDeleted)
           \/ (f.showDeleted = tab[t].filters.showDeleted /\ asks' = asks)
    BY <1>3, <1>11 DEF T!setFilters
  <2>2. f \in T!Filters /\ f.showDeleted \in BOOLEAN /\ f # None
    BY DEF TrackerConstants, T!Filters
  <2>3. /\ m \in T!Modal /\ m.loading = tab[t].loading /\ m.open = tab[t].open
        /\ m.loaded = tab[t].loaded /\ m.filters = f /\ m.rows = tab[t].rows /\ m.all = tab[t].all
        /\ m.fetched = tab[t].fetched /\ m.after = tab[t].after
    BY <1>1, <2>2 DEF T!Modal
  <2>4. tab[t].loaded BY <1>1, <2>1 DEF T!PicksInTurn
  <2> HIDE DEF m
  <2>5. /\ x \in T!Modal /\ x.timer = f /\ x.loading = tab[t].loading /\ x.loaded = tab[t].loaded
        /\ x.after = tab[t].after /\ x.filters = f
        /\ x.rows = tab[t].rows /\ x.all = tab[t].all /\ x.fetched = tab[t].fetched
    <3>1. /\ x \in T!Modal /\ x.loading = m.loading /\ x.loaded = m.loaded /\ x.after = m.after
          /\ x.filters = m.filters /\ x.rows = m.rows /\ x.all = m.all /\ x.fetched = m.fetched
          /\ x.timer = IF m.open /\ m.loaded THEN m.filters ELSE None
      BY <2>3, ModalEffect
    <3> HIDE DEF x
    <3> QED BY <2>1, <2>3, <2>4, <3>1
  <2> HIDE DEF x
  <2>6. tab' \in [Tab -> T!Modal] /\ tab'[t] = x /\ \A u \in Tab : u # t => tab'[u] = tab[u]
    BY <1>1, <2>1, <2>5, ModalMoves
  <2>7. steps' \in [picks : 0 .. MaxPicks, changes : 0 .. MaxIssueChanges, opens : 0 .. MaxOpens]
        /\ steps'.changes = steps.changes
    <3>1. steps.picks + 1 \in 0 .. MaxPicks BY <1>1, <2>1 DEF TrackerConstants
    <3> QED BY <1>1, <2>1, <3>1
  <2>8. /\ asks' \in [Tab -> Seq(T!Ask)] /\ \A u \in Tab : Len(asks'[u]) =< MaxAsks
        /\ \A u \in Tab : u # t => asks'[u] = asks[u]
        /\ \/ asks'[t] # <<>> /\ T!Last(asks'[t]).all = f.showDeleted /\ T!Last(asks'[t]).rows = None
           \/ f.showDeleted = tab[t].filters.showDeleted /\ asks'[t] = asks[t]
    <3>1. CASE T!refetch(t, f.showDeleted) BY <1>1, <2>2, <3>1, ListAsked
    <3>2. CASE f.showDeleted = tab[t].filters.showDeleted /\ asks' = asks
      BY <1>1, <3>2 DEF T!TrackerTypeOK
    <3> QED BY <2>1, <3>1, <3>2
  <2>9. T!TrackerTypeOK' BY <1>1, <2>1, <2>2, <2>6, <2>7, <2>8 DEF T!TrackerTypeOK
  <2>10. T!PicksInTurn'
    <3>1. tab'[t].timer = f /\ ~ tab'[t].loading /\ tab'[t].loaded BY <2>1, <2>4, <2>5, <2>6
    <3>2. \A u \in Tab : u # t => ~ T!Busy(u)' /\ ~ tab'[u].loading /\ tab'[u].timer = None
      BY <2>1, <2>6 DEF T!Busy
    <3>3. T!Busy(t)' BY <2>2, <3>1 DEF T!Busy
    <3>4. \A u \in Tab : u # t => (tab'[u].open => tab'[u].loading \/ tab'[u].loaded)
      BY <1>1, <2>6 DEF T!PicksInTurn
    <3> QED BY <2>1, <3>1, <3>2, <3>3, <3>4 DEF T!PicksInTurn
  <2>11. ASSUME NEW u \in Tab PROVE T!ListFollows(u)'
    <3>1. CASE u # t BY <1>1, <2>1, <2>6, <2>8, <3>1, ListStays
    <3>2. CASE u = t
      <4>1. tab'[t].after = None /\ ~ tab'[t].loading /\ tab'[t].filters = f BY <2>1, <2>5, <2>6
      <4>2. CASE asks'[t] # <<>> /\ T!Last(asks'[t]).all = f.showDeleted /\ T!Last(asks'[t]).rows = None
        BY <3>2, <4>1, <4>2 DEF T!ListFollows
      <4>3. CASE f.showDeleted = tab[t].filters.showDeleted /\ asks'[t] = asks[t]
        <5>1. /\ tab'[t].rows = tab[t].rows /\ tab'[t].all = tab[t].all
              /\ tab'[t].fetched = tab[t].fetched /\ own'[t] = own[t]
          BY <2>1, <2>5, <2>6
        <5>2. tab[t].after = None /\ ~ tab[t].loading /\ T!ListFollows(t) BY <1>1, <2>1
        <5>3. T!ListFollows(t)'
          BY <4>1, <4>3, <5>1, <5>2 DEF T!ListFollows, T!Holds, T!Last
        <5> QED BY <3>2, <5>3
      <4> QED BY <2>8, <4>2, <4>3
    <3> QED BY <3>1, <3>2
  <2> QED BY <1>1, <1>4, <2>1, <2>7, <2>9, <2>10, <2>11 DEF T!TrackerInv
<1> QED BY <1>6, <1>7, <1>8, <1>9, <1>10, <1>11
\* The first taken from a sequence leaves its last, unless it was that.
LEMMA FirstTaken ==
  ASSUME NEW A, NEW s \in Seq(A), 1 \in DOMAIN s, NEW r, r = Without(s, 1)
  PROVE  /\ r \in Seq(A) /\ Len(r) = Len(s) - 1 /\ Len(s) \in Nat /\ s # <<>>
         /\ Len(s) = 1 => r = <<>>
         /\ Len(s) # 1 => r # <<>> /\ r[Len(r)] = s[Len(s)]
<1>1. /\ r \in Seq(A) /\ Len(r) = Len(s) - 1 /\ Len(s) \in Nat
      /\ \A k \in 1 .. Len(s) - 1 : r[k] = IF k < 1 THEN s[k] ELSE s[k + 1]
  BY RowsRemoved
<1>2. Len(s) >= 1 /\ s # <<>> BY <1>1
<1>3. Len(s) # 1 => Len(s) - 1 \in 1 .. Len(s) - 1 BY <1>1, <1>2
<1> QED BY <1>1, <1>2, <1>3

\* A request for the list is served, answered or made; a refused edit and one
\* of Claude Code's change what the tab shows at most.
LEMMA TrackerLists ==
  ASSUME TrackerConstants, Patient, T!TrackerInv, NEW t \in Tab,
         \/ T!afterMutation(t) \/ \E i \in Issue : T!editRefused(t, i)
         \/ \E k \in DOMAIN asks[t] : T!listServed(t, k) \/ T!listArrived(t, k) \/ T!listFailed(t, k)
  PROVE  T!TrackerInv'
<1>1. /\ T!TrackerTypeOK /\ tab \in [Tab -> T!Modal] /\ env \in TrackerEnvs
      /\ ledger \in [Issue -> T!Row] /\ asks \in [Tab -> Seq(T!Ask)]
      /\ \A u \in Tab : Len(asks[u]) =< MaxAsks
      /\ T!PicksInTurn /\ \A i \in Issue : ledger[i].ver =< steps.changes
      /\ \A u \in Tab : T!ListFollows(u) /\ T!Holds(u, ledger)
  BY DEF T!TrackerInv, T!TrackerTypeOK
<1>2. "blip" \notin env /\ "hasty" \notin env /\ "reorder" \notin env BY <1>1 DEF Patient
<1>3. UNCHANGED <<ledger, own>> =>
        (\A u \in Tab : T!Holds(u, ledger)') /\ (\A u \in Tab : \A rows : T!Holds(u, rows) => T!Holds(u, rows)')
  BY <1>1 DEF T!Holds
<1>4. ASSUME UNCHANGED <<env, ledger, saved, lastPick, own, steps>>,
             T!TrackerTypeOK', T!ListFollows(t)',
             \A u \in Tab : u # t => tab'[u] = tab[u] /\ asks'[u] = asks[u],
             /\ tab'[t].loading = tab[t].loading /\ tab'[t].timer = tab[t].timer
             /\ tab'[t].loaded = tab[t].loaded /\ tab'[t].open = tab[t].open
      PROVE  T!TrackerInv'
  <2>1. T!PicksInTurn' BY <1>1, <1>4, PicksStay
  <2>2. \A u \in Tab : T!ListFollows(u)' BY <1>1, <1>4, ListStays
  <2> QED BY <1>1, <1>3, <1>4, <2>1, <2>2 DEF T!TrackerInv
<1>5. tab[t] \in T!Modal /\ asks[t] \in Seq(T!Ask) /\ T!ListFollows(t) BY <1>1
<1>6. CASE T!afterMutation(t)
  <2> DEFINE x == [tab[t] EXCEPT !.after = None]
  <2>1. /\ tab[t].after # None /\ T!refetch(t, tab[t].after) /\ tab' = [tab EXCEPT ![t] = x]
        /\ UNCHANGED <<env, ledger, saved, lastPick, own, steps>>
    BY <1>6 DEF T!afterMutation
  <2>2. /\ x \in T!Modal /\ x.after = None /\ x.filters = tab[t].filters
        /\ x.loading = tab[t].loading /\ x.timer = tab[t].timer
        /\ x.loaded = tab[t].loaded /\ x.open = tab[t].open
    BY <1>5 DEF T!Modal
  <2>3. /\ tab[t].after \in BOOLEAN /\ tab[t].after = tab[t].filters.showDeleted
        /\ ~ tab[t].loading
    BY <1>5, <2>1 DEF T!Modal, T!ListFollows
  <2> HIDE DEF x
  <2>4. tab' \in [Tab -> T!Modal] /\ tab'[t] = x /\ \A u \in Tab : u # t => tab'[u] = tab[u]
    BY <1>1, <2>1, <2>2, ModalMoves
  <2>5. /\ asks' \in [Tab -> Seq(T!Ask)] /\ \A u \in Tab : Len(asks'[u]) =< MaxAsks
        /\ \A u \in Tab : u # t => asks'[u] = asks[u]
        /\ asks'[t] # <<>> /\ T!Last(asks'[t]).all = tab[t].after /\ T!Last(asks'[t]).rows = None
    BY <1>1, <2>1, <2>3, ListAsked
  <2>6. T!TrackerTypeOK' BY <1>1, <2>1, <2>4, <2>5 DEF T!TrackerTypeOK
  <2>7. T!ListFollows(t)' BY <2>2, <2>3, <2>4, <2>5 DEF T!ListFollows
  <2> QED BY <1>4, <2>1, <2>2, <2>4, <2>5, <2>6, <2>7
<1>7. ASSUME NEW i \in Issue, T!editRefused(t, i) PROVE T!TrackerInv'
  <2> DEFINE x == [tab[t] EXCEPT !.after = tab[t].filters.showDeleted]
  <2>1. /\ ~ tab[t].loading /\ tab' = [tab EXCEPT ![t] = x]
        /\ UNCHANGED <<env, ledger, saved, lastPick, asks, own, steps>>
    BY <1>2, <1>7 DEF T!editRefused
  <2>2. tab[t].filters.showDeleted \in BOOLEAN BY <1>5 DEF T!Modal, T!Filters
  <2>3. /\ x \in T!Modal /\ x.after = tab[t].filters.showDeleted /\ x.filters = tab[t].filters
        /\ x.loading = tab[t].loading /\ x.timer = tab[t].timer
        /\ x.loaded = tab[t].loaded /\ x.open = tab[t].open
    BY <1>5, <2>2 DEF T!Modal
  <2> HIDE DEF x
  <2>4. tab' \in [Tab -> T!Modal] /\ tab'[t] = x /\ \A u \in Tab : u # t => tab'[u] = tab[u]
    BY <1>1, <2>1, <2>3, ModalMoves
  <2>5. T!TrackerTypeOK' BY <1>1, <2>1, <2>4 DEF T!TrackerTypeOK
  <2>6. tab'[t].after # None BY <2>2, <2>3, <2>4 DEF TrackerConstants
  <2>7. T!ListFollows(t)' BY <2>1, <2>3, <2>4, <2>6 DEF T!ListFollows
  <2> QED BY <1>4, <2>1, <2>3, <2>4, <2>5, <2>7
<1>8. ASSUME NEW k \in DOMAIN asks[t], T!listServed(t, k) PROVE T!TrackerInv'
  <2> DEFINE a == [asks[t][k] EXCEPT !.rows = ledger]
             s == [asks[t] EXCEPT ![k] = a]
  <2>1. /\ asks' = [asks EXCEPT ![t] = s]
        /\ UNCHANGED <<env, ledger, saved, lastPick, tab, own, steps>>
    BY <1>8 DEF T!listServed
  <2>2. a \in T!Ask /\ a.all = asks[t][k].all /\ a.rows = ledger
    <3>1. asks[t][k] \in T!Ask BY <1>5
    <3> QED BY <1>1, <3>1 DEF T!Ask
  <2> HIDE DEF a
  <2>3. /\ s \in Seq(T!Ask) /\ Len(s) = Len(asks[t]) /\ s[k] = a /\ s # <<>> /\ asks[t] # <<>>
        /\ Len(s) \in DOMAIN asks[t] /\ \A j \in DOMAIN asks[t] : j # k => s[j] = asks[t][j]
    <3>1. asks[t] \in [1 .. Len(asks[t]) -> T!Ask] /\ Len(asks[t]) \in Nat BY <1>5
    <3>2. DOMAIN s = 1 .. Len(asks[t]) /\ s \in [1 .. Len(asks[t]) -> T!Ask] BY <2>2, <3>1
    <3> QED BY <1>5, <2>2, <3>1, <3>2
  <2> HIDE DEF s
  <2>4. asks' \in [Tab -> Seq(T!Ask)] /\ asks'[t] = s /\ \A u \in Tab : u # t => asks'[u] = asks[u]
    BY <1>1, <2>1, <2>3
  <2>5. T!TrackerTypeOK'
    <3>1. \A u \in Tab : Len(asks'[u]) =< MaxAsks BY <1>1, <2>3, <2>4
    <3> QED BY <1>1, <2>1, <2>4, <3>1 DEF T!TrackerTypeOK
  <2>6. T!ListFollows(t)'
    <3>1. T!Last(asks'[t]).all = T!Last(asks[t]).all
      BY <2>2, <2>3, <2>4 DEF T!Last
    <3>2. T!Last(asks'[t]).rows \in {T!Last(asks[t]).rows, ledger}
      BY <2>2, <2>3, <2>4 DEF T!Last
    <3>3. asks'[t] # <<>> /\ asks[t] # <<>> BY <2>3, <2>4
    <3>4. T!Holds(t, ledger)' /\ own' = own BY <1>1, <1>3, <2>1
    <3>5. T!Last(asks[t]).rows = None \/ T!Holds(t, T!Last(asks[t]).rows) =>
            (T!Last(asks[t]).rows = None \/ T!Holds(t, T!Last(asks[t]).rows))'
      <4> DEFINE old == T!Last(asks[t]).rows
                 new == T!Last(asks'[t]).rows
      <4> SUFFICES ASSUME old = None \/ \A i \in Issue : old[i].ver >= own[t][i]
                   PROVE  new = None \/ \A i \in Issue : new[i].ver >= own'[t][i]
        BY DEF T!Holds
      <4>1. \A i \in Issue : ledger'[i].ver >= own'[t][i] BY <3>4 DEF T!Holds
      <4>2. ledger' = ledger /\ own' = own BY <2>1
      <4>3. new = old \/ new = ledger BY <3>2
      <4> HIDE DEF old, new
      <4> QED BY <4>1, <4>2, <4>3
    <3>6. tab' = tab BY <2>1
    <3> QED BY <1>5, <3>1, <3>3, <3>5, <3>6 DEF T!ListFollows
  <2> QED BY <1>4, <2>1, <2>4, <2>5, <2>6
<1>9. ASSUME NEW k \in DOMAIN asks[t], T!listArrived(t, k) PROVE T!TrackerInv'
  <2> DEFINE x == [tab[t] EXCEPT !.rows = asks[t][1].rows, !.all = asks[t][1].all, !.fetched = TRUE]
             s == Without(asks[t], 1)
  <2>1. /\ asks[t][1].rows # None /\ asks' = [asks EXCEPT ![t] = s]
        /\ tab' = [tab EXCEPT ![t] = x] /\ 1 \in DOMAIN asks[t]
        /\ UNCHANGED <<env, ledger, saved, lastPick, own, steps>>
    <3>1. k = 1 BY <1>2, <1>9 DEF T!listArrived
    <3> QED BY <1>1, <1>9, <3>1 DEF T!listArrived, T!RemoveAt, Without
  <2>2. asks[t][1] \in T!Ask /\ asks[t][1].all \in BOOLEAN /\ asks[t][1].rows \in [Issue -> T!Row]
    <3>1. asks[t][1] \in T!Ask BY <1>5, <2>1
    <3> QED BY <2>1, <3>1 DEF T!Ask
  <2>3. /\ x \in T!Modal /\ x.after = tab[t].after /\ x.filters = tab[t].filters
        /\ x.loading = tab[t].loading /\ x.timer = tab[t].timer
        /\ x.loaded = tab[t].loaded /\ x.open = tab[t].open
        /\ x.rows = asks[t][1].rows /\ x.all = asks[t][1].all
    BY <1>5, <2>2 DEF T!Modal
  <2> HIDE DEF x
  <2>4. tab' \in [Tab -> T!Modal] /\ tab'[t] = x /\ \A u \in Tab : u # t => tab'[u] = tab[u]
    BY <1>1, <2>1, <2>3, ModalMoves
  <2>5. /\ s \in Seq(T!Ask) /\ Len(s) = Len(asks[t]) - 1 /\ Len(asks[t]) \in Nat /\ asks[t] # <<>>
        /\ Len(asks[t]) = 1 => s = <<>>
        /\ Len(asks[t]) # 1 => s # <<>> /\ s[Len(s)] = asks[t][Len(asks[t])]
    <3>1. asks[t] \in Seq(T!Ask) /\ 1 \in DOMAIN asks[t] /\ s = Without(asks[t], 1) BY <1>5, <2>1
    <3> HIDE DEF s
    <3> QED BY <3>1, FirstTaken
  <2> HIDE DEF s
  <2>6. asks' \in [Tab -> Seq(T!Ask)] /\ asks'[t] = s /\ \A u \in Tab : u # t => asks'[u] = asks[u]
    BY <1>1, <2>1, <2>5
  <2>7. T!TrackerTypeOK'
    <3>1. Len(asks'[t]) =< MaxAsks BY <1>1, <2>5, <2>6 DEF TrackerConstants
    <3>2. \A u \in Tab : Len(asks'[u]) =< MaxAsks BY <1>1, <2>6, <3>1
    <3> QED BY <1>1, <2>1, <2>4, <2>6, <3>2 DEF T!TrackerTypeOK
  <2>8. T!ListFollows(t)'
    <3>1. asks[t] # <<>> BY <2>5
    <3>2. CASE tab[t].after # None BY <1>5, <2>3, <2>4, <3>2 DEF T!ListFollows
    <3>3. CASE tab[t].after = None /\ Len(asks[t]) = 1
      <4>1. asks'[t] = <<>> BY <2>5, <2>6, <3>3
      <4>2. T!Last(asks[t]) = asks[t][1] BY <3>3 DEF T!Last
      <4>3. T!Holds(t, asks[t][1].rows) /\ (tab[t].loading \/ asks[t][1].all = tab[t].filters.showDeleted)
        BY <1>5, <2>1, <3>1, <3>3, <4>2 DEF T!ListFollows
      <4>4. T!Holds(t, tab[t].rows)' BY <2>1, <2>3, <2>4, <4>3 DEF T!Holds
      <4> QED BY <2>3, <2>4, <3>3, <4>1, <4>3, <4>4 DEF T!ListFollows
    <3>4. CASE tab[t].after = None /\ Len(asks[t]) # 1
      <4>1. s # <<>> /\ s[Len(s)] = asks[t][Len(asks[t])] BY <2>5, <3>4
      <4>2. T!Last(asks'[t]) = T!Last(asks[t]) BY <2>6, <4>1 DEF T!Last
      <4>3. /\ T!Last(asks[t]).rows = None \/ T!Holds(t, T!Last(asks[t]).rows)
            /\ tab[t].loading \/ T!Last(asks[t]).all = tab[t].filters.showDeleted
        BY <1>5, <3>1, <3>4 DEF T!ListFollows
      <4>4. T!Last(asks'[t]).rows = None \/ T!Holds(t, T!Last(asks[t]).rows)'
        BY <2>1, <4>2, <4>3 DEF T!Holds, T!Last
      <4> QED BY <2>3, <2>4, <2>6, <3>4, <4>1, <4>2, <4>3, <4>4 DEF T!ListFollows
    <3> QED BY <3>2, <3>3, <3>4
  <2> QED BY <1>4, <2>1, <2>3, <2>4, <2>6, <2>7, <2>8
<1>10. ASSUME NEW k \in DOMAIN asks[t], T!listFailed(t, k) PROVE T!TrackerInv'
  BY <1>2, <1>10 DEF T!listFailed
<1> QED BY <1>6, <1>7, <1>8, <1>9, <1>10

\* What an edit makes of a row is a row.
LEMMA EditsAreRows ==
  ASSUME NEW old \in T!Row, NEW actor, NEW r \in T!Edits(old, actor)
  PROVE  r \in T!Row
<1>1. CASE r \in {[old EXCEPT !.owner = o] : o \in T!Owner} BY <1>1 DEF T!Row
<1>2. CASE r = [old EXCEPT !.state = "todo", !.approved = FALSE] BY <1>2 DEF T!Row, T!State
<1>3. CASE r = [old EXCEPT !.state = "done",
                           !.approved = IF old.state = "done" THEN @ ELSE actor = "user"]
  <2> DEFINE signed == IF old.state = "done" THEN old.approved ELSE actor = "user"
  <2>1. signed \in BOOLEAN BY DEF T!Row
  <2>2. r = [old EXCEPT !.state = "done", !.approved = signed] BY <1>3
  <2> HIDE DEF signed
  <2> QED BY <2>1, <2>2 DEF T!Row, T!State
<1> QED BY <1>1, <1>2, <1>3 DEF T!Edits

LEMMA CcWorks ==
  ASSUME TrackerConstants, T!TrackerInv, NEW i \in Issue, T!ccUpdates(i)
  PROVE  T!TrackerInv'
<1>1. /\ ledger \in [Issue -> T!Row] /\ own \in [Tab -> [Issue -> 0 .. MaxIssueChanges]]
      /\ steps \in [picks : 0 .. MaxPicks, changes : 0 .. MaxIssueChanges, opens : 0 .. MaxOpens]
      /\ T!PicksInTurn /\ \A j \in Issue : ledger[j].ver =< steps.changes
      /\ \A u \in Tab : T!ListFollows(u) /\ T!Holds(u, ledger)
  BY DEF T!TrackerInv, T!TrackerTypeOK
<1> DEFINE c == steps.changes + 1
<1>2. PICK r \in T!Edits(ledger[i], "cc") :
        /\ ledger' = [ledger EXCEPT ![i] = [r EXCEPT !.ver = c]]
        /\ steps.changes < MaxIssueChanges /\ steps' = [steps EXCEPT !.changes = c]
        /\ UNCHANGED <<env, saved, lastPick, tab, asks, own>>
  BY DEF T!ccUpdates, T!Stamped
<1>3. c \in 0 .. MaxIssueChanges /\ steps.changes \in Nat BY <1>1, <1>2 DEF TrackerConstants
<1>4. r \in T!Row BY <1>1, EditsAreRows
<1>5. [r EXCEPT !.ver = c] \in T!Row /\ [r EXCEPT !.ver = c].ver = c BY <1>3, <1>4 DEF T!Row
<1>6. /\ ledger' \in [Issue -> T!Row] /\ ledger'[i].ver = c
      /\ \A j \in Issue : j # i => ledger'[j] = ledger[j]
  BY <1>1, <1>2, <1>5
<1>7. /\ steps' \in [picks : 0 .. MaxPicks, changes : 0 .. MaxIssueChanges, opens : 0 .. MaxOpens]
      /\ steps'.changes = c
  BY <1>1, <1>2, <1>3
<1>8. \A j \in Issue : /\ ledger[j].ver \in Nat /\ ledger'[j].ver >= ledger[j].ver
                       /\ ledger'[j].ver \in Nat /\ ledger'[j].ver =< steps'.changes
  <2> SUFFICES ASSUME NEW j \in Issue
               PROVE  /\ ledger[j].ver \in Nat /\ ledger'[j].ver >= ledger[j].ver
                      /\ ledger'[j].ver \in Nat /\ ledger'[j].ver =< steps'.changes
    OBVIOUS
  <2>1. ledger[j].ver \in Nat /\ ledger[j].ver =< steps.changes BY <1>1 DEF T!Row
  <2> QED BY <1>3, <1>6, <1>7, <2>1 DEF c
<1> HIDE DEF c
<1>9. \A u \in Tab : T!Holds(u, ledger)'
  <2> SUFFICES ASSUME NEW u \in Tab, NEW j \in Issue PROVE ledger'[j].ver >= own'[u][j]
    BY DEF T!Holds
  <2>1. own[u][j] \in Nat /\ ledger[j].ver >= own[u][j] BY <1>1 DEF T!Holds
  <2> QED BY <1>2, <1>8, <2>1
<1>10. T!TrackerTypeOK' BY <1>2, <1>6, <1>7 DEF T!TrackerInv, T!TrackerTypeOK
<1>11. T!PicksInTurn' BY <1>1, <1>2, PicksStay
<1>12. \A u \in Tab : T!ListFollows(u)' BY <1>1, <1>2, ListStays
<1> QED BY <1>8, <1>9, <1>10, <1>11, <1>12 DEF T!TrackerInv

LEMMA TrackerStep ==
  ASSUME TrackerConstants, Patient, T!TrackerInv, T!TrackerNext
  PROVE  T!TrackerInv'
<1>1. ledger \in [Issue -> T!Row] /\ tab \in [Tab -> T!Modal] BY DEF T!TrackerInv, T!TrackerTypeOK
<1>2. CASE \E i \in Issue : T!ccUpdates(i) BY <1>2, CcWorks
<1>3. ASSUME NEW t \in Tab, NEW i \in Issue,
             \/ T!quickSet(t, i) \/ T!submitDraft(t, i) \/ T!approve(t, i)
             \/ T!sendBack(t, i) \/ T!deleteIssue(t, i) \/ T!restoreIssue(t, i)
      PROVE  T!TrackerInv'
  <2>1. ledger[i] \in T!Row /\ tab[t].rows[i] \in T!Row BY <1>1 DEF T!Modal
  <2>2. \E r \in T!Row : T!edited(t, i, r)
    <3>1. CASE T!quickSet(t, i)
      <4>1. PICK r \in T!Edits(ledger[i], "user") : T!edited(t, i, r) BY <3>1 DEF T!quickSet
      <4> QED BY <2>1, <4>1, EditsAreRows
    <3>2. CASE T!submitDraft(t, i)
      <4>1. PICK r \in T!Edits(tab[t].rows[i], "user") :
              T!edited(t, i, [r EXCEPT !.approved = IF r.state = "done"
                                                    THEN r.approved \/ ledger[i].state # "done"
                                                    ELSE FALSE])
        BY <3>2 DEF T!submitDraft
      <4>2. r \in T!Row BY <2>1, EditsAreRows
      <4> DEFINE signed == IF r.state = "done" THEN r.approved \/ ledger[i].state # "done" ELSE FALSE
      <4>3. signed \in BOOLEAN BY <4>2 DEF T!Row
      <4>4. T!edited(t, i, [r EXCEPT !.approved = signed]) BY <4>1
      <4> HIDE DEF signed
      <4>5. [r EXCEPT !.approved = signed] \in T!Row BY <4>2, <4>3 DEF T!Row
      <4> QED BY <4>4, <4>5
    <3>3. CASE T!approve(t, i)
      <4>1. [ledger[i] EXCEPT !.approved = TRUE] \in T!Row BY <2>1 DEF T!Row
      <4> QED BY <3>3, <4>1 DEF T!approve
    <3>4. CASE T!sendBack(t, i)
      <4>1. [ledger[i] EXCEPT !.state = "todo", !.approved = FALSE] \in T!Row
        BY <2>1 DEF T!Row, T!State
      <4> QED BY <3>4, <4>1 DEF T!sendBack
    <3>5. CASE T!deleteIssue(t, i)
      <4>1. [ledger[i] EXCEPT !.deleted = TRUE] \in T!Row BY <2>1 DEF T!Row
      <4> QED BY <3>5, <4>1 DEF T!deleteIssue
    <3>6. CASE T!restoreIssue(t, i)
      <4>1. [ledger[i] EXCEPT !.deleted = FALSE] \in T!Row BY <2>1 DEF T!Row
      <4> QED BY <3>6, <4>1 DEF T!restoreIssue
    <3> QED BY <1>3, <3>1, <3>2, <3>3, <3>4, <3>5, <3>6
  <2> QED BY <2>2, TrackerEdits
<1>4. ASSUME NEW t \in Tab,
             \/ T!openTracker(t) \/ T!filtersLoaded(t) \/ T!filtersNotLoaded(t)
             \/ T!saveFilters(t) \/ T!closeTracker(t) \/ \E f \in Pick : T!setFilters(t, f)
      PROVE  T!TrackerInv'
  BY <1>4, TrackerPicks
<1>5. ASSUME NEW t \in Tab,
             \/ T!afterMutation(t) \/ \E i \in Issue : T!editRefused(t, i)
             \/ \E k \in DOMAIN asks[t] : T!listServed(t, k) \/ T!listArrived(t, k) \/ T!listFailed(t, k)
      PROVE  T!TrackerInv'
  BY <1>5, TrackerLists
<1> QED BY <1>2, <1>3, <1>4, <1>5 DEF T!TrackerNext

LEMMA TrackerShows ==
  ASSUME TrackerConstants, T!TrackerInv
  PROVE  T!LastPickKept /\ T!OwnEditsShow /\ T!CountsReveal
<1>1. /\ T!PicksInTurn /\ \A t \in Tab : T!ListFollows(t) /\ T!Holds(t, ledger)
      /\ tab \in [Tab -> T!Modal]
  BY DEF T!TrackerInv, T!TrackerTypeOK
<1>2. T!LastPickKept BY <1>1 DEF T!PicksInTurn, T!LastPickKept, T!Busy, T!Settled
<1>3. T!OwnEditsShow BY <1>1 DEF T!OwnEditsShow, T!ListFollows, T!Holds
<1>4. ASSUME NEW t \in Tab
      PROVE  LET f == tab[t].filters IN
        /\ \A o \in T!Owner : LET g == [f EXCEPT !.owners = @ \cup {o}] IN
             /\ T!visible(t, g) \ T!visible(t, f) \subseteq T!ownerCounts(t, o)
             /\ T!ownerCounts(t, o) \subseteq T!visible(t, g)
        /\ \A s \in T!State : LET g == [f EXCEPT !.states = @ \cup {s}] IN
             /\ T!visible(t, g) \ T!visible(t, f) \subseteq T!stateCounts(t, s)
             /\ T!stateCounts(t, s) \subseteq T!visible(t, g)
  <2> DEFINE f == tab[t].filters
             row(i) == tab[t].rows[i]
  <2>1. f \in T!Filters BY <1>1 DEF T!Modal
  <2>2. ASSUME NEW o \in T!Owner, NEW g, g = [f EXCEPT !.owners = f.owners \cup {o}]
        PROVE  /\ T!visible(t, g) \ T!visible(t, f) \subseteq T!ownerCounts(t, o)
               /\ T!ownerCounts(t, o) \subseteq T!visible(t, g)
    <3>1. g.owners = f.owners \cup {o} /\ g.states = f.states /\ g.sessionIds = f.sessionIds
      BY <2>1, <2>2 DEF T!Filters
    <3> HIDE DEF f
    <3> QED BY <3>1 DEF f, T!visible, T!ownerCounts, T!isVisible, T!ownerMatches, T!stateMatches,
                      T!sessionMatches
  <2>3. ASSUME NEW s \in T!State, NEW g, g = [f EXCEPT !.states = f.states \cup {s}]
        PROVE  /\ T!visible(t, g) \ T!visible(t, f) \subseteq T!stateCounts(t, s)
               /\ T!stateCounts(t, s) \subseteq T!visible(t, g)
    <3>1. g.states = f.states \cup {s} /\ g.owners = f.owners /\ g.sessionIds = f.sessionIds
      BY <2>1, <2>3 DEF T!Filters
    <3> HIDE DEF f
    <3> QED BY <3>1 DEF f, T!visible, T!stateCounts, T!isVisible, T!ownerMatches, T!stateMatches,
                      T!sessionMatches
  <2> QED BY <2>2, <2>3
<1>5. T!CountsReveal BY <1>4 DEF T!CountsReveal
<1> QED BY <1>2, <1>3, <1>5

\* If the user waits for what was begun and no call fails or is overtaken: once
\* all tabs of the tracker have settled, the saved filters are the ones picked
\* last; once its requests are answered, a tab's list shows the edits made in
\* it; and its counts say what a chip would bring up (IssueTrackerModal).
THEOREM TrackerKeepsAll ==
  ASSUME TrackerConstants, Patient
  PROVE  PageSpec => []TrackerKeeps
<1> DEFINE Inv == part = "tracker" => T!TrackerInv
<1>1. PageInit => Inv BY TrackerStarts DEF PageInit
<1>2. Inv /\ [PageNext]_<<part, slots>> => Inv'
  <2> SUFFICES ASSUME Inv, [PageNext]_<<part, slots>>, part' = "tracker" PROVE T!TrackerInv' OBVIOUS
  <2>1. CASE PageNext BY <2>1, TrackerStep DEF PageNext
  <2>2. CASE UNCHANGED <<part, slots>>
    <3>1. T!TrackerInv /\ UNCHANGED slots BY <2>2
    <3>2. T!TrackerTypeOK' BY <3>1 DEF slots, T!TrackerInv, T!TrackerTypeOK
    <3>3. T!PicksInTurn' BY <3>1, PicksStay DEF slots, T!TrackerInv
    <3>4. \A t \in Tab : T!ListFollows(t)' /\ T!Holds(t, ledger)'
      BY <3>1, ListStays DEF slots, T!TrackerInv, T!Holds
    <3> QED BY <3>1, <3>2, <3>3, <3>4 DEF slots, T!TrackerInv
  <2> QED BY <2>1, <2>2
<1>3. Inv => TrackerKeeps BY TrackerShows DEF TrackerKeeps
<1> QED BY <1>1, <1>2, <1>3, PTL DEF PageSpec

-----------------------------------------------------------------------------
(* MapCanvas *)

\* Names that are told apart.
CanvasConstants ==
  /\ NoMap \notin M!Views /\ Pos # {}
  /\ M!Item \cap Edge = {} /\ M!Provisional \cap (M!Item \cup Edge) = {}

MapRows == [items : [M!Item -> M!Row],
            edges : [Edge -> [ends : M!Ends \cup {M!Nowhere}, live : BOOLEAN]]]

\* No card or frame is as if it had never been.
Keeps(m, n) ==
  n \in MapRows /\ \A x \in M!Item : n.items[x].state = "none" => m.items[x].state = "none"

LEMMA IsPlaces ==
  ASSUME NEW X \in SUBSET M!Item, NEW f \in [X -> Pos]
  PROVE  f \in M!Places
BY DEF M!Places

LEMMA PlacesAre ==
  ASSUME NEW f \in M!Places
  PROVE  DOMAIN f \subseteq M!Item /\ f \in [DOMAIN f -> Pos]
<1>1. PICK X \in SUBSET M!Item : f \in [X -> Pos] BY DEF M!Places
<1>2. DOMAIN f = X BY <1>1
<1> QED BY <1>1, <1>2

LEMMA PlaceIsThere == ASSUME CanvasConstants PROVE M!placeNode \in Pos
BY DEF CanvasConstants, M!placeNode

LEMMA RowDeleted ==
  ASSUME NEW m \in MapRows, NEW x \in M!Item
  PROVE  Keeps(m, M!softDelete(m, x))
BY DEF Keeps, MapRows, M!softDelete, M!Row

LEMMA RowPlaced ==
  ASSUME NEW m \in MapRows, NEW x \in M!Item, NEW p \in Pos
  PROVE  Keeps(m, M!Place(m, x, p))
BY DEF Keeps, MapRows, M!Place, M!Row

LEMMA RowDisconnected ==
  ASSUME NEW m \in MapRows, NEW e \in Edge
  PROVE  Keeps(m, M!softDeleteMapEdge(m, e))
BY DEF Keeps, MapRows, M!softDeleteMapEdge, M!Row

LEMMA RowConnected ==
  ASSUME NEW m \in MapRows, NEW ends \in M!Ends
  PROVE  Keeps(m, M!insertMapEdge(m, ends))
<1> DEFINE e == CHOOSE f \in M!Fresh(m) : TRUE
           new == [ends |-> ends, live |-> TRUE]
           n == M!insertMapEdge(m, ends)
           Made == [ends : M!Ends \cup {M!Nowhere}, live : BOOLEAN]
<1>1. n = [m EXCEPT !.edges[e] = new] BY DEF M!insertMapEdge
<1>2. new \in Made OBVIOUS
<1>3. m.edges \in [Edge -> Made] BY DEF MapRows
<1> HIDE DEF e, new, Made, n
<1>4. n.items = m.items /\ n.edges = [m.edges EXCEPT ![e] = new]
      /\ n = [items |-> n.items, edges |-> n.edges]
  BY <1>1 DEF MapRows
<1>5. n.edges \in [Edge -> Made] BY <1>2, <1>3, <1>4
<1> QED BY <1>4, <1>5 DEF Keeps, MapRows, n, Made

LEMMA RowAdded ==
  ASSUME NEW m \in MapRows, NEW x \in M!Item, NEW p \in Pos
  PROVE  Keeps(m, [m EXCEPT !.items[x] = [state |-> "live", pos |-> p]])
BY DEF Keeps, MapRows, M!Row

LEMMA KeepsOn ==
  ASSUME NEW m, NEW n, NEW o, Keeps(m, n), Keeps(n, o)
  PROVE  Keeps(m, o)
BY DEF Keeps

LEMMA NodeAdded ==
  ASSUME CanvasConstants, NEW m \in MapRows, NEW n \in M!Added(m)
  PROVE  Keeps(m, n)
<1>1. PICK x \in {y \in Card : m.items[y].state = "none"},
           parents \in {{}} \cup {{y} : y \in {z \in Card : M!Live(m, z) /\ M!Fresh(m) # {}}} :
        n = M!addNode(m, x, M!placeNode, parents)
  BY DEF M!Added
<1> DEFINE added == [m EXCEPT !.items[x] = [state |-> "live", pos |-> M!placeNode]]
<1>2. Keeps(m, added) BY RowAdded, PlaceIsThere DEF M!Item
<1>3. CASE parents = {} BY <1>1, <1>2, <1>3 DEF M!addNode
<1>4. CASE parents # {}
  <2>1. PICK y \in Card : parents = {y} /\ M!Live(m, y) BY <1>1, <1>4
  <2>2. (CHOOSE z \in parents : TRUE) = y BY <2>1
  <2>3. <<y, x>> \in M!Ends BY <2>1, <1>1 DEF M!Ends, M!Live
  <2>4. n = M!insertMapEdge(added, <<y, x>>) BY <1>1, <1>4, <2>2 DEF M!addNode
  <2> HIDE DEF added
  <2>5. Keeps(added, n) BY <1>2, <2>3, <2>4, RowConnected DEF Keeps
  <2> QED BY <1>2, <2>5, KeepsOn
<1> QED BY <1>3, <1>4

\* What Claude Code may do to the rows.
LEMMA CallKeeps ==
  ASSUME CanvasConstants, NEW m \in MapRows,
         NEW n \in M!Added(m) \cup M!Moved(m) \cup M!Deleted(m) \cup M!Connected(m)
                   \cup M!Disconnected(m)
  PROVE  Keeps(m, n)
<1>1. CASE n \in M!Added(m) BY <1>1, NodeAdded
<1>2. CASE n \in M!Moved(m) BY <1>2, RowPlaced DEF M!Moved, M!Item
<1>3. CASE n \in M!Deleted(m) BY <1>3, RowDeleted DEF M!Deleted, M!Item
<1>4. CASE n \in M!Connected(m) BY <1>4, RowConnected DEF M!Connected
<1>5. CASE n \in M!Disconnected(m) BY <1>5, RowDisconnected DEF M!Disconnected
<1> QED BY <1>1, <1>2, <1>3, <1>4, <1>5

Calls == \/ M!handleAddMapNode \/ M!handleUpdateMapNode \/ M!handleMoveMapNode
         \/ M!handleDeleteMapNode \/ M!handleConnectMap \/ M!handleDisconnectMap
         \/ M!handleApplyMapOps

LEMMA CallIs ==
  ASSUME CanvasConstants, map \in MapRows, Calls
  PROVE  \E m : Keeps(map, m) /\ M!ccCall(m)
<1>1. Keeps(map, map) BY DEF Keeps
<1>2. CASE M!handleUpdateMapNode BY <1>1, <1>2 DEF M!handleUpdateMapNode
<1>3. CASE \/ M!handleAddMapNode \/ M!handleMoveMapNode \/ M!handleDeleteMapNode
           \/ M!handleConnectMap \/ M!handleDisconnectMap
  BY <1>3, CallKeeps DEF M!handleAddMapNode, M!handleMoveMapNode, M!handleDeleteMapNode,
     M!handleConnectMap, M!handleDisconnectMap
<1>4. CASE M!handleApplyMapOps
  <2> DEFINE One(m) == M!Added(m) \cup M!Deleted(m) \cup M!Connected(m) \cup M!Disconnected(m)
  <2>1. PICK n \in {map} \cup UNION {One(m) : m \in One(map)} : M!ccCall(n)
    BY <1>4 DEF M!handleApplyMapOps
  <2>2. CASE n = map BY <1>1, <2>1, <2>2
  <2>3. CASE n # map
    <3>1. PICK m \in One(map) : n \in One(m) BY <2>1, <2>3
    <3>2. Keeps(map, m) BY CallKeeps
    <3>3. Keeps(m, n) BY <3>1, <3>2, CallKeeps DEF Keeps
    <3> QED BY <2>1, <3>2, <3>3, KeepsOn
  <2> QED BY <2>2, <2>3
<1> QED BY <1>2, <1>3, <1>4 DEF Calls
-----------------------------------------------------------------------------
(* The canvas: what its variables hold *)

LEMMA ViewIs ==
  ASSUME NEW m \in MapRows
  PROVE  M!getMapView(m) \in M!Views
<1> DEFINE X == {y \in M!Item : M!Live(m, y)} f == [x \in X |-> m.items[x].pos]
<1>1. f \in [X -> Pos] BY DEF MapRows, M!Row
<1>2. f \in M!Places BY <1>1, IsPlaces
<1> HIDE DEF f
<1>3. M!getMapView(m) = [at |-> f, edges |-> {e \in Edge : m.edges[e].live
                                    /\ \A i \in {1, 2} : M!Live(m, m.edges[e].ends[i])}]
  BY DEF M!getMapView, f
<1> QED BY <1>2, <1>3 DEF M!Views

Canvases == [at : M!Places, edges : SUBSET (Edge \cup M!Provisional)]
Answers == [reply : {NoMap} \cup M!Views, old : BOOLEAN]
Counters == [user : Nat, cc : Nat, faults : Nat]

LEMMA TypesAre ==
  ASSUME M!CanvasShape
  PROVE  /\ map \in MapRows /\ page \in Canvases /\ drag \in M!Places
         /\ undo \in Seq(M!Entries) /\ toast \subseteq M!Entries
         /\ posts \subseteq M!Posts /\ waits \subseteq M!Waits
         /\ frame \in BOOLEAN /\ up \in BOOLEAN /\ amiss \in BOOLEAN
         /\ fetches \in Seq(Answers) /\ told \subseteq M!Item \cup Edge
         /\ steps \in Counters
BY DEF M!CanvasShape, M!CanvasTypes, MapRows, Canvases, Answers, Counters

LEMMA TypesFrom ==
  ASSUME map' \in MapRows, page' \in Canvases, drag' \in M!Places,
         undo' \in Seq(M!Entries), toast' \subseteq M!Entries,
         posts' \subseteq M!Posts, waits' \subseteq M!Waits,
         frame' \in BOOLEAN, up' \in BOOLEAN, amiss' \in BOOLEAN,
         fetches' \in Seq(Answers), told' \subseteq M!Item \cup Edge,
         steps' \in Counters
  PROVE  M!CanvasTypes'
BY DEF M!CanvasTypes, MapRows, Canvases, Answers, Counters

LEMMA Counted ==
  ASSUME steps \in Counters
  PROVE  /\ [steps EXCEPT !.user = @ + 1] \in Counters
         /\ [steps EXCEPT !.cc = @ + 1] \in Counters
         /\ [steps EXCEPT !.faults = @ + 1] \in Counters
         /\ steps.user \in Nat
         /\ [steps EXCEPT !.user = @ + 1].user = steps.user + 1
         /\ [steps EXCEPT !.cc = @ + 1].user = steps.user
         /\ [steps EXCEPT !.faults = @ + 1].user = steps.user
BY DEF Counters

LEMMA CanvasStarts == ASSUME CanvasConstants, M!MInit PROVE M!CanvasShape
<1>1. map \in MapRows
  <2>1. PICK live \in SUBSET Card :
          map = [items |-> [x \in M!Item |-> [state |-> IF x \in live THEN "live" ELSE "none",
                                              pos |-> M!placeNode]],
                 edges |-> [e \in Edge |-> [ends |-> M!Nowhere, live |-> FALSE]]]
    BY DEF M!MInit
  <2> QED BY <2>1, PlaceIsThere DEF MapRows, M!Row
<1>2. page \in [at : M!Places, edges : SUBSET (Edge \cup M!Provisional)]
  BY <1>1, ViewIs DEF M!MInit, M!Views
<1>3. drag \in M!Places /\ undo = <<>> /\ toast = {} /\ posts = {} /\ waits = {} /\ fetches = <<>>
  <2>1. <<>> \in [{} -> Pos] OBVIOUS
  <2> QED BY <2>1, IsPlaces DEF M!MInit
<1>4. frame = FALSE /\ up = TRUE /\ told = {} /\ amiss = FALSE
      /\ steps = [user |-> 0, cc |-> 0, faults |-> 0]
  BY DEF M!MInit
<1>5. M!ToSet(undo) = {} BY <1>3 DEF M!ToSet
<1>6. M!CanvasTypes
  <2>1. undo \in Seq(M!Entries) /\ fetches \in Seq(Answers) BY <1>3
  <2>2. steps \in Counters BY <1>4 DEF Counters
  <2> QED BY <1>1, <1>2, <1>3, <1>4, <2>1, <2>2
       DEF M!CanvasTypes, MapRows, Canvases, Answers, Counters
<1>7. M!PostsAreMade /\ M!EntriesAreMade BY <1>3, <1>5 DEF M!PostsAreMade, M!IsMade, M!EntriesAreMade, M!CanUndo, M!IsDue
<1> QED BY <1>6, <1>7 DEF M!CanvasShape

\* What the parts of the state have to do with each other is in three facts.
LEMMA ShapeFrom ==
  ASSUME M!CanvasTypes', M!PostsAreMade', M!EntriesAreMade'
  PROVE  M!CanvasShape'
BY DEF M!CanvasShape

LEMMA ToSetOf ==
  ASSUME NEW A, NEW s \in Seq(A)
  PROVE  /\ M!ToSet(s) \subseteq A
         /\ \A e \in A : M!ToSet(Append(s, e)) = M!ToSet(s) \cup {e}
         /\ \A i \in DOMAIN s : s[i] \in M!ToSet(s)
<1>1. ASSUME NEW e \in A PROVE M!ToSet(Append(s, e)) = M!ToSet(s) \cup {e}
  <2> DEFINE t == Append(s, e)
  <2>1. /\ t \in Seq(A) /\ Len(t) = Len(s) + 1 /\ Len(s) \in Nat /\ t[Len(s) + 1] = e
        /\ \A i \in 1 .. Len(s) : t[i] = s[i]
    BY <1>1
  <2>2. DOMAIN t = 1 .. Len(s) + 1 /\ DOMAIN s = 1 .. Len(s) BY <2>1
  <2> HIDE DEF t
  <2>3. {t[i] : i \in DOMAIN t} \subseteq {s[i] : i \in DOMAIN s} \cup {e} BY <2>1, <2>2
  <2>4. {s[i] : i \in DOMAIN s} \cup {e} \subseteq {t[i] : i \in DOMAIN t} BY <2>1, <2>2
  <2> QED BY <2>3, <2>4 DEF M!ToSet, t
<1>2. M!ToSet(s) \subseteq A /\ \A i \in DOMAIN s : s[i] \in M!ToSet(s) BY DEF M!ToSet
<1> QED BY <1>1, <1>2

\* A wait is the same but for what it promises, or for having failed.
SameWait(v, w) == /\ v.kind = w.kind /\ v.g = w.g /\ v.at = w.at
                  /\ v.kind # "undo" => v.ids = w.ids

LEMMA WaitCut ==
  ASSUME NEW w \in M!Waits, NEW X
  PROVE  /\ [w EXCEPT !.ids = IF w.kind = "undo" THEN @ \ X ELSE @] \in M!Waits
         /\ [w EXCEPT !.failed = TRUE] \in M!Waits
BY DEF M!Waits

Cut(X) == {[w EXCEPT !.ids = IF w.kind = "undo" THEN @ \ X ELSE @] : w \in waits}

LEMMA WaitsCut ==
  ASSUME waits \subseteq M!Waits, NEW X
  PROVE  /\ Cut(X) \subseteq M!Waits
         /\ \A v \in Cut(X) : \E w \in waits :
              /\ SameWait(v, w) /\ v.failed = w.failed
              /\ v.kind = "undo" => v.ids = w.ids \ X
<1>1. ASSUME NEW v \in Cut(X)
      PROVE  v \in M!Waits /\ \E w \in waits :
               /\ SameWait(v, w) /\ v.failed = w.failed
               /\ v.kind = "undo" => v.ids = w.ids \ X
  <2>1. PICK w \in waits : v = [w EXCEPT !.ids = IF w.kind = "undo" THEN @ \ X ELSE @]
    BY <1>1 DEF Cut
  <2>2. w \in M!Waits OBVIOUS
  <2>3. v \in M!Waits BY <2>1, <2>2, WaitCut
  <2>4. SameWait(v, w) /\ v.failed = w.failed /\ (v.kind = "undo" => v.ids = w.ids \ X)
    BY <2>1, <2>2 DEF SameWait, M!Waits
  <2> QED BY <2>3, <2>4
<1> QED BY <1>1

LEMMA ShapeOfCall ==
  ASSUME M!CanvasShape, NEW m, Keeps(map, m), M!ccCall(m)
  PROVE  M!CanvasShape'
<1>1. map' \in MapRows BY DEF Keeps, M!ccCall
<1>2. UNCHANGED <<page, drag, undo, toast, posts, up, fetches, amiss>>
  BY DEF M!ccCall, M!canvas
<1>3. frame' = up BY DEF M!ccCall, M!emit
<1>4. told' \subseteq told /\ steps' = [steps EXCEPT !.cc = @ + 1] BY DEF M!ccCall
<1>5. waits' \subseteq M!Waits /\ \A v \in waits' : \E w \in waits : SameWait(v, w)
  <2>1. waits \subseteq M!Waits BY TypesAre
  <2>2. waits' = Cut(M!Gone(m) \ M!Gone(map)) BY DEF M!ccCall, Cut
  <2> QED BY <2>1, <2>2, WaitsCut
<1>6. M!CanvasTypes' BY <1>1, <1>2, <1>3, <1>4, <1>5, TypesAre, TypesFrom, Counted
<1>7. M!PostsAreMade' BY <1>2 DEF M!CanvasShape, M!PostsAreMade, M!IsMade
<1>8. M!EntriesAreMade' BY <1>2, <1>5 DEF M!CanvasShape, M!EntriesAreMade, M!CanUndo, M!IsDue, SameWait
<1> QED BY <1>6, <1>7, <1>8, ShapeFrom

LEMMA HandledKeeps ==
  ASSUME CanvasConstants, M!CanvasShape, NEW p \in posts
  PROVE  M!Handled(map, p) \in MapRows
<1> DEFINE x == CHOOSE i \in p.ids : TRUE
           n == M!Handled(map, p)
<1>1. map \in MapRows /\ p \in M!Posts BY DEF M!CanvasShape, M!CanvasTypes, MapRows
<1>2. p.op \in {"delete", "restore", "move", "add"} => p.ids # {} /\ x \in p.ids
  BY DEF M!CanvasShape, M!PostsAreMade, M!IsMade
<1>3. /\ p.op \in {"move", "add"} => p.ids \subseteq M!Item /\ p.at[1] \in Pos
      /\ p.op = "connect" => p.at \in M!Ends
  BY DEF M!CanvasShape, M!PostsAreMade, M!IsMade
<1> HIDE DEF x
<1>4. CASE M!Refused(map, p) BY <1>1, <1>4 DEF M!Handled
<1>5. CASE ~M!Refused(map, p) /\ p.op = "restore"
  <2>1. n = M!Restored(map, p.ids) BY <1>5 DEF M!Handled
  <2>2. n = [items |-> n.items, edges |-> n.edges] BY <2>1 DEF M!Restored
  <2>3. n.items \in [M!Item -> M!Row] BY <1>1, <2>1 DEF M!Restored, MapRows, M!Row
  <2>4. n.edges \in [Edge -> [ends : M!Ends \cup {M!Nowhere}, live : BOOLEAN]]
    <3> DEFINE Made == [ends : M!Ends \cup {M!Nowhere}, live : BOOLEAN]
    <3>1. n.edges = [e \in Edge |-> IF e \in p.ids THEN [map.edges[e] EXCEPT !.live = TRUE]
                                    ELSE map.edges[e]]
      BY <2>1 DEF M!Restored
    <3>2. map.edges \in [Edge -> Made] BY <1>1 DEF MapRows
    <3>3. \A r \in Made : [r EXCEPT !.live = TRUE] \in Made OBVIOUS
    <3> HIDE DEF Made, n
    <3>4. n.edges \in [Edge -> Made] BY <3>1, <3>2, <3>3
    <3> QED BY <3>4 DEF Made
  <2> HIDE DEF n
  <2> QED BY <2>2, <2>3, <2>4 DEF MapRows, n
<1>6. CASE ~M!Refused(map, p) /\ p.op = "add"
  <2>1. n = [map EXCEPT !.items[x] = [state |-> "live", pos |-> p.at[1]]]
    BY <1>6 DEF M!Handled, x
  <2> QED BY <1>1, <1>2, <1>3, <1>6, <2>1, RowAdded DEF Keeps
<1>7. CASE ~M!Refused(map, p) /\ p.op = "move"
  <2>1. n = M!Place(map, x, p.at[1]) BY <1>7 DEF M!Handled, x
  <2> QED BY <1>1, <1>2, <1>3, <1>7, <2>1, RowPlaced DEF Keeps
<1>8. CASE ~M!Refused(map, p) /\ p.op = "connect"
  <2>1. n = IF M!Covered(map, p.at) THEN map ELSE M!insertMapEdge(map, p.at)
    BY <1>8 DEF M!Handled
  <2> QED BY <1>1, <1>3, <1>8, <2>1, RowConnected DEF Keeps
<1>9. CASE ~M!Refused(map, p) /\ p.op = "delete"
  <2>1. n = IF x \in M!Item THEN M!softDelete(map, x)
            ELSE IF x \in Edge THEN M!softDeleteMapEdge(map, x) ELSE map
    BY <1>9 DEF M!Handled, x
  <2> QED BY <1>1, <2>1, RowDeleted, RowDisconnected DEF Keeps
<1> QED BY <1>1, <1>4, <1>5, <1>6, <1>7, <1>8, <1>9 DEF M!Posts, M!Op

LEMMA ShapeOfPost ==
  ASSUME CanvasConstants, M!CanvasShape, NEW p \in posts, M!postHandled(p)
  PROVE  M!CanvasShape'
<1>1. map' \in MapRows BY HandledKeeps DEF M!postHandled
<1>2. UNCHANGED <<page, drag, undo, toast, waits, up, fetches, told, amiss, steps>>
  BY DEF M!postHandled, M!canvas
<1>3. frame' \in BOOLEAN /\ posts' \subseteq posts
  BY TypesAre DEF M!postHandled, M!emit
<1>6. M!CanvasTypes' BY <1>1, <1>2, <1>3, TypesAre, TypesFrom
<1>7. M!PostsAreMade' BY <1>3 DEF M!CanvasShape, M!PostsAreMade, M!IsMade
<1>8. M!EntriesAreMade' BY <1>2 DEF M!CanvasShape, M!EntriesAreMade, M!CanUndo, M!IsDue
<1> QED BY <1>6, <1>7, <1>8, ShapeFrom

LEMMA AgedAre ==
  ASSUME NEW s \in Seq(Answers)
  PROVE  /\ M!Aged(s) \in Seq(Answers)
         /\ Len(M!Aged(s)) = Len(s)
         /\ \A i \in DOMAIN s : M!Aged(s)[i].old
<1> DEFINE t == M!Aged(s)
<1>1. t = [i \in 1 .. Len(s) |-> [s[i] EXCEPT !.old = TRUE]] BY DEF M!Aged
<1>2. ASSUME NEW i \in 1 .. Len(s) PROVE t[i] \in Answers /\ t[i].old
  <2>1. s[i] \in Answers BY <1>2
  <2>2. t[i] = [s[i] EXCEPT !.old = TRUE] BY <1>1, <1>2
  <2> QED BY <2>1, <2>2 DEF Answers
<1> HIDE DEF t
<1>3. t \in [1 .. Len(s) -> Answers] /\ Len(s) \in Nat BY <1>1, <1>2
<1>4. t \in Seq(Answers) /\ Len(t) = Len(s) BY <1>3
<1> QED BY <1>2, <1>4 DEF t

LEMMA ShapeOfFailure ==
  ASSUME M!CanvasShape, NEW p \in posts, M!postFailed(p)
  PROVE  M!CanvasShape'
<1>1. UNCHANGED <<map, page, drag, undo, toast, frame, up, told>> /\ amiss' = TRUE
      /\ posts' \subseteq posts /\ fetches' = M!Aged(fetches)
      /\ steps' = [steps EXCEPT !.faults = @ + 1]
  BY DEF M!postFailed, M!canvas, M!Fault
<1>2. fetches' \in Seq(Answers) BY <1>1, AgedAre, TypesAre
<1>5. waits' \subseteq M!Waits /\ \A v \in waits' : \E w \in waits : SameWait(v, w) /\ v.ids = w.ids
  <2>1. waits' = {IF w.g = p.g THEN [w EXCEPT !.failed = TRUE] ELSE w : w \in waits}
    BY DEF M!postFailed
  <2>2. waits \subseteq M!Waits BY TypesAre
  <2>3. ASSUME NEW v \in waits'
        PROVE  v \in M!Waits /\ \E w \in waits : SameWait(v, w) /\ v.ids = w.ids
    <3>1. PICK w \in waits : v = IF w.g = p.g THEN [w EXCEPT !.failed = TRUE] ELSE w BY <2>1
    <3>2. w \in M!Waits BY <2>2
    <3>3. v \in M!Waits BY <3>1, <3>2, WaitCut
    <3>4. SameWait(v, w) /\ v.ids = w.ids BY <3>1, <3>2 DEF SameWait, M!Waits
    <3> QED BY <3>3, <3>4
  <2> QED BY <2>3
<1>6. M!CanvasTypes' BY <1>1, <1>2, <1>5, TypesAre, TypesFrom, Counted
<1>7. M!PostsAreMade' BY <1>1 DEF M!CanvasShape, M!PostsAreMade, M!IsMade
<1>8. M!EntriesAreMade' BY <1>1, <1>5 DEF M!CanvasShape, M!EntriesAreMade, M!CanUndo, M!IsDue, SameWait
<1> QED BY <1>6, <1>7, <1>8, ShapeFrom

-----------------------------------------------------------------------------
(* The canvas: what a gesture adds *)

NewPost(p) == p \in M!Posts /\ M!IsMade(p) /\ p.g = steps.user + 1
NewEntry(e) == e \in M!Entries /\ M!CanUndo(e) /\ e.g = steps.user + 1
NewWait(w) == w \in M!Waits /\ M!IsDue(w) /\ w.g = steps.user + 1 /\ ~w.failed

LEMMA PostIs ==
  ASSUME M!CanvasShape, NEW op \in M!Op, NEW ids \in SUBSET (M!Item \cup Edge \cup M!Provisional),
         NEW at \in {M!Nowhere} \cup {<<q>> : q \in Pos} \cup M!Ends
  PROVE  LET p == M!PostAt(op, ids, at)
         IN  /\ p \in M!Posts /\ p.g = steps.user + 1
             /\ p.op = op /\ p.ids = ids /\ p.at = at
<1>1. steps.user + 1 \in Nat BY TypesAre, Counted
<1> QED BY <1>1 DEF M!PostAt, M!G, M!Posts

LEMMA EntryIs ==
  ASSUME NEW sort \in {"delete", "add", "move"}, NEW g \in Nat,
         NEW ids \in SUBSET (M!Item \cup Edge), NEW at \in M!Places
  PROVE  LET e == M!Entry(sort, g, ids, at)
         IN  e \in M!Entries /\ e.kind = sort /\ e.g = g /\ e.ids = ids /\ e.at = at
BY DEF M!Entry, M!Entries

LEMMA WaitIs ==
  ASSUME M!CanvasShape, NEW sort \in {"delete", "undo", "connect", "add"},
         NEW ids \in SUBSET (M!Item \cup Edge), NEW at \in {M!Nowhere} \cup M!Ends
  PROVE  LET w == M!Wait(sort, M!G, ids, at)
         IN  /\ w \in M!Waits /\ w.g = steps.user + 1 /\ ~w.failed
             /\ w.kind = sort /\ w.ids = ids /\ w.at = at
<1>1. steps.user + 1 \in Nat BY TypesAre, Counted
<1> QED BY <1>1 DEF M!Wait, M!G, M!Waits

\* One post about each of Xs.
Each(op, Xs) == {M!PostAt(op, {x}, M!Nowhere) : x \in Xs}

LEMMA EachPosted ==
  ASSUME M!CanvasShape, NEW op \in {"delete", "restore"},
         NEW Xs \in SUBSET (M!Item \cup Edge \cup M!Provisional)
  PROVE  /\ \A p \in Each(op, Xs) : NewPost(p) /\ p.op = op /\ \E x \in Xs : p.ids = {x}
         /\ \A x \in Xs : \E p \in Each(op, Xs) : NewPost(p) /\ p.op = op /\ p.ids = {x}
<1>1. ASSUME NEW x \in Xs
      PROVE  LET p == M!PostAt(op, {x}, M!Nowhere) IN NewPost(p) /\ p.op = op /\ p.ids = {x}
  <2> DEFINE p == M!PostAt(op, {x}, M!Nowhere)
  <2>1. p \in M!Posts /\ p.g = steps.user + 1 /\ p.op = op /\ p.ids = {x}
    BY PostIs DEF M!Op
  <2> HIDE DEF p
  <2> QED BY <2>1 DEF NewPost, M!IsMade, p
<1> QED BY <1>1 DEF Each

\* One post that moves each of Xs to where f has it.
EachTo(Xs, f) == {M!PostAt("move", {x}, <<f[x]>>) : x \in Xs}

LEMMA EachMoved ==
  ASSUME M!CanvasShape, NEW Xs \in SUBSET M!Item, NEW f, \A x \in Xs : f[x] \in Pos
  PROVE  /\ \A p \in EachTo(Xs, f) : NewPost(p) /\ p.op = "move" /\ \E x \in Xs : p.ids = {x}
         /\ \A x \in Xs : \E p \in EachTo(Xs, f) : NewPost(p) /\ p.op = "move" /\ p.ids = {x}
<1>1. ASSUME NEW x \in Xs
      PROVE  LET p == M!PostAt("move", {x}, <<f[x]>>)
             IN  NewPost(p) /\ p.op = "move" /\ p.ids = {x}
  <2> DEFINE p == M!PostAt("move", {x}, <<f[x]>>)
  <2>1. <<f[x]>> \in {<<q>> : q \in Pos} OBVIOUS
  <2>2. p \in M!Posts /\ p.g = steps.user + 1 /\ p.op = "move" /\ p.ids = {x} /\ p.at = <<f[x]>>
    BY <2>1, PostIs DEF M!Op
  <2> HIDE DEF p
  <2> QED BY <2>1, <2>2 DEF NewPost, M!IsMade, p
<1> QED BY <1>1 DEF EachTo

LEMMA AppendedIs ==
  ASSUME M!CanvasShape, NEW e \in M!Entries
  PROVE  /\ Append(undo, e) \in Seq(M!Entries)
         /\ M!ToSet(Append(undo, e)) = M!ToSet(undo) \cup {e}
BY TypesAre, ToSetOf

LEMMA DragStopIs ==
  ASSUME M!CanvasShape, M!onNodeDragStop
  PROVE  /\ UNCHANGED <<map, page, toast, waits, frame, up, fetches, told, amiss>>
         /\ steps' = [steps EXCEPT !.user = @ + 1] /\ drag' = <<>>
         /\ posts \subseteq posts'
         /\ \A p \in posts' \ posts : NewPost(p) /\ p.op = "move"
         /\ \A x \in DOMAIN drag \cap DOMAIN page.at :
              \E p \in posts' : p.op = "move" /\ p.ids = {x}
         /\ undo' \in Seq(M!Entries)
         /\ \A e \in M!ToSet(undo') \ M!ToSet(undo) : NewEntry(e) /\ e.kind = "move"
<1> DEFINE dragged == DOMAIN drag \cap DOMAIN page.at
           moved == {x \in dragged : drag[x] # page.at[x]}
           was == [x \in moved |-> drag[x]]
           places == page.at
           New == EachTo(dragged, places)
<1>1. /\ posts' = posts \cup New
      /\ undo' = IF moved = {} THEN undo ELSE Append(undo, M!Entry("move", M!G, moved, was))
      /\ UNCHANGED <<map, page, toast, waits, frame, up, fetches, told, amiss>>
      /\ steps' = [steps EXCEPT !.user = @ + 1] /\ drag' = <<>>
  BY DEF M!onNodeDragStop, M!net, M!Gesture, EachTo
<1>2. /\ drag \in M!Places /\ page.at \in M!Places /\ steps.user + 1 \in Nat
      /\ undo \in Seq(M!Entries)
  BY TypesAre, Counted DEF Canvases
<1>3. dragged \in SUBSET M!Item /\ \A x \in dragged : page.at[x] \in Pos /\ drag[x] \in Pos
  BY <1>2, PlacesAre
<1>4. was \in M!Places
  <2>1. moved \in SUBSET M!Item /\ was \in [moved -> Pos] BY <1>3
  <2> QED BY <2>1, IsPlaces
<1>5. DOMAIN was = moved OBVIOUS
<1>6. /\ \A p \in New : NewPost(p) /\ p.op = "move" /\ \E x \in dragged : p.ids = {x}
      /\ \A x \in dragged : \E p \in New : NewPost(p) /\ p.op = "move" /\ p.ids = {x}
  <2>1. dragged \in SUBSET M!Item /\ \A x \in dragged : places[x] \in Pos BY <1>3
  <2> HIDE DEF dragged, places
  <2> QED BY <2>1, EachMoved
<1>7. moved \in SUBSET (M!Item \cup Edge) BY <1>3
<1> HIDE DEF was, moved, New
<1>8. CASE moved = {} BY <1>1, <1>2, <1>6, <1>8
<1>9. CASE moved # {}
  <2> DEFINE e == M!Entry("move", M!G, moved, was)
  <2>1. e \in M!Entries /\ e.kind = "move" /\ e.g = steps.user + 1 /\ e.ids = moved /\ e.at = was
    BY <1>2, <1>4, <1>7, EntryIs DEF M!G
  <2> HIDE DEF e
  <2>2. NewEntry(e) BY <2>1, <1>5 DEF NewEntry, M!CanUndo
  <2>3. undo' = Append(undo, e) BY <1>1, <1>9 DEF e
  <2>4. undo' \in Seq(M!Entries) /\ M!ToSet(undo') = M!ToSet(undo) \cup {e}
    BY <2>1, <2>3, AppendedIs
  <2> QED BY <1>1, <1>6, <2>1, <2>2, <2>4
<1> QED BY <1>8, <1>9

LEMMA DeleteIs ==
  ASSUME M!CanvasShape, NEW I \in SUBSET M!Item, NEW J \in SUBSET page.edges, M!onDelete(I, J)
  PROVE  \E ids \in SUBSET (DOMAIN page.at \cup page.edges) :
           /\ UNCHANGED <<map, drag, undo, toast, frame, up, fetches, amiss>>
           /\ steps' = [steps EXCEPT !.user = @ + 1]
           /\ page' = [at |-> [x \in DOMAIN page.at \ ids |-> page.at[x]],
                       edges |-> page.edges \ ids]
           /\ posts' = posts \cup Each("delete", ids)
           /\ told' = told \ ids
           /\ \E w \in M!Waits : /\ NewWait(w) /\ w.kind = "delete"
                                 /\ waits' = Cut(ids) \cup {w}
<1> DEFINE ids == I \cup J
                    \cup {e \in page.edges : M!EndsOf(e)[1] \in I \/ M!EndsOf(e)[2] \in I}
           w == M!Wait("delete", M!G, ids \ M!Provisional, M!Nowhere)
<1>1. /\ UNCHANGED <<map, drag, undo, toast, frame, up, fetches, amiss>>
      /\ steps' = [steps EXCEPT !.user = @ + 1]
      /\ page' = [at |-> [x \in DOMAIN page.at \ ids |-> page.at[x]],
                  edges |-> page.edges \ ids]
      /\ posts' = posts \cup Each("delete", ids)
      /\ told' = told \ ids
      /\ waits' = Cut(ids) \cup {w}
      /\ I \subseteq DOMAIN page.at
  BY DEF M!onDelete, M!net, M!Gesture, M!Forsake, Each, Cut
<1>2. ids \in SUBSET (DOMAIN page.at \cup page.edges) BY <1>1
<1>3. ids \ M!Provisional \in SUBSET (M!Item \cup Edge)
  BY <1>2, TypesAre, PlacesAre DEF Canvases
<1> HIDE DEF ids
<1>4. w \in M!Waits /\ w.g = steps.user + 1 /\ ~w.failed /\ w.kind = "delete"
  BY <1>3, WaitIs
<1> HIDE DEF w
<1>5. NewWait(w) BY <1>4 DEF NewWait, M!IsDue
<1> QED BY <1>1, <1>2, <1>4, <1>5

LEMMA ConnectIs ==
  ASSUME M!CanvasShape, NEW ends \in M!Ends, M!onConnect(ends)
  PROVE  /\ UNCHANGED <<map, drag, undo, toast, frame, up, fetches, told, amiss>>
         /\ steps' = [steps EXCEPT !.user = @ + 1]
         /\ page' = [page EXCEPT !.edges = @ \cup {ends}]
         /\ ends[1] \in DOMAIN page.at /\ ends[2] \in DOMAIN page.at
         /\ \E p : NewPost(p) /\ p.op = "connect" /\ p.at = ends /\ posts' = posts \cup {p}
         /\ \E w \in M!Waits : /\ NewWait(w) /\ w.kind = "connect"
                               /\ waits' = waits \cup {w}
<1> DEFINE p == M!PostAt("connect", {}, ends)
           w == M!Wait("connect", M!G, {}, ends)
<1>1. /\ UNCHANGED <<map, drag, undo, toast, frame, up, fetches, told, amiss>>
      /\ steps' = [steps EXCEPT !.user = @ + 1]
      /\ page' = [page EXCEPT !.edges = @ \cup {ends}]
      /\ ends[1] \in DOMAIN page.at /\ ends[2] \in DOMAIN page.at
      /\ posts' = posts \cup {p} /\ waits' = waits \cup {w}
  BY DEF M!onConnect, M!net, M!Gesture
<1>2. p \in M!Posts /\ p.g = steps.user + 1 /\ p.op = "connect" /\ p.at = ends
  BY PostIs DEF M!Op
<1>3. w \in M!Waits /\ w.g = steps.user + 1 /\ ~w.failed /\ w.kind = "connect" /\ w.at = ends
  BY WaitIs
<1> HIDE DEF p, w
<1>4. NewPost(p) /\ NewWait(w) BY <1>2, <1>3 DEF NewPost, M!IsMade, NewWait, M!IsDue
<1> QED BY <1>1, <1>2, <1>3, <1>4

\* An end of edge e is dragged to another card.
Reconnected(e, ends) ==
  /\ UNCHANGED <<map, drag, undo, toast, frame, up, fetches, amiss>>
  /\ steps' = [steps EXCEPT !.user = @ + 1]
  /\ page' = [page EXCEPT !.edges = (@ \ {e}) \cup {ends}]
  /\ ends[1] \in DOMAIN page.at /\ ends[2] \in DOMAIN page.at
  /\ \E p, d : /\ NewPost(p) /\ p.op = "connect" /\ p.at = ends
               /\ NewPost(d) /\ d.op = "delete" /\ d.ids = {e}
               /\ posts' = posts \cup {d, p}
  /\ told' = told \ {e} /\ waits' = Cut({e})

LEMMA ReconnectIs ==
  ASSUME M!CanvasShape, NEW e \in page.edges, NEW ends \in M!Ends, M!onReconnect(e, ends)
  PROVE  Reconnected(e, ends)
<1> DEFINE p == M!PostAt("connect", {}, ends)
           d == M!PostAt("delete", {e}, M!Nowhere)
<1>1. /\ UNCHANGED <<map, drag, undo, toast, frame, up, fetches, amiss>>
      /\ steps' = [steps EXCEPT !.user = @ + 1]
      /\ page' = [page EXCEPT !.edges = (@ \ {e}) \cup {ends}]
      /\ ends[1] \in DOMAIN page.at /\ ends[2] \in DOMAIN page.at
      /\ posts' = posts \cup {d, p} /\ told' = told \ {e} /\ waits' = Cut({e})
  BY DEF M!onReconnect, M!net, M!Gesture, M!Forsake, Cut
<1>2. p \in M!Posts /\ p.g = steps.user + 1 /\ p.op = "connect" /\ p.at = ends
  BY PostIs DEF M!Op
<1>3. e \in Edge \cup M!Provisional BY TypesAre DEF Canvases
<1>4. d \in M!Posts /\ d.g = steps.user + 1 /\ d.op = "delete" /\ d.ids = {e}
  BY <1>3, PostIs DEF M!Op
<1> HIDE DEF p, d
<1>5. NewPost(p) /\ NewPost(d) BY <1>2, <1>4 DEF NewPost, M!IsMade
<1> QED BY <1>1, <1>2, <1>4, <1>5 DEF Reconnected

LEMMA AddIs ==
  ASSUME CanvasConstants, M!CanvasShape, NEW f \in Frame, M!addFrame(f, M!placeNode)
  PROVE  /\ UNCHANGED <<map, page, drag, undo, toast, frame, up, fetches, told, amiss>>
         /\ steps' = [steps EXCEPT !.user = @ + 1]
         /\ \E p : NewPost(p) /\ p.op = "add" /\ posts' = posts \cup {p}
         /\ \E w \in M!Waits : NewWait(w) /\ w.kind = "add" /\ waits' = waits \cup {w}
<1> DEFINE p == M!PostAt("add", {f}, <<M!placeNode>>)
           w == M!Wait("add", M!G, {f}, M!Nowhere)
<1>1. /\ UNCHANGED <<map, page, drag, undo, toast, frame, up, fetches, told, amiss>>
      /\ steps' = [steps EXCEPT !.user = @ + 1]
      /\ posts' = posts \cup {p} /\ waits' = waits \cup {w}
  BY DEF M!addFrame, M!net, M!canvas, M!Gesture
<1>2. f \in M!Item /\ <<M!placeNode>> \in {<<q>> : q \in Pos} BY PlaceIsThere DEF M!Item
<1>3. /\ p \in M!Posts /\ p.g = steps.user + 1 /\ p.op = "add" /\ p.ids = {f}
      /\ p.at = <<M!placeNode>>
  BY <1>2, PostIs DEF M!Op
<1>4. w \in M!Waits /\ w.g = steps.user + 1 /\ ~w.failed /\ w.kind = "add" /\ w.ids = {f}
  BY <1>2, WaitIs
<1> HIDE DEF p, w
<1>5. NewPost(p) /\ NewWait(w) BY <1>2, <1>3, <1>4 DEF NewPost, M!IsMade, NewWait, M!IsDue
<1> QED BY <1>1, <1>3, <1>4, <1>5

\* The entry leaves the stack, and nothing else does.
LEMMA EntryTaken ==
  ASSUME NEW s \in Seq(M!Entries), NEW e, NEW r,
         r = IF M!Contains(s, e) THEN M!RemoveAt(s, CHOOSE i \in DOMAIN s : s[i] = e) ELSE s
  PROVE  r \in Seq(M!Entries) /\ M!ToSet(r) \subseteq M!ToSet(s)
<1>1. CASE ~M!Contains(s, e) BY <1>1
<1>2. CASE M!Contains(s, e)
  <2> DEFINE i == CHOOSE k \in DOMAIN s : s[k] = e
  <2>1. i \in DOMAIN s BY <1>2 DEF M!Contains
  <2> HIDE DEF i
  <2>2. r = Without(s, i) BY <1>2 DEF M!RemoveAt, Without, i
  <2>3. r \in Seq(M!Entries) /\ Len(r) = Len(s) - 1 /\ Len(s) \in Nat
        /\ \A k \in 1 .. Len(s) - 1 : r[k] = IF k < i THEN s[k] ELSE s[k + 1]
    BY <2>1, <2>2, RowsRemoved
  <2>4. ASSUME NEW k \in DOMAIN r PROVE \E j \in DOMAIN s : r[k] = s[j]
    <3>1. k \in 1 .. Len(s) - 1 /\ Len(s) \in Nat BY <2>3
    <3>2. k \in 1 .. Len(s) /\ k + 1 \in 1 .. Len(s)
      BY <3>1
    <3>3. DOMAIN s = 1 .. Len(s) OBVIOUS
    <3> QED BY <2>3, <3>1, <3>2, <3>3
  <2> QED BY <2>3, <2>4 DEF M!ToSet
<1> QED BY <1>1, <1>2

LEMMA LastIsIn ==
  ASSUME M!CanvasShape, undo # <<>>
  PROVE  M!Last(undo) \in M!ToSet(undo)
<1>1. undo \in Seq(M!Entries) BY TypesAre
<1>2. Len(undo) \in DOMAIN undo BY <1>1
<1> QED BY <1>2 DEF M!Last, M!ToSet

\* What an undo posts and waits for.
Doomed(e, x) == \E p \in posts : p.op = "delete" /\ x \in p.ids /\ p.g # e.g

LEMMA UndoIs ==
  ASSUME M!CanvasShape, NEW e \in M!ToSet(undo) \cup toast, M!undoEntry(e)
  PROVE  /\ UNCHANGED <<map, page, drag, frame, up, fetches, amiss>>
         /\ steps' = [steps EXCEPT !.user = @ + 1]
         /\ undo' \in Seq(M!Entries) /\ M!ToSet(undo') \subseteq M!ToSet(undo)
         /\ toast' \subseteq toast /\ posts \subseteq posts'
         /\ \A p \in posts' \ posts :
              NewPost(p) /\ (p.op = "delete" => e.kind = "add" /\ p.ids = e.ids)
         /\ e.kind = "delete" =>
              \A x \in e.ids : \E p \in posts' :
                p.op = "restore" /\ p.g = steps.user + 1 /\ x \in p.ids
         /\ \E w \in M!Waits :
              /\ NewWait(w) /\ w.kind = "undo"
              /\ w.ids \subseteq e.ids
              /\ e.kind = "delete" => \A x \in w.ids : ~Doomed(e, x)
              /\ e.kind # "delete" => w.ids = {}
              /\ IF e.kind = "add" THEN told' = told \ e.ids /\ waits' = Cut(e.ids) \cup {w}
                 ELSE told' = told /\ waits' = waits \cup {w}
<1> DEFINE again == {x \in e.ids : Doomed(e, x)}
           new == CASE e.kind = "delete" ->
                         {q \in {M!PostAt("restore", e.ids \ Frame, M!Nowhere)} : q.ids # {}}
                           \cup Each("restore", e.ids \cap Frame)
                    [] e.kind = "add" -> {M!PostAt("delete", e.ids, M!Nowhere)}
                    [] e.kind = "move" -> EachTo(e.ids, e.at)
           kept == IF e.kind = "delete" THEN e.ids \ again ELSE {}
           w == M!Wait("undo", M!G, kept, M!Nowhere)
<1>1. /\ UNCHANGED <<map, page, drag, frame, up, fetches, amiss>>
      /\ steps' = [steps EXCEPT !.user = @ + 1]
      /\ undo' = IF M!Contains(undo, e)
                   THEN M!RemoveAt(undo, CHOOSE i \in DOMAIN undo : undo[i] = e) ELSE undo
      /\ toast' \in {toast, {}} /\ posts' = posts \cup new
  BY DEF M!undoEntry, M!net, M!Gesture, Each, EachTo
<1>2. /\ e.kind = "add" => told' = told \ e.ids
                           /\ waits' = Cut(e.ids) \cup {M!Wait("undo", M!G, {}, M!Nowhere)}
      /\ e.kind # "add" => told' = told /\ waits' = waits \cup {w}
  BY DEF M!undoEntry, M!Forsake, Cut, Doomed
<1>3. e \in M!Entries /\ M!CanUndo(e)
  <2>1. e \in M!Entries BY TypesAre, ToSetOf
  <2> QED BY <2>1 DEF M!CanvasShape, M!EntriesAreMade
<1>4. e.ids \subseteq M!Item \cup Edge /\ e.kind \in {"delete", "add", "move"} /\ e.at \in M!Places
  BY <1>3 DEF M!Entries
<1>5. undo' \in Seq(M!Entries) /\ M!ToSet(undo') \subseteq M!ToSet(undo)
  BY <1>1, TypesAre, EntryTaken
<1>6. kept \in SUBSET (M!Item \cup Edge) /\ kept \subseteq e.ids
      /\ \A x \in kept : ~Doomed(e, x)
  BY <1>4
<1>7. e.kind = "add" => w = M!Wait("undo", M!G, {}, M!Nowhere) OBVIOUS
<1>8. w \in M!Waits /\ w.g = steps.user + 1 /\ ~w.failed /\ w.kind = "undo" /\ w.ids = kept
  <2> HIDE DEF kept
  <2> QED BY <1>6, WaitIs
<1>9. e.kind # "delete" => kept = {} OBVIOUS
<1> HIDE DEF w, kept
<1>10. NewWait(w) BY <1>8 DEF NewWait, M!IsDue
<1>11. /\ \A p \in new : NewPost(p) /\ (p.op = "delete" => e.kind = "add" /\ p.ids = e.ids)
       /\ e.kind = "delete" => \A x \in e.ids : \E p \in new :
            p.op = "restore" /\ p.g = steps.user + 1 /\ x \in p.ids
  <2>1. CASE e.kind = "delete"
    <3> DEFINE r == M!PostAt("restore", e.ids \ Frame, M!Nowhere)
               fs == e.ids \cap Frame
    <3>1. new = {q \in {r} : q.ids # {}} \cup Each("restore", fs) BY <2>1
    <3>2. r \in M!Posts /\ r.g = steps.user + 1 /\ r.op = "restore" /\ r.ids = e.ids \ Frame
      BY <1>4, PostIs DEF M!Op
    <3>3. r.ids # {} => NewPost(r)
      <4> HIDE DEF r
      <4> QED BY <3>2 DEF NewPost, M!IsMade
    <3>4. fs \in SUBSET (M!Item \cup Edge \cup M!Provisional) BY <1>4
    <3> HIDE DEF new, r, fs
    <3>5. /\ \A p \in Each("restore", fs) : NewPost(p) /\ p.op = "restore"
          /\ \A x \in fs : \E p \in Each("restore", fs) :
               NewPost(p) /\ p.op = "restore" /\ p.ids = {x}
      BY <3>4, EachPosted
    <3>6. \A p \in new : NewPost(p) /\ p.op = "restore" BY <3>1, <3>2, <3>3, <3>5
    <3>7. ASSUME NEW x \in e.ids
          PROVE  \E p \in new : p.op = "restore" /\ p.g = steps.user + 1 /\ x \in p.ids
      <4>1. CASE x \in Frame
        <5>1. x \in fs BY <3>7, <4>1 DEF fs
        <5>2. PICK p \in Each("restore", fs) : NewPost(p) /\ p.op = "restore" /\ p.ids = {x}
          BY <3>5, <5>1
        <5> QED BY <3>1, <5>2 DEF NewPost
      <4>2. CASE x \notin Frame BY <3>1, <3>2, <3>7, <4>2
      <4> QED BY <4>1, <4>2
    <3> QED BY <2>1, <3>6, <3>7
  <2>2. CASE e.kind = "add"
    <3> DEFINE d == M!PostAt("delete", e.ids, M!Nowhere)
    <3>1. new = {d} BY <2>2
    <3>2. d \in M!Posts /\ d.g = steps.user + 1 /\ d.op = "delete" /\ d.ids = e.ids
      BY <1>4, PostIs DEF M!Op
    <3>3. e.ids # {} BY <1>3, <2>2 DEF M!CanUndo
    <3> HIDE DEF new, d
    <3>4. NewPost(d) BY <3>2, <3>3 DEF NewPost, M!IsMade
    <3> QED BY <2>2, <3>1, <3>2, <3>4
  <2>3. CASE e.kind = "move"
    <3> DEFINE xs == e.ids at == e.at
    <3>1. new = EachTo(xs, at) BY <2>3
    <3>2. xs = DOMAIN at /\ at \in M!Places BY <1>3, <1>4, <2>3 DEF M!CanUndo
    <3>3. xs \in SUBSET M!Item /\ \A x \in xs : at[x] \in Pos
      <4> HIDE DEF xs, at
      <4> QED BY <3>2, PlacesAre
    <3>4. \A p \in EachTo(xs, at) : NewPost(p) /\ p.op = "move"
      <4> HIDE DEF xs, at
      <4> QED BY <3>3, EachMoved
    <3> HIDE DEF new
    <3> QED BY <2>3, <3>1, <3>4
  <2> QED BY <1>4, <2>1, <2>2, <2>3
<1> HIDE DEF new
<1>12. \A x \in w.ids : ~Doomed(e, x) BY <1>6, <1>8
<1>13. e.kind # "delete" => w.ids = {} BY <1>8, <1>9
<1>14. IF e.kind = "add" THEN told' = told \ e.ids /\ waits' = Cut(e.ids) \cup {w}
       ELSE told' = told /\ waits' = waits \cup {w}
  BY <1>2, <1>7
<1> QED BY <1>1, <1>5, <1>6, <1>8, <1>10, <1>11, <1>12, <1>13, <1>14

\* What every gesture is.
Grows ==
  /\ UNCHANGED <<map, frame, up, fetches, amiss>>
  /\ steps' = [steps EXCEPT !.user = @ + 1]
  /\ page' \in Canvases /\ drag' \in M!Places
  /\ \A p \in posts' : p \in posts \/ NewPost(p)
  /\ undo' \in Seq(M!Entries) /\ \A e \in M!ToSet(undo') : e \in M!ToSet(undo) \/ NewEntry(e)
  /\ toast' \subseteq toast
  /\ \A w \in waits' : w \in M!Waits /\ ((\E v \in waits : SameWait(w, v)) \/ NewWait(w))
  /\ told' \subseteq told

LEMMA GrowthKeepsShape ==
  ASSUME M!CanvasShape, Grows
  PROVE  M!CanvasShape'
<1>1. M!CanvasTypes'
  <2>1. posts' \subseteq M!Posts /\ waits' \subseteq M!Waits /\ toast' \subseteq M!Entries
    BY TypesAre DEF Grows, NewPost
  <2>2. steps' \in Counters BY TypesAre, Counted DEF Grows
  <2> QED BY <2>1, <2>2, TypesAre, TypesFrom DEF Grows
<1>2. M!PostsAreMade' BY DEF Grows, NewPost, M!CanvasShape, M!PostsAreMade, M!IsMade
<1>3. M!EntriesAreMade'
  BY DEF Grows, NewEntry, NewWait, SameWait, M!CanvasShape, M!EntriesAreMade, M!CanUndo, M!IsDue
<1> QED BY <1>1, <1>2, <1>3, ShapeFrom

LEMMA GrowthKeepsPast ==
  ASSUME M!CanvasShape, Grows, M!GesturesArePast
  PROVE  M!GesturesArePast'
<1>1. steps'.user = steps.user + 1 /\ steps.user \in Nat BY TypesAre, Counted DEF Grows
<1>2. ASSUME NEW p \in posts' PROVE p.g =< steps'.user
  <2>1. CASE p \in posts
    <3>1. p.g \in Nat /\ p.g =< steps.user BY <2>1, TypesAre DEF M!GesturesArePast, M!Posts
    <3> QED BY <1>1, <3>1
  <2>2. CASE NewPost(p) BY <1>1, <2>2 DEF NewPost
  <2> QED BY <2>1, <2>2 DEF Grows
<1>3. ASSUME NEW w \in waits' PROVE w.g =< steps'.user
  <2>1. CASE \E v \in waits : SameWait(w, v)
    <3>1. PICK v \in waits : SameWait(w, v) BY <2>1
    <3>2. w.g = v.g /\ v.g \in Nat /\ v.g =< steps.user
      BY <3>1, TypesAre DEF M!GesturesArePast, M!Waits, SameWait
    <3> QED BY <1>1, <3>2
  <2>2. CASE NewWait(w) BY <1>1, <2>2 DEF NewWait
  <2> QED BY <2>1, <2>2 DEF Grows
<1>4. ASSUME NEW e \in M!ToSet(undo') \cup toast' PROVE e.g =< steps'.user
  <2>1. CASE e \in M!ToSet(undo) \cup toast
    <3>1. e \in M!Entries BY <2>1, TypesAre, ToSetOf
    <3>2. e.g \in Nat /\ e.g =< steps.user BY <2>1, <3>1 DEF M!GesturesArePast, M!Entries
    <3> QED BY <1>1, <3>2
  <2>2. CASE NewEntry(e) BY <1>1, <2>2 DEF NewEntry
  <2> QED BY <2>1, <2>2 DEF Grows
<1>5. M!ToSet(undo)' = M!ToSet(undo') BY DEF M!ToSet
<1> QED BY <1>2, <1>3, <1>4, <1>5 DEF M!GesturesArePast

LEMMA PageOf ==
  ASSUME M!CanvasShape
  PROVE  /\ page.at \in M!Places /\ DOMAIN page.at \subseteq M!Item
         /\ page.edges \subseteq Edge \cup M!Provisional
         /\ page = [at |-> page.at, edges |-> page.edges]
         /\ \A X : [x \in DOMAIN page.at \ X |-> page.at[x]] \in M!Places
<1>1. page.at \in M!Places /\ page.edges \subseteq Edge \cup M!Provisional
      /\ page = [at |-> page.at, edges |-> page.edges]
  BY TypesAre DEF Canvases
<1>2. DOMAIN page.at \subseteq M!Item /\ page.at \in [DOMAIN page.at -> Pos] BY <1>1, PlacesAre
<1>3. ASSUME NEW X PROVE [x \in DOMAIN page.at \ X |-> page.at[x]] \in M!Places
  <2> DEFINE Y == DOMAIN page.at \ X f == [x \in Y |-> page.at[x]]
  <2>1. Y \in SUBSET M!Item /\ f \in [Y -> Pos] BY <1>2
  <2> QED BY <2>1, IsPlaces
<1> QED BY <1>1, <1>2, <1>3

LEMMA EdgesOnlyIs ==
  ASSUME M!CanvasShape, NEW es \in SUBSET (Edge \cup M!Provisional)
  PROVE  /\ [page EXCEPT !.edges = es] \in Canvases
         /\ [page EXCEPT !.edges = es].at = page.at
         /\ [page EXCEPT !.edges = es].edges = es
BY TypesAre DEF Canvases

LEMMA WaitsAfterCut ==
  ASSUME M!CanvasShape, NEW X, NEW w \in Cut(X)
  PROVE  w \in M!Waits /\ \E v \in waits : SameWait(w, v)
<1>1. waits \subseteq M!Waits BY TypesAre
<1> QED BY <1>1, WaitsCut

LEMMA WaitsStay ==
  ASSUME M!CanvasShape, NEW w \in waits
  PROVE  w \in M!Waits /\ \E v \in waits : SameWait(w, v)
BY TypesAre DEF SameWait

LEMMA GesturesGrow ==
  ASSUME CanvasConstants, M!CanvasShape
  PROVE  /\ M!onNodeDragStop => Grows
         /\ \A I \in SUBSET M!Item, J \in SUBSET page.edges : M!onDelete(I, J) => Grows
         /\ \A ends \in M!Ends : M!onConnect(ends) => Grows
         /\ \A e \in page.edges, ends \in M!Ends : M!onReconnect(e, ends) => Grows
         /\ \A f \in Frame : M!addFrame(f, M!placeNode) => Grows
         /\ \A e \in M!ToSet(undo) \cup toast : M!undoEntry(e) => Grows
<1>0. /\ page \in Canvases /\ drag \in M!Places /\ undo \in Seq(M!Entries)
  BY TypesAre
<1>1. ASSUME M!onNodeDragStop PROVE Grows
  <2>1. drag' \in M!Places
    <3>1. <<>> \in [{} -> Pos] OBVIOUS
    <3> QED BY <1>1, <3>1, IsPlaces, DragStopIs
  <2>2. \A w \in waits' : w \in M!Waits /\ \E v \in waits : SameWait(w, v)
    BY <1>1, DragStopIs, WaitsStay
  <2> QED BY <1>0, <1>1, <2>1, <2>2, DragStopIs DEF Grows
<1>2. ASSUME NEW I \in SUBSET M!Item, NEW J \in SUBSET page.edges, M!onDelete(I, J) PROVE Grows
  <2>1. PICK ids \in SUBSET (DOMAIN page.at \cup page.edges) :
           /\ UNCHANGED <<map, drag, undo, toast, frame, up, fetches, amiss>>
           /\ steps' = [steps EXCEPT !.user = @ + 1]
           /\ page' = [at |-> [x \in DOMAIN page.at \ ids |-> page.at[x]],
                       edges |-> page.edges \ ids]
           /\ posts' = posts \cup Each("delete", ids)
           /\ told' = told \ ids
           /\ \E w \in M!Waits : /\ NewWait(w) /\ w.kind = "delete"
                                 /\ waits' = Cut(ids) \cup {w}
    BY <1>2, DeleteIs
  <2>2. page' \in Canvases
    <3>1. [x \in DOMAIN page.at \ ids |-> page.at[x]] \in M!Places
          /\ page.edges \ ids \subseteq Edge \cup M!Provisional
      BY PageOf
    <3> QED BY <2>1, <3>1 DEF Canvases
  <2>3. ids \in SUBSET (M!Item \cup Edge \cup M!Provisional) BY PageOf
  <2>4. \A p \in posts' : p \in posts \/ NewPost(p) BY <2>1, <2>3, EachPosted
  <2>5. \A w \in waits' : w \in M!Waits /\ ((\E v \in waits : SameWait(w, v)) \/ NewWait(w))
    BY <2>1, WaitsAfterCut
  <2> QED BY <1>0, <2>1, <2>2, <2>4, <2>5 DEF Grows
<1>3. ASSUME NEW ends \in M!Ends, M!onConnect(ends) PROVE Grows
  <2>1. page' \in Canvases
    <3>1. page.edges \cup {ends} \in SUBSET (Edge \cup M!Provisional) BY PageOf DEF M!Provisional
    <3> QED BY <1>3, <3>1, ConnectIs, EdgesOnlyIs
  <2> QED BY <1>0, <1>3, <2>1, ConnectIs, WaitsStay DEF Grows
<1>4. ASSUME NEW e \in page.edges, NEW ends \in M!Ends, M!onReconnect(e, ends) PROVE Grows
  <2>0. Reconnected(e, ends) BY <1>4, ReconnectIs
  <2>1. /\ UNCHANGED <<map, drag, undo, toast, frame, up, fetches, amiss>>
        /\ steps' = [steps EXCEPT !.user = @ + 1]
        /\ page' = [page EXCEPT !.edges = (@ \ {e}) \cup {ends}]
        /\ told' = told \ {e} /\ waits' = Cut({e})
    BY <2>0 DEF Reconnected
  <2>2. PICK p, d : NewPost(p) /\ NewPost(d) /\ posts' = posts \cup {d, p}
    BY <2>0 DEF Reconnected
  <2>3. page' \in Canvases
    <3> DEFINE es == (page.edges \ {e}) \cup {ends}
    <3>1. ends \in M!Provisional BY DEF M!Provisional
    <3>2. es \in SUBSET (Edge \cup M!Provisional) BY <3>1, PageOf
    <3>3. page' = [page EXCEPT !.edges = es] BY <2>1
    <3> HIDE DEF es
    <3> QED BY <3>2, <3>3, EdgesOnlyIs
  <2>4. \A w \in waits' : w \in M!Waits /\ \E v \in waits : SameWait(w, v)
    BY <2>1, WaitsAfterCut
  <2> QED BY <1>0, <2>1, <2>2, <2>3, <2>4 DEF Grows
<1>5. ASSUME NEW f \in Frame, M!addFrame(f, M!placeNode) PROVE Grows
  BY <1>0, <1>5, AddIs, WaitsStay DEF Grows
<1>6. ASSUME NEW e \in M!ToSet(undo) \cup toast, M!undoEntry(e) PROVE Grows
  <2>1. \A w \in waits' : w \in M!Waits /\ ((\E v \in waits : SameWait(w, v)) \/ NewWait(w))
    BY <1>6, UndoIs, WaitsStay, WaitsAfterCut
  <2>2. told' \subseteq told BY <1>6, UndoIs
  <2>3. /\ UNCHANGED <<map, page, drag, frame, up, fetches, amiss>>
        /\ steps' = [steps EXCEPT !.user = @ + 1]
        /\ undo' \in Seq(M!Entries) /\ M!ToSet(undo') \subseteq M!ToSet(undo)
        /\ toast' \subseteq toast
        /\ \A p \in posts' \ posts : NewPost(p)
    BY <1>6, UndoIs
  <2> QED BY <1>0, <2>1, <2>2, <2>3 DEF Grows
<1> QED BY <1>1, <1>2, <1>3, <1>4, <1>5, <1>6

-----------------------------------------------------------------------------
(* The canvas: steps that touch neither the rows nor what the page remembers *)

Quiet ==
  /\ UNCHANGED <<map, undo, toast, posts, waits, told>>
  /\ page' \in Canvases /\ drag' \in M!Places /\ fetches' \in Seq(Answers)
  /\ frame' \in BOOLEAN /\ up' \in BOOLEAN /\ amiss' \in BOOLEAN
  /\ steps' \in Counters /\ steps'.user = steps.user

LEMMA QuietKeepsShape ==
  ASSUME M!CanvasShape, Quiet
  PROVE  M!CanvasShape'
<1>1. M!CanvasTypes' BY TypesAre, TypesFrom DEF Quiet
<1>2. M!PostsAreMade' BY DEF Quiet, M!CanvasShape, M!PostsAreMade, M!IsMade
<1>3. M!EntriesAreMade' BY DEF Quiet, M!CanvasShape, M!EntriesAreMade, M!CanUndo, M!IsDue
<1> QED BY <1>1, <1>2, <1>3, ShapeFrom

\* One more fetch: nothing has been answered.
LEMMA AskedIs ==
  ASSUME M!CanvasShape
  PROVE  LET s == Append(fetches, M!Fetch)
         IN  s \in Seq(Answers) /\ s # <<>> /\ M!Last(s).reply = NoMap
<1> DEFINE s == Append(fetches, M!Fetch)
<1>1. M!Fetch \in Answers /\ M!Fetch.reply = NoMap BY DEF M!Fetch, Answers
<1>2. fetches \in Seq(Answers) BY TypesAre
<1>3. s \in Seq(Answers) /\ Len(s) = Len(fetches) + 1 /\ Len(fetches) \in Nat
      /\ s[Len(fetches) + 1] = M!Fetch
  BY <1>1, <1>2
<1> HIDE DEF s
<1>4. s # <<>> /\ M!Last(s) = M!Fetch BY <1>3 DEF M!Last
<1> QED BY <1>1, <1>3, <1>4 DEF s

\* An answer leaves the sequence; those that were asked for before it are old.
Arrived(s, i) ==
  [j \in 1..(Len(s) - 1) |-> IF j < i THEN [s[j] EXCEPT !.old = TRUE] ELSE s[j + 1]]

LEMMA ArrivedIs ==
  ASSUME NEW s \in Seq(Answers), NEW i \in DOMAIN s
  PROVE  LET t == Arrived(s, i)
         IN  /\ t \in Seq(Answers) /\ Len(t) = Len(s) - 1 /\ Len(s) \in Nat
             /\ t = <<>> => i = Len(s) /\ Len(s) = 1
             /\ t # <<>> => M!Last(t) = M!Last(s) \/ M!Last(t).old
<1> DEFINE t == Arrived(s, i)
<1>1. Len(s) \in Nat /\ i \in 1 .. Len(s) /\ \A j \in 1 .. Len(s) : s[j] \in Answers OBVIOUS
<1>2. ASSUME NEW j \in 1 .. (Len(s) - 1)
      PROVE  /\ t[j] \in Answers
             /\ j < i => t[j].old
             /\ ~(j < i) => t[j] = s[j + 1]
  <2>1. j \in 1 .. Len(s) /\ j + 1 \in 1 .. Len(s) BY <1>1
  <2>2. s[j] \in Answers /\ s[j + 1] \in Answers BY <1>1, <2>1
  <2>3. [s[j] EXCEPT !.old = TRUE] \in Answers /\ [s[j] EXCEPT !.old = TRUE].old
    BY <2>2 DEF Answers
  <2>4. t[j] = IF j < i THEN [s[j] EXCEPT !.old = TRUE] ELSE s[j + 1] BY DEF Arrived
  <2> HIDE DEF t
  <2> QED BY <2>2, <2>3, <2>4
<1>3. DOMAIN t = 1 .. (Len(s) - 1) BY DEF Arrived
<1>4. t = [j \in 1 .. (Len(s) - 1) |-> t[j]] BY DEF Arrived
<1> HIDE DEF t
<1>5. Len(s) - 1 \in Nat BY <1>1
<1>6. t \in Seq(Answers) /\ Len(t) = Len(s) - 1
  <2>1. t \in [1 .. (Len(s) - 1) -> Answers] BY <1>2, <1>4
  <2> QED BY <1>5, <2>1
<1>7. ASSUME t = <<>> PROVE i = Len(s) /\ Len(s) = 1
  BY <1>1, <1>6, <1>7
<1>8. ASSUME t # <<>> PROVE M!Last(t) = M!Last(s) \/ M!Last(t).old
  <2>1. Len(s) - 1 \in 1 .. (Len(s) - 1) BY <1>5, <1>6, <1>8
  <2>2. M!Last(t) = t[Len(s) - 1] /\ M!Last(s) = s[Len(s)] BY <1>6 DEF M!Last
  <2>3. CASE Len(s) - 1 < i BY <1>2, <2>1, <2>2, <2>3
  <2>4. CASE ~(Len(s) - 1 < i)
    <3>1. t[Len(s) - 1] = s[(Len(s) - 1) + 1] BY <1>2, <2>1, <2>4
    <3>2. (Len(s) - 1) + 1 = Len(s) BY <1>1
    <3> QED BY <2>2, <3>1, <3>2
  <2> QED BY <2>3, <2>4
<1> QED BY <1>1, <1>6, <1>7, <1>8 DEF t

LEMMA SnapshotIs ==
  ASSUME M!CanvasShape, NEW v \in M!Views
  PROVE  /\ M!applySnapshot(v) \in Canvases
         /\ M!applySnapshot(v).edges = v.edges
         /\ DOMAIN M!applySnapshot(v).at = DOMAIN v.at
         /\ \A x \in DOMAIN v.at :
              M!applySnapshot(v).at[x] = v.at[x] \/ x \in DOMAIN drag
<1> DEFINE f == [x \in DOMAIN v.at |-> IF x \in DOMAIN drag \cap DOMAIN page.at THEN page.at[x]
                                       ELSE v.at[x]]
<1>1. v.at \in M!Places /\ v.edges \subseteq Edge BY DEF M!Views
<1>2. DOMAIN v.at \subseteq M!Item /\ v.at \in [DOMAIN v.at -> Pos] BY <1>1, PlacesAre
<1>3. page.at \in [DOMAIN page.at -> Pos] BY PageOf, PlacesAre
<1>4. f \in [DOMAIN v.at -> Pos] BY <1>2, <1>3
<1>5. f \in M!Places
  <2> HIDE DEF f
  <2> QED BY <1>2, <1>4, IsPlaces
<1>6. M!applySnapshot(v) = [at |-> f, edges |-> v.edges] BY DEF M!applySnapshot
<1>7. DOMAIN f = DOMAIN v.at /\ \A x \in DOMAIN v.at : f[x] = v.at[x] \/ x \in DOMAIN drag
  OBVIOUS
<1> HIDE DEF f
<1> QED BY <1>1, <1>5, <1>6, <1>7 DEF Canvases

Quiets ==
  \/ \E I \in SUBSET M!Item : M!onNodeDragStart(I)
  \/ \E x \in M!Item, p \in Pos : M!onNodesChange(x, p)
  \/ M!onMessage \/ M!socketDown \/ M!onResync
  \/ \E i \in DOMAIN fetches : M!fetchServed(i) \/ M!fetchArrived(i) \/ M!fetchFailed(i)

LEMMA DragStartIs ==
  ASSUME M!CanvasShape, NEW I \in SUBSET M!Item, M!onNodeDragStart(I)
  PROVE  /\ Quiet /\ UNCHANGED <<page, frame, up, fetches, amiss>> /\ DOMAIN drag = {}
<1> DEFINE f == [x \in I |-> page.at[x]]
<1>1. /\ UNCHANGED <<map, page, undo, toast, posts, waits, frame, up, fetches, told, amiss, steps>>
      /\ drag' = f /\ I \subseteq DOMAIN page.at /\ DOMAIN drag = {}
  BY DEF M!onNodeDragStart, M!net, M!Idle
<1>2. f \in [I -> Pos] BY <1>1, PageOf, PlacesAre
<1>3. f \in M!Places
  <2> HIDE DEF f
  <2> QED BY <1>2, IsPlaces
<1> HIDE DEF f
<1> QED BY <1>1, <1>3, TypesAre DEF Quiet

LEMMA NodesChangeIs ==
  ASSUME M!CanvasShape, NEW x \in M!Item, NEW p \in Pos, M!onNodesChange(x, p)
  PROVE  /\ Quiet /\ UNCHANGED <<drag, frame, up, fetches, amiss>>
         /\ x \in DOMAIN drag
         /\ DOMAIN page'.at = DOMAIN page.at
         /\ \A y \in DOMAIN page.at : page'.at[y] = page.at[y] \/ y = x
         /\ page'.edges = page.edges
<1> DEFINE f == [page.at EXCEPT ![x] = p]
<1>1. /\ UNCHANGED <<map, drag, undo, toast, posts, waits, frame, up, fetches, told, amiss, steps>>
      /\ page' = [page EXCEPT !.at[x] = p] /\ x \in DOMAIN drag \cap DOMAIN page.at
  BY DEF M!onNodesChange, M!net
<1>2. page' = [page EXCEPT !.at = f] BY <1>1
<1>3. page.at \in [DOMAIN page.at -> Pos] /\ DOMAIN page.at \subseteq M!Item BY PageOf, PlacesAre
<1>4. f \in [DOMAIN page.at -> Pos] BY <1>3
<1>5. \A y \in DOMAIN page.at : f[y] = page.at[y] \/ y = x BY <1>3
<1>6. DOMAIN f = DOMAIN page.at OBVIOUS
<1> HIDE DEF f
<1>7. f \in M!Places BY <1>3, <1>4, IsPlaces
<1>8. page' = [at |-> f, edges |-> page.edges] BY <1>2, PageOf
<1>9. page' \in Canvases /\ page'.at = f /\ page'.edges = page.edges
  BY <1>7, <1>8, PageOf DEF Canvases
<1> QED BY <1>1, <1>5, <1>6, <1>9, TypesAre DEF Quiet

LEMMA MessageIs ==
  ASSUME M!CanvasShape, M!onMessage \/ M!onResync
  PROVE  /\ Quiet /\ UNCHANGED <<page, drag, amiss>>
         /\ fetches' # <<>> /\ M!Last(fetches').reply = NoMap
<1>1. /\ UNCHANGED <<map, page, drag, undo, toast, posts, waits, told, amiss, steps>>
      /\ fetches' = Append(fetches, M!Fetch)
      /\ frame' \in {frame, FALSE} /\ up' \in {up, TRUE}
  BY DEF M!onMessage, M!onResync, M!canvas
<1>2. fetches' \in Seq(Answers) /\ fetches' # <<>> /\ M!Last(fetches').reply = NoMap
  BY <1>1, AskedIs
<1>3. frame' \in BOOLEAN /\ up' \in BOOLEAN BY <1>1, TypesAre
<1> QED BY <1>1, <1>2, <1>3, TypesAre DEF Quiet

LEMMA DownIs ==
  ASSUME M!CanvasShape, M!socketDown
  PROVE  Quiet /\ ~up'
<1>1. /\ UNCHANGED <<map, page, drag, undo, toast, posts, waits, fetches, told, amiss>>
      /\ up' = FALSE /\ frame' = FALSE /\ steps' = [steps EXCEPT !.faults = @ + 1]
  BY DEF M!socketDown, M!canvas, M!Fault
<1>2. steps' \in Counters /\ steps'.user = steps.user BY <1>1, TypesAre, Counted
<1>3. frame' \in BOOLEAN /\ up' \in BOOLEAN BY <1>1
<1> QED BY <1>1, <1>2, <1>3, TypesAre DEF Quiet

LEMMA ServedIs ==
  ASSUME M!CanvasShape, NEW i \in DOMAIN fetches, M!fetchServed(i)
  PROVE  /\ Quiet /\ UNCHANGED <<page, drag, frame, up, amiss>>
         /\ fetches # <<>> /\ fetches' # <<>>
         /\ M!Last(fetches') = M!Last(fetches) \/ M!Last(fetches').reply = M!getMapView(map)
<1> DEFINE v == M!getMapView(map)
           s == fetches'
<1>1. /\ UNCHANGED <<map, page, drag, undo, toast, posts, waits, frame, up, told, amiss, steps>>
      /\ s = [fetches EXCEPT ![i].reply = v]
  BY DEF M!fetchServed, M!canvas
<1>2. fetches \in Seq(Answers) /\ v \in M!Views BY TypesAre, ViewIs
<1>3. s = [fetches EXCEPT ![i] = [fetches[i] EXCEPT !.reply = v]] BY <1>1
<1>4. [fetches[i] EXCEPT !.reply = v] \in Answers /\ [fetches[i] EXCEPT !.reply = v].reply = v
  <2>1. fetches[i] \in Answers BY <1>2
  <2> HIDE DEF v
  <2> QED BY <1>2, <2>1 DEF Answers
<1>5. s \in Seq(Answers) /\ Len(s) = Len(fetches) /\ s[i].reply = v /\ i \in 1 .. Len(fetches)
      /\ \A j \in 1 .. Len(fetches) : j # i => s[j] = fetches[j]
  <2> DEFINE a == [fetches[i] EXCEPT !.reply = v]
  <2>1. s = [fetches EXCEPT ![i] = a] /\ a \in Answers /\ a.reply = v BY <1>3, <1>4
  <2> HIDE DEF v, s, a
  <2>2. s \in Seq(Answers) /\ Len(s) = Len(fetches) BY <1>2, <2>1
  <2>3. i \in 1 .. Len(fetches) /\ s[i] = a
        /\ \A j \in 1 .. Len(fetches) : j # i => s[j] = fetches[j]
    BY <1>2, <2>1
  <2> QED BY <2>1, <2>2, <2>3
<1> HIDE DEF v, s
<1>6. Len(fetches) \in 1 .. Len(fetches) /\ Len(fetches) # 0 BY <1>2, <1>5
<1>7. s # <<>> /\ fetches # <<>> BY <1>5, <1>6
<1>8. M!Last(s) = M!Last(fetches) \/ M!Last(s).reply = v BY <1>5, <1>6 DEF M!Last
<1> QED BY <1>1, <1>5, <1>7, <1>8, TypesAre DEF Quiet, v, s

LEMMA ArrivalIs ==
  ASSUME M!CanvasShape, NEW i \in DOMAIN fetches, M!fetchArrived(i)
  PROVE  /\ Quiet /\ UNCHANGED <<drag, frame, up>>
         /\ fetches # <<>> /\ amiss' = fetches[i].old
         /\ fetches' # <<>> => M!Last(fetches') = M!Last(fetches) \/ M!Last(fetches').old
         /\ fetches' = <<>> => fetches[i] = M!Last(fetches)
         /\ fetches[i].reply # NoMap /\ fetches[i].reply \in M!Views
         /\ page' = M!applySnapshot(fetches[i].reply)
<1>1. /\ UNCHANGED <<map, drag, undo, toast, posts, waits, frame, up, told, steps>>
      /\ fetches' = Arrived(fetches, i) /\ amiss' = fetches[i].old
      /\ fetches[i].reply # NoMap /\ page' = M!applySnapshot(fetches[i].reply)
  BY DEF M!fetchArrived, Arrived
<1>2. fetches \in Seq(Answers) BY TypesAre
<1>3. fetches[i] \in Answers BY <1>2
<1>4. fetches[i].reply \in M!Views /\ fetches[i].old \in BOOLEAN BY <1>1, <1>3 DEF Answers
<1>5. page' \in Canvases BY <1>1, <1>4, SnapshotIs
<1>6. /\ fetches' \in Seq(Answers)
      /\ fetches' = <<>> => i = Len(fetches)
      /\ fetches' # <<>> => M!Last(fetches') = M!Last(fetches) \/ M!Last(fetches').old
  BY <1>1, <1>2, ArrivedIs
<1>7. fetches # <<>> BY <1>2
<1>8. fetches' = <<>> => fetches[i] = M!Last(fetches) BY <1>6 DEF M!Last
<1> QED BY <1>1, <1>4, <1>5, <1>6, <1>7, <1>8, TypesAre DEF Quiet

LEMMA FailedIs ==
  ASSUME M!CanvasShape, NEW i \in DOMAIN fetches, M!fetchFailed(i)
  PROVE  Quiet /\ amiss' /\ (fetches' # <<>> => M!Last(fetches').old)
<1> DEFINE s == Without(fetches, i)
<1>1. /\ UNCHANGED <<map, page, drag, undo, toast, posts, waits, frame, up, told>>
      /\ fetches' = M!Aged(s) /\ amiss' = TRUE
      /\ steps' = [steps EXCEPT !.faults = @ + 1]
  BY DEF M!fetchFailed, M!canvas, M!Fault, Without, M!RemoveAt
<1>2. s \in Seq(Answers) BY TypesAre, RowsRemoved
<1>3. steps' \in Counters /\ steps'.user = steps.user BY <1>1, TypesAre, Counted
<1> HIDE DEF s
<1>4. fetches' \in Seq(Answers) /\ Len(fetches') = Len(s) /\ \A j \in DOMAIN s : fetches'[j].old
  BY <1>1, <1>2, AgedAre
<1>5. ASSUME fetches' # <<>> PROVE M!Last(fetches').old
  <2>1. Len(s) \in DOMAIN s BY <1>2, <1>4, <1>5
  <2> QED BY <1>4, <2>1 DEF M!Last
<1> QED BY <1>1, <1>3, <1>4, <1>5, TypesAre DEF Quiet

LEMMA QuietsAre ==
  ASSUME M!CanvasShape, Quiets
  PROVE  Quiet
BY DragStartIs, NodesChangeIs, MessageIs, DownIs, ServedIs, ArrivalIs, FailedIs DEF Quiets

-----------------------------------------------------------------------------
(* The canvas: what the user is told is restored is there *)

ThereIn(m, x) == IF x \in Edge THEN m.edges[x].live ELSE M!Live(m, x)

LEMMA ThereIsIn ==
  \A x : /\ M!There(x) <=> ThereIn(map, x)
         /\ M!There(x)' <=> ThereIn(map', x)
BY DEF M!There, ThereIn, M!Live

\* Nothing stops being there but by being deleted.
LEMMA CallLeaves ==
  ASSUME CanvasConstants, NEW m \in MapRows, NEW n, Keeps(m, n), NEW x \in M!Item \cup Edge,
         ThereIn(m, x), x \notin M!Gone(n) \ M!Gone(m)
  PROVE  ThereIn(n, x)
<1>1. CASE x \in Edge BY <1>1 DEF CanvasConstants, ThereIn, M!Gone
<1>2. CASE x \notin Edge
  <2>1. x \in M!Item /\ m.items[x].state = "live" BY <1>2 DEF ThereIn, M!Live
  <2>2. x \notin M!Gone(m) BY <1>2, <2>1 DEF M!Gone
  <2>3. n.items[x].state # "deleted" BY <2>1, <2>2 DEF M!Gone
  <2>4. n.items[x].state # "none" BY <2>1 DEF Keeps
  <2>5. n.items[x].state \in {"none", "live", "deleted"} BY <2>1 DEF Keeps, MapRows, M!Row
  <2> QED BY <1>2, <2>3, <2>4, <2>5 DEF ThereIn, M!Live
<1> QED BY <1>1, <1>2

LEMMA HandledLeaves ==
  ASSUME CanvasConstants, M!CanvasShape, NEW p \in posts, NEW x \in M!Item \cup Edge,
         \/ ThereIn(map, x) /\ (p.op = "delete" => x \notin p.ids)
         \/ p.op = "restore" /\ x \in p.ids
  PROVE  ThereIn(M!Handled(map, p), x)
<1> DEFINE y == CHOOSE i \in p.ids : TRUE
           n == M!Handled(map, p)
<1>1. map \in MapRows /\ p \in M!Posts /\ M!IsMade(p)
  BY TypesAre DEF M!CanvasShape, M!PostsAreMade
<1>2. p.op \in {"delete", "restore", "move", "add"} => y \in p.ids
  BY <1>1 DEF M!IsMade
<1>3. p.op \in {"move", "add"} => p.ids \subseteq M!Item BY <1>1 DEF M!IsMade
<1> HIDE DEF y
<1>4. CASE M!Refused(map, p) /\ p.op # "restore" BY <1>4 DEF M!Handled
<1>5. CASE p.op = "restore"
  <2>1. n = M!Restored(map, p.ids) BY <1>5 DEF M!Handled, M!Refused
  <2> HIDE DEF n
  <2>2. CASE x \in Edge
    <3>1. n.edges[x] = IF x \in p.ids THEN [map.edges[x] EXCEPT !.live = TRUE] ELSE map.edges[x]
      BY <2>1, <2>2 DEF M!Restored
    <3>2. map.edges[x] \in [ends : M!Ends \cup {M!Nowhere}, live : BOOLEAN]
      BY <1>1, <2>2 DEF MapRows
    <3>3. [map.edges[x] EXCEPT !.live = TRUE].live BY <3>2
    <3> QED BY <1>5, <2>2, <3>1, <3>3 DEF ThereIn, n
  <2>3. CASE x \notin Edge
    <3>1. n.items[x] = IF x \in p.ids THEN [map.items[x] EXCEPT !.state = "live"] ELSE map.items[x]
      BY <2>1, <2>3 DEF M!Restored
    <3>2. map.items[x] \in M!Row BY <1>1, <2>3 DEF MapRows
    <3>3. [map.items[x] EXCEPT !.state = "live"].state = "live" BY <3>2 DEF M!Row
    <3> QED BY <1>5, <2>3, <3>1, <3>3 DEF ThereIn, M!Live, n
  <2> QED BY <2>2, <2>3
<1>6. CASE ~M!Refused(map, p) /\ p.op = "add"
  <2>1. n = [map EXCEPT !.items[y] = [state |-> "live", pos |-> p.at[1]]]
    BY <1>6 DEF M!Handled, y
  <2> QED BY <1>1, <1>6, <2>1 DEF ThereIn, M!Live, MapRows
<1>7. CASE ~M!Refused(map, p) /\ p.op = "move"
  <2>1. n = M!Place(map, y, p.at[1]) BY <1>7 DEF M!Handled, y
  <2> QED BY <1>1, <1>7, <2>1 DEF ThereIn, M!Live, MapRows, M!Place, M!Row
<1>8. CASE ~M!Refused(map, p) /\ p.op = "connect"
  <2>1. n = IF M!Covered(map, p.at) THEN map ELSE M!insertMapEdge(map, p.at)
    BY <1>8 DEF M!Handled
  <2>2. CASE M!Covered(map, p.at) BY <1>8, <2>1, <2>2
  <2>3. CASE ~M!Covered(map, p.at)
    <3> DEFINE e == CHOOSE f \in M!Fresh(map) : TRUE
               new == [ends |-> p.at, live |-> TRUE]
    <3>1. n = [map EXCEPT !.edges[e] = new] BY <2>1, <2>3 DEF M!insertMapEdge
    <3>2. new.live OBVIOUS
    <3> HIDE DEF e, new, n
    <3>3. n.items = map.items /\ n.edges = [map.edges EXCEPT ![e] = new]
      BY <1>1, <3>1 DEF MapRows
    <3>4. \A f \in Edge : map.edges[f].live => n.edges[f].live
      BY <1>1, <3>2, <3>3 DEF MapRows
    <3> QED BY <1>8, <3>3, <3>4 DEF ThereIn, M!Live, n
  <2> QED BY <2>2, <2>3
<1>9. CASE ~M!Refused(map, p) /\ p.op = "delete"
  <2>1. n = IF y \in M!Item THEN M!softDelete(map, y)
            ELSE IF y \in Edge THEN M!softDeleteMapEdge(map, y) ELSE map
    BY <1>9 DEF M!Handled, y
  <2>2. x # y /\ ThereIn(map, x) BY <1>2, <1>9
  <2> HIDE DEF n
  <2>3. CASE y \in M!Item
    <3>1. n.edges = map.edges /\ (x \notin Edge => n.items[x] = map.items[x])
      BY <1>1, <2>1, <2>2, <2>3 DEF M!softDelete, MapRows
    <3> QED BY <2>2, <3>1 DEF ThereIn, M!Live, n
  <2>4. CASE y \notin M!Item /\ y \in Edge
    <3>1. n.items = map.items /\ (x \in Edge => n.edges[x] = map.edges[x])
      BY <1>1, <2>1, <2>2, <2>4 DEF M!softDeleteMapEdge, MapRows
    <3> QED BY <2>2, <3>1 DEF ThereIn, M!Live, n
  <2>5. CASE y \notin M!Item /\ y \notin Edge BY <2>1, <2>2, <2>5 DEF n
  <2> QED BY <2>3, <2>4, <2>5
<1> QED BY <1>1, <1>4, <1>5, <1>6, <1>7, <1>8, <1>9 DEF M!Posts, M!Op

LEMMA PromiseStarts == ASSUME CanvasConstants, M!MInit PROVE M!PromiseInv
<1>1. M!CanvasShape BY CanvasStarts
<1>2. undo = <<>> /\ toast = {} /\ posts = {} /\ waits = {} /\ told = {} BY DEF M!MInit
<1>3. M!ToSet(undo) = {} BY <1>2 DEF M!ToSet
<1> QED BY <1>1, <1>2, <1>3
    DEF M!PromiseInv, M!GesturesArePast, M!OffersAreSettled, M!NothingDoomed, M!RestoresComing

\* The five facts, one by one.
LEMMA PromiseFrom ==
  ASSUME M!CanvasShape', M!GesturesArePast', M!OffersAreSettled', M!NothingDoomed',
         M!RestoresComing', \A x \in told' : ThereIn(map', x)
  PROVE  M!PromiseInv'
BY ThereIsIn DEF M!PromiseInv

LEMMA PromiseOfQuiet ==
  ASSUME M!PromiseInv, Quiet
  PROVE  M!PromiseInv'
<1>1. M!CanvasShape' BY QuietKeepsShape DEF M!PromiseInv
<1>2. UNCHANGED <<map, undo, toast, posts, waits, told>> /\ steps'.user = steps.user BY DEF Quiet
<1>3. M!GesturesArePast' BY <1>2 DEF M!PromiseInv, M!GesturesArePast
<1>4. M!OffersAreSettled' BY <1>2 DEF M!PromiseInv, M!OffersAreSettled
<1>5. M!NothingDoomed' BY <1>2 DEF M!PromiseInv, M!NothingDoomed
<1>6. M!RestoresComing' BY <1>2, ThereIsIn DEF M!PromiseInv, M!RestoresComing
<1>7. \A x \in told' : ThereIn(map', x) BY <1>2, ThereIsIn DEF M!PromiseInv
<1> QED BY <1>1, <1>3, <1>4, <1>5, <1>6, <1>7, PromiseFrom

\* What Claude Code deletes is no longer promised, and what it does not stays.
LEMMA PromiseOfCall ==
  ASSUME CanvasConstants, M!PromiseInv, NEW m, Keeps(map, m), M!ccCall(m)
  PROVE  M!PromiseInv'
<1> DEFINE gone == M!Gone(m) \ M!Gone(map)
<1>1. M!CanvasShape /\ M!CanvasShape' BY ShapeOfCall DEF M!PromiseInv
<1>2. /\ UNCHANGED <<undo, toast, posts>> /\ map' = m /\ told' = told \ gone
      /\ waits' = Cut(gone) /\ steps' = [steps EXCEPT !.cc = @ + 1]
  BY DEF M!ccCall, M!canvas, Cut
<1>3. steps'.user = steps.user BY <1>1, <1>2, TypesAre, Counted
<1>4. \A w \in waits' : \E v \in waits :
        SameWait(w, v) /\ w.failed = v.failed /\ (w.kind = "undo" => w.ids = v.ids \ gone)
  BY <1>1, <1>2, TypesAre, WaitsCut
<1>5. \A x \in (M!Item \cup Edge) \ gone : ThereIn(map, x) => ThereIn(map', x)
  BY <1>1, <1>2, TypesAre, CallLeaves
<1>6. waits \subseteq M!Waits /\ told \subseteq M!Item \cup Edge BY <1>1, TypesAre
<1> HIDE DEF gone
<1>7. M!GesturesArePast' BY <1>2, <1>3, <1>4 DEF M!PromiseInv, M!GesturesArePast, SameWait
<1>8. M!OffersAreSettled' BY <1>2 DEF M!PromiseInv, M!OffersAreSettled
<1>9. M!NothingDoomed'
  <2>1. ASSUME NEW p \in posts, p.op = "delete"
        PROVE  p.ids \cap told' = {} /\ \A w \in waits' : w.kind = "undo" => p.ids \cap w.ids = {}
    <3>1. p.ids \cap told = {} /\ \A v \in waits : v.kind = "undo" => p.ids \cap v.ids = {}
      BY <2>1 DEF M!PromiseInv, M!NothingDoomed
    <3>2. ASSUME NEW w \in waits', w.kind = "undo" PROVE p.ids \cap w.ids = {}
      <4>1. PICK v \in waits : v.kind = "undo" /\ w.ids = v.ids \ gone
        BY <1>4, <3>2 DEF SameWait
      <4> QED BY <3>1, <4>1
    <3> QED BY <1>2, <3>1, <3>2
  <2> QED BY <1>2, <2>1 DEF M!NothingDoomed
<1>10. M!RestoresComing'
  <2>1. ASSUME NEW w \in waits', w.kind = "undo", ~w.failed, NEW x \in w.ids
        PROVE  \/ ThereIn(map', x)
               \/ \E p \in posts' : p.op = "restore" /\ p.g = w.g /\ x \in p.ids
    <3>1. PICK v \in waits : v.kind = "undo" /\ ~v.failed /\ w.ids = v.ids \ gone /\ w.g = v.g
      BY <1>4, <2>1 DEF SameWait
    <3>2. x \in v.ids /\ x \in (M!Item \cup Edge) \ gone BY <1>6, <2>1, <3>1 DEF M!Waits
    <3>3. ThereIn(map, x) \/ \E p \in posts : p.op = "restore" /\ p.g = v.g /\ x \in p.ids
      BY <3>1, <3>2, ThereIsIn DEF M!PromiseInv, M!RestoresComing
    <3> QED BY <1>2, <1>5, <3>1, <3>2, <3>3
  <2> QED BY <2>1, ThereIsIn DEF M!RestoresComing
<1>11. \A x \in told' : ThereIn(map', x)
  BY <1>2, <1>5, <1>6, ThereIsIn DEF M!PromiseInv
<1> QED BY <1>1, <1>7, <1>8, <1>9, <1>10, <1>11, PromiseFrom

LEMMA PromiseOfPost ==
  ASSUME CanvasConstants, M!PromiseInv, NEW p \in posts, M!postHandled(p)
  PROVE  M!PromiseInv'
<1>1. M!CanvasShape /\ M!CanvasShape' BY ShapeOfPost DEF M!PromiseInv
<1>2. /\ UNCHANGED <<undo, toast, waits, told, steps>> /\ map' = M!Handled(map, p)
      /\ posts' = posts \ {p}
  BY DEF M!postHandled, M!canvas
<1>3. waits \subseteq M!Waits /\ told \subseteq M!Item \cup Edge BY <1>1, TypesAre
<1>4. M!GesturesArePast' BY <1>2 DEF M!PromiseInv, M!GesturesArePast
<1>5. M!OffersAreSettled' BY <1>2 DEF M!PromiseInv, M!OffersAreSettled
<1>6. M!NothingDoomed' BY <1>2 DEF M!PromiseInv, M!NothingDoomed
<1>7. M!RestoresComing'
  <2>1. ASSUME NEW w \in waits, w.kind = "undo", ~w.failed, NEW x \in w.ids
        PROVE  \/ ThereIn(map', x)
               \/ \E q \in posts' : q.op = "restore" /\ q.g = w.g /\ x \in q.ids
    <3>1. x \in M!Item \cup Edge BY <1>3, <2>1 DEF M!Waits
    <3>2. ThereIn(map, x) \/ \E q \in posts : q.op = "restore" /\ q.g = w.g /\ x \in q.ids
      BY <2>1, ThereIsIn DEF M!PromiseInv, M!RestoresComing
    <3>3. CASE ThereIn(map, x)
      <4>1. p.op = "delete" => x \notin p.ids BY <2>1 DEF M!PromiseInv, M!NothingDoomed
      <4> QED BY <1>1, <1>2, <3>1, <3>3, <4>1, HandledLeaves
    <3>4. CASE \E q \in posts : q.op = "restore" /\ q.g = w.g /\ x \in q.ids
      <4>1. PICK q \in posts : q.op = "restore" /\ q.g = w.g /\ x \in q.ids BY <3>4
      <4>2. CASE q = p BY <1>1, <1>2, <3>1, <4>1, <4>2, HandledLeaves
      <4>3. CASE q # p BY <1>2, <4>1, <4>3
      <4> QED BY <4>2, <4>3
    <3> QED BY <3>2, <3>3, <3>4
  <2> QED BY <1>2, <2>1, ThereIsIn DEF M!RestoresComing
<1>8. \A x \in told' : ThereIn(map', x)
  <2>1. ASSUME NEW x \in told PROVE ThereIn(map', x)
    <3>1. ThereIn(map, x) BY ThereIsIn DEF M!PromiseInv
    <3>2. p.op = "delete" => x \notin p.ids BY DEF M!PromiseInv, M!NothingDoomed
    <3> QED BY <1>1, <1>2, <1>3, <3>1, <3>2, HandledLeaves
  <2> QED BY <1>2, <2>1
<1> QED BY <1>1, <1>4, <1>5, <1>6, <1>7, <1>8, PromiseFrom

LEMMA PromiseOfFailure ==
  ASSUME M!PromiseInv, NEW p \in posts, M!postFailed(p)
  PROVE  M!PromiseInv'
<1>1. M!CanvasShape /\ M!CanvasShape' BY ShapeOfFailure DEF M!PromiseInv
<1>2. /\ UNCHANGED <<map, undo, toast, told>> /\ posts' = posts \ {p}
      /\ waits' = {IF w.g = p.g THEN [w EXCEPT !.failed = TRUE] ELSE w : w \in waits}
      /\ steps' = [steps EXCEPT !.faults = @ + 1]
  BY DEF M!postFailed, M!canvas, M!Fault
<1>3. steps'.user = steps.user BY <1>1, <1>2, TypesAre, Counted
<1>4. ASSUME NEW w \in waits'
      PROVE  \E v \in waits : SameWait(w, v) /\ w.ids = v.ids
                              /\ (~w.failed => v.g # p.g /\ ~v.failed)
  <2>1. PICK v \in waits : w = IF v.g = p.g THEN [v EXCEPT !.failed = TRUE] ELSE v BY <1>2
  <2>2. v \in M!Waits BY <1>1, TypesAre
  <2>3. CASE v.g = p.g
    <3>1. w = [v EXCEPT !.failed = TRUE] BY <2>1, <2>3
    <3>2. SameWait(w, v) /\ w.ids = v.ids /\ w.failed BY <2>2, <3>1 DEF SameWait, M!Waits
    <3> QED BY <3>2
  <2>4. CASE v.g # p.g BY <2>1, <2>4 DEF SameWait
  <2> QED BY <2>3, <2>4
<1>5. M!GesturesArePast' BY <1>2, <1>3, <1>4 DEF M!PromiseInv, M!GesturesArePast, SameWait
<1>6. M!OffersAreSettled' BY <1>2 DEF M!PromiseInv, M!OffersAreSettled
<1>7. M!NothingDoomed' BY <1>2, <1>4 DEF M!PromiseInv, M!NothingDoomed, SameWait
<1>8. M!RestoresComing'
  <2>1. ASSUME NEW w \in waits', w.kind = "undo", ~w.failed, NEW x \in w.ids
        PROVE  \/ ThereIn(map', x)
               \/ \E q \in posts' : q.op = "restore" /\ q.g = w.g /\ x \in q.ids
    <3>1. PICK v \in waits : /\ v.kind = "undo" /\ ~v.failed /\ w.ids = v.ids /\ w.g = v.g
                             /\ v.g # p.g
      BY <1>4, <2>1 DEF SameWait
    <3>2. ThereIn(map, x) \/ \E q \in posts : q.op = "restore" /\ q.g = v.g /\ x \in q.ids
      BY <2>1, <3>1, ThereIsIn DEF M!PromiseInv, M!RestoresComing
    <3> QED BY <1>2, <3>1, <3>2
  <2> QED BY <2>1, ThereIsIn DEF M!RestoresComing
<1>9. \A x \in told' : ThereIn(map', x) BY <1>2, ThereIsIn DEF M!PromiseInv
<1> QED BY <1>1, <1>5, <1>6, <1>7, <1>8, <1>9, PromiseFrom

\* What a gesture forsakes is promised no longer; what it promises, it has posted.
Promised(w) ==
  \A x \in w.ids : /\ \A p \in posts' : p.op = "delete" => x \notin p.ids
                   /\ \E p \in posts' : p.op = "restore" /\ p.g = w.g /\ x \in p.ids

Forsaken(X) ==
  /\ posts \subseteq posts' /\ told' = told \ X
  /\ \A p \in posts' \ posts : p.op = "delete" => p.ids \subseteq X
  /\ \A e \in M!ToSet(undo') : e \in M!ToSet(undo) \/ e.kind = "move"
  /\ \A w \in waits' :
       \/ \E v \in waits : /\ SameWait(w, v) /\ w.failed = v.failed
                           /\ w.kind = "undo" => w.ids = v.ids \ X
       \/ w.kind = "undo" => Promised(w)

LEMMA WaitsForsaken ==
  ASSUME M!CanvasShape, NEW X
  PROVE  /\ \A w \in Cut(X) : \E v \in waits :
              SameWait(w, v) /\ w.failed = v.failed /\ (w.kind = "undo" => w.ids = v.ids \ X)
         /\ \A w \in waits : \E v \in waits :
              SameWait(w, v) /\ w.failed = v.failed /\ (w.kind = "undo" => w.ids = v.ids \ {})
<1>1. waits \subseteq M!Waits BY TypesAre
<1>2. ASSUME NEW w \in waits
      PROVE  \E v \in waits :
              SameWait(w, v) /\ w.failed = v.failed /\ (w.kind = "undo" => w.ids = v.ids \ {})
  <2>1. w.ids = w.ids \ {} OBVIOUS
  <2> QED BY <2>1 DEF SameWait
<1> QED BY <1>1, <1>2, WaitsCut

LEMMA PromiseOfGesture ==
  ASSUME M!PromiseInv, Grows, NEW X, Forsaken(X)
  PROVE  M!PromiseInv'
<1>1. M!CanvasShape /\ M!CanvasShape' BY GrowthKeepsShape DEF M!PromiseInv
<1>2. M!GesturesArePast' BY <1>1, GrowthKeepsPast DEF M!PromiseInv
<1>3. map' = map /\ toast' \subseteq toast BY DEF Grows
<1>4. M!OffersAreSettled'
  <2>1. ASSUME NEW e \in M!ToSet(undo') \cup toast', e.kind = "delete", NEW p \in posts'
        PROVE  p.g # e.g
    <3>1. e \in M!ToSet(undo) \cup toast BY <1>3, <2>1 DEF Forsaken
    <3>2. CASE p \in posts BY <2>1, <3>1, <3>2 DEF M!PromiseInv, M!OffersAreSettled
    <3>3. CASE p \notin posts
      <4>1. p.g = steps.user + 1 /\ steps.user \in Nat
        BY <1>1, <3>3, TypesAre, Counted DEF Grows, NewPost
      <4>2. e \in M!Entries BY <1>1, <3>1, TypesAre, ToSetOf
      <4>3. e.g \in Nat /\ e.g =< steps.user
        BY <3>1, <4>2 DEF M!PromiseInv, M!GesturesArePast, M!Entries
      <4> QED BY <4>1, <4>3
    <3> QED BY <3>2, <3>3
  <2>2. M!ToSet(undo)' = M!ToSet(undo') BY DEF M!ToSet
  <2> QED BY <2>1, <2>2 DEF M!OffersAreSettled
<1>5. M!NothingDoomed'
  <2>1. ASSUME NEW p \in posts', p.op = "delete" PROVE p.ids \cap told' = {}
    <3>1. CASE p \in posts
      <4>1. p.ids \cap told = {} BY <2>1, <3>1 DEF M!PromiseInv, M!NothingDoomed
      <4> QED BY <4>1 DEF Forsaken
    <3>2. CASE p \notin posts BY <2>1, <3>2 DEF Forsaken
    <3> QED BY <3>1, <3>2
  <2>2. ASSUME NEW p \in posts', p.op = "delete", NEW w \in waits', w.kind = "undo"
        PROVE  p.ids \cap w.ids = {}
    <3>1. CASE Promised(w) BY <2>2, <3>1 DEF Promised
    <3>2. CASE ~Promised(w)
      <4>1. PICK v \in waits : SameWait(w, v) /\ w.ids = v.ids \ X
        BY <2>2, <3>2 DEF Forsaken
      <4>2. v.kind = "undo" BY <2>2, <4>1 DEF SameWait
      <4>3. CASE p \in posts
        <5>1. p.ids \cap v.ids = {} BY <2>2, <4>2, <4>3 DEF M!PromiseInv, M!NothingDoomed
        <5> QED BY <4>1, <5>1
      <4>4. CASE p \notin posts
        <5>1. p.ids \subseteq X BY <2>2, <4>4 DEF Forsaken
        <5> QED BY <4>1, <5>1
      <4> QED BY <4>3, <4>4
    <3> QED BY <3>1, <3>2
  <2> QED BY <2>1, <2>2 DEF M!NothingDoomed
<1>6. M!RestoresComing'
  <2>1. ASSUME NEW w \in waits', w.kind = "undo", ~w.failed, NEW x \in w.ids
        PROVE  \/ ThereIn(map', x)
               \/ \E p \in posts' : p.op = "restore" /\ p.g = w.g /\ x \in p.ids
    <3>1. CASE Promised(w) BY <2>1, <3>1 DEF Promised
    <3>2. CASE ~Promised(w)
      <4>1. PICK v \in waits : SameWait(w, v) /\ w.failed = v.failed /\ w.ids = v.ids \ X
        BY <2>1, <3>2 DEF Forsaken
      <4>2. v.kind = "undo" /\ ~v.failed /\ x \in v.ids /\ v.g = w.g
        BY <2>1, <4>1 DEF SameWait
      <4>3. ThereIn(map, x) \/ \E p \in posts : p.op = "restore" /\ p.g = v.g /\ x \in p.ids
        BY <4>2, ThereIsIn DEF M!PromiseInv, M!RestoresComing
      <4> QED BY <1>3, <4>2, <4>3 DEF Forsaken
    <3> QED BY <3>1, <3>2
  <2> QED BY <2>1, ThereIsIn DEF M!RestoresComing
<1>7. \A x \in told' : ThereIn(map', x) BY <1>3, ThereIsIn DEF M!PromiseInv, Forsaken
<1> QED BY <1>1, <1>2, <1>4, <1>5, <1>6, <1>7, PromiseFrom

LEMMA GesturesForsake ==
  ASSUME CanvasConstants, M!CanvasShape, M!OffersAreSettled
  PROVE  /\ M!onNodeDragStop => Forsaken({})
         /\ \A I \in SUBSET M!Item, J \in SUBSET page.edges :
              M!onDelete(I, J) => \E X : Forsaken(X)
         /\ \A ends \in M!Ends : M!onConnect(ends) => Forsaken({})
         /\ \A e \in page.edges, ends \in M!Ends : M!onReconnect(e, ends) => Forsaken({e})
         /\ \A f \in Frame : M!addFrame(f, M!placeNode) => Forsaken({})
         /\ \A e \in M!ToSet(undo) \cup toast : M!undoEntry(e) => \E X : Forsaken(X)
<1>1. ASSUME M!onNodeDragStop PROVE Forsaken({})
  <2>1. /\ waits' = waits /\ told' = told /\ posts \subseteq posts'
        /\ \A p \in posts' \ posts : p.op = "move"
        /\ \A e \in M!ToSet(undo') \ M!ToSet(undo) : e.kind = "move"
    BY <1>1, DragStopIs
  <2> QED BY <2>1, WaitsForsaken DEF Forsaken
<1>2. ASSUME NEW I \in SUBSET M!Item, NEW J \in SUBSET page.edges, M!onDelete(I, J)
      PROVE  \E X : Forsaken(X)
  <2>1. PICK ids \in SUBSET (DOMAIN page.at \cup page.edges) :
           /\ UNCHANGED <<map, drag, undo, toast, frame, up, fetches, amiss>>
           /\ steps' = [steps EXCEPT !.user = @ + 1]
           /\ page' = [at |-> [x \in DOMAIN page.at \ ids |-> page.at[x]],
                       edges |-> page.edges \ ids]
           /\ posts' = posts \cup Each("delete", ids)
           /\ told' = told \ ids
           /\ \E w \in M!Waits : /\ NewWait(w) /\ w.kind = "delete"
                                 /\ waits' = Cut(ids) \cup {w}
    BY <1>2, DeleteIs
  <2>2. ids \in SUBSET (M!Item \cup Edge \cup M!Provisional) BY PageOf
  <2>3. \A p \in Each("delete", ids) : p.ids \subseteq ids BY <2>2, EachPosted
  <2>4. undo' = undo BY <2>1
  <2>5. PICK d : d.kind = "delete" /\ waits' = Cut(ids) \cup {d} BY <2>1
  <2>6. posts' = posts \cup Each("delete", ids) /\ told' = told \ ids BY <2>1
  <2>7. Forsaken(ids) BY <2>3, <2>4, <2>5, <2>6, WaitsForsaken DEF Forsaken
  <2> QED BY <2>7
<1>3. ASSUME NEW ends \in M!Ends, M!onConnect(ends) PROVE Forsaken({})
  <2>1. PICK p : p.op = "connect" /\ posts' = posts \cup {p} BY <1>3, ConnectIs
  <2>2. PICK d : d.kind = "connect" /\ waits' = waits \cup {d} BY <1>3, ConnectIs
  <2>3. undo' = undo /\ told' = told BY <1>3, ConnectIs
  <2> QED BY <2>1, <2>2, <2>3, WaitsForsaken DEF Forsaken
<1>4. ASSUME NEW e \in page.edges, NEW ends \in M!Ends, M!onReconnect(e, ends)
      PROVE  Forsaken({e})
  <2>1. Reconnected(e, ends) BY <1>4, ReconnectIs
  <2>2. PICK p, d : p.op = "connect" /\ d.ids = {e} /\ posts' = posts \cup {d, p}
    BY <2>1 DEF Reconnected
  <2>3. undo' = undo /\ told' = told \ {e} /\ waits' = Cut({e}) BY <2>1 DEF Reconnected
  <2> QED BY <2>2, <2>3, WaitsForsaken DEF Forsaken
<1>5. ASSUME NEW f \in Frame, M!addFrame(f, M!placeNode) PROVE Forsaken({})
  <2>1. PICK p : p.op = "add" /\ posts' = posts \cup {p} BY <1>5, AddIs
  <2>2. PICK d : d.kind = "add" /\ waits' = waits \cup {d} BY <1>5, AddIs
  <2>3. undo' = undo /\ told' = told BY <1>5, AddIs
  <2> QED BY <2>1, <2>2, <2>3, WaitsForsaken DEF Forsaken
<1>6. ASSUME NEW e \in M!ToSet(undo) \cup toast, M!undoEntry(e) PROVE \E X : Forsaken(X)
  <2>1. /\ M!ToSet(undo') \subseteq M!ToSet(undo) /\ posts \subseteq posts'
        /\ \A p \in posts' \ posts : p.op = "delete" => e.kind = "add" /\ p.ids = e.ids
        /\ e.kind = "delete" =>
              \A x \in e.ids : \E p \in posts' :
                p.op = "restore" /\ p.g = steps.user + 1 /\ x \in p.ids
    BY <1>6, UndoIs
  <2>2. PICK w \in M!Waits :
              /\ NewWait(w) /\ w.kind = "undo"
              /\ w.ids \subseteq e.ids
              /\ e.kind = "delete" => \A x \in w.ids : ~Doomed(e, x)
              /\ e.kind # "delete" => w.ids = {}
              /\ IF e.kind = "add" THEN told' = told \ e.ids /\ waits' = Cut(e.ids) \cup {w}
                 ELSE told' = told /\ waits' = waits \cup {w}
    BY <1>6, UndoIs
  <2>3. Promised(w)
    <3>1. CASE e.kind # "delete" BY <2>2, <3>1 DEF Promised
    <3>2. CASE e.kind = "delete"
      <4>1. ASSUME NEW x \in w.ids, NEW p \in posts', p.op = "delete" PROVE x \notin p.ids
        <5>1. p \in posts BY <2>1, <3>2, <4>1
        <5>2. p.g # e.g BY <3>2, <5>1 DEF M!OffersAreSettled
        <5> QED BY <2>2, <3>2, <4>1, <5>1, <5>2 DEF Doomed
      <4> QED BY <2>1, <2>2, <3>2, <4>1 DEF Promised, NewWait
    <3> QED BY <3>1, <3>2
  <2>4. CASE e.kind = "add"
    <3>1. Forsaken(e.ids) BY <2>1, <2>2, <2>3, <2>4, WaitsForsaken DEF Forsaken
    <3> QED BY <3>1
  <2>5. CASE e.kind # "add"
    <3>1. Forsaken({}) BY <2>1, <2>2, <2>3, <2>5, WaitsForsaken DEF Forsaken
    <3> QED BY <3>1
  <2> QED BY <2>4, <2>5
<1> QED BY <1>1, <1>2, <1>3, <1>4, <1>5, <1>6

-----------------------------------------------------------------------------
(* The canvas: the posts of a gesture are all answered *)

\* The entry that a deletion or a new frame becomes.
Offer(e, w) == /\ e \in M!Entries /\ M!CanUndo(e)
               /\ e.kind = w.kind /\ e.g = w.g /\ e.ids = w.ids

Answered(w) ==
  /\ UNCHANGED <<map, drag, posts, frame, up, amiss, steps>>
  /\ \A p \in posts : p.g # w.g
  /\ waits' = waits \ {w}
  /\ undo' \in Seq(M!Entries)
  /\ \A e \in M!ToSet(undo') \cup toast' : e \in M!ToSet(undo) \cup toast \/ Offer(e, w)
  /\ page' \in Canvases /\ page'.at = page.at
  /\ page'.edges = page.edges
       \/ \E q \in M!Provisional : page'.edges = page.edges \ {q}
  /\ fetches' = fetches \/ fetches' = Append(fetches, M!Fetch)
  /\ told' = IF w.kind = "undo" /\ ~w.failed THEN told \cup w.ids ELSE told

LEMMA EmptyPlace == M!Nowhere \in M!Places
<1>1. <<>> \in [{} -> Pos] OBVIOUS
<1> QED BY <1>1, IsPlaces DEF M!Nowhere

LEMMA AnsweredIs ==
  ASSUME M!CanvasShape, NEW w \in waits, M!answered(w)
  PROVE  Answered(w)
<1> DEFINE e == M!Entry(w.kind, w.g, w.ids, M!Nowhere)
           es == page.edges \ {w.at}
<1>1. w \in M!Waits /\ M!IsDue(w) BY TypesAre DEF M!CanvasShape, M!EntriesAreMade
<1>2. /\ UNCHANGED <<map, drag, posts, frame, up, amiss, steps>>
      /\ \A p \in posts : p.g # w.g
      /\ waits' = waits \ {w}
      /\ undo' = IF w.kind \in {"delete", "add"} /\ ~w.failed THEN Append(undo, e) ELSE undo
      /\ toast' = IF w.kind = "delete" /\ ~w.failed THEN {e} ELSE toast
      /\ page' = IF w.kind = "connect" /\ w.failed THEN [page EXCEPT !.edges = es] ELSE page
      /\ fetches' = fetches \/ fetches' = Append(fetches, M!Fetch)
      /\ told' = IF w.kind = "undo" /\ ~w.failed THEN told \cup w.ids ELSE told
  BY DEF M!answered
<1>3. w.kind \in {"delete", "add"} => Offer(e, w)
  <2>1. w.ids \in SUBSET (M!Item \cup Edge) /\ w.g \in Nat BY <1>1 DEF M!Waits
  <2>2. w.kind \in {"delete", "add"} =>
          e \in M!Entries /\ e.kind = w.kind /\ e.g = w.g /\ e.ids = w.ids
    BY <2>1, EntryIs, EmptyPlace
  <2> HIDE DEF e
  <2> QED BY <1>1, <2>2 DEF Offer, M!CanUndo, M!IsDue
<1>4. es \in SUBSET (Edge \cup M!Provisional) BY PageOf
<1>5. w.kind = "connect" => w.at \in M!Provisional
  BY <1>1 DEF M!IsDue, M!Provisional
<1> HIDE DEF e
<1>6. undo' \in Seq(M!Entries)
      /\ \A d \in M!ToSet(undo') \cup toast' : d \in M!ToSet(undo) \cup toast \/ Offer(d, w)
  <2>1. CASE w.kind \in {"delete", "add"} /\ ~w.failed
    <3>1. e \in M!Entries BY <1>3, <2>1 DEF Offer
    <3>2. undo' \in Seq(M!Entries) /\ M!ToSet(undo') = M!ToSet(undo) \cup {e}
      BY <1>2, <2>1, <3>1, AppendedIs
    <3>3. toast' \subseteq toast \cup {e} BY <1>2
    <3> QED BY <1>3, <2>1, <3>2, <3>3
  <2>2. CASE ~(w.kind \in {"delete", "add"} /\ ~w.failed)
    <3>1. undo' = undo /\ toast' = toast BY <1>2, <2>2
    <3> QED BY <3>1, TypesAre
  <2> QED BY <2>1, <2>2
<1>7. /\ page' \in Canvases /\ page'.at = page.at
      /\ page'.edges = page.edges \/ \E q \in M!Provisional : page'.edges = page.edges \ {q}
  <2>1. CASE w.kind = "connect" /\ w.failed
    <3>1. page' = [page EXCEPT !.edges = es] BY <1>2, <2>1
    <3>2. page' \in Canvases /\ page'.at = page.at /\ page'.edges = es
      <4> HIDE DEF es
      <4> QED BY <1>4, <3>1, EdgesOnlyIs
    <3> QED BY <1>5, <2>1, <3>2
  <2>2. CASE ~(w.kind = "connect" /\ w.failed)
    <3>1. page' = page BY <1>2, <2>2
    <3> QED BY <3>1, TypesAre
  <2> QED BY <2>1, <2>2
<1> QED BY <1>2, <1>6, <1>7 DEF Answered

LEMMA ShapeOfAnswer ==
  ASSUME M!CanvasShape, NEW w \in waits, Answered(w)
  PROVE  M!CanvasShape'
<1>1. waits' \subseteq waits /\ UNCHANGED <<map, drag, posts, frame, up, amiss, steps>>
  BY DEF Answered
<1>2. \A e \in M!ToSet(undo') \cup toast' : e \in M!Entries /\ M!CanUndo(e)
  <2>1. ASSUME NEW e \in M!ToSet(undo) \cup toast PROVE e \in M!Entries /\ M!CanUndo(e)
    BY TypesAre, ToSetOf DEF M!CanvasShape, M!EntriesAreMade
  <2> QED BY <2>1 DEF Answered, Offer
<1>3. told' \subseteq M!Item \cup Edge
  <2>1. w.ids \subseteq M!Item \cup Edge BY TypesAre DEF M!Waits
  <2> QED BY <2>1, TypesAre DEF Answered
<1>4. fetches' \in Seq(Answers) BY AskedIs, TypesAre DEF Answered
<1>5. M!CanvasTypes' BY <1>1, <1>2, <1>3, <1>4, TypesAre, TypesFrom DEF Answered
<1>6. M!PostsAreMade' BY <1>1 DEF M!CanvasShape, M!PostsAreMade, M!IsMade
<1>7. M!EntriesAreMade'
  <2>1. M!ToSet(undo)' = M!ToSet(undo') BY DEF M!ToSet
  <2>2. \A v \in waits' : M!IsDue(v) BY <1>1 DEF M!CanvasShape, M!EntriesAreMade
  <2>3. \A e \in M!ToSet(undo') \cup toast' : M!CanUndo(e) BY <1>2
  <2> QED BY <2>1, <2>2, <2>3 DEF M!EntriesAreMade, M!CanUndo, M!IsDue
<1> QED BY <1>5, <1>6, <1>7, ShapeFrom

LEMMA PromiseOfAnswer ==
  ASSUME M!PromiseInv, NEW w \in waits, Answered(w)
  PROVE  M!PromiseInv'
<1>1. M!CanvasShape /\ M!CanvasShape' BY ShapeOfAnswer DEF M!PromiseInv
<1>2. waits' \subseteq waits /\ UNCHANGED <<map, posts, steps>> BY DEF Answered
<1>3. M!ToSet(undo)' = M!ToSet(undo') BY DEF M!ToSet
<1>4. M!GesturesArePast'
  <2>1. \A e \in M!ToSet(undo') \cup toast' : e.g =< steps.user
    <3>1. w.g =< steps.user BY DEF M!PromiseInv, M!GesturesArePast
    <3> QED BY <3>1 DEF M!PromiseInv, M!GesturesArePast, Answered, Offer
  <2> QED BY <1>2, <1>3, <2>1 DEF M!PromiseInv, M!GesturesArePast
<1>5. M!OffersAreSettled'
  <2>1. ASSUME NEW e \in M!ToSet(undo') \cup toast', e.kind = "delete", NEW p \in posts
        PROVE  p.g # e.g
    <3>1. CASE e \in M!ToSet(undo) \cup toast
      BY <2>1, <3>1 DEF M!PromiseInv, M!OffersAreSettled
    <3>2. CASE Offer(e, w) BY <3>2 DEF Answered, Offer
    <3> QED BY <2>1, <3>1, <3>2 DEF Answered
  <2> QED BY <1>2, <1>3, <2>1 DEF M!OffersAreSettled
<1>6. M!NothingDoomed' BY <1>2 DEF M!PromiseInv, M!NothingDoomed, Answered
<1>7. M!RestoresComing' BY <1>2, ThereIsIn DEF M!PromiseInv, M!RestoresComing
<1>8. \A x \in told' : ThereIn(map', x)
  <2>1. ASSUME w.kind = "undo", ~w.failed, NEW x \in w.ids PROVE ThereIn(map, x)
    <3>1. \A p \in posts : p.g # w.g BY DEF Answered
    <3> QED BY <2>1, <3>1, ThereIsIn DEF M!PromiseInv, M!RestoresComing
  <2>2. \A x \in told : ThereIn(map, x) BY ThereIsIn DEF M!PromiseInv
  <2> QED BY <1>2, <2>1, <2>2 DEF Answered
<1> QED BY <1>1, <1>4, <1>5, <1>6, <1>7, <1>8, PromiseFrom

Gestures ==
  \/ M!onNodeDragStop
  \/ \E I \in SUBSET M!Item, J \in SUBSET page.edges : M!onDelete(I, J)
  \/ \E ends \in M!Ends : M!onConnect(ends)
  \/ \E e \in page.edges, ends \in M!Ends : M!onReconnect(e, ends)
  \/ \E f \in Frame : M!addFrame(f, M!placeNode)
  \/ \E e \in M!ToSet(undo) \cup toast : M!undoEntry(e)

LEMMA CanvasStepIs ==
  ASSUME M!MNext
  PROVE  \/ Calls \/ Quiets \/ Gestures
         \/ \E p \in posts : M!postHandled(p) \/ M!postFailed(p)
         \/ \E w \in waits : M!answered(w)
BY DEF M!MNext, Calls, Quiets, Gestures

LEMMA PromiseSteps ==
  ASSUME CanvasConstants, M!PromiseInv, M!MNext
  PROVE  M!PromiseInv'
<1>1. M!CanvasShape /\ M!OffersAreSettled BY DEF M!PromiseInv
<1>2. CASE Calls
  <2>1. PICK m : Keeps(map, m) /\ M!ccCall(m) BY <1>1, <1>2, CallIs, TypesAre
  <2> QED BY <2>1, PromiseOfCall
<1>3. CASE Quiets BY <1>1, <1>3, QuietsAre, PromiseOfQuiet
<1>4. CASE Gestures
  <2>1. Grows BY <1>1, <1>4, GesturesGrow DEF Gestures
  <2>2. \E X : Forsaken(X) BY <1>1, <1>4, GesturesForsake DEF Gestures
  <2> QED BY <2>1, <2>2, PromiseOfGesture
<1>5. CASE \E p \in posts : M!postHandled(p) \/ M!postFailed(p)
  BY <1>5, PromiseOfPost, PromiseOfFailure
<1>6. CASE \E w \in waits : M!answered(w) BY <1>1, <1>6, AnsweredIs, PromiseOfAnswer
<1> QED BY <1>2, <1>3, <1>4, <1>5, <1>6, CanvasStepIs

-----------------------------------------------------------------------------
(* The canvas: once everything is answered, it shows the map *)

LastIs(s, m) == (s # <<>> /\ ~M!Last(s).old /\ M!Last(s).reply # NoMap)
                  => M!Last(s).reply = M!getMapView(m)

LEMMA LastIsBrings ==
  /\ M!LastBringsMap <=> LastIs(fetches, map)
  /\ M!LastBringsMap' <=> LastIs(fetches', map')
<1>1. M!LastBringsMap <=> LastIs(fetches, map) BY DEF M!LastBringsMap, LastIs
<1>2. M!LastBringsMap' <=> LastIs(fetches', map')
  BY DEF M!LastBringsMap, LastIs, M!getMapView, M!Live, M!Last
<1> QED BY <1>1, <1>2

\* The canvas has something to show for every row, and the other way round.
Shows(m, at, edges, moves, dels, links) ==
  /\ \A x \in DOMAIN at : M!Live(m, x) /\ (at[x] = m.items[x].pos \/ x \in moves)
  /\ \A x \in M!Item : M!Live(m, x) => x \in DOMAIN at \/ x \in dels
  /\ edges \cap Edge \subseteq M!getMapView(m).edges
  /\ \A e \in M!getMapView(m).edges : e \in edges \/ e \in dels
  /\ \A q \in edges \cap M!Provisional :
       M!Live(m, q[1]) /\ M!Live(m, q[2]) /\ (M!Covered(m, q) \/ q \in links)

Moves(ps, ds) == {x \in M!Item : x \in DOMAIN ds \/ \E p \in ps : p.op = "move" /\ p.ids = {x}}
Dels(ps) == {x \in M!Item \cup Edge : \E p \in ps : p.op = "delete" /\ p.ids = {x}}
Links(ps) == {q \in M!Provisional : \E p \in ps : p.op = "connect" /\ p.at = q}

LEMMA ShowsIs ==
  ASSUME DOMAIN page.at \subseteq M!Item
  PROVE  (M!ItemsFollow /\ M!EdgesFollow)
           <=> Shows(map, page.at, page.edges, Moves(posts, drag), Dels(posts), Links(posts))
<1>1. \A x \in M!Item : M!Moving(x) <=> x \in Moves(posts, drag) BY DEF M!Moving, Moves
<1>2. \A x \in M!Item \cup Edge : M!Deleting(x) <=> x \in Dels(posts) BY DEF M!Deleting, Dels
<1>3. \A q \in M!Provisional : M!Connecting(q) <=> q \in Links(posts) BY DEF M!Connecting, Links
<1>4. M!getMapView(map).edges \subseteq Edge BY DEF M!getMapView
<1> QED BY <1>1, <1>2, <1>3, <1>4 DEF M!ItemsFollow, M!EdgesFollow, Shows

LEMMA ShowsIsNext ==
  ASSUME DOMAIN page'.at \subseteq M!Item
  PROVE  (M!ItemsFollow /\ M!EdgesFollow)'
           <=> Shows(map', page'.at, page'.edges, Moves(posts', drag'), Dels(posts'), Links(posts'))
<1>1. \A x \in M!Item : M!Moving(x)' <=> x \in Moves(posts', drag') BY DEF M!Moving, Moves
<1>2. \A x \in M!Item \cup Edge : M!Deleting(x)' <=> x \in Dels(posts') BY DEF M!Deleting, Dels
<1>3. \A q \in M!Provisional : M!Connecting(q)' <=> q \in Links(posts') BY DEF M!Connecting, Links
<1>4. M!getMapView(map').edges \subseteq Edge BY DEF M!getMapView
<1>5. M!getMapView(map)' = M!getMapView(map') BY DEF M!getMapView, M!Live
<1>6. \A x : M!Live(map, x)' <=> M!Live(map', x) BY DEF M!Live
<1>7. \A q : M!Covered(map, q)' <=> M!Covered(map', q) BY DEF M!Covered
<1> QED BY <1>1, <1>2, <1>3, <1>4, <1>5, <1>6, <1>7 DEF M!ItemsFollow, M!EdgesFollow, Shows

LEMMA ViewFrom ==
  ASSUME M!CanvasShape',
         (up' /\ ~frame') => LastIs(fetches', map'),
         (up' /\ ~frame' /\ fetches' = <<>> /\ ~amiss') =>
            Shows(map', page'.at, page'.edges, Moves(posts', drag'), Dels(posts'), Links(posts'))
  PROVE  M!ViewInv'
<1>1. DOMAIN page'.at \subseteq M!Item
  <2>1. page'.at \in M!Places BY DEF M!CanvasShape, M!CanvasTypes
  <2> QED BY <2>1, PlacesAre
<1>2. (up /\ ~frame /\ fetches = <<>> /\ ~amiss)' => (M!ItemsFollow /\ M!EdgesFollow)'
  BY <1>1, ShowsIsNext
<1>3. (up /\ ~frame)' => M!LastBringsMap' BY LastIsBrings
<1> QED BY <1>2, <1>3 DEF M!ViewInv

LEMMA ViewHas ==
  ASSUME M!ViewInv
  PROVE  /\ M!CanvasShape
         /\ (up /\ ~frame) => LastIs(fetches, map)
         /\ (up /\ ~frame /\ fetches = <<>> /\ ~amiss) =>
               Shows(map, page.at, page.edges, Moves(posts, drag), Dels(posts), Links(posts))
BY PageOf, ShowsIs, LastIsBrings DEF M!ViewInv

LEMMA ViewStarts == ASSUME CanvasConstants, M!MInit PROVE M!ViewInv
<1>1. M!CanvasShape BY CanvasStarts
<1>2. fetches = <<>> /\ page = M!getMapView(map) BY DEF M!MInit
<1>3. LastIs(fetches, map) BY <1>2 DEF LastIs
<1>4. map \in MapRows BY <1>1, TypesAre
<1>5. Shows(map, page.at, page.edges, Moves(posts, drag), Dels(posts), Links(posts))
  <2>1. page.at = [x \in {y \in M!Item : M!Live(map, y)} |-> map.items[x].pos]
    BY <1>2 DEF M!getMapView
  <2>2. page.edges = M!getMapView(map).edges /\ page.edges \subseteq Edge
    BY <1>2 DEF M!getMapView
  <2>3. page.edges \cap M!Provisional = {} BY <2>2 DEF CanvasConstants
  <2> QED BY <2>1, <2>2, <2>3 DEF Shows
<1> QED BY <1>1, <1>3, <1>5, PageOf, ShowsIs, LastIsBrings DEF M!ViewInv

LEMMA ViewShows ==
  ASSUME CanvasConstants, M!ViewInv
  PROVE  M!AtRestShowsMap
<1> SUFFICES ASSUME M!AtRest, ~amiss
             PROVE  /\ page.at = M!getMapView(map).at
                    /\ page.edges \cap Edge = M!getMapView(map).edges
                    /\ \A q \in page.edges \cap M!Provisional :
                         \E e \in M!getMapView(map).edges : map.edges[e].ends = q
  BY DEF M!AtRestShowsMap
<1> DEFINE at == page.at es == page.edges
<1>1. Shows(map, at, es, {}, {}, {})
  <2>1. up /\ ~frame /\ fetches = <<>> /\ posts = {} /\ DOMAIN drag = {}
    BY DEF M!AtRest, M!Idle
  <2>2. Moves(posts, drag) = {} /\ Dels(posts) = {} /\ Links(posts) = {}
    BY <2>1 DEF Moves, Dels, Links
  <2> QED BY <2>1, <2>2, ViewHas
<1>2. at = [x \in DOMAIN at |-> at[x]] /\ DOMAIN at \subseteq M!Item
  BY PageOf, PlacesAre DEF M!ViewInv
<1> HIDE DEF at, es
<1>3. DOMAIN at = {y \in M!Item : M!Live(map, y)} BY <1>1, <1>2 DEF Shows
<1>4. \A x \in DOMAIN at : at[x] = map.items[x].pos BY <1>1 DEF Shows
<1>5. at = [x \in {y \in M!Item : M!Live(map, y)} |-> map.items[x].pos]
  BY <1>2, <1>3, <1>4
<1>6. at = M!getMapView(map).at BY <1>5 DEF M!getMapView
<1>7. es \cap Edge = M!getMapView(map).edges
  <2>1. M!getMapView(map).edges \subseteq Edge BY DEF M!getMapView
  <2> QED BY <1>1, <2>1 DEF Shows
<1>8. ASSUME NEW q \in es \cap M!Provisional
      PROVE  \E e \in M!getMapView(map).edges : map.edges[e].ends = q
  <2>1. M!Live(map, q[1]) /\ M!Live(map, q[2]) /\ M!Covered(map, q) BY <1>1 DEF Shows
  <2>2. PICK e \in Edge : map.edges[e].ends = q /\ map.edges[e].live BY <2>1 DEF M!Covered
  <2>3. e \in M!getMapView(map).edges BY <2>1, <2>2 DEF M!getMapView
  <2> QED BY <2>2, <2>3
<1> QED BY <1>6, <1>7, <1>8 DEF at, es

\* After a change of the rows the page will be told, if it can be.
LEMMA ViewOfCall ==
  ASSUME M!ViewInv, NEW m, Keeps(map, m), M!ccCall(m)
  PROVE  M!ViewInv'
<1>1. M!CanvasShape' BY ShapeOfCall DEF M!ViewInv
<1>2. frame' = up /\ up' = up BY DEF M!ccCall, M!emit
<1> QED BY <1>1, <1>2, ViewFrom

LEMMA ViewOfPost ==
  ASSUME CanvasConstants, M!ViewInv, NEW p \in posts, M!postHandled(p)
  PROVE  M!ViewInv'
<1>1. M!CanvasShape /\ M!CanvasShape' BY ShapeOfPost DEF M!ViewInv
<1>2. /\ UNCHANGED <<page, drag, up, fetches, amiss>> /\ map' = M!Handled(map, p)
      /\ posts' = posts \ {p}
  BY DEF M!postHandled, M!canvas
<1> DEFINE still == M!Refused(map, p) \/ (p.op = "connect" /\ M!Covered(map, p.at))
<1>3. CASE ~still
  <2>1. frame' = up BY <1>3 DEF M!postHandled, M!emit
  <2> QED BY <1>1, <1>2, <2>1, ViewFrom
<1>4. CASE still
  <2>1. frame' = frame BY <1>4 DEF M!postHandled
  <2>2. map' = map BY <1>2, <1>4 DEF M!Handled
  <2>3. p.op = "move" => \A x \in M!Item : M!Live(map, x) => p.ids # {x}
    BY <1>4 DEF M!Refused
  <2>4. p.op = "delete" => \A x \in M!Item \cup Edge :
          p.ids = {x} => x \in M!Item /\ ~M!Live(map, x)
    BY <1>4 DEF M!Refused, CanvasConstants, M!Item
  <2>5. p.op = "connect" =>
          ~(M!Live(map, p.at[1]) /\ M!Live(map, p.at[2])) \/ M!Covered(map, p.at)
    BY <1>4 DEF M!Refused
  <2>6. ASSUME Shows(map, page.at, page.edges, Moves(posts, drag), Dels(posts), Links(posts))
        PROVE  Shows(map, page.at, page.edges, Moves(posts', drag), Dels(posts'), Links(posts'))
    <3>1. \A x \in M!Item : M!Live(map, x) /\ x \in Moves(posts, drag) => x \in Moves(posts', drag)
      BY <1>2, <2>3 DEF Moves
    <3>2. \A x \in M!Item : M!Live(map, x) /\ x \in Dels(posts) => x \in Dels(posts')
      BY <1>2, <2>4 DEF Dels
    <3>3. \A e \in Edge : e \in Dels(posts) => e \in Dels(posts')
      BY <1>2, <2>4 DEF Dels, CanvasConstants
    <3>4. \A q \in M!Provisional :
            /\ M!Live(map, q[1]) /\ M!Live(map, q[2])
            /\ M!Covered(map, q) \/ q \in Links(posts)
            => M!Covered(map, q) \/ q \in Links(posts')
      BY <1>2, <2>5 DEF Links
    <3>5. DOMAIN page.at \subseteq M!Item /\ M!getMapView(map).edges \subseteq Edge
      BY <1>1, PageOf DEF M!getMapView
    <3> QED BY <2>6, <3>1, <3>2, <3>3, <3>4, <3>5 DEF Shows
  <2>7. (up /\ ~frame) => LastIs(fetches', map') BY <1>2, <2>2, ViewHas
  <2>8. (up /\ ~frame /\ fetches = <<>> /\ ~amiss) =>
          Shows(map', page'.at, page'.edges, Moves(posts', drag'), Dels(posts'), Links(posts'))
    BY <1>2, <2>2, <2>6, ViewHas
  <2> QED BY <1>1, <1>2, <2>1, <2>7, <2>8, ViewFrom
<1> QED BY <1>3, <1>4

LEMMA ViewOfFailure ==
  ASSUME M!ViewInv, NEW p \in posts, M!postFailed(p)
  PROVE  M!ViewInv'
<1>1. M!CanvasShape /\ M!CanvasShape' BY ShapeOfFailure DEF M!ViewInv
<1>2. amiss' /\ fetches' = M!Aged(fetches) BY DEF M!postFailed
<1>3. /\ fetches' \in Seq(Answers) /\ Len(fetches') = Len(fetches)
      /\ fetches \in Seq(Answers) /\ \A i \in DOMAIN fetches : fetches'[i].old
  BY <1>1, <1>2, AgedAre, TypesAre
<1>4. ASSUME fetches' # <<>> PROVE M!Last(fetches').old
  <2>1. Len(fetches) \in DOMAIN fetches BY <1>3, <1>4
  <2> QED BY <1>3, <2>1 DEF M!Last
<1>5. LastIs(fetches', map') BY <1>4 DEF LastIs
<1> QED BY <1>1, <1>2, <1>5, ViewFrom

\* What a gesture shows at once, it has posted.
Follows ==
  /\ posts \subseteq posts' /\ DOMAIN page'.at \subseteq DOMAIN page.at
  /\ \A x \in DOMAIN page'.at :
       /\ page'.at[x] = page.at[x]
       /\ x \in Moves(posts, drag) => x \in Moves(posts', drag')
  /\ \A x \in DOMAIN page.at \ DOMAIN page'.at : x \in Dels(posts')
  /\ page'.edges \cap Edge \subseteq page.edges
  /\ \A e \in page.edges \cap Edge : e \in page'.edges \/ e \in Dels(posts')
  /\ \A q \in page'.edges \cap M!Provisional :
       \/ q \in page.edges
       \/ q[1] \in DOMAIN page.at /\ q[2] \in DOMAIN page.at /\ q \in Links(posts')

LEMMA ViewOfGesture ==
  ASSUME M!ViewInv, Grows, Follows
  PROVE  M!ViewInv'
<1>1. M!CanvasShape /\ M!CanvasShape' BY GrowthKeepsShape DEF M!ViewInv
<1>2. UNCHANGED <<map, frame, up, fetches, amiss>> BY DEF Grows
<1>3. ASSUME Shows(map, page.at, page.edges, Moves(posts, drag), Dels(posts), Links(posts))
      PROVE  Shows(map, page'.at, page'.edges, Moves(posts', drag'), Dels(posts'), Links(posts'))
  <2>1. \A x \in M!Item \cup Edge : x \in Dels(posts) => x \in Dels(posts')
    BY DEF Dels, Follows
  <2>2. \A q \in M!Provisional : q \in Links(posts) => q \in Links(posts') BY DEF Links, Follows
  <2>3. DOMAIN page.at \subseteq M!Item /\ M!getMapView(map).edges \subseteq Edge
    BY <1>1, PageOf DEF M!getMapView
  <2>4. \A x \in DOMAIN page'.at : M!Live(map, x)
          /\ (page'.at[x] = map.items[x].pos \/ x \in Moves(posts', drag'))
    BY <1>3 DEF Shows, Follows
  <2>5. \A x \in M!Item : M!Live(map, x) => x \in DOMAIN page'.at \/ x \in Dels(posts')
    BY <1>3, <2>1 DEF Shows, Follows
  <2>6. page'.edges \cap Edge \subseteq M!getMapView(map).edges
    BY <1>3 DEF Shows, Follows
  <2>7. \A e \in M!getMapView(map).edges : e \in page'.edges \/ e \in Dels(posts')
    BY <1>3, <2>1, <2>3 DEF Shows, Follows
  <2>8. ASSUME NEW q \in page'.edges \cap M!Provisional
        PROVE  M!Live(map, q[1]) /\ M!Live(map, q[2]) /\ (M!Covered(map, q) \/ q \in Links(posts'))
    <3>1. CASE q \in page.edges BY <1>3, <2>2, <3>1 DEF Shows
    <3>2. CASE q[1] \in DOMAIN page.at /\ q[2] \in DOMAIN page.at /\ q \in Links(posts')
      BY <1>3, <3>2 DEF Shows
    <3> QED BY <3>1, <3>2 DEF Follows
  <2> QED BY <2>4, <2>5, <2>6, <2>7, <2>8 DEF Shows
<1>4. (up' /\ ~frame') => LastIs(fetches', map') BY <1>2, ViewHas
<1>5. (up' /\ ~frame' /\ fetches' = <<>> /\ ~amiss') =>
        Shows(map', page'.at, page'.edges, Moves(posts', drag'), Dels(posts'), Links(posts'))
  BY <1>2, <1>3, ViewHas
<1> QED BY <1>1, <1>4, <1>5, ViewFrom

\* A gesture that only posts.
LEMMA PostingFollows ==
  ASSUME UNCHANGED <<page, drag>>, posts \subseteq posts'
  PROVE  Follows
BY DEF Follows, Moves

\* An edge between two cards is drawn, perhaps in place of another.
LEMMA DrawingFollows ==
  ASSUME CanvasConstants, M!CanvasShape, UNCHANGED drag, posts \subseteq posts',
         NEW ends \in M!Ends, NEW es \in SUBSET (Edge \cup M!Provisional),
         page' = [page EXCEPT !.edges = es], es \subseteq page.edges \cup {ends},
         ends[1] \in DOMAIN page.at, ends[2] \in DOMAIN page.at, ends \in Links(posts'),
         \A e \in page.edges \cap Edge : e \in es \/ e \in Dels(posts')
  PROVE  Follows
<1>1. ends \in M!Provisional /\ ends \notin Edge
  BY DEF M!Provisional, CanvasConstants
<1>2. page'.at = page.at /\ page'.edges = es BY EdgesOnlyIs
<1>3. \A x \in M!Item : x \in Moves(posts, drag) => x \in Moves(posts', drag') BY DEF Moves
<1>4. DOMAIN page.at \subseteq M!Item BY PageOf
<1> QED BY <1>1, <1>2, <1>3, <1>4 DEF Follows

LEMMA LinkIs ==
  ASSUME NEW ends \in M!Ends, NEW p \in posts', p.op = "connect", p.at = ends
  PROVE  ends \in Links(posts')
BY DEF Links, M!Provisional

LEMMA GesturesFollow ==
  ASSUME CanvasConstants, M!CanvasShape
  PROVE  /\ M!onNodeDragStop => Follows
         /\ \A I \in SUBSET M!Item, J \in SUBSET page.edges : M!onDelete(I, J) => Follows
         /\ \A ends \in M!Ends : M!onConnect(ends) => Follows
         /\ \A e \in page.edges, ends \in M!Ends : M!onReconnect(e, ends) => Follows
         /\ \A f \in Frame : M!addFrame(f, M!placeNode) => Follows
         /\ \A e \in M!ToSet(undo) \cup toast : M!undoEntry(e) => Follows
<1>1. ASSUME M!onNodeDragStop PROVE Follows
  <2>1. /\ page' = page /\ drag' = <<>> /\ posts \subseteq posts'
        /\ \A x \in DOMAIN drag \cap DOMAIN page.at :
             \E p \in posts' : p.op = "move" /\ p.ids = {x}
    BY <1>1, DragStopIs
  <2>2. ASSUME NEW x \in DOMAIN page.at, x \in Moves(posts, drag) PROVE x \in Moves(posts', drag')
    <3>1. CASE x \in DOMAIN drag BY <2>1, <2>2, <3>1 DEF Moves
    <3>2. CASE x \notin DOMAIN drag BY <2>1, <2>2, <3>2 DEF Moves
    <3> QED BY <3>1, <3>2
  <2> QED BY <2>1, <2>2 DEF Follows
<1>2. ASSUME NEW I \in SUBSET M!Item, NEW J \in SUBSET page.edges, M!onDelete(I, J) PROVE Follows
  <2>1. PICK ids \in SUBSET (DOMAIN page.at \cup page.edges) :
           /\ UNCHANGED <<map, drag, undo, toast, frame, up, fetches, amiss>>
           /\ steps' = [steps EXCEPT !.user = @ + 1]
           /\ page' = [at |-> [x \in DOMAIN page.at \ ids |-> page.at[x]],
                       edges |-> page.edges \ ids]
           /\ posts' = posts \cup Each("delete", ids)
           /\ told' = told \ ids
           /\ \E w \in M!Waits : /\ NewWait(w) /\ w.kind = "delete"
                                 /\ waits' = Cut(ids) \cup {w}
    BY <1>2, DeleteIs
  <2>2. ids \in SUBSET (M!Item \cup Edge \cup M!Provisional) BY PageOf
  <2>3. \A x \in ids : \E p \in posts' : p.op = "delete" /\ p.ids = {x}
    <3>1. \A x \in ids : \E p \in Each("delete", ids) :
            NewPost(p) /\ p.op = "delete" /\ p.ids = {x}
      <4>1. "delete" \in {"delete", "restore"} OBVIOUS
      <4> QED BY <2>2, <4>1, EachPosted
    <3>2. Each("delete", ids) \subseteq posts' BY <2>1
    <3> QED BY <3>1, <3>2
  <2>4. \A x \in ids \cap (M!Item \cup Edge) : x \in Dels(posts') BY <2>3 DEF Dels
  <2>5. DOMAIN page.at \subseteq M!Item BY PageOf
  <2>6. /\ DOMAIN page'.at = DOMAIN page.at \ ids /\ page'.edges = page.edges \ ids
        /\ \A x \in DOMAIN page'.at : page'.at[x] = page.at[x]
    BY <2>1
  <2>7. posts \subseteq posts' /\ drag' = drag BY <2>1
  <2>8. \A x \in M!Item : x \in Moves(posts, drag) => x \in Moves(posts', drag')
    BY <2>7 DEF Moves
  <2> QED BY <2>4, <2>5, <2>6, <2>7, <2>8 DEF Follows
<1>3. ASSUME NEW ends \in M!Ends, M!onConnect(ends) PROVE Follows
  <2>1. /\ UNCHANGED drag /\ page' = [page EXCEPT !.edges = @ \cup {ends}]
        /\ ends[1] \in DOMAIN page.at /\ ends[2] \in DOMAIN page.at
    BY <1>3, ConnectIs
  <2>2. PICK p : p.op = "connect" /\ p.at = ends /\ posts' = posts \cup {p} BY <1>3, ConnectIs
  <2>3. ends \in Links(posts') BY <2>2, LinkIs
  <2>4. posts \subseteq posts' BY <2>2
  <2> DEFINE es == page.edges \cup {ends}
  <2>5. page' = [page EXCEPT !.edges = es] BY <2>1
  <2>6. /\ es \in SUBSET (Edge \cup M!Provisional) /\ es \subseteq page.edges \cup {ends}
        /\ \A x \in page.edges \cap Edge : x \in es \/ x \in Dels(posts')
    BY PageOf DEF M!Provisional
  <2> HIDE DEF es
  <2> QED BY <2>1, <2>3, <2>4, <2>5, <2>6, DrawingFollows
<1>4. ASSUME NEW e \in page.edges, NEW ends \in M!Ends, M!onReconnect(e, ends) PROVE Follows
  <2>0. Reconnected(e, ends) BY <1>4, ReconnectIs
  <2>1. /\ UNCHANGED drag /\ page' = [page EXCEPT !.edges = (@ \ {e}) \cup {ends}]
        /\ ends[1] \in DOMAIN page.at /\ ends[2] \in DOMAIN page.at
    BY <2>0 DEF Reconnected
  <2>2. PICK p, d : /\ p.op = "connect" /\ p.at = ends /\ d.op = "delete" /\ d.ids = {e}
                    /\ posts' = posts \cup {d, p}
    BY <2>0 DEF Reconnected
  <2>3. ends \in Links(posts') BY <2>2, LinkIs
  <2>4. \A x \in {e} \cap Edge : x \in Dels(posts') BY <2>2 DEF Dels
  <2>5. posts \subseteq posts' BY <2>2
  <2> DEFINE es == (page.edges \ {e}) \cup {ends}
  <2>6. page' = [page EXCEPT !.edges = es] BY <2>1
  <2>7. /\ es \in SUBSET (Edge \cup M!Provisional) /\ es \subseteq page.edges \cup {ends}
        /\ \A x \in page.edges \cap Edge : x \in es \/ x \in Dels(posts')
    BY <2>4, PageOf DEF M!Provisional
  <2> HIDE DEF es
  <2> QED BY <2>1, <2>3, <2>5, <2>6, <2>7, DrawingFollows
<1>5. ASSUME NEW f \in Frame, M!addFrame(f, M!placeNode) PROVE Follows
  BY <1>5, AddIs, PostingFollows
<1>6. ASSUME NEW e \in M!ToSet(undo) \cup toast, M!undoEntry(e) PROVE Follows
  <2>1. UNCHANGED <<page, drag>> /\ posts \subseteq posts' BY <1>6, UndoIs
  <2> QED BY <2>1, PostingFollows
<1> QED BY <1>1, <1>2, <1>3, <1>4, <1>5, <1>6

LEMMA AskedFresh ==
  ASSUME M!CanvasShape
  PROVE  LET s == Append(fetches, M!Fetch)
         IN  s # <<>> /\ \A m : LastIs(s, m)
BY AskedIs DEF LastIs

LEMMA ViewOfAnswer ==
  ASSUME CanvasConstants, M!ViewInv, NEW w \in waits, Answered(w)
  PROVE  M!ViewInv'
<1>1. M!CanvasShape /\ M!CanvasShape' BY ShapeOfAnswer DEF M!ViewInv
<1>2. UNCHANGED <<map, drag, posts, frame, up, amiss>> /\ page'.at = page.at BY DEF Answered
<1>3. CASE fetches' = Append(fetches, M!Fetch)
  <2>1. fetches' # <<>> /\ LastIs(fetches', map') BY <1>1, <1>3, AskedFresh
  <2> QED BY <1>1, <2>1, ViewFrom
<1>4. CASE fetches' = fetches
  <2>1. page'.edges \cap Edge = page.edges \cap Edge /\ page'.edges \subseteq page.edges
    BY DEF Answered, CanvasConstants
  <2>2. ASSUME Shows(map, page.at, page.edges, Moves(posts, drag), Dels(posts), Links(posts))
        PROVE  Shows(map, page.at, page'.edges, Moves(posts, drag), Dels(posts), Links(posts))
    <3>1. M!getMapView(map).edges \subseteq Edge BY DEF M!getMapView
    <3> QED BY <2>1, <2>2, <3>1 DEF Shows
  <2>3. (up' /\ ~frame') => LastIs(fetches', map') BY <1>2, <1>4, ViewHas
  <2>4. (up' /\ ~frame' /\ fetches' = <<>> /\ ~amiss') =>
          Shows(map', page'.at, page'.edges, Moves(posts', drag'), Dels(posts'), Links(posts'))
    BY <1>2, <1>4, <2>2, ViewHas
  <2> QED BY <1>1, <2>3, <2>4, ViewFrom
<1> QED BY <1>3, <1>4 DEF Answered

\* Every row shows where it is or, if it is being dragged, where the user has it.
LEMMA ArrivalShows ==
  ASSUME CanvasConstants, NEW m \in MapRows, NEW at, NEW es, NEW moves, NEW dels, NEW links,
         DOMAIN at = DOMAIN M!getMapView(m).at, es = M!getMapView(m).edges,
         \A x \in DOMAIN at : at[x] = M!getMapView(m).at[x] \/ x \in moves
  PROVE  Shows(m, at, es, moves, dels, links)
<1>1. M!getMapView(m).at = [x \in {y \in M!Item : M!Live(m, y)} |-> m.items[x].pos]
  BY DEF M!getMapView
<1>2. es \subseteq Edge BY DEF M!getMapView
<1>3. es \cap M!Provisional = {} BY <1>2 DEF CanvasConstants
<1> QED BY <1>1, <1>3 DEF Shows

LEMMA ViewOfArrival ==
  ASSUME CanvasConstants, M!ViewInv, NEW i \in DOMAIN fetches, M!fetchArrived(i)
  PROVE  M!ViewInv'
<1>1. M!CanvasShape BY DEF M!ViewInv
<1>2. /\ Quiet /\ UNCHANGED <<drag, frame, up>> /\ fetches # <<>> /\ amiss' = fetches[i].old
      /\ fetches' # <<>> => M!Last(fetches') = M!Last(fetches) \/ M!Last(fetches').old
      /\ fetches' = <<>> => fetches[i] = M!Last(fetches)
      /\ fetches[i].reply # NoMap /\ fetches[i].reply \in M!Views
      /\ page' = M!applySnapshot(fetches[i].reply)
  BY <1>1, ArrivalIs
<1>3. M!CanvasShape' BY <1>1, <1>2, QuietKeepsShape
<1>4. map' = map BY <1>2 DEF Quiet
<1>5. (up' /\ ~frame') => LastIs(fetches', map') BY <1>2, <1>4, ViewHas DEF LastIs
<1>6. ASSUME up', ~frame', fetches' = <<>>, ~amiss'
      PROVE  Shows(map', page'.at, page'.edges, Moves(posts', drag'), Dels(posts'), Links(posts'))
  <2> DEFINE v == fetches[i].reply at == page'.at moves == Moves(posts', drag')
  <2>1. LastIs(fetches, map) BY <1>2, <1>6, ViewHas
  <2>2. v = M!getMapView(map) BY <1>2, <1>6, <2>1 DEF LastIs
  <2>3. /\ page'.edges = v.edges /\ DOMAIN at = DOMAIN v.at
        /\ \A x \in DOMAIN v.at : at[x] = v.at[x] \/ x \in DOMAIN drag
    <3> HIDE DEF v
    <3>1. v \in M!Views /\ page' = M!applySnapshot(v) BY <1>2 DEF v
    <3> QED BY <1>1, <3>1, SnapshotIs
  <2>4. DOMAIN drag \subseteq M!Item BY <1>1, TypesAre, PlacesAre
  <2>5. \A x \in DOMAIN drag : x \in moves BY <1>2, <2>4 DEF Moves
  <2>6. map \in MapRows BY <1>1, TypesAre
  <2> HIDE DEF v, at, moves
  <2>7. Shows(map, at, page'.edges, moves, Dels(posts'), Links(posts'))
    BY <2>2, <2>3, <2>5, <2>6, ArrivalShows
  <2> QED BY <1>4, <2>7 DEF at, moves
<1> QED BY <1>3, <1>5, <1>6, ViewFrom

LEMMA ViewOfQuiet ==
  ASSUME CanvasConstants, M!ViewInv, Quiets
  PROVE  M!ViewInv'
<1>1. M!CanvasShape BY DEF M!ViewInv
<1>2. M!CanvasShape' /\ Quiet BY <1>1, QuietsAre, QuietKeepsShape
<1>3. map' = map /\ posts' = posts BY <1>2 DEF Quiet
<1>4. CASE \E I \in SUBSET M!Item : M!onNodeDragStart(I)
  <2>1. UNCHANGED <<page, frame, up, fetches, amiss>> /\ DOMAIN drag = {}
    BY <1>1, <1>4, DragStartIs
  <2>2. Moves(posts, drag) \subseteq Moves(posts', drag') BY <1>3, <2>1 DEF Moves
  <2>3. \A ds : Shows(map, page.at, page.edges, Moves(posts, drag), ds, Links(posts))
          => Shows(map, page.at, page.edges, Moves(posts', drag'), ds, Links(posts))
    BY <2>2 DEF Shows
  <2> QED BY <1>2, <1>3, <2>1, <2>3, ViewHas, ViewFrom
<1>5. CASE \E x \in M!Item, p \in Pos : M!onNodesChange(x, p)
  <2>1. PICK x \in M!Item :
          /\ UNCHANGED <<drag, frame, up, fetches, amiss>> /\ x \in DOMAIN drag
          /\ DOMAIN page'.at = DOMAIN page.at
          /\ \A y \in DOMAIN page.at : page'.at[y] = page.at[y] \/ y = x
          /\ page'.edges = page.edges
    BY <1>1, <1>5, NodesChangeIs
  <2>2. x \in Moves(posts, drag) BY <2>1 DEF Moves
  <2>3. ASSUME Shows(map, page.at, page.edges, Moves(posts, drag), Dels(posts), Links(posts))
        PROVE  Shows(map, page'.at, page'.edges, Moves(posts, drag), Dels(posts), Links(posts))
    BY <2>1, <2>2, <2>3 DEF Shows
  <2> QED BY <1>2, <1>3, <2>1, <2>3, ViewHas, ViewFrom
<1>6. CASE M!onMessage \/ M!onResync
  <2>1. fetches' # <<>> /\ LastIs(fetches', map') BY <1>1, <1>6, MessageIs DEF LastIs
  <2> QED BY <1>2, <2>1, ViewFrom
<1>7. CASE M!socketDown BY <1>1, <1>2, <1>7, DownIs, ViewFrom
<1>8. CASE \E i \in DOMAIN fetches : M!fetchServed(i)
  <2>1. /\ UNCHANGED <<page, drag, frame, up, amiss>> /\ fetches # <<>> /\ fetches' # <<>>
        /\ M!Last(fetches') = M!Last(fetches) \/ M!Last(fetches').reply = M!getMapView(map)
    BY <1>1, <1>8, ServedIs
  <2>2. (up' /\ ~frame') => LastIs(fetches', map') BY <1>3, <2>1, ViewHas DEF LastIs
  <2> QED BY <1>2, <2>1, <2>2, ViewFrom
<1>9. CASE \E i \in DOMAIN fetches : M!fetchArrived(i) BY <1>9, ViewOfArrival
<1>10. CASE \E i \in DOMAIN fetches : M!fetchFailed(i)
  <2>1. amiss' /\ LastIs(fetches', map') BY <1>1, <1>10, FailedIs DEF LastIs
  <2> QED BY <1>2, <2>1, ViewFrom
<1> QED BY <1>4, <1>5, <1>6, <1>7, <1>8, <1>9, <1>10 DEF Quiets

LEMMA ViewSteps ==
  ASSUME CanvasConstants, M!ViewInv, M!MNext
  PROVE  M!ViewInv'
<1>1. M!CanvasShape BY DEF M!ViewInv
<1>2. CASE Calls
  <2>1. PICK m : Keeps(map, m) /\ M!ccCall(m) BY <1>1, <1>2, CallIs, TypesAre
  <2> QED BY <2>1, ViewOfCall
<1>3. CASE Quiets BY <1>3, ViewOfQuiet
<1>4. CASE Gestures
  <2>1. Grows BY <1>1, <1>4, GesturesGrow DEF Gestures
  <2>2. Follows BY <1>1, <1>4, GesturesFollow DEF Gestures
  <2> QED BY <2>1, <2>2, ViewOfGesture
<1>5. CASE \E p \in posts : M!postHandled(p) \/ M!postFailed(p)
  BY <1>5, ViewOfPost, ViewOfFailure
<1>6. CASE \E w \in waits : M!answered(w) BY <1>1, <1>6, AnsweredIs, ViewOfAnswer
<1> QED BY <1>2, <1>3, <1>4, <1>5, <1>6, CanvasStepIs

LEMMA CanvasStands ==
  ASSUME UNCHANGED slots
  PROVE  /\ M!PromiseInv => M!PromiseInv'
         /\ M!ViewInv => M!ViewInv'
<1>1. UNCHANGED <<map, page, drag, undo, toast, posts, waits, frame, up, fetches, told, amiss, steps>>
  BY DEF slots
<1>2. ASSUME M!CanvasShape PROVE Quiet BY <1>1, <1>2, TypesAre DEF Quiet
<1>3. M!PromiseInv => M!PromiseInv' BY <1>2, PromiseOfQuiet DEF M!PromiseInv
<1>4. ASSUME M!ViewInv PROVE M!ViewInv'
  <2>1. M!CanvasShape' BY <1>2, <1>4, QuietKeepsShape DEF M!ViewInv
  <2> QED BY <1>1, <1>4, <2>1, ViewHas, ViewFrom
<1> QED BY <1>3, <1>4

\* For every set of cards, frames, edges and places, every number of gestures, of
\* calls of Claude Code and of faults: what the user was told is restored is there.
THEOREM PromisesAreKept ==
  ASSUME CanvasConstants
  PROVE  PageSpec => []RestoredIsThere
<1> DEFINE Inv == part = "canvas" => M!PromiseInv
<1>1. PageInit => Inv BY PromiseStarts DEF PageInit
<1>2. Inv /\ [PageNext]_<<part, slots>> => Inv'
  <2> SUFFICES ASSUME Inv, [PageNext]_<<part, slots>>, part' = "canvas" PROVE M!PromiseInv' OBVIOUS
  <2>1. CASE PageNext BY <2>1, PromiseSteps DEF PageNext
  <2>2. CASE UNCHANGED <<part, slots>> BY <2>2, CanvasStands
  <2> QED BY <2>1, <2>2
<1>3. Inv => RestoredIsThere
  BY DEF M!PromiseInv, RestoredIsThere, M!RestoredIsThere, M!There
<1> QED BY <1>1, <1>2, <1>3, PTL DEF PageSpec

\* For every set of cards, frames, edges and places, and whatever becomes of posts,
\* answers and the socket: once all is quiet, the canvas shows the map.
THEOREM CanvasShowsMap ==
  ASSUME CanvasConstants
  PROVE  PageSpec => []AtRestShowsMap
<1> DEFINE Inv == part = "canvas" => M!ViewInv
<1>1. PageInit => Inv BY ViewStarts DEF PageInit
<1>2. Inv /\ [PageNext]_<<part, slots>> => Inv'
  <2> SUFFICES ASSUME Inv, [PageNext]_<<part, slots>>, part' = "canvas" PROVE M!ViewInv' OBVIOUS
  <2>1. CASE PageNext BY <2>1, ViewSteps DEF PageNext
  <2>2. CASE UNCHANGED <<part, slots>> BY <2>2, CanvasStands
  <2> QED BY <2>1, <2>2
<1>3. Inv => AtRestShowsMap BY ViewShows DEF AtRestShowsMap
<1> QED BY <1>1, <1>2, <1>3, PTL DEF PageSpec
=============================================================================
