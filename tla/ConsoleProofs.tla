----------------------------- MODULE ConsoleProofs -----------------------------
(***************************************************************************)
(* What the pages of the admin console show, and what its payload drawer   *)
(* shows, for any orders, page size and payloads and however much the      *)
(* operator clicks.                                                        *)
(***************************************************************************)
EXTENDS Console, FiniteSetTheorems, SequenceTheorems, TLAPS

Queries == [page : {"parked", "orders", "order", "reconciliation"}, filter : {"all", "parked"},
            offset : Nat, order : Orders \cup {NoOrder}]

Requests == [query : Queries, by : {"effect", "refresh"}, counted : Nat \cup {Null}]

(* The type of a replay, but for the orders it has yet to reach.           *)
IsReplay(r) ==
    /\ r = [kind |-> r.kind, targets |-> r.targets, force |-> r.force, query |-> r.query,
            mounted |-> r.mounted]
    /\ r.query \in Queries

(* The ledger keeps a row of every order.                                  *)
LedgerInv ==
    /\ ledger \in Seq(LedgerRow)
    /\ \A o \in Orders : \E i \in DOMAIN ledger : ledger[i].order = o

LEMMA LedgerInit == Init => LedgerInv
  <1> SUFFICES ASSUME Init PROVE LedgerInv OBVIOUS
  <1> DEFINE n == Cardinality(Orders)
             order == SetToSeq(Orders)
  <1>1. n \in Nat /\ IsFiniteSet(Orders) BY ConsoleAssumption, FS_CardinalityType
  <1>2. order \in [1..n -> Orders] /\ IsInjective(order)
    <2>1. \E f \in [1..n -> Orders] : IsInjective(f)
      <3>1. ExistsBijection(1..n, Orders)
        <4>1. IsFiniteSet(1..n) /\ Cardinality(1..n) = n BY <1>1, FS_Interval
        <4>2. QED BY <1>1, <4>1, FS_SameCardinalityBij
      <3>2. PICK f \in Bijection(1..n, Orders) : TRUE BY <3>1 DEF ExistsBijection
      <3>3. QED BY <3>2 DEF Bijection, Injection, Surjection, IsInjective
    <2>2. QED BY <2>1 DEF SetToSeq
  <1>3. order \in Surjection(1..n, Orders)
    <2>1. order \in Injection(1..n, Orders) BY <1>2 DEF Injection, IsInjective
    <2>2. IsFiniteSet(1..n) /\ Cardinality(1..n) = n BY <1>1, FS_Interval
    <2>3. QED BY <1>1, <2>1, <2>2, FS_Injection
  <1> HIDE DEF order, n
  <1>4. PICK status \in [Orders -> {"imported", "parked"}] :
           ledger = [i \in 1..n |-> [order |-> order[i], status |-> status[order[i]]]]
    BY DEF Init, n, order
  <1>5. ledger \in [1..n -> LedgerRow]
    BY <1>2, <1>4 DEF LedgerRow
  <1>6. ledger \in Seq(LedgerRow) BY <1>1, <1>5
  <1>7. ASSUME NEW o \in Orders PROVE \E i \in DOMAIN ledger : ledger[i].order = o
    <2>1. PICK i \in 1..n : order[i] = o BY <1>3 DEF Surjection
    <2>2. QED BY <1>4, <2>1
  <1>8. QED BY <1>6, <1>7 DEF LedgerInv

LEMMA NewestKeepsLedger ==
    ASSUME LedgerInv, NEW row \in LedgerRow, ledger' = Newest(row)
    PROVE  LedgerInv'
  <1>1. ledger \in Seq(LedgerRow) /\ Len(ledger) \in Nat /\ DOMAIN ledger = 1..Len(ledger)
    BY LenProperties DEF LedgerInv
  <1> DEFINE i == CHOOSE i \in DOMAIN ledger : ledger[i].order = row.order
             before == SubSeq(ledger, 1, i - 1)
             after == SubSeq(ledger, i + 1, Len(ledger))
  <1>2. i \in DOMAIN ledger /\ ledger[i].order = row.order
    <2>1. row.order \in Orders BY DEF LedgerRow
    <2>2. QED BY <2>1 DEF LedgerInv
  <1> HIDE DEF i
  <1>3. /\ before \in Seq(LedgerRow) /\ Len(before) = i - 1
        /\ \A j \in 1..i-1 : before[j] = ledger[j]
    <2>1. i - 1 \in Int /\ \A j \in 1..i-1 : ledger[j] \in LedgerRow BY <1>1, <1>2
    <2>2. /\ before \in Seq(LedgerRow) /\ Len(before) = IF 1 <= i - 1 THEN (i - 1) - 1 + 1 ELSE 0
          /\ \A j \in 1..(i-1) - 1 + 1 : before[j] = ledger[1 + j - 1]
      BY <2>1, SubSeqProperties
    <2>3. QED BY <1>1, <1>2, <2>2
  <1>4. /\ after \in Seq(LedgerRow) /\ Len(after) = Len(ledger) - i
        /\ \A j \in 1..(Len(ledger) - i) : after[j] = ledger[i + j]
    <2>1. i + 1 \in Int /\ \A j \in i+1..Len(ledger) : ledger[j] \in LedgerRow BY <1>1, <1>2
    <2>2. /\ after \in Seq(LedgerRow)
          /\ Len(after) = IF i + 1 <= Len(ledger) THEN Len(ledger) - (i + 1) + 1 ELSE 0
          /\ \A j \in 1..Len(ledger) - (i + 1) + 1 : after[j] = ledger[(i + 1) + j - 1]
      BY <1>1, <2>1, SubSeqProperties
    <2>3. QED BY <1>1, <1>2, <2>2
  <1>5. ledger' = <<row>> \o (before \o after) BY DEF Newest, RemoveAt, i
  <1> HIDE DEF before, after
  <1>6. before \o after \in Seq(LedgerRow) /\ <<row>> \in Seq(LedgerRow) BY <1>3, <1>4
  <1>7. ledger' \in Seq(LedgerRow) BY <1>5, <1>6, ConcatProperties
  <1>8. /\ Len(before \o after) = Len(before) + Len(after)
        /\ \A j \in 1..Len(before) : (before \o after)[j] = before[j]
        /\ \A j \in 1..Len(after) : (before \o after)[Len(before) + j] = after[j]
    <2>1. /\ Len(before \o after) = Len(before) + Len(after)
          /\ \A k \in 1..Len(before) + Len(after) :
                (before \o after)[k] = IF k <= Len(before) THEN before[k] ELSE after[k - Len(before)]
      BY <1>3, <1>4, ConcatProperties
    <2>2. Len(before) \in Nat /\ Len(after) \in Nat BY <1>1, <1>2, <1>3, <1>4
    <2>3. ASSUME NEW j \in 1..Len(before) PROVE (before \o after)[j] = before[j] BY <2>1, <2>2
    <2>4. ASSUME NEW j \in 1..Len(after) PROVE (before \o after)[Len(before) + j] = after[j]
      <3>1. Len(before) + j \in 1..Len(before) + Len(after) /\ ~(Len(before) + j <= Len(before))
            /\ Len(before) + j - Len(before) = j
        BY <2>2
      <3>2. QED BY <2>1, <3>1
    <2>5. QED BY <2>1, <2>3, <2>4
  <1>9. /\ DOMAIN ledger' = 1..Len(ledger) /\ ledger'[1] = row
        /\ \A j \in 1..Len(before \o after) : ledger'[1 + j] = (before \o after)[j]
    <2>1. 1 + Len(before \o after) = Len(ledger)
      <3>1. 1 + ((i - 1) + (Len(ledger) - i)) = Len(ledger) BY <1>1, <1>2
      <3>2. Len(before \o after) = (i - 1) + (Len(ledger) - i) BY <1>3, <1>4, <1>8, Zenon
      <3>3. QED BY <3>1, <3>2, Zenon
    <2>2. /\ Len(<<row>> \o (before \o after)) = Len(<<row>>) + Len(before \o after)
          /\ \A k \in 1..Len(<<row>>) + Len(before \o after) :
                (<<row>> \o (before \o after))[k]
                   = IF k <= Len(<<row>>) THEN <<row>>[k] ELSE (before \o after)[k - Len(<<row>>)]
      BY <1>6, ConcatProperties
    <2>3. Len(<<row>>) = 1 /\ <<row>>[1] = row OBVIOUS
    <2>4. Len(before \o after) \in Nat BY <1>6, LenProperties
    <2>5. /\ Len(ledger') = 1 + Len(before \o after)
          /\ \A k \in 1..1 + Len(before \o after) :
                ledger'[k] = IF k <= 1 THEN <<row>>[k] ELSE (before \o after)[k - 1]
      BY <1>5, <2>2, <2>3
    <2>6. DOMAIN ledger' = 1..Len(ledger') BY <1>7, LenProperties
    <2>7. ledger'[1] = row BY <2>3, <2>4, <2>5
    <2>8. ASSUME NEW j \in 1..Len(before \o after) PROVE ledger'[1 + j] = (before \o after)[j]
      <3>1. 1 + j \in 1..1 + Len(before \o after) /\ ~(1 + j <= 1) /\ (1 + j) - 1 = j BY <2>4
      <3>2. QED BY <2>5, <3>1
    <2>9. QED BY <2>1, <2>5, <2>6, <2>7, <2>8
  <1>10. ASSUME NEW o \in Orders PROVE \E j \in DOMAIN ledger' : ledger'[j].order = o
    <2>1. PICK j \in DOMAIN ledger : ledger[j].order = o BY DEF LedgerInv
    <2>2. CASE j = i
      <3>1. 1 \in DOMAIN ledger' BY <1>1, <1>2, <1>9
      <3>2. QED BY <1>2, <1>9, <2>1, <2>2, <3>1
    <2>3. CASE j < i
      <3>1. j \in 1..i-1 /\ j \in 1..Len(before \o after) /\ j + 1 \in 1..Len(ledger)
        BY <1>1, <1>2, <1>3, <1>4, <1>8, <2>1, <2>3
      <3>2. ledger'[1 + j] = ledger[j] BY <1>3, <1>8, <1>9, <3>1
      <3>3. QED BY <1>9, <2>1, <3>1, <3>2
    <2>4. CASE j > i
      <3>1. j - i \in 1..Len(after) /\ j - 1 \in 1..Len(before \o after)
        BY <1>1, <1>2, <1>3, <1>4, <1>8, <2>1, <2>4
      <3>2. after[j - i] = ledger[j] BY <1>1, <1>2, <1>4, <2>1, <3>1
      <3>3. (before \o after)[j - 1] = after[j - i]
        <4>1. (i - 1) + (j - i) = j - 1 BY <1>1, <1>2, <2>1
        <4>2. (before \o after)[(i - 1) + (j - i)] = after[j - i] BY <1>3, <1>8, <3>1
        <4>3. QED BY <4>1, <4>2
      <3>4. ledger'[j] = (before \o after)[j - 1]
        <4>1. 1 + (j - 1) = j BY <1>1, <2>1
        <4>2. ledger'[1 + (j - 1)] = (before \o after)[j - 1] BY <1>9, <3>1
        <4>3. QED BY <4>1, <4>2
      <3>5. QED BY <1>1, <1>9, <2>1, <3>2, <3>3, <3>4
    <2>5. QED BY <1>1, <1>2, <2>1, <2>2, <2>3, <2>4
  <1>11. QED BY <1>7, <1>10 DEF LedgerInv

LEMMA InPlaceKeepsLedger ==
    ASSUME LedgerInv, NEW row \in LedgerRow, ledger' = InPlace(row)
    PROVE  LedgerInv'
  <1>1. ledger \in Seq(LedgerRow) /\ Len(ledger) \in Nat /\ DOMAIN ledger = 1..Len(ledger)
    BY LenProperties DEF LedgerInv
  <1>2. ledger' \in [1..Len(ledger) -> LedgerRow] BY <1>1 DEF InPlace
  <1>3. ledger' \in Seq(LedgerRow) BY <1>1, <1>2
  <1>4. ASSUME NEW o \in Orders PROVE \E j \in DOMAIN ledger' : ledger'[j].order = o
    <2>1. PICK j \in DOMAIN ledger : ledger[j].order = o BY DEF LedgerInv
    <2>2. ledger'[j].order = o BY <2>1 DEF InPlace
    <2>3. QED BY <1>1, <1>2, <2>1, <2>2
  <1>5. QED BY <1>3, <1>4 DEF LedgerInv

LEMMA LedgerStep == LedgerInv /\ [Next]_vars => LedgerInv'
  <1> SUFFICES ASSUME LedgerInv, [Next]_vars PROVE LedgerInv' OBVIOUS
  <1>1. ASSUME NEW o \in Orders, NEW status \in {"imported", "parked"}, Handle(o, status)
        PROVE  LedgerInv'
    <2> DEFINE row == [order |-> o, status |-> status]
    <2>1. row \in LedgerRow BY DEF LedgerRow
    <2>2. ledger' = Newest(row) \/ ledger' = InPlace(row) BY <1>1 DEF Handle
    <2> HIDE DEF row
    <2>3. QED BY <2>1, <2>2, NewestKeepsLedger, InPlaceKeepsLedger
  <1>2. ASSUME UNCHANGED ledger PROVE LedgerInv' BY <1>2 DEF LedgerInv
  <1>3. CASE Operator
    <2>1. UNCHANGED ledger
      BY <1>3 DEF Operator, Open, OtherOrder, Filter, Turn, toggleRow, toggleAll, handleBulkReplay,
                  handleReplay, openPayload, closePayload, backend
    <2>2. QED BY <1>2, <2>1
  <1>4. CASE SweepDone \/ \E q \in timers : Refresh(q)
    <2>1. UNCHANGED ledger BY <1>4 DEF SweepDone, Refresh, backend
    <2>2. QED BY <1>2, <2>1
  <1>5. CASE Loader \/ Drawer
    <2>1. UNCHANGED ledger
      BY <1>5 DEF Loader, Count, Answer, RequestFails, Drawer, FetchHead, FetchBody, FetchFails, Settle,
                  backend
    <2>2. QED BY <1>2, <2>1
  <1>6. CASE Replayer
    <2>1. UNCHANGED ledger
      BY <1>6 DEF Replayer, ReplayAnswered, ReplayFails, BulkDone, Serve, backend
    <2>2. QED BY <1>2, <2>1
  <1>7. CASE UNCHANGED vars BY <1>2, <1>7 DEF vars, backend
  <1>8. QED BY <1>1, <1>3, <1>4, <1>5, <1>6, <1>7 DEF Next

LEMMA LedgerInvHolds == Spec => []LedgerInv
  <1>1. QED BY LedgerInit, LedgerStep, PTL DEF Spec

-----------------------------------------------------------------------------
(***************************************************************************)
(* The drawer.  Its one request is for the payload it is open on, which is *)
(* one that had a button.                                                  *)
(***************************************************************************)
DrawerInv ==
    /\ left \in [{"clicks", "replays", "handlings", "failures"} -> Nat]
    /\ left.failures <= RequestFailures
    /\ drawer \in [uri : Uris \cup {NoUri},
                   step : {"idle", "loading", "too_large", "error", "ready"},
                   body : Uris \cup {NoUri}]
    /\ \A f \in fetches :
          /\ f \in [uri : Uris, step : {"head", "get"}]
          /\ f.uri = drawer.uri /\ f.uri.origin = "blobs"
    /\ DrawerIsRight

LEMMA DrawerInit == Init => DrawerInv
  <1> SUFFICES ASSUME Init PROVE DrawerInv OBVIOUS
  <1>1. /\ left \in [{"clicks", "replays", "handlings", "failures"} -> Nat]
        /\ left.failures = RequestFailures
    BY ConsoleAssumption DEF Init
  <1>2. RequestFailures \in Nat BY ConsoleAssumption
  <1>3. drawer = Closed /\ fetches = {} BY DEF Init
  <1>4. QED BY <1>1, <1>2, <1>3 DEF DrawerInv, DrawerIsRight, Closed

(* A click or a failure is spent.                                          *)
LEMMA Spending ==
    ASSUME DrawerInv, NEW what \in {"clicks", "replays", "handlings", "failures"}, Spend(what)
    PROVE  /\ left' \in [{"clicks", "replays", "handlings", "failures"} -> Nat]
           /\ left'.failures <= left.failures /\ left'.failures <= RequestFailures
           /\ what = "failures" => left'.failures < RequestFailures
  <1>1. RequestFailures \in Nat BY ConsoleAssumption
  <1>2. QED BY <1>1 DEF DrawerInv, Spend

(* The drawer is left alone, or closed, whatever is spent.                 *)
LEMMA DrawerKept ==
    ASSUME DrawerInv,
           left' \in [{"clicks", "replays", "handlings", "failures"} -> Nat],
           left'.failures <= left.failures,
           UNCHANGED payload \/ (drawer' = Closed /\ fetches' = {})
    PROVE  DrawerInv'
  <1>1. RequestFailures \in Nat BY ConsoleAssumption
  <1>2. left'.failures <= RequestFailures /\ (left.failures < RequestFailures => left'.failures < RequestFailures)
    BY <1>1 DEF DrawerInv
  <1>3. CASE UNCHANGED payload BY <1>2, <1>3 DEF DrawerInv, DrawerIsRight, payload
  <1>4. CASE drawer' = Closed /\ fetches' = {} BY <1>2, <1>4 DEF DrawerInv, DrawerIsRight, Closed
  <1>5. QED BY <1>3, <1>4

LEMMA DrawerFetches == ASSUME DrawerInv, Drawer PROVE DrawerInv'
  <1>1. PICK f \in fetches : FetchHead(f) \/ FetchBody(f) \/ FetchFails(f) BY DEF Drawer
  <1>2. f \in [uri : Uris, step : {"head", "get"}] /\ f.uri = drawer.uri /\ f.uri.origin = "blobs"
    BY DEF DrawerInv
  <1>3. Servable(f.uri, Uris) BY <1>2 DEF Servable
  <1>4. ASSUME NEW step \in {"too_large", "error", "ready"}, NEW body \in Uris \cup {NoUri},
               Settle(f, step, body), step = "ready" => body = drawer.uri,
               left' \in [{"clicks", "replays", "handlings", "failures"} -> Nat],
               left'.failures <= RequestFailures, step = "error" => left'.failures < RequestFailures
        PROVE  DrawerInv'
    <2>1. /\ fetches' \subseteq fetches
          /\ drawer' = [drawer EXCEPT !.step = step, !.body = body]
      BY <1>4 DEF Settle
    <2>2. /\ drawer' \in [uri : Uris \cup {NoUri},
                          step : {"idle", "loading", "too_large", "error", "ready"},
                          body : Uris \cup {NoUri}]
          /\ drawer'.uri = drawer.uri /\ drawer'.step = step /\ drawer'.body = body
      BY <2>1 DEF DrawerInv
    <2>3. QED BY <1>4, <2>1, <2>2 DEF DrawerInv, DrawerIsRight
  <1>5. left.failures <= RequestFailures /\ left \in [{"clicks", "replays", "handlings", "failures"} -> Nat]
    BY DEF DrawerInv
  <1>6. CASE FetchHead(f)
    <2>1. CASE Settle(f, "too_large", NoUri) /\ UNCHANGED left BY <1>4, <1>5, <2>1
    <2>2. CASE fetches' = (fetches \ {f}) \cup {[f EXCEPT !.step = "get"]} /\ UNCHANGED <<drawer, left>>
      <3> DEFINE g == [f EXCEPT !.step = "get"]
      <3>1. g \in [uri : Uris, step : {"head", "get"}] /\ g.uri = f.uri BY <1>2
      <3> HIDE DEF g
      <3>2. \A h \in fetches' : /\ h \in [uri : Uris, step : {"head", "get"}]
                                /\ h.uri = drawer'.uri /\ h.uri.origin = "blobs"
        BY <1>2, <2>2, <3>1 DEF DrawerInv, g
      <3>3. QED BY <2>2, <3>2 DEF DrawerInv, DrawerIsRight
    <2>3. QED BY <1>3, <1>6, <2>1, <2>2 DEF FetchHead
  <1>7. CASE FetchBody(f)
    <2>1. Settle(f, "ready", f.uri) /\ UNCHANGED left BY <1>7 DEF FetchBody
    <2>2. QED BY <1>2, <1>4, <1>5, <2>1
  <1>8. CASE FetchFails(f)
    <2>1. Spend("failures") /\ Settle(f, "error", NoUri) BY <1>8 DEF FetchFails
    <2>2. QED BY <1>4, <2>1, Spending
  <1>9. QED BY <1>1, <1>6, <1>7, <1>8

LEMMA DrawerStep == DrawerInv /\ [Next]_vars => DrawerInv'
  <1> SUFFICES ASSUME DrawerInv, [Next]_vars PROVE DrawerInv' OBVIOUS
  <1> DEFINE Kept == UNCHANGED payload \/ (drawer' = Closed /\ fetches' = {})
             Spent == \/ UNCHANGED left
                      \/ \E what \in {"clicks", "replays", "handlings", "failures"} : Spend(what)
  <1>1. left \in [{"clicks", "replays", "handlings", "failures"} -> Nat] BY DEF DrawerInv
  <1>2. ASSUME Kept, Spent PROVE DrawerInv'
    <2>1. CASE UNCHANGED left
      <3>1. left'.failures <= left.failures BY <1>1, <2>1
      <3>2. QED BY <1>1, <1>2, <2>1, <3>1, DrawerKept
    <2>2. CASE \E what \in {"clicks", "replays", "handlings", "failures"} : Spend(what)
      BY <1>2, <2>2, Spending, DrawerKept
    <2>3. QED BY <1>2, <2>1, <2>2
  <1>3. CASE Operator
    <2>1. CASE \E q : Open(q) BY <1>2, <2>1 DEF Open, Mount
    <2>2. CASE \E o \in Orders : OtherOrder(o) \/ toggleRow(o)
      BY <1>2, <2>2 DEF OtherOrder, toggleRow
    <2>3. CASE \E f \in {"all", "parked"} : Filter(f) BY <1>2, <2>3 DEF Filter
    <2>4. CASE \E offset \in 0..Cardinality(Orders) : Turn(offset) BY <1>2, <2>4 DEF Turn
    <2>5. CASE toggleAll BY <1>2, <2>5 DEF toggleAll
    <2>6. CASE handleBulkReplay BY <1>2, <2>6 DEF handleBulkReplay
    <2>7. CASE \E o \in Orders, force \in BOOLEAN : handleReplay(o, force)
      BY <1>2, <2>7 DEF handleReplay
    <2>8. CASE \E uri \in Uris : openPayload(uri)
      <3>1. PICK uri \in Uris : openPayload(uri) BY <2>8
      <3>2. /\ uri.origin = "blobs" /\ Spend("clicks")
            /\ drawer' = [uri |-> uri, step |-> "loading", body |-> NoUri]
            /\ fetches' = {[uri |-> uri, step |-> "head"]}
        BY <3>1 DEF openPayload, Offered
      <3>3. QED BY <3>2, Spending DEF DrawerInv, DrawerIsRight
    <2>9. CASE closePayload BY <1>2, <2>9 DEF closePayload
    <2>10. QED BY <1>3, <2>1, <2>2, <2>3, <2>4, <2>5, <2>6, <2>7, <2>8, <2>9 DEF Operator
  <1>4. CASE SweepDone BY <1>2, <1>4 DEF SweepDone
  <1>5. CASE \E q \in timers : Refresh(q) BY <1>2, <1>5 DEF Refresh
  <1>6. CASE Loader BY <1>2, <1>6 DEF Loader, Count, Answer, RequestFails
  <1>7. CASE Replayer BY <1>2, <1>7 DEF Replayer, ReplayAnswered, ReplayFails, BulkDone
  <1>8. CASE Drawer BY <1>8, DrawerFetches
  <1>9. CASE \E o \in Orders, status \in {"imported", "parked"} : Handle(o, status)
    BY <1>2, <1>9 DEF Handle
  <1>10. CASE UNCHANGED vars BY <1>2, <1>10 DEF vars
  <1>11. QED BY <1>3, <1>4, <1>5, <1>6, <1>7, <1>8, <1>9, <1>10 DEF Next

(***************************************************************************)
(* The drawer shows the payload whose button was clicked last, and no      *)
(* button leads to a payload that the proxy refuses (PayloadDrawer,        *)
(* PayloadButtons, handleAdminPayload).                                    *)
(***************************************************************************)
THEOREM ButtonsLeadToPayloads == Spec => []DrawerIsRight
  <1>1. DrawerInv => DrawerIsRight BY DEF DrawerInv
  <1>2. QED BY <1>1, DrawerInit, DrawerStep, PTL DEF Spec

-----------------------------------------------------------------------------
(***************************************************************************)
(* The pages.  What the effect has in flight is for what the page is to    *)
(* show; only a refresh may be for something else.                         *)
(***************************************************************************)
PagesInv ==
    /\ query \in Queries /\ requests \subseteq Requests /\ timers \subseteq Queries
    /\ \A r \in replays : IsReplay(r)
    /\ \A r \in requests : r.by = "effect" => r.query = query
    /\ OnlyRefreshesAreStale
    /\ NoOrderIsHidden

(* What the database counts.                                               *)
LEMMA Counting ==
    ASSUME LedgerInv, NEW filter
    PROVE  CountOrders(ledger, filter) \in Nat
  <1> DEFINE counted == {i \in DOMAIN ledger : filter \in {"all", ledger[i].status}}
  <1>1. DOMAIN ledger = 1..Len(ledger) /\ Len(ledger) \in Nat BY LenProperties DEF LedgerInv
  <1>2. IsFiniteSet(DOMAIN ledger) BY <1>1, FS_Interval
  <1>3. IsFiniteSet(counted) BY <1>2, FS_Subset
  <1>4. QED BY <1>3, FS_CardinalityType DEF CountOrders

(* The rows of a page: as many as fit, and as there are after the offset.  *)
LEMMA PageLength ==
    ASSUME LedgerInv, NEW filter, NEW offset \in Nat
    PROVE  LET count == CountOrders(ledger, filter)
               found == Len(PageOfOrders(ledger, filter, offset, PageSize))
           IN  found = IF offset + PageSize <= count THEN PageSize
                       ELSE IF offset <= count THEN count - offset ELSE 0
  <1> DEFINE count == CountOrders(ledger, filter)
             rows == Matching(ledger, filter)
             last == IF offset + PageSize < count THEN offset + PageSize ELSE count
             S == {rows[i] : i \in offset + 1..last}
  <1>1. count \in Nat /\ PageSize \in Nat \ {0} BY Counting, ConsoleAssumption
  <1>2. PageOfOrders(ledger, filter, offset, PageSize) = SubSeq(rows, offset + 1, last)
    BY DEF PageOfOrders
  <1> HIDE DEF count, rows
  <1>3. last \in Int /\ offset + 1 \in Int /\ \A i \in offset + 1..last : rows[i] \in S BY <1>1
  <1> HIDE DEF S, last
  <1>4. Len(SubSeq(rows, offset + 1, last)) = IF offset + 1 <= last THEN last - (offset + 1) + 1 ELSE 0
    BY <1>3, SubSeqProperties
  <1>5. QED BY <1>1, <1>2, <1>4 DEF count, last

(* What an answer says of the rows there are to see.                       *)
LEMMA AnswersAreWhole ==
    ASSUME LedgerInv, NEW r \in Requests,
           r.query.page \in {"orders", "parked"} => r.counted # Null
    PROVE  LET a == Received(r)
           IN  /\ a.query = r.query /\ a.by = r.by
               /\ a.query.page \in {"orders", "parked"} /\ a.total = a.held
                  => (a.next # Null <=> a.query.offset + PageSize < a.held)
  <1> DEFINE q == r.query
             count == CountOrders(ledger, q.filter)
             found == Len(PageOfOrders(ledger, q.filter, q.offset, PageSize))
             a == Received(r)
  <1>1. a.query = q /\ a.by = r.by /\ a.held = count /\ a.total = r.counted BY DEF Received
  <1>2. ASSUME q.page \in {"orders", "parked"}, r.counted = count
        PROVE  a.next # Null <=> q.offset + PageSize < count
    <2>1. q \in Queries /\ q.offset \in Nat BY DEF Requests, Queries
    <2>2. count \in Nat /\ PageSize \in Nat \ {0} BY Counting, ConsoleAssumption
    <2>3. found = IF q.offset + PageSize <= count THEN PageSize
                  ELSE IF q.offset <= count THEN count - q.offset ELSE 0
      BY <2>1, PageLength
    <2>4. a.next = NextOffset(q.offset, found, count, PageSize)
      BY <1>2 DEF Received
    <2> HIDE DEF found, count, q, a
    <2>5. QED BY <2>1, <2>2, <2>3, <2>4 DEF NextOffset, Null
  <1>3. QED BY <1>1, <1>2

LEMMA PagesInit == Init => PagesInv
  <1> SUFFICES ASSUME Init PROVE PagesInv OBVIOUS
  <1>1. ParkedQueue(0) \in Queries /\ Sent(ParkedQueue(0), "effect") \in Requests
    BY DEF Queries, ParkedQueue, Requests, Sent
  <1>2. OnlyRefreshesAreStale BY DEF Init, OnlyRefreshesAreStale
  <1>3. NoOrderIsHidden
    <2>1. PageSize \in Nat \ {0} BY ConsoleAssumption
    <2>2. shown = Unanswered BY DEF Init
    <2>3. QED BY <2>1, <2>2 DEF NoOrderIsHidden, Unanswered, ParkedQueue, Null
  <1>4. QED BY <1>1, <1>2, <1>3 DEF Init, PagesInv, Sent

(* Another query is shown, or another page: it is loading then.            *)
LEMMA ShowIsRight ==
    ASSUME PagesInv, NEW q \in Queries, Show(q), UNCHANGED replays
    PROVE  PagesInv'
  <1>1. Sent(q, "effect") \in Requests /\ Sent(q, "effect").query = q BY DEF Requests, Sent
  <1>2. /\ query' = q /\ requests' = Cleanup(requests) \cup {Sent(q, "effect")}
        /\ loading' = TRUE /\ UNCHANGED <<shown, failed, timers>>
    BY DEF Show
  <1>3. \A r \in Cleanup(requests) : r \in Requests /\ r.by # "effect" BY DEF Cleanup, PagesInv
  <1>4. OnlyRefreshesAreStale' BY <1>2 DEF OnlyRefreshesAreStale
  <1>5. NoOrderIsHidden' BY <1>2 DEF PagesInv, NoOrderIsHidden
  <1>6. QED BY <1>1, <1>2, <1>3, <1>4, <1>5 DEF PagesInv

LEMMA MountIsRight ==
    ASSUME PagesInv, NEW q \in Queries, Mount(q)
    PROVE  PagesInv'
  <1>1. Sent(q, "effect") \in Requests /\ Sent(q, "effect").query = q BY DEF Requests, Sent
  <1>2. /\ query' = q /\ requests' = {Sent(q, "effect")} /\ loading' = TRUE /\ timers' = {}
        /\ shown' = Unanswered /\ replays' = {[r EXCEPT !.mounted = FALSE] : r \in replays}
    BY DEF Mount
  <1>3. \A r \in replays' : IsReplay(r)
    <2> SUFFICES ASSUME NEW r \in replays' PROVE IsReplay(r) OBVIOUS
    <2>1. PICK s \in replays : r = [s EXCEPT !.mounted = FALSE] BY <1>2
    <2>2. IsReplay(s) BY DEF PagesInv
    <2>3. r = [kind |-> s.kind, targets |-> s.targets, force |-> s.force, query |-> s.query,
               mounted |-> FALSE]
      BY <2>1, <2>2 DEF IsReplay
    <2>4. QED BY <2>2, <2>3 DEF IsReplay
  <1>4. OnlyRefreshesAreStale' BY <1>2 DEF OnlyRefreshesAreStale
  <1>5. NoOrderIsHidden'
    <2>1. PageSize \in Nat \ {0} BY ConsoleAssumption
    <2>2. QED BY <1>2, <2>1 DEF NoOrderIsHidden, Unanswered, ParkedQueue, Null
  <1>6. QED BY <1>1, <1>2, <1>3, <1>4, <1>5 DEF PagesInv

LEMMA LoaderIsRight == ASSUME LedgerInv, PagesInv, Loader PROVE PagesInv'
  <1>1. PICK r \in requests : Count(r) \/ Answer(r) \/ RequestFails(r) BY DEF Loader
  <1>2. r \in Requests BY DEF PagesInv
  <1>3. CASE Count(r)
    <2> DEFINE s == [r EXCEPT !.counted = CountOrders(ledger, r.query.filter)]
    <2>1. s \in Requests /\ s.by = r.by /\ s.query = r.query
      <3>1. CountOrders(ledger, r.query.filter) \in Nat BY Counting
      <3>2. QED BY <1>2, <3>1 DEF Requests
    <2>2. /\ requests' = (requests \ {r}) \cup {s}
          /\ UNCHANGED <<query, shown, loading, failed, timers, replays>>
      BY <1>3 DEF Count, buttons
    <2> HIDE DEF s
    <2>3. OnlyRefreshesAreStale' /\ NoOrderIsHidden'
      BY <2>2 DEF PagesInv, OnlyRefreshesAreStale, NoOrderIsHidden
    <2>4. QED BY <1>1, <2>1, <2>2, <2>3 DEF PagesInv
  <1>4. CASE Answer(r)
    <2>1. /\ requests' = requests \ {r} /\ shown' = Received(r)
          /\ UNCHANGED <<query, timers, replays>>
          /\ r.query.page \in {"orders", "parked"} => r.counted # Null
      BY <1>4 DEF Answer, buttons
    <2>2. shown'.query = r.query /\ shown'.by = r.by /\ NoOrderIsHidden'
      BY <1>2, <2>1, AnswersAreWhole DEF NoOrderIsHidden
    <2>3. r.by = "refresh" \/ r.query = query BY <1>2 DEF PagesInv, Requests
    <2>4. OnlyRefreshesAreStale' BY <2>1, <2>2, <2>3 DEF OnlyRefreshesAreStale
    <2>5. QED BY <2>1, <2>2, <2>4 DEF PagesInv
  <1>5. CASE RequestFails(r)
    <2>1. /\ requests' = requests \ {r} /\ failed' = TRUE
          /\ UNCHANGED <<query, shown, timers, replays>>
      BY <1>5 DEF RequestFails, buttons
    <2>2. OnlyRefreshesAreStale' /\ NoOrderIsHidden'
      BY <2>1 DEF PagesInv, OnlyRefreshesAreStale, NoOrderIsHidden
    <2>3. QED BY <2>1, <2>2 DEF PagesInv
  <1>6. QED BY <1>1, <1>3, <1>4, <1>5

(* A refresh that becomes due is for what the page was to show.            *)
LEMMA ReplaysAreRight ==
    ASSUME PagesInv,
           \A r \in replays' : IsReplay(r), timers' \subseteq Queries,
           UNCHANGED <<query, requests, shown, loading, failed>>
    PROVE  PagesInv'
  <1>1. OnlyRefreshesAreStale' /\ NoOrderIsHidden'
    BY DEF PagesInv, OnlyRefreshesAreStale, NoOrderIsHidden
  <1>2. QED BY <1>1 DEF PagesInv

LEMMA ReplayerIsRight == ASSUME PagesInv, Replayer PROVE PagesInv'
  <1>1. PICK r \in replays : ReplayAnswered(r) \/ ReplayFails(r) \/ BulkDone(r) BY DEF Replayer
  <1>2. IsReplay(r) /\ \A s \in replays : IsReplay(s) BY DEF PagesInv
  <1>3. timers \subseteq Queries BY DEF PagesInv
  <1>4. UNCHANGED <<query, requests, shown, loading, failed>>
    BY <1>1 DEF ReplayAnswered, ReplayFails, BulkDone
  <1>5. (\A s \in replays' : IsReplay(s)) /\ timers' \subseteq Queries
    <2>1. CASE GoOn(r)
      <3>1. IsReplay(NextTarget(r))
        <4>1. NextTarget(r) = [kind |-> r.kind, targets |-> Tail(r.targets), force |-> r.force,
                               query |-> r.query, mounted |-> r.mounted]
          <5>1. \A rest : [r EXCEPT !.targets = rest]
                          = [kind |-> r.kind, targets |-> rest, force |-> r.force, query |-> r.query,
                             mounted |-> r.mounted]
            BY <1>2 DEF IsReplay
          <5>2. NextTarget(r) = [r EXCEPT !.targets = Tail(r.targets)] BY Zenon DEF NextTarget
          <5>3. QED BY <5>1, <5>2
        <4>2. QED BY <1>2, <4>1 DEF IsReplay
      <3>2. QED BY <1>2, <1>3, <2>1, <3>1 DEF GoOn
    <2>2. CASE \E replayed : SingleDone(r, replayed)
      BY <1>2, <1>3, <2>2 DEF SingleDone, IsReplay
    <2>3. CASE BulkDone(r) BY <1>2, <1>3, <2>3 DEF BulkDone, IsReplay
    <2>4. QED BY <1>1, <2>1, <2>2, <2>3 DEF ReplayAnswered, ReplayFails
  <1>6. QED BY <1>4, <1>5, ReplaysAreRight

LEMMA OperatorIsRight == ASSUME PagesInv, Operator PROVE PagesInv'
  <1>1. query \in Queries BY DEF PagesInv
  <1>2. ASSUME UNCHANGED <<query, requests, shown, loading, failed, timers, replays>>
        PROVE  PagesInv'
    BY <1>2, ReplaysAreRight DEF PagesInv
  <1>3. CASE \E q \in {ParkedQueue(0), OrdersPage("all", 0), Snapshots("all", 0)}
                      \cup {OrderPage(o) : o \in Orders} : Open(q)
    <2>1. PICK q \in {ParkedQueue(0), OrdersPage("all", 0), Snapshots("all", 0)}
                     \cup {OrderPage(o) : o \in Orders} : Open(q)
      BY <1>3
    <2>2. q \in Queries BY DEF Queries, ParkedQueue, OrdersPage, Snapshots, OrderPage
    <2>3. Mount(q) BY <2>1 DEF Open
    <2>4. QED BY <2>2, <2>3, MountIsRight
  <1>4. CASE \E o \in Orders : OtherOrder(o) \/ toggleRow(o)
    <2>1. PICK o \in Orders : OtherOrder(o) \/ toggleRow(o) BY <1>4
    <2>2. CASE OtherOrder(o)
      <3>1. OrderPage(o) \in Queries BY DEF Queries, OrderPage
      <3>2. Show(OrderPage(o)) /\ UNCHANGED replays BY <2>2 DEF OtherOrder, buttons
      <3>3. QED BY <3>1, <3>2, ShowIsRight
    <2>3. CASE toggleRow(o) BY <1>2, <2>3 DEF toggleRow, page
    <2>4. QED BY <2>1, <2>2, <2>3
  <1>5. CASE \E f \in {"all", "parked"} : Filter(f)
    <2>1. PICK f \in {"all", "parked"} : Filter(f) BY <1>5
    <2> DEFINE q == [query EXCEPT !.filter = f, !.offset = IF query.page = "orders" THEN 0 ELSE @]
    <2>2. q \in Queries BY <1>1 DEF Queries
    <2>3. Show(q) /\ UNCHANGED replays BY <2>1 DEF Filter, buttons
    <2> HIDE DEF q
    <2>4. QED BY <2>2, <2>3, ShowIsRight
  <1>6. CASE \E offset \in 0..Cardinality(Orders) : Turn(offset)
    <2>1. PICK offset \in 0..Cardinality(Orders) : Turn(offset) BY <1>6
    <2> DEFINE q == [query EXCEPT !.offset = offset]
    <2>2. Cardinality(Orders) \in Nat BY ConsoleAssumption, FS_CardinalityType
    <2>3. q \in Queries BY <1>1, <2>2 DEF Queries
    <2>4. Show(q) /\ UNCHANGED replays BY <2>1 DEF Turn, buttons
    <2> HIDE DEF q
    <2>5. QED BY <2>3, <2>4, ShowIsRight
  <1>7. CASE toggleAll BY <1>2, <1>7 DEF toggleAll, page
  <1>8. CASE handleBulkReplay
    <2>1. PICK targets : replays' = replays \cup {Replay("bulk", targets, FALSE)}
      BY <1>8 DEF handleBulkReplay
    <2>2. IsReplay(Replay("bulk", targets, FALSE)) BY <1>1 DEF Replay, IsReplay
    <2>3. UNCHANGED <<query, requests, shown, loading, failed, timers>>
      BY <1>8 DEF handleBulkReplay, page
    <2>4. QED BY <2>1, <2>2, <2>3, ReplaysAreRight DEF PagesInv
  <1>9. CASE \E o \in Orders, force \in BOOLEAN : handleReplay(o, force)
    <2>1. PICK o \in Orders, force \in BOOLEAN : handleReplay(o, force) BY <1>9
    <2>2. IsReplay(Replay("single", <<o>>, force)) BY <1>1 DEF Replay, IsReplay
    <2>3. /\ replays' = replays \cup {Replay("single", <<o>>, force)}
          /\ UNCHANGED <<query, requests, shown, loading, failed, timers>>
      BY <2>1 DEF handleReplay, page
    <2>4. QED BY <2>2, <2>3, ReplaysAreRight DEF PagesInv
  <1>10. CASE \E uri \in Uris : openPayload(uri) BY <1>2, <1>10 DEF openPayload, page, buttons
  <1>11. CASE closePayload BY <1>2, <1>11 DEF closePayload, page, buttons
  <1>12. QED BY <1>3, <1>4, <1>5, <1>6, <1>7, <1>8, <1>9, <1>10, <1>11 DEF Operator

LEMMA PagesStep == LedgerInv /\ PagesInv /\ [Next]_vars => PagesInv'
  <1> SUFFICES ASSUME LedgerInv, PagesInv, [Next]_vars PROVE PagesInv' OBVIOUS
  <1>1. ASSUME UNCHANGED <<query, requests, shown, loading, failed, timers, replays>>
        PROVE  PagesInv'
    BY <1>1, ReplaysAreRight DEF PagesInv
  <1>2. CASE Operator BY <1>2, OperatorIsRight
  <1>3. CASE SweepDone
    <2> DEFINE q == [query EXCEPT !.offset = @ + 1]
    <2>1. q \in Queries BY DEF PagesInv, Queries
    <2>2. Show(q) /\ UNCHANGED replays BY <1>3 DEF SweepDone, buttons
    <2> HIDE DEF q
    <2>3. QED BY <2>1, <2>2, ShowIsRight
  <1>4. CASE \E q \in timers : Refresh(q)
    <2>1. PICK q \in timers : Refresh(q) BY <1>4
    <2>2. Sent(q, "refresh") \in Requests /\ Sent(q, "refresh").by = "refresh"
      BY DEF PagesInv, Requests, Sent
    <2>3. /\ timers' = timers \ {q} /\ requests' = requests \cup {Sent(q, "refresh")}
          /\ loading' = TRUE /\ UNCHANGED <<query, shown, failed, replays>>
      BY <2>1 DEF Refresh, buttons
    <2>4. OnlyRefreshesAreStale' /\ NoOrderIsHidden'
      BY <2>3 DEF PagesInv, OnlyRefreshesAreStale, NoOrderIsHidden
    <2>5. QED BY <2>2, <2>3, <2>4 DEF PagesInv
  <1>5. CASE Loader BY <1>5, LoaderIsRight
  <1>6. CASE Replayer BY <1>6, ReplayerIsRight
  <1>7. CASE Drawer
    <2>1. UNCHANGED <<page, buttons>>
      BY <1>7 DEF Drawer, FetchHead, FetchBody, FetchFails, Settle
    <2>2. QED BY <1>1, <2>1 DEF page, buttons
  <1>8. CASE \E o \in Orders, status \in {"imported", "parked"} : Handle(o, status)
    BY <1>1, <1>8 DEF Handle, page, buttons
  <1>9. CASE UNCHANGED vars BY <1>1, <1>9 DEF vars, page, buttons
  <1>10. QED BY <1>2, <1>3, <1>4, <1>5, <1>6, <1>7, <1>8, <1>9 DEF Next

LEMMA PagesInvHolds == Spec => []PagesInv
  <1>1. QED BY PagesInit, PagesStep, LedgerInvHolds, PTL DEF Spec

(***************************************************************************)
(* In whatever order the answers come, a page that is not loading shows    *)
(* the answer to its own query, an error, or what a refresh has brought    *)
(* (the cancelled flag of every loading effect; load after a replay).      *)
(***************************************************************************)
THEOREM CleanupHidesStaleAnswers == Spec => []OnlyRefreshesAreStale
  <1>1. PagesInv => OnlyRefreshesAreStale BY DEF PagesInv
  <1>2. QED BY <1>1, PagesInvHolds, PTL

(***************************************************************************)
(* Whatever the page size and the ledger, Next is offered exactly while    *)
(* there are rows after the page (nextOffset of handleAdminOrders).        *)
(***************************************************************************)
THEOREM EveryRowIsReachable == Spec => []NoOrderIsHidden
  <1>1. PagesInv => NoOrderIsHidden BY DEF PagesInv
  <1>2. QED BY <1>1, PagesInvHolds, PTL

=============================================================================
