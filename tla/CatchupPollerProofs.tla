------------------------- MODULE CatchupPollerProofs -------------------------
(***************************************************************************)
(* The cursor of pollCatchup hides no change, for any orders, connections, *)
(* page size, lookback and overlap, and however many polls fail.           *)
(***************************************************************************)
EXTENDS CatchupPoller, FiniteSetTheorems, TLAPS

-----------------------------------------------------------------------------
(***************************************************************************)
(* The types, with what they rest on: a poll that has not listed yet began *)
(* late enough for its windows to lie in the past, and reads the orders    *)
(* since the watermark, if there is one.  Nothing is ahead of the clock.   *)
(***************************************************************************)
TypeInv ==
    /\ TypeOK
    /\ pollStep \in {"get", "list"} => started \in Start..now
    /\ pollStep = "list" =>
          since = IF watermark[polled] = Never THEN started - Lookback ELSE watermark[polled]
    /\ newCursor <= now
    /\ \A o \in Orders : updatedAt[o] <= now
    /\ \A c \in 1..Connections : watermark[c] <= now

(* Start is a time that both windows fit before.                           *)
LEMMA StartIsLate == Start \in Nat /\ Lookback <= Start /\ Overlap <= Start /\ Start <= MaxTime
  BY PollerAssumption DEF Start

(* The times of a state that has its types, as numbers.                    *)
LEMMA TimesAreNumbers ==
    ASSUME TypeInv
    PROVE  /\ now \in Nat /\ started \in Nat /\ since \in Nat /\ newCursor \in Nat /\ newCursor <= now
           /\ \A o \in Orders : updatedAt[o] \in Int /\ updatedAt[o] <= now
           /\ \A o \in Orders : ConnectionOf[o] \in 1..Connections
           /\ \A c \in 1..Connections : watermark[c] \in Int /\ window[c] \in Nat /\ watermark[c] <= now
  BY PollerAssumption, StartIsLate DEF TypeInv, TypeOK, Times, Never

LEMMA TypeInit == Init => TypeInv
  BY PollerAssumption, StartIsLate DEF Init, TypeInv, TypeOK, Rows, Times, Never

(* How one order of the page is dealt with keeps the types.                *)
LEMMA DealtWithTyped ==
    ASSUME TypeInv, NEW o \in Orders, DealtWith(o), polled # 0,
           row' \in [Orders -> Rows], UNCHANGED <<now, shopOrders, cursors, pollFailures>>
    PROVE  TypeInv'
  BY DEF TypeInv, TypeOK, DealtWith, shopOrders, cursors

(* So does the end of a connection's poll.                                 *)
LEMMA SetTyped == ASSUME TypeInv, PollSet PROVE TypeInv'
  <1> USE PollerAssumption, StartIsLate DEF TypeInv, TypeOK, Times, shopOrders
  <1>1. CASE polled < Connections BY <1>1 DEF PollSet, Enter
  <1>2. CASE ~(polled < Connections) BY <1>2 DEF PollSet, Leave
  <1>3. QED BY <1>1, <1>2

(* The cursor a list query leads to is a time, and not ahead of the clock. *)
LEMMA ListTyped == ASSUME TypeInv, PollList PROVE TypeInv'
  <1>c. polled \in 1..Connections
    BY DEF PollList, TypeInv, TypeOK
  <1>1. page' \subseteq Orders /\ \A o \in page' : updatedAt[o] \in Times
    <2>1. page' \subseteq Matches(polled, since) BY DEF PollList, Pages
    <2>2. QED BY <2>1 DEF Matches, OrdersOf, TypeInv, TypeOK
  <1>2. window' \in [1..Connections -> Times]
    BY <1>c DEF PollList, TypeInv, TypeOK
  <1>3. newCursor' \in Times /\ newCursor' <= now /\ pollStep' \in {"lookup", "set"}
    <2>1. CASE newCursor' = started - Overlap /\ pollStep' = "set"
      <3>1. started \in Start..now /\ now \in Start..MaxTime
        BY DEF PollList, TypeInv, TypeOK
      <3>2. QED BY <2>1, <3>1, StartIsLate, PollerAssumption DEF Times
    <2>2. CASE (\E last \in page' : newCursor' = updatedAt[last]) /\ pollStep' = "lookup"
      BY <1>1, <2>2, TimesAreNumbers
    <2>3. QED BY <2>1, <2>2 DEF PollList
  <1>4. 0 \in Times BY PollerAssumption DEF Times
  <1>5. UNCHANGED <<now, updatedAt, changes, row, watermark, polled, current, covered, pollFailures>>
    BY DEF PollList, shopOrders
  <1>6. started' = 0 /\ since' = 0 BY DEF PollList
  <1>7. TypeOK'
    BY <1>c, <1>1, <1>2, <1>3, <1>4, <1>5, <1>6 DEF TypeInv, TypeOK
  <1>8. QED BY <1>3, <1>5, <1>7 DEF TypeInv

LEMMA TypeStep == TypeInv /\ [Next]_vars => TypeInv'
  <1> SUFFICES ASSUME TypeInv, [Next]_vars PROVE TypeInv'
    OBVIOUS
  <1> USE PollerAssumption, StartIsLate DEF TypeInv, TypeOK, Times, shopOrders, cursors, poll
  <1>1. CASE TimerFires BY <1>1 DEF TimerFires, Enter
  <1>2. CASE Tick
    <2>1. TypeOK' BY <1>2 DEF Tick
    <2>2. /\ pollStep' \in {"get", "list"} => started' \in Start..now'
          /\ newCursor' <= now'
      BY <1>2, TimesAreNumbers DEF Tick
    <2>3. /\ \A o \in Orders : updatedAt'[o] <= now'
          /\ \A c \in 1..Connections : watermark'[c] <= now'
      <3> HIDE DEF TypeInv, TypeOK
      <3>1. QED BY <1>2, TimesAreNumbers DEF Tick
    <2>4. QED BY <1>2, <2>1, <2>2, <2>3 DEF Tick
  <1>3. ASSUME NEW o \in Orders, Change(o) PROVE TypeInv' BY <1>3 DEF Change
  <1>4. ASSUME NEW o \in Orders, Handle(o) PROVE TypeInv' BY <1>4 DEF Handle, Rows
  <1>5. CASE PollGet BY <1>5 DEF PollGet, Never
  <1>6. CASE PollList BY <1>6, ListTyped
  <1>7. ASSUME NEW o \in Orders, PollLookup(o) PROVE TypeInv'
    <2>1. CASE DealtWith(o) BY <1>7, <2>1, DealtWithTyped DEF PollLookup
    <2>2. CASE row[o] # "terminal" BY <1>7, <2>2 DEF PollLookup, DealtWith
    <2>3. QED BY <1>7, <2>1, <2>2 DEF PollLookup
  <1>8. CASE PollEnqueue
    <2>1. row' \in [Orders -> Rows] BY <1>8 DEF PollEnqueue, Publish, Rows
    <2>2. QED BY <1>8, <2>1, DealtWithTyped DEF PollEnqueue
  <1>9. CASE PollSet BY <1>9, SetTyped
  <1>10. CASE PollThrows
    <2>1. row' \in [Orders -> Rows] BY <1>10 DEF PollThrows, Publish, Rows
    <2>2. QED BY <1>10, <2>1 DEF PollThrows, Leave
  <1>11. CASE UNCHANGED vars BY <1>11 DEF vars
  <1>12. QED
    BY <1>1, <1>2, <1>3, <1>4, <1>5, <1>6, <1>7, <1>8, <1>9, <1>10, <1>11 DEF Next, Poll

(***************************************************************************)
(* Every state of the poller has the types declared, whichever connections *)
(* are broken, calls throw and orders change.                              *)
(***************************************************************************)
THEOREM Typing == Spec => []TypeOK
  <1>1. TypeInv => TypeOK BY DEF TypeInv
  <1>2. QED BY <1>1, TypeInit, TypeStep, PTL DEF Spec

-----------------------------------------------------------------------------
(***************************************************************************)
(* What a poll that has listed its page may still move the watermark past: *)
(* nothing but what is on the page and what has been dealt with.           *)
(***************************************************************************)
PageInv ==
    /\ pollStep = "set" => page = {}
    /\ pollStep \in {"lookup", "enqueue", "set"} =>
          \A o \in Orders :
             ConnectionOf[o] = polled /\ updatedAt[o] >= window[polled]
             => updatedAt[o] >= newCursor \/ o \in covered \/ o \in page

CursorInv == WatermarkIsHonest /\ PageInv

LEMMA CursorInit == Init => CursorInv
  BY PollerAssumption DEF Init, CursorInv, PageInv, WatermarkIsHonest

(* An order that changes is ahead of every cursor.                         *)
LEMMA ChangeHonest == ASSUME TypeInv, CursorInv, NEW o \in Orders, Change(o) PROVE CursorInv'
  <1>n. /\ UNCHANGED <<cursors, poll>> /\ covered' = covered \ {o}
        /\ \A p \in Orders : updatedAt'[p] = IF p = o THEN now ELSE updatedAt[p]
    BY DEF Change, TypeInv, TypeOK
  <1>1. ASSUME NEW p \in Orders, watermark[ConnectionOf[p]] # Never,
               updatedAt'[p] >= window[ConnectionOf[p]]
        PROVE  updatedAt'[p] # Never
               /\ (updatedAt'[p] >= watermark[ConnectionOf[p]] \/ p \in covered')
    <2>1. CASE p = o BY <1>n, <2>1, TimesAreNumbers DEF Never
    <2>2. CASE p # o
      <3>1. p \in Matches(ConnectionOf[p], watermark[ConnectionOf[p]]) \cup covered
        BY <1>n, <1>1, <2>2 DEF CursorInv, WatermarkIsHonest
      <3>2. QED BY <1>n, <1>1, <2>2, <3>1, TimesAreNumbers DEF Matches, OrdersOf, Never
    <2>3. QED BY <2>1, <2>2
  <1>2. WatermarkIsHonest'
    BY <1>n, <1>1 DEF WatermarkIsHonest, Matches, OrdersOf, cursors
  <1>3. PageInv'
    BY <1>n, TimesAreNumbers DEF CursorInv, PageInv, cursors, poll
  <1>4. QED BY <1>2, <1>3 DEF CursorInv

(* The page and the cursor that the list leads to leave out only what was  *)
(* before the watermark, or what no poll was ever to see.                  *)
LEMMA ListHonest == ASSUME TypeInv, CursorInv, PollList PROVE CursorInv'
  <1> USE PollerAssumption DEF TypeInv, TypeOK, CursorInv, Never, Times
  <1>c. polled \in 1..Connections /\ since \in Times
    BY DEF PollList
  <1>1. WatermarkIsHonest'
    BY <1>c DEF PollList, WatermarkIsHonest, Matches, OrdersOf, shopOrders
  <1>2. ASSUME NEW o \in Orders, ConnectionOf[o] = polled, updatedAt[o] >= window'[polled],
               o \notin covered
        PROVE  o \in Matches(polled, since)
    <2>1. CASE watermark[polled] = Never
      BY <1>c, <1>2, <2>1 DEF PollList, Matches, OrdersOf
    <2>2. CASE watermark[polled] # Never
      <3>1. since = watermark[polled] /\ window' = window BY <2>2 DEF PollList
      <3>2. QED BY <1>c, <1>2, <2>2, <3>1 DEF WatermarkIsHonest
    <2>3. QED BY <2>1, <2>2
  <1>3. PageInv'
    <2>1. CASE page' = {} /\ pollStep' = "set"
      <3>1. Matches(polled, since) = {}
        BY <2>1, FS_EmptySet DEF PollList, Pages
      <3>2. QED BY <1>2, <2>1, <3>1 DEF PollList, PageInv, shopOrders
    <2>2. CASE /\ \E last \in page' :
                     /\ \A o \in page' : updatedAt[o] <= updatedAt[last]
                     /\ newCursor' = updatedAt[last]
               /\ pollStep' = "lookup"
      <3>1. PICK last \in page' : newCursor' = updatedAt[last] BY <2>2
      <3>2. \A o \in Matches(polled, since) \ page' : updatedAt[last] <= updatedAt[o]
        BY <3>1 DEF PollList, Pages
      <3>3. page' \subseteq Orders BY DEF PollList, Pages, Matches, OrdersOf
      <3>4. QED BY <1>2, <2>2, <3>1, <3>2, <3>3 DEF PollList, PageInv, shopOrders
    <2>3. QED BY <2>1, <2>2 DEF PollList
  <1>4. QED BY <1>1, <1>3

(* An order leaves the page only when it is dealt with.                    *)
LEMMA DealtWithHonest ==
    ASSUME TypeInv, CursorInv, NEW o \in Orders, DealtWith(o), UNCHANGED <<shopOrders, cursors>>,
           pollStep \in {"lookup", "enqueue"}
    PROVE  CursorInv'
  <1> USE DEF CursorInv, DealtWith, shopOrders, cursors
  <1>1. WatermarkIsHonest' BY DEF WatermarkIsHonest, Matches, OrdersOf
  <1>2. PageInv' BY DEF PageInv
  <1>3. QED BY <1>1, <1>2

(* The watermark moves when the page is empty.                             *)
LEMMA SetHonest == ASSUME TypeInv, CursorInv, PollSet PROVE CursorInv'
  <1> USE PollerAssumption DEF TypeInv, TypeOK, CursorInv, Never, Times, shopOrders
  <1>c. polled \in 1..Connections BY DEF PollSet
  <1>1. ASSUME NEW o \in Orders, watermark'[ConnectionOf[o]] # Never,
               updatedAt[o] >= window[ConnectionOf[o]]
        PROVE  /\ updatedAt[o] # Never
               /\ updatedAt[o] >= watermark'[ConnectionOf[o]] \/ o \in covered
    <2>1. CASE ConnectionOf[o] = polled
      BY <1>c, <1>1, <2>1 DEF PollSet, PageInv, Matches, OrdersOf
    <2>2. CASE ConnectionOf[o] # polled
      BY <1>1, <2>2 DEF PollSet, WatermarkIsHonest, Matches, OrdersOf
    <2>3. QED BY <2>1, <2>2
  <1>2. WatermarkIsHonest' BY <1>1 DEF PollSet, WatermarkIsHonest, Matches, OrdersOf
  <1>3. PageInv' BY DEF PollSet, Enter, Leave, PageInv
  <1>4. QED BY <1>2, <1>3

LEMMA CursorStep == TypeInv /\ CursorInv /\ [Next]_vars => CursorInv'
  <1> SUFFICES ASSUME TypeInv, CursorInv, [Next]_vars PROVE CursorInv'
    OBVIOUS
  <1>h. ASSUME UNCHANGED <<shopOrders, cursors, covered>> PROVE WatermarkIsHonest'
    BY <1>h DEF CursorInv, WatermarkIsHonest, Matches, OrdersOf, shopOrders, cursors
  <1>p. ASSUME UNCHANGED <<shopOrders, cursors, covered, poll>> PROVE CursorInv'
    BY <1>h, <1>p DEF CursorInv, PageInv, shopOrders, cursors, poll
  <1>e. ASSUME UNCHANGED <<shopOrders, cursors, covered>>, pollStep' \in {"idle", "get", "list"}
        PROVE  CursorInv'
    BY <1>h, <1>e DEF CursorInv, PageInv
  <1>1. CASE TimerFires BY <1>1, <1>e DEF TimerFires, Enter
  <1>2. CASE Tick BY <1>2, <1>p DEF Tick
  <1>3. ASSUME NEW o \in Orders, Change(o) PROVE CursorInv' BY <1>3, ChangeHonest
  <1>4. ASSUME NEW o \in Orders, Handle(o) PROVE CursorInv' BY <1>4, <1>p DEF Handle
  <1>5. CASE PollGet BY <1>5, <1>e DEF PollGet
  <1>6. CASE PollList BY <1>6, ListHonest
  <1>7. ASSUME NEW o \in Orders, PollLookup(o) PROVE CursorInv'
    <2>1. CASE DealtWith(o) BY <1>7, <2>1, DealtWithHonest DEF PollLookup
    <2>2. CASE pollStep' = "enqueue" /\ UNCHANGED <<polled, page, newCursor, covered>>
      BY <1>7, <1>h, <2>2 DEF PollLookup, CursorInv, PageInv, shopOrders, cursors
    <2>3. QED BY <1>7, <2>1, <2>2 DEF PollLookup
  <1>8. CASE PollEnqueue BY <1>8, DealtWithHonest DEF PollEnqueue, TypeInv, TypeOK
  <1>9. CASE PollSet BY <1>9, SetHonest
  <1>10. CASE PollThrows BY <1>10, <1>e DEF PollThrows, Leave
  <1>11. CASE UNCHANGED vars BY <1>11, <1>p DEF vars
  <1>12. QED
    BY <1>1, <1>2, <1>3, <1>4, <1>5, <1>6, <1>7, <1>8, <1>9, <1>10, <1>11 DEF Next, Poll

(***************************************************************************)
(* The watermark hides no order, for any number of orders, connections and *)
(* changes, whatever page is cut at whichever tie, and wherever a poll     *)
(* throws.                                                                 *)
(***************************************************************************)
THEOREM CursorHidesNothing == Spec => []WatermarkIsHonest
  <1>1. CursorInv => WatermarkIsHonest BY DEF CursorInv
  <1>2. QED BY <1>1, TypeInit, TypeStep, CursorInit, CursorStep, PTL DEF Spec

=============================================================================
