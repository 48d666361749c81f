------------------------ MODULE ItemResolutionProofs ------------------------
(***************************************************************************)
(* The items that order lines are booked on, the orders that get a header, *)
(* and what a payload comes to, for any orders, connections, items and     *)
(* lookup rows.                                                            *)
(***************************************************************************)
EXTENDS ItemResolution, SequenceTheorems, WellFoundedInduction, TLAPS

-----------------------------------------------------------------------------
(***************************************************************************)
(* The lines to resolve: those of the items, then those of the shipping.   *)
(***************************************************************************)
(* A page of a list is a list no longer than it, and only that of an empty *)
(* one is empty.                                                           *)
LEMMA FirstOfIsASequence ==
    ASSUME NEW S, NEW seq \in Seq(S), NEW n \in Nat
    PROVE  FirstOf(seq, n) \in Seq(S)
  <1> DEFINE last == IF Len(seq) < n THEN Len(seq) ELSE n
  <1>1. Len(seq) \in Nat /\ DOMAIN seq = 1..Len(seq) /\ \A i \in 1..Len(seq) : seq[i] \in S
    BY LenProperties
  <1>2. last \in Int /\ \A i \in 1..last : seq[i] \in S BY <1>1
  <1> HIDE DEF last
  <1>3. SubSeq(seq, 1, last) \in Seq(S) BY <1>2, SubSeqProperties
  <1>4. QED BY <1>3 DEF FirstOf, last

LEMMA FetchedType ==
    ASSUME NEW s \in ShopifyOrder
    PROVE  /\ Fetched(s).lines \in Seq([sku : STRING, amount : Int])
           /\ Fetched(s).shipping \in Seq(Int)
  <1>1. /\ s.lines \in Seq([sku : STRING, amount : Int]) /\ s.shipping \in Seq(Int)
        /\ MaxLines \in Nat /\ MaxShipping \in Nat
    BY PayloadAssumption DEF ShopifyOrder
  <1>2. /\ FirstOf(s.lines, MaxLines) \in Seq([sku : STRING, amount : Int])
        /\ FirstOf(s.shipping, MaxShipping) \in Seq(Int)
    BY <1>1, FirstOfIsASequence
  <1>3. /\ Fetched(s).lines = FirstOf(s.lines, MaxLines)
        /\ Fetched(s).shipping = FirstOf(s.shipping, MaxShipping)
    BY DEF Fetched, ShopifyOrder
  <1>4. QED BY <1>2, <1>3

(* Nothing but a shipping line with the connection's own item is resolved  *)
(* already, and an eligible order has a line.                              *)
LEMMA LinesToResolve ==
    ASSUME NEW c \in Connections, NEW s \in AllShapes
    PROVE  LET items_ == BalancedLines(OrderOf[s])
               lines == LinesOf[c][s]
           IN  /\ Len(items_) \in Nat /\ Len(lines) \in Nat
               /\ Eligible(OrderOf[s]) => Len(lines) > 0
               /\ \A i \in 1..Len(lines) :
                     lines[i].resolved => /\ i > Len(items_)
                                          /\ c.shipItem # None /\ lines[i].ref = c.shipItem
  <1> DEFINE order == Fetched(s)
             balancing == IF Difference(order) = 0 THEN <<>>
                          ELSE << Ref(VarianceId, FALSE, Difference(order)) >>
             itemLines == ItemLines(order)
             balanced == BalancedLines(order)
             shipping == ShippingLines(c, order)
             lines == LinesOf[c][s]
             Open == {itemLines[i] : i \in DOMAIN itemLines} \cup {Ref(VarianceId, FALSE, Difference(order))}
             Shipped == {shipping[i] : i \in DOMAIN shipping}
  <1>1. /\ s \in ShopifyOrder /\ OrderOf[s] = order
        /\ lines = BalancedLines(OrderOf[s]) \o ShippingLines(c, OrderOf[s])
    <2>1. s \in ShopifyOrder BY ItemResolutionAssumption
    <2>2. OrderOf[s] = order BY DEF OrderOf
    <2>3. lines = BalancedLines(OrderOf[s]) \o ShippingLines(c, OrderOf[s]) BY DEF LinesOf
    <2>4. QED BY <2>1, <2>2, <2>3
  <1>2. lines = balanced \o shipping BY <1>1
  <1>3. /\ order.lines \in Seq([sku : STRING, amount : Int]) /\ order.shipping \in Seq(Int)
    BY <1>1, FetchedType
  <1>4. /\ DOMAIN order.lines = 1..Len(order.lines) /\ Len(order.lines) \in Nat
        /\ DOMAIN order.shipping = 1..Len(order.shipping) /\ Len(order.shipping) \in Nat
    BY <1>3, LenProperties
  <1>5. itemLines \in Seq(Open) /\ Len(itemLines) = Len(order.lines)
    <2>1. DOMAIN itemLines = 1..Len(order.lines) BY <1>4 DEF ItemLines
    <2> HIDE DEF order
    <2>2. itemLines \in [1..Len(order.lines) -> Open] BY <2>1 DEF ItemLines
    <2> HIDE DEF itemLines, Open
    <2>3. QED BY <1>4, <2>2, LenProperties
  <1>6. balancing \in Seq(Open)
    <2> DEFINE line == Ref(VarianceId, FALSE, Difference(order))
    <2>1. balancing = <<>> \/ balancing = <<line>> BY DEF balancing
    <2>2. line \in Open OBVIOUS
    <2>3. \A S : \A l \in S : <<>> \in Seq(S) /\ <<l>> \in Seq(S) OBVIOUS
    <2> HIDE DEF balancing, line, Open
    <2>4. <<>> \in Seq(Open) /\ <<line>> \in Seq(Open) BY <2>2, <2>3, Zenon
    <2>5. QED BY <2>1, <2>4, Zenon
  <1>7. \A l \in Open : l.resolved = FALSE
    <2> SUFFICES ASSUME NEW l \in Open PROVE l.resolved = FALSE OBVIOUS
    <2>1. \A ref, amount : Ref(ref, FALSE, amount).resolved = FALSE BY DEF Ref
    <2>2. CASE l = Ref(VarianceId, FALSE, Difference(order)) BY <2>1, <2>2
    <2>3. CASE \E i \in DOMAIN itemLines : l = itemLines[i]
      <3>1. PICK i \in DOMAIN itemLines : l = itemLines[i] BY <2>3
      <3>2. i \in DOMAIN order.lines BY <3>1 DEF ItemLines
      <3> DEFINE ref == IF order.lines[i].sku = None THEN "UNMAPPED-ITEM" ELSE order.lines[i].sku
                 amount == order.lines[i].amount
      <3>3. itemLines[i] = Ref(ref, FALSE, amount) BY <3>2 DEF ItemLines
      <3> HIDE DEF ref, amount, itemLines
      <3>4. QED BY <2>1, <3>1, <3>3
    <2>4. QED BY <2>2, <2>3
  <1>8. shipping \in Seq(Shipped)
    <2>1. DOMAIN shipping = 1..Len(order.shipping) BY <1>4 DEF ShippingLines
    <2> HIDE DEF order
    <2>2. shipping \in [1..Len(order.shipping) -> Shipped] BY <2>1 DEF ShippingLines
    <2> HIDE DEF shipping, Shipped
    <2>3. QED BY <1>4, <2>2
  <1>9. \A l \in Shipped : l.resolved => c.shipItem # None /\ l.ref = c.shipItem
    <2> SUFFICES ASSUME NEW l \in Shipped, l.resolved
                 PROVE  c.shipItem # None /\ l.ref = c.shipItem
      OBVIOUS
    <2>1. PICK i \in DOMAIN shipping : l = shipping[i] OBVIOUS
    <2>2. i \in DOMAIN order.shipping BY <2>1 DEF ShippingLines
    <2> DEFINE amount == order.shipping[i]
    <2>3. shipping[i] = IF c.shipItem = None THEN Ref("SHIP-STANDARD", FALSE, amount)
                        ELSE Ref(c.shipItem, TRUE, amount)
      BY <2>2 DEF ShippingLines
    <2> HIDE DEF amount, shipping, Shipped
    <2>4. /\ Ref("SHIP-STANDARD", FALSE, amount).resolved = FALSE
          /\ Ref(c.shipItem, TRUE, amount).ref = c.shipItem
      BY DEF Ref
    <2>5. QED BY <2>1, <2>3, <2>4
  <1>10. balanced = itemLines \o balancing BY DEF BalancedLines
  <1>11. Eligible(order) => order.lines # <<>> BY DEF Eligible
  <1> HIDE DEF order, balancing, itemLines, balanced, shipping, lines, Open, Shipped
  <1>12. /\ balanced \in Seq(Open) /\ Len(balanced) = Len(itemLines) + Len(balancing)
         /\ Len(balancing) \in Nat
    BY <1>5, <1>6, <1>10, ConcatProperties, LenProperties
  <1> DEFINE U == Open \cup Shipped
  <1>13. balanced \in Seq(U) /\ shipping \in Seq(U) BY <1>8, <1>12
  <1>14. /\ Len(lines) = Len(balanced) + Len(shipping)
         /\ \A i \in 1..Len(balanced) + Len(shipping) :
               lines[i] = IF i <= Len(balanced) THEN balanced[i] ELSE shipping[i - Len(balanced)]
    BY <1>2, <1>13, ConcatProperties
  <1>15. Len(balanced) \in Nat /\ Len(shipping) \in Nat BY <1>8, <1>12, LenProperties
  <1>16. ASSUME NEW i \in 1..Len(lines), lines[i].resolved
         PROVE  i > Len(balanced) /\ c.shipItem # None /\ lines[i].ref = c.shipItem
    <2>1. CASE i <= Len(balanced)
      <3>1. lines[i] = balanced[i] /\ i \in 1..Len(balanced) BY <1>14, <1>15, <2>1
      <3>2. balanced[i] \in Open BY <1>12, <3>1, ElementOfSeq
      <3>3. QED BY <1>7, <1>16, <3>1, <3>2
    <2>2. CASE i > Len(balanced)
      <3>1. lines[i] = shipping[i - Len(balanced)] /\ i - Len(balanced) \in 1..Len(shipping)
        BY <1>14, <1>15, <2>2
      <3>2. shipping[i - Len(balanced)] \in Shipped BY <1>8, <3>1, ElementOfSeq
      <3>3. QED BY <1>9, <1>16, <2>2, <3>1, <3>2
    <2>3. QED BY <1>14, <1>15, <2>1, <2>2
  <1>17. ASSUME Eligible(order) PROVE Len(lines) > 0
    <2>1. Len(order.lines) > 0 BY <1>3, <1>4, <1>11, <1>17, EmptySeq
    <2>2. QED BY <1>4, <1>5, <1>12, <1>14, <1>15, <2>1
  <1>18. Len(lines) \in Nat BY <1>14, <1>15
  <1>19. OrderOf[s] = order BY <1>1
  <1>20. BalancedLines(OrderOf[s]) = balanced BY <1>19 DEF balanced
  <1>21. QED BY <1>15, <1>16, <1>17, <1>18, <1>19, <1>20 DEF lines

-----------------------------------------------------------------------------
(***************************************************************************)
(* The inductive invariant.  Items are only ever created, so that `found'  *)
(* stays true wherever it is remembered: in the cache and in an answer     *)
(* that is on its way.  An order whose lines are being resolved has one    *)
(* left, and the ones before it are booked on items that nobody guessed.   *)
(***************************************************************************)
Stages == {"due", "fetched", "lines", "query", "built", "ignored",
           "mapping", "balancing", "item_resolution"}

(* What NoGuessing says of one line.                                       *)
Justified(o, i, item) ==
    LET line == Lines(o)[i]
    IN  \/ item = ItemOf(line.ref) /\ line.ref \in items
        \/ i <= Len(BalancedLines(Order(o))) /\ item = Internal(connection.defaultItem) /\ item.id # None
        \/ i > Len(BalancedLines(Order(o))) /\ item = Internal(connection.shipItem) /\ item.id # None

Right(o, st, lines, known) ==
    /\ st \in Stages /\ known \in {None, "found", "missing"}
    /\ known # None => st = "query"
    /\ known = "found" => Lines(o)[Len(lines) + 1].ref \in items
    /\ st = "fetched" => Eligible(Order(o))
    /\ st \in {"lines", "query"} => Len(lines) < Len(Lines(o))
    /\ st \notin {"lines", "query", "built"} => lines = <<>>
    /\ \E S : lines \in Seq(S)
    /\ \A i \in DOMAIN lines : Justified(o, i, lines[i].item)

GuessInv ==
    /\ shape \in [Orders -> AllShapes] /\ connection \in Connections
    /\ stage = [o \in Orders |-> stage[o]]
    /\ built = [o \in Orders |-> built[o]]
    /\ answer = [o \in Orders |-> answer[o]]
    /\ \A sku \in DOMAIN cache : cache[sku] = "found" => sku \in items
    /\ \A o \in Orders : Right(o, stage[o], built[o], answer[o])

(* What an order is right about does not change with the items.            *)
LEMMA RightKept ==
    ASSUME NEW o \in Orders, NEW st, NEW lines, NEW known, Right(o, st, lines, known),
           UNCHANGED <<shape, connection>>, items \subseteq items'
    PROVE  Right(o, st, lines, known)'
  <1>1. Lines(o)' = Lines(o) /\ Order(o)' = Order(o) BY DEF Lines, Order
  <1>2. ASSUME NEW i, NEW item, Justified(o, i, item) PROVE Justified(o, i, item)'
    BY <1>1, <1>2 DEF Justified
  <1>3. QED BY <1>1, <1>2 DEF Right

(* An order comes to a stage, with its lines and what it knows.            *)
LEMMA OrderMoves ==
    ASSUME GuessInv, NEW o \in Orders, NEW st, NEW lines, NEW known,
           Right(o, st, lines, known), UNCHANGED world,
           stage' = [stage EXCEPT ![o] = st], built' = [built EXCEPT ![o] = lines],
           answer' = [answer EXCEPT ![o] = known],
           \A sku \in DOMAIN cache' : cache'[sku] = "found" => sku \in items
    PROVE  GuessInv'
  <1>1. UNCHANGED <<shape, connection, items>> BY DEF world
  <1>2. /\ stage' = [p \in Orders |-> stage'[p]]
        /\ built' = [p \in Orders |-> built'[p]]
        /\ answer' = [p \in Orders |-> answer'[p]]
    BY DEF GuessInv
  <1>3. ASSUME NEW p \in Orders PROVE Right(p, stage[p], built[p], answer[p])'
    <2>1. CASE p = o
      <3>1. stage'[p] = st /\ built'[p] = lines /\ answer'[p] = known BY <2>1 DEF GuessInv
      <3>2. Right(p, st, lines, known)' BY <1>1, <2>1, RightKept
      <3>3. QED BY <3>1, <3>2
    <2>2. CASE p # o
      <3>1. stage'[p] = stage[p] /\ built'[p] = built[p] /\ answer'[p] = answer[p]
        BY <2>2 DEF GuessInv
      <3> DEFINE x == stage[p]
                 y == built[p]
                 z == answer[p]
      <3>2. Right(p, x, y, z) BY DEF GuessInv
      <3>3. \A st1, lines1, known1 : Right(p, st1, lines1, known1) => Right(p, st1, lines1, known1)'
        BY <1>1, RightKept
      <3>4. QED BY <3>1, <3>2, <3>3
    <2>3. QED BY <2>1, <2>2
  <1>4. QED BY <1>1, <1>2, <1>3 DEF GuessInv

LEMMA GuessInit == Init => GuessInv
  <1> SUFFICES ASSUME Init PROVE GuessInv OBVIOUS
  <1>1. /\ shape \in [Orders -> AllShapes] /\ connection \in Connections
        /\ stage = [o \in Orders |-> stage[o]]
        /\ built = [o \in Orders |-> built[o]]
        /\ answer = [o \in Orders |-> answer[o]]
        /\ DOMAIN cache = {}
    BY DEF Init
  <1>2. ASSUME NEW o \in Orders PROVE Right(o, stage[o], built[o], answer[o])
    <2>1. stage[o] = "due" /\ built[o] = <<>> /\ answer[o] = None BY DEF Init
    <2>2. <<>> \in Seq({}) /\ DOMAIN <<>> = {} OBVIOUS
    <2>3. QED BY <2>1, <2>2 DEF Right, Stages, None
  <1>3. QED BY <1>1, <1>2 DEF GuessInv

(* The lines of an order.                                                  *)
LEMMA LinesOfOrder ==
    ASSUME GuessInv, NEW o \in Orders
    PROVE  /\ Len(BalancedLines(Order(o))) \in Nat /\ Len(Lines(o)) \in Nat
           /\ Eligible(Order(o)) => Len(Lines(o)) > 0
           /\ \A i \in 1..Len(Lines(o)) :
                 Lines(o)[i].resolved => /\ i > Len(BalancedLines(Order(o)))
                                         /\ connection.shipItem # None
                                         /\ Lines(o)[i].ref = connection.shipItem
  <1>1. shape[o] \in AllShapes /\ connection \in Connections BY DEF GuessInv
  <1>2. QED BY <1>1, LinesToResolve DEF Lines, Order

(* Pushing a line on an item that is not guessed.                          *)
LEMMA PushIsRight ==
    ASSUME GuessInv, NEW o \in Orders, NEW item, Push(o, item),
           stage[o] \in {"lines", "query"}, Justified(o, Len(built[o]) + 1, item),
           UNCHANGED world, answer' = [answer EXCEPT ![o] = None],
           \A sku \in DOMAIN cache' : cache'[sku] = "found" => sku \in items
    PROVE  GuessInv'
  <1> DEFINE new == [item |-> item, amount |-> Line(o).amount]
             lines == Append(built[o], new)
             st == IF Len(built[o]) + 1 = Len(Lines(o)) THEN "built" ELSE "lines"
  <1>1. /\ Right(o, stage[o], built[o], answer[o]) /\ Len(built[o]) < Len(Lines(o))
        /\ Len(Lines(o)) \in Nat
    BY LinesOfOrder DEF GuessInv, Right
  <1>2. PICK S : built[o] \in Seq(S) BY <1>1 DEF Right
  <1>3. built[o] \in Seq(S \cup {new}) BY <1>2
  <1>4. /\ lines \in Seq(S \cup {new}) /\ Len(lines) = Len(built[o]) + 1
        /\ \A i \in 1..Len(built[o]) : lines[i] = built[o][i]
        /\ lines[Len(built[o]) + 1] = new
    BY <1>3, AppendProperties
  <1>5. /\ DOMAIN lines = 1..Len(lines) /\ DOMAIN built[o] = 1..Len(built[o])
        /\ Len(built[o]) \in Nat
    BY <1>2, <1>4, LenProperties
  <1>6. stage' = [stage EXCEPT ![o] = st] /\ built' = [built EXCEPT ![o] = lines]
    BY Zenon DEF Push
  <1>7. ASSUME NEW i \in DOMAIN lines PROVE Justified(o, i, lines[i].item)
    <2>1. CASE i = Len(built[o]) + 1
      <3>1. lines[i].item = item BY <1>4, <2>1
      <3>2. QED BY <2>1, <3>1
    <2>2. CASE i # Len(built[o]) + 1
      <3>1. i \in DOMAIN built[o] /\ lines[i] = built[o][i] BY <1>4, <1>5, <2>2
      <3>2. QED BY <1>1, <3>1 DEF Right
    <2>3. QED BY <2>1, <2>2
  <1> HIDE DEF new, lines
  <1>8. st \in {"built", "lines"} /\ (st = "lines" => Len(lines) < Len(Lines(o)))
    BY <1>1, <1>4, <1>5
  <1>9. Right(o, st, lines, None)
    <2>1. \E T : lines \in Seq(T) BY <1>4
    <2> HIDE DEF st
    <2>2. QED BY <1>7, <1>8, <2>1 DEF Right, Stages, None
  <1> HIDE DEF st
  <1>10. QED BY <1>6, <1>9, OrderMoves

LEMMA ParkIsRight ==
    ASSUME GuessInv, NEW o \in Orders, ParkAt(o, "item_resolution"),
           UNCHANGED world, answer' = [answer EXCEPT ![o] = None],
           \A sku \in DOMAIN cache' : cache'[sku] = "found" => sku \in items
    PROVE  GuessInv'
  <1>1. <<>> \in Seq({}) /\ DOMAIN <<>> = {} OBVIOUS
  <1>2. Right(o, "item_resolution", <<>>, None) BY <1>1 DEF Right, Stages, None
  <1>3. /\ stage' = [stage EXCEPT ![o] = "item_resolution"]
        /\ built' = [built EXCEPT ![o] = <<>>]
    BY DEF ParkAt
  <1>4. QED BY <1>2, <1>3, OrderMoves

(* What the loop makes of an answer, which is true if it is `found'.       *)
LEMMA ResolvedIsRight ==
    ASSUME GuessInv, NEW o \in Orders, NEW found, Resolved(o, found),
           stage[o] \in {"lines", "query"}, found = "found" => Line(o).ref \in items,
           UNCHANGED world, answer' = [answer EXCEPT ![o] = None],
           \A sku \in DOMAIN cache' : cache'[sku] = "found" => sku \in items
    PROVE  GuessInv'
  <1> DEFINE i == Len(built[o]) + 1
  <1>1. Line(o) = Lines(o)[i] BY DEF Line
  <1>2. CASE found = "found" /\ Push(o, ItemOf(Line(o).ref))
    <2>1. Justified(o, i, ItemOf(Line(o).ref)) BY <1>1, <1>2 DEF Justified
    <2>2. QED BY <1>2, <2>1, PushIsRight
  <1>3. CASE found = "missing" /\ Fallback(o) # None /\ Push(o, Internal(Fallback(o)))
    <2>1. Len(built[o]) \in Nat /\ Len(BalancedLines(Order(o))) \in Nat
      <3>1. \E S : built[o] \in Seq(S) BY DEF GuessInv, Right
      <3>2. QED BY <3>1, LenProperties, LinesOfOrder
    <2>2. Fallback(o) = connection.defaultItem /\ Len(built[o]) < Len(BalancedLines(Order(o)))
      BY <1>3 DEF Fallback, OnItems
    <2>3. i <= Len(BalancedLines(Order(o))) BY <2>1, <2>2
    <2>4. Internal(Fallback(o)).id # None BY <1>3 DEF Internal
    <2>5. Justified(o, i, Internal(Fallback(o))) BY <2>2, <2>3, <2>4 DEF Justified
    <2>6. QED BY <1>3, <2>5, PushIsRight
  <1>4. CASE ParkAt(o, "item_resolution") BY <1>4, ParkIsRight
  <1>5. QED BY <1>2, <1>3, <1>4 DEF Resolved

LEMMA ResolveLineIsRight ==
    ASSUME GuessInv, NEW o \in Orders, ResolveLine(o)
    PROVE  GuessInv'
  <1>1. /\ stage[o] = "lines" /\ UNCHANGED <<world, cache, answer>>
        /\ Right(o, stage[o], built[o], answer[o])
    BY DEF ResolveLine, GuessInv
  <1>2. answer[o] = None BY <1>1 DEF Right
  <1>3. answer' = [answer EXCEPT ![o] = None] BY <1>1, <1>2 DEF GuessInv
  <1>4. \A sku \in DOMAIN cache' : cache'[sku] = "found" => sku \in items BY <1>1 DEF GuessInv
  <1> DEFINE i == Len(built[o]) + 1
  <1>5. CASE Line(o).resolved /\ Push(o, Internal(Line(o).ref))
    <2>1. i \in 1..Len(Lines(o))
      <3>1. \E S : built[o] \in Seq(S) BY <1>1 DEF Right
      <3>2. Len(built[o]) \in Nat /\ Len(built[o]) < Len(Lines(o)) /\ Len(Lines(o)) \in Nat
        BY <1>1, <3>1, LenProperties, LinesOfOrder DEF Right
      <3>3. QED BY <3>2
    <2>2. /\ i > Len(BalancedLines(Order(o))) /\ connection.shipItem # None
          /\ Line(o).ref = connection.shipItem
      BY <1>5, <2>1, LinesOfOrder DEF Line
    <2>3. Internal(Line(o).ref).id # None BY <2>2 DEF Internal
    <2>4. Justified(o, i, Internal(Line(o).ref)) BY <2>2, <2>3 DEF Justified
    <2>5. QED BY <1>1, <1>3, <1>4, <1>5, <2>4, PushIsRight
  <1>6. CASE Line(o).ref \in DOMAIN cache /\ Resolved(o, cache[Line(o).ref])
    <2>1. cache[Line(o).ref] = "found" => Line(o).ref \in items BY <1>6 DEF GuessInv
    <2>2. QED BY <1>1, <1>3, <1>4, <1>6, <2>1, ResolvedIsRight
  <1>7. CASE stage' = [stage EXCEPT ![o] = "query"] /\ UNCHANGED built
    <2>1. Right(o, "query", built[o], None) BY <1>1, <1>2 DEF Right, Stages, None
    <2>2. built' = [built EXCEPT ![o] = built[o]] BY <1>7 DEF GuessInv
    <2>3. QED BY <1>1, <1>3, <1>4, <1>7, <2>1, <2>2, OrderMoves
  <1>8. QED BY <1>5, <1>6, <1>7 DEF ResolveLine

LEMMA AnsweredIsRight ==
    ASSUME GuessInv, NEW o \in Orders, Answered(o)
    PROVE  GuessInv'
  <1>1. /\ stage[o] = "query" /\ UNCHANGED world
        /\ answer' = [answer EXCEPT ![o] = None] /\ Resolved(o, answer[o])
        /\ cache' = [sku \in DOMAIN cache \cup {Line(o).ref} |->
                        IF sku = Line(o).ref THEN answer[o] ELSE cache[sku]]
    BY DEF Answered
  <1>2. answer[o] = "found" => Line(o).ref \in items BY DEF GuessInv, Right, Line
  <1>3. ASSUME NEW sku \in DOMAIN cache', cache'[sku] = "found" PROVE sku \in items
    <2>1. CASE sku = Line(o).ref BY <1>1, <1>2, <1>3, <2>1
    <2>2. CASE sku # Line(o).ref BY <1>1, <1>3, <2>2 DEF GuessInv
    <2>3. QED BY <2>1, <2>2
  <1>4. QED BY <1>1, <1>2, <1>3, ResolvedIsRight

(* What the evaluation of a draft comes to.                                *)
LEMMA DraftStages ==
    ASSUME NEW d \in Drafts
    PROVE  d.draft.stage \in {"mapping", "balancing", "lines"}
  <1>1. PICK c \in Connections, s \in AllShapes, r \in SUBSET (InitialRows \cup LaterRows) :
           d = [from |-> <<c, s, r>>, draft |-> Draft(c, OrderOf[s], r)]
    BY DEF Drafts
  <1>2. d.draft = Draft(c, OrderOf[s], r) BY <1>1
  <1>3. Draft(c, OrderOf[s], r).stage \in {"mapping", "balancing", "lines"}
    <2>1. CASE Header(c, OrderOf[s], r) = Park BY <2>1 DEF Draft
    <2>2. CASE Header(c, OrderOf[s], r) # Park /\ Unbalanced(OrderOf[s]) BY <2>2 DEF Draft
    <2>3. CASE Header(c, OrderOf[s], r) # Park /\ ~Unbalanced(OrderOf[s]) BY <2>3 DEF Draft
    <2>4. QED BY <2>1, <2>2, <2>3
  <1>4. QED BY <1>2, <1>3

(* The steps that leave the cache and the answers alone.                   *)
LEMMA HandlingIsRight ==
    ASSUME GuessInv, NEW o \in Orders, Handling(o) \/ Replay(o)
    PROVE  GuessInv'
  <1>1. Right(o, stage[o], built[o], answer[o]) BY DEF GuessInv
  <1>2. ASSUME NEW st \in Stages \ {"lines", "query", "built"}, stage' = [stage EXCEPT ![o] = st],
               st = "fetched" => Eligible(Order(o)), built[o] = <<>>, answer[o] = None,
               UNCHANGED <<world, cache, built, answer>>
        PROVE  GuessInv'
    <2>1. Right(o, st, built[o], None) BY <1>1, <1>2 DEF Right, Stages, None
    <2>2. built' = [built EXCEPT ![o] = built[o]] /\ answer' = [answer EXCEPT ![o] = None]
      BY <1>2 DEF GuessInv
    <2>3. \A sku \in DOMAIN cache' : cache'[sku] = "found" => sku \in items BY <1>2 DEF GuessInv
    <2>4. UNCHANGED world /\ stage' = [stage EXCEPT ![o] = st] BY <1>2
    <2>5. QED BY <2>1, <2>2, <2>3, <2>4, OrderMoves
  <1>3. stage[o] \notin {"lines", "query", "built"} => built[o] = <<>> /\ answer[o] = None
    BY <1>1 DEF Right
  <1>4. CASE Fetch(o)
    <2>1. stage[o] = "due" /\ UNCHANGED <<world, cache, built, answer>> BY <1>4 DEF Fetch
    <2>2. CASE Eligible(Order(o)) /\ stage' = [stage EXCEPT ![o] = "fetched"]
      BY <1>2, <1>3, <2>1, <2>2 DEF Stages
    <2>3. CASE stage' = [stage EXCEPT ![o] = "ignored"] BY <1>2, <1>3, <2>1, <2>3 DEF Stages
    <2>4. QED BY <1>4, <2>2, <2>3 DEF Fetch
  <1>5. CASE Evaluated(o)
    <2>1. PICK d \in Drafts : stage' = [stage EXCEPT ![o] = d.draft.stage] BY <1>5 DEF Evaluated
    <2>2. stage[o] = "fetched" /\ UNCHANGED <<world, cache, built, answer>> BY <1>5 DEF Evaluated
    <2>3. d.draft.stage \in {"mapping", "balancing", "lines"} BY DraftStages
    <2>4. built[o] = <<>> /\ answer[o] = None BY <1>3, <2>2
    <2>5. CASE d.draft.stage # "lines" BY <1>2, <2>1, <2>2, <2>3, <2>4, <2>5 DEF Stages
    <2>6. CASE d.draft.stage = "lines"
      <3>1. Len(Lines(o)) > 0 /\ Len(built[o]) = 0
        BY <1>1, <2>2, <2>4, LinesOfOrder DEF Right
      <3>2. Right(o, "lines", built[o], None) BY <1>1, <2>4, <3>1 DEF Right, Stages, None
      <3>3. built' = [built EXCEPT ![o] = built[o]] /\ answer' = [answer EXCEPT ![o] = None]
        BY <2>2, <2>4 DEF GuessInv
      <3>4. \A sku \in DOMAIN cache' : cache'[sku] = "found" => sku \in items
        BY <2>2 DEF GuessInv
      <3>5. QED BY <2>1, <2>2, <2>6, <3>2, <3>3, <3>4, OrderMoves
    <2>7. QED BY <2>5, <2>6
  <1>6. CASE ResolveLine(o) BY <1>6, ResolveLineIsRight
  <1>7. CASE Query(o)
    <2> DEFINE known == IF Line(o).ref \in items THEN "found" ELSE "missing"
    <2>1. /\ stage[o] = "query" /\ answer' = [answer EXCEPT ![o] = known]
          /\ UNCHANGED <<world, cache, stage, built>>
      BY <1>7 DEF Query
    <2>2. known = "found" => Lines(o)[Len(built[o]) + 1].ref \in items BY DEF Line
    <2>3. known \in {None, "found", "missing"} OBVIOUS
    <2> HIDE DEF known
    <2>4. Right(o, stage[o], built[o], known) BY <1>1, <2>1, <2>2, <2>3 DEF Right
    <2>5. stage' = [stage EXCEPT ![o] = stage[o]] /\ built' = [built EXCEPT ![o] = built[o]]
      BY <2>1 DEF GuessInv
    <2>6. \A sku \in DOMAIN cache' : cache'[sku] = "found" => sku \in items BY <2>1 DEF GuessInv
    <2>7. QED BY <2>1, <2>4, <2>5, <2>6, OrderMoves
  <1>8. CASE Answered(o) BY <1>8, AnsweredIsRight
  <1>9. CASE Replay(o)
    <2>1. /\ stage[o] \in {"mapping", "balancing", "item_resolution"}
          /\ stage' = [stage EXCEPT ![o] = "due"] /\ UNCHANGED <<world, cache, built, answer>>
      BY <1>9 DEF Replay, Parked
    <2>2. QED BY <1>2, <1>3, <2>1 DEF Stages
  <1>10. QED BY <1>4, <1>5, <1>6, <1>7, <1>8, <1>9 DEF Handling

LEMMA GuessStep == GuessInv /\ [Next]_vars => GuessInv'
  <1> SUFFICES ASSUME GuessInv, [Next]_vars PROVE GuessInv' OBVIOUS
  <1>1. ASSUME UNCHANGED <<shape, connection, cache, stage, built, answer>>, items \subseteq items'
        PROVE  GuessInv'
    <2>1. ASSUME NEW o \in Orders PROVE Right(o, stage[o], built[o], answer[o])'
      <3>1. \A st, lines, known : Right(o, st, lines, known) => Right(o, st, lines, known)'
        BY <1>1, RightKept
      <3>2. stage'[o] = stage[o] /\ built'[o] = built[o] /\ answer'[o] = answer[o] BY <1>1
      <3>3. QED BY <3>1, <3>2 DEF GuessInv
    <2>2. QED BY <1>1, <2>1 DEF GuessInv
  <1>2. CASE \E o \in Orders : Handling(o) \/ Replay(o) BY <1>2, HandlingIsRight
  <1>3. CASE \E sku \in LaterItems : CreateItem(sku) BY <1>1, <1>3 DEF CreateItem
  <1>4. CASE \E row \in LaterRows : RegisterRow(row) BY <1>1, <1>4 DEF RegisterRow
  <1>5. CASE Restart
    <2> DEFINE Busy == {o \in Orders : stage[o] \in {"fetched", "lines", "query"}}
    <2>1. /\ cache' = <<>> /\ UNCHANGED <<shape, connection, items>>
          /\ stage' = [o \in Orders |-> IF o \in Busy THEN "due" ELSE stage[o]]
          /\ built' = [o \in Orders |-> IF o \in Busy THEN <<>> ELSE built[o]]
          /\ answer' = [o \in Orders |-> None]
      BY <1>5 DEF Restart, world
    <2>2. ASSUME NEW o \in Orders PROVE Right(o, stage[o], built[o], answer[o])'
      <3>1. Right(o, stage[o], built[o], answer[o]) BY DEF GuessInv
      <3>2. /\ stage'[o] = IF o \in Busy THEN "due" ELSE stage[o]
            /\ built'[o] = IF o \in Busy THEN <<>> ELSE built[o]
            /\ answer'[o] = None
        BY <2>1
      <3>3. \A st, lines, known : Right(o, st, lines, known) => Right(o, st, lines, known)'
        BY <2>1, RightKept
      <3>4. CASE o \in Busy
        <4>1. <<>> \in Seq({}) /\ DOMAIN <<>> = {} OBVIOUS
        <4>2. Right(o, "due", <<>>, None) BY <4>1 DEF Right, Stages, None
        <4>3. stage'[o] = "due" /\ built'[o] = <<>> /\ answer'[o] = None BY <3>2, <3>4
        <4>4. QED BY <3>3, <4>2, <4>3
      <3>5. CASE o \notin Busy
        <4>1. Right(o, stage[o], built[o], None) BY <3>1, <3>5 DEF Right, None
        <4>2. stage'[o] = stage[o] /\ built'[o] = built[o] /\ answer'[o] = None BY <3>2, <3>5
        <4>3. QED BY <3>3, <4>1, <4>2
      <3>6. QED BY <3>4, <3>5
    <2>3. DOMAIN cache' = {} BY <2>1
    <2>4. /\ stage' = [o \in Orders |-> stage'[o]]
          /\ built' = [o \in Orders |-> built'[o]]
          /\ answer' = [o \in Orders |-> answer'[o]]
      BY <2>1
    <2>5. QED BY <2>1, <2>2, <2>3, <2>4 DEF GuessInv
  <1>6. CASE UNCHANGED vars BY <1>1, <1>6 DEF vars
  <1>7. QED BY <1>2, <1>3, <1>4, <1>5, <1>6 DEF Next

(***************************************************************************)
(* Whatever is cached, asked at the same time, created or restarted        *)
(* meanwhile, no line is booked on a guessed item (resolveSublist,         *)
(* resolveItemId and its itemCache).                                       *)
(***************************************************************************)
THEOREM ItemsAreNeverGuessed == Spec => []NoGuessing
  <1>1. GuessInv => NoGuessing BY DEF GuessInv, Right, Justified, NoGuessing
  <1>2. QED BY <1>1, GuessInit, GuessStep, PTL DEF Spec

-----------------------------------------------------------------------------
(***************************************************************************)
(* What gets past eligibility and mapping.  An order's header is drawn     *)
(* from its draft, which only an eligible order reaches, and the draft of  *)
(* an order whose currency has no row is to park.                          *)
(***************************************************************************)
(* The default map has one mapping of the currency, a required lookup.     *)
LEMMA SevenEntries ==
    ASSUME NEW a, NEW b, NEW c, NEW d, NEW e, NEW f, NEW g
    PROVE  LET seven == <<a, b, c, d, e, f, g>>
           IN  /\ seven \in Seq({a, b, c, d, e, f, g}) /\ Len(seven) = 7
               /\ seven[1] = a /\ seven[2] = b /\ seven[3] = c /\ seven[4] = d
               /\ seven[5] = e /\ seven[6] = f /\ seven[7] = g
  OBVIOUS

LEMMA CurrencyEntry ==
    ASSUME ExtrasKeepCurrency, NEW c \in Connections
    PROVE  LET mappings == HeaderMap(c)
           IN  /\ 5 \in DOMAIN mappings
               /\ mappings[5] = Mapping("lookup", "currencyCode", "currency", None, TRUE)
               /\ \A i \in DOMAIN mappings : i # 5 => mappings[i].to # "currency"
  <1> DEFINE m1 == Mapping("constant", None, "subsidiary", c.subsidiary, FALSE)
             m2 == Mapping("constant", None, "orderStatus", "B", FALSE)
             m3 == Mapping("direct", "name", "tranId", None, FALSE)
             m4 == Mapping("direct", "id", "externalId", None, FALSE)
             m5 == Mapping("lookup", "currencyCode", "currency", None, TRUE)
             m6 == Mapping("lookup", "gateway", "paymentMethod", None, FALSE)
             m7 == Mapping("lookup", "shippingTitle", "shipMethod", None, FALSE)
             seven == <<m1, m2, m3, m4, m5, m6, m7>>
             T == {m1, m2, m3, m4, m5, m6, m7}
             mappings == HeaderMap(c)
  <1> DEFINE S == {c.extras[i] : i \in DOMAIN c.extras}
  <1>1. c.extras \in Seq(S) /\ \A i \in DOMAIN c.extras : c.extras[i].to # "currency"
    BY DEF ExtrasKeepCurrency
  <1> HIDE DEF S
  <1>2. mappings = seven \o c.extras BY DEF HeaderMap
  <1>3. \A m \in T \ {m5} : m.to # "currency" BY DEF Mapping
  <1>4. m1 # m5 /\ m2 # m5 /\ m3 # m5 /\ m4 # m5 /\ m6 # m5 /\ m7 # m5 BY DEF Mapping
  <1> DEFINE others == c.extras
  <1> HIDE DEF m1, m2, m3, m4, m5, m6, m7, mappings, others
  <1>5. /\ seven \in Seq(T) /\ Len(seven) = 7
        /\ seven[1] = m1 /\ seven[2] = m2 /\ seven[3] = m3 /\ seven[4] = m4
        /\ seven[5] = m5 /\ seven[6] = m6 /\ seven[7] = m7
    BY SevenEntries
  <1> HIDE DEF seven
  <1>6. seven \in Seq(T \cup S) /\ others \in Seq(T \cup S) BY <1>1, <1>5 DEF others
  <1>7. /\ mappings \in Seq(T \cup S) /\ Len(mappings) = 7 + Len(others)
        /\ \A i \in 1..7 + Len(others) :
              mappings[i] = IF i <= 7 THEN seven[i] ELSE others[i - 7]
    <2>1. mappings = seven \o others BY <1>2 DEF others
    <2>2. /\ seven \o others \in Seq(T \cup S) /\ Len(seven \o others) = Len(seven) + Len(others)
          /\ \A i \in 1..Len(seven) + Len(others) :
                (seven \o others)[i] = IF i <= Len(seven) THEN seven[i] ELSE others[i - Len(seven)]
      BY <1>6, ConcatProperties
    <2>3. QED BY <1>5, <2>1, <2>2
  <1>8. /\ DOMAIN mappings = 1..7 + Len(others) /\ DOMAIN others = 1..Len(others)
        /\ Len(others) \in Nat
    BY <1>6, <1>7, LenProperties
  <1>9. 5 \in DOMAIN mappings /\ mappings[5] = m5 BY <1>5, <1>7, <1>8
  <1>10. ASSUME NEW i \in DOMAIN mappings, i # 5 PROVE mappings[i].to # "currency"
    <2>1. CASE i <= 7
      <3>1. i \in {1, 2, 3, 4, 6, 7} /\ mappings[i] = seven[i] BY <1>7, <1>8, <1>10, <2>1
      <3>2. seven[i] \in T \ {m5} BY <1>4, <1>5, <3>1 DEF T
      <3>3. QED BY <1>3, <3>1, <3>2
    <2>2. CASE i > 7
      <3>1. mappings[i] = others[i - 7] /\ i - 7 \in DOMAIN others BY <1>7, <1>8, <2>2
      <3>2. QED BY <1>1, <3>1 DEF others
    <2>3. QED BY <1>8, <2>1, <2>2
  <1>11. QED BY <1>9, <1>10 DEF mappings, m5

(* An evaluated header has the order's own currency, which has a row.      *)
LEMMA MappedCurrency ==
    ASSUME ExtrasKeepCurrency, NEW c \in Connections, NEW s \in AllShapes, NEW r,
           Header(c, OrderOf[s], r) # Park
    PROVE  /\ Header(c, OrderOf[s], r).currency = s.fields.currencyCode
           /\ <<"currency", s.fields.currencyCode>> \in r
  <1> DEFINE order == OrderOf[s]
             code == s.fields.currencyCode
             mappings == HeaderMap(c)
             fields == Evaluate(order, mappings, r)
             active == {i \in DOMAIN mappings : Applies(order, mappings[i])}
  <1>1. GetPath(order, "currencyCode") = code
    <2>1. s \in ShopifyOrder BY ItemResolutionAssumption
    <2>2. order = Fetched(s) BY DEF OrderOf
    <2>3. order.fields = s.fields BY <2>1, <2>2 DEF Fetched, ShopifyOrder
    <2>4. "currencyCode" \in DOMAIN s.fields BY <2>1 DEF ShopifyOrder
    <2>5. QED BY <2>3, <2>4 DEF GetPath
  <1>2. /\ 5 \in DOMAIN mappings
        /\ mappings[5] = Mapping("lookup", "currencyCode", "currency", None, TRUE)
        /\ \A i \in DOMAIN mappings : i # 5 => mappings[i].to # "currency"
    BY CurrencyEntry
  <1>3. /\ mappings[5].kind = "lookup" /\ mappings[5].from = "currencyCode"
        /\ mappings[5].to = "currency" /\ mappings[5].required /\ mappings[5].when = <<>>
    BY <1>2 DEF Mapping
  <1>4. fields # Park /\ Header(c, order, r) = SetPath(fields, "discountRate", -order.discount)
    BY DEF Header
  <1> HIDE DEF order, mappings
  <1>5. 5 \in active BY <1>2, <1>3 DEF Applies
  <1>6. \A i \in active : Required(mappings[i]) => Hit(order, mappings[i], r)
    BY <1>4 DEF Evaluate
  <1>7. Hit(order, mappings[5], r) BY <1>3, <1>5, <1>6 DEF Required
  <1>8. <<"currency", code>> \in r BY <1>1, <1>3, <1>7 DEF Hit
  <1> DEFINE named == {mappings[i].to : i \in active}
             last(f) == Max({i \in active : mappings[i].to = f})
  <1>9. fields = [f \in named |-> Value(order, mappings[last(f)], r)]
    BY <1>6 DEF Evaluate
  <1>10. last("currency") = 5
    <2>1. {i \in active : mappings[i].to = "currency"} = {5} BY <1>2, <1>3, <1>5
    <2>2. Max({5}) = 5 BY DEF Max
    <2>3. QED BY <2>1, <2>2
  <1>11. "currency" \in named BY <1>3, <1>5
  <1>12. Value(order, mappings[5], r) = code BY <1>1, <1>3, <1>7 DEF Value
  <1> HIDE DEF named, last, active, fields
  <1>13. fields["currency"] = code /\ "currency" \in DOMAIN fields
    BY <1>9, <1>10, <1>11, <1>12
  <1>14. SetPath(fields, "discountRate", -order.discount)["currency"] = code
    BY <1>13 DEF SetPath
  <1>15. QED BY <1>4, <1>8, <1>14 DEF order

Accepted(o) ==
    /\ shape[o].status \in {"PAID", "AUTHORIZED", "PARTIALLY_PAID"}
    /\ ~shape[o].test /\ shape[o].risk \in {None, "ACCEPT"}

(* A status Shopify does not define counts as pending, so it is the order's *)
(* own status that was eligible.                                           *)
LEMMA EligibleIsAccepted ==
    ASSUME GuessInv, NEW o \in Orders, Eligible(Order(o))
    PROVE  Accepted(o)
  <1>1. shape[o] \in ShopifyOrder /\ Order(o) = Fetched(shape[o])
    BY ItemResolutionAssumption DEF GuessInv, Order, OrderOf
  <1>2. /\ Order(o).status = mapFinancialStatus(shape[o].status)
        /\ Order(o).test = shape[o].test /\ Order(o).risk = shape[o].risk
    BY <1>1 DEF Fetched, ShopifyOrder
  <1>3. QED BY <1>2 DEF Eligible, isFraudHeld, mapFinancialStatus, Accepted

(* What an order's header says, whatever becomes of the order: its shape   *)
(* never changes and rows are only added.                                  *)
CurrencyInv ==
    \A o \in Orders : header[o] # NoHeader =>
        /\ header[o].currency = shape[o].fields.currencyCode
        /\ <<"currency", header[o].currency>> \in rows

EligibleInv ==
    /\ GuessInv
    /\ header = [o \in Orders |-> header[o]]
    /\ \A o \in Orders : header[o] # NoHeader => Accepted(o)

(* Where a step leaves the headers: as they are, dropped, or drawn anew    *)
(* for one order that was found eligible.                                  *)
Drawn(o) ==
    /\ stage[o] = "fetched" /\ UNCHANGED world
    /\ \E d \in Drafts :
         /\ d.from = <<connection, shape[o], rows>>
         /\ header' = [header EXCEPT ![o] = d.draft.header]

LEMMA HeadersMove ==
    ASSUME EligibleInv, [Next]_vars
    PROVE  /\ UNCHANGED shape /\ rows \subseteq rows'
           /\ \/ \E o \in Orders : Drawn(o)
              \/ /\ header' = [o \in Orders |-> header'[o]]
                 /\ \A o \in Orders : header'[o] \in {header[o], NoHeader}
  <1> DEFINE Kept == /\ header' = [o \in Orders |-> header'[o]]
                     /\ \A o \in Orders : header'[o] \in {header[o], NoHeader}
  <1>1. header' = header => Kept BY DEF EligibleInv
  <1>2. ASSUME NEW o \in Orders, header' = [header EXCEPT ![o] = NoHeader] PROVE Kept
    BY <1>2 DEF EligibleInv
  <1> HIDE DEF Kept
  <1>3. ASSUME NEW o \in Orders, NEW found, Resolved(o, found) PROVE Kept
    BY <1>1, <1>2, <1>3 DEF Resolved, Push, ParkAt
  <1>4. CASE \E o \in Orders : Handling(o) \/ Replay(o)
    <2>1. PICK o \in Orders : Handling(o) \/ Replay(o) BY <1>4
    <2>2. CASE Evaluated(o)
      <3>1. Drawn(o) BY <2>2 DEF Evaluated, Drawn
      <3>2. QED BY <3>1 DEF Drawn, world
    <2>3. CASE Fetch(o) \/ Query(o) \/ Replay(o)
      BY <1>1, <2>3 DEF Fetch, Query, Replay, world, Kept
    <2>4. CASE ResolveLine(o)
      <3>1. UNCHANGED world BY <2>4 DEF ResolveLine
      <3>2. Kept BY <1>1, <1>3, <2>4 DEF ResolveLine, Push
      <3>3. QED BY <3>1, <3>2 DEF Kept, world
    <2>5. CASE Answered(o)
      <3>1. UNCHANGED world /\ Kept BY <1>3, <2>5 DEF Answered
      <3>2. QED BY <3>1 DEF Kept, world
    <2>6. QED BY <2>1, <2>2, <2>3, <2>4, <2>5 DEF Handling
  <1>5. CASE \E sku \in LaterItems : CreateItem(sku) BY <1>1, <1>5 DEF CreateItem, Kept
  <1>6. CASE \E row \in LaterRows : RegisterRow(row) BY <1>1, <1>6 DEF RegisterRow, Kept
  <1>7. CASE Restart
    <2>1. /\ \E B : header' = [o \in Orders |-> IF o \in B THEN NoHeader ELSE header[o]]
          /\ UNCHANGED world
      <3> DEFINE Busy == {o \in Orders : stage[o] \in {"fetched", "lines", "query"}}
      <3>1. /\ header' = [o \in Orders |-> IF o \in Busy THEN NoHeader ELSE header[o]]
            /\ UNCHANGED world
        BY <1>7 DEF Restart
      <3>2. QED BY <3>1
    <2>2. Kept BY <2>1 DEF Kept
    <2>3. QED BY <2>1, <2>2 DEF Kept, world
  <1>8. CASE UNCHANGED vars BY <1>1, <1>8 DEF vars, Kept
  <1>9. QED BY <1>4, <1>5, <1>6, <1>7, <1>8 DEF Next

(* The header of a draft is that of the evaluated mappings, or none.       *)
LEMMA DrawnHeader ==
    ASSUME EligibleInv, NEW o \in Orders, Drawn(o), header'[o] # NoHeader
    PROVE  LET draft == Header(connection, Order(o), rows)
           IN  /\ draft # Park
               /\ header'[o] = [currency |-> draft.currency, discountRate |-> draft.discountRate,
                                tax |-> TaxOf(connection, Order(o))]
  <1>1. PICK d \in Drafts : /\ d.from = <<connection, shape[o], rows>>
                            /\ header' = [header EXCEPT ![o] = d.draft.header]
    BY DEF Drawn
  <1>2. PICK c \in Connections, s \in AllShapes, r \in SUBSET (InitialRows \cup LaterRows) :
           d = [from |-> <<c, s, r>>, draft |-> Draft(c, OrderOf[s], r)]
    BY DEF Drafts
  <1>3. c = connection /\ s = shape[o] /\ r = rows BY <1>1, <1>2
  <1>4. header'[o] = Draft(connection, Order(o), rows).header
    BY <1>1, <1>2, <1>3 DEF EligibleInv, Order
  <1> DEFINE draft == Header(connection, Order(o), rows)
  <1>5. CASE draft = Park BY <1>4, <1>5 DEF Draft, NoHeader
  <1>6. CASE draft # Park /\ Unbalanced(Order(o)) BY <1>4, <1>6 DEF Draft, NoHeader
  <1>7. CASE draft # Park /\ ~Unbalanced(Order(o)) BY <1>4, <1>7 DEF Draft
  <1>8. QED BY <1>5, <1>6, <1>7

LEMMA EligibleInit == Init => EligibleInv
  BY GuessInit DEF Init, EligibleInv

LEMMA EligibleStep == EligibleInv /\ [Next]_vars => EligibleInv'
  <1> SUFFICES ASSUME EligibleInv, [Next]_vars PROVE EligibleInv' OBVIOUS
  <1>1. GuessInv' BY GuessStep DEF EligibleInv
  <1>2. \A o \in Orders : Accepted(o)' <=> Accepted(o) BY HeadersMove DEF Accepted
  <1>3. CASE \E o \in Orders : Drawn(o)
    <2>1. PICK o \in Orders : Drawn(o) BY <1>3
    <2>2. Accepted(o) BY <2>1, EligibleIsAccepted DEF EligibleInv, GuessInv, Right, Drawn
    <2>3. header' = [p \in Orders |-> header'[p]] BY <2>1 DEF Drawn, EligibleInv
    <2>4. \A p \in Orders : p # o => header'[p] = header[p] BY <2>1 DEF Drawn, EligibleInv
    <2>5. QED BY <1>1, <1>2, <2>2, <2>3, <2>4 DEF EligibleInv
  <1>4. CASE /\ header' = [o \in Orders |-> header'[o]]
             /\ \A o \in Orders : header'[o] \in {header[o], NoHeader}
    BY <1>1, <1>2, <1>4 DEF EligibleInv, NoHeader
  <1>5. QED BY <1>3, <1>4, HeadersMove

LEMMA CurrencyStep ==
    ASSUME ExtrasKeepCurrency
    PROVE  EligibleInv /\ CurrencyInv /\ [Next]_vars => CurrencyInv'
  <1> SUFFICES ASSUME EligibleInv, CurrencyInv, [Next]_vars, NEW o \in Orders, header'[o] # NoHeader
               PROVE  /\ header'[o].currency = shape'[o].fields.currencyCode
                      /\ <<"currency", header'[o].currency>> \in rows'
    BY DEF CurrencyInv, NoHeader
  <1>1. shape' = shape /\ rows \subseteq rows' BY HeadersMove
  <1>2. CASE header'[o] = header[o] BY <1>1, <1>2 DEF CurrencyInv
  <1>3. CASE Drawn(o)
    <2> DEFINE draft == Header(connection, Order(o), rows)
               new == [currency |-> draft.currency, discountRate |-> draft.discountRate,
                       tax |-> TaxOf(connection, Order(o))]
    <2>1. draft # Park /\ header'[o] = new BY <1>3, DrawnHeader
    <2>2. header'[o].currency = draft.currency BY <2>1
    <2>3. Order(o) = OrderOf[shape[o]] BY DEF Order
    <2>4. connection \in Connections /\ shape[o] \in AllShapes BY DEF EligibleInv, GuessInv
    <2>5. /\ draft.currency = shape[o].fields.currencyCode
          /\ <<"currency", shape[o].fields.currencyCode>> \in rows
      BY <2>1, <2>3, <2>4, MappedCurrency
    <2>6. QED BY <1>1, <2>2, <2>5
  <1>4. ASSUME NEW p \in Orders, Drawn(p), p # o PROVE header'[o] = header[o]
    BY <1>4 DEF Drawn, EligibleInv
  <1>5. QED BY <1>2, <1>3, <1>4, HeadersMove

(***************************************************************************)
(* Whatever connections map, only orders that Shopify itself calls paid,   *)
(* authorized or partly paid, real and not held for fraud get a header     *)
(* (checkEligibility, mapFinancialStatus).                                 *)
(***************************************************************************)
THEOREM OnlyEligibleOrders ==
    Spec => [](\A o \in Orders : header[o] # NoHeader => Accepted(o))
  <1>1. EligibleInv => \A o \in Orders : header[o] # NoHeader => Accepted(o)
    BY DEF EligibleInv
  <1>2. QED BY <1>1, EligibleInit, EligibleStep, PTL DEF Spec

(***************************************************************************)
(* And where no mapping of a connection's own sets the currency, they book *)
(* on the row of their own (buildDefaultOrderHeaderMap, applyLookup).      *)
(***************************************************************************)
THEOREM NothingUnfit ==
    ASSUME ExtrasKeepCurrency
    PROVE  Spec => []NothingUnfitIsBuilt
  <1>1. EligibleInv /\ CurrencyInv => NothingUnfitIsBuilt
    BY DEF EligibleInv, CurrencyInv, NothingUnfitIsBuilt, Accepted
  <1>2. Init => CurrencyInv BY DEF Init, CurrencyInv
  <1>3. EligibleInv /\ CurrencyInv /\ [Next]_vars => CurrencyInv' BY CurrencyStep
  <1>4. QED BY <1>1, <1>2, <1>3, EligibleInit, EligibleStep, PTL DEF Spec

-----------------------------------------------------------------------------
(***************************************************************************)
(* What Total computes.                                                    *)
(***************************************************************************)
(* Induction on the naturals: the least one outside would have no          *)
(* predecessor.                                                            *)
LEMMA AllNaturals ==
    ASSUME NEW P \in SUBSET Nat, 0 \in P, \A n \in P : n + 1 \in P
    PROVE  P = Nat
  <1> DEFINE Less == {pair \in Nat \X Nat : pair[1] < pair[2]}
             Outside == Nat \ P
  <1> SUFFICES ASSUME Outside # {} PROVE FALSE OBVIOUS
  <1>1. IsWellFoundedOn(Less, Nat) BY NatLessThanWellFounded DEF OpToRel
  <1>2. PICK n \in Outside : \A m \in Outside : <<m, n>> \notin Less
    <2> HIDE DEF Less
    <2> QED BY <1>1, WFMin
  <1>3. n \in Nat /\ n # 0 /\ n - 1 \in Nat OBVIOUS
  <1>4. n - 1 \in P
    <2>1. <<n - 1, n>> \in Less BY <1>3
    <2>2. QED BY <1>2, <1>3, <2>1
  <1>5. (n - 1) + 1 \in P BY <1>4
  <1>6. QED BY <1>3, <1>5

(* The sums of the prefixes of a list.                                     *)
Sums(amounts, n, f) ==
    f[0] = 0 /\ \A i \in 1..n : f[i] = f[i - 1] + amounts[i]

LEMMA SumsExist ==
    ASSUME NEW amounts \in Seq(Int)
    PROVE  \E f \in [0..Len(amounts) -> Int] : Sums(amounts, Len(amounts), f)
  <1> DEFINE P == {n \in Nat : n <= Len(amounts) => \E f \in [0..n -> Int] : Sums(amounts, n, f)}
  <1>1. Len(amounts) \in Nat /\ \A i \in 1..Len(amounts) : amounts[i] \in Int
    BY LenProperties
  <1>2. 0 \in P
    <2>1. [i \in 0..0 |-> 0] \in [0..0 -> Int] /\ Sums(amounts, 0, [i \in 0..0 |-> 0]) BY DEF Sums
    <2>2. QED BY <2>1
  <1>3. ASSUME NEW n \in P PROVE n + 1 \in P
    <2> SUFFICES ASSUME n + 1 <= Len(amounts)
                 PROVE  \E f \in [0..n + 1 -> Int] : Sums(amounts, n + 1, f)
      OBVIOUS
    <2>1. n \in Nat /\ n <= Len(amounts) BY <1>1
    <2>2. PICK f \in [0..n -> Int] : Sums(amounts, n, f) BY <2>1
    <2> DEFINE g == [i \in 0..n + 1 |-> IF i <= n THEN f[i] ELSE f[n] + amounts[n + 1]]
    <2>3. amounts[n + 1] \in Int BY <1>1, <2>1
    <2>4. g \in [0..n + 1 -> Int] BY <2>1, <2>3
    <2>5. Sums(amounts, n + 1, g)
      <3>1. g[0] = 0 BY <2>1, <2>2 DEF Sums
      <3>2. ASSUME NEW i \in 1..n + 1 PROVE g[i] = g[i - 1] + amounts[i]
        <4>1. CASE i <= n
          <5>1. i \in 1..n /\ g[i] = f[i] /\ g[i - 1] = f[i - 1] BY <2>1, <4>1
          <5>2. QED BY <2>2, <5>1 DEF Sums
        <4>2. CASE i = n + 1 BY <2>1, <4>2
        <4>3. QED BY <2>1, <4>1, <4>2
      <3> HIDE DEF g
      <3>3. QED BY <3>1, <3>2 DEF Sums
    <2>6. QED BY <2>4, <2>5
  <1>4. P = Nat
    <2> HIDE DEF P
    <2>1. P \in SUBSET Nat BY DEF P
    <2>2. QED BY <1>2, <1>3, <2>1, AllNaturals
  <1>5. QED BY <1>1, <1>4

(* It is the last of them, whichever way they are given.                   *)
LEMMA TotalIs ==
    ASSUME NEW amounts \in Seq(Int), NEW f \in [0..Len(amounts) -> Int],
           Sums(amounts, Len(amounts), f)
    PROVE  Total(amounts) = f[Len(amounts)]
  <1> DEFINE n == Len(amounts)
             Rule(g) == g = [i \in 0..n |-> IF i = 0 THEN 0 ELSE g[i - 1] + amounts[i]]
             g == CHOOSE g : Rule(g)
             P == {k \in Nat : k <= n => g[k] = f[k]}
  <1>1. n \in Nat BY LenProperties
  <1>2. Rule(f)
    <2> DEFINE h == [i \in 0..n |-> IF i = 0 THEN 0 ELSE f[i - 1] + amounts[i]]
    <2>1. ASSUME NEW i \in 0..n PROVE f[i] = h[i]
      BY <1>1 DEF Sums
    <2>2. f = [i \in 0..n |-> f[i]] /\ h = [i \in 0..n |-> h[i]] BY <1>1
    <2> HIDE DEF h
    <2>3. f = h BY <2>1, <2>2
    <2>4. QED BY <2>3 DEF h
  <1>3. Rule(g)
    <2> HIDE DEF Rule
    <2>1. QED BY <1>2
  <1>4. Total(amounts) = g[n] BY DEF Total
  <1> HIDE DEF g
  <1>5. 0 \in P BY <1>1, <1>3 DEF Sums
  <1>6. ASSUME NEW k \in P PROVE k + 1 \in P
    <2> SUFFICES ASSUME k + 1 <= n PROVE g[k + 1] = f[k + 1] OBVIOUS
    <2>1. k \in Nat /\ k + 1 \in 1..n /\ g[k] = f[k] /\ (k + 1) - 1 = k BY <1>1
    <2>2. g[k + 1] = g[k] + amounts[k + 1] BY <1>1, <1>3, <2>1
    <2>3. f[k + 1] = f[k] + amounts[k + 1] BY <2>1 DEF Sums
    <2>4. QED BY <2>1, <2>2, <2>3
  <1>7. P = Nat
    <2>1. P \in SUBSET Nat OBVIOUS
    <2> HIDE DEF P
    <2>2. QED BY <1>5, <1>6, <2>1, AllNaturals
  <1>8. QED BY <1>1, <1>4, <1>7

LEMMA Associates ==
    ASSUME NEW x \in Int, NEW y \in Int, NEW z \in Int
    PROVE  x + (y + z) = (x + y) + z
  OBVIOUS

(* Lists one after the other come to the sum of what they come to.         *)
LEMMA TotalOfBoth ==
    ASSUME NEW s \in Seq(Int), NEW t \in Seq(Int)
    PROVE  Total(s) \in Int /\ Total(t) \in Int /\ Total(s \o t) = Total(s) + Total(t)
  <1> DEFINE m == Len(s)
             n == Len(t)
  <1>1. m \in Nat /\ n \in Nat BY LenProperties
  <1>2. PICK f \in [0..Len(s) -> Int] : Sums(s, Len(s), f) BY SumsExist
  <1>3. PICK g \in [0..Len(t) -> Int] : Sums(t, Len(t), g) BY SumsExist
  <1>4. Total(s) = f[m] /\ Total(t) = g[n] BY <1>2, <1>3, TotalIs
  <1>5. /\ s \o t \in Seq(Int) /\ Len(s \o t) = m + n
        /\ \A i \in 1..m + n : (s \o t)[i] = IF i <= m THEN s[i] ELSE t[i - m]
    BY ConcatProperties
  <1> DEFINE both == s \o t
             h == [i \in 0..m + n |-> IF i <= m THEN f[i] ELSE f[m] + g[i - m]]
  <1> HIDE DEF m, n
  <1>6. f \in [0..m -> Int] /\ g \in [0..n -> Int] /\ Sums(s, m, f) /\ Sums(t, n, g)
    BY <1>2, <1>3 DEF m, n
  <1>7. h \in [0..m + n -> Int] BY <1>1, <1>6
  <1>8. Sums(both, m + n, h)
    <2>1. h[0] = 0 BY <1>1, <1>6 DEF Sums
    <2>2. ASSUME NEW i \in 1..m + n PROVE h[i] = h[i - 1] + both[i]
      <3>1. CASE i <= m
        <4>1. i \in 1..m /\ i \in 0..m + n /\ i - 1 \in 0..m + n /\ i - 1 <= m
          BY <1>1, <3>1
        <4>2. both[i] = s[i] BY <1>5, <3>1
        <4>3. h[i] = f[i] /\ h[i - 1] = f[i - 1] BY <3>1, <4>1
        <4> HIDE DEF h, both
        <4>4. QED BY <1>6, <4>1, <4>2, <4>3 DEF Sums
      <3>2. CASE i > m
        <4> DEFINE j == i - m
        <4>1. /\ i \in Int /\ i \in 0..m + n /\ i - 1 \in 0..m + n /\ ~(i <= m)
              /\ j \in 1..n /\ (i - 1) - m = j - 1 /\ (i - 1 <= m <=> j = 1)
              /\ (j = 1 => i - 1 = m)
          BY <1>1, <3>2
        <4>2. /\ j \in 1..n /\ h[i] = f[m] + g[j] /\ both[i] = t[j]
              /\ h[i - 1] = IF j = 1 THEN f[m] ELSE f[m] + g[j - 1]
          <5>1. both[i] = t[j] BY <1>5, <4>1
          <5>2. h[i] = f[m] + g[j] BY <4>1
          <5>3. h[i - 1] = IF i - 1 <= m THEN f[i - 1] ELSE f[m] + g[(i - 1) - m] BY <4>1
          <5> HIDE DEF h, j
          <5>4. QED BY <4>1, <5>1, <5>2, <5>3
        <4>3. g[j] = g[j - 1] + t[j] /\ g[0] = 0 BY <1>6, <4>2 DEF Sums
        <4>4. g[j] \in Int /\ g[j - 1] \in Int /\ f[m] \in Int /\ t[j] \in Int
          <5>1. j \in 0..n /\ j - 1 \in 0..n /\ m \in 0..m BY <1>1, <4>1
          <5>2. t[j] \in Int BY <4>1, ElementOfSeq DEF n
          <5> HIDE DEF j
          <5>3. QED BY <1>6, <5>1, <5>2
        <4> HIDE DEF j, h, both
        <4>5. h[i - 1] = f[m] + g[j - 1] BY <4>2, <4>3, <4>4
        <4>6. f[m] + (g[j - 1] + t[j]) = (f[m] + g[j - 1]) + t[j] BY <4>4, Associates
        <4>7. QED BY <4>2, <4>3, <4>5, <4>6
      <3> HIDE DEF h, both
      <3>3. i <= m \/ i > m BY <1>1
      <3>4. QED BY <3>1, <3>2, <3>3
    <2> HIDE DEF h, both
    <2>3. QED BY <2>1, <2>2 DEF Sums
  <1>9. h[m + n] = f[m] + g[n]
    <2>1. n = 0 => g[n] = 0 BY <1>6 DEF Sums
    <2>2. f[m] \in Int BY <1>1, <1>6
    <2>3. QED BY <1>1, <2>1, <2>2
  <1>10. Total(both) = h[m + n]
    <2> HIDE DEF h
    <2>1. QED BY <1>5, <1>7, <1>8, TotalIs
  <1>11. f[m] \in Int /\ g[n] \in Int BY <1>1, <1>6
  <1>12. QED BY <1>4, <1>9, <1>10, <1>11

LEMMA TotalOfNone == Total(<<>>) = 0
  <1> DEFINE f == [i \in 0..0 |-> 0]
  <1>1. <<>> \in Seq(Int) /\ Len(<<>>) = 0 /\ f \in [0..0 -> Int] /\ f[0] = 0 OBVIOUS
  <1> HIDE DEF f
  <1>2. Sums(<<>>, 0, f) BY <1>1 DEF Sums
  <1>3. QED BY <1>1, <1>2, TotalIs

LEMMA TotalOfOne == ASSUME NEW x \in Int PROVE Total(<<x>>) = x
  <1> DEFINE f == [i \in 0..1 |-> IF i = 0 THEN 0 ELSE x]
  <1>1. <<x>> \in Seq(Int) /\ Len(<<x>>) = 1 /\ <<x>>[1] = x OBVIOUS
  <1>2. f \in [0..1 -> Int] /\ f[0] = 0 /\ f[1] = x OBVIOUS
  <1> HIDE DEF f
  <1>3. Sums(<<x>>, 1, f) BY <1>1, <1>2 DEF Sums
  <1>4. QED BY <1>1, <1>2, <1>3, TotalIs

(* The amounts of lines.                                                   *)
Amounts(lines) == [i \in DOMAIN lines |-> lines[i].amount]

LEMMA AmountsType ==
    ASSUME NEW S, NEW lines \in Seq(S), \A l \in S : l.amount \in Int
    PROVE  Amounts(lines) \in Seq(Int) /\ Len(Amounts(lines)) = Len(lines)
  <1>1. DOMAIN lines = 1..Len(lines) /\ Len(lines) \in Nat /\ \A i \in 1..Len(lines) : lines[i] \in S
    BY LenProperties, ElementOfSeq
  <1>2. Amounts(lines) \in [1..Len(lines) -> Int] BY <1>1 DEF Amounts
  <1> DEFINE amounts == Amounts(lines)
             n == Len(lines)
  <1> HIDE DEF amounts
  <1>3. amounts \in [1..n -> Int] /\ n \in Nat BY <1>1, <1>2 DEF amounts
  <1> HIDE DEF n
  <1>4. amounts \in Seq(Int) /\ Len(amounts) = n BY <1>3
  <1>5. QED BY <1>4 DEF amounts, n

LEMMA AmountsOfBoth ==
    ASSUME NEW S, NEW s \in Seq(S), NEW t \in Seq(S), \A l \in S : l.amount \in Int
    PROVE  Total(Amounts(s \o t)) = Total(Amounts(s)) + Total(Amounts(t))
  <1> DEFINE a == Amounts(s)
             b == Amounts(t)
             ab == Amounts(s \o t)
             m == Len(s)
             n == Len(t)
  <1>1. /\ s \o t \in Seq(S) /\ Len(s \o t) = m + n
        /\ \A i \in 1..m + n : (s \o t)[i] = IF i <= m THEN s[i] ELSE t[i - m]
    BY ConcatProperties
  <1>2. m \in Nat /\ n \in Nat /\ DOMAIN s = 1..m /\ DOMAIN t = 1..n /\ DOMAIN (s \o t) = 1..m + n
    BY <1>1, LenProperties
  <1>3. /\ a \in Seq(Int) /\ Len(a) = m /\ b \in Seq(Int) /\ Len(b) = n
        /\ ab \in Seq(Int) /\ Len(ab) = m + n
    BY <1>1, AmountsType
  <1>4. /\ \A i \in 1..m : a[i] = s[i].amount
        /\ \A i \in 1..n : b[i] = t[i].amount
        /\ \A i \in 1..m + n : ab[i] = (s \o t)[i].amount
    BY <1>2 DEF Amounts
  <1> HIDE DEF a, b, ab
  <1>5. /\ a \o b \in Seq(Int) /\ Len(a \o b) = m + n
        /\ \A i \in 1..m + n : (a \o b)[i] = IF i <= m THEN a[i] ELSE b[i - m]
    BY <1>3, ConcatProperties
  <1> HIDE DEF m, n
  <1>6. ASSUME NEW i \in 1..m + n PROVE ab[i] = (a \o b)[i]
    <2>1. CASE i <= m
      <3>1. i \in 1..m BY <1>2, <2>1
      <3>2. QED BY <1>1, <1>4, <1>5, <2>1, <3>1
    <2>2. CASE i > m
      <3>1. i - m \in 1..n /\ ~(i <= m) BY <1>2, <2>2
      <3>2. QED BY <1>1, <1>4, <1>5, <3>1
    <2>3. i <= m \/ i > m BY <1>2
    <2>4. QED BY <2>1, <2>2, <2>3
  <1>7. ab = a \o b BY <1>3, <1>5, <1>6, SeqEqual
  <1>8. Total(ab) = Total(a) + Total(b) BY <1>3, <1>7, TotalOfBoth
  <1>9. QED BY <1>8 DEF a, b, ab

-----------------------------------------------------------------------------
(***************************************************************************)
(* The lines of an order, with the tax and the discount on its header,     *)
(* come to what Shopify states: the balancing line is what was missing.    *)
(***************************************************************************)
LEMMA FetchedAmounts ==
    ASSUME NEW s \in AllShapes
    PROVE  LET order == OrderOf[s]
           IN  /\ order.lines \in Seq([sku : STRING, amount : Int])
               /\ order.shipping \in Seq(Int)
               /\ order.lines = FirstOf(s.lines, MaxLines)
               /\ order.shipping = FirstOf(s.shipping, MaxShipping)
               /\ order.tax = s.tax /\ order.discount = s.discount /\ order.total = s.total
               /\ s.tax \in Int /\ s.discount \in Int /\ s.total \in Int
               /\ s.lines \in Seq([sku : STRING, amount : Int]) /\ s.shipping \in Seq(Int)
  <1>1. s \in ShopifyOrder BY ItemResolutionAssumption
  <1>2. OrderOf[s] = Fetched(s) BY DEF OrderOf
  <1>3. /\ Fetched(s).lines \in Seq([sku : STRING, amount : Int])
        /\ Fetched(s).shipping \in Seq(Int)
    BY <1>1, FetchedType
  <1>4. /\ Fetched(s).lines = FirstOf(s.lines, MaxLines)
        /\ Fetched(s).shipping = FirstOf(s.shipping, MaxShipping)
        /\ Fetched(s).tax = s.tax /\ Fetched(s).discount = s.discount /\ Fetched(s).total = s.total
    BY <1>1 DEF Fetched, ShopifyOrder
  <1>5. /\ s.tax \in Int /\ s.discount \in Int /\ s.total \in Int
        /\ s.lines \in Seq([sku : STRING, amount : Int]) /\ s.shipping \in Seq(Int)
    BY <1>1 DEF ShopifyOrder
  <1>6. QED BY <1>2, <1>3, <1>4, <1>5

LEMMA Balances ==
    ASSUME NEW x \in Int, NEW y \in Int, NEW tax \in Int, NEW discount \in Int, NEW total \in Int,
           NEW missing \in Int, missing = total - (x + y + tax - discount)
    PROVE  x + missing + y \in Int /\ x + missing + y + tax - discount = total
  OBVIOUS

LEMMA LinesReconcile ==
    ASSUME NEW c \in Connections, NEW s \in AllShapes
    PROVE  /\ DOMAIN LinesOf[c][s] = 1..Len(LinesOf[c][s])
           /\ Total(Amounts(LinesOf[c][s])) \in Int
           /\ Total(Amounts(LinesOf[c][s])) + s.tax - s.discount = s.total
  <1> DEFINE order == OrderOf[s]
             itemLines == ItemLines(order)
             missing == Difference(order)
             balancing == IF missing = 0 THEN <<>> ELSE << Ref(VarianceId, FALSE, missing) >>
             shipping == ShippingLines(c, order)
             balanced == BalancedLines(order)
             lines == LinesOf[c][s]
             bought == Amounts(order.lines)
             Priced == {l \in {itemLines[i] : i \in DOMAIN itemLines}
                              \cup {Ref(VarianceId, FALSE, missing)}
                              \cup {shipping[i] : i \in DOMAIN shipping} : l.amount \in Int}
  <1>1. /\ order.lines \in Seq([sku : STRING, amount : Int]) /\ order.shipping \in Seq(Int)
        /\ order.tax = s.tax /\ order.discount = s.discount /\ order.total = s.total
        /\ s.tax \in Int /\ s.discount \in Int /\ s.total \in Int
    BY FetchedAmounts
  <1>2. /\ lines = balanced \o shipping /\ balanced = itemLines \o balancing
    BY DEF LinesOf, BalancedLines
  <1>3. LineAmounts(order) = bought BY DEF LineAmounts, Amounts
  <1>4. missing = s.total - (Total(bought) + Total(order.shipping) + s.tax - s.discount)
    BY <1>1, <1>3 DEF Difference, NsTotal
  <1>5. DOMAIN itemLines = DOMAIN order.lines /\ DOMAIN shipping = DOMAIN order.shipping
    BY DEF ItemLines, ShippingLines
  <1>6. \A i \in DOMAIN order.lines : itemLines[i].amount = order.lines[i].amount
    BY DEF ItemLines, Ref
  <1>7. \A i \in DOMAIN order.shipping : shipping[i].amount = order.shipping[i]
    BY DEF ShippingLines, Ref
  <1>8. Ref(VarianceId, FALSE, missing).amount = missing BY DEF Ref
  <1>9. /\ DOMAIN order.lines = 1..Len(order.lines) /\ Len(order.lines) \in Nat
        /\ \A i \in 1..Len(order.lines) : order.lines[i].amount \in Int
        /\ DOMAIN order.shipping = 1..Len(order.shipping) /\ Len(order.shipping) \in Nat
        /\ \A i \in 1..Len(order.shipping) : order.shipping[i] \in Int
    <2>1. \A i \in 1..Len(order.lines) : order.lines[i] \in [sku : STRING, amount : Int]
      BY <1>1, ElementOfSeq
    <2>2. \A i \in 1..Len(order.shipping) : order.shipping[i] \in Int BY <1>1, ElementOfSeq
    <2>3. QED BY <1>1, <2>1, <2>2, LenProperties
  <1> DEFINE line == Ref(VarianceId, FALSE, missing)
  <1>10. bought = Amounts(itemLines) /\ order.shipping = Amounts(shipping)
    <2>1. bought = Amounts(itemLines) BY <1>5, <1>6 DEF Amounts
    <2>2. order.shipping = [i \in DOMAIN order.shipping |-> order.shipping[i]]
      BY <1>1
    <2>3. order.shipping = Amounts(shipping) BY <1>5, <1>7, <2>2 DEF Amounts
    <2>4. QED BY <2>1, <2>3
  <1>11. itemLines = [i \in 1..Len(order.lines) |-> itemLines[i]]
    BY <1>9 DEF ItemLines
  <1>12. shipping = [i \in 1..Len(order.shipping) |-> shipping[i]]
    BY <1>9 DEF ShippingLines
  <1> HIDE DEF order, itemLines, missing, shipping, balanced, lines, bought
  <1>13. bought \in Seq(Int)
    <2>1. \A l \in [sku : STRING, amount : Int] : l.amount \in Int OBVIOUS
    <2>2. QED BY <1>1, <2>1, AmountsType DEF bought
  <1>14. Total(bought) \in Int /\ Total(order.shipping) \in Int /\ missing \in Int
    <2>1. Total(bought) \in Int /\ Total(order.shipping) \in Int BY <1>1, <1>13, TotalOfBoth
    <2>2. QED BY <1>1, <1>4, <2>1
  <1>15. line \in Priced BY <1>8, <1>14
  <1>16. itemLines \in Seq(Priced) /\ shipping \in Seq(Priced)
    <2>1. \A i \in 1..Len(order.lines) : itemLines[i] \in Priced BY <1>5, <1>6, <1>9
    <2>2. \A i \in 1..Len(order.shipping) : shipping[i] \in Priced BY <1>5, <1>7, <1>9
    <2> HIDE DEF Priced
    <2>3. itemLines \in Seq(Priced) BY <1>9, <1>11, <2>1
    <2>4. shipping \in Seq(Priced) BY <1>9, <1>12, <2>2
    <2>5. QED BY <2>3, <2>4
  <1>17. \A l \in Priced : l.amount \in Int OBVIOUS
  <1> HIDE DEF Priced, line
  <1>18. /\ <<>> \in Seq(Priced) /\ <<line>> \in Seq(Priced)
    BY <1>15
  <1>19. balancing = <<>> \/ balancing = <<line>> BY DEF balancing, line
  <1>20. Total(Amounts(balancing)) = missing
    <2>1. CASE missing = 0
      <3>1. balancing = <<>> BY <2>1
      <3>2. Amounts(<<>>) = <<>> BY DEF Amounts
      <3>3. Total(<<>>) = 0 BY TotalOfNone
      <3>4. QED BY <2>1, <3>1, <3>2, <3>3
    <2>2. CASE missing # 0
      <3>1. balancing = <<line>> BY <2>2 DEF line
      <3>2. Amounts(<<line>>) = <<line.amount>> BY DEF Amounts
      <3>3. line.amount = missing BY <1>8 DEF line
      <3>4. Total(<<missing>>) = missing BY <1>14, TotalOfOne
      <3>5. QED BY <3>1, <3>2, <3>3, <3>4
    <2>3. QED BY <2>1, <2>2
  <1> HIDE DEF balancing
  <1>21. balancing \in Seq(Priced) BY <1>18, <1>19
  <1>22. balanced \in Seq(Priced) BY <1>2, <1>16, <1>21, ConcatProperties
  <1>23. Total(Amounts(balanced)) = Total(bought) + missing
    BY <1>2, <1>10, <1>16, <1>17, <1>20, <1>21, AmountsOfBoth
  <1>24. Total(Amounts(lines)) = Total(Amounts(balanced)) + Total(order.shipping)
    BY <1>2, <1>10, <1>16, <1>17, <1>22, AmountsOfBoth
  <1>25. QED
    <2>1. Total(Amounts(lines)) = Total(bought) + missing + Total(order.shipping)
      BY <1>23, <1>24
    <2> DEFINE x == Total(bought)
               y == Total(order.shipping)
               tax == s.tax
               discount == s.discount
               total == s.total
    <2>2. /\ tax \in Int /\ discount \in Int /\ total \in Int
          /\ x \in Int /\ y \in Int /\ missing \in Int
      BY <1>1, <1>14
    <2>3. missing = total - (x + y + tax - discount) BY <1>4
    <2> HIDE DEF x, y, tax, discount, total
    <2>4. x + missing + y \in Int /\ x + missing + y + tax - discount = total
      BY <2>2, <2>3, Balances
    <2>5. Total(Amounts(lines)) = x + missing + y BY <2>1 DEF x, y
    <2>6. Total(Amounts(lines)) \in Int /\ Total(Amounts(lines)) + tax - discount = total
      BY <2>4, <2>5
    <2>7. DOMAIN lines = 1..Len(lines)
      <3>1. lines \in Seq(Priced) BY <1>2, <1>16, <1>22, ConcatProperties
      <3>2. QED BY <3>1, LenProperties
    <2>8. QED BY <2>6, <2>7 DEF lines, tax, discount, total

-----------------------------------------------------------------------------
(***************************************************************************)
(* The second invariant: what is pushed is the line's amount, a header     *)
(* that lines are resolved for has the order's discount and is balanced,   *)
(* and a payload is complete when every line has been pushed.              *)
(***************************************************************************)
Working == {"lines", "query", "built"}

Booking(o, st, hd, lines) ==
    /\ st \in Working =>
          hd # NoHeader /\ hd.discountRate = -shape[o].discount /\ ~Unbalanced(Order(o))
    /\ \A i \in DOMAIN lines : lines[i].amount = Lines(o)[i].amount
    /\ st = "built" => Len(lines) = Len(Lines(o))

TotalsInv == EligibleInv /\ \A o \in Orders : Booking(o, stage[o], header[o], built[o])

LEMMA TotalsInit == Init => TotalsInv
  <1> SUFFICES ASSUME Init PROVE TotalsInv OBVIOUS
  <1>1. DOMAIN <<>> = {} OBVIOUS
  <1>2. \A o \in Orders : stage[o] = "due" /\ built[o] = <<>> BY DEF Init
  <1>3. QED BY <1>1, <1>2, EligibleInit DEF TotalsInv, Booking, Working

(* One order moves, with its header and lines; the others stay.            *)
LEMMA BookingMoves ==
    ASSUME TotalsInv, EligibleInv', NEW o \in Orders, NEW st, NEW hd, NEW lines,
           UNCHANGED <<shape, connection>>, Booking(o, st, hd, lines),
           stage' = [stage EXCEPT ![o] = st], header' = [header EXCEPT ![o] = hd],
           built' = [built EXCEPT ![o] = lines]
    PROVE  TotalsInv'
  <1> SUFFICES ASSUME NEW p \in Orders
               PROVE  Booking(p, stage[p], header[p], built[p])'
    BY DEF TotalsInv
  <1>1. Lines(p)' = Lines(p) /\ Order(p)' = Order(p) BY DEF Lines, Order
  <1>2. \A st1, hd1, lines1 : Booking(p, st1, hd1, lines1) => Booking(p, st1, hd1, lines1)'
    BY <1>1 DEF Booking
  <1>3. CASE p = o
    <2>1. stage'[p] = st /\ header'[p] = hd /\ built'[p] = lines
      BY <1>3 DEF TotalsInv, EligibleInv, GuessInv
    <2>2. QED BY <1>2, <1>3, <2>1
  <1>4. CASE p # o
    <2>1. stage'[p] = stage[p] /\ header'[p] = header[p] /\ built'[p] = built[p]
      BY <1>4 DEF TotalsInv, EligibleInv, GuessInv
    <2>2. QED BY <1>2, <2>1 DEF TotalsInv
  <1>5. QED BY <1>3, <1>4

LEMMA PushBooks ==
    ASSUME TotalsInv, EligibleInv', NEW o \in Orders, NEW item, Push(o, item),
           stage[o] \in {"lines", "query"}, UNCHANGED world
    PROVE  TotalsInv'
  <1> DEFINE new == [item |-> item, amount |-> Line(o).amount]
             lines == Append(built[o], new)
             st == IF Len(built[o]) + 1 = Len(Lines(o)) THEN "built" ELSE "lines"
  <1>1. Booking(o, stage[o], header[o], built[o]) /\ Right(o, stage[o], built[o], answer[o])
    BY DEF TotalsInv, EligibleInv, GuessInv
  <1>2. PICK S : built[o] \in Seq(S) BY <1>1 DEF Right
  <1>3. built[o] \in Seq(S \cup {new}) BY <1>2
  <1>4. /\ lines \in Seq(S \cup {new}) /\ Len(lines) = Len(built[o]) + 1
        /\ \A i \in 1..Len(built[o]) : lines[i] = built[o][i]
        /\ lines[Len(built[o]) + 1] = new
    BY <1>3, AppendProperties
  <1>5. /\ DOMAIN lines = 1..Len(lines) /\ DOMAIN built[o] = 1..Len(built[o])
        /\ Len(built[o]) \in Nat
    BY <1>2, <1>4, LenProperties
  <1>6. /\ stage' = [stage EXCEPT ![o] = st] /\ built' = [built EXCEPT ![o] = lines]
        /\ header' = header
    BY Zenon DEF Push
  <1>7. header' = [header EXCEPT ![o] = header[o]] BY <1>6 DEF TotalsInv, EligibleInv
  <1>8. ASSUME NEW i \in DOMAIN lines PROVE lines[i].amount = Lines(o)[i].amount
    <2>1. CASE i = Len(built[o]) + 1
      <3>1. lines[i].amount = Line(o).amount BY <1>4, <2>1
      <3>2. QED BY <2>1, <3>1 DEF Line
    <2>2. CASE i # Len(built[o]) + 1
      <3>1. i \in DOMAIN built[o] /\ lines[i] = built[o][i] BY <1>4, <1>5, <2>2
      <3>2. QED BY <1>1, <3>1 DEF Booking
    <2>3. QED BY <2>1, <2>2
  <1> HIDE DEF new, lines
  <1>9. st \in {"built", "lines"} /\ (st = "built" => Len(lines) = Len(Lines(o)))
    BY <1>4
  <1> HIDE DEF st
  <1>10. Booking(o, st, header[o], lines) BY <1>1, <1>8, <1>9 DEF Booking, Working
  <1>11. UNCHANGED <<shape, connection>> BY DEF world
  <1>12. QED BY <1>6, <1>7, <1>10, <1>11, BookingMoves

(* An order at a stage before or after its lines are resolved owes nothing *)
(* but the lines it has.                                                   *)
LEMMA IdleBooks ==
    ASSUME TotalsInv, EligibleInv', NEW o \in Orders, NEW st, st \notin Working,
           UNCHANGED <<shape, connection>>, stage' = [stage EXCEPT ![o] = st],
           NEW hd, header' = [header EXCEPT ![o] = hd],
           built' \in {built, [built EXCEPT ![o] = <<>>]}
    PROVE  TotalsInv'
  <1>1. DOMAIN <<>> = {} OBVIOUS
  <1>2. Booking(o, st, hd, <<>>) /\ Booking(o, st, hd, built[o])
    BY <1>1 DEF TotalsInv, Booking, Working
  <1>3. built = [built EXCEPT ![o] = built[o]] BY DEF TotalsInv, EligibleInv, GuessInv
  <1>4. QED BY <1>2, <1>3, BookingMoves

LEMMA ResolvedBooks ==
    ASSUME TotalsInv, EligibleInv', NEW o \in Orders, NEW found, Resolved(o, found),
           stage[o] \in {"lines", "query"}, UNCHANGED world
    PROVE  TotalsInv'
  <1>1. CASE \E item : Push(o, item) BY <1>1, PushBooks
  <1>2. CASE ParkAt(o, "item_resolution")
    <2>1. UNCHANGED <<shape, connection>> BY DEF world
    <2>2. QED BY <1>2, <2>1, IdleBooks DEF ParkAt, Working
  <1>3. QED BY <1>1, <1>2 DEF Resolved

(* The evaluation of a header.                                             *)
LEMMA EvaluatedBooks ==
    ASSUME TotalsInv, EligibleInv', NEW o \in Orders, Evaluated(o)
    PROVE  TotalsInv'
  <1>1. PICK d \in Drafts :
           /\ d.from = <<connection, shape[o], rows>>
           /\ stage' = [stage EXCEPT ![o] = d.draft.stage]
           /\ header' = [header EXCEPT ![o] = d.draft.header]
    BY DEF Evaluated
  <1>2. stage[o] = "fetched" /\ UNCHANGED <<world, built>> BY DEF Evaluated
  <1>3. UNCHANGED <<shape, connection>> BY <1>2 DEF world
  <1>4. PICK c \in Connections, s \in AllShapes, r \in SUBSET (InitialRows \cup LaterRows) :
           d = [from |-> <<c, s, r>>, draft |-> Draft(c, OrderOf[s], r)]
    BY DEF Drafts
  <1>5. d.draft = Draft(connection, Order(o), rows) BY <1>1, <1>4 DEF Order
  <1> DEFINE draft == Header(connection, Order(o), rows)
             new == [currency |-> draft.currency, discountRate |-> draft.discountRate,
                     tax |-> TaxOf(connection, Order(o))]
  <1>6. CASE draft = Park \/ Unbalanced(Order(o))
    <2>1. Draft(connection, Order(o), rows).stage \notin Working BY <1>6 DEF Draft, Working
    <2>2. QED BY <1>1, <1>2, <1>3, <1>5, <2>1, IdleBooks
  <1>7. CASE draft # Park /\ ~Unbalanced(Order(o))
    <2>1. Draft(connection, Order(o), rows) = [stage |-> "lines", header |-> new]
      BY <1>7 DEF Draft
    <2>2. d.draft.stage = "lines" /\ d.draft.header = new BY <1>5, <2>1
    <2>3. new.discountRate = -shape[o].discount
      <3>1. draft = SetPath(Evaluate(Order(o), HeaderMap(connection), rows), "discountRate",
                            -Order(o).discount)
        BY <1>7 DEF Header
      <3>2. \A out, x : SetPath(out, "discountRate", x)["discountRate"] = x BY DEF SetPath
      <3>3. draft.discountRate = -Order(o).discount BY <3>1, <3>2
      <3>4. Order(o).discount = shape[o].discount
        BY FetchedAmounts DEF TotalsInv, EligibleInv, GuessInv, Order
      <3>5. new.discountRate = draft.discountRate OBVIOUS
      <3> HIDE DEF draft, new
      <3>6. QED BY <3>3, <3>4, <3>5
    <2>4. new # NoHeader BY DEF NoHeader, Park
    <2> HIDE DEF new
    <2>5. Booking(o, "lines", new, built[o])
      BY <1>7, <2>3, <2>4 DEF TotalsInv, Booking, Working
    <2>6. built' = [built EXCEPT ![o] = built[o]]
      BY <1>2 DEF TotalsInv, EligibleInv, GuessInv
    <2>7. QED BY <1>1, <1>3, <2>2, <2>5, <2>6, BookingMoves
  <1>8. QED BY <1>6, <1>7

LEMMA HandlingBooks ==
    ASSUME TotalsInv, EligibleInv', NEW o \in Orders, Handling(o) \/ Replay(o)
    PROVE  TotalsInv'
  <1>1. /\ header = [header EXCEPT ![o] = header[o]] /\ built = [built EXCEPT ![o] = built[o]]
        /\ stage = [stage EXCEPT ![o] = stage[o]]
        /\ Booking(o, stage[o], header[o], built[o])
    BY DEF TotalsInv, EligibleInv, GuessInv
  <1>2. CASE Fetch(o) \/ Replay(o)
    <2>1. PICK st \in {"fetched", "ignored", "due"} : stage' = [stage EXCEPT ![o] = st]
      BY <1>2 DEF Fetch, Replay
    <2>2. UNCHANGED <<world, header, built>> BY <1>2 DEF Fetch, Replay
    <2>3. QED BY <1>1, <2>1, <2>2, IdleBooks DEF world, Working
  <1>3. CASE Evaluated(o) BY <1>3, EvaluatedBooks
  <1>4. CASE ResolveLine(o)
    <2>1. stage[o] = "lines" /\ UNCHANGED world BY <1>4 DEF ResolveLine
    <2>2. CASE (\E item : Push(o, item)) \/ (\E found : Resolved(o, found))
      BY <2>1, <2>2, PushBooks, ResolvedBooks
    <2>3. CASE stage' = [stage EXCEPT ![o] = "query"] /\ UNCHANGED <<header, built>>
      <3>1. Booking(o, "query", header[o], built[o]) BY <1>1, <2>1 DEF Booking, Working
      <3>2. UNCHANGED <<shape, connection>> BY <2>1 DEF world
      <3>3. QED BY <1>1, <2>3, <3>1, <3>2, BookingMoves
    <2>4. QED BY <1>4, <2>2, <2>3 DEF ResolveLine
  <1>5. CASE Query(o)
    <2>1. UNCHANGED <<world, stage, header, built>> BY <1>5 DEF Query
    <2>2. QED BY <1>1, <2>1, BookingMoves DEF world
  <1>6. CASE Answered(o)
    <2>1. stage[o] = "query" /\ UNCHANGED world /\ Resolved(o, answer[o]) BY <1>6 DEF Answered
    <2>2. QED BY <2>1, ResolvedBooks
  <1>7. QED BY <1>2, <1>3, <1>4, <1>5, <1>6 DEF Handling

LEMMA TotalsStep == TotalsInv /\ [Next]_vars => TotalsInv'
  <1> SUFFICES ASSUME TotalsInv, [Next]_vars PROVE TotalsInv' OBVIOUS
  <1>1. EligibleInv' BY EligibleStep DEF TotalsInv
  <1>2. CASE \E o \in Orders : Handling(o) \/ Replay(o) BY <1>1, <1>2, HandlingBooks
  <1>3. ASSUME UNCHANGED <<shape, connection, stage, header, built>> PROVE TotalsInv'
    <2>1. \A o \in Orders : Lines(o)' = Lines(o) /\ Order(o)' = Order(o)
      BY <1>3 DEF Lines, Order
    <2>2. QED BY <1>1, <1>3, <2>1 DEF TotalsInv, Booking
  <1>4. CASE \E sku \in LaterItems : CreateItem(sku) BY <1>3, <1>4 DEF CreateItem
  <1>5. CASE \E row \in LaterRows : RegisterRow(row) BY <1>3, <1>5 DEF RegisterRow
  <1>6. CASE Restart
    <2> DEFINE Busy == {o \in Orders : stage[o] \in {"fetched", "lines", "query"}}
    <2>1. /\ UNCHANGED <<shape, connection>>
          /\ stage' = [o \in Orders |-> IF o \in Busy THEN "due" ELSE stage[o]]
          /\ header' = [o \in Orders |-> IF o \in Busy THEN NoHeader ELSE header[o]]
          /\ built' = [o \in Orders |-> IF o \in Busy THEN <<>> ELSE built[o]]
      BY <1>6 DEF Restart, world
    <2>2. ASSUME NEW o \in Orders PROVE Booking(o, stage[o], header[o], built[o])'
      <3>1. Lines(o)' = Lines(o) /\ Order(o)' = Order(o) BY <2>1 DEF Lines, Order
      <3>2. CASE o \in Busy
        <4>1. stage'[o] = "due" /\ built'[o] = <<>> /\ DOMAIN <<>> = {} BY <2>1, <3>2
        <4>2. QED BY <4>1 DEF Booking, Working
      <3>3. CASE o \notin Busy
        <4>1. stage'[o] = stage[o] /\ header'[o] = header[o] /\ built'[o] = built[o]
          BY <2>1, <3>3
        <4>2. QED BY <2>1, <3>1, <4>1 DEF TotalsInv, Booking
      <3>4. QED BY <3>2, <3>3
    <2>3. QED BY <1>1, <2>2 DEF TotalsInv
  <1>7. CASE UNCHANGED vars BY <1>3, <1>7 DEF vars
  <1>8. QED BY <1>2, <1>4, <1>5, <1>6, <1>7 DEF Next

(* What NetSuite makes of a complete payload.                              *)
LEMMA BuiltReconciles ==
    ASSUME TotalsInv, NEW o \in Orders, stage[o] = "built"
    PROVE  Booked(o) = shape[o].total
  <1> DEFINE lines == Lines(o)
             amounts == Amounts(lines)
  <1>1. connection \in Connections /\ shape[o] \in AllShapes
    BY DEF TotalsInv, EligibleInv, GuessInv
  <1>2. /\ Len(built[o]) = Len(lines) /\ header[o].discountRate = -shape[o].discount
        /\ \A i \in DOMAIN built[o] : built[o][i].amount = lines[i].amount
    BY DEF TotalsInv, Booking, Working
  <1>3. Total(amounts) \in Int /\ Total(amounts) + shape[o].tax - shape[o].discount = shape[o].total
    BY <1>1, LinesReconcile DEF Lines
  <1>4. DOMAIN built[o] = 1..Len(lines)
    <2>1. PICK S : built[o] \in Seq(S) BY DEF TotalsInv, EligibleInv, GuessInv, Right
    <2>2. QED BY <1>2, <2>1, LenProperties
  <1>5. DOMAIN lines = 1..Len(lines) BY <1>1, LinesReconcile DEF Lines
  <1>6. [i \in DOMAIN built[o] |-> built[o][i].amount] = amounts
    BY <1>2, <1>4, <1>5 DEF Amounts
  <1>7. shape[o].tax \in Int /\ shape[o].discount \in Int BY <1>1, FetchedAmounts
  <1> HIDE DEF amounts
  <1>8. Booked(o) = Total(amounts) + shape[o].tax + header[o].discountRate BY <1>6 DEF Booked
  <1>9. QED BY <1>2, <1>3, <1>7, <1>8

(***************************************************************************)
(* Every complete payload comes to the total Shopify states, to the cent,  *)
(* for any lines, shipping, tax, discount, rounding and page sizes         *)
(* (applyBalancing, applyDiscount, buildOrderPayload).                     *)
(***************************************************************************)
THEOREM PayloadsReconcile ==
    Spec => [](\A o \in Orders : stage[o] = "built" => Booked(o) = shape[o].total)
  <1>1. TotalsInv => \A o \in Orders : stage[o] = "built" => Booked(o) = shape[o].total
    BY BuiltReconciles
  <1>2. QED BY <1>1, TotalsInit, TotalsStep, PTL DEF Spec

-----------------------------------------------------------------------------
(* A page of a list that fits is the list.                                 *)
LEMMA FirstOfAll ==
    ASSUME NEW S, NEW seq \in Seq(S), NEW n \in Nat, Len(seq) <= n
    PROVE  FirstOf(seq, n) = seq
  <1>1. Len(seq) \in Nat BY LenProperties
  <1>2. FirstOf(seq, n) = SubSeq(seq, 1, Len(seq)) BY <1>1 DEF FirstOf
  <1>3. QED BY <1>1, <1>2, SubSeqProperties, SeqEqual

(* What is neither on a line nor on the header.                            *)
LEMMA LittleIsCut ==
    ASSUME LongOrdersAddUp, NEW s \in AllShapes, ~Unbalanced(OrderOf[s])
    PROVE  Total(LineAmounts(s)) + Total(s.shipping)
              - Total(LineAmounts(OrderOf[s])) - Total(OrderOf[s].shipping) <= Tolerance
  <1> DEFINE order == OrderOf[s]
             all == Total(LineAmounts(s))
             allShipping == Total(s.shipping)
             bought == Total(LineAmounts(order))
             shipped == Total(order.shipping)
  <1>1. /\ order.lines \in Seq([sku : STRING, amount : Int]) /\ order.shipping \in Seq(Int)
        /\ order.lines = FirstOf(s.lines, MaxLines)
        /\ order.shipping = FirstOf(s.shipping, MaxShipping)
        /\ order.tax = s.tax /\ order.discount = s.discount /\ order.total = s.total
        /\ s.tax \in Int /\ s.discount \in Int /\ s.total \in Int
        /\ s.lines \in Seq([sku : STRING, amount : Int]) /\ s.shipping \in Seq(Int)
    BY FetchedAmounts
  <1>2. MaxLines \in Nat /\ MaxShipping \in Nat /\ Tolerance \in Nat BY PayloadAssumption
  <1>3. LineAmounts(order) = Amounts(order.lines) /\ LineAmounts(s) = Amounts(s.lines)
    BY DEF LineAmounts, Amounts
  <1>4. all \in Int /\ allShipping \in Int /\ bought \in Int /\ shipped \in Int
    <2>1. \A l \in [sku : STRING, amount : Int] : l.amount \in Int OBVIOUS
    <2>2. LineAmounts(s) \in Seq(Int) /\ LineAmounts(order) \in Seq(Int)
      BY <1>1, <1>3, <2>1, AmountsType
    <2>3. QED BY <1>1, <2>2, TotalOfBoth
  <1>5. Difference(order) = s.total - (bought + shipped + s.tax - s.discount)
    BY <1>1 DEF Difference, NsTotal
  <1>6. ~(Difference(order) > Tolerance) BY DEF Unbalanced
  <1>7. CASE Len(s.lines) > MaxLines \/ Len(s.shipping) > MaxShipping
    <2>1. all + allShipping + s.tax - s.discount <= s.total BY <1>7 DEF LongOrdersAddUp
    <2> HIDE DEF all, allShipping, bought, shipped
    <2>2. all + allShipping - bought - shipped <= Tolerance
      BY <1>1, <1>2, <1>4, <1>5, <1>6, <2>1
    <2>3. QED BY <2>2 DEF all, allShipping, bought, shipped
  <1>8. CASE Len(s.lines) <= MaxLines /\ Len(s.shipping) <= MaxShipping
    <2>1. order.lines = s.lines /\ order.shipping = s.shipping
      BY <1>1, <1>2, <1>8, FirstOfAll
    <2>2. all = bought /\ allShipping = shipped BY <1>3, <2>1
    <2> HIDE DEF all, allShipping, bought, shipped
    <2>3. all + allShipping - bought - shipped <= Tolerance BY <1>2, <1>4, <2>2
    <2>4. QED BY <2>3 DEF all, allShipping, bought, shipped
  <1>9. Len(s.lines) \in Nat /\ Len(s.shipping) \in Nat BY <1>1, LenProperties
  <1>10. QED BY <1>2, <1>7, <1>8, <1>9

(***************************************************************************)
(* And where long orders add up, what a complete payload leaves out is at  *)
(* most the tolerance (the query's first: 250, toleranceAmount).           *)
(***************************************************************************)
THEOREM TotalsReconcile ==
    ASSUME LongOrdersAddUp
    PROVE  Spec => []BuiltTotalsReconcile
  <1>1. ASSUME TotalsInv PROVE BuiltTotalsReconcile
    <2> SUFFICES ASSUME NEW o \in Orders, stage[o] = "built"
                 PROVE  /\ Booked(o) = shape[o].total
                        /\ Total(LineAmounts(shape[o])) + Total(shape[o].shipping)
                              - Total(LineAmounts(Order(o))) - Total(Order(o).shipping) <= Tolerance
      BY DEF BuiltTotalsReconcile
    <2>1. shape[o] \in AllShapes /\ ~Unbalanced(OrderOf[shape[o]])
      BY <1>1 DEF TotalsInv, EligibleInv, GuessInv, Booking, Working, Order
    <2>2. Booked(o) = shape[o].total BY <1>1, BuiltReconciles
    <2>3. Order(o) = OrderOf[shape[o]] BY DEF Order
    <2>4. QED BY <2>1, <2>2, <2>3, LittleIsCut
  <1>2. QED BY <1>1, TotalsInit, TotalsStep, PTL DEF Spec

=============================================================================
