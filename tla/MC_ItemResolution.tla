---- MODULE MC_ItemResolution ----
(* Orders that differ in one respect each from a plain paid one, and the   *)
(* connections with and without the optional items.  Lines are cut at 2.   *)
EXTENDS ItemResolution

CONSTANTS o1, o2

Fields == [name |-> "#1", id |-> "gid", currencyCode |-> "USD", gateway |-> "card",
           shippingTitle |-> "ground"]

Item(sku, amount) == [sku |-> sku, amount |-> amount]

Plain == [status |-> "PAID", risk |-> "ACCEPT", test |-> FALSE, fields |-> Fields,
          lines |-> << Item("A", 1000) >>, shipping |-> << 500 >>, tax |-> 80,
          discount |-> 0, total |-> 1580]

ShapesOfFirst ==
    { Plain,
      [Plain EXCEPT !.lines = << Item("A", 600), Item("B", 400) >>],
      [Plain EXCEPT !.lines = << Item("A", 600), Item("B", 400), Item("A", 0) >>, !.total = 1583],
      [Plain EXCEPT !.lines = << Item("B", 600), Item("A", 200), Item("A", 200) >>],
      [Plain EXCEPT !.lines = << Item(None, 1000) >>, !.status = "AUTHORIZED"],
      [Plain EXCEPT !.discount = 100, !.total = 1480],
      [Plain EXCEPT !.discount = 3, !.total = 1577],
      [Plain EXCEPT !.total = 1576, !.risk = None],
      [Plain EXCEPT !.total = 1586],
      [Plain EXCEPT !.status = "EXPIRED"],
      [Plain EXCEPT !.test = TRUE],
      [Plain EXCEPT !.risk = "INVESTIGATE"],
      [Plain EXCEPT !.lines = <<>>, !.total = 580],
      [Plain EXCEPT !.fields.gateway = None, !.fields.currencyCode = "CAD", !.shipping = <<>>, !.total = 1080] }

MCShapes == [o \in {o1, o2} |-> IF o = o1 THEN ShapesOfFirst
                                ELSE { [Plain EXCEPT !.lines = << Item("B", 1000) >>, !.shipping = <<>>, !.total = 1080],
                                       [Plain EXCEPT !.lines = << Item("C", 500), Item("A", 500) >>] }]

Bare == [subsidiary |-> "3", discountItem |-> None, shipItem |-> None, defaultItem |-> None,
         taxEngine |-> "suitetax", extras |-> <<>>]

MCConnections ==
    { Bare,
      [Bare EXCEPT !.discountItem = "12", !.shipItem = "S1", !.taxEngine = "legacy",
                   !.extras = << [Mapping("constant", None, "location", "7", FALSE)
                                    EXCEPT !.when = <<"gateway", "card">>] >>],
      [Bare EXCEPT !.defaultItem = "99", !.discountItem = "12"] }

MCItems == {"A"}
MCLaterItems == {"B", "SHIP-STANDARD"}
MCRows == { <<"currency", "USD">> }
MCLaterRows == { <<"currency", "CAD">> }

(* The theorems that ask something of the constants are about these, too.  *)
ASSUME MCAssumption == ExtrasKeepCurrency /\ LongOrdersAddUp
====
