----------------------------- MODULE Addressbook -----------------------------
(***************************************************************************)
(* The addressbook of a NetSuite customer as buildCustomerPayload composes *)
(* it from the addresses of an order.                                      *)
(*                                                                         *)
(* An address of an order is [gid, content]; `gid' is Shopify's id, NoGid  *)
(* when it has none.  A line of an addressbook is                          *)
(* [id, gid, billing, shipping]: `id' is the line's id in NetSuite, New on *)
(* a line that NetSuite is to append, and the other two say whether it is  *)
(* the default of its kind.                                                *)
(***************************************************************************)
EXTENDS Integers, FiniteSetsExt

CONSTANTS
    Gids, NoGid,       \* ids of Shopify addresses, and none
    Contents           \* what else distinguishes addresses

ASSUME AddressAssumption == NoGid \notin Gids

Addresses == [gid : Gids \cup {NoGid}, content : Contents]

(* No address, or one without a street, a city and a zip.                  *)
NoAddress == [gid |-> NoGid, content |-> "none"]

(* An order brings a billing and a shipping address.                       *)
OrderAddresses == [billing : Addresses \cup {NoAddress}, shipping : Addresses \cup {NoAddress}]

New == 0

Lines(ids) == [id : ids, gid : Gids \cup {NoGid}, billing : BOOLEAN, shipping : BOOLEAN]

Given(address) == address # NoAddress

(* byShopifyId: of several lines with one Shopify id the last one counts.  *)
Matching(book, gid) ==
    LET same == {line.id : line \in {l \in book : l.gid = gid /\ gid # NoGid}} IN
    IF same = {} THEN New ELSE Max(same)

(* The line an address is written to; only the merge stamps the Shopify id. *)
LineFor(book, address, billing, shipping) ==
    [id |-> Matching(book, address.gid), gid |-> address.gid, billing |-> billing, shipping |-> shipping]

SameIds(order) == order.billing.gid # NoGid /\ order.billing.gid = order.shipping.gid

(* The lines of the order's own addresses.                                 *)
Incoming(book, order, same) ==
    LET billing == Given(order.billing)
        shipping == Given(order.shipping) IN
    IF same THEN {LineFor(book, order.billing, TRUE, TRUE)}
    ELSE (IF billing THEN {LineFor(book, order.billing, TRUE, ~shipping)} ELSE {})
         \cup (IF shipping THEN {LineFor(book, order.shipping, ~billing, TRUE)} ELSE {})

(* Fault: lines that are kept stay the default they were.                  *)
PreservedAsTheyWere(book, incoming) ==
    {line \in book : line.id \notin {l.id : l \in incoming}}

(* Fault: they are left out of what is written.                            *)
PreservedNot(book, incoming) == {}

(* Lines the order's addresses did not claim; their defaults are cleared.  *)
Preserved(book, incoming) ==
    {[line EXCEPT !.billing = @ /\ \A l \in incoming : ~l.billing,
                  !.shipping = @ /\ \A l \in incoming : ~l.shipping]
        : line \in {l \in book : l.id \notin {i.id : i \in incoming}}}

(* buildAddressbookMerged on the lines read; {} leaves the field out.      *)
Merged(book, order) ==
    LET incoming == Incoming(book, order, SameIds(order) /\ Given(order.billing)) IN
    IF incoming = {} THEN {} ELSE incoming \cup Preserved(book, incoming)

(* buildAddressbookLegacy: addresses alike in every field share a line.    *)
Legacy(order) ==
    {[line EXCEPT !.gid = NoGid]
        : line \in Incoming({}, order, Given(order.billing)
                                       /\ order.billing.content = order.shipping.content)}

=============================================================================
