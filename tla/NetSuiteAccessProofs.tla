------------------------- MODULE NetSuiteAccessProofs -------------------------
(***************************************************************************)
(* The governor, the classification of failures and the addressbook in     *)
(* NetSuiteAccess, for any orders and addresses, any ceiling, deadline and *)
(* number of retries, and any kinds of error.                              *)
(***************************************************************************)
EXTENDS NetSuiteAccess, FiniteSetTheorems, WellFoundedInduction, TLAPS

(* The types of the calls; the addressbook has no part in the governor.    *)
CallsTypeOK ==
    /\ step \in [Orders -> Steps]
    /\ phase \in [Orders -> {"none", "client", "acquire", "request"}]
    /\ slots \subseteq Orders \X (0..MaxRetries)
    /\ attempt \in [Orders -> 0..MaxRetries]
    /\ error \in [Orders -> Errors]

(***************************************************************************)
(* A request holds the slot of its attempt, there are at most Ceiling      *)
(* slots, and an order has one only while it awaits a slot or an answer.   *)
(* An order with a call in hand has not failed, and one that is done with  *)
(* its calls, or has failed, has none.                                     *)
(***************************************************************************)
GovernorInv ==
    /\ CallsTypeOK
    /\ Cardinality(slots) <= Ceiling
    /\ \A o \in Orders : phase[o] = "request" => <<o, attempt[o]>> \in slots
    /\ \A slot \in slots : phase[slot[1]] \in {"acquire", "request"}
    /\ \A o \in Orders : phase[o] # "none" => error[o] = NoError /\ step[o] \in {"find", "read", "upsert"}
    /\ \A o \in Orders : error[o] # NoError => step[o] \in {"find", "read", "upsert"}

(* Any set of slots is finite.                                             *)
LEMMA SlotsFinite == ASSUME slots \subseteq Orders \X (0..MaxRetries) PROVE IsFiniteSet(slots)
  <1>1. IsFiniteSet(0..MaxRetries) BY NetSuiteAssumption, FS_Interval
  <1>2. IsFiniteSet(Orders \X (0..MaxRetries)) BY <1>1, NetSuiteAssumption, FS_Product
  <1>3. QED BY <1>2, FS_Subset

(* Fewer slots are not more.                                               *)
LEMMA FewerSlots ==
    ASSUME CallsTypeOK, slots' \subseteq slots, Cardinality(slots) <= Ceiling
    PROVE  Cardinality(slots') <= Ceiling
  <1>1. IsFiniteSet(slots) BY SlotsFinite DEF CallsTypeOK
  <1>2. Cardinality(slots') <= Cardinality(slots) BY <1>1, FS_Subset
  <1>3. IsFiniteSet(slots') /\ Cardinality(slots) \in Nat /\ Cardinality(slots') \in Nat
    BY <1>1, FS_Subset, FS_CardinalityType
  <1>4. QED BY <1>2, <1>3, NetSuiteAssumption

LEMMA GovernorInit == Init => GovernorInv
  <1> SUFFICES ASSUME Init PROVE GovernorInv
    OBVIOUS
  <1>1. Cardinality(slots) <= Ceiling BY FS_EmptySet, NetSuiteAssumption DEF Init
  <1>2. QED BY <1>1, NetSuiteAssumption DEF Init, GovernorInv, CallsTypeOK, Steps, Errors

(* A call takes a slot of its own, of which there was one to take.         *)
LEMMA AcquireGoverned == ASSUME GovernorInv, NEW o \in Orders, TryAcquire(o) PROVE GovernorInv'
  <1> USE DEF GovernorInv, CallsTypeOK
  <1>1. Cardinality(slots') <= Ceiling
    <2>1. IsFiniteSet(slots) BY SlotsFinite
    <2>2. \/ Cardinality(slots') = Cardinality(slots) \/ Cardinality(slots') = Cardinality(slots) + 1
      BY <2>1, FS_AddElement DEF TryAcquire
    <2>3. Cardinality(slots) \in Nat /\ Cardinality(slots) < Ceiling
      BY <2>1, FS_CardinalityType DEF TryAcquire, Bucket
    <2>4. QED BY <2>2, <2>3, NetSuiteAssumption
  <1>2. /\ slots' = slots \cup {<<o, attempt[o]>>} /\ phase' = [phase EXCEPT ![o] = "request"]
        /\ phase[o] = "acquire" /\ UNCHANGED <<step, attempt, error>>
    BY DEF TryAcquire
  <1>3. QED BY <1>1, <1>2

(* The next call, or the end, of an order that holds no slot any more.     *)
LEMMA MovesOn ==
    ASSUME GovernorInv, NEW o \in Orders, slots' = slots \ SlotsOf(o),
           UNCHANGED error, error[o] = NoError,
           (\E next \in {"find", "read", "upsert"} : Call(o, next)) \/ End(o, "resolved")
    PROVE  GovernorInv'
  <1> USE NetSuiteAssumption DEF GovernorInv, CallsTypeOK, SlotsOf
  <1>1. Cardinality(slots') <= Ceiling BY FewerSlots
  <1>2. CASE \E next \in {"find", "read", "upsert"} : Call(o, next) BY <1>1, <1>2 DEF Call, Steps
  <1>3. CASE End(o, "resolved") BY <1>1, <1>3 DEF End, Steps
  <1>4. QED BY <1>2, <1>3

(* A call that throws leaves no slot behind.                               *)
LEMMA ThrowGoverned ==
    ASSUME GovernorInv, NEW o \in Orders, phase[o] # "none", NEW e \in Errors, Throw(o, e)
    PROVE  GovernorInv'
  <1> USE NetSuiteAssumption DEF GovernorInv, CallsTypeOK, SlotsOf
  <1>1. Cardinality(slots') <= Ceiling BY FewerSlots DEF Throw
  <1>2. QED BY <1>1 DEF Throw

(* An attempt that is made again waits for a slot of its own.              *)
LEMMA RetryGoverned ==
    ASSUME GovernorInv, NEW o \in Orders, phase[o] = "request", Retry(o)
    PROVE  GovernorInv'
  <1> USE NetSuiteAssumption DEF GovernorInv, CallsTypeOK, SlotsOf
  <1>1. Cardinality(slots') <= Ceiling BY FewerSlots DEF Retry
  <1>2. QED BY <1>1 DEF Retry

LEMMA GovernorStep == GovernorInv /\ [Next]_vars => GovernorInv'
  <1> SUFFICES ASSUME GovernorInv, [Next]_vars PROVE GovernorInv'
    OBVIOUS
  <1>1. ASSUME NEW o \in Orders, Begin(o) PROVE GovernorInv'
    <2>1. phase[o] = "none" /\ error[o] = NoError BY <1>1 DEF GovernorInv, Begin, CallsTypeOK
    <2>2. SlotsOf(o) = {} BY <2>1 DEF GovernorInv, SlotsOf
    <2>3. QED BY <1>1, <2>1, <2>2, MovesOn DEF Begin
  <1>2. ASSUME NEW o \in Orders, ClientReady(o) PROVE GovernorInv'
    BY <1>2 DEF ClientReady, GovernorInv, CallsTypeOK
  <1>3. ASSUME NEW o \in Orders, TryAcquire(o) PROVE GovernorInv' BY <1>3, AcquireGoverned
  <1>4. ASSUME NEW o \in Orders, PollAgain(o) PROVE GovernorInv'
    BY <1>4 DEF PollAgain, GovernorInv, CallsTypeOK
  <1>5. ASSUME NEW o \in Orders, GiveUp(o) PROVE GovernorInv'
    BY <1>5, ThrowGoverned DEF GiveUp, Full, Errors
  <1>6. ASSUME NEW o \in Orders, Respond(o) PROVE GovernorInv'
    <2>1. error[o] = NoError BY <1>6 DEF GovernorInv, Respond
    <2>2. QED BY <1>6, <2>1, MovesOn DEF Respond
  <1>7. ASSUME NEW o \in Orders, Rejected(o) PROVE GovernorInv'
    BY <1>7, ThrowGoverned DEF Rejected, Errors
  <1>8. ASSUME NEW o \in Orders, Redeliver(o) PROVE GovernorInv'
    BY <1>8, NetSuiteAssumption DEF Redeliver, End, GovernorInv, CallsTypeOK, Steps, Errors
  <1>9. ASSUME NEW o \in Orders, RequestFails(o) PROVE GovernorInv'
    <2>1. PICK e \in NsErrors : (IsRetryable(e) /\ Retry(o)) \/ Throw(o, e)
      BY <1>9 DEF RequestFails
    <2>2. phase[o] = "request" /\ e \in Errors BY <1>9 DEF RequestFails, Errors
    <2>3. QED BY <2>1, <2>2, ThrowGoverned, RetryGoverned
  <1>10. CASE UNCHANGED vars BY <1>10 DEF vars, calls, GovernorInv, CallsTypeOK
  <1>11. QED
    BY <1>1, <1>2, <1>3, <1>4, <1>5, <1>6, <1>7, <1>8, <1>9, <1>10 DEF Next, Work

(***************************************************************************)
(* No slot leaks, whatever call of whatever attempt ends how.              *)
(***************************************************************************)
THEOREM NoSlotLeaks == Spec => []SlotsAreInUse
  <1>1. GovernorInv => SlotsAreInUse BY DEF GovernorInv, SlotsAreInUse
  <1>2. QED BY <1>1, GovernorInit, GovernorStep, PTL DEF Spec

(***************************************************************************)
(* The ceiling holds for any number of concurrent calls, clients and       *)
(* retries: each request has a slot that no other request has.             *)
(***************************************************************************)
THEOREM CeilingHolds == Spec => []RequestsAreGoverned
  <1>1. ASSUME GovernorInv PROVE RequestsAreGoverned
    <2> DEFINE requesting == {o \in Orders : phase[o] = "request"}
               slotOf == [o \in requesting |-> <<o, attempt[o]>>]
    <2>1. IsFiniteSet(slots) BY <1>1, SlotsFinite DEF GovernorInv, CallsTypeOK
    <2>2. slotOf \in Injection(requesting, slots)
      BY <1>1 DEF GovernorInv, Injection, IsInjective
    <2>3. Cardinality(requesting) <= Cardinality(slots) /\ Cardinality(requesting) \in Nat
      BY <2>1, <2>2, FS_Injection, FS_CardinalityType
    <2>4. Cardinality(slots) \in Nat BY <2>1, FS_CardinalityType
    <2>5. QED BY <1>1, <2>3, <2>4, NetSuiteAssumption DEF GovernorInv, RequestsAreGoverned
  <1>2. QED BY <1>1, GovernorInit, GovernorStep, PTL DEF Spec

(***************************************************************************)
(* Whatever NetSuite and the network may answer, wrapped or not, an error  *)
(* that is recoverable by its status parks no order.                       *)
(***************************************************************************)
THEOREM RecoverableRedelivered == Spec => []RecoverableIsRedelivered
  <1>1. ASSUME NEW e \in Errors, IsRetryable(e) \/ e.status \in {401, 403}
        PROVE  ClassOfMessage(e) \in {"transient", "auth"} /\ mapNetSuiteError(e) \in {"transient", "auth"}
    BY <1>1 DEF IsRetryable, ClassOfMessage, mapNetSuiteError
  <1>2. GovernorInv => RecoverableIsRedelivered
    BY <1>1 DEF GovernorInv, CallsTypeOK, RecoverableIsRedelivered, Parked, ShouldRetry, ClassIn
  <1>3. QED BY <1>2, GovernorInit, GovernorStep, PTL DEF Spec

-----------------------------------------------------------------------------
(***************************************************************************)
(* The addressbook.  NetSuite numbers a new line after the last one, so    *)
(* that its ids need the maximum of a finite set of naturals: it exists by *)
(* the least-element principle, which takes a set where the induction      *)
(* theorems take a predicate.                                              *)
(***************************************************************************)
(* A set of naturals has a least element, unless it is empty.              *)
LEMMA LeastNatural == ASSUME NEW T \in SUBSET Nat, T # {}
                      PROVE  \E n \in T : \A m \in T : n <= m
  <1> DEFINE Less == {pair \in Nat \X Nat : pair[1] < pair[2]}
  <1>1. IsWellFoundedOn(Less, Nat)
    BY NatLessThanWellFounded DEF OpToRel
  <1>2. PICK n \in T : \A m \in T : <<m, n>> \notin Less
    <2> HIDE DEF Less
    <2> QED BY <1>1, WFMin
  <1>3. ASSUME NEW m \in T PROVE n <= m
    <2>1. <<m, n>> \notin Less /\ <<m, n>> \in Nat \X Nat BY <1>2
    <2>2. ~(m < n) BY <2>1
    <2>3. QED BY <2>2
  <1>4. QED BY <1>3

(* A finite one has a bound: a least unbounded subset would lose one       *)
(* element and have a bound.                                               *)
LEMMA FiniteIsBounded == ASSUME NEW S \in SUBSET Nat, IsFiniteSet(S)
                         PROVE  \E n \in Nat : \A s \in S : s <= n
  <1> DEFINE Bounded(U) == \E n \in Nat : \A s \in U : s <= n
             Sizes == {k \in Nat : \E U \in SUBSET S : Cardinality(U) = k /\ ~Bounded(U)}
  <1> SUFFICES ASSUME ~Bounded(S) PROVE FALSE
    OBVIOUS
  <1>1. Cardinality(S) \in Sizes BY FS_CardinalityType
  <1>2. PICK k \in Sizes : \A m \in Sizes : k <= m
    <2> HIDE DEF Bounded
    <2>1. QED BY <1>1, LeastNatural
  <1>3. PICK U \in SUBSET S : Cardinality(U) = k /\ ~Bounded(U) BY <1>2
  <1>4. PICK x \in U : TRUE
    <2>1. 0 \in Nat /\ (U = {} => \A s \in U : s <= 0) OBVIOUS
    <2>2. QED BY <1>3, <2>1
  <1>5. IsFiniteSet(U) BY FS_Subset
  <1>6. Cardinality(U \ {x}) = k - 1 /\ k - 1 \in Nat
    <2>1. /\ IsFiniteSet(U \ {x}) /\ Cardinality(U \ {x}) = Cardinality(U) - 1
          /\ Cardinality(U \ {x}) \in Nat
      BY <1>5, FS_RemoveElement, FS_CardinalityType
    <2>2. QED BY <1>3, <2>1
  <1>7. Bounded(U \ {x})
    <2>1. k - 1 \notin Sizes BY <1>2, <1>6
    <2>2. U \ {x} \in SUBSET S OBVIOUS
    <2> HIDE DEF Bounded
    <2>3. QED BY <1>6, <2>1, <2>2
  <1>8. PICK n \in Nat : \A s \in U \ {x} : s <= n BY <1>7
  <1>9. n + x \in Nat /\ \A s \in U : s <= n + x BY <1>8
  <1>10. Bounded(U) BY <1>9
  <1>11. QED BY <1>3, <1>10

LEMMA MaxOfNaturals == ASSUME NEW S \in SUBSET Nat, IsFiniteSet(S), S # {}
                       PROVE  Max(S) \in S /\ \A s \in S : s <= Max(S)
  <1> DEFINE Bounds == {n \in Nat : \A s \in S : s <= n}
  <1>1. Bounds # {} BY FiniteIsBounded
  <1>2. PICK b \in Bounds : \A m \in Bounds : b <= m BY <1>1, LeastNatural
  <1>3. b \in S
    <2>1. SUFFICES ASSUME b \notin S PROVE FALSE OBVIOUS
    <2>2. \A s \in S : s <= b - 1 BY <2>1
    <2>3. b - 1 \in Nat
      <3>1. PICK s \in S : TRUE OBVIOUS
      <3>2. s \in Nat /\ s <= b - 1 BY <2>2
      <3>3. QED BY <3>2
    <2>4. b <= b - 1 BY <1>2, <2>2, <2>3
    <2>5. QED BY <2>4
  <1>4. \A s \in S : b >= s OBVIOUS
  <1>5. QED BY <1>3, <1>4 DEF Max

-----------------------------------------------------------------------------
(* The image of a finite set under a function is finite.                   *)
LEMMA FiniteImage == ASSUME NEW f, IsFiniteSet(DOMAIN f)
                     PROVE  IsFiniteSet({f[x] : x \in DOMAIN f})
  <1> DEFINE image == {f[x] : x \in DOMAIN f}
             g == [x \in DOMAIN f |-> f[x]]
  <1>1. g \in Surjection(DOMAIN f, image) BY DEF Surjection
  <1>2. QED BY <1>1, FS_Surjection

(* A finite addressbook that NetSuite has numbered, or has not yet.        *)
IsBook(lines, ids) == lines \subseteq Lines(ids) /\ IsFiniteSet(lines)

(* The one line that is the default of a kind.                             *)
OneBilling(lines) == \E b \in lines : \A line \in lines : line.billing <=> line = b

OneShipping(lines) == \E s \in lines : \A line \in lines : line.shipping <=> line = s

HasDefaults(lines) == lines # {} => OneBilling(lines) /\ OneShipping(lines)

(* A line is found by its Shopify id, or is new.                           *)
LEMMA LineForType ==
    ASSUME NEW lines, IsBook(lines, LineIds), NEW address \in Addresses \cup {NoAddress},
           NEW billing \in BOOLEAN, NEW shipping \in BOOLEAN
    PROVE  /\ LineFor(lines, address, billing, shipping) \in Lines(Nat)
           /\ LineFor(lines, address, billing, shipping).billing = billing
           /\ LineFor(lines, address, billing, shipping).shipping = shipping
  <1> DEFINE matches == {l \in lines : l.gid = address.gid /\ address.gid # NoGid}
             same == {line.id : line \in matches}
  <1>1. IsFiniteSet(same) /\ same \in SUBSET Nat
    <2>1. IsFiniteSet(matches) BY FS_Subset DEF IsBook
    <2>2. IsFiniteSet(same)
      <3> DEFINE id == [l \in matches |-> l.id]
      <3>1. same = {id[l] : l \in DOMAIN id} OBVIOUS
      <3>2. IsFiniteSet(DOMAIN id) BY <2>1
      <3> HIDE DEF id
      <3>3. QED BY <3>1, <3>2, FiniteImage
    <2>3. QED BY <2>2 DEF IsBook, Lines, LineIds
  <1>2. Matching(lines, address.gid) \in Nat
    <2>1. CASE same = {} BY <2>1 DEF Matching, New
    <2>2. CASE same # {}
      <3>1. Max(same) \in Nat BY <1>1, <2>2, MaxOfNaturals
      <3>2. QED BY <2>2, <3>1 DEF Matching
    <2>3. QED BY <2>1, <2>2
  <1>3. address.gid \in Gids \cup {NoGid} BY DEF Addresses, NoAddress
  <1>4. QED BY <1>2, <1>3 DEF LineFor, Lines

(* The order's own lines: none, one default of both kinds, or one of each. *)
LEMMA IncomingDefaults ==
    ASSUME NEW lines, IsBook(lines, LineIds), NEW order \in OrderAddresses, NEW same \in BOOLEAN,
           same => Given(order.billing)
    PROVE  IsBook(Incoming(lines, order, same), Nat) /\ HasDefaults(Incoming(lines, order, same))
  <1> DEFINE billing == Given(order.billing)
             shipping == Given(order.shipping)
             incoming == Incoming(lines, order, same)
             line(address, b, s) == LineFor(lines, address, b, s)
  <1>1. order.billing \in Addresses \cup {NoAddress} /\ order.shipping \in Addresses \cup {NoAddress}
    BY DEF OrderAddresses
  <1>2. ASSUME NEW address \in Addresses \cup {NoAddress}, NEW b \in BOOLEAN, NEW s \in BOOLEAN
        PROVE  /\ line(address, b, s) \in Lines(Nat)
               /\ line(address, b, s).billing = b /\ line(address, b, s).shipping = s
    BY LineForType
  <1>3. ASSUME NEW l \in Lines(Nat), l.billing = TRUE, l.shipping = TRUE, incoming = {l}
        PROVE  IsBook(incoming, Nat) /\ HasDefaults(incoming)
    BY <1>3, FS_Singleton DEF IsBook, HasDefaults, OneBilling, OneShipping
  <1>4. CASE same
    BY <1>1, <1>2, <1>3, <1>4 DEF Incoming
  <1>5. CASE ~same /\ billing /\ shipping
    <2> DEFINE b == line(order.billing, TRUE, FALSE)
               s == line(order.shipping, FALSE, TRUE)
    <2>1. /\ b \in Lines(Nat) /\ b.billing = TRUE /\ b.shipping = FALSE
          /\ s \in Lines(Nat) /\ s.billing = FALSE /\ s.shipping = TRUE
      BY <1>1, <1>2
    <2>2. incoming = {b, s} BY <1>5 DEF Incoming
    <2>3. IsFiniteSet({b, s})
      <3>1. {b, s} = {b} \cup {s} OBVIOUS
      <3>2. IsFiniteSet({b}) BY FS_Singleton
      <3>3. IsFiniteSet({b} \cup {s}) BY <3>2, FS_AddElement
      <3>4. QED BY <3>1, <3>3, Zenon
    <2> HIDE DEF b, s, incoming
    <2>4. OneBilling({b, s}) BY <2>1 DEF OneBilling
    <2>5. OneShipping({b, s}) BY <2>1 DEF OneShipping
    <2>6. IsBook({b, s}, Nat) /\ HasDefaults({b, s}) BY <2>1, <2>3, <2>4, <2>5 DEF IsBook, HasDefaults
    <2>7. QED BY <2>2, <2>6 DEF incoming
  <1>6. CASE ~same /\ billing /\ ~shipping
    BY <1>1, <1>2, <1>3, <1>6 DEF Incoming
  <1>7. CASE ~same /\ ~billing /\ shipping
    BY <1>1, <1>2, <1>3, <1>7 DEF Incoming
  <1>8. CASE ~same /\ ~billing /\ ~shipping
    <2>1. incoming = {} BY <1>8 DEF Incoming
    <2>2. QED BY <2>1, FS_EmptySet DEF IsBook, HasDefaults
  <1>9. QED BY <1>4, <1>5, <1>6, <1>7, <1>8

(* The lines that are kept give up their defaults to the incoming ones.    *)
LEMMA PreservedDefaults ==
    ASSUME NEW lines, IsBook(lines, LineIds), NEW incoming, IsBook(incoming, Nat),
           HasDefaults(incoming), incoming # {}
    PROVE  /\ IsBook(Preserved(lines, incoming), LineIds)
           /\ \A line \in Preserved(lines, incoming) : line.billing = FALSE /\ line.shipping = FALSE
           /\ Ids(Preserved(lines, incoming)) = Ids(lines) \ Ids(incoming)
  <1> DEFINE kept == {l \in lines : l.id \notin {i.id : i \in incoming}}
             cleared(line) == [line EXCEPT !.billing = @ /\ \A l \in incoming : ~l.billing,
                                           !.shipping = @ /\ \A l \in incoming : ~l.shipping]
  <1>1. /\ ~(\A l \in incoming : ~l.billing)
        /\ ~(\A l \in incoming : ~l.shipping)
    BY DEF HasDefaults, OneBilling, OneShipping
  <1>2. ASSUME NEW line \in Lines(LineIds)
        PROVE  /\ cleared(line) \in Lines(LineIds) /\ cleared(line).id = line.id
               /\ cleared(line).billing = FALSE /\ cleared(line).shipping = FALSE
    <2>1. cleared(line) = [line EXCEPT !.billing = FALSE, !.shipping = FALSE]
      BY <1>1, Zenon
    <2>2. QED BY <2>1 DEF Lines
  <1>3. Preserved(lines, incoming) = {cleared(line) : line \in kept} BY DEF Preserved
  <1>4. kept \subseteq Lines(LineIds) /\ IsFiniteSet(kept) BY FS_Subset DEF IsBook
  <1>5. IsFiniteSet({cleared(line) : line \in kept})
    <2> DEFINE f == [line \in kept |-> cleared(line)]
    <2>1. {cleared(line) : line \in kept} = {f[line] : line \in DOMAIN f} OBVIOUS
    <2>2. IsFiniteSet(DOMAIN f) BY <1>4
    <2> HIDE DEF f
    <2>3. QED BY <2>1, <2>2, FiniteImage
  <1> HIDE DEF cleared
  <1>6. \A line \in Preserved(lines, incoming) :
           line \in Lines(LineIds) /\ line.billing = FALSE /\ line.shipping = FALSE
    <2> SUFFICES ASSUME NEW line \in Preserved(lines, incoming)
                 PROVE  line \in Lines(LineIds) /\ line.billing = FALSE /\ line.shipping = FALSE
      OBVIOUS
    <2>1. PICK l \in kept : line = cleared(l) BY <1>3
    <2>2. QED BY <1>2, <1>4, <2>1
  <1>7. Ids(Preserved(lines, incoming)) = {line.id : line \in kept}
    <2>1. Ids(Preserved(lines, incoming)) = {cleared(line).id : line \in kept}
      BY <1>3 DEF Ids
    <2>2. \A line \in kept : cleared(line).id = line.id BY <1>2, <1>4
    <2> HIDE DEF kept
    <2>3. QED BY <2>1, <2>2
  <1>8. {line.id : line \in kept} = Ids(lines) \ Ids(incoming) BY DEF Ids
  <1>9. QED BY <1>3, <1>5, <1>6, <1>7, <1>8 DEF IsBook

(* What is sent has one default of each kind; the merge sends every line   *)
(* that was read.                                                          *)
LEMMA MergedDefaults ==
    ASSUME NEW lines, IsBook(lines, LineIds), NEW order \in OrderAddresses
    PROVE  /\ IsBook(Merged(lines, order), Nat) /\ HasDefaults(Merged(lines, order))
           /\ Merged(lines, order) # {} => Ids(lines) \subseteq Ids(Merged(lines, order))
  <1> DEFINE same == SameIds(order) /\ Given(order.billing)
             incoming == Incoming(lines, order, same)
             preserved == Preserved(lines, incoming)
  <1>1. IsBook(incoming, Nat) /\ HasDefaults(incoming) BY IncomingDefaults
  <1> HIDE DEF same
  <1>2. CASE incoming = {}
    <2>1. Merged(lines, order) = {} BY <1>2 DEF Merged, same
    <2>2. QED BY <2>1, FS_EmptySet DEF IsBook, HasDefaults
  <1>3. CASE incoming # {}
    <2>1. Merged(lines, order) = incoming \cup preserved BY <1>3 DEF Merged, same
    <2>2. /\ IsBook(preserved, LineIds)
          /\ \A line \in preserved : line.billing = FALSE /\ line.shipping = FALSE
          /\ Ids(preserved) = Ids(lines) \ Ids(incoming)
      BY <1>1, <1>3, PreservedDefaults
    <2> HIDE DEF incoming, preserved
    <2>3. IsBook(incoming \cup preserved, Nat)
      BY <1>1, <2>2, FS_Union DEF IsBook, Lines, LineIds
    <2>4. OneBilling(incoming \cup preserved)
      BY <1>1, <1>3, <2>2 DEF HasDefaults, OneBilling
    <2>5. OneShipping(incoming \cup preserved)
      BY <1>1, <1>3, <2>2 DEF HasDefaults, OneShipping
    <2>6. Ids(lines) \subseteq Ids(incoming \cup preserved) BY <2>2 DEF Ids
    <2>7. QED BY <2>1, <2>3, <2>4, <2>5, <2>6 DEF HasDefaults
  <1>4. QED BY <1>2, <1>3

(* A change that leaves the defaults of every line leaves the book with    *)
(* one of each kind.                                                       *)
LEMMA ImageDefaults ==
    ASSUME NEW f, HasDefaults(DOMAIN f),
           \A line \in DOMAIN f : f[line].billing = line.billing /\ f[line].shipping = line.shipping
    PROVE  HasDefaults({f[line] : line \in DOMAIN f})
  <1> DEFINE lines == DOMAIN f
             image == {f[line] : line \in DOMAIN f}
  <1>1. SUFFICES ASSUME image # {} PROVE OneBilling(image) /\ OneShipping(image)
    BY DEF HasDefaults
  <1>2. OneBilling(lines) /\ OneShipping(lines) BY <1>1 DEF HasDefaults
  <1>3. OneBilling(image)
    <2>1. PICK b \in lines : \A line \in lines : line.billing <=> line = b
      BY <1>2 DEF OneBilling
    <2>2. f[b] \in image OBVIOUS
    <2>3. ASSUME NEW l \in image PROVE l.billing <=> l = f[b]
      <3>1. PICK line \in lines : l = f[line] OBVIOUS
      <3>2. CASE line = b BY <2>1, <3>1, <3>2
      <3>3. CASE line # b
        <4>1. ~line.billing /\ b.billing BY <2>1, <3>3
        <4>2. ~f[line].billing /\ f[b].billing BY <4>1
        <4>3. QED BY <3>1, <4>2
      <3>4. QED BY <3>2, <3>3
    <2> HIDE DEF image
    <2>4. QED BY <2>2, <2>3 DEF OneBilling
  <1>4. OneShipping(image)
    <2>1. PICK s \in lines : \A line \in lines : line.shipping <=> line = s
      BY <1>2 DEF OneShipping
    <2>2. f[s] \in image OBVIOUS
    <2>3. ASSUME NEW l \in image PROVE l.shipping <=> l = f[s]
      <3>1. PICK line \in lines : l = f[line] OBVIOUS
      <3>2. CASE line = s BY <2>1, <3>1, <3>2
      <3>3. CASE line # s
        <4>1. ~line.shipping /\ s.shipping BY <2>1, <3>3
        <4>2. ~f[line].shipping /\ f[s].shipping BY <4>1
        <4>3. QED BY <3>1, <4>2
      <3>4. QED BY <3>2, <3>3
    <2> HIDE DEF image
    <2>4. QED BY <2>2, <2>3 DEF OneShipping
  <1>5. QED BY <1>3, <1>4

(* The upsert without the merge sends the order's own lines.               *)
LEMMA LegacyDefaults ==
    ASSUME NEW order \in OrderAddresses
    PROVE  IsBook(Legacy(order), Nat) /\ HasDefaults(Legacy(order))
  <1> DEFINE same == Given(order.billing) /\ order.billing.content = order.shipping.content
             incoming == Incoming({}, order, same)
             unstamped == [line \in incoming |-> [line EXCEPT !.gid = NoGid]]
  <1>1. IsBook(incoming, Nat) /\ HasDefaults(incoming)
    <2>1. IsBook({}, LineIds) BY FS_EmptySet DEF IsBook
    <2>2. QED BY <2>1, IncomingDefaults
  <1>2. Legacy(order) = {unstamped[line] : line \in DOMAIN unstamped} BY DEF Legacy
  <1> HIDE DEF incoming
  <1>3. \A line \in incoming :
           /\ unstamped[line] \in Lines(Nat)
           /\ unstamped[line].billing = line.billing /\ unstamped[line].shipping = line.shipping
    BY <1>1 DEF IsBook, Lines
  <1>4. DOMAIN unstamped = incoming OBVIOUS
  <1> HIDE DEF unstamped
  <1>5. IsBook(Legacy(order), Nat) BY <1>1, <1>2, <1>3, <1>4, FiniteImage DEF IsBook
  <1>6. HasDefaults(Legacy(order))
    <2>1. HasDefaults(DOMAIN unstamped) BY <1>1, <1>4
    <2>2. HasDefaults({unstamped[line] : line \in DOMAIN unstamped})
      BY <1>3, <1>4, <2>1, ImageDefaults
    <2>3. QED BY <1>2, <2>2, Zenon
  <1>7. QED BY <1>5, <1>6

(* NetSuite numbers the lines it stores and keeps their defaults.          *)
LEMMA StoredDefaults ==
    ASSUME IsBook(book, LineIds), NEW lines, IsBook(lines, Nat), HasDefaults(lines)
    PROVE  /\ IsBook(Stored(lines), LineIds) /\ HasDefaults(Stored(lines))
           /\ Ids(lines) \ {New} \subseteq Ids(Stored(lines))
  <1> DEFINE numbered == [line \in lines |->
                            IF line.id # New THEN line
                            ELSE [line EXCEPT !.id = LastId + (IF line.billing THEN 1 ELSE 2)]]
  <1>1. LastId \in Nat
    <2>1. CASE book = {} BY <2>1 DEF LastId
    <2>2. CASE book # {}
      <3> DEFINE id == [line \in book |-> line.id]
      <3>1. Ids(book) = {id[line] : line \in DOMAIN id} /\ DOMAIN id = book BY DEF Ids
      <3>2. IsFiniteSet(Ids(book))
        <4> HIDE DEF id
        <4>1. QED BY <3>1, FiniteImage DEF IsBook
      <3>3. Ids(book) \in SUBSET Nat /\ Ids(book) # {} BY <2>2 DEF Ids, IsBook, Lines, LineIds
      <3>4. QED BY <2>2, <3>2, <3>3, MaxOfNaturals DEF LastId
    <2>3. QED BY <2>1, <2>2
  <1>2. Stored(lines) = {numbered[line] : line \in DOMAIN numbered} /\ DOMAIN numbered = lines
    BY DEF Stored
  <1>3. \A line \in lines :
           /\ numbered[line] \in Lines(LineIds)
           /\ numbered[line].billing = line.billing /\ numbered[line].shipping = line.shipping
           /\ line.id # New => numbered[line].id = line.id
    <2> SUFFICES ASSUME NEW line \in lines
                 PROVE  /\ numbered[line] \in Lines(LineIds)
                        /\ numbered[line].billing = line.billing
                        /\ numbered[line].shipping = line.shipping
                        /\ line.id # New => numbered[line].id = line.id
      OBVIOUS
    <2>1. line \in Lines(Nat) BY DEF IsBook
    <2>2. CASE line.id # New BY <2>1, <2>2 DEF Lines, LineIds
    <2>3. CASE line.id = New
      <3>1. LastId + (IF line.billing THEN 1 ELSE 2) \in LineIds BY <1>1 DEF LineIds, New
      <3>2. QED BY <2>1, <2>3, <3>1 DEF Lines
    <2>4. QED BY <2>2, <2>3
  <1> HIDE DEF numbered
  <1>4. IsBook(Stored(lines), LineIds) BY <1>2, <1>3, FiniteImage DEF IsBook
  <1>5. HasDefaults(Stored(lines))
    <2>1. HasDefaults(DOMAIN numbered) BY <1>2
    <2>2. HasDefaults({numbered[line] : line \in DOMAIN numbered})
      BY <1>2, <1>3, <2>1, ImageDefaults
    <2>3. QED BY <1>2, <2>2, Zenon
  <1>6. Ids(lines) \ {New} \subseteq Ids(Stored(lines)) BY <1>2, <1>3 DEF Ids
  <1>7. QED BY <1>4, <1>5, <1>6

-----------------------------------------------------------------------------
(***************************************************************************)
(* The inductive invariant of the addressbook: its lines are numbered and  *)
(* finitely many, in NetSuite and in what each order has read of it, and   *)
(* those in NetSuite have one default of each kind.  What an order has read *)
(* needs no defaults: the incoming lines take them over.                   *)
(***************************************************************************)
BookInv ==
    /\ IsBook(book, LineIds) /\ HasDefaults(book)
    /\ seen \in [Orders -> SUBSET Lines(LineIds)]
    /\ \A o \in Orders : IsBook(seen[o], LineIds)

LEMMA BookInit == Init => BookInv
  BY FS_EmptySet DEF Init, BookInv, IsBook, HasDefaults

(* NetSuite's effect on the addressbook.                                   *)
LEMMA EffectKeepsBook ==
    ASSUME BookInv, NEW o \in Orders, Effect(o)
    PROVE  /\ IsBook(book', LineIds) /\ HasDefaults(book')
           /\ merging => \A id \in Ids(book) \ Ids(book') : step[o] = "upsert" /\ id \notin Ids(seen[o])
  <1>1. AddressesOf[o] \in OrderAddresses BY NetSuiteAssumption
  <1>2. IsBook(seen[o], LineIds) BY DEF BookInv
  <1>3. IsBook(Payload(o), Nat) /\ HasDefaults(Payload(o))
    BY <1>1, <1>2, MergedDefaults, LegacyDefaults DEF Payload
  <1>4. CASE step[o] = "upsert" /\ Payload(o) # {}
    <2>1. book' = Stored(Payload(o)) BY <1>4 DEF Effect
    <2>2. /\ IsBook(Stored(Payload(o)), LineIds) /\ HasDefaults(Stored(Payload(o)))
          /\ Ids(Payload(o)) \ {New} \subseteq Ids(Stored(Payload(o)))
      BY <1>3, StoredDefaults DEF BookInv
    <2>3. ASSUME merging, NEW id \in Ids(book) \ Ids(book') PROVE id \notin Ids(seen[o])
      <3>1. id # New BY DEF BookInv, IsBook, Ids, Lines, LineIds
      <3>2. Payload(o) = Merged(seen[o], AddressesOf[o]) BY <2>3 DEF Payload
      <3>3. Ids(seen[o]) \subseteq Ids(Payload(o)) BY <1>1, <1>2, <1>4, <3>2, MergedDefaults
      <3>4. QED BY <2>1, <2>2, <2>3, <3>1, <3>3
    <2>4. IsBook(book', LineIds) /\ HasDefaults(book') BY <2>1, <2>2, Zenon
    <2>5. QED BY <1>4, <2>3, <2>4
  <1>5. CASE ~(step[o] = "upsert" /\ Payload(o) # {})
    <2>1. book' = book BY <1>5 DEF Effect, netsuite
    <2>2. IsBook(book', LineIds) /\ HasDefaults(book') BY <2>1 DEF BookInv
    <2>3. Ids(book) \ Ids(book') = {} BY <2>1 DEF Ids
    <2>4. QED BY <2>2, <2>3
  <1>6. QED BY <1>4, <1>5

(* Every step writes the addressbook through NetSuite's effect, or leaves it. *)
LEMMA BookStep ==
    ASSUME BookInv, [Next]_vars
    PROVE  /\ BookInv'
           /\ \/ book' = book
              \/ \E o \in Orders : phase[o] = "request" /\ Effect(o)
  <1> DEFINE Written == \/ book' = book
                        \/ \E o \in Orders : phase[o] = "request" /\ Effect(o)
             Reading == /\ seen' \in [Orders -> SUBSET Lines(LineIds)]
                        /\ \A o \in Orders : IsBook(seen'[o], LineIds)
  <1>1. /\ seen \in [Orders -> SUBSET Lines(LineIds)]
        /\ \A o \in Orders : IsBook(seen[o], LineIds)
        /\ IsBook(book, LineIds) /\ IsBook({}, LineIds)
    BY FS_EmptySet DEF BookInv, IsBook
  <1>2. ASSUME UNCHANGED <<book, seen>> PROVE Written /\ Reading
    BY <1>1, <1>2
  <1>3. ASSUME NEW o \in Orders, NEW lines, IsBook(lines, LineIds), seen' = [seen EXCEPT ![o] = lines]
        PROVE  Reading
    <2>1. lines \in SUBSET Lines(LineIds) BY <1>3 DEF IsBook
    <2>2. seen' \in [Orders -> SUBSET Lines(LineIds)] BY <1>1, <1>3, <2>1
    <2>3. ASSUME NEW p \in Orders PROVE IsBook(seen'[p], LineIds)
      <3>1. seen'[p] = IF p = o THEN lines ELSE seen[p] BY <1>1, <1>3
      <3>2. QED BY <1>1, <1>3, <3>1
    <2>4. QED BY <2>2, <2>3
  <1>4. Written /\ Reading
    <2>1. CASE UNCHANGED vars BY <1>2, <2>1 DEF vars, netsuite
    <2>2. CASE Next
      <3>1. PICK o \in Orders : Work(o) \/ RequestFails(o) BY <2>2 DEF Next
      <3>2. CASE Begin(o) BY <1>2, <3>2 DEF Begin, netsuite
      <3>3. CASE ClientReady(o) BY <1>2, <3>3 DEF ClientReady, netsuite
      <3>4. CASE TryAcquire(o) BY <1>2, <3>4 DEF TryAcquire, netsuite
      <3>5. CASE PollAgain(o) BY <1>2, <3>5 DEF PollAgain, netsuite
      <3>6. CASE GiveUp(o) BY <1>2, <3>6 DEF GiveUp, netsuite
      <3>7. CASE Respond(o)
        <4>1. Written BY <3>7 DEF Respond
        <4>2. PICK lines \in {book, {}} : seen' = [seen EXCEPT ![o] = lines]
          BY <3>7 DEF Respond
        <4>3. IsBook(lines, LineIds) BY <1>1
        <4>4. Reading BY <1>3, <4>2, <4>3
        <4>5. QED BY <4>1, <4>4
      <3>8. CASE Rejected(o) BY <1>2, <3>8 DEF Rejected, netsuite
      <3>9. CASE Redeliver(o)
        <4>1. book' = book /\ seen' = [seen EXCEPT ![o] = {}] BY <3>9 DEF Redeliver, netsuite
        <4>2. QED BY <1>1, <1>3, <4>1
      <3>10. CASE RequestFails(o)
        <4>1. UNCHANGED seen BY <3>10 DEF RequestFails
        <4>2. Reading BY <1>1, <4>1
        <4>3. Written BY <3>10 DEF RequestFails, netsuite
        <4>4. QED BY <4>2, <4>3
      <3>11. QED BY <3>1, <3>2, <3>3, <3>4, <3>5, <3>6, <3>7, <3>8, <3>9, <3>10 DEF Work
    <2>3. QED BY <2>1, <2>2
  <1>5. IsBook(book', LineIds) /\ HasDefaults(book')
    <2>1. CASE book' = book BY <2>1 DEF BookInv
    <2>2. CASE \E o \in Orders : phase[o] = "request" /\ Effect(o) BY <2>2, EffectKeepsBook
    <2>3. QED BY <1>4, <2>1, <2>2
  <1>6. QED BY <1>4, <1>5 DEF BookInv

LEMMA BookInvHolds == Spec => []BookInv
  <1>1. BookInv /\ [Next]_vars => BookInv' BY BookStep
  <1>2. QED BY <1>1, BookInit, PTL DEF Spec

(***************************************************************************)
(* An addressbook that has lines has one default of each kind, whatever    *)
(* imports of the customer overlap (mergeAddressbook, buildLegacyAddressbook). *)
(***************************************************************************)
THEOREM DefaultsAreKept == Spec => []OneDefaultOfEachKind
  <1>1. BookInv => OneDefaultOfEachKind
    <2> SUFFICES ASSUME BookInv, book # {}
                 PROVE  /\ Cardinality({line \in book : line.billing}) = 1
                        /\ Cardinality({line \in book : line.shipping}) = 1
      BY DEF OneDefaultOfEachKind
    <2>1. PICK b \in book : \A line \in book : line.billing <=> line = b
      BY DEF BookInv, HasDefaults, OneBilling
    <2>2. PICK s \in book : \A line \in book : line.shipping <=> line = s
      BY DEF BookInv, HasDefaults, OneShipping
    <2>3. {line \in book : line.billing} = {b} BY <2>1
    <2>4. {line \in book : line.shipping} = {s} BY <2>2
    <2>5. QED BY <2>3, <2>4, FS_Singleton
  <1>2. QED BY <1>1, BookInvHolds, PTL

(***************************************************************************)
(* A line of the addressbook is lost only to an import that read the book  *)
(* before the line was there: the merge sends every line it was given.     *)
(***************************************************************************)
THEOREM MergeLosesToOverlapOnly == Spec => LinesAreLostToOverlapOnly
  <1> DEFINE Lost == merging => \A id \in Ids(book) \ Ids(book') :
                        \E o \in Orders : step[o] = "upsert" /\ phase[o] = "request" /\ id \notin Ids(seen[o])
  <1>1. BookInv /\ [Next]_vars => [Lost]_vars
    <2> SUFFICES ASSUME BookInv, [Next]_vars PROVE Lost OBVIOUS
    <2>1. CASE book' = book BY <2>1 DEF Ids
    <2>2. CASE \E o \in Orders : phase[o] = "request" /\ Effect(o) BY <2>2, EffectKeepsBook
    <2>3. QED BY <2>1, <2>2, BookStep
  <1>2. QED BY <1>1, BookInvHolds, PTL DEF Spec, LinesAreLostToOverlapOnly

=============================================================================
