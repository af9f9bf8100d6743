------------------------ MODULE StockCheckoutProofs ------------------------
(***************************************************************************)
(* Theorems about StockCheckout, for every value of its constants: any     *)
(* number of overlapping requests, keys, clients and crashes.              *)
(***************************************************************************)
EXTENDS StockCheckout, TLAPS

\* The keys of the orders are unique, the handlers of created orders know their own,
\* and an answer is an order of the request's key and of its client.
KeysUnique == \A q, r \in created : KeyOf[q] = KeyOf[r] => q = r

CreatorsCreated ==
  \A r \in Request : place[r] \in {"created", "reserved"} => r \in created

AnswersMatch ==
  \A r \in Answered :
    /\ answer[r] \in created
    /\ KeyOf[answer[r]] = KeyOf[r] /\ ClientOf[answer[r]] = ClientOf[r]

KeyInv ==
  /\ created \subseteq Request
  /\ place \in [Request -> Place]
  /\ answer \in [Request -> Request \cup {Nobody}]
  /\ KeysUnique /\ CreatorsCreated /\ AnswersMatch

\* A request that is answered with an order of its key keeps the invariant.
LEMMA AnswerStep ==
  ASSUME KeyInv, NEW r \in Request, NEW q \in created, KeyOf[q] = KeyOf[r],
         AnswerWith(r, q), UNCHANGED created
  PROVE  KeyInv'
<1> USE ConstantsAssumption DEF KeyInv, AnswerWith
<1>1. /\ place' \in [Request -> Place]
      /\ answer' \in [Request -> Request \cup {Nobody}]
  BY DEF Place
<1>2. (KeysUnique /\ CreatorsCreated)'
  BY DEF KeysUnique, CreatorsCreated
<1>3. AnswersMatch'
  BY DEF AnswersMatch, Answered
<1> QED
  BY <1>1, <1>2, <1>3

\* Only the transaction that inserts the order adds to the orders, and only if no
\* order has the key.
LEMMA CreateStep ==
  ASSUME KeyInv, NEW r \in Request, CreateOrder(r)
  PROVE  KeyInv'
<1> USE DEF KeyInv, CreateOrder, OrdersOfKey
<1>1. place' \in [Request -> Place] /\ created' \subseteq Request
  BY DEF Place
<1>2. KeysUnique'
  BY DEF KeysUnique
<1>3. CreatorsCreated'
  BY DEF CreatorsCreated
<1>4. AnswersMatch'
  BY DEF AnswersMatch, Answered
<1> QED
  BY <1>1, <1>2, <1>3, <1>4

\* Every step preserves the invariant.
LEMMA KeyStep == KeyInv /\ [Next]_vars => KeyInv'
<1> SUFFICES ASSUME KeyInv, [Next]_vars PROVE KeyInv'
  OBVIOUS
<1>1. ASSUME UNCHANGED <<place, created, answer>> PROVE KeyInv'
  BY <1>1 DEF KeyInv, KeysUnique, CreatorsCreated, AnswersMatch, Answered
<1>2. ASSUME UNCHANGED <<created, answer>>, NEW r \in Request, NEW next \in Place,
             place' = [place EXCEPT ![r] = next],
             next \in {"created", "reserved"} => r \in created
      PROVE  KeyInv'
  BY <1>2 DEF KeyInv, KeysUnique, CreatorsCreated, AnswersMatch, Answered
<1>3. ASSUME NEW r \in Request, Lookup(r) PROVE KeyInv'
  <2>1. CASE \E q \in OrdersOfKey(KeyOf[r]) : AnswerWith(r, q)
    BY <1>3, <2>1, AnswerStep DEF Lookup, OrdersOfKey
  <2>2. CASE place' = [place EXCEPT ![r] = "looked"] /\ UNCHANGED answer
    BY <1>2, <1>3, <2>2 DEF Lookup, Place
  <2> QED
    BY <1>3, <2>1, <2>2 DEF Lookup
<1>4. ASSUME NEW r \in Request, ValidateCart(r) \/ Refuse(r) \/ Crash(r) PROVE KeyInv'
  BY <1>2, <1>4 DEF ValidateCart, Refuse, Crash, Place
<1>5. ASSUME NEW r \in Request, Reserve(r) PROVE KeyInv'
  <2>1. r \in created
    BY <1>5 DEF Reserve, KeyInv, CreatorsCreated
  <2> QED
    BY <1>2, <1>5, <2>1 DEF Reserve, Place
<1>6. ASSUME NEW r \in Request, Reply(r) PROVE KeyInv'
  <2>1. r \in created
    BY <1>6 DEF Reply, KeyInv, CreatorsCreated
  <2> QED
    BY <1>6, <2>1, AnswerStep DEF Reply
<1>7. ASSUME NEW r \in Request, ReplyDuplicate(r) PROVE KeyInv'
  BY <1>7, AnswerStep DEF ReplyDuplicate, OrdersOfKey
<1>8. CASE \/ \E c \in Client : FindNoCart(c) \/ OpenCart(c)
           \/ \E r \in Request : Lapse(r) \/ SettleOrder(r)
           \/ UNCHANGED vars
  BY <1>1, <1>8 DEF FindNoCart, OpenCart, Lapse, SettleOrder, vars
<1> QED
  BY <1>3, <1>4, <1>5, <1>6, <1>7, <1>8, CreateStep DEF Next

\* So it holds in every reachable state.
LEMMA KeyCorrect == Spec => []KeyInv
<1>1. Init => KeyInv
  BY DEF Init, KeyInv, KeysUnique, CreatorsCreated, AnswersMatch, Answered, Place
<1> QED
  BY <1>1, KeyStep, PTL DEF Spec

\* Nobody orders twice by retrying: every answered request of a key is answered with
\* the same order.
THEOREM RetriesAgreeAlways == Spec => []RetriesAgree
<1>1. KeyInv => RetriesAgree
  BY DEF KeyInv, KeysUnique, AnswersMatch, RetriesAgree, Answered
<1> QED
  BY KeyCorrect, <1>1, PTL

\* No client is shown another client's order, whichever keys they use.
THEOREM AnswersAreOwn == Spec => []AnswerIsOwn
<1>1. KeyInv => AnswerIsOwn
  BY DEF KeyInv, AnswersMatch, AnswerIsOwn
<1> QED
  BY KeyCorrect, <1>1, PTL

-----------------------------------------------------------------------------
(***************************************************************************)
(* Carts. A cart is named by its position, which never changes: carts are  *)
(* appended, and the one a handler has read is still there when it commits.*)
(***************************************************************************)
CartRows == carts \in [Client -> Seq({"ACTIVE", "CHECKED_OUT"})]

ReadersHaveCart ==
  \A r \in Request :
    r \in created \/ place[r] = "validated" => cart[r] \in DOMAIN carts[ClientOf[r]]

OnlyLaterCreated ==
  \A r \in created : place[r] \notin {"sent", "looked", "validated"}

CartInv ==
  /\ created \subseteq Request
  /\ place \in [Request -> Place]
  /\ cart \in [Request -> Nat]
  /\ CartRows /\ ReadersHaveCart /\ OnlyLaterCreated /\ CheckedOutIsOrdered

\* A new cart is active, and moves none of those before it.
LEMMA OpenStep ==
  ASSUME CartInv, NEW c \in Client, OpenCart(c)
  PROVE  CartInv'
<1> USE ConstantsAssumption DEF CartInv, CartRows
<1>1. /\ carts' = [carts EXCEPT ![c] = Append(carts[c], "ACTIVE")]
      /\ UNCHANGED <<place, cart, created>>
  BY DEF OpenCart
<1>2. CartRows'
  BY <1>1
<1>3. ASSUME NEW d \in Client
      PROVE  /\ DOMAIN carts[d] \subseteq DOMAIN carts'[d]
             /\ \A n \in DOMAIN carts[d] : carts'[d][n] = carts[d][n]
             /\ \A n \in DOMAIN carts'[d] \ DOMAIN carts[d] : carts'[d][n] = "ACTIVE"
  BY <1>1
<1>4. ReadersHaveCart'
  BY <1>1, <1>3 DEF ReadersHaveCart
<1>5. CheckedOutIsOrdered'
  <2> SUFFICES ASSUME NEW d \in Client, NEW n \in DOMAIN carts'[d]
               PROVE  carts'[d][n] = "CHECKED_OUT"
                        <=> \E q \in created : ClientOf[q] = d /\ cart[q] = n
    BY <1>1 DEF CheckedOutIsOrdered
  <2>1. CASE n \in DOMAIN carts[d]
    BY <1>3, <2>1 DEF CheckedOutIsOrdered
  <2>2. CASE n \notin DOMAIN carts[d]
    BY <1>3, <2>2 DEF ReadersHaveCart
  <2> QED
    BY <2>1, <2>2
<1> QED
  BY <1>1, <1>2, <1>4, <1>5 DEF OnlyLaterCreated

\* The transaction that inserts the order closes the cart its handler has read.
LEMMA CloseStep ==
  ASSUME CartInv, NEW r \in Request, CreateOrder(r)
  PROVE  CartInv'
<1> USE ConstantsAssumption DEF CartInv, CartRows
<1>1. /\ place[r] = "validated" /\ cart' = cart
      /\ place' \in [Request -> Place]
      /\ \A q \in Request : q # r => place'[q] = place[q]
      /\ place'[r] \in {"outOfStock", "created", "duplicate"}
  BY DEF CreateOrder, Place
<1>2. CASE UNCHANGED <<created, carts>>
  BY <1>1, <1>2 DEF ReadersHaveCart, OnlyLaterCreated, CheckedOutIsOrdered
<1>3. CASE /\ created' = created \cup {r}
           /\ carts' = [carts EXCEPT ![ClientOf[r]][cart[r]] = "CHECKED_OUT"]
  <2>1. cart[r] \in DOMAIN carts[ClientOf[r]]
    BY <1>1 DEF ReadersHaveCart
  <2>2. CartRows' /\ \A d \in Client : DOMAIN carts'[d] = DOMAIN carts[d]
    BY <1>3, <2>1
  <2>3. \A d \in Client : \A n \in DOMAIN carts[d] :
          carts'[d][n] = IF d = ClientOf[r] /\ n = cart[r] THEN "CHECKED_OUT" ELSE carts[d][n]
    BY <1>3, <2>1
  <2>4. ReadersHaveCart'
    BY <1>1, <1>3, <2>1, <2>2 DEF ReadersHaveCart
  <2>5. OnlyLaterCreated'
    BY <1>1, <1>3 DEF OnlyLaterCreated
  <2>6. CheckedOutIsOrdered'
    BY <1>1, <1>3, <2>2, <2>3 DEF CheckedOutIsOrdered
  <2> QED
    BY <1>1, <1>3, <2>2, <2>4, <2>5, <2>6
<1> QED
  BY <1>2, <1>3 DEF CreateOrder

\* Every step preserves the invariant.
LEMMA CartStep == CartInv /\ [Next]_vars => CartInv'
<1> SUFFICES ASSUME CartInv, [Next]_vars PROVE CartInv'
  OBVIOUS
<1> USE ConstantsAssumption
<1>1. ASSUME UNCHANGED <<created, carts, cart>>, NEW r \in Request, NEW next \in Place,
             place' = [place EXCEPT ![r] = next],
             next # "validated",
             r \in created => next \notin {"sent", "looked"}
      PROVE  CartInv'
  BY <1>1 DEF CartInv, CartRows, ReadersHaveCart, OnlyLaterCreated, CheckedOutIsOrdered
<1>2. ASSUME UNCHANGED <<place, created, carts, cart>> PROVE CartInv'
  BY <1>2 DEF CartInv, CartRows, ReadersHaveCart, OnlyLaterCreated, CheckedOutIsOrdered
<1>3. ASSUME NEW r \in Request, Lookup(r) PROVE CartInv'
  <2>1. r \notin created
    BY <1>3 DEF Lookup, CartInv, OnlyLaterCreated
  <2> QED
    BY <1>1, <1>3, <2>1 DEF Lookup, AnswerWith, cartVars, Place
<1>4. ASSUME NEW r \in Request, ValidateCart(r) PROVE CartInv'
  <2> DEFINE n == Len(carts[ClientOf[r]])
  <2>1. /\ r \notin created
        /\ n \in Nat /\ n \in DOMAIN carts[ClientOf[r]]
        /\ cart' = [cart EXCEPT ![r] = n] /\ place' = [place EXCEPT ![r] = "validated"]
        /\ UNCHANGED <<created, carts>>
    BY <1>4 DEF ValidateCart, CartInv, CartRows, OnlyLaterCreated, cartVars
  <2> QED
    BY <2>1 DEF CartInv, CartRows, ReadersHaveCart, OnlyLaterCreated, CheckedOutIsOrdered,
       Place
<1>5. ASSUME NEW r \in Request, Refuse(r) \/ Reserve(r) \/ Crash(r) PROVE CartInv'
  BY <1>1, <1>5 DEF Refuse, Reserve, Crash, cartVars, Place
<1>6. ASSUME NEW r \in Request, Reply(r) \/ ReplyDuplicate(r) PROVE CartInv'
  BY <1>1, <1>6 DEF Reply, ReplyDuplicate, AnswerWith, cartVars, Place
<1>7. CASE \/ \E c \in Client : FindNoCart(c)
           \/ \E r \in Request : Lapse(r) \/ SettleOrder(r)
           \/ UNCHANGED vars
  BY <1>2, <1>7 DEF FindNoCart, Lapse, SettleOrder, cartVars, vars
<1> QED
  BY <1>3, <1>4, <1>5, <1>6, <1>7, OpenStep, CloseStep DEF Next

LEMMA CartCorrect == Spec => []CartInv
<1>1. Init => CartInv
  BY DEF Init, CartInv, CartRows, ReadersHaveCart, OnlyLaterCreated, CheckedOutIsOrdered, Place
<1> QED
  BY <1>1, CartStep, PTL DEF Spec

\* A checkout that fails, at whatever step and in whatever overlap, closes no cart.
THEOREM CheckedOutIsOrderedAlways == Spec => []CheckedOutIsOrdered
  BY CartCorrect, PTL DEF CartInv

-----------------------------------------------------------------------------
(***************************************************************************)
(* Types. Stock stays in Nat because a settlement takes only what is there *)
(* and a client has no more than MaxCarts carts, those being opened        *)
(* included. The length of a list of carts needs to know that it is one    *)
(* (CartInv), and which of them a checkout closes.                         *)
(***************************************************************************)
LEMMA UnitsNat ==
  ASSUME NEW requests \in SUBSET Request, NEW p \in Product
  PROVE  Units[requests][p] \in Nat
  BY ConstantsAssumption

LEMMA TypeStep ==
  ASSUME TypeOK, CartInv, [Next]_vars
  PROVE  TypeOK'
<1> USE ConstantsAssumption DEF TypeOK
<1>1. ASSUME NEW c \in Client, FindNoCart(c) PROVE TypeOK'
  <2>1. /\ Len(carts[c]) \in Nat /\ Len(carts[c]) + opening[c] < MaxCarts
        /\ opening' = [opening EXCEPT ![c] = opening[c] + 1]
        /\ UNCHANGED <<place, cart, created, reservation, lapsed, stock, carts, answer, faults>>
    BY <1>1 DEF FindNoCart, CartInv, CartRows
  <2> QED
    BY <2>1 DEF CartInv, CartRows
<1>2. ASSUME NEW c \in Client, OpenCart(c) PROVE TypeOK'
  <2>1. /\ opening[c] > 0 /\ opening' = [opening EXCEPT ![c] = opening[c] - 1]
        /\ carts' = [carts EXCEPT ![c] = Append(carts[c], "ACTIVE")]
        /\ UNCHANGED <<place, cart, created, reservation, lapsed, stock, answer, faults>>
    BY <1>2 DEF OpenCart
  <2>2. /\ Len(carts[c]) \in Nat /\ Len(carts'[c]) = Len(carts[c]) + 1
        /\ \A n \in DOMAIN carts'[c] : carts'[c][n] \in {"ACTIVE", "CHECKED_OUT"}
    BY <2>1 DEF CartInv, CartRows
  <2>3. opening' \in [Client -> 0..MaxCarts]
    BY <2>1
  <2>4. \A d \in Client : /\ Len(carts'[d]) + opening'[d] <= MaxCarts
                          /\ \A n \in DOMAIN carts'[d] :
                               carts'[d][n] \in {"ACTIVE", "CHECKED_OUT"}
    BY <2>1, <2>2 DEF CartInv, CartRows
  <2> QED
    BY <2>1, <2>3, <2>4
<1>3. ASSUME NEW r \in Request, CreateOrder(r) PROVE TypeOK'
  <2>1. /\ place' \in [Request -> Place] /\ created' \subseteq Request
        /\ UNCHANGED <<cart, reservation, lapsed, stock, opening, answer, faults>>
    BY <1>3 DEF CreateOrder, Place
  <2>2. \A c \in Client : /\ Len(carts'[c]) = Len(carts[c])
                          /\ \A n \in DOMAIN carts'[c] :
                               carts'[c][n] \in {"ACTIVE", "CHECKED_OUT"}
    <3>1. CASE carts' = carts
      BY <3>1
    <3>2. CASE carts' = [carts EXCEPT ![ClientOf[r]][cart[r]] = "CHECKED_OUT"]
      BY <3>2 DEF CartInv, CartRows
    <3> QED
      BY <1>3, <3>1, <3>2 DEF CreateOrder
  <2> QED
    BY <2>1, <2>2
<1>4. ASSUME NEW r \in Request, ValidateCart(r) PROVE TypeOK'
  <2> DEFINE n == Len(carts[ClientOf[r]])
  <2>1. n \in 0..MaxCarts
    BY DEF CartInv, CartRows
  <2>2. /\ cart' = [cart EXCEPT ![r] = n] /\ place' = [place EXCEPT ![r] = "validated"]
        /\ UNCHANGED <<created, reservation, lapsed, stock, carts, opening, answer, faults>>
    BY <1>4 DEF ValidateCart, cartVars
  <2> QED
    BY <2>1, <2>2 DEF Place
<1>5. ASSUME NEW r \in Request, Lookup(r) \/ Reply(r) \/ ReplyDuplicate(r) PROVE TypeOK'
  <2>1. UNCHANGED <<cart, created, reservation, lapsed, stock, carts, opening, faults>>
    BY <1>5 DEF Lookup, Reply, ReplyDuplicate, cartVars
  <2>2. \/ \E q \in created \cup {r} : AnswerWith(r, q)
        \/ place' = [place EXCEPT ![r] = "looked"] /\ answer' = answer
    BY <1>5 DEF Lookup, Reply, ReplyDuplicate, OrdersOfKey
  <2>3. place' \in [Request -> Place] /\ answer' \in [Request -> Request \cup {Nobody}]
    <3> HIDE DEF TypeOK
    <3>1. /\ place \in [Request -> Place] /\ answer \in [Request -> Request \cup {Nobody}]
          /\ created \subseteq Request
      BY DEF TypeOK
    <3> QED
      BY <2>2, <3>1 DEF AnswerWith, Place
  <2> QED
    BY <2>1, <2>3
<1>6. ASSUME NEW r \in Request, Refuse(r) \/ Reserve(r) \/ Crash(r) \/ Lapse(r) PROVE TypeOK'
  <2>1. UNCHANGED <<cart, created, stock, carts, opening, answer>>
    BY <1>6 DEF Refuse, Reserve, Crash, Lapse, cartVars
  <2>2. /\ place' \in [Request -> Place] /\ lapsed' \subseteq Request /\ faults' \in 0..MaxFaults
        /\ reservation' \in [Request -> {"NONE", "ACTIVE", "CONSUMED"}]
    <3> HIDE DEF TypeOK
    <3>1. /\ place \in [Request -> Place] /\ lapsed \subseteq Request /\ faults \in 0..MaxFaults
          /\ reservation \in [Request -> {"NONE", "ACTIVE", "CONSUMED"}]
      BY DEF TypeOK
    <3> QED
      BY <1>6, <3>1 DEF Refuse, Reserve, Crash, Lapse, Place
  <2> QED
    BY <2>1, <2>2
<1>7. ASSUME NEW r \in Request, SettleOrder(r) PROVE TypeOK'
  <2>1. /\ UNCHANGED <<place, cart, created, lapsed, carts, opening, answer, faults>>
        /\ reservation' = [reservation EXCEPT ![r] = "CONSUMED"]
        /\ stock' = [p \in Product |-> stock[p] - Units[{r}][p]]
        /\ \A p \in Product : stock[p] >= Units[{r}][p]
    BY <1>7 DEF SettleOrder, cartVars
  <2>2. ASSUME NEW p \in Product PROVE stock[p] - Units[{r}][p] \in Nat
    <3>1. stock[p] \in Nat
      OBVIOUS
    <3>2. Units[{r}][p] \in Nat
      <4>1. {r} \in SUBSET Request
        OBVIOUS
      <4> QED
        BY <4>1, UnitsNat, Zenon
    <3>3. stock[p] >= Units[{r}][p]
      BY <2>1
    <3>4. \A m, n \in Nat : m >= n => m - n \in Nat
      OBVIOUS
    <3> QED
      BY <3>1, <3>2, <3>3, <3>4, Zenon
  <2> QED
    BY <2>1, <2>2
<1>8. CASE UNCHANGED vars
  BY <1>8 DEF vars, cartVars
<1> QED
  BY <1>1, <1>2, <1>3, <1>4, <1>5, <1>6, <1>7, <1>8 DEF Next

\* Stock is never negative, however checkouts and settlements of several orders overlap,
\* and a client never has more carts than the bound.
THEOREM CheckoutTypes == Spec => []TypeOK
<1>1. Init => TypeOK
  BY ConstantsAssumption DEF Init, TypeOK, Place
<1>2. TypeOK /\ CartInv /\ [Next]_vars => TypeOK'
  BY TypeStep
<1> QED
  BY CartCorrect, <1>1, <1>2, PTL DEF Spec
-----------------------------------------------------------------------------
(***************************************************************************)
(* OrderPlacement is implemented. A request is answered in its last step   *)
(* (AnsweredAtEnd), so an answer is never replaced; a key that is unused   *)
(* when the order is inserted names that order from then on (KeyInv); and  *)
(* the cart that is closed with it is one of the client's (CartInv).       *)
(***************************************************************************)
AnsweredAtEnd == \A r \in Answered : place[r] = "answered"

PlacementInv == TypeOK /\ KeyInv /\ CartInv /\ AnsweredAtEnd

LEMMA AnsweredStep == PlacementInv /\ [Next]_vars => AnsweredAtEnd'
<1> SUFFICES ASSUME PlacementInv, [Next]_vars PROVE AnsweredAtEnd'
  OBVIOUS
<1> USE DEF PlacementInv, TypeOK, AnsweredAtEnd, Answered
<1>1. ASSUME NEW r \in Request, NEW q \in created, place[r] # "answered", AnswerWith(r, q)
      PROVE  AnsweredAtEnd'
  BY <1>1 DEF AnswerWith
<1>2. ASSUME NEW r \in Request, place[r] # "answered", UNCHANGED answer,
             \A p \in Request \ {r} : place'[p] = place[p]
      PROVE  AnsweredAtEnd'
  BY <1>2
<1>3. CASE UNCHANGED <<place, answer>>
  BY <1>3
<1>4. ASSUME NEW r \in Request, Lookup(r) \/ Reply(r) \/ ReplyDuplicate(r)
      PROVE  AnsweredAtEnd'
  BY <1>1, <1>2, <1>4 DEF Lookup, Reply, ReplyDuplicate, OrdersOfKey, KeyInv, CreatorsCreated
<1>5. ASSUME NEW r \in Request,
             ValidateCart(r) \/ Refuse(r) \/ CreateOrder(r) \/ Reserve(r) \/ Crash(r)
      PROVE  AnsweredAtEnd'
  BY <1>2, <1>5 DEF ValidateCart, Refuse, CreateOrder, Reserve, Crash, InProgress, Done
<1>6. CASE \/ \E c \in Client : FindNoCart(c) \/ OpenCart(c)
           \/ \E r \in Request : Lapse(r) \/ SettleOrder(r)
           \/ UNCHANGED vars
  BY <1>3, <1>6 DEF FindNoCart, OpenCart, Lapse, SettleOrder, vars
<1> QED
  BY <1>4, <1>5, <1>6 DEF Next

\* The order that has a key is the one the key names.
LEMMA KeyNamesOrder ==
  ASSUME KeyInv, NEW q \in created
  PROVE  OrderOf[KeyOf[q]] = q
BY ConstantsAssumption DEF KeyInv, KeysUnique, OrderOf, OrdersOfKey

LEMMA NobodyIsNoOrder == ASSUME KeyInv, NEW q \in created PROVE q \in Request /\ q # Nobody
BY ConstantsAssumption DEF KeyInv

\* Whoever is answered is shown what the key of the request names.
LEMMA AnswerShows ==
  ASSUME PlacementInv, NEW r \in Request, NEW q \in created, KeyOf[q] = KeyOf[r],
         place[r] # "answered", AnswerWith(r, q), UNCHANGED <<created, carts>>
  PROVE  [Placement!Next]_(Placement!vars)
<1>1. KeyOf[r] \in Key /\ answer[r] = Nobody
  BY ConstantsAssumption DEF PlacementInv, AnsweredAtEnd, Answered
<1>2. OrderOf' = OrderOf
  BY DEF OrderOf, OrdersOfKey
<1>3. ClosedCarts' = ClosedCarts
  BY DEF ClosedCarts
<1>4. OrderOf[KeyOf[r]] = q /\ q # Nobody
  BY KeyNamesOrder, NobodyIsNoOrder DEF PlacementInv
<1>5. CASE ClientOf[q] = ClientOf[r]
  <2>1. answer' = [answer EXCEPT ![r] = q]
    BY <1>5 DEF AnswerWith
  <2>2. Placement!ShowOrder(r)
    BY <1>1, <1>2, <1>3, <1>4, <1>5, <2>1 DEF Placement!ShowOrder
  <2> QED
    BY <2>2 DEF Placement!Next
<1>6. CASE ClientOf[q] # ClientOf[r]
  <2>1. answer' = answer
    BY <1>6 DEF AnswerWith, PlacementInv, TypeOK
  <2> QED
    BY <1>2, <1>3, <2>1 DEF Placement!vars
<1> QED
  BY <1>5, <1>6

\* The transaction that inserts an order takes the key and closes a cart in one step.
LEMMA CreatePlaces ==
  ASSUME PlacementInv, PlacementInv', NEW r \in Request, CreateOrder(r)
  PROVE  [Placement!Next]_(Placement!vars)
<1> DEFINE n == cart[r]
<1>1. CASE UNCHANGED <<created, carts>>
  BY <1>1 DEF CreateOrder, OrderOf, OrdersOfKey, ClosedCarts, Placement!vars
<1>2. CASE /\ OrdersOfKey(KeyOf[r]) = {}
           /\ created' = created \cup {r}
           /\ carts' = [carts EXCEPT ![ClientOf[r]][n] = "CHECKED_OUT"]
  <2>1. KeyOf[r] \in Key /\ ClientOf[r] \in Client
    BY ConstantsAssumption
  <2>2. OrderOf[KeyOf[r]] = Nobody
    BY <1>2, <2>1 DEF OrderOf
  <2>3. OrderOf'[KeyOf[r]] = r
    <3>1. OrdersOfKey(KeyOf[r])' = {r}
      BY <1>2 DEF OrdersOfKey
    <3> QED
      BY <2>1, <3>1 DEF OrderOf
  <2>4. ASSUME NEW k \in Key, k # KeyOf[r] PROVE OrderOf'[k] = OrderOf[k]
    <3>1. OrdersOfKey(k)' = OrdersOfKey(k)
      BY <1>2, <2>4 DEF OrdersOfKey
    <3> QED
      BY <2>4, <3>1 DEF OrderOf
  <2>5. OrderOf' = [OrderOf EXCEPT ![KeyOf[r]] = r]
    <3>1. OrderOf = [k \in Key |-> OrderOf[k]]
      BY DEF OrderOf
    <3>2. OrderOf' = [k \in Key |-> OrderOf'[k]]
      BY DEF OrderOf
    <3> QED
      BY <2>3, <2>4, <3>1, <3>2
  <2>6. n \in DOMAIN carts[ClientOf[r]] /\ carts[ClientOf[r]] \in Seq({"ACTIVE", "CHECKED_OUT"})
    BY <2>1 DEF CreateOrder, PlacementInv, CartInv, CartRows, ReadersHaveCart
  <2>7. n \in 1..MaxCarts
    <3>1. Len(carts[ClientOf[r]]) <= MaxCarts /\ Len(carts[ClientOf[r]]) \in Nat
      <4>1. Len(carts[ClientOf[r]]) + opening[ClientOf[r]] <= MaxCarts
        BY <2>1 DEF PlacementInv, TypeOK
      <4>2. opening[ClientOf[r]] \in Nat
        BY <2>1, ConstantsAssumption DEF PlacementInv, TypeOK
      <4> QED
        BY <2>6, <4>1, <4>2, ConstantsAssumption
    <3> QED
      BY <2>6, <3>1, ConstantsAssumption
  <2>8. ClosedCarts'[ClientOf[r]] = ClosedCarts[ClientOf[r]] \cup {n}
    <3>1. carts'[ClientOf[r]] = [carts[ClientOf[r]] EXCEPT ![n] = "CHECKED_OUT"]
      BY <1>2, <2>1 DEF PlacementInv, CartInv, CartRows
    <3> QED
      BY <2>1, <2>6, <3>1 DEF ClosedCarts
  <2>9. ASSUME NEW c \in Client, c # ClientOf[r] PROVE ClosedCarts'[c] = ClosedCarts[c]
    BY <1>2, <2>9 DEF ClosedCarts, PlacementInv, CartInv, CartRows
  <2>10. ClosedCarts' = [ClosedCarts EXCEPT ![ClientOf[r]] = @ \cup {n}]
    <3>1. ClosedCarts = [c \in Client |-> ClosedCarts[c]]
      BY DEF ClosedCarts
    <3>2. ClosedCarts' = [c \in Client |-> ClosedCarts'[c]]
      BY DEF ClosedCarts
    <3> QED
      BY <2>8, <2>9, <3>1, <3>2
  <2>11. UNCHANGED answer
    BY DEF CreateOrder
  <2>12. Placement!PlaceOrder(r)
    BY <2>1, <2>2, <2>5, <2>7, <2>10, <2>11 DEF Placement!PlaceOrder
  <2> QED
    BY <2>12 DEF Placement!Next
<1> QED
  BY <1>1, <1>2 DEF CreateOrder

\* Every step is one of OrderPlacement, or changes nothing that an observer sees.
LEMMA PlacementStep ==
  PlacementInv /\ PlacementInv' /\ [Next]_vars => [Placement!Next]_(Placement!vars)
<1> SUFFICES ASSUME PlacementInv, PlacementInv', [Next]_vars
             PROVE  [Placement!Next]_(Placement!vars)
  OBVIOUS
<1>1. CASE UNCHANGED <<created, carts, answer>>
  BY <1>1 DEF OrderOf, OrdersOfKey, ClosedCarts, Placement!vars
<1>2. ASSUME NEW c \in Client, OpenCart(c) PROVE [Placement!Next]_(Placement!vars)
  <2>1. carts' = [carts EXCEPT ![c] = Append(@, "ACTIVE")]
    BY <1>2 DEF OpenCart
  <2>2. ASSUME NEW d \in Client PROVE ClosedCarts'[d] = ClosedCarts[d]
    <3>1. carts[d] \in Seq({"ACTIVE", "CHECKED_OUT"})
      BY DEF PlacementInv, CartInv, CartRows
    <3>2. carts'[d] = IF d = c THEN Append(carts[d], "ACTIVE") ELSE carts[d]
      BY <2>1 DEF PlacementInv, CartInv, CartRows
    <3>3. \A n : n \in DOMAIN carts'[d] /\ carts'[d][n] = "CHECKED_OUT"
                  <=> n \in DOMAIN carts[d] /\ carts[d][n] = "CHECKED_OUT"
      BY <3>1, <3>2
    <3>4. ClosedCarts[d] = {n \in DOMAIN carts[d] : carts[d][n] = "CHECKED_OUT"}
      BY DEF ClosedCarts
    <3>5. ClosedCarts'[d] = {n \in DOMAIN carts'[d] : carts'[d][n] = "CHECKED_OUT"}
      BY DEF ClosedCarts
    <3> QED
      BY <3>3, <3>4, <3>5
  <2>3. ClosedCarts' = ClosedCarts
    <3>1. ClosedCarts = [d \in Client |-> ClosedCarts[d]]
      BY DEF ClosedCarts
    <3>2. ClosedCarts' = [d \in Client |-> ClosedCarts'[d]]
      BY DEF ClosedCarts
    <3> QED
      BY <2>2, <3>1, <3>2
  <2> QED
    BY <1>2, <2>3 DEF OpenCart, OrderOf, OrdersOfKey, Placement!vars
<1>3. ASSUME NEW r \in Request, Lookup(r) \/ Reply(r) \/ ReplyDuplicate(r)
      PROVE  [Placement!Next]_(Placement!vars)
  <2>1. CASE UNCHANGED answer
    BY <1>1, <1>3, <2>1 DEF Lookup, Reply, ReplyDuplicate, cartVars
  <2>2. CASE \E q \in OrdersOfKey(KeyOf[r]) : AnswerWith(r, q)
    <3>1. place[r] # "answered" /\ UNCHANGED <<created, carts>>
      BY <1>3 DEF Lookup, Reply, ReplyDuplicate, cartVars
    <3> QED
      BY <2>2, <3>1, AnswerShows DEF OrdersOfKey
  <2> QED
    BY <1>3, <2>1, <2>2 DEF Lookup, Reply, ReplyDuplicate, OrdersOfKey, PlacementInv, KeyInv,
       CreatorsCreated
<1>4. ASSUME NEW r \in Request, ValidateCart(r) \/ Refuse(r) \/ Reserve(r) \/ Crash(r)
      PROVE  [Placement!Next]_(Placement!vars)
  BY <1>1, <1>4 DEF ValidateCart, Refuse, Reserve, Crash, cartVars
<1>5. CASE \/ \E c \in Client : FindNoCart(c)
           \/ \E r \in Request : Lapse(r) \/ SettleOrder(r)
           \/ UNCHANGED vars
  BY <1>1, <1>5 DEF FindNoCart, Lapse, SettleOrder, cartVars, vars
<1> QED
  BY <1>2, <1>3, <1>4, <1>5, CreatePlaces DEF Next

LEMMA PlacementStarts == Init => Placement!Init
<1> SUFFICES ASSUME Init PROVE Placement!Init
  OBVIOUS
<1>1. OrderOf = [k \in Key |-> Nobody]
  BY DEF Init, OrderOf, OrdersOfKey
<1>2. ClosedCarts = [c \in Client |-> {}]
  BY DEF Init, ClosedCarts
<1> QED
  BY <1>1, <1>2 DEF Init, Placement!Init

\* A key takes one order for good, in the step that closes the cart, and a request is shown
\* once what its key names, if that is its client's: for any number of requests, keys,
\* clients and crashes.
THEOREM PlacementImplemented == Spec => ImplementsPlacement
<1>1. ASSUME Init PROVE AnsweredAtEnd
  <2>1. \A r \in Request : answer[r] = Nobody
    BY <1>1 DEF Init
  <2> QED
    BY <2>1 DEF AnsweredAtEnd, Answered
<1>2. TypeOK /\ KeyInv /\ CartInv /\ AnsweredAtEnd <=> PlacementInv
  BY DEF PlacementInv
<1> QED
  BY <1>1, <1>2, CheckoutTypes, KeyCorrect, CartCorrect, AnsweredStep, PlacementStarts,
     PlacementStep, PTL DEF Spec, ImplementsPlacement, Placement!Spec
=============================================================================
