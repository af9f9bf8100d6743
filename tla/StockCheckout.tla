--------------------------- MODULE StockCheckout ---------------------------
(***************************************************************************)
(* Checkout of a client's cart under an Idempotency-Key: the look-up of an *)
(* earlier order of the key, the validation of the cart, the transaction   *)
(* that creates the order, the reservations written after it, and what the *)
(* client is answered; with them the opening of carts, the lapse of the    *)
(* reservations and the settlements that consume them.                     *)
(*                                                                         *)
(* An order is named by the request that created it. A request is sent     *)
(* once: a retry is another request with the same key.                     *)
(***************************************************************************)
EXTENDS Naturals, Sequences

CONSTANTS
  Request, Client, Product, Key,
  KeyOf, ClientOf,   \* the Idempotency-Key and the client of a request
  Units,             \* units of a product in the carts of a set of requests
  Nobody,            \* no answer
  MaxStock,          \* bound on a product's initial stock
  MaxCarts,          \* bound on the carts a client opens
  MaxFaults          \* bound on the crashes

ASSUME ConstantsAssumption ==
  /\ ClientOf \in [Request -> Client]
  /\ KeyOf \in [Request -> Key]
  /\ Units \in [SUBSET Request -> [Product -> Nat]]
  /\ \A A, B \in SUBSET Request : A \cap B = {} =>
        \A p \in Product : Units[A \cup B][p] = Units[A][p] + Units[B][p]
  /\ Nobody \notin Request
  /\ MaxStock \in Nat /\ MaxCarts \in Nat /\ MaxFaults \in Nat

VARIABLES
  place,        \* what the handler of a request does next
  cart,         \* the cart a request has read, by its position in carts
  created,      \* the orders
  reservation,  \* StockReservation.status of an order
  lapsed,       \* orders whose reservations are past expiresAt
  stock,        \* Product.stock
  carts,        \* the client's CartGroup rows, oldest first
  opening,      \* requests that found no active cart and will create one
  answer,       \* the order a request was answered with
  faults

cartVars == <<carts, opening>>
vars == <<place, cart, created, reservation, lapsed, stock, cartVars, answer, faults>>

Place == {"sent", "looked", "validated", "created", "reserved", "duplicate",
          "answered", "refused", "outOfStock", "crashed"}
Done == {"answered", "refused", "outOfStock", "crashed"}
InProgress(r) == place[r] \notin Done \cup {"sent"}

Init ==
  /\ place = [r \in Request |-> "sent"]
  /\ cart = [r \in Request |-> 0]
  /\ created = {}
  /\ reservation = [r \in Request |-> "NONE"]
  /\ lapsed = {}
  /\ stock \in [Product -> 0..MaxStock]
  /\ carts = [c \in Client |-> <<>>]
  /\ opening = [c \in Client |-> 0]
  /\ answer = [r \in Request |-> Nobody]
  /\ faults = 0

(***************************************************************************)
(* Carts: getOrCreateActiveCartGroup() looks for an active one, and        *)
(* creates it in a later statement.                                        *)
(***************************************************************************)
ActiveCarts(c) == {n \in DOMAIN carts[c] : carts[c][n] = "ACTIVE"}

FindNoCart(c) ==
  /\ ActiveCarts(c) = {}
  /\ Len(carts[c]) + opening[c] < MaxCarts
  /\ opening' = [opening EXCEPT ![c] = @ + 1]
  /\ UNCHANGED <<place, cart, created, reservation, lapsed, stock, carts, answer, faults>>

OpenCart(c) ==
  /\ opening[c] > 0
  /\ carts' = [carts EXCEPT ![c] = Append(@, "ACTIVE")]
  /\ opening' = [opening EXCEPT ![c] = @ - 1]
  /\ UNCHANGED <<place, cart, created, reservation, lapsed, stock, answer, faults>>

(***************************************************************************)
(* checkoutFromCart().                                                     *)
(***************************************************************************)
\* Mutant of OrdersOfKey: an order without reservations does not count.
ReservedOrdersOfKey(k) == {q \in created : KeyOf[q] = k /\ reservation[q] # "NONE"}

OrdersOfKey(k) == {q \in created : KeyOf[q] = k}

\* Mutant of AnswerWith: the order's client is not compared.
AnswerAnyone(r, q) ==
  /\ place' = [place EXCEPT ![r] = "answered"]
  /\ answer' = [answer EXCEPT ![r] = q]

\* The order found under the key is the answer, if it is the client's own.
AnswerWith(r, q) ==
  /\ place' = [place EXCEPT ![r] =
                 IF ClientOf[q] = ClientOf[r] THEN "answered" ELSE "refused"]
  /\ answer' = [answer EXCEPT ![r] = IF ClientOf[q] = ClientOf[r] THEN q ELSE @]

Lookup(r) ==
  /\ place[r] = "sent"
  /\ \/ \E q \in OrdersOfKey(KeyOf[r]) : AnswerWith(r, q)
     \/ /\ OrdersOfKey(KeyOf[r]) = {}
        /\ place' = [place EXCEPT ![r] = "looked"]
        /\ UNCHANGED answer
  /\ UNCHANGED <<cart, created, reservation, lapsed, stock, cartVars, faults>>

\* validateCartForCheckout() reads the client's newest cart, active or not.
ValidateCart(r) ==
  LET n == Len(carts[ClientOf[r]]) IN
  /\ place[r] = "looked"
  /\ n > 0 /\ carts[ClientOf[r]][n] = "ACTIVE"
  /\ cart' = [cart EXCEPT ![r] = n]
  /\ place' = [place EXCEPT ![r] = "validated"]
  /\ UNCHANGED <<created, reservation, lapsed, stock, cartVars, answer, faults>>

\* No cart, a cart that is not active, has no items or no active city, or an
\* address the delivery plan does not reach.
Refuse(r) ==
  /\ place[r] \in {"looked", "validated"}
  /\ place' = [place EXCEPT ![r] = "refused"]
  /\ UNCHANGED <<cart, created, reservation, lapsed, stock, cartVars, answer, faults>>

Reserved == {r \in Request : reservation[r] = "ACTIVE" /\ r \notin lapsed}

Available(r) ==
  \A p \in Product : Units[{r}][p] > 0 => stock[p] >= Units[Reserved][p] + Units[{r}][p]

\* Mutant of CreateOrder: the cart is closed outside the transaction.
CreateOrderApart(r) ==
  LET unused == OrdersOfKey(KeyOf[r]) = {} IN
  /\ place[r] = "validated"
  /\ place' = [place EXCEPT ![r] = IF ~Available(r) THEN "outOfStock"
                                   ELSE IF unused THEN "created" ELSE "duplicate"]
  /\ carts' = [carts EXCEPT ![ClientOf[r]][cart[r]] = "CHECKED_OUT"]
  /\ created' = IF Available(r) /\ unused THEN created \cup {r} ELSE created
  /\ UNCHANGED <<cart, reservation, lapsed, stock, opening, answer, faults>>

\* One transaction, serialised by the locks on its products and by the unique
\* index on the key. The stock is checked before the order is inserted.
CreateOrder(r) ==
  LET unused == OrdersOfKey(KeyOf[r]) = {} IN
  /\ place[r] = "validated"
  /\ place' = [place EXCEPT ![r] = IF ~Available(r) THEN "outOfStock"
                                   ELSE IF unused THEN "created" ELSE "duplicate"]
  /\ IF Available(r) /\ unused
       THEN /\ created' = created \cup {r}
            /\ carts' = [carts EXCEPT ![ClientOf[r]][cart[r]] = "CHECKED_OUT"]
       ELSE UNCHANGED <<created, carts>>
  /\ UNCHANGED <<cart, reservation, lapsed, stock, opening, answer, faults>>

\* reserveStockForOrder() runs after the transaction, without its locks.
Reserve(r) ==
  /\ place[r] = "created"
  /\ reservation' = [reservation EXCEPT ![r] = "ACTIVE"]
  /\ place' = [place EXCEPT ![r] = "reserved"]
  /\ UNCHANGED <<cart, created, lapsed, stock, cartVars, answer, faults>>

\* initiatePaymentSession() only reads the order again.
Reply(r) ==
  /\ place[r] = "reserved"
  /\ AnswerWith(r, r)
  /\ UNCHANGED <<cart, created, reservation, lapsed, stock, cartVars, faults>>

\* The insertion failed with P2002: the order of the key is looked up again.
ReplyDuplicate(r) ==
  /\ place[r] = "duplicate"
  /\ \E q \in OrdersOfKey(KeyOf[r]) : AnswerWith(r, q)
  /\ UNCHANGED <<cart, created, reservation, lapsed, stock, cartVars, faults>>

\* The process dies, or a statement fails: the client gets an error.
Crash(r) ==
  /\ InProgress(r) /\ faults < MaxFaults
  /\ place' = [place EXCEPT ![r] = "crashed"]
  /\ faults' = faults + 1
  /\ UNCHANGED <<cart, created, reservation, lapsed, stock, cartVars, answer>>

(***************************************************************************)
(* What becomes of the reservations: see ProviderPayment.                  *)
(***************************************************************************)
Lapse(q) ==
  /\ reservation[q] = "ACTIVE" /\ q \notin lapsed
  /\ lapsed' = lapsed \cup {q}
  /\ UNCHANGED <<place, cart, created, reservation, stock, cartVars, answer, faults>>

\* Mutant of SettleOrder: the decrement is not conditional.
SettleAnyway(q) ==
  /\ reservation[q] = "ACTIVE"
  /\ stock' = [p \in Product |-> stock[p] - Units[{q}][p]]
  /\ reservation' = [reservation EXCEPT ![q] = "CONSUMED"]
  /\ UNCHANGED <<place, cart, created, lapsed, cartVars, answer, faults>>

SettleOrder(q) ==
  /\ reservation[q] = "ACTIVE"
  /\ \A p \in Product : stock[p] >= Units[{q}][p]
  /\ stock' = [p \in Product |-> stock[p] - Units[{q}][p]]
  /\ reservation' = [reservation EXCEPT ![q] = "CONSUMED"]
  /\ UNCHANGED <<place, cart, created, lapsed, cartVars, answer, faults>>

Next ==
  \/ \E c \in Client : FindNoCart(c) \/ OpenCart(c)
  \/ \E r \in Request :
       \/ Lookup(r) \/ ValidateCart(r) \/ Refuse(r) \/ CreateOrder(r)
       \/ Reserve(r) \/ Reply(r) \/ ReplyDuplicate(r) \/ Crash(r)
       \/ Lapse(r) \/ SettleOrder(r)

Spec == Init /\ [][Next]_vars

-----------------------------------------------------------------------------
(***************************************************************************)
(* Properties.                                                             *)
(***************************************************************************)

\* Rows hold values of their columns' types, and stock is never negative.
TypeOK ==
  /\ place \in [Request -> Place]
  /\ cart \in [Request -> 0..MaxCarts]
  /\ created \subseteq Request
  /\ reservation \in [Request -> {"NONE", "ACTIVE", "CONSUMED"}]
  /\ lapsed \subseteq Request
  /\ stock \in [Product -> Nat]
  /\ \A c \in Client : /\ Len(carts[c]) + opening[c] <= MaxCarts
                       /\ \A n \in DOMAIN carts[c] : carts[c][n] \in {"ACTIVE", "CHECKED_OUT"}
  /\ opening \in [Client -> 0..MaxCarts]
  /\ answer \in [Request -> Request \cup {Nobody}]
  /\ faults \in 0..MaxFaults

Answered == {r \in Request : answer[r] # Nobody}

\* All the requests of one key that are answered, overlapping, repeated or retried
\* after a crash, are answered with the same order: nobody orders twice by retrying.
RetriesAgree ==
  \A r, q \in Answered : KeyOf[r] = KeyOf[q] => answer[r] = answer[q]

\* A client is never shown the order another client created under the same key.
AnswerIsOwn == \A r \in Answered : ClientOf[answer[r]] = ClientOf[r]

\* A cart is closed by an order and by nothing else: a checkout that fails, at
\* whatever step, leaves the client's cart as it was.
CheckedOutIsOrdered ==
  \A c \in Client : \A n \in DOMAIN carts[c] :
    carts[c][n] = "CHECKED_OUT" <=> \E q \in created : ClientOf[q] = c /\ cart[q] = n
-----------------------------------------------------------------------------
(***************************************************************************)
(* OrderPlacement is implemented: a key names the order created under it,  *)
(* and a cart is closed when its row says so.                              *)
(***************************************************************************)
OrderOf ==
  [k \in Key |-> IF OrdersOfKey(k) = {} THEN Nobody ELSE CHOOSE q \in OrdersOfKey(k) : TRUE]

ClosedCarts == [c \in Client |-> {n \in DOMAIN carts[c] : carts[c][n] = "CHECKED_OUT"}]

Placement == INSTANCE OrderPlacement WITH
  orderOf <- OrderOf, closed <- ClosedCarts, shown <- answer

\* However checkouts overlap, repeat, fail and die, an observer of keys, carts and answers
\* sees a key take one order, in the step that closes the cart and for good, and each
\* request shown once what its key then names, if that is its own client's: never another
\* client's order, and never one answer replaced by another.
ImplementsPlacement == Placement!Spec
=============================================================================
