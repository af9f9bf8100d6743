-------------------------------- MODULE Cart --------------------------------
(***************************************************************************)
(* The lines a client's cart has at one provider, and the stored total of  *)
(* them that a checkout charges. A mutation is a READ COMMITTED            *)
(* transaction that writes one line, adds up all of them and stores the    *)
(* sum: what it writes is seen by others when it commits, and the lines    *)
(* and rows it has written are locked until then. A line is the units of   *)
(* one product; its amount, their number times the price of its snapshot,  *)
(* is reduced to that number.                                              *)
(*                                                                         *)
(* Whether upsert() locks a row it finds depends on the SQL that Prisma    *)
(* makes of it: no lock is assumed, which allows whatever a lock would.    *)
(***************************************************************************)
EXTENDS Naturals, FiniteSetsExt

CONSTANTS
  Line,         \* products of the provider, and the city each is sold in
  City, cityOf,
  MaxQuantity,  \* bound: units of a line
  Call,         \* the client's mutations that may overlap
  None          \* null: no city; no mutation; no order

\* Assumed of every instance.
LinesAreSold ==
  /\ IsFiniteSet(Line) /\ cityOf \in [Line -> City] /\ None \notin City
  /\ MaxQuantity \in Nat \ {0}

VARIABLES
  active, city,  \* of the CartGroup: status = 'ACTIVE', cityId
  line,          \* committed quantities (0: no row)
  group, total,  \* whether there is a CartProvider row, and its total
  call,          \* what a mutation is doing, or None
  checkout,      \* what a checkout has read
  order,         \* the order that was created, or None
  crossed        \* history: two mutations of different lines, or one and the
                 \* reading of a checkout, were under way at once

cartVars ==
  <<active, city, line, group, total, call, checkout, order, crossed>>

Quantity == 1..MaxQuantity
Lines == [Line -> 0..MaxQuantity]
Sums == 0..(MaxQuantity * Cardinality(Line))
Units(lines) == MapThenSumSet(LAMBDA l : lines[l], Line)

Mutation == [kind : {"add", "update", "remove"}, line : Line, quantity : 0..MaxQuantity,
             cityless : BOOLEAN, opens : BOOLEAN, found : BOOLEAN,
             at : {"begin", "read", "written", "summed"}, sum : Sums]
Reading == [at : {"idle", "provider", "items"}, subtotal : Sums, items : Lines]
NoReading == [at |-> "idle", subtotal |-> 0, items |-> [l \in Line |-> 0]]

Init ==
  /\ active = TRUE /\ city = None /\ line = [l \in Line |-> 0]
  /\ group = FALSE /\ total = 0
  /\ call = [c \in Call |-> None] /\ checkout = NoReading /\ order = None
  /\ crossed = FALSE

At(c, places) == call[c] # None /\ call[c].at \in places
Others(c) == {o \in Call \ {c} : At(o, {"read", "written", "summed"})}
Step(c, mutation) == call' = [call EXCEPT ![c] = mutation]

\* What is read before the transaction: the cart is active, and the line is in it.
Begin(c, kind, l, q) ==
  /\ active /\ call[c] = None
  /\ IF kind = "add" THEN city \in {None, cityOf[l]} ELSE line[l] > 0
  /\ Step(c, [kind |-> kind, line |-> l, quantity |-> IF kind = "remove" THEN 0 ELSE q,
              cityless |-> kind = "add" /\ city = None, opens |-> FALSE,
              found |-> kind # "add", at |-> "begin", sum |-> 0])
  /\ UNCHANGED <<active, city, line, group, total, checkout, order, crossed>>

\* The city is set, the provider group found or made, and the line looked for.
OpenGroup(c) ==
  LET t == call[c] IN
  /\ At(c, {"begin"}) /\ t.kind = "add"
  /\ \A o \in Others(c) : ~(t.cityless /\ call[o].cityless) /\ ~call[o].opens
  /\ line[t.line] + t.quantity <= MaxQuantity
  /\ Step(c, [t EXCEPT !.at = "read", !.opens = ~group, !.found = line[t.line] > 0,
                       !.quantity = line[t.line] + t.quantity])
  /\ UNCHANGED <<active, city, line, group, total, checkout, order, crossed>>

\* The row is locked by whoever has written it, and has to be there, or not to be.
WriteLine(c) ==
  LET t == call[c] IN
  /\ \/ At(c, {"read"}) /\ (group \/ t.opens)
     \/ At(c, {"begin"}) /\ t.kind # "add"
  /\ \A o \in Call \ {c} : At(o, {"written", "summed"}) => call[o].line # t.line
  /\ t.found <=> line[t.line] > 0
  /\ Step(c, [t EXCEPT !.at = "written"])
  /\ crossed' = (crossed \/ \E o \in Call \ {c} : At(o, {"written", "summed"}))
  /\ UNCHANGED <<active, city, line, group, total, checkout, order>>

\* Mutant of Seen: the lines are read by another connection than the transaction's.
SeenOutside(c) == line

Seen(c) == [line EXCEPT ![call[c].line] = call[c].quantity]

RecalculateCartProvider(c) ==
  /\ At(c, {"written"})
  /\ Step(c, [call[c] EXCEPT !.at = "summed", !.sum = Units(Seen(c))])
  /\ UNCHANGED <<active, city, line, group, total, checkout, order, crossed>>

\* A mutation that will find its line or its group gone, even if it is made anew.
Loses(o, removed, empties) ==
  /\ At(o, {"begin", "read"})
  /\ (call[o].found /\ call[o].line = removed) \/ (empties /\ call[o].at = "read")

\* The total is stored, and a group that has lost its last line is deleted, which the
\* foreign key of any other line forbids; then the transaction commits.
StoreAndCommit(c) ==
  LET t == call[c]
      empties == t.kind = "remove" /\ t.sum = 0
  IN
  /\ At(c, {"summed"}) /\ (group \/ t.opens)
  /\ empties =>
       /\ \A l \in Line \ {t.line} : line[l] = 0
       /\ \A o \in Others(c) : call[o].at = "read"
  /\ line' = [line EXCEPT ![t.line] = t.quantity]
  /\ total' = t.sum /\ group' = ~empties
  /\ city' = IF t.cityless THEN cityOf[t.line] ELSE city
  /\ crossed' = (crossed \/ checkout.at = "provider")
  /\ call' = [o \in Call |->
       IF o = c \/ (t.kind = "remove" /\ Loses(o, t.line, empties)) THEN None ELSE call[o]]
  /\ UNCHANGED <<active, checkout, order>>

\* Refused, or rolled back: a row is gone or came to be meanwhile, a deadlock, a crash.
Abort(c) ==
  /\ call[c] # None /\ Step(c, None)
  /\ UNCHANGED <<active, city, line, group, total, checkout, order, crossed>>

(***************************************************************************)
(* The checkout as far as the cart goes; the rest is StockCheckout's.      *)
(***************************************************************************)
ReadCart ==
  /\ checkout.at = "idle" /\ active /\ group
  /\ checkout' = [checkout EXCEPT !.at = "provider", !.subtotal = total]
  /\ UNCHANGED <<active, city, line, group, total, call, order, crossed>>

\* The lines are included by a statement of their own; an empty group is left out.
ReadItems ==
  /\ checkout.at = "provider"
  /\ checkout' = IF Units(line) = 0 THEN NoReading
                 ELSE [checkout EXCEPT !.at = "items", !.items = line]
  /\ UNCHANGED <<active, city, line, group, total, call, order, crossed>>

\* It waits for an addition that is setting the city of the cart.
CreateOrder ==
  /\ checkout.at = "items"
  /\ \A c \in Call : At(c, {"read", "written", "summed"}) => ~call[c].cityless
  /\ order' = [subtotal |-> checkout.subtotal, items |-> checkout.items]
  /\ checkout' = NoReading /\ active' = FALSE
  /\ UNCHANGED <<city, line, group, total, call, crossed>>

Next ==
  \/ \E c \in Call :
       \/ \E kind \in {"add", "update", "remove"}, l \in Line, q \in Quantity : Begin(c, kind, l, q)
       \/ OpenGroup(c) \/ WriteLine(c) \/ RecalculateCartProvider(c)
       \/ StoreAndCommit(c) \/ Abort(c)
  \/ ReadCart \/ ReadItems \/ CreateOrder

Spec == Init /\ [][Next]_cartVars

-----------------------------------------------------------------------------
Ordered == [subtotal : Sums, items : Lines]

TypeOK ==
  /\ active \in BOOLEAN /\ city \in City \cup {None} /\ line \in Lines
  /\ group \in BOOLEAN /\ total \in Sums
  /\ call \in [Call -> Mutation \cup {None}]
  /\ checkout \in Reading
  /\ order = None \/ order \in Ordered
  /\ crossed \in BOOLEAN

\* A client is charged the sum of what is ordered, and shown the sum of what is in the
\* cart, however mutations of one line overlap: only mutations of different lines that
\* are under way at once, or one that commits between the two readings of a checkout,
\* can make the total another.
TotalIsOfLines ==
  ~crossed =>
    /\ group => total = Units(line)
    /\ order # None => order.subtotal = Units(order.items)
=============================================================================
