------------------------------ MODULE Catalogue ------------------------------
(***************************************************************************)
(* A product of a provider under one reference: what the provider and the  *)
(* imports of the provider write of its row, what is sold of it, and the   *)
(* discount one client has on it. Each call reads first and writes with a  *)
(* later statement, without lock. Another reference is another product;    *)
(* names, pictures and categories are left out.                            *)
(***************************************************************************)
EXTENDS Integers

CONSTANTS
  Price,     \* unit prices and discounted ones
  MaxStock,  \* bound: units that a provider or a file states
  Request,   \* what update() may be asked to write
  File,      \* the rows that a file or a creation may state
  Call,      \* the provider's calls that may overlap
  None       \* null: no product, no discount, no call, nothing read


VARIABLES
  product,   \* the row, or None
  client,    \* discountPrice of the client's ProviderClientProductDiscount, or None
  inUse,     \* an order or the discount refers to the product
  job, row,  \* status of a ProductImportJob; the row of its payload
  call,      \* what a call has read
  counted,   \* history: the stock last stated, less what was sold since
  applied, overlapped  \* history: the job was applied; two applications overlapped

catalogueVars ==
  <<product, client, inUse, job, row, call, counted, applied, overlapped>>

Absent == -1    \* a field that the request does not name
Stock == 0..MaxStock
Product == [price : Price, discount : Price \cup {None}, stock : Stock]
Named(field, current) == IF field = Absent THEN current ELSE field

\* assertDiscountPriceValid()
Valid(price, discount) == IF discount = None THEN TRUE ELSE discount < price

\* A field is absent from a request, or null: that takes the discount away.
Dto == [price : Price \cup {Absent}, discount : Price \cup {Absent, None}, stock : Stock \cup {Absent}]

\* Assumed of every instance.
PricesAreNumbers ==
  /\ Price \subseteq Nat \ {0} /\ MaxStock \in Nat /\ None \notin Price
  /\ Request \subseteq Dto /\ File \subseteq Product

Init ==
  /\ product = None /\ client = None /\ inUse = FALSE
  /\ job = "NONE" /\ row = None
  /\ call = [c \in Call |-> None]
  /\ counted = 0 /\ applied = FALSE /\ overlapped = FALSE

Reading(c, kind) == IF call[c] = None THEN FALSE ELSE call[c].kind = kind
Reads(c, what) == call[c] = None /\ call' = [call EXCEPT ![c] = what]
Returns(c) == call' = [call EXCEPT ![c] = None]

-----------------------------------------------------------------------------
\* create(): a reference that is taken gets a suffix, or the insertion fails.
Create(r) ==
  /\ product = None /\ Valid(r.price, r.discount)
  /\ product' = r /\ counted' = r.stock
  /\ UNCHANGED <<client, inUse, job, row, call, applied, overlapped>>

\* update() reads the row and checks the discount that would result against the price.
Checked(dto) ==
  Valid(Named(dto.price, product.price),
        IF dto.discount \in {Absent, None} THEN product.discount ELSE dto.discount)

ReadForUpdate(c, dto) ==
  /\ product # None /\ Checked(dto)
  /\ Reads(c, [kind |-> "update", dto |-> dto, seen |-> product])
  /\ UNCHANGED <<product, client, inUse, job, row, counted, applied, overlapped>>

\* Mutant of Updated: the row that was read is written back.
UpdatedWhole(c) ==
  LET dto == call[c].dto
      seen == call[c].seen
  IN  [price |-> Named(dto.price, seen.price), discount |-> Named(dto.discount, seen.discount),
       stock |-> Named(dto.stock, seen.stock)]

\* Only the fields that the request names are written.
Updated(c) ==
  LET dto == call[c].dto IN
  [price |-> Named(dto.price, product.price),
   discount |-> Named(dto.discount, product.discount),
   stock |-> Named(dto.stock, product.stock)]

Update(c) ==
  /\ Reading(c, "update") /\ product # None
  /\ product' = Updated(c)
  /\ counted' = Named(call[c].dto.stock, counted)
  /\ Returns(c)
  /\ UNCHANGED <<client, inUse, job, row, applied, overlapped>>

\* remove(): a product that is referred to stays; an update under way finds it gone.
Remove ==
  /\ product # None /\ ~inUse
  /\ product' = None
  /\ call' = [c \in Call |->
       IF Reading(c, "update") \/ Reading(c, "discount") THEN None ELSE call[c]]
  /\ UNCHANGED <<client, inUse, job, row, counted, applied, overlapped>>

\* The product is ordered and paid elsewhere.
Sell ==
  /\ product # None /\ product.stock > 0
  /\ product' = [product EXCEPT !.stock = @ - 1]
  /\ counted' = counted - 1 /\ inUse' = TRUE
  /\ UNCHANGED <<client, job, row, call, applied, overlapped>>

-----------------------------------------------------------------------------
(***************************************************************************)
(* The discount of the client, checked against a price that may change.    *)
(***************************************************************************)
ReadForDiscount(c, discount) ==
  /\ product # None /\ Valid(product.price, discount)
  /\ Reads(c, [kind |-> "discount", price |-> discount])
  /\ UNCHANGED <<product, client, inUse, job, row, counted, applied, overlapped>>

UpsertClientDiscount(c) ==
  /\ Reading(c, "discount") /\ product # None
  /\ client' = call[c].price /\ inUse' = TRUE /\ Returns(c)
  /\ UNCHANGED <<product, job, row, counted, applied, overlapped>>

-----------------------------------------------------------------------------
(***************************************************************************)
(* An import: a file of one row is validated, and applied later.           *)
(***************************************************************************)
ValidateImport(r) ==
  /\ job = "NONE" /\ row' = r
  /\ job' = IF Valid(r.price, r.discount) THEN "VALIDATED" ELSE "FAILED"
  /\ UNCHANGED <<product, client, inUse, call, counted, applied, overlapped>>

\* Mutant of Applicable: a job can be applied again.
ApplicableUnlessFailed == job \in {"VALIDATED", "APPLIED"}

Applicable == job = "VALIDATED"

ReadJob(c) ==
  /\ Applicable
  /\ Reads(c, [kind |-> "apply"])
  /\ overlapped' = (overlapped \/ \E o \in Call \ {c} : Reading(o, "apply"))
  /\ UNCHANGED <<product, client, inUse, job, row, counted, applied>>

\* The transaction writes the whole row of the file, whatever the product has become.
ApplyImport(c) ==
  /\ Reading(c, "apply")
  /\ product' = row /\ counted' = IF applied THEN counted ELSE row.stock
  /\ job' = "APPLIED" /\ applied' = TRUE
  /\ Returns(c)
  /\ UNCHANGED <<client, inUse, row, overlapped>>

\* A refusal, an error or a crash; the transaction of an import rolls back.
Abandon(c) ==
  /\ call[c] # None /\ Returns(c)
  /\ UNCHANGED <<product, client, inUse, job, row, counted, applied, overlapped>>

Next ==
  \/ Remove \/ Sell
  \/ \E r \in File : Create(r) \/ ValidateImport(r)
  \/ \E c \in Call :
       \/ \E dto \in Request : ReadForUpdate(c, dto)
       \/ \E d \in Price : ReadForDiscount(c, d)
       \/ Update(c) \/ UpsertClientDiscount(c) \/ ReadJob(c) \/ ApplyImport(c) \/ Abandon(c)

Spec == Init /\ [][Next]_catalogueVars

-----------------------------------------------------------------------------
TypeOK ==
  /\ product \in Product \cup {None} /\ client \in Price \cup {None} /\ inUse \in BOOLEAN
  /\ job \in {"NONE", "VALIDATED", "FAILED", "APPLIED"} /\ row \in Product \cup {None}
  /\ \A c \in Call : call[c] = None \/ call[c].kind \in {"update", "discount", "apply"}
  /\ counted \in Int /\ applied \in BOOLEAN /\ overlapped \in BOOLEAN

\* The stock is what was last stated, less what was sold since: an edit that does not state
\* it never takes a sale back, however long it was prepared before, nor does an import that
\* has been applied already, unless two applications of it overlapped.
SalesSurviveEdits == product # None /\ ~overlapped => product.stock = counted
=============================================================================
