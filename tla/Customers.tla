------------------------------ MODULE Customers ------------------------------
(***************************************************************************)
(* A customer's addresses and the default one of each type                 *)
(* (CustomerService).                                                      *)
(*                                                                         *)
(* A request first looks the customer and the address up, then runs its    *)
(* statements in one READ COMMITTED transaction, which sees what is        *)
(* committed and its own changes, and commits.  Changed rows stay locked   *)
(* until then, and so does the place of a default in the unique index.     *)
(* Addresses are numbered in the order of their creation.                  *)
(***************************************************************************)
EXTENDS Integers, FiniteSets, FiniteSetsExt

CONSTANTS
    MaxAddress,    \* bound on the addresses ever created
    AddressType,
    Clerk,         \* requests
    Nothing

ASSUME MaxAddressAssumption == MaxAddress \in Nat

Address == 1..MaxAddress
AddressRows == [type : AddressType, default : BOOLEAN]
Finding == [found : Address, type : AddressType]
Staging == [rows : UNION {[changed -> AddressRows \cup {Nothing}] : changed \in SUBSET Address}]
ASSUME NothingAssumption == Nothing \notin AddressType \cup AddressRows \cup Finding \cup Staging

VARIABLES
    customer,  \* customers.deleted_at is null
    address,   \* committed rows
    clerk,     \* requests: the row found; then the rows the transaction changes
    overlap    \* two requests of this customer were in progress at once

customerVars == <<customer, address, clerk, overlap>>

Rows == [Address -> AddressRows \cup {Nothing}]

CustomersInit ==
    /\ customer = "active" /\ overlap = FALSE
    /\ address = [a \in Address |-> Nothing]
    /\ clerk = [e \in Clerk |-> Nothing]

OfType(rows, t) == {a \in Address : rows[a] # Nothing /\ rows[a].type = t}
Defaults(rows, t) == {a \in OfType(rows, t) : rows[a].default}
Found(e) == clerk[e] # Nothing /\ "found" \in DOMAIN clerk[e]
Staged(e) == clerk[e] # Nothing /\ "rows" \in DOMAIN clerk[e]
Changed(e) == IF Staged(e) THEN DOMAIN clerk[e].rows ELSE {}
Locked == UNION {Changed(e) : e \in Clerk}
(* Types whose place in the unique index a transaction has taken. *)
Taken == UNION {{clerk[e].rows[a].type : a \in {a \in Changed(e) : clerk[e].rows[a] # Nothing /\ clerk[e].rows[a].default}} : e \in Clerk}
Held == Locked \cup {clerk[e].found : e \in {e \in Clerk : Found(e)}}
Free == {a \in Address : \A b \in Address : b >= a => address[b] = Nothing /\ b \notin Held}

(* Statements, as functions of the rows the transaction sees. *)
ClearDefault(rows, t) == [a \in Address |-> IF a \in Defaults(rows, t) THEN [rows[a] EXCEPT !.default = FALSE] ELSE rows[a]]
EnsureNothing(rows, t) == rows
EnsureDefault(rows, t) ==
    IF Defaults(rows, t) # {} \/ OfType(rows, t) = {} THEN rows
    ELSE [rows EXCEPT ![Min(OfType(rows, t))].default = TRUE]

-----------------------------------------------------------------------------
(* The look-ups of a request: the customer, and the address with its type. *)
FindAddress(e, a) ==
    /\ clerk[e] = Nothing /\ customer = "active" /\ address[a] # Nothing
    /\ clerk' = [clerk EXCEPT ![e] = [found |-> a, type |-> address[a].type]]
    /\ overlap' = (overlap \/ \E f \in Clerk : clerk[f] # Nothing)
    /\ UNCHANGED <<customer, address>>

(* The statements run, once the rows they change are free; a default where another transaction made
   one waits for it, and one where another is committed is a unique violation. *)
StageUnindexed(e, rows) ==
    LET changed == {a \in Address : rows[a] # address[a]}
    IN /\ changed \cap Locked = {}
       /\ clerk' = [clerk EXCEPT ![e] = [rows |-> [a \in changed |-> rows[a]]]]
Stage(e, rows) ==
    LET changed == {a \in Address : rows[a] # address[a]}
        defaults == {t \in AddressType : changed \cap Defaults(rows, t) # {}}
    IN /\ changed \cap Locked = {} /\ defaults \cap Taken = {}
       /\ \A t \in AddressType : Cardinality(Defaults(rows, t)) <= 1
       /\ clerk' = [clerk EXCEPT ![e] = [rows |-> [a \in changed |-> rows[a]]]]

(* createAddress -> addAddress. *)
AddAddress(e, t, default) ==
    LET a == Min(Free)
        cleared == IF default THEN ClearDefault(address, t) ELSE address
    IN /\ clerk[e] = Nothing /\ customer = "active" /\ Free # {}
       /\ Stage(e, EnsureDefault([cleared EXCEPT ![a] = [type |-> t, default |-> default]], t))
       /\ overlap' = (overlap \/ \E f \in Clerk : clerk[f] # Nothing)
       /\ UNCHANGED <<customer, address>>

(* updateAddress to type t; default is TRUE, FALSE or left alone. *)
UpdateAddress(e, t, default) ==
    LET a == clerk[e].found
        cleared == IF default = {TRUE} THEN ClearDefault(address, t) ELSE address
        row == [type |-> t, default |-> IF default = {} THEN cleared[a].default ELSE default = {TRUE}]
        changed == EnsureDefault([cleared EXCEPT ![a] = row], clerk[e].type)
    IN /\ Found(e) /\ address[a] # Nothing
       /\ Stage(e, IF t # clerk[e].type THEN EnsureDefault(changed, t) ELSE changed)
       /\ UNCHANGED <<customer, address, overlap>>

DeleteAddress(e) ==
    /\ Found(e) /\ address[clerk[e].found] # Nothing
    /\ Stage(e, EnsureDefault([address EXCEPT ![clerk[e].found] = Nothing], clerk[e].type))
    /\ UNCHANGED <<customer, address, overlap>>

CommitAddresses(e) ==
    /\ Staged(e)
    /\ address' = [a \in Address |-> IF a \in Changed(e) THEN clerk[e].rows[a] ELSE address[a]]
    /\ clerk' = [clerk EXCEPT ![e] = Nothing]
    /\ UNCHANGED <<customer, overlap>>
(* The row is gone, the default is taken, or the request dies. *)
AbortAddresses(e) ==
    /\ clerk[e] # Nothing
    /\ clerk' = [clerk EXCEPT ![e] = Nothing]
    /\ UNCHANGED <<customer, address, overlap>>

(* delete keeps the addresses: orders refer to them. *)
DeleteCustomer ==
    /\ customer = "active"
    /\ customer' = "deleted"
    /\ UNCHANGED <<address, clerk, overlap>>

CustomersNext ==
    \/ DeleteCustomer
    \/ \E e \in Clerk : \/ \E a \in Address : FindAddress(e, a)
                        \/ \E t \in AddressType, d \in BOOLEAN : AddAddress(e, t, d)
                        \/ \E t \in AddressType, d \in {{TRUE}, {FALSE}, {}} : UpdateAddress(e, t, d)
                        \/ DeleteAddress(e) \/ CommitAddresses(e) \/ AbortAddresses(e)

CustomersSpec == CustomersInit /\ [][CustomersNext]_customerVars

-----------------------------------------------------------------------------
(* Rows and requests have the values of the schema, and no type has two defaults
   (customer_addresses_customer_id_type_default_key). *)
CustomersTypeOK ==
    /\ customer \in {"active", "deleted"} /\ overlap \in BOOLEAN
    /\ address \in Rows /\ clerk \in [Clerk -> Finding \cup Staging \cup {Nothing}]
    /\ \A t \in AddressType : Cardinality(Defaults(address, t)) <= 1

(* "A customer with addresses of a type has exactly one default of that type"
   (customers.repository.js:139), while the requests of one customer do not overlap. *)
OneDefaultInTurn == ~overlap => \A t \in AddressType : OfType(address, t) # {} => Cardinality(Defaults(address, t)) = 1

(* The same, whoever is at work: what the comment says. *)
ExactlyOneDefault == \A t \in AddressType : OfType(address, t) # {} => Cardinality(Defaults(address, t)) = 1

=============================================================================
