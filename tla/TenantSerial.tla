---------------------------- MODULE TenantSerial ----------------------------
(***************************************************************************)
(* What _artifact_operation_dependency promises the routes that depend on  *)
(* it: the operations of one tenant happen one after the other.  An        *)
(* operation sees the tenant's data when it enters, holds the tenant alone *)
(* and ends by writing once or not at all.                                 *)
(***************************************************************************)
EXTENDS Naturals

CONSTANTS Tenants, Requests, NoRequest

VARIABLES
    holder,     \* tenant -> the request operating on it
    value       \* tenant -> number of committed operations

serialVars == <<holder, value>>

SerialInit ==
    /\ holder = [t \in Tenants |-> NoRequest]
    /\ value = [t \in Tenants |-> 0]

Enter(r, t) ==
    /\ holder[t] = NoRequest
    /\ holder' = [holder EXCEPT ![t] = r]
    /\ UNCHANGED value

Commit(t) ==
    /\ holder[t] # NoRequest
    /\ holder' = [holder EXCEPT ![t] = NoRequest]
    /\ value' = [value EXCEPT ![t] = value[t] + 1]

\* One or several holders leave without a write: a request that is refused or
\* fails, or all the requests of a process that dies.
Leave ==
    /\ holder' \in {[t \in Tenants |-> IF t \in T THEN NoRequest ELSE holder[t]] :
                      T \in SUBSET Tenants}
    /\ UNCHANGED value

SerialNext ==
    \/ \E r \in Requests, t \in Tenants : Enter(r, t)
    \/ \E t \in Tenants : Commit(t)
    \/ Leave

SerialSpec == SerialInit /\ [][SerialNext]_serialVars
=============================================================================
