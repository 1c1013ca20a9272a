--------------------------- MODULE MCStorageLedger ---------------------------
(* Attempts w1 and w2 of job j1 in organisation t1, upload w3 in organisation t2. *)
EXTENDS StorageLedger, TLC
CONSTANTS o1, o2, o3, t1, t2, j1, w1, w2, w3

MCTenantOf == [o \in Objects |-> IF o = o3 THEN t2 ELSE t1]
MCSize == [o \in Objects |-> IF o = o2 THEN 2 ELSE 1]
MCOwnerOf == [o \in Objects |-> IF o = o3 THEN NoJob ELSE j1]
MCJobOf == [w \in Writers |-> IF w = w3 THEN NoJob ELSE j1]

\* As the program does it, each attempt has objects of its own.  Either
\* organisation fits its limit alone, both together exceed the global one.
OwnBatch == [w \in Writers |-> CASE w = w1 -> {o1} [] w = w2 -> {o2} [] w = w3 -> {o3}]
TightLimit == [s \in Scopes |-> IF s = t2 THEN 1 ELSE 3]

\* The contract of the ledger: both attempts of j1 present o1, and the organisations compete for one unit.
ContendedBatch == [w \in Writers |-> IF w = w3 THEN {o3} ELSE {o1}]
ContendedLimit == [s \in Scopes |-> 1]

Symmetry == Permutations(Reapers)
=============================================================================
