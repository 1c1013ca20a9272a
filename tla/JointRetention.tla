--------------------------- MODULE JointRetention ---------------------------
(***************************************************************************)
(* The trust in joint retention evidence: certifiers sign statements       *)
(* (joint_retention_certifier.py), operators activate registries of issuer *)
(* keys and revocations (activate_joint_retention_registry.py and          *)
(* migration 0018), and API processes, each with the registry it was       *)
(* deployed with, derive contracts from statements                         *)
(* (joint_retention.py, joint_retention_registry.py, api.py).              *)
(*                                                                         *)
(* An API transaction asserts that its registry is the activated one under *)
(* a shared advisory lock that it keeps until it ends; an activation takes *)
(* the lock exclusively.                                                   *)
(***************************************************************************)
EXTENDS Naturals, FiniteSets, Sequences

CONSTANTS
    Issuers,        \* (issuer id, key id) identities
    Materials,      \* public keys
    Statements,     \* signed statements
    Designs,        \* joint geometries
    Processes,      \* API processes
    KeyEnds,        \* issuer -> not_after
    NoIssuer,       \* not in the registry, not signed
    MaxRetentionTime, MaxEpoch   \* bounds

ASSUME RetentionAssumption ==
    /\ KeyEnds \in [Issuers -> Nat] /\ MaxRetentionTime \in Nat /\ MaxEpoch \in Nat

Never == MaxRetentionTime + 1
Entries == [key : Materials, revoked_at : {1, Never}]

\* TrustRegistry with _load_registry: key material is globally unique.
RegistryValid(g) ==
    \A i, j \in Issuers :
        g.issuers[i] # NoIssuer /\ g.issuers[j] # NoIssuer
            /\ g.issuers[i].key = g.issuers[j].key => i = j
RetentionRegistries ==
    {g \in [issuers : [Issuers -> Entries \cup {NoIssuer}],
            revoked_statements : SUBSET Statements] : RegistryValid(g)}

\* No issuer is known yet.
EmptyRegistry == [issuers |-> [i \in Issuers |-> NoIssuer], revoked_statements |-> {}]

VARIABLES
    now,
    history,        \* the registry of each transition_epoch, the last activated
    config,         \* process -> registry it was deployed with
    request,        \* process -> its transaction
    signed,         \* statement -> what was signed, NoIssuer before
    contracts       \* contracts bound: statement, epoch and time of resolution

retentionVars == <<now, history, config, request, signed, contracts>>

Epoch == Len(history)
Activated == history[Epoch]
NoRequest == [phase |-> "idle"]

RetentionInit ==
    /\ now = 0
    /\ history = <<>>
    /\ config = [p \in Processes |-> EmptyRegistry]
    /\ request = [p \in Processes |-> NoRequest]
    /\ signed = [e \in Statements |-> NoIssuer]
    /\ contracts = {}

-----------------------------------------------------------------------------
(* Registries                                                              *)

\* Mutant: an issuer key may be left out of the next registry.
KeepsIssuersItNames(old, new) ==
    \A i \in Issuers : old.issuers[i] # NoIssuer /\ new.issuers[i] # NoIssuer =>
        /\ new.issuers[i].key = old.issuers[i].key
        /\ new.issuers[i].revoked_at <= old.issuers[i].revoked_at

\* The loop over the activated issuers: present, same key, revoked no later.
KeepsIssuers(old, new) ==
    \A i \in Issuers : old.issuers[i] # NoIssuer =>
        /\ new.issuers[i] # NoIssuer
        /\ new.issuers[i].key = old.issuers[i].key
        /\ new.issuers[i].revoked_at <= old.issuers[i].revoked_at

\* previous_key_identities: known material stays with its identity.
KeepsMaterial(old, new) ==
    \A i, j \in Issuers :
        old.issuers[i] # NoIssuer /\ new.issuers[j] # NoIssuer
            /\ old.issuers[i].key = new.issuers[j].key => i = j

\* validate_monotonic_registry_transition
Monotonic(old, new) ==
    /\ KeepsIssuers(old, new)
    /\ KeepsMaterial(old, new)
    /\ old.revoked_statements \subseteq new.revoked_statements

\* Mutant: an activation does not wait for the transactions under way.
NobodyWaitedFor == TRUE

\* The advisory lock of custombuild_joint_retention_install_registry, shared
\* with the transactions that asserted.
ExclusiveLockFree == \A p \in Processes : request[p].phase = "idle"

\* activate_registry with custombuild_joint_retention_install_registry: checked
\* in Python and again in the database; the same registry again changes nothing.
activate_registry(g) ==
    /\ Epoch < MaxEpoch
    /\ ExclusiveLockFree
    /\ RegistryValid(g)
    /\ Epoch > 0 => g # Activated /\ Monotonic(Activated, g)
    /\ history' = Append(history, g)
    /\ UNCHANGED <<now, config, request, signed, contracts>>

\* A process is deployed with a registry, the activated one or an earlier one;
\* its transactions are gone.  With a registry that is not activated yet a
\* process can only fail its assertions, as it does at the start.
deploy(p, n) ==
    /\ config[p] # history[n]
    /\ config' = [config EXCEPT ![p] = history[n]]
    /\ request' = [request EXCEPT ![p] = NoRequest]
    /\ UNCHANGED <<now, history, signed, contracts>>

-----------------------------------------------------------------------------
(* Statements                                                              *)

\* Mutant: a revoked issuer is still found.
IssuerKnown(g, s) ==
    /\ g.issuers[s.issuer] # NoIssuer
    /\ now <= KeyEnds[s.issuer] /\ s.expires_at <= KeyEnds[s.issuer]

\* _find_trusted_issuer: known, not revoked, key valid now and until expiry.
IssuerTrusted(g, s) ==
    /\ g.issuers[s.issuer] # NoIssuer
    /\ g.issuers[s.issuer].revoked_at > now
    /\ now <= KeyEnds[s.issuer] /\ s.expires_at <= KeyEnds[s.issuer]

\* _verify_signature
SignatureVerified(g, s) == g.issuers[s.issuer].key = s.key

\* resolve_joint_retention_contract: unrevoked and unexpired, signed by a
\* trusted issuer, for exactly this geometry and compiler version.
Resolves(g, e, d) ==
    LET s == signed[e]
    IN  /\ s # NoIssuer
        /\ e \notin g.revoked_statements
        /\ s.issued_at <= now /\ s.expires_at > now
        /\ IssuerTrusted(g, s)
        /\ SignatureVerified(g, s)
        /\ s.design = d

\* prepare_payload and sign_payload: the toolkit signs with a private key that
\* matches the entry of a registry it is given, and runs the resolver on what it
\* is about to emit.
ToolkitAccepts(e, s) ==
    {g \in RetentionRegistries :
        IssuerTrusted(g, s) /\ SignatureVerified(g, s) /\ e \notin g.revoked_statements} # {}
sign_payload(e, i, k, d, expiry) ==
    LET s == [issuer |-> i, key |-> k, design |-> d, issued_at |-> now, expires_at |-> expiry]
    IN  /\ signed[e] = NoIssuer
        /\ expiry > now
        /\ ToolkitAccepts(e, s)
        /\ signed' = [signed EXCEPT ![e] = s]
        /\ UNCHANGED <<now, history, config, request, contracts>>

-----------------------------------------------------------------------------
(* Transactions of the API                                                 *)

\* assert_joint_retention_registry_activated: takes the shared lock.
assert_registry(p) ==
    /\ request[p].phase = "idle"
    /\ Epoch > 0 /\ config[p] = Activated
    /\ request' = [request EXCEPT ![p] = [phase |-> "asserted", epoch |-> Epoch]]
    /\ UNCHANGED <<now, history, config, signed, contracts>>

\* _resolve_joint_retention_binding after it read the statement's bytes, for a
\* new revision or at a later gate of its life.
resolve(p, e, d) ==
    /\ request[p].phase = "asserted"
    /\ Resolves(config[p], e, d)
    /\ request' = [request EXCEPT ![p] =
          [phase |-> "resolved", epoch |-> request[p].epoch,
           contract |-> [statement |-> e, epoch |-> Epoch, at |-> now]]]
    /\ UNCHANGED <<now, history, config, signed, contracts>>

commit_contract(p) ==
    /\ request[p].phase = "resolved"
    /\ contracts' = contracts \cup {request[p].contract}
    /\ request' = [request EXCEPT ![p] = NoRequest]
    /\ UNCHANGED <<now, history, config, signed>>

\* The statement is rejected, or something else of the request fails.
rollback(p) ==
    /\ request[p].phase # "idle"
    /\ request' = [request EXCEPT ![p] = NoRequest]
    /\ UNCHANGED <<now, history, config, signed, contracts>>

retention_tick ==
    /\ now < MaxRetentionTime
    /\ now' = now + 1
    /\ UNCHANGED <<history, config, request, signed, contracts>>

RetentionNext ==
    \/ \E g \in RetentionRegistries : activate_registry(g)
    \/ \E p \in Processes, n \in 1 .. Epoch : deploy(p, n)
    \/ \E e \in Statements, i \in Issuers, k \in Materials, d \in Designs,
          expiry \in 1 .. Never : sign_payload(e, i, k, d, expiry)
    \/ \E p \in Processes :
          \/ assert_registry(p) \/ commit_contract(p) \/ rollback(p)
          \/ \E e \in Statements, d \in Designs : resolve(p, e, d)
    \/ retention_tick

RetentionSpec == RetentionInit /\ [][RetentionNext]_retentionVars

-----------------------------------------------------------------------------
(* Properties                                                              *)

\* While a transaction that asserted its registry is open, that registry stays
\* the activated one: what it binds was decided on current trust
\* (pg_advisory_xact_lock_shared).
AssertedStaysActivated ==
    \A p \in Processes : request[p].phase # "idle" =>
        request[p].epoch = Epoch /\ config[p] = Activated

\* Public key material belongs to one identity in all registries ever
\* activated, and an identity to one key, although an activation compares only
\* with the registry before (validate_monotonic_registry_transition).
KeyMaterialHasOneOwner ==
    \A n, m \in 1 .. Epoch : \A i, j \in Issuers :
        history[n].issuers[i] # NoIssuer /\ history[m].issuers[j] # NoIssuer =>
            (history[n].issuers[i].key = history[m].issuers[j].key <=> i = j)

\* No contract rests on a statement or an issuer that some registry activated
\* up to then had revoked, from whatever epoch the deployed process comes.
RevokedBindsNothing ==
    \A c \in contracts : \A n \in 1 .. c.epoch :
        LET s == signed[c.statement]
        IN  /\ c.statement \notin history[n].revoked_statements
            /\ history[n].issuers[s.issuer] # NoIssuer =>
                  history[n].issuers[s.issuer].revoked_at > c.at
=============================================================================
