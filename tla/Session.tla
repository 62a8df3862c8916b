------------------------------- MODULE Session -------------------------------
(***************************************************************************)
(* The Session of sdk/authentication: a bounded set of writers behind      *)
(* handles, shared by clients under one lock.  Every operation holds the   *)
(* lock from its first look at the session to its last, so that each one   *)
(* is one step; what a client knows between two of its calls may be out of *)
(* date.  Writers differ here only in the charge of their state.           *)
(***************************************************************************)
EXTENDS Integers, FiniteSets, FiniteSetsExt, Functions

CONSTANTS
    Clients,        \* callers of the session
    Writers,        \* writers that can be built, imported or derived
    Charge,         \* stateCharge of each writer, saturated at MaxUint
    MaxCandidates,  \* SessionLimits.MaxCandidates
    MaxStateBytes,  \* SessionLimits.MaxStateBytes
    MaxUint         \* the largest id and the largest charge

ASSUME LimitsAssumption ==
    /\ MaxCandidates \in Nat \ {0}
    /\ MaxUint \in Nat
    /\ MaxStateBytes \in 1..MaxUint
    /\ Charge \in [Writers -> 0..MaxUint]

VARIABLES
    writers,  \* Session.writers: the retained writers by id
    charge,   \* Session.charge
    next,     \* Session.next: the last id issued
    handles,  \* the ids each client received
    issued    \* auxiliary: the writer each id was first issued for

vars == <<writers, charge, next, handles, issued>>

Ids == 0..MaxUint
Word == MaxUint + 1

Init ==
    /\ writers = <<>> /\ charge = 0 /\ next = 0
    /\ handles = [c \in Clients |-> {}]
    /\ issued = <<>>

Capacity == Cardinality(DOMAIN writers) < MaxCandidates /\ next # MaxUint

\* Faulty: the sum is compared and may wrap around.
FitsWrapped(w) == (charge + Charge[w]) % Word <= MaxStateBytes

\* The difference is one of unsigned integers.
Fits(w) == Charge[w] <= (MaxStateBytes - charge) % Word

With(f, id, w) == [x \in DOMAIN f \cup {id} |-> IF x = id THEN w ELSE f[x]]

\* retain; a refused writer is dropped and uses up no id.
Retain(c, w) ==
    /\ Fits(w)
    /\ next' = (next + 1) % Word
    /\ writers' = With(writers, next', w)
    /\ charge' = (charge + Charge[w]) % Word
    /\ handles' = [handles EXCEPT ![c] = @ \cup {next'}]
    /\ issued' = IF next' \in DOMAIN issued THEN issued ELSE With(issued, next', w)

\* Build and Import.
Create(c, w) == Capacity /\ Retain(c, w)

\* The base of Apply stays, and another client may have discarded it.
Apply(c, id, w) == id \in DOMAIN writers /\ Capacity /\ Retain(c, w)

\* A client keeps a handle it discarded, and may use it again.
Discard(c, id) ==
    /\ id \in DOMAIN writers
    /\ charge' = (charge - Charge[writers[id]]) % Word
    /\ writers' = Restrict(writers, DOMAIN writers \ {id})
    /\ UNCHANGED <<next, handles, issued>>

\* Faulty: the ids start again with the empty session.
ClearAll ==
    /\ writers' = <<>> /\ charge' = 0 /\ next' = 0
    /\ UNCHANGED <<handles, issued>>

Clear ==
    /\ writers' = <<>> /\ charge' = 0
    /\ UNCHANGED <<next, handles, issued>>

Next ==
    \/ \E c \in Clients, w \in Writers : Create(c, w)
    \/ \E c \in Clients : \E id \in handles[c], w \in Writers : Apply(c, id, w)
    \/ \E c \in Clients : \E id \in handles[c] : Discard(c, id)
    \/ Clear

Spec == Init /\ [][Next]_vars

-----------------------------------------------------------------------------
TypeOK ==
    /\ writers \in [DOMAIN writers -> Writers] /\ DOMAIN writers \subseteq Ids
    /\ charge \in 0..MaxUint
    /\ next \in Ids
    /\ handles \in [Clients -> SUBSET Ids]
    /\ issued \in [DOMAIN issued -> Writers] /\ DOMAIN issued = 1..next

\* The accounting is exact, so that room that was given back can be used and
\* the difference in retain never wraps around, and its limits hold.
ChargeIsExact ==
    /\ charge = MapThenSumSet(LAMBDA id : Charge[writers[id]], DOMAIN writers)
    /\ charge <= MaxStateBytes
    /\ Cardinality(DOMAIN writers) <= MaxCandidates

\* A handle means one writer for ever: after Discard or Clear it is unknown,
\* and it is never issued again, however long the session lives ("without ever
\* reusing a previously issued handle").
HandlesNeverReused ==
    [][/\ \A id \in DOMAIN writers' : id \in DOMAIN writers \/ id \notin DOMAIN issued
       /\ \A id \in DOMAIN writers \cap DOMAIN writers' : writers'[id] = writers[id]]_vars

\* A client's handle is either unknown or the writer it was issued for.
HandlesAreFaithful ==
    \A c \in Clients : \A id \in handles[c] \cap DOMAIN writers : writers[id] = issued[id]
=============================================================================
