---------------------------- MODULE KeyCeremony ----------------------------
(***************************************************************************)
(* The key ceremony page, the backend behind it, the simulated enclave and *)
(* the page's own stand-in for them: a question is sealed under a key that *)
(* is split among the officials; enough of their shares give the key back. *)
(* Every preparation is a generation of shares, numbered from one.         *)
(*                                                                         *)
(* A definition marked "Variant" is no part of the specification: it is    *)
(* the next definition with a plausible mistake, which a property refutes. *)
(***************************************************************************)
EXTENDS Integers, FiniteSets

CONSTANTS
    Officials,  \* who holds a share each
    Threshold,  \* shares needed (3 of 5 in the code)
    MaxGens,    \* bound: ceremonies prepared
    MaxReads    \* bound: status reads under way

ASSUME CeremonyAssumption ==
    /\ IsFiniteSet(Officials)
    /\ Threshold \in 1..Cardinality(Officials)
    /\ MaxGens \in Nat
    /\ MaxReads \in Nat

VARIABLES
    gen,      \* generations prepared so far
    backend,  \* _CEREMONIES of the exam: the generation, the officials counted
    enclave,  \* _exams of the exam: the share each official gave, the key
    standin,  \* _mock: the generation, the officials counted, whether the key is here
    page,     \* what the page shows
    wrapped,  \* the share each official is about to hand over, 0 for none
    asked,    \* refreshStatus calls that have not read yet
    reads,    \* what others have read and not shown yet
    gave      \* who handed a share over since each generation was prepared

ceremonyVars == <<gen, backend, enclave, standin, page, wrapped, asked, reads, gave>>

Gens == 0..MaxGens

Garbage == -1

View == [shares : SUBSET Officials, met : BOOLEAN]

CeremonyPages == [attested : {"unknown", "match", "mismatch"}, prep : Gens, status : View,
                  busy : SUBSET Officials, decrypted : Gens]

CeremonyTypeOK ==
    /\ gen \in Gens
    /\ backend \in [gen : Gens, shares : SUBSET Officials]
    /\ enclave \in [share : [Officials -> Gens], key : Gens \cup {Garbage}]
    /\ standin \in [gen : Gens, shares : SUBSET Officials, master : BOOLEAN]
    /\ page \in CeremonyPages
    /\ wrapped \in [Officials -> Gens]
    /\ asked \in 0..MaxReads
    /\ reads \subseteq View
    /\ gave \in [1..MaxGens -> SUBSET Officials]

CeremonyInit ==
    /\ gen = 0
    /\ backend = [gen |-> 0, shares |-> {}]
    /\ enclave = [share |-> [o \in Officials |-> 0], key |-> 0]
    /\ standin = [gen |-> 0, shares |-> {}, master |-> FALSE]
    /\ page = [attested |-> "unknown", prep |-> 0,
               status |-> [shares |-> {}, met |-> FALSE], busy |-> {}, decrypted |-> 0]
    /\ wrapped = [o \in Officials |-> 0]
    /\ asked = 0
    /\ reads = {}
    /\ gave = [g \in 1..MaxGens |-> {}]

(***************************************************************************)
(* The status, of the backend or of the stand-in.                          *)
(***************************************************************************)
ViewOf(shares) == [shares |-> shares, met |-> Cardinality(shares) >= Threshold]

Refresh ==
    /\ asked + Cardinality(reads) < MaxReads
    /\ asked' = asked + 1

ReadStatus ==
    /\ asked > 0
    /\ asked' = asked - 1
    /\ \E shares \in {backend.shares, standin.shares} : reads' = reads \cup {ViewOf(shares)}
    /\ UNCHANGED <<gen, backend, enclave, standin, page, wrapped, gave>>

\* Reads that overlap are shown in any order.
ShowStatus ==
    /\ \E v \in reads :
         /\ reads' = reads \ {v}
         /\ page' = [page EXCEPT !.status = v]
    /\ UNCHANGED <<gen, backend, enclave, standin, wrapped, asked, gave>>

\* The page's first effect: the source's hash against the running enclave's.
Attest ==
    /\ page.attested = "unknown"
    /\ \E a \in {"match", "mismatch"} : page' = [page EXCEPT !.attested = a]
    /\ Refresh
    /\ UNCHANGED <<gen, backend, enclave, standin, wrapped, reads, gave>>

(***************************************************************************)
(* Preparing: demo-prepare forgets what the backend counted, not what the  *)
(* enclave holds.                                                          *)
(***************************************************************************)
MayPrepare == page.attested = "match" /\ gen < MaxGens

PrepareAtBackend ==
    /\ MayPrepare
    /\ gen' = gen + 1
    /\ backend' = [gen |-> gen', shares |-> {}]
    /\ standin' = [gen |-> gen', shares |-> {}, master |-> FALSE]
    /\ page' = [page EXCEPT !.prep = gen', !.decrypted = 0]
    /\ Refresh
    /\ UNCHANGED <<enclave, wrapped, reads, gave>>

\* The backend is away; or did it and the answer was lost.
PrepareHere ==
    /\ MayPrepare
    /\ \/ /\ gen' = gen + 1
          /\ UNCHANGED backend
       \/ /\ gen + 2 <= MaxGens
          /\ gen' = gen + 2
          /\ backend' = [gen |-> gen + 1, shares |-> {}]
    /\ standin' = [gen |-> gen', shares |-> {}, master |-> TRUE]
    /\ page' = [page EXCEPT !.prep = gen', !.decrypted = 0]
    /\ Refresh
    /\ UNCHANGED <<enclave, wrapped, reads, gave>>

(***************************************************************************)
(* Handing a share over.                                                   *)
(***************************************************************************)
\* Bound: one hand-over of an official at a time.
PressSubmit(o) ==
    /\ page.attested = "match"
    /\ page.prep # 0
    /\ o \notin page.status.shares
    /\ o \notin page.busy
    /\ wrapped[o] = 0
    /\ wrapped' = [wrapped EXCEPT ![o] = page.prep]
    /\ page' = [page EXCEPT !.busy = {o}]
    /\ UNCHANGED <<gen, backend, enclave, standin, asked, reads, gave>>

Delivered(o) ==
    /\ wrapped[o] # 0
    /\ wrapped' = [wrapped EXCEPT ![o] = 0]
    /\ page' = [page EXCEPT !.busy = {}]
    /\ UNCHANGED <<gen, reads>>

GaveNow(o) == gave' = [g \in DOMAIN gave |-> IF g <= gen THEN gave[g] \cup {o} ELSE gave[g]]

\* The key comes out right only where all shares are of one generation.
Agree(share, g) == \A o \in Officials : share[o] \in {0, g}

KeyFrom(share) ==
    IF \E g \in 1..MaxGens : Agree(share, g) THEN CHOOSE g \in 1..MaxGens : Agree(share, g)
    ELSE Garbage

EnclaveTakes(o) ==
    LET share == [enclave.share EXCEPT ![o] = wrapped[o]]
        count == Cardinality({x \in Officials : share[x] # 0})
    IN  enclave' = [share |-> share,
                    key |-> IF count >= Threshold /\ enclave.key = 0 THEN KeyFrom(share)
                            ELSE enclave.key]

BackendAccepts(o) ==
    /\ o \notin backend.shares
    /\ enclave.share[o] = 0
    /\ EnclaveTakes(o)
    /\ backend' = [backend EXCEPT !.shares = @ \cup {o}]

SubmitToBackend(o) ==
    /\ Delivered(o)
    /\ BackendAccepts(o)
    /\ GaveNow(o)
    /\ Refresh
    /\ UNCHANGED standin

\* Whatever the backend refuses or does not answer, the stand-in counts without a look at
\* the share; the backend may have taken it all the same.
SubmitHere(o) ==
    LET counts == standin.gen # 0 /\ o \notin standin.shares
    IN  /\ Delivered(o)
        /\ standin' = IF counts THEN [standin EXCEPT !.shares = @ \cup {o}] ELSE standin
        /\ IF counts THEN Refresh ELSE UNCHANGED asked
        /\ \/ BackendAccepts(o) /\ GaveNow(o)
           \/ /\ UNCHANGED <<backend, enclave>>
              /\ IF counts THEN GaveNow(o) ELSE UNCHANGED gave

(***************************************************************************)
(* Opening the question.                                                   *)
(***************************************************************************)
\* Variant: the stand-in opens with one share less.
HereQuorumShort(n) == n + 1 >= Threshold

HereQuorum(n) == n >= Threshold

OpensAt(g) ==
    \/ backend.gen = g /\ enclave.key = g
    \/ standin.gen = g /\ standin.master /\ HereQuorum(Cardinality(standin.shares))

Decrypt(g) ==
    /\ g # 0
    /\ page.status.met
    /\ OpensAt(g)
    /\ page' = [page EXCEPT !.decrypted = g]
    /\ UNCHANGED <<gen, backend, enclave, standin, wrapped, asked, reads, gave>>

CeremonyNext ==
    \/ ReadStatus \/ ShowStatus \/ Attest \/ PrepareAtBackend \/ PrepareHere
    \/ \E o \in Officials : PressSubmit(o) \/ SubmitToBackend(o) \/ SubmitHere(o)
    \/ \E g \in 1..MaxGens : Decrypt(g)

CeremonySpec == CeremonyInit /\ [][CeremonyNext]_ceremonyVars

(***************************************************************************)
(* Properties.                                                             *)
(***************************************************************************)
\* "Any 3 of 5 reconstruct it" (ceremony/page.tsx 118): a question is opened only after as
\* many officials handed a share over since it was sealed, however the status shown is out
\* of date, shares of two generations mix, or backend and stand-in take turns.
OpenedByQuorum == page.decrypted # 0 => Cardinality(gave[page.decrypted]) >= Threshold
=============================================================================
