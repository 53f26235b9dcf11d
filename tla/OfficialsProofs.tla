--------------------------- MODULE OfficialsProofs ---------------------------
(***************************************************************************)
(* Proofs about what no single official may do: open a sealed question     *)
(* (KeyCeremony), change the exam's state (DualControl), sign in to the    *)
(* web site on an address or a phone that is not his (WebLogin).  For any  *)
(* number of officials, of preparations, of requests and of accounts.      *)
(***************************************************************************)
EXTENDS KeyCeremony, DualControl, WebLogin, FiniteSetTheorems, SequenceTheorems, TLAPS

-----------------------------------------------------------------------------
(* The key ceremony: the state is well formed. *)

CeremonyTyped == CeremonyTypeOK /\ IsFiniteSet(reads)

LEMMA CeremonyInitTyped == CeremonyInit => CeremonyTyped
<1> SUFFICES ASSUME CeremonyInit PROVE CeremonyTyped
  OBVIOUS
<1>1. 0 \in Gens /\ 0 \in 0..MaxReads
  BY CeremonyAssumption DEF Gens
<1>2. page \in CeremonyPages
  BY <1>1 DEF CeremonyInit, CeremonyPages, View
<1>3. enclave \in [share : [Officials -> Gens], key : Gens \cup {Garbage}]
  BY <1>1 DEF CeremonyInit
<1>4. wrapped \in [Officials -> Gens] /\ gave \in [1..MaxGens -> SUBSET Officials]
  BY <1>1 DEF CeremonyInit
<1>5. IsFiniteSet(reads) /\ reads \subseteq View
  BY FS_EmptySet DEF CeremonyInit
<1> QED
  BY <1>1, <1>2, <1>3, <1>4, <1>5 DEF CeremonyInit, CeremonyTyped, CeremonyTypeOK

\* One more read under way stays within its bound.
LEMMA RefreshType ==
  ASSUME CeremonyTyped, Refresh
  PROVE  asked' \in 0..MaxReads
<1>1. Cardinality(reads) \in Nat
  BY FS_CardinalityType DEF CeremonyTyped
<1>2. asked \in Nat /\ MaxReads \in Nat
  BY CeremonyAssumption DEF CeremonyTyped, CeremonyTypeOK
<1> DEFINE c == Cardinality(reads)
<1>3. asked + c < MaxReads /\ asked' = asked + 1
  BY DEF Refresh
<1>4. c \in Nat
  BY <1>1
<1> HIDE DEF c
<1> QED
  BY <1>2, <1>3, <1>4

LEMMA StatusSteps ==
  ASSUME CeremonyTyped, ReadStatus \/ ShowStatus \/ Attest
  PROVE  CeremonyTyped'
<1>1. CASE ReadStatus
  <2>1. PICK shares \in {backend.shares, standin.shares} : reads' = reads \cup {ViewOf(shares)}
    BY <1>1 DEF ReadStatus
  <2>2. ViewOf(shares) \in View
    BY <2>1 DEF ViewOf, View, CeremonyTyped, CeremonyTypeOK
  <2>3. IsFiniteSet(reads') /\ reads' \subseteq View
    BY <2>1, <2>2, FS_AddElement DEF CeremonyTyped, CeremonyTypeOK
  <2>4. asked' \in 0..MaxReads
    BY <1>1, CeremonyAssumption DEF ReadStatus, CeremonyTyped, CeremonyTypeOK
  <2> QED
    BY <1>1, <2>3, <2>4 DEF ReadStatus, CeremonyTyped, CeremonyTypeOK
<1>2. CASE ShowStatus
  <2>1. PICK v \in reads : reads' = reads \ {v} /\ page' = [page EXCEPT !.status = v]
    BY <1>2 DEF ShowStatus
  <2>2. page' \in CeremonyPages
    BY <2>1 DEF CeremonyTyped, CeremonyTypeOK, CeremonyPages
  <2>3. IsFiniteSet(reads')
    BY <2>1, FS_RemoveElement DEF CeremonyTyped
  <2> QED
    BY <1>2, <2>1, <2>2, <2>3 DEF ShowStatus, CeremonyTyped, CeremonyTypeOK
<1>3. CASE Attest
  <2>1. page' \in CeremonyPages
    BY <1>3 DEF Attest, CeremonyTyped, CeremonyTypeOK, CeremonyPages
  <2>2. asked' \in 0..MaxReads
    BY <1>3, RefreshType DEF Attest
  <2> QED
    BY <1>3, <2>1, <2>2 DEF Attest, CeremonyTyped, CeremonyTypeOK
<1> QED
  BY <1>1, <1>2, <1>3

LEMMA PrepareSteps ==
  ASSUME CeremonyTyped, PrepareAtBackend \/ PrepareHere
  PROVE  CeremonyTyped' /\ gen' > gen /\ gen' \in Gens
<1>1. gen \in Nat /\ MaxGens \in Nat /\ gen < MaxGens
  BY CeremonyAssumption DEF PrepareAtBackend, PrepareHere, MayPrepare, CeremonyTyped,
     CeremonyTypeOK, Gens
<1>2. gen' \in Gens /\ gen' > gen
  BY <1>1 DEF PrepareAtBackend, PrepareHere, Gens
<1>3. backend' \in [gen : Gens, shares : SUBSET Officials]
  BY <1>1, <1>2 DEF PrepareAtBackend, PrepareHere, Gens, CeremonyTyped, CeremonyTypeOK
<1>4. standin' \in [gen : Gens, shares : SUBSET Officials, master : BOOLEAN]
  <2>1. \E master \in BOOLEAN : standin' = [gen |-> gen', shares |-> {}, master |-> master]
    BY DEF PrepareAtBackend, PrepareHere
  <2> QED
    BY <1>2, <2>1
<1>5. page' \in CeremonyPages
  <2>1. 0 \in Gens /\ page' = [page EXCEPT !.prep = gen', !.decrypted = 0]
    BY <1>1 DEF Gens, PrepareAtBackend, PrepareHere
  <2> QED
    BY <1>2, <2>1 DEF CeremonyTyped, CeremonyTypeOK, CeremonyPages
<1>6. asked' \in 0..MaxReads
  BY RefreshType DEF PrepareAtBackend, PrepareHere
<1> QED
  BY <1>2, <1>3, <1>4, <1>5, <1>6 DEF PrepareAtBackend, PrepareHere, CeremonyTyped, CeremonyTypeOK

\* What the enclave makes of the shares is a generation they agree on, or nothing that opens.
LEMMA KeyFromType ==
  ASSUME NEW share \in [Officials -> Gens]
  PROVE  /\ KeyFrom(share) \in Gens \cup {Garbage}
         /\ KeyFrom(share) # Garbage => Agree(share, KeyFrom(share))
BY DEF KeyFrom, Gens

LEMMA ShareSteps ==
  ASSUME CeremonyTyped, NEW o \in Officials,
         PressSubmit(o) \/ SubmitToBackend(o) \/ SubmitHere(o)
  PROVE  CeremonyTyped'
<1>1. CASE PressSubmit(o)
  <2>1. page' \in CeremonyPages /\ wrapped' \in [Officials -> Gens]
    BY <1>1 DEF PressSubmit, CeremonyTyped, CeremonyTypeOK, CeremonyPages
  <2> QED
    BY <1>1, <2>1 DEF PressSubmit, CeremonyTyped, CeremonyTypeOK
<1>2. CASE SubmitToBackend(o) \/ SubmitHere(o)
  <2>1. Delivered(o)
    BY <1>2 DEF SubmitToBackend, SubmitHere
  <2>2. page' \in CeremonyPages /\ wrapped' \in [Officials -> Gens] /\ gen' = gen /\ reads' = reads
    <3>1. page' = [page EXCEPT !.busy = {}] /\ wrapped' = [wrapped EXCEPT ![o] = 0]
          /\ gen' = gen /\ reads' = reads
      BY <2>1 DEF Delivered
    <3>2. 0 \in Gens
      BY CeremonyAssumption DEF Gens
    <3>3. page' \in CeremonyPages
      BY <3>1 DEF CeremonyTyped, CeremonyTypeOK, CeremonyPages
    <3> QED
      BY <3>1, <3>2, <3>3 DEF CeremonyTyped, CeremonyTypeOK
  <2>3. asked' \in 0..MaxReads
    BY <1>2, RefreshType DEF SubmitToBackend, SubmitHere, CeremonyTyped, CeremonyTypeOK
  <2>4. gave' \in [1..MaxGens -> SUBSET Officials]
    BY <1>2 DEF SubmitToBackend, SubmitHere, GaveNow, CeremonyTyped, CeremonyTypeOK
  <2>5. standin' \in [gen : Gens, shares : SUBSET Officials, master : BOOLEAN]
    BY <1>2 DEF SubmitToBackend, SubmitHere, CeremonyTyped, CeremonyTypeOK
  <2>6. /\ backend' \in [gen : Gens, shares : SUBSET Officials]
        /\ enclave' \in [share : [Officials -> Gens], key : Gens \cup {Garbage}]
    <3>1. CASE UNCHANGED <<backend, enclave>>
      BY <3>1 DEF CeremonyTyped, CeremonyTypeOK
    <3>2. CASE BackendAccepts(o)
      <4>1. backend' \in [gen : Gens, shares : SUBSET Officials]
        BY <3>2 DEF BackendAccepts, CeremonyTyped, CeremonyTypeOK
      <4> DEFINE share == [enclave.share EXCEPT ![o] = wrapped[o]]
      <4>2. share \in [Officials -> Gens]
        BY DEF CeremonyTyped, CeremonyTypeOK
      <4>3. \/ enclave' = [share |-> share, key |-> KeyFrom(share)]
            \/ enclave' = [share |-> share, key |-> enclave.key]
        BY <3>2 DEF BackendAccepts, EnclaveTakes
      <4>4. KeyFrom(share) \in Gens \cup {Garbage} /\ enclave.key \in Gens \cup {Garbage}
        BY <4>2, KeyFromType DEF CeremonyTyped, CeremonyTypeOK
      <4> HIDE DEF share
      <4> QED
        BY <4>1, <4>2, <4>3, <4>4
    <3> QED
      BY <1>2, <3>1, <3>2 DEF SubmitToBackend, SubmitHere
  <2> QED
    BY <2>2, <2>3, <2>4, <2>5, <2>6 DEF CeremonyTyped, CeremonyTypeOK
<1> QED
  BY <1>1, <1>2

-----------------------------------------------------------------------------
(* The key ceremony: a question is opened by a quorum. *)

\* What shares, keys and counters say about who handed a share over since a generation.
GivenInv ==
    /\ page.prep <= gen
    /\ standin.gen <= gen
    /\ \A o \in Officials : wrapped[o] <= gen
    /\ \A o \in Officials : enclave.share[o] # 0 => o \in gave[enclave.share[o]]
    /\ standin.gen # 0 => standin.shares \subseteq gave[standin.gen]

\* A key of the enclave was put together by a quorum.
KeyByQuorum == enclave.key \in 1..MaxGens => Cardinality(gave[enclave.key]) >= Threshold

QuorumInv == CeremonyTyped /\ GivenInv /\ KeyByQuorum /\ OpenedByQuorum

\* Who gave a share is a finite set; one that has a quorum in it has a quorum.
LEMMA QuorumGrows ==
  ASSUME NEW S \in SUBSET Officials, NEW T \in SUBSET S, Cardinality(T) >= Threshold
  PROVE  Cardinality(S) >= Threshold
<1>1. IsFiniteSet(S)
  BY CeremonyAssumption, FS_Subset
<1>2. IsFiniteSet(T) /\ Cardinality(T) <= Cardinality(S)
  BY <1>1, FS_Subset
<1>3. Cardinality(S) \in Nat /\ Cardinality(T) \in Nat /\ Threshold \in Int
  BY <1>1, <1>2, FS_CardinalityType, CeremonyAssumption
<1> QED
  BY <1>2, <1>3

\* A hand-over is noted for every generation prepared so far.
LEMMA GaveGrows ==
  ASSUME CeremonyTyped, NEW o \in Officials, GaveNow(o)
  PROVE  \A g \in 1..MaxGens :
            /\ gave[g] \subseteq gave'[g]
            /\ g <= gen => gave'[g] = gave[g] \cup {o}
            /\ gave'[g] \in SUBSET Officials
BY DEF GaveNow, CeremonyTyped, CeremonyTypeOK

\* Steps that hand nothing over and prepare nothing.
LEMMA NothingGiven ==
  ASSUME QuorumInv, UNCHANGED <<gen, enclave, standin, gave>>,
         page'.prep = page.prep, page'.decrypted = page.decrypted,
         \A o \in Officials : wrapped'[o] \in {wrapped[o], page.prep}
  PROVE  GivenInv' /\ KeyByQuorum' /\ OpenedByQuorum'
BY DEF QuorumInv, GivenInv, KeyByQuorum, OpenedByQuorum

\* A share that the backend accepts: the enclave knows whose it is, and has no key but by a
\* quorum.
LEMMA AcceptedShare ==
  ASSUME QuorumInv, NEW o \in Officials, wrapped[o] # 0, BackendAccepts(o), GaveNow(o)
  PROVE  /\ \A p \in Officials : enclave'.share[p] # 0 => p \in gave'[enclave'.share[p]]
         /\ KeyByQuorum'
<1> DEFINE share == [enclave.share EXCEPT ![o] = wrapped[o]]
           given == {x \in Officials : share[x] # 0}
<1>1. share \in [Officials -> Gens] /\ wrapped[o] \in Gens /\ gen \in Gens
  BY DEF QuorumInv, CeremonyTyped, CeremonyTypeOK
<1>2. enclave'.share = share
  BY DEF BackendAccepts, EnclaveTakes
<1>3. \/ enclave'.key = enclave.key
      \/ enclave'.key = KeyFrom(share) /\ Cardinality(given) >= Threshold
  BY DEF BackendAccepts, EnclaveTakes
<1>4. ASSUME NEW p \in Officials, share[p] # 0 PROVE p \in gave'[share[p]]
  <2>1. share[p] \in 1..MaxGens
    BY <1>1, <1>4 DEF Gens
  <2>2. CASE p = o
    <3>1. share[p] = wrapped[o] /\ wrapped[o] <= gen
      BY <2>2 DEF QuorumInv, GivenInv, CeremonyTyped, CeremonyTypeOK
    <3> QED
      BY <2>1, <2>2, <3>1, GaveGrows DEF QuorumInv
  <2>3. CASE p # o
    <3>1. share[p] = enclave.share[p]
      BY <2>3 DEF QuorumInv, CeremonyTyped, CeremonyTypeOK
    <3>2. p \in gave[share[p]]
      BY <1>4, <3>1 DEF QuorumInv, GivenInv
    <3> QED
      BY <2>1, <3>2, GaveGrows DEF QuorumInv
  <2> QED
    BY <2>2, <2>3
<1>5. ASSUME enclave'.key \in 1..MaxGens PROVE Cardinality(gave'[enclave'.key]) >= Threshold
  <2> DEFINE key == enclave'.key
  <2>1. gave'[key] \in SUBSET Officials /\ gave[key] \subseteq gave'[key]
    BY <1>5, GaveGrows DEF QuorumInv
  <2>2. CASE key = enclave.key
    <3>1. Cardinality(gave[key]) >= Threshold
      BY <1>5, <2>2 DEF QuorumInv, KeyByQuorum
    <3> QED
      BY <2>1, <3>1, QuorumGrows
  <2>3. CASE key = KeyFrom(share) /\ Cardinality(given) >= Threshold
    <3>1. key # Garbage
      BY <1>5, CeremonyAssumption DEF Garbage
    <3>2. Agree(share, key)
      BY <1>1, <2>3, <3>1, KeyFromType
    <3>3. given \subseteq gave'[key]
      BY <1>4, <3>2 DEF Agree
    <3> HIDE DEF given
    <3> QED
      BY <2>1, <2>3, <3>3, QuorumGrows
  <2> QED
    BY <1>3, <2>2, <2>3
<1> HIDE DEF share, given
<1> QED
  BY <1>2, <1>4, <1>5 DEF KeyByQuorum

\* A share handed over, to the backend, to the stand-in or to both.
LEMMA SubmittedStep ==
  ASSUME QuorumInv, NEW o \in Officials, SubmitToBackend(o) \/ SubmitHere(o)
  PROVE  GivenInv' /\ KeyByQuorum' /\ OpenedByQuorum'
<1>1. wrapped[o] # 0 /\ gen' = gen
      /\ wrapped' = [wrapped EXCEPT ![o] = 0] /\ page' = [page EXCEPT !.busy = {}]
  BY DEF SubmitToBackend, SubmitHere, Delivered
<1>2. page'.prep = page.prep /\ page'.decrypted = page.decrypted
  BY <1>1 DEF QuorumInv, CeremonyTyped, CeremonyTypeOK, CeremonyPages
<1>3. gen \in Nat /\ page.decrypted \in Gens /\ standin.gen \in Gens /\ enclave.key \in Gens \cup {Garbage}
  BY DEF QuorumInv, CeremonyTyped, CeremonyTypeOK, CeremonyPages, Gens
<1>4. \A p \in Officials : wrapped'[p] <= gen
  BY <1>1, <1>3 DEF QuorumInv, GivenInv, CeremonyTyped, CeremonyTypeOK
<1>5. \A g \in 1..MaxGens : gave[g] \subseteq gave'[g] /\ gave'[g] \in SUBSET Officials
  <2>1. CASE GaveNow(o)
    BY <2>1, GaveGrows DEF QuorumInv
  <2>2. CASE gave' = gave
    BY <2>2 DEF QuorumInv, CeremonyTyped, CeremonyTypeOK
  <2> QED
    BY <2>1, <2>2 DEF SubmitToBackend, SubmitHere
<1>6. OpenedByQuorum'
  <2>1. SUFFICES ASSUME page.decrypted # 0
                 PROVE  Cardinality(gave'[page.decrypted]) >= Threshold
    BY <1>2 DEF OpenedByQuorum
  <2>2. page.decrypted \in 1..MaxGens /\ Cardinality(gave[page.decrypted]) >= Threshold
    BY <1>3, <2>1 DEF QuorumInv, OpenedByQuorum, Gens
  <2> QED
    BY <1>5, <2>2, QuorumGrows
<1>7. /\ \A p \in Officials : enclave'.share[p] # 0 => p \in gave'[enclave'.share[p]]
      /\ KeyByQuorum'
  <2>1. CASE BackendAccepts(o) /\ GaveNow(o)
    BY <1>1, <2>1, AcceptedShare
  <2>2. CASE enclave' = enclave
    <3>1. ASSUME NEW p \in Officials, enclave.share[p] # 0 PROVE p \in gave'[enclave.share[p]]
      <4>1. enclave.share[p] \in 1..MaxGens
        BY <3>1 DEF QuorumInv, CeremonyTyped, CeremonyTypeOK, Gens
      <4> QED
        BY <1>5, <3>1, <4>1 DEF QuorumInv, GivenInv
    <3>2. ASSUME enclave.key \in 1..MaxGens PROVE Cardinality(gave'[enclave.key]) >= Threshold
      BY <1>5, <3>2, QuorumGrows DEF QuorumInv, KeyByQuorum
    <3> QED
      BY <2>2, <3>1, <3>2 DEF KeyByQuorum
  <2> QED
    BY <2>1, <2>2 DEF SubmitToBackend, SubmitHere
<1>8. standin'.gen <= gen /\ (standin'.gen # 0 => standin'.shares \subseteq gave'[standin'.gen])
  <2>1. CASE standin' = standin
    <3>1. standin.gen # 0 => standin.gen \in 1..MaxGens
      BY <1>3 DEF Gens
    <3> QED
      BY <1>5, <2>1, <3>1 DEF QuorumInv, GivenInv
  <2>2. CASE standin' # standin
    <3>1. /\ standin.gen # 0
          /\ standin' = [standin EXCEPT !.shares = standin.shares \cup {o}]
          /\ GaveNow(o)
      BY <2>2 DEF SubmitToBackend, SubmitHere, QuorumInv, CeremonyTyped, CeremonyTypeOK
    <3>2. standin'.gen = standin.gen /\ standin'.shares = standin.shares \cup {o}
      BY <3>1 DEF QuorumInv, CeremonyTyped, CeremonyTypeOK
    <3>3. standin.gen \in 1..MaxGens /\ standin.gen <= gen /\ standin.shares \subseteq gave[standin.gen]
      BY <1>3, <3>1 DEF QuorumInv, GivenInv, Gens
    <3>4. gave'[standin.gen] = gave[standin.gen] \cup {o}
      BY <3>1, <3>3, GaveGrows DEF QuorumInv
    <3> QED
      BY <3>2, <3>3, <3>4
  <2> QED
    BY <2>1, <2>2
<1>9. page.prep <= gen
  BY DEF QuorumInv, GivenInv
<1> QED
  BY <1>1, <1>2, <1>4, <1>6, <1>7, <1>8, <1>9 DEF GivenInv

LEMMA QuorumStep ==
  ASSUME QuorumInv, [CeremonyNext]_ceremonyVars
  PROVE  QuorumInv'
<1>1. CeremonyTyped'
  <2>1. CASE \E g \in 1..MaxGens : Decrypt(g)
    <3>1. PICK g \in 1..MaxGens : Decrypt(g)
      BY <2>1
    <3>2. page' \in CeremonyPages
      <4>1. page' = [page EXCEPT !.decrypted = g] /\ g \in Gens
        BY <3>1, CeremonyAssumption DEF Decrypt, Gens
      <4> QED
        BY <4>1 DEF QuorumInv, CeremonyTyped, CeremonyTypeOK, CeremonyPages
    <3> QED
      BY <3>1, <3>2 DEF Decrypt, QuorumInv, CeremonyTyped, CeremonyTypeOK
  <2>2. CASE UNCHANGED ceremonyVars
    BY <2>2 DEF ceremonyVars, QuorumInv, CeremonyTyped, CeremonyTypeOK
  <2> QED
    BY <2>1, <2>2, StatusSteps, PrepareSteps, ShareSteps DEF QuorumInv, CeremonyNext
<1>2. CASE UNCHANGED ceremonyVars
  BY <1>1, <1>2 DEF ceremonyVars, QuorumInv, GivenInv, KeyByQuorum, OpenedByQuorum
<1>3. CASE ReadStatus \/ ShowStatus \/ Attest \/ \E o \in Officials : PressSubmit(o)
  <2>1. UNCHANGED <<gen, enclave, standin, gave>>
    BY <1>3 DEF ReadStatus, ShowStatus, Attest, PressSubmit
  <2>2. page'.prep = page.prep /\ page'.decrypted = page.decrypted
    BY <1>3 DEF ReadStatus, ShowStatus, Attest, PressSubmit, QuorumInv, CeremonyTyped,
                CeremonyTypeOK, CeremonyPages
  <2>3. \A o \in Officials : wrapped'[o] \in {wrapped[o], page.prep}
    BY <1>3 DEF ReadStatus, ShowStatus, Attest, PressSubmit, QuorumInv, CeremonyTyped, CeremonyTypeOK
  <2> QED
    BY <1>1, <2>1, <2>2, <2>3, NothingGiven DEF QuorumInv
<1>4. CASE PrepareAtBackend \/ PrepareHere
  <2>1. gen' \in Gens /\ gen' > gen /\ gen \in Gens
    BY <1>4, PrepareSteps DEF QuorumInv, CeremonyTyped, CeremonyTypeOK
  <2>2. page'.prep = gen' /\ page'.decrypted = 0
    BY <1>4 DEF PrepareAtBackend, PrepareHere, QuorumInv, CeremonyTyped, CeremonyTypeOK, CeremonyPages
  <2>3. standin'.gen = gen' /\ standin'.shares = {} /\ UNCHANGED <<enclave, wrapped, gave>>
    BY <1>4 DEF PrepareAtBackend, PrepareHere
  <2>4. \A o \in Officials : wrapped[o] \in Nat /\ wrapped[o] <= gen
    BY DEF QuorumInv, GivenInv, CeremonyTyped, CeremonyTypeOK, Gens
  <2>5. GivenInv'
    BY <2>1, <2>2, <2>3, <2>4 DEF QuorumInv, GivenInv, Gens
  <2>6. KeyByQuorum' /\ OpenedByQuorum'
    BY <2>2, <2>3 DEF QuorumInv, KeyByQuorum, OpenedByQuorum
  <2> QED
    BY <1>1, <2>5, <2>6 DEF QuorumInv
<1>5. CASE \E o \in Officials : SubmitToBackend(o) \/ SubmitHere(o)
  BY <1>1, <1>5, SubmittedStep DEF QuorumInv
<1>6. ASSUME NEW g \in 1..MaxGens, Decrypt(g) PROVE QuorumInv'
  <2>1. page'.prep = page.prep /\ page'.decrypted = g
        /\ UNCHANGED <<gen, enclave, standin, wrapped, gave>>
    BY <1>6 DEF Decrypt, QuorumInv, CeremonyTyped, CeremonyTypeOK, CeremonyPages
  <2>2. gave[g] \in SUBSET Officials
    BY DEF QuorumInv, CeremonyTyped, CeremonyTypeOK
  <2>3. Cardinality(gave[g]) >= Threshold
    <3>1. CASE enclave.key = g
      BY <3>1 DEF QuorumInv, KeyByQuorum
    <3>2. CASE standin.gen = g /\ Cardinality(standin.shares) >= Threshold
      <4>1. standin.shares \subseteq gave[g]
        BY <1>6, <3>2 DEF Decrypt, QuorumInv, GivenInv
      <4> QED
        BY <2>2, <3>2, <4>1, QuorumGrows
    <3> QED
      BY <1>6, <3>1, <3>2 DEF Decrypt, OpensAt, HereQuorum
  <2> QED
    BY <1>1, <2>1, <2>3 DEF QuorumInv, GivenInv, KeyByQuorum, OpenedByQuorum
<1> QED
  BY <1>2, <1>3, <1>4, <1>5, <1>6 DEF CeremonyNext

\* "Any 3 of 5 reconstruct it" (ceremony/page.tsx 118), and no fewer: a paper is opened only
\* after as many officials as the threshold handed a share over since it was last prepared,
\* whichever preparation the share was wrapped for: the stand-in does not look at it
\* (ceremony.ts 295-305).  For any number of officials, any threshold, and preparations that
\* leave old shares in the enclave.
THEOREM OpenedByQuorumAlways == CeremonySpec => []OpenedByQuorum
<1>1. CeremonyInit => QuorumInv
  <2> SUFFICES ASSUME CeremonyInit PROVE GivenInv /\ KeyByQuorum /\ OpenedByQuorum
    BY CeremonyInitTyped DEF QuorumInv
  <2> QED
    BY DEF CeremonyInit, GivenInv, KeyByQuorum, OpenedByQuorum
<1>2. QuorumInv => OpenedByQuorum
  BY DEF QuorumInv
<1> QED
  BY <1>1, <1>2, QuorumStep, PTL DEF CeremonySpec

-----------------------------------------------------------------------------
(* Dual control: the exam's state is changed by two admins. *)

\* Confirmed, and by somebody else than who asked.
ByTwo(r) == r.status = "CONFIRMED" /\ r.confirmer \in Directors \ {r.initiator}

\* What the state of a store rests on: requests that await are not confirmed yet, those
\* being executed are.
DualInv ==
    /\ requests \in Seq(Request)
    /\ exam \in [Stores -> ExamStates]
    /\ pending \subseteq 1..Len(requests)
    /\ \A i \in pending : requests[i].status = "AWAITING_CONFIRMATION"
    /\ running \subseteq 1..Len(requests)
    /\ \A i \in running : ByTwo(requests[i]) /\ requests[i].store = "backend"
    /\ ChangedByTwo

\* A list of requests that says of the confirmed ones what the present list says.
Keeps(rs) ==
    /\ rs \in Seq(Request)
    /\ Len(rs) >= Len(requests)
    /\ \A i \in 1..Len(requests) :
         ByTwo(requests[i]) =>
            ByTwo(rs[i]) /\ rs[i].store = requests[i].store /\ rs[i].action = requests[i].action

\* Such a list carries the state it has brought about.
LEMMA StateStays ==
  ASSUME DualInv, Keeps(requests'), exam' = exam
  PROVE  /\ ChangedByTwo'
         /\ running \subseteq 1..Len(requests')
         /\ \A i \in running : ByTwo(requests'[i]) /\ requests'[i].store = "backend"
<1>1. Len(requests) \in Nat /\ Len(requests') \in Nat
  BY DEF DualInv, Keeps
<1>2. 1..Len(requests) \subseteq 1..Len(requests')
  BY <1>1 DEF Keeps
<1>3. ASSUME NEW s \in Stores, exam[s] # "ACTIVE"
      PROVE  \E i \in DOMAIN requests' :
               /\ requests'[i].store = s
               /\ requests'[i].status = "CONFIRMED"
               /\ After(requests'[i].action, "ACTIVE") = exam[s]
               /\ requests'[i].confirmer \in Directors \ {requests'[i].initiator}
  <2>1. PICK i \in 1..Len(requests) :
          /\ requests[i].store = s
          /\ ByTwo(requests[i])
          /\ After(requests[i].action, "ACTIVE") = exam[s]
    BY <1>3 DEF DualInv, ChangedByTwo, ByTwo
  <2>2. ByTwo(requests'[i]) /\ requests'[i].store = s /\ requests'[i].action = requests[i].action
    BY <2>1 DEF Keeps
  <2>3. i \in DOMAIN requests'
    BY <1>2 DEF Keeps
  <2> QED
    BY <2>1, <2>2, <2>3 DEF ByTwo
<1>4. ChangedByTwo'
  BY <1>3 DEF ChangedByTwo
<1>5. running \subseteq 1..Len(requests')
  BY <1>2 DEF DualInv
<1>6. ASSUME NEW i \in running
      PROVE  ByTwo(requests'[i]) /\ requests'[i].store = "backend"
  BY DEF DualInv, Keeps
<1> QED
  BY <1>4, <1>5, <1>6

\* A sweep: requests that are late expire, the others are what they were.
LEMMA SweptKeeps ==
  ASSUME DualInv, NEW s \in Stores
  PROVE  /\ Keeps(Swept(s).requests)
         /\ Len(Swept(s).requests) = Len(requests)
         /\ Swept(s).pending \subseteq pending
         /\ \A i \in Swept(s).pending : Swept(s).requests[i] = requests[i]
<1> DEFINE rs == [i \in DOMAIN requests |->
                    IF i \in Late(s) THEN [requests[i] EXCEPT !.status = "EXPIRED"]
                    ELSE requests[i]]
<1>1. Swept(s).requests = rs /\ Swept(s).pending = pending \ Late(s)
  BY DEF Swept
<1>2. Late(s) \subseteq pending
  BY DEF Late, Of
<1>3. DOMAIN requests = 1..Len(requests) /\ Len(requests) \in Nat
      /\ \A i \in 1..Len(requests) : requests[i] \in Request
  BY DEF DualInv
<1>4. ASSUME NEW i \in 1..Len(requests) PROVE rs[i] \in Request
  <2>1. [requests[i] EXCEPT !.status = "EXPIRED"] \in Request
    BY <1>3 DEF Request
  <2> QED
    BY <1>3, <2>1
<1>5. rs \in [1..Len(requests) -> Request]
  BY <1>3, <1>4
<1>6. rs \in Seq(Request) /\ Len(rs) = Len(requests)
  BY <1>3, <1>5, SeqDef, LenProperties
<1>7. ASSUME NEW i \in 1..Len(requests), requests[i].status # "AWAITING_CONFIRMATION"
      PROVE  rs[i] = requests[i]
  BY <1>2, <1>3, <1>7 DEF DualInv
<1>8. ASSUME NEW i \in pending \ Late(s) PROVE rs[i] = requests[i]
  BY <1>3, <1>8 DEF DualInv
<1> HIDE DEF rs
<1>9. Keeps(rs)
  BY <1>3, <1>6, <1>7 DEF Keeps, ByTwo
<1> QED
  BY <1>1, <1>6, <1>8, <1>9

\* The five minutes of a request are over.
LEMMA ClockStep ==
  ASSUME DualInv, ClockRuns
  PROVE  DualInv'
<1>0. DOMAIN requests = 1..Len(requests)
  BY DEF DualInv
<1>1. PICK i \in 1..Len(requests) :
        requests' = [requests EXCEPT ![i] = [requests[i] EXCEPT !.late = TRUE]]
  BY <1>0 DEF ClockRuns
<1> DEFINE r == [requests[i] EXCEPT !.late = TRUE]
<1>2. requests[i] \in Request
  BY DEF DualInv
<1>3. r \in Request /\ r.status = requests[i].status /\ r.store = requests[i].store
      /\ r.action = requests[i].action /\ r.confirmer = requests[i].confirmer
      /\ r.initiator = requests[i].initiator
  BY <1>2 DEF Request
<1>4. requests' = [requests EXCEPT ![i] = r]
  BY <1>1
<1> HIDE DEF r
<1>5. /\ requests' \in Seq(Request) /\ Len(requests') = Len(requests)
      /\ \A j \in 1..Len(requests) : requests'[j] = IF j = i THEN r ELSE requests[j]
  BY <1>3, <1>4, ExceptSeq DEF DualInv
<1>6. Keeps(requests')
  BY <1>3, <1>5 DEF Keeps, ByTwo, DualInv
<1>7. UNCHANGED <<pending, running, exam>>
  BY DEF ClockRuns
<1>8. \A j \in pending : requests'[j].status = "AWAITING_CONFIRMATION"
  BY <1>3, <1>5 DEF DualInv
<1> QED
  BY <1>5, <1>6, <1>7, <1>8, StateStays DEF DualInv

LEMMA InitiateStep ==
  ASSUME DualInv, NEW s \in Stores, NEW a \in Directors, NEW action \in Emergencies,
         Initiate(s, a, action)
  PROVE  DualInv'
<1> DEFINE r == [store |-> s, action |-> action, initiator |-> a,
                 status |-> "AWAITING_CONFIRMATION", confirmer |-> NoDirector, late |-> FALSE]
           rs == Swept(s).requests
<1>1. r \in Request /\ r.status = "AWAITING_CONFIRMATION"
  BY DEF Request
<1>2. /\ requests' = Append(rs, r)
      /\ pending' = Swept(s).pending \cup {Len(requests) + 1}
      /\ UNCHANGED <<running, exam>>
  BY DEF Initiate, Becomes, Swept
<1>3. /\ Keeps(rs) /\ Len(rs) = Len(requests) /\ Swept(s).pending \subseteq pending
      /\ \A i \in Swept(s).pending : rs[i] = requests[i]
  BY SweptKeeps
<1> HIDE DEF r, rs
<1>4. rs \in Seq(Request) /\ Len(requests) \in Nat
  BY <1>3 DEF Keeps, DualInv
<1>5. /\ requests' \in Seq(Request)
      /\ Len(requests') = Len(requests) + 1
      /\ \A i \in 1..Len(requests) : requests'[i] = rs[i]
      /\ requests'[Len(requests) + 1] = r
  BY <1>1, <1>2, <1>3, <1>4, AppendProperties
<1>6. Keeps(requests')
  BY <1>3, <1>4, <1>5 DEF Keeps
<1>7. pending' \subseteq 1..Len(requests')
  <2>1. pending \subseteq 1..Len(requests)
    BY DEF DualInv
  <2>2. 1..Len(requests) \cup {Len(requests) + 1} \subseteq 1..Len(requests')
    BY <1>4, <1>5
  <2> QED
    BY <1>2, <1>3, <2>1, <2>2
<1>8. \A i \in pending' : requests'[i].status = "AWAITING_CONFIRMATION"
  BY <1>1, <1>2, <1>3, <1>5 DEF DualInv
<1> QED
  BY <1>2, <1>5, <1>6, <1>7, <1>8, StateStays DEF DualInv

\* One request of the list is settled and leaves the list of those that await.
LEMMA SettledKeeps ==
  ASSUME DualInv, NEW qs, Keeps(qs), Len(qs) = Len(requests),
         NEW left \in SUBSET pending, \A j \in left : qs[j] = requests[j],
         NEW i \in left, NEW q \in Request,
         q.store = requests[i].store, q.action = requests[i].action,
         requests' = [qs EXCEPT ![i] = q], pending' = left \ {i}
  PROVE  /\ Keeps(requests')
         /\ Len(requests') = Len(requests)
         /\ requests'[i] = q
         /\ pending' \subseteq 1..Len(requests')
         /\ \A j \in pending' : requests'[j].status = "AWAITING_CONFIRMATION"
<1>1. i \in 1..Len(qs) /\ qs \in Seq(Request)
  BY DEF DualInv, Keeps
<1>2. /\ requests' \in Seq(Request) /\ Len(requests') = Len(requests)
      /\ \A j \in 1..Len(requests) : requests'[j] = IF j = i THEN q ELSE qs[j]
  BY <1>1, ExceptSeq
<1>3. ~ByTwo(requests[i])
  BY DEF DualInv, ByTwo
<1>4. Keeps(requests')
  BY <1>2, <1>3 DEF Keeps, DualInv
<1> QED
  BY <1>1, <1>2, <1>4 DEF DualInv

\* What an executed request makes of the state, it makes of any other state too.
LEMMA AfterStates ==
  ASSUME NEW action \in Emergencies, NEW state \in ExamStates
  PROVE  /\ After(action, state) \in ExamStates
         /\ \/ After(action, state) = state
            \/ After(action, state) = After(action, "ACTIVE")
BY DualAssumption DEF After, ExamStates

\* A request confirmed by two is executed in its store.
LEMMA ExecutedStep ==
  ASSUME DualInv, NEW s \in Stores, NEW i \in 1..Len(requests),
         Keeps(requests'), ByTwo(requests'[i]), requests'[i].store = s,
         requests'[i].action \in Emergencies,
         exam' = [exam EXCEPT ![s] = After(requests'[i].action, exam[s])]
  PROVE  exam' \in [Stores -> ExamStates] /\ ChangedByTwo'
<1>1. exam[s] \in ExamStates
  BY DEF DualInv
<1>2. exam' \in [Stores -> ExamStates]
  BY <1>1, AfterStates DEF DualInv
<1>3. Len(requests) \in Nat /\ Len(requests') \in Nat /\ 1..Len(requests) \subseteq 1..Len(requests')
      /\ DOMAIN requests' = 1..Len(requests')
  BY DEF DualInv, Keeps
<1>4. ASSUME NEW t \in Stores, exam'[t] # "ACTIVE"
      PROVE  \E j \in DOMAIN requests' :
               /\ requests'[j].store = t
               /\ requests'[j].status = "CONFIRMED"
               /\ After(requests'[j].action, "ACTIVE") = exam'[t]
               /\ requests'[j].confirmer \in Directors \ {requests'[j].initiator}
  <2>1. CASE exam'[t] = exam[t]
    <3>1. PICK j \in 1..Len(requests) :
            /\ requests[j].store = t
            /\ ByTwo(requests[j])
            /\ After(requests[j].action, "ACTIVE") = exam[t]
      BY <1>4, <2>1 DEF DualInv, ChangedByTwo, ByTwo
    <3>2. ByTwo(requests'[j]) /\ requests'[j].store = t /\ requests'[j].action = requests[j].action
      BY <3>1 DEF Keeps
    <3> QED
      BY <1>3, <2>1, <3>1, <3>2 DEF ByTwo
  <2>2. CASE exam'[t] # exam[t]
    <3>1. t = s /\ exam'[t] = After(requests'[i].action, exam[s])
      BY <2>2 DEF DualInv
    <3>2. exam'[t] = After(requests'[i].action, "ACTIVE")
      BY <1>1, <2>2, <3>1, AfterStates
    <3> QED
      BY <1>3, <3>1, <3>2 DEF ByTwo
  <2> QED
    BY <2>1, <2>2
<1> QED
  BY <1>2, <1>4 DEF ChangedByTwo

LEMMA ConfirmStep ==
  ASSUME DualInv, NEW s \in Stores, NEW i, NEW a \in Directors, Confirm(s, i, a)
  PROVE  DualInv'
<1> DEFINE rs == Swept(s).requests
           ps == Swept(s).pending
           r == [rs[i] EXCEPT !.status = "CONFIRMED", !.confirmer = a]
<1>1. i \in ps /\ requests[i].store = s /\ a # requests[i].initiator
  BY DEF Confirm, MayConfirm
<1>2. /\ Keeps(rs) /\ Len(rs) = Len(requests) /\ ps \subseteq pending
      /\ \A j \in ps : rs[j] = requests[j]
  BY SweptKeeps
<1>3. requests' = [rs EXCEPT ![i] = r] /\ pending' = ps \ {i}
  BY DEF Confirm, Becomes, Swept
<1> HIDE DEF rs, ps
<1>4. i \in 1..Len(requests) /\ requests[i] \in Request /\ rs[i] = requests[i]
  BY <1>1, <1>2 DEF DualInv
<1>5. r \in Request /\ r.store = s /\ r.action = requests[i].action /\ ByTwo(r)
  BY <1>1, <1>4 DEF Request, ByTwo
<1> HIDE DEF r
<1>6. /\ Keeps(requests') /\ Len(requests') = Len(requests) /\ requests'[i] = r
      /\ pending' \subseteq 1..Len(requests')
      /\ \A j \in pending' : requests'[j].status = "AWAITING_CONFIRMATION"
  <2>1. i \in 1..Len(rs) /\ rs \in Seq(Request)
    BY <1>2, <1>4 DEF Keeps
  <2>2. /\ requests' \in Seq(Request) /\ Len(requests') = Len(requests)
        /\ \A j \in 1..Len(requests) : requests'[j] = IF j = i THEN r ELSE rs[j]
    BY <1>2, <1>3, <1>5, <2>1, ExceptSeq
  <2>3. ~ByTwo(requests[i])
    BY <1>1, <1>2 DEF DualInv, ByTwo
  <2>4. Keeps(requests')
    BY <1>2, <2>2, <2>3 DEF Keeps, DualInv
  <2> QED
    BY <1>2, <1>3, <1>4, <2>2, <2>4 DEF DualInv
<1>7. requests' \in Seq(Request)
  BY <1>6 DEF Keeps
<1>8. CASE s = "backend"
  <2>1. running' = running \cup {i} /\ exam' = exam
    BY <1>8 DEF Confirm
  <2>2. ChangedByTwo' /\ \A j \in running : ByTwo(requests'[j]) /\ requests'[j].store = "backend"
    BY <1>6, <2>1, StateStays
  <2>3. running' \subseteq 1..Len(requests')
    BY <1>4, <1>6, <2>1 DEF DualInv
  <2>4. \A j \in running' : ByTwo(requests'[j]) /\ requests'[j].store = "backend"
    BY <1>5, <1>6, <1>8, <2>1, <2>2
  <2>5. exam' \in [Stores -> ExamStates]
    BY <2>1 DEF DualInv
  <2> QED
    BY <1>6, <1>7, <2>2, <2>3, <2>4, <2>5 DEF DualInv
<1>9. CASE s = "local"
  <2>1. running' = running /\ exam' = [exam EXCEPT ![s] = After(requests[i].action, exam[s])]
    BY <1>9 DEF Confirm
  <2>2. exam' \in [Stores -> ExamStates] /\ ChangedByTwo'
    <3>1. requests[i].action \in Emergencies
      BY <1>4 DEF Request
    <3> QED
      BY <1>4, <1>5, <1>6, <2>1, <3>1, ExecutedStep
  <2>3. \A j \in running : ByTwo(requests'[j]) /\ requests'[j].store = "backend"
    BY <1>6 DEF Keeps, DualInv
  <2>4. running' \subseteq 1..Len(requests')
    BY <1>6, <2>1 DEF DualInv
  <2> QED
    BY <1>6, <1>7, <2>1, <2>2, <2>3, <2>4 DEF DualInv
<1> QED
  BY <1>8, <1>9 DEF Stores

LEMMA RejectStep ==
  ASSUME DualInv, NEW s \in Stores, NEW i, NEW a \in Directors, Reject(s, i, a)
  PROVE  DualInv'
<1> DEFINE r == [[requests[i] EXCEPT !.status = "REJECTED"] EXCEPT !.confirmer = a]
<1>1. i \in pending
  BY DEF Reject, Of
<1>2. i \in 1..Len(requests) /\ requests[i] \in Request
  BY <1>1 DEF DualInv
<1>3. r \in Request /\ r.store = requests[i].store /\ r.action = requests[i].action
  BY <1>2 DEF Request
<1>4. /\ requests' = [requests EXCEPT ![i] = r] /\ pending' = pending \ {i}
      /\ UNCHANGED <<running, exam>>
  BY <1>2 DEF Reject, Becomes
<1> HIDE DEF r
<1>5. Keeps(requests)
  BY DEF Keeps, DualInv
<1>6. /\ Keeps(requests') /\ Len(requests') = Len(requests)
      /\ pending' \subseteq 1..Len(requests')
      /\ \A j \in pending' : requests'[j].status = "AWAITING_CONFIRMATION"
  BY <1>1, <1>3, <1>4, <1>5, SettledKeeps
<1> QED
  BY <1>4, <1>6, StateStays DEF DualInv, Keeps

LEMMA ExecuteStep ==
  ASSUME DualInv, NEW i, Execute(i)
  PROVE  DualInv'
<1>1. i \in 1..Len(requests) /\ ByTwo(requests[i]) /\ requests[i].store = "backend"
      /\ requests[i] \in Request
  BY DEF Execute, DualInv
<1>2. /\ UNCHANGED <<requests, pending>> /\ running' = running \ {i}
      /\ exam' = [exam EXCEPT !["backend"] = After(requests[i].action, exam["backend"])]
  BY DEF Execute
<1>3. Keeps(requests')
  BY <1>2 DEF Keeps, DualInv
<1>4. requests[i].action \in Emergencies /\ "backend" \in Stores
  BY <1>1 DEF Request, Stores
<1>5. exam' \in [Stores -> ExamStates] /\ ChangedByTwo'
  BY <1>1, <1>2, <1>3, <1>4, ExecutedStep
<1> QED
  BY <1>2, <1>5 DEF DualInv

LEMMA RefreshPanelStep ==
  ASSUME DualInv, NEW s \in Stores, RefreshPanel(s)
  PROVE  DualInv'
<1>1. /\ requests' = Swept(s).requests /\ pending' = Swept(s).pending
      /\ UNCHANGED <<running, exam>>
  BY DEF RefreshPanel, Becomes
<1>2. /\ Keeps(requests') /\ Len(requests') = Len(requests) /\ pending' \subseteq pending
      /\ \A j \in pending' : requests'[j] = requests[j]
  BY <1>1, SweptKeeps
<1> QED
  BY <1>1, <1>2, StateStays DEF DualInv, Keeps

LEMMA DualInvInit == DualInit => DualInv
<1> SUFFICES ASSUME DualInit PROVE DualInv
  OBVIOUS
<1>1. requests \in Seq(Request) /\ Len(requests) = 0
  BY DEF DualInit
<1> QED
  BY <1>1 DEF DualInit, DualInv, ChangedByTwo, ExamStates

LEMMA DualInvStep == DualInv /\ [DualNext]_dualVars => DualInv'
<1> SUFFICES ASSUME DualInv, [DualNext]_dualVars PROVE DualInv'
  OBVIOUS
<1>1. Me \in Directors /\ \A s \in Stores, a \in Directors : Actor(s, a) \in Directors
  BY DualAssumption DEF Actor
<1>2. CASE UNCHANGED dualVars
  BY <1>2 DEF dualVars, DualInv, ChangedByTwo
<1>3. CASE ClockRuns
  BY <1>3, ClockStep
<1>4. ASSUME NEW i \in Ids, Execute(i) PROVE DualInv'
  BY <1>4, ExecuteStep
<1>5. ASSUME NEW a \in Directors, NEW action \in Emergencies,
             \/ OtherInitiates(a, action)
             \/ \E s \in Stores : PressInitiate(s, a, action)
      PROVE  DualInv'
  BY <1>1, <1>5, InitiateStep DEF OtherInitiates, PressInitiate, Stores
<1>6. ASSUME NEW a \in Directors, NEW i \in Ids,
             \/ OtherConfirms(i, a) \/ OtherRejects(i, a)
             \/ \E s \in Stores : PressConfirm(s, i, a) \/ PressReject(s, i, a)
      PROVE  DualInv'
  BY <1>1, <1>6, ConfirmStep, RejectStep DEF OtherConfirms, OtherRejects, PressConfirm,
     PressReject, Stores
<1>7. ASSUME NEW s \in Stores, RefreshPanel(s) PROVE DualInv'
  BY <1>7, RefreshPanelStep
<1> QED
  BY <1>2, <1>3, <1>4, <1>5, <1>6, <1>7 DEF DualNext

\* "Two-person integrity: initiator cannot confirm their own request" (DualControlPanel.tsx
\* 96): any number of admins and requests, one browser acting for several, executions that
\* overlap (dual_control.py 99-138, 171-222; emergency.ts 66-98).
THEOREM ChangedByTwoAlways == DualSpec => []ChangedByTwo
<1>1. DualInv => ChangedByTwo
  BY DEF DualInv
<1> QED
  BY <1>1, DualInvInit, DualInvStep, PTL DEF DualSpec

-----------------------------------------------------------------------------
(* The sweep lists every request that is late once. *)

\* The rank of a number in a finite set tells it from the others, and the ranks of a set of
\* n numbers are 0 to n - 1: listed by rank, each is listed once.
LEMMA InOrderLists ==
  ASSUME NEW S \in SUBSET Nat, IsFiniteSet(S)
  PROVE  /\ Cardinality(S) \in Nat
         /\ InOrder(S) \in Seq(S) /\ Len(InOrder(S)) = Cardinality(S)
         /\ \A k, l \in 1..Cardinality(S) : InOrder(S)[k] = InOrder(S)[l] => k = l
         /\ \A i \in S : \E k \in 1..Cardinality(S) : InOrder(S)[k] = i
<1> DEFINE below(i) == {j \in S : j < i}
           rank(i) == Cardinality(below(i))
           n == Cardinality(S)
           f == [i \in S |-> rank(i) + 1]
<1>1. n \in Nat
  BY FS_CardinalityType
<1>0. \A i \in S : i \in Int
  OBVIOUS
<1>2. ASSUME NEW i \in S PROVE IsFiniteSet(below(i)) /\ rank(i) \in Nat /\ rank(i) < n
  <2>1. below(i) \subseteq S \ {i}
    OBVIOUS
  <2>2. IsFiniteSet(S \ {i}) /\ Cardinality(S \ {i}) = n - 1
    BY FS_RemoveElement
  <2>3. IsFiniteSet(below(i)) /\ rank(i) <= n - 1
    BY <2>1, <2>2, FS_Subset
  <2> HIDE DEF below, n
  <2>4. rank(i) \in Nat
    BY <2>3, FS_CardinalityType
  <2> QED
    BY <1>1, <2>3, <2>4
<1>3. ASSUME NEW i \in S, NEW l \in S, i < l PROVE rank(i) < rank(l)
  <2>0. \A j \in S : j < i => j < l /\ j # i
    <3> SUFFICES ASSUME NEW j \in S, j < i PROVE j < l /\ j # i
      OBVIOUS
    <3>1. j \in Int /\ i \in Int /\ l \in Int
      BY <1>0
    <3> QED
      BY <1>3, <3>1
  <2>1. below(i) \subseteq below(l) \ {i} /\ i \in below(l)
    BY <1>3, <2>0
  <2> HIDE DEF below
  <2>2. /\ IsFiniteSet(below(l)) /\ rank(l) \in Nat /\ rank(i) \in Nat
        /\ IsFiniteSet(below(l) \ {i}) /\ Cardinality(below(l) \ {i}) = rank(l) - 1
    BY <1>2, <2>1, FS_RemoveElement
  <2>3. rank(i) <= rank(l) - 1
    BY <2>1, <2>2, FS_Subset
  <2> QED
    BY <2>2, <2>3
<1> HIDE DEF rank, n, below
<1>14. \A i \in S : rank(i) \in Nat /\ rank(i) < n
  BY <1>2
<1>4. \A i, l \in S : rank(i) = rank(l) => i = l
  <2> SUFFICES ASSUME NEW i \in S, NEW l \in S, rank(i) = rank(l) PROVE i = l
    OBVIOUS
  <2>1. ~(i < l) /\ ~(l < i)
    BY <1>3, <1>14
  <2> QED
    BY <1>0, <2>1
<1>5. f \in Injection(S, 1..n)
  <2>1. f \in [S -> 1..n]
    BY <1>1, <1>14
  <2>2. \A i, l \in S : f[i] = f[l] => i = l
    BY <1>14, <1>4
  <2> HIDE DEF f
  <2> QED
    BY <2>1, <2>2 DEF Injection, IsInjective
<1>6. IsFiniteSet(1..n) /\ Cardinality(1..n) = n
  <2>1. IsFiniteSet(1..n) /\ Cardinality(1..n) = IF 1 > n THEN 0 ELSE n - 1 + 1
    BY <1>1, FS_Interval
  <2> QED
    BY <1>1, <2>1
<1>7. \A k \in 1..n : \E i \in S : f[i] = k
  <2> HIDE DEF f
  <2>0. Cardinality(S) = Cardinality(1..n)
    BY <1>6 DEF n
  <2>1. f \in Surjection(S, 1..n)
    BY <1>5, <1>6, <2>0, FS_Injection
  <2> QED
    BY <2>1 DEF Surjection
<1>8. ASSUME NEW k \in 1..n PROVE \E i \in S : rank(i) = k - 1
  <2>1. PICK i \in S : f[i] = k
    BY <1>7
  <2>2. rank(i) + 1 = k
    BY <2>1
  <2>3. rank(i) = k - 1
    BY <1>1, <1>14, <2>2
  <2> QED
    BY <2>3
<1> DEFINE nth(k) == CHOOSE i \in S : rank(i) = k - 1
<1>9. \A k \in 1..n : nth(k) \in S /\ rank(nth(k)) = k - 1
  BY <1>8
<1>10. InOrder(S) = [k \in 1..n |-> nth(k)]
  BY DEF InOrder, n, rank, below
<1> HIDE DEF nth
<1>11. InOrder(S) \in Seq(S) /\ Len(InOrder(S)) = n /\ \A k \in 1..n : InOrder(S)[k] = nth(k)
  <2>1. InOrder(S) \in [1..n -> S]
    BY <1>9, <1>10
  <2>2. InOrder(S) \in Seq(S)
    BY <1>1, <2>1, SeqDef
  <2> QED
    BY <1>1, <1>10, <2>1, <2>2, LenProperties
<1>12. \A k, l \in 1..n : nth(k) = nth(l) => k = l
  <2> SUFFICES ASSUME NEW k \in 1..n, NEW l \in 1..n, nth(k) = nth(l) PROVE k = l
    OBVIOUS
  <2>1. k - 1 = l - 1
    BY <1>9
  <2> QED
    BY <1>1, <2>1
<1>13. ASSUME NEW i \in S PROVE \E k \in 1..n : nth(k) = i
  <2>1. rank(i) + 1 \in 1..n
    BY <1>1, <1>14
  <2>2. nth(rank(i) + 1) \in S /\ rank(nth(rank(i) + 1)) = rank(i)
    BY <1>14, <1>9, <2>1
  <2> QED
    BY <1>4, <2>1, <2>2
<1> QED
  BY <1>1, <1>11, <1>12, <1>13 DEF n

-----------------------------------------------------------------------------
(* Dual control: every request is in one place. *)

LEMMA PlaceFacts ==
  ASSUME NEW n \in Nat, NEW p, NEW r, NEW h, NEW t \in Nat, InOnePlace(n, p, r, h, t)
  PROVE  /\ p \subseteq 1..n /\ r \subseteq 1..n /\ Len(h) \in Nat
         /\ IsFiniteSet(p) /\ IsFiniteSet(r) /\ IsFiniteSet(r \cup p)
         /\ Cardinality(p) \in Nat /\ Cardinality(r \cup p) \in Nat
<1>1. p \subseteq 1..n /\ r \subseteq 1..n /\ r \cup p \subseteq 1..n
  BY DEF InOnePlace
<1>2. IsFiniteSet(1..n)
  BY FS_Interval
<1> QED
  BY <1>1, <1>2, FS_Subset, FS_CardinalityType, LenProperties DEF InOnePlace

\* Some of those that await go to the history, each once.
LEMMA SweepPlaces ==
  ASSUME NEW n \in Nat, NEW p, NEW r, NEW h, NEW t \in Nat, InOnePlace(n, p, r, h, t),
         NEW late \in SUBSET p
  PROVE  /\ IsFiniteSet(late) /\ Cardinality(late) \in Nat
         /\ InOnePlace(n, p \ late, r, h \o InOrder(late), t + Cardinality(late))
<1> DEFINE g == InOrder(late)
           m == Cardinality(late)
           hg == h \o g
<1>1. /\ p \subseteq 1..n /\ Len(h) \in Nat /\ IsFiniteSet(p) /\ IsFiniteSet(r \cup p)
      /\ Cardinality(p) \in Nat /\ Cardinality(r \cup p) \in Nat
  BY PlaceFacts
<1>2. IsFiniteSet(late) /\ late \in SUBSET Nat
  <2>1. IsFiniteSet(late)
    BY <1>1, FS_Subset
  <2>2. 1..n \subseteq Nat
    OBVIOUS
  <2> QED
    BY <1>1, <2>1, <2>2
<1>3. /\ m \in Nat /\ g \in Seq(late) /\ Len(g) = m
      /\ \A k, l \in 1..m : g[k] = g[l] => k = l
      /\ \A i \in late : \E k \in 1..m : g[k] = i
  BY <1>2, InOrderLists
<1>4. \A k \in 1..m : g[k] \in late
  BY <1>3, ElementOfSeq
<1>5. /\ h \in Seq(1..n) /\ p \cap r = {} /\ t + Cardinality(p) = n
      /\ Len(h) + Cardinality(r \cup p) = n
  BY DEF InOnePlace
<1>6. g \in Seq(1..n)
  <2>1. g \in [1..m -> late]
    BY <1>3, LenProperties
  <2>2. g \in [1..m -> 1..n]
    BY <1>1, <2>1
  <2> QED
    BY <1>3, <2>2, SeqDef
<1> HIDE DEF g
<1>7. /\ hg \in Seq(1..n) /\ Len(hg) = Len(h) + m
      /\ \A k \in 1..Len(h) : hg[k] = h[k]
      /\ \A k \in 1..m : hg[Len(h) + k] = g[k]
  <2>1. /\ hg \in Seq(1..n) /\ Len(hg) = Len(h) + Len(g)
        /\ \A k \in 1..Len(h) + Len(g) : hg[k] = IF k <= Len(h) THEN h[k] ELSE g[k - Len(h)]
    BY <1>5, <1>6, ConcatProperties
  <2> HIDE DEF hg, m
  <2>2. ASSUME NEW k \in 1..Len(h) PROVE hg[k] = h[k]
    <3>1. k \in 1..Len(h) + Len(g) /\ k <= Len(h)
      BY <1>1, <1>3
    <3> QED
      BY <2>1, <3>1
  <2>3. ASSUME NEW k \in 1..m PROVE hg[Len(h) + k] = g[k]
    <3>1. /\ Len(h) + k \in 1..Len(h) + Len(g) /\ ~(Len(h) + k <= Len(h))
          /\ Len(h) + k - Len(h) = k
      BY <1>1, <1>3
    <3> QED
      BY <2>1, <3>1
  <2> QED
    BY <1>3, <2>1, <2>2, <2>3
<1> HIDE DEF hg, m
<1>8. \A k \in 1..(Len(h) + m) :
         \/ k \in 1..Len(h) /\ hg[k] = h[k]
         \/ \E l \in 1..m : k = Len(h) + l /\ hg[k] = g[l]
  <2> SUFFICES ASSUME NEW k \in 1..(Len(h) + m), k \notin 1..Len(h)
               PROVE  \E l \in 1..m : k = Len(h) + l /\ hg[k] = g[l]
    BY <1>7
  <2>1. k - Len(h) \in 1..m /\ k = Len(h) + (k - Len(h))
    BY <1>1, <1>3
  <2> QED
    BY <1>7, <2>1
<1>9. \A k \in 1..Len(h) : h[k] \notin p \cup r
  BY DEF InOnePlace
<1>10. \A k \in 1..(Len(h) + m) : hg[k] \notin (p \ late) \cup r
  BY <1>4, <1>5, <1>8, <1>9
<1>11. \A k, l \in 1..(Len(h) + m) : hg[k] = hg[l] => k = l
  <2> SUFFICES ASSUME NEW k \in 1..(Len(h) + m), NEW l \in 1..(Len(h) + m), hg[k] = hg[l]
               PROVE  k = l
    OBVIOUS
  <2>1. CASE k \in 1..Len(h) /\ l \in 1..Len(h)
    BY <1>7, <2>1 DEF InOnePlace
  <2>2. CASE k \in 1..Len(h) /\ l \notin 1..Len(h)
    <3>1. hg[k] \notin p /\ hg[l] \in p
      BY <1>4, <1>7, <1>8, <1>9, <2>2
    <3> QED
      BY <3>1
  <2>3. CASE k \notin 1..Len(h) /\ l \in 1..Len(h)
    <3>1. hg[l] \notin p /\ hg[k] \in p
      BY <1>4, <1>7, <1>8, <1>9, <2>3
    <3> QED
      BY <3>1
  <2>4. CASE k \notin 1..Len(h) /\ l \notin 1..Len(h)
    BY <1>3, <1>8, <2>4
  <2> QED
    BY <2>1, <2>2, <2>3, <2>4
<1>12. (p \ late) \cup r \cup {hg[k] : k \in 1..(Len(h) + m)} = 1..n
  <2>1. p \cup r \cup {h[k] : k \in 1..Len(h)} = 1..n
    BY DEF InOnePlace
  <2>2. ASSUME NEW i \in 1..n, i \notin (p \ late) \cup r
        PROVE  \E k \in 1..(Len(h) + m) : hg[k] = i
    <3>1. CASE i \in late
      <4>1. PICK k \in 1..m : g[k] = i
        BY <1>3, <3>1
      <4>2. Len(h) + k \in 1..(Len(h) + m) /\ hg[Len(h) + k] = i
        BY <1>1, <1>3, <1>7, <4>1
      <4> QED
        BY <4>2
    <3>2. CASE i \notin late
      <4>1. PICK k \in 1..Len(h) : h[k] = i
        BY <2>1, <2>2, <3>2
      <4>2. k \in 1..(Len(h) + m)
        BY <1>1, <1>3
      <4> QED
        BY <1>7, <4>1, <4>2
    <3> QED
      BY <3>1, <3>2
  <2>3. \A k \in 1..(Len(h) + m) : hg[k] \in 1..n
    BY <1>7, ElementOfSeq
  <2>4. p \subseteq 1..n /\ r \subseteq 1..n
    BY <2>1
  <2> HIDE DEF InOnePlace
  <2> QED
    BY <2>2, <2>3, <2>4
<1>13. Cardinality(p \ late) = Cardinality(p) - m
  <2>1. Cardinality(p \ late) = Cardinality(p) - Cardinality(p \cap late)
    BY <1>1, FS_Difference
  <2>2. p \cap late = late
    OBVIOUS
  <2> QED
    BY <2>1, <2>2 DEF m
<1>14. Cardinality(r \cup (p \ late)) = Cardinality(r \cup p) - m
  <2>1. Cardinality((r \cup p) \ late) = Cardinality(r \cup p) - Cardinality((r \cup p) \cap late)
    BY <1>1, FS_Difference
  <2>2. (r \cup p) \cap late = late /\ (r \cup p) \ late = r \cup (p \ late)
    BY <1>5
  <2> QED
    BY <2>1, <2>2 DEF m
<1>15. (p \ late) \cap r = {}
  BY <1>5
<1>16. /\ (t + m) + Cardinality(p \ late) = n
       /\ (Len(h) + m) + Cardinality(r \cup (p \ late)) = n
  BY <1>1, <1>3, <1>5, <1>13, <1>14
<1>17. InOnePlace(n, p \ late, r, hg, t + m)
  BY <1>7, <1>10, <1>11, <1>12, <1>15, <1>16 DEF InOnePlace
<1> QED
  BY <1>2, <1>3, <1>17 DEF hg, g, m

\* A new request awaits.
LEMMA NewPlace ==
  ASSUME NEW n \in Nat, NEW p, NEW r, NEW h, NEW t \in Nat, InOnePlace(n, p, r, h, t)
  PROVE  InOnePlace(n + 1, p \cup {n + 1}, r, h, t)
<1>1. /\ p \subseteq 1..n /\ r \subseteq 1..n /\ Len(h) \in Nat
      /\ IsFiniteSet(p) /\ IsFiniteSet(r \cup p)
      /\ Cardinality(p) \in Nat /\ Cardinality(r \cup p) \in Nat
  BY PlaceFacts
<1>2. 1..(n + 1) = 1..n \cup {n + 1} /\ n + 1 \notin 1..n
  OBVIOUS
<1>3. h \in [1..Len(h) -> 1..n]
  BY LenProperties DEF InOnePlace
<1>4. h \in Seq(1..(n + 1)) /\ \A k \in 1..Len(h) : h[k] \in 1..n
  BY <1>1, <1>2, <1>3, SeqDef
<1>5. Cardinality(p \cup {n + 1}) = Cardinality(p) + 1
  BY <1>1, <1>2, FS_AddElement
<1>6. Cardinality(r \cup (p \cup {n + 1})) = Cardinality(r \cup p) + 1
  <2>1. r \cup (p \cup {n + 1}) = (r \cup p) \cup {n + 1} /\ n + 1 \notin r \cup p
    BY <1>1, <1>2
  <2> QED
    BY <1>1, <2>1, FS_AddElement
<1>7. t + Cardinality(p \cup {n + 1}) = n + 1 /\ Len(h) + Cardinality(r \cup (p \cup {n + 1})) = n + 1
  <2>1. t + Cardinality(p) = n /\ Len(h) + Cardinality(r \cup p) = n
    BY DEF InOnePlace
  <2> QED
    BY <1>1, <1>5, <1>6, <2>1
<1>8. (p \cup {n + 1}) \cup r \cup {h[k] : k \in 1..Len(h)} = 1..(n + 1)
  BY <1>2 DEF InOnePlace
<1>9. /\ (p \cup {n + 1}) \cap r = {}
      /\ \A k \in 1..Len(h) : h[k] \notin (p \cup {n + 1}) \cup r
  <2>1. p \cap r = {} /\ n + 1 \notin r
    BY <1>1, <1>2 DEF InOnePlace
  <2>2. \A k \in 1..Len(h) : h[k] \notin p \cup r /\ h[k] # n + 1
    BY <1>2, <1>4 DEF InOnePlace
  <2> QED
    BY <2>1, <2>2
<1>10. \A i, j \in 1..Len(h) : h[i] = h[j] => i = j
  BY DEF InOnePlace
<1> QED
  BY <1>4, <1>7, <1>8, <1>9, <1>10 DEF InOnePlace

\* One that awaits is confirmed, and its execution begins.
LEMMA StartPlace ==
  ASSUME NEW n \in Nat, NEW p, NEW r, NEW h, NEW t \in Nat, InOnePlace(n, p, r, h, t),
         NEW i \in p
  PROVE  InOnePlace(n, p \ {i}, r \cup {i}, h, t + 1)
<1>1. /\ p \subseteq 1..n /\ r \subseteq 1..n /\ Len(h) \in Nat /\ IsFiniteSet(p)
      /\ Cardinality(p) \in Nat
  BY PlaceFacts
<1>2. Cardinality(p \ {i}) = Cardinality(p) - 1
  BY <1>1, FS_RemoveElement
<1>3. (r \cup {i}) \cup (p \ {i}) = r \cup p
  OBVIOUS
<1>4. t + 1 + Cardinality(p \ {i}) = n
  BY <1>1, <1>2 DEF InOnePlace
<1>5. /\ (p \ {i}) \cup (r \cup {i}) = p \cup r
      /\ (p \ {i}) \cap (r \cup {i}) = {}
  BY DEF InOnePlace
<1> QED
  BY <1>3, <1>4, <1>5 DEF InOnePlace

\* One that awaits, or one that was being executed, is resolved.
LEMMA ResolvePlace ==
  ASSUME NEW n \in Nat, NEW p, NEW r, NEW h, NEW t \in Nat, InOnePlace(n, p, r, h, t),
         NEW i \in p \cup r
  PROVE  InOnePlace(n, p \ {i}, r \ {i}, Append(h, i), IF i \in p THEN t + 1 ELSE t)
<1> DEFINE hi == Append(h, i)
<1>1. /\ p \subseteq 1..n /\ r \subseteq 1..n /\ Len(h) \in Nat
      /\ IsFiniteSet(p) /\ IsFiniteSet(r \cup p)
      /\ Cardinality(p) \in Nat /\ Cardinality(r \cup p) \in Nat
  BY PlaceFacts
<1>2. i \in 1..n /\ h \in Seq(1..n)
  BY <1>1 DEF InOnePlace
<1>3. /\ hi \in Seq(1..n) /\ Len(hi) = Len(h) + 1 /\ hi[Len(h) + 1] = i
      /\ \A k \in 1..Len(h) : hi[k] = h[k]
  BY <1>2, AppendProperties
<1> HIDE DEF hi
<1>4. 1..(Len(h) + 1) = 1..Len(h) \cup {Len(h) + 1}
  BY <1>1
<1>5. \A k \in 1..Len(h) : h[k] \notin p \cup r
  BY DEF InOnePlace
<1>6. /\ \A k \in 1..Len(hi) : hi[k] \notin (p \ {i}) \cup (r \ {i})
      /\ \A j, k \in 1..Len(hi) : hi[j] = hi[k] => j = k
  <2>1. \A k \in 1..Len(hi) : \/ k \in 1..Len(h) /\ hi[k] = h[k]
                              \/ k = Len(h) + 1 /\ hi[k] = i
    BY <1>3, <1>4
  <2>2. \A j, k \in 1..Len(h) : h[j] = h[k] => j = k
    BY DEF InOnePlace
  <2> QED
    BY <1>5, <2>1, <2>2
<1>7. (p \ {i}) \cup (r \ {i}) \cup {hi[k] : k \in 1..Len(hi)} = 1..n
  <2>1. {hi[k] : k \in 1..Len(hi)} = {h[k] : k \in 1..Len(h)} \cup {i}
    BY <1>3, <1>4
  <2> QED
    BY <1>2, <2>1 DEF InOnePlace
<1>8. Cardinality((r \ {i}) \cup (p \ {i})) = Cardinality(r \cup p) - 1
  <2>1. (r \ {i}) \cup (p \ {i}) = (r \cup p) \ {i} /\ i \in r \cup p
    OBVIOUS
  <2> QED
    BY <1>1, <2>1, FS_RemoveElement
<1>9. Cardinality(p \ {i}) = IF i \in p THEN Cardinality(p) - 1 ELSE Cardinality(p)
  BY <1>1, FS_RemoveElement
<1>10. /\ (IF i \in p THEN t + 1 ELSE t) + Cardinality(p \ {i}) = n
       /\ Len(hi) + Cardinality((r \ {i}) \cup (p \ {i})) = n
  <2>1. t + Cardinality(p) = n /\ Len(h) + Cardinality(r \cup p) = n
    BY DEF InOnePlace
  <2>2. CASE i \in p
    BY <1>1, <1>3, <1>8, <1>9, <2>1, <2>2
  <2>3. CASE i \notin p
    BY <1>1, <1>3, <1>8, <1>9, <2>1, <2>3
  <2> QED
    BY <2>2, <2>3
<1>11. (p \ {i}) \cap (r \ {i}) = {}
  BY DEF InOnePlace
<1>12. InOnePlace(n, p \ {i}, r \ {i}, hi, IF i \in p THEN t + 1 ELSE t)
  BY <1>3, <1>6, <1>7, <1>10, <1>11 DEF InOnePlace
<1> QED
  BY <1>12 DEF hi

Tallies == [confirmed : Nat, expired : Nat, rejected : Nat]

\* The part of ResolvedInv that calls of the stores may disturb.
Placed ==
    /\ Len(requests) \in Nat /\ Len(requests) <= MaxRequests
    /\ tally \in Tallies
    /\ InOnePlace(Len(requests), pending, running, history, Total(tally))

\* One counter goes up by k.
LEMMA TallyGrows ==
  ASSUME NEW t \in Tallies, NEW k \in Nat
  PROVE  /\ Total(t) \in Nat
         /\ \A u \in {[t EXCEPT !.confirmed = @ + k], [t EXCEPT !.expired = @ + k],
                      [t EXCEPT !.rejected = @ + k]} : u \in Tallies /\ Total(u) = Total(t) + k
<1>1. t.confirmed \in Nat /\ t.expired \in Nat /\ t.rejected \in Nat
  BY DEF Tallies
<1>2. Total(t) \in Nat
  BY <1>1 DEF Total
<1>3. [t EXCEPT !.confirmed = @ + k] \in Tallies /\ Total([t EXCEPT !.confirmed = @ + k]) = Total(t) + k
  <2> DEFINE u == [t EXCEPT !.confirmed = @ + k]
  <2>1. u \in Tallies /\ u.confirmed = t.confirmed + k /\ u.expired = t.expired /\ u.rejected = t.rejected
    BY <1>1 DEF Tallies
  <2> HIDE DEF u
  <2> QED
    BY <1>1, <2>1 DEF Total, u
<1>4. [t EXCEPT !.expired = @ + k] \in Tallies /\ Total([t EXCEPT !.expired = @ + k]) = Total(t) + k
  <2> DEFINE u == [t EXCEPT !.expired = @ + k]
  <2>1. u \in Tallies /\ u.confirmed = t.confirmed /\ u.expired = t.expired + k /\ u.rejected = t.rejected
    BY <1>1 DEF Tallies
  <2> HIDE DEF u
  <2> QED
    BY <1>1, <2>1 DEF Total, u
<1>5. [t EXCEPT !.rejected = @ + k] \in Tallies /\ Total([t EXCEPT !.rejected = @ + k]) = Total(t) + k
  <2> DEFINE u == [t EXCEPT !.rejected = @ + k]
  <2>1. u \in Tallies /\ u.confirmed = t.confirmed /\ u.expired = t.expired /\ u.rejected = t.rejected + k
    BY <1>1 DEF Tallies
  <2> HIDE DEF u
  <2> QED
    BY <1>1, <2>1 DEF Total, u
<1> QED
  BY <1>2, <1>3, <1>4, <1>5

LEMMA SweptPlaces ==
  ASSUME Placed, NEW s \in Stores
  PROVE  /\ Swept(s).pending \subseteq pending /\ Swept(s).tally \in Tallies
         /\ InOnePlace(Len(requests), Swept(s).pending, running, Swept(s).history,
                       Total(Swept(s).tally))
<1> DEFINE m == Cardinality(Late(s))
           u == [tally EXCEPT !.expired = @ + m]
<1>1. Late(s) \in SUBSET pending
  BY DEF Late, Of
<1>2. tally \in Tallies /\ Total(tally) \in Nat /\ Len(requests) \in Nat
      /\ InOnePlace(Len(requests), pending, running, history, Total(tally))
  BY TallyGrows DEF Placed
<1>3. m \in Nat /\ InOnePlace(Len(requests), pending \ Late(s), running,
                              history \o InOrder(Late(s)), Total(tally) + m)
  BY <1>1, <1>2, SweepPlaces
<1>4. u \in Tallies /\ Total(u) = Total(tally) + m
  <2> HIDE DEF m
  <2> QED
    BY <1>2, <1>3, TallyGrows
<1>5. /\ Swept(s).pending = pending \ Late(s) /\ Swept(s).tally = u
      /\ Swept(s).history = history \o InOrder(Late(s))
  BY DEF Swept
<1> HIDE DEF u, m
<1> QED
  BY <1>3, <1>4, <1>5

LEMMA InitiatePlaces ==
  ASSUME DualInv, Placed, NEW s \in Stores, NEW a, NEW action, Initiate(s, a, action)
  PROVE  Placed'
<1> DEFINE n == Len(requests)
           x == Swept(s)
<1>1. /\ InOnePlace(n, x.pending, running, x.history, Total(x.tally)) /\ x.tally \in Tallies
      /\ n \in Nat /\ n <= MaxRequests
  BY SweptPlaces DEF Placed
<1>2. Len(x.requests) = n /\ x.requests \in Seq(Request)
  BY SweptKeeps DEF Keeps
<1>3. n < MaxRequests
  BY DEF Initiate
<1>4. /\ \E r : requests' = Append(x.requests, r)
      /\ pending' = x.pending \cup {n + 1}
      /\ history' = x.history /\ tally' = x.tally /\ running' = running
  BY DEF Initiate, Becomes, Swept
<1> HIDE DEF x, n
<1>5. Len(requests') = n + 1
  BY <1>1, <1>2, <1>4
<1>6. Total(x.tally) \in Nat
  BY <1>1, TallyGrows
<1>7. InOnePlace(n + 1, x.pending \cup {n + 1}, running, x.history, Total(x.tally))
  BY <1>1, <1>6, NewPlace
<1>8. n + 1 \in Nat /\ n + 1 <= MaxRequests
  BY <1>1, <1>3, DualAssumption
<1> QED
  BY <1>1, <1>4, <1>5, <1>7, <1>8 DEF Placed

LEMMA ConfirmPlaces ==
  ASSUME DualInv, Placed, NEW s \in Stores, NEW i, NEW a, Confirm(s, i, a)
  PROVE  Placed'
<1> DEFINE n == Len(requests)
           x == Swept(s)
           u == [x.tally EXCEPT !.confirmed = @ + 1]
<1>1. /\ InOnePlace(n, x.pending, running, x.history, Total(x.tally)) /\ x.tally \in Tallies
      /\ n \in Nat /\ n <= MaxRequests
  BY SweptPlaces DEF Placed
<1>2. Len(x.requests) = n /\ x.requests \in Seq(Request)
  BY SweptKeeps DEF Keeps
<1>3. /\ i \in x.pending /\ pending' = x.pending \ {i} /\ tally' = u
      /\ \E r : requests' = [x.requests EXCEPT ![i] = r]
      /\ \/ running' = running \cup {i} /\ history' = x.history
         \/ running' = running /\ history' = Append(x.history, i)
  BY DEF Confirm, Becomes, Swept
<1>4. u \in Tallies /\ Total(u) = Total(x.tally) + 1 /\ Total(x.tally) \in Nat
  <2> HIDE DEF x
  <2> QED
    BY <1>1, TallyGrows
<1> HIDE DEF x, n, u
<1>5. Len(requests') = n
  BY <1>1, <1>2, <1>3
<1>6. InOnePlace(n, x.pending \ {i}, running \cup {i}, x.history, Total(u))
  BY <1>1, <1>3, <1>4, StartPlace
<1>7. i \notin running /\ running \ {i} = running
  BY <1>1, <1>3 DEF InOnePlace
<1>8. InOnePlace(n, x.pending \ {i}, running, Append(x.history, i), Total(u))
  <2>1. InOnePlace(n, x.pending \ {i}, running \ {i}, Append(x.history, i),
                   IF i \in x.pending THEN Total(x.tally) + 1 ELSE Total(x.tally))
    BY <1>1, <1>3, <1>4, ResolvePlace
  <2> QED
    BY <1>3, <1>4, <1>7, <2>1
<1>9. InOnePlace(n, pending', running', history', Total(tally'))
  BY <1>3, <1>6, <1>8
<1> QED
  BY <1>1, <1>3, <1>4, <1>5, <1>9 DEF Placed

LEMMA RejectPlaces ==
  ASSUME DualInv, Placed, NEW s \in Stores, NEW i, NEW a, Reject(s, i, a)
  PROVE  Placed'
<1> DEFINE n == Len(requests)
           u == [tally EXCEPT !.rejected = @ + 1]
<1>1. /\ InOnePlace(n, pending, running, history, Total(tally)) /\ tally \in Tallies
      /\ n \in Nat /\ n <= MaxRequests /\ requests \in Seq(Request)
  BY DEF Placed, DualInv
<1>2. /\ i \in pending /\ pending' = pending \ {i} /\ tally' = u
      /\ \E r : requests' = [requests EXCEPT ![i] = r]
      /\ running' = running /\ history' = Append(history, i)
  <2>1. requests' = [[requests EXCEPT ![i].status = "REJECTED"] EXCEPT ![i].confirmer = a]
    BY DEF Reject, Becomes
  <2>2. i \in pending /\ i \in 1..Len(requests)
    BY DEF Reject, Of, DualInv
  <2>3. requests' = [requests EXCEPT ![i] = requests'[i]]
    BY <1>1, <2>1, <2>2
  <2> QED
    BY <2>2, <2>3 DEF Reject, Becomes
<1>3. u \in Tallies /\ Total(u) = Total(tally) + 1 /\ Total(tally) \in Nat
  BY <1>1, TallyGrows
<1> HIDE DEF n, u
<1>4. Len(requests') = n
  BY <1>1, <1>2 DEF n
<1>5. i \notin running /\ running \ {i} = running
  BY <1>1, <1>2 DEF InOnePlace
<1>6. InOnePlace(n, pending \ {i}, running \ {i}, Append(history, i),
                 IF i \in pending THEN Total(tally) + 1 ELSE Total(tally))
  BY <1>1, <1>2, <1>3, ResolvePlace
<1>7. InOnePlace(n, pending', running', history', Total(tally'))
  BY <1>2, <1>3, <1>5, <1>6
<1> QED
  BY <1>1, <1>2, <1>3, <1>4, <1>7 DEF Placed

LEMMA ExecutePlaces ==
  ASSUME Placed, NEW i, Execute(i)
  PROVE  Placed'
<1>1. /\ i \in running /\ running' = running \ {i} /\ history' = Append(history, i)
      /\ UNCHANGED <<requests, pending, tally>>
  BY DEF Execute
<1>2. Total(tally) \in Nat
  BY TallyGrows DEF Placed
<1>3. i \notin pending /\ pending \ {i} = pending
  BY <1>1 DEF Placed, InOnePlace
<1>4. InOnePlace(Len(requests), pending \ {i}, running \ {i}, Append(history, i),
                 IF i \in pending THEN Total(tally) + 1 ELSE Total(tally))
  BY <1>1, <1>2, ResolvePlace DEF Placed
<1>5. InOnePlace(Len(requests), pending', running', history', Total(tally))
  BY <1>1, <1>3, <1>4
<1> QED
  BY <1>1, <1>5 DEF Placed

LEMMA RefreshPlaces ==
  ASSUME DualInv, Placed, NEW s \in Stores, RefreshPanel(s)
  PROVE  Placed'
<1>1. /\ requests' = Swept(s).requests /\ pending' = Swept(s).pending
      /\ history' = Swept(s).history /\ tally' = Swept(s).tally /\ running' = running
  BY DEF RefreshPanel, Becomes
<1>2. Len(Swept(s).requests) = Len(requests)
  BY SweptKeeps
<1>3. Swept(s).tally \in Tallies
      /\ InOnePlace(Len(requests), Swept(s).pending, running, Swept(s).history, Total(Swept(s).tally))
  BY SweptPlaces
<1> QED
  BY <1>1, <1>2, <1>3 DEF Placed

LEMMA PlacedStep == DualInv /\ Placed /\ [DualNext]_dualVars => Placed'
<1> SUFFICES ASSUME DualInv, Placed, [DualNext]_dualVars PROVE Placed'
  OBVIOUS
<1>1. CASE UNCHANGED dualVars
  BY <1>1 DEF dualVars, Placed
<1>2. CASE ClockRuns
  <2>1. UNCHANGED <<pending, running, history, tally>>
        /\ \E i \in DOMAIN requests : \E r : requests' = [requests EXCEPT ![i] = r]
    BY <1>2 DEF ClockRuns
  <2>2. Len(requests') = Len(requests)
    BY <2>1 DEF DualInv
  <2> QED
    BY <2>1, <2>2 DEF Placed
<1>3. ASSUME NEW i \in Ids, Execute(i) PROVE Placed'
  BY <1>3, ExecutePlaces
<1>4. ASSUME NEW a \in Directors, NEW action \in Emergencies,
             \/ OtherInitiates(a, action)
             \/ \E s \in Stores : PressInitiate(s, a, action)
      PROVE  Placed'
  BY <1>4, InitiatePlaces DEF OtherInitiates, PressInitiate, Stores
<1>5. ASSUME NEW a \in Directors, NEW i \in Ids,
             \/ OtherConfirms(i, a) \/ OtherRejects(i, a)
             \/ \E s \in Stores : PressConfirm(s, i, a) \/ PressReject(s, i, a)
      PROVE  Placed'
  BY <1>5, ConfirmPlaces, RejectPlaces DEF OtherConfirms, OtherRejects, PressConfirm,
     PressReject, Stores
<1>6. ASSUME NEW s \in Stores, RefreshPanel(s) PROVE Placed'
  BY <1>6, RefreshPlaces
<1> QED
  BY <1>1, <1>2, <1>3, <1>4, <1>5, <1>6 DEF DualNext

\* Whatever is in its place is of its type.
LEMMA PlacedTypes ==
  ASSUME DualInv, Placed
  PROVE  pending \subseteq Ids /\ running \subseteq Ids /\ history \in Seq(Ids)
<1>1. /\ Len(requests) \in Nat /\ Len(requests) <= MaxRequests /\ MaxRequests \in Nat
      /\ history \in Seq(1..Len(requests))
      /\ pending \subseteq 1..Len(requests) /\ running \subseteq 1..Len(requests)
  BY DualAssumption DEF Placed, DualInv, InOnePlace
<1>2. 1..Len(requests) \subseteq Ids
  BY <1>1 DEF Ids
<1>3. history \in [1..Len(history) -> Ids] /\ Len(history) \in Nat
  BY <1>1, <1>2, LenProperties
<1>4. history \in Seq(Ids)
  BY <1>3, SeqDef
<1> QED
  BY <1>1, <1>2, <1>4

PanelTyped == panel \in [shown : SUBSET Ids, busy : BOOLEAN]

LEMMA PanelStep ==
  ASSUME DualInv, Placed, PanelTyped, [DualNext]_dualVars
  PROVE  PanelTyped'
<1>1. CASE panel' = panel
  BY <1>1 DEF PanelTyped
<1>2. CASE Press
  BY <1>2 DEF Press, PanelTyped
<1>3. ASSUME NEW s \in Stores, RefreshPanel(s) PROVE PanelTyped'
  <2>1. Of(s) \ Late(s) \subseteq Ids
    BY PlacedTypes DEF Of
  <2> QED
    BY <1>3, <2>1 DEF RefreshPanel, PanelTyped
<1> QED
  BY <1>1, <1>2, <1>3 DEF DualNext, dualVars, ClockRuns, Execute, OtherInitiates, OtherConfirms,
     OtherRejects, PressInitiate, PressConfirm, PressReject

LEMMA ResolvedParts == DualInv /\ Placed /\ PanelTyped <=> DualInv /\ ResolvedInv
<1>1. ASSUME DualInv, Placed, PanelTyped PROVE ResolvedInv
  BY <1>1, PlacedTypes DEF ResolvedInv, Placed, DualTypeOK, DualInv, PanelTyped, Tallies
<1>2. ASSUME DualInv, ResolvedInv PROVE Placed /\ PanelTyped
  BY <1>2, LenProperties DEF ResolvedInv, Placed, DualTypeOK, PanelTyped, Tallies
<1> QED
  BY <1>1, <1>2

LEMMA ResolvedPartsNext == (DualInv /\ Placed /\ PanelTyped <=> DualInv /\ ResolvedInv)'
  BY ResolvedParts, PTL

LEMMA ResolvedInvInit == DualInit => DualInv /\ ResolvedInv
<1> SUFFICES ASSUME DualInit PROVE Placed /\ PanelTyped
  BY DualInvInit, ResolvedParts
<1>1. /\ requests = <<>> /\ pending = {} /\ running = {} /\ history = <<>>
      /\ tally = [confirmed |-> 0, expired |-> 0, rejected |-> 0]
  BY DEF DualInit
<1>2. tally \in Tallies /\ Total(tally) = 0 /\ Len(requests) = 0 /\ Len(history) = 0
  BY <1>1 DEF Tallies, Total
<1>3. history \in Seq(1..0)
  BY <1>1
<1>4. InOnePlace(0, pending, running, history, 0)
  <2>1. Cardinality({}) = 0 /\ running \cup pending = {}
    BY <1>1, FS_EmptySet
  <2> QED
    BY <1>1, <1>2, <1>3, <2>1 DEF InOnePlace
<1>5. Placed
  BY <1>2, <1>4, DualAssumption DEF Placed
<1>6. PanelTyped
  BY DEF DualInit, PanelTyped
<1> QED
  BY <1>5, <1>6

LEMMA ResolvedInvStep ==
  (DualInv /\ ResolvedInv) /\ [DualNext]_dualVars => (DualInv /\ ResolvedInv)'
<1> SUFFICES ASSUME DualInv, ResolvedInv, [DualNext]_dualVars PROVE DualInv' /\ ResolvedInv'
  OBVIOUS
<1>1. Placed /\ PanelTyped
  BY ResolvedParts
<1>2. DualInv' /\ Placed' /\ PanelTyped'
  BY <1>1, DualInvStep, PlacedStep, PanelStep
<1> QED
  BY <1>2, ResolvedPartsNext

\* Every variable of the dual control keeps its type.
THEOREM DualTypeCorrect == DualSpec => []DualTypeOK
<1>1. ResolvedInv => DualTypeOK
  BY DEF ResolvedInv
<1> QED
  BY <1>1, ResolvedInvInit, ResolvedInvStep, PTL DEF DualSpec

\* dual_control.py 99-138, 171-222, emergency.ts 66-98: a request is confirmed, rejected or expired,
\* never two of these, however late the clock, whoever sweeps and while executions overlap;
\* the history and the counters of stats() show it once.
THEOREM ResolvedOnceAlways == DualSpec => []ResolvedOnce
<1>1. ResolvedInv => ResolvedOnce
  <2> SUFFICES ASSUME ResolvedInv PROVE ResolvedOnce
    OBVIOUS
  <2>1. InOnePlace(Len(requests), pending, running, history, Total(tally)) /\ history \in Seq(Ids)
    BY DEF ResolvedInv, DualTypeOK
  <2>2. DOMAIN history = 1..Len(history)
    BY <2>1, LenProperties
  <2>3. running \cap pending = {}
    BY <2>1 DEF InOnePlace
  <2> QED
    BY <2>1, <2>2, <2>3 DEF InOnePlace, ResolvedOnce, Total
<1> QED
  BY <1>1, ResolvedInvInit, ResolvedInvStep, PTL DEF DualSpec

-----------------------------------------------------------------------------
(* Signing in on the web site. *)

\* The forms, requests and rows of signing in.
LoginForms == [portal : Portals, step : Steps, email : Address, challenge : Refs,
               token : Refs, pin : Refs, face : Address]

LoginAsks == [is : {"none", "code", "verify", "password", "pin", "roll"}, email : Address,
              ref : Refs, right : BOOLEAN, got : -1..MaxCodes]

CodeRows == [email : Accounts, role : Portals, used : BOOLEAN, tries : 0..MaxTries]

GrantRows == [email : Accounts, role : Portals, used : BOOLEAN]

PinRows == [user : Accounts, used : BOOLEAN, tries : 0..MaxTries]

Sessions == [role : AllPortals \cup {"none"}, email : Address, pin : Refs]

LEMMA LoginTypes ==
  LoginTypeOK <=>
    /\ form \in LoginForms /\ ask \in LoginAsks
    /\ codes \in Seq(CodeRows) /\ grants \in Seq(GrantRows) /\ pins \in Seq(PinRows)
    /\ Len(codes) \in Refs /\ Len(grants) \in Refs /\ Len(pins) \in Refs
    /\ session \in Sessions
    /\ visits \in 0..MaxVisits
BY DEF LoginTypeOK, LoginForms, LoginAsks, CodeRows, GrantRows, PinRows, Sessions

LEMMA LoginTypesNext ==
  LoginTypeOK' <=>
    /\ form' \in LoginForms /\ ask' \in LoginAsks
    /\ codes' \in Seq(CodeRows) /\ grants' \in Seq(GrantRows) /\ pins' \in Seq(PinRows)
    /\ Len(codes') \in Refs /\ Len(grants') \in Refs /\ Len(pins') \in Refs
    /\ session' \in Sessions
    /\ visits' \in 0..MaxVisits
BY DEF LoginTypeOK, LoginForms, LoginAsks, CodeRows, GrantRows, PinRows, Sessions

LEMMA LoginParts ==
  ASSUME LoginInv
  PROVE  /\ Len(codes) \in Nat /\ DOMAIN codes = 1..Len(codes)
         /\ \A i \in DOMAIN codes : codes[i] \in CodeRows
         /\ Len(grants) \in Nat /\ DOMAIN grants = 1..Len(grants)
         /\ \A g \in DOMAIN grants : grants[g] \in GrantRows
         /\ Len(pins) \in Nat /\ DOMAIN pins = 1..Len(pins)
         /\ \A n \in DOMAIN pins : pins[n] \in PinRows
         /\ MaxCodes \in Nat /\ MaxTries \in Nat
<1>1. codes \in Seq(CodeRows) /\ grants \in Seq(GrantRows) /\ pins \in Seq(PinRows)
  BY LoginTypes DEF LoginInv
<1> QED
  BY <1>1, ElementOfSeq, LenProperties, LoginAssumption

LEMMA NewFormHolds ==
  ASSUME NEW p \in Portals
  PROVE  NewForm(p) \in LoginForms /\ FormHolds(NewForm(p))
BY LoginAssumption DEF NewForm, LoginForms, Steps, Address, Refs, FormHolds

LEMMA NoAskType == NoAsk \in LoginAsks /\ NoAsk.is = "none" /\ NoAsk.got = -1
BY LoginAssumption DEF NoAsk, LoginAsks, Address, Refs

LEMMA NoAskIsAbout == \A f : AskIsAbout(NoAsk, f)
BY NoAskType DEF AskIsAbout

LEMMA LoginInvInit == LoginInit => LoginInv
<1> SUFFICES ASSUME LoginInit PROVE LoginInv
  OBVIOUS
<1>1. form \in LoginForms /\ FormHolds(form)
  BY NewFormHolds DEF LoginInit
<1>2. ask \in LoginAsks /\ AskIsAbout(ask, form)
  BY NoAskType, NoAskIsAbout DEF LoginInit
<1>3. /\ codes = <<>> /\ codes \in Seq(CodeRows) /\ grants = <<>> /\ grants \in Seq(GrantRows)
      /\ pins = <<>> /\ pins \in Seq(PinRows)
  BY EmptySeq DEF LoginInit
<1>4. Len(codes) = 0 /\ Len(grants) = 0 /\ Len(pins) = 0 /\ 0 \in Refs
  BY <1>3, LoginAssumption DEF Refs
<1>5. session \in Sessions /\ session.role = "none"
  BY LoginAssumption DEF LoginInit, NoSession, Sessions, Address, Refs
<1>6. visits \in 0..MaxVisits
  BY LoginAssumption DEF LoginInit
<1>7. UsedCodes = {}
  BY <1>3 DEF UsedCodes
<1>8. Len(grants) <= Cardinality(UsedCodes)
  BY <1>4, <1>7, FS_EmptySet
<1>9. LoginTypeOK
  BY <1>1, <1>2, <1>3, <1>4, <1>5, <1>6, LoginTypes
<1> QED
  BY <1>1, <1>2, <1>5, <1>8, <1>9 DEF LoginInv, StaffSessionIsVerified, Staff

(***************************************************************************)
(* What the backend stores only grows and is only marked.                  *)
(***************************************************************************)
StoreGrows ==
    /\ codes' \in Seq(CodeRows) /\ Len(codes) <= Len(codes') /\ Len(codes') \in Refs
    /\ \A i \in DOMAIN codes : codes'[i].role = codes[i].role
    /\ grants' \in Seq(GrantRows) /\ Len(grants) <= Len(grants')
    /\ \A g \in DOMAIN grants : /\ grants'[g].email = grants[g].email
                                /\ grants'[g].role = grants[g].role
                                /\ grants[g].used => grants'[g].used
    /\ pins' \in Seq(PinRows) /\ Len(pins) <= Len(pins') /\ Len(pins') \in Refs
    /\ \A n \in DOMAIN pins : /\ pins'[n].user = pins[n].user
                              /\ pins[n].used => pins'[n].used
    /\ Len(grants') <= Cardinality(UsedCodes')

LEMMA StoreStays ==
  ASSUME LoginInv, UNCHANGED <<codes, grants, pins>>
  PROVE  StoreGrows
<1>1. /\ codes \in Seq(CodeRows) /\ grants \in Seq(GrantRows) /\ pins \in Seq(PinRows)
      /\ Len(codes) \in Refs /\ Len(pins) \in Refs
  BY LoginTypes DEF LoginInv
<1> QED
  BY <1>1, LoginParts DEF StoreGrows, LoginInv, UsedCodes

LEMMA DomainsGrow ==
  ASSUME LoginInv, StoreGrows
  PROVE  /\ DOMAIN codes \subseteq DOMAIN codes' /\ DOMAIN grants \subseteq DOMAIN grants'
         /\ DOMAIN pins \subseteq DOMAIN pins'
         /\ DOMAIN codes' = 1..Len(codes') /\ DOMAIN grants' = 1..Len(grants')
         /\ DOMAIN pins' = 1..Len(pins')
         /\ Len(codes') \in Nat /\ Len(grants') \in Nat /\ Len(pins') \in Nat
<1>1. /\ DOMAIN codes' = 1..Len(codes') /\ DOMAIN grants' = 1..Len(grants')
      /\ DOMAIN pins' = 1..Len(pins')
      /\ Len(codes') \in Nat /\ Len(grants') \in Nat /\ Len(pins') \in Nat
  BY LenProperties DEF StoreGrows
<1> QED
  BY <1>1, LoginParts DEF StoreGrows

LEMMA ProvesStill ==
  ASSUME LoginInv, StoreGrows, NEW n, NEW email, NEW role, PinProves(n, email, role)
  PROVE  PinProves(n, email, role)'
BY DomainsGrow DEF StoreGrows, PinProves

LEMMA HoldsStill ==
  ASSUME LoginInv, StoreGrows, NEW f, FormHolds(f)
  PROVE  FormHolds(f)'
<1>1. /\ f.challenge # 0 => f.challenge \in DOMAIN codes' /\ codes'[f.challenge].role = f.portal
      /\ f.token # 0 => f.token \in DOMAIN grants' /\ grants'[f.token].role = f.portal
  BY DomainsGrow DEF StoreGrows, FormHolds
<1>2. f.step = "SMS_OTP" => PinProves(f.pin, f.email, f.portal)'
  BY ProvesStill DEF FormHolds
<1> QED
  BY <1>1, <1>2 DEF FormHolds

LEMMA AboutStill ==
  ASSUME LoginInv, StoreGrows, NEW a, NEW f, AskIsAbout(a, f), FormHolds(f)
  PROVE  AskIsAbout(a, f)'
<1>1. /\ a.is = "code" /\ a.got > 0 => a.got \in DOMAIN codes' /\ codes'[a.got].role = f.portal
      /\ a.is = "verify" => /\ a.ref \in DOMAIN codes' /\ codes'[a.ref].role = f.portal
                            /\ a.got > 0 => a.got \in DOMAIN grants' /\ grants'[a.got].role = f.portal
      /\ a.is = "password" => a.ref \in DOMAIN grants' /\ grants'[a.ref].role = f.portal
  BY DomainsGrow DEF StoreGrows, AskIsAbout
<1>2. a.is = "password" /\ a.got > 0 => PinProves(a.got, f.email, f.portal)'
  BY ProvesStill DEF AskIsAbout
<1>3. a.is = "pin" /\ a.got > 0 => pins'[f.pin].used
  BY DEF AskIsAbout, FormHolds, PinProves, StoreGrows
<1> QED
  BY <1>1, <1>2, <1>3 DEF AskIsAbout

LEMMA SessionStill ==
  ASSUME LoginInv, StoreGrows, UNCHANGED session
  PROVE  (session.role \in Staff => session.pin \in DOMAIN pins)' /\ StaffSessionIsVerified'
<1>1. session.role \in Staff =>
        /\ session.pin \in DOMAIN pins' /\ RoleOf[session.email] = session.role
        /\ pins'[session.pin].user = session.email /\ pins'[session.pin].used
  BY DomainsGrow DEF StoreGrows, LoginInv, StaffSessionIsVerified
<1>2. session.role \in Staff => \E g \in DOMAIN grants' : grants'[g].email = session.email /\ grants'[g].used
  BY DomainsGrow DEF StoreGrows, LoginInv, StaffSessionIsVerified
<1> QED
  BY <1>1, <1>2 DEF StaffSessionIsVerified

\* Of two sets of the numbers up to n, the larger has no fewer elements; with an element
\* the smaller lacks, it has more.
LEMMA CardGrows ==
  ASSUME NEW n \in Nat, NEW T \in SUBSET (1..n), NEW S \in SUBSET (1..n), S \subseteq T
  PROVE  /\ Cardinality(S) \in Nat /\ Cardinality(T) \in Nat
         /\ Cardinality(S) <= Cardinality(T)
         /\ \A k \in T \ S : Cardinality(S) + 1 <= Cardinality(T)
<1>1. IsFiniteSet(1..n)
  BY FS_Interval
<1>2. IsFiniteSet(T)
  BY <1>1, FS_Subset
<1>3. IsFiniteSet(S) /\ Cardinality(S) <= Cardinality(T)
  BY <1>2, FS_Subset
<1>4. Cardinality(S) \in Nat /\ Cardinality(T) \in Nat
  BY <1>2, <1>3, FS_CardinalityType
<1>5. ASSUME NEW k \in T \ S PROVE Cardinality(S) + 1 <= Cardinality(T)
  <2>1. Cardinality(S \cup {k}) = Cardinality(S) + 1
    BY <1>3, FS_AddElement
  <2>2. S \cup {k} \in SUBSET T
    OBVIOUS
  <2> QED
    BY <1>2, <2>1, <2>2, FS_Subset
<1> QED
  BY <1>3, <1>4, <1>5

\* No more verifications than codes, so a verification always has a number.
LEMMA GrantsFitRefs ==
  ASSUME LoginInv, StoreGrows
  PROVE  Len(grants') \in Refs
<1>1. Len(codes') \in Nat /\ Len(codes') <= MaxCodes /\ MaxCodes \in Nat
  BY DomainsGrow, LoginParts DEF StoreGrows, Refs
<1>2. PICK n \in Nat : n = Len(codes')
  BY <1>1
<1>3. IsFiniteSet(1..n) /\ Cardinality(1..n) = IF 1 > n THEN 0 ELSE n - 1 + 1
  BY FS_Interval
<1>4. PICK T \in SUBSET (1..n) : T = UsedCodes'
  BY <1>2, DomainsGrow DEF UsedCodes
<1>5. IsFiniteSet(T) /\ Cardinality(T) <= Cardinality(1..n)
  BY <1>3, FS_Subset
<1>6. Cardinality(T) \in Nat
  BY <1>5, FS_CardinalityType
<1>7. Len(grants') \in Nat /\ Len(grants') <= Cardinality(T)
  BY <1>4, DomainsGrow DEF StoreGrows
<1> QED
  BY <1>1, <1>2, <1>3, <1>5, <1>6, <1>7 DEF Refs

LEMMA LoginInvAfter ==
  ASSUME LoginInv, StoreGrows, form' \in LoginForms, ask' \in LoginAsks, session' \in Sessions,
         visits' \in 0..MaxVisits, FormHolds(form)', AskIsAbout(ask, form)',
         (session.role \in Staff => session.pin \in DOMAIN pins)', StaffSessionIsVerified'
  PROVE  LoginInv'
<1>1. Len(grants') \in Refs
  BY GrantsFitRefs
<1>2. LoginTypeOK'
  BY <1>1, LoginTypesNext DEF StoreGrows
<1> QED
  BY <1>2 DEF LoginInv, StoreGrows

\* The form, its request and the number of visits change; the backend and the session do not.
LEMMA FormMoves ==
  ASSUME LoginInv, NEW f \in LoginForms, NEW a \in LoginAsks, FormHolds(f), AskIsAbout(a, f),
         form' = f, ask' = a, UNCHANGED <<codes, grants, pins, session>>, visits' \in 0..MaxVisits
  PROVE  LoginInv'
<1>1. StoreGrows
  BY StoreStays
<1>2. FormHolds(f)' /\ AskIsAbout(a, f)'
  BY <1>1, HoldsStill, AboutStill
<1>3. FormHolds(form)' /\ AskIsAbout(ask, form)'
  BY <1>2 DEF FormHolds, AskIsAbout, PinProves
<1>4. session' \in Sessions
  BY LoginTypes DEF LoginInv
<1> QED
  BY <1>1, <1>3, <1>4, SessionStill, LoginInvAfter

(***************************************************************************)
(* The form asks.                                                          *)
(***************************************************************************)
LEMMA LoginState ==
  ASSUME LoginInv
  PROVE  /\ form \in LoginForms /\ ask \in LoginAsks /\ session \in Sessions
         /\ visits \in 0..MaxVisits
         /\ FormHolds(form) /\ AskIsAbout(ask, form)
BY LoginTypes DEF LoginInv

LEMMA SendStep ==
  ASSUME LoginInv, NEW kind \in {"code", "verify", "password", "pin", "roll"},
         NEW ref \in Refs, NEW right \in BOOLEAN, Send(kind, ref, right),
         kind = "code" => form.email \in Accounts,
         kind = "verify" => ref \in DOMAIN codes /\ codes[ref].role = form.portal,
         kind = "password" => /\ ref \in DOMAIN grants /\ grants[ref].role = form.portal
                              /\ form.step = "PASSWORD_ENTRY",
         kind = "pin" => form.step = "SMS_OTP" /\ ref = form.pin
  PROVE  LoginInv'
<1> DEFINE a == [is |-> kind, email |-> form.email, ref |-> ref, right |-> right, got |-> -1]
<1>1. /\ form' = form /\ ask' = a /\ UNCHANGED <<codes, grants, pins, session>>
      /\ visits' \in 0..MaxVisits
  BY LoginState DEF Send
<1>2. form \in LoginForms /\ FormHolds(form) /\ form.email \in Address
  BY LoginState DEF LoginForms
<1>3. a \in LoginAsks /\ a.got = -1
  BY <1>2, LoginParts DEF LoginAsks
<1>4. AskIsAbout(a, form)
  BY <1>3 DEF AskIsAbout
<1>5. PICK f \in LoginForms, b \in LoginAsks : f = form /\ b = a
  BY <1>2, <1>3
<1> HIDE DEF a
<1>6. form' = f /\ ask' = b /\ FormHolds(f) /\ AskIsAbout(b, f)
  BY <1>1, <1>2, <1>4, <1>5
<1> QED
  BY <1>1, <1>6, FormMoves

LEMMA AskSteps ==
  ASSUME LoginInv, NEW right \in BOOLEAN,
         \/ AskForCode \/ EnterCode(right) \/ EnterPassword(right) \/ EnterPin(right)
         \/ CandidateAsks
  PROVE  LoginInv'
<1>1. form \in LoginForms /\ FormHolds(form) /\ 0 \in Refs
  BY LoginState, LoginAssumption DEF Refs
<1>2. CASE AskForCode
  <2>1. form.email \in Accounts
    BY <1>1, <1>2 DEF AskForCode, LoginForms, Address
  <2> QED
    BY <1>1, <1>2, <2>1, SendStep DEF AskForCode
<1>3. CASE EnterCode(right)
  <2>1. /\ form.challenge \in Refs /\ form.challenge \in DOMAIN codes
        /\ codes[form.challenge].role = form.portal
    BY <1>1, <1>3 DEF EnterCode, LoginForms, FormHolds
  <2> QED
    BY <1>3, <2>1, SendStep DEF EnterCode
<1>4. CASE EnterPassword(right)
  <2>1. /\ form.token \in Refs /\ form.token \in DOMAIN grants /\ form.step = "PASSWORD_ENTRY"
        /\ grants[form.token].role = form.portal
    BY <1>1, <1>4 DEF EnterPassword, LoginForms, FormHolds
  <2> QED
    BY <1>4, <2>1, SendStep DEF EnterPassword
<1>5. CASE EnterPin(right)
  <2>1. form.pin \in Refs /\ form.step = "SMS_OTP"
    BY <1>1, <1>5 DEF EnterPin, LoginForms
  <2> QED
    BY <1>5, <2>1, SendStep DEF EnterPin
<1>6. CASE CandidateAsks
  BY <1>1, <1>6, SendStep DEF CandidateAsks
<1> QED
  BY <1>2, <1>3, <1>4, <1>5, <1>6

\* The form moves with its request as it is: nothing that is asked depends on what changes.
LEMMA FormOnlySteps ==
  ASSUME LoginInv,
         \/ \E a \in Accounts : TypeEmail(a)
         \/ CountdownEnds \/ PlaceChecked \/ FaceMatched \/ FingerprintChecked
  PROVE  LoginInv'
<1>1. form \in LoginForms /\ FormHolds(form) /\ ask \in LoginAsks /\ AskIsAbout(ask, form)
      /\ visits \in 0..MaxVisits
  BY LoginState
<1>2. PICK b \in LoginAsks : b = ask
  BY <1>1
<1>3. ASSUME NEW f \in LoginForms, FormHolds(f), AskIsAbout(b, f), form' = f,
             UNCHANGED <<ask, codes, grants, pins, session, visits>>
      PROVE  LoginInv'
  <2>1. ask' = b /\ visits' \in 0..MaxVisits
    BY <1>1, <1>2, <1>3
  <2> QED
    BY <1>3, <2>1, FormMoves
<1>4. ASSUME NEW a \in Accounts, TypeEmail(a) PROVE LoginInv'
  <2> DEFINE e == [form EXCEPT !.email = a]
  <2>1. form' = e /\ form.step = "EMAIL_ENTRY" /\ UNCHANGED <<ask, codes, grants, pins, session, visits>>
    BY <1>4 DEF TypeEmail
  <2>2. e \in LoginForms
    BY <1>1 DEF LoginForms, Address
  <2>3. /\ e.challenge = form.challenge /\ e.token = form.token /\ e.pin = form.pin
        /\ e.step = "EMAIL_ENTRY" /\ e.portal = form.portal
    BY <1>1, <2>1 DEF LoginForms
  <2> HIDE DEF e
  <2>4. PICK f \in LoginForms : f = e
    BY <2>2
  <2>5. FormHolds(f)
    BY <1>1, <2>3, <2>4 DEF FormHolds
  <2>6. AskIsAbout(b, f)
    BY <1>1, <1>2, <2>1, <2>3, <2>4 DEF AskIsAbout
  <2> QED
    BY <1>3, <2>1, <2>4, <2>5, <2>6
<1>5. ASSUME NEW from, NEW to \in Steps, form.step = from, form' = [form EXCEPT !.step = to],
             UNCHANGED <<ask, codes, grants, pins, session, visits>>,
             \/ from = "EMAIL_OTP" /\ to = "EMAIL_ENTRY"
             \/ /\ from \in {"geofence", "face", "fingerprint"}
                /\ to \in {"face", "fingerprint", "otp"}
      PROVE  LoginInv'
  <2> DEFINE e == [form EXCEPT !.step = to]
  <2>1. e \in LoginForms
    BY <1>1 DEF LoginForms
  <2>2. /\ e.challenge = form.challenge /\ e.token = form.token /\ e.pin = form.pin
        /\ e.step = to /\ e.portal = form.portal /\ e.email = form.email
    BY <1>1 DEF LoginForms
  <2>3. form' = e
    BY <1>5
  <2> HIDE DEF e
  <2>4. PICK f \in LoginForms : f = e
    BY <2>1
  <2>5. FormHolds(f)
    BY <1>1, <1>5, <2>2, <2>4 DEF FormHolds
  <2>6. AskIsAbout(b, f)
    BY <1>1, <1>2, <1>5, <2>2, <2>4 DEF AskIsAbout
  <2> QED
    BY <1>3, <1>5, <2>3, <2>4, <2>5, <2>6
<1>6. CASE CountdownEnds
  BY <1>5, <1>6 DEF CountdownEnds, Steps
<1>7. CASE PlaceChecked
  BY <1>5, <1>7 DEF PlaceChecked, Step, Steps
<1>8. CASE FaceMatched
  BY <1>5, <1>8 DEF FaceMatched, Step, Steps
<1>9. CASE FingerprintChecked
  BY <1>5, <1>9 DEF FingerprintChecked, Step, Steps
<1> QED
  BY <1>4, <1>6, <1>7, <1>8, <1>9

\* The answer is there, or the request is over.
LEMMA AnswerSteps ==
  ASSUME LoginInv, RefuseCode \/ CandidateRefused \/ AskFails \/ AnswerLost
  PROVE  LoginInv'
<1>1. form \in LoginForms /\ FormHolds(form) /\ ask \in LoginAsks /\ AskIsAbout(ask, form)
      /\ visits \in 0..MaxVisits
  BY LoginState
<1>2. UNCHANGED <<form, codes, grants, pins, session, visits>>
  BY DEF RefuseCode, CandidateRefused, AskFails, AnswerLost
<1>3. PICK f \in LoginForms : f = form
  BY <1>1
<1>4. CASE RefuseCode \/ CandidateRefused
  <2> DEFINE r == [ask EXCEPT !.got = 0]
  <2>1. ask' = r
    BY <1>4 DEF RefuseCode, CandidateRefused, Answer
  <2>2. r \in LoginAsks /\ r.got = 0 /\ r.is = ask.is /\ r.email = ask.email /\ r.ref = ask.ref
    BY <1>1, LoginAssumption DEF LoginAsks
  <2> HIDE DEF r
  <2>3. PICK b \in LoginAsks : b = r
    BY <2>2
  <2>4. AskIsAbout(b, f)
    BY <1>1, <1>3, <2>2, <2>3 DEF AskIsAbout
  <2> QED
    BY <1>1, <1>2, <1>3, <2>1, <2>3, <2>4, FormMoves
<1>5. CASE AskFails \/ AnswerLost
  <2>1. ask' = NoAsk
    BY <1>5 DEF AskFails, AnswerLost
  <2> QED
    BY <1>1, <1>2, <1>3, <2>1, NoAskType, NoAskIsAbout, FormMoves
<1> QED
  BY <1>4, <1>5

(***************************************************************************)
(* The form takes the answer.                                              *)
(***************************************************************************)
\* A form that took an answer, and asks nothing.
LEMMA TookAnswer ==
  ASSUME LoginInv, NEW f \in LoginForms, FormHolds(f), form' = f, ask' = NoAsk,
         UNCHANGED <<codes, grants, pins, session, visits>>
  PROVE  LoginInv'
BY LoginState, NoAskType, NoAskIsAbout, FormMoves

LEMMA TakeSteps ==
  ASSUME LoginInv,
         \/ CodeSent \/ EmailVerified \/ PasswordVerified \/ EnrolmentFound \/ EnrolmentMissing
  PROVE  LoginInv'
<1>1. form \in LoginForms /\ FormHolds(form) /\ ask \in LoginAsks /\ AskIsAbout(ask, form)
  BY LoginState
<1>2. /\ ask.got > 0 /\ ask' = NoAsk /\ UNCHANGED <<codes, grants, pins, session, visits>>
      /\ ask.got \in Refs /\ ask.got # 0
  BY <1>1, LoginAssumption
     DEF CodeSent, EmailVerified, PasswordVerified, EnrolmentFound, EnrolmentMissing, Got,
         LoginAsks, Refs
<1>3. CASE CodeSent
  <2> DEFINE e == [form EXCEPT !.challenge = ask.got, !.step = "EMAIL_OTP"]
  <2>1. form' = e /\ ask.got \in DOMAIN codes /\ codes[ask.got].role = form.portal
    BY <1>1, <1>2, <1>3 DEF CodeSent, Got, AskIsAbout
  <2>2. /\ e \in LoginForms /\ e.challenge = ask.got /\ e.step = "EMAIL_OTP"
        /\ e.token = form.token /\ e.portal = form.portal
    BY <1>1, <1>2 DEF LoginForms, Steps
  <2> HIDE DEF e
  <2>3. FormHolds(e)
    BY <1>1, <1>2, <2>1, <2>2 DEF FormHolds
  <2> QED
    BY <1>2, <2>1, <2>2, <2>3, TookAnswer
<1>4. CASE EmailVerified
  <2> DEFINE e == [form EXCEPT !.token = ask.got, !.step = "PASSWORD_ENTRY"]
  <2>1. form' = e /\ ask.got \in DOMAIN grants /\ grants[ask.got].role = form.portal
    BY <1>1, <1>2, <1>4 DEF EmailVerified, Got, AskIsAbout
  <2>2. /\ e \in LoginForms /\ e.token = ask.got /\ e.step = "PASSWORD_ENTRY"
        /\ e.challenge = form.challenge /\ e.portal = form.portal
    BY <1>1, <1>2 DEF LoginForms, Steps
  <2> HIDE DEF e
  <2>3. FormHolds(e)
    BY <1>1, <1>2, <2>1, <2>2 DEF FormHolds
  <2> QED
    BY <1>2, <2>1, <2>2, <2>3, TookAnswer
<1>5. CASE PasswordVerified
  <2> DEFINE e == [form EXCEPT !.pin = ask.got, !.step = "SMS_OTP"]
  <2>1. form' = e /\ PinProves(ask.got, form.email, form.portal)
    BY <1>1, <1>2, <1>5 DEF PasswordVerified, Got, AskIsAbout
  <2>2. /\ e \in LoginForms /\ e.pin = ask.got /\ e.step = "SMS_OTP" /\ e.email = form.email
        /\ e.challenge = form.challenge /\ e.portal = form.portal /\ e.token = form.token
    BY <1>1, <1>2 DEF LoginForms, Steps
  <2> HIDE DEF e
  <2>3. FormHolds(e)
    BY <1>1, <1>2, <2>1, <2>2 DEF FormHolds
  <2> QED
    BY <1>2, <2>1, <2>2, <2>3, TookAnswer
<1>6. CASE EnrolmentFound
  <2> DEFINE e == [form EXCEPT !.token = ask.got, !.face = ask.email, !.step = "geofence"]
  <2>1. /\ form' = e /\ form.portal = "INVIGILATOR"
        /\ ask.got \in DOMAIN grants /\ grants[ask.got].role = form.portal
    BY <1>1, <1>2, <1>6 DEF EnrolmentFound, Got, AskIsAbout
  <2>2. /\ e \in LoginForms /\ e.token = ask.got /\ e.step = "geofence"
        /\ e.challenge = form.challenge /\ e.portal = form.portal
    BY <1>1, <1>2 DEF LoginForms, LoginAsks, Steps
  <2> HIDE DEF e
  <2>3. FormHolds(e)
    BY <1>1, <1>2, <2>1, <2>2 DEF FormHolds
  <2> QED
    BY <1>2, <2>1, <2>2, <2>3, TookAnswer
<1>7. CASE EnrolmentMissing
  <2> DEFINE e == [form EXCEPT !.token = ask.got]
  <2>1. form' = e /\ ask.got \in DOMAIN grants /\ grants[ask.got].role = form.portal
    BY <1>1, <1>2, <1>7 DEF EnrolmentMissing, Got, AskIsAbout
  <2>2. /\ e \in LoginForms /\ e.token = ask.got /\ e.step = form.step
        /\ e.challenge = form.challenge /\ e.portal = form.portal
        /\ e.pin = form.pin /\ e.email = form.email
    BY <1>1, <1>2 DEF LoginForms
  <2> HIDE DEF e
  <2>3. FormHolds(e)
    BY <1>1, <1>2, <2>1, <2>2 DEF FormHolds
  <2> QED
    BY <1>2, <2>1, <2>2, <2>3, TookAnswer
<1> QED
  BY <1>3, <1>4, <1>5, <1>6, <1>7

LEMMA SignInTypes ==
  ASSUME LoginInv, NEW pin \in Refs, SignIn(pin)
  PROVE  session' \in Sessions
BY LoginState, LoginAssumption DEF SignIn, LoginForms, Sessions

\* The SMS code the form asked about is spent, and proves the account the form shows.
LEMMA SignedInStep ==
  ASSUME LoginInv, SignedIn
  PROVE  LoginInv'
<1>1. form \in LoginForms /\ FormHolds(form) /\ ask \in LoginAsks /\ AskIsAbout(ask, form)
      /\ visits \in 0..MaxVisits
  BY LoginState
<1>2. /\ ask.is = "pin" /\ ask.got > 0 /\ ask' = NoAsk /\ UNCHANGED <<codes, grants, pins, visits>>
      /\ SignIn(ask.got) /\ form' = NewForm(form.portal)
  BY DEF SignedIn, Got
<1>3. ask.got = form.pin /\ pins[form.pin].used /\ PinProves(form.pin, form.email, form.portal)
      /\ form.pin \in Refs
  BY <1>1, <1>2 DEF AskIsAbout, FormHolds, LoginForms
<1>4. session' = [role |-> form.portal, email |-> form.email, pin |-> form.pin]
  BY <1>2, <1>3 DEF SignIn
<1>5. session' \in Sessions
  BY <1>2, <1>3, SignInTypes
<1>6. (session.role \in Staff => session.pin \in DOMAIN pins)' /\ StaffSessionIsVerified'
  <2>1. /\ form.pin \in DOMAIN pins /\ RoleOf[form.email] = form.portal
        /\ pins[form.pin].user = form.email /\ pins[form.pin].used
        /\ \E g \in DOMAIN grants : grants[g].email = form.email /\ grants[g].used
    BY <1>3 DEF PinProves
  <2>2. session'.role = form.portal /\ session'.email = form.email /\ session'.pin = form.pin
    BY <1>4
  <2> QED
    BY <1>2, <2>1, <2>2 DEF StaffSessionIsVerified
<1>7. StoreGrows
  BY <1>2, StoreStays
<1>8. form' \in LoginForms /\ form.portal \in Portals
  BY <1>1, <1>2, NewFormHolds DEF LoginForms
<1>9. FormHolds(form)'
  <2>1. FormHolds(NewForm(form.portal))
    BY <1>8, NewFormHolds
  <2>2. PICK f : f = NewForm(form.portal) /\ FormHolds(f)
    BY <2>1
  <2>3. FormHolds(f)'
    BY <1>7, <2>2, HoldsStill
  <2> QED
    BY <1>2, <2>2, <2>3 DEF FormHolds
<1>10. AskIsAbout(ask, form)'
  BY <1>2, NoAskType DEF AskIsAbout
<1>11. ask' \in LoginAsks /\ visits' \in 0..MaxVisits
  BY <1>1, <1>2, NoAskType
<1> QED
  BY <1>5, <1>6, <1>7, <1>8, <1>9, <1>10, <1>11, LoginInvAfter

\* No session of Staff begins here.
LEMMA InvigilatorSignsInStep ==
  ASSUME LoginInv, InvigilatorSignsIn
  PROVE  LoginInv'
<1>1. form \in LoginForms /\ FormHolds(form) /\ ask \in LoginAsks /\ AskIsAbout(ask, form)
      /\ visits \in 0..MaxVisits
  BY LoginState
<1>2. /\ form.step = "otp" /\ SignIn(0) /\ form' = NewForm(form.portal)
      /\ UNCHANGED <<ask, codes, pins, visits>>
      /\ SpendGrant \/ UNCHANGED grants
  BY DEF InvigilatorSignsIn
<1>3. form.portal = "INVIGILATOR" /\ form.portal \in Portals /\ 0 \in Refs
  BY <1>1, <1>2, LoginAssumption DEF FormHolds, LoginForms, Refs
<1>4. StoreGrows
  <2>1. CASE UNCHANGED grants
    BY <1>2, <2>1, StoreStays
  <2>2. CASE SpendGrant
    <3> DEFINE g == [grants[form.token] EXCEPT !.used = TRUE]
    <3>1. form.token \in DOMAIN grants /\ grants' = [grants EXCEPT ![form.token] = g]
      BY <1>1, <2>2 DEF SpendGrant, FormHolds
    <3>2. /\ g \in GrantRows /\ g.used /\ g.email = grants[form.token].email
          /\ g.role = grants[form.token].role
      BY <3>1, LoginParts DEF GrantRows
    <3> HIDE DEF g
    <3>3. grants \in Seq(GrantRows) /\ codes \in Seq(CodeRows) /\ pins \in Seq(PinRows)
          /\ Len(codes) \in Refs /\ Len(pins) \in Refs
      BY LoginTypes DEF LoginInv
    <3>4. /\ grants' \in Seq(GrantRows) /\ Len(grants') = Len(grants)
          /\ \A i \in 1..Len(grants) : grants'[i] = IF i = form.token THEN g ELSE grants[i]
      BY <3>1, <3>2, <3>3, LoginParts, ExceptSeq
    <3>5. Len(grants') <= Cardinality(UsedCodes')
      BY <1>2, <3>4 DEF LoginInv, UsedCodes
    <3> QED
      BY <1>2, <3>2, <3>3, <3>4, <3>5, LoginParts DEF StoreGrows
  <2> QED
    BY <1>2, <2>1, <2>2
<1>5. session' \in Sessions /\ session'.role = "INVIGILATOR"
  BY <1>2, <1>3, SignInTypes DEF SignIn
<1>6. (session.role \in Staff => session.pin \in DOMAIN pins)' /\ StaffSessionIsVerified'
  BY <1>5 DEF Staff, StaffSessionIsVerified
<1>7. form' \in LoginForms
  BY <1>2, <1>3, NewFormHolds
<1>8. FormHolds(form)'
  <2>1. PICK f : f = NewForm(form.portal) /\ FormHolds(f)
    BY <1>3, NewFormHolds
  <2>2. FormHolds(f)'
    BY <1>4, <2>1, HoldsStill
  <2> QED
    BY <1>2, <2>1, <2>2 DEF FormHolds
<1>9. ask' \in LoginAsks /\ visits' \in 0..MaxVisits
  BY <1>1, <1>2
<1>10. AskIsAbout(ask, form)'
  <2>1. ask.is = "none" \/ ask.is = "code" \/ ask.is = "verify" \/ ask.is = "roll"
    BY <1>1, <1>2 DEF AskIsAbout, LoginAsks
  <2>2. PICK b, f : b = ask /\ f = form /\ AskIsAbout(b, f) /\ FormHolds(f)
    BY <1>1
  <2>3. AskIsAbout(b, f)'
    BY <1>4, <2>2, AboutStill
  <2>4. form'.portal = form.portal /\ ask' = b
    BY <1>2, <1>3, <2>2 DEF NewForm
  <2> QED
    BY <2>1, <2>2, <2>3, <2>4 DEF AskIsAbout
<1> QED
  BY <1>4, <1>5, <1>6, <1>7, <1>8, <1>9, <1>10, LoginInvAfter

LEMMA OpenFormStep ==
  ASSUME LoginInv, NEW p \in Portals, OpenForm(p)
  PROVE  LoginInv'
<1>1. visits' \in 0..MaxVisits
  BY LoginState, LoginAssumption DEF OpenForm
<1> QED
  BY <1>1, NewFormHolds, NoAskType, NoAskIsAbout, FormMoves DEF OpenForm

LEMMA SessionGoneStep ==
  ASSUME LoginInv, SessionGone
  PROVE  LoginInv'
<1>1. session' = NoSession /\ UNCHANGED <<form, ask, codes, grants, pins, visits>>
  BY DEF SessionGone
<1>2. session' \in Sessions /\ session'.role = "none"
  BY <1>1, LoginAssumption DEF NoSession, Sessions, Address, Refs
<1>3. StoreGrows
  BY <1>1, StoreStays
<1>4. PICK f, b : f = form /\ b = ask /\ FormHolds(f) /\ AskIsAbout(b, f)
  BY LoginState
<1>5. FormHolds(f)' /\ AskIsAbout(b, f)'
  BY <1>3, <1>4, HoldsStill, AboutStill
<1>6. FormHolds(form)' /\ AskIsAbout(ask, form)'
  BY <1>1, <1>4, <1>5 DEF FormHolds, AskIsAbout, PinProves
<1>7. (session.role \in Staff => session.pin \in DOMAIN pins)' /\ StaffSessionIsVerified'
  BY <1>2 DEF Staff, StaffSessionIsVerified
<1>8. form' \in LoginForms /\ ask' \in LoginAsks /\ visits' \in 0..MaxVisits
  BY <1>1, LoginState
<1> QED
  BY <1>2, <1>3, <1>6, <1>7, <1>8, LoginInvAfter

(***************************************************************************)
(* The backend answers.                                                    *)
(***************************************************************************)
LEMMA BackendAnswers ==
  ASSUME LoginInv, StoreGrows, NEW n \in -1..MaxCodes, Answer(n),
         UNCHANGED <<form, session, visits>>,
         NEW a, a = [ask EXCEPT !.got = n], AskIsAbout(a, form)'
  PROVE  LoginInv'
<1>1. form \in LoginForms /\ ask \in LoginAsks /\ session \in Sessions /\ visits \in 0..MaxVisits
  BY LoginState
<1>2. ask' = a /\ ask' \in LoginAsks
  BY <1>1 DEF Answer, LoginAsks
<1>3. PICK f : f = form /\ FormHolds(f)
  BY LoginState
<1>4. FormHolds(f)'
  BY <1>3, HoldsStill
<1>5. FormHolds(form)'
  BY <1>3, <1>4 DEF FormHolds
<1>6. AskIsAbout(ask, form)'
  BY <1>2 DEF AskIsAbout
<1>7. form' \in LoginForms /\ session' \in Sessions /\ visits' \in 0..MaxVisits
  BY <1>1
<1> QED
  BY <1>2, <1>5, <1>6, <1>7, SessionStill, LoginInvAfter

LEMMA AnswerFields ==
  ASSUME LoginInv, NEW n \in -1..MaxCodes
  PROVE  LET a == [ask EXCEPT !.got = n]
         IN  /\ a \in LoginAsks /\ a.got = n /\ a.is = ask.is
             /\ a.email = ask.email /\ a.ref = ask.ref /\ a.right = ask.right
<1>1. ask \in LoginAsks
  BY LoginState
<1> QED
  BY <1>1 DEF LoginAsks

\* One code more; those of the same address are used up.
LEMMA IssueCodeStep ==
  ASSUME LoginInv, NEW sent \in BOOLEAN, IssueCode(sent)
  PROVE  LoginInv'
<1> DEFINE old == [i \in DOMAIN codes |-> [codes[i] EXCEPT !.used = @ \/ codes[i].email = ask.email]]
           new == [email |-> ask.email, role |-> form.portal, used |-> FALSE, tries |-> 0]
<1>1. /\ ask.is = "code" /\ ask.got = -1 /\ Len(codes) < MaxCodes
      /\ codes' = Append(old, new)
      /\ Answer(IF sent THEN Len(codes') ELSE 0)
      /\ UNCHANGED <<form, grants, pins, session, visits>>
  BY DEF IssueCode, Asked
<1>2. form \in LoginForms /\ ask \in LoginAsks /\ AskIsAbout(ask, form)
  BY LoginState
<1>3. new \in CodeRows /\ new.role = form.portal
  BY <1>1, <1>2, LoginParts DEF CodeRows, LoginForms, AskIsAbout
<1>4. \A i \in DOMAIN codes : /\ old[i] \in CodeRows /\ old[i].role = codes[i].role
                              /\ codes[i].used => old[i].used
  BY LoginParts DEF CodeRows
<1>5. old \in [1..Len(codes) -> CodeRows]
  BY <1>4, LoginParts
<1> HIDE DEF old, new
<1>6. old \in Seq(CodeRows) /\ Len(old) = Len(codes)
  BY <1>5, LoginParts, SeqDef, LenProperties
<1>7. /\ codes' \in Seq(CodeRows) /\ Len(codes') = Len(codes) + 1
      /\ \A i \in 1..Len(codes) : codes'[i] = old[i]
      /\ codes'[Len(codes) + 1] = new
  BY <1>1, <1>3, <1>6, AppendProperties
<1>8. DOMAIN codes' = 1..(Len(codes) + 1) /\ Len(codes') \in Refs
  BY <1>1, <1>7, LoginParts, LenProperties DEF Refs
<1>9. Len(grants) <= Cardinality(UsedCodes')
  <2>1. UsedCodes \subseteq UsedCodes'
    BY <1>4, <1>7, <1>8, LoginParts DEF UsedCodes
  <2>2. PICK n \in Nat : n = Len(codes) + 1
    BY LoginParts
  <2>3. PICK S \in SUBSET (1..n), T \in SUBSET (1..n) : S = UsedCodes /\ T = UsedCodes' /\ S \subseteq T
    BY <1>8, <2>1, <2>2 DEF UsedCodes
  <2>4. Cardinality(S) \in Nat /\ Cardinality(T) \in Nat /\ Cardinality(S) <= Cardinality(T)
    BY <2>3, CardGrows
  <2>5. Len(grants) <= Cardinality(S) /\ Len(grants) \in Nat
    BY <2>3, LoginParts DEF LoginInv
  <2>6. Len(grants) <= Cardinality(T)
    BY <2>4, <2>5
  <2> QED
    BY <2>3, <2>6
<1>10. StoreGrows
  <2>1. grants \in Seq(GrantRows) /\ pins \in Seq(PinRows) /\ Len(pins) \in Refs
    BY LoginTypes DEF LoginInv
  <2>2. Len(codes) <= Len(codes') /\ Len(grants) <= Len(grants) /\ Len(pins) <= Len(pins)
    BY <1>7, LoginParts
  <2>3. \A i \in DOMAIN codes : codes'[i].role = codes[i].role
    BY <1>4, <1>7, LoginParts
  <2> QED
    BY <1>1, <1>7, <1>8, <1>9, <2>1, <2>2, <2>3 DEF StoreGrows
<1>11. PICK n \in -1..MaxCodes : n = IF sent THEN Len(codes') ELSE 0
  BY <1>8, LoginParts DEF Refs
<1>12. n > 0 => n \in DOMAIN codes' /\ codes'[n].role = form.portal
  BY <1>3, <1>7, <1>8, <1>11, LoginParts
<1>13. PICK a : a = [ask EXCEPT !.got = n]
  OBVIOUS
<1>14. a.got = n /\ a.is = "code" /\ a.email \in Accounts
  BY <1>1, <1>2, <1>13, AnswerFields DEF AskIsAbout
<1>15. AskIsAbout(a, form)'
  BY <1>1, <1>12, <1>14 DEF AskIsAbout
<1>16. Answer(n)
  BY <1>1, <1>11
<1> QED
  BY <1>1, <1>10, <1>13, <1>15, <1>16, BackendAnswers

\* A code is looked at: nothing, a try, used up, or used up for a verification.
LEMMA GrantEmailStep ==
  ASSUME LoginInv, NEW expired \in BOOLEAN, GrantEmail(expired)
  PROVE  LoginInv'
<1> DEFINE r == ask.ref
           c == codes[r]
           used == [c EXCEPT !.used = TRUE]
           tried == [c EXCEPT !.tries = @ + 1]
           grant == [email |-> c.email, role |-> c.role, used |-> FALSE]
<1>1. /\ ask.is = "verify" /\ ask.got = -1 /\ UNCHANGED <<form, pins, session, visits>>
      /\ \/ UNCHANGED <<codes, grants>> /\ Answer(0)
         \/ codes' = [codes EXCEPT ![r].used = TRUE] /\ UNCHANGED grants /\ Answer(0)
         \/ /\ c.tries < MaxTries
            /\ codes' = [codes EXCEPT ![r].tries = @ + 1] /\ UNCHANGED grants /\ Answer(0)
         \/ /\ ~c.used
            /\ codes' = [codes EXCEPT ![r].used = TRUE]
            /\ grants' = Append(grants, grant) /\ Answer(Len(grants'))
  <2>1. ask.ref \in DOMAIN codes
    BY LoginState DEF GrantEmail, Asked, AskIsAbout
  <2>2. c.tries \in Nat /\ MaxTries \in Nat
    BY <2>1, LoginParts DEF CodeRows
  <2>3. c.tries >= MaxTries \/ c.tries < MaxTries
    BY <2>2
  <2> QED
    BY <2>3 DEF GrantEmail, Asked
<1>2. form \in LoginForms /\ ask \in LoginAsks /\ AskIsAbout(ask, form)
  BY LoginState
<1>3. r \in DOMAIN codes /\ c \in CodeRows /\ c.role = form.portal
  BY <1>1, <1>2, LoginParts DEF AskIsAbout
<1>4. /\ codes \in Seq(CodeRows) /\ grants \in Seq(GrantRows) /\ pins \in Seq(PinRows)
      /\ Len(codes) \in Refs /\ Len(pins) \in Refs
  BY LoginTypes DEF LoginInv
<1>5. PICK m \in CodeRows :
        /\ m.role = c.role /\ (c.used => m.used)
        /\ codes' = [codes EXCEPT ![r] = m]
        /\ grants' # grants => m.used
  <2>1. CASE UNCHANGED <<codes, grants>>
    <3>1. codes' = [codes EXCEPT ![r] = c]
      BY <1>4, <2>1
    <3> QED
      BY <1>3, <2>1, <3>1
  <2>2. CASE codes' = [codes EXCEPT ![r].used = TRUE]
    <3>1. codes' = [codes EXCEPT ![r] = used]
      BY <2>2
    <3>2. used \in CodeRows /\ used.role = c.role /\ used.used
      BY <1>3 DEF CodeRows
    <3> HIDE DEF used
    <3> QED
      BY <3>1, <3>2
  <2>3. CASE c.tries < MaxTries /\ codes' = [codes EXCEPT ![r].tries = @ + 1] /\ UNCHANGED grants
    <3>1. codes' = [codes EXCEPT ![r] = tried]
      BY <2>3
    <3>2. c.tries + 1 \in 0..MaxTries
      BY <1>3, <2>3, LoginParts DEF CodeRows
    <3>3. tried \in CodeRows /\ tried.role = c.role /\ tried.used = c.used
      BY <1>3, <3>2 DEF CodeRows
    <3> HIDE DEF tried
    <3> QED
      BY <2>3, <3>1, <3>3
  <2> QED
    BY <1>1, <2>1, <2>2, <2>3
<1> HIDE DEF used, tried
<1>6. /\ codes' \in Seq(CodeRows) /\ Len(codes') = Len(codes)
      /\ \A i \in 1..Len(codes) : codes'[i] = IF i = r THEN m ELSE codes[i]
  BY <1>3, <1>4, <1>5, LoginParts, ExceptSeq
<1>7. DOMAIN codes' = DOMAIN codes /\ DOMAIN codes = 1..Len(codes)
  BY <1>6, LoginParts, LenProperties
<1>8. PICK S \in SUBSET (1..Len(codes)), T \in SUBSET (1..Len(codes)) :
        /\ S = UsedCodes /\ T = UsedCodes' /\ S \subseteq T
        /\ ~c.used /\ m.used => r \in T \ S
  <2>1. UsedCodes \subseteq UsedCodes'
    <3> SUFFICES ASSUME NEW i \in DOMAIN codes, codes[i].used PROVE codes'[i].used
      BY <1>7 DEF UsedCodes
    <3>1. CASE i = r
      BY <1>5, <1>6, <1>7, <3>1
    <3>2. CASE i # r
      BY <1>6, <1>7, <3>2
    <3> QED
      BY <3>1, <3>2
  <2>2. ~c.used /\ m.used => r \in UsedCodes' /\ r \notin UsedCodes
    BY <1>3, <1>6, <1>7 DEF UsedCodes
  <2>3. UsedCodes \subseteq 1..Len(codes) /\ UsedCodes' \subseteq 1..Len(codes)
    BY <1>7 DEF UsedCodes
  <2> QED
    BY <2>1, <2>2, <2>3
<1>9. /\ Cardinality(S) \in Nat /\ Cardinality(T) \in Nat /\ Cardinality(S) <= Cardinality(T)
      /\ ~c.used /\ m.used => Cardinality(S) + 1 <= Cardinality(T)
  <2>1. PICK n \in Nat : n = Len(codes)
    BY LoginParts
  <2> QED
    BY <1>8, <2>1, CardGrows
<1>10. Len(grants) <= Cardinality(S) /\ Len(grants) \in Nat
  BY <1>8, LoginParts DEF LoginInv
<1>11. CASE UNCHANGED grants /\ Answer(0)
  <2>1. Len(grants') <= Cardinality(UsedCodes')
    <3>1. Len(grants) <= Cardinality(T)
      BY <1>9, <1>10
    <3> QED
      BY <1>8, <1>11, <3>1
  <2>2. StoreGrows
    <3>1. \A i \in DOMAIN codes : codes'[i].role = codes[i].role
      BY <1>5, <1>6, <1>7
    <3>2. grants' \in Seq(GrantRows) /\ Len(grants') = Len(grants) /\ grants' = grants
      BY <1>4, <1>11
    <3>3. pins' = pins /\ Len(codes') = Len(codes)
      BY <1>1, <1>6
    <3> QED
      BY <1>4, <1>6, <2>1, <3>1, <3>2, <3>3, LoginParts DEF StoreGrows
  <2>3. PICK n \in -1..MaxCodes : n = 0
    BY LoginParts
  <2>4. PICK a : a = [ask EXCEPT !.got = n]
    OBVIOUS
  <2>5. a.got = 0 /\ a.is = "verify" /\ a.ref = r
    BY <1>1, <2>3, <2>4, AnswerFields
  <2>6. AskIsAbout(a, form)'
    BY <1>1, <1>3, <1>5, <1>6, <1>7, <2>5 DEF AskIsAbout
  <2> QED
    BY <1>1, <1>11, <2>2, <2>3, <2>4, <2>6, BackendAnswers
<1>12. CASE ~c.used /\ grants' = Append(grants, grant) /\ Answer(Len(grants'))
  <2>1. grant \in GrantRows /\ grant.role = form.portal
    BY <1>3 DEF CodeRows, GrantRows
  <2> HIDE DEF grant
  <2>2. /\ grants' \in Seq(GrantRows) /\ Len(grants') = Len(grants) + 1
        /\ \A g \in 1..Len(grants) : grants'[g] = grants[g]
        /\ grants'[Len(grants) + 1] = grant
    BY <1>4, <1>12, <2>1, AppendProperties
  <2>3. Len(grants') <= Cardinality(UsedCodes')
    <3>1. grants' # grants
      BY <1>10, <2>2
    <3>2. Len(grants) + 1 <= Cardinality(T)
      BY <1>5, <1>9, <1>10, <1>12, <3>1
    <3> QED
      BY <1>8, <2>2, <3>2
  <2>4. StoreGrows
    BY <1>1, <1>4, <1>5, <1>6, <2>2, <2>3, LoginParts DEF StoreGrows
  <2>5. DOMAIN grants' = 1..(Len(grants) + 1) /\ Len(grants') \in Refs
    BY <2>2, <2>4, LenProperties, GrantsFitRefs
  <2>6. PICK n \in -1..MaxCodes : n = Len(grants) + 1
    BY <1>10, <2>2, <2>5, LoginParts DEF Refs
  <2>7. PICK a : a = [ask EXCEPT !.got = n]
    OBVIOUS
  <2>8. a.got = n /\ a.is = "verify" /\ a.ref = r
    BY <1>1, <2>7, AnswerFields
  <2>9. n \in DOMAIN grants' /\ grants'[n].role = form.portal
    BY <1>10, <2>1, <2>2, <2>5, <2>6
  <2>10. AskIsAbout(a, form)'
    BY <1>1, <1>3, <1>5, <1>6, <1>7, <2>8, <2>9 DEF AskIsAbout
  <2>11. Answer(n)
    BY <1>12, <2>2, <2>6
  <2> QED
    BY <1>1, <2>4, <2>7, <2>10, <2>11, BackendAnswers
<1> QED
  BY <1>1, <1>11, <1>12


\* The verification is spent with the password, and an SMS code sent when both are right.
LEMMA CheckPasswordStep ==
  ASSUME LoginInv, NEW expired \in BOOLEAN, NEW sent \in BOOLEAN, CheckPassword(expired, sent)
  PROVE  LoginInv'
<1> DEFINE r == ask.ref
           g == grants[r]
           spent == [g EXCEPT !.used = TRUE]
           pin == [user |-> ask.email, used |-> FALSE, tries |-> 0]
<1>1. /\ ask.is = "password" /\ ask.got = -1 /\ UNCHANGED <<form, codes, session, visits>>
      /\ Len(pins) < MaxCodes
  BY DEF CheckPassword, Asked
<1>2. /\ form \in LoginForms /\ ask \in LoginAsks /\ AskIsAbout(ask, form)
      /\ codes \in Seq(CodeRows) /\ grants \in Seq(GrantRows) /\ pins \in Seq(PinRows)
      /\ Len(codes) \in Refs /\ Len(pins) \in Refs
  BY LoginState, LoginTypes DEF LoginInv
<1>3. /\ r \in DOMAIN grants /\ g \in GrantRows /\ g.role = form.portal
      /\ form.step = "PASSWORD_ENTRY" /\ ask.email = form.email
  BY <1>1, <1>2, LoginParts DEF AskIsAbout
<1>4. \/ UNCHANGED <<grants, pins>> /\ Answer(0)
      \/ /\ g.email = ask.email /\ g.role = RoleOf[ask.email]
         /\ grants' = [grants EXCEPT ![r] = spent]
         /\ \/ UNCHANGED pins /\ Answer(0)
            \/ pins' = Append(pins, pin) /\ (Answer(0) \/ Answer(Len(pins')))
  BY DEF CheckPassword, GrantFits
<1>5. /\ spent \in GrantRows /\ spent.used /\ spent.email = g.email /\ spent.role = g.role
  BY <1>3 DEF GrantRows
<1> HIDE DEF spent
<1>6. PICK m \in GrantRows :
        /\ m.email = g.email /\ m.role = g.role /\ (g.used => m.used)
        /\ grants' = [grants EXCEPT ![r] = m]
        /\ pins' # pins => m.used /\ g.email = ask.email /\ g.role = RoleOf[ask.email]
  <2>1. CASE UNCHANGED <<grants, pins>>
    <3>1. grants' = [grants EXCEPT ![r] = g]
      BY <1>2, <2>1
    <3> QED
      BY <1>3, <2>1, <3>1
  <2>2. CASE /\ g.email = ask.email /\ g.role = RoleOf[ask.email]
             /\ grants' = [grants EXCEPT ![r] = spent]
    BY <1>5, <2>2
  <2> QED
    BY <1>4, <2>1, <2>2
<1>7. /\ grants' \in Seq(GrantRows) /\ Len(grants') = Len(grants)
      /\ \A i \in 1..Len(grants) : grants'[i] = IF i = r THEN m ELSE grants[i]
  BY <1>2, <1>3, <1>6, LoginParts, ExceptSeq
<1>8. DOMAIN grants' = DOMAIN grants /\ DOMAIN grants = 1..Len(grants)
  BY <1>7, LoginParts, LenProperties
<1>9. \A i \in DOMAIN grants : /\ grants'[i].email = grants[i].email
                               /\ grants'[i].role = grants[i].role
                               /\ grants[i].used => grants'[i].used
  <2> TAKE i \in DOMAIN grants
  <2>1. CASE i = r
    BY <1>6, <1>7, <1>8, <2>1
  <2>2. CASE i # r
    BY <1>7, <1>8, <2>2
  <2> QED
    BY <2>1, <2>2
<1>10. Len(grants') <= Cardinality(UsedCodes')
  BY <1>1, <1>7 DEF LoginInv, UsedCodes
<1>11. grants'[r] = m /\ r \in DOMAIN grants'
  BY <1>3, <1>7, <1>8
<1>12. CASE UNCHANGED pins /\ Answer(0)
  <2>1. StoreGrows
    BY <1>1, <1>2, <1>7, <1>9, <1>10, <1>12, LoginParts DEF StoreGrows
  <2>2. PICK n \in -1..MaxCodes : n = 0
    BY LoginParts
  <2>3. PICK a : a = [ask EXCEPT !.got = n]
    OBVIOUS
  <2>4. a.got = 0 /\ a.is = "password" /\ a.ref = r /\ a.email = ask.email
    BY <1>1, <2>2, <2>3, AnswerFields
  <2>5. AskIsAbout(a, form)'
    BY <1>1, <1>3, <1>6, <1>11, <2>4 DEF AskIsAbout
  <2> QED
    BY <1>1, <1>12, <2>1, <2>2, <2>3, <2>5, BackendAnswers
<1>13. CASE /\ g.email = ask.email
            /\ pins' = Append(pins, pin) /\ (Answer(0) \/ Answer(Len(pins')))
  <2>1. pin \in PinRows /\ pin.user = ask.email
    <3>1. ask.email \in Accounts
      BY <1>3, <1>13 DEF GrantRows
    <3> QED
      BY <3>1, LoginParts DEF PinRows
  <2> HIDE DEF pin
  <2>2. /\ pins' \in Seq(PinRows) /\ Len(pins') = Len(pins) + 1
        /\ \A i \in 1..Len(pins) : pins'[i] = pins[i]
        /\ pins'[Len(pins) + 1] = pin
    BY <1>2, <1>13, <2>1, AppendProperties
  <2>3. m.used /\ g.email = ask.email /\ g.role = RoleOf[ask.email]
    BY <1>6, <2>2, LoginParts
  <2>4. DOMAIN pins' = 1..(Len(pins) + 1) /\ Len(pins') \in Refs
    BY <1>1, <2>2, LoginParts, LenProperties DEF Refs
  <2>5. StoreGrows
    <3>1. codes' = codes /\ Len(grants) <= Len(grants') /\ Len(pins) <= Len(pins')
      BY <1>1, <1>7, <2>2, LoginParts
    <3>2. \A i \in DOMAIN pins : pins'[i] = pins[i]
      BY <2>2, LoginParts
    <3> QED
      BY <1>2, <1>7, <1>9, <1>10, <2>2, <2>4, <3>1, <3>2, LoginParts DEF StoreGrows
  <2>6. PICK n \in -1..MaxCodes : Answer(n) /\ (n = 0 \/ n = Len(pins) + 1)
    BY <1>1, <1>13, <2>2, LoginParts
  <2>7. PICK a : a = [ask EXCEPT !.got = n]
    OBVIOUS
  <2>8. a.got = n /\ a.is = "password" /\ a.ref = r /\ a.email = ask.email
    BY <1>1, <2>7, AnswerFields
  <2>9. n > 0 => PinProves(n, form.email, form.portal)'
    <3> SUFFICES ASSUME n > 0 PROVE PinProves(n, form.email, form.portal)'
      OBVIOUS
    <3>1. n \in DOMAIN pins' /\ pins'[n].user = form.email
      BY <1>3, <2>1, <2>2, <2>4, <2>6, LoginParts
    <3>2. RoleOf[form.email] = form.portal
      BY <1>3, <2>3
    <3>3. \E i \in DOMAIN grants' : grants'[i].email = form.email /\ grants'[i].used
      BY <1>3, <1>6, <1>11, <2>3
    <3> QED
      BY <1>1, <3>1, <3>2, <3>3 DEF PinProves
  <2>10. AskIsAbout(a, form)'
    BY <1>1, <1>3, <1>6, <1>11, <2>8, <2>9 DEF AskIsAbout
  <2> QED
    BY <1>1, <2>5, <2>6, <2>7, <2>10, BackendAnswers
<1> QED
  BY <1>4, <1>12, <1>13

\* An SMS code is tried: the right one is spent.
LEMMA CheckPinStep ==
  ASSUME LoginInv, NEW expired \in BOOLEAN, CheckPin(expired)
  PROVE  LoginInv'
<1> DEFINE r == ask.ref
           c == pins[r]
           tried == [c EXCEPT !.tries = @ + 1, !.used = ask.right]
<1>1. ask.is = "pin" /\ ask.got = -1 /\ UNCHANGED <<form, codes, grants, session, visits>>
  BY DEF CheckPin, Asked
<1>2. /\ form \in LoginForms /\ FormHolds(form) /\ ask \in LoginAsks /\ AskIsAbout(ask, form)
      /\ codes \in Seq(CodeRows) /\ grants \in Seq(GrantRows) /\ pins \in Seq(PinRows)
      /\ Len(codes) \in Refs /\ Len(pins) \in Refs
  BY LoginState, LoginTypes DEF LoginInv
<1>3. /\ r = form.pin /\ form.step = "SMS_OTP" /\ r \in DOMAIN pins /\ c \in PinRows
      /\ r \in Refs
  BY <1>1, <1>2, LoginParts DEF AskIsAbout, FormHolds, PinProves, LoginAsks
<1>4. \/ UNCHANGED pins /\ Answer(0)
      \/ /\ ~c.used /\ c.tries < MaxTries
         /\ pins' = [pins EXCEPT ![r].tries = @ + 1, ![r].used = ask.right]
         /\ Answer(0) \/ (ask.right /\ Answer(r))
  BY DEF CheckPin
<1>5. PICK m \in PinRows :
        /\ m.user = c.user /\ (c.used => m.used)
        /\ pins' = [pins EXCEPT ![r] = m]
        /\ Answer(0) \/ (m.used /\ Answer(r))
  <2>1. CASE UNCHANGED pins /\ Answer(0)
    <3>1. pins' = [pins EXCEPT ![r] = c]
      BY <1>2, <2>1
    <3> QED
      BY <1>3, <2>1, <3>1
  <2>2. CASE /\ ~c.used /\ c.tries < MaxTries
             /\ pins' = [pins EXCEPT ![r].tries = @ + 1, ![r].used = ask.right]
             /\ Answer(0) \/ (ask.right /\ Answer(r))
    <3>1. pins' = [pins EXCEPT ![r] = tried]
      BY <1>3, <2>2 DEF PinRows
    <3>2. c.tries + 1 \in 0..MaxTries /\ ask.right \in BOOLEAN
      BY <1>2, <1>3, <2>2, LoginParts DEF PinRows, LoginAsks
    <3>3. tried \in PinRows /\ tried.user = c.user /\ tried.used = ask.right
      BY <1>3, <3>2 DEF PinRows
    <3> HIDE DEF tried
    <3> QED
      BY <2>2, <3>1, <3>3
  <2> QED
    BY <1>4, <2>1, <2>2
<1>6. /\ pins' \in Seq(PinRows) /\ Len(pins') = Len(pins)
      /\ \A i \in 1..Len(pins) : pins'[i] = IF i = r THEN m ELSE pins[i]
  BY <1>2, <1>3, <1>5, LoginParts, ExceptSeq
<1>7. DOMAIN pins = 1..Len(pins) /\ pins'[r] = m
  BY <1>3, <1>6, LoginParts
<1>8. \A i \in DOMAIN pins : pins'[i].user = pins[i].user /\ (pins[i].used => pins'[i].used)
  <2> TAKE i \in DOMAIN pins
  <2>1. CASE i = r
    BY <1>5, <1>7, <2>1
  <2>2. CASE i # r
    BY <1>6, <1>7, <2>2
  <2> QED
    BY <2>1, <2>2
<1>9. StoreGrows
  <2>1. Len(grants') <= Cardinality(UsedCodes')
    BY <1>1 DEF LoginInv, UsedCodes
  <2> QED
    BY <1>1, <1>2, <1>6, <1>8, <2>1, LoginParts DEF StoreGrows
<1>10. PICK n \in -1..MaxCodes : Answer(n) /\ (n = 0 \/ (n = r /\ m.used))
  BY <1>3, <1>5, LoginParts DEF Refs
<1>11. PICK a : a = [ask EXCEPT !.got = n]
  OBVIOUS
<1>12. a.got = n /\ a.is = "pin" /\ a.ref = r
  BY <1>1, <1>11, AnswerFields
<1>13. AskIsAbout(a, form)'
  BY <1>1, <1>3, <1>7, <1>10, <1>12 DEF AskIsAbout
<1> QED
  BY <1>1, <1>9, <1>10, <1>11, <1>13, BackendAnswers

LEMMA LoginInvStep == LoginInv /\ [LoginNext]_loginVars => LoginInv'
<1> SUFFICES ASSUME LoginInv, [LoginNext]_loginVars PROVE LoginInv'
  OBVIOUS
<1>1. CASE AskForCode \/ CandidateAsks
  BY <1>1, AskSteps
<1>2. CASE CountdownEnds \/ PlaceChecked \/ FaceMatched \/ FingerprintChecked
  BY <1>2, FormOnlySteps
<1>3. CASE RefuseCode \/ CandidateRefused \/ AskFails \/ AnswerLost
  BY <1>3, AnswerSteps
<1>4. CASE \/ CodeSent \/ EmailVerified \/ PasswordVerified \/ EnrolmentFound
           \/ EnrolmentMissing
  BY <1>4, TakeSteps
<1>5. CASE SignedIn
  BY <1>5, SignedInStep
<1>6. CASE InvigilatorSignsIn
  BY <1>6, InvigilatorSignsInStep
<1>7. CASE SessionGone
  BY <1>7, SessionGoneStep
<1>8. CASE \E a \in Accounts : TypeEmail(a)
  BY <1>8, FormOnlySteps
<1>9. CASE \E p \in Portals : OpenForm(p)
  BY <1>9, OpenFormStep
<1>10. ASSUME NEW b \in BOOLEAN, EnterCode(b) \/ EnterPassword(b) \/ EnterPin(b)
       PROVE  LoginInv'
  BY <1>10, AskSteps
<1>11. ASSUME NEW b \in BOOLEAN, NEW c \in BOOLEAN,
              IssueCode(b) \/ GrantEmail(b) \/ CheckPin(b) \/ CheckPassword(b, c)
       PROVE  LoginInv'
  BY <1>11, IssueCodeStep, GrantEmailStep, CheckPinStep, CheckPasswordStep
<1>12. CASE UNCHANGED loginVars
  <2>1. PICK f \in LoginForms, a \in LoginAsks : f = form /\ a = ask
    BY LoginState
  <2> QED
    BY <1>12, <2>1, LoginState, FormMoves DEF loginVars
<1> QED
  BY <1>1, <1>2, <1>3, <1>4, <1>5, <1>6, <1>7, <1>8, <1>9, <1>10, <1>11, <1>12 DEF LoginNext

\* What a form holds and what it asks about was issued for its own portal, a code that was
\* sent by SMS proves its account, and no more addresses are verified than codes are used up.
THEOREM LoginInvariant == LoginSpec => []LoginInv
BY LoginInvInit, LoginInvStep, PTL DEF LoginSpec

\* A staff session names an account of its role whose address and phone were both verified:
\* for every order of answers, edits of the address and ends of the countdown.
THEOREM StaffSessionAlwaysVerified == LoginSpec => []StaffSessionIsVerified
<1>1. LoginInv => StaffSessionIsVerified
  BY DEF LoginInv
<1> QED
  BY <1>1, LoginInvariant, PTL
=============================================================================
