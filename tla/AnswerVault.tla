----------------------------- MODULE AnswerVault -----------------------------
(***************************************************************************)
(* How a sealed answer gets from a terminal to plaintext at HQ: the        *)
(* terminal seals the record to the System Admin's public key, the Edge    *)
(* chains the envelope, the export signs a manifest of the rows, and the   *)
(* vault checks manifest, signature, chain and envelopes before it opens   *)
(* them.  Rows are damaged in the database and bundles on their way, one   *)
(* field at a time and to a value that nothing hashes to; the keys in the  *)
(* configurations of Edge and portal change between starts.  There are two *)
(* vaults, the portal's and the Edge's reference for it, which its tests   *)
(* hold to one another.  One exam; ExamDay has the gate and the overlap of *)
(* exports and submissions.                                                *)
(*                                                                         *)
(* A definition marked "Variant" is no part of the specification: it is    *)
(* the next definition with a plausible mistake, which a property refutes. *)
(***************************************************************************)
EXTENDS MerkleChain, SequencesExt

CONSTANTS
    Keys,       \* key pairs of the System Admin
    NoKey,      \* none is configured
    MaxRecords, \* bound: records submitted
    MaxDamage   \* bound: fields damaged

ASSUME VaultAssumption == NoKey \notin Keys /\ MaxRecords \in Nat /\ MaxDamage \in Nat

VARIABLES
    sealingKey, \* the public key the Edge hands out
    hqKey,      \* the private key in the environment of the HQ portal
    answerRows, \* answer_ledger
    committed,  \* what the Edge has inserted there, to compare
    bundles,    \* sync bundles, as they arrive at HQ
    damage,     \* how many fields have been damaged
    shown       \* the vault's last verdict, and what it was about

vaultVars == <<sealingKey, hqKey, answerRows, committed, bundles, damage, shown>>

-----------------------------------------------------------------------------
(* Sealing, chaining, signing.  Hashes and signatures are what they are of. *)

\* An envelope of a record; "sound": none of its bytes has changed.
sealRecord(record, key) == [record |-> record, key |-> key, sound |-> TRUE]

leafOf(envelope) == <<envelope>>

JunkLeaf == <<>>

JunkRoot == <<JunkLeaf, JunkLeaf>>

\* A row of the ledger: its place in the chain and the envelope.
Row(r, envelope) == [index |-> r.index, leaf |-> r.leaf, prevRoot |-> r.prevRoot, root |-> r.root,
                     envelope |-> envelope, sync |-> "SEALED"]

\* ORDER BY leaf_index: the k-th row has k - 1 of them before it.
Ordered(rs) ==
    [k \in 1..Cardinality(rs) |->
       CHOOSE r \in rs : Cardinality({s \in rs : s.index < r.index}) = k - 1]

\* The row with the greatest index.
LastRow == Ordered(answerRows)[Cardinality(answerRows)]

\* What a row commits to, wherever it says that it stands.
Content(r) == [leaf |-> r.leaf, prevRoot |-> r.prevRoot, root |-> r.root, envelope |-> r.envelope]

\* SHA-256 of the canonical JSON of a manifest.
manifestHash(manifest) == <<"sha256", manifest>>

signRoot(node, hash) == [by |-> node, over |-> hash]

verifyNodeSig(node, hash, sig) == sig = signRoot(node, hash)

\* The export signs the rows as it lists them; "touched" marks damage on the way.
SyncBundle(records) ==
    LET manifest == [count |-> Len(records), records |-> records]
    IN  [manifest |-> manifest, manifestHash |-> manifestHash(manifest),
         nodeSig |-> signRoot("node", manifestHash(manifest)), nodePubkey |-> "node",
         touched |-> FALSE]

-----------------------------------------------------------------------------
(* The vaults. *)

Refused(by) == [ok |-> FALSE, refusedBy |-> by, opened |-> <<>>]

OpenedAs(rs) ==
    [ok |-> TRUE, opened |-> [i \in 1..Len(rs) |-> rs[i].envelope.record],
     answerRoot |-> rs[Len(rs)].root, count |-> Len(rs)]

Signed(b) == verifyNodeSig(b.nodePubkey, manifestHash(b.manifest), b.nodeSig)

\* Variant: left to GCM, which opens what is sound.
leavesUnchecked(rs) == \A i \in DOMAIN rs : rs[i].envelope.sound

\* Every leaf is the hash of the row's own envelope.
leavesBound(rs) == \A i \in DOMAIN rs : rs[i].leaf = leafOf(rs[i].envelope)

\* RSA unwraps with its own key only, GCM opens what is unchanged only.
opens(envelope, key) == envelope.key = key /\ envelope.sound

\* By leaf index, those of one index in the order of the manifest.
recordToChain(rs) ==
    LET precedes(j, k) == rs[j].index < rs[k].index \/ (rs[j].index = rs[k].index /\ j < k)
        before(k) == {j \in DOMAIN rs : precedes(j, k)}
    IN  [i \in DOMAIN rs |-> rs[CHOOSE k \in DOMAIN rs : Cardinality(before(k)) = i - 1]]

\* What is checked, in this order, before a record is shown.
Checks(b, rs, key) ==
    <<[name |-> "MANIFEST_HASH", holds |-> manifestHash(b.manifest) = b.manifestHash],
      [name |-> "NODE_SIGNATURE", holds |-> Signed(b)],
      [name |-> "CHAIN_WALK", holds |-> verifyChain(rs)],
      [name |-> "LEAF_ENVELOPE", holds |-> leavesBound(rs)],
      [name |-> "HSM_DECRYPT", holds |-> \A i \in DOMAIN rs : opens(rs[i].envelope, key)]>>

\* The portal's vault: the first check that fails refuses the bundle, whole.
ingestBundle(b, key) ==
    LET rs == recordToChain(b.manifest.records)
        failing == SelectInSeq(Checks(b, rs, key), LAMBDA c : ~c.holds)
    IN  IF failing = 0 THEN OpenedAs(rs) ELSE Refused(Checks(b, rs, key)[failing].name)

\* The reference: sorted for the walk, opened in the order of the manifest.
ingest(b, key) ==
    LET rs == b.manifest.records
        chain == recordToChain(rs)
    IN  IF /\ manifestHash(b.manifest) = b.manifestHash /\ Signed(b)
           /\ verifyChain(chain) /\ leavesBound(rs)
           /\ \A i \in DOMAIN rs : opens(rs[i].envelope, key)
        THEN [OpenedAs(rs) EXCEPT !.answerRoot = chain[Len(chain)].root]
        ELSE Refused("IngestError")

\* What a vault that holds key makes of a bundle: both of them.
Verdict(b, key) ==
    [portal |-> ingestBundle(b, key), reference |-> ingest(b, key), of |-> b, key |-> key]

Nothing == [portal |-> Refused("nothing"), reference |-> Refused("nothing")]

\* What the page prints: the records, or the check that failed and that nothing is opened.
Displayed == IF shown.portal.ok THEN shown.portal.opened ELSE <<>>

-----------------------------------------------------------------------------
VaultTypeOK ==
    /\ {sealingKey, hqKey} \subseteq Keys \cup {NoKey}
    /\ \A r \in answerRows : r.index \in Nat /\ r.sync \in {"SEALED", "SYNCED"}
    /\ \A r, s \in answerRows : r.index = s.index => r = s
    /\ Cardinality(committed) <= MaxRecords
    /\ damage \in 0..MaxDamage

VaultInit ==
    /\ sealingKey \in Keys \cup {NoKey}
    /\ hqKey \in Keys \cup {NoKey}
    /\ answerRows = {}
    /\ committed = {}
    /\ bundles = {}
    /\ damage = 0
    /\ shown = Nothing

\* Edge or portal is started with another key in its environment.
ConfigureEdge(k) ==
    /\ k # sealingKey
    /\ sealingKey' = k
    /\ UNCHANGED <<hqKey, answerRows, committed, bundles, damage, shown>>

ConfigurePortal(k) ==
    /\ k # hqKey
    /\ hqKey' = k
    /\ UNCHANGED <<sealingKey, answerRows, committed, bundles, damage, shown>>

\* Without a sealing key a terminal has nothing to send.  The Edge chains to the row with
\* the greatest index.
Submit ==
    /\ sealingKey # NoKey
    /\ Cardinality(committed) < MaxRecords
    /\ LET envelope == sealRecord(Cardinality(committed) + 1, sealingKey)
           r == Row(IF answerRows = {} THEN ChainRecord(0, leafOf(envelope), GENESIS)
                    ELSE ChainRecord(LastRow.index + 1, leafOf(envelope), LastRow.root), envelope)
       IN  /\ answerRows' = answerRows \cup {r}
           /\ committed' = committed \cup {Content(r)}
    /\ UNCHANGED <<sealingKey, hqKey, bundles, damage, shown>>

\* A field of a row, or of a record of a bundle, changes ...
Damaged(r) ==
    {[r EXCEPT !.index = 2 * MaxRecords], [r EXCEPT !.leaf = JunkLeaf],
     [r EXCEPT !.prevRoot = JunkRoot], [r EXCEPT !.root = JunkRoot],
     [r EXCEPT !.envelope.sound = FALSE]}

\* ... or a row is lost, or gets the envelope of another.
DamageRow ==
    /\ damage < MaxDamage
    /\ damage' = damage + 1
    /\ \E r \in answerRows :
         \/ answerRows' = answerRows \ {r}
         \/ \E d \in (Damaged(r) \cup {[r EXCEPT !.envelope = s.envelope] : s \in answerRows}) \ {r} :
              /\ \A s \in answerRows \ {r} : s.index # d.index
              /\ answerRows' = (answerRows \ {r}) \cup {d}
    /\ UNCHANGED <<sealingKey, hqKey, committed, bundles, shown>>

\* A record is dropped or damaged, or what is sent along with them.
DamagedBundles(b) ==
    LET rs == b.manifest.records
    IN  {[b EXCEPT !.manifest.records = RemoveAt(rs, i)] : i \in DOMAIN rs}
        \cup (UNION {{[b EXCEPT !.manifest.records[i] = d] : d \in Damaged(rs[i])} : i \in DOMAIN rs})
        \cup {[b EXCEPT !.manifestHash = <<"sha256">>],
              [b EXCEPT !.nodeSig = signRoot("node", <<"sha256">>)],
              [b EXCEPT !.nodePubkey = "another node"]}

DamageBundle ==
    /\ damage < MaxDamage
    /\ damage' = damage + 1
    /\ \E b \in bundles : \E d \in DamagedBundles(b) \ {b} :
         bundles' = bundles \cup {[d EXCEPT !.touched = TRUE]}
    /\ UNCHANGED <<sealingKey, hqKey, answerRows, committed, shown>>

\* The rows still SEALED leave, marked by their leaf hashes.
Export ==
    LET out == {r \in answerRows : r.sync = "SEALED"}
        leaves == {r.leaf : r \in out}
    IN  /\ out # {}
        /\ bundles' = bundles \cup {SyncBundle(Ordered(out))}
        /\ answerRows' = {IF r.leaf \in leaves THEN [r EXCEPT !.sync = "SYNCED"] ELSE r : r \in answerRows}
        /\ UNCHANGED <<sealingKey, hqKey, committed, damage, shown>>

\* A bundle is pasted: the portal needs its key to look at it.
Ingest(b) ==
    /\ hqKey # NoKey
    /\ shown' = Verdict(b, hqKey)
    /\ UNCHANGED <<sealingKey, hqKey, answerRows, committed, bundles, damage>>

VaultNext ==
    \/ \E k \in Keys \cup {NoKey} : ConfigureEdge(k) \/ ConfigurePortal(k)
    \/ Submit \/ DamageRow \/ Export \/ DamageBundle
    \/ \E b \in bundles : Ingest(b)

VaultSpec == VaultInit /\ [][VaultNext]_vaultVars

-----------------------------------------------------------------------------
(* Properties. *)

\* A bundle that arrives as the Edge signed it, and whose rows are what the Edge inserted,
\* each after the one before it and the first at genesis.
Genuine(b) ==
    LET rs == b.manifest.records
    IN  /\ ~b.touched
        /\ \A i \in DOMAIN rs :
             /\ Content(rs[i]) \in committed
             /\ rs[i].prevRoot = IF i = 1 THEN GENESIS ELSE rs[i - 1].root

\* "Verify-then-decrypt, fail-closed" (vault/page.tsx 74-76), and no more than that: a
\* bundle is opened exactly if it is genuine and all of it is sealed to the key in use.
\* Then the records appear as they were sealed and in their order, under the root the Edge
\* computed last; both vaults agree on all of it (sysadmin-vault-compat.test.ts 4-10).
VaultsOpenWhatWasSealed ==
    shown # Nothing =>
        LET rs == shown.of.manifest.records
        IN  /\ shown.portal.ok <=>
                 Genuine(shown.of) /\ \A i \in DOMAIN rs : rs[i].envelope.key = shown.key
            /\ shown.portal.ok <=> shown.reference.ok
            /\ shown.portal.ok => /\ shown.portal = shown.reference
                                  /\ \A i \in DOMAIN rs : leafOf(sealRecord(Displayed[i], shown.key))
                                                            = shown.portal.answerRoot[i]
                                  /\ Len(shown.portal.answerRoot) = shown.portal.count

-----------------------------------------------------------------------------
(* The inductive invariant behind VaultsOpenWhatWasSealed: damage is never   *)
(* undone, so that a bundle that was touched differs for ever from what its  *)
(* hash and its signature are of, and a row that was from what was inserted. *)

Envelopes == [record : Nat, key : Keys, sound : BOOLEAN]

VaultRoots == Seq(Seq(Envelopes))

Contents == [leaf : Seq(Envelopes), prevRoot : VaultRoots, root : VaultRoots, envelope : Envelopes]

VaultRows == [index : Nat, leaf : Seq(Envelopes), prevRoot : VaultRoots, root : VaultRoots,
              envelope : Envelopes, sync : {"SEALED", "SYNCED"}]

Manifests == [count : Nat, records : Seq(VaultRows)]

ManifestHashes == {<<"sha256">>} \cup ({"sha256"} \X Manifests)

SyncBundles == [manifest : Manifests, manifestHash : ManifestHashes,
                nodeSig : [by : {"node"}, over : ManifestHashes],
                nodePubkey : {"node", "another node"}, touched : BOOLEAN]

\* What was inserted commits to its own envelope.
SealedWhole(c) ==
    /\ c.leaf = leafOf(c.envelope) /\ c.envelope.sound
    /\ c.root = nextRoot(c.prevRoot, c.leaf)

\* A row is what was inserted but for what hashes to nothing, under any envelope.
WrittenAs(r, c) ==
    /\ r.leaf \in {c.leaf, JunkLeaf}
    /\ r.prevRoot \in {c.prevRoot, JunkRoot}
    /\ r.root \in {c.root, JunkRoot}

WasWritten(r) == \E c \in committed : WrittenAs(r, c)

\* A field of r is damaged that is not in s.
Marked(r, s) ==
    \/ r.index = 2 * MaxRecords /\ s.index # 2 * MaxRecords
    \/ r.leaf = JunkLeaf /\ s.leaf # JunkLeaf
    \/ r.prevRoot = JunkRoot /\ s.prevRoot # JunkRoot
    \/ r.root = JunkRoot /\ s.root # JunkRoot
    \/ ~r.envelope.sound /\ s.envelope.sound

\* Records m are what is left of n: some are gone, or one is damaged.
Unlike(m, n) ==
    /\ Len(m) <= Len(n)
    /\ Len(m) = Len(n) => \E i \in DOMAIN m : Marked(m[i], n[i])

\* Hash, signature or key do not fit the manifest, nor one another.
Betrays(b) ==
    \/ b.manifestHash = <<"sha256">>
    \/ b.nodeSig.over = <<"sha256">>
    \/ b.nodePubkey = "another node"
    \/ b.manifestHash # <<"sha256">> /\ Unlike(b.manifest.records, b.manifestHash[2].records)

Exported(b) ==
    LET rs == b.manifest.records
    IN  /\ b = SyncBundle(rs)
        /\ rs # <<>>
        /\ \A i \in DOMAIN rs : WasWritten(rs[i])
        /\ \A i, j \in DOMAIN rs : i < j => rs[i].index < rs[j].index

VaultInv ==
    /\ VaultTypeOK
    /\ IsFiniteSet(answerRows) /\ IsFiniteSet(committed)
    /\ committed \subseteq Contents /\ answerRows \subseteq VaultRows /\ bundles \subseteq SyncBundles
    /\ \A c \in committed : SealedWhole(c)
    /\ \A r \in answerRows : WasWritten(r)
    /\ \A b \in bundles : IF b.touched THEN Betrays(b) ELSE Exported(b)
    /\ shown # Nothing => \E b \in bundles, k \in Keys : shown = Verdict(b, k)
=============================================================================
