------------------------------- MODULE PassportSeal -------------------------------
(***************************************************************************)
(* The sealing of passport entries (backend/nextgen/passport_seal.py) and  *)
(* the verification of a stored chain (passport_verify.py), over a store   *)
(* whose entries may be damaged after they were written and keys that are  *)
(* rotated, taken away or replaced.                                        *)
(*                                                                         *)
(* A hash is the content it is taken of and a signature the content with   *)
(* the key's material: both are injective.  Schema versions and receipts   *)
(* are left out.                                                           *)
(***************************************************************************)
EXTENDS Integers, Sequences, FiniteSets, FiniteSetsExt, SequencesExt

CONSTANTS
    KeyVersions,    \* names of keys
    KeyMaterials,   \* what a key may consist of
    Missing,        \* no key, no version
    Limits,         \* how many entries a verification may inspect
    MaxSealed,      \* entries
    MaxDamages,     \* faults of the store
    MaxKeyChanges,  \* Init gives it to keyChangesLeft or withholds it
    MaxVerifies     \* Init gives it to verifiesLeft or withholds it

ASSUME SealAssumption ==
    /\ Missing \notin KeyVersions \cup KeyMaterials
    /\ Limits \subseteq Nat \ {0}
    /\ {MaxSealed, MaxDamages, MaxKeyChanges, MaxVerifies} \subseteq Nat

VARIABLES
    chain,          \* the stored entries by sequence
    head,           \* hash and revision of the passport document
    written,        \* history: the entries as they were appended
    keys,           \* the environment: material of each version, the active one, whether
                    \* sealing is required
    steadyKeys,     \* history: no key that sealed was taken away or replaced
    damages,
    check,          \* the verification under way, and the result of the last one
    keyChangesLeft,
    verifiesLeft

sealVars == <<chain, head, written, keys, steadyKeys, damages, check, keyChangesLeft,
              verifiesLeft>>

----------------------------------------------------------------------------
NoHead == [hash |-> <<>>, revision |-> 0]

\* No key is configured.
UnsetKeys == [of |-> [v \in KeyVersions |-> Missing], active |-> Missing, required |-> FALSE]

NoSeal == [version |-> Missing, key |-> Missing, over |-> <<>>]

NoCheck == [running |-> FALSE, head |-> NoHead, overtaken |-> FALSE, result |-> "none",
            read |-> <<>>]

\* The body that _recompute_content_hash takes the hash of.
ContentHash(e) == <<e.seq, e.payload, e.prior>>

\* Mutant of SealBody: the revision is left out.
ChainedBody(e) == <<ContentHash(e), e.hash>>

SealBody(e) == <<ContentHash(e), e.hash, e.revision>>

KeyFor(version) == keys.of[version]

SealingAvailable == keys.active # Missing /\ keys.of[keys.active] # Missing

SealOf(e) ==
    IF SealingAvailable
    THEN [version |-> keys.active, key |-> keys.of[keys.active], over |-> SealBody(e)]
    ELSE NoSeal

----------------------------------------------------------------------------
SealInit ==
    /\ chain = <<>> /\ head = NoHead /\ written = <<>>
    /\ keys \in [of : [KeyVersions -> KeyMaterials \cup {Missing}],
                 active : KeyVersions \cup {Missing}, required : BOOLEAN]
    /\ steadyKeys = TRUE /\ damages = 0 /\ check = NoCheck

\* append_entry: sealing that is required and not configured refuses it.
\* Damage comes after the last append.
AppendSealed ==
    /\ Len(written) < MaxSealed /\ damages = 0
    /\ keys.required => SealingAvailable
    /\ LET n == head.revision + 1
           body == [seq |-> n, payload |-> "written", prior |-> head.hash, revision |-> n,
                    hash |-> <<>>, seal |-> NoSeal]
           hashed == [body EXCEPT !.hash = ContentHash(body)]
           entry == [hashed EXCEPT !.seal = SealOf(hashed)]
       IN /\ chain' = Append(chain, entry) /\ written' = Append(written, entry)
          /\ head' = [hash |-> entry.hash, revision |-> n]
    /\ check' = [check EXCEPT !.overtaken = @ \/ check.running]
    /\ UNCHANGED <<keys, steadyKeys, damages, keyChangesLeft, verifiesLeft>>

----------------------------------------------------------------------------
(* The environment between two deployments *)

ChangeKeys ==
    /\ keyChangesLeft > 0
    /\ keyChangesLeft' = keyChangesLeft - 1
    /\ \/ \E v \in KeyVersions : keys' = [keys EXCEPT !.active = v] /\ UNCHANGED steadyKeys
       \/ \E v \in KeyVersions, m \in KeyMaterials \cup {Missing} :
             /\ keys' = [keys EXCEPT !.of[v] = m]
             /\ steadyKeys' = (steadyKeys /\ \A i \in DOMAIN written : written[i].seal.version # v)
    /\ UNCHANGED <<chain, head, written, damages, check, verifiesLeft>>

----------------------------------------------------------------------------
(* What may happen to a store: a field is written over, an entry is lost or restored twice, *)
(* the passport document is restored from an earlier day.                                  *)

Damage ==
    /\ damages < MaxDamages
    /\ damages' = damages + 1
    /\ UNCHANGED <<written, keys, steadyKeys, check, keyChangesLeft, verifiesLeft>>

Spoil(i) ==
    /\ Damage
    /\ \/ chain' = [chain EXCEPT ![i].payload = "spoiled"]
       \/ chain' = [chain EXCEPT ![i].revision = @ + 1]
       \/ chain' = [chain EXCEPT ![i].prior = <<>>]
       \/ chain' = [chain EXCEPT ![i].seal = NoSeal]
    /\ chain' # chain
    /\ UNCHANGED head

Lose(i) == Damage /\ chain' = RemoveAt(chain, i) /\ UNCHANGED head

Repeat(i) == Damage /\ chain' = InsertAt(chain, i, chain[i]) /\ UNCHANGED head

RestoreHead ==
    /\ Damage
    /\ \E i \in 1 .. Len(written) - 1 :
          head' = [hash |-> written[i].hash, revision |-> written[i].revision]
    /\ UNCHANGED chain

----------------------------------------------------------------------------
(* verify_passport_chain *)

BeginVerify ==
    /\ verifiesLeft > 0 /\ ~check.running
    /\ verifiesLeft' = verifiesLeft - 1
    /\ check' = [NoCheck EXCEPT !.running = TRUE, !.head = head]
    /\ UNCHANGED <<chain, head, written, keys, steadyKeys, damages, keyChangesLeft>>

\* verify_entry_seal
SealStatus(e) ==
    CASE e.seal = NoSeal -> "LEGACY_UNSEALED"
      [] e.seal # NoSeal /\ KeyFor(e.seal.version) = Missing -> "SEAL_KEY_MISSING"
      [] OTHER -> IF e.seal.key = KeyFor(e.seal.version) /\ e.seal.over = SealBody(e)
                  THEN "SEAL_VALID" ELSE "SEAL_INVALID"

\* The codes of the issues found in the entries that were read, and the mark of legacy ones.
Issues(read, passport) ==
    LET some(code, P(_)) == IF \E i \in DOMAIN read : P(i) THEN {code} ELSE {}
        before(i) == IF i = 1 THEN <<>> ELSE read[i - 1].hash
        seqBefore(i) == IF i = 1 THEN 0 ELSE read[i - 1].seq
        last(i) == i = Len(read)
    IN some("DUPLICATE_SEQUENCE", LAMBDA i : read[i].seq = seqBefore(i))
       \cup some("MISSING_ENTRY", LAMBDA i : read[i].seq > seqBefore(i) + 1)
       \cup some("INVALID_PREVIOUS_HASH", LAMBDA i : read[i].prior # before(i))
       \cup some("INVALID_ENTRY_HASH", LAMBDA i : ContentHash(read[i]) # read[i].hash)
       \cup some("INVALID_SIGNATURE", LAMBDA i : SealStatus(read[i]) = "SEAL_INVALID")
       \cup some("HEAD_MISMATCH", LAMBDA i : last(i)
                     /\ \/ passport.hash \notin {<<>>, read[i].hash}
                        \/ passport.revision # read[i].revision)
       \cup some("INCOMPLETE", LAMBDA i : SealStatus(read[i]) = "SEAL_KEY_MISSING")
       \cup some("VALID_WITH_LEGACY", LAMBDA i : SealStatus(read[i]) = "LEGACY_UNSEALED")

Precedence ==
    <<"DUPLICATE_SEQUENCE", "MISSING_ENTRY", "INVALID_PREVIOUS_HASH", "INVALID_ENTRY_HASH",
      "INVALID_SIGNATURE", "HEAD_MISMATCH", "INCOMPLETE", "VALID_WITH_LEGACY", "VALID">>

Result(read, passport) ==
    Precedence[Min({i \in DOMAIN Precedence :
                      Precedence[i] \in Issues(read, passport) \cup {"VALID"}})]

\* A chain longer than the limit is never said to be valid.
EndVerify(limit) ==
    /\ check.running
    /\ check' = [check EXCEPT !.running = FALSE, !.read = chain,
                   !.result = IF Len(chain) > limit THEN "TRUNCATED"
                              ELSE Result(chain, check.head)]
    /\ UNCHANGED <<chain, head, written, keys, steadyKeys, damages, keyChangesLeft,
                   verifiesLeft>>

SealNext ==
    \/ /\ verifiesLeft > 0
       /\ \/ AppendSealed
          \/ ChangeKeys
          \/ \E i \in DOMAIN chain : Spoil(i) \/ Lose(i) \/ Repeat(i)
          \/ RestoreHead
          \/ BeginVerify
    \/ /\ check.running
       /\ \/ AppendSealed
          \/ \E i \in DOMAIN chain : Lose(i)
          \/ \E limit \in Limits : EndVerify(limit)

SealSpec == SealInit /\ [][SealNext]_sealVars

----------------------------------------------------------------------------
(* Properties *)

\* What verify_passport_chain calls VALID is, entry by entry, what had been written up to the
\* head it read, whatever was damaged and however the keys have changed; a chain that lost
\* all its entries is the exception, for an empty chain is not compared with its head.
ValidIsWhole ==
    check.result = "VALID" /\ check.read # <<>> =>
        check.read = SubSeq(written, 1, check.head.revision)

\* A chain nothing happened to is not called damaged, while the keys that sealed it are kept
\* and no append overtakes the verification, which reads the head before the entries.
WholeIsValid ==
    check.result # "none" /\ damages = 0 /\ steadyKeys /\ ~check.overtaken =>
        check.result \in {"VALID", "VALID_WITH_LEGACY", "TRUNCATED"}

\* The verdict of verify_passport_chain is neither too kind nor too harsh.
VerdictIsTrue == ValidIsWhole /\ WholeIsValid
=============================================================================
