------------------------------ MODULE KeyVersions ------------------------------
(***************************************************************************)
(* Encryption of wallet seeds under versions of the master key, and the    *)
(* rotation of that key (wallet/src/vault.ts).                             *)
(*                                                                         *)
(* The secrets and the active version are environment variables, so they   *)
(* change when the service is restarted with other ones.  A secret is      *)
(* named, and what is encrypted under one secret opens with no other.      *)
(***************************************************************************)
EXTENDS Integers, Sequences

CONSTANTS
    SeedWallet,     \* wallets whose seeds are encrypted
    Version,        \* key versions, "v1" among them
    Secret,         \* values of the variables WALLET_MASTER_SECRET_<version>
    BaseSecret,     \* the value of WALLET_MASTER_SECRET
    Unset           \* a variable that is not set, a seed not encrypted yet

VARIABLES
    activeVersion,  \* WALLET_ACTIVE_KEY_VERSION
    ownSecret,      \* WALLET_MASTER_SECRET_<version>
    seed,           \* the EncryptedSeedPhrase kept for each wallet
    versionRows,    \* the rows of the SigningKeyVersionStore
    misused         \* observation only: versions that had no secret of their own
                    \* when they were used, or whose secret changed afterwards

keyVersionVars == <<activeVersion, ownSecret, seed, versionRows, misused>>

KeyVersionsInit ==
    /\ activeVersion = "v1"
    /\ ownSecret = [v \in Version |-> Unset]
    /\ seed = [w \in SeedWallet |-> Unset]
    /\ versionRows = <<>> /\ misused = {}

UsedVersions == {seed[w].keyVersion : w \in {u \in SeedWallet : seed[u] # Unset}}

\* Faulty variant: only the active version falls back to the common secret.
MasterKeyForActiveOnly(version) ==
    IF ownSecret[version] # Unset THEN ownSecret[version]
    ELSE IF version = activeVersion THEN BaseSecret
    ELSE Unset

\* getMasterKeyForVersion; Unset stands for its error.
MasterKeyForVersion(version) ==
    IF ownSecret[version] # Unset THEN ownSecret[version]
    ELSE IF version \in {activeVersion, "v1"} THEN BaseSecret
    ELSE Unset

\* encryptAndRecordSeedPhrase, for the version asked for or the active one.  A
\* version without a key is an error and nothing is recorded.
EncryptAndRecordSeedPhrase(wallet, version) ==
    LET key == MasterKeyForVersion(version)
    IN  /\ seed[wallet] = Unset
        /\ key # Unset
        /\ seed' = [seed EXCEPT ![wallet] = [keyVersion |-> version, under |-> key]]
        /\ versionRows' = Append(versionRows, [walletId |-> wallet, keyVersion |-> version])
        /\ misused' = IF key = BaseSecret /\ version # "v1"
                      THEN misused \cup {version} ELSE misused
        /\ UNCHANGED <<activeVersion, ownSecret>>

\* decryptSeedPhrase fails when the version has no key, or another one.
Decrypts(encrypted) == MasterKeyForVersion(encrypted.keyVersion) = encrypted.under

\* listSigningKeyVersions: the places of the rows of this wallet, in their order.
SigningKeyVersions(wallet) == {i \in DOMAIN versionRows : versionRows[i].walletId = wallet}

\* The service is restarted with another active version, or with a secret for
\* one version: the steps of a rotation, in any order.
ActivateVersion(version) ==
    /\ activeVersion' = version
    /\ UNCHANGED <<ownSecret, seed, versionRows, misused>>

SetSecret(version, secret) ==
    /\ ownSecret' = [ownSecret EXCEPT ![version] = secret]
    /\ misused' = IF version \in UsedVersions THEN misused \cup {version} ELSE misused
    /\ UNCHANGED <<activeVersion, seed, versionRows>>

KeyVersionsNext ==
    \E version \in Version :
        \/ \E wallet \in SeedWallet : EncryptAndRecordSeedPhrase(wallet, version)
        \/ ActivateVersion(version)
        \/ \E secret \in Secret : SetSecret(version, secret)

\* Whatever the order of rotations, a seed opens as long as its version had a
\* secret of its own before it was used (v1 needs none) and keeps it, and the
\* last audit row of its wallet names that version.
SeedsReadable ==
    \A w \in SeedWallet : seed[w] # Unset =>
        /\ seed[w].keyVersion \notin misused => Decrypts(seed[w])
        /\ LET rows == SigningKeyVersions(w)
           IN  \E last \in rows : /\ \A i \in rows : i <= last
                                  /\ versionRows[last].keyVersion = seed[w].keyVersion
================================================================================
