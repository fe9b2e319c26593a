--------------------------------- MODULE Vault ---------------------------------
(***************************************************************************)
(* The key vault of the wallet service (wallet/src/vault.ts), with the     *)
(* requests that use it: creating an account, reading a key to sign with   *)
(* and listing the public keys.                                            *)
(*                                                                         *)
(* There is one VaultService: vaultData is shared by every request that is *)
(* between two awaits, and each of them first replaces it by what it read  *)
(* from the file.  writeFile empties the file when it opens it and writes  *)
(* from its beginning, in one piece as long as the vault is below 512 KiB. *)
(* An empty file, or a shorter text over a longer one, is no valid JSON.   *)
(* What a key decrypts to does not matter here, and a key is named by its  *)
(* public key.                                                             *)
(***************************************************************************)
EXTENDS FiniteSets

CONSTANTS
    Key,            \* public keys accounts are created for, one request each
    Reader          \* requests that read a key to sign with, or list the keys

VARIABLES
    vaultFile,      \* external: what is on the disk
    vaultData,      \* this.vaultData
    vaultPc,        \* where each request is
    vaultBuffer,    \* what each request read, or is writing
    mixed,          \* external: writes that had the file open together with others
    cut,            \* observation only: a write failed or was cut short by a crash;
                    \* it and mixed start anew with a write that was alone
    managed,        \* observation only: keys reported as stored
    disturbed       \* observation only: keys whose storing overlapped something

vaultVars == <<vaultFile, vaultData, vaultPc, vaultBuffer, mixed, cut, managed, disturbed>>

VaultRequest == Key \cup Reader
TornFile == [valid |-> FALSE, keys |-> {}]
FileHolding(keys) == [valid |-> TRUE, keys |-> keys]

\* A missing file reads as an empty vault.
VaultInit ==
    /\ vaultFile = FileHolding({}) /\ vaultData = {}
    /\ vaultPc = [r \in VaultRequest |-> "new"]
    /\ vaultBuffer = [r \in VaultRequest |-> {}]
    /\ mixed = {} /\ cut = FALSE
    /\ managed = {} /\ disturbed = {}

AtRest == {"new", "stored", "created", "unfunded", "read", "failed"}
AtWork(r) == vaultPc[r] \notin AtRest
VaultGoto(r, place) == vaultPc' = [vaultPc EXCEPT ![r] = place]
Writing == {k \in Key : vaultPc[k] = "writing"}

Disturbs(r) ==
    disturbed' = disturbed
        \cup {k \in Key : k # r /\ AtWork(k)}
        \cup {k \in {r} \cap Key : \E s \in VaultRequest \ {r} : AtWork(s)}

\* Faulty variant: a file that cannot be parsed reads as an empty vault.
ReadVaultLenient(r) ==
    /\ vaultPc[r] = "new"
    /\ VaultGoto(r, "parsed")
    /\ vaultBuffer' = [vaultBuffer EXCEPT ![r] = vaultFile.keys]
    /\ Disturbs(r)
    /\ UNCHANGED <<vaultFile, vaultData, mixed, cut, managed>>

\* loadVault: readFile and JSON.parse.  An error ends the request.
ReadVault(r) ==
    /\ vaultPc[r] = "new"
    /\ \/ /\ vaultFile.valid
          /\ VaultGoto(r, "parsed")
          /\ vaultBuffer' = [vaultBuffer EXCEPT ![r] = vaultFile.keys]
       \/ VaultGoto(r, "failed") /\ UNCHANGED vaultBuffer
    /\ Disturbs(r)
    /\ UNCHANGED <<vaultFile, vaultData, mixed, cut, managed>>

\* loadVault assigns vaultData.  getKey and listPublicKeys look into it at
\* once; storeKey derives the encryption key first.
AssignVaultData(r) ==
    /\ vaultPc[r] = "parsed"
    /\ vaultData' = vaultBuffer[r]
    /\ vaultBuffer' = [vaultBuffer EXCEPT ![r] = {}]
    /\ VaultGoto(r, IF r \in Key THEN "deriving" ELSE "read")
    /\ UNCHANGED <<vaultFile, mixed, cut, managed, disturbed>>

\* storeKey adds the encrypted key; saveVault awaits mkdir.
AddEntry(k) ==
    /\ vaultPc[k] = "deriving"
    /\ vaultData' = vaultData \cup {k}
    /\ VaultGoto(k, "saving")
    /\ UNCHANGED <<vaultFile, vaultBuffer, mixed, cut, managed, disturbed>>

\* saveVault: what vaultData is now will be written.
Serialise(k) ==
    /\ vaultPc[k] = "saving"
    /\ vaultBuffer' = [vaultBuffer EXCEPT ![k] = vaultData]
    /\ VaultGoto(k, "opening")
    /\ UNCHANGED <<vaultFile, vaultData, mixed, cut, managed, disturbed>>

\* writeFile empties the file.
OpenFile(k) ==
    /\ vaultPc[k] = "opening"
    /\ vaultFile' = TornFile
    /\ mixed' = IF Writing = {} THEN mixed ELSE mixed \cup Writing \cup {k}
    /\ VaultGoto(k, "writing")
    /\ UNCHANGED <<vaultData, vaultBuffer, cut, managed, disturbed>>

\* What was written by others meanwhile may be longer, and its end remains.
WriteFile(k) ==
    /\ vaultPc[k] = "writing"
    /\ vaultFile' \in {FileHolding(vaultBuffer[k])} \cup
                      (IF k \in mixed THEN {TornFile} ELSE {})
    /\ IF k \in mixed THEN UNCHANGED <<mixed, cut>> ELSE mixed' = {} /\ cut' = FALSE
    /\ vaultBuffer' = [vaultBuffer EXCEPT ![k] = {}]
    /\ VaultGoto(k, "stored")
    /\ managed' = managed \cup {k}
    /\ UNCHANGED <<vaultData, disturbed>>

\* pbkdf2, mkdir, the opening or the writing fails, and storeKey with it.  The
\* entry stays in vaultData, and what was half written stays in the file.
StoreFails(k) ==
    /\ vaultPc[k] \in {"deriving", "saving", "opening", "writing"}
    /\ IF vaultPc[k] = "writing"
       THEN vaultFile' = TornFile /\ cut' = TRUE
       ELSE UNCHANGED <<vaultFile, cut>>
    /\ VaultGoto(k, "failed")
    /\ vaultBuffer' = [vaultBuffer EXCEPT ![k] = {}]
    /\ UNCHANGED <<vaultData, mixed, managed, disturbed>>

\* createAccount goes on to fund the account; if that fails it throws, and the
\* key stays in the vault.
Fund(k) ==
    /\ vaultPc[k] = "stored"
    /\ VaultGoto(k, "created") \/ VaultGoto(k, "unfunded")
    /\ UNCHANGED <<vaultFile, vaultData, vaultBuffer, mixed, cut, managed, disturbed>>

\* The process dies and starts again.  A write that was going on may have emptied
\* the file, reached it or left a part, which nothing repairs.
VaultCrash ==
    /\ LET saving == {k \in Key : vaultPc[k] \in {"opening", "writing"}}
       IN  /\ cut' = (cut \/ saving # {})
           /\ \/ UNCHANGED vaultFile
              \/ \E k \in saving : vaultFile' \in {TornFile, FileHolding(vaultBuffer[k])}
    /\ vaultData' = {}
    /\ vaultPc' = [r \in VaultRequest |->
                      IF AtWork(r) \/ vaultPc[r] = "stored" THEN "failed" ELSE vaultPc[r]]
    /\ vaultBuffer' = [r \in VaultRequest |-> {}]
    /\ UNCHANGED <<mixed, managed, disturbed>>

VaultNext ==
    \/ \E r \in VaultRequest : ReadVault(r) \/ AssignVaultData(r)
    \/ \E k \in Key :
        \/ AddEntry(k) \/ Serialise(k) \/ OpenFile(k) \/ WriteFile(k)
        \/ StoreFails(k) \/ Fund(k)
    \/ VaultCrash

\* What the file holds, or will when the writes going on have ended.
FileOutcomes ==
    (IF vaultFile.valid THEN {vaultFile.keys} ELSE {})
    \cup {vaultBuffer[k] : k \in {j \in Key : vaultPc[j] \in {"opening", "writing"}}}

\* A key that was stored while no other request was at work is in whatever the file
\* holds as long as the file can be read, in what will be written next, and in what a
\* reader finds.  (One whose storing overlapped even a read may be missing: storeKey,
\* loadVault.)
UndisturbedKeysKept ==
    LET safe == managed \ disturbed
    IN  /\ \A keys \in FileOutcomes : safe \subseteq keys
        /\ \A r \in Reader : vaultPc[r] = "parsed" => safe \subseteq vaultBuffer[r]

\* The file can be read, or somebody writes it.  After writes that overlapped, or one
\* that failed or that a crash cut short, it may not be, and then every key is lost.
FileReadable == vaultFile.valid \/ Writing # {} \/ mixed # {} \/ cut
================================================================================
