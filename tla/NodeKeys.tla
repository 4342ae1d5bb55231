------------------------------- MODULE NodeKeys -------------------------------
(***************************************************************************)
(* The keys of one data directory, and the processes that start on it: the *)
(* commands `start` and `send-message` (cli/index.ts), which may run at    *)
(* the same time, each with a connection of its own to the database.       *)
(*                                                                         *)
(* node_keys has the key that is the peer id, encryption_keys the one      *)
(* messages are encrypted with.  Each is read, generated if there is none, *)
(* and saved, with an await between.  Keys are numbered as they are        *)
(* generated.                                                              *)
(***************************************************************************)
EXTENDS Naturals, Sequences, Functions

CONSTANTS
    Processes,
    MaxGenerated    \* bound: keys generated

ASSUME GeneratedAssumption == MaxGenerated \in Nat

None == 0
GeneratedKeys == 1..MaxGenerated

VARIABLES
    nodeKeys,       \* table node_keys in the order of its ids
    encryptionKey,  \* the row of encryption_keys, None if there is none
    command,        \* the command a process runs
    progress,       \* how far its start is
    nodeKey,        \* the private key it runs under
    encryptionPair, \* encryptionKeyPair of its node
    generated,      \* number of keys so far
    overlap         \* ghost: two starts generated keys for the same table
                    \*    at once

identityVars == <<nodeKeys, encryptionKey, command, progress, nodeKey,
                  encryptionPair, generated, overlap>>

Progress == {"off",
             "generating",  \* getOrCreateNodeKey awaits generateKeyPair
             "creating",    \* awaiting createLibp2p, and then the identity
             "encrypting",  \* init awaits generateEphemeralKeyPair
             "ready",       \* init awaits the event it emits
             "up"}

IdentityTypeOK ==
    /\ nodeKeys \in Seq(GeneratedKeys)
    /\ encryptionKey \in GeneratedKeys \cup {None}
    /\ command \in [Processes -> {"start", "send-message"}]
    /\ progress \in [Processes -> Progress]
    /\ nodeKey \in [Processes -> GeneratedKeys \cup {None}]
    /\ encryptionPair \in [Processes -> GeneratedKeys \cup {None}]
    /\ generated \in 0..MaxGenerated
    /\ overlap \in BOOLEAN

IdentityInit ==
    /\ nodeKeys = <<>> /\ encryptionKey = None
    /\ command = [p \in Processes |-> "start"]
    /\ progress = [p \in Processes |-> "off"]
    /\ nodeKey = [p \in Processes |-> None]
    /\ encryptionPair = [p \in Processes |-> None]
    /\ generated = 0
    /\ overlap = FALSE

-----------------------------------------------------------------------------
(* node_keys without its row number i.                                     *)
Without(i) ==
    [j \in 1..Len(nodeKeys) - 1 |-> nodeKeys[IF j < i THEN j ELSE j + 1]]

(* saveNodeKey: INSERT OR REPLACE.  public_key is unique and the id is     *)
(* assigned anew, so a key that has a row moves behind all others.         *)
WithNodeKey(k) ==
    IF k \in Range(nodeKeys)
    THEN Append(Without(CHOOSE i \in 1..Len(nodeKeys) : nodeKeys[i] = k), k)
    ELSE Append(nodeKeys, k)

(* getCurrentNodeKey: the row with the lowest id.                          *)
CurrentNodeKey == IF nodeKeys = <<>> THEN None ELSE Head(nodeKeys)

(* p goes on to generate a key at stage s.                                 *)
Generates(p, s) ==
    /\ progress' = [progress EXCEPT ![p] = s]
    /\ overlap' = (overlap \/ \E q \in Processes : progress[q] = s)

(* The command begins: getOrCreateNodeKey reads the table.                 *)
Begin(p, c) ==
    /\ progress[p] = "off"
    /\ command' = [command EXCEPT ![p] = c]
    /\ \/ /\ CurrentNodeKey # None
          /\ nodeKey' = [nodeKey EXCEPT ![p] = CurrentNodeKey]
          /\ progress' = [progress EXCEPT ![p] = "creating"]
          /\ UNCHANGED overlap
       \/ /\ CurrentNodeKey = None
          /\ Generates(p, "generating")
          /\ UNCHANGED nodeKey
    /\ UNCHANGED <<nodeKeys, encryptionKey, encryptionPair, generated>>

(* The key pair is there, and saved.                                       *)
SaveNodeKey(p) ==
    /\ progress[p] = "generating"
    /\ generated < MaxGenerated
    /\ generated' = generated + 1
    /\ nodeKeys' = WithNodeKey(generated + 1)
    /\ nodeKey' = [nodeKey EXCEPT ![p] = generated + 1]
    /\ progress' = [progress EXCEPT ![p] = "creating"]
    /\ UNCHANGED <<encryptionKey, command, encryptionPair, overlap>>

(* YapYapNode.init reads encryption_keys.                                  *)
ReadEncryptionKey(p) ==
    /\ progress[p] = "creating"
    /\ \/ /\ encryptionKey # None
          /\ encryptionPair' = [encryptionPair EXCEPT ![p] = encryptionKey]
          /\ progress' = [progress EXCEPT ![p] = "ready"]
          /\ UNCHANGED overlap
       \/ /\ encryptionKey = None
          /\ Generates(p, "encrypting")
          /\ UNCHANGED encryptionPair
    /\ UNCHANGED <<nodeKeys, encryptionKey, command, nodeKey, generated>>

(* saveEncryptionKey: the one row is overwritten.                          *)
SaveEncryptionKey(p) ==
    /\ progress[p] = "encrypting"
    /\ generated < MaxGenerated
    /\ generated' = generated + 1
    /\ encryptionKey' = generated + 1
    /\ encryptionPair' = [encryptionPair EXCEPT ![p] = generated + 1]
    /\ progress' = [progress EXCEPT ![p] = "ready"]
    /\ UNCHANGED <<nodeKeys, command, nodeKey, overlap>>

(* Mutant: `start` saves the key of its encryption. *)
SavedAgainEncryption(p) == WithNodeKey(encryptionPair[p])

(* What `start` makes of node_keys once its node is initialised: it saves  *)
(* its key again.                                                          *)
SavedAgain(p) == WithNodeKey(nodeKey[p])

Initialised(p) ==
    /\ progress[p] = "ready"
    /\ progress' = [progress EXCEPT ![p] = "up"]
    /\ nodeKeys' = IF command[p] = "start" THEN SavedAgain(p) ELSE nodeKeys
    /\ UNCHANGED <<encryptionKey, command, nodeKey, encryptionPair, generated,
                   overlap>>

(* The process ends, done, failed or killed.                               *)
Exit(p) ==
    /\ progress[p] # "off"
    /\ progress' = [progress EXCEPT ![p] = "off"]
    /\ nodeKey' = [nodeKey EXCEPT ![p] = None]
    /\ encryptionPair' = [encryptionPair EXCEPT ![p] = None]
    /\ UNCHANGED <<nodeKeys, encryptionKey, command, generated, overlap>>

IdentityNext ==
    \E p \in Processes :
        \/ \E c \in {"start", "send-message"} : Begin(p, c)
        \/ SaveNodeKey(p) \/ ReadEncryptionKey(p) \/ SaveEncryptionKey(p)
        \/ Initialised(p) \/ Exit(p)

IdentitySpec == IdentityInit /\ [][IdentityNext]_identityVars

-----------------------------------------------------------------------------
(* A data directory has one identity: every process on it runs under the   *)
(* key each later one will read, and encrypts with the key that is stored, *)
(* whenever its start was broken off and begun anew, unless two starts     *)
(* once generated a key for it at the same time (cli/index.ts:510).  Even  *)
(* then no process runs under a key that is not in the table.              *)
OneIdentity ==
    \A p \in Processes :
        /\ nodeKey[p] # None => nodeKey[p] \in Range(nodeKeys)
        /\ ~overlap =>
            /\ nodeKey[p] \in {None, CurrentNodeKey}
            /\ encryptionPair[p] \in {None, encryptionKey}
            /\ Len(nodeKeys) <= 1

=============================================================================
