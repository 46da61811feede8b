------------------------------ MODULE KeyFile ------------------------------
(***************************************************************************)
(* The node key file: NodeKeyPair::load_or_create (src/src/crypto.rs), as  *)
(* main runs it on every start.  Several starts may overlap (a restart     *)
(* begins before the old process is gone: the listener is bound only       *)
(* after the key is loaded), a process may die between any two system      *)
(* calls, and a power loss takes away what was not yet synced: the end of  *)
(* the contents until file.sync_all, and the name for as long as nothing   *)
(* has synced its directory, which load_or_create never does.              *)
(***************************************************************************)
EXTENDS Naturals

CONSTANTS
    Process,        \* processes started on the same --private-key
    MaxKeys,        \* bound: keys generated
    MaxLosses       \* bound: power losses

ASSUME KeyConstantsOK == MaxKeys \in Nat /\ MaxLosses \in Nat

KeyId == 1..MaxKeys
NoKey == 0

\* What the path holds: a stage of load_or_create's writing, or a whole key.
Stage == {"absent", "empty", "prefix"}
Content == [stage : Stage, key : {NoKey}] \cup [stage : {"key"}, key : KeyId]
Short(stage) == [stage |-> stage, key |-> NoKey]
Whole(k) == [stage |-> "key", key |-> k]
Rank(c) == CASE c.stage = "absent" -> 0 [] c.stage = "empty" -> 1
             [] c.stage = "prefix" -> 2 [] OTHER -> 3

VARIABLES
    file,       \* what a read of the path returns
    saved,      \* how much of its contents is certain to survive a power loss
    named,      \* whether its name, an entry of its directory, is certain to
    pc, key,    \* the processes; the key a process generated or loaded
    generated,  \* keys generated so far
    losses,     \* power losses so far
    maker,      \* history: the key of the start that created the file that is there
    created     \* history: keys whose creator's load_or_create returned

vars == <<file, saved, named, pc, key, generated, losses, maker, created>>

Writing == {"write", "hex", "sync"}
Control == {"stopped", "create", "failed", "running"} \cup Writing

\* Every variable has its type.
TypeOK ==
    /\ file \in Content /\ saved \in Content /\ named \in BOOLEAN
    /\ pc \in [Process -> Control]
    /\ key \in [Process -> KeyId \cup {NoKey}]
    /\ generated \in 0..MaxKeys
    /\ losses \in 0..MaxLosses
    /\ maker \in KeyId \cup {NoKey} /\ created \in SUBSET KeyId

Init ==
    /\ file = Short("absent") /\ saved = Short("absent") /\ named = FALSE
    /\ pc = [p \in Process |-> "stopped"]
    /\ key = [p \in Process |-> NoKey]
    /\ generated = 0 /\ losses = 0
    /\ maker = NoKey /\ created = {}

-----------------------------------------------------------------------------

Goto(p, label) == pc' = [pc EXCEPT ![p] = label]

\* fs::read_to_string found a file: a whole key is loaded; anything shorter does
\* not decode to 32 bytes, and main returns the error.
Load(p) ==
    /\ pc[p] = "stopped" /\ file.stage # "absent"
    /\ key' = [key EXCEPT ![p] = file.key]
    /\ Goto(p, IF file.stage = "key" THEN "running" ELSE "failed")
    /\ UNCHANGED <<file, saved, named, generated, losses, maker, created>>

\* fs::read_to_string found none.
Generate(p) ==
    /\ pc[p] = "stopped" /\ file.stage = "absent"
    /\ generated < MaxKeys
    /\ generated' = generated + 1
    /\ key' = [key EXCEPT ![p] = generated']
    /\ Goto(p, "create")
    /\ UNCHANGED <<file, saved, named, losses, maker, created>>

\* OpenOptions::create_new: the open fails if another start was faster.
MayCreateOver == TRUE   \* mutant
MayCreate == file.stage = "absent"

Create(p) ==
    /\ pc[p] = "create"
    /\ IF MayCreate
       THEN file' = Short("empty") /\ maker' = key[p] /\ Goto(p, "write")
       ELSE Goto(p, "failed") /\ UNCHANGED <<file, maker>>
    /\ UNCHANGED <<saved, named, key, generated, losses, created>>

\* writeln!(file, "privkey:{}", hex) on an unbuffered File is a write for each
\* piece of the format; the newline at the end makes no difference to a reader.
WritePrefix(p) ==
    /\ pc[p] = "write"
    /\ file' = Short("prefix")
    /\ Goto(p, "hex")
    /\ UNCHANGED <<saved, named, key, generated, losses, maker, created>>

WriteKey(p) ==
    /\ pc[p] = "hex"
    /\ file' = Whole(key[p])
    /\ Goto(p, "sync")
    /\ UNCHANGED <<saved, named, key, generated, losses, maker, created>>

\* file.sync_all: the contents are on disk, the directory that names the file is not
\* synced, nor are those create_dir_all made.
SyncedNothing == saved   \* mutant
Synced == file

Sync(p) ==
    /\ pc[p] = "sync"
    /\ saved' = Synced
    /\ created' = created \cup {key[p]}
    /\ Goto(p, "running")
    /\ UNCHANGED <<file, named, key, generated, losses, maker>>

\* A write or the sync reports an error: what was written stays.
WriteFails(p) ==
    /\ pc[p] \in Writing
    /\ Goto(p, "failed")
    /\ UNCHANGED <<file, saved, named, key, generated, losses, maker, created>>

\* The process ends, by itself or killed at any point.
Stop(p) ==
    /\ pc[p] # "stopped"
    /\ Goto(p, "stopped")
    /\ key' = [key EXCEPT ![p] = NoKey]
    /\ UNCHANGED <<file, saved, named, generated, losses, maker, created>>

\* Every process ends.  The file is gone if its name was not on disk, or its contents
\* fall back to something between saved and file; what is there now is on disk.
Survives(c) ==
    \/ ~named /\ c = Short("absent")
    \/ Rank(saved) <= Rank(c) /\ Rank(c) <= Rank(file)

PowerLoss ==
    /\ losses < MaxLosses
    /\ losses' = losses + 1
    /\ \E c \in {saved, file, Short("absent"), Short("empty"), Short("prefix")} :
          /\ Survives(c)
          /\ file' = c /\ saved' = c
          /\ named' = (c.stage # "absent")
          /\ maker' = IF c.stage = "absent" THEN NoKey ELSE maker
    /\ pc' = [p \in Process |-> "stopped"]
    /\ key' = [p \in Process |-> NoKey]
    /\ UNCHANGED <<generated, created>>

Next ==
    \/ \E p \in Process :
          \/ Load(p) \/ Generate(p) \/ Create(p) \/ WritePrefix(p) \/ WriteKey(p)
          \/ Sync(p) \/ WriteFails(p) \/ Stop(p)
    \/ PowerLoss

Spec == Init /\ [][Next]_vars

-----------------------------------------------------------------------------

\* Every server that runs has the identity in the file, so servers whose starts
\* overlapped have the same one, and so has the next start.
SameIdentity == \A p \in Process : pc[p] = "running" => file = Whole(key[p])

\* A file whose creation returned is never found cut short, through crashes and power
\* losses: as long as it is there, it holds the whole key of the start that made it.
KeptWhole == maker \in created => file = Whole(maker)

\* The servers on one key file see a single identity.  It is chosen only when there is
\* none, and lost only by a power loss, which ends every server; one that it leaves stays
\* for good.
Promise == INSTANCE Identity WITH
               identity <- IF file.stage = "key" THEN file.key ELSE NoKey,
               kept <- named /\ file.stage = "key",
               serving <- {p \in Process : pc[p] = "running"}
KeepsPromise == Promise!IdentitySpec

\* The file is created atomically: no start finds a file that is there but is not
\* a key.
CreatedAtomically == \A p \in Process : pc[p] = "failed" => key[p] # NoKey
=============================================================================
