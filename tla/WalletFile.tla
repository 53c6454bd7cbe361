----------------------------- MODULE WalletFile -----------------------------
(***************************************************************************)
(* The life cycle of the wallet's database file: CreateNew, OpenExisting   *)
(* and Close of wallet.go with keystore.Open and ValidateExisting, run by  *)
(* processes that share one path (the GUI, started more than once, and the *)
(* command line).  A process may die between any two steps, each write may *)
(* fail (a refill that fails is only a warning), and the user may move a   *)
(* file aside and put it back.                                             *)
(*                                                                         *)
(* bbolt and the operating system are external: a file has one lock, held  *)
(* by one writer or by readers, that goes away with its process.           *)
(***************************************************************************)
EXTENDS Naturals, Sequences

CONSTANTS
    Process,   \* running programs that use the path
    Seed,      \* master seeds
    File,      \* the files that can be created: a bound
    NoFile, NoSeed,
    PoolSize,  \* addresses that are kept FRESH (PreGenPoolSize)
    MaxUsed    \* bound on the addresses of a file that leave FRESH

ASSUME FileAssumption ==
    /\ NoFile \notin File
    /\ NoSeed \notin Seed
    /\ PoolSize \in Nat \ {0}
    /\ MaxUsed \in Nat

VARIABLES
    path,     \* the file that the wallet's path names, or NoFile
    aside,    \* files the user has moved away and kept
    file,     \* per file: how far it was set up, and its records
    call,     \* per process: its call under way, or the wallet it has open
    created,  \* history: files that CreateNew has returned as wallets
    late      \* history: a creation failed after it had stored an address

fileVars == <<path, aside, file, call, created, late>>

-----------------------------------------------------------------------------
(* Types *)

\* "unused": not created yet. "empty": no byte written. "formatted": bbolt's
\* pages. "ready": buckets and schema version. A record is the seed that
\* encrypted it, at the place of its index; the first used ones left FRESH.
Stage == {"unused", "empty", "formatted", "ready"}
Content == [stage : Stage, records : Seq(Seed), used : Nat]

\* "refill" is fillPool after a credit, by the holder of an open wallet.
Step == {"idle", "begin", "claimed", "open", "lock", "schema", "fill",
         "remove", "validate", "share", "check", "refill"}
Call == [pc : Step, kind : {"none", "create", "open"}, seed : Seed \cup {NoSeed},
         file : File \cup {NoFile}, lock : {"none", "shared", "exclusive"}]

NoCall == [pc |-> "idle", kind |-> "none", seed |-> NoSeed, file |-> NoFile,
           lock |-> "none"]

FileTypeOK ==
    /\ path \in File \cup {NoFile}
    /\ aside \in SUBSET File
    /\ file \in [File -> Content]
    /\ call \in [Process -> Call]
    /\ created \in SUBSET File
    /\ late \in BOOLEAN

FileInit ==
    /\ path = NoFile
    /\ aside = {}
    /\ file = [f \in File |-> [stage |-> "unused", records |-> <<>>, used |-> 0]]
    /\ call = [p \in Process |-> NoCall]
    /\ created = {}
    /\ late = FALSE

-----------------------------------------------------------------------------
(* Helpers *)

Unused == {f \in File : file[f].stage = "unused"}
Locked(f, mode) == \E q \in Process : call[q].file = f /\ call[q].lock \in mode

\* The process has a wallet open: a *Wallet that Close has not been called on.
HasWallet(p) == call[p].pc \in {"idle", "refill"} /\ call[p].file # NoFile

\* The seed whose key decrypts the first record, which ValidateExisting tries.
Owner(f) == IF file[f].records = <<>> THEN NoSeed ELSE file[f].records[1]

\* Mutant: openWallet returns without closing the database.
Fail_NotClosed(p) ==
    call' = [call EXCEPT ![p] = IF @.kind = "create" THEN [@ EXCEPT !.pc = "remove"] ELSE NoCall]

\* keystore.Open or fillPool fails. The database is closed; CreateNew goes on
\* to remove what it created, OpenExisting returns its error.
Fail(p) ==
    call' = [call EXCEPT ![p] =
        IF @.kind = "create" THEN [@ EXCEPT !.pc = "remove", !.file = NoFile, !.lock = "none"]
                             ELSE NoCall]

\* A call returns an error and leaves its process without a wallet.
Refuse(p) == call' = [call EXCEPT ![p] = NoCall]

-----------------------------------------------------------------------------
(* The programs: both call CreateNew or OpenExisting from a menu. The GUI   *)
(* closes the wallet it has before it knows whether the next can be opened. *)

\* Mutant: the old wallet is still open while the next one is loaded.
LoadWallet_KeepOpen(p, kind, s) ==
    /\ call[p].pc = "idle"
    /\ call' = [call EXCEPT ![p] = [@ EXCEPT !.pc = "begin", !.kind = kind, !.seed = s]]
    /\ UNCHANGED <<path, aside, file, created, late>>

LoadWallet(p, kind, s) ==
    /\ call[p].pc = "idle"
    /\ call' = [call EXCEPT ![p] = [NoCall EXCEPT !.pc = "begin", !.kind = kind, !.seed = s]]
    /\ UNCHANGED <<path, aside, file, created, late>>

Close(p) ==
    /\ HasWallet(p) /\ call[p].pc = "idle"
    /\ call' = [call EXCEPT ![p] = NoCall]
    /\ UNCHANGED <<path, aside, file, created, late>>

-----------------------------------------------------------------------------
(* CreateNew *)

\* Mutant: the file is opened without O_EXCL.
CreateNew_NotExclusive(p) ==
    /\ call[p].pc = "begin" /\ call[p].kind = "create"
    /\ \E f \in Unused \cup {path} :
           /\ f # NoFile
           /\ path # NoFile => f = path
           /\ path' = f
           /\ file' = [file EXCEPT ![f].stage = IF @ = "unused" THEN "empty" ELSE @]
           /\ call' = [call EXCEPT ![p].pc = "claimed"]
    /\ UNCHANGED <<aside, created, late>>

\* The claim: O_EXCL makes the path this call's, or refuses.
CreateNew(p) ==
    /\ call[p].pc = "begin" /\ call[p].kind = "create"
    /\ \/ /\ path = NoFile
          /\ \E f \in Unused :
                 /\ path' = f
                 /\ file' = [file EXCEPT ![f].stage = "empty"]
          /\ call' = [call EXCEPT ![p].pc = "claimed"]
       \/ Refuse(p) /\ UNCHANGED <<path, file>>
    /\ UNCHANGED <<aside, created, late>>

CloseClaim(p) ==
    /\ call[p].pc = "claimed"
    /\ \E next \in {"open", "remove"} : call' = [call EXCEPT ![p].pc = next]
    /\ UNCHANGED <<path, aside, file, created, late>>

\* os.Remove(dbPath) removes whatever the path names by now.
RemoveCreated(p) ==
    /\ call[p].pc = "remove"
    /\ path' = NoFile
    /\ Refuse(p)
    /\ UNCHANGED <<aside, file, created, late>>

-----------------------------------------------------------------------------
(* OpenExisting *)

OpenExisting(p) ==
    /\ call[p].pc = "begin" /\ call[p].kind = "open"
    /\ \/ /\ path # NoFile
          /\ file[path].stage # "empty"
          /\ call' = [call EXCEPT ![p].pc = "validate"]
       \/ Refuse(p)
    /\ UNCHANGED <<path, aside, file, created, late>>

\* ValidateExisting: bolt.Open with ReadOnly binds the file, then waits.
OpenReadOnly(p) ==
    /\ call[p].pc = "validate"
    /\ \/ /\ path # NoFile
          /\ call' = [call EXCEPT ![p].pc = "share", ![p].file = path]
       \/ Refuse(p)
    /\ UNCHANGED <<path, aside, file, created, late>>

LockShared(p) ==
    /\ call[p].pc = "share"
    /\ ~Locked(call[p].file, {"exclusive"})
    /\ call' = [call EXCEPT ![p].pc = "check", ![p].lock = "shared"]
    /\ UNCHANGED <<path, aside, file, created, late>>

\* Mutant: a record that does not decrypt is not an error.
ValidateExisting_AnySeed(p) ==
    /\ call[p].pc = "check"
    /\ \/ /\ file[call[p].file].stage = "ready"
          /\ Owner(call[p].file) # NoSeed
          /\ call' = [call EXCEPT ![p].pc = "open", ![p].file = NoFile, ![p].lock = "none"]
       \/ Refuse(p)
    /\ UNCHANGED <<path, aside, file, created, late>>

\* The schema is there, and the first record decrypts with this seed's key.
ValidateExisting(p) ==
    /\ call[p].pc = "check"
    /\ \/ /\ file[call[p].file].stage = "ready"
          /\ Owner(call[p].file) = call[p].seed
          /\ call' = [call EXCEPT ![p].pc = "open", ![p].file = NoFile, ![p].lock = "none"]
       \/ Refuse(p)
    /\ UNCHANGED <<path, aside, file, created, late>>

-----------------------------------------------------------------------------
(* openWallet: keystore.Open, then fillPool *)

\* bolt.Open opens the path again, and creates a file if there is none.
OpenDatabase(p) ==
    /\ call[p].pc = "open"
    /\ \/ /\ path # NoFile
          /\ call' = [call EXCEPT ![p].pc = "lock", ![p].file = path]
          /\ UNCHANGED <<path, file>>
       \/ /\ path = NoFile
          /\ \E f \in Unused :
                 /\ path' = f
                 /\ file' = [file EXCEPT ![f].stage = "empty"]
                 /\ call' = [call EXCEPT ![p].pc = "lock", ![p].file = f]
       \/ Fail(p) /\ UNCHANGED <<path, file>>
    /\ UNCHANGED <<aside, created, late>>

\* bolt.Open without a timeout waits for the lock, then formats an empty file.
LockDatabase(p) ==
    /\ call[p].pc = "lock"
    /\ ~Locked(call[p].file, {"shared", "exclusive"})
    /\ file' = [file EXCEPT ![call[p].file].stage = IF @ = "empty" THEN "formatted" ELSE @]
    /\ call' = [call EXCEPT ![p].pc = "schema", ![p].lock = "exclusive"]
    /\ UNCHANGED <<path, aside, created, late>>

InitBuckets(p) ==
    /\ call[p].pc = "schema"
    /\ \/ /\ file' = [file EXCEPT ![call[p].file].stage = "ready"]
          /\ call' = [call EXCEPT ![p].pc = "fill"]
       \/ Fail(p) /\ UNCHANGED file
    /\ UNCHANGED <<path, aside, created, late>>

PoolIsFull(f) == Len(file[f].records) >= file[f].used + PoolSize
Generate(f, s) == file' = [file EXCEPT ![f].records = Append(@, s)]

\* Mutant: openWallet returns the wallet although fillPool failed.
FillPool_IgnoreError(p) ==
    LET f == call[p].file IN
    /\ call[p].pc = "fill"
    /\ \/ ~PoolIsFull(f) /\ Generate(f, call[p].seed) /\ UNCHANGED <<call, created, late>>
       \/ /\ call' = [call EXCEPT ![p].pc = "idle"]
          /\ created' = IF call[p].kind = "create" THEN created \cup {f} ELSE created
          /\ UNCHANGED <<file, late>>
    /\ UNCHANGED <<path, aside>>

\* One address and one transaction at a time; then the wallet is returned.
FillPool(p) ==
    LET f == call[p].file IN
    /\ call[p].pc = "fill"
    /\ \/ /\ ~PoolIsFull(f)
          /\ Generate(f, call[p].seed)
          /\ UNCHANGED <<call, created, late>>
       \/ /\ ~PoolIsFull(f)
          /\ Fail(p)
          /\ late' = (late \/ (call[p].kind = "create" /\ file[f].records # <<>>))
          /\ UNCHANGED <<file, created>>
       \/ /\ PoolIsFull(f)
          /\ call' = [call EXCEPT ![p].pc = "idle"]
          /\ created' = IF call[p].kind = "create" THEN created \cup {f} ELSE created
          /\ UNCHANGED <<file, late>>
    /\ UNCHANGED <<path, aside>>

-----------------------------------------------------------------------------
(* What else happens *)

\* ObserveFunding: an address of an open wallet is credited, which is a
\* transaction of its own; then the pool is filled again.
UseAddress(p) ==
    LET f == call[p].file IN
    /\ HasWallet(p) /\ call[p].pc = "idle"
    /\ file[f].used < Len(file[f].records) /\ file[f].used < MaxUsed
    /\ file' = [file EXCEPT ![f].used = @ + 1]
    /\ call' = [call EXCEPT ![p].pc = "refill"]
    /\ UNCHANGED <<path, aside, created, late>>

\* One address and one transaction at a time. Unlike in openWallet, an error is
\* printed as a WARNING: the wallet stays open with a short pool.
RefillPool(p) ==
    LET f == call[p].file IN
    /\ call[p].pc = "refill"
    /\ \/ ~PoolIsFull(f) /\ Generate(f, call[p].seed) /\ UNCHANGED call
       \/ call' = [call EXCEPT ![p].pc = "idle"] /\ UNCHANGED file
    /\ UNCHANGED <<path, aside, created, late>>

Crash(p) ==
    /\ call[p] # NoCall
    /\ call' = [call EXCEPT ![p] = NoCall]
    /\ UNCHANGED <<path, aside, file, created, late>>

\* The user follows "back up and remove the existing file first", with no
\* call under way (a wallet may be open).
MoveAside ==
    /\ \A p \in Process : call[p].pc = "idle"
    /\ path # NoFile
    /\ path' = NoFile
    /\ aside' = aside \cup {path}
    /\ UNCHANGED <<file, call, created, late>>

PutBack(f) ==
    /\ \A p \in Process : call[p].pc = "idle"
    /\ path = NoFile
    /\ f \in aside
    /\ path' = f
    /\ aside' = aside \ {f}
    /\ UNCHANGED <<file, call, created, late>>

LibraryStep(p) ==
    \/ CreateNew(p) \/ CloseClaim(p) \/ RemoveCreated(p)
    \/ OpenExisting(p) \/ OpenReadOnly(p) \/ LockShared(p) \/ ValidateExisting(p)
    \/ OpenDatabase(p) \/ LockDatabase(p) \/ InitBuckets(p) \/ FillPool(p)

FileNext ==
    \/ \E p \in Process :
        \/ \E kind \in {"create", "open"}, s \in Seed : LoadWallet(p, kind, s)
        \/ Close(p)
        \/ LibraryStep(p)
        \/ UseAddress(p)
        \/ RefillPool(p)
        \/ Crash(p)
    \/ MoveAside
    \/ \E f \in File : PutBack(f)

FileSpec == FileInit /\ [][FileNext]_fileVars

-----------------------------------------------------------------------------
(* Properties *)

\* What a caller was given as a new wallet stays where the user left it: no
\* failing or concurrent CreateNew removes or replaces the file (wallet.go's
\* "race-safe" claim and its os.Remove).
CreatedStays == created \subseteq aside \cup {path}

\* All addresses of a file are encrypted under one seed: no call that has not
\* proved the seed writes to a wallet. A creation that failed after its first
\* address is excepted: see the README on openers that wait for it.
OneSeedPerFile ==
    ~late => \A f \in File : \A i \in DOMAIN file[f].records : file[f].records[i] = Owner(f)

\* A wallet that is open can be opened again with the seed its holder used: the
\* schema is complete, and there is a record, which this seed decrypts, in every
\* state that its creation, concurrent openers and failed refills can leave.
OpenIsReopenable ==
    ~late => \A p \in Process : HasWallet(p) =>
        LET f == call[p].file IN
        file[f].stage = "ready" /\ Owner(f) = call[p].seed

\* A process that waits for the lock waits for another one, which does not
\* wait itself: bolt.Open has no timeout, so waiting for oneself, or in a
\* circle, would be for ever.
NobodyWaitsInACircle ==
    \A p, q \in Process :
        (/\ call[p].pc \in {"lock", "share"}
         /\ call[q].lock # "none"
         /\ call[q].file = call[p].file)
        => p # q /\ call[q].pc \notin {"lock", "share"}

-----------------------------------------------------------------------------
(* The inductive invariant *)

\* What a call has bound and locked follows from where it is.
CallMatches(p) ==
    LET c == call[p] IN
    /\ c = NoCall \/ (c.seed \in Seed /\ c.kind # "none")
    /\ c.pc \in {"claimed", "remove"} => c.kind = "create"
    /\ c.pc \in {"validate", "share", "check"} => c.kind = "open"
    /\ c.file # NoFile <=>
           c.pc \in {"lock", "share", "check", "schema", "fill", "refill"} \/ HasWallet(p)
    /\ c.lock = IF c.pc \in {"schema", "fill"} \/ HasWallet(p) THEN "exclusive"
                ELSE IF c.pc = "check" THEN "shared" ELSE "none"

LocksExclude ==
    \A p, q \in Process : p # q /\ call[p].file = call[q].file /\ call[p].lock = "exclusive"
        => call[q].lock = "none"

\* Whatever is named, kept or open has been created; a record is in a file with
\* its schema; a call that runs holds no file that was moved away.
FilesExist ==
    /\ \A f \in Unused : f # path /\ f \notin aside \cup created
    /\ path \notin aside
    /\ \A f \in File : file[f].records # <<>> => file[f].stage = "ready"
    /\ \A p \in Process : call[p].file # NoFile =>
        /\ call[p].file \notin Unused
        /\ call[p].file \in aside => HasWallet(p)
        /\ call[p].pc = "fill" \/ HasWallet(p) => file[call[p].file].stage = "ready"

Creating(p) ==
    /\ call[p].kind = "create"
    /\ call[p].pc \in {"claimed", "open", "lock", "schema", "fill", "remove"}

\* The path is the creation's from its claim to its end.
CreatorOwnsPath ==
    \A p \in Process : Creating(p) =>
        /\ path # NoFile /\ path \notin created
        /\ call[p].file \in {NoFile, path}
        /\ \A q \in Process : Creating(q) => q = p

\* Who writes a file, or has it open, has the seed of what is there.
SeedHolds(p) ==
    /\ Creating(p) => Owner(path) \in IF call[p].pc = "fill" THEN {NoSeed, call[p].seed}
                                                           ELSE {NoSeed}
    /\ call[p].kind = "open" /\ call[p].pc = "open" =>
           path # NoFile /\ Owner(path) = call[p].seed
    /\ (call[p].kind = "open" /\ call[p].pc \in {"lock", "schema", "fill"}) \/ HasWallet(p) =>
           Owner(call[p].file) = call[p].seed

\* The records of a file are all its owner's, and a file with records is not lost.
RecordsKept ==
    \A f \in File : file[f].records # <<>> =>
        /\ f \in aside \cup {path}
        /\ \A i \in DOMAIN file[f].records : file[f].records[i] = Owner(f)

SeedsMatch == RecordsKept /\ \A p \in Process : SeedHolds(p)

FInv ==
    /\ FileTypeOK
    /\ \A p \in Process : CallMatches(p)
    /\ LocksExclude
    /\ FilesExist
    /\ CreatorOwnsPath
    /\ CreatedStays
    /\ ~late => SeedsMatch
=============================================================================
