------------------------------ MODULE RngSlot ------------------------------
(***************************************************************************)
(* Package slhdsa: the one random number generator of liboqs, which is     *)
(* global to the process.  NewSignerFromSeed redirects it to a callback    *)
(* that hands out its seed; Sign and NewSigner draw from it and must get   *)
(* the system's randomness.  rngMu keeps them apart.                       *)
(*                                                                         *)
(* How often liboqs draws for a key, and how many bytes, is its own        *)
(* business: every number of draws up to MaxDraws and every size is        *)
(* considered, as a new version of the library might behave.               *)
(***************************************************************************)
EXTENDS Naturals

CONSTANTS
  Thread,    \* the callers
  NoThread,  \* rngMu is free
  Seed,      \* the seeds they derive keys from
  System,    \* the operating system's randomness
  Zeros,     \* what the callback writes when it refuses
  MaxDraws   \* bound: draws for one key or signature

ASSUME RngAssumption ==
  /\ NoThread \notin Thread /\ System \notin Thread
  /\ System \notin Seed /\ Zeros \notin Seed /\ System # Zeros
  /\ MaxDraws \in Nat

VARIABLES
  rngMu,  \* the thread that holds it, or NoThread
  slot,   \* System, or the thread whose callback is installed
  job,    \* what each thread is doing
  made    \* history: keys and signatures that were returned without an error

rngVars == <<rngMu, slot, job, made>>

\* NewSigner, NewSignerFromSeed and Sign.
RngOp == {"none", "new", "seeded", "sign"}
RngPc == {"idle", "lock", "install", "draw", "check", "restore", "unlock"}
Source == Seed \cup {System, Zeros}

\* called and cbErr are the variables that the callback captures.
Job == [op : RngOp, pc : RngPc, seed : Seed \cup {Zeros}, sources : SUBSET Source,
        draws : 0 .. MaxDraws, called : BOOLEAN, cbErr : BOOLEAN, ok : BOOLEAN]

NoJob == [op |-> "none", pc |-> "idle", seed |-> Zeros, sources |-> {},
          draws |-> 0, called |-> FALSE, cbErr |-> FALSE, ok |-> FALSE]

RngInit ==
  /\ rngMu = NoThread
  /\ slot = System
  /\ job = [th \in Thread |-> NoJob]
  /\ made = {}

-----------------------------------------------------------------------------

CallSeeded(th, seed) ==
  /\ job[th] = NoJob
  /\ job' = [job EXCEPT ![th] = [NoJob EXCEPT !.op = "seeded", !.pc = "lock", !.seed = seed]]
  /\ UNCHANGED <<rngMu, slot, made>>

CallNewOrSign(th, op) ==
  /\ job[th] = NoJob
  /\ job' = [job EXCEPT ![th] = [NoJob EXCEPT !.op = op, !.pc = "lock"]]
  /\ UNCHANGED <<rngMu, slot, made>>

\* Mutant: Sign draws without the mutex.
LockRng_NotForSign(th) ==
  /\ job[th].pc = "lock"
  /\ rngMu = NoThread \/ job[th].op = "sign"
  /\ rngMu' = IF job[th].op = "sign" THEN rngMu ELSE th
  /\ job' = [job EXCEPT ![th].pc = IF job[th].op = "seeded" THEN "install" ELSE "draw"]
  /\ UNCHANGED <<slot, made>>

LockRng(th) ==
  /\ job[th].pc = "lock"
  /\ rngMu = NoThread
  /\ rngMu' = th
  /\ job' = [job EXCEPT ![th].pc = IF job[th].op = "seeded" THEN "install" ELSE "draw"]
  /\ UNCHANGED <<slot, made>>

\* If the callback cannot be installed, only the mutex is released; if Init
\* fails afterwards, the system's generator is restored too.
InstallCallback(th) ==
  /\ job[th].pc = "install"
  /\ \/ /\ slot' = slot
        /\ job' = [job EXCEPT ![th].pc = "unlock"]
     \/ /\ slot' = th
        /\ \E pc \in {"draw", "restore"} : job' = [job EXCEPT ![th].pc = pc]
  /\ UNCHANGED <<rngMu, made>>

\* The callback of thread owner answers a draw by thread th: its seed, once and
\* for the right size, and zeros with an error otherwise.
Callback(th, owner, sizeIsRight) ==
  LET accepts == ~job[owner].called /\ sizeIsRight
      source  == IF accepts THEN job[owner].seed ELSE Zeros
  IN  [x \in Thread |->
         [job[x] EXCEPT !.called  = @ \/ x = owner,
                        !.cbErr   = @ \/ (x = owner /\ ~accepts),
                        !.draws   = IF x = th THEN @ + 1 ELSE @,
                        !.sources = IF x = th THEN @ \cup {source} ELSE @]]

Draw(th) ==
  /\ job[th].pc = "draw"
  /\ job[th].draws < MaxDraws
  /\ IF slot = System
     THEN job' = [job EXCEPT ![th].draws = @ + 1, ![th].sources = @ \cup {System}]
     ELSE \E sizeIsRight \in BOOLEAN : job' = Callback(th, slot, sizeIsRight)
  /\ UNCHANGED <<rngMu, slot, made>>

\* Mutant: a key generation that failed is tried again.
Drawn_Retries(th) ==
  /\ job[th].pc = "draw"
  /\ \E failed \in BOOLEAN :
       /\ failed \/ job[th].op = "seeded" \/ job[th].draws > 0
       /\ job' = [job EXCEPT ![th].pc = IF failed THEN "draw"
                                         ELSE IF job[th].op # "seeded" THEN "unlock" ELSE "check",
                             ![th].draws = IF failed THEN 0 ELSE @,
                             ![th].ok = ~failed /\ job[th].op # "seeded"]
  /\ UNCHANGED <<rngMu, slot, made>>

\* GenerateKeyPair or Sign returns, with an error or without.  A signature and a
\* key without a seed took at least one draw.
Drawn(th) ==
  /\ job[th].pc = "draw"
  /\ \E failed \in BOOLEAN :
       /\ failed \/ job[th].op = "seeded" \/ job[th].draws > 0
       /\ job' = [job EXCEPT ![th].pc = IF job[th].op # "seeded" THEN "unlock"
                                         ELSE IF failed THEN "restore" ELSE "check",
                             ![th].ok = ~failed /\ job[th].op # "seeded"]
  /\ UNCHANGED <<rngMu, slot, made>>

\* Mutant: the error of the callback is not looked at.
CheckCallback_CalledOnly(th) ==
  /\ job[th].pc = "check"
  /\ job' = [job EXCEPT ![th].pc = "restore", ![th].ok = job[th].called]
  /\ UNCHANGED <<rngMu, slot, made>>

CheckCallback(th) ==
  /\ job[th].pc = "check"
  /\ job' = [job EXCEPT ![th].pc = "restore", ![th].ok = job[th].called /\ ~job[th].cbErr]
  /\ UNCHANGED <<rngMu, slot, made>>

\* Mutant: the mutex is released with the callback still installed.
RestoreSystem_Skipped(th) ==
  /\ job[th].pc = "restore"
  /\ job' = [job EXCEPT ![th].pc = "unlock"]
  /\ UNCHANGED <<rngMu, slot, made>>

\* The deferred calls run last in, first out: restore, then unlock.
RestoreSystem(th) ==
  /\ job[th].pc = "restore"
  /\ slot' = System
  /\ job' = [job EXCEPT ![th].pc = "unlock"]
  /\ UNCHANGED <<rngMu, made>>

UnlockRng(th) ==
  /\ job[th].pc = "unlock"
  /\ rngMu' = NoThread
  /\ made' = IF job[th].ok
             THEN made \cup {[op |-> job[th].op, seed |-> job[th].seed, sources |-> job[th].sources]}
             ELSE made
  /\ job' = [job EXCEPT ![th] = NoJob]
  /\ UNCHANGED slot

Run(th) ==
  \/ LockRng(th) \/ InstallCallback(th) \/ Draw(th) \/ Drawn(th)
  \/ CheckCallback(th) \/ RestoreSystem(th) \/ UnlockRng(th)

RngNext ==
  \E th \in Thread :
    \/ \E seed \in Seed : CallSeeded(th, seed)
    \/ \E op \in {"new", "sign"} : CallNewOrSign(th, op)
    \/ Run(th)

\* A goroutine that can run does; a mutex waiter gets its turn.
RngFairness == \A th \in Thread : WF_rngVars(Run(th)) /\ SF_rngVars(LockRng(th))

RngSpec == RngInit /\ [][RngNext]_rngVars /\ RngFairness

-----------------------------------------------------------------------------

\* The mutex is held by the thread between its lock and its unlock.
RngTypeOK ==
  /\ rngMu \in Thread \cup {NoThread}
  /\ slot \in Thread \cup {System}
  /\ job \in [Thread -> Job]
  /\ made \subseteq [op : RngOp, seed : Seed \cup {Zeros}, sources : SUBSET Source]
  /\ \A th \in Thread : rngMu = th <=> job[th].pc \notin {"idle", "lock"}

\* Nobody else can reach the generator while a callback is installed, and it is
\* the system's again before the mutex is free, on every error path too.
CallbackIsExclusive ==
  slot # System => rngMu = slot /\ job[slot].op = "seeded" /\ job[slot].pc \in {"draw", "check", "restore"}

\* A key derived from a seed depends on that seed alone: never on a seed of
\* another thread, on the system's randomness, or on zeros written by a callback
\* that refused; the wallet is restored from its seed on this ground.
KeyIsFromItsSeed ==
  \A k \in made : k.op = "seeded" => k.sources = {k.seed}

\* A signature, or a key without a seed, uses the system's randomness alone: its
\* randomizer is never a seed.
RandomnessIsSystem ==
  \A k \in made : k.op # "seeded" => k.sources = {System}

\* Every call returns.
CallsFinish == \A th \in Thread : job[th] # NoJob ~> job[th] = NoJob
=============================================================================
